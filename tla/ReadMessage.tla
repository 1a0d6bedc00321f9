----------------------------- MODULE ReadMessage ----------------------------
(***************************************************************************)
(* ReadMessageN: one caller reads messages from a connection.              *)
(*                                                                         *)
(* A call is interrupted only by its reads, so that each io.ReadFull is a  *)
(* step: the header, the payload, or one chunk of a payload that is        *)
(* discarded.  The computation between two reads belongs to the step of    *)
(* the first one.  Who writes to the connection is left to the modules     *)
(* that extend this one.                                                   *)
(***************************************************************************)
EXTENDS Connection

CONSTANTS
  DiscardChunk,  \* the chunk size of discardInput, 10 * 1024
  ReadFaults     \* the errors of the connection other than its end

ASSUME ReadAssumption ==
  /\ DiscardChunk \in Nat \ {0}
  /\ ReadFaults \subseteq {"Timeout"}

VARIABLES
  pos,    \* cells taken from the wire so far
  rpc,    \* where the call is: "idle", or the read it is in
  start,  \* pos when the current or last call began
  hdr,    \* the header of the current or last call
  reads,  \* discardInput: full chunks still to read
  rest,   \* discardInput: bytesRemaining, 0 once read
  fault,  \* the last error of a read in this call, "nil" if none (history)
  ret     \* what the last call returned: count, message, error

readVars == <<pos, rpc, start, hdr, reads, rest, fault, ret>>

NoHeader == [magic |-> 0, command |-> "none", length |-> 0, checksum |-> 0]

ReadErrors == {"nil"} \cup ReadFullErrors \cup ReadFaults

-----------------------------------------------------------------------------
(* io.ReadFull *)

(* Reading `want` cells takes n of them and returns err.  Nothing is read  *)
(* for an empty buffer; without a fault the read waits until the cells are *)
(* there or the wire has ended.                                            *)
ReadFull(want, n, err) ==
  /\ pos + n <= Len(wire)
  /\ \/ err = "nil" /\ n = want
     \/ err = "EOF" /\ n = 0 /\ want > 0 /\ closed /\ pos = Len(wire)
     \/ err = "UnexpectedEOF" /\ 0 < n /\ n < want /\ closed
          /\ pos + n = Len(wire)
     \/ err \in ReadFaults /\ n < want

Return(n, msg, err) ==
  /\ rpc' = "idle"
  /\ ret' = [n |-> n, msg |-> msg, err |-> err]

-----------------------------------------------------------------------------
(* The steps of a call *)

ReadInit ==
  /\ pos = 0 /\ start = 0
  /\ rpc = "idle"
  /\ hdr = NoHeader
  /\ reads = 0 /\ rest = 0
  /\ fault = "nil"
  /\ ret = [n |-> 0, msg |-> NoMessage, err |-> "none"]

Call ==
  /\ rpc = "idle"
  /\ rpc' = "header"
  /\ start' = pos
  /\ hdr' = NoHeader
  /\ fault' = "nil"
  /\ UNCHANGED <<wire, closed, pos, reads, rest, ret>>

(* readMessageHeader returns the error of its read. *)
HeaderFails ==
  /\ rpc = "header"
  /\ \E n \in 0..MessageHeaderSize, err \in ReadErrors \ {"nil"} :
       /\ ReadFull(MessageHeaderSize, n, err)
       /\ pos' = pos + n
       /\ fault' = err
       /\ Return(n, NoMessage, err)
  /\ UNCHANGED <<wire, closed, start, hdr, reads, rest>>

(* The part that is common to the three ways on from a complete header. *)
HeaderRead ==
  /\ rpc = "header"
  /\ ReadFull(MessageHeaderSize, MessageHeaderSize, "nil")
  /\ pos' = pos + MessageHeaderSize
  /\ hdr' = HeaderAt(pos)
  /\ UNCHANGED <<wire, closed, start, fault>>

(* Mutant: the payload of a frame that is too large is skipped as well. *)
HeaderTooLargeSkips ==
  /\ HeaderRead
  /\ TooLarge(hdr')
  /\ rpc' = "discard"
  /\ reads' = hdr'.length \div DiscardChunk
  /\ rest' = hdr'.length % DiscardChunk
  /\ UNCHANGED ret

(* A length above the overall maximum: nothing of the payload is skipped. *)
HeaderTooLarge ==
  /\ HeaderRead
  /\ TooLarge(hdr')
  /\ Return(MessageHeaderSize, NoMessage, "MessageError")
  /\ UNCHANGED <<reads, rest>>

(* Mutants: the number of chunks is rounded down, rounded up. *)
HeaderRefusedFloor ==
  /\ HeaderRead
  /\ ~TooLarge(hdr') /\ Refused(hdr')
  /\ rpc' = "discard"
  /\ reads' = hdr'.length \div DiscardChunk
  /\ rest' = 0
  /\ UNCHANGED ret

HeaderRefusedCeiling ==
  /\ HeaderRead
  /\ ~TooLarge(hdr') /\ Refused(hdr')
  /\ rpc' = "discard"
  /\ reads' = (hdr'.length + DiscardChunk - 1) \div DiscardChunk
  /\ rest' = 0
  /\ UNCHANGED ret

HeaderRefused ==
  /\ HeaderRead
  /\ ~TooLarge(hdr') /\ Refused(hdr')
  /\ rpc' = "discard"
  /\ reads' = hdr'.length \div DiscardChunk
  /\ rest' = hdr'.length % DiscardChunk
  /\ UNCHANGED ret

HeaderAccepted ==
  /\ HeaderRead
  /\ ~TooLarge(hdr') /\ ~Refused(hdr')
  /\ rpc' = "payload"
  /\ UNCHANGED <<reads, rest, ret>>

(* discardInput ignores what its reads return. *)
DiscardRead(want) ==
  /\ rpc = "discard"
  /\ \E n \in 0..want, err \in ReadErrors :
       /\ ReadFull(want, n, err)
       /\ pos' = pos + n
       /\ fault' = IF err = "nil" THEN fault ELSE err
  /\ UNCHANGED <<wire, closed, rpc, start, hdr, ret>>

(* Mutant: the loop runs once too often. *)
DiscardFullChunkAgain ==
  /\ reads >= 0
  /\ DiscardRead(DiscardChunk)
  /\ reads' = reads - 1
  /\ UNCHANGED rest

DiscardFullChunk ==
  /\ reads > 0
  /\ DiscardRead(DiscardChunk)
  /\ reads' = reads - 1
  /\ UNCHANGED rest

(* Mutant: the remainder is read until it has arrived. *)
DiscardRestForever ==
  /\ reads = 0 /\ rest > 0
  /\ DiscardRead(rest)
  /\ rest' = rest - (pos' - pos)
  /\ UNCHANGED reads

DiscardRest ==
  /\ reads = 0 /\ rest > 0
  /\ DiscardRead(rest)
  /\ rest' = 0
  /\ UNCHANGED reads

(* The error that made the call discard is returned, and the count does    *)
(* not include what was discarded.                                         *)
DiscardDone ==
  /\ rpc = "discard"
  /\ reads = 0 /\ rest = 0
  /\ Return(MessageHeaderSize, NoMessage, "MessageError")
  /\ UNCHANGED <<wire, closed, pos, start, hdr, reads, rest, fault>>

(* Mutants: the header is not counted; the error is made a MessageError. *)
PayloadFailsUncounted ==
  /\ rpc = "payload"
  /\ \E n \in 0..hdr.length, err \in ReadErrors \ {"nil"} :
       /\ ReadFull(hdr.length, n, err)
       /\ pos' = pos + n
       /\ fault' = err
       /\ Return(n, NoMessage, err)
  /\ UNCHANGED <<wire, closed, start, hdr, reads, rest>>

PayloadFailsAsMessage ==
  /\ rpc = "payload"
  /\ \E n \in 0..hdr.length, err \in ReadErrors \ {"nil"} :
       /\ ReadFull(hdr.length, n, err)
       /\ pos' = pos + n
       /\ fault' = err
       /\ Return(MessageHeaderSize + n, NoMessage, "MessageError")
  /\ UNCHANGED <<wire, closed, start, hdr, reads, rest>>

PayloadFails ==
  /\ rpc = "payload"
  /\ \E n \in 0..hdr.length, err \in ReadErrors \ {"nil"} :
       /\ ReadFull(hdr.length, n, err)
       /\ pos' = pos + n
       /\ fault' = err
       /\ Return(MessageHeaderSize + n, NoMessage, err)
  /\ UNCHANGED <<wire, closed, start, hdr, reads, rest>>

(* A panic of Decode goes through the call, and is the error here: whoever *)
(* recovers it has no message and no count.                                *)
PayloadRead ==
  /\ rpc = "payload"
  /\ ReadFull(hdr.length, hdr.length, "nil")
  /\ pos' = pos + hdr.length
  /\ LET parsed == Parse(hdr, Cells(pos, hdr.length))
     IN  Return(MessageHeaderSize + hdr.length, parsed.msg, parsed.err)
  /\ UNCHANGED <<wire, closed, start, hdr, reads, rest, fault>>

ReadStep ==
  \/ HeaderFails \/ HeaderTooLarge \/ HeaderRefused \/ HeaderAccepted
  \/ DiscardFullChunk \/ DiscardRest \/ DiscardDone
  \/ PayloadFails \/ PayloadRead

ReadNext == Call \/ ReadStep

-----------------------------------------------------------------------------
(* Properties *)

FrameEnd == start + MessageHeaderSize + hdr.length

(* Every variable has its type, whatever the peer writes.                  *)
ReadTypeOK ==
  /\ wire \in Seq(Nat) /\ closed \in BOOLEAN
  /\ start \in Nat /\ pos \in start..Len(wire)
  /\ rpc \in {"idle", "header", "discard", "payload"}
  /\ hdr = NoHeader \/ hdr \in [magic : Nat, command : Commands, length : Nat,
                                checksum : Nat]
  /\ reads \in Nat /\ rest \in 0..(DiscardChunk - 1)
  /\ fault \in ReadErrors
  /\ ret.n \in Nat /\ ret.err \in ReadErrors \cup {"none", "MessageError", "panic"}

(* A call that read a header with an acceptable length, on a connection    *)
(* that did not fail, leaves the connection at the end of that frame: the  *)
(* chunks of discardInput add up to the payload that was refused, and a    *)
(* payload that is malformed was nevertheless read whole.                  *)
FrameAligned ==
  rpc = "idle" /\ hdr # NoHeader /\ ~TooLarge(hdr) /\ fault = "nil"
     => pos = FrameEnd

(* No read, of a call that succeeds or fails and on a connection that      *)
(* fails at any read, takes a cell of the frame behind the current one.    *)
NeverOverreads ==
  IF hdr = NoHeader \/ TooLarge(hdr)
  THEN pos <= start + MessageHeaderSize
  ELSE pos <= FrameEnd

(* A message is returned only for the frame at the start of the call, for  *)
(* the caller's network, within the limit of its type, with the checksum   *)
(* of its payload, and it is what the payload decodes to.                  *)
DeliveredIsFrame ==
  rpc = "idle" /\ ret.err = "nil" =>
    LET payload == Cells(start + MessageHeaderSize, hdr.length)
        kind    == ret.msg.kind
    IN  /\ hdr = HeaderAt(start)
        /\ hdr.magic = bmnet
        /\ kind \in IF hdr.command = "object" THEN ObjectKinds
                                              ELSE {hdr.command}
        /\ hdr.length <= MaxPayloadLength(kind)
        /\ hdr.checksum = Checksum(payload)
        /\ Decode(kind, EmptyMessage(kind), payload)
             = [msg |-> ret.msg.body, err |-> "nil"]

(* What the count of a finished call says about the connection: the cells  *)
(* that were taken, unless the payload was skipped, when it is the header  *)
(* alone.                                                                  *)
CountAccounts ==
  rpc = "idle" /\ ret.err \notin {"none", "panic"} =>
    ret.n = IF hdr # NoHeader /\ ~TooLarge(hdr) /\ Refused(hdr)
            THEN MessageHeaderSize
            ELSE pos - start

(* Whatever a peer writes, a call panics only at the two counts that       *)
(* nothing limits, of the stream numbers of a version and of the signature *)
(* of a pubkey message: the limits that are tested before the other        *)
(* allocations are enough.  The frame has then been read whole.            *)
PanicsAtUnlimitedCounts ==
  rpc = "idle" /\ ret.err = "panic" =>
    LET p    == Cells(start + MessageHeaderSize, hdr.length)
        kind == KindOf(hdr, p)
    IN  /\ pos = FrameEnd /\ ret.msg = NoMessage
        /\ \/ kind = "version" /\ AgentErr(p) = "nil" /\ Huge(p, 12 + p[11])
           \/ kind = "pubkey" /\ p[4] = ExtendedPubKeyVersion /\ Huge(p, 11)

(* A failure of the connection reaches the caller as itself, never as a    *)
(* malformed message, except while a payload is being skipped.             *)
FaultsReported ==
  rpc = "idle" /\ fault # "nil" =>
    ret.err = IF hdr # NoHeader /\ Refused(hdr) THEN "MessageError" ELSE fault

(* message.go:213 says of ReadMessageN that it returns the number of bytes *)
(* read.                                                                   *)
CountIsBytesRead ==
  rpc = "idle" /\ ret.err \notin {"none", "panic"} => ret.n = pos - start

(* error.go:7 says that the type MessageError tells a malformed message    *)
(* from an error of the connection such as io.EOF.                         *)
IoErrorsComeFromTheConnection ==
  rpc = "idle" /\ ret.err \in ReadFullErrors \cup ReadFaults => fault # "nil"
=============================================================================
