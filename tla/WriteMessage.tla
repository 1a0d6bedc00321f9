---------------------------- MODULE WriteMessage ----------------------------
(***************************************************************************)
(* WriteMessageN: one caller writes messages to a connection.              *)
(*                                                                         *)
(* The validations touch nothing that is shared, so that they and the      *)
(* encoding are one step; each of the two calls of Write, the header and   *)
(* the payload, is a step that the connection may cut short.               *)
(***************************************************************************)
EXTENDS Connection

CONSTANTS
  Messages,    \* what the caller may write: [kind, body]
  WriteFaults  \* whether an open connection may fail a write

(* The Message interface can be implemented outside of the package: "bogus"*)
(* stands for a type with a command that this package does not know, and   *)
(* "overlong" for one with a command of more than CommandSize bytes.       *)
ForeignKinds == {"bogus", "overlong"}

ASSUME WriteAssumption ==
  /\ WriteFaults \in BOOLEAN
  /\ bmnet \in Nat /\ MaxWire \in Nat
  /\ \A m \in Messages :
       \/ m.kind \in ForeignKinds /\ m.body \in Seq(Nat)
       \/ m.kind \in Kinds /\ m.body \in Body(m.kind)

VARIABLES
  wpc,     \* where the call is: "idle", or the Write it is in, or "panicked"
  wmsg,    \* the message of the current or last call
  wstart,  \* the length of the wire when that call began
  wret     \* what the last call returned: count, error

writeVars == <<wpc, wmsg, wstart, wret>>

NothingToWrite == [kind |-> "none", body |-> <<>>]

-----------------------------------------------------------------------------
(* What a message becomes on the wire *)

(* The command of a message, as a cell (see CommandName). *)
ObjectCell  == 7
UnknownCell == 30

CommandCell(kind) ==
  CASE kind \in ObjectKinds     -> ObjectCell
    [] kind \in HandledCommands ->
         CHOOSE c \in DOMAIN CommandName : CommandName[c] = kind
    [] OTHER                    -> UnknownCell

CommandTooLong(m) == m.kind = "overlong"

(* The Encode method; a foreign type is its own payload. *)
Payload(m) == IF m.kind \in ForeignKinds THEN [payload |-> m.body, err |-> "nil"]
                                         ELSE Encode(m.kind, m.body)

(* Mutant: only the limit that all messages share is enforced. *)
PayloadTooLargeOverall(m) == Len(Payload(m).payload) > MaxMessagePayload

PayloadTooLarge(m) ==
  LET length == Len(Payload(m).payload)
  IN  length > MaxMessagePayload \/ length > MaxPayloadLength(m.kind)

(* The checksum is a cell. *)
ASSUME ChecksumAssumption ==
  \A m \in Messages : Checksum(Payload(m).payload) \in Nat

HeaderCells(m) ==
  LET payload == Payload(m).payload
  IN  <<bmnet, CommandCell(m.kind), Len(payload), Checksum(payload)>>

FrameOf(m) == HeaderCells(m) \o Payload(m).payload

(* The first error of the validations, "nil" when the message is written.  *)
Validate(m) ==
  IF CommandTooLong(m) THEN "MessageError"
  ELSE IF Payload(m).err # "nil" THEN Payload(m).err
  ELSE IF PayloadTooLarge(m) THEN "MessageError"
  ELSE "nil"

-----------------------------------------------------------------------------
(* The steps of a call *)

WriteInit ==
  /\ wpc = "idle"
  /\ wmsg = NothingToWrite
  /\ wstart = 0
  /\ wret = [n |-> 0, err |-> "none"]

(* io.Writer: n < Len(cells) comes with an error, an error may come with   *)
(* any n.  Nothing can be added to a wire that is closed.                  *)
Write(cells, n, err) ==
  /\ \/ err = "nil" /\ n = Len(cells) /\ ~closed
     \/ err = "WriteError" /\ (closed => n = 0) /\ (WriteFaults \/ closed)
  /\ wire' = wire \o SubSeq(cells, 1, n)

WriteReturn(n, err) ==
  /\ wpc' = "idle"
  /\ wret' = [n |-> n, err |-> err]

Submit(m) ==
  /\ wpc = "idle" /\ Len(wire) < MaxWire
  /\ wmsg' = m
  /\ wstart' = Len(wire)
  /\ UNCHANGED <<wire, closed>>

(* Mutant: a panic of Encode is recovered and returned. *)
SubmitRefusedOrPanics ==
  \E m \in Messages : /\ Submit(m) /\ Validate(m) # "nil"
                      /\ WriteReturn(0, Validate(m))

SubmitRefused ==
  /\ \E m \in Messages : Submit(m) /\ Validate(m) = "MessageError"
  /\ WriteReturn(0, "MessageError")

(* Encode dereferences a nil pointer: the call does not return. *)
SubmitPanics ==
  /\ \E m \in Messages : Submit(m) /\ Validate(m) = "panic"
  /\ wpc' = "panicked"
  /\ UNCHANGED wret

SubmitAccepted ==
  /\ \E m \in Messages : Submit(m) /\ Validate(m) = "nil"
  /\ wpc' = "header"
  /\ UNCHANGED wret

HeaderWritten ==
  /\ wpc = "header"
  /\ Write(HeaderCells(wmsg), MessageHeaderSize, "nil")
  /\ wpc' = "payload"
  /\ UNCHANGED <<closed, wmsg, wstart, wret>>

(* Mutant: the payload is written although the header was not. *)
HeaderWriteFailsUnnoticed ==
  /\ wpc = "header"
  /\ \E n \in 0..MessageHeaderSize :
       Write(HeaderCells(wmsg), n, "WriteError")
  /\ wpc' = "payload"
  /\ UNCHANGED <<closed, wmsg, wstart, wret>>

HeaderWriteFails ==
  /\ wpc = "header"
  /\ \E n \in 0..MessageHeaderSize :
       /\ Write(HeaderCells(wmsg), n, "WriteError")
       /\ WriteReturn(n, "WriteError")
  /\ UNCHANGED <<closed, wmsg, wstart>>

PayloadWritten ==
  /\ wpc = "payload"
  /\ LET payload == Payload(wmsg).payload
     IN  /\ Write(payload, Len(payload), "nil")
         /\ WriteReturn(MessageHeaderSize + Len(payload), "nil")
  /\ UNCHANGED <<closed, wmsg, wstart>>

(* Mutant: what the failed Write took is not counted. *)
PayloadWriteFailsUncounted ==
  /\ wpc = "payload"
  /\ LET payload == Payload(wmsg).payload
     IN  \E n \in 0..Len(payload) :
           /\ Write(payload, n, "WriteError")
           /\ WriteReturn(MessageHeaderSize, "WriteError")
  /\ UNCHANGED <<closed, wmsg, wstart>>

PayloadWriteFails ==
  /\ wpc = "payload"
  /\ LET payload == Payload(wmsg).payload
     IN  \E n \in 0..Len(payload) :
           /\ Write(payload, n, "WriteError")
           /\ WriteReturn(MessageHeaderSize + n, "WriteError")
  /\ UNCHANGED <<closed, wmsg, wstart>>

(* The connection is closed by its owner, between two calls or during one. *)
WriterCloses ==
  /\ ~closed
  /\ closed' = TRUE
  /\ UNCHANGED <<wire, writeVars>>

WriteStep ==
  HeaderWritten \/ HeaderWriteFails \/ PayloadWritten \/ PayloadWriteFails

WriteNext ==
  SubmitRefused \/ SubmitPanics \/ SubmitAccepted \/ WriteStep \/ WriterCloses

WriterVars == <<wire, closed, writeVars>>

WriterInit == wire = <<>> /\ closed = FALSE /\ WriteInit

WriterSpec == WriterInit /\ [][WriteNext]_WriterVars

-----------------------------------------------------------------------------
(* Properties *)

(* Every variable has its type; nothing is taken back from the wire.       *)
WriteTypeOK ==
  /\ wire \in Seq(Nat) /\ closed \in BOOLEAN
  /\ wpc \in {"idle", "header", "payload", "panicked"}
  /\ wmsg \in Messages \cup {NothingToWrite}
  /\ wstart \in 0..Len(wire)
  /\ wret.n \in Nat
  /\ wret.err \in {"none", "nil", "MessageError", "WriteError"}

(* The cells of the current or last call. *)
Contribution == SubSeq(wire, wstart + 1, Len(wire))

(* Whatever Write does to the two parts of a frame, the count that is      *)
(* returned is what the call put on the wire.                              *)
WriteCountAccounts ==
  wpc = "idle" /\ wret.err # "none" => wret.n = Len(Contribution)

(* A call puts a prefix of one frame on the wire, the whole frame when it  *)
(* succeeds, and nothing when it refuses the message or panics.            *)
WritesOneFrame ==
  /\ wmsg # NothingToWrite /\ Contribution # <<>> =>
       /\ Validate(wmsg) = "nil"
       /\ Contribution = SubSeq(FrameOf(wmsg), 1, Len(Contribution))
  /\ wpc = "idle" /\ wret.err = "nil" => Contribution = FrameOf(wmsg)

(* What a decoder at the other end can know of a message: times are whole  *)
(* seconds, of 32 bits in an address of an addr message and absent from    *)
(* those of a version message; an absent IP is the zero IP; the keys that  *)
(* the version of an object does not select are lost.                      *)
Transmitted(m) ==
  LET b       == m.body
      Second(t) == <<t[1], 0>>
      Address(na, stamp) ==
        <<stamp, na[2], IF na[3] = NilIP THEN ZeroIP ELSE na[3], na[4]>>
      blank == EmptyMessage(m.kind)
      body ==
        CASE m.kind = "addr" ->
               [i \in DOMAIN b |-> Address(b[i], b[i][1] % StampModulus)]
          [] m.kind = "version" ->
               [b EXCEPT !.timestamp = Second(@),
                         !.addrYou   = Address(@, ZeroTime),
                         !.addrMe    = Address(@, ZeroTime)]
          [] m.kind = "getpubkey" ->
               [b EXCEPT !.expires = Second(@),
                         !.ripe = IF b.version >= 4 THEN <<>> ELSE @,
                         !.tag  = IF b.version >= 4 THEN @ ELSE <<>>]
          [] m.kind = "pubkey" /\ b.version >= 4 ->
               [blank EXCEPT !.nonce = b.nonce, !.expires = Second(b.expires),
                             !.objectType = b.objectType,
                             !.version = b.version, !.stream = b.stream,
                             !.tag = b.tag, !.encrypted = b.encrypted]
          [] m.kind = "pubkey" /\ b.version = 3 ->
               [b EXCEPT !.expires = Second(@), !.tag = <<>>, !.encrypted = <<>>]
          [] m.kind = "pubkey" /\ b.version < 3 ->
               [b EXCEPT !.expires = Second(@), !.tag = <<>>, !.encrypted = <<>>,
                         !.nonceTrials = 0, !.extraBytes = 0, !.signature = <<>>]
          [] m.kind \in {"msg", "broadcast"} -> [b EXCEPT !.expires = Second(@)]
          [] OTHER -> b
  IN  [kind |-> m.kind, body |-> body]

(* A frame that was written without an error is one that ReadMessageN      *)
(* accepts: the limits of the two ends agree, the command selects the type *)
(* and Decode undoes Encode, up to what is not transmitted.                *)
WrittenIsReadable ==
  wpc = "idle" /\ wret.err = "nil" /\ wmsg.kind \in Kinds =>
    LET h == HeaderAt(wstart)
    IN  /\ ~TooLarge(h)
        /\ h.length = Len(wire) - wstart - MessageHeaderSize
        /\ Outcome(h, Cells(wstart + MessageHeaderSize, h.length))
             = [msg |-> Transmitted(wmsg), err |-> "nil"]
=============================================================================
