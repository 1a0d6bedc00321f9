---------------------------- MODULE InboundProofs ---------------------------
(***************************************************************************)
(* Theorems about a connection that is read by ReadMessageN, whatever the  *)
(* peer writes, in whatever pieces, and however the connection fails.      *)
(*                                                                         *)
(* ReadInv is preserved by every step of a call and by whoever appends to  *)
(* the wire or closes it: the lemmas about the steps do not fix who does.  *)
(***************************************************************************)
EXTENDS InboundConnection, TLAPS

(* The inductive invariant, by the read that the call is in. *)

HeaderFacts ==
  /\ hdr = NoHeader => pos <= start + MessageHeaderSize
  /\ hdr # NoHeader =>
       /\ hdr = HeaderAt(start)
       /\ start + MessageHeaderSize <= pos
       /\ IF TooLarge(hdr) THEN pos = start + MessageHeaderSize
                           ELSE pos <= FrameEnd

InHeader ==
  rpc = "header" => hdr = NoHeader /\ pos = start /\ fault = "nil"

InPayload ==
  rpc = "payload" =>
    /\ hdr # NoHeader /\ ~TooLarge(hdr) /\ ~Refused(hdr)
    /\ pos = start + MessageHeaderSize
    /\ fault = "nil"

(* What is still to be discarded ends with the frame, short of it by what  *)
(* failed reads have left; a connection that does not fail has then ended. *)
Undiscarded == reads * DiscardChunk + rest

InDiscard ==
  rpc = "discard" =>
    /\ hdr # NoHeader /\ ~TooLarge(hdr) /\ Refused(hdr)
    /\ pos + Undiscarded <= FrameEnd
    /\ fault = "nil" => pos + Undiscarded = FrameEnd
    /\ fault # "nil" => ReadFaults # {} \/ (closed /\ pos = Len(wire))

Idle ==
  rpc = "idle" => 
    /\ FrameAligned /\ DeliveredIsFrame /\ CountAccounts /\ FaultsReported
    /\ ret.err = "nil" => hdr # NoHeader /\ ~TooLarge(hdr) /\ fault = "nil"

ReadInv ==
  ReadTypeOK /\ HeaderFacts /\ InHeader /\ InPayload /\ InDiscard /\ Idle

-----------------------------------------------------------------------------
(* Facts about sequences and numbers *)

(* A cut of a sequence is made of its elements. *)
LEMMA CutType ==
  ASSUME NEW s \in Seq(Nat), NEW a \in Nat, NEW n \in Nat, a + n <= Len(s)
  PROVE  /\ SubSeq(s, a + 1, a + n) \in Seq(Nat)
         /\ Len(SubSeq(s, a + 1, a + n)) = n
         /\ \A i \in 1..n : SubSeq(s, a + 1, a + n)[i] = s[a + i]
  OBVIOUS

(* A cut does not change when cells are appended behind it. *)
LEMMA CutOfAppended ==
  ASSUME NEW s \in Seq(Nat), NEW t \in Seq(Nat),
         NEW a \in Nat, NEW n \in Nat, a + n <= Len(s)
  PROVE  SubSeq(s \o t, a + 1, a + n) = SubSeq(s, a + 1, a + n)
  OBVIOUS

(* The chunks of discardInput and the remainder are the payload. *)
LEMMA Chunks ==
  ASSUME NEW n \in Nat, NEW c \in Nat \ {0}
  PROVE  /\ n \div c \in Nat
         /\ n % c \in 0..(c - 1)
         /\ (n \div c) * c + (n % c) = n
  OBVIOUS

(* So many chunks are a natural number of cells, one chunk less is one     *)
(* chunk less.                                                             *)
LEMMA Product ==
  ASSUME NEW r \in Nat, NEW c \in Nat
  PROVE  r * c \in Nat
  OBVIOUS

(* A chunk that is read takes its length from what is still to be read.    *)
LEMMA ChunkRead ==
  ASSUME NEW r \in Nat \ {0}, NEW c \in Nat
  PROVE  (r - 1) * c + c = r * c
  OBVIOUS

(* The command of a header is a text, and not the absent one. *)
LEMMA CommandType ==
  ASSUME NEW c \in Nat
  PROVE  CommandOf(c) \in Commands /\ CommandOf(c) # "none"
<1>1. CASE c \in 1..7
  <2>1. c = 1 \/ c = 2 \/ c = 3 \/ c = 4 \/ c = 5 \/ c = 6 \/ c = 7
    BY <1>1
  <2> QED
    BY <2>1 DEF CommandOf, CommandName, Commands, HandledCommands
<1>2. CASE c \notin 1..7
  <2>1. c \notin DOMAIN CommandName
    BY <1>2 DEF CommandName
  <2> QED
    BY <2>1 DEF CommandOf, InvalidUTF8, Commands
<1> QED
  BY <1>1, <1>2

(* What is read as a header, wherever it is read, has the fields of one.   *)
LEMMA HeaderType ==
  ASSUME wire \in Seq(Nat), NEW p \in Nat, p + MessageHeaderSize <= Len(wire)
  PROVE  /\ HeaderAt(p) # NoHeader
         /\ HeaderAt(p) \in [magic : Nat, command : Commands, length : Nat,
                             checksum : Nat]
<1> DEFINE cells == Cells(p, MessageHeaderSize)
<1>1. cells[1] \in Nat /\ cells[2] \in Nat /\ cells[3] \in Nat /\ cells[4] \in Nat
  BY CutType DEF Cells, MessageHeaderSize
<1>2. CommandOf(cells[2]) \in Commands /\ CommandOf(cells[2]) # "none"
  BY <1>1, CommandType
<1>3. HeaderAt(p).command # NoHeader.command
  BY <1>2 DEF HeaderAt, HeaderOf, NoHeader
<1> QED
  BY <1>1, <1>2, <1>3 DEF HeaderAt, HeaderOf

(* The limit of every type is a number of cells. *)
LEMMA LimitType ==
  ASSUME NEW kind
  PROVE  MaxPayloadLength(kind) \in Nat
<1>1. /\ MaxAddrPerMsg * MaxNetAddressPayload \in Nat
      /\ MaxInvPerMsg * MaxInvVectPayload \in Nat
  BY WireAssumption, Product DEF WireAssumption, MaxNetAddressPayload, MaxInvVectPayload
<1>2. /\ MaxVersionPayload \in Nat /\ MaxAddrPayload \in Nat
      /\ MaxInvPayload \in Nat /\ MaxGetDataPayload \in Nat
  BY <1>1, WireAssumption
     DEF WireAssumption, MaxVersionPayload, MaxAddrPayload, MaxInvPayload,
         MaxGetDataPayload, MaxVarIntPayload, MaxNetAddressPayload, MaxInvVectPayload
<1> QED
  BY <1>2, WireAssumption DEF WireAssumption, MaxPayloadLength

-----------------------------------------------------------------------------
(* Facts about decoders *)

DecodeErrors == {"nil", "EOF", "MessageError", "panic"}

(* A decoder returns a message and an error, and its errors are few.       *)
IsDecoded(d) == d = [msg |-> d.msg, err |-> d.err] /\ d.err \in DecodeErrors

(* The decoders of the messages that are lists of elements. *)
LEMMA ListDecoded ==
  ASSUME NEW old, NEW p
  PROVE  /\ IsDecoded(DecodeAddr(old, p))
         /\ IsDecoded(DecodeInv(old, p))
         /\ IsDecoded(DecodeGetData(old, p))
  BY DEF IsDecoded, DecodeErrors, DecodeAddr, DecodeInv, DecodeGetData,
         DecodeList, ErrIfShort

(* The decoder of the version message. *)
LEMMA VersionDecoded ==
  ASSUME NEW old, NEW p
  PROVE  IsDecoded(DecodeVersion(old, p))
  BY DEF IsDecoded, DecodeErrors, DecodeVersion, AgentErr, ErrIfShort

(* The decoders of the objects, and the part that they have in common. *)
LEMMA ObjectIsDecoded ==
  ASSUME NEW old, NEW p, NEW type
  PROVE  IsDecoded(DecodeObject(old, p, type))
  BY DEF IsDecoded, DecodeErrors, DecodeObject, ErrIfShort

(* The decoder of getpubkey reports io.EOF or a malformed message.         *)
LEMMA GetPubKeyDecoded ==
  ASSUME NEW old, NEW p
  PROVE  IsDecoded(DecodeGetPubKey(old, p))
  BY ObjectIsDecoded DEF IsDecoded, DecodeErrors, DecodeGetPubKey, ErrIfShort

(* The decoder of pubkey reports io.EOF or a malformed message.            *)
LEMMA PubKeyDecoded ==
  ASSUME NEW old, NEW p
  PROVE  IsDecoded(DecodePubKey(old, p))
  BY ObjectIsDecoded DEF IsDecoded, DecodeErrors, DecodePubKey, ErrIfShort

(* The decoders of msg and broadcast report io.EOF or a malformed message. *)
LEMMA SealedDecoded ==
  ASSUME NEW old, NEW p, NEW type
  PROVE  IsDecoded(DecodeSealed(old, p, type))
  BY ObjectIsDecoded DEF IsDecoded, DecodeErrors, DecodeSealed

(* Whatever the kind, the receiver and the payload. *)
LEMMA Decoded ==
  ASSUME NEW kind, NEW old, NEW p
  PROVE  IsDecoded(Decode(kind, old, p))
<1> DEFINE version   == DecodeVersion(old, p)
           addr      == DecodeAddr(old, p)
           inv       == DecodeInv(old, p)
           getdata   == DecodeGetData(old, p)
           getpubkey == DecodeGetPubKey(old, p)
           pubkey    == DecodePubKey(old, p)
           sealed(t) == DecodeSealed(old, p, t)
           empty     == [msg |-> old, err |-> "nil"]
<1>1. /\ IsDecoded(version) /\ IsDecoded(addr) /\ IsDecoded(inv)
      /\ IsDecoded(getdata) /\ IsDecoded(getpubkey) /\ IsDecoded(pubkey)
      /\ IsDecoded(sealed(ObjectTypeMsg)) /\ IsDecoded(sealed(ObjectTypeBroadcast))
  BY ListDecoded, VersionDecoded, GetPubKeyDecoded, PubKeyDecoded, SealedDecoded
<1>2. IsDecoded(empty)
  BY DEF IsDecoded, DecodeErrors
<1>3. \/ Decode(kind, old, p) \in {version, addr, inv, getdata, getpubkey, pubkey}
      \/ Decode(kind, old, p) \in {sealed(ObjectTypeMsg),
                                   sealed(ObjectTypeBroadcast), empty}
  BY DEF Decode
<1> QED
  BY <1>1, <1>2, <1>3

-----------------------------------------------------------------------------
(* Counts that are too large to be allocated *)

(* The limit of a list is tested before it is allocated.                   *)
LEMMA ListAllocates ==
  ASSUME NEW old, NEW p \in Seq(Nat)
  PROVE  /\ DecodeAddr(old, p).err # "panic"
         /\ DecodeInv(old, p).err # "panic"
         /\ DecodeGetData(old, p).err # "panic"
<1>1. ASSUME NEW limit \in Nat, limit <= MaxAlloc, NEW width
      PROVE  DecodeList(old, p, limit, width).err # "panic"
  <2>1. p # <<>> => p[1] \in Nat /\ MaxAlloc \in Nat
    BY CodecAssumption DEF CodecAssumption
  <2>2. p # <<>> /\ ~(p[1] > limit) => ~Huge(p, 1)
    BY <1>1, <2>1 DEF Huge
  <2> QED
    BY <2>2 DEF DecodeList, ErrIfShort
<1>2. /\ MaxAddrPerMsg \in Nat /\ MaxAddrPerMsg <= MaxAlloc
      /\ MaxInvPerMsg \in Nat /\ MaxInvPerMsg <= MaxAlloc
  BY WireAssumption, CodecAssumption DEF WireAssumption, CodecAssumption
<1> QED
  BY <1>1, <1>2 DEF DecodeAddr, DecodeInv, DecodeGetData

(* The user agent is within the limit of texts before it is allocated, the *)
(* stream numbers are not limited.                                         *)
LEMMA VersionAllocates ==
  ASSUME NEW old, NEW p \in Seq(Nat), DecodeVersion(old, p).err = "panic"
  PROVE  AgentErr(p) = "nil" /\ Huge(p, 12 + p[11])
<1>1. AgentErr(p) # "panic"
  <2>1. Len(p) >= 11 => p[11] \in Nat
    OBVIOUS
  <2>2. /\ MaxMessagePayload \in Nat /\ MaxAlloc \in Nat
        /\ MaxMessagePayload <= MaxAlloc
    BY WireAssumption, CodecAssumption DEF WireAssumption, CodecAssumption
  <2>3. Len(p) >= 11 /\ ~(p[11] > MaxMessagePayload) => ~Huge(p, 11)
    BY <2>1, <2>2 DEF Huge
  <2> QED
    BY <2>3 DEF AgentErr
<1> QED
  BY <1>1 DEF DecodeVersion, ErrIfShort

(* An object that is decoded without an error has the version of its       *)
(* payload, when its receiver is one that ReadMessageN makes.              *)
LEMMA ObjectVersion ==
  ASSUME NEW p \in Seq(Nat), NEW type,
         DecodeObject(EmptyMessage("pubkey"), p, type).err = "nil"
  PROVE  DecodeObject(EmptyMessage("pubkey"), p, type).msg.version = p[4]
<1>1. "version" \in DOMAIN EmptyMessage("pubkey")
  BY DEF EmptyMessage
<1>2. /\ Len(p) >= 5 /\ p[3] = type
      /\ VarInt(p, 4) = p[4]
  BY DEF DecodeObject, ErrIfShort, VarInt, Field
<1>3. ASSUME NEW old, "version" \in DOMAIN old,
             NEW a, NEW b, NEW c, NEW d, NEW e
      PROVE  [old EXCEPT !.nonce = a, !.objectType = b, !.expires = c,
                         !.version = d, !.stream = e].version = d
  BY <1>3
<1>4. PICK a, b, c, d, e :
        /\ DecodeObject(EmptyMessage("pubkey"), p, type).msg
             = [EmptyMessage("pubkey") EXCEPT
                  !.nonce = a, !.objectType = b, !.expires = c,
                  !.version = d, !.stream = e]
        /\ d = IF Len(p) >= 3 /\ p[3] = type THEN VarInt(p, 4)
               ELSE EmptyMessage("pubkey").version
  BY Zenon DEF DecodeObject
<1>5. d = p[4]
  BY <1>2, <1>4
<1> QED
  BY <1>1, <1>3, <1>4, <1>5

(* The signature of an extended public key is not limited.                 *)
LEMMA PubKeyAllocates ==
  ASSUME NEW p \in Seq(Nat),
         DecodePubKey(EmptyMessage("pubkey"), p).err = "panic"
  PROVE  p[4] = ExtendedPubKeyVersion /\ Huge(p, 11)
<1> DEFINE d == DecodeObject(EmptyMessage("pubkey"), p, ObjectTypePubKey)
<1>1. d.err # "panic"
  BY DEF DecodeObject, ErrIfShort
<1>2. d.err = "nil" => d.msg.version = p[4]
  BY ObjectVersion
<1>3. d.err = "nil" /\ d.msg.version = ExtendedPubKeyVersion /\ Huge(p, 11)
  <2> HIDE DEF d
  <2>1. /\ d.err # "nil" => DecodePubKey(EmptyMessage("pubkey"), p).err = d.err
        /\ d.err = "nil" /\ d.msg.version >= EncryptedPubKeyVersion =>
             DecodePubKey(EmptyMessage("pubkey"), p).err = ErrIfShort(p, 6)
        /\ d.err = "nil" /\ ~(d.msg.version >= EncryptedPubKeyVersion)
             /\ ~(d.msg.version = ExtendedPubKeyVersion /\ Len(p) >= 8) =>
             DecodePubKey(EmptyMessage("pubkey"), p).err = ErrIfShort(p, 8)
        /\ d.err = "nil" /\ ~(d.msg.version >= EncryptedPubKeyVersion)
             /\ d.msg.version = ExtendedPubKeyVersion /\ Len(p) >= 8
             /\ ~Huge(p, 11) =>
             DecodePubKey(EmptyMessage("pubkey"), p).err
               \in {ErrIfShort(p, 11), ErrIfShort(p, 11 + p[11])}
    BY DEF DecodePubKey, d
  <2> QED
    BY <1>1, <2>1 DEF ErrIfShort
<1> QED
  BY <1>2, <1>3

(* Whatever the kind of the message. *)
LEMMA Allocates ==
  ASSUME NEW kind, NEW p \in Seq(Nat),
         Decode(kind, EmptyMessage(kind), p).err = "panic"
  PROVE  \/ kind = "version" /\ AgentErr(p) = "nil" /\ Huge(p, 12 + p[11])
         \/ kind = "pubkey" /\ p[4] = ExtendedPubKeyVersion /\ Huge(p, 11)
<1> DEFINE old == EmptyMessage(kind)
<1>1. DecodeGetPubKey(old, p).err # "panic"
  BY DEF DecodeGetPubKey, DecodeObject, ErrIfShort
<1>2. \A type : DecodeSealed(old, p, type).err # "panic"
  BY DEF DecodeSealed, DecodeObject, ErrIfShort
<1>3. CASE kind = "version"
  BY <1>3, VersionAllocates DEF Decode
<1>4. CASE kind = "pubkey"
  BY <1>4, PubKeyAllocates DEF Decode
<1>5. CASE kind \notin {"version", "pubkey"}
  <2> HIDE DEF old
  <2>1. Decode(kind, old, p).err # "panic"
    BY <1>1, <1>2, <1>5, ListAllocates DEF Decode
  <2> QED
    BY <2>1 DEF old
<1> QED
  BY <1>3, <1>4, <1>5

-----------------------------------------------------------------------------
(* Whole frames *)

(* What is returned without an error has passed every test of a frame that *)
(* was read whole.                                                         *)
LEMMA Parsed ==
  ASSUME NEW h, NEW p
  PROVE  /\ Parse(h, p).err \in DecodeErrors
         /\ Parse(h, p).err = "nil" =>
              LET kind == Parse(h, p).msg.kind
                  body == Parse(h, p).msg.body
              IN  /\ ~BadObject(h, p) /\ ~BadChecksum(h, p)
                  /\ kind = KindOf(h, p)
                  /\ Decode(kind, EmptyMessage(kind), p)
                       = [msg |-> body, err |-> "nil"]
<1>1. CASE BadObject(h, p) \/ BadChecksum(h, p)
  BY <1>1 DEF Parse, DecodeErrors
<1>2. CASE ~(BadObject(h, p) \/ BadChecksum(h, p))
  <2> DEFINE kind == KindOf(h, p)
             d    == Decode(kind, EmptyMessage(kind), p)
  <2>1. IsDecoded(d)
    BY Decoded
  <2>2. /\ Parse(h, p).err = d.err
        /\ d.err = "nil" => Parse(h, p).msg = [kind |-> kind, body |-> d.msg]
    BY <1>2 DEF Parse
  <2> HIDE DEF kind, d
  <2>3. d.err = "nil" => /\ Parse(h, p).msg.kind = kind
                         /\ Parse(h, p).msg.body = d.msg
    BY <2>2
  <2>4. d.err = "nil" => d = [msg |-> d.msg, err |-> "nil"]
    BY <2>1 DEF IsDecoded
  <2>5. Parse(h, p).err \in DecodeErrors
    BY <2>1, <2>2 DEF IsDecoded
  <2> QED
    BY <1>2, <2>2, <2>3, <2>4, <2>5 DEF d, kind
<1> QED
  BY <1>1, <1>2

-----------------------------------------------------------------------------
(* The steps of a call *)

(* A new call of ReadMessageN starts at the position of the connection.    *)
LEMMA CallInv ==
  ASSUME ReadInv, Call
  PROVE  ReadInv'
<1>1. ReadTypeOK' /\ HeaderFacts'
  BY DEF ReadInv, ReadTypeOK, HeaderFacts, Call, NoHeader, ReadErrors, MessageHeaderSize
<1>2. InHeader' /\ InPayload' /\ InDiscard' /\ Idle'
  BY DEF ReadInv, Call, InHeader, InPayload, InDiscard, Idle
<1> QED
  BY <1>1, <1>2 DEF ReadInv

(* A header that is cut off: the call ends where the connection did. *)
LEMMA HeaderFailsInv ==
  ASSUME ReadInv, HeaderFails
  PROVE  ReadInv'
<1>1. PICK n \in 0..MessageHeaderSize, err \in ReadErrors \ {"nil"} :
        /\ ReadFull(MessageHeaderSize, n, err)
        /\ pos' = pos + n
        /\ fault' = err
        /\ Return(n, NoMessage, err)
  BY DEF HeaderFails
<1>2. /\ rpc = "header" /\ hdr = NoHeader /\ pos = start
      /\ UNCHANGED <<wire, closed, start, hdr, reads, rest>>
  BY DEF HeaderFails, ReadInv, InHeader
<1>3. /\ rpc' = "idle" /\ ret' = [n |-> n, msg |-> NoMessage, err |-> err]
      /\ pos + n <= Len(wire)
  BY <1>1 DEF Return, ReadFull
<1>4. ReadTypeOK' /\ HeaderFacts'
  BY <1>1, <1>2, <1>3
     DEF ReadInv, ReadTypeOK, HeaderFacts, MessageHeaderSize
<1>5. FrameAligned' /\ DeliveredIsFrame' /\ CountAccounts' /\ FaultsReported'
  BY <1>1, <1>2, <1>3
     DEF FrameAligned, DeliveredIsFrame, CountAccounts, FaultsReported,
         ReadInv, ReadTypeOK
<1> QED
  BY <1>1, <1>2, <1>3, <1>4, <1>5
     DEF ReadInv, InHeader, InPayload, InDiscard, Idle

(* What the three ways on from a complete header have in common. *)
LEMMA HeaderReadFacts ==
  ASSUME ReadInv, HeaderRead
  PROVE  /\ rpc = "header" /\ fault = "nil" /\ fault' = "nil"
         /\ wire' = wire /\ closed' = closed /\ start' = start
         /\ start \in Nat /\ pos' = start + MessageHeaderSize
         /\ pos' \in Nat /\ pos' <= Len(wire) /\ wire \in Seq(Nat)
         /\ hdr' = HeaderAt(start) /\ hdr' = HeaderAt(start)'
         /\ hdr' # NoHeader
         /\ hdr' \in [magic : Nat, command : Commands, length : Nat,
                      checksum : Nat]
<1>1. /\ rpc = "header" /\ pos = start /\ fault = "nil"
      /\ wire \in Seq(Nat) /\ start \in Nat
      /\ pos + MessageHeaderSize <= Len(wire)
      /\ pos' = pos + MessageHeaderSize /\ hdr' = HeaderAt(pos)
      /\ UNCHANGED <<wire, closed, start, fault>>
  BY DEF ReadInv, InHeader, HeaderRead, ReadFull, ReadTypeOK
<1>2. HeaderAt(start)' = HeaderAt(start)
  BY <1>1 DEF HeaderAt, Cells
<1> QED
  BY <1>1, <1>2, HeaderType DEF MessageHeaderSize

(* A header with too large a length: the call ends right behind it.        *)
LEMMA HeaderTooLargeInv ==
  ASSUME ReadInv, HeaderTooLarge
  PROVE  ReadInv'
<1>1. /\ HeaderRead /\ TooLarge(hdr)' /\ UNCHANGED <<reads, rest>>
      /\ rpc' = "idle"
      /\ ret' = [n |-> MessageHeaderSize, msg |-> NoMessage, err |-> "MessageError"]
  BY DEF HeaderTooLarge, Return, TooLarge
<1>2. ReadTypeOK' /\ HeaderFacts'
  BY <1>1, HeaderReadFacts
     DEF ReadInv, ReadTypeOK, HeaderFacts, MessageHeaderSize
<1>3. FrameAligned' /\ DeliveredIsFrame' /\ CountAccounts' /\ FaultsReported'
  BY <1>1, HeaderReadFacts
     DEF FrameAligned, DeliveredIsFrame, CountAccounts, FaultsReported,
         ReadInv, ReadTypeOK, MessageHeaderSize
<1> QED
  BY <1>1, <1>2, <1>3 DEF ReadInv, InHeader, InPayload, InDiscard, Idle

(* A refused header: the chunks of discardInput add up to its payload.     *)
LEMMA HeaderRefusedInv ==
  ASSUME ReadInv, HeaderRefused
  PROVE  ReadInv'
<1> DEFINE length == hdr'.length
<1>1. /\ HeaderRead /\ ~TooLarge(hdr)' /\ Refused(hdr)' /\ ret' = ret
      /\ rpc' = "discard"
  BY DEF HeaderRefused, TooLarge, Refused, RefusedCommand
<1>2. length \in Nat /\ pos' \in Nat /\ DiscardChunk \in Nat \ {0}
  BY <1>1, HeaderReadFacts, ReadAssumption DEF ReadAssumption
<1>3. reads' = length \div DiscardChunk /\ rest' = length % DiscardChunk
  BY DEF HeaderRefused
<1>4. /\ reads' \in Nat /\ rest' \in 0..(DiscardChunk - 1)
      /\ reads' * DiscardChunk + rest' = length
  BY <1>2, <1>3, Chunks
<1>5. ReadTypeOK' /\ HeaderFacts'
  <2>1. hdr'.length \in Nat /\ reads' \in Nat /\ rest' \in 0..(DiscardChunk - 1)
    BY <1>2, <1>4
  <2> HIDE DEF length
  <2> QED
    BY <1>1, <2>1, HeaderReadFacts, SMTT(30)
       DEF ReadInv, ReadTypeOK, HeaderFacts, FrameEnd, MessageHeaderSize, ReadErrors
<1>6. InDiscard'
  <2>1. Undiscarded' = length
    BY <1>4 DEF Undiscarded
  <2>2. FrameEnd' = pos' + length
    BY <1>1, HeaderReadFacts DEF FrameEnd
  <2>3. pos' + length \in Nat
    BY <1>2
  <2> HIDE DEF length
  <2> QED
    BY <1>1, <2>1, <2>2, <2>3, HeaderReadFacts DEF InDiscard
<1> QED
  BY <1>1, <1>5, <1>6 DEF ReadInv, InHeader, InPayload, Idle

(* An accepted header: the payload is the next to be read.                 *)
LEMMA HeaderAcceptedInv ==
  ASSUME ReadInv, HeaderAccepted
  PROVE  ReadInv'
<1>1. /\ HeaderRead /\ ~TooLarge(hdr)' /\ ~Refused(hdr)'
      /\ UNCHANGED <<reads, rest, ret>> /\ rpc' = "payload"
  BY DEF HeaderAccepted, TooLarge, Refused, RefusedCommand
<1>2. ReadTypeOK' /\ HeaderFacts'
  BY <1>1, HeaderReadFacts
     DEF ReadInv, ReadTypeOK, HeaderFacts, FrameEnd, MessageHeaderSize, ReadErrors
<1> QED
  BY <1>1, <1>2, HeaderReadFacts DEF ReadInv, InHeader, InPayload, InDiscard, Idle

(* A read of discardInput takes at most what it asked for, and only a read *)
(* that failed takes less.                                                 *)
LEMMA DiscardReadInv ==
  ASSUME ReadInv, NEW want \in Nat \ {0}, DiscardRead(want),
         reads' \in Nat, rest' \in 0..(DiscardChunk - 1),
         Undiscarded' \in Nat, Undiscarded = want + Undiscarded'
  PROVE  ReadInv'
<1>1. PICK n \in 0..want, err \in ReadErrors :
        /\ ReadFull(want, n, err)
        /\ pos' = pos + n
        /\ fault' = IF err = "nil" THEN fault ELSE err
  BY DEF DiscardRead
<1>2. /\ rpc = "discard" /\ rpc' = "discard"
      /\ UNCHANGED <<wire, closed, start, hdr, ret>>
  BY DEF DiscardRead
<1>3. /\ wire \in Seq(Nat) /\ start \in Nat /\ pos \in Nat /\ start <= pos
      /\ fault \in ReadErrors
      /\ hdr # NoHeader => hdr.length \in Nat
  BY DEF ReadInv, ReadTypeOK
<1>4. /\ hdr # NoHeader /\ ~TooLarge(hdr) /\ Refused(hdr)
      /\ pos + want + Undiscarded' <= FrameEnd
      /\ fault = "nil" => pos + want + Undiscarded' = FrameEnd
      /\ fault # "nil" => ReadFaults # {} \/ (closed /\ pos = Len(wire))
  <2>1. pos + Undiscarded = pos + want + Undiscarded'
    BY <1>3
  <2> QED
    BY <1>2, <2>1 DEF ReadInv, InDiscard
<1>5. FrameEnd' = FrameEnd /\ FrameEnd \in Nat
  BY <1>2, <1>3, <1>4 DEF FrameEnd, MessageHeaderSize
<1>6. ReadTypeOK'
  BY <1>1, <1>2, <1>3 DEF ReadInv, ReadTypeOK, ReadFull
<1>7. pos <= pos' /\ pos' <= FrameEnd /\ pos' + Undiscarded' <= FrameEnd
  <2>1. ASSUME NEW p \in Nat, NEW w \in Nat, NEW u \in Nat, NEW e \in Nat,
               NEW k \in 0..w, p + w + u <= e
        PROVE  p <= p + k /\ p + k <= e /\ p + k + u <= e
    BY <2>1
  <2> QED
    BY <1>1, <1>3, <1>4, <1>5, <2>1
<1>8. HeaderFacts'
  <2>1. HeaderAt(start)' = HeaderAt(start) /\ TooLarge(hdr)' = TooLarge(hdr)
    BY <1>2 DEF HeaderAt, Cells, TooLarge
  <2>2. start + MessageHeaderSize <= pos /\ hdr = HeaderAt(start)
    BY <1>4 DEF ReadInv, HeaderFacts
  <2>3. start + MessageHeaderSize <= pos'
    BY <1>7, <1>1, <1>3, <2>2 DEF MessageHeaderSize
  <2> QED
    BY <1>7, <1>2, <1>4, <1>5, <2>1, <2>2, <2>3 DEF HeaderFacts
<1>9. InDiscard'
  <2>1. ASSUME fault' = "nil"
        PROVE  pos' + Undiscarded' = FrameEnd
    <3>1. err = "nil" /\ fault = "nil"
      BY <1>1, <2>1
    <3> QED
      BY <1>1, <1>4, <3>1, ReadAssumption DEF ReadFull, ReadAssumption
  <2>2. fault' # "nil" => ReadFaults # {} \/ (closed' /\ pos' = Len(wire'))
    <3>1. CASE err = "nil"
      BY <1>1, <1>2, <1>3, <1>4, <3>1 DEF ReadFull
    <3>2. CASE err # "nil"
      BY <1>1, <1>2, <1>3, <3>2 DEF ReadFull
    <3> QED
      BY <3>1, <3>2
  <2>3. TooLarge(hdr)' = TooLarge(hdr) /\ Refused(hdr)' = Refused(hdr)
    BY <1>2 DEF TooLarge, Refused, RefusedCommand
  <2> QED
    BY <1>7, <1>2, <1>4, <1>5, <2>1, <2>2, <2>3 DEF InDiscard
<1> QED
  BY <1>2, <1>6, <1>8, <1>9 DEF ReadInv, InHeader, InPayload, Idle

(* A full chunk of discardInput, read or not, takes nothing of the frame   *)
(* behind the one that is discarded.                                       *)
LEMMA DiscardFullChunkInv ==
  ASSUME ReadInv, DiscardFullChunk
  PROVE  ReadInv'
<1>1. /\ reads \in Nat \ {0} /\ reads' = reads - 1 /\ rest' = rest
      /\ rest \in 0..(DiscardChunk - 1) /\ DiscardRead(DiscardChunk)
  BY DEF DiscardFullChunk, ReadInv, ReadTypeOK
<1>2. DiscardChunk \in Nat \ {0} /\ rest \in Nat
  BY <1>1, ReadAssumption DEF ReadAssumption
<1>3. reads' \in Nat /\ reads' * DiscardChunk \in Nat
  <2>1. reads' \in Nat
    BY <1>1
  <2> QED
    BY <1>2, <2>1, Product
<1>4. reads' * DiscardChunk + DiscardChunk = reads * DiscardChunk
  BY <1>1, <1>2, ChunkRead
<1>5. Undiscarded' \in Nat /\ Undiscarded = DiscardChunk + Undiscarded'
  <2>1. ASSUME NEW a \in Nat, NEW b \in Nat, NEW c \in Nat, NEW d, a + c = d
        PROVE  a + b \in Nat /\ d + b = c + (a + b)
    BY <2>1
  <2> QED
    BY <1>1, <1>2, <1>3, <1>4, <2>1 DEF Undiscarded
<1> QED
  BY <1>1, <1>2, <1>3, <1>5, DiscardReadInv

(* So does the remainder of discardInput, the last of its reads.           *)
LEMMA DiscardRestInv ==
  ASSUME ReadInv, DiscardRest
  PROVE  ReadInv'
<1>1. /\ reads = 0 /\ reads' = 0 /\ rest' = 0 /\ rest \in Nat \ {0}
      /\ DiscardRead(rest) /\ DiscardChunk \in Nat \ {0}
  BY ReadAssumption DEF DiscardRest, ReadInv, ReadTypeOK, ReadAssumption
<1>2. Undiscarded' = 0 /\ Undiscarded = rest
  BY <1>1 DEF Undiscarded
<1> QED
  BY <1>1, <1>2, DiscardReadInv

(* All that was refused has been read, or tried. *)
LEMMA DiscardDoneInv ==
  ASSUME ReadInv, DiscardDone
  PROVE  ReadInv'
<1>1. /\ rpc = "discard" /\ rpc' = "idle" /\ reads = 0 /\ rest = 0
      /\ ret' = [n |-> MessageHeaderSize, msg |-> NoMessage, err |-> "MessageError"]
      /\ UNCHANGED <<wire, closed, pos, start, hdr, reads, rest, fault>>
  BY DEF DiscardDone, Return
<1>2. /\ hdr # NoHeader /\ ~TooLarge(hdr) /\ Refused(hdr)
      /\ fault = "nil" => pos = FrameEnd
  <2>1. Undiscarded = 0
    BY <1>1, ReadAssumption DEF Undiscarded, ReadAssumption
  <2> QED
    BY <1>1, <2>1 DEF ReadInv, ReadTypeOK, InDiscard
<1>3. /\ FrameEnd' = FrameEnd /\ HeaderAt(start)' = HeaderAt(start)
      /\ TooLarge(hdr)' = TooLarge(hdr) /\ Refused(hdr)' = Refused(hdr)
  BY <1>1 DEF FrameEnd, HeaderAt, Cells, TooLarge, Refused, RefusedCommand
<1>4. ReadTypeOK' /\ HeaderFacts'
  BY <1>1, <1>3 DEF ReadInv, ReadTypeOK, HeaderFacts, MessageHeaderSize
<1>5. FrameAligned' /\ DeliveredIsFrame' /\ CountAccounts' /\ FaultsReported'
  BY <1>1, <1>2, <1>3
     DEF FrameAligned, DeliveredIsFrame, CountAccounts, FaultsReported
<1> QED
  BY <1>1, <1>4, <1>5 DEF ReadInv, InHeader, InPayload, InDiscard, Idle

(* A payload that is cut off: the call ends where the connection did.      *)
LEMMA PayloadFailsInv ==
  ASSUME ReadInv, PayloadFails
  PROVE  ReadInv'
<1>1. PICK n \in 0..hdr.length, err \in ReadErrors \ {"nil"} :
        /\ ReadFull(hdr.length, n, err)
        /\ pos' = pos + n
        /\ fault' = err
        /\ Return(MessageHeaderSize + n, NoMessage, err)
  BY DEF PayloadFails
<1>2. /\ rpc = "payload" /\ hdr # NoHeader /\ ~TooLarge(hdr) /\ ~Refused(hdr)
      /\ pos = start + MessageHeaderSize
      /\ UNCHANGED <<wire, closed, start, hdr, reads, rest>>
  BY DEF PayloadFails, ReadInv, InPayload
<1>3. /\ rpc' = "idle" /\ pos + n <= Len(wire)
      /\ ret' = [n |-> MessageHeaderSize + n, msg |-> NoMessage, err |-> err]
  BY <1>1 DEF Return, ReadFull
<1>4. /\ FrameEnd' = FrameEnd /\ HeaderAt(start)' = HeaderAt(start)
      /\ TooLarge(hdr)' = TooLarge(hdr) /\ Refused(hdr)' = Refused(hdr)
  BY <1>2 DEF FrameEnd, HeaderAt, Cells, TooLarge, Refused, RefusedCommand
<1>5. start \in Nat /\ hdr.length \in Nat /\ n \in Nat /\ n <= hdr.length
  BY <1>1, <1>2 DEF ReadInv, ReadTypeOK
<1>6. ReadTypeOK' /\ HeaderFacts'
  BY <1>1, <1>2, <1>3, <1>4, <1>5
     DEF ReadInv, ReadTypeOK, HeaderFacts, FrameEnd, MessageHeaderSize
<1>7. FrameAligned' /\ DeliveredIsFrame' /\ CountAccounts' /\ FaultsReported'
  BY <1>1, <1>2, <1>3, <1>4, <1>5
     DEF FrameAligned, DeliveredIsFrame, CountAccounts, FaultsReported,
         MessageHeaderSize
<1> QED
  BY <1>1, <1>3, <1>6, <1>7 DEF ReadInv, InHeader, InPayload, InDiscard, Idle

(* The tests of an acceptable frame bound its length by the one of its type *)
LEMMA Bounded ==
  ASSUME NEW p, hdr.length \in Nat, ~Refused(hdr), ~BadObject(hdr, p)
  PROVE  /\ KindOf(hdr, p) \in IF hdr.command = "object" THEN ObjectKinds
                                                        ELSE {hdr.command}
         /\ hdr.length <= MaxPayloadLength(KindOf(hdr, p))
<1> DEFINE limit == MaxPayloadLength(KindOf(hdr, p))
<1>1. KindOf(hdr, p) \in IF hdr.command = "object" THEN ObjectKinds
                                                   ELSE {hdr.command}
  BY DEF KindOf, ObjectKinds, BadObject
<1>2. limit \in Nat
  BY LimitType
<1>3. ~(hdr.length > limit)
  BY DEF Refused, RefusedCommand, BadObject, KindOf
<1> QED
  BY <1>1, <1>2, <1>3

(* A frame that is read whole, whatever its payload turns out to be. *)
LEMMA PayloadReadInv ==
  ASSUME ReadInv, PayloadRead
  PROVE  ReadInv'
<1> DEFINE payload == Cells(pos, hdr.length)
           parsed  == Parse(hdr, payload)
<1>1. /\ rpc = "payload" /\ hdr # NoHeader /\ ~TooLarge(hdr) /\ ~Refused(hdr)
      /\ pos = start + MessageHeaderSize /\ fault = "nil"
      /\ hdr = HeaderAt(start)
      /\ start \in Nat /\ hdr.length \in Nat /\ wire \in Seq(Nat)
      /\ UNCHANGED <<wire, closed, start, hdr, reads, rest, fault>>
  BY DEF PayloadRead, ReadInv, InPayload, HeaderFacts, ReadTypeOK
<1>2. /\ pos' = pos + hdr.length /\ pos + hdr.length <= Len(wire)
      /\ rpc' = "idle"
      /\ ret' = [n |-> MessageHeaderSize + hdr.length, msg |-> parsed.msg,
                 err |-> parsed.err]
  BY DEF PayloadRead, ReadFull, Return
<1>3. /\ FrameEnd' = FrameEnd /\ HeaderAt(start)' = HeaderAt(start)
      /\ TooLarge(hdr)' = TooLarge(hdr) /\ Refused(hdr)' = Refused(hdr)
      /\ pos' = FrameEnd
  BY <1>1, <1>2 DEF FrameEnd, HeaderAt, Cells, TooLarge, Refused, RefusedCommand
<1>4. parsed.err \in {"nil", "EOF", "MessageError", "panic"}
  BY Parsed DEF DecodeErrors
<1> HIDE DEF parsed
<1>5. ReadTypeOK' /\ HeaderFacts'
  BY <1>1, <1>2, <1>3, <1>4
     DEF ReadInv, ReadTypeOK, HeaderFacts, FrameEnd, MessageHeaderSize,
         ReadErrors, ReadFullErrors
<1>6. FrameAligned' /\ CountAccounts' /\ FaultsReported'
  BY <1>1, <1>2, <1>3
     DEF FrameAligned, CountAccounts, FaultsReported, MessageHeaderSize
<1>7. DeliveredIsFrame'
  <2> SUFFICES ASSUME parsed.err = "nil"
               PROVE  DeliveredIsFrame'
    BY <1>2 DEF DeliveredIsFrame
  <2> DEFINE kind == parsed.msg.kind
  <2>1. /\ ~BadObject(hdr, payload) /\ ~BadChecksum(hdr, payload)
        /\ kind = KindOf(hdr, payload)
        /\ Decode(kind, EmptyMessage(kind), payload)
             = [msg |-> parsed.msg.body, err |-> "nil"]
    BY Parsed DEF parsed
  <2>2. hdr.checksum = Checksum(payload) /\ hdr.magic = bmnet
    BY <1>1, <2>1 DEF BadChecksum, Refused, RefusedCommand
  <2>3. /\ kind \in IF hdr.command = "object" THEN ObjectKinds ELSE {hdr.command}
        /\ hdr.length <= MaxPayloadLength(kind)
    BY <1>1, <2>1, Bounded
  <2>4. payload = Cells(start + MessageHeaderSize, hdr.length)'
    BY <1>1, <1>2 DEF Cells
  <2> HIDE DEF payload, kind
  <2> QED
    BY <1>1, <1>2, <1>3, <2>1, <2>2, <2>3, <2>4 DEF DeliveredIsFrame, kind
<1> QED
  BY <1>1, <1>2, <1>3, <1>5, <1>6, <1>7
     DEF ReadInv, InHeader, InPayload, InDiscard, Idle

-----------------------------------------------------------------------------
(* The reader as a whole *)

(* The invariant holds of a connection on which nothing has happened yet.  *)
LEMMA ReadInitInv ==
  ASSUME wire = <<>>, closed = FALSE, ReadInit
  PROVE  ReadInv
<1>1. ReadTypeOK
  <2>0. <<>> \in Seq(Nat) /\ Len(<<>>) = 0
    OBVIOUS
  <2>1. wire \in Seq(Nat) /\ Len(wire) = 0 /\ closed \in {TRUE, FALSE}
    BY <2>0
  <2>2. 0 \in 0..(DiscardChunk - 1)
    BY ReadAssumption DEF ReadAssumption
  <2>3. /\ start \in Nat /\ pos \in start..0
        /\ rpc = "idle" /\ hdr = NoHeader /\ reads \in Nat
        /\ rest \in 0..(DiscardChunk - 1) /\ fault \in ReadErrors
        /\ ret.n \in Nat /\ ret.err = "none"
    BY <2>2 DEF ReadInit, ReadErrors
  <2> QED
    BY <2>1, <2>3 DEF ReadTypeOK
<1>2. HeaderFacts /\ InHeader /\ InPayload /\ InDiscard /\ Idle
  BY DEF ReadInit, HeaderFacts, InHeader, InPayload, InDiscard, Idle,
         FrameAligned, DeliveredIsFrame, CountAccounts, FaultsReported,
         MessageHeaderSize
<1> QED
  BY <1>1, <1>2 DEF ReadInv

(* Every step of ReadMessageN preserves the invariant.                     *)
LEMMA ReadNextInv ==
  ASSUME ReadInv, ReadNext
  PROVE  ReadInv'
<1>1. CASE Call
  BY <1>1, CallInv
<1>2. CASE HeaderFails
  BY <1>2, HeaderFailsInv
<1>3. CASE HeaderTooLarge
  BY <1>3, HeaderTooLargeInv
<1>4. CASE HeaderRefused
  BY <1>4, HeaderRefusedInv
<1>5. CASE HeaderAccepted
  BY <1>5, HeaderAcceptedInv
<1>6. CASE DiscardFullChunk
  BY <1>6, DiscardFullChunkInv
<1>7. CASE DiscardRest
  BY <1>7, DiscardRestInv
<1>8. CASE DiscardDone
  BY <1>8, DiscardDoneInv
<1>9. CASE PayloadFails
  BY <1>9, PayloadFailsInv
<1>10. CASE PayloadRead
  BY <1>10, PayloadReadInv
<1> QED
  BY <1>1, <1>2, <1>3, <1>4, <1>5, <1>6, <1>7, <1>8, <1>9, <1>10
     DEF ReadNext, ReadStep

(* The other end may add to the wire as long as it has not closed it, and  *)
(* may close it: no call, finished or not, is affected.                    *)
LEMMA WireGrowsInv ==
  ASSUME ReadInv, UNCHANGED readVars, NEW s \in Seq(Nat), wire' = wire \o s,
         closed' \in BOOLEAN, s # <<>> => ~closed, closed => closed'
  PROVE  ReadInv'
<1>1. /\ wire \in Seq(Nat) /\ start \in Nat /\ pos \in start..Len(wire)
      /\ hdr # NoHeader => hdr.length \in Nat
      /\ wire' \in Seq(Nat) /\ Len(wire') = Len(wire) + Len(s)
      /\ UNCHANGED <<pos, rpc, start, hdr, reads, rest, fault, ret>>
  BY DEF ReadInv, ReadTypeOK, readVars
<1>2. ReadTypeOK'
  BY <1>1 DEF ReadInv, ReadTypeOK
<1>3. /\ FrameEnd' = FrameEnd
      /\ TooLarge(hdr)' = TooLarge(hdr) /\ Refused(hdr)' = Refused(hdr)
      /\ Undiscarded' = Undiscarded
  BY <1>1 DEF FrameEnd, TooLarge, Refused, RefusedCommand, Undiscarded
<1>4. hdr # NoHeader => HeaderAt(start)' = HeaderAt(start)
  <2> SUFFICES ASSUME hdr # NoHeader
               PROVE  Cells(start, MessageHeaderSize)' = Cells(start, MessageHeaderSize)
    BY DEF HeaderAt
  <2>1. start + MessageHeaderSize <= Len(wire)
    BY <1>1 DEF ReadInv, HeaderFacts, MessageHeaderSize
  <2> QED
    BY <1>1, <2>1, CutOfAppended DEF Cells, MessageHeaderSize
<1>5. HeaderFacts'
  BY <1>1, <1>3, <1>4 DEF ReadInv, HeaderFacts
<1>6. InDiscard'
  <2>1. closed /\ pos = Len(wire) => closed' /\ pos' = Len(wire')
    BY <1>1
  <2> QED
    BY <1>1, <1>3, <2>1 DEF ReadInv, InDiscard
<1>7. Idle'
  <2> SUFFICES ASSUME rpc = "idle", Idle
               PROVE  Idle'
    BY <1>1 DEF ReadInv, Idle
  <2>1. /\ FrameAligned' /\ CountAccounts' /\ FaultsReported'
        /\ ret.err = "nil" => hdr # NoHeader /\ ~TooLarge(hdr) /\ fault = "nil"
    BY <1>1, <1>3 DEF Idle, FrameAligned, CountAccounts, FaultsReported
  <2>2. DeliveredIsFrame'
    <3> SUFFICES ASSUME ret.err = "nil"
                 PROVE  DeliveredIsFrame'
      BY <1>1 DEF DeliveredIsFrame
    <3>1. /\ hdr # NoHeader /\ start + MessageHeaderSize \in Nat
          /\ start + MessageHeaderSize + hdr.length <= Len(wire)
      BY <1>1, <2>1 DEF Idle, FrameAligned, FrameEnd, MessageHeaderSize
    <3>2. Cells(start + MessageHeaderSize, hdr.length)'
            = Cells(start + MessageHeaderSize, hdr.length)
      BY <1>1, <3>1, CutOfAppended, ZenonT(40) DEF Cells
    <3> QED
      BY <1>1, <1>4, <3>1, <3>2 DEF Idle, DeliveredIsFrame
  <2> QED
    BY <1>1, <1>3, <2>1, <2>2 DEF Idle
<1> QED
  BY <1>1, <1>2, <1>5, <1>6, <1>7, <1>3 DEF ReadInv, InHeader, InPayload

(* A call is not affected by a step that leaves the wire as it is, whether *)
(* the wire is closed by that step or not.                                 *)
LEMMA UntouchedWireInv ==
  ASSUME ReadInv, UNCHANGED readVars, wire' = wire,
         closed' \in BOOLEAN, closed => closed'
  PROVE  ReadInv'
<1>1. <<>> \in Seq(Nat)
  OBVIOUS
<1>2. wire' = wire \o <<>>
  BY DEF ReadInv, ReadTypeOK
<1> QED
  BY <1>1, <1>2, WireGrowsInv

-----------------------------------------------------------------------------
(* The inductive invariant holds in every state of the connection.         *)
THEOREM ReadInvariant == InboundSpec => []ReadInv
<1>1. InboundInit => ReadInv
  BY ReadInitInv DEF InboundInit
<1>2. ReadInv /\ [InboundNext]_inboundVars => ReadInv'
  <2> SUFFICES ASSUME ReadInv, [InboundNext]_inboundVars
               PROVE  ReadInv'
    OBVIOUS
  <2>0. wire \in Seq(Nat) /\ closed \in BOOLEAN
    BY DEF ReadInv, ReadTypeOK
  <2>1. CASE ReadNext
    BY <2>1, ReadNextInv
  <2>2. CASE PeerSends
    <3>1. PICK s \in Segments : wire' = wire \o s
      BY <2>2 DEF PeerSends
    <3>2. s \in Seq(Nat)
      BY <3>1, InboundAssumption DEF InboundAssumption
    <3>3. UNCHANGED readVars /\ closed' = closed /\ ~closed
      BY <2>2 DEF PeerSends
    <3>4. closed' \in BOOLEAN /\ (s # <<>> => ~closed) /\ (closed => closed')
      BY <2>0, <3>3
    <3> QED
      BY <3>1, <3>2, <3>3, <3>4, WireGrowsInv
  <2>3. CASE PeerCloses
    <3>1. UNCHANGED readVars /\ closed' = TRUE /\ wire' = wire
      BY <2>3 DEF PeerCloses
    <3> QED
      BY <2>0, <3>1, UntouchedWireInv
  <2>4. CASE UNCHANGED inboundVars
    <3>1. UNCHANGED readVars /\ closed' = closed /\ wire' = wire
      BY <2>4 DEF inboundVars
    <3> QED
      BY <2>0, <3>1, UntouchedWireInv
  <2> QED
    BY <2>1, <2>2, <2>3, <2>4 DEF InboundNext
<1> QED
  BY <1>1, <1>2, PTL DEF InboundSpec

-----------------------------------------------------------------------------
(* What the invariant says of a call *)

(* The variables of ReadMessageN keep their types, whatever the peer sends.*)
THEOREM TypeCorrect == InboundSpec => []ReadTypeOK
<1>1. ReadInv => ReadTypeOK
  BY DEF ReadInv
<1> QED
  BY <1>1, ReadInvariant, PTL

(* A call that returns on a connection that did not fail has taken exactly *)
(* its frame, also when discardInput skipped the payload in chunks.        *)
THEOREM Alignment == InboundSpec => []FrameAligned
<1>1. ReadInv => FrameAligned
  BY DEF ReadInv, Idle, FrameAligned
<1> QED
  BY <1>1, ReadInvariant, PTL

(* No read of ReadMessageN or discardInput reaches into the next frame.    *)
THEOREM NoOverread == InboundSpec => []NeverOverreads
<1>1. ReadInv => NeverOverreads
  <2> SUFFICES ASSUME ReadInv
               PROVE  NeverOverreads
    OBVIOUS
  <2>1. HeaderFacts
    BY DEF ReadInv
  <2>2. hdr # NoHeader /\ TooLarge(hdr) => pos <= start + MessageHeaderSize
    <3> SUFFICES ASSUME hdr # NoHeader, TooLarge(hdr)
                 PROVE  pos <= start + MessageHeaderSize
      OBVIOUS
    <3>1. pos = start + MessageHeaderSize
      BY <2>1 DEF HeaderFacts
    <3>2. start \in Nat
      BY DEF ReadInv, ReadTypeOK
    <3> QED
      BY <3>1, <3>2 DEF MessageHeaderSize
  <2> QED
    BY <2>1, <2>2 DEF HeaderFacts, NeverOverreads
<1> QED
  BY <1>1, ReadInvariant, PTL

(* A message that ReadMessageN returns is the one that the frame at the    *)
(* start of the call decodes to, whole, of the network and within limits.  *)
THEOREM DeliveryIsSound == InboundSpec => []DeliveredIsFrame
<1>1. ReadInv => DeliveredIsFrame
  BY DEF ReadInv, Idle, DeliveredIsFrame
<1> QED
  BY <1>1, ReadInvariant, PTL

(* The count that ReadMessageN returns is the number of cells it has taken,*)
(* or the header alone after discardInput.                                 *)
THEOREM CountIsAccurate == InboundSpec => []CountAccounts
<1>1. ReadInv => CountAccounts
  BY DEF ReadInv, Idle, CountAccounts
<1> QED
  BY <1>1, ReadInvariant, PTL

(* Outside of discardInput a failed read is returned to the caller.        *)
THEOREM FaultsAreReported == InboundSpec => []FaultsReported
<1>1. ReadInv => FaultsReported
  BY DEF ReadInv, Idle, FaultsReported
<1> QED
  BY <1>1, ReadInvariant, PTL

-----------------------------------------------------------------------------
(* Panics *)

(* A step of ReadMessageN panics only where Decode of a whole payload does. *)
LEMMA ReadStepPanics ==
  ASSUME ReadInv, ReadNext
  PROVE  PanicsAtUnlimitedCounts'
<1>1. CASE \/ Call \/ HeaderTooLarge \/ HeaderRefused \/ HeaderAccepted
           \/ DiscardFullChunk \/ DiscardRest \/ DiscardDone
  BY <1>1 DEF Call, HeaderTooLarge, HeaderRefused, HeaderAccepted, HeaderRead,
              DiscardFullChunk, DiscardRest, DiscardRead, DiscardDone, Return,
              PanicsAtUnlimitedCounts
<1>2. CASE HeaderFails \/ PayloadFails
  <2>1. ret'.err \in ReadErrors
    BY <1>2 DEF HeaderFails, PayloadFails, Return
  <2>2. "panic" \notin ReadErrors
    BY ReadAssumption DEF ReadAssumption, ReadErrors, ReadFullErrors
  <2> QED
    BY <2>1, <2>2 DEF PanicsAtUnlimitedCounts
<1>3. CASE PayloadRead
  <2> DEFINE p      == Cells(pos, hdr.length)
             kind   == KindOf(hdr, p)
             parsed == Parse(hdr, p)
  <2>1. /\ pos = start + MessageHeaderSize
        /\ start \in Nat /\ hdr.length \in Nat /\ wire \in Seq(Nat)
        /\ UNCHANGED <<wire, start, hdr>>
    BY <1>3 DEF PayloadRead, ReadInv, InPayload, HeaderFacts, ReadTypeOK
  <2>2. /\ pos' = pos + hdr.length /\ pos + hdr.length <= Len(wire)
        /\ ret'.msg = parsed.msg /\ ret'.err = parsed.err
    BY <1>3 DEF PayloadRead, ReadFull, Return
  <2>3. p \in Seq(Nat)
    <3>1. pos \in Nat
      BY <2>1 DEF MessageHeaderSize
    <3> QED
      BY <2>1, <2>2, <3>1, CutType DEF Cells
  <2>4. Cells(start + MessageHeaderSize, hdr.length)' = p /\ pos' = FrameEnd'
    BY <2>1, <2>2 DEF Cells, FrameEnd
  <2>5. SUFFICES ASSUME parsed.err = "panic"
                 PROVE  PanicsAtUnlimitedCounts'
    BY <2>2 DEF PanicsAtUnlimitedCounts
  <2>6. /\ Decode(kind, EmptyMessage(kind), p).err = "panic"
        /\ parsed.msg = NoMessage
    BY <2>5 DEF Parse
  <2>7. \/ kind = "version" /\ AgentErr(p) = "nil" /\ Huge(p, 12 + p[11])
        \/ kind = "pubkey" /\ p[4] = ExtendedPubKeyVersion /\ Huge(p, 11)
    BY <2>3, <2>6, Allocates
  <2> HIDE DEF p
  <2> QED
    BY <2>1, <2>2, <2>4, <2>6, <2>7 DEF PanicsAtUnlimitedCounts
<1> QED
  BY <1>1, <1>2, <1>3 DEF ReadNext, ReadStep

(* What was said of a call that panicked stays true while the wire grows.  *)
LEMMA PanicStays ==
  ASSUME ReadInv, PanicsAtUnlimitedCounts, UNCHANGED readVars,
         NEW s \in Seq(Nat), wire' = wire \o s
  PROVE  PanicsAtUnlimitedCounts'
<1>1. /\ UNCHANGED <<pos, rpc, start, hdr, ret>>
      /\ wire \in Seq(Nat) /\ start \in Nat /\ pos <= Len(wire)
  BY DEF readVars, ReadInv, ReadTypeOK
<1>2. hdr.length \in Nat
  BY DEF ReadInv, ReadTypeOK, NoHeader
<1>3. SUFFICES ASSUME rpc = "idle", ret.err = "panic"
               PROVE  PanicsAtUnlimitedCounts'
  BY <1>1 DEF PanicsAtUnlimitedCounts
<1>4. pos = FrameEnd
  BY <1>3 DEF PanicsAtUnlimitedCounts
<1>5. Cells(start + MessageHeaderSize, hdr.length)'
        = Cells(start + MessageHeaderSize, hdr.length)
  <2>1. /\ start + MessageHeaderSize \in Nat
        /\ start + MessageHeaderSize + hdr.length <= Len(wire)
    BY <1>1, <1>2, <1>4 DEF FrameEnd, MessageHeaderSize
  <2> QED
    BY <1>1, <1>2, <2>1, CutOfAppended DEF Cells
<1>6. FrameEnd' = FrameEnd
  BY <1>1 DEF FrameEnd
<1> QED
  BY <1>1, <1>3, <1>5, <1>6 DEF PanicsAtUnlimitedCounts

(* A call of ReadMessageN panics only at the counts of stream numbers and  *)
(* of signatures, which the decoders allocate at whatever they are.        *)
THEOREM PanicsAreOfCounts == InboundSpec => []PanicsAtUnlimitedCounts
<1>1. InboundInit => PanicsAtUnlimitedCounts
  BY DEF InboundInit, ReadInit, PanicsAtUnlimitedCounts
<1>2. ReadInv /\ PanicsAtUnlimitedCounts /\ [InboundNext]_inboundVars => PanicsAtUnlimitedCounts'
  <2> SUFFICES ASSUME ReadInv, PanicsAtUnlimitedCounts, [InboundNext]_inboundVars
               PROVE  PanicsAtUnlimitedCounts'
    OBVIOUS
  <2>1. CASE ReadNext
    BY <2>1, ReadStepPanics
  <2>2. CASE PeerSends
    <3>1. PICK s \in Segments : wire' = wire \o s
      BY <2>2 DEF PeerSends
    <3>2. s \in Seq(Nat) /\ UNCHANGED readVars
      BY <2>2, <3>1, InboundAssumption DEF InboundAssumption, PeerSends
    <3> QED
      BY <3>1, <3>2, PanicStays
  <2>3. CASE PeerCloses \/ UNCHANGED inboundVars
    <3>1. wire' = wire /\ UNCHANGED readVars
      BY <2>3 DEF PeerCloses, inboundVars
    <3>2. wire' = wire \o <<>> /\ <<>> \in Seq(Nat)
      BY <3>1 DEF ReadInv, ReadTypeOK
    <3> QED
      BY <3>1, <3>2, PanicStays
  <2> QED
    BY <2>1, <2>2, <2>3 DEF InboundNext
<1> QED
  BY <1>1, <1>2, ReadInvariant, PTL DEF InboundSpec

-----------------------------------------------------------------------------
(* ReadMessageN implements MessageReader: seen from outside, a call is one *)
(* step that judges the frame at its position.                             *)

(* The position that the abstract reader is at: a call that has not        *)
(* returned has not moved it.                                              *)
At == IF rpc = "idle" THEN pos ELSE start

-----------------------------------------------------------------------------
(* The steps inside a call, and the call itself, are stuttering steps.     *)
LEMMA CallStutters ==
  ASSUME ReadInv, Call \/ HeaderRefused \/ HeaderAccepted
                    \/ DiscardFullChunk \/ DiscardRest
  PROVE  UNCHANGED Reader!vars
<1>1. CASE Call
  BY <1>1 DEF Call, Reader!vars
<1>2. CASE HeaderRefused
  BY <1>2 DEF HeaderRefused, HeaderRead, Reader!vars
<1>3. CASE HeaderAccepted
  BY <1>3 DEF HeaderAccepted, HeaderRead, Reader!vars
<1>4. CASE DiscardFullChunk
  BY <1>4 DEF DiscardFullChunk, DiscardRead, Reader!vars
<1>5. CASE DiscardRest
  BY <1>5 DEF DiscardRest, DiscardRead, Reader!vars
<1> QED
  BY <1>1, <1>2, <1>3, <1>4, <1>5

(* What the abstract reader sees of a call that has read its header.       *)
LEMMA AbstractFrame ==
  ASSUME ReadInv, rpc # "idle"
  PROVE  /\ At = start
         /\ Reader!PayloadStart = start + MessageHeaderSize
         /\ Reader!Here = HeaderAt(start)
  BY DEF At, Reader!PayloadStart, Reader!Here, HeaderAt, Cells

(* A read that is cut off leaves the abstract reader where the connection  *)
(* ended or failed.                                                        *)
LEMMA BrokenRead ==
  ASSUME ReadInv, NEW want \in Nat, NEW n \in 0..want,
         NEW err \in ReadErrors \ {"nil"}, ReadFull(want, n, err),
         pos' = pos + n, rpc # "idle", rpc' = "idle", UNCHANGED <<wire, closed>>
  PROVE  /\ Reader!Broken
         /\ n < want
         /\ err \in ReadFullErrors \cup ReadFaults
<1>1. At' = pos + n /\ At = start
  BY DEF At
<1>2. /\ start \in Nat /\ pos \in Nat /\ start <= pos /\ pos + n <= Len(wire)
      /\ Len(wire) \in Nat
  BY DEF ReadInv, ReadTypeOK, ReadFull
<1>3. n < want /\ err \in ReadFullErrors \cup ReadFaults
  BY <1>2 DEF ReadFull, ReadErrors
<1>4. pos + n \in start..Len(wire)
  BY <1>2
<1>5. ReadFaults # {} \/ (closed /\ pos + n = Len(wire))
  BY <1>2 DEF ReadFull, ReadErrors
<1> QED
  BY <1>1, <1>3, <1>4, <1>5 DEF Reader!Broken, At

(* A header that is cut off.                                               *)
LEMMA HeaderFailsBreaks ==
  ASSUME ReadInv, HeaderFails
  PROVE  Reader!BreakInHeader
<1>1. PICK n \in 0..MessageHeaderSize, err \in ReadErrors \ {"nil"} :
        /\ ReadFull(MessageHeaderSize, n, err)
        /\ pos' = pos + n
        /\ Return(n, NoMessage, err)
  BY DEF HeaderFails
<1>2. rpc = "header" /\ rpc' = "idle" /\ UNCHANGED <<wire, closed>>
  BY <1>1 DEF HeaderFails, Return
<1>3. MessageHeaderSize \in Nat
  BY DEF MessageHeaderSize
<1>4. /\ Reader!Broken /\ n < MessageHeaderSize
      /\ err \in ReadFullErrors \cup ReadFaults
  BY <1>1, <1>2, <1>3, BrokenRead
<1>5. pos = start /\ start \in Nat
  BY <1>2 DEF ReadInv, ReadTypeOK, InHeader
<1>6. At' = start + n /\ At = start /\ (start + n) - start = n
  BY <1>1, <1>2, <1>3, <1>5 DEF At
<1>7. start + n < start + MessageHeaderSize
  BY <1>3, <1>4, <1>5
<1>8. ret' = [n |-> At' - At, msg |-> NoMessage, err |-> err]
  BY <1>1, <1>6 DEF Return
<1> QED
  BY <1>2, <1>4, <1>6, <1>7, <1>8
     DEF Reader!BreakInHeader, Reader!PayloadStart, At

(* A header with too large a length.                                       *)
LEMMA HeaderTooLargeGivesUp ==
  ASSUME ReadInv, HeaderTooLarge
  PROVE  Reader!GiveUp
<1>1. /\ rpc = "header" /\ rpc' = "idle" /\ UNCHANGED <<wire, closed>>
      /\ hdr' = HeaderAt(pos) /\ TooLarge(hdr')
      /\ pos' = pos + MessageHeaderSize /\ pos + MessageHeaderSize <= Len(wire)
      /\ ret' = [n |-> MessageHeaderSize, msg |-> NoMessage,
                 err |-> "MessageError"]
  BY DEF HeaderTooLarge, HeaderRead, Return, ReadFull
<1>2. pos = start
  BY <1>1 DEF ReadInv, InHeader
<1>3. /\ Reader!PayloadStart = start + MessageHeaderSize
      /\ Reader!Here = HeaderAt(start)
  BY <1>1, AbstractFrame
<1>4. At' = start + MessageHeaderSize
  BY <1>1, <1>2 DEF At
<1> QED
  BY <1>1, <1>2, <1>3, <1>4 DEF Reader!GiveUp, Reader!HeaderThere, At

(* A frame that was read or skipped whole.                                 *)
LEMMA WholeFrameJudged ==
  ASSUME ReadInv, rpc # "idle", rpc' = "idle", UNCHANGED <<wire, closed>>,
         hdr # NoHeader, ~TooLarge(hdr), pos' = FrameEnd, FrameEnd <= Len(wire),
         NEW outcome,
         outcome = Outcome(hdr, Cells(start + MessageHeaderSize, hdr.length)),
         ret' = [n |-> Counted(hdr), msg |-> outcome.msg, err |-> outcome.err]
  PROVE  Reader!Judge
<1>1. /\ Reader!PayloadStart = start + MessageHeaderSize
      /\ Reader!Here = HeaderAt(start)
  BY AbstractFrame
<1>2. hdr = HeaderAt(start)
  BY DEF ReadInv, HeaderFacts
<1>3. /\ start \in Nat /\ hdr.length \in Nat /\ Len(wire) \in Nat
  BY DEF ReadInv, ReadTypeOK
<1>4. At' = start + MessageHeaderSize + hdr.length
  BY DEF At, FrameEnd
<1>5. Reader!HeaderThere
  BY <1>1, <1>3 DEF Reader!HeaderThere, FrameEnd, MessageHeaderSize
<1>6. SubSeq(wire, Reader!PayloadStart + 1, At')
        = Cells(start + MessageHeaderSize, hdr.length)
  BY <1>1, <1>4 DEF Cells
<1>7. At' = Reader!PayloadStart + Reader!Here.length /\ At' <= Len(wire)
  BY <1>1, <1>2, <1>4 DEF FrameEnd
<1> QED
  BY <1>1, <1>2, <1>5, <1>6, <1>7 DEF Reader!Judge, At

(* A payload that is cut off.                                              *)
LEMMA PayloadFailsBreaks ==
  ASSUME ReadInv, PayloadFails
  PROVE  Reader!BreakInPayload
<1>1. PICK n \in 0..hdr.length, err \in ReadErrors \ {"nil"} :
        /\ ReadFull(hdr.length, n, err)
        /\ pos' = pos + n
        /\ Return(MessageHeaderSize + n, NoMessage, err)
  BY DEF PayloadFails
<1>2. rpc = "payload" /\ rpc' = "idle" /\ UNCHANGED <<wire, closed>>
  BY <1>1 DEF PayloadFails, Return
<1>3. /\ hdr # NoHeader /\ ~TooLarge(hdr) /\ ~Refused(hdr)
      /\ pos = start + MessageHeaderSize
  BY <1>2 DEF ReadInv, InPayload
<1>4. start \in Nat /\ hdr.length \in Nat /\ MessageHeaderSize \in Nat
  BY <1>3 DEF ReadInv, ReadTypeOK, MessageHeaderSize
<1>5. /\ Reader!Broken /\ n < hdr.length
      /\ err \in ReadFullErrors \cup ReadFaults
  BY <1>1, <1>2, <1>4, BrokenRead
<1>6. /\ Reader!PayloadStart = start + MessageHeaderSize
      /\ Reader!Here = hdr
  BY <1>2, <1>3, AbstractFrame DEF ReadInv, HeaderFacts
<1>7. At' = start + MessageHeaderSize + n /\ At = start
  BY <1>1, <1>2, <1>3 DEF At
<1>8. /\ At' - At = MessageHeaderSize + n
      /\ start + MessageHeaderSize <= At'
      /\ At' < start + MessageHeaderSize + hdr.length
  BY <1>4, <1>5, <1>7
<1>9. ret' = [n |-> At' - At, msg |-> NoMessage, err |-> err]
  BY <1>1, <1>8 DEF Return
<1> QED
  BY <1>3, <1>5, <1>6, <1>8, <1>9 DEF Reader!BreakInPayload, At

(* A payload that is read whole, acceptable or not.                        *)
LEMMA PayloadReadJudges ==
  ASSUME ReadInv, PayloadRead
  PROVE  Reader!Judge
<1> DEFINE outcome == Parse(hdr, Cells(pos, hdr.length))
<1>1. /\ rpc = "payload" /\ rpc' = "idle" /\ UNCHANGED <<wire, closed>>
      /\ pos' = pos + hdr.length /\ pos + hdr.length <= Len(wire)
      /\ ret' = [n |-> MessageHeaderSize + hdr.length,
                 msg |-> outcome.msg, err |-> outcome.err]
  BY DEF PayloadRead, ReadFull, Return
<1>2. /\ hdr # NoHeader /\ ~TooLarge(hdr) /\ ~Refused(hdr)
      /\ pos = start + MessageHeaderSize
  BY <1>1 DEF ReadInv, InPayload
<1>3. outcome = Outcome(hdr, Cells(start + MessageHeaderSize, hdr.length))
  BY <1>2 DEF Outcome
<1>4. Counted(hdr) = MessageHeaderSize + hdr.length
  BY <1>2 DEF Counted
<1>5. pos' = FrameEnd /\ FrameEnd <= Len(wire)
  BY <1>1, <1>2 DEF FrameEnd
<1> HIDE DEF outcome
<1> QED
  BY <1>1, <1>2, <1>3, <1>4, <1>5, WholeFrameJudged

(* A payload that was skipped, as far as the connection went.              *)
LEMMA DiscardDoneReturns ==
  ASSUME ReadInv, DiscardDone
  PROVE  Reader!Judge \/ Reader!BreakInPayload
<1>1. /\ rpc = "discard" /\ rpc' = "idle" /\ reads = 0 /\ rest = 0
      /\ UNCHANGED <<wire, closed, pos>>
      /\ ret' = [n |-> MessageHeaderSize, msg |-> NoMessage,
                 err |-> "MessageError"]
  BY DEF DiscardDone, Return
<1>2. /\ hdr # NoHeader /\ ~TooLarge(hdr) /\ Refused(hdr)
      /\ start + MessageHeaderSize <= pos
      /\ hdr = HeaderAt(start)
  BY <1>1 DEF ReadInv, InDiscard, HeaderFacts
<1>3. /\ pos \in Nat /\ start \in Nat /\ pos \in start..Len(wire)
      /\ Len(wire) \in Nat /\ hdr.length \in Nat /\ DiscardChunk \in Nat
  BY <1>2, ReadAssumption DEF ReadInv, ReadTypeOK, ReadAssumption
<1>4. Undiscarded = 0
  BY <1>1, <1>3 DEF Undiscarded
<1>5. /\ pos <= FrameEnd
      /\ pos # FrameEnd => ReadFaults # {} \/ (closed /\ pos = Len(wire))
  BY <1>1, <1>3, <1>4 DEF ReadInv, InDiscard, FrameEnd
<1>6. CASE pos = FrameEnd
  <2> DEFINE outcome == [msg |-> NoMessage, err |-> "MessageError"]
  <2>1. outcome = Outcome(hdr, Cells(start + MessageHeaderSize, hdr.length))
    BY <1>2 DEF Outcome
  <2>2. Counted(hdr) = MessageHeaderSize
    BY <1>2 DEF Counted, MessageHeaderSize
  <2>3. FrameEnd <= Len(wire)
    BY <1>3, <1>6
  <2>4. ret' = [n |-> Counted(hdr), msg |-> outcome.msg, err |-> outcome.err]
    BY <1>1, <2>2
  <2> HIDE DEF outcome
  <2> QED
    BY <1>1, <1>2, <1>6, <2>1, <2>3, <2>4, WholeFrameJudged
<1>7. CASE pos # FrameEnd
  <2>1. /\ Reader!PayloadStart = start + MessageHeaderSize
        /\ Reader!Here = hdr
    BY <1>1, <1>2, AbstractFrame
  <2>2. At' = pos /\ At = start
    BY <1>1 DEF At
  <2>3. Reader!Broken
    BY <1>1, <1>3, <1>5, <1>7, <2>2 DEF Reader!Broken, At
  <2>4. pos < start + MessageHeaderSize + hdr.length
    BY <1>3, <1>5, <1>7 DEF FrameEnd, MessageHeaderSize
  <2> QED
    BY <1>1, <1>2, <2>1, <2>2, <2>3, <2>4 DEF Reader!BreakInPayload, At
<1> QED
  BY <1>6, <1>7

(* The peer is the environment of the abstract reader.                     *)
LEMMA PeerIsEnvironment ==
  ASSUME ReadInv, PeerSends \/ PeerCloses
  PROVE  Reader!Environment
<1>1. UNCHANGED <<pos, rpc, start, ret>> /\ closed = FALSE
  BY DEF PeerSends, PeerCloses, readVars, ReadInv, ReadTypeOK
<1>2. UNCHANGED At
  BY <1>1 DEF At
<1>3. CASE PeerSends
  <2>1. PICK s \in Segments : wire' = wire \o s
    BY <1>3 DEF PeerSends
  <2>2. s \in Seq(Nat) /\ wire \in Seq(Nat)
    BY <2>1, InboundAssumption DEF InboundAssumption, ReadInv, ReadTypeOK
  <2>3. Len(wire') >= Len(wire) /\ SubSeq(wire', 1, Len(wire)) = wire
    BY <2>1, <2>2
  <2>4. closed' = FALSE
    BY <1>1, <1>3 DEF PeerSends
  <2> QED
    BY <1>1, <1>2, <2>3, <2>4 DEF Reader!Environment, At
<1>4. CASE PeerCloses
  BY <1>1, <1>2, <1>4 DEF PeerCloses, Reader!Environment, At
<1> QED
  BY <1>3, <1>4

(* To its caller ReadMessageN is a reader that judges frame after frame,   *)
(* with the exceptions that the abstract reader states.                    *)
THEOREM Refinement == InboundSpec => JudgesFrames
<1>1. InboundInit => Reader!Init
  BY DEF InboundInit, ReadInit, Reader!Init
<1>2. ReadInv /\ [InboundNext]_inboundVars => [Reader!Next]_(Reader!vars)
  <2> SUFFICES ASSUME ReadInv, [InboundNext]_inboundVars
               PROVE  [Reader!Next]_(Reader!vars)
    OBVIOUS
  <2>1. CASE Call \/ HeaderRefused \/ HeaderAccepted
               \/ DiscardFullChunk \/ DiscardRest
    BY <2>1, CallStutters
  <2>2. CASE HeaderFails
    BY <2>2, HeaderFailsBreaks DEF Reader!Next
  <2>3. CASE HeaderTooLarge
    BY <2>3, HeaderTooLargeGivesUp DEF Reader!Next
  <2>4. CASE PayloadFails
    BY <2>4, PayloadFailsBreaks DEF Reader!Next
  <2>5. CASE PayloadRead
    BY <2>5, PayloadReadJudges DEF Reader!Next
  <2>6. CASE DiscardDone
    BY <2>6, DiscardDoneReturns DEF Reader!Next
  <2>7. CASE PeerSends \/ PeerCloses
    BY <2>7, PeerIsEnvironment DEF Reader!Next
  <2>8. CASE UNCHANGED inboundVars
    BY <2>8 DEF inboundVars, readVars, Reader!vars
  <2> QED
    BY <2>1, <2>2, <2>3, <2>4, <2>5, <2>6, <2>7, <2>8
       DEF InboundNext, ReadNext, ReadStep
<1> QED
  BY <1>1, <1>2, ReadInvariant, PTL DEF InboundSpec, JudgesFrames, Reader!Spec
=============================================================================
