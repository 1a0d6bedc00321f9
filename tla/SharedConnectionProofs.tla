----------------------- MODULE SharedConnectionProofs -----------------------
(***************************************************************************)
(* Theorems about a connection that two goroutines write to and one reads  *)
(* from: callers that hold a lock during WriteMessageN make a channel of   *)
(* it, for every set of messages and every checksum.                       *)
(***************************************************************************)
EXTENDS SharedConnection, InboundProofs, WriteMessageProofs

-----------------------------------------------------------------------------
(* The second writer makes of a message what the first one makes of it:    *)
(* the operators without a state are those of the first, under its names.  *)

(* The names of object types and commands. *)
LEMMA SameNames ==
  /\ Second!ObjectKinds = ObjectKinds
  /\ Second!HandledCommands = HandledCommands
  /\ Second!ForeignKinds = ForeignKinds
  /\ Second!MessageHeaderSize = MessageHeaderSize
BY DEF Second!ObjectKinds, ObjectKinds, Second!ObjectKind, ObjectKind,
       Second!ObjectTypes, ObjectTypes,
       Second!ObjectTypeGetPubKey, ObjectTypeGetPubKey,
       Second!ObjectTypePubKey, ObjectTypePubKey,
       Second!ObjectTypeMsg, ObjectTypeMsg,
       Second!ObjectTypeBroadcast, ObjectTypeBroadcast,
       Second!HandledCommands, HandledCommands,
       Second!ForeignKinds, ForeignKinds,
       Second!MessageHeaderSize, MessageHeaderSize

(* The cell of a command. *)
LEMMA SameCommand ==
  ASSUME NEW kind
  PROVE  Second!CommandCell(kind) = CommandCell(kind)
BY SameNames
   DEF Second!CommandCell, CommandCell, Second!ObjectCell, ObjectCell,
       Second!UnknownCell, UnknownCell, Second!CommandName, CommandName

(* The encoders of the messages that are not objects. *)
LEMMA SameEncoders ==
  ASSUME NEW m
  PROVE  /\ Second!EncodeVersion(m) = EncodeVersion(m)
         /\ Second!EncodeAddr(m) = EncodeAddr(m)
         /\ Second!EncodeInv(m) = EncodeInv(m)
         /\ Second!EncodeGetData(m) = EncodeGetData(m)
<1>1. ASSUME NEW na, NEW stamp
      PROVE  Second!WriteNetAddress(na, stamp) = WriteNetAddress(na, stamp)
  BY DEF Second!WriteNetAddress, WriteNetAddress, Second!ZeroIP, ZeroIP,
         Second!NilIP, NilIP
<1>2. Second!EncodeVersion(m) = EncodeVersion(m)
  BY <1>1 DEF Second!EncodeVersion, EncodeVersion, Second!Failed, Failed,
              Second!Encoded, Encoded
<1>3. Second!EncodeAddr(m) = EncodeAddr(m)
  BY DEF Second!EncodeAddr, EncodeAddr, Second!Joined, Joined,
              Second!WriteNetAddress, WriteNetAddress, Second!ZeroIP, ZeroIP,
              Second!NilIP, NilIP,
              Second!MaxNetAddressPayload, MaxNetAddressPayload,
              Second!Failed, Failed, Second!Encoded, Encoded
<1>4. /\ Second!EncodeInv(m) = EncodeInv(m)
      /\ Second!EncodeGetData(m) = EncodeGetData(m)
  BY DEF Second!EncodeInv, EncodeInv, Second!EncodeGetData, EncodeGetData,
         Second!Failed, Failed, Second!Encoded, Encoded
<1> QED
  BY <1>2, <1>3, <1>4

(* The encoders of the objects. *)
LEMMA SameObjectEncoders ==
  ASSUME NEW m
  PROVE  /\ Second!EncodeGetPubKey(m) = EncodeGetPubKey(m)
         /\ Second!EncodePubKey(m) = EncodePubKey(m)
         /\ Second!EncodeSealed(m) = EncodeSealed(m)
BY DEF Second!EncodeGetPubKey, EncodeGetPubKey, Second!EncodePubKey,
       EncodePubKey, Second!EncodeSealed, EncodeSealed,
       Second!EncodeObject, EncodeObject, Second!EncodedOr, EncodedOr,
       Second!TagBasedRipeVersion, TagBasedRipeVersion,
       Second!EncryptedPubKeyVersion, EncryptedPubKeyVersion,
       Second!ExtendedPubKeyVersion, ExtendedPubKeyVersion,
       Second!Failed, Failed, Second!Encoded, Encoded

(* The payload and the limits of its type. *)
LEMMA SamePayload ==
  ASSUME NEW m
  PROVE  Second!Payload(m) = Payload(m)
<1>1. Second!Encode(m.kind, m.body) = Encode(m.kind, m.body)
  BY SameEncoders, SameObjectEncoders
     DEF Second!Encode, Encode, Second!Encoded, Encoded
<1> QED
  BY <1>1, SameNames DEF Second!Payload, Payload

(* The limit of its type.                                                  *)
LEMMA SameLimit ==
  ASSUME NEW kind
  PROVE  Second!MaxPayloadLength(kind) = MaxPayloadLength(kind)
BY DEF Second!MaxPayloadLength, MaxPayloadLength,
       Second!MaxVersionPayload, MaxVersionPayload,
       Second!MaxAddrPayload, MaxAddrPayload, Second!MaxInvPayload, MaxInvPayload,
       Second!MaxGetDataPayload, MaxGetDataPayload,
       Second!MaxVarIntPayload, MaxVarIntPayload,
       Second!MaxNetAddressPayload, MaxNetAddressPayload,
       Second!MaxInvVectPayload, MaxInvVectPayload

(* What is written, and whether it is. *)
LEMMA SameFrame ==
  ASSUME NEW m
  PROVE  /\ Second!HeaderCells(m) = HeaderCells(m)
         /\ Second!Validate(m) = Validate(m)
<1>1. Second!HeaderCells(m) = HeaderCells(m)
  BY SamePayload, SameCommand DEF Second!HeaderCells, HeaderCells
<1>2. Second!PayloadTooLarge(m) = PayloadTooLarge(m)
  BY SamePayload, SameLimit DEF Second!PayloadTooLarge, PayloadTooLarge
<1>3. Second!Validate(m) = Validate(m)
  BY <1>2, SamePayload DEF Second!Validate, Validate, Second!CommandTooLong,
     CommandTooLong
<1> QED
  BY <1>1, <1>3

-----------------------------------------------------------------------------
(* The inductive invariant.                                                *)
(*                                                                         *)
(* With the lock the wire is a chain of frames: frame i takes the cells    *)
(* from at[i - 1] to at[i], and known[i] of the first i frames are of      *)
(* types that the package knows.                                           *)

ValidMessage(m) == m \in Messages /\ Validate(m) = "nil"

InCall(pc) == pc \in {"header", "payload"}

Chained(n, frames, at, known) ==
  /\ n \in Nat /\ at \in [Nat -> Nat] /\ known \in [Nat -> Nat]
  /\ at[0] = 0 /\ known[0] = 0
  /\ \A i \in 1..n :
       /\ ValidMessage(frames[i])
       /\ at[i] = at[i - 1] + Len(FrameOf(frames[i]))
       /\ known[i] = known[i - 1] + (IF frames[i].kind \in Kinds THEN 1 ELSE 0)
  /\ \A i, j \in 0..n : i <= j => at[i] <= at[j] /\ known[i] <= known[j]

(* The cells of the wire are those of the frames. *)
FramesOnWire(n, frames, at) ==
  \A i \in 1..n : \A k \in 1..Len(FrameOf(frames[i])) :
    at[i - 1] + k <= Len(wire) => wire[at[i - 1] + k] = FrameOf(frames[i])[k]

(* All frames are whole, or all but the last, of which the header is there. *)
LastFrame(n, at, w) ==
  \/ w = n /\ Len(wire) = at[n]
  \/ /\ n > 0 /\ w = n - 1
     /\ Len(wire) = at[n - 1] + MessageHeaderSize /\ Len(wire) < at[n]

(* A frame that is not whole will be, unless the connection is closed. *)
Unfinished(n, w) ==
  w < n => closed \/ wpc = "payload" \/ wpc2 = "payload"

(* A writer between its two Writes has put the header of the last frame on *)
(* the wire, and nothing is behind it.                                     *)
HalfWritten(n, frames, at, pc, m) ==
  pc = "payload" =>
    /\ n > 0 /\ frames[n] = m
    /\ Len(wire) = at[n - 1] + MessageHeaderSize

(* The history of the writers: the whole frames of known types. *)
WrittenIs(frames, known, w) ==
  /\ written \in Seq(Images) /\ Len(written) = known[w]
  /\ \A i \in 1..w : frames[i].kind \in Kinds =>
                       written[known[i]] = Transmitted(frames[i])

(* The reader is at the beginning of a frame and has delivered the known   *)
(* ones before it; or the connection has ended.                            *)
ReaderAt(at, known, w, r) ==
  /\ r \in 0..w
  /\ delivered \in Seq(Images) /\ Len(delivered) = known[r]
  /\ \/ IF rpc = "idle" THEN pos = at[r] ELSE start = at[r]
     \/ closed /\ pos = Len(wire) /\ rpc \in {"idle", "header"}
     \/ rpc = "idle" /\ Broken(ret.err)

InOrder(n, frames, at, known, w, r) ==
  /\ Chained(n, frames, at, known) /\ FramesOnWire(n, frames, at)
  /\ LastFrame(n, at, w) /\ Unfinished(n, w)
  /\ HalfWritten(n, frames, at, wpc, wmsg)
  /\ HalfWritten(n, frames, at, wpc2, wmsg2)
  /\ WrittenIs(frames, known, w)
  /\ ReaderAt(at, known, w, r)

Locked ==
  /\ holder \in {0, 1, 2}
  /\ InCall(wpc) <=> holder = 1
  /\ InCall(wpc2) <=> holder = 2

Orderly ==
  /\ Locked
  /\ OnlyForeignRefused
  /\ \E n, frames, at, known, w, r : InOrder(n, frames, at, known, w, r)

SharedInv ==
  /\ ReadInv
  /\ InCall(wpc) => ValidMessage(wmsg)
  /\ InCall(wpc2) => ValidMessage(wmsg2)
  /\ locking => Orderly

(* A step of the two callers and the reader is one of the channel. *)
Sends ==
  /\ \E m \in Images : written' = Append(written, m)
  /\ UNCHANGED delivered

Receives ==
  /\ Len(delivered) < Len(written)
  /\ delivered' = Append(delivered, written[Len(delivered) + 1])
  /\ UNCHANGED written

ChannelStep == Sends \/ Receives \/ UNCHANGED <<written, delivered>>

-----------------------------------------------------------------------------
(* Frames and their headers *)

HdrOf(m) ==
  [magic |-> bmnet, command |-> CommandOf(CommandCell(m.kind)),
   length |-> Len(Payload(m).payload), checksum |-> Checksum(Payload(m).payload)]

(* What the reader makes of the header of a message that was written: a    *)
(* known one is read, a foreign one is skipped, and none is too large.     *)
LEMMA HeaderJudged ==
  ASSUME NEW m, ValidMessage(m)
  PROVE  /\ ~TooLarge(HdrOf(m))
         /\ m.kind \in Kinds =>
              /\ ~Refused(HdrOf(m))
              /\ Parse(HdrOf(m), Payload(m).payload)
                   = [msg |-> Transmitted(m), err |-> "nil"]
              /\ Transmitted(m) \in Images
         /\ m.kind \notin Kinds =>
              Refused(HdrOf(m)) /\ HdrOf(m).command = "unhandled"
<1> DEFINE h == HdrOf(m)
           p == Payload(m).payload
<1>1. m \in Messages /\ Validate(m) = "nil"
  BY DEF ValidMessage
<1>2. /\ h.magic = bmnet /\ h.command = CommandOf(CommandCell(m.kind))
      /\ h.length = Len(p) /\ h.checksum = Checksum(p)
  BY DEF HdrOf
<1>3. ~TooLarge(h)
  BY <1>1, <1>2 DEF TooLarge, Validate, PayloadTooLarge
<1> HIDE DEF h, p
<1>4. ASSUME m.kind \in Kinds
      PROVE  /\ ~Refused(h)
             /\ Parse(h, p) = [msg |-> Transmitted(m), err |-> "nil"]
             /\ Transmitted(m) \in Images
  <2>1. Outcome(h, p) = [msg |-> Transmitted(m), err |-> "nil"]
    BY <1>1, <1>2, <1>4, FrameReadable DEF p
  <2>2. ~Refused(h)
    BY <2>1 DEF Outcome
  <2>3. Transmitted(m) \in Images
    BY <1>1, <1>4 DEF Images
  <2> QED
    BY <2>1, <2>2, <2>3 DEF Outcome
<1>5. ASSUME m.kind \notin Kinds
      PROVE  Refused(h) /\ h.command = "unhandled"
  <2>1. m.kind \in ForeignKinds
    BY <1>1, <1>5, WriteAssumption DEF WriteAssumption
  <2>2. CommandCell(m.kind) = 30
    BY <1>5 DEF CommandCell, Kinds, UnknownCell
  <2>3. DOMAIN CommandName = 1..7
    BY DEF CommandName
  <2>4. CommandOf(30) = "unhandled"
    BY <2>3 DEF CommandOf
  <2> QED
    BY <1>2, <2>2, <2>4 DEF Refused, RefusedCommand, HandledCommands
<1> QED
  BY <1>3, <1>4, <1>5 DEF h, p

(* A frame is four cells and a payload. *)
LEMMA FrameParts ==
  ASSUME NEW m, ValidMessage(m)
  PROVE  LET p == Payload(m).payload
             f == FrameOf(m)
         IN  /\ p \in Seq(Nat) /\ Len(p) \in Nat
             /\ HeaderCells(m) \in Seq(Nat) /\ Len(HeaderCells(m)) = 4
             /\ f \in Seq(Nat) /\ Len(f) = 4 + Len(p)
             /\ HeaderOf(f) = HdrOf(m)
             /\ \A i \in 1..4 : f[i] = HeaderCells(m)[i]
             /\ \A i \in 1..Len(p) : f[4 + i] = p[i]
<1>1. m \in Messages /\ Validate(m) = "nil"
  BY DEF ValidMessage
<1> DEFINE p == Payload(m).payload
           f == FrameOf(m)
           h == HeaderCells(m)
<1>2. /\ h \in Seq(Nat) /\ Len(h) = 4
      /\ h[1] = bmnet /\ h[2] = CommandCell(m.kind)
      /\ h[3] = Len(p) /\ h[4] = Checksum(p)
      /\ p \in Seq(Nat) /\ Len(p) \in Nat
      /\ f \in Seq(Nat) /\ Len(f) = 4 + Len(p)
      /\ \A i \in 1..4 : f[i] = h[i]
      /\ \A i \in 1..Len(p) : f[4 + i] = p[i]
  BY <1>1, FrameCells
<1> HIDE DEF f, h, p
<1>3. f[1] = h[1] /\ f[2] = h[2] /\ f[3] = h[3] /\ f[4] = h[4]
  BY <1>2
<1>4. HeaderOf(f) = HdrOf(m)
  BY <1>2, <1>3 DEF HeaderOf, HdrOf, p
<1> QED
  BY <1>2, <1>4 DEF f, h, p

(* A header is its four cells. *)
LEMMA HeaderCut ==
  ASSUME NEW s \in Seq(Nat), NEW a \in Nat, a + 4 <= Len(s), NEW f,
         \A k \in 1..4 : s[a + k] = f[k]
  PROVE  HeaderOf(SubSeq(s, a + 1, a + 4)) = HeaderOf(f)
<1> DEFINE c == SubSeq(s, a + 1, a + 4)
<1>1. \A k \in 1..4 : c[k] = s[a + k]
  BY Cut
<1> HIDE DEF c
<1>2. c[1] = f[1] /\ c[2] = f[2] /\ c[3] = f[3] /\ c[4] = f[4]
  BY <1>1
<1>3. HeaderOf(c) = HeaderOf(f)
  BY <1>2 DEF HeaderOf
<1> QED
  BY <1>3 DEF c

(* The numbers of the chain. *)
LEMMA Positions ==
  ASSUME NEW n, NEW frames, NEW at, NEW known, NEW w, NEW r,
         InOrder(n, frames, at, known, w, r), wire \in Seq(Nat)
  PROVE  /\ n \in Nat /\ w \in Nat /\ r \in Nat /\ r <= w /\ w <= n
         /\ \A i \in Nat : at[i] \in Nat /\ known[i] \in Nat
         /\ \A i, j \in 0..n : i <= j => at[i] <= at[j] /\ known[i] <= known[j]
         /\ Len(wire) \in Nat /\ Len(wire) <= at[n]
         /\ w = n \/ (w = n - 1 /\ Len(wire) < at[n])
<1>1. Chained(n, frames, at, known) /\ LastFrame(n, at, w) /\ r \in 0..w
  BY DEF InOrder, ReaderAt
<1>2. /\ n \in Nat
      /\ \A i \in Nat : at[i] \in Nat /\ known[i] \in Nat
      /\ \A i, j \in 0..n : i <= j => at[i] <= at[j] /\ known[i] <= known[j]
  BY <1>1 DEF Chained
<1>3. Len(wire) \in Nat
  OBVIOUS
<1>4. /\ w = n \/ (w = n - 1 /\ n > 0 /\ Len(wire) < at[n])
      /\ Len(wire) <= at[n]
  BY <1>1, <1>2, <1>3 DEF LastFrame
<1> QED
  BY <1>1, <1>2, <1>3, <1>4

(* At the beginning of a frame of which the header has arrived the reader  *)
(* finds the header of that frame.                                         *)
LEMMA HeaderHere ==
  ASSUME NEW n, NEW frames, NEW at, NEW known, NEW w, NEW r,
         InOrder(n, frames, at, known, w, r), wire \in Seq(Nat),
         at[r] + MessageHeaderSize <= Len(wire)
  PROVE  /\ r \in Nat /\ r + 1 \in 1..n /\ at[r] \in Nat
         /\ ValidMessage(frames[r + 1])
         /\ HeaderAt(at[r]) = HdrOf(frames[r + 1])
         /\ at[r + 1] = at[r] + 4 + Len(Payload(frames[r + 1]).payload)
         /\ known[r + 1] = known[r] + (IF frames[r + 1].kind \in Kinds THEN 1 ELSE 0)
<1>1. /\ n \in Nat /\ r \in Nat /\ r <= n
      /\ at[r] \in Nat /\ at[n] \in Nat
      /\ Len(wire) \in Nat /\ Len(wire) <= at[n]
  BY Positions
<1>2. r + 1 \in 1..n /\ (r + 1) - 1 = r
  BY <1>1 DEF MessageHeaderSize
<1> DEFINE m == frames[r + 1]
           f == FrameOf(m)
<1>3. /\ ValidMessage(m)
      /\ at[r + 1] = at[r] + Len(f)
      /\ known[r + 1] = known[r] + (IF m.kind \in Kinds THEN 1 ELSE 0)
  <2>1. Chained(n, frames, at, known)
    BY DEF InOrder
  <2> QED
    BY <1>2, <2>1 DEF Chained
<1>4. /\ f \in Seq(Nat) /\ Len(f) = 4 + Len(Payload(m).payload)
      /\ HeaderOf(f) = HdrOf(m) /\ Len(Payload(m).payload) \in Nat
  BY <1>3, FrameParts
<1>5. \A k \in 1..Len(f) : at[r] + k <= Len(wire) => wire[at[r] + k] = f[k]
  BY <1>2 DEF InOrder, FramesOnWire
<1> HIDE DEF f
<1>6. \A k \in 1..4 : wire[at[r] + k] = f[k]
  <2> SUFFICES ASSUME NEW k \in 1..4
               PROVE  wire[at[r] + k] = f[k]
    OBVIOUS
  <2>0. at[r] + 4 <= Len(wire)
    BY DEF MessageHeaderSize
  <2>1. ASSUME NEW a \in Nat, NEW l \in Nat, NEW x, NEW y \in Nat,
               a + 4 <= y, x = 4 + l
        PROVE  k \in 1..x /\ a + k <= y
    BY <2>1
  <2>2. k \in 1..Len(f) /\ at[r] + k <= Len(wire)
    BY ONLY <1>1, <1>4, <2>0, <2>1
  <2> QED
    BY <1>5, <2>2
<1>7. HeaderAt(at[r]) = HeaderOf(f)
  <2>1. wire \in Seq(Nat) /\ at[r] \in Nat /\ at[r] + 4 <= Len(wire)
    BY <1>1 DEF MessageHeaderSize
  <2>2. PICK a \in Nat : a = at[r]
    BY <1>1
  <2>3. a + 4 <= Len(wire) /\ \A k \in 1..4 : wire[a + k] = f[k]
    BY ONLY <1>6, <2>1, <2>2
  <2>4. HeaderOf(SubSeq(wire, a + 1, a + 4)) = HeaderOf(f)
    BY ONLY <2>1, <2>3, HeaderCut
  <2> QED
    BY ONLY <2>2, <2>4 DEF HeaderAt, Cells, MessageHeaderSize
<1>8. at[r + 1] = at[r] + 4 + Len(Payload(m).payload)
  <2>1. ASSUME NEW a \in Nat, NEW l \in Nat, NEW b, NEW x, b = a + x, x = 4 + l
        PROVE  b = a + 4 + l
    BY <2>1
  <2>2. /\ at[r] \in Nat /\ Len(Payload(m).payload) \in Nat
        /\ at[r + 1] = at[r] + Len(f) /\ Len(f) = 4 + Len(Payload(m).payload)
    BY <1>1, <1>3, <1>4
  <2> QED
    BY ONLY <2>1, <2>2
<1> QED
  BY <1>1, <1>2, <1>3, <1>4, <1>7, <1>8

(* A payload that has arrived is that of the frame, and the frame is one   *)
(* that was recorded.                                                      *)
LEMMA PayloadHere ==
  ASSUME NEW n, NEW frames, NEW at, NEW known, NEW w, NEW r,
         InOrder(n, frames, at, known, w, r), wire \in Seq(Nat),
         at[r] + MessageHeaderSize <= Len(wire),
         at[r] + MessageHeaderSize + HeaderAt(at[r]).length <= Len(wire)
  PROVE  /\ r + 1 \in 0..w
         /\ Cells(at[r] + MessageHeaderSize, HeaderAt(at[r]).length)
              = Payload(frames[r + 1]).payload
<1> DEFINE m == frames[r + 1]
           f == FrameOf(m)
           p == Payload(m).payload
<1>1. /\ r \in Nat /\ r + 1 \in 1..n /\ at[r] \in Nat
      /\ ValidMessage(m) /\ HeaderAt(at[r]).length = Len(p)
      /\ at[r + 1] = at[r] + 4 + Len(p)
  <2>1. /\ r \in Nat /\ r + 1 \in 1..n /\ at[r] \in Nat
        /\ ValidMessage(m) /\ HeaderAt(at[r]) = HdrOf(m)
        /\ at[r + 1] = at[r] + 4 + Len(p)
    BY HeaderHere
  <2> QED
    BY <2>1 DEF HdrOf
<1>2. /\ p \in Seq(Nat) /\ Len(p) \in Nat /\ Len(f) = 4 + Len(p)
      /\ \A i \in 1..Len(p) : f[4 + i] = p[i]
  BY <1>1, FrameParts
<1>3. /\ n \in Nat /\ w \in Nat /\ at[n] \in Nat
      /\ Len(wire) \in Nat /\ (w = n \/ (w = n - 1 /\ Len(wire) < at[n]))
  BY Positions
<1>4. \A k \in 1..Len(f) : at[r] + k <= Len(wire) => wire[at[r] + k] = f[k]
  <2>1. (r + 1) - 1 = r
    BY <1>1
  <2> QED
    BY <1>1, <2>1 DEF InOrder, FramesOnWire
<1> HIDE DEF f, p, m
<1>5. at[r] + 4 + Len(p) <= Len(wire)
  BY <1>1 DEF MessageHeaderSize
<1>6. r + 1 \in 0..w
  <2>1. CASE w = n
    BY <1>1, <1>3, <2>1
  <2>2. CASE w # n
    <3>1. w = n - 1 /\ Len(wire) < at[n]
      BY <1>3, <2>2
    <3>2. ASSUME NEW a \in Nat, NEW l \in Nat, NEW b, NEW x \in Nat,
                 b = a + 4 + l, a + 4 + l <= x, x < b
          PROVE  FALSE
      BY <3>2
    <3>3. r + 1 # n
      BY ONLY <1>1, <1>2, <1>3, <1>5, <3>1, <3>2
    <3> QED
      BY <1>1, <1>3, <3>1, <3>3
  <2> QED
    BY <2>1, <2>2
<1>7. \A i \in 1..Len(p) : wire[(at[r] + 4) + i] = p[i]
  <2> SUFFICES ASSUME NEW i \in 1..Len(p)
               PROVE  wire[(at[r] + 4) + i] = p[i]
    OBVIOUS
  <2>0. i \in 1..Len(p)
    OBVIOUS
  <2>1. /\ 4 + i \in 1..Len(f) /\ at[r] + (4 + i) <= Len(wire)
        /\ at[r] + (4 + i) = (at[r] + 4) + i
    <3>1. ASSUME NEW a \in Nat, NEW l \in Nat, NEW j \in 1..l, NEW x \in Nat,
                 a + 4 + l <= x
          PROVE  /\ 4 + j \in 1..(4 + l) /\ a + (4 + j) <= x
                 /\ a + (4 + j) = (a + 4) + j
      BY <3>1
    <3>2. at[r] \in Nat /\ Len(p) \in Nat /\ Len(wire) \in Nat
      BY <1>1, <1>2, <1>3
    <3>3. /\ 4 + i \in 1..(4 + Len(p)) /\ at[r] + (4 + i) <= Len(wire)
          /\ at[r] + (4 + i) = (at[r] + 4) + i
      BY ONLY <1>5, <2>0, <3>1, <3>2
    <3> QED
      BY ONLY <1>2, <3>3
  <2>2. f[4 + i] = p[i]
    BY <1>2, <2>0
  <2> QED
    BY ONLY <1>4, <2>1, <2>2
<1>8. at[r] + 4 \in Nat /\ (at[r] + 4) + Len(p) <= Len(wire)
  <2>1. /\ at[r] \in Nat /\ Len(p) \in Nat /\ Len(wire) \in Nat
        /\ at[r] + 4 + Len(p) <= Len(wire)
    BY <1>1, <1>2, <1>3, <1>5
  <2>2. ASSUME NEW a \in Nat, NEW l \in Nat, NEW x \in Nat, a + 4 + l <= x
        PROVE  a + 4 \in Nat /\ (a + 4) + l <= x
    BY <2>2
  <2> QED
    BY ONLY <2>1, <2>2
<1>9. SubSeq(wire, (at[r] + 4) + 1, (at[r] + 4) + Len(p)) = p
  BY <1>2, <1>7, <1>8, CutIs
<1> QED
  BY <1>1, <1>6, <1>9 DEF Cells, MessageHeaderSize, m, p

-----------------------------------------------------------------------------
(* The writers *)

(* A function with one more value behind the first n. *)
Extended(f, n, x) == [i \in Nat |-> IF i = n + 1 THEN x ELSE f[i]]

One(m) == IF m.kind \in Kinds THEN 1 ELSE 0

(* The chain with one more frame is a chain. *)
LEMMA ChainGrows ==
  ASSUME NEW n, NEW frames, NEW at, NEW known, Chained(n, frames, at, known),
         NEW m, ValidMessage(m)
  PROVE  LET frames2 == Extended(frames, n, m)
             at2     == Extended(at, n, at[n] + Len(FrameOf(m)))
             known2  == Extended(known, n, known[n] + One(m))
         IN  /\ Chained(n + 1, frames2, at2, known2)
             /\ \A i \in 0..n : at2[i] = at[i] /\ known2[i] = known[i]
             /\ \A i \in 1..n : frames2[i] = frames[i]
             /\ frames2[n + 1] = m /\ at2[n + 1] = at[n] + Len(FrameOf(m))
             /\ known2[n + 1] = known[n] + One(m)
<1> DEFINE l == Len(FrameOf(m))
           frames2 == Extended(frames, n, m)
           at2     == Extended(at, n, at[n] + l)
           known2  == Extended(known, n, known[n] + One(m))
<1>1. n \in Nat /\ at \in [Nat -> Nat] /\ known \in [Nat -> Nat]
  BY DEF Chained
<1>2. l \in Nat /\ One(m) \in Nat
  <2>1. Len(Payload(m).payload) \in Nat /\ l = 4 + Len(Payload(m).payload)
    BY FrameParts
  <2>2. One(m) \in Nat
    BY DEF One
  <2> QED
    BY ONLY <2>1, <2>2
<1> HIDE DEF l
<1>3. /\ at2 \in [Nat -> Nat] /\ known2 \in [Nat -> Nat]
      /\ \A i \in 0..n : at2[i] = at[i] /\ known2[i] = known[i]
      /\ \A i \in 1..n : frames2[i] = frames[i]
      /\ frames2[n + 1] = m /\ at2[n + 1] = at[n] + l
      /\ known2[n + 1] = known[n] + One(m)
  <2>1. at[n] + l \in Nat /\ known[n] + One(m) \in Nat
    BY <1>1, <1>2
  <2>2. at2 \in [Nat -> Nat] /\ known2 \in [Nat -> Nat]
    BY <1>1, <2>1 DEF Extended
  <2>3. \A i \in 0..n : i \in Nat /\ i # n + 1
    BY <1>1
  <2>4. \A i \in 1..n : i \in Nat /\ i # n + 1
    BY <1>1
  <2>5. n + 1 \in Nat
    BY <1>1
  <2> QED
    BY <2>2, <2>3, <2>4, <2>5 DEF Extended
<1> HIDE DEF at2, known2, frames2
<1>4. \A i \in 1..(n + 1) :
        /\ ValidMessage(frames2[i])
        /\ at2[i] = at2[i - 1] + Len(FrameOf(frames2[i]))
        /\ known2[i] = known2[i - 1] + (IF frames2[i].kind \in Kinds THEN 1 ELSE 0)
  <2> SUFFICES ASSUME NEW i \in 1..(n + 1)
               PROVE  /\ ValidMessage(frames2[i])
                      /\ at2[i] = at2[i - 1] + Len(FrameOf(frames2[i]))
                      /\ known2[i] = known2[i - 1] +
                           (IF frames2[i].kind \in Kinds THEN 1 ELSE 0)
    OBVIOUS
  <2>1. CASE i = n + 1
    <3>1. n \in 0..n /\ (n + 1) - 1 = n
      BY <1>1
    <3> QED
      BY <1>3, <2>1, <3>1 DEF One, l
  <2>2. CASE i # n + 1
    <3>1. i \in 1..n /\ i \in 0..n /\ i - 1 \in 0..n
      BY <1>1, <2>2
    <3>2. /\ ValidMessage(frames[i])
          /\ at[i] = at[i - 1] + Len(FrameOf(frames[i]))
          /\ known[i] = known[i - 1] + (IF frames[i].kind \in Kinds THEN 1 ELSE 0)
      BY <3>1 DEF Chained
    <3> QED
      BY <1>3, <3>1, <3>2
  <2> QED
    BY <2>1, <2>2
<1>5. \A i, j \in 0..(n + 1) : i <= j => at2[i] <= at2[j] /\ known2[i] <= known2[j]
  <2> SUFFICES ASSUME NEW i \in 0..(n + 1), NEW j \in 0..(n + 1), i <= j
               PROVE  at2[i] <= at2[j] /\ known2[i] <= known2[j]
    OBVIOUS
  <2>1. \A a, b \in 0..n : a <= b => at[a] <= at[b] /\ known[a] <= known[b]
    BY DEF Chained
  <2>2. CASE j # n + 1
    <3>1. i \in 0..n /\ j \in 0..n
      BY <1>1, <2>2
    <3> QED
      BY <1>3, <2>1, <3>1
  <2>3. CASE j = n + 1 /\ i = n + 1
    BY <1>3, <1>1, <2>3
  <2>4. CASE j = n + 1 /\ i # n + 1
    <3>1. i \in 0..n /\ n \in 0..n /\ i <= n
      BY <1>1, <2>4
    <3>2. at[i] <= at[n] /\ known[i] <= known[n]
      BY <2>1, <3>1
    <3>3. at[i] \in Nat /\ at[n] \in Nat /\ known[i] \in Nat /\ known[n] \in Nat
      BY <1>1, <3>1
    <3>4. at[i] <= at[n] + l /\ known[i] <= known[n] + One(m)
      BY ONLY <1>2, <3>2, <3>3
    <3> QED
      BY <1>3, <2>4, <3>1, <3>4
  <2> QED
    BY <2>2, <2>3, <2>4
<1>6. at2[0] = 0 /\ known2[0] = 0
  <2>1. 0 \in 0..n
    BY <1>1
  <2> QED
    BY <1>3, <2>1 DEF Chained
<1>7. Chained(n + 1, frames2, at2, known2)
  <2>1. n + 1 \in Nat
    BY <1>1
  <2> QED
    BY ONLY <1>3, <1>4, <1>5, <1>6, <2>1, ZenonT(30) DEF Chained
<1> QED
  BY <1>3, <1>7 DEF at2, known2, frames2, l

(* A Write of a call, as its message and the state of the connection have  *)
(* it: a closed connection takes nothing, an open one takes everything.    *)
Writes(pc, m, next) ==
  \/ pc = "header" /\ next = "payload" /\ ~closed /\ wire' = wire \o HeaderCells(m)
  \/ pc = "payload" /\ next = "idle" /\ ~closed /\ wire' = wire \o Payload(m).payload
  \/ InCall(pc) /\ next = "idle" /\ closed /\ wire' = wire

(* What a Write takes of a wire that does not fail. *)
LEMMA Taken ==
  ASSUME NEW s \in Seq(Nat), NEW c \in Seq(Nat)
  PROVE  /\ s \o SubSeq(c, 1, Len(c)) = s \o c
         /\ s \o SubSeq(c, 1, 0) = s
<1>1. SubSeq(c, 1, Len(c)) = c
  OBVIOUS
<1>2. SubSeq(c, 1, 0) = <<>>
  OBVIOUS
<1>3. s \o <<>> = s
  OBVIOUS
<1> QED
  BY <1>1, <1>2, <1>3

(* A Write of the first caller.                                            *)
LEMMA FirstWriteIs ==
  ASSUME wire \in Seq(Nat), InCall(wpc) => ValidMessage(wmsg), WriteStep
  PROVE  Writes(wpc, wmsg, wpc') /\ wmsg' = wmsg /\ closed' = closed
<1>1. InCall(wpc) /\ wmsg' = wmsg /\ closed' = closed
  BY DEF WriteStep, HeaderWritten, HeaderWriteFails, PayloadWritten,
         PayloadWriteFails, InCall
<1> DEFINE h == HeaderCells(wmsg)
           p == Payload(wmsg).payload
<1>2. /\ h \in Seq(Nat) /\ Len(h) = MessageHeaderSize /\ p \in Seq(Nat)
  BY <1>1, FrameParts DEF MessageHeaderSize
<1>3. wire \o SubSeq(h, 1, Len(h)) = wire \o h /\ wire \o SubSeq(h, 1, 0) = wire
  BY <1>2, Taken
<1>4. wire \o SubSeq(p, 1, Len(p)) = wire \o p /\ wire \o SubSeq(p, 1, 0) = wire
  BY <1>2, Taken
<1>5. CASE HeaderWritten
  BY <1>2, <1>3, <1>5 DEF HeaderWritten, Write, Writes
<1>6. CASE HeaderWriteFails
  <2>1. PICK n \in 0..MessageHeaderSize :
          Write(h, n, "WriteError") /\ WriteReturn(n, "WriteError")
    BY <1>6 DEF HeaderWriteFails
  <2> HIDE DEF h
  <2>2. WriteFaults = FALSE
    BY SharedAssumption DEF SharedAssumption
  <2>3. n = 0 /\ closed /\ wire' = wire \o SubSeq(h, 1, n) /\ wpc' = "idle"
    BY ONLY <2>1, <2>2, Zenon DEF Write, WriteReturn
  <2> QED
    BY ONLY <1>1, <1>3, <2>3 DEF Writes
<1>7. CASE PayloadWritten
  BY <1>4, <1>7, Zenon DEF PayloadWritten, Write, WriteReturn, Writes
<1>8. CASE PayloadWriteFails
  <2>1. PICK n \in 0..Len(p) :
          /\ Write(p, n, "WriteError")
          /\ WriteReturn(MessageHeaderSize + n, "WriteError")
    BY <1>8 DEF PayloadWriteFails
  <2> HIDE DEF p
  <2>2. WriteFaults = FALSE
    BY SharedAssumption DEF SharedAssumption
  <2>3. n = 0 /\ closed /\ wire' = wire \o SubSeq(p, 1, n) /\ wpc' = "idle"
    BY ONLY <2>1, <2>2, Zenon DEF Write, WriteReturn
  <2> QED
    BY ONLY <1>1, <1>4, <2>3 DEF Writes
<1> QED
  BY <1>1, <1>5, <1>6, <1>7, <1>8 DEF WriteStep

(* A Write of the second caller.                                           *)
LEMMA SecondWriteIs ==
  ASSUME wire \in Seq(Nat), InCall(wpc2) => ValidMessage(wmsg2), Second!WriteStep
  PROVE  Writes(wpc2, wmsg2, wpc2') /\ wmsg2' = wmsg2 /\ closed' = closed
<1>1. InCall(wpc2) /\ wmsg2' = wmsg2 /\ closed' = closed
  BY DEF Second!WriteStep, Second!HeaderWritten, Second!HeaderWriteFails,
         Second!PayloadWritten, Second!PayloadWriteFails, InCall
<1> DEFINE h == HeaderCells(wmsg2)
           p == Payload(wmsg2).payload
<1>2. /\ h \in Seq(Nat) /\ Len(h) = MessageHeaderSize /\ p \in Seq(Nat)
      /\ h = Second!HeaderCells(wmsg2) /\ p = Second!Payload(wmsg2).payload
      /\ Second!MessageHeaderSize = MessageHeaderSize
  BY <1>1, FrameParts, SameFrame, SamePayload, SameNames DEF MessageHeaderSize
<1>3. wire \o SubSeq(h, 1, Len(h)) = wire \o h /\ wire \o SubSeq(h, 1, 0) = wire
  BY <1>2, Taken
<1>4. wire \o SubSeq(p, 1, Len(p)) = wire \o p /\ wire \o SubSeq(p, 1, 0) = wire
  BY <1>2, Taken
<1> HIDE DEF h, p
<1>5. CASE Second!HeaderWritten
  BY <1>2, <1>3, <1>5 DEF Second!HeaderWritten, Second!Write, Writes, h
<1>6. CASE Second!HeaderWriteFails
  <2>1. PICK n \in 0..MessageHeaderSize :
          /\ Second!Write(h, n, "WriteError")
          /\ Second!WriteReturn(n, "WriteError")
    BY <1>2, <1>6 DEF Second!HeaderWriteFails
  <2>2. WriteFaults = FALSE
    BY SharedAssumption DEF SharedAssumption
  <2>3. n = 0 /\ closed /\ wire' = wire \o SubSeq(h, 1, n) /\ wpc2' = "idle"
    BY ONLY <2>1, <2>2, Zenon DEF Second!Write, Second!WriteReturn
  <2> QED
    BY ONLY <1>1, <1>3, <2>3 DEF Writes
<1>7. CASE Second!PayloadWritten
  BY <1>2, <1>4, <1>7, Zenon DEF Second!PayloadWritten, Second!Write,
                          Second!WriteReturn, Writes, p
<1>8. CASE Second!PayloadWriteFails
  <2>1. PICK n \in 0..Len(p) :
          /\ Second!Write(p, n, "WriteError")
          /\ Second!WriteReturn(MessageHeaderSize + n, "WriteError")
    BY <1>2, <1>8 DEF Second!PayloadWriteFails
  <2>2. WriteFaults = FALSE
    BY SharedAssumption DEF SharedAssumption
  <2>3. n = 0 /\ closed /\ wire' = wire \o SubSeq(p, 1, n) /\ wpc2' = "idle"
    BY ONLY <2>1, <2>2, Zenon DEF Second!Write, Second!WriteReturn
  <2> QED
    BY ONLY <1>1, <1>4, <2>3 DEF Writes
<1> QED
  BY <1>1, <1>5, <1>6, <1>7, <1>8 DEF Second!WriteStep

(* What is on the wire stays when cells are added behind it. *)
LEMMA WireKeeps ==
  ASSUME wire \in Seq(Nat), NEW c \in Seq(Nat), wire' = wire \o c
  PROVE  /\ wire' \in Seq(Nat) /\ Len(wire') = Len(wire) + Len(c)
         /\ Len(wire) \in Nat /\ Len(c) \in Nat
         /\ \A i \in 1..Len(wire) : wire'[i] = wire[i]
         /\ \A i \in 1..Len(c) : wire'[Len(wire) + i] = c[i]
<1>1. Joins(wire \o c, wire, c)
  BY Concat
<1>2. Len(wire) \in Nat /\ Len(c) \in Nat
  OBVIOUS
<1> QED
  BY ONLY <1>1, <1>2, wire' = wire \o c DEF Joins

(* A frame that ends on the wire has all of its cells there. *)
LEMMA FramesWhole ==
  ASSUME NEW n, NEW frames, NEW at, NEW known, Chained(n, frames, at, known),
         FramesOnWire(n, frames, at), wire \in Seq(Nat),
         NEW k \in 0..n, at[k] <= Len(wire)
  PROVE  \A i \in 1..k : \A j \in 1..Len(FrameOf(frames[i])) :
           /\ at[i - 1] + j \in 1..Len(wire)
           /\ wire[at[i - 1] + j] = FrameOf(frames[i])[j]
<1> SUFFICES ASSUME NEW i \in 1..k, NEW j \in 1..Len(FrameOf(frames[i]))
             PROVE  /\ at[i - 1] + j \in 1..Len(wire)
                    /\ wire[at[i - 1] + j] = FrameOf(frames[i])[j]
  OBVIOUS
<1>1. n \in Nat /\ at \in [Nat -> Nat]
  BY DEF Chained
<1>2. i \in 1..n /\ i - 1 \in Nat /\ i \in 0..n /\ i <= k
  BY <1>1
<1> DEFINE f == FrameOf(frames[i])
<1>3. ValidMessage(frames[i]) /\ at[i] = at[i - 1] + Len(f) /\ at[i] <= at[k]
  BY <1>2 DEF Chained
<1>4. Len(f) = 4 + Len(Payload(frames[i]).payload)
      /\ Len(Payload(frames[i]).payload) \in Nat
  BY <1>3, FrameParts
<1>5. j \in 1..Len(f)
  OBVIOUS
<1>6. \A e \in 1..Len(f) : at[i - 1] + e <= Len(wire) => wire[at[i - 1] + e] = f[e]
  BY <1>2 DEF FramesOnWire
<1> HIDE DEF f
<1>7. /\ at[i - 1] \in Nat /\ at[i] \in Nat /\ at[k] \in Nat /\ Len(wire) \in Nat
      /\ Len(f) \in Nat
  <2>1. k \in Nat /\ Len(wire) \in Nat
    BY <1>1
  <2>a. \A e \in Nat : at[e] \in Nat
    BY ONLY <1>1
  <2>b. i \in Nat /\ i - 1 \in Nat
    BY ONLY <1>1, <1>2
  <2>2. at[i - 1] \in Nat /\ at[i] \in Nat /\ at[k] \in Nat
    BY ONLY <2>1, <2>a, <2>b
  <2>3. Len(f) \in Nat
    BY ONLY <1>4
  <2> QED
    BY ONLY <2>1, <2>2, <2>3
<1>8. at[i - 1] + j \in 1..Len(wire)
  <2>1. ASSUME NEW a \in Nat, NEW l \in Nat, NEW x \in Nat, NEW e \in 1..l, a + l <= x
        PROVE  a + e \in 1..x
    BY <2>1
  <2>2. at[i - 1] + Len(f) <= Len(wire)
    BY <1>3, <1>7
  <2> QED
    BY ONLY <1>5, <1>7, <2>1, <2>2
<1>9. wire[at[i - 1] + j] = f[j]
  BY <1>5, <1>6, <1>8, <1>7
<1> QED
  BY <1>8, <1>9 DEF f

(* The header of the next frame. *)
LEMMA HeaderOnWire ==
  ASSUME NEW n, NEW frames, NEW at, NEW known, Chained(n, frames, at, known),
         FramesOnWire(n, frames, at), wire \in Seq(Nat), Len(wire) = at[n],
         NEW m, ValidMessage(m), wire' = wire \o HeaderCells(m)
  PROVE  LET frames2 == Extended(frames, n, m)
             at2     == Extended(at, n, at[n] + Len(FrameOf(m)))
         IN  /\ FramesOnWire(n + 1, frames2, at2)'
             /\ wire' \in Seq(Nat) /\ Len(wire') = at[n] + 4
<1> DEFINE frames2 == Extended(frames, n, m)
           at2     == Extended(at, n, at[n] + Len(FrameOf(m)))
           f == FrameOf(m)
           h == HeaderCells(m)
<1>1. /\ h \in Seq(Nat) /\ Len(h) = 4
      /\ f \in Seq(Nat) /\ \A i \in 1..4 : f[i] = h[i]
      /\ Len(f) \in Nat
  BY FrameParts
<1>2. /\ \A i \in 0..n : at2[i] = at[i]
      /\ \A i \in 1..n : frames2[i] = frames[i]
      /\ frames2[n + 1] = m
  BY ChainGrows
<1>3. /\ wire' \in Seq(Nat) /\ Len(wire') = Len(wire) + Len(h) /\ Len(wire) \in Nat
      /\ \A i \in 1..4 : wire'[Len(wire) + i] = h[i]
  BY <1>1, WireKeeps
<1>4. n \in Nat /\ at[n] <= Len(wire)
  BY <1>3 DEF Chained
<1>5. \A i \in 1..n : \A j \in 1..Len(FrameOf(frames[i])) :
        wire'[at[i - 1] + j] = FrameOf(frames[i])[j]
  <2>1. n \in 0..n
    BY <1>4
  <2>2. \A i \in 1..n : \A j \in 1..Len(FrameOf(frames[i])) :
          /\ at[i - 1] + j \in 1..Len(wire)
          /\ wire[at[i - 1] + j] = FrameOf(frames[i])[j]
    <3>1. /\ Chained(n, frames, at, known) /\ FramesOnWire(n, frames, at)
          /\ wire \in Seq(Nat) /\ at[n] <= Len(wire)
      BY <1>4
    <3> QED
      BY ONLY <2>1, <3>1, FramesWhole
  <2>3. \A i \in 1..Len(wire) : wire'[i] = wire[i]
    BY <1>1, WireKeeps
  <2> QED
    BY ONLY <2>2, <2>3
<1> HIDE DEF frames2, at2, h, f
<1>6. ASSUME NEW i \in 1..(n + 1), NEW k \in 1..Len(FrameOf(frames2[i])),
             at2[i - 1] + k <= Len(wire')
      PROVE  wire'[at2[i - 1] + k] = FrameOf(frames2[i])[k]
  <2>1. CASE i = n + 1
    <3>1. i - 1 = n /\ n \in 0..n
      BY <1>4, <2>1
    <3>2. at2[i - 1] = Len(wire) /\ FrameOf(frames2[i]) = f
      BY <1>2, <2>1, <3>1 DEF f
    <3>3. k \in 1..Len(f) /\ Len(wire) + k <= Len(wire) + 4
      BY <1>6, <1>3, <1>1, <3>2
    <3>4. k \in 1..4
      BY <1>1, <1>3, <3>3
    <3> QED
      BY <1>1, <1>3, <3>2, <3>4
  <2>2. CASE i # n + 1
    <3>1. i \in 1..n /\ i - 1 \in 0..n
      BY <1>4, <2>2
    <3> QED
      BY <1>2, <1>5, <1>6, <3>1
  <2> QED
    BY <2>1, <2>2
<1>7. FramesOnWire(n + 1, frames2, at2)'
  BY <1>6 DEF FramesOnWire
<1> QED
  BY <1>1, <1>3, <1>7 DEF frames2, at2, h, f

(* The payload of the last frame. *)
LEMMA PayloadOnWire ==
  ASSUME NEW n, NEW frames, NEW at, NEW known, Chained(n, frames, at, known),
         FramesOnWire(n, frames, at), wire \in Seq(Nat), n > 0,
         Len(wire) = at[n - 1] + 4, wire' = wire \o Payload(frames[n]).payload
  PROVE  /\ FramesOnWire(n, frames, at)'
         /\ wire' \in Seq(Nat) /\ Len(wire') = at[n]
<1> DEFINE m == frames[n]
           f == FrameOf(m)
           p == Payload(m).payload
<1>1. n \in Nat /\ at \in [Nat -> Nat] /\ n - 1 \in 0..n /\ n \in 1..n
  <2>1. n \in Nat /\ at \in [Nat -> Nat]
    BY DEF Chained
  <2>2. n > 0
    OBVIOUS
  <2> QED
    BY ONLY <2>1, <2>2
<1>2. ValidMessage(m) /\ at[n] = at[n - 1] + Len(f)
  BY <1>1 DEF Chained
<1>3. /\ p \in Seq(Nat) /\ Len(p) \in Nat /\ Len(f) = 4 + Len(p)
      /\ \A i \in 1..Len(p) : f[4 + i] = p[i]
  BY <1>2, FrameParts
<1>4. /\ wire' \in Seq(Nat) /\ Len(wire') = Len(wire) + Len(p) /\ Len(wire) \in Nat
      /\ \A i \in 1..Len(wire) : wire'[i] = wire[i]
      /\ \A i \in 1..Len(p) : wire'[Len(wire) + i] = p[i]
  BY <1>3, WireKeeps
<1>5. at[n - 1] \in Nat /\ at[n - 1] <= Len(wire)
  BY <1>1
<1>6. \A i \in 1..(n - 1) : \A j \in 1..Len(FrameOf(frames[i])) :
        wire'[at[i - 1] + j] = FrameOf(frames[i])[j]
  <2>1. \A i \in 1..(n - 1) : \A j \in 1..Len(FrameOf(frames[i])) :
          /\ at[i - 1] + j \in 1..Len(wire)
          /\ wire[at[i - 1] + j] = FrameOf(frames[i])[j]
    <3>1. PICK k \in 0..n : k = n - 1
      BY <1>1
    <3>2. /\ Chained(n, frames, at, known) /\ FramesOnWire(n, frames, at)
          /\ wire \in Seq(Nat) /\ k \in 0..n /\ at[k] <= Len(wire)
      BY <1>5, <3>1
    <3>3. \A i \in 1..k : \A j \in 1..Len(FrameOf(frames[i])) :
            /\ at[i - 1] + j \in 1..Len(wire)
            /\ wire[at[i - 1] + j] = FrameOf(frames[i])[j]
      BY ONLY <3>2, FramesWhole
    <3> QED
      BY ONLY <3>1, <3>3
  <2> QED
    BY ONLY <1>4, <2>1
<1>7. \A j \in 1..Len(f) : at[n - 1] + j <= Len(wire) => wire[at[n - 1] + j] = f[j]
  BY <1>1 DEF FramesOnWire
<1> HIDE DEF f, p
<1>8. ASSUME NEW j \in 1..Len(f)
      PROVE  wire'[at[n - 1] + j] = f[j]
  <2>1. CASE j <= 4
    <3>1. at[n - 1] + j \in 1..Len(wire)
      <4>1. ASSUME NEW a \in Nat, NEW l \in Nat, NEW q \in Nat, NEW e \in 1..q,
                   l = a + 4, e <= 4
            PROVE  a + e \in 1..l
        BY <4>1
      <4>2. Len(f) \in Nat /\ Len(wire) = at[n - 1] + 4 /\ j \in 1..Len(f)
        BY <1>3
      <4> QED
        BY ONLY <1>4, <1>5, <2>1, <4>1, <4>2
    <3> QED
      BY <1>4, <1>7, <3>1
  <2>2. CASE ~(j <= 4)
    <3>1. PICK e \in 1..Len(p) : /\ j = 4 + e
                                 /\ at[n - 1] + j = Len(wire) + e
      <4>1. ASSUME NEW a \in Nat, NEW l \in Nat, NEW q \in Nat,
                   NEW e \in 1..(4 + q), l = a + 4, ~(e <= 4)
            PROVE  /\ e - 4 \in 1..q /\ e = 4 + (e - 4)
                   /\ a + e = l + (e - 4)
        BY <4>1
      <4>2. /\ Len(p) \in Nat /\ Len(wire) \in Nat /\ at[n - 1] \in Nat
            /\ Len(wire) = at[n - 1] + 4 /\ j \in 1..(4 + Len(p))
        BY <1>3, <1>4, <1>5
      <4>3. /\ j - 4 \in 1..Len(p) /\ j = 4 + (j - 4)
            /\ at[n - 1] + j = Len(wire) + (j - 4)
        BY ONLY <2>2, <4>1, <4>2
      <4> QED
        BY ONLY <4>3
    <3>2. f[4 + e] = p[e] /\ wire'[Len(wire) + e] = p[e]
      BY ONLY <1>3, <1>4, <3>1
    <3> QED
      BY ONLY <3>1, <3>2
  <2> QED
    BY <2>1, <2>2
<1>9. ASSUME NEW i \in 1..n, NEW k \in 1..Len(FrameOf(frames[i])),
             at[i - 1] + k <= Len(wire')
      PROVE  wire'[at[i - 1] + k] = FrameOf(frames[i])[k]
  <2>1. CASE i = n
    BY <1>8, <2>1 DEF f
  <2>2. CASE i # n
    <3>1. i \in 1..(n - 1)
      BY <1>1, <2>2
    <3> QED
      BY <1>6, <3>1
  <2> QED
    BY <2>1, <2>2
<1>10. FramesOnWire(n, frames, at)'
  BY <1>9 DEF FramesOnWire
<1>11. Len(wire') = at[n]
  <2>1. ASSUME NEW a \in Nat, NEW l \in Nat
        PROVE  (a + 4) + l = a + (4 + l)
    BY <2>1
  <2>2. Len(wire) = at[n - 1] + 4
    OBVIOUS
  <2>3. Len(wire') = (at[n - 1] + 4) + Len(p)
    BY ONLY <1>4, <2>2
  <2>4. at[n] = at[n - 1] + (4 + Len(p))
    BY ONLY <1>2, <1>3
  <2>5. at[n - 1] \in Nat /\ Len(p) \in Nat
    BY ONLY <1>3, <1>5
  <2> QED
    BY ONLY <2>1, <2>3, <2>4, <2>5, Zenon
<1> QED
  BY <1>4, <1>10, <1>11

-----------------------------------------------------------------------------
(* A Write keeps the chain *)

(* Sequences of images, and one more image. *)
LEMMA Appended ==
  ASSUME NEW s \in Seq(Images), NEW x \in Images
  PROVE  /\ Append(s, x) \in Seq(Images) /\ Len(Append(s, x)) = Len(s) + 1
         /\ Len(s) \in Nat
         /\ \A i \in 1..Len(s) : Append(s, x)[i] = s[i]
         /\ Append(s, x)[Len(s) + 1] = x
  OBVIOUS

(* A frame that has become whole is recorded when its type is known.       *)
LEMMA RecordedIs ==
  ASSUME NEW n, NEW frames, NEW at, NEW known, Chained(n, frames, at, known),
         NEW w \in Nat, w + 1 <= n, WrittenIs(frames, known, w),
         written' = Recorded(written, frames[w + 1]), delivered' = delivered
  PROVE  WrittenIs(frames, known, w + 1)' /\ ChannelStep
<1> DEFINE m == frames[w + 1]
<1>1. n \in Nat /\ w + 1 \in 1..n /\ w \in 0..n /\ (w + 1) - 1 = w
  <2>1. n \in Nat /\ w + 1 <= n
    BY DEF Chained
  <2> QED
    BY ONLY <2>1, w \in Nat
<1>2. /\ ValidMessage(m) /\ known \in [Nat -> Nat]
      /\ known[w + 1] = known[w] + (IF m.kind \in Kinds THEN 1 ELSE 0)
  BY <1>1 DEF Chained
<1>3. /\ written \in Seq(Images) /\ Len(written) = known[w]
      /\ \A i \in 1..w : frames[i].kind \in Kinds =>
                           written[known[i]] = Transmitted(frames[i])
  BY DEF WrittenIs
<1>4. CASE m.kind \in Kinds
  <2> DEFINE x == Transmitted(m)
             v == Append(written, x)
  <2>1. x \in Images /\ written' = v
    BY <1>2, <1>4, HeaderJudged DEF Recorded
  <2>2. /\ v \in Seq(Images) /\ Len(v) = Len(written) + 1 /\ Len(written) \in Nat
        /\ \A i \in 1..Len(written) : v[i] = written[i]
        /\ v[Len(written) + 1] = x
    BY <1>3, <2>1, Appended
  <2> HIDE DEF v, x
  <2>3. known[w + 1] = known[w] + 1
    BY <1>2, <1>4
  <2>4. ASSUME NEW i \in 1..(w + 1), frames[i].kind \in Kinds
        PROVE  v[known[i]] = Transmitted(frames[i])
    <3>1. CASE i = w + 1
      BY <1>3, <2>2, <2>3, <3>1 DEF x
    <3>2. CASE i # w + 1
      <4>1. i \in 1..w /\ i \in 1..n /\ i \in 0..n /\ i <= w /\ i \in Nat /\ i - 1 \in Nat
        BY <1>1, <3>2
      <4>2. known[i] = known[i - 1] + 1 /\ known[i] <= known[w]
        BY <1>1, <2>4, <4>1 DEF Chained
      <4>3. known[i] \in Nat /\ known[i - 1] \in Nat
        BY ONLY <1>2, <4>1
      <4>4. known[i] \in 1..Len(written)
        BY ONLY <1>3, <2>2, <4>2, <4>3
      <4> QED
        BY <1>3, <2>2, <2>4, <4>1, <4>4
    <3> QED
      BY <3>1, <3>2
  <2>5. WrittenIs(frames, known, w + 1)'
    BY <1>3, <2>1, <2>2, <2>3, <2>4 DEF WrittenIs
  <2>6. Sends
    BY <2>1 DEF Sends, v
  <2> QED
    BY <2>5, <2>6 DEF ChannelStep
<1>5. CASE m.kind \notin Kinds
  <2>1. written' = written /\ known[w] \in Nat
    BY <1>2, <1>5 DEF Recorded
  <2>2. known[w + 1] = known[w]
    BY <1>2, <1>5, <2>1
  <2>3. ASSUME NEW i \in 1..(w + 1), frames[i].kind \in Kinds
        PROVE  written[known[i]] = Transmitted(frames[i])
    <3>1. i # w + 1
      BY <1>5, <2>3
    <3>2. i \in 1..w
      BY <3>1
    <3> QED
      BY <1>3, <2>3, <3>2
  <2>4. WrittenIs(frames, known, w + 1)'
    BY <1>3, <2>1, <2>2, <2>3 DEF WrittenIs
  <2> QED
    BY <2>1, <2>4 DEF ChannelStep
<1> QED
  BY <1>4, <1>5

(* The history is about the frames that it has. *)
LEMMA WrittenStays ==
  ASSUME NEW n \in Nat, NEW frames, NEW known, NEW frames2, NEW known2,
         NEW w \in Nat, w <= n, WrittenIs(frames, known, w),
         \A i \in 0..n : known2[i] = known[i],
         \A i \in 1..n : frames2[i] = frames[i]
  PROVE  WrittenIs(frames2, known2, w)
<1>1. w \in 0..n
  OBVIOUS
<1>2. ASSUME NEW i \in 1..w
      PROVE  i \in 0..n /\ i \in 1..n
  OBVIOUS
<1> QED
  BY <1>1, <1>2 DEF WrittenIs

(* So is the reader, which nobody but itself moves. *)
LEMMA ReaderStays ==
  ASSUME NEW n \in Nat, NEW at, NEW known, NEW w \in Nat, w <= n, NEW r,
         ReaderAt(at, known, w, r),
         NEW at2, NEW known2, NEW w2 \in Nat, w <= w2,
         \A i \in 0..n : at2[i] = at[i] /\ known2[i] = known[i],
         UNCHANGED readVars, UNCHANGED delivered, UNCHANGED closed,
         closed => wire' = wire
  PROVE  ReaderAt(at2, known2, w2, r)'
<1>1. /\ r \in 0..w /\ r \in 0..n /\ r \in 0..w2
  BY DEF ReaderAt
<1>2. at2[r] = at[r] /\ known2[r] = known[r]
  BY <1>1
<1>3. /\ delivered \in Seq(Images) /\ Len(delivered) = known[r]
      /\ \/ IF rpc = "idle" THEN pos = at[r] ELSE start = at[r]
         \/ closed /\ pos = Len(wire) /\ rpc \in {"idle", "header"}
         \/ rpc = "idle" /\ Broken(ret.err)
  BY DEF ReaderAt
<1>4. /\ pos' = pos /\ rpc' = rpc /\ start' = start /\ ret' = ret
      /\ delivered' = delivered /\ closed' = closed
  BY DEF readVars
<1>5. closed => Len(wire') = Len(wire)
  OBVIOUS
<1>6. Broken(ret.err)' <=> Broken(ret.err)
  BY <1>4 DEF Broken
<1>7. \/ IF rpc' = "idle" THEN pos' = at2[r] ELSE start' = at2[r]
      \/ closed' /\ pos' = Len(wire') /\ rpc' \in {"idle", "header"}
      \/ rpc' = "idle" /\ Broken(ret.err)'
  BY ONLY <1>2, <1>3, <1>4, <1>5, <1>6, Zenon
<1>8. delivered' \in Seq(Images) /\ Len(delivered') = known2[r]
  BY ONLY <1>2, <1>3, <1>4
<1> QED
  BY ONLY <1>1, <1>7, <1>8, Zenon DEF ReaderAt

(* The writer that moves, while the other one is not in a call. *)
Moves(pc, m, next) ==
  \/ /\ wpc = pc /\ wmsg = m /\ wpc' = next /\ wmsg' = m
     /\ wpc2' = wpc2 /\ ~InCall(wpc2)
  \/ /\ wpc2 = pc /\ wmsg2 = m /\ wpc2' = next /\ wmsg2' = m
     /\ wpc' = wpc /\ ~InCall(wpc)

(* The order after a Write, from its parts.                                *)
LEMMA MovesInOrder ==
  ASSUME NEW n, NEW frames, NEW at, NEW known, NEW w, NEW r,
         NEW pc, NEW m, NEW next, Moves(pc, m, next),
         Chained(n, frames, at, known), FramesOnWire(n, frames, at)', LastFrame(n, at, w)',
         w < n => closed' \/ next = "payload",
         next = "payload" => /\ n > 0 /\ frames[n] = m
                             /\ Len(wire') = at[n - 1] + MessageHeaderSize,
         WrittenIs(frames, known, w)', ReaderAt(at, known, w, r)'
  PROVE  InOrder(n, frames, at, known, w, r)'
<1>1. Chained(n, frames, at, known)'
  BY DEF Chained, ValidMessage, Validate
<1>2. Unfinished(n, w)'
  BY DEF Unfinished, Moves
<1>3. HalfWritten(n, frames, at, wpc, wmsg)' /\ HalfWritten(n, frames, at, wpc2, wmsg2)'
  BY DEF HalfWritten, Moves, InCall
<1> QED
  BY <1>1, <1>2, <1>3 DEF InOrder

(* A Write on a closed connection changes nothing. *)
LEMMA FailedStep ==
  ASSUME NEW n, NEW frames, NEW at, NEW known, NEW w, NEW r,
         InOrder(n, frames, at, known, w, r), wire \in Seq(Nat),
         NEW pc, NEW m, NEW next, Moves(pc, m, next), next = "idle",
         closed, closed' = closed, wire' = wire,
         UNCHANGED readVars, Record(pc, m)
  PROVE  InOrder(n, frames, at, known, w, r)' /\ ChannelStep
<1>1. written' = written /\ delivered' = delivered
  BY DEF Record
<1>2. n \in Nat /\ w \in Nat /\ w <= n
  BY Positions
<1>3. /\ Chained(n, frames, at, known) /\ FramesOnWire(n, frames, at) /\ LastFrame(n, at, w)
      /\ WrittenIs(frames, known, w) /\ ReaderAt(at, known, w, r)
  BY DEF InOrder
<1>4. FramesOnWire(n, frames, at)'
  BY ONLY <1>3, wire' = wire DEF FramesOnWire
<1>5. LastFrame(n, at, w)'
  BY ONLY <1>3, wire' = wire DEF LastFrame
<1>6. WrittenIs(frames, known, w)'
  BY ONLY <1>1, <1>3 DEF WrittenIs
<1>7. ReaderAt(at, known, w, r)'
  <2>1. UNCHANGED delivered /\ UNCHANGED closed /\ (closed => wire' = wire) /\ w <= w
    BY <1>1, <1>2
  <2>2. UNCHANGED readVars
    OBVIOUS
  <2> QED
    BY ONLY <1>2, <1>3, <2>1, <2>2, ReaderStays
<1>8. closed'
  OBVIOUS
<1>9. Moves(pc, m, next) /\ next = "idle"
  OBVIOUS
<1>10. InOrder(n, frames, at, known, w, r)'
  BY ONLY <1>3, <1>4, <1>5, <1>6, <1>7, <1>8, <1>9, MovesInOrder
<1> QED
  BY <1>1, <1>10 DEF ChannelStep

(* The payload makes the last frame whole. *)
LEMMA PayloadStep ==
  ASSUME NEW n, NEW frames, NEW at, NEW known, NEW w, NEW r,
         InOrder(n, frames, at, known, w, r), wire \in Seq(Nat),
         NEW pc, NEW m, NEW next, Moves(pc, m, next), pc = "payload", next = "idle",
         ~closed, closed' = closed, wire' = wire \o Payload(m).payload,
         UNCHANGED readVars, Record(pc, m)
  PROVE  InOrder(n, frames, at, known, n, r)' /\ ChannelStep
<1> DEFINE p == Payload(m).payload
<1>1. n \in Nat /\ w \in Nat /\ w <= n /\ Len(wire) \in Nat
  BY Positions
<1>2. /\ Chained(n, frames, at, known) /\ FramesOnWire(n, frames, at) /\ LastFrame(n, at, w)
      /\ WrittenIs(frames, known, w) /\ ReaderAt(at, known, w, r)
  BY DEF InOrder
<1>3. n > 0 /\ frames[n] = m /\ Len(wire) = at[n - 1] + 4
  BY DEF InOrder, HalfWritten, Moves, MessageHeaderSize
<1>4. n \in 1..n /\ n - 1 \in Nat
  BY ONLY <1>1, <1>3
<1>5. ValidMessage(m)
  BY ONLY <1>2, <1>3, <1>4 DEF Chained
<1>6. FramesOnWire(n, frames, at)' /\ wire' \in Seq(Nat) /\ Len(wire') = at[n]
  <2>1. wire' = wire \o Payload(frames[n]).payload /\ wire \in Seq(Nat)
    BY <1>3
  <2> QED
    BY ONLY <1>2, <1>3, <2>1, PayloadOnWire
<1>7. p \in Seq(Nat) /\ Len(p) \in Nat
  BY <1>5, FrameParts
<1>8. Len(wire') = Len(wire) + Len(p)
  <2>1. wire' = wire \o p /\ wire \in Seq(Nat)
    OBVIOUS
  <2> QED
    BY ONLY <1>7, <2>1, WireKeeps
<1>9. LastFrame(n, at, n)'
  BY ONLY <1>6 DEF LastFrame
<1>10. delivered' = delivered
  BY DEF Record
<1>11. WrittenIs(frames, known, n)' /\ ChannelStep
  <2>1. CASE p = <<>>
    <3>1. Len(wire') = Len(wire)
      BY ONLY <1>1, <1>8, <2>1
    <3>2. written' = written
      BY <1>1, <3>1 DEF Record
    <3>3. w = n
      BY ONLY <1>1, <1>2, <1>6, <3>1 DEF LastFrame
    <3> QED
      BY ONLY <1>2, <1>10, <3>2, <3>3 DEF WrittenIs, ChannelStep
  <2>2. CASE p # <<>>
    <3>1. Len(p) > 0
      BY ONLY <1>7, <2>2
    <3>2. Len(wire') > Len(wire)
      BY ONLY <1>1, <1>7, <1>8, <3>1
    <3>3. written' = Recorded(written, m)
      BY <3>2 DEF Record
    <3>4. w = n - 1 /\ w + 1 = n
      BY ONLY <1>1, <1>2, <1>3, <1>6, <3>2 DEF LastFrame
    <3>5. written' = Recorded(written, frames[w + 1]) /\ w + 1 <= n
      BY ONLY <1>1, <1>3, <3>3, <3>4
    <3>6. WrittenIs(frames, known, w + 1)' /\ ChannelStep
      BY ONLY <1>1, <1>2, <1>10, <3>5, RecordedIs
    <3> QED
      BY ONLY <3>4, <3>6
  <2> QED
    BY <2>1, <2>2
<1>12. ReaderAt(at, known, n, r)'
  <2>1. /\ UNCHANGED delivered /\ UNCHANGED closed /\ UNCHANGED readVars
        /\ closed => wire' = wire
    BY <1>10
  <2> QED
    BY ONLY <1>1, <1>2, <2>1, ReaderStays
<1>13. Moves(pc, m, next) /\ next = "idle" /\ ~(n < n)
  BY <1>1
<1> QED
  BY ONLY <1>2, <1>6, <1>9, <1>11, <1>12, <1>13, MovesInOrder

(* The header begins a frame, which is whole if it has no payload. *)
LEMMA HeaderStep ==
  ASSUME NEW n, NEW frames, NEW at, NEW known, NEW w, NEW r,
         InOrder(n, frames, at, known, w, r), wire \in Seq(Nat),
         NEW pc, NEW m, NEW next, Moves(pc, m, next),
         pc = "header", next = "payload", ValidMessage(m),
         ~closed, closed' = closed, wire' = wire \o HeaderCells(m),
         UNCHANGED readVars, Record(pc, m)
  PROVE  /\ \E frames2, at2, known2, w2 :
              InOrder(n + 1, frames2, at2, known2, w2, r)'
         /\ ChannelStep
<1> DEFINE p == Payload(m).payload
           f == FrameOf(m)
           frames2 == Extended(frames, n, m)
           at2     == Extended(at, n, at[n] + Len(f))
           known2  == Extended(known, n, known[n] + One(m))
<1>1. n \in Nat /\ w \in Nat /\ w <= n /\ Len(wire) \in Nat
  BY Positions
<1>2. /\ Chained(n, frames, at, known) /\ FramesOnWire(n, frames, at) /\ LastFrame(n, at, w)
      /\ WrittenIs(frames, known, w) /\ ReaderAt(at, known, w, r)
  BY DEF InOrder
<1>3. ~(w < n)
  BY DEF InOrder, Unfinished, Moves, InCall
<1>4. w = n /\ Len(wire) = at[n]
  BY ONLY <1>1, <1>2, <1>3 DEF LastFrame
<1>5. /\ Chained(n + 1, frames2, at2, known2)
      /\ \A i \in 0..n : at2[i] = at[i] /\ known2[i] = known[i]
      /\ \A i \in 1..n : frames2[i] = frames[i]
      /\ frames2[n + 1] = m /\ at2[n + 1] = at[n] + Len(f)
  BY <1>2, ChainGrows
<1>6. /\ FramesOnWire(n + 1, frames2, at2)'
      /\ wire' \in Seq(Nat) /\ Len(wire') = at[n] + 4
  <2>1. wire' = wire \o HeaderCells(m) /\ wire \in Seq(Nat) /\ ValidMessage(m)
    OBVIOUS
  <2> QED
    BY ONLY <1>2, <1>4, <2>1, HeaderOnWire
<1>7. p \in Seq(Nat) /\ Len(p) \in Nat /\ Len(f) = 4 + Len(p)
  BY FrameParts
<1> HIDE DEF frames2, at2, known2, f, p
<1>8. n \in 0..n /\ n + 1 \in Nat /\ (n + 1) - 1 = n /\ n + 1 > 0 /\ n <= n + 1
  BY ONLY <1>1
<1>9. at[n] \in Nat /\ at2[n] = at[n] /\ at2[n + 1] = at[n] + (4 + Len(p))
  BY ONLY <1>1, <1>4, <1>5, <1>7, <1>8
<1>10. Len(wire') > Len(wire)
  BY ONLY <1>1, <1>4, <1>6, <1>9
<1>11. delivered' = delivered
  BY DEF Record
<1>12. WrittenIs(frames2, known2, n)
  BY ONLY <1>1, <1>2, <1>4, <1>5, WrittenStays
<1>13. Moves(pc, m, next) /\ next = "payload"
  OBVIOUS
<1>14. /\ n + 1 > 0 /\ frames2[n + 1] = m
       /\ Len(wire') = at2[(n + 1) - 1] + MessageHeaderSize
  BY ONLY <1>5, <1>6, <1>8, <1>9 DEF MessageHeaderSize
<1>15. ASSUME NEW w2 \in Nat, w <= w2
       PROVE  ReaderAt(at2, known2, w2, r)'
  <2>1. /\ UNCHANGED delivered /\ UNCHANGED closed /\ UNCHANGED readVars
        /\ closed => wire' = wire
    BY <1>11
  <2> QED
    BY ONLY <1>1, <1>2, <1>5, <1>15, <2>1, ReaderStays
<1>16. CASE p = <<>>
  <2>1. written' = Recorded(written, m)
    BY <1>10, <1>16 DEF Record, p
  <2>2. WrittenIs(frames2, known2, n + 1)' /\ ChannelStep
    <3>1. written' = Recorded(written, frames2[n + 1]) /\ n + 1 <= n + 1
      BY ONLY <1>5, <1>8, <2>1
    <3> QED
      BY ONLY <1>1, <1>5, <1>11, <1>12, <3>1, RecordedIs
  <2>3. LastFrame(n + 1, at2, n + 1)'
    BY ONLY <1>6, <1>9, <1>16 DEF LastFrame
  <2>4. ReaderAt(at2, known2, n + 1, r)'
    BY ONLY <1>1, <1>4, <1>8, <1>15
  <2>5. InOrder(n + 1, frames2, at2, known2, n + 1, r)'
    BY ONLY <1>5, <1>6, <1>8, <1>13, <1>14, <2>2, <2>3, <2>4, MovesInOrder
  <2> QED
    BY <2>2, <2>5
<1>17. CASE p # <<>>
  <2>1. written' = written
    BY <1>17 DEF Record, p
  <2>2. WrittenIs(frames2, known2, n)' /\ ChannelStep
    BY ONLY <1>11, <1>12, <2>1 DEF WrittenIs, ChannelStep
  <2>3. Len(p) > 0
    BY ONLY <1>7, <1>17
  <2>4. LastFrame(n + 1, at2, n)'
    BY ONLY <1>6, <1>7, <1>8, <1>9, <2>3 DEF LastFrame, MessageHeaderSize
  <2>5. ReaderAt(at2, known2, n, r)'
    BY ONLY <1>1, <1>4, <1>15
  <2>6. InOrder(n + 1, frames2, at2, known2, n, r)'
    BY ONLY <1>5, <1>6, <1>8, <1>13, <1>14, <2>2, <2>4, <2>5, MovesInOrder
  <2> QED
    BY <2>2, <2>6
<1> QED
  BY <1>16, <1>17

-----------------------------------------------------------------------------
(* The reader *)

(* The reader alone moves. *)
LEMMA ReaderMoves ==
  ASSUME NEW n, NEW frames, NEW at, NEW known, NEW w, NEW r, NEW r2,
         InOrder(n, frames, at, known, w, r),
         UNCHANGED <<wire, closed, writeVars, secondVars, written>>,
         ReaderAt(at, known, w, r2)'
  PROVE  InOrder(n, frames, at, known, w, r2)'
<1>1. /\ wire' = wire /\ closed' = closed /\ written' = written
      /\ wpc' = wpc /\ wmsg' = wmsg /\ wpc2' = wpc2 /\ wmsg2' = wmsg2
  BY DEF writeVars, secondVars
<1>2. Chained(n, frames, at, known)'
  BY DEF InOrder, Chained, ValidMessage, Validate
<1>3. FramesOnWire(n, frames, at)'
  BY <1>1 DEF InOrder, FramesOnWire
<1>4. LastFrame(n, at, w)' /\ Unfinished(n, w)'
  BY <1>1 DEF InOrder, LastFrame, Unfinished
<1>5. HalfWritten(n, frames, at, wpc, wmsg)' /\ HalfWritten(n, frames, at, wpc2, wmsg2)'
  BY <1>1 DEF InOrder, HalfWritten
<1>6. WrittenIs(frames, known, w)'
  BY <1>1 DEF InOrder, WrittenIs
<1>7. ReaderAt(at, known, w, r2)'
  OBVIOUS
<1> QED
  BY ONLY <1>2, <1>3, <1>4, <1>5, <1>6, <1>7 DEF InOrder

(* A call that has read a header is at the beginning of a frame, and the   *)
(* header is the one of that frame.                                        *)
LEMMA InFrame ==
  ASSUME NEW n, NEW frames, NEW at, NEW known, NEW w, NEW r,
         InOrder(n, frames, at, known, w, r), ReadInv, rpc \in {"discard", "payload"}
  PROVE  /\ start = at[r] /\ hdr = HeaderAt(at[r])
         /\ wire \in Seq(Nat) /\ at[r] + MessageHeaderSize <= Len(wire)
         /\ r \in Nat /\ r + 1 \in 1..n /\ at[r] \in Nat
         /\ ValidMessage(frames[r + 1])
         /\ hdr = HdrOf(frames[r + 1])
         /\ at[r + 1] = at[r] + 4 + Len(Payload(frames[r + 1]).payload)
         /\ known[r + 1] = known[r] + (IF frames[r + 1].kind \in Kinds THEN 1 ELSE 0)
<1>1. start = at[r]
  BY DEF InOrder, ReaderAt
<1>2. hdr # NoHeader
  BY DEF ReadInv, InDiscard, InPayload
<1>3. /\ hdr = HeaderAt(start) /\ start + MessageHeaderSize <= pos
      /\ wire \in Seq(Nat) /\ start \in Nat /\ pos \in start..Len(wire)
  BY <1>2 DEF ReadInv, ReadTypeOK, HeaderFacts
<1>4. at[r] + MessageHeaderSize <= Len(wire)
  BY ONLY <1>1, <1>3 DEF MessageHeaderSize
<1>5. InOrder(n, frames, at, known, w, r)
  OBVIOUS
<1>6. /\ r \in Nat /\ r + 1 \in 1..n /\ at[r] \in Nat
      /\ ValidMessage(frames[r + 1])
      /\ HeaderAt(at[r]) = HdrOf(frames[r + 1])
      /\ at[r + 1] = at[r] + 4 + Len(Payload(frames[r + 1]).payload)
      /\ known[r + 1] = known[r] + (IF frames[r + 1].kind \in Kinds THEN 1 ELSE 0)
  BY ONLY <1>3, <1>4, <1>5, HeaderHere
<1> QED
  BY <1>1, <1>3, <1>4, <1>6

(* What a step of the reader leads to. *)
Reads(n, frames, at, known, w) ==
  /\ \E r : ReaderAt(at, known, w, r)'
  /\ OnlyForeignRefused'
  /\ Receives \/ UNCHANGED <<written, delivered>>

(* A read that is cut off stops the reader. *)
LEMMA CutOffReads ==
  ASSUME NEW n, NEW frames, NEW at, NEW known, NEW w, NEW r,
         InOrder(n, frames, at, known, w, r), HeaderFails \/ PayloadFails,
         delivered' = IF rpc' = "idle" /\ ret'.err = "nil"
                      THEN Append(delivered, ret'.msg) ELSE delivered,
         written' = written
  PROVE  Reads(n, frames, at, known, w)
<1>1. PICK e \in ReadErrors \ {"nil"} : \E c : Return(c, NoMessage, e)
  <2>1. CASE HeaderFails
    BY <2>1 DEF HeaderFails
  <2>2. CASE PayloadFails
    BY <2>2 DEF PayloadFails
  <2> QED
    BY <2>1, <2>2
<1>2. rpc' = "idle" /\ ret'.err = e
  BY <1>1 DEF Return
<1>3. e \in {"EOF", "UnexpectedEOF"}
  BY <1>1, SharedAssumption DEF SharedAssumption, ReadErrors, ReadFullErrors
<1>4. delivered' = delivered
  BY <1>2, <1>3
<1>5. /\ r \in 0..w /\ delivered \in Seq(Images) /\ Len(delivered) = known[r]
  BY DEF InOrder, ReaderAt
<1>6. Broken(ret.err)'
  BY <1>2, <1>3 DEF Broken
<1>7. ReaderAt(at, known, w, r)'
  BY ONLY <1>2, <1>4, <1>5, <1>6 DEF ReaderAt
<1>8. OnlyForeignRefused'
  BY <1>2, <1>3 DEF OnlyForeignRefused
<1> QED
  BY <1>4, <1>7, <1>8 DEF Reads

(* A header is the one of a frame that was written: it is not too large.   *)
LEMMA HeaderReads ==
  ASSUME NEW n, NEW frames, NEW at, NEW known, NEW w, NEW r,
         InOrder(n, frames, at, known, w, r), ReadInv,
         HeaderTooLarge \/ HeaderRefused \/ HeaderAccepted,
         delivered' = IF rpc' = "idle" /\ ret'.err = "nil"
                      THEN Append(delivered, ret'.msg) ELSE delivered,
         written' = written
  PROVE  Reads(n, frames, at, known, w)
<1>1. HeaderRead /\ ReadInv
  BY DEF HeaderTooLarge, HeaderRefused, HeaderAccepted
<1>2. /\ rpc = "header" /\ start' = start /\ start \in Nat
      /\ pos' = start + MessageHeaderSize /\ pos' <= Len(wire)
      /\ wire \in Seq(Nat) /\ hdr' = HeaderAt(start)
  BY ONLY <1>1, HeaderReadFacts
<1>3. pos = start
  BY <1>2 DEF ReadInv, InHeader
<1>4. /\ r \in 0..w /\ delivered \in Seq(Images) /\ Len(delivered) = known[r]
      /\ start = at[r] \/ pos = Len(wire)
  BY <1>2 DEF InOrder, ReaderAt
<1>5. Len(wire) \in Nat
  BY ONLY <1>2
<1>6. start = at[r] /\ at[r] + MessageHeaderSize <= Len(wire)
  BY ONLY <1>2, <1>3, <1>4, <1>5 DEF MessageHeaderSize
<1>7. InOrder(n, frames, at, known, w, r)
  OBVIOUS
<1>8. ValidMessage(frames[r + 1]) /\ HeaderAt(at[r]) = HdrOf(frames[r + 1])
  BY ONLY <1>2, <1>6, <1>7, HeaderHere
<1>9. ~TooLarge(hdr')
  BY <1>2, <1>6, <1>8, HeaderJudged
<1>10. HeaderRefused \/ HeaderAccepted
  BY <1>9 DEF HeaderTooLarge
<1>11. rpc' \in {"discard", "payload"}
  BY <1>10 DEF HeaderRefused, HeaderAccepted
<1>12. delivered' = delivered /\ start' = at[r] /\ rpc' # "idle"
  BY <1>11, <1>2, <1>6
<1>13. ReaderAt(at, known, w, r)'
  BY ONLY <1>4, <1>12 DEF ReaderAt
<1>14. OnlyForeignRefused'
  BY <1>12 DEF OnlyForeignRefused
<1> QED
  BY <1>12, <1>13, <1>14 DEF Reads

(* A read of discardInput stays in its frame. *)
LEMMA DiscardReads ==
  ASSUME NEW n, NEW frames, NEW at, NEW known, NEW w, NEW r,
         InOrder(n, frames, at, known, w, r), ReadInv,
         DiscardFullChunk \/ DiscardRest,
         delivered' = IF rpc' = "idle" /\ ret'.err = "nil"
                      THEN Append(delivered, ret'.msg) ELSE delivered,
         written' = written
  PROVE  Reads(n, frames, at, known, w)
<1>1. rpc = "discard" /\ rpc' = "discard" /\ start' = start
  BY DEF DiscardFullChunk, DiscardRest, DiscardRead
<1>2. delivered' = delivered /\ rpc' # "idle"
  BY <1>1
<1>3. /\ r \in 0..w /\ delivered \in Seq(Images) /\ Len(delivered) = known[r]
      /\ start = at[r]
  BY <1>1 DEF InOrder, ReaderAt
<1>4. ReaderAt(at, known, w, r)'
  BY ONLY <1>1, <1>2, <1>3 DEF ReaderAt
<1>5. OnlyForeignRefused'
  BY <1>2 DEF OnlyForeignRefused
<1> QED
  BY <1>2, <1>4, <1>5 DEF Reads

(* What is discarded is a message of a foreign type, and all of it unless  *)
(* the connection ended.                                                   *)
LEMMA DiscardedReads ==
  ASSUME NEW n, NEW frames, NEW at, NEW known, NEW w, NEW r,
         InOrder(n, frames, at, known, w, r), ReadInv, DiscardDone,
         delivered' = IF rpc' = "idle" /\ ret'.err = "nil"
                      THEN Append(delivered, ret'.msg) ELSE delivered,
         written' = written
  PROVE  Reads(n, frames, at, known, w)
<1> DEFINE m == frames[r + 1]
           p == Payload(m).payload
<1>1. /\ rpc = "discard" /\ rpc' = "idle" /\ reads = 0 /\ rest = 0
      /\ ret' = [n |-> MessageHeaderSize, msg |-> NoMessage, err |-> "MessageError"]
      /\ UNCHANGED <<wire, closed, pos, hdr>>
  BY DEF DiscardDone, Return
<1>2. delivered' = delivered
  BY <1>1
<1>3. /\ start = at[r] /\ hdr = HeaderAt(at[r])
      /\ wire \in Seq(Nat) /\ at[r] + MessageHeaderSize <= Len(wire)
      /\ r \in Nat /\ at[r] \in Nat /\ ValidMessage(m) /\ hdr = HdrOf(m)
      /\ at[r + 1] = at[r] + 4 + Len(p)
      /\ known[r + 1] = known[r] + (IF m.kind \in Kinds THEN 1 ELSE 0)
  <2>1. rpc \in {"discard", "payload"}
    BY <1>1
  <2>2. InOrder(n, frames, at, known, w, r) /\ ReadInv
    OBVIOUS
  <2> QED
    BY ONLY <2>1, <2>2, InFrame
<1>4. /\ Refused(hdr) /\ fault = "nil" => pos + Undiscarded = FrameEnd
      /\ Refused(hdr) /\ fault # "nil" => closed /\ pos = Len(wire)
      /\ Refused(hdr) /\ pos \in Nat /\ pos <= Len(wire)
  BY <1>1, SharedAssumption
     DEF ReadInv, InDiscard, ReadTypeOK, SharedAssumption
<1>5. m.kind \notin Kinds /\ hdr.command = "unhandled"
  BY <1>3, <1>4, HeaderJudged
<1>6. known[r + 1] = known[r]
  <2>1. known[r] \in Nat
    BY <1>3, Positions
  <2> QED
    BY ONLY <1>3, <1>5, <2>1
<1>7. OnlyForeignRefused'
  BY <1>1, <1>5 DEF OnlyForeignRefused
<1>8. /\ r \in 0..w /\ delivered \in Seq(Images) /\ Len(delivered) = known[r]
  BY DEF InOrder, ReaderAt
<1>9. CASE fault # "nil"
  <2>1. closed' /\ pos' = Len(wire') /\ rpc' = "idle"
    BY <1>1, <1>4, <1>9
  <2>2. ReaderAt(at, known, w, r)'
    BY ONLY <1>2, <1>8, <2>1 DEF ReaderAt
  <2> QED
    BY <1>2, <1>7, <2>2 DEF Reads
<1>10. CASE fault = "nil"
  <2>1. Undiscarded = 0
    BY <1>1, ReadAssumption DEF Undiscarded, ReadAssumption
  <2>2. hdr.length = Len(p) /\ Len(p) \in Nat
    <3>1. Len(p) \in Nat
      BY <1>3, FrameParts
    <3> QED
      BY ONLY <1>3, <3>1 DEF HdrOf
  <2>3. pos = at[r] + 4 + Len(p)
    BY ONLY <1>3, <1>4, <1>10, <2>1, <2>2 DEF FrameEnd, MessageHeaderSize
  <2>4. pos' = at[r + 1]
    BY ONLY <1>1, <1>3, <2>3
  <2>5. /\ InOrder(n, frames, at, known, w, r)
        /\ at[r] + MessageHeaderSize + HeaderAt(at[r]).length <= Len(wire)
    BY <1>3, <1>4, <2>2, <2>3 DEF MessageHeaderSize
  <2>6. r + 1 \in 0..w
    BY ONLY <1>3, <2>5, PayloadHere
  <2>7. ReaderAt(at, known, w, r + 1)'
    BY ONLY <1>1, <1>2, <1>6, <1>8, <2>4, <2>6 DEF ReaderAt
  <2> QED
    BY <1>2, <1>7, <2>7 DEF Reads
<1> QED
  BY <1>9, <1>10

(* A payload is that of the next known message: it is received.            *)
LEMMA PayloadReads ==
  ASSUME NEW n, NEW frames, NEW at, NEW known, NEW w, NEW r,
         InOrder(n, frames, at, known, w, r), ReadInv, PayloadRead,
         delivered' = IF rpc' = "idle" /\ ret'.err = "nil"
                      THEN Append(delivered, ret'.msg) ELSE delivered,
         written' = written
  PROVE  Reads(n, frames, at, known, w)
<1> DEFINE m == frames[r + 1]
           p == Payload(m).payload
<1>1. /\ rpc = "payload" /\ rpc' = "idle"
      /\ pos' = pos + hdr.length /\ pos + hdr.length <= Len(wire)
      /\ ret' = [n |-> MessageHeaderSize + hdr.length,
                 msg |-> Parse(hdr, Cells(pos, hdr.length)).msg,
                 err |-> Parse(hdr, Cells(pos, hdr.length)).err]
  BY DEF PayloadRead, ReadFull, Return
<1>2. ~Refused(hdr) /\ pos = start + MessageHeaderSize
  BY <1>1 DEF ReadInv, InPayload
<1>3. /\ start = at[r] /\ hdr = HeaderAt(at[r])
      /\ wire \in Seq(Nat) /\ at[r] + MessageHeaderSize <= Len(wire)
      /\ r \in Nat /\ at[r] \in Nat /\ ValidMessage(m) /\ hdr = HdrOf(m)
      /\ at[r + 1] = at[r] + 4 + Len(p)
      /\ known[r + 1] = known[r] + (IF m.kind \in Kinds THEN 1 ELSE 0)
  <2>1. rpc \in {"discard", "payload"}
    BY <1>1
  <2>2. InOrder(n, frames, at, known, w, r) /\ ReadInv
    OBVIOUS
  <2> QED
    BY ONLY <2>1, <2>2, InFrame
<1>4. /\ m.kind \in Kinds
      /\ Parse(hdr, p) = [msg |-> Transmitted(m), err |-> "nil"]
      /\ Transmitted(m) \in Images
  BY <1>2, <1>3, HeaderJudged
<1>5. r + 1 \in 0..w /\ Cells(pos, hdr.length) = p
  <2>1. /\ InOrder(n, frames, at, known, w, r)
        /\ at[r] + MessageHeaderSize + HeaderAt(at[r]).length <= Len(wire)
    BY <1>1, <1>2, <1>3
  <2>2. r + 1 \in 0..w
    BY ONLY <1>3, <2>1, PayloadHere
  <2>3. Cells(at[r] + MessageHeaderSize, HeaderAt(at[r]).length)
          = Payload(frames[r + 1]).payload
    <3>1. wire \in Seq(Nat) /\ at[r] + MessageHeaderSize <= Len(wire)
      BY <1>3
    <3> QED
      BY ONLY <2>1, <3>1, PayloadHere
  <2> QED
    BY ONLY <1>2, <1>3, <2>2, <2>3
<1>6. ret'.msg = Transmitted(m) /\ ret'.err = "nil"
  BY ONLY <1>1, <1>4, <1>5
<1>7. delivered' = Append(delivered, Transmitted(m))
  BY <1>1, <1>6
<1>8. /\ r \in 0..w /\ delivered \in Seq(Images) /\ Len(delivered) = known[r]
      /\ Len(written) = known[w]
      /\ \A i \in 1..w : frames[i].kind \in Kinds =>
                           written[known[i]] = Transmitted(frames[i])
  BY DEF InOrder, ReaderAt, WrittenIs
<1>9. /\ n \in Nat /\ w \in Nat /\ w <= n
      /\ known[r] \in Nat /\ known[w] \in Nat /\ known[r + 1] \in Nat
      /\ \A i, j \in 0..n : i <= j => known[i] <= known[j]
  <2>1. InOrder(n, frames, at, known, w, r) /\ wire \in Seq(Nat)
    BY <1>3
  <2>2. /\ n \in Nat /\ w \in Nat /\ w <= n
        /\ \A i \in Nat : known[i] \in Nat
        /\ \A i, j \in 0..n : i <= j => known[i] <= known[j]
    BY ONLY <2>1, Positions
  <2>3. r + 1 \in Nat
    BY <1>3
  <2> QED
    BY ONLY <1>3, <2>2, <2>3
<1>10. known[r + 1] = known[r] + 1 /\ known[r + 1] <= known[w]
  <2>1. r + 1 \in 0..n /\ w \in 0..n /\ r + 1 <= w /\ r + 1 \in 1..w
    BY ONLY <1>3, <1>5, <1>9
  <2> QED
    BY ONLY <1>3, <1>4, <1>9, <2>1
<1>11. written[Len(delivered) + 1] = Transmitted(m)
  <2>1. r + 1 \in 1..w
    BY ONLY <1>3, <1>5
  <2> QED
    BY ONLY <1>4, <1>8, <1>10, <2>1
<1>12. Receives
  <2>1. Len(delivered) < Len(written)
    BY ONLY <1>8, <1>9, <1>10
  <2>2. written' = written
    OBVIOUS
  <2> QED
    BY ONLY <1>7, <1>11, <2>1, <2>2 DEF Receives
<1>13. pos' = at[r + 1]
  <2>1. hdr.length = Len(p)
    BY <1>3 DEF HdrOf
  <2> QED
    BY ONLY <1>1, <1>2, <1>3, <2>1 DEF MessageHeaderSize
<1>14. delivered' \in Seq(Images) /\ Len(delivered') = known[r + 1]
  BY ONLY <1>4, <1>7, <1>8, <1>10, Appended
<1>15. ReaderAt(at, known, w, r + 1)'
  BY ONLY <1>1, <1>5, <1>13, <1>14 DEF ReaderAt
<1>16. OnlyForeignRefused'
  BY <1>6 DEF OnlyForeignRefused
<1> QED
  BY <1>12, <1>15, <1>16 DEF Reads

-----------------------------------------------------------------------------
(* Every step *)

(* A Write keeps what is known of the reader's call. *)
LEMMA WriteKeepsReadInv ==
  ASSUME ReadInv, UNCHANGED readVars, closed' = closed,
         NEW pc, NEW m, NEW next, ValidMessage(m), Writes(pc, m, next)
  PROVE  ReadInv'
<1>1. wire \in Seq(Nat) /\ closed \in BOOLEAN
  BY DEF ReadInv, ReadTypeOK
<1>2. HeaderCells(m) \in Seq(Nat) /\ Payload(m).payload \in Seq(Nat)
  BY FrameParts
<1>3. closed' \in BOOLEAN /\ (closed => closed')
  BY <1>1
<1>4. ReadInv /\ UNCHANGED readVars
  OBVIOUS
<1>5. CASE ~closed /\ wire' = wire \o HeaderCells(m)
  BY ONLY <1>2, <1>3, <1>4, <1>5, WireGrowsInv
<1>6. CASE ~closed /\ wire' = wire \o Payload(m).payload
  BY ONLY <1>2, <1>3, <1>4, <1>6, WireGrowsInv
<1>7. CASE wire' = wire
  BY ONLY <1>3, <1>4, <1>7, UntouchedWireInv
<1> QED
  BY <1>5, <1>6, <1>7 DEF Writes

(* With the lock a Write keeps the order, and is a step of the channel.    *)
LEMMA WriteIsOrderly ==
  ASSUME ReadInv, Orderly, Locked', UNCHANGED readVars, UNCHANGED locking,
         closed' = closed, NEW pc, NEW m, NEW next, ValidMessage(m),
         Writes(pc, m, next), Moves(pc, m, next), Record(pc, m)
  PROVE  Orderly' /\ ChannelStep
<1>1. wire \in Seq(Nat)
  BY DEF ReadInv, ReadTypeOK
<1>2. PICK n, frames, at, known, w, r : InOrder(n, frames, at, known, w, r)
  BY DEF Orderly
<1>3. OnlyForeignRefused'
  BY DEF Orderly, OnlyForeignRefused, readVars
<1>4. /\ UNCHANGED readVars /\ closed' = closed /\ ValidMessage(m)
      /\ Moves(pc, m, next) /\ Record(pc, m)
  OBVIOUS
<1>5. CASE pc = "header" /\ next = "payload" /\ ~closed /\ wire' = wire \o HeaderCells(m)
  <2>1. /\ \E frames2, at2, known2, w2 :
             InOrder(n + 1, frames2, at2, known2, w2, r)'
        /\ ChannelStep
    BY ONLY <1>1, <1>2, <1>4, <1>5, HeaderStep
  <2> QED
    BY <1>3, <2>1 DEF Orderly
<1>6. CASE pc = "payload" /\ next = "idle" /\ ~closed
             /\ wire' = wire \o Payload(m).payload
  <2>1. InOrder(n, frames, at, known, n, r)' /\ ChannelStep
    BY ONLY <1>1, <1>2, <1>4, <1>6, PayloadStep
  <2> QED
    BY <1>3, <2>1 DEF Orderly
<1>7. CASE next = "idle" /\ closed /\ wire' = wire
  <2>1. InOrder(n, frames, at, known, w, r)' /\ ChannelStep
    BY ONLY <1>1, <1>2, <1>4, <1>7, FailedStep
  <2> QED
    BY <1>3, <2>1 DEF Orderly
<1> QED
  BY <1>5, <1>6, <1>7 DEF Writes

(* A step that leaves the wire and the reader alone, and no frame half     *)
(* written unless the connection is closed, keeps the order.               *)
Quiet ==
  /\ UNCHANGED <<wire, readVars, historyVars, locking>>
  /\ closed => closed'
  /\ wpc' = "payload" <=> wpc = "payload"
  /\ wpc2' = "payload" <=> wpc2 = "payload"
  /\ wpc = "payload" => wmsg' = wmsg
  /\ wpc2 = "payload" => wmsg2' = wmsg2

(* Such a step changes neither what was written nor what was received.     *)
LEMMA QuietStep ==
  ASSUME Orderly, Quiet, Locked'
  PROVE  Orderly' /\ ChannelStep
<1>1. PICK n, frames, at, known, w, r : InOrder(n, frames, at, known, w, r)
  BY DEF Orderly
<1>2. /\ wire' = wire /\ written' = written /\ delivered' = delivered
      /\ pos' = pos /\ rpc' = rpc /\ start' = start /\ ret' = ret /\ hdr' = hdr
      /\ locking' = locking
  BY DEF Quiet, readVars, historyVars
<1>3. /\ closed => closed'
      /\ wpc' = "payload" <=> wpc = "payload"
      /\ wpc2' = "payload" <=> wpc2 = "payload"
      /\ wpc = "payload" => wmsg' = wmsg
      /\ wpc2 = "payload" => wmsg2' = wmsg2
  BY DEF Quiet
<1>4. Chained(n, frames, at, known)'
  BY <1>1 DEF InOrder, Chained, ValidMessage, Validate
<1>5. FramesOnWire(n, frames, at)' /\ LastFrame(n, at, w)' /\ WrittenIs(frames, known, w)'
  BY <1>1, <1>2 DEF InOrder, FramesOnWire, LastFrame, WrittenIs
<1>6. Unfinished(n, w)'
  BY <1>1, <1>3 DEF InOrder, Unfinished
<1>7. HalfWritten(n, frames, at, wpc, wmsg)' /\ HalfWritten(n, frames, at, wpc2, wmsg2)'
  BY <1>1, <1>2, <1>3 DEF InOrder, HalfWritten
<1>8. ReaderAt(at, known, w, r)'
  <2>1. ReaderAt(at, known, w, r)
    BY <1>1 DEF InOrder
  <2>2. /\ r \in 0..w /\ delivered \in Seq(Images) /\ Len(delivered) = known[r]
        /\ \/ IF rpc = "idle" THEN pos = at[r] ELSE start = at[r]
           \/ closed /\ pos = Len(wire) /\ rpc \in {"idle", "header"}
           \/ rpc = "idle" /\ Broken(ret.err)
    BY ONLY <2>1 DEF ReaderAt
  <2>3. Broken(ret.err)' <=> Broken(ret.err)
    BY ONLY <1>2 DEF Broken
  <2>4. \/ IF rpc' = "idle" THEN pos' = at[r] ELSE start' = at[r]
        \/ closed' /\ pos' = Len(wire') /\ rpc' \in {"idle", "header"}
        \/ rpc' = "idle" /\ Broken(ret.err)'
    BY ONLY <1>2, <1>3, <2>2, <2>3, Zenon
  <2>5. delivered' \in Seq(Images) /\ Len(delivered') = known[r]
    BY ONLY <1>2, <2>2
  <2> QED
    BY ONLY <2>2, <2>4, <2>5, Zenon DEF ReaderAt
<1>9. InOrder(n, frames, at, known, w, r)'
  BY ONLY <1>4, <1>5, <1>6, <1>7, <1>8 DEF InOrder
<1>10. OnlyForeignRefused'
  BY <1>2 DEF Orderly, OnlyForeignRefused
<1>11. ChannelStep
  BY <1>2 DEF ChannelStep
<1> QED
  BY <1>9, <1>10, <1>11 DEF Orderly

(* What a call of the reader starts with is what the last one left.        *)
LEMMA CallIsOrderly ==
  ASSUME Orderly, ReaderCalls
  PROVE  Orderly' /\ ChannelStep
<1>1. PICK n, frames, at, known, w, r : InOrder(n, frames, at, known, w, r)
  BY DEF Orderly
<1>2. /\ ~Broken(ret.err) /\ rpc = "idle" /\ rpc' = "header" /\ start' = pos
      /\ pos' = pos
      /\ UNCHANGED <<wire, closed, writeVars, secondVars, lockVars, historyVars>>
  BY DEF ReaderCalls, Call
<1>3. ReaderAt(at, known, w, r)'
  <2>1. /\ r \in 0..w /\ delivered \in Seq(Images) /\ Len(delivered) = known[r]
        /\ pos = at[r] \/ (closed /\ pos = Len(wire))
    BY <1>1, <1>2 DEF InOrder, ReaderAt
  <2>2. delivered' = delivered /\ wire' = wire /\ closed' = closed
    BY <1>2 DEF historyVars
  <2>3. \/ IF rpc' = "idle" THEN pos' = at[r] ELSE start' = at[r]
        \/ closed' /\ pos' = Len(wire') /\ rpc' \in {"idle", "header"}
    BY <1>2, <2>1, <2>2
  <2> QED
    BY ONLY <2>1, <2>2, <2>3 DEF ReaderAt
<1>4. InOrder(n, frames, at, known, w, r)'
  <2>1. UNCHANGED <<wire, closed, writeVars, secondVars, written>>
    BY <1>2 DEF historyVars
  <2> QED
    BY ONLY <1>1, <1>3, <2>1, ReaderMoves
<1>5. OnlyForeignRefused' /\ ChannelStep
  BY <1>2 DEF OnlyForeignRefused, ChannelStep, historyVars
<1>6. Locked'
  BY <1>2 DEF Orderly, Locked, lockVars, writeVars, secondVars
<1> QED
  BY <1>4, <1>5, <1>6 DEF Orderly

(* The reads of a call are in order, whatever they read.                   *)
LEMMA ReadIsOrderly ==
  ASSUME ReadInv, Orderly, ReaderReads
  PROVE  Orderly' /\ ChannelStep
<1>1. PICK n, frames, at, known, w, r : InOrder(n, frames, at, known, w, r)
  BY DEF Orderly
<1>2. /\ ReadStep /\ UNCHANGED <<writeVars, secondVars, lockVars>>
      /\ delivered' = IF rpc' = "idle" /\ ret'.err = "nil"
                      THEN Append(delivered, ret'.msg) ELSE delivered
      /\ written' = written
  BY DEF ReaderReads
<1>3. wire' = wire /\ closed' = closed
  BY <1>2 DEF ReadStep, HeaderFails, HeaderTooLarge, HeaderRefused,
              HeaderAccepted, HeaderRead, DiscardFullChunk, DiscardRest,
              DiscardRead, DiscardDone, PayloadFails, PayloadRead
<1>4. Reads(n, frames, at, known, w)
  <2>1. ReadInv
    OBVIOUS
  <2>2. CASE HeaderFails \/ PayloadFails
    BY ONLY <1>1, <1>2, <2>2, CutOffReads
  <2>3. CASE HeaderTooLarge \/ HeaderRefused \/ HeaderAccepted
    BY ONLY <1>1, <1>2, <2>1, <2>3, HeaderReads
  <2>4. CASE DiscardFullChunk \/ DiscardRest
    BY ONLY <1>1, <1>2, <2>1, <2>4, DiscardReads
  <2>5. CASE DiscardDone
    BY ONLY <1>1, <1>2, <2>1, <2>5, DiscardedReads
  <2>6. CASE PayloadRead
    BY ONLY <1>1, <1>2, <2>1, <2>6, PayloadReads
  <2> QED
    BY ONLY <1>2, <2>2, <2>3, <2>4, <2>5, <2>6 DEF ReadStep
<1>5. PICK r2 : ReaderAt(at, known, w, r2)'
  BY <1>4 DEF Reads
<1>6. InOrder(n, frames, at, known, w, r2)'
  <2>1. UNCHANGED <<wire, closed, writeVars, secondVars, written>>
    BY <1>2, <1>3
  <2> QED
    BY ONLY <1>1, <1>5, <2>1, ReaderMoves
<1>7. OnlyForeignRefused' /\ ChannelStep
  BY <1>4 DEF Reads, ChannelStep
<1>8. Locked'
  BY <1>2 DEF Orderly, Locked, lockVars, writeVars, secondVars
<1> QED
  BY <1>6, <1>7, <1>8 DEF Orderly

(* What a step keeps, and what it is to the channel.                       *)
Kept ==
  /\ SharedInv' /\ locking' = locking
  /\ locking => ChannelStep

(* A submission puts nothing on the wire; the caller takes the lock when   *)
(* the message is one that is written.                                     *)
LEMMA FirstSubmitsKept ==
  ASSUME SharedInv, FirstSubmits
  PROVE  Kept
<1>1. /\ wpc = "idle" /\ holder = 0 /\ wire' = wire /\ closed' = closed
      /\ locking' = locking
      /\ UNCHANGED <<secondVars, readVars, historyVars>>
  BY DEF FirstSubmits, SubmitRefused, SubmitPanics, SubmitAccepted, Submit,
         Acquire, lockVars
<1>2. \/ wpc' \in {"idle", "panicked"} /\ holder' = holder
      \/ /\ wpc' = "header" /\ wmsg' \in Messages /\ Validate(wmsg') = "nil"
         /\ holder' = IF locking THEN 1 ELSE 0
  <2>1. CASE SubmitRefused /\ UNCHANGED lockVars
    BY <2>1 DEF SubmitRefused, WriteReturn, lockVars
  <2>2. CASE SubmitPanics /\ UNCHANGED lockVars
    BY <2>2 DEF SubmitPanics, lockVars
  <2>3. CASE SubmitAccepted /\ Acquire(1)
    BY <2>3 DEF SubmitAccepted, Submit, Acquire
  <2> QED
    BY <2>1, <2>2, <2>3 DEF FirstSubmits
<1>3. ReadInv'
  BY <1>1, UntouchedWireInv DEF SharedInv, ReadInv, ReadTypeOK
<1>4. wpc2' = wpc2 /\ wmsg2' = wmsg2
  BY <1>1 DEF secondVars
<1>5. /\ InCall(wpc') => ValidMessage(wmsg')
      /\ InCall(wpc2') => ValidMessage(wmsg2')
  BY <1>2, <1>4 DEF SharedInv, InCall, ValidMessage
<1>6. ASSUME locking
      PROVE  Orderly' /\ ChannelStep
  <2>1. Orderly
    BY <1>6 DEF SharedInv
  <2>2. Locked'
    BY <1>1, <1>2, <1>4, <1>6, <2>1 DEF Orderly, Locked, InCall
  <2>3. Quiet
    BY <1>1, <1>2, <1>4 DEF Quiet
  <2> QED
    BY <2>1, <2>2, <2>3, QuietStep
<1> QED
  BY <1>1, <1>3, <1>5, <1>6 DEF Kept, SharedInv, InCall, ValidMessage, Validate

(* The same of the second caller.                                         *)
LEMMA SecondSubmitsKept ==
  ASSUME SharedInv, SecondSubmits
  PROVE  Kept
<1>1. /\ wpc2 = "idle" /\ holder = 0 /\ wire' = wire /\ closed' = closed
      /\ locking' = locking
      /\ UNCHANGED <<writeVars, readVars, historyVars>>
  BY DEF SecondSubmits, Second!SubmitRefused, Second!SubmitPanics,
         Second!SubmitAccepted, Second!Submit, Acquire, lockVars
<1>2. \/ wpc2' \in {"idle", "panicked"} /\ holder' = holder
      \/ /\ wpc2' = "header" /\ wmsg2' \in Messages /\ Validate(wmsg2') = "nil"
         /\ holder' = IF locking THEN 2 ELSE 0
  <2>1. CASE Second!SubmitRefused /\ UNCHANGED lockVars
    BY <2>1 DEF Second!SubmitRefused, Second!WriteReturn, lockVars
  <2>2. CASE Second!SubmitPanics /\ UNCHANGED lockVars
    BY <2>2 DEF Second!SubmitPanics, lockVars
  <2>3. CASE Second!SubmitAccepted /\ Acquire(2)
    BY <2>3, SameFrame DEF Second!SubmitAccepted, Second!Submit, Acquire
  <2> QED
    BY <2>1, <2>2, <2>3 DEF SecondSubmits
<1>3. ReadInv'
  BY <1>1, UntouchedWireInv DEF SharedInv, ReadInv, ReadTypeOK
<1>4. wpc' = wpc /\ wmsg' = wmsg
  BY <1>1 DEF writeVars
<1>5. /\ InCall(wpc') => ValidMessage(wmsg')
      /\ InCall(wpc2') => ValidMessage(wmsg2')
  BY <1>2, <1>4 DEF SharedInv, InCall, ValidMessage
<1>6. ASSUME locking
      PROVE  Orderly' /\ ChannelStep
  <2>1. Orderly
    BY <1>6 DEF SharedInv
  <2>2. Locked'
    BY <1>1, <1>2, <1>4, <1>6, <2>1 DEF Orderly, Locked, InCall
  <2>3. Quiet
    BY <1>1, <1>2, <1>4 DEF Quiet
  <2> QED
    BY <2>1, <2>2, <2>3, QuietStep
<1> QED
  BY <1>1, <1>3, <1>5, <1>6 DEF Kept, SharedInv, InCall, ValidMessage, Validate

(* A Write of the caller that holds the lock is alone on the connection,   *)
(* and the lock is released with the last one.                             *)
LEMMA FirstWritesKept ==
  ASSUME SharedInv, FirstWrites
  PROVE  Kept
<1>1. /\ WriteStep /\ Record(wpc, wmsg) /\ Release(wpc')
      /\ UNCHANGED <<secondVars, readVars>>
  BY DEF FirstWrites
<1>2. wire \in Seq(Nat) /\ (InCall(wpc) => ValidMessage(wmsg)) /\ ReadInv
  BY DEF SharedInv, ReadInv, ReadTypeOK
<1>3. Writes(wpc, wmsg, wpc') /\ wmsg' = wmsg /\ closed' = closed
  BY <1>1, <1>2, FirstWriteIs
<1>4. InCall(wpc) /\ ValidMessage(wmsg) /\ wpc' \in {"payload", "idle"}
  BY <1>2, <1>3 DEF Writes, InCall
<1>5. wpc2' = wpc2 /\ wmsg2' = wmsg2 /\ locking' = locking
  BY <1>1 DEF secondVars, Release
<1>6. ReadInv'
  BY <1>1, <1>2, <1>3, <1>4, WriteKeepsReadInv
<1>7. ASSUME locking
      PROVE  Orderly' /\ ChannelStep
  <2>1. Orderly
    BY <1>7 DEF SharedInv
  <2>2. holder = 1 /\ ~InCall(wpc2)
    BY <1>4, <2>1 DEF Orderly, Locked
  <2>3. holder' = IF wpc' = "idle" THEN 0 ELSE 1
    BY <1>1, <2>2 DEF Release
  <2>4. Locked'
    BY <1>4, <1>5, <2>2, <2>3 DEF Locked, InCall
  <2>5. Moves(wpc, wmsg, wpc')
    BY <1>3, <1>5, <2>2 DEF Moves
  <2>6. UNCHANGED readVars /\ UNCHANGED locking
    BY <1>1, <1>5
  <2> QED
    BY <1>1, <1>2, <1>3, <1>4, <2>1, <2>4, <2>5, <2>6, WriteIsOrderly
<1>8. ValidMessage(wmsg)'
  BY <1>3, <1>4 DEF ValidMessage, Validate
<1>9. InCall(wpc2) => ValidMessage(wmsg2)
  BY DEF SharedInv
<1>10. InCall(wpc2)' => ValidMessage(wmsg2)'
  BY <1>5, <1>9 DEF ValidMessage, Validate, InCall
<1> QED
  BY <1>5, <1>6, <1>7, <1>8, <1>10 DEF Kept, SharedInv

(* And of the second caller.                                               *)
LEMMA SecondWritesKept ==
  ASSUME SharedInv, SecondWrites
  PROVE  Kept
<1>1. /\ Second!WriteStep /\ Record(wpc2, wmsg2) /\ Release(wpc2')
      /\ UNCHANGED <<writeVars, readVars>>
  BY DEF SecondWrites
<1>2. wire \in Seq(Nat) /\ (InCall(wpc2) => ValidMessage(wmsg2)) /\ ReadInv
  BY DEF SharedInv, ReadInv, ReadTypeOK
<1>3. Writes(wpc2, wmsg2, wpc2') /\ wmsg2' = wmsg2 /\ closed' = closed
  BY <1>1, <1>2, SecondWriteIs
<1>4. InCall(wpc2) /\ ValidMessage(wmsg2) /\ wpc2' \in {"payload", "idle"}
  BY <1>2, <1>3 DEF Writes, InCall
<1>5. wpc' = wpc /\ wmsg' = wmsg /\ locking' = locking
  BY <1>1 DEF writeVars, Release
<1>6. ReadInv'
  BY <1>1, <1>2, <1>3, <1>4, WriteKeepsReadInv
<1>7. ASSUME locking
      PROVE  Orderly' /\ ChannelStep
  <2>1. Orderly
    BY <1>7 DEF SharedInv
  <2>2. holder = 2 /\ ~InCall(wpc)
    BY <1>4, <2>1 DEF Orderly, Locked
  <2>3. holder' = IF wpc2' = "idle" THEN 0 ELSE 2
    BY <1>1, <2>2 DEF Release
  <2>4. Locked'
    BY <1>4, <1>5, <2>2, <2>3 DEF Locked, InCall
  <2>5. Moves(wpc2, wmsg2, wpc2')
    BY <1>3, <1>5, <2>2 DEF Moves
  <2>6. UNCHANGED readVars /\ UNCHANGED locking
    BY <1>1, <1>5
  <2> QED
    BY <1>1, <1>2, <1>3, <1>4, <2>1, <2>4, <2>5, <2>6, WriteIsOrderly
<1>8. ValidMessage(wmsg2)'
  BY <1>3, <1>4 DEF ValidMessage, Validate
<1>9. InCall(wpc) => ValidMessage(wmsg)
  BY DEF SharedInv
<1>10. InCall(wpc)' => ValidMessage(wmsg)'
  BY <1>5, <1>9 DEF ValidMessage, Validate, InCall
<1> QED
  BY <1>5, <1>6, <1>7, <1>8, <1>10 DEF Kept, SharedInv

(* A close, and a step that changes nothing.                               *)
LEMMA ClosesKept ==
  ASSUME SharedInv, Closes \/ UNCHANGED vars
  PROVE  Kept
<1>1. /\ wire' = wire /\ (closed => closed') /\ closed' \in BOOLEAN
      /\ UNCHANGED <<writeVars, secondVars, readVars, lockVars, historyVars>>
  <2>1. closed \in BOOLEAN
    BY DEF SharedInv, ReadInv, ReadTypeOK
  <2>2. CASE Closes
    BY <2>2 DEF Closes, WriterCloses
  <2>3. CASE UNCHANGED vars
    BY <2>1, <2>3 DEF vars
  <2> QED
    BY <2>2, <2>3
<1>2. /\ wpc' = wpc /\ wmsg' = wmsg /\ wpc2' = wpc2 /\ wmsg2' = wmsg2
      /\ locking' = locking /\ holder' = holder
  BY <1>1 DEF writeVars, secondVars, lockVars
<1>3. ReadInv'
  BY <1>1, UntouchedWireInv DEF SharedInv
<1>4. ASSUME locking
      PROVE  Orderly' /\ ChannelStep
  <2>1. Orderly
    BY <1>4 DEF SharedInv
  <2>2. Locked'
    BY <1>2, <2>1 DEF Orderly, Locked, InCall
  <2>3. Quiet
    BY <1>1, <1>2 DEF Quiet
  <2> QED
    BY <2>1, <2>2, <2>3, QuietStep
<1>5. (InCall(wpc) => ValidMessage(wmsg)) /\ (InCall(wpc2) => ValidMessage(wmsg2))
  BY DEF SharedInv
<1>6. InCall(wpc)' => ValidMessage(wmsg)'
  BY <1>2, <1>5 DEF ValidMessage, Validate, InCall
<1>7. InCall(wpc2)' => ValidMessage(wmsg2)'
  BY <1>2, <1>5 DEF ValidMessage, Validate, InCall
<1> QED
  BY <1>2, <1>3, <1>4, <1>6, <1>7 DEF Kept, SharedInv

(* A step of the reader leaves the writers where they are.                 *)
LEMMA ReaderKept ==
  ASSUME SharedInv, ReaderCalls \/ ReaderReads
  PROVE  Kept
<1>1. /\ ReadNext
      /\ UNCHANGED <<writeVars, secondVars, lockVars>>
  BY DEF ReaderCalls, ReaderReads, ReadNext
<1>2. /\ wpc' = wpc /\ wmsg' = wmsg /\ wpc2' = wpc2 /\ wmsg2' = wmsg2
      /\ locking' = locking
  BY <1>1 DEF writeVars, secondVars, lockVars
<1>3. ReadInv'
  BY <1>1, ReadNextInv DEF SharedInv
<1>4. ASSUME locking
      PROVE  Orderly' /\ ChannelStep
  BY <1>4, CallIsOrderly, ReadIsOrderly DEF SharedInv
<1>5. (InCall(wpc) => ValidMessage(wmsg)) /\ (InCall(wpc2) => ValidMessage(wmsg2))
  BY DEF SharedInv
<1>6. InCall(wpc)' => ValidMessage(wmsg)'
  BY <1>2, <1>5 DEF ValidMessage, Validate, InCall
<1>7. InCall(wpc2)' => ValidMessage(wmsg2)'
  BY <1>2, <1>5 DEF ValidMessage, Validate, InCall
<1> QED
  BY <1>2, <1>3, <1>4, <1>6, <1>7 DEF Kept, SharedInv

(* All of them.                                                            *)
LEMMA EveryStepKept ==
  ASSUME SharedInv, [Next]_vars
  PROVE  Kept
BY FirstSubmitsKept, SecondSubmitsKept, FirstWritesKept, SecondWritesKept,
   ClosesKept, ReaderKept DEF Next

(* Before the first call there is no frame.                                *)
LEMMA SharedInit ==
  ASSUME Init
  PROVE  SharedInv
<1> DEFINE zero == [i \in Nat |-> 0]
<1>1. /\ wire = <<>> /\ closed = FALSE /\ holder = 0
      /\ wpc = "idle" /\ wpc2 = "idle" /\ rpc = "idle" /\ pos = 0
      /\ written = <<>> /\ delivered = <<>> /\ ret.err = "none"
  BY DEF Init, ReadInit, WriteInit, Second!WriteInit
<1>2. ReadInv
  BY ReadInitInv DEF Init
<1>3. Locked /\ OnlyForeignRefused
  BY <1>1 DEF Locked, InCall, OnlyForeignRefused
<1>4. InOrder(0, zero, zero, zero, 0, 0)
  <2>1. zero \in [Nat -> Nat] /\ zero[0] = 0
    OBVIOUS
  <2> HIDE DEF zero
  <2>2. Chained(0, zero, zero, zero)
    <3>1. \A i \in 1..0 : FALSE
      OBVIOUS
    <3>2. \A i \in 0..0 : i = 0
      OBVIOUS
    <3> QED
      BY <2>1, <3>1, <3>2 DEF Chained
  <2>3. <<>> \in Seq(Images) /\ Len(<<>>) = 0
    OBVIOUS
  <2>4. FramesOnWire(0, zero, zero) /\ WrittenIs(zero, zero, 0)
    BY <1>1, <2>1, <2>3 DEF FramesOnWire, WrittenIs
  <2>5. LastFrame(0, zero, 0) /\ Unfinished(0, 0)
    BY <1>1, <2>1, <2>3 DEF LastFrame, Unfinished
  <2>6. /\ HalfWritten(0, zero, zero, wpc, wmsg)
        /\ HalfWritten(0, zero, zero, wpc2, wmsg2)
    BY <1>1 DEF HalfWritten
  <2>7. ReaderAt(zero, zero, 0, 0)
    BY <1>1, <2>1, <2>3 DEF ReaderAt
  <2> QED
    BY ONLY <2>2, <2>4, <2>5, <2>6, <2>7 DEF InOrder
<1>5. Orderly
  BY <1>3, <1>4 DEF Orderly
<1> QED
  BY <1>1, <1>2, <1>5 DEF SharedInv, InCall

-----------------------------------------------------------------------------
(* What the two callers and the reader can rely on *)

(* With or without the lock no call of ReadMessageN leaves its frame, and  *)
(* with it the connection is a chain of whole frames of which the reader   *)
(* has had the first ones.                                                 *)
THEOREM SharedInvariant == Spec => []SharedInv
<1>1. Init => SharedInv
  BY SharedInit
<1>2. SharedInv /\ [Next]_vars => SharedInv'
  BY EveryStepKept DEF Kept
<1> QED
  BY <1>1, <1>2, PTL DEF Spec

(* When the callers of WriteMessageN lock, ReadMessageN returns a          *)
(* MessageError for messages of foreign types only.                        *)
THEOREM ForeignRefused == Spec => []OnlyForeignRefused
<1>1. SharedInv => OnlyForeignRefused
  BY DEF SharedInv, Orderly, OnlyForeignRefused
<1> QED
  BY <1>1, SharedInvariant, PTL

(* When the callers of WriteMessageN lock, what ReadMessageN returns are   *)
(* the messages that they wrote, whole, in order and each one once, also   *)
(* when the connection is closed during a call.                            *)
THEOREM OneChannel == Spec => IsOneChannel
<1>1. Init => Channel!Init
  BY DEF Init, Channel!Init
<1>2. SharedInv /\ [Next]_vars => [Channel!Next]_(Channel!vars)
  <2> SUFFICES ASSUME SharedInv, [Next]_vars
               PROVE  [Channel!Next]_(Channel!vars)
    OBVIOUS
  <2>1. locking' = locking /\ (locking => ChannelStep)
    BY EveryStepKept DEF Kept
  <2>2. CASE ~locking
    BY <2>1, <2>2 DEF Channel!vars
  <2>3. CASE locking /\ Sends
    BY <2>1, <2>3 DEF Sends, Channel!Next, Channel!Send
  <2>4. CASE locking /\ Receives
    BY <2>1, <2>4 DEF Receives, Channel!Next, Channel!Receive
  <2>5. CASE locking /\ UNCHANGED <<written, delivered>>
    BY <2>1, <2>5 DEF Channel!vars
  <2> QED
    BY <2>1, <2>2, <2>3, <2>4, <2>5 DEF ChannelStep
<1> QED
  BY <1>1, <1>2, SharedInvariant, PTL DEF Spec, IsOneChannel, Channel!Spec
=============================================================================
