-------------------------------- MODULE Codec -------------------------------
(***************************************************************************)
(* Encode and Decode of every message type, over cells (see Wire).         *)
(*                                                                         *)
(* A decoder is a function of the receiver it is called on and of the      *)
(* payload, and it returns the receiver as the call leaves it together     *)
(* with the error: the code assigns the fields of the receiver one by one  *)
(* and returns at the first failure, so a failed call leaves a receiver    *)
(* that mixes old and new fields.                                          *)
(*                                                                         *)
(* A time is a pair <<seconds, fraction>>; the wire carries the seconds.   *)
(* A pointer is a sequence of at most one cell: <<>> is nil.               *)
(*                                                                         *)
(* A payload is read from a bytes.Buffer.  A field that is cut off makes   *)
(* io.ReadFull return io.EOF or io.ErrUnexpectedEOF, by the number of its  *)
(* bytes that are left; a cell is whole or absent, so that both are "EOF". *)
(*                                                                         *)
(* A slice that is allocated at a count of the payload makes the call      *)
(* panic when the count is too large for make, or negative as an int.      *)
(***************************************************************************)
EXTENDS Wire

CONSTANTS
  StampModulus,  \* 2^32: an addr message carries the time as a uint32
  ZeroTime,      \* the seconds of time.Time{}, a negative number
  MaxAlloc       \* the longest slice that make allocates, of any type

ASSUME CodecAssumption ==
  /\ StampModulus \in Nat \ {0}
  /\ ZeroTime \in Int
  /\ MaxAlloc \in Nat
  /\ MaxAddrPerMsg <= MaxAlloc /\ MaxInvPerMsg <= MaxAlloc
  /\ MaxMessagePayload <= MaxAlloc

Least(a, b) == IF a < b THEN a ELSE b

(* Field i of payload p where the payload reaches it, the old value else. *)
Field(p, i, old) == IF i <= Len(p) THEN p[i] ELSE old

(* A variable filled by readVarInt is zero after a failed read. *)
VarInt(p, i) == Field(p, i, 0)

ErrIfShort(p, n) == IF Len(p) < n THEN "EOF" ELSE "nil"

(* The count in cell i, once the payload reaches it, is too large for make. *)
Huge(p, i) == Len(p) >= i /\ p[i] > MaxAlloc

-----------------------------------------------------------------------------
(* Net addresses: <<timestamp, services, ip, port>>, and without the       *)
(* timestamp in a version message, where the decoded one is the zero time. *)
(* A nil IP is written as sixteen zero bytes.                              *)

NilIP  == -1
ZeroIP == 0

ReadNetAddress(p, at, ts) ==
  IF ts THEN SubSeq(p, at, at + 3)
        ELSE <<ZeroTime>> \o SubSeq(p, at, at + 2)

WriteNetAddress(na, ts) ==
  LET ip == IF na[3] = NilIP THEN ZeroIP ELSE na[3]
  IN  (IF ts THEN <<na[1] % StampModulus>> ELSE <<>>) \o <<na[2], ip, na[4]>>

-----------------------------------------------------------------------------
(* The list messages: a count, then the elements *)

ReadElement(p, at, width) ==
  IF width = MaxNetAddressPayload THEN ReadNetAddress(p, at, TRUE) ELSE p[at]

(* Elements of `width` cells that follow the count, as many as are whole,  *)
(* and at most as many as the count says.                                  *)
Elements(p, width) ==
  [i \in 1..Least(p[1], (Len(p) - 1) \div width) |->
     ReadElement(p, 2 + (i - 1) * width, width)]

(* Mutant: the limit is left to the caller. *)
DecodeListUnlimited(old, p, limit, width) ==
  IF p = <<>> THEN [msg |-> old, err |-> "EOF"]
  ELSE IF Huge(p, 1) THEN [msg |-> old, err |-> "panic"]
  ELSE [msg |-> Elements(p, width), err |-> ErrIfShort(p, 1 + p[1] * width)]

DecodeList(old, p, limit, width) ==
  IF p = <<>> THEN [msg |-> old, err |-> "EOF"]
  ELSE IF p[1] > limit THEN [msg |-> old, err |-> "MessageError"]
  ELSE IF Huge(p, 1) THEN [msg |-> old, err |-> "panic"]
  ELSE [msg |-> Elements(p, width), err |-> ErrIfShort(p, 1 + p[1] * width)]

DecodeAddr(old, p) ==
  DecodeList(old, p, MaxAddrPerMsg, MaxNetAddressPayload)

(* Mutant: the elements are added to the ones that the list has already.   *)
DecodeInvAppends(old, p) ==
  LET d == DecodeList(old, p, MaxInvPerMsg, MaxInvVectPayload)
  IN  IF p = <<>> \/ d.err = "MessageError" THEN d
      ELSE [d EXCEPT !.msg = old \o @]

DecodeInv(old, p) ==
  DecodeList(old, p, MaxInvPerMsg, MaxInvVectPayload)

DecodeGetData(old, p) ==
  DecodeList(old, p, MaxInvPerMsg, MaxInvVectPayload)

Failed(err) == [payload |-> <<>>, err |-> err]

Encoded(payload) == [payload |-> payload, err |-> "nil"]

(* Parts of `width` cells, one after the other. *)
Joined(parts, width) ==
  [j \in 1..(width * Len(parts)) |->
     parts[((j - 1) \div width) + 1][((j - 1) % width) + 1]]

EncodeAddr(m) ==
  IF Len(m) > MaxAddrPerMsg THEN Failed("MessageError")
  ELSE Encoded(<<Len(m)>> \o
               Joined([i \in 1..Len(m) |-> WriteNetAddress(m[i], TRUE)],
                      MaxNetAddressPayload))

EncodeInv(m) ==
  IF Len(m) > MaxInvPerMsg THEN Failed("MessageError")
                           ELSE Encoded(<<Len(m)>> \o m)

EncodeGetData(m) ==
  IF Len(m) > MaxInvPerMsg THEN Failed("MessageError")
                           ELSE Encoded(<<Len(m)>> \o m)

-----------------------------------------------------------------------------
(* The version message *)

(* Cells 1-3 version, services and time, 4-6 and 7-9 the two addresses, 10 *)
(* the nonce, then a counted user agent and counted stream numbers.        *)
VersionFixed(old, p) ==
  LET n == Len(p)
  IN  [old EXCEPT
         !.protocolVersion = Field(p, 1, @),
         !.services        = Field(p, 2, @),
         !.timestamp       = IF n < 3 THEN @ ELSE <<p[3], 0>>,
         !.addrYou = IF n < 6 THEN @ ELSE ReadNetAddress(p, 4, FALSE),
         !.addrMe  = IF n < 9 THEN @ ELSE ReadNetAddress(p, 7, FALSE),
         !.nonce           = Field(p, 10, @)]

(* What readVarString and validateUserAgent say of the user agent. *)
AgentErr(p) ==
  IF Len(p) < 11 THEN "EOF"
  ELSE IF p[11] > MaxMessagePayload THEN "MessageError"
  ELSE IF Huge(p, 11) THEN "panic"
  ELSE IF Len(p) < 11 + p[11] THEN "EOF"
  ELSE IF p[11] > MaxUserAgentLen THEN "MessageError"
  ELSE "nil"

(* The payload is in a *bytes.Buffer, as the one of ReadMessageN is.  The  *)
(* stream numbers are allocated at their full number, whatever it is,      *)
(* before they are read.                                                   *)
DecodeVersion(old, p) ==
  LET fixed == VersionFixed(old, p)
      named == [fixed EXCEPT !.userAgent = SubSeq(p, 12, 11 + p[11])]
      at    == 12 + p[11]
  IN  IF AgentErr(p) # "nil" THEN [msg |-> fixed, err |-> AgentErr(p)]
      ELSE IF Len(p) < at THEN [msg |-> named, err |-> "EOF"]
      ELSE IF Huge(p, at) THEN [msg |-> named, err |-> "panic"]
      ELSE [msg |-> [named EXCEPT
                       !.streamNumbers =
                          [i \in 1..p[at] |-> VarInt(p, at + i)]],
            err |-> ErrIfShort(p, at + p[at])]

EncodeVersion(m) ==
  IF Len(m.userAgent) > MaxUserAgentLen THEN Failed("MessageError")
  ELSE Encoded(<<m.protocolVersion, m.services, m.timestamp[1]>>
               \o WriteNetAddress(m.addrYou, FALSE)
               \o WriteNetAddress(m.addrMe, FALSE)
               \o <<m.nonce, Len(m.userAgent)>> \o m.userAgent
               \o <<Len(m.streamNumbers)>> \o m.streamNumbers)

-----------------------------------------------------------------------------
(* The object messages: nonce, expiry, object type, version, stream, then  *)
(* a part that the version selects *)

ObjectPrefixSize == 3   \* the cells ReadMessageN reads to learn the type

(* The first five cells of an object of the given type. *)
DecodeObject(old, p, type) ==
  LET n     == Len(p)
      typed == n >= 3 /\ p[3] = type
  IN  [msg |-> [old EXCEPT
                  !.nonce      = Field(p, 1, @),
                  !.objectType = Field(p, 3, @),
                  !.expires    = IF typed THEN <<p[2], 0>> ELSE @,
                  !.version    = IF typed THEN VarInt(p, 4) ELSE @,
                  !.stream     = IF typed /\ n >= 4 THEN VarInt(p, 5) ELSE @],
       err |-> IF n >= 3 /\ ~typed THEN "MessageError" ELSE ErrIfShort(p, 5)]

EncodeObject(m) ==
  <<m.nonce, m.expires[1], m.objectType, m.version, m.stream>>

(* A nil pointer is dereferenced by writeElement: the call panics. *)
EncodedOr(panics, payload) ==
  IF panics THEN Failed("panic") ELSE Encoded(payload)

TagBasedRipeVersion == 4

DecodeGetPubKey(old, p) ==
  LET d == DecodeObject(old, p, ObjectTypeGetPubKey)
  IN  IF d.err # "nil" THEN d
      ELSE [msg |-> IF d.msg.version >= TagBasedRipeVersion
                    THEN [d.msg EXCEPT !.tag  = <<VarInt(p, 6)>>]
                    ELSE [d.msg EXCEPT !.ripe = <<VarInt(p, 6)>>],
            err |-> ErrIfShort(p, 6)]

(* Mutant: the first version with a tag is written with the other key. *)
EncodeGetPubKeyLate(m) ==
  LET key == IF m.version > TagBasedRipeVersion THEN m.tag ELSE m.ripe
  IN  EncodedOr(key = <<>>, EncodeObject(m) \o key)

EncodeGetPubKey(m) ==
  LET key == IF m.version >= TagBasedRipeVersion THEN m.tag ELSE m.ripe
  IN  EncodedOr(key = <<>>, EncodeObject(m) \o key)

ExtendedPubKeyVersion  == 3
EncryptedPubKeyVersion == 4

(* Cells 6 to 8 of a public key that is not encrypted: the behavior and    *)
(* the two keys, whose receivers are allocated before the read.            *)
WithKeys(m, p) ==
  [m EXCEPT !.behavior   = Field(p, 6, @),
            !.signingKey = <<VarInt(p, 7)>>,
            !.encryptKey = <<VarInt(p, 8)>>]

DecodePubKey(old, p) ==
  LET d    == DecodeObject(old, p, ObjectTypePubKey)
      n    == Len(p)
      keys == WithKeys(d.msg, p)
  IN  IF d.err # "nil" THEN d
      ELSE IF d.msg.version >= EncryptedPubKeyVersion THEN
        [msg |-> [d.msg EXCEPT
                    !.tag       = <<VarInt(p, 6)>>,
                    !.encrypted = IF n < 6 THEN @ ELSE SubSeq(p, 7, n)],
         err |-> ErrIfShort(p, 6)]
      ELSE IF d.msg.version = ExtendedPubKeyVersion /\ n >= 8 THEN
        [msg |-> [keys EXCEPT
                    !.nonceTrials = VarInt(p, 9),
                    !.extraBytes  = IF n < 9 THEN @ ELSE VarInt(p, 10),
                    !.signature   = IF n < 11 \/ Huge(p, 11) THEN @ ELSE
                                    [i \in 1..p[11] |-> VarInt(p, 11 + i)]],
         err |-> IF Huge(p, 11) THEN "panic"
                 ELSE ErrIfShort(p, IF n < 11 THEN 11 ELSE 11 + p[11])]
      ELSE [msg |-> keys, err |-> ErrIfShort(p, 8)]

EncodePubKey(m) ==
  LET keys == <<m.behavior>> \o m.signingKey \o m.encryptKey
      noKeys == m.signingKey = <<>> \/ m.encryptKey = <<>>
  IN  CASE m.version >= EncryptedPubKeyVersion ->
             EncodedOr(m.tag = <<>>, EncodeObject(m) \o m.tag \o m.encrypted)
        [] m.version = ExtendedPubKeyVersion ->
             EncodedOr(noKeys, EncodeObject(m) \o keys
                       \o <<m.nonceTrials, m.extraBytes, Len(m.signature)>>
                       \o m.signature)
        [] OTHER -> EncodedOr(noKeys, EncodeObject(m) \o keys)

(* MsgMsg and MsgBroadcast are not in the repository.  message.go creates  *)
(* them and its tests fix their layout: the common cells, then the rest.   *)
DecodeSealed(old, p, type) ==
  LET d == DecodeObject(old, p, type)
  IN  IF d.err # "nil" THEN d
      ELSE [msg |-> [d.msg EXCEPT !.encrypted = SubSeq(p, 6, Len(p))],
            err |-> "nil"]

EncodeSealed(m) == Encoded(EncodeObject(m) \o m.encrypted)

-----------------------------------------------------------------------------
(* The Message interface *)

(* The receiver that makeEmptyMessage and ReadMessageN create. *)
EmptyMessage(kind) ==
  LET noAddr == <<ZeroTime, 0, NilIP, 0>>
      noTime == <<ZeroTime, 0>>
  IN  CASE kind \in {"addr", "inv", "getdata"} -> <<>>
        [] kind = "version" ->
             [protocolVersion |-> 0, services |-> 0, timestamp |-> noTime,
              addrYou |-> noAddr, addrMe |-> noAddr, nonce |-> 0,
              userAgent |-> <<>>, streamNumbers |-> <<>>]
        [] kind = "getpubkey" ->
             [nonce |-> 0, expires |-> noTime, objectType |-> 0, version |-> 0,
              stream |-> 0, ripe |-> <<>>, tag |-> <<>>]
        [] kind = "pubkey" ->
             [nonce |-> 0, expires |-> noTime, objectType |-> 0, version |-> 0,
              stream |-> 0, behavior |-> 0, signingKey |-> <<>>,
              encryptKey |-> <<>>, nonceTrials |-> 0, extraBytes |-> 0,
              signature |-> <<>>, tag |-> <<>>, encrypted |-> <<>>]
        [] kind \in {"msg", "broadcast"} ->
             [nonce |-> 0, expires |-> noTime, objectType |-> 0, version |-> 0,
              stream |-> 0, encrypted |-> <<>>]
        [] OTHER -> <<>>   \* verack and getaddr have no fields

(* The values of the fields, for the times and the object types that a     *)
(* message may have.                                                       *)
Time == Int \X Nat

Pointer == {s \in Seq(Nat) : Len(s) <= 1}

NetAddress == Int \X Nat \X (Nat \cup {NilIP}) \X Nat

MsgVersion(times) ==
  [protocolVersion : Nat, services : Nat, timestamp : times,
   addrYou : NetAddress, addrMe : NetAddress, nonce : Nat,
   userAgent : Seq(Nat), streamNumbers : Seq(Nat)]

MsgGetPubKey(times, types) ==
  [nonce : Nat, expires : times, objectType : types,
   version : Nat, stream : Nat, ripe : Pointer, tag : Pointer]

MsgPubKey(times, types) ==
  [nonce : Nat, expires : times, objectType : types,
   version : Nat, stream : Nat, behavior : Nat, signingKey : Pointer,
   encryptKey : Pointer, nonceTrials : Nat, extraBytes : Nat,
   signature : Seq(Nat), tag : Pointer, encrypted : Seq(Nat)]

MsgSealed(times, types) ==
  [nonce : Nat, expires : times, objectType : types, version : Nat,
   stream : Nat, encrypted : Seq(Nat)]

(* What a receiver may hold: a decoder that failed may have left a type    *)
(* that is not the one of the message.                                     *)
Receiver(kind) ==
  CASE kind = "version"          -> MsgVersion(Time)
    [] kind = "addr"             -> Seq(NetAddress)
    [] kind \in {"inv", "getdata"} -> Seq(Nat)
    [] kind = "getpubkey"        -> MsgGetPubKey(Time, Nat)
    [] kind = "pubkey"           -> MsgPubKey(Time, Nat)
    [] kind \in {"msg", "broadcast"} -> MsgSealed(Time, Nat)
    [] OTHER                     -> {<<>>}

(* What a program may write: times from 1970 on, that a cell can carry,    *)
(* and the object type that the constructor assigns.                       *)
WireTime == Nat \X Nat

Body(kind) ==
  CASE kind = "version"   -> MsgVersion(WireTime)
    [] kind = "getpubkey" -> MsgGetPubKey(WireTime, {ObjectTypeGetPubKey})
    [] kind = "pubkey"    -> MsgPubKey(WireTime, {ObjectTypePubKey})
    [] kind = "msg"       -> MsgSealed(WireTime, {ObjectTypeMsg})
    [] kind = "broadcast" -> MsgSealed(WireTime, {ObjectTypeBroadcast})
    [] OTHER              -> Receiver(kind)

Decode(kind, old, p) ==
  CASE kind = "version"   -> DecodeVersion(old, p)
    [] kind = "addr"      -> DecodeAddr(old, p)
    [] kind = "inv"       -> DecodeInv(old, p)
    [] kind = "getdata"   -> DecodeGetData(old, p)
    [] kind = "getpubkey" -> DecodeGetPubKey(old, p)
    [] kind = "pubkey"    -> DecodePubKey(old, p)
    [] kind = "msg"       -> DecodeSealed(old, p, ObjectTypeMsg)
    [] kind = "broadcast" -> DecodeSealed(old, p, ObjectTypeBroadcast)
    [] OTHER              -> [msg |-> old, err |-> "nil"]

Encode(kind, m) ==
  CASE kind = "version"   -> EncodeVersion(m)
    [] kind = "addr"      -> EncodeAddr(m)
    [] kind = "inv"       -> EncodeInv(m)
    [] kind = "getdata"   -> EncodeGetData(m)
    [] kind = "getpubkey" -> EncodeGetPubKey(m)
    [] kind = "pubkey"    -> EncodePubKey(m)
    [] kind \in {"msg", "broadcast"} -> EncodeSealed(m)
    [] OTHER              -> Encoded(<<>>)
=============================================================================
