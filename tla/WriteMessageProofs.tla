-------------------------- MODULE WriteMessageProofs ------------------------
(***************************************************************************)
(* WriteMessageN, for every set of messages: what a call leaves on the     *)
(* wire is a prefix of one frame, and what it writes without an error is   *)
(* what ReadMessageN accepts and returns.                                  *)
(***************************************************************************)
EXTENDS WriteMessage, CodecProofs

-----------------------------------------------------------------------------
(* Messages: a payload that was encoded without an error is decoded into   *)
(* the message, up to what is not transmitted.                             *)

Carries(kind, p, body) ==
  /\ p \in Seq(Nat)
  /\ Decode(kind, EmptyMessage(kind), p) = [msg |-> body, err |-> "nil"]
  /\ kind \in ObjectKinds =>
       Len(p) >= 3 /\ p[3] \in ObjectTypes /\ ObjectKind[p[3]] = kind

(* The names of the types, written out. *)
LEMMA KindNames ==
  /\ ObjectKinds = {"getpubkey", "pubkey", "msg", "broadcast"}
  /\ Kinds = {"version", "verack", "getaddr", "addr", "inv", "getdata",
              "getpubkey", "pubkey", "msg", "broadcast"}
  /\ ObjectTypes = {0, 1, 2, 3}
  /\ ObjectKind[0] = "getpubkey" /\ ObjectKind[1] = "pubkey"
  /\ ObjectKind[2] = "msg" /\ ObjectKind[3] = "broadcast"
<1>1. ObjectTypes = {0, 1, 2, 3}
  BY DEF ObjectTypes, ObjectTypeGetPubKey, ObjectTypePubKey, ObjectTypeMsg,
         ObjectTypeBroadcast
<1>2. /\ ObjectKind[0] = "getpubkey" /\ ObjectKind[1] = "pubkey"
      /\ ObjectKind[2] = "msg" /\ ObjectKind[3] = "broadcast"
  BY <1>1 DEF ObjectKind, ObjectTypeGetPubKey, ObjectTypePubKey, ObjectTypeMsg,
              ObjectTypeBroadcast
<1>3. ObjectKinds = {"getpubkey", "pubkey", "msg", "broadcast"}
  BY <1>1, <1>2 DEF ObjectKinds
<1> QED
  BY <1>1, <1>2, <1>3 DEF Kinds, HandledCommands

LEMMA EmptyCarried ==
  ASSUME NEW m, m.kind \in {"verack", "getaddr"}, m.body \in Body(m.kind)
  PROVE  Carries(m.kind, Encode(m.kind, m.body).payload, Transmitted(m).body)
<1>1. m.body = <<>>
  BY DEF Body, Receiver
<1>2. Encode(m.kind, m.body).payload = <<>>
  BY DEF Encode, Encoded
<1>3. EmptyMessage(m.kind) = <<>>
  BY DEF EmptyMessage
<1>4. Decode(m.kind, <<>>, <<>>) = [msg |-> <<>>, err |-> "nil"]
  BY SMTT(30) DEF Decode
<1>5. Transmitted(m).body = <<>>
  BY <1>1, Zenon DEF Transmitted
<1>6. m.kind \notin ObjectKinds
  BY KindNames
<1>7. <<>> \in Seq(Nat)
  OBVIOUS
<1> QED
  BY <1>2, <1>3, <1>4, <1>5, <1>6, <1>7 DEF Carries

LEMMA InvCarried ==
  ASSUME NEW m, m.kind \in {"inv", "getdata"}, m.body \in Body(m.kind),
         Encode(m.kind, m.body).err = "nil"
  PROVE  Carries(m.kind, Encode(m.kind, m.body).payload, Transmitted(m).body)
<1> DEFINE b == m.body
<1>1. b \in Seq(Nat) /\ Len(b) \in Nat /\ MaxInvPerMsg \in Nat
  BY WireAssumption DEF Body, Receiver, WireAssumption
<1>2. Encode(m.kind, b) = EncodeInv(b)
  BY DEF Encode, EncodeInv, EncodeGetData
<1>3. Len(b) <= MaxInvPerMsg
  <2>1. CASE Len(b) > MaxInvPerMsg
    BY <1>2, <2>1 DEF EncodeInv, Failed
  <2> QED
    BY <1>1, <2>1
<1> DEFINE p == EncodeInv(b).payload
<1>4. p \in Seq(Nat) /\ DecodeInv(<<>>, p) = [msg |-> b, err |-> "nil"]
  BY <1>1, <1>3, InvRoundTrip
<1>5. EmptyMessage(m.kind) = <<>>
  BY DEF EmptyMessage
<1>6. Decode(m.kind, <<>>, p) = DecodeInv(<<>>, p)
  <2> HIDE DEF p
  <2> QED
    BY DEF Decode, DecodeInv, DecodeGetData
<1>7. Transmitted(m).body = b
  BY DEF Transmitted
<1>8. m.kind \notin ObjectKinds
  BY KindNames
<1> HIDE DEF p, b
<1> QED
  BY <1>2, <1>4, <1>5, <1>6, <1>7, <1>8 DEF Carries, p, b

LEMMA AddrCarried ==
  ASSUME NEW m, m.kind = "addr", m.body \in Body(m.kind),
         Encode(m.kind, m.body).err = "nil"
  PROVE  Carries(m.kind, Encode(m.kind, m.body).payload, Transmitted(m).body)
<1> DEFINE b == m.body
<1>1. b \in Seq(NetAddress) /\ Len(b) \in Nat /\ MaxAddrPerMsg \in Nat
  BY WireAssumption DEF Body, Receiver, WireAssumption
<1>2. Encode(m.kind, b) = EncodeAddr(b)
  BY DEF Encode
<1>3. Len(b) <= MaxAddrPerMsg
  <2>1. CASE Len(b) > MaxAddrPerMsg
    BY <1>2, <2>1 DEF EncodeAddr, Failed
  <2> QED
    BY <1>1, <2>1
<1> DEFINE p == EncodeAddr(b).payload
           seen == [i \in 1..Len(b) |-> WriteNetAddress(b[i], TRUE)]
<1>4. p \in Seq(Nat) /\ DecodeAddr(<<>>, p) = [msg |-> seen, err |-> "nil"]
  BY <1>1, <1>3, AddrRoundTrip
<1>5. EmptyMessage(m.kind) = <<>>
  BY DEF EmptyMessage
<1>6. Decode(m.kind, <<>>, p) = DecodeAddr(<<>>, p)
  <2> HIDE DEF p
  <2> QED
    BY DEF Decode
<1>7. Transmitted(m).body = seen
  <2>1. Transmitted(m).body
          = [i \in DOMAIN b |-> <<b[i][1] % StampModulus, b[i][2],
                                  WireIP(b[i]), b[i][4]>>]
    BY DEF Transmitted, WireIP
  <2>2. DOMAIN b = 1..Len(b)
    BY <1>1
  <2>3. ASSUME NEW i \in 1..Len(b)
        PROVE  WriteNetAddress(b[i], TRUE)
                 = <<b[i][1] % StampModulus, b[i][2], WireIP(b[i]), b[i][4]>>
    <3>1. b[i] \in NetAddress
      BY <1>1
    <3> QED
      BY <3>1, AddressCells
  <2> HIDE DEF b
  <2> QED
    BY <2>1, <2>2, <2>3
<1>8. m.kind \notin ObjectKinds
  BY KindNames
<1> HIDE DEF p, b, seen
<1> QED
  BY <1>2, <1>4, <1>5, <1>6, <1>7, <1>8 DEF Carries, p, b

VersionFields ==
  {"protocolVersion", "services", "timestamp", "addrYou", "addrMe", "nonce",
   "userAgent", "streamNumbers"}

LEMMA VersionCarried ==
  ASSUME NEW m, m.kind = "version", m.body \in Body(m.kind),
         Encode(m.kind, m.body).err = "nil",
         ~(Len(Encode(m.kind, m.body).payload) > MaxMessagePayload)
  PROVE  Carries(m.kind, Encode(m.kind, m.body).payload, Transmitted(m).body)
<1> DEFINE b == m.body
           p == EncodeVersion(b).payload
           r == VersionSeen(b)
           when == <<b.timestamp[1], 0>>
           you == <<ZeroTime, b.addrYou[2], WireIP(b.addrYou), b.addrYou[4]>>
           me  == <<ZeroTime, b.addrMe[2], WireIP(b.addrMe), b.addrMe[4]>>
           new == [b EXCEPT !.timestamp = when, !.addrYou = you, !.addrMe = me]
<1>1. b \in MsgVersion(WireTime)
  BY DEF Body
<1>2. Encode(m.kind, b) = EncodeVersion(b)
  BY DEF Encode
<1>3. p \in Seq(Nat) /\ DecodeVersion(EmptyMessage("version"), p)
                          = [msg |-> r, err |-> "nil"]
  BY <1>1, <1>2, VersionRoundTrip
<1>4. Transmitted(m).body = new
  BY DEF Transmitted, WireIP
<1>5. DOMAIN b = VersionFields /\ b = [x \in VersionFields |-> b[x]]
  BY <1>1 DEF MsgVersion, VersionFields
<1>6. /\ r = [x \in VersionFields |-> r[x]]
      /\ r.protocolVersion = b.protocolVersion /\ r.services = b.services
      /\ r.timestamp = when /\ r.addrYou = you /\ r.addrMe = me
      /\ r.nonce = b.nonce /\ r.userAgent = b.userAgent
      /\ r.streamNumbers = b.streamNumbers
  BY DEF VersionSeen, VersionFields
<1> HIDE DEF b, p, r, when, you, me
<1>7. /\ new = [x \in VersionFields |-> new[x]]
      /\ new.protocolVersion = b.protocolVersion /\ new.services = b.services
      /\ new.timestamp = when /\ new.addrYou = you /\ new.addrMe = me
      /\ new.nonce = b.nonce /\ new.userAgent = b.userAgent
      /\ new.streamNumbers = b.streamNumbers
  BY <1>5 DEF VersionFields
<1> HIDE DEF new
<1>8. \A x \in VersionFields : new[x] = r[x]
  BY <1>6, <1>7 DEF VersionFields
<1>9. new = r
  BY <1>6, <1>7, <1>8, SameRecord
<1>10. Decode(m.kind, EmptyMessage(m.kind), p)
         = DecodeVersion(EmptyMessage("version"), p)
  BY DEF Decode
<1>11. m.kind \notin ObjectKinds
  BY KindNames
<1> QED
  BY <1>2, <1>3, <1>4, <1>9, <1>10, <1>11 DEF Carries, p, b

GetPubKeyFields ==
  {"nonce", "expires", "objectType", "version", "stream", "ripe", "tag"}

LEMMA GetPubKeyCarried ==
  ASSUME NEW m, m.kind = "getpubkey", m.body \in Body(m.kind),
         Encode(m.kind, m.body).err = "nil"
  PROVE  Carries(m.kind, Encode(m.kind, m.body).payload, Transmitted(m).body)
<1> DEFINE b == m.body
           p == EncodeGetPubKey(b).payload
           r == GetPubKeySeen(b)
           when == <<b.expires[1], 0>>
           ripe == IF b.version >= 4 THEN <<>> ELSE b.ripe
           tag  == IF b.version >= 4 THEN b.tag ELSE <<>>
           new == [b EXCEPT !.expires = when, !.ripe = ripe, !.tag = tag]
<1>1. b \in MsgGetPubKey(WireTime, {ObjectTypeGetPubKey})
  BY DEF Body
<1>2. Encode(m.kind, b) = EncodeGetPubKey(b)
  BY DEF Encode
<1>3. /\ p \in Seq(Nat) /\ Len(p) >= 5 /\ p[3] = ObjectTypeGetPubKey
      /\ DecodeGetPubKey(EmptyMessage("getpubkey"), p)
           = [msg |-> r, err |-> "nil"]
  BY <1>1, <1>2, GetPubKeyRoundTrip
<1>4. Transmitted(m).body = new
  <2>1. Transmitted(m).body
          = [b EXCEPT !.expires = <<@[1], 0>>,
                      !.ripe = IF b.version >= 4 THEN <<>> ELSE @,
                      !.tag = IF b.version >= 4 THEN @ ELSE <<>>]
    BY DEF Transmitted
  <2> HIDE DEF b
  <2> QED
    BY <2>1
<1>5. DOMAIN b = GetPubKeyFields /\ b = [x \in GetPubKeyFields |-> b[x]]
  BY <1>1 DEF MsgGetPubKey, GetPubKeyFields
<1>6. /\ r = [x \in GetPubKeyFields |-> r[x]]
      /\ r.nonce = b.nonce /\ r.expires = when /\ r.objectType = b.objectType
      /\ r.version = b.version /\ r.stream = b.stream /\ r.ripe = ripe
      /\ r.tag = tag
  BY DEF GetPubKeySeen, GetPubKeyFields
<1> HIDE DEF b, p, r, when, ripe, tag
<1>7. /\ new = [x \in GetPubKeyFields |-> new[x]]
      /\ new.nonce = b.nonce /\ new.expires = when
      /\ new.objectType = b.objectType /\ new.version = b.version
      /\ new.stream = b.stream /\ new.ripe = ripe /\ new.tag = tag
  BY <1>5 DEF GetPubKeyFields
<1> HIDE DEF new
<1>8. \A x \in GetPubKeyFields : new[x] = r[x]
  BY <1>6, <1>7 DEF GetPubKeyFields
<1>9. new = r
  BY <1>6, <1>7, <1>8, SameRecord
<1>10. Decode(m.kind, EmptyMessage(m.kind), p)
         = DecodeGetPubKey(EmptyMessage("getpubkey"), p)
  BY DEF Decode
<1>11. Len(p) >= 3 /\ p[3] \in ObjectTypes /\ ObjectKind[p[3]] = m.kind
  BY <1>3, KindNames DEF ObjectTypeGetPubKey
<1> QED
  BY <1>2, <1>3, <1>4, <1>9, <1>10, <1>11 DEF Carries, p, b

LEMMA SealedCarried ==
  ASSUME NEW m, m.kind \in {"msg", "broadcast"}, m.body \in Body(m.kind)
  PROVE  Carries(m.kind, Encode(m.kind, m.body).payload, Transmitted(m).body)
<1> DEFINE b == m.body
           type == IF m.kind = "msg" THEN 2 ELSE 3
           p == EncodeSealed(b).payload
           r == SealedSeen(b)
           when == <<b.expires[1], 0>>
           new == [b EXCEPT !.expires = when]
<1>1. type \in Nat /\ b \in MsgSealed(WireTime, {type})
  BY DEF Body, ObjectTypeMsg, ObjectTypeBroadcast
<1>2. Encode(m.kind, b) = EncodeSealed(b)
  BY DEF Encode
<1>a. p[3] \in ObjectTypes /\ ObjectKind[p[3]] = m.kind <=> p[3] = type
  BY KindNames
<1> HIDE DEF type
<1>3. /\ p \in Seq(Nat) /\ Len(p) >= 5 /\ p[3] = type
      /\ DecodeSealed(EmptyMessage(m.kind), p, type) = [msg |-> r, err |-> "nil"]
  BY <1>1, SealedRoundTrip
<1>4. Transmitted(m).body = new
  BY DEF Transmitted
<1>5. DOMAIN b = SealedFields /\ b = [x \in SealedFields |-> b[x]]
  BY <1>1 DEF MsgSealed, SealedFields
<1>6. /\ r = [x \in SealedFields |-> r[x]]
      /\ r.nonce = b.nonce /\ r.expires = when /\ r.objectType = b.objectType
      /\ r.version = b.version /\ r.stream = b.stream
      /\ r.encrypted = b.encrypted
  BY DEF SealedSeen, SealedFields
<1> HIDE DEF b, p, r, when
<1>7. /\ new = [x \in SealedFields |-> new[x]]
      /\ new.nonce = b.nonce /\ new.expires = when
      /\ new.objectType = b.objectType /\ new.version = b.version
      /\ new.stream = b.stream /\ new.encrypted = b.encrypted
  BY <1>5 DEF SealedFields
<1> HIDE DEF new
<1>8. \A x \in SealedFields : new[x] = r[x]
  BY <1>6, <1>7 DEF SealedFields
<1>9. new = r
  BY <1>6, <1>7, <1>8, SameRecord
<1>10. Decode(m.kind, EmptyMessage(m.kind), p)
         = DecodeSealed(EmptyMessage(m.kind), p, type)
  <2> DEFINE e == EmptyMessage(m.kind)
  <2> HIDE DEF e
  <2>1. Decode(m.kind, e, p) = DecodeSealed(e, p, type)
    BY DEF Decode, type, ObjectTypeMsg, ObjectTypeBroadcast
  <2> QED
    BY <2>1 DEF e
<1>11. Len(p) >= 3
  BY <1>3
<1> QED
  BY <1>2, <1>3, <1>4, <1>9, <1>10, <1>11, <1>a DEF Carries, p, b

(* The three forms of a public key, on either side of the wire. *)
LEMMA PubKeyTransmitted ==
  ASSUME NEW m, m.kind = "pubkey", m.body \in MsgPubKey(WireTime, {ObjectTypePubKey})
  PROVE  Transmitted(m).body = PubKeySeen(m.body)
<1> DEFINE b == m.body
           e == EmptyMessage("pubkey")
           r == PubKeySeen(b)
           when == <<b.expires[1], 0>>
<1>1. PubKeyShape(b) /\ b.version \in Nat
  BY DEF MsgPubKey, PubKeyShape, PubKeyFields
<1>2. /\ PubKeyShape(e)
      /\ e.behavior = 0 /\ e.signingKey = <<>>
      /\ e.encryptKey = <<>> /\ e.nonceTrials = 0 /\ e.extraBytes = 0
      /\ e.signature = <<>> /\ e.tag = <<>> /\ e.encrypted = <<>>
  BY DEF EmptyMessage, PubKeyShape, PubKeyFields
<1>3. CASE b.version >= 4
  <2> DEFINE new == [e EXCEPT !.nonce = b.nonce, !.expires = when,
                              !.objectType = b.objectType,
                              !.version = b.version, !.stream = b.stream,
                              !.tag = b.tag, !.encrypted = b.encrypted]
  <2>1. Transmitted(m).body = new
    <3>1. b.version # 3 /\ ~(b.version < 3)
      BY <1>1, <1>3
    <3> HIDE DEF e
    <3> QED
      BY <1>3, <3>1 DEF Transmitted, e
  <2>2. /\ PubKeyShape(r) /\ r.tag = b.tag /\ r.encrypted = b.encrypted
        /\ r.nonce = b.nonce /\ r.expires = when
        /\ r.objectType = b.objectType /\ r.version = b.version
        /\ r.stream = b.stream /\ r.behavior = 0
        /\ r.signingKey = <<>> /\ r.encryptKey = <<>>
        /\ r.nonceTrials = 0 /\ r.extraBytes = 0 /\ r.signature = <<>>
    <3>1. b.version # 3
      BY <1>1, <1>3
    <3> QED
      BY <1>3, <3>1, PubKeySeenFields
  <2> HIDE DEF b, e, r, when
  <2>3. /\ PubKeyShape(new) /\ new.tag = b.tag /\ new.encrypted = b.encrypted
        /\ new.nonce = b.nonce /\ new.expires = when
        /\ new.objectType = b.objectType /\ new.version = b.version
        /\ new.stream = b.stream /\ new.behavior = e.behavior
        /\ new.signingKey = e.signingKey /\ new.encryptKey = e.encryptKey
        /\ new.nonceTrials = e.nonceTrials /\ new.extraBytes = e.extraBytes
        /\ new.signature = e.signature
    BY <1>2 DEF PubKeyShape, PubKeyFields
  <2> HIDE DEF new
  <2>4. new = r
    BY ONLY <1>2, <2>2, <2>3, PubKeySame
  <2> QED
    BY <2>1, <2>4 DEF r, b
<1>4. CASE b.version = 3
  <2> DEFINE new == [b EXCEPT !.expires = when, !.tag = <<>>,
                              !.encrypted = <<>>]
  <2>1. Transmitted(m).body = new
    <3>1. ~(b.version >= 4) /\ ~(b.version < 3)
      BY <1>4
    <3> QED
      BY <1>4, <3>1 DEF Transmitted
  <2>2. /\ PubKeyShape(r) /\ r.tag = <<>> /\ r.encrypted = <<>>
        /\ r.nonce = b.nonce /\ r.expires = when
        /\ r.objectType = b.objectType /\ r.version = b.version
        /\ r.stream = b.stream /\ r.behavior = b.behavior
        /\ r.signingKey = b.signingKey /\ r.encryptKey = b.encryptKey
        /\ r.nonceTrials = b.nonceTrials /\ r.extraBytes = b.extraBytes
        /\ r.signature = b.signature
    <3>1. ~(b.version >= 4)
      BY <1>4
    <3> QED
      BY <1>4, <3>1, PubKeySeenFields
  <2> HIDE DEF b, r, when
  <2>3. /\ PubKeyShape(new) /\ new.tag = <<>> /\ new.encrypted = <<>>
        /\ new.nonce = b.nonce /\ new.expires = when
        /\ new.objectType = b.objectType /\ new.version = b.version
        /\ new.stream = b.stream /\ new.behavior = b.behavior
        /\ new.signingKey = b.signingKey /\ new.encryptKey = b.encryptKey
        /\ new.nonceTrials = b.nonceTrials /\ new.extraBytes = b.extraBytes
        /\ new.signature = b.signature
    BY <1>1 DEF PubKeyShape, PubKeyFields
  <2> HIDE DEF new
  <2>4. new = r
    BY ONLY <2>2, <2>3, PubKeySame
  <2> QED
    BY <2>1, <2>4 DEF r, b
<1>5. CASE ~(b.version >= 4) /\ b.version # 3
  <2> DEFINE new == [b EXCEPT !.expires = when, !.tag = <<>>,
                              !.encrypted = <<>>, !.nonceTrials = 0,
                              !.extraBytes = 0, !.signature = <<>>]
  <2>1. Transmitted(m).body = new
    <3>1. b.version < 3
      BY <1>1, <1>5
    <3> QED
      BY <1>5, <3>1 DEF Transmitted
  <2>2. /\ PubKeyShape(r) /\ r.tag = <<>> /\ r.encrypted = <<>>
        /\ r.nonce = b.nonce /\ r.expires = when
        /\ r.objectType = b.objectType /\ r.version = b.version
        /\ r.stream = b.stream /\ r.behavior = b.behavior
        /\ r.signingKey = b.signingKey /\ r.encryptKey = b.encryptKey
        /\ r.nonceTrials = 0 /\ r.extraBytes = 0
        /\ r.signature = <<>>
    BY <1>5, PubKeySeenFields
  <2> HIDE DEF b, r, when
  <2>3. /\ PubKeyShape(new) /\ new.tag = <<>> /\ new.encrypted = <<>>
        /\ new.nonce = b.nonce /\ new.expires = when
        /\ new.objectType = b.objectType /\ new.version = b.version
        /\ new.stream = b.stream /\ new.behavior = b.behavior
        /\ new.signingKey = b.signingKey /\ new.encryptKey = b.encryptKey
        /\ new.nonceTrials = 0 /\ new.extraBytes = 0
        /\ new.signature = <<>>
    BY <1>1 DEF PubKeyShape, PubKeyFields
  <2> HIDE DEF new
  <2>4. new = r
    BY ONLY <2>2, <2>3, PubKeySame
  <2> QED
    BY <2>1, <2>4 DEF r, b
<1> QED
  BY <1>3, <1>4, <1>5

LEMMA PubKeyCarried ==
  ASSUME NEW m, m.kind = "pubkey", m.body \in Body(m.kind),
         Encode(m.kind, m.body).err = "nil",
         ~(Len(Encode(m.kind, m.body).payload) > MaxMessagePayload)
  PROVE  Carries(m.kind, Encode(m.kind, m.body).payload, Transmitted(m).body)
<1> DEFINE b == m.body
           p == EncodePubKey(b).payload
           r == PubKeySeen(b)
<1>1. b \in MsgPubKey(WireTime, {ObjectTypePubKey})
  BY DEF Body
<1>2. Encode(m.kind, b) = EncodePubKey(b)
  BY DEF Encode
<1>3. /\ p \in Seq(Nat) /\ Len(p) >= 5 /\ p[3] = ObjectTypePubKey
      /\ DecodePubKey(EmptyMessage("pubkey"), p) = [msg |-> r, err |-> "nil"]
  <2>1. CASE b.version >= 4
    BY <1>1, <1>2, <2>1, SealedPubKeyRoundTrip
  <2>2. CASE b.version = 3
    BY <1>1, <1>2, <2>2, ExtendedPubKeyRoundTrip
  <2>3. CASE ~(b.version >= 4) /\ b.version # 3
    BY <1>1, <1>2, <2>3, PlainPubKeyRoundTrip
  <2> QED
    BY <2>1, <2>2, <2>3
<1>4. Transmitted(m).body = r
  BY <1>1, PubKeyTransmitted
<1> HIDE DEF b, p, r
<1>5. Decode(m.kind, EmptyMessage(m.kind), p)
        = DecodePubKey(EmptyMessage("pubkey"), p)
  BY DEF Decode
<1>6. Len(p) >= 3 /\ p[3] \in ObjectTypes /\ ObjectKind[p[3]] = m.kind
  BY <1>3, KindNames DEF ObjectTypePubKey
<1> QED
  BY <1>2, <1>3, <1>4, <1>5, <1>6 DEF Carries, p, b

(* Every message that passes the validations of WriteMessageN. *)
LEMMA MessageCarried ==
  ASSUME NEW m \in Messages, m.kind \in Kinds, Validate(m) = "nil"
  PROVE  Carries(m.kind, Payload(m).payload, Transmitted(m).body)
<1>1. m.kind \notin ForeignKinds
  BY KindNames DEF ForeignKinds
<1>2. m.body \in Body(m.kind) /\ Payload(m) = Encode(m.kind, m.body)
  BY <1>1, WriteAssumption DEF WriteAssumption, Payload
<1>3. Payload(m).err = "nil" /\ ~(Len(Payload(m).payload) > MaxMessagePayload)
  BY DEF Validate, PayloadTooLarge
<1>4. CASE m.kind \in {"verack", "getaddr"}
  BY <1>2, <1>4, EmptyCarried
<1>5. CASE m.kind \in {"inv", "getdata"}
  BY <1>2, <1>3, <1>5, InvCarried
<1>6. CASE m.kind = "addr"
  BY <1>2, <1>3, <1>6, AddrCarried
<1>7. CASE m.kind = "version"
  BY <1>2, <1>3, <1>7, VersionCarried
<1>8. CASE m.kind = "getpubkey"
  BY <1>2, <1>3, <1>8, GetPubKeyCarried
<1>9. CASE m.kind = "pubkey"
  BY <1>2, <1>3, <1>9, PubKeyCarried
<1>10. CASE m.kind \in {"msg", "broadcast"}
  BY <1>2, <1>10, SealedCarried
<1> QED
  BY <1>4, <1>5, <1>6, <1>7, <1>8, <1>9, <1>10, KindNames

-----------------------------------------------------------------------------
(* Frames *)

(* The payload of every message that passes the validations is cells. *)
LEMMA PayloadCells ==
  ASSUME NEW m \in Messages, Validate(m) = "nil"
  PROVE  Payload(m).payload \in Seq(Nat)
<1>1. CASE m.kind \in Kinds
  BY <1>1, MessageCarried DEF Carries
<1>2. CASE m.kind \notin Kinds
  BY <1>2, WriteAssumption DEF WriteAssumption, Payload
<1> QED
  BY <1>1, <1>2

(* The command cell is a cell, and its name leads to the type. *)
LEMMA CommandCells ==
  ASSUME NEW kind
  PROVE  /\ CommandCell(kind) \in Nat
         /\ kind \in ObjectKinds => CommandOf(CommandCell(kind)) = "object"
         /\ kind \in HandledCommands => CommandOf(CommandCell(kind)) = kind
<1>1. DOMAIN CommandName = 1..7
  BY DEF CommandName
<1>2. /\ CommandName[1] = "version" /\ CommandName[2] = "verack"
      /\ CommandName[3] = "getaddr" /\ CommandName[4] = "addr"
      /\ CommandName[5] = "inv" /\ CommandName[6] = "getdata"
      /\ CommandName[7] = "object"
  BY DEF CommandName
<1>3. CASE kind \in ObjectKinds
  <2>1. CommandCell(kind) = 7 /\ kind \notin HandledCommands
    BY <1>3, KindNames DEF CommandCell, ObjectCell, HandledCommands
  <2> QED
    BY <1>1, <1>2, <2>1 DEF CommandOf
<1>4. CASE kind \in HandledCommands
  <2> DEFINE Names(c) == CommandName[c] = kind
  <2>1. \E c \in 1..7 : Names(c)
    BY <1>2, <1>4 DEF HandledCommands
  <2>2. kind \notin ObjectKinds
    BY <1>4, KindNames DEF HandledCommands
  <2>3. CommandCell(kind) = CHOOSE c \in 1..7 : Names(c)
    BY <1>1, <1>4, <2>2 DEF CommandCell
  <2>4. CommandCell(kind) \in 1..7 /\ Names(CommandCell(kind))
    BY <2>1, <2>3
  <2> QED
    BY <1>1, <2>2, <2>4 DEF CommandOf
<1>5. CASE kind \notin ObjectKinds /\ kind \notin HandledCommands
  BY <1>5 DEF CommandCell, UnknownCell
<1> QED
  BY <1>3, <1>4, <1>5

(* The header of a frame, and the frame. *)
LEMMA FrameCells ==
  ASSUME NEW m \in Messages, Validate(m) = "nil"
  PROVE  LET p == Payload(m).payload
         IN  /\ HeaderCells(m) \in Seq(Nat) /\ Len(HeaderCells(m)) = 4
             /\ HeaderCells(m)[1] = bmnet
             /\ HeaderCells(m)[2] = CommandCell(m.kind)
             /\ HeaderCells(m)[3] = Len(p) /\ HeaderCells(m)[4] = Checksum(p)
             /\ p \in Seq(Nat) /\ Len(p) \in Nat
             /\ FrameOf(m) \in Seq(Nat) /\ Len(FrameOf(m)) = 4 + Len(p)
             /\ \A i \in 1..4 : FrameOf(m)[i] = HeaderCells(m)[i]
             /\ \A i \in 1..Len(p) : FrameOf(m)[4 + i] = p[i]
<1> DEFINE p == Payload(m).payload
           h == HeaderCells(m)
<1>1. p \in Seq(Nat)
  BY PayloadCells
<1>2. /\ bmnet \in Nat /\ CommandCell(m.kind) \in Nat /\ Checksum(p) \in Nat
  BY WriteAssumption, ChecksumAssumption, CommandCells
     DEF WriteAssumption, ChecksumAssumption
<1>3. h = <<bmnet, CommandCell(m.kind), Len(p), Checksum(p)>>
  BY DEF HeaderCells
<1>4. FrameOf(m) = h \o p
  BY DEF FrameOf
<1> HIDE DEF h, p
<1>5. Len(p) \in Nat
  BY <1>1
<1>6. /\ h \in Seq(Nat) /\ Len(h) = 4 /\ h[1] = bmnet
      /\ h[2] = CommandCell(m.kind) /\ h[3] = Len(p) /\ h[4] = Checksum(p)
  BY ONLY <1>2, <1>3, <1>5
<1>7. Joins(FrameOf(m), h, p)
  BY <1>1, <1>4, <1>6, Concat
<1>8. /\ FrameOf(m) \in Seq(Nat) /\ Len(FrameOf(m)) = 4 + Len(p)
      /\ \A i \in 1..4 : FrameOf(m)[i] = h[i]
      /\ \A i \in 1..Len(p) : FrameOf(m)[4 + i] = p[i]
  BY ONLY <1>5, <1>6, <1>7 DEF Joins
<1> QED
  BY <1>1, <1>5, <1>6, <1>8 DEF h, p

(* The two ends agree: a message that was accepted for writing is accepted *)
(* from a frame, and is the message that was written.                      *)
LEMMA FrameReadable ==
  ASSUME NEW m \in Messages, m.kind \in Kinds, Validate(m) = "nil",
         NEW h, h.magic = bmnet, h.command = CommandOf(CommandCell(m.kind)),
         h.length = Len(Payload(m).payload),
         h.checksum = Checksum(Payload(m).payload)
  PROVE  /\ ~TooLarge(h)
         /\ Outcome(h, Payload(m).payload)
              = [msg |-> Transmitted(m), err |-> "nil"]
<1> DEFINE p == Payload(m).payload
           body == Transmitted(m).body
<1>1. Carries(m.kind, p, body)
  BY MessageCarried
<1>2. ~(Len(p) > MaxMessagePayload) /\ ~(Len(p) > MaxPayloadLength(m.kind))
  BY DEF Validate, PayloadTooLarge
<1>3. ~TooLarge(h)
  BY <1>2 DEF TooLarge
<1>4. Transmitted(m) = [kind |-> m.kind, body |-> body]
  BY DEF Transmitted
<1> HIDE DEF p, body
<1>5. CASE m.kind \in HandledCommands
  <2>1. h.command = m.kind
    BY <1>5, CommandCells
  <2>2. m.kind # "object" /\ m.kind # InvalidUTF8
    BY <1>5 DEF HandledCommands, InvalidUTF8
  <2>3. ~Refused(h)
    BY <1>2, <1>5, <2>1, <2>2 DEF Refused, RefusedCommand, p
  <2>4. ~BadObject(h, p) /\ KindOf(h, p) = m.kind
    BY <2>1, <2>2 DEF BadObject, KindOf
  <2>5. ~BadChecksum(h, p)
    BY DEF BadChecksum, p
  <2>6. Parse(h, p) = [msg |-> [kind |-> m.kind, body |-> body], err |-> "nil"]
    BY <1>1, <2>4, <2>5 DEF Parse, Carries
  <2> QED
    BY <1>3, <1>4, <2>3, <2>6 DEF Outcome, p
<1>6. CASE m.kind \in ObjectKinds
  <2>1. h.command = "object"
    BY <1>6, CommandCells
  <2>2. ~Refused(h)
    BY <2>1 DEF Refused, RefusedCommand, InvalidUTF8
  <2>3. /\ p \in Seq(Nat) /\ Len(p) >= 3 /\ p[3] \in ObjectTypes
        /\ ObjectKind[p[3]] = m.kind
    BY <1>1, <1>6 DEF Carries
  <2>4. KindOf(h, p) = m.kind
    BY <2>1, <2>3 DEF KindOf, ObjectPrefixSize
  <2>5. ~BadObject(h, p)
    BY <1>2, <2>3, <2>4 DEF BadObject, ObjectPrefixSize, p
  <2>6. ~BadChecksum(h, p)
    BY DEF BadChecksum, p
  <2>7. Parse(h, p) = [msg |-> [kind |-> m.kind, body |-> body], err |-> "nil"]
    BY <1>1, <2>4, <2>5, <2>6 DEF Parse, Carries
  <2> QED
    BY <1>3, <1>4, <2>2, <2>7 DEF Outcome, p
<1> QED
  BY <1>5, <1>6 DEF Kinds

-----------------------------------------------------------------------------
(* The inductive invariant: how many cells of which frame are behind the   *)
(* point at which the call began.                                          *)

SoFar(n) ==
  /\ wmsg \in Messages /\ Validate(wmsg) = "nil"
  /\ n \in 0..Len(FrameOf(wmsg)) /\ Len(wire) = wstart + n
  /\ \A i \in 1..n : wire[wstart + i] = FrameOf(wmsg)[i]

Untouched == Len(wire) = wstart

WriteInv ==
  /\ WriteTypeOK
  /\ wpc = "header" => SoFar(0)
  /\ wpc = "payload" => SoFar(MessageHeaderSize)
  /\ wpc = "panicked" => Untouched
  /\ wpc = "idle" /\ wret.err \in {"none", "MessageError"} =>
       Untouched /\ wret.n = 0
  /\ wpc = "idle" /\ wret.err = "WriteError" => SoFar(wret.n)
  /\ wpc = "idle" /\ wret.err = "nil" =>
       SoFar(wret.n) /\ wret.n = Len(FrameOf(wmsg))

(* What a Write adds to the wire. *)
LEMMA WireGrows ==
  ASSUME NEW w \in Seq(Nat), NEW c \in Seq(Nat), NEW n \in 0..Len(c)
  PROVE  LET x == w \o SubSeq(c, 1, n)
         IN  /\ x \in Seq(Nat) /\ Len(x) = Len(w) + n
             /\ \A i \in 1..Len(w) : x[i] = w[i]
             /\ \A i \in 1..n : x[Len(w) + i] = c[i]
<1> DEFINE s == SubSeq(c, 0 + 1, 0 + n)
           x == w \o s
<1>1. s \in Seq(Nat) /\ Len(s) = n /\ \A i \in 1..n : s[i] = c[0 + i]
  BY Cut
<1>2. s = SubSeq(c, 1, n)
  OBVIOUS
<1> HIDE DEF s
<1>3. Joins(x, w, s)
  BY <1>1, Concat
<1> HIDE DEF x
<1>4. /\ x \in Seq(Nat) /\ Len(x) = Len(w) + n
      /\ \A i \in 1..Len(w) : x[i] = w[i]
      /\ \A i \in 1..n : x[Len(w) + i] = c[i]
  BY ONLY <1>1, <1>3, SMTT(30) DEF Joins
<1> QED
  BY <1>2, <1>4 DEF x

(* The Write of the header, whole or cut short. *)
LEMMA HeaderGrows ==
  ASSUME WriteTypeOK, SoFar(0), NEW n \in 0..MessageHeaderSize,
         wire' = wire \o SubSeq(HeaderCells(wmsg), 1, n), UNCHANGED <<wmsg, wstart>>
  PROVE  SoFar(n)' /\ wire' \in Seq(Nat) /\ wstart' \in 0..Len(wire')
<1> DEFINE f == FrameOf(wmsg)
           h == HeaderCells(wmsg)
<1>1. /\ wire \in Seq(Nat) /\ wstart = Len(wire) /\ Len(wire) \in Nat
      /\ wmsg \in Messages /\ Validate(wmsg) = "nil" /\ wstart \in Nat
  BY DEF WriteTypeOK, SoFar
<1>2. /\ h \in Seq(Nat) /\ Len(h) = 4 /\ f \in Seq(Nat) /\ Len(f) >= 4
      /\ \A i \in 1..4 : f[i] = h[i]
  <2> DEFINE p == Payload(wmsg).payload
  <2>1. /\ h \in Seq(Nat) /\ Len(h) = 4 /\ f \in Seq(Nat)
        /\ Len(f) = 4 + Len(p) /\ Len(p) \in Nat
        /\ \A i \in 1..4 : f[i] = h[i]
    BY ONLY <1>1, FrameCells
  <2> HIDE DEF p, f, h
  <2> QED
    BY ONLY <2>1
<1>3. n \in 0..Len(h) /\ n \in Nat /\ n \in 0..4
  BY <1>2 DEF MessageHeaderSize
<1> HIDE DEF f, h
<1>4. /\ wire' \in Seq(Nat) /\ Len(wire') = Len(wire) + n
      /\ \A i \in 1..n : wire'[Len(wire) + i] = h[i]
  <2>1. wire' = wire \o SubSeq(h, 1, n)
    BY DEF h
  <2> QED
    BY ONLY <1>1, <1>2, <1>3, <2>1, WireGrows
<1>5. \A i \in 1..n : wire'[wstart + i] = f[i]
  <2> SUFFICES ASSUME NEW i \in 1..n
               PROVE  wire'[wstart + i] = f[i]
    OBVIOUS
  <2>1. i \in 1..4
    BY ONLY <1>3
  <2>2. wire'[Len(wire) + i] = h[i] /\ f[i] = h[i]
    BY ONLY <1>2, <1>4, <2>1
  <2> QED
    BY ONLY <1>1, <2>2
<1>6. n \in 0..Len(f) /\ wstart \in 0..Len(wire')
  BY ONLY <1>1, <1>2, <1>3, <1>4
<1> QED
  BY <1>1, <1>4, <1>5, <1>6 DEF SoFar, f

(* The Write of the payload, whole or cut short. *)
LEMMA PayloadGrows ==
  ASSUME WriteTypeOK, SoFar(MessageHeaderSize),
         NEW n \in 0..Len(Payload(wmsg).payload),
         wire' = wire \o SubSeq(Payload(wmsg).payload, 1, n),
         UNCHANGED <<wmsg, wstart>>
  PROVE  SoFar(MessageHeaderSize + n)' /\ wire' \in Seq(Nat)
         /\ wstart' \in 0..Len(wire')
<1> DEFINE f == FrameOf(wmsg)
           p == Payload(wmsg).payload
<1>1. /\ wire \in Seq(Nat) /\ Len(wire) = wstart + 4 /\ Len(wire) \in Nat
      /\ wmsg \in Messages /\ Validate(wmsg) = "nil" /\ wstart \in Nat
      /\ \A i \in 1..4 : wire[wstart + i] = f[i]
  BY DEF WriteTypeOK, SoFar, MessageHeaderSize
<1>2. /\ p \in Seq(Nat) /\ Len(p) \in Nat /\ f \in Seq(Nat)
      /\ Len(f) = 4 + Len(p) /\ \A i \in 1..Len(p) : f[4 + i] = p[i]
  BY <1>1, FrameCells
<1>3. n \in 0..Len(p) /\ n \in Nat
  BY <1>2
<1> HIDE DEF f, p
<1>4. /\ wire' \in Seq(Nat) /\ Len(wire') = Len(wire) + n
      /\ \A i \in 1..Len(wire) : wire'[i] = wire[i]
      /\ \A i \in 1..n : wire'[Len(wire) + i] = p[i]
  <2>1. wire' = wire \o SubSeq(p, 1, n)
    BY DEF p
  <2> QED
    BY ONLY <1>1, <1>2, <1>3, <2>1, WireGrows, ZenonT(40)
<1>5. ASSUME NEW i \in 1..(4 + n)
      PROVE  wire'[wstart + i] = f[i]
  <2>1. CASE i <= 4
    <3>1. i \in 1..4 /\ wstart + i \in 1..Len(wire)
      BY ONLY <1>1, <1>3, <2>1
    <3> QED
      BY ONLY <1>1, <1>4, <3>1
  <2>2. CASE i > 4
    <3> DEFINE j == i - 4
    <3>1. /\ j \in 1..n /\ j \in 1..Len(p) /\ wstart + i = Len(wire) + j
          /\ i = 4 + j
      BY ONLY <1>1, <1>2, <1>3, <2>2
    <3> HIDE DEF j
    <3> QED
      BY ONLY <1>2, <1>4, <3>1
  <2> QED
    BY ONLY <1>3, <2>1, <2>2
<1>6. /\ 4 + n \in 0..Len(f) /\ wstart \in 0..Len(wire')
      /\ Len(wire') = wstart + (4 + n)
  BY ONLY <1>1, <1>2, <1>3, <1>4
<1>7. \A i \in 1..(4 + n) : wire'[wstart + i] = f[i]
  BY ONLY <1>5
<1> QED
  BY <1>1, <1>4, <1>6, <1>7 DEF SoFar, f, MessageHeaderSize

LEMMA WriterInitInv ==
  ASSUME WriterInit
  PROVE  WriteInv
<1>1. Len(wire) = 0 /\ wire \in Seq(Nat)
  BY DEF WriterInit
<1>2. /\ wpc = "idle" /\ wmsg = NothingToWrite /\ wstart = 0
      /\ wret.n = 0 /\ wret.err = "none" /\ closed = FALSE
  BY DEF WriterInit, WriteInit
<1>3. WriteTypeOK
  <2>1. closed \in BOOLEAN
    BY ONLY <1>2, Zenon
  <2>2. wstart \in 0..Len(wire) /\ wret.n \in Nat
    BY ONLY <1>1, <1>2
  <2> QED
    BY ONLY <1>1, <1>2, <2>1, <2>2, Zenon DEF WriteTypeOK
<1> QED
  BY ONLY <1>1, <1>2, <1>3 DEF WriteInv, Untouched

(* A new call, refused, panicking or accepted, finds the wire as the last  *)
(* one left it.                                                            *)
LEMMA SubmitInv ==
  ASSUME WriteInv, SubmitRefused \/ SubmitPanics \/ SubmitAccepted
  PROVE  WriteInv'
<1>1. PICK m \in Messages :
        /\ Submit(m)
        /\ \/ Validate(m) = "MessageError" /\ WriteReturn(0, "MessageError")
           \/ wpc' = "panicked" /\ UNCHANGED wret
           \/ Validate(m) = "nil" /\ wpc' = "header" /\ UNCHANGED wret
  BY DEF SubmitRefused, SubmitPanics, SubmitAccepted
<1>2. /\ wire' = wire /\ closed' = closed /\ wmsg' = m /\ wstart' = Len(wire)
  BY <1>1 DEF Submit
<1>3. wire \in Seq(Nat) /\ Len(wire) \in Nat /\ closed \in BOOLEAN
  BY DEF WriteInv, WriteTypeOK
<1>4. wstart' \in 0..Len(wire') /\ Untouched'
  BY <1>2, <1>3 DEF Untouched
<1>5. CASE WriteReturn(0, "MessageError")
  <2>1. wpc' = "idle" /\ wret'.n = 0 /\ wret'.err = "MessageError"
    BY <1>5 DEF WriteReturn
  <2>2. WriteTypeOK'
    BY <1>2, <1>3, <1>4, <2>1 DEF WriteTypeOK
  <2> QED
    BY <1>4, <2>1, <2>2 DEF WriteInv
<1>6. CASE wpc' = "panicked" /\ UNCHANGED wret
  <2>1. WriteTypeOK'
    BY <1>2, <1>3, <1>4, <1>6 DEF WriteTypeOK, WriteInv
  <2> QED
    BY <1>4, <1>6, <2>1 DEF WriteInv
<1>7. CASE Validate(m) = "nil" /\ wpc' = "header" /\ UNCHANGED wret
  <2>1. WriteTypeOK'
    BY <1>2, <1>3, <1>4, <1>7 DEF WriteTypeOK, WriteInv
  <2>2. FrameOf(m) \in Seq(Nat)
    BY <1>7, FrameCells
  <2>3. 0 \in 0..Len(FrameOf(m))
    BY <2>2
  <2>4. SoFar(0)'
    BY <1>2, <1>3, <1>7, <2>3 DEF SoFar
  <2> QED
    BY <1>7, <2>1, <2>4 DEF WriteInv
<1> QED
  BY <1>1, <1>5, <1>6, <1>7

LEMMA HeaderWriteInv ==
  ASSUME WriteInv, HeaderWritten \/ HeaderWriteFails
  PROVE  WriteInv'
<1>1. WriteTypeOK /\ SoFar(0)
  BY DEF WriteInv, HeaderWritten, HeaderWriteFails
<1>2. PICK n \in 0..MessageHeaderSize :
        /\ wire' = wire \o SubSeq(HeaderCells(wmsg), 1, n)
        /\ \/ n = MessageHeaderSize /\ wpc' = "payload" /\ UNCHANGED wret
           \/ WriteReturn(n, "WriteError")
  <2>1. MessageHeaderSize \in 0..MessageHeaderSize
    BY DEF MessageHeaderSize
  <2> QED
    BY <2>1 DEF HeaderWritten, HeaderWriteFails, Write
<1>3. UNCHANGED <<closed, wmsg, wstart>>
  BY DEF HeaderWritten, HeaderWriteFails
<1>4. SoFar(n)' /\ wire' \in Seq(Nat) /\ wstart' \in 0..Len(wire')
  BY <1>1, <1>2, <1>3, HeaderGrows
<1>5. CASE n = MessageHeaderSize /\ wpc' = "payload" /\ UNCHANGED wret
  <2>1. WriteTypeOK'
    BY <1>1, <1>3, <1>4, <1>5 DEF WriteTypeOK
  <2> QED
    BY <1>4, <1>5, <2>1 DEF WriteInv
<1>6. CASE WriteReturn(n, "WriteError")
  <2>1. wpc' = "idle" /\ wret'.n = n /\ wret'.err = "WriteError"
    BY <1>6 DEF WriteReturn
  <2>2. n \in Nat
    BY DEF MessageHeaderSize
  <2>3. WriteTypeOK'
    BY <1>1, <1>3, <1>4, <2>1, <2>2 DEF WriteTypeOK
  <2>4. SoFar(wret.n)'
    BY <1>4, <2>1 DEF SoFar
  <2> QED
    BY <2>1, <2>3, <2>4 DEF WriteInv
<1> QED
  BY <1>2, <1>5, <1>6

LEMMA PayloadWriteInv ==
  ASSUME WriteInv, PayloadWritten \/ PayloadWriteFails
  PROVE  WriteInv'
<1> DEFINE p == Payload(wmsg).payload
<1>1. WriteTypeOK /\ SoFar(MessageHeaderSize)
  BY DEF WriteInv, PayloadWritten, PayloadWriteFails
<1>2. /\ p \in Seq(Nat) /\ Len(p) \in Nat
      /\ Len(FrameOf(wmsg)) = MessageHeaderSize + Len(p)
  BY <1>1, FrameCells DEF SoFar, MessageHeaderSize
<1>3. PICK n \in 0..Len(p) :
        /\ wire' = wire \o SubSeq(p, 1, n)
        /\ \/ n = Len(p) /\ WriteReturn(MessageHeaderSize + n, "nil")
           \/ WriteReturn(MessageHeaderSize + n, "WriteError")
  <2>1. Len(p) \in 0..Len(p)
    BY <1>2
  <2> QED
    BY <2>1 DEF PayloadWritten, PayloadWriteFails, Write
<1>4. UNCHANGED <<closed, wmsg, wstart>>
  BY DEF PayloadWritten, PayloadWriteFails
<1>5. SoFar(MessageHeaderSize + n)' /\ wire' \in Seq(Nat)
      /\ wstart' \in 0..Len(wire')
  BY <1>1, <1>3, <1>4, PayloadGrows
<1>6. MessageHeaderSize + n \in Nat
  BY <1>2 DEF MessageHeaderSize
<1>7. /\ wpc' = "idle" /\ wret'.n = MessageHeaderSize + n
      /\ wret'.err \in {"nil", "WriteError"}
      /\ wret'.err = "nil" => n = Len(p)
  BY <1>3 DEF WriteReturn
<1>8. WriteTypeOK'
  BY <1>1, <1>4, <1>5, <1>6, <1>7 DEF WriteTypeOK
<1>9. SoFar(wret.n)'
  BY <1>5, <1>7 DEF SoFar
<1>10. wret'.err = "nil" => wret'.n = Len(FrameOf(wmsg)')
  BY <1>2, <1>4, <1>7
<1> QED
  BY <1>7, <1>8, <1>9, <1>10 DEF WriteInv

LEMMA WriterStutters ==
  ASSUME WriteInv, UNCHANGED <<wire, writeVars>>, closed' \in BOOLEAN
  PROVE  WriteInv'
  BY DEF WriteInv, WriteTypeOK, SoFar, Untouched, writeVars

LEMMA WriteNextInv == WriteInv /\ [WriteNext]_WriterVars => WriteInv'
<1> SUFFICES ASSUME WriteInv, [WriteNext]_WriterVars
             PROVE  WriteInv'
  OBVIOUS
<1>1. CASE SubmitRefused \/ SubmitPanics \/ SubmitAccepted
  BY <1>1, SubmitInv
<1>2. CASE HeaderWritten \/ HeaderWriteFails
  BY <1>2, HeaderWriteInv
<1>3. CASE PayloadWritten \/ PayloadWriteFails
  BY <1>3, PayloadWriteInv
<1>4. CASE WriterCloses
  BY <1>4, WriterStutters DEF WriterCloses
<1>5. CASE UNCHANGED WriterVars
  <2>1. closed' \in BOOLEAN
    BY <1>5 DEF WriterVars, WriteInv, WriteTypeOK
  <2> QED
    BY <1>5, <2>1, WriterStutters DEF WriterVars
<1> QED
  BY <1>1, <1>2, <1>3, <1>4, <1>5 DEF WriteNext, WriteStep

-----------------------------------------------------------------------------
(* The invariants of a call *)

LEMMA WriterAlways == WriterSpec => []WriteInv
<1>1. WriterInit => WriteInv
  BY WriterInitInv
<1> QED
  BY <1>1, WriteNextInv, PTL DEF WriterSpec

(* The cells of a call, cut out of the wire. *)
LEMMA ContributionCells ==
  ASSUME WriteTypeOK
  PROVE  /\ Contribution \in Seq(Nat) /\ Len(Contribution) = Len(wire) - wstart
         /\ \A i \in 1..(Len(wire) - wstart) : Contribution[i] = wire[wstart + i]
<1> DEFINE n == Len(wire) - wstart
<1>1. wire \in Seq(Nat) /\ Len(wire) \in Nat /\ wstart \in Nat /\ n \in Nat
      /\ wstart + n = Len(wire)
  BY DEF WriteTypeOK
<1>2. Contribution = SubSeq(wire, wstart + 1, wstart + n)
  BY <1>1 DEF Contribution
<1> HIDE DEF n
<1>3. /\ SubSeq(wire, wstart + 1, wstart + n) \in Seq(Nat)
      /\ Len(SubSeq(wire, wstart + 1, wstart + n)) = n
      /\ \A i \in 1..n :
           SubSeq(wire, wstart + 1, wstart + n)[i] = wire[wstart + i]
  BY <1>1, Cut
<1> QED
  BY <1>2, <1>3 DEF n

(* With n cells of a frame on the wire, the contribution is its prefix. *)
LEMMA ContributionIsPrefix ==
  ASSUME WriteTypeOK, NEW n, SoFar(n)
  PROVE  /\ Len(Contribution) = n /\ n \in Nat
         /\ Contribution = SubSeq(FrameOf(wmsg), 1, n)
         /\ n = Len(FrameOf(wmsg)) => Contribution = FrameOf(wmsg)
<1> DEFINE c == Contribution
           f == FrameOf(wmsg)
           g == SubSeq(f, 0 + 1, 0 + n)
<1>1. /\ wmsg \in Messages /\ Validate(wmsg) = "nil"
      /\ n \in 0..Len(f) /\ Len(wire) = wstart + n
      /\ \A i \in 1..n : wire[wstart + i] = f[i]
  BY DEF SoFar
<1>2. f \in Seq(Nat)
  BY <1>1, FrameCells
<1>3. n \in Nat /\ Len(wire) - wstart = n /\ 0 + n <= Len(f)
  BY <1>1, <1>2 DEF WriteTypeOK
<1>4. /\ c \in Seq(Nat) /\ Len(c) = n
      /\ \A i \in 1..n : c[i] = wire[wstart + i]
  BY <1>3, ContributionCells
<1> HIDE DEF c, f
<1>5. /\ g \in Seq(Nat) /\ Len(g) = n /\ \A i \in 1..n : g[i] = f[0 + i]
  BY ONLY <1>2, <1>3, Cut
<1>6. g = SubSeq(f, 1, n)
  BY ONLY <1>3
<1> HIDE DEF g
<1>7. c = g
  <2>1. \A i \in 1..n : c[i] = g[i]
    BY ONLY <1>1, <1>3, <1>4, <1>5
  <2> QED
    BY ONLY <1>4, <1>5, <2>1, SameCells
<1>8. n = Len(f) => c = f
  <2>1. \A i \in 1..n : c[i] = f[i]
    BY ONLY <1>1, <1>4
  <2> QED
    BY ONLY <1>2, <1>4, <2>1, SameCells
<1> QED
  BY <1>3, <1>4, <1>6, <1>7, <1>8 DEF c, f

(* WriteMessageN keeps its variables in their types: what it puts on the   *)
(* wire is always cells, of every message that the validations let pass.   *)
THEOREM WriteTypes == WriterSpec => []WriteTypeOK
<1>1. WriteInv => WriteTypeOK
  BY DEF WriteInv
<1> QED
  BY <1>1, WriterAlways, PTL

(* The count WriteMessageN returns is the number of cells that the call    *)
(* put on the wire, whichever of its two Writes failed and wherever.       *)
THEOREM WriteCounts == WriterSpec => []WriteCountAccounts
<1>1. ASSUME WriteInv
      PROVE  WriteCountAccounts
  <2> SUFFICES ASSUME wpc = "idle", wret.err # "none"
               PROVE  wret.n = Len(Contribution)
    BY DEF WriteCountAccounts
  <2>1. WriteTypeOK
    BY <1>1 DEF WriteInv
  <2>2. CASE wret.err = "MessageError"
    <3>1. Len(wire) = wstart /\ wret.n = 0
      BY <1>1, <2>2 DEF WriteInv, Untouched
    <3>2. Len(wire) \in Nat
      BY <2>1 DEF WriteTypeOK
    <3>3. Len(Contribution) = Len(wire) - wstart
      BY <2>1, ContributionCells
    <3> QED
      BY ONLY <3>1, <3>2, <3>3
  <2>3. CASE wret.err \in {"nil", "WriteError"}
    <3>1. SoFar(wret.n)
      BY <1>1, <2>3 DEF WriteInv
    <3> QED
      BY <2>1, <3>1, ContributionIsPrefix
  <2> QED
    BY <2>1, <2>2, <2>3 DEF WriteTypeOK
<1> QED
  BY <1>1, WriterAlways, PTL

(* A call of WriteMessageN puts a prefix of one frame on the wire, the     *)
(* whole of it when it returns no error, and nothing of a message that it  *)
(* refuses or that makes Encode panic.                                     *)
THEOREM WritesFrames == WriterSpec => []WritesOneFrame
<1>1. ASSUME WriteInv
      PROVE  WritesOneFrame
  <2>1. WriteTypeOK
    BY <1>1 DEF WriteInv
  <2>2. ASSUME Contribution # <<>>
        PROVE  /\ Validate(wmsg) = "nil"
               /\ Contribution = SubSeq(FrameOf(wmsg), 1, Len(Contribution))
    <3>1. ~Untouched
      <4>1. SUFFICES ASSUME Untouched PROVE FALSE
        OBVIOUS
      <4>2. Len(wire) \in Nat
        BY <2>1 DEF WriteTypeOK
      <4>3. Contribution \in Seq(Nat) /\ Len(Contribution) = Len(wire) - wstart
        BY <2>1, ContributionCells
      <4>4. Len(Contribution) = 0
        BY <4>1, <4>2, <4>3 DEF Untouched
      <4> QED
        BY <2>2, <4>3, <4>4
    <3>2. \E n : SoFar(n)
      BY <1>1, <2>1, <3>1 DEF WriteInv, WriteTypeOK
    <3>3. PICK n : SoFar(n)
      BY <3>2
    <3>4. Validate(wmsg) = "nil"
      BY <3>3 DEF SoFar
    <3> QED
      BY <2>1, <3>3, <3>4, ContributionIsPrefix
  <2>3. wpc = "idle" /\ wret.err = "nil" => Contribution = FrameOf(wmsg)
    BY <1>1, <2>1, ContributionIsPrefix DEF WriteInv
  <2> QED
    BY <2>2, <2>3 DEF WritesOneFrame
<1> QED
  BY <1>1, WriterAlways, PTL

(* What WriteMessageN wrote without an error is a frame that ReadMessageN  *)
(* accepts, and the message it returns is the one that was written, up to  *)
(* what the protocol does not transmit: for every message of every type,   *)
(* and every value of the limits.                                          *)
THEOREM WrittenReadable == WriterSpec => []WrittenIsReadable
<1>1. ASSUME WriteInv
      PROVE  WrittenIsReadable
  <2> SUFFICES ASSUME wpc = "idle", wret.err = "nil", wmsg.kind \in Kinds
               PROVE  LET h == HeaderAt(wstart)
                      IN  /\ ~TooLarge(h)
                          /\ h.length = Len(wire) - wstart - MessageHeaderSize
                          /\ Outcome(h, Cells(wstart + MessageHeaderSize,
                                              h.length))
                               = [msg |-> Transmitted(wmsg), err |-> "nil"]
    BY DEF WrittenIsReadable
  <2> DEFINE f == FrameOf(wmsg)
             p == Payload(wmsg).payload
             c == HeaderCells(wmsg)
             s == Cells(wstart, MessageHeaderSize)
             h == HeaderAt(wstart)
  <2>1. WriteTypeOK /\ SoFar(wret.n) /\ wret.n = Len(f)
    BY <1>1 DEF WriteInv
  <2>2. /\ wmsg \in Messages /\ Validate(wmsg) = "nil"
        /\ Len(wire) = wstart + Len(f)
        /\ \A i \in 1..Len(f) : wire[wstart + i] = f[i]
    BY <2>1 DEF SoFar
  <2>3. /\ c \in Seq(Nat) /\ Len(c) = 4 /\ c[1] = bmnet
        /\ c[2] = CommandCell(wmsg.kind) /\ c[3] = Len(p) /\ c[4] = Checksum(p)
        /\ p \in Seq(Nat) /\ Len(p) \in Nat
        /\ f \in Seq(Nat) /\ Len(f) = 4 + Len(p)
        /\ \A i \in 1..4 : f[i] = c[i]
        /\ \A i \in 1..Len(p) : f[4 + i] = p[i]
    BY <2>2, FrameCells
  <2>4. wire \in Seq(Nat) /\ wstart \in Nat
    BY <2>1 DEF WriteTypeOK
  <2> HIDE DEF f, p, c
  <2>5. s \in Seq(Nat) /\ Len(s) = 4 /\ \A i \in 1..4 : s[i] = wire[wstart + i]
    <3>1. wstart + 4 <= Len(wire)
      BY ONLY <2>2, <2>3, <2>4
    <3> QED
      BY ONLY <2>4, <3>1, Cut DEF Cells, MessageHeaderSize
  <2>6. h = HeaderOf(s)
    BY DEF HeaderAt
  <2> HIDE DEF s
  <2>7. s[1] = c[1] /\ s[2] = c[2] /\ s[3] = c[3] /\ s[4] = c[4]
    <3>1. \A i \in 1..4 : i \in 1..Len(f)
      BY ONLY <2>3
    <3>2. \A i \in 1..4 : s[i] = c[i]
      BY ONLY <2>2, <2>3, <2>5, <3>1
    <3> QED
      BY ONLY <3>2
  <2>8. /\ h.magic = bmnet /\ h.command = CommandOf(CommandCell(wmsg.kind))
        /\ h.length = Len(p) /\ h.checksum = Checksum(p)
    BY ONLY <2>3, <2>6, <2>7 DEF HeaderOf
  <2> HIDE DEF h
  <2>9. ~TooLarge(h) /\ Outcome(h, p) = [msg |-> Transmitted(wmsg), err |-> "nil"]
    BY <2>2, <2>8, FrameReadable DEF p
  <2>10. Cells(wstart + MessageHeaderSize, h.length) = p
    <3> DEFINE at == wstart + 4
    <3>1. at \in Nat /\ at + Len(p) <= Len(wire)
      <4>1. /\ Len(wire) = wstart + Len(f) /\ Len(f) = 4 + Len(p)
            /\ Len(p) \in Nat /\ wstart \in Nat
        BY ONLY <2>2, <2>3, <2>4
      <4> QED
        BY ONLY <4>1
    <3>2. ASSUME NEW i \in 1..Len(p)
          PROVE  wire[at + i] = p[i]
      <4>1. 4 + i \in 1..Len(f) /\ at + i = wstart + (4 + i)
        BY ONLY <2>3, <2>4
      <4> QED
        BY ONLY <2>2, <2>3, <4>1
    <3>3. Cells(at, Len(p)) = SubSeq(wire, at + 1, at + Len(p))
      BY DEF Cells
    <3> HIDE DEF at
    <3>4. SubSeq(wire, at + 1, at + Len(p)) = p
      BY ONLY <2>3, <2>4, <3>1, <3>2, CutIs
    <3> QED
      BY <2>8, <3>3, <3>4 DEF at, MessageHeaderSize
  <2>11. h.length = Len(wire) - wstart - MessageHeaderSize
    BY ONLY <2>2, <2>3, <2>4, <2>8 DEF MessageHeaderSize
  <2> QED
    BY <2>9, <2>10, <2>11 DEF h
<1> QED
  BY <1>1, WriterAlways, PTL

=============================================================================
