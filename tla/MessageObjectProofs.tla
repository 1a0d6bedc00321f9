------------------------ MODULE MessageObjectProofs -------------------------
(***************************************************************************)
(* A message in the hands of a program keeps its shape and its limits,     *)
(* whichever calls are made on it and whichever payloads it decodes, and   *)
(* what Encode and the Add methods promise of it follows.                  *)
(*                                                                         *)
(* The ...Decoded lemmas say what a decoder makes of any receiver, field   *)
(* by field, wherever the payload ends.                                    *)
(***************************************************************************)
EXTENDS MessageObject, CodecProofs

LOCAL INSTANCE SequencesExt

-----------------------------------------------------------------------------
(* version *)

(* Four cells of a payload are a net address. *)
LEMMA CellsAreAddress ==
  ASSUME NEW s \in Seq(Nat), Len(s) = 4
  PROVE  s \in NetAddress
<1>1. s = <<s[1], s[2], s[3], s[4]>>
  BY FourCells
<1>2. s[1] \in Nat /\ s[2] \in Nat /\ s[3] \in Nat /\ s[4] \in Nat
  BY ONLY s \in Seq(Nat), Len(s) = 4, SMTT(30)
<1>3. <<s[1], s[2], s[3], s[4]>> \in NetAddress
  BY <1>2 DEF NetAddress
<1> QED
  BY <1>1, <1>3, Zenon

(* So are three, behind the zero time. *)
LEMMA CellsAreUnstamped ==
  ASSUME NEW p \in Seq(Nat)
  PROVE  /\ ~(Len(p) < 6) => /\ ReadNetAddress(p, 4, FALSE) \in NetAddress
                             /\ ReadNetAddress(p, 4, FALSE)
                                  = <<ZeroTime, p[4], p[5], p[6]>>
         /\ ~(Len(p) < 9) => /\ ReadNetAddress(p, 7, FALSE) \in NetAddress
                             /\ ReadNetAddress(p, 7, FALSE)
                                  = <<ZeroTime, p[7], p[8], p[9]>>
<1>1. ASSUME NEW a \in Nat, NEW b \in Nat, NEW c \in Nat
      PROVE  <<ZeroTime, a, b, c>> \in NetAddress
  BY CodecAssumption DEF CodecAssumption, NetAddress
<1>2. ASSUME ~(Len(p) < 6)
      PROVE  /\ ReadNetAddress(p, 4, FALSE) = <<ZeroTime, p[4], p[5], p[6]>>
             /\ p[4] \in Nat /\ p[5] \in Nat /\ p[6] \in Nat
  <2>0. p \in Seq(Nat) /\ 4 \in Nat /\ 6 <= Len(p)
    BY <1>2
  <2>1. 4 >= 1 /\ 5 = 4 + 1 /\ 6 = 4 + 2
    OBVIOUS
  <2>2. p[4] \in Nat /\ p[5] \in Nat /\ p[6] \in Nat
    BY <2>0
  <2>3. ReadNetAddress(p, 4, FALSE) = <<ZeroTime, p[4], p[5], p[6]>>
    BY ONLY <2>0, <2>1, UnstampedRead, Zenon
  <2> QED
    BY <2>2, <2>3
<1>3. ASSUME ~(Len(p) < 9)
      PROVE  /\ ReadNetAddress(p, 7, FALSE) = <<ZeroTime, p[7], p[8], p[9]>>
             /\ p[7] \in Nat /\ p[8] \in Nat /\ p[9] \in Nat
  <2>0. p \in Seq(Nat) /\ 7 \in Nat /\ 9 <= Len(p)
    BY <1>3
  <2>1. 7 >= 1 /\ 8 = 7 + 1 /\ 9 = 7 + 2
    OBVIOUS
  <2>2. p[7] \in Nat /\ p[8] \in Nat /\ p[9] \in Nat
    BY <2>0
  <2>3. ReadNetAddress(p, 7, FALSE) = <<ZeroTime, p[7], p[8], p[9]>>
    BY ONLY <2>0, <2>1, UnstampedRead, Zenon
  <2> QED
    BY <2>2, <2>3
<1> QED
  BY <1>1, <1>2, <1>3, Zenon

(* The fields of a version message. *)
VersionIs(m, a, b, c, d, e, f, agent, streams) ==
  /\ m \in MsgVersion(Time)
  /\ m.protocolVersion = a /\ m.services = b /\ m.timestamp = c
  /\ m.addrYou = d /\ m.addrMe = e /\ m.nonce = f
  /\ m.userAgent = agent /\ m.streamNumbers = streams

LEMMA VersionAssigned ==
  ASSUME NEW m \in MsgVersion(Time), NEW a \in Nat, NEW b \in Nat, NEW c \in Time,
         NEW d \in NetAddress, NEW e \in NetAddress, NEW f \in Nat, NEW new,
         new = [m EXCEPT !.protocolVersion = a, !.services = b,
                         !.timestamp = c, !.addrYou = d, !.addrMe = e,
                         !.nonce = f]
  PROVE  VersionIs(new, a, b, c, d, e, f, m.userAgent, m.streamNumbers)
  BY DEF MsgVersion, VersionIs

(* What a version decoder has made of its receiver before the user agent.  *)
LEMMA VersionFixedFields ==
  ASSUME NEW old \in MsgVersion(Time), NEW p \in Seq(Nat)
  PROVE  VersionIs(VersionFixed(old, p),
           Field(p, 1, old.protocolVersion), Field(p, 2, old.services),
           IF Len(p) < 3 THEN old.timestamp ELSE <<p[3], 0>>,
           IF Len(p) < 6 THEN old.addrYou ELSE ReadNetAddress(p, 4, FALSE),
           IF Len(p) < 9 THEN old.addrMe ELSE ReadNetAddress(p, 7, FALSE),
           Field(p, 10, old.nonce), old.userAgent, old.streamNumbers)
<1> DEFINE a == Field(p, 1, old.protocolVersion)
           b == Field(p, 2, old.services)
           c == IF Len(p) < 3 THEN old.timestamp ELSE <<p[3], 0>>
           d == IF Len(p) < 6 THEN old.addrYou ELSE ReadNetAddress(p, 4, FALSE)
           e == IF Len(p) < 9 THEN old.addrMe ELSE ReadNetAddress(p, 7, FALSE)
           f == Field(p, 10, old.nonce)
           new == VersionFixed(old, p)
<1>1. /\ old.protocolVersion \in Nat /\ old.services \in Nat
      /\ old.timestamp \in Time /\ old.addrYou \in NetAddress
      /\ old.addrMe \in NetAddress /\ old.nonce \in Nat
  BY DEF MsgVersion
<1>2. a \in Nat /\ b \in Nat /\ f \in Nat
  BY <1>1 DEF Field
<1>3. c \in Time
  BY <1>1 DEF Time
<1>4. d \in NetAddress /\ e \in NetAddress
  <2>1. ~(Len(p) < 6) => ReadNetAddress(p, 4, FALSE) \in NetAddress
    BY CellsAreUnstamped, Zenon
  <2>2. ~(Len(p) < 9) => ReadNetAddress(p, 7, FALSE) \in NetAddress
    BY CellsAreUnstamped, Zenon
  <2> QED
    BY <1>1, <2>1, <2>2
<1>5. new = [old EXCEPT !.protocolVersion = a, !.services = b,
                        !.timestamp = c, !.addrYou = d, !.addrMe = e,
                        !.nonce = f]
  BY DEF VersionFixed
<1> HIDE DEF a, b, c, d, e, f, new
<1>6. VersionIs(new, a, b, c, d, e, f, old.userAgent, old.streamNumbers)
  BY <1>2, <1>3, <1>4, <1>5, VersionAssigned, Zenon
<1> QED
  BY <1>6 DEF a, b, c, d, e, f, new

(* Its user agent is assigned when it was read whole and validated, the    *)
(* stream numbers when their count was read and can be allocated.          *)
Listed(p) ==
  AgentErr(p) = "nil" /\ ~(Len(p) < 12 + p[11]) /\ ~Huge(p, 12 + p[11])

AgentOf(p) == SubSeq(p, 12, 11 + p[11])

StreamsOf(p) == [i \in 1..p[12 + p[11]] |-> VarInt(p, 12 + p[11] + i)]

VersionErr(p) ==
  IF AgentErr(p) # "nil" THEN AgentErr(p)
  ELSE IF Len(p) < 12 + p[11] THEN "EOF"
  ELSE IF Huge(p, 12 + p[11]) THEN "panic"
  ELSE ErrIfShort(p, 12 + p[11] + p[12 + p[11]])

LEMMA VarIntType ==
  ASSUME NEW p \in Seq(Nat), NEW i \in Nat, i >= 1
  PROVE  VarInt(p, i) \in Nat
  BY DEF VarInt, Field

LEMMA AgentType ==
  ASSUME NEW p \in Seq(Nat), AgentErr(p) = "nil"
  PROVE  /\ AgentOf(p) \in Seq(Nat) /\ Len(AgentOf(p)) = p[11]
         /\ p[11] \in Nat /\ 11 + p[11] <= Len(p)
         /\ p[11] <= MaxUserAgentLen /\ p[11] <= MaxMessagePayload
         /\ \A i \in 1..p[11] : AgentOf(p)[i] = p[11 + i]
<1>1. /\ ~(Len(p) < 11) /\ ~(Len(p) < 11 + p[11])
      /\ ~(p[11] > MaxUserAgentLen) /\ ~(p[11] > MaxMessagePayload)
  BY DEF AgentErr
<1>2. p[11] \in Nat /\ MaxUserAgentLen \in Nat /\ MaxMessagePayload \in Nat
  BY <1>1, WireAssumption DEF WireAssumption
<1>3. 11 + p[11] <= Len(p) /\ p[11] <= MaxUserAgentLen /\ p[11] <= MaxMessagePayload
  BY <1>1, <1>2
<1>4. /\ SubSeq(p, 11 + 1, 11 + p[11]) \in Seq(Nat)
      /\ Len(SubSeq(p, 11 + 1, 11 + p[11])) = p[11]
      /\ \A i \in 1..p[11] : SubSeq(p, 11 + 1, 11 + p[11])[i] = p[11 + i]
  BY <1>2, <1>3, Cut, SMTT(30)
<1>5. AgentOf(p) = SubSeq(p, 11 + 1, 11 + p[11])
  BY DEF AgentOf
<1> QED
  BY <1>2, <1>3, <1>4, <1>5, Zenon

LEMMA StreamsType ==
  ASSUME NEW p \in Seq(Nat), Listed(p)
  PROVE  /\ StreamsOf(p) \in Seq(Nat) /\ Len(StreamsOf(p)) = p[12 + p[11]]
         /\ p[12 + p[11]] \in Nat /\ 12 + p[11] \in Nat
<1> DEFINE at == 12 + p[11]
<1>1. p[11] \in Nat /\ ~(Len(p) < at)
  BY AgentType DEF Listed
<1>2. at \in Nat /\ p[at] \in Nat
  BY <1>1
<1>3. StreamsOf(p) = [i \in 1..p[at] |-> VarInt(p, at + i)]
  BY DEF StreamsOf
<1> HIDE DEF at
<1>4. \A i \in 1..p[at] : VarInt(p, at + i) \in Nat
  BY <1>2, VarIntType
<1>5. StreamsOf(p) \in [1..p[at] -> Nat]
  BY <1>3, <1>4
<1>6. StreamsOf(p) \in Seq(Nat) /\ Len(StreamsOf(p)) = p[at]
  BY <1>2, <1>5, CellsOf
<1> QED
  BY <1>2, <1>6 DEF at

LEMMA VersionRenamed ==
  ASSUME NEW m, NEW a, NEW b, NEW c, NEW d, NEW e, NEW f, NEW g, NEW h,
         VersionIs(m, a, b, c, d, e, f, g, h), NEW agent \in Seq(Nat), NEW new,
         new = [m EXCEPT !.userAgent = agent]
  PROVE  VersionIs(new, a, b, c, d, e, f, agent, h)
  BY DEF VersionIs, MsgVersion

LEMMA VersionRelisted ==
  ASSUME NEW m, NEW a, NEW b, NEW c, NEW d, NEW e, NEW f, NEW g, NEW h,
         VersionIs(m, a, b, c, d, e, f, g, h), NEW streams \in Seq(Nat), NEW new,
         new = [m EXCEPT !.streamNumbers = streams]
  PROVE  VersionIs(new, a, b, c, d, e, f, g, streams)
  BY DEF VersionIs, MsgVersion

(* What a version decoder makes of its receiver, wherever it stops.        *)
LEMMA VersionDecoded ==
  ASSUME NEW old \in MsgVersion(Time), NEW p \in Seq(Nat)
  PROVE  /\ VersionIs(DecodeVersion(old, p).msg,
              Field(p, 1, old.protocolVersion), Field(p, 2, old.services),
              IF Len(p) < 3 THEN old.timestamp ELSE <<p[3], 0>>,
              IF Len(p) < 6 THEN old.addrYou ELSE ReadNetAddress(p, 4, FALSE),
              IF Len(p) < 9 THEN old.addrMe ELSE ReadNetAddress(p, 7, FALSE),
              Field(p, 10, old.nonce),
              IF AgentErr(p) = "nil" THEN AgentOf(p) ELSE old.userAgent,
              IF Listed(p) THEN StreamsOf(p) ELSE old.streamNumbers)
         /\ DecodeVersion(old, p).err = VersionErr(p)
<1> DEFINE a == Field(p, 1, old.protocolVersion)
           b == Field(p, 2, old.services)
           c == IF Len(p) < 3 THEN old.timestamp ELSE <<p[3], 0>>
           d == IF Len(p) < 6 THEN old.addrYou ELSE ReadNetAddress(p, 4, FALSE)
           e == IF Len(p) < 9 THEN old.addrMe ELSE ReadNetAddress(p, 7, FALSE)
           f == Field(p, 10, old.nonce)
           fixed == VersionFixed(old, p)
           named == [fixed EXCEPT !.userAgent = AgentOf(p)]
           whole == [named EXCEPT !.streamNumbers = StreamsOf(p)]
           new == DecodeVersion(old, p)
<1>1. VersionIs(fixed, a, b, c, d, e, f, old.userAgent, old.streamNumbers)
  BY VersionFixedFields, Zenon
<1>2. new = IF AgentErr(p) # "nil" THEN [msg |-> fixed, err |-> AgentErr(p)]
            ELSE IF Len(p) < 12 + p[11] THEN [msg |-> named, err |-> "EOF"]
            ELSE IF Huge(p, 12 + p[11]) THEN [msg |-> named, err |-> "panic"]
            ELSE [msg |-> whole, err |-> ErrIfShort(p, 12 + p[11] + p[12 + p[11]])]
  BY Zenon DEF DecodeVersion, AgentOf, StreamsOf
<1>3. new.err = VersionErr(p)
  BY <1>2 DEF VersionErr
<1> HIDE DEF a, b, c, d, e, f, fixed
<1>4. AgentErr(p) = "nil" =>
        VersionIs(named, a, b, c, d, e, f, AgentOf(p), old.streamNumbers)
  BY <1>1, AgentType, VersionRenamed, Zenon
<1> HIDE DEF named
<1>5. Listed(p) => VersionIs(whole, a, b, c, d, e, f, AgentOf(p), StreamsOf(p))
  BY <1>4, StreamsType, VersionRelisted, Zenon DEF Listed
<1> HIDE DEF whole, new
<1>6. CASE AgentErr(p) # "nil"
  <2>1. new.msg = fixed
    BY <1>2, <1>6
  <2> QED
    BY <1>1, <1>3, <1>6, <2>1 DEF a, b, c, d, e, f, new, Listed
<1>7. CASE AgentErr(p) = "nil" /\ ~Listed(p)
  <2>1. new.msg = named
    BY <1>2, <1>7 DEF Listed
  <2> QED
    BY <1>3, <1>4, <1>7, <2>1 DEF a, b, c, d, e, f, new
<1>8. CASE Listed(p)
  <2>1. new.msg = whole /\ AgentErr(p) = "nil"
    BY <1>2, <1>8 DEF Listed
  <2> QED
    BY <1>3, <1>5, <1>8, <2>1 DEF a, b, c, d, e, f, new
<1> QED
  BY <1>6, <1>7, <1>8

-----------------------------------------------------------------------------
(* Objects *)

(* The type in the payload is the one that is asked for.                   *)
Typed(p, type) == Len(p) >= 3 /\ p[3] = type

ObjectErr(p, type) ==
  IF Len(p) >= 3 /\ ~Typed(p, type) THEN "MessageError" ELSE ErrIfShort(p, 5)

(* The fields that all objects have, after the decoder.                    *)
NonceOf(old, p) == Field(p, 1, old.nonce)

TypeOf(old, p) == Field(p, 3, old.objectType)

ExpiresOf(old, p, type) ==
  IF Typed(p, type) THEN <<p[2], 0>> ELSE old.expires

VersionOf(old, p, type) ==
  IF Typed(p, type) THEN VarInt(p, 4) ELSE old.version

StreamOf(old, p, type) ==
  IF Typed(p, type) /\ Len(p) >= 4 THEN VarInt(p, 5) ELSE old.stream

HeadIs(m, old, p, type) ==
  /\ m.nonce = NonceOf(old, p) /\ m.objectType = TypeOf(old, p)
  /\ m.expires = ExpiresOf(old, p, type)
  /\ m.version = VersionOf(old, p, type) /\ m.stream = StreamOf(old, p, type)

LEMMA ObjectHeaded ==
  ASSUME NEW old, NEW p \in Seq(Nat), NEW type,
         old.nonce \in Nat, old.objectType \in Nat, old.expires \in Time,
         old.version \in Nat, old.stream \in Nat
  PROVE  /\ DecodeObject(old, p, type).msg
              = [old EXCEPT !.nonce = NonceOf(old, p),
                            !.objectType = TypeOf(old, p),
                            !.expires = ExpiresOf(old, p, type),
                            !.version = VersionOf(old, p, type),
                            !.stream = StreamOf(old, p, type)]
         /\ NonceOf(old, p) \in Nat /\ TypeOf(old, p) \in Nat
         /\ ExpiresOf(old, p, type) \in Time
         /\ VersionOf(old, p, type) \in Nat /\ StreamOf(old, p, type) \in Nat
<1>1. NonceOf(old, p) \in Nat /\ TypeOf(old, p) \in Nat
  BY DEF Field, NonceOf, TypeOf
<1>2. ExpiresOf(old, p, type) \in Time
  BY DEF Time, Typed, ExpiresOf
<1>3. VersionOf(old, p, type) \in Nat /\ StreamOf(old, p, type) \in Nat
  BY VarIntType DEF VersionOf, StreamOf
<1>4. DecodeObject(old, p, type).msg
        = [old EXCEPT !.nonce = NonceOf(old, p), !.objectType = TypeOf(old, p),
                      !.expires = ExpiresOf(old, p, type),
                      !.version = VersionOf(old, p, type),
                      !.stream = StreamOf(old, p, type)]
  BY DEF DecodeObject, Typed, NonceOf, TypeOf, ExpiresOf, VersionOf, StreamOf
<1> QED
  BY <1>1, <1>2, <1>3, <1>4

LEMMA ObjectErrIs ==
  ASSUME NEW old, NEW p, NEW type
  PROVE  DecodeObject(old, p, type).err = ObjectErr(p, type)
  BY DEF DecodeObject, ObjectErr, Typed

(* A head that was decoded without an error.                               *)
LEMMA HeadRead ==
  ASSUME NEW p \in Seq(Nat), NEW type, ObjectErr(p, type) = "nil"
  PROVE  /\ Typed(p, type) /\ Len(p) >= 5
         /\ VarInt(p, 4) = p[4] /\ VarInt(p, 5) = p[5]
         /\ \A x : Field(p, 1, x) = p[1]
         /\ \A x : Field(p, 3, x) = p[3]
  BY DEF ObjectErr, ErrIfShort, Typed, VarInt, Field

-----------------------------------------------------------------------------
(* getpubkey *)

LEMMA GetPubKeyHeaded ==
  ASSUME NEW old \in MsgGetPubKey(Time, Nat), NEW p \in Seq(Nat)
  PROVE  LET m == DecodeObject(old, p, ObjectTypeGetPubKey).msg
         IN  /\ m \in MsgGetPubKey(Time, Nat)
             /\ HeadIs(m, old, p, ObjectTypeGetPubKey)
             /\ m.ripe = old.ripe /\ m.tag = old.tag
<1> DEFINE m == DecodeObject(old, p, ObjectTypeGetPubKey).msg
           type == ObjectTypeGetPubKey
           a == NonceOf(old, p)
           b == TypeOf(old, p)
           c == ExpiresOf(old, p, type)
           d == VersionOf(old, p, type)
           e == StreamOf(old, p, type)
<1>1. /\ old.nonce \in Nat /\ old.objectType \in Nat /\ old.expires \in Time
      /\ old.version \in Nat /\ old.stream \in Nat
  BY DEF MsgGetPubKey
<1>2. /\ m = [old EXCEPT !.nonce = a, !.objectType = b, !.expires = c,
                         !.version = d, !.stream = e]
      /\ a \in Nat /\ b \in Nat /\ c \in Time /\ d \in Nat /\ e \in Nat
  BY <1>1, ObjectHeaded, Zenon
<1> HIDE DEF a, b, c, d, e, m, type
<1>4. /\ m \in MsgGetPubKey(Time, Nat) /\ m.ripe = old.ripe /\ m.tag = old.tag
      /\ m.nonce = a /\ m.objectType = b /\ m.expires = c /\ m.version = d
      /\ m.stream = e
  BY <1>2 DEF MsgGetPubKey
<1>5. HeadIs(m, old, p, type)
  BY ONLY <1>4, Zenon DEF HeadIs, a, b, c, d, e
<1> QED
  BY <1>4, <1>5 DEF m, type

LEMMA GetPubKeyDecoded ==
  ASSUME NEW old \in MsgGetPubKey(Time, Nat), NEW p \in Seq(Nat)
  PROVE  LET new == DecodeGetPubKey(old, p)
             ok  == ObjectErr(p, ObjectTypeGetPubKey) = "nil"
             key == <<VarInt(p, 6)>>
         IN  /\ new.msg \in MsgGetPubKey(Time, Nat)
             /\ HeadIs(new.msg, old, p, ObjectTypeGetPubKey)
             /\ new.msg.ripe = IF ok /\ ~(VarInt(p, 4) >= 4) THEN key ELSE old.ripe
             /\ new.msg.tag  = IF ok /\ VarInt(p, 4) >= 4 THEN key ELSE old.tag
             /\ new.err = IF ok THEN ErrIfShort(p, 6)
                                ELSE ObjectErr(p, ObjectTypeGetPubKey)
<1> DEFINE type == ObjectTypeGetPubKey
           d    == DecodeObject(old, p, type)
           m    == d.msg
           key  == <<VarInt(p, 6)>>
           new  == DecodeGetPubKey(old, p)
<1>1. /\ m \in MsgGetPubKey(Time, Nat) /\ HeadIs(m, old, p, type)
      /\ m.ripe = old.ripe /\ m.tag = old.tag
  BY GetPubKeyHeaded, Zenon
<1>2. d.err = ObjectErr(p, type)
  BY ObjectErrIs, Zenon
<1>3. key \in Pointer
  BY VarIntType DEF Pointer
<1>4. new = IF d.err # "nil" THEN d
            ELSE [msg |-> IF m.version >= 4 THEN [m EXCEPT !.tag  = key]
                                            ELSE [m EXCEPT !.ripe = key],
                  err |-> ErrIfShort(p, 6)]
  BY DEF DecodeGetPubKey, TagBasedRipeVersion
<1> HIDE DEF key, d, new
<1>5. CASE ObjectErr(p, type) # "nil"
  <2>1. new = d
    BY <1>2, <1>4, <1>5
  <2> QED
    BY <1>1, <1>2, <1>5, <2>1 DEF new, key
<1>6. CASE ObjectErr(p, type) = "nil"
  <2>1. m.version = VarInt(p, 4)
    BY <1>1, <1>6, HeadRead DEF HeadIs, VersionOf
  <2>2. /\ new.msg = IF m.version >= 4 THEN [m EXCEPT !.tag  = key]
                                       ELSE [m EXCEPT !.ripe = key]
        /\ new.err = ErrIfShort(p, 6)
    BY <1>2, <1>4, <1>6
  <2> HIDE DEF m
  <2>3. /\ new.msg \in MsgGetPubKey(Time, Nat)
        /\ new.msg.nonce = m.nonce /\ new.msg.objectType = m.objectType
        /\ new.msg.expires = m.expires /\ new.msg.version = m.version
        /\ new.msg.stream = m.stream
        /\ new.msg.ripe = IF m.version >= 4 THEN m.ripe ELSE key
        /\ new.msg.tag  = IF m.version >= 4 THEN key ELSE m.tag
    <3>1. CASE m.version >= 4
      <4>1. new.msg = [m EXCEPT !.tag = key]
        BY <2>2, <3>1
      <4> QED
        BY ONLY <1>1, <1>3, <3>1, <4>1 DEF MsgGetPubKey
    <3>2. CASE ~(m.version >= 4)
      <4>1. new.msg = [m EXCEPT !.ripe = key]
        BY <2>2, <3>2
      <4> QED
        BY ONLY <1>1, <1>3, <3>2, <4>1 DEF MsgGetPubKey
    <3> QED
      BY <3>1, <3>2
  <2>4. HeadIs(new.msg, old, p, type)
    BY ONLY <1>1, <2>3 DEF HeadIs
  <2> QED
    BY <1>1, <1>6, <2>1, <2>2, <2>3, <2>4 DEF new, key
<1> QED
  BY <1>5, <1>6

-----------------------------------------------------------------------------
(* msg and broadcast *)

LEMMA SealedHeaded ==
  ASSUME NEW old \in MsgSealed(Time, Nat), NEW p \in Seq(Nat), NEW type
  PROVE  LET m == DecodeObject(old, p, type).msg
         IN  /\ m \in MsgSealed(Time, Nat) /\ HeadIs(m, old, p, type)
             /\ m.encrypted = old.encrypted
<1> DEFINE m == DecodeObject(old, p, type).msg
           a == NonceOf(old, p)
           b == TypeOf(old, p)
           c == ExpiresOf(old, p, type)
           d == VersionOf(old, p, type)
           e == StreamOf(old, p, type)
<1>1. /\ old.nonce \in Nat /\ old.objectType \in Nat /\ old.expires \in Time
      /\ old.version \in Nat /\ old.stream \in Nat
  BY DEF MsgSealed
<1>2. /\ m = [old EXCEPT !.nonce = a, !.objectType = b, !.expires = c,
                         !.version = d, !.stream = e]
      /\ a \in Nat /\ b \in Nat /\ c \in Time /\ d \in Nat /\ e \in Nat
  BY <1>1, ObjectHeaded, Zenon
<1> HIDE DEF a, b, c, d, e, m
<1>3. /\ m \in MsgSealed(Time, Nat) /\ m.encrypted = old.encrypted
      /\ m.nonce = a /\ m.objectType = b /\ m.expires = c /\ m.version = d
      /\ m.stream = e
  BY <1>2 DEF MsgSealed
<1>4. HeadIs(m, old, p, type)
  BY ONLY <1>3, Zenon DEF HeadIs, a, b, c, d, e
<1> QED
  BY <1>3, <1>4 DEF m

LEMMA SealedDecoded ==
  ASSUME NEW old \in MsgSealed(Time, Nat), NEW p \in Seq(Nat), NEW type
  PROVE  LET new == DecodeSealed(old, p, type)
             ok  == ObjectErr(p, type) = "nil"
         IN  /\ new.msg \in MsgSealed(Time, Nat)
             /\ HeadIs(new.msg, old, p, type)
             /\ new.msg.encrypted = IF ok THEN SubSeq(p, 6, Len(p))
                                          ELSE old.encrypted
             /\ new.err = ObjectErr(p, type)
<1> DEFINE d    == DecodeObject(old, p, type)
           m    == d.msg
           rest == SubSeq(p, 6, Len(p))
           new  == DecodeSealed(old, p, type)
<1>1. /\ m \in MsgSealed(Time, Nat) /\ HeadIs(m, old, p, type)
      /\ m.encrypted = old.encrypted
  BY SealedHeaded, Zenon
<1>2. d.err = ObjectErr(p, type)
  BY ObjectErrIs, Zenon
<1>3. new = IF d.err # "nil" THEN d
            ELSE [msg |-> [m EXCEPT !.encrypted = rest], err |-> "nil"]
  BY DEF DecodeSealed
<1>4. rest \in Seq(Nat)
  OBVIOUS
<1> HIDE DEF rest, d, new
<1>5. CASE ObjectErr(p, type) # "nil"
  <2>1. new = d
    BY <1>2, <1>3, <1>5
  <2> QED
    BY <1>1, <1>2, <1>5, <2>1 DEF new, rest
<1>6. CASE ObjectErr(p, type) = "nil"
  <2>1. new.msg = [m EXCEPT !.encrypted = rest] /\ new.err = "nil"
    BY <1>2, <1>3, <1>6
  <2> HIDE DEF m
  <2>2. /\ new.msg \in MsgSealed(Time, Nat)
        /\ new.msg.nonce = m.nonce /\ new.msg.objectType = m.objectType
        /\ new.msg.expires = m.expires /\ new.msg.version = m.version
        /\ new.msg.stream = m.stream /\ new.msg.encrypted = rest
    BY ONLY <1>1, <1>4, <2>1 DEF MsgSealed
  <2>3. HeadIs(new.msg, old, p, type)
    BY ONLY <1>1, <2>2 DEF HeadIs
  <2> QED
    BY <1>6, <2>1, <2>2, <2>3 DEF new, rest
<1> QED
  BY <1>5, <1>6

-----------------------------------------------------------------------------
(* pubkey *)

(* The fields of a public key that are not those of every object.          *)
PubKeyTail(m, behavior, signing, encrypt, trials, extra, sig, tag, sealed) ==
  /\ m.behavior = behavior /\ m.signingKey = signing /\ m.encryptKey = encrypt
  /\ m.nonceTrials = trials /\ m.extraBytes = extra /\ m.signature = sig
  /\ m.tag = tag /\ m.encrypted = sealed

SameHead(m, n) ==
  /\ m.nonce = n.nonce /\ m.objectType = n.objectType /\ m.expires = n.expires
  /\ m.version = n.version /\ m.stream = n.stream

LEMMA PubKeyObject ==
  ASSUME NEW old \in MsgPubKey(Time, Nat), NEW p \in Seq(Nat)
  PROVE  LET m == DecodeObject(old, p, ObjectTypePubKey).msg
         IN  /\ m \in MsgPubKey(Time, Nat)
             /\ HeadIs(m, old, p, ObjectTypePubKey)
             /\ PubKeyTail(m, old.behavior, old.signingKey, old.encryptKey,
                           old.nonceTrials, old.extraBytes, old.signature,
                           old.tag, old.encrypted)
<1> DEFINE type == ObjectTypePubKey
           m == DecodeObject(old, p, type).msg
           a == NonceOf(old, p)
           b == TypeOf(old, p)
           c == ExpiresOf(old, p, type)
           d == VersionOf(old, p, type)
           e == StreamOf(old, p, type)
<1>1. /\ old.nonce \in Nat /\ old.objectType \in Nat /\ old.expires \in Time
      /\ old.version \in Nat /\ old.stream \in Nat
  BY DEF MsgPubKey
<1>2. /\ m = [old EXCEPT !.nonce = a, !.objectType = b, !.expires = c,
                         !.version = d, !.stream = e]
      /\ a \in Nat /\ b \in Nat /\ c \in Time /\ d \in Nat /\ e \in Nat
  BY <1>1, ObjectHeaded, Zenon
<1> HIDE DEF a, b, c, d, e, m, type
<1>3. m \in MsgPubKey(Time, Nat)
  BY <1>2 DEF MsgPubKey
<1>4. /\ m.nonce = a /\ m.objectType = b /\ m.expires = c /\ m.version = d
      /\ m.stream = e
  BY <1>2 DEF MsgPubKey
<1>5. PubKeyTail(m, old.behavior, old.signingKey, old.encryptKey,
                 old.nonceTrials, old.extraBytes, old.signature,
                 old.tag, old.encrypted)
  BY <1>2 DEF MsgPubKey, PubKeyTail
<1>6. HeadIs(m, old, p, type)
  BY ONLY <1>4, Zenon DEF HeadIs, a, b, c, d, e
<1> QED
  BY <1>3, <1>5, <1>6 DEF m, type

(* A tag and the rest. *)
LEMMA PubKeySealed ==
  ASSUME NEW m \in MsgPubKey(Time, Nat), NEW tag \in Pointer,
         NEW rest \in Seq(Nat), NEW new,
         new = [m EXCEPT !.tag = tag, !.encrypted = rest]
  PROVE  /\ new \in MsgPubKey(Time, Nat) /\ SameHead(new, m)
         /\ PubKeyTail(new, m.behavior, m.signingKey, m.encryptKey,
                       m.nonceTrials, m.extraBytes, m.signature, tag, rest)
  BY DEF MsgPubKey, PubKeyTail, SameHead

(* A behavior and two keys. *)
LEMMA PubKeyUnsealed ==
  ASSUME NEW m \in MsgPubKey(Time, Nat), NEW behavior \in Nat,
         NEW signing \in Pointer, NEW encrypt \in Pointer, NEW new,
         new = [m EXCEPT !.behavior = behavior, !.signingKey = signing,
                         !.encryptKey = encrypt]
  PROVE  /\ new \in MsgPubKey(Time, Nat) /\ SameHead(new, m)
         /\ PubKeyTail(new, behavior, signing, encrypt,
                       m.nonceTrials, m.extraBytes, m.signature, m.tag, m.encrypted)
  BY DEF MsgPubKey, PubKeyTail, SameHead

(* The fields of version 3. *)
LEMMA PubKeyExtended ==
  ASSUME NEW m \in MsgPubKey(Time, Nat), NEW trials \in Nat, NEW extra \in Nat,
         NEW sig \in Seq(Nat), NEW new,
         new = [m EXCEPT !.nonceTrials = trials, !.extraBytes = extra,
                         !.signature = sig]
  PROVE  /\ new \in MsgPubKey(Time, Nat) /\ SameHead(new, m)
         /\ PubKeyTail(new, m.behavior, m.signingKey, m.encryptKey,
                       trials, extra, sig, m.tag, m.encrypted)
  BY DEF MsgPubKey, PubKeyTail, SameHead

(* The three layouts of a public key whose head was decoded.               *)
SealedIn(p)   == ObjectErr(p, ObjectTypePubKey) = "nil" /\ VarInt(p, 4) >= 4
KeyedIn(p)    == ObjectErr(p, ObjectTypePubKey) = "nil" /\ ~(VarInt(p, 4) >= 4)
ExtendedIn(p) == KeyedIn(p) /\ VarInt(p, 4) = 3 /\ Len(p) >= 8

SignatureOf(p) == [i \in 1..p[11] |-> VarInt(p, 11 + i)]

PubKeyErr(p) ==
  IF SealedIn(p) THEN ErrIfShort(p, 6)
  ELSE IF ExtendedIn(p) THEN
    IF Huge(p, 11) THEN "panic"
    ELSE ErrIfShort(p, IF Len(p) < 11 THEN 11 ELSE 11 + p[11])
  ELSE IF KeyedIn(p) THEN ErrIfShort(p, 8)
  ELSE ObjectErr(p, ObjectTypePubKey)

LEMMA SignatureType ==
  ASSUME NEW p \in Seq(Nat), ~(Len(p) < 11)
  PROVE  /\ SignatureOf(p) \in Seq(Nat) /\ Len(SignatureOf(p)) = p[11]
         /\ p[11] \in Nat
<1>1. p[11] \in Nat
  OBVIOUS
<1>2. \A i \in 1..p[11] : VarInt(p, 11 + i) \in Nat
  BY <1>1, VarIntType
<1>3. SignatureOf(p) \in [1..p[11] -> Nat]
  BY <1>2 DEF SignatureOf
<1> QED
  BY <1>1, <1>3, CellsOf

LEMMA PubKeyDecoded ==
  ASSUME NEW old \in MsgPubKey(Time, Nat), NEW p \in Seq(Nat)
  PROVE  LET new == DecodePubKey(old, p)
         IN  /\ new.msg \in MsgPubKey(Time, Nat)
             /\ HeadIs(new.msg, old, p, ObjectTypePubKey)
             /\ PubKeyTail(new.msg,
                  IF KeyedIn(p) THEN Field(p, 6, old.behavior) ELSE old.behavior,
                  IF KeyedIn(p) THEN <<VarInt(p, 7)>> ELSE old.signingKey,
                  IF KeyedIn(p) THEN <<VarInt(p, 8)>> ELSE old.encryptKey,
                  IF ExtendedIn(p) THEN VarInt(p, 9) ELSE old.nonceTrials,
                  IF ExtendedIn(p) /\ ~(Len(p) < 9) THEN VarInt(p, 10)
                                                    ELSE old.extraBytes,
                  IF ExtendedIn(p) /\ ~(Len(p) < 11) /\ ~Huge(p, 11)
                  THEN SignatureOf(p) ELSE old.signature,
                  IF SealedIn(p) THEN <<VarInt(p, 6)>> ELSE old.tag,
                  IF SealedIn(p) /\ ~(Len(p) < 6) THEN SubSeq(p, 7, Len(p))
                                                  ELSE old.encrypted)
             /\ new.err = PubKeyErr(p)
<1> DEFINE type == ObjectTypePubKey
           d    == DecodeObject(old, p, type)
           m    == d.msg
           n    == Len(p)
           tag  == <<VarInt(p, 6)>>
           rest == IF n < 6 THEN m.encrypted ELSE SubSeq(p, 7, n)
           behavior == Field(p, 6, m.behavior)
           signing  == <<VarInt(p, 7)>>
           encrypt  == <<VarInt(p, 8)>>
           trials   == VarInt(p, 9)
           extra    == IF n < 9 THEN m.extraBytes ELSE VarInt(p, 10)
           sig      == IF n < 11 \/ Huge(p, 11) THEN m.signature
                                                ELSE SignatureOf(p)
           sealed   == [m EXCEPT !.tag = tag, !.encrypted = rest]
           keys     == WithKeys(m, p)
           extended == [keys EXCEPT !.nonceTrials = trials, !.extraBytes = extra,
                                    !.signature = sig]
           new  == DecodePubKey(old, p)
<1>1. m \in MsgPubKey(Time, Nat) /\ HeadIs(m, old, p, type)
  BY PubKeyObject, Zenon
<1>2. PubKeyTail(m, old.behavior, old.signingKey, old.encryptKey,
                 old.nonceTrials, old.extraBytes, old.signature, old.tag,
                 old.encrypted)
  BY PubKeyObject, Zenon
<1>3. d.err = ObjectErr(p, type)
  BY ObjectErrIs, Zenon
<1>4. /\ m.behavior \in Nat /\ m.extraBytes \in Nat
      /\ m.signature \in Seq(Nat) /\ m.encrypted \in Seq(Nat)
  <2> HIDE DEF m
  <2> QED
    BY <1>1 DEF MsgPubKey
<1>5. tag \in Pointer /\ signing \in Pointer /\ encrypt \in Pointer
  BY VarIntType DEF Pointer
<1>6. rest \in Seq(Nat)
  <2>1. SubSeq(p, 7, n) \in Seq(Nat)
    OBVIOUS
  <2> QED
    BY <1>4, <2>1
<1>7. behavior \in Nat /\ trials \in Nat /\ extra \in Nat
  <2>1. /\ ~(Len(p) < 6) => p[6] \in Nat
        /\ VarInt(p, 9) \in Nat /\ VarInt(p, 10) \in Nat
    BY VarIntType
  <2> QED
    BY <1>4, <2>1 DEF Field
<1>8. sig \in Seq(Nat)
  BY <1>4, SignatureType
<1>9. keys = [m EXCEPT !.behavior = behavior, !.signingKey = signing,
                       !.encryptKey = encrypt]
  BY DEF WithKeys
<1>10. ~(n < 11 \/ Huge(p, 11))
         => sig = [i \in 1..p[11] |-> VarInt(p, 11 + i)]
  BY DEF SignatureOf
<1>11. new = IF d.err # "nil" THEN d
             ELSE IF m.version >= 4 THEN [msg |-> sealed, err |-> ErrIfShort(p, 6)]
             ELSE IF m.version = 3 /\ n >= 8 THEN
               [msg |-> extended,
                err |-> IF Huge(p, 11) THEN "panic"
                        ELSE ErrIfShort(p, IF n < 11 THEN 11 ELSE 11 + p[11])]
             ELSE [msg |-> keys, err |-> ErrIfShort(p, 8)]
  <2> HIDE DEF d
  <2>1. keys.extraBytes = m.extraBytes /\ keys.signature = m.signature
    <3> HIDE DEF m, behavior, signing, encrypt, keys
    <3> QED
      BY <1>1, <1>9 DEF MsgPubKey
  <2>2. [keys EXCEPT !.nonceTrials = VarInt(p, 9),
                     !.extraBytes  = IF n < 9 THEN @ ELSE VarInt(p, 10),
                     !.signature   = IF n < 11 \/ Huge(p, 11) THEN @ ELSE
                                     [i \in 1..p[11] |-> VarInt(p, 11 + i)]]
        = [keys EXCEPT !.nonceTrials = VarInt(p, 9),
             !.extraBytes  = IF n < 9 THEN keys.extraBytes ELSE VarInt(p, 10),
             !.signature   = IF n < 11 \/ Huge(p, 11) THEN keys.signature ELSE
                             [i \in 1..p[11] |-> VarInt(p, 11 + i)]]
    <3> HIDE DEF keys
    <3> QED
      BY Zenon
  <2>3. @ = extended
    BY <2>1, Zenon DEF SignatureOf
  <2> HIDE DEF keys, extended
  <2> QED
    BY <2>2, <2>3 DEF DecodePubKey, EncryptedPubKeyVersion, ExtendedPubKeyVersion, d, keys
<1> DEFINE goal ==
  /\ new.msg \in MsgPubKey(Time, Nat) /\ HeadIs(new.msg, old, p, type)
  /\ PubKeyTail(new.msg,
       IF KeyedIn(p) THEN Field(p, 6, old.behavior) ELSE old.behavior,
       IF KeyedIn(p) THEN <<VarInt(p, 7)>> ELSE old.signingKey,
       IF KeyedIn(p) THEN <<VarInt(p, 8)>> ELSE old.encryptKey,
       IF ExtendedIn(p) THEN VarInt(p, 9) ELSE old.nonceTrials,
       IF ExtendedIn(p) /\ ~(Len(p) < 9) THEN VarInt(p, 10) ELSE old.extraBytes,
       IF ExtendedIn(p) /\ ~(Len(p) < 11) /\ ~Huge(p, 11)
       THEN SignatureOf(p) ELSE old.signature,
       IF SealedIn(p) THEN <<VarInt(p, 6)>> ELSE old.tag,
       IF SealedIn(p) /\ ~(Len(p) < 6) THEN SubSeq(p, 7, Len(p))
                                       ELSE old.encrypted)
  /\ new.err = PubKeyErr(p)
<1> SUFFICES goal
  BY Zenon
<1>12. ObjectErr(p, type) = "nil" => m.version = VarInt(p, 4)
  BY <1>1, HeadRead DEF HeadIs, VersionOf
<1> HIDE DEF d, tag, behavior, signing, encrypt, trials, keys, new
<1>13. CASE ObjectErr(p, type) # "nil"
  <2>1. new = d /\ ~SealedIn(p) /\ ~KeyedIn(p) /\ ~ExtendedIn(p)
    BY <1>3, <1>11, <1>13 DEF SealedIn, KeyedIn, ExtendedIn
  <2>2. new.err = PubKeyErr(p)
    BY <1>3, <2>1 DEF PubKeyErr
  <2> QED
    BY <1>1, <1>2, <2>1, <2>2, Zenon
<1>14. CASE SealedIn(p)
  <2>1. /\ new.msg = sealed /\ new.err = PubKeyErr(p)
        /\ ~KeyedIn(p) /\ ~ExtendedIn(p)
    BY <1>3, <1>11, <1>12, <1>14 DEF SealedIn, KeyedIn, ExtendedIn, PubKeyErr
  <2> HIDE DEF rest, m
  <2>2. /\ new.msg \in MsgPubKey(Time, Nat) /\ SameHead(new.msg, m)
        /\ PubKeyTail(new.msg, m.behavior, m.signingKey, m.encryptKey,
                      m.nonceTrials, m.extraBytes, m.signature, tag, rest)
    BY <1>1, <1>5, <1>6, <2>1, PubKeySealed, Zenon
  <2>3. HeadIs(new.msg, old, p, type)
    BY ONLY <1>1, <2>2 DEF HeadIs, SameHead
  <2>4. rest = IF ~(Len(p) < 6) THEN SubSeq(p, 7, Len(p)) ELSE old.encrypted
    BY ONLY <1>2 DEF rest, PubKeyTail
  <2>5. PubKeyTail(new.msg, old.behavior, old.signingKey, old.encryptKey,
                   old.nonceTrials, old.extraBytes, old.signature, tag, rest)
    BY ONLY <1>2, <2>2 DEF PubKeyTail
  <2> QED
    BY <1>14, <2>1, <2>2, <2>3, <2>4, <2>5 DEF tag
<1>15. CASE KeyedIn(p)
  <2>1. ~SealedIn(p) /\ ~(m.version >= 4)
    BY <1>12, <1>15 DEF SealedIn, KeyedIn
  <2> HIDE DEF m
  <2>2. /\ keys \in MsgPubKey(Time, Nat) /\ SameHead(keys, m)
        /\ PubKeyTail(keys, behavior, signing, encrypt,
                      m.nonceTrials, m.extraBytes, m.signature, m.tag, m.encrypted)
    BY <1>1, <1>5, <1>7, <1>9, PubKeyUnsealed, Zenon
  <2>3. /\ behavior = Field(p, 6, old.behavior)
        /\ signing = <<VarInt(p, 7)>> /\ encrypt = <<VarInt(p, 8)>>
    BY ONLY <1>2 DEF behavior, signing, encrypt, PubKeyTail
  <2>4. CASE ~ExtendedIn(p)
    <3>1. new.msg = keys /\ new.err = PubKeyErr(p)
      BY <1>3, <1>11, <1>12, <1>15, <2>1, <2>4
         DEF KeyedIn, ExtendedIn, PubKeyErr
    <3>2. HeadIs(keys, old, p, type)
      BY ONLY <1>1, <2>2 DEF HeadIs, SameHead
    <3>3. PubKeyTail(keys, behavior, signing, encrypt, old.nonceTrials,
                     old.extraBytes, old.signature, old.tag, old.encrypted)
      BY ONLY <1>2, <2>2 DEF PubKeyTail
    <3> QED
      BY <1>15, <2>1, <2>2, <2>3, <2>4, <3>1, <3>2, <3>3
  <2>5. CASE ExtendedIn(p)
    <3>1. new.msg = extended /\ new.err = PubKeyErr(p)
      BY <1>3, <1>11, <1>12, <1>15, <2>1, <2>5
         DEF KeyedIn, ExtendedIn, PubKeyErr
    <3> HIDE DEF extra, sig
    <3>2. /\ new.msg \in MsgPubKey(Time, Nat) /\ SameHead(new.msg, keys)
          /\ PubKeyTail(new.msg, keys.behavior, keys.signingKey, keys.encryptKey,
                        trials, extra, sig, keys.tag, keys.encrypted)
      BY <1>7, <1>8, <2>2, <3>1, PubKeyExtended, Zenon
    <3>3. HeadIs(new.msg, old, p, type)
      BY ONLY <1>1, <2>2, <3>2 DEF HeadIs, SameHead
    <3>4. /\ extra = IF ~(Len(p) < 9) THEN VarInt(p, 10) ELSE old.extraBytes
          /\ sig = IF ~(Len(p) < 11) /\ ~Huge(p, 11) THEN SignatureOf(p)
                                                     ELSE old.signature
      BY ONLY <1>2 DEF extra, sig, PubKeyTail
    <3>5. PubKeyTail(new.msg, behavior, signing, encrypt, trials, extra, sig,
                     old.tag, old.encrypted)
      BY ONLY <1>2, <2>2, <3>2 DEF PubKeyTail
    <3> QED
      BY <1>15, <2>1, <2>3, <2>5, <3>1, <3>2, <3>3, <3>4, <3>5 DEF trials
  <2> QED
    BY <2>4, <2>5
<1> HIDE DEF goal
<1> QED
  BY <1>13, <1>14, <1>15 DEF SealedIn, KeyedIn

-----------------------------------------------------------------------------
(* The lists *)

(* The elements that are decoded: no more than the count of the payload.   *)
LEMMA ElementCount ==
  ASSUME NEW p \in Seq(Nat), p # <<>>, NEW width \in {1, 4}
  PROVE  /\ Least(p[1], (Len(p) - 1) \div width) \in Nat
         /\ Least(p[1], (Len(p) - 1) \div width) <= p[1]
         /\ \A i \in 1..Least(p[1], (Len(p) - 1) \div width) :
              2 + (i - 1) * width + width - 1 <= Len(p)
<1>1. Len(p) - 1 \in Nat /\ p[1] \in Nat
  OBVIOUS
<1>2. /\ (Len(p) - 1) \div width \in Nat
      /\ ((Len(p) - 1) \div width) * width <= Len(p) - 1
  BY <1>1
<1> QED
  BY <1>1, <1>2 DEF Least

(* What the addr decoder reads. *)
AddrCount(p) == Least(p[1], (Len(p) - 1) \div 4)

AddrCut(p, i) == SubSeq(p, 2 + (i - 1) * 4, 2 + (i - 1) * 4 + 3)

LEMMA AddrElements ==
  ASSUME NEW p \in Seq(Nat), p # <<>>
  PROVE  /\ Elements(p, MaxNetAddressPayload) = [i \in 1..AddrCount(p) |-> AddrCut(p, i)]
         /\ Elements(p, MaxNetAddressPayload) \in Seq(NetAddress)
         /\ Len(Elements(p, MaxNetAddressPayload)) = AddrCount(p)
         /\ AddrCount(p) \in Nat /\ AddrCount(p) <= p[1] /\ p[1] \in Nat
         /\ \A i \in 1..AddrCount(p) :
              /\ AddrCut(p, i) \in Seq(Nat) /\ Len(AddrCut(p, i)) = 4
              /\ \A k \in 1..4 : AddrCut(p, i)[k] = p[1 + 4 * (i - 1) + k]
<1> DEFINE n == AddrCount(p)
           read == Elements(p, MaxNetAddressPayload)
<1>1. read = [i \in 1..n |-> AddrCut(p, i)]
  BY DEF Elements, ReadElement, ReadNetAddress, MaxNetAddressPayload,
         AddrCount, AddrCut
<1>2. n \in Nat /\ n <= p[1] /\ \A i \in 1..n : 2 + (i - 1) * 4 + 4 - 1 <= Len(p)
  BY ElementCount DEF AddrCount
<1> HIDE DEF n, read
<1>3. ASSUME NEW i \in 1..n
      PROVE  /\ AddrCut(p, i) \in Seq(Nat) /\ Len(AddrCut(p, i)) = 4
             /\ \A k \in 1..4 : AddrCut(p, i)[k] = p[1 + 4 * (i - 1) + k]
             /\ AddrCut(p, i) \in NetAddress
  <2> DEFINE a == 1 + 4 * (i - 1)
  <2>1. a \in Nat /\ a + 4 <= Len(p) /\ 2 + (i - 1) * 4 = a + 1
        /\ 2 + (i - 1) * 4 + 3 = a + 4
    BY <1>2
  <2>2. AddrCut(p, i) = SubSeq(p, a + 1, a + 4)
    BY <2>1 DEF AddrCut
  <2> HIDE DEF a
  <2>3. /\ SubSeq(p, a + 1, a + 4) \in Seq(Nat) /\ Len(SubSeq(p, a + 1, a + 4)) = 4
        /\ \A k \in 1..4 : SubSeq(p, a + 1, a + 4)[k] = p[a + k]
    BY <2>1, Cut
  <2>4. AddrCut(p, i) \in NetAddress
    BY <2>2, <2>3, CellsAreAddress
  <2> QED
    BY <2>2, <2>3, <2>4 DEF a
<1>4. read \in Seq(NetAddress) /\ Len(read) = n
  BY <1>1, <1>2, <1>3
<1>5. p[1] \in Nat
  OBVIOUS
<1> QED
  BY <1>1, <1>2, <1>3, <1>4, <1>5 DEF n, read

(* What the decoder of inv and getdata reads. *)
InvCount(p) == Least(p[1], Len(p) - 1)

LEMMA InvElements ==
  ASSUME NEW p \in Seq(Nat), p # <<>>
  PROVE  /\ Elements(p, MaxInvVectPayload) \in Seq(Nat)
         /\ Len(Elements(p, MaxInvVectPayload)) = InvCount(p)
         /\ InvCount(p) \in Nat /\ InvCount(p) <= p[1] /\ p[1] \in Nat
         /\ \A i \in 1..InvCount(p) : Elements(p, MaxInvVectPayload)[i] = p[1 + i]
<1> DEFINE n == InvCount(p)
           read == Elements(p, MaxInvVectPayload)
<1>1. p[1] \in Nat /\ Len(p) \in Nat /\ Len(p) >= 1 /\ (Len(p) - 1) \div 1 = Len(p) - 1
  OBVIOUS
<1>2. n \in Nat /\ n <= p[1] /\ n <= Len(p) - 1
  BY <1>1 DEF InvCount, Least
<1>3. read = [i \in 1..n |-> p[2 + (i - 1) * 1]]
  BY <1>1 DEF Elements, ReadElement, MaxInvVectPayload, MaxNetAddressPayload, InvCount
<1> HIDE DEF n, read
<1>4. \A i \in 1..n : 2 + (i - 1) * 1 = 1 + i /\ p[1 + i] \in Nat
  BY <1>2
<1>5. read = [i \in 1..n |-> p[1 + i]]
  BY <1>3, <1>4
<1> QED
  BY <1>1, <1>2, <1>4, <1>5 DEF n, read

(* A list is replaced, or stays as it was; either way it is within its     *)
(* limit.                                                                  *)
ListErr(p, limit, width) ==
  IF p = <<>> THEN "EOF"
  ELSE IF p[1] > limit THEN "MessageError"
  ELSE IF Huge(p, 1) THEN "panic"
  ELSE ErrIfShort(p, 1 + p[1] * width)

ListRead(p, limit) == p # <<>> /\ ~(p[1] > limit) /\ ~Huge(p, 1)

LEMMA ListDecoded ==
  ASSUME NEW old, NEW p, NEW limit, NEW width
  PROVE  /\ DecodeList(old, p, limit, width).msg
              = IF ListRead(p, limit) THEN Elements(p, width) ELSE old
         /\ DecodeList(old, p, limit, width).err = ListErr(p, limit, width)
  BY DEF DecodeList, ListErr, ListRead

LEMMA AddrBounded ==
  ASSUME NEW old \in Seq(NetAddress), NEW p \in Seq(Nat), Len(old) <= MaxAddrPerMsg
  PROVE  /\ DecodeAddr(old, p).msg \in Seq(NetAddress)
         /\ Len(DecodeAddr(old, p).msg) <= MaxAddrPerMsg
<1>1. DecodeAddr(old, p).msg
        = IF ListRead(p, MaxAddrPerMsg) THEN Elements(p, MaxNetAddressPayload)
                                        ELSE old
  BY ListDecoded DEF DecodeAddr
<1>2. CASE ListRead(p, MaxAddrPerMsg)
  <2>1. p # <<>> /\ ~(p[1] > MaxAddrPerMsg)
    BY <1>2 DEF ListRead
  <2>2. MaxAddrPerMsg \in Nat
    BY WireAssumption DEF WireAssumption
  <2> QED
    BY <1>1, <1>2, <2>1, <2>2, AddrElements
<1> QED
  BY <1>1, <1>2

LEMMA InvBounded ==
  ASSUME NEW old \in Seq(Nat), NEW p \in Seq(Nat), Len(old) <= MaxInvPerMsg
  PROVE  /\ DecodeInv(old, p).msg \in Seq(Nat)
         /\ Len(DecodeInv(old, p).msg) <= MaxInvPerMsg
<1>1. DecodeInv(old, p).msg
        = IF ListRead(p, MaxInvPerMsg) THEN Elements(p, MaxInvVectPayload)
                                       ELSE old
  BY ListDecoded DEF DecodeInv
<1>2. CASE ListRead(p, MaxInvPerMsg)
  <2>1. p # <<>> /\ ~(p[1] > MaxInvPerMsg)
    BY <1>2 DEF ListRead
  <2>2. MaxInvPerMsg \in Nat
    BY WireAssumption DEF WireAssumption
  <2> QED
    BY <1>1, <1>2, <2>1, <2>2, InvElements
<1> QED
  BY <1>1, <1>2

-----------------------------------------------------------------------------
(* The invariant *)

(* A message within the limits of its type. *)
Fits(k, m) ==
  /\ k = "addr" => Len(m) <= MaxAddrPerMsg
  /\ k \in InvKinds => Len(m) <= MaxInvPerMsg
  /\ k = "version" => Len(m.userAgent) <= MaxUserAgentLen

(* A message of every type keeps its shape and its limits, whatever is     *)
(* decoded into it and wherever the payload ends.                          *)
LEMMA DecodedFits ==
  ASSUME NEW k \in Kinds, NEW old \in Receiver(k), Fits(k, old), NEW p \in Seq(Nat)
  PROVE  Decode(k, old, p).msg \in Receiver(k) /\ Fits(k, Decode(k, old, p).msg)
<1> DEFINE new == Decode(k, old, p).msg
<1>1. CASE k = "addr"
  <2>1. Decode(k, old, p) = DecodeAddr(old, p)
    BY <1>1 DEF Decode
  <2>2. old \in Seq(NetAddress) /\ Len(old) <= MaxAddrPerMsg
    BY <1>1 DEF Receiver, Fits
  <2> QED
    BY <1>1, <2>1, <2>2, AddrBounded DEF Receiver, Fits, InvKinds
<1>2. CASE k \in InvKinds
  <2>1. Decode(k, old, p) = DecodeInv(old, p)
    BY <1>2 DEF Decode, InvKinds, DecodeInv, DecodeGetData
  <2>2. old \in Seq(Nat) /\ Len(old) <= MaxInvPerMsg
    BY <1>2 DEF Receiver, Fits, InvKinds
  <2> QED
    BY <1>2, <2>1, <2>2, InvBounded DEF Receiver, Fits, InvKinds
<1>3. CASE k = "version"
  <2>1. Decode(k, old, p) = DecodeVersion(old, p)
    BY <1>3 DEF Decode
  <2>2. old \in MsgVersion(Time) /\ Len(old.userAgent) <= MaxUserAgentLen
    BY <1>3 DEF Receiver, Fits
  <2>3. /\ new \in MsgVersion(Time)
        /\ new.userAgent = IF AgentErr(p) = "nil" THEN AgentOf(p) ELSE old.userAgent
    <3> DEFINE m == DecodeVersion(old, p).msg
    <3>1. old \in MsgVersion(Time)
      BY <2>2
    <3>2. /\ m \in MsgVersion(Time)
          /\ m.userAgent = IF AgentErr(p) = "nil" THEN AgentOf(p) ELSE old.userAgent
      BY <3>1, VersionDecoded, Zenon DEF VersionIs
    <3>3. new = m
      BY <2>1
    <3> QED
      BY <3>2, <3>3
  <2>4. AgentErr(p) = "nil" => Len(AgentOf(p)) <= MaxUserAgentLen
    BY AgentType
  <2> QED
    BY <1>3, <2>2, <2>3, <2>4 DEF Receiver, Fits, InvKinds
<1>4. CASE k = "getpubkey"
  <2>1. Decode(k, old, p) = DecodeGetPubKey(old, p) /\ old \in MsgGetPubKey(Time, Nat)
    BY <1>4 DEF Decode, Receiver
  <2>2. new \in MsgGetPubKey(Time, Nat)
    BY <2>1, GetPubKeyDecoded
  <2> QED
    BY <1>4, <2>2 DEF Receiver, Fits, InvKinds
<1>5. CASE k = "pubkey"
  <2>1. Decode(k, old, p) = DecodePubKey(old, p) /\ old \in MsgPubKey(Time, Nat)
    BY <1>5 DEF Decode, Receiver
  <2>2. new \in MsgPubKey(Time, Nat)
    BY <2>1, PubKeyDecoded
  <2> QED
    BY <1>5, <2>2 DEF Receiver, Fits, InvKinds
<1>6. CASE k \in {"msg", "broadcast"}
  <2>1. /\ old \in MsgSealed(Time, Nat)
        /\ Decode(k, old, p) = DecodeSealed(old, p, IF k = "msg" THEN ObjectTypeMsg
                                                    ELSE ObjectTypeBroadcast)
    BY <1>6 DEF Decode, Receiver
  <2>2. new \in MsgSealed(Time, Nat)
    BY <2>1, SealedDecoded
  <2> QED
    BY <1>6, <2>2 DEF Receiver, Fits, InvKinds
<1>7. CASE k \in {"verack", "getaddr"}
  <2>1. new = old
    BY <1>7 DEF Decode
  <2> QED
    BY <2>1
<1>8. k \in {"addr", "version", "getpubkey", "pubkey", "msg", "broadcast",
             "verack", "getaddr"} \cup InvKinds
  BY DEF Kinds, HandledCommands, ObjectKinds, ObjectKind, ObjectTypes, InvKinds,
         ObjectTypeGetPubKey, ObjectTypePubKey, ObjectTypeMsg, ObjectTypeBroadcast
<1> QED
  BY <1>1, <1>2, <1>3, <1>4, <1>5, <1>6, <1>7, <1>8

(* The inductive invariant: the message has the shape of its type and is   *)
(* within its limits; after an Encode, the outcome of the call is the one  *)
(* of the message; after a Decode without an error, and until the message  *)
(* is changed, it is what the decoder made of some receiver.               *)
ObjectInv ==
  /\ kind \in Kinds /\ obj \in Receiver(kind) /\ Fits(kind, obj)
  /\ last.op = "encode" =>
       last.err = Encode(kind, obj).err /\ last.payload = Encode(kind, obj).payload
  /\ source # <<>> =>
       \E p \in Payloads[kind], old \in Receiver(kind) :
         /\ source = <<p>> /\ Fits(kind, old)
         /\ Decode(kind, old, p).msg = obj /\ Decode(kind, old, p).err = "nil"

-----------------------------------------------------------------------------
(* The calls *)

LEMMA PayloadType ==
  ASSUME NEW k \in Kinds, NEW p \in Payloads[k]
  PROVE  p \in Seq(Nat)
  BY MessageObjectAssumption DEF MessageObjectAssumption

LEMMA Limits ==
  /\ MaxAddrPerMsg \in Nat /\ MaxInvPerMsg \in Nat /\ MaxPerMsg \in Nat
  /\ MaxUserAgentLen \in Nat
  BY WireAssumption DEF WireAssumption, MaxPerMsg

(* A list is within the limit that the Add methods test.                   *)
LEMMA ListFits ==
  ASSUME NEW k \in ListKinds, NEW m
  PROVE  Fits(k, m) <=> Len(m) <= IF k = "addr" THEN MaxAddrPerMsg ELSE MaxInvPerMsg
  BY DEF Fits, ListKinds, InvKinds

LEMMA InitInv ==
  ASSUME Init
  PROVE  ObjectInv
<1>1. PICK m \in NewMessages : kind = m.kind /\ obj = m.body
  BY DEF Init
<1>2. /\ kind \in Kinds /\ obj \in Receiver(kind)
      /\ kind \in ListKinds => obj = <<>>
      /\ kind = "version" => Len(obj.userAgent) <= MaxUserAgentLen
  BY <1>1, MessageObjectAssumption DEF MessageObjectAssumption
<1>3. Len(<<>>) = 0
  OBVIOUS
<1>4. Fits(kind, obj)
  BY <1>2, <1>3, Limits DEF Fits, ListKinds, InvKinds
<1>5. last.op # "encode" /\ source = <<>>
  BY DEF Init
<1> QED
  BY <1>2, <1>4, <1>5 DEF ObjectInv

LEMMA DecodeCallInv ==
  ASSUME ObjectInv, DecodeCall
  PROVE  ObjectInv'
<1>1. PICK p \in Payloads[kind] :
        /\ obj' = Decode(kind, obj, p).msg
        /\ source' = IF Decode(kind, obj, p).err = "nil" THEN <<p>> ELSE <<>>
        /\ last'.op = "decode"
  BY DEF DecodeCall, Did
<1>2. kind' = kind /\ kind \in Kinds /\ obj \in Receiver(kind) /\ Fits(kind, obj)
  BY DEF DecodeCall, ObjectInv
<1>3. obj' \in Receiver(kind) /\ Fits(kind, obj')
  BY <1>1, <1>2, PayloadType, DecodedFits
<1>4. source' # <<>> =>
        /\ source' = <<p>> /\ Decode(kind, obj, p).msg = obj'
        /\ Decode(kind, obj, p).err = "nil"
  BY <1>1
<1> QED
  BY <1>1, <1>2, <1>3, <1>4 DEF ObjectInv

(* A call that changes the message, and keeps its shape and its limits.    *)
LEMMA ChangedInv ==
  ASSUME ObjectInv, kind' = kind, source' = <<>>, last'.op # "encode",
         obj' \in Receiver(kind), Fits(kind, obj')
  PROVE  ObjectInv'
  BY DEF ObjectInv

(* A message is not touched by a Decode that does not read.                *)
LEMMA DecodeUnbufferedInv ==
  ASSUME ObjectInv, DecodeUnbuffered
  PROVE  ObjectInv'
<1>1. kind' = kind /\ obj' = obj /\ source' = source /\ last'.op # "encode"
  BY DEF DecodeUnbuffered, Did
<1> QED
  BY <1>1 DEF ObjectInv

LEMMA EncodeCallInv ==
  ASSUME ObjectInv, EncodeCall
  PROVE  ObjectInv'
<1>1. kind' = kind /\ obj' = obj /\ source' = source
      /\ last'.err = Encode(kind, obj).err /\ last'.payload = Encode(kind, obj).payload
  BY DEF EncodeCall
<1> QED
  BY <1>1 DEF ObjectInv

(* AddAddress and AddAddresses stop at the limit.                          *)
LEMMA AddAddressesFits ==
  ASSUME ObjectInv, kind = "addr", NEW nas \in Additions
  PROVE  LET k   == Least(Room, Len(nas))
             new == obj \o SubSeq(nas, 1, k)
         IN  /\ k \in Nat /\ k <= Len(nas) /\ k <= Room /\ nas \in Seq(NetAddress)
             /\ obj \in Seq(NetAddress) /\ Room \in Nat
             /\ new \in Seq(NetAddress) /\ Len(new) = Len(obj) + k
             /\ Len(obj) + k <= MaxAddrPerMsg
             /\ SubSeq(nas, 1, k) \in Seq(NetAddress)
             /\ Len(SubSeq(nas, 1, k)) = k
<1> DEFINE k == Least(Room, Len(nas))
<1>1. obj \in Seq(NetAddress) /\ Len(obj) <= MaxAddrPerMsg
  BY DEF ObjectInv, Receiver, Fits
<1>2. nas \in Seq(NetAddress)
  BY MessageObjectAssumption DEF MessageObjectAssumption
<1>3. Room = MaxAddrPerMsg - Len(obj) /\ MaxAddrPerMsg \in Nat
  BY Limits DEF Room, MaxPerMsg
<1>4. k \in Nat /\ k <= Len(nas) /\ k <= Room /\ Len(obj) + k <= MaxAddrPerMsg
      /\ Room \in Nat
  BY <1>1, <1>2, <1>3 DEF Least
<1> HIDE DEF k
<1>5. SubSeq(nas, 1, k) \in Seq(NetAddress) /\ Len(SubSeq(nas, 1, k)) = k
  BY <1>2, <1>4
<1>6. /\ obj \o SubSeq(nas, 1, k) \in Seq(NetAddress)
      /\ Len(obj \o SubSeq(nas, 1, k)) = Len(obj) + k
  BY <1>1, <1>5
<1> QED
  BY <1>1, <1>2, <1>4, <1>5, <1>6 DEF k

LEMMA AddAddressesInv ==
  ASSUME ObjectInv, AddAddresses
  PROVE  ObjectInv'
<1>1. PICK nas \in Additions :
        obj' = obj \o SubSeq(nas, 1, Least(Room, Len(nas)))
  BY DEF AddAddresses
<1>2. kind' = kind /\ kind = "addr" /\ source' = <<>> /\ last'.op # "encode"
  BY DEF AddAddresses, Did
<1>3. obj' \in Seq(NetAddress) /\ Len(obj') <= MaxAddrPerMsg
  BY <1>1, <1>2, AddAddressesFits
<1>4. obj' \in Receiver(kind) /\ Fits(kind, obj')
  BY <1>2, <1>3 DEF Receiver, Fits, InvKinds
<1> QED
  BY <1>2, <1>4, ChangedInv

(* AddInvVect adds nothing to a full list.                                 *)
LEMMA AddInvVectInv ==
  ASSUME ObjectInv, AddInvVect
  PROVE  ObjectInv'
<1>1. PICK iv \in Vectors : obj' = IF Room > 0 THEN Append(obj, iv) ELSE obj
  BY DEF AddInvVect
<1>2. kind' = kind /\ kind \in InvKinds /\ source' = <<>> /\ last'.op # "encode"
  BY DEF AddInvVect, Did
<1>3. obj \in Seq(Nat) /\ Len(obj) <= MaxInvPerMsg
  BY <1>2 DEF ObjectInv, Receiver, Fits, InvKinds
<1>4. iv \in Nat
  BY <1>1, MessageObjectAssumption DEF MessageObjectAssumption
<1>5. Room = MaxInvPerMsg - Len(obj) /\ MaxInvPerMsg \in Nat
  BY <1>2, Limits DEF Room, MaxPerMsg, InvKinds
<1>6. obj' \in Seq(Nat) /\ Len(obj') <= MaxInvPerMsg
  BY <1>1, <1>3, <1>4, <1>5
<1>7. obj' \in Receiver(kind) /\ Fits(kind, obj')
  BY <1>2, <1>6 DEF Receiver, Fits, InvKinds
<1> QED
  BY <1>2, <1>7, ChangedInv

LEMMA ClearAddressesInv ==
  ASSUME ObjectInv, ClearAddresses
  PROVE  ObjectInv'
<1>1. /\ kind' = kind /\ kind = "addr" /\ source' = <<>> /\ last'.op # "encode"
      /\ obj' = <<>>
  BY DEF ClearAddresses, Did
<1>2. <<>> \in Seq(NetAddress) /\ Len(<<>>) = 0
  OBVIOUS
<1>3. obj' \in Receiver(kind) /\ Fits(kind, obj')
  BY <1>1, <1>2, Limits DEF Receiver, Fits, InvKinds
<1> QED
  BY <1>1, <1>3, ChangedInv

(* AddUserAgent validates before it assigns.                               *)
LEMMA AddUserAgentInv ==
  ASSUME ObjectInv, AddUserAgent
  PROVE  ObjectInv'
<1>1. PICK part \in AgentParts :
        obj' = IF Len(obj.userAgent \o part) <= MaxUserAgentLen
               THEN [obj EXCEPT !.userAgent = obj.userAgent \o part] ELSE obj
  BY DEF AddUserAgent
<1>2. kind' = kind /\ kind = "version" /\ source' = <<>> /\ last'.op # "encode"
  BY DEF AddUserAgent, Did
<1>3. obj \in MsgVersion(Time) /\ Len(obj.userAgent) <= MaxUserAgentLen
  BY <1>2 DEF ObjectInv, Receiver, Fits
<1>4. part \in Seq(Nat) /\ obj.userAgent \in Seq(Nat)
  BY <1>1, <1>3, MessageObjectAssumption DEF MessageObjectAssumption, MsgVersion
<1> DEFINE agent == obj.userAgent \o part
<1>5. agent \in Seq(Nat)
  BY <1>4
<1> HIDE DEF agent
<1>6. obj' \in MsgVersion(Time) /\ Len(obj'.userAgent) <= MaxUserAgentLen
  BY <1>1, <1>3, <1>5 DEF MsgVersion, agent
<1>7. obj' \in Receiver(kind) /\ Fits(kind, obj')
  BY <1>2, <1>6 DEF Receiver, Fits, InvKinds
<1> QED
  BY <1>2, <1>7, ChangedInv

(* AddService touches nothing that is bounded.                             *)
LEMMA AddServiceInv ==
  ASSUME ObjectInv, AddService
  PROVE  ObjectInv'
<1>1. PICK service \in Services : \E services \in 0..(obj.services + service) :
        obj' = [obj EXCEPT !.services = services]
  BY DEF AddService
<1>2. PICK services \in 0..(obj.services + service) :
        obj' = [obj EXCEPT !.services = services]
  BY <1>1
<1>3. kind' = kind /\ kind = "version" /\ source' = <<>> /\ last'.op # "encode"
  BY DEF AddService, Did
<1>4. obj \in MsgVersion(Time) /\ Len(obj.userAgent) <= MaxUserAgentLen
  BY <1>3 DEF ObjectInv, Receiver, Fits
<1>5. services \in Nat
  BY <1>2
<1>6. obj' \in MsgVersion(Time) /\ Len(obj'.userAgent) <= MaxUserAgentLen
  BY <1>2, <1>4, <1>5 DEF MsgVersion
<1>7. obj' \in Receiver(kind) /\ Fits(kind, obj')
  BY <1>3, <1>6 DEF Receiver, Fits, InvKinds
<1> QED
  BY <1>3, <1>7, ChangedInv

LEMMA StepInv ==
  ASSUME ObjectInv, [Next]_vars
  PROVE  ObjectInv'
<1>1. CASE UNCHANGED vars
  <2>1. kind' = kind /\ obj' = obj /\ last' = last /\ source' = source
    BY <1>1 DEF vars
  <2> QED
    BY <2>1 DEF ObjectInv
<1> QED
  BY <1>1, DecodeCallInv, DecodeUnbufferedInv, EncodeCallInv, AddAddressesInv, AddInvVectInv,
     ClearAddressesInv, AddUserAgentInv, AddServiceInv DEF Next

(* The message keeps the shape and the limits of its type.                 *)
THEOREM ObjectInvariant == Spec => []ObjectInv
<1>1. Init => ObjectInv
  BY InitInv
<1>2. ObjectInv /\ [Next]_vars => ObjectInv'
  BY StepInv
<1> QED
  BY <1>1, <1>2, PTL DEF Spec

(* AddAddress, AddInvVect, AddUserAgent and every Decode keep the lists and *)
(* the user agent within their limits, whichever of the calls fail.        *)
THEOREM Bounds == Spec => []WithinBounds
<1>1. ObjectInv => WithinBounds
  BY DEF ObjectInv, WithinBounds, Fits, ListKinds, InvKinds, MaxPerMsg
<1> QED
  BY <1>1, ObjectInvariant, PTL

LEMMA PrefixOfConcat ==
  ASSUME NEW S, NEW s \in Seq(S), NEW t \in Seq(S)
  PROVE  IsPrefix(s, s \o t)
  BY DEF IsPrefix

LEMMA PrefixOfSelf ==
  ASSUME NEW S, NEW s \in Seq(S)
  PROVE  IsPrefix(s, s)
  BY DEF IsPrefix

(* One step of an Add method. *)
Adds ==
  last'.op = "add" =>
       /\ IsPrefix(obj, obj')
       /\ last'.err # "nil" => Len(obj') = MaxPerMsg
       /\ last'.err = "nil" =>
            \E es \in IF kind = "addr" THEN Additions
                                      ELSE {<<iv>> : iv \in Vectors} :
              obj' = obj \o es

LEMMA AddAddressesAdds ==
  ASSUME ObjectInv, AddAddresses
  PROVE  Adds
<1>0. PICK nas \in Additions :
        /\ obj' = obj \o SubSeq(nas, 1, Least(Room, Len(nas)))
        /\ Did("add", IF Len(nas) > Room THEN "MessageError" ELSE "nil")
  BY DEF AddAddresses
<1>1. /\ obj' = obj \o SubSeq(nas, 1, Least(Room, Len(nas)))
      /\ last'.err = IF Len(nas) > Room THEN "MessageError" ELSE "nil"
  BY <1>0 DEF Did
<1>2. kind = "addr"
  BY DEF AddAddresses
<1> DEFINE k == Least(Room, Len(nas))
<1>3. /\ obj \in Seq(NetAddress) /\ nas \in Seq(NetAddress) /\ Room \in Nat
      /\ SubSeq(nas, 1, k) \in Seq(NetAddress) /\ Len(obj') = Len(obj) + k
      /\ MaxPerMsg = MaxAddrPerMsg
  BY <1>1, <1>2, AddAddressesFits DEF MaxPerMsg
<1>4. IsPrefix(obj, obj')
  BY <1>1, <1>3, PrefixOfConcat
<1>5. ASSUME Len(nas) > Room
      PROVE  Len(obj') = MaxPerMsg
  <2>1. k = Room /\ Room = MaxPerMsg - Len(obj) /\ MaxPerMsg \in Nat
    BY <1>3, <1>5, Limits DEF Least, Room
  <2> QED
    BY <1>3, <2>1
<1>6. ASSUME ~(Len(nas) > Room)
      PROVE  obj' = obj \o nas
  <2>1. k = Len(nas)
    BY <1>3, <1>6 DEF Least
  <2>2. SubSeq(nas, 1, Len(nas)) = nas
    BY <1>3
  <2> QED
    BY <1>1, <2>1, <2>2
<1> QED
  BY <1>1, <1>2, <1>4, <1>5, <1>6 DEF Adds

LEMMA AddInvVectAdds ==
  ASSUME ObjectInv, AddInvVect
  PROVE  Adds
<1>1. PICK iv \in Vectors : obj' = IF Room > 0 THEN Append(obj, iv) ELSE obj
  BY DEF AddInvVect
<1>2. /\ kind \in InvKinds /\ kind # "addr"
      /\ last'.err = IF Room > 0 THEN "nil" ELSE "MessageError"
  BY DEF AddInvVect, Did, InvKinds
<1>3. obj \in Seq(Nat) /\ Len(obj) <= MaxInvPerMsg
  BY <1>2 DEF ObjectInv, Receiver, Fits, InvKinds
<1>4. iv \in Nat
  BY <1>1, MessageObjectAssumption DEF MessageObjectAssumption
<1>5. Room = MaxPerMsg - Len(obj) /\ MaxPerMsg = MaxInvPerMsg /\ MaxInvPerMsg \in Nat
  BY <1>2, Limits DEF Room, MaxPerMsg, InvKinds
<1>6. CASE Room > 0
  <2>1. obj' = obj \o <<iv>> /\ <<iv>> \in Seq(Nat)
    BY <1>1, <1>3, <1>4, <1>6
  <2>2. IsPrefix(obj, obj')
    BY <1>3, <2>1, PrefixOfConcat
  <2> QED
    BY <1>2, <1>6, <2>1, <2>2 DEF Adds
<1>7. CASE ~(Room > 0)
  <2>1. obj' = obj /\ Len(obj) = MaxPerMsg
    BY <1>1, <1>3, <1>5, <1>7
  <2>2. IsPrefix(obj, obj')
    BY <1>3, <2>1, PrefixOfSelf
  <2> QED
    BY <1>2, <1>7, <2>1, <2>2 DEF Adds
<1> QED
  BY <1>6, <1>7

(* AddAddress, AddAddresses and AddInvVect never change what was in a list:*)
(* one that fails has filled it, one that succeeds has added all.          *)
THEOREM AddsInOrder == Spec => AddKeepsOrder
<1>1. ObjectInv /\ [Next]_vars => [Adds]_vars
  <2> SUFFICES ASSUME ObjectInv, Next
               PROVE  Adds
    OBVIOUS
  <2>1. CASE \/ DecodeCall \/ DecodeUnbuffered \/ EncodeCall
             \/ ClearAddresses \/ AddUserAgent \/ AddService
    <3>1. last'.op # "add"
      BY <2>1 DEF DecodeCall, DecodeUnbuffered, EncodeCall, ClearAddresses, AddUserAgent,
                  AddService, Did
    <3> QED
      BY <3>1 DEF Adds
  <2> QED
    BY <2>1, AddAddressesAdds, AddInvVectAdds DEF Next
<1> QED
  BY <1>1, ObjectInvariant, PTL DEF Spec, AddKeepsOrder, Adds

LEMMA BuiltEncodes ==
  ASSUME ObjectInv
  PROVE  BuiltIsEncodable
<1> SUFFICES ASSUME last.op = "encode", kind \in ListKinds \cup {"version"}
             PROVE  /\ last.err = "nil"
                    /\ kind \in ListKinds => Len(last.payload) <= MaxPayloadLength(kind)
  BY DEF BuiltIsEncodable
<1>1. /\ last.err = Encode(kind, obj).err /\ last.payload = Encode(kind, obj).payload
      /\ obj \in Receiver(kind) /\ Fits(kind, obj)
  BY DEF ObjectInv
<1>2. CASE kind = "addr"
  <2>1. /\ Encode(kind, obj) = EncodeAddr(obj) /\ obj \in Seq(NetAddress)
        /\ Len(obj) <= MaxAddrPerMsg /\ MaxPayloadLength(kind) = 1 + MaxAddrPerMsg * 4
    BY <1>1, <1>2 DEF Encode, Receiver, Fits, MaxPayloadLength, MaxAddrPayload,
                      MaxVarIntPayload, MaxNetAddressPayload
  <2>2. EncodeAddr(obj).err = "nil" /\ Len(EncodeAddr(obj).payload) = 1 + 4 * Len(obj)
    BY <2>1, AddrRoundTrip
  <2>3. Len(obj) \in Nat /\ MaxAddrPerMsg \in Nat
    BY <2>1, Limits
  <2>4. 1 + 4 * Len(obj) <= 1 + MaxAddrPerMsg * 4
    BY <2>1, <2>3
  <2> QED
    BY <1>1, <2>1, <2>2, <2>4
<1>3. CASE kind \in InvKinds
  <2>1. /\ Encode(kind, obj) = EncodeInv(obj) /\ obj \in Seq(Nat)
        /\ Len(obj) <= MaxInvPerMsg /\ MaxPayloadLength(kind) = 1 + MaxInvPerMsg * 1
    BY <1>1, <1>3 DEF Encode, Receiver, Fits, MaxPayloadLength, MaxInvPayload,
                      MaxGetDataPayload, MaxVarIntPayload, MaxInvVectPayload,
                      InvKinds, EncodeInv, EncodeGetData
  <2>2. EncodeInv(obj).err = "nil" /\ Len(EncodeInv(obj).payload) = 1 + Len(obj)
    BY <2>1, InvRoundTrip
  <2>3. Len(obj) \in Nat /\ MaxInvPerMsg \in Nat
    BY <2>1, Limits
  <2>4. 1 + Len(obj) <= 1 + MaxInvPerMsg * 1
    BY <2>1, <2>3
  <2> QED
    BY <1>1, <2>1, <2>2, <2>4
<1>4. CASE kind = "version"
  <2>1. /\ Encode(kind, obj) = EncodeVersion(obj) /\ obj \in MsgVersion(Time)
        /\ Len(obj.userAgent) <= MaxUserAgentLen
    BY <1>1, <1>4 DEF Encode, Receiver, Fits
  <2>2. obj.userAgent \in Seq(Nat)
    BY <2>1 DEF MsgVersion
  <2>3. ~(Len(obj.userAgent) > MaxUserAgentLen)
    BY <2>1, <2>2, Limits
  <2>4. EncodeVersion(obj).err = "nil"
    BY <2>3 DEF EncodeVersion, Encoded
  <2> QED
    BY <1>1, <1>4, <2>1, <2>4 DEF ListKinds, InvKinds
<1> QED
  BY <1>2, <1>3, <1>4 DEF ListKinds

(* A list that was built or decoded, and a version message, can always be  *)
(* encoded, and a list is within the MaxPayloadLength of its type.         *)
THEOREM BuiltEncodable == Spec => []BuiltIsEncodable
  BY BuiltEncodes, ObjectInvariant, PTL

-----------------------------------------------------------------------------
(* Decode splices the payload into its receiver *)

NamesVersion(t) ==
  /\ Len(t) = 8
  /\ t[1] = "protocolVersion" /\ t[2] = "services" /\ t[3] = "timestamp"
  /\ t[4] = "addrYou" /\ t[5] = "addrMe" /\ t[6] = "nonce"
  /\ t[7] = "userAgent" /\ t[8] = "streamNumbers"

LEMMA VersionNames ==
  ASSUME kind = "version", NEW m
  PROVE  NamesVersion(Assigned(m))
  BY DEF Assigned, NamesVersion

(* The object, its keys, and what follows them. *)
NamesObject(t) ==
  /\ t[1] = "nonce" /\ t[2] = "objectType" /\ t[3] = "expires"
  /\ t[4] = "version" /\ t[5] = "stream"

NamesKeys(t) ==
  NamesObject(t) /\ t[6] = "signingKey" /\ t[7] = "encryptKey" /\ t[8] = "behavior"

LEMMA GetPubKeyNames ==
  ASSUME kind = "getpubkey", NEW m \in MsgGetPubKey(Time, Nat)
  PROVE  LET t == Assigned(m)
         IN  /\ NamesObject(t) /\ Len(t) = 6
             /\ t[6] = IF m.version >= 4 THEN "tag" ELSE "ripe"
  BY DEF Assigned, NamesObject, TagBasedRipeVersion

LEMMA SealedNames ==
  ASSUME kind \in {"msg", "broadcast"}, NEW m
  PROVE  LET t == Assigned(m)
         IN  NamesObject(t) /\ Len(t) = 6 /\ t[6] = "encrypted"
  BY DEF Assigned, NamesObject

LEMMA PubKeyNames ==
  ASSUME kind = "pubkey", NEW m \in MsgPubKey(Time, Nat)
  PROVE  LET t == Assigned(m)
         IN  /\ m.version >= 4 =>
                  /\ NamesObject(t) /\ Len(t) = 7
                  /\ t[6] = "tag" /\ t[7] = "encrypted"
             /\ m.version = 3 =>
                  /\ NamesKeys(t) /\ Len(t) = 11 /\ t[9] = "nonceTrials"
                  /\ t[10] = "extraBytes" /\ t[11] = "signature"
             /\ m.version < 3 => NamesKeys(t) /\ Len(t) = 8
<1> DEFINE object == <<"nonce", "objectType", "expires", "version", "stream">>
           keys   == <<"signingKey", "encryptKey", "behavior">>
           more   == <<"nonceTrials", "extraBytes", "signature">>
           t == Assigned(m)
<1>1. m.version \in Nat
  BY DEF MsgPubKey
<1>2. CASE m.version >= 4
  <2>1. t = object \o <<"tag", "encrypted">>
    BY <1>1, <1>2 DEF Assigned, EncryptedPubKeyVersion, ExtendedPubKeyVersion
  <2> QED
    BY <1>1, <1>2, <2>1 DEF NamesObject
<1>3. CASE m.version = 3
  <2>1. t = object \o keys \o more
    BY <1>1, <1>3 DEF Assigned, EncryptedPubKeyVersion, ExtendedPubKeyVersion
  <2> QED
    BY <1>1, <1>3, <2>1 DEF NamesKeys, NamesObject
<1>4. CASE m.version < 3
  <2>1. t = object \o keys
    BY <1>1, <1>4 DEF Assigned, EncryptedPubKeyVersion, ExtendedPubKeyVersion
  <2> QED
    BY <1>1, <1>4, <2>1 DEF NamesKeys, NamesObject
<1> QED
  BY <1>1, <1>2, <1>3, <1>4

(* A message of which every field is the new one or the old one, by its    *)
(* place.                                                                  *)
LEMMA SplicedByField ==
  ASSUME NEW old, NEW new, NEW n, NEW d, NEW names,
         old = [f \in names |-> old[f]], d = [f \in names |-> d[f]],
         \A f \in names :
           d[f] = IF \E i \in 1..n : Assigned(new)[i] = f THEN new[f] ELSE old[f]
  PROVE  d = Spliced(old, new, n)
<1>1. DOMAIN old = names
  OBVIOUS
<1> QED
  BY <1>1 DEF Spliced

(* The fields that a version decoder has assigned. *)
VersionRead(p) ==
  IF Listed(p) THEN 8 ELSE IF AgentErr(p) = "nil" THEN 7
  ELSE IF ~(Len(p) < 10) THEN 6 ELSE IF ~(Len(p) < 9) THEN 5
  ELSE IF ~(Len(p) < 6) THEN 4 ELSE IF ~(Len(p) < 3) THEN 3 ELSE Len(p)

LEMMA VersionReads ==
  ASSUME NEW p \in Seq(Nat)
  PROVE  LET n == VersionRead(p)
         IN  /\ n \in 0..8
             /\ VersionErr(p) = "nil" => n = 8
             /\ n >= 1 <=> 1 <= Len(p)
             /\ n >= 2 <=> 2 <= Len(p)
             /\ n >= 3 <=> ~(Len(p) < 3)
             /\ n >= 4 <=> ~(Len(p) < 6)
             /\ n >= 5 <=> ~(Len(p) < 9)
             /\ n >= 6 <=> 10 <= Len(p)
             /\ n >= 7 <=> AgentErr(p) = "nil"
             /\ n >= 8 <=> Listed(p)
<1>1. AgentErr(p) = "nil" => Len(p) >= 11
  BY DEF AgentErr
<1>2. Listed(p) => AgentErr(p) = "nil"
  BY DEF Listed
<1>3. VersionErr(p) = "nil" => Listed(p)
  BY DEF VersionErr, Listed
<1> DEFINE l == Len(p)
           n == VersionRead(p)
<1>4. l \in Nat
  OBVIOUS
<1>5. CASE Listed(p)
  <2>1. n = 8 /\ l >= 11 /\ AgentErr(p) = "nil"
    BY <1>1, <1>2, <1>5 DEF VersionRead
  <2> QED
    BY <1>4, <1>5, <2>1
<1>6. CASE ~Listed(p) /\ AgentErr(p) = "nil"
  <2>1. n = 7 /\ l >= 11 /\ VersionErr(p) # "nil"
    BY <1>1, <1>3, <1>6 DEF VersionRead
  <2> QED
    BY <1>4, <1>6, <2>1
<1>7. CASE AgentErr(p) # "nil"
  <2>1. ~Listed(p) /\ VersionErr(p) # "nil"
    BY <1>2, <1>3, <1>7
  <2>2. n = IF ~(l < 10) THEN 6 ELSE IF ~(l < 9) THEN 5
            ELSE IF ~(l < 6) THEN 4 ELSE IF ~(l < 3) THEN 3 ELSE l
    BY <1>7, <2>1 DEF VersionRead
  <2> HIDE DEF l, n
  <2>3. /\ n \in 0..6
        /\ n >= 1 <=> 1 <= l
        /\ n >= 2 <=> 2 <= l
        /\ n >= 3 <=> ~(l < 3)
        /\ n >= 4 <=> ~(l < 6)
        /\ n >= 5 <=> ~(l < 9)
        /\ n >= 6 <=> 10 <= l
    BY ONLY <1>4, <2>2
  <2> QED
    BY <1>7, <2>1, <2>3 DEF l, n
<1> QED
  BY <1>5, <1>6, <1>7

LEMMA VersionSpliced ==
  ASSUME kind = "version", NEW old \in MsgVersion(Time), NEW e \in MsgVersion(Time),
         NEW p \in Seq(Nat)
  PROVE  DecodeVersion(old, p).msg
           = Spliced(old, DecodeVersion(e, p).msg, VersionRead(p))
<1> DEFINE d == DecodeVersion(old, p).msg
           new == DecodeVersion(e, p).msg
           n == VersionRead(p)
           t == Assigned(new)
           names == {"protocolVersion", "services", "timestamp", "addrYou",
                     "addrMe", "nonce", "userAgent", "streamNumbers"}
<1>1. VersionIs(d,
        Field(p, 1, old.protocolVersion), Field(p, 2, old.services),
        IF Len(p) < 3 THEN old.timestamp ELSE <<p[3], 0>>,
        IF Len(p) < 6 THEN old.addrYou ELSE ReadNetAddress(p, 4, FALSE),
        IF Len(p) < 9 THEN old.addrMe ELSE ReadNetAddress(p, 7, FALSE),
        Field(p, 10, old.nonce),
        IF AgentErr(p) = "nil" THEN AgentOf(p) ELSE old.userAgent,
        IF Listed(p) THEN StreamsOf(p) ELSE old.streamNumbers)
  BY VersionDecoded, Zenon
<1>2. VersionIs(new,
        Field(p, 1, e.protocolVersion), Field(p, 2, e.services),
        IF Len(p) < 3 THEN e.timestamp ELSE <<p[3], 0>>,
        IF Len(p) < 6 THEN e.addrYou ELSE ReadNetAddress(p, 4, FALSE),
        IF Len(p) < 9 THEN e.addrMe ELSE ReadNetAddress(p, 7, FALSE),
        Field(p, 10, e.nonce),
        IF AgentErr(p) = "nil" THEN AgentOf(p) ELSE e.userAgent,
        IF Listed(p) THEN StreamsOf(p) ELSE e.streamNumbers)
  BY VersionDecoded, Zenon
<1>3. /\ n \in 0..8
      /\ n >= 1 <=> 1 <= Len(p)
      /\ n >= 2 <=> 2 <= Len(p)
      /\ n >= 3 <=> ~(Len(p) < 3)
      /\ n >= 4 <=> ~(Len(p) < 6)
      /\ n >= 5 <=> ~(Len(p) < 9)
      /\ n >= 6 <=> 10 <= Len(p)
      /\ n >= 7 <=> AgentErr(p) = "nil"
      /\ n >= 8 <=> Listed(p)
  BY VersionReads, Zenon
<1>4. NamesVersion(t)
  BY VersionNames, Zenon
<1> HIDE DEF d, new, n, t
<1>5. /\ d.protocolVersion = IF n >= 1 THEN new.protocolVersion ELSE old.protocolVersion
      /\ d.services = IF n >= 2 THEN new.services ELSE old.services
      /\ d.timestamp = IF n >= 3 THEN new.timestamp ELSE old.timestamp
      /\ d.addrYou = IF n >= 4 THEN new.addrYou ELSE old.addrYou
      /\ d.addrMe = IF n >= 5 THEN new.addrMe ELSE old.addrMe
      /\ d.nonce = IF n >= 6 THEN new.nonce ELSE old.nonce
      /\ d.userAgent = IF n >= 7 THEN new.userAgent ELSE old.userAgent
      /\ d.streamNumbers = IF n >= 8 THEN new.streamNumbers ELSE old.streamNumbers
  BY ONLY <1>1, <1>2, <1>3, Zenon DEF VersionIs, Field
<1>6. old = [f \in names |-> old[f]] /\ d = [f \in names |-> d[f]]
  <2>1. d \in MsgVersion(Time)
    BY <1>1 DEF VersionIs
  <2> QED
    BY <2>1 DEF MsgVersion
<1>7. /\ (\E i \in 1..n : t[i] = "protocolVersion") <=> n >= 1
      /\ (\E i \in 1..n : t[i] = "services") <=> n >= 2
      /\ (\E i \in 1..n : t[i] = "timestamp") <=> n >= 3
      /\ (\E i \in 1..n : t[i] = "addrYou") <=> n >= 4
      /\ (\E i \in 1..n : t[i] = "addrMe") <=> n >= 5
      /\ (\E i \in 1..n : t[i] = "nonce") <=> n >= 6
      /\ (\E i \in 1..n : t[i] = "userAgent") <=> n >= 7
      /\ (\E i \in 1..n : t[i] = "streamNumbers") <=> n >= 8
  <2>1. n \in 0..8
    BY <1>3
  <2> QED
    BY ONLY <1>4, <2>1 DEF NamesVersion
<1>8. ASSUME NEW f \in names
      PROVE  d[f] = IF \E i \in 1..n : t[i] = f THEN new[f] ELSE old[f]
  BY ONLY <1>5, <1>7, <1>8, SMTT(30)
<1> HIDE DEF names
<1>9. d = Spliced(old, new, n)
  BY <1>6, <1>8, SplicedByField, SMTT(30) DEF t
<1> QED
  BY <1>9 DEF d, new, n

(* The fields that the decoder of an object has assigned, where `more` are *)
(* assigned once the object was read.                                      *)
ObjectRead(p, type, more) ==
  IF ObjectErr(p, type) = "nil" THEN more
  ELSE IF Typed(p, type) THEN IF Len(p) >= 4 THEN 5 ELSE 4
  ELSE IF Len(p) >= 3 THEN 2 ELSE IF Len(p) >= 1 THEN 1 ELSE 0

LEMMA ObjectReads ==
  ASSUME NEW p \in Seq(Nat), NEW type, NEW more \in Nat, more >= 6
  PROVE  LET n == ObjectRead(p, type, more)
         IN  /\ n \in Nat /\ n \in 0..5 \cup {more}
             /\ n >= 1 <=> 1 <= Len(p)
             /\ n >= 2 <=> 3 <= Len(p)
             /\ n >= 3 <=> Typed(p, type)
             /\ n >= 4 <=> Typed(p, type)
             /\ n >= 5 <=> Typed(p, type) /\ Len(p) >= 4
             /\ n >= 6 <=> ObjectErr(p, type) = "nil"
<1> DEFINE n == ObjectRead(p, type, more)
<1>1. /\ Typed(p, type) => Len(p) >= 3
      /\ ObjectErr(p, type) = "nil" => Typed(p, type) /\ Len(p) >= 5
      /\ Len(p) \in Nat
  BY HeadRead DEF Typed
<1>2. CASE ObjectErr(p, type) = "nil"
  <2>1. n = more /\ Typed(p, type) /\ Len(p) >= 5
    BY <1>1, <1>2 DEF ObjectRead
  <2> QED
    BY <1>1, <1>2, <2>1
<1>3. CASE ObjectErr(p, type) # "nil" /\ Typed(p, type)
  <2>1. n = (IF Len(p) >= 4 THEN 5 ELSE 4) /\ Len(p) >= 3
    BY <1>1, <1>3 DEF ObjectRead
  <2> QED
    BY <1>1, <1>3, <2>1
<1>4. CASE ~Typed(p, type)
  <2>1. /\ n = (IF Len(p) >= 3 THEN 2 ELSE IF Len(p) >= 1 THEN 1 ELSE 0)
        /\ ObjectErr(p, type) # "nil"
    BY <1>1, <1>4 DEF ObjectRead
  <2> QED
    BY <1>1, <1>4, <2>1
<1> QED
  BY <1>2, <1>3, <1>4

(* The fields of an object, the new one or the old one. *)
HeadSplices(d, old, new, n) ==
  /\ d.nonce = IF n >= 1 THEN new.nonce ELSE old.nonce
  /\ d.objectType = IF n >= 2 THEN new.objectType ELSE old.objectType
  /\ d.expires = IF n >= 3 THEN new.expires ELSE old.expires
  /\ d.version = IF n >= 4 THEN new.version ELSE old.version
  /\ d.stream = IF n >= 5 THEN new.stream ELSE old.stream

LEMMA HeadSpliced ==
  ASSUME NEW p \in Seq(Nat), NEW type, NEW more \in Nat, more >= 6,
         NEW old, NEW e, NEW d, NEW new,
         HeadIs(d, old, p, type), HeadIs(new, e, p, type)
  PROVE  HeadSplices(d, old, new, ObjectRead(p, type, more))
<1> DEFINE n == ObjectRead(p, type, more)
<1>1. /\ n >= 1 <=> 1 <= Len(p)
      /\ n >= 2 <=> 3 <= Len(p)
      /\ n >= 3 <=> Typed(p, type)
      /\ n >= 4 <=> Typed(p, type)
      /\ n >= 5 <=> Typed(p, type) /\ Len(p) >= 4
  BY ObjectReads, Zenon
<1> HIDE DEF n
<1>2. HeadSplices(d, old, new, n)
  BY <1>1, Zenon DEF HeadIs, HeadSplices, NonceOf, TypeOf, ExpiresOf, VersionOf, StreamOf, Field
<1> QED
  BY <1>2 DEF n

LEMMA GetPubKeySpliced ==
  ASSUME kind = "getpubkey", NEW old \in MsgGetPubKey(Time, Nat),
         NEW e \in MsgGetPubKey(Time, Nat), NEW p \in Seq(Nat)
  PROVE  DecodeGetPubKey(old, p).msg
           = Spliced(old, DecodeGetPubKey(e, p).msg,
                     ObjectRead(p, ObjectTypeGetPubKey, 6))
<1> DEFINE type == ObjectTypeGetPubKey
           d == DecodeGetPubKey(old, p).msg
           new == DecodeGetPubKey(e, p).msg
           n == ObjectRead(p, type, 6)
           t == Assigned(new)
           ok == ObjectErr(p, type) = "nil"
           tagged == VarInt(p, 4) >= 4
           key == <<VarInt(p, 6)>>
           names == {"nonce", "objectType", "expires", "version", "stream",
                     "ripe", "tag"}
<1>1. /\ d \in MsgGetPubKey(Time, Nat) /\ HeadIs(d, old, p, type)
      /\ d.ripe = IF ok /\ ~tagged THEN key ELSE old.ripe
      /\ d.tag = IF ok /\ tagged THEN key ELSE old.tag
  BY GetPubKeyDecoded, Zenon
<1>2. /\ new \in MsgGetPubKey(Time, Nat) /\ HeadIs(new, e, p, type)
      /\ new.ripe = IF ok /\ ~tagged THEN key ELSE e.ripe
      /\ new.tag = IF ok /\ tagged THEN key ELSE e.tag
  BY GetPubKeyDecoded, Zenon
<1>3. n \in 0..6 /\ (n >= 6 <=> ok)
  <2>1. 6 \in Nat /\ 6 >= 6
    OBVIOUS
  <2>2. n \in 0..5 \cup {6} /\ (n >= 6 <=> ok)
    BY <2>1, ObjectReads, Zenon
  <2> QED
    BY <2>2
<1>4. NamesObject(t) /\ t[6] = IF new.version >= 4 THEN "tag" ELSE "ripe"
  BY <1>2, GetPubKeyNames, Zenon
<1>5. ok => new.version = VarInt(p, 4)
  BY <1>2, HeadRead DEF HeadIs, VersionOf
<1>6. HeadSplices(d, old, new, n)
  <2>1. 6 \in Nat /\ 6 >= 6
    OBVIOUS
  <2> QED
    BY <1>1, <1>2, <2>1, HeadSpliced, Zenon
<1>7. old = [f \in names |-> old[f]] /\ d = [f \in names |-> d[f]]
  <2>1. d \in MsgGetPubKey(Time, Nat)
    BY <1>1
  <2> HIDE DEF d
  <2> QED
    BY <2>1 DEF MsgGetPubKey
<1> HIDE DEF type, d, new, n, t, ok, tagged, key
<1>8. /\ (\E i \in 1..n : t[i] = "nonce") <=> n >= 1
      /\ (\E i \in 1..n : t[i] = "objectType") <=> n >= 2
      /\ (\E i \in 1..n : t[i] = "expires") <=> n >= 3
      /\ (\E i \in 1..n : t[i] = "version") <=> n >= 4
      /\ (\E i \in 1..n : t[i] = "stream") <=> n >= 5
      /\ (\E i \in 1..n : t[i] = "tag") <=> n >= 6 /\ t[6] = "tag"
      /\ (\E i \in 1..n : t[i] = "ripe") <=> n >= 6 /\ t[6] = "ripe"
  <2>1. n \in 0..6 /\ (t[6] = "tag" \/ t[6] = "ripe") /\ NamesObject(t)
    BY <1>3, <1>4
  <2> QED
    BY ONLY <2>1, SMTT(30) DEF NamesObject
<1>9. /\ d.tag = IF n >= 6 /\ t[6] = "tag" THEN new.tag ELSE old.tag
      /\ d.ripe = IF n >= 6 /\ t[6] = "ripe" THEN new.ripe ELSE old.ripe
  <2>1. ok => (tagged <=> t[6] = "tag") /\ (~tagged <=> t[6] = "ripe")
    BY ONLY <1>4, <1>5 DEF tagged
  <2> QED
    BY ONLY <1>1, <1>2, <1>3, <2>1
<1>10. ASSUME NEW f \in names
       PROVE  d[f] = IF \E i \in 1..n : t[i] = f THEN new[f] ELSE old[f]
  BY ONLY <1>6, <1>8, <1>9, <1>10 DEF HeadSplices
<1> HIDE DEF names
<1>11. d = Spliced(old, new, n)
  BY <1>7, <1>10, SplicedByField, SMTT(30) DEF t
<1> QED
  BY <1>11 DEF d, new, n, type

LEMMA SealedSpliced ==
  ASSUME kind \in {"msg", "broadcast"}, NEW old \in MsgSealed(Time, Nat),
         NEW e \in MsgSealed(Time, Nat), NEW p \in Seq(Nat), NEW type
  PROVE  DecodeSealed(old, p, type).msg
           = Spliced(old, DecodeSealed(e, p, type).msg, ObjectRead(p, type, 6))
<1> DEFINE d == DecodeSealed(old, p, type).msg
           new == DecodeSealed(e, p, type).msg
           n == ObjectRead(p, type, 6)
           t == Assigned(new)
           ok == ObjectErr(p, type) = "nil"
           rest == SubSeq(p, 6, Len(p))
           names == {"nonce", "objectType", "expires", "version", "stream",
                     "encrypted"}
<1>1. /\ d \in MsgSealed(Time, Nat) /\ HeadIs(d, old, p, type)
      /\ d.encrypted = IF ok THEN rest ELSE old.encrypted
  BY SealedDecoded, ZenonT(40)
<1>2. /\ new \in MsgSealed(Time, Nat) /\ HeadIs(new, e, p, type)
      /\ new.encrypted = IF ok THEN rest ELSE e.encrypted
  BY SealedDecoded, ZenonT(40)
<1>3. n \in 0..6 /\ (n >= 6 <=> ok)
  <2>1. 6 \in Nat /\ 6 >= 6
    OBVIOUS
  <2>2. n \in 0..5 \cup {6} /\ (n >= 6 <=> ok)
    BY <2>1, ObjectReads, Zenon
  <2> QED
    BY <2>2
<1>4. NamesObject(t) /\ t[6] = "encrypted"
  BY SealedNames, Zenon
<1>5. HeadSplices(d, old, new, n)
  <2>1. 6 \in Nat /\ 6 >= 6
    OBVIOUS
  <2> QED
    BY <1>1, <1>2, <2>1, HeadSpliced, Zenon
<1>6. old = [f \in names |-> old[f]] /\ d = [f \in names |-> d[f]]
  <2>1. d \in MsgSealed(Time, Nat)
    BY <1>1
  <2> HIDE DEF d
  <2> QED
    BY <2>1 DEF MsgSealed
<1> HIDE DEF d, new, n, t, ok, rest
<1>7. /\ (\E i \in 1..n : t[i] = "nonce") <=> n >= 1
      /\ (\E i \in 1..n : t[i] = "objectType") <=> n >= 2
      /\ (\E i \in 1..n : t[i] = "expires") <=> n >= 3
      /\ (\E i \in 1..n : t[i] = "version") <=> n >= 4
      /\ (\E i \in 1..n : t[i] = "stream") <=> n >= 5
      /\ (\E i \in 1..n : t[i] = "encrypted") <=> n >= 6
  <2>1. n \in 0..6
    BY <1>3
  <2> QED
    BY ONLY <1>4, <2>1 DEF NamesObject
<1>8. d.encrypted = IF n >= 6 THEN new.encrypted ELSE old.encrypted
  BY ONLY <1>1, <1>2, <1>3
<1>9. ASSUME NEW f \in names
      PROVE  d[f] = IF \E i \in 1..n : t[i] = f THEN new[f] ELSE old[f]
  BY ONLY <1>5, <1>7, <1>8, <1>9 DEF HeadSplices
<1> HIDE DEF names
<1>10. d = Spliced(old, new, n)
  BY <1>6, <1>9, SplicedByField DEF t
<1> QED
  BY <1>10 DEF d, new, n

(* The fields that the decoder of a public key has assigned. *)
PubKeyMore(p) ==
  IF SealedIn(p) THEN IF Len(p) < 6 THEN 6 ELSE 7
  ELSE IF ExtendedIn(p) THEN
    IF Len(p) < 9 THEN 9 ELSE IF Len(p) < 11 \/ Huge(p, 11) THEN 10 ELSE 11
  ELSE IF Len(p) < 6 THEN 7 ELSE 8

PubKeyRead(p) == ObjectRead(p, ObjectTypePubKey, PubKeyMore(p))

PubKeyNameSet ==
  {"nonce", "objectType", "expires", "version", "stream", "behavior",
   "signingKey", "encryptKey", "nonceTrials", "extraBytes", "signature",
   "tag", "encrypted"}

LEMMA PubKeyMoreType ==
  ASSUME NEW p
  PROVE  PubKeyMore(p) \in Nat /\ PubKeyMore(p) >= 6
  BY DEF PubKeyMore

(* The names of an extended public key, of which the first n are assigned. *)
ExtendedPlaced(t, n) ==
  /\ \A g \in {"nonce", "objectType", "expires", "version", "stream",
               "signingKey", "encryptKey", "behavior", "nonceTrials"} :
       \E i \in 1..n : t[i] = g
  /\ (\E i \in 1..n : t[i] = "extraBytes") <=> n >= 10
  /\ (\E i \in 1..n : t[i] = "signature") <=> n >= 11
  /\ \A g \in {"tag", "encrypted"} : ~\E i \in 1..n : t[i] = g

LEMMA ExtendedPlaces ==
  ASSUME NEW t, NamesKeys(t), t[9] = "nonceTrials", t[10] = "extraBytes",
         t[11] = "signature", NEW n \in 9..11
  PROVE  ExtendedPlaced(t, n)
<1>1. /\ t[1] = "nonce" /\ t[2] = "objectType" /\ t[3] = "expires"
      /\ t[4] = "version" /\ t[5] = "stream" /\ t[6] = "signingKey"
      /\ t[7] = "encryptKey" /\ t[8] = "behavior"
  BY DEF NamesKeys, NamesObject
<1>2. \A i \in 1..9 : i \in 1..n
  OBVIOUS
<1>3. \A i \in 1..9 : i = 1 \/ i = 2 \/ i = 3 \/ i = 4 \/ i = 5 \/ i = 6 \/ i = 7
                      \/ i = 8 \/ i = 9
  OBVIOUS
<1>4. \A i \in 1..9 : t[i] \notin {"extraBytes", "signature", "tag", "encrypted"}
  BY ONLY <1>1, <1>3, t[9] = "nonceTrials"
<1>5. \A i \in 1..n : i \in 1..9 \/ i = 10 \/ i = 11
  OBVIOUS
<1>6. /\ (\E i \in 1..n : t[i] = "extraBytes") <=> n >= 10
      /\ (\E i \in 1..n : t[i] = "signature") <=> n >= 11
  BY <1>4, <1>5
<1>7. \A g \in {"tag", "encrypted"} : ~\E i \in 1..n : t[i] = g
  BY <1>4, <1>5
<1>8. /\ 1 \in 1..n /\ 2 \in 1..n /\ 3 \in 1..n /\ 4 \in 1..n /\ 5 \in 1..n
      /\ 6 \in 1..n /\ 7 \in 1..n /\ 8 \in 1..n /\ 9 \in 1..n
  OBVIOUS
<1>9. \A g \in {"nonce", "objectType", "expires", "version", "stream",
                "signingKey", "encryptKey", "behavior", "nonceTrials"} :
        \E i \in 1..n : t[i] = g
  BY ONLY <1>1, <1>8, t[9] = "nonceTrials", Zenon
<1> QED
  BY <1>6, <1>7, <1>9 DEF ExtendedPlaced

LEMMA PubKeySpliced ==
  ASSUME kind = "pubkey", NEW old \in MsgPubKey(Time, Nat),
         NEW e \in MsgPubKey(Time, Nat), NEW p \in Seq(Nat)
  PROVE  DecodePubKey(old, p).msg
           = Spliced(old, DecodePubKey(e, p).msg, PubKeyRead(p))
<1> DEFINE type == ObjectTypePubKey
           d == DecodePubKey(old, p).msg
           new == DecodePubKey(e, p).msg
           n == PubKeyRead(p)
           t == Assigned(new)
<1>1. /\ d \in MsgPubKey(Time, Nat) /\ HeadIs(d, old, p, type)
      /\ PubKeyTail(d,
           IF KeyedIn(p) THEN Field(p, 6, old.behavior) ELSE old.behavior,
           IF KeyedIn(p) THEN <<VarInt(p, 7)>> ELSE old.signingKey,
           IF KeyedIn(p) THEN <<VarInt(p, 8)>> ELSE old.encryptKey,
           IF ExtendedIn(p) THEN VarInt(p, 9) ELSE old.nonceTrials,
           IF ExtendedIn(p) /\ ~(Len(p) < 9) THEN VarInt(p, 10) ELSE old.extraBytes,
           IF ExtendedIn(p) /\ ~(Len(p) < 11) /\ ~Huge(p, 11)
           THEN SignatureOf(p) ELSE old.signature,
           IF SealedIn(p) THEN <<VarInt(p, 6)>> ELSE old.tag,
           IF SealedIn(p) /\ ~(Len(p) < 6) THEN SubSeq(p, 7, Len(p))
                                           ELSE old.encrypted)
  BY PubKeyDecoded, Zenon
<1>2. /\ new \in MsgPubKey(Time, Nat) /\ HeadIs(new, e, p, type)
      /\ PubKeyTail(new,
           IF KeyedIn(p) THEN Field(p, 6, e.behavior) ELSE e.behavior,
           IF KeyedIn(p) THEN <<VarInt(p, 7)>> ELSE e.signingKey,
           IF KeyedIn(p) THEN <<VarInt(p, 8)>> ELSE e.encryptKey,
           IF ExtendedIn(p) THEN VarInt(p, 9) ELSE e.nonceTrials,
           IF ExtendedIn(p) /\ ~(Len(p) < 9) THEN VarInt(p, 10) ELSE e.extraBytes,
           IF ExtendedIn(p) /\ ~(Len(p) < 11) /\ ~Huge(p, 11)
           THEN SignatureOf(p) ELSE e.signature,
           IF SealedIn(p) THEN <<VarInt(p, 6)>> ELSE e.tag,
           IF SealedIn(p) /\ ~(Len(p) < 6) THEN SubSeq(p, 7, Len(p))
                                           ELSE e.encrypted)
  BY PubKeyDecoded, Zenon
<1>3. /\ n \in Nat /\ n \in 0..5 \cup {PubKeyMore(p)}
      /\ n >= 6 <=> ObjectErr(p, type) = "nil"
  BY PubKeyMoreType, ObjectReads, Zenon DEF PubKeyRead
<1>4. HeadSplices(d, old, new, n)
  BY <1>1, <1>2, PubKeyMoreType, HeadSpliced, Zenon DEF PubKeyRead
<1>5. ObjectErr(p, type) = "nil" => new.version = VarInt(p, 4)
  BY <1>2, HeadRead DEF HeadIs, VersionOf
<1>6. /\ new.version \in Nat /\ VarInt(p, 4) \in Nat
  <2>1. new \in MsgPubKey(Time, Nat)
    BY <1>2
  <2>2. VarInt(p, 4) \in Nat
    BY VarIntType
  <2> HIDE DEF new
  <2>3. new.version \in Nat
    BY ONLY <2>1 DEF MsgPubKey
  <2> QED
    BY <2>2, <2>3
<1>7. /\ new.version >= 4 =>
           /\ NamesObject(t) /\ Len(t) = 7
           /\ t[6] = "tag" /\ t[7] = "encrypted"
      /\ new.version = 3 =>
           /\ NamesKeys(t) /\ Len(t) = 11 /\ t[9] = "nonceTrials"
           /\ t[10] = "extraBytes" /\ t[11] = "signature"
      /\ new.version < 3 => NamesKeys(t) /\ Len(t) = 8
  BY <1>2, PubKeyNames, Zenon
<1>8. /\ old = [f \in PubKeyNameSet |-> old[f]] 
      /\ d = [f \in PubKeyNameSet |-> d[f]]
  <2>1. d \in MsgPubKey(Time, Nat)
    BY <1>1
  <2> HIDE DEF d
  <2> QED
    BY <2>1 DEF MsgPubKey, PubKeyNameSet
<1> HIDE DEF type, d, new, n, t
<1>9. ASSUME NEW f \in PubKeyNameSet
      PROVE  d[f] = IF \E i \in 1..n : t[i] = f THEN new[f] ELSE old[f]
  <2>1. CASE ObjectErr(p, type) # "nil"
    <3>1. n \in 0..5 /\ NamesObject(t) /\ ~SealedIn(p) /\ ~KeyedIn(p) /\ ~ExtendedIn(p)
      <4>1. n \in Nat /\ ~(n >= 6)
        BY <1>3, <2>1
      <4>2. NamesObject(t)
        BY <1>6, <1>7 DEF NamesKeys
      <4> QED
        BY <2>1, <4>1, <4>2 DEF SealedIn, KeyedIn, ExtendedIn, type
    <3>2. /\ (\E i \in 1..n : t[i] = "nonce") <=> n >= 1
          /\ (\E i \in 1..n : t[i] = "objectType") <=> n >= 2
          /\ (\E i \in 1..n : t[i] = "expires") <=> n >= 3
          /\ (\E i \in 1..n : t[i] = "version") <=> n >= 4
          /\ (\E i \in 1..n : t[i] = "stream") <=> n >= 5
      BY ONLY <3>1 DEF NamesObject
    <3>3. \A g \in PubKeyNameSet \ {"nonce", "objectType", "expires", "version", "stream"} :
            ~\E i \in 1..n : t[i] = g
      BY ONLY <3>1 DEF NamesObject
    <3>4. PubKeyTail(d, old.behavior, old.signingKey, old.encryptKey,
                     old.nonceTrials, old.extraBytes, old.signature, old.tag,
                     old.encrypted)
      BY ONLY <1>1, <3>1, Zenon
    <3> QED
      BY ONLY <1>4, <1>9, <3>2, <3>3, <3>4 DEF HeadSplices, PubKeyTail, PubKeyNameSet
  <2>2. CASE SealedIn(p)
    <3>1. /\ n = (IF Len(p) < 6 THEN 6 ELSE 7) /\ NamesObject(t) /\ t[6] = "tag"
          /\ t[7] = "encrypted" /\ ~KeyedIn(p) /\ ~ExtendedIn(p)
      <4>1. ObjectErr(p, type) = "nil" /\ VarInt(p, 4) >= 4
        BY <2>2 DEF SealedIn, type
      <4>2. n = PubKeyMore(p)
        BY <1>3, <4>1
      <4> QED
        BY <1>5, <1>6, <1>7, <2>2, <4>1, <4>2 DEF SealedIn, KeyedIn, ExtendedIn, PubKeyMore
    <3>2. n \in 6..7 /\ (n >= 7 <=> ~(Len(p) < 6))
      BY <3>1
    <3>3. /\ \E i \in 1..n : t[i] = "nonce"
          /\ \E i \in 1..n : t[i] = "objectType"
          /\ \E i \in 1..n : t[i] = "expires"
          /\ \E i \in 1..n : t[i] = "version"
          /\ \E i \in 1..n : t[i] = "stream"
          /\ \E i \in 1..n : t[i] = "tag"
          /\ (\E i \in 1..n : t[i] = "encrypted") <=> n >= 7
      BY ONLY <3>1, <3>2 DEF NamesObject
    <3>4. \A g \in {"behavior", "signingKey", "encryptKey", "nonceTrials",
                    "extraBytes", "signature"} : ~\E i \in 1..n : t[i] = g
      BY ONLY <3>1, <3>2, SMTT(30) DEF NamesObject
    <3>5. PubKeyTail(d, old.behavior, old.signingKey, old.encryptKey,
                     old.nonceTrials, old.extraBytes, old.signature, <<VarInt(p, 6)>>,
                     IF ~(Len(p) < 6) THEN SubSeq(p, 7, Len(p)) ELSE old.encrypted)
      BY ONLY <1>1, <2>2, <3>1, Zenon
    <3>6. /\ new.tag = <<VarInt(p, 6)>>
          /\ ~(Len(p) < 6) => new.encrypted = SubSeq(p, 7, Len(p))
      BY ONLY <1>2, <2>2, <3>1, Zenon DEF PubKeyTail
    <3>7. /\ n >= 1 /\ n >= 2 /\ n >= 3 /\ n >= 4 /\ n >= 5
      BY ONLY <3>2
    <3>8. /\ d.nonce = new.nonce /\ d.objectType = new.objectType
          /\ d.expires = new.expires /\ d.version = new.version
          /\ d.stream = new.stream
      BY ONLY <1>4, <3>7 DEF HeadSplices
    <3>9. /\ d.behavior = old.behavior /\ d.signingKey = old.signingKey
          /\ d.encryptKey = old.encryptKey /\ d.nonceTrials = old.nonceTrials
          /\ d.extraBytes = old.extraBytes /\ d.signature = old.signature
          /\ d.tag = new.tag
          /\ d.encrypted = IF n >= 7 THEN new.encrypted ELSE old.encrypted
      BY ONLY <3>2, <3>5, <3>6 DEF PubKeyTail
    <3> QED
      BY ONLY <1>9, <3>3, <3>4, <3>8, <3>9 DEF PubKeyNameSet
  <2>3. CASE KeyedIn(p) /\ ~ExtendedIn(p)
    <3>1. /\ n = (IF Len(p) < 6 THEN 7 ELSE 8) /\ NamesKeys(t) /\ ~SealedIn(p)
      <4>1. ObjectErr(p, type) = "nil" /\ ~(VarInt(p, 4) >= 4)
        BY <2>3 DEF KeyedIn, type
      <4>2. n = PubKeyMore(p) /\ ~SealedIn(p)
        BY <1>3, <4>1 DEF SealedIn
      <4> QED
        BY <1>5, <1>6, <1>7, <2>3, <4>1, <4>2 DEF PubKeyMore
    <3>2. n \in 7..8 /\ (n >= 8 <=> ~(Len(p) < 6))
      BY <3>1
    <3>3. /\ \E i \in 1..n : t[i] = "nonce"
          /\ \E i \in 1..n : t[i] = "objectType"
          /\ \E i \in 1..n : t[i] = "expires"
          /\ \E i \in 1..n : t[i] = "version"
          /\ \E i \in 1..n : t[i] = "stream"
          /\ \E i \in 1..n : t[i] = "signingKey"
          /\ \E i \in 1..n : t[i] = "encryptKey"
          /\ (\E i \in 1..n : t[i] = "behavior") <=> n >= 8
      BY ONLY <3>1, <3>2 DEF NamesObject, NamesKeys
    <3>4. \A g \in {"nonceTrials", "extraBytes", "signature", "tag", "encrypted"} :
            ~\E i \in 1..n : t[i] = g
      BY ONLY <3>1, <3>2, SMTT(30) DEF NamesObject, NamesKeys
    <3>5. PubKeyTail(d, Field(p, 6, old.behavior), <<VarInt(p, 7)>>, <<VarInt(p, 8)>>,
                     old.nonceTrials, old.extraBytes, old.signature, old.tag,
                     old.encrypted)
      BY ONLY <1>1, <2>3, <3>1, Zenon
    <3>6. /\ new.behavior = Field(p, 6, e.behavior)
          /\ new.signingKey = <<VarInt(p, 7)>> /\ new.encryptKey = <<VarInt(p, 8)>>
      BY ONLY <1>2, <2>3, <3>1, Zenon DEF PubKeyTail
    <3>7. /\ n >= 1 /\ n >= 2 /\ n >= 3 /\ n >= 4 /\ n >= 5
      BY ONLY <3>2
    <3>8. /\ d.nonce = new.nonce /\ d.objectType = new.objectType
          /\ d.expires = new.expires /\ d.version = new.version
          /\ d.stream = new.stream
      BY ONLY <1>4, <3>7 DEF HeadSplices
    <3>9. Len(p) < 6 <=> ~(6 <= Len(p))
      OBVIOUS
    <3>10. /\ d.behavior = IF n >= 8 THEN new.behavior ELSE old.behavior
           /\ d.signingKey = new.signingKey /\ d.encryptKey = new.encryptKey
           /\ d.nonceTrials = old.nonceTrials /\ d.extraBytes = old.extraBytes
           /\ d.signature = old.signature
           /\ d.tag = old.tag /\ d.encrypted = old.encrypted
      BY ONLY <3>2, <3>5, <3>6, <3>9 DEF PubKeyTail, Field
    <3> QED
      BY ONLY <1>9, <3>3, <3>4, <3>8, <3>10 DEF PubKeyNameSet
  <2>4. CASE ExtendedIn(p)
    <3>1. /\ n = (IF Len(p) < 9 THEN 9
                  ELSE IF Len(p) < 11 \/ Huge(p, 11) THEN 10 ELSE 11)
          /\ NamesKeys(t) /\ t[9] = "nonceTrials" /\ t[10] = "extraBytes"
          /\ t[11] = "signature" /\ ~SealedIn(p) /\ KeyedIn(p)
      <4>1. ObjectErr(p, type) = "nil" /\ VarInt(p, 4) = 3 /\ KeyedIn(p)
        BY <2>4 DEF ExtendedIn, KeyedIn, type
      <4>2. n = PubKeyMore(p) /\ ~SealedIn(p)
        BY <1>3, <4>1 DEF SealedIn
      <4> QED
        BY <1>5, <1>6, <1>7, <2>4, <4>1, <4>2 DEF PubKeyMore
    <3>2. /\ n \in 9..11
          /\ n >= 10 <=> ~(Len(p) < 9)
          /\ n >= 11 <=> ~(Len(p) < 11) /\ ~Huge(p, 11)
      <4>1. Len(p) \in Nat
        OBVIOUS
      <4> QED
        BY ONLY <3>1, <4>1
    <3>a. /\ n \in 9..11 /\ NamesKeys(t) /\ t[9] = "nonceTrials"
          /\ t[10] = "extraBytes" /\ t[11] = "signature"
      BY <3>1, <3>2
    <3>3. ExtendedPlaced(t, n)
      BY ONLY <3>a, ExtendedPlaces, Zenon
    <3>5. PubKeyTail(d, Field(p, 6, old.behavior), <<VarInt(p, 7)>>, <<VarInt(p, 8)>>,
                     VarInt(p, 9),
                     IF ~(Len(p) < 9) THEN VarInt(p, 10) ELSE old.extraBytes,
                     IF ~(Len(p) < 11) /\ ~Huge(p, 11)
                     THEN SignatureOf(p) ELSE old.signature, old.tag, old.encrypted)
      BY ONLY <1>1, <2>4, <3>1, Zenon
    <3>6. PubKeyTail(new, Field(p, 6, e.behavior), <<VarInt(p, 7)>>, <<VarInt(p, 8)>>,
                     VarInt(p, 9),
                     IF ~(Len(p) < 9) THEN VarInt(p, 10) ELSE e.extraBytes,
                     IF ~(Len(p) < 11) /\ ~Huge(p, 11)
                     THEN SignatureOf(p) ELSE e.signature, e.tag, e.encrypted)
      BY ONLY <1>2, <2>4, <3>1, Zenon
    <3>7. /\ n >= 1 /\ n >= 2 /\ n >= 3 /\ n >= 4 /\ n >= 5
      BY ONLY <3>2
    <3>8. /\ d.nonce = new.nonce /\ d.objectType = new.objectType
          /\ d.expires = new.expires /\ d.version = new.version
          /\ d.stream = new.stream
      BY ONLY <1>4, <3>7 DEF HeadSplices
    <3>9. 6 <= Len(p)
      BY <2>4 DEF ExtendedIn
    <3>10. /\ d.behavior = new.behavior
           /\ d.signingKey = new.signingKey /\ d.encryptKey = new.encryptKey
           /\ d.nonceTrials = new.nonceTrials
           /\ d.extraBytes = IF n >= 10 THEN new.extraBytes ELSE old.extraBytes
           /\ d.signature = IF n >= 11 THEN new.signature ELSE old.signature
           /\ d.tag = old.tag /\ d.encrypted = old.encrypted
      BY ONLY <3>2, <3>5, <3>6, <3>9, Zenon DEF PubKeyTail, Field
    <3> QED
      BY ONLY <1>9, <3>3, <3>8, <3>10 DEF PubKeyNameSet, ExtendedPlaced
  <2> QED
    BY <2>1, <2>2, <2>3, <2>4 DEF SealedIn, KeyedIn, type
<1>10. d = Spliced(old, new, n)
  BY <1>8, <1>9, SplicedByField, SMTT(30) DEF t
<1> QED
  BY <1>10 DEF d, new, n

(* The receiver of ReadMessageN has the shape of its type. *)
LEMMA EmptyReceiver ==
  ASSUME NEW k \in Kinds
  PROVE  EmptyMessage(k) \in Receiver(k)
<1>1. /\ <<ZeroTime, 0>> \in Time /\ <<ZeroTime, 0, NilIP, 0>> \in NetAddress
  BY CodecAssumption DEF CodecAssumption, Time, NetAddress
<1>2. <<>> \in Pointer /\ <<>> \in Seq(Nat) /\ <<>> \in Seq(NetAddress)
  BY DEF Pointer
<1>3. CASE k \in {"addr", "inv", "getdata", "verack", "getaddr"}
  BY <1>2, <1>3 DEF EmptyMessage, Receiver
<1>4. CASE k = "version"
  BY <1>1, <1>2, <1>4 DEF EmptyMessage, Receiver, MsgVersion
<1>5. CASE k = "getpubkey"
  BY <1>1, <1>2, <1>5 DEF EmptyMessage, Receiver, MsgGetPubKey
<1>6. CASE k = "pubkey"
  BY <1>1, <1>2, <1>6 DEF EmptyMessage, Receiver, MsgPubKey
<1>7. CASE k \in {"msg", "broadcast"}
  BY <1>1, <1>2, <1>7 DEF EmptyMessage, Receiver, MsgSealed
<1> QED
  BY <1>3, <1>4, <1>5, <1>6, <1>7
     DEF Kinds, HandledCommands, ObjectKinds, ObjectKind, ObjectTypes,
         ObjectTypeGetPubKey, ObjectTypePubKey, ObjectTypeMsg, ObjectTypeBroadcast

(* A decoder of a public key that succeeds has assigned all the fields. *)
LEMMA PubKeyReads ==
  ASSUME kind = "pubkey", NEW e \in MsgPubKey(Time, Nat), NEW p \in Seq(Nat)
  PROVE  LET all == Len(Assigned(DecodePubKey(e, p).msg))
             n   == PubKeyRead(p)
         IN  n \in 0..all /\ (PubKeyErr(p) = "nil" => n = all) /\ all \in Nat
<1> DEFINE type == ObjectTypePubKey
           new == DecodePubKey(e, p).msg
           n == PubKeyRead(p)
           all == Len(Assigned(new))
           v == VarInt(p, 4)
<1> SUFFICES n \in 0..all /\ (PubKeyErr(p) = "nil" => n = all) /\ all \in Nat
  BY Zenon
<1>1. new \in MsgPubKey(Time, Nat) /\ HeadIs(new, e, p, type)
  BY PubKeyDecoded, Zenon
<1>2. /\ n \in Nat /\ n \in 0..5 \cup {PubKeyMore(p)}
      /\ n >= 6 <=> ObjectErr(p, type) = "nil"
  BY PubKeyMoreType, ObjectReads, Zenon DEF PubKeyRead
<1>3. ObjectErr(p, type) = "nil" => new.version = v
  BY <1>1, HeadRead DEF HeadIs, VersionOf
<1>4. v \in Nat
  BY VarIntType
<1>5. new.version \in Nat
  <2> HIDE DEF new
  <2> QED
    BY ONLY <1>1 DEF MsgPubKey
<1>6. /\ new.version >= 4 => all = 7
      /\ new.version = 3 => all = 11
      /\ new.version < 3 => all = 8
  BY <1>1, PubKeyNames, Zenon
<1> HIDE DEF type, new, n, all, v
<1>7. all \in {7, 8, 11}
  BY ONLY <1>5, <1>6
<1>8. CASE ObjectErr(p, type) # "nil"
  <2>1. n \in 0..5
    BY <1>2, <1>8
  <2>2. PubKeyErr(p) # "nil"
    BY <1>8 DEF PubKeyErr, SealedIn, KeyedIn, ExtendedIn, type
  <2> QED
    BY <1>7, <2>1, <2>2
<1>9. CASE SealedIn(p)
  <2>1. all = 7 /\ n = IF Len(p) < 6 THEN 6 ELSE 7
    BY <1>2, <1>3, <1>6, <1>9 DEF SealedIn, PubKeyMore, type, v
  <2>2. PubKeyErr(p) = IF Len(p) < 6 THEN "EOF" ELSE "nil"
    BY <1>9 DEF PubKeyErr, ErrIfShort
  <2> QED
    BY <2>1, <2>2
<1>10. CASE KeyedIn(p) /\ ExtendedIn(p)
  <2>1. /\ all = 11 /\ ~SealedIn(p)
        /\ n = IF Len(p) < 9 THEN 9
               ELSE IF Len(p) < 11 \/ Huge(p, 11) THEN 10 ELSE 11
    BY <1>2, <1>3, <1>6, <1>10 DEF SealedIn, KeyedIn, ExtendedIn, PubKeyMore, type, v
  <2>2. PubKeyErr(p) = "nil" => ~Huge(p, 11) /\ ~(Len(p) < 11)
    BY <1>10, <2>1 DEF PubKeyErr, ErrIfShort
  <2>3. ~(Len(p) < 11) => ~(Len(p) < 9)
    OBVIOUS
  <2> QED
    BY <2>1, <2>2, <2>3
<1>11. CASE KeyedIn(p) /\ ~ExtendedIn(p)
  <2>1. /\ ~SealedIn(p) /\ n = IF Len(p) < 6 THEN 7 ELSE 8
    BY <1>2, <1>11 DEF SealedIn, KeyedIn, PubKeyMore, type
  <2>2. PubKeyErr(p) = IF Len(p) < 8 THEN "EOF" ELSE "nil"
    BY <1>11, <2>1 DEF PubKeyErr, ErrIfShort
  <2>3. new.version = v /\ v < 4
    BY <1>3, <1>4, <1>11 DEF KeyedIn, type, v
  <2>4. all \in {8, 11}
    BY ONLY <1>4, <1>6, <2>3
  <2>5. ~(Len(p) < 8) => v # 3 /\ ~(Len(p) < 6)
    BY <1>11 DEF ExtendedIn, v
  <2>6. ~(Len(p) < 8) => all = 8
    BY ONLY <1>4, <1>6, <2>3, <2>5
  <2> QED
    BY <2>1, <2>2, <2>4, <2>5, <2>6
<1> QED
  BY <1>8, <1>9, <1>10, <1>11 DEF SealedIn, KeyedIn, type

(* The message of a Decode is the old one with the first fields replaced,  *)
(* with all of them when it did not fail.                                  *)
SplicesTo(d, new, old) ==
  /\ d.err = new.err
  /\ \E n \in IF d.err = "nil" THEN {Len(Assigned(new.msg))}
                               ELSE 0..Len(Assigned(new.msg)) :
       d.msg = Spliced(old, new.msg, n)

LEMMA SplicesAt ==
  ASSUME NEW d, NEW new, NEW old, NEW err, NEW all \in Nat, NEW n \in 0..all,
         d.err = err, new.err = err, Len(Assigned(new.msg)) = all,
         err = "nil" => n = all, d.msg = Spliced(old, new.msg, n)
  PROVE  SplicesTo(d, new, old)
  BY DEF SplicesTo

LEMMA VersionSplices ==
  ASSUME kind = "version", NEW old \in MsgVersion(Time), NEW e \in MsgVersion(Time),
         NEW p \in Seq(Nat)
  PROVE  SplicesTo(DecodeVersion(old, p), DecodeVersion(e, p), old)
<1> DEFINE d == DecodeVersion(old, p)
           new == DecodeVersion(e, p)
           n == VersionRead(p)
           err == VersionErr(p)
<1>1. d.err = err /\ new.err = err
  BY VersionDecoded, Zenon
<1>2. Len(Assigned(new.msg)) = 8
  BY VersionNames, Zenon DEF NamesVersion
<1>3. n \in 0..8 /\ (err = "nil" => n = 8)
  BY VersionReads, Zenon
<1>4. d.msg = Spliced(old, new.msg, n)
  BY VersionSpliced, Zenon
<1>5. 8 \in Nat
  OBVIOUS
<1> HIDE DEF d, new, n, err
<1>6. SplicesTo(d, new, old)
  BY <1>1, <1>2, <1>3, <1>4, <1>5, SplicesAt, Zenon
<1> QED
  BY <1>6 DEF d, new

LEMMA SixRead ==
  ASSUME NEW p \in Seq(Nat), NEW type
  PROVE  /\ ObjectRead(p, type, 6) \in 0..6 /\ 6 \in Nat
         /\ ObjectErr(p, type) = "nil" => ObjectRead(p, type, 6) = 6
<1>1. 6 \in Nat /\ 6 >= 6
  OBVIOUS
<1>2. /\ ObjectRead(p, type, 6) \in 0..5 \cup {6}
      /\ ObjectRead(p, type, 6) >= 6 <=> ObjectErr(p, type) = "nil"
  BY <1>1, ObjectReads, Zenon
<1> QED
  BY <1>2

LEMMA GetPubKeySplices ==
  ASSUME kind = "getpubkey", NEW old \in MsgGetPubKey(Time, Nat),
         NEW e \in MsgGetPubKey(Time, Nat), NEW p \in Seq(Nat)
  PROVE  SplicesTo(DecodeGetPubKey(old, p), DecodeGetPubKey(e, p), old)
<1> DEFINE d == DecodeGetPubKey(old, p)
           new == DecodeGetPubKey(e, p)
           n == ObjectRead(p, ObjectTypeGetPubKey, 6)
           err == IF ObjectErr(p, ObjectTypeGetPubKey) = "nil" THEN ErrIfShort(p, 6)
                  ELSE ObjectErr(p, ObjectTypeGetPubKey)
<1>1. d.err = err /\ new.err = err /\ new.msg \in MsgGetPubKey(Time, Nat)
  BY GetPubKeyDecoded, Zenon
<1>2. Len(Assigned(new.msg)) = 6
  BY <1>1, GetPubKeyNames, Zenon
<1>3. n \in 0..6 /\ (err = "nil" => n = 6) /\ 6 \in Nat
  BY SixRead, Zenon
<1>4. d.msg = Spliced(old, new.msg, n)
  BY GetPubKeySpliced, Zenon
<1> HIDE DEF d, new, n, err
<1>5. SplicesTo(d, new, old)
  BY <1>1, <1>2, <1>3, <1>4, SplicesAt, Zenon
<1> QED
  BY <1>5 DEF d, new

LEMMA PubKeySplices ==
  ASSUME kind = "pubkey", NEW old \in MsgPubKey(Time, Nat),
         NEW e \in MsgPubKey(Time, Nat), NEW p \in Seq(Nat)
  PROVE  SplicesTo(DecodePubKey(old, p), DecodePubKey(e, p), old)
<1> DEFINE d == DecodePubKey(old, p)
           new == DecodePubKey(e, p)
           n == PubKeyRead(p)
           err == PubKeyErr(p)
           all == Len(Assigned(new.msg))
<1>1. d.err = err /\ new.err = err
  BY PubKeyDecoded, Zenon
<1>2. n \in 0..all /\ (err = "nil" => n = all) /\ all \in Nat
  BY PubKeyReads, Zenon
<1>3. d.msg = Spliced(old, new.msg, n)
  BY PubKeySpliced, Zenon
<1> HIDE DEF d, new, n, err
<1>4. SplicesTo(d, new, old)
  BY <1>1, <1>2, <1>3, SplicesAt, Zenon
<1> QED
  BY <1>4 DEF d, new

LEMMA SealedSplices ==
  ASSUME kind \in {"msg", "broadcast"}, NEW old \in MsgSealed(Time, Nat),
         NEW e \in MsgSealed(Time, Nat), NEW p \in Seq(Nat), NEW type
  PROVE  SplicesTo(DecodeSealed(old, p, type), DecodeSealed(e, p, type), old)
<1> DEFINE d == DecodeSealed(old, p, type)
           new == DecodeSealed(e, p, type)
           n == ObjectRead(p, type, 6)
           err == ObjectErr(p, type)
<1>1. d.err = err /\ new.err = err
  BY SealedDecoded, Zenon
<1>2. Len(Assigned(new.msg)) = 6
  BY SealedNames, Zenon
<1>3. n \in 0..6 /\ (err = "nil" => n = 6) /\ 6 \in Nat
  BY SixRead, Zenon
<1>4. d.msg = Spliced(old, new.msg, n)
  BY SealedSpliced, Zenon
<1> HIDE DEF d, new, n, err
<1>5. SplicesTo(d, new, old)
  BY <1>1, <1>2, <1>3, <1>4, SplicesAt, Zenon
<1> QED
  BY <1>5 DEF d, new

(* A Decode into the message, and one into the empty message.              *)
Splicing(d, new) ==
  /\ d.err = new.err
  /\ CASE kind \in ListKinds -> d.msg \in {obj, new.msg}
       [] kind \in {"verack", "getaddr"} -> d.msg = obj
       [] OTHER -> LET all == Len(Assigned(new.msg))
                   IN  \E n \in IF d.err = "nil" THEN {all} ELSE 0..all :
                         d.msg = Spliced(obj, new.msg, n)

LEMMA SplicingRecord ==
  ASSUME kind \notin ListKinds, kind \notin {"verack", "getaddr"},
         NEW d, NEW new, SplicesTo(d, new, obj)
  PROVE  Splicing(d, new)
  BY Zenon DEF Splicing, SplicesTo

LEMMA SplicingList ==
  ASSUME kind \in ListKinds, NEW d, NEW new, NEW limit, NEW width, NEW p, NEW e,
         d = DecodeList(obj, p, limit, width), new = DecodeList(e, p, limit, width)
  PROVE  Splicing(d, new)
<1>1. d.err = new.err /\ d.msg \in {obj, new.msg}
  BY ListDecoded
<1>2. kind \notin {"verack", "getaddr"}
  BY DEF ListKinds, InvKinds
<1> QED
  BY <1>1, <1>2, Zenon DEF Splicing

LEMMA Splices ==
  ASSUME ObjectInv
  PROVE  DecodeSplices
<1> SUFFICES ASSUME NEW p \in Payloads[kind]
             PROVE  Splicing(Decode(kind, obj, p), Decode(kind, EmptyMessage(kind), p))
  BY Zenon DEF DecodeSplices, Splicing
<1> DEFINE e   == EmptyMessage(kind)
           d   == Decode(kind, obj, p)
           new == Decode(kind, e, p)
<1>1. /\ kind \in Kinds /\ p \in Seq(Nat)
      /\ obj \in Receiver(kind) /\ e \in Receiver(kind)
  BY PayloadType, EmptyReceiver DEF ObjectInv
<1> HIDE DEF e
<1>2. CASE kind = "addr"
  <2>1. /\ d = DecodeList(obj, p, MaxAddrPerMsg, MaxNetAddressPayload)
        /\ new = DecodeList(e, p, MaxAddrPerMsg, MaxNetAddressPayload)
        /\ kind \in ListKinds
    BY <1>2 DEF Decode, ListKinds, DecodeAddr
  <2> HIDE DEF d, new
  <2>2. Splicing(d, new)
    BY <2>1, SplicingList, Zenon
  <2> QED
    BY <2>2 DEF d, new, e
<1>3. CASE kind \in InvKinds
  <2>1. /\ d = DecodeList(obj, p, MaxInvPerMsg, MaxInvVectPayload)
        /\ new = DecodeList(e, p, MaxInvPerMsg, MaxInvVectPayload)
        /\ kind \in ListKinds
    BY <1>3 DEF Decode, ListKinds, InvKinds, DecodeInv, DecodeGetData
  <2> HIDE DEF d, new
  <2>2. Splicing(d, new)
    BY <2>1, SplicingList, Zenon
  <2> QED
    BY <2>2 DEF d, new, e
<1>4. CASE kind \in {"verack", "getaddr"}
  <2>1. d = [msg |-> obj, err |-> "nil"] /\ new = [msg |-> e, err |-> "nil"]
        /\ kind \notin ListKinds
    BY <1>4 DEF Decode, ListKinds, InvKinds
  <2>2. d.err = new.err /\ d.msg = obj
    BY <2>1
  <2> HIDE DEF d, new
  <2>3. Splicing(d, new)
    BY <1>4, <2>1, <2>2, Zenon DEF Splicing
  <2> QED
    BY <2>3 DEF d, new, e
<1>5. CASE kind = "version"
  <2>1. /\ d = DecodeVersion(obj, p) /\ new = DecodeVersion(e, p)
        /\ obj \in MsgVersion(Time) /\ e \in MsgVersion(Time)
        /\ kind \notin ListKinds /\ kind \notin {"verack", "getaddr"}
    BY <1>1, <1>5 DEF Decode, Receiver, ListKinds, InvKinds
  <2> HIDE DEF d, new
  <2>2. SplicesTo(d, new, obj)
    BY <1>1, <1>5, <2>1, VersionSplices
  <2> QED
    BY <2>1, <2>2, SplicingRecord, Zenon DEF d, new, e
<1>6. CASE kind = "getpubkey"
  <2>1. /\ d = DecodeGetPubKey(obj, p) /\ new = DecodeGetPubKey(e, p)
        /\ obj \in MsgGetPubKey(Time, Nat) /\ e \in MsgGetPubKey(Time, Nat)
        /\ kind \notin ListKinds /\ kind \notin {"verack", "getaddr"}
    BY <1>1, <1>6 DEF Decode, Receiver, ListKinds, InvKinds
  <2> HIDE DEF d, new
  <2>2. SplicesTo(d, new, obj)
    BY <1>1, <1>6, <2>1, GetPubKeySplices
  <2> QED
    BY <2>1, <2>2, SplicingRecord, Zenon DEF d, new, e
<1>7. CASE kind = "pubkey"
  <2>1. /\ d = DecodePubKey(obj, p) /\ new = DecodePubKey(e, p)
        /\ obj \in MsgPubKey(Time, Nat) /\ e \in MsgPubKey(Time, Nat)
        /\ kind \notin ListKinds /\ kind \notin {"verack", "getaddr"}
    BY <1>1, <1>7 DEF Decode, Receiver, ListKinds, InvKinds
  <2> HIDE DEF d, new
  <2>2. SplicesTo(d, new, obj)
    BY <1>1, <1>7, <2>1, PubKeySplices
  <2> QED
    BY <2>1, <2>2, SplicingRecord, Zenon DEF d, new, e
<1>8. CASE kind \in {"msg", "broadcast"}
  <2> DEFINE type == IF kind = "msg" THEN ObjectTypeMsg ELSE ObjectTypeBroadcast
  <2>1. /\ d = DecodeSealed(obj, p, type) /\ new = DecodeSealed(e, p, type)
        /\ obj \in MsgSealed(Time, Nat) /\ e \in MsgSealed(Time, Nat)
        /\ kind \notin ListKinds /\ kind \notin {"verack", "getaddr"}
    BY <1>1, <1>8 DEF Decode, Receiver, ListKinds, InvKinds
  <2> HIDE DEF d, new, type
  <2>2. SplicesTo(d, new, obj)
    BY <1>1, <1>8, <2>1, SealedSplices
  <2> QED
    BY <2>1, <2>2, SplicingRecord, Zenon DEF d, new, e
<1>9. kind \in {"addr", "version", "getpubkey", "pubkey", "msg", "broadcast",
                "verack", "getaddr"} \cup InvKinds
  BY <1>1 DEF Kinds, HandledCommands, ObjectKinds, ObjectKind, ObjectTypes, InvKinds,
         ObjectTypeGetPubKey, ObjectTypePubKey, ObjectTypeMsg, ObjectTypeBroadcast
<1> QED
  BY <1>2, <1>3, <1>4, <1>5, <1>6, <1>7, <1>8, <1>9

(* Whatever a message holds, Decode makes of it what it makes of an empty  *)
(* one, up to the field at which it fails.                                 *)
THEOREM DecodeSplicing == Spec => []DecodeSplices
  BY Splices, ObjectInvariant, PTL

-----------------------------------------------------------------------------
(* A message that was decoded is encoded to what it was decoded from *)

(* The first cells of a payload, as many as there are. *)
Relayed(q, p) ==
  /\ q \in Seq(Nat) /\ Len(q) <= Len(p)
  /\ \A i \in 1..Len(q) : q[i] = p[i]

LEMMA RelayedIsPrefix ==
  ASSUME NEW p \in Seq(Nat), NEW q, Relayed(q, p)
  PROVE  IsPrefix(q, p)
<1>1. q \in Seq(Nat) /\ Len(q) <= Len(p) /\ \A i \in 1..Len(q) : q[i] = p[i]
  BY DEF Relayed
<1>2. SubSeq(p, 0 + 1, 0 + Len(q)) = q
  BY <1>1, CutIs
<1>3. SubSeq(q, 1, Len(q)) = q
  BY <1>1
<1> QED
  BY <1>1, <1>2, <1>3 DEF IsPrefix

(* The cells of an object whose head was decoded. *)
LEMMA HeadCells ==
  ASSUME NEW p \in Seq(Nat), NEW type, ObjectErr(p, type) = "nil",
         NEW b, NEW old, HeadIs(b, old, p, type)
  PROVE  /\ b.nonce = p[1] /\ b.expires = <<p[2], 0>> /\ b.objectType = p[3]
         /\ b.version = p[4] /\ b.stream = p[5]
         /\ p[3] = type /\ Len(p) >= 5 /\ ObjectFields(b)
<1>1. /\ Typed(p, type) /\ Len(p) >= 5
      /\ VarInt(p, 4) = p[4] /\ VarInt(p, 5) = p[5]
      /\ Field(p, 1, old.nonce) = p[1] /\ Field(p, 3, old.objectType) = p[3]
  BY HeadRead
<1>2. p[3] = type /\ Len(p) >= 4
  BY <1>1 DEF Typed
<1>3. /\ b.nonce = p[1] /\ b.expires = <<p[2], 0>> /\ b.objectType = p[3]
      /\ b.version = p[4] /\ b.stream = p[5]
  BY <1>1, <1>2 DEF HeadIs, NonceOf, TypeOf, ExpiresOf, VersionOf, StreamOf
<1>4. p[1] \in Nat /\ p[2] \in Nat /\ p[3] \in Nat /\ p[4] \in Nat /\ p[5] \in Nat
  BY <1>1, SMTT(30)
<1>5. b.expires[1] = p[2]
  BY <1>3
<1> QED
  BY <1>1, <1>2, <1>3, <1>4, <1>5 DEF ObjectFields

(* The head of a payload and a tail of it. *)
RelaysObject(q, p, t, type) ==
  /\ Relayed(q, p) /\ Len(q) = 5 + Len(t)
  /\ ObjectErr(q, type) = "nil" /\ VarInt(q, 4) = VarInt(p, 4)

LEMMA ObjectRelayed ==
  ASSUME NEW p \in Seq(Nat), NEW type, ObjectErr(p, type) = "nil",
         NEW b, NEW old, HeadIs(b, old, p, type),
         NEW t \in Seq(Nat), 5 + Len(t) <= Len(p),
         \A i \in 1..Len(t) : t[i] = p[5 + i],
         NEW q, q = EncodeObject(b) \o t
  PROVE  RelaysObject(q, p, t, type)
<1>1. /\ b.nonce = p[1] /\ b.expires = <<p[2], 0>> /\ b.objectType = p[3]
      /\ b.version = p[4] /\ b.stream = p[5]
      /\ p[3] = type /\ Len(p) >= 5 /\ ObjectFields(b)
  BY HeadCells, Zenon
<1>2. OnWire(q, b, t)
  BY <1>1, ObjectOnWire, Zenon
<1>3. /\ Len(t) \in Nat /\ 5 + Len(t) <= Len(p) /\ Len(p) \in Nat
      /\ \A i \in 1..Len(t) : t[i] = p[5 + i]
  OBVIOUS
<1>4. b.expires[1] = p[2]
  BY <1>1
<1>5. /\ q \in Seq(Nat) /\ Len(q) = 5 + Len(t)
      /\ q[1] = p[1] /\ q[2] = p[2] /\ q[3] = p[3] /\ q[4] = p[4] /\ q[5] = p[5]
      /\ \A i \in 1..Len(t) : q[5 + i] = p[5 + i]
  BY ONLY <1>1, <1>2, <1>3, <1>4 DEF OnWire
<1>a. Len(q) = 5 + Len(t) /\ Len(q) \in Nat
  BY <1>5
<1>b. Len(t) \in Nat /\ 5 + Len(t) <= Len(p) /\ Len(p) \in Nat
  BY <1>3
<1>6. ASSUME NEW i \in 1..Len(q)
      PROVE  q[i] = p[i]
  <2>1. i = 1 \/ i = 2 \/ i = 3 \/ i = 4 \/ i = 5 \/ i - 5 \in 1..Len(t)
    BY ONLY <1>a, <1>b, <1>6
  <2>2. CASE i - 5 \in 1..Len(t)
    <3>1. 5 + (i - 5) = i
      BY ONLY <1>6, <1>a
    <3>2. q[5 + (i - 5)] = p[5 + (i - 5)]
      BY <1>5, <2>2, Zenon
    <3> QED
      BY ONLY <3>1, <3>2
  <2>3. /\ q[1] = p[1] /\ q[2] = p[2] /\ q[3] = p[3] /\ q[4] = p[4] /\ q[5] = p[5]
    BY <1>5
  <2> QED
    BY ONLY <2>1, <2>2, <2>3
<1>7. Relayed(q, p)
  BY <1>5, <1>6, <1>a, <1>b DEF Relayed
<1>8. Len(q) >= 5 /\ Len(q) >= 3 /\ ~(Len(q) < 5) /\ 4 <= Len(q) /\ 4 <= Len(p)
  BY ONLY <1>a, <1>b
<1>9. ObjectErr(q, type) = "nil" /\ VarInt(q, 4) = VarInt(p, 4)
  BY ONLY <1>1, <1>5, <1>8 DEF ObjectErr, Typed, ErrIfShort, VarInt, Field
<1> QED
  BY <1>5, <1>7, <1>9 DEF RelaysObject

(* msg and broadcast *)
LEMMA SealedRelayed ==
  ASSUME NEW old \in MsgSealed(Time, Nat), NEW p \in Seq(Nat), NEW type,
         DecodeSealed(old, p, type).err = "nil",
         NEW e \in MsgSealed(Time, Nat), NEW b, b = DecodeSealed(old, p, type).msg
  PROVE  /\ EncodeSealed(b).err = "nil"
         /\ Relayed(EncodeSealed(b).payload, p)
         /\ DecodeSealed(e, EncodeSealed(b).payload, type).err = "nil"
<1> DEFINE t == SubSeq(p, 6, Len(p))
           q == EncodeSealed(b).payload
<1>1. ObjectErr(p, type) = "nil" /\ HeadIs(b, old, p, type)
  BY SealedDecoded, Zenon
<1>2. b.encrypted = t
  BY <1>1, SealedDecoded, ZenonT(40)
<1>3. Len(p) >= 5
  BY <1>1, HeadRead, Zenon
<1>4. t \in Seq(Nat) /\ 5 + Len(t) <= Len(p) /\ \A i \in 1..Len(t) : t[i] = p[5 + i]
  BY <1>3
<1>5. q = EncodeObject(b) \o t /\ EncodeSealed(b).err = "nil"
  BY <1>2, EncodedFields DEF EncodeSealed
<1> HIDE DEF t, q
<1>6. Relayed(q, p) /\ ObjectErr(q, type) = "nil"
  BY <1>1, <1>4, <1>5, ObjectRelayed, Zenon DEF RelaysObject
<1>7. q \in Seq(Nat)
  BY <1>6 DEF Relayed
<1>8. DecodeSealed(e, q, type).err = "nil"
  BY <1>6, <1>7, SealedDecoded, Zenon
<1> QED
  BY <1>5, <1>6, <1>8 DEF q

LEMMA NotPanicking ==
  ASSUME NEW x, NEW panics \in BOOLEAN, NEW r, r = EncodedOr(panics, x), ~panics
  PROVE  r.err = "nil" /\ r.payload = x
  BY DEF EncodedOr, Encoded

LEMMA GetPubKeyRelayed ==
  ASSUME NEW old \in MsgGetPubKey(Time, Nat), NEW p \in Seq(Nat),
         DecodeGetPubKey(old, p).err = "nil",
         NEW e \in MsgGetPubKey(Time, Nat), NEW b, b = DecodeGetPubKey(old, p).msg
  PROVE  /\ EncodeGetPubKey(b).err = "nil"
         /\ Relayed(EncodeGetPubKey(b).payload, p)
         /\ DecodeGetPubKey(e, EncodeGetPubKey(b).payload).err = "nil"
<1> DEFINE type == ObjectTypeGetPubKey
           t == <<VarInt(p, 6)>>
           key == IF b.version >= TagBasedRipeVersion THEN b.tag ELSE b.ripe
           q == EncodeGetPubKey(b).payload
<1>1. /\ HeadIs(b, old, p, type)
      /\ b.ripe = IF ObjectErr(p, type) = "nil" /\ ~(VarInt(p, 4) >= 4) THEN t ELSE old.ripe
      /\ b.tag = IF ObjectErr(p, type) = "nil" /\ VarInt(p, 4) >= 4 THEN t ELSE old.tag
      /\ DecodeGetPubKey(old, p).err = IF ObjectErr(p, type) = "nil" THEN ErrIfShort(p, 6)
                                       ELSE ObjectErr(p, type)
  BY GetPubKeyDecoded, Zenon
<1>2. ObjectErr(p, type) = "nil" /\ ErrIfShort(p, 6) = "nil"
  BY <1>1
<1>3. 6 <= Len(p) /\ VarInt(p, 6) = p[6] /\ p[6] \in Nat
  BY <1>2 DEF ErrIfShort, VarInt, Field
<1>4. b.version = VarInt(p, 4)
  BY <1>1, <1>2, HeadRead DEF HeadIs, VersionOf
<1>5. key = t
  BY <1>1, <1>2, <1>4 DEF TagBasedRipeVersion
<1>6. t \in Seq(Nat) /\ Len(t) = 1 /\ t[1] = p[6] /\ t # <<>>
  BY <1>3
<1>7. q = EncodeObject(b) \o t /\ EncodeGetPubKey(b).err = "nil"
  <2>1. EncodeGetPubKey(b) = EncodedOr(key = <<>>, EncodeObject(b) \o key)
    BY DEF EncodeGetPubKey
  <2> HIDE DEF key, t
  <2>2. EncodeGetPubKey(b) = EncodedOr(t = <<>>, EncodeObject(b) \o t) /\ t # <<>>
    BY ONLY <1>5, <1>6, <2>1
  <2> QED
    BY <2>2, NotPanicking, Zenon
<1> HIDE DEF t, q, key, type
<1>8. 5 + Len(t) <= Len(p) /\ \A i \in 1..Len(t) : t[i] = p[5 + i]
  BY <1>3, <1>6
<1>9. Relayed(q, p) /\ ObjectErr(q, type) = "nil" /\ Len(q) = 5 + Len(t)
  <2>1. /\ HeadIs(b, old, p, type) /\ ObjectErr(p, type) = "nil" /\ t \in Seq(Nat)
        /\ q = EncodeObject(b) \o t /\ p \in Seq(Nat)
    BY <1>1, <1>2, <1>6, <1>7
  <2>2. RelaysObject(q, p, t, type)
    BY ONLY <1>8, <2>1, ObjectRelayed, Zenon
  <2> QED
    BY <2>2, Zenon DEF RelaysObject
<1>10. q \in Seq(Nat) /\ ErrIfShort(q, 6) = "nil"
  BY <1>6, <1>9 DEF Relayed, ErrIfShort
<1>11. DecodeGetPubKey(e, q).err = IF ObjectErr(q, type) = "nil" THEN ErrIfShort(q, 6)
                                   ELSE ObjectErr(q, type)
  BY <1>10, GetPubKeyDecoded, Zenon DEF type
<1> QED
  BY <1>7, <1>9, <1>10, <1>11 DEF q

(* pubkey, one layout after the other: the cells behind the head.          *)
LEMMA PubKeyTypes ==
  ASSUME NEW b \in MsgPubKey(Time, Nat)
  PROVE  /\ b.version \in Nat /\ b.behavior \in Nat
         /\ b.signingKey \in Pointer /\ b.encryptKey \in Pointer
         /\ b.nonceTrials \in Nat /\ b.extraBytes \in Nat
         /\ b.signature \in Seq(Nat) /\ b.tag \in Pointer /\ b.encrypted \in Seq(Nat)
  BY DEF MsgPubKey

(* The layout that Encode chooses. *)
LEMMA PubKeyLayouts ==
  ASSUME NEW b \in MsgPubKey(Time, Nat)
  PROVE  /\ b.version >= EncryptedPubKeyVersion =>
              EncodePubKey(b)
                = EncodedOr(b.tag = <<>>, (EncodeObject(b) \o b.tag) \o b.encrypted)
         /\ b.version = ExtendedPubKeyVersion =>
              EncodePubKey(b)
                = EncodedOr(b.signingKey = <<>> \/ b.encryptKey = <<>>,
                    ((EncodeObject(b) \o KeyCells(b))
                       \o <<b.nonceTrials, b.extraBytes, Len(b.signature)>>)
                       \o b.signature)
         /\ b.version < ExtendedPubKeyVersion =>
              EncodePubKey(b)
                = EncodedOr(b.signingKey = <<>> \/ b.encryptKey = <<>>,
                            EncodeObject(b) \o KeyCells(b))
<1>1. b.version \in Nat
  BY PubKeyTypes
<1>2. /\ b.version = ExtendedPubKeyVersion => ~(b.version >= EncryptedPubKeyVersion)
      /\ b.version < ExtendedPubKeyVersion =>
           ~(b.version >= EncryptedPubKeyVersion) /\ b.version # ExtendedPubKeyVersion
  BY <1>1 DEF ExtendedPubKeyVersion, EncryptedPubKeyVersion
<1> QED
  BY <1>2, Zenon DEF EncodePubKey, KeyCells

LEMMA SealedPubKeyRelayed ==
  ASSUME NEW p \in Seq(Nat), NEW b \in MsgPubKey(Time, Nat), NEW old,
         HeadIs(b, old, p, ObjectTypePubKey), SealedIn(p), PubKeyErr(p) = "nil",
         b.tag = <<VarInt(p, 6)>>, b.encrypted = SubSeq(p, 7, Len(p))
  PROVE  /\ EncodePubKey(b).err = "nil"
         /\ Relayed(EncodePubKey(b).payload, p)
         /\ PubKeyErr(EncodePubKey(b).payload) = "nil"
<1> DEFINE type == ObjectTypePubKey
           tag == <<VarInt(p, 6)>>
           rest == SubSeq(p, 7, Len(p))
           t == tag \o rest
           q == EncodePubKey(b).payload
<1>1. ObjectErr(p, type) = "nil" /\ VarInt(p, 4) >= 4
  BY DEF SealedIn
<1>2. ErrIfShort(p, 6) = "nil"
  BY DEF PubKeyErr
<1>3. 6 <= Len(p) /\ VarInt(p, 6) = p[6] /\ p[6] \in Nat
  BY <1>2 DEF ErrIfShort, VarInt, Field
<1>4. b.version >= 4
  BY <1>1, HeadRead DEF HeadIs, VersionOf
<1>5. /\ tag \in Seq(Nat) /\ Len(tag) = 1 /\ tag[1] = p[6] /\ tag # <<>>
      /\ rest \in Seq(Nat) /\ Len(rest) = Len(p) - 6
      /\ \A i \in 1..Len(rest) : rest[i] = p[6 + i]
  <2>1. /\ tag \in Seq(Nat) /\ Len(tag) = 1 /\ tag[1] = p[6] /\ tag # <<>>
    BY ONLY <1>3
  <2> DEFINE n == Len(p) - 6
  <2>2. n \in Nat /\ 6 + n <= Len(p) /\ 6 + n = Len(p) /\ p \in Seq(Nat) /\ 6 + 1 = 7
    BY <1>3
  <2>3. /\ SubSeq(p, 6 + 1, 6 + n) \in Seq(Nat) /\ Len(SubSeq(p, 6 + 1, 6 + n)) = n
        /\ \A i \in 1..n : SubSeq(p, 6 + 1, 6 + n)[i] = p[6 + i]
    BY ONLY <2>2, Cut
  <2>4. rest = SubSeq(p, 6 + 1, 6 + n)
    BY ONLY <2>2
  <2> HIDE DEF rest
  <2> QED
    BY ONLY <2>1, <2>3, <2>4
<1>6. EncodePubKey(b) = EncodedOr(tag = <<>>, (EncodeObject(b) \o tag) \o rest)
  <2>1. b.version >= EncryptedPubKeyVersion
    BY <1>4 DEF EncryptedPubKeyVersion
  <2>2. EncodePubKey(b)
          = EncodedOr(b.tag = <<>>, (EncodeObject(b) \o b.tag) \o b.encrypted)
    BY <2>1, PubKeyLayouts, Zenon
  <2> QED
    BY <2>2, Zenon
<1> HIDE DEF tag, rest
<1>7. Joins(t, tag, rest)
  BY ONLY <1>5, Concat
<1>8. /\ t \in Seq(Nat) /\ Len(t) = Len(p) - 5 /\ t[1] = p[6]
      /\ \A i \in 1..Len(rest) : t[1 + i] = rest[i]
  <2>1. /\ t \in Seq(Nat) /\ Len(t) = Len(tag) + Len(rest)
        /\ \A i \in 1..Len(tag) : t[i] = tag[i]
        /\ \A i \in 1..Len(rest) : t[Len(tag) + i] = rest[i]
    BY ONLY <1>7, Zenon DEF Joins
  <2>2. /\ Len(tag) = 1 /\ tag[1] = p[6] /\ Len(rest) = Len(p) - 6
        /\ p \in Seq(Nat)
    BY <1>5
  <2> HIDE DEF t
  <2>3. Len(t) = Len(p) - 5
    BY ONLY <2>1, <2>2
  <2>4. t[1] = tag[1]
    BY ONLY <2>1, <2>2
  <2> QED
    BY ONLY <2>1, <2>2, <2>3, <2>4
<1>9. q = EncodeObject(b) \o t /\ EncodePubKey(b).err = "nil"
  <2> DEFINE eo == EncodeObject(b)
  <2>1. ObjectFields(b)
    BY <1>1, HeadCells, Zenon
  <2>2. eo \in Seq(Nat)
    BY <2>1 DEF EncodeObject, ObjectFields
  <2> HIDE DEF eo
  <2>3. (eo \o tag) \o rest = eo \o t
    BY ONLY <1>5, <2>2, Associative
  <2> HIDE DEF t
  <2>4. EncodePubKey(b) = EncodedOr(tag = <<>>, eo \o t)
    BY ONLY <1>6, <2>3 DEF eo
  <2>5. tag # <<>>
    BY <1>5
  <2> QED
    BY <2>4, <2>5, NotPanicking, Zenon DEF eo
<1> HIDE DEF t, q, type
<1>10. ASSUME NEW i \in 1..Len(t)
       PROVE  t[i] = p[5 + i]
  <2>1. CASE i = 1
    BY <1>8, <2>1
  <2>2. CASE i # 1
    <3>1. i - 1 \in 1..Len(rest) /\ 1 + (i - 1) = i /\ 6 + (i - 1) = 5 + i
      BY ONLY <1>3, <1>5, <1>8, <2>2, <1>10
    <3>2. t[1 + (i - 1)] = rest[i - 1] /\ rest[i - 1] = p[6 + (i - 1)]
      BY <1>5, <1>8, <3>1, Zenon
    <3> QED
      BY ONLY <3>1, <3>2
  <2> QED
    BY <2>1, <2>2
<1>11. 5 + Len(t) <= Len(p) /\ t \in Seq(Nat)
  BY ONLY <1>3, <1>8
<1>12. /\ Relayed(q, p) /\ ObjectErr(q, type) = "nil" /\ Len(q) = 5 + Len(t)
       /\ VarInt(q, 4) = VarInt(p, 4)
  <2>1. /\ HeadIs(b, old, p, type) /\ ObjectErr(p, type) = "nil" /\ p \in Seq(Nat)
        /\ q = EncodeObject(b) \o t
    BY <1>1, <1>9 DEF type
  <2>2. RelaysObject(q, p, t, type)
    BY ONLY <1>10, <1>11, <2>1, ObjectRelayed, Zenon
  <2> QED
    BY <2>2, Zenon DEF RelaysObject
<1>13. SealedIn(q)
  BY <1>1, <1>12 DEF SealedIn, type
<1>14. ~(Len(q) < 6)
  BY <1>3, <1>8, <1>12
<1>15. PubKeyErr(q) = "nil"
  BY <1>13, <1>14 DEF PubKeyErr, ErrIfShort
<1> QED
  BY <1>9, <1>12, <1>15 DEF q

(* The keys that were read from the cells 6 to 8 are in these cells. *)
LEMMA KeysRelayed ==
  ASSUME NEW p \in Seq(Nat), 8 <= Len(p), NEW b, NEW behavior,
         b.behavior = Field(p, 6, behavior),
         b.signingKey = <<VarInt(p, 7)>>, b.encryptKey = <<VarInt(p, 8)>>
  PROVE  /\ KeyCells(b) \in Seq(Nat) /\ Len(KeyCells(b)) = 3
         /\ KeyCells(b)[1] = p[6] /\ KeyCells(b)[2] = p[7] /\ KeyCells(b)[3] = p[8]
         /\ b.signingKey # <<>> /\ b.encryptKey # <<>>
<1>1. /\ b.behavior = p[6] /\ VarInt(p, 7) = p[7] /\ VarInt(p, 8) = p[8]
      /\ p[6] \in Nat /\ p[7] \in Nat /\ p[8] \in Nat
  BY DEF Field, VarInt
<1>2. /\ b.signingKey = <<p[7]>> /\ b.encryptKey = <<p[8]>>
  BY <1>1
<1>3. /\ b.signingKey \in Seq(Nat) /\ Len(b.signingKey) = 1 /\ b.signingKey[1] = p[7]
      /\ b.encryptKey \in Seq(Nat) /\ Len(b.encryptKey) = 1 /\ b.encryptKey[1] = p[8]
      /\ b.signingKey # <<>> /\ b.encryptKey # <<>> /\ b.behavior \in Nat
  BY ONLY <1>1, <1>2
<1>4. /\ KeyCells(b) \in Seq(Nat) /\ Len(KeyCells(b)) = 3
      /\ KeyCells(b)[1] = b.behavior /\ KeyCells(b)[2] = b.signingKey[1]
      /\ KeyCells(b)[3] = b.encryptKey[1]
  BY ONLY <1>3, KeysOnWire
<1> QED
  BY ONLY <1>1, <1>3, <1>4

LEMMA PlainPubKeyRelayed ==
  ASSUME NEW p \in Seq(Nat), NEW b \in MsgPubKey(Time, Nat), NEW old,
         HeadIs(b, old, p, ObjectTypePubKey), KeyedIn(p), ~ExtendedIn(p),
         PubKeyErr(p) = "nil", b.behavior = Field(p, 6, old.behavior),
         b.signingKey = <<VarInt(p, 7)>>, b.encryptKey = <<VarInt(p, 8)>>
  PROVE  /\ EncodePubKey(b).err = "nil"
         /\ Relayed(EncodePubKey(b).payload, p)
         /\ PubKeyErr(EncodePubKey(b).payload) = "nil"
<1> DEFINE type == ObjectTypePubKey
           t == KeyCells(b)
           q == EncodePubKey(b).payload
<1>1. ObjectErr(p, type) = "nil" /\ ~(VarInt(p, 4) >= 4) /\ ~SealedIn(p)
  BY DEF KeyedIn, SealedIn
<1>2. ErrIfShort(p, 8) = "nil"
  BY <1>1 DEF PubKeyErr
<1>3. 8 <= Len(p) /\ Len(p) >= 8
  BY <1>2 DEF ErrIfShort
<1>4. b.version = VarInt(p, 4) /\ b.version \in Nat
  BY <1>1, HeadRead, PubKeyTypes DEF HeadIs, VersionOf
<1>5. VarInt(p, 4) # 3
  BY <1>3 DEF ExtendedIn
<1>6. b.version < ExtendedPubKeyVersion
  BY ONLY <1>1, <1>4, <1>5 DEF ExtendedPubKeyVersion
<1>7. /\ t \in Seq(Nat) /\ Len(t) = 3
      /\ t[1] = p[6] /\ t[2] = p[7] /\ t[3] = p[8]
      /\ b.signingKey # <<>> /\ b.encryptKey # <<>>
  BY <1>3, KeysRelayed, Zenon
<1>8. EncodePubKey(b) = EncodedOr(b.signingKey = <<>> \/ b.encryptKey = <<>>,
                                  EncodeObject(b) \o t)
  BY <1>6, PubKeyLayouts, Zenon
<1>9. q = EncodeObject(b) \o t /\ EncodePubKey(b).err = "nil"
  <2> HIDE DEF t
  <2> QED
    BY <1>7, <1>8, NotPanicking, ZenonT(40)
<1> HIDE DEF t, q, type
<1>10. 5 + Len(t) <= Len(p) /\ \A i \in 1..Len(t) : t[i] = p[5 + i]
  BY ONLY <1>3, <1>7, p \in Seq(Nat)
<1>11. RelaysObject(q, p, t, type)
  <2>1. /\ HeadIs(b, old, p, type) /\ ObjectErr(p, type) = "nil" /\ p \in Seq(Nat)
        /\ q = EncodeObject(b) \o t /\ t \in Seq(Nat)
    BY <1>1, <1>7, <1>9 DEF type
  <2> QED
    BY ONLY <1>10, <2>1, ObjectRelayed, Zenon
<1>12. /\ Relayed(q, p) /\ ObjectErr(q, type) = "nil" /\ Len(q) = 8
       /\ VarInt(q, 4) = VarInt(p, 4)
  BY <1>7, <1>11 DEF RelaysObject
<1>13. KeyedIn(q) /\ ~SealedIn(q) /\ ~ExtendedIn(q)
  BY <1>1, <1>5, <1>12 DEF KeyedIn, SealedIn, ExtendedIn, type
<1>14. PubKeyErr(q) = "nil"
  BY <1>12, <1>13 DEF PubKeyErr, ErrIfShort
<1> QED
  BY <1>9, <1>12, <1>14 DEF q

LEMMA ExtendedPubKeyRelayed ==
  ASSUME NEW p \in Seq(Nat), NEW b \in MsgPubKey(Time, Nat), NEW old,
         HeadIs(b, old, p, ObjectTypePubKey), ExtendedIn(p),
         PubKeyErr(p) = "nil", b.behavior = Field(p, 6, old.behavior),
         b.signingKey = <<VarInt(p, 7)>>, b.encryptKey = <<VarInt(p, 8)>>,
         b.nonceTrials = VarInt(p, 9),
         ~(Len(p) < 9) => b.extraBytes = VarInt(p, 10),
         ~(Len(p) < 11) /\ ~Huge(p, 11) => b.signature = SignatureOf(p)
  PROVE  /\ EncodePubKey(b).err = "nil"
         /\ Relayed(EncodePubKey(b).payload, p)
         /\ PubKeyErr(EncodePubKey(b).payload) = "nil"
<1> DEFINE type == ObjectTypePubKey
           h == KeyCells(b)
           sig == b.signature
           three == <<b.nonceTrials, b.extraBytes, Len(sig)>>
           six == h \o three
           t == six \o sig
           q == EncodePubKey(b).payload
<1>1. ObjectErr(p, type) = "nil" /\ VarInt(p, 4) = 3 /\ KeyedIn(p) /\ ~SealedIn(p)
  BY DEF ExtendedIn, KeyedIn, SealedIn
<1>2. ~Huge(p, 11) /\ ErrIfShort(p, IF Len(p) < 11 THEN 11 ELSE 11 + p[11]) = "nil"
  BY <1>1 DEF PubKeyErr
<1>3. /\ ~(Len(p) < 11) /\ ~(Len(p) < 9) /\ 8 <= Len(p) /\ Len(p) \in Nat
      /\ ~(Len(p) < 11 + p[11])
      /\ p[9] \in Nat /\ p[10] \in Nat /\ p[11] \in Nat
      /\ VarInt(p, 9) = p[9] /\ VarInt(p, 10) = p[10]
  <2>1. ~(Len(p) < 11)
    <3>1. Len(p) < 11 => ErrIfShort(p, 11) = "EOF"
      BY DEF ErrIfShort
    <3> QED
      BY <1>2, <3>1
  <2>2. ErrIfShort(p, 11 + p[11]) = "nil"
    BY <1>2, <2>1
  <2>3. ~(Len(p) < 11 + p[11])
    BY ONLY <2>2 DEF ErrIfShort
  <2>4. p \in Seq(Nat)
    OBVIOUS
  <2>5. /\ ~(Len(p) < 9) /\ 8 <= Len(p) /\ Len(p) \in Nat
        /\ 9 <= Len(p) /\ 10 <= Len(p) /\ 11 <= Len(p)
    BY ONLY <2>1, <2>4
  <2>6. p[9] \in Nat /\ p[10] \in Nat /\ p[11] \in Nat
    BY ONLY <2>4, <2>5
  <2>7. VarInt(p, 9) = p[9] /\ VarInt(p, 10) = p[10]
    BY ONLY <2>5, Zenon DEF VarInt, Field
  <2> QED
    BY <2>1, <2>3, <2>5, <2>6, <2>7
<1>4. b.version = 3
  BY <1>1, HeadRead DEF HeadIs, VersionOf
<1>5. /\ sig = SignatureOf(p) /\ sig \in Seq(Nat) /\ Len(sig) = p[11]
      /\ b.nonceTrials = p[9] /\ b.extraBytes = p[10]
  BY <1>2, <1>3, SignatureType
<1>6. ASSUME NEW i \in 1..Len(sig)
      PROVE  sig[i] = p[11 + i]
  <2>1. i \in 1..p[11]
    BY ONLY <1>5, <1>6
  <2>2. SignatureOf(p)[i] = VarInt(p, 11 + i)
    BY ONLY <2>1, Zenon DEF SignatureOf
  <2>3. 11 + i <= Len(p)
    <3>1. p[11] \in Nat /\ Len(p) \in Nat /\ ~(Len(p) < 11 + p[11])
      BY <1>3
    <3> QED
      BY ONLY <2>1, <3>1
  <2>4. sig = SignatureOf(p)
    BY <1>5
  <2> QED
    BY ONLY <2>2, <2>3, <2>4, Zenon DEF VarInt, Field
<1>7. /\ h \in Seq(Nat) /\ Len(h) = 3
      /\ h[1] = p[6] /\ h[2] = p[7] /\ h[3] = p[8]
      /\ b.signingKey # <<>> /\ b.encryptKey # <<>>
  BY <1>3, KeysRelayed, Zenon
<1>8. /\ three \in Seq(Nat) /\ Len(three) = 3 /\ three[1] = p[9]
      /\ three[2] = p[10] /\ three[3] = p[11]
  BY ONLY <1>3, <1>5
<1>9. EncodePubKey(b) = EncodedOr(b.signingKey = <<>> \/ b.encryptKey = <<>>,
                          ((EncodeObject(b) \o h) \o three) \o sig)
  <2>1. b.version = ExtendedPubKeyVersion
    BY <1>4 DEF ExtendedPubKeyVersion
  <2> QED
    BY <2>1, PubKeyLayouts, Zenon
<1> HIDE DEF h, three, sig
<1>10. Joins(six, h, three)
  BY ONLY <1>7, <1>8, Concat
<1>11. six \in Seq(Nat)
  BY ONLY <1>10 DEF Joins
<1>12. q = EncodeObject(b) \o t /\ EncodePubKey(b).err = "nil"
  <2> DEFINE eo == EncodeObject(b)
  <2>1. ObjectFields(b)
    BY <1>1, HeadCells, Zenon
  <2>2. eo \in Seq(Nat)
    BY <2>1 DEF EncodeObject, ObjectFields
  <2> HIDE DEF eo
  <2>3. (eo \o h) \o three = eo \o six
    BY ONLY <1>7, <1>8, <2>2, Associative
  <2> HIDE DEF six
  <2>4. (eo \o six) \o sig = eo \o (six \o sig)
    BY ONLY <1>5, <1>11, <2>2, Associative
  <2>5. EncodePubKey(b) = EncodedOr(b.signingKey = <<>> \/ b.encryptKey = <<>>, eo \o t)
    BY ONLY <1>9, <2>3, <2>4 DEF eo
  <2> HIDE DEF t
  <2> QED
    BY <1>7, <2>5, NotPanicking, ZenonT(40) DEF eo
<1> HIDE DEF six
<1>13. Joins(t, six, sig)
  BY ONLY <1>5, <1>11, Concat
<1> HIDE DEF t, q, type
<1>14. SixAndText(t, h, three, sig)
  <2>1. /\ h \in Seq(Nat) /\ three \in Seq(Nat) /\ sig \in Seq(Nat)
        /\ Len(h) = 3 /\ Len(three) = 3
    BY <1>5, <1>7, <1>8
  <2> QED
    BY ONLY <1>10, <1>13, <2>1, ThreeThreeText, Zenon
<1>15. /\ t \in Seq(Nat) /\ Len(t) = 6 + p[11]
       /\ t[1] = p[6] /\ t[2] = p[7] /\ t[3] = p[8]
       /\ t[4] = p[9] /\ t[5] = p[10] /\ t[6] = p[11]
       /\ \A i \in 1..p[11] : t[6 + i] = p[11 + i]
  <2>1. /\ h[1] = p[6] /\ h[2] = p[7] /\ h[3] = p[8] /\ three[1] = p[9]
        /\ three[2] = p[10] /\ three[3] = p[11] /\ Len(sig) = p[11]
    BY <1>5, <1>7, <1>8
  <2>2. \A i \in 1..p[11] : t[6 + i] = p[11 + i]
    BY ONLY <1>6, <1>14, <2>1, Zenon DEF SixAndText
  <2> QED
    BY ONLY <1>14, <2>1, <2>2, Zenon DEF SixAndText
<1>16. ASSUME NEW i \in 1..Len(t)
       PROVE  t[i] = p[5 + i]
  <2>1. p[11] \in Nat /\ Len(t) = 6 + p[11]
    BY <1>3, <1>15
  <2>2. i = 1 \/ i = 2 \/ i = 3 \/ i = 4 \/ i = 5 \/ i = 6 \/ i - 6 \in 1..p[11]
    BY ONLY <2>1, <1>16
  <2>3. CASE i - 6 \in 1..p[11]
    <3>1. 6 + (i - 6) = i /\ 11 + (i - 6) = 5 + i
      BY ONLY <2>1, <1>16
    <3>2. t[6 + (i - 6)] = p[11 + (i - 6)]
      BY <1>15, <2>3, Zenon
    <3> QED
      BY ONLY <3>1, <3>2
  <2>4. /\ t[1] = p[5 + 1] /\ t[2] = p[5 + 2] /\ t[3] = p[5 + 3]
        /\ t[4] = p[5 + 4] /\ t[5] = p[5 + 5] /\ t[6] = p[5 + 6]
    BY <1>15
  <2> QED
    BY ONLY <2>2, <2>3, <2>4
<1>17. 5 + Len(t) <= Len(p) /\ t \in Seq(Nat)
  <2>1. p[11] \in Nat /\ Len(t) = 6 + p[11] /\ ~(Len(p) < 11 + p[11]) /\ Len(p) \in Nat
    BY <1>3, <1>15
  <2> QED
    BY <1>15, <2>1, SMTT(30)
<1>18. RelaysObject(q, p, t, type)
  <2>1. /\ HeadIs(b, old, p, type) /\ ObjectErr(p, type) = "nil" /\ p \in Seq(Nat)
        /\ q = EncodeObject(b) \o t
    BY <1>1, <1>12 DEF type
  <2> QED
    BY ONLY <1>16, <1>17, <2>1, ObjectRelayed, Zenon
<1>19. /\ Relayed(q, p) /\ ObjectErr(q, type) = "nil" /\ Len(q) = 11 + p[11]
       /\ VarInt(q, 4) = 3 /\ p[11] \in Nat
  <2>1. p[11] \in Nat /\ Len(t) = 6 + p[11] /\ VarInt(p, 4) = 3
    BY <1>1, <1>3, <1>15
  <2> QED
    BY ONLY <1>18, <2>1 DEF RelaysObject
<1>20. q[11] = p[11] /\ ~(Len(q) < 11) /\ Len(q) >= 8
  BY ONLY <1>19, SMTT(30) DEF Relayed
<1>21. KeyedIn(q) /\ ~SealedIn(q) /\ ExtendedIn(q)
  BY <1>19, <1>20 DEF KeyedIn, SealedIn, ExtendedIn, type
<1>22. ~Huge(q, 11) /\ ErrIfShort(q, 11 + q[11]) = "nil"
  <2>1. p[11] \in Nat /\ Len(p) \in Nat /\ ~(Len(p) < 11) /\ ~Huge(p, 11)
    BY <1>2, <1>3
  <2>2. Len(p) >= 11
    BY ONLY <2>1
  <2>3. ~(p[11] > MaxAlloc)
    BY ONLY <2>1, <2>2, Zenon DEF Huge
  <2>4. ~Huge(q, 11)
    BY ONLY <1>20, <2>3, Zenon DEF Huge
  <2>5. Len(q) = 11 + q[11] /\ q[11] \in Nat
    BY ONLY <1>19, <1>20
  <2>6. ~(Len(q) < 11 + q[11])
    BY ONLY <2>5
  <2> QED
    BY ONLY <2>4, <2>6, Zenon DEF ErrIfShort
<1>23. PubKeyErr(q) = "nil"
  BY <1>20, <1>21, <1>22 DEF PubKeyErr
<1> QED
  BY <1>12, <1>19, <1>23 DEF q

LEMMA PubKeyRelayed ==
  ASSUME NEW old \in MsgPubKey(Time, Nat), NEW p \in Seq(Nat),
         DecodePubKey(old, p).err = "nil",
         NEW e \in MsgPubKey(Time, Nat), NEW b, b = DecodePubKey(old, p).msg
  PROVE  /\ EncodePubKey(b).err = "nil"
         /\ Relayed(EncodePubKey(b).payload, p)
         /\ DecodePubKey(e, EncodePubKey(b).payload).err = "nil"
<1> DEFINE type == ObjectTypePubKey
           q == EncodePubKey(b).payload
<1>1. /\ b \in MsgPubKey(Time, Nat) /\ HeadIs(b, old, p, type)
      /\ PubKeyTail(b,
           IF KeyedIn(p) THEN Field(p, 6, old.behavior) ELSE old.behavior,
           IF KeyedIn(p) THEN <<VarInt(p, 7)>> ELSE old.signingKey,
           IF KeyedIn(p) THEN <<VarInt(p, 8)>> ELSE old.encryptKey,
           IF ExtendedIn(p) THEN VarInt(p, 9) ELSE old.nonceTrials,
           IF ExtendedIn(p) /\ ~(Len(p) < 9) THEN VarInt(p, 10) ELSE old.extraBytes,
           IF ExtendedIn(p) /\ ~(Len(p) < 11) /\ ~Huge(p, 11)
           THEN SignatureOf(p) ELSE old.signature,
           IF SealedIn(p) THEN <<VarInt(p, 6)>> ELSE old.tag,
           IF SealedIn(p) /\ ~(Len(p) < 6) THEN SubSeq(p, 7, Len(p))
                                           ELSE old.encrypted)
      /\ PubKeyErr(p) = "nil"
  BY PubKeyDecoded, Zenon
<1>2. EncodePubKey(b).err = "nil" /\ Relayed(q, p) /\ PubKeyErr(q) = "nil"
  <2>1. CASE SealedIn(p)
    <3>1. ~(Len(p) < 6)
      BY <1>1, <2>1 DEF PubKeyErr, ErrIfShort
    <3>2. b.tag = <<VarInt(p, 6)>> /\ b.encrypted = SubSeq(p, 7, Len(p))
      BY ONLY <1>1, <2>1, <3>1, Zenon DEF PubKeyTail
    <3> QED
      BY <1>1, <2>1, <3>2, SealedPubKeyRelayed, Zenon
  <2>2. CASE KeyedIn(p) /\ ~ExtendedIn(p)
    <3>1. /\ b.behavior = Field(p, 6, old.behavior)
          /\ b.signingKey = <<VarInt(p, 7)>> /\ b.encryptKey = <<VarInt(p, 8)>>
      BY ONLY <1>1, <2>2, Zenon DEF PubKeyTail
    <3> QED
      BY <1>1, <2>2, <3>1, PlainPubKeyRelayed, Zenon
  <2>3. CASE ExtendedIn(p)
    <3>1. KeyedIn(p)
      BY <2>3 DEF ExtendedIn
    <3>2. /\ b.behavior = Field(p, 6, old.behavior)
          /\ b.signingKey = <<VarInt(p, 7)>> /\ b.encryptKey = <<VarInt(p, 8)>>
          /\ b.nonceTrials = VarInt(p, 9)
          /\ ~(Len(p) < 9) => b.extraBytes = VarInt(p, 10)
          /\ ~(Len(p) < 11) /\ ~Huge(p, 11) => b.signature = SignatureOf(p)
      BY ONLY <1>1, <2>3, <3>1, Zenon DEF PubKeyTail
    <3> QED
      BY <1>1, <2>3, <3>2, ExtendedPubKeyRelayed, Zenon
  <2>4. SealedIn(p) \/ KeyedIn(p)
    BY <1>1 DEF PubKeyErr, SealedIn, KeyedIn, ExtendedIn
  <2> QED
    BY <2>1, <2>2, <2>3, <2>4
<1> HIDE DEF q
<1>3. q \in Seq(Nat)
  BY <1>2 DEF Relayed
<1>4. DecodePubKey(e, q).err = PubKeyErr(q)
  BY <1>3, PubKeyDecoded, Zenon
<1> QED
  BY <1>2, <1>4 DEF q

(* inv and getdata *)
LEMMA InvRelayed ==
  ASSUME NEW old, NEW p \in Seq(Nat), DecodeInv(old, p).err = "nil",
         NEW b, b = DecodeInv(old, p).msg
  PROVE  /\ EncodeInv(b).err = "nil"
         /\ Relayed(EncodeInv(b).payload, p)
         /\ DecodeInv(<<>>, EncodeInv(b).payload).err = "nil"
<1> DEFINE q == EncodeInv(b).payload
           n == Len(b)
<1>1. /\ ListErr(p, MaxInvPerMsg, MaxInvVectPayload) = "nil"
      /\ b = IF ListRead(p, MaxInvPerMsg) THEN Elements(p, MaxInvVectPayload) ELSE old
  BY ListDecoded DEF DecodeInv
<1>2. /\ p # <<>> /\ ~(p[1] > MaxInvPerMsg) /\ ~Huge(p, 1) /\ ~(Len(p) < 1 + p[1])
  BY <1>1 DEF ListErr, ErrIfShort, MaxInvVectPayload
<1>3. b = Elements(p, MaxInvVectPayload)
  BY <1>1, <1>2 DEF ListRead
<1>4. /\ b \in Seq(Nat) /\ n = InvCount(p) /\ p[1] \in Nat
      /\ \A i \in 1..InvCount(p) : b[i] = p[1 + i]
  BY <1>2, <1>3, InvElements
<1>5. InvCount(p) = p[1] /\ p[1] <= MaxInvPerMsg /\ 1 + p[1] <= Len(p)
  BY <1>2, <1>4, Limits DEF InvCount, Least
<1>6. /\ EncodeInv(b).err = "nil" /\ q \in Seq(Nat) /\ Len(q) = 1 + n
      /\ DecodeInv(<<>>, q).err = "nil"
  <2>1. b \in Seq(Nat) /\ Len(b) <= MaxInvPerMsg
    BY <1>4, <1>5
  <2>2. /\ EncodeInv(b).err = "nil" /\ q \in Seq(Nat) /\ Len(q) = 1 + n
        /\ DecodeInv(<<>>, q) = [msg |-> b, err |-> "nil"]
    BY ONLY <2>1, InvRoundTrip, Zenon
  <2> HIDE DEF q
  <2> QED
    BY ONLY <2>2
<1>7. q = <<n>> \o b
  <2>1. ~(Len(b) > MaxInvPerMsg)
    BY <1>4, <1>5, Limits
  <2> QED
    BY <2>1, EncodedFields DEF EncodeInv
<1>8. q[1] = n /\ \A i \in 1..n : q[1 + i] = b[i]
  BY <1>4, <1>7, CountInFront
<1> HIDE DEF q
<1>9. ASSUME NEW i \in 1..Len(q)
      PROVE  q[i] = p[i]
  <2>1. CASE i = 1
    BY <1>4, <1>5, <1>8, <2>1
  <2>2. CASE i # 1
    <3>1. i - 1 \in 1..n /\ 1 + (i - 1) = i
      BY <1>6, <2>2
    <3> QED
      BY <1>4, <1>8, <3>1
  <2> QED
    BY <2>1, <2>2
<1>10. Relayed(q, p)
  BY <1>4, <1>5, <1>6, <1>9 DEF Relayed
<1> QED
  BY <1>6, <1>10 DEF q

(* addr *)
LEMMA Remainder ==
  ASSUME NEW a \in Nat, NEW m \in Nat \ {0}, a < m
  PROVE  a % m = a
  OBVIOUS

(* The place of a cell behind the count. *)
LEMMA PlaceOfCell ==
  ASSUME NEW n \in Nat, NEW j \in Nat, j >= 2, j <= 1 + 4 * n
  PROVE  \E i \in 1..n, k \in 1..4 : j = 1 + 4 * (i - 1) + k
<1> DEFINE i == ((j - 2) \div 4) + 1
           k == ((j - 2) % 4) + 1
<1>1. i \in 1..n /\ k \in 1..4 /\ j = 1 + 4 * (i - 1) + k
  OBVIOUS
<1> QED
  BY <1>1

LEMMA AddressRelayed ==
  ASSUME NEW s \in Seq(Nat), Len(s) = 4, s[1] < StampModulus
  PROVE  WriteNetAddress(s, TRUE) = s
<1>1. s \in NetAddress
  BY CellsAreAddress
<1>2. s[1] \in Nat /\ s[3] \in Nat /\ StampModulus \in Nat \ {0}
  <2>1. s[1] \in Nat /\ s[3] \in Nat
    BY SMTT(30)
  <2>2. StampModulus \in Nat \ {0}
    BY ONLY CodecAssumption DEF CodecAssumption
  <2> QED
    BY <2>1, <2>2
<1>3. s[1] % StampModulus = s[1]
  BY ONLY <1>2, s[1] < StampModulus, Remainder
<1>4. WireIP(s) = s[3]
  BY <1>2 DEF WireIP, NilIP
<1>5. WriteNetAddress(s, TRUE) = <<s[1] % StampModulus, s[2], WireIP(s), s[4]>>
  BY <1>1, AddressCells, Zenon
<1>6. s = <<s[1], s[2], s[3], s[4]>>
  BY FourCells
<1> QED
  BY ONLY <1>3, <1>4, <1>5, <1>6

LEMMA AddrRelayed ==
  ASSUME NEW old, NEW p \in Seq(Nat), DecodeAddr(old, p).err = "nil",
         \A i \in DOMAIN p : i % MaxNetAddressPayload = 2 => p[i] < StampModulus,
         NEW b, b = DecodeAddr(old, p).msg
  PROVE  /\ EncodeAddr(b).err = "nil"
         /\ Relayed(EncodeAddr(b).payload, p)
         /\ DecodeAddr(<<>>, EncodeAddr(b).payload).err = "nil"
<1> DEFINE q == EncodeAddr(b).payload
           n == Len(b)
<1>1. /\ ListErr(p, MaxAddrPerMsg, MaxNetAddressPayload) = "nil"
      /\ b = IF ListRead(p, MaxAddrPerMsg) THEN Elements(p, MaxNetAddressPayload) ELSE old
  BY ListDecoded DEF DecodeAddr
<1>2. /\ p # <<>> /\ ~(p[1] > MaxAddrPerMsg) /\ ~Huge(p, 1) /\ ~(Len(p) < 1 + p[1] * 4)
  BY <1>1 DEF ListErr, ErrIfShort, MaxNetAddressPayload
<1>3. b = Elements(p, MaxNetAddressPayload)
  BY <1>1, <1>2 DEF ListRead
<1>4. /\ b = [i \in 1..AddrCount(p) |-> AddrCut(p, i)]
      /\ b \in Seq(NetAddress) /\ n = AddrCount(p) /\ n \in Nat /\ p[1] \in Nat
      /\ \A i \in 1..AddrCount(p) :
           /\ AddrCut(p, i) \in Seq(Nat) /\ Len(AddrCut(p, i)) = 4
           /\ \A k \in 1..4 : AddrCut(p, i)[k] = p[1 + 4 * (i - 1) + k]
  BY <1>2, <1>3, AddrElements, Zenon
<1>5. n = p[1] /\ p[1] <= MaxAddrPerMsg /\ 1 + 4 * p[1] <= Len(p) /\ Len(p) \in Nat
  <2>1. /\ p[1] \in Nat /\ Len(p) \in Nat /\ MaxAddrPerMsg \in Nat
        /\ ~(p[1] > MaxAddrPerMsg) /\ ~(Len(p) < 1 + p[1] * 4)
    BY <1>2, <1>4, Limits
  <2>2. p[1] <= MaxAddrPerMsg /\ 1 + 4 * p[1] <= Len(p) /\ p[1] <= (Len(p) - 1) \div 4
    BY ONLY <2>1
  <2>3. AddrCount(p) = p[1]
    BY ONLY <2>1, <2>2 DEF AddrCount, Least
  <2> QED
    BY <1>4, <2>1, <2>2, <2>3
<1>6. ASSUME NEW i \in 1..n
      PROVE  /\ b[i] = AddrCut(p, i) /\ b[i] \in Seq(Nat) /\ Len(b[i]) = 4
             /\ \A k \in 1..4 : b[i][k] = p[1 + 4 * (i - 1) + k]
             /\ WriteNetAddress(b[i], TRUE) = b[i]
  <2>1. i \in 1..AddrCount(p)
    BY <1>4, <1>6
  <2>2. b[i] = AddrCut(p, i)
    BY ONLY <1>4, <2>1, Zenon
  <2>3. /\ b[i] \in Seq(Nat) /\ Len(b[i]) = 4
        /\ \A k \in 1..4 : b[i][k] = p[1 + 4 * (i - 1) + k]
    BY ONLY <1>4, <2>1, <2>2, Zenon
  <2> DEFINE at == 1 + 4 * (i - 1) + 1
  <2>4. at = 4 * (i - 1) + 2 /\ i - 1 \in Nat /\ 2 \in 0..3
        /\ at \in Nat /\ at >= 1 /\ at <= Len(p) /\ 1 \in 1..4
    BY ONLY <1>4, <1>5, <1>6, SMTT(30)
  <2>5. at % MaxNetAddressPayload = 2
    BY ONLY <2>4, Quarters DEF MaxNetAddressPayload
  <2>6. at \in DOMAIN p
    BY <2>4
  <2>7. p[at] < StampModulus
    BY <2>5, <2>6
  <2>8. b[i][1] = p[at]
    BY ONLY <2>3, <2>4
  <2>9. WriteNetAddress(b[i], TRUE) = b[i]
    BY ONLY <2>3, <2>7, <2>8, AddressRelayed
  <2> QED
    BY <2>2, <2>3, <2>9
<1>7. /\ EncodeAddr(b).err = "nil" /\ q \in Seq(Nat) /\ Len(q) = 1 + 4 * n
      /\ DecodeAddr(<<>>, q)
           = [msg |-> [i \in 1..n |-> WriteNetAddress(b[i], TRUE)], err |-> "nil"]
  BY <1>4, <1>5, AddrRoundTrip
<1> HIDE DEF q, n
<1>8. /\ q # <<>> /\ ~(Len(q) < 1 + q[1] * 4)
      /\ Elements(q, MaxNetAddressPayload) = [i \in 1..n |-> WriteNetAddress(b[i], TRUE)]
  <2>1. /\ ListErr(q, MaxAddrPerMsg, MaxNetAddressPayload) = "nil"
        /\ [i \in 1..n |-> WriteNetAddress(b[i], TRUE)]
             = IF ListRead(q, MaxAddrPerMsg) THEN Elements(q, MaxNetAddressPayload)
                                             ELSE <<>>
    <3> DEFINE d == DecodeAddr(<<>>, q)
               parts == [i \in 1..n |-> WriteNetAddress(b[i], TRUE)]
    <3>1. /\ d.msg = IF ListRead(q, MaxAddrPerMsg)
                     THEN Elements(q, MaxNetAddressPayload) ELSE <<>>
          /\ d.err = ListErr(q, MaxAddrPerMsg, MaxNetAddressPayload)
      BY ONLY ListDecoded DEF DecodeAddr
    <3>2. d = [msg |-> parts, err |-> "nil"]
      BY <1>7
    <3> HIDE DEF d, parts
    <3>3. d.msg = parts /\ d.err = "nil"
      BY ONLY <3>2
    <3>4. /\ ListErr(q, MaxAddrPerMsg, MaxNetAddressPayload) = "nil"
          /\ parts = IF ListRead(q, MaxAddrPerMsg)
                     THEN Elements(q, MaxNetAddressPayload) ELSE <<>>
      BY ONLY <3>1, <3>3, Zenon
    <3> QED
      BY <3>4 DEF parts
  <2>2. /\ q # <<>> /\ ~(q[1] > MaxAddrPerMsg) /\ ~Huge(q, 1)
        /\ ~(Len(q) < 1 + q[1] * 4)
    BY <2>1 DEF ListErr, ErrIfShort, MaxNetAddressPayload
  <2> QED
    BY <2>1, <2>2 DEF ListRead
<1>9. /\ Elements(q, MaxNetAddressPayload) = [i \in 1..AddrCount(q) |-> AddrCut(q, i)]
      /\ Len(Elements(q, MaxNetAddressPayload)) = AddrCount(q)
      /\ AddrCount(q) \in Nat /\ AddrCount(q) <= q[1] /\ q[1] \in Nat
      /\ \A i \in 1..AddrCount(q) :
           \A k \in 1..4 : AddrCut(q, i)[k] = q[1 + 4 * (i - 1) + k]
  BY <1>7, <1>8, AddrElements, Zenon
<1>10. AddrCount(q) = n /\ q[1] = n
  <2>1. Len([i \in 1..n |-> WriteNetAddress(b[i], TRUE)]) = n
    BY <1>4
  <2>2. AddrCount(q) = n
    BY <1>8, <1>9, <2>1, Zenon
  <2> QED
    BY ONLY <1>4, <1>7, <1>8, <1>9, <2>2
<1>11. ASSUME NEW i \in 1..n, NEW k \in 1..4
       PROVE  q[1 + 4 * (i - 1) + k] = p[1 + 4 * (i - 1) + k]
  <2>1. AddrCut(q, i) = WriteNetAddress(b[i], TRUE)
    <3>1. [j \in 1..n |-> AddrCut(q, j)] = [j \in 1..n |-> WriteNetAddress(b[j], TRUE)]
      BY ONLY <1>8, <1>9, <1>10
    <3>2. [j \in 1..n |-> AddrCut(q, j)][i] = [j \in 1..n |-> WriteNetAddress(b[j], TRUE)][i]
      BY <3>1
    <3> QED
      BY ONLY <1>11, <3>2, Zenon
  <2>2. AddrCut(q, i)[k] = q[1 + 4 * (i - 1) + k]
    BY ONLY <1>9, <1>10, <1>11
  <2>3. b[i][k] = p[1 + 4 * (i - 1) + k] /\ WriteNetAddress(b[i], TRUE) = b[i]
    BY ONLY <1>6, <1>11, Zenon
  <2> QED
    BY ONLY <2>1, <2>2, <2>3
<1>12. ASSUME NEW j \in 1..Len(q)
       PROVE  q[j] = p[j]
  <2>1. CASE j = 1
    BY ONLY <2>1, <1>5, <1>10
  <2>2. CASE j # 1
    <3>1. n \in Nat /\ j \in Nat /\ j >= 2 /\ j <= 1 + 4 * n
      BY ONLY <1>4, <1>7, <1>12, <2>2
    <3>2. PICK i \in 1..n, k \in 1..4 : j = 1 + 4 * (i - 1) + k
      BY <3>1, PlaceOfCell, Zenon
    <3>3. q[1 + 4 * (i - 1) + k] = p[1 + 4 * (i - 1) + k]
      BY <1>11, Zenon
    <3> QED
      BY ONLY <3>2, <3>3
  <2> QED
    BY <2>1, <2>2
<1>13. Len(q) <= Len(p)
  BY ONLY <1>5, <1>7
<1>14. Relayed(q, p)
  BY <1>7, <1>12, <1>13, Zenon DEF Relayed
<1>15. DecodeAddr(<<>>, q).err = "nil"
  BY <1>7
<1> QED
  BY <1>7, <1>14, <1>15 DEF q

(* version *)
UnstampedIs(na, services, ip, port) ==
  na[2] = services /\ WireIP(na) = ip /\ na[4] = port

LEMMA UnstampedCells ==
  ASSUME NEW services, NEW ip \in Nat, NEW port, NEW na,
         na = <<ZeroTime, services, ip, port>>
  PROVE  UnstampedIs(na, services, ip, port)
<1>1. na[2] = services /\ na[3] = ip /\ na[4] = port
  OBVIOUS
<1> QED
  BY <1>1 DEF UnstampedIs, WireIP, NilIP

LEMMA VersionRelayed ==
  ASSUME NEW old \in MsgVersion(Time), NEW p \in Seq(Nat),
         DecodeVersion(old, p).err = "nil",
         NEW e \in MsgVersion(Time), NEW b, b = DecodeVersion(old, p).msg
  PROVE  /\ EncodeVersion(b).err = "nil"
         /\ Relayed(EncodeVersion(b).payload, p)
         /\ DecodeVersion(e, EncodeVersion(b).payload).err = "nil"
<1> DEFINE q  == EncodeVersion(b).payload
           n  == p[11]
           at == 12 + p[11]
           k  == p[12 + p[11]]
<1>1. /\ VersionIs(b,
           Field(p, 1, old.protocolVersion), Field(p, 2, old.services),
           IF Len(p) < 3 THEN old.timestamp ELSE <<p[3], 0>>,
           IF Len(p) < 6 THEN old.addrYou ELSE ReadNetAddress(p, 4, FALSE),
           IF Len(p) < 9 THEN old.addrMe ELSE ReadNetAddress(p, 7, FALSE),
           Field(p, 10, old.nonce),
           IF AgentErr(p) = "nil" THEN AgentOf(p) ELSE old.userAgent,
           IF Listed(p) THEN StreamsOf(p) ELSE old.streamNumbers)
      /\ VersionErr(p) = "nil"
  BY VersionDecoded, Zenon
<1>2. AgentErr(p) = "nil" /\ Listed(p) /\ ErrIfShort(p, at + k) = "nil"
  BY <1>1 DEF VersionErr, Listed
<1>3. /\ AgentOf(p) \in Seq(Nat) /\ Len(AgentOf(p)) = n /\ n \in Nat
      /\ n <= MaxUserAgentLen /\ n <= MaxMessagePayload
      /\ \A i \in 1..n : AgentOf(p)[i] = p[11 + i]
  BY <1>2, AgentType, Zenon
<1>4. /\ StreamsOf(p) \in Seq(Nat) /\ Len(StreamsOf(p)) = k /\ k \in Nat
  BY <1>2, StreamsType, Zenon
<1>5. ~(Len(p) < at + k) /\ p \in Seq(Nat)
  BY <1>2 DEF ErrIfShort
<1> HIDE DEF n, k
<1>6. /\ Len(p) \in Nat /\ at + k <= Len(p) /\ at \in Nat
      /\ ~(Len(p) < 3) /\ ~(Len(p) < 6) /\ ~(Len(p) < 9)
      /\ 1 <= Len(p) /\ 2 <= Len(p) /\ 10 <= Len(p) /\ 11 <= Len(p)
  <2>1. at = 12 + n
    BY DEF n
  <2> HIDE DEF at
  <2> QED
    BY ONLY <1>3, <1>4, <1>5, <2>1
<1>7. /\ b \in MsgVersion(Time)
      /\ b.protocolVersion = p[1] /\ b.services = p[2] /\ b.timestamp = <<p[3], 0>>
      /\ b.addrYou = ReadNetAddress(p, 4, FALSE)
      /\ b.addrMe = ReadNetAddress(p, 7, FALSE)
      /\ b.nonce = p[10] /\ b.userAgent = AgentOf(p) /\ b.streamNumbers = StreamsOf(p)
  BY ONLY <1>1, <1>2, <1>6, Zenon DEF VersionIs, Field
<1>8. /\ b.addrYou = <<ZeroTime, p[4], p[5], p[6]>>
      /\ b.addrMe = <<ZeroTime, p[7], p[8], p[9]>>
  BY ONLY <1>5, <1>6, <1>7, CellsAreUnstamped, Zenon
<1>9. /\ p[3] \in Nat /\ p[5] \in Nat /\ p[8] \in Nat
  <2>1. p \in Seq(Nat) /\ Len(p) \in Nat /\ 11 <= Len(p)
    BY <1>5, <1>6
  <2>2. p \in [1..Len(p) -> Nat]
    BY ONLY <2>1, ElementType
  <2>3. 3 \in 1..Len(p) /\ 5 \in 1..Len(p) /\ 8 \in 1..Len(p)
    BY ONLY <2>1
  <2> QED
    BY ONLY <2>2, <2>3
<1>10. /\ b.addrYou[2] = p[4] /\ b.addrYou[4] = p[6] /\ WireIP(b.addrYou) = p[5]
       /\ b.addrMe[2] = p[7] /\ b.addrMe[4] = p[9] /\ WireIP(b.addrMe) = p[8]
       /\ b.timestamp[1] = p[3]
  <2>1. UnstampedIs(b.addrYou, p[4], p[5], p[6])
    BY ONLY <1>8, <1>9, UnstampedCells, Zenon
  <2>2. UnstampedIs(b.addrMe, p[7], p[8], p[9])
    BY ONLY <1>8, <1>9, UnstampedCells, Zenon
  <2>4. b.timestamp = <<p[3], 0>>
    BY <1>7
  <2>5. b.timestamp[1] = p[3]
    BY ONLY <2>4
  <2> QED
    BY <2>1, <2>2, <2>5 DEF UnstampedIs
<1>11. b \in MsgVersion(WireTime)
  <2>1. <<p[3], 0>> \in WireTime
    BY ONLY <1>9 DEF WireTime
  <2>2. b.timestamp \in WireTime
    BY ONLY <1>7, <2>1
  <2>3. b \in MsgVersion(Time)
    BY <1>7
  <2> QED
    BY ONLY <2>2, <2>3 DEF MsgVersion
<1>12. Len(b.userAgent) = n /\ Len(b.streamNumbers) = k
       /\ Len(b.userAgent) <= MaxUserAgentLen
  BY ONLY <1>3, <1>4, <1>7
<1>13. /\ EncodeVersion(b).err = "nil"
       /\ q \in Seq(Nat) /\ Len(q) = 12 + Len(b.userAgent) + Len(b.streamNumbers)
       /\ q[1] = b.protocolVersion /\ q[2] = b.services
       /\ q[3] = b.timestamp[1]
       /\ q[4] = b.addrYou[2] /\ q[5] = WireIP(b.addrYou) /\ q[6] = b.addrYou[4]
       /\ q[7] = b.addrMe[2] /\ q[8] = WireIP(b.addrMe) /\ q[9] = b.addrMe[4]
       /\ q[10] = b.nonce /\ q[11] = Len(b.userAgent)
       /\ SubSeq(q, 12, 11 + Len(b.userAgent)) = b.userAgent
       /\ q[12 + Len(b.userAgent)] = Len(b.streamNumbers)
       /\ \A i \in 1..Len(b.streamNumbers) :
            q[12 + Len(b.userAgent) + i] = b.streamNumbers[i]
  BY ONLY <1>11, <1>12, VersionCells, Zenon
<1> HIDE DEF q, at
<1>14. /\ q \in Seq(Nat) /\ Len(q) = 12 + n + k
       /\ q[1] = p[1] /\ q[2] = p[2] /\ q[3] = p[3] /\ q[4] = p[4] /\ q[5] = p[5]
       /\ q[6] = p[6] /\ q[7] = p[7] /\ q[8] = p[8] /\ q[9] = p[9] /\ q[10] = p[10]
       /\ q[11] = n
       /\ SubSeq(q, 12, 11 + n) = AgentOf(p)
       /\ q[12 + n] = k
       /\ \A i \in 1..k : q[12 + n + i] = StreamsOf(p)[i]
  <2>1. /\ q \in Seq(Nat) /\ Len(q) = 12 + n + k /\ q[11] = n
        /\ SubSeq(q, 12, 11 + n) = b.userAgent
        /\ q[12 + n] = k
        /\ \A i \in 1..k : q[12 + n + i] = b.streamNumbers[i]
    BY ONLY <1>12, <1>13, Zenon
  <2>2. /\ q[1] = p[1] /\ q[2] = p[2] /\ q[3] = p[3] /\ q[4] = p[4] /\ q[5] = p[5]
        /\ q[6] = p[6] /\ q[7] = p[7] /\ q[8] = p[8] /\ q[9] = p[9] /\ q[10] = p[10]
    BY ONLY <1>7, <1>10, <1>13, Zenon
  <2> QED
    BY ONLY <1>7, <2>1, <2>2, Zenon
<1>15. ASSUME NEW i \in 1..n
       PROVE  q[11 + i] = p[11 + i]
  <2>1. q \in Seq(Nat) /\ 11 \in Nat /\ n \in Nat /\ 11 + n <= Len(q) /\ 11 + 1 = 12
    BY ONLY <1>3, <1>4, <1>14
  <2>2. \A j \in 1..n : SubSeq(q, 11 + 1, 11 + n)[j] = q[11 + j]
    BY ONLY <2>1, Cut, Zenon
  <2>3. SubSeq(q, 11 + 1, 11 + n) = AgentOf(p)
    BY ONLY <1>14, <2>1, Zenon
  <2> QED
    BY ONLY <1>3, <1>15, <2>2, <2>3, Zenon
<1>16. at = 12 + n /\ p[at] = k
  BY DEF at, n, k
<1>17. ASSUME NEW i \in 1..k
       PROVE  q[12 + n + i] = p[12 + n + i]
  <2>1. StreamsOf(p)[i] = VarInt(p, at + i)
    BY ONLY <1>17, Zenon DEF StreamsOf, at, k
  <2>2. at + i <= Len(p)
    BY ONLY <1>4, <1>6, <1>17
  <2>3. VarInt(p, at + i) = p[at + i]
    BY ONLY <2>2, Zenon DEF VarInt, Field
  <2>4. q[12 + n + i] = StreamsOf(p)[i]
    BY <1>14, <1>17, Zenon
  <2> QED
    BY ONLY <1>16, <2>1, <2>3, <2>4, Zenon
<1>18. ASSUME NEW j \in 1..Len(q)
       PROVE  q[j] = p[j]
  <2>0. /\ n \in Nat /\ k \in Nat /\ Len(q) = 12 + n + k /\ q[11] = n /\ p[11] = n
        /\ q[12 + n] = k /\ p[12 + n] = k
    BY <1>3, <1>4, <1>14, <1>16 DEF n
  <2>1. CASE j <= 11
    <3>1. \/ j = 1 \/ j = 2 \/ j = 3 \/ j = 4 \/ j = 5 \/ j = 6 \/ j = 7 \/ j = 8
          \/ j = 9 \/ j = 10 \/ j = 11
      BY ONLY <2>1, <1>18
    <3>2. /\ q[1] = p[1] /\ q[2] = p[2] /\ q[3] = p[3] /\ q[4] = p[4] /\ q[5] = p[5]
          /\ q[6] = p[6] /\ q[7] = p[7] /\ q[8] = p[8] /\ q[9] = p[9] /\ q[10] = p[10]
          /\ q[11] = p[11]
      BY <1>14, <2>0
    <3> QED
      BY ONLY <3>1, <3>2
  <2>2. CASE j > 11 /\ j < 12 + n
    <3>1. j - 11 \in 1..n /\ 11 + (j - 11) = j
      BY ONLY <2>0, <2>2, <1>18
    <3>2. q[11 + (j - 11)] = p[11 + (j - 11)]
      BY <1>15, <3>1, Zenon
    <3> QED
      BY ONLY <3>1, <3>2
  <2>3. CASE j = 12 + n
    BY ONLY <2>0, <2>3
  <2>4. CASE j > 12 + n
    <3>1. j - (12 + n) \in 1..k /\ 12 + n + (j - (12 + n)) = j
      BY ONLY <2>0, <2>4, <1>18
    <3>2. q[12 + n + (j - (12 + n))] = p[12 + n + (j - (12 + n))]
      BY <1>17, <3>1, Zenon
    <3> QED
      BY ONLY <3>1, <3>2
  <2>5. j <= 11 \/ (j > 11 /\ j < 12 + n) \/ j = 12 + n \/ j > 12 + n
    BY ONLY <2>0, <1>18
  <2> QED
    BY ONLY <2>1, <2>2, <2>3, <2>4, <2>5
<1>19. Relayed(q, p)
  <2>1. Len(q) <= Len(p) /\ q \in Seq(Nat)
    BY ONLY <1>6, <1>14, <1>16
  <2> QED
    BY <1>18, <2>1, Zenon DEF Relayed
<1>20. AgentErr(q) = "nil"
  <2>1. /\ MaxUserAgentLen \in Nat /\ MaxMessagePayload \in Nat /\ MaxAlloc \in Nat
        /\ MaxMessagePayload <= MaxAlloc
    BY WireAssumption, CodecAssumption DEF WireAssumption, CodecAssumption
  <2>2. /\ ~(Len(q) < 11) /\ ~(Len(q) < 11 + q[11]) /\ ~(q[11] > MaxMessagePayload)
        /\ ~(q[11] > MaxUserAgentLen) /\ ~(q[11] > MaxAlloc)
    BY ONLY <1>3, <1>4, <1>14, <2>1
  <2> QED
    BY ONLY <2>2, Zenon DEF AgentErr, Huge
<1>21. ~(Len(q) < 12 + q[11]) /\ ErrIfShort(q, 12 + q[11] + q[12 + q[11]]) = "nil"
  <2>1. ~(Len(q) < 12 + q[11]) /\ ~(Len(q) < 12 + q[11] + q[12 + q[11]])
    BY ONLY <1>3, <1>4, <1>14
  <2> QED
    BY ONLY <2>1 DEF ErrIfShort
<1>22. ~Huge(q, 12 + q[11])
  <2>1. ~(p[at] > MaxAlloc)
    <3>1. ~Huge(p, at) /\ at <= Len(p) /\ Len(p) \in Nat /\ at \in Nat
      BY ONLY <1>2, <1>4, <1>6, SMTT(30) DEF Listed, at
    <3>2. Len(p) >= at
      BY ONLY <3>1
    <3> QED
      BY ONLY <3>1, <3>2, Zenon DEF Huge
  <2>2. q[12 + q[11]] = k /\ p[at] = k
    BY ONLY <1>14, <1>16
  <2> QED
    BY ONLY <2>1, <2>2, Zenon DEF Huge
<1>23. VersionErr(q) = "nil"
  BY ONLY <1>20, <1>21, <1>22, Zenon DEF VersionErr
<1>24. DecodeVersion(e, q).err = VersionErr(q)
  <2>1. q \in Seq(Nat)
    BY <1>14
  <2> QED
    BY <2>1, VersionDecoded, Zenon
<1> QED
  BY <1>13, <1>19, <1>23, <1>24 DEF q

(* What Encode makes of a message, and Decode of that in a receiver.       *)
Relaying(encoded, decoded, p) ==
  /\ encoded.err = "nil" /\ Relayed(encoded.payload, p) /\ decoded.err = "nil"

LEMMA RelaysKind ==
  ASSUME NEW k \in Kinds, NEW p \in Payloads[k], NEW old \in Receiver(k),
         Decode(k, old, p).err = "nil", NEW b, b = Decode(k, old, p).msg
  PROVE  Relaying(Encode(k, b), Decode(k, EmptyMessage(k), Encode(k, b).payload), p)
<1> DEFINE e == EmptyMessage(k)
           c == Encode(k, b)
           d == Decode(k, e, c.payload)
<1>1. p \in Seq(Nat) /\ e \in Receiver(k)
  BY PayloadType, EmptyReceiver
<1> HIDE DEF e
<1>2. CASE k = "addr"
  <2>1. /\ Decode(k, old, p) = DecodeAddr(old, p) /\ c = EncodeAddr(b)
        /\ d = DecodeAddr(<<>>, c.payload)
    BY <1>2 DEF Decode, Encode, EmptyMessage, e
  <2>2. \A i \in DOMAIN p : i % MaxNetAddressPayload = 2 => p[i] < StampModulus
    BY <1>2, MessageObjectAssumption DEF MessageObjectAssumption
  <2>3. DecodeAddr(old, p).err = "nil" /\ b = DecodeAddr(old, p).msg
    BY <2>1
  <2>4. /\ EncodeAddr(b).err = "nil" /\ Relayed(EncodeAddr(b).payload, p)
        /\ DecodeAddr(<<>>, EncodeAddr(b).payload).err = "nil"
    BY ONLY <1>1, <2>2, <2>3, AddrRelayed, Zenon
  <2> HIDE DEF c, d
  <2>5. Relaying(c, d, p)
    BY ONLY <2>1, <2>4 DEF Relaying
  <2> QED
    BY <2>5 DEF c, d, e
<1>3. CASE k \in InvKinds
  <2>1. /\ Decode(k, old, p) = DecodeInv(old, p) /\ c = EncodeInv(b)
        /\ d = DecodeInv(<<>>, c.payload)
    BY <1>3 DEF Decode, Encode, EmptyMessage, e, InvKinds, DecodeInv, DecodeGetData,
                EncodeInv, EncodeGetData
  <2>3. DecodeInv(old, p).err = "nil" /\ b = DecodeInv(old, p).msg
    BY <2>1
  <2>4. /\ EncodeInv(b).err = "nil" /\ Relayed(EncodeInv(b).payload, p)
        /\ DecodeInv(<<>>, EncodeInv(b).payload).err = "nil"
    BY ONLY <1>1, <2>3, InvRelayed, Zenon
  <2> HIDE DEF c, d
  <2>5. Relaying(c, d, p)
    BY ONLY <2>1, <2>4 DEF Relaying
  <2> QED
    BY <2>5 DEF c, d, e
<1>4. CASE k \in {"verack", "getaddr"}
  <2>1. c = Encoded(<<>>) /\ d = [msg |-> e, err |-> "nil"]
    BY <1>4 DEF Encode, Decode
  <2> HIDE DEF c, d
  <2>2. c.err = "nil" /\ c.payload = <<>> /\ d.err = "nil"
    BY ONLY <2>1, EncodedFields
  <2>3. Relayed(c.payload, p)
    BY <1>1, <2>2 DEF Relayed
  <2>4. Relaying(c, d, p)
    BY <2>2, <2>3 DEF Relaying
  <2> QED
    BY <2>4 DEF c, d, e
<1>5. CASE k = "version"
  <2>1. /\ Decode(k, old, p) = DecodeVersion(old, p) /\ c = EncodeVersion(b)
        /\ d = DecodeVersion(e, c.payload)
        /\ old \in MsgVersion(Time) /\ e \in MsgVersion(Time)
    BY <1>1, <1>5 DEF Decode, Encode, Receiver
  <2>2. DecodeVersion(old, p).err = "nil" /\ b = DecodeVersion(old, p).msg
    BY <2>1
  <2>3. /\ EncodeVersion(b).err = "nil" /\ Relayed(EncodeVersion(b).payload, p)
        /\ DecodeVersion(e, EncodeVersion(b).payload).err = "nil"
    BY ONLY <1>1, <2>1, <2>2, VersionRelayed, Zenon
  <2> HIDE DEF c, d
  <2>4. Relaying(c, d, p)
    BY ONLY <2>1, <2>3 DEF Relaying
  <2> QED
    BY <2>4 DEF c, d, e
<1>6. CASE k = "getpubkey"
  <2>1. /\ Decode(k, old, p) = DecodeGetPubKey(old, p) /\ c = EncodeGetPubKey(b)
        /\ d = DecodeGetPubKey(e, c.payload)
        /\ old \in MsgGetPubKey(Time, Nat) /\ e \in MsgGetPubKey(Time, Nat)
    BY <1>1, <1>6 DEF Decode, Encode, Receiver
  <2>2. DecodeGetPubKey(old, p).err = "nil" /\ b = DecodeGetPubKey(old, p).msg
    BY <2>1
  <2>3. /\ EncodeGetPubKey(b).err = "nil" /\ Relayed(EncodeGetPubKey(b).payload, p)
        /\ DecodeGetPubKey(e, EncodeGetPubKey(b).payload).err = "nil"
    BY ONLY <1>1, <2>1, <2>2, GetPubKeyRelayed, Zenon
  <2> HIDE DEF c, d
  <2>4. Relaying(c, d, p)
    BY ONLY <2>1, <2>3 DEF Relaying
  <2> QED
    BY <2>4 DEF c, d, e
<1>7. CASE k = "pubkey"
  <2>1. /\ Decode(k, old, p) = DecodePubKey(old, p) /\ c = EncodePubKey(b)
        /\ d = DecodePubKey(e, c.payload)
        /\ old \in MsgPubKey(Time, Nat) /\ e \in MsgPubKey(Time, Nat)
    BY <1>1, <1>7 DEF Decode, Encode, Receiver
  <2>2. DecodePubKey(old, p).err = "nil" /\ b = DecodePubKey(old, p).msg
    BY <2>1
  <2>3. /\ EncodePubKey(b).err = "nil" /\ Relayed(EncodePubKey(b).payload, p)
        /\ DecodePubKey(e, EncodePubKey(b).payload).err = "nil"
    BY ONLY <1>1, <2>1, <2>2, PubKeyRelayed, Zenon
  <2> HIDE DEF c, d
  <2>4. Relaying(c, d, p)
    BY ONLY <2>1, <2>3 DEF Relaying
  <2> QED
    BY <2>4 DEF c, d, e
<1>8. CASE k \in {"msg", "broadcast"}
  <2> DEFINE type == IF k = "msg" THEN ObjectTypeMsg ELSE ObjectTypeBroadcast
  <2>1. /\ Decode(k, old, p) = DecodeSealed(old, p, type) /\ c = EncodeSealed(b)
        /\ d = DecodeSealed(e, c.payload, type)
        /\ old \in MsgSealed(Time, Nat) /\ e \in MsgSealed(Time, Nat)
    BY <1>1, <1>8 DEF Decode, Encode, Receiver
  <2> HIDE DEF type
  <2>2. DecodeSealed(old, p, type).err = "nil" /\ b = DecodeSealed(old, p, type).msg
    BY <2>1
  <2>3. /\ EncodeSealed(b).err = "nil" /\ Relayed(EncodeSealed(b).payload, p)
        /\ DecodeSealed(e, EncodeSealed(b).payload, type).err = "nil"
    BY ONLY <1>1, <2>1, <2>2, SealedRelayed, Zenon
  <2> HIDE DEF c, d
  <2>4. Relaying(c, d, p)
    BY ONLY <2>1, <2>3 DEF Relaying
  <2> QED
    BY <2>4 DEF c, d, e
<1>9. k \in {"addr", "version", "getpubkey", "pubkey", "msg", "broadcast",
             "verack", "getaddr"} \cup InvKinds
  BY DEF Kinds, HandledCommands, ObjectKinds, ObjectKind, ObjectTypes, InvKinds,
         ObjectTypeGetPubKey, ObjectTypePubKey, ObjectTypeMsg, ObjectTypeBroadcast
<1> QED
  BY <1>2, <1>3, <1>4, <1>5, <1>6, <1>7, <1>8, <1>9

LEMMA Relays ==
  ASSUME ObjectInv
  PROVE  RelaysWhatItDecoded
<1> SUFFICES ASSUME last.op = "encode", source # <<>>
             PROVE  /\ last.err = "nil" /\ IsPrefix(last.payload, source[1])
                    /\ Decode(kind, EmptyMessage(kind), last.payload).err = "nil"
  BY DEF RelaysWhatItDecoded
<1>1. /\ kind \in Kinds
      /\ last.err = Encode(kind, obj).err /\ last.payload = Encode(kind, obj).payload
  BY DEF ObjectInv
<1>2. PICK p \in Payloads[kind], old \in Receiver(kind) :
        /\ source = <<p>>
        /\ Decode(kind, old, p).msg = obj /\ Decode(kind, old, p).err = "nil"
  BY DEF ObjectInv
<1>3. Relaying(Encode(kind, obj),
               Decode(kind, EmptyMessage(kind), Encode(kind, obj).payload), p)
  BY <1>1, <1>2, RelaysKind, Zenon
<1>4. /\ Encode(kind, obj).err = "nil" /\ Relayed(Encode(kind, obj).payload, p)
      /\ Decode(kind, EmptyMessage(kind), Encode(kind, obj).payload).err = "nil"
  BY ONLY <1>3, Zenon DEF Relaying
<1>5. IsPrefix(Encode(kind, obj).payload, p)
  BY <1>1, <1>4, PayloadType, RelayedIsPrefix, Zenon
<1>6. source[1] = p
  BY <1>2
<1> QED
  BY ONLY <1>1, <1>4, <1>5, <1>6, Zenon

(* A message that was decoded, into whatever receiver, is encoded to the   *)
(* cells it was decoded from, without those that Decode left unread, and   *)
(* these decode again.                                                     *)
THEOREM RelaysDecoded == Spec => []RelaysWhatItDecoded
  BY Relays, ObjectInvariant, PTL
=============================================================================
