----------------------------- MODULE CodecProofs ----------------------------
(***************************************************************************)
(* Decode undoes Encode, type by type: the cells that Encode makes of a    *)
(* message, and the message that Decode makes of these cells in an empty   *)
(* receiver.  What a decoder cannot know is in the ...Seen operators: the  *)
(* message as the other end sees it.                                       *)
(***************************************************************************)
EXTENDS Codec, TLAPS

-----------------------------------------------------------------------------
(* Sequences *)

(* A concatenation, element by element. *)
Joins(u, s, t) ==
  /\ u \in Seq(Nat) /\ Len(u) = Len(s) + Len(t)
  /\ \A i \in 1..Len(s) : u[i] = s[i]
  /\ \A i \in 1..Len(t) : u[Len(s) + i] = t[i]

LEMMA Concat ==
  ASSUME NEW s \in Seq(Nat), NEW t \in Seq(Nat)
  PROVE  Joins(s \o t, s, t)
  BY DEF Joins

(* A sequence of cells is a function on its positions. *)
LEMMA CellsOf ==
  ASSUME NEW n \in Nat, NEW f \in [1..n -> Nat]
  PROVE  f \in Seq(Nat) /\ Len(f) = n
  OBVIOUS

(* The elements of a sequence, and what makes two sequences one. *)
LEMMA ElementType ==
  ASSUME NEW S, NEW s \in Seq(S)
  PROVE  s \in [1..Len(s) -> S] /\ \A i \in 1..Len(s) : s[i] \in S
  OBVIOUS

LEMMA SameCells ==
  ASSUME NEW S, NEW s \in Seq(S), NEW t \in Seq(S), Len(s) = Len(t),
         \A i \in 1..Len(s) : s[i] = t[i]
  PROVE  s = t
  OBVIOUS

(* A cut of a sequence, element by element. *)
LEMMA Cut ==
  ASSUME NEW s \in Seq(Nat), NEW a \in Nat, NEW n \in Nat, a + n <= Len(s)
  PROVE  /\ SubSeq(s, a + 1, a + n) \in Seq(Nat)
         /\ Len(SubSeq(s, a + 1, a + n)) = n
         /\ \A i \in 1..n : SubSeq(s, a + 1, a + n)[i] = s[a + i]
  OBVIOUS

(* The cut that has the cells of a given sequence is that sequence. *)
LEMMA CutIs ==
  ASSUME NEW s \in Seq(Nat), NEW a \in Nat, NEW t \in Seq(Nat),
         a + Len(t) <= Len(s), \A i \in 1..Len(t) : s[a + i] = t[i]
  PROVE  SubSeq(s, a + 1, a + Len(t)) = t
<1> DEFINE n == Len(t)
           cut == SubSeq(s, a + 1, a + n)
<1>1. n \in Nat
  OBVIOUS
<1>2. cut \in Seq(Nat) /\ Len(cut) = n /\ \A i \in 1..n : cut[i] = s[a + i]
  BY <1>1, Cut
<1> HIDE DEF cut
<1>3. cut = t
  BY <1>2, SameCells
<1> QED
  BY <1>3 DEF cut

(* A count in front. *)
LEMMA CountInFront ==
  ASSUME NEW n \in Nat, NEW s \in Seq(Nat)
  PROVE  /\ <<n>> \o s \in Seq(Nat)
         /\ Len(<<n>> \o s) = 1 + Len(s) /\ (<<n>> \o s)[1] = n
         /\ \A i \in 1..Len(s) : (<<n>> \o s)[1 + i] = s[i]
  OBVIOUS

(* Four cells, in a tuple. *)
LEMMA FourCells ==
  ASSUME NEW S, NEW s \in Seq(S), Len(s) = 4
  PROVE  s = <<s[1], s[2], s[3], s[4]>> /\ s \in [1..4 -> S]
<1> DEFINE t == <<s[1], s[2], s[3], s[4]>>
<1>0. \A i \in 1..4 : s[i] \in S
  BY ElementType
<1>1. s[1] \in S /\ s[2] \in S /\ s[3] \in S /\ s[4] \in S
  BY <1>0
<1>2. t \in Seq(S) /\ Len(t) = 4
  BY <1>1
<1>3. t[1] = s[1] /\ t[2] = s[2] /\ t[3] = s[3] /\ t[4] = s[4]
  OBVIOUS
<1> HIDE DEF t
<1>4. \A i \in 1..4 : t[i] = s[i]
  BY <1>3
<1>5. t = s
  BY <1>2, <1>4, SameCells
<1>6. s \in [1..4 -> S]
  BY ElementType
<1> QED
  BY <1>5, <1>6 DEF t

(* One cell and three, or none and three. *)
LEMMA OneAndThree ==
  ASSUME NEW S, NEW a \in S, NEW b \in S, NEW c \in S, NEW d \in S
  PROVE  /\ <<a>> \o <<b, c, d>> = <<a, b, c, d>>
         /\ <<>> \o <<b, c, d>> = <<b, c, d>>
         /\ <<a, b, c, d>> \in [1..4 -> S]
<1> DEFINE s == <<a>> \o <<b, c, d>>
<1>1. s \in Seq(S) /\ Len(s) = 4
  OBVIOUS
<1>2. s[1] = a /\ s[2] = b /\ s[3] = c /\ s[4] = d
  OBVIOUS
<1>3. <<>> \o <<b, c, d>> = <<b, c, d>>
  OBVIOUS
<1> HIDE DEF s
<1>4. s = <<a, b, c, d>> /\ s \in [1..4 -> S]
  BY <1>1, <1>2, FourCells
<1> QED
  BY <1>3, <1>4 DEF s

(* Positions in parts of four cells. *)
LEMMA Quarters ==
  ASSUME NEW q \in Nat, NEW r \in 0..3
  PROVE  (4 * q + r) \div 4 = q /\ (4 * q + r) % 4 = r
  OBVIOUS

(* The cell of a part, in parts that are one after the other. *)
LEMMA JoinedCells ==
  ASSUME NEW n \in Nat, NEW parts \in [1..n -> [1..4 -> Nat]]
  PROVE  /\ Joined(parts, 4) \in Seq(Nat)
         /\ Len(Joined(parts, 4)) = 4 * n
         /\ \A i \in 1..n : \A k \in 1..4 :
              Joined(parts, 4)[4 * (i - 1) + k] = parts[i][k]
<1>1. Len(parts) = n /\ 4 * n \in Nat
  OBVIOUS
<1>2. \A j \in 1..(4 * n) : /\ ((j - 1) \div 4) + 1 \in 1..n
                            /\ ((j - 1) % 4) + 1 \in 1..4
  OBVIOUS
<1>3. \A j \in 1..(4 * n) :
        parts[((j - 1) \div 4) + 1][((j - 1) % 4) + 1] \in Nat
  BY <1>2
<1>4. Joined(parts, 4) \in [1..(4 * n) -> Nat]
  BY <1>1, <1>3 DEF Joined
<1>5. ASSUME NEW i \in 1..n, NEW k \in 1..4
      PROVE  Joined(parts, 4)[4 * (i - 1) + k] = parts[i][k]
  <2> DEFINE j == 4 * (i - 1) + k
  <2>1. j \in 1..(4 * n) /\ j - 1 = 4 * (i - 1) + (k - 1)
    OBVIOUS
  <2>2. i - 1 \in Nat /\ k - 1 \in 0..3
    OBVIOUS
  <2>3. ((j - 1) \div 4) = i - 1 /\ ((j - 1) % 4) = k - 1
    BY <2>1, <2>2, Quarters
  <2>4. Joined(parts, 4)[j] = parts[((j - 1) \div 4) + 1][((j - 1) % 4) + 1]
    BY <1>1, <2>1 DEF Joined
  <2>5. ((j - 1) \div 4) + 1 = i /\ ((j - 1) % 4) + 1 = k
    BY <2>3
  <2> QED
    BY <2>4, <2>5
<1>6. Joined(parts, 4) \in Seq(Nat) /\ Len(Joined(parts, 4)) = 4 * n
  BY <1>1, <1>4, CellsOf
<1> QED
  BY <1>5, <1>6

-----------------------------------------------------------------------------
(* Decode undoes Encode, type by type *)

(* The IP of an address on the wire. *)
WireIP(na) == IF na[3] = NilIP THEN ZeroIP ELSE na[3]

(* An address is four cells with its stamp, and three without. *)
LEMMA AddressCells ==
  ASSUME NEW na \in NetAddress
  PROVE  /\ WriteNetAddress(na, TRUE)
              = <<na[1] % StampModulus, na[2], WireIP(na), na[4]>>
         /\ WriteNetAddress(na, FALSE) = <<na[2], WireIP(na), na[4]>>
         /\ na[1] % StampModulus \in Nat /\ na[2] \in Nat
         /\ WireIP(na) \in Nat /\ na[4] \in Nat
         /\ WriteNetAddress(na, TRUE) \in [1..4 -> Nat]
<1> DEFINE stamp == na[1] % StampModulus
           services == na[2]
           ip == WireIP(na)
           port == na[4]
<1>1. na[1] \in Int /\ services \in Nat /\ na[3] \in Nat \cup {NilIP} /\ port \in Nat
  BY DEF NetAddress
<1>2. stamp \in Nat
  BY <1>1, CodecAssumption DEF CodecAssumption
<1>3. ip \in Nat
  BY <1>1 DEF WireIP, ZeroIP
<1>4. WriteNetAddress(na, TRUE) = <<stamp>> \o <<services, ip, port>>
  BY DEF WriteNetAddress, WireIP
<1>5. WriteNetAddress(na, FALSE) = <<>> \o <<services, ip, port>>
  BY DEF WriteNetAddress, WireIP
<1> HIDE DEF stamp, services, ip, port
<1>a. /\ <<stamp>> \o <<services, ip, port>> = <<stamp, services, ip, port>>
      /\ <<>> \o <<services, ip, port>> = <<services, ip, port>>
      /\ <<stamp, services, ip, port>> \in [1..4 -> Nat]
  BY <1>1, <1>2, <1>3, OneAndThree
<1>6. /\ WriteNetAddress(na, TRUE) = <<stamp, services, ip, port>>
      /\ WriteNetAddress(na, FALSE) = <<services, ip, port>>
      /\ WriteNetAddress(na, TRUE) \in [1..4 -> Nat]
  BY <1>1, <1>2, <1>3, <1>4, <1>5, <1>a
<1> QED
  BY <1>1, <1>2, <1>3, <1>6 DEF stamp, services, ip, port

(* The messages of the addr type. *)
LEMMA AddrRoundTrip ==
  ASSUME NEW b \in Seq(NetAddress), Len(b) <= MaxAddrPerMsg
  PROVE  LET p == EncodeAddr(b).payload
         IN  /\ EncodeAddr(b).err = "nil"
             /\ p \in Seq(Nat) /\ Len(p) = 1 + 4 * Len(b)
             /\ DecodeAddr(<<>>, p)
                  = [msg |-> [i \in 1..Len(b) |-> WriteNetAddress(b[i], TRUE)],
                     err |-> "nil"]
<1> DEFINE n     == Len(b)
           parts == [i \in 1..n |-> WriteNetAddress(b[i], TRUE)]
           cells == Joined(parts, 4)
           p     == EncodeAddr(b).payload
<1>1. n \in Nat /\ MaxAddrPerMsg \in Nat /\ n <= MaxAddrPerMsg /\ n <= MaxAlloc
      /\ MaxAlloc \in Nat
  BY WireAssumption, CodecAssumption DEF WireAssumption, CodecAssumption
<1>2. \A i \in 1..n : WriteNetAddress(b[i], TRUE) \in [1..4 -> Nat]
  <2> SUFFICES ASSUME NEW i \in 1..n
               PROVE  WriteNetAddress(b[i], TRUE) \in [1..4 -> Nat]
    OBVIOUS
  <2>1. b[i] \in NetAddress
    OBVIOUS
  <2> QED
    BY <2>1, AddressCells
<1>3. parts \in [1..n -> [1..4 -> Nat]]
  BY <1>2
<1>4. EncodeAddr(b) = Encoded(<<n>> \o cells)
  BY <1>1 DEF EncodeAddr, MaxNetAddressPayload
<1> HIDE DEF parts
<1>5. /\ cells \in Seq(Nat) /\ Len(cells) = 4 * n
      /\ \A i \in 1..n : \A k \in 1..4 : cells[4 * (i - 1) + k] = parts[i][k]
  BY <1>1, <1>3, JoinedCells
<1> HIDE DEF cells, n
<1>6. p = <<n>> \o cells /\ EncodeAddr(b).err = "nil"
  BY <1>4 DEF Encoded
<1> HIDE DEF p
<1>7. /\ p \in Seq(Nat) /\ Len(p) = 1 + 4 * n /\ p[1] = n
      /\ \A j \in 1..(4 * n) : p[1 + j] = cells[j]
  <2>1. /\ p \in Seq(Nat) /\ Len(p) = 1 + Len(cells) /\ p[1] = n
        /\ \A j \in 1..Len(cells) : p[1 + j] = cells[j]
    <3>1. n \in Nat /\ cells \in Seq(Nat) /\ p = <<n>> \o cells
      BY <1>1, <1>5, <1>6
    <3> QED
      BY <3>1, CountInFront
  <2> QED
    BY <1>5, <2>1
<1>8. ASSUME NEW i \in 1..n
      PROVE  SubSeq(p, 2 + (i - 1) * 4, 2 + (i - 1) * 4 + 3) = parts[i]
  <2> DEFINE at == 1 + 4 * (i - 1)
  <2>1. at \in Nat /\ at + 4 <= Len(p)
    BY <1>1, <1>7
  <2>2. ASSUME NEW k \in 1..4
        PROVE  p[at + k] = parts[i][k]
    <3>1. at + k = 1 + (4 * (i - 1) + k) /\ 4 * (i - 1) + k \in 1..(4 * n)
      BY <1>1
    <3>2. p[1 + (4 * (i - 1) + k)] = cells[4 * (i - 1) + k]
      BY <1>7, <3>1
    <3> QED
      BY <1>5, <3>1, <3>2
  <2>3. parts[i] \in Seq(Nat) /\ Len(parts[i]) = 4
    BY <1>3, CellsOf
  <2>4. 2 + (i - 1) * 4 = at + 1 /\ 2 + (i - 1) * 4 + 3 = at + 4
    BY <1>1
  <2> HIDE DEF at
  <2>5. SubSeq(p, at + 1, at + 4) = parts[i]
    BY <1>7, <2>1, <2>2, <2>3, CutIs, ZenonT(40)
  <2> QED
    BY <2>4, <2>5
<1>9. Least(p[1], (Len(p) - 1) \div 4) = n
  <2>1. (Len(p) - 1) \div 4 = n
    BY <1>1, <1>7
  <2> QED
    BY <1>1, <1>7, <2>1 DEF Least
<1>10. Elements(p, MaxNetAddressPayload)
         = [i \in 1..n |-> SubSeq(p, 2 + (i - 1) * 4, 2 + (i - 1) * 4 + 3)]
  BY <1>9 DEF Elements, ReadElement, ReadNetAddress, MaxNetAddressPayload
<1>11. Elements(p, MaxNetAddressPayload) = parts
  BY <1>3, <1>8, <1>10
<1>12. /\ p # <<>> /\ ~(p[1] > MaxAddrPerMsg) /\ ~Huge(p, 1)
       /\ ErrIfShort(p, 1 + p[1] * MaxNetAddressPayload) = "nil"
  BY <1>1, <1>7 DEF Huge, ErrIfShort, MaxNetAddressPayload
<1>13. DecodeAddr(<<>>, p) = [msg |-> parts, err |-> "nil"]
  BY <1>11, <1>12 DEF DecodeAddr, DecodeList
<1> QED
  BY <1>6, <1>7, <1>13 DEF p, n, parts

(* The messages of the inv and getdata types. *)
LEMMA InvRoundTrip ==
  ASSUME NEW b \in Seq(Nat), Len(b) <= MaxInvPerMsg
  PROVE  LET p == EncodeInv(b).payload
         IN  /\ EncodeInv(b).err = "nil"
             /\ p \in Seq(Nat) /\ Len(p) = 1 + Len(b)
             /\ DecodeInv(<<>>, p) = [msg |-> b, err |-> "nil"]
<1> DEFINE n == Len(b)
           p == EncodeInv(b).payload
<1>1. n \in Nat /\ MaxInvPerMsg \in Nat /\ n <= MaxInvPerMsg /\ n <= MaxAlloc
      /\ MaxAlloc \in Nat
  BY WireAssumption, CodecAssumption DEF WireAssumption, CodecAssumption
<1>2. EncodeInv(b) = Encoded(<<n>> \o b)
  BY <1>1 DEF EncodeInv
<1>3. p = <<n>> \o b /\ EncodeInv(b).err = "nil"
  BY <1>2 DEF Encoded
<1>4. /\ p \in Seq(Nat) /\ Len(p) = 1 + n /\ p[1] = n
      /\ \A j \in 1..n : p[1 + j] = b[j]
  BY <1>1, <1>3
<1> HIDE DEF p
<1>5. Least(p[1], (Len(p) - 1) \div 1) = n
  BY <1>1, <1>4 DEF Least
<1>6. Elements(p, MaxInvVectPayload) = [i \in 1..n |-> p[2 + (i - 1) * 1]]
  BY <1>5 DEF Elements, ReadElement, MaxInvVectPayload, MaxNetAddressPayload
<1>7. \A i \in 1..n : p[2 + (i - 1) * 1] = b[i]
  BY <1>1, <1>4
<1>8. Elements(p, MaxInvVectPayload) = b
  BY <1>6, <1>7
<1>9. /\ p # <<>> /\ ~(p[1] > MaxInvPerMsg) /\ ~Huge(p, 1)
      /\ ErrIfShort(p, 1 + p[1] * MaxInvVectPayload) = "nil"
  BY <1>1, <1>4 DEF Huge, ErrIfShort, MaxInvVectPayload
<1>10. DecodeInv(<<>>, p) = [msg |-> b, err |-> "nil"]
  BY <1>8, <1>9 DEF DecodeInv, DecodeList
<1> QED
  BY <1>3, <1>4, <1>10 DEF p

(* An encoding without an error. *)
LEMMA EncodedFields ==
  ASSUME NEW x
  PROVE  Encoded(x).payload = x /\ Encoded(x).err = "nil"
  BY DEF Encoded

(* What a decoder finds in front of the user agent. *)
LEMMA VersionHead ==
  ASSUME NEW a \in Nat, NEW b \in Nat, NEW c \in Nat, NEW d \in Nat,
         NEW e \in Nat, NEW f \in Nat, NEW g \in Nat, NEW h \in Nat,
         NEW i \in Nat, NEW j \in Nat, NEW k \in Nat
  PROVE  LET head == <<a, b, c>> \o <<d, e, f>> \o <<g, h, i>> \o <<j, k>>
         IN  /\ head \in Seq(Nat) /\ Len(head) = 11
             /\ head[1] = a /\ head[2] = b /\ head[3] = c /\ head[4] = d
             /\ head[5] = e /\ head[6] = f /\ head[7] = g /\ head[8] = h
             /\ head[9] = i /\ head[10] = j /\ head[11] = k
  OBVIOUS

(* A head, a text, and a list with a count in front. *)
LEMMA TextAndList ==
  ASSUME NEW head \in Seq(Nat), NEW text \in Seq(Nat), NEW list \in Seq(Nat),
         NEW front, NEW named, NEW p, NEW count \in Seq(Nat),
         Len(count) = 1, count[1] = Len(list),
         Joins(front, head, text), Joins(named, front, count), Joins(p, named, list)
  PROVE  /\ p \in Seq(Nat)
         /\ Len(p) = Len(head) + Len(text) + 1 + Len(list)
         /\ \A i \in 1..Len(head) : p[i] = head[i]
         /\ SubSeq(p, Len(head) + 1, Len(head) + Len(text)) = text
         /\ p[Len(head) + Len(text) + 1] = Len(list)
         /\ \A i \in 1..Len(list) : p[Len(head) + Len(text) + 1 + i] = list[i]
<1>1. /\ Len(head) \in Nat /\ Len(text) \in Nat /\ Len(list) \in Nat
      /\ Len(front) = Len(head) + Len(text)
      /\ Len(named) = Len(head) + Len(text) + 1
      /\ Len(p) = Len(head) + Len(text) + 1 + Len(list)
      /\ p \in Seq(Nat)
  BY SMTT(30) DEF Joins
<1>2. \A i \in 1..Len(front) : p[i] = front[i]
  BY <1>1 DEF Joins
<1>3. \A i \in 1..Len(head) : p[i] = head[i]
  BY <1>1, <1>2 DEF Joins
<1>4. ASSUME NEW i \in 1..Len(text)
      PROVE  p[Len(head) + i] = text[i]
  <2>1. Len(head) + i \in 1..Len(front)
    BY <1>1
  <2>2. front[Len(head) + i] = text[i]
    BY DEF Joins
  <2> QED
    BY <1>2, <2>1, <2>2
<1>5. SubSeq(p, Len(head) + 1, Len(head) + Len(text)) = text
  <2>1. Len(head) + Len(text) <= Len(p)
    BY <1>1
  <2> QED
    BY <1>1, <1>4, <2>1, CutIs
<1>6. p[Len(head) + Len(text) + 1] = Len(list)
  <2>1. Len(named) \in 1..Len(named) /\ 1 \in 1..Len(count)
    BY <1>1
  <2>2. p[Len(named)] = named[Len(named)] /\ named[Len(front) + 1] = count[1]
    BY <2>1 DEF Joins
  <2>3. Len(named) = Len(front) + 1
    BY <1>1
  <2> QED
    BY <1>1, <2>2, <2>3
<1>7. \A i \in 1..Len(list) : p[Len(head) + Len(text) + 1 + i] = list[i]
  BY <1>1 DEF Joins
<1> QED
  BY <1>1, <1>3, <1>5, <1>6, <1>7

(* A version message as the reader is to see it. *)
VersionSeen(b) ==
  [protocolVersion |-> b.protocolVersion, services |-> b.services,
   timestamp |-> <<b.timestamp[1], 0>>,
   addrYou |-> <<ZeroTime, b.addrYou[2], WireIP(b.addrYou), b.addrYou[4]>>,
   addrMe |-> <<ZeroTime, b.addrMe[2], WireIP(b.addrMe), b.addrMe[4]>>,
   nonce |-> b.nonce, userAgent |-> b.userAgent,
   streamNumbers |-> b.streamNumbers]

(* The version message on the wire. *)
LEMMA VersionCells ==
  ASSUME NEW b \in MsgVersion(WireTime), Len(b.userAgent) <= MaxUserAgentLen
  PROVE  LET p == EncodeVersion(b).payload
             n == Len(b.userAgent)
             k == Len(b.streamNumbers)
         IN  /\ EncodeVersion(b).err = "nil"
             /\ p \in Seq(Nat) /\ Len(p) = 12 + n + k
             /\ p[1] = b.protocolVersion /\ p[2] = b.services
             /\ p[3] = b.timestamp[1]
             /\ p[4] = b.addrYou[2] /\ p[5] = WireIP(b.addrYou)
             /\ p[6] = b.addrYou[4]
             /\ p[7] = b.addrMe[2] /\ p[8] = WireIP(b.addrMe)
             /\ p[9] = b.addrMe[4]
             /\ p[10] = b.nonce /\ p[11] = n
             /\ SubSeq(p, 12, 11 + n) = b.userAgent
             /\ p[12 + n] = k
             /\ \A i \in 1..k : p[12 + n + i] = b.streamNumbers[i]
<1> DEFINE n     == Len(b.userAgent)
           k     == Len(b.streamNumbers)
           you   == b.addrYou
           me    == b.addrMe
           head  == <<b.protocolVersion, b.services, b.timestamp[1]>>
                      \o <<you[2], WireIP(you), you[4]>>
                      \o <<me[2], WireIP(me), me[4]>> \o <<b.nonce, n>>
           front == head \o b.userAgent
           named == front \o <<k>>
           p     == named \o b.streamNumbers
<1>1. /\ b.protocolVersion \in Nat /\ b.services \in Nat /\ b.timestamp[1] \in Nat
      /\ you \in NetAddress /\ me \in NetAddress /\ b.nonce \in Nat
      /\ b.userAgent \in Seq(Nat) /\ b.streamNumbers \in Seq(Nat)
  BY DEF MsgVersion, WireTime
<1>2. n \in Nat /\ k \in Nat
  BY <1>1
<1>3. /\ you[2] \in Nat /\ WireIP(you) \in Nat /\ you[4] \in Nat
      /\ me[2] \in Nat /\ WireIP(me) \in Nat /\ me[4] \in Nat
      /\ WriteNetAddress(you, FALSE) = <<you[2], WireIP(you), you[4]>>
      /\ WriteNetAddress(me, FALSE) = <<me[2], WireIP(me), me[4]>>
  BY <1>1, AddressCells
<1>4. /\ head \in Seq(Nat) /\ Len(head) = 11
      /\ head[1] = b.protocolVersion /\ head[2] = b.services
      /\ head[3] = b.timestamp[1] /\ head[4] = you[2]
      /\ head[5] = WireIP(you) /\ head[6] = you[4] /\ head[7] = me[2]
      /\ head[8] = WireIP(me) /\ head[9] = me[4] /\ head[10] = b.nonce
      /\ head[11] = n
  <2> HIDE DEF n
  <2> QED
    BY <1>1, <1>2, <1>3, VersionHead
<1>5. EncodeVersion(b) = Encoded(((head \o b.userAgent) \o <<k>>) \o b.streamNumbers)
  <2>1. ~(Len(b.userAgent) > MaxUserAgentLen)
    BY <1>2, WireAssumption DEF WireAssumption
  <2>2. head = <<b.protocolVersion, b.services, b.timestamp[1]>>
                 \o WriteNetAddress(b.addrYou, FALSE)
                 \o WriteNetAddress(b.addrMe, FALSE)
                 \o <<b.nonce, Len(b.userAgent)>>
    BY <1>3
  <2>3. EncodeVersion(b)
          = Encoded(<<b.protocolVersion, b.services, b.timestamp[1]>>
                    \o WriteNetAddress(b.addrYou, FALSE)
                    \o WriteNetAddress(b.addrMe, FALSE)
                    \o <<b.nonce, Len(b.userAgent)>> \o b.userAgent
                    \o <<k>> \o b.streamNumbers)
    BY <2>1 DEF EncodeVersion
  <2> HIDE DEF head
  <2> QED
    BY <2>2, <2>3
<1>6. EncodeVersion(b).payload = p /\ EncodeVersion(b).err = "nil"
  BY <1>5, EncodedFields
<1>7. <<k>> \in Seq(Nat) /\ Len(<<k>>) = 1 /\ <<k>>[1] = k
  BY <1>2
<1> HIDE DEF head
<1>8. Joins(front, head, b.userAgent)
  BY <1>1, <1>4, Concat
<1>9. front \in Seq(Nat)
  BY <1>8 DEF Joins
<1> HIDE DEF front
<1>10. Joins(named, front, <<k>>)
  BY <1>7, <1>9, Concat
<1>11. named \in Seq(Nat)
  BY <1>10 DEF Joins
<1> HIDE DEF named
<1>12. Joins(p, named, b.streamNumbers)
  BY <1>1, <1>11, Concat
<1> DEFINE count == <<k>>
<1> HIDE DEF p, count
<1>13. count \in Seq(Nat) /\ Len(count) = 1 /\ count[1] = Len(b.streamNumbers)
       /\ Joins(named, front, count)
  BY <1>7, <1>10 DEF count
<1>14. /\ p \in Seq(Nat)
       /\ Len(p) = Len(head) + n + 1 + k
       /\ \A i \in 1..Len(head) : p[i] = head[i]
       /\ SubSeq(p, Len(head) + 1, Len(head) + n) = b.userAgent
       /\ p[Len(head) + n + 1] = k
       /\ \A i \in 1..k : p[Len(head) + n + 1 + i] = b.streamNumbers[i]
  <2> DEFINE text == b.userAgent
             list == b.streamNumbers
  <2>1. /\ head \in Seq(Nat) /\ text \in Seq(Nat) /\ list \in Seq(Nat)
        /\ count \in Seq(Nat) /\ Len(count) = 1 /\ count[1] = Len(list)
        /\ Joins(front, head, text) /\ Joins(named, front, count)
        /\ Joins(p, named, list)
    BY <1>1, <1>4, <1>8, <1>12, <1>13
  <2> HIDE DEF text, list
  <2>2. /\ p \in Seq(Nat)
        /\ Len(p) = Len(head) + Len(text) + 1 + Len(list)
        /\ \A i \in 1..Len(head) : p[i] = head[i]
        /\ SubSeq(p, Len(head) + 1, Len(head) + Len(text)) = text
        /\ p[Len(head) + Len(text) + 1] = Len(list)
        /\ \A i \in 1..Len(list) : p[Len(head) + Len(text) + 1 + i] = list[i]
    BY <2>1, TextAndList
  <2> QED
    BY <2>2 DEF text, list
<1> HIDE DEF n, k
<1>15. \A i \in 1..11 : p[i] = head[i]
  BY <1>4, <1>14
<1>16. /\ p[1] = head[1] /\ p[2] = head[2] /\ p[3] = head[3] /\ p[4] = head[4]
       /\ p[5] = head[5] /\ p[6] = head[6] /\ p[7] = head[7] /\ p[8] = head[8]
       /\ p[9] = head[9] /\ p[10] = head[10] /\ p[11] = head[11]
  BY <1>15
<1>17. /\ Len(p) = 12 + n + k
       /\ SubSeq(p, 12, 11 + n) = b.userAgent
       /\ p[12 + n] = k
       /\ \A i \in 1..k : p[12 + n + i] = b.streamNumbers[i]
  <2>1. /\ Len(head) + n + 1 + k = 12 + n + k /\ Len(head) + 1 = 12
        /\ Len(head) + n = 11 + n /\ Len(head) + n + 1 = 12 + n
    BY <1>2, <1>4
  <2> QED
    BY <1>14, <2>1
<1> QED
  BY <1>4, <1>6, <1>14, <1>16, <1>17 DEF n, k

(* A cell in front, of any kind. *)
LEMMA CellInFront ==
  ASSUME NEW S, NEW z \in S, NEW s \in Seq(S)
  PROVE  /\ <<z>> \o s \in Seq(S)
         /\ Len(<<z>> \o s) = 1 + Len(s) /\ (<<z>> \o s)[1] = z
         /\ \A i \in 1..Len(s) : (<<z>> \o s)[1 + i] = s[i]
  OBVIOUS

(* An address without its stamp is read with the zero time. *)
LEMMA UnstampedRead ==
  ASSUME NEW p \in Seq(Nat), NEW a \in Nat, NEW b, NEW c,
         a >= 1, b = a + 1, c = a + 2, c <= Len(p)
  PROVE  ReadNetAddress(p, a, FALSE) = <<ZeroTime, p[a], p[b], p[c]>>
<1> DEFINE cut == SubSeq(p, a, a + 2)
           na  == <<ZeroTime>> \o cut
<1>1. cut \in Seq(Nat) /\ Len(cut) = 3 /\ \A i \in 1..3 : cut[i] = p[a - 1 + i]
  <2>1. /\ a - 1 \in Nat /\ a - 1 + 3 <= Len(p)
        /\ (a - 1) + 1 = a /\ (a - 1) + 3 = a + 2
    OBVIOUS
  <2> QED
    BY <2>1, Cut
<1>2. ReadNetAddress(p, a, FALSE) = na
  BY DEF ReadNetAddress
<1> HIDE DEF cut
<1>3. ZeroTime \in Int /\ cut \in Seq(Int)
  BY <1>1, CodecAssumption DEF CodecAssumption
<1>4. cut[1] = p[a] /\ cut[2] = p[b] /\ cut[3] = p[c]
  <2>1. a - 1 + 1 = a /\ a - 1 + 2 = b /\ a - 1 + 3 = c
    OBVIOUS
  <2> QED
    BY <1>1, <2>1
<1>5. /\ na \in Seq(Int) /\ Len(na) = 1 + Len(cut) /\ na[1] = ZeroTime
      /\ \A i \in 1..Len(cut) : na[1 + i] = cut[i]
  BY <1>3, CellInFront
<1> HIDE DEF na
<1>6. Len(na) = 4 /\ na[2] = cut[1] /\ na[3] = cut[2] /\ na[4] = cut[3]
  <2>1. /\ 1 \in 1..3 /\ 2 \in 1..3 /\ 3 \in 1..3
        /\ 1 + 1 = 2 /\ 1 + 2 = 3 /\ 1 + 3 = 4
    OBVIOUS
  <2> QED
    BY <1>1, <1>5, <2>1
<1>7. na = <<ZeroTime, p[a], p[b], p[c]>>
  <2>1. na = <<na[1], na[2], na[3], na[4]>>
    BY <1>5, <1>6, FourCells
  <2> QED
    BY <1>4, <1>5, <1>6, <2>1
<1> QED
  BY <1>2, <1>7

(* Two records with the same fields. *)
LEMMA SameRecord ==
  ASSUME NEW D, NEW r, NEW s, r = [x \in D |-> r[x]], s = [x \in D |-> s[x]],
         \A x \in D : r[x] = s[x]
  PROVE  r = s
  OBVIOUS

(* The fields of a version message that come before the user agent. *)
LEMMA VersionFilled ==
  ASSUME NEW a, NEW b, NEW c, NEW d, NEW e, NEW f, NEW g, NEW h,
         NEW a0, NEW b0, NEW c0, NEW d0, NEW e0, NEW f0
  PROVE  [[protocolVersion |-> a0, services |-> b0, timestamp |-> c0,
           addrYou |-> d0, addrMe |-> e0, nonce |-> f0,
           userAgent |-> g, streamNumbers |-> h]
            EXCEPT !.protocolVersion = a, !.services = b, !.timestamp = c,
                   !.addrYou = d, !.addrMe = e, !.nonce = f]
         = [protocolVersion |-> a, services |-> b, timestamp |-> c,
            addrYou |-> d, addrMe |-> e, nonce |-> f,
            userAgent |-> g, streamNumbers |-> h]
<1> DEFINE D == {"protocolVersion", "services", "timestamp", "addrYou",
                 "addrMe", "nonce", "userAgent", "streamNumbers"}
           m == [protocolVersion |-> a0, services |-> b0, timestamp |-> c0,
                 addrYou |-> d0, addrMe |-> e0, nonce |-> f0,
                 userAgent |-> g, streamNumbers |-> h]
           new == [m EXCEPT !.protocolVersion = a, !.services = b,
                            !.timestamp = c, !.addrYou = d, !.addrMe = e,
                            !.nonce = f]
           r == [protocolVersion |-> a, services |-> b, timestamp |-> c,
                 addrYou |-> d, addrMe |-> e, nonce |-> f,
                 userAgent |-> g, streamNumbers |-> h]
<1>1. DOMAIN m = D /\ m = [x \in D |-> m[x]]
      /\ m.userAgent = g /\ m.streamNumbers = h
  OBVIOUS
<1>2. r = [x \in D |-> r[x]]
  OBVIOUS
<1>3. /\ r.protocolVersion = a /\ r.services = b /\ r.timestamp = c
      /\ r.addrYou = d /\ r.addrMe = e /\ r.nonce = f
      /\ r.userAgent = g /\ r.streamNumbers = h
  OBVIOUS
<1> HIDE DEF m, r
<1>4. new = [x \in D |-> new[x]]
  BY <1>1
<1>5. /\ new.protocolVersion = a /\ new.services = b /\ new.timestamp = c
      /\ new.addrYou = d /\ new.addrMe = e /\ new.nonce = f
      /\ new.userAgent = g /\ new.streamNumbers = h
  BY <1>1
<1> HIDE DEF new
<1>6. \A x \in D : new[x] = r[x]
  BY <1>3, <1>5
<1> HIDE DEF D
<1>7. new = r
  BY <1>2, <1>4, <1>6, SameRecord
<1> QED
  BY <1>7 DEF new, m, r

(* Its user agent. *)
LEMMA VersionNamed ==
  ASSUME NEW a, NEW b, NEW c, NEW d, NEW e, NEW f, NEW g, NEW h, NEW g0
  PROVE  [[protocolVersion |-> a, services |-> b, timestamp |-> c,
           addrYou |-> d, addrMe |-> e, nonce |-> f,
           userAgent |-> g0, streamNumbers |-> h] EXCEPT !.userAgent = g]
         = [protocolVersion |-> a, services |-> b, timestamp |-> c,
            addrYou |-> d, addrMe |-> e, nonce |-> f,
            userAgent |-> g, streamNumbers |-> h]
  OBVIOUS

(* Its stream numbers. *)
LEMMA VersionListed ==
  ASSUME NEW a, NEW b, NEW c, NEW d, NEW e, NEW f, NEW g, NEW h, NEW h0
  PROVE  [[protocolVersion |-> a, services |-> b, timestamp |-> c,
           addrYou |-> d, addrMe |-> e, nonce |-> f,
           userAgent |-> g, streamNumbers |-> h0] EXCEPT !.streamNumbers = h]
         = [protocolVersion |-> a, services |-> b, timestamp |-> c,
            addrYou |-> d, addrMe |-> e, nonce |-> f,
            userAgent |-> g, streamNumbers |-> h]
  OBVIOUS

(* The messages of the version type. *)
LEMMA VersionRoundTrip ==
  ASSUME NEW b \in MsgVersion(WireTime), EncodeVersion(b).err = "nil",
         ~(Len(EncodeVersion(b).payload) > MaxMessagePayload)
  PROVE  /\ EncodeVersion(b).payload \in Seq(Nat)
         /\ DecodeVersion(EmptyMessage("version"), EncodeVersion(b).payload)
              = [msg |-> VersionSeen(b), err |-> "nil"]
<1> DEFINE p == EncodeVersion(b).payload
           n == Len(b.userAgent)
           k == Len(b.streamNumbers)
           e == EmptyMessage("version")
<1>1. /\ n \in Nat /\ k \in Nat
      /\ b.userAgent \in Seq(Nat) /\ b.streamNumbers \in Seq(Nat)
  BY DEF MsgVersion
<1>2. Len(b.userAgent) <= MaxUserAgentLen
  <2>1. CASE Len(b.userAgent) > MaxUserAgentLen
    BY <2>1 DEF EncodeVersion, Failed
  <2> QED
    BY <1>1, <2>1, WireAssumption DEF WireAssumption
<1>3. /\ p \in Seq(Nat) /\ Len(p) = 12 + n + k
      /\ p[1] = b.protocolVersion /\ p[2] = b.services
      /\ p[3] = b.timestamp[1]
      /\ p[4] = b.addrYou[2] /\ p[5] = WireIP(b.addrYou)
      /\ p[6] = b.addrYou[4]
      /\ p[7] = b.addrMe[2] /\ p[8] = WireIP(b.addrMe)
      /\ p[9] = b.addrMe[4]
      /\ p[10] = b.nonce /\ p[11] = n
      /\ SubSeq(p, 12, 11 + n) = b.userAgent
      /\ p[12 + n] = k
      /\ \A i \in 1..k : p[12 + n + i] = b.streamNumbers[i]
  BY <1>2, VersionCells
<1> HIDE DEF p
<1>4. Len(p) <= MaxMessagePayload /\ MaxMessagePayload <= MaxAlloc
      /\ MaxMessagePayload \in Nat /\ MaxAlloc \in Nat /\ MaxUserAgentLen \in Nat
  <2>1. ~(Len(p) > MaxMessagePayload)
    BY DEF p
  <2>2. p \in Seq(Nat)
    BY ONLY <1>3
  <2>3. Len(p) \in Nat
    BY ONLY <2>2
  <2> QED
    BY ONLY <2>1, <2>3, WireAssumption, CodecAssumption DEF WireAssumption, CodecAssumption
<1>5. n <= MaxUserAgentLen
  BY <1>2
<1> HIDE DEF n, k
<1>6. AgentErr(p) = "nil"
  BY <1>1, <1>3, <1>4, <1>5 DEF AgentErr, Huge
<1>7. /\ ~(Len(p) < 12 + p[11]) /\ ~Huge(p, 12 + p[11])
      /\ ErrIfShort(p, 12 + p[11] + p[12 + p[11]]) = "nil"
  BY <1>1, <1>3, <1>4 DEF Huge, ErrIfShort
<1>8. /\ ReadNetAddress(p, 4, FALSE) = <<ZeroTime, p[4], p[5], p[6]>>
      /\ ReadNetAddress(p, 7, FALSE) = <<ZeroTime, p[7], p[8], p[9]>>
  <2>1. 6 <= Len(p) /\ 9 <= Len(p)
    BY <1>1, <1>3
  <2>2. 5 = 4 + 1 /\ 6 = 4 + 2 /\ 8 = 7 + 1 /\ 9 = 7 + 2 /\ 4 >= 1 /\ 7 >= 1
    OBVIOUS
  <2>3. p \in Seq(Nat) /\ 4 \in Nat /\ 7 \in Nat
    BY <1>3
  <2>4. ReadNetAddress(p, 4, FALSE) = <<ZeroTime, p[4], p[5], p[6]>>
    BY ONLY <2>1, <2>2, <2>3, UnstampedRead, Zenon
  <2>5. ReadNetAddress(p, 7, FALSE) = <<ZeroTime, p[7], p[8], p[9]>>
    BY ONLY <2>1, <2>2, <2>3, UnstampedRead, Zenon
  <2> QED
    BY <2>4, <2>5
<1>9. VersionFixed(e, p)
        = [protocolVersion |-> p[1], services |-> p[2], timestamp |-> <<p[3], 0>>,
           addrYou |-> ReadNetAddress(p, 4, FALSE),
           addrMe |-> ReadNetAddress(p, 7, FALSE), nonce |-> p[10],
           userAgent |-> <<>>, streamNumbers |-> <<>>]
  <2> DEFINE none == <<ZeroTime, 0, NilIP, 0>>
             never == <<ZeroTime, 0>>
  <2>1. /\ Field(p, 1, e.protocolVersion) = p[1]
        /\ Field(p, 2, e.services) = p[2] /\ Field(p, 10, e.nonce) = p[10]
        /\ ~(Len(p) < 3) /\ ~(Len(p) < 6) /\ ~(Len(p) < 9)
    BY <1>1, <1>3 DEF Field
  <2>2. e = [protocolVersion |-> 0, services |-> 0, timestamp |-> never,
             addrYou |-> none, addrMe |-> none, nonce |-> 0,
             userAgent |-> <<>>, streamNumbers |-> <<>>]
    BY DEF EmptyMessage
  <2> HIDE DEF e, none, never
  <2>3. VersionFixed(e, p)
          = [e EXCEPT !.protocolVersion = p[1], !.services = p[2],
                      !.timestamp = <<p[3], 0>>,
                      !.addrYou = ReadNetAddress(p, 4, FALSE),
                      !.addrMe = ReadNetAddress(p, 7, FALSE), !.nonce = p[10]]
    BY <2>1 DEF VersionFixed
  <2> QED
    BY <2>2, <2>3, VersionFilled
<1>10. [i \in 1..p[12 + p[11]] |-> VarInt(p, 12 + p[11] + i)] = b.streamNumbers
  <2>1. ASSUME NEW i \in 1..k
        PROVE  VarInt(p, 12 + n + i) = b.streamNumbers[i]
    <3>1. 12 + n + i <= Len(p)
      BY <1>1, <1>3
    <3> QED
      BY <1>3, <3>1 DEF VarInt, Field
  <2>2. b.streamNumbers = [i \in 1..k |-> b.streamNumbers[i]]
    BY <1>1 DEF k
  <2> QED
    BY <1>3, <2>1, <2>2
<1>11. SubSeq(p, 12, 11 + p[11]) = b.userAgent
  BY <1>3
<1>12. [[VersionFixed(e, p) EXCEPT !.userAgent = b.userAgent]
          EXCEPT !.streamNumbers = b.streamNumbers] = VersionSeen(b)
  <2> DEFINE you == <<ZeroTime, p[4], p[5], p[6]>>
             me  == <<ZeroTime, p[7], p[8], p[9]>>
             seen == <<p[3], 0>>
             agent == b.userAgent
             streams == b.streamNumbers
             named == [VersionFixed(e, p) EXCEPT !.userAgent = agent]
  <2>1. VersionSeen(b)
          = [protocolVersion |-> p[1], services |-> p[2], timestamp |-> seen,
             addrYou |-> you, addrMe |-> me, nonce |-> p[10],
             userAgent |-> agent, streamNumbers |-> streams]
    BY <1>3 DEF VersionSeen
  <2>2. VersionFixed(e, p)
          = [protocolVersion |-> p[1], services |-> p[2], timestamp |-> seen,
             addrYou |-> you, addrMe |-> me, nonce |-> p[10],
             userAgent |-> <<>>, streamNumbers |-> <<>>]
    BY <1>8, <1>9
  <2> HIDE DEF you, me, seen, agent, streams
  <2>3. named
          = [protocolVersion |-> p[1], services |-> p[2], timestamp |-> seen,
             addrYou |-> you, addrMe |-> me, nonce |-> p[10],
             userAgent |-> agent, streamNumbers |-> <<>>]
    BY <2>2, VersionNamed
  <2> HIDE DEF named
  <2>4. [named EXCEPT !.streamNumbers = streams] = VersionSeen(b)
    BY <2>1, <2>3, VersionListed
  <2> QED
    BY <2>4 DEF agent, streams, named
<1>13. DecodeVersion(e, p) = [msg |-> VersionSeen(b), err |-> "nil"]
  BY <1>6, <1>7, <1>10, <1>11, <1>12 DEF DecodeVersion
<1> QED
  BY <1>3, <1>13 DEF p

-----------------------------------------------------------------------------
(* The object messages *)

(* The five cells that all objects begin with, and what is behind them. *)
LEMMA FiveInFront ==
  ASSUME NEW h \in Seq(Nat), Len(h) = 5, NEW t \in Seq(Nat), NEW p, Joins(p, h, t)
  PROVE  /\ p \in Seq(Nat) /\ Len(p) = 5 + Len(t)
         /\ p[1] = h[1] /\ p[2] = h[2] /\ p[3] = h[3] /\ p[4] = h[4]
         /\ p[5] = h[5]
         /\ \A i \in 1..Len(t) : p[5 + i] = t[i]
         /\ SubSeq(p, 6, Len(p)) = t
<1>1. p \in Seq(Nat) /\ Len(p) = Len(h) + Len(t)
  BY Zenon DEF Joins
<1>2. \A i \in 1..Len(h) : p[i] = h[i]
  BY Zenon DEF Joins
<1>3. \A i \in 1..Len(t) : p[Len(h) + i] = t[i]
  BY Zenon DEF Joins
<1>4. Len(h) = 5 /\ t \in Seq(Nat)
  OBVIOUS
<1>5. Len(t) \in Nat
  BY ONLY <1>4
<1>6. Len(p) = 5 + Len(t) /\ \A i \in 1..Len(t) : p[5 + i] = t[i]
  BY ONLY <1>1, <1>3, <1>4
<1>7. p[1] = h[1] /\ p[2] = h[2] /\ p[3] = h[3] /\ p[4] = h[4] /\ p[5] = h[5]
  BY ONLY <1>2, <1>4
<1>8. SubSeq(p, 5 + 1, 5 + Len(t)) = t
  BY ONLY <1>1, <1>4, <1>5, <1>6, CutIs
<1>9. 5 + 1 = 6
  OBVIOUS
<1> QED
  BY ONLY <1>1, <1>6, <1>7, <1>8, <1>9

(* The fields that all objects have, and their cells. *)
ObjectFields(b) ==
  /\ b.nonce \in Nat /\ b.expires[1] \in Nat /\ b.objectType \in Nat
  /\ b.version \in Nat /\ b.stream \in Nat

OnWire(p, b, t) ==
  /\ p \in Seq(Nat) /\ Len(p) = 5 + Len(t)
  /\ p[1] = b.nonce /\ p[2] = b.expires[1] /\ p[3] = b.objectType
  /\ p[4] = b.version /\ p[5] = b.stream
  /\ \A i \in 1..Len(t) : p[5 + i] = t[i]
  /\ SubSeq(p, 6, Len(p)) = t

LEMMA ObjectOnWire ==
  ASSUME NEW b, ObjectFields(b), NEW t \in Seq(Nat), NEW p,
         p = EncodeObject(b) \o t
  PROVE  OnWire(p, b, t)
<1> DEFINE h == EncodeObject(b)
<1>0. t \in Seq(Nat)
  OBVIOUS
<1>1. h \in Seq(Nat) /\ Len(h) = 5
  BY DEF EncodeObject, ObjectFields
<1>2. /\ h[1] = b.nonce /\ h[2] = b.expires[1] /\ h[3] = b.objectType
      /\ h[4] = b.version /\ h[5] = b.stream
  BY DEF EncodeObject
<1>3. Joins(p, h, t)
  BY <1>1, Concat
<1> HIDE DEF h
<1>4. /\ p \in Seq(Nat) /\ Len(p) = 5 + Len(t)
      /\ p[1] = h[1] /\ p[2] = h[2] /\ p[3] = h[3] /\ p[4] = h[4]
      /\ p[5] = h[5]
      /\ \A i \in 1..Len(t) : p[5 + i] = t[i]
      /\ SubSeq(p, 6, Len(p)) = t
  BY ONLY <1>0, <1>1, <1>3, FiveInFront, ZenonT(40)
<1> QED
  BY <1>2, <1>4, Zenon DEF OnWire

(* A receiver after the cells that all objects begin with. *)
Headed(m, p) ==
  [m EXCEPT !.nonce = p[1], !.objectType = p[3], !.expires = <<p[2], 0>>,
            !.version = p[4], !.stream = p[5]]

LEMMA ObjectDecoded ==
  ASSUME NEW m, NEW p \in Seq(Nat), NEW type, Len(p) >= 5, p[3] = type
  PROVE  DecodeObject(m, p, type) = [msg |-> Headed(m, p), err |-> "nil"]
<1>1. /\ \A old : Field(p, 1, old) = p[1]
      /\ \A old : Field(p, 3, old) = p[3]
      /\ VarInt(p, 4) = p[4] /\ VarInt(p, 5) = p[5]
  BY DEF Field, VarInt
<1>2. ErrIfShort(p, 5) = "nil" /\ Len(p) >= 3 /\ Len(p) >= 4
  BY DEF ErrIfShort
<1> QED
  BY <1>1, <1>2 DEF DecodeObject, Headed

(* A pointer that is not nil. *)
LEMMA PointsTo ==
  ASSUME NEW s \in Pointer, s # <<>>
  PROVE  s \in Seq(Nat) /\ Len(s) = 1 /\ s = <<s[1]>> /\ s[1] \in Nat
<1>1. s \in Seq(Nat) /\ Len(s) <= 1
  BY DEF Pointer
<1>2. Len(s) # 0 /\ Len(s) \in Nat
  BY <1>1
<1>3. \A n \in Nat : n <= 1 /\ n # 0 => n = 1
  OBVIOUS
<1>4. Len(s) = 1
  BY <1>1, <1>2, <1>3, Zenon
<1> QED
  BY <1>1, <1>4

(* The getpubkey message as the reader is to see it. *)
GetPubKeySeen(b) ==
  [nonce |-> b.nonce, expires |-> <<b.expires[1], 0>>,
   objectType |-> b.objectType, version |-> b.version, stream |-> b.stream,
   ripe |-> IF b.version >= 4 THEN <<>> ELSE b.ripe,
   tag  |-> IF b.version >= 4 THEN b.tag ELSE <<>>]

LEMMA GetPubKeyFilled ==
  ASSUME NEW a, NEW b, NEW c, NEW d, NEW e, NEW f, NEW g,
         NEW a0, NEW b0, NEW c0, NEW d0, NEW e0, NEW m,
         m = [nonce |-> a0, expires |-> b0, objectType |-> c0, version |-> d0,
              stream |-> e0, ripe |-> f, tag |-> g]
  PROVE  [m EXCEPT !.nonce = a, !.objectType = c, !.expires = b,
                   !.version = d, !.stream = e]
         = [nonce |-> a, expires |-> b, objectType |-> c, version |-> d,
            stream |-> e, ripe |-> f, tag |-> g]
<1> DEFINE D == {"nonce", "expires", "objectType", "version", "stream",
                 "ripe", "tag"}
           new == [m EXCEPT !.nonce = a, !.objectType = c, !.expires = b,
                            !.version = d, !.stream = e]
           r == [nonce |-> a, expires |-> b, objectType |-> c, version |-> d,
                 stream |-> e, ripe |-> f, tag |-> g]
<1>1. DOMAIN m = D /\ m = [x \in D |-> m[x]] /\ m.ripe = f /\ m.tag = g
  OBVIOUS
<1>2. r = [x \in D |-> r[x]]
  OBVIOUS
<1>3. /\ r.nonce = a /\ r.expires = b /\ r.objectType = c /\ r.version = d
      /\ r.stream = e /\ r.ripe = f /\ r.tag = g
  OBVIOUS
<1> HIDE DEF r
<1>4. new = [x \in D |-> new[x]]
  BY <1>1
<1>5. /\ new.nonce = a /\ new.expires = b /\ new.objectType = c
      /\ new.version = d /\ new.stream = e /\ new.ripe = f /\ new.tag = g
  BY <1>1
<1> HIDE DEF new
<1>6. \A x \in D : new[x] = r[x]
  BY <1>3, <1>5
<1> HIDE DEF D
<1>7. new = r
  BY <1>2, <1>4, <1>6, SameRecord
<1> QED
  BY <1>7 DEF new, r

LEMMA GetPubKeyTagged ==
  ASSUME NEW a, NEW b, NEW c, NEW d, NEW e, NEW f, NEW g, NEW g0, NEW m,
         m = [nonce |-> a, expires |-> b, objectType |-> c, version |-> d,
              stream |-> e, ripe |-> f, tag |-> g0]
  PROVE  [m EXCEPT !.tag = g]
         = [nonce |-> a, expires |-> b, objectType |-> c, version |-> d,
            stream |-> e, ripe |-> f, tag |-> g]
  OBVIOUS

LEMMA GetPubKeyRiped ==
  ASSUME NEW a, NEW b, NEW c, NEW d, NEW e, NEW f, NEW g, NEW f0, NEW m,
         m = [nonce |-> a, expires |-> b, objectType |-> c, version |-> d,
              stream |-> e, ripe |-> f0, tag |-> g]
  PROVE  [m EXCEPT !.ripe = f]
         = [nonce |-> a, expires |-> b, objectType |-> c, version |-> d,
            stream |-> e, ripe |-> f, tag |-> g]
  OBVIOUS

LEMMA GetPubKeyRoundTrip ==
  ASSUME NEW b \in MsgGetPubKey(WireTime, {ObjectTypeGetPubKey}), EncodeGetPubKey(b).err = "nil"
  PROVE  LET p == EncodeGetPubKey(b).payload
         IN  /\ p \in Seq(Nat) /\ Len(p) >= 5 /\ p[3] = ObjectTypeGetPubKey
             /\ DecodeGetPubKey(EmptyMessage("getpubkey"), p)
                  = [msg |-> GetPubKeySeen(b), err |-> "nil"]
<1> DEFINE p   == EncodeGetPubKey(b).payload
           key == IF b.version >= 4 THEN b.tag ELSE b.ripe
           e   == EmptyMessage("getpubkey")
           m   == Headed(e, p)
           exp == <<b.expires[1], 0>>
<1>1. /\ b.nonce \in Nat /\ b.expires[1] \in Nat /\ b.objectType \in Nat
      /\ b.objectType = ObjectTypeGetPubKey
      /\ b.version \in Nat /\ b.stream \in Nat
      /\ b.tag \in Pointer /\ b.ripe \in Pointer
  BY DEF MsgGetPubKey, WireTime, ObjectTypeGetPubKey
<1>2. EncodeGetPubKey(b) = EncodedOr(key = <<>>, EncodeObject(b) \o key)
  BY DEF EncodeGetPubKey, TagBasedRipeVersion
<1>3. key # <<>> /\ p = EncodeObject(b) \o key
  BY <1>2 DEF EncodedOr, Encoded, Failed
<1>4. key \in Seq(Nat) /\ Len(key) = 1 /\ key = <<key[1]>>
  BY <1>1, <1>3, PointsTo
<1> HIDE DEF key, p
<1>5. /\ p \in Seq(Nat) /\ Len(p) = 5 + Len(key)
      /\ p[1] = b.nonce /\ p[2] = b.expires[1] /\ p[3] = b.objectType
      /\ p[4] = b.version /\ p[5] = b.stream
      /\ \A i \in 1..Len(key) : p[5 + i] = key[i]
  <2>1. ObjectFields(b)
    BY <1>1 DEF ObjectFields
  <2>2. OnWire(p, b, key)
    BY <1>3, <1>4, <2>1, ObjectOnWire, Zenon
  <2> QED
    BY <2>2 DEF OnWire
<1>6. Len(p) = 6 /\ p[6] = key[1]
  <2>1. 5 + 1 = 6
    OBVIOUS
  <2> QED
    BY <1>4, <1>5, <2>1
<1>7. DecodeObject(e, p, ObjectTypeGetPubKey) = [msg |-> m, err |-> "nil"]
  <2>1. Len(p) >= 5
    BY <1>6
  <2> QED
    BY <1>1, <1>5, <2>1, ObjectDecoded, Zenon
<1>8. m = [nonce |-> b.nonce, expires |-> exp, objectType |-> b.objectType,
           version |-> b.version, stream |-> b.stream,
           ripe |-> <<>>, tag |-> <<>>]
  <2> DEFINE never == <<ZeroTime, 0>>
  <2>1. e = [nonce |-> 0, expires |-> never, objectType |-> 0, version |-> 0,
             stream |-> 0, ripe |-> <<>>, tag |-> <<>>]
    BY DEF EmptyMessage
  <2>2. m = [e EXCEPT !.nonce = b.nonce, !.objectType = b.objectType,
                      !.expires = exp, !.version = b.version,
                      !.stream = b.stream]
    BY <1>5 DEF Headed
  <2> HIDE DEF e, never, exp, m
  <2> QED
    BY <2>1, <2>2, GetPubKeyFilled
<1>9. ErrIfShort(p, 6) = "nil" /\ VarInt(p, 6) = key[1]
  BY <1>6 DEF ErrIfShort, VarInt, Field
<1> HIDE DEF e, m
<1>10. m.version = b.version
  BY <1>8
<1>11. CASE b.version >= 4
  <2>1. key = b.tag
    BY <1>11 DEF key
  <2>2. DecodeGetPubKey(e, p) = [msg |-> [m EXCEPT !.tag = key], err |-> "nil"]
    BY <1>4, <1>7, <1>9, <1>10, <1>11 DEF DecodeGetPubKey, TagBasedRipeVersion
  <2>3. [m EXCEPT !.tag = key]
          = [nonce |-> b.nonce, expires |-> exp, objectType |-> b.objectType,
             version |-> b.version, stream |-> b.stream,
             ripe |-> <<>>, tag |-> key]
    <3> HIDE DEF exp
    <3> QED
      BY <1>8, GetPubKeyTagged
  <2>4. [m EXCEPT !.tag = key] = GetPubKeySeen(b)
    BY <1>11, <2>1, <2>3 DEF GetPubKeySeen
  <2> QED
    BY <1>1, <1>5, <1>6, <2>2, <2>4, SMTT(30) DEF p, e
<1>12. CASE ~(b.version >= 4)
  <2>1. key = b.ripe
    BY <1>12 DEF key
  <2>2. DecodeGetPubKey(e, p) = [msg |-> [m EXCEPT !.ripe = key], err |-> "nil"]
    BY <1>4, <1>7, <1>9, <1>10, <1>12 DEF DecodeGetPubKey, TagBasedRipeVersion
  <2>3. [m EXCEPT !.ripe = key]
          = [nonce |-> b.nonce, expires |-> exp, objectType |-> b.objectType,
             version |-> b.version, stream |-> b.stream,
             ripe |-> key, tag |-> <<>>]
    <3> HIDE DEF exp
    <3> QED
      BY <1>8, GetPubKeyRiped
  <2>4. [m EXCEPT !.ripe = key] = GetPubKeySeen(b)
    BY <1>12, <2>1, <2>3 DEF GetPubKeySeen
  <2> QED
    BY <1>1, <1>5, <1>6, <2>2, <2>4, SMTT(30) DEF p, e
<1> QED
  BY <1>11, <1>12

(* A msg or broadcast message as the reader is to see it. *)
SealedSeen(b) ==
  [nonce |-> b.nonce, expires |-> <<b.expires[1], 0>>,
   objectType |-> b.objectType, version |-> b.version, stream |-> b.stream,
   encrypted |-> b.encrypted]

SealedFields ==
  {"nonce", "expires", "objectType", "version", "stream", "encrypted"}

LEMMA SealedRoundTrip ==
  ASSUME NEW type \in Nat, NEW b \in MsgSealed(WireTime, {type}),
         NEW kind \in {"msg", "broadcast"}
  PROVE  LET p == EncodeSealed(b).payload
         IN  /\ EncodeSealed(b).err = "nil"
             /\ p \in Seq(Nat) /\ Len(p) >= 5 /\ p[3] = type
             /\ DecodeSealed(EmptyMessage(kind), p, type)
                  = [msg |-> SealedSeen(b), err |-> "nil"]
<1> DEFINE p == EncodeSealed(b).payload
           t == b.encrypted
           e == EmptyMessage(kind)
           m == Headed(e, p)
           new == [m EXCEPT !.encrypted = t]
           r == SealedSeen(b)
           exp == <<b.expires[1], 0>>
<1>1. /\ b.nonce \in Nat /\ b.expires[1] \in Nat /\ b.objectType \in Nat
      /\ b.objectType = type /\ b.version \in Nat /\ b.stream \in Nat
      /\ t \in Seq(Nat)
  BY DEF MsgSealed, WireTime
<1>2. EncodeSealed(b).err = "nil" /\ p = EncodeObject(b) \o t
  BY DEF EncodeSealed, Encoded
<1> HIDE DEF p, t
<1>3. /\ p \in Seq(Nat) /\ Len(p) = 5 + Len(t)
      /\ p[1] = b.nonce /\ p[2] = b.expires[1] /\ p[3] = b.objectType
      /\ p[4] = b.version /\ p[5] = b.stream
      /\ SubSeq(p, 6, Len(p)) = t
  <2>1. ObjectFields(b)
    BY <1>1 DEF ObjectFields
  <2>2. OnWire(p, b, t)
    BY <1>1, <1>2, <2>1, ObjectOnWire, Zenon
  <2> QED
    BY <2>2 DEF OnWire
<1>4. Len(p) >= 5
  BY <1>1, <1>3
<1>5. DecodeObject(e, p, type) = [msg |-> m, err |-> "nil"]
  BY <1>1, <1>3, <1>4, ObjectDecoded, Zenon
<1>6. DecodeSealed(e, p, type) = [msg |-> new, err |-> "nil"]
  <2> DEFINE d == DecodeObject(e, p, type)
  <2>1. d.err = "nil" /\ d.msg = m
    BY <1>5
  <2> HIDE DEF e, m
  <2>2. DecodeSealed(e, p, type)
          = IF d.err # "nil" THEN d
            ELSE [msg |-> [d.msg EXCEPT !.encrypted = SubSeq(p, 6, Len(p))],
                  err |-> "nil"]
    BY DEF DecodeSealed
  <2> HIDE DEF d
  <2> QED
    BY <1>3, <2>1, <2>2
<1>7. /\ DOMAIN e = SealedFields /\ e = [x \in SealedFields |-> e[x]]
  BY DEF EmptyMessage, SealedFields
<1>8. /\ DOMAIN r = SealedFields /\ r = [x \in SealedFields |-> r[x]]
      /\ r.nonce = b.nonce /\ r.expires = exp /\ r.objectType = b.objectType
      /\ r.version = b.version /\ r.stream = b.stream /\ r.encrypted = t
  BY DEF SealedSeen, SealedFields, t
<1>9. m = [e EXCEPT !.nonce = b.nonce, !.objectType = b.objectType,
                    !.expires = exp, !.version = b.version, !.stream = b.stream]
  BY <1>3 DEF Headed
<1> HIDE DEF e, m, r, exp
<1>10. /\ DOMAIN m = SealedFields /\ m = [x \in SealedFields |-> m[x]]
       /\ m.nonce = b.nonce /\ m.expires = exp /\ m.objectType = b.objectType
       /\ m.version = b.version /\ m.stream = b.stream
  BY <1>7, <1>9 DEF SealedFields
<1>11. /\ new = [x \in SealedFields |-> new[x]]
       /\ new.nonce = b.nonce /\ new.expires = exp
       /\ new.objectType = b.objectType /\ new.version = b.version
       /\ new.stream = b.stream /\ new.encrypted = t
  BY <1>10 DEF SealedFields
<1> HIDE DEF new
<1>12. \A x \in SealedFields : new[x] = r[x]
  BY <1>8, <1>11 DEF SealedFields
<1>13. new = r
  BY <1>8, <1>11, <1>12, SameRecord
<1> QED
  BY <1>1, <1>2, <1>3, <1>4, <1>6, <1>13 DEF p, e, r

(* A pubkey message as the reader is to see it. *)
PubKeySeen(b) ==
  LET sealed   == b.version >= 4
      extended == b.version = 3
  IN  [nonce |-> b.nonce, expires |-> <<b.expires[1], 0>>,
       objectType |-> b.objectType, version |-> b.version, stream |-> b.stream,
       behavior    |-> IF sealed THEN 0 ELSE b.behavior,
       signingKey  |-> IF sealed THEN <<>> ELSE b.signingKey,
       encryptKey  |-> IF sealed THEN <<>> ELSE b.encryptKey,
       nonceTrials |-> IF extended THEN b.nonceTrials ELSE 0,
       extraBytes  |-> IF extended THEN b.extraBytes ELSE 0,
       signature   |-> IF extended THEN b.signature ELSE <<>>,
       tag         |-> IF sealed THEN b.tag ELSE <<>>,
       encrypted   |-> IF sealed THEN b.encrypted ELSE <<>>]

PubKeyFields ==
  {"nonce", "expires", "objectType", "version", "stream", "behavior",
   "signingKey", "encryptKey", "nonceTrials", "extraBytes", "signature",
   "tag", "encrypted"}

PubKeyShape(m) == DOMAIN m = PubKeyFields /\ m = [x \in PubKeyFields |-> m[x]]

(* What a new receiver holds after the cells all objects begin with. *)
PubKeyHeaded(m, b) ==
  /\ PubKeyShape(m)
  /\ m.nonce = b.nonce /\ m.expires = <<b.expires[1], 0>>
  /\ m.objectType = b.objectType /\ m.version = b.version
  /\ m.stream = b.stream /\ m.behavior = 0 /\ m.signingKey = <<>>
  /\ m.encryptKey = <<>> /\ m.nonceTrials = 0 /\ m.extraBytes = 0
  /\ m.signature = <<>> /\ m.tag = <<>> /\ m.encrypted = <<>>

LEMMA PubKeyHead ==
  ASSUME NEW b, NEW p,
         p[1] = b.nonce, p[2] = b.expires[1], p[3] = b.objectType,
         p[4] = b.version, p[5] = b.stream
  PROVE  PubKeyHeaded(Headed(EmptyMessage("pubkey"), p), b)
<1> DEFINE e == EmptyMessage("pubkey")
           m == Headed(e, p)
           exp == <<b.expires[1], 0>>
<1>1. /\ PubKeyShape(e)
      /\ e.behavior = 0 /\ e.signingKey = <<>>
      /\ e.encryptKey = <<>> /\ e.nonceTrials = 0 /\ e.extraBytes = 0
      /\ e.signature = <<>> /\ e.tag = <<>> /\ e.encrypted = <<>>
  BY DEF EmptyMessage, PubKeyShape, PubKeyFields
<1>2. m = [e EXCEPT !.nonce = b.nonce, !.objectType = b.objectType,
                    !.expires = exp, !.version = b.version, !.stream = b.stream]
  BY DEF Headed
<1> HIDE DEF e, m, exp
<1>3. PubKeyShape(m)
  BY <1>1, <1>2 DEF PubKeyShape
<1>4. /\ m.nonce = b.nonce /\ m.expires = exp
      /\ m.objectType = b.objectType /\ m.version = b.version
      /\ m.stream = b.stream
  BY <1>1, <1>2 DEF PubKeyShape, PubKeyFields
<1>5. /\ m.behavior = 0 /\ m.signingKey = <<>>
      /\ m.encryptKey = <<>> /\ m.nonceTrials = 0 /\ m.extraBytes = 0
      /\ m.signature = <<>> /\ m.tag = <<>> /\ m.encrypted = <<>>
  BY <1>1, <1>2 DEF PubKeyShape, PubKeyFields
<1> QED
  BY <1>3, <1>4, <1>5 DEF PubKeyHeaded, m, e, exp

LEMMA PubKeySame ==
  ASSUME NEW r, NEW s, PubKeyShape(r), PubKeyShape(s),
         r.nonce = s.nonce, r.expires = s.expires,
         r.objectType = s.objectType, r.version = s.version,
         r.stream = s.stream, r.behavior = s.behavior,
         r.signingKey = s.signingKey, r.encryptKey = s.encryptKey,
         r.nonceTrials = s.nonceTrials, r.extraBytes = s.extraBytes,
         r.signature = s.signature, r.tag = s.tag, r.encrypted = s.encrypted
  PROVE  r = s
<1>1. \A x \in PubKeyFields : r[x] = s[x]
  BY DEF PubKeyFields
<1> QED
  BY <1>1, SameRecord DEF PubKeyShape

LEMMA PubKeySeenFields ==
  ASSUME NEW b
  PROVE  LET r == PubKeySeen(b)
             sealed   == b.version >= 4
             extended == b.version = 3
         IN  /\ PubKeyShape(r)
             /\ r.nonce = b.nonce /\ r.expires = <<b.expires[1], 0>>
             /\ r.objectType = b.objectType /\ r.version = b.version
             /\ r.stream = b.stream
             /\ r.behavior = IF sealed THEN 0 ELSE b.behavior
             /\ r.signingKey = IF sealed THEN <<>> ELSE b.signingKey
             /\ r.encryptKey = IF sealed THEN <<>> ELSE b.encryptKey
             /\ r.nonceTrials = IF extended THEN b.nonceTrials ELSE 0
             /\ r.extraBytes = IF extended THEN b.extraBytes ELSE 0
             /\ r.signature = IF extended THEN b.signature ELSE <<>>
             /\ r.tag = IF sealed THEN b.tag ELSE <<>>
             /\ r.encrypted = IF sealed THEN b.encrypted ELSE <<>>
  BY DEF PubKeySeen, PubKeyShape, PubKeyFields

(* Encode did not panic. *)
LEMMA EncodedWell ==
  ASSUME NEW panics \in BOOLEAN, NEW x, NEW r, r = EncodedOr(panics, x),
         r.err = "nil"
  PROVE  ~panics /\ r.payload = x
  BY DEF EncodedOr, Encoded, Failed

LEMMA Associative ==
  ASSUME NEW s \in Seq(Nat), NEW t \in Seq(Nat), NEW u \in Seq(Nat)
  PROVE  (s \o t) \o u = s \o (t \o u)
  OBVIOUS

(* A public key that is encrypted, version 4 and later. *)
LEMMA SealedPubKeyRoundTrip ==
  ASSUME NEW b \in MsgPubKey(WireTime, {ObjectTypePubKey}),
         b.version >= 4, EncodePubKey(b).err = "nil"
  PROVE  LET p == EncodePubKey(b).payload
         IN  /\ p \in Seq(Nat) /\ Len(p) >= 5 /\ p[3] = ObjectTypePubKey
             /\ DecodePubKey(EmptyMessage("pubkey"), p)
                  = [msg |-> PubKeySeen(b), err |-> "nil"]
<1> DEFINE p == EncodePubKey(b).payload
           key == b.tag
           rest == b.encrypted
           t == key \o rest
           e == EmptyMessage("pubkey")
           m == Headed(e, p)
           new == [m EXCEPT !.tag = key, !.encrypted = rest]
<1>1. /\ b.nonce \in Nat /\ b.expires[1] \in Nat /\ b.objectType \in Nat
      /\ b.objectType = ObjectTypePubKey /\ b.version \in Nat
      /\ b.stream \in Nat /\ key \in Pointer /\ rest \in Seq(Nat)
  BY DEF MsgPubKey, WireTime, ObjectTypePubKey
<1>2. EncodePubKey(b)
        = EncodedOr(b.tag = <<>>, EncodeObject(b) \o b.tag \o b.encrypted)
  <2>1. /\ b.version >= EncryptedPubKeyVersion
        /\ b.version # ExtendedPubKeyVersion
    BY <1>1 DEF EncryptedPubKeyVersion, ExtendedPubKeyVersion
  <2> QED
    BY <2>1, Zenon DEF EncodePubKey
<1>3. key # <<>> /\ p = (EncodeObject(b) \o key) \o rest
  BY <1>2, EncodedWell, Zenon
<1>4. key \in Seq(Nat) /\ Len(key) = 1 /\ key = <<key[1]>>
  BY <1>1, <1>3, PointsTo
<1> HIDE DEF p, key, rest
<1>5. p = EncodeObject(b) \o t
  <2>1. EncodeObject(b) \in Seq(Nat)
    BY <1>1 DEF EncodeObject
  <2> QED
    BY <1>1, <1>3, <1>4, <2>1, Associative, Zenon
<1>6. Joins(t, key, rest)
  BY <1>1, <1>4, Concat
<1> HIDE DEF t
<1>7. t \in Seq(Nat) /\ Len(t) = 1 + Len(rest) /\ t[1] = key[1]
      /\ \A i \in 1..Len(rest) : t[1 + i] = rest[i]
  BY ONLY <1>4, <1>6 DEF Joins
<1>8. /\ p \in Seq(Nat) /\ Len(p) = 5 + Len(t)
      /\ p[1] = b.nonce /\ p[2] = b.expires[1] /\ p[3] = b.objectType
      /\ p[4] = b.version /\ p[5] = b.stream
      /\ \A i \in 1..Len(t) : p[5 + i] = t[i]
  <2>1. t \in Seq(Nat)
    BY <1>7
  <2>2. ObjectFields(b)
    BY <1>1 DEF ObjectFields
  <2>3. OnWire(p, b, t)
    BY <1>5, <2>1, <2>2, ObjectOnWire, Zenon
  <2> QED
    BY <2>3 DEF OnWire
<1>9. Len(p) = 6 + Len(rest) /\ p[6] = key[1] /\ Len(rest) \in Nat
  BY ONLY <1>1, <1>7, <1>8
<1>10. SubSeq(p, 7, Len(p)) = rest
  <2>1. ASSUME NEW i \in 1..Len(rest)
        PROVE  p[6 + i] = rest[i]
    <3>1. 1 + i \in 1..Len(t) /\ 5 + (1 + i) = 6 + i
      BY ONLY <1>7, <1>9
    <3> QED
      BY ONLY <1>7, <1>8, <3>1
  <2>2. SubSeq(p, 6 + 1, 6 + Len(rest)) = rest
    <3>1. p \in Seq(Nat) /\ rest \in Seq(Nat) /\ 6 \in Nat
      BY ONLY <1>1, <1>8
    <3>2. 6 + Len(rest) <= Len(p)
      BY ONLY <1>9
    <3> QED
      BY ONLY <2>1, <3>1, <3>2, CutIs, Zenon
  <2> QED
    BY ONLY <1>9, <2>2
<1>11. Len(p) >= 5 /\ ~(Len(p) < 6) /\ ErrIfShort(p, 6) = "nil"
       /\ VarInt(p, 6) = key[1]
  BY ONLY <1>9 DEF ErrIfShort, VarInt, Field
<1>12. DecodeObject(e, p, ObjectTypePubKey) = [msg |-> m, err |-> "nil"]
  BY <1>1, <1>8, <1>11, ObjectDecoded, Zenon
<1>13. PubKeyHeaded(m, b)
  BY <1>8, PubKeyHead, Zenon
<1> HIDE DEF e, m
<1>14. m.version >= EncryptedPubKeyVersion
  BY <1>13 DEF PubKeyHeaded, EncryptedPubKeyVersion
<1>15. DecodePubKey(e, p) = [msg |-> new, err |-> "nil"]
  <2> DEFINE d == DecodeObject(e, p, ObjectTypePubKey)
  <2>1. d.err = "nil" /\ d.msg = m
    BY <1>12
  <2> HIDE DEF d
  <2>2. DecodePubKey(e, p)
          = [msg |-> [d.msg EXCEPT
                        !.tag       = <<VarInt(p, 6)>>,
                        !.encrypted = IF Len(p) < 6 THEN @
                                      ELSE SubSeq(p, 7, Len(p))],
             err |-> ErrIfShort(p, 6)]
    BY <1>14, <2>1 DEF DecodePubKey, d
  <2> QED
    BY <1>4, <1>10, <1>11, <2>1, <2>2
<1>16. /\ PubKeyShape(new) /\ new.tag = key /\ new.encrypted = rest
       /\ new.nonce = m.nonce /\ new.expires = m.expires
       /\ new.objectType = m.objectType /\ new.version = m.version
       /\ new.stream = m.stream /\ new.behavior = m.behavior
       /\ new.signingKey = m.signingKey /\ new.encryptKey = m.encryptKey
       /\ new.nonceTrials = m.nonceTrials /\ new.extraBytes = m.extraBytes
       /\ new.signature = m.signature
  BY <1>13 DEF PubKeyHeaded, PubKeyShape, PubKeyFields
<1> DEFINE r == PubKeySeen(b)
<1>17. /\ PubKeyShape(r) /\ r.tag = key /\ r.encrypted = rest
       /\ r.nonce = b.nonce /\ r.expires = <<b.expires[1], 0>>
       /\ r.objectType = b.objectType /\ r.version = b.version
       /\ r.stream = b.stream /\ r.behavior = 0
       /\ r.signingKey = <<>> /\ r.encryptKey = <<>>
       /\ r.nonceTrials = 0 /\ r.extraBytes = 0 /\ r.signature = <<>>
  <2>1. b.version # 3
    BY <1>1
  <2> QED
    BY <2>1, PubKeySeenFields DEF key, rest
<1> HIDE DEF new, r
<1>18. new = r
  BY ONLY <1>13, <1>16, <1>17, PubKeySame DEF PubKeyHeaded
<1> QED
  BY <1>1, <1>8, <1>11, <1>15, <1>18 DEF p, e, r

(* The behavior and the two keys. *)
KeyCells(b) == <<b.behavior>> \o b.signingKey \o b.encryptKey

LEMMA OneOneOne ==
  ASSUME NEW h \in Seq(Nat), NEW s \in Seq(Nat), NEW t \in Seq(Nat),
         Len(h) = 1, Len(s) = 1, Len(t) = 1,
         NEW x, NEW keys, Joins(x, h, s), Joins(keys, x, t)
  PROVE  /\ keys \in Seq(Nat) /\ Len(keys) = 3
         /\ keys[1] = h[1] /\ keys[2] = s[1] /\ keys[3] = t[1]
<1>1. /\ x \in Seq(Nat) /\ Len(x) = 2 /\ keys \in Seq(Nat) /\ Len(keys) = 3
  BY DEF Joins
<1>2. x[1] = h[1] /\ x[1 + 1] = s[1]
  BY DEF Joins
<1>3. \A i \in 1..2 : keys[i] = x[i]
  BY <1>1 DEF Joins
<1>4. keys[2 + 1] = t[1]
  BY <1>1 DEF Joins
<1> QED
  BY <1>1, <1>2, <1>3, <1>4

LEMMA KeysOnWire ==
  ASSUME NEW b, b.behavior \in Nat, b.signingKey \in Seq(Nat),
         b.encryptKey \in Seq(Nat), Len(b.signingKey) = 1, Len(b.encryptKey) = 1
  PROVE  /\ KeyCells(b) \in Seq(Nat) /\ Len(KeyCells(b)) = 3
         /\ KeyCells(b)[1] = b.behavior
         /\ KeyCells(b)[2] = b.signingKey[1]
         /\ KeyCells(b)[3] = b.encryptKey[1]
<1> DEFINE h == <<b.behavior>>
           s == b.signingKey
           t == b.encryptKey
           x == h \o s
           keys == x \o t
<1>1. h \in Seq(Nat) /\ Len(h) = 1 /\ h[1] = b.behavior
  OBVIOUS
<1>2. s \in Seq(Nat) /\ t \in Seq(Nat) /\ Len(s) = 1 /\ Len(t) = 1
  OBVIOUS
<1> HIDE DEF h, s, t
<1>3. Joins(x, h, s)
  BY ONLY <1>1, <1>2, Concat
<1>4. x \in Seq(Nat)
  BY ONLY <1>3 DEF Joins
<1> HIDE DEF x
<1>5. Joins(keys, x, t)
  BY ONLY <1>2, <1>4, Concat
<1> HIDE DEF keys
<1>6. /\ keys \in Seq(Nat) /\ Len(keys) = 3
      /\ keys[1] = h[1] /\ keys[2] = s[1] /\ keys[3] = t[1]
  BY ONLY <1>1, <1>2, <1>3, <1>5, OneOneOne
<1>7. keys = KeyCells(b)
  BY DEF KeyCells, keys, x, h, s, t
<1> QED
  BY ONLY <1>1, <1>6, <1>7 DEF s, t

(* A receiver with the behavior and the keys of cells 6 to 8. *)
LEMMA PubKeyKeyed ==
  ASSUME NEW m, NEW b, PubKeyHeaded(m, b), NEW p, Len(p) >= 8, Len(p) \in Nat,
         p[6] = b.behavior, <<p[7]>> = b.signingKey, <<p[8]>> = b.encryptKey
  PROVE  LET new == WithKeys(m, p)
         IN  /\ PubKeyShape(new) /\ new.behavior = b.behavior
             /\ new.signingKey = b.signingKey /\ new.encryptKey = b.encryptKey
             /\ new.nonce = b.nonce /\ new.expires = <<b.expires[1], 0>>
             /\ new.objectType = b.objectType /\ new.version = b.version
             /\ new.stream = b.stream /\ new.nonceTrials = 0
             /\ new.extraBytes = 0 /\ new.signature = <<>>
             /\ new.tag = <<>> /\ new.encrypted = <<>>
<1> DEFINE new == WithKeys(m, p)
           exp == <<b.expires[1], 0>>
<1>1. /\ \A old : Field(p, 6, old) = p[6]
      /\ VarInt(p, 7) = p[7] /\ VarInt(p, 8) = p[8]
  BY DEF Field, VarInt
<1>2. new = [m EXCEPT !.behavior = b.behavior, !.signingKey = b.signingKey,
                      !.encryptKey = b.encryptKey]
  BY <1>1 DEF WithKeys
<1>3. /\ PubKeyShape(m)
      /\ m.nonce = b.nonce /\ m.expires = exp
      /\ m.objectType = b.objectType /\ m.version = b.version
      /\ m.stream = b.stream /\ m.nonceTrials = 0 /\ m.extraBytes = 0
      /\ m.signature = <<>> /\ m.tag = <<>> /\ m.encrypted = <<>>
  BY DEF PubKeyHeaded
<1> HIDE DEF new, exp
<1>4. /\ PubKeyShape(new) /\ new.behavior = b.behavior
      /\ new.signingKey = b.signingKey /\ new.encryptKey = b.encryptKey
  BY ONLY <1>2, <1>3 DEF PubKeyShape, PubKeyFields
<1>5. /\ new.nonce = b.nonce /\ new.expires = exp
      /\ new.objectType = b.objectType /\ new.version = b.version
      /\ new.stream = b.stream /\ new.nonceTrials = 0
      /\ new.extraBytes = 0 /\ new.signature = <<>>
      /\ new.tag = <<>> /\ new.encrypted = <<>>
  BY ONLY <1>2, <1>3 DEF PubKeyShape, PubKeyFields
<1> QED
  BY <1>4, <1>5 DEF new, exp

(* A public key that is not encrypted and not extended. *)
LEMMA PlainPubKeyRoundTrip ==
  ASSUME NEW b \in MsgPubKey(WireTime, {ObjectTypePubKey}),
         ~(b.version >= 4), b.version # 3,
         EncodePubKey(b).err = "nil"
  PROVE  LET p == EncodePubKey(b).payload
         IN  /\ p \in Seq(Nat) /\ Len(p) >= 5 /\ p[3] = ObjectTypePubKey
             /\ DecodePubKey(EmptyMessage("pubkey"), p)
                  = [msg |-> PubKeySeen(b), err |-> "nil"]
<1> DEFINE p == EncodePubKey(b).payload
           t == KeyCells(b)
           e == EmptyMessage("pubkey")
           m == Headed(e, p)
           new == WithKeys(m, p)
           r == PubKeySeen(b)
<1>1. /\ b.nonce \in Nat /\ b.expires[1] \in Nat /\ b.objectType \in Nat
      /\ b.objectType = ObjectTypePubKey /\ b.version \in Nat
      /\ b.stream \in Nat /\ b.behavior \in Nat
      /\ b.signingKey \in Pointer /\ b.encryptKey \in Pointer
  BY DEF MsgPubKey, WireTime, ObjectTypePubKey
<1>2. EncodePubKey(b)
        = EncodedOr(b.signingKey = <<>> \/ b.encryptKey = <<>>,
                    EncodeObject(b) \o t)
  <2>1. /\ ~(b.version >= EncryptedPubKeyVersion)
        /\ b.version # ExtendedPubKeyVersion
    BY <1>1 DEF EncryptedPubKeyVersion, ExtendedPubKeyVersion
  <2> QED
    BY <2>1, Zenon DEF EncodePubKey, KeyCells
<1>3. b.signingKey # <<>> /\ b.encryptKey # <<>> /\ p = EncodeObject(b) \o t
  <2> HIDE DEF t
  <2> QED
    BY <1>2, EncodedWell, Zenon
<1>4. /\ b.signingKey \in Seq(Nat) /\ Len(b.signingKey) = 1
      /\ b.signingKey = <<b.signingKey[1]>>
      /\ b.encryptKey \in Seq(Nat) /\ Len(b.encryptKey) = 1
      /\ b.encryptKey = <<b.encryptKey[1]>>
  BY ONLY <1>1, <1>3, PointsTo
<1>5. /\ t \in Seq(Nat) /\ Len(t) = 3 /\ t[1] = b.behavior
      /\ t[2] = b.signingKey[1] /\ t[3] = b.encryptKey[1]
  BY ONLY <1>1, <1>4, KeysOnWire
<1> HIDE DEF p, t
<1>6. OnWire(p, b, t)
  <2>1. ObjectFields(b) /\ t \in Seq(Nat)
    BY <1>1, <1>5 DEF ObjectFields
  <2> QED
    BY <1>3, <2>1, ObjectOnWire, Zenon
<1>7. /\ p \in Seq(Nat) /\ Len(p) = 8
      /\ p[1] = b.nonce /\ p[2] = b.expires[1] /\ p[3] = b.objectType
      /\ p[4] = b.version /\ p[5] = b.stream
      /\ p[6] = t[1] /\ p[7] = t[2] /\ p[8] = t[3]
  <2>1. 1 \in 1..3 /\ 2 \in 1..3 /\ 3 \in 1..3
    OBVIOUS
  <2>2. p[5 + 1] = t[1] /\ p[5 + 2] = t[2] /\ p[5 + 3] = t[3]
    BY ONLY <1>5, <1>6, <2>1 DEF OnWire
  <2> QED
    BY ONLY <1>5, <1>6, <2>2 DEF OnWire
<1>8. Len(p) >= 5 /\ Len(p) >= 8 /\ Len(p) \in Nat /\ ErrIfShort(p, 8) = "nil"
  BY ONLY <1>7 DEF ErrIfShort
<1>9. DecodeObject(e, p, ObjectTypePubKey) = [msg |-> m, err |-> "nil"]
  BY <1>1, <1>7, <1>8, ObjectDecoded, Zenon
<1>10. PubKeyHeaded(m, b)
  BY <1>7, PubKeyHead, Zenon
<1> HIDE DEF e, m
<1>11. ~(m.version >= EncryptedPubKeyVersion) /\ m.version # ExtendedPubKeyVersion
  BY <1>10 DEF PubKeyHeaded, EncryptedPubKeyVersion, ExtendedPubKeyVersion
<1>12. DecodePubKey(e, p) = [msg |-> new, err |-> "nil"]
  <2> DEFINE d == DecodeObject(e, p, ObjectTypePubKey)
  <2>1. d.err = "nil" /\ d.msg = m
    BY <1>9
  <2> HIDE DEF d, new
  <2>2. DecodePubKey(e, p) = [msg |-> WithKeys(d.msg, p), err |-> ErrIfShort(p, 8)]
    BY <1>11, <2>1 DEF DecodePubKey, d
  <2> QED
    BY <1>8, <2>1, <2>2 DEF new
<1>13. /\ PubKeyShape(new) /\ new.behavior = b.behavior
       /\ new.signingKey = b.signingKey /\ new.encryptKey = b.encryptKey
       /\ new.nonce = b.nonce /\ new.expires = <<b.expires[1], 0>>
       /\ new.objectType = b.objectType /\ new.version = b.version
       /\ new.stream = b.stream /\ new.nonceTrials = 0
       /\ new.extraBytes = 0 /\ new.signature = <<>>
       /\ new.tag = <<>> /\ new.encrypted = <<>>
  <2>1. p[6] = b.behavior /\ <<p[7]>> = b.signingKey /\ <<p[8]>> = b.encryptKey
    BY ONLY <1>4, <1>5, <1>7
  <2> QED
    BY <1>8, <1>10, <2>1, PubKeyKeyed
<1>14. /\ PubKeyShape(r) /\ r.behavior = b.behavior
       /\ r.signingKey = b.signingKey /\ r.encryptKey = b.encryptKey
       /\ r.nonce = b.nonce /\ r.expires = <<b.expires[1], 0>>
       /\ r.objectType = b.objectType /\ r.version = b.version
       /\ r.stream = b.stream /\ r.nonceTrials = 0
       /\ r.extraBytes = 0 /\ r.signature = <<>>
       /\ r.tag = <<>> /\ r.encrypted = <<>>
  BY PubKeySeenFields
<1> HIDE DEF new, r
<1>15. new = r
  BY ONLY <1>13, <1>14, PubKeySame
<1> QED
  BY <1>1, <1>7, <1>8, <1>12, <1>15 DEF p, e, r

(* Three cells, three cells, and a text whose length is the last of them. *)
SixAndText(t, h, s, u) ==
  /\ t \in Seq(Nat) /\ Len(t) = 6 + Len(u)
  /\ t[1] = h[1] /\ t[2] = h[2] /\ t[3] = h[3]
  /\ t[4] = s[1] /\ t[5] = s[2] /\ t[6] = s[3]
  /\ \A i \in 1..Len(u) : t[6 + i] = u[i]

LEMMA ThreeThreeText ==
  ASSUME NEW h \in Seq(Nat), NEW s \in Seq(Nat), NEW u \in Seq(Nat),
         Len(h) = 3, Len(s) = 3, NEW six, NEW t,
         Joins(six, h, s), Joins(t, six, u)
  PROVE  SixAndText(t, h, s, u)
<1>0. Len(h) = 3 /\ Len(s) = 3
  OBVIOUS
<1>1. /\ six \in Seq(Nat) /\ Len(six) = Len(h) + Len(s)
      /\ t \in Seq(Nat) /\ Len(t) = Len(six) + Len(u)
  BY Zenon DEF Joins
<1>2. Len(six) = 6 /\ Len(t) = 6 + Len(u)
  BY ONLY <1>0, <1>1
<1>3. /\ \A i \in 1..Len(h) : six[i] = h[i]
      /\ \A i \in 1..Len(s) : six[Len(h) + i] = s[i]
  BY Zenon DEF Joins
<1>4. /\ \A i \in 1..Len(six) : t[i] = six[i]
      /\ \A i \in 1..Len(u) : t[Len(six) + i] = u[i]
  BY Zenon DEF Joins
<1>5. /\ six[1] = h[1] /\ six[2] = h[2] /\ six[3] = h[3]
      /\ six[4] = s[1] /\ six[5] = s[2] /\ six[6] = s[3]
  <2>1. six[3 + 1] = s[1] /\ six[3 + 2] = s[2] /\ six[3 + 3] = s[3]
    BY ONLY <1>0, <1>3
  <2>2. six[1] = h[1] /\ six[2] = h[2] /\ six[3] = h[3]
    BY ONLY <1>0, <1>3
  <2> QED
    BY ONLY <2>1, <2>2
<1>6. /\ t[1] = six[1] /\ t[2] = six[2] /\ t[3] = six[3]
      /\ t[4] = six[4] /\ t[5] = six[5] /\ t[6] = six[6]
  BY ONLY <1>2, <1>4
<1>7. \A i \in 1..Len(u) : t[6 + i] = u[i]
  BY ONLY <1>2, <1>4
<1> QED
  BY ONLY <1>1, <1>2, <1>5, <1>6, <1>7 DEF SixAndText

(* A public key of version 3. *)
LEMMA ExtendedPubKeyRoundTrip ==
  ASSUME NEW b \in MsgPubKey(WireTime, {ObjectTypePubKey}),
         b.version = 3, EncodePubKey(b).err = "nil",
         ~(Len(EncodePubKey(b).payload) > MaxMessagePayload)
  PROVE  LET p == EncodePubKey(b).payload
         IN  /\ p \in Seq(Nat) /\ Len(p) >= 5 /\ p[3] = ObjectTypePubKey
             /\ DecodePubKey(EmptyMessage("pubkey"), p)
                  = [msg |-> PubKeySeen(b), err |-> "nil"]
<1> DEFINE p == EncodePubKey(b).payload
           sig == b.signature
           three == <<b.nonceTrials, b.extraBytes, Len(sig)>>
           h == KeyCells(b)
           six == h \o three
           t == six \o sig
           e == EmptyMessage("pubkey")
           m == Headed(e, p)
           keys == WithKeys(m, p)
           new == [keys EXCEPT !.nonceTrials = b.nonceTrials,
                               !.extraBytes = b.extraBytes, !.signature = sig]
           r == PubKeySeen(b)
<1>1. /\ b.nonce \in Nat /\ b.expires[1] \in Nat /\ b.objectType \in Nat
      /\ b.objectType = ObjectTypePubKey /\ b.version \in Nat
      /\ b.stream \in Nat /\ b.behavior \in Nat
      /\ b.signingKey \in Pointer /\ b.encryptKey \in Pointer
      /\ b.nonceTrials \in Nat /\ b.extraBytes \in Nat /\ sig \in Seq(Nat)
  BY DEF MsgPubKey, WireTime, ObjectTypePubKey
<1>2. /\ three \in Seq(Nat) /\ Len(three) = 3 /\ three[1] = b.nonceTrials
      /\ three[2] = b.extraBytes /\ three[3] = Len(sig) /\ Len(sig) \in Nat
  BY ONLY <1>1
<1>3. EncodePubKey(b)
        = EncodedOr(b.signingKey = <<>> \/ b.encryptKey = <<>>,
                    ((EncodeObject(b) \o h) \o three) \o sig)
  <2>1. /\ ~(b.version >= EncryptedPubKeyVersion)
        /\ b.version = ExtendedPubKeyVersion
    BY <1>1 DEF EncryptedPubKeyVersion, ExtendedPubKeyVersion
  <2> QED
    BY <2>1, Zenon DEF EncodePubKey, KeyCells
<1> HIDE DEF h, three
<1>4. /\ b.signingKey # <<>> /\ b.encryptKey # <<>>
      /\ p = ((EncodeObject(b) \o h) \o three) \o sig
  BY <1>3, EncodedWell, Zenon
<1>5. /\ b.signingKey \in Seq(Nat) /\ Len(b.signingKey) = 1
      /\ b.signingKey = <<b.signingKey[1]>>
      /\ b.encryptKey \in Seq(Nat) /\ Len(b.encryptKey) = 1
      /\ b.encryptKey = <<b.encryptKey[1]>>
  BY ONLY <1>1, <1>4, PointsTo
<1>6. /\ h \in Seq(Nat) /\ Len(h) = 3 /\ h[1] = b.behavior
      /\ h[2] = b.signingKey[1] /\ h[3] = b.encryptKey[1]
  BY ONLY <1>1, <1>5, KeysOnWire DEF h
<1> HIDE DEF p, sig
<1>7. Joins(six, h, three)
  BY ONLY <1>2, <1>6, Concat
<1>8. six \in Seq(Nat)
  BY ONLY <1>7 DEF Joins
<1>9. p = EncodeObject(b) \o t
  <2> DEFINE eo == EncodeObject(b)
  <2>1. eo \in Seq(Nat)
    BY <1>1 DEF EncodeObject
  <2> HIDE DEF eo
  <2>2. (eo \o h) \o three = eo \o six
    BY ONLY <1>2, <1>6, <2>1, Associative
  <2> HIDE DEF six
  <2>3. (eo \o six) \o sig = eo \o (six \o sig)
    BY ONLY <1>1, <1>8, <2>1, Associative
  <2> QED
    BY ONLY <1>4, <2>2, <2>3, Zenon DEF eo
<1> HIDE DEF six
<1>10. Joins(t, six, sig)
  BY ONLY <1>1, <1>8, Concat
<1> HIDE DEF t
<1>11. /\ t \in Seq(Nat) /\ Len(t) = 6 + Len(sig)
       /\ t[1] = h[1] /\ t[2] = h[2] /\ t[3] = h[3]
       /\ t[4] = three[1] /\ t[5] = three[2] /\ t[6] = three[3]
       /\ \A i \in 1..Len(sig) : t[6 + i] = sig[i]
  <2>1. /\ h \in Seq(Nat) /\ three \in Seq(Nat) /\ sig \in Seq(Nat)
        /\ Len(h) = 3 /\ Len(three) = 3
    BY ONLY <1>1, <1>2, <1>6
  <2>2. SixAndText(t, h, three, sig)
    BY ONLY <1>7, <1>10, <2>1, ThreeThreeText, Zenon
  <2> QED
    BY ONLY <2>2 DEF SixAndText
<1>12. OnWire(p, b, t)
  <2>1. ObjectFields(b) /\ t \in Seq(Nat)
    BY <1>1, <1>11 DEF ObjectFields
  <2> QED
    BY <1>9, <2>1, ObjectOnWire, Zenon
<1>13. /\ p \in Seq(Nat) /\ Len(p) = 11 + Len(sig)
       /\ p[1] = b.nonce /\ p[2] = b.expires[1] /\ p[3] = b.objectType
       /\ p[4] = b.version /\ p[5] = b.stream
  BY ONLY <1>2, <1>11, <1>12 DEF OnWire
<1>14. /\ p[6] = t[1] /\ p[7] = t[2] /\ p[8] = t[3]
       /\ p[9] = t[4] /\ p[10] = t[5] /\ p[11] = t[6]
  <2>1. \A i \in 1..6 : i \in 1..Len(t)
    BY ONLY <1>2, <1>11
  <2>2. \A i \in 1..6 : p[5 + i] = t[i]
    BY ONLY <1>12, <2>1 DEF OnWire
  <2>3. /\ p[5 + 1] = t[1] /\ p[5 + 2] = t[2] /\ p[5 + 3] = t[3]
        /\ p[5 + 4] = t[4] /\ p[5 + 5] = t[5] /\ p[5 + 6] = t[6]
    BY ONLY <2>2
  <2> QED
    BY ONLY <2>3
<1>15. \A i \in 1..Len(sig) : p[11 + i] = sig[i]
  <2> SUFFICES ASSUME NEW i \in 1..Len(sig)
               PROVE  p[11 + i] = sig[i]
    OBVIOUS
  <2>1. 6 + i \in 1..Len(t) /\ 5 + (6 + i) = 11 + i
    BY ONLY <1>2, <1>11
  <2>2. p[5 + (6 + i)] = t[6 + i]
    BY ONLY <1>12, <2>1 DEF OnWire
  <2> QED
    BY ONLY <1>11, <2>1, <2>2
<1>16. /\ Len(p) >= 5 /\ Len(p) >= 8 /\ Len(p) \in Nat
       /\ ~(Len(p) < 9) /\ ~(Len(p) < 11)
       /\ VarInt(p, 9) = p[9] /\ VarInt(p, 10) = p[10]
  BY ONLY <1>2, <1>13 DEF VarInt, Field
<1>17. ~Huge(p, 11) /\ ErrIfShort(p, 11 + p[11]) = "nil"
  <2>1. /\ ~(Len(p) > MaxMessagePayload) /\ MaxMessagePayload <= MaxAlloc
        /\ MaxMessagePayload \in Nat /\ MaxAlloc \in Nat
    BY WireAssumption, CodecAssumption DEF WireAssumption, CodecAssumption, p
  <2>2. p[11] = Len(sig)
    BY ONLY <1>2, <1>11, <1>14
  <2> QED
    BY ONLY <1>2, <1>13, <2>1, <2>2 DEF Huge, ErrIfShort
<1>18. [i \in 1..p[11] |-> VarInt(p, 11 + i)] = sig
  <2>1. p[11] = Len(sig)
    BY ONLY <1>2, <1>11, <1>14
  <2>2. ASSUME NEW i \in 1..Len(sig)
        PROVE  VarInt(p, 11 + i) = sig[i]
    <3>1. 11 + i <= Len(p)
      BY ONLY <1>2, <1>13
    <3> QED
      BY <1>15, <3>1 DEF VarInt, Field
  <2>3. sig = [i \in 1..Len(sig) |-> sig[i]]
    BY ONLY <1>1
  <2> QED
    BY ONLY <2>1, <2>2, <2>3
<1>19. DecodeObject(e, p, ObjectTypePubKey) = [msg |-> m, err |-> "nil"]
  BY <1>1, <1>13, <1>16, ObjectDecoded, Zenon
<1>20. PubKeyHeaded(m, b)
  BY <1>13, PubKeyHead, Zenon
<1> HIDE DEF e, m
<1>21. ~(m.version >= EncryptedPubKeyVersion) /\ m.version = ExtendedPubKeyVersion
  BY <1>20 DEF PubKeyHeaded, EncryptedPubKeyVersion, ExtendedPubKeyVersion
<1>22. /\ PubKeyShape(keys) /\ keys.behavior = b.behavior
       /\ keys.signingKey = b.signingKey /\ keys.encryptKey = b.encryptKey
       /\ keys.nonce = b.nonce /\ keys.expires = <<b.expires[1], 0>>
       /\ keys.objectType = b.objectType /\ keys.version = b.version
       /\ keys.stream = b.stream
       /\ keys.tag = <<>> /\ keys.encrypted = <<>>
  <2>1. p[6] = b.behavior /\ <<p[7]>> = b.signingKey /\ <<p[8]>> = b.encryptKey
    BY ONLY <1>5, <1>6, <1>11, <1>14
  <2> QED
    BY <1>16, <1>20, <2>1, PubKeyKeyed
<1>23. DecodePubKey(e, p) = [msg |-> new, err |-> "nil"]
  <2> DEFINE d == DecodeObject(e, p, ObjectTypePubKey)
  <2>1. d.err = "nil" /\ d.msg = m
    BY <1>19
  <2> HIDE DEF d
  <2>2. DecodePubKey(e, p)
          = [msg |-> [WithKeys(d.msg, p) EXCEPT
                        !.nonceTrials = VarInt(p, 9),
                        !.extraBytes  = VarInt(p, 10),
                        !.signature   = [i \in 1..p[11] |-> VarInt(p, 11 + i)]],
             err |-> ErrIfShort(p, 11 + p[11])]
    BY <1>16, <1>17, <1>21, <2>1 DEF DecodePubKey, d
  <2>3. VarInt(p, 9) = b.nonceTrials /\ VarInt(p, 10) = b.extraBytes
    BY ONLY <1>2, <1>11, <1>14, <1>16
  <2> HIDE DEF keys
  <2>4. DecodePubKey(e, p)
          = [msg |-> [keys EXCEPT !.nonceTrials = b.nonceTrials,
                                  !.extraBytes = b.extraBytes,
                                  !.signature = sig],
             err |-> "nil"]
    BY ONLY <1>17, <1>18, <2>1, <2>2, <2>3 DEF keys
  <2> QED
    BY <2>4
<1> HIDE DEF keys
<1>24. /\ PubKeyShape(new) /\ new.nonceTrials = b.nonceTrials
       /\ new.extraBytes = b.extraBytes /\ new.signature = b.signature
       /\ new.nonce = keys.nonce /\ new.expires = keys.expires
       /\ new.objectType = keys.objectType /\ new.version = keys.version
       /\ new.stream = keys.stream /\ new.behavior = keys.behavior
       /\ new.signingKey = keys.signingKey
       /\ new.encryptKey = keys.encryptKey
       /\ new.tag = keys.tag /\ new.encrypted = keys.encrypted
  <2>1. new = [keys EXCEPT !.nonceTrials = b.nonceTrials,
                           !.extraBytes = b.extraBytes,
                           !.signature = b.signature]
    BY ONLY DEF sig
  <2>2. PubKeyShape(keys)
    BY ONLY <1>22
  <2> HIDE DEF new
  <2> QED
    BY ONLY <2>1, <2>2 DEF PubKeyShape, PubKeyFields
<1>25. /\ PubKeyShape(r) /\ r.behavior = b.behavior
       /\ r.signingKey = b.signingKey /\ r.encryptKey = b.encryptKey
       /\ r.nonce = b.nonce /\ r.expires = <<b.expires[1], 0>>
       /\ r.objectType = b.objectType /\ r.version = b.version
       /\ r.stream = b.stream /\ r.nonceTrials = b.nonceTrials
       /\ r.extraBytes = b.extraBytes /\ r.signature = b.signature
       /\ r.tag = <<>> /\ r.encrypted = <<>>
  <2>1. ~(b.version >= 4)
    OBVIOUS
  <2> QED
    BY <2>1, PubKeySeenFields
<1> HIDE DEF new, r
<1>26. new = r
  BY ONLY <1>22, <1>24, <1>25, PubKeySame
<1> QED
  BY <1>1, <1>13, <1>16, <1>23, <1>26 DEF p, e, r
=============================================================================
