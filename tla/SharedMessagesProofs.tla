------------------------ MODULE SharedMessagesProofs -------------------------
(***************************************************************************)
(* Theorems about messages that share memory with their program: for all   *)
(* payloads and every number of objects, a message that was decoded is its *)
(* own, Decode writes to new objects, and no length changes under a        *)
(* message.                                                                *)
(***************************************************************************)
EXTENDS SharedMessages, TLAPS

WF == INSTANCE WellFoundedInduction

LOCAL INSTANCE SequencesExt

-----------------------------------------------------------------------------
(* Sequences of pairs *)

(* A set of natural numbers has a least member.                            *)
LEMMA LeastMember ==
  ASSUME NEW T \in SUBSET Nat, T # {}
  PROVE  \E x \in T : \A y \in T : x <= y
<1> DEFINE R == {ss \in Nat \X Nat : ss[1] < ss[2]}
<1>1. WF!IsWellFoundedOn(R, Nat)
  BY WF!NatLessThanWellFounded DEF WF!OpToRel
<1>2. \A y, x \in Nat : y < x => <<y, x>> \in R
  OBVIOUS
<1> HIDE DEF R
<1>3. PICK x \in T : \A y \in T : ~ (<<y, x>> \in R)
  BY <1>1, WF!WFMin
<1>4. ASSUME NEW y \in T
      PROVE  x <= y
  <2>1. x \in Nat /\ y \in Nat
    BY <1>3
  <2>2. ~ (y < x)
    BY <1>2, <1>3, <2>1, Zenon
  <2> QED
    BY <2>1, <2>2
<1> QED
  BY <1>4

(* Two sequences with the same cells. *)
LEMMA SameCells ==
  ASSUME NEW s \in Seq(Nat), NEW t \in Seq(Nat), Len(s) = Len(t),
         \A i \in 1..Len(s) : s[i] = t[i]
  PROVE  s = t
  OBVIOUS

(* A sequence that is made of two others. *)
Joins(u, s, t) ==
  /\ u \in Seq(Nat) /\ Len(u) = Len(s) + Len(t)
  /\ \A i \in 1..Len(s) : u[i] = s[i]
  /\ \A i \in 1..Len(t) : u[Len(s) + i] = t[i]

LEMMA Concat ==
  ASSUME NEW s \in Seq(Nat), NEW t \in Seq(Nat)
  PROVE  Joins(s \o t, s, t)
  BY DEF Joins

LEMMA JoinIs ==
  ASSUME NEW s \in Seq(Nat), NEW t \in Seq(Nat), NEW u, Joins(u, s, t)
  PROVE  u = s \o t
<1>1. Joins(s \o t, s, t)
  BY Concat
<1>2. /\ u \in Seq(Nat) /\ s \o t \in Seq(Nat) /\ Len(u) = Len(s \o t)
      /\ Len(s) \in Nat /\ Len(t) \in Nat /\ Len(u) = Len(s) + Len(t)
  BY <1>1 DEF Joins
<1>3. ASSUME NEW k \in 1..Len(u)
      PROVE  u[k] = (s \o t)[k]
  <2>1. CASE k <= Len(s)
    <3>1. k \in 1..Len(s)
      BY <1>2, <2>1
    <3> QED
      BY <1>1, <3>1 DEF Joins
  <2>2. CASE ~(k <= Len(s))
    <3>1. k - Len(s) \in 1..Len(t) /\ k = Len(s) + (k - Len(s))
      BY <1>2, <2>2
    <3>2. PICK i \in 1..Len(t) : k = Len(s) + i
      BY ONLY <3>1
    <3> QED
      BY <1>1, <3>2 DEF Joins
  <2> QED
    BY <2>1, <2>2
<1> QED
  BY ONLY <1>2, <1>3, SameCells

(* The cells of the first i pairs, one behind another. *)
Flat(s, i) == [k \in 1..(2 * i) |-> IF k % 2 = 1 THEN s[(k + 1) \div 2][1]
                                                 ELSE s[k \div 2][2]]

Pairs(n) == {s \in [1..n -> Seq(Nat)] : \A i \in 1..n : Len(s[i]) = 2}

LEMMA FlatCells ==
  ASSUME NEW n \in Nat, NEW s \in Pairs(n), NEW i \in Nat, i <= n
  PROVE  /\ Flat(s, i) \in Seq(Nat) /\ Len(Flat(s, i)) = 2 * i
         /\ \A j \in 1..i : /\ Flat(s, i)[2 * j - 1] = s[j][1]
                            /\ Flat(s, i)[2 * j] = s[j][2]
<1>1. \A j \in 1..n : s[j][1] \in Nat /\ s[j][2] \in Nat
  BY DEF Pairs
<1>2. ASSUME NEW k \in 1..(2 * i)
      PROVE  (IF k % 2 = 1 THEN s[(k + 1) \div 2][1] ELSE s[k \div 2][2]) \in Nat
  <2>1. CASE k % 2 = 1
    <3>1. (k + 1) \div 2 \in 1..n
      BY <2>1
    <3> QED
      BY ONLY <1>1, <2>1, <3>1
  <2>2. CASE k % 2 # 1
    <3>1. k \div 2 \in 1..n
      BY <2>2
    <3> QED
      BY ONLY <1>1, <2>2, <3>1
  <2> QED
    BY <2>1, <2>2
<1>3. 2 * i \in Nat
  OBVIOUS
<1>4. Flat(s, i) \in [1..(2 * i) -> Nat]
  BY <1>2 DEF Flat
<1>5. ASSUME NEW j \in 1..i
      PROVE  /\ Flat(s, i)[2 * j - 1] = s[j][1]
             /\ Flat(s, i)[2 * j] = s[j][2]
  <2>1. /\ 2 * j - 1 \in 1..(2 * i) /\ 2 * j \in 1..(2 * i)
        /\ (2 * j - 1) % 2 = 1 /\ ((2 * j - 1) + 1) \div 2 = j
        /\ (2 * j) % 2 = 0 /\ (2 * j) \div 2 = j
    OBVIOUS
  <2> QED
    BY <2>1 DEF Flat
<1>6. Flat(s, i) \in Seq(Nat) /\ Len(Flat(s, i)) = 2 * i
  <2>1. PICK m \in Nat : m = 2 * i
    BY ONLY <1>3
  <2>2. Flat(s, i) \in [1..m -> Nat]
    BY ONLY <1>4, <2>1
  <2>3. Flat(s, i) \in Seq(Nat) /\ Len(Flat(s, i)) = m
    BY ONLY <2>1, <2>2
  <2> QED
    BY ONLY <2>1, <2>3
<1> QED
  BY ONLY <1>5, <1>6

(* Every position is the first or the second of a pair. *)
LEMMA PairOf ==
  ASSUME NEW i \in Nat, NEW k \in 1..(2 * i)
  PROVE  \E j \in 1..i : k = 2 * j - 1 \/ k = 2 * j
<1>1. CASE k % 2 = 1
  <2>1. (k + 1) \div 2 \in 1..i /\ k = 2 * ((k + 1) \div 2) - 1
    BY <1>1
  <2> QED
    BY <2>1
<1>2. CASE k % 2 # 1
  <2>1. k \div 2 \in 1..i /\ k = 2 * (k \div 2)
    BY <1>2
  <2> QED
    BY <2>1
<1> QED
  BY <1>1, <1>2

(* The cells of one pair more. *)
LEMMA FlatStep ==
  ASSUME NEW n \in Nat, NEW s \in Pairs(n), NEW i \in 1..n
  PROVE  /\ i = 1 => Flat(s, i) = s[i]
         /\ i # 1 => Flat(s, i) = Flat(s, i - 1) \o s[i]
<1> DEFINE u == Flat(s, i)
           v == Flat(s, i - 1)
<1>1. s[i] \in Seq(Nat) /\ Len(s[i]) = 2
  BY DEF Pairs
<1>2. /\ i - 1 \in Nat /\ i - 1 <= n /\ i \in Nat /\ i <= n
      /\ i \in 1..i /\ 1 \in 1..2 /\ 2 \in 1..2
      /\ \A j \in 1..(i - 1) : j \in 1..i
  OBVIOUS
<1>3. /\ u \in Seq(Nat) /\ Len(u) = 2 * i
      /\ \A j \in 1..i : u[2 * j - 1] = s[j][1] /\ u[2 * j] = s[j][2]
  BY <1>2, FlatCells
<1>4. /\ v \in Seq(Nat) /\ Len(v) = 2 * (i - 1)
      /\ \A j \in 1..(i - 1) : v[2 * j - 1] = s[j][1] /\ v[2 * j] = s[j][2]
  BY <1>2, FlatCells
<1> HIDE DEF u, v
<1>5. ASSUME i = 1
      PROVE  u = s[i]
  <2>1. u[1] = s[i][1] /\ u[2] = s[i][2] /\ Len(u) = 2
    <3>1. 2 * i - 1 = 1 /\ 2 * i = 2
      BY <1>5
    <3> QED
      BY ONLY <1>2, <1>3, <3>1
  <2>2. \A k \in 1..2 : u[k] = s[i][k]
    <3>1. \A k \in 1..2 : k = 1 \/ k = 2
      OBVIOUS
    <3> QED
      BY ONLY <2>1, <3>1
  <2> QED
    BY ONLY <1>1, <1>3, <2>1, <2>2, SameCells
<1>6. \A k \in 1..Len(v) : u[k] = v[k]
  <2> SUFFICES ASSUME NEW k \in 1..Len(v)
               PROVE  u[k] = v[k]
    OBVIOUS
  <2>1. k \in 1..(2 * (i - 1))
    BY <1>4
  <2>2. PICK j \in 1..(i - 1) : k = 2 * j - 1 \/ k = 2 * j
    BY ONLY <1>2, <2>1, PairOf
  <2> QED
    BY ONLY <1>2, <1>3, <1>4, <2>2
<1>7. \A k \in 1..Len(s[i]) : u[Len(v) + k] = s[i][k]
  <2> SUFFICES ASSUME NEW k \in 1..2
               PROVE  u[2 * (i - 1) + k] = s[i][k]
    BY <1>1, <1>4
  <2>1. \/ k = 1 /\ 2 * (i - 1) + k = 2 * i - 1
        \/ k = 2 /\ 2 * (i - 1) + k = 2 * i
    OBVIOUS
  <2> QED
    BY ONLY <1>2, <1>3, <2>1
<1>8. Len(u) = Len(v) + Len(s[i])
  BY <1>1, <1>3, <1>4
<1>9. u = v \o s[i]
  <2>1. Joins(u, v, s[i])
    BY ONLY <1>3, <1>6, <1>7, <1>8 DEF Joins
  <2> QED
    BY ONLY <1>1, <1>4, <2>1, JoinIs
<1> QED
  BY ONLY <1>5, <1>9 DEF u, v

(* FlattenSeq puts pairs one behind another.                               *)
LEMMA FlattenIs ==
  ASSUME NEW n \in Nat, NEW s \in Pairs(n)
  PROVE  FlattenSeq(s) = Flat(s, n)
<1> DEFINE Fold(f) == f = [i \in 1..n |-> IF i = 1 THEN s[i] ELSE f[i - 1] \o s[i]]
           flatten == CHOOSE f : Fold(f)
           g == [i \in 1..n |-> Flat(s, i)]
<1>1. s \in Seq(Seq(Nat)) /\ Len(s) = n
  BY DEF Pairs
<1>2. CASE n = 0
  <2>1. s = <<>>
    BY <1>1, <1>2
  <2>2. Flat(s, n) = <<>>
    BY <1>2 DEF Flat
  <2> QED
    BY <1>1, <1>2, <2>1, <2>2 DEF FlattenSeq
<1>3. CASE n # 0
  <2>1. FlattenSeq(s) = flatten[n]
    BY <1>1, <1>3 DEF FlattenSeq
  <2>2. Fold(g)
    <3>1. ASSUME NEW i \in 1..n
          PROVE  Flat(s, i) = IF i = 1 THEN s[i] ELSE g[i - 1] \o s[i]
      <4>1. i # 1 => i - 1 \in 1..n
        OBVIOUS
      <4>2. i # 1 => g[i - 1] = Flat(s, i - 1)
        BY <4>1
      <4> QED
        BY <4>2, FlatStep
    <3> QED
      BY <3>1
  <2>3. Fold(flatten)
    <3> HIDE DEF Fold
    <3> QED
      BY <2>2
  <2> HIDE DEF flatten
  <2>4. ASSUME NEW i \in 1..n, i = 1 \/ flatten[i - 1] = g[i - 1]
        PROVE  flatten[i] = g[i]
    <3>1. flatten[i] = IF i = 1 THEN s[i] ELSE flatten[i - 1] \o s[i]
      BY <2>3
    <3>2. g[i] = IF i = 1 THEN s[i] ELSE g[i - 1] \o s[i]
      BY <2>2
    <3> QED
      BY <2>4, <3>1, <3>2
  <2>5. flatten[n] = g[n]
    <3> DEFINE T == {i \in 1..n : flatten[i] # g[i]}
    <3>1. CASE T = {}
      BY <1>3, <3>1
    <3>2. CASE T # {}
      <4>1. T \in SUBSET Nat
        OBVIOUS
      <4>2. PICK x \in T : \A y \in T : x <= y
        <5> HIDE DEF T
        <5> QED
          BY <3>2, <4>1, LeastMember
      <4>3. x \in 1..n /\ flatten[x] # g[x]
        BY <4>2
      <4>4. x = 1 \/ x - 1 \in 1..n
        BY <4>3
      <4>5. x = 1 \/ flatten[x - 1] = g[x - 1]
        <5>1. CASE x - 1 \in T
          BY <4>2, <4>3, <5>1
        <5>2. CASE x - 1 \notin T
          BY <4>4, <5>2
        <5> QED
          BY <5>1, <5>2
      <4> QED
        BY <2>4, <4>3, <4>5
    <3> QED
      BY <3>1, <3>2
  <2>6. g[n] = Flat(s, n)
    BY <1>3
  <2> QED
    BY <2>1, <2>5, <2>6
<1> QED
  BY <1>2, <1>3
-----------------------------------------------------------------------------
(* The objects on a heap, and what messages are encoded to from them *)

Object == [bytes : Nat] \cup [streams : Seq(Nat)] \cup [ip : Nat, port : Nat]

IsBytes(h, o)   == o \in DOMAIN h /\ h[o] \in [bytes : Nat]
IsStreams(h, o) == o \in DOMAIN h /\ h[o] \in [streams : Seq(Nat)]
IsIP(h, ip)     == ip = Nil \/ IsBytes(h, ip)
IsAddress(h, o) ==
  o \in DOMAIN h /\ h[o] \in [ip : Nat, port : Nat] /\ IsIP(h, h[o].ip)

(* The objects of the program, and those of each message, have their types. *)
HeapTyped(h) ==
  /\ h \in Seq(Object)
  /\ IsBytes(h, IP) /\ IsBytes(h, Key) /\ IsStreams(h, Numbers) /\ IsAddress(h, Peer)

AddrTyped(h, list) ==
  list \in Seq(Nat) /\ \A i \in 1..Len(list) : IsAddress(h, list[i])

VersionTyped(h, v) ==
  /\ v \in [ip : Nat, port : Nat, streams : Nat]
  /\ IsIP(h, v.ip) /\ IsStreams(h, v.streams)

InvTyped(h, list) ==
  list \in Seq(Nat) /\ \A i \in 1..Len(list) : IsBytes(h, list[i])

(* Encode, of a heap and a message on it. *)
EncodedAddress(h, na) ==
  IF na.ip = Nil THEN <<ZeroCell, na.port>> ELSE <<h[na.ip].bytes, na.port>>

EncodedAddr(h, list) ==
  <<Len(list)>> \o FlattenSeq([i \in DOMAIN list |-> EncodedAddress(h, h[list[i]])])

EncodedVersion(h, v) ==
  LET numbers == h[v.streams].streams
  IN  EncodedAddress(h, v) \o <<Len(numbers)>> \o numbers

EncodedKey(h, t) == <<h[t].bytes>>

EncodedInv(h, list) ==
  <<Len(list)>> \o [i \in DOMAIN list |-> h[list[i]].bytes]

(* The objects that a message is encoded from are in K. *)
AddrIn(h, list, K) ==
  \A i \in 1..Len(list) : list[i] \in K /\ h[list[i]].ip \in K \cup {Nil}
VersionIn(v, K) == v.ip \in K \cup {Nil} /\ v.streams \in K
InvIn(list, K) == \A i \in 1..Len(list) : list[i] \in K

LEMMA EncodeIs ==
  /\ Encode("addr") = EncodedAddr(heap, addrList)
  /\ Encode("version") = EncodedVersion(heap, version)
  /\ Encode("getpubkey") = EncodedKey(heap, tag)
  /\ Encode("inv") = EncodedInv(heap, invList)
  BY DEF Encode, writeNetAddress, EncodedAddress, EncodedAddr, EncodedVersion,
         EncodedKey, EncodedInv

LEMMA EncodeIsNext ==
  /\ Encode("addr")' = EncodedAddr(heap', addrList')
  /\ Encode("version")' = EncodedVersion(heap', version')
  /\ Encode("getpubkey")' = EncodedKey(heap', tag')
  /\ Encode("inv")' = EncodedInv(heap', invList')
  BY DEF Encode, writeNetAddress, EncodedAddress, EncodedAddr, EncodedVersion,
         EncodedKey, EncodedInv

(* An address is a pair of cells. *)
LEMMA EncodedPair ==
  ASSUME NEW h, NEW na, na.port \in Nat, IsIP(h, na.ip)
  PROVE  /\ EncodedAddress(h, na) \in Seq(Nat) /\ Len(EncodedAddress(h, na)) = 2
         /\ EncodedAddress(h, na)[1] = IF na.ip = Nil THEN ZeroCell ELSE h[na.ip].bytes
         /\ EncodedAddress(h, na)[2] = na.port
<1>1. na.ip # Nil => h[na.ip].bytes \in Nat
  BY DEF IsIP, IsBytes
<1>2. ZeroCell \in Nat
  BY DEF ZeroCell
<1> QED
  BY <1>1, <1>2 DEF EncodedAddress

(* The cells of a list of addresses. *)
AddrCells(q, h, list) ==
  /\ q \in Seq(Nat) /\ Len(q) = 1 + 2 * Len(list) /\ q[1] = Len(list)
  /\ \A j \in 1..Len(list) : /\ q[2 * j] = EncodedAddress(h, h[list[j]])[1]
                             /\ q[2 * j + 1] = EncodedAddress(h, h[list[j]])[2]

LEMMA AddrEncoded ==
  ASSUME NEW h, NEW list, AddrTyped(h, list)
  PROVE  AddrCells(EncodedAddr(h, list), h, list)
<1> DEFINE n == Len(list)
           s == [i \in DOMAIN list |-> EncodedAddress(h, h[list[i]])]
           c == <<n>>
           t == Flat(s, n)
<1>1. n \in Nat /\ DOMAIN list = 1..n
  BY DEF AddrTyped
<1>2. s \in Pairs(n)
  <2>1. ASSUME NEW i \in 1..n
        PROVE  /\ EncodedAddress(h, h[list[i]]) \in Seq(Nat)
               /\ Len(EncodedAddress(h, h[list[i]])) = 2
    <3>1. h[list[i]].port \in Nat /\ IsIP(h, h[list[i]].ip)
      BY DEF AddrTyped, IsAddress
    <3> QED
      BY ONLY <3>1, EncodedPair
  <2> QED
    BY <1>1, <2>1 DEF Pairs
<1>3. \A i \in 1..n : s[i] = EncodedAddress(h, h[list[i]])
  BY <1>1
<1> HIDE DEF s
<1>4. EncodedAddr(h, list) = c \o t
  <2>1. FlattenSeq(s) = t
    BY <1>1, <1>2, FlattenIs
  <2> QED
    BY <2>1 DEF EncodedAddr, s
<1>5. /\ t \in Seq(Nat) /\ Len(t) = 2 * n
      /\ \A j \in 1..n : t[2 * j - 1] = s[j][1] /\ t[2 * j] = s[j][2]
  BY <1>1, <1>2, FlatCells
<1>6. c \in Seq(Nat) /\ Len(c) = 1 /\ c[1] = n
  BY <1>1
<1> HIDE DEF c, t
<1>7. Joins(c \o t, c, t)
  BY ONLY <1>5, <1>6, Concat
<1>8. /\ c \o t \in Seq(Nat) /\ Len(c \o t) = 1 + 2 * n /\ (c \o t)[1] = n
      /\ \A k \in 1..(2 * n) : (c \o t)[1 + k] = t[k]
  <2>1. 1 \in 1..1
    OBVIOUS
  <2> QED
    BY ONLY <1>5, <1>6, <1>7, <2>1 DEF Joins
<1>9. ASSUME NEW j \in 1..n
      PROVE  (c \o t)[2 * j] = s[j][1] /\ (c \o t)[2 * j + 1] = s[j][2]
  <2>1. /\ 2 * j - 1 \in 1..(2 * n) /\ 1 + (2 * j - 1) = 2 * j
        /\ 2 * j \in 1..(2 * n) /\ 1 + 2 * j = 2 * j + 1
    BY <1>1
  <2> QED
    BY ONLY <1>5, <1>8, <2>1
<1> QED
  BY ONLY <1>3, <1>4, <1>8, <1>9 DEF n, AddrCells

(* The cells of an address and of a list of numbers behind it. *)
VersionCells(p, address, numbers) ==
  /\ p \in Seq(Nat) /\ Len(p) = 3 + Len(numbers)
  /\ p[1] = address[1] /\ p[2] = address[2] /\ p[3] = Len(numbers)
  /\ \A i \in 1..Len(numbers) : p[3 + i] = numbers[i]

LEMMA VersionEncoded ==
  ASSUME NEW h, NEW v, VersionTyped(h, v), NEW numbers, numbers = h[v.streams].streams,
         NEW p, VersionCells(p, EncodedAddress(h, v), numbers)
  PROVE  EncodedVersion(h, v) = p
<1> DEFINE a == EncodedAddress(h, v)
           c == <<Len(numbers)>>
           ac == a \o c
<1>1. numbers \in Seq(Nat) /\ Len(numbers) \in Nat
  BY DEF VersionTyped, IsStreams
<1>2. a \in Seq(Nat) /\ Len(a) = 2
  BY EncodedPair DEF VersionTyped
<1>3. c \in Seq(Nat) /\ Len(c) = 1 /\ c[1] = Len(numbers)
  BY <1>1
<1>4. EncodedVersion(h, v) = ac \o numbers
  BY DEF EncodedVersion
<1>5. /\ p \in Seq(Nat) /\ Len(p) = 3 + Len(numbers)
      /\ p[1] = a[1] /\ p[2] = a[2] /\ p[3] = Len(numbers)
      /\ \A i \in 1..Len(numbers) : p[3 + i] = numbers[i]
  BY DEF VersionCells
<1> HIDE DEF a, c
<1>6. Joins(ac, a, c)
  BY ONLY <1>2, <1>3, Concat
<1>7. /\ ac \in Seq(Nat) /\ Len(ac) = 3
      /\ ac[1] = a[1] /\ ac[2] = a[2] /\ ac[3] = c[1]
  <2>1. 1 \in 1..2 /\ 2 \in 1..2 /\ 1 \in 1..1 /\ 2 + 1 = 3
    OBVIOUS
  <2> QED
    BY ONLY <1>2, <1>3, <1>6, <2>1 DEF Joins
<1> HIDE DEF ac
<1>8. Joins(p, ac, numbers)
  <2>1. \A k \in 1..3 : p[k] = ac[k]
    <3>1. \A k \in 1..3 : k = 1 \/ k = 2 \/ k = 3
      OBVIOUS
    <3> QED
      BY ONLY <1>3, <1>5, <1>7, <3>1
  <2> QED
    BY ONLY <1>5, <1>7, <2>1 DEF Joins
<1> QED
  BY <1>1, <1>4, <1>7, <1>8, JoinIs

LEMMA InvEncoded ==
  ASSUME NEW h, NEW list, InvTyped(h, list)
  PROVE  /\ EncodedInv(h, list) \in Seq(Nat)
         /\ Len(EncodedInv(h, list)) = 1 + Len(list)
         /\ EncodedInv(h, list)[1] = Len(list)
         /\ \A j \in 1..Len(list) : EncodedInv(h, list)[1 + j] = h[list[j]].bytes
<1> DEFINE n == Len(list)
           c == <<n>>
           t == [i \in DOMAIN list |-> h[list[i]].bytes]
<1>1. n \in Nat /\ DOMAIN list = 1..n
  BY DEF InvTyped
<1>2. t \in Seq(Nat) /\ Len(t) = n
  <2>1. \A i \in 1..n : h[list[i]].bytes \in Nat
    BY DEF InvTyped, IsBytes
  <2>2. t \in [1..n -> Nat]
    BY <1>1, <2>1
  <2> HIDE DEF t
  <2> QED
    BY <1>1, <2>2
<1>3. \A i \in 1..n : t[i] = h[list[i]].bytes
  BY <1>1
<1>4. c \in Seq(Nat) /\ Len(c) = 1 /\ c[1] = n
  BY <1>1
<1>5. EncodedInv(h, list) = c \o t
  BY DEF EncodedInv
<1> HIDE DEF c, t
<1>6. Joins(c \o t, c, t)
  BY ONLY <1>2, <1>4, Concat
<1>7. 1 \in 1..1
  OBVIOUS
<1> QED
  BY ONLY <1>2, <1>3, <1>4, <1>5, <1>6, <1>7 DEF Joins, n
-----------------------------------------------------------------------------
(* What a change of the heap keeps *)

(* Every object of a type is still one. *)
SameTypes(h, g) ==
  \A o \in DOMAIN h : /\ IsBytes(h, o) => IsBytes(g, o)
                      /\ IsStreams(h, o) => IsStreams(g, o)
                      /\ IsAddress(h, o) => IsAddress(g, o)

LEMMA TypesKept ==
  ASSUME NEW h, NEW g, SameTypes(h, g)
  PROVE  /\ \A o : IsBytes(h, o) => IsBytes(g, o)
         /\ \A list : AddrTyped(h, list) => AddrTyped(g, list)
         /\ \A v : VersionTyped(h, v) => VersionTyped(g, v)
         /\ \A list : InvTyped(h, list) => InvTyped(g, list)
         /\ HeapTyped(h) /\ g \in Seq(Object) => HeapTyped(g)
<1>1. \A o : /\ IsBytes(h, o) => IsBytes(g, o)
             /\ IsStreams(h, o) => IsStreams(g, o)
             /\ IsAddress(h, o) => IsAddress(g, o)
  BY DEF SameTypes, IsBytes, IsStreams, IsAddress
<1>2. \A ip : IsIP(h, ip) => IsIP(g, ip)
  BY <1>1 DEF IsIP
<1>3. \A list : AddrTyped(h, list) => AddrTyped(g, list)
  BY ONLY <1>1 DEF AddrTyped
<1>4. \A v : VersionTyped(h, v) => VersionTyped(g, v)
  BY ONLY <1>1, <1>2 DEF VersionTyped
<1>5. \A list : InvTyped(h, list) => InvTyped(g, list)
  BY ONLY <1>1 DEF InvTyped
<1>6. HeapTyped(h) /\ g \in Seq(Object) => HeapTyped(g)
  BY ONLY <1>1 DEF HeapTyped
<1> QED
  BY ONLY <1>1, <1>3, <1>4, <1>5, <1>6

(* What a message is encoded to depends on the objects it reaches.         *)
LEMMA EncodedKept ==
  ASSUME NEW h, NEW g, NEW K, \A o \in K : g[o] = h[o]
  PROVE  /\ \A list \in Seq(Nat) : AddrIn(h, list, K) =>
              /\ EncodedAddr(g, list) = EncodedAddr(h, list)
              /\ \A L : AddrIn(h, list, L) => AddrIn(g, list, L)
         /\ \A v : VersionIn(v, K) => EncodedVersion(g, v) = EncodedVersion(h, v)
         /\ \A t \in K : EncodedKey(g, t) = EncodedKey(h, t)
         /\ \A list \in Seq(Nat) : InvIn(list, K) =>
              EncodedInv(g, list) = EncodedInv(h, list)
<1>1. \A na : na.ip \in K \cup {Nil} => EncodedAddress(g, na) = EncodedAddress(h, na)
  BY DEF EncodedAddress
<1>2. ASSUME NEW list \in Seq(Nat), AddrIn(h, list, K)
      PROVE  /\ EncodedAddr(g, list) = EncodedAddr(h, list)
             /\ \A L : AddrIn(h, list, L) => AddrIn(g, list, L)
  <2>1. DOMAIN list = 1..Len(list)
    OBVIOUS
  <2>2. \A i \in 1..Len(list) : /\ g[list[i]] = h[list[i]]
                                /\ h[list[i]].ip \in K \cup {Nil}
    BY <1>2 DEF AddrIn
  <2>3. [i \in DOMAIN list |-> EncodedAddress(g, g[list[i]])] =
        [i \in DOMAIN list |-> EncodedAddress(h, h[list[i]])]
    BY <1>1, <2>1, <2>2
  <2>4. EncodedAddr(g, list) = EncodedAddr(h, list)
    BY ONLY <2>3 DEF EncodedAddr
  <2> QED
    BY ONLY <2>2, <2>4 DEF AddrIn
<1>3. ASSUME NEW v, VersionIn(v, K)
      PROVE  EncodedVersion(g, v) = EncodedVersion(h, v)
  <2>1. g[v.streams] = h[v.streams] /\ EncodedAddress(g, v) = EncodedAddress(h, v)
    BY <1>1, <1>3 DEF VersionIn
  <2> QED
    BY ONLY <2>1 DEF EncodedVersion
<1>4. \A t \in K : EncodedKey(g, t) = EncodedKey(h, t)
  BY DEF EncodedKey
<1>5. ASSUME NEW list \in Seq(Nat), InvIn(list, K)
      PROVE  EncodedInv(g, list) = EncodedInv(h, list)
  <2>1. DOMAIN list = 1..Len(list)
    OBVIOUS
  <2>2. \A i \in DOMAIN list : g[list[i]].bytes = h[list[i]].bytes
    BY <1>5, <2>1 DEF InvIn
  <2>3. [i \in DOMAIN list |-> g[list[i]].bytes] = [i \in DOMAIN list |-> h[list[i]].bytes]
    BY <2>2
  <2> QED
    BY ONLY <2>3 DEF EncodedInv
<1> QED
  BY <1>2, <1>3, <1>4, <1>5

(* Messages reach objects of the heap only. *)
LEMMA Reached ==
  ASSUME NEW h
  PROVE  /\ \A list : AddrTyped(h, list) => AddrIn(h, list, DOMAIN h)
         /\ \A v : VersionTyped(h, v) => VersionIn(v, DOMAIN h)
         /\ \A t : IsBytes(h, t) => t \in DOMAIN h
         /\ \A list : InvTyped(h, list) => InvIn(list, DOMAIN h)
  BY DEF AddrTyped, AddrIn, IsAddress, IsIP, IsBytes, VersionTyped, VersionIn,
         IsStreams, InvTyped, InvIn

(* New objects come after the old ones. *)
LEMMA Grown ==
  ASSUME NEW h \in Seq(Object), NEW objects \in Seq(Object)
  PROVE  /\ h \o objects \in Seq(Object)
         /\ Len(h \o objects) = Len(h) + Len(objects)
         /\ \A o \in DOMAIN h : /\ o \in DOMAIN (h \o objects)
                                /\ (h \o objects)[o] = h[o]
         /\ \A k \in 1..Len(objects) : /\ Len(h) + k \in DOMAIN (h \o objects)
                                       /\ (h \o objects)[Len(h) + k] = objects[k]
         /\ SameTypes(h, h \o objects)
<1> DEFINE g == h \o objects
<1>1. /\ g \in Seq(Object) /\ Len(g) = Len(h) + Len(objects)
      /\ \A o \in DOMAIN h : o \in DOMAIN g /\ g[o] = h[o]
      /\ \A k \in 1..Len(objects) : /\ Len(h) + k \in DOMAIN g
                                    /\ g[Len(h) + k] = objects[k]
  OBVIOUS
<1> HIDE DEF g
<1>2. SameTypes(h, g)
  BY <1>1 DEF SameTypes, IsBytes, IsStreams, IsAddress, IsIP
<1> QED
  BY ONLY <1>1, <1>2 DEF g

(* The types of objects exclude each other. *)
LEMMA OneType ==
  ASSUME NEW x
  PROVE  /\ ~(x \in [bytes : Nat] /\ x \in [streams : Seq(Nat)])
         /\ ~(x \in [bytes : Nat] /\ x \in [ip : Nat, port : Nat])
         /\ ~(x \in [streams : Seq(Nat)] /\ x \in [ip : Nat, port : Nat])
<1>1. x \in [bytes : Nat] => "bytes" \in DOMAIN x /\ "ip" \notin DOMAIN x
  OBVIOUS
<1>2. x \in [streams : Seq(Nat)] => "bytes" \notin DOMAIN x /\ "ip" \notin DOMAIN x
  OBVIOUS
<1>3. x \in [ip : Nat, port : Nat] => "ip" \in DOMAIN x
  OBVIOUS
<1> QED
  BY ONLY <1>1, <1>2, <1>3

(* The program writes to its objects what they are of the type of: g is h  *)
(* with x written to the program's object o.                               *)
WrittenTo(h, g, o, x) ==
  /\ g = [h EXCEPT ![o] = x]
  /\ \/ o \in {IP, Key} /\ x \in [bytes : Nat]
     \/ o = Numbers /\ x \in [streams : Seq(Nat)]
     \/ o = Peer /\ x \in [ip : {Nil, IP}, port : Nat]

LEMMA Overwritten ==
  ASSUME NEW h, NEW g, NEW o, NEW x, HeapTyped(h), WrittenTo(h, g, o, x)
  PROVE  /\ g \in Seq(Object)
         /\ \A q \in DOMAIN h : q > Peer => g[q] = h[q]
         /\ SameTypes(h, g)
<1>0. /\ g = [h EXCEPT ![o] = x]
      /\ \/ o \in {IP, Key} /\ x \in [bytes : Nat]
         \/ o = Numbers /\ x \in [streams : Seq(Nat)]
         \/ o = Peer /\ x \in [ip : {Nil, IP}, port : Nat]
  BY DEF WrittenTo
<1>1. /\ h \in Seq(Object) /\ o \in DOMAIN h
      /\ x \in Object
      /\ o \in Nat /\ o <= Peer
      /\ Nil \in Nat /\ IP \in Nat
  BY <1>0 DEF HeapTyped, IsBytes, IsStreams, IsAddress, IP, Key, Numbers, Peer, Nil, Object
<1>2. /\ g \in Seq(Object) /\ DOMAIN g = DOMAIN h /\ g[o] = x
      /\ \A q \in DOMAIN h : q # o => g[q] = h[q]
  BY <1>0, <1>1
<1>3. \A q \in DOMAIN h : q > Peer => g[q] = h[q]
  BY <1>1, <1>2 DEF Peer
<1>4. /\ h[o] \in [bytes : Nat] => x \in [bytes : Nat]
      /\ h[o] \in [streams : Seq(Nat)] => x \in [streams : Seq(Nat)]
      /\ h[o] \in [ip : Nat, port : Nat] => x \in [ip : {Nil, IP}, port : Nat]
  <2>1. CASE o \in {IP, Key} /\ x \in [bytes : Nat]
    <3>1. h[o] \in [bytes : Nat]
      BY <2>1 DEF HeapTyped, IsBytes
    <3> QED
      BY ONLY <2>1, <3>1, OneType
  <2>2. CASE o = Numbers /\ x \in [streams : Seq(Nat)]
    <3>1. h[o] \in [streams : Seq(Nat)]
      BY <2>2 DEF HeapTyped, IsStreams
    <3> QED
      BY ONLY <2>2, <3>1, OneType
  <2>3. CASE o = Peer /\ x \in [ip : {Nil, IP}, port : Nat]
    <3>1. h[o] \in [ip : Nat, port : Nat]
      BY <2>3 DEF HeapTyped, IsAddress
    <3> QED
      BY ONLY <2>3, <3>1, OneType
  <2> QED
    BY <1>0, <2>1, <2>2, <2>3
<1>5. \A q \in DOMAIN h : IsBytes(h, q) => IsBytes(g, q)
  BY ONLY <1>2, <1>4 DEF IsBytes
<1>6. \A q \in DOMAIN h : IsStreams(h, q) => IsStreams(g, q)
  BY ONLY <1>2, <1>4 DEF IsStreams
<1>7. IsBytes(g, IP) /\ \A ip : IsIP(h, ip) => IsIP(g, ip)
  <2>1. IsBytes(h, IP) /\ IP \in DOMAIN h
    BY DEF HeapTyped, IsBytes
  <2>2. \A q : IsBytes(h, q) => q \in DOMAIN h
    BY DEF IsBytes
  <2> QED
    BY ONLY <1>5, <2>1, <2>2 DEF IsIP
<1>8. ASSUME NEW q \in DOMAIN h, IsAddress(h, q)
      PROVE  IsAddress(g, q)
  <2>1. CASE q = o
    <3>1. x \in [ip : {Nil, IP}, port : Nat]
      BY <1>4, <1>8, <2>1 DEF IsAddress
    <3>2. x.ip \in {Nil, IP} /\ x \in [ip : Nat, port : Nat]
      BY ONLY <1>1, <3>1
    <3>3. IsIP(g, x.ip)
      BY ONLY <1>7, <3>2 DEF IsIP
    <3> QED
      BY <1>2, <2>1, <3>2, <3>3 DEF IsAddress
  <2>2. CASE q # o
    BY <1>2, <1>7, <1>8, <2>2 DEF IsAddress
  <2> QED
    BY <2>1, <2>2
<1>9. SameTypes(h, g)
  BY ONLY <1>5, <1>6, <1>8 DEF SameTypes
<1> QED
  BY ONLY <1>2, <1>3, <1>9
-----------------------------------------------------------------------------
(* The invariant *)

(* The objects that are not the program's. *)
Own == {o \in Nat : o > Peer}

(* A message with the types of its objects; and one whose payload e is     *)
(* known is encoded to it, from objects that are its own.                  *)
AddrInv(h, list, e) ==
  /\ AddrTyped(h, list)
  /\ e # <<>> => e = <<EncodedAddr(h, list)>> /\ AddrIn(h, list, Own)

VersionInv(h, v, e) ==
  /\ VersionTyped(h, v)
  /\ e # <<>> => e = <<EncodedVersion(h, v)>> /\ VersionIn(v, Own)

KeyInv(h, t, e) ==
  /\ IsBytes(h, t)
  /\ e # <<>> => e = <<EncodedKey(h, t)>> /\ t \in Own

VectorsInv(h, list, e) ==
  /\ InvTyped(h, list)
  /\ e # <<>> => e = <<EncodedInv(h, list)>> /\ InvIn(list, Own)

HeapInv ==
  /\ HeapTyped(heap) /\ DOMAIN expected = SharedKinds
  /\ AddrInv(heap, addrList, expected["addr"])
  /\ VersionInv(heap, version, expected["version"])
  /\ KeyInv(heap, tag, expected["getpubkey"])
  /\ VectorsInv(heap, invList, expected["inv"])

(* A message keeps what the invariant says of it when its objects that are *)
(* not the program's stay the same, and the others keep their types.       *)
LEMMA MessagesKept ==
  ASSUME NEW h, NEW g, HeapTyped(h), g \in Seq(Object), SameTypes(h, g),
         \A o \in DOMAIN h : o > Peer => g[o] = h[o]
  PROVE  /\ HeapTyped(g)
         /\ \A list, e : AddrInv(h, list, e) => AddrInv(g, list, e)
         /\ \A v, e : VersionInv(h, v, e) => VersionInv(g, v, e)
         /\ \A t, e : KeyInv(h, t, e) => KeyInv(g, t, e)
         /\ \A list, e : VectorsInv(h, list, e) => VectorsInv(g, list, e)
<1> DEFINE K == {o \in DOMAIN h : o > Peer}
<1>1. /\ \A o : IsBytes(h, o) => IsBytes(g, o)
      /\ \A list : AddrTyped(h, list) => AddrTyped(g, list)
      /\ \A v : VersionTyped(h, v) => VersionTyped(g, v)
      /\ \A list : InvTyped(h, list) => InvTyped(g, list)
      /\ HeapTyped(g)
  BY TypesKept
<1>2. \A o \in K : g[o] = h[o]
  OBVIOUS
<1>3. \A o : o \in DOMAIN h /\ o \in Own => o \in K
  BY DEF Own
<1> HIDE DEF K
<1>4. /\ \A list \in Seq(Nat) : AddrIn(h, list, K) =>
           /\ EncodedAddr(g, list) = EncodedAddr(h, list)
           /\ \A L : AddrIn(h, list, L) => AddrIn(g, list, L)
      /\ \A v : VersionIn(v, K) => EncodedVersion(g, v) = EncodedVersion(h, v)
      /\ \A t \in K : EncodedKey(g, t) = EncodedKey(h, t)
      /\ \A list \in Seq(Nat) : InvIn(list, K) => EncodedInv(g, list) = EncodedInv(h, list)
  BY ONLY <1>2, EncodedKept
<1>5. /\ \A list : AddrTyped(h, list) => list \in Seq(Nat) /\ AddrIn(h, list, DOMAIN h)
      /\ \A v : VersionTyped(h, v) => VersionIn(v, DOMAIN h)
      /\ \A t : IsBytes(h, t) => t \in DOMAIN h
      /\ \A list : InvTyped(h, list) => list \in Seq(Nat) /\ InvIn(list, DOMAIN h)
  BY Reached DEF AddrTyped, InvTyped
<1>6. /\ \A list : AddrIn(h, list, DOMAIN h) /\ AddrIn(h, list, Own) => AddrIn(h, list, K)
      /\ \A v : VersionIn(v, DOMAIN h) /\ VersionIn(v, Own) => VersionIn(v, K)
      /\ \A list : InvIn(list, DOMAIN h) /\ InvIn(list, Own) => InvIn(list, K)
  <2>1. \A x : x \in DOMAIN h \cup {Nil} /\ x \in Own \cup {Nil} => x \in K \cup {Nil}
    BY ONLY <1>3
  <2> QED
    BY ONLY <1>3, <2>1 DEF AddrIn, VersionIn, InvIn
<1>7. \A list, e : AddrInv(h, list, e) => AddrInv(g, list, e)
  BY ONLY <1>1, <1>4, <1>5, <1>6 DEF AddrInv
<1>8. \A v, e : VersionInv(h, v, e) => VersionInv(g, v, e)
  BY ONLY <1>1, <1>4, <1>5, <1>6 DEF VersionInv
<1>9. \A t, e : KeyInv(h, t, e) => KeyInv(g, t, e)
  BY ONLY <1>1, <1>3, <1>4, <1>5 DEF KeyInv
<1>10. \A list, e : VectorsInv(h, list, e) => VectorsInv(g, list, e)
  BY ONLY <1>1, <1>4, <1>5, <1>6 DEF VectorsInv
<1> QED
  BY ONLY <1>1, <1>7, <1>8, <1>9, <1>10

(* A message of no addresses or vectors. *)
LEMMA NoElements ==
  ASSUME NEW h
  PROVE  AddrInv(h, <<>>, <<<<0>>>>) /\ VectorsInv(h, <<>>, <<<<0>>>>)
<1>1. <<>> \in Seq(Nat) /\ Len(<<>>) = 0 /\ <<0>> \in Seq(Nat) /\ Len(<<0>>) = 1
  OBVIOUS
<1>2. AddrTyped(h, <<>>) /\ InvTyped(h, <<>>)
  BY <1>1 DEF AddrTyped, InvTyped
<1>3. AddrIn(h, <<>>, Own) /\ InvIn(<<>>, Own)
  BY <1>1 DEF AddrIn, InvIn
<1>4. EncodedAddr(h, <<>>) = <<0>>
  <2>1. PICK list : list = <<>>
    OBVIOUS
  <2>2. AddrTyped(h, list) /\ Len(list) = 0
    BY ONLY <1>1, <1>2, <2>1
  <2>3. /\ EncodedAddr(h, list) \in Seq(Nat)
        /\ Len(EncodedAddr(h, list)) = 1 + 2 * Len(list)
        /\ EncodedAddr(h, list)[1] = Len(list)
    BY ONLY <2>2, AddrEncoded DEF AddrCells
  <2>4. 1 + 2 * 0 = 1 /\ <<0>>[1] = 0 /\ \A i \in 1..1 : i = 1
    OBVIOUS
  <2>5. EncodedAddr(h, list) = <<0>>
    BY ONLY <1>1, <2>2, <2>3, <2>4, SameCells
  <2> QED
    BY ONLY <2>1, <2>5
<1>5. EncodedInv(h, <<>>) = <<0>>
  <2>1. PICK list : list = <<>>
    OBVIOUS
  <2>2. InvTyped(h, list) /\ Len(list) = 0
    BY ONLY <1>1, <1>2, <2>1
  <2>3. /\ EncodedInv(h, list) \in Seq(Nat)
        /\ Len(EncodedInv(h, list)) = 1 + Len(list)
        /\ EncodedInv(h, list)[1] = Len(list)
    BY ONLY <2>2, InvEncoded
  <2>4. 1 + 0 = 1 /\ <<0>>[1] = 0 /\ \A i \in 1..1 : i = 1
    OBVIOUS
  <2>5. EncodedInv(h, list) = <<0>>
    BY ONLY <1>1, <2>2, <2>3, <2>4, SameCells
  <2> QED
    BY ONLY <2>1, <2>5
<1> QED
  BY <1>2, <1>3, <1>4, <1>5 DEF AddrInv, VectorsInv

LEMMA HeapInit == Init => HeapInv
<1> SUFFICES ASSUME Init
             PROVE  HeapInv
  OBVIOUS
<1>1. /\ heap = <<[bytes |-> 1], [bytes |-> 1], [streams |-> <<1>>],
                  [ip |-> 1, port |-> 1]>>
      /\ IP = 1 /\ Key = 2 /\ Numbers = 3 /\ Peer = 4
  BY DEF Init, ProgramObjects, Bytes, Streams, Address, IP, Key, Numbers, Peer
<1>2. heap \in Seq(Object)
  BY <1>1 DEF Object
<1>3. HeapTyped(heap)
  BY <1>1, <1>2 DEF HeapTyped, IsBytes, IsStreams, IsAddress, IsIP
<1>4. /\ DOMAIN expected = SharedKinds
      /\ expected["addr"] = <<<<0>>>> /\ expected["inv"] = <<<<0>>>>
      /\ expected["version"] = <<>> /\ expected["getpubkey"] = <<>>
  BY DEF Init, SharedKinds
<1>5. VersionTyped(heap, version) /\ IsBytes(heap, tag)
  <2>1. version = [ip |-> IP, port |-> 1, streams |-> Numbers] /\ tag = Key
    BY DEF Init
  <2>2. IP \in Nat /\ Numbers \in Nat /\ 1 \in Nat
    BY <1>1
  <2> QED
    BY <1>3, <2>1, <2>2 DEF VersionTyped, HeapTyped, IsIP
<1> QED
  BY <1>3, <1>4, <1>5, NoElements DEF Init, HeapInv, VersionInv, KeyInv

-----------------------------------------------------------------------------
(* The steps of the program *)

LEMMA NewMsgAddrInv ==
  ASSUME HeapInv, NewMsgAddr
  PROVE  HeapInv'
<1>1. /\ heap' = heap /\ addrList' = <<>> /\ version' = version /\ tag' = tag
      /\ invList' = invList /\ expected' = [expected EXCEPT !["addr"] = <<<<0>>>>]
  BY DEF NewMsgAddr, Expects
<1>2. /\ DOMAIN expected' = SharedKinds
      /\ expected'["addr"] = <<<<0>>>>
      /\ \A kind \in {"version", "getpubkey", "inv"} : expected'[kind] = expected[kind]
  BY <1>1 DEF HeapInv, SharedKinds
<1> QED
  BY <1>1, <1>2, NoElements DEF HeapInv

LEMMA AddAddressInv ==
  ASSUME HeapInv, AddAddress
  PROVE  HeapInv'
<1>1. PICK na \in {Peer} \cup ToSet(addrList) : addrList' = Append(addrList, na)
  BY DEF AddAddress
<1>2. /\ heap' = heap /\ version' = version /\ tag' = tag
      /\ invList' = invList /\ expected' = [expected EXCEPT !["addr"] = <<>>]
  BY DEF AddAddress, Forgets
<1>3. /\ DOMAIN expected' = SharedKinds
      /\ expected'["addr"] = <<>>
      /\ \A kind \in {"version", "getpubkey", "inv"} : expected'[kind] = expected[kind]
  BY <1>2 DEF HeapInv, SharedKinds
<1>4. /\ addrList \in Seq(Nat) /\ \A i \in 1..Len(addrList) : IsAddress(heap, addrList[i])
      /\ IsAddress(heap, Peer)
  BY DEF HeapInv, HeapTyped, AddrInv, AddrTyped
<1>5. IsAddress(heap, na) /\ na \in Nat
  BY <1>1, <1>4 DEF ToSet, Peer
<1>6. AddrTyped(heap, addrList')
  BY <1>1, <1>4, <1>5 DEF AddrTyped
<1> QED
  BY <1>2, <1>3, <1>6 DEF HeapInv, AddrInv

LEMMA NewVersionInv ==
  ASSUME HeapInv, NEW me, me.ip \in Nat, me.port \in Nat, IsIP(heap, me.ip),
         NewMsgVersion(me)
  PROVE  HeapInv'
<1>1. /\ heap' = heap /\ addrList' = addrList /\ tag' = tag
      /\ version' = [ip |-> me.ip, port |-> me.port, streams |-> Numbers]
      /\ invList' = invList /\ expected' = [expected EXCEPT !["version"] = <<>>]
  BY DEF NewMsgVersion, Forgets
<1>2. /\ DOMAIN expected' = SharedKinds
      /\ expected'["version"] = <<>>
      /\ \A kind \in {"addr", "getpubkey", "inv"} : expected'[kind] = expected[kind]
  BY <1>1 DEF HeapInv, SharedKinds
<1>3. VersionTyped(heap, version')
  <2>1. IsStreams(heap, Numbers) /\ Numbers \in Nat
    BY DEF HeapInv, HeapTyped, Numbers
  <2> QED
    BY <1>1, <2>1 DEF VersionTyped
<1> QED
  BY <1>1, <1>2, <1>3 DEF HeapInv, VersionInv

LEMMA NewMsgVersionInv ==
  ASSUME HeapInv, NewMsgVersionOf \/ NewMsgVersionFromConn
  PROVE  HeapInv'
<1>1. CASE NewMsgVersionOf
  <2>1. PICK na \in {Peer} \cup ToSet(addrList) : NewMsgVersion(heap[na])
    BY <1>1 DEF NewMsgVersionOf
  <2>2. IsAddress(heap, na)
    BY DEF HeapInv, HeapTyped, AddrInv, AddrTyped, ToSet
  <2>3. heap[na].ip \in Nat /\ heap[na].port \in Nat /\ IsIP(heap, heap[na].ip)
    BY <2>2 DEF IsAddress
  <2> QED
    BY <2>1, <2>3, NewVersionInv
<1>2. CASE NewMsgVersionFromConn
  <2>1. PICK port \in Cells : NewMsgVersion(Address(IP, port))
    BY <1>2 DEF NewMsgVersionFromConn
  <2>2. Address(IP, port).ip = IP /\ Address(IP, port).port = port
    BY DEF Address
  <2>3. IP \in Nat /\ port \in Nat /\ IsIP(heap, IP)
    BY SharedMessagesAssumption DEF SharedMessagesAssumption, IP, IsIP, HeapInv, HeapTyped
  <2> QED
    BY <2>1, <2>2, <2>3, NewVersionInv
<1> QED
  BY <1>1, <1>2

LEMMA NewMsgGetPubKeyInv ==
  ASSUME HeapInv, NewMsgGetPubKey
  PROVE  HeapInv'
<1>1. /\ heap' = heap /\ addrList' = addrList /\ version' = version /\ tag' = Key
      /\ invList' = invList /\ expected' = [expected EXCEPT !["getpubkey"] = <<>>]
  BY DEF NewMsgGetPubKey, Forgets
<1>2. /\ DOMAIN expected' = SharedKinds
      /\ expected'["getpubkey"] = <<>>
      /\ \A kind \in {"addr", "version", "inv"} : expected'[kind] = expected[kind]
  BY <1>1 DEF HeapInv, SharedKinds
<1>3. IsBytes(heap, Key)
  BY DEF HeapInv, HeapTyped
<1> QED
  BY <1>1, <1>2, <1>3 DEF HeapInv, KeyInv
(* What the steps that make new objects have in common. *)
LEMMA GrowthKeeps ==
  ASSUME HeapInv, NEW objects \in Seq(Object), heap' = heap \o objects
  PROVE  /\ Len(heap) \in Nat /\ Len(heap) >= 4
         /\ HeapTyped(heap') /\ Len(heap') = Len(heap) + Len(objects)
         /\ \A o \in DOMAIN ProgramObjects : heap'[o] = heap[o]
         /\ \A k \in 1..Len(objects) : /\ Len(heap) + k \in DOMAIN heap'
                                       /\ heap'[Len(heap) + k] = objects[k]
         /\ \A o \in DOMAIN heap : o \in DOMAIN heap' /\ heap'[o] = heap[o]
         /\ AddrInv(heap', addrList, expected["addr"])
         /\ VersionInv(heap', version, expected["version"])
         /\ KeyInv(heap', tag, expected["getpubkey"])
         /\ VectorsInv(heap', invList, expected["inv"])
         /\ addrList' = addrList => Encode("addr")' = Encode("addr")
         /\ version' = version => Encode("version")' = Encode("version")
         /\ tag' = tag => Encode("getpubkey")' = Encode("getpubkey")
         /\ invList' = invList => Encode("inv")' = Encode("inv")
<1>1. heap \in Seq(Object) /\ HeapTyped(heap) /\ 4 \in DOMAIN heap
  BY DEF HeapInv, HeapTyped, IsAddress, Peer
<1>2. Len(heap) \in Nat /\ Len(heap) >= 4 /\ DOMAIN heap = 1..Len(heap)
  BY <1>1
<1>3. /\ heap' \in Seq(Object) /\ Len(heap') = Len(heap) + Len(objects)
      /\ \A o \in DOMAIN heap : o \in DOMAIN heap' /\ heap'[o] = heap[o]
      /\ \A k \in 1..Len(objects) : /\ Len(heap) + k \in DOMAIN heap'
                                    /\ heap'[Len(heap) + k] = objects[k]
      /\ SameTypes(heap, heap')
  BY <1>1, Grown
<1>4. \A o \in DOMAIN ProgramObjects : heap'[o] = heap[o]
  <2>1. DOMAIN ProgramObjects = 1..4
    BY DEF ProgramObjects
  <2> QED
    BY <1>2, <1>3, <2>1
<1>5. /\ HeapTyped(heap')
      /\ \A list, e : AddrInv(heap, list, e) => AddrInv(heap', list, e)
      /\ \A v, e : VersionInv(heap, v, e) => VersionInv(heap', v, e)
      /\ \A t, e : KeyInv(heap, t, e) => KeyInv(heap', t, e)
      /\ \A list, e : VectorsInv(heap, list, e) => VectorsInv(heap', list, e)
  BY ONLY <1>1, <1>3, MessagesKept
<1>6. /\ AddrTyped(heap, addrList) /\ addrList \in Seq(Nat)
      /\ VersionTyped(heap, version)
      /\ IsBytes(heap, tag) /\ InvTyped(heap, invList) /\ invList \in Seq(Nat)
  BY DEF HeapInv, AddrInv, AddrTyped, VersionInv, KeyInv, VectorsInv, InvTyped
<1>7. /\ AddrIn(heap, addrList, DOMAIN heap) /\ VersionIn(version, DOMAIN heap)
      /\ tag \in DOMAIN heap /\ InvIn(invList, DOMAIN heap)
  BY ONLY <1>6, Reached
<1>8. /\ EncodedAddr(heap', addrList) = EncodedAddr(heap, addrList)
      /\ EncodedVersion(heap', version) = EncodedVersion(heap, version)
      /\ EncodedKey(heap', tag) = EncodedKey(heap, tag)
      /\ EncodedInv(heap', invList) = EncodedInv(heap, invList)
  <2>1. PICK K : K = DOMAIN heap
    OBVIOUS
  <2>2. PICK g : g = heap'
    OBVIOUS
  <2>3. PICK h : h = heap
    OBVIOUS
  <2>4. \A o \in K : g[o] = h[o]
    BY ONLY <1>3, <2>1, <2>2, <2>3
  <2>5. /\ \A list \in Seq(Nat) : AddrIn(h, list, K) => EncodedAddr(g, list) = EncodedAddr(h, list)
        /\ \A v : VersionIn(v, K) => EncodedVersion(g, v) = EncodedVersion(h, v)
        /\ \A t \in K : EncodedKey(g, t) = EncodedKey(h, t)
        /\ \A list \in Seq(Nat) : InvIn(list, K) => EncodedInv(g, list) = EncodedInv(h, list)
    BY ONLY <2>4, EncodedKept
  <2> QED
    BY ONLY <1>6, <1>7, <2>1, <2>2, <2>3, <2>5
<1>9. /\ addrList' = addrList => Encode("addr")' = Encode("addr")
      /\ version' = version => Encode("version")' = Encode("version")
      /\ tag' = tag => Encode("getpubkey")' = Encode("getpubkey")
      /\ invList' = invList => Encode("inv")' = Encode("inv")
  BY <1>8, EncodeIs, EncodeIsNext
<1> QED
  BY <1>2, <1>3, <1>4, <1>5, <1>9 DEF HeapInv

LEMMA AddInvVectInv ==
  ASSUME HeapInv, AddInvVect
  PROVE  HeapInv'
<1>1. PICK hash \in {Key, tag} :
        /\ heap' = heap \o <<heap[hash]>>
        /\ invList' = Append(invList, Len(heap'))
        /\ ExpectsAlso(heap[hash].bytes)
  BY DEF AddInvVect, Allocated
<1> DEFINE b == heap[hash].bytes
           objects == <<heap[hash]>>
           e == EncodedInv(heap, invList)
           q == OneMore(e, b)
<1>2. heap[hash] \in [bytes : Nat] /\ b \in Nat
  <2>1. IsBytes(heap, Key) /\ IsBytes(heap, tag)
    BY DEF HeapInv, HeapTyped, KeyInv
  <2> QED
    BY <2>1 DEF IsBytes
<1>3. objects \in Seq(Object) /\ Len(objects) = 1 /\ objects[1] = heap[hash]
  BY <1>2 DEF Object
<1>4. 1 \in 1..Len(objects)
  BY <1>3
<1>5. /\ Len(heap) \in Nat /\ Len(heap) >= 4 /\ HeapTyped(heap')
      /\ Len(heap') = Len(heap) + 1
      /\ Len(heap') \in DOMAIN heap' /\ heap'[Len(heap')] = heap[hash]
      /\ AddrInv(heap', addrList, expected["addr"])
      /\ VersionInv(heap', version, expected["version"])
      /\ KeyInv(heap', tag, expected["getpubkey"])
      /\ VectorsInv(heap', invList, expected["inv"])
  BY <1>1, <1>3, <1>4, GrowthKeeps
<1>6. /\ addrList' = addrList /\ version' = version /\ tag' = tag
      /\ DOMAIN expected' = SharedKinds
      /\ \A kind \in {"addr", "version", "getpubkey"} : expected'[kind] = expected[kind]
      /\ expected'["inv"] = [i \in DOMAIN expected["inv"] |->
                               OneMore(expected["inv"][i], b)]
  <2> DEFINE x == [i \in DOMAIN expected["inv"] |-> OneMore(expected["inv"][i], b)]
  <2>1. expected' = [expected EXCEPT !["inv"] = x]
    BY <1>1 DEF ExpectsAlso
  <2> HIDE DEF x
  <2>2. DOMAIN expected = SharedKinds
    BY DEF HeapInv
  <2>3. /\ DOMAIN expected' = SharedKinds /\ expected'["inv"] = x
        /\ \A kind \in {"addr", "version", "getpubkey"} : expected'[kind] = expected[kind]
    BY ONLY <2>1, <2>2 DEF SharedKinds
  <2>4. addrList' = addrList /\ version' = version /\ tag' = tag
    BY DEF AddInvVect
  <2> QED
    BY ONLY <2>3, <2>4 DEF x
<1>7. /\ InvTyped(heap', invList) /\ invList \in Seq(Nat) /\ Len(invList) \in Nat
      /\ Len(heap') \in Nat /\ IsBytes(heap', Len(heap'))
  BY <1>2, <1>5 DEF VectorsInv, InvTyped, IsBytes
<1>8. /\ invList' \in Seq(Nat) /\ Len(invList') = Len(invList) + 1
      /\ \A i \in 1..Len(invList) : invList'[i] = invList[i]
      /\ invList'[Len(invList) + 1] = Len(heap')
      /\ \A i \in 1..Len(invList') : i \in 1..Len(invList) \/ i = Len(invList) + 1
  BY <1>1, <1>7
<1>9. InvTyped(heap', invList')
  BY <1>7, <1>8 DEF InvTyped
<1>10. CASE expected["inv"] = <<>>
  <2>1. expected'["inv"] = <<>>
    BY <1>6, <1>10
  <2> QED
    BY <1>5, <1>6, <1>9, <2>1 DEF HeapInv, VectorsInv
<1>11. CASE expected["inv"] # <<>>
  <2>1. expected["inv"] = <<e>> /\ InvIn(invList, Own) /\ InvTyped(heap, invList)
    BY <1>11 DEF HeapInv, VectorsInv
  <2>2. /\ EncodedInv(heap', invList) = e
    BY <1>5, <1>11, <2>1 DEF VectorsInv
  <2>3. expected'["inv"] = <<q>>
    <3> HIDE DEF e, b
    <3> QED
      BY <1>6, <2>1
  <2>4. InvIn(invList', Own)
    <3>1. Len(heap') \in Own
      BY <1>5 DEF Own, Peer
    <3> QED
      BY <1>8, <2>1, <3>1 DEF InvIn
  <2>5. /\ e \in Seq(Nat) /\ Len(e) = 1 + Len(invList) /\ e[1] = Len(invList)
        /\ \A j \in 1..Len(invList) : e[1 + j] = heap'[invList[j]].bytes
    BY <1>7, <2>2, InvEncoded
  <2> DEFINE f == EncodedInv(heap', invList')
  <2>6. /\ f \in Seq(Nat) /\ Len(f) = 1 + Len(invList') /\ f[1] = Len(invList')
        /\ \A j \in 1..Len(invList') : f[1 + j] = heap'[invList'[j]].bytes
    BY <1>9, InvEncoded
  <2> HIDE DEF e, f
  <2>7. /\ q \in Seq(Nat) /\ Len(q) = Len(e) + 1 /\ q[1] = e[1] + 1
        /\ \A k \in 2..Len(e) : q[k] = e[k]
        /\ q[Len(e) + 1] = b
    BY <1>2, <1>7, <2>5 DEF OneMore
  <2> HIDE DEF q
  <2>8. \A k \in 1..Len(q) : q[k] = f[k]
    <3> SUFFICES ASSUME NEW k \in 1..Len(q)
                 PROVE  q[k] = f[k]
      OBVIOUS
    <3>1. CASE k = 1
      BY <1>8, <2>5, <2>6, <2>7, <3>1
    <3>2. CASE k # 1 /\ k # Len(e) + 1
      <4>1. PICK j \in 1..Len(invList) : k = 1 + j
        <5>1. k - 1 \in 1..Len(invList) /\ k = 1 + (k - 1)
          BY <1>7, <2>5, <2>7, <3>2
        <5> QED
          BY ONLY <5>1
      <4>2. k \in 2..Len(e) /\ j \in 1..Len(invList')
        <5>1. /\ Len(e) = 1 + Len(invList) /\ Len(invList') = Len(invList) + 1
              /\ Len(invList) \in Nat
          BY ONLY <1>7, <1>8, <2>5
        <5> QED
          BY ONLY <4>1, <5>1
      <4> QED
        BY <1>8, <2>5, <2>6, <2>7, <4>1, <4>2
    <3>3. CASE k = Len(e) + 1
      <4>1. k = 1 + (Len(invList) + 1) /\ Len(invList) + 1 \in 1..Len(invList')
        BY <1>7, <1>8, <2>5, <3>3
      <4>2. f[k] = heap'[Len(heap')].bytes
        BY ONLY <1>8, <2>6, <4>1
      <4> QED
        BY <1>5, <2>7, <3>3, <4>2
    <3> QED
      BY <3>1, <3>2, <3>3
  <2>9. q = f
    <3>1. Len(q) = Len(f)
      BY <1>7, <1>8, <2>5, <2>6, <2>7
    <3> QED
      BY ONLY <2>6, <2>7, <2>8, <3>1, SameCells
  <2>10. VectorsInv(heap', invList', expected'["inv"])
    BY ONLY <1>9, <2>3, <2>4, <2>9 DEF VectorsInv, f
  <2> QED
    BY <1>5, <1>6, <2>10 DEF HeapInv
<1> QED
  BY <1>10, <1>11
-----------------------------------------------------------------------------
(* Decode *)

(* A Decode writes to new objects and changes no message but its receiver. *)
LocalTo(receiver) ==
  /\ \A object \in DOMAIN ProgramObjects : heap'[object] = heap[object]
  /\ \A kind \in SharedKinds \ {receiver} : Encode(kind)' = Encode(kind)

LEMMA DecodeAddrInv ==
  ASSUME HeapInv, DecodeAddr
  PROVE  HeapInv' /\ LocalTo("addr")
<1> DEFINE size == Len(heap)
           half(p) == (Len(p) - 1) \div 2
           made(p) == [j \in 1..(2 * half(p)) |->
                         IF j % 2 = 1 THEN Bytes(p[j + 1])
                                      ELSE Address(size + j - 1, p[j + 1])]
<1>1. PICK p \in Payloads["addr"] :
        /\ heap' = heap \o made(p)
        /\ addrList' = [i \in 1..half(p) |-> size + 2 * i]
        /\ IF half(p) = p[1] THEN Expects("addr", p) ELSE Forgets("addr")
  BY DEF DecodeAddr, Allocated
<1> DEFINE n == half(p)
           objects == made(p)
<1>2. p \in Seq(Nat) /\ Len(p) \in Nat /\ n \in Nat /\ Len(p) = 2 * n + 1
  <2>1. p \in Seq(Nat) /\ Len(p) % 2 = 1
    BY SharedMessagesAssumption, PayloadsAssumption
    DEF SharedMessagesAssumption, PayloadsAssumption, SharedKinds
  <2>2. Len(p) \in Nat
    BY <2>1
  <2>3. ASSUME NEW l \in Nat, l % 2 = 1
        PROVE  (l - 1) \div 2 \in Nat /\ l = 2 * ((l - 1) \div 2) + 1
    BY <2>3
  <2> QED
    BY ONLY <2>1, <2>2, <2>3
<1>3. \A j \in 1..(2 * n) : p[j + 1] \in Nat
  <2>1. \A j \in 1..(2 * n) : j + 1 \in 1..Len(p)
    BY ONLY <1>2
  <2>2. \A j \in 1..Len(p) : p[j] \in Nat
    BY ONLY <1>2
  <2> QED
    BY ONLY <2>1, <2>2
<1>4. size \in Nat /\ size >= 4
  BY DEF HeapInv, HeapTyped, IsAddress, Peer
<1>5. /\ objects \in Seq(Object) /\ Len(objects) = 2 * n
      /\ \A i \in 1..n : /\ objects[2 * i - 1] = [bytes |-> p[2 * i]]
                         /\ objects[2 * i] = [ip |-> size + (2 * i - 1),
                                              port |-> p[2 * i + 1]]
  <2>1. objects = [j \in 1..(2 * n) |-> IF j % 2 = 1 THEN Bytes(p[j + 1])
                                        ELSE Address(size + j - 1, p[j + 1])]
    OBVIOUS
  <2> HIDE DEF n, objects, made
  <2>2. ASSUME NEW j \in 1..(2 * n)
        PROVE  (IF j % 2 = 1 THEN Bytes(p[j + 1])
                             ELSE Address(size + j - 1, p[j + 1])) \in Object
    <3>1. p[j + 1] \in Nat /\ size + j - 1 \in Nat
      BY <1>2, <1>3, <1>4
    <3> QED
      BY ONLY <3>1 DEF Object, Bytes, Address
  <2>3. 2 * n \in Nat
    BY <1>2
  <2>4. objects \in Seq(Object) /\ Len(objects) = 2 * n
    BY ONLY <2>1, <2>2, <2>3
  <2>5. ASSUME NEW i \in 1..n
        PROVE  /\ objects[2 * i - 1] = [bytes |-> p[2 * i]]
               /\ objects[2 * i] = [ip |-> size + (2 * i - 1), port |-> p[2 * i + 1]]
    <3>1. PICK j \in 1..(2 * n) : j = 2 * i - 1 /\ j % 2 = 1 /\ j + 1 = 2 * i
      <4>1. /\ 2 * i - 1 \in 1..(2 * n) /\ (2 * i - 1) % 2 = 1
            /\ (2 * i - 1) + 1 = 2 * i
        BY <1>2
      <4> QED
        BY ONLY <4>1
    <3>2. PICK k \in 1..(2 * n) : /\ k = 2 * i /\ ~(k % 2 = 1)
                                  /\ size + k - 1 = size + (2 * i - 1)
      <4>1. /\ 2 * i \in 1..(2 * n) /\ ~((2 * i) % 2 = 1)
            /\ size + 2 * i - 1 = size + (2 * i - 1)
        BY <1>2, <1>4
      <4> QED
        BY ONLY <4>1
    <3>3. objects[j] = Bytes(p[j + 1]) /\ objects[k] = Address(size + k - 1, p[k + 1])
      BY ONLY <2>1, <3>1, <3>2
    <3> QED
      BY ONLY <3>1, <3>2, <3>3 DEF Bytes, Address
  <2> QED
    BY ONLY <2>4, <2>5
<1>6. /\ heap' = heap \o objects
      /\ addrList' = [i \in 1..n |-> size + 2 * i]
      /\ \/ n = p[1] /\ expected' = [expected EXCEPT !["addr"] = <<p>>]
         \/ expected' = [expected EXCEPT !["addr"] = <<>>]
  BY <1>1 DEF Expects, Forgets
<1>7. /\ version' = version /\ tag' = tag /\ invList' = invList
      /\ DOMAIN expected = SharedKinds
  BY DEF DecodeAddr, HeapInv
<1> HIDE DEF n, objects, made
<1>8. /\ DOMAIN expected' = SharedKinds
      /\ \/ expected'["addr"] = <<>>
         \/ expected'["addr"] = <<p>> /\ n = p[1]
      /\ \A kind \in {"version", "getpubkey", "inv"} : expected'[kind] = expected[kind]
  BY ONLY <1>6, <1>7 DEF SharedKinds
<1>9. /\ HeapTyped(heap')
      /\ \A o \in DOMAIN ProgramObjects : heap'[o] = heap[o]
      /\ \A k \in 1..Len(objects) : /\ size + k \in DOMAIN heap'
                                    /\ heap'[size + k] = objects[k]
      /\ VersionInv(heap', version, expected["version"])
      /\ KeyInv(heap', tag, expected["getpubkey"])
      /\ VectorsInv(heap', invList, expected["inv"])
      /\ Encode("version")' = Encode("version")
      /\ Encode("getpubkey")' = Encode("getpubkey")
      /\ Encode("inv")' = Encode("inv")
  <2>1. objects \in Seq(Object) /\ heap' = heap \o objects
    BY <1>5, <1>6
  <2> QED
    BY <1>7, <2>1, GrowthKeeps
<1>10. /\ addrList' \in Seq(Nat) /\ Len(addrList') = n
       /\ \A i \in 1..n : addrList'[i] = size + 2 * i
  BY <1>2, <1>4, <1>6
<1>11. ASSUME NEW i \in 1..n
       PROVE  /\ addrList'[i] \in DOMAIN heap' /\ addrList'[i] \in Own
              /\ heap'[addrList'[i]] \in [ip : Nat, port : Nat]
              /\ heap'[addrList'[i]].port = p[2 * i + 1]
              /\ heap'[addrList'[i]].ip \in DOMAIN heap' /\ heap'[addrList'[i]].ip \in Own
              /\ heap'[heap'[addrList'[i]].ip] = [bytes |-> p[2 * i]]
              /\ heap'[addrList'[i]].ip # Nil
              /\ p[2 * i] \in Nat /\ p[2 * i + 1] \in Nat
  <2>1. /\ 2 * i - 1 \in 1..(2 * n) /\ 2 * i \in 1..(2 * n)
        /\ (2 * i - 1) + 1 = 2 * i
        /\ size + (2 * i - 1) \in Nat /\ size + (2 * i - 1) > 4
        /\ size + 2 * i \in Nat /\ size + 2 * i > 4
        /\ size + (2 * i - 1) # 0
    BY <1>2, <1>4
  <2>2. p[2 * i] \in Nat /\ p[2 * i + 1] \in Nat
    BY ONLY <1>3, <2>1
  <2>3. PICK o : o = size + 2 * i
    OBVIOUS
  <2>4. PICK a : a = size + (2 * i - 1)
    OBVIOUS
  <2>5. a \in Own /\ o \in Own /\ a # Nil /\ a \in Nat
    BY ONLY <2>1, <2>3, <2>4 DEF Own, Peer, Nil
  <2>6. /\ o \in DOMAIN heap' /\ heap'[o] = objects[2 * i]
        /\ a \in DOMAIN heap' /\ heap'[a] = objects[2 * i - 1]
    BY ONLY <1>5, <1>9, <2>1, <2>3, <2>4
  <2>7. /\ heap'[o] = [ip |-> a, port |-> p[2 * i + 1]]
        /\ heap'[a] = [bytes |-> p[2 * i]]
    BY ONLY <1>5, <2>4, <2>6
  <2>8. addrList'[i] = o
    BY ONLY <1>10, <2>3
  <2> QED
    BY ONLY <2>2, <2>5, <2>6, <2>7, <2>8
<1>12. \A i \in 1..n : IsAddress(heap', addrList'[i])
  <2> SUFFICES ASSUME NEW i \in 1..n
               PROVE  IsAddress(heap', addrList'[i])
    OBVIOUS
  <2>1. /\ heap'[addrList'[i]].ip \in DOMAIN heap'
        /\ heap'[heap'[addrList'[i]].ip] = [bytes |-> p[2 * i]] /\ p[2 * i] \in Nat
        /\ addrList'[i] \in DOMAIN heap' /\ heap'[addrList'[i]] \in [ip : Nat, port : Nat]
    BY <1>11, Zenon
  <2>2. heap'[heap'[addrList'[i]].ip] \in [bytes : Nat]
    BY ONLY <2>1
  <2> QED
    BY ONLY <2>1, <2>2, Zenon DEF IsAddress, IsIP, IsBytes
<1>13. AddrTyped(heap', addrList')
  BY ONLY <1>10, <1>12 DEF AddrTyped
<1>14. AddrIn(heap', addrList', Own)
  BY ONLY <1>10, <1>11 DEF AddrIn
<1>15. ASSUME n = p[1]
       PROVE  EncodedAddr(heap', addrList') = p
  <2> DEFINE q == EncodedAddr(heap', addrList')
  <2>1. /\ q \in Seq(Nat) /\ Len(q) = 1 + 2 * n /\ q[1] = n
        /\ \A j \in 1..n :
             /\ q[2 * j] = EncodedAddress(heap', heap'[addrList'[j]])[1]
             /\ q[2 * j + 1] = EncodedAddress(heap', heap'[addrList'[j]])[2]
    <3>1. AddrCells(q, heap', addrList')
      BY <1>13, AddrEncoded
    <3> HIDE DEF q
    <3> QED
      BY ONLY <1>10, <3>1 DEF AddrCells
  <2> HIDE DEF q
  <2>2. ASSUME NEW j \in 1..n
        PROVE  q[2 * j] = p[2 * j] /\ q[2 * j + 1] = p[2 * j + 1]
    <3>1. PICK na : na = heap'[addrList'[j]]
      OBVIOUS
    <3>2. /\ na.ip # Nil /\ heap'[na.ip] = [bytes |-> p[2 * j]]
          /\ na.port = p[2 * j + 1]
      BY ONLY <1>11, <3>1, Zenon
    <3>3. heap'[na.ip].bytes = p[2 * j]
      BY ONLY <3>2
    <3>4. EncodedAddress(heap', heap'[addrList'[j]]) = <<p[2 * j], p[2 * j + 1]>>
      BY ONLY <3>1, <3>2, <3>3 DEF EncodedAddress
    <3>5. q[2 * j] = <<p[2 * j], p[2 * j + 1]>>[1] /\ q[2 * j + 1] = <<p[2 * j], p[2 * j + 1]>>[2]
      BY ONLY <2>1, <3>4, Zenon
    <3> QED
      BY <3>5
  <2>3. \A k \in 1..Len(q) : q[k] = p[k]
    <3> SUFFICES ASSUME NEW k \in 1..Len(q)
                 PROVE  q[k] = p[k]
      OBVIOUS
    <3>1. CASE k = 1
      BY <1>15, <2>1, <3>1
    <3>2. CASE k # 1
      <4>1. k - 1 \in 1..(2 * n)
        BY <1>2, <2>1, <3>2
      <4>2. PICK j \in 1..n : k - 1 = 2 * j - 1 \/ k - 1 = 2 * j
        BY ONLY <1>2, <4>1, PairOf
      <4>3. k = 2 * j \/ k = 2 * j + 1
        BY <1>2, <2>1, <4>2
      <4> QED
        BY ONLY <2>2, <4>3
    <3> QED
      BY <3>1, <3>2
  <2>4. Len(q) = Len(p)
    BY <1>2, <2>1
  <2> QED
    BY ONLY <1>2, <2>1, <2>3, <2>4, SameCells DEF q
<1>16. AddrInv(heap', addrList', expected'["addr"])
  BY ONLY <1>8, <1>13, <1>14, <1>15 DEF AddrInv
<1>17. HeapInv'
  BY <1>7, <1>8, <1>9, <1>16 DEF HeapInv
<1>18. LocalTo("addr")
  BY ONLY <1>9 DEF LocalTo, SharedKinds
<1> QED
  BY <1>17, <1>18
LEMMA JoinOf ==
  ASSUME NEW S, NEW s \in Seq(S), NEW t \in Seq(S)
  PROVE  /\ s \o t \in Seq(S) /\ Len(s \o t) = Len(s) + Len(t)
         /\ \A i \in 1..Len(s) : (s \o t)[i] = s[i]
         /\ \A i \in 1..Len(t) : (s \o t)[Len(s) + i] = t[i]
  OBVIOUS

LEMMA TwoObjects ==
  ASSUME NEW a, NEW b
  PROVE  <<a>> \o <<b>> = <<a, b>>
<1> DEFINE S == {a, b}
<1>1. a \in S /\ b \in S
  OBVIOUS
<1> HIDE DEF S
<1>2. <<a>> \in Seq(S) /\ <<b>> \in Seq(S) /\ Len(<<a>>) = 1 /\ Len(<<b>>) = 1
  BY <1>1
<1>3. PICK s, t : s = <<a>> /\ t = <<b>>
  OBVIOUS
<1>4. s \in Seq(S) /\ t \in Seq(S) /\ Len(s) = 1 /\ Len(t) = 1 /\ s[1] = a /\ t[1] = b
  BY <1>2, <1>3
<1>5. /\ s \o t \in Seq(S) /\ Len(s \o t) = Len(s) + Len(t)
      /\ \A i \in 1..Len(s) : (s \o t)[i] = s[i]
      /\ \A i \in 1..Len(t) : (s \o t)[Len(s) + i] = t[i]
  <2>1. s \in Seq(S) /\ t \in Seq(S)
    BY ONLY <1>4
  <2> QED
    BY ONLY <2>1, JoinOf
<1>6. PICK u : u = s \o t
  OBVIOUS
<1>7. u \in Seq(S) /\ Len(u) = 2 /\ u[1] = a /\ u[2] = b
  <2>1. 1 \in 1..1 /\ 1 + 1 = 2
    OBVIOUS
  <2> QED
    BY ONLY <1>4, <1>5, <1>6, <2>1
<1>8. u = <<a, b>>
  BY ONLY <1>7
<1> QED
  BY ONLY <1>3, <1>6, <1>8

LEMMA DecodeVersionInv ==
  ASSUME HeapInv, DecodeVersion
  PROVE  HeapInv' /\ LocalTo("version")
<1> DEFINE size == Len(heap)
           numbers(p) == SubSeq(p, 4, Len(p))
           rest(p) == IF Len(p) > 2 THEN <<Streams(numbers(p))>> ELSE <<>>
<1>1. PICK p \in Payloads["version"] :
        /\ heap' = heap \o (<<Bytes(p[1])>> \o rest(p))
        /\ version' = [ip |-> size + 1, port |-> p[2],
                       streams |-> IF Len(p) > 2 THEN Len(heap') ELSE version.streams]
        /\ IF Len(p) > 2 THEN Expects("version", p) ELSE Forgets("version")
  BY DEF DecodeVersion, Allocated
<1>2. /\ p \in Seq(Nat) /\ Len(p) \in Nat
      /\ Len(p) = 2 \/ (Len(p) >= 3 /\ Len(p) = 3 + p[3])
  <2>1. p \in Seq(Nat) /\ (Len(p) = 2 \/ (Len(p) >= 3 /\ Len(p) = 3 + p[3]))
    BY SharedMessagesAssumption, PayloadsAssumption
    DEF SharedMessagesAssumption, PayloadsAssumption, SharedKinds
  <2> QED
    BY <2>1
<1>3. p[1] \in Nat /\ p[2] \in Nat
  BY <1>2
<1>4. size \in Nat /\ size >= 4
  BY DEF HeapInv, HeapTyped, IsAddress, Peer
<1>5. /\ addrList' = addrList /\ tag' = tag /\ invList' = invList
      /\ DOMAIN expected = SharedKinds
  BY DEF DecodeVersion, HeapInv
<1>6. /\ VersionTyped(heap, version)
      /\ version.streams \in Nat /\ IsStreams(heap, version.streams)
  BY DEF HeapInv, VersionInv, VersionTyped
<1>7. CASE Len(p) > 2
  <2> DEFINE t == numbers(p)
             objects == <<[bytes |-> p[1]], [streams |-> t]>>
  <2>1. /\ t \in Seq(Nat) /\ Len(t) = p[3] /\ Len(p) = 3 + Len(t)
        /\ \A i \in 1..Len(t) : p[3 + i] = t[i]
    <3>1. Len(p) = 3 + p[3] /\ p[3] \in Nat
      BY <1>2, <1>7
    <3>2. /\ t \in Seq(Nat) /\ Len(t) = Len(p) - 3
          /\ \A i \in 1..(Len(p) - 3) : t[i] = p[4 + i - 1]
      BY <1>2, <3>1
    <3>3. Len(t) = p[3]
      BY <3>1, <3>2
    <3>4. \A i \in 1..p[3] : 4 + i - 1 = 3 + i /\ i \in 1..(Len(p) - 3)
      <4>1. Len(p) - 3 = p[3]
        BY ONLY <3>1
      <4>2. \A i \in 1..p[3] : 4 + i - 1 = 3 + i
        BY ONLY <3>1
      <4> QED
        BY ONLY <4>1, <4>2
    <3> HIDE DEF t
    <3> QED
      BY ONLY <3>1, <3>2, <3>3, <3>4
  <2>2. /\ heap' = heap \o objects
        /\ version' = [ip |-> size + 1, port |-> p[2], streams |-> Len(heap')]
        /\ expected' = [expected EXCEPT !["version"] = <<p>>]
    <3>1. rest(p) = <<[streams |-> t]>>
      BY <1>7 DEF Streams
    <3>2. <<[bytes |-> p[1]]>> \o <<[streams |-> t]>> = objects
      <4> HIDE DEF t
      <4> QED
        BY TwoObjects
    <3> HIDE DEF rest, t, objects
    <3> QED
      BY <1>1, <1>7, <3>1, <3>2 DEF Expects, Bytes
  <2>3. /\ objects \in Seq(Object) /\ Len(objects) = 2 /\ 1 \in 1..2 /\ 2 \in 1..2
        /\ objects[1] = [bytes |-> p[1]] /\ objects[2] = [streams |-> t]
    <3>1. [bytes |-> p[1]] \in Object /\ [streams |-> t] \in Object
      BY <1>3, <2>1 DEF Object
    <3> HIDE DEF t
    <3> QED
      BY <3>1
  <2> HIDE DEF t, objects
  <2>4. /\ HeapTyped(heap') /\ Len(heap') = size + 2
        /\ \A o \in DOMAIN ProgramObjects : heap'[o] = heap[o]
        /\ size + 1 \in DOMAIN heap' /\ heap'[size + 1] = [bytes |-> p[1]]
        /\ size + 2 \in DOMAIN heap' /\ heap'[size + 2] = [streams |-> t]
        /\ AddrInv(heap', addrList, expected["addr"])
        /\ KeyInv(heap', tag, expected["getpubkey"])
        /\ VectorsInv(heap', invList, expected["inv"])
        /\ Encode("addr")' = Encode("addr")
        /\ Encode("getpubkey")' = Encode("getpubkey")
        /\ Encode("inv")' = Encode("inv")
    <3>1. objects \in Seq(Object) /\ heap' = heap \o objects
      BY <2>2, <2>3
    <3> QED
      BY <1>5, <2>3, <3>1, GrowthKeeps
  <2>5. /\ version'.ip = size + 1 /\ version'.port = p[2] /\ version'.streams = size + 2
        /\ version' \in [ip : Nat, port : Nat, streams : Nat]
    BY <1>3, <1>4, <2>2, <2>4
  <2>6. /\ version'.ip \in DOMAIN heap' /\ heap'[version'.ip] = [bytes |-> p[1]]
        /\ version'.streams \in DOMAIN heap' /\ heap'[version'.streams] = [streams |-> t]
    BY ONLY <2>4, <2>5
  <2>7. VersionTyped(heap', version')
    <3>1. [bytes |-> p[1]] \in [bytes : Nat] /\ [streams |-> t] \in [streams : Seq(Nat)]
      BY <1>3, <2>1
    <3> QED
      BY ONLY <2>5, <2>6, <3>1 DEF VersionTyped, IsIP, IsBytes, IsStreams
  <2>8. VersionIn(version', Own) /\ version'.ip # Nil
    BY <1>4, <2>5 DEF VersionIn, Own, Peer, Nil
  <2>9. EncodedAddress(heap', version') = <<p[1], p[2]>>
    <3>1. heap'[version'.ip].bytes = p[1] /\ version'.ip # Nil /\ version'.port = p[2]
      BY ONLY <2>5, <2>6, <2>8
    <3> QED
      BY ONLY <3>1 DEF EncodedAddress
  <2>10. EncodedVersion(heap', version') = p
    <3>1. t = heap'[version'.streams].streams
      BY ONLY <2>6
    <3>2. /\ p[1] = EncodedAddress(heap', version')[1]
          /\ p[2] = EncodedAddress(heap', version')[2]
      BY <2>9
    <3>3. /\ p \in Seq(Nat) /\ Len(p) = 3 + Len(t) /\ p[3] = Len(t)
          /\ \A i \in 1..Len(t) : p[3 + i] = t[i]
      BY ONLY <1>2, <2>1
    <3> QED
      <4>1. VersionCells(p, EncodedAddress(heap', version'), t)
        BY ONLY <3>2, <3>3 DEF VersionCells
      <4> QED
        BY ONLY <2>7, <3>1, <4>1, VersionEncoded
  <2>11. /\ DOMAIN expected' = SharedKinds /\ expected'["version"] = <<p>>
         /\ \A kind \in {"addr", "getpubkey", "inv"} : expected'[kind] = expected[kind]
    BY ONLY <1>5, <2>2 DEF SharedKinds
  <2>12. VersionInv(heap', version', expected'["version"])
    BY ONLY <2>7, <2>8, <2>10, <2>11 DEF VersionInv
  <2>13. HeapInv'
    BY <1>5, <2>4, <2>11, <2>12 DEF HeapInv
  <2>14. LocalTo("version")
    BY ONLY <2>4 DEF LocalTo, SharedKinds
  <2> QED
    BY <2>13, <2>14
<1>8. CASE ~(Len(p) > 2)
  <2> DEFINE objects == <<[bytes |-> p[1]]>>
  <2>1. /\ heap' = heap \o objects
        /\ version' = [ip |-> size + 1, port |-> p[2], streams |-> version.streams]
        /\ expected' = [expected EXCEPT !["version"] = <<>>]
    <3>1. rest(p) = <<>>
      BY <1>8
    <3>2. objects \o <<>> = objects
      OBVIOUS
    <3> HIDE DEF rest
    <3> QED
      BY <1>1, <1>8, <3>1, <3>2 DEF Forgets, Bytes
  <2>2. /\ objects \in Seq(Object) /\ Len(objects) = 1 /\ 1 \in 1..1
        /\ objects[1] = [bytes |-> p[1]]
    <3>1. [bytes |-> p[1]] \in Object
      BY <1>3 DEF Object
    <3> QED
      BY <3>1
  <2> HIDE DEF objects
  <2>3. /\ HeapTyped(heap')
        /\ \A o \in DOMAIN ProgramObjects : heap'[o] = heap[o]
        /\ \A o \in DOMAIN heap : o \in DOMAIN heap' /\ heap'[o] = heap[o]
        /\ size + 1 \in DOMAIN heap' /\ heap'[size + 1] = [bytes |-> p[1]]
        /\ AddrInv(heap', addrList, expected["addr"])
        /\ KeyInv(heap', tag, expected["getpubkey"])
        /\ VectorsInv(heap', invList, expected["inv"])
        /\ Encode("addr")' = Encode("addr")
        /\ Encode("getpubkey")' = Encode("getpubkey")
        /\ Encode("inv")' = Encode("inv")
    <3>1. objects \in Seq(Object) /\ heap' = heap \o objects
      BY <2>1, <2>2
    <3> QED
      BY <1>5, <2>2, <3>1, GrowthKeeps
  <2>4. VersionTyped(heap', version')
    <3>1. /\ version'.ip = size + 1 /\ version'.streams = version.streams
          /\ version' \in [ip : Nat, port : Nat, streams : Nat]
      BY <1>3, <1>4, <1>6, <2>1
    <3>2. IsBytes(heap', version'.ip)
      <4>1. [bytes |-> p[1]] \in [bytes : Nat]
        BY <1>3
      <4> QED
        BY ONLY <2>3, <3>1, <4>1 DEF IsBytes
    <3>3. IsStreams(heap', version'.streams)
      BY ONLY <1>6, <2>3, <3>1 DEF IsStreams
    <3> QED
      BY ONLY <3>1, <3>2, <3>3 DEF VersionTyped, IsIP
  <2>5. /\ DOMAIN expected' = SharedKinds /\ expected'["version"] = <<>>
        /\ \A kind \in {"addr", "getpubkey", "inv"} : expected'[kind] = expected[kind]
    BY ONLY <1>5, <2>1 DEF SharedKinds
  <2>6. HeapInv'
    BY <1>5, <2>3, <2>4, <2>5 DEF HeapInv, VersionInv
  <2>7. LocalTo("version")
    BY ONLY <2>3 DEF LocalTo, SharedKinds
  <2> QED
    BY <2>6, <2>7
<1> QED
  BY <1>7, <1>8

LEMMA DecodeGetPubKeyInv ==
  ASSUME HeapInv, DecodeGetPubKey
  PROVE  HeapInv' /\ LocalTo("getpubkey")
<1> DEFINE size == Len(heap)
           cell(p) == IF p = <<>> THEN ZeroCell ELSE p[1]
<1>1. PICK p \in Payloads["getpubkey"] :
        /\ heap' = heap \o <<Bytes(cell(p))>>
        /\ tag' = Len(heap')
        /\ IF p # <<>> THEN Expects("getpubkey", p) ELSE Forgets("getpubkey")
  BY DEF DecodeGetPubKey, Allocated
<1> DEFINE c == cell(p)
           objects == <<Bytes(c)>>
<1>2. p \in Seq(Nat) /\ Len(p) <= 1
  BY SharedMessagesAssumption, PayloadsAssumption
  DEF SharedMessagesAssumption, PayloadsAssumption, SharedKinds
<1>3. c \in Nat /\ (p # <<>> => <<c>> = p)
  <2>1. CASE p = <<>>
    BY <2>1 DEF ZeroCell
  <2>2. CASE p # <<>>
    <3>1. Len(p) = 1 /\ p[1] \in Nat /\ c = p[1]
      <4>1. Len(p) \in Nat /\ Len(p) # 0
        <5>1. <<>> \in Seq(Nat) /\ Len(<<>>) = 0 /\ \A i \in 1..0 : FALSE
          OBVIOUS
        <5>2. Len(p) \in Nat
          BY ONLY <1>2
        <5>3. Len(p) = 0 => p = <<>>
          BY ONLY <1>2, <5>1, SameCells
        <5> QED
          BY ONLY <2>2, <5>2, <5>3
      <4>2. Len(p) = 1
        <5>1. ASSUME NEW l \in Nat, l <= 1, l # 0 PROVE l = 1
          BY <5>1
        <5> QED
          BY ONLY <1>2, <4>1, <5>1
      <4>3. c = p[1]
        BY <2>2
      <4>4. \A i \in 1..Len(p) : p[i] \in Nat
        BY ONLY <1>2
      <4> QED
        BY ONLY <4>2, <4>3, <4>4
    <3>2. p = <<p[1]>>
      BY <1>2, <3>1
    <3> QED
      BY ONLY <3>1, <3>2
  <2> QED
    BY <2>1, <2>2
<1> HIDE DEF c, cell
<1>4. /\ objects \in Seq(Object) /\ Len(objects) = 1 /\ 1 \in 1..1
      /\ objects[1] = [bytes |-> c]
  <2>1. [bytes |-> c] \in Object
    BY <1>3 DEF Object
  <2> QED
    BY <2>1 DEF Bytes
<1> HIDE DEF objects
<1>5. /\ addrList' = addrList /\ version' = version /\ invList' = invList
      /\ DOMAIN expected = SharedKinds
  BY DEF DecodeGetPubKey, HeapInv
<1>6. /\ heap' = heap \o objects /\ tag' = Len(heap')
      /\ \/ p # <<>> /\ expected' = [expected EXCEPT !["getpubkey"] = <<p>>]
         \/ expected' = [expected EXCEPT !["getpubkey"] = <<>>]
  BY <1>1 DEF objects, c, Expects, Forgets
<1>7. /\ HeapTyped(heap') /\ Len(heap') = size + 1 /\ size \in Nat /\ size >= 4
      /\ \A o \in DOMAIN ProgramObjects : heap'[o] = heap[o]
      /\ size + 1 \in DOMAIN heap' /\ heap'[size + 1] = [bytes |-> c]
      /\ AddrInv(heap', addrList, expected["addr"])
      /\ VersionInv(heap', version, expected["version"])
      /\ VectorsInv(heap', invList, expected["inv"])
      /\ Encode("addr")' = Encode("addr")
      /\ Encode("version")' = Encode("version")
      /\ Encode("inv")' = Encode("inv")
  <2>1. objects \in Seq(Object) /\ heap' = heap \o objects
    BY <1>4, <1>6
  <2> QED
    BY <1>4, <1>5, <2>1, GrowthKeeps
<1>8. /\ DOMAIN expected' = SharedKinds
      /\ \/ expected'["getpubkey"] = <<>>
         \/ expected'["getpubkey"] = <<p>> /\ p # <<>>
      /\ \A kind \in {"addr", "version", "inv"} : expected'[kind] = expected[kind]
  BY ONLY <1>5, <1>6 DEF SharedKinds
<1>9. tag' \in DOMAIN heap' /\ heap'[tag'] = [bytes |-> c]
  BY ONLY <1>6, <1>7
<1>10. IsBytes(heap', tag')
  <2>1. [bytes |-> c] \in [bytes : Nat]
    BY <1>3
  <2> QED
    BY ONLY <1>9, <2>1 DEF IsBytes
<1>11. tag' \in Own
  BY <1>6, <1>7 DEF Own, Peer
<1>12. EncodedKey(heap', tag') = <<c>>
  <2>1. heap'[tag'].bytes = c
    BY ONLY <1>9
  <2> QED
    BY ONLY <2>1 DEF EncodedKey
<1>13. KeyInv(heap', tag', expected'["getpubkey"])
  BY ONLY <1>3, <1>8, <1>10, <1>11, <1>12 DEF KeyInv
<1>14. HeapInv'
  BY <1>5, <1>7, <1>8, <1>13 DEF HeapInv
<1>15. LocalTo("getpubkey")
  BY ONLY <1>7 DEF LocalTo, SharedKinds
<1> QED
  BY <1>14, <1>15

LEMMA DecodeInvInv ==
  ASSUME HeapInv, DecodeInv
  PROVE  HeapInv' /\ LocalTo("inv")
<1> DEFINE size == Len(heap)
           made(p) == [i \in 1..(Len(p) - 1) |-> Bytes(p[i + 1])]
<1>1. PICK p \in Payloads["inv"] :
        /\ heap' = heap \o made(p)
        /\ invList' = [i \in 1..(Len(p) - 1) |-> size + i]
        /\ IF Len(p) - 1 = p[1] THEN Expects("inv", p) ELSE Forgets("inv")
  BY DEF DecodeInv, Allocated
<1> DEFINE n == Len(p) - 1
           objects == made(p)
<1>2. /\ p \in Seq(Nat) /\ Len(p) \in Nat /\ n \in Nat /\ Len(p) = n + 1
      /\ \A i \in 1..n : p[i + 1] \in Nat
  <2>1. p \in Seq(Nat) /\ Len(p) >= 1
    BY SharedMessagesAssumption, PayloadsAssumption
    DEF SharedMessagesAssumption, PayloadsAssumption, SharedKinds
  <2> QED
    BY <2>1
<1>3. size \in Nat /\ size >= 4
  BY DEF HeapInv, HeapTyped, IsAddress, Peer
<1>4. /\ objects \in Seq(Object) /\ Len(objects) = n
      /\ \A i \in 1..n : objects[i] = [bytes |-> p[i + 1]]
  <2>1. \A i \in 1..n : Bytes(p[i + 1]) \in Object
    BY <1>2 DEF Bytes, Object
  <2>2. objects = [i \in 1..n |-> Bytes(p[i + 1])]
    OBVIOUS
  <2> HIDE DEF n, objects, made
  <2> QED
    BY <1>2, <2>1, <2>2 DEF Bytes
<1>5. /\ addrList' = addrList /\ version' = version /\ tag' = tag
      /\ DOMAIN expected = SharedKinds
  BY DEF DecodeInv, HeapInv
<1>6. /\ heap' = heap \o objects
      /\ invList' = [i \in 1..n |-> size + i]
      /\ \/ n = p[1] /\ expected' = [expected EXCEPT !["inv"] = <<p>>]
         \/ expected' = [expected EXCEPT !["inv"] = <<>>]
  BY <1>1 DEF Expects, Forgets
<1> HIDE DEF n, objects, made
<1>7. /\ HeapTyped(heap')
      /\ \A o \in DOMAIN ProgramObjects : heap'[o] = heap[o]
      /\ \A k \in 1..n : /\ size + k \in DOMAIN heap'
                         /\ heap'[size + k] = [bytes |-> p[k + 1]]
      /\ AddrInv(heap', addrList, expected["addr"])
      /\ VersionInv(heap', version, expected["version"])
      /\ KeyInv(heap', tag, expected["getpubkey"])
      /\ Encode("addr")' = Encode("addr")
      /\ Encode("version")' = Encode("version")
      /\ Encode("getpubkey")' = Encode("getpubkey")
  <2>1. objects \in Seq(Object) /\ heap' = heap \o objects
    BY <1>4, <1>6
  <2> QED
    BY <1>4, <1>5, <2>1, GrowthKeeps
<1>8. /\ invList' \in Seq(Nat) /\ Len(invList') = n
      /\ \A i \in 1..n : invList'[i] = size + i
  BY <1>2, <1>3, <1>6
<1>9. ASSUME NEW i \in 1..n
      PROVE  /\ invList'[i] \in DOMAIN heap' /\ invList'[i] \in Own
             /\ heap'[invList'[i]] = [bytes |-> p[i + 1]] /\ p[i + 1] \in Nat
             /\ heap'[invList'[i]] \in [bytes : Nat]
             /\ heap'[invList'[i]].bytes = p[i + 1]
  <2>1. size + i \in Nat /\ size + i > 4
    BY <1>2, <1>3
  <2>2. invList'[i] = size + i /\ p[i + 1] \in Nat
    BY ONLY <1>2, <1>8
  <2>3. size + i \in DOMAIN heap' /\ heap'[size + i] = [bytes |-> p[i + 1]]
    BY ONLY <1>7
  <2> QED
    BY ONLY <2>1, <2>2, <2>3 DEF Own, Peer
<1>10. InvTyped(heap', invList')
  BY ONLY <1>8, <1>9 DEF InvTyped, IsBytes
<1>11. InvIn(invList', Own)
  BY ONLY <1>8, <1>9 DEF InvIn
<1>12. ASSUME n = p[1]
       PROVE  EncodedInv(heap', invList') = p
  <2> DEFINE q == EncodedInv(heap', invList')
  <2>1. /\ q \in Seq(Nat) /\ Len(q) = 1 + n /\ q[1] = n
        /\ \A j \in 1..n : q[1 + j] = heap'[invList'[j]].bytes
    <3>1. Len(invList') = n
      BY ONLY <1>8
    <3> QED
      BY ONLY <1>10, <3>1, InvEncoded
  <2> HIDE DEF q
  <2>2. \A k \in 1..Len(q) : q[k] = p[k]
    <3> SUFFICES ASSUME NEW k \in 1..Len(q)
                 PROVE  q[k] = p[k]
      OBVIOUS
    <3>1. CASE k = 1
      BY <1>12, <2>1, <3>1
    <3>2. CASE k # 1
      <4>1. PICK j \in 1..n : k = 1 + j /\ k = j + 1
        <5>1. k - 1 \in 1..n /\ k = 1 + (k - 1) /\ k = (k - 1) + 1
          BY <1>2, <2>1, <3>2
        <5> QED
          BY ONLY <5>1
      <4>2. q[1 + j] = p[j + 1]
        BY ONLY <1>9, <2>1
      <4>3. q[k] = q[1 + j] /\ p[k] = p[j + 1]
        BY ONLY <4>1
      <4> QED
        BY ONLY <4>2, <4>3
    <3> QED
      BY <3>1, <3>2
  <2>3. Len(q) = Len(p)
    BY <1>2, <2>1
  <2> QED
    BY ONLY <1>2, <2>1, <2>2, <2>3, SameCells DEF q
<1>13. /\ DOMAIN expected' = SharedKinds
       /\ \/ expected'["inv"] = <<>>
          \/ expected'["inv"] = <<p>> /\ n = p[1]
       /\ \A kind \in {"addr", "version", "getpubkey"} : expected'[kind] = expected[kind]
  BY ONLY <1>5, <1>6 DEF SharedKinds
<1>14. VectorsInv(heap', invList', expected'["inv"])
  BY ONLY <1>10, <1>11, <1>12, <1>13 DEF VectorsInv
<1>15. HeapInv'
  BY <1>5, <1>7, <1>13, <1>14 DEF HeapInv
<1>16. LocalTo("inv")
  BY ONLY <1>7 DEF LocalTo, SharedKinds
<1> QED
  BY <1>15, <1>16
-----------------------------------------------------------------------------
(* The program writes to its objects *)

LEMMA WrittenInv ==
  ASSUME HeapInv, NEW o, NEW x, Written(o, x),
         \/ o \in {IP, Key} /\ x \in [bytes : Nat]
         \/ o = Numbers /\ x \in [streams : Seq(Nat)]
         \/ o = Peer /\ x \in [ip : {Nil, IP}, port : Nat]
  PROVE  /\ HeapInv'
         /\ \A kind \in SharedKinds \ {"version"} : Len(Encode(kind)') = Len(Encode(kind))
<1>1. /\ heap' = [heap EXCEPT ![o] = x]
      /\ addrList' = addrList /\ version' = version /\ tag' = tag
      /\ invList' = invList /\ expected' = expected
  BY DEF Written, messageVars
<1>2. /\ HeapTyped(heap)
      /\ heap' \in Seq(Object) /\ SameTypes(heap, heap')
      /\ \A q \in DOMAIN heap : q > Peer => heap'[q] = heap[q]
  <2>1. HeapTyped(heap)
    BY DEF HeapInv
  <2>2. WrittenTo(heap, heap', o, x)
    BY <1>1 DEF WrittenTo
  <2>3. /\ heap' \in Seq(Object)
        /\ \A q \in DOMAIN heap : q > Peer => heap'[q] = heap[q]
        /\ SameTypes(heap, heap')
    BY ONLY <2>1, <2>2, Overwritten
  <2> QED
    BY <2>1, <2>3
<1>3. /\ HeapTyped(heap')
      /\ AddrInv(heap', addrList, expected["addr"])
      /\ VersionInv(heap', version, expected["version"])
      /\ KeyInv(heap', tag, expected["getpubkey"])
      /\ VectorsInv(heap', invList, expected["inv"])
  BY <1>2, MessagesKept DEF HeapInv
<1>4. HeapInv'
  BY <1>1, <1>3 DEF HeapInv
<1>5. /\ AddrTyped(heap, addrList) /\ AddrTyped(heap', addrList)
      /\ InvTyped(heap, invList) /\ InvTyped(heap', invList)
  BY <1>3 DEF HeapInv, AddrInv, VectorsInv
<1>6. /\ Len(EncodedAddr(heap', addrList)) = Len(EncodedAddr(heap, addrList))
      /\ Len(EncodedInv(heap', invList)) = Len(EncodedInv(heap, invList))
  <2>1. /\ AddrCells(EncodedAddr(heap, addrList), heap, addrList)
        /\ AddrCells(EncodedAddr(heap', addrList), heap', addrList)
    BY ONLY <1>5, AddrEncoded
  <2>2. /\ Len(EncodedInv(heap, invList)) = 1 + Len(invList)
        /\ Len(EncodedInv(heap', invList)) = 1 + Len(invList)
    BY ONLY <1>5, InvEncoded
  <2>3. /\ Len(EncodedAddr(heap, addrList)) = 1 + 2 * Len(addrList)
        /\ Len(EncodedAddr(heap', addrList)) = 1 + 2 * Len(addrList)
    BY ONLY <2>1 DEF AddrCells
  <2> QED
    BY ONLY <2>2, <2>3
<1>7. Len(EncodedKey(heap', tag)) = Len(EncodedKey(heap, tag))
  BY DEF EncodedKey
<1>8. /\ Len(Encode("addr")') = Len(Encode("addr"))
      /\ Len(Encode("inv")') = Len(Encode("inv"))
      /\ Len(Encode("getpubkey")') = Len(Encode("getpubkey"))
  BY <1>1, <1>6, <1>7, EncodeIs, EncodeIsNext
<1>9. \A kind \in SharedKinds \ {"version"} : Len(Encode(kind)') = Len(Encode(kind))
  BY ONLY <1>8 DEF SharedKinds
<1> QED
  BY <1>4, <1>9

LEMMA ProgramWritesInv ==
  ASSUME HeapInv, Overwrites \/ SetAddress
  PROVE  /\ HeapInv'
         /\ \A kind \in SharedKinds \ {"version"} : Len(Encode(kind)') = Len(Encode(kind))
<1>1. Cells \subseteq Nat
  BY SharedMessagesAssumption DEF SharedMessagesAssumption
<1>2. CASE Overwrites
  <2>1. PICK cell \in Cells : \/ Written(IP, Bytes(cell))
                              \/ Written(Key, Bytes(cell))
                              \/ Written(Numbers, Streams(<<cell>>))
    BY <1>2 DEF Overwrites
  <2>2. /\ Bytes(cell) \in [bytes : Nat] /\ IP \in {IP, Key} /\ Key \in {IP, Key}
        /\ Streams(<<cell>>) \in [streams : Seq(Nat)]
    BY <1>1 DEF Bytes, Streams
  <2>3. CASE Written(IP, Bytes(cell))
    BY <2>2, <2>3, WrittenInv
  <2>4. CASE Written(Key, Bytes(cell))
    BY <2>2, <2>4, WrittenInv
  <2>5. CASE Written(Numbers, Streams(<<cell>>))
    BY <2>2, <2>5, WrittenInv
  <2> QED
    BY <2>1, <2>3, <2>4, <2>5
<1>3. CASE SetAddress
  <2>1. PICK ip \in {Nil, IP}, port \in Cells : Written(Peer, Address(ip, port))
    BY <1>3 DEF SetAddress
  <2>2. Address(ip, port) \in [ip : {Nil, IP}, port : Nat]
    BY <1>1 DEF Address
  <2> QED
    BY <2>1, <2>2, WrittenInv
<1> QED
  BY <1>2, <1>3

-----------------------------------------------------------------------------
(* The theorems *)

LEMMA DecodesInv ==
  ASSUME HeapInv, Decodes
  PROVE  HeapInv' /\ \E receiver \in SharedKinds : LocalTo(receiver)
<1>1. CASE DecodeAddr
  BY <1>1, DecodeAddrInv DEF SharedKinds
<1>2. CASE DecodeVersion
  BY <1>2, DecodeVersionInv DEF SharedKinds
<1>3. CASE DecodeGetPubKey
  BY <1>3, DecodeGetPubKeyInv DEF SharedKinds
<1>4. CASE DecodeInv
  BY <1>4, DecodeInvInv DEF SharedKinds
<1> QED
  BY <1>1, <1>2, <1>3, <1>4 DEF Decodes

LEMMA HeapStep == HeapInv /\ [Next]_vars => HeapInv'
<1> SUFFICES ASSUME HeapInv, [Next]_vars
             PROVE  HeapInv'
  OBVIOUS
<1>1. CASE NewMsgAddr
  BY <1>1, NewMsgAddrInv
<1>2. CASE AddAddress
  BY <1>2, AddAddressInv
<1>3. CASE NewMsgVersionOf \/ NewMsgVersionFromConn
  BY <1>3, NewMsgVersionInv
<1>4. CASE NewMsgGetPubKey
  BY <1>4, NewMsgGetPubKeyInv
<1>5. CASE AddInvVect
  BY <1>5, AddInvVectInv
<1>6. CASE Decodes
  BY <1>6, DecodesInv
<1>7. CASE Overwrites \/ SetAddress
  BY <1>7, ProgramWritesInv
<1>8. CASE UNCHANGED vars
  BY <1>8 DEF vars, messageVars, HeapInv
<1> QED
  BY <1>1, <1>2, <1>3, <1>4, <1>5, <1>6, <1>7, <1>8 DEF Next

(* The objects of the program and of the messages have their types, and a  *)
(* message that was decoded is encoded from objects of its own to the      *)
(* payload it was decoded from (Decode allocates what it points to).       *)
THEOREM HeapInvariant == Spec => []HeapInv
<1> QED
  BY HeapInit, HeapStep, PTL DEF Spec

(* A message that was decoded, and an inv message of copied hashes, is its *)
(* own: no call on another message, and nothing that the program writes to *)
(* its objects, changes what it is encoded to (NewInvVect and the Decode   *)
(* methods copy).                                                          *)
THEOREM OwnedKeep == Spec => []OwnedMessagesKeep
<1>1. HeapInv => OwnedMessagesKeep
  <2> SUFFICES ASSUME HeapInv, NEW kind \in SharedKinds, expected[kind] # <<>>
               PROVE  Encode(kind) = expected[kind][1]
    BY DEF OwnedMessagesKeep
  <2>1. expected[kind] = <<Encode(kind)>>
    <3>1. CASE kind = "addr"
      BY <3>1, EncodeIs DEF HeapInv, AddrInv
    <3>2. CASE kind = "version"
      BY <3>2, EncodeIs DEF HeapInv, VersionInv
    <3>3. CASE kind = "getpubkey"
      BY <3>3, EncodeIs DEF HeapInv, KeyInv
    <3>4. CASE kind = "inv"
      BY <3>4, EncodeIs DEF HeapInv, VectorsInv
    <3> QED
      BY <3>1, <3>2, <3>3, <3>4 DEF SharedKinds
  <2> QED
    BY <2>1
<1> QED
  BY <1>1, HeapInvariant, PTL

(* Decode writes to new objects only: those of the program, and what every *)
(* message but the receiver is encoded to, stay as they were (the decoders *)
(* assign new addresses, slices and keys to the fields of the receiver).   *)
THEOREM DecodesLocally == Spec => DecodeIsLocal
<1>1. HeapInv /\ [Next]_vars =>
        [Decodes =>
           /\ \A object \in DOMAIN ProgramObjects : heap'[object] = heap[object]
           /\ \E receiver \in SharedKinds : \A kind \in SharedKinds \ {receiver} :
                Encode(kind)' = Encode(kind)]_vars
  <2> SUFFICES ASSUME HeapInv, Decodes
               PROVE  /\ \A object \in DOMAIN ProgramObjects : heap'[object] = heap[object]
                      /\ \E receiver \in SharedKinds : \A kind \in SharedKinds \ {receiver} :
                           Encode(kind)' = Encode(kind)
    OBVIOUS
  <2>1. PICK receiver \in SharedKinds : LocalTo(receiver)
    BY DecodesInv
  <2> QED
    BY <2>1 DEF LocalTo
<1> QED
  BY <1>1, HeapInvariant, PTL DEF Spec, DecodeIsLocal

(* What the program writes to addresses and keys that it shares with addr, *)
(* getpubkey and inv messages changes no length: a message that was within *)
(* its limit still is (an address is written in the same number of bytes   *)
(* whether its IP is nil or not).                                          *)
THEOREM LengthsKept == Spec => LengthsKeep
<1>1. HeapInv /\ [Next]_vars =>
        [Overwrites \/ SetAddress =>
           \A kind \in SharedKinds \ {"version"} :
             Len(Encode(kind)') = Len(Encode(kind))]_vars
  BY ProgramWritesInv
<1> QED
  BY <1>1, HeapInvariant, PTL DEF Spec, LengthsKeep
=============================================================================
