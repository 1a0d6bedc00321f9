---------------------------- MODULE HashTextProofs ---------------------------
(***************************************************************************)
(* For a hash of any size and digits of any radix: the text that a hash is *)
(* printed as is read as that hash again, and a text that is read is the   *)
(* numeral of the hash.                                                    *)
(***************************************************************************)
EXTENDS HashText, WellFoundedInduction, TLAPS

(* The invariant says of the hash that it has its size, of a text that was *)
(* printed that it is the one of this hash, and of one that was scanned    *)
(* that this hash was made from it.                                        *)
HashInv ==
  /\ hash \in Hash
  /\ last.op = "print" => text = String(hash)
  /\ last.op = "scan" /\ last.err = "nil" =>
       text \in Texts /\ NewHashFromStr(text) = [hash |-> hash, err |-> "nil"]

-----------------------------------------------------------------------------
(* Induction *)

(* A set of natural numbers has a least member.                            *)
LEMMA LeastMember ==
  ASSUME NEW T \in SUBSET Nat, T # {}
  PROVE  \E x \in T : \A y \in T : x <= y
<1> DEFINE R == {ss \in Nat \X Nat : ss[1] < ss[2]}
<1>1. IsWellFoundedOn(R, Nat)
  BY NatLessThanWellFounded DEF OpToRel
<1>2. \A y, x \in Nat : y < x => <<y, x>> \in R
  OBVIOUS
<1> HIDE DEF R
<1>3. PICK x \in T : \A y \in T : ~ (<<y, x>> \in R)
  BY <1>1, WFMin
<1>4. ASSUME NEW y \in T
      PROVE  x <= y
  <2>1. x \in Nat /\ y \in Nat
    BY <1>3
  <2>2. ~ (y < x)
    BY <1>2, <1>3, <2>1, Zenon
  <2> QED
    BY <2>1, <2>2
<1> QED
  BY <1>4

(* Induction over the natural numbers, with a set in place of a predicate: *)
(* the provers can instantiate a set.                                      *)
LEMMA Induction ==
  ASSUME NEW S, 0 \in S, \A n \in Nat : n \in S => n + 1 \in S
  PROVE  \A n \in Nat : n \in S
<1> SUFFICES ASSUME Nat \ S # {}
             PROVE  FALSE
  OBVIOUS
<1>1. Nat \ S \in SUBSET Nat
  OBVIOUS
<1>2. PICK x \in Nat \ S : \A y \in Nat \ S : x <= y
  BY <1>1, LeastMember
<1>3. x - 1 \in Nat /\ x - 1 \in S
  BY <1>2
<1> QED
  BY <1>2, <1>3

-----------------------------------------------------------------------------
(* encoding/hex *)

(* Two digits for every byte, and no other characters.                     *)
LEMMA EncodedShape ==
  ASSUME NEW h \in Hash
  PROVE  EncodeToString(h) \in [1..(2 * HashSize) -> 0..(Radix - 1)]
<1>1. HashSize \in Nat /\ Radix \in Nat \ {0}
  BY HashTextAssumption DEF HashTextAssumption
<1>2. h \in Seq(Byte) /\ Len(h) = HashSize
  BY <1>1 DEF Hash
<1>3. ASSUME NEW i \in 1..(2 * HashSize)
      PROVE  (IF i % 2 = 1 THEN h[(i + 1) \div 2][1] ELSE h[i \div 2][2])
               \in 0..(Radix - 1)
  <2>1. CASE i % 2 = 1
    <3>1. (i + 1) \div 2 \in 1..HashSize
      BY <1>1, <1>3, <2>1
    <3> QED
      BY <2>1, <3>1 DEF Hash, Byte
  <2>2. CASE i % 2 # 1
    <3>1. i \div 2 \in 1..HashSize
      BY <1>1, <1>3, <2>2
    <3> QED
      BY <2>2, <3>1 DEF Hash, Byte
  <2> QED
    BY <2>1, <2>2
<1> QED
  BY <1>2, <1>3 DEF EncodeToString

(* Decoding undoes encoding.                                               *)
LEMMA DecodeEncode ==
  ASSUME NEW h \in Hash
  PROVE  DecodeString(Padded(EncodeToString(h))) = [bytes |-> h, err |-> "nil"]
<1> DEFINE chars == EncodeToString(h)
<1>1. HashSize \in Nat /\ Radix \in Nat \ {0}
  BY HashTextAssumption DEF HashTextAssumption
<1>2. Len(h) = HashSize /\ DOMAIN h = 1..HashSize
  BY <1>1 DEF Hash
<1>3. chars \in [1..(2 * HashSize) -> 0..(Radix - 1)]
  BY EncodedShape
<1>4. chars \in Seq(Int) /\ Len(chars) = 2 * HashSize
  BY <1>1, <1>3
<1>5. Padded(chars) = chars
  BY <1>1, <1>4 DEF Padded
<1>6. \A c \in 0..(Radix - 1) : Digit(c) = c /\ c # Other
  BY <1>1 DEF Digit, Capital, Other
<1>7. Len(chars) \div 2 = HashSize
  BY <1>1, <1>4
<1>8. ASSUME NEW k \in 1..HashSize
      PROVE  <<Digit(chars[2 * k - 1]), Digit(chars[2 * k])>> = h[k]
  <2>1. /\ 2 * k - 1 \in 1..(2 * HashSize) /\ 2 * k \in 1..(2 * HashSize)
        /\ (2 * k - 1) % 2 = 1 /\ ((2 * k - 1) + 1) \div 2 = k
        /\ (2 * k) % 2 # 1 /\ (2 * k) \div 2 = k
    BY <1>1, <1>8
  <2>2. chars[2 * k - 1] = h[k][1] /\ chars[2 * k] = h[k][2]
    BY <1>2, <2>1 DEF EncodeToString
  <2>3. h[k] = <<h[k][1], h[k][2]>>
    BY <1>8 DEF Hash, Byte
  <2>4. chars[2 * k - 1] \in 0..(Radix - 1) /\ chars[2 * k] \in 0..(Radix - 1)
    BY <1>3, <2>1
  <2> QED
    BY <1>6, <2>2, <2>3, <2>4
<1>9. \A i \in DOMAIN chars : chars[i] # Other
  BY <1>3, <1>6
<1> HIDE DEF chars
<1>10. [k \in 1..(Len(chars) \div 2) |->
          <<Digit(chars[2 * k - 1]), Digit(chars[2 * k])>>] = h
  BY <1>7, <1>8, <1>2 DEF Hash
<1>11. DecodeString(chars) = [bytes |-> h, err |-> "nil"]
  BY <1>9, <1>10 DEF DecodeString
<1> QED
  BY <1>5, <1>11 DEF chars

-----------------------------------------------------------------------------
(* The order of the bytes *)

(* Both exchanges reach every byte that is not its own counterpart.        *)
LEMMA HalfReachesAll ==
  ASSUME NEW n \in Nat, NEW k \in 1..n
  PROVE  /\ k <= n \div 2 \/ n + 1 - k <= n \div 2 \/ n + 1 - k = k
         /\ k <= (n + 1) \div 2 \/ n + 1 - k <= (n + 1) \div 2
OBVIOUS

(* What String encodes: the bytes in the opposite order.                   *)
LEMMA PrintedOrder ==
  ASSUME NEW h \in Hash
  PROVE  String(h) = EncodeToString([k \in 1..HashSize |-> h[HashSize + 1 - k]])
<1>1. HashSize \in Nat
  BY HashTextAssumption DEF HashTextAssumption
<1>2. ASSUME NEW k \in 1..HashSize
      PROVE  Exchanged(h, HashSize, HashSize \div 2, k) = h[HashSize + 1 - k]
  BY <1>1, HalfReachesAll DEF Exchanged
<1> QED
  BY <1>2 DEF String

(* Reading undoes printing.                                                *)
LEMMA ReadsPrinted ==
  ASSUME NEW h \in Hash
  PROVE  NewHashFromStr(String(h)) = [hash |-> h, err |-> "nil"]
<1> DEFINE back == [k \in 1..HashSize |-> h[HashSize + 1 - k]]
<1>1. HashSize \in Nat
  BY HashTextAssumption DEF HashTextAssumption
<1>2. back \in Hash /\ Len(back) = HashSize
  BY <1>1 DEF Hash
<1>3. String(h) = EncodeToString(back)
  BY PrintedOrder
<1>4. DecodeString(Padded(String(h))) = [bytes |-> back, err |-> "nil"]
  BY <1>2, <1>3, DecodeEncode
<1>5. Len(String(h)) = 2 * HashSize
  BY <1>1, <1>2, <1>3, EncodedShape
<1>6. Unreversed(back) = h
  <2>1. ASSUME NEW k \in 1..HashSize
        PROVE  Unreversed(back)[k] = h[k]
    <3>1. Unreversed(back)[k] = back[HashSize + 1 - k]
      BY <1>1, <1>2, HalfReachesAll DEF Unreversed
    <3> QED
      BY <1>1, <3>1
  <2> QED
    BY <2>1 DEF Unreversed, Hash
<1> HIDE DEF back
<1> QED
  BY <1>1, <1>4, <1>5, <1>6 DEF NewHashFromStr

-----------------------------------------------------------------------------
(* The numeral *)

(* The values of the first digits of a numeral, one after another.         *)
Horner(f, r, d, n) ==
  f = [i \in 0..n |-> IF i = 0 THEN 0 ELSE f[i - 1] * r + d[i]]

LEMMA HornerExists ==
  ASSUME NEW r, NEW d
  PROVE  \A n \in Nat : \E f : Horner(f, r, d, n)
<1> DEFINE S == {n \in Nat : \E f : Horner(f, r, d, n)}
<1> USE DEF Horner
<1>1. 0 \in S
  <2> DEFINE f == [i \in 0..0 |-> 0]
  <2>1. Horner(f, r, d, 0)
    OBVIOUS
  <2> QED
    BY <2>1
<1>2. ASSUME NEW n \in Nat, n \in S
      PROVE  n + 1 \in S
  <2>1. PICK f : Horner(f, r, d, n)
    BY <1>2
  <2> DEFINE g == [i \in 0..(n + 1) |->
                     IF i = n + 1 THEN f[n] * r + d[n + 1] ELSE f[i]]
  <2>2. ASSUME NEW i \in 0..(n + 1)
        PROVE  g[i] = IF i = 0 THEN 0 ELSE g[i - 1] * r + d[i]
    <3>1. CASE i = n + 1
      <4>1. i # 0 /\ i - 1 = n /\ n \in 0..(n + 1) /\ n # n + 1
        BY <3>1
      <4>2. g[i] = f[n] * r + d[n + 1] /\ g[i - 1] = f[n]
        BY <3>1, <4>1
      <4> QED
        BY <3>1, <4>1, <4>2
    <3>2. CASE i # n + 1
      <4>1. i \in 0..n
        BY <3>2
      <4>2. g[i] = f[i]
        BY <3>2
      <4>3. f[i] = IF i = 0 THEN 0 ELSE f[i - 1] * r + d[i]
        BY <2>1, <4>1
      <4>4. i # 0 => g[i - 1] = f[i - 1]
        BY <4>1
      <4> QED
        BY <4>2, <4>3, <4>4
    <3> QED
      BY <3>1, <3>2
  <2>3. Horner(g, r, d, n + 1)
    BY <2>2
  <2> HIDE DEF g, Horner
  <2> QED
    BY <2>3
<1> HIDE DEF S, Horner
<1>3. \A n \in Nat : n \in S
  BY <1>1, <1>2, Induction
<1> QED
  BY <1>3 DEF S

(* The fold of Numeral is defined.                                         *)
LEMMA NumeralFold ==
  ASSUME NEW chars, Len(chars) \in Nat
  PROVE  \E u : /\ Numeral(chars) = u[Len(chars)]
                /\ u[0] = 0
                /\ \A i \in 1..Len(chars) :
                     u[i] = u[i - 1] * Radix + Digit(chars[i])
<1> DEFINE n == Len(chars)
           d == [i \in 1..n |-> Digit(chars[i])]
           Fold(f) == f = [i \in 0..n |-> IF i = 0 THEN 0
                                         ELSE f[i - 1] * Radix + Digit(chars[i])]
           u == CHOOSE f : Fold(f)
<1>1. PICK f : Horner(f, Radix, d, n)
  <2>1. n \in Nat
    OBVIOUS
  <2> HIDE DEF d, n
  <2> QED
    BY <2>1, HornerExists
<1>2. Fold(f)
  <2>1. \A i \in 0..n : i # 0 => d[i] = Digit(chars[i])
    OBVIOUS
  <2> HIDE DEF d
  <2> QED
    BY <1>1, <2>1 DEF Horner
<1>3. Numeral(chars) = u[n]
  BY DEF Numeral
<1>4. Fold(u)
  <2> HIDE DEF Fold
  <2> QED
    BY <1>2
<1> HIDE DEF u
<1>5. u[0] = 0 /\ \A i \in 1..n : u[i] = u[i - 1] * Radix + Digit(chars[i])
  BY <1>4
<1> QED
  BY <1>3, <1>5

(* The fold of Number is defined: it is the same fold over the digits of   *)
(* the bytes from the last one.                                            *)
LEMMA NumberFold ==
  ASSUME NEW h
  PROVE  \E w : /\ Number(h) = w[1]
                /\ w[HashSize + 1] = 0
                /\ \A k \in 1..HashSize :
                     w[k] = (w[k + 1] * Radix + h[k][1]) * Radix + h[k][2]
<1> DEFINE d == [i \in 1..(2 * HashSize) |->
                   IF i % 2 = 1 THEN h[HashSize + 1 - (i + 1) \div 2][1]
                                ELSE h[HashSize + 1 - i \div 2][2]]
           Fold(f) == f = [k \in 1..(HashSize + 1) |->
                             IF k > HashSize THEN 0
                             ELSE (f[k + 1] * Radix + h[k][1]) * Radix + h[k][2]]
           w == CHOOSE f : Fold(f)
<1>0. HashSize \in Nat
  BY HashTextAssumption DEF HashTextAssumption
<1>1. PICK f : Horner(f, Radix, d, 2 * HashSize)
  <2>1. 2 * HashSize \in Nat
    BY <1>0
  <2> HIDE DEF d
  <2> QED
    BY <2>1, HornerExists
<1> DEFINE g == [k \in 1..(HashSize + 1) |-> f[2 * (HashSize + 1 - k)]]
<1>2. Fold(g)
  <2>1. ASSUME NEW k \in 1..(HashSize + 1)
        PROVE  g[k] = IF k > HashSize THEN 0
                      ELSE (g[k + 1] * Radix + h[k][1]) * Radix + h[k][2]
    <3>1. CASE k > HashSize
      <4>1. k = HashSize + 1 /\ 2 * (HashSize + 1 - k) = 0
            /\ 0 \in 0..(2 * HashSize)
        BY <1>0, <3>1
      <4>2. f[0] = 0
        <5> HIDE DEF d
        <5> QED
          BY <1>1, <4>1 DEF Horner
      <4> QED
        BY <3>1, <4>1, <4>2
    <3>2. CASE ~ (k > HashSize)
      <4> DEFINE i == 2 * (HashSize + 1 - k)
      <4>1. /\ i \in 2..(2 * HashSize) /\ i % 2 # 1
            /\ (i - 1) % 2 = 1 /\ ((i - 1) + 1) \div 2 = HashSize + 1 - k
            /\ i \div 2 = HashSize + 1 - k /\ i - 2 = 2 * (HashSize + 1 - (k + 1))
            /\ HashSize + 1 - (HashSize + 1 - k) = k
        BY <1>0, <3>2
      <4>2. d[i - 1] = h[k][1] /\ d[i] = h[k][2]
        BY <1>0, <4>1
      <4>3. g[k] = f[i] /\ g[k + 1] = f[i - 2]
        BY <1>0, <3>2, <4>1
      <4> HIDE DEF i, d, g
      <4>4. /\ i \in 0..(2 * HashSize) /\ i # 0
            /\ i - 1 \in 0..(2 * HashSize) /\ i - 1 # 0
            /\ (i - 1) - 1 = i - 2
        BY <1>0, <4>1
      <4>5. f[i] = f[i - 1] * Radix + d[i]
        BY <1>1, <4>4 DEF Horner
      <4>6. f[i - 1] = f[(i - 1) - 1] * Radix + d[i - 1]
        BY <1>1, <4>4 DEF Horner
      <4> QED
        BY <3>2, <4>2, <4>3, <4>4, <4>5, <4>6
    <3> QED
      BY <3>1, <3>2
  <2> QED
    BY <2>1
<1>3. Number(h) = w[1]
  BY DEF Number
<1>4. Fold(w)
  <2> HIDE DEF Fold, g
  <2> QED
    BY <1>2
<1> HIDE DEF w
<1> HIDE DEF d, g
<1>5. HashSize + 1 \in 1..(HashSize + 1) /\ HashSize + 1 > HashSize
  BY <1>0
<1>6. w[HashSize + 1] = 0
  BY <1>4, <1>5
<1>7. ASSUME NEW k \in 1..HashSize
      PROVE  w[k] = (w[k + 1] * Radix + h[k][1]) * Radix + h[k][2]
  <2>1. k \in 1..(HashSize + 1) /\ ~ (k > HashSize)
    BY <1>0
  <2> QED
    BY <1>4, <2>1
<1> QED
  BY <1>3, <1>6, <1>7

(* A zero in front does not change a numeral.                              *)
LEMMA PaddingIsNothing ==
  ASSUME NEW chars \in Seq(Chars)
  PROVE  Numeral(Padded(chars)) = Numeral(chars)
<1>1. /\ Radix \in Nat \ {0} /\ Radix \in Int
      /\ Len(chars) \in Nat /\ Chars \subseteq Int /\ 0 \in Chars
  BY HashTextAssumption DEF HashTextAssumption, Chars, Other
<1>2. CASE Len(chars) % 2 = 0
  BY <1>1, <1>2 DEF Padded
<1>3. CASE Len(chars) % 2 # 0
  <2> DEFINE p == <<0>> \o chars
  <2>1. /\ Padded(chars) = p /\ Len(p) = Len(chars) + 1 /\ p[1] = 0
        /\ \A i \in 1..Len(chars) : p[i + 1] = chars[i]
    BY <1>1, <1>3 DEF Padded
  <2> HIDE DEF p
  <2>2. PICK u : /\ Numeral(chars) = u[Len(chars)]
                 /\ u[0] = 0
                 /\ \A i \in 1..Len(chars) :
                      u[i] = u[i - 1] * Radix + Digit(chars[i])
    BY <1>1, NumeralFold
  <2>3. PICK v : /\ Numeral(p) = v[Len(p)]
                 /\ v[0] = 0
                 /\ \A i \in 1..Len(p) :
                      v[i] = v[i - 1] * Radix + Digit(p[i])
    BY <1>1, <2>1, NumeralFold, SMTT(30)
  <2> DEFINE S == {i \in Nat : i <= Len(chars) => v[i + 1] = u[i]}
  <2>4. 0 \in S
    <3>1. Digit(0) = 0 /\ 0 * Radix + 0 = 0
      BY <1>1 DEF Digit, Capital
    <3>2. 1 \in 1..Len(p) /\ 1 - 1 = 0
      BY <1>1, <2>1
    <3>3. v[1] = 0
      BY <2>1, <2>3, <3>1, <3>2
    <3> QED
      BY <2>2, <3>3
  <2>5. ASSUME NEW i \in Nat, i \in S
        PROVE  i + 1 \in S
    <3>1. SUFFICES ASSUME i + 1 <= Len(chars)
                   PROVE  v[(i + 1) + 1] = u[i + 1]
      OBVIOUS
    <3>2. /\ i + 1 \in 1..Len(chars) /\ (i + 1) - 1 = i
          /\ (i + 1) + 1 \in 1..Len(p) /\ ((i + 1) + 1) - 1 = i + 1
          /\ i <= Len(chars)
      BY <1>1, <2>1, <3>1
    <3>3. v[i + 1] = u[i]
      BY <2>5, <3>2
    <3>4. v[(i + 1) + 1] = v[i + 1] * Radix + Digit(chars[i + 1])
      BY <2>1, <2>3, <3>2
    <3>5. u[i + 1] = u[i] * Radix + Digit(chars[i + 1])
      BY <2>2, <3>2
    <3> QED
      BY <3>3, <3>4, <3>5
  <2> HIDE DEF S
  <2>6. Len(chars) \in S
    BY <1>1, <2>4, <2>5, Induction
  <2> QED
    BY <1>1, <2>1, <2>2, <2>3, <2>6 DEF S
<1> QED
  BY <1>1, <1>2, <1>3

(* The bytes that were decoded stand in the hash from its lowest byte on,  *)
(* and have the value of the digits that they were decoded from.           *)
LEMMA NumberOfDecoded ==
  ASSUME NEW p \in Seq(Chars), NEW n \in Nat, Len(p) = 2 * n, n <= HashSize
  PROVE  Number(Unreversed(DecodeString(p).bytes)) = Numeral(p)
<1> DEFINE bytes == DecodeString(p).bytes
           h     == Unreversed(bytes)
<1>1. HashSize \in Nat
  BY HashTextAssumption DEF HashTextAssumption
<1>2. bytes = [k \in 1..n |-> <<Digit(p[2 * k - 1]), Digit(p[2 * k])>>]
  <2>1. (2 * n) \div 2 = n
    OBVIOUS
  <2> QED
    BY <2>1 DEF DecodeString
<1>3. Len(bytes) = n
  BY <1>2
<1>4. ASSUME NEW k \in 1..HashSize
      PROVE  h[k] = IF k <= n THEN bytes[n + 1 - k] ELSE ZeroByte
  BY <1>1, <1>3, HalfReachesAll DEF Unreversed
<1>5. PICK w : /\ Number(h) = w[1]
               /\ w[HashSize + 1] = 0
               /\ \A k \in 1..HashSize :
                    w[k] = (w[k + 1] * Radix + h[k][1]) * Radix + h[k][2]
  BY NumberFold
<1>6. PICK u : /\ Numeral(p) = u[2 * n]
               /\ u[0] = 0
               /\ \A i \in 1..(2 * n) :
                    u[i] = u[i - 1] * Radix + Digit(p[i])
  <2>1. Len(p) \in Nat
    OBVIOUS
  <2> QED
    BY <2>1, NumeralFold
<1> HIDE DEF h, bytes
(* The bytes above those of the text are zero.                             *)
<1> DEFINE Z == {j \in Nat : j <= HashSize - n => w[HashSize + 1 - j] = 0}
<1>7. \A j \in Nat : j \in Z
  <2>1. 0 \in Z
    BY <1>1, <1>5
  <2>2. ASSUME NEW j \in Nat, j \in Z
        PROVE  j + 1 \in Z
    <3>1. SUFFICES ASSUME j + 1 <= HashSize - n
                   PROVE  w[HashSize + 1 - (j + 1)] = 0
      OBVIOUS
    <3> DEFINE k == HashSize - j
    <3>2. /\ k \in 1..HashSize /\ ~ (k <= n) /\ j <= HashSize - n
          /\ HashSize + 1 - (j + 1) = k /\ HashSize + 1 - j = k + 1
      BY <1>1, <3>1
    <3>3. h[k] = <<0, 0>>
      BY <1>4, <3>2 DEF ZeroByte
    <3>4. w[k + 1] = 0
      BY <2>2, <3>2
    <3>5. w[k] = (0 * Radix + 0) * Radix + 0
      BY <1>5, <3>2, <3>3, <3>4
    <3>6. (0 * Radix + 0) * Radix + 0 = 0
      BY HashTextAssumption DEF HashTextAssumption
    <3> HIDE DEF k
    <3> QED
      BY <3>2, <3>5, <3>6
  <2> HIDE DEF Z
  <2> QED
    BY <2>1, <2>2, Induction
(* Two digits more are one byte more.                                      *)
<1> DEFINE S == {j \in Nat : j <= n => w[n + 1 - j] = u[2 * j]}
<1>8. \A j \in Nat : j \in S
  <2>1. 0 \in S
    <3>1. HashSize - n \in Nat /\ HashSize + 1 - (HashSize - n) = n + 1
      BY <1>1
    <3>2. w[n + 1] = 0
      BY <1>7, <3>1
    <3> QED
      BY <1>6, <3>2
  <2>2. ASSUME NEW j \in Nat, j \in S
        PROVE  j + 1 \in S
    <3>1. SUFFICES ASSUME j + 1 <= n
                   PROVE  w[n + 1 - (j + 1)] = u[2 * (j + 1)]
      OBVIOUS
    <3> DEFINE k == n - j
               i == 2 * j + 1
    <3>2. /\ k \in 1..HashSize /\ k <= n /\ j <= n
          /\ n + 1 - (j + 1) = k /\ n + 1 - j = k + 1
          /\ n + 1 - k = j + 1 /\ j + 1 \in 1..n
          /\ 2 * (j + 1) = i + 1 /\ 2 * (j + 1) - 1 = i /\ i - 1 = 2 * j
          /\ (i + 1) - 1 = i
          /\ i \in 1..(2 * n) /\ i + 1 \in 1..(2 * n)
      BY <1>1, <3>1
    <3> HIDE DEF k, i
    <3>3. h[k] = bytes[j + 1]
      BY <1>4, <3>2
    <3>4. bytes[j + 1] = <<Digit(p[i]), Digit(p[i + 1])>>
      BY <1>2, <3>2
    <3>5. h[k][1] = Digit(p[i]) /\ h[k][2] = Digit(p[i + 1])
      BY <3>3, <3>4
    <3>6. w[k + 1] = u[2 * j]
      BY <2>2, <3>2
    <3>7. w[k] = (u[2 * j] * Radix + Digit(p[i])) * Radix + Digit(p[i + 1])
      BY <1>5, <3>2, <3>5, <3>6
    <3>8. u[i] = u[2 * j] * Radix + Digit(p[i])
      BY <1>6, <3>2
    <3>9. u[i + 1] = u[i] * Radix + Digit(p[i + 1])
      BY <1>6, <3>2
    <3> QED
      BY <3>2, <3>7, <3>8, <3>9
  <2> HIDE DEF S
  <2> QED
    BY <2>1, <2>2, Induction
<1>9. w[1] = u[2 * n]
  <2>1. n + 1 - n = 1
    OBVIOUS
  <2> QED
    BY <1>8, <2>1
<1> QED
  BY <1>5, <1>6, <1>9 DEF h, bytes

(* A text that is accepted is the numeral of the hash that it gives.       *)
LEMMA ScannedNumeral ==
  ASSUME NEW chars \in Seq(Chars), NewHashFromStr(chars).err = "nil"
  PROVE  Numeral(chars) = Number(NewHashFromStr(chars).hash)
<1> DEFINE p == Padded(chars)
           n == Len(p) \div 2
<1>1. /\ HashSize \in Nat /\ Len(chars) \in Nat
      /\ 0 \in Chars /\ Chars \subseteq Int
  BY HashTextAssumption DEF HashTextAssumption, Chars, Other
<1>2. /\ ~ (Len(chars) > 2 * HashSize)
      /\ NewHashFromStr(chars).hash = Unreversed(DecodeString(p).bytes)
  BY DEF NewHashFromStr
<1>3. p \in Seq(Chars) /\ Len(p) \in Nat
      /\ Len(p) = IF Len(chars) % 2 # 0 THEN Len(chars) + 1 ELSE Len(chars)
  BY <1>1 DEF Padded
<1> HIDE DEF p
<1>4. n \in Nat /\ Len(p) = 2 * n /\ n <= HashSize
  <2>1. \A l, m \in Nat :
          m = (IF l % 2 # 0 THEN l + 1 ELSE l) /\ l <= 2 * HashSize =>
            m \div 2 \in Nat /\ m = 2 * (m \div 2) /\ m \div 2 <= HashSize
    BY <1>1
  <2>2. Len(chars) \in Nat /\ Len(chars) <= 2 * HashSize
    BY <1>1, <1>2
  <2>3. Len(p) \in Nat
        /\ Len(p) = IF Len(chars) % 2 # 0 THEN Len(chars) + 1 ELSE Len(chars)
    BY <1>3
  <2> QED
    BY <2>1, <2>2, <2>3
<1> HIDE DEF n
<1>5. Number(Unreversed(DecodeString(p).bytes)) = Numeral(p)
  BY <1>3, <1>4, NumberOfDecoded
<1> QED
  BY <1>2, <1>5, PaddingIsNothing DEF p

-----------------------------------------------------------------------------
(* The calls *)

(* A text that is accepted gives a hash of the right size.                 *)
LEMMA ScannedShape ==
  ASSUME NEW chars \in Texts, NewHashFromStr(chars).err = "nil"
  PROVE  NewHashFromStr(chars).hash \in Hash
<1> DEFINE p == Padded(chars)
           d == DecodeString(p)
<1>1. HashSize \in Nat /\ Radix \in Nat \ {0} /\ chars \in Seq(Chars)
  BY HashTextAssumption DEF HashTextAssumption
<1>2. 0 \in Chars /\ Chars \subseteq Int
  BY <1>1 DEF Chars, Other
<1>3. p \in Seq(Chars)
  BY <1>1, <1>2 DEF Padded
<1>4. d.err = "nil" /\ NewHashFromStr(chars).hash = Unreversed(d.bytes)
  BY DEF NewHashFromStr
<1>5. \A i \in 1..Len(p) : p[i] # Other
  BY <1>3, <1>4 DEF DecodeString
<1>6. \A i \in 1..Len(p) : Digit(p[i]) \in 0..(Radix - 1)
  BY <1>1, <1>3, <1>5 DEF Chars, Other, Digit, Capital
<1> HIDE DEF p
<1> DEFINE n == Len(p) \div 2
<1>7. Len(p) \in Nat /\ n \in Nat /\ 2 * n <= Len(p)
  BY <1>3
<1>8. d.bytes = [k \in 1..n |-> <<Digit(p[2 * k - 1]), Digit(p[2 * k])>>]
  BY DEF DecodeString
<1>9. \A k \in 1..n : 2 * k - 1 \in 1..Len(p) /\ 2 * k \in 1..Len(p)
  BY <1>7
<1> HIDE DEF n
<1>10. d.bytes \in [1..n -> Byte] /\ Len(d.bytes) = n
  BY <1>6, <1>7, <1>8, <1>9 DEF Byte
<1> HIDE DEF d
<1>11. ZeroByte \in Byte
  BY <1>1 DEF ZeroByte, Byte
<1>12. ASSUME NEW k \in 1..HashSize
       PROVE  (IF k <= n /\ (k <= (n + 1) \div 2 \/ n + 1 - k <= (n + 1) \div 2)
               THEN d.bytes[n + 1 - k] ELSE ZeroByte) \in Byte
  <2>1. k <= n => n + 1 - k \in 1..n
    BY <1>1, <1>7
  <2> QED
    BY <1>10, <1>11, <2>1
<1>13. Unreversed(d.bytes) \in Hash
  BY <1>10, <1>12 DEF Unreversed, Hash
<1> QED
  BY <1>4, <1>13

(* Every call keeps the invariant.                                         *)
LEMMA NextKeepsInv == HashInv /\ [Next]_vars => HashInv'
<1> SUFFICES ASSUME HashInv, [Next]_vars
             PROVE  HashInv'
  OBVIOUS
<1>1. CASE SetBytes
  <2>1. PICK bytes \in Slices :
          /\ hash' = IF Len(bytes) = HashSize THEN bytes ELSE hash
          /\ last'.op = "set"
    BY <1>1 DEF SetBytes
  <2>2. bytes \in Seq(Byte)
    BY HashTextAssumption DEF HashTextAssumption
  <2>3. Len(bytes) = HashSize => bytes \in Hash
    BY <2>2 DEF Hash
  <2> QED
    BY <2>1, <2>3 DEF HashInv
<1>2. CASE Prints
  BY <1>2 DEF Prints, HashInv
<1>3. CASE Scans
  <2>1. PICK chars \in Texts :
          /\ hash' = IF NewHashFromStr(chars).err = "nil"
                     THEN NewHashFromStr(chars).hash ELSE hash
          /\ text' = IF NewHashFromStr(chars).err = "nil" THEN chars ELSE <<>>
          /\ last'.op = "scan" /\ last'.err = NewHashFromStr(chars).err
    BY <1>3 DEF Scans
  <2>2. NewHashFromStr(chars) = [hash |-> NewHashFromStr(chars).hash,
                                 err |-> NewHashFromStr(chars).err]
    BY DEF NewHashFromStr
  <2> QED
    BY <2>1, <2>2, ScannedShape DEF HashInv
<1>4. CASE UNCHANGED vars
  BY <1>4 DEF vars, HashInv
<1> QED
  BY <1>1, <1>2, <1>3, <1>4 DEF Next

(* The invariant holds.                                                    *)
LEMMA InvHolds == Spec => []HashInv
<1>1. Init => HashInv
  <2>1. Zeros \in Hash
    BY HashTextAssumption
       DEF HashTextAssumption, Zeros, ZeroByte, Hash, Byte
  <2> QED
    BY <2>1 DEF Init, HashInv
<1> QED
  BY <1>1, NextKeepsInv, PTL DEF Spec

(* shahash.go:25 and 72: for hashes of every size, the text that String    *)
(* gives is one that NewShaHashFromStr reads as the same hash, after every *)
(* sequence of calls.                                                      *)
THEOREM ReadsBack == Spec => []PrintedReadsBack
<1>1. HashInv => PrintedReadsBack
  BY ReadsPrinted DEF HashInv, PrintedReadsBack
<1> QED
  BY <1>1, InvHolds, PTL

(* shahash.go:25 and 72: the hash keeps its size whatever text it is read  *)
(* from, and its own text has two digits for each byte.                    *)
THEOREM HashTyped == Spec => []HashTypeOK
<1>1. HashInv => HashTypeOK
  <2> SUFFICES ASSUME HashInv
               PROVE  HashTypeOK
    OBVIOUS
  <2>1. String(hash) \in [1..(2 * HashSize) -> 0..(Radix - 1)]
    <3> DEFINE back == [k \in 1..HashSize |-> hash[HashSize + 1 - k]]
    <3>1. back \in Hash
      BY HashTextAssumption DEF HashTextAssumption, HashInv, Hash
    <3>2. String(hash) = EncodeToString(back)
      BY PrintedOrder DEF HashInv
    <3> QED
      BY <3>1, <3>2, EncodedShape
  <2> QED
    BY <2>1 DEF HashInv, HashTypeOK
<1> QED
  BY <1>1, InvHolds, PTL

(* shahash.go:72: for hashes of every size, a text that NewShaHashFromStr  *)
(* accepts, of whatever length, and a text that String gives, is the       *)
(* numeral of the hash.                                                    *)
THEOREM NumeralIsText == Spec => []TextIsNumeral
<1>1. HashInv => TextIsNumeral
  <2> SUFFICES ASSUME HashInv, last.op \in {"scan", "print"}, last.err = "nil"
               PROVE  Numeral(text) = Number(hash)
    BY DEF TextIsNumeral
  <2>1. NewHashFromStr(text) = [hash |-> hash, err |-> "nil"]
    BY ReadsPrinted DEF HashInv
  <2>2. text \in Seq(Chars)
    <3>1. CASE last.op = "scan"
      BY <3>1, HashTextAssumption DEF HashInv, HashTextAssumption
    <3>2. CASE last.op = "print"
      <4> DEFINE back == [k \in 1..HashSize |-> hash[HashSize + 1 - k]]
      <4>1. HashSize \in Nat /\ Radix \in Nat
        BY HashTextAssumption DEF HashTextAssumption
      <4>2. back \in Hash
        BY <4>1 DEF HashInv, Hash
      <4>3. text = EncodeToString(back)
        BY <3>2, PrintedOrder DEF HashInv
      <4> HIDE DEF back
      <4>4. text \in [1..(2 * HashSize) -> 0..(Radix - 1)]
        BY <4>2, <4>3, EncodedShape
      <4>5. 0..(Radix - 1) \subseteq Chars /\ 2 * HashSize \in Nat
        BY <4>1 DEF Chars, Other
      <4> QED
        BY <4>4, <4>5
    <3> QED
      BY <3>1, <3>2
  <2> QED
    BY <2>1, <2>2, ScannedNumeral
<1> QED
  BY <1>1, InvHolds, PTL
=============================================================================
