----------------------------- MODULE VarIntProofs ---------------------------
(***************************************************************************)
(* Proofs about VarInt, for every base, every limit and every set of       *)
(* integers and texts.                                                     *)
(*                                                                         *)
(* What was written is a stream on which the items lie one behind another, *)
(* each a form of its count and its bytes; the buffer is the part of the   *)
(* stream behind the items that were read.  The stream is laid out by      *)
(* positions, so that neither a writer nor the reader needs an induction:  *)
(* a writer adds one item at the end and the reader moves over one.        *)
(***************************************************************************)
EXTENDS VarInt, TLAPS

LOCAL INSTANCE SequencesExt

-----------------------------------------------------------------------------
(* Arithmetic of digits *)

(* Digits of any base. *)
LEMMA Digits ==
  ASSUME NEW B \in Nat, B >= 1, NEW a \in Nat
  PROVE  /\ a \div B \in Nat /\ a % B \in 0..(B - 1)
         /\ ((a \div B) * B) + (a % B) = a
  OBVIOUS

(* The high digit of a value of two digits. *)
LEMMA HighDigit ==
  ASSUME NEW B \in Nat, B >= 1, NEW C \in Nat, NEW a \in Nat, a < C * B
  PROVE  a \div B < C
  OBVIOUS

(* The numbers of values of one, two, four and eight bytes. *)
LEMMA Powers ==
  /\ Base \in Nat /\ Base >= 4 /\ Base2 \in Nat /\ Base4 \in Nat /\ Base8 \in Nat
  /\ Base <= Base2 /\ Base2 <= Base4 /\ Base4 <= Base8
  /\ Base2 >= 1 /\ Base4 >= 1 /\ Base8 >= 1
  BY VarIntAssumption DEF VarIntAssumption, Base2, Base4, Base8

-----------------------------------------------------------------------------
(* binary.BigEndian, by position *)

(* A sequence t at position a of a sequence s. *)
Has(s, a, t) == \A i \in 1..Len(t) : s[a + i] = t[i]

(* n elements of a sequence at a position of another. *)
Alike(s, a, t, b, n) == \A i \in 1..n : s[a + i] = t[b + i]

(* Two sequences of bytes, one behind the other. *)
Joins(u, s, t) ==
  /\ u \in Seq(Byte) /\ Len(u) = Len(s) + Len(t)
  /\ \A i \in 1..Len(s) : u[i] = s[i]
  /\ \A i \in 1..Len(t) : u[Len(s) + i] = t[i]

(* The concatenation of two sequences of bytes, by position. *)
LEMMA Concatenation ==
  ASSUME NEW s \in Seq(Byte), NEW t \in Seq(Byte)
  PROVE  Joins(s \o t, s, t)
<1> HIDE DEF Byte
<1>1. s \o t \in Seq(Byte) /\ Len(s \o t) = Len(s) + Len(t)
  OBVIOUS
<1>2. \A i \in 1..Len(s) : (s \o t)[i] = s[i]
  OBVIOUS
<1>3. \A i \in 1..Len(t) : (s \o t)[Len(s) + i] = t[i]
  OBVIOUS
<1> QED
  BY <1>1, <1>2, <1>3, Zenon DEF Joins

(* Two bytes: what PutUint16 writes, Uint16 reads. *)
LEMMA Put16 ==
  ASSUME NEW v \in Nat, v < Base2
  PROVE  /\ PutUint16(v) \in Seq(Byte) /\ Len(PutUint16(v)) = 2
         /\ Uint16(PutUint16(v), 0) = v
<1>b. Base \in Nat /\ Base >= 1
  BY Powers
<1>1. /\ v \div Base \in Nat /\ v % Base \in 0..(Base - 1)
      /\ ((v \div Base) * Base) + (v % Base) = v
  BY ONLY <1>b, v \in Nat, Digits, Zenon
<1>2. v \div Base < Base
  BY Powers, HighDigit DEF Base2
<1>3. v \div Base \in Byte /\ v % Base \in Byte
  BY <1>1, <1>2, Powers DEF Byte
<1> DEFINE h == v \div Base
           l == v % Base
<1> HIDE DEF h, l
<1>4. <<h, l>> \in Seq(Byte) /\ Len(<<h, l>>) = 2 /\ <<h, l>>[1] = h /\ <<h, l>>[2] = l
  BY <1>3 DEF h, l
<1>5. PutUint16(v) = <<h, l>>
  BY DEF PutUint16, h, l
<1>6. Uint16(PutUint16(v), 0) = (h * Base) + l
  BY <1>4, <1>5 DEF Uint16
<1>7. (h * Base) + l = v
  BY <1>1 DEF h, l
<1> QED
  BY <1>4, <1>5, <1>6, <1>7

(* Four bytes are two halves of two, ... *)
LEMMA Put32 ==
  ASSUME NEW v \in Nat, v < Base4
  PROVE  /\ PutUint32(v) \in Seq(Byte) /\ Len(PutUint32(v)) = 4
         /\ Uint32(PutUint32(v), 0) = v
<1>b. Base2 \in Nat /\ Base2 >= 1
  BY Powers
<1>1. /\ v \div Base2 \in Nat /\ v % Base2 \in 0..(Base2 - 1)
      /\ ((v \div Base2) * Base2) + (v % Base2) = v
  BY ONLY <1>b, v \in Nat, Digits, Zenon
<1>2. v \div Base2 < Base2
  BY Powers, HighDigit DEF Base4
<1> DEFINE h == PutUint16(v \div Base2)
           l == PutUint16(v % Base2)
<1>3. /\ h \in Seq(Byte) /\ Len(h) = 2 /\ Uint16(h, 0) = v \div Base2
      /\ l \in Seq(Byte) /\ Len(l) = 2 /\ Uint16(l, 0) = v % Base2
  <2>1. v % Base2 \in Nat /\ v % Base2 < Base2
    BY <1>1, Powers
  <2> QED
    BY <1>1, <1>2, <2>1, Put16, Zenon
<1>4. PutUint32(v) = h \o l
  BY DEF PutUint32
<1> HIDE DEF h, l
<1>5. /\ h \o l \in Seq(Byte) /\ Len(h \o l) = 4
      /\ (h \o l)[1] = h[1] /\ (h \o l)[2] = h[2]
      /\ (h \o l)[3] = l[1] /\ (h \o l)[4] = l[2]
  <2>0. Joins(h \o l, h, l)
    BY ONLY <1>3, Concatenation
  <2>1. /\ h \o l \in Seq(Byte) /\ Len(h \o l) = Len(h) + Len(l)
        /\ \A i \in 1..Len(h) : (h \o l)[i] = h[i]
        /\ \A i \in 1..Len(l) : (h \o l)[Len(h) + i] = l[i]
    BY ONLY <2>0, Zenon DEF Joins
  <2>2. 1 \in 1..2 /\ 2 \in 1..2
    OBVIOUS
  <2>3. 2 + 1 = 3 /\ 2 + 2 = 4
    OBVIOUS
  <2>4. (h \o l)[2 + 1] = l[1] /\ (h \o l)[2 + 2] = l[2]
    BY ONLY <2>1, <2>2, <1>3
  <2> QED
    BY ONLY <2>1, <2>2, <2>3, <2>4, <1>3
<1> DEFINE u == h \o l
<1> HIDE DEF u
<1>6. Uint16(u, 0) = Uint16(h, 0) /\ Uint16(u, 0 + 2) = Uint16(l, 0)
  BY ONLY <1>5 DEF u, Uint16
<1>7. Uint32(u, 0) = ((v \div Base2) * Base2) + (v % Base2)
  BY ONLY <1>3, <1>6 DEF Uint32
<1> QED
  BY <1>1, <1>4, <1>5, <1>7 DEF u

(* ... and eight bytes two halves of four. *)
LEMMA Put64 ==
  ASSUME NEW v \in Nat, v < Base8
  PROVE  /\ PutUint64(v) \in Seq(Byte) /\ Len(PutUint64(v)) = 8
         /\ Uint64(PutUint64(v), 0) = v
<1>b. Base4 \in Nat /\ Base4 >= 1
  BY Powers
<1>1. /\ v \div Base4 \in Nat /\ v % Base4 \in 0..(Base4 - 1)
      /\ ((v \div Base4) * Base4) + (v % Base4) = v
  BY ONLY <1>b, v \in Nat, Digits, Zenon
<1>2. v \div Base4 < Base4
  BY Powers, HighDigit DEF Base8
<1> DEFINE h == PutUint32(v \div Base4)
           l == PutUint32(v % Base4)
<1>3. /\ h \in Seq(Byte) /\ Len(h) = 4 /\ Uint32(h, 0) = v \div Base4
      /\ l \in Seq(Byte) /\ Len(l) = 4 /\ Uint32(l, 0) = v % Base4
  <2>1. v % Base4 \in Nat /\ v % Base4 < Base4
    BY <1>1, Powers
  <2> QED
    BY <1>1, <1>2, <2>1, Put32, Zenon
<1>4. PutUint64(v) = h \o l
  BY DEF PutUint64
<1> HIDE DEF h, l
<1>5. /\ h \o l \in Seq(Byte) /\ Len(h \o l) = 8
      /\ (h \o l)[1] = h[1] /\ (h \o l)[2] = h[2]
      /\ (h \o l)[3] = h[3] /\ (h \o l)[4] = h[4]
      /\ (h \o l)[5] = l[1] /\ (h \o l)[6] = l[2]
      /\ (h \o l)[7] = l[3] /\ (h \o l)[8] = l[4]
  <2>0. Joins(h \o l, h, l)
    BY ONLY <1>3, Concatenation
  <2>1. /\ h \o l \in Seq(Byte) /\ Len(h \o l) = Len(h) + Len(l)
        /\ \A i \in 1..Len(h) : (h \o l)[i] = h[i]
        /\ \A i \in 1..Len(l) : (h \o l)[Len(h) + i] = l[i]
    BY ONLY <2>0, Zenon DEF Joins
  <2>2. 1 \in 1..4 /\ 2 \in 1..4 /\ 3 \in 1..4 /\ 4 \in 1..4
    OBVIOUS
  <2>3. 4 + 1 = 5 /\ 4 + 2 = 6 /\ 4 + 3 = 7 /\ 4 + 4 = 8
    OBVIOUS
  <2>4. (h \o l)[4 + 1] = l[1] /\ (h \o l)[4 + 2] = l[2] /\ (h \o l)[4 + 3] = l[3] /\ (h \o l)[4 + 4] = l[4]
    BY ONLY <2>1, <2>2, <1>3
  <2> QED
    BY ONLY <2>1, <2>2, <2>3, <2>4, <1>3
<1> DEFINE u == h \o l
<1> HIDE DEF u
<1>6. Uint32(u, 0) = Uint32(h, 0) /\ Uint32(u, 0 + 4) = Uint32(l, 0)
  <2>1. /\ u[1] = h[1] /\ u[2] = h[2] /\ u[3] = h[3] /\ u[4] = h[4]
        /\ u[5] = l[1] /\ u[6] = l[2] /\ u[7] = l[3] /\ u[8] = l[4]
    BY ONLY <1>5 DEF u
  <2>2. /\ Uint32(u, 0) = (u[1] * Base + u[2]) * Base2 + (u[3] * Base + u[4])
        /\ Uint32(h, 0) = (h[1] * Base + h[2]) * Base2 + (h[3] * Base + h[4])
        /\ Uint32(u, 0 + 4) = (u[5] * Base + u[6]) * Base2 + (u[7] * Base + u[8])
        /\ Uint32(l, 0) = (l[1] * Base + l[2]) * Base2 + (l[3] * Base + l[4])
    <3>1. /\ 0 + 1 = 1 /\ 0 + 2 = 2 /\ 2 + 1 = 3 /\ 2 + 2 = 4 /\ 0 + 4 = 4
          /\ 4 + 1 = 5 /\ 4 + 2 = 6 /\ 6 + 1 = 7 /\ 6 + 2 = 8
      OBVIOUS
    <3> QED
      BY ONLY <3>1, Zenon DEF Uint16, Uint32
  <2> QED
    BY ONLY <2>1, <2>2, Zenon
<1>7. Uint64(u, 0) = ((v \div Base4) * Base4) + (v % Base4)
  BY ONLY <1>3, <1>6 DEF Uint64
<1> QED
  BY <1>1, <1>4, <1>5, <1>7 DEF u

(* The value of bytes depends on nothing but these bytes. *)
LEMMA UintMoved ==
  ASSUME NEW s, NEW t, NEW a \in Nat, NEW b \in Nat, NEW w \in {2, 4, 8},
         Alike(s, a, t, b, w)
  PROVE  Uint(s, a, w) = Uint(t, b, w)
<1>1. CASE w = 2
  <2>1. s[a + 1] = t[b + 1] /\ s[a + 2] = t[b + 2]
    BY <1>1 DEF Alike
  <2>2. Uint16(s, a) = Uint16(t, b)
    BY ONLY <2>1 DEF Uint16
  <2> QED
    BY <1>1, <2>2 DEF Uint
<1>2. CASE w = 4
  <2>1. /\ s[a + 1] = t[b + 1] /\ s[a + 2] = t[b + 2]
        /\ s[(a + 2) + 1] = t[(b + 2) + 1] /\ s[(a + 2) + 2] = t[(b + 2) + 2]
    BY <1>2 DEF Alike
  <2>2. Uint32(s, a) = Uint32(t, b)
    BY ONLY <2>1 DEF Uint16, Uint32
  <2> QED
    BY <1>2, <2>2 DEF Uint
<1>3. CASE w = 8
  <2>1. /\ s[a + 1] = t[b + 1] /\ s[a + 2] = t[b + 2]
        /\ s[(a + 2) + 1] = t[(b + 2) + 1] /\ s[(a + 2) + 2] = t[(b + 2) + 2]
        /\ s[(a + 4) + 1] = t[(b + 4) + 1] /\ s[(a + 4) + 2] = t[(b + 4) + 2]
        /\ s[((a + 4) + 2) + 1] = t[((b + 4) + 2) + 1]
        /\ s[((a + 4) + 2) + 2] = t[((b + 4) + 2) + 2]
    BY <1>3 DEF Alike
  <2>2. Uint64(s, a) = Uint64(t, b)
    BY ONLY <2>1 DEF Uint16, Uint32, Uint64
  <2> QED
    BY <1>3, <2>2 DEF Uint
<1> QED
  BY <1>1, <1>2, <1>3

(* The discriminants, their widths and their limits. *)
LEMMA Discriminants ==
  /\ Two \in Byte /\ Four \in Byte /\ Eight \in Byte
  /\ Two # Four /\ Two # Eight /\ Four # Eight
  /\ Width(Two) = 2 /\ Width(Four) = 4 /\ Width(Eight) = 8
  /\ Limit(Two) = Base2 /\ Limit(Four) = Base4 /\ Limit(Eight) = Base8
  /\ Two \in Nat /\ Two < Base2
<1>1. /\ Two \in Byte /\ Four \in Byte /\ Eight \in Byte
      /\ Two # Four /\ Two # Eight /\ Four # Eight
      /\ Two \in Nat /\ Two < Base2
  BY Powers DEF Two, Four, Eight, Byte
<1> QED
  BY <1>1 DEF Width, Limit

(* Behind each discriminant PutUint writes what Uint reads. *)
LEMMA PutWidth ==
  ASSUME NEW d \in {Two, Four, Eight}, NEW v \in Nat, v < Limit(d)
  PROVE  /\ Width(d) \in {2, 4, 8}
         /\ PutUint(v, Width(d)) \in Seq(Byte) /\ Len(PutUint(v, Width(d))) = Width(d)
         /\ Uint(PutUint(v, Width(d)), 0, Width(d)) = v
<1>1. CASE d = Two
  <2>1. Width(d) = 2 /\ v < Base2 /\ PutUint(v, 2) = PutUint16(v)
    BY <1>1, Discriminants DEF PutUint
  <2>2. Uint(PutUint(v, 2), 0, 2) = Uint16(PutUint16(v), 0)
    BY <2>1 DEF Uint
  <2> QED
    BY <2>1, <2>2, Put16
<1>2. CASE d = Four
  <2>1. Width(d) = 4 /\ v < Base4 /\ PutUint(v, 4) = PutUint32(v)
    BY <1>2, Discriminants DEF PutUint
  <2>2. Uint(PutUint(v, 4), 0, 4) = Uint32(PutUint32(v), 0)
    BY <2>1 DEF Uint
  <2> QED
    BY <2>1, <2>2, Put32
<1>3. CASE d = Eight
  <2>1. Width(d) = 8 /\ v < Base8 /\ PutUint(v, 8) = PutUint64(v)
    BY <1>3, Discriminants DEF PutUint
  <2>2. Uint(PutUint(v, 8), 0, 8) = Uint64(PutUint64(v), 0)
    BY <2>1 DEF Uint
  <2> QED
    BY <2>1, <2>2, Put64
<1> QED
  BY <1>1, <1>2, <1>3

-----------------------------------------------------------------------------
(* Forms of an integer *)

(* The form of an integer that begins behind position a and ends at c. *)
IsLong(s, a, c, v, d) ==
  /\ d \in {Two, Four, Eight} /\ v < Limit(d) /\ c = a + 1 + Width(d)
  /\ s[a + 1] = d /\ Uint(s, a + 1, Width(d)) = v

IsForm(s, a, c, v) ==
  /\ v \in Nat
  /\ \/ v < Two /\ c = a + 1 /\ s[a + 1] = v
     \/ \E d \in {Two, Four, Eight} : IsLong(s, a, c, v, d)

(* A discriminant is no value, and has a width and a limit. *)
LEMMA Widths ==
  ASSUME NEW d \in {Two, Four, Eight}
  PROVE  /\ d \in Byte /\ ~(d < Two) /\ Width(d) \in {2, 4, 8}
         /\ Limit(d) \in {Base2, Base4, Base8}
<1>1. ~(Two < Two) /\ ~(Four < Two) /\ ~(Eight < Two)
  BY Powers DEF Two, Four, Eight
<1> QED
  BY <1>1, Discriminants

(* A value that stands for itself is no discriminant. *)
LEMMA SmallWidth ==
  ASSUME NEW v \in Nat, v < Two
  PROVE  Width(v) = 0 /\ v \in Byte
<1>1. v # Two /\ v # Four /\ v # Eight /\ v \in Byte
  BY Powers DEF Two, Four, Eight, Byte
<1> QED
  BY <1>1 DEF Width

(* No form is shorter than VarIntSerializeSize says. *)
LEMMA FormSize ==
  ASSUME NEW s, NEW a \in Nat, NEW c, NEW v, IsForm(s, a, c, v)
  PROVE  /\ c \in Nat /\ c > a /\ v \in 0..(Base8 - 1)
         /\ VarIntSerializeSize(v) \in Nat
         /\ a + VarIntSerializeSize(v) <= c
<1>1. v \in Nat
  BY DEF IsForm
<1>2. CASE v < Two /\ c = a + 1
  <2>1. VarIntSerializeSize(v) = 1
    BY <1>2 DEF VarIntSerializeSize
  <2>2. v < Base8
    BY <1>1, <1>2, Discriminants, Powers
  <2> QED
    BY <1>1, <1>2, <2>1, <2>2, Powers
<1>3. ASSUME NEW d \in {Two, Four, Eight}, IsLong(s, a, c, v, d)
      PROVE  /\ c \in Nat /\ c > a /\ v \in 0..(Base8 - 1)
             /\ VarIntSerializeSize(v) \in Nat
             /\ a + VarIntSerializeSize(v) <= c
  <2>1. v < Limit(d) /\ c = a + 1 + Width(d)
    BY <1>3 DEF IsLong
  <2>2. CASE d = Two
    <3>1. v < Base2 /\ c = a + 3
      BY <2>1, <2>2, Discriminants
    <3>2. VarIntSerializeSize(v) \in {1, 3}
      BY <3>1 DEF VarIntSerializeSize
    <3> QED
      BY <1>1, <3>1, <3>2, Powers
  <2>3. CASE d = Four
    <3>1. v < Base4 /\ c = a + 5
      BY <2>1, <2>3, Discriminants
    <3>2. VarIntSerializeSize(v) \in {1, 3, 5}
      BY <3>1 DEF VarIntSerializeSize
    <3> QED
      BY <1>1, <3>1, <3>2, Powers
  <2>4. CASE d = Eight
    <3>1. v < Base8 /\ c = a + 9
      BY <2>1, <2>4, Discriminants
    <3>2. VarIntSerializeSize(v) \in {1, 3, 5, 9}
      BY <3>1 DEF VarIntSerializeSize
    <3> QED
      BY <1>1, <3>1, <3>2, Powers
  <2> QED
    BY <2>2, <2>3, <2>4
<1> QED
  BY <1>2, <1>3 DEF IsForm

(* A form is a form wherever its bytes are. *)
LEMMA FormMoved ==
  ASSUME NEW s, NEW a \in Nat, NEW c \in Nat, NEW v, IsForm(s, a, c, v),
         NEW t, NEW b \in Nat, Alike(s, a, t, b, c - a)
  PROVE  IsForm(t, b, b + (c - a), v)
<1>0. v \in Nat
  BY DEF IsForm
<1>1. CASE v < Two /\ c = a + 1 /\ s[a + 1] = v
  <2>1. c - a = 1 /\ 1 \in 1..1
    BY <1>1
  <2>2. t[b + 1] = v
    BY <1>1, <2>1 DEF Alike
  <2> QED
    BY <1>0, <1>1, <2>1, <2>2 DEF IsForm
<1>2. ASSUME NEW d \in {Two, Four, Eight}, IsLong(s, a, c, v, d)
      PROVE  IsForm(t, b, b + (c - a), v)
  <2>1. /\ v < Limit(d) /\ c = a + 1 + Width(d) /\ s[a + 1] = d
        /\ Uint(s, a + 1, Width(d)) = v
    BY <1>2 DEF IsLong
  <2>2. Width(d) \in {2, 4, 8}
    BY Widths
  <2> DEFINE w == Width(d)
  <2> HIDE DEF w
  <2>3. c - a = 1 + w /\ w \in {2, 4, 8} /\ c = a + 1 + w
    BY <2>1, <2>2 DEF w
  <2>4. \A i \in 1..(1 + w) : s[a + i] = t[b + i]
    BY <2>3 DEF Alike
  <2>5. t[b + 1] = d
    BY <2>1, <2>3, <2>4
  <2>6. Alike(s, a + 1, t, b + 1, w)
    <3>1. ASSUME NEW i \in 1..w
          PROVE  s[a + 1 + i] = t[b + 1 + i]
      <4>1. i + 1 \in 1..(1 + w) /\ a + 1 + i = a + (i + 1) /\ b + 1 + i = b + (i + 1)
        BY <2>3
      <4> QED
        BY <2>4, <4>1
    <3> QED
      BY <3>1 DEF Alike
  <2>7. Uint(t, b + 1, w) = v
    <3>1. a + 1 \in Nat /\ b + 1 \in Nat
      OBVIOUS
    <3>2. Uint(s, a + 1, w) = Uint(t, b + 1, w)
      BY ONLY <2>3, <2>6, <3>1, UintMoved
    <3> QED
      BY <2>1, <3>2 DEF w
  <2>8. b + (c - a) = b + 1 + w
    BY <2>3
  <2>9. IsLong(t, b, b + (c - a), v, d)
    BY <2>1, <2>5, <2>7, <2>8, Zenon DEF IsLong, w
  <2> QED
    BY <1>0, <2>9, Zenon DEF IsForm
<1> QED
  BY <1>1, <1>2 DEF IsForm

(* What any discriminant is followed by. *)
LEMMA LongFormed ==
  ASSUME NEW d \in {Two, Four, Eight}, NEW v \in Nat, v < Limit(d)
  PROVE  LET f == <<d>> \o PutUint(v, Width(d))
         IN  f \in Seq(Byte) /\ Len(f) = 1 + Width(d) /\ IsForm(f, 0, Len(f), v)
<1> DEFINE q == PutUint(v, Width(d))
           f == <<d>> \o q
<1>1. /\ Width(d) \in {2, 4, 8} /\ q \in Seq(Byte) /\ Len(q) = Width(d)
      /\ Uint(q, 0, Width(d)) = v
  BY PutWidth
<1>2. d \in Byte
  BY Widths
<1>3. <<d>> \in Seq(Byte) /\ Len(<<d>>) = 1 /\ <<d>>[1] = d
  BY <1>2
<1>4. Joins(f, <<d>>, q)
  BY ONLY <1>1, <1>3, Concatenation
<1> HIDE DEF f, q
<1>5. f \in Seq(Byte) /\ Len(f) = 1 + Len(q) /\ f[1] = d /\ \A i \in 1..Len(q) : f[1 + i] = q[i]
  BY <1>3, <1>4 DEF Joins
<1> DEFINE w == Width(d)
<1> HIDE DEF w
<1>6. Alike(q, 0, f, 1, w)
  <2>1. ASSUME NEW i \in 1..w
        PROVE  q[0 + i] = f[1 + i]
    <3>1. 0 + i = i /\ i \in 1..Len(q)
      BY <1>1 DEF w
    <3> QED
      BY <1>5, <3>1
  <2> QED
    BY <2>1 DEF Alike
<1>7. Uint(f, 1, w) = v
  <2>1. w \in {2, 4, 8} /\ 0 \in Nat /\ 1 \in Nat
    BY <1>1 DEF w
  <2>2. Uint(q, 0, w) = Uint(f, 1, w)
    BY ONLY <2>1, <1>6, UintMoved, ZenonT(40)
  <2> QED
    BY <1>1, <2>2 DEF w
<1>8. Len(f) = 0 + 1 + w /\ f[0 + 1] = d /\ 0 + 1 = 1 /\ Len(f) = 1 + w
  BY <1>1, <1>5 DEF w
<1>9. Uint(f, 0 + 1, Width(d)) = v
  BY <1>7, <1>8 DEF w
<1>10. IsLong(f, 0, Len(f), v, d)
  BY <1>8, <1>9 DEF IsLong, w
<1>11. IsForm(f, 0, Len(f), v)
  BY <1>10 DEF IsForm
<1> QED
  BY <1>5, <1>8, <1>11 DEF f, q, w

(* writeVarInt writes the shortest form. *)
LEMMA Written ==
  ASSUME NEW v \in 0..(Base8 - 1)
  PROVE  LET f == writeVarInt(v)
         IN  /\ f \in Seq(Byte) /\ Len(f) = VarIntSerializeSize(v)
             /\ IsForm(f, 0, Len(f), v)
<1>0. v \in Nat /\ v < Base8
  BY Powers
<1>1. CASE v < Two
  <2>1. writeVarInt(v) = <<v>> /\ VarIntSerializeSize(v) = 1
    BY <1>1 DEF writeVarInt, VarIntSerializeSize
  <2>2. v \in Byte
    BY <1>0, <1>1, SmallWidth
  <2>3. <<v>> \in Seq(Byte) /\ Len(<<v>>) = 1 /\ <<v>>[0 + 1] = v /\ 1 = 0 + 1
    BY <2>2
  <2>4. IsForm(<<v>>, 0, 1, v)
    BY <1>0, <1>1, <2>3 DEF IsForm
  <2> QED
    BY <2>1, <2>3, <2>4
<1>2. CASE ~(v < Two) /\ v < Base2
  <2>1. writeVarInt(v) = <<Two>> \o PutUint(v, Width(Two)) /\ VarIntSerializeSize(v) = 1 + Width(Two)
    BY <1>2, Discriminants DEF writeVarInt, VarIntSerializeSize
  <2>2. v < Limit(Two) /\ Two \in {Two, Four, Eight}
    BY <1>2, Discriminants
  <2> QED
    BY <1>0, <2>1, <2>2, LongFormed
<1>3. CASE ~(v < Two) /\ ~(v < Base2) /\ v < Base4
  <2>1. writeVarInt(v) = <<Four>> \o PutUint(v, Width(Four)) /\ VarIntSerializeSize(v) = 1 + Width(Four)
    BY <1>3, Discriminants DEF writeVarInt, VarIntSerializeSize
  <2>2. v < Limit(Four) /\ Four \in {Two, Four, Eight}
    BY <1>3, Discriminants
  <2> QED
    BY <1>0, <2>1, <2>2, LongFormed
<1>4. CASE ~(v < Two) /\ ~(v < Base2) /\ ~(v < Base4)
  <2>1. writeVarInt(v) = <<Eight>> \o PutUint(v, Width(Eight)) /\ VarIntSerializeSize(v) = 1 + Width(Eight)
    BY <1>4, Discriminants DEF writeVarInt, VarIntSerializeSize
  <2>2. v < Limit(Eight) /\ Eight \in {Two, Four, Eight}
    BY <1>0, <1>4, Discriminants
  <2> QED
    BY <1>0, <2>1, <2>2, LongFormed
<1> QED
  BY <1>1, <1>2, <1>3, <1>4

(* readVarInt of bytes that begin with a form takes the form ... *)
LEMMA ReadsForm ==
  ASSUME NEW s \in Seq(Byte), NEW c, NEW v, IsForm(s, 0, c, v), c <= Len(s)
  PROVE  readVarInt(s) = [val |-> v, taken |-> c, err |-> "nil"]
<1>0. v \in Nat /\ Len(s) \in Nat
  BY DEF IsForm
<1>1. CASE v < Two /\ c = 0 + 1 /\ s[0 + 1] = v
  <2>1. c = 1 /\ s[1] = v /\ Width(v) = 0 /\ Len(s) # 0
    BY <1>0, <1>1, SmallWidth
  <2> QED
    BY <2>1 DEF readVarInt
<1>2. ASSUME NEW d \in {Two, Four, Eight}, IsLong(s, 0, c, v, d)
      PROVE  readVarInt(s) = [val |-> v, taken |-> c, err |-> "nil"]
  <2>1. /\ c = 0 + 1 + Width(d) /\ s[0 + 1] = d /\ Uint(s, 0 + 1, Width(d)) = v
    BY <1>2 DEF IsLong
  <2>2. Width(d) \in {2, 4, 8}
    BY Widths
  <2>3. 0 + 1 = 1 /\ c = 1 + Width(d)
    BY <2>1, <2>2
  <2>4. s[1] = d /\ Uint(s, 1, Width(d)) = v
    BY <2>1, <2>3
  <2>5. Len(s) # 0 /\ Width(d) # 0 /\ Len(s) # 1 /\ ~(Len(s) <= Width(d))
    <3>1. \A n \in Nat, w \in {2, 4, 8} :
            1 + w <= n => n # 0 /\ w # 0 /\ n # 1 /\ ~(n <= w)
      OBVIOUS
    <3>2. 1 + Width(d) <= Len(s)
      BY <2>3
    <3> QED
      BY ONLY <1>0, <2>2, <3>1, <3>2, Zenon
  <2> QED
    BY <2>3, <2>4, <2>5 DEF readVarInt
<1> QED
  BY <1>1, <1>2 DEF IsForm

(* ... and of less than a form all there is, in error. *)
LEMMA ReadsShort ==
  ASSUME NEW s, NEW a \in Nat, NEW c, NEW v, IsForm(s, a, c, v),
         NEW t \in Seq(Byte), Alike(s, a, t, 0, Len(t)), a + Len(t) < c
  PROVE  /\ readVarInt(t).err \in {"EOF", "UnexpectedEOF"}
         /\ readVarInt(t).taken = Len(t) /\ readVarInt(t).val = 0
<1>0. v \in Nat /\ Len(t) \in Nat
  BY DEF IsForm
<1>1. CASE Len(t) = 0
  BY <1>1 DEF readVarInt
<1>2. CASE Len(t) # 0
  <2>1. ~(c = a + 1)
    BY <1>0, <1>2
  <2>2. PICK d \in {Two, Four, Eight} : IsLong(s, a, c, v, d)
    BY <2>1 DEF IsForm
  <2>3. c = a + 1 + Width(d) /\ s[a + 1] = d
    BY <2>2 DEF IsLong
  <2>4. Width(d) \in {2, 4, 8}
    BY Widths
  <2>5. Len(t) <= Width(d) /\ Width(d) # 0
    BY <1>0, <2>3, <2>4
  <2>6. t[1] = d
    <3>1. 1 \in 1..Len(t) /\ 0 + 1 = 1
      BY <1>0, <1>2
    <3>2. s[a + 1] = t[0 + 1]
      BY <3>1 DEF Alike
    <3> QED
      BY <2>3, <3>1, <3>2
  <2> QED
    BY <1>2, <2>5, <2>6 DEF readVarInt
<1> QED
  BY <1>1, <1>2

-----------------------------------------------------------------------------
(* Reading an item *)

(* The items that can be written: only the huge texts are not as long as   *)
(* they say.                                                               *)
IsItem(item) ==
  /\ item \in [text : BOOLEAN, count : 0..(Base8 - 1), bytes : Seq(Byte)]
  /\ ~item.text => item.bytes = <<>>
  /\ item.text => item.count = Len(item.bytes) \/ item.count >= Base4

(* An item lies between positions a and b: a form and the bytes behind it. *)
Laid(s, a, b, item) ==
  \E c \in Nat : /\ IsForm(s, a, c, item.count)
                 /\ b = c + Len(item.bytes)
                 /\ Has(s, c, item.bytes)

(* A buffer is the part of s that begins behind position a. *)
At(b, s, a) ==
  /\ b \in Seq(Byte) /\ a + Len(b) <= Len(s)
  /\ Alike(s, a, b, 0, Len(b))

(* What is alike is alike in part. *)
LEMMA AlikeLess ==
  ASSUME NEW s, NEW a, NEW t, NEW b, NEW n \in Nat, Alike(s, a, t, b, n),
         NEW k \in Int, k <= n
  PROVE  Alike(s, a, t, b, k)
  BY DEF Alike

(* What is behind a position. *)
LEMMA Behind ==
  ASSUME NEW b \in Seq(Byte), NEW w \in Nat, w <= Len(b)
  PROVE  LET rest == SubSeq(b, w + 1, Len(b))
         IN  /\ rest \in Seq(Byte) /\ Len(rest) = Len(b) - w
             /\ \A i \in 1..Len(rest) : rest[i] = b[w + i]
<1> DEFINE rest == SubSeq(b, w + 1, Len(b))
<1>1. rest \in Seq(Byte) /\ Len(rest) = Len(b) - w
  OBVIOUS
<1>2. ASSUME NEW i \in 1..(Len(b) - w)
      PROVE  rest[i] = b[w + i]
  <2>1. rest[i] = b[(w + 1) + i - 1]
    OBVIOUS
  <2>2. (w + 1) + i - 1 = w + i
    OBVIOUS
  <2> QED
    BY <2>1, <2>2
<1> QED
  BY <1>1, <1>2

(* readVarInt at the beginning of an item. *)
Counted(r, b, a, c, v) ==
  \/ /\ r = [val |-> v, taken |-> c - a, err |-> "nil"]
     /\ a < c /\ c <= a + Len(b)
     /\ VarIntSerializeSize(v) <= c - a
  \/ /\ r.err \in {"EOF", "UnexpectedEOF"} /\ r.taken = Len(b) /\ r.val = 0
     /\ a + Len(b) < c

(* A buffer that holds the form returns its value and moves behind it; a
   shorter one is an error that takes all there is. *)
LEMMA Counts ==
  ASSUME NEW s, NEW a \in Nat, NEW c \in Nat, NEW v, IsForm(s, a, c, v),
         NEW b, b \in Seq(Byte), Alike(s, a, b, 0, Len(b))
  PROVE  Counted(readVarInt(b), b, a, c, v)
<1>1. Len(b) \in Nat
  OBVIOUS
<1>2. /\ c > a /\ VarIntSerializeSize(v) \in Nat
      /\ a + VarIntSerializeSize(v) <= c
  BY FormSize
<1>3. CASE c <= a + Len(b)
  <2>1. c - a <= Len(b) /\ c - a \in Int /\ 0 \in Nat /\ 0 + (c - a) = c - a
    BY <1>1, <1>3
  <2>2. Alike(s, a, b, 0, c - a)
    BY ONLY <1>1, <2>1, AlikeLess, Alike(s, a, b, 0, Len(b))
  <2>3. IsForm(b, 0, 0 + (c - a), v)
    BY ONLY <2>1, <2>2, FormMoved, a \in Nat, c \in Nat, IsForm(s, a, c, v)
  <2>4. IsForm(b, 0, c - a, v)
    BY <2>1, <2>3
  <2>5. readVarInt(b) = [val |-> v, taken |-> c - a, err |-> "nil"]
    BY ONLY <2>1, <2>4, ReadsForm, b \in Seq(Byte)
  <2>6. a < c /\ VarIntSerializeSize(v) <= c - a
    BY <1>2
  <2> QED
    BY <1>3, <2>5, <2>6, Zenon DEF Counted
<1>4. CASE a + Len(b) < c
  <2>1. /\ readVarInt(b).err \in {"EOF", "UnexpectedEOF"}
        /\ readVarInt(b).taken = Len(b) /\ readVarInt(b).val = 0
    BY <1>4, ReadsShort, Zenon
  <2> QED
    BY <1>4, <2>1, Zenon DEF Counted
<1> QED
  BY <1>1, <1>3, <1>4

(* GetInt at the beginning of an integer. *)
GotInt(r, b, a, e, item) ==
  \/ /\ r.err = "nil" /\ Number(r.val) = item
     /\ a + r.taken = e /\ r.taken > 0 /\ r.taken <= Len(b) /\ r.taken \in Nat
     /\ VarIntSerializeSize(item.count) <= r.taken
  \/ /\ r.err \in {"EOF", "UnexpectedEOF"} /\ r.taken = Len(b)
     /\ a + Len(b) < e

(* What readVarInt does at an integer, whole or cut. *)
LEMMA GetsInt ==
  ASSUME NEW item, IsItem(item), ~item.text,
         NEW s, NEW a \in Nat, NEW e, Laid(s, a, e, item),
         NEW b, At(b, s, a)
  PROVE  GotInt(readVarInt(b), b, a, e, item)
<1>1. PICK c \in Nat : IsForm(s, a, c, item.count) /\ e = c + Len(item.bytes)
  BY DEF Laid
<1>2. item.bytes = <<>> /\ item = [text |-> item.text, count |-> item.count, bytes |-> item.bytes]
      /\ item.text = FALSE
  BY DEF IsItem
<1>3. e = c
  BY <1>1, <1>2
<1>4. item = Number(item.count)
  BY <1>2 DEF Number, Item
<1>5. Counted(readVarInt(b), b, a, c, item.count)
  BY <1>1, Counts DEF At
<1>6. Len(b) \in Nat
  BY DEF At
<1> DEFINE r == readVarInt(b)
           v == item.count
<1> SUFFICES GotInt(r, b, a, e, item)
  OBVIOUS
<1>7. CASE /\ r = [val |-> v, taken |-> c - a, err |-> "nil"]
           /\ a < c /\ c <= a + Len(b) /\ VarIntSerializeSize(v) <= c - a
  <2>1. r.val = v /\ r.taken = c - a /\ r.err = "nil"
    BY <1>7
  <2>2. a + r.taken = e /\ r.taken > 0 /\ r.taken <= Len(b) /\ r.taken \in Nat
    BY <1>3, <1>6, <1>7, <2>1
  <2> HIDE DEF r
  <2> QED
    BY <1>4, <1>7, <2>1, <2>2, Zenon DEF GotInt
<1>8. CASE /\ r.err \in {"EOF", "UnexpectedEOF"} /\ r.taken = Len(b)
           /\ a + Len(b) < c
  BY <1>3, <1>8, Zenon DEF GotInt
<1> QED
  BY <1>5, <1>7, <1>8, Zenon DEF Counted

(* readVarBytes at the beginning of a text. *)
GotText(r, b, s, a, e, item, limit) ==
  \/ /\ r.err = "nil" /\ r.item = item /\ r.allocated <= limit
     /\ a + r.taken = e /\ r.taken > 0 /\ r.taken <= Len(b) /\ r.taken \in Nat
     /\ VarIntSerializeSize(item.count) + Len(item.bytes) <= r.taken
  \/ /\ r.err = "MessageError" /\ item.count > limit /\ r.allocated <= limit
     /\ r.taken \in 0..Len(b)
     /\ Has(s, a + r.taken, item.bytes) /\ e = a + r.taken + Len(item.bytes)
  \/ /\ r.err \in {"EOF", "UnexpectedEOF"} /\ r.taken = Len(b)
     /\ r.allocated <= limit /\ a + Len(b) < e

(* What readVarBytes does at a text, whole or cut, within its limit or not. *)
LEMMA GetsText ==
  ASSUME NEW item, IsItem(item), item.text, NEW limit \in 0..(Base4 - 1),
         NEW s, NEW a \in Nat, NEW e, Laid(s, a, e, item),
         NEW b, At(b, s, a)
  PROVE  GotText(readVarBytes(b, limit), b, s, a, e, item, limit)
<1>1. PICK c \in Nat : /\ IsForm(s, a, c, item.count) /\ e = c + Len(item.bytes)
                       /\ Has(s, c, item.bytes)
  BY DEF Laid
<1> DEFINE x == item.bytes
           v == item.count
           k == readVarInt(b)
           r == readVarBytes(b, limit)
<1>2. /\ item = [text |-> item.text, count |-> v, bytes |-> x]
      /\ item.text = TRUE /\ x \in Seq(Byte) /\ v \in Nat
      /\ v = Len(x) \/ v >= Base4
  BY Powers DEF IsItem
<1>3. Len(b) \in Nat /\ b \in Seq(Byte) /\ Len(x) \in Nat /\ limit \in Nat /\ limit < Base4
      /\ Base4 \in Nat
  BY <1>2, Powers DEF At
<1>4. Counted(k, b, a, c, v)
  BY <1>1, Counts DEF At
<1> SUFFICES GotText(r, b, s, a, e, item, limit)
  OBVIOUS
<1> HIDE DEF x, v
<1>5. CASE /\ k.err \in {"EOF", "UnexpectedEOF"} /\ k.taken = Len(b)
           /\ a + Len(b) < c
  <2>1. k.err # "nil"
    BY <1>5
  <2>2. r = [item |-> Text(<<>>), taken |-> k.taken, allocated |-> 0, err |-> k.err]
    BY <2>1 DEF readVarBytes
  <2>3. a + Len(b) < e /\ 0 <= limit
    BY <1>1, <1>3, <1>5 DEF x
  <2>4. r.taken = k.taken /\ r.allocated = 0 /\ r.err = k.err
    BY <2>2
  <2> HIDE DEF r, k
  <2> QED
    BY <1>5, <2>3, <2>4, Zenon DEF GotText
<1>6. CASE /\ k = [val |-> v, taken |-> c - a, err |-> "nil"]
           /\ a < c /\ c <= a + Len(b) /\ VarIntSerializeSize(v) <= c - a
  <2> DEFINE w == c - a
             rest == SubSeq(b, w + 1, Len(b))
  <2>1. /\ k.err = "nil" /\ k.val = v /\ k.taken = w
        /\ w \in Nat /\ w > 0 /\ w <= Len(b) /\ a + w = c
    BY <1>3, <1>6
  <2> HIDE DEF k
  <2>2. CASE v > limit
    <3>1. r = [item |-> Text(<<>>), taken |-> w, allocated |-> 0, err |-> "MessageError"]
      BY <2>1, <2>2 DEF readVarBytes, k
    <3>2. r.taken = w /\ r.allocated = 0 /\ r.err = "MessageError"
      BY <3>1
    <3>3. 0 <= limit /\ w \in 0..Len(b) /\ Has(s, a + w, x) /\ e = a + w + Len(x)
      BY <1>1, <1>3, <2>1 DEF x
    <3> HIDE DEF r, w
    <3> QED
      BY <2>2, <3>2, <3>3, Zenon DEF GotText, x, v
  <2>3. CASE ~(v > limit)
    <3>1. r = ReadText(rest, k)
      BY <2>1, <2>3 DEF readVarBytes, k
    <3>2. v = Len(x) /\ v <= limit
      BY <1>2, <1>3, <2>3
    <3>3. rest \in Seq(Byte) /\ Len(rest) = Len(b) - w
      BY <1>3, <2>1, Behind
    <3>4. \A i \in 1..Len(rest) : rest[i] = b[w + i]
      BY <1>3, <2>1, Behind
    <3> HIDE DEF rest, w
    <3>5. CASE Len(rest) >= v
      <4> DEFINE y == SubSeq(rest, 1, v)
      <4>1. y \in Seq(Byte) /\ Len(y) = v /\ \A i \in 1..v : y[i] = rest[i]
        BY <1>2, <3>3, <3>5
      <4> HIDE DEF y
      <4>2. ASSUME NEW i \in 1..v
            PROVE  y[i] = x[i]
        <5>1. i \in Nat /\ i \in 1..Len(rest) /\ i \in 1..Len(x)
          BY <1>2, <1>3, <3>2, <3>3, <3>5
        <5>2. y[i] = b[w + i]
          BY <3>4, <4>1, <5>1
        <5>3. w + i \in 1..Len(b) /\ 0 + (w + i) = w + i /\ a + (w + i) = c + i
          BY <1>3, <2>1, <3>3, <5>1
        <5>4. s[a + (w + i)] = b[0 + (w + i)]
          BY <5>3 DEF At, Alike
        <5>5. s[c + i] = x[i]
          BY <1>1, <5>1 DEF Has, x
        <5> QED
          BY ONLY <5>2, <5>3, <5>4, <5>5, Zenon
      <4>3. y = x
        BY ONLY <1>2, <3>2, <4>1, <4>2
      <4>4. r = [item |-> Text(y), err |-> "nil", taken |-> w + v, allocated |-> v]
        BY <2>1, <3>1, <3>5 DEF ReadText, y
      <4>5. r.item = Text(x) /\ r.err = "nil" /\ r.taken = w + v /\ r.allocated = v
        BY <4>3, <4>4
      <4>6. Text(x) = item
        BY <1>2, <3>2 DEF Text, Item
      <4>7. a + (w + v) = e /\ w + v > 0 /\ w + v <= Len(b) /\ w + v \in Nat
        BY <1>1, <1>2, <1>3, <2>1, <3>2, <3>3, <3>5, SMTT(30) DEF x
      <4>8. VarIntSerializeSize(v) + Len(x) <= w + v
        <5>1. VarIntSerializeSize(v) \in Nat
          BY <1>1, FormSize DEF v
        <5> QED
          BY <1>2, <1>6, <2>1, <3>2, <5>1 DEF w
      <4> HIDE DEF r
      <4> QED
        BY <3>2, <4>5, <4>6, <4>7, <4>8, Zenon DEF GotText, x, v
    <3>6. CASE ~(Len(rest) >= v)
      <4>1. r = [item |-> Text(<<>>), err |-> IF Len(rest) = 0 THEN "EOF" ELSE "UnexpectedEOF",
                 taken |-> w + Len(rest), allocated |-> v]
        BY <2>1, <3>1, <3>6 DEF ReadText
      <4>2. r.err \in {"EOF", "UnexpectedEOF"} /\ r.taken = w + Len(rest) /\ r.allocated = v
        BY <4>1
      <4>3. w + Len(rest) = Len(b) /\ a + Len(b) < e
        BY <1>1, <1>2, <1>3, <2>1, <3>2, <3>3, <3>6, SMTT(30) DEF x
      <4> HIDE DEF r
      <4> QED
        BY <3>2, <4>2, <4>3, Zenon DEF GotText
    <3> QED
      BY <3>5, <3>6
  <2> QED
    BY <2>2, <2>3
<1> QED
  BY <1>4, <1>5, <1>6, Zenon DEF Counted

-----------------------------------------------------------------------------
(* Items on a stream *)

Items == [text : BOOLEAN, count : 0..(Base8 - 1), bytes : Seq(Byte)]

(* The items of p lie on s one behind another, item j behind at[j]. *)
Layout(s, at, p) ==
  /\ s \in Seq(Byte) /\ at \in [1..(Len(p) + 1) -> Nat]
  /\ at[Len(p) + 1] = Len(s)
  /\ \A j \in 1..(Len(p) + 1) : at[j] <= Len(s)
  /\ \A j \in 1..Len(p) : Laid(s, at[j], at[j + 1], p[j])

(* The buffer is at the next item, and lacks nothing unless it was cut. *)
Unread(s, a, b, c) == At(b, s, a) /\ (~c => a + Len(b) = Len(s))

VarIntTypes ==
  /\ put \in Seq(Items) /\ got \in Seq(Items) /\ buf \in Seq(Byte) /\ cut \in BOOLEAN
  /\ \A j \in 1..Len(put) : IsItem(put[j])
  /\ Len(got) <= Len(put) /\ \A j \in 1..Len(got) : got[j] = put[j]

VarIntInv ==
  /\ VarIntTypes
  /\ \E s, at : /\ Layout(s, at, put)
                /\ last.err = "nil" => Unread(s, at[Len(got) + 1], buf, cut)
  /\ last.err # "nil" => Len(got) < Len(put)
  /\ FailsOnlyAtTheCut
  /\ AllocatesWithinLimit
  /\ NeverLonger

(* An item lies wherever its bytes are. *)
LEMMA LaidMoved ==
  ASSUME NEW item \in Items, NEW s, NEW a \in Nat, NEW e \in Nat,
         Laid(s, a, e, item),
         NEW t, NEW b \in Nat, Alike(s, a, t, b, e - a)
  PROVE  Laid(t, b, b + (e - a), item)
<1>1. PICK c \in Nat : /\ IsForm(s, a, c, item.count)
                       /\ e = c + Len(item.bytes)
                       /\ Has(s, c, item.bytes)
  BY DEF Laid
<1> DEFINE x == item.bytes
           d == b + (c - a)
<1>2. x \in Seq(Byte) /\ Len(x) \in Nat
  BY DEF Items
<1> HIDE DEF x
<1>3. c > a
  BY <1>1, FormSize
<1>4. e = c + Len(x) /\ c - a <= e - a /\ c - a \in Int /\ e - a \in Nat /\ d \in Nat
  BY <1>1, <1>2, <1>3 DEF x
<1>5. Alike(s, a, t, b, c - a)
  BY ONLY <1>4, AlikeLess, Alike(s, a, t, b, e - a)
<1>6. IsForm(t, b, d, item.count)
  BY ONLY <1>1, <1>5, FormMoved, a \in Nat, b \in Nat, c \in Nat
<1>7. ASSUME NEW i \in 1..Len(x)
      PROVE  t[d + i] = x[i]
  <2>1. /\ (c - a) + i \in 1..(e - a)
        /\ a + ((c - a) + i) = c + i /\ b + ((c - a) + i) = d + i
    BY <1>2, <1>3, <1>4
  <2>2. s[a + ((c - a) + i)] = t[b + ((c - a) + i)]
    BY <2>1 DEF Alike
  <2>3. s[c + i] = x[i]
    BY <1>1 DEF Has, x
  <2> QED
    BY ONLY <2>1, <2>2, <2>3, Zenon
<1>8. Has(t, d, x)
  BY <1>7 DEF Has
<1>9. b + (e - a) = d + Len(x)
  BY <1>2, <1>4
<1> QED
  BY <1>4, <1>6, <1>8, <1>9, Zenon DEF Laid, x

(* What is written behind a stream disturbs nothing of it. *)
LEMMA LayoutGrows ==
  ASSUME NEW p \in Seq(Items), NEW s, NEW at, Layout(s, at, p),
         NEW item \in Items, NEW bytes \in Seq(Byte),
         Laid(bytes, 0, Len(bytes), item)
  PROVE  \E at2 : /\ Layout(s \o bytes, at2, Append(p, item))
                  /\ \A j \in 1..(Len(p) + 1) : at2[j] = at[j]
<1> DEFINE n  == Len(p)
           p2 == Append(p, item)
           s2 == s \o bytes
           at2 == [j \in 1..(n + 2) |-> IF j = n + 2 THEN Len(s2) ELSE at[j]]
<1>1. n \in Nat /\ p2 \in Seq(Items) /\ Len(p2) = n + 1 /\ p2[n + 1] = item
      /\ \A j \in 1..n : p2[j] = p[j]
  OBVIOUS
<1>2. /\ s \in Seq(Byte) /\ at \in [1..(n + 1) -> Nat] /\ at[n + 1] = Len(s)
      /\ \A j \in 1..(n + 1) : at[j] <= Len(s)
      /\ \A j \in 1..n : Laid(s, at[j], at[j + 1], p[j])
  BY DEF Layout
<1>3. Joins(s2, s, bytes)
  BY <1>2, Concatenation
<1> HIDE DEF s2, p2
<1>4. /\ s2 \in Seq(Byte) /\ Len(s2) = Len(s) + Len(bytes) /\ Len(s) \in Nat /\ Len(bytes) \in Nat
      /\ \A i \in 1..Len(s) : s2[i] = s[i]
      /\ \A i \in 1..Len(bytes) : s2[Len(s) + i] = bytes[i]
  BY <1>2, <1>3 DEF Joins
<1>5. /\ at2 \in [1..(n + 2) -> Nat] /\ at2[n + 2] = Len(s2)
      /\ \A j \in 1..(n + 1) : at2[j] = at[j]
  BY <1>1, <1>2, <1>4
<1> HIDE DEF at2
<1>6. ASSUME NEW j \in 1..(n + 2)
      PROVE  at2[j] <= Len(s2)
  <2>1. j = n + 2 \/ j \in 1..(n + 1)
    BY <1>1
  <2>2. Len(s) <= Len(s2) /\ Len(s2) \in Nat /\ Len(s) \in Nat
    BY <1>4
  <2>3. ASSUME j \in 1..(n + 1)
        PROVE  at2[j] = at[j] /\ at[j] \in Nat /\ at[j] <= Len(s)
    BY <1>2, <1>5, <2>3
  <2> QED
    BY <1>5, <2>1, <2>2, <2>3
<1>7. ASSUME NEW j \in 1..n
      PROVE  Laid(s2, at2[j], at2[j + 1], p2[j])
  <2>1. j \in 1..(n + 1) /\ j + 1 \in 1..(n + 1)
    BY <1>1
  <2>2. at2[j] = at[j] /\ at2[j + 1] = at[j + 1] /\ p2[j] = p[j] /\ p[j] \in Items
    BY <1>1, <1>5, <2>1
  <2>3. at[j] \in Nat /\ at[j + 1] \in Nat /\ at[j + 1] <= Len(s)
    BY <1>2, <2>1
  <2>4. Laid(s, at[j], at[j + 1], p[j])
    BY <1>2
  <2> DEFINE a == at[j]
             e == at[j + 1]
  <2> HIDE DEF a, e
  <2>5. a \in Nat /\ e \in Nat /\ e <= Len(s)
    BY <2>3 DEF a, e
  <2>6. Alike(s, a, s2, a, e - a)
    <3>1. ASSUME NEW i \in 1..(e - a)
          PROVE  s[a + i] = s2[a + i]
      <4>1. a + i \in 1..Len(s)
        BY <1>4, <2>5
      <4> QED
        BY <1>4, <4>1
    <3> QED
      BY <3>1 DEF Alike
  <2>7. a + (e - a) = e
    BY <2>5
  <2>8. Laid(s2, a, a + (e - a), p[j])
    BY ONLY <2>2, <2>4, <2>5, <2>6, LaidMoved DEF a, e
  <2> QED
    BY <2>2, <2>7, <2>8 DEF a, e
<1>8. Laid(s2, at2[n + 1], at2[(n + 1) + 1], p2[n + 1])
  <2>1. Alike(bytes, 0, s2, Len(s), Len(bytes) - 0)
    <3>1. ASSUME NEW i \in 1..(Len(bytes) - 0)
          PROVE  bytes[0 + i] = s2[Len(s) + i]
      <4>1. 0 + i = i /\ i \in 1..Len(bytes)
        BY <1>4
      <4> QED
        BY <1>4, <4>1
    <3> QED
      BY <3>1 DEF Alike
  <2>2. Laid(s2, Len(s), Len(s) + (Len(bytes) - 0), item)
    <3>1. 0 \in Nat
      OBVIOUS
    <3> QED
      BY ONLY <1>4, <2>1, <3>1, LaidMoved, Laid(bytes, 0, Len(bytes), item), item \in Items
  <2>3. /\ Len(s) + (Len(bytes) - 0) = Len(s2) /\ (n + 1) + 1 = n + 2
        /\ n + 1 \in 1..(n + 1)
    BY <1>1, <1>4
  <2>4. at2[n + 1] = Len(s)
    BY <1>2, <1>5, <2>3
  <2> QED
    BY <1>1, <1>5, <2>2, <2>3, <2>4
<1>9. Layout(s2, at2, p2)
  <2>1. Len(p2) + 1 = n + 2 /\ (n + 1) + 1 = n + 2
    BY <1>1
  <2>2. ASSUME NEW j \in 1..Len(p2)
        PROVE  Laid(s2, at2[j], at2[j + 1], p2[j])
    <3>1. j \in 1..n \/ j = n + 1
      BY <1>1
    <3> QED
      BY <1>7, <1>8, <3>1
  <2> QED
    BY <1>4, <1>5, <1>6, <2>1, <2>2 DEF Layout
<1> QED
  BY <1>5, <1>9 DEF s2, p2

(* What is written is added to the buffer too. *)
LEMMA UnreadGrows ==
  ASSUME NEW s \in Seq(Byte), NEW a \in Nat, NEW b, Unread(s, a, b, FALSE),
         NEW bytes \in Seq(Byte), NEW c \in BOOLEAN
  PROVE  Unread(s \o bytes, a, b \o bytes, c)
<1> DEFINE s2 == s \o bytes
           b2 == b \o bytes
<1>1. /\ b \in Seq(Byte) /\ a + Len(b) = Len(s) /\ Alike(s, a, b, 0, Len(b))
      /\ Len(b) \in Nat /\ Len(s) \in Nat /\ Len(bytes) \in Nat
  BY DEF Unread, At
<1>2. Joins(s2, s, bytes) /\ Joins(b2, b, bytes)
  BY <1>1, Concatenation
<1> HIDE DEF s2, b2
<1>3. /\ s2 \in Seq(Byte) /\ Len(s2) = Len(s) + Len(bytes)
      /\ \A i \in 1..Len(s) : s2[i] = s[i]
      /\ \A i \in 1..Len(bytes) : s2[Len(s) + i] = bytes[i]
  BY <1>2, Zenon DEF Joins
<1>4. /\ b2 \in Seq(Byte) /\ Len(b2) = Len(b) + Len(bytes)
      /\ \A i \in 1..Len(b) : b2[i] = b[i]
      /\ \A i \in 1..Len(bytes) : b2[Len(b) + i] = bytes[i]
  BY <1>2, Zenon DEF Joins
<1>l. /\ a + Len(b) = Len(s) /\ Len(s2) = Len(s) + Len(bytes)
      /\ Len(b2) = Len(b) + Len(bytes)
      /\ Len(b) \in Nat /\ Len(s) \in Nat /\ Len(bytes) \in Nat /\ a \in Nat
  BY <1>1, <1>3, <1>4
<1>5. ASSUME NEW i \in 1..Len(b2)
      PROVE  s2[a + i] = b2[0 + i]
  <2>0. 0 + i = i /\ i \in Nat
    OBVIOUS
  <2>1. CASE i <= Len(b)
    <3>1. i \in 1..Len(b) /\ a + i \in 1..Len(s)
      BY <1>1, <2>1
    <3>2. s[a + i] = b[0 + i]
      BY <1>1, <3>1 DEF Alike
    <3>3. s2[a + i] = s[a + i] /\ b2[i] = b[i]
      BY <1>3, <1>4, <3>1
    <3> QED
      BY <2>0, <3>2, <3>3
  <2>2. CASE ~(i <= Len(b))
    <3> DEFINE k == i - Len(b)
    <3>1. k \in 1..Len(bytes) /\ a + i = Len(s) + k /\ i = Len(b) + k
      BY ONLY <1>l, <2>0, <2>2, i \in 1..Len(b2)
    <3> HIDE DEF k
    <3>2. s2[Len(s) + k] = bytes[k] /\ b2[Len(b) + k] = bytes[k]
      BY <1>3, <1>4, <3>1
    <3> QED
      BY <2>0, <3>1, <3>2
  <2> QED
    BY <2>1, <2>2
<1>6. a + Len(b2) = Len(s2) /\ a + Len(b2) <= Len(s2)
  BY ONLY <1>l
<1>7. Alike(s2, a, b2, 0, Len(b2))
  BY <1>5 DEF Alike
<1> QED
  BY <1>4, <1>6, <1>7 DEF Unread, At, s2, b2

-----------------------------------------------------------------------------
(* The invariant, and what the writers do *)

(* A prefix stays one when more is written. *)
LEMMA PrefixGrows ==
  ASSUME NEW s \in Seq(Byte), NEW t \in Seq(Byte), IsPrefix(s, t), NEW x \in Seq(Byte)
  PROVE  IsPrefix(s, t \o x)
<1>1. Len(s) <= Len(t) /\ SubSeq(s, 1, Len(s)) = SubSeq(t, 1, Len(s))
  BY DEF IsPrefix
<1>2. Joins(t \o x, t, x)
  BY Concatenation
<1> DEFINE u == t \o x
<1> HIDE DEF u
<1>3. /\ u \in Seq(Byte) /\ Len(u) = Len(t) + Len(x)
      /\ \A i \in 1..Len(t) : u[i] = t[i]
  BY <1>2 DEF Joins, u
<1>4. Len(s) <= Len(u) /\ Len(s) \in Nat /\ Len(t) \in Nat
  BY <1>1, <1>3
<1>5. SubSeq(u, 1, Len(s)) = SubSeq(t, 1, Len(s))
  BY <1>1, <1>3, <1>4
<1> QED
  BY <1>1, <1>4, <1>5 DEF IsPrefix, u

(* A prefix, by position. *)
LEMMA PrefixByPosition ==
  ASSUME NEW S, NEW s \in Seq(S), NEW t \in Seq(S), Len(s) <= Len(t),
         \A i \in 1..Len(s) : s[i] = t[i]
  PROVE  IsPrefix(s, t)
<1>1. SubSeq(s, 1, Len(s)) = SubSeq(t, 1, Len(s))
  OBVIOUS
<1> QED
  BY <1>1 DEF IsPrefix

(* Nothing is written and nothing is read. *)
LEMMA InvInit == Init => VarIntInv
<1> SUFFICES ASSUME Init PROVE VarIntInv
  OBVIOUS
<1> DEFINE at == [j \in 1..1 |-> 0]
<1>1. /\ put = <<>> /\ got = <<>> /\ buf = <<>> /\ cut = FALSE
      /\ last.err = "nil" /\ last.taken = 0 /\ last.allocated = 0 /\ last.limit = 0
  BY DEF Init
<1>2. Layout(<<>>, at, put)
  BY <1>1 DEF Layout
<1>3. Unread(<<>>, at[Len(got) + 1], buf, cut)
  BY <1>1 DEF Unread, At, Alike
<1>4. VarIntTypes
  <2>1. /\ put \in Seq(Items) /\ got \in Seq(Items) /\ buf \in Seq(Byte)
        /\ Len(put) = 0 /\ Len(got) = 0
    BY <1>1
  <2>2. \A j \in 1..0 : FALSE
    OBVIOUS
  <2>3. Len(got) <= Len(put)
    BY <2>1
  <2> QED
    BY <1>1, <2>1, <2>2, <2>3, Zenon DEF VarIntTypes
<1>5. FailsOnlyAtTheCut /\ AllocatesWithinLimit /\ NeverLonger
  BY <1>1 DEF FailsOnlyAtTheCut, AllocatesWithinLimit, NeverLonger
<1> QED
  BY <1>1, <1>2, <1>3, <1>4, <1>5 DEF VarIntInv

(* What any writer does. *)
LEMMA PutKeeps ==
  ASSUME VarIntInv, NEW item, IsItem(item), NEW bytes \in Seq(Byte),
         Laid(bytes, 0, Len(bytes), item), PutBytes(item, bytes), cut' \in BOOLEAN
  PROVE  VarIntInv'
<1>0. item \in Items
  BY DEF IsItem, Items
<1>1. /\ ~cut /\ put' = Append(put, item) /\ buf' = buf \o bytes
      /\ got' = got /\ last' = last
  BY DEF PutBytes
<1>2. VarIntTypes
  BY DEF VarIntInv
<1>3. /\ put \in Seq(Items) /\ got \in Seq(Items) /\ buf \in Seq(Byte) /\ cut = FALSE
      /\ Len(put) \in Nat /\ Len(got) \in Nat /\ Len(got) <= Len(put)
      /\ \A j \in 1..Len(put) : IsItem(put[j])
      /\ \A j \in 1..Len(got) : got[j] = put[j]
  BY <1>1, <1>2 DEF VarIntTypes
<1>4. /\ put' \in Seq(Items) /\ Len(put') = Len(put) + 1 /\ put'[Len(put) + 1] = item
      /\ \A j \in 1..Len(put) : put'[j] = put[j]
  BY <1>0, <1>1, <1>3
<1>5. VarIntTypes'
  <2>1. buf' \in Seq(Byte)
    BY <1>1, <1>3
  <2>2. ASSUME NEW j \in 1..Len(put') PROVE IsItem(put'[j])
    <3>1. j \in 1..Len(put) \/ j = Len(put) + 1
      BY <1>3, <1>4
    <3> QED
      BY <1>3, <1>4, <3>1
  <2>3. ASSUME NEW j \in 1..Len(got) PROVE got[j] = put'[j]
    <3>1. j \in 1..Len(put)
      BY <1>3
    <3> QED
      BY <1>3, <1>4, <3>1
  <2>4. Len(got) <= Len(put')
    BY <1>3, <1>4
  <2> QED
    BY <1>1, <1>3, <1>4, <2>1, <2>2, <2>3, <2>4 DEF VarIntTypes
<1>6. \E s, at : /\ Layout(s, at, put')
                 /\ last'.err = "nil" => Unread(s, at[Len(got') + 1], buf', cut')
  <2>1. PICK s, at : /\ Layout(s, at, put)
                     /\ last.err = "nil" => Unread(s, at[Len(got) + 1], buf, cut)
    BY DEF VarIntInv
  <2>2. PICK at2 : /\ Layout(s \o bytes, at2, Append(put, item))
                   /\ \A j \in 1..(Len(put) + 1) : at2[j] = at[j]
    BY ONLY <1>0, <1>3, <2>1, LayoutGrows, bytes \in Seq(Byte), Laid(bytes, 0, Len(bytes), item)
  <2>3. Len(got) + 1 \in 1..(Len(put) + 1)
    BY <1>3
  <2>4. at2[Len(got) + 1] = at[Len(got) + 1] /\ at[Len(got) + 1] \in Nat /\ s \in Seq(Byte)
    BY <2>1, <2>2, <2>3 DEF Layout
  <2>5. ASSUME last.err = "nil"
        PROVE  Unread(s \o bytes, at2[Len(got) + 1], buf', cut')
    <3>1. Unread(s, at[Len(got) + 1], buf, FALSE)
      BY <1>3, <2>1, <2>5
    <3>2. Unread(s \o bytes, at[Len(got) + 1], buf \o bytes, cut')
      BY ONLY <2>4, <3>1, UnreadGrows, bytes \in Seq(Byte), cut' \in BOOLEAN
    <3> QED
      BY <1>1, <2>4, <3>2
  <2> QED
    BY <1>1, <2>2, <2>5, Zenon
<1>7. last'.err # "nil" => Len(got') < Len(put')
  BY <1>1, <1>3, <1>4 DEF VarIntInv
<1>8. FailsOnlyAtTheCut'
  <2> SUFFICES ASSUME last.err # "nil"
               PROVE  LET next == put'[Len(got) + 1]
                      IN  IF last.err = "MessageError"
                          THEN next.text /\ next.count > last.limit
                               /\ (~cut' => IsPrefix(next.bytes, buf'))
                          ELSE cut' /\ buf' = <<>>
    BY <1>1, Zenon DEF FailsOnlyAtTheCut
  <2>1. Len(got) < Len(put)
    BY DEF VarIntInv
  <2>2. Len(got) + 1 \in 1..Len(put)
    BY <1>3, <2>1
  <2>3. put'[Len(got) + 1] = put[Len(got) + 1] /\ put[Len(got) + 1] \in Items
    BY <1>3, <1>4, <2>2
  <2> DEFINE next == put[Len(got) + 1]
  <2>4. IF last.err = "MessageError"
        THEN next.text /\ next.count > last.limit /\ (~cut => IsPrefix(next.bytes, buf))
        ELSE cut /\ buf = <<>>
    BY DEF VarIntInv, FailsOnlyAtTheCut
  <2>5. next.bytes \in Seq(Byte)
    BY <2>3 DEF Items
  <2> HIDE DEF next
  <2>6. last.err = "MessageError" /\ next.text /\ next.count > last.limit
        /\ IsPrefix(next.bytes, buf)
    BY <1>3, <2>4
  <2>7. IsPrefix(next.bytes, buf')
    BY <1>1, <1>3, <2>5, <2>6, PrefixGrows
  <2> QED
    BY <2>3, <2>6, <2>7 DEF next
<1>9. AllocatesWithinLimit' /\ NeverLonger'
  <2>1. AllocatesWithinLimit /\ NeverLonger
    BY DEF VarIntInv
  <2> QED
    BY <1>1, <2>1 DEF AllocatesWithinLimit, NeverLonger
<1> QED
  BY <1>5, <1>6, <1>7, <1>8, <1>9, Zenon DEF VarIntInv

(* The buffer loses its end. *)
LEMMA CutKeeps ==
  ASSUME VarIntInv, Cut
  PROVE  VarIntInv'
<1>1. PICK n \in 0..(Len(buf) - 1) : buf' = SubSeq(buf, 1, n)
  BY DEF Cut
<1>2. ~cut /\ cut' = TRUE /\ put' = put /\ got' = got /\ last' = last
  BY DEF Cut
<1>3. VarIntTypes /\ FailsOnlyAtTheCut /\ AllocatesWithinLimit /\ NeverLonger
      /\ (last.err # "nil" => Len(got) < Len(put))
  BY DEF VarIntInv
<1>4. buf \in Seq(Byte) /\ Len(buf) \in Nat /\ n \in Nat /\ n <= Len(buf)
  BY <1>3 DEF VarIntTypes
<1>5. buf' \in Seq(Byte) /\ Len(buf') = n /\ \A i \in 1..n : buf'[i] = buf[i]
  BY <1>1, <1>4
<1>6. VarIntTypes'
  BY <1>2, <1>3, <1>5 DEF VarIntTypes
<1>7. \E s, at : /\ Layout(s, at, put')
                 /\ last'.err = "nil" => Unread(s, at[Len(got') + 1], buf', cut')
  <2>1. PICK s, at : /\ Layout(s, at, put)
                     /\ last.err = "nil" => Unread(s, at[Len(got) + 1], buf, cut)
    BY DEF VarIntInv
  <2> DEFINE a == at[Len(got) + 1]
  <2>2. a \in Nat
    <3>1. Len(got) + 1 \in 1..(Len(put) + 1)
      BY <1>3 DEF VarIntTypes
    <3> QED
      BY <2>1, <3>1 DEF Layout
  <2> HIDE DEF a
  <2>3. ASSUME last.err = "nil" PROVE Unread(s, a, buf', cut')
    <3>1. a + Len(buf) <= Len(s) /\ Alike(s, a, buf, 0, Len(buf)) /\ Len(s) \in Nat
      BY <2>1, <2>3 DEF Unread, At, a, Layout
    <3>2. a + Len(buf') <= Len(s)
      BY <1>4, <1>5, <2>2, <3>1
    <3>3. ASSUME NEW i \in 1..Len(buf') PROVE s[a + i] = buf'[0 + i]
      <4>1. i \in 1..Len(buf) /\ i \in 1..n /\ 0 + i = i
        BY <1>4, <1>5
      <4>2. s[a + i] = buf[0 + i]
        BY <3>1, <4>1 DEF Alike
      <4> QED
        BY <1>5, <4>1, <4>2
    <3>4. Alike(s, a, buf', 0, Len(buf'))
      BY <3>3 DEF Alike
    <3> QED
      BY <1>2, <1>5, <3>2, <3>4 DEF Unread, At
  <2> QED
    BY <1>2, <2>1, <2>3, Zenon DEF a
<1>8. FailsOnlyAtTheCut'
  BY <1>2, <1>3, Zenon DEF FailsOnlyAtTheCut
<1>9. AllocatesWithinLimit' /\ NeverLonger'
  BY <1>2, <1>3 DEF AllocatesWithinLimit, NeverLonger
<1> QED
  BY <1>2, <1>3, <1>6, <1>7, <1>8, <1>9, Zenon DEF VarIntInv

-----------------------------------------------------------------------------
(* What the reader does *)

(* An item that was read is written again in no more bytes. *)
LEMMA WrittenAgain ==
  ASSUME NEW v \in 0..(Base8 - 1), NEW n \in Nat, NEW taken \in Nat,
         VarIntSerializeSize(v) + n <= taken
  PROVE  LET again == writeVarInt(v)
         IN  /\ Len(again) + n <= taken
             /\ Len(again) = VarIntSerializeSize(v)
             /\ readVarInt(again).val = v
<1> DEFINE f == writeVarInt(v)
<1>1. f \in Seq(Byte) /\ Len(f) = VarIntSerializeSize(v) /\ IsForm(f, 0, Len(f), v)
  BY Written
<1> HIDE DEF f
<1>2. Len(f) <= Len(f)
  BY <1>1
<1>3. readVarInt(f) = [val |-> v, taken |-> Len(f), err |-> "nil"]
  BY ONLY <1>1, <1>2, ReadsForm
<1>4. readVarInt(f).val = v
  BY <1>3
<1> QED
  BY <1>1, <1>4 DEF f

(* What every read does at the next item. *)
LEMMA GetKeeps ==
  ASSUME VarIntInv, last.err = "nil", Len(got) < Len(put),
         NEW s, NEW at, Layout(s, at, put),
         Unread(s, at[Len(got) + 1], buf, cut),
         NEW res, NEW limit, Gets(res, limit),
         GotText(res, buf, s, at[Len(got) + 1], at[Len(got) + 2], put[Len(got) + 1], limit),
         res.err = "MessageError" => put[Len(got) + 1].text
  PROVE  VarIntInv'
<1> DEFINE g == Len(got)
           item == put[g + 1]
           a == at[g + 1]
           e == at[g + 2]
<1>1. /\ last' = [item |-> res.item, taken |-> res.taken, err |-> res.err,
                  allocated |-> res.allocated, limit |-> limit]
      /\ buf' = SubSeq(buf, res.taken + 1, Len(buf))
      /\ got' = IF res.err = "nil" THEN Append(got, res.item) ELSE got
      /\ put' = put /\ cut' = cut
  BY DEF Gets
<1>2. /\ last'.item = res.item /\ last'.taken = res.taken /\ last'.err = res.err
      /\ last'.allocated = res.allocated /\ last'.limit = limit
  BY <1>1
<1>3. VarIntTypes
  BY DEF VarIntInv
<1>4. /\ put \in Seq(Items) /\ got \in Seq(Items) /\ buf \in Seq(Byte) /\ cut \in BOOLEAN
      /\ Len(put) \in Nat /\ g \in Nat /\ Len(buf) \in Nat
      /\ \A j \in 1..Len(put) : IsItem(put[j])
      /\ \A j \in 1..g : got[j] = put[j]
  BY <1>3 DEF VarIntTypes
<1>5. /\ g + 1 \in 1..Len(put) /\ g + 1 \in 1..(Len(put) + 1) /\ g + 2 \in 1..(Len(put) + 1)
      /\ (g + 1) + 1 = g + 2
  BY <1>4
<1>6. item \in Items /\ IsItem(item)
  BY <1>4, <1>5
<1>7. /\ a \in Nat /\ e \in Nat /\ e <= Len(s) /\ s \in Seq(Byte) /\ Len(s) \in Nat
  BY <1>5 DEF Layout
<1>8. /\ a + Len(buf) <= Len(s) /\ Alike(s, a, buf, 0, Len(buf))
      /\ ~cut => a + Len(buf) = Len(s)
  BY DEF Unread, At
<1>9. GotText(res, buf, s, a, e, item, limit)
  OBVIOUS
<1>10. item.bytes \in Seq(Byte) /\ Len(item.bytes) \in Nat /\ item.count \in 0..(Base8 - 1)
  BY <1>6 DEF Items
<1>t. res.err = "MessageError" => item.text
  OBVIOUS
<1> HIDE DEF g, a, e, item
<1>11. ASSUME res.taken \in Nat, res.taken <= Len(buf)
       PROVE  /\ buf' \in Seq(Byte) /\ Len(buf') = Len(buf) - res.taken
              /\ \A i \in 1..Len(buf') : buf'[i] = buf[res.taken + i]
  BY <1>1, <1>4, <1>11, Behind
<1>12. CASE /\ res.err = "nil" /\ res.item = item /\ res.allocated <= limit
            /\ a + res.taken = e /\ res.taken > 0 /\ res.taken <= Len(buf) /\ res.taken \in Nat
            /\ VarIntSerializeSize(item.count) + Len(item.bytes) <= res.taken
  <2>1. got' = Append(got, item)
    BY <1>1, <1>12
  <2>2. /\ got' \in Seq(Items) /\ Len(got') = g + 1 /\ got'[g + 1] = item
        /\ \A j \in 1..g : got'[j] = got[j]
    BY <1>4, <1>6, <2>1 DEF g
  <2>3. VarIntTypes'
    <3>1. buf' \in Seq(Byte)
      BY <1>11, <1>12
    <3>2. ASSUME NEW j \in 1..(g + 1) PROVE got'[j] = put[j]
      <4>1. j \in 1..g \/ j = g + 1
        BY <1>4
      <4> QED
        BY <1>4, <2>2, <4>1 DEF item
    <3>3. g + 1 <= Len(put)
      BY <1>5, <1>4
    <3> QED
      BY <1>1, <1>4, <2>2, <3>1, <3>2, <3>3 DEF VarIntTypes
  <2>4. Unread(s, e, buf', cut')
    <3>1. buf' \in Seq(Byte) /\ Len(buf') = Len(buf) - res.taken
          /\ \A i \in 1..Len(buf') : buf'[i] = buf[res.taken + i]
      BY <1>11, <1>12
    <3>2. e + Len(buf') = a + Len(buf)
      BY <1>4, <1>7, <1>12, <3>1
    <3>3. ASSUME NEW i \in 1..Len(buf') PROVE s[e + i] = buf'[0 + i]
      <4>1. 0 + i = i /\ res.taken + i \in 1..Len(buf) /\ a + (res.taken + i) = e + i
            /\ 0 + (res.taken + i) = res.taken + i
        BY <1>4, <1>7, <1>12, <3>1, SMTT(30)
      <4>2. s[a + (res.taken + i)] = buf[0 + (res.taken + i)]
        BY <1>8, <4>1 DEF Alike
      <4>3. buf'[i] = buf[res.taken + i]
        BY <3>1
      <4> QED
        BY ONLY <4>1, <4>2, <4>3, Zenon
    <3>4. Alike(s, e, buf', 0, Len(buf'))
      BY <3>3 DEF Alike
    <3>5. e + Len(buf') <= Len(s) /\ (~cut => e + Len(buf') = Len(s))
      BY <1>8, <3>2
    <3> QED
      BY <1>1, <3>1, <3>4, <3>5 DEF Unread, At
  <2>5. \E s1, at1 : /\ Layout(s1, at1, put')
                     /\ last'.err = "nil" => Unread(s1, at1[Len(got') + 1], buf', cut')
    <3>1. at[Len(got') + 1] = e
      BY <1>5, <2>2 DEF e
    <3>2. Layout(s, at, put')
      BY <1>1
    <3>3. Unread(s, at[Len(got') + 1], buf', cut')
      BY <2>4, <3>1
    <3> QED
      BY ONLY <3>2, <3>3, Zenon
  <2>6. AllocatesWithinLimit' /\ FailsOnlyAtTheCut' /\ ~(last'.err # "nil")
    BY <1>2, <1>12, Zenon DEF AllocatesWithinLimit, FailsOnlyAtTheCut
  <2>7. NeverLonger'
    <3>1. /\ Len(writeVarInt(item.count)) + Len(item.bytes) <= res.taken
          /\ Len(writeVarInt(item.count)) = VarIntSerializeSize(item.count)
          /\ readVarInt(writeVarInt(item.count)).val = item.count
      BY <1>10, <1>12, WrittenAgain
    <3>2. last'.item = item /\ last'.taken = res.taken
      BY <1>2, <1>12
    <3> QED
      BY <3>1, <3>2, Zenon DEF NeverLonger
  <2> QED
    BY <2>3, <2>5, <2>6, <2>7, Zenon DEF VarIntInv
<1>e. ASSUME res.err # "nil"
      PROVE  /\ got' = got /\ NeverLonger' /\ Len(got') < Len(put')
             /\ \E s1, at1 : /\ Layout(s1, at1, put')
                             /\ last'.err = "nil" => Unread(s1, at1[Len(got') + 1], buf', cut')
             /\ buf' \in Seq(Byte) => VarIntTypes'
  <2>1. got' = got /\ last'.err # "nil"
    BY <1>1, <1>2, <1>e
  <2>2. NeverLonger'
    BY <2>1, Zenon DEF NeverLonger
  <2>3. Layout(s, at, put')
    BY <1>1
  <2>4. buf' \in Seq(Byte) => VarIntTypes'
    BY <1>1, <1>3, <2>1 DEF VarIntTypes
  <2> QED
    BY <1>1, <2>1, <2>2, <2>3, <2>4
<1>13. CASE /\ res.err = "MessageError" /\ item.count > limit /\ res.allocated <= limit
            /\ res.taken \in 0..Len(buf)
            /\ Has(s, a + res.taken, item.bytes) /\ e = a + res.taken + Len(item.bytes)
  <2>1. res.taken \in Nat /\ res.taken <= Len(buf)
    BY <1>4, <1>13
  <2>2. /\ buf' \in Seq(Byte) /\ Len(buf') = Len(buf) - res.taken
        /\ \A i \in 1..Len(buf') : buf'[i] = buf[res.taken + i]
    BY <1>11, <2>1
  <2>3. ASSUME ~cut PROVE IsPrefix(item.bytes, buf')
    <3>1. a + Len(buf) = Len(s)
      BY <1>8, <2>3
    <3>2. Len(item.bytes) <= Len(buf')
      BY <1>4, <1>7, <1>10, <1>13, <2>1, <2>2, <3>1, SMTT(30)
    <3>3. ASSUME NEW i \in 1..Len(item.bytes) PROVE item.bytes[i] = buf'[i]
      <4> DEFINE l == Len(buf)
                 k == res.taken
      <4> HIDE DEF l, k
      <4>0. l \in Nat /\ k \in Nat /\ k <= l /\ a \in Nat /\ i \in 1..(l - k)
        <5>1. Len(item.bytes) <= l - k
          BY <2>2, <3>2 DEF l, k
        <5> QED
          BY <1>4, <1>7, <1>10, <2>1, <5>1 DEF l, k
      <4>1. /\ i \in 1..Len(buf') /\ k + i \in 1..Len(buf)
            /\ a + (k + i) = (a + k) + i /\ 0 + (k + i) = k + i
        <5>1. k + i \in 1..l /\ a + (k + i) = (a + k) + i /\ 0 + (k + i) = k + i
          BY ONLY <4>0
        <5> QED
          BY <2>2, <4>0, <5>1 DEF l, k
      <4> USE DEF k
      <4>2. s[a + (res.taken + i)] = buf[0 + (res.taken + i)]
        BY <1>8, <4>1 DEF Alike
      <4>3. buf'[i] = buf[res.taken + i]
        BY <2>2, <4>1
      <4>4. s[(a + res.taken) + i] = item.bytes[i]
        BY <1>13 DEF Has
      <4> QED
        BY ONLY <4>1, <4>2, <4>3, <4>4, Zenon
    <3> QED
      BY ONLY <1>10, <2>2, <3>2, <3>3, PrefixByPosition
  <2>4. FailsOnlyAtTheCut'
    <3>1. put'[Len(got') + 1] = item /\ last'.err = "MessageError" /\ last'.limit = limit
          /\ cut' = cut /\ item.text /\ item.count > limit
      BY <1>1, <1>2, <1>13, <1>t, <1>e DEF item, g
    <3> QED
      BY ONLY <2>3, <3>1, Zenon DEF FailsOnlyAtTheCut
  <2>5. AllocatesWithinLimit'
    BY <1>2, <1>13 DEF AllocatesWithinLimit
  <2> QED
    BY <1>13, <1>e, <2>2, <2>4, <2>5 DEF VarIntInv
<1>14. CASE /\ res.err \in {"EOF", "UnexpectedEOF"} /\ res.taken = Len(buf)
            /\ res.allocated <= limit /\ a + Len(buf) < e
  <2>1. res.taken \in Nat /\ res.taken <= Len(buf) /\ res.err # "nil"
        /\ res.err # "MessageError"
    BY <1>4, <1>14
  <2>2. buf' \in Seq(Byte) /\ Len(buf') = Len(buf) - Len(buf)
    BY <1>11, <1>14, <2>1
  <2>3. buf' = <<>>
    BY <1>4, <2>2
  <2>4. cut
    BY <1>4, <1>7, <1>8, <1>14
  <2>5. FailsOnlyAtTheCut'
    BY <1>1, <1>2, <2>1, <2>3, <2>4, Zenon DEF FailsOnlyAtTheCut
  <2>6. AllocatesWithinLimit'
    BY <1>2, <1>14 DEF AllocatesWithinLimit
  <2> QED
    BY <1>e, <2>1, <2>2, <2>5, <2>6 DEF VarIntInv
<1> QED
  BY <1>9, <1>12, <1>13, <1>14, Zenon DEF GotText

(* GetInt is such a read. *)
LEMMA GetIntKeeps ==
  ASSUME VarIntInv, GetInt
  PROVE  VarIntInv'
<1> DEFINE r == readVarInt(buf)
           res == [item |-> Number(r.val), taken |-> r.taken, allocated |-> 0, err |-> r.err]
           g == Len(got)
<1>1. /\ last.err = "nil" /\ Len(got) < Len(put) /\ put[Len(got) + 1].text = FALSE
      /\ Gets(res, 0)
  BY DEF GetInt, Expects
<1>2. PICK s, at : Layout(s, at, put) /\ Unread(s, at[Len(got) + 1], buf, cut)
  BY <1>1 DEF VarIntInv
<1>3. /\ Len(put) \in Nat /\ Len(got) \in Nat
      /\ \A j \in 1..Len(put) : IsItem(put[j])
  BY DEF VarIntInv, VarIntTypes
<1>4. Len(got) + 1 \in 1..Len(put) /\ Len(got) + 1 \in 1..(Len(put) + 1)
      /\ (Len(got) + 1) + 1 = Len(got) + 2
  BY <1>1, <1>3
<1> DEFINE item == put[Len(got) + 1]
           a == at[Len(got) + 1]
           e == at[Len(got) + 2]
<1>5. Laid(s, a, e, item) /\ a \in Nat
  BY <1>2, <1>4 DEF Layout
<1>6. IsItem(item) /\ ~item.text /\ At(buf, s, a)
  BY <1>1, <1>2, <1>3, <1>4 DEF Unread
<1> HIDE DEF item, a, e
<1>7. GotInt(r, buf, a, e, item)
  BY ONLY <1>5, <1>6, GetsInt, Zenon
<1>8. /\ res.item = Number(r.val) /\ res.taken = r.taken /\ res.allocated = 0
      /\ res.err = r.err
  OBVIOUS
<1> HIDE DEF r, res
<1>9. res.err # "MessageError"
  BY <1>7, <1>8 DEF GotInt
<1>10. GotText(res, buf, s, a, e, item, 0)
  <2>1. CASE /\ r.err = "nil" /\ Number(r.val) = item
             /\ a + r.taken = e /\ r.taken > 0 /\ r.taken <= Len(buf) /\ r.taken \in Nat
             /\ VarIntSerializeSize(item.count) <= r.taken
    <3>1. item.bytes = <<>>
      BY <1>6 DEF IsItem
    <3>2. item.count \in Nat
      BY <1>6, Powers DEF IsItem
    <3>3. VarIntSerializeSize(item.count) \in Nat
      BY <3>2 DEF VarIntSerializeSize
    <3>4. VarIntSerializeSize(item.count) + Len(item.bytes) <= r.taken /\ 0 <= 0
      BY <2>1, <3>1, <3>3
    <3> QED
      BY <1>8, <2>1, <3>4, Zenon DEF GotText
  <2>2. CASE /\ r.err \in {"EOF", "UnexpectedEOF"} /\ r.taken = Len(buf)
             /\ a + Len(buf) < e
    <3>1. 0 <= 0
      OBVIOUS
    <3> QED
      BY <1>8, <2>2, <3>1, Zenon DEF GotText
  <2> QED
    BY <1>7, <2>1, <2>2, Zenon DEF GotInt
<1> QED
  BY ONLY VarIntInv, <1>1, <1>2, <1>9, <1>10, GetKeeps, Zenon DEF a, e, item

(* So are GetString and GetBytes, each with its limit. *)
LEMMA GetTextKeeps ==
  ASSUME VarIntInv, Expects(TRUE), NEW limit \in 0..(Base4 - 1),
         Gets(readVarBytes(buf, limit), limit)
  PROVE  VarIntInv'
<1> DEFINE res == readVarBytes(buf, limit)
<1>1. /\ last.err = "nil" /\ Len(got) < Len(put) /\ put[Len(got) + 1].text = TRUE
      /\ Gets(res, limit)
  BY DEF Expects
<1>2. PICK s, at : Layout(s, at, put) /\ Unread(s, at[Len(got) + 1], buf, cut)
  BY <1>1 DEF VarIntInv
<1>3. /\ Len(put) \in Nat /\ Len(got) \in Nat
      /\ \A j \in 1..Len(put) : IsItem(put[j])
  BY DEF VarIntInv, VarIntTypes
<1>4. Len(got) + 1 \in 1..Len(put) /\ Len(got) + 1 \in 1..(Len(put) + 1)
      /\ (Len(got) + 1) + 1 = Len(got) + 2
  BY <1>1, <1>3
<1> DEFINE item == put[Len(got) + 1]
           a == at[Len(got) + 1]
           e == at[Len(got) + 2]
<1>5. Laid(s, a, e, item) /\ a \in Nat
  BY <1>2, <1>4 DEF Layout
<1>6. IsItem(item) /\ item.text /\ At(buf, s, a)
  BY <1>1, <1>2, <1>3, <1>4 DEF Unread
<1> HIDE DEF item, a, e
<1>7. GotText(res, buf, s, a, e, item, limit)
  BY ONLY <1>5, <1>6, GetsText, limit \in 0..(Base4 - 1), Zenon
<1> HIDE DEF res
<1> QED
  BY ONLY VarIntInv, <1>1, <1>2, <1>6, <1>7, GetKeeps, Zenon DEF a, e, item

-----------------------------------------------------------------------------
(* The theorems *)

(* Whatever form the length or the integer was written in. *)
LEMMA FormIsLaid ==
  ASSUME NEW item \in Items, NEW form \in Seq(Byte), IsForm(form, 0, Len(form), item.count)
  PROVE  /\ form \o item.bytes \in Seq(Byte)
         /\ Laid(form \o item.bytes, 0, Len(form \o item.bytes), item)
<1> DEFINE x == item.bytes
           u == form \o x
<1>1. x \in Seq(Byte) /\ Len(x) \in Nat /\ Len(form) \in Nat
  BY DEF Items
<1>2. Joins(u, form, x)
  BY <1>1, Concatenation
<1> HIDE DEF u, x
<1>3. /\ u \in Seq(Byte) /\ Len(u) = Len(form) + Len(x)
      /\ \A i \in 1..Len(form) : u[i] = form[i]
      /\ \A i \in 1..Len(x) : u[Len(form) + i] = x[i]
  BY <1>2, Zenon DEF Joins
<1>4. Alike(form, 0, u, 0, Len(form) - 0)
  <2>1. ASSUME NEW i \in 1..(Len(form) - 0) PROVE form[0 + i] = u[0 + i]
    <3>1. 0 + i = i /\ i \in 1..Len(form)
      BY <1>1
    <3> QED
      BY <1>3, <3>1
  <2> QED
    BY <2>1 DEF Alike
<1>5. IsForm(u, 0, 0 + (Len(form) - 0), item.count)
  <2>1. 0 \in Nat
    OBVIOUS
  <2> QED
    BY ONLY <1>1, <1>4, <2>1, FormMoved, IsForm(form, 0, Len(form), item.count)
<1>6. 0 + (Len(form) - 0) = Len(form)
  BY <1>1
<1>7. IsForm(u, 0, Len(form), item.count)
  BY <1>5, <1>6
<1>8. Has(u, Len(form), x)
  BY <1>3 DEF Has
<1>9. Laid(u, 0, Len(u), item)
  BY <1>1, <1>3, <1>7, <1>8, Zenon DEF Laid, x
<1> QED
  BY <1>3, <1>9 DEF u, x

(* An integer is an item ... *)
LEMMA NumberItem ==
  ASSUME NEW v \in 0..(Base8 - 1)
  PROVE  /\ Number(v) \in Items /\ IsItem(Number(v))
         /\ Number(v).count = v /\ Number(v).bytes = <<>>
  BY DEF Number, Item, IsItem, Items

(* ... and so is a text. *)
LEMMA TextItem ==
  ASSUME NEW bytes \in Seq(Byte), Len(bytes) < Base8
  PROVE  /\ Text(bytes) \in Items /\ IsItem(Text(bytes))
         /\ Text(bytes).count = Len(bytes) /\ Text(bytes).bytes = bytes
<1>1. Len(bytes) \in 0..(Base8 - 1)
  BY Powers
<1> QED
  BY <1>1 DEF Text, Item, IsItem, Items

(* An integer of any form is an item by itself. *)
LEMMA PutNumber ==
  ASSUME VarIntInv, NEW v \in 0..(Base8 - 1), NEW form \in Seq(Byte),
         IsForm(form, 0, Len(form), v), PutBytes(Number(v), form), UNCHANGED cut
  PROVE  VarIntInv'
<1>1. /\ Number(v) \in Items /\ IsItem(Number(v))
      /\ Number(v).count = v /\ Number(v).bytes = <<>>
  BY NumberItem
<1>2. form \o <<>> = form
  OBVIOUS
<1> DEFINE item == Number(v)
<1> HIDE DEF item
<1>3. Laid(form, 0, Len(form), item)
  <2>1. item \in Items /\ IsForm(form, 0, Len(form), item.count) /\ form \o item.bytes = form
    BY <1>1, <1>2 DEF item
  <2>2. Laid(form \o item.bytes, 0, Len(form \o item.bytes), item)
    BY ONLY <2>1, FormIsLaid, form \in Seq(Byte)
  <2> QED
    BY <2>1, <2>2
<1>4. cut' \in BOOLEAN
  BY DEF VarIntInv, VarIntTypes
<1> QED
  BY <1>1, <1>3, <1>4, PutKeeps, Zenon DEF item

(* A text follows its length, in any form. *)
LEMMA PutText ==
  ASSUME VarIntInv, NEW bytes \in Seq(Byte), Len(bytes) < Base8, NEW form \in Seq(Byte),
         IsForm(form, 0, Len(form), Len(bytes)), PutBytes(Text(bytes), form \o bytes),
         UNCHANGED cut
  PROVE  VarIntInv'
<1>1. /\ Text(bytes) \in Items /\ IsItem(Text(bytes))
      /\ Text(bytes).count = Len(bytes) /\ Text(bytes).bytes = bytes
  BY TextItem
<1> DEFINE item == Text(bytes)
<1> HIDE DEF item
<1>3. /\ form \o bytes \in Seq(Byte) /\ Laid(form \o bytes, 0, Len(form \o bytes), item)
  <2>1. item \in Items /\ IsForm(form, 0, Len(form), item.count) /\ item.bytes = bytes
    BY <1>1 DEF item
  <2>2. /\ form \o item.bytes \in Seq(Byte)
        /\ Laid(form \o item.bytes, 0, Len(form \o item.bytes), item)
    BY ONLY <2>1, FormIsLaid, form \in Seq(Byte)
  <2> QED
    BY <2>1, <2>2
<1>4. cut' \in BOOLEAN
  BY DEF VarIntInv, VarIntTypes
<1> QED
  BY <1>1, <1>3, <1>4, PutKeeps, Zenon DEF item

(* The forms of other programs are forms. *)
LEMMA LongFormIs ==
  ASSUME NEW v \in Nat, NEW form \in LongForms(v)
  PROVE  form \in Seq(Byte) /\ IsForm(form, 0, Len(form), v)
<1>1. PICK d \in {w \in {Two, Four, Eight} : v < Limit(w)} :
        form = <<d>> \o PutUint(v, Width(d))
  BY DEF LongForms
<1>2. d \in {Two, Four, Eight} /\ v < Limit(d)
  BY <1>1
<1> QED
  BY ONLY <1>1, <1>2, LongFormed, v \in Nat

(* Every step keeps the invariant. *)
LEMMA InvNext == VarIntInv /\ [Next]_vars => VarIntInv'
<1> SUFFICES ASSUME VarIntInv, [Next]_vars PROVE VarIntInv'
  OBVIOUS
<1>v. ASSUME NEW v \in Values PROVE v \in 0..(Base8 - 1) /\ v \in Nat
  BY VarIntAssumption, Powers DEF VarIntAssumption
<1>t. ASSUME NEW text \in Texts
      PROVE  text \in Seq(Byte) /\ Len(text) < Base8 /\ Len(text) \in 0..(Base8 - 1) /\ Len(text) \in Nat
  BY VarIntAssumption, Powers DEF VarIntAssumption
<1>w. ASSUME NEW v \in 0..(Base8 - 1)
      PROVE  writeVarInt(v) \in Seq(Byte) /\ IsForm(writeVarInt(v), 0, Len(writeVarInt(v)), v)
  BY Written, Zenon
<1>1. CASE Put
  <2>0. UNCHANGED cut
    BY <1>1 DEF Put
  <2>1. ASSUME NEW v \in Values, PutBytes(Number(v), writeVarInt(v)) PROVE VarIntInv'
    BY <1>v, <1>w, <2>0, <2>1, PutNumber
  <2>2. ASSUME NEW bytes \in Texts, PutBytes(Text(bytes), writeVarString(bytes)) PROVE VarIntInv'
    <3>1. PutBytes(Text(bytes), writeVarInt(Len(bytes)) \o bytes)
      BY <2>2 DEF writeVarString, writeVarBytes
    <3> QED
      BY <1>t, <1>w, <2>0, <3>1, PutText
  <2> QED
    BY <1>1, <2>1, <2>2 DEF Put
<1>2. CASE PutLong
  <2>0. UNCHANGED cut
    BY <1>2 DEF PutLong
  <2>1. ASSUME NEW v \in Values, NEW form \in LongForms(v), PutBytes(Number(v), form)
        PROVE  VarIntInv'
    BY <1>v, <2>0, <2>1, LongFormIs, PutNumber
  <2>2. ASSUME NEW bytes \in Texts, NEW form \in LongForms(Len(bytes)),
               PutBytes(Text(bytes), form \o bytes)
        PROVE  VarIntInv'
    BY <1>t, <2>0, <2>2, LongFormIs, PutText
  <2> QED
    BY <1>2, <2>1, <2>2 DEF PutLong
<1>3. CASE PutHuge
  <2>1. PICK v \in {u \in Values : u >= Base4} :
          PutBytes(Item(TRUE, v, <<0>>), writeVarInt(v) \o <<0>>)
    BY <1>3 DEF PutHuge
  <2>2. v \in 0..(Base8 - 1) /\ v >= Base4
    BY <1>v, <2>1
  <2> DEFINE item == Item(TRUE, v, <<0>>)
             form == writeVarInt(v)
  <2>3. <<0>> \in Seq(Byte)
    BY Powers DEF Byte
  <2>4. /\ item \in Items /\ IsItem(item) /\ item.count = v /\ item.bytes = <<0>>
    BY <2>2, <2>3 DEF Item, Items, IsItem
  <2>5. form \in Seq(Byte) /\ IsForm(form, 0, Len(form), item.count)
    BY <1>w, <2>2, <2>4
  <2> HIDE DEF item, form
  <2>6. /\ form \o item.bytes \in Seq(Byte)
        /\ Laid(form \o item.bytes, 0, Len(form \o item.bytes), item)
    BY ONLY <2>4, <2>5, FormIsLaid
  <2>7. cut' \in BOOLEAN
    BY <1>3 DEF PutHuge
  <2>8. PutBytes(item, form \o item.bytes)
    BY <2>1, <2>4 DEF item, form
  <2> QED
    BY <2>4, <2>6, <2>7, <2>8, PutKeeps, Zenon
<1>4. CASE Cut
  BY <1>4, CutKeeps
<1>5. CASE GetInt
  BY <1>5, GetIntKeeps
<1>6. CASE GetString
  <2>1. Expects(TRUE) /\ Gets(readVarBytes(buf, MaxMessagePayload), MaxMessagePayload)
    BY <1>6 DEF GetString, readVarString
  <2>2. MaxMessagePayload \in 0..(Base4 - 1)
    BY VarIntAssumption DEF VarIntAssumption
  <2> QED
    BY <2>1, <2>2, GetTextKeeps, Zenon
<1>7. CASE GetBytes
  <2>1. Expects(TRUE) /\ Gets(readVarBytes(buf, MaxAllowed), MaxAllowed)
    BY <1>7 DEF GetBytes
  <2>2. MaxAllowed \in 0..(Base4 - 1)
    BY VarIntAssumption DEF VarIntAssumption
  <2> QED
    BY <2>1, <2>2, GetTextKeeps, Zenon
<1>8. CASE UNCHANGED vars
  BY <1>8 DEF vars, VarIntInv, VarIntTypes, FailsOnlyAtTheCut, AllocatesWithinLimit, NeverLonger
<1> QED
  BY <1>1, <1>2, <1>3, <1>4, <1>5, <1>6, <1>7, <1>8 DEF Next

(* What was written lies on a stream of items, the buffer is what is left
   of it, and the last read obeyed its limit. *)
THEOREM VarIntInvariant == Spec => []VarIntInv
  BY InvInit, InvNext, PTL DEF Spec

(* The items that were read are the first that were written. *)
LEMMA InvReads == VarIntInv => ReadsWhatWasWritten
<1> SUFFICES ASSUME VarIntInv PROVE IsPrefix(got, put)
  BY DEF ReadsWhatWasWritten
<1>1. /\ put \in Seq(Items) /\ got \in Seq(Items)
      /\ Len(got) <= Len(put) /\ \A j \in 1..Len(got) : got[j] = put[j]
  BY DEF VarIntInv, VarIntTypes
<1> QED
  BY ONLY <1>1, PrefixByPosition

(* Whatever forms the writers use and wherever the buffer ends, readVarInt,
   readVarString and readVarBytes return what was written, in order. *)
THEOREM VarIntReads == Spec => []ReadsWhatWasWritten
  BY VarIntInvariant, InvReads, PTL

(* The other properties are parts of the invariant. *)
LEMMA InvRest == VarIntInv => FailsOnlyAtTheCut /\ AllocatesWithinLimit /\ NeverLonger
  BY DEF VarIntInv

(* A read fails only at the end of a buffer that was cut, where it takes all
   that is left, or at a text beyond its limit, which it leaves unread. *)
THEOREM VarIntFails == Spec => []FailsOnlyAtTheCut
  BY VarIntInvariant, InvRest, PTL

(* Whatever count was announced, readVarString and readVarBytes allocate no
   more than their limit. *)
THEOREM VarIntAllocates == Spec => []AllocatesWithinLimit
  BY VarIntInvariant, InvRest, PTL

(* writeVarInt needs no more bytes for an item than it was read from, as many
   as VarIntSerializeSize says, and readVarInt reads the item back. *)
THEOREM VarIntShortest == Spec => []NeverLonger
  BY VarIntInvariant, InvRest, PTL
=============================================================================
