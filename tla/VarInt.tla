-------------------------------- MODULE VarInt ------------------------------
(***************************************************************************)
(* Variable length integers, in bytes, the count in front of every list,   *)
(* and the texts that such a count precedes.  A buffer carries integers    *)
(* and texts from writers to one reader; some of the writers are other     *)
(* programs, that may use a longer form than needed and exceed the limits, *)
(* and the buffer may end anywhere.                                        *)
(***************************************************************************)
EXTENDS Integers, Sequences

LOCAL INSTANCE SequencesExt

CONSTANTS
  Base,    \* the number of values of a byte, 256
  MaxMessagePayload, MaxAllowed,  \* the limits of texts
  Values,  \* the integers that are written, of 64 bits
  Texts,   \* the texts that are written
  MaxPuts  \* bound: how many items are written

(* A value of two, four and eight bytes is below these. *)
Base2 == Base * Base
Base4 == Base2 * Base2
Base8 == Base4 * Base4

Byte == 0..(Base - 1)

ASSUME VarIntAssumption ==
  /\ Base \in Nat /\ Base >= 4
  /\ MaxMessagePayload \in 0..(Base4 - 1) /\ MaxAllowed \in 0..(Base4 - 1)
  /\ Values \subseteq 0..(Base8 - 1)
  /\ Texts \subseteq Seq(Byte) /\ \A text \in Texts : Len(text) < Base8
  /\ MaxPuts \in Nat

VARIABLES
  put,   \* the items that were written (history)
  buf,   \* the bytes that are still to be read
  cut,   \* the buffer has lost its end
  got,   \* the items that were read (history)
  last   \* what the last read returned: an item, an error, the bytes it took
         \* and allocated, and the limit it was called with

vars == <<put, buf, cut, got, last>>

(* The count is the integer itself, or the length of the text. *)
Item(text, count, bytes) == [text |-> text, count |-> count, bytes |-> bytes]

Number(val)  == Item(FALSE, val, <<>>)
Text(bytes)  == Item(TRUE, Len(bytes), bytes)

-----------------------------------------------------------------------------
(* binary.BigEndian *)

PutUint16(val) == <<val \div Base, val % Base>>
PutUint32(val) == PutUint16(val \div Base2) \o PutUint16(val % Base2)
PutUint64(val) == PutUint32(val \div Base4) \o PutUint32(val % Base4)

PutUint(val, width) ==
  CASE width = 2 -> PutUint16(val)
    [] width = 4 -> PutUint32(val)
    [] width = 8 -> PutUint64(val)

(* Of the bytes behind position a. *)
Uint16(bytes, a) == bytes[a + 1] * Base + bytes[a + 2]
Uint32(bytes, a) == Uint16(bytes, a) * Base2 + Uint16(bytes, a + 2)
Uint64(bytes, a) == Uint32(bytes, a) * Base4 + Uint32(bytes, a + 4)

Uint(bytes, a, width) ==
  CASE width = 2 -> Uint16(bytes, a)
    [] width = 4 -> Uint32(bytes, a)
    [] width = 8 -> Uint64(bytes, a)

(* The first byte says how many follow; three of its values are taken.     *)
Two   == Base - 3   \* 0xfd
Four  == Base - 2   \* 0xfe
Eight == Base - 1   \* 0xff

-----------------------------------------------------------------------------
(* The functions of the package *)

(* Mutant: the first discriminant is written as a value. *)
WriteVarIntOffByOne(val) ==
  IF val <= Two THEN <<val>>
  ELSE IF val < Base2 THEN <<Two>> \o PutUint(val, 2)
  ELSE IF val < Base4 THEN <<Four>> \o PutUint(val, 4)
  ELSE <<Eight>> \o PutUint(val, 8)

writeVarInt(val) ==
  IF val < Two THEN <<val>>
  ELSE IF val < Base2 THEN <<Two>> \o PutUint(val, 2)
  ELSE IF val < Base4 THEN <<Four>> \o PutUint(val, 4)
  ELSE <<Eight>> \o PutUint(val, 8)

(* Mutant: the largest value of two bytes is counted as one of four. *)
SerializeSizeOffByOne(val) ==
  IF val < Two THEN 1
  ELSE IF val < Base2 - 1 THEN 3
  ELSE IF val < Base4 THEN 5
  ELSE 9

VarIntSerializeSize(val) ==
  IF val < Two THEN 1
  ELSE IF val < Base2 THEN 3
  ELSE IF val < Base4 THEN 5
  ELSE 9

(* Mutant: two discriminants share a width. *)
WidthShared(discriminant) ==
  CASE discriminant = Two -> 2
    [] discriminant \in {Four, Eight} -> 8
    [] OTHER -> 0

(* The bytes that follow a discriminant. *)
Width(discriminant) ==
  CASE discriminant = Two   -> 2
    [] discriminant = Four  -> 4
    [] discriminant = Eight -> 8
    [] OTHER                -> 0

(* io.ReadFull tells an end before the first byte from a later one, and    *)
(* there are two calls of it: a value that ends behind its discriminant is *)
(* an io.EOF as well.                                                      *)
readVarInt(bytes) ==
  LET n     == Len(bytes)
      width == Width(bytes[1])
  IN  IF n = 0 THEN [val |-> 0, taken |-> 0, err |-> "EOF"]
      ELSE IF width = 0 THEN [val |-> bytes[1], taken |-> 1, err |-> "nil"]
      ELSE IF n = 1 THEN [val |-> 0, taken |-> 1, err |-> "EOF"]
      ELSE IF n <= width THEN [val |-> 0, taken |-> n, err |-> "UnexpectedEOF"]
      ELSE [val |-> Uint(bytes, 1, width), taken |-> 1 + width,
            err |-> "nil"]

writeVarBytes(bytes) == writeVarInt(Len(bytes)) \o bytes

writeVarString(str) == writeVarBytes(str)

(* The count was read and the buffer allocated: io.ReadFull. *)
ReadText(rest, count) ==
  LET n == Len(rest)
  IN  IF n >= count.val
      THEN [item |-> Text(SubSeq(rest, 1, count.val)), err |-> "nil",
            taken |-> count.taken + count.val, allocated |-> count.val]
      ELSE [item |-> Text(<<>>), err |-> IF n = 0 THEN "EOF" ELSE "UnexpectedEOF",
            taken |-> count.taken + n, allocated |-> count.val]

(* Mutant: the count is converted to the type of the limit. *)
ReadVarBytesTruncated(bytes, maxAllowed) ==
  LET count == readVarInt(bytes)
  IN  IF count.err # "nil" \/ count.val % Base4 > maxAllowed
      THEN [item |-> Text(<<>>), taken |-> count.taken, allocated |-> 0,
            err |-> IF count.err = "nil" THEN "MessageError" ELSE count.err]
      ELSE ReadText(SubSeq(bytes, count.taken + 1, Len(bytes)), count)

(* A count that is too large is refused before anything is allocated. *)
readVarBytes(bytes, maxAllowed) ==
  LET count == readVarInt(bytes)
  IN  IF count.err # "nil" \/ count.val > maxAllowed
      THEN [item |-> Text(<<>>), taken |-> count.taken, allocated |-> 0,
            err |-> IF count.err = "nil" THEN "MessageError" ELSE count.err]
      ELSE ReadText(SubSeq(bytes, count.taken + 1, Len(bytes)), count)

readVarString(bytes) == readVarBytes(bytes, MaxMessagePayload)

-----------------------------------------------------------------------------
(* A buffer of integers and texts *)

Init ==
  /\ put = <<>> /\ buf = <<>> /\ cut = FALSE
  /\ got = <<>>
  /\ last = [item |-> Number(0), taken |-> 0, allocated |-> 0, err |-> "nil",
             limit |-> 0]

PutBytes(item, bytes) ==
  /\ ~cut /\ Len(put) < MaxPuts
  /\ put' = Append(put, item)
  /\ buf' = buf \o bytes
  /\ UNCHANGED <<got, last>>

Put ==
  /\ \/ \E val \in Values : PutBytes(Number(val), writeVarInt(val))
     \/ \E bytes \in Texts : PutBytes(Text(bytes), writeVarString(bytes))
  /\ UNCHANGED cut

(* A discriminant is followed by a value below this. *)
Limit(discriminant) ==
  CASE discriminant = Two   -> Base2
    [] discriminant = Four  -> Base4
    [] discriminant = Eight -> Base8

(* Another program writes an integer, or the length of a text, in any form *)
(* that is wide enough.                                                    *)
LongForms(val) == {<<d>> \o PutUint(val, Width(d)) :
                     d \in {w \in {Two, Four, Eight} : val < Limit(w)}}

PutLong ==
  /\ \/ \E val \in Values : \E form \in LongForms(val) :
          PutBytes(Number(val), form)
     \/ \E bytes \in Texts : \E form \in LongForms(Len(bytes)) :
          PutBytes(Text(bytes), form \o bytes)
  /\ UNCHANGED cut

(* It announces a text of a length that cannot follow. *)
PutHuge ==
  /\ \E length \in {v \in Values : v >= Base4} :
       PutBytes(Item(TRUE, length, <<0>>), writeVarInt(length) \o <<0>>)
  /\ cut' = TRUE

Cut ==
  /\ ~cut /\ buf # <<>>
  /\ cut' = TRUE
  /\ \E n \in 0..(Len(buf) - 1) : buf' = SubSeq(buf, 1, n)
  /\ UNCHANGED <<put, got, last>>

(* The reader knows what to expect, and stops at an error. *)
Expects(text) ==
  last.err = "nil" /\ Len(got) < Len(put) /\ put[Len(got) + 1].text = text

Gets(res, limit) ==
  /\ last' = [item |-> res.item, taken |-> res.taken, err |-> res.err,
              allocated |-> res.allocated, limit |-> limit]
  /\ buf' = SubSeq(buf, res.taken + 1, Len(buf))
  /\ got' = IF res.err = "nil" THEN Append(got, res.item) ELSE got
  /\ UNCHANGED <<put, cut>>

GetInt ==
  /\ Expects(FALSE)
  /\ LET res == readVarInt(buf)
     IN  Gets([item |-> Number(res.val), taken |-> res.taken, allocated |-> 0,
               err |-> res.err], 0)

GetString == Expects(TRUE) /\ Gets(readVarString(buf), MaxMessagePayload)

GetBytes == Expects(TRUE) /\ Gets(readVarBytes(buf, MaxAllowed), MaxAllowed)

Next == Put \/ PutLong \/ PutHuge \/ Cut \/ GetInt \/ GetString \/ GetBytes

Spec == Init /\ [][Next]_vars

-----------------------------------------------------------------------------
(* Properties *)

(* Whatever forms the items were written in and wherever the buffer ends,  *)
(* what readVarInt, readVarString and readVarBytes return is what was      *)
(* written, and nothing is returned in part.                               *)
ReadsWhatWasWritten == IsPrefix(got, put)

(* A read fails only where the buffer lost its end, and then it takes all  *)
(* that is left, so that no later read mistakes the rest of an item for    *)
(* one; or at a text that is longer than the limit, which is left unread   *)
(* behind its count.                                                       *)
FailsOnlyAtTheCut ==
  last.err # "nil" =>
    LET item == put[Len(got) + 1]
    IN  IF last.err = "MessageError"
        THEN item.text /\ item.count > last.limit /\ (~cut => IsPrefix(item.bytes, buf))
        ELSE cut /\ buf = <<>>

(* Whatever length is announced, no more than the limit of the call is     *)
(* allocated for a text.                                                   *)
AllocatesWithinLimit == last.allocated <= last.limit

(* An item that was read is written again in no more bytes than it took,   *)
(* so that a message which was within its limit still is; the number of    *)
(* bytes of an integer is what VarIntSerializeSize says.                   *)
NeverLonger ==
  last.err = "nil" /\ last.taken > 0 =>
    LET item  == last.item
        again == writeVarInt(item.count)
    IN  /\ Len(again) + Len(item.bytes) <= last.taken
        /\ Len(again) = VarIntSerializeSize(item.count)
        /\ readVarInt(again).val = item.count
=============================================================================
