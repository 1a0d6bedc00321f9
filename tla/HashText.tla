------------------------------- MODULE HashText ------------------------------
(***************************************************************************)
(* A hash or a key, and the texts it is printed as and read from.          *)
(*                                                                         *)
(* ShaHash, RipeHash and PubKey are the same code for 32, 20 and 64 bytes. *)
(* A byte is the pair <<high, low>> of its two digits.  The text is that   *)
(* of the bytes in the opposite order, and it may be shorter than the hash *)
(* when it is read: the hash is a number whose first byte is the lowest.   *)
(***************************************************************************)
EXTENDS Integers, Sequences

CONSTANTS
  HashSize,  \* the number of bytes
  Radix,     \* the number of digits, 16
  Slices,    \* the bytes that a caller makes a hash from
  Texts      \* the texts that a caller makes a hash from

(* The characters of a text: a digit, the capital form of the highest one, *)
(* and one that is no digit.                                               *)
Capital == Radix
Other   == Radix + 1
Chars   == 0..Other

Byte == (0..(Radix - 1)) \X (0..(Radix - 1))

Hash == [1..HashSize -> Byte]

ASSUME HashTextAssumption ==
  /\ HashSize \in Nat /\ Radix \in Nat \ {0}
  /\ Slices \subseteq Seq(Byte)
  /\ Texts \subseteq Seq(Chars)

VARIABLES
  hash,  \* the hash of the caller
  text,  \* the text that the hash was last printed as or read from, else <<>>
  last   \* the last call: operation, error

vars == <<hash, text, last>>

-----------------------------------------------------------------------------
(* encoding/hex *)

Digit(char) == IF char = Capital THEN Radix - 1 ELSE char

EncodeToString(bytes) ==
  [i \in 1..(2 * Len(bytes)) |->
     IF i % 2 = 1 THEN bytes[(i + 1) \div 2][1] ELSE bytes[i \div 2][2]]

DecodeString(chars) ==
  [bytes |-> [k \in 1..(Len(chars) \div 2) |->
                <<Digit(chars[2 * k - 1]), Digit(chars[2 * k])>>],
   err   |-> IF \E i \in DOMAIN chars : chars[i] = Other
             THEN "InvalidByteError" ELSE "nil"]

-----------------------------------------------------------------------------
(* The methods *)

(* The ends of the first n bytes are exchanged `half` times, from outside. *)
Exchanged(bytes, n, half, k) ==
  IF k <= half \/ n + 1 - k <= half THEN bytes[n + 1 - k] ELSE bytes[k]

(* The exchange is made in the copy of the hash that is the receiver. *)
String(h) ==
  EncodeToString([k \in 1..HashSize |->
                    Exchanged(h, HashSize, HashSize \div 2, k)])

ZeroByte == <<0, 0>>

Zeros == [k \in 1..HashSize |-> ZeroByte]

(* A text of an odd length is taken for one with a zero in front. *)
Padded(chars) == IF Len(chars) % 2 # 0 THEN <<0>> \o chars ELSE chars

(* Mutant: the byte in the middle is not copied. *)
UnreversedHalf(buf) ==
  LET blen == Len(buf)
      mid  == blen \div 2
  IN  [k \in 1..HashSize |->
         IF k <= blen /\ (k <= mid \/ blen + 1 - k <= mid)
         THEN buf[blen + 1 - k] ELSE ZeroByte]

(* The bytes in the opposite order, in the leading bytes of a zero hash.   *)
Unreversed(buf) ==
  LET blen == Len(buf)
      mid  == (blen + 1) \div 2
  IN  [k \in 1..HashSize |->
         IF k <= blen /\ (k <= mid \/ blen + 1 - k <= mid)
         THEN buf[blen + 1 - k] ELSE ZeroByte]

NewHashFromStr(chars) ==
  LET decoded == DecodeString(Padded(chars))
  IN  IF Len(chars) > 2 * HashSize
      THEN [hash |-> Zeros, err |-> "ErrHashStrSize"]
      ELSE IF decoded.err # "nil" THEN [hash |-> Zeros, err |-> decoded.err]
      ELSE [hash |-> Unreversed(decoded.bytes), err |-> "nil"]

-----------------------------------------------------------------------------
(* The calls *)

Init ==
  /\ hash = Zeros
  /\ text = <<>>
  /\ last = [op |-> "new", err |-> "nil"]

(* Mutant: the length is not tested. *)
SetBytesUnchecked ==
  \E bytes \in Slices : /\ hash' = bytes
                        /\ text' = <<>>
                        /\ last' = [op |-> "set", err |-> "nil"]

(* NewShaHash and SetBytes: a slice of another length is refused. *)
SetBytes ==
  \E bytes \in Slices :
    LET fits == Len(bytes) = HashSize
    IN  /\ hash' = IF fits THEN bytes ELSE hash
        /\ text' = <<>>
        /\ last' = [op |-> "set", err |-> IF fits THEN "nil" ELSE "length"]

(* Mutant: the receiver is a pointer, so that the hash is reversed. *)
PrintsInPlace ==
  /\ text' = String(hash)
  /\ hash' = [k \in 1..HashSize |->
                Exchanged(hash, HashSize, HashSize \div 2, k)]
  /\ last' = [op |-> "print", err |-> "nil"]

Prints ==
  /\ text' = String(hash)
  /\ last' = [op |-> "print", err |-> "nil"]
  /\ UNCHANGED hash

(* The caller replaces its hash when there is no error. *)
Scans ==
  \E chars \in Texts :
    LET new == NewHashFromStr(chars)
    IN  /\ hash' = IF new.err = "nil" THEN new.hash ELSE hash
        /\ text' = IF new.err = "nil" THEN chars ELSE <<>>
        /\ last' = [op |-> "scan", err |-> new.err]

Next == SetBytes \/ Prints \/ Scans

Spec == Init /\ [][Next]_vars

-----------------------------------------------------------------------------
(* Properties *)

(* The hash has its size, whatever it was made from, and so has its text.  *)
HashTypeOK ==
  /\ hash \in Hash
  /\ last.op = "print" => text \in [1..(2 * HashSize) -> 0..(Radix - 1)]

(* The text of a hash, read again, is the hash; printing it did not change *)
(* the hash, although String works by exchanging the bytes of it.          *)
PrintedReadsBack ==
  last.op = "print" => NewHashFromStr(text) = [hash |-> hash, err |-> "nil"]

(* The number that a text is the numeral of. *)
Numeral(chars) ==
  LET upTo[i \in 0..Len(chars)] ==
        IF i = 0 THEN 0 ELSE upTo[i - 1] * Radix + Digit(chars[i])
  IN  upTo[Len(chars)]

(* The number that a hash stands for: its first byte is the lowest one.    *)
Number(h) ==
  LET from[k \in 1..(HashSize + 1)] ==
        IF k > HashSize THEN 0
        ELSE (from[k + 1] * Radix + h[k][1]) * Radix + h[k][2]
  IN  from[1]

(* A text without an error, of whatever length, odd or even, and in        *)
(* capitals or not, is the numeral of the hash that was read from it; so   *)
(* is the text that was printed.  A shorter text is padded at the end of   *)
(* the hash, as the comment of NewShaHashFromStr has it.                   *)
TextIsNumeral ==
  last.op \in {"scan", "print"} /\ last.err = "nil" =>
    Numeral(text) = Number(hash)

(* ripehash.go:71 and pubkey.go:71 say that the text is the hexadecimal    *)
(* string of the hash, where shahash.go:70 has it byte-reversed: the bytes *)
(* are then in the order of the text.                                      *)
TextIsInByteOrder ==
  last = [op |-> "scan", err |-> "nil"] /\ Len(text) = 2 * HashSize =>
    hash = DecodeString(text).bytes
=============================================================================
