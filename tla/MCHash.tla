-------------------------------- MODULE MCHash -------------------------------
(* Four bytes of two binary digits.  Short texts of every character, and   *)
(* binary texts up to one character more than the hash has.                *)
EXTENDS HashText, SequencesExt

MCTexts == SeqOf(Chars, 3) \cup SeqOf({0, 1}, 2 * HashSize + 1)

(* Slices that are too short, too long, and of the right length. *)
MCSlices ==
  {Zeros \o <<ZeroByte>>, <<>>}
    \cup [1..HashSize -> {<<0, 1>>, <<1, 0>>}]
=============================================================================
