------------------------------ MODULE MCMessages -----------------------------
(* Whole payloads, and payloads that are cut off. *)
EXTENDS SharedMessages

MCPayloads ==
  [kind \in SharedKinds |->
     CASE kind = "addr"      -> {<<2, 1, 1, 2, 2>>, <<2, 2, 1>>}
       [] kind = "version"   -> {<<2, 1, 1, 2>>, <<2, 1>>}
       [] kind = "getpubkey" -> {<<2>>, <<>>}
       [] kind = "inv"       -> {<<1, 2>>}]
=============================================================================
