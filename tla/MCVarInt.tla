------------------------------ MODULE MCVarInt ------------------------------
(* Bytes of five values, and the integers around every change of form.     *)
EXTENDS VarInt

MCValues ==
  LET edges == {Two, Base2, Base4}
  IN  {0, Base8 - 1} \cup edges \cup {e - 1 : e \in edges}

(* Around the change of form and both limits, of bytes that could be read  *)
(* as discriminants.                                                       *)
MCTexts == {<<>>, <<Two>>, <<Four, 0>>, <<0, Two, Eight>>, <<1, 1, 1, 1>>}
=============================================================================
