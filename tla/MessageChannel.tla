--------------------------- MODULE MessageChannel ---------------------------
(***************************************************************************)
(* What a connection between WriteMessage and ReadMessage promises to its  *)
(* two ends: the messages that were sent arrive, in order, each one once.  *)
(***************************************************************************)
EXTENDS Naturals, Sequences

CONSTANT Message   \* the messages, as the receiving end sees them

VARIABLES
  sent,  \* every message that was sent
  got    \* every message that was received

vars == <<sent, got>>

Init == sent = <<>> /\ got = <<>>

Send ==
  /\ \E m \in Message : sent' = Append(sent, m)
  /\ UNCHANGED got

Receive ==
  /\ Len(got) < Len(sent)
  /\ got' = Append(got, sent[Len(got) + 1])
  /\ UNCHANGED sent

Next == Send \/ Receive

Spec == Init /\ [][Next]_vars

Fairness == WF_vars(Receive)
=============================================================================
