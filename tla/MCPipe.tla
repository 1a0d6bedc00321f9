------------------------------- MODULE MCPipe -------------------------------
(* A writer and a reader, with a checksum that tells all payloads apart.   *)
EXTENDS Pipe

MCNet == 9

MCZeroTime == -5

Inv(hashes) == [kind |-> "inv", body |-> hashes]

(* Messages without a payload, of a variable length and of a foreign type; *)
(* one that the writer refuses, and one that has no key to encode.         *)
MCMessages ==
  {[kind |-> "verack", body |-> <<>>],
   Inv(<<61, 62>>), Inv(<<61, 62, 63>>),
   [kind |-> "bogus", body |-> <<1, 2, 3>>],
   [kind |-> "getpubkey",
    body |-> [nonce |-> 70, expires |-> <<95, 3>>,
              objectType |-> ObjectTypeGetPubKey, version |-> 4, stream |-> 1,
              ripe |-> <<>>, tag |-> <<>>]]}

(* Cells from 1000 on are checksums and nothing else. *)
PayloadSeq == <<(<<>>), <<2, 61, 62>>, <<1, 2, 3>>>>

MCChecksum(p) ==
  IF \E i \in DOMAIN PayloadSeq : PayloadSeq[i] = p
  THEN 1000 + (CHOOSE i \in DOMAIN PayloadSeq : PayloadSeq[i] = p)
  ELSE 1000

=============================================================================
