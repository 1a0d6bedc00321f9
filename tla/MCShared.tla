------------------------------ MODULE MCShared ------------------------------
(* Two writers, with a checksum that tells all payloads apart.             *)
EXTENDS SharedConnection

(* The first cell of a header can be read as the count of a list. *)
MCNet == 1

MCZeroTime == -5

Inv(hashes) == [kind |-> "inv", body |-> hashes]

VerAck == [kind |-> "verack", body |-> <<>>]

Key(tag) ==
  [kind |-> "getpubkey",
   body |-> [nonce |-> 70, expires |-> <<95, 3>>,
             objectType |-> ObjectTypeGetPubKey, version |-> 4, stream |-> 1,
             ripe |-> <<>>, tag |-> tag]]

(* A message of each shape, of a type that the reader does not know, with  *)
(* one vector too many, and without the key that Encode needs.             *)
MCMessages ==
  {VerAck, Inv(<<61>>), Inv(<<62, 63>>), Inv(<<61, 62, 63>>), Key(<<44>>),
   Key(<<>>), [kind |-> "bogus", body |-> <<1>>]}

(* Cells from 1000 on are checksums and nothing else. *)
PayloadSeq == <<(<<>>), <<1, 61>>, <<2, 62, 63>>, <<1>>,
                <<70, 95, 0, 4, 1, 44>>>>

MCChecksum(p) ==
  IF \E i \in DOMAIN PayloadSeq : PayloadSeq[i] = p
  THEN 1000 + (CHOOSE i \in DOMAIN PayloadSeq : PayloadSeq[i] = p)
  ELSE 1000
=============================================================================
