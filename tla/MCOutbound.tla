----------------------------- MODULE MCOutbound -----------------------------
(* A writer that submits messages of every type, at and beyond the limits. *)
EXTENDS WriteMessage

LOCAL INSTANCE SequencesExt

MCNet == 9

MCZeroTime == -5

MCChecksum(p) == FoldLeft(LAMBDA acc, c : (acc * 31 + c + 1) % 97, 7, p)

(* Times have a fraction, and 200 is beyond 32 bits of seconds. *)
Home  == <<90, 1, 20, 30>>
Away  == <<200, 1, NilIP, 30>>
Stale == <<MCZeroTime, 0, 21, 31>>

VersionMessage(agent, streams) ==
  [kind |-> "version",
   body |-> [protocolVersion |-> 3, services |-> 1, timestamp |-> <<90, 7>>,
             addrYou |-> Home, addrMe |-> Away, nonce |-> 77,
             userAgent |-> agent, streamNumbers |-> streams]]

ObjectBody(type, version) ==
  [nonce |-> 70, expires |-> <<95, 3>>, objectType |-> type,
   version |-> version, stream |-> 1]

GetPubKey(version, ripe, tag) ==
  [kind |-> "getpubkey",
   body |-> ObjectBody(ObjectTypeGetPubKey, version)
              @@ [ripe |-> ripe, tag |-> tag]]

PubKey(version, key, tag, sealed) ==
  [kind |-> "pubkey",
   body |-> ObjectBody(ObjectTypePubKey, version)
              @@ [behavior |-> 1, signingKey |-> key, encryptKey |-> key,
                  nonceTrials |-> 5, extraBytes |-> 6, signature |-> <<47, 48>>,
                  tag |-> tag, encrypted |-> sealed]]

MCMessages ==
  {[kind |-> "verack", body |-> <<>>],
   [kind |-> "getaddr", body |-> <<>>],
   [kind |-> "addr", body |-> <<Stale>>],
   [kind |-> "addr", body |-> <<Home, Away>>],
   [kind |-> "addr", body |-> <<Home, Home, Home>>],
   [kind |-> "inv", body |-> <<61, 62>>],
   [kind |-> "inv", body |-> <<61, 62, 63>>],
   [kind |-> "getdata", body |-> <<>>],
   VersionMessage(<<40>>, <<1>>),
   VersionMessage(<<40, 41>>, <<>>),
   VersionMessage(<<40>>, <<1, 2, 3, 4>>),
   GetPubKey(3, <<44>>, <<45>>),
   GetPubKey(4, <<44>>, <<45>>),
   GetPubKey(4, <<44>>, <<>>),
   PubKey(2, <<46>>, <<>>, <<>>),
   PubKey(3, <<46>>, <<45>>, <<>>),
   PubKey(4, <<46>>, <<45>>, <<1, 2>>),
   PubKey(4, <<>>, <<45>>, [i \in 1..12 |-> i]),
   PubKey(3, <<>>, <<45>>, <<1>>),
   [kind |-> "broadcast",
    body |-> ObjectBody(ObjectTypeBroadcast, 4) @@ [encrypted |-> <<49>>]],
   [kind |-> "bogus", body |-> <<1, 2>>],
   [kind |-> "overlong", body |-> <<1>>]}
=============================================================================
