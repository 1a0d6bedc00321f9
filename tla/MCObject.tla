------------------------------ MODULE MCObject ------------------------------
(* A message of every type, with payloads that are good, short and wrong.  *)
EXTENDS MessageObject

MCZeroTime == -5

Now == <<90, 6>>

Home == NewNetAddressIPPort(Now, 20, 30, 1)
Away == <<MCZeroTime, 0, NilIP, 31>>

MCNewMessages ==
  {NewList(k) : k \in ListKinds}
  \cup {NewMsgVersion(Now, Home, Away, 77, <<1>>),
        NewMsgGetPubKey(70, <<95, 3>>, 4, 1, <<44>>, <<>>),
        NewMsgPubKey(70, <<95, 3>>, 3, 1, 5, <<46>>, 6, 7, <<>>, <<>>, <<>>),
        [kind |-> "broadcast", body |-> EmptyMessage("broadcast")],
        [kind |-> "verack", body |-> <<>>]}

Fixed == <<3, 1, 91, 1, 21, 32, 1, 22, 33, 78>>

(* The first cells of an object. *)
Head5(type, version) == <<71, 96, type, version, 1>>

MCPayloads ==
  [k \in Kinds |->
     CASE k = "version" ->
            {Fixed \o t : t \in {<<1, 40, 1, 2>>, <<0, 0>>, <<2, 40, 41, 0>>,
                                 <<4, 40, 41, 42, 43, 0>>, <<1, 40, 2, 3>>, <<1, 40, 99>>,
                                 <<1, 40>>, <<>>}}
              \cup {<<3, 1>>, <<>>}
       [] k = "addr" -> {<<>>, <<0>>, <<1, 50, 1, 20, 30>>,
                         <<2, 50, 1, 20, 30, 51, 1, 21, 31>>,
                         <<2, 50, 1, 20, 30, 51>>, <<4, 50>>}
       [] k \in {"inv", "getdata"} ->
            {<<>>, <<0>>, <<1, 61, 62>>, <<2, 61, 62>>, <<3, 61, 62, 63>>,
             <<3, 61>>, <<4, 61>>}
       [] k = "getpubkey" ->
            {Head5(ObjectTypeGetPubKey, 3) \o <<45>>,
             Head5(ObjectTypeGetPubKey, 4) \o <<46, 47>>,
             Head5(ObjectTypeGetPubKey, 4), Head5(ObjectTypeGetPubKey, 3),
             Head5(ObjectTypePubKey, 3), <<71, 96>>, <<71, 96, 0>>}
       [] k = "pubkey" ->
            {Head5(ObjectTypePubKey, 2) \o <<8, 47, 48>>,
             Head5(ObjectTypePubKey, 3) \o <<8, 47, 48, 5, 6, 2, 9, 9>>,
             Head5(ObjectTypePubKey, 3) \o <<8, 47, 48, 5, 6, 2, 9>>,
             Head5(ObjectTypePubKey, 3) \o <<8, 47, 48, 5, 6, 99>>,
             Head5(ObjectTypePubKey, 3) \o <<8, 47>>,
             Head5(ObjectTypePubKey, 4) \o <<46, 47, 48>>,
             Head5(ObjectTypePubKey, 4), <<71>>,
             Head5(ObjectTypeGetPubKey, 3)}
       [] k = "broadcast" ->
            {Head5(ObjectTypeBroadcast, 3) \o <<45>>, Head5(ObjectTypeMsg, 3),
             Head5(ObjectTypeBroadcast, 4)}
       [] OTHER -> {<<>>, <<1>>}]

MCAgentParts == {<<40>>, <<41, 42>>}

MCAdditions == {<<Home>>, <<Away, Home>>, <<Home, Away, Away, Home>>}
=============================================================================
