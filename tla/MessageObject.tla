---------------------------- MODULE MessageObject ---------------------------
(***************************************************************************)
(* One message in the hands of a program: made by its constructor, filled  *)
(* by its Add methods, encoded, and decoded into, in any order.            *)
(*                                                                         *)
(* Nothing in the package asks for a fresh receiver: Decode may be called  *)
(* on a message that was filled, decoded into, or left half decoded by an  *)
(* error.  Only a panic ends the use of the message.                       *)
(***************************************************************************)
EXTENDS Codec

LOCAL INSTANCE SequencesExt

CONSTANTS
  NewMessages,  \* what the constructors may return: [kind, body]
  Payloads,     \* the payloads that are decoded, by kind
  Additions,    \* the lists of addresses that are added in one call
  Vectors,      \* the inventory vectors that are added
  AgentParts,   \* the formatted parts "name:version(comments)/" of a user agent
  Services      \* the services that are added, single flags and masks

InvKinds  == {"inv", "getdata"}
ListKinds == {"addr"} \cup InvKinds

(* An addr payload carries its times as uint32.  Every element of a list   *)
(* is there: the Add methods take nil also, and Encode dereferences it.    *)
ASSUME MessageObjectAssumption ==
  /\ \A m \in NewMessages :
       /\ m.kind \in Kinds /\ m.body \in Receiver(m.kind)
       /\ m.kind \in ListKinds => m.body = <<>>
       /\ m.kind = "version" => Len(m.body.userAgent) <= MaxUserAgentLen
  /\ Payloads \in [Kinds -> SUBSET Seq(Nat)]
  /\ \A p \in Payloads["addr"] :
       \A i \in DOMAIN p : i % MaxNetAddressPayload = 2 => p[i] < StampModulus
  /\ Additions \subseteq Seq(NetAddress) /\ Vectors \subseteq Nat
  /\ AgentParts \subseteq Seq(Nat) /\ Services \subseteq Nat

VARIABLES
  kind,    \* the type of the message
  obj,     \* its fields
  last,    \* the last call: operation, error, and the payload it produced
  source   \* the payload that was decoded, <<>> when the decoding of one failed
           \* or the message was changed since, else a sequence of one (history)

vars == <<kind, obj, last, source>>

-----------------------------------------------------------------------------
(* Constructors.  Now is the time of the call, <<seconds, fraction>>. *)

DefaultUserAgent == <<39>>

NewMsgVersion(Now, me, you, nonce, streams) ==
  [kind |-> "version",
   body |-> [protocolVersion |-> 3, services |-> 0,
             timestamp |-> <<Now[1], 0>>, addrYou |-> you, addrMe |-> me,
             nonce |-> nonce, userAgent |-> DefaultUserAgent, streamNumbers |-> streams]]

NewMsgGetPubKey(nonce, expires, version, stream, ripe, tag) ==
  [kind |-> "getpubkey",
   body |-> [nonce |-> nonce, expires |-> expires,
             objectType |-> ObjectTypeGetPubKey, version |-> version,
             stream |-> stream, ripe |-> ripe, tag |-> tag]]

NewMsgPubKey(nonce, expires, version, stream, behavior, keys, trials, extra, sig, tag, sealed) ==
  [kind |-> "pubkey",
   body |-> [nonce |-> nonce, expires |-> expires,
             objectType |-> ObjectTypePubKey, version |-> version,
             stream |-> stream, behavior |-> behavior,
             signingKey |-> keys, encryptKey |-> keys, nonceTrials |-> trials,
             extraBytes |-> extra, signature |-> sig, tag |-> tag,
             encrypted |-> sealed]]

NewList(listKind) == [kind |-> listKind, body |-> <<>>]

NewNetAddressIPPort(Now, ip, port, services) ==
  <<Now[1], services, ip, port>>

-----------------------------------------------------------------------------
(* The calls *)

MaxPerMsg == IF kind = "addr" THEN MaxAddrPerMsg ELSE MaxInvPerMsg

Room == MaxPerMsg - Len(obj)

Init ==
  /\ \E m \in NewMessages : kind = m.kind /\ obj = m.body
  /\ last = [op |-> "new", err |-> "nil", payload |-> <<>>]
  /\ source = <<>>

Usable == last.err # "panic"

Did(op, err) == last' = [op |-> op, err |-> err, payload |-> <<>>]

DecodeCall ==
  /\ Usable
  /\ \E p \in Payloads[kind] :
       LET d == Decode(kind, obj, p)
       IN  /\ obj' = d.msg
           /\ Did("decode", d.err)
           /\ source' = IF d.err = "nil" THEN <<p>> ELSE <<>>
  /\ UNCHANGED kind

(* MsgVersion.Decode accepts a *bytes.Buffer only, and reads nothing of    *)
(* any other reader.                                                       *)
DecodeUnbuffered ==
  /\ Usable /\ kind = "version"
  /\ Did("decode", "ReaderError")
  /\ UNCHANGED <<kind, obj, source>>

EncodeCall ==
  /\ Usable
  /\ LET e == Encode(kind, obj)
     IN  last' = [op |-> "encode", err |-> e.err, payload |-> e.payload]
  /\ UNCHANGED <<kind, obj, source>>

(* Mutant: the list is tested before the first address only. *)
AddOnceTested ==
  /\ Usable /\ kind = "addr"
  /\ \E nas \in Additions :
       /\ obj' = IF Room > 0 THEN obj \o nas ELSE obj
       /\ Did("add", IF Room > 0 THEN "nil" ELSE "MessageError")
  /\ source' = <<>>
  /\ UNCHANGED kind

(* Mutant: the error of AddAddress is dropped by AddAddresses. *)
AddErrorDropped ==
  /\ Usable /\ kind = "addr"
  /\ \E nas \in Additions :
       /\ obj' = obj \o SubSeq(nas, 1, Least(Room, Len(nas)))
       /\ Did("add", "nil")
  /\ source' = <<>>
  /\ UNCHANGED kind

(* AddAddress adds one address, AddAddresses one after the other until the *)
(* list is full: what was added before the error stays.                    *)
AddAddresses ==
  /\ Usable /\ kind = "addr"
  /\ \E nas \in Additions :
       /\ obj' = obj \o SubSeq(nas, 1, Least(Room, Len(nas)))
       /\ Did("add", IF Len(nas) > Room THEN "MessageError" ELSE "nil")
  /\ source' = <<>>
  /\ UNCHANGED kind

AddInvVect ==
  /\ Usable /\ kind \in InvKinds
  /\ \E iv \in Vectors : obj' = IF Room > 0 THEN Append(obj, iv) ELSE obj
  /\ Did("add", IF Room > 0 THEN "nil" ELSE "MessageError")
  /\ source' = <<>>
  /\ UNCHANGED kind

ClearAddresses ==
  /\ Usable /\ kind = "addr"
  /\ obj' = <<>>
  /\ Did("clear", "nil")
  /\ source' = <<>>
  /\ UNCHANGED kind

(* Mutant: the part is appended before the result is validated. *)
AddUserAgentFirst ==
  /\ Usable /\ kind = "version"
  /\ \E part \in AgentParts :
       LET agent == obj.userAgent \o part
           valid == Len(agent) <= MaxUserAgentLen
       IN  /\ obj' = [obj EXCEPT !.userAgent = agent]
           /\ Did("agent", IF valid THEN "nil" ELSE "MessageError")
  /\ source' = <<>>
  /\ UNCHANGED kind

AddUserAgent ==
  /\ Usable /\ kind = "version"
  /\ \E part \in AgentParts :
       LET agent == obj.userAgent \o part
           valid == Len(agent) <= MaxUserAgentLen
       IN  /\ obj' = IF valid THEN [obj EXCEPT !.userAgent = agent] ELSE obj
           /\ Did("agent", IF valid THEN "nil" ELSE "MessageError")
  /\ source' = <<>>
  /\ UNCHANGED kind

(* The bits that are set in the flags of services. *)
Bits(services) == {i \in 0..services : (services \div 2^i) % 2 = 1}

(* The flags or the service, which may be a mask of several flags: the     *)
(* number, at most their sum, that has the bits of both and no other.      *)
AddService ==
  /\ Usable /\ kind = "version"
  /\ \E service \in Services : \E services \in 0..(obj.services + service) :
       /\ Bits(services) = Bits(obj.services) \cup Bits(service)
       /\ obj' = [obj EXCEPT !.services = services]
  /\ Did("service", "nil")
  /\ source' = <<>>
  /\ UNCHANGED kind

Next ==
  \/ DecodeCall \/ DecodeUnbuffered \/ EncodeCall
  \/ AddAddresses \/ AddInvVect \/ ClearAddresses \/ AddUserAgent \/ AddService

Spec == Init /\ [][Next]_vars

-----------------------------------------------------------------------------
(* Properties *)

(* Lists and user agents stay within their bounds, whatever the calls and  *)
(* whichever of them fail.                                                 *)
WithinBounds ==
  /\ kind \in ListKinds => Len(obj) <= MaxPerMsg
  /\ kind = "version" => Len(obj.userAgent) <= MaxUserAgentLen

(* A list and a version message can always be encoded, and a list fits the *)
(* payload limit of its type: the limits of the Add methods, of Encode and *)
(* of MaxPayloadLength agree.                                              *)
BuiltIsEncodable ==
  last.op = "encode" /\ kind \in ListKinds \cup {"version"} =>
    /\ last.err = "nil"
    /\ kind \in ListKinds => Len(last.payload) <= MaxPayloadLength(kind)

(* A message that was decoded, into whatever receiver, is encoded to the   *)
(* cells it was decoded from, without those that Decode left unread: none  *)
(* of the older fields of the receiver gets on the wire, and no new one is *)
(* missing.                                                                *)
RelaysWhatItDecoded ==
  last.op = "encode" /\ source # <<>> =>
    /\ last.err = "nil"
    /\ IsPrefix(last.payload, source[1])
    /\ Decode(kind, EmptyMessage(kind), last.payload).err = "nil"

(* An Add method that fails has filled the list, one that succeeds has     *)
(* added all it was given; what was in the list before stays.              *)
AddKeepsOrder ==
  [][last'.op = "add" =>
       /\ IsPrefix(obj, obj')
       /\ last'.err # "nil" => Len(obj') = MaxPerMsg
       /\ last'.err = "nil" =>
            \E es \in IF kind = "addr" THEN Additions
                                      ELSE {<<iv>> : iv \in Vectors} :
              obj' = obj \o es]_vars

(* The fields of a message in the order in which Decode assigns them: the  *)
(* version of an object decides which ones follow.                         *)
Assigned(m) ==
  LET object == <<"nonce", "objectType", "expires", "version", "stream">>
      keys   == <<"signingKey", "encryptKey", "behavior">>
  IN  CASE kind = "version" ->
             <<"protocolVersion", "services", "timestamp", "addrYou", "addrMe",
               "nonce", "userAgent", "streamNumbers">>
        [] kind = "getpubkey" ->
             Append(object, IF m.version >= TagBasedRipeVersion THEN "tag"
                                                                ELSE "ripe")
        [] kind = "pubkey" /\ m.version >= EncryptedPubKeyVersion ->
             object \o <<"tag", "encrypted">>
        [] kind = "pubkey" /\ m.version = ExtendedPubKeyVersion ->
             object \o keys \o <<"nonceTrials", "extraBytes", "signature">>
        [] kind = "pubkey" /\ m.version < ExtendedPubKeyVersion ->
             object \o keys
        [] OTHER -> Append(object, "encrypted")

(* The message `old` with the first n of its fields replaced. *)
Spliced(old, new, n) ==
  [f \in DOMAIN old |->
     IF \E i \in 1..n : Assigned(new)[i] = f THEN new[f] ELSE old[f]]

(* Whatever a receiver held, a Decode makes of it what it makes of an      *)
(* empty one, up to the field at which it fails, and leaves the rest: no   *)
(* field is skipped, and none has a value that is neither the old one nor  *)
(* the one of the payload.  A list is the old one or the one of the        *)
(* payload.  After an error that may well be the message of another type,  *)
(* since the type is assigned before it is tested.                         *)
DecodeSplices ==
  \A p \in Payloads[kind] :
    LET new == Decode(kind, EmptyMessage(kind), p)
        d   == Decode(kind, obj, p)
    IN  /\ d.err = new.err
        /\ CASE kind \in ListKinds -> d.msg \in {obj, new.msg}
             [] kind \in {"verack", "getaddr"} -> d.msg = obj
             [] OTHER ->
                  LET all == Len(Assigned(new.msg))
                  IN  \E n \in IF d.err = "nil" THEN {all} ELSE 0..all :
                        d.msg = Spliced(obj, new.msg, n)

(* msggetpubkey.go:114 and msgpubkey.go:163 say of the constructors that   *)
(* they limit the timestamp to one second precision, as the protocol does  *)
(* not support better: what is encoded is then the time of the message.    *)
EncodedTimeIsExact ==
  last.op = "encode" /\ last.err = "nil" /\ kind \in {"getpubkey", "pubkey"} =>
    Decode(kind, EmptyMessage(kind), last.payload).msg.expires = obj.expires
=============================================================================
