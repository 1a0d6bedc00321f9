---------------------------- MODULE SharedMessages ---------------------------
(***************************************************************************)
(* Messages that share memory with the program that made them.             *)
(*                                                                         *)
(* An addr message holds pointers to addresses, an address a slice of the  *)
(* bytes of an IP, a version message a copy of an address (with the same   *)
(* slice) and the slice of stream numbers, a getpubkey message a pointer   *)
(* to a key; an inv message has copies of the hashes.  The program may     *)
(* write to the objects it made at any time, which shows in the messages   *)
(* that share them.  This module says in which it must not show, and when. *)
(*                                                                         *)
(* Payloads are in cells (see Wire), and have the parts that can be shared *)
(* only: AddrMe stands for both addresses of a version message, Tag for    *)
(* both keys of a getpubkey message.                                       *)
(***************************************************************************)
EXTENDS Integers, Sequences

LOCAL INSTANCE SequencesExt

CONSTANTS
  Cells,         \* what the program writes into its objects
  Payloads,      \* the payloads that are decoded, by kind
  MaxAddrPerMsg, MaxInvPerMsg,
  MaxObjects     \* bound on the number of objects

SharedKinds == {"addr", "version", "getpubkey", "inv"}

ASSUME SharedMessagesAssumption ==
  /\ Cells \subseteq Nat
  /\ Payloads \in [SharedKinds -> SUBSET Seq(Nat)]
  /\ MaxAddrPerMsg \in Nat /\ MaxInvPerMsg \in Nat /\ MaxObjects \in Nat

(* A payload is cut off between two parts, and is not longer than its      *)
(* counts say.                                                             *)
ASSUME PayloadsAssumption ==
  /\ \A p \in Payloads["addr"] : Len(p) % 2 = 1 /\ Len(p) <= 2 * p[1] + 1
  /\ \A p \in Payloads["version"] :
       Len(p) = 2 \/ (Len(p) >= 3 /\ Len(p) = 3 + p[3])
  /\ \A p \in Payloads["getpubkey"] : Len(p) <= 1
  /\ \A p \in Payloads["inv"] : Len(p) >= 1 /\ Len(p) <= p[1] + 1

VARIABLES
  heap,      \* the objects, by their address
  addrList,  \* MsgAddr: pointers to addresses
  version,   \* MsgVersion: the IP and the port of AddrMe, the stream numbers
  tag,       \* MsgGetPubKey: pointer to the key
  invList,   \* MsgInv: pointers to the vectors
  expected   \* the payload of each message that shares nothing with the
             \* program, <<>> for one that does (history)

messageVars == <<addrList, version, tag, invList>>
vars == <<heap, messageVars, expected>>

-----------------------------------------------------------------------------
(* Objects *)

Nil == 0

ZeroCell == 0

Bytes(cell)       == [bytes |-> cell]
Streams(cells)    == [streams |-> cells]
Address(ip, port) == [ip |-> ip, port |-> port]

(* The program has one object of each type; IP is also the address of the  *)
(* connection, that net.Conn returns a pointer to.                         *)
IP      == 1
Key     == 2
Numbers == 3
Peer    == 4

ProgramObjects == <<Bytes(1), Bytes(1), Streams(<<1>>), Address(IP, 1)>>

Allocated(objects) ==
  Len(heap) + Len(objects) <= MaxObjects /\ heap' = heap \o objects

-----------------------------------------------------------------------------
(* Encode *)

(* Mutant: an IP that is nil is written as it is. *)
WriteNetAddressAsIs(na) ==
  IF na.ip = Nil THEN <<na.port>> ELSE <<heap[na.ip].bytes, na.port>>

(* Sixteen bytes are written whatever the IP is. *)
writeNetAddress(na) ==
  IF na.ip = Nil THEN <<ZeroCell, na.port>> ELSE <<heap[na.ip].bytes, na.port>>

Encode(kind) ==
  CASE kind = "addr" ->
         <<Len(addrList)>> \o
         FlattenSeq([i \in DOMAIN addrList |-> writeNetAddress(heap[addrList[i]])])
    [] kind = "version" ->
         LET numbers == heap[version.streams].streams
         IN  writeNetAddress(version) \o <<Len(numbers)>> \o numbers
    [] kind = "getpubkey" -> <<heap[tag].bytes>>
    [] kind = "inv" ->
         <<Len(invList)>> \o [i \in DOMAIN invList |-> heap[invList[i]].bytes]

-----------------------------------------------------------------------------
(* Making and filling messages *)

Forgets(kind) == expected' = [expected EXCEPT ![kind] = <<>>]

Expects(kind, payload) == expected' = [expected EXCEPT ![kind] = <<payload>>]

(* One vector more, in a message whose payload is known. *)
OneMore(payload, hash) == Append([payload EXCEPT ![1] = @ + 1], hash)

ExpectsAlso(hash) ==
  expected' = [expected EXCEPT !.inv = [i \in DOMAIN @ |-> OneMore(@[i], hash)]]

NewMsgAddr ==
  /\ addrList' = <<>>
  /\ Expects("addr", <<0>>)
  /\ UNCHANGED <<heap, version, tag, invList>>

(* The program adds its own address, or once more one of the list. *)
AddAddress ==
  /\ Len(addrList) < MaxAddrPerMsg
  /\ \E na \in {Peer} \cup ToSet(addrList) : addrList' = Append(addrList, na)
  /\ Forgets("addr")
  /\ UNCHANGED <<heap, version, tag, invList>>

(* The address is copied, what its IP and the numbers point to is not. *)
NewMsgVersion(me) ==
  /\ version' = [ip |-> me.ip, port |-> me.port, streams |-> Numbers]
  /\ Forgets("version")
  /\ UNCHANGED <<heap, addrList, tag, invList>>

NewMsgVersionOf ==
  \E na \in {Peer} \cup ToSet(addrList) : NewMsgVersion(heap[na])

(* An address of the connection that is not one of TCP is an error, and    *)
(* there is no message.                                                    *)
NewMsgVersionFromConn == \E port \in Cells : NewMsgVersion(Address(IP, port))

NewMsgGetPubKey ==
  /\ tag' = Key
  /\ Forgets("getpubkey")
  /\ UNCHANGED <<heap, addrList, version, invList>>

(* Mutant: the vector keeps the pointer to the hash. *)
AddInvVectShared ==
  /\ Len(invList) < MaxInvPerMsg
  /\ \E hash \in {Key, tag} :
       /\ invList' = Append(invList, hash)
       /\ ExpectsAlso(heap[hash].bytes)
  /\ UNCHANGED <<heap, addrList, version, tag>>

(* NewInvVect copies the hash, AddInvVect keeps the pointer to the vector: *)
(* the program here gives every vector that it makes to the message.       *)
AddInvVect ==
  /\ Len(invList) < MaxInvPerMsg
  /\ \E hash \in {Key, tag} :
       /\ Allocated(<<heap[hash]>>)
       /\ invList' = Append(invList, Len(heap'))
       /\ ExpectsAlso(heap[hash].bytes)
  /\ UNCHANGED <<addrList, version, tag>>

-----------------------------------------------------------------------------
(* Decode *)

(* Mutant: one NetAddress is declared before the loop. *)
DecodeAddrOneStruct ==
  /\ \E p \in Payloads["addr"] :
       LET n == (Len(p) - 1) \div 2
       IN  /\ Allocated([i \in 1..n |-> Bytes(p[2 * i])] \o
                        IF n = 0 THEN <<>>
                        ELSE <<Address(Len(heap) + n, p[2 * n + 1])>>)
           /\ addrList' = [i \in 1..n |-> Len(heap) + n + 1]
           /\ IF n = p[1] THEN Expects("addr", p) ELSE Forgets("addr")
  /\ UNCHANGED <<version, tag, invList>>

(* Every address is a new object and has a new IP.  The list of a payload  *)
(* that is cut off has the addresses before the cut.                       *)
DecodeAddr ==
  /\ \E p \in Payloads["addr"] :
       LET n == (Len(p) - 1) \div 2
       IN  /\ Allocated([j \in 1..(2 * n) |->
                 IF j % 2 = 1 THEN Bytes(p[j + 1])
                              ELSE Address(Len(heap) + j - 1, p[j + 1])])
           /\ addrList' = [i \in 1..n |-> Len(heap) + 2 * i]
           /\ IF n = p[1] THEN Expects("addr", p) ELSE Forgets("addr")
  /\ UNCHANGED <<version, tag, invList>>

(* Mutant: the bytes of the IP are copied into the slice that is there. *)
DecodeVersionInPlace ==
  /\ version.ip # Nil
  /\ \E p \in Payloads["version"] :
       /\ heap' = Append([heap EXCEPT ![version.ip] = Bytes(p[1])],
                         Streams(SubSeq(p, 4, Len(p))))
       /\ Len(heap') <= MaxObjects
       /\ version' = [version EXCEPT !.port = p[2], !.streams = Len(heap')]
       /\ IF Len(p) > 2 THEN Expects("version", p) ELSE Forgets("version")
  /\ UNCHANGED <<addrList, tag, invList>>

(* The address of the message is assigned a new IP.  A payload that is cut *)
(* off behind it leaves the old stream numbers.                            *)
DecodeVersion ==
  /\ \E p \in Payloads["version"] :
       LET whole   == Len(p) > 2
           numbers == IF whole THEN <<Streams(SubSeq(p, 4, Len(p)))>> ELSE <<>>
       IN  /\ Allocated(<<Bytes(p[1])>> \o numbers)
           /\ version' = [ip |-> Len(heap) + 1, port |-> p[2],
                          streams |-> IF whole THEN Len(heap')
                                               ELSE version.streams]
           /\ IF whole THEN Expects("version", p) ELSE Forgets("version")
  /\ UNCHANGED <<addrList, tag, invList>>

(* The key is a new one, zero when the payload ends before it. *)
DecodeGetPubKey ==
  /\ \E p \in Payloads["getpubkey"] :
       /\ Allocated(<<Bytes(IF p = <<>> THEN ZeroCell ELSE p[1])>>)
       /\ tag' = Len(heap')
       /\ IF p # <<>> THEN Expects("getpubkey", p) ELSE Forgets("getpubkey")
  /\ UNCHANGED <<addrList, version, invList>>

DecodeInv ==
  /\ \E p \in Payloads["inv"] :
       LET n == Len(p) - 1
       IN  /\ Allocated([i \in 1..n |-> Bytes(p[i + 1])])
           /\ invList' = [i \in 1..n |-> Len(heap) + i]
           /\ IF n = p[1] THEN Expects("inv", p) ELSE Forgets("inv")
  /\ UNCHANGED <<addrList, version, tag>>

Decodes == DecodeAddr \/ DecodeVersion \/ DecodeGetPubKey \/ DecodeInv

-----------------------------------------------------------------------------
(* The program writes to its own objects *)

Written(object, value) ==
  /\ heap' = [heap EXCEPT ![object] = value]
  /\ UNCHANGED <<messageVars, expected>>

Overwrites ==
  \E cell \in Cells : \/ Written(IP, Bytes(cell))
                      \/ Written(Key, Bytes(cell))
                      \/ Written(Numbers, Streams(<<cell>>))

SetAddress ==
  \E ip \in {Nil, IP}, port \in Cells : Written(Peer, Address(ip, port))

-----------------------------------------------------------------------------

Init ==
  /\ heap = ProgramObjects
  /\ addrList = <<>> /\ invList = <<>> /\ tag = Key
  /\ version = [ip |-> IP, port |-> 1, streams |-> Numbers]
  /\ expected = [kind \in SharedKinds |->
                   IF kind \in {"addr", "inv"} THEN <<<<0>>>> ELSE <<>>]

Next ==
  \/ NewMsgAddr \/ AddAddress \/ NewMsgVersionOf \/ NewMsgVersionFromConn
  \/ NewMsgGetPubKey \/ AddInvVect \/ Decodes \/ Overwrites \/ SetAddress

Spec == Init /\ [][Next]_vars

-----------------------------------------------------------------------------
(* Properties *)

(* A message that was decoded, and an inv message that was filled with new *)
(* vectors, is its own: nothing that the program does to its objects, nor  *)
(* to other messages, changes what it is encoded to.                       *)
OwnedMessagesKeep ==
  \A kind \in SharedKinds :
    expected[kind] # <<>> => Encode(kind) = expected[kind][1]

(* A Decode writes to new objects only: the program finds its own objects, *)
(* and every other message, as they were, also when the receiver shared    *)
(* some with them.                                                         *)
DecodeIsLocal ==
  [][Decodes =>
       /\ \A object \in DOMAIN ProgramObjects : heap'[object] = heap[object]
       /\ \E receiver \in SharedKinds : \A kind \in SharedKinds \ {receiver} :
            Encode(kind)' = Encode(kind)]_vars

(* What the program writes to the addresses and keys that messages share   *)
(* changes what they say and never how long they are: a message that was   *)
(* within its limit still is.  (Stream numbers have a variable length, and *)
(* a version message no limit on them.)                                    *)
LengthsKeep ==
  [][Overwrites \/ SetAddress =>
       \A kind \in SharedKinds \ {"version"} :
         Len(Encode(kind)') = Len(Encode(kind))]_vars
=============================================================================
