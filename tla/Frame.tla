-------------------------------- MODULE Frame -------------------------------
(***************************************************************************)
(* What ReadMessageN makes of a frame, a header and the payload behind it: *)
(* the validations of the call, without the reads between them.            *)
(***************************************************************************)
EXTENDS Codec

CONSTANT bmnet   \* the network the caller reads from

NoMessage == [kind |-> "none", body |-> <<>>]

TooLarge(h) == h.length > MaxMessagePayload

(* Mutant: the limit of the type is exclusive. *)
RefusedCommandAtLimit(h) ==
  /\ h.command # "object"
  /\ \/ h.command \notin HandledCommands
     \/ h.length > 0 /\ h.length >= MaxPayloadLength(h.command)

(* The type of an object is not in its header. *)
RefusedCommand(h) ==
  /\ h.command # "object"
  /\ \/ h.command \notin HandledCommands
     \/ h.length > MaxPayloadLength(h.command)

(* The headers after which the payload is skipped unread. *)
Refused(h) ==
  \/ h.magic # bmnet
  \/ h.command = InvalidUTF8
  \/ RefusedCommand(h)

(* The message type of a frame. *)
KindOf(h, p) == IF h.command = "object" THEN ObjectKind[p[ObjectPrefixSize]]
                                        ELSE h.command

(* Mutant: the limit of the object types is not enforced. *)
BadObjectUnlimited(h, p) ==
  /\ h.command = "object"
  /\ \/ Len(p) < ObjectPrefixSize
     \/ p[ObjectPrefixSize] \notin ObjectTypes

(* An object is read whole before its type is known to be acceptable. *)
BadObject(h, p) ==
  /\ h.command = "object"
  /\ \/ Len(p) < ObjectPrefixSize
     \/ p[ObjectPrefixSize] \notin ObjectTypes
     \/ h.length > MaxPayloadLength(KindOf(h, p))

(* Mutant: the checksum is tested for messages without a payload only. *)
BadChecksumOfEmpty(h, p) == p = <<>> /\ Checksum(p) # h.checksum

BadChecksum(h, p) == Checksum(p) # h.checksum

(* The message and the error that a payload which was read leads to. *)
Parse(h, p) ==
  IF BadObject(h, p) \/ BadChecksum(h, p)
  THEN [msg |-> NoMessage, err |-> "MessageError"]
  ELSE LET kind == KindOf(h, p)
           d    == Decode(kind, EmptyMessage(kind), p)
       IN  [msg |-> IF d.err = "nil" THEN [kind |-> kind, body |-> d.msg]
                                     ELSE NoMessage,
            err |-> d.err]

(* The judgement on a whole frame whose length is acceptable. *)
Outcome(h, p) ==
  IF Refused(h) THEN [msg |-> NoMessage, err |-> "MessageError"] ELSE Parse(h, p)

(* The count that is returned for it: a skipped payload is not counted. *)
Counted(h) == MessageHeaderSize + (IF Refused(h) THEN 0 ELSE h.length)
=============================================================================
