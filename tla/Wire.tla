-------------------------------- MODULE Wire --------------------------------
(***************************************************************************)
(* The vocabulary of the bitmessage wire: the message header, the commands,*)
(* the object types and the payload limits.                                *)
(*                                                                         *)
(* The unit of length is the CELL: one field of the protocol.  A fixed     *)
(* width integer, a varint, a hash, a public key, an IP address or a       *)
(* command is one cell whatever its number of bytes, and a cell is a       *)
(* natural number.  A header is thus four cells (24 bytes in the code),    *)
(* and a header read at a position where no header was written still has a *)
(* definite meaning: every cell can be read as every field.                *)
(***************************************************************************)
EXTENDS Integers, Sequences

CONSTANTS
  MaxMessagePayload,  \* bound on every payload
  MaxUserAgentLen,    \* bound on the user agent of a version message
  MaxAddrPerMsg,      \* bound on the addresses of an addr message
  MaxInvPerMsg,       \* bound on the vectors of an inv or getdata message
  MaxObjectPayload,   \* 1 << 18, the bound of the object messages
  Checksum(_)         \* the first four bytes of the SHA-512 of a payload

ASSUME WireAssumption ==
  /\ MaxMessagePayload \in Nat
  /\ MaxUserAgentLen \in Nat
  /\ MaxAddrPerMsg \in Nat
  /\ MaxInvPerMsg \in Nat
  /\ MaxObjectPayload \in Nat

-----------------------------------------------------------------------------
(* Commands and object types *)

MessageHeaderSize == 4   \* magic, command, length, checksum

(* Cells 1 to 7 are the commands of the protocol, 0 stands for bytes that  *)
(* are not valid UTF-8, and every other cell for a text that names none.   *)
CommandName ==
  <<"version", "verack", "getaddr", "addr", "inv", "getdata", "object">>

InvalidUTF8 == "invalid utf-8"

CommandOf(cell) ==
  IF cell \in DOMAIN CommandName THEN CommandName[cell]
  ELSE IF cell = 0 THEN InvalidUTF8
  ELSE "unhandled"

(* The commands that makeEmptyMessage knows; "object" is not one of them.  *)
HandledCommands == {"version", "verack", "getaddr", "addr", "inv", "getdata"}

(* What a command cell can be taken for. *)
Commands == HandledCommands \cup {"object", InvalidUTF8, "unhandled"}

ObjectTypeGetPubKey == 0
ObjectTypePubKey    == 1
ObjectTypeMsg       == 2
ObjectTypeBroadcast == 3

ObjectTypes == {ObjectTypeGetPubKey, ObjectTypePubKey,
                ObjectTypeMsg, ObjectTypeBroadcast}

(* The message type that is created for an object type. *)
ObjectKind ==
  [t \in ObjectTypes |-> CASE t = ObjectTypeGetPubKey -> "getpubkey"
                           [] t = ObjectTypePubKey    -> "pubkey"
                           [] t = ObjectTypeMsg       -> "msg"
                           [] t = ObjectTypeBroadcast -> "broadcast"]

ObjectKinds == {ObjectKind[t] : t \in ObjectTypes}

Kinds == HandledCommands \cup ObjectKinds

-----------------------------------------------------------------------------
(* Payload limits: MaxPayloadLength of each message type, in cells *)

MaxVarIntPayload     == 1
MaxNetAddressPayload == 4   \* timestamp, services, ip, port
MaxInvVectPayload    == 1   \* one hash

MaxAddrPayload == MaxVarIntPayload + MaxAddrPerMsg * MaxNetAddressPayload

MaxInvPayload == MaxVarIntPayload + MaxInvPerMsg * MaxInvVectPayload

MaxGetDataPayload == MaxVarIntPayload + MaxInvPerMsg * MaxInvVectPayload

(* The 33 bytes of the source are six fields: version, services, time,     *)
(* nonce, and the last block and relay flag of another protocol.           *)
MaxVersionPayload ==
  6 + 2 * MaxNetAddressPayload + MaxVarIntPayload + MaxUserAgentLen

MaxPayloadLength(kind) ==
  CASE kind \in {"verack", "getaddr"} -> 0
    [] kind = "version"               -> MaxVersionPayload
    [] kind = "addr"                  -> MaxAddrPayload
    [] kind = "inv"                   -> MaxInvPayload
    [] kind = "getdata"               -> MaxGetDataPayload
    [] OTHER                          -> MaxObjectPayload

-----------------------------------------------------------------------------
(* Headers *)

HeaderOf(cells) ==
  [magic    |-> cells[1],
   command  |-> CommandOf(cells[2]),
   length   |-> cells[3],
   checksum |-> cells[4]]

(* The two ends of a call see errors of these classes: a *MessageError,    *)
(* the two errors of io.ReadFull at the end of a stream, and any other     *)
(* error of the connection.                                                *)
ReadFullErrors == {"EOF", "UnexpectedEOF"}
=============================================================================
