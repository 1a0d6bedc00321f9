---------------------------- MODULE MCInbound ---------------------------
(* One connection on which every kind of frame arrives, good and bad.      *)
EXTENDS InboundConnection

LOCAL INSTANCE SequencesExt

MCNet == 9

MCZeroTime == -5

MCChecksum(p) == FoldLeft(LAMBDA acc, c : (acc * 31 + c + 1) % 97, 7, p)

Framed(cell, payload) ==
  <<MCNet, cell, Len(payload), MCChecksum(payload)>> \o payload

(* The cells of the commands, see CommandName. *)
Version == 1  VerAck == 2  GetAddr == 3  Addr == 4  Inv == 5  GetData == 6
Object == 7   BadText == 0  Unknown == 30

(* Frames that are accepted. *)
GoodFrames ==
  {Framed(VerAck, <<>>),
   Framed(GetAddr, <<>>),
   Framed(Addr, <<1, 50, 1, 20, 30>>),
   Framed(Inv, <<2, 61, 62>>),
   Framed(GetData, <<1, 61>>),
   Framed(Version, <<3, 1, 90, 1, 20, 30, 1, 21, 31, 77, 1, 40, 1, 1>>),
   Framed(Object, <<70, 90, ObjectTypeGetPubKey, 2, 1, 44>>),
   Framed(Object, <<70, 90, ObjectTypePubKey, 4, 1, 44, 45>>),
   Framed(Object, <<70, 90, ObjectTypeMsg, 1, 1, 46>>)}

(* Frames that are refused by their header, with a payload to skip. *)
SkippedFrames ==
  {<<8, Inv, 5, 0, 1, 61, 62, 63, 64>>,
   Framed(BadText, <<1, 2>>),
   Framed(Unknown, <<1, 2, 3>>),
   Framed(VerAck, <<1>>)}

(* Frames that are read whole and then found malformed. *)
MalformedFrames ==
  {Framed(Inv, <<3, 61, 62>>),
   Framed(Inv, <<2, 61>>),
   <<MCNet, Inv, 2, 98, 1, 61>>,
   Framed(Object, <<70, 90>>),
   Framed(Object, <<70, 90, 4>>),
   Framed(Object, <<70, 90, ObjectTypeGetPubKey, 2, 1>>),
   Framed(Object, <<70, 90, ObjectTypePubKey, 4, 1, 44, 45, 46, 47, 48, 49, 50>>)}

(* Frames with a count that no slice is made for, limited and not. *)
HugeFrames ==
  {Framed(Inv, <<99>>),
   Framed(Version, <<3, 1, 90, 1, 20, 30, 1, 21, 31, 77, 99>>),
   Framed(Version, <<3, 1, 90, 1, 20, 30, 1, 21, 31, 77, 0, 99>>),
   Framed(Object, <<70, 90, ObjectTypePubKey, 3, 1, 5, 44, 45, 6, 7, 99>>)}

(* A length beyond every limit, and parts of a frame. *)
Pieces == {<<MCNet, VerAck, 17, 0>>, <<MCNet, Inv>>, <<MCNet, Inv, 2, 5, 1>>}

MCSegments ==
  GoodFrames \cup SkippedFrames \cup MalformedFrames \cup HugeFrames
  \cup Pieces
=============================================================================
