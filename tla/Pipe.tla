-------------------------------- MODULE Pipe --------------------------------
(***************************************************************************)
(* WriteMessageN at one end of a connection and ReadMessageN at the other. *)
(*                                                                         *)
(* Both callers loop.  The repository has no such loop: its doc comments   *)
(* and its tests show how the two functions are used, and the callers here *)
(* use them so.  Both ends may fail, and a caller goes on after an error   *)
(* as if nothing had happened.                                             *)
(***************************************************************************)
EXTENDS ReadMessage, WriteMessage

VARIABLES
  attempted,  \* the messages whose header was put on the wire (history)
  delivered   \* the messages that ReadMessageN returned (history)

vars == <<wire, closed, readVars, writeVars, attempted, delivered>>

Init ==
  /\ wire = <<>> /\ closed = FALSE
  /\ ReadInit /\ WriteInit
  /\ attempted = <<>> /\ delivered = <<>>

(* The history of the wire: it grew past the end of a header. *)
Record ==
  LET end == wstart + MessageHeaderSize
  IN  attempted' = IF Len(wire) < end /\ Len(wire') >= end
                   THEN Append(attempted, wmsg) ELSE attempted

WriterSubmits ==
  /\ SubmitRefused \/ SubmitPanics \/ SubmitAccepted
  /\ UNCHANGED <<readVars, attempted, delivered>>

WriterWrites ==
  /\ WriteStep /\ Record
  /\ UNCHANGED <<readVars, delivered>>

WriterEnds ==
  /\ WriterCloses
  /\ UNCHANGED <<readVars, attempted, delivered>>

ReaderCalls ==
  /\ Call
  /\ UNCHANGED <<writeVars, attempted, delivered>>

ReaderReads ==
  /\ ReadStep
  /\ delivered' = IF rpc' = "idle" /\ ret'.err = "nil"
                  THEN Append(delivered, ret'.msg) ELSE delivered
  /\ UNCHANGED <<writeVars, attempted>>

Next ==
  WriterSubmits \/ WriterWrites \/ WriterEnds \/ ReaderCalls \/ ReaderReads

Spec == Init /\ [][Next]_vars

-----------------------------------------------------------------------------
(* Properties *)

(* The messages that the package knows, as the reader is to see them.      *)
Images(msgs) ==
  LET known == SelectSeq(msgs, LAMBDA m : m.kind \in Kinds)
  IN  [i \in DOMAIN known |-> Transmitted(known[i])]

(* Whatever fails and however the callers retry, nothing is delivered that *)
(* was not written, nothing twice for one write, and nothing out of order. *)
NothingInvented ==
  LET images == Images(attempted)
  IN  \E at \in [DOMAIN delivered -> DOMAIN images] :
        /\ \A i \in DOMAIN delivered : delivered[i] = images[at[i]]
        /\ \A i, j \in DOMAIN delivered : i < j => at[i] < at[j]
=============================================================================
