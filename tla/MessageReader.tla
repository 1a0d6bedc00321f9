---------------------------- MODULE MessageReader ---------------------------
(***************************************************************************)
(* What a caller may assume of ReadMessageN: a call judges the frame at    *)
(* its position in one step, and moves to the next frame.                  *)
(*                                                                         *)
(* The exceptions are explicit: a header with a length beyond the overall  *)
(* maximum leaves the position behind that header, and a connection that   *)
(* ends or fails leaves it anywhere in the frame.  How a frame is judged   *)
(* is a parameter.                                                         *)
(***************************************************************************)
EXTENDS Naturals, Sequences

CONSTANTS
  MessageHeaderSize,
  HeaderOf(_),     \* the header that so many cells are
  TooLarge(_),     \* headers that promise too large a payload
  Refused(_),      \* headers whose payload is skipped
  Outcome(_, _),   \* the message and the error a header and a payload yield
  Counted(_),      \* the count that is returned for a whole frame
  NoMessage,
  ReadFullErrors,  \* the errors at the end of the connection
  ReadFaults       \* the errors of a connection that fails before its end

VARIABLES
  wire,    \* every cell written to the connection so far
  closed,  \* the wire is final
  pos,     \* cells taken by the calls that have returned
  ret      \* what the last of them returned

vars == <<wire, closed, pos, ret>>

Here == HeaderOf(SubSeq(wire, pos + 1, pos + MessageHeaderSize))

PayloadStart == pos + MessageHeaderSize

HeaderThere == PayloadStart <= Len(wire)

Init ==
  /\ wire = <<>> /\ closed = FALSE
  /\ pos = 0
  /\ ret = [n |-> 0, msg |-> NoMessage, err |-> "none"]

(* A whole frame: its judgement is returned, its end is the new position. *)
Judge ==
  /\ HeaderThere /\ ~TooLarge(Here)
  /\ pos' = PayloadStart + Here.length
  /\ pos' <= Len(wire)
  /\ LET outcome == Outcome(Here, SubSeq(wire, PayloadStart + 1, pos'))
     IN  ret' = [n |-> Counted(Here), msg |-> outcome.msg, err |-> outcome.err]
  /\ UNCHANGED <<wire, closed>>

GiveUp ==
  /\ HeaderThere /\ TooLarge(Here)
  /\ ret' = [n |-> MessageHeaderSize, msg |-> NoMessage, err |-> "MessageError"]
  /\ pos' = PayloadStart
  /\ UNCHANGED <<wire, closed>>

(* The wire ended inside the frame, or the connection failed there.  When  *)
(* the payload was being skipped the caller is told of the frame instead.  *)
Broken ==
  /\ pos' \in pos..Len(wire)
  /\ ReadFaults # {} \/ (closed /\ pos' = Len(wire))
  /\ UNCHANGED <<wire, closed>>

BreakInHeader ==
  /\ Broken
  /\ pos' < PayloadStart
  /\ \E err \in ReadFullErrors \cup ReadFaults :
       ret' = [n |-> pos' - pos, msg |-> NoMessage, err |-> err]

BreakInPayload ==
  /\ Broken
  /\ PayloadStart <= pos' /\ ~TooLarge(Here)
  /\ pos' < PayloadStart + Here.length
  /\ IF Refused(Here)
     THEN ret' = [n |-> MessageHeaderSize, msg |-> NoMessage,
                  err |-> "MessageError"]
     ELSE \E err \in ReadFullErrors \cup ReadFaults :
            ret' = [n |-> pos' - pos, msg |-> NoMessage, err |-> err]

(* The other end adds to the wire, then closes it. *)
Environment ==
  /\ ~closed
  /\ \/ closed' = TRUE /\ wire' = wire
     \/ closed' = FALSE /\ Len(wire') >= Len(wire)
          /\ SubSeq(wire', 1, Len(wire)) = wire
  /\ UNCHANGED <<pos, ret>>

Next == Judge \/ GiveUp \/ BreakInHeader \/ BreakInPayload \/ Environment

Spec == Init /\ [][Next]_vars
=============================================================================
