--------------------------- MODULE SharedConnection --------------------------
(***************************************************************************)
(* Two goroutines that write messages to one connection, and one that      *)
(* reads them at the other end.                                            *)
(*                                                                         *)
(* A frame is two calls of Write, and WriteMessageN keeps nothing but      *)
(* local variables: whether a frame stays whole is up to its callers.      *)
(* Here they either hold a lock during the call or they do not.  A single  *)
(* Write is atomic, as it is for a net.Conn.  The connection may be closed *)
(* and does not fail otherwise; a caller stops when it was closed.         *)
(* Nothing in the repository starts a goroutine: the callers are external. *)
(***************************************************************************)
EXTENDS ReadMessage, WriteMessage

ASSUME SharedAssumption == ReadFaults = {} /\ WriteFaults = FALSE

VARIABLES
  wpc2, wmsg2, wstart2, wret2,  \* the calls of the second writer
  locking,    \* whether a caller holds the lock while it is in a call
  holder,     \* the writer that holds the lock, 0 if none
  attempted,  \* the messages whose header was put on the wire (history)
  written,    \* the messages whose frame was put on the wire (history)
  delivered   \* the messages that ReadMessageN returned (history)

Second == INSTANCE WriteMessage
            WITH wpc <- wpc2, wmsg <- wmsg2, wstart <- wstart2, wret <- wret2

secondVars  == <<wpc2, wmsg2, wstart2, wret2>>
lockVars    == <<locking, holder>>
historyVars == <<attempted, written, delivered>>

vars == <<wire, closed, readVars, writeVars, secondVars, lockVars, historyVars>>

Init ==
  /\ wire = <<>> /\ closed = FALSE
  /\ ReadInit /\ WriteInit /\ Second!WriteInit
  /\ locking \in BOOLEAN /\ holder = 0
  /\ attempted = <<>> /\ written = <<>> /\ delivered = <<>>

(* A caller holds the lock for the time of its call. *)
Acquire(writer) ==
  /\ holder' = IF locking THEN writer ELSE 0
  /\ UNCHANGED locking

Release(pc) ==
  /\ holder' = IF pc = "idle" THEN 0 ELSE holder
  /\ UNCHANGED locking

Broken(err) == err \notin {"none", "nil", "MessageError"}

(* The histories have the messages that the package knows, as the reader   *)
(* is to see them.                                                         *)
Recorded(history, msg) ==
  IF msg.kind \in Kinds THEN Append(history, Transmitted(msg)) ELSE history

(* A frame without a payload is whole when its header is there. *)
Record(pc, msg) ==
  LET part  == Len(wire') > Len(wire)
      whole == pc = "payload" \/ Payload(msg).payload = <<>>
  IN  /\ attempted' = IF part /\ pc = "header" THEN Recorded(attempted, msg)
                                               ELSE attempted
      /\ written' = IF part /\ whole THEN Recorded(written, msg) ELSE written
      /\ UNCHANGED delivered

FirstSubmits ==
  /\ ~Broken(wret.err) /\ holder = 0
  /\ \/ (SubmitRefused \/ SubmitPanics) /\ UNCHANGED lockVars
     \/ SubmitAccepted /\ Acquire(1)
  /\ UNCHANGED <<secondVars, readVars, historyVars>>

FirstWrites ==
  /\ WriteStep
  /\ Record(wpc, wmsg) /\ Release(wpc')
  /\ UNCHANGED <<secondVars, readVars>>

SecondSubmits ==
  /\ ~Broken(wret2.err) /\ holder = 0
  /\ \/ (Second!SubmitRefused \/ Second!SubmitPanics) /\ UNCHANGED lockVars
     \/ Second!SubmitAccepted /\ Acquire(2)
  /\ UNCHANGED <<writeVars, readVars, historyVars>>

SecondWrites ==
  /\ Second!WriteStep
  /\ Record(wpc2, wmsg2) /\ Release(wpc2')
  /\ UNCHANGED <<writeVars, readVars>>

Closes ==
  /\ WriterCloses
  /\ UNCHANGED <<secondVars, readVars, lockVars, historyVars>>

ReaderCalls ==
  /\ ~Broken(ret.err)
  /\ Call
  /\ UNCHANGED <<writeVars, secondVars, lockVars, historyVars>>

ReaderReads ==
  /\ ReadStep
  /\ delivered' = IF rpc' = "idle" /\ ret'.err = "nil"
                  THEN Append(delivered, ret'.msg) ELSE delivered
  /\ UNCHANGED <<writeVars, secondVars, lockVars, attempted, written>>

Next ==
  FirstSubmits \/ FirstWrites \/ SecondSubmits \/ SecondWrites \/ Closes
    \/ ReaderCalls \/ ReaderReads

Spec == Init /\ [][Next]_vars

(* The reader comes back after each message and runs until a read blocks.  *)
FairSpec == Spec /\ WF_vars(ReaderCalls) /\ WF_vars(ReaderReads)

-----------------------------------------------------------------------------
(* Properties *)

Images == {Transmitted(m) : m \in {w \in Messages : w.kind \in Kinds}}

(* With the lock the two calls of Write of WriteMessageN are as one, and   *)
(* the connection is a channel: what the two callers write arrives whole,  *)
(* once, in the order in which the frames were completed, up to the one    *)
(* that a close cuts off.                                                  *)
Channel == INSTANCE MessageChannel
             WITH Message <- Images,
                  sent <- IF locking THEN written ELSE <<>>,
                  got  <- IF locking THEN delivered ELSE <<>>

IsOneChannel == Channel!Spec

(* And it arrives in the end, whether or not a writer ever comes back.     *)
ArrivesInTheEnd == Channel!Fairness

(* With the lock ReadMessageN complains of nothing but messages of foreign *)
(* types.                                                                  *)
OnlyForeignRefused ==
  locking /\ rpc = "idle" /\ ret.err = "MessageError" =>
    hdr.command = "unhandled"

(* Without it, headers and payloads of two frames mix.  The reader loses   *)
(* messages and the alignment, but it delivers none that was not written,  *)
(* none twice for one write, and none before one whose header came first.  *)
NothingMixed ==
  \E at \in [DOMAIN delivered -> DOMAIN attempted] :
    /\ \A i \in DOMAIN delivered : delivered[i] = attempted[at[i]]
    /\ \A i, j \in DOMAIN delivered : i < j => at[i] < at[j]
=============================================================================
