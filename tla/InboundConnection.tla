-------------------------- MODULE InboundConnection -------------------------
(***************************************************************************)
(* A caller that reads messages in a loop, and a peer that writes whatever *)
(* it likes, in pieces of any size, and may close its end at any moment.   *)
(***************************************************************************)
EXTENDS ReadMessage

CONSTANT Segments  \* what the peer may put on the wire in one go

ASSUME InboundAssumption ==
  /\ Segments \subseteq Seq(Nat)
  /\ MaxWire \in Nat

inboundVars == <<wire, closed, readVars>>

InboundInit == wire = <<>> /\ closed = FALSE /\ ReadInit

PeerSends ==
  /\ ~closed /\ Len(wire) < MaxWire
  /\ \E s \in Segments : wire' = wire \o s
  /\ UNCHANGED <<closed, readVars>>

PeerCloses ==
  /\ ~closed
  /\ closed' = TRUE
  /\ UNCHANGED <<wire, readVars>>

InboundNext == ReadNext \/ PeerSends \/ PeerCloses

InboundSpec == InboundInit /\ [][InboundNext]_inboundVars

(* A thread inside ReadMessageN runs until a read blocks.  Neither the     *)
(* peer nor the caller owes another step.                                  *)
FairInboundSpec == InboundSpec /\ WF_inboundVars(ReadStep)

-----------------------------------------------------------------------------
(* Properties *)

(* A call returns once its frame is there or the connection has ended.     *)
SuppliedCallReturns ==
  (rpc # "idle" /\ (closed \/ (hdr # NoHeader /\ FrameEnd <= Len(wire))))
     ~> rpc = "idle"

(* ReadMessageN is one step of MessageReader, taken when the call returns. *)
Reader == INSTANCE MessageReader
            WITH pos <- IF rpc = "idle" THEN pos ELSE start

JudgesFrames == Reader!Spec
=============================================================================
