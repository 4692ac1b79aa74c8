--------------------------- MODULE LaneImplements ---------------------------
(***************************************************************************)
(* DispatchLane implements LaneContract.  The command being dispatched is  *)
(* the oldest pending one until it is cancelled: a cancelled command is    *)
(* withdrawn at once, although the worker still has to be told.            *)
(***************************************************************************)
EXTENDS DispatchLane

AsCommand(i) == [number |-> i.command, owner |-> i.owner, text |-> i.text, gen |-> i.gen]

InDispatch == current # NoItem /\ ~cancelled

Uncancelled == queue \cup (IF InDispatch THEN {current} ELSE {})

AbstractPending == {AsCommand(i) : i \in Uncancelled}

Contract == INSTANCE LaneContract WITH
    MaxPending <- MaxQueue + 1,
    live       <- owners,
    pending    <- AbstractPending,
    atTV       <- InDispatch,
    delivered  <- lastSent

\* The lane's worker, wake-up event and cancellations together behave as the FIFO of LaneContract:
\* no command is lost, duplicated, reordered or delivered after its session or hold has ended.
ImplementsContract == Contract!Spec
=============================================================================
