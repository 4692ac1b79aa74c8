----------------------------- MODULE StateFile -----------------------------
(***************************************************************************)
(* A strict state file (atomic_io.py): processes walk to its directory,    *)
(* creating what is missing, and the holder of the pairing-state lock      *)
(* (pairing_state.py) replaces the file, unlinks it or commits it as it    *)
(* is.  Any step may raise, any process may die, and the power may fail.   *)
(*                                                                         *)
(* What is on the SD card is less than what processes see: an entry of a   *)
(* directory gets there by an fsync of the directory, the contents of a    *)
(* file by an fsync of the file.  A power loss keeps, of each directory,   *)
(* some of its entries since the last fsync, and tears a file that was     *)
(* never synced.                                                           *)
(*                                                                         *)
(* Ownership, mode and ACL checks answer yes or raise.  Temporary names    *)
(* are random and never read, so the temporary file, its removal after an  *)
(* error included, is left out, and so are the lock file's contents.       *)
(***************************************************************************)
EXTENDS Integers

CONSTANTS
    Procs,      \* processes: the service and the commands
    Depth,      \* components of the state directory's path that may be missing
    MaxWrites,  \* bound: files written
    NoProc      \* the lock is free

ASSUME StateFileAssumption ==
    /\ Depth \in Nat
    /\ MaxWrites \in Nat
    /\ NoProc \notin Procs \cup (0..MaxWrites)   \* neither a process nor a contents

Components == 1..Depth

\* A file's contents: the write that made it, none, or garbage.
Absent == 0
Torn == -1
Contents == -1..MaxWrites

VARIABLES
    depth,    \* components there are
    durable,  \* components whose entry in their parent is on the card
    file,     \* the write whose file the name stands for
    kept,     \* the writes whose file it may stand for after a power loss
    flushed,  \* writes whose file's contents are on the card
    writes,   \* files written
    op,       \* op[p]: what process p is doing
    step,     \* step[p]: its next step
    at,       \* at[p]: the component its walk has come to
    holder,   \* the holder of the lock
    target    \* the file that the holder is to establish

dirVars == <<depth, durable>>
fileVars == <<file, kept, flushed, writes>>
procVars == <<op, step, at>>
lockVars == <<holder, target>>
vars == <<dirVars, fileVars, procVars, lockVars>>

Ops == {"ensure", "write", "unlink", "sync"}

TypeOK ==
    /\ depth \in 0..Depth /\ durable \subseteq Components
    /\ file \in Contents /\ kept \subseteq Contents
    /\ flushed \subseteq Contents /\ writes \in 0..MaxWrites
    /\ op \in [Procs -> Ops \cup {"none"}]
    /\ step \in [Procs -> {"idle", "open", "mkdir", "found", "made", "flock", "flush", "replace",
                           "remove", "fsync"}]
    /\ at \in [Procs -> 1..(Depth + 1)]
    /\ holder \in Procs \cup {NoProc}
    /\ target \in Contents

\* A fresh installation: only the directories that the host came with.
Init ==
    /\ depth = 0 /\ durable = {}
    /\ file = Absent /\ kept = {Absent} /\ flushed = {} /\ writes = 0
    /\ op = [p \in Procs |-> "none"]
    /\ step = [p \in Procs |-> "idle"]
    /\ at = [p \in Procs |-> 1]
    /\ holder = NoProc /\ target = Absent

-----------------------------------------------------------------------------
(* Walking to the directory: _open_durable_directory.                       *)

Goes(p, s) == step' = [step EXCEPT ![p] = s]

\* durable_unlink and durable_fsync_parent walk with create=False, the lock has walked before them.
Creates(p) == holder # p \/ op[p] = "write"

\* The operation of p ends, and with it the lock it may hold.
Ends(p) ==
    /\ op' = [op EXCEPT ![p] = "none"]
    /\ Goes(p, "idle")
    /\ holder' = IF holder = p THEN NoProc ELSE holder
    /\ UNCHANGED <<at, target>>

Begins(p, o) ==
    /\ op[p] = "none"
    /\ op' = [op EXCEPT ![p] = o]
    /\ at' = [at EXCEPT ![p] = 1]
    /\ Goes(p, "open")
    /\ UNCHANGED <<dirVars, fileVars, lockVars>>

\* Where it may not create, a missing component ends the operation, as in Raises.
OpensComponent(p) ==
    /\ step[p] = "open" /\ at[p] \in Components
    /\ \/ at[p] <= depth /\ Goes(p, "found")
       \/ at[p] > depth /\ Creates(p) /\ Goes(p, "mkdir")
    /\ UNCHANGED <<dirVars, fileVars, op, at, lockVars>>

\* Another process may have made the component in between.
MakesComponent(p) ==
    /\ step[p] = "mkdir"
    /\ IF at[p] > depth
       THEN depth' = at[p] /\ Goes(p, "made")
       ELSE depth' = depth /\ Goes(p, "found")
    /\ UNCHANGED <<durable, fileVars, op, at, lockVars>>

\* faulty: the parent is synced only by the process that made the child
SyncsOwnParent(p) ==
    durable' = IF step[p] = "made" THEN durable \cup {at[p]} ELSE durable

\* A component that was found may be one whose maker failed before its fsync.
SyncsParent(p) ==
    durable' = IF Creates(p) THEN durable \cup {at[p]} ELSE durable

EntersComponent(p) ==
    /\ step[p] \in {"found", "made"}
    /\ SyncsParent(p)
    /\ at' = [at EXCEPT ![p] = @ + 1]
    /\ Goes(p, "open")
    /\ UNCHANGED <<depth, fileVars, op, lockVars>>

\* The directory is open: the walk has served its purpose.
Arrives(p) ==
    /\ step[p] = "open" /\ at[p] \notin Components
    /\ \/ op[p] = "ensure" /\ Ends(p)
       \/ op[p] # "ensure" /\ holder # p /\ Goes(p, "flock") /\ UNCHANGED <<op, at, lockVars>>
       \/ /\ holder = p
          /\ Goes(p, CASE op[p] = "write" -> "flush" [] op[p] = "unlink" -> "remove"
                       [] op[p] = "sync" -> "fsync")
          /\ UNCHANGED <<op, at, lockVars>>
    /\ UNCHANGED <<dirVars, fileVars>>

-----------------------------------------------------------------------------
(* Under the lock.                                                          *)

\* flock: the operation walks to the directory again.
TakesLock(p) ==
    /\ step[p] = "flock" /\ holder = NoProc
    /\ holder' = p
    /\ \/ op[p] = "write" /\ writes < MaxWrites /\ writes' = writes + 1 /\ target' = writes + 1
       \/ op[p] = "unlink" /\ target' = Absent /\ UNCHANGED writes
       \/ op[p] = "sync" /\ target' = file /\ UNCHANGED writes
    /\ at' = [at EXCEPT ![p] = 1]
    /\ Goes(p, "open")
    /\ UNCHANGED <<dirVars, file, kept, flushed, op>>

\* The temporary file is created, filled and synced.
FlushesFile(p) ==
    /\ step[p] = "flush"
    /\ flushed' = flushed \cup {target}
    /\ Goes(p, "replace")
    /\ UNCHANGED <<dirVars, file, kept, writes, op, at, lockVars>>

Points(w) == file' = w /\ kept' = kept \cup {w}

ReplacesFile(p) ==
    /\ step[p] = "replace"
    /\ Points(target)
    /\ Goes(p, "fsync")
    /\ UNCHANGED <<dirVars, flushed, writes, op, at, lockVars>>

\* Also when it is absent: the fsync commits a removal whose own fsync had failed.
RemovesFile(p) ==
    /\ step[p] = "remove"
    /\ Points(Absent)
    /\ Goes(p, "fsync")
    /\ UNCHANGED <<dirVars, flushed, writes, op, at, lockVars>>

SyncsDirectory(p) ==
    /\ step[p] = "fsync"
    /\ kept' = {file}
    /\ Ends(p)
    /\ UNCHANGED <<dirVars, file, flushed, writes>>

-----------------------------------------------------------------------------
(* Failures.                                                                *)

\* A system call or a check raises, or the process dies: a flock goes with its process.
Raises(p) ==
    /\ op[p] # "none"
    /\ Ends(p)
    /\ UNCHANGED <<dirVars, fileVars>>

OnCard(w) == IF w = Absent \/ w \in flushed THEN w ELSE Torn

PowerFails ==
    /\ \E d \in 0..depth :
          /\ d + 1 \notin durable
          /\ depth' = d
    /\ durable' = 1..depth'
    /\ IF depth' < Depth THEN file' = Absent
                         ELSE \E w \in kept : file' = OnCard(w)
    /\ kept' = {file'}
    /\ op' = [p \in Procs |-> "none"]
    /\ step' = [p \in Procs |-> "idle"]
    /\ holder' = NoProc
    /\ UNCHANGED <<flushed, writes, at, target>>

Next ==
    \/ \E p \in Procs :
          \/ \E o \in Ops : Begins(p, o)
          \/ OpensComponent(p) \/ MakesComponent(p) \/ EntersComponent(p)
          \/ Arrives(p) \/ TakesLock(p)
          \/ FlushesFile(p) \/ ReplacesFile(p) \/ RemovesFile(p) \/ SyncsDirectory(p)
          \/ Raises(p)
    \/ PowerFails

Spec == Init /\ [][Next]_vars

-----------------------------------------------------------------------------
(* Properties.                                                              *)

Reached == Components \subseteq durable

Record == INSTANCE DurableRecord WITH
    Values  <- 0..MaxWrites,
    Absent  <- Absent,
    NoValue <- NoProc,
    visible <- file,
    kept    <- {OnCard(w) : w \in kept} \cup (IF Reached THEN {} ELSE {Absent}),
    wanted  <- IF holder = NoProc THEN NoProc ELSE target

\* However processes race to create the directory, whatever raises, dies or loses power: a reported
\* write or removal is what every later start finds, and no start finds a torn file.
ImplementsRecord == Record!Spec
=============================================================================
