-------------------------- MODULE StateFileProofs --------------------------
(***************************************************************************)
(* StateFile implements DurableRecord for any number of processes, any     *)
(* depth of missing directories and any number of writes.                  *)
(*                                                                         *)
(* The argument: a walk that may create leaves every component it has      *)
(* passed durable, whoever made it; the lock is only taken at the end of   *)
(* such a walk; so under the lock the whole path is durable, the holder's  *)
(* own walk cannot miss, and the file's name only ever stands for no file  *)
(* or for one that was flushed before.                                     *)
(***************************************************************************)
EXTENDS StateFile, TLAPS

\* What is durable is there, and a walk has come past what is there.
PathInv ==
    /\ durable \subseteq 1..depth
    /\ \A p \in Procs : step[p] # "idle" => at[p] <= depth + 1
    /\ \A p \in Procs : step[p] \in {"found", "made"} => at[p] <= depth
    /\ \A p \in Procs : step[p] \in {"mkdir", "found", "made"} => at[p] \in Components

\* What a creating walk has passed is durable.
WalkInv ==
    /\ \A p \in Procs : step[p] # "idle" /\ holder # p => 1..(at[p] - 1) \subseteq durable
    /\ \A p \in Procs : step[p] = "flock" \/ holder = p => Reached
    /\ ~Reached => file = Absent /\ kept = {Absent}

\* Only the holder of the lock is at the file, with the step its operation has there.
HolderInv ==
    /\ \A p \in Procs : step[p] \in {"flush", "replace", "remove", "fsync"} => holder = p
    /\ \A p \in Procs : step[p] = "flock" => holder # p
    /\ \A p \in Procs : op[p] = "none" => step[p] = "idle"
    /\ \A p \in Procs : op[p] \in {"none", "ensure"} => holder # p
    /\ \A p \in Procs : step[p] \in {"flush", "replace"} => op[p] = "write"
    /\ \A p \in Procs : step[p] = "remove" => op[p] = "unlink"

\* The name stands for no file or for a flushed one, and the holder's target is what it asked.
FileInv ==
    /\ flushed \subseteq 1..MaxWrites
    /\ file \in flushed \cup {Absent}
    /\ kept \subseteq flushed \cup {Absent}
    /\ target \in 0..MaxWrites
    /\ \A p \in Procs : holder = p /\ op[p] = "write" => target \in 1..MaxWrites
    /\ \A p \in Procs : holder = p /\ op[p] = "unlink" => target = Absent
    /\ \A p \in Procs : holder = p /\ op[p] = "sync" => target = file
    /\ \A p \in Procs : step[p] = "replace" => target \in flushed
    /\ \A p \in Procs : step[p] = "fsync" => file = target

IInv == TypeOK /\ PathInv /\ WalkInv /\ HolderInv /\ FileInv

\* A step of process p.
Acts(p) ==
    \/ \E o \in Ops : Begins(p, o)
    \/ OpensComponent(p) \/ MakesComponent(p) \/ EntersComponent(p)
    \/ Arrives(p) \/ TakesLock(p)
    \/ FlushesFile(p) \/ ReplacesFile(p) \/ RemovesFile(p) \/ SyncsDirectory(p)
    \/ Raises(p)

(***************************************************************************)
(* A fresh installation satisfies the invariant.                           *)
(***************************************************************************)
LEMMA InitIInv == Init => IInv
  BY StateFileAssumption DEF Init, IInv, TypeOK, PathInv, WalkInv, HolderInv, FileInv, Ops,
     Components, Contents, Absent, Torn, Reached

(***************************************************************************)
(* A step of one process preserves the invariant.                          *)
(***************************************************************************)
LEMMA ProcessIInv ==
  ASSUME NEW p \in Procs, IInv, Acts(p)
  PROVE  IInv'
<1> USE StateFileAssumption DEF IInv, Components, Contents, Absent, Torn, Reached
<1>1. CASE \E o \in Ops : Begins(p, o)
  <2> USE <1>1 DEF vars, dirVars, fileVars, procVars, lockVars
  <2>1. TypeOK'
    BY DEF TypeOK, PathInv, WalkInv, HolderInv, FileInv, Begins, Goes, Ops
  <2>2. PathInv'
    BY DEF TypeOK, PathInv, WalkInv, HolderInv, Begins, Goes, Ops
  <2>3. WalkInv'
    BY DEF TypeOK, WalkInv, PathInv, HolderInv, FileInv, Begins, Goes, Ops
  <2>4. HolderInv'
    BY DEF TypeOK, HolderInv, Begins, Goes, Ops
  <2>5. FileInv'
    BY DEF TypeOK, FileInv, WalkInv, HolderInv, Begins, Goes, Ops
  <2> QED BY <2>1, <2>2, <2>3, <2>4, <2>5
<1>2. CASE OpensComponent(p)
  <2> USE <1>2 DEF vars, dirVars, fileVars, procVars, lockVars
  <2>1. TypeOK'
    BY DEF TypeOK, PathInv, WalkInv, HolderInv, FileInv, OpensComponent, Goes, Ops
  <2>2. PathInv'
    BY DEF TypeOK, PathInv, WalkInv, HolderInv, OpensComponent, Goes
  <2>3. WalkInv'
    BY DEF TypeOK, WalkInv, PathInv, HolderInv, FileInv, OpensComponent, Goes
  <2>4. HolderInv'
    BY DEF TypeOK, HolderInv, OpensComponent, Goes
  <2>5. FileInv'
    BY DEF TypeOK, FileInv, WalkInv, HolderInv, OpensComponent, Goes
  <2> QED BY <2>1, <2>2, <2>3, <2>4, <2>5
<1>4. CASE MakesComponent(p)
  <2> USE <1>4 DEF vars, dirVars, fileVars, procVars, lockVars
  <2>1. TypeOK'
    BY DEF TypeOK, PathInv, WalkInv, HolderInv, FileInv, MakesComponent, Goes, Ops
  <2>2. PathInv'
    BY DEF TypeOK, PathInv, WalkInv, HolderInv, MakesComponent, Goes
  <2>3. WalkInv'
    BY DEF TypeOK, WalkInv, PathInv, HolderInv, FileInv, MakesComponent, Goes
  <2>4. HolderInv'
    BY DEF TypeOK, HolderInv, MakesComponent, Goes
  <2>5. FileInv'
    BY DEF TypeOK, FileInv, WalkInv, HolderInv, MakesComponent, Goes
  <2> QED BY <2>1, <2>2, <2>3, <2>4, <2>5
<1>5. CASE EntersComponent(p)
  <2> USE <1>5 DEF vars, dirVars, fileVars, procVars, lockVars
  <2>1. at[p] \in 1..Depth /\ at[p] <= depth /\ depth \in Nat /\ Depth \in Nat
    BY DEF PathInv, TypeOK, EntersComponent
  <2>2. at' = [at EXCEPT ![p] = at[p] + 1] /\ step' = [step EXCEPT ![p] = "open"]
    BY DEF EntersComponent, Goes
  <2>3. durable' \in {durable, durable \cup {at[p]}} /\ UNCHANGED <<depth, fileVars, op, lockVars>>
    BY DEF EntersComponent, SyncsParent
  <2>4. holder # p => durable' = durable \cup {at[p]}
    BY DEF EntersComponent, SyncsParent, Creates
  <2>5. at'[p] = at[p] + 1 /\ step'[p] = "open" /\ at[p] + 1 \in 1..(Depth + 1)
    BY <2>1, <2>2 DEF TypeOK
  <2>6. TypeOK'
    BY ONLY <2>1, <2>2, <2>3, <2>5, TypeOK
    DEF TypeOK, Components, fileVars, lockVars
  <2>7. PathInv'
    BY ONLY <2>1, <2>2, <2>3, <2>5, TypeOK, PathInv
    DEF TypeOK, PathInv, Components, fileVars, lockVars
  <2>8. WalkInv'
    <3>1. durable \subseteq durable' /\ UNCHANGED <<holder, file, kept>>
      BY <2>3
    <3>2. Reached => Reached'
      BY <3>1
    <3>3. ASSUME NEW q \in Procs, step'[q] # "idle", holder' # q
          PROVE  1..(at'[q] - 1) \subseteq durable'
      <4>1. CASE q = p
        <5>1. 1..(at[p] - 1) \subseteq durable /\ at[p] \in durable'
          BY <3>1, <3>3, <4>1, <2>4 DEF WalkInv, EntersComponent
        <5> QED BY <5>1, <3>1, <4>1, <2>1, <2>5
      <4>2. CASE q # p
        <5>1. at'[q] = at[q] /\ step'[q] = step[q] BY <4>2, <2>2 DEF TypeOK
        <5> QED BY <5>1, <3>1, <3>3 DEF WalkInv
      <4> QED BY <4>1, <4>2
    <3>4. ASSUME NEW q \in Procs, step'[q] = "flock" \/ holder' = q PROVE Reached'
      BY <3>1, <3>2, <3>4, <2>2 DEF WalkInv, TypeOK
    <3>5. ~Reached' => file' = Absent /\ kept' = {Absent}
      BY ONLY <3>1, <3>2, WalkInv DEF WalkInv
    <3> QED BY <3>3, <3>4, <3>5 DEF WalkInv
  <2>9. HolderInv'
    BY DEF TypeOK, HolderInv, EntersComponent, Goes
  <2>10. FileInv'
    BY DEF TypeOK, FileInv, HolderInv, EntersComponent, Goes
  <2> QED BY <2>6, <2>7, <2>8, <2>9, <2>10
<1>6. CASE Arrives(p)
  <2> USE <1>6 DEF vars, dirVars, fileVars, procVars, lockVars
  <2>1. UNCHANGED <<dirVars, fileVars, at, target>> /\ at[p] = Depth + 1 /\ op[p] # "none"
    <3>1. at[p] = Depth + 1
      <4>1. at[p] \notin Components BY ONLY <1>6 DEF Arrives
      <4>2. at[p] \in 1..(Depth + 1) BY DEF TypeOK
      <4> QED BY ONLY <4>1, <4>2, StateFileAssumption DEF Components, StateFileAssumption
    <3>2. step[p] = "open" BY DEF Arrives
    <3>3. op[p] # "none" BY <3>2 DEF HolderInv
    <3>4. UNCHANGED <<dirVars, fileVars, at, target>>
      BY DEF Arrives, Ends
    <3> QED BY <3>1, <3>3, <3>4
  <2>2. CASE op[p] = "ensure" /\ Ends(p)
    <3>1. step' = [step EXCEPT ![p] = "idle"] /\ op' = [op EXCEPT ![p] = "none"]
          /\ holder' = IF holder = p THEN NoProc ELSE holder
      BY <2>2 DEF Ends, Goes
    <3>2. TypeOK' BY <2>1, <3>1 DEF TypeOK
    <3>3. PathInv' BY <2>1, <3>1 DEF TypeOK, PathInv
    <3>4. WalkInv' BY <2>1, <3>1 DEF TypeOK, WalkInv
    <3>5. HolderInv' BY <2>1, <3>1 DEF TypeOK, HolderInv
    <3>6. FileInv' BY <2>1, <3>1 DEF TypeOK, FileInv
    <3> QED BY <3>2, <3>3, <3>4, <3>5, <3>6
  <2>3. CASE holder # p /\ Goes(p, "flock") /\ UNCHANGED <<op, at, lockVars>>
    <3>1. step' = [step EXCEPT ![p] = "flock"] /\ UNCHANGED <<op, holder>> /\ holder # p
      BY <2>3 DEF Goes
    <3>2. step[p] = "open" BY DEF Arrives
    <3>3. Reached BY <2>1, <3>1, <3>2 DEF WalkInv, TypeOK
    <3>4. TypeOK' BY <2>1, <3>1 DEF TypeOK
    <3>5. PathInv' BY <2>1, <3>1, <3>2 DEF TypeOK, PathInv
    <3>6. WalkInv' BY <2>1, <3>1, <3>2, <3>3 DEF TypeOK, WalkInv
    <3>7. HolderInv' BY <2>1, <3>1 DEF TypeOK, HolderInv
    <3>8. FileInv' BY <2>1, <3>1 DEF TypeOK, FileInv
    <3> QED BY <3>4, <3>5, <3>6, <3>7, <3>8
  <2>4. CASE /\ holder = p
             /\ Goes(p, CASE op[p] = "write" -> "flush" [] op[p] = "unlink" -> "remove"
                          [] op[p] = "sync" -> "fsync")
             /\ UNCHANGED <<op, at, lockVars>>
    <3>1. step[p] = "open" BY DEF Arrives
    <3>2. op[p] \in {"write", "unlink", "sync"}
      BY <2>4 DEF TypeOK, HolderInv, Ops
    <3>3. PICK s \in {"flush", "remove", "fsync"} :
            /\ step' = [step EXCEPT ![p] = s]
            /\ s = "flush" => op[p] = "write"
            /\ s = "remove" => op[p] = "unlink"
            /\ s = "fsync" => op[p] = "sync"
      BY <2>1, <2>4, <3>2 DEF Goes, TypeOK, Ops
    <3>4. UNCHANGED <<op, holder>> /\ holder = p BY <2>4
    <3>5. TypeOK' BY <2>1, <3>3, <3>4 DEF TypeOK
    <3>6. PathInv' BY <2>1, <3>1, <3>3, <3>4 DEF TypeOK, PathInv
    <3>7. WalkInv' BY <2>1, <3>3, <3>4 DEF TypeOK, WalkInv
    <3>8. HolderInv' BY <2>1, <3>3, <3>4 DEF TypeOK, HolderInv
    <3>9. FileInv' BY <2>1, <3>3, <3>4 DEF TypeOK, FileInv
    <3> QED BY <3>5, <3>6, <3>7, <3>8, <3>9
  <2> QED BY <2>2, <2>3, <2>4 DEF Arrives
<1>7. CASE TakesLock(p)
  <2> USE <1>7 DEF vars, dirVars, fileVars, procVars, lockVars
  <2>1. TypeOK'
    BY DEF TypeOK, PathInv, WalkInv, HolderInv, FileInv, TakesLock, Goes, Ops
  <2>2. PathInv'
    BY DEF TypeOK, PathInv, WalkInv, HolderInv, TakesLock, Goes
  <2>3. WalkInv'
    BY DEF TypeOK, WalkInv, PathInv, HolderInv, FileInv, TakesLock, Goes
  <2>4. HolderInv'
    BY DEF TypeOK, HolderInv, TakesLock, Goes
  <2>5. FileInv'
    BY DEF TypeOK, FileInv, WalkInv, HolderInv, TakesLock, Goes
  <2> QED BY <2>1, <2>2, <2>3, <2>4, <2>5
<1>8. CASE FlushesFile(p)
  <2> USE <1>8 DEF vars, dirVars, fileVars, procVars, lockVars
  <2>1. TypeOK'
    BY DEF TypeOK, PathInv, WalkInv, HolderInv, FileInv, FlushesFile, Goes, Ops
  <2>2. PathInv'
    BY DEF TypeOK, PathInv, WalkInv, HolderInv, FlushesFile, Goes
  <2>3. WalkInv'
    BY DEF TypeOK, WalkInv, PathInv, HolderInv, FileInv, FlushesFile, Goes
  <2>4. HolderInv'
    BY DEF TypeOK, HolderInv, FlushesFile, Goes
  <2>5. FileInv'
    BY DEF TypeOK, FileInv, WalkInv, HolderInv, FlushesFile, Goes
  <2> QED BY <2>1, <2>2, <2>3, <2>4, <2>5
<1>9. CASE ReplacesFile(p)
  <2> USE <1>9 DEF vars, dirVars, fileVars, procVars, lockVars
  <2>1. TypeOK'
    BY DEF TypeOK, PathInv, WalkInv, HolderInv, FileInv, ReplacesFile, Points, Goes, Ops
  <2>2. PathInv'
    BY DEF TypeOK, PathInv, WalkInv, HolderInv, ReplacesFile, Points, Goes
  <2>3. WalkInv'
    BY DEF TypeOK, WalkInv, PathInv, HolderInv, FileInv, ReplacesFile, Points, Goes
  <2>4. HolderInv'
    BY DEF TypeOK, HolderInv, ReplacesFile, Points, Goes
  <2>5. FileInv'
    BY DEF TypeOK, FileInv, WalkInv, HolderInv, ReplacesFile, Points, Goes
  <2> QED BY <2>1, <2>2, <2>3, <2>4, <2>5
<1>10. CASE RemovesFile(p)
  <2> USE <1>10 DEF vars, dirVars, fileVars, procVars, lockVars
  <2>1. TypeOK'
    BY DEF TypeOK, PathInv, WalkInv, HolderInv, FileInv, RemovesFile, Points, Goes, Ops
  <2>2. PathInv'
    BY DEF TypeOK, PathInv, WalkInv, HolderInv, RemovesFile, Points, Goes
  <2>3. WalkInv'
    BY DEF TypeOK, WalkInv, PathInv, HolderInv, FileInv, RemovesFile, Points, Goes
  <2>4. HolderInv'
    BY DEF TypeOK, HolderInv, RemovesFile, Points, Goes
  <2>5. FileInv'
    BY DEF TypeOK, FileInv, WalkInv, HolderInv, RemovesFile, Points, Goes
  <2> QED BY <2>1, <2>2, <2>3, <2>4, <2>5
<1>11. CASE SyncsDirectory(p)
  <2> USE <1>11 DEF vars, dirVars, fileVars, procVars, lockVars
  <2>1. TypeOK'
    BY DEF TypeOK, PathInv, WalkInv, HolderInv, FileInv, SyncsDirectory, Ends, Goes, Ops
  <2>2. PathInv'
    BY DEF TypeOK, PathInv, WalkInv, HolderInv, SyncsDirectory, Ends, Goes
  <2>3. WalkInv'
    BY DEF TypeOK, WalkInv, PathInv, HolderInv, FileInv, SyncsDirectory, Ends, Goes
  <2>4. HolderInv'
    BY DEF TypeOK, HolderInv, SyncsDirectory, Ends, Goes
  <2>5. FileInv'
    BY DEF TypeOK, FileInv, WalkInv, HolderInv, SyncsDirectory, Ends, Goes
  <2> QED BY <2>1, <2>2, <2>3, <2>4, <2>5
<1>12. CASE Raises(p)
  <2> USE <1>12 DEF vars, dirVars, fileVars, procVars, lockVars
  <2>1. TypeOK'
    BY DEF TypeOK, PathInv, WalkInv, HolderInv, FileInv, Raises, Ends, Goes, Ops
  <2>2. PathInv'
    BY DEF TypeOK, PathInv, WalkInv, HolderInv, Raises, Ends, Goes
  <2>3. WalkInv'
    BY DEF TypeOK, WalkInv, PathInv, HolderInv, FileInv, Raises, Ends, Goes
  <2>4. HolderInv'
    BY DEF TypeOK, HolderInv, Raises, Ends, Goes
  <2>5. FileInv'
    BY DEF TypeOK, FileInv, WalkInv, HolderInv, Raises, Ends, Goes
  <2> QED BY <2>1, <2>2, <2>3, <2>4, <2>5
<1> QED BY <1>1, <1>2, <1>4, <1>5, <1>6, <1>7, <1>8, <1>9, <1>10, <1>11, <1>12 DEF Acts

(***************************************************************************)
(* A power loss leaves a whole path or no file, and nobody at work.        *)
(***************************************************************************)
LEMMA PowerIInv == IInv /\ PowerFails => IInv'
<1> SUFFICES ASSUME IInv, PowerFails PROVE IInv' OBVIOUS
<1> USE StateFileAssumption DEF Components, Contents, Absent, Torn, Reached
<1>1. PICK d \in 0..depth : d + 1 \notin durable /\ depth' = d
  BY DEF PowerFails
<1>2. durable' = 1..d /\ flushed' = flushed /\ UNCHANGED <<writes, at, target>>
  BY <1>1 DEF PowerFails
<1>3. /\ op' = [p \in Procs |-> "none"] /\ step' = [p \in Procs |-> "idle"]
      /\ holder' = NoProc
  BY DEF PowerFails
<1>4. file' \in flushed \cup {Absent} /\ kept' = {file'}
  BY DEF PowerFails, OnCard, IInv, FileInv
<1>5. d < Depth => file' = Absent
  BY <1>1 DEF PowerFails
<1>6. depth' \in 0..Depth /\ durable' \subseteq Components
  BY <1>1, <1>2 DEF IInv, TypeOK
<1>7. file' \in Contents /\ kept' \subseteq Contents
  BY <1>4 DEF IInv, FileInv, TypeOK
<1>8. TypeOK'
  BY <1>2, <1>3, <1>6, <1>7 DEF IInv, TypeOK, Ops
<1>9. PathInv'
  BY <1>1, <1>2, <1>3 DEF PathInv
<1>10. WalkInv'
  <2>1. ~Reached' => d < Depth
    BY <1>1, <1>2, <1>6 DEF IInv, TypeOK
  <2>2. ASSUME NEW p \in Procs PROVE step'[p] = "idle" /\ holder' # p
    BY <1>3
  <2> QED BY <2>1, <2>2, <1>4, <1>5 DEF WalkInv
<1>11. HolderInv'
  BY <1>3 DEF HolderInv
<1>12. FileInv'
  BY <1>2, <1>3, <1>4 DEF IInv, FileInv, TypeOK
<1> QED BY <1>8, <1>9, <1>10, <1>11, <1>12 DEF IInv

(***************************************************************************)
(* The invariant holds in every state of every run of atomic_io.py.        *)
(***************************************************************************)
THEOREM StateFileInvariant == Spec => []IInv
<1>1. IInv /\ [Next]_vars => IInv'
  <2> SUFFICES ASSUME IInv, [Next]_vars PROVE IInv' OBVIOUS
  <2>1. ASSUME NEW p \in Procs, Acts(p) PROVE IInv' BY <2>1, ProcessIInv
  <2>2. CASE PowerFails BY <2>2, PowerIInv
  <2>3. CASE UNCHANGED vars
    BY <2>3 DEF IInv, TypeOK, PathInv, WalkInv, HolderInv, FileInv, Reached, vars, dirVars,
       fileVars, procVars, lockVars
  <2> QED BY <2>1, <2>2, <2>3 DEF Next, Acts
<1> QED BY InitIInv, <1>1, PTL DEF Spec

\* The variables of the processes and of the file have their types.
THEOREM StateFileTypeCorrect == Spec => []TypeOK
<1>1. IInv => TypeOK
  BY DEF IInv
<1> QED
  BY <1>1, StateFileInvariant, PTL

\* Nobody writes under a directory that a power loss could still take away.
LockedPathDurable == \A p \in Procs : holder = p => Reached

\* Whoever made the missing directories, and wherever a maker failed before its fsync, the path is
\* durable for whoever holds the lock (_open_durable_directory before flock).
THEOREM LockNeedsDurablePath == Spec => []LockedPathDurable
<1>1. IInv => LockedPathDurable
  BY DEF IInv, WalkInv, LockedPathDurable
<1> QED
  BY <1>1, StateFileInvariant, PTL

(***************************************************************************)
(* What a power loss may leave of the file, as the refinement reads it.    *)
(***************************************************************************)
Kept == {OnCard(w) : w \in kept} \cup (IF Reached THEN {} ELSE {Absent})

\* With the invariant nothing in it is torn, and the missing path adds nothing.
LEMMA KeptWhole == IInv => Kept = kept
<1> SUFFICES ASSUME IInv PROVE Kept = kept OBVIOUS
<1>1. \A w \in kept : OnCard(w) = w
  BY DEF IInv, FileInv, OnCard
<1>2. ~Reached => kept = {Absent}
  BY DEF IInv, WalkInv
<1> QED BY <1>1, <1>2 DEF Kept

(***************************************************************************)
(* Every step is a step of the record or leaves it as it is.               *)
(***************************************************************************)
LEMMA StepRefines == IInv /\ IInv' /\ [Next]_vars => [Record!Next]_(Record!record)
<1> SUFFICES ASSUME IInv, IInv', [Next]_vars PROVE [Record!Next]_(Record!record) OBVIOUS
<1> DEFINE Wanted == IF holder = NoProc THEN NoProc ELSE target
<1>1. Kept = kept /\ Kept' = kept'
  <2>1. \A w \in kept' : OnCard(w)' = w
    BY DEF IInv, FileInv, OnCard
  <2>2. ~Reached' => kept' = {Absent}
    BY DEF IInv, WalkInv
  <2> QED BY <2>1, <2>2, KeptWhole DEF Kept
<1>2. UNCHANGED <<file, kept, Wanted>> => [Record!Next]_(Record!record)
  BY <1>1 DEF Record!record, Kept
<1>3. \A v \in 0..MaxWrites :
        Wanted = NoProc /\ Wanted' = v /\ UNCHANGED <<file, kept>> => Record!Next
  BY <1>1 DEF Record!Next, Record!Asks, Kept
<1>4. Wanted # NoProc /\ file' = Wanted /\ kept' = kept \cup {Wanted} /\ Wanted' = Wanted
      => Record!Next
  BY <1>1 DEF Record!Next, Record!Changes, Kept
<1>5. Wanted # NoProc /\ file = Wanted /\ kept' = {file} /\ Wanted' = NoProc /\ file' = file
      => Record!Next
  BY <1>1 DEF Record!Next, Record!Commits, Kept
<1>6. Wanted # NoProc /\ Wanted' = NoProc /\ UNCHANGED <<file, kept>> => Record!Next
  BY <1>1 DEF Record!Next, Record!Fails, Kept
<1>7. file' \in kept /\ kept' = {file'} /\ Wanted' = NoProc => Record!Next
  BY <1>1 DEF Record!Next, Record!PowerLoss, Kept
<1>8. \A p \in Procs : holder = p => Wanted = target /\ target \in 0..MaxWrites /\ Wanted # NoProc
  BY StateFileAssumption DEF IInv, FileInv
<1>9. ASSUME NEW p \in Procs, Acts(p) PROVE [Record!Next]_(Record!record)
  <2> USE <1>9 DEF vars, dirVars, fileVars, procVars, lockVars
  <2>1. CASE Ends(p) /\ UNCHANGED fileVars
    <3>1. CASE holder = p
      <4>1. Wanted' = NoProc BY <2>1, <3>1 DEF Ends
      <4> QED BY <4>1, <2>1, <3>1, <1>6, <1>8
    <3>2. CASE holder # p
      <4>1. UNCHANGED <<file, kept, Wanted>> BY <2>1, <3>2 DEF Ends
      <4> QED BY <4>1, <1>2
    <3> QED BY <3>1, <3>2
  <2>2. CASE UNCHANGED <<fileVars, lockVars>>
    BY <2>2, <1>2
  <2>3. CASE \E o \in Ops : Begins(p, o)
    BY <2>2, <2>3 DEF Begins
  <2>4. CASE OpensComponent(p) BY <2>2, <2>4 DEF OpensComponent
  <2>6. CASE MakesComponent(p) BY <2>2, <2>6 DEF MakesComponent
  <2>7. CASE EntersComponent(p) BY <2>2, <2>7 DEF EntersComponent
  <2>8. CASE Arrives(p)
    <3>1. (Ends(p) \/ UNCHANGED lockVars) /\ UNCHANGED fileVars
      BY <2>8 DEF Arrives
    <3> QED BY <2>1, <2>2, <3>1
  <2>9. CASE TakesLock(p)
    <3>1. holder = NoProc /\ holder' = p /\ p # NoProc /\ UNCHANGED <<file, kept>>
      BY <2>9, StateFileAssumption DEF TakesLock
    <3>2. target' \in 0..MaxWrites BY DEF IInv, FileInv
    <3> QED BY <3>1, <3>2, <1>3
  <2>10. CASE FlushesFile(p)
    <3>1. UNCHANGED <<file, kept, holder, target>> BY <2>10 DEF FlushesFile
    <3> QED BY <3>1, <1>2
  <2>11. CASE ReplacesFile(p)
    <3>1. holder = p BY <2>11 DEF ReplacesFile, IInv, HolderInv
    <3>2. file' = target /\ kept' = kept \cup {target} /\ UNCHANGED <<holder, target>>
      BY <2>11 DEF ReplacesFile, Points
    <3> QED BY <3>1, <3>2, <1>4, <1>8
  <2>12. CASE RemovesFile(p)
    <3>1. holder = p /\ target = Absent
      BY <2>12 DEF RemovesFile, IInv, HolderInv, FileInv
    <3>2. file' = target /\ kept' = kept \cup {target} /\ UNCHANGED <<holder, target>>
      BY <2>12, <3>1 DEF RemovesFile, Points
    <3> QED BY <3>1, <3>2, <1>4, <1>8
  <2>13. CASE SyncsDirectory(p)
    <3>1. holder = p /\ file = target
      BY <2>13 DEF SyncsDirectory, IInv, HolderInv, FileInv
    <3>2. kept' = {file} /\ file' = file /\ holder' = NoProc
      BY <2>13, <3>1 DEF SyncsDirectory, Ends
    <3> QED BY <3>1, <3>2, <1>5, <1>8
  <2>14. CASE Raises(p) BY <2>1, <2>14 DEF Raises
  <2> QED BY <2>3, <2>4, <2>6, <2>7, <2>8, <2>9, <2>10, <2>11, <2>12, <2>13, <2>14
     DEF Acts
<1>10. CASE PowerFails
  <2>1. file' \in kept
    <3>1. PICK d \in 0..depth : d + 1 \notin durable /\ depth' = d
      BY <1>10 DEF PowerFails
    <3>2. CASE d < Depth
      <4>1. d + 1 \in Components
        BY <3>1, <3>2, StateFileAssumption DEF Components, IInv, TypeOK
      <4>2. ~Reached BY <3>1, <4>1 DEF Reached
      <4> QED BY <1>10, <3>1, <3>2, <4>2 DEF PowerFails, IInv, WalkInv
    <3>3. CASE ~(d < Depth)
      <4>1. \E w \in kept : file' = OnCard(w) BY <1>10, <3>1, <3>3 DEF PowerFails
      <4> QED BY <4>1 DEF OnCard, IInv, FileInv
    <3> QED BY <3>2, <3>3
  <2>2. kept' = {file'} /\ Wanted' = NoProc BY <1>10 DEF PowerFails
  <2> QED BY <2>1, <2>2, <1>7
<1>11. CASE UNCHANGED vars
  BY <1>11, <1>2 DEF vars, fileVars, lockVars
<1> QED BY <1>9, <1>10, <1>11 DEF Next, Acts

(***************************************************************************)
(* However processes race to create the directory, whatever raises, dies   *)
(* or loses power (atomic_io.py durable_atomic_write_text, durable_unlink, *)
(* durable_fsync_parent): the file behaves as a durable record.            *)
(***************************************************************************)
THEOREM StateFileImplementsRecord == Spec => ImplementsRecord
<1>1. Init => Record!Init
  BY StateFileAssumption DEF Init, Record!Init, OnCard, Reached, Absent
<1>2. IInv /\ IInv' /\ [Next]_vars => [Record!Next]_(Record!record)
  BY StepRefines
<1> QED BY <1>1, <1>2, StateFileInvariant, PTL DEF Spec, ImplementsRecord, Record!Spec
=============================================================================
