--------------------------- MODULE ServiceProofs ---------------------------
(***************************************************************************)
(* Two arguments about the service that share nothing but this module: its *)
(* checks of the paired clients (PairedCache), for any number of changes   *)
(* and of failing system calls, and its end (Lifecycle), for any number of *)
(* address changes and of failing announcements.                           *)
(*                                                                         *)
(* A check never allows a phone on what was true only before it began.  A  *)
(* stamp that was read during the check stands for a store or a marker     *)
(* that was in place at that instant, a store that is made later has       *)
(* another stamp, and what is decided on was read, or compared with what   *)
(* was read, during the check: the cached mapping always belongs to the    *)
(* cached stamp.                                                           *)
(*                                                                         *)
(* While no system call fails, it was all true at one instant.  A chain    *)
(* that is still current says that nothing has changed since the cache was *)
(* filled, and then that instant is the one at which the check began; and  *)
(* of the nine reads of a reload that agree, the middle ones see what the  *)
(* first ones saw, and that instant is the one at which the reset marker   *)
(* was first read.                                                         *)
(*                                                                         *)
(* A life leaves nothing behind.  What run still holds is told by where it *)
(* is and by the exit stack, whose callbacks come off in the order in      *)
(* which the resources depend on each other; a call in the executor is     *)
(* harmless as soon as zeroconf is closed; and a clean-up can be cut short *)
(* only after a failed start, which has no poller yet.                     *)
(*                                                                         *)
(* Two more facts are the safe half of what TLC checks as liveness: only a *)
(* rewalk gives the directory up (UnsafeHasCause), and refresh knows what  *)
(* is announced (KnownToRefresh).                                          *)
(***************************************************************************)
EXTENDS PairedCache, Lifecycle, TLAPS

-----------------------------------------------------------------------------
(* A check of the paired clients.                                           *)

\* All that held at some instant of the check.
Seen == UNION saw

\* Whatever anyone has a stamp of was made by an earlier change.
StampInv ==
    /\ changes \in Stamps
    /\ holding \subseteq 1..changes
    /\ store \in 0..changes /\ legacy \in 0..changes /\ reset \in 0..changes
    /\ clients \in 0..changes /\ read \in 0..changes
    /\ cache \in [{"store", "legacy", "reset"} -> 0..changes]
    /\ before \in [{"store", "legacy", "reset"} -> 0..changes]

\* The mapping is the one that its stamp stands for.
MappingInv ==
    /\ k \in 0..8
    /\ clients = cache.store
    /\ pc = "reload" /\ k >= 4 /\ same => read = before.store

\* What the check has read was so at some instant of it.
SeenInv ==
    /\ pc # "idle" => Facts \in saw
    /\ pc \in {"stamps", "reload", "decide"} => "ours" \in Seen
    /\ pc \in {"stamps", "reload"} /\ before.store \in holding => "enrolled" \in Seen
    /\ pc \in {"stamps", "reload"} /\ k >= 2 /\ before.legacy = 0 => "noLegacy" \in Seen
    /\ pc \in {"stamps", "reload"} /\ k >= 3 /\ before.reset = 0 => "noReset" \in Seen
    /\ pc = "decide" /\ clients \in holding => "enrolled" \in Seen
    /\ pc = "decide" /\ cache.legacy = 0 => "noLegacy" \in Seen
    /\ pc = "decide" /\ cache.reset = 0 => "noReset" \in Seen

IInv == StampInv /\ MappingInv /\ SeenInv /\ AllowedWasAuthorized

Steps ==
    \/ Checks \/ StatsEntry \/ Rewalks \/ ReadsEntry \/ EndsAttempt \/ Decides
    \/ FirstCallFails \/ CallFails

(***************************************************************************)
(* The service starts with nothing read.                                   *)
(***************************************************************************)
LEMMA InitIInv == Init => IInv
  BY CacheAssumption DEF Init, IInv, StampInv, MappingInv, SeenInv, AllowedWasAuthorized, None,
     Stamps, Authorized

(***************************************************************************)
(* A change on the disk makes no old stamp stand for anything new, and the *)
(* check under way sees what then holds.                                   *)
(***************************************************************************)
LEMMA CommandIInv == IInv /\ Commands => IInv'
<1> SUFFICES ASSUME IInv, Commands PROVE IInv' OBVIOUS
<1>1. UNCHANGED <<cacheVars, checkVars>>
  BY DEF Commands, Changed, Touches, Enrolls, Replaces, RaisesMarker, RemovesStore, DropsMarker,
     Substitutes
<1>2. saw \subseteq saw' /\ (pc # "idle" => Facts' \in saw')
  BY DEF Commands, Changed, Touches, Enrolls, Replaces, RaisesMarker, RemovesStore, DropsMarker,
     Substitutes
<1>3. /\ changes' \in Stamps /\ changes \in 0..changes'
      /\ holding' \subseteq holding \cup {changes + 1}
      /\ holding' \subseteq 1..changes'
      /\ store' \in 0..changes' /\ legacy' \in 0..changes' /\ reset' \in 0..changes'
  <2>1. CASE Changed
    <3>1. changes' = changes + 1 /\ changes + 1 \in Stamps
      BY <2>1, CacheAssumption DEF Changed, Stamps, IInv, StampInv
    <3>2. holding' \subseteq holding \cup {changes + 1}
      BY <2>1 DEF Commands, Touches, Enrolls, Replaces, RaisesMarker, RemovesStore, DropsMarker,
         Substitutes
    <3>3. /\ store' \in {store, 0, changes + 1} /\ legacy' \in {legacy, 0}
          /\ reset' \in {reset, 0, changes + 1}
      BY <2>1 DEF Commands, Touches, Enrolls, Replaces, RaisesMarker, RemovesStore, DropsMarker,
         Substitutes
    <3> QED BY <3>1, <3>2, <3>3 DEF IInv, StampInv, Stamps
  <2>2. CASE Substitutes
    BY <2>2 DEF Substitutes, IInv, StampInv, Stamps
  <2> QED BY <2>1, <2>2 DEF Commands, Touches, Enrolls, Replaces, RaisesMarker, RemovesStore,
        DropsMarker
<1>4. \A n \in 0..changes : n \in holding' => n \in holding
  BY <1>3 DEF IInv, StampInv, Stamps
<1>5. Seen \subseteq Seen'
  BY <1>2 DEF Seen
<1>6. StampInv'
  BY <1>1, <1>3 DEF IInv, StampInv, cacheVars, checkVars, Stamps
<1>7. MappingInv'
  BY <1>1 DEF IInv, MappingInv, cacheVars, checkVars
<1>8. before.store \in 0..changes /\ clients \in 0..changes
  BY DEF IInv, StampInv
<1>9. SeenInv'
  BY <1>1, <1>2, <1>4, <1>5, <1>8 DEF IInv, SeenInv, cacheVars, checkVars
<1>10. AllowedWasAuthorized'
  BY <1>1, <1>2 DEF IInv, AllowedWasAuthorized, checkVars
<1> QED BY <1>6, <1>7, <1>9, <1>10 DEF IInv

(***************************************************************************)
(* A step of a check: what it reads now is so now.                         *)
(***************************************************************************)
LEMMA StepIInv == IInv /\ Steps => IInv'
<1> SUFFICES ASSUME IInv, Steps PROVE IInv' OBVIOUS
<1> USE DEF IInv
<1>1. UNCHANGED diskVars /\ Facts' = Facts
  BY DEF Steps, Checks, StatsEntry, Rewalks, ReadsEntry, EndsAttempt, Decides,
     FirstCallFails, CallFails, diskVars, Facts
<1>2. /\ store \in holding => "enrolled" \in Facts
      /\ legacy = 0 => "noLegacy" \in Facts
      /\ reset = 0 => "noReset" \in Facts
      /\ place = "ours" => "ours" \in Facts
  BY DEF Facts
<1>3. 0 \notin holding /\ None \in [{"store", "legacy", "reset"} -> 0..changes]
      /\ None.store = 0 /\ changes \in Nat
  BY DEF StampInv, Stamps, None
<1>f. ASSUME Facts \in saw PROVE Facts \subseteq Seen
  BY <1>f DEF Seen
<1>s. ASSUME saw' = saw PROVE Seen' = Seen
  BY <1>s DEF Seen
<1>4. CASE Checks
  <2>1. saw' = {Facts} BY <1>4 DEF Checks
  <2>2. pc' \in {"idle", "reload", "stamps", "rewalk"} /\ k' = 0 /\ before' = None /\ read' = 0
        /\ verdict' \in {"none", "deny"}
    BY <1>4 DEF Checks, Goes, Answers
  <2>3. pc' \in {"stamps", "reload"} => place = "ours"
    BY <1>4 DEF Checks, Goes, Answers, ChainIsCurrent
  <2>4. UNCHANGED <<clients, cache>> \/ (clients' = 0 /\ cache' = None)
    BY <1>4 DEF Checks, Forgets
  <2>5. StampInv' BY <1>1, <1>3, <2>2, <2>4 DEF StampInv, diskVars
  <2>6. MappingInv' BY <2>2, <2>4, <1>3 DEF MappingInv
  <2>7. Facts' \in saw' /\ (place = "ours" => "ours" \in Seen')
    BY <1>1, <1>2, <2>1 DEF Seen
  <2>8. before'.store \notin holding' BY <1>1, <1>3, <2>2 DEF diskVars
  <2>9. SeenInv' BY <2>2, <2>3, <2>7, <2>8 DEF SeenInv
  <2> QED BY <2>2, <2>9, <2>5, <2>6 DEF AllowedWasAuthorized
<1>5. CASE StatsEntry
  <2> DEFINE now == [before EXCEPT ![Entry(k)] = Disk[Entry(k)]]
  <2>1. pc = "stamps" /\ UNCHANGED <<clients, cache, saw>> BY <1>5 DEF StatsEntry, cacheVars
  <2>2. Facts \in saw BY <2>1 DEF SeenInv
  <2>s. Facts \subseteq Seen BY <2>2, <1>f
  <2>p. Seen' = Seen BY <2>1, <1>s
  <2>r. /\ "ours" \in Seen
        /\ before.store \in holding => "enrolled" \in Seen
        /\ k >= 2 /\ before.legacy = 0 => "noLegacy" \in Seen
        /\ k >= 3 /\ before.reset = 0 => "noReset" \in Seen
    BY <2>1 DEF SeenInv
  <2>3. now \in [{"store", "legacy", "reset"} -> 0..changes]
    BY DEF StampInv, Entry, Disk
  <2>4. /\ now.store \in holding => "enrolled" \in Seen
        /\ k >= 1 /\ now.legacy = 0 => "noLegacy" \in Seen
        /\ k >= 2 /\ now.reset = 0 => "noReset" \in Seen
    <3>1. /\ now.store \in {before.store, store}
          /\ k = 1 => now.legacy = legacy
          /\ k >= 2 => now.legacy \in {before.legacy, legacy}
          /\ k = 2 => now.reset = reset
          /\ k >= 3 => now.reset \in {before.reset, reset}
      BY DEF StampInv, MappingInv, Entry, Disk
    <3> QED BY <3>1, <2>s, <2>r, <1>2 DEF MappingInv
  <2>5. CASE k < 2
    <3>1. k' = k + 1 /\ before' = now /\ UNCHANGED <<pc, try, read, same, verdict>>
      BY <1>5, <2>5 DEF StatsEntry
    <3>2. StampInv' BY <1>1, <2>1, <2>3, <3>1 DEF StampInv, diskVars
    <3>3. MappingInv' BY <2>1, <2>5, <3>1 DEF MappingInv
    <3>4. SeenInv'
      <4>1. k \in Nat BY DEF MappingInv
      <4>2. Facts' \in saw' /\ holding' = holding BY <1>1, <2>1, <2>2 DEF diskVars
      <4> QED BY <2>1, <2>4, <2>5, <2>p, <2>r, <3>1, <4>1, <4>2 DEF SeenInv
    <3> QED BY <2>1, <3>1, <3>2, <3>3, <3>4 DEF AllowedWasAuthorized
  <2>6. CASE ~(k < 2)
    <3>1. k >= 2 BY <2>6 DEF MappingInv
    <3>2. /\ pc' = (IF now = cache THEN "decide" ELSE "rewalk") /\ k' = 0 /\ before' = None
          /\ read' = 0 /\ verdict' = "none"
      BY <1>5, <2>6 DEF StatsEntry, Goes
    <3>3. StampInv' BY <1>1, <1>3, <2>1, <3>2 DEF StampInv, diskVars
    <3>4. MappingInv' BY <2>1, <3>2 DEF MappingInv
    <3>5. SeenInv'
      <4>1. Facts' \in saw' /\ holding' = holding BY <1>1, <2>1, <2>2 DEF diskVars
      <4>2. now = cache => clients = now.store BY DEF MappingInv
      <4>3. CASE now = cache
        <5> HIDE DEF now
        <5>1. pc' = "decide" BY <3>2, <4>3
        <5>2. /\ clients' \in holding => "enrolled" \in Seen
              /\ cache'.legacy = 0 => "noLegacy" \in Seen
              /\ cache'.reset = 0 => "noReset" \in Seen
          BY <2>1, <2>4, <3>1, <4>1, <4>2, <4>3 DEF MappingInv
        <5> QED BY <2>p, <2>r, <4>1, <5>1, <5>2 DEF SeenInv
      <4>4. CASE now # cache
        BY <3>2, <4>1, <4>4 DEF SeenInv
      <4> QED BY <4>3, <4>4
    <3> QED BY <3>2, <3>3, <3>4, <3>5 DEF AllowedWasAuthorized
  <2> QED BY <2>5, <2>6
<1>6. CASE Rewalks
  <2>1. pc = "rewalk" /\ saw' = saw BY <1>6 DEF Rewalks
  <2>2. Facts \in saw BY <2>1 DEF SeenInv
  <2>3. pc' \in {"idle", "reload"} /\ k' = 0 /\ before' = None /\ read' = 0
        /\ verdict' \in {"none", "deny"}
    BY <1>6 DEF Rewalks, Goes, Answers
  <2>4. pc' = "reload" => place = "ours"
    BY <1>6 DEF Rewalks, Answers
  <2>5. UNCHANGED <<clients, cache>> \/ (clients' = 0 /\ cache' = None)
    BY <1>6 DEF Rewalks, Forgets
  <2>6. StampInv' BY <1>1, <1>3, <2>3, <2>5 DEF StampInv, diskVars
  <2>7. MappingInv' BY <2>3, <2>5, <1>3 DEF MappingInv
  <2>8. Facts' \in saw' /\ before'.store \notin holding'
    BY <1>1, <1>3, <2>1, <2>2, <2>3 DEF diskVars
  <2>9. place = "ours" => "ours" \in Seen' BY <1>2, <1>f, <1>s, <2>1, <2>2
  <2>10. SeenInv' BY <2>3, <2>4, <2>8, <2>9 DEF SeenInv
  <2> QED BY <2>3, <2>6, <2>7, <2>10 DEF AllowedWasAuthorized
<1>7. CASE ReadsEntry
  <2>1. /\ pc = "reload" /\ k < 8 /\ k' = k + 1
        /\ UNCHANGED <<clients, cache, pc, verdict, saw>>
        /\ read' = IF k = 3 THEN store ELSE read
    BY <1>7 DEF ReadsEntry, cacheVars
  <2>2. Facts \in saw BY <2>1 DEF SeenInv
  <2>s. Facts \subseteq Seen BY <2>2, <1>f
  <2>p. Seen' = Seen BY <2>1, <1>s
  <2>q. Facts' \in saw' /\ holding' = holding BY <1>1, <2>1, <2>2 DEF diskVars
  <2>r. /\ "ours" \in Seen /\ k \in Nat
        /\ before.store \in holding => "enrolled" \in Seen
        /\ k >= 2 /\ before.legacy = 0 => "noLegacy" \in Seen
        /\ k >= 3 /\ before.reset = 0 => "noReset" \in Seen
    BY <2>1 DEF SeenInv, MappingInv
  <2>3. CASE k < 3
    <3>1. before' = [before EXCEPT ![Entry(k)] = Disk[Entry(k)]] /\ same' = same
      BY <1>7, <2>3 DEF ReadsEntry
    <3>2. StampInv' BY <1>1, <2>1, <2>3, <3>1 DEF StampInv, Entry, Disk, diskVars
    <3>3. MappingInv' BY <2>1, <2>3, <3>1 DEF MappingInv
    <3>4. /\ before'.store \in {before.store, store}
          /\ k = 1 => before'.legacy = legacy
          /\ k = 2 => before'.legacy = before.legacy /\ before'.reset = reset
      BY <3>1 DEF StampInv, Entry, Disk
    <3>5. SeenInv'
      BY <1>2, <2>1, <2>3, <2>s, <2>p, <2>q, <2>r, <3>4 DEF SeenInv
    <3> QED BY <2>1, <3>2, <3>3, <3>5 DEF AllowedWasAuthorized
  <2>4. CASE ~(k < 3)
    <3>1. (same' => same /\ Agrees(k)) /\ before' = before
      BY <1>7, <2>4 DEF ReadsEntry
    <3>2. k = 3 => (Agrees(k) <=> store = before.store)
      BY DEF Agrees, Entry, Disk
    <3>3. StampInv' BY <1>1, <2>1, <3>1 DEF StampInv, diskVars
    <3>4. MappingInv'
      <4>1. CASE k = 3
        BY <2>1, <3>1, <3>2, <4>1 DEF MappingInv
      <4>2. CASE k >= 4
        BY <2>1, <3>1, <4>2 DEF MappingInv
      <4> QED BY <2>4, <2>r, <4>1, <4>2
    <3>5. SeenInv'
      BY <2>1, <2>4, <2>p, <2>q, <2>r, <3>1 DEF SeenInv
    <3> QED BY <2>1, <3>3, <3>4, <3>5 DEF AllowedWasAuthorized
  <2> QED BY <2>3, <2>4
<1>8. CASE EndsAttempt
  <2>1. pc = "reload" /\ k = 8 /\ saw' = saw BY <1>8 DEF EndsAttempt
  <2>2. k' = 0 /\ before' = None /\ read' = 0
    BY <1>8 DEF EndsAttempt, Goes, Answers
  <2>3. \/ /\ same /\ clients' = read /\ cache' = before /\ pc' = "decide" /\ verdict' = "none"
        \/ pc' = "reload" /\ UNCHANGED <<clients, cache, verdict>>
        \/ pc' = "idle" /\ verdict' = "deny" /\ UNCHANGED <<clients, cache>>
    BY <1>8 DEF EndsAttempt, Goes, Answers
  <2>4. StampInv' BY <1>1, <1>3, <2>2, <2>3 DEF StampInv, diskVars
  <2>5. MappingInv' BY <2>1, <2>2, <2>3 DEF MappingInv
  <2>6. Facts' \in saw' /\ holding' = holding /\ before'.store \notin holding
    BY <1>1, <1>3, <2>1, <2>2 DEF diskVars, SeenInv
  <2>7. /\ "ours" \in Seen
        /\ before.store \in holding => "enrolled" \in Seen
        /\ before.legacy = 0 => "noLegacy" \in Seen
        /\ before.reset = 0 => "noReset" \in Seen
        /\ same => read = before.store
    BY <2>1 DEF SeenInv, MappingInv
  <2>8. Seen' = Seen BY <2>1, <1>s
  <2>9. SeenInv'
    BY <2>2, <2>3, <2>6, <2>7, <2>8 DEF SeenInv
  <2> QED BY <2>1, <2>3, <2>4, <2>5, <2>9 DEF AllowedWasAuthorized
<1>9. CASE Decides
  <2>1. pc = "decide" /\ pc' = "idle" /\ k' = 0 /\ before' = None /\ read' = 0
        /\ UNCHANGED <<clients, cache, saw>>
    BY <1>9 DEF Decides, Answers, cacheVars
  <2>2. verdict' = "allow" => cache.legacy = 0 /\ cache.reset = 0 /\ clients \in holding
    BY <1>9 DEF Decides, Answers
  <2>3. StampInv' BY <1>1, <1>3, <2>1 DEF StampInv, diskVars
  <2>4. MappingInv' BY <2>1 DEF MappingInv
  <2>5. SeenInv' BY <2>1 DEF SeenInv
  <2>6. AllowedWasAuthorized'
    BY <2>1, <2>2 DEF AllowedWasAuthorized, SeenInv, Seen, Authorized
  <2> QED BY <2>3, <2>4, <2>5, <2>6
<1>10. CASE CallFails
  <2>1. pc' = "idle" /\ verdict' = "deny" /\ k' = 0 /\ before' = None /\ read' = 0 /\ saw' = saw
    BY <1>10 DEF CallFails, Answers
  <2>2. UNCHANGED <<clients, cache>> \/ (clients' = 0 /\ cache' = None)
    BY <1>10 DEF CallFails, Forgets, cacheVars
  <2>3. StampInv' BY <1>1, <1>3, <2>1, <2>2 DEF StampInv, diskVars
  <2>4. MappingInv' BY <2>1, <2>2, <1>3 DEF MappingInv
  <2> QED BY <2>1, <2>3, <2>4 DEF SeenInv, AllowedWasAuthorized
<1>11. CASE FirstCallFails
  <2>1. saw' = {Facts} /\ pc' \in {"idle", "rewalk"} /\ verdict' \in {"none", "deny"}
        /\ k' = 0 /\ before' = None /\ read' = 0
    BY <1>11 DEF FirstCallFails, Goes, Answers
  <2>2. UNCHANGED <<clients, cache>>
    BY <1>11 DEF FirstCallFails, cacheVars
  <2>3. StampInv' BY <1>1, <1>3, <2>1, <2>2 DEF StampInv, diskVars
  <2>4. MappingInv' BY <2>1, <2>2 DEF MappingInv
  <2>5. SeenInv' BY <1>1, <2>1 DEF SeenInv
  <2> QED BY <2>1, <2>3, <2>4, <2>5 DEF AllowedWasAuthorized
<1> QED BY <1>4, <1>5, <1>6, <1>7, <1>8, <1>9, <1>10, <1>11 DEF Steps

(***************************************************************************)
(* Whoever takes it, a step keeps the invariant.                           *)
(***************************************************************************)
LEMMA NextIInv == IInv /\ [Next]_vars => IInv'
<1> SUFFICES ASSUME IInv, [Next]_vars PROVE IInv'
  OBVIOUS
<1>1. CASE Next
  BY <1>1, CommandIInv, StepIInv DEF Next, CheckSteps, Steps
<1>2. CASE UNCHANGED vars
  BY <1>2 DEF IInv, StampInv, MappingInv, SeenInv, AllowedWasAuthorized, Seen, Facts, vars,
     diskVars, cacheVars, checkVars
<1> QED
  BY <1>1, <1>2

(***************************************************************************)
(* Whatever commands do while a check reads the directory, and whichever   *)
(* reads fail (PairedClients.authorizes): an allowance rests on facts that *)
(* held during the check.                                                  *)
(***************************************************************************)
THEOREM PairedCacheAllowed == Spec => []AllowedWasAuthorized
<1>1. IInv => AllowedWasAuthorized
  BY DEF IInv
<1> QED
  BY InitIInv, NextIInv, <1>1, PTL DEF Spec

-----------------------------------------------------------------------------
(* The same, at one instant.                                                *)

\* While nothing fails, a chain that is current stands for the cache, and for all a reload has read.
ChainInv ==
    /\ errors = 0 /\ chain = changes /\ pc \in {"idle", "stamps", "decide"} => cache = Disk
    /\ pc = "reload" /\ chain = changes =>
          /\ same
          /\ k >= 1 => before.store = store
          /\ k >= 2 => before.legacy = legacy
          /\ k >= 3 => before.reset = reset
          /\ k >= 4 => read = store

\* An entry of a directory that is gone from its path is what it was when the path still led there.
PathInv == pc = "reload" => place # "missing" /\ Facts \cup {"ours"} \in saw

\* A legacy marker that is gone stays away.
MarkerInv == pc = "reload" /\ k >= 2 /\ before.legacy = 0 => legacy = 0

\* An attempt whose reads agree has met everything it read at one instant: when it read the reset
\* marker - unless the store had changed by then, which its next read finds out.
AttemptInv ==
    pc = "reload" /\ k >= 3 /\ same
        /\ before.store \in holding /\ before.legacy = 0 /\ before.reset = 0
    => Authorized \in saw \/ (k = 3 /\ store # before.store)

CachedInv ==
    pc \in {"stamps", "decide"} /\ errors = 0
        /\ clients \in holding /\ cache.legacy = 0 /\ cache.reset = 0
    => Authorized \in saw

OnceInv ==
    /\ errors \in Nat /\ chain \in 0..changes \cup {NoChain}
    /\ ChainInv /\ PathInv /\ MarkerInv /\ AttemptInv /\ CachedInv /\ AllowedAtOnce

(***************************************************************************)
(* Nothing is cached and no check is under way.                            *)
(***************************************************************************)
LEMMA InitOnceInv == Init => OnceInv
BY CacheAssumption DEF Init, OnceInv, ChainInv, PathInv, MarkerInv, AttemptInv, CachedInv,
   AllowedAtOnce, NoChain, Stamps

(***************************************************************************)
(* A change makes the retained chain stale, so that the cache stands for   *)
(* nothing, and takes no instant away that the check has met.              *)
(***************************************************************************)
LEMMA CommandOnceInv == IInv /\ OnceInv /\ Commands => OnceInv'
<1> SUFFICES ASSUME IInv, OnceInv, Commands PROVE OnceInv'
  OBVIOUS
<1>1. UNCHANGED <<cacheVars, checkVars, errors>>
  BY DEF Commands, Changed, Touches, Enrolls, Replaces, RaisesMarker, RemovesStore, DropsMarker,
     Substitutes
<1>2. saw \subseteq saw' /\ (pc # "idle" => Facts' \in saw') /\ (pc = "idle" => saw' = saw)
  BY DEF Commands, Changed, Touches, Enrolls, Replaces, RaisesMarker, RemovesStore, DropsMarker,
     Substitutes
<1>3. /\ changes \in 0..MaxChanges /\ MaxChanges \in Nat
      /\ holding \subseteq 1..changes /\ clients \in 0..changes /\ before.store \in 0..changes
      /\ (pc # "idle" => Facts \in saw)
  BY CacheAssumption DEF IInv, StampInv, SeenInv, Stamps
<1>4. \/ UNCHANGED <<store, legacy, reset, holding, changes>> /\ place = "ours" /\ place' = "other"
      \/ UNCHANGED <<store, legacy, reset, holding>> /\ changes' = changes + 1
         /\ changes' \in 0..MaxChanges /\ place' = (IF place = "missing" THEN "ours" ELSE place)
      \/ /\ place = "ours" /\ place' = "ours" /\ changes' = changes + 1
         /\ changes' \in 0..MaxChanges
         /\ holding' \subseteq holding \cup {changes + 1}
         /\ store' \in {store, 0, changes + 1} /\ legacy' \in {legacy, 0}
  <2>1. Changed => changes' = changes + 1 /\ changes' \in 0..MaxChanges
    BY <1>3 DEF Changed
  <2>2. CASE Touches
    BY <2>1, <2>2 DEF Touches
  <2>3. CASE Substitutes
    BY <2>3 DEF Substitutes
  <2>4. CASE Enrolls \/ Replaces
    BY <2>1, <2>4 DEF Enrolls, Replaces
  <2>5. CASE RaisesMarker \/ RemovesStore
    BY <2>1, <2>5 DEF RaisesMarker, RemovesStore
  <2>6. CASE DropsMarker
    BY <2>1, <2>6 DEF DropsMarker
  <2> QED
    BY <2>2, <2>3, <2>4, <2>5, <2>6 DEF Commands
<1>5. /\ chain' = chain /\ clients' = clients /\ cache' = cache /\ pc' = pc /\ k' = k
      /\ before' = before /\ read' = read /\ same' = same /\ verdict' = verdict /\ errors' = errors
  BY <1>1 DEF cacheVars, checkVars
<1>6. /\ legacy = 0 => legacy' = 0
      /\ \A n \in 0..changes : n \in holding' => n \in holding
      /\ \A n \in 1..changes : store # n => store' # n
  BY <1>3, <1>4
<1>7. ChainInv' /\ errors' \in Nat /\ chain' \in 0..changes' \cup {NoChain}
  <2>1. chain \in 0..changes \cup {NoChain} /\ NoChain = MaxChanges + 1 /\ errors \in Nat
    BY DEF OnceInv, NoChain
  <2>2. chain' = changes' => UNCHANGED <<store, legacy, reset, changes>>
    BY <1>3, <1>4, <1>5, <2>1
  <2>3. chain' \in 0..changes' \cup {NoChain}
    BY <1>3, <1>4, <1>5, <2>1
  <2>4. ChainInv'
    BY <1>5, <2>2 DEF OnceInv, ChainInv, Disk
  <2> QED
    BY <1>5, <2>1, <2>3, <2>4
<1>8. PathInv'
  <2> SUFFICES ASSUME pc = "reload" PROVE place' # "missing" /\ Facts' \cup {"ours"} \in saw'
    BY <1>5 DEF PathInv
  <2>1. place # "missing" /\ Facts \cup {"ours"} \in saw
    BY DEF OnceInv, PathInv
  <2>2. place' # "missing"
    BY <1>4, <2>1
  <2>3. CASE place' = "ours"
    <3>1. Facts' \cup {"ours"} = Facts'
      BY <2>3 DEF Facts
    <3> QED
      BY <1>2, <2>2, <3>1
  <2>4. CASE place' # "ours"
    <3>1. UNCHANGED <<store, legacy, reset, holding>>
      BY <1>4, <2>1, <2>4
    <3>2. Facts' \cup {"ours"} = Facts \cup {"ours"}
      BY <3>1 DEF Facts
    <3> QED
      BY <1>2, <2>1, <2>2, <3>2
  <2> QED
    BY <2>3, <2>4
<1>9. MarkerInv'
  BY <1>5, <1>6 DEF OnceInv, MarkerInv
<1>10. AttemptInv'
  <2>1. before.store \in holding' => before.store \in holding /\ before.store \in 1..changes
    BY <1>3, <1>6
  <2> QED
    BY <1>2, <1>5, <1>6, <2>1 DEF OnceInv, AttemptInv
<1>11. CachedInv'
  BY <1>2, <1>3, <1>5, <1>6 DEF OnceInv, CachedInv
<1>12. AllowedAtOnce'
  BY <1>2, <1>5 DEF OnceInv, AllowedAtOnce
<1> QED
  BY <1>7, <1>8, <1>9, <1>10, <1>11, <1>12 DEF OnceInv

(***************************************************************************)
(* A step of a check: the disk stays as it is, and what the step finds     *)
(* current, or agreeing with its earlier reads, dates from one instant.    *)
(***************************************************************************)
LEMMA StepOnceInv == IInv /\ OnceInv /\ Steps => OnceInv'
<1> SUFFICES ASSUME IInv, OnceInv, Steps PROVE OnceInv'
  OBVIOUS
<1>1. UNCHANGED <<store, legacy, reset, holding, changes, place>> /\ Facts' = Facts
  BY DEF Steps, Checks, StatsEntry, Rewalks, ReadsEntry, EndsAttempt, Decides,
     FirstCallFails, CallFails, diskVars, Facts
<1>2. /\ 0 \notin holding /\ changes \in 0..MaxChanges /\ NoChain = MaxChanges + 1
      /\ MaxChanges \in Nat /\ None.store = 0 /\ k \in 0..8 /\ clients = cache.store
      /\ errors \in Nat /\ chain \in 0..changes \cup {NoChain}
      /\ (pc # "idle" => Facts \in saw)
      /\ (pc = "reload" /\ k >= 4 /\ same => read = before.store)
      /\ before \in [{"store", "legacy", "reset"} -> 0..changes]
  BY CacheAssumption DEF IInv, StampInv, MappingInv, SeenInv, OnceInv, None, NoChain, Stamps
<1>3. Facts \cup {"ours"} = Authorized <=> store \in holding /\ legacy = 0 /\ reset = 0
  BY DEF Facts, Authorized
<1>4. CASE Checks
  <2>1. saw' = {Facts} /\ errors' = errors
    BY <1>4 DEF Checks
  <2>2. /\ pc' \in {"idle", "stamps", "rewalk", "reload"} /\ k' = 0
        /\ before' = None /\ same' = TRUE /\ verdict' \in {"none", "deny"}
    BY <1>4 DEF Checks, Goes, Answers
  <2>3. \/ pc' = "stamps" /\ UNCHANGED <<clients, cache, chain>> /\ ChainIsCurrent /\ pc = "idle"
        \/ pc' = "rewalk" /\ UNCHANGED <<clients, cache, chain>>
        \/ pc' = "reload" /\ chain' = changes /\ place = "ours"
        \/ pc' = "idle" /\ UNCHANGED <<clients, cache, chain>> /\ pc = "idle"
        \/ pc' = "idle" /\ chain' = NoChain
    BY <1>4 DEF Checks, Goes, Answers
  <2>4. chain' \in 0..changes' \cup {NoChain}
    BY <1>1, <1>2, <2>3
  <2>5. ChainInv'
    BY <1>1, <1>2, <2>1, <2>2, <2>3 DEF OnceInv, ChainInv, Disk
  <2>6. PathInv'
    <3>1. place = "ours" => Facts \cup {"ours"} = Facts
      BY DEF Facts
    <3> QED
      BY <1>1, <2>1, <2>3, <3>1 DEF PathInv
  <2>7. CachedInv'
    <3>1. pc' = "stamps" /\ errors = 0 => cache = Disk /\ place = "ours"
      BY <2>3 DEF OnceInv, ChainInv, ChainIsCurrent
    <3>2. cache = Disk => cache.store = store /\ cache.legacy = legacy /\ cache.reset = reset
      BY DEF Disk
    <3>3. place = "ours" => Facts \cup {"ours"} = Facts
      BY DEF Facts
    <3> QED
      BY <1>1, <1>2, <1>3, <2>1, <2>2, <2>3, <3>1, <3>2, <3>3 DEF CachedInv
  <2> QED
    BY <1>2, <2>1, <2>2, <2>4, <2>5, <2>6, <2>7 DEF OnceInv, MarkerInv, AttemptInv, AllowedAtOnce
<1>5. CASE StatsEntry
  <2>1. pc = "stamps" /\ UNCHANGED <<clients, cache, chain, saw, errors>>
    BY <1>5 DEF StatsEntry, cacheVars
  <2>2. pc' \in {"stamps", "decide", "rewalk"}
    BY <1>5 DEF StatsEntry, Goes
  <2>3. verdict' \in {verdict, "none"}
    BY <1>5 DEF StatsEntry, Goes
  <2>4. ChainInv' /\ PathInv' /\ MarkerInv' /\ AttemptInv'
    BY <1>1, <2>1, <2>2 DEF OnceInv, ChainInv, PathInv, MarkerInv, AttemptInv, Disk
  <2>5. CachedInv' /\ AllowedAtOnce'
    BY <1>1, <2>1, <2>2, <2>3 DEF OnceInv, CachedInv, AllowedAtOnce
  <2> QED
    BY <1>1, <1>2, <2>1, <2>4, <2>5 DEF OnceInv
<1>6. CASE Rewalks
  <2>1. pc = "rewalk" /\ UNCHANGED <<saw, errors>>
    BY <1>6 DEF Rewalks
  <2>2. \/ place = "ours" /\ chain' = changes /\ pc' = "reload" /\ k' = 0 /\ same' = TRUE
           /\ verdict' = "none"
        \/ chain' = NoChain /\ pc' = "idle" /\ verdict' = "deny"
    BY <1>6 DEF Rewalks, Goes, Answers
  <2>3. ChainInv'
    BY <1>1, <1>2, <2>2 DEF ChainInv
  <2>4. PathInv'
    <3>1. place = "ours" => Facts \cup {"ours"} = Facts
      BY DEF Facts
    <3> QED
      BY <1>1, <1>2, <2>1, <2>2, <3>1 DEF PathInv
  <2>5. chain' \in 0..changes' \cup {NoChain}
    BY <1>1, <1>2, <2>2
  <2> QED
    BY <1>2, <2>1, <2>2, <2>3, <2>4, <2>5
       DEF OnceInv, MarkerInv, AttemptInv, CachedInv, AllowedAtOnce
<1>7. CASE ReadsEntry
  <2>1. /\ pc = "reload" /\ k < 8 /\ k' = k + 1 /\ read' = (IF k = 3 THEN store ELSE read)
        /\ UNCHANGED <<clients, cache, chain, pc, verdict, saw, errors>>
    BY <1>7 DEF ReadsEntry, cacheVars
  <2>2. k < 3 => before' = [before EXCEPT ![Entry(k)] = Disk[Entry(k)]] /\ same' = same
    BY <1>7 DEF ReadsEntry
  <2>3. /\ ~(k < 3) => before' = before
        /\ ~(k < 3) /\ same' => same /\ Agrees(k)
        /\ ~(k < 3) /\ same /\ Agrees(k) => same'
    <3>1. CASE k < 3
      BY <3>1
    <3>2. CASE ~(k < 3)
      <4>1. same' = (same /\ Agrees(k)) /\ before' = before
        BY <1>7, <3>2 DEF ReadsEntry
      <4> QED
        BY <3>2, <4>1
    <3> QED
      BY <3>1, <3>2
  <2>4. /\ k = 0 => before'.store = store
        /\ k = 1 => before'.legacy = legacy /\ before'.store = before.store
        /\ k = 2 => before'.reset = reset /\ before'.store = before.store
                    /\ before'.legacy = before.legacy
        /\ k >= 3 => before' = before
    BY <1>2, <2>2, <2>3 DEF Entry, Disk
  <2>5. /\ k \in {3, 6} => (Agrees(k) <=> store = before.store)
        /\ k \in {4, 7} => (Agrees(k) <=> legacy = before.legacy)
        /\ k \in {5, 8} => (Agrees(k) <=> reset = before.reset)
    BY DEF Agrees, Entry, Disk
  <2>6. ChainInv'
    <3> SUFFICES ASSUME chain = changes
                 PROVE  /\ same' /\ before'.store = store
                        /\ k >= 1 => before'.legacy = legacy
                        /\ k >= 2 => before'.reset = reset
                        /\ k >= 3 => read' = store
      BY <1>1, <1>2, <2>1 DEF ChainInv
    <3>1. /\ same /\ (k >= 1 => before.store = store) /\ (k >= 2 => before.legacy = legacy)
          /\ (k >= 3 => before.reset = reset) /\ (k >= 4 => read = store)
      BY <2>1 DEF OnceInv, ChainInv
    <3>2. same'
      <4>1. CASE k < 3
        BY <2>2, <3>1, <4>1
      <4>2. CASE k \in {3, 4, 5, 6, 7}
        <5>1. before.store = store /\ before.legacy = legacy /\ before.reset = reset
          BY <3>1, <4>2
        <5>2. Agrees(k)
          BY <2>5, <4>2, <5>1
        <5>3. same /\ ~(k < 3)
          BY <3>1, <4>2
        <5> QED
          BY <2>3, <5>2, <5>3
      <4> QED
        BY <1>2, <2>1, <4>1, <4>2
    <3>3. k \in {0, 1, 2} \/ k >= 3
      BY <1>2
    <3>4. before'.store = store /\ (k >= 1 => before'.legacy = legacy)
          /\ (k >= 2 => before'.reset = reset) /\ (k >= 3 => read' = store)
      BY <1>2, <2>1, <2>4, <3>1, <3>3
    <3> QED
      BY <3>2, <3>4
  <2>7. PathInv'
    BY <1>1, <2>1 DEF OnceInv, PathInv
  <2>8. MarkerInv'
    <3>1. k \in {0} \/ k = 1 \/ k = 2 \/ k >= 3
      BY <1>2
    <3> QED
      BY <1>1, <1>2, <2>1, <2>4, <3>1 DEF OnceInv, MarkerInv
  <2>9. AttemptInv'
    <3> SUFFICES ASSUME k >= 2, same', before'.store \in holding, before'.legacy = 0,
                        before'.reset = 0
                 PROVE  Authorized \in saw \/ (k = 2 /\ store # before'.store)
      BY <1>1, <1>2, <2>1 DEF AttemptInv
    <3>1. CASE k = 2
      <4>1. legacy = 0 /\ reset = 0
        BY <2>1, <2>4, <3>1 DEF OnceInv, MarkerInv
      <4>2. Facts \cup {"ours"} \in saw
        BY <2>1 DEF OnceInv, PathInv
      <4> QED
        BY <1>3, <3>1, <4>1, <4>2
    <3>2. CASE k >= 3
      <4>1. same /\ Agrees(k) /\ before' = before
        <5>1. ~(k < 3)
          BY <1>2, <3>2
        <5> QED
          BY <2>3, <5>1
      <4>2. Authorized \in saw \/ (k = 3 /\ store # before.store)
        BY <1>2, <2>1, <3>2, <4>1 DEF OnceInv, AttemptInv
      <4> QED
        BY <2>5, <4>1, <4>2
    <3> QED
      BY <1>2, <3>1, <3>2
  <2>10. CachedInv' /\ AllowedAtOnce'
    BY <2>1 DEF OnceInv, CachedInv, AllowedAtOnce
  <2> QED
    BY <1>1, <1>2, <2>1, <2>6, <2>7, <2>8, <2>9, <2>10 DEF OnceInv
<1>8. CASE EndsAttempt
  <2>1. pc = "reload" /\ k = 8 /\ UNCHANGED <<chain, saw, errors>> /\ k' = 0 /\ same' = TRUE
    BY <1>8 DEF EndsAttempt, Goes, Answers
  <2>2. \/ same /\ Agrees(8) /\ clients' = read /\ cache' = before /\ pc' = "decide"
           /\ verdict' = "none"
        \/ /\ ~(same /\ Agrees(8)) /\ UNCHANGED <<clients, cache>>
           /\ pc' = "reload" /\ verdict' = verdict
        \/ ~(same /\ Agrees(8)) /\ UNCHANGED <<clients, cache>> /\ pc' = "idle" /\ verdict' = "deny"
    BY <1>8 DEF EndsAttempt, Goes, Answers
  <2>3. Agrees(8) <=> reset = before.reset
    BY DEF Agrees, Entry, Disk
  <2>4. chain = changes =>
            same /\ before.store = store /\ before.legacy = legacy /\ before.reset = reset
    BY <2>1 DEF OnceInv, ChainInv
  <2>5. ChainInv'
    <3>1. chain = changes => before = Disk
      <4>1. before = [store |-> before.store, legacy |-> before.legacy, reset |-> before.reset]
        BY <1>2
      <4> QED
        BY <2>4, <4>1 DEF Disk
    <3>2. CASE chain = changes
      <4>1. pc' = "decide" /\ cache' = before
        BY <2>2, <2>3, <2>4, <3>2
      <4> QED
        BY <1>1, <3>1, <3>2, <4>1 DEF ChainInv, Disk
    <3>3. CASE chain # changes
      BY <1>1, <2>1, <3>3 DEF ChainInv
    <3> QED
      BY <3>2, <3>3
  <2>6. PathInv'
    BY <1>1, <2>1 DEF OnceInv, PathInv
  <2>7. CachedInv'
    <3>1. same => read = before.store
      BY <1>2, <2>1
    <3>2. same /\ before.store \in holding /\ before.legacy = 0 /\ before.reset = 0
            => Authorized \in saw
      BY <2>1 DEF OnceInv, AttemptInv
    <3> QED
      BY <1>1, <2>1, <2>2, <3>1, <3>2 DEF CachedInv
  <2>8. AllowedAtOnce'
    BY <2>1, <2>2 DEF OnceInv, AllowedAtOnce
  <2> QED
    BY <1>1, <1>2, <2>1, <2>5, <2>6, <2>7, <2>8 DEF OnceInv, MarkerInv, AttemptInv
<1>9. CASE Decides
  <2>1. pc = "decide" /\ pc' = "idle" /\ UNCHANGED <<clients, cache, chain, saw, errors>>
    BY <1>9 DEF Decides, Answers, cacheVars
  <2>2. verdict' = "allow" => cache.legacy = 0 /\ cache.reset = 0 /\ clients \in holding
    BY <1>9 DEF Decides, Answers
  <2>3. ChainInv'
    BY <1>1, <2>1 DEF OnceInv, ChainInv, Disk
  <2>4. AllowedAtOnce'
    BY <2>1, <2>2 DEF OnceInv, CachedInv, AllowedAtOnce
  <2> QED
    BY <1>1, <1>2, <2>1, <2>3, <2>4 DEF OnceInv, PathInv, MarkerInv, AttemptInv, CachedInv
<1>10. CASE CallFails
  <2>1. pc' = "idle" /\ verdict' = "deny" /\ errors' = errors + 1 /\ chain' \in {chain, NoChain}
    BY <1>10 DEF CallFails, Answers, cacheVars
  <2> QED
    BY <1>1, <1>2, <2>1
       DEF OnceInv, ChainInv, PathInv, MarkerInv, AttemptInv, CachedInv, AllowedAtOnce
<1>11. CASE FirstCallFails
  <2>1. pc' \in {"idle", "rewalk"} /\ verdict' \in {"none", "deny"} /\ errors' = errors + 1
        /\ chain' = chain
    BY <1>11 DEF FirstCallFails, Goes, Answers, cacheVars
  <2> QED
    BY <1>1, <1>2, <2>1
       DEF OnceInv, ChainInv, PathInv, MarkerInv, AttemptInv, CachedInv, AllowedAtOnce
<1> QED
  BY <1>4, <1>5, <1>6, <1>7, <1>8, <1>9, <1>10, <1>11 DEF Steps

(***************************************************************************)
(* Whoever takes it, a step keeps both invariants.                         *)
(***************************************************************************)
LEMMA NextOnceInv == IInv /\ OnceInv /\ [Next]_vars => OnceInv'
<1> SUFFICES ASSUME IInv, OnceInv, [Next]_vars PROVE OnceInv'
  OBVIOUS
<1>1. CASE Next
  BY <1>1, CommandOnceInv, StepOnceInv DEF Next, CheckSteps, Steps
<1>2. CASE UNCHANGED vars
  <2>1. /\ UNCHANGED <<store, legacy, reset, holding, changes, place>>
        /\ UNCHANGED <<clients, cache, chain, pc, k, before, read, same, verdict, saw, errors>>
    BY <1>2 DEF vars, diskVars, cacheVars, checkVars
  <2>2. ChainInv' /\ PathInv' /\ MarkerInv'
    BY <2>1 DEF OnceInv, ChainInv, PathInv, MarkerInv, Disk, Facts
  <2>3. AttemptInv' /\ CachedInv' /\ AllowedAtOnce'
    BY <2>1 DEF OnceInv, AttemptInv, CachedInv, AllowedAtOnce
  <2> QED
    BY <2>1, <2>2, <2>3 DEF OnceInv
<1> QED
  BY <1>1, <1>2

(***************************************************************************)
(* A check that races a revoke, an unpair or an enrolment answers as if it *)
(* had come before or after it, as long as no system call fails            *)
(* (PairedClients._refresh_if_changed, _reload_from_directory).            *)
(***************************************************************************)
THEOREM AllowedInOneInstant == Spec => []AllowedAtOnce
<1>1. OnceInv => AllowedAtOnce
  BY DEF OnceInv
<1> QED
  BY InitIInv, NextIInv, InitOnceInv, NextOnceInv, <1>1, PTL DEF Spec

-----------------------------------------------------------------------------
(* Types, and what gives the directory up.                                  *)

(***************************************************************************)
(* The variables of a check have their types at the beginning.             *)
(***************************************************************************)
LEMMA InitTypes == Init => TypeOK
<1> SUFFICES ASSUME Init PROVE TypeOK
  OBVIOUS
<1>1. /\ 0 \in Stamps /\ 1 \in Stamps /\ None \in [{"store", "legacy", "reset"} -> Stamps]
      /\ 0 \in 0..MaxErrors
  BY CacheAssumption DEF Stamps, None
<1>2. /\ Disk \in [{"store", "legacy", "reset"} -> Stamps]
      /\ holding \subseteq Stamps \ {0} /\ changes \in Stamps
  BY <1>1 DEF Init, Disk
<1>3. unsafe \in BOOLEAN /\ same \in BOOLEAN /\ walkFailed \in BOOLEAN
  BY DEF Init
<1>4. /\ clients \in Stamps /\ read \in Stamps /\ cache = None /\ before = None
      /\ saw \subseteq SUBSET Authorized /\ chain \in Stamps \cup {NoChain}
      /\ errors \in 0..MaxErrors /\ k \in 0..8 /\ try \in 1..2
  BY <1>1 DEF Init
<1>5. pc = "idle" /\ verdict = "none" /\ place \in {"missing", "ours", "other"}
  BY DEF Init
<1> QED
  BY <1>1, <1>2, <1>3, <1>4, <1>5 DEF TypeOK

\* The types that the other invariants do not give.
RestInv ==
    /\ place \in {"missing", "ours", "other"} /\ unsafe \in BOOLEAN /\ walkFailed \in BOOLEAN
    /\ pc \in {"idle", "stamps", "rewalk", "reload", "decide"} /\ try \in 1..2
    /\ verdict \in {"none", "allow", "deny"} /\ errors \in 0..MaxErrors

(***************************************************************************)
(* A step keeps the types; the stamps have those of the other invariants.  *)
(***************************************************************************)
LEMMA TypeNext == TypeOK /\ IInv' /\ OnceInv' /\ [Next]_vars => TypeOK'
<1> SUFFICES ASSUME TypeOK, IInv', OnceInv', [Next]_vars PROVE TypeOK'
  OBVIOUS
<1>0. MaxErrors \in Nat
  BY CacheAssumption
<1>1. /\ Disk' \in [{"store", "legacy", "reset"} -> Stamps] /\ holding' \subseteq Stamps \ {0}
      /\ changes' \in Stamps /\ clients' \in Stamps /\ read' \in Stamps
      /\ cache' \in [{"store", "legacy", "reset"} -> Stamps]
      /\ before' \in [{"store", "legacy", "reset"} -> Stamps]
      /\ chain' \in Stamps \cup {NoChain} /\ k' \in 0..8
  <2>1. 0..changes' \subseteq Stamps /\ 1..changes' \subseteq Stamps \ {0} /\ changes' \in Stamps
    BY CacheAssumption DEF IInv, StampInv, Stamps
  <2> QED
    BY <2>1 DEF IInv, StampInv, MappingInv, OnceInv, Disk
<1>2. saw' \subseteq SUBSET Authorized
  <2>1. Facts \subseteq Authorized /\ Facts' \subseteq Authorized
    BY DEF Facts, Authorized
  <2>2. saw' \in {saw, saw \cup {Facts'}, {Facts}}
    BY DEF Next, Commands, CheckSteps, Changed, Touches, Enrolls, Replaces, RaisesMarker,
       RemovesStore, DropsMarker, Substitutes, Checks, StatsEntry, Rewalks, ReadsEntry, EndsAttempt,
       Decides, FirstCallFails, CallFails, vars
  <2> QED
    BY <2>1, <2>2 DEF TypeOK
<1>3. same' \in BOOLEAN
  BY DEF TypeOK, Next, Commands, CheckSteps, Changed, Touches, Enrolls, Replaces, RaisesMarker,
     RemovesStore, DropsMarker, Substitutes, Checks, StatsEntry, Rewalks, ReadsEntry, EndsAttempt,
     Decides, FirstCallFails, CallFails, vars, checkVars, Goes, Answers
<1>4. RestInv'
  <2> USE <1>0 DEF TypeOK, RestInv, diskVars, cacheVars, checkVars, Goes, Answers
  <2>1. CASE Commands
    BY <2>1 DEF Commands, Changed, Touches, Enrolls, Replaces, RaisesMarker, RemovesStore,
       DropsMarker, Substitutes
  <2>2. CASE Checks
    BY <2>2 DEF Checks
  <2>3. CASE StatsEntry
    BY <2>3 DEF StatsEntry
  <2>4. CASE Rewalks
    <3>1. unsafe' \in BOOLEAN /\ walkFailed' \in BOOLEAN
      BY <2>4 DEF Rewalks
    <3>2. /\ place' = place /\ errors' = errors /\ try' = 1 /\ pc' \in {"reload", "idle"}
          /\ verdict' \in {"none", "deny"}
      BY <2>4 DEF Rewalks
    <3> QED
      BY <3>1, <3>2
  <2>5. CASE ReadsEntry
    BY <2>5 DEF ReadsEntry
  <2>6. CASE EndsAttempt
    BY <2>6 DEF EndsAttempt
  <2>7. CASE Decides
    BY <2>7 DEF Decides
  <2>8. CASE CallFails
    <3>1. unsafe' \in BOOLEAN /\ walkFailed' \in BOOLEAN
      BY <2>8 DEF CallFails
    <3>2. /\ place' = place /\ errors' \in 0..MaxErrors /\ try' = 1 /\ pc' = "idle"
          /\ verdict' = "deny"
      BY <2>8 DEF CallFails
    <3> QED
      BY <3>1, <3>2
  <2>9. CASE FirstCallFails
    <3>1. unsafe' \in BOOLEAN /\ walkFailed' \in BOOLEAN
      BY <2>9 DEF FirstCallFails
    <3>2. /\ place' = place /\ errors' \in 0..MaxErrors /\ try' = 1
          /\ pc' \in {"idle", "rewalk"} /\ verdict' \in {"none", "deny"}
      BY <2>9 DEF FirstCallFails
    <3> QED
      BY <3>1, <3>2
  <2>10. CASE UNCHANGED vars
    BY <2>10 DEF vars
  <2> QED
    BY <2>1, <2>2, <2>3, <2>4, <2>5, <2>6, <2>7, <2>8, <2>9, <2>10 DEF Next, CheckSteps
<1> QED
  BY <1>1, <1>2, <1>3, <1>4 DEF TypeOK, RestInv

(***************************************************************************)
(* The variables of a check have their types (PairedClients).              *)
(***************************************************************************)
THEOREM PairedCacheTypes == Spec => []TypeOK
<1>1. IInv /\ OnceInv /\ TypeOK /\ [Next]_vars => TypeOK'
  BY NextIInv, NextOnceInv, TypeNext
<1> QED
  BY InitIInv, NextIInv, InitOnceInv, NextOnceInv, InitTypes, <1>1, PTL DEF Spec

\* The directory is given up for good only after a rewalk that raised or that found another one.
UnsafeHasCause == unsafe => walkFailed \/ place = "other"

\* Who retains a directory has found one.
CauseInv == (place = "missing" => chain = NoChain /\ pc = "idle") /\ UnsafeHasCause

(***************************************************************************)
(* At the beginning nothing is given up.                                   *)
(***************************************************************************)
LEMMA InitCauseInv == Init => CauseInv
BY DEF Init, CauseInv, UnsafeHasCause

(***************************************************************************)
(* Only a rewalk gives up, and another directory stays another one.        *)
(***************************************************************************)
LEMMA NextCauseInv == IInv /\ TypeOK /\ CauseInv /\ [Next]_vars => CauseInv'
<1> SUFFICES ASSUME IInv, TypeOK, CauseInv, [Next]_vars PROVE CauseInv'
  OBVIOUS
<1>0. changes \in 0..MaxChanges /\ MaxChanges \in Nat /\ NoChain = MaxChanges + 1
  BY CacheAssumption DEF IInv, StampInv, Stamps, NoChain
<1> USE DEF CauseInv, UnsafeHasCause
<1>1. CASE Commands
  <2>1. UNCHANGED <<cacheVars, checkVars, walkFailed>>
    BY <1>1 DEF Commands, Changed, Touches, Enrolls, Replaces, RaisesMarker, RemovesStore,
       DropsMarker, Substitutes
  <2>2. place' = "missing" => place = "missing"
    BY <1>1 DEF Commands, Changed, Touches, Enrolls, Replaces, RaisesMarker, RemovesStore,
       DropsMarker, Substitutes
  <2>3. place = "other" => place' = "other"
    BY <1>1 DEF Commands, Changed, Touches, Enrolls, Replaces, RaisesMarker, RemovesStore,
       DropsMarker, Substitutes
  <2> QED
    BY <2>1, <2>2, <2>3 DEF cacheVars, checkVars
<1>2. CASE Checks
  BY <1>2 DEF Checks, Goes, Answers, diskVars, ChainIsCurrent
<1>3. CASE StatsEntry
  BY <1>3 DEF StatsEntry, cacheVars, diskVars
<1>4. CASE Rewalks
  <2>1. place # "missing" /\ place' = place /\ walkFailed' = walkFailed
    BY <1>4 DEF Rewalks, diskVars
  <2>2. unsafe' => unsafe \/ place # "ours"
    BY <1>4 DEF Rewalks
  <2>3. place \in {"missing", "ours", "other"}
    BY DEF TypeOK
  <2> QED
    BY <2>1, <2>2, <2>3
<1>5. CASE ReadsEntry
  BY <1>5 DEF ReadsEntry, cacheVars, diskVars
<1>6. CASE EndsAttempt
  BY <1>6 DEF EndsAttempt, diskVars
<1>7. CASE CallFails
  BY <1>7 DEF CallFails, cacheVars, diskVars
<1>8. CASE Decides
  BY <1>8 DEF Decides, cacheVars, diskVars
<1>9. CASE FirstCallFails
  <2>1. /\ UNCHANGED <<place, chain, unsafe, walkFailed>>
        /\ chain = NoChain => pc' = "idle"
    BY <1>9 DEF FirstCallFails, Answers, cacheVars, diskVars
  <2> QED
    BY <2>1
<1>10. CASE UNCHANGED vars
  BY <1>10 DEF vars, diskVars, cacheVars, checkVars
<1> QED
  BY <1>1, <1>2, <1>3, <1>4, <1>5, <1>6, <1>7, <1>8, <1>9, <1>10 DEF Next, CheckSteps

(***************************************************************************)
(* However checks race changes of the directory, churn alone never makes   *)
(* the service refuse every phone until its restart                        *)
(* (_revalidate_retained_directory_chain, _mark_unsafe_directory).         *)
(***************************************************************************)
THEOREM GivesUpWithCause == Spec => []UnsafeHasCause
<1>1. CauseInv => UnsafeHasCause
  BY DEF CauseInv
<1> QED
  BY InitIInv, NextIInv, InitCauseInv, NextCauseInv, <1>1, PairedCacheTypes, PTL DEF Spec

-----------------------------------------------------------------------------
(* The end of a life.                                                       *)

\* The exit stack, as it can be.
ClientOnly == <<"client">>
WithZconf == <<"client", "zconf">>
WithAdvertiser == <<"client", "zconf", "advertiser">>
WithServer == <<"client", "zconf", "advertiser", "server">>
Callbacks == {"client", "zconf", "advertiser", "server"}
Stacks == {<<>>, ClientOnly, WithZconf, WithAdvertiser, WithServer}

\* Where run is tells what is on the stack.
StackShape ==
    /\ stack \in Stacks
    /\ stage \in {"setup", "ended"} => stack = <<>>
    /\ stage \in {"bind", "zconf"} => stack = ClientOnly
    /\ stage \in {"start", "announce"} => stack = WithAdvertiser
    /\ stage \in {"abort", "drain"} => stack \in {ClientOnly, WithAdvertiser}
    /\ stage \in {"connect", "running"} => stack = WithServer
    /\ stage = "drainLast" => stack = WithAdvertiser
    /\ stage = "goodbye" => stack = WithZconf

\* close_server is still to come, from the stack or from the failed start.
ServerLeft ==
    \/ stage \in {"zconf", "start", "announce", "abort", "connect", "running"}
    \/ stage = "unwind" /\ stack = WithServer
Draining == stage \in {"drain", "drainLast"}

\* The listener, the lane and the clients' store end with close_server.
ServerClosed ==
    /\ listener = "open" => ServerLeft
    /\ paired = "open" => ServerLeft \/ Draining
    /\ lane = "open" => ServerLeft \/ Draining \/ cutShort

\* The TV's socket is closed by the first callback, the last to run.
ClientClosed ==
    /\ samsung = "open" => stack # <<>> \/ cutShort
    /\ samsung = "closed" => stack = <<>> \/ cutShort
    /\ stage = "setup" => samsung = "none"

\* The poller lives from the end of a start to the advertiser's close.  Without one, a cancelled
\* start apart, no call is under way when zeroconf closes.
AdvertiserClosed ==
    /\ stage \in {"setup", "bind", "zconf", "start", "announce", "abort", "drain"} =>
          poller = "none"
    /\ poller \in {"asleep", "calling"} => stack \in {WithAdvertiser, WithServer}
    /\ stack = WithServer => poller # "none"
    /\ ~cancelled /\ poller = "none" =>
          (call = "done" \/ announced = NoIp) /\ (stage = "announce" \/ call = "none")

\* Only an open zeroconf announces.
ZconfClosed ==
    /\ zconf = "open" => stack \in {WithZconf, WithAdvertiser, WithServer} \/ cutShort
    /\ announced # NoIp => zconf = "open"

\* A clean-up is cut short by the one Ctrl-C, after a start that announced nothing.
CutShortLate ==
    cutShort =>
        /\ cancelled /\ poller = "none" /\ call = "none" /\ announced = NoIp
        /\ stage \in {"unwind", "drainLast", "goodbye", "ended"}

LifeInv ==
    /\ StackShape /\ ServerClosed /\ ClientClosed /\ AdvertiserClosed /\ ZconfClosed /\ CutShortLate

(***************************************************************************)
(* Sequences are equal when their elements are.                            *)
(***************************************************************************)
LEMMA SameSequence ==
    ASSUME NEW S, NEW a \in Seq(S), NEW b \in Seq(S), Len(a) = Len(b),
           \A i \in 1..Len(a) : a[i] = b[i]
    PROVE  a = b
OBVIOUS

(***************************************************************************)
(* The stacks, callback by callback.                                       *)
(***************************************************************************)
LEMMA StackShapes ==
    /\ <<>> \in Seq(Callbacks) /\ ClientOnly \in Seq(Callbacks) /\ WithZconf \in Seq(Callbacks)
    /\ WithAdvertiser \in Seq(Callbacks) /\ WithServer \in Seq(Callbacks)
    /\ Len(ClientOnly) = 1 /\ ClientOnly[1] = "client"
    /\ Len(WithZconf) = 2 /\ WithZconf[1] = "client" /\ WithZconf[2] = "zconf"
    /\ Len(WithAdvertiser) = 3 /\ WithAdvertiser[1] = "client" /\ WithAdvertiser[2] = "zconf"
    /\ WithAdvertiser[3] = "advertiser"
    /\ Len(WithServer) = 4 /\ WithServer[1] = "client" /\ WithServer[2] = "zconf"
    /\ WithServer[3] = "advertiser" /\ WithServer[4] = "server"
BY DEF Callbacks, ClientOnly, WithZconf, WithAdvertiser, WithServer

(***************************************************************************)
(* A stack with one callback more.                                         *)
(***************************************************************************)
LEMMA AppendFacts ==
    ASSUME NEW s \in Seq(Callbacks), NEW b \in Callbacks
    PROVE  /\ Append(s, b) \in Seq(Callbacks) /\ Len(Append(s, b)) = Len(s) + 1
           /\ Append(s, b)[Len(s) + 1] = b
           /\ \A i \in 1..Len(s) : Append(s, b)[i] = s[i]
OBVIOUS

(***************************************************************************)
(* A stack with several callbacks more.                                    *)
(***************************************************************************)
LEMMA ConcatFacts ==
    ASSUME NEW s \in Seq(Callbacks), NEW t \in Seq(Callbacks)
    PROVE  /\ s \o t \in Seq(Callbacks) /\ Len(s \o t) = Len(s) + Len(t)
           /\ \A i \in 1..Len(s) : (s \o t)[i] = s[i]
           /\ \A i \in 1..Len(t) : (s \o t)[i + Len(s)] = t[i]
<1>1. Len(s \o t) = Len(s) + Len(t)
  OBVIOUS
<1>2. \A i \in 1..Len(s) : (s \o t)[i] = s[i]
  OBVIOUS
<1>3. \A i \in 1..Len(t) : (s \o t)[i + Len(s)] = t[i]
  OBVIOUS
<1> QED
  BY <1>1, <1>2, <1>3

(***************************************************************************)
(* A stack without its last callback.                                      *)
(***************************************************************************)
LEMMA FrontFacts ==
    ASSUME NEW s \in Seq(Callbacks), NEW n \in Nat, Len(s) = n + 1
    PROVE  /\ Front(s) \in Seq(Callbacks) /\ Len(Front(s)) = n
           /\ \A i \in 1..n : Front(s)[i] = s[i]
<1>1. Front(s) = SubSeq(s, 1, n)
  BY DEF Front
<1>2. SubSeq(s, 1, n) \in Seq(Callbacks)
  OBVIOUS
<1>3. Len(SubSeq(s, 1, n)) = n
  OBVIOUS
<1>4. \A i \in 1..n : SubSeq(s, 1, n)[i] = s[i]
  OBVIOUS
<1> QED
  BY <1>1, <1>2, <1>3, <1>4

(***************************************************************************)
(* What is pushed on each stack.                                           *)
(***************************************************************************)
LEMMA PushFacts ==
    /\ Append(<<>>, "client") = ClientOnly
    /\ ClientOnly \o <<"zconf", "advertiser">> = WithAdvertiser
    /\ Append(WithAdvertiser, "server") = WithServer
<1>1. Append(<<>>, "client") = ClientOnly
  BY DEF ClientOnly
<1>2. ClientOnly \o <<"zconf", "advertiser">> = WithAdvertiser
  <2>1. PICK t : t = <<"zconf", "advertiser">>
    OBVIOUS
  <2>2. t \in Seq(Callbacks) /\ Len(t) = 2 /\ t[1] = "zconf" /\ t[2] = "advertiser"
    BY <2>1 DEF Callbacks
  <2>3. PICK u : u = ClientOnly \o t
    OBVIOUS
  <2>4. PICK s : s = ClientOnly
    OBVIOUS
  <2>5. s \in Seq(Callbacks) /\ Len(s) = 1 /\ s[1] = "client"
    BY <2>4, StackShapes
  <2>6. /\ u \in Seq(Callbacks) /\ Len(u) = Len(s) + Len(t)
        /\ \A i \in 1..Len(s) : u[i] = s[i]
        /\ \A i \in 1..Len(t) : u[i + Len(s)] = t[i]
    BY <2>2, <2>3, <2>4, <2>5, ConcatFacts
  <2>7. Len(u) = 3 /\ u[1] = "client" /\ u[1 + 1] = "zconf" /\ u[2 + 1] = "advertiser"
    BY <2>2, <2>5, <2>6
  <2>8. \A i \in 1..3 : u[i] = WithAdvertiser[i]
    <3>1. \A i \in 1..3 : i \in {1, 2, 3}
      OBVIOUS
    <3> QED
      BY <3>1, <2>7, StackShapes
  <2>9. u = WithAdvertiser
    BY <2>6, <2>7, <2>8, StackShapes, SameSequence
  <2> QED
    BY <2>1, <2>3, <2>9
<1>3. Append(WithAdvertiser, "server") = WithServer
  <2>1. PICK t : t = Append(WithAdvertiser, "server")
    OBVIOUS
  <2>2. "server" \in Callbacks
    BY DEF Callbacks
  <2>3. PICK s : s = WithAdvertiser
    OBVIOUS
  <2>4. /\ s \in Seq(Callbacks) /\ Len(s) = 3 /\ s[1] = "client" /\ s[2] = "zconf"
        /\ s[3] = "advertiser"
    BY <2>3, StackShapes
  <2>5. /\ t \in Seq(Callbacks) /\ Len(t) = Len(s) + 1 /\ t[Len(s) + 1] = "server"
        /\ \A i \in 1..Len(s) : t[i] = s[i]
    BY <2>1, <2>2, <2>3, <2>4, AppendFacts
  <2>6. /\ Len(t) = 4 /\ t[4] = "server" /\ t[1] = "client" /\ t[2] = "zconf"
        /\ t[3] = "advertiser"
    BY <2>4, <2>5
  <2>7. \A i \in 1..4 : t[i] = WithServer[i]
    <3>1. \A i \in 1..4 : i \in {1, 2, 3, 4}
      OBVIOUS
    <3> QED
      BY <3>1, <2>6, StackShapes
  <2>8. t = WithServer
    BY <2>5, <2>6, <2>7, StackShapes, SameSequence
  <2> QED
    BY <2>1, <2>8
<1> QED
  BY <1>1, <1>2, <1>3

(***************************************************************************)
(* What is popped from each stack.                                         *)
(***************************************************************************)
LEMMA PopFacts ==
    /\ Last(ClientOnly) = "client" /\ Front(ClientOnly) = <<>>
    /\ Last(WithZconf) = "zconf" /\ Front(WithZconf) = ClientOnly
    /\ Last(WithAdvertiser) = "advertiser" /\ Front(WithAdvertiser) = WithZconf
    /\ Last(WithServer) = "server" /\ Front(WithServer) = WithAdvertiser
<1>1. Last(ClientOnly) = "client" /\ Last(WithZconf) = "zconf"
      /\ Last(WithAdvertiser) = "advertiser" /\ Last(WithServer) = "server"
  BY StackShapes DEF Last
<1>2. Front(ClientOnly) = <<>>
  <2>1. Len(ClientOnly) = 0 + 1 /\ ClientOnly \in Seq(Callbacks)
    BY StackShapes
  <2>2. Front(ClientOnly) \in Seq(Callbacks) /\ Len(Front(ClientOnly)) = 0
    BY <2>1, FrontFacts
  <2> QED
    BY <2>2
<1>3. Front(WithZconf) = ClientOnly
  <2>1. Len(WithZconf) = 1 + 1 /\ WithZconf \in Seq(Callbacks)
    BY StackShapes
  <2>2. PICK t : t = Front(WithZconf)
    OBVIOUS
  <2>3. t \in Seq(Callbacks) /\ Len(t) = 1 /\ \A i \in 1..1 : t[i] = WithZconf[i]
    BY <2>1, <2>2, FrontFacts
  <2>4. \A i \in 1..1 : i \in {1}
    OBVIOUS
  <2>5. \A i \in 1..1 : t[i] = ClientOnly[i]
    BY <2>3, <2>4, StackShapes
  <2> QED
    BY <2>2, <2>3, <2>5, StackShapes, SameSequence
<1>4. Front(WithAdvertiser) = WithZconf
  <2>1. Len(WithAdvertiser) = 2 + 1 /\ WithAdvertiser \in Seq(Callbacks)
    BY StackShapes
  <2>2. PICK t : t = Front(WithAdvertiser)
    OBVIOUS
  <2>3. t \in Seq(Callbacks) /\ Len(t) = 2 /\ \A i \in 1..2 : t[i] = WithAdvertiser[i]
    BY <2>1, <2>2, FrontFacts
  <2>4. \A i \in 1..2 : i \in {1, 2}
    OBVIOUS
  <2>5. \A i \in 1..2 : t[i] = WithZconf[i]
    BY <2>3, <2>4, StackShapes
  <2> QED
    BY <2>2, <2>3, <2>5, StackShapes, SameSequence
<1>5. Front(WithServer) = WithAdvertiser
  <2>1. Len(WithServer) = 3 + 1 /\ WithServer \in Seq(Callbacks)
    BY StackShapes
  <2>2. PICK t : t = Front(WithServer)
    OBVIOUS
  <2>3. t \in Seq(Callbacks) /\ Len(t) = 3 /\ \A i \in 1..3 : t[i] = WithServer[i]
    BY <2>1, <2>2, FrontFacts
  <2>4. \A i \in 1..3 : i \in {1, 2, 3}
    OBVIOUS
  <2>5. \A i \in 1..3 : t[i] = WithAdvertiser[i]
    BY <2>3, <2>4, StackShapes
  <2> QED
    BY <2>2, <2>3, <2>5, StackShapes, SameSequence
<1> QED
  BY <1>1, <1>2, <1>3, <1>4, <1>5

(***************************************************************************)
(* No two of the stacks are the same.                                      *)
(***************************************************************************)
LEMMA StacksDiffer ==
    /\ <<>> # ClientOnly /\ <<>> # WithZconf /\ <<>> # WithAdvertiser /\ <<>> # WithServer
    /\ ClientOnly # WithZconf /\ ClientOnly # WithAdvertiser /\ ClientOnly # WithServer
    /\ WithZconf # WithAdvertiser /\ WithZconf # WithServer /\ WithAdvertiser # WithServer
<1>1. /\ Len(<<>>) = 0 /\ Len(ClientOnly) = 1 /\ Len(WithZconf) = 2 /\ Len(WithAdvertiser) = 3
      /\ Len(WithServer) = 4
  BY StackShapes
<1>2. <<>> # ClientOnly /\ <<>> # WithZconf /\ <<>> # WithAdvertiser /\ <<>> # WithServer
  BY <1>1
<1>3. ClientOnly # WithZconf /\ ClientOnly # WithAdvertiser /\ ClientOnly # WithServer
  BY <1>1
<1>4. WithZconf # WithAdvertiser /\ WithZconf # WithServer /\ WithAdvertiser # WithServer
  BY <1>1
<1> QED
  BY <1>2, <1>3, <1>4

(***************************************************************************)
(* A life begins with nothing held.                                        *)
(***************************************************************************)
LEMMA LifeInitInv == LifeInit => LifeInv
<1> SUFFICES ASSUME LifeInit PROVE LifeInv
  OBVIOUS
<1> QED
  BY StacksDiffer DEF LifeInit, LifeInv, StackShape, ServerClosed, ClientClosed,
     AdvertiserClosed, ZconfClosed, CutShortLate, Stacks, NoIp

(***************************************************************************)
(* run itself: each resource is opened before its callback is pushed, and  *)
(* each callback closes its own.                                           *)
(***************************************************************************)
LEMMA LifeRunInv == LifeInv /\ RunSteps => LifeInv'
<1> SUFFICES ASSUME LifeInv, RunSteps PROVE LifeInv'
  OBVIOUS
<1> USE PushFacts, PopFacts, StacksDiffer
    DEF LifeInv, StackShape, ServerClosed, ClientClosed, AdvertiserClosed, ZconfClosed,
        CutShortLate, ServerLeft, Draining, Stacks, runVars, heldVars, adVars, callVars, envVars,
        Pushes
<1>1. CASE MakesClient
  BY <1>1 DEF MakesClient
<1>2. CASE Binds
  BY <1>2 DEF Binds
<1>3. CASE BindFails
  BY <1>3 DEF BindFails
<1>4. CASE OpensZeroconf
  BY <1>4 DEF OpensZeroconf
<1>5. CASE StartsAdvertiser
  BY <1>5 DEF StartsAdvertiser, Calls, Stale
<1>6. CASE AnnounceReturns
  BY <1>6 DEF AnnounceReturns, Learns
<1>7. CASE Connects
  BY <1>7 DEF Connects
<1>8. CASE ClosesListener
  BY <1>8 DEF ClosesListener
<1>9. CASE DrainsLane
  BY <1>9 DEF DrainsLane
<1>10. CASE ClosesAdvertiser
  BY <1>10 DEF ClosesAdvertiser, Abandons
<1>11. CASE Unregisters
  BY <1>11 DEF Unregisters, NoIp
<1>12. CASE ClosesZeroconf
  BY <1>12 DEF ClosesZeroconf, NoIp
<1>13. CASE ClosesClient
  BY <1>13 DEF ClosesClient
<1>14. CASE Ends
  BY <1>14 DEF Ends
<1> QED
  BY <1>1, <1>2, <1>3, <1>4, <1>5, <1>6, <1>7, <1>8, <1>9, <1>10, <1>11, <1>12, <1>13, <1>14
     DEF RunSteps

(***************************************************************************)
(* What goes on beside it: a signal, the Ctrl-C of a start, the poller,    *)
(* the executor, the worker of the lane and the host's address.            *)
(***************************************************************************)
LEMMA LifeRestInv == LifeInv /\ [LifeNext]_lifeVars => LifeInv'
<1> SUFFICES ASSUME LifeInv, [LifeNext]_lifeVars PROVE LifeInv'
  OBVIOUS
<1>1. CASE RunSteps
  BY <1>1, LifeRunInv
<1> USE PopFacts, StacksDiffer
    DEF LifeInv, StackShape, ServerClosed, ClientClosed, AdvertiserClosed, ZconfClosed,
        CutShortLate, ServerLeft, Draining, Stacks, runVars, heldVars, adVars, callVars, envVars
<1>2. CASE Stops
  BY <1>2 DEF Stops
<1>3. CASE Cancels
  BY <1>3 DEF Cancels, Abandons
<1>4. CASE PollerWakes
  BY <1>4 DEF PollerWakes, Calls
<1>5. CASE PollerReturns
  BY <1>5 DEF PollerReturns, Learns
<1>6. CASE CallRuns
  BY <1>6 DEF CallRuns
<1>7. CASE CallEnds
  BY <1>7 DEF CallEnds
<1>8. CASE LaneSends
  BY <1>8 DEF LaneSends
<1>9. CASE Moves
  BY <1>9 DEF Moves
<1>10. CASE UNCHANGED lifeVars
  BY <1>10 DEF lifeVars
<1> QED
  BY <1>1, <1>2, <1>3, <1>4, <1>5, <1>6, <1>7, <1>8, <1>9, <1>10 DEF LifeNext

(***************************************************************************)
(* The invariant holds throughout a life.                                  *)
(***************************************************************************)
LEMMA LifeInvariant == LifeSpec => []LifeInv
BY LifeInitInv, LifeRestInv, PTL DEF LifeSpec

(***************************************************************************)
(* With an empty stack every resource is closed.                           *)
(***************************************************************************)
LEMMA LifeEnds == LifeInv => NothingLeft /\ (cutShort \/ DrainedBeforeClient)
BY StacksDiffer DEF LifeInv, StackShape, ServerClosed, ClientClosed, AdvertiserClosed, ZconfClosed,
        CutShortLate, ServerLeft, Draining, NothingLeft, DrainedBeforeClient, Running

(***************************************************************************)
(* The variables have their types at the beginning.                        *)
(***************************************************************************)
LEMMA LifeTypeInit == LifeInit => LifeTypeOK
<1> SUFFICES ASSUME LifeInit PROVE LifeTypeOK
  OBVIOUS
<1>1. /\ 0 \in 0..MaxMoves /\ 0 \in 0..MaxFailures
      /\ stack \in Seq({"client", "zconf", "advertiser", "server"})
  BY LifecycleAssumption DEF LifeInit, LifecycleAssumption
<1>2. ip \in Ips
  BY DEF LifeInit
<1>3. announced \in Ips /\ currentIp \in Ips /\ callIp \in Ips
  BY DEF LifeInit, NoIp, Ips
<1> QED
  BY <1>1, <1>2, <1>3 DEF LifeInit, LifeTypeOK, Held

(***************************************************************************)
(* A step keeps the types: the stack is one of five.                       *)
(***************************************************************************)
LEMMA LifeTypeNext == LifeTypeOK /\ LifeInv' /\ [LifeNext]_lifeVars => LifeTypeOK'
<1> SUFFICES ASSUME LifeTypeOK, LifeInv', [LifeNext]_lifeVars PROVE LifeTypeOK'
  OBVIOUS
<1>1. stack' \in Seq({"client", "zconf", "advertiser", "server"})
  BY StackShapes DEF LifeInv, StackShape, Stacks, Callbacks
<1>2. MaxMoves \in Nat /\ MaxFailures \in Nat
  BY LifecycleAssumption DEF LifecycleAssumption
<1> USE <1>1, <1>2 DEF LifeTypeOK, Held, Ips, NoIp, runVars, heldVars, adVars, callVars, envVars
<1>3. CASE MakesClient
  BY <1>3 DEF MakesClient, Pushes
<1>4. CASE Binds
  BY <1>4 DEF Binds
<1>5. CASE BindFails
  BY <1>5 DEF BindFails
<1>6. CASE OpensZeroconf
  BY <1>6 DEF OpensZeroconf
<1>7. CASE StartsAdvertiser
  BY <1>7 DEF StartsAdvertiser, Calls, Stale, Pushes
<1>8. CASE AnnounceReturns
  <2>1. currentIp' \in Ips /\ registered' \in BOOLEAN
    BY <1>8 DEF AnnounceReturns, Learns
  <2>2. stage' \in {"connect", "abort"} /\ poller' \in {"asleep", poller} /\ call' = "none"
    BY <1>8 DEF AnnounceReturns, Learns
  <2>3. UNCHANGED <<cutShort, cancelled, heldVars, announced, envVars, closing, callIp>>
    BY <1>8 DEF AnnounceReturns, Learns
  <2> QED
    BY <2>1, <2>2, <2>3
<1>9. CASE Connects
  BY <1>9 DEF Connects
<1>10. CASE ClosesListener
  BY <1>10 DEF ClosesListener
<1>11. CASE DrainsLane
  BY <1>11 DEF DrainsLane
<1>12. CASE ClosesAdvertiser
  BY <1>12 DEF ClosesAdvertiser, Abandons
<1>13. CASE Unregisters
  <2>1. announced' \in Ips /\ registered' = FALSE
    BY <1>13 DEF Unregisters
  <2>2. failures' \in 0..MaxFailures
    BY <1>13 DEF Unregisters
  <2>3. UNCHANGED <<cutShort, cancelled, heldVars, currentIp, closing, poller, callVars, ip, moves>>
        /\ stage' = "unwind"
    BY <1>13 DEF Unregisters
  <2>4. /\ cutShort' \in BOOLEAN /\ cancelled' \in BOOLEAN /\ closing' \in BOOLEAN
        /\ registered' \in BOOLEAN
    BY <2>1, <2>3
  <2>5. /\ listener' \in Held /\ lane' \in Held /\ paired' \in Held /\ samsung' \in Held
        /\ zconf' \in Held
    BY <2>3
  <2>6. ip' \in Ips /\ currentIp' \in Ips /\ callIp' \in Ips /\ moves' \in 0..MaxMoves
    BY <2>3
  <2>7. /\ poller' \in {"none", "asleep", "calling", "over"}
        /\ call' \in {"none", "queued", "running", "done", "failed"}
    BY <2>3
  <2> QED
    BY <2>1, <2>2, <2>3, <2>4, <2>5, <2>6, <2>7
<1>14. CASE ClosesZeroconf
  BY <1>14 DEF ClosesZeroconf
<1>15. CASE ClosesClient
  BY <1>15 DEF ClosesClient
<1>16. CASE Ends
  BY <1>16 DEF Ends
<1>17. CASE Stops
  BY <1>17 DEF Stops
<1>18. CASE Cancels
  <2>1. cutShort' \in BOOLEAN /\ cancelled' = TRUE
    BY <1>18 DEF Cancels
  <2>2. paired' \in Held /\ samsung' \in Held /\ zconf' \in Held
    BY <1>18 DEF Cancels
  <2>3. call' \in {call, "none"} /\ callIp' = callIp /\ stage' \in {stage, "unwind", "abort"}
    BY <1>18 DEF Cancels, Abandons
  <2>4. UNCHANGED <<listener, lane, announced, adVars, envVars>>
    BY <1>18 DEF Cancels
  <2> QED
    BY <2>1, <2>2, <2>3, <2>4
<1>19. CASE PollerWakes
  BY <1>19 DEF PollerWakes, Calls
<1>20. CASE PollerReturns
  <2>1. currentIp' \in Ips /\ registered' \in BOOLEAN
    BY <1>20 DEF PollerReturns, Learns
  <2>2. UNCHANGED <<runVars, heldVars, announced, envVars, closing, callIp>> /\ call' = "none"
        /\ poller' = "asleep"
    BY <1>20 DEF PollerReturns, Learns
  <2> QED
    BY <2>1, <2>2
<1>21. CASE CallRuns
  BY <1>21 DEF CallRuns
<1>22. CASE CallEnds
  BY <1>22 DEF CallEnds
<1>23. CASE LaneSends
  BY <1>23 DEF LaneSends
<1>24. CASE Moves
  BY <1>24 DEF Moves
<1>25. CASE UNCHANGED lifeVars
  BY <1>25 DEF lifeVars
<1> QED
  BY <1>3, <1>4, <1>5, <1>6, <1>7, <1>8, <1>9, <1>10, <1>11, <1>12, <1>13,
     <1>14, <1>15, <1>16, <1>17, <1>18, <1>19, <1>20, <1>21, <1>22, <1>23, <1>24, <1>25
     DEF LifeNext, RunSteps

(***************************************************************************)
(* The variables of a life have their types (app.run,                      *)
(* CompanionAdvertiser).                                                   *)
(***************************************************************************)
THEOREM LifeTypeCorrect == LifeSpec => []LifeTypeOK
<1>1. LifeTypeOK /\ LifeInv /\ [LifeNext]_lifeVars => LifeTypeOK'
  BY LifeRestInv, LifeTypeNext
<1> QED
  BY LifeInvariant, LifeTypeInit, <1>1, PTL DEF LifeSpec

(***************************************************************************)
(* However run ends, nothing of the service is left: no listener, no open  *)
(* store, no poller, no announcement, and without a cancelled clean-up no  *)
(* zeroconf, no lane worker and no socket to the TV (the exit stack of     *)
(* app.run, close_server, CompanionAdvertiser.close).                      *)
(***************************************************************************)
THEOREM EndLeavesNothing == LifeSpec => []NothingLeft
BY LifeInvariant, LifeEnds, PTL

(***************************************************************************)
(* serve's promise, as far as the code keeps it: unless a clean-up is cut  *)
(* short, the worker is drained before the Samsung client is closed, so    *)
(* that no command opens the TV's socket again.                            *)
(***************************************************************************)
THEOREM DrainedUnlessCutShort == LifeSpec => [](cutShort \/ DrainedBeforeClient)
BY LifeInvariant, LifeEnds, PTL

\* What refresh takes for announced is what zeroconf answers with, up to a call that has taken
\* effect and whose return refresh has not seen yet.
KnownToRefresh ==
    /\ zconf = "open" /\ ~closing /\ call # "done" => announced = currentIp
    /\ zconf = "open" /\ ~closing /\ call = "done" => announced = callIp

\* When no call can be under way, and that nothing is announced before the start.
KnownInv ==
    /\ KnownToRefresh
    /\ stage \in {"setup", "bind", "zconf", "start"} =>
          call = "none" /\ announced = NoIp /\ currentIp = NoIp
    /\ poller = "asleep" => call = "none"
    /\ stage = "goodbye" => closing

(***************************************************************************)
(* Nothing is announced at the beginning.                                  *)
(***************************************************************************)
LEMMA KnownInit == LifeInit => KnownInv
BY DEF LifeInit, KnownInv, KnownToRefresh

(***************************************************************************)
(* A call that takes effect is the only way to another announcement, and   *)
(* its address is learned when it has.                                     *)
(***************************************************************************)
LEMMA KnownNext == LifeInv /\ KnownInv /\ [LifeNext]_lifeVars => KnownInv'
<1> SUFFICES ASSUME LifeInv, KnownInv, [LifeNext]_lifeVars PROVE KnownInv'
  OBVIOUS
<1>0. /\ stage \in {"setup", "bind", "zconf", "start", "announce", "abort", "drain"} =>
            poller = "none"
      /\ announced # NoIp => zconf = "open"
  BY DEF LifeInv, AdvertiserClosed, ZconfClosed
<1> USE <1>0 DEF KnownInv, KnownToRefresh, runVars, heldVars, adVars, callVars, envVars
<1>1. CASE MakesClient
  BY <1>1 DEF MakesClient
<1>2. CASE Binds
  BY <1>2 DEF Binds
<1>3. CASE BindFails
  BY <1>3 DEF BindFails
<1>4. CASE OpensZeroconf
  BY <1>4 DEF OpensZeroconf
<1>5. CASE StartsAdvertiser
  BY <1>5 DEF StartsAdvertiser, Calls
<1>6. CASE AnnounceReturns
  BY <1>6 DEF AnnounceReturns, Learns
<1>7. CASE Connects
  BY <1>7 DEF Connects
<1>8. CASE ClosesListener
  BY <1>8 DEF ClosesListener
<1>9. CASE DrainsLane
  BY <1>9 DEF DrainsLane
<1>10. CASE ClosesAdvertiser
  BY <1>10 DEF ClosesAdvertiser
<1>11. CASE Unregisters
  BY <1>11 DEF Unregisters
<1>12. CASE ClosesZeroconf
  BY <1>12 DEF ClosesZeroconf
<1>13. CASE ClosesClient
  BY <1>13 DEF ClosesClient
<1>14. CASE Ends
  BY <1>14 DEF Ends
<1>15. CASE Stops
  BY <1>15 DEF Stops
<1>16. CASE Cancels
  BY <1>16 DEF Cancels, Abandons
<1>17. CASE PollerWakes
  BY <1>17 DEF PollerWakes, Calls
<1>18. CASE PollerReturns
  BY <1>18 DEF PollerReturns, Learns
<1>19. CASE CallRuns
  BY <1>19 DEF CallRuns
<1>20. CASE CallEnds
  BY <1>20 DEF CallEnds
<1>21. CASE LaneSends
  BY <1>21 DEF LaneSends
<1>22. CASE Moves
  BY <1>22 DEF Moves
<1>23. CASE UNCHANGED lifeVars
  BY <1>23 DEF lifeVars
<1> QED
  BY <1>1, <1>2, <1>3, <1>4, <1>5, <1>6, <1>7, <1>8, <1>9, <1>10, <1>11, <1>12, <1>13, <1>14,
     <1>15, <1>16, <1>17, <1>18, <1>19, <1>20, <1>21, <1>22, <1>23 DEF LifeNext, RunSteps

(***************************************************************************)
(* However calls fail, outlive a cancelled start or run late, refresh      *)
(* knows what is announced, so that the next poll repeats what has failed  *)
(* and nothing else (CompanionAdvertiser.refresh).                         *)
(***************************************************************************)
THEOREM AnnouncementKnown == LifeSpec => []KnownToRefresh
<1>1. KnownInv => KnownToRefresh
  BY DEF KnownInv
<1> QED
  BY LifeInvariant, KnownInit, KnownNext, <1>1, PTL DEF LifeSpec
=============================================================================
