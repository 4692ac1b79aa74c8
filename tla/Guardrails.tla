------------------------------ MODULE Guardrails ------------------------------
(***************************************************************************)
(* The two limiters of pair-setup (companion/protocol/guardrails.py):      *)
(* PairSetupAttemptLimiter, which every M1 has to pass, and                *)
(* PairFailureLimiter, which holds an M1 back after failed pairings.       *)
(* ConnectionAdmission is part of Handshake.                               *)
(*                                                                         *)
(* A deque of timestamps is a set of marks: the oldest are its left end.   *)
(* A mark has its source also in the global deque, where the code has only *)
(* its time.  The clock is finer than the whole seconds retry_after tells. *)
(***************************************************************************)
EXTENDS Naturals, FiniteSets

CONSTANTS
    Sources,      \* _source_key of the peers; "<unknown>" is one like the others
    PerSource,    \* per_source_limit
    GlobalLimit,  \* global_limit
    Second,       \* a second, in units of the clock
    Window,       \* window_seconds, in units of the clock
    MaxSources,   \* max_sources
    MaxTime       \* bound: the clock

\* The service makes both limiters with their defaults: 20 marks in all, 256 sources.
ASSUME GuardrailsAssumption ==
    /\ {PerSource, GlobalLimit, Second, Window, MaxSources} \subseteq Nat \ {0}
    /\ GlobalLimit <= MaxSources
    /\ MaxTime \in Nat

VARIABLES
    now,          \* time.monotonic()
    starts,       \* _global_attempts
    startTable,   \* _source_attempts
    failures,     \* _global_failures
    failureTable, \* _source_failures
    startAgain,   \* per source, when the refusal of its last M1 said it may try again; 0 if none
    backoffAgain  \* the same of the last BackOff

startVars   == <<starts, startTable, startAgain>>
failureVars == <<failures, failureTable, backoffAgain>>
vars == <<now, startVars, failureVars>>

Mark == [source : Sources, time : 0..MaxTime, n : 1..GlobalLimit]

Of(s, marks) == {m \in marks : m.source = s}
Tracked(table) == {m.source : m \in table}

LiveAtTheEnd(marks) == {m \in marks : m.time + Window >= now}   \* faulty: off by one

\* What _prune leaves.
Live(marks) == {m \in marks : m.time + Window > now}

SourceOverfull(s, table) == Cardinality(Of(s, Live(table))) > PerSource   \* faulty: off by one
SourceFull(s, table) == Cardinality(Of(s, Live(table))) >= PerSource
Full(marks) == Cardinality(Live(marks)) >= GlobalLimit

Oldest(marks) == CHOOSE t \in {m.time : m \in marks} : \A m \in marks : t <= m.time
Newest(marks) == CHOOSE t \in {m.time : m \in marks} : \A m \in marks : t >= m.time

ToldRoundedDown(delay) == Second * (delay \div Second)            \* faulty

\* math.ceil, in whole seconds; the window of a live mark still has time to go.
Told(delay) == Second * ((delay + Second - 1) \div Second)
RetryAt(oldest) == now + Told(Window + oldest - now)

TypeOK ==
    /\ now \in 0..MaxTime
    /\ starts \subseteq Mark /\ startTable \subseteq Mark
    /\ failures \subseteq Mark /\ failureTable \subseteq Mark
    /\ \A marks \in {starts, failures} :
          /\ IsFiniteSet(marks)
          /\ Cardinality(marks) <= GlobalLimit
          /\ \A s \in Sources : Cardinality(Of(s, marks)) <= PerSource
    /\ startAgain \in [Sources -> Nat]
    /\ backoffAgain \in [Sources -> Nat]

Init ==
    /\ now = 0
    /\ starts = {} /\ startTable = {}
    /\ failures = {} /\ failureTable = {}
    /\ startAgain = [s \in Sources |-> 0]
    /\ backoffAgain = [s \in Sources |-> 0]

-----------------------------------------------------------------------------
(* Adding a mark.                                                           *)

NewMark(s, marks) ==
    [source |-> s, time |-> now, n |-> Cardinality({m \in Of(s, marks) : m.time = now}) + 1]

\* The source marked longest ago, popitem(last=False); any of those marked at the same time.
LeastRecent(table) ==
    CHOOSE s \in Tracked(table) :
        \A r \in Tracked(table) : Newest(Of(s, table)) <= Newest(Of(r, table))

RoomEarly(s, table) ==                                          \* faulty: off by one
    IF s \notin Tracked(table) /\ Cardinality(Tracked(table)) + 1 >= MaxSources
        /\ table # {}
    THEN table \ Of(LeastRecent(table), table)
    ELSE table

\* A new source finds the table at its capacity.
Room(s, table) ==
    IF s \notin Tracked(table) /\ Cardinality(Tracked(table)) >= MaxSources
    THEN table \ Of(LeastRecent(table), table)
    ELSE table

PrunesStarts == starts' = Live(starts) /\ startTable' = Live(startTable)
PrunesFailures == failures' = Live(failures) /\ failureTable' = Live(failureTable)

AddsStart(s) ==
    /\ starts' = Live(starts) \cup {NewMark(s, starts)}
    /\ startTable' = Room(s, Live(startTable)) \cup {NewMark(s, starts)}

AddsFailure(s) ==
    /\ failures' = Live(failures) \cup {NewMark(s, failures)}
    /\ failureTable' = Room(s, Live(failureTable)) \cup {NewMark(s, failures)}

-----------------------------------------------------------------------------
(* A pair-setup M1 (_m1_setup).                                             *)

\* admit refuses: MaxTries for a full source, else Busy.
StartRefused(s) ==
    /\ SourceFull(s, startTable) \/ Full(starts)
    /\ PrunesStarts
    /\ startAgain' = [startAgain EXCEPT ![s] =
          RetryAt(IF SourceFull(s, startTable) THEN Oldest(Of(s, Live(startTable)))
                                               ELSE Oldest(Live(starts)))]
    /\ UNCHANGED <<now, failureVars>>

\* The start is counted, and what anybody was told about starts is out of date.
StartCounted(s) ==
    /\ ~SourceFull(s, startTable) /\ ~Full(starts)
    /\ AddsStart(s)
    /\ startAgain' = [r \in Sources |-> 0]
    /\ UNCHANGED now

\* It is counted also when a pending reset refuses it before the back-off is looked at.
StartWhileResetting(s) == StartCounted(s) /\ UNCHANGED failureVars

BackingOff(s) == SourceFull(s, failureTable) \/ Full(failures)

Candidates(s) ==
    (IF Full(failures) THEN {Oldest(Live(failures))} ELSE {})
    \cup (IF SourceFull(s, failureTable) THEN {Oldest(Of(s, Live(failureTable)))} ELSE {})

\* check, which answers with the first of the candidates.
BackoffEnds(s) == RetryAt(CHOOSE t \in Candidates(s) : \A u \in Candidates(s) : t <= u)

StartHeldBack(s) ==
    /\ StartCounted(s)
    /\ BackingOff(s)
    /\ PrunesFailures
    /\ backoffAgain' = [backoffAgain EXCEPT ![s] = BackoffEnds(s)]

StartAllowed(s) ==
    /\ StartCounted(s)
    /\ ~BackingOff(s)
    /\ PrunesFailures
    /\ backoffAgain' = [backoffAgain EXCEPT ![s] = 0]

-----------------------------------------------------------------------------
\* pairing_failed: a wrong proof or a message out of order, on a connection of this source.
FailureDropped(s) ==
    /\ BackingOff(s)
    /\ PrunesFailures
    /\ UNCHANGED <<now, startVars, backoffAgain>>

FailureCounted(s) ==
    /\ ~BackingOff(s)
    /\ AddsFailure(s)
    /\ backoffAgain' = [r \in Sources |-> 0]
    /\ UNCHANGED <<now, startVars>>

Tick == now < MaxTime /\ now' = now + 1 /\ UNCHANGED <<startVars, failureVars>>

Next ==
    \/ \E s \in Sources :
          \/ StartRefused(s) \/ StartWhileResetting(s) \/ StartHeldBack(s) \/ StartAllowed(s)
          \/ FailureDropped(s) \/ FailureCounted(s)
    \/ Tick

Spec == Init /\ [][Next]_vars

-----------------------------------------------------------------------------
(* Properties.                                                              *)

\* A source's marks are forgotten when their window has passed and never before: changing one's
\* address pushes nobody, and not oneself, out of the table of sources.
NobodyForgotten == startTable = starts /\ failureTable = failures

\* Who is refused an M1 and comes back when admit said, nobody having started since, is admitted.
\* Who is told to back off and comes back then, nobody having failed since, no longer meets both
\* limits of failures: check answers with the delay of one.
RetryAdmitted ==
    \A s \in Sources :
        /\ startAgain[s] # 0 /\ now >= startAgain[s] =>
              ~SourceFull(s, startTable) /\ ~Full(starts)
        /\ backoffAgain[s] # 0 /\ now >= backoffAgain[s] =>
              ~SourceFull(s, failureTable) \/ ~Full(failures)

\* Who is told to back off and comes back when the delay has passed, nobody having failed since, is
\* not told to back off again: the answer is "the remaining retry delay" (docs/lld.md:221).
BackoffSuffices ==
    \A s \in Sources : backoffAgain[s] # 0 /\ now >= backoffAgain[s] => ~BackingOff(s)
=============================================================================
