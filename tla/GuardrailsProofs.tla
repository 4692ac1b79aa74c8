--------------------------- MODULE GuardrailsProofs ---------------------------
(***************************************************************************)
(* The limiters' invariants, for any sources, limits, window and capacity  *)
(* of the table that is not below the global limit.                        *)
(***************************************************************************)
EXTENDS Guardrails, FiniteSetTheorems, FunctionTheorems, WellFoundedInduction, TLAPS

\* What TypeOK says of the marks of one limiter.
MarksOK(marks) ==
    /\ marks \subseteq Mark
    /\ IsFiniteSet(marks)
    /\ Cardinality(marks) <= GlobalLimit
    /\ \A s \in Sources : Cardinality(Of(s, marks)) <= PerSource

\* The marks that are still live at time t.
Later(marks, t) == {m \in marks : m.time + Window > t}

\* At the time a refused source was told, neither limit is reached by the marks there are.
Promised ==
    \A s \in Sources : startAgain[s] # 0 =>
        /\ Cardinality(Later(Of(s, starts), startAgain[s])) < PerSource
        /\ Cardinality(Later(starts, startAgain[s])) < GlobalLimit

\* At the time a source was told to back off until, one of the limits of failures is not reached.
BackoffPromised ==
    \A s \in Sources : backoffAgain[s] # 0 =>
        \/ Cardinality(Later(Of(s, failures), backoffAgain[s])) < PerSource
        \/ Cardinality(Later(failures, backoffAgain[s])) < GlobalLimit

GuardrailsInv ==
    /\ TypeOK
    /\ NobodyForgotten
    /\ Promised
    /\ BackoffPromised

-----------------------------------------------------------------------------
\* The constants, one by one.
LEMMA Constants ==
    /\ PerSource \in Nat /\ PerSource > 0
    /\ GlobalLimit \in Nat /\ GlobalLimit > 0
    /\ Second \in Nat /\ Second > 0
    /\ Window \in Nat /\ Window > 0
    /\ MaxSources \in Nat /\ GlobalLimit <= MaxSources
    /\ MaxTime \in Nat
  BY GuardrailsAssumption DEF GuardrailsAssumption

\* A part of a finite set is finite and not larger.
LEMMA Smaller ==
    ASSUME NEW S, IsFiniteSet(S), NEW T, T \subseteq S
    PROVE  /\ IsFiniteSet(T)
           /\ Cardinality(T) \in Nat /\ Cardinality(S) \in Nat
           /\ Cardinality(T) <= Cardinality(S)
  BY FS_Subset, FS_CardinalityType

\* A part that lacks an element is smaller.
LEMMA StrictlySmaller ==
    ASSUME NEW S, IsFiniteSet(S), NEW T, NEW x \in S, T \subseteq S \ {x}
    PROVE  Cardinality(T) < Cardinality(S)
<1>1. IsFiniteSet(S \ {x}) /\ Cardinality(S \ {x}) = Cardinality(S) - 1
  BY FS_RemoveElement
<1>2. Cardinality(T) \in Nat /\ Cardinality(T) <= Cardinality(S \ {x})
  BY <1>1, Smaller
<1>3. Cardinality(S) \in Nat
  BY FS_CardinalityType
<1> QED
  BY <1>1, <1>2, <1>3

\* One more element makes a set larger by one at most.
LEMMA OneMore ==
    ASSUME NEW S, IsFiniteSet(S), NEW x
    PROVE  /\ IsFiniteSet(S \cup {x})
           /\ Cardinality(S \cup {x}) \in Nat /\ Cardinality(S) \in Nat
           /\ Cardinality(S \cup {x}) <= Cardinality(S) + 1
<1>1. /\ IsFiniteSet(S \cup {x})
      /\ Cardinality(S \cup {x}) = IF x \in S THEN Cardinality(S) ELSE Cardinality(S) + 1
  BY FS_AddElement
<1>2. Cardinality(S) \in Nat /\ Cardinality(S \cup {x}) \in Nat
  BY <1>1, FS_CardinalityType
<1> QED
  BY <1>1, <1>2

\* There are marks of as many sources as there are marks, or of fewer.
LEMMA FewSources ==
    ASSUME NEW marks, IsFiniteSet(marks)
    PROVE  /\ Cardinality(Tracked(marks)) \in Nat
           /\ Cardinality(Tracked(marks)) <= Cardinality(marks)
<1> DEFINE f == [m \in marks |-> m.source]
<1>1. f \in Surjection(marks, Tracked(marks))
  BY DEF Surjection, Tracked
<1> HIDE DEF f
<1> QED
  BY <1>1, FS_Surjection, FS_CardinalityType

\* Oldest is the time of a mark that no other precedes.
LEMMA OldestIsFirst ==
    ASSUME NEW marks \in SUBSET Mark, marks # {}
    PROVE  \E m \in marks : Oldest(marks) = m.time /\ \A o \in marks : m.time <= o.time
<1> DEFINE times == {m.time : m \in marks}
<1>1. times \subseteq Nat /\ times # {}
  BY Constants DEF Mark
<1>2. \E t \in times : \A u \in times : ~(<<u, t>> \in OpToRel(<, Nat))
  <2> HIDE DEF times
  <2> QED
    BY <1>1, WFMin, NatLessThanWellFounded
<1>3. PICK t \in times : \A u \in times : t <= u
  <2>1. PICK t \in times : \A u \in times : ~(<<u, t>> \in OpToRel(<, Nat))
    BY <1>2
  <2>2. ASSUME NEW u \in times
        PROVE  t <= u
    <3>1. u \in Nat /\ t \in Nat
      BY <1>1
    <3> HIDE DEF times
    <3>2. ~(u < t)
      BY <2>1, <2>2, <3>1 DEF OpToRel
    <3> QED
      BY <3>1, <3>2
  <2> QED
    BY <2>2
<1>4. Oldest(marks) \in times /\ \A m \in marks : Oldest(marks) <= m.time
  BY <1>3 DEF Oldest
<1> QED
  BY <1>4

-----------------------------------------------------------------------------
\* _prune keeps the marks in order.
LEMMA Pruned ==
    ASSUME NEW marks, MarksOK(marks)
    PROVE  MarksOK(Live(marks))
<1>1. Live(marks) \subseteq marks /\ \A s \in Sources : Of(s, Live(marks)) \subseteq Of(s, marks)
  BY DEF Live, Of
<1>2. \A s \in Sources : IsFiniteSet(Of(s, marks))
  BY Smaller DEF MarksOK, Of
<1>3. ASSUME NEW s \in Sources
      PROVE  Cardinality(Of(s, Live(marks))) <= PerSource
  <2>1. /\ Cardinality(Of(s, Live(marks))) <= Cardinality(Of(s, marks))
        /\ Cardinality(Of(s, Live(marks))) \in Nat /\ Cardinality(Of(s, marks)) \in Nat
    BY <1>1, <1>2, Smaller
  <2> QED
    BY <2>1, Constants DEF MarksOK
<1>4. /\ IsFiniteSet(Live(marks))
      /\ Cardinality(Live(marks)) <= Cardinality(marks)
      /\ Cardinality(Live(marks)) \in Nat /\ Cardinality(marks) \in Nat
  BY <1>1, Smaller DEF MarksOK
<1> QED
  BY <1>1, <1>3, <1>4, Constants DEF MarksOK

\* A table that holds as many sources as there may be marks never evicts one.
LEMMA NoEviction ==
    ASSUME NEW marks, MarksOK(marks), ~Full(marks), NEW s
    PROVE  Room(s, Live(marks)) = Live(marks)
<1>1. IsFiniteSet(Live(marks))
  BY Pruned DEF MarksOK
<1>2. Cardinality(Live(marks)) \in Nat /\ Cardinality(Live(marks)) < GlobalLimit
  BY <1>1, Constants, FS_CardinalityType DEF Full
<1>3. ~(Cardinality(Tracked(Live(marks))) >= MaxSources)
  BY <1>1, <1>2, FewSources, Constants
<1> QED
  BY <1>3 DEF Room

\* A mark that is only added below both limits keeps them.
LEMMA Added ==
    ASSUME now \in 0..MaxTime, NEW s \in Sources, NEW marks, MarksOK(marks),
           ~Full(marks), ~SourceFull(s, marks)
    PROVE  MarksOK(Live(marks) \cup {NewMark(s, marks)})
<1> DEFINE x == NewMark(s, marks)
           same == {m \in Of(s, marks) : m.time = now}
<1>1. MarksOK(Live(marks))
  BY Pruned
<1>2. Cardinality(Live(marks)) \in Nat /\ Cardinality(Live(marks)) < GlobalLimit
  BY <1>1, Constants, FS_CardinalityType DEF Full, MarksOK
<1>3. x \in Mark
  <2>1. same \subseteq Live(marks)
    BY Constants DEF Live, Of, Mark, MarksOK
  <2>2. Cardinality(same) \in Nat /\ Cardinality(same) <= Cardinality(Live(marks))
    BY <1>1, <2>1, Smaller DEF MarksOK
  <2>3. Cardinality(same) + 1 \in 1..GlobalLimit
    BY <1>2, <2>2, Constants
  <2> HIDE DEF same
  <2>4. x = [source |-> s, time |-> now, n |-> Cardinality(same) + 1]
    BY DEF NewMark, same
  <2> QED
    BY <2>3, <2>4 DEF Mark
<1>4. x.source = s
  BY DEF NewMark
<1> HIDE DEF x
<1>5. /\ IsFiniteSet(Live(marks) \cup {x})
      /\ Cardinality(Live(marks) \cup {x}) <= GlobalLimit
  <2>1. IsFiniteSet(Live(marks))
    BY <1>1 DEF MarksOK
  <2>2. /\ IsFiniteSet(Live(marks) \cup {x})
        /\ Cardinality(Live(marks) \cup {x}) \in Nat
        /\ Cardinality(Live(marks) \cup {x}) <= Cardinality(Live(marks)) + 1
    BY <2>1, OneMore
  <2> QED
    BY <1>2, <2>2, Constants
<1>6. ASSUME NEW r \in Sources
      PROVE  Cardinality(Of(r, Live(marks) \cup {x})) <= PerSource
  <2>1. CASE r = s
    <3>1. Of(r, Live(marks) \cup {x}) = Of(s, Live(marks)) \cup {x}
      BY <1>4, <2>1 DEF Of
    <3>2. IsFiniteSet(Of(s, Live(marks)))
      BY <1>1, Smaller DEF MarksOK, Of
    <3>3. Cardinality(Of(s, Live(marks))) < PerSource
      BY <3>2, FS_CardinalityType, Constants DEF SourceFull
    <3> QED
      <4>1. /\ Cardinality(Of(s, Live(marks)) \cup {x}) \in Nat
            /\ Cardinality(Of(s, Live(marks))) \in Nat
            /\ Cardinality(Of(s, Live(marks)) \cup {x}) <= Cardinality(Of(s, Live(marks))) + 1
        BY <3>2, OneMore
      <4> QED
        BY <3>1, <3>3, <4>1, Constants
  <2>2. CASE r # s
    <3>1. Of(r, Live(marks) \cup {x}) = Of(r, Live(marks))
      BY <1>4, <2>2 DEF Of
    <3> QED
      BY <1>1, <3>1 DEF MarksOK
  <2> QED
    BY <2>1, <2>2
<1>7. MarksOK(Live(marks) \cup {x})
  BY <1>1, <1>3, <1>5, <1>6 DEF MarksOK
<1> QED
  BY <1>7 DEF x

-----------------------------------------------------------------------------
\* The actions in the terms of the lemmas.
LEMMA TypeOKMarks ==
    TypeOK <=> /\ now \in 0..MaxTime
               /\ MarksOK(starts) /\ startTable \subseteq Mark
               /\ MarksOK(failures) /\ failureTable \subseteq Mark
               /\ startAgain \in [Sources -> Nat]
               /\ backoffAgain \in [Sources -> Nat]
  BY DEF TypeOK, MarksOK

\* Adding a start adds one mark to both tables and forgets none that is live.
LEMMA StartAdded ==
    ASSUME TypeOK, NobodyForgotten, NEW s \in Sources,
           ~SourceFull(s, startTable), ~Full(starts), AddsStart(s)
    PROVE  MarksOK(starts)' /\ startTable' = starts'
<1>1. MarksOK(starts) /\ now \in 0..MaxTime /\ startTable = starts
  BY TypeOKMarks DEF NobodyForgotten
<1>2. Room(s, Live(starts)) = Live(starts)
  BY <1>1, NoEviction
<1>3. MarksOK(Live(starts) \cup {NewMark(s, starts)})
  BY <1>1, Added
<1>4. starts' = Live(starts) \cup {NewMark(s, starts)} /\ startTable' = starts'
  BY <1>1, <1>2 DEF AddsStart
<1> QED
  BY <1>3, <1>4 DEF MarksOK, Of

\* So does adding a failure.
LEMMA FailureAdded ==
    ASSUME TypeOK, NobodyForgotten, NEW s \in Sources, ~BackingOff(s), AddsFailure(s)
    PROVE  MarksOK(failures)' /\ failureTable' = failures'
<1>1. MarksOK(failures) /\ now \in 0..MaxTime /\ failureTable = failures
  BY TypeOKMarks DEF NobodyForgotten
<1>2. ~Full(failures) /\ ~SourceFull(s, failures)
  BY <1>1 DEF BackingOff
<1>3. Room(s, Live(failures)) = Live(failures)
  BY <1>1, <1>2, NoEviction
<1>4. MarksOK(Live(failures) \cup {NewMark(s, failures)})
  BY <1>1, <1>2, Added
<1>5. failures' = Live(failures) \cup {NewMark(s, failures)} /\ failureTable' = failures'
  BY <1>1, <1>3 DEF AddsFailure
<1> QED
  BY <1>4, <1>5 DEF MarksOK, Of

\* Pruning keeps both tables of either limiter the same.
LEMMA StartsPruned ==
    ASSUME TypeOK, NobodyForgotten, PrunesStarts
    PROVE  MarksOK(starts)' /\ startTable' = starts'
<1>1. MarksOK(Live(starts))
  BY TypeOKMarks, Pruned
<1>2. starts' = Live(starts) /\ startTable' = starts'
  BY DEF PrunesStarts, NobodyForgotten
<1> QED
  BY <1>1, <1>2 DEF MarksOK, Of

\* The same of the failures.
LEMMA FailuresPruned ==
    ASSUME TypeOK, NobodyForgotten, PrunesFailures
    PROVE  MarksOK(failures)' /\ failureTable' = failures'
<1>1. MarksOK(Live(failures))
  BY TypeOKMarks, Pruned
<1>2. failures' = Live(failures) /\ failureTable' = failures'
  BY DEF PrunesFailures, NobodyForgotten
<1> QED
  BY <1>1, <1>2 DEF MarksOK, Of

\* A full source or a full limiter has an oldest mark, whose time is a number.
LEMMA OldestOfFull ==
    ASSUME NEW marks, MarksOK(marks), NEW s \in Sources
    PROVE  /\ Full(marks) =>
                \E m \in Live(marks) :
                    Oldest(Live(marks)) = m.time /\ \A o \in Live(marks) : m.time <= o.time
           /\ SourceFull(s, marks) =>
                \E m \in Of(s, Live(marks)) :
                    /\ Oldest(Of(s, Live(marks))) = m.time
                    /\ \A o \in Of(s, Live(marks)) : m.time <= o.time
<1>1. Live(marks) \in SUBSET Mark /\ Of(s, Live(marks)) \in SUBSET Mark
  BY DEF Live, Of, MarksOK
<1>2. Full(marks) => Live(marks) # {}
  BY FS_EmptySet, Constants DEF Full
<1>3. SourceFull(s, marks) => Of(s, Live(marks)) # {}
  BY FS_EmptySet, Constants DEF SourceFull
<1> QED
  BY <1>1, <1>2, <1>3, OldestIsFirst

-----------------------------------------------------------------------------
\* Rounded up to whole seconds, a delay is not shorter.
LEMMA ToldSuffices ==
    ASSUME NEW delay \in Nat
    PROVE  Told(delay) \in Nat /\ Told(delay) >= delay
<1>1. Second \in Nat /\ Second > 0
  BY Constants
<1>2. /\ Second * ((delay + Second - 1) \div Second) >= delay
      /\ (delay + Second - 1) \div Second \in Nat
  BY <1>1, Z3
<1> QED
  BY <1>1, <1>2 DEF Told

\* At the time that is told for it, a live mark has expired.
LEMMA RetrySuffices ==
    ASSUME now \in Nat, NEW t \in Nat, t + Window > now
    PROVE  RetryAt(t) \in Nat /\ t + Window <= RetryAt(t)
<1>1. Window + t - now \in Nat
  BY Constants
<1>2. Told(Window + t - now) \in Nat /\ Told(Window + t - now) >= Window + t - now
  BY <1>1, ToldSuffices
<1> QED
  BY <1>1, <1>2, Constants DEF RetryAt

\* A set of marks that is not above a limit is below it when one of them has expired.
LEMMA Loosened ==
    ASSUME NEW marks \in SUBSET Mark, IsFiniteSet(marks),
           NEW limit \in Nat, Cardinality(marks) <= limit,
           NEW m \in marks, NEW t \in Nat, m.time + Window <= t
    PROVE  Cardinality(Later(marks, t)) < limit
<1>1. m.time \in Nat
  BY Constants DEF Mark
<1>2. Later(marks, t) \subseteq marks \ {m}
  BY <1>1, Constants DEF Later
<1>3. Cardinality(Later(marks, t)) < Cardinality(marks)
  BY <1>2, StrictlySmaller
<1>4. Cardinality(Later(marks, t)) \in Nat /\ Cardinality(marks) \in Nat
  BY <1>2, Smaller, FS_CardinalityType DEF Later
<1> QED
  BY <1>3, <1>4

\* Nor is it above it again when some are gone.
LEMMA StaysLoosened ==
    ASSUME NEW marks, IsFiniteSet(marks), NEW fewer \in SUBSET marks, NEW t,
           NEW limit \in Nat, Cardinality(Later(marks, t)) < limit
    PROVE  Cardinality(Later(fewer, t)) < limit
<1>1. Later(fewer, t) \subseteq Later(marks, t) /\ IsFiniteSet(Later(marks, t))
  BY Smaller DEF Later
<1>2. /\ Cardinality(Later(fewer, t)) \in Nat /\ Cardinality(Later(marks, t)) \in Nat
      /\ Cardinality(Later(fewer, t)) <= Cardinality(Later(marks, t))
  BY <1>1, Smaller
<1> QED
  BY <1>2

\* What holds of the marks that are live at time t holds when some are gone.
LEMMA PromiseKept ==
    ASSUME NEW marks, IsFiniteSet(marks), NEW fewer \in SUBSET marks, NEW t, NEW s,
           Cardinality(Later(Of(s, marks), t)) < PerSource,
           Cardinality(Later(marks, t)) < GlobalLimit
    PROVE  /\ Cardinality(Later(Of(s, fewer), t)) < PerSource
           /\ Cardinality(Later(fewer, t)) < GlobalLimit
<1>1. Of(s, fewer) \subseteq Of(s, marks) /\ IsFiniteSet(Of(s, marks))
  BY Smaller DEF Of
<1> QED
  BY <1>1, StaysLoosened, Constants

\* The mark a refusal is answered with is gone at the time it tells.
LEMMA PromiseMade ==
    ASSUME TypeOK, NobodyForgotten, NEW s \in Sources, StartRefused(s)
    PROVE  /\ startAgain'[s] \in Nat
           /\ Cardinality(Later(Of(s, starts'), startAgain'[s])) < PerSource
           /\ Cardinality(Later(starts', startAgain'[s])) < GlobalLimit
<1> DEFINE live == Live(starts)
           mine == Of(s, live)
           told == startAgain'[s]
<1>1. /\ startTable = starts /\ MarksOK(starts) /\ MarksOK(live) /\ starts' = live
      /\ startAgain \in [Sources -> Nat]
  BY TypeOKMarks, Pruned DEF NobodyForgotten, StartRefused, PrunesStarts
<1>2. told = RetryAt(IF SourceFull(s, starts) THEN Oldest(mine) ELSE Oldest(live))
  BY <1>1 DEF StartRefused
<1>3. /\ IsFiniteSet(live) /\ IsFiniteSet(mine)
      /\ live \subseteq Mark /\ mine \subseteq live
      /\ Cardinality(live) <= GlobalLimit /\ Cardinality(mine) <= PerSource
      /\ Cardinality(mine) \in Nat
  <2>1. /\ IsFiniteSet(live) /\ live \subseteq Mark /\ mine \subseteq live
        /\ Cardinality(live) <= GlobalLimit /\ Cardinality(mine) <= PerSource
    BY <1>1 DEF MarksOK, Of
  <2>2. IsFiniteSet(mine)
    BY <2>1, Smaller DEF Of
  <2> QED
    BY <2>1, <2>2, FS_CardinalityType
<1>4. ASSUME NEW m \in live, told = RetryAt(m.time)
      PROVE  told \in Nat /\ m.time + Window <= told
  BY <1>3, <1>4, TypeOKMarks, RetrySuffices, Constants DEF Mark, Live
<1>5. CASE SourceFull(s, starts)
  <2>1. PICK m \in mine : Oldest(mine) = m.time
    BY <1>1, <1>5, OldestOfFull
  <2>2. told \in Nat /\ m.time + Window <= told
    BY <1>2, <1>3, <1>4, <1>5, <2>1
  <2> HIDE DEF live, mine, told
  <2>3. Cardinality(Later(mine, told)) < PerSource /\ Cardinality(Later(live, told)) < GlobalLimit
    BY <1>3, <2>1, <2>2, Loosened, Constants
  <2> QED
    BY <1>1, <2>2, <2>3 DEF live, mine, told
<1>6. CASE ~SourceFull(s, starts)
  <2>1. Full(starts) /\ Cardinality(mine) < PerSource
    BY <1>1, <1>3, <1>6, Constants DEF StartRefused, SourceFull
  <2>2. PICK m \in live : Oldest(live) = m.time
    BY <1>1, <2>1, OldestOfFull
  <2>3. told \in Nat /\ m.time + Window <= told
    BY <1>2, <1>4, <1>6, <2>2
  <2> HIDE DEF live, mine, told
  <2>4. Cardinality(Later(live, told)) < GlobalLimit
    BY <1>3, <2>2, <2>3, Loosened, Constants
  <2>5. Cardinality(Later(mine, told)) < PerSource
    <3>1. Later(mine, told) \subseteq mine
      BY DEF Later
    <3> QED
      BY <1>3, <2>1, <3>1, Smaller, Constants
  <2> QED
    BY <1>1, <2>3, <2>4, <2>5 DEF live, mine, told
<1> QED
  BY <1>5, <1>6

\* The mark a BackOff is answered with is gone at the time it tells, which loosens one limit.
LEMMA BackoffMade ==
    ASSUME TypeOK, NobodyForgotten, NEW s \in Sources, BackingOff(s)
    PROVE  /\ BackoffEnds(s) \in Nat
           /\ \/ Cardinality(Later(Of(s, Live(failures)), BackoffEnds(s))) < PerSource
              \/ Cardinality(Later(Live(failures), BackoffEnds(s))) < GlobalLimit
<1> DEFINE live == Live(failures)
           mine == Of(s, live)
<1>1. /\ failureTable = failures /\ MarksOK(failures) /\ MarksOK(live)
      /\ live \subseteq Mark /\ mine \subseteq live
  BY TypeOKMarks, Pruned DEF NobodyForgotten, MarksOK, Live, Of
<1>2. Candidates(s) = (IF Full(failures) THEN {Oldest(live)} ELSE {})
                      \cup (IF SourceFull(s, failures) THEN {Oldest(mine)} ELSE {})
  BY <1>1 DEF Candidates
<1>3. Full(failures) => \E m \in live : Oldest(live) = m.time
  BY <1>1, OldestOfFull
<1>4. SourceFull(s, failures) => \E m \in mine : Oldest(mine) = m.time
  BY <1>1, OldestOfFull
<1>5. Full(failures) \/ SourceFull(s, failures)
  BY <1>1 DEF BackingOff
<1>6. \A m \in live : m.time \in Nat /\ m.time + Window > now
  BY <1>1, Constants DEF Mark, Live
<1>7. /\ IsFiniteSet(live) /\ IsFiniteSet(mine)
      /\ Cardinality(live) <= GlobalLimit /\ Cardinality(mine) <= PerSource
  <2>1. IsFiniteSet(live) /\ Cardinality(live) <= GlobalLimit /\ Cardinality(mine) <= PerSource
    BY <1>1 DEF MarksOK
  <2> QED
    BY <1>1, <2>1, Smaller
<1> HIDE DEF live, mine
<1>8. \A t \in Candidates(s) :
          \/ \E m \in live : t = m.time
          \/ \E m \in mine : t = m.time
  BY <1>2, <1>3, <1>4
<1>9. Candidates(s) \subseteq Nat
  BY <1>1, <1>6, <1>8
<1>10. \E t \in Candidates(s) : \A u \in Candidates(s) : t <= u
  <2>1. CASE Full(failures) /\ SourceFull(s, failures)
    <3>1. Candidates(s) = {Oldest(live), Oldest(mine)}
      BY <1>2, <2>1
    <3>2. CASE Oldest(live) <= Oldest(mine)
      BY <1>9, <3>1, <3>2
    <3>3. CASE ~(Oldest(live) <= Oldest(mine))
      BY <1>9, <3>1, <3>3
    <3> QED
      BY <3>2, <3>3
  <2>2. CASE Full(failures) /\ ~SourceFull(s, failures)
    BY <1>2, <1>9, <2>2
  <2>3. CASE ~Full(failures) /\ SourceFull(s, failures)
    BY <1>2, <1>9, <2>3
  <2> QED
    BY <1>5, <2>1, <2>2, <2>3
<1>11. PICK t \in Candidates(s) : BackoffEnds(s) = RetryAt(t)
  BY <1>10 DEF BackoffEnds
<1>12. now \in Nat
  BY TypeOKMarks
<1>13. BackoffEnds(s) \in Nat /\ t + Window <= BackoffEnds(s)
  BY <1>1, <1>6, <1>8, <1>11, <1>12, RetrySuffices
<1>14. CASE \E m \in live : t = m.time
  BY <1>1, <1>7, <1>13, <1>14, Loosened, Constants DEF live
<1>15. CASE \E m \in mine : t = m.time
  BY <1>1, <1>7, <1>13, <1>15, Loosened, Constants DEF live, mine
<1> QED
  BY <1>8, <1>14, <1>15

\* A promise about failures outlives their pruning.
LEMMA BackoffKept ==
    ASSUME TypeOK, BackoffPromised, PrunesFailures, NEW s \in Sources,
           backoffAgain[s] # 0
    PROVE  \/ Cardinality(Later(Of(s, failures'), backoffAgain[s])) < PerSource
           \/ Cardinality(Later(failures', backoffAgain[s])) < GlobalLimit
<1>1. /\ failures' \subseteq failures /\ Of(s, failures') \subseteq Of(s, failures)
      /\ IsFiniteSet(failures)
  BY TypeOKMarks DEF PrunesFailures, Live, Of, MarksOK
<1>2. IsFiniteSet(Of(s, failures))
  BY <1>1, Smaller DEF Of
<1>3. \/ Cardinality(Later(Of(s, failures), backoffAgain[s])) < PerSource
      \/ Cardinality(Later(failures, backoffAgain[s])) < GlobalLimit
  BY DEF BackoffPromised
<1> QED
  BY <1>1, <1>2, <1>3, StaysLoosened, Constants

-----------------------------------------------------------------------------
\* The inductive invariant, one action at a time.
LEMMA GuardrailsStep ==
    ASSUME GuardrailsInv, [Next]_vars
    PROVE  GuardrailsInv'
<1> USE DEF GuardrailsInv
<1>1. CASE \E s \in Sources : StartRefused(s)
  <2>1. PICK s \in Sources : StartRefused(s)
    BY <1>1
  <2>2. MarksOK(starts)' /\ startTable' = starts'
    BY <2>1, StartsPruned DEF StartRefused
  <2>3. /\ startAgain'[s] \in Nat
        /\ Cardinality(Later(Of(s, starts'), startAgain'[s])) < PerSource
        /\ Cardinality(Later(starts', startAgain'[s])) < GlobalLimit
    BY <2>1, PromiseMade
  <2>4. startAgain' = [startAgain EXCEPT ![s] = startAgain'[s]] /\ UNCHANGED <<now, failureVars>>
    BY <2>1, TypeOKMarks DEF StartRefused
  <2>5. startAgain' \in [Sources -> Nat]
    BY <2>3, <2>4, TypeOKMarks
  <2>6. Promised'
    <3>1. starts' \subseteq starts /\ IsFiniteSet(starts)
      BY <2>1, TypeOKMarks DEF StartRefused, PrunesStarts, Live, MarksOK
    <3>2. ASSUME NEW r \in Sources, r # s, startAgain'[r] # 0
          PROVE  /\ Cardinality(Later(Of(r, starts'), startAgain'[r])) < PerSource
                 /\ Cardinality(Later(starts', startAgain'[r])) < GlobalLimit
      <4>1. startAgain'[r] = startAgain[r]
        BY <2>4, <3>2, TypeOKMarks
      <4>2. /\ Cardinality(Later(Of(r, starts), startAgain[r])) < PerSource
            /\ Cardinality(Later(starts, startAgain[r])) < GlobalLimit
        BY <3>2, <4>1 DEF Promised
      <4> QED
        BY <3>1, <4>1, <4>2, PromiseKept
    <3> QED
      BY <2>3, <3>2 DEF Promised, Later, Of
  <2>7. MarksOK(failures)' /\ TypeOK'
    BY <2>2, <2>4, <2>5, TypeOKMarks DEF failureVars, MarksOK, Of, TypeOK
  <2> QED
    BY <2>2, <2>4, <2>6, <2>7 DEF NobodyForgotten, BackoffPromised, failureVars, Later, Of
<1>2. ASSUME NEW s \in Sources, StartCounted(s),
             \/ UNCHANGED failureVars
             \/ PrunesFailures /\ backoffAgain' \in [Sources -> Nat] /\ BackoffPromised'
      PROVE  GuardrailsInv'
  <2>1. MarksOK(starts)' /\ startTable' = starts'
    BY <1>2, StartAdded DEF StartCounted
  <2>2. MarksOK(failures)' /\ failureTable' = failures' /\ backoffAgain' \in [Sources -> Nat]
    <3>1. CASE UNCHANGED failureVars
      BY <3>1, TypeOKMarks DEF failureVars, NobodyForgotten, MarksOK, Of
    <3>2. CASE PrunesFailures /\ backoffAgain' \in [Sources -> Nat]
      BY <3>2, FailuresPruned
    <3> QED
      BY <1>2, <3>1, <3>2
  <2>3. startAgain' = [r \in Sources |-> 0] /\ now' = now
    BY <1>2 DEF StartCounted
  <2>4. Promised'
    BY <2>3 DEF Promised
  <2>5. BackoffPromised'
    BY <1>2 DEF BackoffPromised, failureVars, Later, Of
  <2>6. TypeOK'
    BY <2>1, <2>2, <2>3, TypeOKMarks DEF MarksOK, Of, TypeOK
  <2> QED
    BY <2>1, <2>2, <2>4, <2>5, <2>6 DEF NobodyForgotten
<1>3. CASE \E s \in Sources : StartWhileResetting(s)
  BY <1>2, <1>3 DEF StartWhileResetting
<1>4. CASE \E s \in Sources : StartHeldBack(s) \/ StartAllowed(s)
  <2>1. PICK s \in Sources : StartHeldBack(s) \/ StartAllowed(s)
    BY <1>4
  <2>2. StartCounted(s) /\ PrunesFailures
    BY <2>1 DEF StartHeldBack, StartAllowed
  <2>3. PICK t \in Nat :
            /\ backoffAgain' = [backoffAgain EXCEPT ![s] = t]
            /\ t # 0 => \/ Cardinality(Later(Of(s, Live(failures)), t)) < PerSource
                        \/ Cardinality(Later(Live(failures), t)) < GlobalLimit
    BY <2>1, BackoffMade DEF StartHeldBack, StartAllowed
  <2>4. backoffAgain \in [Sources -> Nat] /\ backoffAgain' \in [Sources -> Nat]
    BY <2>3, TypeOKMarks
  <2>5. BackoffPromised'
    <3>1. ASSUME NEW r \in Sources, backoffAgain'[r] # 0
          PROVE  \/ Cardinality(Later(Of(r, failures'), backoffAgain'[r])) < PerSource
                 \/ Cardinality(Later(failures', backoffAgain'[r])) < GlobalLimit
      <4>1. CASE r = s
        BY <2>2, <2>3, <2>4, <3>1, <4>1 DEF PrunesFailures
      <4>2. CASE r # s
        <5>1. backoffAgain'[r] = backoffAgain[r]
          BY <2>3, <2>4, <4>2
        <5> QED
          BY <2>2, <3>1, <5>1, BackoffKept
      <4> QED
        BY <4>1, <4>2
    <3> QED
      BY <3>1 DEF BackoffPromised, Later, Of
  <2> QED
    BY <1>2, <2>2, <2>4, <2>5
<1>5. CASE \E s \in Sources : FailureDropped(s) \/ FailureCounted(s)
  <2>1. PICK s \in Sources : FailureDropped(s) \/ FailureCounted(s)
    BY <1>5
  <2>2. UNCHANGED <<now, startVars>>
    BY <2>1 DEF FailureDropped, FailureCounted
  <2>3. MarksOK(failures)' /\ failureTable' = failures'
    BY <2>1, FailuresPruned, FailureAdded DEF FailureDropped, FailureCounted
  <2>4. backoffAgain' \in [Sources -> Nat]
    BY <2>1, TypeOKMarks DEF FailureDropped, FailureCounted
  <2>5. MarksOK(starts)' /\ startTable' = starts' /\ Promised'
    BY <2>2, TypeOKMarks DEF startVars, NobodyForgotten, Promised, MarksOK, Of, Later
  <2>6. TypeOK'
    BY <2>2, <2>3, <2>4, <2>5, TypeOKMarks DEF startVars, MarksOK, Of, TypeOK
  <2>7. BackoffPromised'
    <3>1. CASE FailureDropped(s)
      BY <3>1, BackoffKept DEF FailureDropped, BackoffPromised, Later, Of
    <3>2. CASE FailureCounted(s)
      BY <3>2 DEF FailureCounted, BackoffPromised
    <3> QED
      BY <2>1, <3>1, <3>2
  <2> QED
    BY <2>3, <2>5, <2>6, <2>7 DEF NobodyForgotten
<1>6. CASE Tick \/ UNCHANGED vars
  <2>1. UNCHANGED <<startVars, failureVars>> /\ now' \in 0..MaxTime
    BY <1>6, TypeOKMarks, Constants DEF Tick, vars
  <2> QED
    BY <2>1
    DEF startVars, failureVars, TypeOK, NobodyForgotten, Promised, BackoffPromised, Of, Later
<1> QED
  BY <1>1, <1>3, <1>4, <1>5, <1>6 DEF Next

\* It holds at first: there are no marks and nothing was told.
LEMMA GuardrailsInit == Init => GuardrailsInv
<1> SUFFICES ASSUME Init PROVE GuardrailsInv
  OBVIOUS
<1>1. MarksOK({})
  <2>1. \A s : Of(s, {}) = {}
    BY DEF Of
  <2> QED
    BY <2>1, FS_EmptySet, Constants DEF MarksOK
<1>2. TypeOK
  BY <1>1, TypeOKMarks, Constants DEF Init
<1> QED
  BY <1>2 DEF GuardrailsInv, Init, NobodyForgotten, Promised, BackoffPromised

-----------------------------------------------------------------------------
\* The inductive invariant holds in every reachable state.
THEOREM GuardrailsInvariant == Spec => []GuardrailsInv
  BY GuardrailsInit, GuardrailsStep, PTL DEF Spec

\* Type correctness; with it, no more starts and no more failures are on record than the limits
\* allow, for all sources together and for each.
THEOREM GuardrailsTypes == Spec => []TypeOK
<1>1. GuardrailsInv => TypeOK
  BY DEF GuardrailsInv
<1> QED
  BY <1>1, GuardrailsInvariant, PTL

\* Whatever addresses the peers come from, popitem never runs: the two tables and the two global
\* deques always hold the same marks.
THEOREM NeverForgotten == Spec => []NobodyForgotten
<1>1. GuardrailsInv => NobodyForgotten
  BY DEF GuardrailsInv
<1> QED
  BY <1>1, GuardrailsInvariant, PTL

\* A limit that is not reached by the marks of time t is not reached later.
LEMMA PromiseMet ==
    ASSUME now \in Nat, NEW marks \in SUBSET Mark, IsFiniteSet(marks),
           NEW t \in Nat, now >= t, NEW limit \in Nat, Cardinality(Later(marks, t)) < limit
    PROVE  ~(Cardinality(Live(marks)) >= limit)
<1>1. Live(marks) \subseteq Later(marks, t) /\ IsFiniteSet(Later(marks, t))
  BY Smaller, Constants DEF Live, Later, Mark
<1>2. /\ Cardinality(Live(marks)) \in Nat /\ Cardinality(Later(marks, t)) \in Nat
      /\ Cardinality(Live(marks)) <= Cardinality(Later(marks, t))
  BY <1>1, Smaller
<1> QED
  BY <1>2

\* The time after which admit lets a refused source try again is long enough, and that of a
\* BackOff for one of the limits of failures.
THEOREM RetriesAdmitted == Spec => []RetryAdmitted
<1>1. GuardrailsInv => RetryAdmitted
  <2> SUFFICES ASSUME GuardrailsInv PROVE RetryAdmitted
    OBVIOUS
  <2>1. /\ MarksOK(starts) /\ startTable = starts /\ MarksOK(failures) /\ failureTable = failures
        /\ now \in Nat /\ startAgain \in [Sources -> Nat] /\ backoffAgain \in [Sources -> Nat]
    BY TypeOKMarks DEF GuardrailsInv, NobodyForgotten
  <2>2. ASSUME NEW marks, MarksOK(marks), NEW s \in Sources, NEW t \in Nat, now >= t
        PROVE  /\ Cardinality(Later(Of(s, marks), t)) < PerSource => ~SourceFull(s, marks)
               /\ Cardinality(Later(marks, t)) < GlobalLimit => ~Full(marks)
    <3>1. /\ marks \in SUBSET Mark /\ Of(s, marks) \in SUBSET Mark
          /\ IsFiniteSet(marks) /\ IsFiniteSet(Of(s, marks))
      BY <2>2, Smaller DEF MarksOK, Of
    <3>2. Of(s, Live(marks)) = Live(Of(s, marks))
      BY DEF Of, Live
    <3> QED
      BY <2>1, <2>2, <3>1, <3>2, PromiseMet, Constants DEF SourceFull, Full
  <2>3. ASSUME NEW s \in Sources, startAgain[s] # 0, now >= startAgain[s]
        PROVE  ~SourceFull(s, startTable) /\ ~Full(starts)
    BY <2>1, <2>2, <2>3 DEF GuardrailsInv, Promised
  <2>4. ASSUME NEW s \in Sources, backoffAgain[s] # 0, now >= backoffAgain[s]
        PROVE  ~SourceFull(s, failureTable) \/ ~Full(failures)
    BY <2>1, <2>2, <2>4 DEF GuardrailsInv, BackoffPromised
  <2> QED
    BY <2>3, <2>4 DEF RetryAdmitted
<1> QED
  BY <1>1, GuardrailsInvariant, PTL
=============================================================================
