---------------------------- MODULE HoldSession ----------------------------
(***************************************************************************)
(* One phone's connection (BridgeCompanionService, companion/server.py):   *)
(* its TV Remote session, the relay's dwell detection for held swipes      *)
(* (companion/relay.py), the HoldRepeater that repeats a held key          *)
(* (companion/repeater.py), and the dispatch lane they all feed, which is  *)
(* here the FIFO of LaneContract.                                          *)
(*                                                                         *)
(* A frame is handled without an await, and so is everything it calls: the *)
(* repeater's cancellation, the purge of the lane and the end of the       *)
(* session are one step.  The repeat tasks and the lane run in between.    *)
(***************************************************************************)
EXTENDS Naturals, FiniteSets

CONSTANTS
    Connections, \* phones connected at the same time
    Keys,        \* the keys a held swipe can repeat
    NoKey,       \* _hold_dir is None
    NoOwner,     \* _dispatch_owner is None; no entry in _repeat_owners
    MaxQueue,    \* the lane's max_queue_size
    MaxSessions, \* bound: TV Remote sessions per connection
    MaxHolds,    \* bound: repeater generations per connection
    MaxRepeats,  \* max_hold, in repeats
    MaxCommands  \* bound: commands accepted by the lane

Owners == Connections \X (1..MaxSessions)
Holds == 1..MaxHolds
NoGeneration == 0

ASSUME HoldAssumption ==
    /\ MaxQueue \in Nat \ {0}
    /\ MaxSessions \in Nat /\ MaxHolds \in Nat
    /\ MaxRepeats \in Nat /\ MaxCommands \in Nat
    /\ NoKey \notin Keys
    /\ NoOwner \notin Owners

VARIABLES
    live, pending, atTV, delivered, \* the lane, as in LaneContract
    accepted,    \* how many commands the lane has accepted
    conn,        \* "open", "closing" (transport.close()) or "lost"
    authorized,  \* connections whose client is still paired
    sessions,    \* how many sessions each connection has begun
    session,     \* _dispatch_owner
    dir,         \* the relay's _hold_dir
    active,      \* the relay's _hold_active
    wasActive,   \* the relay's _hold_was_active
    held,        \* the repeater's _generations (and _tasks): the hold of each key, 0 if none
    holds,       \* the repeater's _next_generation
    repeatOwner, \* _repeat_owners
    task,        \* the repeat task of each hold
    answer,      \* the completion its pending repeat got
    repeats      \* how many repeats it has sent

laneVars  == <<live, pending, atTV, delivered, accepted>>
relayVars == <<dir, active, wasActive>>
holdVars  == <<held, repeatOwner, task>>
runVars   == <<holds, answer, repeats>>
connVars  == <<conn, sessions, session>>
vars == <<laneVars, relayVars, holdVars, runVars, connVars, authorized>>

Lane == INSTANCE LaneContract WITH
    Generations <- Holds, MaxPending <- MaxQueue + 1

TypeOK ==
    /\ live \subseteq Owners
    /\ pending \subseteq Lane!Command
    /\ atTV \in BOOLEAN
    /\ delivered \in 0..MaxCommands /\ accepted \in 0..MaxCommands
    /\ conn \in [Connections -> {"open", "closing", "lost"}]
    /\ authorized \subseteq Connections
    /\ sessions \in [Connections -> 0..MaxSessions]
    /\ session \in [Connections -> Owners \cup {NoOwner}]
    /\ dir \in [Connections -> Keys \cup {NoKey}]
    /\ active \in [Connections -> BOOLEAN]
    /\ wasActive \in [Connections -> BOOLEAN]
    /\ held \in [Connections -> [Keys -> Holds \cup {0}]]
    /\ holds \in [Connections -> 0..MaxHolds]
    /\ repeatOwner \in [Connections -> [Holds -> Owners \cup {NoOwner}]]
    /\ task \in [Connections ->
                   [Holds -> {"none", "sleeping", "sending", "cancelled", "ended"}]]
    /\ answer \in [Connections -> [Holds -> {"none", "done", "failed", "cancelled"}]]
    /\ repeats \in [Connections -> [Holds -> 0..MaxRepeats]]

Init ==
    /\ Lane!Init /\ accepted = 0
    /\ conn = [c \in Connections |-> "open"]
    /\ authorized = Connections
    /\ sessions = [c \in Connections |-> 0]
    /\ session = [c \in Connections |-> NoOwner]
    /\ dir = [c \in Connections |-> NoKey]
    /\ active = [c \in Connections |-> FALSE]
    /\ wasActive = [c \in Connections |-> FALSE]
    /\ held = [c \in Connections |-> [k \in Keys |-> 0]]
    /\ holds = [c \in Connections |-> 0]
    /\ repeatOwner = [c \in Connections |-> [g \in Holds |-> NoOwner]]
    /\ task = [c \in Connections |-> [g \in Holds |-> "none"]]
    /\ answer = [c \in Connections |-> [g \in Holds |-> "none"]]
    /\ repeats = [c \in Connections |-> [g \in Holds |-> 0]]

-----------------------------------------------------------------------------
(* The lane, as its callers use it.                                         *)

HasRoom == Cardinality(pending) < MaxQueue + (IF atTV THEN 1 ELSE 0)

Takes(o) == o \in live /\ HasRoom /\ accepted < MaxCommands

NewCommand(o, g) == [number |-> accepted + 1, owner |-> o, text |-> FALSE, gen |-> g]

\* submit(): a refused command is dropped.
Submits(c) ==
    IF session[c] # NoOwner /\ Takes(session[c])
    THEN /\ accepted' = accepted + 1
         /\ Lane!Accept(NewCommand(session[c], NoGeneration))
    ELSE UNCHANGED laneVars

-----------------------------------------------------------------------------
(* The repeater.                                                            *)

AllHeld(c) == {held[c][k] : k \in Keys} \ {0}

\* What cancel_generation removes: the repeats of holds G, under the owner each was started for.
TaggedBySession(c, G) ==                    \* faulty: cancel_owner in place of cancel_generation
    {x \in pending : \E g \in G : x.owner = repeatOwner[c][g]}
Tagged(c, G) == {x \in pending : x.gen \in G /\ x.owner = repeatOwner[c][x.gen]}

\* faulty: the handles go, but no task is cancelled
ForgetsTasks(c, G, ending) ==
    /\ held' = [held EXCEPT ![c] = [k \in Keys |-> IF @[k] \in G THEN 0 ELSE @[k]]]
    /\ repeatOwner' = [repeatOwner EXCEPT ![c] = [g \in Holds |->
                          IF g \in G THEN NoOwner ELSE @[g]]]
    /\ task' = [task EXCEPT ![c] = [g \in Holds |-> IF g \in ending THEN "ended" ELSE @[g]]]

\* _cancel of the holds G: handles and owners go at once, the tasks end at their next step.  The
\* tasks that are ending have no await left to be cancelled at.
CancelsHolds(c, G, ending) ==
    /\ held' = [held EXCEPT ![c] = [k \in Keys |-> IF @[k] \in G THEN 0 ELSE @[k]]]
    /\ repeatOwner' = [repeatOwner EXCEPT ![c] = [g \in Holds |->
                          IF g \in G THEN NoOwner ELSE @[g]]]
    /\ task' = [task EXCEPT ![c] = [g \in Holds |->
                   IF g \in ending THEN "ended" ELSE IF g \in G THEN "cancelled" ELSE @[g]]]

StopsTasksOnly(c, G) ==                               \* faulty: on_stop is not wired to the lane
    CancelsHolds(c, G, {}) /\ UNCHANGED laneVars

StopsHolds(c, G) ==
    /\ CancelsHolds(c, G, {})
    /\ Lane!Withdraw(Tagged(c, G))
    /\ UNCHANGED <<live, accepted>>

\* faulty: STOP is emitted for the direction the swipe has turned to
TurnsFirst(c, d) == d
DirectionLeft(c, d) == dir[c]

\* The hold that _end_hold_if_active stops, if the relay has one active.
ActiveHold(c, d) ==
    IF active[c] /\ DirectionLeft(c, d) # NoKey
    THEN {held[c][DirectionLeft(c, d)]} \ {0} ELSE {}

-----------------------------------------------------------------------------
(* Sessions and connections.                                                *)

\* Every frame of an authenticated connection is preceded by an authorization check.
Handles(c) == conn[c] = "open" /\ c \in authorized

\* faulty: the holds are stopped, the session's other work stays queued
EndsHoldsOnly(c, ending) ==
    /\ CancelsHolds(c, AllHeld(c), ending)
    /\ Lane!Withdraw(Tagged(c, AllHeld(c)))

\* _invalidate_repeaters and _end_dispatch_session.
EndsSession(c, ending) ==
    /\ CancelsHolds(c, AllHeld(c), ending)
    /\ Lane!Withdraw(Tagged(c, AllHeld(c)) \cup {x \in pending : x.owner = session[c]})

\* TVRCSessionStart, also in the middle of a session: a fresh owner.
SessionStart(c) ==
    /\ Handles(c) /\ sessions[c] < MaxSessions
    /\ EndsSession(c, {})
    /\ sessions' = [sessions EXCEPT ![c] = @ + 1]
    /\ session' = [session EXCEPT ![c] = <<c, sessions[c] + 1>>]
    /\ live' = (live \ {session[c]}) \cup {<<c, sessions[c] + 1>>}
    /\ UNCHANGED <<accepted, relayVars, runVars, conn, authorized>>

SessionStop(c) ==
    /\ Handles(c)
    /\ EndsSession(c, {})
    /\ session' = [session EXCEPT ![c] = NoOwner]
    /\ live' = live \ {session[c]}
    /\ UNCHANGED <<accepted, relayVars, runVars, conn, sessions, authorized>>

Disconnects(c, next, ending) ==
    /\ EndsSession(c, ending)
    /\ session' = [session EXCEPT ![c] = NoOwner]
    /\ live' = live \ {session[c]}
    /\ conn' = [conn EXCEPT ![c] = next]
    /\ UNCHANGED <<accepted, sessions>>

\* A frame, the lane's worker or the Samsung client finds the client revoked, or a frame is
\* undecodable: _close_connection, before asyncio reports the connection lost.
Close(c) ==
    /\ conn[c] = "open"
    /\ Disconnects(c, "closing", {})
    /\ UNCHANGED <<relayVars, runVars, authorized>>

ConnectionLost(c) ==
    /\ conn[c] # "lost"
    /\ Disconnects(c, "lost", {})
    /\ UNCHANGED <<relayVars, runVars, authorized>>

AuthorityChanges(c) ==
    /\ authorized' = IF c \in authorized THEN authorized \ {c} ELSE authorized \cup {c}
    /\ UNCHANGED <<laneVars, relayVars, holdVars, runVars, connVars>>

-----------------------------------------------------------------------------
(* Frames.                                                                  *)

Button(c) ==
    /\ Handles(c)
    /\ Submits(c)
    /\ UNCHANGED <<relayVars, holdVars, runVars, connVars, authorized>>

ResetRelay(c) ==
    /\ dir' = [dir EXCEPT ![c] = NoKey]
    /\ active' = [active EXCEPT ![c] = FALSE]
    /\ wasActive' = [wasActive EXCEPT ![c] = FALSE]

\* A press whose release was lost ends the old hold.
TouchPress(c) ==
    /\ Handles(c)
    /\ StopsHolds(c, ActiveHold(c, dir[c]))
    /\ ResetRelay(c)
    /\ UNCHANGED <<runVars, connVars, authorized>>

\* The finger moves to another direction, or back to where it has none.
TouchTurns(c, d) ==
    /\ Handles(c) /\ d # dir[c]
    /\ StopsHolds(c, ActiveHold(c, d))
    /\ dir' = [dir EXCEPT ![c] = d]
    /\ active' = [active EXCEPT ![c] = FALSE]
    /\ UNCHANGED <<wasActive, runVars, connVars, authorized>>

\* repeater.start(key) after the immediate click was accepted.
HoldStarts(c, key) ==
    LET others == AllHeld(c) \ {held[c][key]}
        g      == holds[c] + 1
        click  == NewCommand(session[c], NoGeneration)
    IN  /\ accepted' = accepted + 1
        /\ pending' = (pending \ Tagged(c, others)) \cup {click}
        /\ atTV' = (atTV /\ \A x \in Tagged(c, others) : ~Lane!Oldest(x))
        /\ UNCHANGED delivered
        /\ IF held[c][key] # 0
           THEN UNCHANGED <<holdVars, holds>>
           ELSE /\ holds[c] < MaxHolds
                /\ holds' = [holds EXCEPT ![c] = g]
                /\ held' = [held EXCEPT ![c] = [k \in Keys |-> IF k = key THEN g ELSE 0]]
                /\ repeatOwner' = [repeatOwner EXCEPT ![c] = [h \in Holds |->
                      IF h = g THEN session[c] ELSE IF h \in others THEN NoOwner ELSE @[h]]]
                /\ task' = [task EXCEPT ![c] = [h \in Holds |->
                      IF h = g THEN "sleeping" ELSE IF h \in others THEN "cancelled" ELSE @[h]]]

\* The finger has dwelled long enough: START.
TouchDwells(c) ==
    /\ Handles(c) /\ dir[c] # NoKey /\ ~active[c]
    /\ IF session[c] # NoOwner /\ Takes(session[c])
       THEN HoldStarts(c, dir[c])
       ELSE UNCHANGED <<pending, atTV, delivered, accepted, holdVars, holds>>
    /\ active' = [active EXCEPT ![c] = TRUE]
    /\ wasActive' = [wasActive EXCEPT ![c] = TRUE]
    /\ UNCHANGED <<live, dir, answer, repeats, connVars, authorized>>

\* A release emits its discrete swipe or tap only if the gesture was no hold.
TouchRelease(c) ==
    /\ Handles(c)
    /\ \/ StopsHolds(c, ActiveHold(c, dir[c]))
       \/ ~wasActive[c] /\ Submits(c) /\ UNCHANGED holdVars
    /\ ResetRelay(c)
    /\ UNCHANGED <<runVars, connVars, authorized>>

\* _touchStop: the touch session ended, perhaps without a release.
TouchStop(c) ==
    /\ Handles(c)
    /\ StopsHolds(c, AllHeld(c))
    /\ UNCHANGED <<relayVars, runVars, connVars, authorized>>

-----------------------------------------------------------------------------
(* The repeat task of hold g of connection c: HoldRepeater._run.            *)

\* The task's finally clause: it clears its handle, unless it no longer has one.
TaskEnds(c, g) ==
    LET mine == {g} \cap AllHeld(c)
    IN  /\ CancelsHolds(c, mine, {g})
        /\ Lane!Withdraw(Tagged(c, mine))
        /\ UNCHANGED <<live, accepted>>

\* The cap max_hold is reached.
RepeatCapped(c, g) ==
    /\ task[c][g] = "sleeping"
    /\ TaskEnds(c, g)
    /\ UNCHANGED <<relayVars, runVars, connVars, authorized>>

\* _send_repeat_key finds the client revoked: it closes the connection, then raises.
RepeatRevoked(c, g) ==
    /\ task[c][g] = "sleeping"
    /\ c \notin authorized
    /\ Disconnects(c, IF conn[c] = "open" THEN "closing" ELSE conn[c], {g})
    /\ UNCHANGED <<relayVars, runVars, authorized>>

BelowCap(c, g) == repeats[c][g] < MaxRepeats

\* faulty: the repeat is submitted, and its completion not awaited
AwaitsNothing(c, g) == task' = [task EXCEPT ![c][g] = "sleeping"]
AwaitsAnswer(c, g) == task' = [task EXCEPT ![c][g] = "sending"]

RepeatSends(c, g) ==
    /\ task[c][g] = "sleeping" /\ BelowCap(c, g)
    /\ c \in authorized
    /\ LET o == repeatOwner[c][g]
       IN  IF o # NoOwner /\ Takes(o)
           THEN /\ accepted' = accepted + 1
                /\ Lane!Accept(NewCommand(o, g))
                /\ AwaitsAnswer(c, g)
                /\ answer' = [answer EXCEPT ![c][g] = "none"]
                /\ repeats' = [repeats EXCEPT ![c][g] = @ + 1]
                /\ UNCHANGED <<held, repeatOwner>>
           ELSE TaskEnds(c, g) /\ UNCHANGED <<answer, repeats>>
    /\ UNCHANGED <<relayVars, holds, connVars, authorized>>

\* The completion is done: sleep for the interval, or stop after an error.
RepeatAnswered(c, g) ==
    /\ task[c][g] = "sending" /\ answer[c][g] # "none"
    /\ IF answer[c][g] = "done"
       THEN /\ task' = [task EXCEPT ![c][g] = "sleeping"]
            /\ UNCHANGED <<laneVars, held, repeatOwner>>
       ELSE TaskEnds(c, g)
    /\ UNCHANGED <<relayVars, runVars, connVars, authorized>>

\* The CancelledError of a stopped hold is delivered; the drain that awaits the task goes on.
RepeatCancelled(c, g) ==
    /\ task[c][g] = "cancelled"
    /\ task' = [task EXCEPT ![c][g] = "ended"]
    /\ UNCHANGED <<laneVars, relayVars, held, repeatOwner, runVars, connVars, authorized>>

-----------------------------------------------------------------------------
(* The lane's worker.                                                       *)

LaneStarts ==
    /\ Lane!Start
    /\ UNCHANGED <<accepted, relayVars, holdVars, runVars, connVars, authorized>>

LaneWrites ==
    /\ \A x \in pending : Lane!Oldest(x) => x.owner[1] \in authorized
    /\ Lane!Deliver
    /\ UNCHANGED <<accepted, relayVars, holdVars, runVars, connVars, authorized>>

\* faulty: a failed dispatch does not fail the completion
AnswersSuccess(outcome) == outcome = "done"
Answers(outcome) == TRUE

LaneFinishes(outcome) ==
    /\ Lane!Finish
    /\ \E x \in pending :
          /\ Lane!Oldest(x)
          /\ answer' = IF x.gen = NoGeneration \/ ~Answers(outcome) THEN answer
                       ELSE [answer EXCEPT ![x.owner[1]][x.gen] = outcome]
    /\ UNCHANGED <<accepted, relayVars, holdVars, holds, repeats, connVars, authorized>>

-----------------------------------------------------------------------------
Frame(c) ==
    \/ SessionStart(c) \/ SessionStop(c) \/ Button(c)
    \/ TouchPress(c) \/ TouchDwells(c) \/ TouchRelease(c) \/ TouchStop(c)
    \/ \E d \in Keys \cup {NoKey} : TouchTurns(c, d)

RepeatTask(c, g) ==
    \/ RepeatCapped(c, g) \/ RepeatRevoked(c, g) \/ RepeatSends(c, g)
    \/ RepeatAnswered(c, g) \/ RepeatCancelled(c, g)

LaneWorker ==
    \/ LaneStarts
    \/ \E outcome \in {"done", "failed", "cancelled"} : LaneFinishes(outcome)

Next ==
    \/ \E c \in Connections :
          \/ Frame(c) \/ Close(c) \/ ConnectionLost(c) \/ AuthorityChanges(c)
          \/ \E g \in Holds : RepeatTask(c, g)
    \/ LaneWorker \/ LaneWrites

Spec == Init /\ [][Next]_vars

(* Fairness: asyncio runs every task whose timer or future is due, and the  *)
(* lane drains (DispatchLane, QueueDrains and NoStrandedCompletion).        *)
FairSpec ==
    /\ Spec
    /\ WF_vars(LaneWorker)
    /\ \A c \in Connections, g \in Holds : WF_vars(RepeatTask(c, g))

-----------------------------------------------------------------------------
(* Properties.                                                              *)

Repeating(c, g) == g \in AllHeld(c)

\* Everything in the lane is for the current session of an open connection: no path out of a
\* session, and no restart of one, leaves work behind.
WorkHasSession ==
    \A x \in pending : LET c == x.owner[1] IN conn[c] = "open" /\ session[c] = x.owner

\* A repeat is in the lane, or at the TV, only while its hold lasts - a release purges it - and a
\* hold never has two of them there, however slow the TV is.
RepeatHasHold ==
    /\ \A x \in pending : x.gen # NoGeneration => Repeating(x.owner[1], x.gen)
    /\ \A x, y \in pending :
          /\ x.gen # NoGeneration /\ y.gen # NoGeneration
          /\ x.owner[1] = y.owner[1]
          => x = y

\* The handles of the repeater, the owners of its generations and its running tasks agree, and what
\* it repeats is the key that the relay believes the finger to be holding: no sequence of presses,
\* turns, lost releases and session restarts leaves it running by itself.
HandlesAgree ==
    /\ \A c \in Connections, g \in Holds :
          /\ Repeating(c, g) <=> task[c][g] \in {"sleeping", "sending"}
          /\ Repeating(c, g) => repeatOwner[c][g] = session[c] /\ session[c] # NoOwner
          /\ ~Repeating(c, g) => repeatOwner[c][g] = NoOwner
    /\ \A c \in Connections, k \in Keys : held[c][k] # 0 => active[c] /\ dir[c] = k

\* Work leaves the lane when it is finished, or when its own session or its own hold ended: the end
\* of a hold keeps the session's clicks, and no phone's frames remove another phone's work.
OnlyOwnWorkWithdrawn ==
    [][\A x \in pending \ pending' :
          LET c == x.owner[1]
          IN  \/ atTV /\ Lane!Oldest(x)
              \/ session'[c] # x.owner
              \/ x.gen # NoGeneration /\ \A k \in Keys : held'[c][k] # x.gen]_vars

\* A hold whose release is lost ends by itself.
HoldsEnd == \A c \in Connections, g \in Holds : Repeating(c, g) ~> ~Repeating(c, g)
=============================================================================
