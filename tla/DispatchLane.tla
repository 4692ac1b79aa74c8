---------------------------- MODULE DispatchLane ----------------------------
(***************************************************************************)
(* CommandDispatchLane (companion/dispatch.py): the one bounded queue and  *)
(* the one asyncio worker task through which every Companion session's     *)
(* command reaches the Samsung client.                                     *)
(*                                                                         *)
(* Everything runs on one event loop, so what the code does between two    *)
(* awaits is one step here.  The worker's own synchronous stretch is the   *)
(* exception: it is cut into one step per popped command (worker =         *)
(* "running"), during which no other task may run, but the paired-client   *)
(* store, written by another process, may change.                          *)
(*                                                                         *)
(* The deque is a set of items that carry their position: append takes a   *)
(* position to the right of all others, popleft takes the leftmost one,    *)
(* and a filter leaves the positions of what it keeps alone.               *)
(* LaneContract states the same promises without worker, positions and     *)
(* futures.                                                                *)
(***************************************************************************)
EXTENDS Naturals, FiniteSets

CONSTANTS
    Owners,        \* session owners, a fresh object() per TV Remote session
    Generations,   \* hold generations, the tags of HoldRepeater
    NoGeneration,  \* the tag of ordinary, fire-and-forget commands
    NoItem,        \* _current is None
    AllWork,       \* the waiter that is join(), not a cancel_and_wait(owner)
    Waiters,       \* which waiters there are: AllWork and owners
    MaxQueue,      \* max_queue_size
    MaxCommands,   \* bound: how many commands are accepted in a behaviour
    SpuriousCancel \* may an awaited Samsung call raise CancelledError of itself

ASSUME LaneAssumption ==
    /\ MaxQueue \in Nat \ {0}
    /\ MaxCommands \in Nat
    /\ NoGeneration \notin Generations
    /\ AllWork \notin Owners
    /\ Waiters \subseteq Owners \cup {AllWork}
    /\ SpuriousCancel \in BOOLEAN

Commands == 1..MaxCommands

(* A _QueuedCommand.  at is its position in the deque and command the       *)
(* command it holds now, both numbered in order of submission; a delayed    *)
(* hold repeat has a generation and a completion future, which is named by  *)
(* its position.  The cancelled flag of an item is only ever read while it  *)
(* is the current one, so it is the variable cancelled.                     *)
Item == [at: Commands, command: Commands, owner: Owners, text: BOOLEAN,
         gen: Generations \cup {NoGeneration}]

ASSUME NoItemAssumption == NoItem \notin Item

VARIABLES
    owners,      \* the keys of _owners
    opened,      \* every owner activated so far
    evicted,     \* owners whose on_unauthorized callback has run
    authorized,  \* the owners whose authorize() would answer True now
    queue,       \* _queue
    current,     \* _current
    cancelled,   \* _current.cancelled
    completion,  \* the futures of the hold repeats
    accepted,    \* how many commands have been accepted
    lastSent,    \* the last command written to the Samsung websocket
    wake,        \* the asyncio.Event _wake
    worker,      \* where _worker_task is
    interrupt,   \* a cancel() of _worker_task not yet answered
    phase,       \* "open", "stopping" (_stopping is set) or "closed"
    waiters      \* tasks in join() and cancel_and_wait()

sessionVars == <<owners, opened, evicted>>
workVars    == <<queue, current, cancelled, completion>>
countVars   == <<accepted, lastSent>>
workerVars  == <<worker, interrupt>>

vars == <<owners, opened, evicted, authorized, queue, current, cancelled,
          completion, accepted, lastSent, wake, worker, interrupt, phase,
          waiters>>

-----------------------------------------------------------------------------
Types ==
    /\ owners \subseteq Owners
    /\ opened \subseteq Owners
    /\ evicted \subseteq Owners
    /\ authorized \subseteq Owners
    /\ queue \subseteq Item
    /\ current \in Item \cup {NoItem}
    /\ cancelled \in BOOLEAN
    /\ completion \in [Commands -> {"none", "pending", "done", "failed", "cancelled"}]
    /\ accepted \in 0..MaxCommands
    /\ lastSent \in 0..MaxCommands
    /\ wake \in BOOLEAN
    /\ worker \in {"none", "parked", "running", "dispatching", "ended"}
    /\ interrupt \in BOOLEAN
    /\ phase \in {"open", "stopping", "closed"}
    /\ waiters \in [Waiters -> {"idle", "parked", "woken"}]

\* Neither an append nor a coalesced text takes the deque over max_queue_size.
QueueBounded == Cardinality(queue) <= MaxQueue

TypeOK == Types /\ QueueBounded

Init ==
    /\ owners = {} /\ opened = {} /\ evicted = {}
    /\ authorized = Owners
    /\ queue = {} /\ current = NoItem /\ cancelled = FALSE
    /\ completion = [c \in Commands |-> "none"]
    /\ accepted = 0 /\ lastSent = 0
    /\ wake = FALSE
    /\ worker = "none" /\ interrupt = FALSE
    /\ phase = "open"
    /\ waiters = [w \in Waiters |-> "idle"]

-----------------------------------------------------------------------------
\* Another task may run: the worker is suspended in an await, or does not exist.
EventLoopFree == worker # "running"

WorkerAlive == worker \in {"parked", "running", "dispatching"}

\* The item at the right end, and the item popleft() returns.
IsTail(i) == i \in queue /\ \A j \in queue : j.at <= i.at
IsHead(i) == i \in queue /\ \A j \in queue : i.at <= j.at

HasRoomForOneMore == Cardinality(queue) <= MaxQueue   \* faulty: checked as after the append
HasRoom == Cardinality(queue) < MaxQueue

\* _wake.set()
SetNoWake == wake' = wake                            \* faulty: the event is not set
SetWake == wake' = TRUE

\* _worker_task.cancel() by another task, if the command being dispatched is concerned.
InterruptNothing(concerned) == interrupt' = interrupt                    \* faulty
InterruptAnything(concerned) == interrupt' = (interrupt \/ WorkerAlive)   \* faulty
InterruptDispatch(concerned) ==                                          \* faulty
    interrupt' = (interrupt \/ (concerned /\ worker = "dispatching"))
InterruptWorker(concerned) == interrupt' = (interrupt \/ (concerned /\ WorkerAlive))

\* _notify_state_change: resolve the future all parked waiters share.
Notified == [w \in Waiters |-> IF waiters[w] = "parked" THEN "woken" ELSE waiters[w]]

SettleResults(items, outcome) ==                     \* faulty: forgets cancelled futures
    [c \in Commands |->
        IF completion[c] = "pending" /\ outcome # "cancelled" /\ \E i \in items : i.at = c
        THEN outcome ELSE completion[c]]

\* Settle the futures of these items; a future that is done() stays as it is.
Settle(items, outcome) ==
    [c \in Commands |->
        IF completion[c] = "pending" /\ \E i \in items : i.at = c
        THEN outcome ELSE completion[c]]

CurrentOf(o) == {i \in {current} : i # NoItem /\ i.owner = o}
QueuedOf(o)  == {i \in queue : i.owner = o}

\* The commands of one hold: its delayed repeats, never its immediate first click.
TaggedByOwner(o, g) == QueuedOf(o) \cup CurrentOf(o)  \* faulty: ignores the generation
TaggedBy(o, g) == {i \in QueuedOf(o) \cup CurrentOf(o) : i.gen = g}

\* What a waiter waits for: join() the whole lane, cancel_and_wait its owner's command.
BusyFor(w) == IF w = AllWork THEN queue # {} \/ current # NoItem
                             ELSE current # NoItem /\ current.owner = w
-----------------------------------------------------------------------------
(* The session's side: activate, submit, cancel.                            *)

\* start(): a worker that does not exist, or has ended, is (re)created.
StartWorker == worker' = IF WorkerAlive THEN worker ELSE "parked"

Activate(o) ==
    /\ EventLoopFree
    /\ phase = "open"
    /\ o \notin opened
    /\ StartWorker
    /\ owners' = owners \cup {o}
    /\ opened' = opened \cup {o}
    /\ UNCHANGED <<evicted, authorized, workVars, countVars, wake, interrupt, phase, waiters>>

DropQueuedOnly(o) ==                                 \* faulty: spares the command in dispatch
    /\ owners' = owners \ {o}
    /\ queue' = queue \ QueuedOf(o)
    /\ completion' = Settle(QueuedOf(o), "cancelled")
    /\ SetWake
    /\ UNCHANGED <<opened, authorized, current, cancelled, countVars, workerVars, phase>>

\* _deactivate_owner(o) called from any task but the worker.
DropOwner(o) ==
    /\ owners' = owners \ {o}
    /\ queue' = queue \ QueuedOf(o)
    /\ completion' = Settle(QueuedOf(o) \cup CurrentOf(o), "cancelled")
    /\ cancelled' = (cancelled \/ CurrentOf(o) # {})
    /\ InterruptWorker(CurrentOf(o) # {})
    /\ SetWake
    /\ UNCHANGED <<opened, authorized, current, countVars, worker, phase>>

CancelOwner(o) ==
    /\ EventLoopFree
    /\ o \in opened
    /\ DropOwner(o)
    /\ waiters' = Notified
    /\ UNCHANGED evicted

CancelAndWait(o) ==
    /\ EventLoopFree
    /\ o \in opened \cap Waiters
    /\ DropOwner(o)
    /\ waiters' = [Notified EXCEPT ![o] = IF BusyFor(o) THEN "parked" ELSE "idle"]
    /\ UNCHANGED evicted

CancelGeneration(o, g) ==
    LET tagged == TaggedBy(o, g)
    IN  /\ EventLoopFree
        /\ tagged # {}
        /\ queue' = queue \ tagged
        /\ completion' = Settle(tagged, "cancelled")
        /\ cancelled' = (cancelled \/ current \in tagged)
        /\ InterruptWorker(current \in tagged)
        /\ SetWake
        /\ waiters' = Notified
        /\ UNCHANGED <<sessionVars, authorized, current, countVars, worker, phase>>

\* The conditions of _enqueue up to its authorization check.
Admits(o) == EventLoopFree /\ phase = "open" /\ o \in owners /\ accepted < MaxCommands

\* _enqueue finds the owner no longer authorized: the owner goes, the command is refused.
SubmitRevoked(o) ==
    /\ Admits(o)
    /\ o \notin authorized
    /\ DropOwner(o)
    /\ evicted' = evicted \cup {o}
    /\ waiters' = Notified

CoalescesAnywhere(i, o) == i.owner = o /\ i.gen = NoGeneration /\ i.text   \* faulty

\* Can a new text replace i, the newest queued command?
Coalesces(i, o) == IsTail(i) /\ i.owner = o /\ i.gen = NoGeneration /\ i.text

\* _enqueue rewrites the queued text at the tail, even when the queue is full.
SubmitCoalesced(o) ==
    /\ Admits(o)
    /\ o \in authorized
    /\ \E i \in queue :
          /\ Coalesces(i, o)
          /\ queue' = (queue \ {i}) \cup {[i EXCEPT !.command = accepted + 1]}
    /\ accepted' = accepted + 1
    /\ UNCHANGED <<sessionVars, authorized, current, cancelled, completion, lastSent,
                   wake, workerVars, phase, waiters>>

\* _enqueue appends; a full queue refuses, which changes nothing.
Enqueue(o, text, g) ==
    /\ Admits(o)
    /\ o \in authorized
    /\ ~(text /\ g = NoGeneration /\ \E i \in queue : Coalesces(i, o))
    /\ HasRoom
    /\ accepted' = accepted + 1
    /\ queue' = queue \cup {[at |-> accepted + 1, command |-> accepted + 1, owner |-> o,
                             text |-> text, gen |-> g]}
    /\ completion' = IF g = NoGeneration THEN completion
                     ELSE [completion EXCEPT ![accepted + 1] = "pending"]
    /\ SetWake
    /\ UNCHANGED <<sessionVars, authorized, current, cancelled, lastSent, workerVars,
                   phase, waiters>>

\* submit() carries a key or a text; submit_and_wait() a tagged repeat of a key.
Submit(o) == SubmitCoalesced(o) \/ \E text \in BOOLEAN : Enqueue(o, text, NoGeneration)
SubmitAndWait(o, g) == Enqueue(o, FALSE, g)

-----------------------------------------------------------------------------
(* The worker: _run.                                                        *)

WorkerWakes ==
    /\ worker = "parked" /\ wake /\ ~interrupt
    /\ worker' = "running"
    /\ UNCHANGED <<sessionVars, authorized, workVars, countVars, wake, interrupt, phase, waiters>>

\* popleft, then the last authorization check before the dispatch.
Refused(o) == o \notin owners \/ o \notin authorized

WorkerRefuses(i) ==
    /\ worker = "running" /\ IsHead(i)
    /\ Refused(i.owner)
    /\ evicted' = evicted \cup ({i.owner} \cap owners)
    /\ owners' = owners \ {i.owner}
    /\ queue' = queue \ QueuedOf(i.owner)
    /\ completion' = Settle(QueuedOf(i.owner), "cancelled")
    /\ SetWake
    /\ waiters' = Notified
    /\ UNCHANGED <<opened, authorized, current, cancelled, countVars, workerVars, phase>>

WorkerDispatches(i) ==
    /\ worker = "running" /\ IsHead(i)
    /\ ~Refused(i.owner)
    /\ queue' = queue \ {i}
    /\ current' = i
    /\ worker' = "dispatching"
    /\ UNCHANGED <<sessionVars, authorized, cancelled, completion, countVars, wake, interrupt,
                   phase, waiters>>

\* The queue is empty: clear the event and wait for it again.
WorkerParks ==
    /\ worker = "running" /\ queue = {}
    /\ worker' = "parked"
    /\ wake' = FALSE
    /\ UNCHANGED <<sessionVars, authorized, workVars, countVars, interrupt, phase, waiters>>

(* The await of the dispatch.  A pending cancel() is delivered at the       *)
(* innermost await of the Samsung call, so nothing else comes out of it.    *)
Dispatching == worker = "dispatching" /\ ~interrupt

\* require_authorized(), which the Samsung client calls immediately before each write.
MayWrite == current.owner \in authorized

Transmit ==
    /\ Dispatching
    /\ MayWrite
    /\ lastSent' = current.command
    /\ UNCHANGED <<sessionVars, authorized, workVars, accepted, wake, workerVars, phase, waiters>>

ClearQuietly ==                                      \* faulty: waiters are not notified
    current' = NoItem /\ cancelled' = FALSE /\ waiters' = waiters

\* The finally clause after every dispatch.
ClearCurrent == current' = NoItem /\ cancelled' = FALSE /\ waiters' = Notified

DispatchEnds(outcome) ==
    /\ Dispatching
    /\ completion' = Settle({current}, outcome)
    /\ ClearCurrent
    /\ worker' = "running"
    /\ UNCHANGED <<sessionVars, authorized, queue, countVars, wake, interrupt, phase>>

DispatchReturns == DispatchEnds("done")
DispatchFails   == DispatchEnds("failed")

\* AuthorizationRevoked: _deactivate_owner from the worker itself, which it must not cancel.
DispatchRevoked ==
    /\ Dispatching
    /\ ~MayWrite
    /\ evicted' = evicted \cup ({current.owner} \cap owners)
    /\ owners' = owners \ {current.owner}
    /\ queue' = queue \ QueuedOf(current.owner)
    /\ completion' = Settle(QueuedOf(current.owner) \cup {current}, "cancelled")
    /\ SetWake
    /\ ClearCurrent
    /\ worker' = "running"
    /\ UNCHANGED <<opened, authorized, countVars, interrupt, phase>>

\* A CancelledError is swallowed if it is about this item, and ends the worker otherwise.
SwallowsCancel == phase = "open" /\ (cancelled \/ current.owner \notin owners)

DispatchCancelled ==
    /\ worker = "dispatching"
    /\ interrupt \/ SpuriousCancel
    /\ completion' = Settle({current}, "cancelled")
    /\ worker' = IF SwallowsCancel THEN "running" ELSE "ended"
    /\ interrupt' = FALSE
    /\ ClearCurrent
    /\ UNCHANGED <<sessionVars, authorized, queue, countVars, wake, phase>>

\* The cancel() of close() finds the worker waiting for its event.
WaitCancelled ==
    /\ worker = "parked" /\ interrupt
    /\ worker' = "ended"
    /\ interrupt' = FALSE
    /\ ClearCurrent
    /\ UNCHANGED <<sessionVars, authorized, queue, completion, countVars, wake, phase>>

-----------------------------------------------------------------------------
(* Shutdown, the waiting tasks and the paired-client store.                 *)

\* close() up to its await of the worker task; without a live task it does not suspend.
CloseBegins ==
    /\ EventLoopFree
    /\ phase = "open"
    /\ phase' = IF WorkerAlive THEN "stopping" ELSE "closed"
    /\ worker' = IF WorkerAlive THEN worker ELSE "none"
    /\ owners' = {}
    /\ queue' = {}
    /\ completion' = Settle(queue \cup ({current} \ {NoItem}), "cancelled")
    /\ SetWake
    /\ cancelled' = (current # NoItem)
    /\ InterruptWorker(TRUE)
    /\ waiters' = IF WorkerAlive THEN waiters ELSE Notified
    /\ UNCHANGED <<opened, evicted, authorized, current, countVars>>

CloseEnds ==
    /\ phase = "stopping" /\ worker = "ended"
    /\ phase' = "closed"
    /\ worker' = "none"
    /\ ClearCurrent
    /\ UNCHANGED <<sessionVars, authorized, queue, completion, countVars, wake, interrupt>>

\* join() is called; it returns at once when the lane has no work.
Join ==
    /\ EventLoopFree
    /\ AllWork \in Waiters /\ waiters[AllWork] = "idle" /\ BusyFor(AllWork)
    /\ waiters' = [waiters EXCEPT ![AllWork] = "parked"]
    /\ UNCHANGED <<sessionVars, authorized, workVars, countVars, wake, workerVars, phase>>

\* A woken waiter checks its condition again.
WaiterResumes(w) ==
    /\ EventLoopFree
    /\ waiters[w] = "woken"
    /\ waiters' = [waiters EXCEPT ![w] = IF BusyFor(w) THEN "parked" ELSE "idle"]
    /\ UNCHANGED <<sessionVars, authorized, workVars, countVars, wake, workerVars, phase>>

\* Another process edits the paired-client store, or a read of it starts or stops failing.
AuthorityChanges(o) ==
    /\ o \in opened
    /\ authorized' = IF o \in authorized THEN authorized \ {o} ELSE authorized \cup {o}
    /\ UNCHANGED <<sessionVars, workVars, countVars, wake, workerVars, phase, waiters>>

-----------------------------------------------------------------------------
Worker ==
    \/ WorkerWakes \/ WorkerParks
    \/ \E i \in queue : WorkerRefuses(i) \/ WorkerDispatches(i)
    \/ DispatchReturns \/ DispatchFails \/ DispatchRevoked \/ DispatchCancelled
    \/ WaitCancelled

Session(o) ==
    \/ Activate(o) \/ CancelOwner(o) \/ CancelAndWait(o)
    \/ SubmitRevoked(o) \/ Submit(o)
    \/ \E g \in Generations : SubmitAndWait(o, g) \/ CancelGeneration(o, g)

Next ==
    \/ \E o \in Owners : Session(o) \/ AuthorityChanges(o)
    \/ Worker \/ Transmit
    \/ CloseBegins \/ CloseEnds
    \/ Join \/ \E w \in Waiters : WaiterResumes(w)

Spec == Init /\ [][Next]_vars

(* Fairness: asyncio's ready queue is first come, first served, so every    *)
(* runnable task runs: the worker and the end of close() are weakly fair,   *)
(* and a woken waiter, which must wait for the worker to yield the loop, is *)
(* strongly fair.  That a Samsung call returns, raises or answers its       *)
(* cancel() is assumed of the client; the worker's WF says exactly that.    *)
FairSpec ==
    /\ Spec
    /\ WF_vars(Worker)
    /\ WF_vars(CloseEnds)
    /\ \A w \in Waiters : SF_vars(WaiterResumes(w))

-----------------------------------------------------------------------------
(* Safety.                                                                  *)

\* Only live sessions have queued commands: every path that ends a session (teardown,
\* revocation seen by a submit, by the worker or by the Samsung client, shutdown) purges them all.
QueueOwnersLive == \A i \in queue : i.owner \in owners

Held == queue \cup ({current} \ {NoItem})

\* A hold repeater awaits the completion of its delayed command without a timeout, so a pending
\* future must belong to a command the lane still holds, and a queued repeat must have one.
NoStrandedCompletion ==
    /\ \A c \in Commands : completion[c] = "pending" => \E i \in Held : i.at = c
    /\ \A i \in queue : i.gen # NoGeneration => completion[i.at] = "pending"

\* A command whose session ended, or whose hold was released, while it was being dispatched has
\* a cancel() under way: it cannot go on to write to the TV.
StaleCommandInterrupted ==
    current # NoItem /\ (cancelled \/ current.owner \notin owners) => interrupt

\* The one worker serves every session: it is only ever cancelled on account of the command it is
\* dispatching, or by close(); never while the command of another session is current.
InterruptHasCause == interrupt => phase = "stopping" \/ (current # NoItem /\ cancelled)

\* Cancelling a dispatch never takes the shared worker down with it: while the lane is open and a
\* session was ever activated the worker lives, unless a Samsung call raised CancelledError itself.
WorkerSurvives ==
    phase = "open" /\ opened # {} /\ ~SpuriousCancel => WorkerAlive

\* A parked worker with queued work has its event set: no lost wake-up between popleft and clear.
NoLostWakeup == worker = "parked" /\ queue # {} => wake

\* A task parked in join() or cancel_and_wait() has something to wait for; every step that ends
\* its wait resolves the shared future (close() does so when the worker is gone).
ParkedWaiterBusy ==
    \A w \in Waiters : waiters[w] = "parked" => BusyFor(w) \/ phase = "stopping"

\* Queued commands are in order of submission, after the one being dispatched, and none of them
\* has been sent: coalescing replaces the newest command only.
QueueInOrder ==
    /\ \A i, j \in queue : i.at < j.at => i.command < j.command
    /\ \A i \in queue : lastSent < i.command
    /\ \A i \in queue : current # NoItem => current.command < i.command

\* Commands reach the TV in order of submission, for all sessions together.
SentInOrder == [][lastSent' > lastSent]_lastSent

\* Nothing is written to the TV for a session that has ended, a released hold or a revoked client.
OnlyLiveWorkSent ==
    [][lastSent' # lastSent =>
          current.owner \in owners /\ ~cancelled /\ current.owner \in authorized]_vars

\* A command of a session that stays live leaves the queue only to be dispatched, to be replaced
\* by a newer text in its own place, or because its hold was stopped: releasing a hold keeps the
\* session's ordinary commands, its immediate first click among them.
OrdinaryWorkKept ==
    [][\A i \in queue \ queue' :
          i.gen = NoGeneration /\ i.owner \in owners' =>
             current' = i \/ \E j \in queue' : j.at = i.at /\ i.text /\ j.text]_vars

(* Liveness, under FairSpec and without a spurious CancelledError.          *)

\* Everything queued is dispatched or dropped: the worker never stalls on a non-empty queue.
QueueDrains == \A c \in Commands :
    (\E i \in queue : i.at = c) ~> ~(\E i \in queue : i.at = c)

\* close() returns.
CloseCompletes == phase = "stopping" ~> phase = "closed"

\* join() and cancel_and_wait() return.
WaitersReturn == \A w \in Waiters : waiters[w] = "parked" ~> waiters[w] = "idle"
=============================================================================
