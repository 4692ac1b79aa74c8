------------------------- MODULE DispatchLaneProofs -------------------------
(***************************************************************************)
(* The dispatch lane's invariants, for any number of sessions, holds and   *)
(* commands and any queue bound.                                           *)
(*                                                                         *)
(* LaneInv is the inductive invariant.  Its parts are proved in an order   *)
(* in which each rests only on those before it: types, then how worker,    *)
(* current command and cancellation fit together (Shape), then numbering,  *)
(* futures, the queue's bound, the worker's survival and the waiters.      *)
(*                                                                         *)
(* From it follows that the lane implements LaneContract: a popped command *)
(* that is refused, a swallowed cancellation and a parked worker are       *)
(* stutters, cancelling a session or a hold is its withdrawal, whatever    *)
(* the worker is at, and every other step is the step of the same name.    *)
(***************************************************************************)
EXTENDS LaneImplements, FiniteSetTheorems, TLAPS

(* What the safety properties rest on.                                      *)

\* _current is set exactly while the worker awaits a dispatch.
CurrentDispatched ==
    /\ current # NoItem <=> worker = "dispatching"
    /\ cancelled => current # NoItem

\* Only a live worker has a cancel() to receive, and close() leaves nothing to do.
StopShape ==
    /\ interrupt => WorkerAlive
    /\ owners \subseteq opened
    /\ phase # "open" => owners = {} /\ queue = {}
    /\ phase = "closed" => worker = "none"
    /\ phase = "stopping" => (WorkerAlive => interrupt)

\* The event stays set as long as anything is queued, also while there is no worker to see it.
QueueWakes == queue # {} => wake

\* Positions are unique, and positions and commands are numbered by submission.
Numbered ==
    /\ lastSent <= accepted
    /\ \A i \in Held : i.at <= i.command /\ i.command <= accepted
    /\ \A i, j \in Held : i.at = j.at => i = j
    /\ \A i \in queue : current # NoItem => current.at < i.at
    /\ current # NoItem => lastSent <= current.command

\* The queue is finite, so that its bound means something.
Bounded == IsFiniteSet(queue) /\ QueueBounded

Shape ==
    /\ CurrentDispatched
    /\ StopShape
    /\ QueueOwnersLive
    /\ StaleCommandInterrupted
    /\ InterruptHasCause
    /\ QueueWakes

LaneInv ==
    /\ Types
    /\ Shape
    /\ Numbered
    /\ QueueInOrder
    /\ NoStrandedCompletion
    /\ Bounded
    /\ WorkerSurvives
    /\ ParkedWaiterBusy

\* What OrdinaryWorkKept says of one step.
OrdinaryKept ==
    \A i \in queue \ queue' :
        i.gen = NoGeneration /\ i.owner \in owners' =>
            current' = i \/ \E j \in queue' : j.at = i.at /\ i.text /\ j.text

-----------------------------------------------------------------------------
(* Every step preserves every part.                                         *)

\* Every action keeps the types of the variables.
LEMMA TypeStep ==
    ASSUME Types, CurrentDispatched, [Next]_vars
    PROVE  Types'
<1> USE LaneAssumption, NoItemAssumption DEF LaneAssumption, Types, Commands,
        CurrentDispatched
<1>1. ASSUME NEW o \in Owners, Activate(o)
      PROVE  Types'
  BY <1>1 DEF Activate, StartWorker, WorkerAlive, workVars, countVars
<1>2. ASSUME NEW o \in Owners, CancelOwner(o)
      PROVE  Types'
  BY <1>2 DEF CancelOwner, DropOwner, Settle, SetWake, InterruptWorker, Notified, QueuedOf,
        CurrentOf, WorkerAlive, countVars
<1>3. ASSUME NEW o \in Owners, CancelAndWait(o)
      PROVE  Types'
  BY <1>3 DEF CancelAndWait, DropOwner, Settle, SetWake, InterruptWorker, Notified, QueuedOf,
        CurrentOf, WorkerAlive, countVars
<1>4. ASSUME NEW o \in Owners, SubmitRevoked(o)
      PROVE  Types'
  BY <1>4 DEF SubmitRevoked, Admits, DropOwner, Settle, SetWake, InterruptWorker, Notified,
        QueuedOf, CurrentOf, WorkerAlive, countVars
<1>5. ASSUME NEW o \in Owners, SubmitCoalesced(o)
      PROVE  Types'
  BY <1>5 DEF SubmitCoalesced, Admits, Item, sessionVars, workerVars
<1>6. ASSUME NEW o \in Owners, NEW text \in BOOLEAN, NEW g \in Generations \cup {NoGeneration}, Enqueue(o, text, g)
      PROVE  Types'
  BY <1>6 DEF Enqueue, Admits, SetWake, Item, sessionVars, workerVars
<1>7. ASSUME NEW o \in Owners, NEW g \in Generations, CancelGeneration(o, g)
      PROVE  Types'
  BY <1>7 DEF CancelGeneration, TaggedBy, Settle, SetWake, InterruptWorker, Notified,
        QueuedOf, CurrentOf, WorkerAlive, sessionVars, countVars
<1>8. ASSUME NEW o \in Owners, AuthorityChanges(o)
      PROVE  Types'
  BY <1>8 DEF AuthorityChanges, sessionVars, workVars, countVars, workerVars
<1>9. ASSUME WorkerWakes
      PROVE  Types'
  BY <1>9 DEF WorkerWakes, sessionVars, workVars, countVars, workerVars
<1>10. ASSUME WorkerParks
       PROVE  Types'
  BY <1>10 DEF WorkerParks, sessionVars, workVars, countVars, workerVars
<1>11. ASSUME NEW i \in queue, WorkerRefuses(i)
       PROVE  Types'
  BY <1>11 DEF WorkerRefuses, IsHead, Refused, Item, Settle, SetWake, Notified, QueuedOf,
        countVars, workerVars
<1>12. ASSUME NEW i \in queue, WorkerDispatches(i)
       PROVE  Types'
  BY <1>12 DEF WorkerDispatches, IsHead, Refused, sessionVars, countVars
<1>13. ASSUME DispatchReturns
       PROVE  Types'
  BY <1>13 DEF DispatchReturns, DispatchEnds, Dispatching, ClearCurrent, Settle, Notified,
        sessionVars, countVars
<1>14. ASSUME DispatchFails
       PROVE  Types'
  BY <1>14 DEF DispatchFails, DispatchEnds, Dispatching, ClearCurrent, Settle, Notified,
        sessionVars, countVars
<1>15. ASSUME DispatchRevoked
       PROVE  Types'
  BY <1>15 DEF DispatchRevoked, Dispatching, MayWrite, ClearCurrent, Settle, SetWake,
        Notified, QueuedOf, countVars
<1>16. ASSUME DispatchCancelled
       PROVE  Types'
  BY <1>16 DEF DispatchCancelled, SwallowsCancel, ClearCurrent, Settle, Notified, sessionVars,
        countVars
<1>17. ASSUME WaitCancelled
       PROVE  Types'
  BY <1>17 DEF WaitCancelled, ClearCurrent, Notified, sessionVars, countVars
<1>18. ASSUME Transmit
       PROVE  Types'
  BY <1>18 DEF Transmit, Dispatching, MayWrite, sessionVars, workVars, workerVars, Item
<1>19. ASSUME CloseBegins
       PROVE  Types'
  BY <1>19 DEF CloseBegins, Settle, SetWake, InterruptWorker, Notified, QueuedOf, CurrentOf,
        WorkerAlive, countVars
<1>20. ASSUME CloseEnds
       PROVE  Types'
  BY <1>20 DEF CloseEnds, ClearCurrent, Notified, sessionVars, countVars
<1>21. ASSUME Join
       PROVE  Types'
  BY <1>21 DEF Join, sessionVars, workVars, countVars, workerVars
<1>22. ASSUME NEW w \in Waiters, WaiterResumes(w)
       PROVE  Types'
  BY <1>22 DEF WaiterResumes, sessionVars, workVars, countVars, workerVars
<1>23. ASSUME UNCHANGED vars
       PROVE  Types'
  BY <1>23 DEF vars
<1> HIDE DEF LaneAssumption, Types, Commands, CurrentDispatched
<1> QED
  BY <1>1, <1>2, <1>3, <1>4, <1>5, <1>6, <1>7, <1>8, <1>9, <1>10, <1>11, <1>12, <1>13, <1>14,
        <1>15, <1>16, <1>17, <1>18, <1>19, <1>20, <1>21, <1>22, <1>23 DEF Next, Session,
        Submit, SubmitAndWait, Worker

\* The worker's state, current command and cancellation fit together.
LEMMA ShapeStep ==
    ASSUME Types, Shape, [Next]_vars
    PROVE  Shape'
<1> USE NoItemAssumption DEF Types, Shape, CurrentDispatched, StopShape, QueueOwnersLive,
        StaleCommandInterrupted, InterruptHasCause, QueueWakes, EventLoopFree, WorkerAlive
<1>1. ASSUME NEW o \in Owners, Activate(o)
      PROVE  Shape'
  BY <1>1 DEF Activate, StartWorker, WorkerAlive, workVars, countVars
<1>2. ASSUME NEW o \in Owners, CancelOwner(o)
      PROVE  Shape'
  BY <1>2 DEF CancelOwner, DropOwner, Settle, SetWake, InterruptWorker, Notified, QueuedOf,
        CurrentOf, WorkerAlive, countVars
<1>3. ASSUME NEW o \in Owners, CancelAndWait(o)
      PROVE  Shape'
  BY <1>3 DEF CancelAndWait, DropOwner, Settle, SetWake, InterruptWorker, Notified, QueuedOf,
        CurrentOf, WorkerAlive, countVars
<1>4. ASSUME NEW o \in Owners, SubmitRevoked(o)
      PROVE  Shape'
  BY <1>4 DEF SubmitRevoked, Admits, DropOwner, Settle, SetWake, InterruptWorker, Notified,
        QueuedOf, CurrentOf, WorkerAlive, countVars
<1>5. ASSUME NEW o \in Owners, SubmitCoalesced(o)
      PROVE  Shape'
  BY <1>5 DEF SubmitCoalesced, Admits, Item, sessionVars, workerVars
<1>6. ASSUME NEW o \in Owners, NEW text \in BOOLEAN, NEW g \in Generations \cup {NoGeneration}, Enqueue(o, text, g)
      PROVE  Shape'
  BY <1>6 DEF Enqueue, Admits, SetWake, Item, sessionVars, workerVars
<1>7. ASSUME NEW o \in Owners, NEW g \in Generations, CancelGeneration(o, g)
      PROVE  Shape'
  BY <1>7 DEF CancelGeneration, TaggedBy, Settle, SetWake, InterruptWorker, Notified,
        QueuedOf, CurrentOf, WorkerAlive, sessionVars, countVars
<1>8. ASSUME NEW o \in Owners, AuthorityChanges(o)
      PROVE  Shape'
  BY <1>8 DEF AuthorityChanges, sessionVars, workVars, countVars, workerVars
<1>9. ASSUME WorkerWakes
      PROVE  Shape'
  BY <1>9 DEF WorkerWakes, sessionVars, workVars, countVars, workerVars
<1>10. ASSUME WorkerParks
       PROVE  Shape'
  BY <1>10 DEF WorkerParks, sessionVars, workVars, countVars, workerVars
<1>11. ASSUME NEW i \in queue, WorkerRefuses(i)
       PROVE  Shape'
  BY <1>11 DEF WorkerRefuses, IsHead, Refused, Item, Settle, SetWake, Notified, QueuedOf,
        countVars, workerVars
<1>12. ASSUME NEW i \in queue, WorkerDispatches(i)
       PROVE  Shape'
  BY <1>12 DEF WorkerDispatches, IsHead, Refused, sessionVars, countVars
<1>13. ASSUME DispatchReturns
       PROVE  Shape'
  BY <1>13 DEF DispatchReturns, DispatchEnds, Dispatching, ClearCurrent, Settle, Notified,
        sessionVars, countVars
<1>14. ASSUME DispatchFails
       PROVE  Shape'
  BY <1>14 DEF DispatchFails, DispatchEnds, Dispatching, ClearCurrent, Settle, Notified,
        sessionVars, countVars
<1>15. ASSUME DispatchRevoked
       PROVE  Shape'
  BY <1>15 DEF DispatchRevoked, Dispatching, MayWrite, ClearCurrent, Settle, SetWake,
        Notified, QueuedOf, countVars
<1>16. ASSUME DispatchCancelled
       PROVE  Shape'
  BY <1>16 DEF DispatchCancelled, SwallowsCancel, ClearCurrent, Settle, Notified, sessionVars,
        countVars
<1>17. ASSUME WaitCancelled
       PROVE  Shape'
  BY <1>17 DEF WaitCancelled, ClearCurrent, Notified, sessionVars, countVars
<1>18. ASSUME Transmit
       PROVE  Shape'
  BY <1>18 DEF Transmit, Dispatching, MayWrite, sessionVars, workVars, workerVars
<1>19. ASSUME CloseBegins
       PROVE  Shape'
  BY <1>19 DEF CloseBegins, Settle, SetWake, InterruptWorker, Notified, QueuedOf, CurrentOf,
        WorkerAlive, countVars
<1>20. ASSUME CloseEnds
       PROVE  Shape'
  BY <1>20 DEF CloseEnds, ClearCurrent, Notified, sessionVars, countVars
<1>21. ASSUME Join
       PROVE  Shape'
  BY <1>21 DEF Join, sessionVars, workVars, countVars, workerVars
<1>22. ASSUME NEW w \in Waiters, WaiterResumes(w)
       PROVE  Shape'
  BY <1>22 DEF WaiterResumes, sessionVars, workVars, countVars, workerVars
<1>23. ASSUME UNCHANGED vars
       PROVE  Shape'
  BY <1>23 DEF vars
<1> HIDE DEF Types, Shape, CurrentDispatched, StopShape, QueueOwnersLive,
        StaleCommandInterrupted, InterruptHasCause, QueueWakes, EventLoopFree, WorkerAlive
<1> QED
  BY <1>1, <1>2, <1>3, <1>4, <1>5, <1>6, <1>7, <1>8, <1>9, <1>10, <1>11, <1>12, <1>13, <1>14,
        <1>15, <1>16, <1>17, <1>18, <1>19, <1>20, <1>21, <1>22, <1>23 DEF Next, Session,
        Submit, SubmitAndWait, Worker

\* Positions and commands stay in order of submission.
LEMMA NumberStep ==
    ASSUME Types, Shape, Numbered, QueueInOrder, [Next]_vars
    PROVE  (Numbered /\ QueueInOrder)'
<1> USE NoItemAssumption, LaneAssumption DEF Types, Shape, CurrentDispatched, Numbered,
        QueueInOrder, Held, Commands, Item
<1>1. ASSUME NEW o \in Owners, Activate(o)
      PROVE  (Numbered /\ QueueInOrder)'
  BY <1>1 DEF Activate, StartWorker, WorkerAlive, workVars, countVars
<1>2. ASSUME NEW o \in Owners, CancelOwner(o)
      PROVE  (Numbered /\ QueueInOrder)'
  BY <1>2 DEF CancelOwner, DropOwner, Settle, SetWake, InterruptWorker, Notified, QueuedOf,
        CurrentOf, WorkerAlive, countVars
<1>3. ASSUME NEW o \in Owners, CancelAndWait(o)
      PROVE  (Numbered /\ QueueInOrder)'
  BY <1>3 DEF CancelAndWait, DropOwner, Settle, SetWake, InterruptWorker, Notified, QueuedOf,
        CurrentOf, WorkerAlive, countVars
<1>4. ASSUME NEW o \in Owners, SubmitRevoked(o)
      PROVE  (Numbered /\ QueueInOrder)'
  BY <1>4 DEF SubmitRevoked, Admits, DropOwner, Settle, SetWake, InterruptWorker, Notified,
        QueuedOf, CurrentOf, WorkerAlive, countVars
<1>5. ASSUME NEW o \in Owners, SubmitCoalesced(o)
      PROVE  (Numbered /\ QueueInOrder)'
  <2>1. PICK i \in queue :
            /\ Coalesces(i, o)
            /\ queue' = (queue \ {i}) \cup {[i EXCEPT !.command = accepted + 1]}
    BY <1>5 DEF SubmitCoalesced
  <2> DEFINE new == [i EXCEPT !.command = accepted + 1]
  <2>2. /\ new.at = i.at /\ new.command = accepted + 1 /\ new.gen = NoGeneration
        /\ new.owner = i.owner /\ i.gen = NoGeneration
        /\ queue' = (queue \ {i}) \cup {new}
        /\ \A j \in queue : j.at <= i.at
    BY <2>1 DEF Coalesces, IsTail
  <2>3. /\ current' = current /\ accepted' = accepted + 1 /\ lastSent' = lastSent
        /\ completion' = completion /\ cancelled' = cancelled
    BY <1>5 DEF SubmitCoalesced
  <2> HIDE DEF new
  <2>4. Numbered'
    <3>1. Held' = (Held \ {i}) \cup {new}
      BY <2>2, <2>3
    <3> QED
      BY <2>2, <2>3, <3>1
  <2>5. QueueInOrder'
    BY <2>2, <2>3
  <2> QED
    BY <2>4, <2>5
<1>6. ASSUME NEW o \in Owners, NEW text \in BOOLEAN, NEW g \in Generations \cup {NoGeneration}, Enqueue(o, text, g)
      PROVE  (Numbered /\ QueueInOrder)'
  BY <1>6 DEF Enqueue, Admits, SetWake, Item, sessionVars, workerVars
<1>7. ASSUME NEW o \in Owners, NEW g \in Generations, CancelGeneration(o, g)
      PROVE  (Numbered /\ QueueInOrder)'
  BY <1>7 DEF CancelGeneration, TaggedBy, Settle, SetWake, InterruptWorker, Notified,
        QueuedOf, CurrentOf, WorkerAlive, sessionVars, countVars
<1>8. ASSUME NEW o \in Owners, AuthorityChanges(o)
      PROVE  (Numbered /\ QueueInOrder)'
  BY <1>8 DEF AuthorityChanges, sessionVars, workVars, countVars, workerVars
<1>9. ASSUME WorkerWakes
      PROVE  (Numbered /\ QueueInOrder)'
  BY <1>9 DEF WorkerWakes, sessionVars, workVars, countVars, workerVars
<1>10. ASSUME WorkerParks
       PROVE  (Numbered /\ QueueInOrder)'
  BY <1>10 DEF WorkerParks, sessionVars, workVars, countVars, workerVars
<1>11. ASSUME NEW i \in queue, WorkerRefuses(i)
       PROVE  (Numbered /\ QueueInOrder)'
  BY <1>11 DEF WorkerRefuses, IsHead, Refused, Item, Settle, SetWake, Notified, QueuedOf,
        countVars, workerVars
<1>12. ASSUME NEW i \in queue, WorkerDispatches(i)
       PROVE  (Numbered /\ QueueInOrder)'
  BY <1>12 DEF WorkerDispatches, IsHead, Refused, sessionVars, countVars
<1>13. ASSUME DispatchReturns
       PROVE  (Numbered /\ QueueInOrder)'
  BY <1>13 DEF DispatchReturns, DispatchEnds, Dispatching, ClearCurrent, Settle, Notified,
        sessionVars, countVars
<1>14. ASSUME DispatchFails
       PROVE  (Numbered /\ QueueInOrder)'
  BY <1>14 DEF DispatchFails, DispatchEnds, Dispatching, ClearCurrent, Settle, Notified,
        sessionVars, countVars
<1>15. ASSUME DispatchRevoked
       PROVE  (Numbered /\ QueueInOrder)'
  BY <1>15 DEF DispatchRevoked, Dispatching, MayWrite, ClearCurrent, Settle, SetWake,
        Notified, QueuedOf, countVars
<1>16. ASSUME DispatchCancelled
       PROVE  (Numbered /\ QueueInOrder)'
  BY <1>16 DEF DispatchCancelled, SwallowsCancel, ClearCurrent, Settle, Notified, sessionVars,
        countVars
<1>17. ASSUME WaitCancelled
       PROVE  (Numbered /\ QueueInOrder)'
  BY <1>17 DEF WaitCancelled, ClearCurrent, Notified, sessionVars, countVars
<1>18. ASSUME Transmit
       PROVE  (Numbered /\ QueueInOrder)'
  BY <1>18 DEF Transmit, Dispatching, MayWrite, sessionVars, workVars, workerVars
<1>19. ASSUME CloseBegins
       PROVE  (Numbered /\ QueueInOrder)'
  BY <1>19 DEF CloseBegins, Settle, SetWake, InterruptWorker, Notified, QueuedOf, CurrentOf,
        WorkerAlive, countVars
<1>20. ASSUME CloseEnds
       PROVE  (Numbered /\ QueueInOrder)'
  BY <1>20 DEF CloseEnds, ClearCurrent, Notified, sessionVars, countVars
<1>21. ASSUME Join
       PROVE  (Numbered /\ QueueInOrder)'
  BY <1>21 DEF Join, sessionVars, workVars, countVars, workerVars
<1>22. ASSUME NEW w \in Waiters, WaiterResumes(w)
       PROVE  (Numbered /\ QueueInOrder)'
  BY <1>22 DEF WaiterResumes, sessionVars, workVars, countVars, workerVars
<1>23. ASSUME UNCHANGED vars
       PROVE  (Numbered /\ QueueInOrder)'
  BY <1>23 DEF vars
<1> HIDE DEF Types, Shape, CurrentDispatched, Numbered, QueueInOrder, Held, Commands, Item
<1> QED
  BY <1>1, <1>2, <1>3, <1>4, <1>5, <1>6, <1>7, <1>8, <1>9, <1>10, <1>11, <1>12, <1>13, <1>14,
        <1>15, <1>16, <1>17, <1>18, <1>19, <1>20, <1>21, <1>22, <1>23 DEF Next, Session,
        Submit, SubmitAndWait, Worker

\* A pending future belongs to a command the lane holds.
LEMMA CompletionStep ==
    ASSUME Types, Shape, Numbered, NoStrandedCompletion, [Next]_vars
    PROVE  NoStrandedCompletion'
<1> USE NoItemAssumption, LaneAssumption DEF Types, Shape, CurrentDispatched, Numbered,
        NoStrandedCompletion, Held, Commands, Item
<1>1. ASSUME NEW o \in Owners, Activate(o)
      PROVE  NoStrandedCompletion'
  BY <1>1 DEF Activate, StartWorker, WorkerAlive, workVars, countVars
<1>2. ASSUME NEW o \in Owners, CancelOwner(o)
      PROVE  NoStrandedCompletion'
  BY <1>2 DEF CancelOwner, DropOwner, Settle, SetWake, InterruptWorker, Notified, QueuedOf,
        CurrentOf, WorkerAlive, countVars
<1>3. ASSUME NEW o \in Owners, CancelAndWait(o)
      PROVE  NoStrandedCompletion'
  BY <1>3 DEF CancelAndWait, DropOwner, Settle, SetWake, InterruptWorker, Notified, QueuedOf,
        CurrentOf, WorkerAlive, countVars
<1>4. ASSUME NEW o \in Owners, SubmitRevoked(o)
      PROVE  NoStrandedCompletion'
  BY <1>4 DEF SubmitRevoked, Admits, DropOwner, Settle, SetWake, InterruptWorker, Notified,
        QueuedOf, CurrentOf, WorkerAlive, countVars
<1>5. ASSUME NEW o \in Owners, SubmitCoalesced(o)
      PROVE  NoStrandedCompletion'
  <2>1. PICK i \in queue :
            /\ Coalesces(i, o)
            /\ queue' = (queue \ {i}) \cup {[i EXCEPT !.command = accepted + 1]}
    BY <1>5 DEF SubmitCoalesced
  <2> DEFINE new == [i EXCEPT !.command = accepted + 1]
  <2>2. /\ new.at = i.at /\ new.command = accepted + 1 /\ new.gen = NoGeneration
        /\ new.owner = i.owner /\ i.gen = NoGeneration
        /\ queue' = (queue \ {i}) \cup {new}
        /\ \A j \in queue : j.at <= i.at
    BY <2>1 DEF Coalesces, IsTail
  <2>3. /\ current' = current /\ accepted' = accepted + 1 /\ lastSent' = lastSent
        /\ completion' = completion /\ cancelled' = cancelled
    BY <1>5 DEF SubmitCoalesced
  <2> HIDE DEF new
  <2> QED
    BY <2>2, <2>3
<1>6. ASSUME NEW o \in Owners, NEW text \in BOOLEAN, NEW g \in Generations \cup {NoGeneration}, Enqueue(o, text, g)
      PROVE  NoStrandedCompletion'
  <2> DEFINE new == [at |-> accepted + 1, command |-> accepted + 1, owner |-> o,
                     text |-> text, gen |-> g]
  <2>1. /\ new.at = accepted + 1 /\ new.gen = g
        /\ queue' = queue \cup {new} /\ current' = current /\ cancelled' = cancelled
    BY <1>6 DEF Enqueue
  <2>2. accepted + 1 \in Commands /\ \A j \in Held : j.at # accepted + 1
    BY <1>6 DEF Enqueue, Admits
  <2>3. completion' = IF g = NoGeneration THEN completion
                      ELSE [completion EXCEPT ![accepted + 1] = "pending"]
    BY <1>6 DEF Enqueue
  <2> HIDE DEF new
  <2>4. Held' = Held \cup {new}
    BY <2>1
  <2>5. ASSUME NEW c \in Commands, completion'[c] = "pending"
        PROVE  \E j \in Held' : j.at = c
    BY <2>1, <2>2, <2>3, <2>4, <2>5
  <2>6. ASSUME NEW j \in queue', j.gen # NoGeneration
        PROVE  completion'[j.at] = "pending"
    BY <2>1, <2>2, <2>3, <2>6
  <2> QED
    BY <2>5, <2>6
<1>7. ASSUME NEW o \in Owners, NEW g \in Generations, CancelGeneration(o, g)
      PROVE  NoStrandedCompletion'
  BY <1>7 DEF CancelGeneration, TaggedBy, Settle, SetWake, InterruptWorker, Notified,
        QueuedOf, CurrentOf, WorkerAlive, sessionVars, countVars
<1>8. ASSUME NEW o \in Owners, AuthorityChanges(o)
      PROVE  NoStrandedCompletion'
  BY <1>8 DEF AuthorityChanges, sessionVars, workVars, countVars, workerVars
<1>9. ASSUME WorkerWakes
      PROVE  NoStrandedCompletion'
  BY <1>9 DEF WorkerWakes, sessionVars, workVars, countVars, workerVars
<1>10. ASSUME WorkerParks
       PROVE  NoStrandedCompletion'
  BY <1>10 DEF WorkerParks, sessionVars, workVars, countVars, workerVars
<1>11. ASSUME NEW i \in queue, WorkerRefuses(i)
       PROVE  NoStrandedCompletion'
  BY <1>11 DEF WorkerRefuses, IsHead, Refused, Item, Settle, SetWake, Notified, QueuedOf,
        countVars, workerVars
<1>12. ASSUME NEW i \in queue, WorkerDispatches(i)
       PROVE  NoStrandedCompletion'
  BY <1>12 DEF WorkerDispatches, IsHead, Refused, sessionVars, countVars
<1>13. ASSUME DispatchReturns
       PROVE  NoStrandedCompletion'
  BY <1>13 DEF DispatchReturns, DispatchEnds, Dispatching, ClearCurrent, Settle, Notified,
        sessionVars, countVars
<1>14. ASSUME DispatchFails
       PROVE  NoStrandedCompletion'
  BY <1>14 DEF DispatchFails, DispatchEnds, Dispatching, ClearCurrent, Settle, Notified,
        sessionVars, countVars
<1>15. ASSUME DispatchRevoked
       PROVE  NoStrandedCompletion'
  BY <1>15 DEF DispatchRevoked, Dispatching, MayWrite, ClearCurrent, Settle, SetWake,
        Notified, QueuedOf, countVars
<1>16. ASSUME DispatchCancelled
       PROVE  NoStrandedCompletion'
  BY <1>16 DEF DispatchCancelled, SwallowsCancel, ClearCurrent, Settle, Notified, sessionVars,
        countVars
<1>17. ASSUME WaitCancelled
       PROVE  NoStrandedCompletion'
  BY <1>17 DEF WaitCancelled, ClearCurrent, Notified, sessionVars, countVars
<1>18. ASSUME Transmit
       PROVE  NoStrandedCompletion'
  BY <1>18 DEF Transmit, Dispatching, MayWrite, sessionVars, workVars, workerVars
<1>19. ASSUME CloseBegins
       PROVE  NoStrandedCompletion'
  BY <1>19 DEF CloseBegins, Settle, SetWake, InterruptWorker, Notified, QueuedOf, CurrentOf,
        WorkerAlive, countVars
<1>20. ASSUME CloseEnds
       PROVE  NoStrandedCompletion'
  BY <1>20 DEF CloseEnds, ClearCurrent, Notified, sessionVars, countVars
<1>21. ASSUME Join
       PROVE  NoStrandedCompletion'
  BY <1>21 DEF Join, sessionVars, workVars, countVars, workerVars
<1>22. ASSUME NEW w \in Waiters, WaiterResumes(w)
       PROVE  NoStrandedCompletion'
  BY <1>22 DEF WaiterResumes, sessionVars, workVars, countVars, workerVars
<1>23. ASSUME UNCHANGED vars
       PROVE  NoStrandedCompletion'
  BY <1>23 DEF vars
<1> HIDE DEF Types, Shape, CurrentDispatched, Numbered, NoStrandedCompletion, Held, Commands,
        Item
<1> QED
  BY <1>1, <1>2, <1>3, <1>4, <1>5, <1>6, <1>7, <1>8, <1>9, <1>10, <1>11, <1>12, <1>13, <1>14,
        <1>15, <1>16, <1>17, <1>18, <1>19, <1>20, <1>21, <1>22, <1>23 DEF Next, Session,
        Submit, SubmitAndWait, Worker

\* A queue that loses items, gains one when it has room, or has one replaced keeps its bound.
LEMMA BoundShrinks ==
    ASSUME Bounded, queue' \subseteq queue
    PROVE  Bounded'
<1>1. IsFiniteSet(queue) /\ Cardinality(queue) <= MaxQueue
  BY DEF Bounded, QueueBounded
<1>2. IsFiniteSet(queue') /\ Cardinality(queue') <= Cardinality(queue)
  BY <1>1, FS_Subset
<1>3. Cardinality(queue) \in Nat /\ Cardinality(queue') \in Nat
  BY <1>1, <1>2, FS_CardinalityType
<1> QED
  BY <1>1, <1>2, <1>3, LaneAssumption DEF Bounded, QueueBounded, LaneAssumption

\* Enqueue: the item is added only below the bound.
LEMMA BoundGrows ==
    ASSUME Bounded, HasRoom, NEW n, queue' = queue \cup {n}
    PROVE  Bounded'
<1>1. IsFiniteSet(queue) /\ Cardinality(queue) < MaxQueue
  BY DEF Bounded, HasRoom
<1>2. /\ IsFiniteSet(queue \cup {n})
      /\ Cardinality(queue \cup {n}) = IF n \in queue THEN Cardinality(queue)
                                      ELSE Cardinality(queue) + 1
  BY <1>1, FS_AddElement
<1>3. Cardinality(queue) \in Nat
  BY <1>1, FS_CardinalityType
<1> QED
  BY <1>1, <1>2, <1>3, LaneAssumption DEF Bounded, QueueBounded, LaneAssumption

\* SubmitCoalesced: the newest item is replaced, also when the queue is full.
LEMMA BoundReplaces ==
    ASSUME Bounded, NEW i \in queue, NEW n, queue' = (queue \ {i}) \cup {n}
    PROVE  Bounded'
<1> DEFINE rest == queue \ {i}
<1>1. IsFiniteSet(queue) /\ Cardinality(queue) <= MaxQueue
  BY DEF Bounded, QueueBounded
<1>2. IsFiniteSet(rest) /\ Cardinality(rest) = Cardinality(queue) - 1
  BY <1>1, FS_RemoveElement
<1>3. Cardinality(queue) \in Nat /\ Cardinality(rest) \in Nat
  BY <1>1, <1>2, FS_CardinalityType
<1> HIDE DEF rest
<1>4. IsFiniteSet(rest \cup {n}) /\ Cardinality(rest \cup {n}) <= Cardinality(rest) + 1
  BY <1>2, <1>3, FS_AddElement
<1>5. queue' = rest \cup {n}
  BY DEF rest
<1>6. IsFiniteSet(queue') /\ Cardinality(queue') <= Cardinality(rest) + 1
  BY <1>4, <1>5, Zenon
<1>7. Cardinality(queue') \in Nat
  BY <1>6, FS_CardinalityType
<1>8. Cardinality(queue') <= MaxQueue
  BY <1>1, <1>2, <1>3, <1>6, <1>7, LaneAssumption DEF LaneAssumption
<1> QED
  BY <1>6, <1>8 DEF Bounded, QueueBounded

\* No step takes the queue over its bound.
LEMMA BoundStep ==
    ASSUME Bounded, [Next]_vars
    PROVE  Bounded'
<1>1. CASE \E o \in Owners : SubmitCoalesced(o)
  <2>1. \E i \in queue : \E n : queue' = (queue \ {i}) \cup {n}
    BY <1>1 DEF SubmitCoalesced
  <2> QED
    BY <2>1, BoundReplaces
<1>2. CASE \E o \in Owners, text \in BOOLEAN, g \in Generations \cup {NoGeneration} :
              Enqueue(o, text, g)
  <2>1. HasRoom /\ \E n : queue' = queue \cup {n}
    BY <1>2 DEF Enqueue
  <2> QED
    BY <2>1, BoundGrows
<1>3. CASE queue' \subseteq queue
  BY <1>3, BoundShrinks
<1> QED
  <2>1. \/ \E o \in Owners : SubmitCoalesced(o)
        \/ \E o \in Owners, text \in BOOLEAN, g \in Generations \cup {NoGeneration} :
              Enqueue(o, text, g)
        \/ queue' \subseteq queue
    BY DEF Next, Session, Submit, SubmitAndWait, Worker, vars, workVars, Activate, CancelOwner,
           CancelAndWait, SubmitRevoked, DropOwner, CancelGeneration, AuthorityChanges,
           WorkerWakes, WorkerParks, WorkerRefuses, WorkerDispatches, DispatchReturns,
           DispatchFails, DispatchEnds, DispatchRevoked, DispatchCancelled, WaitCancelled,
           Transmit, CloseBegins, CloseEnds, Join, WaiterResumes
  <2> QED
    BY <2>1, <1>1, <1>2, <1>3

\* No cancellation of a command ends the worker.
LEMMA SurvivalStep ==
    ASSUME Types, Shape, WorkerSurvives, [Next]_vars
    PROVE  WorkerSurvives'
<1> USE  DEF Types, Shape, CurrentDispatched, StopShape, InterruptHasCause, WorkerSurvives,
        WorkerAlive
<1>1. ASSUME NEW o \in Owners, Activate(o)
      PROVE  WorkerSurvives'
  BY <1>1 DEF Activate, StartWorker, WorkerAlive, workVars, countVars
<1>2. ASSUME NEW o \in Owners, CancelOwner(o)
      PROVE  WorkerSurvives'
  BY <1>2 DEF CancelOwner, DropOwner, Settle, SetWake, InterruptWorker, Notified, QueuedOf,
        CurrentOf, WorkerAlive, countVars
<1>3. ASSUME NEW o \in Owners, CancelAndWait(o)
      PROVE  WorkerSurvives'
  BY <1>3 DEF CancelAndWait, DropOwner, Settle, SetWake, InterruptWorker, Notified, QueuedOf,
        CurrentOf, WorkerAlive, countVars
<1>4. ASSUME NEW o \in Owners, SubmitRevoked(o)
      PROVE  WorkerSurvives'
  BY <1>4 DEF SubmitRevoked, Admits, DropOwner, Settle, SetWake, InterruptWorker, Notified,
        QueuedOf, CurrentOf, WorkerAlive, countVars
<1>5. ASSUME NEW o \in Owners, SubmitCoalesced(o)
      PROVE  WorkerSurvives'
  BY <1>5 DEF SubmitCoalesced, Admits, Item, sessionVars, workerVars
<1>6. ASSUME NEW o \in Owners, NEW text \in BOOLEAN, NEW g \in Generations \cup {NoGeneration}, Enqueue(o, text, g)
      PROVE  WorkerSurvives'
  BY <1>6 DEF Enqueue, Admits, SetWake, Item, sessionVars, workerVars
<1>7. ASSUME NEW o \in Owners, NEW g \in Generations, CancelGeneration(o, g)
      PROVE  WorkerSurvives'
  BY <1>7 DEF CancelGeneration, TaggedBy, Settle, SetWake, InterruptWorker, Notified,
        QueuedOf, CurrentOf, WorkerAlive, sessionVars, countVars
<1>8. ASSUME NEW o \in Owners, AuthorityChanges(o)
      PROVE  WorkerSurvives'
  BY <1>8 DEF AuthorityChanges, sessionVars, workVars, countVars, workerVars
<1>9. ASSUME WorkerWakes
      PROVE  WorkerSurvives'
  BY <1>9 DEF WorkerWakes, sessionVars, workVars, countVars, workerVars
<1>10. ASSUME WorkerParks
       PROVE  WorkerSurvives'
  BY <1>10 DEF WorkerParks, sessionVars, workVars, countVars, workerVars
<1>11. ASSUME NEW i \in queue, WorkerRefuses(i)
       PROVE  WorkerSurvives'
  BY <1>11 DEF WorkerRefuses, IsHead, Refused, Item, Settle, SetWake, Notified, QueuedOf,
        countVars, workerVars
<1>12. ASSUME NEW i \in queue, WorkerDispatches(i)
       PROVE  WorkerSurvives'
  BY <1>12 DEF WorkerDispatches, IsHead, Refused, sessionVars, countVars
<1>13. ASSUME DispatchReturns
       PROVE  WorkerSurvives'
  BY <1>13 DEF DispatchReturns, DispatchEnds, Dispatching, ClearCurrent, Settle, Notified,
        sessionVars, countVars
<1>14. ASSUME DispatchFails
       PROVE  WorkerSurvives'
  BY <1>14 DEF DispatchFails, DispatchEnds, Dispatching, ClearCurrent, Settle, Notified,
        sessionVars, countVars
<1>15. ASSUME DispatchRevoked
       PROVE  WorkerSurvives'
  BY <1>15 DEF DispatchRevoked, Dispatching, MayWrite, ClearCurrent, Settle, SetWake,
        Notified, QueuedOf, countVars
<1>16. ASSUME DispatchCancelled
       PROVE  WorkerSurvives'
  BY <1>16 DEF DispatchCancelled, SwallowsCancel, ClearCurrent, Settle, Notified, sessionVars,
        countVars
<1>17. ASSUME WaitCancelled
       PROVE  WorkerSurvives'
  BY <1>17 DEF WaitCancelled, ClearCurrent, Notified, sessionVars, countVars
<1>18. ASSUME Transmit
       PROVE  WorkerSurvives'
  BY <1>18 DEF Transmit, Dispatching, MayWrite, sessionVars, workVars, workerVars
<1>19. ASSUME CloseBegins
       PROVE  WorkerSurvives'
  BY <1>19 DEF CloseBegins, Settle, SetWake, InterruptWorker, Notified, QueuedOf, CurrentOf,
        WorkerAlive, countVars
<1>20. ASSUME CloseEnds
       PROVE  WorkerSurvives'
  BY <1>20 DEF CloseEnds, ClearCurrent, Notified, sessionVars, countVars
<1>21. ASSUME Join
       PROVE  WorkerSurvives'
  BY <1>21 DEF Join, sessionVars, workVars, countVars, workerVars
<1>22. ASSUME NEW w \in Waiters, WaiterResumes(w)
       PROVE  WorkerSurvives'
  BY <1>22 DEF WaiterResumes, sessionVars, workVars, countVars, workerVars
<1>23. ASSUME UNCHANGED vars
       PROVE  WorkerSurvives'
  BY <1>23 DEF vars
<1> HIDE DEF Types, Shape, CurrentDispatched, StopShape, InterruptHasCause, WorkerSurvives,
        WorkerAlive
<1> QED
  BY <1>1, <1>2, <1>3, <1>4, <1>5, <1>6, <1>7, <1>8, <1>9, <1>10, <1>11, <1>12, <1>13, <1>14,
        <1>15, <1>16, <1>17, <1>18, <1>19, <1>20, <1>21, <1>22, <1>23 DEF Next, Session,
        Submit, SubmitAndWait, Worker

\* Every step that ends a wait resolves the waiters' future.
LEMMA WaiterStep ==
    ASSUME Types, Shape, ParkedWaiterBusy, [Next]_vars
    PROVE  ParkedWaiterBusy'
<1> USE LaneAssumption, NoItemAssumption DEF Types, Shape, CurrentDispatched, StopShape,
        ParkedWaiterBusy, BusyFor, LaneAssumption
<1>1. ASSUME NEW o \in Owners, Activate(o)
      PROVE  ParkedWaiterBusy'
  BY <1>1 DEF Activate, StartWorker, WorkerAlive, workVars, countVars
<1>2. ASSUME NEW o \in Owners, CancelOwner(o)
      PROVE  ParkedWaiterBusy'
  BY <1>2 DEF CancelOwner, DropOwner, Settle, SetWake, InterruptWorker, Notified, QueuedOf,
        CurrentOf, WorkerAlive, countVars
<1>3. ASSUME NEW o \in Owners, CancelAndWait(o)
      PROVE  ParkedWaiterBusy'
  BY <1>3 DEF CancelAndWait, DropOwner, Settle, SetWake, InterruptWorker, Notified, QueuedOf,
        CurrentOf, WorkerAlive, countVars
<1>4. ASSUME NEW o \in Owners, SubmitRevoked(o)
      PROVE  ParkedWaiterBusy'
  BY <1>4 DEF SubmitRevoked, Admits, DropOwner, Settle, SetWake, InterruptWorker, Notified,
        QueuedOf, CurrentOf, WorkerAlive, countVars
<1>5. ASSUME NEW o \in Owners, SubmitCoalesced(o)
      PROVE  ParkedWaiterBusy'
  BY <1>5 DEF SubmitCoalesced, Admits, Item, sessionVars, workerVars
<1>6. ASSUME NEW o \in Owners, NEW text \in BOOLEAN, NEW g \in Generations \cup {NoGeneration}, Enqueue(o, text, g)
      PROVE  ParkedWaiterBusy'
  BY <1>6 DEF Enqueue, Admits, SetWake, Item, sessionVars, workerVars
<1>7. ASSUME NEW o \in Owners, NEW g \in Generations, CancelGeneration(o, g)
      PROVE  ParkedWaiterBusy'
  BY <1>7 DEF CancelGeneration, TaggedBy, Settle, SetWake, InterruptWorker, Notified,
        QueuedOf, CurrentOf, WorkerAlive, sessionVars, countVars
<1>8. ASSUME NEW o \in Owners, AuthorityChanges(o)
      PROVE  ParkedWaiterBusy'
  BY <1>8 DEF AuthorityChanges, sessionVars, workVars, countVars, workerVars
<1>9. ASSUME WorkerWakes
      PROVE  ParkedWaiterBusy'
  BY <1>9 DEF WorkerWakes, sessionVars, workVars, countVars, workerVars
<1>10. ASSUME WorkerParks
       PROVE  ParkedWaiterBusy'
  BY <1>10 DEF WorkerParks, sessionVars, workVars, countVars, workerVars
<1>11. ASSUME NEW i \in queue, WorkerRefuses(i)
       PROVE  ParkedWaiterBusy'
  BY <1>11 DEF WorkerRefuses, IsHead, Refused, Item, Settle, SetWake, Notified, QueuedOf,
        countVars, workerVars
<1>12. ASSUME NEW i \in queue, WorkerDispatches(i)
       PROVE  ParkedWaiterBusy'
  BY <1>12 DEF WorkerDispatches, IsHead, Refused, sessionVars, countVars
<1>13. ASSUME DispatchReturns
       PROVE  ParkedWaiterBusy'
  BY <1>13 DEF DispatchReturns, DispatchEnds, Dispatching, ClearCurrent, Settle, Notified,
        sessionVars, countVars
<1>14. ASSUME DispatchFails
       PROVE  ParkedWaiterBusy'
  BY <1>14 DEF DispatchFails, DispatchEnds, Dispatching, ClearCurrent, Settle, Notified,
        sessionVars, countVars
<1>15. ASSUME DispatchRevoked
       PROVE  ParkedWaiterBusy'
  BY <1>15 DEF DispatchRevoked, Dispatching, MayWrite, ClearCurrent, Settle, SetWake,
        Notified, QueuedOf, countVars
<1>16. ASSUME DispatchCancelled
       PROVE  ParkedWaiterBusy'
  BY <1>16 DEF DispatchCancelled, SwallowsCancel, ClearCurrent, Settle, Notified, sessionVars,
        countVars
<1>17. ASSUME WaitCancelled
       PROVE  ParkedWaiterBusy'
  BY <1>17 DEF WaitCancelled, ClearCurrent, Notified, sessionVars, countVars
<1>18. ASSUME Transmit
       PROVE  ParkedWaiterBusy'
  BY <1>18 DEF Transmit, Dispatching, MayWrite, sessionVars, workVars, workerVars
<1>19. ASSUME CloseBegins
       PROVE  ParkedWaiterBusy'
  BY <1>19 DEF CloseBegins, Settle, SetWake, InterruptWorker, Notified, QueuedOf, CurrentOf,
        WorkerAlive, countVars
<1>20. ASSUME CloseEnds
       PROVE  ParkedWaiterBusy'
  BY <1>20 DEF CloseEnds, ClearCurrent, Notified, sessionVars, countVars
<1>21. ASSUME Join
       PROVE  ParkedWaiterBusy'
  BY <1>21 DEF Join, sessionVars, workVars, countVars, workerVars
<1>22. ASSUME NEW w \in Waiters, WaiterResumes(w)
       PROVE  ParkedWaiterBusy'
  BY <1>22 DEF WaiterResumes, sessionVars, workVars, countVars, workerVars
<1>23. ASSUME UNCHANGED vars
       PROVE  ParkedWaiterBusy'
  BY <1>23 DEF vars
<1> HIDE DEF Types, Shape, CurrentDispatched, StopShape, ParkedWaiterBusy, BusyFor,
        LaneAssumption
<1> QED
  BY <1>1, <1>2, <1>3, <1>4, <1>5, <1>6, <1>7, <1>8, <1>9, <1>10, <1>11, <1>12, <1>13, <1>14,
        <1>15, <1>16, <1>17, <1>18, <1>19, <1>20, <1>21, <1>22, <1>23 DEF Next, Session,
        Submit, SubmitAndWait, Worker

\* Releasing a hold or ending another session removes no ordinary command.
LEMMA KeepStep ==
    ASSUME Types, [Next]_vars
    PROVE  OrdinaryKept
<1> USE LaneAssumption DEF Types, OrdinaryKept
<1>1. ASSUME NEW o \in Owners, Activate(o)
      PROVE  OrdinaryKept
  BY <1>1 DEF Activate, StartWorker, WorkerAlive, workVars, countVars
<1>2. ASSUME NEW o \in Owners, CancelOwner(o)
      PROVE  OrdinaryKept
  BY <1>2 DEF CancelOwner, DropOwner, Settle, SetWake, InterruptWorker, Notified, QueuedOf,
        CurrentOf, WorkerAlive, countVars
<1>3. ASSUME NEW o \in Owners, CancelAndWait(o)
      PROVE  OrdinaryKept
  BY <1>3 DEF CancelAndWait, DropOwner, Settle, SetWake, InterruptWorker, Notified, QueuedOf,
        CurrentOf, WorkerAlive, countVars
<1>4. ASSUME NEW o \in Owners, SubmitRevoked(o)
      PROVE  OrdinaryKept
  BY <1>4 DEF SubmitRevoked, Admits, DropOwner, Settle, SetWake, InterruptWorker, Notified,
        QueuedOf, CurrentOf, WorkerAlive, countVars
<1>5. ASSUME NEW o \in Owners, SubmitCoalesced(o)
      PROVE  OrdinaryKept
  <2>1. PICK i \in queue :
            /\ i.text
            /\ queue' = (queue \ {i}) \cup {[i EXCEPT !.command = accepted + 1]}
    BY <1>5 DEF SubmitCoalesced, Coalesces
  <2> DEFINE new == [i EXCEPT !.command = accepted + 1]
  <2>2. new \in queue' /\ new.at = i.at /\ new.text = i.text
    BY <2>1 DEF Item
  <2>3. queue \ queue' \subseteq {i}
    BY <2>1
  <2> HIDE DEF new
  <2> QED
    BY <2>1, <2>2, <2>3
<1>6. ASSUME NEW o \in Owners, NEW text \in BOOLEAN, NEW g \in Generations \cup {NoGeneration}, Enqueue(o, text, g)
      PROVE  OrdinaryKept
  BY <1>6 DEF Enqueue, Admits, SetWake, Item, sessionVars, workerVars
<1>7. ASSUME NEW o \in Owners, NEW g \in Generations, CancelGeneration(o, g)
      PROVE  OrdinaryKept
  BY <1>7 DEF LaneAssumption, CancelGeneration, TaggedBy, Settle, SetWake, InterruptWorker, Notified,
        QueuedOf, CurrentOf, WorkerAlive, sessionVars, countVars
<1>8. ASSUME NEW o \in Owners, AuthorityChanges(o)
      PROVE  OrdinaryKept
  BY <1>8 DEF AuthorityChanges, sessionVars, workVars, countVars, workerVars
<1>9. ASSUME WorkerWakes
      PROVE  OrdinaryKept
  BY <1>9 DEF WorkerWakes, sessionVars, workVars, countVars, workerVars
<1>10. ASSUME WorkerParks
       PROVE  OrdinaryKept
  BY <1>10 DEF WorkerParks, sessionVars, workVars, countVars, workerVars
<1>11. ASSUME NEW i \in queue, WorkerRefuses(i)
       PROVE  OrdinaryKept
  BY <1>11 DEF WorkerRefuses, IsHead, Refused, Item, Settle, SetWake, Notified, QueuedOf,
        countVars, workerVars
<1>12. ASSUME NEW i \in queue, WorkerDispatches(i)
       PROVE  OrdinaryKept
  BY <1>12 DEF WorkerDispatches, IsHead, Refused, sessionVars, countVars
<1>13. ASSUME DispatchReturns
       PROVE  OrdinaryKept
  BY <1>13 DEF DispatchReturns, DispatchEnds, Dispatching, ClearCurrent, Settle, Notified,
        sessionVars, countVars
<1>14. ASSUME DispatchFails
       PROVE  OrdinaryKept
  BY <1>14 DEF DispatchFails, DispatchEnds, Dispatching, ClearCurrent, Settle, Notified,
        sessionVars, countVars
<1>15. ASSUME DispatchRevoked
       PROVE  OrdinaryKept
  BY <1>15 DEF DispatchRevoked, Dispatching, MayWrite, ClearCurrent, Settle, SetWake,
        Notified, QueuedOf, countVars
<1>16. ASSUME DispatchCancelled
       PROVE  OrdinaryKept
  BY <1>16 DEF DispatchCancelled, SwallowsCancel, ClearCurrent, Settle, Notified, sessionVars,
        countVars
<1>17. ASSUME WaitCancelled
       PROVE  OrdinaryKept
  BY <1>17 DEF WaitCancelled, ClearCurrent, Notified, sessionVars, countVars
<1>18. ASSUME Transmit
       PROVE  OrdinaryKept
  BY <1>18 DEF Transmit, Dispatching, MayWrite, sessionVars, workVars, workerVars
<1>19. ASSUME CloseBegins
       PROVE  OrdinaryKept
  BY <1>19 DEF CloseBegins, Settle, SetWake, InterruptWorker, Notified, QueuedOf, CurrentOf,
        WorkerAlive, countVars
<1>20. ASSUME CloseEnds
       PROVE  OrdinaryKept
  BY <1>20 DEF CloseEnds, ClearCurrent, Notified, sessionVars, countVars
<1>21. ASSUME Join
       PROVE  OrdinaryKept
  BY <1>21 DEF Join, sessionVars, workVars, countVars, workerVars
<1>22. ASSUME NEW w \in Waiters, WaiterResumes(w)
       PROVE  OrdinaryKept
  BY <1>22 DEF WaiterResumes, sessionVars, workVars, countVars, workerVars
<1>23. ASSUME UNCHANGED vars
       PROVE  OrdinaryKept
  BY <1>23 DEF vars
<1> HIDE DEF Types, OrdinaryKept
<1> QED
  BY <1>1, <1>2, <1>3, <1>4, <1>5, <1>6, <1>7, <1>8, <1>9, <1>10, <1>11, <1>12, <1>13, <1>14,
        <1>15, <1>16, <1>17, <1>18, <1>19, <1>20, <1>21, <1>22, <1>23 DEF Next, Session,
        Submit, SubmitAndWait, Worker

-----------------------------------------------------------------------------
(* The initial state.                                                       *)

\* A fresh lane has the types of its variables.
LEMMA TypeInit == Init => Types
<1> SUFFICES ASSUME Init PROVE Types
  OBVIOUS
<1> USE DEF Init
<1>1. /\ owners \subseteq Owners /\ opened \subseteq Owners /\ evicted \subseteq Owners
      /\ authorized \subseteq Owners /\ queue \subseteq Item
  OBVIOUS
<1>2. accepted \in 0..MaxCommands /\ lastSent \in 0..MaxCommands
  BY LaneAssumption DEF LaneAssumption
<1>3. completion \in [Commands -> {"none", "pending", "done", "failed", "cancelled"}]
  OBVIOUS
<1>4. waiters \in [Waiters -> {"idle", "parked", "woken"}]
  OBVIOUS
<1>5. current \in Item \cup {NoItem}
  OBVIOUS
<1>6. cancelled \in BOOLEAN /\ wake \in BOOLEAN /\ interrupt \in BOOLEAN
  OBVIOUS
<1>7. /\ worker \in {"none", "parked", "running", "dispatching", "ended"}
      /\ phase \in {"open", "stopping", "closed"}
  OBVIOUS
<1> QED
  BY <1>1, <1>2, <1>3, <1>4, <1>5, <1>6, <1>7 DEF Types

\* A fresh lane satisfies the invariant.
LEMMA LaneInit == Init => LaneInv
<1> SUFFICES ASSUME Init PROVE LaneInv
  OBVIOUS
<1> USE DEF Init
<1>1. Types
  BY TypeInit
<1>2. Shape
  BY DEF Shape, CurrentDispatched, StopShape, QueueOwnersLive, StaleCommandInterrupted,
         InterruptHasCause, QueueWakes, WorkerAlive
<1>3. Held = {}
  BY DEF Held
<1>4. Numbered /\ QueueInOrder
  BY <1>3 DEF Numbered, QueueInOrder
<1>5. NoStrandedCompletion
  BY <1>3 DEF NoStrandedCompletion, Commands
<1>6. Bounded
  <2>1. IsFiniteSet({}) /\ Cardinality({}) = 0
    BY FS_EmptySet
  <2> QED
    BY <2>1, LaneAssumption DEF Bounded, QueueBounded, LaneAssumption
<1>7. WorkerSurvives /\ ParkedWaiterBusy
  BY DEF WorkerSurvives, ParkedWaiterBusy
<1> QED
  BY <1>1, <1>2, <1>4, <1>5, <1>6, <1>7 DEF LaneInv

-----------------------------------------------------------------------------
(* The theorems.                                                            *)

\* The parts together are inductive: whatever the interleaving of sessions, worker, Samsung
\* client, shutdown and paired-client store, every reachable state of the lane satisfies them.
THEOREM LaneInvariant == Spec => []LaneInv
<1>1. LaneInv /\ [Next]_vars => LaneInv'
  <2> SUFFICES ASSUME LaneInv, [Next]_vars
               PROVE  LaneInv'
    OBVIOUS
  <2> USE DEF LaneInv
  <2>1. Types'
    BY TypeStep DEF Shape
  <2>2. Shape'
    BY ShapeStep
  <2>3. Numbered' /\ QueueInOrder'
    BY NumberStep
  <2>4. NoStrandedCompletion'
    BY CompletionStep
  <2>5. Bounded'
    BY BoundStep
  <2>6. WorkerSurvives'
    BY SurvivalStep
  <2>7. ParkedWaiterBusy'
    BY WaiterStep
  <2> QED
    BY <2>1, <2>2, <2>3, <2>4, <2>5, <2>6, <2>7
<1> QED
  BY LaneInit, <1>1, PTL DEF Spec

\* Every variable of the lane keeps its type: futures, worker and waiters stay in their states,
\* and at most MaxCommands commands are numbered.
THEOREM TypeCorrect == Spec => []TypeOK
<1>1. LaneInv => TypeOK
  BY DEF LaneInv, Bounded, TypeOK
<1> QED
  BY LaneInvariant, <1>1, PTL

\* Every path that ends a session purges all of its queued commands.
THEOREM OwnersLive == Spec => []QueueOwnersLive
<1>1. LaneInv => QueueOwnersLive
  BY DEF LaneInv, Shape
<1> QED
  BY LaneInvariant, <1>1, PTL

\* No hold repeater is left awaiting a future of a command the lane no longer holds.
THEOREM NothingStranded == Spec => []NoStrandedCompletion
<1>1. LaneInv => NoStrandedCompletion
  BY DEF LaneInv
<1> QED
  BY LaneInvariant, <1>1, PTL

\* Once its session ended or its hold was released, a dispatched command is being cancelled.
THEOREM StaleInterrupted == Spec => []StaleCommandInterrupted
<1>1. LaneInv => StaleCommandInterrupted
  BY DEF LaneInv, Shape
<1> QED
  BY LaneInvariant, <1>1, PTL

\* The shared worker is cancelled only on account of its current command, or by close().
THEOREM InterruptCaused == Spec => []InterruptHasCause
<1>1. LaneInv => InterruptHasCause
  BY DEF LaneInv, Shape
<1> QED
  BY LaneInvariant, <1>1, PTL

\* Cancelling one session's dispatch leaves the worker to the other sessions.
THEOREM WorkerStays == Spec => []WorkerSurvives
<1>1. LaneInv => WorkerSurvives
  BY DEF LaneInv
<1> QED
  BY LaneInvariant, <1>1, PTL

\* The worker never waits for an event that is clear while commands are queued.
THEOREM WakeupKept == Spec => []NoLostWakeup
<1>1. LaneInv => NoLostWakeup
  BY DEF LaneInv, Shape, QueueWakes, NoLostWakeup
<1> QED
  BY LaneInvariant, <1>1, PTL

\* A task parked in join() or cancel_and_wait() has something left to wait for.
THEOREM WaitersHaveCause == Spec => []ParkedWaiterBusy
<1>1. LaneInv => ParkedWaiterBusy
  BY DEF LaneInv
<1> QED
  BY LaneInvariant, <1>1, PTL

\* Coalescing never lets a text overtake a command queued after the one it replaces.
THEOREM OrderKept == Spec => []QueueInOrder
<1>1. LaneInv => QueueInOrder
  BY DEF LaneInv
<1> QED
  BY LaneInvariant, <1>1, PTL

\* The Samsung client's write is the only step that sends.
LEMMA OnlyTransmitSends ==
    ASSUME [Next]_vars, lastSent' # lastSent
    PROVE  Transmit
BY DEF Next, Session, Submit, SubmitAndWait, Worker, vars, sessionVars, workVars, countVars,
       workerVars, Activate, CancelOwner, CancelAndWait, SubmitRevoked, DropOwner,
       SubmitCoalesced, Enqueue, CancelGeneration, AuthorityChanges, WorkerWakes, WorkerParks,
       WorkerRefuses, WorkerDispatches, DispatchReturns, DispatchFails, DispatchEnds,
       DispatchRevoked, DispatchCancelled, WaitCancelled, CloseBegins, CloseEnds, Join,
       WaiterResumes

\* Commands reach the TV in the order in which all sessions together submitted them.
THEOREM Ordered == Spec => SentInOrder
<1>1. LaneInv /\ [Next]_vars => [lastSent' > lastSent]_lastSent
  <2> SUFFICES ASSUME LaneInv, [Next]_vars, lastSent' # lastSent
               PROVE  lastSent' > lastSent
    OBVIOUS
  <2>1. Transmit
    BY OnlyTransmitSends
  <2>2. lastSent' = current.command /\ current # NoItem
    BY <2>1 DEF Transmit, Dispatching, LaneInv, Shape, CurrentDispatched
  <2>3. lastSent <= current.command /\ lastSent \in Nat /\ current.command \in Nat
    BY <2>2, LaneAssumption DEF LaneInv, Numbered, Types, Item, Commands, LaneAssumption
  <2> QED
    BY <2>2, <2>3
<1> QED
  BY LaneInvariant, <1>1, PTL DEF Spec, SentInOrder

\* A write is only ever made for a live session, a hold still held and a client still paired,
\* whatever happened to the session while its command was awaiting the Samsung client.
THEOREM OnlyLiveSent == Spec => OnlyLiveWorkSent
<1>1. LaneInv /\ [Next]_vars
        => [lastSent' # lastSent =>
              current.owner \in owners /\ ~cancelled /\ current.owner \in authorized]_vars
  <2> SUFFICES ASSUME LaneInv, [Next]_vars, lastSent' # lastSent
               PROVE  current.owner \in owners /\ ~cancelled /\ current.owner \in authorized
    OBVIOUS
  <2>1. Transmit
    BY OnlyTransmitSends
  <2> QED
    BY <2>1 DEF Transmit, Dispatching, MayWrite, LaneInv, Shape, CurrentDispatched,
                StaleCommandInterrupted
<1> QED
  BY LaneInvariant, <1>1, PTL DEF Spec, OnlyLiveWorkSent

\* A live session's ordinary command is dispatched or coalesced, never dropped: in particular
\* the immediate first click of a hold survives the release of the hold.
THEOREM OrdinaryKeptAlways == Spec => OrdinaryWorkKept
<1>1. LaneInv /\ [Next]_vars => [OrdinaryKept]_vars
  BY KeepStep DEF LaneInv
<1> QED
  BY LaneInvariant, <1>1, PTL DEF Spec, OrdinaryWorkKept, OrdinaryKept

-----------------------------------------------------------------------------
(* The lane implements its contract.                                        *)

\* The commands that are not cancelled have different numbers, the one in dispatch the least.
LEMMA UncancelledOrdered ==
    ASSUME LaneInv
    PROVE  /\ Uncancelled \subseteq Item
           /\ \A i, j \in Uncancelled : i.command = j.command => i = j
           /\ InDispatch => \A i \in queue : current.command < i.command
           /\ \A i \in Uncancelled : AsCommand(i).number = i.command
<1> USE DEF LaneInv
<1>1. /\ queue \subseteq Item /\ (current # NoItem => current \in Item)
  BY DEF Types
<1>2. Uncancelled \subseteq Item /\ Uncancelled \subseteq Held
  BY <1>1 DEF Uncancelled, InDispatch, Held
<1>3. \A i \in Item : i.at \in Nat /\ i.command \in Nat
  BY LaneAssumption DEF LaneAssumption, Item, Commands
<1>4. \A i, j \in queue : i.command = j.command => i = j
  <2> SUFFICES ASSUME NEW i \in queue, NEW j \in queue, i.command = j.command, i # j
               PROVE FALSE
    OBVIOUS
  <2>1. i.at # j.at
    BY DEF Numbered, Held
  <2>2. i.at < j.at \/ j.at < i.at
    BY <1>1, <1>3, <2>1
  <2> QED
    BY <1>1, <1>3, <2>2 DEF QueueInOrder
<1>5. InDispatch => \A i \in queue : current.command < i.command
  BY DEF InDispatch, QueueInOrder
<1>6. \A i, j \in Uncancelled : i.command = j.command => i = j
  BY <1>1, <1>3, <1>4, <1>5 DEF Uncancelled
<1> QED
  BY <1>2, <1>5, <1>6 DEF AsCommand

\* What the contract sees of the commands, and which of them is at the TV.
LEMMA AbstractOrdered ==
    ASSUME LaneInv
    PROVE  /\ AbstractPending \subseteq Contract!Command
           /\ InDispatch => /\ AsCommand(current) \in AbstractPending
                            /\ Contract!Oldest(AsCommand(current))
                            /\ \A c : Contract!Oldest(c) => c = AsCommand(current)
<1>1. AbstractPending \subseteq Contract!Command
  BY UncancelledOrdered DEF AbstractPending, AsCommand, Contract!Command, Item, Commands
<1>2. ASSUME InDispatch PROVE /\ AsCommand(current) \in AbstractPending
                              /\ Contract!Oldest(AsCommand(current))
                              /\ \A c : Contract!Oldest(c) => c = AsCommand(current)
  <2>1. current \in Uncancelled /\ current \in Item
    BY <1>2, UncancelledOrdered DEF Uncancelled
  <2>2. \A i \in Uncancelled : i # current => current.command < i.command
    BY <1>2, UncancelledOrdered DEF Uncancelled
  <2>3. \A i \in Item : i.command \in Nat
    BY LaneAssumption DEF LaneAssumption, Item, Commands
  <2>4. AsCommand(current) \in AbstractPending
    BY <2>1 DEF AbstractPending
  <2>5. \A i \in Uncancelled : i # current => AsCommand(current).number < AsCommand(i).number
    BY <2>1, <2>2, UncancelledOrdered
  <2>6. AsCommand(current).number \in Nat
    BY <2>1, <2>3 DEF AsCommand
  <2>7. \A d \in AbstractPending : d = AsCommand(current) \/ AsCommand(current).number < d.number
    BY <2>5 DEF AbstractPending
  <2>n. \A d \in AbstractPending : d.number \in Nat
    BY <1>1, LaneAssumption DEF Contract!Command, LaneAssumption
  <2>8. Contract!Oldest(AsCommand(current))
    <3>1. \A d \in AbstractPending : AsCommand(current).number <= d.number
      BY <2>6, <2>7, <2>n
    <3> QED
      BY <2>4, <3>1 DEF Contract!Oldest
  <2>9. ASSUME NEW c, Contract!Oldest(c) PROVE c = AsCommand(current)
    <3>1. c \in AbstractPending /\ c.number <= AsCommand(current).number
      BY <2>9, <2>4 DEF Contract!Oldest
    <3> QED
      BY <2>6, <2>7, <2>n, <3>1
  <2> QED
    BY <2>4, <2>8, <2>9
<1> QED
  BY <1>1, <1>2

\* The contract's queue holds one command more than the lane's: the one at the TV.
LEMMA AbstractBounded ==
    ASSUME LaneInv, HasRoom
    PROVE  Cardinality(AbstractPending) < MaxQueue + 1
<1>1. IsFiniteSet(queue) /\ Cardinality(queue) < MaxQueue
  BY DEF LaneInv, Bounded, HasRoom
<1>2. /\ IsFiniteSet(queue \cup {current})
      /\ Cardinality(queue \cup {current}) = IF current \in queue THEN Cardinality(queue)
                                            ELSE Cardinality(queue) + 1
  BY <1>1, FS_AddElement
<1>3. Uncancelled \subseteq queue \cup {current}
  BY DEF Uncancelled
<1>4. /\ IsFiniteSet(Uncancelled)
      /\ Cardinality(Uncancelled) <= Cardinality(queue \cup {current})
  BY <1>2, <1>3, FS_Subset
<1> DEFINE f == [i \in Uncancelled |-> AsCommand(i)]
<1>5. f \in Surjection(Uncancelled, AbstractPending)
  BY DEF Surjection, AbstractPending
<1>6. IsFiniteSet(AbstractPending) /\ Cardinality(AbstractPending) <= Cardinality(Uncancelled)
  BY <1>4, <1>5, FS_Surjection
<1>7. /\ Cardinality(queue) \in Nat /\ Cardinality(Uncancelled) \in Nat
      /\ Cardinality(AbstractPending) \in Nat /\ Cardinality(queue \cup {current}) \in Nat
  BY <1>1, <1>2, <1>4, <1>6, FS_CardinalityType
<1>8. MaxQueue \in Nat
  BY LaneAssumption DEF LaneAssumption
<1> QED
  BY <1>1, <1>2, <1>4, <1>6, <1>7, <1>8

\* Some uncancelled items go, and with them their commands.
LEMMA AbstractWithdraws ==
    ASSUME LaneInv, NEW S \in SUBSET Uncancelled,
           Uncancelled' = Uncancelled \ S,
           InDispatch' <=> (InDispatch /\ current \notin S),
           lastSent' = lastSent
    PROVE  Contract!Withdraw({AsCommand(i) : i \in S})
<1>1. \A i, j \in Uncancelled : AsCommand(i) = AsCommand(j) => i = j
  BY UncancelledOrdered
<1>2. AbstractPending' = AbstractPending \ {AsCommand(i) : i \in S}
  BY <1>1 DEF AbstractPending, AsCommand
<1>3. InDispatch => current \in Uncancelled
  BY DEF Uncancelled
<1>4. InDispatch' = (InDispatch /\ \A c \in {AsCommand(i) : i \in S} : ~Contract!Oldest(c))
  <2>1. CASE InDispatch
    <3>1. ASSUME current \in S
          PROVE  ~(\A c \in {AsCommand(i) : i \in S} : ~Contract!Oldest(c))
      BY <2>1, <3>1, AbstractOrdered
    <3>2. ASSUME NEW c \in {AsCommand(i) : i \in S}, Contract!Oldest(c)
          PROVE  current \in S
      BY <1>1, <1>3, <2>1, <3>2, AbstractOrdered
    <3> QED
      BY <2>1, <3>1, <3>2 DEF InDispatch
  <2>2. CASE ~InDispatch
    BY <2>2 DEF InDispatch
  <2> QED
    BY <2>1, <2>2
<1> QED
  BY <1>2, <1>4 DEF Contract!Withdraw

(***************************************************************************)
(* Each step of the lane is one step of the contract, or none.             *)
(***************************************************************************)

\* The two ways to leave what the contract sees alone.
LEMMA AbstractUnchanged ==
    ASSUME UNCHANGED <<owners, queue, current, cancelled, lastSent>>
    PROVE  UNCHANGED <<owners, AbstractPending, InDispatch, lastSent>>
BY DEF AbstractPending, Uncancelled, InDispatch, AsCommand

LEMMA EndSessionMaps ==
    ASSUME LaneInv, NEW o \in Owners,
           owners' = owners \ {o}, queue' = queue \ QueuedOf(o), lastSent' = lastSent,
           InDispatch' <=> (InDispatch /\ CurrentOf(o) = {}),
           InDispatch' => current' = current
    PROVE  Contract!EndSession(o)
<1> DEFINE S == {i \in Uncancelled : i.owner = o}
<1>1. InDispatch => (current \in S <=> CurrentOf(o) # {})
  BY DEF Uncancelled, CurrentOf, InDispatch
<1>2. InDispatch' <=> (InDispatch /\ current \notin S)
  BY <1>1
<1>3. Uncancelled' = Uncancelled \ S
  <2>1. CASE InDispatch'
    BY <1>2, <2>1 DEF Uncancelled, QueuedOf
  <2>2. CASE ~InDispatch'
    BY <1>2, <2>2 DEF Uncancelled, QueuedOf
  <2> QED
    BY <2>1, <2>2
<1>4. Contract!Withdraw({AsCommand(i) : i \in S})
  BY <1>2, <1>3, AbstractWithdraws
<1>5. {AsCommand(i) : i \in S} = {c \in AbstractPending : c.owner = o}
  BY DEF AbstractPending, AsCommand
<1> QED
  BY <1>4, <1>5 DEF Contract!EndSession

LEMMA DropOwnerMaps ==
    ASSUME LaneInv, NEW o \in Owners, DropOwner(o)
    PROVE  Contract!EndSession(o)
BY EndSessionMaps DEF DropOwner, InDispatch, CurrentOf, LaneInv, Shape, CurrentDispatched, countVars

\* The worker's own removal of an owner.
LEMMA RefusalMaps ==
    ASSUME LaneInv, NEW i \in queue, WorkerRefuses(i)
    PROVE  Contract!EndSession(i.owner)
<1>1. i.owner \in Owners
  BY DEF LaneInv, Types, Item
<1>2. current = NoItem
  BY DEF WorkerRefuses, LaneInv, Shape, CurrentDispatched
<1> QED
  BY <1>1, <1>2, EndSessionMaps DEF WorkerRefuses, InDispatch, countVars

LEMMA RevocationMaps ==
    ASSUME LaneInv, DispatchRevoked
    PROVE  Contract!EndSession(current.owner)
<1>1. current # NoItem /\ current.owner \in Owners /\ current \in CurrentOf(current.owner)
  BY DEF DispatchRevoked, Dispatching, LaneInv, Shape, CurrentDispatched, Types, Item, CurrentOf
<1> QED
  BY <1>1, EndSessionMaps DEF DispatchRevoked, InDispatch, ClearCurrent, countVars

LEMMA EndHoldMaps ==
    ASSUME LaneInv, NEW o \in Owners, NEW g \in Generations, CancelGeneration(o, g)
    PROVE  Contract!EndHold(o, g)
<1> DEFINE S == {i \in Uncancelled : i.owner = o /\ i.gen = g}
<1>1. /\ owners' = owners /\ queue' = queue \ TaggedBy(o, g) /\ lastSent' = lastSent
      /\ current' = current /\ (cancelled' <=> cancelled \/ current \in TaggedBy(o, g))
  BY DEF CancelGeneration, sessionVars, countVars, LaneInv, Types
<1>2. InDispatch => (current \in S <=> current \in TaggedBy(o, g))
  <2>1. ASSUME InDispatch PROVE current \notin queue
    BY <2>1, UncancelledOrdered, LaneAssumption
    DEF LaneInv, Numbered, Types, InDispatch, LaneAssumption, Item, Commands
  <2> QED
    BY <2>1 DEF Uncancelled, TaggedBy, CurrentOf, QueuedOf, InDispatch
<1>3. InDispatch' <=> (InDispatch /\ current \notin S)
  BY <1>1, <1>2 DEF InDispatch
<1>4. queue' = queue \ S
  BY <1>1 DEF TaggedBy, CurrentOf, QueuedOf, Uncancelled
<1>5. Uncancelled' = Uncancelled \ S
  BY <1>1, <1>3, <1>4 DEF Uncancelled
<1>6. Contract!Withdraw({AsCommand(i) : i \in S})
  BY <1>1, <1>3, <1>5, AbstractWithdraws
<1>7. {AsCommand(i) : i \in S} = {c \in AbstractPending : c.owner = o /\ c.gen = g}
  BY DEF AbstractPending, AsCommand
<1> QED
  BY <1>1, <1>6, <1>7 DEF Contract!EndHold

LEMMA AcceptMaps ==
    ASSUME LaneInv, NEW o \in Owners, NEW text \in BOOLEAN,
           NEW g \in Generations \cup {NoGeneration}, Enqueue(o, text, g)
    PROVE  \E c \in Contract!Command : Contract!Accept(c)
<1> DEFINE i == [at |-> accepted + 1, command |-> accepted + 1, owner |-> o,
                 text |-> text, gen |-> g]
           c == AsCommand(i)
<1>1. accepted \in Nat /\ lastSent \in Nat /\ accepted + 1 \in 1..MaxCommands
  BY LaneAssumption DEF LaneAssumption, Enqueue, Admits, LaneInv, Types
<1>2. c \in Contract!Command /\ c.number = accepted + 1 /\ c.owner = o
  BY <1>1 DEF AsCommand, Contract!Command
<1>3. o \in owners /\ lastSent < accepted + 1
  BY <1>1 DEF Enqueue, Admits, LaneInv, Numbered
<1>4. \A d \in AbstractPending : d.number < accepted + 1
  <2>1. \A j \in Held : j.command \in Nat /\ j.command <= accepted
    BY LaneAssumption DEF LaneInv, Numbered, Types, Held, Item, Commands, LaneAssumption
  <2>2. Uncancelled \subseteq Held
    BY DEF Uncancelled, InDispatch, Held
  <2> QED
    BY <1>1, <2>1, <2>2 DEF AbstractPending, AsCommand
<1>5. Cardinality(AbstractPending) < MaxQueue + 1
  BY AbstractBounded DEF Enqueue
<1>6. UNCHANGED <<owners, InDispatch, lastSent>> /\ queue' = queue \cup {i}
      /\ UNCHANGED <<current, cancelled>>
  BY DEF Enqueue, sessionVars, InDispatch
<1>7. AbstractPending' = AbstractPending \cup {c}
  <2>1. Uncancelled' = Uncancelled \cup {i}
    BY <1>6 DEF Uncancelled
  <2> HIDE DEF i
  <2> QED
    BY <2>1 DEF AbstractPending, AsCommand
<1>c. Contract!Cardinality(AbstractPending) < MaxQueue + 1
  BY <1>5 DEF Contract!Cardinality, Cardinality
<1>8. Contract!Accept(c)
  <2> HIDE DEF i, c
  <2> QED
    BY <1>2, <1>3, <1>4, <1>6, <1>7, <1>c DEF Contract!Accept
<1> QED
  BY <1>2, <1>8

LEMMA ReplaceMaps ==
    ASSUME LaneInv, NEW o \in Owners, SubmitCoalesced(o)
    PROVE  \E c \in Contract!Command : Contract!Replace(c)
<1>1. PICK i \in queue : /\ Coalesces(i, o)
                         /\ queue' = (queue \ {i}) \cup {[i EXCEPT !.command = accepted + 1]}
  BY DEF SubmitCoalesced
<1> DEFINE n == [i EXCEPT !.command = accepted + 1]
           c == AsCommand(n)
           last == AsCommand(i)
<1>2. accepted \in Nat /\ accepted + 1 \in 1..MaxCommands
  BY LaneAssumption DEF LaneAssumption, SubmitCoalesced, Admits, LaneInv, Types
<1>3. i \in Item /\ i.owner = o /\ i.gen = NoGeneration /\ i.text /\ IsTail(i)
  BY <1>1 DEF Coalesces, LaneInv, Types
<1>4. /\ c = [last EXCEPT !.number = accepted + 1] /\ c \in Contract!Command
      /\ c.number = accepted + 1 /\ c.owner = o /\ c.gen = NoGeneration /\ c.text
  <2>1. /\ n.command = accepted + 1 /\ n.owner = i.owner /\ n.text = i.text /\ n.gen = i.gen
        /\ i.text \in BOOLEAN /\ i.gen \in Generations \cup {NoGeneration} /\ i.owner \in Owners
    BY <1>3 DEF Item
  <2> HIDE DEF n
  <2>2. c = [number |-> accepted + 1, owner |-> i.owner, text |-> i.text, gen |-> i.gen]
    BY <2>1 DEF AsCommand
  <2>3. last = [number |-> i.command, owner |-> i.owner, text |-> i.text, gen |-> i.gen]
    BY DEF AsCommand
  <2> HIDE DEF c, last
  <2>4. c = [last EXCEPT !.number = accepted + 1]
    BY <2>2, <2>3
  <2>5. c \in Contract!Command
    BY <1>2, <2>1, <2>2 DEF Contract!Command
  <2>6. c.number = accepted + 1 /\ c.owner = o /\ c.gen = NoGeneration
    BY <1>3, <2>2
  <2>7. c.text = i.text
    BY <2>2
  <2> QED
    BY <1>3, <2>4, <2>5, <2>6, <2>7
<1>5. UNCHANGED <<owners, InDispatch, lastSent>> /\ UNCHANGED <<current, cancelled>>
      /\ o \in owners
  BY DEF SubmitCoalesced, Admits, sessionVars, InDispatch
<1>6. last \in AbstractPending /\ last.number < accepted + 1
  <2>1. i \in Uncancelled /\ i \in Held
    BY DEF Uncancelled, Held
  <2>2. i.command <= accepted /\ i.command \in Nat
    BY <1>3, <2>1, LaneAssumption DEF LaneInv, Numbered, Item, Commands, LaneAssumption
  <2> QED
    BY <1>2, <2>1, <2>2 DEF AbstractPending, AsCommand
<1>7. Contract!Newest(last)
  <2>1. \A j \in Item : j.at \in Nat /\ j.command \in Nat
    BY LaneAssumption DEF LaneAssumption, Item, Commands
  <2>2. ASSUME NEW j \in queue PROVE j.command <= i.command
    <3>1. j \in Item /\ j.at <= i.at
      BY <1>3 DEF IsTail, LaneInv, Types
    <3>2. CASE j.at < i.at
      BY <1>3, <2>1, <3>1, <3>2 DEF LaneInv, QueueInOrder
    <3>3. CASE j.at = i.at
      <4>1. j = i
        BY <3>3 DEF LaneInv, Numbered, Held
      <4> QED
        BY <1>3, <2>1, <4>1
    <3> QED
      BY <1>3, <2>1, <3>1, <3>2, <3>3
  <2>3. ASSUME InDispatch PROVE current.command <= i.command /\ current \in Item
    <3>1. current \in Item /\ current.command < i.command
      BY <2>3, UncancelledOrdered DEF Uncancelled
    <3> QED
      BY <1>3, <2>1, <3>1
  <2>4. \A j \in Uncancelled : j.command <= i.command
    BY <2>2, <2>3 DEF Uncancelled
  <2> QED
    BY <1>6, <2>4 DEF Contract!Newest, AbstractPending, AsCommand
<1>8. ~(InDispatch /\ Contract!Oldest(last))
  <2> SUFFICES ASSUME InDispatch, Contract!Oldest(last) PROVE FALSE
    OBVIOUS
  <2>1. last = AsCommand(current)
    BY AbstractOrdered
  <2>2. i.command = current.command /\ current.command < i.command
    BY <2>1, UncancelledOrdered DEF AsCommand
  <2>3. i.command \in Nat
    BY <1>3, LaneAssumption DEF LaneAssumption, Item, Commands
  <2> QED
    BY <2>2, <2>3
<1>9. AbstractPending' = (AbstractPending \ {last}) \cup {c}
  <2>1. i # current \/ ~InDispatch
    BY <1>6, <1>8, AbstractOrdered
  <2>2. Uncancelled' = (Uncancelled \ {i}) \cup {n}
    BY <1>1, <1>5, <2>1 DEF Uncancelled, InDispatch
  <2>3. \A j \in Uncancelled : AsCommand(j) = last => j = i
    BY UncancelledOrdered DEF Uncancelled
  <2> HIDE DEF n
  <2> QED
    BY <2>2, <2>3 DEF AbstractPending, AsCommand
<1>10. Contract!Replace(c)
  <2> HIDE DEF c, last
  <2> QED
    BY <1>4, <1>5, <1>6, <1>7, <1>8, <1>9 DEF Contract!Replace
<1> QED
  BY <1>4, <1>10

\* A command at the TV is written, or its call ends.
LEMMA DeliverMaps ==
    ASSUME LaneInv, Transmit
    PROVE  Contract!Deliver
<1>1. InDispatch /\ current.owner \in owners /\ lastSent' = current.command
      /\ UNCHANGED <<owners, queue, current, cancelled>>
  BY DEF Transmit, Dispatching, LaneInv, Shape, CurrentDispatched, StaleCommandInterrupted,
     InDispatch, sessionVars, workVars
<1>2. UNCHANGED <<owners, AbstractPending, InDispatch>>
  BY <1>1 DEF AbstractPending, Uncancelled, InDispatch, AsCommand
<1>3. /\ AsCommand(current) \in AbstractPending /\ Contract!Oldest(AsCommand(current))
      /\ AsCommand(current).owner = current.owner
      /\ AsCommand(current).number = current.command
  BY <1>1, AbstractOrdered DEF AsCommand
<1> QED
  BY <1>1, <1>2, <1>3 DEF Contract!Deliver

LEMMA FinishMaps ==
    ASSUME LaneInv, InDispatch, current' = NoItem, cancelled' = FALSE,
           UNCHANGED <<owners, queue, lastSent>>
    PROVE  Contract!Finish
<1>1. current \in Uncancelled /\ current \notin queue
  BY UncancelledOrdered, LaneAssumption
  DEF LaneInv, Types, Uncancelled, InDispatch, LaneAssumption, Item, Commands
<1>2. Uncancelled' = Uncancelled \ {current}
  BY <1>1 DEF Uncancelled, InDispatch
<1>3. \A i \in Uncancelled : AsCommand(i) = AsCommand(current) => i = current
  BY <1>1, UncancelledOrdered
<1>4. AbstractPending' = AbstractPending \ {AsCommand(current)}
  BY <1>2, <1>3 DEF AbstractPending, AsCommand
<1>5. AsCommand(current) \in AbstractPending /\ Contract!Oldest(AsCommand(current))
  BY AbstractOrdered
<1> QED
  BY <1>4, <1>5 DEF Contract!Finish, InDispatch

\* After cancel() the end of the dispatch is the worker's own business.
LEMMA DispatchEndMaps ==
    ASSUME LaneInv, worker = "dispatching", current' = NoItem, cancelled' = FALSE,
           UNCHANGED <<owners, queue, lastSent>>
    PROVE  Contract!Finish \/ UNCHANGED <<owners, AbstractPending, InDispatch, lastSent>>
<1>1. CASE cancelled
  <2>1. ~InDispatch /\ ~InDispatch'
    BY <1>1 DEF InDispatch
  <2> QED
    BY <2>1 DEF AbstractPending, Uncancelled, InDispatch, AsCommand
<1>2. CASE ~cancelled
  <2>1. InDispatch
    BY <1>2 DEF InDispatch, LaneInv, Shape, CurrentDispatched
  <2> QED
    BY <2>1, FinishMaps
<1> QED
  BY <1>1, <1>2

LEMMA StartMaps ==
    ASSUME LaneInv, NEW i \in queue, WorkerDispatches(i)
    PROVE  Contract!Start
<1>1. ~InDispatch /\ ~cancelled /\ current' = i /\ queue' = queue \ {i}
      /\ UNCHANGED <<owners, cancelled, lastSent>>
  BY DEF WorkerDispatches, LaneInv, Shape, CurrentDispatched, InDispatch, sessionVars, countVars
<1>2. i # NoItem
  BY NoItemAssumption DEF LaneInv, Types
<1>3. InDispatch' /\ Uncancelled' = Uncancelled /\ i \in Uncancelled
  BY <1>1, <1>2 DEF InDispatch, Uncancelled
<1> QED
  BY <1>1, <1>3 DEF Contract!Start, AbstractPending, AsCommand

LEMMA ShutdownMaps ==
    ASSUME LaneInv, CloseBegins
    PROVE  Contract!Shutdown
<1>1. owners' = {} /\ queue' = {} /\ ~InDispatch' /\ lastSent' = lastSent
  BY DEF CloseBegins, InDispatch, countVars
<1>2. Uncancelled' = Uncancelled \ Uncancelled
  BY <1>1 DEF Uncancelled
<1>3. InDispatch => current \in Uncancelled
  BY DEF Uncancelled
<1>4. Contract!Withdraw({AsCommand(i) : i \in Uncancelled})
  BY <1>1, <1>2, <1>3, AbstractWithdraws
<1> QED
  BY <1>1, <1>4 DEF Contract!Shutdown, AbstractPending

\* Every step of the lane is a step of the contract or leaves it alone.
LEMMA StepMaps ==
    ASSUME LaneInv, [Next]_vars
    PROVE  [Contract!Next]_(Contract!contract)
<1> DEFINE Same == UNCHANGED <<owners, AbstractPending, InDispatch, lastSent>>
<1>0. Same => [Contract!Next]_(Contract!contract)
  BY DEF Contract!contract
<1> USE DEF Contract!Next
<1>1. ASSUME NEW o \in Owners, Activate(o) PROVE Contract!Open(o)
  BY <1>1 DEF Activate, workVars, countVars, Contract!Open, AbstractPending, Uncancelled, InDispatch,
     AsCommand
<1>2. ASSUME NEW o \in Owners, CancelOwner(o) \/ CancelAndWait(o) \/ SubmitRevoked(o)
      PROVE  Contract!EndSession(o)
  BY <1>2, DropOwnerMaps DEF CancelOwner, CancelAndWait, SubmitRevoked
<1>3. ASSUME NEW i \in queue, WorkerRefuses(i)
      PROVE  \E o \in Owners : Contract!EndSession(o)
  BY <1>3, RefusalMaps DEF LaneInv, Types, Item
<1>4. ASSUME DispatchRevoked
      PROVE  \E o \in Owners : Contract!EndSession(o)
  BY <1>4, RevocationMaps DEF DispatchRevoked, Dispatching, LaneInv, Shape, CurrentDispatched,
     Types, Item
<1>5. ASSUME DispatchReturns \/ DispatchFails \/ DispatchCancelled
      PROVE  Contract!Finish \/ Same
  BY <1>5, DispatchEndMaps DEF DispatchReturns, DispatchFails, DispatchEnds, Dispatching,
     DispatchCancelled, ClearCurrent, sessionVars, countVars
<1>6. ASSUME WaitCancelled \/ CloseEnds
      PROVE  Same
  <2>1. current = NoItem /\ current' = NoItem /\ UNCHANGED <<owners, queue, lastSent>>
    BY <1>6 DEF WaitCancelled, CloseEnds, ClearCurrent, LaneInv, Shape, CurrentDispatched,
       sessionVars, countVars
  <2> QED
    BY <2>1 DEF AbstractPending, Uncancelled, InDispatch, AsCommand
<1>7. ASSUME \/ WorkerWakes \/ WorkerParks \/ Join \/ UNCHANGED vars
             \/ \E w \in Waiters : WaiterResumes(w)
             \/ \E o \in Owners : AuthorityChanges(o)
      PROVE  Same
  BY <1>7, AbstractUnchanged DEF WorkerWakes, WorkerParks, Join, vars, WaiterResumes,
     AuthorityChanges, sessionVars, workVars, countVars
<1> HIDE DEF Same
<1> QED
  BY <1>0, <1>1, <1>2, <1>3, <1>4, <1>5, <1>6, <1>7, AcceptMaps, ReplaceMaps, EndHoldMaps,
     StartMaps, DeliverMaps, ShutdownMaps
  DEF Next, Session, Submit, SubmitAndWait, Worker

\* The lane's worker, wake-up event and cancellations together behave as the bounded FIFO of
\* LaneContract (CommandDispatchLane): every step of the code's is one of the contract's, or none.
THEOREM LaneKeepsItsContract == Spec => ImplementsContract
<1>1. Init => Contract!Init
  BY DEF Init, Contract!Init, AbstractPending, Uncancelled, InDispatch
<1> QED
  BY <1>1, StepMaps, LaneInvariant, PTL DEF Spec, ImplementsContract, Contract!Spec
=============================================================================
