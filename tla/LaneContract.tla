---------------------------- MODULE LaneContract ----------------------------
(***************************************************************************)
(* What the dispatch lane promises the sessions and the TV, without its    *)
(* worker, its event, its futures or its cancellation: one bounded FIFO of *)
(* accepted commands, numbered as they were accepted.  Ending a session or *)
(* a hold removes its commands at once, wherever they are; only the oldest *)
(* command is ever at the TV; a newer text may take the place of the       *)
(* newest command, unless the TV has that one already.                     *)
(***************************************************************************)
EXTENDS Naturals, FiniteSets

CONSTANTS Owners, Generations, NoGeneration, MaxPending, MaxCommands

VARIABLES
    live,      \* sessions that may submit
    pending,   \* accepted commands, the oldest has the least number
    atTV,      \* the oldest of them has been handed to the Samsung client
    delivered  \* the number of the last command the TV was sent

contract == <<live, pending, atTV, delivered>>

Command == [number: 1..MaxCommands, owner: Owners, text: BOOLEAN,
            gen: Generations \cup {NoGeneration}]

Oldest(c) == c \in pending /\ \A d \in pending : c.number <= d.number
Newest(c) == c \in pending /\ \A d \in pending : d.number <= c.number

Init == live = {} /\ pending = {} /\ atTV = FALSE /\ delivered = 0

Open(o) ==
    /\ live' = live \cup {o}
    /\ UNCHANGED <<pending, atTV, delivered>>

Accept(c) ==
    /\ c.owner \in live
    /\ \A d \in pending : d.number < c.number
    /\ delivered < c.number
    /\ Cardinality(pending) < MaxPending
    /\ pending' = pending \cup {c}
    /\ UNCHANGED <<live, atTV, delivered>>

Replace(c) ==
    /\ c.owner \in live
    /\ c.text /\ c.gen = NoGeneration
    /\ \E last \in pending :
          /\ Newest(last) /\ ~(atTV /\ Oldest(last))
          /\ [last EXCEPT !.number = c.number] = c
          /\ last.number < c.number
          /\ pending' = (pending \ {last}) \cup {c}
    /\ UNCHANGED <<live, atTV, delivered>>

Start ==
    /\ ~atTV /\ pending # {}
    /\ atTV' = TRUE
    /\ UNCHANGED <<live, pending, delivered>>

\* The client may write a command more than once: it retries after a dropped socket.
Deliver ==
    /\ atTV
    /\ \E c \in pending : Oldest(c) /\ c.owner \in live /\ delivered' = c.number
    /\ UNCHANGED <<live, pending, atTV>>

Finish ==
    /\ atTV
    /\ \E c \in pending : Oldest(c) /\ pending' = pending \ {c}
    /\ atTV' = FALSE
    /\ UNCHANGED <<live, delivered>>

\* Some commands go; the one at the TV is abandoned if it is among them.
Withdraw(gone) ==
    /\ pending' = pending \ gone
    /\ atTV' = (atTV /\ \A c \in gone : ~Oldest(c))
    /\ UNCHANGED delivered

EndSession(o) ==
    /\ live' = live \ {o}
    /\ Withdraw({c \in pending : c.owner = o})

EndHold(o, g) ==
    /\ live' = live
    /\ Withdraw({c \in pending : c.owner = o /\ c.gen = g})

Shutdown ==
    /\ live' = {}
    /\ Withdraw(pending)

Next ==
    \/ \E o \in Owners : Open(o) \/ EndSession(o)
    \/ \E o \in Owners, g \in Generations : EndHold(o, g)
    \/ \E c \in Command : Accept(c) \/ Replace(c)
    \/ Start \/ Deliver \/ Finish \/ Shutdown

Spec == Init /\ [][Next]_contract
=============================================================================
