--------------------------- MODULE SamsungClient ---------------------------
(***************************************************************************)
(* SamsungFrameClient (samsung/client.py): the one websocket to the TV,    *)
(* and the lifecycle lock under which connecting, every send with its one  *)
(* retry, and closing take their turn.  Two tasks call it: the dispatch    *)
(* lane's worker, with keys and texts, and the application, which connects *)
(* at startup and closes at exit, after the lane was drained.  Every await *)
(* is a step value; the steps "locked" and "send" are synchronous code.    *)
(***************************************************************************)
EXTENDS Naturals

CONSTANTS
    Interval,     \* reconnect_min_interval, in ticks
    MaxSockets    \* bound: connections opened in a behaviour

ASSUME ClientAssumption ==
    /\ Interval \in Nat \ {0}
    /\ MaxSockets \in Nat

Callers == {"app", "lane"}
Sockets == 1..MaxSockets

VARIABLES
    op,            \* the call each caller is in
    holder,        \* who holds _lifecycle_lock
    step,          \* where the holder is
    attempt,       \* 2 once the holder's command is being retried
    socket,        \* what became of every connection
    remote,        \* _remote; 0 is None
    candidate,     \* the connection _connect_locked is opening; 0 if none
    failed,        \* it raised an Exception, not CancelledError
    lastFailed,    \* _last_connect_failed
    age,           \* time since _last_connect_attempt_at, up to Interval
    firstTextSent, \* _first_text_sent
    authorized,    \* what the command's authorization check would answer now
    stage,         \* the application: starting, running, stopped
    primed,        \* history: the TV's current text field has had its broadcast
    raced,         \* history: an IME event came while the last broadcast was awaited
    written        \* history: how often the holder's command was written

callVars == <<op, holder, step, attempt, failed, written>>
netVars  == <<socket, remote, candidate>>
timeVars == <<lastFailed, age>>
textVars == <<firstTextSent, primed, raced>>
vars == <<callVars, netVars, timeVars, textVars, authorized, stage>>

TypeOK ==
    /\ op \in [Callers -> {"none", "connect", "key", "text", "close"}]
    /\ holder \in Callers \cup {"none"}
    /\ step \in {"none", "locked", "connecting", "cleaning", "send", "priming", "writing",
                 "dropping"}
    /\ attempt \in {1, 2}
    /\ socket \in [Sockets -> {"none", "connecting", "ready", "closing"}]
    /\ remote \in 0..MaxSockets
    /\ candidate \in 0..MaxSockets
    /\ failed \in BOOLEAN
    /\ lastFailed \in BOOLEAN
    /\ age \in 0..Interval
    /\ firstTextSent \in BOOLEAN
    /\ authorized \in BOOLEAN
    /\ stage \in {"starting", "running", "stopped"}
    /\ primed \in BOOLEAN
    /\ raced \in BOOLEAN
    /\ written \in 0..2

Init ==
    /\ op = [c \in Callers |-> "none"]
    /\ holder = "none" /\ step = "none" /\ attempt = 1
    /\ socket = [s \in Sockets |-> "none"]
    /\ remote = 0 /\ candidate = 0 /\ failed = FALSE
    /\ lastFailed = FALSE /\ age = Interval
    /\ firstTextSent = FALSE
    /\ authorized = TRUE
    /\ stage = "starting"
    /\ primed = FALSE /\ raced = FALSE /\ written = 0

-----------------------------------------------------------------------------
(* Calls.                                                                   *)

Call(c, o) ==
    /\ op[c] = "none"
    /\ \/ c = "lane" /\ o \in {"key", "text"} /\ stage # "stopped" /\ stage' = stage
       \/ c = "app" /\ o = "connect" /\ stage = "starting" /\ stage' = "running"
       \/ c = "app" /\ o = "close" /\ stage = "running" /\ op["lane"] = "none"
             /\ stage' = "stopped"
    /\ op' = [op EXCEPT ![c] = o]
    /\ UNCHANGED <<holder, step, attempt, failed, written, netVars, timeVars, textVars,
                   authorized>>

Acquire(c) ==
    /\ holder = "none" /\ op[c] # "none"
    /\ holder' = c /\ step' = "locked"
    /\ UNCHANGED <<op, attempt, failed, written, netVars, timeVars, textVars, authorized, stage>>

\* The holder's call returns or raises: async with releases the lock.
Finish ==
    /\ op' = [op EXCEPT ![holder] = "none"]
    /\ holder' = "none" /\ step' = "none"
    /\ attempt' = 1 /\ failed' = FALSE /\ written' = 0

Goes(s) == step' = s /\ UNCHANGED <<op, holder, failed, written>>

Op == IF holder = "none" THEN "none" ELSE op[holder]

-----------------------------------------------------------------------------
(* Connecting.                                                              *)

\* faulty: a success does not clear _last_connect_failed
ForgetsSuccess == lastFailed' = lastFailed
ClearsFailure == lastFailed' = FALSE

CoolingDown == lastFailed /\ age < Interval

ConnectBegins ==
    /\ ~CoolingDown
    /\ \E s \in Sockets :
          /\ socket[s] = "none" /\ \A t \in Sockets : t < s => socket[t] # "none"
          /\ socket' = [socket EXCEPT ![s] = "connecting"]
          /\ candidate' = s
    /\ age' = 0
    /\ Goes("connecting")
    /\ UNCHANGED <<remote, lastFailed>>

\* No socket is opened: the token is unreadable, or building the remote raises.
ConnectRefused ==
    /\ ~CoolingDown
    /\ \/ UNCHANGED timeVars
       \/ age' = 0 /\ lastFailed' = TRUE
    /\ Finish
    /\ UNCHANGED netVars

CooldownRaises == CoolingDown /\ Finish /\ UNCHANGED <<netVars, timeVars>>

\* _connect_locked up to its await, after the check of the cool-down.
Connect ==
    /\ ConnectBegins \/ ConnectRefused \/ CooldownRaises
    /\ UNCHANGED <<textVars, authorized, stage>>

NeedsConnection ==
    /\ step = "locked" /\ Op \in {"connect", "key", "text"} /\ remote = 0
    /\ Connect
    /\ attempt' = 1

HasConnection ==
    /\ step = "locked" /\ Op \in {"connect", "key", "text"} /\ remote # 0
    /\ IF Op = "connect" THEN Finish ELSE Goes("send") /\ UNCHANGED attempt
    /\ UNCHANGED <<netVars, timeVars, textVars, authorized, stage>>

\* Only a candidate whose listener is up becomes _remote.
Connected ==
    /\ step = "connecting"
    /\ remote' = candidate /\ candidate' = 0
    /\ socket' = [socket EXCEPT ![candidate] = "ready"]
    /\ ClearsFailure
    /\ primed' = FALSE /\ raced' = FALSE
    /\ IF Op = "connect" THEN Finish ELSE Goes("send") /\ UNCHANGED attempt
    /\ UNCHANGED <<age, firstTextSent, authorized, stage>>

\* faulty: except Exception, so that a cancelled connect is not cleaned up
CleansUpErrors(exception) ==
    IF exception
    THEN /\ socket' = [socket EXCEPT ![candidate] = "closing"]
         /\ step' = "cleaning" /\ failed' = TRUE
         /\ UNCHANGED <<op, holder, written, attempt, remote, candidate>>
    ELSE Finish /\ candidate' = 0 /\ UNCHANGED <<socket, remote>>

\* except BaseException: the candidate is closed before the error goes on.
CleansUp(exception) ==
    /\ socket' = [socket EXCEPT ![candidate] = "closing"]
    /\ step' = "cleaning" /\ failed' = exception
    /\ UNCHANGED <<op, holder, written, attempt, remote, candidate>>

ConnectFails ==
    /\ step = "connecting"
    /\ CleansUp(TRUE)
    /\ UNCHANGED <<timeVars, textVars, authorized, stage>>

CleanupEnds ==
    /\ step = "cleaning"
    /\ lastFailed' = (lastFailed \/ failed)
    /\ candidate' = 0
    /\ Finish
    /\ UNCHANGED <<socket, remote, age, textVars, authorized, stage>>

-----------------------------------------------------------------------------
(* Sending.                                                                 *)

CheckedOnce == authorized \/ attempt = 2             \* faulty: the retry is not checked again
Authorized == authorized

SendKey ==
    /\ step = "send" /\ Op = "key" /\ Authorized
    /\ step' = "writing" /\ written' = written + 1
    /\ UNCHANGED <<op, holder, attempt, failed, netVars, timeVars, textVars, authorized, stage>>

SendBroadcast ==
    /\ step = "send" /\ Op = "text" /\ ~firstTextSent /\ Authorized
    /\ primed' = TRUE /\ raced' = FALSE
    /\ Goes("priming")
    /\ UNCHANGED <<attempt, netVars, timeVars, firstTextSent, authorized, stage>>

BroadcastReturns ==
    /\ step = "priming"
    /\ firstTextSent' = TRUE
    /\ Goes("send")
    /\ UNCHANGED <<attempt, netVars, timeVars, primed, raced, authorized, stage>>

SendText ==
    /\ step = "send" /\ Op = "text" /\ firstTextSent /\ Authorized
    /\ step' = "writing" /\ written' = written + 1
    /\ UNCHANGED <<op, holder, attempt, failed, netVars, timeVars, textVars, authorized, stage>>

SendRevoked ==
    /\ step = "send" /\ ~Authorized
    /\ firstTextSent' = (firstTextSent /\ Op # "text")
    /\ Finish
    /\ UNCHANGED <<netVars, timeVars, primed, raced, authorized, stage>>

SendReturns ==
    /\ step = "writing"
    /\ Finish
    /\ UNCHANGED <<netVars, timeVars, textVars, authorized, stage>>

DropsKeepingText ==                                  \* faulty: the next socket is not primed
    /\ socket' = [socket EXCEPT ![remote] = "closing"]
    /\ remote' = 0
    /\ Goes("dropping")
    /\ UNCHANGED <<candidate, firstTextSent>>

DropsKeepingRemote ==                                \* faulty: _remote still names it
    /\ firstTextSent' = FALSE
    /\ socket' = [socket EXCEPT ![remote] = "closing"]
    /\ Goes("dropping")
    /\ UNCHANGED <<remote, candidate>>

\* _close_locked up to its await, with the text state reset before it.
DropsRemote ==
    /\ firstTextSent' = FALSE
    /\ socket' = [socket EXCEPT ![remote] = "closing"]
    /\ remote' = 0
    /\ Goes("dropping")
    /\ UNCHANGED candidate

MayAlwaysRetry == TRUE                               \* faulty: a loop in place of one retry
MayRetry == attempt = 1

SendRaises ==
    /\ step \in {"priming", "writing"}
    /\ IF MayRetry THEN DropsRemote /\ attempt' = 2
                   ELSE Finish /\ UNCHANGED <<netVars, firstTextSent>>
    /\ UNCHANGED <<timeVars, primed, raced, authorized, stage>>

ReconnectsLocked ==                                  \* faulty: through connect(), which locks
    /\ step = "dropping" /\ Op # "close" /\ holder = "none"
    /\ Connect
    /\ holder' # "none" => UNCHANGED attempt

\* The dropped socket is closed (an error in closing is suppressed): connect again.
Reconnects ==
    /\ step = "dropping" /\ Op # "close"
    /\ Connect
    /\ holder' # "none" => UNCHANGED attempt

-----------------------------------------------------------------------------
(* Closing, cancellation and the environment.                               *)

CloseBegins ==
    /\ step = "locked" /\ Op = "close"
    /\ IF remote = 0 THEN Finish /\ firstTextSent' = FALSE /\ UNCHANGED netVars
                     ELSE DropsRemote /\ UNCHANGED attempt
    /\ UNCHANGED <<timeVars, primed, raced, authorized, stage>>

CloseEnds ==
    /\ step = "dropping" /\ Op = "close"
    /\ Finish
    /\ UNCHANGED <<netVars, timeVars, textVars, authorized, stage>>

\* The caller's task is cancelled at an await; the application never cancels its close().
CancelWaiting(c) ==
    /\ op[c] \notin {"none", "close"} /\ holder # c
    /\ op' = [op EXCEPT ![c] = "none"]
    /\ UNCHANGED <<holder, step, attempt, failed, written, netVars, timeVars, textVars,
                   authorized, stage>>

CancelConnect ==
    /\ step = "connecting"
    /\ CleansUp(FALSE)
    /\ UNCHANGED <<timeVars, textVars, authorized, stage>>

CancelHolder ==
    /\ step \in {"cleaning", "priming", "writing", "dropping"} /\ Op # "close"
    /\ candidate' = 0
    /\ Finish
    /\ UNCHANGED <<socket, remote, timeVars, textVars, authorized, stage>>

EventKeepsFlag == firstTextSent' = firstTextSent     \* faulty: only the service is told
EventClearsFlag == firstTextSent' = FALSE

\* imeStart or imeEnd, handled by the listener at any await of the holder: the next insert must be
\* preceded by a broadcast.
ImeEvent ==
    /\ step \notin {"locked", "send"}
    /\ \E s \in Sockets : socket[s] \in {"connecting", "ready"}
    /\ EventClearsFlag
    /\ primed' = FALSE /\ raced' = (step = "priming")
    /\ UNCHANGED <<callVars, netVars, timeVars, authorized, stage>>

Tick ==
    /\ age < Interval
    /\ age' = age + 1
    /\ UNCHANGED <<callVars, netVars, lastFailed, textVars, authorized, stage>>

AuthorityChanges ==
    /\ authorized' = ~authorized
    /\ UNCHANGED <<callVars, netVars, timeVars, textVars, stage>>

-----------------------------------------------------------------------------
HolderStep ==
    \/ NeedsConnection \/ HasConnection \/ Connected \/ ConnectFails \/ CleanupEnds
    \/ SendKey \/ SendBroadcast \/ BroadcastReturns \/ SendText \/ SendRevoked
    \/ SendReturns \/ SendRaises \/ Reconnects \/ CloseBegins \/ CloseEnds

Next ==
    \/ \E c \in Callers, o \in {"connect", "key", "text", "close"} : Call(c, o)
    \/ \E c \in Callers : Acquire(c) \/ CancelWaiting(c)
    \/ HolderStep \/ CancelConnect \/ CancelHolder
    \/ ImeEvent \/ Tick \/ AuthorityChanges

Spec == Init /\ [][Next]_vars

(* asyncio.Lock is first come, first served, hence the strong fairness of   *)
(* Acquire.  That an awaited call to the TV ends is assumed of the library; *)
(* connecting has a timeout.                                                *)
FairSpec ==
    /\ Spec
    /\ WF_vars(HolderStep)
    /\ \A c \in Callers : SF_vars(Acquire(c))

-----------------------------------------------------------------------------
(* Properties.                                                              *)

\* The Frame accepts one websocket: whatever fails or is cancelled, a connection is only opened
\* when every earlier one is gone or being closed, and the one whose listener is up is _remote, so
\* that none is lost track of.
OneSocket ==
    /\ \A s, t \in Sockets :
          socket[s] \in {"connecting", "ready"} /\ socket[t] \in {"connecting", "ready"} => s = t
    /\ \A s \in Sockets : socket[s] = "ready" <=> s = remote

\* The cool-down never stands between a dropped socket and its one reconnect, although the retry
\* checks it: a client that has a socket has no failure on record.
DropReconnects == step = "dropping" => ~CoolingDown

\* Every write to the TV, the broadcast and the retry included, is authorized when it is made,
\* however long the reconnect before it took; and a command is written twice at most, whatever fails
\* after that.
AuthorizedWrites ==
    [][written' > written \/ (step = "send" /\ step' = "priming") =>
          authorized /\ written' <= 2]_vars

\* Each text field the TV opens, on each connection, gets the text_received broadcast before its
\* first insert, except a field that opened or closed while the broadcast that set the flag was
\* itself awaited: no drop, retry, cancellation or revocation and no other keyboard event lets an
\* insert go unprimed, and the next event or connection ends the exception.
InsertPrimed == [][Op = "text" /\ written' > written => primed \/ raced]_vars

\* The same without the exception, as the comment on the keyboard events has it
\* (samsung/client.py:468-469).
AlwaysPrimed == [][Op = "text" /\ written' > written => primed]_vars

\* Every call ends, and with it the lock is released.
CallsEnd == \A c \in Callers : op[c] # "none" ~> op[c] = "none"
=============================================================================
