----------------------------- MODULE Lifecycle -----------------------------
(***************************************************************************)
(* One life of the service: app.run and its exit stack, serve and          *)
(* close_server, and the mDNS advertiser (discovery.py) whose zeroconf     *)
(* calls run in an executor, where they outlive the task that awaits them. *)
(*                                                                         *)
(* zeroconf is external: a register, update or unregister takes effect or  *)
(* raises without one, and close withdraws everything and answers no more. *)
(* The lane is reduced to its worker, alive or not; the Samsung client to  *)
(* its socket, which any command of the worker may open again.             *)
(*                                                                         *)
(* Until run has installed its signal handlers a first Ctrl-C cancels it,  *)
(* at whatever it awaits; afterwards a signal only sets the stop event.    *)
(*                                                                         *)
(* Its names begin with Life where PairedCache, whose proofs share a       *)
(* module with its own, has the same.                                      *)
(***************************************************************************)
EXTENDS Naturals, Sequences, SequencesExt

CONSTANTS
    MaxMoves,    \* bound: changes of the LAN address
    MaxFailures  \* bound: zeroconf calls that raise

ASSUME LifecycleAssumption == MaxMoves \in Nat /\ MaxFailures \in Nat

NoIp == 0
Ips == 0..2

VARIABLES
    stage,       \* what run is at
    stack,       \* the exit stack's callbacks, the last one pushed last
    cutShort,    \* history: a callback of the stack, or close_server, was cancelled midway
    cancelled,   \* history: the one Ctrl-C has come
    listener, lane, paired, samsung, zconf,   \* none, open, closed
    ip,          \* the LAN address
    announced,   \* the address that zeroconf answers with
    currentIp, registered, closing,           \* _current_ip, _registered, _closing
    poller,      \* _task: none, asleep, in a call, over
    call,        \* the executor's refresh: none, queued, running, done, failed
    callIp,      \* its address
    moves, failures

runVars == <<stage, stack, cutShort, cancelled>>
heldVars == <<listener, lane, paired, samsung, zconf>>
adVars == <<currentIp, registered, closing, poller>>
callVars == <<call, callIp>>
envVars == <<ip, moves, failures>>
lifeVars == <<runVars, heldVars, announced, adVars, callVars, envVars>>

Held == {"none", "open", "closed"}

LifeTypeOK ==
    /\ stage \in {"setup", "bind", "zconf", "start", "announce", "abort", "drain", "connect",
                  "running", "unwind", "drainLast", "goodbye", "ended"}
    /\ stack \in Seq({"client", "zconf", "advertiser", "server"})
    /\ cutShort \in BOOLEAN /\ cancelled \in BOOLEAN
    /\ listener \in Held /\ lane \in Held /\ paired \in Held /\ samsung \in Held /\ zconf \in Held
    /\ ip \in Ips /\ announced \in Ips /\ currentIp \in Ips
    /\ registered \in BOOLEAN /\ closing \in BOOLEAN
    /\ poller \in {"none", "asleep", "calling", "over"}
    /\ call \in {"none", "queued", "running", "done", "failed"} /\ callIp \in Ips
    /\ moves \in 0..MaxMoves /\ failures \in 0..MaxFailures

LifeInit ==
    /\ stage = "setup" /\ stack = <<>> /\ cutShort = FALSE /\ cancelled = FALSE
    /\ listener = "none" /\ lane = "none" /\ paired = "none"
    /\ samsung = "none" /\ zconf = "none"
    /\ ip \in Ips /\ announced = NoIp
    /\ currentIp = NoIp /\ registered = FALSE /\ closing = FALSE
    /\ poller = "none" /\ call = "none" /\ callIp = NoIp
    /\ moves = 0 /\ failures = 0

-----------------------------------------------------------------------------
(* The advertiser.                                                          *)

\* refresh: there is something to announce
Stale == ~closing /\ ip # NoIp /\ ip # currentIp

\* faulty: the address is taken for announced when its call is made
CallsEagerly ==
    /\ call' = "queued" /\ callIp' = ip /\ currentIp' = ip
    /\ UNCHANGED <<registered, closing>>

Calls ==
    /\ call' = "queued" /\ callIp' = ip
    /\ UNCHANGED <<currentIp, registered, closing>>

\* The call has returned: refresh goes on after its await.
Learns ==
    /\ IF call = "done" THEN currentIp' = callIp /\ registered' = TRUE
                        ELSE UNCHANGED <<currentIp, registered>>
    /\ call' = "none"
    /\ UNCHANGED <<closing, callIp>>

PollerWakes ==
    /\ poller = "asleep" /\ Stale
    /\ Calls /\ poller' = "calling"
    /\ UNCHANGED <<runVars, heldVars, announced, envVars>>

\* _poll_loop swallows what refresh raises.
PollerReturns ==
    /\ poller = "calling" /\ call \in {"done", "failed"}
    /\ Learns /\ poller' = "asleep"
    /\ UNCHANGED <<runVars, heldVars, announced, envVars>>

CallRuns ==
    /\ call = "queued" /\ call' = "running"
    /\ UNCHANGED <<runVars, heldVars, announced, adVars, callIp, envVars>>

\* The call takes effect, whoever still awaits it; one that comes after close does not.
CallEnds ==
    /\ call = "running"
    /\ \/ zconf = "open" /\ announced' = callIp /\ call' = "done" /\ UNCHANGED failures
       \/ /\ failures < MaxFailures /\ failures' = failures + 1
          /\ call' = "failed" /\ UNCHANGED announced
       \/ zconf = "closed" /\ call' = "failed" /\ UNCHANGED <<announced, failures>>
    /\ UNCHANGED <<runVars, heldVars, adVars, callIp, ip, moves>>

\* Cancelling an await drops a call that no thread has taken up.
Abandons ==
    /\ call' = IF call = "queued" THEN "none" ELSE call
    /\ UNCHANGED callIp

-----------------------------------------------------------------------------
(* run, up to the stop event.                                               *)

Pushes(callback) == stack' = Append(stack, callback)

MakesClient ==
    /\ stage = "setup" /\ stage' = "bind"
    /\ Pushes("client")
    /\ UNCHANGED <<cutShort, cancelled, heldVars, announced, adVars, callVars, envVars>>

\* _start_companion_listener_with_identity and serve: all of it or, after their cleanup, nothing.
Binds ==
    /\ stage = "bind" /\ stage' = "zconf"
    /\ listener' = "open" /\ lane' = "open" /\ paired' = "open"
    /\ UNCHANGED <<stack, cutShort, cancelled, samsung, zconf, announced, adVars, callVars, envVars>>

BindFails ==
    /\ stage = "bind" /\ stage' = "unwind"
    /\ UNCHANGED <<stack, cutShort, cancelled, heldVars, announced, adVars, callVars, envVars>>

OpensZeroconf ==
    /\ stage = "zconf"
    /\ \/ zconf' = "open" /\ stack' = stack \o <<"zconf", "advertiser">> /\ stage' = "start"
       \/ UNCHANGED <<zconf, stack>> /\ stage' = "abort"
    /\ UNCHANGED <<cutShort, cancelled, listener, lane, paired, samsung, announced, adVars,
                   callVars, envVars>>

\* start: a missing address leaves the announcement to the poller.
StartsAdvertiser ==
    /\ stage = "start"
    /\ IF Stale THEN stage' = "announce" /\ Calls /\ UNCHANGED <<stack, poller>>
       ELSE /\ stage' = "connect" /\ poller' = "asleep" /\ Pushes("server")
            /\ UNCHANGED <<currentIp, registered, closing, callVars>>
    /\ UNCHANGED <<cutShort, cancelled, heldVars, announced, envVars>>

\* The first announcement must succeed.
AnnounceReturns ==
    /\ stage = "announce" /\ call \in {"done", "failed"}
    /\ Learns
    /\ IF call = "done" THEN stage' = "connect" /\ poller' = "asleep" /\ Pushes("server")
                        ELSE stage' = "abort" /\ UNCHANGED <<poller, stack>>
    /\ UNCHANGED <<cutShort, cancelled, heldVars, announced, envVars>>

\* A TV that cannot be reached is left for the first command.
Connects ==
    /\ stage = "connect" /\ stage' = "running"
    /\ samsung' \in {"open", samsung}
    /\ UNCHANGED <<stack, cutShort, cancelled, listener, lane, paired, zconf, announced, adVars,
                   callVars, envVars>>

Stops ==
    /\ stage = "running" /\ stage' = "unwind"
    /\ UNCHANGED <<stack, cutShort, cancelled, heldVars, announced, adVars, callVars, envVars>>

\* The Ctrl-C cancels what run awaits.
Cancels ==
    /\ ~cancelled /\ cancelled' = TRUE
    /\ \/ /\ stage \in {"bind", "connect"} /\ stage' = "unwind"
          /\ UNCHANGED <<stack, cutShort, paired, samsung, zconf, callVars>>
       \/ /\ stage = "announce" /\ stage' = "abort" /\ Abandons
          /\ UNCHANGED <<stack, cutShort, paired, samsung, zconf>>
       \/ /\ stage = "drain" /\ stage' = "unwind"
          /\ cutShort' = TRUE /\ paired' = "closed"
          /\ UNCHANGED <<stack, samsung, zconf, callVars>>
       \/ /\ stage = "unwind" /\ poller = "none"  \* the start has failed
          /\ stack # <<>> /\ Last(stack) \in {"zconf", "client"} /\ stack' = Front(stack)
          /\ cutShort' = TRUE
          /\ IF Last(stack) = "zconf" THEN zconf' \in {zconf, "closed"} /\ UNCHANGED samsung
                                      ELSE samsung' \in {samsung, "closed"} /\ UNCHANGED zconf
          /\ UNCHANGED <<stage, paired, callVars>>
    /\ UNCHANGED <<listener, lane, announced, adVars, envVars>>

-----------------------------------------------------------------------------
(* The end of it.                                                           *)

\* close_server, when starting has failed (abort) or from the stack (server).
ClosesListener ==
    /\ \/ stage = "abort" /\ stage' = "drain" /\ UNCHANGED stack
       \/ stage = "unwind" /\ stack # <<>> /\ Last(stack) = "server"
          /\ stage' = "drainLast" /\ stack' = Front(stack)
    /\ listener' = "closed"
    /\ UNCHANGED <<cutShort, cancelled, lane, paired, samsung, zconf, announced, adVars, callVars,
                   envVars>>

\* faulty: the worker is left to end by itself
LeavesLane ==
    /\ stage \in {"drain", "drainLast"} /\ stage' = "unwind"
    /\ paired' = "closed"
    /\ UNCHANGED <<stack, cutShort, cancelled, listener, lane, samsung, zconf, announced, adVars,
                   callVars, envVars>>

\* The connections' helpers are awaited, then lane.close, then the clients' store is closed.
DrainsLane ==
    /\ stage \in {"drain", "drainLast"} /\ stage' = "unwind"
    /\ lane' = "closed" /\ paired' = "closed"
    /\ UNCHANGED <<stack, cutShort, cancelled, listener, samsung, zconf, announced, adVars,
                   callVars, envVars>>

\* CompanionAdvertiser.close: the poller is cancelled and awaited.
ClosesAdvertiser ==
    /\ stage = "unwind" /\ stack # <<>> /\ Last(stack) = "advertiser"
    /\ stack' = Front(stack) /\ stage' = "goodbye"
    /\ closing' = TRUE
    /\ poller' = IF poller = "none" THEN "none" ELSE "over"
    /\ IF poller = "calling" THEN Abandons ELSE UNCHANGED callVars
    /\ UNCHANGED <<cutShort, cancelled, heldVars, announced, currentIp, registered, envVars>>

\* An unregister that raises is ignored.
Unregisters ==
    /\ stage = "goodbye" /\ stage' = "unwind"
    /\ IF registered
       THEN \/ announced' = NoIp /\ UNCHANGED failures
            \/ failures < MaxFailures /\ failures' = failures + 1 /\ UNCHANGED announced
       ELSE UNCHANGED <<announced, failures>>
    /\ registered' = FALSE
    /\ UNCHANGED <<stack, cutShort, cancelled, heldVars, currentIp, closing, poller, callVars,
                   ip, moves>>

ClosesZeroconf ==
    /\ stage = "unwind" /\ stack # <<>> /\ Last(stack) = "zconf"
    /\ stack' = Front(stack)
    /\ zconf' = "closed" /\ announced' = NoIp
    /\ UNCHANGED <<stage, cutShort, cancelled, listener, lane, paired, samsung, adVars, callVars,
                   envVars>>

ClosesClient ==
    /\ stage = "unwind" /\ stack # <<>> /\ Last(stack) = "client"
    /\ stack' = Front(stack)
    /\ samsung' = "closed"
    /\ UNCHANGED <<stage, cutShort, cancelled, listener, lane, paired, zconf, announced, adVars,
                   callVars, envVars>>

Ends ==
    /\ stage = "unwind" /\ stack = <<>> /\ stage' = "ended"
    /\ UNCHANGED <<stack, cutShort, cancelled, heldVars, announced, adVars, callVars, envVars>>

-----------------------------------------------------------------------------
(* What goes on beside it.                                                  *)

\* A command of a phone: send_key connects to the TV when there is no socket.
LaneSends ==
    /\ lane = "open" /\ samsung # "open" /\ samsung' = "open"
    /\ UNCHANGED <<runVars, listener, lane, paired, zconf, announced, adVars, callVars, envVars>>

Moves ==
    /\ moves < MaxMoves /\ moves' = moves + 1
    /\ ip' \in Ips \ {ip}
    /\ UNCHANGED <<runVars, heldVars, announced, adVars, callVars, failures>>

RunSteps ==
    \/ MakesClient \/ Binds \/ BindFails \/ OpensZeroconf \/ StartsAdvertiser \/ AnnounceReturns
    \/ Connects \/ ClosesListener \/ DrainsLane \/ ClosesAdvertiser \/ Unregisters
    \/ ClosesZeroconf \/ ClosesClient \/ Ends

LifeNext ==
    \/ RunSteps \/ Stops \/ Cancels
    \/ PollerWakes \/ PollerReturns \/ CallRuns \/ CallEnds
    \/ LaneSends \/ Moves

\* run goes on to the stop event and, once that is set, to its end; the poller's sleep ends, and
\* the executor runs every call.  Nobody has to stop the service.
LifeFairness ==
    /\ WF_lifeVars(RunSteps)
    /\ WF_lifeVars(PollerWakes \/ PollerReturns)
    /\ WF_lifeVars(CallRuns \/ CallEnds)

LifeSpec == LifeInit /\ [][LifeNext]_lifeVars /\ LifeFairness

-----------------------------------------------------------------------------
(* Properties.                                                              *)

Running(resource) == resource = "open"

\* However run ends - a failed start, a cancelled one, the stop event - nothing of the service is
\* left: no listener, no open store, no poller, no announcement even by a zeroconf call that outlived
\* its task, and, unless the clean-up of a failed start was itself cancelled, no zeroconf and no lane
\* worker that opens the TV's socket again (the exit stack of app.run).
NothingLeft ==
    stage = "ended" =>
        /\ ~Running(listener) /\ ~Running(paired)
        /\ poller \notin {"asleep", "calling"} /\ announced = NoIp
        /\ cutShort \/ (~Running(zconf) /\ ~Running(lane) /\ ~Running(samsung))

\* serve's promise: the worker is drained before the Samsung client is closed.
DrainedBeforeClient == samsung = "closed" => ~Running(lane)

\* While the service runs on, its announcement comes to be the address that the host has, whatever
\* calls failed before (CompanionAdvertiser).
AnnouncementCatchesUp ==
    \A a \in Ips \ {NoIp} :
        <>[](stage = "running" /\ ip = a) => <>[](announced = a)
=============================================================================
