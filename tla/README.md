# A TLA+ verification of atvr4samsung

atvr4samsung lets the Apple TV Remote of an iPhone control a Samsung Frame TV.
It answers on the LAN as an Apple TV: the phone pairs with it, verifies itself
with its long-term key, opens an encrypted Companion connection and sends
button, touch and text-input frames. The bridge translates them into Samsung
remote commands and sends these over one websocket to the TV.

This directory holds TLA+ modules that model the program's stateful parts, the
TLC configurations that check them on small instances, and proofs checked by
TLAPS. Paths below are relative to the Python package `src/atvr4samsung/`
unless they start with another top-level directory of the repository.

Contents: 1 the system, 2 the modules and how they correspond to the code,
3 the runs, 4 the bounds, 5 fairness, 6 the proofs, 7 what the checks found, 8 what is not modelled, 9 how to run everything.

## 1. The system

Everything at run time happens in one process, on one asyncio event loop: what
the code does between two `await`s is atomic with respect to its other tasks.
Three things are concurrent all the same: tasks that suspend (the dispatch
worker, the hold repeaters, a call to the TV, shutdown), `cancel()`, which is
only delivered at a later step, and other processes (the commands `pair`,
`revoke`, `unpair`) that edit the same state directory.

    phone --frames--> FakeCompanionService / BridgeCompanionService
                         |  handshake: auth.py          |  touch: relay.py, gestures.py
                         |                              |  hold: repeater.py
                         v                              v
                  pairing state (files)        CommandDispatchLane (dispatch.py)
                  shared with the CLI                   |  one worker, one queue
                                                        v
                                               SamsungFrameClient (samsung/client.py)
                                                        |  one websocket
                                                        v
                                                       TV

| Component | State it keeps | Operations | Interacts with | What is hard | What makes it correct |
|---|---|---|---|---|---|
| Dispatch lane, `companion/dispatch.py` | owners, bounded deque, current command, futures of hold repeats, wake event, worker task, shared waiter future | activate, submit, submit_and_wait, cancel, cancel_and_wait, cancel_generation, join, close, the worker's loop | sessions (callers, `on_unauthorized`), the Samsung client (awaited), the paired-client store (read before each dispatch) | cancelling one session's command on a worker shared by all; a clear-and-wait event; futures awaited without timeout; authority that changes while queued | order, no command for a dead session, the worker survives, nothing awaited for ever |
| Samsung client, `samsung/client.py` | `_remote`, the cool-down, `_first_text_sent`, the lifecycle lock | connect, send_key, send_text, close, the TV's IME events | the lane's worker, `app.py`, the samsungtvws library | partial connects, cancellation at every await, retry while holding a non-reentrant lock, TV events during an await | one socket at a time, one retry, no write without authority, lock released |
| TV Remote session, relay and repeater, `companion/server.py`, `relay.py`, `repeater.py` | session owner, finger direction, hold flags, repeat tasks and their generations | session start/stop, button, touch frames, `_touchStop`, repeat task, disconnect, revocation | the lane (submits, purges), the phone | lost releases, restarts in mid-hold, a slow TV, a late task of an old hold | no repeat without a finger, nothing left in the lane, one phone never disturbs another |
| Pairing state, `pairing_window.py`, `companion/protocol/{identity_reset,paired_clients,server_identity,atomic_io}.py` | files: two recovery markers, window, clients, identity | pair, revoke, unpair, unpair --reset-identity, startup recovery, M1, M5, authorizes | CLI processes and the service, under one file lock | a crash or failing fsync between any two file operations | revoked stays revoked, enrolled stays enrolled, recovery does the right one of two things |
| Handshake, `companion/protocol/{auth,appletv}.py` | phase per connection, session keys, deadline | M1-M6 of pair-setup, M1-M4 of pair-verify, teardown | pairing state, guardrails | messages out of order, deadline racing the last message | only a completed handshake installs keys |
| Guardrails, `companion/protocol/guardrails.py` | admitted connections, failure tables | admit, release, attempt, fail, forget | the connection layer | tables at capacity, expiry at boundaries | bounds hold, and a refusal ends when its window has passed |
| Advertiser, `companion/discovery.py` | registration, last announced address, poll task | start, refresh, poll, close | zeroconf in an executor, the host's address | a call that fails, or outlives the task that awaits it | the announcement follows the address, and goes with the service |
| Paired-client cache, `companion/protocol/paired_clients.py` | cached clients, stamps, the retained chain of directories | authorizes, rewalk, reload | the files, replaced by other processes while read | a snapshot mixed from two states | never a stale allowance, never a refusal for good without a reason |
| State files, `companion/protocol/{atomic_io,pairing_state}.py` | a directory path, a file, a lock | walk, write, unlink, commit, lock | processes that create the same directories | a crash or an error between any two system calls | a reported change is durable, none is torn |
| Text input, `companion/server.py` | per connection: RTI session, registration, focus, text | `_tiStart`, `_tiStop`, `_tiC`, focus pushes | TV keyboard events, the lane | events of TV and phones crossing, lost ends, failing pushes | phone and service edit the same text, no old text in a new field |
| Lifecycle, `app.py` | an exit stack | run, serve, close_server | all of the above | a start that fails or is cancelled half-way | whatever happened, nothing is left running |
| Gestures, `bridge/gestures.py` | start and last point of a touch | feed, current_direction, reset | relay | thresholds, dead zone, diagonals | the discrete swipe and the hold agree on a direction |
| Frame layer, `companion/protocol/{framing,chacha20}.py` | receive buffer, nonce counters | data_received, encrypt, decrypt | the socket | a frame cut anywhere | the frames parsed do not depend on the cuts |
| Deployment manager, `deploy/` | bundles, transaction records | install, upgrade, rollback, recovery | file system, systemd | crash between steps | either the old or the new release is whole |
| Codecs, TLS pinning, configuration, logging, CI | none or constant | | | | left to the repository's tests |

The list of hazards, each at the line where it bites, with the properties that
would notice, is in `PROJECT.json`.

## 2. The modules

| Module | Models | Role |
|---|---|---|
| `DispatchLane` | `companion/dispatch.py` | the lane, its worker, waiters and close, step by step |
| `LaneContract` | what the lane promises | abstract specification: one bounded FIFO |
| `LaneImplements` | the refinement mapping from the first to the second | |
| `DispatchLaneProofs` | the inductive invariant of `DispatchLane`, the refinement and 14 theorems | |
| `SamsungClient` | `samsung/client.py` | the socket, the lock, the retry, the text state |
| `HoldSession` | `companion/server.py`, `relay.py`, `repeater.py` | sessions, touch, hold repeats; the lane is an `INSTANCE` of `LaneContract` |
| `PairingState` | `pairing_window.py`, `identity_reset.py`, `paired_clients.py`, `server_identity.py`, the commands of `app.py` | files with crashes |
| `PairingStateProofs` | the inductive invariant of `PairingState` and 8 theorems | |
| `Handshake` | `companion/protocol/appletv.py` (the connection), `auth.py`, `guardrails.py` (admission) | connections from acceptance to teardown |
| `HandshakeProofs` | the inductive invariant of `Handshake` and 4 theorems | |
| `Guardrails` | `guardrails.py`, the two limiters of pair-setup | starts, failures, tables of sources, answered delays |
| `GuardrailsProofs` | the inductive invariant of `Guardrails` and 4 theorems | |
| `SamsungClientProofs` | the inductive invariant of `SamsungClient` and 6 theorems | |
| `DurableRecord` | what `atomic_io.py` promises of a file | abstract specification: visible contents, and what a power loss may leave |
| `StateFile` | `companion/protocol/atomic_io.py`, `pairing_state.py` | walk, lock, write, unlink and commit by system calls; implements `DurableRecord` |
| `StateFileProofs` | the inductive invariant of `StateFile`, the refinement and 2 more theorems | |
| `PairedCache` | `companion/protocol/paired_clients.py` | one check of a key against changes between any two of its reads |
| `Lifecycle` | `app.py` (`run`), `companion/server.py` (`serve`), `companion/discovery.py` | start, announcement, clean-up and end of the service |
| `ServiceProofs` | the inductive invariants of `PairedCache` and `Lifecycle` and 8 theorems | |
| `TextInput` | `companion/server.py` (RTI), `appletv.py` (session state) | the text sessions of several phones and the TV's fields |
| `SessionProofs` | the inductive invariants of `TextInput` and `HoldSession` and 8 theorems | |
| `MCDispatchLane`, `MCPairingState`, `MCGuardrails` | | symmetry for the TLC instances |

`PROJECT.json` maps every definition to the lines it stands for. In each module
a definition marked *faulty* is a plausible bug, used in place of the real
definition to show that a property notices it; no specification uses one.

### DispatchLane

One step is one stretch of code between two awaits. The worker is the exception:
it may pop and refuse several commands without suspending, so its stretch is
cut per command (`worker = "running"`), and only another process's edit of the
paired-client store (`AuthorityChanges`) may fall in between; all other actions
require `EventLoopFree`.

* `queue` is the deque as a set of items that carry their position, so that
  `append`, `popleft` and the filters of a purge are set operations and the
  module needs no recursion. `at` names an item and its future, `command` the
  command it now carries: coalescing changes the second and keeps the first.
* `interrupt` is a `cancel()` of the worker task that is not answered yet. It is
  answered at the innermost await of the current dispatch (`DispatchCancelled`)
  or at the event (`WaitCancelled`); two cancels before that merge into one,
  as in asyncio. A worker never cancels itself (`_is_current_worker`), which is
  why `WorkerRefuses` and `DispatchRevoked` leave `interrupt` alone while
  `DropOwner` does not.
* `authorized` may change at any step. It is asked at submission, after
  `popleft`, and by the Samsung client immediately before each write.
* The test of `item.cancelled` directly after `popleft` cannot succeed: an item
  is only marked while it is current. It has no step.
* `on_unauthorized` closes the connection, which cancels the owner a second time.
  On the lane's state that changes nothing; `evicted` records that it ran.

### LaneContract and LaneImplements

`LaneContract` has no worker, event, future or cancellation: accepted commands
are a set, ordered by their numbers; only the oldest may be at the TV, ending a session or
a hold withdraws its commands at once wherever they are, and a newer text may take the
place of the newest command unless the TV has that one. The mapping takes the
command being dispatched as the oldest pending one until it is cancelled. So a
cancelled command is gone from the contract at once, and the time until the
worker is told is a stutter: that is what "a session's end is immediate" means.

### SamsungClient

The holder of the lifecycle lock is at one of eight steps; `connecting`,
`cleaning`, `priming`, `writing` and `dropping` are awaits, at each of which the
call may succeed, raise or be cancelled and the TV may send keyboard events;
`locked` and `send` are synchronous. `socket` records what became of every
connection, including those the code no longer references. `primed` is a
history of what the TV has seen: it starts a fresh text field with each
connection and each IME event, and the broadcast primes it. `raced` marks the one case in
which that history and the code's own flag may differ (section 7). Callers are the lane
worker (one call at a time) and the application, which connects at startup and
closes after the lane was drained, so `close` is not called while a lane call is
in progress.

The check of the cool-down on the retry path never refuses (`DropReconnects`): a
client that had a socket has no failed connect on record.

### HoldSession

A frame handler is synchronous, so it is one action. A repeat task is at its
sleep, at its completion, or cancelled and not yet told. The owner of a session
is the pair of its connection and its number, as fresh as the `object()` of the
code. Hold generations are numbered per connection and begin at 1 for each, as
in the code: two phones use equal generations (`OnlyOwnWorkWithdrawn` is about
that). The lane is `LaneContract` through `INSTANCE`: `Lane!Accept`, `Lane!Start`,
`Lane!Deliver` and `Lane!Finish` are used as they stand; the purges of a frame
are written out because one frame may purge a hold and a session and open a
new one in a single step. Texts play no part in a hold, so `Lane!Replace` is not used.

When a release emits STOP and when it emits a discrete swipe or tap depends on
distances and times that the module leaves open: `TouchRelease` allows
both wherever the code could do either.

### PairingState

A file has the contents a reader sees (`disk`) and the set of contents a power
loss may leave (`past`). `os.replace` and `os.unlink` change the first and add
to the second; an fsync of the directory commits every earlier change; both may
fail, and the operation then reports an error and releases the lock, leaving
what it did visible. Only holders of the lock change files, so the sequence of
changes an operation makes is decided when it takes the lock: each operation is
a plan, one definition each (`Unpair`, `Reset`, `Startup`, ...), and the steps
`MakesVisible`, `Syncs`, `Fails`, `ServiceStops` and `PowerLoss` execute plans
and interrupt them anywhere.

Init admits an unused directory and one in which an older version's unpair was
interrupted (the legacy marker, with clients still enrolled). The history
variables say what was promised to whom: `revoked` (a revocation was reported,
or an unpair or reset passed its first fsync), `enrolledAt` (M5 was
confirmed), `closed`, `retired`.

Taken as given: the paired-client cache is coherent (a check is one look at the
directory), the clock does not run backwards, marker files are not damaged, and the
service listens on a fixed port, so that a second instance can run the
recovery but fails when it binds.

### Handshake

A frame is handled without an await, so it is one action; so are the deadline and
`connection_lost`. Each TCP connection is a slot that is used again after its
`_teardown_connection`, which makes a leak of one connection visible to the
next. Between `transport.close()` and `connection_lost` a connection is
`closing`: it reads no more frames and still counts.

Every authentication message has its successful step (`VerifyM1` ... `SetupM5`)
and may fail at any time (`AuthFails`): bad cryptography, a message out of order,
a message one of the two pairing limiters refuses and an exception end in
the same place, `FAILED` and a closed connection. An M5 may fail after the client was
stored (`SetupM5FailsLate`). The setup session is represented by the window it began
under, the ephemeral keys of a verify by a Boolean.

Two branches of the code have no step. The test of an unfinished setup session in
`_m1_setup` (`auth.py:416`) cannot succeed, because neither phase from which an M1 is
accepted has one (`SecretsMatchPhase`); and the test of the cipher in
`_authentication_timed_out` always does, because `enable_encryption` cancels the
timer (`SlotsAgree`). The second is kept in the model as `DeadlineApplies`.

### Guardrails

An M1 passes the start limiter, which counts it, and then the failure limiter, which only
looks; a pending reset may refuse it in between. A failed pairing is recorded on
its own, because the code counts failures that no M1 preceded. The deques are
sets of marks; `Live` is what `_prune` leaves, and it runs first in every
operation, lazily, as in the code: between operations expired marks stay on record.

`startAgain` and `backoffAgain` remember what a refused source was told, until an event
that may change the answer: another start for the first, another failure for the
second. A delay is told in whole seconds and rounded up (`Told`), while the clock is
finer. `LeastRecent` takes any of the sources that were marked last at the same time. It
is never evaluated: the service makes the limiters for 20 marks and 256
sources, and `NeverForgotten` shows that a table at least as large as the global
limit does not evict.

### StateFile and DurableRecord

A process walks to the directory one component at a time (`_open_durable_directory`):
a missing one is made, and the parent is synced also when the component was found,
because its maker may have failed before its own fsync. The lock is taken at the
end of such a walk, and each operation under it walks again. `file` is what the name
stands for, `kept` what it may stand for after a power loss, `flushed` the writes whose
contents were synced; a directory entry that was not synced may be gone, a file that was
not flushed is torn. `Raises` is a system call or a check that raises, and the death of
the process. The refinement mapping turns this into `DurableRecord`, whose `visible` and
`kept` are the `disk` and `past` of one file of `PairingState`: that is why
`PairingState` may treat each change of a file as one step that becomes visible as a
whole and a second one that commits it.

### PairedCache

One check is a state machine of single reads: three `lstat`s, and in a reload three
stamps, three validated records, three stamps, at most twice. Commands change the
directory between any two reads, in the orders in which their own code allows it (the
store goes only under a marker, a marker only after the store). A stamp is the number of
the change that made the entry. `saw` collects what held at each instant of the check;
`AllowedWasAuthorized` is about its union, `AllowedAtOnce` about its members. A rewalk
that finds another directory, or that raises, makes the cache give up its directory for good
(`unsafe`); nothing in the code clears that, so `AuthorizedAllowed` excepts it. The first call of
a check fails more gently: descriptors that cannot be compared are walked again, and a directory that
cannot be opened is left to the next check (`FirstCallFails`).

### Lifecycle

`run` is a sequence of stages, and the exit stack a sequence of callbacks that is run
backwards from wherever the start has come to. The four things that go on beside it are
the poller, the executor's zeroconf call, the lane's worker and the host's address. A
call taken up by the executor ends whether or not its task was cancelled, one that was
only queued is dropped (`Abandons`). One Ctrl-C cancels `run` until its signal handlers
are installed; there is no step for a second one. `serve` cleans up after a
failing bind before it raises, which is one step.

### TextInput

A character stands for the field that was open when it arrived, which is all that is
needed to say whether a text is the new field's own. `SetFocus` is the setter of
`rti_focus_state`: it pushes a change to a registered session, and a push that raises
ends the registration. `seen` is the text the phone itself edits, as the pushes tell it:
an external view, and the reason why the service's text may not drift from it. `ended` is the
last field whose `imeEnd` the service heard, also a history: a socket that is down hears nothing.

## 3. The runs

| Run | Asks | Shows |
|---|---|---|
| `lane_safety` | `TypeOK`, `NoStrandedCompletion`, `InterruptHasCause`; `SentInOrder`, `OnlyLiveWorkSent`, `OrdinaryWorkKept`, `ImplementsContract` | All interleavings of two sessions, the worker, the TV, three waiters, shutdown and a changing store. Includes Samsung calls that raise CancelledError of themselves. The queue keeps its bound (`TypeOK`). The detailed lane refines the FIFO. |
| `lane_liveness` | `QueueDrains`, `CloseCompletes`, `WaitersReturn` | The worker survives every teardown, and whatever is queued, awaited or waited for comes to an end. |
| `samsung_client` | `OneSocket`, `DropReconnects`; `AuthorizedWrites`, `InsertPrimed`; `CallsEnd` | One socket, which is the one `_remote` names; at most two writes for a command, none of them unauthorized; each text field primed unless it changed during the broadcast itself, the lock always released. |
| `samsung_client_text` | `AlwaysPrimed`, expected to fail | The same without that exception; see section 7. |
| `hold_session` | `WorkHasSession`, `RepeatHasHold`, `HandlesAgree`; `OnlyOwnWorkWithdrawn`, `HoldsEnd` | A held swipe repeats only its key, one repeat at a time, leaves nothing behind and ends, under lost releases, restarts, revocation and a slow TV. |
| `pairing_state` | `RevokedStaysRevoked`, `EnrollmentKept`; `ClosedStaysClosed`, `ResetNotDowngraded`, `IdentityKept` | Crash safety of every command and of recovery. |
| `handshake` | `TypeOK`, `SecretsMatchPhase`, `SlotsAgree`; `SlotsFreed` | Admission counts what it should on every way a connection can end, an exchange leaves no secrets behind, and the deadline frees each unauthenticated place. |
| `guardrails` | `TypeOK`, `NobodyForgotten`, `RetryAdmitted` | The limits hold at the ends of the windows, no source is forgotten early, and a source that comes back when `admit` said, in whole seconds, is admitted; one that was told to back off then meets one limit of failures at most. |
| `state_file` | `ImplementsRecord` | Two processes create the directory and write, unlink and commit the file; errors, deaths and power losses between any two system calls. The file is an all-or-nothing record. |
| `paired_cache` | `AllowedWasAuthorized`, `AllowedAtOnce`; `AuthorizedAllowed` | Every read of a check against every change: no allowance from before the check, one consistent instant unless a read raised, no refusal for good without a failed rewalk, whichever call fails. |
| `lifecycle` | `NothingLeft`; `AnnouncementCatchesUp` | Whatever fails or is cancelled, nothing of the service is left at its end; the announcement follows the address. |
| `text_input` | `FreshField`, `KeyboardAgrees` | Nothing older than the last `imeEnd` heard in a focused text, and phone and service edit the same text, over lost events, failing pushes and sessions in any order. |

CHECK_DEADLOCK is FALSE except in the runs of the Samsung client, of the state file and of the
text input: a closed lane, a lost connection with no session, a state directory whose
windows are used up and a service that has ended have nothing more to do, and the bounds
end the other behaviours. In the client's runs time and authority go on changing, a
process may always walk to a state file, and a phone may always connect or go.

## 4. The bounds

* **Lane.** Two owners are one to be torn down and one to be disturbed; a third
  would only add queue positions. The queue holds 2 and 3 commands are accepted
  (2 in the liveness run), so the queue is full, refuses, coalesces while full, and
  drains. One generation suffices: a hold's tag is compared with equality, and
  an untagged command is the second value.
* **Samsung client.** Three sockets: the first, its replacement after a drop, and one
  after that, opened by the next command. Two ticks of the cool-down make "just
  failed", "still cooling" and "cooled down" distinct.
* **Hold.** One phone with two directions, two sessions and two holds has
  every turn, restart and overlap of an old with a new task. That two phones with equal
  generations do not meet is the lane's doing, and `lane_safety` has two sessions with
  one generation. `HoldSession` allows any number of phones: two of them with one
  direction, session and hold each (symmetric, 3 commands, no liveness) have 700 958 states and
  the same properties, but do not fit beside the rest in one run.
  `MaxRepeats` is the cap `max_hold` counted in repeats. It is two: the second may not be
  submitted while the first is in the lane, which one repeat for each hold would not show.
  192 616 states.
* **Pairing state.** Two clients and room for one: enrolled, removed, replaced and
  refused. Two windows: one and its replacement. Three identities: one, the one a
  reset makes, and one a second reset makes after a crash in the first.
* **Handshake.** Three connections for two places, of which one may be
  unauthenticated: each limit is met, and each is met without the other. One client
  is enrolled, removed and enrolled again. Two windows: the one a setup began
  under and the one that replaced it. Two malformed frames close a connection
  (`MalformedLimit`, three in the code): one is tolerated, one closes, and a touch message
  that is counted twice goes from either number past or to the limit.
* **Guardrails.** Three sources, two marks each and three in all: either limit can be
  reached without the other, and both together. The table holds three sources, the
  smallest that `GuardrailsAssumption` allows. The clock has two units to the
  second, so that half of the delays have to be rounded up; the window is three units and the clock
  runs for four: a second generation of marks lives when the first has gone, and a delay
  told at the beginning ends within the run. 1.2 million states.
* **State file.** Two processes, because what one creates the other finds; two missing
  components, so that a made parent of a made child occurs; two writes, so that an
  earlier contents may come back. 107 430 states.
* **Paired cache.** Five changes are a whole unpair (marker, store, marker) between two
  others. One failing call; a second would add nothing to a cache that has forgotten
  everything. About 3.4 million states.
* **Lifecycle.** Two addresses and three moves: away, back and gone. Two
  failing calls: one of the announcement and one of its clean-up. 16 016 states.
* **Text input.** Two phones, of which one may be focused while the other is not; three
  fields: one whose `imeEnd` is lost, one whose `imeEnd` is heard, and a new one;
  texts of two characters and replacements of three, so that
  a text is cut. 259 844 states.

## 5. Fairness

* **Lane** (`FairSpec`): WF on the worker and on the end of `close()`, because
  asyncio runs every runnable task; SF on a woken waiter, because the ready queue is
  first come, first served while other tasks may enable and disable the
  waiter's turn. WF on the worker also says that a call to the TV
  returns, raises or answers its cancellation; that is what `SamsungClient`'s
  `CallsEnd` shows of the client, from the library's timeouts.
* **Samsung client**: WF on the holder's next step, SF on acquiring the lock
  (asyncio.Lock is FIFO).
* **Hold**: WF on each repeat task and on the lane's worker; the second is what
  `QueueDrains` and `NoStrandedCompletion` show of the lane. No fairness is assumed of the
  phone: `HoldsEnd` holds although the release never comes.
* **Handshake**: WF on a timer that is due and on `connection_lost` after this side
  closed the transport, both of which the event loop sees to. None for the peer, who may
  stop in the middle of an exchange: that is what `SlotsFreed` is about.
* **Paired cache**: WF on the steps of the check. A phone that stays connected
  goes on sending frames, and a check is synchronous code. No command has to go on.
* **Lifecycle**: WF on `run`'s own steps, on the poller and on the executor's calls:
  the event loop and the executor run what is due. Nobody has to stop the service.
* **Guardrails**, **pairing state**, **state file**, **text input**: no liveness is claimed.

## 6. The proofs

`DispatchLaneProofs` proves, for every set of owners and generations, every
queue size and every number of commands:

* type correctness, every invariant that `lane_safety` checks, the three
  action properties `SentInOrder`, `OnlyLiveWorkSent` and `OrdinaryWorkKept`, and that the
  lane implements `LaneContract` (`LaneKeepsItsContract`);
* six more invariants, which the runs need not repeat because the others, the
  contract or the liveness properties would notice their loss:
  `QueueOwnersLive`, `StaleCommandInterrupted`, `WorkerSurvives`, `NoLostWakeup`,
  `ParkedWaiterBusy`, `QueueInOrder`.

The assumptions are `LaneAssumption` and `NoItemAssumption` (`NoItem` is no item);
TLC evaluates both. None of the properties is inductive as it stands, so they are proved
from `LaneInv`, whose parts are

* `Types`, what `TypeOK` says of the variables one by one;
* `Shape`: how the worker's place, the current command, its flag, a pending
  cancel, the wake event and the phase of shutdown fit together. This is the
  heart: a pending cancel has a live worker to go to, a current command exists
  exactly while the worker dispatches, a marked or ownerless current command is
  being cancelled, a worker parked on a non-empty queue has its event set;
* `Numbered`: positions and numbers in use are at most `accepted`, positions are unique;
* `QueueInOrder`, `NoStrandedCompletion`, `WorkerSurvives`, `ParkedWaiterBusy`,
  and the other part of `TypeOK`, the bound on the queue (`QueueBounded`).

Each part is preserved in a lemma of its own, with one step per action; only the
parts it depends on are assumed in it. The bound rests on three lemmas
about cardinality (a set shrinks, grows by one, has one element replaced). The
action properties follow from `LaneInv` and the action.

The refinement is one lemma for each step of the contract. Ending a session has four
(`DropOwner`, a refusal of the worker, a revocation during the dispatch, and what they have
in common): whoever drops an owner removes its queued commands and ends or marks its current one
in the same step. The contract's bound counts the command at the TV beside the queue, and its order is
`Numbered`. `StepMaps` puts the lemmas together.

`HandshakeProofs` proves the three invariants of the `handshake` run for any number
of connections, clients and windows and any limits, from `HandshakeAssumption`
(the connections are finite in number, the limits positive). `SecretsMatchPhase` and
`SlotsAgree` need each other: that a fresh connection starts bare needs that a
free slot is `CLOSED`, and that encryption leaves the budget needs that the cipher
goes with the phase. `HandshakeInv` adds to them `FreeSlotsBare`, what a free slot has
not got, and `MalformedBelow`, that a connection still read is below its
limit of malformed frames, so that it is never counted further than one past it.
The bounds on the budgets are a lemma of their own
(`BudgetsStep`), by the cardinality of a set that grows by one element or shrinks.

`GuardrailsProofs` proves the three invariants of the `guardrails` run from
`GuardrailsAssumption`, whose only real condition is that the table is not smaller than
the global limit. `NobodyForgotten` makes the two views of a mark one set, and with the
cardinality of an image (`FewSources`: no more sources than marks) it shows that the table
never is at its capacity when a source is added (`NoEviction`). `RetryAdmitted` is not
inductive; `Promised` is, which says of a refused source that the marks still live
at the time it was told are below both limits. It is established because the oldest mark
is gone by then (`OldestIsFirst`, by the well-foundedness of the natural numbers, and
`StrictlySmaller`), and kept because until then marks only disappear. `BackoffPromised` is the
same of one of the two limits of failures. That the delays are told in whole seconds is
`ToldSuffices`: rounded up, they are never shorter, whatever the resolution of the clock.

`SamsungClientProofs` proves `OneSocket`, `DropReconnects` and `AuthorizedWrites` for any
cool-down and any number of sockets. The parts of its `IInv` say what the holder of the
lock knows at each of its steps: which socket exists in which state (`SocketInv`), that a
failed connect is on record only while there is no socket (`FailureInv`), and how
many writes each attempt has had (`WriteInv`). `InsertPrimed` follows from what the flag
means: while it is set, the open field has had its broadcast, or it came while the broadcast that
set the flag was awaited (`TextInv`).

`StateFileProofs` proves that `StateFile` implements `DurableRecord`, for any set of
processes, any depth of missing directories and any number of writes. The argument is in
`WalkInv`: a creating walk leaves every component it has passed durable, whoever made
it, and the lock is only reached by such a walk, so under the lock the path is durable
(`Reached`) and what the refinement adds for a lost directory disappears. `FileInv` says that
the name only ever stands for flushed files. `StepRefines` then maps each step to one of the record
or to a stutter. `LockNeedsDurablePath` states the fact in the middle of the argument by
itself: nobody holds the lock of a file whose directory a power loss could still take away.

`ServiceProofs` proves `AllowedWasAuthorized` for any number of changes and errors.
Its invariant `IInv` ties each remembered stamp to an instant of the check at which the entry had it
(`SeenInv`) and the mapping to the stamp it was read under (`MappingInv`); stamps are
never reused (`StampInv`). `AllowedAtOnce` needs a second invariant, `OnceInv`, which names the one
instant. After a reload it is the read of the reset marker: the first three reads are over, none of
the last six disagrees with them, and while a retained directory is in place a legacy marker never
comes back (`AttemptInv`, `MarkerInv`). On the cached path it is the beginning of the check: a
chain that is current then stands for a cache that agrees with the disk (`ChainInv`), and that is
what a failing read breaks, since it leaves a current chain over an old cache.

It also proves `NothingLeft` for any number of address changes and of failing calls, in `LifeInv`.
The exit stack is one of five sequences, told by the stage (`StackShape`). Each resource
has a part that says who still closes it: `close_server` from the failed start or
from the stack (`ServerClosed`), the first callback (`ClientClosed`), the advertiser's
(`AdvertiserClosed`) and zeroconf's (`ZconfClosed`). A zeroconf call that outlived its task is
harmless because a closed zeroconf announces nothing. `CutShortLate` says that only
a start that failed can have its clean-up cut short, and it had announced nothing. From the same
invariant follows `DrainedUnlessCutShort`, which is the exact extent to which `serve`'s promise holds
(section 7).

Two of its theorems are the safe half of what TLC checks as liveness. A directory is given up
until the restart only after a rewalk that raised or that found another directory
(`GivesUpWithCause`), so checks that race other changes never make `AuthorizedAllowed` false for
good. And what `refresh` takes for announced is what zeroconf announces, but for a call that has
taken effect and not returned (`AnnouncementKnown`), so the comparison with which every poll begins
is never made with a wrong address.

`PairingStateProofs` proves the five properties of the pairing state, for any clients and
any number of windows and identities, from `PairingAssumption`. A power loss picks the
contents of each file by itself, so the invariant speaks of every choice from `past`: the
directory is fenced (`Fenced`) only when no choice leaves both markers out, and a
directory that is not fenced holds neither a revoked client (`RevokedInv`) nor a closed window
(`WindowInv`) in any choice. That the markers go last is `PlanInv`: what a plan lifts, it
lifts after a change that has cleared the clients and the window, and the fsync between two
changes turns "planned earlier" into "the only choice left" (`Settled`). The rest says
what each operation's plan may contain: a start ends with both markers gone
(`StartupInv`), a retired identity is named only under the marker of its reset
(`RetiredInv`), only a reset replaces an identity (`AskedInv`), and no plan touches
what an enrollment rests on (`KeptInv`). Each operation that takes the lock, the change
and the fsync have a lemma each, with one step per part.

`ClientsFitSlots` says that no file ever holds more clients than `MaxClients`, for finitely
many phones: an M5 checks for a slot and writes under one lock, and what a power loss may
bring back was written under it too (`SlotInv`, over every choice of `past` and every change
of the plan). Finiteness is a hypothesis of that theorem and of `PairingTypeCorrect` alone,
since the number of clients means nothing without it.

`SessionProofs` proves both properties of the keyboard for any phones, fields and texts.
`KeyboardAgrees` is inductive, since equal texts are edited equally; `FreshField` needs that
while a session is focused a field has opened since the last `imeEnd` heard (`FocusInv`).
`TextsAreBounded` adds that no text outgrows `MaxText`: every message ends by
cutting off (`ClampedIsShort`), and a push shows the phone a text that was cut off before.

It also proves the four safety properties of `HoldSession`, for any phones, directions, sessions,
holds and commands. The three invariants need each other and five more parts (`HoldInv`): a hold has
no second repeat in the lane because its task awaits the answer to the first (`RepeatAwaited`); a purge
takes what it should and no more because commands have numbers of their own (`LaneNumbered`) and a session
belongs to one connection (`SessionShape`); a new hold finds no task of an old one
(`HoldsFresh`); and the relay that believes in a hold remembers that it was one (`RelayShape`).
`OnlyOwnWorkWithdrawn` then follows from the
invariant and the step.

So every safety property that a passing run checks is a theorem, and so are the types of every
component. What is only model-checked
is liveness under fairness (`QueueDrains`, `CloseCompletes`, `WaitersReturn`, `CallsEnd`,
`HoldsEnd`, `SlotsFreed`, `AuthorizedAllowed`, `AnnouncementCatchesUp`): `ENABLED` is out of the prover's
reach. No module that is proved about declares a `RECURSIVE` operator.

## 7. What the checks found

Five places where the code does not do what a comment, a docstring or a document of the
repository says of it. The first has a run that is expected to fail. For each of the others the
module states the property, next to the weaker one that holds; TLC finds the
counterexample in seconds when the property takes the place of those in the cfg.

**The text state.** `samsung_client_text` finds that the flag which says "this
text field has had its broadcast" is set after the await of the broadcast
(`samsung/client.py:529`). A keyboard event the TV sends during that await
resets the flag, and the assignment overwrites the reset: the insert goes to the
new field without a broadcast, which the comment at lines 468-469 says must
precede it (`AlwaysPrimed`). `samsung_client` checks, and `SamsungInsertPrimed` proves,
that this is all: with such events happening at any time, an insert goes unprimed only into a
field that opened or closed during the very broadcast that set the flag (`InsertPrimed`), whatever
drops, retries and cancellations come in between.

**The back-off delay** (`BackoffSuffices`, `Guardrails.cfg`). The delay of a BackOff need not be
the remaining one. `check` takes the oldest failure of each limit that is reached and
computes the delay from the smaller of the two times (`guardrails.py:205`), so from the
limit that ends first. With the defaults: 15 failures of other sources at second 0
and 5 of one source at second 30. That source is told to come back in 30 seconds,
and when it does is told 30 again. `docs/lld.md:221` promises "the remaining retry
delay". What holds, and is part of `RetryAdmitted`, is that the source meets one limit at most when
it comes back. Of `admit` the full property holds and is proved: a full source is answered
from its own oldest start, which the oldest of all does not outlive.

**The adopted chain** (`AlwaysAtOnce`, `PairedCache.cfg` with four changes). A rewalk makes the new chain of
directories current before the records have been read under it
(`companion/protocol/paired_clients.py:323`). If that reload raises, the old records stay
cached under a chain that looks unchanged, and the next check compares their stamps with
three `lstat`s that an unpair can pass between. The answer is one that no single instant justified;
the comment at line 327 rules that out. It takes an I/O error and an unpair within one check,
and what is allowed was true of each file during the check (`AllowedWasAuthorized`).

**The skipped drain** (`DrainedBeforeClient`, `Lifecycle.cfg`). After a failed announcement `run`
awaits `close_server()` outside its exit stack and before its signal handlers
(`app.py:222`). A Ctrl-C there cancels the drain, and the stack closes the Samsung client under a live
worker, which `serve`'s docstring (`companion/server.py:840`) excludes.
`NothingLeft` therefore excepts a clean-up that was itself cancelled (`cutShort`), and
`DrainedUnlessCutShort` is a theorem: there is no other way to the state.

**The kept text** (`ResetOnEachStart`, `TextInput.cfg`). `imeStart` empties a session's text only if
the session was not focused (`companion/server.py:749`). If the TV's socket dropped before the `imeEnd`,
it still is, and the first key writes the old text into the new field; the comment at
line 550 says the text is reset at each `imeStart`. `FreshField` says how far this goes: the
text of a focused session holds nothing older than the last `imeEnd` that was heard, so that a field
inherits only from those whose own end was lost.

## 8. What is not modelled

* **Gestures and key map.** A pure function of touch points, one finger at a time; its
  cases are thresholds and distances over real coordinates, which small integers do not
  represent better than the repository's own table tests. `HoldSession` leaves open
  what it decides.
* **Frame parser and transport cipher.** The parser is one loop over a buffer without
  concurrency, and the nonce counters are one assignment each; what could be wrong is in the bytes.
* **Companion request handlers.** Replies with fixed payloads; they keep no state that another
  part reads.
* **Deployment manager.** Shell scripts outside the Python package. Their transactions
  deserve a specification of their own, with the file system and systemd as the environment.
* **Codecs, TLS pinning, configuration, log filters, container files, release scripts.**
  Stateless, or about bytes; the repository's round-trip tests are the better tool.
* Within the handshake: the cryptography, the bytes of a message, and the modes without a
  paired-client store or without a window, which only protocol tests use.
* Within the Samsung client: Wake-on-LAN (a datagram, no state) and the
  samsungtvws library, which is assumed to return, raise or be cancelled. A
  second cancellation during the clean-up of a failed connect (`samsung/client.py:366`) is a
  step (`CancelHolder`): it skips the cool-down, which no document promises in that case.
* Within the session: the swipe translator, the de-duplication of SELECT and media-control replies.
* Within the lane: cancelling a task that waits in `join()` or
  `cancel_and_wait()` (it would cancel the future all waiters share,
  `companion/dispatch.py:447`); only tests call them. A worker that died of a CancelledError raised by the
  library (`companion/dispatch.py:393`) stays dead until the next `activate()`; `lane_safety`
  covers its safety, nothing promises more.
* Within the state files: ownership, mode and ACL checks (they answer yes or raise), and the
  temporary file, whose name is random and never read. An fsync is taken to do what POSIX says;
  nobody but the program removes directories.
* Within the paired-client cache: the parsing of the store. Every change is taken to give
  a new stamp (inode, size and two times).
* Within the lifecycle: `advertise_companion`, which only tests call. A zeroconf call that
  raises is taken to have had no effect.
* Within the text input: the archive format, and deduplication against the lane's own queue
  (`DispatchLane` has the coalescing).
* `PairingState` takes the cache as coherent; `PairedCache` is not composed with it, because one
  has the plans of the commands and the other the single reads of a check. They meet in
  the order in which the commands change files, which `PairedCache` states as guards.

## 9. Running

    tlc -workers 2 -config LaneSafety.cfg MCDispatchLane.tla
    tlc -workers 2 -config LaneLiveness.cfg MCDispatchLane.tla
    tlc -workers 2 -config SamsungClient.cfg SamsungClient.tla
    tlc -workers 2 -config SamsungClientText.cfg SamsungClient.tla
    tlc -workers 2 -config HoldSession.cfg HoldSession.tla
    tlc -workers 2 -config PairingState.cfg MCPairingState.tla
    tlc -workers 2 -config Handshake.cfg Handshake.tla
    tlc -workers 2 -config Guardrails.cfg MCGuardrails.tla
    tlc -workers 2 -config StateFile.cfg StateFile.tla
    tlc -workers 2 -config PairedCache.cfg PairedCache.tla
    tlc -workers 2 -config Lifecycle.cfg Lifecycle.tla
    tlc -workers 2 -config TextInput.cfg TextInput.tla
    tlapm DispatchLaneProofs.tla
    tlapm GuardrailsProofs.tla
    tlapm HandshakeProofs.tla
    tlapm SamsungClientProofs.tla
    tlapm StateFileProofs.tla
    tlapm ServiceProofs.tla
    tlapm PairingStateProofs.tla
    tlapm SessionProofs.tla

No run takes more than about a minute.
