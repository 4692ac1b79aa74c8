---------------------------- MODULE PairedCache ----------------------------
(***************************************************************************)
(* The service's view of the paired clients (paired_clients.py): a check   *)
(* of one phone's key, for every frame and every pair-verify, trusts the   *)
(* mapping that it read last as long as three stamps and the chain of      *)
(* directory descriptors are unchanged, while commands replace the store   *)
(* and the two markers under a lock that the check does not take.          *)
(*                                                                         *)
(* A file's stamp (inode, size, times) is the number of the change that    *)
(* made it, the directory's the number of the last change in it: every     *)
(* change is assumed to give a new stamp.  Only whether the phone's key is *)
(* in the store is kept of its contents.                                   *)
(***************************************************************************)
EXTENDS Naturals

CONSTANTS
    MaxChanges,  \* bound: changes of the directory
    MaxErrors    \* bound: system calls of checks that raise

ASSUME CacheAssumption == MaxChanges \in Nat \ {0} /\ MaxErrors \in Nat

Stamps == 0..MaxChanges   \* 0: no such file

VARIABLES
    store, legacy, reset,  \* the stamps of paired-clients.json and of the two markers
    holding,               \* the stamps of the stores that hold the phone's key
    changes,               \* the directory's own stamp
    place,                 \* what the configured path leads to: nothing, the directory, another one
    clients,               \* the stamp of the store that _clients was read from
    cache,                 \* the three stamps that stand for it
    chain,                 \* the directory stamp that _directory_chain retains
    unsafe,                \* _unsafe_directory
    pc, try, k,            \* where the check is, its attempt and its next read
    before,                \* the first three stamps of the attempt
    read,                  \* the stamp of the store it read
    same,                  \* the reads after them agreed with them
    verdict,               \* the check's answer
    saw,                   \* history: what held at the instants of the check
    errors, walkFailed     \* system calls that raised; history: one of a rewalk did

diskVars == <<store, legacy, reset, holding, changes, place>>
cacheVars == <<clients, cache, chain, unsafe>>
checkVars == <<pc, try, k, before, read, same, verdict>>
vars == <<diskVars, cacheVars, checkVars, saw, errors, walkFailed>>

None == [store |-> 0, legacy |-> 0, reset |-> 0]
NoChain == MaxChanges + 1

\* The order of _cheap_stamps; the reads of an attempt are three rounds in it.
Entry(n) ==
    CASE n \in {0, 3, 6} -> "store" [] n \in {1, 4, 7} -> "legacy" [] OTHER -> "reset"
Disk == [store |-> store, legacy |-> legacy, reset |-> reset]

Facts == (IF store \in holding THEN {"enrolled"} ELSE {})
    \cup (IF legacy = 0 THEN {"noLegacy"} ELSE {})
    \cup (IF reset = 0 THEN {"noReset"} ELSE {})
    \cup (IF place = "ours" THEN {"ours"} ELSE {})
Authorized == {"enrolled", "noLegacy", "noReset", "ours"}

TypeOK ==
    /\ Disk \in [{"store", "legacy", "reset"} -> Stamps]
    /\ holding \subseteq Stamps \ {0} /\ changes \in Stamps
    /\ place \in {"missing", "ours", "other"}
    /\ clients \in Stamps /\ read \in Stamps
    /\ cache \in [{"store", "legacy", "reset"} -> Stamps]
    /\ chain \in Stamps \cup {NoChain} /\ unsafe \in BOOLEAN
    /\ pc \in {"idle", "stamps", "rewalk", "reload", "decide"}
    /\ try \in 1..2 /\ k \in 0..8
    /\ before \in [{"store", "legacy", "reset"} -> Stamps] /\ same \in BOOLEAN
    /\ verdict \in {"none", "allow", "deny"}
    /\ saw \subseteq SUBSET Authorized
    /\ errors \in 0..MaxErrors /\ walkFailed \in BOOLEAN

\* The directory may be missing, and may hold the marker of an older version's unpair.
Init ==
    /\ \/ place = "missing" /\ store = 0 /\ legacy = 0 /\ holding = {} /\ changes = 0
       \/ place = "ours" /\ store = 1 /\ legacy \in {0, 1} /\ holding \in {{}, {1}} /\ changes = 1
    /\ reset = 0
    /\ clients = 0 /\ cache = None /\ chain = NoChain /\ unsafe = FALSE
    /\ pc = "idle" /\ try = 1 /\ k = 0 /\ before = None /\ read = 0 /\ same = TRUE
    /\ verdict = "none" /\ saw = {}
    /\ errors = 0 /\ walkFailed = FALSE

-----------------------------------------------------------------------------
(* The commands, one at a time; each stops or dies between any two changes. *)

\* A change of an entry; the check under way sees what then holds.
Changed ==
    /\ changes < MaxChanges
    /\ changes' = changes + 1
    /\ saw' = IF pc = "idle" THEN saw ELSE saw \cup {Facts'}
    /\ UNCHANGED <<cacheVars, checkVars, errors, walkFailed>>

\* Another entry, a temporary file among them; the first one makes the directory.
Touches ==
    /\ place' = IF place = "missing" THEN "ours" ELSE place
    /\ UNCHANGED <<store, legacy, reset, holding>>
    /\ Changed

\* _add_locked
Enrolls ==
    /\ place = "ours" /\ legacy = 0 /\ reset = 0
    /\ store' = changes + 1 /\ holding' = holding \cup {changes + 1}
    /\ UNCHANGED <<legacy, reset, place>>
    /\ Changed

\* _add_locked of another phone, _remove_locked of this one
Replaces ==
    /\ place = "ours"
    /\ store' = changes + 1
    /\ holding' \in {holding, IF store \in holding THEN holding \cup {changes + 1} ELSE holding}
    /\ UNCHANGED <<legacy, reset, place>>
    /\ Changed

\* begin_clear_all_locked, begin_identity_reset_locked: also over a marker of the other kind
RaisesMarker ==
    /\ place = "ours"
    /\ reset' = changes + 1
    /\ UNCHANGED <<store, legacy, holding, place>>
    /\ Changed

RemovesStore ==
    /\ place = "ours" /\ store # 0 /\ (reset # 0 \/ legacy # 0)
    /\ store' = 0
    /\ UNCHANGED <<legacy, reset, holding, place>>
    /\ Changed

\* Only when the clients are gone: an unpair drops the common marker first, a reset the legacy one.
DropsMarker ==
    /\ place = "ours" /\ store = 0
    /\ \/ reset # 0 /\ reset' = 0 /\ UNCHANGED legacy
       \/ legacy # 0 /\ legacy' = 0 /\ UNCHANGED reset
    /\ UNCHANGED <<store, holding, place>>
    /\ Changed

\* Someone puts another directory where the retained one was.
Substitutes ==
    /\ place = "ours" /\ chain # NoChain
    /\ place' = "other" /\ UNCHANGED <<store, legacy, reset, holding, changes>>
    /\ saw' = IF pc = "idle" THEN saw ELSE saw \cup {Facts'}
    /\ UNCHANGED <<cacheVars, checkVars, errors, walkFailed>>

-----------------------------------------------------------------------------
(* The check: authorizes, ltpk and reset_in_progress.                       *)

Goes(step) ==
    /\ verdict' = "none"
    /\ pc' = step /\ k' = 0 /\ try' = 1 /\ before' = None /\ read' = 0 /\ same' = TRUE

Answers(v) ==
    /\ verdict' = v
    /\ pc' = "idle" /\ k' = 0 /\ try' = 1 /\ before' = None /\ read' = 0 /\ same' = TRUE

Forgets == clients' = 0 /\ cache' = None

\* faulty: an entry that changed goes unnoticed
PathIsCurrent == place = "ours"

\* retained_directory_chain_is_current
ChainIsCurrent == place = "ours" /\ chain = changes

\* _refresh_if_changed; the first check opens the directory, when there is one.
Checks ==
    /\ pc = "idle"
    /\ saw' = {Facts}
    /\ \/ unsafe /\ Answers("deny") /\ UNCHANGED <<clients, cache, chain>>
       \/ /\ ~unsafe /\ chain = NoChain /\ place = "missing"
          /\ Forgets /\ Answers("deny") /\ UNCHANGED chain
       \/ /\ ~unsafe /\ chain = NoChain /\ place = "ours"
          /\ chain' = changes /\ Goes("reload") /\ UNCHANGED <<clients, cache>>
       \/ /\ ~unsafe /\ chain # NoChain
          /\ Goes(IF ChainIsCurrent THEN "stamps" ELSE "rewalk")
          /\ UNCHANGED <<clients, cache, chain>>
    /\ UNCHANGED <<diskVars, unsafe, errors, walkFailed>>

\* One lstat of _cheap_stamps.
StatsEntry ==
    /\ pc = "stamps"
    /\ LET now == [before EXCEPT ![Entry(k)] = Disk[Entry(k)]]
       IN IF k < 2
          THEN k' = k + 1 /\ before' = now /\ UNCHANGED <<pc, try, read, same, verdict>>
          ELSE Goes(IF now = cache THEN "decide" ELSE "rewalk")
    /\ UNCHANGED <<diskVars, cacheVars, saw, errors, walkFailed>>

\* faulty: the new chain is compared with the old one by its stamps, not by its directories
RewalksStrictly ==
    /\ pc = "rewalk"
    /\ IF ChainIsCurrent
       THEN chain' = changes /\ Goes("reload") /\ UNCHANGED <<clients, cache, unsafe>>
       ELSE unsafe' = TRUE /\ Forgets /\ chain' = NoChain /\ Answers("deny")
    /\ UNCHANGED <<diskVars, saw, errors, walkFailed>>

\* _revalidate_retained_directory_chain: the new chain is adopted before anything is read.
Rewalks ==
    /\ pc = "rewalk"
    /\ IF place = "ours"
       THEN chain' = changes /\ Goes("reload") /\ UNCHANGED <<clients, cache, unsafe>>
       ELSE unsafe' = TRUE /\ Forgets /\ chain' = NoChain /\ Answers("deny")
    /\ UNCHANGED <<diskVars, saw, errors, walkFailed>>

\* faulty: the records that were read are not compared with the stamps around them
AgreesUnread(n) == n \in 3..5 \/ Disk[Entry(n)] = before[Entry(n)]

Agrees(n) == Disk[Entry(n)] = before[Entry(n)]

\* One read of _reload_from_directory: three stamps, three validated records, three stamps.
ReadsEntry ==
    /\ pc = "reload" /\ k < 8
    /\ k' = k + 1
    /\ read' = IF k = 3 THEN store ELSE read
    /\ IF k < 3
       THEN before' = [before EXCEPT ![Entry(k)] = Disk[Entry(k)]] /\ same' = same
       ELSE same' = (same /\ Agrees(k)) /\ UNCHANGED before
    /\ UNCHANGED <<diskVars, cacheVars, pc, try, verdict, saw, errors, walkFailed>>

\* The last read: the records are adopted, or read once more, or the check denies.
EndsAttempt ==
    /\ pc = "reload" /\ k = 8
    /\ \/ same /\ Agrees(k) /\ clients' = read /\ cache' = before /\ Goes("decide")
       \/ /\ ~(same /\ Agrees(k)) /\ try = 1
          /\ try' = 2 /\ k' = 0 /\ before' = None /\ read' = 0 /\ same' = TRUE
          /\ UNCHANGED <<clients, cache, pc, verdict>>
       \/ ~(same /\ Agrees(k)) /\ try = 2 /\ Answers("deny") /\ UNCHANGED <<clients, cache>>
    /\ UNCHANGED <<diskVars, chain, unsafe, saw, errors, walkFailed>>

\* A system call raises: a check denies, a rewalk also gives up the directory for good.
CallFails ==
    /\ pc \in {"stamps", "rewalk", "reload"}
    /\ errors < MaxErrors /\ errors' = errors + 1
    /\ IF pc = "rewalk"
       THEN unsafe' = TRUE /\ Forgets /\ chain' = NoChain /\ walkFailed' = TRUE
       ELSE UNCHANGED <<cacheVars, walkFailed>>
    /\ Answers("deny")
    /\ UNCHANGED <<diskVars, saw>>

\* The first call of a check raises: descriptors that cannot be compared are walked again, and a
\* directory that cannot be opened is left to the next check.
FirstCallFails ==
    /\ pc = "idle" /\ ~unsafe
    /\ errors < MaxErrors /\ errors' = errors + 1
    /\ saw' = {Facts}
    /\ IF chain = NoChain THEN Answers("deny") ELSE Goes("rewalk")
    /\ UNCHANGED <<diskVars, cacheVars, walkFailed>>

\* _authority_reset_in_progress, then the mapping
Decides ==
    /\ pc = "decide"
    /\ Answers(IF cache.legacy = 0 /\ cache.reset = 0 /\ clients \in holding
               THEN "allow" ELSE "deny")
    /\ UNCHANGED <<diskVars, cacheVars, saw, errors, walkFailed>>

Commands ==
    \/ Touches \/ Enrolls \/ Replaces \/ RaisesMarker \/ RemovesStore \/ DropsMarker
    \/ Substitutes
CheckSteps == Checks \/ StatsEntry \/ Rewalks \/ ReadsEntry \/ EndsAttempt \/ Decides

Next == Commands \/ CheckSteps \/ FirstCallFails \/ CallFails

\* The phone sends frames for ever; no command needs to go on.
Fairness == WF_vars(CheckSteps)

Spec == Init /\ [][Next]_vars /\ Fairness

-----------------------------------------------------------------------------
(* Properties.                                                              *)

\* A check that allows has met, each at some instant of its own, a store with the phone's key, no
\* marker of either kind and the configured directory: nothing older speaks for the phone
\* (authorizes, _refresh_if_changed, _reload_from_directory).
AllowedWasAuthorized ==
    verdict = "allow" => \A f \in Authorized : \E facts \in saw : f \in facts

\* While no system call fails, they held at one instant: a check that races a revoke or an unpair
\* answers as if it had come before or after it.
AllowedAtOnce == verdict = "allow" /\ errors = 0 => Authorized \in saw

\* The same whatever fails, as the comment on _reload_from_directory has it.
AlwaysAtOnce == verdict = "allow" => Authorized \in saw

\* A phone that stays authorized is allowed again and again, whatever was changed, however the
\* checks raced it and whichever reads failed: only a failed rewalk denies it for good.
AuthorizedAllowed ==
    <>[](Facts = Authorized /\ ~walkFailed) => []<>(verdict = "allow")
=============================================================================
