---------------------------- MODULE PairingState ----------------------------
(***************************************************************************)
(* The pairing state of a state directory: the enrollment window, the      *)
(* paired clients, the server identity and the two recovery markers        *)
(* (identity_reset.py, pairing_window.py, paired_clients.py,               *)
(* server_identity.py), changed under one interprocess lock by the         *)
(* commands pair, revoke, unpair and unpair --reset-identity, by the start *)
(* of the service and by pair-setup M5.                                    *)
(*                                                                         *)
(* What an operation does is decided by files that only holders of the     *)
(* lock change, so it is fixed when the lock is taken: a plan of changes,  *)
(* each made visible (os.replace, os.unlink) and then committed by an      *)
(* fsync of the directory.  An fsync commits every earlier change, and may *)
(* fail; before it, a power loss may bring back any earlier contents of a  *)
(* file, of each file by itself.                                           *)
(***************************************************************************)
EXTENDS Naturals, Sequences, FiniteSets

CONSTANTS
    Clients,       \* controllers, each with one long-term key
    MaxClients,    \* MAX_PAIRED_CLIENTS
    MaxWindows,    \* bound: enrollment windows opened
    MaxIdentities  \* bound: server identities created

ASSUME PairingAssumption ==
    /\ MaxClients \in Nat \ {0}
    /\ MaxWindows \in Nat
    /\ MaxIdentities \in Nat \ {0}

Files == {"marker", "legacy", "window", "clients", "identity"}
Windows == 1..MaxWindows
Identities == 1..MaxIdentities

\* What a file may hold; 0 is an absent window or identity.
Contents(f) ==
    CASE f = "marker"   -> {"none", "clear-all", "identity-reset"}
      [] f = "legacy"   -> {"none", "clear-all"}
      [] f = "window"   -> 0..MaxWindows
      [] f = "clients"  -> SUBSET Clients
      [] f = "identity" -> 0..MaxIdentities

VARIABLES
    disk,       \* what a reader of each file sees
    past,       \* what a power loss may leave in it
    op,         \* the operation that holds the lock
    subject,    \* the client it is for
    plan,       \* the changes it has yet to make
    syncing,    \* the first of them is visible, its fsync is due
    serving,    \* the identity of the running service; 0 if none runs
    setups,     \* the windows its pair-setups in progress began under
    expired,    \* windows past their expires_at
    windows,    \* how many windows have been opened
    bound,      \* the identity each of them names
    identities, \* how many identities have been created
    revoked,    \* history: clients whose removal was reported or checkpointed
    enrolledAt, \* history: the identity each client was last enrolled with; 0 if removed since
    closed,     \* history: windows that were replaced or closed
    retired,    \* history: identities whose reset was checkpointed
    resetAsked  \* history: a reset was asked for since the service last started

fileVars == <<disk, past>>
lockVars == <<op, subject, plan, syncing>>
liveVars == <<serving, setups>>
nameVars == <<expired, windows, bound, identities>>
histVars == <<revoked, enrolledAt, closed, retired, resetAsked>>
vars == <<fileVars, lockVars, liveVars, nameVars, histVars>>

Change(f, x) == [file |-> f, value |-> x]

TypeOK ==
    /\ DOMAIN disk = Files /\ DOMAIN past = Files
    /\ \A f \in Files : disk[f] \in past[f] /\ past[f] \subseteq Contents(f)
    /\ \A cs \in past["clients"] : Cardinality(cs) <= MaxClients
    /\ op \in {"none", "pair", "revoke", "unpair", "reset", "startup", "m5"}
    /\ subject \in SUBSET Clients
    /\ \A n \in DOMAIN plan : plan[n].file \in Files /\ plan[n].value \in Contents(plan[n].file)
    /\ syncing \in BOOLEAN
    /\ serving \in 0..MaxIdentities
    /\ setups \subseteq Windows
    /\ expired \subseteq Windows
    /\ windows \in 0..MaxWindows
    /\ bound \in [Windows -> 0..MaxIdentities]
    /\ identities \in 0..MaxIdentities
    /\ revoked \subseteq Clients
    /\ enrolledAt \in [Clients -> 0..MaxIdentities]
    /\ closed \subseteq Windows
    /\ retired \subseteq Identities
    /\ resetAsked \in BOOLEAN

Committed(d) == [f \in Files |-> {d[f]}]

\* A directory that was never used, or one in which an older version's unpair was interrupted.
Init ==
    /\ \/ disk = [marker |-> "none", legacy |-> "none", window |-> 0,
                  clients |-> {}, identity |-> 0]
       \/ \E cs \in SUBSET Clients :
             /\ Cardinality(cs) <= MaxClients
             /\ disk = [marker |-> "none", legacy |-> "clear-all", window |-> 0,
                        clients |-> cs, identity |-> 1]
    /\ past = Committed(disk)
    /\ op = "none" /\ subject = {} /\ plan = <<>> /\ syncing = FALSE
    /\ serving = 0 /\ setups = {}
    /\ expired = {} /\ windows = 0
    /\ bound = [w \in Windows |-> 0]
    /\ identities = disk["identity"]
    /\ revoked = Clients
    /\ enrolledAt = [c \in Clients |-> 0]
    /\ closed = {} /\ retired = {} /\ resetAsked = FALSE

-----------------------------------------------------------------------------
(* What the files say.                                                      *)

ResetInProgress == disk["marker"] # "none" \/ disk["legacy"] # "none"

\* PairedClients.authorizes: what a pair-verify, and every frame after it, asks.
Authorizes(c) == ~ResetInProgress /\ c \in disk["clients"]

\* PairingWindowStore.active: the window that would admit a pair-setup.
Active == IF ResetInProgress \/ disk["window"] \in expired THEN 0 ELSE disk["window"]

\* active_for_server: only a window that names the running identity.
AnyActive == Active                                     \* faulty: of whichever identity
ActiveForServer == IF Active # 0 /\ bound[Active] = serving THEN Active ELSE 0

-----------------------------------------------------------------------------
(* Plans.                                                                   *)

Commit(f) == <<Change(f, disk[f])>>                       \* durable_fsync_parent

ReusesMarker ==                                           \* faulty: a clear is not upgraded
    IF disk["marker"] # "none" THEN Commit("marker")
    ELSE <<Change("marker", "identity-reset")>>
BeginIdentityReset ==
    IF disk["marker"] = "identity-reset" THEN Commit("marker")
    ELSE <<Change("marker", "identity-reset")>>

BeginClearAll ==
    IF disk["marker"] # "none" THEN Commit("marker") ELSE <<Change("marker", "clear-all")>>

ClearsClientsOnly == <<Change("clients", {})>>            \* faulty: the window stays open
ClearState == <<Change("window", 0), Change("clients", {})>>

ClearsCommonMarker == <<Change("marker", "none")>>        \* faulty: a legacy marker stays
ClearClearAll == <<Change("marker", "none"), Change("legacy", "none")>>

LiftsFenceEarly ==                                        \* faulty: the marker goes first
    BeginClearAll
        \o (IF disk["marker"] = "identity-reset" THEN <<>> ELSE ClearClearAll) \o ClearState
Unpair ==
    BeginClearAll \o ClearState
        \o (IF disk["marker"] = "identity-reset" THEN <<>> ELSE ClearClearAll)

Reset == BeginIdentityReset \o ClearState \o <<Change("identity", 0)>>

LoadIdentity ==
    IF disk["identity"] = 0 THEN <<Change("identity", identities + 1)>> ELSE Commit("identity")

RecoverIdentityReset ==
    ClearState
        \o <<Change("identity", 0), Change("identity", identities + 1),
             Change("legacy", "none"), Change("marker", "none")>>

RecoverClearAll == ClearState \o ClearClearAll \o LoadIdentity

AlwaysResets ==                                           \* faulty: the operation is not read
    IF ResetInProgress THEN RecoverIdentityReset ELSE LoadIdentity
Startup ==
    CASE disk["marker"] = "identity-reset" -> RecoverIdentityReset
      [] disk["marker"] = "clear-all"      -> RecoverClearAll
      [] disk["marker"] = "none" /\ disk["legacy"] # "none" -> BeginClearAll \o RecoverClearAll
      [] OTHER -> LoadIdentity

\* Also when nothing changes: the fsync commits a removal whose own fsync had failed.
Save(cs) == <<Change("clients", cs)>>

HasSlot == Cardinality(disk["clients"]) < MaxClients

-----------------------------------------------------------------------------
(* Operations take the lock.                                                *)

Begins(o, who, p) ==
    /\ op = "none"
    /\ op' = o /\ subject' = who /\ plan' = p /\ syncing' = FALSE
    /\ UNCHANGED fileVars

PairBegins ==
    /\ ~ResetInProgress /\ disk["identity"] # 0 /\ windows < MaxWindows
    /\ Begins("pair", {}, Commit("identity") \o <<Change("window", windows + 1)>>)
    /\ windows' = windows + 1
    /\ bound' = [bound EXCEPT ![windows + 1] = disk["identity"]]
    /\ UNCHANGED <<liveVars, expired, identities, histVars>>

RevokeBegins(c) ==
    /\ Begins("revoke", {c}, Save(disk["clients"] \ {c}))
    /\ enrolledAt' = [enrolledAt EXCEPT ![c] = 0]
    /\ UNCHANGED <<liveVars, nameVars, revoked, closed, retired, resetAsked>>

UnpairBegins ==
    /\ Begins("unpair", {}, Unpair)
    /\ enrolledAt' = [c \in Clients |-> 0]
    /\ UNCHANGED <<liveVars, nameVars, revoked, closed, retired, resetAsked>>

ResetBegins ==
    /\ Begins("reset", {}, Reset)
    /\ enrolledAt' = [c \in Clients |-> 0]
    /\ resetAsked' = TRUE
    /\ UNCHANGED <<liveVars, nameVars, revoked, closed, retired>>

\* A second instance may start while one is running: it fails only when it binds its port.
StartupBegins ==
    /\ identities < MaxIdentities
    /\ Begins("startup", {}, Startup)
    /\ identities' = IF Change("identity", identities + 1) \in {Startup[n] : n \in DOMAIN Startup}
                     THEN identities + 1 ELSE identities
    /\ UNCHANGED <<liveVars, expired, windows, bound, histVars>>

\* Pair-setup M1: the handshake is bound to the window it began under.
SetupBegins ==
    /\ op = "none" /\ serving # 0 /\ ActiveForServer # 0
    /\ setups' = setups \cup {ActiveForServer}
    /\ UNCHANGED <<fileVars, lockVars, serving, nameVars, histVars>>

\* Pair-setup M5: mutate_if_current and add_locked in one transaction.
EnrollBegins(c, w) ==
    /\ serving # 0 /\ w \in setups /\ w = ActiveForServer
    /\ c \in disk["clients"] \/ HasSlot
    /\ Begins("m5", {c}, Save(disk["clients"] \cup {c}))
    /\ revoked' = revoked \ {c}
    /\ UNCHANGED <<liveVars, nameVars, enrolledAt, closed, retired, resetAsked>>

-----------------------------------------------------------------------------
(* They make their changes.                                                 *)

Releases == op' = "none" /\ subject' = {} /\ plan' = <<>> /\ syncing' = FALSE

MakesVisible ==
    /\ op # "none" /\ plan # <<>> /\ ~syncing
    /\ LET x == Head(plan)
       IN  /\ disk' = [disk EXCEPT ![x.file] = x.value]
           /\ past' = [past EXCEPT ![x.file] = @ \cup {x.value}]
    /\ syncing' = TRUE
    /\ UNCHANGED <<op, subject, plan, liveVars, nameVars, histVars>>

\* What an operation has promised once one of its fsyncs, or all of them, returned.
Promises(last) ==
    /\ revoked' = IF op \in {"unpair", "reset"} THEN Clients
                  ELSE IF op = "revoke" THEN revoked \cup subject ELSE revoked
    /\ closed' = IF op \in {"unpair", "reset"} THEN 1..windows
                 ELSE IF op = "pair" /\ last THEN 1..(windows - 1) ELSE closed
    /\ retired' = IF op = "reset" THEN 1..identities ELSE retired
    /\ enrolledAt' = IF op = "m5" THEN [c \in Clients |-> IF c \in subject THEN serving
                                                         ELSE enrolledAt[c]]
                     ELSE enrolledAt
    /\ resetAsked' = (resetAsked /\ ~(op = "startup" /\ last))

\* The service listens before it releases the lock, unless its port is taken.
Serves ==
    IF op = "startup" /\ serving = 0
    THEN serving' = disk["identity"] /\ setups' = {}
    ELSE UNCHANGED liveVars

Syncs ==
    /\ syncing
    /\ past' = Committed(disk)
    /\ Promises(Tail(plan) = <<>>)
    /\ IF Tail(plan) = <<>>
       THEN Releases /\ Serves
       ELSE plan' = Tail(plan) /\ syncing' = FALSE /\ UNCHANGED <<op, subject, liveVars>>
    /\ UNCHANGED <<disk, nameVars>>

\* The write or the fsync raises: the operation reports an error.
Fails ==
    /\ op # "none"
    /\ Releases
    /\ UNCHANGED <<fileVars, liveVars, nameVars, histVars>>

-----------------------------------------------------------------------------
(* Crashes, and time.                                                       *)

ServiceStops ==
    /\ serving # 0
    /\ serving' = 0 /\ setups' = {}
    /\ IF op = "m5" THEN Releases ELSE UNCHANGED lockVars
    /\ UNCHANGED <<fileVars, nameVars, histVars>>

PowerLoss ==
    /\ disk' \in [marker : past["marker"], legacy : past["legacy"], window : past["window"],
                  clients : past["clients"], identity : past["identity"]]
    /\ past' = Committed(disk')
    /\ Releases
    /\ serving' = 0 /\ setups' = {}
    /\ UNCHANGED <<nameVars, histVars>>

Expires(w) ==
    /\ w <= windows /\ w \notin expired
    /\ expired' = expired \cup {w}
    /\ UNCHANGED <<fileVars, lockVars, liveVars, windows, bound, identities, histVars>>

Next ==
    \/ PairBegins \/ UnpairBegins \/ ResetBegins \/ StartupBegins \/ SetupBegins
    \/ \E c \in Clients : RevokeBegins(c) \/ \E w \in Windows : EnrollBegins(c, w)
    \/ MakesVisible \/ Syncs \/ Fails
    \/ ServiceStops \/ PowerLoss
    \/ \E w \in Windows : Expires(w)

Spec == Init /\ [][Next]_vars

-----------------------------------------------------------------------------
(* Properties.                                                              *)

\* A client whose revocation was reported, or whose unpair or reset was checkpointed, is never
\* authorized again until it is enrolled anew, whatever crashes between which two steps.
RevokedStaysRevoked == \A c \in revoked : ~Authorizes(c)

\* An enrollment that was confirmed to the phone survives every crash, together with the identity
\* that the phone was enrolled with, until somebody removes it.
EnrollmentKept ==
    \A c \in Clients : enrolledAt[c] # 0 =>
        /\ past["identity"] = {enrolledAt[c]}
        /\ \A cs \in past["clients"] : c \in cs

\* A window that was replaced or closed enrolls nobody, not even the handshake it had admitted, nor
\* after a crash that might have brought its record back.
ClosedStaysClosed == [][op # "m5" /\ op' = "m5" => disk["window"] \notin closed]_vars

\* After its checkpoint a reset is completed by the next start, never recovered as the unpair that
\* keeps the identity, and the service starts with every recovery marker gone for good.
ResetNotDowngraded ==
    [][serving = 0 /\ serving' # 0 =>
          /\ serving' \notin retired
          /\ past'["marker"] = {"none"} /\ past'["legacy"] = {"none"}]_vars

\* No path but a reset gives up a committed identity: an interrupted unpair, of this version or an
\* older one, is recovered without it.
IdentityKept ==
    [][past["identity"] = {disk["identity"]} /\ disk["identity"] # 0
       /\ disk'["identity"] # disk["identity"] => resetAsked]_vars
=============================================================================
