------------------------- MODULE PairingStateProofs -------------------------
(***************************************************************************)
(* The five properties of the pairing state, for any clients and any       *)
(* number of windows and identities.                                       *)
(*                                                                         *)
(* A power loss picks the contents of each file by itself, so what has to  *)
(* hold of the files has to hold of every choice from past: a marker is a  *)
(* fence only when no choice leaves it out (Fenced).  A plan is reasoned   *)
(* about as a whole: what it lifts or creates, it does after a change that *)
(* has cleared the clients and the window, and each change is committed    *)
(* before the next is made visible (PlanInv).                              *)
(*                                                                         *)
(* That no choice has more clients than there are slots is proved at the   *)
(* end, with the types: the slot is checked and taken under one lock.      *)
(***************************************************************************)
EXTENDS PairingState, SequenceTheorems, FiniteSetTheorems, TLAPS

Values == {"none", "clear-all", "identity-reset"} \cup Nat \cup SUBSET Clients
Markers == {"marker", "legacy"}

\* No power loss leaves the directory without a marker.
Fenced == "none" \notin past["marker"] \/ "none" \notin past["legacy"]

Lifts(x) == x.file \in Markers /\ x.value = "none"

\* Change n of the plan finds file f committed as v.
Settled(n, f, v) == past[f] = {v} \/ \E m \in 1..(n - 1) : plan[m] = Change(f, v)

FilesInv ==
    /\ disk \in [Files -> Values] /\ past \in [Files -> SUBSET Values]
    /\ \A f \in Files : disk[f] \in past[f]
    /\ windows \in Nat /\ past["window"] \subseteq 0..windows
    /\ identities \in Nat /\ past["identity"] \subseteq 0..identities
    /\ past["clients"] \subseteq SUBSET Clients
    /\ past["marker"] \subseteq {"none", "clear-all", "identity-reset"}

NamesInv ==
    /\ bound \in [Windows -> Nat] /\ windows <= MaxWindows
    /\ \A w \in 1..windows : bound[w] # 0
    /\ serving \in Nat /\ subject \subseteq Clients
    /\ revoked \subseteq Clients /\ enrolledAt \in [Clients -> Nat]
    /\ closed \subseteq 1..windows /\ retired \subseteq 1..identities

LockInv ==
    /\ plan \in Seq([file : Files, value : Values])
    /\ op \in {"none", "pair", "revoke", "unpair", "reset", "startup", "m5"}
    /\ op = "none" <=> plan = <<>>
    /\ syncing => plan # <<>> /\ disk[plan[1].file] = plan[1].value

PlanInv ==
    \A n \in DOMAIN plan :
        /\ Lifts(plan[n]) => Settled(n, "clients", {}) /\ Settled(n, "window", 0)
        /\ plan[n].file = "identity" /\ plan[n].value # disk["identity"] => Settled(n, "window", 0)
        /\ plan[n].file = "identity" => plan[n].value \in 0..identities
        /\ plan[n].file = "marker" =>
              plan[n].value \in {"none", "clear-all", "identity-reset"}
        /\ plan[n].file = "clients" /\ plan[n].value # {} => op \in {"revoke", "m5"}
        /\ plan[n].file = "window" /\ plan[n].value # 0 => op = "pair"

PairInv ==
    op = "pair" =>
        /\ windows \in Windows /\ windows \notin closed
        /\ bound[windows] = disk["identity"]
        /\ plan[Len(plan)] = Change("window", windows)
        /\ \/ Len(plan) = 2 /\ plan[1] = Change("identity", bound[windows])
           \/ Len(plan) = 1 /\ past["identity"] = {bound[windows]}

\* The one change of a revoke or an M5.
ClientsInv ==
    op \in {"revoke", "m5"} =>
        /\ Len(plan) = 1 /\ plan[1].file = "clients" /\ plan[1].value \subseteq Clients
        /\ Fenced \/ plan[1].value \cap revoked = {}
        /\ op = "revoke" => plan[1].value \cap subject = {}
        /\ op = "m5" => /\ disk["marker"] = "none" /\ disk["legacy"] = "none"
                        /\ serving = disk["identity"] /\ serving # 0
                        /\ subject \subseteq plan[1].value

\* An unpair or a reset has committed its marker, or is about to.
CheckpointInv ==
    op \in {"unpair", "reset"} =>
        \/ plan[1].file = "marker" /\ plan[1].value # "none"
        \/ revoked = Clients /\ closed = 1..windows

RevokedInv == Fenced \/ \A c \in revoked : \A cs \in past["clients"] : c \notin cs

WindowInv ==
    Fenced \/ \A w \in past["window"] : w # 0 =>
                 w \notin closed /\ \A i \in past["identity"] : bound[w] = i

KeptInv ==
    \A c \in Clients : enrolledAt[c] # 0 =>
        /\ past["marker"] = {"none"} /\ past["legacy"] = {"none"}
        /\ past["identity"] = {enrolledAt[c]}
        /\ \A cs \in past["clients"] : c \in cs
        /\ \A n \in DOMAIN plan :
              /\ plan[n].file \notin Markers
              /\ plan[n].file = "identity" => plan[n].value = enrolledAt[c]
              /\ plan[n].file = "clients" => c \in plan[n].value

\* A start ends with both markers gone.
StartupInv ==
    op = "startup" => \A f \in Markers :
        \E n \in 0..Len(plan) :
            /\ IF n = 0 THEN disk[f] = "none" ELSE plan[n] = Change(f, "none")
            /\ \A m \in (n + 1)..Len(plan) : plan[m].file = f => plan[m].value = "none"

\* A retired identity is only named while every power loss leaves the marker of its reset.
RetiredInv ==
    /\ past["marker"] = {"identity-reset"} \/ past["identity"] \cap retired = {}
    /\ \A n \in DOMAIN plan :
          /\ plan[n].file = "identity" => plan[n].value \notin retired
          /\ plan[n] = Change("marker", "clear-all") => past["identity"] \cap retired = {}
          /\ plan[n] = Change("marker", "none") =>
                \/ past["identity"] \cap retired = {}
                \/ \E m \in 1..(n - 1) : plan[m].file = "identity"
    /\ op = "reset" =>
          /\ \/ plan[1] = Change("marker", "identity-reset")
             \/ past["marker"] = {"identity-reset"}
          /\ \A n \in DOMAIN plan : plan[n].file = "marker" =>
                n = 1 /\ plan[n].value = "identity-reset"
          /\ \A n \in DOMAIN plan : plan[n].file = "identity" => plan[n].value = 0

\* Only a reset that was asked for replaces an identity.
AskedInv ==
    /\ "identity-reset" \in past["marker"] => resetAsked
    /\ \A n \in DOMAIN plan :
          /\ plan[n] = Change("marker", "identity-reset") => resetAsked
          /\ plan[n].file = "identity" /\ plan[n].value # disk["identity"] =>
                \/ resetAsked
                \/ /\ disk["identity"] = 0
                   /\ \A m \in DOMAIN plan : m # n => plan[m].file # "identity"
    /\ op = "reset" => resetAsked

IInv ==
    /\ FilesInv /\ NamesInv /\ LockInv /\ PlanInv /\ PairInv /\ ClientsInv /\ CheckpointInv
    /\ RevokedInv /\ WindowInv /\ KeptInv /\ StartupInv /\ RetiredInv /\ AskedInv

-----------------------------------------------------------------------------
(* The plans, change by change.                                             *)

Entry == [file : Files, value : Values]

LastChange ==
    Change("identity", IF disk["identity"] = 0 THEN identities + 1 ELSE disk["identity"])

\* Every change is one of a known file (Change).
LEMMA Entries ==
    ASSUME FilesInv
    PROVE  /\ \A v \in Values : \A f \in Files : Change(f, v) \in Entry
           /\ Change("window", 0) \in Entry /\ Change("clients", {}) \in Entry
           /\ Change("marker", "none") \in Entry /\ Change("legacy", "none") \in Entry
           /\ Change("marker", "clear-all") \in Entry
           /\ Change("marker", "identity-reset") \in Entry
           /\ Change("identity", 0) \in Entry /\ Change("identity", identities + 1) \in Entry
           /\ LastChange \in Entry
           /\ disk["marker"] \in {"none", "clear-all", "identity-reset"}
  BY DEF FilesInv, Entry, Change, Files, Values, LastChange

\* An unpair: the marker, the records, and the markers away unless a reset is pending (_cmd_unpair).
LEMMA UnpairPlan ==
    ASSUME FilesInv, NEW p, p = Unpair
    PROVE  /\ p \in Seq(Entry) /\ Len(p) \in {3, 5}
           /\ p[1] = Change("marker", IF disk["marker"] = "identity-reset"
                                      THEN "identity-reset" ELSE "clear-all")
           /\ p[2] = Change("window", 0) /\ p[3] = Change("clients", {})
           /\ Len(p) = 5 => /\ disk["marker"] # "identity-reset"
                            /\ p[4] = Change("marker", "none") /\ p[5] = Change("legacy", "none")
<1> DEFINE m == Change("marker", IF disk["marker"] = "identity-reset"
                                 THEN "identity-reset" ELSE "clear-all")
<1>1. m \in Entry
  BY Entries
<1>2. BeginClearAll = <<m>>
  BY Entries DEF BeginClearAll, Commit
<1> HIDE DEF m
<1>3. CASE disk["marker"] = "identity-reset"
  <2>1. p = <<m>> \o <<Change("window", 0), Change("clients", {})>> \o <<>>
    BY <1>2, <1>3 DEF Unpair, ClearState
  <2> QED
    BY <1>1, <1>3, <2>1, Entries DEF m
<1>4. CASE disk["marker"] # "identity-reset"
  <2>1. p = <<m>> \o <<Change("window", 0), Change("clients", {})>>
                  \o <<Change("marker", "none"), Change("legacy", "none")>>
    BY <1>2, <1>4 DEF Unpair, ClearState, ClearClearAll
  <2> QED
    BY <1>1, <1>4, <2>1, Entries DEF m
<1> QED
  BY <1>3, <1>4

\* A reset up to its recovery (_cmd_unpair with reset_identity_too).
LEMMA ResetPlan ==
    ASSUME FilesInv, NEW p, p = Reset
    PROVE  /\ p \in Seq(Entry) /\ Len(p) = 4
           /\ p[1] = Change("marker", "identity-reset")
           /\ p[2] = Change("window", 0) /\ p[3] = Change("clients", {})
           /\ p[4] = Change("identity", 0)
<1>1. BeginIdentityReset = <<Change("marker", "identity-reset")>>
  BY DEF BeginIdentityReset, Commit
<1>2. p = <<Change("marker", "identity-reset")>>
            \o <<Change("window", 0), Change("clients", {})>> \o <<Change("identity", 0)>>
  BY <1>1 DEF Reset, ClearState
<1> QED
  BY <1>2, Entries

\* A start: the recovery that the markers call for, and an identity
\* (load_or_create_server_identity_locked).
LEMMA StartupPlan ==
    ASSUME FilesInv, NEW p, p = Startup
    PROVE  /\ p \in Seq(Entry)
           /\ \/ /\ disk["marker"] = "identity-reset" /\ Len(p) = 6
                 /\ p[1] = Change("window", 0) /\ p[2] = Change("clients", {})
                 /\ p[3] = Change("identity", 0) /\ p[4] = Change("identity", identities + 1)
                 /\ p[5] = Change("legacy", "none") /\ p[6] = Change("marker", "none")
              \/ /\ disk["marker"] = "clear-all" /\ Len(p) = 5
                 /\ p[1] = Change("window", 0) /\ p[2] = Change("clients", {})
                 /\ p[3] = Change("marker", "none") /\ p[4] = Change("legacy", "none")
                 /\ p[5] = LastChange
              \/ /\ disk["marker"] = "none" /\ disk["legacy"] # "none" /\ Len(p) = 6
                 /\ p[1] = Change("marker", "clear-all")
                 /\ p[2] = Change("window", 0) /\ p[3] = Change("clients", {})
                 /\ p[4] = Change("marker", "none") /\ p[5] = Change("legacy", "none")
                 /\ p[6] = LastChange
              \/ /\ disk["marker"] = "none" /\ disk["legacy"] = "none" /\ Len(p) = 1
                 /\ p[1] = LastChange
<1>1. LoadIdentity = <<LastChange>>
  BY DEF LoadIdentity, LastChange, Commit
<1>2. RecoverClearAll = <<Change("window", 0), Change("clients", {})>>
          \o <<Change("marker", "none"), Change("legacy", "none")>> \o <<LastChange>>
  BY <1>1 DEF RecoverClearAll, ClearState, ClearClearAll
<1> HIDE DEF LastChange
<1>3. CASE disk["marker"] = "identity-reset"
  <2>1. p = <<Change("window", 0), Change("clients", {})>>
              \o <<Change("identity", 0), Change("identity", identities + 1),
                   Change("legacy", "none"), Change("marker", "none")>>
    BY <1>3 DEF Startup, RecoverIdentityReset, ClearState
  <2> QED
    BY <1>3, <2>1, Entries
<1>4. CASE disk["marker"] = "clear-all"
  <2>1. p = <<Change("window", 0), Change("clients", {})>>
              \o <<Change("marker", "none"), Change("legacy", "none")>> \o <<LastChange>>
    BY <1>2, <1>4 DEF Startup
  <2> QED
    BY <1>4, <2>1, Entries
<1>5. CASE disk["marker"] = "none" /\ disk["legacy"] # "none"
  <2>1. p = <<Change("marker", "clear-all")>>
              \o (<<Change("window", 0), Change("clients", {})>>
                    \o <<Change("marker", "none"), Change("legacy", "none")>> \o <<LastChange>>)
    BY <1>2, <1>5 DEF Startup, BeginClearAll
  <2> QED
    BY <1>5, <2>1, Entries
<1>6. CASE disk["marker"] = "none" /\ disk["legacy"] = "none"
  <2>1. p = <<LastChange>>
    BY <1>1, <1>6 DEF Startup
  <2> QED
    BY <1>6, <2>1, Entries
<1> QED
  BY <1>3, <1>4, <1>5, <1>6, Entries

-----------------------------------------------------------------------------
(* The operations take the lock.                                            *)

\* Taking the lock leaves the files as they are (_PairingStateLock).
LEMMA BeginKeeps ==
    ASSUME IInv, NEW o, NEW who, NEW p, Begins(o, who, p),
           windows' = windows, bound' = bound, identities' \in {identities, identities + 1},
           revoked' \subseteq revoked, closed' = closed, retired' = retired
    PROVE  FilesInv' /\ RevokedInv' /\ WindowInv' /\ Fenced' = Fenced
<1> USE DEF IInv, FilesInv, Begins, fileVars
<1>1. FilesInv'
  OBVIOUS
<1>2. Fenced' = Fenced
  BY DEF Fenced
<1>3. RevokedInv'
  BY <1>2 DEF RevokedInv
<1>4. WindowInv'
  BY <1>2 DEF WindowInv
<1> QED
  BY <1>1, <1>2, <1>3, <1>4

\* An unpair (_cmd_unpair).
LEMMA UnpairIInv == IInv /\ UnpairBegins => IInv'
<1> SUFFICES ASSUME IInv, UnpairBegins PROVE IInv'
  OBVIOUS
<1>p. PICK p : p = Unpair
  OBVIOUS
<1>1. /\ op = "none" /\ op' = "unpair" /\ subject' = {} /\ plan' = p /\ syncing' = FALSE
      /\ UNCHANGED fileVars
  BY <1>p DEF UnpairBegins, Begins
<1>2. /\ UNCHANGED <<serving, windows, bound, identities, revoked, closed, retired, resetAsked>>
      /\ enrolledAt' = [c \in Clients |-> 0]
  BY DEF UnpairBegins, liveVars, nameVars
<1>3. FilesInv' /\ RevokedInv' /\ WindowInv'
  BY <1>2, BeginKeeps DEF UnpairBegins
<1>4. /\ p \in Seq(Entry) /\ Len(p) \in {3, 5}
      /\ p[1] = Change("marker", IF disk["marker"] = "identity-reset"
                                 THEN "identity-reset" ELSE "clear-all")
      /\ p[2] = Change("window", 0) /\ p[3] = Change("clients", {})
      /\ Len(p) = 5 => /\ disk["marker"] # "identity-reset"
                       /\ p[4] = Change("marker", "none") /\ p[5] = Change("legacy", "none")
  BY <1>p, UnpairPlan DEF IInv
<1>a. ASSUME NEW n \in 1..Len(p)
      PROVE  /\ p[n].file # "identity"
             /\ p[n].file = "clients" => p[n].value = {}
             /\ p[n].file = "window" => p[n].value = 0
             /\ p[n].file = "marker" =>
                   p[n].value \in {"none", "clear-all", "identity-reset"}
             /\ p[n].file = "marker" /\ p[n].value # "identity-reset" =>
                   disk["marker"] # "identity-reset"
             /\ p[n].file = "marker" /\ p[n].value = "identity-reset" =>
                   disk["marker"] = "identity-reset"
             /\ Lifts(p[n]) => n > 3
  <2>1. n = 1 \/ n = 2 \/ n = 3 \/ (n = 4 /\ Len(p) = 5) \/ (n = 5 /\ Len(p) = 5)
    <3>1. CASE Len(p) = 3
      BY <3>1
    <3>2. CASE Len(p) = 5
      BY <3>2
    <3> QED
      BY <1>4, <3>1, <3>2
  <2>2. CASE n = 1
    BY <1>4, <2>2 DEF Change, Lifts
  <2>3. CASE n = 2 \/ n = 3
    BY <1>4, <2>3 DEF Change, Lifts, Markers
  <2>4. CASE Len(p) = 5 /\ (n = 4 \/ n = 5)
    BY <1>4, <2>4 DEF Change
  <2> QED
    BY <2>1, <2>2, <2>3, <2>4
<1>5. /\ disk' = disk /\ past' = past /\ disk["marker"] \in past["marker"]
  BY <1>1 DEF fileVars, IInv, FilesInv, Files
<1>6. NamesInv'
  BY <1>1, <1>2 DEF IInv, NamesInv
<1>7. LockInv'
  BY <1>1, <1>4 DEF LockInv, Entry
<1>8. PlanInv'
  <2> SUFFICES ASSUME NEW n \in 1..Len(p)
               PROVE  /\ Lifts(p[n]) => Settled(n, "clients", {})' /\ Settled(n, "window", 0)'
                      /\ p[n].file = "marker" =>
                            p[n].value \in {"none", "clear-all", "identity-reset"}
                      /\ p[n].file # "identity"
                      /\ p[n].file = "clients" => p[n].value = {}
                      /\ p[n].file = "window" => p[n].value = 0
    BY <1>1, <1>4 DEF PlanInv
  <2>1. n > 3 => Settled(n, "clients", {})' /\ Settled(n, "window", 0)'
    BY <1>1, <1>4 DEF Settled
  <2> QED
    BY <1>a, <2>1
<1>9. PairInv' /\ ClientsInv' /\ StartupInv'
  BY <1>1 DEF PairInv, ClientsInv, StartupInv
<1>10. CheckpointInv'
  BY <1>1, <1>4 DEF CheckpointInv, Change
<1>11. KeptInv'
  BY <1>2 DEF KeptInv
<1>12. RetiredInv'
  <2>1. disk["marker"] # "identity-reset" => past["identity"] \cap retired = {}
    BY <1>5 DEF IInv, RetiredInv
  <2>2. ASSUME NEW n \in 1..Len(p)
        PROVE  /\ p[n].file # "identity"
               /\ p[n] = Change("marker", "clear-all") => past["identity"] \cap retired = {}
               /\ p[n] = Change("marker", "none") => past["identity"] \cap retired = {}
    <3>1. \A v : p[n] = Change("marker", v) => p[n].file = "marker" /\ p[n].value = v
      BY DEF Change
    <3> QED
      BY <1>a, <2>1, <3>1
  <2>3. past["marker"] = {"identity-reset"} \/ past["identity"] \cap retired = {}
    BY DEF IInv, RetiredInv
  <2> QED
    BY <1>1, <1>2, <1>4, <1>5, <2>2, <2>3 DEF RetiredInv
<1>13. AskedInv'
  <2>1. ASSUME NEW n \in 1..Len(p)
        PROVE  /\ p[n].file # "identity"
               /\ p[n] = Change("marker", "identity-reset") => "identity-reset" \in past["marker"]
    <3>1. \A v : p[n] = Change("marker", v) => p[n].file = "marker" /\ p[n].value = v
      BY DEF Change
    <3> QED
      BY <1>a, <1>5, <3>1
  <2> QED
    BY <1>1, <1>2, <1>4, <1>5, <2>1 DEF AskedInv, IInv
<1> QED
  BY <1>3, <1>6, <1>7, <1>8, <1>9, <1>10, <1>11, <1>12, <1>13 DEF IInv

\* A reset: its marker is about to be committed (_cmd_unpair with reset_identity_too).
LEMMA ResetIInv == IInv /\ ResetBegins => IInv'
<1> SUFFICES ASSUME IInv, ResetBegins PROVE IInv'
  OBVIOUS
<1>p. PICK p : p = Reset
  OBVIOUS
<1>1. /\ op = "none" /\ op' = "reset" /\ subject' = {} /\ plan' = p /\ syncing' = FALSE
      /\ UNCHANGED fileVars
  BY <1>p DEF ResetBegins, Begins
<1>2. /\ UNCHANGED <<serving, windows, bound, identities, revoked, closed, retired>>
      /\ enrolledAt' = [c \in Clients |-> 0]
      /\ resetAsked'
  BY DEF ResetBegins, liveVars, nameVars
<1>3. FilesInv' /\ RevokedInv' /\ WindowInv'
  BY <1>2, BeginKeeps DEF ResetBegins
<1>4. /\ p \in Seq(Entry) /\ Len(p) = 4
      /\ p[1] = Change("marker", "identity-reset")
      /\ p[2] = Change("window", 0) /\ p[3] = Change("clients", {})
      /\ p[4] = Change("identity", 0)
  BY <1>p, ResetPlan DEF IInv
<1>5. disk' = disk /\ past' = past
  BY <1>1 DEF fileVars
<1>a. ASSUME NEW n \in 1..Len(p)
      PROVE  /\ p[n].file = "identity" => p[n].value = 0 /\ n = 4
             /\ p[n].file = "clients" => p[n].value = {}
             /\ p[n].file = "window" => p[n].value = 0
             /\ p[n].file = "marker" => p[n].value = "identity-reset" /\ n = 1
             /\ ~Lifts(p[n])
  <2>1. n = 1 \/ n = 2 \/ n = 3 \/ n = 4
    BY <1>4
  <2> QED
    BY <1>4, <2>1 DEF Change, Lifts, Markers
<1>6. NamesInv'
  BY <1>1, <1>2 DEF IInv, NamesInv
<1>7. LockInv'
  BY <1>1, <1>4 DEF LockInv, Entry
<1>8. PlanInv'
  <2> SUFFICES ASSUME NEW n \in 1..Len(p)
               PROVE  /\ ~Lifts(p[n])
                      /\ p[n].file = "identity" => Settled(n, "window", 0)'
                      /\ p[n].file = "identity" => p[n].value \in 0..identities'
                      /\ p[n].file = "marker" =>
                            p[n].value \in {"none", "clear-all", "identity-reset"}
                      /\ p[n].file = "clients" => p[n].value = {}
                      /\ p[n].file = "window" => p[n].value = 0
    BY <1>1, <1>4 DEF PlanInv
  <2>1. n > 3 => Settled(n, "window", 0)'
    BY <1>1, <1>4 DEF Settled
  <2>2. 0 \in 0..identities'
    BY <1>3 DEF FilesInv
  <2> QED
    BY <1>a, <2>1, <2>2
<1>9. PairInv' /\ ClientsInv' /\ StartupInv'
  BY <1>1 DEF PairInv, ClientsInv, StartupInv
<1>10. CheckpointInv'
  BY <1>1, <1>4 DEF CheckpointInv, Change
<1>11. KeptInv'
  BY <1>2 DEF KeptInv
<1>12. RetiredInv'
  <2>1. 0 \notin retired
    BY DEF IInv, NamesInv
  <2>2. ASSUME NEW n \in 1..Len(p)
        PROVE  /\ p[n] # Change("marker", "none") /\ p[n] # Change("marker", "clear-all")
               /\ p[n].file = "identity" => p[n].value = 0
               /\ p[n].file = "marker" => n = 1 /\ p[n].value = "identity-reset"
    BY <1>a DEF Change
  <2>3. past["marker"] = {"identity-reset"} \/ past["identity"] \cap retired = {}
    BY DEF IInv, RetiredInv
  <2> QED
    BY <1>1, <1>2, <1>4, <1>5, <2>1, <2>2, <2>3 DEF RetiredInv
<1>13. AskedInv'
  BY <1>2 DEF AskedInv
<1> QED
  BY <1>3, <1>6, <1>7, <1>8, <1>9, <1>10, <1>11, <1>12, <1>13 DEF IInv

\* A start of the service (load_or_create_server_identity_locked).
LEMMA StartupIInv == IInv /\ StartupBegins => IInv'
<1> SUFFICES ASSUME IInv, StartupBegins PROVE IInv'
  OBVIOUS
<1>p. PICK p : p = Startup
  OBVIOUS
<1>1. /\ op = "none" /\ op' = "startup" /\ subject' = {} /\ plan' = p /\ syncing' = FALSE
      /\ UNCHANGED fileVars
  BY <1>p DEF StartupBegins, Begins
<1>2. UNCHANGED <<serving, windows, bound, revoked, enrolledAt, closed, retired, resetAsked>>
  BY DEF StartupBegins, liveVars, histVars
<1>i. /\ identities \in Nat /\ identities' \in {identities, identities + 1}
      /\ (\E n \in DOMAIN p : p[n] = Change("identity", identities + 1)) =>
            identities' = identities + 1
  <2>1. identities \in Nat
    BY DEF IInv, FilesInv
  <2> QED
    BY <1>p, <2>1 DEF StartupBegins
<1>3. FilesInv' /\ RevokedInv' /\ WindowInv' /\ Fenced' = Fenced
  BY <1>2, <1>i, BeginKeeps DEF StartupBegins
<1>4. /\ p \in Seq(Entry)
      /\ \/ /\ disk["marker"] = "identity-reset" /\ Len(p) = 6
            /\ p[1] = Change("window", 0) /\ p[2] = Change("clients", {})
            /\ p[3] = Change("identity", 0) /\ p[4] = Change("identity", identities + 1)
            /\ p[5] = Change("legacy", "none") /\ p[6] = Change("marker", "none")
         \/ /\ disk["marker"] = "clear-all" /\ Len(p) = 5
            /\ p[1] = Change("window", 0) /\ p[2] = Change("clients", {})
            /\ p[3] = Change("marker", "none") /\ p[4] = Change("legacy", "none")
            /\ p[5] = LastChange
         \/ /\ disk["marker"] = "none" /\ disk["legacy"] # "none" /\ Len(p) = 6
            /\ p[1] = Change("marker", "clear-all")
            /\ p[2] = Change("window", 0) /\ p[3] = Change("clients", {})
            /\ p[4] = Change("marker", "none") /\ p[5] = Change("legacy", "none")
            /\ p[6] = LastChange
         \/ /\ disk["marker"] = "none" /\ disk["legacy"] = "none" /\ Len(p) = 1
            /\ p[1] = LastChange
  BY <1>p, StartupPlan DEF IInv
<1>5. /\ disk' = disk /\ past' = past
      /\ disk["marker"] \in past["marker"] /\ disk["legacy"] \in past["legacy"]
      /\ disk["identity"] \in past["identity"] /\ disk["identity"] \in 0..identities
      /\ identities \in Nat
  BY <1>1 DEF fileVars, IInv, FilesInv, Files
<1>6. LastChange.file = "identity" /\ LastChange.value # 0
      /\ LastChange.value = IF disk["identity"] = 0 THEN identities + 1 ELSE disk["identity"]
  BY <1>5 DEF LastChange, Change
<1> HIDE DEF LastChange
<1>a. ASSUME NEW n \in 1..Len(p)
      PROVE  /\ p[n].file = "clients" => p[n].value = {}
             /\ p[n].file = "window" => p[n].value = 0
             /\ p[n].file = "marker" => p[n].value \in {"none", "clear-all"}
             /\ p[n].file = "marker" /\ p[n].value = "clear-all" => disk["marker"] = "none"
             /\ p[n].file = "marker" /\ p[n].value = "none" /\ disk["marker"] = "identity-reset" =>
                   n = 6 /\ p[4].file = "identity"
             /\ p[n].file = "identity" /\ disk["marker"] = "identity-reset" =>
                   p[n].value \in {0, identities + 1}
             /\ p[n].file = "identity" /\ disk["marker"] # "identity-reset" =>
                   n = Len(p) /\ p[n] = LastChange
             /\ Lifts(p[n]) \/ (p[n].file = "identity" /\ Len(p) > 1) =>
                   /\ \E m \in 1..(n - 1) : p[m] = Change("window", 0)
                   /\ Lifts(p[n]) => \E m \in 1..(n - 1) : p[m] = Change("clients", {})
  <2>1. CASE disk["marker"] = "identity-reset"
    <3>0. Len(p) = 6
      BY <1>4, <2>1
    <3>1. n = 1 \/ n = 2 \/ n = 3 \/ n = 4 \/ n = 5 \/ n = 6
      BY <3>0
    <3>2. /\ p[1] = Change("window", 0) /\ p[2] = Change("clients", {})
          /\ n > 2 => 1 \in 1..(n - 1) /\ 2 \in 1..(n - 1)
      <4>1. p[1] = Change("window", 0) /\ p[2] = Change("clients", {})
        BY <1>4, <2>1
      <4>2. n > 2 => 1 \in 1..(n - 1) /\ 2 \in 1..(n - 1)
        BY <3>0
      <4> QED
        BY <4>1, <4>2
    <3>3. /\ p[1].file = "window" /\ p[1].value = 0
          /\ p[2].file = "clients" /\ p[2].value = {}
          /\ p[3].file = "identity" /\ p[3].value = 0
          /\ p[4].file = "identity" /\ p[4].value = identities + 1
          /\ p[5].file = "legacy" /\ p[5].value = "none"
          /\ p[6].file = "marker" /\ p[6].value = "none"
      BY <1>4, <2>1 DEF Change
    <3> QED
      BY <1>6, <2>1, <3>0, <3>1, <3>2, <3>3 DEF Lifts, Markers
  <2>2. CASE disk["marker"] = "clear-all"
    <3>0. Len(p) = 5
      BY <1>4, <2>2
    <3>1. n = 1 \/ n = 2 \/ n = 3 \/ n = 4 \/ n = 5
      BY <3>0
    <3>2. /\ p[1] = Change("window", 0) /\ p[2] = Change("clients", {})
          /\ n > 2 => 1 \in 1..(n - 1) /\ 2 \in 1..(n - 1)
      <4>1. p[1] = Change("window", 0) /\ p[2] = Change("clients", {})
        BY <1>4, <2>2
      <4>2. n > 2 => 1 \in 1..(n - 1) /\ 2 \in 1..(n - 1)
        BY <3>0
      <4> QED
        BY <4>1, <4>2
    <3>3. /\ p[1].file = "window" /\ p[1].value = 0
          /\ p[2].file = "clients" /\ p[2].value = {}
          /\ p[3].file = "marker" /\ p[3].value = "none"
          /\ p[4].file = "legacy" /\ p[4].value = "none"
          /\ p[5] = LastChange
      BY <1>4, <2>2 DEF Change
    <3> QED
      BY <1>6, <2>2, <3>0, <3>1, <3>2, <3>3 DEF Lifts, Markers
  <2>3. CASE disk["marker"] = "none" /\ disk["legacy"] # "none"
    <3>0. Len(p) = 6
      BY <1>4, <2>3
    <3>1. n = 1 \/ n = 2 \/ n = 3 \/ n = 4 \/ n = 5 \/ n = 6
      BY <3>0
    <3>2. /\ p[2] = Change("window", 0) /\ p[3] = Change("clients", {})
          /\ n > 3 => 2 \in 1..(n - 1) /\ 3 \in 1..(n - 1)
      <4>1. p[2] = Change("window", 0) /\ p[3] = Change("clients", {})
        BY <1>4, <2>3
      <4>2. n > 3 => 2 \in 1..(n - 1) /\ 3 \in 1..(n - 1)
        BY <3>0
      <4> QED
        BY <4>1, <4>2
    <3>3. /\ p[1].file = "marker" /\ p[1].value = "clear-all"
          /\ p[2].file = "window" /\ p[2].value = 0
          /\ p[3].file = "clients" /\ p[3].value = {}
          /\ p[4].file = "marker" /\ p[4].value = "none"
          /\ p[5].file = "legacy" /\ p[5].value = "none"
          /\ p[6] = LastChange
      BY <1>4, <2>3 DEF Change
    <3> QED
      BY <1>6, <2>3, <3>0, <3>1, <3>2, <3>3 DEF Lifts, Markers
  <2>4. CASE disk["marker"] = "none" /\ disk["legacy"] = "none"
    <3>1. Len(p) = 1 /\ p[1] = LastChange
      BY <1>4, <2>4
    <3>2. n = 1
      BY <3>1
    <3> QED
      BY <1>6, <2>4, <3>1, <3>2 DEF Lifts, Markers
  <2> QED
    BY <1>4, <2>1, <2>2, <2>3, <2>4
<1>7. NamesInv'
  BY <1>1, <1>2, <1>i DEF IInv, NamesInv
<1>8. LockInv'
  BY <1>1, <1>4 DEF LockInv, Entry
<1>9. /\ \A n \in 1..Len(p) : p[n].file = "identity" => p[n].value \in 0..identities'
      /\ past["window"] # {0} => \A n \in 1..Len(p) :
            p[n].file = "identity" /\ Len(p) = 1 => p[n].value = disk["identity"]
  <2>1. ASSUME NEW n \in 1..Len(p), p[n].file = "identity"
        PROVE  p[n].value \in 0..identities'
    <3>1. p[n].value \in {0, identities + 1, disk["identity"]}
      BY <1>6, <1>a, <2>1
    <3>2. CASE p[n].value = identities + 1
      <4>1. p[n] = Change("identity", identities + 1)
        <5>1. p[n] \in Entry
          BY <1>4, <2>1
        <5> QED
          BY <2>1, <3>2, <5>1 DEF Entry, Change
      <4> QED
        BY <1>4, <1>5, <1>i, <3>2, <4>1
    <3>3. CASE p[n].value # identities + 1
      BY <1>5, <1>i, <3>1, <3>3
    <3> QED
      BY <3>2, <3>3
  <2>2. ASSUME past["window"] # {0}, NEW n \in 1..Len(p), p[n].file = "identity", Len(p) = 1
        PROVE  p[n].value = disk["identity"]
    <3>1. disk["marker"] = "none" /\ disk["legacy"] = "none" /\ p[n] = LastChange
      BY <1>4, <2>2
    <3>2. ~Fenced
      BY <1>5, <3>1 DEF Fenced
    <3>3. PICK w \in past["window"] : w # 0
      BY <2>2 DEF IInv, FilesInv, Files
    <3>4. bound[w] = disk["identity"] /\ bound[w] # 0
      BY <1>5, <3>2, <3>3 DEF IInv, WindowInv, FilesInv, NamesInv
    <3> QED
      BY <1>6, <3>1, <3>4
  <2> QED
    BY <2>1, <2>2
<1>10. PlanInv'
  <2> SUFFICES ASSUME NEW n \in 1..Len(p)
               PROVE  /\ Lifts(p[n]) => Settled(n, "clients", {})' /\ Settled(n, "window", 0)'
                      /\ p[n].file = "identity" /\ p[n].value # disk["identity"] =>
                            Settled(n, "window", 0)'
                      /\ p[n].file = "marker" => p[n].value \in {"none", "clear-all"}
                      /\ p[n].file = "clients" => p[n].value = {}
                      /\ p[n].file = "window" => p[n].value = 0
    BY <1>1, <1>4, <1>5, <1>9 DEF PlanInv
  <2>1. Lifts(p[n]) => Settled(n, "clients", {})' /\ Settled(n, "window", 0)'
    BY <1>1, <1>a DEF Settled
  <2>2. ASSUME p[n].file = "identity", p[n].value # disk["identity"]
        PROVE  Settled(n, "window", 0)'
    <3>1. CASE Len(p) > 1
      BY <1>1, <1>a, <2>2, <3>1 DEF Settled
    <3>2. CASE Len(p) = 1
      BY <1>5, <1>9, <2>2, <3>2 DEF Settled
    <3> QED
      BY <1>4, <3>1, <3>2
  <2> QED
    BY <1>a, <2>1, <2>2
<1>11. PairInv' /\ ClientsInv' /\ CheckpointInv'
  BY <1>1 DEF PairInv, ClientsInv, CheckpointInv
<1>12. KeptInv'
  <2> SUFFICES ASSUME NEW c \in Clients, enrolledAt[c] # 0, NEW n \in 1..Len(p)
               PROVE  /\ p[n].file \notin Markers
                      /\ p[n].file = "identity" => p[n].value = enrolledAt[c]
                      /\ p[n].file = "clients" => c \in p[n].value
    BY <1>1, <1>2, <1>4, <1>5 DEF KeptInv, IInv
  <2>1. disk["marker"] = "none" /\ disk["legacy"] = "none" /\ disk["identity"] = enrolledAt[c]
    BY <1>5 DEF IInv, KeptInv
  <2>2. Len(p) = 1 /\ p[1] = LastChange
    BY <1>4, <2>1
  <2>3. n = 1
    BY <2>2
  <2> QED
    BY <1>6, <2>1, <2>2, <2>3 DEF Markers
<1>13. StartupInv'
  <2> SUFFICES ASSUME NEW f \in Markers
               PROVE  \E n \in 0..Len(p) :
                         /\ IF n = 0 THEN disk[f] = "none" ELSE p[n] = Change(f, "none")
                         /\ \A m \in (n + 1)..Len(p) : p[m].file # f
    BY <1>1, <1>5 DEF StartupInv
  <2>1. f = "marker" \/ f = "legacy"
    BY DEF Markers
  <2>2. CASE disk["marker"] = "identity-reset"
    <3>1. CASE f = "marker"
      <4>1. Len(p) = 6 /\ p[6] = Change(f, "none")
        BY <1>4, <2>2, <3>1
      <4>3. 6 \in 0..Len(p) /\ (6 + 1)..Len(p) = {}
        BY <4>1
      <4> QED
        BY <4>1, <4>3
    <3>2. CASE f = "legacy"
      <4>1. Len(p) = 6 /\ p[5] = Change(f, "none")
        BY <1>4, <2>2, <3>2
      <4>3. 5 \in 0..Len(p) /\ (5 + 1)..Len(p) = {6}
        BY <4>1
      <4>2. p[6].file # f
        BY <1>4, <2>2, <3>2 DEF Change
      <4> QED
        BY <4>1, <4>2, <4>3
    <3> QED
      BY <2>1, <3>1, <3>2
  <2>3. CASE disk["marker"] = "clear-all"
    <3>1. CASE f = "marker"
      <4>1. Len(p) = 5 /\ p[3] = Change(f, "none")
        BY <1>4, <2>3, <3>1
      <4>3. 3 \in 0..Len(p) /\ (3 + 1)..Len(p) = {4, 5}
        BY <4>1
      <4>2. p[4].file # f /\ p[5].file # f
        BY <1>4, <1>6, <2>3, <3>1 DEF Change
      <4> QED
        BY <4>1, <4>2, <4>3
    <3>2. CASE f = "legacy"
      <4>1. Len(p) = 5 /\ p[4] = Change(f, "none")
        BY <1>4, <2>3, <3>2
      <4>3. 4 \in 0..Len(p) /\ (4 + 1)..Len(p) = {5}
        BY <4>1
      <4>2. p[5].file # f
        BY <1>4, <1>6, <2>3, <3>2
      <4> QED
        BY <4>1, <4>2, <4>3
    <3> QED
      BY <2>1, <3>1, <3>2
  <2>4. CASE disk["marker"] = "none" /\ disk["legacy"] # "none"
    <3>1. CASE f = "marker"
      <4>1. Len(p) = 6 /\ p[4] = Change(f, "none")
        BY <1>4, <2>4, <3>1
      <4>3. 4 \in 0..Len(p) /\ (4 + 1)..Len(p) = {5, 6}
        BY <4>1
      <4>2. p[5].file # f /\ p[6].file # f
        BY <1>4, <1>6, <2>4, <3>1 DEF Change
      <4> QED
        BY <4>1, <4>2, <4>3
    <3>2. CASE f = "legacy"
      <4>1. Len(p) = 6 /\ p[5] = Change(f, "none")
        BY <1>4, <2>4, <3>2
      <4>3. 5 \in 0..Len(p) /\ (5 + 1)..Len(p) = {6}
        BY <4>1
      <4>2. p[6].file # f
        BY <1>4, <1>6, <2>4, <3>2
      <4> QED
        BY <4>1, <4>2, <4>3
    <3> QED
      BY <2>1, <3>1, <3>2
  <2>5. CASE disk["marker"] = "none" /\ disk["legacy"] = "none"
    <3>1. Len(p) = 1 /\ p[1].file # f
      BY <1>4, <1>6, <2>1, <2>5
    <3>2. 0 \in 0..Len(p) /\ (0 + 1)..Len(p) = {1}
      BY <3>1
    <3> QED
      BY <2>1, <2>5, <3>1, <3>2
  <2> QED
    BY <1>4, <2>2, <2>3, <2>4, <2>5
<1>14. RetiredInv'
  <2>1. /\ past["marker"] = {"identity-reset"} \/ past["identity"] \cap retired = {}
        /\ disk["marker"] # "identity-reset" => past["identity"] \cap retired = {}
        /\ retired \subseteq 1..identities
    BY <1>5 DEF IInv, RetiredInv, NamesInv
  <2>2. ASSUME NEW n \in 1..Len(p)
        PROVE  /\ p[n].file = "identity" => p[n].value \notin retired
               /\ p[n] = Change("marker", "clear-all") => past["identity"] \cap retired = {}
               /\ p[n] = Change("marker", "none") =>
                     \/ past["identity"] \cap retired = {}
                     \/ \E m \in 1..(n - 1) : p[m].file = "identity"
    <3>1. \A v : p[n] = Change("marker", v) => p[n].file = "marker" /\ p[n].value = v
      BY DEF Change
    <3>2. p[n].file = "identity" => p[n].value \notin retired
      BY <1>5, <1>6, <1>a, <2>1
    <3>3. p[n] = Change("marker", "clear-all") => past["identity"] \cap retired = {}
      BY <1>a, <2>1, <3>1
    <3>4. p[n] = Change("marker", "none") => \/ past["identity"] \cap retired = {}
                                             \/ n = 6 /\ p[4].file = "identity"
      BY <1>a, <2>1, <3>1
    <3> QED
      BY <3>2, <3>3, <3>4
  <2> QED
    BY <1>1, <1>2, <1>4, <1>5, <2>1, <2>2 DEF RetiredInv
<1>15. AskedInv'
  <2>1. "identity-reset" \in past["marker"] => resetAsked
    BY DEF IInv, AskedInv
  <2>2. ASSUME NEW n \in 1..Len(p)
        PROVE  /\ p[n] # Change("marker", "identity-reset")
               /\ p[n].file = "identity" /\ p[n].value # disk["identity"] =>
                     \/ "identity-reset" \in past["marker"]
                     \/ /\ disk["identity"] = 0
                        /\ \A m \in DOMAIN p : m # n => p[m].file # "identity"
    <3>1. p[n] # Change("marker", "identity-reset")
      BY <1>a DEF Change
    <3>2. ASSUME p[n].file = "identity", p[n].value # disk["identity"],
                 disk["marker"] # "identity-reset"
          PROVE  /\ disk["identity"] = 0
                 /\ \A m \in DOMAIN p : m # n => p[m].file # "identity"
      <4>1. n = Len(p) /\ p[n] = LastChange
        BY <1>a, <3>2
      <4>2. \A m \in 1..Len(p) : p[m].file = "identity" => m = Len(p)
        BY <1>a, <3>2
      <4>3. DOMAIN p = 1..Len(p)
        BY <1>4
      <4> QED
        BY <1>6, <3>2, <4>1, <4>2, <4>3
    <3> QED
      BY <1>5, <3>1, <3>2
  <2> QED
    BY <1>1, <1>2, <1>4, <1>5, <2>1, <2>2 DEF AskedInv
<1> QED
  BY <1>3, <1>7, <1>8, <1>10, <1>11, <1>12, <1>13, <1>14, <1>15 DEF IInv

\* A plan is not empty as long as it has a change.
LEMMA EmptyPlan == \A p : Len(p) = 1 \/ Len(p) = 2 => p # <<>>
<1> SUFFICES ASSUME NEW p, Len(p) = 1 \/ Len(p) = 2, p = <<>> PROVE FALSE
  OBVIOUS
<1>1. Len(<<>>) = 0
  OBVIOUS
<1> QED
  BY <1>1

\* A plan of one change, which writes the clients (PairedClients._save).
LEMMA SavePlan ==
    ASSUME FilesInv, NEW cs \in SUBSET Clients, NEW p, p = Save(cs)
    PROVE  /\ p \in Seq(Entry) /\ Len(p) = 1 /\ p[1] = Change("clients", cs)
           /\ DOMAIN p = {1} /\ p[1].file = "clients" /\ p[1].value = cs
  BY DEF Save, Change, Entry, Files, Values

\* An operation that only writes the clients takes the lock.
LEMMA SaveBegins ==
    ASSUME IInv, NEW o \in {"revoke", "m5"}, NEW who \in SUBSET Clients, NEW cs \in SUBSET Clients,
           Begins(o, who, Save(cs)), UNCHANGED <<serving, nameVars, closed, retired, resetAsked>>,
           revoked' \subseteq revoked, enrolledAt' \in [Clients -> Nat],
           \A c \in Clients : enrolledAt'[c] # 0 => enrolledAt[c] = enrolledAt'[c] /\ c \in cs,
           Fenced \/ cs \cap revoked' = {},
           o = "revoke" => cs \cap who = {},
           o = "m5" => /\ disk["marker"] = "none" /\ disk["legacy"] = "none"
                       /\ serving = disk["identity"] /\ serving # 0
                       /\ who \subseteq cs
    PROVE  IInv'
<1>p. PICK p : p = Save(cs)
  OBVIOUS
<1>1. /\ op = "none" /\ op' = o /\ subject' = who /\ plan' = p /\ syncing' = FALSE
      /\ disk' = disk /\ past' = past
  BY <1>p DEF Begins, fileVars
<1>2. UNCHANGED <<windows, bound, identities>>
  BY DEF nameVars
<1>3. FilesInv' /\ RevokedInv' /\ WindowInv' /\ Fenced' = Fenced
  BY <1>2, BeginKeeps DEF IInv, FilesInv
<1>4. /\ p \in Seq(Entry) /\ Len(p) = 1 /\ p[1] = Change("clients", cs)
      /\ DOMAIN p = {1} /\ p[1].file = "clients" /\ p[1].value = cs
  BY <1>p, SavePlan DEF IInv
<1>5. NamesInv'
  BY <1>1, <1>2 DEF IInv, NamesInv
<1>6. LockInv'
  <2>1. p \in Seq(Entry) /\ Len(p) = 1
    BY <1>4
  <2>2. p # <<>>
    BY <2>1, EmptyPlan
  <2> QED
    BY <1>1, <1>4, <2>2 DEF LockInv, Entry
<1>7. PlanInv'
  BY <1>1, <1>4 DEF PlanInv, Lifts, Markers
<1>8. PairInv' /\ CheckpointInv' /\ StartupInv'
  BY <1>1 DEF PairInv, CheckpointInv, StartupInv
<1>9. ClientsInv'
  BY <1>1, <1>3, <1>4 DEF ClientsInv
<1>10. KeptInv'
  BY <1>1, <1>4 DEF KeptInv, IInv, Markers
<1>11. \A f, v : p[1] = Change(f, v) => f = "clients"
  BY <1>4 DEF Change
<1>12. RetiredInv'
  BY <1>1, <1>4, <1>11 DEF RetiredInv, IInv
<1>13. AskedInv'
  BY <1>1, <1>4, <1>11 DEF AskedInv, IInv
<1> QED
  BY <1>3, <1>5, <1>6, <1>7, <1>8, <1>9, <1>10, <1>12, <1>13 DEF IInv

\* A revocation (_cmd_revoke).
LEMMA RevokeIInv == ASSUME IInv, NEW c \in Clients, RevokeBegins(c) PROVE IInv'
<1> DEFINE cs == disk["clients"] \ {c}
<1>1. disk["clients"] \in past["clients"] /\ disk["clients"] \in SUBSET Clients
  BY DEF IInv, FilesInv, Files
<1>2. /\ Begins("revoke", {c}, Save(cs)) /\ enrolledAt' = [enrolledAt EXCEPT ![c] = 0]
      /\ UNCHANGED <<serving, nameVars, revoked, closed, retired, resetAsked>>
  BY DEF RevokeBegins, liveVars
<1>3. Fenced \/ cs \cap revoked = {}
  BY <1>1 DEF IInv, RevokedInv
<1>4. enrolledAt \in [Clients -> Nat]
  BY DEF IInv, NamesInv
<1>5. ASSUME NEW d \in Clients, enrolledAt'[d] # 0
      PROVE  enrolledAt[d] = enrolledAt'[d] /\ d \in cs
  BY <1>1, <1>2, <1>4, <1>5 DEF IInv, KeptInv
<1>6. enrolledAt' \in [Clients -> Nat]
  BY <1>2, <1>4
<1> HIDE DEF cs
<1>7. cs \in SUBSET Clients /\ cs \cap {c} = {}
  BY <1>1 DEF cs
<1> QED
  BY <1>2, <1>3, <1>5, <1>6, <1>7, SaveBegins

\* Pair-setup M5 (mutate_if_current, add_locked).
LEMMA EnrollIInv ==
    ASSUME IInv, NEW c \in Clients, NEW w \in Windows, EnrollBegins(c, w) PROVE IInv'
<1> DEFINE cs == disk["clients"] \cup {c}
<1>1. /\ disk["clients"] \in past["clients"] /\ disk["clients"] \in SUBSET Clients
      /\ disk["identity"] \in past["identity"] /\ disk["window"] \in past["window"]
      /\ disk["marker"] \in past["marker"] /\ disk["legacy"] \in past["legacy"]
  BY DEF IInv, FilesInv, Files
<1>2. /\ Begins("m5", {c}, Save(cs)) /\ revoked' = revoked \ {c}
      /\ UNCHANGED <<serving, nameVars, enrolledAt, closed, retired, resetAsked>>
      /\ serving # 0 /\ w = ActiveForServer
  BY DEF EnrollBegins, liveVars
<1>3. w # 0
  BY DEF Windows
<1>4. /\ disk["marker"] = "none" /\ disk["legacy"] = "none"
      /\ w = disk["window"] /\ bound[w] = serving
  BY <1>2, <1>3 DEF ActiveForServer, Active, ResetInProgress
<1>5. ~Fenced
  BY <1>1, <1>4 DEF Fenced
<1>6. serving = disk["identity"]
  BY <1>1, <1>3, <1>4, <1>5 DEF IInv, WindowInv
<1>7. cs \cap revoked' = {}
  BY <1>1, <1>2, <1>5 DEF IInv, RevokedInv
<1>8. enrolledAt' \in [Clients -> Nat]
  BY <1>2 DEF IInv, NamesInv
<1>9. \A d \in Clients : enrolledAt'[d] # 0 => enrolledAt[d] = enrolledAt'[d] /\ d \in cs
  BY <1>1, <1>2 DEF IInv, KeptInv
<1>10. cs \in SUBSET Clients /\ {c} \subseteq cs
  BY <1>1
<1> HIDE DEF cs
<1>11. revoked' \subseteq revoked
  BY <1>2
<1> QED
  BY <1>2, <1>4, <1>6, <1>7, <1>8, <1>9, <1>10, <1>11, SaveBegins

\* A new window (_cmd_pair): it is committed after the identity it names.
LEMMA PairIInv == IInv /\ PairBegins => IInv'
<1> SUFFICES ASSUME IInv, PairBegins PROVE IInv'
  OBVIOUS
<1>p. PICK p : p = Commit("identity") \o <<Change("window", windows + 1)>>
  OBVIOUS
<1>1. /\ op = "none" /\ op' = "pair" /\ subject' = {} /\ plan' = p /\ syncing' = FALSE
      /\ disk' = disk /\ past' = past
  BY <1>p DEF PairBegins, Begins, fileVars
<1>2. /\ UNCHANGED <<serving, identities, revoked, enrolledAt, closed, retired, resetAsked>>
      /\ windows' = windows + 1 /\ windows < MaxWindows /\ disk["identity"] # 0
      /\ bound' = [bound EXCEPT ![windows + 1] = disk["identity"]]
      /\ disk["marker"] = "none"
  BY DEF PairBegins, liveVars, histVars, ResetInProgress
<1>3. /\ disk["identity"] \in past["identity"] /\ disk["marker"] \in past["marker"]
      /\ disk["identity"] \in 0..identities /\ identities \in Nat
      /\ windows \in Nat /\ past["window"] \subseteq 0..windows
      /\ MaxWindows \in Nat /\ windows + 1 \in Windows /\ windows + 1 \in Values
      /\ disk["identity"] \in Nat
  <2>1. MaxWindows \in Nat
    BY PairingAssumption
  <2> QED
    BY <1>2, <2>1 DEF IInv, FilesInv, Files, Windows, Values
<1>i. disk["identity"] \in Values
  BY <1>3 DEF Values
<1>4. /\ Change("identity", disk["identity"]) \in Entry /\ Change("window", windows + 1) \in Entry
  BY <1>3, <1>i DEF Change, Entry, Files
<1>5. /\ p \in Seq(Entry) /\ Len(p) = 2 /\ DOMAIN p = {1, 2}
      /\ p[1] = Change("identity", disk["identity"]) /\ p[2] = Change("window", windows + 1)
  <2>1. p = <<Change("identity", disk["identity"])>> \o <<Change("window", windows + 1)>>
    BY <1>p DEF Commit
  <2> QED
    BY <1>4, <2>1
<1>6. /\ p[1].file = "identity" /\ p[1].value = disk["identity"]
      /\ p[2].file = "window" /\ p[2].value = windows + 1
  BY <1>5 DEF Change
<1>b. /\ bound' \in [Windows -> Nat] /\ bound'[windows + 1] = disk["identity"]
      /\ \A w \in 0..windows : bound'[w] = bound[w]
      /\ \A w \in 1..windows + 1 : bound'[w] # 0
  <2>1. bound \in [Windows -> Nat] /\ \A w \in 1..windows : bound[w] # 0
    BY DEF IInv, NamesInv
  <2>2. bound' \in [Windows -> Nat] /\ bound'[windows + 1] = disk["identity"]
    BY <1>2, <1>3, <2>1
  <2>3. \A w \in 0..windows : bound'[w] = bound[w]
    BY <1>2, <1>3, <2>1
  <2>4. \A w \in 1..windows + 1 : w = windows + 1 \/ (w \in 1..windows /\ w \in 0..windows)
    <3>1. windows \in Nat
      BY <1>3
    <3> QED
      BY <3>1
  <2> QED
    BY <1>2, <2>1, <2>2, <2>3, <2>4
<1>7. FilesInv'
  BY <1>1, <1>2, <1>3 DEF IInv, FilesInv
<1>8. NamesInv'
  <2>1. closed \subseteq 1..windows + 1 /\ windows + 1 <= MaxWindows
    BY <1>2, <1>3 DEF IInv, NamesInv
  <2> QED
    BY <1>1, <1>2, <1>b, <2>1 DEF IInv, NamesInv
<1>9. LockInv'
  <2>1. p # <<>>
    BY <1>5, EmptyPlan
  <2> QED
    BY <1>1, <1>5, <2>1 DEF LockInv, Entry
<1>10. PlanInv'
  BY <1>1, <1>2, <1>3, <1>5, <1>6 DEF PlanInv, Lifts, Markers
<1>11. PairInv'
  <2>1. windows + 1 \notin closed
    BY <1>3 DEF IInv, NamesInv
  <2> QED
    BY <1>1, <1>2, <1>3, <1>5, <1>b, <2>1 DEF PairInv
<1>12. ClientsInv' /\ CheckpointInv' /\ StartupInv'
  BY <1>1 DEF ClientsInv, CheckpointInv, StartupInv
<1>13. Fenced' = Fenced
  BY <1>1 DEF Fenced
<1>14. RevokedInv'
  BY <1>1, <1>2, <1>13 DEF IInv, RevokedInv
<1>15. WindowInv'
  <2> SUFFICES ASSUME ~Fenced, NEW w \in past["window"], w # 0
               PROVE  w \notin closed /\ \A i \in past["identity"] : bound'[w] = i
    BY <1>1, <1>2, <1>13 DEF WindowInv
  <2> QED
    BY <1>3, <1>b DEF IInv, WindowInv
<1>16. KeptInv'
  BY <1>1, <1>2, <1>3, <1>5, <1>6 DEF IInv, KeptInv, Markers
<1>17. RetiredInv'
  <2>1. past["identity"] \cap retired = {} /\ disk["identity"] \notin retired
    BY <1>2, <1>3 DEF IInv, RetiredInv
  <2> QED
    BY <1>1, <1>2, <1>5, <1>6, <2>1 DEF RetiredInv
<1>18. AskedInv'
  <2>1. p[1] # Change("marker", "identity-reset") /\ p[2] # Change("marker", "identity-reset")
    BY <1>6 DEF Change
  <2> QED
    BY <1>1, <1>2, <1>5, <1>6, <2>1 DEF IInv, AskedInv
<1> QED
  BY <1>7, <1>8, <1>9, <1>10, <1>11, <1>12, <1>14, <1>15, <1>16, <1>17, <1>18 DEF IInv

-----------------------------------------------------------------------------
(* Steps that change no file.                                               *)

coreVars == <<disk, past, op, subject, plan, syncing, serving, windows, bound, identities, histVars>>

\* Which windows have expired, and which setups are under way, is no part of the invariant.
LEMMA CoreUnchanged == IInv /\ UNCHANGED coreVars => IInv'
<1> SUFFICES ASSUME IInv, UNCHANGED coreVars PROVE IInv'
  OBVIOUS
<1> USE DEF coreVars, histVars
<1>1. FilesInv' /\ NamesInv' /\ LockInv' /\ CheckpointInv'
  BY DEF IInv, FilesInv, NamesInv, LockInv, CheckpointInv
<1>2. PlanInv'
  BY DEF IInv, PlanInv, Settled
<1>3. PairInv' /\ KeptInv' /\ StartupInv'
  BY DEF IInv, PairInv, KeptInv, StartupInv
<1>4. Fenced' = Fenced
  BY DEF Fenced
<1>5. ClientsInv' /\ RevokedInv' /\ WindowInv'
  BY <1>4 DEF IInv, ClientsInv, RevokedInv, WindowInv
<1>6. RetiredInv' /\ AskedInv'
  BY DEF IInv, RetiredInv, AskedInv
<1> QED
  BY <1>1, <1>2, <1>3, <1>5, <1>6 DEF IInv

\* The lock is released (the end of a transaction, or its error path).
LEMMA Released ==
    Releases => /\ LockInv' /\ PlanInv' /\ PairInv' /\ ClientsInv' /\ CheckpointInv' /\ StartupInv'
                /\ plan' = <<>> /\ op' = "none" /\ subject' = {}
<1> SUFFICES ASSUME Releases
             PROVE  /\ LockInv' /\ PlanInv' /\ PairInv' /\ ClientsInv' /\ CheckpointInv'
                    /\ StartupInv' /\ plan' = <<>> /\ op' = "none" /\ subject' = {}
  OBVIOUS
<1>1. op' = "none" /\ subject' = {} /\ plan' = <<>> /\ syncing' = FALSE
  BY DEF Releases
<1>2. PairInv' /\ ClientsInv' /\ CheckpointInv' /\ StartupInv'
  BY <1>1 DEF PairInv, ClientsInv, CheckpointInv, StartupInv
<1>3. LockInv'
  BY <1>1 DEF LockInv
<1>4. PlanInv'
  BY <1>1 DEF PlanInv
<1> QED
  BY <1>1, <1>2, <1>3, <1>4

\* An operation that fails, or whose process ends, leaves the files as they are.
LEMMA GivesUp ==
    ASSUME IInv, Releases, UNCHANGED <<disk, past, windows, bound, identities, histVars>>,
           serving' \in Nat
    PROVE  IInv'
<1>1. /\ LockInv' /\ PlanInv' /\ PairInv' /\ ClientsInv' /\ CheckpointInv' /\ StartupInv'
      /\ plan' = <<>> /\ op' = "none" /\ subject' = {}
  BY Released
<1> USE DEF histVars
<1>2. FilesInv' /\ NamesInv'
  BY <1>1 DEF IInv, FilesInv, NamesInv
<1>3. Fenced' = Fenced
  BY DEF Fenced
<1>4. RevokedInv' /\ WindowInv'
  BY <1>3 DEF IInv, RevokedInv, WindowInv
<1>5. KeptInv' /\ RetiredInv' /\ AskedInv'
  BY <1>1 DEF IInv, KeptInv, RetiredInv, AskedInv
<1> QED
  BY <1>1, <1>2, <1>4, <1>5 DEF IInv

\* The write or the fsync raises (_PairingStateLock.release).
LEMMA FailsIInv == IInv /\ Fails => IInv'
<1> SUFFICES ASSUME IInv, Fails PROVE IInv'
  OBVIOUS
<1>1. serving' \in Nat
  BY DEF Fails, liveVars, IInv, NamesInv
<1> QED
  BY <1>1, GivesUp DEF Fails, fileVars, nameVars

\* The service ends, and an M5 of its with it.
LEMMA ServiceStopsIInv == IInv /\ ServiceStops => IInv'
<1> SUFFICES ASSUME IInv, ServiceStops PROVE IInv'
  OBVIOUS
<1>1. serving' = 0 /\ UNCHANGED <<disk, past, windows, bound, identities, histVars>>
  BY DEF ServiceStops, fileVars, nameVars
<1>2. CASE op = "m5"
  BY <1>1, <1>2, GivesUp DEF ServiceStops
<1>3. CASE op # "m5"
  <2>1. UNCHANGED <<op, subject, plan, syncing>>
    BY <1>3 DEF ServiceStops, lockVars
  <2> USE DEF histVars
  <2>2. FilesInv' /\ NamesInv' /\ LockInv' /\ CheckpointInv'
    BY <1>1, <2>1 DEF IInv, FilesInv, NamesInv, LockInv, CheckpointInv
  <2>3. PlanInv'
    BY <1>1, <2>1 DEF IInv, PlanInv, Settled
  <2>4. PairInv' /\ KeptInv' /\ StartupInv'
    BY <1>1, <2>1 DEF IInv, PairInv, KeptInv, StartupInv
  <2>5. Fenced' = Fenced
    BY <1>1 DEF Fenced
  <2>6. ClientsInv' /\ RevokedInv' /\ WindowInv'
    BY <1>1, <1>3, <2>1, <2>5 DEF IInv, ClientsInv, RevokedInv, WindowInv
  <2>7. RetiredInv' /\ AskedInv'
    BY <1>1, <2>1 DEF IInv, RetiredInv, AskedInv
  <2> QED
    BY <2>2, <2>3, <2>4, <2>6, <2>7 DEF IInv
<1> QED
  BY <1>2, <1>3

\* A power loss: whatever it picks, it picks from past.
LEMMA PowerLossIInv == IInv /\ PowerLoss => IInv'
<1> SUFFICES ASSUME IInv, PowerLoss PROVE IInv'
  OBVIOUS
<1>1. /\ LockInv' /\ PlanInv' /\ PairInv' /\ ClientsInv' /\ CheckpointInv' /\ StartupInv'
      /\ plan' = <<>> /\ op' = "none" /\ subject' = {}
  BY Released DEF PowerLoss
<1>2. /\ serving' = 0
      /\ UNCHANGED <<windows, bound, identities, revoked, enrolledAt, closed, retired, resetAsked>>
  BY DEF PowerLoss, nameVars, histVars
<1>3. /\ disk' \in [marker : past["marker"], legacy : past["legacy"], window : past["window"],
                    clients : past["clients"], identity : past["identity"]]
      /\ past' = [f \in Files |-> {disk'[f]}]
  BY DEF PowerLoss, Committed
<1>4. /\ disk' = [f \in Files |-> disk'[f]] /\ \A f \in Files : disk'[f] \in past[f]
  BY <1>3 DEF Files
<1>5. \A f \in Files : past'[f] = {disk'[f]} /\ past'[f] \subseteq past[f]
  BY <1>3, <1>4
<1> HIDE DEF Files
<1>6. FilesInv'
  <2>1. past \in [Files -> SUBSET Values]
    BY DEF IInv, FilesInv
  <2>2. disk' \in [Files -> Values] /\ past' \in [Files -> SUBSET Values]
    BY <1>3, <1>4, <2>1
  <2>3. \A f \in Files : disk'[f] \in past'[f]
    BY <1>5
  <2> QED
    BY <1>2, <1>5, <2>2, <2>3 DEF IInv, FilesInv, Files
<1>7. NamesInv'
  BY <1>1, <1>2 DEF IInv, NamesInv
<1>8. Fenced => Fenced'
  BY <1>5 DEF Fenced, Files
<1>9. RevokedInv' /\ WindowInv'
  BY <1>2, <1>5, <1>8 DEF IInv, RevokedInv, WindowInv, Files
<1>10. KeptInv'
  BY <1>1, <1>2, <1>5 DEF IInv, KeptInv, Files
<1>11. RetiredInv' /\ AskedInv'
  BY <1>1, <1>2, <1>5 DEF IInv, RetiredInv, AskedInv, Files
<1> QED
  BY <1>1, <1>6, <1>7, <1>9, <1>10, <1>11 DEF IInv

-----------------------------------------------------------------------------
(* A change becomes visible.                                                *)

\* One more choice for a power loss, of one file (os.replace, os.unlink).
LEMMA MakesVisibleIInv == IInv /\ MakesVisible => IInv'
<1> SUFFICES ASSUME IInv, MakesVisible PROVE IInv'
  OBVIOUS
<1>p. PICK x : x = Head(plan)
  OBVIOUS
<1>1. /\ op # "none" /\ plan # <<>>
      /\ disk' = [disk EXCEPT ![x.file] = x.value]
      /\ past' = [past EXCEPT ![x.file] = @ \cup {x.value}]
      /\ syncing' = TRUE
      /\ UNCHANGED <<op, subject, plan, serving, windows, bound, identities>>
      /\ UNCHANGED <<revoked, enrolledAt, closed, retired, resetAsked>>
  BY <1>p DEF MakesVisible, liveVars, nameVars, histVars
<1>2. /\ plan \in Seq(Entry) /\ x = plan[1] /\ x \in Entry /\ 1 \in DOMAIN plan
      /\ DOMAIN plan = 1..Len(plan) /\ Len(plan) \in Nat \ {0}
  <2>1. plan \in Seq(Entry)
    BY DEF IInv, LockInv, Entry
  <2>2. Len(plan) \in Nat \ {0} /\ DOMAIN plan = 1..Len(plan)
    BY <1>1, <2>1
  <2>3. x = plan[1]
    BY <1>1, <1>p, <2>1
  <2> QED
    BY <2>1, <2>2, <2>3
<1>3. /\ x.file \in Files /\ x.value \in Values
      /\ \A f, v : x.file = f /\ x.value = v <=> x = Change(f, v)
  BY <1>2 DEF Entry, Change
<1>4. /\ disk'[x.file] = x.value /\ past'[x.file] = past[x.file] \cup {x.value}
      /\ \A f \in Files : f # x.file => disk'[f] = disk[f] /\ past'[f] = past[f]
      /\ disk' \in [Files -> Values] /\ past' \in [Files -> SUBSET Values]
      /\ \A f \in Files : disk[f] \in past[f] /\ disk'[f] \in past'[f]
  BY <1>1, <1>3 DEF IInv, FilesInv
\* What the change is.
<1>5. /\ Lifts(x) => past["clients"] = {{}} /\ past["window"] = {0}
      /\ x.file = "identity" /\ x.value # disk["identity"] => past["window"] = {0}
      /\ x.file = "identity" => x.value \in 0..identities
      /\ x.file = "marker" => x.value \in {"none", "clear-all", "identity-reset"}
      /\ x.file = "clients" /\ x.value # {} => op \in {"revoke", "m5"}
      /\ x.file = "window" /\ x.value # 0 => op = "pair"
  <2>1. \A f, v : Settled(1, f, v) => past[f] = {v}
    BY DEF Settled
  <2> QED
    BY <1>2, <2>1 DEF IInv, PlanInv
<1>6. op \in {"revoke", "m5"} => /\ Len(plan) = 1 /\ x.file = "clients" /\ x.value \subseteq Clients
                                 /\ Fenced \/ x.value \cap revoked = {}
  BY <1>2 DEF IInv, ClientsInv
<1>7. ASSUME op = "pair"
      PROVE  /\ windows \in Windows /\ windows \notin closed /\ bound[windows] = disk["identity"]
             /\ x.file = "identity" => x.value = bound[windows]
             /\ x.file = "window" => /\ Len(plan) = 1 /\ x.value = windows
                                     /\ past["identity"] = {bound[windows]}
             /\ x.file = "identity" \/ x.file = "window"
  <2>1. /\ windows \in Windows /\ windows \notin closed /\ bound[windows] = disk["identity"]
        /\ plan[Len(plan)] = Change("window", windows)
        /\ \/ Len(plan) = 2 /\ plan[1] = Change("identity", bound[windows])
           \/ Len(plan) = 1 /\ past["identity"] = {bound[windows]}
    BY <1>7 DEF IInv, PairInv
  <2>2. CASE Len(plan) = 2
    BY <1>2, <2>1, <2>2 DEF Change
  <2>3. CASE Len(plan) = 1
    BY <1>2, <2>1, <2>3 DEF Change
  <2> QED
    BY <2>1, <2>2, <2>3
<1>8. /\ past'["identity"] = past["identity"] \/ x.file = "identity"
      /\ past'["window"] = past["window"] \/ x.file = "window"
      /\ past'["clients"] = past["clients"] \/ x.file = "clients"
      /\ past'["marker"] = past["marker"] \/ x.file = "marker"
      /\ past'["legacy"] = past["legacy"] \/ x.file = "legacy"
  BY <1>4 DEF Files
<1>9. FilesInv'
  <2>1. past'["window"] \subseteq 0..windows
    <3>1. x.file = "window" => x.value \in 0..windows
      BY <1>5, <1>7 DEF IInv, FilesInv
    <3> QED
      BY <1>4, <1>8, <3>1 DEF IInv, FilesInv
  <2>2. past'["identity"] \subseteq 0..identities
    BY <1>4, <1>5, <1>8 DEF IInv, FilesInv
  <2>3. past'["clients"] \subseteq SUBSET Clients
    BY <1>4, <1>5, <1>6, <1>8 DEF IInv, FilesInv
  <2>4. past'["marker"] \subseteq {"none", "clear-all", "identity-reset"}
    BY <1>4, <1>5, <1>8 DEF IInv, FilesInv
  <2> QED
    BY <1>1, <1>4, <2>1, <2>2, <2>3, <2>4 DEF IInv, FilesInv
<1>10. NamesInv'
  BY <1>1 DEF IInv, NamesInv
<1>11. LockInv'
  BY <1>1, <1>2, <1>4 DEF IInv, LockInv
<1>12. PlanInv'
  <2>1. ASSUME NEW n \in DOMAIN plan, Settled(n, "clients", {}), n = 1 => x.file # "clients"
        PROVE  Settled(n, "clients", {})'
    <3>1. ASSUME past["clients"] = {{}} PROVE past'["clients"] = {{}}
      <4>1. x.file = "clients" => n # 1 /\ x.value = {}
        BY <1>2, <1>5, <1>6, <2>1
      <4> QED
        BY <1>4, <1>8, <3>1, <4>1
    <3> QED
      BY <1>1, <2>1, <3>1 DEF Settled
  <2>2. ASSUME NEW n \in DOMAIN plan, Settled(n, "window", 0), n = 1 => x.file # "window"
        PROVE  Settled(n, "window", 0)'
    <3>1. ASSUME past["window"] = {0} PROVE past'["window"] = {0}
      <4>1. x.file = "window" => n # 1 /\ x.value = 0
        BY <1>2, <1>5, <1>7, <2>2
      <4> QED
        BY <1>4, <1>8, <3>1, <4>1
    <3> QED
      BY <1>1, <2>2, <3>1 DEF Settled
  <2>3. ASSUME NEW n \in DOMAIN plan, plan[n].file = "identity", plan[n].value # disk'["identity"]
        PROVE  Settled(n, "window", 0)'
    <3>1. CASE x.file = "identity" /\ x.value # disk["identity"]
      <4>1. past["window"] = {0} /\ past'["window"] = past["window"]
        BY <1>5, <1>8, <3>1
      <4> QED
        BY <4>1 DEF Settled
    <3>2. CASE x.file # "identity" \/ x.value = disk["identity"]
      <4>1. disk'["identity"] = disk["identity"]
        BY <1>4, <3>2 DEF Files
      <4>2. Settled(n, "window", 0)
        BY <2>3, <4>1 DEF IInv, PlanInv
      <4>3. n = 1 => x.file # "window"
        BY <1>2, <2>3
      <4> QED
        BY <2>2, <4>2, <4>3
    <3> QED
      BY <3>1, <3>2
  <2>4. ASSUME NEW n \in DOMAIN plan, Lifts(plan[n])
        PROVE  Settled(n, "clients", {})' /\ Settled(n, "window", 0)'
    <3>1. n = 1 => x.file # "window" /\ x.file # "clients"
      BY <1>2, <2>4 DEF Lifts, Markers
    <3>2. Settled(n, "clients", {}) /\ Settled(n, "window", 0)
      BY <2>4 DEF IInv, PlanInv
    <3> QED
      BY <2>1, <2>2, <3>1, <3>2
  <2> QED
    BY <1>1, <2>3, <2>4 DEF IInv, PlanInv
<1>13. PairInv'
  <2> SUFFICES ASSUME op = "pair"
               PROVE  /\ bound[windows] = disk'["identity"]
                      /\ Len(plan) = 1 => past'["identity"] = past["identity"]
    BY <1>1 DEF IInv, PairInv
  <2>1. bound[windows] = disk'["identity"]
    BY <1>4, <1>7 DEF Files
  <2>2. Len(plan) = 1 => x.file = "window"
    BY <1>2 DEF IInv, PairInv, Change
  <2> QED
    BY <1>8, <2>1, <2>2
<1>14. Fenced => Fenced' \/ Lifts(x)
  BY <1>4, <1>8 DEF Fenced, Lifts, Markers
<1>15. ClientsInv'
  <2> SUFFICES ASSUME op \in {"revoke", "m5"} PROVE ClientsInv'
    BY <1>1 DEF ClientsInv
  <2>1. x.file = "clients"
    BY <1>6
  <2>2. disk'["marker"] = disk["marker"] /\ disk'["legacy"] = disk["legacy"]
        /\ disk'["identity"] = disk["identity"]
    BY <1>4, <2>1 DEF Files
  <2>3. Fenced => Fenced'
    BY <1>14, <2>1 DEF Lifts, Markers
  <2> QED
    BY <1>1, <2>2, <2>3 DEF IInv, ClientsInv
<1>16. CheckpointInv'
  BY <1>1 DEF IInv, CheckpointInv
<1>17. RevokedInv'
  <2> SUFFICES ASSUME ~Fenced', NEW c \in revoked, NEW cs \in past'["clients"] PROVE c \notin cs
    BY <1>1 DEF RevokedInv
  <2>1. CASE Lifts(x)
    BY <1>5, <1>8, <2>1 DEF Lifts, Markers
  <2>2. CASE ~Lifts(x)
    <3>1. ~Fenced
      BY <1>14, <2>2
    <3>2. cs \in past["clients"] \/ (x.file = "clients" /\ cs = x.value)
      BY <1>4, <1>8
    <3> QED
      BY <1>5, <1>6, <3>1, <3>2 DEF IInv, RevokedInv
  <2> QED
    BY <2>1, <2>2
<1>18. WindowInv'
  <2> SUFFICES ASSUME ~Fenced', NEW w \in past'["window"], w # 0, NEW i \in past'["identity"]
               PROVE  w \notin closed /\ bound[w] = i
    <3>1. \E i \in past'["identity"] : TRUE
      BY <1>4 DEF Files
    <3> QED
      BY <1>1, <3>1 DEF WindowInv
  <2>1. CASE Lifts(x)
    BY <1>5, <1>8, <2>1 DEF Lifts, Markers
  <2>2. CASE ~Lifts(x) /\ x.file = "window"
    <3>1. ~Fenced /\ i \in past["identity"]
      BY <1>8, <1>14, <2>2
    <3>2. w \in past["window"] \/ w = x.value
      BY <1>4, <2>2
    <3> QED
      BY <1>5, <1>7, <2>2, <3>1, <3>2 DEF IInv, WindowInv
  <2>3. CASE ~Lifts(x) /\ x.file = "identity"
    <3>1. ~Fenced /\ w \in past["window"] /\ x.value = disk["identity"]
      BY <1>5, <1>8, <1>14, <2>3
    <3>2. i \in past["identity"]
      BY <1>4, <2>3, <3>1 DEF Files
    <3> QED
      BY <3>1, <3>2 DEF IInv, WindowInv
  <2>4. CASE ~Lifts(x) /\ x.file # "window" /\ x.file # "identity"
    BY <1>8, <1>14, <2>4 DEF IInv, WindowInv
  <2> QED
    BY <2>1, <2>2, <2>3, <2>4
<1>19. KeptInv'
  <2> SUFFICES ASSUME NEW c \in Clients, enrolledAt[c] # 0
               PROVE  /\ past'["marker"] = past["marker"] /\ past'["legacy"] = past["legacy"]
                      /\ past'["identity"] = {enrolledAt[c]}
                      /\ \A cs \in past'["clients"] : c \in cs
    BY <1>1 DEF IInv, KeptInv
  <2>1. /\ past["identity"] = {enrolledAt[c]} /\ \A cs \in past["clients"] : c \in cs
        /\ x.file \notin Markers
        /\ x.file = "identity" => x.value = enrolledAt[c]
        /\ x.file = "clients" => c \in x.value
    BY <1>2 DEF IInv, KeptInv
  <2> QED
    BY <1>4, <1>8, <2>1 DEF Markers
<1>20. StartupInv'
  <2> SUFFICES ASSUME op = "startup", NEW f \in Markers
               PROVE  \E n \in 0..Len(plan) :
                         /\ IF n = 0 THEN disk'[f] = "none" ELSE plan[n] = Change(f, "none")
                         /\ \A m \in (n + 1)..Len(plan) : plan[m].file = f => plan[m].value = "none"
    BY <1>1 DEF StartupInv
  <2>1. PICK n \in 0..Len(plan) :
           /\ IF n = 0 THEN disk[f] = "none" ELSE plan[n] = Change(f, "none")
           /\ \A m \in (n + 1)..Len(plan) : plan[m].file = f => plan[m].value = "none"
    BY DEF IInv, StartupInv
  <2>2. ASSUME n = 0 PROVE disk'[f] = "none"
    <3>1. 1 \in (n + 1)..Len(plan)
      BY <1>2, <2>2
    <3>2. x.file = f => x.value = "none"
      BY <1>2, <2>1, <3>1
    <3>3. f \in Files
      BY DEF Markers, Files
    <3> QED
      BY <1>4, <2>1, <2>2, <3>2, <3>3
  <2> QED
    BY <2>1, <2>2
<1>21. x.file = "identity" => x.value \notin retired
  BY <1>2 DEF IInv, RetiredInv
<1>22. past["identity"] \cap retired = {} => past'["identity"] \cap retired = {}
  BY <1>4, <1>8, <1>21
<1>23. RetiredInv'
  <2>1. past'["marker"] = {"identity-reset"} \/ past'["identity"] \cap retired = {}
    <3>1. CASE past["identity"] \cap retired = {}
      BY <1>22, <3>1
    <3>2. CASE past["identity"] \cap retired # {}
      <4>1. past["marker"] = {"identity-reset"}
        BY <3>2 DEF IInv, RetiredInv
      <4>2. x # Change("marker", "clear-all") /\ x # Change("marker", "none")
        BY <1>2, <3>2 DEF IInv, RetiredInv
      <4>3. x.file = "marker" => x.value = "identity-reset"
        BY <1>3, <1>5, <4>2
      <4> QED
        BY <1>4, <1>8, <4>1, <4>3
    <3> QED
      BY <3>1, <3>2
  <2>2. op = "reset" => \/ plan[1] = Change("marker", "identity-reset")
                        \/ past'["marker"] = {"identity-reset"}
    BY <1>4, <1>8, <1>2 DEF IInv, RetiredInv
  <2> QED
    BY <1>1, <1>22, <2>1, <2>2 DEF IInv, RetiredInv
<1>24. AskedInv'
  <2>1. "identity-reset" \in past'["marker"] => resetAsked
    <3>1. x = Change("marker", "identity-reset") => resetAsked
      BY <1>2 DEF IInv, AskedInv
    <3>2. "identity-reset" \in past["marker"] => resetAsked
      BY DEF IInv, AskedInv
    <3> QED
      BY <1>3, <1>4, <1>8, <3>1, <3>2
  <2>2. ASSUME NEW n \in DOMAIN plan, plan[n].file = "identity",
               plan[n].value # disk'["identity"], ~resetAsked
        PROVE  /\ disk'["identity"] = 0
               /\ \A m \in DOMAIN plan : m # n => plan[m].file # "identity"
    <3>1. CASE x.file = "identity"
      <4>1. n # 1 /\ plan[1].file = "identity"
        BY <1>2, <1>4, <2>2, <3>1
      <4>2. plan[1].value = disk["identity"]
        BY <1>2, <2>2, <4>1 DEF IInv, AskedInv
      <4>3. plan[n].value # disk["identity"]
        BY <1>2, <1>4, <2>2, <3>1, <4>2
      <4> QED
        BY <1>2, <2>2, <4>1, <4>3 DEF IInv, AskedInv
    <3>2. CASE x.file # "identity"
      <4>1. disk'["identity"] = disk["identity"]
        BY <1>4, <3>2 DEF Files
      <4> QED
        BY <2>2, <4>1 DEF IInv, AskedInv
    <3> QED
      BY <3>1, <3>2
  <2> QED
    BY <1>1, <2>1, <2>2 DEF IInv, AskedInv
<1> QED
  BY <1>9, <1>10, <1>11, <1>12, <1>13, <1>15, <1>16, <1>17, <1>18, <1>19, <1>20, <1>23, <1>24 DEF IInv

-----------------------------------------------------------------------------
(* A change is committed.                                                   *)

\* One choice is left of every file, and the plan is shorter by one (durable_fsync_parent).
LEMMA SyncsIInv == IInv /\ Syncs => IInv'
<1> SUFFICES ASSUME IInv, Syncs PROVE IInv'
  OBVIOUS
<1>p. PICK q, x : q = Tail(plan) /\ x = plan[1]
  OBVIOUS
<1>1. syncing /\ plan # <<>> /\ disk[x.file] = x.value
  BY <1>p DEF Syncs, IInv, LockInv
<1>2. /\ plan \in Seq(Entry) /\ x \in Entry /\ 1 \in DOMAIN plan
      /\ DOMAIN plan = 1..Len(plan) /\ Len(plan) \in Nat \ {0}
      /\ q \in Seq(Entry) /\ Len(q) = Len(plan) - 1 /\ DOMAIN q = 1..Len(q)
      /\ \A n \in DOMAIN q : n + 1 \in DOMAIN plan /\ q[n] = plan[n + 1]
      /\ q = <<>> <=> Len(plan) = 1
  <2>1. plan \in Seq(Entry)
    BY DEF IInv, LockInv, Entry
  <2>2. Len(plan) \in Nat \ {0} /\ DOMAIN plan = 1..Len(plan)
    BY <1>1, <2>1
  <2>3. /\ q \in Seq(Entry) /\ Len(q) = Len(plan) - 1
        /\ \A n \in 1..Len(q) : q[n] = plan[n + 1]
    BY <1>1, <1>p, <2>1
  <2>4. DOMAIN q = 1..Len(q) /\ (q = <<>> <=> Len(q) = 0)
    BY <2>3
  <2> QED
    BY <1>p, <2>1, <2>2, <2>3, <2>4
<1>3. /\ disk' = disk /\ past' = [f \in Files |-> {disk[f]}]
      /\ UNCHANGED <<windows, bound, identities>>
      /\ plan' = q /\ syncing' = FALSE
      /\ op' = IF q = <<>> THEN "none" ELSE op
      /\ q # <<>> => subject' = subject /\ serving' = serving
      /\ serving' = serving \/ serving' = disk["identity"]
  BY <1>p DEF Syncs, Releases, Serves, Committed, liveVars, nameVars
<1>4. /\ revoked' = IF op \in {"unpair", "reset"} THEN Clients
                    ELSE IF op = "revoke" THEN revoked \cup subject ELSE revoked
      /\ closed' = IF op \in {"unpair", "reset"} THEN 1..windows
                   ELSE IF op = "pair" /\ q = <<>> THEN 1..(windows - 1) ELSE closed
      /\ retired' = IF op = "reset" THEN 1..identities ELSE retired
      /\ enrolledAt' = IF op = "m5" THEN [c \in Clients |-> IF c \in subject THEN serving
                                                           ELSE enrolledAt[c]]
                       ELSE enrolledAt
      /\ resetAsked' = (resetAsked /\ ~(op = "startup" /\ q = <<>>))
  BY <1>p DEF Syncs, Promises
<1>5. /\ \A f \in Files : past'[f] = {disk[f]} /\ disk[f] \in past[f] /\ disk[f] \in Values
      /\ \A f, v : x = Change(f, v) => f = x.file /\ v = x.value
      /\ x.file \in Files
  BY <1>2, <1>3 DEF IInv, FilesInv, Entry, Change
<1>6. op # "none" /\ (q # <<>> => op' = op)
  BY <1>1, <1>3 DEF IInv, LockInv
\* A change that was settled stays so: it is later by one in a plan that is shorter by one.
<1>7. ASSUME NEW n \in DOMAIN q, NEW f \in Files, NEW v, Settled(n + 1, f, v)
      PROVE  Settled(n, f, v)'
  <2>1. CASE past[f] = {v}
    BY <1>5, <2>1 DEF Settled
  <2>2. CASE \E m \in 1..n : plan[m] = Change(f, v)
    <3>1. PICK m \in 1..n : plan[m] = Change(f, v)
      BY <2>2
    <3>2. CASE m = 1
      <4>1. disk[f] = v
        BY <1>1, <1>5, <1>p, <3>1, <3>2
      <4> QED
        BY <1>5, <4>1 DEF Settled
    <3>3. CASE m # 1
      <4>1. m - 1 \in DOMAIN q /\ q[m - 1] = plan[m] /\ m - 1 \in 1..(n - 1)
        BY <1>2, <3>3
      <4> QED
        BY <1>3, <3>1, <4>1 DEF Settled
    <3> QED
      BY <3>2, <3>3
  <2>3. n \in Nat
    BY <1>2
  <2>4. past[f] = {v} \/ \E m \in 1..n : plan[m] = Change(f, v)
    BY <1>7, <2>3 DEF Settled
  <2> QED
    BY <2>1, <2>2, <2>4
<1>8. FilesInv'
  BY <1>3, <1>5 DEF IInv, FilesInv, Files
<1>9. NamesInv'
  <2>1. revoked' \subseteq Clients
    BY <1>4 DEF IInv, NamesInv
  <2>2. closed' \subseteq 1..windows
    BY <1>4 DEF IInv, NamesInv, FilesInv
  <2>3. retired' \subseteq 1..identities
    BY <1>4 DEF IInv, NamesInv
  <2>4. enrolledAt' \in [Clients -> Nat]
    BY <1>4 DEF IInv, NamesInv
  <2>5. serving' \in Nat
    <3>1. disk["identity"] \in 0..identities
      BY <1>5 DEF IInv, FilesInv, Files
    <3> QED
      BY <1>3, <3>1 DEF IInv, NamesInv, FilesInv
  <2>6. subject' \subseteq Clients
    BY <1>p DEF Syncs, Releases, IInv, NamesInv
  <2> QED
    BY <1>3, <2>1, <2>2, <2>3, <2>4, <2>5, <2>6 DEF IInv, NamesInv
<1>10. LockInv'
  <2>1. op' \in {"none", "pair", "revoke", "unpair", "reset", "startup", "m5"}
    BY <1>3 DEF IInv, LockInv
  <2>2. op' = "none" <=> q = <<>>
    BY <1>3, <1>6
  <2> QED
    BY <1>2, <1>3, <2>1, <2>2 DEF LockInv, Entry
<1>11. PlanInv'
  <2> SUFFICES ASSUME NEW n \in DOMAIN q
               PROVE  /\ Lifts(q[n]) => Settled(n, "clients", {})' /\ Settled(n, "window", 0)'
                      /\ q[n].file = "identity" /\ q[n].value # disk["identity"] =>
                            Settled(n, "window", 0)'
                      /\ q[n].file = "identity" => q[n].value \in 0..identities
                      /\ q[n].file = "marker" =>
                            q[n].value \in {"none", "clear-all", "identity-reset"}
                      /\ q[n].file = "clients" /\ q[n].value # {} => op' \in {"revoke", "m5"}
                      /\ q[n].file = "window" /\ q[n].value # 0 => op' = "pair"
    BY <1>3 DEF PlanInv
  <2>1. n + 1 \in DOMAIN plan /\ q[n] = plan[n + 1] /\ op' = op
    BY <1>2, <1>6
  <2>2. Settled(n + 1, "clients", {}) => Settled(n, "clients", {})'
    BY <1>7 DEF Files
  <2>3. Settled(n + 1, "window", 0) => Settled(n, "window", 0)'
    BY <1>7 DEF Files
  <2> QED
    BY <2>1, <2>2, <2>3 DEF IInv, PlanInv
<1>12. PairInv'
  <2> SUFFICES ASSUME op = "pair", q # <<>> PROVE PairInv'
    BY <1>3 DEF PairInv
  <2>1. Len(plan) # 1 /\ Len(q) = Len(plan) - 1 /\ closed' = closed
    BY <1>2, <1>4
  <2>2. /\ windows \in Windows /\ windows \notin closed /\ bound[windows] = disk["identity"]
        /\ plan[Len(plan)] = Change("window", windows) /\ Len(plan) = 2
    BY <2>1 DEF IInv, PairInv
  <2>3. Len(q) = 1 /\ 1 \in DOMAIN q
    BY <1>2, <2>1, <2>2
  <2>4. q[Len(q)] = Change("window", windows)
    BY <1>2, <2>2, <2>3
  <2>5. past'["identity"] = {bound[windows]}
    BY <1>5, <2>2 DEF Files
  <2> QED
    BY <1>3, <2>1, <2>2, <2>3, <2>4, <2>5 DEF PairInv
<1>13. ClientsInv'
  <2>1. op \in {"revoke", "m5"} => q = <<>>
    BY <1>2 DEF IInv, ClientsInv
  <2> QED
    BY <1>3, <2>1 DEF ClientsInv
<1>14. CheckpointInv'
  <2>1. op' \in {"unpair", "reset"} => op \in {"unpair", "reset"}
    BY <1>3
  <2> QED
    BY <1>3, <1>4, <2>1 DEF CheckpointInv
<1>15. Fenced => Fenced'
  BY <1>5 DEF Fenced, Files
\* The checkpoint of an unpair or a reset is behind it: the marker, or a clearing before.
<1>16. op \in {"unpair", "reset"} => Fenced' \/ (revoked = Clients /\ closed = 1..windows)
  <2>1. ASSUME plan[1].file = "marker", plan[1].value # "none" PROVE Fenced'
    BY <1>1, <1>5, <1>p, <2>1 DEF Fenced
  <2> QED
    BY <2>1 DEF IInv, CheckpointInv
<1>17. RevokedInv'
  <2> SUFFICES ASSUME ~Fenced', NEW c \in revoked' PROVE c \notin disk["clients"]
    BY <1>5 DEF RevokedInv, Files
  <2>1. c \in revoked => c \notin disk["clients"]
    BY <1>5, <1>15 DEF IInv, RevokedInv, Files
  <2>2. CASE op \in {"unpair", "reset"}
    BY <1>4, <1>16, <2>1, <2>2
  <2>3. CASE op = "revoke"
    <3>1. x.file = "clients" /\ x.value \cap subject = {}
      BY <1>p, <2>3 DEF IInv, ClientsInv
    <3> QED
      BY <1>1, <1>4, <2>1, <2>3, <3>1
  <2>4. CASE op \notin {"unpair", "reset", "revoke"}
    BY <1>4, <2>1, <2>4
  <2> QED
    BY <2>2, <2>3, <2>4
<1>18. WindowInv'
  <2> SUFFICES ASSUME ~Fenced', disk["window"] # 0
               PROVE  disk["window"] \notin closed' /\ bound[disk["window"]] = disk["identity"]
    BY <1>3, <1>5 DEF WindowInv, Files
  <2>1. disk["window"] \notin closed /\ bound[disk["window"]] = disk["identity"]
    BY <1>5, <1>15 DEF IInv, WindowInv, Files
  <2>2. CASE op \in {"unpair", "reset"}
    BY <1>4, <1>16, <2>1, <2>2
  <2>3. CASE op = "pair" /\ q = <<>>
    <3>1. disk["window"] = windows
      BY <1>1, <1>2, <1>p, <2>3 DEF IInv, PairInv, Change
    <3>2. closed' = 1..(windows - 1) /\ windows \in Nat
      BY <1>4, <2>3 DEF IInv, FilesInv
    <3> QED
      BY <2>1, <3>1, <3>2
  <2>4. CASE op \notin {"unpair", "reset"} /\ ~(op = "pair" /\ q = <<>>)
    BY <1>4, <2>1, <2>4
  <2> QED
    BY <2>2, <2>3, <2>4
<1>19. KeptInv'
  <2> SUFFICES ASSUME NEW c \in Clients, enrolledAt'[c] # 0
               PROVE  /\ disk["marker"] = "none" /\ disk["legacy"] = "none"
                      /\ disk["identity"] = enrolledAt'[c] /\ c \in disk["clients"]
                      /\ \A n \in DOMAIN q :
                            /\ q[n].file \notin Markers
                            /\ q[n].file = "identity" => q[n].value = enrolledAt'[c]
                            /\ q[n].file = "clients" => c \in q[n].value
    BY <1>3, <1>5 DEF KeptInv, Files
  <2>1. CASE op = "m5" /\ c \in subject
    <3>1. enrolledAt'[c] = serving
      BY <1>4, <2>1
    <3>2. /\ disk["marker"] = "none" /\ disk["legacy"] = "none" /\ serving = disk["identity"]
          /\ x.file = "clients" /\ subject \subseteq x.value /\ Len(plan) = 1
      BY <1>p, <2>1 DEF IInv, ClientsInv
    <3>3. c \in disk["clients"]
      BY <1>1, <2>1, <3>2
    <3>4. DOMAIN q = {}
      BY <1>2, <3>2
    <3> QED
      BY <3>1, <3>2, <3>3, <3>4
  <2>2. CASE op # "m5" \/ c \notin subject
    <3>1. enrolledAt'[c] = enrolledAt[c]
      BY <1>4, <2>2
    <3>2. /\ disk["marker"] = "none" /\ disk["legacy"] = "none"
          /\ disk["identity"] = enrolledAt[c] /\ c \in disk["clients"]
      BY <1>5, <2>2, <3>1 DEF IInv, KeptInv, Files
    <3>3. \A n \in DOMAIN plan :
             /\ plan[n].file \notin Markers
             /\ plan[n].file = "identity" => plan[n].value = enrolledAt[c]
             /\ plan[n].file = "clients" => c \in plan[n].value
      BY <3>1 DEF IInv, KeptInv
    <3> QED
      BY <1>2, <3>1, <3>2, <3>3
  <2> QED
    BY <2>1, <2>2
<1>20. op = "startup" /\ q = <<>> => disk["marker"] = "none" /\ disk["legacy"] = "none"
  <2> SUFFICES ASSUME op = "startup", q = <<>>, NEW f \in Markers PROVE disk[f] = "none"
    BY DEF Markers
  <2>1. PICK n \in 0..Len(plan) :
           IF n = 0 THEN disk[f] = "none" ELSE plan[n] = Change(f, "none")
    BY DEF IInv, StartupInv
  <2>2. n = 0 \/ n = 1
    BY <1>2
  <2> QED
    BY <1>1, <1>5, <1>p, <2>1, <2>2
<1>21. StartupInv'
  <2> SUFFICES ASSUME op = "startup", NEW f \in Markers
               PROVE  \E n \in 0..Len(q) :
                         /\ IF n = 0 THEN disk[f] = "none" ELSE q[n] = Change(f, "none")
                         /\ \A m \in (n + 1)..Len(q) : q[m].file = f => q[m].value = "none"
    BY <1>3 DEF StartupInv
  <2>1. PICK n \in 0..Len(plan) :
           /\ IF n = 0 THEN disk[f] = "none" ELSE plan[n] = Change(f, "none")
           /\ \A m \in (n + 1)..Len(plan) : plan[m].file = f => plan[m].value = "none"
    BY DEF IInv, StartupInv
  <2>2. CASE n = 0
    <3>1. \A m \in 1..Len(q) : m + 1 \in (n + 1)..Len(plan) /\ q[m] = plan[m + 1]
      BY <1>2, <2>2
    <3>2. 0 \in 0..Len(q) /\ (0 + 1)..Len(q) = 1..Len(q)
      BY <1>2
    <3> QED
      BY <2>1, <2>2, <3>1, <3>2
  <2>3. CASE n = 1
    <3>1. \A m \in 1..Len(q) : m + 1 \in (n + 1)..Len(plan) /\ q[m] = plan[m + 1]
      BY <1>2, <2>3
    <3>2. 0 \in 0..Len(q) /\ (0 + 1)..Len(q) = 1..Len(q)
      BY <1>2
    <3>3. disk[f] = "none"
      BY <1>1, <1>5, <1>p, <2>1, <2>3
    <3> QED
      BY <2>1, <3>1, <3>2, <3>3
  <2>4. CASE n # 0 /\ n # 1
    <3>1. n - 1 \in 0..Len(q) /\ n - 1 # 0 /\ q[n - 1] = plan[n]
      BY <1>2, <2>4
    <3>2. \A m \in (n - 1 + 1)..Len(q) : m + 1 \in (n + 1)..Len(plan) /\ q[m] = plan[m + 1]
      BY <1>2, <2>4
    <3> QED
      BY <2>1, <2>4, <3>1, <3>2
  <2> QED
    BY <2>2, <2>3, <2>4
<1>22. /\ x.file = "identity" => x.value \notin retired
       /\ past["marker"] = {"identity-reset"} \/ past["identity"] \cap retired = {}
  BY <1>2, <1>p DEF IInv, RetiredInv
<1>23. ASSUME op = "reset" PROVE RetiredInv'
  <2>1. /\ disk["marker"] = "identity-reset" \/ x = Change("marker", "identity-reset")
        /\ \A n \in DOMAIN plan : plan[n].file = "marker" => n = 1
        /\ \A n \in DOMAIN plan : plan[n].file = "identity" => plan[n].value = 0
    BY <1>5, <1>23, <1>p DEF IInv, RetiredInv, Files
  <2>2. past'["marker"] = {"identity-reset"}
    BY <1>1, <1>5, <2>1 DEF Files
  <2>3. \A n \in DOMAIN q : q[n].file # "marker"
    BY <1>2, <2>1
  <2>4. \A n \in DOMAIN q : q[n].file = "identity" => q[n].value = 0
    BY <1>2, <2>1
  <2>5. \A n \in DOMAIN q : \A v : q[n] # Change("marker", v)
    BY <2>3 DEF Change
  <2>6. 0 \notin retired'
    BY <1>4, <1>23
  <2>7. plan' = q
    BY <1>3
  <2>8. ASSUME NEW n \in DOMAIN q
        PROVE  /\ q[n].file = "identity" => q[n].value \notin retired'
               /\ q[n] # Change("marker", "clear-all") /\ q[n] # Change("marker", "none")
               /\ q[n].file # "marker"
               /\ q[n].file = "identity" => q[n].value = 0
    BY <2>3, <2>4, <2>5, <2>6
  <2> QED
    BY <2>2, <2>7, <2>8 DEF RetiredInv
<1>24. ASSUME op # "reset" PROVE RetiredInv'
  <2>1. retired' = retired /\ op' # "reset"
    BY <1>3, <1>4, <1>24
  <2>2. past["identity"] \cap retired = {} => disk["identity"] \notin retired
    BY <1>5 DEF Files
  <2>3. past'["marker"] = {"identity-reset"} \/ disk["identity"] \notin retired
    <3>1. past["marker"] = {"identity-reset"} => past'["marker"] = {"identity-reset"}
      BY <1>5 DEF Files
    <3> QED
      BY <1>22, <2>2, <3>1
  <2>4. ASSUME NEW n \in DOMAIN q
        PROVE  /\ q[n].file = "identity" => q[n].value \notin retired
               /\ q[n] = Change("marker", "clear-all") => disk["identity"] \notin retired
               /\ q[n] = Change("marker", "none") =>
                     \/ disk["identity"] \notin retired
                     \/ \E m \in 1..(n - 1) : q[m].file = "identity"
    <3>1. n + 1 \in DOMAIN plan /\ q[n] = plan[n + 1] /\ n \in Nat /\ n + 1 - 1 = n
      BY <1>2
    <3>2. /\ q[n].file = "identity" => q[n].value \notin retired
          /\ q[n] = Change("marker", "clear-all") => disk["identity"] \notin retired
      BY <2>2, <3>1 DEF IInv, RetiredInv
    <3>3. ASSUME q[n] = Change("marker", "none"), disk["identity"] \in retired
          PROVE  \E m \in 1..(n - 1) : q[m].file = "identity"
      <4>0. \A k \in DOMAIN plan : plan[k] = Change("marker", "none") =>
               \/ past["identity"] \cap retired = {}
               \/ \E m \in 1..(k - 1) : plan[m].file = "identity"
        BY DEF IInv, RetiredInv
      <4>4. \E m \in 1..(n + 1 - 1) : plan[m].file = "identity"
        <5>1. plan[n + 1] = Change("marker", "none") /\ past["identity"] \cap retired # {}
          BY <2>2, <3>1, <3>3
        <5> QED
          BY <3>1, <4>0, <5>1
      <4>1. PICK m \in 1..n : plan[m].file = "identity"
        BY <3>1, <4>4
      <4>2. m # 1
        BY <1>1, <1>22, <1>p, <3>3, <4>1
      <4>3. m - 1 \in DOMAIN q /\ q[m - 1] = plan[m] /\ m - 1 \in 1..(n - 1)
        BY <1>2, <4>2
      <4> QED
        BY <4>1, <4>3
    <3> QED
      BY <3>2, <3>3
  <2>5. disk["identity"] \notin retired => past'["identity"] \cap retired = {}
    BY <1>5 DEF Files
  <2>6. plan' = q
    BY <1>3
  <2> QED
    <3>1. past'["marker"] = {"identity-reset"} \/ past'["identity"] \cap retired' = {}
      BY <2>1, <2>3, <2>5
    <3>2. ASSUME NEW n \in DOMAIN q
          PROVE  /\ q[n].file = "identity" => q[n].value \notin retired'
                 /\ q[n] = Change("marker", "clear-all") => past'["identity"] \cap retired' = {}
                 /\ q[n] = Change("marker", "none") =>
                       \/ past'["identity"] \cap retired' = {}
                       \/ \E m \in 1..(n - 1) : q[m].file = "identity"
      BY <2>1, <2>4, <2>5
    <3> QED
      BY <2>1, <2>6, <3>1, <3>2 DEF RetiredInv
<1>25. AskedInv'
  <2>1. disk["marker"] = "identity-reset" => resetAsked
    BY <1>5 DEF IInv, AskedInv, Files
  <2>2. disk["marker"] = "identity-reset" => resetAsked'
    BY <1>4, <1>20, <2>1
  <2>3. "identity-reset" \in past'["marker"] => resetAsked'
    BY <1>5, <2>2 DEF Files
  <2>4. q # <<>> /\ resetAsked => resetAsked'
    BY <1>4
  <2>5. ASSUME NEW n \in DOMAIN q
        PROVE  /\ q[n] = Change("marker", "identity-reset") => resetAsked
               /\ q[n].file = "identity" /\ q[n].value # disk["identity"] =>
                     \/ resetAsked
                     \/ /\ disk["identity"] = 0
                        /\ \A m \in DOMAIN q : m # n => q[m].file # "identity"
    <3>1. n + 1 \in DOMAIN plan /\ q[n] = plan[n + 1]
      BY <1>2
    <3>2. q[n] = Change("marker", "identity-reset") => resetAsked
      BY <3>1 DEF IInv, AskedInv
    <3>3. ASSUME q[n].file = "identity", q[n].value # disk["identity"], ~resetAsked
          PROVE  /\ disk["identity"] = 0
                 /\ \A m \in DOMAIN q : m # n => q[m].file # "identity"
      <4>1. /\ disk["identity"] = 0
            /\ \A m \in DOMAIN plan : m # n + 1 => plan[m].file # "identity"
        BY <3>1, <3>3 DEF IInv, AskedInv
      <4>2. \A m \in DOMAIN q : m # n => m + 1 \in DOMAIN plan /\ q[m] = plan[m + 1] /\ m + 1 # n + 1
        BY <1>2
      <4> QED
        BY <4>1, <4>2
    <3> QED
      BY <3>2, <3>3
  <2>6. op' = "reset" => resetAsked
    BY <1>3 DEF IInv, AskedInv
  <2>7. \A n \in DOMAIN q : q # <<>>
    BY <1>2
  <2>8. op' = "reset" => resetAsked'
    BY <1>3, <2>4, <2>6
  <2> QED
    BY <1>3, <2>3, <2>4, <2>5, <2>7, <2>8 DEF AskedInv
<1> QED
  BY <1>8, <1>9, <1>10, <1>11, <1>12, <1>13, <1>14, <1>17, <1>18, <1>19, <1>21, <1>23, <1>24, <1>25
     DEF IInv

-----------------------------------------------------------------------------
(* The theorems.                                                            *)

\* A new directory, and one in which an older version's unpair was interrupted.
LEMMA InitIInv == Init => IInv
<1> SUFFICES ASSUME Init PROVE IInv
  OBVIOUS
<1>1. /\ past = [f \in Files |-> {disk[f]}]
      /\ op = "none" /\ subject = {} /\ plan = <<>> /\ syncing = FALSE
      /\ serving = 0 /\ windows = 0 /\ bound = [w \in Windows |-> 0]
      /\ identities = disk["identity"] /\ revoked = Clients
      /\ enrolledAt = [c \in Clients |-> 0] /\ closed = {} /\ retired = {}
  BY DEF Init, Committed
<1>2. PICK l \in {"none", "clear-all"}, cs \in SUBSET Clients, i \in {0, 1} :
         /\ disk = [marker |-> "none", legacy |-> l, window |-> 0, clients |-> cs, identity |-> i]
         /\ l = "none" => cs = {}
  <2>1. CASE disk = [marker |-> "none", legacy |-> "none", window |-> 0,
                     clients |-> {}, identity |-> 0]
    BY <2>1
  <2>2. ASSUME NEW cs \in SUBSET Clients,
               disk = [marker |-> "none", legacy |-> "clear-all", window |-> 0,
                       clients |-> cs, identity |-> 1]
        PROVE  \E l \in {"none", "clear-all"}, ds \in SUBSET Clients, i \in {0, 1} :
                  /\ disk = [marker |-> "none", legacy |-> l, window |-> 0,
                             clients |-> ds, identity |-> i]
                  /\ l = "none" => ds = {}
    BY <2>2
  <2> QED
    BY <2>1, <2>2 DEF Init
<1>3. /\ disk["marker"] = "none" /\ disk["legacy"] = l /\ disk["window"] = 0
      /\ disk["clients"] = cs /\ disk["identity"] = i
  BY <1>2
<1>4. /\ past["marker"] = {"none"} /\ past["legacy"] = {l} /\ past["window"] = {0}
      /\ past["clients"] = {cs} /\ past["identity"] = {i}
  BY <1>1, <1>3 DEF Files
<1>5. FilesInv
  <2>1. \A f \in Files : disk[f] \in Values
    BY <1>2, <1>3 DEF Files, Values
  <2>2. disk \in [Files -> Values]
    <3>1. disk = [f \in Files |-> disk[f]]
      BY <1>2 DEF Files
    <3> HIDE DEF Files
    <3> QED
      BY <2>1, <3>1
  <2>3. past \in [Files -> SUBSET Values] /\ \A f \in Files : disk[f] \in past[f]
    BY <1>1, <2>1
  <2> QED
    BY <1>1, <1>2, <1>3, <1>4, <2>2, <2>3 DEF FilesInv
<1>6. NamesInv
  BY <1>1, PairingAssumption DEF NamesInv, Windows
<1>7. LockInv
  BY <1>1 DEF LockInv
<1>8. PlanInv
  BY <1>1 DEF PlanInv
<1>9. PairInv /\ ClientsInv /\ CheckpointInv /\ StartupInv
  BY <1>1 DEF PairInv, ClientsInv, CheckpointInv, StartupInv
<1>10. RevokedInv /\ WindowInv
  BY <1>2, <1>4 DEF RevokedInv, WindowInv, Fenced
<1>11. KeptInv /\ RetiredInv /\ AskedInv
  <2>1. KeptInv
    BY <1>1 DEF KeptInv
  <2>2. DOMAIN plan = {}
    BY <1>1
  <2>3. past["identity"] \cap retired = {} /\ "identity-reset" \notin past["marker"]
    BY <1>1, <1>4
  <2>4. RetiredInv
    BY <1>1, <2>2, <2>3 DEF RetiredInv
  <2>5. AskedInv
    BY <1>1, <2>2, <2>3 DEF AskedInv
  <2> QED
    BY <2>1, <2>4, <2>5
<1> QED
  BY <1>5, <1>6, <1>7, <1>8, <1>9, <1>10, <1>11 DEF IInv

\* Every step keeps the invariant.
LEMMA NextIInv == IInv /\ [Next]_vars => IInv'
<1> SUFFICES ASSUME IInv, [Next]_vars PROVE IInv'
  OBVIOUS
<1>1. CASE PairBegins \/ UnpairBegins \/ ResetBegins \/ StartupBegins
  BY <1>1, PairIInv, UnpairIInv, ResetIInv, StartupIInv
<1>2. CASE SetupBegins
  BY <1>2, CoreUnchanged
     DEF SetupBegins, coreVars, fileVars, lockVars, nameVars, histVars
<1>3. CASE \E c \in Clients : RevokeBegins(c) \/ \E w \in Windows : EnrollBegins(c, w)
  BY <1>3, RevokeIInv, EnrollIInv
<1>4. CASE MakesVisible \/ Syncs \/ Fails \/ ServiceStops \/ PowerLoss
  BY <1>4, MakesVisibleIInv, SyncsIInv, FailsIInv, ServiceStopsIInv, PowerLossIInv
<1>5. CASE \E w \in Windows : Expires(w)
  BY <1>5, CoreUnchanged DEF Expires, coreVars, fileVars, lockVars, liveVars, histVars
<1>6. CASE UNCHANGED vars
  BY <1>6, CoreUnchanged
     DEF vars, coreVars, fileVars, lockVars, liveVars, nameVars, histVars
<1> QED
  BY <1>1, <1>2, <1>3, <1>4, <1>5, <1>6 DEF Next

\* What a power loss may leave behind never undoes what an operation has promised, at any point of
\* any plan (_PairingStateLock and the order in which its holders write and commit).
THEOREM PairingStateInvariant == Spec => []IInv
<1> QED
  BY InitIInv, NextIInv, PTL DEF Spec

\* No crash and no order of operations brings a revoked client back (PairedClients.authorizes).
THEOREM RevokedClientsStayRevoked == Spec => []RevokedStaysRevoked
<1>1. IInv => RevokedStaysRevoked
  <2> SUFFICES ASSUME IInv, NEW c \in revoked PROVE ~Authorizes(c)
    BY DEF RevokedStaysRevoked
  <2>1. /\ disk["marker"] \in past["marker"] /\ disk["legacy"] \in past["legacy"]
        /\ disk["clients"] \in past["clients"]
    BY DEF IInv, FilesInv, Files
  <2> QED
    BY <2>1 DEF Authorizes, ResetInProgress, IInv, RevokedInv, Fenced
<1> QED
  BY <1>1, PairingStateInvariant, PTL

\* A confirmed enrollment survives every power loss, with its identity (PairedClients.add_locked).
THEOREM EnrollmentsAreKept == Spec => []EnrollmentKept
<1>1. IInv => EnrollmentKept
  BY DEF IInv, KeptInv, EnrollmentKept
<1> QED
  BY <1>1, PairingStateInvariant, PTL

\* A window that was replaced or closed enrolls nobody (mutate_if_current).
THEOREM ClosedWindowsStayClosed == Spec => ClosedStaysClosed
<1> DEFINE A == op # "m5" /\ op' = "m5" => disk["window"] \notin closed
<1>1. IInv /\ [Next]_vars => A
  <2> SUFFICES ASSUME IInv, [Next]_vars, op # "m5", op' = "m5"
               PROVE  disk["window"] \notin closed
    OBVIOUS
  <2>1. PICK c \in Clients, w \in Windows : EnrollBegins(c, w)
    <3>1. ~PairBegins /\ ~UnpairBegins /\ ~ResetBegins /\ ~StartupBegins /\ ~SetupBegins
      BY DEF PairBegins, UnpairBegins, ResetBegins, StartupBegins, SetupBegins, Begins, lockVars
    <3>2. ~MakesVisible /\ ~Syncs /\ ~Fails /\ ~ServiceStops /\ ~PowerLoss
      BY DEF MakesVisible, Syncs, Fails, ServiceStops, PowerLoss, Releases, lockVars
    <3>3. /\ ~UNCHANGED vars /\ \A w \in Windows : ~Expires(w)
          /\ \A c \in Clients : ~RevokeBegins(c)
      BY DEF vars, Expires, RevokeBegins, Begins, lockVars
    <3> QED
      BY <3>1, <3>2, <3>3 DEF Next
  <2>2. w = ActiveForServer /\ w # 0
    BY <2>1 DEF EnrollBegins, Windows
  <2>3. w = disk["window"] /\ disk["marker"] = "none" /\ disk["legacy"] = "none"
    BY <2>2 DEF ActiveForServer, Active, ResetInProgress
  <2>4. /\ disk["marker"] \in past["marker"] /\ disk["legacy"] \in past["legacy"]
        /\ disk["window"] \in past["window"]
    BY DEF IInv, FilesInv, Files
  <2> QED
    BY <2>2, <2>3, <2>4 DEF IInv, WindowInv, Fenced
<1>2. IInv /\ [Next]_vars => [A]_vars
  BY <1>1
<1> HIDE DEF A
<1>3. Spec => [][A]_vars
  BY <1>2, PairingStateInvariant, PTL DEF Spec
<1> QED
  BY <1>3 DEF ClosedStaysClosed, A

\* A service that starts has finished the recovery that its markers asked for
\* (load_or_create_server_identity_locked).
THEOREM ResetsAreNotDowngraded == Spec => ResetNotDowngraded
<1> DEFINE A == serving = 0 /\ serving' # 0 =>
                   /\ serving' \notin retired
                   /\ past'["marker"] = {"none"} /\ past'["legacy"] = {"none"}
<1>1. IInv /\ [Next]_vars => A
  <2> SUFFICES ASSUME IInv, [Next]_vars, serving = 0, serving' # 0
               PROVE  /\ serving' \notin retired
                      /\ past'["marker"] = {"none"} /\ past'["legacy"] = {"none"}
    OBVIOUS
  <2>1. Syncs
    <3>1. /\ ~PairBegins /\ ~UnpairBegins /\ ~ResetBegins /\ ~StartupBegins /\ ~SetupBegins
          /\ \A c \in Clients : ~RevokeBegins(c) /\ \A w \in Windows : ~EnrollBegins(c, w)
      BY DEF PairBegins, UnpairBegins, ResetBegins, StartupBegins, SetupBegins, RevokeBegins,
             EnrollBegins, liveVars
    <3>2. /\ ~MakesVisible /\ ~Fails /\ ~ServiceStops /\ ~PowerLoss
          /\ ~UNCHANGED vars /\ \A w \in Windows : ~Expires(w)
      BY DEF MakesVisible, Fails, ServiceStops, PowerLoss, Expires, vars, liveVars
    <3> QED
      BY <3>1, <3>2 DEF Next
  <2>2. op = "startup" /\ Tail(plan) = <<>> /\ serving' = disk["identity"]
    BY <2>1 DEF Syncs, Serves, liveVars
  <2>3. disk["marker"] = "none" /\ disk["legacy"] = "none"
    <3>1. plan \in Seq(Entry) /\ plan # <<>> /\ disk[plan[1].file] = plan[1].value
      BY <2>1 DEF Syncs, IInv, LockInv, Entry
    <3>2. Len(plan) = 1
      <4>1. Len(Tail(plan)) = Len(plan) - 1 /\ Len(plan) \in Nat
        BY <3>1
      <4>2. Len(Tail(plan)) = 0
        <5>1. \A p : p = <<>> => Len(p) = 0
          OBVIOUS
        <5> QED
          BY <2>2, <5>1
      <4> QED
        BY <4>1, <4>2
    <3>3. ASSUME NEW f \in Markers PROVE disk[f] = "none"
      <4>1. PICK n \in 0..Len(plan) :
               IF n = 0 THEN disk[f] = "none" ELSE plan[n] = Change(f, "none")
        BY <2>2 DEF IInv, StartupInv
      <4>2. n = 0 \/ n = 1
        BY <3>2
      <4> QED
        BY <3>1, <4>1, <4>2 DEF Change
    <3> QED
      BY <3>3 DEF Markers
  <2>4. past' = [f \in Files |-> {disk[f]}] /\ retired' = retired
    BY <2>1, <2>2 DEF Syncs, Committed, Promises
  <2>5. past'["marker"] = {"none"} /\ past'["legacy"] = {"none"}
        /\ past'["identity"] = {disk["identity"]}
    BY <2>3, <2>4 DEF Files
  <2>6. RetiredInv'
    BY NextIInv DEF IInv
  <2> QED
    BY <2>2, <2>4, <2>5, <2>6 DEF RetiredInv
<1>2. IInv /\ [Next]_vars => [A]_vars
  BY <1>1
<1> HIDE DEF A
<1>3. Spec => [][A]_vars
  BY <1>2, PairingStateInvariant, PTL DEF Spec
<1> QED
  BY <1>3 DEF ResetNotDowngraded, A

\* Only a reset gives up an identity (recover_pairing_state_reset keeps it).
THEOREM IdentitiesAreKept == Spec => IdentityKept
<1> DEFINE A == past["identity"] = {disk["identity"]} /\ disk["identity"] # 0
                   /\ disk'["identity"] # disk["identity"] => resetAsked
<1>1. IInv /\ [Next]_vars => A
  <2> SUFFICES ASSUME IInv, [Next]_vars, past["identity"] = {disk["identity"]},
                      disk["identity"] # 0, disk'["identity"] # disk["identity"]
               PROVE  resetAsked
    OBVIOUS
  <2>1. MakesVisible
    <3>1. /\ ~PairBegins /\ ~UnpairBegins /\ ~ResetBegins /\ ~StartupBegins /\ ~SetupBegins
          /\ \A c \in Clients : ~RevokeBegins(c) /\ \A w \in Windows : ~EnrollBegins(c, w)
      BY DEF PairBegins, UnpairBegins, ResetBegins, StartupBegins, SetupBegins, RevokeBegins,
             EnrollBegins, Begins, fileVars
    <3>2. /\ ~Syncs /\ ~Fails /\ ~ServiceStops
          /\ ~UNCHANGED vars /\ \A w \in Windows : ~Expires(w)
      BY DEF Syncs, Fails, ServiceStops, Expires, vars, fileVars
    <3>3. ~PowerLoss
      <4>1. PowerLoss => disk'["identity"] \in past["identity"]
        BY DEF PowerLoss
      <4> QED
        BY <4>1
    <3> QED
      BY <3>1, <3>2, <3>3 DEF Next
  <2>2. /\ plan \in Seq(Entry) /\ plan # <<>>
        /\ disk' = [disk EXCEPT ![Head(plan).file] = Head(plan).value]
    BY <2>1 DEF MakesVisible, IInv, LockInv, Entry
  <2>3. /\ Head(plan) = plan[1] /\ 1 \in DOMAIN plan /\ DOMAIN disk = Files
    BY <2>2 DEF IInv, FilesInv
  <2>4. plan[1].file = "identity" /\ plan[1].value = disk'["identity"]
    BY <2>2, <2>3 DEF Files
  <2> QED
    BY <2>3, <2>4 DEF IInv, AskedInv
<1>2. IInv /\ [Next]_vars => [A]_vars
  BY <1>1
<1> HIDE DEF A
<1>3. Spec => [][A]_vars
  BY <1>2, PairingStateInvariant, PTL DEF Spec
<1> QED
  BY <1>3 DEF IdentityKept, A

-----------------------------------------------------------------------------
(* The slots, and types.                                                    *)

Few(cs) == IsFiniteSet(cs) /\ Cardinality(cs) <= MaxClients

\* Neither a power loss nor a change to come makes more clients than there are slots.
SlotInv ==
    /\ \A cs \in past["clients"] : Few(cs)
    /\ \A n \in DOMAIN plan : plan[n].file = "clients" => Few(plan[n].value)

\* No client is few, and whoever takes the lock for anything but clients writes none.
LEMMA NoClientIsFew == Few({})
  BY PairingAssumption, FS_EmptySet DEF Few

\* With finitely many clients around, a directory begins with no more than it has slots for.
LEMMA InitSlots == IsFiniteSet(Clients) /\ Init => SlotInv
<1> SUFFICES ASSUME IsFiniteSet(Clients), Init PROVE SlotInv
  OBVIOUS
<1>1. past["clients"] = {disk["clients"]} /\ DOMAIN plan = {}
  BY DEF Init, Committed, Files
<1>2. CASE disk["clients"] = {}
  BY <1>1, <1>2, NoClientIsFew DEF SlotInv
<1>3. CASE disk["clients"] # {}
  <2>1. disk["clients"] \in SUBSET Clients /\ Cardinality(disk["clients"]) <= MaxClients
    BY <1>3 DEF Init
  <2>2. IsFiniteSet(disk["clients"])
    BY <2>1, FS_Subset
  <2> QED
    BY <1>1, <2>1, <2>2 DEF SlotInv, Few
<1> QED
  BY <1>2, <1>3

\* Operations that take the lock and enroll nobody (_cmd_pair, _cmd_unpair, _cmd_revoke, a start).
LEMMA BeginSlots ==
    ASSUME IInv, IInv', SlotInv,
           \/ PairBegins \/ UnpairBegins \/ ResetBegins \/ StartupBegins
           \/ \E c \in Clients : RevokeBegins(c)
    PROVE  SlotInv'
<1>1. past' = past
  BY DEF PairBegins, UnpairBegins, ResetBegins, StartupBegins, RevokeBegins, Begins, fileVars
<1>2. ASSUME NEW c \in Clients, RevokeBegins(c)
      PROVE  \A n \in DOMAIN plan' : plan'[n].file = "clients" => Few(plan'[n].value)
  <2> DEFINE cs == disk["clients"] \ {c}
  <2>1. disk["clients"] \in past["clients"] /\ disk["clients"] \in SUBSET Clients
    BY DEF IInv, FilesInv, Files
  <2>2. IsFiniteSet(disk["clients"]) /\ Cardinality(disk["clients"]) <= MaxClients
    BY <2>1 DEF SlotInv, Few
  <2>3. IsFiniteSet(cs) /\ Cardinality(cs) <= Cardinality(disk["clients"])
    BY <2>2, FS_Subset
  <2>4. Cardinality(cs) \in Nat /\ Cardinality(disk["clients"]) \in Nat /\ MaxClients \in Nat
    BY <2>2, <2>3, FS_CardinalityType, PairingAssumption
  <2>5. plan' = Save(cs) /\ cs \in SUBSET Clients
    BY <1>2, <2>1 DEF RevokeBegins, Begins
  <2> HIDE DEF cs
  <2>6. Few(cs)
    BY <2>2, <2>3, <2>4 DEF Few
  <2>7. PICK p : p = Save(cs)
    OBVIOUS
  <2>8. DOMAIN p = {1} /\ p[1].value = cs
    BY <2>5, <2>7, SavePlan DEF IInv
  <2> QED
    BY <2>5, <2>6, <2>7, <2>8
<1>3. CASE PairBegins \/ UnpairBegins \/ ResetBegins \/ StartupBegins
  <2>1. op' \notin {"revoke", "m5"}
    BY <1>3 DEF PairBegins, UnpairBegins, ResetBegins, StartupBegins, Begins
  <2>2. \A n \in DOMAIN plan' : plan'[n].file = "clients" => plan'[n].value = {}
    BY <2>1 DEF IInv, PlanInv
  <2> QED
    BY <1>1, <2>2, NoClientIsFew DEF SlotInv
<1> QED
  BY <1>1, <1>2, <1>3 DEF SlotInv

\* An M5 takes a slot only under the lock that the change is made under (add_locked).
LEMMA EnrollSlots ==
    ASSUME IInv, SlotInv, NEW c \in Clients, NEW w \in Windows, EnrollBegins(c, w)
    PROVE  SlotInv'
<1> DEFINE ds == disk["clients"]
           cs == ds \cup {c}
<1>1. ds \in past["clients"] /\ ds \in SUBSET Clients
  BY DEF IInv, FilesInv, Files
<1>2. IsFiniteSet(ds) /\ Cardinality(ds) <= MaxClients
  BY <1>1 DEF SlotInv, Few
<1>3. c \in ds \/ Cardinality(ds) < MaxClients
  BY DEF EnrollBegins, HasSlot
<1>4. plan' = Save(cs) /\ past' = past /\ cs \in SUBSET Clients
  BY <1>1 DEF EnrollBegins, Begins, fileVars
<1>5. IsFiniteSet(cs) /\ Cardinality(cs) = IF c \in ds THEN Cardinality(ds) ELSE Cardinality(ds) + 1
  BY <1>2, FS_AddElement
<1>6. Cardinality(ds) \in Nat /\ MaxClients \in Nat
  BY <1>2, FS_CardinalityType, PairingAssumption
<1> HIDE DEF ds, cs
<1>7. Few(cs)
  BY <1>2, <1>3, <1>5, <1>6 DEF Few
<1>8. PICK p : p = Save(cs)
  OBVIOUS
<1>9. DOMAIN p = {1} /\ p[1].value = cs
  BY <1>4, <1>8, SavePlan DEF IInv
<1> QED
  BY <1>4, <1>7, <1>8, <1>9 DEF SlotInv

\* The changes that are made were few before.
LEMMA ChangeSlots == ASSUME IInv, SlotInv, MakesVisible \/ Syncs PROVE SlotInv'
<1>1. /\ plan \in Seq(Entry) /\ plan # <<>> /\ disk["clients"] \in past["clients"]
      /\ past \in [Files -> SUBSET Values] /\ disk \in [Files -> Values]
  BY DEF IInv, FilesInv, LockInv, Entry, Files, MakesVisible, Syncs
<1>2. CASE MakesVisible
  <2>1. PICK x : x = Head(plan)
    OBVIOUS
  <2>2. plan' = plan /\ past' = [past EXCEPT ![x.file] = @ \cup {x.value}]
    BY <1>2, <2>1 DEF MakesVisible
  <2>3. x = plan[1] /\ 1 \in DOMAIN plan /\ x.file \in Files
    <3>1. Len(plan) \in Nat \ {0} /\ DOMAIN plan = 1..Len(plan) /\ x = plan[1]
      BY <1>1, <2>1
    <3>2. plan[1] \in Entry
      BY <1>1, <3>1
    <3> QED
      BY <3>1, <3>2 DEF Entry
  <2>4. past'["clients"] = past["clients"] \/ x.file = "clients"
    BY <1>1, <2>2, <2>3
  <2>5. past'["clients"] \subseteq past["clients"] \cup {x.value}
    BY <1>1, <2>2, <2>3
  <2> QED
    BY <2>2, <2>3, <2>4, <2>5 DEF SlotInv
<1>3. CASE Syncs
  <2>1. past' = [f \in Files |-> {disk[f]}] /\ plan' \in {<<>>, Tail(plan)}
    BY <1>3 DEF Syncs, Committed, Releases
  <2>2. past'["clients"] = {disk["clients"]}
    BY <2>1 DEF Files
  <2>3. ASSUME NEW n \in DOMAIN plan' PROVE n + 1 \in DOMAIN plan /\ plan'[n] = plan[n + 1]
    <3>1. CASE plan' = <<>>
      BY <3>1
    <3>2. CASE plan' = Tail(plan)
      BY <1>1, <3>2
    <3> QED
      BY <2>1, <3>1, <3>2
  <2> QED
    BY <1>1, <2>2, <2>3 DEF SlotInv
<1> QED
  BY <1>2, <1>3

\* Every step leaves a slot for whoever has one.
LEMMA NextSlots == IInv /\ IInv' /\ SlotInv /\ [Next]_vars => SlotInv'
<1> SUFFICES ASSUME IInv, IInv', SlotInv, [Next]_vars PROVE SlotInv'
  OBVIOUS
<1>1. CASE PairBegins \/ UnpairBegins \/ ResetBegins \/ StartupBegins
  BY <1>1, BeginSlots
<1>2. CASE \E c \in Clients : RevokeBegins(c) \/ \E w \in Windows : EnrollBegins(c, w)
  BY <1>2, BeginSlots, EnrollSlots
<1>3. CASE MakesVisible \/ Syncs
  BY <1>3, ChangeSlots
<1>4. CASE Fails \/ ServiceStops
  <2>1. past' = past /\ plan' \in {plan, <<>>}
    BY <1>4 DEF Fails, ServiceStops, Releases, fileVars, lockVars
  <2> QED
    BY <2>1 DEF SlotInv
<1>5. CASE PowerLoss
  <2>1. /\ disk'["clients"] \in past["clients"] /\ past' = [f \in Files |-> {disk'[f]}]
        /\ plan' = <<>>
    BY <1>5 DEF PowerLoss, Committed, Releases
  <2>2. past'["clients"] = {disk'["clients"]}
    BY <2>1 DEF Files
  <2> QED
    BY <2>1, <2>2 DEF SlotInv
<1>6. CASE SetupBegins \/ (\E w \in Windows : Expires(w)) \/ UNCHANGED vars
  <2>1. past' = past /\ plan' = plan
    BY <1>6 DEF SetupBegins, Expires, vars, fileVars, lockVars
  <2> QED
    BY <2>1 DEF SlotInv
<1> QED
  BY <1>1, <1>2, <1>3, <1>4, <1>5, <1>6 DEF Next

\* What a reader finds and what a power loss may leave are no more clients than there are slots.
SlotsBounded == \A cs \in past["clients"] \cup {disk["clients"]} : Few(cs)

\* However operations, failures and power losses follow each other, no file ever holds more clients
\* than MAX_PAIRED_CLIENTS (PairedClients.add_locked checks the slot and writes under one lock).
THEOREM ClientsFitSlots ==
    ASSUME IsFiniteSet(Clients)
    PROVE  Spec => []SlotsBounded
<1>1. IInv /\ SlotInv => SlotsBounded
  BY DEF IInv, FilesInv, Files, SlotInv, SlotsBounded
<1>2. Init => SlotInv
  BY InitSlots
<1> QED
  BY <1>1, <1>2, InitIInv, NextIInv, NextSlots, PTL DEF Spec

-----------------------------------------------------------------------------

\* The types that neither the invariant nor the slots give.
RestInv ==
    /\ past["legacy"] \subseteq {"none", "clear-all"}
    /\ \A n \in DOMAIN plan : plan[n].file = "legacy" => plan[n].value \in {"none", "clear-all"}
    /\ identities <= MaxIdentities /\ serving <= identities
    /\ \A w \in Windows : bound[w] <= identities
    /\ \A c \in Clients : enrolledAt[c] <= identities
    /\ setups \subseteq Windows /\ expired \subseteq Windows
    /\ syncing \in BOOLEAN /\ resetAsked \in BOOLEAN

\* At the beginning.
LEMMA InitRest == Init => RestInv
<1> SUFFICES ASSUME Init PROVE RestInv
  OBVIOUS
<1>1. /\ past = [f \in Files |-> {disk[f]}] /\ DOMAIN plan = {}
      /\ disk["legacy"] \in {"none", "clear-all"} /\ disk["identity"] \in {0, 1}
  BY DEF Init, Committed
<1>2. past["legacy"] = {disk["legacy"]}
  BY <1>1 DEF Files
<1>3. /\ identities = disk["identity"] /\ serving = 0 /\ MaxIdentities \in Nat \ {0}
      /\ bound = [w \in Windows |-> 0] /\ enrolledAt = [c \in Clients |-> 0]
  BY PairingAssumption DEF Init
<1>4. setups = {} /\ expired = {}
  BY DEF Init
<1>5. syncing \in BOOLEAN /\ resetAsked \in BOOLEAN
  BY DEF Init
<1>6. /\ identities <= MaxIdentities /\ serving <= identities
      /\ \A w \in Windows : bound[w] <= identities
      /\ \A c \in Clients : enrolledAt[c] <= identities
  BY <1>1, <1>3
<1> QED
  BY <1>1, <1>2, <1>4, <1>5, <1>6 DEF RestInv

\* What the plans write to the file of an older version (Unpair, Startup).
LEMMA LegacyPlans ==
    ASSUME IInv, IInv', RestInv, [Next]_vars
    PROVE  \A n \in DOMAIN plan' :
              plan'[n].file = "legacy" => plan'[n].value \in {"none", "clear-all"}
<1>1. plan \in Seq(Entry)
  BY DEF IInv, LockInv, Entry
<1>2. CASE plan' \in {plan, <<>>, Tail(plan)}
  <2>1. ASSUME NEW n \in DOMAIN plan' PROVE \E m \in DOMAIN plan : plan'[n] = plan[m]
    <3>1. CASE plan' = <<>>
      BY <3>1, <2>1
    <3>2. CASE plan' = plan
      BY <3>2, <2>1
    <3>3. CASE plan' = Tail(plan) /\ plan # <<>>
      <4>1. n + 1 \in DOMAIN plan /\ plan'[n] = plan[n + 1]
        BY <1>1, <3>3, <2>1
      <4> QED
        BY <4>1
    <3>4. CASE plan' = Tail(plan) /\ plan = <<>>
      <4>1. Tail(<<>>) = <<>>
        OBVIOUS
      <4> QED
        BY <2>1, <3>4, <4>1
    <3> QED
      BY <1>2, <3>1, <3>2, <3>3, <3>4
  <2> QED
    BY <2>1 DEF RestInv
<1>3. CASE PairBegins
  <2>1. op' = "pair"
    BY <1>3 DEF PairBegins, Begins
  <2>2. plan' \in Seq(Entry)
    BY DEF IInv, LockInv, Entry
  <2>3. /\ Len(plan') = 1 \/ (Len(plan') = 2 /\ plan'[1].file = "identity")
        /\ plan'[Len(plan')].file = "window"
    <3>1. /\ plan'[Len(plan')] = Change("window", windows')
          /\ \/ Len(plan') = 2 /\ plan'[1] = Change("identity", bound'[windows'])
             \/ Len(plan') = 1
      BY <2>1 DEF IInv, PairInv
    <3>2. \A v : Change("window", v).file = "window" /\ Change("identity", v).file = "identity"
      BY DEF Change
    <3> QED
      BY <3>1, <3>2
  <2>4. \A n \in DOMAIN plan' : n = 1 \/ n = 2
    BY <2>2, <2>3
  <2> QED
    BY <2>2, <2>3, <2>4
<1>4. CASE UnpairBegins
  <2>1. PICK p : p = Unpair /\ plan' = p
    BY <1>4 DEF UnpairBegins, Begins
  <2>2. /\ p \in Seq(Entry) /\ Len(p) \in {3, 5}
        /\ p[1].file = "marker" /\ p[2].file = "window" /\ p[3].file = "clients"
        /\ Len(p) = 5 => p[4].file = "marker" /\ p[5].value = "none"
    BY <2>1, UnpairPlan DEF IInv, Change
  <2>3. \A n \in DOMAIN p : n \in 1..3 \/ (Len(p) = 5 /\ n \in 4..5)
    BY <2>2
  <2> QED
    BY <2>1, <2>2, <2>3
<1>5. CASE ResetBegins
  <2>1. PICK p : p = Reset /\ plan' = p
    BY <1>5 DEF ResetBegins, Begins
  <2>2. /\ p \in Seq(Entry) /\ Len(p) = 4
        /\ p[1].file = "marker" /\ p[2].file = "window" /\ p[3].file = "clients"
        /\ p[4].file = "identity"
    BY <2>1, ResetPlan DEF IInv, Change
  <2>3. DOMAIN p = 1..4
    BY <2>2
  <2> QED
    BY <2>1, <2>2, <2>3
<1>6. CASE StartupBegins
  <2>1. PICK p : p = Startup /\ plan' = p
    BY <1>6 DEF StartupBegins, Begins
  <2>2. p \in Seq(Entry) /\ Len(p) \in {1, 5, 6} /\ DOMAIN p = 1..Len(p)
    BY <2>1, StartupPlan DEF IInv
  <2>3. \A n \in DOMAIN p : p[n].file = "legacy" => p[n].value = "none"
    <3>1. LastChange.file = "identity"
      BY DEF LastChange, Change
    <3>2. CASE Len(p) = 1
      <4>1. p[1].file = "identity"
        BY <2>1, <3>1, <3>2, StartupPlan DEF IInv
      <4> QED
        BY <2>2, <3>2, <4>1
    <3>3. CASE Len(p) = 5
      <4>1. /\ p[1].file = "window" /\ p[2].file = "clients" /\ p[3].file = "marker"
            /\ p[4].value = "none" /\ p[5].file = "identity"
        BY <2>1, <3>1, <3>3, StartupPlan DEF IInv, Change
      <4>2. DOMAIN p = 1..5
        BY <2>2, <3>3
      <4> QED
        BY <4>1, <4>2
    <3>4. CASE Len(p) = 6
      <4>1. /\ p[1].file \in {"window", "marker"} /\ p[2].file \in {"clients", "window"}
            /\ p[3].file \in {"identity", "clients"} /\ p[4].file \in {"identity", "marker"}
            /\ p[5] = Change("legacy", "none") /\ p[6].file \in {"marker", "identity"}
        <5>1. CASE disk["marker"] = "identity-reset"
          <6>1. /\ p[1] = Change("window", 0) /\ p[2] = Change("clients", {})
                /\ p[3] = Change("identity", 0) /\ p[4] = Change("identity", identities + 1)
                /\ p[5] = Change("legacy", "none") /\ p[6] = Change("marker", "none")
            BY <2>1, <5>1, StartupPlan DEF IInv
          <6> QED
            BY <6>1 DEF Change
        <5>2. CASE disk["marker"] # "identity-reset"
          <6> HIDE DEF LastChange
          <6>1. /\ p[1] = Change("marker", "clear-all") /\ p[2] = Change("window", 0)
                /\ p[3] = Change("clients", {}) /\ p[4] = Change("marker", "none")
                /\ p[5] = Change("legacy", "none") /\ p[6] = LastChange
            <7>1. FilesInv /\ ~(Len(p) = 5) /\ ~(Len(p) = 1)
              BY <3>4 DEF IInv
            <7> QED
              BY <2>1, <5>2, <7>1, StartupPlan
          <6> QED
            BY <3>1, <6>1 DEF Change
        <5> QED
          BY <5>1, <5>2
      <4>2. DOMAIN p = 1..6 /\ p[5].value = "none"
        BY <2>2, <3>4, <4>1 DEF Change
      <4> QED
        BY <4>1, <4>2
    <3> QED
      BY <2>2, <3>2, <3>3, <3>4
  <2> QED
    BY <2>1, <2>3
<1>7. CASE \E c \in Clients : RevokeBegins(c) \/ \E w \in Windows : EnrollBegins(c, w)
  <2>1. op' \in {"revoke", "m5"}
    BY <1>7 DEF RevokeBegins, EnrollBegins, Begins
  <2>2. plan' \in Seq(Entry) /\ Len(plan') = 1 /\ plan'[1].file = "clients"
    BY <2>1 DEF IInv, LockInv, ClientsInv, Entry
  <2>3. DOMAIN plan' = {1}
    BY <2>2
  <2> QED
    BY <2>2, <2>3
<1>8. CASE \/ SetupBegins \/ MakesVisible \/ Syncs \/ Fails \/ ServiceStops \/ PowerLoss
           \/ (\E w \in Windows : Expires(w)) \/ UNCHANGED vars
  <2>1. plan' \in {plan, <<>>, Tail(plan)}
    BY <1>8 DEF SetupBegins, MakesVisible, Syncs, Fails, ServiceStops, PowerLoss, Expires, vars,
       Releases, lockVars
  <2> QED
    BY <1>2, <2>1
<1> QED
  BY <1>3, <1>4, <1>5, <1>6, <1>7, <1>8 DEF Next

\* Every step keeps the rest.
LEMMA NextRest == IInv /\ IInv' /\ RestInv /\ [Next]_vars => RestInv'
<1> SUFFICES ASSUME IInv, IInv', RestInv, [Next]_vars PROVE RestInv'
  OBVIOUS
<1>0. /\ plan \in Seq(Entry) /\ disk["legacy"] \in past["legacy"]
      /\ disk["identity"] \in past["identity"] /\ past["identity"] \subseteq 0..identities
      /\ identities \in Nat /\ windows \in Nat /\ windows <= MaxWindows
      /\ bound \in [Windows -> Nat] /\ enrolledAt \in [Clients -> Nat] /\ serving \in Nat
      /\ MaxIdentities \in Nat /\ MaxWindows \in Nat
      /\ past["window"] \subseteq 0..windows /\ disk["window"] \in past["window"]
  BY PairingAssumption DEF IInv, FilesInv, NamesInv, LockInv, Entry, Files
<1>1. \A n \in DOMAIN plan' : plan'[n].file = "legacy" => plan'[n].value \in {"none", "clear-all"}
  BY LegacyPlans
<1>2. syncing' \in BOOLEAN /\ resetAsked' \in BOOLEAN
  <2> USE DEF RestInv, vars, fileVars, lockVars, liveVars, nameVars, histVars, Begins, Releases
  <2>1. syncing' \in BOOLEAN
    BY DEF Next, PairBegins, UnpairBegins, ResetBegins, StartupBegins, SetupBegins, RevokeBegins,
       EnrollBegins, MakesVisible, Syncs, Fails, ServiceStops, PowerLoss, Expires
  <2>2. resetAsked' \in BOOLEAN
    BY DEF Next, PairBegins, UnpairBegins, ResetBegins, StartupBegins, SetupBegins, RevokeBegins,
       EnrollBegins, MakesVisible, Syncs, Fails, ServiceStops, PowerLoss, Expires, Promises
  <2> QED
    BY <2>1, <2>2
<1>3. past'["legacy"] \subseteq {"none", "clear-all"}
  <2>1. CASE MakesVisible
    <3>1. PICK x : x = Head(plan)
      OBVIOUS
    <3>2. plan # <<>> /\ past' = [past EXCEPT ![x.file] = @ \cup {x.value}]
      BY <2>1, <3>1 DEF MakesVisible
    <3>3. x = plan[1] /\ 1 \in DOMAIN plan
      BY <1>0, <3>1, <3>2
    <3>4. "legacy" \in DOMAIN past
      BY DEF IInv, FilesInv, Files
    <3>5. CASE x.file = "legacy"
      BY <3>2, <3>3, <3>4, <3>5 DEF RestInv
    <3>6. CASE x.file # "legacy"
      BY <3>2, <3>4, <3>6 DEF RestInv
    <3> QED
      BY <3>5, <3>6
  <2>2. CASE Syncs
    BY <1>0, <2>2 DEF Syncs, Committed, Files, RestInv
  <2>3. CASE PowerLoss
    <3>1. disk'["legacy"] \in past["legacy"] /\ past' = [f \in Files |-> {disk'[f]}]
      BY <2>3 DEF PowerLoss, Committed
    <3> QED
      BY <3>1 DEF Files, RestInv
  <2>4. CASE ~(MakesVisible \/ Syncs \/ PowerLoss)
    <3>1. past' = past
      BY <2>4 DEF Next, PairBegins, UnpairBegins, ResetBegins, StartupBegins, SetupBegins,
         RevokeBegins, EnrollBegins, Fails, ServiceStops, Expires, vars, Begins, fileVars
    <3> QED
      BY <3>1 DEF RestInv
  <2> QED
    BY <2>1, <2>2, <2>3, <2>4
<1>4. setups' \subseteq Windows /\ expired' \subseteq Windows
  <2>1. CASE SetupBegins
    <3>1. setups' = setups \cup {ActiveForServer} /\ expired' = expired /\ ActiveForServer # 0
      BY <2>1 DEF SetupBegins, nameVars
    <3>2. ActiveForServer = disk["window"]
      BY <3>1 DEF ActiveForServer, Active
    <3>3. ActiveForServer \in Windows
      BY <1>0, <3>1, <3>2 DEF Windows
    <3> QED
      BY <3>1, <3>3 DEF RestInv
  <2>2. CASE ~SetupBegins
    <3>1. setups' \in {setups, {}}
      BY <2>2 DEF Next, PairBegins, UnpairBegins, ResetBegins, StartupBegins, RevokeBegins,
         EnrollBegins, MakesVisible, Syncs, Fails, ServiceStops, PowerLoss, Expires, vars, Serves,
         liveVars
    <3>2. expired' = expired \/ \E w \in Windows : expired' = expired \cup {w}
      BY <2>2 DEF Next, PairBegins, UnpairBegins, ResetBegins, StartupBegins, RevokeBegins,
         EnrollBegins, MakesVisible, Syncs, Fails, ServiceStops, PowerLoss, Expires, vars, nameVars
    <3> QED
      BY <3>1, <3>2 DEF RestInv
  <2> QED
    BY <2>1, <2>2
<1>5. identities' \in {identities, identities + 1} /\ identities' <= MaxIdentities
  <2>1. CASE StartupBegins
    <3>1. identities < MaxIdentities /\ identities' \in {identities, identities + 1}
      BY <2>1 DEF StartupBegins
    <3> QED
      BY <1>0, <3>1
  <2>2. CASE ~StartupBegins
    <3>1. identities' = identities
      BY <2>2 DEF Next, PairBegins, UnpairBegins, ResetBegins, SetupBegins, RevokeBegins,
         EnrollBegins, MakesVisible, Syncs, Fails, ServiceStops, PowerLoss, Expires, vars, nameVars
    <3> QED
      BY <3>1 DEF RestInv
  <2> QED
    BY <2>1, <2>2
<1>6. serving' \in {serving, 0, disk["identity"]}
  BY DEF Next, PairBegins, UnpairBegins, ResetBegins, StartupBegins, SetupBegins, RevokeBegins,
     EnrollBegins, MakesVisible, Syncs, Fails, ServiceStops, PowerLoss, Expires, vars, Serves,
     liveVars
<1>7. ASSUME NEW w \in Windows PROVE bound'[w] \in {bound[w], disk["identity"]}
  <2>1. CASE PairBegins
    BY <1>0, <2>1 DEF PairBegins
  <2>2. CASE ~PairBegins
    BY <2>2 DEF Next, UnpairBegins, ResetBegins, StartupBegins, SetupBegins, RevokeBegins,
       EnrollBegins, MakesVisible, Syncs, Fails, ServiceStops, PowerLoss, Expires, vars, nameVars
  <2> QED
    BY <2>1, <2>2
<1>8. ASSUME NEW c \in Clients PROVE enrolledAt'[c] \in {enrolledAt[c], 0, serving}
  <2>1. CASE Syncs
    BY <2>1 DEF Syncs, Promises
  <2>2. CASE UnpairBegins \/ ResetBegins
    BY <2>2 DEF UnpairBegins, ResetBegins
  <2>3. CASE \E d \in Clients : RevokeBegins(d)
    BY <1>0, <2>3 DEF RevokeBegins
  <2>4. CASE ~(Syncs \/ UnpairBegins \/ ResetBegins \/ \E d \in Clients : RevokeBegins(d))
    BY <2>4 DEF Next, PairBegins, StartupBegins, SetupBegins, EnrollBegins, MakesVisible, Fails,
       ServiceStops, PowerLoss, Expires, vars, histVars
  <2> QED
    BY <2>1, <2>2, <2>3, <2>4
<1>9. disk["identity"] \in 0..identities
  BY <1>0
<1>10. serving' <= identities'
  BY <1>0, <1>5, <1>6, <1>9 DEF RestInv
<1>11. \A w \in Windows : bound'[w] <= identities'
  <2> SUFFICES ASSUME NEW w \in Windows PROVE bound'[w] <= identities'
    OBVIOUS
  <2>1. bound[w] \in Nat /\ bound[w] <= identities
    BY <1>0 DEF RestInv
  <2> QED
    BY <1>0, <1>5, <1>7, <1>9, <2>1
<1>12. \A c \in Clients : enrolledAt'[c] <= identities'
  <2> SUFFICES ASSUME NEW c \in Clients PROVE enrolledAt'[c] <= identities'
    OBVIOUS
  <2>1. enrolledAt[c] \in Nat /\ enrolledAt[c] <= identities /\ serving <= identities
    BY <1>0 DEF RestInv
  <2>2. enrolledAt'[c] \in {enrolledAt[c], 0, serving}
    BY <1>8
  <2>3. identities \in Nat /\ serving \in Nat /\ identities' \in {identities, identities + 1}
    BY <1>0, <1>5
  <2> QED
    BY <2>1, <2>2, <2>3
<1> QED
  BY <1>1, <1>2, <1>3, <1>4, <1>5, <1>10, <1>11, <1>12 DEF RestInv

\* What each file may hold.
LEMMA FileContents ==
    ASSUME NEW f
    PROVE  /\ f = "marker" => Contents(f) = {"none", "clear-all", "identity-reset"}
           /\ f = "legacy" => Contents(f) = {"none", "clear-all"}
           /\ f = "window" => Contents(f) = 0..MaxWindows
           /\ f = "clients" => Contents(f) = SUBSET Clients
           /\ f = "identity" => Contents(f) = 0..MaxIdentities
  BY DEF Contents

\* The three together are the types.
LEMMA TypesFollow == IInv /\ SlotInv /\ RestInv => TypeOK
<1> SUFFICES ASSUME IInv, SlotInv, RestInv PROVE TypeOK
  OBVIOUS
<1>1. /\ windows \in Nat /\ windows <= MaxWindows /\ MaxWindows \in Nat
      /\ identities \in Nat /\ identities <= MaxIdentities /\ MaxIdentities \in Nat
      /\ serving \in Nat /\ serving <= identities
  BY PairingAssumption DEF IInv, FilesInv, NamesInv, RestInv
<1>2. 0..windows \subseteq 0..MaxWindows /\ 0..identities \subseteq 0..MaxIdentities
  BY <1>1
<1>3. /\ DOMAIN disk = Files /\ DOMAIN past = Files
      /\ \A f \in Files : disk[f] \in past[f]
  BY DEF IInv, FilesInv
<1>4. ASSUME NEW f \in Files PROVE past[f] \subseteq Contents(f)
  <2>1. /\ past["marker"] \subseteq {"none", "clear-all", "identity-reset"}
        /\ past["legacy"] \subseteq {"none", "clear-all"}
        /\ past["window"] \subseteq 0..MaxWindows
        /\ past["clients"] \subseteq SUBSET Clients
        /\ past["identity"] \subseteq 0..MaxIdentities
    BY <1>2 DEF IInv, FilesInv, RestInv
  <2> QED
    BY <2>1, FileContents DEF Files
<1>5. \A cs \in past["clients"] : Cardinality(cs) <= MaxClients
  BY DEF SlotInv, Few
<1>6. ASSUME NEW n \in DOMAIN plan
      PROVE  plan[n].file \in Files /\ plan[n].value \in Contents(plan[n].file)
  <2>1. plan[n].file \in Files
    <3>1. plan \in Seq(Entry)
      BY DEF IInv, LockInv, Entry
    <3>2. plan[n] \in Entry
      BY <3>1
    <3> QED
      BY <3>2 DEF Entry
  <2>c. /\ plan[n].file = "marker" =>
              Contents(plan[n].file) = {"none", "clear-all", "identity-reset"}
        /\ plan[n].file = "legacy" => Contents(plan[n].file) = {"none", "clear-all"}
        /\ plan[n].file = "window" => Contents(plan[n].file) = 0..MaxWindows
        /\ plan[n].file = "clients" => Contents(plan[n].file) = SUBSET Clients
        /\ plan[n].file = "identity" => Contents(plan[n].file) = 0..MaxIdentities
    BY FileContents
  <2>2. CASE plan[n].file = "marker"
    BY <2>2, <2>1, <2>c DEF IInv, PlanInv
  <2>3. CASE plan[n].file = "legacy"
    BY <2>3, <2>1, <2>c DEF RestInv
  <2>4. CASE plan[n].file = "identity"
    <3>1. plan[n].value \in 0..identities
      BY <2>4 DEF IInv, PlanInv
    <3> QED
      BY <1>2, <2>4, <3>1, <2>1, <2>c
  <2>5. CASE plan[n].file = "clients"
    <3>1. CASE plan[n].value = {}
      BY <2>5, <3>1, <2>1, <2>c
    <3>2. CASE plan[n].value # {}
      <4>1. op \in {"revoke", "m5"}
        BY <2>5, <3>2 DEF IInv, PlanInv
      <4>2. Len(plan) = 1 /\ plan[1].value \subseteq Clients /\ plan \in Seq(Entry)
        BY <4>1 DEF IInv, ClientsInv, LockInv, Entry
      <4>3. n = 1
        BY <4>2
      <4> QED
        BY <2>5, <4>2, <4>3, <2>1, <2>c
    <3> QED
      BY <3>1, <3>2
  <2>6. CASE plan[n].file = "window"
    <3>1. CASE plan[n].value = 0
      BY <1>1, <2>6, <3>1, <2>1, <2>c
    <3>2. CASE plan[n].value # 0
      <4>1. op = "pair"
        BY <2>6, <3>2 DEF IInv, PlanInv
      <4>2. /\ plan[Len(plan)] = Change("window", windows)
            /\ \/ Len(plan) = 2 /\ plan[1] = Change("identity", bound[windows])
               \/ Len(plan) = 1
        BY <4>1 DEF IInv, PairInv
      <4>3. plan \in Seq(Entry)
        BY DEF IInv, LockInv, Entry
      <4>4. n = Len(plan) \/ plan[n] = Change("identity", bound[windows])
        BY <4>2, <4>3
      <4>5. plan[n] = Change("window", windows)
        BY <2>6, <4>2, <4>4 DEF Change
      <4> QED
        BY <1>1, <2>6, <4>5, <2>1, <2>c DEF Change
    <3> QED
      BY <3>1, <3>2
  <2> QED
    BY <2>1, <2>2, <2>3, <2>4, <2>5, <2>6 DEF Files
<1>7. /\ op \in {"none", "pair", "revoke", "unpair", "reset", "startup", "m5"}
      /\ subject \in SUBSET Clients /\ setups \subseteq Windows /\ expired \subseteq Windows
      /\ revoked \subseteq Clients
  BY DEF IInv, LockInv, NamesInv, RestInv
<1>8. syncing \in BOOLEAN /\ resetAsked \in BOOLEAN
  BY DEF RestInv
<1>9. bound \in [Windows -> 0..MaxIdentities]
  <2>1. bound \in [Windows -> Nat] /\ \A w \in Windows : bound[w] <= identities
    BY DEF IInv, NamesInv, RestInv
  <2> QED
    BY <1>1, <2>1
<1>10. enrolledAt \in [Clients -> 0..MaxIdentities]
  <2>1. enrolledAt \in [Clients -> Nat] /\ \A c \in Clients : enrolledAt[c] <= identities
    BY DEF IInv, NamesInv, RestInv
  <2> QED
    BY <1>1, <2>1
<1>11. closed \subseteq Windows /\ retired \subseteq Identities
  <2>1. closed \subseteq 1..windows /\ retired \subseteq 1..identities
    BY DEF IInv, NamesInv
  <2> QED
    BY <1>1, <2>1 DEF Windows, Identities
<1>12. windows \in 0..MaxWindows /\ serving \in 0..MaxIdentities /\ identities \in 0..MaxIdentities
  BY <1>1
<1> QED
  BY <1>3, <1>4, <1>5, <1>6, <1>7, <1>8, <1>9, <1>10, <1>11, <1>12 DEF TypeOK

\* The variables of the pairing state have their types.
THEOREM PairingTypeCorrect ==
    ASSUME IsFiniteSet(Clients)
    PROVE  Spec => []TypeOK
<1>1. Init => SlotInv
  BY InitSlots
<1> QED
  BY <1>1, InitIInv, NextIInv, NextSlots, InitRest, NextRest, TypesFollow, PTL DEF Spec
=============================================================================
