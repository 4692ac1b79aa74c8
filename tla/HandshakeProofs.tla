---------------------------- MODULE HandshakeProofs ----------------------------
(***************************************************************************)
(* The handshake's invariants, for any number of connections, clients and  *)
(* windows and any limits.  HandshakeInv is the inductive invariant: the   *)
(* types, what each phase holds, the two admission budgets, and what a     *)
(* slot without a connection has not got.                                  *)
(***************************************************************************)
EXTENDS Handshake, FiniteSetTheorems, TLAPS

\* TypeOK without its bounds on the budgets, which need an argument of their own.
Types ==
    /\ conn \in [Connections -> {"none", "open", "closing", "rejected"}]
    /\ phase \in [Connections -> {"IDLE", "SETUP_M3", "SETUP_M5", "SETUP_COMPLETE", "VERIFY_M3",
                                  "ENCRYPTED", "FAILED", "CLOSED"}]
    /\ verifying \in [Connections -> BOOLEAN]
    /\ setup \in [Connections -> 0..MaxWindows]
    /\ proved \in [Connections -> BOOLEAN]
    /\ client \in [Connections -> Clients \cup {NoClient}]
    /\ chacha \in [Connections -> BOOLEAN]
    /\ deadline \in [Connections -> BOOLEAN]
    /\ malformed \in [Connections -> 0..MalformedLimit + 1]
    /\ admitted \subseteq Connections
    /\ unauth \subseteq admitted
    /\ enrolled \subseteq Clients
    /\ window \in 0..MaxWindows
    /\ windows \in 0..MaxWindows
    /\ resetting \in BOOLEAN

Budgets ==
    /\ Cardinality(admitted) <= MaxConnections
    /\ Cardinality(unauth) <= MaxUnauthenticated

\* A deadline and a cipher only belong to an admitted connection, and a free slot is CLOSED.
FreeSlotsBare ==
    \A c \in Connections :
        /\ deadline[c] => c \in unauth
        /\ chacha[c] => c \in admitted
        /\ conn[c] = "none" => phase[c] = "CLOSED"

\* Another malformed frame is only read below the limit.
MalformedBelow == \A c \in Connections : conn[c] = "open" => malformed[c] < MalformedLimit

HandshakeInv ==
    /\ Types
    /\ Budgets
    /\ MalformedBelow
    /\ SecretsMatchPhase
    /\ SlotsAgree
    /\ FreeSlotsBare

-----------------------------------------------------------------------------
\* No step changes the type of a variable.
LEMMA TypesStep ==
    ASSUME Types, MalformedBelow, [Next]_vars
    PROVE  Types' /\ MalformedBelow'
<1>a. MalformedLimit \in Nat \ {0} /\ MaxWindows \in Nat
  BY HandshakeAssumption DEF HandshakeAssumption
<1>1. CASE \E c \in Connections : ConnectionMade(c)
  <2>1. PICK c \in Connections : ConnectionMade(c)
    BY <1>1
  <2>2. deadline' = [deadline EXCEPT ![c] = MayStart] /\ MayStart \in BOOLEAN
    BY <2>1 DEF ConnectionMade, MayStart
  <2>3. CASE MayStart
    <3>1. deadline' = [deadline EXCEPT ![c] = TRUE]
      BY <2>2, <2>3
    <3> QED
      BY <2>1, <2>3, <3>1, <1>a DEF Types, MalformedBelow, ConnectionMade, stateVars
  <2>4. CASE ~MayStart
    <3>1. deadline' = [deadline EXCEPT ![c] = FALSE]
      BY <2>2, <2>4
    <3>2. /\ conn' = [conn EXCEPT ![c] = "rejected"]
          /\ admitted' = admitted /\ unauth' = unauth
      BY <2>1, <2>4 DEF ConnectionMade
    <3>3. /\ conn' \in [Connections -> {"none", "open", "closing", "rejected"}]
          /\ deadline' \in [Connections -> BOOLEAN]
      BY <3>1, <3>2 DEF Types
    <3>4. phase' \in [Connections -> {"IDLE", "SETUP_M3", "SETUP_M5", "SETUP_COMPLETE",
                                     "VERIFY_M3", "ENCRYPTED", "FAILED", "CLOSED"}]
      BY <2>1 DEF Types, ConnectionMade
    <3>5. malformed' \in [Connections -> 0..MalformedLimit + 1]
      BY <2>1, <1>a DEF Types, ConnectionMade
    <3>6. Types'
      BY <2>1, <3>2, <3>3, <3>4, <3>5 DEF Types, ConnectionMade, stateVars
    <3>7. MalformedBelow'
      BY <2>1, <2>4, <1>a DEF Types, MalformedBelow, ConnectionMade
    <3> QED
      BY <3>6, <3>7
  <2> QED
    BY <2>3, <2>4
<1>2. CASE \E c \in Connections : ConnectionEnds(c) \/ ConnectionLost(c)
  <2>1. PICK c \in Connections : Teardown(c)
    BY <1>2 DEF ConnectionEnds, ConnectionLost
  <2>2. Types'
    BY <2>1, <1>a DEF Types, Teardown, Releases, ClearsPending, stateVars
  <2>3. MalformedBelow'
    BY <2>1 DEF Types, MalformedBelow, Teardown
  <2> QED
    BY <2>2, <2>3
<1>3. CASE \E c \in Connections : DeadlineExpires(c)
  BY <1>3
  DEF Types, MalformedBelow, DeadlineExpires, DeadlineApplies, Closing, authVars, slotVars,
      stateVars
<1>4. CASE \E c \in Connections : FrameCloses(c)
  BY <1>4
  DEF Types, MalformedBelow, FrameCloses, Receives, Closing, authVars, timeVars, slotVars,
      stateVars
<1>5. CASE \E c \in Connections : FrameMalformed(c)
  BY <1>5, <1>a
  DEF Types, MalformedBelow, FrameMalformed, Receives, Closing, authVars, slotVars, stateVars
<1>6. CASE \E c \in Connections : AuthFails(c)
  BY <1>6, <1>a
  DEF Types, MalformedBelow, AuthFails, Receives, ClearsPending, Closing, timeVars, slotVars,
      stateVars
<1>7. CASE \E c \in Connections : VerifyM1(c)
  BY <1>7 DEF Types, MalformedBelow, VerifyM1, Receives, Reaches, slotVars, stateVars
<1>8. CASE \E c \in Connections, k \in Clients : VerifyM3(c, k)
  BY <1>8 DEF Types, MalformedBelow, VerifyM3, Receives, Encrypts, Reaches, stateVars
<1>9. CASE \E c \in Connections : SetupM1(c)
  BY <1>9
  DEF Types, MalformedBelow, SetupM1, Receives, DropsVerify, OpenWindow, Reaches, slotVars,
      stateVars
<1>10. CASE \E c \in Connections : SetupM3(c)
  BY <1>10
  DEF Types, MalformedBelow, SetupM3, Receives, SetupCurrent, Reaches, slotVars, stateVars
<1>11. CASE \E c \in Connections, k \in Clients : SetupM5(c, k)
  BY <1>11, <1>a
  DEF Types, MalformedBelow, SetupM5, Receives, SetupCurrent, ClearsSetup, Reaches, slotVars
<1>12. CASE \E c \in Connections, k \in Clients : SetupM5FailsLate(c, k)
  BY <1>12, <1>a
  DEF Types, MalformedBelow, SetupM5FailsLate, Receives, SetupCurrent, ClearsPending, Closing,
      timeVars, slotVars
<1>13. CASE WindowOpens
  BY <1>13, <1>a DEF Types, MalformedBelow, WindowOpens, authVars, timeVars, slotVars
<1>14. CASE WindowCloses
  BY <1>14, <1>a DEF Types, MalformedBelow, WindowCloses, authVars, timeVars, slotVars
<1>15. CASE \E k \in Clients : Revokes(k)
  BY <1>15 DEF Types, MalformedBelow, Revokes, authVars, timeVars, slotVars
<1>16. CASE ResetBeginsOrEnds
  BY <1>16 DEF Types, MalformedBelow, ResetBeginsOrEnds, authVars, timeVars, slotVars
<1>17. CASE UNCHANGED vars
  BY <1>17 DEF Types, MalformedBelow, vars, authVars, timeVars, slotVars, stateVars
<1> QED
  BY <1>1, <1>2, <1>3, <1>4, <1>5, <1>6, <1>7, <1>8, <1>9, <1>10, <1>11, <1>12, <1>13, <1>14,
     <1>15, <1>16, <1>17
  DEF Next, AuthFrame

\* Every message takes with it the secrets its phase held.
LEMMA SecretsStep ==
    ASSUME Types, SecretsMatchPhase, SlotsAgree, FreeSlotsBare, [Next]_vars
    PROVE  SecretsMatchPhase'
<1>1. CASE \E c \in Connections : ConnectionMade(c)
  BY <1>1
  DEF Types, SecretsMatchPhase, FreeSlotsBare, ConnectionMade, MayStart, HasRoom, stateVars
<1>2. CASE \E c \in Connections : ConnectionEnds(c) \/ ConnectionLost(c)
  BY <1>2
  DEF Types, SecretsMatchPhase, FreeSlotsBare, ConnectionEnds, ConnectionLost, Teardown,
      Releases, ClearsPending, stateVars
<1>3. CASE \E c \in Connections : DeadlineExpires(c)
  BY <1>3
  DEF Types, SecretsMatchPhase, FreeSlotsBare, DeadlineExpires, DeadlineApplies, Closing,
      authVars, slotVars, stateVars
<1>4. CASE \E c \in Connections : FrameCloses(c)
  BY <1>4
  DEF Types, SecretsMatchPhase, FreeSlotsBare, FrameCloses, Receives, Closing, authVars,
      timeVars, slotVars, stateVars
<1>5. CASE \E c \in Connections : FrameMalformed(c)
  BY <1>5
  DEF Types, SecretsMatchPhase, FreeSlotsBare, FrameMalformed, Receives, Closing, authVars,
      slotVars, stateVars
<1>6. CASE \E c \in Connections : AuthFails(c)
  BY <1>6
  DEF Types, SecretsMatchPhase, FreeSlotsBare, AuthFails, Receives, ClearsPending, Closing,
      timeVars, slotVars, stateVars
<1>7. CASE \E c \in Connections : VerifyM1(c)
  BY <1>7
  DEF Types, SecretsMatchPhase, FreeSlotsBare, VerifyM1, Receives, Reaches, slotVars, stateVars
<1>8. CASE \E c \in Connections, k \in Clients : VerifyM3(c, k)
  BY <1>8, HandshakeAssumption
  DEF HandshakeAssumption, Types, SecretsMatchPhase, FreeSlotsBare, VerifyM3, Receives,
      Encrypts, Reaches, stateVars
<1>9. CASE \E c \in Connections : SetupM1(c)
  BY <1>9
  DEF Types, SecretsMatchPhase, FreeSlotsBare, SetupM1, Receives, DropsVerify, OpenWindow,
      Reaches, slotVars, stateVars
<1>10. CASE \E c \in Connections : SetupM3(c)
  BY <1>10
  DEF Types, SecretsMatchPhase, FreeSlotsBare, SetupM3, Receives, SetupCurrent, Reaches,
      slotVars, stateVars
<1>11. CASE \E c \in Connections, k \in Clients : SetupM5(c, k)
  BY <1>11
  DEF Types, SecretsMatchPhase, FreeSlotsBare, SetupM5, Receives, SetupCurrent, ClearsSetup,
      Reaches, slotVars
<1>12. CASE \E c \in Connections, k \in Clients : SetupM5FailsLate(c, k)
  BY <1>12
  DEF Types, SecretsMatchPhase, FreeSlotsBare, SetupM5FailsLate, Receives, SetupCurrent,
      ClearsPending, Closing, timeVars, slotVars
<1>13. CASE WindowOpens
  BY <1>13
  DEF Types, SecretsMatchPhase, FreeSlotsBare, WindowOpens, authVars, timeVars, slotVars
<1>14. CASE WindowCloses
  BY <1>14
  DEF Types, SecretsMatchPhase, FreeSlotsBare, WindowCloses, authVars, timeVars, slotVars
<1>15. CASE \E k \in Clients : Revokes(k)
  BY <1>15 DEF Types, SecretsMatchPhase, FreeSlotsBare, Revokes, authVars, timeVars, slotVars
<1>16. CASE ResetBeginsOrEnds
  BY <1>16
  DEF Types, SecretsMatchPhase, FreeSlotsBare, ResetBeginsOrEnds, authVars, timeVars, slotVars
<1>17. CASE UNCHANGED vars
  BY <1>17
  DEF Types, SecretsMatchPhase, FreeSlotsBare, vars, authVars, timeVars, slotVars, stateVars
<1> QED
  BY <1>1, <1>2, <1>3, <1>4, <1>5, <1>6, <1>7, <1>8, <1>9, <1>10, <1>11, <1>12, <1>13, <1>14,
     <1>15, <1>16, <1>17
  DEF Next, AuthFrame

\* Every step that opens, encrypts or ends a connection moves it between the budgets.
LEMMA SlotsStep ==
    ASSUME Types, SecretsMatchPhase, SlotsAgree, FreeSlotsBare, [Next]_vars
    PROVE  SlotsAgree' /\ FreeSlotsBare'
<1>1. CASE \E c \in Connections : ConnectionMade(c)
  <2>1. PICK c \in Connections : ConnectionMade(c)
    BY <1>1
  <2>2. deadline' = [deadline EXCEPT ![c] = MayStart] /\ MayStart \in BOOLEAN
    BY <2>1 DEF ConnectionMade, MayStart
  <2>3. CASE MayStart
    <3>1. deadline' = [deadline EXCEPT ![c] = TRUE]
      BY <2>2, <2>3
    <3> QED
      BY <2>1, <2>3, <3>1
      DEF Types, SecretsMatchPhase, SlotsAgree, FreeSlotsBare, ConnectionMade, stateVars
  <2>4. CASE ~MayStart
    <3>1. deadline' = [deadline EXCEPT ![c] = FALSE]
      BY <2>2, <2>4
    <3> QED
      BY <2>1, <2>4, <3>1
      DEF Types, SecretsMatchPhase, SlotsAgree, FreeSlotsBare, ConnectionMade, stateVars
  <2> QED
    BY <2>3, <2>4
<1>2. CASE \E c \in Connections : ConnectionEnds(c) \/ ConnectionLost(c)
  BY <1>2
  DEF Types, SecretsMatchPhase, SlotsAgree, FreeSlotsBare, ConnectionEnds, ConnectionLost,
      Teardown, Releases, ClearsPending, stateVars
<1>3. CASE \E c \in Connections : DeadlineExpires(c)
  BY <1>3
  DEF Types, SecretsMatchPhase, SlotsAgree, FreeSlotsBare, DeadlineExpires, DeadlineApplies,
      Closing, authVars, slotVars, stateVars
<1>4. CASE \E c \in Connections : FrameCloses(c)
  BY <1>4
  DEF Types, SecretsMatchPhase, SlotsAgree, FreeSlotsBare, FrameCloses, Receives, Closing,
      authVars, timeVars, slotVars, stateVars
<1>5. CASE \E c \in Connections : FrameMalformed(c)
  BY <1>5
  DEF Types, SecretsMatchPhase, SlotsAgree, FreeSlotsBare, FrameMalformed, Receives, Closing,
      authVars, slotVars, stateVars
<1>6. CASE \E c \in Connections : AuthFails(c)
  BY <1>6
  DEF Types, SecretsMatchPhase, SlotsAgree, FreeSlotsBare, AuthFails, Receives, ClearsPending,
      Closing, timeVars, slotVars, stateVars
<1>7. CASE \E c \in Connections : VerifyM1(c)
  BY <1>7
  DEF Types, SecretsMatchPhase, SlotsAgree, FreeSlotsBare, VerifyM1, Receives, Reaches,
      slotVars, stateVars
<1>8. CASE \E c \in Connections, k \in Clients : VerifyM3(c, k)
  BY <1>8
  DEF Types, SecretsMatchPhase, SlotsAgree, FreeSlotsBare, VerifyM3, Receives, Encrypts,
      Reaches, stateVars
<1>9. CASE \E c \in Connections : SetupM1(c)
  BY <1>9
  DEF Types, SecretsMatchPhase, SlotsAgree, FreeSlotsBare, SetupM1, Receives, DropsVerify,
      OpenWindow, Reaches, slotVars, stateVars
<1>10. CASE \E c \in Connections : SetupM3(c)
  BY <1>10
  DEF Types, SecretsMatchPhase, SlotsAgree, FreeSlotsBare, SetupM3, Receives, SetupCurrent,
      Reaches, slotVars, stateVars
<1>11. CASE \E c \in Connections, k \in Clients : SetupM5(c, k)
  BY <1>11
  DEF Types, SecretsMatchPhase, SlotsAgree, FreeSlotsBare, SetupM5, Receives, SetupCurrent,
      ClearsSetup, Reaches, slotVars
<1>12. CASE \E c \in Connections, k \in Clients : SetupM5FailsLate(c, k)
  BY <1>12
  DEF Types, SecretsMatchPhase, SlotsAgree, FreeSlotsBare, SetupM5FailsLate, Receives,
      SetupCurrent, ClearsPending, Closing, timeVars, slotVars
<1>13. CASE WindowOpens
  BY <1>13
  DEF Types, SecretsMatchPhase, SlotsAgree, FreeSlotsBare, WindowOpens, authVars, timeVars,
      slotVars
<1>14. CASE WindowCloses
  BY <1>14
  DEF Types, SecretsMatchPhase, SlotsAgree, FreeSlotsBare, WindowCloses, authVars, timeVars,
      slotVars
<1>15. CASE \E k \in Clients : Revokes(k)
  BY <1>15
  DEF Types, SecretsMatchPhase, SlotsAgree, FreeSlotsBare, Revokes, authVars, timeVars, slotVars
<1>16. CASE ResetBeginsOrEnds
  BY <1>16
  DEF Types, SecretsMatchPhase, SlotsAgree, FreeSlotsBare, ResetBeginsOrEnds, authVars,
      timeVars, slotVars
<1>17. CASE UNCHANGED vars
  BY <1>17
  DEF Types, SecretsMatchPhase, SlotsAgree, FreeSlotsBare, vars, authVars, timeVars, slotVars,
      stateVars
<1> QED
  BY <1>1, <1>2, <1>3, <1>4, <1>5, <1>6, <1>7, <1>8, <1>9, <1>10, <1>11, <1>12, <1>13, <1>14,
     <1>15, <1>16, <1>17
  DEF Next, AuthFrame

\* The initial slots are free and bare.
LEMMA InitInv == Init => HandshakeInv
<1> SUFFICES ASSUME Init PROVE HandshakeInv
  OBVIOUS
<1>a. MaxWindows \in Nat /\ MalformedLimit \in Nat
  BY HandshakeAssumption DEF HandshakeAssumption
<1>b. 0 \in 0..MaxWindows /\ 0 \in 0..MalformedLimit + 1
  BY <1>a
<1>1. Types
  BY <1>b DEF Init, Types
<1>2. Budgets
  BY HandshakeAssumption, FS_EmptySet DEF HandshakeAssumption, Init, Budgets
<1>3. MalformedBelow /\ SecretsMatchPhase /\ SlotsAgree /\ FreeSlotsBare
  BY HandshakeAssumption
  DEF HandshakeAssumption, Init, MalformedBelow, SecretsMatchPhase, SlotsAgree, FreeSlotsBare
<1> QED
  BY <1>1, <1>2, <1>3 DEF HandshakeInv

\* Only a connection that finds both budgets below their limits enters them, one at a time.
LEMMA BudgetsStep ==
    ASSUME Types, Budgets, [Next]_vars
    PROVE  Budgets'
<1>1. IsFiniteSet(admitted) /\ IsFiniteSet(unauth)
  BY HandshakeAssumption, FS_Subset DEF HandshakeAssumption, Types
<1>2. /\ MaxConnections \in Nat /\ MaxUnauthenticated \in Nat
      /\ Cardinality(admitted) \in Nat /\ Cardinality(unauth) \in Nat
  BY <1>1, HandshakeAssumption, FS_CardinalityType DEF HandshakeAssumption
<1>3. ASSUME NEW c \in Connections, ConnectionMade(c), MayStart
      PROVE  Budgets'
  <2>1. admitted' = admitted \cup {c} /\ unauth' = unauth \cup {c}
    BY <1>3 DEF ConnectionMade
  <2>2. /\ Cardinality(admitted') <= Cardinality(admitted) + 1
        /\ Cardinality(unauth') <= Cardinality(unauth) + 1
    <3>1. \A S : IsFiniteSet(S) /\ Cardinality(S) \in Nat
              => Cardinality(S \cup {c}) <= Cardinality(S) + 1
      BY FS_AddElement
    <3> QED
      BY <1>1, <1>2, <2>1, <3>1
  <2>3. Cardinality(admitted) < MaxConnections /\ Cardinality(unauth) < MaxUnauthenticated
    BY <1>3 DEF MayStart, HasRoom
  <2>4. Cardinality(admitted') \in Nat /\ Cardinality(unauth') \in Nat
    BY <1>1, <2>1, FS_AddElement, FS_CardinalityType
  <2> QED
    BY <1>2, <2>2, <2>3, <2>4 DEF Budgets
<1>4. ASSUME admitted' \subseteq admitted, unauth' \subseteq unauth
      PROVE  Budgets'
  <2>1. /\ Cardinality(admitted') \in Nat /\ Cardinality(admitted') <= Cardinality(admitted)
        /\ Cardinality(unauth') \in Nat /\ Cardinality(unauth') <= Cardinality(unauth)
    BY <1>1, <1>4, FS_Subset, FS_CardinalityType
  <2> QED
    BY <1>2, <2>1 DEF Budgets
<1>5. CASE \E c \in Connections : ConnectionMade(c)
  <2>1. PICK c \in Connections : ConnectionMade(c)
    BY <1>5
  <2>2. CASE MayStart
    BY <1>3, <2>1, <2>2
  <2>3. CASE ~MayStart
    <3>1. admitted' = admitted /\ unauth' = unauth
      BY <2>1, <2>3 DEF ConnectionMade
    <3> QED
      BY <1>4, <3>1
  <2> QED
    BY <2>2, <2>3
<1>6. CASE \E c \in Connections : ConnectionEnds(c) \/ ConnectionLost(c)
  BY <1>4, <1>6 DEF ConnectionEnds, ConnectionLost, Teardown, Releases
<1>7. CASE \E c \in Connections, k \in Clients : VerifyM3(c, k)
  BY <1>4, <1>7 DEF VerifyM3, Encrypts
<1>8. CASE \E c \in Connections : DeadlineExpires(c) \/ FrameCloses(c) \/ FrameMalformed(c)
  BY <1>4, <1>8 DEF DeadlineExpires, FrameCloses, FrameMalformed, slotVars
<1>9. CASE \E c \in Connections : AuthFails(c) \/ VerifyM1(c) \/ SetupM1(c) \/ SetupM3(c)
  BY <1>4, <1>9 DEF AuthFails, VerifyM1, SetupM1, SetupM3, slotVars
<1>10. CASE \E c \in Connections, k \in Clients : SetupM5(c, k) \/ SetupM5FailsLate(c, k)
  BY <1>4, <1>10 DEF SetupM5, SetupM5FailsLate, slotVars
<1>11. CASE WindowOpens \/ WindowCloses \/ ResetBeginsOrEnds \/ \E k \in Clients : Revokes(k)
  BY <1>4, <1>11 DEF WindowOpens, WindowCloses, ResetBeginsOrEnds, Revokes, slotVars
<1>12. CASE UNCHANGED vars
  BY <1>4, <1>12 DEF vars, slotVars
<1> QED
  BY <1>5, <1>6, <1>7, <1>8, <1>9, <1>10, <1>11, <1>12 DEF Next, AuthFrame

-----------------------------------------------------------------------------
\* The inductive invariant holds in every reachable state.
THEOREM HandshakeInvariant == Spec => []HandshakeInv
<1>1. HandshakeInv /\ [Next]_vars => HandshakeInv'
  BY TypesStep, BudgetsStep, SecretsStep, SlotsStep DEF HandshakeInv
<1> QED
  BY <1>1, InitInv, PTL DEF Spec

\* Type correctness; with it, ConnectionAdmission never admits more connections, nor more that
\* are not authenticated, than it was configured to.
THEOREM HandshakeTypes == Spec => []TypeOK
<1>1. HandshakeInv => TypeOK
  BY DEF HandshakeInv, Types, Budgets, TypeOK
<1> QED
  BY <1>1, HandshakeInvariant, PTL

\* After every frame, deadline, close and restart, the ephemeral keys, the setup session, the
\* client and the cipher that a connection holds are those its _auth_phase calls for.
THEOREM PhaseHoldsItsSecrets == Spec => []SecretsMatchPhase
<1>1. HandshakeInv => SecretsMatchPhase
  BY DEF HandshakeInv
<1> QED
  BY <1>1, HandshakeInvariant, PTL

\* acquire, authenticated and release keep both budgets equal to the connections they count, on
\* every path a connection can take to its end.
THEOREM BudgetsCountConnections == Spec => []SlotsAgree
<1>1. HandshakeInv => SlotsAgree
  BY DEF HandshakeInv
<1> QED
  BY <1>1, HandshakeInvariant, PTL
=============================================================================
