------------------------------- MODULE Handshake -------------------------------
(***************************************************************************)
(* A phone's TCP connection from its acceptance to its end                 *)
(* (FakeCompanionService, companion/protocol/appletv.py): admission, the   *)
(* authentication deadline, the pair-setup and pair-verify exchanges       *)
(* (CompanionServerAuth, companion/protocol/auth.py) and the installation  *)
(* of the session keys.                                                    *)
(*                                                                         *)
(* A frame is one step.  Whether a message's cryptography is right, and    *)
(* whether the two pairing limiters let it pass, is left open: every       *)
(* authentication message may fail.                                        *)
(***************************************************************************)
EXTENDS Naturals, FiniteSets

CONSTANTS
    Connections,        \* slots for TCP connections, used again and again
    Clients,            \* controllers
    NoClient,           \* _verified_client_identifier is None
    MaxConnections,     \* max_connections
    MaxUnauthenticated, \* max_unauthenticated
    MalformedLimit,     \* MALFORMED_FRAME_LIMIT
    MaxWindows          \* bound: enrollment windows opened

ASSUME HandshakeAssumption ==
    /\ NoClient \notin Clients
    /\ IsFiniteSet(Connections)
    /\ {MaxConnections, MaxUnauthenticated, MalformedLimit} \subseteq Nat \ {0}
    /\ MaxWindows \in Nat

VARIABLES
    conn,      \* each connection: "none", "open", "closing" or "rejected"
    phase,     \* _auth_phase
    verifying, \* the keys and ephemerals of a pair-verify M1 are held
    setup,     \* the window of the pair-setup session that is held; 0 if none is
    proved,    \* _setup_proof_verified
    client,    \* _verified_client_identifier
    chacha,    \* the connection is encrypted
    deadline,  \* _auth_timeout_handle is pending
    malformed, \* _malformed_frames
    admitted,  \* ConnectionAdmission._connections
    unauth,    \* ConnectionAdmission._unauthenticated
    enrolled,  \* the paired clients
    window,    \* the enrollment window that is open; 0 if none is
    windows,   \* how many have been opened
    resetting  \* a recovery marker is there

authVars  == <<phase, verifying, setup, proved, client>>
timeVars  == <<deadline, malformed>>
slotVars  == <<admitted, unauth>>
stateVars == <<enrolled, window, windows, resetting>>
vars == <<conn, authVars, chacha, timeVars, slotVars, stateVars>>

TypeOK ==
    /\ conn \in [Connections -> {"none", "open", "closing", "rejected"}]
    /\ phase \in [Connections -> {"IDLE", "SETUP_M3", "SETUP_M5", "SETUP_COMPLETE", "VERIFY_M3",
                                  "ENCRYPTED", "FAILED", "CLOSED"}]
    /\ verifying \in [Connections -> BOOLEAN]
    /\ setup \in [Connections -> 0..MaxWindows]
    /\ proved \in [Connections -> BOOLEAN]
    /\ client \in [Connections -> Clients \cup {NoClient}]
    /\ chacha \in [Connections -> BOOLEAN]
    /\ deadline \in [Connections -> BOOLEAN]
    /\ malformed \in [Connections -> 0..MalformedLimit + 1]
    /\ admitted \subseteq Connections /\ Cardinality(admitted) <= MaxConnections
    /\ unauth \subseteq admitted /\ Cardinality(unauth) <= MaxUnauthenticated
    /\ enrolled \subseteq Clients
    /\ window \in 0..MaxWindows
    /\ windows \in 0..MaxWindows
    /\ resetting \in BOOLEAN

Init ==
    /\ conn = [c \in Connections |-> "none"]
    /\ phase = [c \in Connections |-> "CLOSED"]
    /\ verifying = [c \in Connections |-> FALSE]
    /\ setup = [c \in Connections |-> 0]
    /\ proved = [c \in Connections |-> FALSE]
    /\ client = [c \in Connections |-> NoClient]
    /\ chacha = [c \in Connections |-> FALSE]
    /\ deadline = [c \in Connections |-> FALSE]
    /\ malformed = [c \in Connections |-> 0]
    /\ admitted = {} /\ unauth = {}
    /\ enrolled \in SUBSET Clients
    /\ window = 0 /\ windows = 0 /\ resetting = FALSE

-----------------------------------------------------------------------------
(* The connection.                                                          *)

HasRoomForOneMore == Cardinality(admitted) <= MaxConnections   \* faulty: off by one

\* ConnectionAdmission.acquire
HasRoom == Cardinality(admitted) < MaxConnections
MayStart == HasRoom /\ Cardinality(unauth) < MaxUnauthenticated

\* A new service instance, admitted or turned away.
ConnectionMade(c) ==
    /\ conn[c] = "none"
    /\ conn' = [conn EXCEPT ![c] = IF MayStart THEN "open" ELSE "rejected"]
    /\ admitted' = IF MayStart THEN admitted \cup {c} ELSE admitted
    /\ unauth' = IF MayStart THEN unauth \cup {c} ELSE unauth
    /\ deadline' = [deadline EXCEPT ![c] = MayStart]
    /\ phase' = [phase EXCEPT ![c] = "IDLE"]
    /\ malformed' = [malformed EXCEPT ![c] = 0]
    /\ UNCHANGED <<verifying, setup, proved, client, chacha, stateVars>>

\* _close_connection: frames are ignored from now on, connection_lost comes later.
Closing(c) == conn' = [conn EXCEPT ![c] = "closing"]

\* _clear_pending_auth_state
ClearsPending(c) ==
    /\ verifying' = [verifying EXCEPT ![c] = FALSE]
    /\ setup' = [setup EXCEPT ![c] = 0]
    /\ proved' = [proved EXCEPT ![c] = FALSE]
    /\ client' = [client EXCEPT ![c] = NoClient]

\* ConnectionAdmission.release
Releases(c) == admitted' = admitted \ {c} /\ unauth' = unauth \ {c}

\* _teardown_connection
Teardown(c) ==
    /\ conn' = [conn EXCEPT ![c] = "none"]
    /\ deadline' = [deadline EXCEPT ![c] = FALSE]
    /\ Releases(c)
    /\ chacha' = [chacha EXCEPT ![c] = FALSE]
    /\ ClearsPending(c)
    /\ phase' = [phase EXCEPT ![c] = "CLOSED"]
    /\ UNCHANGED <<malformed, stateVars>>

\* The peer closes the connection, or the server shuts down.
ConnectionEnds(c) == conn[c] = "open" /\ Teardown(c)

\* connection_lost, after the transport was closed from this side.
ConnectionLost(c) == conn[c] \in {"closing", "rejected"} /\ Teardown(c)

DeadlineWatchesPhase(c) == phase[c] = "IDLE"          \* faulty: a stalled handshake is spared
DeadlineApplies(c) == ~chacha[c]

DeadlineExpires(c) ==
    /\ deadline[c]
    /\ deadline' = [deadline EXCEPT ![c] = FALSE]
    /\ IF DeadlineApplies(c) THEN Closing(c) ELSE UNCHANGED conn
    /\ UNCHANGED <<authVars, chacha, malformed, slotVars, stateVars>>

-----------------------------------------------------------------------------
(* Frames.                                                                  *)

Receives(c) == conn[c] = "open"

\* An oversized frame; once encrypted also an authentication frame, one that does not decrypt, or
\* any frame of a client that is no longer authorized.
FrameCloses(c) ==
    /\ Receives(c)
    /\ Closing(c)
    /\ UNCHANGED <<authVars, chacha, timeVars, slotVars, stateVars>>

\* A frame of an unknown type, or that cannot be decoded or handled; before encryption also one
\* that is no auth frame.  A touch message is decoded twice, and either may fail: handle__hidt.
FrameMalformed(c) ==
    /\ Receives(c)
    /\ \E n \in IF chacha[c] THEN 1..2 ELSE {1} :
          /\ malformed' = [malformed EXCEPT ![c] = @ + n]
          /\ IF malformed[c] + n >= MalformedLimit THEN Closing(c) ELSE UNCHANGED conn
    /\ UNCHANGED <<authVars, chacha, deadline, slotVars, stateVars>>

Reaches(c, p) ==
    /\ phase' = [phase EXCEPT ![c] = p]
    /\ UNCHANGED <<conn, malformed>>

\* The message is out of order or undecodable, or its handler refuses it.
AuthFails(c) ==
    /\ Receives(c) /\ ~chacha[c]
    /\ ClearsPending(c)
    /\ phase' = [phase EXCEPT ![c] = "FAILED"]
    /\ Closing(c)
    /\ UNCHANGED <<chacha, timeVars, slotVars, stateVars>>

VerifyM1(c) ==
    /\ Receives(c) /\ phase[c] \in {"IDLE", "SETUP_COMPLETE"}
    /\ ~resetting
    /\ verifying' = [verifying EXCEPT ![c] = TRUE]
    /\ client' = [client EXCEPT ![c] = NoClient]
    /\ Reaches(c, "VERIFY_M3")
    /\ UNCHANGED <<setup, proved, chacha, deadline, slotVars, stateVars>>

EncryptsInBudget(c) ==                                \* faulty: admission is not told
    /\ chacha' = [chacha EXCEPT ![c] = TRUE]
    /\ deadline' = [deadline EXCEPT ![c] = FALSE]
    /\ UNCHANGED slotVars

\* enable_encryption
Encrypts(c) ==
    /\ chacha' = [chacha EXCEPT ![c] = TRUE]
    /\ deadline' = [deadline EXCEPT ![c] = FALSE]
    /\ unauth' = unauth \ {c}
    /\ UNCHANGED admitted

Authorized(k) == ~resetting /\ k \in enrolled

\* The proof of client k for the keys that are held.
VerifyM3(c, k) ==
    /\ Receives(c) /\ phase[c] = "VERIFY_M3"
    /\ verifying[c] /\ Authorized(k)
    /\ client' = [client EXCEPT ![c] = k]
    /\ verifying' = [verifying EXCEPT ![c] = FALSE]
    /\ Encrypts(c)
    /\ Reaches(c, "ENCRYPTED")
    /\ UNCHANGED <<setup, proved, stateVars>>

\* What _m1_setup drops first: the phone falls back from a pair-verify it gave up.
KeepsVerify(c) == UNCHANGED <<verifying, client>>     \* faulty
DropsVerify(c) ==
    /\ verifying' = [verifying EXCEPT ![c] = FALSE]
    /\ client' = [client EXCEPT ![c] = NoClient]

OpenWindow == IF resetting THEN 0 ELSE window

SetupM1(c) ==
    /\ Receives(c) /\ phase[c] \in {"IDLE", "VERIFY_M3"}
    /\ OpenWindow # 0
    /\ DropsVerify(c)
    /\ setup' = [setup EXCEPT ![c] = OpenWindow]
    /\ proved' = [proved EXCEPT ![c] = FALSE]
    /\ Reaches(c, "SETUP_M3")
    /\ UNCHANGED <<chacha, deadline, slotVars, stateVars>>

\* _setup_window_is_current: the window the handshake began under is still the open one.
SetupCurrent(c) == setup[c] # 0 /\ setup[c] = OpenWindow

SetupM3(c) ==
    /\ Receives(c) /\ phase[c] = "SETUP_M3"
    /\ SetupCurrent(c) /\ ~proved[c]
    /\ proved' = [proved EXCEPT ![c] = TRUE]
    /\ Reaches(c, "SETUP_M5")
    /\ UNCHANGED <<verifying, setup, client, chacha, deadline, slotVars, stateVars>>

\* _clear_setup_session
ClearsSetup(c) == proved' = [proved EXCEPT ![c] = FALSE] /\ setup' = [setup EXCEPT ![c] = 0]

SetupM5(c, k) ==
    /\ Receives(c) /\ phase[c] = "SETUP_M5"
    /\ SetupCurrent(c) /\ proved[c]
    /\ enrolled' = enrolled \cup {k}
    /\ ClearsSetup(c)
    /\ Reaches(c, "SETUP_COMPLETE")
    /\ UNCHANGED <<verifying, client, chacha, deadline, slotVars, window, windows, resetting>>

\* The client is stored, but the store reports an error, or the answer cannot be made or sent.
SetupM5FailsLate(c, k) ==
    /\ Receives(c) /\ phase[c] = "SETUP_M5"
    /\ SetupCurrent(c) /\ proved[c]
    /\ enrolled' = enrolled \cup {k}
    /\ ClearsPending(c)
    /\ phase' = [phase EXCEPT ![c] = "FAILED"]
    /\ Closing(c)
    /\ UNCHANGED <<chacha, timeVars, slotVars, window, windows, resetting>>

-----------------------------------------------------------------------------
(* Other processes: pair, expiry and unpair; revoke; recovery markers.      *)

WindowOpens ==
    /\ windows < MaxWindows
    /\ windows' = windows + 1 /\ window' = windows + 1
    /\ UNCHANGED <<conn, authVars, chacha, timeVars, slotVars, enrolled, resetting>>

WindowCloses ==
    /\ window' = 0
    /\ UNCHANGED <<conn, authVars, chacha, timeVars, slotVars, enrolled, windows, resetting>>

Revokes(k) ==
    /\ enrolled' = enrolled \ {k}
    /\ UNCHANGED <<conn, authVars, chacha, timeVars, slotVars, window, windows, resetting>>

ResetBeginsOrEnds ==
    /\ resetting' = ~resetting
    /\ UNCHANGED <<conn, authVars, chacha, timeVars, slotVars, enrolled, window, windows>>

AuthFrame(c) ==
    \/ VerifyM1(c) \/ SetupM1(c) \/ SetupM3(c) \/ AuthFails(c)
    \/ \E k \in Clients : VerifyM3(c, k) \/ SetupM5(c, k) \/ SetupM5FailsLate(c, k)

Next ==
    \/ \E c \in Connections :
          \/ ConnectionMade(c) \/ ConnectionEnds(c) \/ ConnectionLost(c) \/ DeadlineExpires(c)
          \/ AuthFrame(c) \/ FrameCloses(c) \/ FrameMalformed(c)
    \/ WindowOpens \/ WindowCloses \/ ResetBeginsOrEnds
    \/ \E k \in Clients : Revokes(k)

Spec == Init /\ [][Next]_vars

(* Fairness: the event loop runs a timer that is due, and calls             *)
(* connection_lost for a transport that was closed.  None for the phone.    *)
FairSpec ==
    /\ Spec
    /\ \A c \in Connections : WF_vars(DeadlineExpires(c)) /\ WF_vars(ConnectionLost(c))

-----------------------------------------------------------------------------
(* Properties.                                                              *)

\* The secrets of an exchange exist exactly while its next message may come: a verify that was
\* given up for a setup, a refused message, a finished setup and a closed connection leave neither
\* keys nor a setup session nor a claimed client behind.
SecretsMatchPhase ==
    \A c \in Connections :
        /\ verifying[c] <=> phase[c] = "VERIFY_M3"
        /\ setup[c] # 0 <=> phase[c] \in {"SETUP_M3", "SETUP_M5"}
        /\ proved[c] <=> phase[c] = "SETUP_M5"
        /\ client[c] # NoClient <=> phase[c] = "ENCRYPTED"
        /\ chacha[c] <=> phase[c] = "ENCRYPTED"

\* The two admission budgets count the connections they are meant to count, and every connection
\* in the smaller one has its deadline ahead or is on its way out.
SlotsAgree ==
    /\ admitted = {c \in Connections : conn[c] \in {"open", "closing"}}
    /\ unauth = {c \in admitted : ~chacha[c]}
    /\ \A c \in Connections : conn[c] = "open" => (deadline[c] <=> c \in unauth)

\* No peer holds a place in the pre-authentication budget for ever.
SlotsFreed == \A c \in Connections : c \in unauth ~> c \notin unauth
=============================================================================
