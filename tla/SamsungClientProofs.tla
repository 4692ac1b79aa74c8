------------------------ MODULE SamsungClientProofs ------------------------
(***************************************************************************)
(* The Samsung client, for any cool-down and any number of connections.    *)
(*                                                                         *)
(* IInv ties the place the lock's holder has reached to the sockets, to    *)
(* the failure on record and to what it has written.  OneSocket follows    *)
(* from the first, DropReconnects from the second, AuthorizedWrites from   *)
(* the third.                                                              *)
(***************************************************************************)
EXTENDS SamsungClient, TLAPS

\* The types of TypeOK, those of the flags apart.
DataOK ==
    /\ op \in [Callers -> {"none", "connect", "key", "text", "close"}]
    /\ holder \in Callers \cup {"none"}
    /\ step \in {"none", "locked", "connecting", "cleaning", "send", "priming", "writing",
                 "dropping"}
    /\ attempt \in {1, 2}
    /\ socket \in [Sockets -> {"none", "connecting", "ready", "closing"}]
    /\ remote \in 0..MaxSockets
    /\ candidate \in 0..MaxSockets
    /\ age \in 0..Interval
    /\ stage \in {"starting", "running", "stopped"}
    /\ written \in 0..2

FlagsOK ==
    /\ failed \in BOOLEAN
    /\ lastFailed \in BOOLEAN
    /\ firstTextSent \in BOOLEAN
    /\ authorized \in BOOLEAN
    /\ primed \in BOOLEAN
    /\ raced \in BOOLEAN

HolderInv ==
    /\ holder = "none" <=> step = "none"
    /\ holder # "none" => op[holder] # "none"

\* The only connection being opened is the candidate of a connecting holder, the only open one is
\* _remote, and a holder is past its check exactly while there is one.
SocketInv ==
    /\ \A s \in Sockets : socket[s] = "connecting" <=> step = "connecting" /\ s = candidate
    /\ \A s \in Sockets : socket[s] = "ready" <=> s = remote
    /\ candidate # 0 => step \in {"connecting", "cleaning"}
    /\ step \in {"connecting", "cleaning"} => candidate # 0
    /\ step \in {"connecting", "cleaning", "dropping"} => remote = 0
    /\ step \in {"send", "priming", "writing"} => remote # 0

\* A failure is only on record while there is no socket, nor one just dropped.
FailureInv == lastFailed => remote = 0 /\ step # "dropping"

\* One write for each attempt begun.
WriteInv ==
    /\ IF step = "writing" THEN written <= attempt ELSE written < attempt
    /\ step \in {"none", "locked"} => attempt = 1

\* Where the holder is.
PlaceInv == DataOK /\ HolderInv /\ SocketInv /\ WriteInv

IInv == PlaceInv /\ FlagsOK /\ FailureInv

\* The flag is set only on a connection, and only after a broadcast that the TV's field has had or
\* that a keyboard event raced.
TextInv ==
    /\ firstTextSent => remote # 0
    /\ firstTextSent \/ step = "priming" => primed \/ raced

-----------------------------------------------------------------------------

\* The initial state: nothing is held or open (SamsungFrameClient.__init__).
LEMMA InitIInv == Init => IInv
<1> USE ClientAssumption DEF ClientAssumption, Init, Callers, Sockets
<1>1. Init => PlaceInv
  BY DEF PlaceInv, DataOK, HolderInv, SocketInv, WriteInv
<1>2. Init => FlagsOK
  BY DEF FlagsOK
<1>3. Init => FailureInv
  BY DEF FailureInv
<1> QED BY <1>1, <1>2, <1>3 DEF IInv

\* Connecting, from the check of the cool-down to the end of the clean-up (_connect_locked).
LEMMA ConnectPlace ==
    ASSUME IInv, NeedsConnection \/ HasConnection \/ Reconnects
    PROVE  PlaceInv'
<1> USE ClientAssumption DEF ClientAssumption, IInv, PlaceInv, Callers, Sockets, Op, Goes, Finish,
        netVars, timeVars, textVars, callVars
<1> USE DEF DataOK, FlagsOK, HolderInv, SocketInv, WriteInv
<1>1. CASE NeedsConnection
  <2>1. CASE ConnectBegins
    BY <1>1, <2>1 DEF NeedsConnection, Connect, ConnectBegins
  <2>2. CASE ConnectRefused \/ CooldownRaises
    BY <1>1, <2>2 DEF NeedsConnection, Connect, ConnectRefused, CooldownRaises
  <2> QED BY <1>1, <2>1, <2>2 DEF NeedsConnection, Connect
<1>2. CASE HasConnection
  BY <1>2 DEF HasConnection
<1>3. CASE Reconnects
  <2>1. CASE ConnectBegins
    BY <1>3, <2>1 DEF Reconnects, Connect, ConnectBegins
  <2>2. CASE ConnectRefused \/ CooldownRaises
    BY <1>3, <2>2 DEF Reconnects, Connect, ConnectRefused, CooldownRaises
  <2> QED BY <1>3, <2>1, <2>2 DEF Reconnects, Connect
<1> QED BY <1>1, <1>2, <1>3

\* How a connect ends: ready, failed or cancelled (_connect_locked).
LEMMA ConnectedPlace ==
    ASSUME IInv, Connected \/ ConnectFails \/ CancelConnect \/ CleanupEnds
    PROVE  PlaceInv'
<1> USE ClientAssumption DEF ClientAssumption, IInv, PlaceInv, Callers, Sockets, Op, Goes, Finish,
        netVars, timeVars, textVars, callVars
<1> USE DEF DataOK, FlagsOK, HolderInv, SocketInv, WriteInv
<1>1. CASE Connected
  BY <1>1 DEF Connected, ClearsFailure
<1>2. CASE ConnectFails
  BY <1>2 DEF ConnectFails, CleansUp
<1>3. CASE CancelConnect
  BY <1>3 DEF CancelConnect, CleansUp
<1>4. CASE CleanupEnds
  BY <1>4 DEF CleanupEnds
<1> QED BY <1>1, <1>2, <1>3, <1>4

\* Sending, its one retry and closing (_send_with_retry_locked, close).
LEMMA SendPlace ==
    ASSUME IInv,
           \/ SendKey \/ SendBroadcast \/ BroadcastReturns \/ SendText \/ SendRevoked
           \/ SendReturns \/ SendRaises \/ CloseBegins \/ CloseEnds \/ CancelHolder
    PROVE  PlaceInv'
<1> USE ClientAssumption DEF ClientAssumption, IInv, PlaceInv, Callers, Sockets, Op, Goes, Finish,
        netVars, timeVars, textVars, callVars
<1> USE DEF DataOK, FlagsOK, HolderInv, SocketInv, WriteInv
<1>1. CASE SendKey BY <1>1 DEF SendKey
<1>2. CASE SendBroadcast BY <1>2 DEF SendBroadcast
<1>3. CASE BroadcastReturns BY <1>3 DEF BroadcastReturns
<1>4. CASE SendText BY <1>4 DEF SendText
<1>5. CASE SendRevoked BY <1>5 DEF SendRevoked
<1>6. CASE SendReturns BY <1>6 DEF SendReturns
<1>7. CASE SendRaises BY <1>7 DEF SendRaises, MayRetry, DropsRemote
<1>8. CASE CloseBegins BY <1>8 DEF CloseBegins, DropsRemote
<1>9. CASE CloseEnds BY <1>9 DEF CloseEnds
<1>10. CASE CancelHolder BY <1>10 DEF CancelHolder
<1> QED BY <1>1, <1>2, <1>3, <1>4, <1>5, <1>6, <1>7, <1>8, <1>9, <1>10

\* The callers, the lock and the environment.
LEMMA CallPlace ==
    ASSUME IInv,
           \/ \E c \in Callers, o \in {"connect", "key", "text", "close"} : Call(c, o)
           \/ \E c \in Callers : Acquire(c) \/ CancelWaiting(c)
           \/ ImeEvent \/ Tick \/ AuthorityChanges
           \/ UNCHANGED vars
    PROVE  PlaceInv'
<1> USE ClientAssumption DEF ClientAssumption, IInv, PlaceInv, Callers, Sockets, netVars, timeVars,
        textVars, callVars
<1> USE DEF DataOK, FlagsOK, HolderInv, SocketInv, WriteInv
<1>1. CASE \E c \in Callers, o \in {"connect", "key", "text", "close"} : Call(c, o)
  BY <1>1 DEF Call
<1>2. CASE \E c \in Callers : Acquire(c)
  BY <1>2 DEF Acquire
<1>3. CASE \E c \in Callers : CancelWaiting(c)
  BY <1>3 DEF CancelWaiting
<1>4. CASE ImeEvent \/ Tick \/ AuthorityChanges
  BY <1>4 DEF ImeEvent, EventClearsFlag, Tick, AuthorityChanges
<1>5. CASE UNCHANGED vars
  BY <1>5 DEF vars
<1> QED BY <1>1, <1>2, <1>3, <1>4, <1>5

\* The flags stay Boolean.
LEMMA FlagsStep ==
    ASSUME IInv, [Next]_vars
    PROVE  FlagsOK'
<1> USE DEF IInv, FlagsOK, Goes, Finish, netVars, timeVars, textVars, callVars
<1>1. CASE NeedsConnection \/ Reconnects
  BY <1>1 DEF NeedsConnection, Reconnects, Connect, ConnectBegins, ConnectRefused,
              CooldownRaises
<1>2. CASE HasConnection \/ Connected \/ ConnectFails \/ CancelConnect \/ CleanupEnds
  BY <1>2 DEF HasConnection, Connected, ClearsFailure, ConnectFails, CancelConnect, CleansUp,
              CleanupEnds
<1>3. CASE SendKey \/ SendText \/ SendBroadcast \/ BroadcastReturns
  BY <1>3 DEF SendKey, SendText, SendBroadcast, BroadcastReturns
<1>4. CASE SendRevoked \/ SendReturns
  BY <1>4 DEF SendRevoked, SendReturns
<1>5. CASE SendRaises
  BY <1>5 DEF SendRaises, MayRetry, DropsRemote
<1>6. CASE CloseBegins \/ CloseEnds
  BY <1>6 DEF CloseBegins, CloseEnds, DropsRemote
<1>7. CASE CancelHolder
  BY <1>7 DEF CancelHolder
<1>8. CASE \E c \in Callers, o \in {"connect", "key", "text", "close"} : Call(c, o)
  BY <1>8 DEF Call
<1>9. CASE \E c \in Callers : Acquire(c) \/ CancelWaiting(c)
  BY <1>9 DEF Acquire, CancelWaiting
<1>10. CASE ImeEvent \/ Tick \/ AuthorityChanges
  BY <1>10 DEF ImeEvent, EventClearsFlag, Tick, AuthorityChanges
<1>11. CASE UNCHANGED vars
  BY <1>11 DEF vars
<1> QED BY <1>1, <1>2, <1>3, <1>4, <1>5, <1>6, <1>7, <1>8, <1>9, <1>10, <1>11 DEF Next, HolderStep

\* Only the end of a failed connect puts a failure on record, and a connection clears it
\* (_connect_locked).
LEMMA FailureStep ==
    ASSUME IInv, [Next]_vars
    PROVE  FailureInv'
<1> USE DEF IInv, PlaceInv, DataOK, FlagsOK, SocketInv, FailureInv, Goes, Finish, netVars, timeVars,
        textVars, callVars
<1>1. CASE NeedsConnection \/ Reconnects
  BY <1>1 DEF NeedsConnection, Reconnects, Connect, ConnectBegins, ConnectRefused,
              CooldownRaises
<1>2. CASE HasConnection \/ Connected \/ ConnectFails \/ CancelConnect \/ CleanupEnds
  BY <1>2 DEF HasConnection, Connected, ClearsFailure, ConnectFails, CancelConnect, CleansUp,
              CleanupEnds
<1>3. CASE SendKey \/ SendText \/ SendBroadcast \/ BroadcastReturns
  BY <1>3 DEF SendKey, SendText, SendBroadcast, BroadcastReturns
<1>4. CASE SendRevoked \/ SendReturns
  BY <1>4 DEF SendRevoked, SendReturns
<1>5. CASE SendRaises
  BY <1>5 DEF SendRaises, MayRetry, DropsRemote
<1>6. CASE CloseBegins \/ CloseEnds
  BY <1>6 DEF CloseBegins, CloseEnds, DropsRemote
<1>7. CASE CancelHolder
  BY <1>7 DEF CancelHolder
<1>8. CASE \E c \in Callers, o \in {"connect", "key", "text", "close"} : Call(c, o)
  BY <1>8 DEF Call
<1>9. CASE \E c \in Callers : Acquire(c) \/ CancelWaiting(c)
  BY <1>9 DEF Acquire, CancelWaiting
<1>10. CASE ImeEvent \/ Tick \/ AuthorityChanges
  BY <1>10 DEF ImeEvent, EventClearsFlag, Tick, AuthorityChanges
<1>11. CASE UNCHANGED vars
  BY <1>11 DEF vars
<1> QED BY <1>1, <1>2, <1>3, <1>4, <1>5, <1>6, <1>7, <1>8, <1>9, <1>10, <1>11 DEF Next, HolderStep

\* The invariant of every behaviour of the client.
THEOREM SamsungClientInvariant == Spec => []IInv
<1>1. IInv /\ [Next]_vars => IInv'
  BY ConnectPlace, ConnectedPlace, SendPlace, CallPlace, FlagsStep, FailureStep
  DEF IInv, Next, HolderStep
<1> QED BY InitIInv, <1>1, PTL DEF Spec

\* Types (SamsungFrameClient.__init__).
THEOREM SamsungClientTypes == Spec => []TypeOK
<1>1. DataOK /\ FlagsOK => TypeOK
  BY Zenon DEF DataOK, FlagsOK, TypeOK
<1>2. IInv => TypeOK
  BY <1>1 DEF IInv, PlaceInv
<1> QED BY SamsungClientInvariant, <1>2, PTL

\* One socket, whatever fails or is cancelled (_connect_locked, _close_locked).
THEOREM SamsungOneSocket == Spec => []OneSocket
<1>1. IInv => OneSocket
  BY ClientAssumption
  DEF ClientAssumption, IInv, PlaceInv, DataOK, SocketInv, OneSocket, Sockets
<1> QED BY SamsungClientInvariant, <1>1, PTL

\* The cool-down never meets a dropped socket's reconnect (_raise_if_connect_cooling_down).
THEOREM SamsungDropReconnects == Spec => []DropReconnects
<1>1. IInv => DropReconnects
  BY DEF IInv, FailureInv, DropReconnects, CoolingDown
<1> QED BY SamsungClientInvariant, <1>1, PTL

\* A write is authorized when it is made, and a command has two at most (_send_with_retry_locked,
\* require_authorized).
THEOREM SamsungAuthorizedWrites == Spec => AuthorizedWrites
<1> DEFINE A == written' > written \/ (step = "send" /\ step' = "priming") =>
                  authorized /\ written' <= 2
<1>1. IInv /\ [Next]_vars => [A]_vars
  <2> SUFFICES ASSUME IInv, Next PROVE A
    OBVIOUS
  <2> USE DEF IInv, PlaceInv, DataOK, FlagsOK, WriteInv, A, netVars, timeVars, textVars, callVars
  <2>1. CASE SendKey \/ SendText
    BY <2>1 DEF SendKey, SendText, Authorized
  <2>2. CASE SendBroadcast
    BY <2>2 DEF SendBroadcast, Authorized, Goes
  <2>3. CASE NeedsConnection \/ Reconnects
    BY <2>3 DEF NeedsConnection, Reconnects, Connect, ConnectBegins, ConnectRefused,
                CooldownRaises, Goes, Finish
  <2>4. CASE HasConnection \/ Connected \/ ConnectFails \/ CancelConnect \/ CleanupEnds
    BY <2>4 DEF HasConnection, Connected, ConnectFails, CancelConnect, CleanupEnds, CleansUp,
                Goes, Finish
  <2>5. CASE BroadcastReturns \/ SendRevoked \/ SendReturns \/ SendRaises \/ CancelHolder
    BY <2>5 DEF BroadcastReturns, SendRevoked, SendReturns, SendRaises, CancelHolder, MayRetry,
                DropsRemote, Goes, Finish
  <2>6. CASE CloseBegins \/ CloseEnds
    BY <2>6 DEF CloseBegins, CloseEnds, DropsRemote, Goes, Finish
  <2>7. CASE \E c \in Callers, o \in {"connect", "key", "text", "close"} : Call(c, o)
    BY <2>7 DEF Call
  <2>8. CASE \E c \in Callers : Acquire(c) \/ CancelWaiting(c)
    BY <2>8 DEF Acquire, CancelWaiting
  <2>9. CASE ImeEvent \/ Tick \/ AuthorityChanges
    BY <2>9 DEF ImeEvent, Tick, AuthorityChanges
  <2> QED BY <2>1, <2>2, <2>3, <2>4, <2>5, <2>6, <2>7, <2>8, <2>9 DEF Next, HolderStep
<1> QED BY SamsungClientInvariant, <1>1, PTL DEF Spec, AuthorizedWrites

\* TextInv in a step: the broadcast is on record only for the socket and the field that had it.
LEMMA TextStep ==
    ASSUME IInv, TextInv, [Next]_vars
    PROVE  TextInv'
<1> USE DEF IInv, PlaceInv, DataOK, FlagsOK, SocketInv, TextInv, Goes, Finish, netVars, timeVars,
        textVars, callVars
<1>1. CASE NeedsConnection \/ Reconnects
  BY <1>1 DEF NeedsConnection, Reconnects, Connect, ConnectBegins, ConnectRefused,
              CooldownRaises
<1>2. CASE HasConnection \/ Connected \/ ConnectFails \/ CancelConnect \/ CleanupEnds
  BY <1>2 DEF HasConnection, Connected, ClearsFailure, ConnectFails, CancelConnect, CleansUp,
              CleanupEnds
<1>3. CASE SendKey \/ SendText \/ SendBroadcast \/ BroadcastReturns
  BY <1>3 DEF SendKey, SendText, SendBroadcast, BroadcastReturns
<1>4. CASE SendRevoked \/ SendReturns
  BY <1>4 DEF SendRevoked, SendReturns
<1>5. CASE SendRaises
  BY <1>5 DEF SendRaises, MayRetry, DropsRemote
<1>6. CASE CloseBegins \/ CloseEnds
  BY <1>6 DEF CloseBegins, CloseEnds, DropsRemote
<1>7. CASE CancelHolder
  BY <1>7 DEF CancelHolder
<1>8. CASE \E c \in Callers, o \in {"connect", "key", "text", "close"} : Call(c, o)
  BY <1>8 DEF Call
<1>9. CASE \E c \in Callers : Acquire(c) \/ CancelWaiting(c)
  BY <1>9 DEF Acquire, CancelWaiting
<1>10. CASE ImeEvent \/ Tick \/ AuthorityChanges
  BY <1>10 DEF ImeEvent, EventClearsFlag, Tick, AuthorityChanges
<1>11. CASE UNCHANGED vars
  BY <1>11 DEF vars
<1> QED BY <1>1, <1>2, <1>3, <1>4, <1>5, <1>6, <1>7, <1>8, <1>9, <1>10, <1>11 DEF Next, HolderStep

\* Every text field has its broadcast before its first insert, except one that came or went while
\* the broadcast was awaited (_send_text_once, _handle_tv_event).
THEOREM SamsungInsertPrimed == Spec => InsertPrimed
<1> DEFINE A == Op = "text" /\ written' > written => primed \/ raced
<1>1. Init => TextInv
  BY DEF Init, TextInv
<1>2. IInv /\ TextInv /\ [Next]_vars => TextInv'
  BY TextStep
<1>3. IInv /\ TextInv /\ [Next]_vars => [A]_vars
  <2> SUFFICES ASSUME IInv, TextInv, Next PROVE A
    OBVIOUS
  <2> USE DEF IInv, PlaceInv, DataOK, FlagsOK, WriteInv, TextInv, A, netVars, timeVars, textVars,
          callVars
  <2>1. CASE SendKey \/ SendText
    BY <2>1 DEF SendKey, SendText, Op
  <2>2. CASE ~(SendKey \/ SendText)
    <3>1. ~(written' > written)
      <4>1. CASE NeedsConnection \/ Reconnects
        BY <4>1 DEF NeedsConnection, Reconnects, Connect, ConnectBegins, ConnectRefused,
                    CooldownRaises, Goes, Finish
      <4>2. CASE HasConnection \/ Connected \/ ConnectFails \/ CancelConnect \/ CleanupEnds
        BY <4>2 DEF HasConnection, Connected, ConnectFails, CancelConnect, CleanupEnds, CleansUp,
                    Goes, Finish
      <4>3. CASE \/ SendBroadcast \/ BroadcastReturns \/ SendRevoked \/ SendReturns \/ SendRaises
                 \/ CancelHolder
        BY <4>3 DEF SendBroadcast, BroadcastReturns, SendRevoked, SendReturns, SendRaises,
                    CancelHolder, MayRetry, DropsRemote, Goes, Finish
      <4>4. CASE CloseBegins \/ CloseEnds
        BY <4>4 DEF CloseBegins, CloseEnds, DropsRemote, Goes, Finish
      <4>5. CASE \E c \in Callers, o \in {"connect", "key", "text", "close"} : Call(c, o)
        BY <4>5 DEF Call
      <4>6. CASE \E c \in Callers : Acquire(c) \/ CancelWaiting(c)
        BY <4>6 DEF Acquire, CancelWaiting
      <4>7. CASE ImeEvent \/ Tick \/ AuthorityChanges
        BY <4>7 DEF ImeEvent, Tick, AuthorityChanges
      <4> QED BY <2>2, <4>1, <4>2, <4>3, <4>4, <4>5, <4>6, <4>7 DEF Next, HolderStep
    <3> QED BY <3>1
  <2> QED BY <2>1, <2>2
<1> QED BY SamsungClientInvariant, <1>1, <1>2, <1>3, PTL DEF Spec, InsertPrimed
=============================================================================
