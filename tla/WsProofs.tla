------------------------------ MODULE WsProofs ------------------------------
(* Proofs, for any number of overlapping attempts and connections, either  *)
(* build and with or without heartbeats, that Ws keeps its type invariant  *)
(* and the safety properties its runs check.                               *)
EXTENDS Ws, TLAPS

-----------------------------------------------------------------------------
(* The inductive invariant, in parts.                                      *)

\* An attempt that is storing its threads holds controlMutex, so nothing has
\* happened to the connection since it looked, and its receive thread is in
\* place once it waits for the old heartbeat thread.
StoringIsExclusive ==
    \A c \in Conns :
        /\ attempt[c] \in {"joinReceiver", "joinHeartbeat"} =>
               controlMutex = c /\ connectionState = "Connecting"
        /\ attempt[c] = "joinHeartbeat" => receiveThread = c

\* ReasonExplainsState, also while an attempt holds the mutex.
ReasonKept ==
    controlMutex # Abandoned =>
        /\ connectionState \in {"Connecting", "Connected"} => disconnectReason = "None"
        /\ connectionState = "Disconnecting" => disconnectReason = "Requested"

\* ConnectedHoldsItsThreads, but for the socket.
ThreadsHeld ==
    connectionState = "Connected" =>
        receiveThread # NoConn /\ (Heartbeats => heartbeatThread = receiveThread)

\* disconnect() holds the handles it moved only as long as it works on them.
TakenWhileNeeded ==
    /\ main # "joinHeartbeat" => taken.heartbeat = NoConn
    /\ main \notin {"joinHeartbeat", "dropReceiver", "dropReconnect"} => taken.reconnect = NoConn

\* The heartbeat threads, and who can still join each of them.
HeartbeatsOwned ==
    /\ ~Heartbeats => \A c \in Conns : heartbeat[c] = "off"
    /\ NoHeartbeatLeaked

\* The attempt whose handle the main thread is about to store, or which it runs
\* itself, and the result execCb waits for.
CurrentAttempt ==
    /\ main \in {"connect", "joinOld"} => current \in Conns
    /\ main = "connect" => result # current
    /\ ~Terminates /\ main = "joinOld" /\ caller = "execCb" =>
           attempt[current] # "off" \/ settled[current] # NoConn
    /\ PendingResultIsServed

\* Before a disconnect() has left threads behind, and where threads are
\* terminated, every attempt is known to the state, to disconnect() or to the
\* call that started it; disconnect() deals with one at most.
AttemptsReachable ==
    /\ Terminates \/ ~strays => \A c \in Conns : attempt[c] # "off" =>
           \/ c \in {reconnectThread, taken.reconnect}
           \/ main \in {"connect", "joinOld"} /\ current = c
           \/ ~Terminates /\ main = "finish"
    /\ TearingDown => reconnectThread = NoConn
    /\ ~strays /\ TearingDown =>
           \A c, d \in Conns : attempt[c] # "off" /\ attempt[d] # "off" => c = d

\* An attempt between its claim and the end of connectBlocking.
Holding(c) == attempt[c] \in {"dial", "adopt", "store", "joinReceiver", "joinHeartbeat"}

\* An attempt whose socket is the shared one.
Storing(c) == attempt[c] \in {"store", "joinReceiver", "joinHeartbeat"}

\* Before a disconnect() has left threads behind: the object is claimed for one
\* attempt, which only disconnect() can take it from; the shared socket is its
\* own; and a receive thread belongs to the connection that is up or to the
\* attempt that has just started it.
ClaimsKept ==
    ~strays =>
        /\ \A c \in Conns : Holding(c) =>
               /\ connectionState = "Connecting" => claimant = c
               /\ TearingDown \/ connectionState = "Connecting"
        /\ \A c \in Conns : Storing(c) /\ connectionState = "Connecting" => ws = c
        /\ connectionState = "Connected" => ws = receiveThread
        /\ ~TearingDown => \A c \in Conns : receiver[c] # "off" =>
               \/ connectionState = "Connected" /\ receiveThread = c
               \/ Storing(c) /\ receiver[c] = "check"

-----------------------------------------------------------------------------
\* Every step is one of these actions.
LEMMA NextActions ==
    ASSUME Next
    PROVE  \/ BindRuntime \/ Connect \/ CallConnectAsync \/ Disconnect
           \/ ExecCb \/ MainContinues \/ HeartbeatTimeoutPasses \/ BackoffPasses
           \/ \E c \in Conns : \/ SocketLost(c) \/ Resume(c) \/ ConnectThread(c)
                               \/ ReceiveThread(c) \/ HeartbeatThread(c)
BY DEF Next, UserCalls, System, Environment

-----------------------------------------------------------------------------
(* Type correctness, in four parts that few actions mix.                   *)

ControlTypes ==
    /\ connectionState \in ConnectionState /\ disconnectReason \in DisconnectReason
    /\ ws \in Handle /\ receiveThread \in Handle /\ heartbeatThread \in Handle
    /\ controlMutex \in Conns \cup {NoConn, Abandoned}
    /\ heartbeatClock \in HeartbeatClock
    /\ connectMutex \in {NoConn, Abandoned} /\ claimant \in Handle
    /\ runtimeBound \in BOOLEAN /\ connectInProgress \in BOOLEAN

RetryTypes ==
    /\ reconnectThread \in Handle
    /\ disconnectNoted \in BOOLEAN /\ backoff \in BOOLEAN
    /\ result \in Conns \cup {NoConn, Value, Exception}

ThreadTypes ==
    /\ attempt \in [Conns -> AttemptPc]
    /\ settled \in [Conns -> {NoConn, Value, Exception}]
    /\ lost \in [Conns -> BOOLEAN]
    /\ receiver \in [Conns -> ReceiverPc]
    /\ heartbeat \in [Conns -> HeartbeatPc]
    /\ stopRequested \in [Conns -> BOOLEAN]

MainTypes ==
    /\ main \in MainPc /\ caller \in {"api", "execCb"} /\ current \in Handle
    /\ taken \in [receive : Handle, heartbeat : Handle, reconnect : Handle]
    /\ strays \in BOOLEAN

\* The initial values are in their ranges.
LEMMA TypeInit == Init => TypeOK
<1> SUFFICES ASSUME Init PROVE TypeOK
  OBVIOUS
<1> USE DEF Init, Handle
<1>1. ControlTypes
  BY DEF ControlTypes, ConnectionState, DisconnectReason, HeartbeatClock
<1>2. RetryTypes
  BY DEF RetryTypes
<1>3. ThreadTypes
  BY DEF ThreadTypes, AttemptPc, ReceiverPc, HeartbeatPc
<1>4. MainTypes
  BY DEF MainTypes, MainPc, NothingTaken
<1> HIDE DEF Init, Handle
<1> QED
  BY <1>1, <1>2, <1>3, <1>4 DEF TypeOK, ControlTypes, RetryTypes, ThreadTypes, MainTypes

\* A section that a terminated thread abandons has written values in range.
LEMMA AbandonTypes ==
    ASSUME ControlTypes, NEW writes, Abandon(writes),
           writes \subseteq ConnectionState \X DisconnectReason
    PROVE  /\ connectionState' \in ConnectionState /\ disconnectReason' \in DisconnectReason
           /\ controlMutex' = Abandoned /\ claimant' \in Handle
<1>1. claimant' \in Handle
  BY DEF Abandon, ClaimEnds, ControlTypes, Handle
<1>2. CASE UNCHANGED <<connectionState, disconnectReason>>
  BY <1>1, <1>2 DEF Abandon, ControlTypes
<1>3. CASE \E w \in writes : connectionState' = w[1] /\ disconnectReason' = w[2]
  BY <1>1, <1>3 DEF Abandon
<1> QED
  BY <1>2, <1>3 DEF Abandon

\* So have those disconnect() may interrupt.
LEMMA WritesTypes ==
    ASSUME ControlTypes, NEW c \in Conns
    PROVE  /\ LossWrites \subseteq ConnectionState \X DisconnectReason
           /\ AttemptWrites(c) \subseteq ConnectionState \X DisconnectReason
<1>1. LossWrites \subseteq ConnectionState \X DisconnectReason
  BY DEF LossWrites, ControlTypes, ConnectionState, DisconnectReason
<1>2. AttemptWrites(c) \subseteq ConnectionState \X DisconnectReason
  <2>1. CASE attempt[c] = "claim" /\ connectionState = "Disconnected"
    BY <2>1 DEF AttemptWrites, ConnectionState, DisconnectReason
  <2>2. CASE attempt[c] = "dial"
    BY <1>1, <2>2 DEF AttemptWrites
  <2>3. CASE attempt[c] \in {"adopt", "store"} /\ Cancelled
    BY <2>3 DEF AttemptWrites, ControlTypes, ConnectionState
  <2>4. CASE /\ ~(attempt[c] = "claim" /\ connectionState = "Disconnected")
             /\ attempt[c] # "dial"
             /\ ~(attempt[c] \in {"adopt", "store"} /\ Cancelled)
    <3>1. AttemptWrites(c) = {}
      BY <2>4 DEF AttemptWrites
    <3> QED
      BY <3>1
  <2> QED
    BY <2>1, <2>2, <2>3, <2>4
<1> QED
  BY <1>1, <1>2

\* Dropping a thread keeps the shared state in range, abandoned or not.
LEMMA DropTypes ==
    ASSUME ControlTypes, MainTypes, DropReceiver \/ DropReconnect
    PROVE  ControlTypes'
<1>0. UNCHANGED <<handles, heartbeatClock>>
  BY DEF DropReceiver, DropReconnect
<1>1. CASE DropReceiver
  <2>1. UNCHANGED <<connectMutex, connectInProgress, runtimeBound>>
    BY <1>1 DEF DropReceiver
  <2>2. CASE UNCHANGED <<control, controlMutex>>
    BY <1>0, <2>1, <2>2 DEF ControlTypes, control, handles
  <2>3. CASE ~UNCHANGED <<control, controlMutex>>
    <3>1. PICK writes \in {LossWrites, {}} : Abandon(writes) /\ taken.receive # NoConn
      BY <1>1, <2>3 DEF DropReceiver
    <3>2. taken.receive \in Conns
      BY <3>1 DEF MainTypes, Handle
    <3>3. writes \subseteq ConnectionState \X DisconnectReason
      BY <3>1, <3>2, WritesTypes
    <3> QED
      BY <1>0, <2>1, <3>1, <3>3, AbandonTypes DEF ControlTypes, handles
  <2> QED
    BY <2>2, <2>3
<1>2. CASE DropReconnect
  <2>1. CASE UNCHANGED <<locks, control>>
    BY <1>0, <2>1 DEF ControlTypes, control, handles, locks
  <2>2. CASE ~UNCHANGED <<locks, control>>
    <3>1. taken.reconnect \in Conns
      BY <1>2, <2>2 DEF DropReconnect, MainTypes, Handle
    <3>2. CASE /\ Abandon(AttemptWrites(taken.reconnect))
               /\ UNCHANGED <<connectMutex, connectInProgress, runtimeBound>>
      BY <1>0, <3>1, <3>2, WritesTypes, AbandonTypes DEF ControlTypes, handles
    <3>3. CASE /\ connectMutex' = Abandoned
               /\ connectInProgress' \in {connectInProgress, FALSE}
               /\ UNCHANGED <<controlMutex, runtimeBound, control>>
      BY <1>0, <3>3 DEF ControlTypes, handles, control
    <3> QED
      BY <1>2, <2>2, <3>2, <3>3 DEF DropReconnect
  <2> QED
    BY <2>1, <2>2
<1> QED
  BY <1>1, <1>2

\* The calls of the application and the other steps of disconnect() keep the
\* variables in their ranges.
LEMMA TypeCalls ==
    ASSUME TypeOK, BindRuntime \/ Connect \/ CallConnectAsync \/ Disconnect \/ MainContinues
    PROVE  TypeOK'
<1>0. ControlTypes /\ RetryTypes /\ ThreadTypes /\ MainTypes
  BY DEF TypeOK, ControlTypes, RetryTypes, ThreadTypes, MainTypes
<1>1. ControlTypes'
  <2>1. CASE BindRuntime
    BY <1>0, <2>1 DEF BindRuntime, ControlTypes, control, handles
  <2>2. CASE Connect \/ KeepReconnectThread \/ JoinHeartbeat
    BY <1>0, <2>2 DEF Connect, KeepReconnectThread, JoinHeartbeat, ControlTypes, control,
           handles, locks
  <2>3. CASE CallConnectAsync
    <3>1. /\ UNCHANGED <<control, handles, controlMutex, connectMutex, runtimeBound, heartbeatClock>>
          /\ connectInProgress' \in {connectInProgress, TRUE}
      BY <2>3 DEF CallConnectAsync, ConnectAsync
    <3> QED
      BY <1>0, <3>1 DEF ControlTypes, control, handles
  <2>4. CASE Disconnect \/ TimeoutDisconnect
    BY <1>0, <2>4 DEF Disconnect, TimeoutDisconnect, TakeThreads, ClaimEnds, ControlTypes,
           ConnectionState, DisconnectReason, Handle, locks
  <2>5. CASE FinishDisconnect
    BY <1>0, <2>5 DEF FinishDisconnect, ClaimEnds, ControlTypes, ConnectionState, Handle, locks
  <2> QED
    BY <1>0, <2>1, <2>2, <2>3, <2>4, <2>5, DropTypes DEF MainContinues
<1>5. strays' \in BOOLEAN
  <2>1. CASE FinishDisconnect
    BY <1>0, <2>1, ZenonT(30) DEF FinishDisconnect, MainTypes
  <2>2. CASE ~FinishDisconnect
    <3>1. strays' = strays
      BY <2>2 DEF BindRuntime, Connect, CallConnectAsync, Disconnect, TakeThreads, MainContinues,
             KeepReconnectThread, TimeoutDisconnect, JoinHeartbeat, DropReceiver, DropReconnect,
             mainVars
    <3> QED
      BY <1>0, <3>1 DEF MainTypes
  <2> QED
    BY <2>1, <2>2
<1>4. MainTypes'
  <2> USE DEF MainTypes, MainPc, Handle
  <2>1. CASE BindRuntime \/ Connect
    BY <1>0, <2>1 DEF BindRuntime, Connect, StartAttempt, mainVars
  <2>2. CASE CallConnectAsync
    BY <1>0, <2>2 DEF CallConnectAsync, ConnectAsync, StartAttempt
  <2>3. CASE Disconnect \/ TimeoutDisconnect
    BY <1>0, <2>3 DEF Disconnect, TimeoutDisconnect, TakeThreads, ControlTypes, RetryTypes
  <2>4. CASE KeepReconnectThread \/ JoinHeartbeat
    BY <1>0, <2>4 DEF KeepReconnectThread, JoinHeartbeat
  <2>6. CASE DropReceiver
    <3>1. /\ main' = "dropReconnect" /\ taken' = [taken EXCEPT !.receive = NoConn]
          /\ UNCHANGED <<caller, current, strays>>
      BY <2>6 DEF DropReceiver
    <3> QED
      BY <1>0, <3>1
  <2>7. CASE DropReconnect
    <3>1. main' = "finish" /\ taken' = NothingTaken /\ UNCHANGED <<caller, current, strays>>
      BY <2>7 DEF DropReconnect
    <3> QED
      BY <1>0, <3>1 DEF NothingTaken
  <2>5. CASE FinishDisconnect
    <3>1. main' = "idle" /\ caller' = "api" /\ UNCHANGED <<current, taken>>
      BY <2>5 DEF FinishDisconnect
    <3> QED
      BY <1>0, <1>5, <3>1
  <2> QED
    BY <2>1, <2>2, <2>3, <2>4, <2>5, <2>6, <2>7 DEF MainContinues
<1> USE <1>0 DEF BindRuntime, Connect, CallConnectAsync, ConnectAsync, StartAttempt, Disconnect,
        MainContinues, KeepReconnectThread, TimeoutDisconnect, TakeThreads, StopRequest,
        JoinHeartbeat, DropReceiver, DropReconnect, Terminated, NothingTaken, FinishDisconnect,
        Handle, vars, locks, retry, connection, mainVars
<1>2. RetryTypes'
  BY DEF RetryTypes, ThreadTypes, MainTypes
<1>3. ThreadTypes'
  <2> USE DEF ThreadTypes, AttemptPc, ReceiverPc, HeartbeatPc
  <2>1. CASE BindRuntime \/ Connect \/ CallConnectAsync
    BY <2>1, ZenonT(30)
  <2>2. CASE Disconnect
    BY <2>2, ZenonT(30)
  <2>3. CASE MainContinues
    <3>1. CASE DropReceiver \/ DropReconnect
      BY <3>1
    <3>2. CASE ~(DropReceiver \/ DropReconnect)
      BY <2>3, <3>2, ZenonT(30)
    <3> QED
      BY <3>1, <3>2
  <2> QED
    BY <2>1, <2>2, <2>3
<1> HIDE <1>0 DEF BindRuntime, Connect, CallConnectAsync, ConnectAsync, StartAttempt, Disconnect,
        MainContinues, KeepReconnectThread, TimeoutDisconnect, TakeThreads, StopRequest,
        JoinHeartbeat, DropReceiver, DropReconnect, Terminated, NothingTaken, FinishDisconnect
<1> QED
  BY <1>1, <1>2, <1>3, <1>4 DEF TypeOK, ControlTypes, RetryTypes, ThreadTypes, MainTypes

\* So do the steps of execCb.
LEMMA TypeExecCb ==
    ASSUME TypeOK, ExecCb
    PROVE  TypeOK'
<1>0. ControlTypes /\ RetryTypes /\ ThreadTypes /\ MainTypes
  BY DEF TypeOK, ControlTypes, RetryTypes, ThreadTypes, MainTypes
<1>1. ControlTypes'
  <2>1. CASE ExecReadClock
    BY <1>0, <2>1 DEF ExecReadClock, ControlTypes, control, handles, locks
  <2>2. CASE ~ExecReadClock
    <3>1. UNCHANGED <<control, handles, controlMutex, connectMutex, runtimeBound, heartbeatClock>>
      BY <2>2 DEF ExecCb, ExecReadState, ExecReadReason, ExecWait, ExecTakeResult, ExecNoRuntime,
             ExecReconnect, ExecUnchanged
    <3>2. connectInProgress' \in {connectInProgress, TRUE}
      BY <2>2 DEF ExecCb, ExecReadState, ExecReadReason, ExecWait, ExecTakeResult, ExecNoRuntime,
             ExecReconnect, ConnectAsync
    <3> QED
      BY <1>0, <3>1, <3>2 DEF ControlTypes, control, handles
  <2> QED
    BY <2>1, <2>2
<1> USE <1>0 DEF ExecCb, ExecUnchanged, ExecReadState, ExecReadReason, ExecWait, ExecTakeResult,
        ExecNoRuntime, ExecReconnect, ConnectAsync, StartAttempt, ExecReadClock,
        Handle, vars, control, handles, locks, retry, connection, mainVars
<1>2. RetryTypes'
  BY DEF RetryTypes, ThreadTypes, MainTypes
<1>3. ThreadTypes'
  BY DEF ThreadTypes, AttemptPc, ReceiverPc, HeartbeatPc, FollowOnly
<1>4. MainTypes'
  BY DEF MainTypes, ControlTypes, RetryTypes, MainPc
<1> HIDE <1>0 DEF ExecCb, ExecUnchanged, ExecReadState, ExecReadReason, ExecWait, ExecTakeResult,
        ExecNoRuntime, ExecReconnect, ConnectAsync, StartAttempt, ExecReadClock
<1> QED
  BY <1>1, <1>2, <1>3, <1>4 DEF TypeOK, ControlTypes, RetryTypes, ThreadTypes, MainTypes

\* And those of a connect thread.
LEMMA TypeConnectThread ==
    ASSUME TypeOK, NEW c \in Conns, ConnectThread(c)
    PROVE  TypeOK'
<1>0. ControlTypes /\ RetryTypes /\ ThreadTypes /\ MainTypes
  BY DEF TypeOK, ControlTypes, RetryTypes, ThreadTypes, MainTypes
<1> USE <1>0 DEF ConnectThread, AttemptGoes, Claim, DialFails, DialSucceeds, Adopt, AdoptCancelled,
        StoreBegins, StoreCancelled, StopRequest, Drop, StoreReceiver, StoreHeartbeat,
        ReturnToMain, Report, EndProgress, Verify, Resolve, Raise, Settle, FollowOnly, ClaimEnds,
        Handle, vars, control, handles, locks, retry, connection, mainVars
<1>1. ControlTypes'
  <2>1. CASE Claim(c) \/ DialFails(c)
    BY <2>1 DEF ControlTypes, ConnectionState, DisconnectReason
  <2>2. CASE Adopt(c)
    BY <2>2 DEF ControlTypes, DisconnectReason
  <2>3. CASE AdoptCancelled(c) \/ StoreBegins(c)
    BY <2>3 DEF ControlTypes, ConnectionState
  <2>4. CASE ~(Claim(c) \/ DialFails(c) \/ Adopt(c) \/ AdoptCancelled(c) \/ StoreBegins(c))
    BY <2>4 DEF ControlTypes, ConnectionState
  <2> QED
    BY <2>1, <2>2, <2>3, <2>4
<1>2. RetryTypes'
  BY DEF RetryTypes, ThreadTypes, MainTypes
<1>3. ThreadTypes'
  <2>1. CASE Adopt(c) \/ StoreCancelled(c) \/ StoreReceiver(c)
    BY <2>1 DEF ThreadTypes, AttemptPc, ReceiverPc, HeartbeatPc
  <2>2. CASE Resolve(c) \/ Raise(c)
    BY <2>2 DEF ThreadTypes, AttemptPc
  <2>3. CASE ~(Adopt(c) \/ StoreCancelled(c) \/ StoreReceiver(c) \/ Resolve(c) \/ Raise(c))
    BY <2>3 DEF ThreadTypes, AttemptPc
  <2> QED
    BY <2>1, <2>2, <2>3
<1>4. MainTypes'
  BY DEF MainTypes, ControlTypes, RetryTypes, MainPc
<1> HIDE <1>0 DEF ConnectThread, AttemptGoes, Claim, DialFails, DialSucceeds, Adopt, AdoptCancelled,
        StoreBegins, StoreCancelled, StopRequest, Drop, StoreReceiver, StoreHeartbeat,
        ReturnToMain, Report, EndProgress, Verify, Resolve, Raise, Settle
<1> QED
  BY <1>1, <1>2, <1>3, <1>4 DEF TypeOK, ControlTypes, RetryTypes, ThreadTypes, MainTypes

\* And those of the executor, the threads of a connection and the network.
LEMMA TypeConnection ==
    ASSUME TypeOK, NEW c \in Conns,
           SocketLost(c) \/ Resume(c) \/ ReceiveThread(c) \/ HeartbeatThread(c)
    PROVE  TypeOK'
<1>0. ControlTypes /\ RetryTypes /\ ThreadTypes /\ MainTypes
  BY DEF TypeOK, ControlTypes, RetryTypes, ThreadTypes, MainTypes
<1> USE <1>0 DEF SocketLost, Resume, ReceiveThread, ReceiverChecks, ReceiveText, ReceiveFails,
        ReceiverGoes, HeartbeatThread, HeartbeatLoops, HeartbeatWakes, HeartbeatDecides, HeartbeatSends,
        HeartbeatGoes, ClaimEnds,
        Handle, vars, control, handles, locks, retry, connection, mainVars
<1>1. ControlTypes'
  BY DEF ControlTypes, ConnectionState, DisconnectReason, HeartbeatClock
<1>2. RetryTypes'
  BY DEF RetryTypes, ThreadTypes, MainTypes
<1>3. ThreadTypes'
  BY ZenonT(30) DEF ThreadTypes, AttemptPc, ReceiverPc, HeartbeatPc
<1>4. MainTypes'
  BY DEF MainTypes, ControlTypes, RetryTypes, MainPc
<1> HIDE <1>0 DEF SocketLost, Resume, ReceiveThread, ReceiverChecks, ReceiveText, ReceiveFails,
        ReceiverGoes, HeartbeatThread, HeartbeatLoops, HeartbeatWakes, HeartbeatDecides, HeartbeatSends,
        HeartbeatGoes
<1> QED
  BY <1>1, <1>2, <1>3, <1>4 DEF TypeOK, ControlTypes, RetryTypes, ThreadTypes, MainTypes

\* Every step keeps the variables in their ranges: one lemma for each kind of thread.
LEMMA TypeNext == TypeOK /\ [Next]_vars => TypeOK'
<1> SUFFICES ASSUME TypeOK, [Next]_vars PROVE TypeOK'
  OBVIOUS
<1>1. CASE Next
  <2>1. CASE HeartbeatTimeoutPasses
    BY <2>1 DEF HeartbeatTimeoutPasses, TypeOK, HeartbeatClock,
                control, handles, locks, retry, connection, mainVars
  <2>2. CASE BackoffPasses
    BY <2>2 DEF BackoffPasses, TypeOK, control, handles, locks, retry, connection, mainVars
  <2> QED
    BY <1>1, <2>1, <2>2, NextActions, TypeCalls, TypeExecCb, TypeConnectThread, TypeConnection
<1>2. CASE UNCHANGED vars
  BY <1>2 DEF vars, TypeOK, control, handles, locks, retry, connection, mainVars
<1> QED
  BY <1>1, <1>2

\* Every variable of Ws stays in its range, whatever the threads do.
THEOREM TypeCorrect == Spec => []TypeOK
BY TypeInit, TypeNext, PTL DEF Spec

-----------------------------------------------------------------------------
(* The shared state: what an attempt that holds controlMutex relies on, the *)
(* reason of the state, and the threads of an established connection.      *)

ControlInv == StoringIsExclusive /\ ReasonKept /\ ThreadsHeld

\* Steps outside disconnect() and the connect threads leave it alone, or start
\* an attempt that stores nothing yet.
LEMMA ControlElsewhere ==
    ASSUME TypeOK, ControlInv,
           \/ BindRuntime \/ Connect \/ CallConnectAsync \/ ExecCb
           \/ KeepReconnectThread \/ JoinHeartbeat
           \/ HeartbeatTimeoutPasses \/ BackoffPasses
           \/ \E c \in Conns : SocketLost(c) \/ Resume(c) \/ HeartbeatThread(c)
    PROVE  ControlInv'
<1>1. /\ UNCHANGED <<connectionState, disconnectReason, receiveThread, heartbeatThread, controlMutex>>
      /\ \A c \in Conns : attempt'[c] \in {attempt[c], "claim"}
  BY DEF TypeOK, BindRuntime, Connect, CallConnectAsync, ConnectAsync, StartAttempt,
         ExecCb, ExecUnchanged, ExecReadState, ExecReadReason, ExecWait, ExecTakeResult,
         ExecNoRuntime, ExecReconnect, ExecReadClock, KeepReconnectThread, JoinHeartbeat,
         HeartbeatTimeoutPasses, BackoffPasses, SocketLost, Resume,
         HeartbeatThread, HeartbeatLoops, HeartbeatWakes, HeartbeatDecides, HeartbeatSends, HeartbeatGoes,
         control, handles, locks, retry, connection, mainVars
<1> QED
  BY <1>1 DEF ControlInv, StoringIsExclusive, ReasonKept, ThreadsHeld

\* A section that a terminated thread abandons establishes nothing.
LEMMA AbandonEstablishesNothing ==
    ASSUME NEW c \in Conns, NEW writes \in {LossWrites, {}, AttemptWrites(c)}, Abandon(writes)
    PROVE  /\ controlMutex' = Abandoned
           /\ connectionState' = "Connected" => connectionState = "Connected"
           /\ connectionState' = "Connecting" =>
                  \/ connectionState = "Connecting"
                  \/ writes = AttemptWrites(c) /\ attempt[c] = "claim"
<1>1. controlMutex' = Abandoned
  BY DEF Abandon
<1>2. CASE UNCHANGED <<connectionState, disconnectReason>>
  BY <1>1, <1>2
<1>3. ASSUME NEW w \in writes, connectionState' = w[1]
      PROVE  \/ connectionState' \in {connectionState, "Disconnected"}
             \/ connectionState' = "Connecting" /\ writes = AttemptWrites(c) /\ attempt[c] = "claim"
  <2>1. CASE writes = LossWrites
    BY <1>3, <2>1 DEF LossWrites
  <2>2. CASE writes = AttemptWrites(c)
    <3>1. CASE attempt[c] = "claim" /\ connectionState = "Disconnected"
      BY <1>3, <2>2, <3>1 DEF AttemptWrites
    <3>2. CASE attempt[c] = "dial"
      BY <1>3, <2>2, <3>2 DEF AttemptWrites, LossWrites
    <3>3. CASE attempt[c] \in {"adopt", "store"} /\ Cancelled
      BY <1>3, <2>2, <3>3 DEF AttemptWrites
    <3>4. CASE /\ ~(attempt[c] = "claim" /\ connectionState = "Disconnected")
               /\ attempt[c] # "dial"
               /\ ~(attempt[c] \in {"adopt", "store"} /\ Cancelled)
      BY <1>3, <2>2, <3>4 DEF AttemptWrites
    <3> QED
      BY <3>1, <3>2, <3>3, <3>4
  <2> QED
    BY <1>3, <2>1, <2>2
<1> QED
  BY <1>1, <1>2, <1>3 DEF Abandon

\* What dropping a thread does to the threads and to the shared state.
LEMMA DropEffect ==
    ASSUME TypeOK, DropReceiver \/ DropReconnect
    PROVE  /\ UNCHANGED <<handles, strays>>
           /\ \A c \in Conns : attempt'[c] \in {attempt[c], "off"} /\ receiver'[c] \in {receiver[c], "off"}
           /\ \/ UNCHANGED <<control, controlMutex>>
              \/ /\ Terminates
                 /\ controlMutex' = Abandoned
                 /\ connectionState' = "Connected" => connectionState = "Connected"
                 /\ connectionState' = "Connecting" =>
                        \/ connectionState = "Connecting"
                        \/ \E c \in Conns : attempt[c] = "claim" /\ attempt'[c] = "off"
                 /\ ClaimEnds
                 /\ \/ controlMutex = NoConn
                    \/ \E c \in Conns : controlMutex = c /\ attempt'[c] = "off"
<1> USE DEF Terminated
<1>1. CASE DropReceiver
  <2>1. \A c \in Conns : attempt'[c] \in {attempt[c], "off"} /\ receiver'[c] \in {receiver[c], "off"}
    BY <1>1 DEF DropReceiver, TypeOK
  <2>2. CASE UNCHANGED <<control, controlMutex>>
    BY <1>1, <2>1, <2>2 DEF DropReceiver
  <2>3. CASE ~UNCHANGED <<control, controlMutex>>
    <3>1. PICK writes \in {LossWrites, {}} :
             Abandon(writes) /\ Terminates /\ Unlocked /\ taken.receive # NoConn
      BY <1>1, <2>3 DEF DropReceiver
    <3>2. ClaimEnds /\ controlMutex' = Abandoned
      BY <3>1 DEF Abandon
    <3>3. connectionState' \in {connectionState, "Disconnected"}
      BY <3>1 DEF Abandon, LossWrites
    <3> QED
      BY <1>1, <2>1, <3>1, <3>2, <3>3 DEF DropReceiver, Unlocked
  <2> QED
    BY <2>2, <2>3
<1>2. CASE DropReconnect
  <2>1. \A c \in Conns : attempt'[c] \in {attempt[c], "off"} /\ receiver'[c] \in {receiver[c], "off"}
    BY <1>2 DEF DropReconnect, TypeOK, connection
  <2>2. CASE UNCHANGED <<control, controlMutex>>
    BY <1>2, <2>1, <2>2 DEF DropReconnect
  <2>3. CASE ~UNCHANGED <<control, controlMutex>>
    <3> DEFINE c == taken.reconnect
    <3>1. /\ Terminates /\ c # NoConn /\ attempt' = Terminated(attempt, c)
          /\ controlMutex = c \/ Unlocked
          /\ Abandon(AttemptWrites(c))
      BY <1>2, <2>3 DEF DropReconnect, locks
    <3>2. c \in Conns /\ attempt'[c] = "off"
      BY <3>1 DEF TypeOK, Handle
    <3>3. ClaimEnds
      BY <3>1 DEF Abandon
    <3>4. /\ controlMutex' = Abandoned
          /\ connectionState' = "Connected" => connectionState = "Connected"
          /\ connectionState' = "Connecting" => connectionState = "Connecting" \/ attempt[c] = "claim"
      BY <3>1, <3>2, AbandonEstablishesNothing
    <3> QED
      BY <1>2, <2>1, <3>1, <3>2, <3>3, <3>4 DEF DropReconnect, Unlocked
  <2> QED
    BY <2>2, <2>3
<1> QED
  BY <1>1, <1>2

\* disconnect() and a lost connection change the state while controlMutex is
\* free, that is while no attempt is storing, or end the attempt that is.
LEMMA ControlLoss ==
    ASSUME TypeOK, ControlInv,
           \/ Disconnect \/ TimeoutDisconnect \/ DropReceiver \/ DropReconnect \/ FinishDisconnect
           \/ \E c \in Conns : ReceiveThread(c)
    PROVE  ControlInv'
<1> USE DEF ControlInv, StoringIsExclusive, ReasonKept, ThreadsHeld
<1>1. CASE Disconnect \/ TimeoutDisconnect
  BY <1>1, ConnsAssumption DEF TypeOK, Disconnect, TimeoutDisconnect, TakeThreads, Unlocked,
         ConnectionState, locks
<1>2. CASE DropReceiver \/ DropReconnect
  <2>1. CASE UNCHANGED <<control, controlMutex>>
    BY <1>2, <2>1, DropEffect, ConnsAssumption DEF control, handles
  <2>2. CASE ~UNCHANGED <<control, controlMutex>>
    BY <1>2, <2>2, DropEffect, ConnsAssumption DEF handles
  <2> QED
    BY <2>1, <2>2
<1>3. CASE FinishDisconnect
  <2>1. /\ Unlocked /\ connectionState' = "Disconnected"
        /\ UNCHANGED <<disconnectReason, receiveThread, heartbeatThread, locks, attempt>>
    BY <1>3 DEF FinishDisconnect
  <2> QED
    BY <2>1, ConnsAssumption DEF Unlocked, locks
<1>4. ASSUME NEW c \in Conns, ReceiveThread(c) PROVE ControlInv'
  BY <1>4, ConnsAssumption DEF TypeOK, ReceiveThread, ReceiverChecks, ReceiveText, ReceiveFails,
         ReceiverGoes, Unlocked, control, handles, locks
<1> QED
  BY <1>1, <1>2, <1>3, <1>4

\* A connect thread writes the state while controlMutex is free or its own.
LEMMA ControlConnectThread ==
    ASSUME TypeOK, ControlInv, NEW c \in Conns, ConnectThread(c)
    PROVE  ControlInv'
<1> USE ConnsAssumption
    DEF TypeOK, ControlInv, StoringIsExclusive, ReasonKept, ThreadsHeld,
        AttemptGoes, Unlocked, control, handles, locks
<1>1. CASE Claim(c) \/ DialFails(c)
  BY <1>1 DEF Claim, DialFails
<1>2. CASE Adopt(c)
  BY <1>2 DEF Adopt, Cancelled, ConnectionState, DisconnectReason
<1>3. CASE AdoptCancelled(c) \/ StoreCancelled(c)
  BY <1>3 DEF AdoptCancelled, StoreCancelled
<1>4. CASE StoreBegins(c)
  BY <1>4 DEF StoreBegins, Cancelled
<1>5. CASE StoreReceiver(c)
  BY <1>5 DEF StoreReceiver
<1>6. CASE StoreHeartbeat(c)
  BY <1>6 DEF StoreHeartbeat
<1>7. CASE DialSucceeds(c) \/ Drop(c) \/ ReturnToMain(c) \/ Report(c) \/ Verify(c)
           \/ Resolve(c) \/ Raise(c)
  BY <1>7 DEF DialSucceeds, Drop, ReturnToMain, Report, Verify, Resolve, Raise
<1> QED
  BY <1>1, <1>2, <1>3, <1>4, <1>5, <1>6, <1>7 DEF ConnectThread

\* Every step keeps it: the writers of the state, and all the others.
LEMMA ControlNext == TypeOK /\ ControlInv /\ [Next]_vars => ControlInv'
<1> SUFFICES ASSUME TypeOK, ControlInv, [Next]_vars PROVE ControlInv'
  OBVIOUS
<1>1. CASE Next
  BY <1>1, NextActions, ControlElsewhere, ControlLoss, ControlConnectThread DEF MainContinues
<1>2. CASE UNCHANGED vars
  BY <1>2 DEF ControlInv, StoringIsExclusive, ReasonKept, ThreadsHeld,
              vars, control, handles, locks
<1> QED
  BY <1>1, <1>2

\* It holds always.
LEMMA ControlInvariant == Spec => []ControlInv
<1>1. Init => ControlInv
  BY DEF Init, ControlInv, StoringIsExclusive, ReasonKept, ThreadsHeld
<1> QED
  BY <1>1, TypeCorrect, ControlNext, PTL DEF Spec

\* Whoever can take the mutex finds a state its reason explains: no attempt and
\* no connection carries the reason of an earlier one, also where threads are
\* terminated between the two writes.
THEOREM ReasonExplained == Spec => []ReasonExplainsState
<1>1. ControlInv => ReasonExplainsState
  BY ConnsAssumption DEF ControlInv, ReasonKept, ReasonExplainsState, Unlocked
<1> QED
  BY <1>1, ControlInvariant, PTL

-----------------------------------------------------------------------------
(* The retry of execCb.                                                    *)

\* Between ExecReadReason and the end of the call nobody but the main thread
\* itself could mark the connection as disconnected on request.
LEMMA RetryNext == RetryOnlyAfterLoss /\ [Next]_vars => RetryOnlyAfterLoss'
<1> SUFFICES ASSUME RetryOnlyAfterLoss, [Next]_vars PROVE RetryOnlyAfterLoss'
  OBVIOUS
<1> USE DEF RetryOnlyAfterLoss, control, mainVars
<1>1. CASE BindRuntime \/ Connect \/ CallConnectAsync \/ Disconnect \/ MainContinues
  BY <1>1 DEF BindRuntime, Connect, CallConnectAsync, ConnectAsync, Disconnect, TakeThreads,
         MainContinues, KeepReconnectThread, TimeoutDisconnect, JoinHeartbeat, DropReceiver, DropReconnect,
         FinishDisconnect
<1>2. CASE ExecCb
  BY <1>2 DEF ExecCb, ExecUnchanged, ExecReadState, ExecReadReason, Unexpected, ExecWait,
         ExecTakeResult, ExecNoRuntime, ExecReconnect, ConnectAsync, ExecReadClock
<1>3. ASSUME NEW c \in Conns, ConnectThread(c) PROVE RetryOnlyAfterLoss'
  BY <1>3 DEF ConnectThread, Claim, DialFails, DialSucceeds, Adopt, AdoptCancelled,
         StoreBegins, StoreCancelled, Drop, StoreReceiver, StoreHeartbeat, ReturnToMain,
         Report, Verify, Resolve, Raise
<1>4. ASSUME NEW c \in Conns, SocketLost(c) \/ Resume(c) \/ ReceiveThread(c) \/ HeartbeatThread(c)
      PROVE  RetryOnlyAfterLoss'
  BY <1>4 DEF SocketLost, Resume, ReceiveThread, ReceiverChecks, ReceiveText, ReceiveFails,
         ReceiverGoes, HeartbeatThread, HeartbeatLoops, HeartbeatWakes, HeartbeatDecides, HeartbeatSends,
         HeartbeatGoes
<1>5. CASE HeartbeatTimeoutPasses \/ BackoffPasses \/ UNCHANGED vars
  BY <1>5 DEF HeartbeatTimeoutPasses, BackoffPasses, vars
<1> QED
  BY <1>1, <1>2, <1>3, <1>4, <1>5, NextActions

\* execCb never reconnects a connection that was closed on request.
THEOREM RetriesOnlyLosses == Spec => []RetryOnlyAfterLoss
<1>1. Init => RetryOnlyAfterLoss
  BY DEF Init, RetryOnlyAfterLoss
<1> QED
  BY <1>1, RetryNext, PTL DEF Spec

-----------------------------------------------------------------------------
(* The flag that refuses a second connectAsync.                            *)

\* Every step keeps it.
LEMMA RefusalNext ==
    TypeOK /\ RefusalHasReason /\ [Next]_vars => RefusalHasReason'
<1> SUFFICES ASSUME TypeOK, RefusalHasReason, [Next]_vars, ~Terminates, connectInProgress'
             PROVE  \E c \in Conns : InFlight(c)'
  BY DEF RefusalHasReason, RefusalIsTrue
<1> USE DEF TypeOK, InFlight, Synchronous, locks, mainVars
<1>1. CASE connectInProgress
  <2> PICK d \in Conns : InFlight(d)
    BY <1>1 DEF RefusalHasReason, RefusalIsTrue
  <2>1. CASE BindRuntime \/ Connect \/ CallConnectAsync \/ Disconnect \/ MainContinues
    BY <1>1, <2>1 DEF BindRuntime, Connect, StartAttempt, Free, CallConnectAsync, ConnectAsync,
           Disconnect, TakeThreads, MainContinues, KeepReconnectThread, TimeoutDisconnect,
           JoinHeartbeat, DropReceiver, DropReconnect, FinishDisconnect
  <2>2. CASE ExecCb
    BY <1>1, <2>2 DEF ExecCb, ExecUnchanged, ExecReadState, ExecReadReason, ExecWait,
           ExecTakeResult, ExecNoRuntime, ExecReconnect, ConnectAsync, ExecReadClock
  <2>3. ASSUME NEW c \in Conns, ConnectThread(c) PROVE InFlight(d)'
    <3>1. CASE ReturnToMain(c)
      BY <3>1 DEF ReturnToMain, AttemptGoes
    <3>2. CASE Report(c) \/ Raise(c)
      BY <3>2 DEF Report, Raise, EndProgress
    <3>3. CASE Verify(c) \/ Resolve(c)
      BY <3>3 DEF Verify, Resolve, AttemptGoes
    <3>4. CASE Claim(c) \/ DialFails(c) \/ DialSucceeds(c) \/ Adopt(c) \/ AdoptCancelled(c)
             \/ StoreBegins(c) \/ StoreCancelled(c) \/ Drop(c) \/ StoreReceiver(c)
             \/ StoreHeartbeat(c)
      BY <3>4 DEF AttemptGoes, Claim, DialFails, DialSucceeds, Adopt, AdoptCancelled,
             StoreBegins, StoreCancelled, Drop, StoreReceiver, StoreHeartbeat
    <3> QED
      BY <2>3, <3>1, <3>2, <3>3, <3>4 DEF ConnectThread
  <2>4. ASSUME NEW c \in Conns, SocketLost(c) \/ Resume(c) \/ ReceiveThread(c) \/ HeartbeatThread(c)
        PROVE  InFlight(d)'
    BY <2>4 DEF SocketLost, Resume, ReceiveThread, ReceiverChecks, ReceiveText, ReceiveFails,
           ReceiverGoes, HeartbeatThread, HeartbeatLoops, HeartbeatWakes, HeartbeatDecides, HeartbeatSends,
           HeartbeatGoes
  <2>5. CASE HeartbeatTimeoutPasses \/ BackoffPasses \/ UNCHANGED vars
    BY <2>5 DEF HeartbeatTimeoutPasses, BackoffPasses, vars
  <2> QED
    BY <2>1, <2>2, <2>3, <2>4, <2>5, NextActions
<1>2. CASE ~connectInProgress
  <2>1. CASE CallConnectAsync \/ ExecReconnect
    BY <1>2, <2>1 DEF CallConnectAsync, ExecReconnect, ConnectAsync, StartAttempt
  <2>2. CASE ~(CallConnectAsync \/ ExecReconnect)
    <3>1. CASE BindRuntime \/ Connect \/ Disconnect \/ MainContinues \/ ExecCb
      BY <1>2, <2>2, <3>1 DEF BindRuntime, Connect, Disconnect, TakeThreads, MainContinues,
             KeepReconnectThread, TimeoutDisconnect, JoinHeartbeat, DropReceiver, DropReconnect, FinishDisconnect,
             ExecCb, ExecReadState, ExecReadReason, ExecWait, ExecTakeResult, ExecNoRuntime,
             ExecReadClock
    <3>2. ASSUME NEW c \in Conns, ConnectThread(c) PROVE FALSE
      BY <1>2, <3>2 DEF ConnectThread, Claim, DialFails, DialSucceeds, Adopt, AdoptCancelled,
             StoreBegins, StoreCancelled, Drop, StoreReceiver, StoreHeartbeat, ReturnToMain,
             Report, EndProgress, Verify, Resolve, Raise
    <3>3. ASSUME NEW c \in Conns, SocketLost(c) \/ Resume(c) \/ ReceiveThread(c) \/ HeartbeatThread(c)
          PROVE  FALSE
      BY <1>2, <3>3 DEF SocketLost, Resume, ReceiveThread, ReceiverChecks, ReceiveText,
             ReceiveFails, ReceiverGoes, HeartbeatThread, HeartbeatLoops, HeartbeatWakes, HeartbeatDecides,
             HeartbeatSends, HeartbeatGoes
    <3>4. CASE HeartbeatTimeoutPasses \/ BackoffPasses \/ UNCHANGED vars
      BY <1>2, <3>4 DEF HeartbeatTimeoutPasses, BackoffPasses, vars
    <3> QED
      BY <2>2, <3>1, <3>2, <3>3, <3>4, NextActions
  <2> QED
    BY <2>1, <2>2
<1> QED
  BY <1>1, <1>2

\* Where threads are not terminated, connectAsync is only refused while an
\* attempt runs.
THEOREM RefusalsHaveReason == Spec => []RefusalHasReason
<1>1. Init => RefusalHasReason
  BY DEF Init, RefusalHasReason, RefusalIsTrue
<1> QED
  BY <1>1, TypeCorrect, RefusalNext, PTL DEF Spec

-----------------------------------------------------------------------------
(* The heartbeat threads.                                                  *)

\* Every step keeps it.
LEMMA TakenNext == TypeOK /\ TakenWhileNeeded /\ [Next]_vars => TakenWhileNeeded'
<1> SUFFICES ASSUME TypeOK, TakenWhileNeeded, [Next]_vars PROVE TakenWhileNeeded'
  OBVIOUS
<1> USE DEF TypeOK, TakenWhileNeeded, mainVars
<1>1. CASE BindRuntime \/ Connect \/ CallConnectAsync \/ Disconnect \/ TimeoutDisconnect
  BY <1>1 DEF BindRuntime, Connect, CallConnectAsync, ConnectAsync, Disconnect, TakeThreads,
         TimeoutDisconnect
<1>6. CASE KeepReconnectThread \/ JoinHeartbeat \/ FinishDisconnect
  BY <1>6 DEF KeepReconnectThread, JoinHeartbeat, FinishDisconnect
<1>7. CASE DropReceiver
  <2>1. main' = "dropReconnect" /\ taken' = [taken EXCEPT !.receive = NoConn] /\ main = "dropReceiver"
    BY <1>7 DEF DropReceiver
  <2> QED
    BY <2>1
<1>8. CASE DropReconnect
  <2>1. main' = "finish" /\ taken' = NothingTaken
    BY <1>8 DEF DropReconnect
  <2> QED
    BY <2>1 DEF NothingTaken
<1>2. CASE ExecCb
  BY <1>2 DEF ExecCb, ExecUnchanged, ExecReadState, ExecReadReason, ExecWait,
         ExecTakeResult, ExecNoRuntime, ExecReconnect, ConnectAsync, ExecReadClock
<1>3. ASSUME NEW c \in Conns, ConnectThread(c) PROVE TakenWhileNeeded'
  BY <1>3 DEF ConnectThread, Claim, DialFails, DialSucceeds, Adopt, AdoptCancelled,
         StoreBegins, StoreCancelled, Drop, StoreReceiver, StoreHeartbeat, ReturnToMain,
         Synchronous, Report, Verify, Resolve, Raise
<1>4. ASSUME NEW c \in Conns, SocketLost(c) \/ Resume(c) \/ ReceiveThread(c) \/ HeartbeatThread(c)
      PROVE  TakenWhileNeeded'
  BY <1>4 DEF SocketLost, Resume, ReceiveThread, ReceiverChecks, ReceiveText, ReceiveFails,
         ReceiverGoes, HeartbeatThread, HeartbeatLoops, HeartbeatWakes, HeartbeatDecides, HeartbeatSends,
         HeartbeatGoes
<1>5. CASE HeartbeatTimeoutPasses \/ BackoffPasses \/ UNCHANGED vars
  BY <1>5 DEF HeartbeatTimeoutPasses, BackoffPasses, vars
<1> QED
  BY <1>1, <1>2, <1>3, <1>4, <1>5, <1>6, <1>7, <1>8, NextActions DEF MainContinues

\* It holds always.
LEMMA TakenInvariant == Spec => []TakenWhileNeeded
<1>1. Init => TakenWhileNeeded
  BY DEF Init, TakenWhileNeeded, NothingTaken
<1> QED
  BY <1>1, TypeCorrect, TakenNext, PTL DEF Spec

\* Every step keeps it.
LEMMA HeartbeatsNext ==
    TypeOK /\ TakenWhileNeeded /\ HeartbeatsOwned /\ [Next]_vars => HeartbeatsOwned'
<1> SUFFICES ASSUME TypeOK, TakenWhileNeeded, HeartbeatsOwned, [Next]_vars
             PROVE  HeartbeatsOwned'
  OBVIOUS
<1> USE ConnsAssumption DEF TypeOK, HeartbeatsOwned, NoHeartbeatLeaked, handles, connection, mainVars
<1>1. CASE BindRuntime \/ Connect \/ CallConnectAsync \/ KeepReconnectThread
           \/ FinishDisconnect
  BY <1>1 DEF BindRuntime, Connect, StartAttempt, Free, CallConnectAsync, ConnectAsync,
         KeepReconnectThread, FinishDisconnect
<1>2. CASE Disconnect \/ TimeoutDisconnect
  BY <1>2 DEF Disconnect, TimeoutDisconnect, TakeThreads, TakenWhileNeeded
<1>3. CASE JoinHeartbeat
  BY <1>3 DEF JoinHeartbeat, Joined
<1>4. CASE DropReceiver \/ DropReconnect
  BY <1>4 DEF DropReceiver, DropReconnect, TakenWhileNeeded
<1>5. CASE ExecCb
  BY <1>5 DEF ExecCb, ExecUnchanged, ExecReadState, ExecReadReason, ExecWait, StartAttempt,
         Free, ExecTakeResult, ExecNoRuntime, ExecReconnect, ConnectAsync, ExecReadClock
<1>6. ASSUME NEW c \in Conns, ConnectThread(c) PROVE HeartbeatsOwned'
  <2> USE DEF AttemptGoes
  <2>1. CASE Adopt(c)
    BY <2>1 DEF Adopt
  <2>2. CASE Drop(c)
    BY <2>2 DEF Drop
  <2>3. CASE StoreHeartbeat(c)
    BY <2>3 DEF StoreHeartbeat, Joined, Handle
  <2>4. CASE StoreBegins(c) \/ StoreCancelled(c) \/ StoreReceiver(c)
    BY <2>4 DEF StoreBegins, StoreCancelled, StoreReceiver
  <2>5. CASE Claim(c) \/ DialFails(c) \/ DialSucceeds(c) \/ AdoptCancelled(c)
    BY <2>5 DEF Claim, DialFails, DialSucceeds, AdoptCancelled
  <2>6. CASE ReturnToMain(c) \/ Report(c) \/ Verify(c) \/ Resolve(c) \/ Raise(c)
    BY <2>6 DEF ReturnToMain, Report, Verify, Resolve, Raise
  <2> QED
    BY <1>6, <2>1, <2>2, <2>3, <2>4, <2>5, <2>6 DEF ConnectThread
<1>7. ASSUME NEW c \in Conns, SocketLost(c) \/ Resume(c) \/ ReceiveThread(c) \/ HeartbeatThread(c)
      PROVE  HeartbeatsOwned'
  BY <1>7 DEF SocketLost, Resume, ReceiveThread, ReceiverChecks, ReceiveText, ReceiveFails,
         ReceiverGoes, HeartbeatThread, HeartbeatLoops, HeartbeatWakes, HeartbeatDecides, HeartbeatSends,
         HeartbeatGoes
<1>8. CASE HeartbeatTimeoutPasses \/ BackoffPasses \/ UNCHANGED vars
  BY <1>8 DEF HeartbeatTimeoutPasses, BackoffPasses, vars
<1> QED
  BY <1>1, <1>2, <1>3, <1>4, <1>5, <1>6, <1>7, <1>8, NextActions DEF MainContinues

\* Where threads are not terminated, a heartbeat thread that runs can be joined
\* by the state's owner, by disconnect() or by the attempt that started it.
THEOREM HeartbeatsJoined == Spec => []NoHeartbeatLeaked
<1>1. Init => HeartbeatsOwned
  BY DEF Init, HeartbeatsOwned, NoHeartbeatLeaked
<1>2. Spec => []HeartbeatsOwned
  BY <1>1, TypeCorrect, TakenInvariant, HeartbeatsNext, PTL DEF Spec
<1> QED
  BY <1>2, PTL DEF HeartbeatsOwned

-----------------------------------------------------------------------------
(* The attempt of the main thread, and the result execCb waits for.        *)

\* Every step keeps it.
LEMMA CurrentNext == TypeOK /\ CurrentAttempt /\ [Next]_vars => CurrentAttempt'
<1> SUFFICES ASSUME TypeOK, CurrentAttempt, [Next]_vars PROVE CurrentAttempt'
  OBVIOUS
<1> USE ConnsAssumption
    DEF TypeOK, CurrentAttempt, PendingResultIsServed, Handle, retry, mainVars
<1>1. CASE BindRuntime \/ Connect \/ CallConnectAsync
  BY <1>1 DEF BindRuntime, Connect, StartAttempt, Free, CallConnectAsync, ConnectAsync, AttemptPc
<1>2. CASE KeepReconnectThread
  BY <1>2 DEF KeepReconnectThread
<1>3. CASE Disconnect \/ TimeoutDisconnect \/ JoinHeartbeat \/ FinishDisconnect
  BY <1>3 DEF Disconnect, TimeoutDisconnect, TakeThreads, JoinHeartbeat, FinishDisconnect
<1>4. CASE DropReceiver \/ DropReconnect
  BY <1>4 DEF DropReceiver, DropReconnect
<1>5. CASE ExecCb
  <2>1. CASE ExecReconnect
    BY <2>1 DEF ExecReconnect, ExecUnchanged, ConnectAsync, StartAttempt
  <2>2. CASE ~ExecReconnect
    BY <1>5, <2>2 DEF ExecCb, ExecUnchanged, ExecReadState, ExecReadReason, ExecWait,
           ExecTakeResult, ExecNoRuntime, ExecReadClock, FollowOnly
  <2> QED
    BY <2>1, <2>2
<1>6. ASSUME NEW c \in Conns, ConnectThread(c) PROVE CurrentAttempt'
  <2> USE DEF AttemptGoes
  <2>1. CASE Resolve(c)
    BY <2>1 DEF Resolve, Settle, FollowOnly
  <2>2. CASE Raise(c)
    BY <2>2 DEF Raise, Settle, FollowOnly
  <2>3. CASE ReturnToMain(c)
    BY <2>3 DEF ReturnToMain, Synchronous
  <2>4. CASE Claim(c) \/ DialFails(c) \/ DialSucceeds(c) \/ Adopt(c) \/ AdoptCancelled(c)
    BY <2>4 DEF Claim, DialFails, DialSucceeds, Adopt, AdoptCancelled
  <2>5. CASE StoreBegins(c) \/ StoreCancelled(c) \/ Drop(c) \/ StoreReceiver(c)
             \/ StoreHeartbeat(c) \/ Report(c) \/ Verify(c)
    BY <2>5 DEF StoreBegins, StoreCancelled, Drop, StoreReceiver, StoreHeartbeat, Report, Verify
  <2> QED
    BY <1>6, <2>1, <2>2, <2>3, <2>4, <2>5 DEF ConnectThread
<1>7. ASSUME NEW c \in Conns, SocketLost(c) \/ ReceiveThread(c) \/ HeartbeatThread(c)
      PROVE  CurrentAttempt'
  BY <1>7 DEF SocketLost, ReceiveThread, ReceiverChecks, ReceiveText, ReceiveFails,
         ReceiverGoes, HeartbeatThread, HeartbeatLoops, HeartbeatWakes, HeartbeatDecides, HeartbeatSends,
         HeartbeatGoes
<1>8. ASSUME NEW c \in Conns, Resume(c) PROVE CurrentAttempt'
  BY <1>8 DEF Resume
<1>9. CASE HeartbeatTimeoutPasses \/ BackoffPasses \/ UNCHANGED vars
  BY <1>9 DEF HeartbeatTimeoutPasses, BackoffPasses, vars
<1> QED
  BY <1>1, <1>2, <1>3, <1>4, <1>5, <1>6, <1>7, <1>8, <1>9, NextActions DEF MainContinues

\* Where threads are not terminated, the attempt whose result execCb waits for
\* still runs, or its coroutine waits on the executor.
THEOREM PendingResultsServed == Spec => []PendingResultIsServed
<1>1. Init => CurrentAttempt
  BY ConnsAssumption DEF Init, CurrentAttempt, PendingResultIsServed
<1>2. Spec => []CurrentAttempt
  BY <1>1, TypeCorrect, CurrentNext, PTL DEF Spec
<1> QED
  BY <1>2, PTL DEF CurrentAttempt

-----------------------------------------------------------------------------
(* What disconnect() leaves behind where it terminates threads.            *)

\* What a connect thread does to the attempts and to who knows of them.
LEMMA AttemptEffect ==
    ASSUME TypeOK, NEW c \in Conns, ConnectThread(c)
    PROVE  /\ attempt[c] # "off"
           /\ \A d \in Conns : d # c => attempt'[d] = attempt[d]
           /\ UNCHANGED <<taken, strays>>
           /\ \/ UNCHANGED reconnectThread
              \/ reconnectThread = c /\ reconnectThread' = NoConn /\ attempt'[c] = "off"
           /\ \/ UNCHANGED <<main, current>>
              \/ main = "connect" /\ current = c /\ main' = "idle" /\ attempt'[c] = "off"
<1> USE DEF TypeOK, AttemptGoes, mainVars
<1>1. CASE ReturnToMain(c)
  BY <1>1 DEF ReturnToMain, Synchronous
<1>2. CASE Claim(c) \/ DialFails(c) \/ DialSucceeds(c) \/ Adopt(c) \/ AdoptCancelled(c)
  BY <1>2 DEF Claim, DialFails, DialSucceeds, Adopt, AdoptCancelled
<1>3. CASE StoreBegins(c) \/ StoreCancelled(c) \/ Drop(c) \/ StoreReceiver(c) \/ StoreHeartbeat(c)
  BY <1>3 DEF StoreBegins, StoreCancelled, Drop, StoreReceiver, StoreHeartbeat
<1>4. CASE Report(c) \/ Verify(c) \/ Resolve(c) \/ Raise(c)
  BY <1>4 DEF Report, Verify, Resolve, Raise
<1> QED
  BY <1>1, <1>2, <1>3, <1>4 DEF ConnectThread

\* Every step keeps it.
LEMMA AttemptsNext ==
    TypeOK /\ TakenWhileNeeded /\ AttemptsReachable /\ [Next]_vars => AttemptsReachable'
<1> SUFFICES ASSUME TypeOK, TakenWhileNeeded, AttemptsReachable, [Next]_vars
             PROVE  AttemptsReachable'
  OBVIOUS
<1> USE ConnsAssumption DEF AttemptsReachable, TakenWhileNeeded, TearingDown
<1>1. CASE BindRuntime \/ Connect \/ CallConnectAsync
  BY <1>1 DEF TypeOK, BindRuntime, Connect, StartAttempt, CallConnectAsync, ConnectAsync, mainVars
<1>2. CASE KeepReconnectThread
  BY <1>2 DEF TypeOK, KeepReconnectThread, Joined, Handle
<1>3. CASE Disconnect \/ TimeoutDisconnect
  <2>1. /\ main \in {"idle", "timedOut"} /\ main' = "joinHeartbeat"
        /\ taken'.reconnect = reconnectThread /\ reconnectThread' = NoConn
        /\ UNCHANGED <<attempt, strays>>
    BY <1>3 DEF Disconnect, TimeoutDisconnect, TakeThreads
  <2> QED
    BY <2>1
<1>4. CASE JoinHeartbeat \/ DropReceiver
  <2>1. /\ main \in {"joinHeartbeat", "dropReceiver"} /\ main' \in {"dropReceiver", "dropReconnect"}
        /\ taken'.reconnect = taken.reconnect
        /\ UNCHANGED <<attempt, strays, reconnectThread>>
    BY <1>4 DEF TypeOK, JoinHeartbeat, DropReceiver
  <2> QED
    BY <2>1
<1>5. CASE DropReconnect
  <2>1. /\ main = "dropReconnect" /\ main' = "finish"
        /\ UNCHANGED <<strays, reconnectThread>>
        /\ Terminates /\ taken.reconnect # NoConn => attempt' = Terminated(attempt, taken.reconnect)
        /\ ~Terminates \/ taken.reconnect = NoConn => attempt' = attempt
    BY <1>5 DEF DropReconnect
  <2> QED
    BY <2>1 DEF TypeOK, Terminated
<1>6. CASE FinishDisconnect
  <2>1. /\ main = "finish" /\ main' = "idle" /\ UNCHANGED <<attempt, taken, reconnectThread>>
        /\ ~strays' => \A c \in Conns : attempt[c] = "off"
    BY <1>6 DEF FinishDisconnect
  <2> QED
    BY <2>1
<1>7. CASE ExecCb
  <2>1. CASE ExecReconnect
    BY <2>1 DEF TypeOK, ExecReconnect, ExecUnchanged, ConnectAsync, StartAttempt
  <2>2. CASE ~ExecReconnect
    <3>1. /\ UNCHANGED <<attempt, taken, strays, reconnectThread>>
          /\ ~TearingDown /\ ~TearingDown' /\ main \notin {"connect", "joinOld", "finish"}
      BY <1>7, <2>2 DEF ExecCb, ExecUnchanged, ExecReadState, ExecReadReason, ExecWait,
             ExecTakeResult, ExecNoRuntime, ExecReadClock
    <3> QED
      BY <3>1
  <2> QED
    BY <2>1, <2>2
<1>8. ASSUME NEW c \in Conns, ConnectThread(c) PROVE AttemptsReachable'
  BY <1>8, AttemptEffect
<1>9. CASE \/ HeartbeatTimeoutPasses \/ BackoffPasses \/ UNCHANGED vars
           \/ \E c \in Conns : SocketLost(c) \/ Resume(c) \/ ReceiveThread(c) \/ HeartbeatThread(c)
  <2>1. UNCHANGED <<attempt, mainVars, reconnectThread>>
    BY <1>9 DEF HeartbeatTimeoutPasses, BackoffPasses, vars, SocketLost, Resume, ReceiveThread,
           ReceiverChecks, ReceiveText, ReceiveFails, ReceiverGoes, HeartbeatThread, HeartbeatLoops,
           HeartbeatWakes, HeartbeatDecides, HeartbeatSends, HeartbeatGoes
  <2> QED
    BY <2>1 DEF mainVars
<1> QED
  BY <1>1, <1>2, <1>3, <1>4, <1>5, <1>6, <1>7, <1>8, <1>9, NextActions DEF MainContinues

\* It holds always.
LEMMA AttemptsInvariant == Spec => []AttemptsReachable
<1>1. Init => AttemptsReachable
  BY DEF Init, AttemptsReachable, TearingDown
<1> QED
  BY <1>1, TypeCorrect, TakenInvariant, AttemptsNext, PTL DEF Spec

\* In the WIN32 build no attempt outlives the threads disconnect() drops.
THEOREM AttemptsStopped == Spec => []DisconnectStopsAttempts
<1>1. TakenWhileNeeded /\ AttemptsReachable => DisconnectStopsAttempts
  BY ConnsAssumption DEF TakenWhileNeeded, AttemptsReachable, DisconnectStopsAttempts, TearingDown
<1> QED
  BY <1>1, TakenInvariant, AttemptsInvariant, PTL

-----------------------------------------------------------------------------
(* Whose connection it is.                                                 *)

\* Steps of the main thread outside disconnect(), and of the environment.
LEMMA ClaimsElsewhere ==
    ASSUME TypeOK, ClaimsKept,
           \/ BindRuntime \/ Connect \/ CallConnectAsync \/ ExecCb
           \/ KeepReconnectThread \/ JoinHeartbeat
           \/ HeartbeatTimeoutPasses \/ BackoffPasses \/ UNCHANGED vars
           \/ \E c \in Conns : SocketLost(c) \/ Resume(c) \/ HeartbeatThread(c)
    PROVE  ClaimsKept'
<1>1. UNCHANGED <<connectionState, claimant, ws, receiveThread, receiver, strays>>
  BY DEF BindRuntime, Connect, CallConnectAsync, ExecCb, ExecUnchanged, ExecReadState,
         ExecReadReason, ExecWait, ExecTakeResult, ExecNoRuntime, ExecReconnect, ExecReadClock,
         KeepReconnectThread, JoinHeartbeat, HeartbeatTimeoutPasses, BackoffPasses, SocketLost, Resume,
         HeartbeatThread, HeartbeatLoops, HeartbeatWakes, HeartbeatDecides, HeartbeatSends, HeartbeatGoes,
         vars, control, handles, connection, mainVars
<1>2. \A c \in Conns : \/ attempt'[c] = attempt[c]
                       \/ attempt[c] = "off" /\ attempt'[c] = "claim"
  BY DEF TypeOK, BindRuntime, Connect, CallConnectAsync, ConnectAsync, StartAttempt, Free,
         ExecCb, ExecUnchanged, ExecReadState, ExecReadReason, ExecWait, ExecTakeResult,
         ExecNoRuntime, ExecReconnect, ExecReadClock, KeepReconnectThread, JoinHeartbeat,
         HeartbeatTimeoutPasses, BackoffPasses, SocketLost, Resume, HeartbeatThread, HeartbeatLoops,
         HeartbeatWakes, HeartbeatDecides, HeartbeatSends, HeartbeatGoes, vars
<1>3. TearingDown' <=> TearingDown
  BY DEF TearingDown, BindRuntime, Connect, CallConnectAsync, ConnectAsync,
         ExecCb, ExecReadState, ExecReadReason, ExecWait, ExecTakeResult,
         ExecNoRuntime, ExecReconnect, ExecReadClock, KeepReconnectThread, JoinHeartbeat,
         HeartbeatTimeoutPasses, BackoffPasses, SocketLost, Resume, HeartbeatThread, HeartbeatLoops,
         HeartbeatWakes, HeartbeatDecides, HeartbeatSends, HeartbeatGoes, vars, mainVars
<1>4. \A c \in Conns : (Holding(c)' => Holding(c)) /\ (Storing(c)' <=> Storing(c))
  BY <1>2 DEF Holding, Storing
<1> QED
  BY <1>1, <1>3, <1>4 DEF ClaimsKept

\* disconnect() takes the object from everybody, and ends with nobody running
\* or with strays.
LEMMA ClaimsDisconnect ==
    ASSUME TypeOK, AttemptsReachable, ClaimsKept,
           Disconnect \/ TimeoutDisconnect \/ DropReceiver \/ DropReconnect \/ FinishDisconnect
    PROVE  ClaimsKept'
<1>1. CASE Disconnect \/ TimeoutDisconnect
  <2>1. connectionState' \in {"Disconnected", "Disconnecting"} /\ main' = "joinHeartbeat"
    BY <1>1 DEF Disconnect, TimeoutDisconnect, TakeThreads
  <2> QED
    BY <2>1 DEF ClaimsKept, TearingDown
<1>2. CASE DropReceiver \/ DropReconnect
  <2>1. TearingDown /\ TearingDown'
    BY <1>2 DEF DropReceiver, DropReconnect, TearingDown
  <2>2. CASE UNCHANGED <<control, controlMutex>>
    BY <1>2, <2>1, <2>2, DropEffect DEF ClaimsKept, Holding, Storing, control, handles
  <2>3. CASE ~UNCHANGED <<control, controlMutex>>
    <3>1. /\ connectionState' = "Connected" => connectionState = "Connected"
          /\ connectionState' = "Connecting" =>
                 connectionState = "Connecting" \/ \E c \in Conns : attempt[c] = "claim" /\ attempt'[c] = "off"
          /\ ClaimEnds
      BY <1>2, <2>3, DropEffect
    <3>2. /\ UNCHANGED <<handles, strays>>
          /\ \A c \in Conns : attempt'[c] \in {attempt[c], "off"}
      BY <1>2, DropEffect
    <3> QED
      BY <2>1, <3>1, <3>2 DEF ClaimsKept, Holding, Storing, ClaimEnds, handles, AttemptsReachable
  <2> QED
    BY <2>2, <2>3
<1>3. CASE FinishDisconnect
  <2>1. /\ connectionState' = "Disconnected" /\ UNCHANGED <<attempt, receiver>>
        /\ ~strays' => \A c \in Conns : attempt[c] = "off" /\ receiver[c] = "off"
    BY <1>3 DEF FinishDisconnect, connection
  <2> QED
    BY <2>1 DEF ClaimsKept, Holding, Storing
<1> QED
  BY <1>1, <1>2, <1>3

\* An attempt acts on the object only while it is claimed for it.
LEMMA ClaimsConnectThread ==
    ASSUME TypeOK, ControlInv, AttemptsReachable, ClaimsKept, NEW c \in Conns, ConnectThread(c)
    PROVE  ClaimsKept'
<1>0. SUFFICES ASSUME ~strays PROVE ClaimsKept'
  BY AttemptEffect DEF ClaimsKept
<1>1. /\ TearingDown' <=> TearingDown
      /\ ~strays'
      /\ \A d \in Conns : d # c => attempt'[d] = attempt[d]
  BY <1>0, AttemptEffect DEF TearingDown
<1>2. /\ \A d \in Conns : TearingDown /\ attempt[d] # "off" => d = c
      /\ \A d \in Conns : Holding(d) => /\ connectionState = "Connecting" => claimant = d
                                        /\ TearingDown \/ connectionState = "Connecting"
      /\ \A d \in Conns : Storing(d) /\ connectionState = "Connecting" => ws = d
      /\ connectionState = "Connected" => ws = receiveThread
      /\ ~TearingDown => \A d \in Conns : receiver[d] # "off" =>
             \/ connectionState = "Connected" /\ receiveThread = d
             \/ Storing(d) /\ receiver[d] = "check"
  BY <1>0, AttemptEffect DEF AttemptsReachable, ClaimsKept
<1>3. CASE Claim(c)
  <2>1. CASE connectionState = "Disconnected"
    <3>1. /\ connectionState' = "Connecting" /\ claimant' = c /\ attempt'[c] = "dial"
          /\ UNCHANGED <<ws, receiveThread, receiver>>
      BY <1>3, <2>1 DEF Claim, AttemptGoes, TypeOK, handles, connection
    <3> QED
      BY <1>1, <1>2, <2>1, <3>1 DEF ClaimsKept, Holding, Storing
  <2>2. CASE connectionState # "Disconnected"
    <3>1. /\ UNCHANGED <<connectionState, claimant, ws, receiveThread, receiver>>
          /\ attempt[c] = "claim" /\ attempt'[c] = "report"
      BY <1>3, <2>2 DEF Claim, AttemptGoes, TypeOK, control, handles, connection
    <3> QED
      BY <1>1, <1>2, <3>1 DEF ClaimsKept, Holding, Storing
  <2> QED
    BY <2>1, <2>2
<1>4. CASE DialFails(c)
  <2>1. /\ connectionState' = "Disconnected" /\ attempt[c] = "dial" /\ attempt'[c] = "raise"
        /\ UNCHANGED <<ws, receiveThread, receiver>>
    BY <1>4 DEF DialFails, AttemptGoes, TypeOK, handles, connection
  <2> QED
    BY <1>1, <1>2, <2>1 DEF ClaimsKept, Holding, Storing
<1>5. CASE Adopt(c)
  <2>1. /\ connectionState = "Connecting" /\ UNCHANGED <<connectionState, claimant, receiveThread>>
        /\ ws' = c /\ attempt[c] = "adopt" /\ attempt'[c] = "store"
        /\ receiver'[c] = "check" /\ \A d \in Conns : d # c => receiver'[d] = receiver[d]
    BY <1>5 DEF Adopt, Cancelled, AttemptGoes, TypeOK
  <2> QED
    BY <1>1, <1>2, <2>1 DEF ClaimsKept, Holding, Storing
<1>6. CASE AdoptCancelled(c) \/ StoreCancelled(c)
  <2>1. /\ connectionState' = "Disconnected" /\ Holding(c) /\ attempt'[c] \in {"report", "drop"}
        /\ UNCHANGED <<ws, receiveThread, receiver>>
    BY <1>6 DEF AdoptCancelled, StoreCancelled, AttemptGoes, TypeOK, Holding, handles, connection
  <2>2. TearingDown
    BY <1>2, <1>6, <2>1, ConnsAssumption DEF AdoptCancelled, StoreCancelled, Cancelled, Unlocked,
       ControlInv, ReasonKept
  <2> QED
    BY <1>1, <1>2, <2>1, <2>2 DEF ClaimsKept, Holding, Storing
<1>7. CASE StoreReceiver(c)
  <2>1. /\ attempt[c] = "joinReceiver" /\ attempt'[c] = "joinHeartbeat" /\ receiveThread' = c
        /\ UNCHANGED <<connectionState, claimant, ws, receiver>>
    BY <1>7 DEF StoreReceiver, AttemptGoes, TypeOK, control
  <2>2. connectionState = "Connecting"
    BY <2>1 DEF ControlInv, StoringIsExclusive
  <2> QED
    BY <1>1, <1>2, <2>1, <2>2 DEF ClaimsKept, Holding, Storing
<1>8. CASE StoreHeartbeat(c)
  <2>1. /\ attempt[c] = "joinHeartbeat" /\ attempt'[c] = "report" /\ connectionState' = "Connected"
        /\ UNCHANGED <<ws, receiveThread, receiver>>
    BY <1>8 DEF StoreHeartbeat, AttemptGoes, TypeOK, connection
  <2>2. connectionState = "Connecting" /\ receiveThread = c
    BY <2>1 DEF ControlInv, StoringIsExclusive
  <2> QED
    BY <1>1, <1>2, <2>1, <2>2 DEF ClaimsKept, Holding, Storing
<1>9. CASE DialSucceeds(c) \/ StoreBegins(c)
  <2>1. /\ Holding(c) /\ Holding(c)' /\ (Storing(c)' <=> Storing(c))
        /\ UNCHANGED <<connectionState, claimant, ws, receiveThread, receiver>>
    BY <1>9 DEF DialSucceeds, StoreBegins, AttemptGoes, TypeOK, Holding, Storing, control, handles,
       connection
  <2> QED
    BY <1>1, <1>2, <2>1 DEF ClaimsKept, Holding, Storing
<1>10. CASE Drop(c) \/ ReturnToMain(c) \/ Report(c) \/ Verify(c) \/ Resolve(c) \/ Raise(c)
  <2>1. /\ ~Holding(c) /\ ~Holding(c)' /\ ~Storing(c) /\ ~Storing(c)'
        /\ UNCHANGED <<connectionState, claimant, ws, receiveThread, receiver>>
    BY <1>10 DEF Drop, ReturnToMain, Report, Verify, Resolve, Raise, AttemptGoes, TypeOK, Holding,
       Storing, control, handles, connection
  <2> QED
    BY <1>1, <1>2, <2>1 DEF ClaimsKept, Holding, Storing
<1> QED
  BY <1>3, <1>4, <1>5, <1>6, <1>7, <1>8, <1>9, <1>10 DEF ConnectThread

\* The receive thread that finds its connection lost is the one of the
\* connection that is up.
LEMMA ClaimsReceiveThread ==
    ASSUME TypeOK, ClaimsKept, NEW c \in Conns, ReceiveThread(c)
    PROVE  ClaimsKept'
<1>1. /\ UNCHANGED <<attempt, ws, receiveThread, main, strays>>
      /\ \A d \in Conns : d # c => receiver'[d] = receiver[d]
  BY DEF ReceiveThread, ReceiverChecks, ReceiveText, ReceiveFails, ReceiverGoes, TypeOK, handles, mainVars
<1>2. CASE ReceiverChecks(c)
  <2>1. /\ UNCHANGED <<connectionState, claimant>> /\ receiver[c] = "check"
        /\ receiver'[c] = IF connectionState = "Connected" THEN "read" ELSE "off"
    BY <1>2 DEF ReceiverChecks, ReceiverGoes, TypeOK, control
  <2> QED
    BY <1>1, <2>1 DEF ClaimsKept, Holding, Storing, TearingDown
<1>3. CASE ReceiveText(c)
  <2>1. /\ UNCHANGED <<connectionState, claimant>> /\ receiver[c] = "read" /\ receiver'[c] = "check"
    BY <1>3 DEF ReceiveText, ReceiverGoes, TypeOK, control
  <2> QED
    BY <1>1, <2>1 DEF ClaimsKept, Holding, Storing, TearingDown
<1>4. CASE ReceiveFails(c)
  <2>1. /\ connectionState' = "Disconnected" /\ receiver[c] = "read" /\ receiver'[c] = "off"
    BY <1>4 DEF ReceiveFails, ReceiverGoes, TypeOK
  <2> QED
    BY <1>1, <2>1 DEF ClaimsKept, Holding, Storing, TearingDown
<1> QED
  BY <1>2, <1>3, <1>4 DEF ReceiveThread

\* Every step keeps it.
LEMMA ClaimsNext ==
    TypeOK /\ ControlInv /\ AttemptsReachable /\ ClaimsKept /\ [Next]_vars => ClaimsKept'
BY NextActions, ClaimsElsewhere, ClaimsDisconnect, ClaimsConnectThread, ClaimsReceiveThread
   DEF MainContinues

\* It holds always.
LEMMA ClaimsInvariant == Spec => []ClaimsKept
<1>1. Init => ClaimsKept
  BY DEF Init, ClaimsKept, Holding, Storing
<1> QED
  BY <1>1, TypeCorrect, ControlInvariant, AttemptsInvariant, ClaimsNext, PTL DEF Spec

\* disconnect() always finds both threads of a connection that is up, which
\* read the shared socket unless an earlier disconnect() left threads behind.
THEOREM ConnectionHoldsItsThreads == Spec => []ConnectedHoldsItsThreads
<1>1. ControlInv /\ ClaimsKept => ConnectedHoldsItsThreads
  BY DEF ControlInv, ThreadsHeld, ClaimsKept, ConnectedHoldsItsThreads
<1> QED
  BY <1>1, ControlInvariant, ClaimsInvariant, PTL

-----------------------------------------------------------------------------
(* The life cycle that callers see.                                        *)

\* What a step that leaves these alone maps to: nothing.
LEMMA LifecycleUnchanged ==
    ASSUME UNCHANGED <<control, receiveThread, strays>>,
           controlMutex' = Abandoned <=> controlMutex = Abandoned
    PROVE  UNCHANGED Lifecycle!state
BY DEF Lifecycle!state, control

\* A thread that is dropped may take the object with it.
LEMMA LifecycleDrop ==
    ASSUME TypeOK, DropReceiver \/ DropReconnect
    PROVE  [Lifecycle!Next]_(Lifecycle!state)
<1>1. CASE UNCHANGED <<control, controlMutex>>
  BY <1>1, DropEffect, LifecycleUnchanged DEF handles
<1>2. CASE ~UNCHANGED <<control, controlMutex>>
  <2>1. Terminates /\ controlMutex' = Abandoned /\ UNCHANGED strays
    BY <1>2, DropEffect
  <2> QED
    BY <2>1 DEF Lifecycle!Next, Lifecycle!Hang
<1> QED
  BY <1>1, <1>2

\* The other steps of disconnect().
LEMMA LifecycleDisconnect ==
    ASSUME TypeOK, ControlInv, Disconnect \/ TimeoutDisconnect \/ FinishDisconnect
    PROVE  [Lifecycle!Next]_(Lifecycle!state)
<1> USE ConnsAssumption
<1>0. connectionState # "Hung"
  BY DEF TypeOK, ConnectionState
<1>1. CASE Disconnect \/ TimeoutDisconnect
  <2>1. /\ controlMutex = NoConn /\ controlMutex' = NoConn
        /\ connectionState' =
               IF connectionState = "Disconnected" THEN "Disconnected" ELSE "Disconnecting"
        /\ claimant' = NoConn /\ UNCHANGED strays
    BY <1>1 DEF Disconnect, TimeoutDisconnect, TakeThreads, Unlocked, ClaimEnds, locks
  <2>2. disconnectReason' = "Requested"
    BY <1>1, <2>1 DEF Disconnect, TimeoutDisconnect, TakeThreads, ControlInv, ReasonKept
  <2> QED
    BY <1>0, <2>1, <2>2 DEF Lifecycle!Next, Lifecycle!Request
<1>2. CASE FinishDisconnect
  <2>1. /\ controlMutex = NoConn /\ controlMutex' = NoConn
        /\ connectionState' = "Disconnected" /\ claimant' = NoConn
        /\ UNCHANGED disconnectReason
    BY <1>2 DEF FinishDisconnect, Unlocked, ClaimEnds, locks
  <2>2. strays' \in {strays, TRUE}
    <3>1. strays' \in BOOLEAN /\ (strays => strays')
      BY <1>2, ZenonT(30) DEF FinishDisconnect
    <3> QED
      BY <3>1 DEF TypeOK
  <2> QED
    BY <1>0, <2>1, <2>2 DEF Lifecycle!Next, Lifecycle!Finish
<1> QED
  BY <1>1, <1>2

\* The steps of an attempt.
LEMMA LifecycleConnectThread ==
    ASSUME TypeOK, ControlInv, ClaimsKept, NEW c \in Conns, ConnectThread(c)
    PROVE  [Lifecycle!Next]_(Lifecycle!state)
<1> USE ConnsAssumption
<1>1. CASE Claim(c)
  <2>1. /\ controlMutex = NoConn /\ controlMutex' = NoConn
        /\ UNCHANGED <<receiveThread, strays>>
    BY <1>1 DEF Claim, Unlocked, locks, handles, mainVars
  <2>2. CASE connectionState = "Disconnected"
    <3>1. connectionState' = "Connecting" /\ disconnectReason' = "None" /\ claimant' = c
      BY <1>1, <2>2 DEF Claim
    <3> QED
      BY <2>1, <2>2, <3>1 DEF Lifecycle!Next, Lifecycle!Attempt
  <2>3. CASE connectionState # "Disconnected"
    BY <1>1, <2>1, <2>3, LifecycleUnchanged DEF Claim
  <2> QED
    BY <2>2, <2>3
<1>2. CASE DialFails(c)
  <2>1. /\ controlMutex = NoConn /\ controlMutex' = NoConn
        /\ connectionState' = "Disconnected" /\ disconnectReason' = "Unexpected"
        /\ claimant' = NoConn /\ UNCHANGED strays
    BY <1>2 DEF DialFails, Unlocked, ClaimEnds, locks, mainVars
  <2>2. connectionState # "Hung"
    BY DEF TypeOK, ConnectionState
  <2> QED
    BY <2>1, <2>2 DEF Lifecycle!Next, Lifecycle!Lose
<1>3. CASE AdoptCancelled(c) \/ StoreCancelled(c)
  <2>1. /\ controlMutex = NoConn /\ controlMutex' = NoConn
        /\ connectionState' = "Disconnected" /\ claimant' = NoConn
        /\ UNCHANGED <<disconnectReason, strays>>
    BY <1>3 DEF AdoptCancelled, StoreCancelled, Unlocked, ClaimEnds, locks, mainVars
  <2>2. connectionState # "Hung"
    BY DEF TypeOK, ConnectionState
  <2> QED
    BY <2>1, <2>2 DEF Lifecycle!Next, Lifecycle!Finish
<1>4. CASE StoreHeartbeat(c)
  <2>1. /\ controlMutex = c /\ controlMutex' = NoConn
        /\ connectionState = "Connecting" /\ connectionState' = "Connected"
        /\ receiveThread = c /\ claimant' = NoConn
        /\ UNCHANGED <<disconnectReason, receiveThread, strays>>
    BY <1>4 DEF StoreHeartbeat, ControlInv, StoringIsExclusive, ClaimEnds, mainVars
  <2>2. disconnectReason = "None"
    BY <2>1 DEF ControlInv, ReasonKept
  <2>3. ~strays => claimant = c
    BY <1>4, <2>1 DEF ClaimsKept, Holding, StoreHeartbeat
  <2> QED
    BY <2>1, <2>2, <2>3 DEF Lifecycle!Next, Lifecycle!Establish
<1>5. CASE Adopt(c)
  <2>1. /\ controlMutex = NoConn /\ controlMutex' = NoConn
        /\ connectionState = "Connecting" /\ disconnectReason' = "None"
        /\ UNCHANGED <<connectionState, claimant, receiveThread, strays>>
    BY <1>5 DEF Adopt, Cancelled, Unlocked, locks, mainVars
  <2>2. disconnectReason = "None"
    BY <2>1 DEF ControlInv, ReasonKept
  <2> QED
    BY <2>1, <2>2, LifecycleUnchanged DEF control
<1>6. CASE StoreReceiver(c)
  <2>1. /\ controlMutex = c /\ controlMutex' = c
        /\ connectionState = "Connecting"
        /\ UNCHANGED <<control, strays>>
    BY <1>6 DEF StoreReceiver, ControlInv, StoringIsExclusive, locks, mainVars
  <2> QED
    BY <2>1 DEF Lifecycle!state, control
<1>7. CASE \/ DialSucceeds(c) \/ StoreBegins(c) \/ Drop(c)
           \/ ReturnToMain(c) \/ Report(c) \/ Verify(c) \/ Resolve(c) \/ Raise(c)
  <2>1. UNCHANGED <<control, receiveThread, strays>>
    BY <1>7 DEF DialSucceeds, StoreBegins, Drop, ReturnToMain, Report, Verify, Resolve, Raise,
           handles, mainVars
  <2>2. controlMutex' = Abandoned <=> controlMutex = Abandoned
    BY <1>7 DEF DialSucceeds, StoreBegins, Drop, ReturnToMain, Report, Verify, Resolve, Raise,
           Unlocked, locks
  <2> QED
    BY <2>1, <2>2, LifecycleUnchanged
<1> QED
  BY <1>1, <1>2, <1>3, <1>4, <1>5, <1>6, <1>7 DEF ConnectThread

\* The steps of a receive thread: a lost socket.
LEMMA LifecycleReceiveThread ==
    ASSUME TypeOK, NEW c \in Conns, ReceiveThread(c)
    PROVE  [Lifecycle!Next]_(Lifecycle!state)
<1> USE ConnsAssumption
<1>1. CASE ReceiveFails(c)
  <2>1. /\ controlMutex = NoConn /\ controlMutex' = NoConn
        /\ connectionState' = "Disconnected" /\ disconnectReason' = "Unexpected"
        /\ claimant' = NoConn /\ UNCHANGED strays
    BY <1>1 DEF ReceiveFails, ReceiverGoes, Unlocked, ClaimEnds, locks, mainVars
  <2>2. connectionState # "Hung"
    BY DEF TypeOK, ConnectionState
  <2> QED
    BY <2>1, <2>2 DEF Lifecycle!Next, Lifecycle!Lose
<1>2. CASE ReceiverChecks(c) \/ ReceiveText(c)
  <2>1. UNCHANGED <<control, receiveThread, strays, controlMutex>>
    BY <1>2 DEF ReceiverChecks, ReceiveText, ReceiverGoes, handles, locks, mainVars
  <2> QED
    BY <2>1, LifecycleUnchanged
<1> QED
  BY <1>1, <1>2 DEF ReceiveThread

\* Every step of Ws is a step of the life cycle callers see, or leaves it alone.
LEMMA LifecycleNext ==
    ASSUME TypeOK, ControlInv, ClaimsKept, [Next]_vars
    PROVE  [Lifecycle!Next]_(Lifecycle!state)
<1>1. CASE \/ BindRuntime \/ Connect \/ CallConnectAsync \/ ExecCb
           \/ KeepReconnectThread \/ JoinHeartbeat
           \/ HeartbeatTimeoutPasses \/ BackoffPasses \/ UNCHANGED vars
           \/ \E c \in Conns : SocketLost(c) \/ Resume(c) \/ HeartbeatThread(c)
  <2>1. UNCHANGED <<control, receiveThread, strays, controlMutex>>
    BY <1>1 DEF BindRuntime, Connect, CallConnectAsync, ExecCb, ExecUnchanged, ExecReadState,
           ExecReadReason, ExecWait, ExecTakeResult, ExecNoRuntime, ExecReconnect, ExecReadClock,
           KeepReconnectThread, JoinHeartbeat, HeartbeatTimeoutPasses, BackoffPasses, SocketLost,
           Resume, HeartbeatThread, HeartbeatLoops, HeartbeatWakes, HeartbeatDecides,
           HeartbeatSends, HeartbeatGoes, vars, handles, locks, connection, mainVars
  <2> QED
    BY <2>1, LifecycleUnchanged
<1> QED
  BY <1>1, NextActions, LifecycleDrop, LifecycleDisconnect, LifecycleConnectThread,
     LifecycleReceiveThread DEF MainContinues

\* Ws implements the life cycle, whichever threads overlap: until a
\* disconnect() has left a thread behind, a connection is established by the
\* attempt that claimed it and by no other.
THEOREM LifecycleImplemented == Spec => ImplementsLifecycle
<1>1. Init => Lifecycle!Init
  BY ConnsAssumption DEF Init, Lifecycle!Init
<1> QED
  BY <1>1, TypeCorrect, ControlInvariant, ClaimsInvariant, LifecycleNext, PTL
     DEF Spec, ImplementsLifecycle, Lifecycle!Spec
=============================================================================
