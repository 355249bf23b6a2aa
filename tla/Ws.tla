-------------------------------- MODULE Ws --------------------------------
(***************************************************************************)
(* The WebSocket client of subprojects/Core/private/ws.cxx: one main       *)
(* thread that calls connect, connectAsync, disconnect and, every frame,   *)
(* execCb; one connect thread per connectAsync; one receive and one        *)
(* heartbeat thread per established connection; the server and the network *)
(* as environment.                                                         *)
(*                                                                         *)
(* A connection slot c \in Conns stands for everything one run of          *)
(* connectBlocking creates: the thread that runs it, its socket, its       *)
(* receive thread and its heartbeat thread.  A slot is reused once nothing *)
(* refers to it any more, so the model never runs out of attempts; Conns   *)
(* bounds how many may overlap.                                            *)
(*                                                                         *)
(* A critical section of controlMutex that cannot block is one action,     *)
(* enabled while the mutex is free.  The section that stores the new       *)
(* threads joins the old ones while it holds the mutex, so it is several   *)
(* actions.  Clocks are abstracted to the comparisons execCb makes.        *)
(* No section of connectMutex blocks while it is held, so it is a variable *)
(* only because the thread inside one may be terminated.                   *)
(***************************************************************************)
EXTENDS Naturals, FiniteSets

CONSTANTS
    Conns,        \* connection slots: bound on overlapping attempts and connections
    NoConn,       \* the empty handle, and nobody for a mutex
    Value, Exception, \* the settled results of connectAsync
    Abandoned,    \* owner of a mutex whose thread was terminated inside it
    Terminates,   \* TRUE in the WIN32 build: disconnect() terminates threads
    Heartbeats    \* heartbeatInterval > 0 and a heartbeat generator was given

ASSUME ConnsAssumption ==
    /\ Conns \cap {NoConn, Value, Exception, Abandoned} = {}
    /\ NoConn # Abandoned /\ NoConn # Value /\ NoConn # Exception
    /\ Value # Exception

ASSUME BuildAssumption == Terminates \in BOOLEAN /\ Heartbeats \in BOOLEAN

VARIABLES
    \* Ws::State, protected by controlMutex
    connectionState, disconnectReason, ws, receiveThread, heartbeatThread,
    controlMutex,       \* who holds it across several actions
    heartbeatClock,     \* lastHeartbeatSentAt against lastMessageReceivedAt
    runtimeBound,       \* bindRuntime was called
    \* Ws::State, protected by connectMutex
    connectInProgress,
    connectMutex,       \* free, or Abandoned
    \* Ws::State::reconnect, protected by nothing
    reconnectThread, disconnectNoted, backoff, result,
    \* one connect thread, socket, receive and heartbeat thread per slot
    attempt, settled, lost, receiver, heartbeat, stopRequested,
    \* the main thread: where it is, for whom, the attempt it launched, and
    \* the handles disconnect() moved out of the state
    main, caller, current, taken,
    \* history, read by no action: the attempt that claimed the object, while it
    \* is Connecting, and whether a disconnect() has ever returned with a receive
    \* or connect thread still running
    claimant, strays

control    == <<connectionState, disconnectReason, claimant>>
handles    == <<ws, receiveThread, heartbeatThread>>
retry      == <<disconnectNoted, backoff, result>>
connection == <<lost, receiver, heartbeat, stopRequested>>
mainVars   == <<main, caller, current, taken, strays>>

locks      == <<controlMutex, connectMutex, connectInProgress, runtimeBound>>

vars == <<control, handles, locks, heartbeatClock,
          reconnectThread, retry, attempt, settled, connection, mainVars>>

-----------------------------------------------------------------------------
Handle == Conns \cup {NoConn}

ConnectionState  == {"Disconnected", "Connecting", "Connected", "Disconnecting"}
DisconnectReason == {"None", "Requested", "Unexpected"}

\* never: no heartbeat was sent; waiting: sent after the last message, at most
\* heartbeatTimeout ago; overdue: longer ago; answered: a message came since.
HeartbeatClock == {"never", "waiting", "overdue", "answered"}

\* Where a thread is: the label names what it does next.
AttemptPc   == {"off", "claim", "dial", "adopt", "store", "joinReceiver",
                "joinHeartbeat", "drop", "report", "verify", "resolve", "raise"}
ReceiverPc  == {"off", "check", "read"}
HeartbeatPc == {"off", "loop", "wait", "decide", "beat"}
MainPc      == {"idle", "connect", "joinOld", "readReason", "retry", "readClock",
                "timedOut", "joinHeartbeat", "dropReceiver", "dropReconnect", "finish"}

TypeOK ==
    /\ connectionState \in ConnectionState /\ disconnectReason \in DisconnectReason
    /\ ws \in Handle /\ receiveThread \in Handle /\ heartbeatThread \in Handle
    /\ controlMutex \in Conns \cup {NoConn, Abandoned}
    /\ heartbeatClock \in HeartbeatClock
    /\ connectMutex \in {NoConn, Abandoned}
    /\ runtimeBound \in BOOLEAN /\ connectInProgress \in BOOLEAN
    /\ reconnectThread \in Handle
    /\ disconnectNoted \in BOOLEAN /\ backoff \in BOOLEAN
    /\ result \in Conns \cup {NoConn, Value, Exception}
    /\ attempt \in [Conns -> AttemptPc]
    /\ settled \in [Conns -> {NoConn, Value, Exception}]
    /\ lost \in [Conns -> BOOLEAN]
    /\ receiver \in [Conns -> ReceiverPc]
    /\ heartbeat \in [Conns -> HeartbeatPc]
    /\ stopRequested \in [Conns -> BOOLEAN]
    /\ main \in MainPc /\ caller \in {"api", "execCb"} /\ current \in Handle
    /\ taken \in [receive : Handle, heartbeat : Handle, reconnect : Handle]
    /\ claimant \in Handle /\ strays \in BOOLEAN

NothingTaken == [receive |-> NoConn, heartbeat |-> NoConn, reconnect |-> NoConn]

Init ==
    /\ connectionState = "Disconnected" /\ disconnectReason = "None"
    /\ ws = NoConn /\ receiveThread = NoConn /\ heartbeatThread = NoConn
    /\ controlMutex = NoConn /\ connectMutex = NoConn
    /\ heartbeatClock = "never"
    /\ runtimeBound = FALSE /\ connectInProgress = FALSE
    /\ reconnectThread = NoConn
    /\ disconnectNoted = FALSE /\ backoff = FALSE /\ result = NoConn
    /\ attempt = [c \in Conns |-> "off"]
    /\ settled = [c \in Conns |-> NoConn]
    /\ lost = [c \in Conns |-> FALSE]
    /\ receiver = [c \in Conns |-> "off"]
    /\ heartbeat = [c \in Conns |-> "off"]
    /\ stopRequested = [c \in Conns |-> FALSE]
    /\ main = "idle" /\ caller = "api" /\ current = NoConn /\ taken = NothingTaken
    /\ claimant = NoConn /\ strays = FALSE

\* controlMutex can be taken.
Unlocked == controlMutex = NoConn

\* Mutant: the old thread is detached where it should be joined.
Detached(pc, h) == TRUE

\* The thread behind a handle has returned, or there is none: join() returns.
Joined(pc, h) == h # NoConn => pc[h] = "off"

\* Whoever claimed the object no longer holds it once it is not Connecting.
ClaimEnds == claimant' = IF connectionState' = "Connecting" THEN claimant ELSE NoConn

\* Of the settled results only one that execCb holds, or is about to hold, is
\* followed: the coroutine of any other has nothing left to do.
FollowOnly(results) ==
    settled' = [c \in Conns |->
                   IF result' = c \/ (current = c /\ caller = "execCb")
                     THEN results[c] ELSE NoConn]

\* A stop request to a thread that has returned changes nothing.
StopRequest(threads) ==
    stopRequested' = [c \in Conns |->
                         stopRequested[c] \/ (c \in threads /\ heartbeat[c] # "off")]

\* Nothing refers to the slot: it can stand for a new attempt.
Free(c) ==
    /\ attempt[c] = "off" /\ receiver[c] = "off" /\ heartbeat[c] = "off"
    /\ settled[c] = NoConn
    /\ c \notin {ws, receiveThread, heartbeatThread, reconnectThread, result, current}
    /\ c \notin {taken.receive, taken.heartbeat, taken.reconnect}

\* The connect thread of slot c is the main thread itself, inside connect().
Synchronous(c) == main = "connect" /\ current = c

-----------------------------------------------------------------------------
(* The main thread: connect, connectAsync and disconnect.                  *)

BindRuntime ==
    /\ main = "idle" /\ ~runtimeBound
    /\ runtimeBound' = TRUE
    /\ UNCHANGED <<control, handles, controlMutex, connectMutex, connectInProgress,
                   heartbeatClock, reconnectThread, retry, attempt, settled, connection,
                   mainVars>>

StartAttempt ==
    \E c \in Conns : /\ Free(c)
                     /\ attempt' = [attempt EXCEPT ![c] = "claim"]
                     /\ current' = c

Connect ==
    /\ main = "idle"
    /\ StartAttempt
    /\ main' = "connect"
    /\ UNCHANGED <<control, handles, locks, heartbeatClock,
                   reconnectThread, retry, settled, connection, caller, taken, strays>>

\* connectAsync() up to its first suspension.  An attempt in progress makes it
\* throw: execCb then holds a result that is already an exception.
ConnectAsync(from) ==
    /\ connectMutex = NoConn
    /\ \/ /\ connectInProgress
          /\ main' = "idle"
          /\ result' = IF from = "execCb" THEN Exception ELSE result
          /\ UNCHANGED <<connectInProgress, attempt, caller, current>>
       \/ /\ ~connectInProgress
          /\ connectInProgress' = TRUE
          /\ StartAttempt
          /\ main' = "joinOld"
          /\ caller' = from
          /\ UNCHANGED result

CallConnectAsync ==
    /\ main = "idle"
    /\ ConnectAsync("api")
    /\ UNCHANGED <<control, handles, controlMutex, connectMutex, runtimeBound, heartbeatClock,
                   reconnectThread, disconnectNoted, backoff, settled, connection, taken, strays>>

\* Assigning reconnect.thread joins the thread it held; then the coroutine
\* suspends and execCb keeps its result.  The handle of a connect thread that
\* has returned is none: joining, detaching or terminating it does nothing.
KeepReconnectThread ==
    /\ main = "joinOld"
    /\ Joined(attempt, reconnectThread)
    /\ reconnectThread' = IF attempt[current] = "off" THEN NoConn ELSE current
    /\ result' = IF caller = "execCb" THEN current ELSE result
    /\ main' = "idle" /\ current' = NoConn /\ caller' = "api"
    /\ UNCHANGED <<control, handles, locks, heartbeatClock,
                   disconnectNoted, backoff, attempt, settled, connection, taken, strays>>

\* The first critical section of disconnect(), and the stop request after it.
TakeThreads(from) ==
    /\ Unlocked
    /\ disconnectReason' =
           IF connectionState = "Disconnecting" THEN disconnectReason ELSE "Requested"
    /\ connectionState' =
           IF connectionState = "Disconnected" THEN "Disconnected" ELSE "Disconnecting"
    /\ ClaimEnds
    /\ ws' = IF connectionState = "Connected" THEN NoConn ELSE ws
    /\ taken' = [receive |-> receiveThread, heartbeat |-> heartbeatThread,
                 reconnect |-> reconnectThread]
    /\ receiveThread' = NoConn /\ heartbeatThread' = NoConn /\ reconnectThread' = NoConn
    /\ StopRequest({heartbeatThread})
    /\ main' = "joinHeartbeat" /\ caller' = from
    /\ UNCHANGED <<locks, heartbeatClock, retry,
                   attempt, settled, lost, receiver, heartbeat, current, strays>>

Disconnect == main = "idle" /\ TakeThreads("api")

TimeoutDisconnect == main = "timedOut" /\ TakeThreads("execCb")

JoinHeartbeat ==
    /\ main = "joinHeartbeat"
    /\ Joined(heartbeat, taken.heartbeat)
    /\ taken' = [taken EXCEPT !.heartbeat = NoConn]
    /\ main' = "dropReceiver"
    /\ UNCHANGED <<control, handles, locks, heartbeatClock, reconnectThread, retry,
                   attempt, settled, connection, caller, current, strays>>

\* A connect thread at one of these takes controlMutex next.
Locking == {"claim", "dial", "adopt", "store", "verify", "resolve", "raise"}

\* Mutant: only the reason is looked at.
CancelledByReason == disconnectReason = "Requested"

\* disconnect() came in between.
Cancelled == connectionState # "Connecting" \/ disconnectReason = "Requested"

\* The main thread is inside disconnect().
TearingDown == main \in {"joinHeartbeat", "dropReceiver", "dropReconnect", "finish"}

\* TerminateThread strikes anywhere.  Inside a critical section nobody releases
\* the mutex then, and the pair stays as far as the section has written it.
Abandon(writes) ==
    /\ controlMutex' = Abandoned
    /\ \/ UNCHANGED <<connectionState, disconnectReason>>
       \/ \E w \in writes : connectionState' = w[1] /\ disconnectReason' = w[2]
    /\ ClaimEnds

\* What a section writes in this order: the reason of a loss, then the state.
LossWrites ==
    {<<connectionState, "Unexpected">>, <<"Disconnected", "Unexpected">>}

AttemptWrites(c) ==
    CASE attempt[c] = "claim" /\ connectionState = "Disconnected" ->
             {<<"Disconnected", "None">>, <<"Connecting", "None">>}
      [] attempt[c] = "dial" -> LossWrites
      [] attempt[c] \in {"adopt", "store"} /\ Cancelled ->
             {<<"Disconnected", disconnectReason>>}
      [] OTHER -> {}

Terminated(threads, h) == [c \in Conns |-> IF c = h THEN "off" ELSE threads[c]]

\* The receive thread is terminated, or merely detached.
DropReceiver ==
    /\ main = "dropReceiver"
    /\ IF Terminates THEN receiver' = Terminated(receiver, taken.receive)
                     ELSE UNCHANGED receiver
    /\ \/ UNCHANGED <<control, controlMutex>>
       \/ /\ Terminates /\ Unlocked
          /\ taken.receive # NoConn
          /\ receiver[taken.receive] # "off"
          /\ Abandon(IF receiver[taken.receive] = "read" /\ lost[taken.receive]
                       THEN LossWrites ELSE {})
    /\ taken' = [taken EXCEPT !.receive = NoConn]
    /\ main' = "dropReconnect"
    /\ UNCHANGED <<handles, connectMutex, connectInProgress, runtimeBound, heartbeatClock,
                   reconnectThread, retry, attempt, settled, lost, heartbeat, stopRequested,
                   caller, current, strays>>

\* So is the connect thread, which may own controlMutex across steps, or be
\* inside a section of either mutex.
DropReconnect ==
    /\ main = "dropReconnect"
    /\ LET c == taken.reconnect IN
       IF Terminates /\ c # NoConn
         THEN /\ attempt' = Terminated(attempt, c)
              /\ \/ controlMutex # c /\ UNCHANGED <<locks, control>>
                 \/ /\ controlMutex = c \/ (attempt[c] \in Locking /\ Unlocked)
                    /\ Abandon(AttemptWrites(c))
                    /\ UNCHANGED <<connectMutex, connectInProgress, runtimeBound>>
                 \/ /\ attempt[c] \in {"report", "raise"} /\ connectMutex = NoConn
                    /\ connectMutex' = Abandoned
                    /\ connectInProgress' \in {connectInProgress, FALSE}
                    /\ UNCHANGED <<controlMutex, runtimeBound, control>>
         ELSE UNCHANGED <<attempt, locks, control>>
    /\ taken' = NothingTaken
    /\ main' = "finish"
    /\ UNCHANGED <<handles, heartbeatClock, reconnectThread, retry, settled, connection,
                   caller, current, strays>>

\* The last critical section of disconnect(); execCb, when it is the caller,
\* sets nextAttemptAt to now.
FinishDisconnect ==
    /\ main = "finish"
    /\ Unlocked
    /\ ws' = NoConn
    /\ connectionState' = "Disconnected"
    /\ ClaimEnds
    /\ backoff' = (backoff /\ caller = "api")
    /\ main' = "idle" /\ caller' = "api"
    /\ strays' = (strays \/ \E c \in Conns : receiver[c] # "off" \/ attempt[c] # "off")
    /\ UNCHANGED <<disconnectReason, receiveThread, heartbeatThread, locks, heartbeatClock,
                   reconnectThread, disconnectNoted, result, attempt, settled, connection,
                   current, taken>>

-----------------------------------------------------------------------------
(* The main thread: the connection part of execCb.                         *)

ExecUnchanged ==
    UNCHANGED <<control, handles, controlMutex, connectMutex, runtimeBound, heartbeatClock,
                reconnectThread, settled, connection, taken, strays>>

ExecReadState ==
    /\ main = "idle"
    /\ Unlocked
    /\ \/ connectionState = "Disconnected" /\ main' = "readReason"
       \/ connectionState = "Connected" /\ main' = "readClock"
    /\ ExecUnchanged
    /\ UNCHANGED <<connectInProgress, retry, attempt, caller, current>>

\* Mutant: any connection that is down is retried.
UnexpectedOrRequested == disconnectReason # "None"

\* Only a connection that was lost is retried.
Unexpected == disconnectReason = "Unexpected"

\* noteDisconnect clears the backoff the first time a loss is seen.
ExecReadReason ==
    /\ main = "readReason"
    /\ Unlocked
    /\ \/ /\ ~Unexpected
          /\ main' = "idle"
          /\ UNCHANGED <<disconnectNoted, backoff>>
       \/ /\ Unexpected
          /\ main' = "retry"
          /\ disconnectNoted' = TRUE
          /\ backoff' = (disconnectNoted /\ backoff)
    /\ ExecUnchanged
    /\ UNCHANGED <<connectInProgress, result, attempt, caller, current>>

\* nextAttemptAt is not reached, or the attempt execCb started is pending.
ExecWait ==
    /\ main = "retry"
    /\ backoff \/ result \in Conns
    /\ main' = "idle"
    /\ ExecUnchanged
    /\ UNCHANGED <<connectInProgress, retry, attempt, caller, current>>

ExecTakeResult ==
    /\ main = "retry" /\ ~backoff
    /\ result \in {Value, Exception}
    /\ backoff' = (result = Exception)
    /\ result' = NoConn
    /\ main' = "idle"
    /\ ExecUnchanged
    /\ UNCHANGED <<connectInProgress, disconnectNoted, attempt, caller, current>>

ExecNoRuntime ==
    /\ main = "retry" /\ ~backoff /\ result = NoConn
    /\ ~runtimeBound
    /\ backoff' = TRUE
    /\ main' = "idle"
    /\ ExecUnchanged
    /\ UNCHANGED <<connectInProgress, disconnectNoted, result, attempt, caller, current>>

ExecReconnect ==
    /\ main = "retry" /\ ~backoff /\ result = NoConn
    /\ runtimeBound
    /\ ConnectAsync("execCb")
    /\ ExecUnchanged
    /\ UNCHANGED <<disconnectNoted, backoff>>

\* No heartbeat yet, or one that may still be answered: nothing to do.  An
\* answered one resets the reconnect state.  An overdue one is a loss: it is
\* noted, and disconnect() follows.
ExecReadClock ==
    /\ main = "readClock"
    /\ Unlocked
    /\ \/ heartbeatClock \in {"never", "waiting"} /\ main' = "idle" /\ UNCHANGED retry
       \/ /\ heartbeatClock = "answered"
          /\ main' = "idle"
          /\ disconnectNoted' = FALSE /\ backoff' = FALSE /\ result' = NoConn
       \/ /\ heartbeatClock = "overdue"
          /\ main' = "timedOut"
          /\ disconnectNoted' = TRUE
          /\ backoff' = (disconnectNoted /\ backoff)
          /\ UNCHANGED result
    /\ FollowOnly(settled)
    /\ UNCHANGED <<control, handles, locks, heartbeatClock, reconnectThread, attempt,
                   connection, caller, current, taken, strays>>

\* The executor resumes the coroutine of a settled connectAsync; the result
\* object shows it if execCb still holds one.
Resume(c) ==
    /\ main = "idle"
    /\ settled[c] # NoConn
    /\ result' = IF result = c THEN settled[c] ELSE result
    /\ settled' = [settled EXCEPT ![c] = NoConn]
    /\ UNCHANGED <<control, handles, locks, heartbeatClock,
                   reconnectThread, disconnectNoted, backoff, attempt, connection, mainVars>>

-----------------------------------------------------------------------------
(* A connect thread: connectBlocking, then the rest of connectAsync.       *)

AttemptGoes(c, pc) ==
    /\ attempt' = [attempt EXCEPT ![c] = pc]
    /\ reconnectThread' =
           IF pc = "off" /\ reconnectThread = c THEN NoConn ELSE reconnectThread

\* Mutant: an attempt claims the object whatever its state.
ClaimUnchecked(c) ==
    /\ attempt[c] = "claim"
    /\ Unlocked
    /\ connectionState' = "Connecting" /\ disconnectReason' = "None"
    /\ claimant' = c
    /\ AttemptGoes(c, "dial")
    /\ UNCHANGED <<handles, locks, heartbeatClock, retry,
                   settled, connection, mainVars>>

\* Mutant: the reason of the last disconnect is not cleared.
ClaimKeepsReason(c) ==
    /\ attempt[c] = "claim"
    /\ Unlocked
    /\ connectionState = "Disconnected"
    /\ connectionState' = "Connecting"
    /\ claimant' = c
    /\ AttemptGoes(c, "dial")
    /\ UNCHANGED <<disconnectReason, handles, locks, heartbeatClock, retry,
                   settled, connection, mainVars>>

Claim(c) ==
    /\ attempt[c] = "claim"
    /\ Unlocked
    /\ \/ /\ connectionState = "Disconnected"
          /\ connectionState' = "Connecting" /\ disconnectReason' = "None"
          /\ claimant' = c
          /\ AttemptGoes(c, "dial")
       \/ /\ connectionState # "Disconnected"
          /\ AttemptGoes(c, "report")
          /\ UNCHANGED control
    /\ UNCHANGED <<handles, locks, heartbeatClock, retry,
                   settled, connection, mainVars>>

DialFails(c) ==
    /\ attempt[c] = "dial"
    /\ Unlocked
    /\ connectionState' = "Disconnected" /\ disconnectReason' = "Unexpected"
    /\ ClaimEnds
    /\ AttemptGoes(c, "raise")
    /\ UNCHANGED <<handles, locks, heartbeatClock, retry,
                   settled, connection, mainVars>>

DialSucceeds(c) ==
    /\ attempt[c] = "dial"
    /\ AttemptGoes(c, "adopt")
    /\ UNCHANGED <<control, handles, locks, heartbeatClock, retry,
                   settled, connection, mainVars>>

\* The new socket becomes the shared one, and its two threads are started.
Adopt(c) ==
    /\ attempt[c] = "adopt"
    /\ Unlocked
    /\ ~Cancelled
    /\ ws' = c
    /\ disconnectReason' = "None"
    /\ lost' = [lost EXCEPT ![c] = FALSE]
    /\ receiver' = [receiver EXCEPT ![c] = "check"]
    /\ heartbeat' = [heartbeat EXCEPT ![c] = IF Heartbeats THEN "loop" ELSE "off"]
    /\ AttemptGoes(c, "store")
    /\ UNCHANGED <<connectionState, claimant, receiveThread, heartbeatThread, locks,
                   heartbeatClock, retry, settled, stopRequested, mainVars>>

AdoptCancelled(c) ==
    /\ attempt[c] = "adopt"
    /\ Unlocked
    /\ Cancelled
    /\ connectionState' = "Disconnected"
    /\ ClaimEnds
    /\ AttemptGoes(c, "report")
    /\ UNCHANGED <<disconnectReason, handles, locks, heartbeatClock, retry, settled,
                   connection, mainVars>>

\* Mutant: the threads are stored outside the critical section.
StoreBeginsUnlocked(c) ==
    /\ attempt[c] = "store"
    /\ Unlocked
    /\ ~Cancelled
    /\ AttemptGoes(c, "joinReceiver")
    /\ UNCHANGED <<control, handles, locks, heartbeatClock, retry, settled,
                   connection, mainVars>>

StoreBegins(c) ==
    /\ attempt[c] = "store"
    /\ Unlocked
    /\ ~Cancelled
    /\ controlMutex' = c
    /\ AttemptGoes(c, "joinReceiver")
    /\ UNCHANGED <<control, handles, connectMutex, connectInProgress, runtimeBound,
                   heartbeatClock, retry, settled, connection, mainVars>>

StoreCancelled(c) ==
    /\ attempt[c] = "store"
    /\ Unlocked
    /\ Cancelled
    /\ connectionState' = "Disconnected"
    /\ ClaimEnds
    /\ StopRequest({c})
    /\ AttemptGoes(c, "drop")
    /\ UNCHANGED <<disconnectReason, handles, locks, heartbeatClock, retry, settled, lost,
                   receiver, heartbeat, mainVars>>

\* Mutant: the two threads that were not stored are detached.
DropDetaches(c) ==
    /\ attempt[c] = "drop"
    /\ AttemptGoes(c, "report")
    /\ UNCHANGED <<control, handles, locks, heartbeatClock, retry,
                   settled, connection, mainVars>>

\* The local jthreads join the two threads that were not stored.
Drop(c) ==
    /\ attempt[c] = "drop"
    /\ heartbeat[c] = "off" /\ receiver[c] = "off"
    /\ AttemptGoes(c, "report")
    /\ UNCHANGED <<control, handles, locks, heartbeatClock, retry,
                   settled, connection, mainVars>>

\* Assigning receiveThread joins the thread it held, under controlMutex; the
\* assignment of heartbeatThread then starts with a stop request.
StoreReceiver(c) ==
    /\ attempt[c] = "joinReceiver"
    /\ Joined(receiver, receiveThread)
    /\ receiveThread' = c
    /\ StopRequest(IF Heartbeats THEN {heartbeatThread} ELSE {})
    /\ AttemptGoes(c, "joinHeartbeat")
    /\ UNCHANGED <<control, ws, heartbeatThread, locks, heartbeatClock, retry, settled, lost,
                   receiver, heartbeat, mainVars>>

\* The old heartbeat thread is joined under controlMutex too; then the
\* connection is up.
StoreHeartbeat(c) ==
    /\ attempt[c] = "joinHeartbeat"
    /\ Heartbeats => Joined(heartbeat, heartbeatThread)
    /\ heartbeatThread' = IF Heartbeats THEN c ELSE heartbeatThread
    /\ connectionState' = "Connected"
    /\ ClaimEnds
    /\ controlMutex' = NoConn
    /\ AttemptGoes(c, "report")
    /\ UNCHANGED <<disconnectReason, ws, receiveThread, connectMutex, connectInProgress,
                   runtimeBound, heartbeatClock, retry, settled, connection, mainVars>>

\* connect() returns or throws to its caller.
ReturnToMain(c) ==
    /\ Synchronous(c)
    /\ attempt[c] \in {"report", "raise"}
    /\ main' = "idle" /\ current' = NoConn
    /\ AttemptGoes(c, "off")
    /\ UNCHANGED <<control, handles, locks, heartbeatClock, retry,
                   settled, connection, caller, taken, strays>>

\* Mutant: the flag is not cleared when the attempt ends.
KeepInProgress == UNCHANGED connectInProgress

\* The next connectAsync is not refused any more.
EndProgress == connectInProgress' = FALSE

\* connectBlocking returned normally in a connect thread.
Report(c) ==
    /\ attempt[c] = "report" /\ ~Synchronous(c)
    /\ connectMutex = NoConn
    /\ EndProgress
    /\ AttemptGoes(c, "verify")
    /\ UNCHANGED <<control, handles, controlMutex, connectMutex, runtimeBound, heartbeatClock, retry, settled,
                   connection, mainVars>>

Verify(c) ==
    /\ attempt[c] = "verify"
    /\ Unlocked
    /\ AttemptGoes(c, IF connectionState = "Connected" THEN "resolve" ELSE "raise")
    /\ UNCHANGED <<control, handles, locks, heartbeatClock, retry,
                   settled, connection, mainVars>>

\* Mutant: the catch block swallows the exception instead of passing it on.
SettleValueOnly(c, outcome) == FollowOnly([settled EXCEPT ![c] =
                                   IF outcome = Value THEN outcome ELSE NoConn])

\* Settling the promise runs the coroutine up to resume_on: it takes
\* controlMutex and posts the rest to the main executor.
Settle(c, outcome) == FollowOnly([settled EXCEPT ![c] = outcome])

\* resetReconnectState, then the promise.
Resolve(c) ==
    /\ attempt[c] = "resolve"
    /\ Unlocked
    /\ disconnectNoted' = FALSE /\ backoff' = FALSE /\ result' = NoConn
    /\ Settle(c, Value)
    /\ AttemptGoes(c, "off")
    /\ UNCHANGED <<control, handles, locks, heartbeatClock,
                   connection, mainVars>>

\* The catch block: connectBlocking threw, or the connection is gone again.
Raise(c) ==
    /\ attempt[c] = "raise" /\ ~Synchronous(c)
    /\ connectMutex = NoConn /\ Unlocked
    /\ EndProgress
    /\ UNCHANGED <<control, handles, controlMutex, connectMutex, runtimeBound, heartbeatClock,
                   retry, connection, mainVars>>
    /\ Settle(c, Exception)
    /\ AttemptGoes(c, "off")

-----------------------------------------------------------------------------
(* The receive thread of a connection: receiveLoop.                        *)

\* The state of a socket is not followed once both its threads have returned.
ReceiverGoes(c, pc) ==
    /\ receiver' = [receiver EXCEPT ![c] = pc]
    /\ lost' = [lost EXCEPT ![c] = @ /\ (pc # "off" \/ heartbeat[c] # "off")]
    /\ UNCHANGED <<handles, locks, reconnectThread, retry,
                   attempt, settled, heartbeat, stopRequested, mainVars>>

ReceiverChecks(c) ==
    /\ receiver[c] = "check"
    /\ Unlocked
    /\ ReceiverGoes(c, IF connectionState = "Connected" THEN "read" ELSE "off")
    /\ UNCHANGED <<control, heartbeatClock>>

ReceiveText(c) ==
    /\ receiver[c] = "read" /\ ~lost[c]
    /\ Unlocked
    /\ heartbeatClock' = IF heartbeatClock = "never" THEN "never" ELSE "answered"
    /\ ReceiverGoes(c, "check")
    /\ UNCHANGED control

ReceiveFails(c) ==
    /\ receiver[c] = "read" /\ lost[c]
    /\ Unlocked
    /\ connectionState' = "Disconnected" /\ disconnectReason' = "Unexpected"
    /\ ClaimEnds
    /\ ReceiverGoes(c, "off")
    /\ UNCHANGED heartbeatClock

-----------------------------------------------------------------------------
(* The heartbeat thread of a connection: heartbeatLoop.                    *)

HeartbeatGoes(c, pc) ==
    /\ heartbeat' = [heartbeat EXCEPT ![c] = pc]
    /\ stopRequested' = [stopRequested EXCEPT ![c] = @ /\ pc # "off"]
    /\ lost' = [lost EXCEPT ![c] = @ /\ (pc # "off" \/ receiver[c] # "off")]
    /\ UNCHANGED <<control, handles, locks, reconnectThread,
                   retry, attempt, settled, receiver, mainVars>>

\* The condition of the loop.
HeartbeatLoops(c) ==
    /\ heartbeat[c] = "loop"
    /\ Unlocked
    /\ HeartbeatGoes(c, IF connectionState = "Connected" THEN "wait" ELSE "off")
    /\ UNCHANGED heartbeatClock

\* The predicate of wait_for looks at the stop token before it asks for the state.
HeartbeatWakes(c) ==
    /\ heartbeat[c] = "wait"
    /\ HeartbeatGoes(c, IF stopRequested[c] THEN "off" ELSE "decide")
    /\ UNCHANGED heartbeatClock

\* Not connected: the loop ends.  Connected: wait on, or the interval is over and
\* the socket tells whether to send.
HeartbeatDecides(c) ==
    /\ heartbeat[c] = "decide"
    /\ Unlocked
    /\ IF connectionState = "Connected"
         THEN \/ HeartbeatGoes(c, "wait")
              \/ HeartbeatGoes(c, IF lost[c] THEN "off" ELSE "beat")
         ELSE HeartbeatGoes(c, "off")
    /\ UNCHANGED heartbeatClock

HeartbeatSends(c) ==
    /\ heartbeat[c] = "beat"
    /\ Unlocked
    /\ heartbeatClock' = "waiting"
    /\ HeartbeatGoes(c, "loop")

-----------------------------------------------------------------------------
(* The server, the network and the clock.                                  *)

SocketLost(c) ==
    /\ ~lost[c] /\ (receiver[c] # "off" \/ heartbeat[c] # "off")
    /\ lost' = [lost EXCEPT ![c] = TRUE]
    /\ UNCHANGED <<control, handles, locks, heartbeatClock,
                   reconnectThread, retry, attempt, settled, receiver, heartbeat,
                   stopRequested, mainVars>>

HeartbeatTimeoutPasses ==
    /\ heartbeatClock = "waiting"
    /\ heartbeatClock' = "overdue"
    /\ UNCHANGED <<control, handles, locks, reconnectThread,
                   retry, attempt, settled, connection, mainVars>>

BackoffPasses ==
    /\ backoff
    /\ backoff' = FALSE
    /\ UNCHANGED <<control, handles, locks, heartbeatClock,
                   reconnectThread, disconnectNoted, result, attempt, settled, connection,
                   mainVars>>

-----------------------------------------------------------------------------
\* The application: each of these is one call on the Ws object.
UserCalls == Connect \/ CallConnectAsync \/ Disconnect

ExecCb ==
    \/ ExecReadState \/ ExecReadReason \/ ExecWait \/ ExecTakeResult
    \/ ExecNoRuntime \/ ExecReconnect \/ ExecReadClock

MainContinues ==
    \/ KeepReconnectThread \/ TimeoutDisconnect \/ JoinHeartbeat
    \/ DropReceiver \/ DropReconnect \/ FinishDisconnect

ConnectThread(c) ==
    \/ Claim(c) \/ DialFails(c) \/ DialSucceeds(c) \/ Adopt(c) \/ AdoptCancelled(c)
    \/ StoreBegins(c) \/ StoreCancelled(c) \/ Drop(c) \/ StoreReceiver(c)
    \/ StoreHeartbeat(c) \/ ReturnToMain(c) \/ Report(c) \/ Verify(c)
    \/ Resolve(c) \/ Raise(c)

ReceiveThread(c) == ReceiverChecks(c) \/ ReceiveText(c) \/ ReceiveFails(c)

HeartbeatThread(c) ==
    \/ HeartbeatLoops(c) \/ HeartbeatWakes(c) \/ HeartbeatDecides(c) \/ HeartbeatSends(c)

Environment ==
    HeartbeatTimeoutPasses \/ BackoffPasses \/ \E c \in Conns : SocketLost(c)

\* Everything but the calls the application decides to make.
System ==
    \/ BindRuntime
    \/ ExecCb
    \/ MainContinues
    \/ Environment
    \/ \E c \in Conns : \/ Resume(c)
                        \/ ConnectThread(c)
                        \/ ReceiveThread(c)
                        \/ HeartbeatThread(c)

Next == UserCalls \/ System

Spec == Init /\ [][Next]_vars

-----------------------------------------------------------------------------
(* Properties.                                                             *)

\* disconnectReason explains connectionState to whoever takes controlMutex: the
\* main, the connect and the receive threads write the pair in six places, and
\* still no attempt or connection carries the reason of an earlier one, and a
\* connection being torn down was asked to be.  A thread terminated between the
\* two writes leaves a mutex nobody takes again.
ReasonExplainsState ==
    Unlocked =>
        /\ connectionState \in {"Connecting", "Connected"} => disconnectReason = "None"
        /\ connectionState = "Disconnecting" => disconnectReason = "Requested"

\* What callers see is one connection at a time: claimed only when it was
\* disconnected and established with nothing in between, by the attempt that
\* claimed it unless an earlier disconnect() returned with threads running.
\* Where threads are terminated the mutex may be lost, and callers hang.
Lifecycle == INSTANCE WsLifecycle WITH
    NoOne <- NoConn,
    MayHang <- Terminates,
    connectionState <- IF controlMutex = Abandoned THEN "Hung" ELSE connectionState,
    disconnectReason <- IF controlMutex = Abandoned THEN "Hung" ELSE disconnectReason,
    holder <- CASE controlMutex = Abandoned -> NoConn
                [] controlMutex # Abandoned /\ connectionState = "Connected" -> receiveThread
                [] OTHER -> claimant
ImplementsLifecycle == Lifecycle!Spec

\* What disconnect() says it does to the connect thread, "force termination
\* during teardown": the connection it tears down is not established later on
\* behalf of another attempt.
EstablishedByClaimant ==
    [][connectionState = "Connecting" /\ connectionState' = "Connected"
           => receiveThread' = claimant]_vars

\* execCb reads the state, the reason and the time under three separate locks.
\* When it goes on to reconnect, whatever the other threads did in between, the
\* last word about the connection is not a disconnect() call.
RetryOnlyAfterLoss == main = "retry" => disconnectReason # "Requested"

\* A connection that is up keeps the handles disconnect() needs to end its
\* threads, both of the same connection, whichever attempt overtook which, and
\* of the shared socket unless an earlier disconnect() left threads behind.
ConnectedHoldsItsThreads ==
    connectionState = "Connected" =>
        /\ receiveThread # NoConn
        /\ strays \/ ws = receiveThread
        /\ Heartbeats => heartbeatThread = receiveThread

\* No heartbeat thread is leaked: one that runs can be joined through the
\* state, through the disconnect() in progress or through the attempt that
\* started it.  Where threads are terminated, one whose attempt was is leaked.
NoHeartbeatLeaked ==
    ~Terminates => \A c \in Conns : heartbeat[c] # "off" =>
        \/ c \in {heartbeatThread, taken.heartbeat}
        \/ attempt[c] \in {"store", "joinReceiver", "joinHeartbeat", "drop"}

\* An attempt connectAsync started runs, and has not cleared the flag for the
\* last time yet.
InFlight(c) == ~Synchronous(c) /\ attempt[c] \notin {"off", "verify", "resolve"}

\* What a refused connectAsync says: an attempt is in progress.
RefusalIsTrue == connectInProgress => \E c \in Conns : InFlight(c)

\* connectAsync is never refused for an attempt that has ended.  Where threads
\* are terminated the flag of a terminated one stays set.
RefusalHasReason == ~Terminates => RefusalIsTrue

\* execCb never waits for a result that nobody will settle: the attempt behind
\* it runs, or its coroutine waits on the executor.
PendingResultIsServed ==
    ~Terminates => (result \in Conns => attempt[result] # "off" \/ settled[result] # NoConn)

\* In the WIN32 build disconnect() leaves no attempt behind that could bring
\* the connection up again after it has returned.
DisconnectStopsAttempts ==
    Terminates /\ main = "finish" => \A c \in Conns : attempt[c] = "off"

\* An attempt that holds controlMutex joins an old thread that takes the mutex
\* before it can return: a receive thread always, a heartbeat thread unless it
\* waits and sees the stop request.
WaitsForWaiter(c) ==
    \/ attempt[c] = "joinReceiver" /\ ~Joined(receiver, receiveThread)
    \/ /\ attempt[c] = "joinHeartbeat" /\ Heartbeats /\ heartbeatThread # NoConn
       /\ heartbeat[heartbeatThread] \in {"loop", "decide", "beat"}

\* What "thread-safe, the caller need not care" promises: no thread waits under
\* controlMutex for a thread that waits for controlMutex.
NoLockedJoinOfWaiter ==
    \A c \in Conns : ~WaitsForWaiter(c)

\* What the connection flow promises: a connection that is up has a receive
\* thread running receiveLoop.
ConnectedIsReceiving ==
    connectionState = "Connected" => \E c \in Conns : receiver[c] # "off"

-----------------------------------------------------------------------------
(* Every thread goes on while it can; the executor gets its turn, and of the    *)
(* dials that are tried again and again some succeed.                        *)

Fairness ==
    /\ WF_vars(ExecCb) /\ WF_vars(MainContinues)
    /\ WF_vars(BackoffPasses)
    /\ SF_vars(\E c \in Conns : Resume(c))
    /\ SF_vars(\E c \in Conns : DialSucceeds(c))
    /\ \A c \in Conns : /\ WF_vars(ConnectThread(c))
                        /\ WF_vars(ReceiverChecks(c) \/ ReceiveFails(c))
                        /\ WF_vars(HeartbeatThread(c))

\* A connection that was lost, or an attempt that failed, for execCb to repair.
LossSeen ==
    runtimeBound /\ connectionState = "Disconnected" /\ disconnectReason = "Unexpected"

\* How a repair may end: the connection is up again; or disconnect() is called,
\* by the application or by execCb itself after an overdue heartbeat, a loss that
\* nothing repairs; or the attempt waits for ever under controlMutex.
RepairEnds ==
    \/ connectionState = "Connected"
    \/ TearingDown
    \/ \E c \in Conns : WaitsForWaiter(c)
=============================================================================
