------------------------- MODULE AcliveBackendClient -------------------------
(* AcliveBackendClient over one connection of Ws, seen from its callers: what *)
(* its threads do to the state and the reason, one attempt at a time, the     *)
(* receive threads that a disconnect() after a heartbeat timeout leaves       *)
(* behind, and the attempt that waits for ever under controlMutex.  They      *)
(* interleave with the main thread, which calls exec() once a frame.  The     *)
(* handlers of the responses belong to the user of the client (LoginWin).     *)
EXTENDS Naturals, Sequences

CONSTANTS
    None,        \* no user is authenticated, no request is pending
    MaxQueue     \* bound on the messages waiting for a frame

ASSUME ClientAssumption == None \notin Nat \cup {"user"} /\ MaxQueue \in Nat

VARIABLES
    connectionState, disconnectReason,   \* Ws, as its callers see them
    attempt,        \* the connect thread: "none", "starting", "dialing", "hung"
    retrying,       \* is that attempt execCb's own?
    result,         \* reconnect.result: "none", "idle", "value", "exception"
    backoff,        \* is now < reconnect.nextAttemptAt?
    detached,       \* a receive thread still runs that disconnect() has taken
    messageQueue,   \* received, not yet taken by a frame
    localQueue,     \* taken by execCb, not yet dispatched
    main,           \* where the main thread is
    requester,      \* who called requestQrCodeLogin
    client,         \* AcliveBackendClient::State
    lastID,         \* the counter of makeRequestID
    history         \* what was sent, for the properties

wsVars == <<connectionState, disconnectReason, attempt, retrying, result, backoff, detached>>
clientVars == <<wsVars, messageQueue, localQueue, main, requester, client, lastID, history>>

States == {"Disconnected", "Connecting", "Connected", "Disconnecting"}
Reasons == {"None", "Requested", "Unexpected"}

-----------------------------------------------------------------------------
(* Messages: the type, `result' (1 or not) and what the payload holds.       *)

RespTypes == {"StartLiveActivity", "StopLiveActivity", "QrCodeLogin", "QrCodeScanned",
              "QrCodeLoginTerminated", "QrCodeLoginSuccess", "LiveStatus"}
ActivityTypes == {"Danmaku", "Like", "Gift"}
EventTypes == RespTypes \cup ActivityTypes \cup {"LiveActivityEnded", "Unknown"}
Messages == [type : EventTypes, ok : BOOLEAN,
             data : {"present", "badImage", "missing", "unreadable"}]

\* Types without a body of their own, and the one that never fails.
DataRequired == {"StartLiveActivity", "StopLiveActivity", "QrCodeLogin", "QrCodeLoginSuccess"}

\* What parsing a message throws: nothing, AcliveBackendError, or anything else.
ParseThrows(m) ==
    CASE m.type = "Unknown" -> "nothing"
      [] m.type # "Unknown" /\ m.data = "unreadable" -> "exception"
      [] m.type \in RespTypes \ {"LiveStatus"} /\ m.data # "unreadable" /\ ~m.ok -> "backendError"
      [] m.type \in DataRequired /\ m.ok /\ m.data = "missing" -> "exception"
      [] OTHER -> "nothing"

\* A live status that reports an error is a response all the same, without data.
LiveIDPresent(m) == m.ok /\ m.data = "present"

-----------------------------------------------------------------------------
(* The connection, whose threads run by themselves.                          *)

SettleUnnoticed(outcome) ==
    /\ attempt' = "none" /\ retrying' = FALSE
    /\ result' = result
SettleAttempt(outcome) ==
    /\ attempt' = "none" /\ retrying' = FALSE
    /\ result' = IF retrying THEN outcome ELSE result

Claim ==
    /\ attempt = "starting"
    /\ connectionState = "Disconnected"
    /\ connectionState' = "Connecting" /\ disconnectReason' = "None"
    /\ attempt' = "dialing"
    /\ UNCHANGED <<retrying, result, backoff, detached, messageQueue, localQueue, main, requester,
                   client, lastID, history>>

\* The connection is up.  A client that still believes in the connection before
\* has not seen it go.
Establish ==
    /\ attempt = "dialing" /\ connectionState = "Connecting"
    /\ connectionState' = "Connected" /\ disconnectReason' = "None"
    /\ SettleAttempt("value")
    /\ history' = [history EXCEPT
           !.delivered = FALSE,
           !.repairs = IF retrying THEN @ + 1 ELSE @,
           !.unseen = @ \/ (client.lastConnectionState = "Connected")]
    /\ UNCHANGED <<backoff, detached, messageQueue, localQueue, main, requester, client, lastID>>

DialFails ==
    /\ attempt = "dialing"
    /\ connectionState' = "Disconnected" /\ disconnectReason' = "Unexpected"
    /\ SettleAttempt("exception")
    /\ UNCHANGED <<backoff, detached, messageQueue, localQueue, main, requester, client, lastID,
                   history>>

\* The attempt finds that the object is not claimed for it any more.
AttemptCancelled ==
    /\ attempt = "dialing" /\ connectionState = "Disconnected"
    /\ SettleAttempt("exception")
    /\ UNCHANGED <<connectionState, disconnectReason, backoff, detached, messageQueue, localQueue,
                   main, requester, client, lastID, history>>

\* A repair that joins a thread of the old connection under controlMutex may
\* wait for it for ever, and with it whoever takes the mutex.
AttemptHangs ==
    /\ attempt = "dialing" /\ retrying /\ connectionState = "Connecting"
    /\ attempt' = "hung"
    /\ UNCHANGED <<connectionState, disconnectReason, retrying, result, backoff, detached,
                   messageQueue, localQueue, main, requester, client, lastID, history>>

\* controlMutex can be taken.
Unlocked == attempt # "hung"

\* A receive thread notices that its socket is gone.  A client that has not
\* seen the connection, and waits for none, will not see it go either.
KnowsConnection ==
    client.lastConnectionState = "Connected" \/ client.waitingForReconnectRecovery

Loss ==
    /\ Unlocked
    /\ connectionState' = "Disconnected" /\ disconnectReason' = "Unexpected"
    /\ history' = [history EXCEPT
           !.delivered = FALSE,
           !.unseen = @ \/ (connectionState = "Connected" /\ ~KnowsConnection)]
    /\ UNCHANGED <<attempt, retrying, result, backoff, messageQueue, localQueue, main, requester,
                   client, lastID>>

ConnectionLost == connectionState = "Connected" /\ Loss /\ UNCHANGED detached

\* One that disconnect() has taken marks whatever connection is current as lost;
\* the receive thread of that one is then left over.
DetachedFails == detached /\ Loss /\ detached' \in {TRUE, connectionState = "Connected"}

\* It has received something, and finds the state changed.
DetachedReturns ==
    /\ detached /\ Unlocked /\ connectionState # "Connected"
    /\ detached' = FALSE
    /\ UNCHANGED <<connectionState, disconnectReason, attempt, retrying, result, backoff,
                   messageQueue, localQueue, main, requester, client, lastID, history>>

EnqueueMessage(m) ==
    /\ Unlocked
    /\ connectionState = "Connected" \/ detached
    /\ Len(messageQueue) < MaxQueue
    /\ messageQueue' = Append(messageQueue, m)
    /\ UNCHANGED <<wsVars, localQueue, main, requester, client, lastID, history>>

BackoffPasses ==
    /\ backoff /\ backoff' = FALSE
    /\ UNCHANGED <<connectionState, disconnectReason, attempt, retrying, result, detached,
                   messageQueue, localQueue, main, requester, client, lastID, history>>

-----------------------------------------------------------------------------
(* exec(): Ws::execCb swaps the queue out and dispatches it message by       *)
(* message; the rest of it looks after the connection; then the client       *)
(* compares what it sees with what it saw.                                   *)

SwapQueue == localQueue' = messageQueue /\ messageQueue' = <<>> /\ main' = "dispatch"

\* The next message goes to its callback.  One that throws leaves exec(), and
\* what was swapped out behind it is gone.
Dispatch(throws) ==
    LET m == Head(localQueue) IN
    /\ main = "dispatch" /\ localQueue # <<>>
    /\ IF throws # "nothing"
       THEN localQueue' = <<>> /\ main' = throws
       ELSE localQueue' = Tail(localQueue) /\ main' = main
    /\ client' = IF m.type = "QrCodeLoginSuccess" /\ ParseThrows(m) = "nothing"
                 THEN [client EXCEPT !.authenticatedUserID = "user"] ELSE client
    /\ UNCHANGED <<wsVars, messageQueue, requester, lastID, history>>

\* A lost connection: execCb takes up the result of its last attempt, or starts one.
Reconnect ==
    /\ connectionState = "Disconnected" /\ disconnectReason = "Unexpected"
    /\ \/ (backoff \/ result = "idle") /\ UNCHANGED <<attempt, retrying, result, backoff>>
       \/ /\ ~backoff /\ result = "value"
          /\ result' = "none" /\ UNCHANGED <<attempt, retrying, backoff>>
       \/ /\ ~backoff /\ result = "exception"
          /\ result' = "none" /\ backoff' = TRUE /\ UNCHANGED <<attempt, retrying>>
       \/ /\ ~backoff /\ result = "none"
          /\ attempt' = "starting" /\ retrying' = TRUE /\ result' = "idle" /\ UNCHANGED backoff
    /\ UNCHANGED <<connectionState, disconnectReason, detached>>

\* The heartbeat was not answered in time: execCb calls disconnect().  From then
\* on the receive thread belongs to no connection.
HeartbeatTimeout ==
    /\ connectionState = "Connected"
    /\ connectionState' = "Disconnecting" /\ disconnectReason' = "Requested"
    /\ detached' = TRUE
    /\ UNCHANGED <<attempt, retrying, result, backoff>>

ExecConnection ==
    /\ main = "dispatch" /\ localQueue = <<>>
    /\ Unlocked
    /\ \/ /\ Reconnect /\ main' = "compare"
       \/ /\ connectionState # "Disconnected" \/ disconnectReason # "Unexpected"
          /\ UNCHANGED wsVars /\ main' = "compare"
       \/ HeartbeatTimeout /\ main' = "disconnecting"
    /\ UNCHANGED <<messageQueue, localQueue, requester, client, lastID, history>>

\* Where threads are terminated the receive thread is gone now.
FinishDisconnect ==
    /\ main = "disconnecting"
    /\ connectionState' = "Disconnected" /\ main' = "compare"
    /\ detached' \in {detached, FALSE}
    /\ history' = [history EXCEPT !.delivered = FALSE, !.unseen = @ \/ ~KnowsConnection]
    /\ UNCHANGED <<disconnectReason, attempt, retrying, result, backoff, messageQueue, localQueue,
                   requester, client, lastID>>

\* A loss as the client sees it.  A connection that is already being repaired is
\* lost all the same.
NoticesLossWhileDown(last, now) == last = "Connected" /\ now = "Disconnected"
NoticesLoss(last, now) == last = "Connected" /\ now # "Connected"

KeepsWaiting(waiting, recovered) == waiting
StillWaiting(waiting, recovered) == waiting /\ ~recovered

\* The state is read once, compared and remembered; a recovery re-sends the
\* pending login.
ExecCompare ==
    LET waiting == \/ client.waitingForReconnectRecovery
                   \/ NoticesLoss(client.lastConnectionState, connectionState)
        recovered == /\ waiting /\ connectionState = "Connected"
                     /\ client.pendingQrCodeLoginRequestID # None
    IN
    /\ main = "compare" /\ Unlocked
    /\ client' = [client EXCEPT !.lastConnectionState = connectionState,
                                !.waitingForReconnectRecovery = StillWaiting(waiting, recovered)]
    /\ IF recovered THEN main' = "request" /\ requester' = "exec"
                    ELSE main' = "returned" /\ requester' = requester
    /\ UNCHANGED <<wsVars, messageQueue, localQueue, lastID, history>>

-----------------------------------------------------------------------------
(* requestQrCodeLogin checks the connection, remembers the request, and      *)
(* sendText checks it again: a connection lost in between swallows the text. *)

CallRequestQrCodeLogin(who) == main' = "request" /\ requester' = who

\* An empty identifier makes a new one; exec() repeats the pending one.
RequestQrCodeLogin ==
    /\ main = "request" /\ Unlocked /\ connectionState = "Connected"
    /\ lastID' = IF requester = "exec" THEN lastID ELSE lastID + 1
    /\ client' = [client EXCEPT !.pendingQrCodeLoginRequestID = lastID']
    /\ main' = "send"
    /\ UNCHANGED <<wsVars, messageQueue, localQueue, requester, history>>

RequestThrows ==
    /\ main = "request" /\ Unlocked /\ connectionState # "Connected"
    /\ main' = IF requester = "coroutine" THEN "fatal" ELSE "exception"
    /\ UNCHANGED <<wsVars, messageQueue, localQueue, requester, client, lastID, history>>

SendText ==
    /\ main = "send" /\ Unlocked
    /\ main' = "returned"
    /\ history' = [history EXCEPT
           !.delivered = @ \/ connectionState = "Connected",
           !.resends = IF requester = "exec" /\ connectionState = "Connected" THEN @ + 1 ELSE @]
    /\ UNCHANGED <<wsVars, messageQueue, localQueue, requester, client, lastID>>

\* The continuation of connectAsync: whatever the state is by now.
Connected ==
    client' = [client EXCEPT !.lastConnectionState = connectionState,
                             !.waitingForReconnectRecovery = FALSE]

-----------------------------------------------------------------------------

ClientInit ==
    /\ connectionState = "Disconnected" /\ disconnectReason = "None"
    /\ attempt = "none" /\ retrying = FALSE /\ result = "none" /\ backoff = FALSE
    /\ detached = FALSE
    /\ messageQueue = <<>> /\ localQueue = <<>>
    /\ main = "idle" /\ requester = "coroutine" /\ lastID = 0
    /\ client = [authenticatedUserID |-> None, pendingQrCodeLoginRequestID |-> None,
                 waitingForReconnectRecovery |-> FALSE, lastConnectionState |-> "Disconnected"]
    /\ history = [delivered |-> FALSE, resends |-> 0, repairs |-> 0, unseen |-> FALSE]
=============================================================================
