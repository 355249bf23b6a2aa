------------------------------- MODULE LoginWin -------------------------------
(* The QR-code login window: it owns the backend client, connects it in a      *)
(* coroutine when it is shown, calls exec() in every update and shows what the *)
(* backend answers.                                                            *)
EXTENDS AcliveBackendClient, UiWin

VARIABLES
    login,      \* the UiWin record of the window
    ui,         \* what its elements show
    coroutine   \* the show coroutine and its connectAsync

vars == <<clientVars, login, ui, coroutine>>

ClientTypeOK ==
    /\ connectionState \in States /\ disconnectReason \in Reasons
    /\ attempt \in {"none", "starting", "dialing", "hung"} /\ retrying \in BOOLEAN
    /\ result \in {"none", "idle", "value", "exception"} /\ backoff \in BOOLEAN
    /\ detached \in BOOLEAN
    /\ messageQueue \in Seq(Messages) /\ localQueue \in Seq(Messages)
    /\ main \in {"idle", "dispatch", "backendError", "exception", "disconnecting", "compare",
                 "request", "send", "returned", "fatal", "errorBox", "fatalBox", "ended"}
    /\ requester \in {"coroutine", "click", "exec"} /\ lastID \in Nat
    /\ client \in [authenticatedUserID : {None, "user"},
                   pendingQrCodeLoginRequestID : Nat \cup {None},
                   waitingForReconnectRecovery : BOOLEAN, lastConnectionState : States]
    /\ history \in [delivered : BOOLEAN, resends : Nat, repairs : Nat, unseen : BOOLEAN]

TypeOK ==
    /\ ClientTypeOK
    /\ login \in [hidden : BOOLEAN, pendingClose : BOOLEAN, runningAsyncOp : BOOLEAN,
                  asyncOpCount : 0 .. 1, closing : BOOLEAN, shouldClose : {FALSE}]
    /\ ui \in [qrCode : BOOLEAN, hint : {"none", "scan", "confirm", "expired", "done"}]
    /\ coroutine \in {"none", "connecting", "connected", "failed", "requesting", "done"}

Init ==
    /\ ClientInit
    /\ login = NewWindow /\ ui = [qrCode |-> FALSE, hint |-> "none"]
    /\ coroutine = "none"

-----------------------------------------------------------------------------
(* Showing the window, and the coroutine that runs on it.                    *)

\* The show callback starts the coroutine, which starts an attempt and waits.
ShowLogin ==
    /\ login.hidden /\ coroutine = "none"
    /\ login' = MarkOneAsyncOpBegin(Show(login))
    /\ coroutine' = "connecting"
    /\ attempt' = "starting"
    /\ UNCHANGED <<connectionState, disconnectReason, retrying, result, backoff, detached,
                   messageQueue, localQueue, main, requester, client, lastID, history, ui>>

\* The attempt of the coroutine ends: it is posted to the main executor.
PostToResult(outcome) == coroutine' = IF retrying THEN "value" ELSE outcome
Post(outcome) == coroutine' = IF retrying THEN coroutine ELSE outcome

DialSucceeds == Establish /\ Post("connected") /\ UNCHANGED <<login, ui>>

ConnectThread ==
    \/ Claim /\ UNCHANGED <<login, ui, coroutine>>
    \/ DialSucceeds
    \/ (DialFails \/ AttemptCancelled) /\ Post("failed") /\ UNCHANGED <<login, ui>>
    \/ AttemptHangs /\ UNCHANGED <<login, ui, coroutine>>

\* The executor resumes the coroutine, which requests the login.
Resume ==
    /\ main = "idle"
    /\ \/ /\ coroutine = "connected" /\ Unlocked
          /\ Connected /\ CallRequestQrCodeLogin("coroutine") /\ coroutine' = "requesting"
       \/ /\ coroutine = "failed"
          /\ main' = "fatal" /\ coroutine' = "requesting" /\ UNCHANGED <<client, requester>>
    /\ UNCHANGED <<wsVars, messageQueue, localQueue, lastID, history, login, ui>>

\* An exception in it ends the program behind a message box.
Fatal ==
    /\ main = "fatal" /\ main' = "fatalBox"
    /\ UNCHANGED <<wsVars, messageQueue, localQueue, requester, client, lastID, history, login, ui,
                   coroutine>>

-----------------------------------------------------------------------------
(* update(): the close request, then exec() and what it throws.              *)

Update ==
    /\ main = "idle" /\ ~login.hidden
    /\ login' = ApplyCloseRequestState(login)
    /\ SwapQueue
    /\ UNCHANGED <<wsVars, requester, client, lastID, history, ui, coroutine>>

\* handleResp: an image that cannot be decoded throws before anything is shown.
HandleResp(m) ==
    CASE m.type = "QrCodeLogin" /\ m.data # "badImage" -> [ui EXCEPT !.qrCode = TRUE, !.hint = "scan"]
      [] m.type = "QrCodeScanned" -> [ui EXCEPT !.hint = "confirm"]
      [] m.type = "QrCodeLoginTerminated" -> [ui EXCEPT !.qrCode = FALSE, !.hint = "expired"]
      [] m.type = "QrCodeLoginSuccess" -> [ui EXCEPT !.hint = "done"]
      [] OTHER -> ui

HandlerThrows(m) ==
    IF ParseThrows(m) = "nothing" /\ m.type = "QrCodeLogin" /\ m.data = "badImage"
    THEN "exception" ELSE ParseThrows(m)

DispatchResp ==
    LET m == Head(localQueue) IN
    /\ Dispatch(HandlerThrows(m))
    /\ IF HandlerThrows(m) = "nothing"
       THEN /\ ui' = HandleResp(m)
            /\ login' = IF m.type = "QrCodeLoginSuccess" THEN Hide(login) ELSE login
       ELSE UNCHANGED <<ui, login>>
    /\ UNCHANGED coroutine

Exec ==
    /\ ExecConnection \/ FinishDisconnect \/ ExecCompare
    /\ UNCHANGED <<login, ui, coroutine>>

Request ==
    /\ RequestQrCodeLogin \/ RequestThrows \/ SendText
    /\ UNCHANGED <<login, ui, coroutine>>

\* Where a call returns to: the coroutine ends with its scope, a frame or an
\* event is over.  Exceptions of exec() and of event handlers are only printed.
Return ==
    /\ main \in {"returned", "exception"}
    /\ main' = "idle"
    /\ IF coroutine = "requesting"
       THEN coroutine' = "done" /\ login' = MarkOneAsyncOpFinish(login)
       ELSE UNCHANGED <<coroutine, login>>
    /\ UNCHANGED <<wsVars, messageQueue, localQueue, requester, client, lastID, history, ui>>

\* An error the backend reports is shown; the window closes after it.
BackendError ==
    /\ main = "backendError" /\ main' = "errorBox"
    /\ UNCHANGED <<wsVars, messageQueue, localQueue, requester, client, lastID, history, login, ui,
                   coroutine>>

\* The user confirms the message box.
ConfirmBox ==
    /\ \/ main = "errorBox" /\ main' = "idle" /\ login' = RequestClose(login)
       \/ main = "fatalBox" /\ main' = "ended" /\ UNCHANGED login
    /\ UNCHANGED <<wsVars, messageQueue, localQueue, requester, client, lastID, history, ui, coroutine>>

-----------------------------------------------------------------------------
(* Events of the user and of the network.                                    *)

ClickRefresh ==
    /\ main = "idle" /\ ~login.hidden
    /\ CallRequestQrCodeLogin("click")
    /\ UNCHANGED <<wsVars, messageQueue, localQueue, client, lastID, history, login, ui, coroutine>>

ClickClose ==
    /\ main = "idle" /\ ~login.hidden
    /\ login' = RequestClose(login)
    /\ UNCHANGED <<clientVars, ui, coroutine>>

Lose == (ConnectionLost \/ DetachedFails) /\ UNCHANGED <<login, ui, coroutine>>
Receive(m) == EnqueueMessage(m) /\ UNCHANGED <<login, ui, coroutine>>
ReceiverReturns == DetachedReturns /\ UNCHANGED <<login, ui, coroutine>>
Time == BackoffPasses /\ UNCHANGED <<login, ui, coroutine>>

MainContinues ==
    \/ Resume \/ Fatal \/ Update \/ DispatchResp \/ Exec \/ Request \/ Return \/ BackendError

Next ==
    \/ ShowLogin \/ ClickRefresh \/ ClickClose \/ ConfirmBox
    \/ MainContinues \/ ConnectThread \/ Time
    \/ Lose \/ ReceiverReturns \/ \E m \in Messages : Receive(m)

Spec == Init /\ [][Next]_vars
-----------------------------------------------------------------------------
(* Properties.                                                               *)

\* A login that did not reach the backend over the current connection is not
\* forgotten: the client waits for a recovery it will re-send it on, or is about
\* to notice the loss.  The exception is a connection that was repaired before
\* exec() saw that it was gone, which leaves the client waiting for nothing.
LoginNotForgotten ==
    /\ main = "idle" /\ coroutine = "done"
    /\ client.pendingQrCodeLoginRequestID # None
    /\ ~history.delivered /\ ~history.unseen
    => \/ client.waitingForReconnectRecovery
       \/ client.lastConnectionState = "Connected" /\ connectionState # "Connected"

\* A recovery re-sends the login once, however the connection comes and goes
\* between the reads of its state that one frame makes.
ResentOncePerRepair == history.resends <= history.repairs

\* The window goes away under its running coroutine only when a login succeeded,
\* and then the client already knows the user, whatever came in the same batch.
HiddenAtWorkMeansLoggedIn ==
    login.hidden /\ login.runningAsyncOp => client.authenticatedUserID # None

-----------------------------------------------------------------------------
(* The main thread, the connect thread and the clock go on, the backend is     *)
(* reachable again and again, and message boxes are confirmed.                 *)

Fairness ==
    /\ WF_vars(MainContinues) /\ SF_vars(Resume) /\ WF_vars(ConfirmBox)
    /\ WF_vars(Time) /\ WF_vars(ConnectThread)
    /\ SF_vars(DialSucceeds)

\* A login the user asked for reaches the backend over some connection, through
\* losses, failed attempts and backoff: unless a repair goes unseen or hangs, the
\* window goes, or a heartbeat timeout disconnects, which nobody has to repair.
LoginReachesBackend ==
    (client.pendingQrCodeLoginRequestID # None /\ ~history.delivered) ~>
        \/ history.delivered \/ history.unseen
        \/ login.hidden \/ main = "ended" \/ disconnectReason = "Requested" \/ ~Unlocked

\* An error of the backend closes the window, also when it arrives while the
\* coroutine that connects is still running, unless a repair hangs before it ends.
ErrorClosesWindow ==
    (main = "errorBox") ~> (login.hidden \/ main = "ended" \/ ~Unlocked)
=============================================================================
