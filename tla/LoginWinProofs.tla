---------------------------- MODULE LoginWinProofs ----------------------------
(* Proofs, for any number of requests, losses and messages, that the login     *)
(* window with its client keeps the safety properties its run checks.          *)
EXTENDS LoginWin, TLAPS

-----------------------------------------------------------------------------
(* The inductive invariant, in parts.  The types go by the parts of the state  *)
(* that change together.                                                       *)

WsTyped ==
    /\ connectionState \in States /\ disconnectReason \in Reasons
    /\ attempt \in {"none", "starting", "dialing", "hung"} /\ retrying \in BOOLEAN
    /\ result \in {"none", "idle", "value", "exception"} /\ backoff \in BOOLEAN
    /\ detached \in BOOLEAN
MainTyped ==
    /\ main \in {"idle", "dispatch", "backendError", "exception", "disconnecting", "compare",
                 "request", "send", "returned", "fatal", "errorBox", "fatalBox", "ended"}
    /\ requester \in {"coroutine", "click", "exec"} /\ lastID \in Nat
QueuesTyped == messageQueue \in Seq(Messages) /\ localQueue \in Seq(Messages)
ClientTyped ==
    client \in [authenticatedUserID : {None, "user"},
                pendingQrCodeLoginRequestID : Nat \cup {None},
                waitingForReconnectRecovery : BOOLEAN, lastConnectionState : States]
HistoryTyped ==
    history \in [delivered : BOOLEAN, resends : Nat, repairs : Nat, unseen : BOOLEAN]
Windows == [hidden : BOOLEAN, pendingClose : BOOLEAN, runningAsyncOp : BOOLEAN,
            asyncOpCount : 0 .. 1, closing : BOOLEAN, shouldClose : {FALSE}]
UiTyped ==
    /\ ui \in [qrCode : BOOLEAN, hint : {"none", "scan", "confirm", "expired", "done"}]
    /\ coroutine \in {"none", "connecting", "connected", "failed", "requesting", "done"}

\* What the state of the connection says of the threads that work on it.
ConnectionInStep ==
    /\ connectionState = "Connecting" => attempt \in {"dialing", "hung"}
    /\ attempt = "dialing" => connectionState \in {"Connecting", "Disconnected"}
    /\ attempt = "hung" => connectionState = "Connecting" /\ retrying
    /\ connectionState = "Connected" \/ main = "disconnecting" => attempt = "none"
    /\ connectionState \in {"Connecting", "Connected"} => disconnectReason = "None"
    /\ connectionState = "Disconnecting" => main = "disconnecting" /\ disconnectReason = "Requested"
    /\ main = "disconnecting" => connectionState \in {"Disconnecting", "Disconnected"}

\* The first attempt is the coroutine's, made before execCb makes any, and before
\* any receive thread is left behind.
FirstAttempt ==
    /\ coroutine = "none" => /\ login.hidden /\ main = "idle" /\ attempt = "none" /\ ~retrying
                             /\ connectionState = "Disconnected" /\ disconnectReason = "None"
    /\ coroutine = "none" \/ (attempt # "none" /\ ~retrying) =>
           /\ disconnectReason = "None" /\ connectionState # "Connected" /\ ~detached
           /\ client.lastConnectionState # "Connected" /\ ~client.waitingForReconnectRecovery
    /\ coroutine = "connecting" <=> attempt # "none" /\ ~retrying
    /\ attempt # "none" /\ retrying => result = "idle"

\* The scope the coroutine holds on the window, and where its request is.
CoroutineAtWork ==
    /\ login.runningAsyncOp <=> coroutine \notin {"none", "done"}
    /\ login.asyncOpCount = IF login.runningAsyncOp THEN 1 ELSE 0
    /\ coroutine = "requesting" =>
           /\ main \in {"request", "send", "returned", "fatal", "fatalBox", "ended"}
           /\ main = "request" => requester = "coroutine"

\* Every recovery that will be acted upon has a repair to its account.
Resending == main \in {"request", "send"} /\ requester = "exec"
RepairsPaidFor ==
    /\ Resending => ~client.waitingForReconnectRecovery
    /\ Resending \/ (client.waitingForReconnectRecovery /\ connectionState = "Connected") =>
           history.resends < history.repairs
    /\ ResentOncePerRepair

\* A login that was not delivered is waited for, or on its way.
LoginTracked ==
    /\ history.delivered => connectionState \in {"Connected", "Disconnecting"}
    /\ main = "request" /\ requester = "exec" => client.lastConnectionState = "Connected"
    /\ client.pendingQrCodeLoginRequestID # None /\ ~history.delivered /\ ~history.unseen =>
           \/ client.waitingForReconnectRecovery
           \/ /\ client.lastConnectionState = "Connected"
              /\ connectionState # "Connected" \/ main \in {"request", "send"}
           \/ main = "send" /\ connectionState = "Connected"
           \/ main = "disconnecting"
           \/ main \in {"request", "fatal", "fatalBox", "ended"} /\ coroutine = "requesting"

LoginInv ==
    /\ TypeOK /\ ConnectionInStep /\ FirstAttempt /\ CoroutineAtWork
    /\ RepairsPaidFor /\ LoginTracked /\ HiddenAtWorkMeansLoggedIn

-----------------------------------------------------------------------------
\* The initial state satisfies the invariant.
LEMMA LoginInit == Init => LoginInv
<1> SUFFICES ASSUME Init PROVE LoginInv
  OBVIOUS
<1>0. <<>> \in Seq(Messages)
  OBVIOUS
<1> USE ClientAssumption DEF Init, ClientInit, NewWindow
<1>1. TypeOK
  <2>1. ClientTypeOK
    BY <1>0 DEF ClientTypeOK, States, Reasons
  <2>2. login \in Windows
    BY DEF Windows
  <2>3. ui \in [qrCode : BOOLEAN, hint : {"none", "scan", "confirm", "expired", "done"}]
    OBVIOUS
  <2> QED
    BY <2>1, <2>2, <2>3 DEF TypeOK, Windows
<1>2. ConnectionInStep /\ FirstAttempt /\ CoroutineAtWork
  BY DEF ConnectionInStep, FirstAttempt, CoroutineAtWork
<1>3. RepairsPaidFor /\ LoginTracked /\ HiddenAtWorkMeansLoggedIn
  BY DEF RepairsPaidFor, Resending, ResentOncePerRepair, LoginTracked, HiddenAtWorkMeansLoggedIn
<1> QED
  BY <1>1, <1>2, <1>3 DEF LoginInv

-----------------------------------------------------------------------------
(* The window's operations.                                                    *)

\* Applying a close request hides the window only when no operation runs on it,
\* and does not touch the operations.
LEMMA CloseKeepsWork ==
    ASSUME NEW w \in Windows
    PROVE  /\ ApplyCloseRequestState(w) \in Windows
           /\ ApplyCloseRequestState(w).runningAsyncOp = w.runningAsyncOp
           /\ ApplyCloseRequestState(w).asyncOpCount = w.asyncOpCount
           /\ ApplyCloseRequestState(w).hidden => w.hidden \/ ~w.runningAsyncOp
           /\ w.hidden => ApplyCloseRequestState(w).hidden
<1> DEFINE hidden == [Hide(w) EXCEPT !.pendingClose = FALSE]
           closed == [hidden EXCEPT !.closing = hidden.pendingClose /\ ~CanCloseNow(hidden)]
<1>1. /\ hidden \in Windows /\ hidden.hidden
      /\ hidden.runningAsyncOp = w.runningAsyncOp /\ hidden.asyncOpCount = w.asyncOpCount
  BY DEF Windows, Hide
<1> HIDE DEF hidden
<1>2. (hidden.pendingClose /\ ~CanCloseNow(hidden)) \in BOOLEAN
  OBVIOUS
<1>3. /\ closed \in Windows /\ closed.hidden
      /\ closed.runningAsyncOp = w.runningAsyncOp /\ closed.asyncOpCount = w.asyncOpCount
  BY <1>1, <1>2 DEF Windows
<1>4. ApplyCloseRequestState(w) = IF w.pendingClose /\ ~w.runningAsyncOp THEN closed ELSE w
  BY DEF ApplyCloseRequestState, RefreshClosingVisualState, CanCloseNow, hidden
<1> HIDE DEF closed
<1>5. CASE w.pendingClose /\ ~w.runningAsyncOp
  BY <1>3, <1>4, <1>5
<1>6. CASE ~(w.pendingClose /\ ~w.runningAsyncOp)
  BY <1>4, <1>6
<1> QED
  BY <1>5, <1>6

\* Nor does making one.
LEMMA RequestKeepsWork ==
    ASSUME NEW w \in Windows
    PROVE  /\ RequestClose(w) \in Windows
           /\ RequestClose(w).runningAsyncOp = w.runningAsyncOp
           /\ RequestClose(w).asyncOpCount = w.asyncOpCount
           /\ RequestClose(w).hidden => w.hidden \/ ~w.runningAsyncOp
           /\ w.hidden => RequestClose(w).hidden
<1> DEFINE asked == [w EXCEPT !.pendingClose = TRUE]
           refreshed == [asked EXCEPT !.closing = asked.pendingClose /\ ~CanCloseNow(asked)]
<1>1. /\ asked \in Windows /\ asked.hidden = w.hidden
      /\ asked.runningAsyncOp = w.runningAsyncOp /\ asked.asyncOpCount = w.asyncOpCount
  BY DEF Windows
<1> HIDE DEF asked
<1>2. (asked.pendingClose /\ ~CanCloseNow(asked)) \in BOOLEAN
  OBVIOUS
<1>3. /\ refreshed \in Windows /\ refreshed.hidden = w.hidden
      /\ refreshed.runningAsyncOp = w.runningAsyncOp /\ refreshed.asyncOpCount = w.asyncOpCount
  BY <1>1, <1>2 DEF Windows
<1>4. RequestClose(w) = ApplyCloseRequestState(refreshed)
  BY DEF RequestClose, RefreshClosingVisualState, CanCloseNow, asked
<1> HIDE DEF refreshed
<1> QED
  BY <1>3, <1>4, CloseKeepsWork

-----------------------------------------------------------------------------
(* Every step keeps the types.                                                 *)

\* The connection and its attempts.
LEMMA WsTypes == ASSUME Next, WsTyped PROVE WsTyped'
<1> USE DEF WsTyped, States, Reasons
<1>1. CASE ShowLogin \/ ClickRefresh \/ ClickClose \/ ConfirmBox \/ Time \/ Lose \/ ReceiverReturns
  BY <1>1 DEF ShowLogin, ClickRefresh, CallRequestQrCodeLogin, ClickClose, ConfirmBox, Time,
     BackoffPasses, Lose, ConnectionLost, DetachedFails, Loss, ReceiverReturns, DetachedReturns,
     clientVars, wsVars
<1>2. CASE ConnectThread \/ \E m \in Messages : Receive(m)
  BY <1>2 DEF ConnectThread, DialSucceeds, Claim, DialFails, AttemptCancelled, AttemptHangs,
     Establish, SettleAttempt, Receive, EnqueueMessage, wsVars
<1>3. CASE Resume \/ Fatal \/ Update \/ Return \/ BackendError \/ DispatchResp \/ Request
  BY <1>3 DEF Resume, Fatal, Update, Return, BackendError, DispatchResp, Dispatch, Request,
     RequestQrCodeLogin, RequestThrows, SendText, wsVars
<1>4. CASE Exec
  BY <1>4 DEF Exec, ExecConnection, Reconnect, HeartbeatTimeout, FinishDisconnect, ExecCompare,
     wsVars
<1> QED
  BY <1>1, <1>2, <1>3, <1>4 DEF Next, MainContinues

\* The position of the main thread.
LEMMA MainTypes == ASSUME Next, MainTyped PROVE MainTyped'
<1>2. CASE ShowLogin \/ ClickRefresh \/ ClickClose \/ ConfirmBox \/ Time \/ Lose \/ ReceiverReturns
    BY <1>2 DEF MainTyped, ShowLogin, ClickRefresh, CallRequestQrCodeLogin, ClickClose,
       ConfirmBox, Time, BackoffPasses,
       Lose, ConnectionLost, DetachedFails, Loss, ReceiverReturns, DetachedReturns, clientVars
<1>3. CASE ConnectThread \/ \E m \in Messages : Receive(m)
    BY <1>3 DEF MainTyped, ConnectThread, DialSucceeds, Claim, DialFails, AttemptCancelled,
       AttemptHangs, Establish, Receive, EnqueueMessage
<1>4. CASE Resume \/ Fatal \/ Update \/ Return \/ BackendError
    BY <1>4 DEF MainTyped, Resume, CallRequestQrCodeLogin, Fatal, Update, SwapQueue, Return,
       BackendError
<1>6. CASE Exec
    BY <1>6 DEF MainTyped, Exec, ExecConnection, FinishDisconnect, ExecCompare
<1>8. CASE Request
    BY <1>8 DEF MainTyped, Request, RequestQrCodeLogin, RequestThrows, SendText
<1>7. CASE DispatchResp
  <2>1. \A m : HandlerThrows(m) \in {"nothing", "exception", "backendError"}
    BY DEF HandlerThrows, ParseThrows
  <2> QED  BY <1>7, <2>1 DEF MainTyped, DispatchResp, Dispatch
<1> QED BY <1>2, <1>3, <1>4, <1>6, <1>7, <1>8 DEF Next, MainContinues

\* The two message queues.
LEMMA QueueTypes == ASSUME Next, QueuesTyped PROVE QueuesTyped'
<1>1. \/ UNCHANGED <<messageQueue, localQueue>>
      \/ \E m \in Messages : EnqueueMessage(m)
      \/ SwapQueue \/ DispatchResp
  <2>2. CASE ShowLogin \/ ClickRefresh \/ ClickClose \/ ConfirmBox \/ Time \/ Lose \/ ReceiverReturns
    BY <2>2 DEF ShowLogin, ClickRefresh, CallRequestQrCodeLogin, ClickClose, ConfirmBox, Time,
       BackoffPasses,
       Lose, ConnectionLost, DetachedFails, Loss, ReceiverReturns, DetachedReturns, clientVars
  <2>3. CASE ConnectThread \/ \E m \in Messages : Receive(m)
    BY <2>3 DEF ConnectThread, DialSucceeds, Claim, DialFails, AttemptCancelled, AttemptHangs,
       Establish, Receive
  <2>4. CASE MainContinues
    BY <2>4 DEF MainContinues, Resume, Fatal, Update, Return, BackendError, Exec, ExecConnection,
       FinishDisconnect, ExecCompare, Request, RequestQrCodeLogin, RequestThrows, SendText
  <2> QED BY <2>2, <2>3, <2>4 DEF Next
<1>2. CASE \E m \in Messages : EnqueueMessage(m)
  BY <1>2 DEF QueuesTyped, EnqueueMessage
<1>3. CASE DispatchResp
  <2>1. localQueue' = <<>> \/ localQueue' = Tail(localQueue)
    BY <1>3 DEF DispatchResp, Dispatch
  <2>2. messageQueue' = messageQueue /\ localQueue # <<>>
    BY <1>3 DEF DispatchResp, Dispatch
  <2>3. <<>> \in Seq(Messages)
        /\ (localQueue \in Seq(Messages) /\ localQueue # <<>>
              => Tail(localQueue) \in Seq(Messages))
    OBVIOUS
  <2> QED BY <2>1, <2>2, <2>3 DEF QueuesTyped
<1>4. <<>> \in Seq(Messages)
  OBVIOUS
<1> QED BY <1>1, <1>2, <1>3, <1>4 DEF QueuesTyped, SwapQueue

\* The state the client remembers.
LEMMA ClientTypes == ASSUME Next, WsTyped, MainTyped, ClientTyped PROVE ClientTyped'
<1>1. \/ UNCHANGED client \/ DispatchResp \/ ExecCompare \/ RequestQrCodeLogin \/ Connected
  <2>2. CASE ShowLogin \/ ClickRefresh \/ ClickClose \/ ConfirmBox \/ Time \/ Lose \/ ReceiverReturns
    BY <2>2 DEF ShowLogin, ClickRefresh, CallRequestQrCodeLogin, ClickClose, ConfirmBox, Time,
       BackoffPasses,
       Lose, ConnectionLost, DetachedFails, Loss, ReceiverReturns, DetachedReturns, clientVars
  <2>3. CASE ConnectThread \/ \E m \in Messages : Receive(m)
    BY <2>3 DEF ConnectThread, DialSucceeds, Claim, DialFails, AttemptCancelled, AttemptHangs,
       Establish, Receive, EnqueueMessage
  <2>4. CASE MainContinues
    BY <2>4 DEF MainContinues, Resume, Fatal, Update, Return, BackendError, Exec, ExecConnection,
       FinishDisconnect, Request, RequestThrows, SendText
  <2> QED BY <2>2, <2>3, <2>4 DEF Next
<1>2. CASE DispatchResp
  BY <1>2 DEF DispatchResp, Dispatch, ClientTyped
<1>3. CASE ExecCompare
  <2> DEFINE waiting == \/ client.waitingForReconnectRecovery
                   \/ NoticesLoss(client.lastConnectionState, connectionState)
        recovered == /\ waiting /\ connectionState = "Connected"
                     /\ client.pendingQrCodeLoginRequestID # None
  <2>1. StillWaiting(waiting, recovered) \in BOOLEAN
    BY DEF StillWaiting
  <2>2. client' = [client EXCEPT !.lastConnectionState = connectionState,
                                !.waitingForReconnectRecovery = StillWaiting(waiting, recovered)]
    BY <1>3 DEF ExecCompare
  <2> QED BY <2>1, <2>2 DEF ClientTyped, WsTyped
<1>4. CASE RequestQrCodeLogin
  <2>1. lastID' \in Nat /\ client' = [client EXCEPT !.pendingQrCodeLoginRequestID = lastID']
    BY <1>4 DEF RequestQrCodeLogin, MainTyped
  <2> QED BY <2>1 DEF ClientTyped
<1>5. CASE Connected
  BY <1>5 DEF Connected, ClientTyped, WsTyped
<1> QED BY <1>1, <1>2, <1>3, <1>4, <1>5 DEF ClientTyped

\* The history.
LEMMA HistoryTypes == ASSUME Next, HistoryTyped PROVE HistoryTyped'
<1>1. \/ UNCHANGED history \/ Establish \/ Loss \/ FinishDisconnect \/ SendText
  <2>2. CASE ShowLogin \/ ClickRefresh \/ ClickClose \/ ConfirmBox \/ Time \/ Lose \/ ReceiverReturns
    BY <2>2 DEF ShowLogin, ClickRefresh, CallRequestQrCodeLogin, ClickClose, ConfirmBox, Time,
       BackoffPasses, Lose, ConnectionLost, DetachedFails, ReceiverReturns, DetachedReturns,
       clientVars
  <2>3. CASE ConnectThread \/ \E m \in Messages : Receive(m)
    BY <2>3 DEF ConnectThread, DialSucceeds, Claim, DialFails, AttemptCancelled, AttemptHangs,
       Receive, EnqueueMessage
  <2>4. CASE MainContinues
    BY <2>4 DEF MainContinues, Resume, Fatal, Update, Return, BackendError, DispatchResp,
       Dispatch, Exec, ExecConnection,
       ExecCompare, Request, RequestThrows, RequestQrCodeLogin
  <2> QED BY <2>2, <2>3, <2>4 DEF Next
<1>2. CASE Establish
  <2> DEFINE repairs == IF retrying THEN history.repairs + 1 ELSE history.repairs
             unseen == history.unseen \/ (client.lastConnectionState = "Connected")
  <2>1. repairs \in Nat /\ unseen \in BOOLEAN
    BY DEF HistoryTyped
  <2>2. history' = [history EXCEPT !.delivered = FALSE, !.repairs = repairs, !.unseen = unseen]
    BY <1>2 DEF Establish
  <2> HIDE DEF repairs, unseen
  <2> QED
    BY <2>1, <2>2 DEF HistoryTyped
<1>3. CASE Loss \/ FinishDisconnect
  <2>1. PICK unseen \in BOOLEAN :
            history' = [history EXCEPT !.delivered = FALSE, !.unseen = unseen]
    <3> DEFINE lost == history.unseen \/ (connectionState = "Connected" /\ ~KnowsConnection)
               finished == history.unseen \/ ~KnowsConnection
    <3>1. lost \in BOOLEAN /\ finished \in BOOLEAN
      OBVIOUS
    <3>2. \/ history' = [history EXCEPT !.delivered = FALSE, !.unseen = lost]
          \/ history' = [history EXCEPT !.delivered = FALSE, !.unseen = finished]
      BY <1>3 DEF Loss, FinishDisconnect
    <3> HIDE DEF lost, finished
    <3> QED
      BY <3>1, <3>2
  <2> QED
    BY <2>1 DEF HistoryTyped
<1>4. CASE SendText
  <2> DEFINE delivered == history.delivered \/ connectionState = "Connected"
             resends == IF requester = "exec" /\ connectionState = "Connected"
                        THEN history.resends + 1 ELSE history.resends
  <2>1. delivered \in BOOLEAN /\ resends \in Nat
    BY DEF HistoryTyped
  <2>2. history' = [history EXCEPT !.delivered = delivered, !.resends = resends]
    BY <1>4 DEF SendText
  <2> HIDE DEF delivered, resends
  <2> QED
    BY <2>1, <2>2 DEF HistoryTyped
<1> QED BY <1>1, <1>2, <1>3, <1>4 DEF HistoryTyped

\* The window counts at most one operation: the scope of the coroutine.
LEMMA WindowTypes == ASSUME Next, login \in Windows, UiTyped, CoroutineAtWork
                     PROVE  login' \in Windows /\ UiTyped'
<1>1. CASE ShowLogin
  <2>1. login.asyncOpCount = 0
    BY <1>1 DEF ShowLogin, CoroutineAtWork
  <2> DEFINE shown == Show(login)
             count == shown.asyncOpCount + 1
  <2>5. shown \in Windows /\ shown.asyncOpCount = 0
    BY <2>1 DEF Windows, Show
  <2>2. shown \in Windows /\ count \in 0 .. 1
    BY <2>5
  <2>3. login' = [shown EXCEPT !.asyncOpCount = count, !.runningAsyncOp = TRUE]
    BY <1>1 DEF ShowLogin, MarkOneAsyncOpBegin
  <2> HIDE DEF shown, count
  <2>4. login' \in Windows
    BY <2>2, <2>3 DEF Windows
  <2> QED
    BY <1>1, <2>4 DEF ShowLogin, UiTyped
<1>2. CASE Update \/ ClickClose \/ ConfirmBox
  BY <1>2, CloseKeepsWork, RequestKeepsWork
     DEF Update, ClickClose, ConfirmBox, UiTyped
<1>3. CASE DispatchResp
  <2>1. login' = login \/ login' = Hide(login)
    BY <1>3 DEF DispatchResp
  <2>2. login' \in Windows
    BY <2>1 DEF Windows, Hide
  <2>3. ui' = ui \/ ui' = HandleResp(Head(localQueue))
    BY <1>3 DEF DispatchResp
  <2>4. UiTyped'
    BY <1>3, <2>3 DEF DispatchResp, UiTyped, HandleResp
  <2> QED
    BY <2>2, <2>4
<1>4. CASE Return
  <2>1. CASE coroutine = "requesting"
    <3> DEFINE count == login.asyncOpCount - 1
               running == login.runningAsyncOp /\ login.asyncOpCount > 1
    <3>1. login.asyncOpCount = 1
      BY <2>1 DEF CoroutineAtWork
    <3>2. count \in 0 .. 1 /\ running \in BOOLEAN
      BY <3>1
    <3>3. login' = [login EXCEPT !.asyncOpCount = count, !.runningAsyncOp = running]
      BY <1>4, <2>1 DEF Return, MarkOneAsyncOpFinish
    <3> HIDE DEF count, running
    <3>4. login' \in Windows
      BY <3>2, <3>3 DEF Windows
    <3> QED
      BY <1>4, <2>1, <3>4 DEF Return, UiTyped
  <2>2. CASE coroutine # "requesting"
    BY <1>4, <2>2 DEF Return, UiTyped
  <2> QED
    BY <2>1, <2>2
<1>5. CASE ClickRefresh \/ Time \/ Lose \/ ReceiverReturns \/ \E m \in Messages : Receive(m)
  BY <1>5 DEF ClickRefresh, Time, Lose, ReceiverReturns, Receive, UiTyped
<1>6. CASE ConnectThread
  BY <1>6 DEF ConnectThread, DialSucceeds, Post, UiTyped
<1>7. CASE Resume \/ Fatal \/ Exec \/ Request \/ BackendError
  BY <1>7 DEF Resume, Fatal, Exec, Request, BackendError, UiTyped
<1> QED
  BY <1>1, <1>2, <1>3, <1>4, <1>5, <1>6, <1>7 DEF Next, MainContinues

\* The type invariant as a whole.
LEMMA TypesKept == ASSUME TypeOK, CoroutineAtWork, Next PROVE TypeOK'
<1>1. WsTyped /\ MainTyped /\ QueuesTyped /\ ClientTyped /\ HistoryTyped
  BY DEF TypeOK, ClientTypeOK, WsTyped, MainTyped, QueuesTyped, ClientTyped, HistoryTyped
<1>2. login \in Windows /\ UiTyped
  BY DEF TypeOK, Windows, UiTyped
<1>3. WsTyped' /\ MainTyped' /\ QueuesTyped' /\ ClientTyped' /\ HistoryTyped'
  BY <1>1, WsTypes, MainTypes, QueueTypes, ClientTypes, HistoryTypes
<1>4. login' \in Windows /\ UiTyped'
  BY <1>2, WindowTypes
<1>5. ClientTypeOK'
  BY <1>3 DEF ClientTypeOK, WsTyped, MainTyped, QueuesTyped, ClientTyped, HistoryTyped
<1> QED
  BY <1>4, <1>5 DEF TypeOK, Windows, UiTyped

-----------------------------------------------------------------------------
(* Every step keeps the other parts.                                           *)

OtherParts ==
    /\ ConnectionInStep /\ FirstAttempt /\ CoroutineAtWork
    /\ RepairsPaidFor /\ LoginTracked /\ HiddenAtWorkMeansLoggedIn

\* The user, the network and the clock.
LEMMA EnvironmentKeeps ==
    ASSUME LoginInv,
           \/ ShowLogin
           \/ ClickRefresh
           \/ ClickClose
           \/ ConfirmBox
           \/ Time
           \/ Lose
           \/ ReceiverReturns
           \/ (\E m \in Messages : Receive(m))
    PROVE  OtherParts'
<1> USE ClientAssumption DEF LoginInv, TypeOK, ClientTypeOK, wsVars, clientVars, States, Reasons
<1>1. CASE ShowLogin
  <2>1. ConnectionInStep' /\ FirstAttempt'
    BY <1>1 DEF ShowLogin, ConnectionInStep, FirstAttempt, CoroutineAtWork
  <2>2. CoroutineAtWork'
    <3> DEFINE shown == Show(login)
               count == shown.asyncOpCount + 1
    <3>1. shown \in Windows /\ shown.asyncOpCount = 0
      BY <1>1 DEF ShowLogin, Windows, Show, CoroutineAtWork
    <3>2. login' = [shown EXCEPT !.asyncOpCount = count, !.runningAsyncOp = TRUE]
      BY <1>1 DEF ShowLogin, MarkOneAsyncOpBegin
    <3>3. count = 1
      BY <3>1
    <3> HIDE DEF shown, count
    <3>4. login'.runningAsyncOp /\ login'.asyncOpCount = 1
      BY <3>1, <3>2, <3>3 DEF Windows
    <3> QED
      BY <1>1, <3>4 DEF ShowLogin, CoroutineAtWork
  <2>3. RepairsPaidFor' /\ LoginTracked'
    BY <1>1 DEF ShowLogin, RepairsPaidFor, Resending, ResentOncePerRepair, FirstAttempt,
       ConnectionInStep, CoroutineAtWork, LoginTracked
  <2>4. HiddenAtWorkMeansLoggedIn'
    BY <1>1 DEF ShowLogin, Show, MarkOneAsyncOpBegin, Windows, HiddenAtWorkMeansLoggedIn
  <2> QED
    BY <2>1, <2>2, <2>3, <2>4 DEF OtherParts
<1>2. CASE ClickRefresh
  <2>1. ConnectionInStep' /\ FirstAttempt' /\ CoroutineAtWork'
    BY <1>2 DEF ClickRefresh, CallRequestQrCodeLogin, ConnectionInStep, FirstAttempt,
       CoroutineAtWork
  <2>2. RepairsPaidFor' /\ LoginTracked' /\ HiddenAtWorkMeansLoggedIn'
    BY <1>2 DEF ClickRefresh, CallRequestQrCodeLogin, RepairsPaidFor, Resending,
       ResentOncePerRepair, FirstAttempt, ConnectionInStep, CoroutineAtWork, LoginTracked,
       HiddenAtWorkMeansLoggedIn
  <2> QED
    BY <2>1, <2>2 DEF OtherParts
<1>3. CASE ClickClose
  <2>0. login \in Windows
    BY DEF Windows
  <2>1. ConnectionInStep' /\ FirstAttempt' /\ CoroutineAtWork'
    BY CloseKeepsWork, RequestKeepsWork, <2>0, <1>3 DEF ClickClose, ConnectionInStep,
       FirstAttempt, CoroutineAtWork
  <2>2. RepairsPaidFor' /\ LoginTracked' /\ HiddenAtWorkMeansLoggedIn'
    BY CloseKeepsWork, RequestKeepsWork, <2>0, <1>3 DEF ClickClose, RepairsPaidFor, Resending,
       ResentOncePerRepair, FirstAttempt, ConnectionInStep, CoroutineAtWork, LoginTracked,
       HiddenAtWorkMeansLoggedIn
  <2> QED
    BY <2>1, <2>2 DEF OtherParts
<1>4. CASE ConfirmBox
  <2>0. login \in Windows
    BY DEF Windows
  <2>1. ConnectionInStep' /\ FirstAttempt' /\ CoroutineAtWork'
    BY RequestKeepsWork, <2>0, <1>4 DEF ConfirmBox, ConnectionInStep, FirstAttempt,
       CoroutineAtWork
  <2>2. RepairsPaidFor' /\ LoginTracked' /\ HiddenAtWorkMeansLoggedIn'
    BY RequestKeepsWork, <2>0, <1>4 DEF ConfirmBox, RepairsPaidFor, Resending,
       ResentOncePerRepair, FirstAttempt, ConnectionInStep, CoroutineAtWork, LoginTracked,
       HiddenAtWorkMeansLoggedIn
  <2> QED
    BY <2>1, <2>2 DEF OtherParts
<1>5. CASE Time
  <2>1. ConnectionInStep' /\ FirstAttempt' /\ CoroutineAtWork'
    BY <1>5 DEF Time, BackoffPasses, ConnectionInStep, FirstAttempt, CoroutineAtWork
  <2>2. RepairsPaidFor' /\ LoginTracked' /\ HiddenAtWorkMeansLoggedIn'
    BY <1>5 DEF Time, BackoffPasses, RepairsPaidFor, Resending, ResentOncePerRepair, FirstAttempt,
       ConnectionInStep, CoroutineAtWork, LoginTracked, HiddenAtWorkMeansLoggedIn
  <2> QED
    BY <2>1, <2>2 DEF OtherParts
<1>6. CASE Lose
  <2>1. /\ Loss /\ UNCHANGED <<login, ui, coroutine>>
        /\ (connectionState = "Connected" /\ UNCHANGED detached) \/ detached
        /\ detached' \in BOOLEAN /\ (detached' => detached \/ connectionState = "Connected")
    BY <1>6 DEF Lose, ConnectionLost, DetachedFails
  <2>2. ConnectionInStep' /\ FirstAttempt' /\ CoroutineAtWork'
    BY <2>1 DEF Loss, Unlocked, ConnectionInStep, FirstAttempt, CoroutineAtWork
  <2>3. RepairsPaidFor' /\ HiddenAtWorkMeansLoggedIn'
    BY <2>1 DEF Loss, RepairsPaidFor, Resending, ResentOncePerRepair, HiddenAtWorkMeansLoggedIn
  <2>4. LoginTracked'
    BY <2>1 DEF Loss, KnowsConnection, LoginTracked, ConnectionInStep
  <2> QED
    BY <2>2, <2>3, <2>4 DEF OtherParts
<1>7. CASE \E m \in Messages : Receive(m)
  <2>1. ConnectionInStep' /\ FirstAttempt' /\ CoroutineAtWork'
    BY <1>7 DEF Receive, EnqueueMessage, ConnectionInStep, FirstAttempt, CoroutineAtWork
  <2>2. RepairsPaidFor' /\ LoginTracked' /\ HiddenAtWorkMeansLoggedIn'
    BY <1>7 DEF Receive, EnqueueMessage, RepairsPaidFor, Resending, ResentOncePerRepair,
       FirstAttempt, ConnectionInStep, CoroutineAtWork, LoginTracked, HiddenAtWorkMeansLoggedIn
  <2> QED
    BY <2>1, <2>2 DEF OtherParts
<1>8. CASE ReceiverReturns
  <2>1. ConnectionInStep' /\ FirstAttempt' /\ CoroutineAtWork'
    BY <1>8 DEF ReceiverReturns, DetachedReturns, ConnectionInStep, FirstAttempt, CoroutineAtWork
  <2>2. RepairsPaidFor' /\ LoginTracked' /\ HiddenAtWorkMeansLoggedIn'
    BY <1>8 DEF ReceiverReturns, DetachedReturns, RepairsPaidFor, Resending, ResentOncePerRepair,
       LoginTracked, HiddenAtWorkMeansLoggedIn
  <2> QED
    BY <2>1, <2>2 DEF OtherParts
<1> QED
  BY <1>1, <1>2, <1>3, <1>4, <1>5, <1>6, <1>7, <1>8

\* The attempts to connect.
LEMMA ConnectThreadKeeps ==
    ASSUME LoginInv,
           \/ Claim /\ UNCHANGED <<login, ui, coroutine>>
           \/ DialSucceeds
           \/ DialFails /\ Post("failed") /\ UNCHANGED <<login, ui>>
           \/ AttemptCancelled /\ Post("failed") /\ UNCHANGED <<login, ui>>
           \/ AttemptHangs /\ UNCHANGED <<login, ui, coroutine>>
    PROVE  OtherParts'
<1> USE ClientAssumption DEF LoginInv, TypeOK, ClientTypeOK, wsVars, clientVars, States, Reasons
<1>1. CASE Claim /\ UNCHANGED <<login, ui, coroutine>>
  <2>1. ConnectionInStep' /\ FirstAttempt' /\ CoroutineAtWork'
    BY <1>1 DEF Claim, ConnectionInStep, FirstAttempt, CoroutineAtWork
  <2>2. RepairsPaidFor' /\ LoginTracked' /\ HiddenAtWorkMeansLoggedIn'
    BY <1>1 DEF Claim, RepairsPaidFor, Resending, ResentOncePerRepair, FirstAttempt,
       ConnectionInStep, CoroutineAtWork, LoginTracked, HiddenAtWorkMeansLoggedIn
  <2> QED
    BY <2>1, <2>2 DEF OtherParts
<1>2. CASE DialSucceeds
  <2>1. ConnectionInStep' /\ FirstAttempt' /\ CoroutineAtWork'
    BY <1>2 DEF DialSucceeds, Establish, Post, SettleAttempt, ConnectionInStep, FirstAttempt,
       CoroutineAtWork
  <2>2. LoginTracked' /\ HiddenAtWorkMeansLoggedIn'
    BY <1>2 DEF DialSucceeds, Establish, Post, SettleAttempt, LoginTracked, FirstAttempt,
       ConnectionInStep, CoroutineAtWork, RepairsPaidFor, Resending, HiddenAtWorkMeansLoggedIn
  <2>3. RepairsPaidFor'
    <3> DEFINE repairs == IF retrying THEN history.repairs + 1 ELSE history.repairs
               unseen == history.unseen \/ (client.lastConnectionState = "Connected")
    <3>1. repairs \in Nat /\ unseen \in BOOLEAN
      OBVIOUS
    <3>2. history' = [history EXCEPT !.delivered = FALSE, !.repairs = repairs, !.unseen = unseen]
      BY <1>2 DEF DialSucceeds, Establish
    <3>3. /\ history.repairs <= repairs /\ history.resends \in Nat
          /\ retrying => history.repairs < repairs
      OBVIOUS
    <3> HIDE DEF repairs, unseen
    <3>4. history'.repairs = repairs /\ history'.resends = history.resends
      BY <3>1, <3>2
    <3>5. ~retrying => ~client.waitingForReconnectRecovery
      BY <1>2 DEF DialSucceeds, Establish, FirstAttempt
    <3>6. UNCHANGED <<client, main, requester>>
      BY <1>2 DEF DialSucceeds, Establish
    <3> QED
      BY <3>1, <3>3, <3>4, <3>5, <3>6 DEF RepairsPaidFor, Resending, ResentOncePerRepair
  <2> QED
    BY <2>1, <2>2, <2>3 DEF OtherParts
<1>3. CASE DialFails /\ Post("failed") /\ UNCHANGED <<login, ui>>
  <2>1. ConnectionInStep' /\ FirstAttempt' /\ CoroutineAtWork'
    BY <1>3 DEF DialFails, Post, SettleAttempt, ConnectionInStep, FirstAttempt, CoroutineAtWork
  <2>2. LoginTracked' /\ HiddenAtWorkMeansLoggedIn'
    BY <1>3 DEF DialFails, Post, SettleAttempt, LoginTracked, FirstAttempt, ConnectionInStep,
       CoroutineAtWork, RepairsPaidFor, Resending, HiddenAtWorkMeansLoggedIn
  <2>3. RepairsPaidFor'
    BY <1>3 DEF DialFails, RepairsPaidFor, Resending, ResentOncePerRepair
  <2> QED
    BY <2>1, <2>2, <2>3 DEF OtherParts
<1>4. CASE AttemptCancelled /\ Post("failed") /\ UNCHANGED <<login, ui>>
  <2>1. ConnectionInStep' /\ FirstAttempt' /\ CoroutineAtWork'
    BY <1>4 DEF AttemptCancelled, Post, SettleAttempt, ConnectionInStep, FirstAttempt,
       CoroutineAtWork
  <2>2. LoginTracked' /\ HiddenAtWorkMeansLoggedIn'
    BY <1>4 DEF AttemptCancelled, Post, SettleAttempt, LoginTracked, FirstAttempt,
       ConnectionInStep, CoroutineAtWork, RepairsPaidFor, Resending, HiddenAtWorkMeansLoggedIn
  <2>3. RepairsPaidFor'
    BY <1>4 DEF AttemptCancelled, RepairsPaidFor, Resending, ResentOncePerRepair
  <2> QED
    BY <2>1, <2>2, <2>3 DEF OtherParts
<1>5. CASE AttemptHangs /\ UNCHANGED <<login, ui, coroutine>>
  <2>1. ConnectionInStep' /\ FirstAttempt' /\ CoroutineAtWork'
    BY <1>5 DEF AttemptHangs, ConnectionInStep, FirstAttempt, CoroutineAtWork
  <2>2. RepairsPaidFor' /\ LoginTracked' /\ HiddenAtWorkMeansLoggedIn'
    BY <1>5 DEF AttemptHangs, RepairsPaidFor, Resending, ResentOncePerRepair, LoginTracked,
       HiddenAtWorkMeansLoggedIn
  <2> QED
    BY <2>1, <2>2 DEF OtherParts
<1> QED
  BY <1>1, <1>2, <1>3, <1>4, <1>5

\* The main thread outside a frame and a request.
LEMMA MainKeeps ==
    ASSUME LoginInv,
           \/ Resume
           \/ Fatal
           \/ Update
           \/ DispatchResp
           \/ Return
           \/ BackendError
    PROVE  OtherParts'
<1> USE ClientAssumption DEF LoginInv, TypeOK, ClientTypeOK, wsVars, clientVars, States, Reasons
<1>1. CASE Resume
  <2>1. ConnectionInStep' /\ FirstAttempt' /\ CoroutineAtWork'
    BY <1>1 DEF Resume, Connected, CallRequestQrCodeLogin, ConnectionInStep, FirstAttempt,
       CoroutineAtWork
  <2>2. RepairsPaidFor' /\ LoginTracked' /\ HiddenAtWorkMeansLoggedIn'
    BY <1>1, ZenonT(30) DEF Resume, Connected, CallRequestQrCodeLogin, RepairsPaidFor, Resending,
       ResentOncePerRepair, FirstAttempt, ConnectionInStep, CoroutineAtWork, LoginTracked,
       HiddenAtWorkMeansLoggedIn
  <2> QED
    BY <2>1, <2>2 DEF OtherParts
<1>2. CASE Fatal
  <2>1. ConnectionInStep' /\ FirstAttempt' /\ CoroutineAtWork'
    BY <1>2 DEF Fatal, ConnectionInStep, FirstAttempt, CoroutineAtWork
  <2>2. RepairsPaidFor' /\ LoginTracked' /\ HiddenAtWorkMeansLoggedIn'
    BY <1>2 DEF Fatal, RepairsPaidFor, Resending, ResentOncePerRepair, FirstAttempt,
       ConnectionInStep, CoroutineAtWork, LoginTracked, HiddenAtWorkMeansLoggedIn
  <2> QED
    BY <2>1, <2>2 DEF OtherParts
<1>3. CASE Update
  <2>0. login \in Windows
    BY DEF Windows
  <2>1. ConnectionInStep' /\ FirstAttempt' /\ CoroutineAtWork'
    BY CloseKeepsWork, <2>0, <1>3 DEF Update, SwapQueue, ConnectionInStep, FirstAttempt,
       CoroutineAtWork
  <2>2. RepairsPaidFor' /\ LoginTracked' /\ HiddenAtWorkMeansLoggedIn'
    BY CloseKeepsWork, <2>0, <1>3 DEF Update, SwapQueue, RepairsPaidFor, Resending,
       ResentOncePerRepair, FirstAttempt, ConnectionInStep, CoroutineAtWork, LoginTracked,
       HiddenAtWorkMeansLoggedIn
  <2> QED
    BY <2>1, <2>2 DEF OtherParts
<1>4. CASE DispatchResp
  <2> DEFINE m == Head(localQueue)
  <2>a. /\ main = "dispatch" /\ UNCHANGED <<wsVars, coroutine>>
        /\ main' \in {main, HandlerThrows(m)}
        /\ login' \in {login, Hide(login)}
    BY <1>4 DEF DispatchResp, Dispatch
  <2>b. /\ client'.lastConnectionState = client.lastConnectionState
        /\ client'.waitingForReconnectRecovery = client.waitingForReconnectRecovery
    BY <1>4 DEF DispatchResp, Dispatch
  <2>c. HandlerThrows(m) \in {"nothing", "exception", "backendError"}
    BY DEF HandlerThrows, ParseThrows
  <2>d. /\ login'.runningAsyncOp = login.runningAsyncOp
        /\ login'.asyncOpCount = login.asyncOpCount
    BY <2>a DEF Hide, Windows
  <2> HIDE DEF m
  <2>1. ConnectionInStep' /\ FirstAttempt'
    BY <2>a, <2>b, <2>c DEF ConnectionInStep, FirstAttempt
  <2>3. CoroutineAtWork'
    BY <2>a, <2>c, <2>d DEF CoroutineAtWork
  <2>2. RepairsPaidFor' /\ LoginTracked' /\ HiddenAtWorkMeansLoggedIn'
    BY <1>4 DEF DispatchResp, Dispatch, Hide, HandlerThrows, ParseThrows, Windows, RepairsPaidFor,
       Resending, ResentOncePerRepair, FirstAttempt, ConnectionInStep, CoroutineAtWork,
       LoginTracked, HiddenAtWorkMeansLoggedIn
  <2> QED
    BY <2>1, <2>2, <2>3 DEF OtherParts
<1>5. CASE Return
  <2>1. ConnectionInStep' /\ FirstAttempt'
    BY <1>5 DEF Return, ConnectionInStep, FirstAttempt, CoroutineAtWork
  <2>2. CoroutineAtWork'
    <3>1. CASE coroutine = "requesting"
      <4> DEFINE count == login.asyncOpCount - 1
                 running == login.runningAsyncOp /\ login.asyncOpCount > 1
      <4>1. login.asyncOpCount = 1
        BY <3>1 DEF CoroutineAtWork
      <4>2. count = 0 /\ ~running /\ running \in BOOLEAN
        BY <4>1
      <4>3. login' = [login EXCEPT !.asyncOpCount = count, !.runningAsyncOp = running]
        BY <1>5, <3>1 DEF Return, MarkOneAsyncOpFinish
      <4> HIDE DEF count, running
      <4>4. ~login'.runningAsyncOp /\ login'.asyncOpCount = 0
        BY <4>2, <4>3
      <4> QED
        BY <1>5, <3>1, <4>4 DEF Return, CoroutineAtWork
    <3>2. CASE coroutine # "requesting"
      BY <1>5, <3>2 DEF Return, CoroutineAtWork
    <3> QED
      BY <3>1, <3>2
  <2>3. RepairsPaidFor' /\ LoginTracked'
    BY <1>5 DEF Return, RepairsPaidFor, Resending, ResentOncePerRepair, FirstAttempt,
       ConnectionInStep, CoroutineAtWork, LoginTracked
  <2>4. HiddenAtWorkMeansLoggedIn'
    BY <1>5, <2>2 DEF Return, CoroutineAtWork, HiddenAtWorkMeansLoggedIn
  <2> QED
    BY <2>1, <2>2, <2>3, <2>4 DEF OtherParts
<1>6. CASE BackendError
  <2>1. ConnectionInStep' /\ FirstAttempt' /\ CoroutineAtWork'
    BY <1>6 DEF BackendError, ConnectionInStep, FirstAttempt, CoroutineAtWork
  <2>2. RepairsPaidFor' /\ LoginTracked' /\ HiddenAtWorkMeansLoggedIn'
    BY <1>6 DEF BackendError, RepairsPaidFor, Resending, ResentOncePerRepair, FirstAttempt,
       ConnectionInStep, CoroutineAtWork, LoginTracked, HiddenAtWorkMeansLoggedIn
  <2> QED
    BY <2>1, <2>2 DEF OtherParts
<1> QED
  BY <1>1, <1>2, <1>3, <1>4, <1>5, <1>6

\* A frame: the connection and the comparison of its states.
LEMMA ExecKeeps ==
    ASSUME LoginInv,
           \/ ExecConnection /\ UNCHANGED <<login, ui, coroutine>>
           \/ FinishDisconnect /\ UNCHANGED <<login, ui, coroutine>>
           \/ ExecCompare /\ UNCHANGED <<login, ui, coroutine>>
    PROVE  OtherParts'
<1> USE ClientAssumption DEF LoginInv, TypeOK, ClientTypeOK, wsVars, clientVars, States, Reasons
<1>1. CASE ExecConnection /\ UNCHANGED <<login, ui, coroutine>>
  <2>1. ConnectionInStep' /\ FirstAttempt' /\ CoroutineAtWork'
    BY <1>1 DEF ExecConnection, Reconnect, HeartbeatTimeout, ConnectionInStep, FirstAttempt,
       CoroutineAtWork
  <2>2. RepairsPaidFor' /\ LoginTracked' /\ HiddenAtWorkMeansLoggedIn'
    BY <1>1 DEF ExecConnection, Reconnect, HeartbeatTimeout, RepairsPaidFor, Resending,
       ResentOncePerRepair, FirstAttempt, ConnectionInStep, CoroutineAtWork, LoginTracked,
       HiddenAtWorkMeansLoggedIn
  <2> QED
    BY <2>1, <2>2 DEF OtherParts
<1>2. CASE FinishDisconnect /\ UNCHANGED <<login, ui, coroutine>>
  <2>1. ConnectionInStep' /\ FirstAttempt' /\ CoroutineAtWork'
    BY <1>2 DEF FinishDisconnect, KnowsConnection, ConnectionInStep, FirstAttempt, CoroutineAtWork
  <2>2. RepairsPaidFor' /\ LoginTracked' /\ HiddenAtWorkMeansLoggedIn'
    BY <1>2 DEF FinishDisconnect, KnowsConnection, RepairsPaidFor, Resending, ResentOncePerRepair,
       FirstAttempt, ConnectionInStep, CoroutineAtWork, LoginTracked, HiddenAtWorkMeansLoggedIn
  <2> QED
    BY <2>1, <2>2 DEF OtherParts
<1>3. CASE ExecCompare /\ UNCHANGED <<login, ui, coroutine>>
  <2>1. ConnectionInStep' /\ FirstAttempt' /\ CoroutineAtWork'
    BY <1>3 DEF ExecCompare, NoticesLoss, StillWaiting, ConnectionInStep, FirstAttempt,
       CoroutineAtWork
  <2>2. RepairsPaidFor' /\ LoginTracked' /\ HiddenAtWorkMeansLoggedIn'
    BY <1>3 DEF ExecCompare, NoticesLoss, StillWaiting, RepairsPaidFor, Resending,
       ResentOncePerRepair, FirstAttempt, ConnectionInStep, CoroutineAtWork, LoginTracked,
       HiddenAtWorkMeansLoggedIn
  <2> QED
    BY <2>1, <2>2 DEF OtherParts
<1> QED
  BY <1>1, <1>2, <1>3

\* A request for a login.
LEMMA RequestKeeps ==
    ASSUME LoginInv,
           \/ RequestQrCodeLogin /\ UNCHANGED <<login, ui, coroutine>>
           \/ RequestThrows /\ UNCHANGED <<login, ui, coroutine>>
           \/ SendText /\ UNCHANGED <<login, ui, coroutine>>
    PROVE  OtherParts'
<1> USE ClientAssumption DEF LoginInv, TypeOK, ClientTypeOK, wsVars, clientVars, States, Reasons
<1>1. CASE RequestQrCodeLogin /\ UNCHANGED <<login, ui, coroutine>>
  <2>1. ConnectionInStep' /\ FirstAttempt' /\ CoroutineAtWork'
    BY <1>1 DEF RequestQrCodeLogin, ConnectionInStep, FirstAttempt, CoroutineAtWork
  <2>2. RepairsPaidFor' /\ LoginTracked' /\ HiddenAtWorkMeansLoggedIn'
    BY <1>1 DEF RequestQrCodeLogin, RepairsPaidFor, Resending, ResentOncePerRepair, FirstAttempt,
       ConnectionInStep, CoroutineAtWork, LoginTracked, HiddenAtWorkMeansLoggedIn
  <2> QED
    BY <2>1, <2>2 DEF OtherParts
<1>2. CASE RequestThrows /\ UNCHANGED <<login, ui, coroutine>>
  <2>1. ConnectionInStep' /\ FirstAttempt' /\ CoroutineAtWork'
    BY <1>2 DEF RequestThrows, ConnectionInStep, FirstAttempt, CoroutineAtWork
  <2>2. RepairsPaidFor' /\ LoginTracked' /\ HiddenAtWorkMeansLoggedIn'
    BY <1>2 DEF RequestThrows, RepairsPaidFor, Resending, ResentOncePerRepair, FirstAttempt,
       ConnectionInStep, CoroutineAtWork, LoginTracked, HiddenAtWorkMeansLoggedIn
  <2> QED
    BY <2>1, <2>2 DEF OtherParts
<1>3. CASE SendText /\ UNCHANGED <<login, ui, coroutine>>
  <2>1. ConnectionInStep' /\ FirstAttempt' /\ CoroutineAtWork'
    BY <1>3 DEF SendText, ConnectionInStep, FirstAttempt, CoroutineAtWork
  <2>2. HiddenAtWorkMeansLoggedIn'
    BY <1>3 DEF SendText, HiddenAtWorkMeansLoggedIn, CoroutineAtWork
  <2>3. RepairsPaidFor'
    <3> DEFINE delivered == history.delivered \/ connectionState = "Connected"
               resends == IF requester = "exec" /\ connectionState = "Connected"
                          THEN history.resends + 1 ELSE history.resends
    <3>1. delivered \in BOOLEAN /\ resends \in Nat
      OBVIOUS
    <3>2. history' = [history EXCEPT !.delivered = delivered, !.resends = resends]
      BY <1>3 DEF SendText
    <3>3. /\ requester # "exec" => resends = history.resends
          /\ resends = history.resends \/ resends = history.resends + 1
      OBVIOUS
    <3> HIDE DEF delivered, resends
    <3>4. history'.repairs = history.repairs /\ history'.resends = resends
      BY <3>1, <3>2
    <3>5. main = "send" /\ main' = "returned" /\ UNCHANGED <<client, connectionState>>
      BY <1>3 DEF SendText
    <3> QED
      BY <3>1, <3>3, <3>4, <3>5 DEF RepairsPaidFor, Resending, ResentOncePerRepair
  <2>4. LoginTracked'
    <3> DEFINE delivered == history.delivered \/ connectionState = "Connected"
               resends == IF requester = "exec" /\ connectionState = "Connected"
                          THEN history.resends + 1 ELSE history.resends
    <3>1. delivered \in BOOLEAN /\ resends \in Nat
      OBVIOUS
    <3>2. history' = [history EXCEPT !.delivered = delivered, !.resends = resends]
      BY <1>3 DEF SendText
    <3>3. delivered <=> history.delivered \/ connectionState = "Connected"
      OBVIOUS
    <3> HIDE DEF delivered, resends
    <3>4. /\ history'.delivered = delivered /\ history'.unseen = history.unseen
      BY <3>1, <3>2
    <3>5. main = "send" /\ main' = "returned" /\ UNCHANGED <<client, connectionState>>
      BY <1>3 DEF SendText
    <3> QED
      BY <3>1, <3>3, <3>4, <3>5 DEF LoginTracked
  <2> QED
    BY <2>1, <2>2, <2>3, <2>4 DEF OtherParts
<1> QED
  BY <1>1, <1>2, <1>3

\* Every step keeps the whole invariant.
LEMMA InvariantKept == LoginInv /\ [Next]_vars => LoginInv'
<1> SUFFICES ASSUME LoginInv, [Next]_vars PROVE LoginInv'
  OBVIOUS
<1>1. CASE Next
  <2>1. TypeOK'
    BY <1>1, TypesKept DEF LoginInv
  <2>2. OtherParts'
    BY <1>1, EnvironmentKeeps, ConnectThreadKeeps, MainKeeps, ExecKeeps, RequestKeeps
       DEF Next, MainContinues, ConnectThread, Exec, Request
  <2> QED
    BY <2>1, <2>2 DEF LoginInv, OtherParts
<1>2. CASE UNCHANGED vars
  <2> USE <1>2 DEF vars, clientVars, wsVars
  <2>1. TypeOK'
    <3>1. UNCHANGED wsVars /\ UNCHANGED <<messageQueue, localQueue, main, requester, lastID>>
      OBVIOUS
    <3>2. UNCHANGED <<client, history, login, ui, coroutine>>
      OBVIOUS
    <3>3. WsTyped' /\ MainTyped' /\ QueuesTyped'
      BY <3>1 DEF LoginInv, TypeOK, ClientTypeOK, WsTyped, MainTyped, QueuesTyped
    <3>4. ClientTyped' /\ HistoryTyped' /\ login' \in Windows /\ UiTyped'
      BY <3>2 DEF LoginInv, TypeOK, ClientTypeOK, ClientTyped, HistoryTyped, Windows, UiTyped
    <3>5. ClientTypeOK'
      BY <3>3, <3>4 DEF ClientTypeOK, WsTyped, MainTyped, QueuesTyped, ClientTyped, HistoryTyped
    <3> QED
      BY <3>4, <3>5 DEF TypeOK, Windows, UiTyped
  <2>2. ConnectionInStep' /\ FirstAttempt' /\ CoroutineAtWork'
    BY DEF LoginInv, ConnectionInStep, FirstAttempt, CoroutineAtWork
  <2>3. RepairsPaidFor' /\ LoginTracked' /\ HiddenAtWorkMeansLoggedIn'
    BY DEF LoginInv, RepairsPaidFor, Resending, ResentOncePerRepair, LoginTracked,
       HiddenAtWorkMeansLoggedIn
  <2> QED
    BY <2>1, <2>2, <2>3 DEF LoginInv
<1> QED
  BY <1>1, <1>2

\* The invariant holds throughout.
LEMMA LoginInvariant == Spec => []LoginInv
BY LoginInit, InvariantKept, PTL DEF Spec

-----------------------------------------------------------------------------
(* The theorems.                                                               *)

\* Every variable keeps its type, for queues, requests and losses of any number.
THEOREM LoginTypeCorrect == Spec => []TypeOK
BY LoginInvariant, PTL DEF LoginInv

\* The window goes away under its coroutine only after a login has succeeded
\* (login_win.cxx), whatever messages a frame takes out of the queue.
THEOREM HiddenOnlyAfterLogin == Spec => []HiddenAtWorkMeansLoggedIn
BY LoginInvariant, PTL DEF LoginInv

\* A recovery re-sends the pending login once, however often the connection is
\* lost and repaired between the reads of its state in exec().
THEOREM RecoveryResendsOnce == Spec => []ResentOncePerRepair
BY LoginInvariant, PTL DEF LoginInv, RepairsPaidFor

\* A login that did not reach the backend is waited for, unless a repair went by
\* unseen: the client remembers the request and knows of the loss.
THEOREM LoginRemembered == Spec => []LoginNotForgotten
<1>1. LoginInv => LoginNotForgotten
  BY DEF LoginInv, LoginTracked, LoginNotForgotten
<1> QED
  BY <1>1, LoginInvariant, PTL
=============================================================================
