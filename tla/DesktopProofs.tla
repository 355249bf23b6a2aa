---------------------------- MODULE DesktopProofs ----------------------------
(* Proofs, for every kind of client, every length of the list and every        *)
(* interleaving of the main thread with what comes from outside, that the      *)
(* windows of the program close as WindowClosing promises, and that the        *)
(* monitor's document shows its state.                                         *)
EXTENDS Desktop, DanmakuMonitorProofs

Wins == [hidden : BOOLEAN, pendingClose : BOOLEAN, runningAsyncOp : BOOLEAN,
         asyncOpCount : 0 .. 1, closing : BOOLEAN, shouldClose : BOOLEAN]

\* What an operation on a window that is neither the beginning nor the end of its
\* work does to it.
Keeps(w, v) ==
    /\ v \in Wins
    /\ v.runningAsyncOp = w.runningAsyncOp /\ v.asyncOpCount = w.asyncOpCount
    /\ v.hidden => w.hidden \/ ~w.runningAsyncOp
    /\ w.hidden => v.hidden
    /\ w.pendingClose /\ ~v.pendingClose => v.hidden
    /\ v.pendingClose => w.pendingClose \/ w.runningAsyncOp

\* The work of the windows: the coroutine's on the monitor, none on a box.
WindowsWork ==
    /\ windows \in [Names -> Wins]
    /\ registered \subseteq Names
    /\ windows["monitor"].runningAsyncOp <=> coroutine = "sleeping"
    /\ windows["monitor"].asyncOpCount = IF windows["monitor"].runningAsyncOp THEN 1 ELSE 0
    /\ ~windows["box"].runningAsyncOp /\ ~windows["box"].pendingClose
    /\ main = "startup" => windows = [n \in Names |-> NewWindow] /\ coroutine = "none"

\* What WindowClosing asks of one window in one step.
Promised(w, v) ==
    /\ ~w.runningAsyncOp /\ v.runningAsyncOp => ~v.hidden
    /\ ~w.hidden /\ v.hidden => ~w.runningAsyncOp /\ ~v.runningAsyncOp
    /\ w.pendingClose /\ ~v.pendingClose => v.hidden

-----------------------------------------------------------------------------
(* The window's operations.                                                    *)

\* Any two such operations make another.
LEMMA KeepsTwice ==
    ASSUME NEW w, NEW v, NEW u, Keeps(w, v), Keeps(v, u)
    PROVE  Keeps(w, u)
BY DEF Keeps

\* A window that is made, shown, and begins its work.
LEMMA NewWindows ==
    LET shown == Show(NewWindow)
        started == MarkOneAsyncOpBegin(shown)
    IN  /\ NewWindow \in Wins /\ NewWindow.hidden
        /\ ~NewWindow.runningAsyncOp /\ ~NewWindow.pendingClose
        /\ shown \in Wins /\ ~shown.hidden /\ shown.asyncOpCount = 0
        /\ ~shown.runningAsyncOp /\ ~shown.pendingClose
        /\ started \in Wins /\ ~started.hidden /\ started.asyncOpCount = 1
        /\ started.runningAsyncOp
<1> DEFINE shown == Show(NewWindow)
           count == shown.asyncOpCount + 1
           running == TRUE
           started == [shown EXCEPT !.asyncOpCount = count, !.runningAsyncOp = running]
<1>1. /\ NewWindow \in Wins /\ NewWindow.hidden /\ NewWindow.asyncOpCount = 0
      /\ ~NewWindow.runningAsyncOp /\ ~NewWindow.pendingClose
  BY DEF NewWindow, Wins
<1>2. /\ shown \in Wins /\ ~shown.hidden /\ shown.asyncOpCount = 0
      /\ ~shown.runningAsyncOp /\ ~shown.pendingClose
  BY <1>1 DEF Show, Wins
<1>3. MarkOneAsyncOpBegin(shown) = started
  BY DEF MarkOneAsyncOpBegin
<1>4. count = 1 /\ count \in 0 .. 1 /\ running /\ running \in BOOLEAN
  BY <1>2
<1> HIDE DEF shown, count, running
<1>5. /\ started \in Wins /\ ~started.hidden /\ started.asyncOpCount = 1
      /\ started.runningAsyncOp
  BY <1>2, <1>4 DEF Wins
<1> QED
  BY <1>1, <1>2, <1>3, <1>5 DEF shown

\* A close request is applied when the window has no work.
LEMMA ApplyKeeps ==
    ASSUME NEW w \in Wins
    PROVE  /\ Keeps(w, ApplyCloseRequestState(w))
           /\ ~w.runningAsyncOp => ~ApplyCloseRequestState(w).pendingClose
<1> DEFINE hidden == [Hide(w) EXCEPT !.pendingClose = FALSE]
           indicated == hidden.pendingClose /\ ~CanCloseNow(hidden)
           closed == [hidden EXCEPT !.closing = indicated]
<1>1. /\ hidden \in Wins /\ hidden.hidden /\ ~hidden.pendingClose
      /\ hidden.runningAsyncOp = w.runningAsyncOp /\ hidden.asyncOpCount = w.asyncOpCount
  BY DEF Wins, Hide
<1>2. indicated \in BOOLEAN
  OBVIOUS
<1>3. ApplyCloseRequestState(w) = IF w.pendingClose /\ ~w.runningAsyncOp THEN closed ELSE w
  BY DEF ApplyCloseRequestState, RefreshClosingVisualState, CanCloseNow
<1> HIDE DEF hidden, indicated
<1>4. /\ closed \in Wins /\ closed.hidden /\ ~closed.pendingClose
      /\ closed.runningAsyncOp = w.runningAsyncOp /\ closed.asyncOpCount = w.asyncOpCount
  BY <1>1, <1>2 DEF Wins
<1> HIDE DEF closed
<1>5. CASE w.pendingClose /\ ~w.runningAsyncOp
  BY <1>3, <1>4, <1>5 DEF Keeps
<1>6. CASE ~(w.pendingClose /\ ~w.runningAsyncOp)
  BY <1>3, <1>6 DEF Keeps, Wins
<1> QED
  BY <1>5, <1>6

\* A close request that is made is applied at once or stays.
LEMMA RequestKeeps == ASSUME NEW w \in Wins PROVE Keeps(w, RequestClose(w))
<1> DEFINE asked == [w EXCEPT !.pendingClose = TRUE]
           indicated == asked.pendingClose /\ ~CanCloseNow(asked)
           refreshed == [asked EXCEPT !.closing = indicated]
<1>1. /\ asked \in Wins /\ asked.hidden = w.hidden /\ asked.pendingClose
      /\ asked.runningAsyncOp = w.runningAsyncOp /\ asked.asyncOpCount = w.asyncOpCount
  BY DEF Wins
<1>2. indicated \in BOOLEAN
  OBVIOUS
<1>3. RequestClose(w) = ApplyCloseRequestState(refreshed)
  BY DEF RequestClose, RefreshClosingVisualState, CanCloseNow
<1> HIDE DEF asked, indicated
<1>4. /\ refreshed \in Wins /\ refreshed.hidden = w.hidden /\ refreshed.pendingClose
      /\ refreshed.runningAsyncOp = w.runningAsyncOp /\ refreshed.asyncOpCount = w.asyncOpCount
  BY <1>1, <1>2 DEF Wins
<1> HIDE DEF refreshed
<1>5. /\ Keeps(refreshed, ApplyCloseRequestState(refreshed))
      /\ ~refreshed.runningAsyncOp => ~ApplyCloseRequestState(refreshed).pendingClose
  BY <1>4, ApplyKeeps
<1> QED
  BY <1>3, <1>4, <1>5 DEF Keeps

\* The same for the desktop's own close.
LEMMA NativeKeeps == ASSUME NEW w \in Wins PROVE Keeps(w, RequestCloseFromNativeEvent(w))
<1> DEFINE cleared == [w EXCEPT !.shouldClose = FALSE]
<1>1. Keeps(w, cleared)
  BY DEF Keeps, Wins
<1>2. cleared \in Wins
  BY DEF Wins
<1> HIDE DEF cleared
<1>3. Keeps(cleared, RequestClose(cleared))
  BY <1>2, RequestKeeps
<1>4. RequestCloseFromNativeEvent(w) = RequestClose(cleared)
  BY DEF RequestCloseFromNativeEvent, cleared
<1> QED
  BY <1>1, <1>3, <1>4, KeepsTwice

\* Windows whose native close was asked for.
LEMMA CleanupKeeps ==
    ASSUME NEW ws \in [Names -> Wins]
    PROVE  /\ CleanupClosedWindows(ws) \in [Names -> Wins]
           /\ \A n \in Names : Keeps(ws[n], CleanupClosedWindows(ws)[n])
<1>1. \A n \in Names : Keeps(ws[n], ws[n]) /\ Keeps(ws[n], RequestCloseFromNativeEvent(ws[n]))
  <2> TAKE n \in Names
  <2>1. ws[n] \in Wins
    OBVIOUS
  <2>2. Keeps(ws[n], ws[n])
    BY <2>1 DEF Keeps
  <2> QED
    BY <2>1, <2>2, NativeKeeps
<1> QED
  BY <1>1 DEF CleanupClosedWindows, Keeps

-----------------------------------------------------------------------------
(* Every step keeps its promise.                                               *)

WorkPromised == WindowsWork' /\ \A n \in Names : Promised(windows[n], windows'[n])

\* Steps in which work neither begins nor ends.
LEMMA KeepingStep ==
    ASSUME WindowsWork, windows' \in [Names -> Wins],
           \A n \in Names : Keeps(windows[n], windows'[n]),
           coroutine' = coroutine, registered' \subseteq Names, main' # "startup"
    PROVE  WorkPromised
<1>1. Keeps(windows["monitor"], windows'["monitor"]) /\ Keeps(windows["box"], windows'["box"])
  BY DEF Names
<1>2. WindowsWork'
  BY <1>1 DEF WindowsWork, Keeps
<1>3. \A n \in Names : windows[n] \in Wins
  BY DEF WindowsWork
<1>4. \A n \in Names : Promised(windows[n], windows'[n])
  BY <1>3 DEF Keeps, Promised
<1> QED
  BY <1>2, <1>4 DEF WorkPromised

\* Steps that leave the windows alone.
LEMMA IdleStep ==
    ASSUME WindowsWork, UNCHANGED <<windows, coroutine>>,
           registered' \subseteq Names, main' # "startup" \/ main' = main
    PROVE  WorkPromised
<1>1. WindowsWork'
  BY DEF WindowsWork
<1>2. \A n \in Names : Promised(windows[n], windows'[n])
  BY DEF Promised
<1> QED
  BY <1>1, <1>2 DEF WorkPromised

\* Steps that change one window.
LEMMA OneWindowStep ==
    ASSUME WindowsWork, NEW n \in Names, NEW v, Keeps(windows[n], v),
           windows' = [windows EXCEPT ![n] = v],
           coroutine' = coroutine, registered' \subseteq Names, main' # "startup"
    PROVE  WorkPromised
<1>1. windows \in [Names -> Wins] /\ v \in Wins
  BY DEF WindowsWork, Keeps
<1>2. \A k \in Names : Keeps(windows[k], windows[k])
  BY <1>1 DEF Keeps
<1>3. windows' \in [Names -> Wins] /\ \A k \in Names : Keeps(windows[k], windows'[k])
  BY <1>1, <1>2
<1> QED
  BY <1>3, KeepingStep

\* The window is shown and its work begins, or only the former.
LEMMA ShowPromised ==
    ASSUME WindowsWork,
           ShowMonitorFails \/ \E tests \in 0 .. MaxDanmakuInGui + 1 : ShowMonitor(tests)
    PROVE  WorkPromised
<1> DEFINE shown == Show(NewWindow)
           started == MarkOneAsyncOpBegin(shown)
<1>1. windows = [n \in Names |-> NewWindow] /\ coroutine = "none" /\ main' = "check"
      /\ registered' = {"monitor"}
  BY DEF WindowsWork, ShowMonitor, ShowMonitorFails
<1>2. /\ NewWindow \in Wins /\ NewWindow.hidden
      /\ ~NewWindow.runningAsyncOp /\ ~NewWindow.pendingClose
  BY NewWindows
<1>3. /\ shown \in Wins /\ ~shown.hidden /\ shown.asyncOpCount = 0 /\ ~shown.runningAsyncOp
  BY NewWindows
<1>4. /\ started \in Wins /\ ~started.hidden /\ started.asyncOpCount = 1 /\ started.runningAsyncOp
  BY NewWindows
<1>5. windows["monitor"] = NewWindow /\ windows["box"] = NewWindow
  BY <1>1 DEF Names
<1>6. \/ windows' = [windows EXCEPT !["monitor"] = shown] /\ coroutine' = "none"
      \/ windows' = [windows EXCEPT !["monitor"] = started] /\ coroutine' = "sleeping"
  BY <1>1, <1>5 DEF ShowMonitor, ShowMonitorFails
<1> HIDE DEF shown, started
<1>7. /\ windows' \in [Names -> Wins] /\ windows'["box"] = NewWindow
      /\ \/ windows'["monitor"] = shown /\ coroutine' = "none"
         \/ windows'["monitor"] = started /\ coroutine' = "sleeping"
  BY <1>1, <1>2, <1>3, <1>4, <1>5, <1>6 DEF Names
<1>8. WindowsWork'
  BY <1>1, <1>2, <1>3, <1>4, <1>7 DEF WindowsWork, Names
<1>9. Promised(windows["monitor"], windows'["monitor"]) /\ Promised(windows["box"], windows'["box"])
  BY <1>2, <1>3, <1>4, <1>5, <1>7 DEF Promised
<1> QED
  BY <1>8, <1>9 DEF WorkPromised, Names

\* The coroutine sees the request and ends its work.
LEMMA FinishPromised == ASSUME WindowsWork, ResumeCoroutine PROVE WorkPromised
<1> DEFINE w == windows["monitor"]
           count == w.asyncOpCount - 1
           running == w.runningAsyncOp /\ w.asyncOpCount > 1
           finished == [w EXCEPT !.asyncOpCount = count, !.runningAsyncOp = running]
<1>1. w \in Wins /\ windows \in [Names -> Wins] /\ w.runningAsyncOp /\ w.asyncOpCount = 1
  BY DEF WindowsWork, ResumeCoroutine, Names
<1>2. count = 0 /\ count \in 0 .. 1 /\ ~running /\ running \in BOOLEAN
  BY <1>1
<1>3. windows' = [windows EXCEPT !["monitor"] = finished]
  BY DEF ResumeCoroutine, MarkOneAsyncOpFinish
<1> HIDE DEF count, running
<1> HIDE DEF w
<1>4. /\ finished \in Wins /\ ~finished.runningAsyncOp /\ finished.asyncOpCount = 0
      /\ finished.hidden = w.hidden /\ finished.pendingClose = w.pendingClose
  BY <1>1, <1>2 DEF Wins
<1> USE DEF w
<1> HIDE DEF finished
<1>5. /\ windows' \in [Names -> Wins]
      /\ windows'["monitor"] = finished /\ windows'["box"] = windows["box"]
  BY <1>1, <1>3, <1>4 DEF Names
<1>6. WindowsWork'
  BY <1>4, <1>5 DEF WindowsWork, ResumeCoroutine
<1>7. Promised(w, finished) /\ Promised(windows["box"], windows["box"])
  BY <1>4 DEF Promised
<1> QED
  BY <1>5, <1>6, <1>7 DEF WorkPromised, Names

\* A message box opens.
LEMMA OpenPromised ==
    ASSUME WindowsWork, OpenBox, coroutine' = coroutine, main' # "startup"
    PROVE  WorkPromised
<1> DEFINE shown == Show(NewWindow)
<1>1. /\ ~shown.hidden /\ ~shown.runningAsyncOp /\ ~shown.pendingClose
  BY NewWindows
<1>2. shown \in Wins
  BY NewWindows
<1>3. windows' = [windows EXCEPT !["box"] = shown] /\ registered' = registered \cup {"box"}
  BY DEF OpenBox
<1> HIDE DEF shown
<1>4. Promised(windows["box"], shown) /\ Promised(windows["monitor"], windows["monitor"])
  BY <1>1 DEF Promised, WindowsWork
<1>5. /\ windows' \in [Names -> Wins]
      /\ windows'["box"] = shown /\ windows'["monitor"] = windows["monitor"]
  BY <1>2, <1>3 DEF WindowsWork, Names
<1>6. WindowsWork'
  BY <1>1, <1>3, <1>5 DEF WindowsWork, Names
<1> QED
  BY <1>4, <1>5, <1>6 DEF WorkPromised, Names

\* A message box closes: every other window looks after its native close.
LEMMA ClosePromised == ASSUME WindowsWork, CloseBox PROVE WorkPromised
<1> DEFINE before == [windows EXCEPT !["box"] = RequestClose(windows["box"])]
           ws == CleanupClosedWindows(before)
<1>1. windows \in [Names -> Wins]
  BY DEF WindowsWork
<1>2. Keeps(windows["box"], RequestClose(windows["box"]))
  BY <1>1, RequestKeeps DEF Names
<1>3. before \in [Names -> Wins] /\ before["monitor"] = windows["monitor"]
  BY <1>1, <1>2 DEF Keeps, Names
<1>4. windows' = [ws EXCEPT !["box"] = NewWindow]
  BY DEF CloseBox
<1> HIDE DEF before
<1>5. ws \in [Names -> Wins] /\ Keeps(windows["monitor"], ws["monitor"])
  BY <1>3, CleanupKeeps DEF Names
<1> HIDE DEF ws
<1>6. /\ windows' \in [Names -> Wins]
      /\ windows'["box"] = NewWindow /\ windows'["monitor"] = ws["monitor"]
  BY <1>4, <1>5, NewWindows DEF Names
<1>7. WindowsWork'
  <2>1. coroutine' = coroutine /\ registered' \subseteq Names /\ main' # "startup"
    BY DEF CloseBox, WindowsWork
  <2>2. ~NewWindow.runningAsyncOp /\ ~NewWindow.pendingClose
    BY NewWindows
  <2> QED
    BY <1>5, <1>6, <2>1, <2>2 DEF WindowsWork, Keeps
<1>8. Promised(windows["monitor"], ws["monitor"]) /\ Promised(windows["box"], NewWindow)
  BY <1>5, NewWindows DEF Promised, Keeps, WindowsWork
<1> QED
  BY <1>6, <1>7, <1>8 DEF WorkPromised, Names

\* A shutdown asks every window to close.
LEMMA DrainPromised == ASSUME WindowsWork, DrainUiShutdown PROVE WorkPromised
<1>1. \A n \in Names : /\ windows[n] \in Wins
                       /\ Keeps(windows[n], windows[n])
                       /\ Keeps(windows[n], RequestClose(windows[n]))
  BY RequestKeeps DEF WindowsWork, Keeps
<1>2. windows' \in [Names -> Wins] /\ \A n \in Names : Keeps(windows[n], windows'[n])
  BY <1>1 DEF DrainUiShutdown, RequestCloseAllWindows, Keeps
<1> QED
  BY <1>2, KeepingStep DEF DrainUiShutdown, WindowsWork

\* A frame applies the close request of the monitor and looks after closed windows.
LEMMA UpdatePromised == ASSUME WindowsWork, UpdateAll PROVE WorkPromised
<1> DEFINE applied == [windows EXCEPT !["monitor"] = ApplyCloseRequestState(windows["monitor"])]
<1>1. windows \in [Names -> Wins] /\ \A n \in Names : Keeps(windows[n], windows[n])
  BY DEF WindowsWork, Keeps
<1>2. Keeps(windows["monitor"], ApplyCloseRequestState(windows["monitor"]))
  BY <1>1, ApplyKeeps DEF Names
<1>3. applied \in [Names -> Wins] /\ \A n \in Names : Keeps(windows[n], applied[n])
  BY <1>1, <1>2 DEF Keeps, Names
<1>4. windows' = CleanupClosedWindows(windows) \/ windows' = CleanupClosedWindows(applied)
  BY DEF UpdateAll
<1> HIDE DEF applied
<1>5. windows' \in [Names -> Wins] /\ \A n \in Names : Keeps(windows[n], windows'[n])
  BY <1>1, <1>3, <1>4, CleanupKeeps, KeepsTwice
<1>6. UNCHANGED <<registered, coroutine>> /\ main' # "startup"
  BY DEF UpdateAll, Outcomes
<1> QED
  BY <1>5, <1>6, KeepingStep DEF WindowsWork

\* Every step.
LEMMA StepPromised == ASSUME WindowsWork, Next PROVE WorkPromised
<1>1. CASE Startup
  BY <1>1, ShowPromised, OpenPromised DEF Startup, StartupFails
<1>2. CASE \/ Leave \/ ProcessEvents \/ EventsProcessed \/ Idle \/ ClientCalls \/ UseList
           \/ ReloadMissingDocument \/ PressCtrlC \/ ConnectionLost
  <2>1. UNCHANGED <<windows, registered, coroutine>>
    BY <1>2 DEF Leave, ProcessEvents, EventsProcessed, Idle, ClientCalls, UseList,
       ReloadMissingDocument, PressCtrlC, ConnectionLost
  <2>2. main' # "startup" \/ main' = main
    BY <1>2 DEF Leave, ProcessEvents, EventsProcessed, Idle, ClientCalls, UseList, Outcomes,
       ReloadMissingDocument, PressCtrlC, ConnectionLost
  <2> QED
    BY <2>1, <2>2, IdleStep DEF WindowsWork
<1>3. CASE CtrlCSeen \/ CloseSeen
  BY <1>3, DrainPromised DEF CtrlCSeen, CloseSeen
<1>4. CASE ResumeCoroutine
  BY <1>4, FinishPromised
<1>5. CASE UpdateAll
  BY <1>5, UpdatePromised
<1>6. CASE BoxObeysMainWin \/ ClickOK
  BY <1>6, ClosePromised DEF BoxObeysMainWin, ClickOK
<1>7. CASE CrashLimitExceeded
  BY <1>7, OpenPromised DEF CrashLimitExceeded
<1>8. CASE ClickClose
  BY <1>8, RequestKeeps, OneWindowStep DEF ClickClose, AcceptsInput, WindowsWork, Names
<1>9. CASE ReloadWindowDocument
  <2>1. Keeps(windows["monitor"], ReloadDocument(windows["monitor"]))
    BY DEF Keeps, ReloadDocument, WindowsWork, Names, Wins
  <2> QED
    BY <1>9, <2>1, OneWindowStep DEF ReloadWindowDocument, AcceptsInput, WindowsWork, Names
<1>10. ASSUME NEW n \in Names, NativeClose(n) PROVE WorkPromised
  <2> DEFINE v == [windows[n] EXCEPT !.shouldClose = TRUE]
  <2>1. Keeps(windows[n], v) /\ windows' = [windows EXCEPT ![n] = v]
    BY <1>10 DEF Keeps, NativeClose, WindowsWork, Wins
  <2> HIDE DEF v
  <2> QED
    BY <1>10, <2>1, OneWindowStep DEF NativeClose, WindowsWork
<1> QED
  BY <1>1, <1>2, <1>3, <1>4, <1>5, <1>6, <1>7, <1>8, <1>9, <1>10 DEF Next, MainContinues, User

\* The work of the windows is as WindowsWork says, throughout.
LEMMA WorkInvariant == Spec => []WindowsWork
<1>1. Init => WindowsWork
  BY DEF Init, WindowsWork, NewWindow, Names, Wins
<1>2. WindowsWork /\ [Next]_vars => WindowsWork'
  <2>1. WindowsWork /\ UNCHANGED vars => WindowsWork'
    BY DEF WindowsWork, vars
  <2> QED
    BY <2>1, StepPromised DEF WorkPromised
<1> QED
  BY <1>1, <1>2, PTL DEF Spec

-----------------------------------------------------------------------------

\* No window of the program disappears under unfinished work, and none forgets that
\* it was asked to close, whoever asks: UiWin and the loops of main.cpp and
\* msg_box.cxx implement WindowClosing.
THEOREM DesktopClosesWhenIdle == Spec => WindowsCloseWhenIdle
<1>1. Init => Closing!Init
  BY DEF Init, Closing!Init, NewWindow
<1>2. WindowsWork /\ [Next]_vars => [Closing!Next]_(Closing!vars)
  <2> SUFFICES ASSUME WindowsWork, [Next]_vars PROVE [Closing!Next]_(Closing!vars)
    OBVIOUS
  <2>1. CASE Next
    <3>1. \A n \in Names : Promised(windows[n], windows'[n])
      BY <2>1, StepPromised DEF WorkPromised
    <3>2. \A n \in Names : Closing!Begin(n) /\ Closing!Disappear(n) /\ Closing!Remember(n)
      BY <3>1 DEF Promised, Closing!Begin, Closing!Disappear, Closing!Remember
    <3> QED
      BY <3>2 DEF Closing!Next
  <2>2. CASE UNCHANGED vars
    BY <2>2 DEF vars, Closing!vars
  <2> QED
    BY <2>1, <2>2
<1> QED
  BY <1>1, <1>2, WorkInvariant, PTL DEF Spec, WindowsCloseWhenIdle, Closing!Spec

-----------------------------------------------------------------------------
(* The monitor.                                                                *)

\* Before it is shown the monitor is as it was made; afterwards its list is in order.
MonitorSafe ==
    /\ MonitorInv(monitor)
    /\ main = "startup" => monitor = NewMonitor

\* A window that stops being live leaves no activity at the backend.
LeavesNoActivity ==
    monitor.isLive /\ ~monitor'.isLive /\ monitor.document = "whole" => ~monitor'.subscribed

MonitorKept == MonitorSafe' /\ LeavesNoActivity

\* The program ends with its document, and no destroyed element is used in a whole one.
DocumentOK ==
    /\ monitor.document = "missing" => main = "died"
    /\ main = "crashed" => ~Whole(monitor)

\* What a step that goes on leaves of it.
DocumentKept ==
    /\ monitor'.document = "missing" => monitor.document = "missing" \/ main' = "died"
    /\ main' = "crashed" => ~Whole(monitor')

\* The activity goes with a lost connection.
LEMMA OverKeeps ==
    ASSUME NEW m, MonitorInv(m), NEW connected \in BOOLEAN
    PROVE  LET k == Over(m, connected) IN
           /\ MonitorInv(k) /\ SameView(m, k)
           /\ k.subscribed = (m.subscribed /\ connected)
<1> DEFINE left == m.subscribed /\ connected
           k == [m EXCEPT !.subscribed = left]
<1>1. m \in Monitors /\ MonitorActivity(m) /\ left \in BOOLEAN /\ (left => m.subscribed)
  BY DEF MonitorInv
<1>2. Over(m, connected) = k
  BY <1>1 DEF Over, Monitors
<1> HIDE DEF left
<1>3. /\ k \in Monitors /\ SameView(m, k) /\ k.subscribed = left
      /\ k.activeLiverUID = m.activeLiverUID
  BY <1>1 DEF Monitors, SameView, SameList
<1> HIDE DEF k
<1>4. MonitorActivity(k)
  BY <1>1, <1>3 DEF MonitorActivity
<1> QED
  BY <1>2, <1>3, <1>4, ViewKept DEF left

\* Steps that leave the monitor alone.
LEMMA MonitorIdle ==
    ASSUME MonitorSafe, monitor' = monitor, main' = main \/ main' # "startup"
    PROVE  MonitorKept
BY DEF MonitorKept, MonitorSafe, LeavesNoActivity

\* Steps that change it once it is shown.
LEMMA MonitorChanged ==
    ASSUME MonitorInv(monitor'), main' # "startup", LeavesNoActivity
    PROVE  MonitorKept
BY DEF MonitorKept, MonitorSafe

\* The client passes on what the backend told it.
LEMMA ClientKept == ASSUME MonitorSafe, ClientCalls PROVE MonitorKept /\ DocumentKept
<1>1. PICK connected \in BOOLEAN :
          LET m == Over(monitor, connected) IN
          \/ /\ monitor' \in {OnLiveStatus(m, live, client, connected) : live \in BOOLEAN}
                              \cup {SetLiveState(m, live, client, connected) : live \in BOOLEAN}
             /\ UNCHANGED main
          \/ /\ RoomToAdd(m)
             /\ monitor' = OnDanmakuActivity(m, client, connected)
             /\ main' \in Outcomes(main, /\ EvictsDestroyed(m)
                                        /\ ~SetLiveStateThrows(m, TRUE, client, connected))
  BY DEF ClientCalls
<1>2. main = "update"
  BY DEF ClientCalls
<1> DEFINE m == Over(monitor, connected)
<1>3. /\ MonitorInv(m) /\ SameView(monitor, m)
      /\ m.subscribed = (monitor.subscribed /\ connected)
  BY OverKeeps DEF MonitorSafe
<1>4. \/ /\ main' = main
         /\ \/ \E live \in BOOLEAN : monitor' = OnLiveStatus(m, live, client, connected)
            \/ \E live \in BOOLEAN : monitor' = SetLiveState(m, live, client, connected)
      \/ /\ RoomToAdd(m) /\ monitor' = OnDanmakuActivity(m, client, connected)
         /\ main' = main \/ (main' = "crashed" /\ EvictsDestroyed(m))
  BY <1>1 DEF Outcomes
<1> HIDE DEF m
<1>5. \/ Settled(m, monitor', connected)
      \/ MonitorInv(monitor') /\ monitor'.isLive /\ monitor'.document = m.document
  BY <1>3, <1>4, Answered, LiveSet, ActivityDanmaku
<1>6. MonitorInv(monitor') /\ monitor'.document = m.document
  BY <1>5 DEF Settled
<1>7. LeavesNoActivity
  BY <1>3, <1>5 DEF Settled, LeavesNoActivity, SameView, SameList, Whole
<1>8. DocumentKept
  BY <1>2, <1>3, <1>4, <1>6, PointersLive DEF DocumentKept, SameView, SameList, Whole
<1> QED
  BY <1>2, <1>4, <1>6, <1>7, <1>8, MonitorChanged

\* A frame.
LEMMA FrameKept == ASSUME MonitorSafe, UpdateAll PROVE MonitorKept /\ DocumentKept
<1>1. main = "update" /\ main' \in {"check", "crashed"}
  BY DEF UpdateAll, Outcomes
<1>2. CASE monitor' = monitor /\ main' = "check"
  BY <1>1, <1>2, MonitorIdle DEF DocumentKept
<1>3. CASE \E connected, still, timedOut, due \in BOOLEAN :
             LET m == Over(monitor, connected) IN
             /\ monitor' = Over(Update(m, connected, still, timedOut, due), still)
             /\ main' \in Outcomes("check", UpdateCbUsesDestroyed(
                              ContextUpdate(m), client, connected, still, timedOut, due))
  <2>1. PICK connected \in BOOLEAN, still \in BOOLEAN, timedOut \in BOOLEAN, due \in BOOLEAN :
             LET m == Over(monitor, connected) IN
             /\ monitor' = Over(Update(m, connected, still, timedOut, due), still)
             /\ main' \in Outcomes("check", UpdateCbUsesDestroyed(
                              ContextUpdate(m), client, connected, still, timedOut, due))
    BY <1>3
  <2> DEFINE m == Over(monitor, connected)
             s == ContextUpdate(m)
             u == UpdateCb(s, client, connected, still, timedOut, due)
             k == Over(u, still)
             uses == UpdateCbUsesDestroyed(s, client, connected, still, timedOut, due)
  <2>2. monitor' = k /\ (main' = "check" \/ uses)
    BY <2>1 DEF Update, Outcomes
  <2>3. MonitorInv(m) /\ SameView(monitor, m)
    BY OverKeeps DEF MonitorSafe
  <2> HIDE DEF m
  <2>4. MonitorInv(s) /\ SameState(m, s) /\ \A e \in Elements : s.elements[e] # "created"
    BY <2>3, Styled
  <2> HIDE DEF s
  <2>5. /\ MonitorInv(u) /\ u.document = s.document /\ (uses => ~Whole(s))
        /\ Whole(s) /\ s.isLive /\ ~u.isLive /\ (still \/ ~s.subscribed) => ~u.subscribed
    BY <2>4, UpdateCalled
  <2> HIDE DEF u, uses
  <2>6. MonitorInv(k) /\ SameView(u, k) /\ k.subscribed = (u.subscribed /\ still)
    BY <2>5, OverKeeps
  <2> HIDE DEF k
  <2>7. LeavesNoActivity
    BY <2>2, <2>3, <2>4, <2>5, <2>6
       DEF LeavesNoActivity, SameView, SameList, SameState, Whole
  <2>8. DocumentKept
    BY <1>1, <2>2, <2>3, <2>4, <2>5, <2>6 DEF DocumentKept, SameView, SameList, SameState, Whole
  <2> QED
    BY <1>1, <2>2, <2>6, <2>7, <2>8, MonitorChanged
<1> QED
  BY <1>2, <1>3 DEF UpdateAll

\* The window is shown.
LEMMA ShownKept == ASSUME MonitorSafe, Startup PROVE MonitorKept
<1>1. main' # "startup" /\ monitor = NewMonitor
  BY DEF Startup, ShowMonitor, ShowMonitorFails, StartupFails, MonitorSafe
<1>2. MaxDanmakuInGui \in Nat
  BY MonitorAssumption
<1>3. MonitorInv(monitor')
  <2>1. ASSUME NEW tests \in 0 .. MaxDanmakuInGui + 1, ShowMonitor(tests)
        PROVE  MonitorInv(monitor')
    <3>1. tests \in Nat /\ 0 \in Nat
      BY <1>2
    <3>2. \/ monitor' = AddDanmakus(SyncToUI(NewMonitor), tests)
          \/ monitor' = AddDanmakus(SyncToUI(NewMonitor), 0)
      BY <1>1, <2>1 DEF ShowMonitor
    <3> QED
      BY <3>1, <3>2, Shown
  <2>2. CASE ShowMonitorFails
    BY <1>1, <2>2, Shown DEF ShowMonitorFails
  <2>3. CASE StartupFails
    BY <2>3 DEF StartupFails, MonitorSafe
  <2> QED
    BY <2>1, <2>2, <2>3 DEF Startup
<1>4. ~monitor.isLive
  BY <1>1 DEF NewMonitor
<1> QED
  BY <1>1, <1>3, <1>4, MonitorChanged DEF LeavesNoActivity

\* What the user does with the list and its document.
LEMMA ListUsed ==
    ASSUME MonitorSafe, UseList \/ ReloadWindowDocument \/ ReloadMissingDocument
    PROVE  MonitorKept /\ (main \notin {"died", "crashed"} => DocumentKept)
<1>1. main \in {"events", "box", "fatalBox"} /\ MonitorInv(monitor)
  BY DEF UseList, ReloadWindowDocument, ReloadMissingDocument, AcceptsInput, MonitorSafe
<1>2. CASE UseList
  <2>1. \/ monitor' = SetScrollLocked(monitor, FALSE) /\ main' = main
        \/ monitor' = ToggleClicked(monitor) /\ main' = main
        \/ /\ RoomToAdd(monitor) /\ monitor' = AddDanmaku(monitor)
           /\ main' = main \/ (main' = "crashed" /\ EvictsDestroyed(monitor))
    BY <1>2 DEF UseList, Outcomes
  <2> DEFINE Same == /\ MonitorInv(monitor') /\ monitor'.isLive = monitor.isLive
                     /\ monitor'.document = monitor.document
  <2>2. ASSUME monitor' = SetScrollLocked(monitor, FALSE) PROVE Same
    BY <1>1, <2>2, LockSet DEF MonitorInv, SameList
  <2>3. ASSUME monitor' = ToggleClicked(monitor) PROVE Same
    BY <1>1, <2>3, Clicked DEF SameList
  <2>4. ASSUME RoomToAdd(monitor), monitor' = AddDanmaku(monitor) PROVE Same
    BY <1>1, <2>4, DanmakuAdded DEF SameState
  <2>5. Same
    BY <2>1, <2>2, <2>3, <2>4
  <2>6. DocumentKept
    BY <1>1, <2>1, <2>5, PointersLive DEF DocumentKept, Whole
  <2>7. main' # "startup"
    BY <1>1, <2>1
  <2> QED
    BY <2>5, <2>6, <2>7, MonitorChanged DEF LeavesNoActivity
<1>3. CASE ReloadWindowDocument
  <2>1. /\ MonitorInv(monitor') /\ monitor'.isLive = monitor.isLive
        /\ monitor'.document # "missing" /\ main' = main
    BY <1>1, <1>3, Reloaded DEF ReloadWindowDocument
  <2> QED
    BY <1>1, <2>1, MonitorChanged DEF LeavesNoActivity, DocumentKept
<1>4. CASE ReloadMissingDocument
  <2>1. /\ MonitorInv(monitor') /\ monitor'.isLive = monitor.isLive /\ main' = "died"
    BY <1>1, <1>4, DocumentMissing DEF ReloadMissingDocument
  <2> QED
    BY <1>1, <2>1, MonitorChanged DEF LeavesNoActivity, DocumentKept
<1> QED
  BY <1>2, <1>3, <1>4

\* A connection is lost between two looks at it.
LEMMA LossKept == ASSUME MonitorSafe, ConnectionLost PROVE MonitorKept
<1>1. main' # "startup"
  BY DEF ConnectionLost, MonitorSafe, NewMonitor
<1>2. MonitorInv(monitor') /\ SameView(monitor, monitor')
  BY OverKeeps DEF MonitorSafe, ConnectionLost
<1> QED
  BY <1>1, <1>2, MonitorChanged DEF LeavesNoActivity, SameView

\* Every step.
LEMMA StepKept == ASSUME MonitorSafe, Next PROVE MonitorKept
<1>1. CASE Startup
  BY <1>1, ShownKept
<1>2. CASE ClientCalls
  BY <1>2, ClientKept
<1>3. CASE UpdateAll
  BY <1>3, FrameKept
<1>4. CASE UseList \/ ReloadWindowDocument \/ ReloadMissingDocument
  BY <1>4, ListUsed
<1>5. CASE ConnectionLost
  BY <1>5, LossKept
<1>6. CASE Leave \/ ProcessEvents \/ EventsProcessed \/ Idle \/ PressCtrlC
  BY <1>6, MonitorIdle DEF Leave, ProcessEvents, EventsProcessed, Idle, PressCtrlC
<1>7. CASE CtrlCSeen \/ CloseSeen
  BY <1>7, MonitorIdle DEF CtrlCSeen, CloseSeen, DrainUiShutdown
<1>8. CASE ResumeCoroutine \/ CrashLimitExceeded
  BY <1>8, MonitorIdle DEF ResumeCoroutine, CrashLimitExceeded
<1>9. CASE ClickClose \/ \E n \in Names : NativeClose(n)
  BY <1>9, MonitorIdle DEF ClickClose, NativeClose
<1>10. CASE BoxObeysMainWin \/ ClickOK
  BY <1>10, MonitorIdle DEF BoxObeysMainWin, ClickOK, CloseBox
<1> QED
  BY <1>1, <1>2, <1>3, <1>4, <1>5, <1>6, <1>7, <1>8, <1>9, <1>10 DEF Next, MainContinues, User

\* The monitor is in order throughout.
LEMMA MonitorInvariant == Spec => []MonitorSafe
<1>1. Init => MonitorSafe
  <2>1. 0 \in Nat
    OBVIOUS
  <2> QED
    BY <2>1, Shown DEF Init, MonitorSafe
<1>2. MonitorSafe /\ [Next]_vars => MonitorSafe'
  <2>1. MonitorSafe /\ UNCHANGED vars => MonitorSafe'
    BY DEF MonitorSafe, vars
  <2> QED
    BY <2>1, StepKept DEF MonitorKept
<1> QED
  BY <1>1, <1>2, PTL DEF Spec

\* The document and the program end together.
LEMMA DocumentStep == ASSUME MonitorSafe, DocumentOK, Next PROVE DocumentOK'
<1>1. CASE ClientCalls
  <2>1. DocumentKept /\ main = "update"
    BY <1>1, ClientKept DEF ClientCalls
  <2> QED
    BY <2>1 DEF DocumentKept, DocumentOK
<1>2. CASE UpdateAll
  <2>1. DocumentKept /\ main = "update"
    BY <1>2, FrameKept DEF UpdateAll
  <2> QED
    BY <2>1 DEF DocumentKept, DocumentOK
<1>3. CASE UseList \/ ReloadWindowDocument \/ ReloadMissingDocument
  <2>1. main \in {"events", "box", "fatalBox"}
    BY <1>3 DEF UseList, ReloadWindowDocument, ReloadMissingDocument, AcceptsInput
  <2> QED
    BY <1>3, <2>1, ListUsed DEF DocumentKept, DocumentOK
<1>4. CASE Startup
  <2>1. monitor = NewMonitor /\ main = "startup"
    BY <1>4 DEF Startup, ShowMonitor, ShowMonitorFails, StartupFails, MonitorSafe
  <2>2. main' # "crashed"
    BY <1>4 DEF Startup, ShowMonitor, ShowMonitorFails, StartupFails
  <2>3. Whole(monitor')
    <3>1. ASSUME NEW tests \in 0 .. MaxDanmakuInGui + 1, ShowMonitor(tests) PROVE Whole(monitor')
      <4>1. tests \in Nat /\ 0 \in Nat
        BY MonitorAssumption
      <4>2. \/ monitor' = AddDanmakus(SyncToUI(NewMonitor), tests)
            \/ monitor' = AddDanmakus(SyncToUI(NewMonitor), 0)
        BY <2>1, <3>1 DEF ShowMonitor
      <4> QED
        BY <4>1, <4>2, Shown
    <3>2. 0 \in Nat
      OBVIOUS
    <3>3. CASE ShowMonitorFails \/ StartupFails
      BY <2>1, <3>2, <3>3, Shown DEF ShowMonitorFails, StartupFails
    <3> QED
      BY <1>4, <3>1, <3>3 DEF Startup
  <2> QED
    BY <2>2, <2>3 DEF DocumentOK, Whole
<1>5. CASE ConnectionLost
  <2>1. SameView(monitor, monitor')
    BY <1>5, OverKeeps DEF MonitorSafe, ConnectionLost
  <2>2. main' = main
    BY <1>5 DEF ConnectionLost
  <2> QED
    BY <2>1, <2>2 DEF DocumentOK, SameView, SameList, Whole
<1>6. CASE Leave \/ ProcessEvents \/ EventsProcessed \/ Idle \/ PressCtrlC
  BY <1>6 DEF Leave, ProcessEvents, EventsProcessed, Idle, PressCtrlC, DocumentOK
<1>7. CASE CtrlCSeen \/ CloseSeen
  BY <1>7 DEF CtrlCSeen, CloseSeen, DrainUiShutdown, DocumentOK
<1>8. CASE ResumeCoroutine \/ CrashLimitExceeded
  BY <1>8 DEF ResumeCoroutine, CrashLimitExceeded, DocumentOK
<1>9. CASE ClickClose \/ \E n \in Names : NativeClose(n)
  BY <1>9 DEF ClickClose, NativeClose, DocumentOK
<1>10. CASE BoxObeysMainWin \/ ClickOK
  BY <1>10 DEF BoxObeysMainWin, ClickOK, CloseBox, InBox, DocumentOK
<1> QED
  BY <1>1, <1>2, <1>3, <1>4, <1>5, <1>6, <1>7, <1>8, <1>9, <1>10 DEF Next, MainContinues, User

\* They do throughout.
LEMMA DocumentInvariant == Spec => []DocumentOK
<1>1. Init => DocumentOK
  BY DEF Init, NewMonitor, DocumentOK
<1>2. DocumentOK /\ MonitorSafe /\ [Next]_vars => DocumentOK'
  <2>1. DocumentOK /\ UNCHANGED vars => DocumentOK'
    BY DEF DocumentOK, Whole, vars
  <2> QED
    BY <2>1, DocumentStep
<1> QED
  BY <1>1, <1>2, MonitorInvariant, PTL DEF Spec

-----------------------------------------------------------------------------
(* The types of the rest.                                                      *)

\* Where the main thread is, and what it has been given.
PlaceOK ==
    /\ modalWin \in Names \cup {"none"}
    /\ main \in {"startup", "check", "events", "executor", "update", "box",
                 "fatalBox", "ended", "died", "crashed"}
    /\ draining \in BOOLEAN /\ ctrlC \in BOOLEAN
    /\ coroutine \in {"none", "sleeping", "done"} /\ client \in Client

\* Every step keeps to them.
LEMMA PlaceKept == ASSUME PlaceOK, Next PROVE PlaceOK'
<1>1. CASE Startup
  BY <1>1 DEF PlaceOK, Startup, ShowMonitor, ShowMonitorFails, StartupFails, OpenBox, Names,
              environment
<1>2. CASE Leave \/ ProcessEvents \/ EventsProcessed \/ Idle \/ ResumeCoroutine
  BY <1>2 DEF PlaceOK, Leave, ProcessEvents, EventsProcessed, Idle, ResumeCoroutine, environment
<1>3. CASE CtrlCSeen \/ CloseSeen
  BY <1>3 DEF PlaceOK, CtrlCSeen, CloseSeen, DrainUiShutdown, environment
<1>4. CASE UpdateAll
  <2>1. main' \in {"check", "crashed"}
    BY <1>4 DEF UpdateAll, Outcomes
  <2> QED
    BY <1>4, <2>1 DEF PlaceOK, UpdateAll, environment
<1>5. CASE BoxObeysMainWin \/ ClickOK
  BY <1>5 DEF PlaceOK, BoxObeysMainWin, ClickOK, CloseBox, environment
<1>6. CASE ClientCalls \/ ConnectionLost
  BY <1>6 DEF PlaceOK, ClientCalls, Outcomes, ConnectionLost, environment
<1>7. CASE \/ ClickClose \/ UseList \/ ReloadWindowDocument \/ ReloadMissingDocument
           \/ \E n \in Names : NativeClose(n)
  BY <1>7 DEF PlaceOK, ClickClose, UseList, Outcomes, ReloadWindowDocument, ReloadMissingDocument,
     NativeClose, environment
<1>8. CASE PressCtrlC
  BY <1>8 DEF PlaceOK, PressCtrlC
<1>9. CASE CrashLimitExceeded
  BY <1>9 DEF PlaceOK, CrashLimitExceeded, OpenBox, Names, environment
<1> QED
  BY <1>1, <1>2, <1>3, <1>4, <1>5, <1>6, <1>7, <1>8, <1>9 DEF Next, MainContinues, User

\* Where the threads are, and the client, keep to their kinds in every state.
LEMMA PlaceInvariant == Spec => []PlaceOK
<1>1. Init => PlaceOK
  BY DEF Init, PlaceOK
<1>2. PlaceOK /\ [Next]_vars => PlaceOK'
  <2>1. PlaceOK /\ UNCHANGED vars => PlaceOK'
    BY DEF PlaceOK, vars
  <2> QED
    BY <2>1, PlaceKept
<1> QED
  BY <1>1, <1>2, PTL DEF Spec

-----------------------------------------------------------------------------

\* Every variable keeps its type, the list of any length included.
THEOREM DesktopTypeCorrect == Spec => []TypeOK
<1>1. WindowsWork /\ MonitorSafe /\ PlaceOK => TypeOK
  <2> SUFFICES ASSUME WindowsWork, MonitorSafe, PlaceOK PROVE TypeOK
    OBVIOUS
  <2>1. monitor \in Monitors
    BY DEF MonitorSafe, MonitorInv
  <2>2. windows \in [Names -> Wins] /\ registered \subseteq Names
    BY DEF WindowsWork
  <2> QED
    BY <2>1, <2>2 DEF PlaceOK, TypeOK, Monitors, Wins
<1> QED
  BY <1>1, WorkInvariant, MonitorInvariant, PlaceInvariant, PTL

\* Every danmaku of the list has its living element, those that wait to appear are
\* the newest ones and in order, and the toggle and the list show the state: through
\* eviction, clearing, any number of reloads and every order of the events, tasks and
\* frames that change DanmakuMonitorWin's list.  No pointer to a destroyed element is
\* used in a whole document, and no frame runs after the reload of a missing one.
THEOREM DocumentAlwaysShowsState == Spec => []DocumentShowsState
<1>1. MonitorSafe /\ DocumentOK => DocumentShowsState
  <2> SUFFICES ASSUME MonitorInv(monitor), DocumentOK, Whole(monitor) PROVE DocumentShowsState
    BY DEF MonitorSafe, DocumentShowsState, DocumentOK, Whole
  <2> DEFINE list == monitor.danmakuInGui
             queue == monitor.pendingAnimDanmaku
  <2>1. /\ list \in Seq(Elements) /\ queue \in Seq(Elements)
        /\ \E n \in 0 .. Len(list) : Wait(list, queue, n) /\ Appeared(list, monitor.elements, n)
    BY DEF MonitorInv, MonitorList, ListOK
  <2>2. PICK n \in 0 .. Len(list) : Wait(list, queue, n) /\ Appeared(list, monitor.elements, n)
    BY <2>1
  <2>3. Len(list) \in Nat /\ n \in Nat /\ DOMAIN list = 1 .. Len(list)
    BY <2>1
  <2>4. queue = Suffix(list, n)
    <3> DEFINE rest == SubSeq(list, n + 1, Len(list))
    <3>1. \A i \in n + 1 .. Len(list) : list[i] \in Elements
      BY <2>1, <2>3, ElementOfSeq
    <3>2. /\ rest \in Seq(Elements)
          /\ Len(rest) = IF n + 1 <= Len(list) THEN Len(list) - (n + 1) + 1 ELSE 0
          /\ \A i \in 1 .. Len(list) - (n + 1) + 1 : rest[i] = list[(n + 1) + i - 1]
      BY <2>3, <3>1, SubSeqProperties
    <3> HIDE DEF rest
    <3>3. Len(rest) = Len(list) - n /\ Len(queue) = Len(list) - n
      BY <2>2, <2>3, <3>2 DEF Wait
    <3>4. \A i \in 1 .. Len(queue) : queue[i] = rest[i]
      <4> TAKE i \in 1 .. Len(queue)
      <4>1. i \in 1 .. Len(list) - n /\ i \in 1 .. Len(list) - (n + 1) + 1
        BY <2>3, <3>3
      <4>2. (n + 1) + i - 1 = n + i
        BY <2>3, <4>1
      <4> QED
        BY <2>2, <3>2, <4>1, <4>2 DEF Wait
    <3> QED
      BY <2>1, <3>2, <3>3, <3>4, SeqEqual DEF Suffix, rest
  <2>5. \A i \in DOMAIN list : monitor.elements[list[i]] \in
            IF i <= n THEN {"animated"} ELSE {"created", "styled"}
    <3> TAKE i \in DOMAIN list
    <3>1. i \in 1 .. Len(list)
      BY <2>3
    <3>2. CASE i <= n
      BY <2>2, <2>3, <3>1, <3>2 DEF Appeared
    <3>3. CASE ~(i <= n)
      <4>1. i \in n + 1 .. Len(list)
        BY <2>3, <3>1, <3>3
      <4> QED
        BY <2>2, <3>3, <4>1 DEF Appeared
    <3> QED
      BY <3>2, <3>3
  <2>6. monitor.toggleOn = monitor.scrollLocked /\ monitor.listShown = monitor.isLive
    BY DEF MonitorInv, MonitorShown
  <2> QED
    BY <2>2, <2>4, <2>5, <2>6 DEF DocumentShowsState, DocumentOK
<1> QED
  BY <1>1, MonitorInvariant, DocumentInvariant, PTL

\* A danmaku is told to appear only when its element has a style, for the window's
\* update lets the document style new elements before its callback takes the queue.
THEOREM TransitionsPlay == Spec => []PlaysTransition
<1>1. MonitorSafe => PlaysTransition
  BY DEF MonitorSafe, MonitorInv, MonitorList, ListOK, PlaysTransition
<1> QED
  BY <1>1, MonitorInvariant, PTL

\* When the window stops being live it leaves no activity running at the backend:
\* setLiveState stops what it started unless the connection that carried it is gone.
THEOREM ActivityAlwaysEnds == Spec => ActivityEndsWithLive
<1>1. MonitorSafe /\ [Next]_vars => [LeavesNoActivity]_vars
  BY StepKept DEF MonitorKept
<1>2. [LeavesNoActivity]_vars =>
      [monitor.isLive /\ ~monitor'.isLive /\ monitor.document = "whole"
           => ~monitor'.subscribed]_vars
  BY DEF LeavesNoActivity
<1> QED
  BY <1>1, <1>2, MonitorInvariant, PTL DEF Spec, ActivityEndsWithLive
=============================================================================
