------------------------------- MODULE Desktop -------------------------------
(* The main thread of the program: the windows in their manager, the frame, the *)
(* nested loop of a message box, and the shutdown that drains unfinished work.  *)
(* The monitor window and its list are DanmakuMonitor's; its coroutine runs on  *)
(* the window until a close is asked for.  The daemon's report of too many      *)
(* crashes, the client's connection, Ctrl+C and the user come from outside.     *)
EXTENDS UiWin, DanmakuMonitor

CONSTANT Client     \* the clients the window may be given: none, anonymous, user

VARIABLES
    windows,    \* the UiWin records
    registered, \* WinManager::wins_
    modalWin,   \* WinManager::modalWin_, or "none"
    main,       \* where the main thread is
    draining,   \* is it in drainUiShutdown?
    coroutine,  \* the window's coroutine: "none", "sleeping", "done"
    ctrlC,      \* ctrlCPressed
    client,     \* the kind of client
    monitor     \* the record of DanmakuMonitor

vars == <<windows, registered, modalWin, main, draining, coroutine, ctrlC, client, monitor>>

Names == {"monitor", "box"}

TypeOK ==
    /\ windows \in [Names -> [hidden : BOOLEAN, pendingClose : BOOLEAN, runningAsyncOp : BOOLEAN,
                              asyncOpCount : 0 .. 1, closing : BOOLEAN, shouldClose : BOOLEAN]]
    /\ registered \subseteq Names /\ modalWin \in Names \cup {"none"}
    /\ main \in {"startup", "check", "events", "executor", "update", "box",
                 "fatalBox", "ended", "died", "crashed"}
    /\ draining \in BOOLEAN /\ ctrlC \in BOOLEAN
    /\ coroutine \in {"none", "sleeping", "done"} /\ client \in Client
    /\ monitor \in [danmakuInGui : Seq(Elements), pendingAnimDanmaku : Seq(Elements),
           elements : [Elements -> ElementStates], document : Documents,
           scrollLocked : BOOLEAN, toggleOn : BOOLEAN, isLive : BOOLEAN, listShown : BOOLEAN,
           liveStatusRequestPending : BOOLEAN, activeLiverUID : BOOLEAN, subscribed : BOOLEAN]

Init ==
    /\ windows = [n \in Names |-> NewWindow] /\ registered = {} /\ modalWin = "none"
    /\ main = "startup" /\ draining = FALSE /\ coroutine = "none"
    /\ ctrlC = FALSE /\ client \in Client /\ monitor = NewMonitor

environment == <<ctrlC, client>>

HasVisibleWins == \E n \in registered : ~windows[n].hidden
IsInputAllowedForContext(n) == modalWin \in {"none", n}

\* The backend's main window belongs to the monitor, or to a box without one.
MainWin == IF "monitor" \in registered THEN "monitor" ELSE "box"

RequestCloseAllWindows ==
    [n \in Names |-> IF n \in registered THEN RequestClose(windows[n]) ELSE windows[n]]
CleanupClosedWindows(ws) ==
    [n \in Names |-> IF n \in registered /\ ws[n].shouldClose
                     THEN RequestCloseFromNativeEvent(ws[n]) ELSE ws[n]]

\* Using a destroyed element goes unnoticed or ends the program.
Outcomes(next, usesDestroyed) == {next} \cup IF usesDestroyed THEN {"crashed"} ELSE {}

\* A lost connection takes its activity with it.
Over(m, connected) == [m EXCEPT !.subscribed = @ /\ connected]

-----------------------------------------------------------------------------
(* Startup: the window is built and shown, its show callback adds the test     *)
(* danmakus when there is no client and starts the coroutine.                  *)

ShowMonitor(tests) ==
    /\ main = "startup" /\ main' = "check"
    /\ registered' = {"monitor"}
    /\ monitor' = AddDanmakus(SyncToUI(monitor), IF client = "none" THEN tests ELSE 0)
    /\ windows' = [windows EXCEPT !["monitor"] = MarkOneAsyncOpBegin(Show(@))]
    /\ coroutine' = "sleeping"
    /\ UNCHANGED <<modalWin, draining, environment>>

\* The file of test danmakus cannot be read: the window has no coroutine.
ShowMonitorFails ==
    /\ main = "startup" /\ client = "none" /\ main' = "check"
    /\ registered' = {"monitor"}
    /\ monitor' = SyncToUI(monitor)
    /\ windows' = [windows EXCEPT !["monitor"] = Show(@)]
    /\ UNCHANGED <<modalWin, draining, coroutine, environment>>

\* A box is registered, modal and shown.
OpenBox ==
    /\ windows' = [windows EXCEPT !["box"] = Show(NewWindow)]
    /\ registered' = registered \cup {"box"} /\ modalWin' = "box"

\* The daemon finds no backend: a box without a main window tells it.
StartupFails ==
    /\ main = "startup" /\ main' = "fatalBox"
    /\ OpenBox
    /\ UNCHANGED <<draining, coroutine, environment, monitor>>

-----------------------------------------------------------------------------
(* runUiMainLoop and drainUiShutdown.                                          *)

Leave ==
    /\ main = "check" /\ ~HasVisibleWins
    /\ main' = "ended"
    /\ UNCHANGED <<windows, registered, modalWin, draining, coroutine, environment, monitor>>

ProcessEvents ==
    /\ main = "check" /\ HasVisibleWins /\ (draining \/ ~ctrlC)
    /\ main' = "events"
    /\ UNCHANGED <<windows, registered, modalWin, draining, coroutine, environment, monitor>>

DrainUiShutdown ==
    /\ main' = "check" /\ draining' = TRUE
    /\ windows' = RequestCloseAllWindows
    /\ UNCHANGED <<registered, modalWin, coroutine, environment, monitor>>

CtrlCSeen == main = "check" /\ HasVisibleWins /\ ctrlC /\ ~draining /\ DrainUiShutdown
CloseSeen == main = "events" /\ ~draining /\ windows[MainWin].shouldClose /\ DrainUiShutdown

EventsProcessed ==
    /\ main = "events" /\ (draining \/ ~windows[MainWin].shouldClose)
    /\ main' = "executor"
    /\ UNCHANGED <<windows, registered, modalWin, draining, coroutine, environment, monitor>>

\* loop_once runs one task at most of those that have been posted: the coroutine
\* when its sleep is over, the daemon's report.
Idle ==
    /\ main = "executor" /\ main' = "update"
    /\ UNCHANGED <<windows, registered, modalWin, draining, coroutine, environment, monitor>>

\* (Without a close request it sleeps again, and nothing changes.)
ResumeCoroutine ==
    /\ main = "executor" /\ coroutine = "sleeping" /\ main' = "update"
    /\ windows["monitor"].pendingClose
    /\ coroutine' = "done"
    /\ windows' = [windows EXCEPT !["monitor"] = MarkOneAsyncOpFinish(@)]
    /\ UNCHANGED <<registered, modalWin, draining, environment, monitor>>

CrashLimitExceeded ==
    /\ main = "executor" /\ main' = "box"
    /\ OpenBox
    /\ UNCHANGED <<draining, coroutine, environment, monitor>>

\* What the owner of the client passes on in its own update, before the monitor's.
\* Other threads lose and repair the connection between any two looks at it.
ClientCalls ==
    /\ main = "update" /\ client # "none"
    /\ \E connected \in BOOLEAN :
       LET m == Over(monitor, connected) IN
       \/ /\ monitor' \in {OnLiveStatus(m, live, client, connected) : live \in BOOLEAN}
                           \cup {SetLiveState(m, live, client, connected) : live \in BOOLEAN}
          /\ UNCHANGED main
       \/ /\ RoomToAdd(m)
          /\ monitor' = OnDanmakuActivity(m, client, connected)
          /\ main' \in Outcomes(main, /\ EvictsDestroyed(m)
                                     /\ ~SetLiveStateThrows(m, TRUE, client, connected))
    /\ UNCHANGED <<windows, registered, modalWin, draining, coroutine, environment>>

\* update() of the monitor: the close request, its context, its callback.
UpdateContextLast(m, connected, still, timedOut, due) ==
    ContextUpdate(UpdateCb(m, client, connected, still, timedOut, due))
Update(m, connected, still, timedOut, due) ==
    UpdateCb(ContextUpdate(m), client, connected, still, timedOut, due)

\* updateAll, renderAll and cleanupClosedWindows: only this thread is in them.
UpdateAll ==
    /\ main = "update"
    /\ \/ /\ windows["monitor"].hidden /\ main' = "check"
          /\ windows' = CleanupClosedWindows(windows) /\ UNCHANGED monitor
       \/ /\ ~windows["monitor"].hidden
          /\ windows' = CleanupClosedWindows(
                [windows EXCEPT !["monitor"] = ApplyCloseRequestState(@)])
          /\ \E connected, still, timedOut, due \in BOOLEAN :
             LET m == Over(monitor, connected) IN
             /\ still => connected
             /\ connected => client # "none"
             /\ timedOut \/ due => connected
             /\ monitor' = Over(Update(m, connected, still, timedOut, due), still)
             /\ main' \in Outcomes("check", UpdateCbUsesDestroyed(
                              ContextUpdate(m), client, connected, still, timedOut, due))
    /\ UNCHANGED <<registered, modalWin, draining, coroutine, environment>>

-----------------------------------------------------------------------------
(* Events of the monitor window.                                               *)

AcceptsInput(n) ==
    /\ n \in registered /\ ~windows[n].hidden /\ IsInputAllowedForContext(n)
    /\ main \in {"events", "box", "fatalBox"}

ClickClose ==
    /\ AcceptsInput("monitor")
    /\ windows' = [windows EXCEPT !["monitor"] = RequestClose(@)]
    /\ UNCHANGED <<registered, modalWin, main, draining, coroutine, environment, monitor>>

\* The list's own controls.
UseList ==
    /\ AcceptsInput("monitor")
    /\ \/ /\ monitor' \in {SetScrollLocked(monitor, FALSE), ToggleClicked(monitor)}
          /\ UNCHANGED main
       \/ /\ RoomToAdd(monitor) /\ monitor' = AddDanmaku(monitor)
          /\ main' \in Outcomes(main, EvictsDestroyed(monitor))
    /\ UNCHANGED <<windows, registered, modalWin, draining, coroutine, environment>>

\* Ctrl+R loads the document anew, as it is on the disk now.
ReloadWindowDocument ==
    /\ AcceptsInput("monitor") /\ RoomToReload(monitor)
    /\ \E document \in Documents \ {"missing"} :
          monitor' = DocumentReloaded(CloseDocument(monitor, document))
    /\ windows' = [windows EXCEPT !["monitor"] = ReloadDocument(@)]
    /\ UNCHANGED <<registered, modalWin, main, draining, coroutine, environment>>

\* Without it the old one is closed all the same, and the exception leaves the
\* main loop and the program.
ReloadMissingDocument ==
    /\ AcceptsInput("monitor") /\ main' = "died"
    /\ monitor' = CloseDocument(monitor, "missing")
    /\ UNCHANGED <<windows, registered, modalWin, draining, coroutine, environment>>

\* The desktop's own close, of any window: no filter holds it back.
NativeClose(n) ==
    /\ main \in {"events", "box", "fatalBox"} /\ n \in registered
    /\ ~windows[n].hidden /\ ~windows[n].shouldClose
    /\ windows' = [windows EXCEPT ![n].shouldClose = TRUE]
    /\ UNCHANGED <<registered, modalWin, main, draining, coroutine, environment, monitor>>

-----------------------------------------------------------------------------
(* MsgBox::showModal: it updates and draws only its own window.                *)

InBox == main \in {"box", "fatalBox"}

\* The box has no work, so it hides at once, looks after closed windows and is
\* destroyed.  The daemon's handler then ends the program, and so does main.
CloseBox ==
    /\ windows' = [CleanupClosedWindows([windows EXCEPT !["box"] = RequestClose(@)])
                      EXCEPT !["box"] = NewWindow]
    /\ registered' = registered \ {"box"} /\ modalWin' = "none"
    /\ main' = IF main = "box" THEN "died" ELSE "ended"
    /\ UNCHANGED <<draining, coroutine, environment, monitor>>

ClickOK == InBox /\ AcceptsInput("box") /\ CloseBox

\* Once the backend's main window is to close, so is the box.
BoxObeysMainWin == InBox /\ windows[MainWin].shouldClose /\ CloseBox

-----------------------------------------------------------------------------
(* What comes from other threads.                                              *)

Running == main \notin {"ended", "died", "crashed"}

\* (During the drain it changes nothing.)
PressCtrlC ==
    /\ Running /\ ~draining /\ ~ctrlC /\ ctrlC' = TRUE
    /\ UNCHANGED <<windows, registered, modalWin, main, draining, coroutine, client, monitor>>

\* The connection is lost, and perhaps another made, while nobody looks.
ConnectionLost ==
    /\ monitor.subscribed /\ monitor' = Over(monitor, FALSE)
    /\ UNCHANGED <<windows, registered, modalWin, main, draining, coroutine, environment>>

MainContinues ==
    \/ Leave \/ ProcessEvents \/ CtrlCSeen \/ CloseSeen \/ EventsProcessed
    \/ Idle \/ ResumeCoroutine \/ UpdateAll
    \/ BoxObeysMainWin

User ==
    \/ ClickClose \/ UseList \/ ReloadWindowDocument \/ ReloadMissingDocument
    \/ (\E n \in Names : NativeClose(n)) \/ ClickOK \/ PressCtrlC

\* The bound on the test danmakus lets them overflow the list.
Startup ==
    (\E tests \in 0 .. MaxDanmakuInGui + 1 : ShowMonitor(tests)) \/ ShowMonitorFails \/ StartupFails

Next ==
    \/ Startup
    \/ MainContinues \/ ClientCalls
    \/ User \/ CrashLimitExceeded \/ ConnectionLost

Spec == Init /\ [][Next]_vars
-----------------------------------------------------------------------------
(* Properties.                                                                 *)

Suffix(s, n) == SubSeq(s, n + 1, Len(s))

\* In a whole document every danmaku of the list has its living element, those
\* that wait to appear are the newest ones, in order, and the rest have appeared;
\* no pointer to an element that eviction, clearing or a reload destroyed is left
\* or was ever used.  The toggle and the list show the state, through reloads of
\* broken documents; after the reload of a missing one nothing is shown any more.
DocumentShowsState ==
    /\ monitor.document = "missing" => main = "died"
    /\ main = "crashed" => monitor.document # "whole"
    /\ monitor.document = "whole" /\ main # "startup" =>
        /\ \E n \in 0 .. Len(monitor.danmakuInGui) :
              /\ monitor.pendingAnimDanmaku = Suffix(monitor.danmakuInGui, n)
              /\ \A i \in DOMAIN monitor.danmakuInGui :
                    monitor.elements[monitor.danmakuInGui[i]] \in
                        IF i <= n THEN {"animated"} ELSE {"created", "styled"}
        /\ monitor.toggleOn = monitor.scrollLocked
        /\ monitor.listShown = monitor.isLive

\* A danmaku is told to appear only when its element has a style, so that its
\* transition plays, whichever of events, tasks and callbacks added it.
PlaysTransition == \A e \in Elements : monitor.elements[e] # "jumped"

\* When the window stops being live it leaves no activity running at the backend,
\* also when the connection goes while it polls.
ActivityEndsWithLive ==
    [][monitor.isLive /\ ~monitor'.isLive /\ monitor.document = "whole"
           => ~monitor'.subscribed]_vars

Closing == INSTANCE WindowClosing WITH
    Windows <- Names,
    shown <- {n \in Names : ~windows[n].hidden},
    working <- {n \in Names : windows[n].runningAsyncOp},
    asked <- {n \in Names : windows[n].pendingClose}

\* No window disappears under unfinished work, and none forgets that it was asked
\* to close: by its button, the desktop, Ctrl+C, a shutdown or a box that ends.
WindowsCloseWhenIdle == Closing!Spec

-----------------------------------------------------------------------------
(* The main thread goes on; a coroutine whose sleep is over is run in the end  *)
(* by one of the frames; the user confirms a message box.                      *)

Fairness ==
    /\ WF_vars(Startup) /\ WF_vars(MainContinues) /\ SF_vars(ResumeCoroutine)
    /\ WF_vars(ClickOK)

\* However the program is asked to quit, it does, once its work is finished.
QuitEnds ==
    (ctrlC \/ \E n \in registered : windows[n].pendingClose \/ windows[n].shouldClose)
        ~> (main \in {"ended", "died", "crashed"})
=============================================================================
