------------------------ MODULE AcliveBackendDaemon ------------------------
(***************************************************************************)
(* The supervisor of the backend process, of                               *)
(* subprojects/Core/private/aclive_backend_daemon.cxx, as main.cpp uses    *)
(* it: the main thread constructs it, registers a handler, pumps the       *)
(* executor and destroys it; the monitor thread restarts the backend until *)
(* it has crashed too often; the backend may exit at any moment.           *)
(*                                                                         *)
(* State::mutex is held while a thread sleeps after it started a backend:  *)
(* by the monitor thread in "start" and "settle", by the main thread in    *)
(* "settle".  Every other critical section is one action.                  *)
(***************************************************************************)
EXTENDS Naturals, Sequences

CONSTANT CrashLimit  \* kCrashLimit

ASSUME CrashLimitAssumption == CrashLimit \in Nat

VARIABLES
    child,               \* the optional child process
    monitor,             \* where the monitor thread is
    stopRequested,       \* its stop token
    crashLimitExceededHandler,
    crashCount,
    crashLimitNotified,
    executor,            \* the handlers posted to the main thread
    main                 \* where the main thread is

backend == <<crashCount, crashLimitNotified>>
report  == <<crashLimitExceededHandler, executor>>

vars == <<child, monitor, stopRequested, backend, report, main>>

-----------------------------------------------------------------------------
Child     == {"none", "running", "exited"}
MonitorPc == {"off", "loop", "iterate", "start", "settle", "returned"}
MainPc    == {"construct", "settle", "register", "run", "report", "join", "reset",
              "stopped", "failed", "died", "terminated", "aborted"}

\* A std::function: none yet, or moved away; or one that can be called.
Handler == {"empty", "callable"}

TypeOK ==
    /\ child \in Child
    /\ monitor \in MonitorPc
    /\ stopRequested \in BOOLEAN
    /\ crashLimitExceededHandler \in Handler
    /\ crashCount \in 0 .. CrashLimit + 1
    /\ crashLimitNotified \in BOOLEAN
    /\ executor \in Seq(Handler)
    /\ main \in MainPc

Init ==
    /\ child = "none"
    /\ monitor = "off" /\ stopRequested = FALSE
    /\ crashLimitExceededHandler = "empty"
    /\ crashCount = 0 /\ crashLimitNotified = FALSE
    /\ executor = <<>>
    /\ main = "construct"

\* The process these threads live in is still there.
Alive == main \notin {"died", "terminated", "aborted"}

\* State::mutex can be taken.
Unlocked == monitor \notin {"start", "settle"} /\ main # "settle"

-----------------------------------------------------------------------------
(* The main thread.                                                        *)

\* The constructor starts the first backend; without an executable it throws,
\* and rmluiMain tells the user and ends.
Construct ==
    /\ main = "construct"
    /\ \/ child' = "running" /\ main' = "settle"
       \/ main' = "failed" /\ UNCHANGED child
    /\ UNCHANGED <<monitor, stopRequested, backend, report>>

\* The constructor has slept; the monitor thread is created.
StartMonitorLoop ==
    /\ main = "settle"
    /\ monitor' = "loop"
    /\ main' = "register"
    /\ UNCHANGED <<child, stopRequested, backend, report>>

SetCrashLimitExceededHandler ==
    /\ main = "register"
    /\ Unlocked
    /\ crashLimitExceededHandler' = "callable"
    /\ main' = "run"
    /\ UNCHANGED <<child, monitor, stopRequested, backend, executor>>

\* The executor runs a posted handler.  Calling an empty one throws
\* bad_function_call: the executor drops it with the report, or lets it out of
\* the main loop.  There the MSVC release build catches it, and the destructor
\* runs on the way; nothing catches it in the other builds.
RunPosted ==
    /\ main = "run"
    /\ executor # <<>>
    /\ \/ Head(executor) = "callable" /\ main' = "report" /\ UNCHANGED stopRequested
       \/ Head(executor) = "empty" /\ main' \in {"run", "aborted"} /\ UNCHANGED stopRequested
       \/ Head(executor) = "empty" /\ main' = "join" /\ stopRequested' = TRUE
    /\ executor' = Tail(executor)
    /\ UNCHANGED <<child, monitor, backend, crashLimitExceededHandler>>

\* Mutant: the handler shows its message box and lets the program go on.
DieNever ==
    /\ main = "report"
    /\ main' = "run"
    /\ UNCHANGED <<child, monitor, stopRequested, backend, report>>

\* The user closes the message box, and the handler ends the process.
Die ==
    /\ main = "report"
    /\ main' = "died"
    /\ UNCHANGED <<child, monitor, stopRequested, backend, report>>

\* Mutant: the destructor joins the thread without a stop request.
RequestStopJoinsOnly ==
    /\ main \in {"run", "report"}
    /\ main' = "join"
    /\ UNCHANGED <<child, monitor, stopRequested, backend, report>>

\* The destructor, once the main loop has ended or an exception that is caught
\* leaves it or a message box: requestStop.
RequestStop ==
    /\ main \in {"run", "report"}
    /\ stopRequested' = TRUE
    /\ main' = "join"
    /\ UNCHANGED <<child, monitor, backend, report>>

Join ==
    /\ main = "join"
    /\ monitor = "returned"
    /\ main' = "reset"
    /\ UNCHANGED <<child, monitor, stopRequested, backend, report>>

\* Mutant: the child is detached before it is destroyed.
ResetDetached ==
    /\ main = "reset"
    /\ Unlocked
    /\ main' = "stopped"
    /\ UNCHANGED <<child, monitor, stopRequested, backend, report>>

\* The destructor of the child terminates a process that still runs.
ResetChild ==
    /\ main = "reset"
    /\ Unlocked
    /\ child' = "none"
    /\ main' = "stopped"
    /\ UNCHANGED <<monitor, stopRequested, backend, report>>

\* The process ends without the destructor: in the main thread a failed assertion
\* or unwrap calls abort, and an exception that nothing catches ends it, or a signal.
Aborts ==
    /\ Alive /\ main \notin {"stopped", "failed"}
    /\ main' = "aborted"
    /\ UNCHANGED <<child, monitor, stopRequested, backend, report>>

-----------------------------------------------------------------------------
(* The monitor thread: monitorLoop.                                        *)

\* Mutant: the loop goes on only while the backend runs.
MonitorChecksRunning ==
    /\ Alive
    /\ monitor = "loop"
    /\ monitor' = IF stopRequested \/ child = "exited" THEN "returned" ELSE "iterate"
    /\ UNCHANGED <<child, stopRequested, backend, report, main>>

MonitorChecks ==
    /\ Alive
    /\ monitor = "loop"
    /\ monitor' = IF stopRequested THEN "returned" ELSE "iterate"
    /\ UNCHANGED <<child, stopRequested, backend, report, main>>

\* The body of the loop when there is nothing to restart.
MonitorLooks ==
    /\ Alive
    /\ monitor = "iterate"
    /\ Unlocked
    /\ \/ /\ child = "none" \/ stopRequested
          /\ monitor' = "returned"
          /\ child' = IF child = "none" THEN "none" ELSE "exited"
       \/ /\ child = "running" /\ ~stopRequested
          /\ monitor' = "loop"
          /\ UNCHANGED child
    /\ UNCHANGED <<stopRequested, backend, report, main>>

\* Mutant: one crash more is tolerated.
GivesUpLate(crashes) == crashes > CrashLimit + 1 /\ ~crashLimitNotified

\* handleChildExit gives up.
GivesUp(crashes) == crashes > CrashLimit /\ ~crashLimitNotified

\* Mutant: every crash beyond the limit is reported, and the loop goes on.
HandleChildExitRepeats ==
    /\ Alive
    /\ monitor = "iterate"
    /\ Unlocked
    /\ child = "exited" /\ ~stopRequested
    /\ crashCount' = crashCount + 1
    /\ \/ /\ crashCount + 1 > CrashLimit
          /\ crashLimitNotified' = TRUE
          /\ executor' = Append(executor, crashLimitExceededHandler)
          /\ crashLimitExceededHandler' = "empty"
       \/ /\ crashCount + 1 <= CrashLimit
          /\ UNCHANGED <<crashLimitNotified, report>>
    /\ monitor' = "start"
    /\ UNCHANGED <<child, stopRequested, main>>

\* The body of the loop when the backend has exited: handleChildExit.
HandleChildExit ==
    /\ Alive
    /\ monitor = "iterate"
    /\ Unlocked
    /\ child = "exited" /\ ~stopRequested
    /\ crashCount' = crashCount + 1
    /\ \/ /\ GivesUp(crashCount + 1)
          /\ crashLimitNotified' = TRUE
          /\ executor' = Append(executor, crashLimitExceededHandler)
          /\ crashLimitExceededHandler' = "empty"
          /\ monitor' = "returned"
       \/ /\ ~GivesUp(crashCount + 1)
          /\ monitor' = "start"
          /\ UNCHANGED <<crashLimitNotified, report>>
    /\ UNCHANGED <<child, stopRequested, main>>

\* startChild in the monitor thread: an exception there ends the process.
StartChild ==
    /\ Alive
    /\ monitor = "start"
    /\ \/ child' = "running" /\ monitor' = "settle" /\ UNCHANGED main
       \/ main' = "terminated" /\ UNCHANGED <<child, monitor>>
    /\ UNCHANGED <<stopRequested, backend, report>>

\* The monitor thread has slept and releases the mutex.
MonitorSettled ==
    /\ Alive
    /\ monitor = "settle"
    /\ monitor' = "loop"
    /\ UNCHANGED <<child, stopRequested, backend, report, main>>

-----------------------------------------------------------------------------
\* The backend crashes, or ends by itself.
ChildExits ==
    /\ child = "running"
    /\ child' = "exited"
    /\ UNCHANGED <<monitor, stopRequested, backend, report, main>>

MainContinues ==
    \/ StartMonitorLoop \/ SetCrashLimitExceededHandler \/ RunPosted \/ Die
    \/ Join \/ ResetChild

Monitor ==
    \/ MonitorChecks \/ MonitorLooks \/ HandleChildExit \/ StartChild \/ MonitorSettled

\* The program has ended: nothing is left to do.
Ended ==
    /\ main \in {"stopped", "failed", "died", "terminated", "aborted"}
    /\ UNCHANGED vars

Next == Construct \/ MainContinues \/ RequestStop \/ Aborts \/ Monitor \/ ChildExits \/ Ended

Spec == Init /\ [][Next]_vars

\* Both threads go on while they can.  Taking the mutex is only fair while it
\* stays free: std::mutex gives a waiting thread no precedence.
Fairness == WF_vars(MainContinues) /\ WF_vars(Monitor)

FairSpec == Spec /\ Fairness

-----------------------------------------------------------------------------
(* Properties.                                                             *)

\* Once the limit is exceeded no backend runs or is about to be started again,
\* and the main thread was told.
LimitIsFinal ==
    crashCount > CrashLimit =>
        child # "running" /\ monitor = "returned" /\ crashLimitNotified

\* The program leaves no backend process behind when the destructor has run, at
\* the end of the main loop or for an exception that is caught; when there was
\* none to start; when the user was told of the limit; and when a failed restart
\* terminates it.  It may leave one behind when the main thread aborts.
NoBackendLeft == main \in {"stopped", "failed", "died", "terminated"} => child # "running"

\* The monitor thread may post an empty handler, but only while the main thread
\* still waits for the mutex to register one.
EmptyOnlyBeforeRegistration ==
    [][ executor' = Append(executor, "empty") => main = "register" ]_vars

\* A backend that crashed is answered: by a new one, by giving up, or by the end.
CrashIsAnswered ==
    (main = "run" /\ child = "exited")
        ~> (child = "running" \/ crashLimitNotified \/ stopRequested \/ ~Alive)

\* The main thread acts on a report with a handler, unless the program ends first.
ReportIsHeard == (executor # <<>> /\ Head(executor) = "callable") ~> (~Alive \/ stopRequested)

\* The destructor returns, unless the program aborts under it.
StopReturns == main = "join" ~> main \in {"stopped", "terminated", "aborted"}
=============================================================================
