--------------------- MODULE AcliveBackendDaemonProofs ---------------------
(* Proofs, for every crash limit, that the supervisor keeps its type       *)
(* invariant and the safety properties its run checks.                     *)
EXTENDS AcliveBackendDaemon, TLAPS

-----------------------------------------------------------------------------
(* The inductive invariant, in parts.                                      *)

\* Which phases of the two threads go together.
ThreadsInStep ==
    /\ main \in {"construct", "settle", "failed"} => monitor = "off"
    /\ monitor = "off" => main \in {"construct", "settle", "failed", "aborted"}
    /\ main \in {"reset", "stopped"} => monitor = "returned"
    /\ main = "construct" => child = "none"
    /\ monitor = "start" => child # "running"

\* The limit is not exceeded before it is notified, and then it is final.
LimitNotified ==
    /\ crashCount > CrashLimit <=> crashLimitNotified
    /\ LimitIsFinal

\* Handlers reach the executor and the message box only by the notification,
\* and an empty one only if none was registered.
HandlerFollowed ==
    /\ executor # <<>> \/ main \in {"report", "died"} => crashLimitNotified
    /\ ~crashLimitNotified
          /\ main \notin {"construct", "settle", "failed", "register", "terminated", "aborted"} =>
           crashLimitExceededHandler = "callable"

DaemonInv ==
    TypeOK /\ ThreadsInStep /\ LimitNotified /\ HandlerFollowed /\ NoBackendLeft

-----------------------------------------------------------------------------
\* The program starts without a backend.
LEMMA DaemonInit == Init => DaemonInv
<1> SUFFICES ASSUME Init PROVE DaemonInv
  OBVIOUS
<1> USE CrashLimitAssumption DEF Init
<1>1. TypeOK
  <2>1. executor \in Seq(Handler)
    OBVIOUS
  <2>2. crashCount \in 0 .. CrashLimit + 1
    OBVIOUS
  <2> QED
    BY <2>1, <2>2 DEF TypeOK, Child, MonitorPc, MainPc, Handler
<1>2. ThreadsInStep /\ LimitNotified /\ NoBackendLeft
  BY DEF ThreadsInStep, LimitNotified, LimitIsFinal, NoBackendLeft
<1>3. HandlerFollowed
  BY DEF HandlerFollowed
<1> QED
  BY <1>1, <1>2, <1>3 DEF DaemonInv

\* The main thread, and the exit of the backend.
LEMMA DaemonMain ==
    ASSUME DaemonInv, Construct \/ MainContinues \/ RequestStop \/ Aborts \/ ChildExits
    PROVE  DaemonInv'
<1> USE CrashLimitAssumption
    DEF DaemonInv, TypeOK, Child, MonitorPc, MainPc, Handler, ThreadsInStep,
        LimitNotified, LimitIsFinal, HandlerFollowed, NoBackendLeft,
        backend, report
<1>1. CASE Construct
  BY <1>1 DEF Construct
<1>2. CASE StartMonitorLoop
  BY <1>2 DEF StartMonitorLoop
<1>3. CASE SetCrashLimitExceededHandler
  BY <1>3 DEF SetCrashLimitExceededHandler
<1>4. CASE RunPosted
  <2>1. /\ executor # <<>> /\ executor' = Tail(executor)
        /\ UNCHANGED <<child, monitor, crashCount, crashLimitNotified, crashLimitExceededHandler>>
        /\ main = "run" /\ main' \in {"run", "report", "join", "aborted"}
        /\ stopRequested' \in {stopRequested, TRUE}
    BY <1>4, Zenon DEF RunPosted
  <2>2. executor' \in Seq(Handler)
    BY <2>1
  <2> QED
    BY <2>1, <2>2
<1>5. CASE Die
  BY <1>5 DEF Die
<1>6. CASE Join
  BY <1>6 DEF Join
<1>7. CASE ResetChild
  BY <1>7 DEF ResetChild
<1>8. CASE RequestStop
  BY <1>8 DEF RequestStop
<1>9. CASE ChildExits
  BY <1>9 DEF ChildExits
<1>10. CASE Aborts
  BY <1>10 DEF Aborts, Alive
<1> QED
  BY <1>1, <1>2, <1>3, <1>4, <1>5, <1>6, <1>7, <1>8, <1>9, <1>10 DEF MainContinues

\* The monitor thread.
LEMMA DaemonMonitor ==
    ASSUME DaemonInv, Monitor
    PROVE  DaemonInv'
<1> USE CrashLimitAssumption
    DEF DaemonInv, TypeOK, Child, MonitorPc, MainPc, Handler, ThreadsInStep,
        LimitNotified, LimitIsFinal, HandlerFollowed, NoBackendLeft,
        backend, report, Alive
<1>1. CASE MonitorChecks
  BY <1>1 DEF MonitorChecks
<1>2. CASE MonitorLooks
  BY <1>2 DEF MonitorLooks
<1>3. CASE HandleChildExit
  <2>1. CASE GivesUp(crashCount + 1)
    <3>1. executor = <<>> /\ executor' = <<crashLimitExceededHandler>>
      <4>1. executor = <<>>
        BY <2>1 DEF GivesUp
      <4>2. executor' = Append(executor, crashLimitExceededHandler)
        BY <1>3, <2>1 DEF HandleChildExit
      <4> QED
        BY <4>1, <4>2
    <3> QED
      BY <1>3, <2>1, <3>1 DEF HandleChildExit, GivesUp
  <2>2. CASE ~GivesUp(crashCount + 1)
    BY <1>3, <2>2 DEF HandleChildExit, GivesUp
  <2> QED
    BY <2>1, <2>2
<1>4. CASE StartChild
  <2>1. CASE main' = "terminated"
    BY <1>4, <2>1 DEF StartChild
  <2>2. CASE child' = "running" /\ monitor' = "settle" /\ UNCHANGED main
    BY <1>4, <2>2 DEF StartChild
  <2> QED
    BY <1>4, <2>1, <2>2 DEF StartChild
<1>5. CASE MonitorSettled
  BY <1>5 DEF MonitorSettled
<1> QED
  BY <1>1, <1>2, <1>3, <1>4, <1>5 DEF Monitor

\* It holds always.
LEMMA DaemonInvariant == Spec => []DaemonInv
<1>1. DaemonInv /\ [Next]_vars => DaemonInv'
  <2> SUFFICES ASSUME DaemonInv, [Next]_vars PROVE DaemonInv'
    OBVIOUS
  <2>1. CASE Ended \/ UNCHANGED vars
    BY <2>1 DEF Ended, DaemonInv, TypeOK, ThreadsInStep, LimitNotified, LimitIsFinal,
                HandlerFollowed, NoBackendLeft, vars, backend, report
  <2> QED
    BY <2>1, DaemonMain, DaemonMonitor DEF Next
<1> QED
  BY <1>1, DaemonInit, PTL DEF Spec

-----------------------------------------------------------------------------
\* The supervisor's variables stay in their ranges; in particular it never
\* counts more than one crash beyond the limit.
THEOREM DaemonTypes == Spec => []TypeOK
BY DaemonInvariant, PTL DEF DaemonInv

\* After the limit is exceeded nothing starts a backend again.
THEOREM LimitEnds == Spec => []LimitIsFinal
BY DaemonInvariant, PTL DEF DaemonInv, LimitNotified

\* No backend process survives an end of the program other than an abort of the
\* main thread: the destructor, also while the monitor restarts the backend, the
\* report of the limit, or an exception in either thread's start of a backend.
THEOREM NoBackendSurvives == Spec => []NoBackendLeft
BY DaemonInvariant, PTL DEF DaemonInv

\* Only a main thread that still waits to register its handler can be sent an
\* empty one.
THEOREM EmptyHandlerExplained == Spec => EmptyOnlyBeforeRegistration
<1>1. DaemonInv /\ [Next]_vars =>
          [executor' = Append(executor, "empty") => main = "register"]_vars
  <2> SUFFICES ASSUME DaemonInv, Next, executor' = Append(executor, "empty")
               PROVE  main = "register"
    OBVIOUS
  <2> USE DEF DaemonInv, TypeOK
  <2>1. executor' # executor /\ (executor # <<>> => executor' # Tail(executor))
    <3>1. Len(Append(executor, "empty")) = Len(executor) + 1
      BY DEF Handler
    <3>2. executor # <<>> => Len(Tail(executor)) = Len(executor) - 1
      OBVIOUS
    <3>3. Len(executor) \in Nat
      OBVIOUS
    <3> QED
      BY <3>1, <3>2, <3>3
  <2>2. HandleChildExit /\ ~crashLimitNotified
    BY <2>1 DEF Next, Construct, MainContinues, StartMonitorLoop, SetCrashLimitExceededHandler,
       RunPosted, Die, Join, ResetChild, RequestStop, Aborts, Monitor, MonitorChecks, MonitorLooks,
       HandleChildExit, GivesUp, StartChild, MonitorSettled, ChildExits, Ended, vars, report
  <2>3. crashLimitExceededHandler = "empty"
    BY <2>1, <2>2 DEF HandleChildExit, report, Handler
  <2>4. main \notin {"construct", "settle", "failed", "terminated", "aborted"}
    BY <2>2 DEF HandleChildExit, Alive, ThreadsInStep
  <2> QED
    BY <2>2, <2>3, <2>4 DEF HandlerFollowed
<1> QED
  BY <1>1, DaemonInvariant, PTL DEF Spec, EmptyOnlyBeforeRegistration
=============================================================================
