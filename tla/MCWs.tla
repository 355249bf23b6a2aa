------------------------------- MODULE MCWs -------------------------------
(* Ws with a bound on the calls of the application and, where the state    *)
(* space needs it, on the failures of the network, for TLC.                *)
EXTENDS Ws, TLC

CONSTANTS
    MaxCalls,    \* bound on connect, connectAsync and disconnect calls
    MaxFailures  \* bound on lost sockets and overdue heartbeats, in MCBoundedSpec

ASSUME BoundsAssumption == MaxCalls \in Nat /\ MaxFailures \in Nat

VARIABLES calls, failures   \* how many there were

mcVars == <<vars, calls, failures>>

MCInit == Init /\ calls = 0 /\ failures = 0

MCUserCalls == UserCalls /\ calls < MaxCalls /\ calls' = calls + 1 /\ UNCHANGED failures

MCNext ==
    \/ MCUserCalls
    \/ System /\ UNCHANGED <<calls, failures>>

MCSpec == MCInit /\ [][MCNext]_mcVars

\* Bound: the slots are used up once disconnect() has detached the receive
\* threads of two connections, which nothing ends.
LeftBehind(c) == receiver[c] # "off" /\ c # receiveThread /\ attempt[c] = "off"
SlotsUsedUp == Cardinality({c \in Conns : LeftBehind(c)}) > 1

Failure ==
    \/ \E c \in Conns : lost'[c] /\ ~lost[c]
    \/ heartbeatClock' = "overdue" /\ heartbeatClock # "overdue"

MCBoundedNext ==
    /\ ~SlotsUsedUp
    /\ \/ MCUserCalls
       \/ /\ System
          /\ failures' = IF Failure THEN failures + 1 ELSE failures
          /\ failures' <= MaxFailures
          /\ UNCHANGED calls

MCBoundedSpec == MCInit /\ [][MCBoundedNext]_mcVars

MCFairSpec == MCBoundedSpec /\ Fairness

\* With heartbeats, as the program runs, execCb ends every repair it begins,
\* through failed attempts, backoff and stale results: the connection comes up
\* again unless disconnect() is called or the attempt deadlocks over a thread
\* of the old connection.
LossIsRepaired == LossSeen ~> (RepairEnds \/ SlotsUsedUp)

ConnSymmetry == Permutations(Conns)
=============================================================================
