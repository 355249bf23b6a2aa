---------------------------- MODULE WsLifecycle ----------------------------
(* What Ws shows of one connection to its callers: isConnected,            *)
(* getConnectionState and getDisconnectReason, without threads, handles,   *)
(* mutexes and retries, and whose connection it is.  A connection may be   *)
(* requested away or lost at any moment.  As long as every disconnect()    *)
(* has ended its threads, it is established only by the attempt that       *)
(* claimed it; once one has left a thread behind, by any attempt that      *)
(* finds it claimed.                                                       *)

CONSTANTS
    Conns,    \* the attempts and the connections they make
    NoOne,    \* nobody holds the object
    MayHang   \* threads are terminated, perhaps with the object locked

VARIABLES
    connectionState, disconnectReason,
    holder,   \* who claimed the object, then whose connection is up
    strays    \* a disconnect() has returned with a thread still running

state == <<connectionState, disconnectReason, holder, strays>>

Init ==
    /\ connectionState = "Disconnected" /\ disconnectReason = "None"
    /\ holder = NoOne /\ strays = FALSE

\* An attempt claims the disconnected object.
Attempt(c) ==
    /\ connectionState = "Disconnected"
    /\ connectionState' = "Connecting" /\ disconnectReason' = "None"
    /\ holder' = c
    /\ UNCHANGED strays

\* The attempt succeeds: nothing has happened since the claim.
Establish ==
    /\ connectionState = "Connecting" /\ disconnectReason = "None"
    /\ connectionState' = "Connected" /\ disconnectReason' = "None"
    /\ holder' \in IF strays THEN Conns ELSE {holder}
    /\ UNCHANGED strays

\* An attempt fails, or a socket is lost.
Lose ==
    /\ connectionState # "Hung"
    /\ connectionState' = "Disconnected" /\ disconnectReason' = "Unexpected"
    /\ holder' = NoOne
    /\ UNCHANGED strays

\* disconnect() begins.
Request ==
    /\ connectionState # "Hung"
    /\ connectionState' =
           IF connectionState = "Disconnected" THEN "Disconnected" ELSE "Disconnecting"
    /\ disconnectReason' = "Requested"
    /\ holder' = NoOne
    /\ UNCHANGED strays

\* disconnect() ends, or an attempt finds that it was cancelled.
Finish ==
    /\ connectionState # "Hung"
    /\ connectionState' = "Disconnected"
    /\ holder' = NoOne
    /\ strays' \in {strays, TRUE}
    /\ UNCHANGED disconnectReason

\* A thread is terminated with the object locked: every later call blocks.
Hang ==
    /\ MayHang
    /\ connectionState' = "Hung" /\ disconnectReason' = "Hung"
    /\ holder' = NoOne
    /\ UNCHANGED strays

Next == (\E c \in Conns : Attempt(c)) \/ Establish \/ Lose \/ Request \/ Finish \/ Hang

Spec == Init /\ [][Next]_state
=============================================================================
