----------------------------- MODULE MCLoginWin -----------------------------
(* LoginWin with bounds on what users, the network and the backend do.       *)
EXTENDS LoginWin

CONSTANTS
    MaxRequests,  \* bound on the requests that make a new identifier
    MaxLosses,    \* bound on lost connections
    MaxMessages,  \* bound on messages received
    MaxEvents     \* bound on both together

ASSUME BoundsAssumption ==
    MaxRequests \in Nat /\ MaxLosses \in Nat /\ MaxMessages \in Nat /\ MaxEvents \in Nat

VARIABLES losses, received

mcVars == <<vars, losses, received>>

\* One message of each kind the window tells apart.
Message(t, ok, d) == [type |-> t, ok |-> ok, data |-> d]
MCMessages ==
    {Message("QrCodeLogin", TRUE, "present"), Message("QrCodeLogin", TRUE, "badImage"),
     Message("QrCodeLogin", FALSE, "present"), Message("QrCodeLoginTerminated", TRUE, "missing"),
     Message("QrCodeLoginSuccess", TRUE, "present")}

MCInit == Init /\ losses = 0 /\ received = 0

MCNext ==
    \/ /\ Lose /\ losses < MaxLosses /\ losses + received < MaxEvents
       /\ losses' = losses + 1 /\ UNCHANGED received
    \/ /\ received < MaxMessages /\ losses + received < MaxEvents
       /\ received' = received + 1 /\ UNCHANGED losses
       /\ \E m \in MCMessages : Receive(m)
    \/ ClickRefresh /\ lastID < MaxRequests /\ UNCHANGED <<losses, received>>
    \/ (ShowLogin \/ ClickClose \/ ConfirmBox \/ ConnectThread \/ Time \/ ReceiverReturns
        \/ MainContinues)
       /\ UNCHANGED <<losses, received>>

MCSpec == MCInit /\ [][MCNext]_mcVars /\ Fairness
=============================================================================
