---------------------------- MODULE DanmakuMonitor ----------------------------
(* DanmakuMonitorWin::Impl as operators on a record: the list of danmakus, the  *)
(* queue of those whose appearance waits for a frame, the elements of both in   *)
(* the document, and the live state with what it asks of the backend.           *)
EXTENDS Naturals, Sequences, SequencesExt, StdContainers

CONSTANTS
    MaxElements,        \* bound on the elements of danmakus that exist at a time
    MaxDanmakuInGui     \* the limit of the list, kMaxDanmakuInGui

ASSUME MonitorAssumption ==
    /\ MaxElements \in Nat /\ MaxDanmakuInGui \in Nat \ {0}
    /\ MaxDanmakuInGui <= MaxElements

\* An element is created without a style, styled by the first update of its
\* document and then animated; one that gets its class before it has a style
\* just appears.  The elements of a closed document live until the next update.
Elements == 1 .. MaxElements
ElementStates == {"none", "created", "styled", "animated", "jumped", "closed"}
InDocument == ElementStates \ {"none", "closed"}

\* A document the user has edited may lack the hint that is shown when not live;
\* one that was moved away or cannot be parsed is missing altogether.
Documents == {"whole", "noHint", "missing"}

NewMonitor ==
    [danmakuInGui |-> <<>>, pendingAnimDanmaku |-> <<>>,
     elements |-> [e \in Elements |-> "none"], document |-> "whole",
     scrollLocked |-> TRUE, toggleOn |-> TRUE, isLive |-> FALSE, listShown |-> FALSE,
     liveStatusRequestPending |-> FALSE, activeLiverUID |-> FALSE, subscribed |-> FALSE]

\* What the document shows of the state; without the hint it throws half-way.
SyncToUIThrows(m) == m.document = "noHint"
SyncToUI(m) ==
    [m EXCEPT !.toggleOn = m.scrollLocked,
              !.listShown = IF SyncToUIThrows(m) THEN @ ELSE m.isLive]

-----------------------------------------------------------------------------
(* The list and its elements.                                                *)

\* RemoveChild destroys a child of this document and ignores any other element.
RemoveElements(m, es) ==
    [m EXCEPT !.elements = [e \in Elements |->
        IF e \in es /\ m.elements[e] \in InDocument THEN "none" ELSE m.elements[e]]]

\* Every danmaku goes, with its element and its place in the queue.
ClearDanmaku(m) ==
    [RemoveElements(m, ToSet(m.danmakuInGui)) EXCEPT
        !.danmakuInGui = <<>>, !.pendingAnimDanmaku = <<>>]

\* The oldest danmaku goes, also when it has not appeared yet.
EvictFromListOnly(m) ==
    LET oldest == Head(m.danmakuInGui) IN
    [RemoveElements(m, {oldest}) EXCEPT !.danmakuInGui = Tail(@)]
EvictOldestDanmaku(m) ==
    LET oldest == Head(m.danmakuInGui) IN
    [RemoveElements(m, {oldest}) EXCEPT
        !.danmakuInGui = Tail(@),
        !.pendingAnimDanmaku = EraseIf(@, {oldest})]

\* An address nothing refers to.
Unused(m) ==
    {e \in Elements : m.elements[e] = "none"}
        \ (ToSet(m.danmakuInGui) \cup ToSet(m.pendingAnimDanmaku))

CreateElement(m) ==
    LET e == CHOOSE e \in Unused(m) : \A f \in Unused(m) : e <= f IN
    [m EXCEPT !.elements[e] = "created",
              !.danmakuInGui = Append(@, e), !.pendingAnimDanmaku = Append(@, e)]

MakeRoom(m) == IF Len(m.danmakuInGui) >= MaxDanmakuInGui THEN EvictOldestDanmaku(m) ELSE m
AddDanmaku(m) == CreateElement(MakeRoom(m))

AddDanmakus(m, n) ==
    LET add[i \in 0 .. n] == IF i = 0 THEN m ELSE AddDanmaku(add[i - 1])
    IN  add[n]

\* Each frame the one that waits longest appears: it starts its animation and
\* the scripts are told.  The frame number it was queued with is always less
\* than this frame's.
StartPendingDanmakuContainerAnim(m) ==
    IF m.pendingAnimDanmaku = <<>> THEN m
    ELSE [m EXCEPT !.pendingAnimDanmaku = Tail(@),
                   !.elements[Head(m.pendingAnimDanmaku)] =
                       CASE @ = "created" -> "jumped" [] @ = "styled" -> "animated" [] OTHER -> @]

\* The element it is told of, or the oldest one when it is evicted, may have been
\* destroyed with its document: a dangling pointer is used.
StartsDestroyed(m) ==
    m.pendingAnimDanmaku # <<>> /\ m.elements[Head(m.pendingAnimDanmaku)] = "none"
EvictsDestroyed(m) ==
    Len(m.danmakuInGui) >= MaxDanmakuInGui /\ m.elements[Head(m.danmakuInGui)] = "none"

\* Rml::Context::Update gives new elements a style and destroys closed documents.
ContextUpdate(m) ==
    [m EXCEPT !.elements = [e \in Elements |->
        CASE m.elements[e] = "created" -> "styled"
          [] m.elements[e] = "closed" -> "none"
          [] OTHER -> m.elements[e]]]

-----------------------------------------------------------------------------
(* The scroll lock and its toggle.                                           *)

SetScrollLocked(m, locked) ==
    IF m.scrollLocked = locked THEN m ELSE SyncToUI([m EXCEPT !.scrollLocked = locked])

ToggleClicked(m) == SetScrollLocked([m EXCEPT !.toggleOn = ~@], ~m.toggleOn)

-----------------------------------------------------------------------------
(* The live state.  `client' is "none", "anonymous" or, with an authenticated *)
(* user, "user"; `connected' is what the calls to it find.                   *)

\* stopLiveActivity is sent, or throws and leaves the user marked.
StopActivity(m, connected) ==
    IF m.activeLiverUID /\ connected
    THEN [m EXCEPT !.activeLiverUID = FALSE, !.subscribed = FALSE] ELSE m
StartActivity(m, connected) ==
    [m EXCEPT !.activeLiverUID = TRUE, !.subscribed = @ \/ connected]

SetLiveStateThrows(m, isLive, client, connected) ==
    /\ isLive # m.isLive
    /\ \/ SyncToUIThrows(m)
       \/ ~connected /\ IF isLive THEN client = "user" ELSE m.activeLiverUID

SetLiveStateForgets(m, isLive, client, connected) ==
    LET synced == SyncToUI([m EXCEPT !.isLive = isLive]) IN
    IF isLive = m.isLive THEN m
    ELSE IF SyncToUIThrows(m) THEN synced
    ELSE IF ~isLive THEN ClearDanmaku(synced)
    ELSE IF client = "user" THEN StartActivity(synced, connected) ELSE synced
SetLiveState(m, isLive, client, connected) ==
    LET synced == SyncToUI([m EXCEPT !.isLive = isLive]) IN
    IF isLive = m.isLive THEN m
    ELSE IF SyncToUIThrows(m) THEN synced
    ELSE IF ~isLive THEN StopActivity(ClearDanmaku(synced), connected)
    ELSE IF client = "user" THEN StartActivity(synced, connected) ELSE synced

\* The answers the client passes on.
OnLiveStatus(m, live, client, connected) ==
    SetLiveState([m EXCEPT !.liveStatusRequestPending = FALSE], live, client, connected)

\* A danmaku means that the activity is live; a throw drops it.
OnDanmakuActivity(m, client, connected) ==
    LET live == SetLiveState(m, TRUE, client, connected) IN
    IF SetLiveStateThrows(m, TRUE, client, connected) THEN live ELSE AddDanmaku(live)

\* One poll: an unanswered request means not live, and a due one is sent.  The
\* connection seen at first may be gone at the calls (`still').
PollThrows(m, client, timedOut, due, still) ==
    LET late == m.liveStatusRequestPending /\ timedOut IN
    \/ late /\ SetLiveStateThrows(m, FALSE, client, still)
    \/ due /\ (~m.liveStatusRequestPending \/ late) /\ ~still
Poll(m, client, timedOut, due, still) ==
    LET late == m.liveStatusRequestPending /\ timedOut
        answered == IF late THEN SetLiveState([m EXCEPT !.liveStatusRequestPending = FALSE],
                                              FALSE, client, still) ELSE m
    IN  IF due /\ ~PollThrows(m, client, timedOut, due, still)
        THEN [answered EXCEPT !.liveStatusRequestPending = TRUE] ELSE answered

\* Without a connection nothing can be known, and the list is shown.
Assume(m, client) == SetLiveState(m, TRUE, client, FALSE)

UpdateThrows(m, client, connected, still, timedOut, due) ==
    IF client # "none" /\ connected THEN PollThrows(m, client, timedOut, due, still)
    ELSE SetLiveStateThrows(m, TRUE, client, FALSE)
PollOrAssume(m, client, connected, still, timedOut, due) ==
    IF client # "none" /\ connected THEN Poll(m, client, timedOut, due, still)
    ELSE Assume(m, client)

UpdateCb(m, client, connected, still, timedOut, due) ==
    LET polled == PollOrAssume(m, client, connected, still, timedOut, due) IN
    IF UpdateThrows(m, client, connected, still, timedOut, due) THEN polled
    ELSE StartPendingDanmakuContainerAnim(polled)
UpdateCbUsesDestroyed(m, client, connected, still, timedOut, due) ==
    /\ ~UpdateThrows(m, client, connected, still, timedOut, due)
    /\ StartsDestroyed(PollOrAssume(m, client, connected, still, timedOut, due))

-----------------------------------------------------------------------------
(* A reload closes the document, and the callback builds the list anew in the *)
(* new one, from a copy.  A document without the hint stops it before that.   *)

CloseDocument(m, document) ==
    [m EXCEPT !.document = document, !.toggleOn = TRUE, !.listShown = TRUE,
              !.elements = [e \in Elements |->
                  IF m.elements[e] \in InDocument THEN "closed" ELSE m.elements[e]]]

DocumentReloaded(m) ==
    IF SyncToUIThrows(m) THEN SyncToUI(m)
    ELSE AddDanmakus(ClearDanmaku(SyncToUI(m)), Len(m.danmakuInGui))

\* The bound on elements leaves room for the new ones.
RoomToReload(m) ==
    Cardinality({e \in Elements : m.elements[e] = "none"}) >= Len(m.danmakuInGui)
RoomToAdd(m) == Unused(MakeRoom(m)) # {}
=============================================================================
