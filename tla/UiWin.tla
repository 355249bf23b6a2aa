-------------------------------- MODULE UiWin --------------------------------
(* RmlUIWin::UiWin as operators on a record: what a window is, how it is shown *)
(* and hidden, and how a close request waits for the operations that business  *)
(* logic objects have marked as running on it (UiWinBizLogicObjContext).       *)
EXTENDS Naturals

NewWindow == [hidden |-> TRUE, pendingClose |-> FALSE, runningAsyncOp |-> FALSE,
              asyncOpCount |-> 0, closing |-> FALSE, shouldClose |-> FALSE]

Hide(w) == [w EXCEPT !.hidden = TRUE]
Show(w) == [w EXCEPT !.hidden = FALSE]

CanCloseNow(w) == ~w.runningAsyncOp

\* The frame carries a class and a title that say the window is finishing its work.
RefreshClosingVisualState(w) == [w EXCEPT !.closing = w.pendingClose /\ ~CanCloseNow(w)]

\* A close request waits for the running operations.
ApplyCloseAtOnce(w) ==
    IF w.pendingClose THEN RefreshClosingVisualState([Hide(w) EXCEPT !.pendingClose = FALSE]) ELSE w
ApplyCloseRequestState(w) ==
    IF w.pendingClose /\ CanCloseNow(w)
    THEN RefreshClosingVisualState([Hide(w) EXCEPT !.pendingClose = FALSE])
    ELSE w

RequestCloseIfIdle(w) ==
    IF CanCloseNow(w)
    THEN ApplyCloseRequestState(RefreshClosingVisualState([w EXCEPT !.pendingClose = TRUE]))
    ELSE w
RequestClose(w) ==
    ApplyCloseRequestState(RefreshClosingVisualState([w EXCEPT !.pendingClose = TRUE]))

RequestCloseFromNativeEvent(w) == RequestClose([w EXCEPT !.shouldClose = FALSE])

\* The new document starts without the closing class.
ReloadDocument(w) == [w EXCEPT !.closing = FALSE]

\* The scope of an asynchronous operation begins and ends.
MarkOneAsyncOpBegin(w) == [w EXCEPT !.asyncOpCount = @ + 1, !.runningAsyncOp = TRUE]
MarkOneAsyncOpFinishOfCopy(w) == [w EXCEPT !.asyncOpCount = @ - 2, !.runningAsyncOp = FALSE]
MarkOneAsyncOpFinish(w) ==
    [w EXCEPT !.asyncOpCount = @ - 1, !.runningAsyncOp = @ /\ w.asyncOpCount > 1]
=============================================================================
