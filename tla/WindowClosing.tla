---------------------------- MODULE WindowClosing ----------------------------
(* What closing a window promises, whoever asks: it never disappears under     *)
(* unfinished work, and a close request is not forgotten before it has         *)
(* disappeared.                                                                *)
CONSTANT Windows

VARIABLES
    shown,      \* the windows on the screen
    working,    \* the windows with unfinished work
    asked       \* the windows asked to close, waiting for their work

vars == <<shown, working, asked>>

Init == shown = {} /\ working = {} /\ asked = {}

\* Work begins on a window that is there, or as it appears.
Begin(w) == w \notin working /\ w \in working' => w \in shown'

\* A window that disappears has no work left; nothing is asked of it any more.
Disappear(w) == w \in shown /\ w \notin shown' => w \notin working /\ w \notin working'

\* A request to close stays until the window has gone.
Remember(w) == w \in asked /\ w \notin asked' => w \notin shown'

\* Several windows may move in one step, each within its promises.
Next ==
    /\ shown' \subseteq Windows /\ working' \subseteq Windows /\ asked' \subseteq Windows
    /\ \A w \in Windows : Begin(w) /\ Disappear(w) /\ Remember(w)

Spec == Init /\ [][Next]_vars
=============================================================================
