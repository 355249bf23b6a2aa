------------------------------ MODULE MCScripts ------------------------------
(* Instances of Scripts: hooks, styles and objects are explored each on their   *)
(* own, since nothing of one is read by an action of another; documents are     *)
(* replaced by other versions and at other addresses where styles are.  A copy  *)
(* is kept by a script with one hook, in its first context.  Steps after a gone *)
(* object was reached are left out: they are taken without it as well.          *)
EXTENDS Scripts

Plain == styles'.sheets = <<>> /\ aliased' = {} /\ ~\E d \in Documents : loaded'[d] = 2
Keeps == main' # "callback" /\ objects' # {}

HooksOnly == Plain /\ (Keeps => context' = 1 /\ registry'.nextId = 2)
ObjectsOnly == Plain /\ registry'.nextId = 1 /\ place' = "events"
StylesOnly == registry'.nextId = 1

MCNext ==
    /\ Next /\ reached = {}
    /\ IF cpp["owner"] # "unused" THEN ObjectsOnly ELSE HooksOnly \/ StylesOnly

MCSpec == Init /\ [][MCNext]_vars
=============================================================================
