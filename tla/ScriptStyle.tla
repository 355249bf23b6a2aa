---------------------------- MODULE ScriptStyle ----------------------------
(* ScriptStyle as operators on a record: the sheets scripts have registered,    *)
(* the container compiled from them, and what is remembered of each document to *)
(* put its own sheets and the scripts' together again after either has changed. *)
(* Containers are recognised by their address; one that nobody holds any more   *)
(* may be given to a new container.                                             *)
EXTENDS Naturals, Sequences, SequencesExt, FiniteSetsExt

CONSTANT Documents      \* the documents of the program
ASSUME DocumentsAssumption == IsFiniteSet(Documents)

\* A container: its address, the version of the document's own sheets in it, and
\* the sheets of scripts, in the order in which they win.
None == [at |-> 0, own |-> 0, scripts |-> <<>>]
NoRecord == [base |-> None, expected |-> 0, scriptUsed |-> 0]

NoStyles == [sheets |-> <<>>, dirty |-> TRUE, container |-> None, live |-> {},
             shown |-> [d \in Documents |-> None], records |-> [d \in Documents |-> NoRecord]]

Held(s) == {s.shown[d].at : d \in s.live} \cup {s.records[d].base.at : d \in Documents}
               \cup {s.container.at}
Remembered(s) == {s.records[d].expected : d \in Documents}
                     \cup {s.records[d].scriptUsed : d \in Documents}
NewAddress(s) ==
    CHOOSE a \in 1 .. 5 * (Cardinality(Documents) + 1) :
        a \notin Held(s) \cup Remembered(s)

CloneOf(s, c) == [c EXCEPT !.at = NewAddress(s)]
Combine(s, base) ==
    [at |-> NewAddress(s), own |-> base.own, scripts |-> base.scripts \o s.container.scripts]

BuildScriptContainer(s) ==
    IF s.sheets = <<>> THEN None
    ELSE [at |-> NewAddress(s), own |-> 0, scripts |-> s.sheets]

-----------------------------------------------------------------------------
\* A container that is not the one installed last has the document's own sheets
\* and nothing else: it becomes the base.
RebaseAlways(s, d) ==
    [s EXCEPT !.records[d] = [base |-> CloneOf(s, s.shown[d]), expected |-> s.shown[d].at,
                              scriptUsed |-> 0]]
Rebase(s, d) ==
    IF s.shown[d].at = s.records[d].expected THEN s
    ELSE [s EXCEPT !.records[d] = [base |-> CloneOf(s, s.shown[d]), expected |-> s.shown[d].at,
                                   scriptUsed |-> 0]]

Install(s, d) ==
    LET base == s.records[d].base
        next == IF s.container = None THEN base ELSE Combine(s, base)
    IN  [s EXCEPT !.shown[d] = next,
                  !.records[d] = [base |-> base, expected |-> next.at, scriptUsed |-> s.container.at]]

Reconcile(d, s) ==
    LET based == Rebase(s, d) IN
    IF based.records[d].scriptUsed = s.container.at THEN based ELSE Install(based, d)

\* Records of documents that are gone are dropped; the others are reconciled.
SyncAll(s) ==
    LET built == IF s.dirty THEN [s EXCEPT !.container = BuildScriptContainer(s), !.dirty = FALSE]
                 ELSE s
        kept == [built EXCEPT !.records =
                     [d \in Documents |-> IF d \in s.live THEN @[d] ELSE NoRecord]]
    IN  FoldSet(Reconcile, kept, s.live)

\* A sheet that does not parse is refused.
Add(s, sheet, parses) ==
    IF parses THEN [s EXCEPT !.sheets = Append(@, sheet), !.dirty = TRUE] ELSE s

ClearStyles(s) ==
    IF s.sheets = <<>> /\ s.container = None THEN s
    ELSE SyncAll([s EXCEPT !.sheets = <<>>, !.dirty = TRUE])

-----------------------------------------------------------------------------
(* What happens to documents elsewhere.  Their own sheets are read again, in    *)
(* whatever version they are, into a container that may be where one was that   *)
(* the record still remembers.                                                  *)

Addresses(s, d) == {NewAddress(s)} \cup ({s.records[d].expected} \ (Held(s) \cup {0}))

Replace(s, d, own, at) ==
    [s EXCEPT !.shown[d] = [at |-> at, own |-> own, scripts |-> <<>>]]

\* A new document, at an address nothing is remembered of, or at one that still has
\* the record of the document that was there.
Load(s, d, own, record, at) ==
    [Replace(s, d, own, at) EXCEPT !.live = @ \cup {d}, !.records[d] = record]
Unload(s, d) == [s EXCEPT !.live = @ \ {d}, !.shown[d] = None]
=============================================================================
