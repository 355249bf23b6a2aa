------------------------------- MODULE Scripts -------------------------------
(* The script engine in the program: the JavaScript context and what holds on   *)
(* to it, the hooks and when the program triggers them, the styles of scripts   *)
(* through every way a document's own sheets are replaced, and the objects that *)
(* cross the binding.  One thread runs it all, in this order: the events of a   *)
(* frame, the synchronisation of styles, the update of the windows; a message   *)
(* box opened by an update handles events in a loop of its own.                 *)
EXTENDS JsHook, ScriptStyle, ElementQuickJsBinding

CONSTANTS
    MaxContext,     \* bound on the contexts, the first and one for every hot reload
    MaxId,          \* bound on the identifiers given to hooks in a context
    MaxSheets,      \* bound on the sheets registered in a context
    MaxObjects,     \* bound on the objects of the binding that scripts keep
    OwnVersions     \* what the documents' own sheets on disk can be

ASSUME ScriptsAssumption ==
    MaxContext \in Nat \ {0} /\ MaxId \in Nat /\ {"monitor", "box"} \subseteq Documents

VARIABLES
    context,        \* the JavaScript context, 0 before init()
    registry, styles,
    installed,      \* the context that has the helper for the iterators of a kind
    objects,        \* the objects of the binding that JavaScript holds
    cpp,            \* what has become of the C++ objects
    main,           \* what the thread is in: "host", "script", "trigger", "callback"
    place,          \* where the host is: "startup", "events", "update", "box"
    todo,           \* the triggers and steps the host has yet to do here
    trigger,        \* the trigger being run
    running         \* the entry of the callback being run

\* History, for the properties.
VARIABLES
    loaded,         \* the version of its own sheets each document was given last
    replaced,       \* documents whose container was replaced since they were synchronised
    aliased,        \* documents whose new container is where the one installed last was
    removed,        \* identifiers removed in this context
    reached         \* the twins and copies through which an object was reached that is gone

engine == <<context, registry, installed, objects, cpp>>
control == <<main, place, todo, trigger, running>>
documents == <<styles, loaded, replaced, aliased>>
vars == <<engine, control, documents, removed, reached>>

HostSteps == {"window", "createElement", "removeElement"}
NoTrigger == [rest |-> <<>>, hook |-> "sysStartUp", from |-> 1, last |-> 0]
NoEntry == [id |-> 0, callback |-> 0]
Entries == [id : 0 .. MaxId, callback : 0 .. MaxContext]

\* Every variable has a value of its kind; the entries of the registry have
\* identifiers that were given (js_hook.cxx:14-35).
TypeOK ==
    /\ context \in 0 .. MaxContext
    /\ registry.nextId \in 1 .. MaxId + 1
    /\ \A h \in Hooks : \A e \in ToSet(registry.lists[h]) : e \in Entries /\ e.id < registry.nextId
    /\ ToSet(styles.sheets) \subseteq 0 .. MaxContext /\ styles.live \subseteq Documents
    /\ installed \in [{"sequential", "mappable"} -> 0 .. MaxContext]
    /\ objects \subseteq JSObjects /\ cpp \in [Objects -> Fates]
    /\ main \in {"host", "script", "trigger", "callback"}
    /\ place \in {"startup", "events", "update", "box"}
    /\ todo \in Seq(Hooks \cup HostSteps) /\ running \in Entries
    /\ ToSet(trigger.rest) \subseteq Entries /\ trigger.hook \in Hooks
    /\ loaded \in [Documents -> {0} \cup OwnVersions]
    /\ replaced \subseteq Documents /\ aliased \subseteq Documents
    /\ removed \subseteq 1 .. MaxId /\ reached \subseteq JSObjects

Init ==
    /\ context = 0 /\ registry = EmptyRegistry /\ styles = NoStyles
    /\ installed = [k \in {"sequential", "mappable"} |-> 0]
    /\ objects = {}
    /\ \E owner \in {"unused", "alive"} :
           cpp = [o \in Objects |-> IF o \in Tree("owner") THEN owner ELSE "unused"]
    /\ main = "host" /\ place = "startup" /\ todo = <<>>
    /\ trigger = NoTrigger /\ running = NoEntry
    /\ loaded = [d \in Documents |-> 0] /\ replaced = {} /\ aliased = {}
    /\ removed = {} /\ reached = {}

-----------------------------------------------------------------------------
(* What a script does while it is loaded or called.                          *)

InScript == main \in {"script", "callback"}

AddScriptHook(hook) ==
    /\ InScript /\ registry.nextId <= MaxId
    /\ registry' = AddHook(registry, hook, context)
    /\ UNCHANGED <<context, installed, objects, cpp, control, documents, removed, reached>>

\* (An identifier that was not given is in no list.)
RemoveScriptHook(id) ==
    /\ InScript /\ id < registry.nextId
    /\ registry' = RemoveHook(registry, id)
    /\ removed' = removed \cup {id}
    /\ UNCHANGED <<context, installed, objects, cpp, control, documents, reached>>

AddScriptStyle(parses) ==
    /\ InScript /\ Len(styles.sheets) < MaxSheets
    /\ styles' = Add(styles, context, parses)
    /\ UNCHANGED <<engine, control, loaded, replaced, aliased, removed, reached>>

\* The class of a container type is made in every context, its iterator's helper
\* only in the first.
Kind(type) == IF type \in Sequential THEN "sequential" ELSE "mappable"
Installs(v) == v.js = "object" /\ v.type \in Containers
ConversionThrows(v) == Installs(v) /\ installed[Kind(v.type)] \notin {0, context}

\* The objects behind some of the things held that are not there any more.
Gone(some) == {o \in some : cpp[o.of] # "alive"}

\* A member, element or method result of an object is converted; what is referred to
\* has to be there, or the index is out of range.  A copy takes a place nothing refers
\* to.  What the remains of a gone object would yield is not followed.
Refers(v) == v.form = "reference" \/ v.type \in Views
ReadMember(o, v) ==
    LET r == Cpp2JSAuto(v, Inherited(o)) IN
    /\ InScript /\ o \in objects /\ LifetimeValid(cpp, o.info)
    /\ v \in Members(o.type, o.of) /\ (Refers(v) => cpp[v.of] = "alive")
    /\ reached' = reached \cup Gone({o})
    /\ IF r.js # "object" \/ ConversionThrows(r) \/ Gone({o}) # {}
       THEN UNCHANGED <<objects, cpp, installed>>
       ELSE /\ objects' = objects \cup {r}
            /\ Cardinality(objects') <= MaxObjects
            /\ r.makingMethod = "transplanted" => Unreferenced(objects, r.of)
            /\ cpp' = IF r.makingMethod = "transplanted" THEN Create(cpp, r.of) ELSE cpp
            /\ installed' = IF Installs(r) THEN [installed EXCEPT ![Kind(r.type)] = context]
                            ELSE installed
    /\ UNCHANGED <<context, registry, control, documents, removed>>

\* An object of the binding is written to a member, or passed to a method, of another.
WriteMember(o, v) ==
    /\ InScript /\ o \in objects /\ LifetimeValid(cpp, o.info)
    /\ v \in objects /\ Js2CppAs(cpp, v.type, v)
    /\ reached' = reached \cup Gone({o, v})
    /\ UNCHANGED <<engine, control, documents, removed>>

\* A script lets go of an object: the copy JavaScript owns dies with it.
Drop(o) ==
    /\ InScript /\ o \in objects
    /\ objects' = objects \ {o}
    /\ cpp' = FreeAll(cpp, {o})
    /\ UNCHANGED <<context, registry, installed, control, documents, removed, reached>>

\* The script or the callback ends.  It may keep the copy of a danmaku, one at a time,
\* but not the twin of an element.
Return ==
    /\ InScript
    /\ \E freed \in (SUBSET Infos) \ {{}} :
           LET ended == {o \in objects : o.of \in freed \cup {"element"}} IN
           objects' = objects \ ended /\ cpp' = FreeAll(cpp, ended)
    /\ main' = IF main = "script" THEN "host" ELSE "trigger"
    /\ running' = NoEntry
    /\ UNCHANGED <<context, registry, installed, place, todo, trigger, documents, removed, reached>>

-----------------------------------------------------------------------------
(* Triggers.                                                                 *)

StartTrigger ==
    /\ main = "host" /\ todo # <<>> /\ Head(todo) \in Hooks
    /\ main' = "trigger" /\ todo' = Tail(todo)
    /\ trigger' = [rest |-> Snapshot(registry, Head(todo)), hook |-> Head(todo),
                   from |-> registry.nextId, last |-> 0]
    /\ UNCHANGED <<engine, place, running, documents, removed, reached>>

\* Danmakus are passed as a copy, elements as a twin.
Arguments(hook, at) ==
    CASE hook = "onReceivedDanmaku" -> {MakeBridgeArg("value", "DanmakuInfo", at)}
      [] hook \in {"postShowedDanmaku", "onDanmakuDrop"} ->
             {MakeBridgeArg("value", "DanmakuInfo", at),
              MakeBridgeArg("reference", "Element", "element")}
      [] OTHER -> {}

\* The next callback of the copy is called, unless it has been removed.
CallNext ==
    LET e == Head(trigger.rest)
        at == CHOOSE x \in Infos : Unreferenced(objects, x)
        arguments == Arguments(trigger.hook, at)
    IN  /\ main = "trigger" /\ trigger.rest # <<>>
        /\ IF StillRegistered(registry, trigger.hook, e.id)
           THEN /\ main' = "callback" /\ running' = e
                /\ trigger' = [trigger EXCEPT !.rest = Tail(@), !.last = e.id]
                /\ objects' = objects \cup arguments
                /\ cpp' = IF Owned(arguments) = {} THEN cpp ELSE Create(cpp, at)
           ELSE /\ trigger' = [trigger EXCEPT !.rest = Tail(@)]
                /\ UNCHANGED <<main, running, objects, cpp>>
        /\ UNCHANGED <<context, registry, installed, place, todo, documents, removed, reached>>

EndTrigger ==
    /\ main = "trigger" /\ trigger.rest = <<>>
    /\ main' = "host" /\ trigger' = NoTrigger
    /\ UNCHANGED <<engine, place, todo, running, documents, removed, reached>>

-----------------------------------------------------------------------------
(* The program around the engine.                                            *)

Idle == main = "host" /\ todo = <<>>
Do(steps) == todo' = steps /\ UNCHANGED <<trigger, running>>

\* init() and loadScripts(); then the hooks of the start and the first window.
Startup ==
    /\ Idle /\ place = "startup"
    /\ context' = 1 /\ main' = "script" /\ place' = "events"
    /\ Do(<<"sysStartUp", "window", "postLogin">>)
    /\ UNCHANGED <<registry, installed, objects, cpp, documents, removed, reached>>

\* A document gets sheets of its own anew, in whatever version they are.
LoadDocument(d, record) ==
    \E own \in OwnVersions, at \in Addresses([styles EXCEPT !.records[d] = record], d) :
        /\ styles' = Load(styles, d, own, record, at)
        /\ loaded' = [loaded EXCEPT ![d] = own]
        /\ replaced' = replaced \cup {d}
        /\ aliased' = IF at = record.expected THEN aliased \cup {d} ELSE aliased \ {d}

HostStep ==
    /\ main = "host" /\ todo # <<>> /\ Head(todo) \in HostSteps
    /\ Do(Tail(todo))
    /\ IF Head(todo) = "window"
       THEN LoadDocument("monitor", NoRecord) /\ UNCHANGED cpp
       ELSE /\ cpp' = IF Head(todo) = "createElement" THEN Create(cpp, "element")
                      ELSE Kill(cpp, "element")
            /\ UNCHANGED documents
    /\ UNCHANGED <<context, registry, installed, objects, main, place, removed, reached>>

\* Keys go to the window in front.
Focus == IF place = "box" THEN "box" ELSE "monitor"
Keys == Idle /\ place \in {"events", "box"} /\ Focus \in styles.live

\* F5: everything that holds a value of the old context goes before it does; the
\* scripts are evaluated again and told what has happened already.
HotReload ==
    LET cleared == ClearStyles(styles) IN
    /\ Keys /\ context < MaxContext
    /\ registry' = Clear(registry) /\ removed' = {}
    /\ styles' = cleared /\ replaced' = IF cleared = styles THEN replaced ELSE {}
    /\ objects' = {} /\ cpp' = FreeAll(cpp, objects)
    /\ context' = context + 1
    /\ main' = "script" /\ Do(<<"sysStartUp", "postLogin">>)
    /\ UNCHANGED <<installed, place, loaded, aliased, reached>>

\* F6: the document's sheets are read again.
ReloadStyles ==
    /\ Keys
    /\ \E own \in OwnVersions, at \in Addresses(styles, Focus) :
           /\ styles' = Replace(styles, Focus, own, at)
           /\ loaded' = [loaded EXCEPT ![Focus] = own]
           /\ aliased' = IF at = styles.records[Focus].expected THEN aliased \cup {Focus}
                         ELSE aliased \ {Focus}
    /\ replaced' = replaced \cup {Focus}
    /\ Do(<<"postHotreloadStyle">>)
    /\ UNCHANGED <<engine, main, place, removed, reached>>

\* Ctrl+R: a new document; the main window makes its danmakus again in it.
Reload ==
    LET danmakus == IF cpp["element"] = "alive"
                    THEN <<"removeElement", "onReceivedDanmaku", "createElement">> ELSE <<>>
    IN  /\ Keys /\ LoadDocument(Focus, NoRecord)
        /\ Do(IF Focus = "box" THEN <<>>
              ELSE <<"postHotreloadStyle">> \o danmakus \o <<"postHotreloadFull">>)
        /\ UNCHANGED <<engine, main, place, removed, reached>>

\* The events of a frame are over: styles are synchronised, then windows updated.
Frame ==
    /\ Idle /\ place = "events"
    /\ place' = "update"
    /\ styles' = SyncAll(styles) /\ replaced' = {}
    /\ UNCHANGED <<engine, main, todo, trigger, running, loaded, aliased, removed, reached>>

EndFrame ==
    /\ Idle /\ place = "update" /\ place' = "events"
    /\ UNCHANGED <<engine, main, todo, trigger, running, documents, removed, reached>>

\* A danmaku arrives; when the list is full the oldest one goes.
ReceiveDanmaku ==
    /\ Idle /\ place = "update"
    /\ Do(<<"onReceivedDanmaku">>
              \o (IF cpp["element"] = "alive" THEN <<"onDanmakuDrop", "removeElement">> ELSE <<>>)
              \o <<"createElement">>)
    /\ UNCHANGED <<engine, main, place, documents, removed, reached>>

\* The element of a danmaku appears.
ShowDanmaku ==
    /\ Idle /\ place = "update" /\ cpp["element"] = "alive"
    /\ Do(<<"postShowedDanmaku">>)
    /\ UNCHANGED <<engine, main, place, documents, removed, reached>>

\* A box opened when another has just closed may be given its document's address.
OpenBox ==
    /\ Idle /\ place = "update" /\ place' = "box"
    /\ \E record \in {NoRecord, styles.records["box"]} : LoadDocument("box", record)
    /\ UNCHANGED <<engine, main, todo, trigger, running, removed, reached>>

CloseBox ==
    /\ Idle /\ place = "box" /\ place' = "update"
    /\ styles' = Unload(styles, "box")
    /\ loaded' = [loaded EXCEPT !["box"] = 0]
    /\ replaced' = replaced \ {"box"} /\ aliased' = aliased \ {"box"}
    /\ UNCHANGED <<engine, main, todo, trigger, running, removed, reached>>

\* The host evaluates a piece of code.
Eval ==
    /\ Idle /\ place = "events" /\ main' = "script"
    /\ UNCHANGED <<engine, place, todo, trigger, running, documents, removed, reached>>

\* A C++ object with a lifetime is handed to scripts as the result of a global
\* function, moved, and destroyed.  A container it holds cannot be handed over alone.
GiveOwner ==
    /\ Idle /\ place = "events" /\ cpp["owner"] = "alive"
    /\ \E v \in {Reference("TestStruct", "owner"), Reference("Items", "items"),
                 Value("Span", "item")} :
           LET r == Cpp2JSAuto(v, NoInfo) IN
           objects' = IF r.js = "object" THEN objects \cup {r} ELSE objects
    /\ main' = "script"
    /\ UNCHANGED <<context, registry, installed, cpp, place, todo, trigger, running,
                   documents, removed, reached>>

\* Its members move with it, but what they store stays where it is.
MoveOwner ==
    /\ Idle /\ place = "events" /\ cpp["owner"] = "alive"
    /\ cpp' = [o \in Objects |-> IF o \in Tree("owner") \ Stored THEN "moved" ELSE cpp[o]]
    /\ UNCHANGED <<context, registry, installed, objects, control, documents, removed, reached>>

DestroyOwner ==
    /\ Idle /\ place = "events" /\ cpp["owner"] \in {"alive", "moved"}
    /\ cpp' = Kill(cpp, "owner")
    /\ UNCHANGED <<context, registry, installed, objects, control, documents, removed, reached>>

\* C++ empties the vector or the map of the owner, in a method a script calls too.
ChangeOwner ==
    /\ InScript \/ (Idle /\ place = "events")
    /\ cpp["owner"] = "alive"
    /\ \E lost \in {{"item", "plain"}, {"entry"}} :
           cpp' = [o \in Objects |-> IF o \in lost THEN "dead" ELSE cpp[o]]
    /\ UNCHANGED <<context, registry, installed, objects, control, documents, removed, reached>>

Next ==
    \/ \E hook \in Hooks : AddScriptHook(hook)
    \/ \E id \in 1 .. MaxId : RemoveScriptHook(id)
    \/ \E parses \in BOOLEAN : AddScriptStyle(parses)
    \/ \E o \in objects : \E v \in Members(o.type, o.of) : ReadMember(o, v)
    \/ \E o, v \in objects : WriteMember(o, v)
    \/ \E o \in objects : Drop(o)
    \/ Return
    \/ StartTrigger \/ CallNext \/ EndTrigger
    \/ Startup \/ HostStep \/ HotReload \/ ReloadStyles \/ Reload
    \/ Frame \/ EndFrame \/ ReceiveDanmaku \/ ShowDanmaku \/ OpenBox \/ CloseBox
    \/ Eval \/ GiveOwner \/ MoveOwner \/ DestroyOwner \/ ChangeOwner

Spec == Init /\ [][Next]_vars

-----------------------------------------------------------------------------
(* Properties.                                                               *)

\* The documents are shown their own sheets, as they were read last, under one layer
\* of the scripts', compiled from every sheet registered.
Layered(documentsAtRest) ==
    /\ ~styles.dirty => styles.container.scripts = styles.sheets
    /\ \A d \in documentsAtRest :
           /\ styles.shown[d].own = loaded[d]
           /\ styles.shown[d].scripts = styles.container.scripts

\* However often a document's container is replaced, one layer of the scripts' styles
\* is on it once it has been synchronised (script_style.hxx:18-19,
\* nanolivelens.d.ts:218-220).  The code does not keep this: containers are told apart
\* by address alone (script_style.cxx:83), and a second replacement within a frame
\* may be made where the container installed last was.
LayeredOnce == Layered(styles.live \ replaced)

\* What does hold of it: whichever scripts are loaded and however often documents are
\* replaced, one layer is on every synchronised document whose new container is not
\* where the one installed last was (script_style.cxx:79-111).
LayeredUnlessAliased == Layered(styles.live \ (replaced \cup aliased))

\* A trigger calls callbacks in the order of their registration, each once, only
\* those registered before it began, of the context there is now, and none that
\* has been removed, by a callback of the same trigger included
\* (js_hook.cxx:49-67, js_engine.cxx:77-90).
CalledInTurn ==
    [][main # "callback" /\ main' = "callback" =>
           /\ running'.id \notin removed /\ running'.callback = context
           /\ running'.id < trigger.from /\ running'.id > trigger.last]_vars

\* Through a twin, a view or a copy no script reaches an object with a lifetime that is
\* moved away or dead, nor a member of one, nor a copy that JavaScript owns or what is
\* read from it, in whatever order they were obtained, kept and let go of
\* (binding.cxx:144-154, 417-424, 878-998, 1262-1267, 1339-1345).  The code leaves two
\* ways open: an element of a type without lifetime is tied to nothing
\* (binding.cxx:461), and what a living owner takes out of its vector or map is not
\* missed by a view or twin that is tied to the owner in place of it
\* (binding.cxx:985-992).  An element of the document is reached in its callback only.
Untied(o) == o.type = "DanmakuInfo" /\ o.makingMethod = "twined"
TiedToOwner(o) == o.of \in Stored /\ o.info = "owner"
LiveObjectsReached == \A o \in reached : Untied(o) \/ TiedToOwner(o)
=============================================================================
