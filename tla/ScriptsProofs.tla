---------------------------- MODULE ScriptsProofs ----------------------------
(* Proofs, for any number of contexts, hooks, documents and reloads, that what  *)
(* scripts reach of the objects of the binding lives but for the ways the code  *)
(* leaves open, that hooks are called in turn, and that every document shows    *)
(* the scripts' sheets once over its own unless its container is taken for the  *)
(* one installed last.                                                          *)
EXTENDS Scripts, ScriptStyleProofs

-----------------------------------------------------------------------------
(* The inductive invariant, in parts.                                           *)

\* The objects of the binding a script can hold: what each refers to, and the
\* lifetime it is tied to.
TiedFirmly == {Twin(Reference("TestStruct", "owner"), "owner"),
               Twin(Reference("CannotMove", "inner"), "owner"),
               Twin(Reference("Items", "items"), "owner"),
               Twin(Reference("Table", "table"), "owner"),
               Twin(Reference("TestStruct2", "item"), "item"),
               Twin(Reference("TestStruct2", "vectorItem"), "vectorItem"),
               Transplant(Value("TestStruct2", "copy"), "copy")}
HeldAlive == {Transplant(Value("Items", "vector"), NoInfo),
              Transplant(Value("DanmakuInfo", "info1"), NoInfo),
              Transplant(Value("DanmakuInfo", "info2"), NoInfo),
              Twin(Reference("Element", "element"), NoInfo)}
TiedLoosely == {Twin(Value("Span", "item"), "owner"), Twin(Reference("TestStruct2", "item"), "owner"),
                Twin(Reference("TestStruct2", "entry"), "owner"),
                Twin(Reference("DanmakuInfo", "plain"), NoInfo),
                Twin(Reference("DanmakuInfo", "vectorPlain"), NoInfo)}
Tied == TiedFirmly \cup HeldAlive \cup TiedLoosely

\* The members of a living owner live, and so does what is held without a lifetime.
TiedToLiving ==
    /\ objects \subseteq Tied
    /\ cpp \in [Objects -> Fates]
    /\ cpp["owner"] = "alive" =>
           cpp["inner"] = "alive" /\ cpp["items"] = "alive" /\ cpp["table"] = "alive"
    /\ \A o \in objects \cap HeldAlive : cpp[o.of] = "alive"

\* The arguments of a hook exist only while its callbacks run, and the triggers
\* that pass an element come before its removal.
ElementHooks == {"postShowedDanmaku", "onDanmakuDrop"}
PassesLiving(steps, alive) ==
    \A i \in 1 .. Len(steps) : steps[i] \in ElementHooks =>
        alive /\ \A j \in 1 .. i - 1 : steps[j] # "removeElement"
ArgumentsLive ==
    /\ todo \in Seq(Hooks \cup HostSteps)
    /\ main \in {"host", "script", "trigger", "callback"} /\ "hook" \in DOMAIN trigger
    /\ main # "callback" =>
           (\A o \in objects : o.of # "element") /\ \E x \in Infos : Unreferenced(objects, x)
    /\ main \in {"trigger", "callback"} /\ trigger.hook \in ElementHooks => cpp["element"] = "alive"
    /\ PassesLiving(todo, cpp["element"] = "alive")

ScriptInv == TiedToLiving /\ ArgumentsLive /\ LiveObjectsReached

-----------------------------------------------------------------------------
(* The binding.                                                                 *)

\* Whatever is read from an object is data, an exception, or tied as well.
LEMMA MembersTied ==
    ASSUME NEW o \in Tied, NEW v \in Members(o.type, o.of),
           Cpp2JSAuto(v, Inherited(o)).js = "object"
    PROVE  /\ Cpp2JSAuto(v, Inherited(o)) \in Tied
           /\ Cpp2JSAuto(v, Inherited(o)).of \notin Infos \cup {"element", "owner"}
           /\ Cpp2JSAuto(v, Inherited(o)).makingMethod = "transplanted"
                  => Cpp2JSAuto(v, Inherited(o)).of \in {"copy", "vector"}
           /\ Cpp2JSAuto(v, Inherited(o)) \in HeldAlive
                  => Cpp2JSAuto(v, Inherited(o)) = Transplant(Value("Items", "vector"), NoInfo)
<1> USE DEF Tied, TiedFirmly, TiedLoosely, HeldAlive, Twin, Transplant, Reference, Value, Data, NoInfo,
       Primitive, Exception, Sequential, Containers, Mappable, Registered, Views, Aware, Moveable,
       Infos
<1>1. CASE o.type = "TestStruct"
  <2>1. Inherited(o) = "owner"
    BY <1>1 DEF Inherited
  <2>2. v \in {Reference("CannotMove", "inner"), Reference("Items", "items"),
               Reference("TestStruct2", "item"), Value("Span", "item"),
               Reference("Table", "table"), Value("TestStruct2", "copy"),
               Value("Items", "vector"), Value("CannotMove", "copy"), Data("string")}
    BY <1>1 DEF Members
  <2> QED
    BY <2>1, <2>2 DEF Cpp2JSAuto, Cpp2JSContainer, Cpp2JSTransplant, ShareLifetimeInfo, Translation
<1>2. CASE o.type \in Sequential
  <2>1. Inherited(o) = NoInfo
    BY <1>2 DEF Inherited
  <2>2. v \in {Reference("TestStruct2", "item"), Reference("DanmakuInfo", "plain"),
               Reference("TestStruct2", "vectorItem"), Reference("DanmakuInfo", "vectorPlain"),
               Data("number")}
    BY <1>2 DEF Members
  <2> QED
    BY <2>1, <2>2 DEF Cpp2JSAuto, Cpp2JSTwin, ShareLifetimeInfo, Translation
<1>3. CASE o.type = "Table"
  <2>1. Inherited(o) = "owner"
    BY <1>3 DEF Inherited
  <2>2. v \in {Reference("TestStruct2", "entry"), Data("string")}
    BY <1>3 DEF Members
  <2> QED
    BY <2>1, <2>2 DEF Cpp2JSAuto, Translation
<1>4. CASE o.type = "DanmakuInfo"
  BY <1>4 DEF Members, Cpp2JSAuto, Translation
<1>5. CASE o.type \in {"TestStruct2", "CannotMove", "Element"}
  BY <1>5 DEF Members, Cpp2JSAuto, Translation
<1> QED
  BY <1>1, <1>2, <1>3, <1>4, <1>5

-----------------------------------------------------------------------------
(* The fate of objects.                                                         *)

\* The objects with their parts.
LEMMA Trees ==
    /\ Tree("owner") = {"owner", "inner", "items", "item", "plain", "table", "entry"}
    /\ Tree("vector") = {"vector", "vectorItem", "vectorPlain"}
    /\ \A o \in {"copy", "element"} \cup Infos : Tree(o) = {o}
BY DEF Tree, Parts, Infos

\* Nothing else refers to where a copy of a danmaku can be.
LEMMA FreePlace ==
    ASSUME NEW os \in SUBSET Tied, NEW x \in Infos
    PROVE  Unreferenced(os, x) <=> \A o \in os : o.of # x
<1>1. Tree(x) = {x}
  BY Trees
<1>2. \A o \in os : o.info # x
  BY DEF Tied, TiedFirmly, TiedLoosely, HeldAlive, Twin, Transplant, Reference, Value, NoInfo, Infos
<1> QED
  BY <1>1, <1>2 DEF Unreferenced

\* What JavaScript owns of what it holds.
LEMMA OwnedAre ==
    ASSUME NEW os \in SUBSET Tied
    PROVE  /\ Owned(os) \subseteq {"copy", "vector"} \cup Infos
           /\ \A o \in HeldAlive : o.of \in Owned(os) => o \in os
BY DEF Owned, Tied, TiedFirmly, TiedLoosely, HeldAlive, Twin, Transplant, Reference, Value, Infos

\* The copies of JavaScript that are freed take nothing along that another object
\* refers to without a lifetime, nor what C++ owns.
OwnedByCpp == {"owner", "inner", "items", "table", "element"}
LEMMA FreedAlone ==
    ASSUME TiedToLiving, NEW os \in SUBSET objects
    PROVE  /\ FreeAll(cpp, os) \in [Objects -> Fates]
           /\ \A x \in OwnedByCpp : FreeAll(cpp, os)[x] = cpp[x]
           /\ \A o \in (objects \ os) \cap HeldAlive : FreeAll(cpp, os)[o.of] = cpp[o.of]
<1>1. /\ Owned(os) \subseteq {"copy", "vector"} \cup Infos
      /\ \A o \in HeldAlive : o.of \in Owned(os) => o \in os
  BY OwnedAre DEF TiedToLiving
<1>2. \A x \in Objects :
          /\ FreeAll(cpp, os)[x] \in Fates
          /\ x \notin Owned(os) \cup {"vectorItem", "vectorPlain"} => FreeAll(cpp, os)[x] = cpp[x]
  <2> TAKE x \in Objects
  <2>1. FreeAll(cpp, os)[x] = IF \E t \in Owned(os) : x \in Tree(t) THEN "dead" ELSE cpp[x]
    BY DEF FreeAll, Owned
  <2>2. ASSUME NEW t \in {"copy", "vector"} \cup Infos, x \in Tree(t)
        PROVE  x = t \/ x \in {"vectorItem", "vectorPlain"}
    BY <2>2, Trees
  <2> QED
    BY <1>1, <2>1, <2>2 DEF TiedToLiving, Fates
<1>3. FreeAll(cpp, os) \in [Objects -> Fates]
  BY <1>2 DEF FreeAll
<1>4. \A x \in OwnedByCpp : x \in Objects /\ x \notin Owned(os) \cup {"vectorItem", "vectorPlain"}
  BY <1>1 DEF Objects, Infos, OwnedByCpp
<1>5. \A o \in HeldAlive : o.of \in Objects /\ o.of \notin {"vectorItem", "vectorPlain"}
  BY DEF HeldAlive, Twin, Transplant, Reference, Value, Objects, Infos
<1> QED
  BY <1>1, <1>2, <1>3, <1>4, <1>5

\* Every object is there while the lifetime it is tied to is valid, but for what is
\* tied to none or to an owner that it can leave.
LEMMA ValidIsAlive ==
    ASSUME TiedToLiving, NEW o \in objects, LifetimeValid(cpp, o.info)
    PROVE  cpp[o.of] = "alive" \/ Untied(o) \/ TiedToOwner(o)
<1>1. CASE o \in TiedFirmly
  BY <1>1 DEF TiedToLiving, LifetimeValid, TiedFirmly, Twin, Transplant, Reference, Value, NoInfo
<1>2. CASE o \in HeldAlive
  BY <1>2 DEF TiedToLiving
<1>3. CASE o \in TiedLoosely
  BY <1>3 DEF TiedLoosely, Twin, Reference, Value, Untied, TiedToOwner, Stored
<1> QED
  BY <1>1, <1>2, <1>3 DEF TiedToLiving, Tied

-----------------------------------------------------------------------------
(* What scripts do.                                                             *)

\* Steps that leave the objects and the host's work alone.
LEMMA UntouchedKeep ==
    ASSUME ScriptInv, UNCHANGED <<objects, cpp, todo, main, trigger>>, LiveObjectsReached'
    PROVE  ScriptInv'
BY DEF ScriptInv, TiedToLiving, ArgumentsLive, PassesLiving

\* What was gone when it was reached is one of the exceptions.
LEMMA GoneIsExcepted ==
    ASSUME TiedToLiving, LiveObjectsReached, NEW os \in SUBSET objects,
           \A o \in os : LifetimeValid(cpp, o.info), reached' = reached \cup Gone(os)
    PROVE  LiveObjectsReached'
BY ValidIsAlive DEF LiveObjectsReached, Gone, Untied, TiedToOwner

\* A member, an element or a result is converted.
LEMMA ReadKeeps ==
    ASSUME ScriptInv, NEW o \in objects, NEW v \in Members(o.type, o.of), ReadMember(o, v)
    PROVE  ScriptInv'
<1> DEFINE r == Cpp2JSAuto(v, Inherited(o))
<1>1. LiveObjectsReached'
  <2>1. {o} \in SUBSET objects /\ \A x \in {o} : LifetimeValid(cpp, x.info)
    BY DEF ReadMember
  <2>2. reached' = reached \cup Gone({o})
    BY DEF ReadMember
  <2> QED
    BY <2>1, <2>2, GoneIsExcepted DEF ScriptInv
<1>2. UNCHANGED <<main, todo, trigger>>
  BY DEF ReadMember, control
<1>3. CASE UNCHANGED <<objects, cpp>>
  BY <1>1, <1>2, <1>3, UntouchedKeep
<1>4. CASE ~UNCHANGED <<objects, cpp>>
  <2>1. /\ r.js = "object" /\ objects' = objects \cup {r}
        /\ cpp' = IF r.makingMethod = "transplanted" THEN Create(cpp, r.of) ELSE cpp
    BY <1>4 DEF ReadMember
  <2>2. o \in Tied
    BY DEF ScriptInv, TiedToLiving
  <2>3. /\ r \in Tied /\ r.of \notin Infos \cup {"element", "owner"}
        /\ r.makingMethod = "transplanted" => r.of \in {"copy", "vector"}
        /\ r \in HeldAlive => r = Transplant(Value("Items", "vector"), NoInfo)
    BY <2>1, <2>2, MembersTied
  <2> HIDE DEF r
  <2>4. /\ cpp' \in [Objects -> Fates]
        /\ \A x \in Objects : cpp[x] = "alive" => cpp'[x] = "alive"
        /\ \A x \in OwnedByCpp : cpp'[x] = cpp[x]
    BY <2>1, <2>3, Trees DEF Create, Fates, Objects, OwnedByCpp, ScriptInv, TiedToLiving
  <2>5. r \in HeldAlive => r.of = "vector" /\ cpp'["vector"] = "alive"
    BY <2>1, <2>3, Trees DEF Create, Objects, Transplant, Value
  <2>6. \A p \in HeldAlive : p.of \in Objects
    BY DEF HeldAlive, Twin, Transplant, Reference, Value, Objects, Infos
  <2>7. TiedToLiving'
    BY <2>1, <2>3, <2>4, <2>5, <2>6 DEF ScriptInv, TiedToLiving, OwnedByCpp
  <2>8. ASSUME NEW x \in Infos, Unreferenced(objects, x) PROVE Unreferenced(objects', x)
    <3>1. objects \in SUBSET Tied /\ objects' \in SUBSET Tied
      BY <2>7 DEF ScriptInv, TiedToLiving
    <3>2. \A p \in objects' : p.of # x
      BY <2>1, <2>3, <2>8, <3>1, FreePlace
    <3> QED
      BY <3>1, <3>2, FreePlace
  <2>9. ArgumentsLive'
    BY <1>2, <2>1, <2>3, <2>4, <2>8 DEF ScriptInv, ArgumentsLive, PassesLiving, OwnedByCpp
  <2> QED
    BY <1>1, <2>7, <2>9 DEF ScriptInv
<1> QED
  BY <1>3, <1>4

\* An object is written to another.
LEMMA WriteKeeps ==
    ASSUME ScriptInv, NEW o \in objects, NEW v \in objects, WriteMember(o, v)
    PROVE  ScriptInv'
<1>1. LifetimeValid(cpp, v.info)
  BY DEF WriteMember, Js2CppAs, ScriptInv, TiedToLiving, Tied, TiedFirmly, TiedLoosely, HeldAlive, Twin,
         Transplant, Reference, Value
<1>2. {o, v} \in SUBSET objects /\ \A x \in {o, v} : LifetimeValid(cpp, x.info)
  BY <1>1 DEF WriteMember
<1>3. reached' = reached \cup Gone({o, v}) /\ UNCHANGED <<objects, cpp, todo, main, trigger>>
  BY DEF WriteMember, engine, control
<1>4. LiveObjectsReached'
  BY <1>2, <1>3, GoneIsExcepted DEF ScriptInv
<1> QED
  BY <1>3, <1>4, UntouchedKeep

\* A script lets go of an object.
LEMMA DropKeeps ==
    ASSUME ScriptInv, NEW o \in objects, Drop(o)
    PROVE  ScriptInv'
<1>1. /\ cpp' \in [Objects -> Fates]
      /\ \A x \in OwnedByCpp : cpp'[x] = cpp[x]
      /\ \A p \in (objects \ {o}) \cap HeldAlive : cpp'[p.of] = cpp[p.of]
  BY FreedAlone DEF Drop, ScriptInv
<1>2. objects' = objects \ {o} /\ UNCHANGED <<todo, main, trigger, reached>>
  BY DEF Drop, control
<1>3. TiedToLiving'
  BY <1>1, <1>2 DEF ScriptInv, TiedToLiving, OwnedByCpp
<1>4. ArgumentsLive'
  BY <1>1, <1>2 DEF ScriptInv, ArgumentsLive, PassesLiving, OwnedByCpp, Unreferenced
<1> QED
  BY <1>2, <1>3, <1>4 DEF ScriptInv, LiveObjectsReached

\* The arguments of a callback go with it, but for the copy that the script keeps.
LEMMA ReturnKeeps == ASSUME ScriptInv, Return PROVE ScriptInv'
<1>1. PICK freed \in (SUBSET Infos) \ {{}} :
          LET ended == {o \in objects : o.of \in freed \cup {"element"}} IN
          objects' = objects \ ended /\ cpp' = FreeAll(cpp, ended)
  BY DEF Return
<1> DEFINE ended == {o \in objects : o.of \in freed \cup {"element"}}
<1>2. /\ objects' = objects \ ended /\ cpp' = FreeAll(cpp, ended)
      /\ UNCHANGED <<todo, trigger, reached>>
      /\ main' = IF main = "script" THEN "host" ELSE "trigger"
      /\ main \in {"script", "callback"}
  BY <1>1 DEF Return, InScript
<1>3. /\ ended \in SUBSET objects
      /\ \A o \in objects' : o.of # "element" /\ o.of \notin freed
  BY <1>2
<1> HIDE DEF ended
<1>4. /\ cpp' \in [Objects -> Fates]
      /\ \A x \in OwnedByCpp : cpp'[x] = cpp[x]
      /\ \A o \in (objects \ ended) \cap HeldAlive : cpp'[o.of] = cpp[o.of]
  BY <1>2, <1>3, FreedAlone DEF ScriptInv
<1>5. TiedToLiving'
  BY <1>2, <1>4 DEF ScriptInv, TiedToLiving, OwnedByCpp
<1>6. \E x \in Infos : Unreferenced(objects', x)
  <2>1. PICK x \in freed : x \in Infos
    OBVIOUS
  <2>2. objects' \in SUBSET Tied
    BY <1>5 DEF TiedToLiving
  <2>3. \A o \in objects' : o.of # x
    BY <1>3, <2>1
  <2> QED
    BY <2>1, <2>2, <2>3, FreePlace
<1>7. ArgumentsLive'
  BY <1>2, <1>3, <1>4, <1>6 DEF ScriptInv, ArgumentsLive, PassesLiving, OwnedByCpp
<1> QED
  BY <1>2, <1>5, <1>7 DEF ScriptInv, LiveObjectsReached

-----------------------------------------------------------------------------
(* Triggers.                                                                    *)

\* A trigger begins while there is what it passes.
LEMMA StartTriggerKeeps == ASSUME ScriptInv, StartTrigger PROVE ScriptInv'
<1>1. /\ todo # <<>> /\ todo' = Tail(todo) /\ main = "host" /\ main' = "trigger"
      /\ trigger'.hook = Head(todo) /\ "hook" \in DOMAIN trigger'
      /\ UNCHANGED <<objects, cpp, reached>>
  BY DEF StartTrigger, engine
<1>2. TiedToLiving' /\ LiveObjectsReached'
  BY <1>1 DEF ScriptInv, TiedToLiving, LiveObjectsReached
<1>3. todo' \in Seq(Hooks \cup HostSteps)
  BY <1>1 DEF ScriptInv, ArgumentsLive
<1>4. Head(todo) \in ElementHooks => cpp["element"] = "alive"
  BY <1>1 DEF ScriptInv, ArgumentsLive, PassesLiving
<1>5. PassesLiving(todo, cpp["element"] = "alive")'
  BY <1>1 DEF ScriptInv, ArgumentsLive, PassesLiving
<1> QED
  BY <1>1, <1>2, <1>3, <1>4, <1>5 DEF ScriptInv, ArgumentsLive

\* A trigger ends.
LEMMA EndTriggerKeeps == ASSUME ScriptInv, EndTrigger PROVE ScriptInv'
<1>1. /\ main = "trigger" /\ main' = "host" /\ "hook" \in DOMAIN trigger'
      /\ UNCHANGED <<objects, cpp, todo, reached>>
  BY DEF EndTrigger, NoTrigger, engine
<1> QED
  BY <1>1 DEF ScriptInv, TiedToLiving, ArgumentsLive, PassesLiving, LiveObjectsReached

\* The arguments are alive when the callback begins; a copy takes the place of none.
LEMMA CallKeeps == ASSUME ScriptInv, CallNext PROVE ScriptInv'
<1> DEFINE at == CHOOSE x \in Infos : Unreferenced(objects, x)
           arguments == Arguments(trigger.hook, at)
           info == Transplant(Value("DanmakuInfo", at), NoInfo)
           element == Twin(Reference("Element", "element"), NoInfo)
<1>1. CASE main' # "callback"
  <2>1. /\ UNCHANGED <<main, objects, cpp, todo, reached>>
        /\ trigger'.hook = trigger.hook /\ "hook" \in DOMAIN trigger'
    BY <1>1 DEF CallNext, ScriptInv, ArgumentsLive
  <2> QED
    BY <2>1 DEF ScriptInv, TiedToLiving, ArgumentsLive, PassesLiving, LiveObjectsReached
<1>2. CASE main' = "callback"
  <2>1. /\ main = "trigger" /\ trigger'.hook = trigger.hook /\ "hook" \in DOMAIN trigger'
        /\ objects' = objects \cup arguments /\ UNCHANGED <<todo, reached>>
        /\ cpp' = IF Owned(arguments) = {} THEN cpp ELSE Create(cpp, at)
    BY <1>2 DEF CallNext, ScriptInv, ArgumentsLive
  <2>2. at \in Infos
    BY <2>1 DEF ScriptInv, ArgumentsLive
  <2> HIDE DEF at
  <2>3. /\ MakeBridgeArg("value", "DanmakuInfo", at) = info
        /\ MakeBridgeArg("reference", "Element", "element") = element
    BY DEF MakeBridgeArg, Cpp2JSAuto, Cpp2JSTwin, Cpp2JSTransplant, ShareLifetimeInfo, Translation,
       Reference, Value, NoInfo, Sequential, Containers, Mappable, Registered, Aware, Moveable
  <2>4. /\ arguments \subseteq {info, element}
        /\ element \in arguments => trigger.hook \in ElementHooks
    BY <2>3 DEF Arguments, ElementHooks, Twin, Transplant, Reference, Value
  <2>5. /\ info.of = at /\ info.makingMethod = "transplanted" /\ element.of = "element"
        /\ info \in arguments => at \in Owned(arguments)
    <3>1. info.of = at /\ info.makingMethod = "transplanted" /\ element.of = "element"
      BY DEF Transplant, Twin, Reference, Value
    <3> HIDE DEF arguments, info, element
    <3> QED
      BY <3>1 DEF Owned
  <2>6. info \in HeldAlive /\ element \in HeldAlive
    BY <2>2 DEF HeldAlive, Infos
  <2> HIDE DEF arguments, info, element
  <2>7. /\ cpp' \in [Objects -> Fates]
        /\ \A x \in Objects : cpp[x] = "alive" => cpp'[x] = "alive"
        /\ \A x \in OwnedByCpp : cpp'[x] = cpp[x]
        /\ info \in arguments => cpp'[at] = "alive"
    BY <2>1, <2>2, <2>5, Trees DEF Create, Fates, Objects, Infos, OwnedByCpp, ScriptInv, TiedToLiving
  <2>8. element \in arguments => cpp'["element"] = "alive"
    BY <2>1, <2>4, <2>7 DEF ScriptInv, ArgumentsLive, OwnedByCpp
  <2>9. \A p \in HeldAlive : p.of \in Objects
    BY DEF HeldAlive, Twin, Transplant, Reference, Value, Objects, Infos
  <2>10. TiedToLiving'
    BY <2>1, <2>4, <2>5, <2>6, <2>7, <2>8, <2>9 DEF ScriptInv, TiedToLiving, Tied, OwnedByCpp
  <2>11. ArgumentsLive'
    BY <1>2, <2>1, <2>7 DEF ScriptInv, ArgumentsLive, PassesLiving, OwnedByCpp
  <2> QED
    BY <2>1, <2>10, <2>11 DEF ScriptInv, LiveObjectsReached
<1> QED
  BY <1>1, <1>2

-----------------------------------------------------------------------------
(* The program around the engine.                                               *)

\* Steps of the idle host that leave objects alone: what it is to do next passes
\* an element only if there is one.
LEMMA HostKeeps ==
    ASSUME ScriptInv, Idle, UNCHANGED <<objects, cpp, trigger, reached>>,
           main' \in {"host", "script"}, todo' \in Seq(Hooks \cup HostSteps),
           PassesLiving(todo', cpp["element"] = "alive")
    PROVE  ScriptInv'
BY DEF ScriptInv, TiedToLiving, ArgumentsLive, PassesLiving, LiveObjectsReached, Idle

\* The element of a danmaku comes and goes while no script runs.
LEMMA HostStepKeeps == ASSUME ScriptInv, HostStep PROVE ScriptInv'
<1>1. /\ main = "host" /\ todo # <<>> /\ todo' = Tail(todo) /\ Head(todo) \in HostSteps
      /\ UNCHANGED <<objects, main, trigger, reached>>
      /\ \/ Head(todo) # "removeElement" /\ (cpp' = cpp \/ cpp' = Create(cpp, "element"))
         \/ Head(todo) = "removeElement" /\ cpp' = Kill(cpp, "element")
  BY DEF HostStep, Do, HostSteps
<1>2. /\ cpp' \in [Objects -> Fates]
      /\ \A x \in Objects : x # "element" => cpp'[x] = cpp[x]
      /\ Head(todo) # "removeElement" /\ cpp["element"] = "alive" => cpp'["element"] = "alive"
  BY <1>1, Trees DEF Create, Kill, Fates, Objects, ScriptInv, TiedToLiving
<1>3. /\ \A o \in objects : o.of # "element"
      /\ \A o \in HeldAlive : o.of \in Objects
  BY <1>1 DEF ScriptInv, ArgumentsLive, HeldAlive, Twin, Transplant, Reference, Value, Objects, Infos
<1>4. TiedToLiving'
  BY <1>1, <1>2, <1>3 DEF ScriptInv, TiedToLiving, Objects
<1>5. todo' \in Seq(Hooks \cup HostSteps)
  BY <1>1 DEF ScriptInv, ArgumentsLive
<1>6. PassesLiving(todo, cpp["element"] = "alive")'
  BY <1>1, <1>2 DEF ScriptInv, ArgumentsLive, PassesLiving
<1>7. ArgumentsLive'
  BY <1>1, <1>5, <1>6 DEF ScriptInv, ArgumentsLive
<1> QED
  BY <1>1, <1>4, <1>7 DEF ScriptInv, LiveObjectsReached

\* The start of the engine.
LEMMA StartupKeeps == ASSUME ScriptInv, Startup PROVE ScriptInv'
<1>1. /\ Idle /\ main' = "script" /\ todo' = <<"sysStartUp", "window", "postLogin">>
      /\ UNCHANGED <<objects, cpp, trigger, reached>>
  BY DEF Startup, Do
<1>2. todo' \in Seq(Hooks \cup HostSteps)
  BY <1>1 DEF Hooks, HostSteps
<1>3. PassesLiving(todo', cpp["element"] = "alive")
  BY <1>1 DEF PassesLiving, ElementHooks
<1> QED
  BY <1>1, <1>2, <1>3, HostKeeps

\* A hot reload frees all that the old context holds.
LEMMA HotReloadKeeps == ASSUME ScriptInv, HotReload PROVE ScriptInv'
<1>1. /\ Idle /\ main' = "script" /\ todo' = <<"sysStartUp", "postLogin">>
      /\ objects' = {} /\ cpp' = FreeAll(cpp, objects) /\ UNCHANGED <<trigger, reached>>
  BY DEF HotReload, Do, Keys
<1>2. /\ cpp' \in [Objects -> Fates]
      /\ \A x \in OwnedByCpp : cpp'[x] = cpp[x]
  BY <1>1, FreedAlone DEF ScriptInv
<1>3. TiedToLiving'
  BY <1>1, <1>2 DEF ScriptInv, TiedToLiving, OwnedByCpp
<1>4. todo' \in Seq(Hooks \cup HostSteps)
  BY <1>1 DEF Hooks, HostSteps
<1>5. PassesLiving(todo, cpp["element"] = "alive")'
  BY <1>1 DEF PassesLiving, ElementHooks
<1>6. ArgumentsLive'
  BY <1>1, <1>4, <1>5 DEF ScriptInv, ArgumentsLive, Unreferenced, Idle, Infos
<1> QED
  BY <1>1, <1>3, <1>6 DEF ScriptInv, LiveObjectsReached

\* A reload of a document's sheets.
LEMMA ReloadStylesKeeps == ASSUME ScriptInv, ReloadStyles PROVE ScriptInv'
<1>1. /\ Idle /\ main' = main /\ todo' = <<"postHotreloadStyle">>
      /\ UNCHANGED <<objects, cpp, trigger, reached>>
  BY DEF ReloadStyles, Do, Keys, engine
<1>2. todo' \in Seq(Hooks \cup HostSteps)
  BY <1>1 DEF Hooks, HostSteps
<1>3. PassesLiving(todo', cpp["element"] = "alive")
  BY <1>1 DEF PassesLiving, ElementHooks
<1> QED
  BY <1>1, <1>2, <1>3, HostKeeps DEF Idle

\* A reload removes the elements before their danmakus are received anew.
LEMMA ReloadKeeps == ASSUME ScriptInv, Reload PROVE ScriptInv'
<1>1. /\ Idle /\ main' = main /\ UNCHANGED <<objects, cpp, trigger, reached>>
      /\ \/ todo' = <<>>
         \/ todo' = <<"postHotreloadStyle">> \o <<>> \o <<"postHotreloadFull">>
         \/ todo' = <<"postHotreloadStyle">>
                        \o <<"removeElement", "onReceivedDanmaku", "createElement">>
                        \o <<"postHotreloadFull">>
  BY DEF Reload, Do, Keys, engine
<1>2. \/ todo' = <<>>
      \/ todo' = <<"postHotreloadStyle", "postHotreloadFull">>
      \/ todo' = <<"postHotreloadStyle", "removeElement", "onReceivedDanmaku", "createElement",
                   "postHotreloadFull">>
  BY <1>1
<1>3. todo' \in Seq(Hooks \cup HostSteps)
  <2> DEFINE S == Hooks \cup HostSteps
             style == "postHotreloadStyle"
             remove == "removeElement"
             received == "onReceivedDanmaku"
             create == "createElement"
             full == "postHotreloadFull"
  <2>1. style \in S /\ remove \in S /\ received \in S /\ create \in S /\ full \in S
    BY DEF Hooks, HostSteps
  <2>2. todo' = <<>> \/ todo' = <<style, full>> \/ todo' = <<style, remove, received, create, full>>
    BY <1>2
  <2> HIDE DEF S, style, remove, received, create, full
  <2>3. /\ <<>> \in Seq(S) /\ <<style, full>> \in Seq(S)
        /\ <<style, remove, received, create, full>> \in Seq(S)
    BY <2>1
  <2>4. todo' \in Seq(S)
    BY <2>2, <2>3
  <2> QED
    BY <2>4 DEF S
<1>4. PassesLiving(todo', cpp["element"] = "alive")
  BY <1>2 DEF PassesLiving, ElementHooks
<1> QED
  BY <1>1, <1>3, <1>4, HostKeeps DEF Idle

\* The oldest danmaku is dropped while its element is there.
LEMMA ReceiveKeeps == ASSUME ScriptInv, ReceiveDanmaku PROVE ScriptInv'
<1>1. /\ Idle /\ main' = main /\ UNCHANGED <<objects, cpp, trigger, reached>>
      /\ \/ todo' = <<"onReceivedDanmaku">> \o <<>> \o <<"createElement">>
         \/ /\ cpp["element"] = "alive"
            /\ todo' = <<"onReceivedDanmaku">> \o <<"onDanmakuDrop", "removeElement">>
                           \o <<"createElement">>
  BY DEF ReceiveDanmaku, Do, engine
<1>2. \/ todo' = <<"onReceivedDanmaku", "createElement">>
      \/ /\ cpp["element"] = "alive"
         /\ todo' = <<"onReceivedDanmaku", "onDanmakuDrop", "removeElement", "createElement">>
  BY <1>1
<1>3. todo' \in Seq(Hooks \cup HostSteps)
  <2> DEFINE S == Hooks \cup HostSteps
             received == "onReceivedDanmaku"
             drop == "onDanmakuDrop"
             remove == "removeElement"
             create == "createElement"
  <2>1. received \in S /\ drop \in S /\ remove \in S /\ create \in S
    BY DEF Hooks, HostSteps
  <2>2. todo' = <<received, create>> \/ todo' = <<received, drop, remove, create>>
    BY <1>2
  <2> HIDE DEF S, received, drop, remove, create
  <2>3. <<received, create>> \in Seq(S) /\ <<received, drop, remove, create>> \in Seq(S)
    BY <2>1
  <2>4. todo' \in Seq(S)
    BY <2>2, <2>3
  <2> QED
    BY <2>4 DEF S
<1>4. PassesLiving(todo', cpp["element"] = "alive")
  BY <1>2 DEF PassesLiving, ElementHooks
<1> QED
  BY <1>1, <1>3, <1>4, HostKeeps DEF Idle

\* The element of a danmaku that appears is there.
LEMMA ShowKeeps == ASSUME ScriptInv, ShowDanmaku PROVE ScriptInv'
<1>1. /\ Idle /\ main' = main /\ todo' = <<"postShowedDanmaku">> /\ cpp["element"] = "alive"
      /\ UNCHANGED <<objects, cpp, trigger, reached>>
  BY DEF ShowDanmaku, Do, engine
<1>2. todo' \in Seq(Hooks \cup HostSteps)
  BY <1>1 DEF Hooks, HostSteps
<1>3. PassesLiving(todo', cpp["element"] = "alive")
  BY <1>1 DEF PassesLiving, ElementHooks
<1> QED
  BY <1>1, <1>2, <1>3, HostKeeps DEF Idle

\* The twin of the owner is tied to it; what it holds is not handed over alone.
LEMMA GiveKeeps == ASSUME ScriptInv, GiveOwner PROVE ScriptInv'
<1> DEFINE twin == Twin(Reference("TestStruct", "owner"), "owner")
<1>1. \A v \in {Reference("TestStruct", "owner"), Reference("Items", "items"),
                Value("Span", "item")} :
          Cpp2JSAuto(v, NoInfo).js = "object" => Cpp2JSAuto(v, NoInfo) = twin
  <2> USE DEF Translation, Reference, Value, NoInfo, Sequential, Containers, Mappable,
         Registered
  <2>1. Cpp2JSAuto(Reference("TestStruct", "owner"), NoInfo) = twin
    BY DEF Cpp2JSAuto, Cpp2JSTwin, ShareLifetimeInfo, Aware
  <2>2. Cpp2JSAuto(Reference("Items", "items"), NoInfo) = Exception
    <3> DEFINE v == Reference("Items", "items")
    <3>2. /\ v.type \notin DOMAIN Translation /\ v.type \in Containers
          /\ v.type \in Registered \cup Containers
      OBVIOUS
    <3> HIDE DEF v
    <3>1. Cpp2JSAuto(v, NoInfo) = Cpp2JSContainer(v, NoInfo)
      BY <3>2 DEF Cpp2JSAuto
    <3> QED
      BY <3>1 DEF v, Cpp2JSContainer
  <2>4. Cpp2JSAuto(Value("Span", "item"), NoInfo) = Exception
    <3> DEFINE v == Value("Span", "item")
    <3>2. /\ v.type \notin DOMAIN Translation /\ v.type \in Containers
          /\ v.type \in Registered \cup Containers
      OBVIOUS
    <3> HIDE DEF v
    <3>1. Cpp2JSAuto(v, NoInfo) = Cpp2JSContainer(v, NoInfo)
      BY <3>2 DEF Cpp2JSAuto
    <3> QED
      BY <3>1 DEF v, Cpp2JSContainer, Views
  <2>3. Exception.js # "object"
    BY DEF Exception, Primitive
  <2> QED
    BY <2>1, <2>2, <2>3, <2>4
<1>2. /\ Idle /\ main' = "script" /\ UNCHANGED <<cpp, todo, trigger, reached>>
      /\ objects' = objects \/ objects' = objects \cup {twin}
  BY <1>1 DEF GiveOwner, Idle
<1>3. /\ twin \in TiedFirmly /\ twin \notin HeldAlive
      /\ twin.of = "owner" /\ twin.info = "owner"
  BY DEF TiedFirmly, HeldAlive, Twin, Transplant, Reference, Value, NoInfo
<1> HIDE DEF twin
<1>4. TiedToLiving'
  BY <1>2, <1>3 DEF ScriptInv, TiedToLiving, Tied
<1>5. ASSUME NEW x \in Infos, Unreferenced(objects, x) PROVE Unreferenced(objects', x)
  BY <1>2, <1>3, <1>5, Trees DEF Unreferenced, Infos
<1>6. ArgumentsLive'
  BY <1>2, <1>3, <1>5 DEF ScriptInv, ArgumentsLive, PassesLiving, Idle
<1> QED
  BY <1>2, <1>4, <1>6 DEF ScriptInv, LiveObjectsReached

\* The members of the owner are invalid as soon as the owner is; what they store can
\* leave it before.
LEMMA OwnerKeeps == ASSUME ScriptInv, MoveOwner \/ DestroyOwner \/ ChangeOwner PROVE ScriptInv'
<1>1. /\ cpp' \in [Objects -> Fates]
      /\ cpp'["owner"] # "alive" \/ \A x \in {"owner", "inner", "items", "table"} : cpp'[x] = cpp[x]
      /\ \A x \in Objects : x \notin Tree("owner") => cpp'[x] = cpp[x]
  <2> DEFINE here == {"owner", "inner", "items", "table"}
  <2>1. cpp \in [Objects -> Fates]
    BY DEF ScriptInv, TiedToLiving
  <2>2. here \subseteq Objects /\ "owner" \in Tree("owner") \ Stored
    BY Trees DEF Objects, Stored
  <2>3. CASE MoveOwner
    BY <2>1, <2>2, <2>3 DEF MoveOwner, Fates
  <2>4. CASE DestroyOwner
    BY <2>1, <2>2, <2>4 DEF DestroyOwner, Kill, Fates
  <2>5. CASE ChangeOwner
    <3>1. PICK lost \in {{"item", "plain"}, {"entry"}} :
              cpp' = [o \in Objects |-> IF o \in lost THEN "dead" ELSE cpp[o]]
      BY <2>5 DEF ChangeOwner
    <3>2. lost \subseteq Tree("owner") /\ lost \cap here = {}
      BY Trees
    <3> QED
      BY <2>1, <2>2, <3>1, <3>2 DEF Fates
  <2> QED
    BY <2>3, <2>4, <2>5
<1>2. UNCHANGED <<objects, todo, main, trigger, reached>>
  BY DEF MoveOwner, DestroyOwner, ChangeOwner, control
<1>3. \A o \in HeldAlive : o.of \in Objects \ Tree("owner")
  BY Trees DEF HeldAlive, Twin, Transplant, Reference, Value, Objects, Infos
<1>4. TiedToLiving'
  BY <1>1, <1>2, <1>3 DEF ScriptInv, TiedToLiving
<1>5. cpp'["element"] = cpp["element"]
  BY <1>1, Trees DEF Objects
<1>6. ArgumentsLive'
  BY <1>2, <1>5 DEF ScriptInv, ArgumentsLive, PassesLiving
<1> QED
  BY <1>2, <1>4, <1>6 DEF ScriptInv, LiveObjectsReached

-----------------------------------------------------------------------------

\* Every step keeps the invariant.
LEMMA ScriptStep == ASSUME ScriptInv, [Next]_vars PROVE ScriptInv'
<1>1. CASE \/ \E hook \in Hooks : AddScriptHook(hook)
           \/ \E id \in 1 .. MaxId : RemoveScriptHook(id)
           \/ \E parses \in BOOLEAN : AddScriptStyle(parses)
           \/ Frame \/ EndFrame \/ OpenBox \/ CloseBox \/ UNCHANGED vars
  <2>1. UNCHANGED <<objects, cpp, todo, main, trigger, reached>>
    BY <1>1 DEF AddScriptHook, RemoveScriptHook, AddScriptStyle, Frame, EndFrame, OpenBox, CloseBox,
       vars, engine, control
  <2> QED
    BY <2>1, UntouchedKeep DEF ScriptInv, LiveObjectsReached
<1>2. CASE Eval
  <2>1. Idle /\ main' = "script" /\ UNCHANGED <<objects, cpp, todo, trigger, reached>>
    BY <1>2 DEF Eval, engine
  <2> QED
    BY <2>1, HostKeeps DEF ScriptInv, ArgumentsLive
<1>3. CASE \E o \in objects : \E v \in Members(o.type, o.of) : ReadMember(o, v)
  BY <1>3, ReadKeeps
<1>4. CASE \E o, v \in objects : WriteMember(o, v)
  BY <1>4, WriteKeeps
<1>5. CASE (\E o \in objects : Drop(o)) \/ Return
  BY <1>5, DropKeeps, ReturnKeeps
<1>6. CASE StartTrigger \/ CallNext \/ EndTrigger
  BY <1>6, StartTriggerKeeps, CallKeeps, EndTriggerKeeps
<1>7. CASE Startup \/ HostStep \/ HotReload \/ ReloadStyles \/ Reload
  BY <1>7, StartupKeeps, HostStepKeeps, HotReloadKeeps, ReloadStylesKeeps, ReloadKeeps
<1>8. CASE ReceiveDanmaku \/ ShowDanmaku \/ GiveOwner \/ MoveOwner \/ DestroyOwner \/ ChangeOwner
  BY <1>8, ReceiveKeeps, ShowKeeps, GiveKeeps, OwnerKeeps
<1> QED
  BY <1>1, <1>2, <1>3, <1>4, <1>5, <1>6, <1>7, <1>8 DEF Next

\* The program starts without objects and without triggers.
LEMMA ScriptInit == Init => ScriptInv
<1> SUFFICES ASSUME Init PROVE ScriptInv
  OBVIOUS
<1>1. TiedToLiving
  BY Trees DEF Init, TiedToLiving, Fates, Objects, Infos
<1>2. ArgumentsLive
  BY DEF Init, ArgumentsLive, PassesLiving, NoTrigger, Unreferenced, Infos
<1> QED
  BY <1>1, <1>2 DEF Init, ScriptInv, LiveObjectsReached

-----------------------------------------------------------------------------
(* The hooks.                                                                   *)

\* The entries of a list stand in the order of their identifiers.
Before == {p \in Entries \X Entries : p[1].id < p[2].id}
InTurn(s) == \A i, j \in 1 .. Len(s) : i < j => <<s[i], s[j]>> \in Before

\* What is registered was given an identifier in this context, and not removed since.
RegistryOK ==
    /\ registry \in [lists : [Hooks -> Seq(Entries)], nextId : 1 .. MaxId + 1]
    /\ \A h \in Hooks :
           /\ InTurn(registry.lists[h])
           /\ \A e \in ToSet(registry.lists[h]) :
                  /\ 0 < e.id /\ e.id < registry.nextId
                  /\ e.callback = context /\ e.id \notin removed
    /\ removed \subseteq 1 .. MaxId /\ \A id \in removed : id < registry.nextId

\* What a trigger has yet to call was registered before it began and after what it
\* has called.
TriggerOK ==
    /\ trigger \in [rest : Seq(Entries), hook : Hooks, from : Nat, last : Nat]
    /\ InTurn(trigger.rest)
    /\ \A e \in ToSet(trigger.rest) :
           trigger.last < e.id /\ e.id < trigger.from /\ e.callback = context
    /\ main \notin {"trigger", "callback"} => trigger.rest = <<>>

HookInv ==
    /\ context \in 0 .. MaxContext /\ running \in Entries
    /\ place \in {"startup", "events", "update", "box"}
    /\ RegistryOK /\ TriggerOK
    /\ place = "startup" =>
           main = "host" /\ todo = <<>> /\ \A h \in Hooks : registry.lists[h] = <<>>

\* An entry more, with the next identifier.
LEMMA AddedInTurn ==
    ASSUME NEW s \in Seq(Entries), InTurn(s), NEW e \in Entries,
           \A d \in ToSet(s) : d.id < e.id
    PROVE  /\ Append(s, e) \in Seq(Entries) /\ InTurn(Append(s, e))
           /\ ToSet(Append(s, e)) = ToSet(s) \cup {e}
<1>1. /\ Append(s, e) \in Seq(Entries) /\ Len(Append(s, e)) = Len(s) + 1
      /\ \A j \in 1 .. Len(s) : Append(s, e)[j] = s[j]
      /\ Append(s, e)[Len(s) + 1] = e
  BY Appended
<1> DEFINE q == Append(s, e)
<1> HIDE DEF q
<1>2. DOMAIN q = 1 .. Len(s) + 1 /\ DOMAIN s = 1 .. Len(s) /\ Len(s) \in Nat
  BY <1>1 DEF q
<1>3. \A i \in 1 .. Len(s) : s[i] \in Entries /\ s[i].id < e.id
  BY <1>2 DEF ToSet
<1>4. ASSUME NEW i \in 1 .. Len(q), NEW j \in 1 .. Len(q), i < j PROVE <<q[i], q[j]>> \in Before
  <2>1. i \in 1 .. Len(s) /\ q[i] = s[i] /\ q[i] \in Entries
    BY <1>1, <1>2, <1>3, <1>4 DEF q
  <2>2. CASE j \in 1 .. Len(s)
    BY <1>1, <1>4, <2>1, <2>2 DEF q, InTurn
  <2>3. CASE j = Len(s) + 1
    BY <1>1, <1>3, <2>1, <2>3 DEF q, Before
  <2> QED
    BY <1>1, <2>2, <2>3 DEF q
<1>5. ToSet(q) = ToSet(s) \cup {e}
  BY <1>1, <1>2 DEF q, ToSet
<1> QED
  BY <1>1, <1>4, <1>5 DEF q, InTurn

\* Erasing keeps the turn.
LEMMA ErasedInTurn ==
    ASSUME NEW s \in Seq(Entries), InTurn(s), NEW X
    PROVE  /\ EraseIf(s, X) \in Seq(Entries) /\ InTurn(EraseIf(s, X))
           /\ ToSet(EraseIf(s, X)) = ToSet(s) \ X
<1>1. EraseIf(s, X) \in Seq(Entries) /\ ToSet(EraseIf(s, X)) = ToSet(s) \ X
  BY EraseIfKeeps
<1>2. \A i, j \in 1 .. Len(s) : i < j => <<s[i], s[j]>> \in Before
  BY DEF InTurn
<1>3. InTurn(EraseIf(s, X))
  BY <1>2, EraseIfOrdered DEF InTurn
<1> QED
  BY <1>1, <1>3

\* The first of a list, and what is left.
LEMMA RestInTurn ==
    ASSUME NEW s \in Seq(Entries), s # <<>>, InTurn(s)
    PROVE  /\ Head(s) \in ToSet(s) /\ Head(s) \in Entries
           /\ Tail(s) \in Seq(Entries) /\ InTurn(Tail(s)) /\ ToSet(Tail(s)) \subseteq ToSet(s)
           /\ \A e \in ToSet(Tail(s)) : Head(s).id < e.id
<1>1. /\ Head(s) = s[1] /\ Tail(s) \in Seq(Entries) /\ Len(s) \in Nat \ {0}
      /\ Len(Tail(s)) = Len(s) - 1 /\ \A j \in 1 .. Len(s) - 1 : Tail(s)[j] = s[j + 1]
      /\ s[1] \in Entries
  OBVIOUS
<1> DEFINE q == Tail(s)
<1> HIDE DEF q
<1>2. DOMAIN q = 1 .. Len(s) - 1 /\ DOMAIN s = 1 .. Len(s)
  BY <1>1 DEF q
<1>3. \A j \in 1 .. Len(s) - 1 : j + 1 \in 1 .. Len(s) /\ q[j] = s[j + 1]
  BY <1>1 DEF q
<1>4. InTurn(q)
  <2>1. ASSUME NEW i \in 1 .. Len(q), NEW j \in 1 .. Len(q), i < j PROVE <<q[i], q[j]>> \in Before
    <3>1. i \in 1 .. Len(s) - 1 /\ j \in 1 .. Len(s) - 1 /\ i + 1 < j + 1
      BY <1>1, <2>1 DEF q
    <3> QED
      BY <1>3, <3>1 DEF InTurn
  <2> QED
    BY <2>1 DEF InTurn
<1>5. \A e \in ToSet(q) : e \in ToSet(s) /\ s[1].id < e.id
  <2> TAKE e \in ToSet(q)
  <2>1. PICK j \in 1 .. Len(s) - 1 : e = s[j + 1]
    BY <1>2, <1>3 DEF ToSet
  <2>2. j + 1 \in 1 .. Len(s) /\ 1 \in 1 .. Len(s) /\ 1 < j + 1
    BY <1>1
  <2>3. <<s[1], s[j + 1]>> \in Before
    BY <2>2 DEF InTurn
  <2> QED
    BY <1>2, <2>1, <2>2, <2>3 DEF ToSet, Before
<1>6. s[1] \in ToSet(s)
  BY <1>1, <1>2 DEF ToSet
<1> QED
  BY <1>1, <1>4, <1>5, <1>6 DEF q

\* Steps that leave the registry and the trigger alone, and the start behind.
LEMMA HooksUntouched ==
    ASSUME HookInv, UNCHANGED <<registry, removed, trigger, context>>, running' \in Entries,
           \/ main' = main
           \/ main' \notin {"trigger", "callback"} /\ trigger.rest = <<>>
           \/ main' \in {"trigger", "callback"},
           \/ UNCHANGED <<place, main, todo>>
           \/ place' \in {"events", "update", "box"}
    PROVE  HookInv'
<1>1. RegistryOK'
  BY DEF HookInv, RegistryOK
<1>2. TriggerOK'
  BY DEF HookInv, TriggerOK
<1> QED
  BY <1>1, <1>2 DEF HookInv

\* A new entry has the next identifier.
LEMMA AddHookKeeps ==
    ASSUME HookInv, NEW hook \in Hooks, AddScriptHook(hook)
    PROVE  HookInv'
<1> DEFINE e == [id |-> registry.nextId, callback |-> context]
           s == registry.lists[hook]
<1>1. /\ main \in {"script", "callback"} /\ registry.nextId <= MaxId
      /\ registry' = AddHook(registry, hook, context)
      /\ UNCHANGED <<context, main, place, todo, trigger, running, removed>>
  BY DEF AddScriptHook, InScript, control
<1>2. /\ registry.lists \in [Hooks -> Seq(Entries)] /\ registry.nextId \in 1 .. MaxId
      /\ s \in Seq(Entries) /\ InTurn(s) /\ \A d \in ToSet(s) : d.id < e.id
      /\ e \in Entries
  <2>1. registry.lists \in [Hooks -> Seq(Entries)] /\ registry.nextId \in 1 .. MaxId + 1
    BY DEF HookInv, RegistryOK
  <2>2. registry.nextId \in 1 .. MaxId
    BY <1>1, <2>1, ScriptsAssumption
  <2>3. InTurn(s) /\ \A d \in ToSet(s) : d.id < e.id
    BY DEF HookInv, RegistryOK
  <2>4. e \in Entries
    BY <2>2, ScriptsAssumption DEF HookInv, Entries
  <2> QED
    BY <2>1, <2>2, <2>3, <2>4
<1>3. /\ registry'.lists = [registry.lists EXCEPT ![hook] = Append(s, e)]
      /\ registry'.nextId = registry.nextId + 1
      /\ registry' = [lists |-> registry'.lists, nextId |-> registry'.nextId]
  BY <1>1 DEF AddHook, HookInv, RegistryOK
<1>4. e.id = registry.nextId /\ e.callback = context
  OBVIOUS
<1> HIDE DEF e, s
<1>5. /\ Append(s, e) \in Seq(Entries) /\ InTurn(Append(s, e))
      /\ ToSet(Append(s, e)) = ToSet(s) \cup {e}
  BY <1>2, AddedInTurn
<1>6. /\ registry'.lists \in [Hooks -> Seq(Entries)] /\ registry'.lists[hook] = Append(s, e)
      /\ \A h \in Hooks : h # hook => registry'.lists[h] = registry.lists[h]
  BY <1>2, <1>3, <1>5
<1>7. registry' \in [lists : [Hooks -> Seq(Entries)], nextId : 1 .. MaxId + 1]
  <2>1. registry'.nextId \in 1 .. MaxId + 1
    BY <1>2, <1>3, ScriptsAssumption
  <2> QED
    BY <1>3, <1>6, <2>1
<1>8. ASSUME NEW h \in Hooks
      PROVE  /\ InTurn(registry'.lists[h])
             /\ \A d \in ToSet(registry'.lists[h]) :
                    /\ 0 < d.id /\ d.id < registry'.nextId
                    /\ d.callback = context /\ d.id \notin removed
  <2>1. /\ InTurn(registry.lists[h])
        /\ \A d \in ToSet(registry.lists[h]) :
               /\ 0 < d.id /\ d.id < registry.nextId
               /\ d.callback = context /\ d.id \notin removed
    BY DEF HookInv, RegistryOK
  <2>2. \A d \in ToSet(registry.lists[h]) : d \in Entries
    BY <1>2 DEF ToSet
  <2>3. registry.nextId \notin removed /\ registry.nextId \in Nat /\ 0 < registry.nextId
    BY <1>2, ScriptsAssumption DEF HookInv, RegistryOK
  <2>4. \A d \in ToSet(registry.lists[h]) : d.id < registry'.nextId
    BY <1>3, <2>1, <2>2, <2>3, ScriptsAssumption DEF Entries
  <2>5. CASE h # hook
    BY <1>6, <2>1, <2>4, <2>5
  <2>6. CASE h = hook
    <3>1. s = registry.lists[h] /\ registry'.lists[h] = Append(s, e)
      BY <1>6, <2>6 DEF s
    <3>2. e.id < registry'.nextId /\ 0 < e.id
      BY <1>3, <1>4, <2>3
    <3> QED
      BY <1>4, <1>5, <2>1, <2>3, <2>4, <3>1, <3>2
  <2> QED
    BY <2>5, <2>6
<1>9. removed \subseteq 1 .. MaxId /\ \A id \in removed : id < registry'.nextId
  BY <1>2, <1>3, ScriptsAssumption DEF HookInv, RegistryOK
<1>10. RegistryOK'
  BY <1>1, <1>7, <1>8, <1>9 DEF RegistryOK
<1>11. TriggerOK' /\ place' # "startup"
  BY <1>1 DEF HookInv, TriggerOK
<1> QED
  BY <1>1, <1>10, <1>11 DEF HookInv

\* An identifier that is removed is in no list.
LEMMA RemoveHookKeeps ==
    ASSUME HookInv, NEW id \in 1 .. MaxId, RemoveScriptHook(id)
    PROVE  HookInv'
<1>1. /\ main \in {"script", "callback"} /\ id < registry.nextId
      /\ registry' = RemoveHook(registry, id) /\ removed' = removed \cup {id}
      /\ UNCHANGED <<context, main, place, todo, trigger, running>>
  BY DEF RemoveScriptHook, InScript, control
<1> DEFINE gone(h) == {e \in ToSet(registry.lists[h]) : e.id = id}
           new == [h \in Hooks |-> EraseIf(registry.lists[h], gone(h))]
<1>2. /\ registry'.lists = new /\ registry'.nextId = registry.nextId
      /\ registry' = [lists |-> registry'.lists, nextId |-> registry'.nextId]
      /\ registry.nextId \in 1 .. MaxId + 1
  BY <1>1 DEF RemoveHook, HookInv, RegistryOK
<1>3. ASSUME NEW h \in Hooks
      PROVE  /\ new[h] \in Seq(Entries) /\ InTurn(new[h])
             /\ ToSet(new[h]) = ToSet(registry.lists[h]) \ gone(h)
  <2>1. registry.lists[h] \in Seq(Entries) /\ InTurn(registry.lists[h])
    BY DEF HookInv, RegistryOK
  <2>2. new[h] = EraseIf(registry.lists[h], gone(h))
    OBVIOUS
  <2> HIDE DEF new, gone
  <2> QED
    BY <2>1, <2>2, ErasedInTurn
<1>4. new = [h \in Hooks |-> new[h]]
  OBVIOUS
<1> HIDE DEF new
<1>5. registry' \in [lists : [Hooks -> Seq(Entries)], nextId : 1 .. MaxId + 1]
  <2>1. new \in [Hooks -> Seq(Entries)]
    BY <1>3, <1>4
  <2> QED
    BY <1>2, <2>1
<1>6. ASSUME NEW h \in Hooks
      PROVE  /\ InTurn(registry'.lists[h])
             /\ \A d \in ToSet(registry'.lists[h]) :
                    /\ 0 < d.id /\ d.id < registry'.nextId
                    /\ d.callback = context /\ d.id \notin removed \cup {id}
  <2>1. \A d \in ToSet(new[h]) : d \in ToSet(registry.lists[h]) /\ d.id # id
    BY <1>3
  <2>2. \A d \in ToSet(registry.lists[h]) :
               /\ 0 < d.id /\ d.id < registry.nextId
               /\ d.callback = context /\ d.id \notin removed
    BY DEF HookInv, RegistryOK
  <2> QED
    BY <1>2, <1>3, <2>1, <2>2
<1>7. RegistryOK'
  BY <1>1, <1>2, <1>5, <1>6 DEF HookInv, RegistryOK
<1>8. TriggerOK' /\ place' # "startup"
  BY <1>1 DEF HookInv, TriggerOK
<1> QED
  BY <1>1, <1>7, <1>8 DEF HookInv

\* A trigger begins with what is registered.
LEMMA StartHooksKeeps == ASSUME HookInv, StartTrigger PROVE HookInv'
<1> DEFINE hook == Head(todo)
<1>1. /\ todo # <<>> /\ hook \in Hooks /\ main' = "trigger"
      /\ trigger' = [rest |-> registry.lists[hook], hook |-> hook, from |-> registry.nextId,
                     last |-> 0]
      /\ UNCHANGED <<context, place, running, registry, removed>>
  BY DEF StartTrigger, engine, Snapshot
<1> HIDE DEF hook
<1>2. /\ registry.lists[hook] \in Seq(Entries) /\ InTurn(registry.lists[hook])
      /\ \A e \in ToSet(registry.lists[hook]) :
             0 < e.id /\ e.id < registry.nextId /\ e.callback = context
      /\ registry.nextId \in Nat
  BY <1>1, ScriptsAssumption DEF HookInv, RegistryOK
<1>3. TriggerOK'
  BY <1>1, <1>2 DEF TriggerOK
<1>4. RegistryOK' /\ place' # "startup"
  BY <1>1 DEF HookInv, RegistryOK
<1> QED
  BY <1>1, <1>3, <1>4 DEF HookInv

\* A callback that is called, or passed over, is taken from the rest.
LEMMA CallHooksKeeps ==
    ASSUME HookInv, CallNext
    PROVE  /\ HookInv'
           /\ main' = "callback" => /\ running'.id \notin removed /\ running'.callback = context
                                    /\ running'.id < trigger.from /\ running'.id > trigger.last
<1> DEFINE e == Head(trigger.rest)
<1>1. /\ main = "trigger" /\ trigger.rest # <<>>
      /\ UNCHANGED <<context, place, todo, registry, removed>>
      /\ \/ /\ StillRegistered(registry, trigger.hook, e.id)
            /\ main' = "callback" /\ running' = e
            /\ trigger' = [trigger EXCEPT !.rest = Tail(@), !.last = e.id]
         \/ /\ trigger' = [trigger EXCEPT !.rest = Tail(@)]
            /\ UNCHANGED <<main, running>>
  BY DEF CallNext
<1>2. /\ e \in ToSet(trigger.rest) /\ e \in Entries
      /\ Tail(trigger.rest) \in Seq(Entries) /\ InTurn(Tail(trigger.rest))
      /\ ToSet(Tail(trigger.rest)) \subseteq ToSet(trigger.rest)
      /\ \A d \in ToSet(Tail(trigger.rest)) : e.id < d.id
  BY <1>1, RestInTurn DEF HookInv, TriggerOK
<1> HIDE DEF e
<1>3. /\ trigger.last < e.id /\ e.id < trigger.from /\ e.callback = context
      /\ e.id \in Nat
  BY <1>2 DEF HookInv, TriggerOK, Entries
<1>4. /\ trigger'.rest = Tail(trigger.rest) /\ trigger'.hook = trigger.hook
      /\ trigger'.from = trigger.from
      /\ trigger'.last = trigger.last \/ trigger'.last = e.id
      /\ trigger' = [rest |-> trigger'.rest, hook |-> trigger'.hook, from |-> trigger'.from,
                     last |-> trigger'.last]
  BY <1>1 DEF HookInv, TriggerOK
<1>5. TriggerOK'
  <2>1. /\ Tail(trigger.rest) \in Seq(Entries) /\ trigger.hook \in Hooks /\ trigger.from \in Nat
        /\ trigger'.last \in Nat
    BY <1>2, <1>3, <1>4 DEF HookInv, TriggerOK
  <2>2. trigger' \in [rest : Seq(Entries), hook : Hooks, from : Nat, last : Nat]
    BY <1>4, <2>1
  <2>3. \A d \in ToSet(trigger'.rest) :
            trigger'.last < d.id /\ d.id < trigger'.from /\ d.callback = context
    BY <1>2, <1>4 DEF HookInv, TriggerOK
  <2>4. main' \in {"trigger", "callback"}
    BY <1>1
  <2> QED
    BY <1>1, <1>2, <1>4, <2>2, <2>3, <2>4 DEF TriggerOK
<1>6. RegistryOK' /\ running' \in Entries /\ place' # "startup"
  BY <1>1, <1>2 DEF HookInv, RegistryOK
<1>7. ASSUME main' = "callback"
      PROVE  /\ running'.id \notin removed /\ running'.callback = context
             /\ running'.id < trigger.from /\ running'.id > trigger.last
  <2>1. running' = e /\ StillRegistered(registry, trigger.hook, e.id)
    BY <1>1, <1>7
  <2>2. e.id \notin removed
    BY <2>1 DEF StillRegistered, HookInv, RegistryOK, TriggerOK
  <2> QED
    BY <1>3, <2>1, <2>2 DEF HookInv, TriggerOK
<1> QED
  BY <1>1, <1>5, <1>6, <1>7 DEF HookInv

\* A trigger ends.
LEMMA EndHooksKeeps == ASSUME HookInv, EndTrigger PROVE HookInv'
<1>1. /\ main' = "host" /\ trigger' = NoTrigger /\ main = "trigger"
      /\ UNCHANGED <<context, place, todo, running, registry, removed>>
  BY DEF EndTrigger, engine
<1>2. <<>> \in Seq(Entries)
  OBVIOUS
<1>3. TriggerOK'
  BY <1>1, <1>2 DEF NoTrigger, TriggerOK, Hooks, InTurn, ToSet
<1>4. RegistryOK' /\ place' # "startup"
  BY <1>1 DEF HookInv, RegistryOK
<1> QED
  BY <1>1, <1>3, <1>4 DEF HookInv

\* An empty registry.
LEMMA EmptyOK ==
    ASSUME registry' = EmptyRegistry, removed' = {}
    PROVE  RegistryOK'
<1>1. <<>> \in Seq(Entries)
  OBVIOUS
<1>2. /\ registry'.lists = [h \in Hooks |-> <<>>] /\ registry'.nextId = 1
      /\ registry' = [lists |-> registry'.lists, nextId |-> registry'.nextId]
  BY DEF EmptyRegistry
<1>3. registry'.lists \in [Hooks -> Seq(Entries)]
  BY <1>1, <1>2
<1>4. registry' \in [lists : [Hooks -> Seq(Entries)], nextId : 1 .. MaxId + 1]
  <2>1. 1 \in 1 .. MaxId + 1
    BY ScriptsAssumption
  <2> QED
    BY <1>2, <1>3, <2>1
<1>5. \A h \in Hooks : InTurn(registry'.lists[h]) /\ ToSet(registry'.lists[h]) = {}
  BY <1>2 DEF InTurn, ToSet
<1> QED
  BY <1>4, <1>5 DEF RegistryOK

\* The first context is made before anything is registered in it; a hot reload
\* empties the registry before it makes the next.
LEMMA ContextHooksKeeps ==
    ASSUME HookInv, Startup \/ HotReload
    PROVE  HookInv'
<1>1. /\ main = "host" /\ main' = "script" /\ place' \in {"events", "update", "box"}
      /\ context' \in 0 .. MaxContext
      /\ UNCHANGED <<trigger, running>>
  BY ScriptsAssumption DEF Startup, HotReload, Do, Keys, Idle, HookInv
<1>2. trigger.rest = <<>>
  BY <1>1 DEF HookInv, TriggerOK
<1>3. TriggerOK'
  BY <1>1, <1>2 DEF HookInv, TriggerOK, ToSet
<1>4. RegistryOK'
  <2>1. CASE HotReload
    <3>1. registry' = EmptyRegistry /\ removed' = {}
      BY <2>1 DEF HotReload, Clear
    <3> QED
      BY <3>1, EmptyOK
  <2>2. CASE Startup
    <3>1. UNCHANGED <<registry, removed>> /\ place = "startup"
      BY <2>2 DEF Startup
    <3>2. \A h \in Hooks : registry.lists[h] = <<>> /\ ToSet(registry.lists[h]) = {}
      BY <3>1 DEF HookInv, ToSet
    <3> QED
      BY <3>1, <3>2 DEF HookInv, RegistryOK
  <2> QED
    BY <2>1, <2>2
<1> QED
  BY <1>1, <1>3, <1>4 DEF HookInv

\* Every step keeps it, and calls in turn.
LEMMA HookStep ==
    ASSUME HookInv, [Next]_vars
    PROVE  /\ HookInv'
           /\ (main # "callback" /\ main' = "callback") =>
                  /\ running'.id \notin removed /\ running'.callback = context
                  /\ running'.id < trigger.from /\ running'.id > trigger.last
<1>1. CASE CallNext
  BY <1>1, CallHooksKeeps
<1>2. CASE \/ \E hook \in Hooks : AddScriptHook(hook)
           \/ \E id \in 1 .. MaxId : RemoveScriptHook(id)
  <2>1. HookInv'
    BY <1>2, AddHookKeeps, RemoveHookKeeps
  <2>2. main' = main
    BY <1>2 DEF AddScriptHook, RemoveScriptHook, control
  <2> QED
    BY <2>1, <2>2
<1>3. CASE StartTrigger \/ EndTrigger \/ Startup \/ HotReload
  <2>1. HookInv'
    BY <1>3, StartHooksKeeps, EndHooksKeeps, ContextHooksKeeps
  <2>2. main' # "callback"
    BY <1>3 DEF StartTrigger, EndTrigger, Startup, HotReload
  <2> QED
    BY <2>1, <2>2
<1>4. CASE Return
  <2>1. /\ main \in {"script", "callback"} /\ main' = IF main = "script" THEN "host" ELSE "trigger"
        /\ running' = NoEntry
        /\ UNCHANGED <<registry, removed, trigger, context, place, todo>>
    BY <1>4 DEF Return, InScript
  <2>2. running' \in Entries
    BY <2>1, ScriptsAssumption DEF NoEntry, Entries
  <2>3. place # "startup"
    BY <2>1 DEF HookInv
  <2>4. \/ main' \notin {"trigger", "callback"} /\ trigger.rest = <<>>
        \/ main' \in {"trigger", "callback"}
    BY <2>1 DEF HookInv, TriggerOK
  <2>5. place' \in {"events", "update", "box"}
    BY <2>1, <2>3 DEF HookInv
  <2>6. HookInv'
    BY <2>1, <2>2, <2>4, <2>5, HooksUntouched
  <2> QED
    BY <2>1, <2>6
<1>5. CASE \/ \E parses \in BOOLEAN : AddScriptStyle(parses)
           \/ \E o \in objects : \E v \in Members(o.type, o.of) : ReadMember(o, v)
           \/ \E o, v \in objects : WriteMember(o, v)
           \/ \E o \in objects : Drop(o)
           \/ MoveOwner \/ DestroyOwner \/ ChangeOwner \/ UNCHANGED vars
  <2>1. UNCHANGED <<registry, removed, trigger, context, running, place, main, todo>>
    BY <1>5 DEF AddScriptStyle, ReadMember, WriteMember, Drop, MoveOwner, DestroyOwner,
       ChangeOwner, vars, engine, control
  <2>2. running' \in Entries
    BY <2>1 DEF HookInv
  <2>3. HookInv'
    BY <2>1, <2>2, HooksUntouched
  <2> QED
    BY <2>1, <2>3
<1>6. CASE \/ HostStep \/ ReloadStyles \/ Reload \/ Frame \/ EndFrame \/ ReceiveDanmaku
           \/ ShowDanmaku \/ OpenBox \/ CloseBox \/ Eval \/ GiveOwner
  <2>1. /\ UNCHANGED <<registry, removed, trigger, context, running>>
        /\ main = "host" /\ (main' = main \/ main' = "script")
        /\ place # "startup" /\ (place' = place \/ place' \in {"events", "update", "box"})
    <3>1. CASE HostStep
      BY <3>1 DEF HostStep, Do, HookInv
    <3>2. CASE ReloadStyles \/ Reload
      BY <3>2 DEF ReloadStyles, Reload, Keys, Idle, Do, engine
    <3>3. CASE Frame \/ EndFrame \/ ReceiveDanmaku \/ ShowDanmaku \/ OpenBox \/ CloseBox
      BY <3>3 DEF Frame, EndFrame, ReceiveDanmaku, ShowDanmaku, OpenBox, CloseBox, Idle, Do, engine
    <3>4. CASE Eval \/ GiveOwner
      BY <3>4 DEF Eval, GiveOwner, Idle, engine
    <3> QED
      BY <1>6, <3>1, <3>2, <3>3, <3>4
  <2>2. running' \in Entries /\ trigger.rest = <<>> /\ place' \in {"events", "update", "box"}
    BY <2>1 DEF HookInv, TriggerOK
  <2>3. main' \notin {"trigger", "callback"}
    BY <2>1
  <2>4. HookInv'
    BY <2>1, <2>2, <2>3, HooksUntouched
  <2> QED
    BY <2>3, <2>4
<1> QED
  BY <1>1, <1>2, <1>3, <1>4, <1>5, <1>6 DEF Next

\* Nothing is registered at the start.
LEMMA HookInit == ASSUME Init PROVE HookInv
<1>1. <<>> \in Seq(Entries)
  OBVIOUS
<1>2. /\ registry.lists = [h \in Hooks |-> <<>>] /\ registry.nextId = 1
      /\ registry = [lists |-> registry.lists, nextId |-> registry.nextId]
      /\ removed = {} /\ trigger = NoTrigger
  BY DEF Init, EmptyRegistry
<1>3. registry.lists \in [Hooks -> Seq(Entries)]
  BY <1>1, <1>2
<1>4. registry \in [lists : [Hooks -> Seq(Entries)], nextId : 1 .. MaxId + 1]
  <2>1. 1 \in 1 .. MaxId + 1
    BY ScriptsAssumption
  <2> QED
    BY <1>2, <1>3, <2>1
<1>5. RegistryOK
  BY <1>2, <1>4 DEF RegistryOK, InTurn, ToSet
<1>6. TriggerOK
  BY <1>1, <1>2 DEF TriggerOK, NoTrigger, Hooks, InTurn, ToSet
<1>7. running \in Entries /\ context \in 0 .. MaxContext
  BY ScriptsAssumption DEF Init, NoEntry, Entries
<1> QED
  BY <1>2, <1>5, <1>6, <1>7 DEF Init, HookInv

-----------------------------------------------------------------------------
(* The documents.                                                               *)

Versions == {0} \cup OwnVersions
Contexts == 0 .. MaxContext

\* Every document that is there, but for those whose new container is taken for the
\* one installed last, shows its own sheets as they were read last: alone, which only
\* one that was replaced does, or under the sheets of the container that was used,
\* which is the one there is unless it was replaced.
DocumentOK(d) ==
    /\ styles.shown[d].own = loaded[d]
    /\ Fresh(styles, d) \/ Settled(styles, d)
    /\ d \notin replaced => Done(styles, d)

StyleInv ==
    /\ styles \in StylesOf(Versions, Contexts) /\ loaded \in [Documents -> Versions]
    /\ replaced \subseteq Documents /\ aliased \subseteq Documents
    /\ ContainerOK(styles)
    /\ ~styles.dirty => styles.container.scripts = styles.sheets
    /\ \A d \in styles.live \ aliased : DocumentOK(d)

\* The documents are untouched.
LEMMA StylesUntouched == ASSUME StyleInv, UNCHANGED documents PROVE StyleInv'
<1>1. UNCHANGED <<styles, loaded, replaced, aliased>>
  BY DEF documents
<1>2. ASSUME NEW d \in styles.live \ aliased PROVE DocumentOK(d)'
  BY <1>1, <1>2 DEF StyleInv, DocumentOK
<1> QED
  BY <1>1, <1>2 DEF StyleInv

\* One document has new sheets of its own, and a record; the others are as they were.
LEMMA ReplacedKeeps ==
    ASSUME StyleInv, NEW d \in Documents, NEW own \in Versions, NEW at,
           styles' \in StylesOf(Versions, Contexts),
           styles'.sheets = styles.sheets, styles'.dirty = styles.dirty,
           styles'.container = styles.container,
           styles'.live \subseteq styles.live \cup {d},
           styles'.shown[d] = [at |-> at, own |-> own, scripts |-> <<>>],
           \A e \in Documents \ {d} :
               styles'.shown[e] = styles.shown[e] /\ styles'.records[e] = styles.records[e],
           loaded' = [loaded EXCEPT ![d] = own], replaced' = replaced \cup {d},
           aliased' = IF at = styles'.records[d].expected THEN aliased \cup {d}
                      ELSE aliased \ {d}
    PROVE  StyleInv'
<1>1. styles'.live \subseteq Documents /\ styles.live \subseteq Documents
  BY DEF StylesOf, StyleInv
<1>2. loaded' \in [Documents -> Versions] /\ loaded'[d] = own
      /\ \A e \in Documents \ {d} : loaded'[e] = loaded[e]
  BY DEF StyleInv
<1>3. ASSUME NEW e \in styles'.live \ aliased' PROVE DocumentOK(e)'
  <2>1. CASE e = d
    <3>1. at # styles'.records[d].expected
      BY <1>3, <2>1
    <3>2. Fresh(styles', d)
      BY <3>1 DEF Fresh
    <3> QED
      BY <1>2, <2>1, <3>2 DEF DocumentOK
  <2>2. CASE e # d
    <3>1. e \in styles.live \ aliased /\ e \in Documents \ {d}
      BY <1>1, <1>3, <2>2
    <3>2. DocumentOK(e)
      BY <3>1 DEF StyleInv
    <3> QED
      BY <1>2, <3>1, <3>2 DEF DocumentOK, Done, Fresh, Settled
  <2> QED
    BY <2>1, <2>2
<1>4. ContainerOK(styles)' /\ (~styles.dirty => styles.container.scripts = styles.sheets)'
  BY DEF StyleInv, ContainerOK
<1> QED
  BY <1>2, <1>3, <1>4 DEF StyleInv

\* Where a container can lie.
LEMMA AddressesAre ==
    ASSUME NEW V, NEW W, NEW s \in StylesOf(V, W), NEW d \in Documents, NEW at \in Addresses(s, d)
    PROVE  at \in Nat
<1>1. NewAddress(s) \in Nat
  BY AddressIs
<1>2. s.records[d].expected \in Nat
  BY DEF StylesOf, RecordOf
<1> QED
  BY <1>1, <1>2 DEF Addresses

\* A document is loaded.
LEMMA LoadKeeps ==
    ASSUME StyleInv, NEW d \in Documents, NEW x \in RecordOf(Versions, Contexts), LoadDocument(d, x)
    PROVE  StyleInv'
<1>1. styles \in StylesOf(Versions, Contexts)
  BY DEF StyleInv
<1> DEFINE w == WithRecord(styles, d, x)
<1>2. PICK own \in OwnVersions, at \in Addresses(w, d) :
          /\ styles' = Load(styles, d, own, x, at)
          /\ loaded' = [loaded EXCEPT ![d] = own]
          /\ replaced' = replaced \cup {d}
          /\ aliased' = IF at = x.expected THEN aliased \cup {d} ELSE aliased \ {d}
  BY DEF LoadDocument, WithRecord
<1>3. own \in Versions
  BY DEF Versions
<1>4. at \in Nat
  <2>1. w \in StylesOf(Versions, Contexts)
    BY <1>1, WithRecordIs
  <2> HIDE DEF w
  <2> QED
    BY <2>1, AddressesAre
<1> HIDE DEF w
<1>5. /\ styles' \in StylesOf(Versions, Contexts)
      /\ styles'.sheets = styles.sheets /\ styles'.dirty = styles.dirty
      /\ styles'.container = styles.container
      /\ styles'.live = styles.live \cup {d}
      /\ styles'.shown[d] = [at |-> at, own |-> own, scripts |-> <<>>] /\ styles'.records[d] = x
      /\ \A e \in Documents \ {d} :
             styles'.shown[e] = styles.shown[e] /\ styles'.records[e] = styles.records[e]
  BY <1>1, <1>2, <1>3, <1>4, LoadIs
<1>6. styles'.live \subseteq styles.live \cup {d} /\ styles'.records[d].expected = x.expected
  BY <1>5
<1>7. aliased' = IF at = styles'.records[d].expected THEN aliased \cup {d} ELSE aliased \ {d}
  BY <1>2, <1>6
<1>8. loaded' = [loaded EXCEPT ![d] = own] /\ replaced' = replaced \cup {d}
  BY <1>2
<1> QED
  BY <1>3, <1>5, <1>6, <1>7, <1>8, ReplacedKeeps

\* What is remembered of no document.
LEMMA NoRecordIs ==
    NoRecord \in RecordOf(Versions, Contexts) /\ None \in Compiled(Versions, Contexts)
<1>1. <<>> \in Seq(Contexts) /\ 0 \in Versions
  BY DEF Versions
<1>2. None \in Compiled(Versions, Contexts)
  BY <1>1, CompiledIs DEF None
<1> QED
  BY <1>2 DEF NoRecord, RecordOf

\* A document's sheets are read again.
LEMMA ReloadStylesOK == ASSUME StyleInv, ReloadStyles PROVE StyleInv'
<1>1. styles \in StylesOf(Versions, Contexts) /\ Focus \in Documents
  BY ScriptsAssumption DEF StyleInv, Focus
<1> DEFINE d == Focus
<1>2. PICK own \in OwnVersions, at \in Addresses(styles, d) :
          /\ styles' = Replace(styles, d, own, at)
          /\ loaded' = [loaded EXCEPT ![d] = own]
          /\ aliased' = IF at = styles.records[d].expected THEN aliased \cup {d}
                        ELSE aliased \ {d}
  BY DEF ReloadStyles
<1>3. replaced' = replaced \cup {d}
  BY DEF ReloadStyles
<1> HIDE DEF d
<1>4. d \in Documents /\ own \in Versions /\ at \in Nat
  BY <1>1, <1>2, AddressesAre DEF Versions, d
<1>5. /\ styles' \in StylesOf(Versions, Contexts)
      /\ DocumentOnly(styles', styles, d, [at |-> at, own |-> own, scripts |-> <<>>],
                      styles.records[d])
  BY <1>1, <1>2, <1>4, ReplaceIs
<1>6. /\ styles'.sheets = styles.sheets /\ styles'.dirty = styles.dirty
      /\ styles'.container = styles.container
      /\ styles'.live = styles.live /\ styles'.records[d] = styles.records[d]
      /\ styles'.shown[d] = [at |-> at, own |-> own, scripts |-> <<>>]
      /\ \A e \in Documents \ {d} :
             styles'.shown[e] = styles.shown[e] /\ styles'.records[e] = styles.records[e]
  BY <1>5 DEF DocumentOnly
<1> QED
  BY <1>2, <1>3, <1>4, <1>5, <1>6, ReplacedKeeps

\* A sheet is registered.
LEMMA AddStyleOK ==
    ASSUME StyleInv, context \in Contexts, NEW parses \in BOOLEAN, AddScriptStyle(parses)
    PROVE  StyleInv'
<1>1. styles \in StylesOf(Versions, Contexts)
  BY DEF StyleInv
<1>2. styles' = Add(styles, context, parses) /\ UNCHANGED <<loaded, replaced, aliased>>
  BY DEF AddScriptStyle
<1>3. /\ styles' \in StylesOf(Versions, Contexts)
      /\ styles'.container = styles.container
      /\ styles'.live = styles.live /\ styles'.shown = styles.shown
      /\ styles'.records = styles.records
      /\ ~styles'.dirty => ~styles.dirty /\ styles'.sheets = styles.sheets
  BY <1>1, <1>2, AddIs
<1>4. ASSUME NEW d \in styles'.live \ aliased' PROVE DocumentOK(d)'
  <2>1. DocumentOK(d)
    BY <1>2, <1>3 DEF StyleInv
  <2> QED
    BY <1>2, <1>3, <2>1 DEF DocumentOK, Done, Fresh, Settled
<1>5. ContainerOK(styles)' /\ (~styles.dirty => styles.container.scripts = styles.sheets)'
  BY <1>3 DEF StyleInv, ContainerOK
<1> QED
  BY <1>2, <1>3, <1>4, <1>5 DEF StyleInv

\* Styles are synchronised: every document that is there is done.
LEMMA SyncedKeeps ==
    ASSUME StyleInv, styles' \in StylesOf(Versions, Contexts), ContainerOK(styles'),
           styles'.live = styles.live, styles'.container.scripts = styles'.sheets,
           \A d \in styles.live : Fresh(styles, d) \/ Settled(styles, d) =>
               Done(styles', d) /\ styles'.shown[d].own = styles.shown[d].own,
           UNCHANGED <<loaded, aliased>>, replaced' \subseteq Documents
    PROVE  StyleInv'
<1>1. ASSUME NEW d \in styles'.live \ aliased' PROVE DocumentOK(d)'
  <2>1. d \in styles.live \ aliased
    BY <1>1
  <2>2. DocumentOK(d)
    BY <2>1 DEF StyleInv
  <2>3. Done(styles', d) /\ styles'.shown[d].own = loaded[d]
    BY <2>1, <2>2 DEF DocumentOK
  <2> QED
    BY <2>3 DEF DocumentOK, Done
<1> QED
  BY <1>1 DEF StyleInv

\* The end of the events of a frame, and a hot reload.
LEMMA SyncStylesOK == ASSUME StyleInv, Frame \/ HotReload PROVE StyleInv'
<1>1. styles \in StylesOf(Versions, Contexts) /\ 0 \in Versions /\ ContainerOK(styles)
  BY DEF StyleInv, Versions
<1>2. CASE Frame
  <2>1. styles' = SyncAll(styles) /\ replaced' = {} /\ UNCHANGED <<loaded, aliased>>
    BY <1>2 DEF Frame
  <2>2. /\ styles' \in StylesOf(Versions, Contexts) /\ ContainerOK(styles')
        /\ styles'.sheets = styles.sheets /\ styles'.live = styles.live
        /\ styles'.container.scripts = styles'.sheets
        /\ \A d \in styles.live : Fresh(styles, d) \/ Settled(styles, d) =>
               Done(styles', d) /\ styles'.shown[d].own = styles.shown[d].own
    <3>1. styles.dirty \/ styles.container.scripts = styles.sheets
      BY DEF StyleInv
    <3> QED
      BY <1>1, <2>1, <3>1, SyncAllSettles
  <2>3. replaced' \subseteq Documents
    BY <2>1
  <2> QED
    BY <2>1, <2>2, <2>3, SyncedKeeps
<1>3. CASE HotReload
  <2>1. /\ styles' = ClearStyles(styles) /\ UNCHANGED <<loaded, aliased>>
        /\ replaced' = IF styles' = styles THEN replaced ELSE {}
    BY <1>3 DEF HotReload
  <2>2. CASE styles' = styles
    BY <2>1, <2>2, StylesUntouched DEF documents
  <2>3. CASE styles' # styles
    <3>1. /\ styles' \in StylesOf(Versions, Contexts) /\ ContainerOK(styles')
          /\ styles'.live = styles.live
          /\ styles'.container.scripts = styles'.sheets
          /\ \A d \in styles.live : Fresh(styles, d) \/ Settled(styles, d) =>
                 Done(styles', d) /\ styles'.shown[d].own = styles.shown[d].own
      BY <1>1, <2>1, <2>3, ClearSettles
    <3>2. replaced' \subseteq Documents
      BY <2>1, <2>3
    <3> QED
      BY <2>1, <3>1, <3>2, SyncedKeeps
  <2> QED
    BY <2>2, <2>3
<1> QED
  BY <1>2, <1>3

\* A message box closes.
LEMMA CloseBoxOK == ASSUME StyleInv, CloseBox PROVE StyleInv'
<1>1. styles \in StylesOf(Versions, Contexts) /\ 0 \in Versions /\ "box" \in Documents
  BY ScriptsAssumption DEF StyleInv, Versions
<1>2. /\ styles' = Unload(styles, "box") /\ loaded' = [loaded EXCEPT !["box"] = 0]
      /\ replaced' = replaced \ {"box"} /\ aliased' = aliased \ {"box"}
  BY DEF CloseBox
<1>3. /\ styles' \in StylesOf(Versions, Contexts)
      /\ styles'.sheets = styles.sheets /\ styles'.dirty = styles.dirty
      /\ styles'.container = styles.container
      /\ styles'.live = styles.live \ {"box"} /\ styles'.records = styles.records
      /\ \A e \in Documents \ {"box"} : styles'.shown[e] = styles.shown[e]
  BY <1>1, <1>2, UnloadIs
<1>4. /\ loaded' \in [Documents -> Versions]
      /\ \A e \in Documents \ {"box"} : loaded'[e] = loaded[e]
  BY <1>1, <1>2 DEF StyleInv
<1>5. styles.live \subseteq Documents
  BY <1>1 DEF StylesOf
<1>6. ASSUME NEW d \in styles'.live \ aliased' PROVE DocumentOK(d)'
  <2>1. d \in styles.live \ aliased /\ d \in Documents \ {"box"}
    BY <1>2, <1>3, <1>5, <1>6
  <2>2. DocumentOK(d)
    BY <2>1 DEF StyleInv
  <2>3. d \notin replaced' => d \notin replaced
    BY <1>2, <2>1
  <2> QED
    BY <1>3, <1>4, <2>1, <2>2, <2>3 DEF DocumentOK, Done, Fresh, Settled
<1>7. ContainerOK(styles)' /\ (~styles.dirty => styles.container.scripts = styles.sheets)'
  BY <1>3 DEF StyleInv, ContainerOK
<1>8. replaced' \subseteq Documents /\ aliased' \subseteq Documents
  BY <1>2 DEF StyleInv
<1> QED
  BY <1>3, <1>4, <1>6, <1>7, <1>8 DEF StyleInv

\* Every step keeps it.
LEMMA StyleStep == ASSUME StyleInv, context \in Contexts, [Next]_vars PROVE StyleInv'
<1>1. CASE \E parses \in BOOLEAN : AddScriptStyle(parses)
  BY <1>1, AddStyleOK
<1>2. CASE HostStep
  <2>1. CASE Head(todo) = "window"
    <3>1. LoadDocument("monitor", NoRecord) /\ "monitor" \in Documents
      BY <1>2, <2>1, ScriptsAssumption DEF HostStep
    <3> QED
      BY <3>1, NoRecordIs, LoadKeeps
  <2>2. CASE Head(todo) # "window"
    BY <1>2, <2>2, StylesUntouched DEF HostStep
  <2> QED
    BY <2>1, <2>2
<1>3. CASE Reload
  <2>1. LoadDocument(Focus, NoRecord) /\ Focus \in Documents
    BY <1>3, ScriptsAssumption DEF Reload, Focus
  <2> QED
    BY <2>1, NoRecordIs, LoadKeeps
<1>4. CASE OpenBox
  <2>1. "box" \in Documents
    BY ScriptsAssumption
  <2>2. PICK x \in {NoRecord, styles.records["box"]} : LoadDocument("box", x)
    BY <1>4 DEF OpenBox
  <2>3. styles.records["box"] \in RecordOf(Versions, Contexts)
    BY <2>1 DEF StyleInv, StylesOf
  <2> QED
    BY <2>1, <2>2, <2>3, NoRecordIs, LoadKeeps
<1>5. CASE ReloadStyles \/ Frame \/ HotReload \/ CloseBox
  BY <1>5, ReloadStylesOK, SyncStylesOK, CloseBoxOK
<1>6. CASE \/ \E hook \in Hooks : AddScriptHook(hook)
           \/ \E id \in 1 .. MaxId : RemoveScriptHook(id)
           \/ \E o \in objects : \E v \in Members(o.type, o.of) : ReadMember(o, v)
           \/ \E o, v \in objects : WriteMember(o, v)
           \/ \E o \in objects : Drop(o)
           \/ Return \/ StartTrigger \/ CallNext \/ EndTrigger
  <2>1. UNCHANGED documents
    BY <1>6 DEF AddScriptHook, RemoveScriptHook, ReadMember, WriteMember, Drop, Return,
       StartTrigger, CallNext, EndTrigger
  <2> QED
    BY <2>1, StylesUntouched
<1>7. CASE \/ Startup \/ EndFrame \/ ReceiveDanmaku \/ ShowDanmaku \/ Eval \/ GiveOwner
           \/ MoveOwner \/ DestroyOwner \/ ChangeOwner \/ UNCHANGED vars
  <2>1. UNCHANGED documents
    BY <1>7 DEF Startup, EndFrame, ReceiveDanmaku, ShowDanmaku, Eval, GiveOwner, MoveOwner,
       DestroyOwner, ChangeOwner, vars
  <2> QED
    BY <2>1, StylesUntouched
<1> QED
  BY <1>1, <1>2, <1>3, <1>4, <1>5, <1>6, <1>7 DEF Next

\* No document is there at the start.
LEMMA StyleInit == ASSUME Init PROVE StyleInv
<1>1. /\ styles = NoStyles /\ loaded = [d \in Documents |-> 0]
      /\ replaced = {} /\ aliased = {}
  BY DEF Init
<1>2. <<>> \in Seq(Contexts) /\ 0 \in Versions
  BY DEF Versions
<1>3. /\ [d \in Documents |-> None] \in [Documents -> Compiled(Versions, Contexts)]
      /\ [d \in Documents |-> NoRecord] \in [Documents -> RecordOf(Versions, Contexts)]
      /\ None \in Compiled(Versions, Contexts)
  BY NoRecordIs
<1>4. styles \in StylesOf(Versions, Contexts)
  BY <1>1, <1>2, <1>3 DEF NoStyles, StylesOf
<1>5. styles.live = {} /\ styles.container = None /\ styles.dirty = TRUE
  BY <1>1 DEF NoStyles
<1>6. loaded \in [Documents -> Versions]
  BY <1>1, <1>2
<1> QED
  BY <1>1, <1>4, <1>5, <1>6 DEF StyleInv, ContainerOK

-----------------------------------------------------------------------------
(* All together.                                                                *)

InstalledOK == installed \in [{"sequential", "mappable"} -> Contexts]
ReachedOK == reached \subseteq Tied
ScriptsInv == ScriptInv /\ HookInv /\ StyleInv /\ InstalledOK /\ ReachedOK

\* The helper for a kind of iterators is one of a context there has been.
LEMMA InstalledStep ==
    ASSUME InstalledOK, context \in Contexts, [Next]_vars
    PROVE  InstalledOK'
<1>1. CASE \E o \in objects : \E v \in Members(o.type, o.of) : ReadMember(o, v)
  <2>1. \/ installed' = installed
        \/ \E t : installed' = [installed EXCEPT ![Kind(t)] = context]
    BY <1>1 DEF ReadMember
  <2> QED
    BY <2>1 DEF InstalledOK, Kind
<1>2. CASE ~\E o \in objects : \E v \in Members(o.type, o.of) : ReadMember(o, v)
  <2>1. UNCHANGED installed
    BY <1>2 DEF Next, AddScriptHook, RemoveScriptHook, AddScriptStyle, WriteMember, Drop, Return,
       StartTrigger, CallNext, EndTrigger, Startup, HostStep, HotReload, ReloadStyles, Reload,
       Frame, EndFrame, ReceiveDanmaku, ShowDanmaku, OpenBox, CloseBox, Eval, GiveOwner,
       MoveOwner, DestroyOwner, ChangeOwner, vars, engine
  <2> QED
    BY <2>1 DEF InstalledOK
<1> QED
  BY <1>1, <1>2

\* Whatever a gone object was reached through was held by a script.
LEMMA ReachedStep ==
    ASSUME ScriptInv, ReachedOK, [Next]_vars
    PROVE  ReachedOK'
<1>1. CASE \E o \in objects : \E v \in Members(o.type, o.of) : ReadMember(o, v)
  <2>1. reached' \subseteq reached \cup objects
    BY <1>1 DEF ReadMember, Gone
  <2> QED
    BY <2>1 DEF ScriptInv, TiedToLiving, ReachedOK
<1>2. CASE \E o, v \in objects : WriteMember(o, v)
  <2>1. reached' \subseteq reached \cup objects
    BY <1>2 DEF WriteMember, Gone
  <2> QED
    BY <2>1 DEF ScriptInv, TiedToLiving, ReachedOK
<1>3. CASE /\ ~\E o \in objects : \E v \in Members(o.type, o.of) : ReadMember(o, v)
           /\ ~\E o, v \in objects : WriteMember(o, v)
  <2>1. UNCHANGED reached
    BY <1>3 DEF Next, AddScriptHook, RemoveScriptHook, AddScriptStyle, Drop, Return,
       StartTrigger, CallNext, EndTrigger, Startup, HostStep, HotReload, ReloadStyles, Reload,
       Frame, EndFrame, ReceiveDanmaku, ShowDanmaku, OpenBox, CloseBox, Eval, GiveOwner,
       MoveOwner, DestroyOwner, ChangeOwner, vars
  <2> QED
    BY <2>1 DEF ReachedOK
<1> QED
  BY <1>1, <1>2, <1>3

\* The parts hold together at the start and through every step.
LEMMA ScriptsInvariant == Spec => []ScriptsInv
<1>1. Init => ScriptsInv
  <2> SUFFICES ASSUME Init PROVE ScriptsInv
    OBVIOUS
  <2>1. ScriptInv /\ HookInv /\ StyleInv
    BY ScriptInit, HookInit, StyleInit
  <2>2. InstalledOK /\ ReachedOK
    BY ScriptsAssumption DEF Init, InstalledOK, Contexts, ReachedOK
  <2> QED
    BY <2>1, <2>2 DEF ScriptsInv
<1>2. ScriptsInv /\ [Next]_vars => ScriptsInv'
  <2> SUFFICES ASSUME ScriptsInv, [Next]_vars PROVE ScriptsInv'
    OBVIOUS
  <2>1. ScriptInv /\ HookInv /\ StyleInv /\ InstalledOK /\ ReachedOK /\ context \in Contexts
    BY DEF ScriptsInv, HookInv, Contexts
  <2>2. ScriptInv'
    BY <2>1, ScriptStep
  <2>3. HookInv'
    BY <2>1, HookStep
  <2>4. StyleInv'
    BY <2>1, StyleStep
  <2>5. InstalledOK' /\ ReachedOK'
    BY <2>1, InstalledStep, ReachedStep
  <2> QED
    BY <2>2, <2>3, <2>4, <2>5 DEF ScriptsInv
<1> QED
  BY <1>1, <1>2, PTL DEF Spec

\* Of the kinds of objects in the tables, no script reaches one that is moved away or
\* dead, in whatever order it obtained, kept and let go of what it holds, and however
\* the owner moves, changes and dies meanwhile, but for the two ways LiveObjectsReached
\* names: each other twin, view and copy is tied to a lifetime that ends no later than
\* what it refers to, owned by JavaScript, or gone with the callback it is an argument
\* of (binding.cxx).
THEOREM ScriptsReachLiving == Spec => []LiveObjectsReached
<1>1. Spec => []ScriptInv
  BY ScriptInit, ScriptStep, PTL DEF Spec
<1> QED
  BY <1>1, PTL DEF ScriptInv

\* Every variable has a value of its kind, and what is registered has an identifier
\* that was given in this context, however many hooks are added and removed and
\* however often the context is replaced (js_hook.cxx, js_engine.cxx).
THEOREM ScriptsTypeCorrect == Spec => []TypeOK
<1>1. ScriptsInv => TypeOK
  <2> SUFFICES ASSUME ScriptsInv PROVE TypeOK
    OBVIOUS
  <2>1. /\ context \in 0 .. MaxContext /\ running \in Entries
        /\ place \in {"startup", "events", "update", "box"}
        /\ registry \in [lists : [Hooks -> Seq(Entries)], nextId : 1 .. MaxId + 1]
        /\ trigger \in [rest : Seq(Entries), hook : Hooks, from : Nat, last : Nat]
        /\ removed \subseteq 1 .. MaxId
    BY DEF ScriptsInv, HookInv, RegistryOK, TriggerOK
  <2>2. \A h \in Hooks : \A e \in ToSet(registry.lists[h]) : e \in Entries /\ e.id < registry.nextId
    BY <2>1 DEF ToSet, ScriptsInv, HookInv, RegistryOK
  <2>3. ToSet(trigger.rest) \subseteq Entries
    BY <2>1 DEF ToSet
  <2>4. ToSet(styles.sheets) \subseteq 0 .. MaxContext /\ styles.live \subseteq Documents
    <3>1. styles.sheets \in Seq(Contexts) /\ styles.live \subseteq Documents
      BY DEF ScriptsInv, StyleInv, StylesOf
    <3>2. ToSet(styles.sheets) \subseteq Contexts
      BY <3>1 DEF ToSet
    <3> QED
      BY <3>1, <3>2 DEF Contexts
  <2>5. /\ loaded \in [Documents -> {0} \cup OwnVersions]
        /\ replaced \subseteq Documents /\ aliased \subseteq Documents
        /\ installed \in [{"sequential", "mappable"} -> 0 .. MaxContext]
    BY DEF ScriptsInv, StyleInv, Versions, InstalledOK, Contexts
  <2>6. Tied \subseteq JSObjects
    BY DEF Tied, TiedFirmly, HeldAlive, TiedLoosely, JSObjects, Twin, Transplant, Reference, Value,
       Objects, Infos, NoInfo, Registered, Containers, Sequential, Mappable
  <2>7. /\ objects \subseteq JSObjects /\ cpp \in [Objects -> Fates]
        /\ main \in {"host", "script", "trigger", "callback"}
        /\ todo \in Seq(Hooks \cup HostSteps) /\ reached \subseteq JSObjects
    <3>1. objects \subseteq JSObjects /\ cpp \in [Objects -> Fates]
      BY <2>6 DEF ScriptsInv, ScriptInv, TiedToLiving
    <3>2. /\ main \in {"host", "script", "trigger", "callback"}
          /\ todo \in Seq(Hooks \cup HostSteps)
      BY DEF ScriptsInv, ScriptInv, ArgumentsLive
    <3>3. reached \subseteq JSObjects
      BY <2>6 DEF ScriptsInv, ReachedOK
    <3> QED
      BY <3>1, <3>2, <3>3
  <2> QED
    BY <2>1, <2>2, <2>3, <2>4, <2>5, <2>7 DEF TypeOK
<1> QED
  BY <1>1, ScriptsInvariant, PTL

\* However often a document's sheets are read again, a document is made anew at an
\* address that still has a record, sheets of scripts are added and all of them
\* cleared: a document that has been synchronised since shows its own sheets, as they
\* were read last, under one layer of the scripts', unless its container was last made
\* where the one installed before had been (script_style.cxx:79-111).
THEOREM StylesLayeredOnce == Spec => []LayeredUnlessAliased
<1>1. ScriptsInv => LayeredUnlessAliased
  BY DEF ScriptsInv, StyleInv, DocumentOK, Done, Settled, LayeredUnlessAliased, Layered
<1> QED
  BY <1>1, ScriptsInvariant, PTL

\* A trigger calls what was registered before it began and has not been removed since,
\* in the order of registration, each once, and never a function of another context
\* (js_hook.cxx:49-67).
THEOREM TriggersCallInTurn == Spec => CalledInTurn
<1>1. ASSUME ScriptsInv, [Next]_vars
      PROVE  [main # "callback" /\ main' = "callback" =>
                 /\ running'.id \notin removed /\ running'.callback = context
                 /\ running'.id < trigger.from /\ running'.id > trigger.last]_vars
  BY <1>1, HookStep DEF ScriptsInv
<1> QED
  BY <1>1, ScriptsInvariant, PTL DEF Spec, CalledInTurn
=============================================================================
