------------------------ MODULE ElementQuickJsBinding ------------------------
(* The conversions between C++ and JavaScript as operators: which C++ value      *)
(* becomes a copy that JavaScript owns, which a twin or view of an object that   *)
(* C++ owns, whose lifetime a twin is tied to, and what is accepted back.        *)
(* The types are those the program registers and those of the binding's tests;   *)
(* the program itself hands scripts DanmakuInfo and Element alone.               *)
EXTENDS Naturals, Sequences

Registered == {"TestStruct", "TestStruct2", "CannotMove", "DanmakuInfo", "DanmakuGuiInfo", "Element"}
Aware == {"TestStruct", "TestStruct2"}                  \* with a LifetimeInformant
Moveable == {"TestStruct", "TestStruct2", "DanmakuInfo"}
Sequential == {"Items", "Span"}                         \* metapp's MetaIndexable
Mappable == {"Table"}
Views == {"Span"}                                       \* not owning, even as a value
Containers == Sequential \cup Mappable

\* Pure data is translated, in whatever form it arrives.
Translation == [empty |-> "null", void |-> "undefined", enum |-> "string", bool |-> "boolean",
                number |-> "number", string |-> "string", timePoint |-> "date",
                duration |-> "number"]

\* The objects, and those that are part of another and die with it: its members, and
\* what its vectors and its map store, of types with a lifetime and without one.
Infos == {"info1", "info2"}                             \* where copies of a danmaku can be
Objects == {"owner", "inner", "items", "item", "plain", "table", "entry", "vector", "vectorItem",
            "vectorPlain", "copy", "element"} \cup Infos
Parts == [owner |-> {"inner", "items", "item", "plain", "table", "entry"},
          vector |-> {"vectorItem", "vectorPlain"}]
Stored == {"item", "plain", "entry"}                    \* these can leave a living owner
Tree(o) == {o} \cup IF o \in DOMAIN Parts THEN Parts[o] ELSE {}
NoInfo == "none"

Reference(type, o) == [type |-> type, form |-> "reference", of |-> o]
Value(type, o) == [type |-> type, form |-> "value", of |-> o]
Data(type) == Value(type, "none")

\* What the members, methods, indices and keys of an object yield.  The element of
\* a vector is had by index, or as the result of a method of the owner.
Members(type, of) ==
    CASE type = "TestStruct" -> {Reference("CannotMove", "inner"), Reference("Items", "items"),
                                 Reference("TestStruct2", "item"), Value("Span", "item"),
                                 Reference("Table", "table"), Value("TestStruct2", "copy"),
                                 Value("Items", "vector"), Value("CannotMove", "copy"), Data("string")}
      [] type \in Sequential /\ of # "vector" -> {Reference("TestStruct2", "item"),
                                                 Reference("DanmakuInfo", "plain"), Data("number")}
      [] type \in Sequential /\ of = "vector" -> {Reference("TestStruct2", "vectorItem"),
                                                 Reference("DanmakuInfo", "vectorPlain")}
      [] type = "Table" -> {Reference("TestStruct2", "entry"), Data("string")}
      [] type = "DanmakuInfo" -> {Data("string"), Data("timePoint")}
      [] type = "DanmakuGuiInfo" -> {Reference("Element", "element")}
      [] OTHER -> {Data("string")}

-----------------------------------------------------------------------------
(* From C++ to JavaScript.                                                   *)

Primitive(js) == [js |-> js]
Exception == Primitive("exception")
Twin(v, info) ==
    [js |-> "object", makingMethod |-> "twined", type |-> v.type, of |-> v.of, info |-> info]
Transplant(v, info) ==
    [js |-> "object", makingMethod |-> "transplanted", type |-> v.type, of |-> v.of, info |-> info]

JSObjects == [js : {"object"}, makingMethod : {"twined", "transplanted"},
              type : Registered \cup Containers, of : Objects, info : Objects \cup {NoInfo}]

ShareLifetimeInfo(v) == IF v.type \in Aware THEN v.of ELSE NoInfo

Cpp2JSTwin(v) == Twin(v, ShareLifetimeInfo(v))
Cpp2JSTransplant(v) ==
    IF v.type \in Moveable THEN Transplant(v, ShareLifetimeInfo(v)) ELSE Exception

\* A view of a container needs a lifetime to be tied to.
Cpp2JSContainer(v, info) ==
    IF v.form = "reference" \/ v.type \in Views
    THEN IF info = NoInfo THEN Exception ELSE Twin(v, info)
    ELSE Transplant(v, NoInfo)

\* The lifetime a twin inherits takes the place of its own.
Cpp2JSAutoOwn(v, info) ==
    CASE v.type \in DOMAIN Translation -> Primitive(Translation[v.type])
      [] v.type \in Containers -> Cpp2JSContainer(v, info)
      [] v.type \in Registered /\ v.form = "reference" -> Cpp2JSTwin(v)
      [] v.type \in Registered /\ v.form = "value" -> Cpp2JSTransplant(v)
      [] OTHER -> Exception
Cpp2JSAuto(v, info) ==
    CASE v.type \in DOMAIN Translation -> Primitive(Translation[v.type])
      [] v.type \in Containers -> Cpp2JSContainer(v, info)
      [] v.type \in Registered /\ v.form = "reference" ->
             IF info = NoInfo THEN Cpp2JSTwin(v) ELSE Twin(v, info)
      [] v.type \in Registered /\ v.form = "value" -> Cpp2JSTransplant(v)
      [] OTHER -> Exception

\* What a member read yields inherits the subject's lifetime; the elements of a
\* sequential container do not.
Inherited(subject) == IF subject.type \in Sequential THEN NoInfo ELSE subject.info

\* How an argument of a bridged callback is declared decides its form.
MakeBridgeArg(declared, type, o) ==
    Cpp2JSAuto(IF declared = "reference" THEN Reference(type, o) ELSE Value(type, o), NoInfo)

-----------------------------------------------------------------------------
(* From JavaScript to C++.  cpp says what has become of each object.         *)

Fates == {"unused", "alive", "moved", "dead"}

\* A moved-away or dead object is not accessed; without information any is.
LifetimeValid(cpp, info) == info # NoInfo => cpp[info] = "alive"

Castable(js, type) ==
    \/ js \in {"null", "undefined"}
    \/ js \in {"number", "boolean"} /\ type \in {"number", "bool"}
    \/ js = "string" /\ type \in {"string", "enum"}

\* A function, a Date or a number of milliseconds, an object that is reached, or
\* a value of the declared kind.
Js2CppAs(cpp, type, v) ==
    CASE type = "callback" -> v.js = "function"
      [] type = "timePoint" -> v.js = "date"
      [] type = "duration" -> v.js = "number"
      [] OTHER -> \/ v.js = "object" /\ LifetimeValid(cpp, v.info) /\ type = v.type
                  \/ v.js \notin {"object", "function", "date", "foreign"} /\ Castable(v.js, type)

-----------------------------------------------------------------------------
(* The fate of objects.                                                      *)

Create(cpp, o) == [x \in Objects |-> IF x \in Tree(o) THEN "alive" ELSE cpp[x]]
Kill(cpp, o) ==
    [x \in Objects |-> IF x \in Tree(o) /\ cpp[x] # "unused" THEN "dead" ELSE cpp[x]]

\* The copies JavaScript owns die when their object is freed, or their context.
Owned(objects) == {o.of : o \in {x \in objects : x.makingMethod = "transplanted"}}
FreeAll(cpp, objects) ==
    [x \in Objects |-> IF \E o \in Owned(objects) : x \in Tree(o) THEN "dead" ELSE cpp[x]]

\* Nothing refers to the object or its parts: its place can be taken.
Unreferenced(objects, o) == \A x \in objects : {x.of, x.info} \cap Tree(o) = {}
=============================================================================
