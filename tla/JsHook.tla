------------------------------- MODULE JsHook -------------------------------
(* The registry of script hooks as operators on a record: a list of callbacks  *)
(* for every hook, under identifiers that all hooks share.  A callback is the  *)
(* context of the script function it holds.                                    *)
EXTENDS Naturals, Sequences, SequencesExt, StdContainers

Hooks == {"sysStartUp", "postLogin", "onReceivedDanmaku", "postShowedDanmaku",
          "onDanmakuDrop", "postHotreloadStyle", "postHotreloadFull"}

EmptyRegistry == [lists |-> [h \in Hooks |-> <<>>], nextId |-> 1]

AddHookSameId(registry, hook, callback) ==
    [registry EXCEPT !.lists[hook] = Append(@, [id |-> registry.nextId, callback |-> callback])]
AddHook(registry, hook, callback) ==
    [registry EXCEPT !.lists[hook] = Append(@, [id |-> registry.nextId, callback |-> callback]),
                     !.nextId = @ + 1]

\* An identifier does not say which list it is in: all are searched.
RemoveHook(registry, id) ==
    [registry EXCEPT !.lists =
        [h \in Hooks |-> EraseIf(registry.lists[h], {e \in ToSet(registry.lists[h]) : e.id = id})]]

\* The identifiers start again.
Clear(registry) == EmptyRegistry

\* A trigger goes through a copy of the list, and looks every callback up again.
Snapshot(registry, hook) == registry.lists[hook]
StillListed(registry, hook, id) == hook \in DOMAIN registry.lists
StillRegistered(registry, hook, id) == \E e \in ToSet(registry.lists[hook]) : e.id = id
=============================================================================
