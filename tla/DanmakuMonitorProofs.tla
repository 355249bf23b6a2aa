------------------------- MODULE DanmakuMonitorProofs -------------------------
(* What the operations on the list of danmakus keep, for every length of the    *)
(* list and every number of elements.  The list, the queue and the elements are *)
(* looked at apart from the rest of the record.                                 *)
EXTENDS DanmakuMonitor, Induction

Monitors ==
    [danmakuInGui : Seq(Elements), pendingAnimDanmaku : Seq(Elements),
     elements : [Elements -> ElementStates], document : Documents,
     scrollLocked : BOOLEAN, toggleOn : BOOLEAN, isLive : BOOLEAN, listShown : BOOLEAN,
     liveStatusRequestPending : BOOLEAN, activeLiverUID : BOOLEAN, subscribed : BOOLEAN]

Distinct(list) == \A i, j \in 1 .. Len(list) : list[i] = list[j] => i = j

\* Those after the n-th wait in the queue, in the order of the list.
Wait(list, queue, n) ==
    /\ Len(queue) = Len(list) - n
    /\ \A i \in 1 .. Len(list) - n : queue[i] = list[n + i]

\* The first n have appeared, the others have an element that has not.
Appeared(list, elements, n) ==
    /\ \A i \in 1 .. n : elements[list[i]] = "animated"
    /\ \A i \in n + 1 .. Len(list) : elements[list[i]] \in {"created", "styled"}

\* The list, its queue and their elements, in a document that is whole or not.
ListOK(list, queue, elements, whole) ==
    /\ list \in Seq(Elements) /\ queue \in Seq(Elements)
    /\ elements \in [Elements -> ElementStates]
    /\ \A e \in Elements : elements[e] # "jumped"
    /\ Len(list) <= MaxDanmakuInGui /\ Distinct(list)
    /\ \E n \in 0 .. Len(list) :
          Wait(list, queue, n) /\ (whole => Appeared(list, elements, n))

Whole(m) == m.document = "whole"
MonitorList(m) == ListOK(m.danmakuInGui, m.pendingAnimDanmaku, m.elements, Whole(m))
MonitorShown(m) == Whole(m) => m.toggleOn = m.scrollLocked /\ m.listShown = m.isLive
MonitorActivity(m) == m.subscribed => m.activeLiverUID

\* What holds between any two calls of the window.
MonitorInv(m) == m \in Monitors /\ MonitorList(m) /\ MonitorShown(m) /\ MonitorActivity(m)

SameList(m, k) ==
    /\ k.danmakuInGui = m.danmakuInGui /\ k.pendingAnimDanmaku = m.pendingAnimDanmaku
    /\ k.elements = m.elements /\ k.document = m.document

\* An operation on the list alone.
SameState(m, k) ==
    /\ k.document = m.document /\ k.scrollLocked = m.scrollLocked /\ k.toggleOn = m.toggleOn
    /\ k.isLive = m.isLive /\ k.listShown = m.listShown
    /\ k.liveStatusRequestPending = m.liveStatusRequestPending
    /\ k.activeLiverUID = m.activeLiverUID /\ k.subscribed = m.subscribed

-----------------------------------------------------------------------------
(* The elements of the list.                                                   *)

\* In a whole document every danmaku of the list has a living element.
LEMMA ListedLive ==
    ASSUME NEW list, NEW queue, NEW elements, ListOK(list, queue, elements, TRUE)
    PROVE  \A i \in 1 .. Len(list) : elements[list[i]] \in InDocument
<1>1. PICK n \in 0 .. Len(list) : Appeared(list, elements, n)
  BY DEF ListOK
<1>2. Len(list) \in Nat
  BY DEF ListOK
<1> TAKE i \in 1 .. Len(list)
<1>3. i \in 1 .. n \/ i \in n + 1 .. Len(list)
  BY <1>2
<1>4. elements[list[i]] \in {"animated", "created", "styled"}
  BY <1>1, <1>3 DEF Appeared
<1> QED
  BY <1>4 DEF InDocument, ElementStates

\* There no pointer of the list or the queue is left to a destroyed element.
LEMMA PointersLive ==
    ASSUME NEW m, MonitorInv(m), Whole(m)
    PROVE  ~StartsDestroyed(m) /\ ~EvictsDestroyed(m)
<1> DEFINE list == m.danmakuInGui
           queue == m.pendingAnimDanmaku
<1>1. list \in Seq(Elements) /\ queue \in Seq(Elements) /\ ListOK(list, queue, m.elements, TRUE)
  BY DEF MonitorInv, MonitorList, ListOK
<1>2. \A i \in 1 .. Len(list) : m.elements[list[i]] # "none"
  BY <1>1, ListedLive DEF InDocument
<1>3. Len(list) \in Nat /\ Len(queue) \in Nat
  BY <1>1
<1>4. ASSUME queue # <<>> PROVE m.elements[Head(queue)] # "none"
  <2>1. PICK n \in 0 .. Len(list) : Wait(list, queue, n)
    BY <1>1 DEF ListOK
  <2>2. Len(queue) > 0 /\ Head(queue) = queue[1]
    BY <1>1, <1>3, <1>4, EmptySeq
  <2>3. 1 \in 1 .. Len(list) - n /\ n + 1 \in 1 .. Len(list)
    BY <1>3, <2>1, <2>2 DEF Wait
  <2> QED
    BY <1>2, <2>1, <2>2, <2>3 DEF Wait
<1>5. ASSUME Len(list) >= MaxDanmakuInGui PROVE m.elements[Head(list)] # "none"
  <2>1. Len(list) > 0 /\ 1 \in 1 .. Len(list)
    BY <1>3, <1>5, MonitorAssumption
  <2>2. Head(list) = list[1]
    BY <1>1, <2>1
  <2> QED
    BY <1>2, <2>1, <2>2
<1> QED
  BY <1>4, <1>5 DEF StartsDestroyed, EvictsDestroyed

\* A record with another list, another queue and other elements.
WithList(m, list, queue, elements) ==
    [m EXCEPT !.danmakuInGui = list, !.pendingAnimDanmaku = queue, !.elements = elements]

\* Nothing but the list and its elements changes.
LEMMA ListChanged ==
    ASSUME NEW m \in Monitors, NEW list, NEW queue, NEW elements
    PROVE  LET k == WithList(m, list, queue, elements) IN
           /\ (/\ list \in Seq(Elements) /\ queue \in Seq(Elements)
               /\ elements \in [Elements -> ElementStates]) => k \in Monitors
           /\ SameState(m, k)
           /\ k.danmakuInGui = list /\ k.pendingAnimDanmaku = queue /\ k.elements = elements
<1> DEFINE k == WithList(m, list, queue, elements)
<1>1. ASSUME list \in Seq(Elements), queue \in Seq(Elements),
             elements \in [Elements -> ElementStates]
      PROVE  k \in Monitors
  BY <1>1 DEF Monitors, WithList
<1>2. k.danmakuInGui = list /\ k.pendingAnimDanmaku = queue /\ k.elements = elements
  BY DEF Monitors, WithList
<1>3. SameState(m, k)
  BY DEF Monitors, SameState, WithList
<1> QED
  BY <1>1, <1>2, <1>3

\* What RemoveElements does to the elements: it touches those in the document alone.
Without(elements, es) ==
    [e \in Elements |->
        IF e \in es /\ elements[e] \in InDocument THEN "none" ELSE elements[e]]

\* Removed elements are in no document; the others stay where they are.
LEMMA Removed ==
    ASSUME NEW m \in Monitors, NEW es
    PROVE  /\ RemoveElements(m, es) =
                WithList(m, m.danmakuInGui, m.pendingAnimDanmaku, Without(m.elements, es))
           /\ Without(m.elements, es) \in [Elements -> ElementStates]
           /\ \A e \in Elements :
                 Without(m.elements, es)[e] =
                     IF e \in es /\ m.elements[e] \in InDocument THEN "none" ELSE m.elements[e]
<1>1. m.elements \in [Elements -> ElementStates] /\ "none" \in ElementStates
  BY DEF Monitors, ElementStates
<1>2. /\ Without(m.elements, es) \in [Elements -> ElementStates]
      /\ \A e \in Elements :
            Without(m.elements, es)[e] =
                IF e \in es /\ m.elements[e] \in InDocument THEN "none" ELSE m.elements[e]
  BY <1>1 DEF Without
<1>3. RemoveElements(m, es) = [m EXCEPT !.elements = Without(m.elements, es)]
  BY DEF RemoveElements, Without
<1> DEFINE f == Without(m.elements, es)
<1> HIDE DEF f
<1>4. [m EXCEPT !.elements = f] = WithList(m, m.danmakuInGui, m.pendingAnimDanmaku, f)
  BY DEF Monitors, WithList
<1> QED
  BY <1>2, <1>3, <1>4 DEF f

\* An empty list is in order.
LEMMA EmptyList ==
    ASSUME NEW elements \in [Elements -> ElementStates], NEW whole,
           \A e \in Elements : elements[e] # "jumped"
    PROVE  ListOK(<<>>, <<>>, elements, whole)
<1>1. <<>> \in Seq(Elements) /\ Len(<<>>) = 0
  OBVIOUS
<1>2. Wait(<<>>, <<>>, 0) /\ Appeared(<<>>, elements, 0) /\ Distinct(<<>>)
  BY <1>1 DEF Wait, Appeared, Distinct
<1>3. 0 <= MaxDanmakuInGui
  BY MonitorAssumption
<1> QED
  BY <1>1, <1>2, <1>3 DEF ListOK

\* Everything is removed.
LEMMA Cleared ==
    ASSUME NEW m \in Monitors, \A e \in Elements : m.elements[e] # "jumped"
    PROVE  LET k == ClearDanmaku(m) IN
           /\ k \in Monitors /\ SameState(m, k) /\ MonitorList(k)
           /\ k.danmakuInGui = <<>> /\ k.pendingAnimDanmaku = <<>>
           /\ \A e \in Elements : k.elements[e] \in {"none", m.elements[e]}
<1> DEFINE f == Without(m.elements, ToSet(m.danmakuInGui))
           k == WithList(m, <<>>, <<>>, f)
<1>1. /\ RemoveElements(m, ToSet(m.danmakuInGui)) =
            WithList(m, m.danmakuInGui, m.pendingAnimDanmaku, f)
      /\ f \in [Elements -> ElementStates]
      /\ \A e \in Elements : f[e] \in {"none", m.elements[e]}
  BY Removed
<1> HIDE DEF f
<1>2. ClearDanmaku(m) = k
  BY <1>1 DEF ClearDanmaku, WithList, Monitors
<1>3. /\ k \in Monitors /\ SameState(m, k) /\ k.elements = f
      /\ k.danmakuInGui = <<>> /\ k.pendingAnimDanmaku = <<>>
  <2>1. <<>> \in Seq(Elements)
    OBVIOUS
  <2>2. k \in Monitors
    BY <1>1, <2>1, ListChanged
  <2>3. SameState(m, k)
    BY ListChanged
  <2>4. k.elements = f /\ k.danmakuInGui = <<>> /\ k.pendingAnimDanmaku = <<>>
    BY ListChanged
  <2> QED
    BY <2>2, <2>3, <2>4
<1>4. \A e \in Elements : f[e] # "jumped"
  BY <1>1
<1> HIDE DEF k
<1>5. MonitorList(k)
  BY <1>1, <1>3, <1>4, EmptyList DEF MonitorList
<1> QED
  BY <1>1, <1>2, <1>3, <1>5

-----------------------------------------------------------------------------
(* Eviction and new danmakus.                                                  *)

\* The queue without the oldest danmaku of the list.
LEMMA QueueWithoutOldest ==
    ASSUME NEW list \in Seq(Elements), list # <<>>, Distinct(list), NEW queue \in Seq(Elements),
           NEW n \in 0 .. Len(list), Wait(list, queue, n)
    PROVE  LET rest == EraseIf(queue, {Head(list)}) IN
           /\ rest \in Seq(Elements)
           /\ Wait(Tail(list), rest, IF n = 0 THEN 0 ELSE n - 1)
<1> DEFINE X == {Head(list)}
           m == IF n = 0 THEN 1 ELSE 0
           k == IF n = 0 THEN 0 ELSE n - 1
           rest == EraseIf(queue, X)
<1>0. n \in Nat /\ (n = 0 => m = 1 /\ k = 0) /\ (n # 0 => m = 0 /\ k = n - 1)
  OBVIOUS
<1> HIDE DEF m, k
<1>1. /\ Len(list) \in Nat \ {0} /\ Head(list) = list[1]
      /\ Tail(list) \in Seq(Elements) /\ Len(Tail(list)) = Len(list) - 1
      /\ \A i \in 1 .. Len(list) - 1 : Tail(list)[i] = list[i + 1]
  BY HeadTailProperties, EmptySeq
<1>2. Len(queue) = Len(list) - n /\ \A i \in 1 .. Len(list) - n : queue[i] = list[n + i]
  BY DEF Wait
<1>3. m \in 0 .. Len(queue)
  BY <1>0, <1>1, <1>2
<1>4. \A i \in 1 .. Len(queue) : queue[i] \in X <=> i <= m
  <2> TAKE i \in 1 .. Len(queue)
  <2>1. queue[i] = list[n + i] /\ n + i \in 1 .. Len(list) /\ 1 \in 1 .. Len(list)
    BY <1>1, <1>2
  <2>2. queue[i] = list[1] <=> n + i = 1
    BY <2>1 DEF Distinct
  <2> QED
    BY <1>0, <1>1, <2>2
<1>5. /\ rest \in Seq(Elements) /\ Len(rest) = Len(queue) - m
      /\ \A j \in 1 .. Len(queue) - m : rest[j] = queue[m + j]
  <2>1. rest = EraseIf(queue, X)
    OBVIOUS
  <2> HIDE DEF X, rest
  <2> QED
    BY <1>3, <1>4, <2>1, EraseIfFirst
<1> HIDE DEF rest
<1>6. Len(rest) = Len(Tail(list)) - k
  BY <1>0, <1>1, <1>2, <1>5
<1>7. ASSUME NEW i \in 1 .. Len(Tail(list)) - k PROVE rest[i] = Tail(list)[k + i]
  <2>1. i \in 1 .. Len(queue) - m /\ m + i \in 1 .. Len(list) - n
    BY <1>0, <1>1, <1>2, <1>5, <1>6
  <2>2. rest[i] = list[n + (m + i)]
    BY <1>2, <1>5, <2>1
  <2>3. k + i \in 1 .. Len(list) - 1 /\ (k + i) + 1 = n + (m + i)
    <3>1. i \in Nat \ {0} /\ i <= Len(list) - 1 - k
      BY <1>1, <1>7, <1>0
    <3>2. k + 1 = n + m
      BY <1>0
    <3> QED
      BY <1>0, <1>1, <3>1, <3>2
  <2> QED
    BY <1>1, <2>2, <2>3
<1> QED
  BY <1>5, <1>6, <1>7 DEF rest, k, Wait

\* Without its oldest danmaku the list is in order.
LEMMA ListWithoutOldest ==
    ASSUME NEW list, NEW queue, NEW elements, NEW whole, NEW left,
           ListOK(list, queue, elements, whole), list # <<>>,
           left \in [Elements -> ElementStates],
           \A e \in Elements : left[e] = IF e = Head(list) /\ elements[e] \in InDocument
                                         THEN "none" ELSE elements[e]
    PROVE  ListOK(Tail(list), EraseIf(queue, {Head(list)}), left, whole)
<1> DEFINE rest == EraseIf(queue, {Head(list)})
           new == Tail(list)
<1>1. /\ list \in Seq(Elements) /\ queue \in Seq(Elements) /\ Distinct(list)
      /\ Len(list) <= MaxDanmakuInGui /\ MaxDanmakuInGui \in Nat
      /\ \A e \in Elements : elements[e] # "jumped"
  BY MonitorAssumption DEF ListOK
<1>2. PICK n \in 0 .. Len(list) :
          Wait(list, queue, n) /\ (whole => Appeared(list, elements, n))
  BY DEF ListOK
<1>3. /\ Len(list) \in Nat \ {0} /\ Head(list) = list[1]
      /\ new \in Seq(Elements) /\ Len(new) = Len(list) - 1
      /\ \A i \in 1 .. Len(list) - 1 : new[i] = list[i + 1]
      /\ \A i \in 1 .. Len(list) : list[i] \in Elements
  BY <1>1, HeadTailProperties, EmptySeq, ElementOfSeq
<1> DEFINE k == IF n = 0 THEN 0 ELSE n - 1
<1>4. rest \in Seq(Elements) /\ Wait(new, rest, k) /\ k \in 0 .. Len(new)
  BY <1>1, <1>2, <1>3, QueueWithoutOldest
<1>9. n \in Nat /\ (n = 0 => k = 0) /\ (n # 0 => k = n - 1)
  OBVIOUS
<1> HIDE DEF rest, new, k
<1>5. Distinct(new)
  <2> SUFFICES ASSUME NEW i \in 1 .. Len(new), NEW j \in 1 .. Len(new), new[i] = new[j]
               PROVE  i = j
    BY DEF Distinct
  <2>1. i + 1 \in 1 .. Len(list) /\ j + 1 \in 1 .. Len(list)
    BY <1>3
  <2>2. new[i] = list[i + 1] /\ new[j] = list[j + 1]
    BY <1>3
  <2>3. i + 1 = j + 1
    BY <1>1, <2>1, <2>2 DEF Distinct
  <2> QED
    BY <2>3
<1>6. ASSUME NEW i \in 1 .. Len(list) - 1 PROVE left[new[i]] = elements[list[i + 1]]
  <2>1. new[i] = list[i + 1] /\ i + 1 \in 1 .. Len(list) /\ 1 \in 1 .. Len(list) /\ i + 1 # 1
    BY <1>3
  <2>2. new[i] # Head(list) /\ new[i] \in Elements
    BY <1>1, <1>3, <2>1 DEF Distinct
  <2> QED
    BY <2>1, <2>2
<1>7. ASSUME whole PROVE Appeared(new, left, k)
  <2>1. ASSUME NEW i \in 1 .. k PROVE left[new[i]] = "animated"
    <3>1. i \in 1 .. Len(list) - 1 /\ i + 1 \in 1 .. n
      BY <1>3, <1>9
    <3> QED
      BY <1>2, <1>6, <1>7, <3>1 DEF Appeared
  <2>2. ASSUME NEW i \in k + 1 .. Len(new) PROVE left[new[i]] \in {"created", "styled"}
    <3>1. i \in 1 .. Len(list) - 1 /\ i + 1 \in n + 1 .. Len(list)
      BY <1>3, <1>9
    <3> QED
      BY <1>2, <1>6, <1>7, <3>1 DEF Appeared
  <2> QED
    BY <2>1, <2>2 DEF Appeared
<1>8. \A e \in Elements : left[e] # "jumped"
  BY <1>1
<1> QED
  <2>1. Len(new) <= MaxDanmakuInGui
    BY <1>1, <1>3
  <2>2. ListOK(new, rest, left, whole)
    BY <1>3, <1>4, <1>5, <1>7, <1>8, <2>1 DEF ListOK
  <2> QED
    BY <2>2 DEF rest, new

\* With one more danmaku, in an element the list does not hold, it is in order.
LEMMA ListWithOneMore ==
    ASSUME NEW list, NEW queue, NEW elements, NEW whole, NEW e \in Elements, NEW more,
           ListOK(list, queue, elements, whole), Len(list) < MaxDanmakuInGui,
           \A i \in 1 .. Len(list) : list[i] # e,
           more = [elements EXCEPT ![e] = "created"]
    PROVE  ListOK(Append(list, e), Append(queue, e), more, whole)
<1> DEFINE l == Append(list, e)
           q == Append(queue, e)
<1>1. /\ list \in Seq(Elements) /\ queue \in Seq(Elements) /\ Distinct(list)
      /\ elements \in [Elements -> ElementStates] /\ MaxDanmakuInGui \in Nat
      /\ \A d \in Elements : elements[d] # "jumped"
  BY MonitorAssumption DEF ListOK
<1>2. PICK n \in 0 .. Len(list) :
          Wait(list, queue, n) /\ (whole => Appeared(list, elements, n))
  BY DEF ListOK
<1>3. /\ l \in Seq(Elements) /\ Len(l) = Len(list) + 1 /\ Len(list) \in Nat
      /\ \A i \in 1 .. Len(list) : l[i] = list[i] /\ list[i] \in Elements
      /\ l[Len(list) + 1] = e
  BY <1>1, Appended, ElementOfSeq
<1>4. /\ q \in Seq(Elements) /\ Len(q) = Len(queue) + 1
      /\ \A i \in 1 .. Len(queue) : q[i] = queue[i]
      /\ q[Len(queue) + 1] = e
  BY <1>1, Appended
<1> HIDE DEF l, q
<1>5. /\ more \in [Elements -> ElementStates] /\ more[e] = "created"
      /\ \A d \in Elements : d # e => more[d] = elements[d]
      /\ \A d \in Elements : more[d] # "jumped"
  BY <1>1 DEF ElementStates
<1>6. Distinct(l)
  <2> SUFFICES ASSUME NEW i \in 1 .. Len(l), NEW j \in 1 .. Len(l), l[i] = l[j] PROVE i = j
    BY DEF Distinct
  <2>1. /\ i \in 1 .. Len(list) \/ i = Len(list) + 1
        /\ j \in 1 .. Len(list) \/ j = Len(list) + 1
    BY <1>3
  <2>2. CASE i \in 1 .. Len(list) /\ j \in 1 .. Len(list)
    BY <1>1, <1>3, <2>2 DEF Distinct
  <2> QED
    BY <1>3, <2>1, <2>2
<1>7. Wait(l, q, n)
  <2>1. Len(queue) = Len(list) - n /\ \A i \in 1 .. Len(list) - n : queue[i] = list[n + i]
    BY <1>2 DEF Wait
  <2>2. ASSUME NEW i \in 1 .. Len(l) - n PROVE q[i] = l[n + i]
    <3>1. CASE i = Len(list) + 1 - n
      BY <1>3, <1>4, <2>1, <3>1
    <3>2. CASE i \in 1 .. Len(list) - n
      <4>1. n + i \in 1 .. Len(list)
        BY <1>3, <3>2
      <4> QED
        BY <1>3, <1>4, <2>1, <3>2, <4>1
    <3>3. i = Len(list) + 1 - n \/ i \in 1 .. Len(list) - n
      BY <1>3, <2>2
    <3> QED
      BY <3>1, <3>2, <3>3
  <2>3. Len(q) = Len(l) - n
    BY <1>3, <1>4, <2>1
  <2> QED
    BY <2>2, <2>3 DEF Wait
<1>8. ASSUME whole PROVE Appeared(l, more, n)
  <2>1. \A i \in 1 .. Len(list) : more[l[i]] = elements[list[i]]
    BY <1>3, <1>5
  <2>2. ASSUME NEW i \in 1 .. n PROVE more[l[i]] = "animated"
    <3>1. i \in 1 .. Len(list)
      BY <1>3
    <3> QED
      BY <1>2, <1>8, <2>1, <3>1 DEF Appeared
  <2>3. ASSUME NEW i \in n + 1 .. Len(l) PROVE more[l[i]] \in {"created", "styled"}
    <3>1. CASE i = Len(list) + 1
      BY <1>3, <1>5, <3>1
    <3>2. CASE i \in n + 1 .. Len(list)
      <4>1. i \in 1 .. Len(list)
        BY <1>3, <3>2
      <4> QED
        BY <1>2, <1>8, <2>1, <3>2, <4>1 DEF Appeared
    <3>3. i = Len(list) + 1 \/ i \in n + 1 .. Len(list)
      BY <1>3, <2>3
    <3> QED
      BY <3>1, <3>2, <3>3
  <2> QED
    BY <2>2, <2>3 DEF Appeared
<1>9. Len(l) <= MaxDanmakuInGui /\ n \in 0 .. Len(l)
  BY <1>1, <1>3
<1> QED
  <2>1. ListOK(l, q, more, whole)
    BY <1>3, <1>4, <1>5, <1>6, <1>7, <1>8, <1>9 DEF ListOK
  <2> QED
    BY <2>1 DEF l, q

\* The elements of N that the list does not hold are free.
Spare(m, N) ==
    \A e \in N : m.elements[e] = "none" \/ \E i \in 1 .. Len(m.danmakuInGui) : m.danmakuInGui[i] = e

\* What an operation keeps that leaves room for one more danmaku.
LEMMA RoomMade ==
    ASSUME NEW m \in Monitors, MonitorList(m), NEW N \in SUBSET Elements
    PROVE  LET k == MakeRoom(m) IN
           /\ k \in Monitors /\ SameState(m, k) /\ MonitorList(k)
           /\ Len(k.danmakuInGui) <= Len(m.danmakuInGui)
           /\ Len(k.danmakuInGui) < MaxDanmakuInGui
           /\ Whole(m) /\ Spare(m, N) => Spare(k, N)
<1> DEFINE list == m.danmakuInGui
<1>1. /\ list \in Seq(Elements) /\ Len(list) <= MaxDanmakuInGui
      /\ m.pendingAnimDanmaku \in Seq(Elements)
      /\ Len(list) \in Nat /\ MaxDanmakuInGui \in Nat \ {0}
  BY MonitorAssumption DEF Monitors, MonitorList, ListOK
<1>2. CASE Len(list) < MaxDanmakuInGui
  <2>1. MakeRoom(m) = m
    BY <1>1, <1>2 DEF MakeRoom
  <2> QED
    BY <1>1, <1>2, <2>1 DEF SameState
<1>3. CASE Len(list) >= MaxDanmakuInGui
  <2> DEFINE oldest == Head(list)
             left == Without(m.elements, {oldest})
             rest == EraseIf(m.pendingAnimDanmaku, {oldest})
             k == WithList(m, Tail(list), rest, left)
  <2>1. /\ RemoveElements(m, {oldest}) = WithList(m, list, m.pendingAnimDanmaku, left)
        /\ left \in [Elements -> ElementStates]
        /\ \A e \in Elements : left[e] = IF e = oldest /\ m.elements[e] \in InDocument
                                         THEN "none" ELSE m.elements[e]
    BY Removed
  <2>2. MakeRoom(m) = k
    <3>1. MakeRoom(m) = EvictOldestDanmaku(m)
      BY <1>3 DEF MakeRoom
    <3> HIDE DEF left, oldest
    <3> QED
      BY <2>1, <3>1 DEF EvictOldestDanmaku, WithList, Monitors, oldest
  <2>3. /\ list # <<>> /\ Head(list) = list[1] /\ 1 \in 1 .. Len(list)
        /\ Tail(list) \in Seq(Elements) /\ Len(Tail(list)) = Len(list) - 1
        /\ \A i \in 1 .. Len(list) - 1 : Tail(list)[i] = list[i + 1]
    BY <1>1, <1>3, HeadTailProperties, EmptySeq
  <2>4. ListOK(Tail(list), rest, left, Whole(m))
    BY <2>1, <2>3, ListWithoutOldest DEF MonitorList
  <2> HIDE DEF rest, left
  <2>5. /\ k \in Monitors /\ SameState(m, k)
        /\ k.danmakuInGui = Tail(list) /\ k.pendingAnimDanmaku = rest /\ k.elements = left
    <3>1. rest \in Seq(Elements)
      BY <2>4 DEF ListOK
    <3>2. k \in Monitors
      BY <2>1, <2>3, <3>1, ListChanged
    <3>3. SameState(m, k)
      BY ListChanged
    <3>4. k.danmakuInGui = Tail(list) /\ k.pendingAnimDanmaku = rest /\ k.elements = left
      BY ListChanged
    <3> QED
      BY <3>2, <3>3, <3>4
  <2> HIDE DEF k
  <2>6. MonitorList(k)
    BY <2>4, <2>5 DEF MonitorList, Whole, SameState
  <2>7. ASSUME Whole(m), Spare(m, N), NEW e \in N
        PROVE  k.elements[e] = "none" \/ \E i \in 1 .. Len(k.danmakuInGui) : k.danmakuInGui[i] = e
    <3>1. CASE m.elements[e] = "none"
      BY <2>1, <2>5, <3>1
    <3>2. CASE \E i \in 1 .. Len(list) : list[i] = e
      <4>1. PICK i \in 1 .. Len(list) : list[i] = e
        BY <3>2
      <4>2. CASE i = 1
        <5>1. m.elements[e] \in InDocument
          BY <2>7, <4>1, ListedLive DEF MonitorList
        <5> QED
          BY <2>1, <2>3, <2>5, <4>1, <4>2, <5>1
      <4>3. CASE i # 1
        <5>1. i - 1 \in 1 .. Len(list) - 1 /\ (i - 1) + 1 = i
          BY <1>1, <4>3
        <5>2. k.danmakuInGui[i - 1] = e
          BY <2>3, <2>5, <4>1, <5>1
        <5> QED
          BY <2>3, <2>5, <5>1, <5>2
      <4> QED
        BY <4>2, <4>3
    <3> QED
      BY <2>7, <3>1, <3>2 DEF Spare
  <2> QED
    BY <1>1, <2>2, <2>3, <2>5, <2>6, <2>7 DEF Spare
<1> QED
  BY <1>1, <1>2, <1>3

\* A new danmaku, in the first of the elements that nothing refers to.
LEMMA Created ==
    ASSUME NEW m \in Monitors, MonitorList(m), Len(m.danmakuInGui) < MaxDanmakuInGui,
           Unused(m) # {}, NEW N \in SUBSET Elements
    PROVE  LET k == CreateElement(m) IN
           /\ k \in Monitors /\ SameState(m, k) /\ MonitorList(k)
           /\ Len(k.danmakuInGui) = Len(m.danmakuInGui) + 1
           /\ Spare(m, N) => Spare(k, N)
<1> DEFINE first == CHOOSE e \in Unused(m) : \A f \in Unused(m) : e <= f
           more == [m.elements EXCEPT ![first] = "created"]
           list == Append(m.danmakuInGui, first)
           queue == Append(m.pendingAnimDanmaku, first)
           k == WithList(m, list, queue, more)
<1>1. /\ m.danmakuInGui \in Seq(Elements) /\ m.pendingAnimDanmaku \in Seq(Elements)
      /\ m.elements \in [Elements -> ElementStates]
  BY DEF Monitors
<1>2. first \in Unused(m) /\ Unused(m) \subseteq Elements
  <2>1. Unused(m) \subseteq Nat
    BY DEF Unused, Elements
  <2>2. \E e \in Unused(m) : \A f \in Unused(m) : e <= f
    BY <2>1, LeastNumber
  <2> QED
    BY <2>2 DEF Unused
<1>3. CreateElement(m) = [m EXCEPT !.elements[first] = "created",
                                   !.danmakuInGui = Append(@, first),
                                   !.pendingAnimDanmaku = Append(@, first)]
  BY DEF CreateElement
<1> HIDE DEF first
<1>4. first \in Elements /\ \A i \in 1 .. Len(m.danmakuInGui) : m.danmakuInGui[i] # first
  BY <1>1, <1>2 DEF Unused, ToSet
<1>5. CreateElement(m) = k
  BY <1>3 DEF WithList, Monitors
<1>6. ListOK(list, queue, more, Whole(m))
  BY <1>4, ListWithOneMore DEF MonitorList
<1>7. /\ list \in Seq(Elements) /\ queue \in Seq(Elements)
      /\ more \in [Elements -> ElementStates]
  BY <1>6 DEF ListOK
<1>8. /\ Len(list) = Len(m.danmakuInGui) + 1 /\ Len(m.danmakuInGui) \in Nat
      /\ \A i \in 1 .. Len(m.danmakuInGui) : list[i] = m.danmakuInGui[i]
      /\ list[Len(m.danmakuInGui) + 1] = first
  BY <1>1, <1>4, Appended
<1>9. \A e \in Elements : e # first => more[e] = m.elements[e]
  BY <1>1
<1> HIDE DEF list, queue, more
<1>10. k \in Monitors
  BY <1>7, ListChanged
<1>11. SameState(m, k)
  BY ListChanged
<1>12. k.danmakuInGui = list /\ k.pendingAnimDanmaku = queue /\ k.elements = more
  BY ListChanged
<1> HIDE DEF k
<1>13. MonitorList(k)
  BY <1>6, <1>11, <1>12 DEF MonitorList, Whole, SameState
<1>14. ASSUME Spare(m, N) PROVE Spare(k, N)
  <2> SUFFICES ASSUME NEW e \in N
               PROVE  k.elements[e] = "none" \/ \E i \in 1 .. Len(list) : list[i] = e
    BY <1>12 DEF Spare
  <2>1. CASE e = first
    BY <1>8, <2>1
  <2>2. CASE e # first
    <3>1. CASE m.elements[e] = "none"
      BY <1>9, <1>12, <2>2, <3>1
    <3>2. CASE \E i \in 1 .. Len(m.danmakuInGui) : m.danmakuInGui[i] = e
      <4>1. PICK i \in 1 .. Len(m.danmakuInGui) : m.danmakuInGui[i] = e
        BY <3>2
      <4>2. list[i] = e /\ i \in 1 .. Len(list)
        BY <1>8, <4>1
      <4> QED
        BY <4>2
    <3> QED
      BY <1>14, <3>1, <3>2 DEF Spare
  <2> QED
    BY <2>1, <2>2
<1> QED
  BY <1>5, <1>8, <1>10, <1>11, <1>12, <1>13, <1>14

\* A danmaku is added: the list makes room and creates it.
LEMMA AddedOne ==
    ASSUME NEW m \in Monitors, MonitorList(m), Unused(MakeRoom(m)) # {},
           NEW N \in SUBSET Elements
    PROVE  LET k == AddDanmaku(m) IN
           /\ k \in Monitors /\ SameState(m, k) /\ MonitorList(k)
           /\ Len(k.danmakuInGui) <= Len(m.danmakuInGui) + 1
           /\ Whole(m) /\ Spare(m, N) => Spare(k, N)
<1> DEFINE r == MakeRoom(m)
           k == CreateElement(r)
<1>1. /\ r \in Monitors /\ SameState(m, r) /\ MonitorList(r)
      /\ Len(r.danmakuInGui) <= Len(m.danmakuInGui)
      /\ Len(r.danmakuInGui) < MaxDanmakuInGui
      /\ Whole(m) /\ Spare(m, N) => Spare(r, N)
  BY RoomMade
<1> HIDE DEF r
<1>2. /\ k \in Monitors /\ SameState(r, k) /\ MonitorList(k)
      /\ Len(k.danmakuInGui) = Len(r.danmakuInGui) + 1
      /\ Spare(r, N) => Spare(k, N)
  BY <1>1, Created DEF r
<1>3. AddDanmaku(m) = k
  BY DEF AddDanmaku, r
<1> HIDE DEF k
<1>4. SameState(m, k)
  BY <1>1, <1>2 DEF SameState
<1>5. Len(m.danmakuInGui) \in Nat /\ Len(r.danmakuInGui) \in Nat
  BY <1>1 DEF Monitors
<1> QED
  BY <1>1, <1>2, <1>3, <1>4, <1>5

-----------------------------------------------------------------------------
(* AddDanmakus.                                                                *)

\* The records the loop goes through.
AddedBy(add, m, n) ==
    add = [i \in 0 .. n |-> IF i = 0 THEN m ELSE AddDanmaku(add[i - 1])]

\* The recursive function exists, so that it can be unfolded.
LEMMA AddLoop ==
    ASSUME NEW m, NEW count \in Nat
    PROVE  \E add : /\ add[0] = m
                    /\ \A i \in 0 .. count - 1 : add[i + 1] = AddDanmaku(add[i])
                    /\ AddDanmakus(m, count) = add[count]
<1> DEFINE T == {n \in Nat : \E add : AddedBy(add, m, n)}
<1>1. 0 \in T
  <2>1. AddedBy([i \in 0 .. 0 |-> m], m, 0)
    BY DEF AddedBy
  <2> QED
    BY <2>1
<1>2. ASSUME NEW n \in Nat, n \in T PROVE n + 1 \in T
  <2>1. PICK add : AddedBy(add, m, n)
    BY <1>2
  <2> DEFINE last == AddDanmaku(add[n])
             new == [i \in 0 .. n + 1 |-> IF i = n + 1 THEN last ELSE add[i]]
  <2>2. \A i \in 0 .. n : add[i] = IF i = 0 THEN m ELSE AddDanmaku(add[i - 1])
    BY <2>1 DEF AddedBy
  <2>3. \A i \in 0 .. n : new[i] = add[i]
    OBVIOUS
  <2>4. \A i \in 0 .. n + 1 : new[i] = IF i = 0 THEN m ELSE AddDanmaku(new[i - 1])
    <3> TAKE i \in 0 .. n + 1
    <3>1. CASE i = 0
      BY <3>1, <2>2
    <3>2. CASE i \in 1 .. n
      <4>1. new[i] = add[i] /\ new[i - 1] = add[i - 1]
        BY <3>2, <2>3
      <4> HIDE DEF new
      <4> QED
        BY <3>2, <4>1, <2>2
    <3>3. CASE i = n + 1
      BY <3>3
    <3> QED
      BY <3>1, <3>2, <3>3
  <2>5. new = [i \in 0 .. n + 1 |-> new[i]]
    OBVIOUS
  <2> HIDE DEF new
  <2>6. AddedBy(new, m, n + 1)
    BY <2>4, <2>5 DEF AddedBy
  <2> QED
    BY <2>6
<1>3. count \in T
  <2> HIDE DEF T
  <2> QED
    BY <1>1, <1>2, NumbersInduction
<1> DEFINE f == CHOOSE add : AddedBy(add, m, count)
<1>4. AddedBy(f, m, count)
  BY <1>3
<1>5. AddDanmakus(m, count) = f[count]
  BY DEF AddDanmakus, AddedBy
<1> HIDE DEF f
<1>6. \A j \in 0 .. count : f[j] = IF j = 0 THEN m ELSE AddDanmaku(f[j - 1])
  BY <1>4 DEF AddedBy
<1>7. ASSUME NEW i \in 0 .. count - 1 PROVE f[i + 1] = AddDanmaku(f[i])
  <2>1. i + 1 \in 1 .. count /\ (i + 1) - 1 = i
    OBVIOUS
  <2> QED
    BY <1>6, <2>1
<1> QED
  BY <1>5, <1>6, <1>7

\* There are as many elements as the bound says.
LEMMA ElementsFinite ==
    /\ Cardinality(Elements) = MaxElements
    /\ \A N \in SUBSET Elements : IsFiniteSet(N)
<1>1. 1 \in Int /\ MaxElements \in Int /\ MaxElements >= 0
  BY MonitorAssumption
<1>2. IsFiniteSet(1 .. MaxElements) /\ Cardinality(1 .. MaxElements) = MaxElements
  BY <1>1, FS_Interval
<1>3. \A N \in SUBSET (1 .. MaxElements) : IsFiniteSet(N)
  BY <1>2, FS_Subset
<1> QED
  BY <1>2, <1>3 DEF Elements

\* While the list is shorter than N there is an element for one more danmaku.
LEMMA RoomForOne ==
    ASSUME NEW m, m \in Monitors, MonitorList(m), NEW N \in SUBSET Elements, Spare(m, N),
           Len(m.danmakuInGui) < Cardinality(N)
    PROVE  Unused(m) # {}
<1> DEFINE list == m.danmakuInGui
           queue == m.pendingAnimDanmaku
<1>1. list \in Seq(Elements) /\ queue \in Seq(Elements)
  BY DEF Monitors
<1>2. IsFiniteSet(N)
  BY ElementsFinite
<1>3. PICK x \in N : \A i \in 1 .. Len(list) : list[i] # x
  <2> HIDE DEF list
  <2>1. Len(list) \in Nat /\ Cardinality(N) \in Nat
    BY <1>1, <1>2, FS_CardinalityType
  <2>2. Cardinality(N) > Len(list)
    BY <2>1 DEF list
  <2> QED
    BY <1>1, <1>2, <2>2, SpareMember
<1>4. m.elements[x] = "none"
  BY <1>3 DEF Spare
<1>5. PICK n \in 0 .. Len(list) : Wait(list, queue, n)
  BY DEF MonitorList, ListOK
<1>6. \A i \in 1 .. Len(queue) : queue[i] # x
  <2> TAKE i \in 1 .. Len(queue)
  <2>1. i \in 1 .. Len(list) - n /\ n + i \in 1 .. Len(list)
    BY <1>1, <1>5 DEF Wait
  <2> QED
    BY <1>3, <1>5, <2>1 DEF Wait
<1>7. x \notin ToSet(list) /\ x \notin ToSet(queue)
  BY <1>1, <1>3, <1>6 DEF ToSet
<1> QED
  BY <1>3, <1>4, <1>7 DEF Unused

\* A list that is built anew: N holds enough free elements, or as many as the list
\* may have, for then the oldest make room for the newest.
LEMMA AddedMany ==
    ASSUME NEW m \in Monitors, MonitorList(m), Whole(m), m.danmakuInGui = <<>>,
           NEW N \in SUBSET Elements, \A e \in N : m.elements[e] = "none",
           NEW count \in Nat, count <= Cardinality(N) \/ MaxDanmakuInGui <= Cardinality(N)
    PROVE  LET k == AddDanmakus(m, count) IN
           k \in Monitors /\ SameState(m, k) /\ MonitorList(k)
<1>1. PICK add : /\ add[0] = m
                 /\ \A i \in 0 .. count - 1 : add[i + 1] = AddDanmaku(add[i])
                 /\ AddDanmakus(m, count) = add[count]
  BY AddLoop
<1> DEFINE Good(k, i) == /\ k \in Monitors /\ SameState(m, k) /\ MonitorList(k)
                         /\ Len(k.danmakuInGui) <= i /\ Spare(k, N)
           T == {i \in Nat : i <= count => Good(add[i], i)}
<1>2. 0 \in T
  <2>1. Good(m, 0)
    BY DEF Spare, SameState
  <2> HIDE DEF Good
  <2> QED
    BY <1>1, <2>1
<1>3. ASSUME NEW i \in Nat, i \in T PROVE i + 1 \in T
  <2>1. SUFFICES ASSUME i + 1 <= count PROVE Good(add[i + 1], i + 1)
    OBVIOUS
  <2> DEFINE k == add[i]
             r == MakeRoom(k)
             l == AddDanmaku(k)
  <2>2. Good(k, i) /\ Whole(k) /\ Whole(m)
    BY <1>3, <2>1 DEF SameState, Whole
  <2>3. add[i + 1] = l
    BY <1>1, <2>1
  <2> HIDE DEF k
  <2>4. /\ r \in Monitors /\ MonitorList(r) /\ Spare(r, N)
        /\ Len(r.danmakuInGui) <= Len(k.danmakuInGui)
        /\ Len(r.danmakuInGui) < MaxDanmakuInGui
    BY <2>2, RoomMade
  <2> HIDE DEF r
  <2>5. Len(r.danmakuInGui) < Cardinality(N)
    <3>1. IsFiniteSet(N)
      BY ElementsFinite
    <3>2. Cardinality(N) \in Nat /\ MaxDanmakuInGui \in Nat
      BY <3>1, FS_CardinalityType, MonitorAssumption
    <3>3. Len(r.danmakuInGui) \in Nat /\ Len(k.danmakuInGui) \in Nat
      BY <2>2, <2>4 DEF Monitors
    <3>4. Len(k.danmakuInGui) <= i
      BY <2>2
    <3> QED
      BY <2>1, <2>4, <3>2, <3>3, <3>4
  <2>6. Unused(r) # {}
    BY <2>4, <2>5, RoomForOne
  <2>7. /\ l \in Monitors /\ SameState(k, l) /\ MonitorList(l)
        /\ Len(l.danmakuInGui) <= Len(k.danmakuInGui) + 1
        /\ Whole(k) /\ Spare(k, N) => Spare(l, N)
    BY <2>2, <2>6, AddedOne DEF r
  <2> HIDE DEF l
  <2>8. SameState(m, l)
    BY <2>2, <2>7 DEF SameState
  <2>9. Len(l.danmakuInGui) <= i + 1
    BY <2>2, <2>7 DEF Monitors
  <2> QED
    BY <2>2, <2>3, <2>7, <2>8, <2>9
<1>4. Good(add[count], count)
  <2>1. count \in T
    <3> HIDE DEF T
    <3> QED
      BY <1>2, <1>3, NumbersInduction
  <2> QED
    BY <2>1
<1> QED
  BY <1>1, <1>4

-----------------------------------------------------------------------------
(* The frame: elements get their style, the one that waits longest appears.    *)

\* What Rml::Context::Update does to the elements.
Updated(elements) ==
    [e \in Elements |-> CASE elements[e] = "created" -> "styled"
                          [] elements[e] = "closed" -> "none"
                          [] OTHER -> elements[e]]

\* After it none of them is without a style.
LEMMA Styled ==
    ASSUME NEW m, MonitorInv(m)
    PROVE  LET k == ContextUpdate(m) IN
           /\ MonitorInv(k) /\ SameState(m, k)
           /\ \A e \in Elements : k.elements[e] # "created"
<1> DEFINE list == m.danmakuInGui
           queue == m.pendingAnimDanmaku
           f == Updated(m.elements)
           k == WithList(m, list, queue, f)
<1>1. /\ m \in Monitors /\ list \in Seq(Elements) /\ queue \in Seq(Elements)
      /\ m.elements \in [Elements -> ElementStates]
      /\ ListOK(list, queue, m.elements, Whole(m))
  BY DEF MonitorInv, MonitorList, Monitors
<1>2. ContextUpdate(m) = k
  <2>1. ContextUpdate(m) = [m EXCEPT !.elements = f]
    BY DEF ContextUpdate, Updated
  <2> HIDE DEF f
  <2> QED
    BY <1>1, <2>1 DEF WithList, Monitors
<1>3. \A e \in Elements : m.elements[e] # "jumped"
  BY <1>1 DEF ListOK
<1>4. /\ f \in [Elements -> ElementStates]
      /\ \A e \in Elements : f[e] # "jumped" /\ f[e] # "created"
      /\ \A e \in Elements : m.elements[e] = "animated" => f[e] = "animated"
      /\ \A e \in Elements : m.elements[e] \in {"created", "styled"} => f[e] = "styled"
  BY <1>1, <1>3 DEF Updated, ElementStates
<1> HIDE DEF f
<1>5. ListOK(list, queue, f, Whole(m))
  <2>1. PICK n \in 0 .. Len(list) :
            Wait(list, queue, n) /\ (Whole(m) => Appeared(list, m.elements, n))
    BY <1>1 DEF ListOK
  <2>2. \A i \in 1 .. Len(list) : list[i] \in Elements
    BY <1>1, ElementOfSeq
  <2>3. ASSUME Whole(m) PROVE Appeared(list, f, n)
    <3>1. \A i \in 1 .. n : i \in 1 .. Len(list)
      BY <1>1
    <3>2. \A i \in n + 1 .. Len(list) : i \in 1 .. Len(list)
      BY <1>1
    <3> QED
      BY <1>4, <2>1, <2>2, <2>3, <3>1, <3>2 DEF Appeared
  <2> QED
    BY <1>1, <1>4, <2>1, <2>3 DEF ListOK
<1>6. k \in Monitors
  BY <1>1, <1>4, ListChanged
<1>7. SameState(m, k)
  BY <1>1, ListChanged
<1>8. k.danmakuInGui = list /\ k.pendingAnimDanmaku = queue /\ k.elements = f
  BY <1>1, ListChanged
<1> HIDE DEF k
<1>9. MonitorInv(k)
  BY <1>5, <1>6, <1>7, <1>8
     DEF MonitorInv, MonitorList, MonitorShown, MonitorActivity, Whole, SameState
<1> QED
  BY <1>2, <1>4, <1>7, <1>8, <1>9

\* With a style every danmaku appears with its transition.
LEMMA Started ==
    ASSUME NEW m, MonitorInv(m), \A e \in Elements : m.elements[e] # "created"
    PROVE  LET k == StartPendingDanmakuContainerAnim(m) IN MonitorInv(k) /\ SameState(m, k)
<1> DEFINE list == m.danmakuInGui
           queue == m.pendingAnimDanmaku
           e == Head(queue)
           state == IF m.elements[e] = "styled" THEN "animated" ELSE m.elements[e]
           f == [m.elements EXCEPT ![e] = state]
           k == WithList(m, list, Tail(queue), f)
<1>1. /\ m \in Monitors /\ list \in Seq(Elements) /\ queue \in Seq(Elements)
      /\ m.elements \in [Elements -> ElementStates]
      /\ ListOK(list, queue, m.elements, Whole(m))
  BY DEF MonitorInv, MonitorList, Monitors
<1>2. CASE queue = <<>>
  BY <1>2 DEF StartPendingDanmakuContainerAnim, SameState
<1>3. CASE queue # <<>>
  <2>1. /\ e = queue[1] /\ e \in Elements /\ 1 \in 1 .. Len(queue) /\ Len(queue) \in Nat
        /\ Tail(queue) \in Seq(Elements) /\ Len(Tail(queue)) = Len(queue) - 1
        /\ \A i \in 1 .. Len(queue) - 1 : Tail(queue)[i] = queue[i + 1]
    BY <1>1, <1>3, HeadTailProperties, EmptySeq
  <2>2. StartPendingDanmakuContainerAnim(m) =
            [m EXCEPT !.pendingAnimDanmaku = Tail(queue), !.elements[e] = state]
    <3>1. StartPendingDanmakuContainerAnim(m) =
              [m EXCEPT !.pendingAnimDanmaku = Tail(@),
                        !.elements[e] = CASE @ = "created" -> "jumped"
                                          [] @ = "styled" -> "animated" [] OTHER -> @]
      BY <1>3 DEF StartPendingDanmakuContainerAnim
    <3>2. (CASE m.elements[e] = "created" -> "jumped"
             [] m.elements[e] = "styled" -> "animated"
             [] OTHER -> m.elements[e]) = state
      BY <2>1
    <3> QED
      BY <3>1, <3>2
  <2>3. StartPendingDanmakuContainerAnim(m) = k
    <3> HIDE DEF e, state
    <3> QED
      BY <1>1, <2>2 DEF WithList, Monitors
  <2>4. /\ state \in ElementStates /\ state # "jumped"
        /\ m.elements[e] = "styled" => state = "animated"
    BY <1>1, <2>1 DEF ListOK, ElementStates
  <2>5. /\ f \in [Elements -> ElementStates] /\ f[e] = state
        /\ \A d \in Elements : d # e => f[d] = m.elements[d]
        /\ \A d \in Elements : f[d] # "jumped"
    <3> HIDE DEF state, e
    <3> QED
      BY <1>1, <2>1, <2>4 DEF ListOK
  <2> HIDE DEF f, state, e
  <2>6. PICK n \in 0 .. Len(list) :
            Wait(list, queue, n) /\ (Whole(m) => Appeared(list, m.elements, n))
    BY <1>1 DEF ListOK
  <2>7. /\ Len(list) \in Nat /\ n \in Nat /\ Len(queue) = Len(list) - n
        /\ n + 1 \in 1 .. Len(list) /\ list[n + 1] = e
        /\ \A i \in 1 .. Len(list) : list[i] \in Elements
    BY <1>1, <2>1, <2>6, ElementOfSeq DEF Wait
  <2>8. Wait(list, Tail(queue), n + 1)
    <3>1. Len(Tail(queue)) = Len(list) - (n + 1)
      BY <2>1, <2>7
    <3>2. ASSUME NEW i \in 1 .. Len(list) - (n + 1) PROVE Tail(queue)[i] = list[(n + 1) + i]
      <4>1. i \in 1 .. Len(queue) - 1 /\ i + 1 \in 1 .. Len(list) - n /\ n + (i + 1) = (n + 1) + i
        BY <2>7
      <4> QED
        BY <2>1, <2>6, <4>1 DEF Wait
    <3> QED
      BY <3>1, <3>2 DEF Wait
  <2>9. ASSUME Whole(m) PROVE Appeared(list, f, n + 1)
    <3>1. Distinct(list) /\ Appeared(list, m.elements, n)
      BY <1>1, <2>6, <2>9 DEF ListOK
    <3>2. \A i \in 1 .. Len(list) : i # n + 1 => f[list[i]] = m.elements[list[i]]
      BY <2>5, <2>7, <3>1 DEF Distinct
    <3>3. f[list[n + 1]] = "animated"
      <4>1. m.elements[e] \in {"created", "styled"}
        BY <2>7, <3>1 DEF Appeared
      <4> QED
        BY <2>1, <2>4, <2>5, <2>7, <4>1
    <3>4. ASSUME NEW i \in 1 .. n + 1 PROVE f[list[i]] = "animated"
      <4>1. i = n + 1 \/ (i \in 1 .. n /\ i \in 1 .. Len(list) /\ i # n + 1)
        BY <2>7
      <4> QED
        BY <3>1, <3>2, <3>3, <4>1 DEF Appeared
    <3>5. ASSUME NEW i \in (n + 1) + 1 .. Len(list) PROVE f[list[i]] \in {"created", "styled"}
      <4>1. i \in n + 1 .. Len(list) /\ i \in 1 .. Len(list) /\ i # n + 1
        BY <2>7
      <4> QED
        BY <3>1, <3>2, <4>1 DEF Appeared
    <3> QED
      BY <3>4, <3>5 DEF Appeared
  <2>10. ListOK(list, Tail(queue), f, Whole(m))
    <3>1. n + 1 \in 0 .. Len(list)
      BY <2>7
    <3> QED
      BY <1>1, <2>1, <2>5, <2>8, <2>9, <3>1 DEF ListOK
  <2>11. k \in Monitors
    BY <1>1, <2>1, <2>5, ListChanged
  <2>12. SameState(m, k)
    BY <1>1, ListChanged
  <2>13. k.danmakuInGui = list /\ k.pendingAnimDanmaku = Tail(queue) /\ k.elements = f
    BY <1>1, ListChanged
  <2> HIDE DEF k
  <2>14. MonitorInv(k)
    BY <2>10, <2>11, <2>12, <2>13
       DEF MonitorInv, MonitorList, MonitorShown, MonitorActivity, Whole, SameState
  <2> QED
    BY <2>3, <2>12, <2>14
<1> QED
  BY <1>2, <1>3

-----------------------------------------------------------------------------
(* What the document shows of the state.                                       *)

\* The document is brought up to date, as far as it is whole.
LEMMA Synced ==
    ASSUME NEW m, m \in Monitors
    PROVE  LET k == SyncToUI(m) IN
           /\ k \in Monitors /\ SameList(m, k) /\ MonitorShown(k)
           /\ k.scrollLocked = m.scrollLocked /\ k.isLive = m.isLive
           /\ k.liveStatusRequestPending = m.liveStatusRequestPending
           /\ k.activeLiverUID = m.activeLiverUID /\ k.subscribed = m.subscribed
<1> DEFINE shown == IF m.document = "noHint" THEN m.listShown ELSE m.isLive
           k == [m EXCEPT !.toggleOn = m.scrollLocked, !.listShown = shown]
<1>1. SyncToUI(m) = k
  BY DEF SyncToUI, SyncToUIThrows, Monitors
<1>2. shown \in BOOLEAN /\ (Whole(m) => shown = m.isLive)
  BY DEF Monitors, Whole
<1> HIDE DEF shown
<1>3. k \in Monitors
  BY <1>2 DEF Monitors
<1>4. /\ SameList(m, k) /\ k.scrollLocked = m.scrollLocked /\ k.isLive = m.isLive
      /\ k.liveStatusRequestPending = m.liveStatusRequestPending
      /\ k.activeLiverUID = m.activeLiverUID /\ k.subscribed = m.subscribed
      /\ k.toggleOn = m.scrollLocked /\ k.listShown = shown
  BY DEF Monitors, SameList
<1> HIDE DEF k
<1>5. MonitorShown(k)
  BY <1>2, <1>4 DEF MonitorShown, Whole, SameList
<1> QED
  BY <1>1, <1>3, <1>4, <1>5

\* The list is locked or unlocked, and the toggle shows it.
LEMMA LockSet ==
    ASSUME NEW m, m \in Monitors, MonitorList(m), MonitorActivity(m), NEW locked \in BOOLEAN,
           m.scrollLocked = locked => MonitorShown(m)
    PROVE  LET k == SetScrollLocked(m, locked) IN
           MonitorInv(k) /\ SameList(m, k) /\ k.isLive = m.isLive /\ k.subscribed = m.subscribed
<1> DEFINE c == [m EXCEPT !.scrollLocked = locked]
           k == SyncToUI(c)
<1>1. CASE m.scrollLocked = locked
  BY <1>1 DEF SetScrollLocked, MonitorInv, SameList
<1>2. CASE m.scrollLocked # locked
  <2>1. SetScrollLocked(m, locked) = k
    BY <1>2 DEF SetScrollLocked
  <2>2. /\ c \in Monitors /\ SameList(m, c) /\ c.isLive = m.isLive
        /\ c.activeLiverUID = m.activeLiverUID /\ c.subscribed = m.subscribed
    BY DEF Monitors, SameList
  <2> HIDE DEF c
  <2>3. /\ k \in Monitors /\ SameList(c, k) /\ MonitorShown(k) /\ k.isLive = c.isLive
        /\ k.activeLiverUID = c.activeLiverUID /\ k.subscribed = c.subscribed
    BY <2>2, Synced
  <2> HIDE DEF k
  <2>4. SameList(m, k)
    BY <2>2, <2>3 DEF SameList
  <2>5. MonitorInv(k)
    BY <2>2, <2>3, <2>4 DEF MonitorInv, MonitorList, MonitorActivity, SameList, Whole
  <2> QED
    BY <2>1, <2>2, <2>3, <2>4, <2>5
<1> QED
  BY <1>1, <1>2

\* A click turns the toggle and then sets the lock, which turns it for good.
LEMMA Clicked ==
    ASSUME NEW m, MonitorInv(m)
    PROVE  LET k == ToggleClicked(m) IN
           MonitorInv(k) /\ SameList(m, k) /\ k.isLive = m.isLive /\ k.subscribed = m.subscribed
<1> DEFINE turned == ~m.toggleOn
           c == [m EXCEPT !.toggleOn = turned]
           k == SetScrollLocked(c, turned)
<1>1. m \in Monitors /\ MonitorList(m) /\ MonitorActivity(m) /\ turned \in BOOLEAN
  BY DEF MonitorInv
<1>2. ToggleClicked(m) = k
  BY <1>1 DEF ToggleClicked, Monitors
<1>3. Whole(m) => turned # m.scrollLocked
  BY <1>1 DEF MonitorInv, MonitorShown, Monitors
<1> HIDE DEF turned
<1>4. /\ c \in Monitors /\ SameList(m, c) /\ c.isLive = m.isLive
      /\ c.activeLiverUID = m.activeLiverUID /\ c.subscribed = m.subscribed
      /\ c.scrollLocked = m.scrollLocked
  BY <1>1 DEF Monitors, SameList
<1> HIDE DEF c
<1>5. MonitorList(c) /\ MonitorActivity(c)
  BY <1>1, <1>4 DEF MonitorList, MonitorActivity, SameList, Whole
<1>6. c.scrollLocked = turned => MonitorShown(c)
  BY <1>3, <1>4 DEF MonitorShown, SameList, Whole
<1>7. MonitorInv(k) /\ SameList(c, k) /\ k.isLive = c.isLive /\ k.subscribed = c.subscribed
  BY <1>1, <1>4, <1>5, <1>6, LockSet
<1> HIDE DEF k
<1> QED
  BY <1>2, <1>4, <1>7 DEF SameList

-----------------------------------------------------------------------------
(* The live state.                                                             *)

\* What the calls to the backend leave: the list and what is shown of it.
SameView(m, k) ==
    /\ SameList(m, k) /\ k.scrollLocked = m.scrollLocked /\ k.toggleOn = m.toggleOn
    /\ k.isLive = m.isLive /\ k.listShown = m.listShown

\* A window with the same list and the same flags is in order as before.
LEMMA ViewKept ==
    ASSUME NEW m, NEW k, MonitorInv(m), SameView(m, k), k \in Monitors, MonitorActivity(k)
    PROVE  MonitorInv(k)
BY DEF MonitorInv, MonitorList, MonitorShown, SameView, SameList, Whole

\* An activity begins.
LEMMA ActivityStarted ==
    ASSUME NEW m, MonitorInv(m), NEW connected \in BOOLEAN
    PROVE  LET k == StartActivity(m, connected) IN MonitorInv(k) /\ SameView(m, k)
<1> DEFINE told == m.subscribed \/ connected
           on == TRUE
           k == [m EXCEPT !.activeLiverUID = on, !.subscribed = told]
<1>1. m \in Monitors /\ told \in BOOLEAN /\ on \in BOOLEAN /\ on
  BY DEF MonitorInv
<1>2. StartActivity(m, connected) = k
  BY <1>1 DEF StartActivity, Monitors
<1> HIDE DEF told, on
<1>3. k \in Monitors /\ SameView(m, k) /\ k.activeLiverUID = on
  BY <1>1 DEF Monitors, SameView, SameList
<1> HIDE DEF k
<1>4. MonitorActivity(k)
  BY <1>1, <1>3 DEF MonitorActivity
<1> QED
  BY <1>2, <1>3, <1>4, ViewKept

\* An activity ends, if the backend can be told.
LEMMA ActivityStopped ==
    ASSUME NEW m, MonitorInv(m), NEW connected \in BOOLEAN
    PROVE  LET k == StopActivity(m, connected) IN
           /\ MonitorInv(k) /\ SameView(m, k)
           /\ connected \/ ~m.subscribed => ~k.subscribed
<1> DEFINE off == FALSE
           k == [m EXCEPT !.activeLiverUID = off, !.subscribed = off]
<1>1. /\ m \in Monitors /\ MonitorActivity(m) /\ off \in BOOLEAN /\ ~off
      /\ m.subscribed \in BOOLEAN /\ m.activeLiverUID \in BOOLEAN
  BY DEF MonitorInv, Monitors
<1>2. CASE m.activeLiverUID /\ connected
  <2>1. StopActivity(m, connected) = k
    BY <1>2 DEF StopActivity
  <2> HIDE DEF off
  <2>2. k \in Monitors /\ SameView(m, k) /\ k.activeLiverUID = off /\ k.subscribed = off
    BY <1>1 DEF Monitors, SameView, SameList
  <2> HIDE DEF k
  <2>3. MonitorActivity(k)
    BY <1>1, <2>2 DEF MonitorActivity
  <2> QED
    BY <1>1, <2>1, <2>2, <2>3, ViewKept
<1>3. CASE ~(m.activeLiverUID /\ connected)
  BY <1>1, <1>3 DEF StopActivity, SameView, SameList, MonitorActivity
<1> QED
  BY <1>2, <1>3

\* What is left of an operation that may end the live state: no element is new, and
\* if it ended and the backend could be told, no activity runs there.
Settled(m, k, connected) ==
    /\ MonitorInv(k) /\ k.document = m.document
    /\ \A e \in Elements : k.elements[e] \in {"none", m.elements[e]}
    /\ Whole(m) /\ m.isLive /\ ~k.isLive /\ (connected \/ ~m.subscribed) => ~k.subscribed

\* The window becomes live, or stops being live.
LEMMA LiveSet ==
    ASSUME NEW m, MonitorInv(m), NEW live \in BOOLEAN, NEW c, NEW connected \in BOOLEAN
    PROVE  LET k == SetLiveState(m, live, c, connected) IN
           Settled(m, k, connected) /\ k.isLive = live /\ (live => SameList(m, k))
<1> DEFINE n == [m EXCEPT !.isLive = live]
           s == SyncToUI(n)
           d == ClearDanmaku(s)
           k == SetLiveState(m, live, c, connected)
<1>1. m \in Monitors /\ MonitorList(m) /\ MonitorActivity(m)
  BY DEF MonitorInv
<1>2. CASE live = m.isLive
  <2>1. k = m
    BY <1>2 DEF SetLiveState
  <2> QED
    BY <1>2, <2>1 DEF Settled, SameList
<1>3. CASE live # m.isLive
  <2>1. /\ n \in Monitors /\ SameList(m, n) /\ n.isLive = live
        /\ n.activeLiverUID = m.activeLiverUID /\ n.subscribed = m.subscribed
    BY <1>1 DEF Monitors, SameList
  <2>2. k = IF SyncToUIThrows(m) THEN s
            ELSE IF ~live THEN StopActivity(d, connected)
            ELSE IF c = "user" THEN StartActivity(s, connected) ELSE s
    BY <1>3 DEF SetLiveState
  <2> HIDE DEF n, k
  <2>3. /\ s \in Monitors /\ SameList(n, s) /\ MonitorShown(s) /\ s.isLive = n.isLive
        /\ s.activeLiverUID = n.activeLiverUID /\ s.subscribed = n.subscribed
    BY <2>1, Synced
  <2> HIDE DEF s
  <2>4. SameList(m, s)
    BY <2>1, <2>3 DEF SameList
  <2>5. MonitorInv(s) /\ s.isLive = live
    BY <1>1, <2>1, <2>3, <2>4 DEF MonitorInv, MonitorList, MonitorActivity, SameList, Whole
  <2>6. CASE SyncToUIThrows(m)
    <3>1. k = s /\ ~Whole(m)
      BY <2>2, <2>6 DEF SyncToUIThrows, Whole
    <3> QED
      BY <2>4, <2>5, <3>1 DEF Settled, SameList, k
  <2>7. CASE ~SyncToUIThrows(m) /\ ~live
    <3>1. k = StopActivity(d, connected)
      BY <2>2, <2>7
    <3>2. \A e \in Elements : s.elements[e] # "jumped"
      BY <2>5 DEF MonitorInv, MonitorList, ListOK
    <3>3. /\ d \in Monitors /\ SameState(s, d) /\ MonitorList(d)
          /\ \A e \in Elements : d.elements[e] \in {"none", s.elements[e]}
      BY <2>3, <3>2, Cleared
    <3> HIDE DEF d
    <3>4. MonitorInv(d)
      BY <2>5, <3>3 DEF MonitorInv, MonitorShown, MonitorActivity, SameState, Whole
    <3>5. MonitorInv(k) /\ SameView(d, k) /\ (connected \/ ~d.subscribed => ~k.subscribed)
      BY <3>1, <3>4, ActivityStopped
    <3>6. /\ k.isLive = live /\ k.document = m.document
          /\ d.subscribed = m.subscribed
          /\ \A e \in Elements : k.elements[e] \in {"none", m.elements[e]}
      BY <2>1, <2>3, <2>4, <2>5, <3>3, <3>5 DEF SameState, SameView, SameList
    <3> QED
      BY <2>7, <3>5, <3>6 DEF Settled, k
  <2>8. CASE ~SyncToUIThrows(m) /\ live
    <3>1. k = StartActivity(s, connected) \/ k = s
      BY <2>2, <2>8
    <3>2. MonitorInv(k) /\ SameView(s, k)
      BY <2>5, <3>1, ActivityStarted DEF SameView, SameList
    <3>3. k.isLive = live /\ SameList(m, k)
      BY <2>4, <2>5, <3>2 DEF SameView, SameList
    <3> QED
      BY <2>8, <3>2, <3>3 DEF Settled, SameList, k
  <2> QED
    BY <2>6, <2>7, <2>8
<1> QED
  BY <1>2, <1>3

\* A request for the live state is sent or answered.
LEMMA RequestMarked ==
    ASSUME NEW m, MonitorInv(m), NEW pending \in BOOLEAN
    PROVE  LET k == [m EXCEPT !.liveStatusRequestPending = pending] IN
           MonitorInv(k) /\ SameView(m, k) /\ k.subscribed = m.subscribed
<1> DEFINE k == [m EXCEPT !.liveStatusRequestPending = pending]
<1>1. m \in Monitors /\ MonitorActivity(m)
  BY DEF MonitorInv
<1>2. /\ k \in Monitors /\ SameView(m, k) /\ k.subscribed = m.subscribed
      /\ k.activeLiverUID = m.activeLiverUID
  BY <1>1 DEF Monitors, SameView, SameList
<1> HIDE DEF k
<1>3. MonitorActivity(k)
  BY <1>1, <1>2 DEF MonitorActivity
<1>4. MonitorInv(k)
  BY <1>2, <1>3, ViewKept
<1> QED
  BY <1>2, <1>4 DEF k

\* An answer comes, or the wait for it is given up.
LEMMA Answered ==
    ASSUME NEW m, MonitorInv(m), NEW live \in BOOLEAN, NEW c, NEW connected \in BOOLEAN
    PROVE  LET k == OnLiveStatus(m, live, c, connected) IN
           Settled(m, k, connected) /\ k.isLive = live
<1> DEFINE answered == FALSE
           n == [m EXCEPT !.liveStatusRequestPending = answered]
           k == SetLiveState(n, live, c, connected)
<1>1. OnLiveStatus(m, live, c, connected) = k
  BY DEF OnLiveStatus
<1>2. answered \in BOOLEAN
  OBVIOUS
<1> HIDE DEF answered
<1>3. MonitorInv(n) /\ SameView(m, n) /\ n.subscribed = m.subscribed
  BY <1>2, RequestMarked
<1> HIDE DEF n
<1>4. Settled(n, k, connected) /\ k.isLive = live
  BY <1>3, LiveSet
<1> HIDE DEF k
<1> QED
  BY <1>1, <1>3, <1>4 DEF Settled, SameView, SameList, Whole

\* One poll.
LEMMA Polled ==
    ASSUME NEW m, MonitorInv(m), NEW c, NEW timedOut \in BOOLEAN, NEW due \in BOOLEAN,
           NEW still \in BOOLEAN
    PROVE  Settled(m, Poll(m, c, timedOut, due, still), still)
<1> DEFINE late == m.liveStatusRequestPending /\ timedOut
           given == OnLiveStatus(m, FALSE, c, still)
           n == IF late THEN given ELSE m
           sent == TRUE
           k == [n EXCEPT !.liveStatusRequestPending = sent]
           p == Poll(m, c, timedOut, due, still)
<1>1. p = k \/ p = n
  BY DEF Poll, OnLiveStatus
<1>2. Settled(m, m, still)
  BY DEF Settled
<1>3. Settled(m, given, still)
  BY Answered
<1> HIDE DEF given, p
<1>4. Settled(m, n, still)
  BY <1>2, <1>3
<1> HIDE DEF n
<1>5. sent \in BOOLEAN
  OBVIOUS
<1> HIDE DEF sent
<1>6. MonitorInv(k) /\ SameView(n, k) /\ k.subscribed = n.subscribed
  BY <1>4, <1>5, RequestMarked DEF Settled
<1> HIDE DEF k
<1>7. Settled(m, k, still)
  BY <1>4, <1>6 DEF Settled, SameView, SameList
<1> QED
  BY <1>1, <1>4, <1>7 DEF p

\* The callback of a frame, once its elements have their style.
LEMMA UpdateCalled ==
    ASSUME NEW m, MonitorInv(m), \A e \in Elements : m.elements[e] # "created", NEW c,
           NEW connected \in BOOLEAN, NEW still \in BOOLEAN, NEW timedOut \in BOOLEAN,
           NEW due \in BOOLEAN
    PROVE  LET k == UpdateCb(m, c, connected, still, timedOut, due) IN
           /\ MonitorInv(k) /\ k.document = m.document
           /\ Whole(m) /\ m.isLive /\ ~k.isLive /\ (still \/ ~m.subscribed) => ~k.subscribed
           /\ UpdateCbUsesDestroyed(m, c, connected, still, timedOut, due) => ~Whole(m)
<1> DEFINE p == PollOrAssume(m, c, connected, still, timedOut, due)
           s == StartPendingDanmakuContainerAnim(p)
           k == UpdateCb(m, c, connected, still, timedOut, due)
<1>1. k = p \/ k = s
  BY DEF UpdateCb
<1>2. Settled(m, p, still)
  <2>1. CASE c # "none" /\ connected
    BY <2>1, Polled DEF PollOrAssume
  <2>2. CASE ~(c # "none" /\ connected)
    <3>1. Settled(m, Assume(m, c), FALSE) /\ Assume(m, c).isLive = TRUE
      BY LiveSet DEF Assume
    <3>2. p = Assume(m, c)
      BY <2>2 DEF PollOrAssume
    <3> QED
      BY <3>1, <3>2 DEF Settled
  <2> QED
    BY <2>1, <2>2
<1>5. UpdateCbUsesDestroyed(m, c, connected, still, timedOut, due) => ~Whole(m)
  <2>1. UpdateCbUsesDestroyed(m, c, connected, still, timedOut, due) => StartsDestroyed(p)
    BY DEF UpdateCbUsesDestroyed
  <2> HIDE DEF p
  <2> QED
    BY <1>2, <2>1, PointersLive DEF Settled, Whole
<1> HIDE DEF p, k
<1>3. MonitorInv(p) /\ \A e \in Elements : p.elements[e] # "created"
  BY <1>2 DEF Settled
<1>4. MonitorInv(s) /\ SameState(p, s)
  BY <1>3, Started
<1> HIDE DEF s
<1> QED
  BY <1>1, <1>2, <1>4, <1>5 DEF Settled, SameState, k

-----------------------------------------------------------------------------
(* New danmakus and new documents.                                             *)

\* A danmaku is added to a list that has room for it.
LEMMA DanmakuAdded ==
    ASSUME NEW m, MonitorInv(m), RoomToAdd(m)
    PROVE  LET k == AddDanmaku(m) IN MonitorInv(k) /\ SameState(m, k)
<1> DEFINE k == AddDanmaku(m)
<1>1. m \in Monitors /\ MonitorList(m) /\ Unused(MakeRoom(m)) # {}
  BY DEF MonitorInv, RoomToAdd
<1> HIDE DEF k
<1>2. k \in Monitors /\ SameState(m, k) /\ MonitorList(k)
  BY <1>1, AddedOne DEF k
<1>3. MonitorInv(k)
  BY <1>2 DEF MonitorInv, MonitorShown, MonitorActivity, SameState, Whole
<1> QED
  BY <1>2, <1>3 DEF k

\* The room for one more depends on the list alone.
LEMMA SameRoom ==
    ASSUME NEW m, NEW k, m \in Monitors, k \in Monitors, SameList(m, k), RoomToAdd(m)
    PROVE  RoomToAdd(k)
<1>1. Unused(m) = Unused(k)
  BY DEF Unused, SameList
<1>2. CASE Len(m.danmakuInGui) < MaxDanmakuInGui
  <2>1. MakeRoom(m) = m /\ MakeRoom(k) = k
    BY <1>2, MonitorAssumption DEF MakeRoom, SameList, Monitors
  <2> QED
    BY <1>1, <2>1 DEF RoomToAdd
<1>3. CASE Len(m.danmakuInGui) >= MaxDanmakuInGui
  <2> DEFINE oldest == Head(m.danmakuInGui)
             left == Without(m.elements, {oldest})
             rest == EraseIf(m.pendingAnimDanmaku, {oldest})
  <2>1. MakeRoom(m) = EvictOldestDanmaku(m) /\ MakeRoom(k) = EvictOldestDanmaku(k)
    BY <1>3 DEF MakeRoom, SameList
  <2>2. /\ RemoveElements(m, {oldest}) =
              WithList(m, m.danmakuInGui, m.pendingAnimDanmaku, left)
        /\ RemoveElements(k, {oldest}) =
              WithList(k, m.danmakuInGui, m.pendingAnimDanmaku, left)
    BY Removed DEF SameList
  <2> HIDE DEF left
  <2>3. /\ EvictOldestDanmaku(m) = WithList(m, Tail(m.danmakuInGui), rest, left)
        /\ EvictOldestDanmaku(k) = WithList(k, Tail(m.danmakuInGui), rest, left)
    <3>1. EvictOldestDanmaku(m) = WithList(m, Tail(m.danmakuInGui), rest, left)
      <4> HIDE DEF oldest
      <4> QED
        BY <2>2 DEF EvictOldestDanmaku, WithList, Monitors, oldest
    <3>2. EvictOldestDanmaku(k) = WithList(k, Tail(m.danmakuInGui), rest, left)
      <4>1. oldest = Head(k.danmakuInGui)
        BY DEF SameList
      <4> HIDE DEF oldest
      <4> QED
        BY <2>2, <4>1 DEF EvictOldestDanmaku, WithList, Monitors, oldest
    <3> QED
      BY <3>1, <3>2
  <2> HIDE DEF rest, oldest
  <2> DEFINE a == WithList(m, Tail(m.danmakuInGui), rest, left)
             b == WithList(k, Tail(m.danmakuInGui), rest, left)
  <2>4. /\ a.danmakuInGui = Tail(m.danmakuInGui) /\ a.pendingAnimDanmaku = rest
        /\ a.elements = left
    BY ListChanged
  <2>5. /\ b.danmakuInGui = Tail(m.danmakuInGui) /\ b.pendingAnimDanmaku = rest
        /\ b.elements = left
    BY ListChanged
  <2> HIDE DEF a, b
  <2>6. Unused(a) = Unused(b)
    BY <2>4, <2>5 DEF Unused
  <2> QED
    BY <2>1, <2>3, <2>6 DEF RoomToAdd, a, b
<1>4. Len(m.danmakuInGui) \in Nat /\ MaxDanmakuInGui \in Nat
  BY MonitorAssumption DEF Monitors
<1> QED
  BY <1>2, <1>3, <1>4

\* A danmaku of the activity makes the window live first.
LEMMA ActivityDanmaku ==
    ASSUME NEW m, MonitorInv(m), RoomToAdd(m), NEW c, NEW connected \in BOOLEAN
    PROVE  LET k == OnDanmakuActivity(m, c, connected) IN
           MonitorInv(k) /\ k.isLive /\ k.document = m.document
<1> DEFINE s == SetLiveState(m, TRUE, c, connected)
           a == AddDanmaku(s)
           k == OnDanmakuActivity(m, c, connected)
<1>1. k = s \/ k = a
  BY DEF OnDanmakuActivity
<1>2. MonitorInv(s) /\ s.isLive = TRUE /\ SameList(m, s)
  BY LiveSet DEF Settled
<1> HIDE DEF s, k
<1>3. RoomToAdd(s)
  BY <1>2, SameRoom DEF MonitorInv
<1>4. MonitorInv(a) /\ SameState(s, a)
  BY <1>2, <1>3, DanmakuAdded
<1> HIDE DEF a
<1> QED
  BY <1>1, <1>2, <1>4 DEF SameState, SameList, k

\* The elements of a document that is closed.
Closed(elements) == [e \in Elements |->
    IF elements[e] \in InDocument THEN "closed" ELSE elements[e]]

\* The document is loaded anew, whole or without the hint: the list is built anew or
\* stays as it is.
LEMMA Reloaded ==
    ASSUME NEW m, MonitorInv(m), NEW document \in Documents \ {"missing"}, RoomToReload(m)
    PROVE  LET k == DocumentReloaded(CloseDocument(m, document)) IN
           /\ MonitorInv(k) /\ k.document = document
           /\ k.isLive = m.isLive /\ k.subscribed = m.subscribed
<1> DEFINE f == Closed(m.elements)
           on == TRUE
           c == [m EXCEPT !.document = document, !.toggleOn = on, !.listShown = on,
                          !.elements = f]
           s == SyncToUI(c)
           d == ClearDanmaku(s)
           count == Len(m.danmakuInGui)
           a == AddDanmakus(d, count)
           k == DocumentReloaded(CloseDocument(m, document))
           N == {e \in Elements : m.elements[e] = "none"}
<1>1. /\ m \in Monitors /\ MonitorList(m) /\ MonitorActivity(m)
      /\ m.elements \in [Elements -> ElementStates] /\ m.danmakuInGui \in Seq(Elements)
  BY DEF MonitorInv, Monitors
<1>2. CloseDocument(m, document) = c
  BY DEF CloseDocument, Closed
<1>3. /\ f \in [Elements -> ElementStates]
      /\ \A e \in Elements : f[e] # "jumped" /\ (m.elements[e] = "none" => f[e] = "none")
  BY <1>1 DEF Closed, ElementStates, InDocument, MonitorList, ListOK
<1>4. on \in BOOLEAN
  OBVIOUS
<1> HIDE DEF f, on
<1>5. /\ c \in Monitors /\ c.document = document /\ c.elements = f
      /\ c.danmakuInGui = m.danmakuInGui /\ c.pendingAnimDanmaku = m.pendingAnimDanmaku
      /\ c.isLive = m.isLive /\ c.subscribed = m.subscribed
      /\ c.activeLiverUID = m.activeLiverUID
  <2>1. c \in Monitors
    BY <1>1, <1>3, <1>4 DEF Monitors
  <2> QED
    BY <1>1, <2>1 DEF Monitors
<1>6. k = IF SyncToUIThrows(c) THEN s ELSE a
  BY <1>2, <1>5 DEF DocumentReloaded
<1> HIDE DEF c, k
<1>7. /\ s \in Monitors /\ SameList(c, s) /\ MonitorShown(s) /\ s.isLive = c.isLive
      /\ s.activeLiverUID = c.activeLiverUID /\ s.subscribed = c.subscribed
  BY <1>5, Synced
<1> HIDE DEF s
<1>8. s.elements = f /\ s.document = document
  BY <1>5, <1>7 DEF SameList
<1>9. MonitorActivity(s)
  BY <1>1, <1>5, <1>7 DEF MonitorActivity
<1>10. CASE SyncToUIThrows(c)
  <2>1. ~Whole(s) /\ ~Whole(c)
    BY <1>5, <1>8, <1>10 DEF SyncToUIThrows, Whole
  <2>2. /\ s.danmakuInGui = m.danmakuInGui
        /\ s.pendingAnimDanmaku = m.pendingAnimDanmaku
    BY <1>5, <1>7 DEF SameList
  <2>3. ListOK(m.danmakuInGui, m.pendingAnimDanmaku, f, FALSE)
    BY <1>1, <1>3 DEF MonitorList, ListOK
  <2>4. MonitorList(s)
    BY <1>8, <2>1, <2>2, <2>3 DEF MonitorList, ListOK
  <2> QED
    BY <1>5, <1>6, <1>7, <1>8, <1>9, <1>10, <2>4 DEF MonitorInv, k
<1>11. CASE ~SyncToUIThrows(c)
  <2>1. Whole(s)
    BY <1>5, <1>8, <1>11 DEF SyncToUIThrows, Whole, Documents
  <2>2. /\ d \in Monitors /\ SameState(s, d) /\ MonitorList(d)
        /\ d.danmakuInGui = <<>>
        /\ \A e \in Elements : d.elements[e] \in {"none", s.elements[e]}
    BY <1>3, <1>7, <1>8, Cleared
  <2> HIDE DEF d
  <2>3. Whole(d)
    BY <2>1, <2>2 DEF SameState, Whole
  <2>4. count \in Nat /\ count <= Cardinality(N) /\ N \in SUBSET Elements
    <3>1. IsFiniteSet(N) /\ Cardinality(N) \in Nat
      BY ElementsFinite, FS_CardinalityType
    <3>2. Cardinality(N) >= count
      BY DEF RoomToReload
    <3> HIDE DEF N
    <3>3. count \in Nat
      BY <1>1
    <3> QED
      BY <3>1, <3>2, <3>3 DEF N
  <2>5. \A e \in N : d.elements[e] = "none"
    BY <1>3, <1>8, <2>2
  <2> HIDE DEF N, count
  <2>6. a \in Monitors /\ SameState(d, a) /\ MonitorList(a)
    BY <2>2, <2>3, <2>4, <2>5, AddedMany
  <2> HIDE DEF a
  <2>7. MonitorInv(a)
    BY <1>7, <1>9, <2>2, <2>6
       DEF MonitorInv, MonitorShown, MonitorActivity, SameState, Whole
  <2> QED
    BY <1>5, <1>6, <1>7, <1>8, <1>11, <2>2, <2>6, <2>7 DEF SameState, k
<1> QED
  BY <1>10, <1>11

\* Without a document the list stays as it is.
LEMMA DocumentMissing ==
    ASSUME NEW m, MonitorInv(m)
    PROVE  LET k == CloseDocument(m, "missing") IN
           /\ MonitorInv(k) /\ k.document = "missing"
           /\ k.isLive = m.isLive /\ k.subscribed = m.subscribed
<1> DEFINE f == Closed(m.elements)
           on == TRUE
           missing == "missing"
           k == [m EXCEPT !.document = missing, !.toggleOn = on, !.listShown = on,
                          !.elements = f]
<1>1. /\ m \in Monitors /\ MonitorList(m) /\ MonitorActivity(m)
      /\ m.elements \in [Elements -> ElementStates]
  BY DEF MonitorInv, Monitors
<1>2. CloseDocument(m, "missing") = k
  BY DEF CloseDocument, Closed
<1>3. f \in [Elements -> ElementStates] /\ \A e \in Elements : f[e] # "jumped"
  BY <1>1 DEF Closed, ElementStates, InDocument, MonitorList, ListOK
<1>4. on \in BOOLEAN /\ missing \in Documents /\ missing # "whole"
  BY DEF Documents
<1> HIDE DEF f, on
<1>5. /\ k \in Monitors /\ k.document = "missing" /\ k.elements = f
      /\ k.danmakuInGui = m.danmakuInGui /\ k.pendingAnimDanmaku = m.pendingAnimDanmaku
      /\ k.isLive = m.isLive /\ k.subscribed = m.subscribed
      /\ k.activeLiverUID = m.activeLiverUID
  BY <1>1, <1>3, <1>4 DEF Monitors
<1> HIDE DEF k
<1>6. ListOK(m.danmakuInGui, m.pendingAnimDanmaku, f, FALSE)
  BY <1>1, <1>3 DEF MonitorList, ListOK
<1>7. ~Whole(k)
  BY <1>5 DEF Whole
<1>8. MonitorList(k)
  BY <1>5, <1>6, <1>7 DEF MonitorList, ListOK
<1> QED
  BY <1>1, <1>2, <1>5, <1>7, <1>8 DEF MonitorInv, MonitorShown, MonitorActivity

\* The window is made and shown, with any number of danmakus for a test.
LEMMA Shown ==
    ASSUME NEW tests \in Nat
    PROVE  /\ MonitorInv(NewMonitor) /\ MonitorInv(SyncToUI(NewMonitor))
           /\ MonitorInv(AddDanmakus(SyncToUI(NewMonitor), tests))
           /\ Whole(NewMonitor) /\ Whole(SyncToUI(NewMonitor))
           /\ Whole(AddDanmakus(SyncToUI(NewMonitor), tests))
<1> DEFINE m == NewMonitor
           f == [e \in Elements |-> "none"]
           s == SyncToUI(m)
           a == AddDanmakus(s, tests)
<1>1. f \in [Elements -> ElementStates] /\ \A e \in Elements : f[e] = "none"
  BY DEF ElementStates
<1>2. m.elements = f /\ m.danmakuInGui = <<>> /\ m.pendingAnimDanmaku = <<>>
      /\ m.document = "whole" /\ ~m.subscribed /\ m.toggleOn = m.scrollLocked
      /\ m.listShown = m.isLive
  BY DEF NewMonitor
<1>3. m \in Monitors
  <2>1. <<>> \in Seq(Elements)
    OBVIOUS
  <2> HIDE DEF f
  <2>2. m = [danmakuInGui |-> <<>>, pendingAnimDanmaku |-> <<>>,
             elements |-> f, document |-> "whole",
             scrollLocked |-> TRUE, toggleOn |-> TRUE, isLive |-> FALSE, listShown |-> FALSE,
             liveStatusRequestPending |-> FALSE, activeLiverUID |-> FALSE, subscribed |-> FALSE]
    BY DEF NewMonitor, f
  <2> QED
    BY <1>1, <2>1, <2>2 DEF Monitors, Documents
<1>4. MonitorList(m)
  <2>1. \A e \in Elements : f[e] # "jumped"
    BY <1>1
  <2> HIDE DEF m, f
  <2> QED
    BY <1>1, <1>2, <2>1, EmptyList DEF MonitorList
<1> HIDE DEF m, f
<1>5. MonitorInv(m)
  BY <1>2, <1>3, <1>4 DEF MonitorInv, MonitorShown, MonitorActivity
<1>6. /\ s \in Monitors /\ SameList(m, s) /\ MonitorShown(s)
      /\ s.activeLiverUID = m.activeLiverUID /\ s.subscribed = m.subscribed
  BY <1>3, Synced
<1> HIDE DEF s
<1>7. MonitorInv(s)
  BY <1>5, <1>6 DEF MonitorInv, MonitorList, MonitorActivity, SameList, Whole
<1>8. a \in Monitors /\ SameState(s, a) /\ MonitorList(a)
  <2>1. Whole(s) /\ s.danmakuInGui = <<>> /\ \A e \in Elements : s.elements[e] = "none"
    BY <1>1, <1>2, <1>6 DEF SameList, Whole
  <2>2. MaxDanmakuInGui <= Cardinality(Elements)
    BY ElementsFinite, MonitorAssumption
  <2>3. MonitorList(s)
    BY <1>7 DEF MonitorInv
  <2> QED
    BY <1>6, <2>1, <2>2, <2>3, AddedMany
<1> HIDE DEF a
<1>9. MonitorInv(a)
  BY <1>7, <1>8 DEF MonitorInv, MonitorShown, MonitorActivity, SameState, Whole
<1>10. Whole(m) /\ Whole(s) /\ Whole(a)
  BY <1>2, <1>6, <1>8 DEF SameList, SameState, Whole
<1> QED
  BY <1>5, <1>7, <1>9, <1>10 DEF m, s, a
=============================================================================
