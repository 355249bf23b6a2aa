-------------------------- MODULE ScriptStyleProofs --------------------------
(* What the operators of ScriptStyle do, for any number of documents.           *)
EXTENDS ScriptStyle, Induction

-----------------------------------------------------------------------------
(* Folding Reconcile over a set of documents.                                   *)

First(T) == CHOOSE d \in T : TRUE
ReconcileSet(s, S) == FoldSet(Reconcile, s, S)

\* What the fold has made of s for every set of a family.
Folded(iter, s, F) ==
    iter = [T \in F |-> IF T = {} THEN s ELSE Reconcile(First(T), iter[T \ {First(T)}])]

\* The subsets with at most n documents.
AtMost(S, n) == {T \in SUBSET S : Cardinality(T) <= n}

\* A set without its first document.
LEMMA WithoutFirst ==
    ASSUME NEW S, IsFiniteSet(S), NEW T \in SUBSET S, T # {}
    PROVE  /\ First(T) \in T /\ T \ {First(T)} \in SUBSET S
           /\ Cardinality(T) \in Nat /\ Cardinality(T \ {First(T)}) = Cardinality(T) - 1
<1>1. First(T) \in T
  BY DEF First
<1>2. IsFiniteSet(T)
  BY FS_Subset
<1>3. Cardinality(T) \in Nat /\ Cardinality(T \ {First(T)}) = Cardinality(T) - 1
  BY <1>1, <1>2, FS_RemoveElement, FS_CardinalityType
<1> QED
  BY <1>1, <1>3

\* What has been made of s for every subset, one document after the other.
Unfolded(iter, s, S) ==
    /\ iter[{}] = s
    /\ \A T \in SUBSET S : T # {} => iter[T] = Reconcile(First(T), iter[T \ {First(T)}])
    /\ ReconcileSet(s, S) = iter[S]

\* The recursive function exists, so that it can be unfolded.
LEMMA SyncLoop ==
    ASSUME NEW s, NEW S, IsFiniteSet(S)
    PROVE  \E iter : Unfolded(iter, s, S)
<1> DEFINE N == {n \in Nat : \E iter : Folded(iter, s, AtMost(S, n))}
<1>1. 0 \in N
  <2>1. AtMost(S, 0) = {{}}
    <3>1. \A T \in SUBSET S : IsFiniteSet(T) /\ (Cardinality(T) = 0 <=> T = {})
      BY FS_Subset, FS_EmptySet
    <3>2. \A T \in SUBSET S : Cardinality(T) \in Nat
      BY <3>1, FS_CardinalityType
    <3> QED
      BY <3>1, <3>2 DEF AtMost
  <2>2. Folded([T \in {{}} |-> s], s, {{}})
    BY DEF Folded
  <2> QED
    BY <2>1, <2>2
<1>2. ASSUME NEW n \in Nat, n \in N PROVE n + 1 \in N
  <2>1. PICK iter : Folded(iter, s, AtMost(S, n))
    BY <1>2
  <2> DEFINE step(T) == IF T = {} THEN s ELSE Reconcile(First(T), iter[T \ {First(T)}])
             new == [T \in AtMost(S, n + 1) |-> step(T)]
  <2>2. \A T \in AtMost(S, n) : iter[T] = step(T) /\ T \in AtMost(S, n + 1) /\ new[T] = iter[T]
    <3>1. \A T \in AtMost(S, n) : iter[T] = step(T)
      BY <2>1 DEF Folded
    <3>2. \A T \in SUBSET S : Cardinality(T) \in Nat
      BY FS_Subset, FS_CardinalityType
    <3>3. \A T \in AtMost(S, n) : T \in AtMost(S, n + 1)
      BY <3>2 DEF AtMost
    <3> HIDE DEF step
    <3> QED
      BY <3>1, <3>3
  <2>3. ASSUME NEW T \in AtMost(S, n + 1), T # {}
        PROVE  T \ {First(T)} \in AtMost(S, n)
    BY <2>3, WithoutFirst DEF AtMost
  <2>4. \A T \in AtMost(S, n + 1) :
            new[T] = IF T = {} THEN s ELSE Reconcile(First(T), new[T \ {First(T)}])
    <3> TAKE T \in AtMost(S, n + 1)
    <3>1. new[T] = step(T)
      OBVIOUS
    <3>2. T # {} => new[T \ {First(T)}] = iter[T \ {First(T)}]
      BY <2>2, <2>3
    <3> HIDE DEF new
    <3> QED
      BY <3>1, <3>2
  <2>5. new = [T \in AtMost(S, n + 1) |-> new[T]]
    OBVIOUS
  <2> HIDE DEF new
  <2>6. Folded(new, s, AtMost(S, n + 1))
    BY <2>4, <2>5 DEF Folded
  <2> QED
    BY <2>6
<1>3. Cardinality(S) \in N
  <2> HIDE DEF N
  <2>1. Cardinality(S) \in Nat
    BY FS_CardinalityType
  <2> QED
    BY <1>1, <1>2, <2>1, NumbersInduction
<1>4. AtMost(S, Cardinality(S)) = SUBSET S
  BY FS_Subset DEF AtMost
<1> DEFINE f == CHOOSE iter : Folded(iter, s, SUBSET S)
<1>5. Folded(f, s, SUBSET S)
  BY <1>3, <1>4
<1>6. ReconcileSet(s, S) = f[S]
  BY DEF ReconcileSet, FoldSet, MapThenFoldSet, First, Folded
<1> HIDE DEF f
<1>7. \A T \in SUBSET S : f[T] = IF T = {} THEN s ELSE Reconcile(First(T), f[T \ {First(T)}])
  BY <1>5 DEF Folded
<1>8. f[{}] = s
  BY <1>7
<1>9. \A T \in SUBSET S : T # {} => f[T] = Reconcile(First(T), f[T \ {First(T)}])
  BY <1>7
<1> QED
  BY <1>6, <1>8, <1>9 DEF Unfolded

-----------------------------------------------------------------------------
(* Addresses.                                                                   *)

\* The values of a function are no more than its arguments.
LEMMA ValuesFinite ==
    ASSUME NEW f, NEW D, IsFiniteSet(D)
    PROVE  /\ IsFiniteSet({f[d] : d \in D})
           /\ Cardinality({f[d] : d \in D}) <= Cardinality(D)
<1> DEFINE R == {f[d] : d \in D}
           g == [d \in D |-> f[d]]
<1>1. g \in Surjection(D, R)
  BY DEF Surjection
<1> HIDE DEF g, R
<1> QED
  BY <1>1, FS_Surjection DEF R

\* Two sets together.
LEMMA TogetherFinite ==
    ASSUME NEW A, NEW B, IsFiniteSet(A), IsFiniteSet(B), NEW a \in Nat, NEW b \in Nat,
           Cardinality(A) <= a, Cardinality(B) <= b
    PROVE  IsFiniteSet(A \cup B) /\ Cardinality(A \cup B) <= a + b
<1>1. IsFiniteSet(A \cap B)
  BY FS_Intersection
<1>2. /\ IsFiniteSet(A \cup B)
      /\ Cardinality(A \cup B) = Cardinality(A) + Cardinality(B) - Cardinality(A \cap B)
  BY FS_Union
<1>3. /\ Cardinality(A) \in Nat /\ Cardinality(B) \in Nat /\ Cardinality(A \cap B) \in Nat
      /\ Cardinality(A \cup B) \in Nat
  BY <1>1, <1>2, FS_CardinalityType
<1> QED
  BY <1>2, <1>3

\* There is always an address nobody holds and nothing remembers: each document has
\* at most four, and the scripts' container has one.
LEMMA FreshAddress ==
    ASSUME NEW s, s.live \subseteq Documents
    PROVE  NewAddress(s) \in Nat \ {0} /\ NewAddress(s) \notin Held(s) \cup Remembered(s)
<1> DEFINE shown == [d \in Documents |-> s.shown[d].at]
           base == [d \in Documents |-> s.records[d].base.at]
           expected == [d \in Documents |-> s.records[d].expected]
           used == [d \in Documents |-> s.records[d].scriptUsed]
           A == {shown[d] : d \in s.live}
           B == {base[d] : d \in Documents}
           C == {expected[d] : d \in Documents}
           D == {used[d] : d \in Documents}
           n == Cardinality(Documents)
           all == ((A \cup B) \cup {s.container.at}) \cup (C \cup D)
<1>1. Held(s) \cup Remembered(s) = all
  BY DEF Held, Remembered
<1>2. IsFiniteSet(s.live) /\ Cardinality(s.live) \in Nat /\ Cardinality(s.live) <= n /\ n \in Nat
      /\ IsFiniteSet(Documents)
  BY DocumentsAssumption, FS_Subset, FS_CardinalityType
<1>3. /\ IsFiniteSet(A) /\ Cardinality(A) <= Cardinality(s.live)
      /\ IsFiniteSet(B) /\ Cardinality(B) <= n
      /\ IsFiniteSet(C) /\ Cardinality(C) <= n
      /\ IsFiniteSet(D) /\ Cardinality(D) <= n
  <2> HIDE DEF shown, base, expected, used
  <2> QED
    BY <1>2, ValuesFinite
<1>4. Cardinality(A) <= n
  BY <1>2, <1>3, FS_CardinalityType
<1>5. IsFiniteSet({s.container.at}) /\ Cardinality({s.container.at}) = 1
  BY FS_Singleton
<1> HIDE DEF A, B, C, D, n
<1>6. IsFiniteSet(all) /\ Cardinality(all) <= ((n + n) + 1) + (n + n)
  <2> DEFINE P == A \cup B
             Q == C \cup D
             one == {s.container.at}
             R == P \cup one
  <2>1. n + n \in Nat /\ (n + n) + 1 \in Nat /\ 1 \in Nat
    BY <1>2
  <2>2. IsFiniteSet(P) /\ Cardinality(P) <= n + n
    BY <1>2, <1>3, <1>4, TogetherFinite
  <2>3. IsFiniteSet(Q) /\ Cardinality(Q) <= n + n
    BY <1>2, <1>3, TogetherFinite
  <2>4. IsFiniteSet(one) /\ Cardinality(one) <= 1
    BY <1>5
  <2> HIDE DEF P, Q, one
  <2>5. IsFiniteSet(R) /\ Cardinality(R) <= (n + n) + 1
    BY <2>1, <2>2, <2>4, TogetherFinite
  <2> HIDE DEF R
  <2>6. IsFiniteSet(R \cup Q) /\ Cardinality(R \cup Q) <= ((n + n) + 1) + (n + n)
    BY <2>1, <2>3, <2>5, TogetherFinite
  <2> QED
    BY <2>6 DEF R, P, Q, one
<1> DEFINE range == 1 .. 5 * (n + 1)
<1>7. IsFiniteSet(range) /\ Cardinality(range) = 5 * (n + 1)
  <2>1. 5 * (n + 1) \in Int /\ 1 \in Int /\ ~(1 > 5 * (n + 1)) /\ 5 * (n + 1) - 1 + 1 = 5 * (n + 1)
    BY <1>2
  <2> QED
    BY <2>1, FS_Interval
<1>8. ~(range \subseteq all)
  <2>1. range \subseteq all => Cardinality(range) <= Cardinality(all)
    BY <1>6, FS_Subset
  <2>2. Cardinality(all) \in Nat
    BY <1>6, FS_CardinalityType
  <2> HIDE DEF range, all
  <2> QED
    BY <1>2, <1>6, <1>7, <2>1, <2>2
<1>9. \E a \in range : a \notin Held(s) \cup Remembered(s)
  BY <1>1, <1>8
<1>10. NewAddress(s) \in range /\ NewAddress(s) \notin Held(s) \cup Remembered(s)
  BY <1>9 DEF NewAddress, n
<1> QED
  BY <1>2, <1>10

-----------------------------------------------------------------------------
(* The record, of documents' sheets in versions V and scripts' sheets in W.      *)

Compiled(V, W) == [at : Nat, own : V, scripts : Seq(W)]
RecordOf(V, W) == [base : Compiled(V, W), expected : Nat, scriptUsed : Nat]
StylesOf(V, W) ==
    [sheets : Seq(W), dirty : BOOLEAN, container : Compiled(V, W), live : SUBSET Documents,
     shown : [Documents -> Compiled(V, W)], records : [Documents -> RecordOf(V, W)]]

\* r is s but for what one document shows and what is remembered of it.
DocumentOnly(r, s, d, c, x) ==
    /\ r.sheets = s.sheets /\ r.dirty = s.dirty /\ r.container = s.container /\ r.live = s.live
    /\ r.shown[d] = c /\ r.records[d] = x
    /\ \A e \in Documents \ {d} : r.shown[e] = s.shown[e] /\ r.records[e] = s.records[e]

WithRecord(s, d, x) == [s EXCEPT !.records[d] = x]
WithDocument(s, d, c, x) == [s EXCEPT !.shown[d] = c, !.records[d] = x]

\* A container is of its kind when its parts are.
LEMMA CompiledIs ==
    ASSUME NEW V, NEW W, NEW a \in Nat, NEW o \in V, NEW q \in Seq(W)
    PROVE  [at |-> a, own |-> o, scripts |-> q] \in Compiled(V, W)
BY DEF Compiled

\* The updates change nothing else, and keep the kind.
LEMMA WithDocumentIs ==
    ASSUME NEW V, NEW W, NEW s \in StylesOf(V, W), NEW d \in Documents,
           NEW c \in Compiled(V, W), NEW x \in RecordOf(V, W)
    PROVE  /\ WithDocument(s, d, c, x) \in StylesOf(V, W)
           /\ DocumentOnly(WithDocument(s, d, c, x), s, d, c, x)
<1> DEFINE r == WithDocument(s, d, c, x)
           shown == [s.shown EXCEPT ![d] = c]
           records == [s.records EXCEPT ![d] = x]
<1>1. r = [sheets |-> s.sheets, dirty |-> s.dirty, container |-> s.container, live |-> s.live,
           shown |-> shown, records |-> records]
  <2>1. /\ r.sheets = s.sheets /\ r.dirty = s.dirty /\ r.container = s.container
        /\ r.live = s.live
    BY DEF StylesOf, WithDocument
  <2>2. r.shown = shown
    BY DEF StylesOf, WithDocument
  <2>3. r.records = records
    BY DEF StylesOf, WithDocument
  <2>4. r = [sheets |-> r.sheets, dirty |-> r.dirty, container |-> r.container,
             live |-> r.live, shown |-> r.shown, records |-> r.records]
    <3> DEFINE t == [s EXCEPT !.shown[d] = c]
    <3>1. t = [sheets |-> t.sheets, dirty |-> t.dirty, container |-> t.container,
               live |-> t.live, shown |-> t.shown, records |-> t.records]
      BY DEF StylesOf
    <3>2. r = [t EXCEPT !.records[d] = x]
      BY DEF WithDocument
    <3> HIDE DEF t, r
    <3> QED
      BY <3>1, <3>2
  <2> HIDE DEF r, shown, records
  <2> QED
    BY <2>1, <2>2, <2>3, <2>4
<1>2. s.shown \in [Documents -> Compiled(V, W)] /\ s.records \in [Documents -> RecordOf(V, W)]
  BY DEF StylesOf
<1>3. /\ shown \in [Documents -> Compiled(V, W)] /\ records \in [Documents -> RecordOf(V, W)]
      /\ shown[d] = c /\ records[d] = x
      /\ \A e \in Documents \ {d} : shown[e] = s.shown[e] /\ records[e] = s.records[e]
  BY <1>2
<1> HIDE DEF r, shown, records
<1>4. r \in StylesOf(V, W)
  BY <1>1, <1>3 DEF StylesOf
<1>5. DocumentOnly(r, s, d, c, x)
  BY <1>1, <1>3 DEF DocumentOnly
<1> QED
  BY <1>4, <1>5 DEF r

\* Likewise when only what is remembered changes.
LEMMA WithRecordIs ==
    ASSUME NEW V, NEW W, NEW s \in StylesOf(V, W), NEW d \in Documents,
           NEW x \in RecordOf(V, W)
    PROVE  /\ WithRecord(s, d, x) \in StylesOf(V, W)
           /\ DocumentOnly(WithRecord(s, d, x), s, d, s.shown[d], x)
<1>1. s.shown[d] \in Compiled(V, W)
  BY DEF StylesOf
<1>2. WithRecord(s, d, x) = WithDocument(s, d, s.shown[d], x)
  BY DEF WithRecord, WithDocument, StylesOf
<1> QED
  BY <1>1, <1>2, WithDocumentIs

\* A new address.
LEMMA AddressIs ==
    ASSUME NEW V, NEW W, NEW s \in StylesOf(V, W)
    PROVE  NewAddress(s) \in Nat \ {0} /\ NewAddress(s) \notin Held(s) \cup Remembered(s)
BY FreshAddress DEF StylesOf

-----------------------------------------------------------------------------
(* Synchronisation.                                                             *)

\* The container of the scripts' sheets is the empty one or has an address.
ContainerOK(s) == s.container.at = 0 => s.container = None

\* The document's own sheets were read again, and are all it shows.
Fresh(s, d) ==
    s.shown[d].at # s.records[d].expected /\ s.shown[d].scripts = <<>>

\* The document shows what was installed last: its own sheets under those of the
\* container that was used.
Settled(s, d) ==
    LET x == s.records[d] IN
    /\ s.shown[d].at = x.expected
    /\ s.shown[d].own = x.base.own /\ x.base.scripts = <<>>
    /\ x.scriptUsed = 0 => s.shown[d].scripts = <<>>
    /\ x.scriptUsed = s.container.at => s.shown[d].scripts = s.container.scripts

\* The container used is the one there is.
Done(s, d) == Settled(s, d) /\ s.records[d].scriptUsed = s.container.at

\* Rebasing makes a fresh document a settled one without scripts.
LEMMA RebaseSettles ==
    ASSUME NEW V, NEW W, NEW s \in StylesOf(V, W), NEW d \in Documents, ContainerOK(s)
    PROVE  \E x \in RecordOf(V, W) :
               /\ Rebase(s, d) \in StylesOf(V, W)
               /\ DocumentOnly(Rebase(s, d), s, d, s.shown[d], x)
               /\ Fresh(s, d) \/ Settled(s, d) => Settled(Rebase(s, d), d)
<1> DEFINE c == s.shown[d]
           clone == CloneOf(s, c)
           x == [base |-> clone, expected |-> c.at, scriptUsed |-> 0]
<1>1. c \in Compiled(V, W) /\ s.records[d] \in RecordOf(V, W) /\ NewAddress(s) \in Nat
  BY AddressIs DEF StylesOf
<1>2. clone \in Compiled(V, W) /\ clone.own = c.own /\ clone.scripts = c.scripts
  <2>1. clone = [at |-> NewAddress(s), own |-> c.own, scripts |-> c.scripts]
    BY <1>1 DEF CloneOf, Compiled
  <2>2. c.own \in V /\ c.scripts \in Seq(W)
    BY <1>1 DEF Compiled
  <2> QED
    BY <1>1, <2>1, <2>2, CompiledIs
<1> HIDE DEF clone
<1>3. x \in RecordOf(V, W)
  BY <1>1, <1>2 DEF RecordOf, Compiled
<1>4. CASE c.at = s.records[d].expected
  <2>1. Rebase(s, d) = s
    BY <1>4 DEF Rebase
  <2>2. DocumentOnly(s, s, d, c, s.records[d])
    BY DEF DocumentOnly
  <2>3. Fresh(s, d) \/ Settled(s, d) => Settled(s, d)
    BY <1>4 DEF Fresh
  <2> QED
    BY <1>1, <2>1, <2>2, <2>3
<1>5. CASE c.at # s.records[d].expected
  <2>1. Rebase(s, d) = WithRecord(s, d, x)
    BY <1>5 DEF Rebase, WithRecord, clone
  <2> DEFINE r == WithRecord(s, d, x)
  <2>2. r \in StylesOf(V, W) /\ DocumentOnly(r, s, d, c, x)
    BY <1>3, WithRecordIs
  <2>3. x.base = clone /\ x.expected = c.at /\ x.scriptUsed = 0
    OBVIOUS
  <2> HIDE DEF r, x
  <2>4. ASSUME Fresh(s, d) \/ Settled(s, d) PROVE Settled(r, d)
    <3>1. c.scripts = <<>>
      BY <1>5, <2>4 DEF Fresh, Settled
    <3>2. s.container.at = 0 => s.container.scripts = <<>>
      BY DEF ContainerOK, None
    <3> HIDE DEF c
    <3> QED
      BY <1>2, <2>2, <2>3, <3>1, <3>2 DEF Settled, DocumentOnly
  <2>5. Rebase(s, d) = r
    BY <2>1 DEF r
  <2> QED
    BY <1>3, <2>2, <2>4, <2>5 DEF x
<1> QED
  BY <1>4, <1>5

\* Installing puts the scripts' sheets over the base.
LEMMA InstallSettles ==
    ASSUME NEW V, NEW W, NEW s \in StylesOf(V, W), NEW d \in Documents, ContainerOK(s)
    PROVE  \E c \in Compiled(V, W), x \in RecordOf(V, W) :
               /\ Install(s, d) \in StylesOf(V, W)
               /\ DocumentOnly(Install(s, d), s, d, c, x)
               /\ Settled(s, d) => Done(Install(s, d), d) /\ c.own = s.shown[d].own
<1> DEFINE base == s.records[d].base
           next == IF s.container = None THEN base ELSE Combine(s, base)
           x == [base |-> base, expected |-> next.at, scriptUsed |-> s.container.at]
           r == WithDocument(s, d, next, x)
<1>1. /\ base \in Compiled(V, W) /\ s.container \in Compiled(V, W) /\ NewAddress(s) \in Nat
      /\ s.records[d] \in RecordOf(V, W)
  BY AddressIs DEF StylesOf, RecordOf
<1>2. base.own \in V /\ base.scripts \in Seq(W) /\ s.container.scripts \in Seq(W)
      /\ s.container.at \in Nat
  BY <1>1 DEF Compiled
<1>3. base.scripts \o s.container.scripts \in Seq(W)
  BY <1>2
<1>4. base.scripts = <<>> => base.scripts \o s.container.scripts = s.container.scripts
  BY <1>2
<1> HIDE DEF base
<1>5. /\ next \in Compiled(V, W) /\ next.own = base.own
      /\ base.scripts = <<>> => next.scripts = s.container.scripts
  <2>1. CASE s.container = None
    BY <1>1, <2>1 DEF None
  <2>2. CASE s.container # None
    <3> DEFINE q == base.scripts \o s.container.scripts
    <3>1. next = [at |-> NewAddress(s), own |-> base.own, scripts |-> q]
      BY <2>2 DEF Combine
    <3> HIDE DEF q, next
    <3>2. next \in Compiled(V, W) /\ next.own = base.own /\ next.scripts = q
      BY <1>1, <1>2, <1>3, <3>1, CompiledIs DEF q
    <3> QED
      BY <1>4, <3>2 DEF q
  <2> QED
    BY <2>1, <2>2
<1>6. Install(s, d) = r
  BY DEF Install, WithDocument, base
<1> HIDE DEF next
<1>7. x \in RecordOf(V, W)
  <2>1. next.at \in Nat
    BY <1>5 DEF Compiled
  <2> QED
    BY <1>1, <1>2, <2>1 DEF RecordOf
<1>8. x.base = base /\ x.expected = next.at /\ x.scriptUsed = s.container.at
  OBVIOUS
<1> HIDE DEF x
<1>9. r \in StylesOf(V, W) /\ DocumentOnly(r, s, d, next, x)
  BY <1>5, <1>7, WithDocumentIs
<1> HIDE DEF r
<1>10. ASSUME Settled(s, d) PROVE Done(r, d) /\ next.own = s.shown[d].own
  <2>1. base.scripts = <<>> /\ base.own = s.shown[d].own
    BY <1>10 DEF Settled, base
  <2>2. s.container.at = 0 => s.container.scripts = <<>>
    BY DEF ContainerOK, None
  <2> QED
    BY <1>5, <1>8, <1>9, <2>1, <2>2 DEF Done, Settled, DocumentOnly
<1> QED
  BY <1>5, <1>6, <1>7, <1>9, <1>10

\* A document that is fresh or settled shows its own sheets under the scripts'.
LEMMA ReconcileSettles ==
    ASSUME NEW V, NEW W, NEW s \in StylesOf(V, W), NEW d \in Documents, ContainerOK(s)
    PROVE  \E c \in Compiled(V, W), x \in RecordOf(V, W) :
               /\ Reconcile(d, s) \in StylesOf(V, W)
               /\ DocumentOnly(Reconcile(d, s), s, d, c, x)
               /\ Fresh(s, d) \/ Settled(s, d) =>
                      Done(Reconcile(d, s), d) /\ c.own = s.shown[d].own
<1> DEFINE based == Rebase(s, d)
<1>1. PICK y \in RecordOf(V, W) :
          /\ based \in StylesOf(V, W)
          /\ DocumentOnly(based, s, d, s.shown[d], y)
          /\ Fresh(s, d) \/ Settled(s, d) => Settled(based, d)
  BY RebaseSettles
<1>2. s.shown[d] \in Compiled(V, W)
  BY DEF StylesOf
<1>3. CASE based.records[d].scriptUsed = s.container.at
  <2>1. Reconcile(d, s) = based
    BY <1>3 DEF Reconcile
  <2> HIDE DEF based
  <2>2. based.container = s.container
    BY <1>1 DEF DocumentOnly
  <2>3. Settled(based, d) => Done(based, d)
    BY <1>3, <2>2 DEF Done
  <2> QED
    BY <1>1, <1>2, <2>1, <2>3
<1>4. CASE based.records[d].scriptUsed # s.container.at
  <2>1. Reconcile(d, s) = Install(based, d)
    BY <1>4 DEF Reconcile
  <2> HIDE DEF based
  <2>2. ContainerOK(based)
    BY <1>1 DEF DocumentOnly, ContainerOK
  <2>3. PICK c \in Compiled(V, W), x \in RecordOf(V, W) :
            /\ Install(based, d) \in StylesOf(V, W)
            /\ DocumentOnly(Install(based, d), based, d, c, x)
            /\ Settled(based, d) => Done(Install(based, d), d) /\ c.own = based.shown[d].own
    BY <1>1, <2>2, InstallSettles
  <2>4. DocumentOnly(Install(based, d), s, d, c, x) /\ based.shown[d] = s.shown[d]
    BY <1>1, <2>3 DEF DocumentOnly
  <2> QED
    BY <1>1, <2>1, <2>3, <2>4
<1> QED
  BY <1>3, <1>4

\* r is s with the documents of T reconciled.
Synced(r, s, T) ==
    /\ r.sheets = s.sheets /\ r.dirty = s.dirty /\ r.container = s.container /\ r.live = s.live
    /\ \A d \in Documents \ T : r.shown[d] = s.shown[d] /\ r.records[d] = s.records[d]
    /\ \A d \in T : Fresh(s, d) \/ Settled(s, d) => Done(r, d) /\ r.shown[d].own = s.shown[d].own

\* One document more.
LEMMA SyncedStep ==
    ASSUME NEW V, NEW W, NEW s, ContainerOK(s), NEW q \in StylesOf(V, W),
           NEW T \in SUBSET Documents, NEW d \in T, Synced(q, s, T \ {d})
    PROVE  Reconcile(d, q) \in StylesOf(V, W) /\ Synced(Reconcile(d, q), s, T)
<1>1. ContainerOK(q)
  BY DEF Synced, ContainerOK
<1>2. PICK c \in Compiled(V, W), x \in RecordOf(V, W) :
          /\ Reconcile(d, q) \in StylesOf(V, W)
          /\ DocumentOnly(Reconcile(d, q), q, d, c, x)
          /\ Fresh(q, d) \/ Settled(q, d) => Done(Reconcile(d, q), d) /\ c.own = q.shown[d].own
  BY <1>1, ReconcileSettles
<1> DEFINE r == Reconcile(d, q)
<1> HIDE DEF r
<1>3. /\ r.sheets = s.sheets /\ r.dirty = s.dirty /\ r.container = s.container /\ r.live = s.live
      /\ r.container = q.container
  BY <1>2 DEF r, DocumentOnly, Synced
<1>4. \A e \in Documents \ T : r.shown[e] = s.shown[e] /\ r.records[e] = s.records[e]
  BY <1>2 DEF r, DocumentOnly, Synced
<1>5. ASSUME NEW e \in T, Fresh(s, e) \/ Settled(s, e)
      PROVE  Done(r, e) /\ r.shown[e].own = s.shown[e].own
  <2>1. CASE e = d
    <3>1. q.shown[d] = s.shown[d] /\ q.records[d] = s.records[d] /\ q.container = s.container
      BY DEF Synced
    <3>2. Fresh(q, d) \/ Settled(q, d)
      BY <1>5, <2>1, <3>1 DEF Fresh, Settled
    <3>3. r.shown[d] = c
      BY <1>2 DEF r, DocumentOnly
    <3> QED
      BY <1>2, <2>1, <3>1, <3>2, <3>3 DEF r
  <2>2. CASE e # d
    <3>1. Done(q, e) /\ q.shown[e].own = s.shown[e].own
      BY <1>5, <2>2 DEF Synced
    <3>2. r.shown[e] = q.shown[e] /\ r.records[e] = q.records[e]
      BY <1>2, <2>2 DEF r, DocumentOnly
    <3> QED
      BY <1>3, <3>1, <3>2 DEF Done, Settled
  <2> QED
    BY <2>1, <2>2
<1> QED
  BY <1>2, <1>3, <1>4, <1>5 DEF r, Synced

\* The fold reconciles every document of the set, whatever the order.
LEMMA FoldSettles ==
    ASSUME NEW V, NEW W, NEW s \in StylesOf(V, W), ContainerOK(s), NEW S \in SUBSET Documents
    PROVE  /\ ReconcileSet(s, S) \in StylesOf(V, W)
           /\ Synced(ReconcileSet(s, S), s, S)
<1>1. IsFiniteSet(S)
  BY DocumentsAssumption, FS_Subset
<1>2. PICK iter : Unfolded(iter, s, S)
  BY <1>1, SyncLoop
<1> DEFINE good(T) == iter[T] \in StylesOf(V, W) /\ Synced(iter[T], s, T)
           N == {n \in Nat : \A T \in SUBSET S : Cardinality(T) = n => good(T)}
<1>3. 0 \in N
  <2>1. Synced(s, s, {})
    BY DEF Synced
  <2>2. good({})
    BY <1>2, <2>1 DEF Unfolded
  <2>3. \A T \in SUBSET S : Cardinality(T) = 0 => T = {}
    BY <1>1, FS_Subset, FS_EmptySet
  <2> HIDE DEF good
  <2> QED
    BY <2>2, <2>3
<1>4. ASSUME NEW n \in Nat, n \in N PROVE n + 1 \in N
  <2>1. SUFFICES ASSUME NEW T \in SUBSET S, Cardinality(T) = n + 1 PROVE good(T)
    OBVIOUS
  <2>2. T # {}
    BY <2>1, FS_EmptySet
  <2> DEFINE d == First(T)
  <2>3. /\ d \in T /\ T \ {d} \in SUBSET S /\ Cardinality(T \ {d}) = n
    BY <1>1, <2>1, <2>2, WithoutFirst
  <2>4. iter[T] = Reconcile(d, iter[T \ {d}])
    BY <1>2, <2>2 DEF Unfolded
  <2> HIDE DEF d
  <2>5. good(T \ {d})
    BY <1>4, <2>3
  <2> QED
    BY <2>3, <2>4, <2>5, SyncedStep
<1>5. Cardinality(S) \in N
  <2> HIDE DEF N
  <2>1. Cardinality(S) \in Nat
    BY <1>1, FS_CardinalityType
  <2> QED
    BY <1>3, <1>4, <2>1, NumbersInduction
<1> QED
  BY <1>2, <1>5 DEF Unfolded

\* Before the documents are reconciled: the container is compiled anew if a sheet was
\* added or all were removed, and what is remembered of documents that are gone is
\* forgotten.
Built(s) ==
    IF s.dirty THEN [s EXCEPT !.container = BuildScriptContainer(s), !.dirty = FALSE] ELSE s
Kept(s, b) ==
    [b EXCEPT !.records = [d \in Documents |-> IF d \in s.live THEN @[d] ELSE NoRecord]]

\* A new container is at no address a record remembers: no document passes for done.
LEMMA BuiltKeeps ==
    ASSUME NEW V, NEW W, 0 \in V, NEW s \in StylesOf(V, W), ContainerOK(s)
    PROVE  /\ Built(s) \in StylesOf(V, W) /\ ContainerOK(Built(s)) /\ ~Built(s).dirty
           /\ Built(s).sheets = s.sheets /\ Built(s).live = s.live
           /\ Built(s).shown = s.shown /\ Built(s).records = s.records
           /\ s.dirty \/ s.container.scripts = s.sheets => Built(s).container.scripts = s.sheets
           /\ \A d \in Documents : Settled(s, d) => Settled(Built(s), d)
<1>1. CASE ~s.dirty
  <2>1. Built(s) = s
    BY <1>1 DEF Built
  <2> QED
    BY <1>1, <2>1
<1>2. CASE s.dirty
  <2> DEFINE c == BuildScriptContainer(s)
             r == [s EXCEPT !.container = c, !.dirty = FALSE]
  <2>1. Built(s) = r
    BY <1>2 DEF Built
  <2>2. /\ NewAddress(s) \in Nat \ {0}
        /\ \A d \in Documents : NewAddress(s) # s.records[d].scriptUsed
    BY AddressIs DEF Remembered
  <2>3. s.sheets \in Seq(W) /\ <<>> \in Seq(W)
    BY DEF StylesOf
  <2>4. /\ c \in Compiled(V, W) /\ c.scripts = s.sheets
        /\ c.at = 0 => c = None
        /\ c.at \in {0, NewAddress(s)}
    <3>1. CASE s.sheets = <<>>
      <4>1. c = None
        BY <3>1 DEF BuildScriptContainer
      <4>2. None \in Compiled(V, W)
        BY <2>3, CompiledIs DEF None
      <4> QED
        BY <3>1, <4>1, <4>2 DEF None
    <3>2. CASE s.sheets # <<>>
      <4>1. c = [at |-> NewAddress(s), own |-> 0, scripts |-> s.sheets]
        BY <3>2 DEF BuildScriptContainer
      <4> HIDE DEF c
      <4> QED
        BY <2>2, <2>3, <4>1, CompiledIs
    <3> QED
      BY <3>1, <3>2
  <2> HIDE DEF c
  <2>5. /\ r.sheets = s.sheets /\ r.live = s.live /\ r.shown = s.shown /\ r.records = s.records
        /\ r.container = c /\ r.dirty = FALSE
        /\ r = [sheets |-> r.sheets, dirty |-> r.dirty, container |-> r.container,
                live |-> r.live, shown |-> r.shown, records |-> r.records]
    <3> DEFINE t == [s EXCEPT !.container = c]
    <3>1. /\ t.sheets = s.sheets /\ t.live = s.live /\ t.shown = s.shown /\ t.records = s.records
          /\ t.container = c
          /\ t = [sheets |-> t.sheets, dirty |-> t.dirty, container |-> t.container,
                  live |-> t.live, shown |-> t.shown, records |-> t.records]
      BY DEF StylesOf
    <3>2. r = [t EXCEPT !.dirty = FALSE]
      OBVIOUS
    <3> HIDE DEF t, r
    <3> QED
      BY <3>1, <3>2
  <2> HIDE DEF r
  <2>6. r \in StylesOf(V, W)
    BY <2>4, <2>5 DEF StylesOf
  <2>7. ASSUME NEW d \in Documents, Settled(s, d) PROVE Settled(r, d)
    <3>1. c.at = 0 => c.scripts = <<>>
      BY <2>4 DEF None
    <3>2. s.records[d].scriptUsed = c.at => c.at = 0
      BY <2>2, <2>4
    <3> QED
      BY <2>5, <2>7, <3>1, <3>2 DEF Settled
  <2>8. ContainerOK(r)
    BY <2>4, <2>5 DEF ContainerOK
  <2> QED
    BY <2>1, <2>4, <2>5, <2>6, <2>7, <2>8
<1> QED
  BY <1>1, <1>2

\* Forgetting a document that is gone changes nothing of one that is there.
LEMMA KeptKeeps ==
    ASSUME NEW V, NEW W, 0 \in V, NEW s, NEW b \in StylesOf(V, W), s.live \subseteq Documents
    PROVE  /\ Kept(s, b) \in StylesOf(V, W)
           /\ Kept(s, b).sheets = b.sheets /\ Kept(s, b).dirty = b.dirty
           /\ Kept(s, b).container = b.container /\ Kept(s, b).live = b.live
           /\ \A d \in s.live : /\ Kept(s, b).shown[d] = b.shown[d]
                                /\ Kept(s, b).records[d] = b.records[d]
<1> DEFINE records == [d \in Documents |-> IF d \in s.live THEN b.records[d] ELSE NoRecord]
           r == [b EXCEPT !.records = records]
<1>1. Kept(s, b) = r
  BY DEF Kept
<1>2. NoRecord \in RecordOf(V, W)
  <2>1. <<>> \in Seq(W)
    OBVIOUS
  <2>2. None \in Compiled(V, W)
    BY <2>1, CompiledIs DEF None
  <2> QED
    BY <2>2 DEF NoRecord, RecordOf
<1>3. records \in [Documents -> RecordOf(V, W)] /\ \A d \in s.live : records[d] = b.records[d]
  BY <1>2 DEF StylesOf
<1> HIDE DEF records
<1>4. /\ r.sheets = b.sheets /\ r.dirty = b.dirty /\ r.container = b.container
      /\ r.live = b.live /\ r.shown = b.shown /\ r.records = records
      /\ r = [sheets |-> r.sheets, dirty |-> r.dirty, container |-> r.container,
              live |-> r.live, shown |-> r.shown, records |-> r.records]
  BY DEF StylesOf
<1> HIDE DEF r
<1>5. r \in StylesOf(V, W)
  BY <1>3, <1>4 DEF StylesOf
<1> QED
  BY <1>1, <1>3, <1>4, <1>5

\* After a synchronisation every document that is there and was fresh or settled shows
\* its own sheets, the same as before, under the scripts' sheets that are registered.
LEMMA SyncAllSettles ==
    ASSUME NEW V, NEW W, 0 \in V, NEW s \in StylesOf(V, W), ContainerOK(s)
    PROVE  /\ SyncAll(s) \in StylesOf(V, W) /\ ContainerOK(SyncAll(s)) /\ ~SyncAll(s).dirty
           /\ SyncAll(s).sheets = s.sheets /\ SyncAll(s).live = s.live
           /\ s.dirty \/ s.container.scripts = s.sheets => SyncAll(s).container.scripts = s.sheets
           /\ \A d \in s.live : Fresh(s, d) \/ Settled(s, d) =>
                  Done(SyncAll(s), d) /\ SyncAll(s).shown[d].own = s.shown[d].own
<1> DEFINE b == Built(s)
           k == Kept(s, b)
           r == SyncAll(s)
<1>1. r = ReconcileSet(k, s.live)
  BY DEF SyncAll, ReconcileSet, Built, Kept
<1> HIDE DEF b, k, r
<1>2. /\ b \in StylesOf(V, W) /\ ContainerOK(b) /\ ~b.dirty
      /\ b.sheets = s.sheets /\ b.live = s.live /\ b.shown = s.shown /\ b.records = s.records
      /\ s.dirty \/ s.container.scripts = s.sheets => b.container.scripts = s.sheets
      /\ \A d \in Documents : Settled(s, d) => Settled(b, d)
  BY BuiltKeeps DEF b
<1>3. s.live \subseteq Documents
  BY DEF StylesOf
<1>4. /\ k \in StylesOf(V, W) /\ k.sheets = b.sheets /\ k.dirty = b.dirty
      /\ k.container = b.container /\ k.live = b.live
      /\ \A d \in s.live : k.shown[d] = b.shown[d] /\ k.records[d] = b.records[d]
  BY <1>2, <1>3, KeptKeeps DEF k
<1>5. ContainerOK(k)
  BY <1>2, <1>4 DEF ContainerOK
<1>6. r \in StylesOf(V, W) /\ Synced(r, k, s.live)
  BY <1>1, <1>3, <1>4, <1>5, FoldSettles
<1>7. /\ r.sheets = s.sheets /\ r.live = s.live /\ ~r.dirty /\ r.container = k.container
      /\ r.container = b.container
  BY <1>2, <1>4, <1>6 DEF Synced
<1>8. ASSUME NEW d \in s.live, Fresh(s, d) \/ Settled(s, d)
      PROVE  Done(r, d) /\ r.shown[d].own = s.shown[d].own
  <2>1. k.shown[d] = s.shown[d] /\ k.records[d] = s.records[d]
    BY <1>2, <1>4
  <2>2. CASE Fresh(s, d)
    <3>1. Fresh(k, d)
      BY <2>1, <2>2 DEF Fresh
    <3> QED
      BY <1>6, <2>1, <3>1 DEF Synced
  <2>3. CASE Settled(s, d)
    <3>1. Settled(b, d)
      BY <1>2, <1>3, <2>3
    <3>2. Settled(k, d)
      BY <1>4, <3>1 DEF Settled
    <3> QED
      BY <1>6, <2>1, <3>2 DEF Synced
  <2> QED
    BY <1>8, <2>2, <2>3
<1>9. ContainerOK(r)
  BY <1>2, <1>7 DEF ContainerOK
<1> QED
  BY <1>2, <1>6, <1>7, <1>8, <1>9 DEF r

-----------------------------------------------------------------------------
(* What scripts add, and what happens to documents elsewhere.                   *)

\* A sheet more; nothing is shown otherwise yet.
LEMMA AddIs ==
    ASSUME NEW V, NEW W, NEW s \in StylesOf(V, W), NEW sheet \in W, NEW parses \in BOOLEAN
    PROVE  /\ Add(s, sheet, parses) \in StylesOf(V, W)
           /\ Add(s, sheet, parses).container = s.container
           /\ Add(s, sheet, parses).live = s.live /\ Add(s, sheet, parses).shown = s.shown
           /\ Add(s, sheet, parses).records = s.records
           /\ ~Add(s, sheet, parses).dirty =>
                  ~s.dirty /\ Add(s, sheet, parses).sheets = s.sheets
<1> DEFINE r == Add(s, sheet, parses)
           sheets == Append(s.sheets, sheet)
           t == [s EXCEPT !.sheets = sheets]
<1>1. CASE ~parses
  <2>1. r = s
    BY <1>1 DEF Add
  <2> HIDE DEF r
  <2> QED
    BY <2>1 DEF r
<1>2. CASE parses
  <2>1. sheets \in Seq(W)
    BY DEF StylesOf
  <2>2. r = [t EXCEPT !.dirty = TRUE]
    BY <1>2 DEF Add
  <2> HIDE DEF sheets
  <2>3. /\ t.container = s.container /\ t.live = s.live /\ t.shown = s.shown
        /\ t.records = s.records /\ t.sheets = sheets
        /\ t = [sheets |-> t.sheets, dirty |-> t.dirty, container |-> t.container,
                live |-> t.live, shown |-> t.shown, records |-> t.records]
    BY DEF StylesOf
  <2> HIDE DEF t, r
  <2>4. /\ r.sheets = sheets /\ r.dirty = TRUE /\ r.container = s.container /\ r.live = s.live
        /\ r.shown = s.shown /\ r.records = s.records
        /\ r = [sheets |-> r.sheets, dirty |-> r.dirty, container |-> r.container,
                live |-> r.live, shown |-> r.shown, records |-> r.records]
    BY <2>2, <2>3
  <2>5. r \in StylesOf(V, W)
    BY <2>1, <2>4 DEF StylesOf
  <2> QED
    BY <2>4, <2>5 DEF r
<1> QED
  BY <1>1, <1>2

\* The sheets of scripts go, from the registry and from every document.
LEMMA ClearSettles ==
    ASSUME NEW V, NEW W, 0 \in V, NEW s \in StylesOf(V, W), ContainerOK(s)
    PROVE  \/ ClearStyles(s) = s
           \/ LET r == ClearStyles(s) IN
              /\ r \in StylesOf(V, W) /\ ContainerOK(r) /\ ~r.dirty
              /\ r.live = s.live /\ r.container.scripts = r.sheets
              /\ \A d \in s.live : Fresh(s, d) \/ Settled(s, d) =>
                     Done(r, d) /\ r.shown[d].own = s.shown[d].own
<1>1. CASE s.sheets = <<>> /\ s.container = None
  BY <1>1 DEF ClearStyles
<1>2. CASE ~(s.sheets = <<>> /\ s.container = None)
  <2> DEFINE t == [s EXCEPT !.sheets = <<>>]
             e == [s EXCEPT !.sheets = <<>>, !.dirty = TRUE]
             r == ClearStyles(s)
  <2>1. r = SyncAll(e)
    BY <1>2 DEF ClearStyles
  <2>2. /\ t.container = s.container /\ t.live = s.live /\ t.shown = s.shown
        /\ t.records = s.records /\ t.sheets = <<>>
        /\ t = [sheets |-> t.sheets, dirty |-> t.dirty, container |-> t.container,
                live |-> t.live, shown |-> t.shown, records |-> t.records]
    BY DEF StylesOf
  <2>3. e = [t EXCEPT !.dirty = TRUE]
    OBVIOUS
  <2> HIDE DEF t, e, r
  <2>4. /\ e.sheets = <<>> /\ e.dirty = TRUE /\ e.container = s.container /\ e.live = s.live
        /\ e.shown = s.shown /\ e.records = s.records
        /\ e = [sheets |-> e.sheets, dirty |-> e.dirty, container |-> e.container,
                live |-> e.live, shown |-> e.shown, records |-> e.records]
    BY <2>2, <2>3
  <2>5. <<>> \in Seq(W)
    OBVIOUS
  <2>6. e \in StylesOf(V, W) /\ ContainerOK(e)
    BY <2>4, <2>5 DEF StylesOf, ContainerOK
  <2>7. \A d \in s.live : Fresh(s, d) \/ Settled(s, d) => Fresh(e, d) \/ Settled(e, d)
    BY <2>4 DEF Fresh, Settled
  <2>8. /\ r \in StylesOf(V, W) /\ ContainerOK(r) /\ ~r.dirty
        /\ r.sheets = e.sheets /\ r.live = e.live /\ r.container.scripts = e.sheets
        /\ \A d \in e.live : Fresh(e, d) \/ Settled(e, d) =>
               Done(r, d) /\ r.shown[d].own = e.shown[d].own
    BY <2>1, <2>4, <2>6, SyncAllSettles
  <2> QED
    BY <2>4, <2>7, <2>8 DEF r
<1> QED
  BY <1>1, <1>2

\* A document's own sheets are read again.
LEMMA ReplaceIs ==
    ASSUME NEW V, NEW W, NEW s \in StylesOf(V, W), NEW d \in Documents, NEW own \in V,
           NEW at \in Nat
    PROVE  /\ Replace(s, d, own, at) \in StylesOf(V, W)
           /\ DocumentOnly(Replace(s, d, own, at), s, d,
                           [at |-> at, own |-> own, scripts |-> <<>>], s.records[d])
<1> DEFINE c == [at |-> at, own |-> own, scripts |-> <<>>]
<1>1. <<>> \in Seq(W)
  OBVIOUS
<1>2. c \in Compiled(V, W) /\ s.records[d] \in RecordOf(V, W)
  BY <1>1, CompiledIs DEF StylesOf
<1> HIDE DEF c
<1>3. Replace(s, d, own, at) = WithDocument(s, d, c, s.records[d])
  BY DEF Replace, WithDocument, StylesOf, c
<1> QED
  BY <1>2, <1>3, WithDocumentIs DEF c

\* A document comes.
LEMMA LoadIs ==
    ASSUME NEW V, NEW W, NEW s \in StylesOf(V, W), NEW d \in Documents, NEW own \in V,
           NEW x \in RecordOf(V, W), NEW at \in Nat
    PROVE  LET r == Load(s, d, own, x, at) IN
           /\ r \in StylesOf(V, W)
           /\ r.sheets = s.sheets /\ r.dirty = s.dirty /\ r.container = s.container
           /\ r.live = s.live \cup {d}
           /\ r.shown[d] = [at |-> at, own |-> own, scripts |-> <<>>] /\ r.records[d] = x
           /\ \A e \in Documents \ {d} : r.shown[e] = s.shown[e] /\ r.records[e] = s.records[e]
<1> DEFINE p == Replace(s, d, own, at)
           w == WithRecord(p, d, x)
           live == s.live \cup {d}
           v == [w EXCEPT !.live = live]
           r == Load(s, d, own, x, at)
           c == [at |-> at, own |-> own, scripts |-> <<>>]
<1>1. p \in StylesOf(V, W) /\ DocumentOnly(p, s, d, c, s.records[d])
  BY ReplaceIs
<1>2. w \in StylesOf(V, W) /\ DocumentOnly(w, p, d, p.shown[d], x)
  <2> HIDE DEF p
  <2> QED
    BY <1>1, WithRecordIs
<1>3. r = [p EXCEPT !.live = @ \cup {d}, !.records[d] = x]
  BY DEF Load
<1> HIDE DEF p, r, c
<1>4. r = v
  BY <1>1, <1>3 DEF WithRecord, StylesOf, DocumentOnly
<1>5. live \in SUBSET Documents
  BY DEF StylesOf
<1> HIDE DEF w, live
<1>6. /\ v.sheets = w.sheets /\ v.dirty = w.dirty /\ v.container = w.container /\ v.live = live
      /\ v.shown = w.shown /\ v.records = w.records
      /\ v = [sheets |-> v.sheets, dirty |-> v.dirty, container |-> v.container,
              live |-> v.live, shown |-> v.shown, records |-> v.records]
  BY <1>2 DEF StylesOf
<1> HIDE DEF v
<1>7. v \in StylesOf(V, W)
  BY <1>2, <1>5, <1>6 DEF StylesOf
<1>8. /\ v.sheets = s.sheets /\ v.dirty = s.dirty /\ v.container = s.container
      /\ v.shown[d] = c /\ v.records[d] = x
      /\ \A e \in Documents \ {d} : v.shown[e] = s.shown[e] /\ v.records[e] = s.records[e]
  BY <1>1, <1>2, <1>6 DEF DocumentOnly
<1> QED
  BY <1>4, <1>6, <1>7, <1>8 DEF r, live, c

\* A document goes.
LEMMA UnloadIs ==
    ASSUME NEW V, NEW W, 0 \in V, NEW s \in StylesOf(V, W), NEW d \in Documents
    PROVE  LET r == Unload(s, d) IN
           /\ r \in StylesOf(V, W)
           /\ r.sheets = s.sheets /\ r.dirty = s.dirty /\ r.container = s.container
           /\ r.live = s.live \ {d} /\ r.records = s.records
           /\ \A e \in Documents \ {d} : r.shown[e] = s.shown[e]
<1> DEFINE live == s.live \ {d}
           shown == [s.shown EXCEPT ![d] = None]
           t == [s EXCEPT !.live = live]
           r == Unload(s, d)
<1>1. s.shown \in [Documents -> Compiled(V, W)] /\ live \in SUBSET Documents
  BY DEF StylesOf
<1> HIDE DEF live
<1>2. /\ t.sheets = s.sheets /\ t.dirty = s.dirty /\ t.container = s.container /\ t.live = live
      /\ t.shown = s.shown /\ t.records = s.records
      /\ t = [sheets |-> t.sheets, dirty |-> t.dirty, container |-> t.container,
              live |-> t.live, shown |-> t.shown, records |-> t.records]
  BY DEF StylesOf
<1>3. r = [t EXCEPT !.shown[d] = None]
  BY DEF Unload, live
<1>4. None \in Compiled(V, W)
  <2>1. <<>> \in Seq(W)
    OBVIOUS
  <2> QED
    BY <2>1, CompiledIs DEF None
<1>5. /\ shown \in [Documents -> Compiled(V, W)]
      /\ \A e \in Documents \ {d} : shown[e] = s.shown[e]
  BY <1>1, <1>4
<1>6. [t.shown EXCEPT ![d] = None] = shown
  BY <1>2
<1> HIDE DEF t, r, shown
<1>7. /\ r.sheets = s.sheets /\ r.dirty = s.dirty /\ r.container = s.container /\ r.live = live
      /\ r.shown = shown /\ r.records = s.records
      /\ r = [sheets |-> r.sheets, dirty |-> r.dirty, container |-> r.container,
              live |-> r.live, shown |-> r.shown, records |-> r.records]
  BY <1>2, <1>3, <1>6
<1>8. r \in StylesOf(V, W)
  BY <1>1, <1>5, <1>7 DEF StylesOf
<1> QED
  BY <1>5, <1>7, <1>8 DEF r, live
====
