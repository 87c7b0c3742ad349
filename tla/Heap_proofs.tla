----------------------------- MODULE Heap_proofs -----------------------------
(***************************************************************************)
(* Theorems about module Heap, for any programs and DESTROY methods: the   *)
(* count of a value is the number of its owners at every step, nothing     *)
(* that is owned is freed, and DESTROY runs once.  Between two ops what    *)
(* nothing leads to has been freed unless a cycle holds it, and variables  *)
(* hold what was assigned to them.                                         *)
(***************************************************************************)
EXTENDS Heap, FiniteSetTheorems, WellFoundedInduction, TLAPS

Pos == Nat \ {0}

CellType ==
  [live : BOOLEAN, refcnt : Nat, type : {"int", "array", "object"}, n : 0..MaxInt, items : Seq(Pos),
   script : {"none", "quiet", "data", "self"}, destroyed : BOOLEAN, runs : Nat]

\* What the destructors leave of a value, and what DESTROY has to do with it.
CellShape(c) ==
  /\ Len(c.items) <= 2
  /\ c.type = "object" /\ c.live => Len(c.items) = 1
  /\ ~c.live => c.refcnt = 0 /\ c.items = << >>
  /\ c.type = "object" /\ c.script # "none" =>
       c.runs = (IF c.destroyed THEN 1 ELSE 0) /\ (~c.live => c.destroyed)

Pads == {"outer", "inner"}

Tasks == [do : {"release", "body", "finish", "shift", "shrink", "insert", "iterate"}, of : Nat,
          pad : Pads \cup {""}, at : Nat]

HeapOK(h) == h \in Seq(CellType) /\ \A a \in DOMAIN h : CellShape(h[a])

\* A task refers to a place in a pad, or to an object whose DESTROY has been called.
TaskShape(h, t) ==
  /\ t.do = "release" => t.of # 0 /\ t = Release(t.of)
  /\ t.do \in {"shift", "shrink", "insert"} => t.pad \in Pads
  /\ t.do \in {"shift", "insert"} => t.at # 0
  /\ t.do \in {"body", "finish"} => t.of \in DOMAIN h /\ h[t.of].type = "object" /\ h[t.of].destroyed

TodoOK(h, ts) == ts \in Seq(Tasks) /\ \A i \in DOMAIN ts : TaskShape(h, ts[i])

FrameType == [kind : {"none", "block", "foreach"}, top : Nat, counter : Nat, of : Nat, cur : Nat]

FrameOK(f, s) == f \in FrameType /\ (f.kind = "foreach" => f.of # 0) /\ f.top <= Len(s)

Shaped ==
  /\ HeapOK(heap) /\ TodoOK(heap, todo)
  /\ pads \in [Pads -> Seq(Nat)] /\ stack \in Seq(Pos) /\ FrameOK(frame, stack)
  /\ mode \in {"run", "aborted"}

\* Some later task drops a reference to r.
ReleasedAfter(ts, i, r) == \E j \in DOMAIN ts : j > i /\ ts[j] = Release(r)

Iterates(ts) == \E i \in DOMAIN ts : ts[i].do = "iterate"

\* The value that a task is going to use is owned until then; the rest of
\* OP_FOR_ITER comes last, when the operands of the body are gone.
GuardedTask(ts, i, s, f) ==
  /\ ts[i].do = "insert" /\ ts[i].of # 0 =>
       ReleasedAfter(ts, i, ts[i].of) \/ (ts[i].of \in Range(s) /\ ~Iterates(ts))
  /\ ts[i].do = "body" => ReleasedAfter(ts, i, ts[i].of)
  /\ ts[i].do = "iterate" => i = Len(ts) /\ f.kind = "foreach" /\ Len(s) = f.top

Guarded(ts, s, f) == \A i \in DOMAIN ts : GuardedTask(ts, i, s, f)

Count(h, r) == IF r \in DOMAIN h THEN h[r].refcnt ELSE 0

\* Also what is not a value has no owner.
Exact == \A r \in Pos : Count(heap, r) = Owners(r)

IInv == Shaped /\ Guarded(todo, stack, frame) /\ Exact

-----------------------------------------------------------------------------
(* Occurrences in sequences. *)

\* A set of numbers has a least one.
LEMMA LeastNat ==
  ASSUME NEW T \in SUBSET Nat, T # {}
  PROVE  \E n \in T : \A m \in T : n <= m
<1> DEFINE R == OpToRel(<, Nat)
<1>1. PICK x \in T : \A y \in T : ~ (<< y, x >> \in R)
  BY NatLessThanWellFounded, WFMin
<1>2. x \in Nat /\ \A y \in T : y \in Nat /\ ~ (y < x)
  BY <1>1 DEF OpToRel
<1> QED
  BY <1>2

Places(s, r) == {i \in DOMAIN s : s[i] = r}

One(v, r) == IF v = r THEN 1 ELSE 0

LEMMA PlacesFinite ==
  ASSUME NEW S, NEW s \in Seq(S), NEW r
  PROVE  IsFiniteSet(Places(s, r)) /\ Occurrences(s, r) = Cardinality(Places(s, r)) /\ Occurrences(s, r) \in Nat
<1>1. Len(s) \in Nat /\ DOMAIN s = 1..Len(s)
  OBVIOUS
<1>2. IsFiniteSet(1..Len(s))
  BY <1>1, FS_Interval
<1>3. Places(s, r) \in SUBSET (1..Len(s))
  BY <1>1 DEF Places
<1>4. IsFiniteSet(Places(s, r))
  BY <1>2, <1>3, FS_Subset
<1> QED
  BY <1>4, FS_CardinalityType DEF Occurrences, Places

LEMMA OccNone ==
  ASSUME NEW r
  PROVE  Occurrences(<< >>, r) = 0
<1>1. Places(<< >>, r) = {}
  BY DEF Places
<1> QED
  BY <1>1, FS_EmptySet DEF Occurrences, Places

LEMMA OccOne ==
  ASSUME NEW v, NEW r
  PROVE  Occurrences(<< v >>, r) = One(v, r)
<1>1. CASE v = r
  <2>1. Places(<< v >>, r) = {1}
    BY <1>1 DEF Places
  <2> QED
    BY <1>1, <2>1, FS_Singleton DEF Occurrences, Places, One
<1>2. CASE v # r
  <2>1. Places(<< v >>, r) = {}
    BY <1>2 DEF Places
  <2> QED
    BY <1>2, <2>1, FS_EmptySet DEF Occurrences, Places, One
<1> QED
  BY <1>1, <1>2

\* Nothing occurs where it is not.
LEMMA OccAbsent ==
  ASSUME NEW S, NEW s \in Seq(S), NEW r
  PROVE  Occurrences(s, r) # 0 <=> \E i \in DOMAIN s : s[i] = r
<1>1. IsFiniteSet(Places(s, r)) /\ Occurrences(s, r) = Cardinality(Places(s, r))
  BY PlacesFinite
<1>2. Cardinality(Places(s, r)) = 0 <=> Places(s, r) = {}
  BY <1>1, FS_EmptySet
<1> QED
  BY <1>1, <1>2 DEF Places

LEMMA OccConcat ==
  ASSUME NEW S, NEW s \in Seq(S), NEW t \in Seq(S), NEW r
  PROVE  Occurrences(s \o t, r) = Occurrences(s, r) + Occurrences(t, r)
<1> DEFINE n == Len(s)
           u == s \o t
           moved == {i \in n + 1..n + Len(t) : u[i] = r}
<1>1. n \in Nat /\ Len(t) \in Nat /\ DOMAIN s = 1..n /\ DOMAIN t = 1..Len(t)
  OBVIOUS
<1>2. u \in Seq(S) /\ Len(u) = n + Len(t) /\ DOMAIN u = 1..n + Len(t)
  OBVIOUS
<1>3. (\A i \in 1..n : u[i] = s[i]) /\ (\A i \in 1..Len(t) : u[n + i] = t[i])
  OBVIOUS
<1> HIDE DEF u, n
<1>4. Places(u, r) = Places(s, r) \cup moved /\ Places(s, r) \cap moved = {}
  BY <1>1, <1>2, <1>3 DEF Places
<1>5. IsFiniteSet(Places(s, r)) /\ IsFiniteSet(Places(t, r))
  BY PlacesFinite
<1>6. IsFiniteSet(moved) /\ Cardinality(moved) = Cardinality(Places(t, r))
  <2> DEFINE f == [i \in Places(t, r) |-> n + i]
  <2>1. f \in [Places(t, r) -> moved]
    BY <1>1, <1>3 DEF Places
  <2>2. \A i, j \in Places(t, r) : f[i] = f[j] => i = j
    BY <1>1 DEF Places
  <2>3. \A m \in moved : \E i \in Places(t, r) : f[i] = m
    <3> TAKE m \in moved
    <3>1. m - n \in Places(t, r) /\ f[m - n] = m
      BY <1>1, <1>3 DEF Places
    <3> QED
      BY <3>1
  <2> HIDE DEF f, moved
  <2>4. f \in Bijection(Places(t, r), moved)
    BY <2>1, <2>2, <2>3 DEF Bijection, Injection, Surjection, IsInjective
  <2>5. ExistsBijection(Places(t, r), moved)
    BY <2>4 DEF ExistsBijection
  <2> QED
    BY <1>5, <2>5, FS_Bijection
<1> HIDE DEF moved
<1>7. Cardinality(Places(s, r)) \in Nat /\ Cardinality(moved) \in Nat /\ Cardinality(Places(s, r) \cap moved) = 0
  BY <1>4, <1>5, <1>6, FS_CardinalityType, FS_EmptySet
<1>8. Cardinality(Places(u, r)) = Cardinality(Places(s, r)) + Cardinality(moved) - Cardinality(Places(s, r) \cap moved)
  BY <1>4, <1>5, <1>6, FS_Union
<1>9. Occurrences(s, r) = Cardinality(Places(s, r)) /\ Occurrences(t, r) = Cardinality(Places(t, r))
      /\ Occurrences(u, r) = Cardinality(Places(u, r))
  BY DEF Occurrences, Places
<1>10. Occurrences(u, r) = Occurrences(s, r) + Occurrences(t, r)
  BY <1>6, <1>7, <1>8, <1>9
<1> QED
  BY <1>10 DEF u

LEMMA ConcatIs ==
  ASSUME NEW S, NEW s \in Seq(S), NEW t \in Seq(S)
  PROVE  /\ s \o t \in Seq(S) /\ Len(s \o t) = Len(s) + Len(t)
         /\ \A i \in 1..Len(s) : (s \o t)[i] = s[i]
         /\ \A i \in 1..Len(t) : (s \o t)[Len(s) + i] = t[i]
OBVIOUS

LEMMA AppendIs ==
  ASSUME NEW S, NEW s \in Seq(S), NEW v \in S
  PROVE  /\ Append(s, v) \in Seq(S) /\ Len(Append(s, v)) = Len(s) + 1
         /\ \A i \in 1..Len(s) : Append(s, v)[i] = s[i]
         /\ Append(s, v)[Len(s) + 1] = v
OBVIOUS

LEMMA SameSeq ==
  ASSUME NEW S, NEW s \in Seq(S), NEW t \in Seq(S), Len(s) = Len(t), \A i \in 1..Len(s) : s[i] = t[i]
  PROVE  s = t
OBVIOUS

\* s is a with b behind it.
LEMMA SplitIs ==
  ASSUME NEW S, NEW s \in Seq(S), NEW a \in Seq(S), NEW b \in Seq(S), NEW k \in Nat,
         Len(a) = k, Len(b) = Len(s) - k,
         \A i \in 1..k : a[i] = s[i], \A i \in 1..Len(b) : b[i] = s[k + i]
  PROVE  a \o b = s
<1> DEFINE c == a \o b
<1>1. c \in Seq(S) /\ Len(c) = k + Len(b) /\ (\A i \in 1..k : c[i] = a[i]) /\ (\A i \in 1..Len(b) : c[k + i] = b[i])
  <2>1. /\ c \in Seq(S) /\ Len(c) = Len(a) + Len(b)
        /\ (\A i \in 1..Len(a) : c[i] = a[i]) /\ (\A i \in 1..Len(b) : c[Len(a) + i] = b[i])
    BY ConcatIs
  <2> HIDE DEF c
  <2> QED
    BY <2>1
<1>2. Len(s) \in Nat /\ Len(b) \in Nat
  OBVIOUS
<1> HIDE DEF c
<1>3. \A i \in 1..Len(c) : c[i] = s[i]
  <2> TAKE i \in 1..Len(c)
  <2>1. CASE i \in 1..k
    BY <1>1, <2>1
  <2>2. CASE i \notin 1..k
    <3> DEFINE j == i - k
    <3>1. j \in 1..Len(b) /\ k + j = i
      BY <1>1, <1>2, <2>2
    <3> HIDE DEF j
    <3>2. c[k + j] = s[k + j]
      BY <1>1, <3>1
    <3> QED
      BY <3>1, <3>2
  <2> QED
    BY <2>1, <2>2
<1>4. Len(c) = Len(s)
  BY <1>1, <1>2
<1>5. c = s
  BY <1>1, <1>3, <1>4, SameSeq
<1> QED
  BY <1>5 DEF c

\* What the operations on sequences do to the occurrences of r.
LEMMA OccAppend ==
  ASSUME NEW S, NEW s \in Seq(S), NEW v \in S, NEW r
  PROVE  Occurrences(Append(s, v), r) = Occurrences(s, r) + One(v, r)
<1> DEFINE one == << v >>
<1>1. Append(s, v) = s \o one /\ one \in Seq(S)
  OBVIOUS
<1>2. Occurrences(one, r) = One(v, r)
  BY OccOne
<1> HIDE DEF one
<1>3. Occurrences(s \o one, r) = Occurrences(s, r) + Occurrences(one, r)
  BY <1>1, OccConcat
<1> QED
  BY <1>1, <1>2, <1>3

LEMMA OccCut ==
  ASSUME NEW S, NEW s \in Seq(S), NEW k \in 0..Len(s), NEW r
  PROVE  /\ SubSeq(s, 1, k) \in Seq(S) /\ Len(SubSeq(s, 1, k)) = k
         /\ SubSeq(s, k + 1, Len(s)) \in Seq(S)
         /\ Occurrences(s, r) = Occurrences(SubSeq(s, 1, k), r) + Occurrences(SubSeq(s, k + 1, Len(s)), r)
<1> DEFINE a == SubSeq(s, 1, k)
           b == SubSeq(s, k + 1, Len(s))
<1>1. a \in Seq(S) /\ Len(a) = k /\ \A i \in 1..k : a[i] = s[i]
  OBVIOUS
<1>2. b \in Seq(S) /\ Len(b) = Len(s) - k /\ \A i \in 1..Len(s) - k : b[i] = s[k + i]
  OBVIOUS
<1> HIDE DEF a, b
<1>3. a \o b = s
  <2>1. k \in Nat /\ Len(b) = Len(s) - k /\ \A i \in 1..Len(b) : b[i] = s[k + i]
    BY <1>2, SMTT(30)
  <2> QED
    BY <1>1, <1>2, <2>1, SplitIs
<1>4. Occurrences(a \o b, r) = Occurrences(a, r) + Occurrences(b, r)
  BY <1>1, <1>2, OccConcat
<1> QED
  BY <1>1, <1>2, <1>3, <1>4 DEF a, b

LEMMA OccFront ==
  ASSUME NEW S, NEW s \in Seq(S), s # << >>, NEW r
  PROVE  /\ Front(s) \in Seq(S) /\ Len(Front(s)) = Len(s) - 1 /\ Last(s) \in S
         /\ Occurrences(s, r) = Occurrences(Front(s), r) + One(Last(s), r)
<1> DEFINE f == Front(s)
           v == Last(s)
<1>1. Len(s) \in Nat \ {0} /\ f = SubSeq(s, 1, Len(s) - 1) /\ v = s[Len(s)]
  BY DEF Front, Last
<1>2. f \in Seq(S) /\ Len(f) = Len(s) - 1 /\ v \in S /\ \A i \in 1..Len(s) - 1 : f[i] = s[i]
  <2>1. v \in S
    BY <1>1
  <2>2. Len(s) - 1 \in 0..Len(s)
    BY <1>1
  <2> DEFINE k == Len(s) - 1
  <2>3. k \in 0..Len(s) /\ f = SubSeq(s, 1, k)
    BY <1>1, <2>2
  <2> HIDE DEF k, f, v
  <2>4. f \in Seq(S) /\ Len(f) = k /\ \A i \in 1..k : f[i] = s[i]
    BY <2>3
  <2> QED
    BY <2>1, <2>4 DEF k
<1> HIDE DEF f, v
<1>3. Append(f, v) \in Seq(S) /\ Len(Append(f, v)) = Len(f) + 1
      /\ (\A i \in 1..Len(f) : Append(f, v)[i] = f[i]) /\ Append(f, v)[Len(f) + 1] = v
  BY <1>2, AppendIs
<1> DEFINE g == Append(f, v)
<1>4. g = s
  <2> HIDE DEF g
  <2>1. g \in Seq(S) /\ Len(g) = Len(s)
    BY <1>1, <1>2, <1>3 DEF g
  <2>2. \A i \in 1..Len(g) : g[i] = s[i]
    <3> TAKE i \in 1..Len(g)
    <3>1. CASE i = Len(s)
      BY <1>1, <1>2, <1>3, <3>1 DEF g
    <3>2. CASE i # Len(s)
      <4>1. i \in 1..Len(f)
        BY <1>1, <1>2, <2>1, <3>2
      <4> QED
        BY <1>2, <1>3, <4>1 DEF g
    <3> QED
      BY <3>1, <3>2
  <2> QED
    BY <2>1, <2>2, SameSeq
<1>5. Occurrences(Append(f, v), r) = Occurrences(f, r) + One(v, r)
  BY <1>2, OccAppend
<1> QED
  BY <1>2, <1>4, <1>5 DEF f, v

LEMMA OccTail ==
  ASSUME NEW S, NEW s \in Seq(S), s # << >>, NEW r
  PROVE  /\ Head(s) \in S /\ Tail(s) \in Seq(S) /\ Len(Tail(s)) = Len(s) - 1
         /\ Occurrences(s, r) = One(Head(s), r) + Occurrences(Tail(s), r)
<1>1. Head(s) \in S /\ Tail(s) \in Seq(S) /\ Len(Tail(s)) = Len(s) - 1
  OBVIOUS
<1> DEFINE one == << Head(s) >>
           t == Tail(s)
<1>2. one \in Seq(S) /\ Len(one) = 1 /\ one[1] = s[1]
  BY <1>1
<1>3. t \in Seq(S) /\ Len(t) = Len(s) - 1 /\ \A i \in 1..Len(s) - 1 : t[i] = s[i + 1]
  OBVIOUS
<1>4. Occurrences(one, r) = One(Head(s), r)
  BY OccOne
<1> HIDE DEF one, t
<1>5. Occurrences(one \o t, r) = Occurrences(one, r) + Occurrences(t, r)
  BY <1>2, <1>3, OccConcat
<1>6. one \o t = s
  <2>1. \A i \in 1..1 : one[i] = s[i]
    BY <1>2
  <2>2. \A i \in 1..Len(t) : t[i] = s[1 + i]
    BY <1>3
  <2> QED
    BY <1>2, <1>3, <2>1, <2>2, SplitIs
<1> QED
  BY <1>1, <1>4, <1>5, <1>6 DEF t

LEMMA OccInsert ==
  ASSUME NEW S, NEW s \in Seq(S), NEW i \in 1..Len(s) + 1, NEW v \in S, NEW t, t = InsertAt(s, i, v), NEW r
  PROVE  t \in Seq(S) /\ Occurrences(t, r) = Occurrences(s, r) + One(v, r)
<1> DEFINE a == SubSeq(s, 1, i - 1)
           b == SubSeq(s, i, Len(s))
<1>1. i - 1 \in 0..Len(s) /\ (i - 1) + 1 = i
  OBVIOUS
<1>2. a \in Seq(S) /\ b \in Seq(S) /\ Occurrences(s, r) = Occurrences(a, r) + Occurrences(b, r)
  BY <1>1, OccCut
<1> HIDE DEF a, b
<1> DEFINE c == a \o << v >>
<1>3. c = Append(a, v) /\ c \in Seq(S) /\ c \o b \in Seq(S)
  BY <1>2
<1>4. Occurrences(Append(a, v), r) = Occurrences(a, r) + One(v, r)
  BY <1>2, OccAppend
<1> HIDE DEF c
<1>5. Occurrences(c \o b, r) = Occurrences(c, r) + Occurrences(b, r)
  BY <1>2, <1>3, OccConcat
<1>6. Occurrences(a, r) \in Nat /\ Occurrences(b, r) \in Nat /\ One(v, r) \in Nat
  BY <1>2, PlacesFinite DEF One
<1>7. Occurrences(c \o b, r) = Occurrences(s, r) + One(v, r)
  BY <1>2, <1>3, <1>4, <1>5, <1>6
<1>8. t = c \o b
  BY DEF InsertAt, a, b, c
<1> QED
  BY <1>3, <1>7, <1>8

Placed(s, i, v, t) == t = [s EXCEPT ![i] = v]

LEMMA OccPut ==
  ASSUME NEW S, NEW s \in Seq(S), NEW i \in 1..Len(s), NEW v \in S, NEW t, Placed(s, i, v, t), NEW r
  PROVE  t \in Seq(S) /\ Occurrences(t, r) + One(s[i], r) = Occurrences(s, r) + One(v, r)
<1> DEFINE rest == Places(s, r) \ {i}
<1>1. t \in Seq(S) /\ DOMAIN t = DOMAIN s /\ DOMAIN s = 1..Len(s) /\ t[i] = v /\ \A j \in 1..Len(s) : j # i => t[j] = s[j]
  BY DEF Placed
<1>2. IsFiniteSet(Places(s, r)) /\ Occurrences(s, r) = Cardinality(Places(s, r)) /\ Occurrences(s, r) \in Nat
  BY PlacesFinite
<1>3. IsFiniteSet(rest) /\ Cardinality(rest) = IF i \in Places(s, r) THEN Cardinality(Places(s, r)) - 1 ELSE Cardinality(Places(s, r))
  BY <1>2, FS_RemoveElement
<1>4. Occurrences(s, r) = Cardinality(rest) + One(s[i], r)
  BY <1>1, <1>2, <1>3 DEF Places, One
<1>5. Places(t, r) = IF v = r THEN rest \cup {i} ELSE rest
  BY <1>1 DEF Places
<1>6. IsFiniteSet(rest \cup {i}) /\ Cardinality(rest \cup {i}) = Cardinality(rest) + 1 /\ Cardinality(rest) \in Nat
  <2>1. i \notin rest
    OBVIOUS
  <2> HIDE DEF rest
  <2> QED
    BY <1>3, <2>1, FS_AddElement, FS_CardinalityType
<1>7. Occurrences(t, r) = Cardinality(Places(t, r))
  BY DEF Occurrences, Places
<1>8. Occurrences(t, r) = Cardinality(rest) + One(v, r)
  BY <1>5, <1>6, <1>7 DEF One
<1>9. One(v, r) \in Nat /\ One(s[i], r) \in Nat
  BY DEF One
<1> QED
  BY <1>1, <1>4, <1>6, <1>8, <1>9

-----------------------------------------------------------------------------
(* Tasks. *)

Drops == {Release(x) : x \in Pos}

LEMMA DropsAre ==
  /\ Drops \subseteq Tasks
  /\ \A x, y \in Pos : One(Release(x), Release(y)) = One(x, y)
  /\ \A t \in Drops : t.do = "release" /\ t.of \in Pos /\ t = Release(t.of)
<1>1. \A x \in Pos : Release(x) \in Tasks
  BY DEF Release, Tasks, Pads, Pos
<1>2. \A x, y \in Pos : Release(x) = Release(y) => x = y
  <2> TAKE x, y \in Pos
  <2>1. Release(x).of = x /\ Release(y).of = y
    BY DEF Release
  <2> QED
    BY <2>1
<1>3. \A x \in Pos : Release(x).do = "release" /\ Release(x).of = x
  BY DEF Release
<1> QED
  BY <1>1, <1>2, <1>3 DEF Drops, One

\* f gives the releases of the first n references.
IsReleases(refs, f, n) ==
  f = [m \in 0..n |->
        IF m = 0 THEN << >>
        ELSE IF refs[m] = Undef THEN f[m-1] ELSE Append(f[m-1], Release(refs[m]))]

LEMMA ReleasesExist ==
  ASSUME NEW refs \in Seq(Nat)
  PROVE  \E f : IsReleases(refs, f, Len(refs))
<1>1. Len(refs) \in Nat
  OBVIOUS
<1> DEFINE T == {n \in 0..Len(refs) : ~\E f : IsReleases(refs, f, n)}
<1> SUFFICES ASSUME T # {} PROVE FALSE
  BY <1>1
<1>2. PICK n \in T : \A m \in T : n <= m
  <2>1. T \in SUBSET Nat
    BY <1>1
  <2> HIDE DEF T
  <2> QED
    BY <2>1, LeastNat
<1>3. n \in 0..Len(refs) /\ ~\E f : IsReleases(refs, f, n)
  OBVIOUS
<1>4. n # 0
  <2>1. IsReleases(refs, [m \in 0..0 |-> << >>], 0)
    BY DEF IsReleases
  <2> QED
    BY <1>3, <2>1
<1>5. n - 1 \in 0..Len(refs) /\ n - 1 \notin T
  BY SMTT(40), <1>1, <1>2, <1>3, <1>4
<1>6. PICK f : IsReleases(refs, f, n - 1)
  BY <1>5
<1> DEFINE g == [m \in 0..n |->
                  IF m = n THEN IF refs[n] = Undef THEN f[n-1] ELSE Append(f[n-1], Release(refs[n])) ELSE f[m]]
<1>7. g[n] = (IF refs[n] = Undef THEN f[n-1] ELSE Append(f[n-1], Release(refs[n]))) /\ \A m \in 0..n - 1 : g[m] = f[m]
  BY <1>1, <1>3
<1>8. g = [m \in 0..n |-> g[m]]
  OBVIOUS
<1> HIDE DEF g
<1>9. n - 1 \in 0..n - 1 /\ 0 \in 0..n - 1
  BY <1>1, <1>3, <1>4
<1>10. \A m \in 0..n :
         g[m] = IF m = 0 THEN << >>
                ELSE IF refs[m] = Undef THEN g[m-1] ELSE Append(g[m-1], Release(refs[m]))
  <2> TAKE m \in 0..n
  <2>1. CASE m = 0
    <3>1. f[0] = << >>
      BY <1>6, <1>9 DEF IsReleases
    <3> QED
      BY <1>7, <1>9, <2>1, <3>1
  <2>2. CASE m = n
    BY <1>4, <1>7, <1>9, <2>2
  <2>3. CASE m # 0 /\ m # n
    <3>1. m \in 0..n - 1 /\ m - 1 \in 0..n - 1
      BY <1>1, <1>3, <2>3
    <3>2. f[m] = IF refs[m] = Undef THEN f[m-1] ELSE Append(f[m-1], Release(refs[m]))
      BY <1>6, <2>3, <3>1 DEF IsReleases
    <3> QED
      BY <1>7, <2>3, <3>1, <3>2
  <2> QED
    BY <2>1, <2>2, <2>3
<1>11. IsReleases(refs, g, n)
  BY <1>8, <1>10, Zenon DEF IsReleases
<1> QED
  BY <1>3, <1>11

\* A reference that is not undef is released once for each time it is there.
LEMMA ReleasesAre ==
  ASSUME NEW refs \in Seq(Nat)
  PROVE  /\ Releases(refs) \in Seq(Drops)
         /\ \A r \in Pos : Occurrences(Releases(refs), Release(r)) = Occurrences(refs, r)
<1> DEFINE l == Len(refs)
           f == CHOOSE g : g = [m \in 0..l |->
                  IF m = 0 THEN << >>
                  ELSE IF refs[m] = Undef THEN g[m-1] ELSE Append(g[m-1], Release(refs[m]))]
           Good(n) == /\ f[n] \in Seq(Drops)
                      /\ \A r \in Pos : Occurrences(f[n], Release(r)) = Occurrences(SubSeq(refs, 1, n), r)
<1>1. l \in Nat
  OBVIOUS
<1>2. f = [m \in 0..l |-> IF m = 0 THEN << >>
                          ELSE IF refs[m] = Undef THEN f[m-1] ELSE Append(f[m-1], Release(refs[m]))]
  BY ReleasesExist DEF IsReleases
<1>3. Releases(refs) = f[l]
  BY DEF Releases
<1> HIDE DEF f
<1>4. Good(0)
  <2>1. f[0] = << >> /\ SubSeq(refs, 1, 0) = << >>
    BY <1>1, <1>2
  <2>2. << >> \in Seq(Drops)
    OBVIOUS
  <2> QED
    BY <2>1, <2>2, OccNone
<1>5. ASSUME NEW n \in 1..l, Good(n - 1) PROVE Good(n)
  <2> DEFINE v == refs[n]
             a == SubSeq(refs, 1, n - 1)
  <2>1. v \in Nat /\ n - 1 \in 0..l
    BY <1>1
  <2>2. a \in Seq(Nat) /\ SubSeq(refs, 1, n) = Append(a, v)
    OBVIOUS
  <2>3. f[n] = IF v = 0 THEN f[n-1] ELSE Append(f[n-1], Release(v))
    <3> DEFINE g(m) == IF m = 0 THEN << >>
                       ELSE IF refs[m] = Undef THEN f[m-1] ELSE Append(f[m-1], Release(refs[m]))
    <3>1. f = [m \in 0..l |-> g(m)]
      BY <1>2, Zenon
    <3>2. n \in 0..l /\ n # 0
      BY <1>1
    <3>3. f[n] = g(n)
      <4> HIDE DEF g
      <4> QED
        BY <3>1, <3>2
    <3> QED
      BY <3>2, <3>3 DEF Undef
  <2> DEFINE old == f[n-1]
  <2>4. old \in Seq(Drops) /\ \A r \in Pos : Occurrences(old, Release(r)) = Occurrences(a, r)
    BY <1>5
  <2> HIDE DEF v, a, old
  <2>5. \A r \in Pos : Occurrences(SubSeq(refs, 1, n), r) = Occurrences(a, r) + One(v, r)
    BY <2>1, <2>2, OccAppend
  <2>6. CASE v = 0
    <3>1. \A r \in Pos : One(v, r) = 0 /\ Occurrences(a, r) \in Nat
      BY <2>2, <2>6, PlacesFinite DEF One, Pos
    <3> QED
      BY <2>3, <2>4, <2>5, <2>6, <3>1 DEF old
  <2>7. CASE v # 0
    <3> DEFINE t == Release(v)
    <3>1. v \in Pos /\ t \in Drops
      BY <2>1, <2>7 DEF Pos, Drops
    <3>2. \A r \in Pos : One(t, Release(r)) = One(v, r)
      BY <3>1, DropsAre
    <3> HIDE DEF t
    <3>3. \A r \in Pos : Occurrences(Append(old, t), Release(r)) = Occurrences(old, Release(r)) + One(t, Release(r))
      BY <2>4, <3>1, OccAppend
    <3>4. Append(old, t) \in Seq(Drops)
      BY <2>4, <3>1, AppendIs
    <3>5. f[n] = Append(old, t)
      BY <2>3, <2>7 DEF t, old
    <3>6. \A r \in Pos : Occurrences(Append(old, t), Release(r)) = Occurrences(SubSeq(refs, 1, n), r)
      BY <2>4, <2>5, <3>2, <3>3
    <3> QED
      BY <3>4, <3>5, <3>6
  <2> QED
    BY <2>6, <2>7
<1>6. Good(l)
  <2> DEFINE T == {n \in 0..l : ~Good(n)}
  <2> HIDE DEF Good
  <2> SUFFICES ASSUME T # {} PROVE FALSE
    BY <1>1
  <2>1. PICK n \in T : \A m \in T : n <= m
    <3>1. T \in SUBSET Nat
      BY <1>1
    <3> HIDE DEF T
    <3> QED
      BY <3>1, LeastNat
  <2>2. n \in 1..l
    BY <1>1, <1>4
  <2>3. n - 1 \in 0..l /\ n - 1 \notin T
    BY <1>1, <2>1, <2>2
  <2> QED
    BY <1>5, <2>1, <2>2, <2>3
<1>7. SubSeq(refs, 1, l) = refs
  OBVIOUS
<1> QED
  BY <1>3, <1>6, <1>7

-----------------------------------------------------------------------------
(* References that values hold. *)

HeldAt(h, r) ==
  {x \in (DOMAIN h) \X (1..2) :
     h[x[1]].live /\ x[2] \in DOMAIN h[x[1]].items /\ h[x[1]].items[x[2]] = r}

Holds(h, r) == Cardinality(HeldAt(h, r))

ItemsOf(c) == IF c.live THEN c.items ELSE << >>

ItemsAt(h, a) == IF a \in DOMAIN h THEN ItemsOf(h[a]) ELSE << >>

Small(h) == \A a \in DOMAIN h : h[a].items \in Seq(Pos) /\ Len(h[a].items) <= 2

LEMMA HeldIs ==
  ASSUME NEW h, NEW r
  PROVE  /\ \A x \in HeldAt(h, r) : x[1] \in DOMAIN h /\ x[2] \in 1..2 /\ x = << x[1], x[2] >>
         /\ \A a, k : << a, k >> \in HeldAt(h, r) <=>
              /\ a \in DOMAIN h /\ k \in 1..2
              /\ h[a].live /\ k \in DOMAIN h[a].items /\ h[a].items[k] = r
<1> DEFINE P(x) == h[x[1]].live /\ x[2] \in DOMAIN h[x[1]].items /\ h[x[1]].items[x[2]] = r
           E == 1..2
           D == DOMAIN h
<1>1. HeldAt(h, r) = {x \in D \X E : P(x)}
  BY DEF HeldAt
<1>2. \A a, k : P(<< a, k >>) <=> h[a].live /\ k \in DOMAIN h[a].items /\ h[a].items[k] = r
  OBVIOUS
<1> HIDE DEF P, D, E
<1>3. \A x \in HeldAt(h, r) : x[1] \in D /\ x[2] \in E /\ x = << x[1], x[2] >>
  BY <1>1
<1>4. \A a, k : << a, k >> \in HeldAt(h, r) <=> a \in D /\ k \in E /\ P(<< a, k >>)
  BY <1>1
<1> QED
  BY <1>2, <1>3, <1>4 DEF D, E

LEMMA HeldFinite ==
  ASSUME NEW S, NEW h \in Seq(S), NEW r
  PROVE  IsFiniteSet(HeldAt(h, r)) /\ Holds(h, r) \in Nat
<1>1. IsFiniteSet(DOMAIN h)
  <2>1. DOMAIN h = 1..Len(h) /\ Len(h) \in Nat
    OBVIOUS
  <2> QED
    BY <2>1, FS_Interval
<1>2. IsFiniteSet(1..2)
  <2>1. 1 \in Int /\ 2 \in Int
    OBVIOUS
  <2> QED
    BY <2>1, FS_Interval, Zenon
<1> DEFINE D == DOMAIN h
           E == 1..2
<1>3. HeldAt(h, r) \in SUBSET (D \X E)
  BY DEF HeldAt
<1>4. IsFiniteSet(D \X E)
  <2> HIDE DEF D, E
  <2>1. IsFiniteSet(D) /\ IsFiniteSet(E)
    BY <1>1, <1>2 DEF D, E
  <2> QED
    BY <2>1, FS_Product
<1>5. IsFiniteSet(HeldAt(h, r))
  <2> HIDE DEF D, E
  <2> QED
    BY <1>3, <1>4, FS_Subset
<1> QED
  BY <1>5, FS_CardinalityType DEF Holds

\* What the value at a holds, and what the others hold.
LEMMA HeldApart ==
  ASSUME NEW S, NEW h \in Seq(S), Small(h), NEW a, NEW r
  PROVE  LET others == {x \in HeldAt(h, r) : x[1] # a}
         IN  /\ Cardinality(others) \in Nat
             /\ Holds(h, r) = Cardinality(others) + Occurrences(ItemsAt(h, a), r)
<1> DEFINE others == {x \in HeldAt(h, r) : x[1] # a}
           mine == {x \in HeldAt(h, r) : x[1] = a}
           s == ItemsAt(h, a)
<1>1. IsFiniteSet(HeldAt(h, r))
  BY HeldFinite
<1>2. others \in SUBSET HeldAt(h, r) /\ mine \in SUBSET HeldAt(h, r)
      /\ others \cup mine = HeldAt(h, r) /\ others \cap mine = {}
  OBVIOUS
<1>3. s \in Seq(Pos) /\ Len(s) \in 0..2 /\ DOMAIN s = 1..Len(s)
  <2>1. CASE a \in DOMAIN h /\ h[a].live
    <3>1. s = h[a].items
      BY <2>1 DEF ItemsAt, ItemsOf
    <3>2. h[a].items \in Seq(Pos) /\ Len(h[a].items) <= 2
      BY <2>1 DEF Small
    <3> HIDE DEF s
    <3>3. s \in Seq(Pos) /\ Len(s) <= 2
      BY <3>1, <3>2
    <3>4. Len(s) \in Nat /\ DOMAIN s = 1..Len(s)
      BY <3>3
    <3> QED
      BY <3>3, <3>4
  <2>2. CASE ~(a \in DOMAIN h /\ h[a].live)
    <3>1. s = << >>
      BY <2>2 DEF ItemsAt, ItemsOf
    <3> QED
      BY <3>1
  <2> QED
    BY <2>1, <2>2
<1>4. Cardinality(mine) = Occurrences(s, r) /\ IsFiniteSet(mine)
  <2>1. \A k : k \in Places(s, r) <=> << a, k >> \in mine
    <3> TAKE k
    <3>1. k \in Places(s, r) <=> k \in 1..Len(s) /\ s[k] = r
      BY <1>3 DEF Places
    <3>2. << a, k >> \in mine <=> a \in DOMAIN h /\ k \in 1..2 /\ h[a].live /\ k \in DOMAIN h[a].items /\ h[a].items[k] = r
      BY HeldIs
    <3>3. k \in 1..Len(s) => k \in 1..2
      BY <1>3
    <3>4. CASE a \in DOMAIN h /\ h[a].live
      <4>1. s = h[a].items /\ DOMAIN h[a].items = 1..Len(s)
        BY <1>3, <3>4 DEF ItemsAt, ItemsOf
      <4> QED
        BY <3>1, <3>2, <3>3, <3>4, <4>1
    <3>5. CASE ~(a \in DOMAIN h /\ h[a].live)
      <4>1. s = << >>
        BY <3>5 DEF ItemsAt, ItemsOf
      <4> QED
        BY <3>1, <3>2, <3>5, <4>1
    <3> QED
      BY <3>4, <3>5
  <2>2. \A x \in mine : x = << a, x[2] >>
    BY HeldIs
  <2> DEFINE f == [k \in Places(s, r) |-> << a, k >>]
  <2> HIDE DEF mine, s
  <2>3. f \in [Places(s, r) -> mine]
    BY <2>1
  <2>4. \A k, l \in Places(s, r) : f[k] = f[l] => k = l
    OBVIOUS
  <2>5. \A x \in mine : \E k \in Places(s, r) : f[k] = x
    <3> TAKE x \in mine
    <3>1. x[2] \in Places(s, r)
      BY <2>1, <2>2
    <3>2. f[x[2]] = x
      BY <2>2, <3>1
    <3> QED
      BY <3>1, <3>2
  <2> HIDE DEF f
  <2>6. f \in Bijection(Places(s, r), mine)
    BY <2>3, <2>4, <2>5 DEF Bijection, Injection, Surjection, IsInjective
  <2>7. ExistsBijection(Places(s, r), mine)
    BY <2>6 DEF ExistsBijection
  <2>8. IsFiniteSet(Places(s, r)) /\ Occurrences(s, r) = Cardinality(Places(s, r))
    BY <1>3, PlacesFinite
  <2> QED
    BY <2>7, <2>8, FS_Bijection
<1>5. IsFiniteSet(others)
  BY <1>1, <1>2, FS_Subset
<1> HIDE DEF others, mine
<1>6. Cardinality(others) \in Nat /\ Cardinality(mine) \in Nat
  BY <1>4, <1>5, FS_CardinalityType
<1>7. Cardinality(others \cup mine) = Cardinality(others) + Cardinality(mine) - Cardinality(others \cap mine)
  BY <1>4, <1>5, FS_Union
<1>8. Cardinality(others \cap mine) = 0
  BY <1>2, FS_EmptySet
<1>9. Holds(h, r) = Cardinality(others) + Occurrences(s, r)
  <2> HIDE DEF s
  <2>1. Holds(h, r) = Cardinality(others \cup mine)
    BY <1>2 DEF Holds
  <2> QED
    BY <1>4, <1>6, <1>7, <1>8, <2>1
<1> QED
  BY <1>6, <1>9 DEF others

\* Only what the value at a holds changes.
SameBut(h, g, a) ==
  \A b : b # a => /\ b \in DOMAIN h <=> b \in DOMAIN g
                  /\ b \in DOMAIN h => g[b].live = h[b].live /\ g[b].items = h[b].items

HoldsMoved(h, g, a, r) ==
  Holds(g, r) + Occurrences(ItemsAt(h, a), r) = Holds(h, r) + Occurrences(ItemsAt(g, a), r)

LEMMA HoldsChange ==
  ASSUME NEW S, NEW h \in Seq(S), NEW g \in Seq(S), Small(h), Small(g), NEW a, SameBut(h, g, a), NEW r
  PROVE  HoldsMoved(h, g, a, r)
<1> DEFINE oh == {x \in HeldAt(h, r) : x[1] # a}
           og == {x \in HeldAt(g, r) : x[1] # a}
<1>1. oh = og
  <2>1. \A x : x \in oh => x \in og
    <3> TAKE x
    <3> HAVE x \in oh
    <3> DEFINE b == x[1]
               k == x[2]
    <3>1. x = << b, k >> /\ b # a /\ b \in DOMAIN h
      BY HeldIs
    <3> HIDE DEF b, k
    <3>2. << b, k >> \in HeldAt(h, r)
      BY <3>1
    <3>3. << b, k >> \in HeldAt(g, r)
      BY <3>1, <3>2, HeldIs DEF SameBut
    <3> QED
      BY <3>1, <3>3
  <2>2. \A x : x \in og => x \in oh
    <3> TAKE x
    <3> HAVE x \in og
    <3> DEFINE b == x[1]
               k == x[2]
    <3>1. x = << b, k >> /\ b # a /\ b \in DOMAIN g
      BY HeldIs
    <3> HIDE DEF b, k
    <3>2. << b, k >> \in HeldAt(g, r)
      BY <3>1
    <3>3. << b, k >> \in HeldAt(h, r)
      BY <3>1, <3>2, HeldIs DEF SameBut
    <3> QED
      BY <3>1, <3>3
  <2> HIDE DEF oh, og
  <2> QED
    BY <2>1, <2>2
<1> HIDE DEF oh, og
<1>2. Cardinality(oh) \in Nat /\ Holds(h, r) = Cardinality(oh) + Occurrences(ItemsAt(h, a), r)
  BY HeldApart DEF oh
<1>3. Holds(g, r) = Cardinality(og) + Occurrences(ItemsAt(g, a), r)
  BY HeldApart DEF og
<1>4. Occurrences(ItemsAt(h, a), r) \in Nat /\ Occurrences(ItemsAt(g, a), r) \in Nat
  <2>1. ItemsAt(h, a) \in Seq(Pos) /\ ItemsAt(g, a) \in Seq(Pos)
    BY DEF Small, ItemsAt, ItemsOf
  <2> QED
    BY <2>1, PlacesFinite
<1> QED
  BY <1>1, <1>2, <1>3, <1>4 DEF HoldsMoved

-----------------------------------------------------------------------------
(* Changes of the heap. *)

LEMMA HeapIs ==
  ASSUME NEW h, HeapOK(h)
  PROVE  /\ h \in Seq(CellType) /\ Small(h)
         /\ \A a : ItemsAt(h, a) = IF a \in DOMAIN h THEN h[a].items ELSE << >>
         /\ \A a \in DOMAIN h : a \in Pos /\ h[a] \in CellType /\ CellShape(h[a])
<1>1. h \in Seq(CellType) /\ \A a \in DOMAIN h : CellShape(h[a])
  BY DEF HeapOK
<1>2. \A a \in DOMAIN h : a \in Pos /\ h[a] \in CellType
  BY <1>1 DEF Pos
<1>3. \A a \in DOMAIN h : h[a].items \in Seq(Pos) /\ Len(h[a].items) <= 2
  BY <1>1, <1>2 DEF CellType, CellShape
<1>4. \A a \in DOMAIN h : ~h[a].live => h[a].items = << >>
  BY <1>1 DEF CellShape
<1> QED
  BY <1>1, <1>2, <1>3, <1>4 DEF Small, ItemsAt, ItemsOf

LEMMA CellRecount ==
  ASSUME NEW c \in CellType
  PROVE  /\ \A k \in Nat : LET d == [c EXCEPT !.refcnt = k]
                          IN  /\ d \in CellType /\ d.refcnt = k
                              /\ d.live = c.live /\ d.type = c.type /\ d.n = c.n /\ d.items = c.items
                              /\ d.script = c.script /\ d.destroyed = c.destroyed /\ d.runs = c.runs
         /\ \E k \in Nat : c = [c EXCEPT !.refcnt = k]
<1>1. c.refcnt \in Nat /\ c = [c EXCEPT !.refcnt = c.refcnt]
  BY DEF CellType
<1> QED
  BY <1>1 DEF CellType

\* g is h with cell a changed.
Put(h, g, a, c) ==
  /\ HeapOK(g) /\ DOMAIN g = DOMAIN h /\ Len(g) = Len(h)
  /\ g[a] = c /\ \A b \in DOMAIN h : b # a => g[b] = h[b]
  /\ \A r \in Pos : /\ Holds(g, r) + Occurrences(h[a].items, r) = Holds(h, r) + Occurrences(c.items, r)
                    /\ Count(g, r) = IF r = a THEN c.refcnt ELSE Count(h, r)

LEMMA CellPut ==
  ASSUME NEW h, HeapOK(h), NEW a \in DOMAIN h, NEW c \in CellType, CellShape(c),
         NEW g, g = [h EXCEPT ![a] = c]
  PROVE  Put(h, g, a, c)
<1>1. h \in Seq(CellType)
  BY DEF HeapOK
<1>2. g \in Seq(CellType) /\ DOMAIN g = DOMAIN h /\ Len(g) = Len(h) /\ g[a] = c /\ \A b \in DOMAIN h : b # a => g[b] = h[b]
  BY <1>1
<1>3. HeapOK(g)
  BY <1>2 DEF HeapOK
<1>4. Small(h) /\ Small(g) /\ ItemsAt(h, a) = h[a].items /\ ItemsAt(g, a) = c.items
  BY <1>2, <1>3, HeapIs
<1>5. ASSUME NEW r \in Pos
      PROVE  /\ Holds(g, r) + Occurrences(h[a].items, r) = Holds(h, r) + Occurrences(c.items, r)
             /\ Count(g, r) = IF r = a THEN c.refcnt ELSE Count(h, r)
  <2>1. SameBut(h, g, a)
    BY <1>2 DEF SameBut
  <2>2. Holds(g, r) + Occurrences(ItemsAt(h, a), r) = Holds(h, r) + Occurrences(ItemsAt(g, a), r)
    <3>1. h \in Seq(CellType) /\ g \in Seq(CellType) /\ Small(h) /\ Small(g)
      BY <1>1, <1>2, <1>4
    <3>2. HoldsMoved(h, g, a, r)
      BY <2>1, <3>1, HoldsChange
    <3> QED
      BY <3>2 DEF HoldsMoved
  <2>3. Count(g, r) = IF r = a THEN c.refcnt ELSE Count(h, r)
    BY <1>2 DEF Count
  <2> QED
    BY <1>4, <2>2, <2>3
<1> QED
  BY <1>2, <1>3, <1>5 DEF Put

\* g is h with a new cell n.
Added(h, g, n, c) ==
  /\ HeapOK(g) /\ n \in Pos /\ n \notin DOMAIN h /\ DOMAIN g = DOMAIN h \cup {n}
  /\ g[n] = c /\ \A b \in DOMAIN h : g[b] = h[b]
  /\ \A r \in Pos : /\ Holds(g, r) = Holds(h, r) + Occurrences(c.items, r)
                    /\ Count(g, r) = IF r = n THEN c.refcnt ELSE Count(h, r)
                    /\ r = n => Count(h, r) = 0

LEMMA CellAppend ==
  ASSUME NEW h, HeapOK(h), NEW c \in CellType, CellShape(c),
         NEW g, g = Append(h, c), NEW n, n = Len(h) + 1
  PROVE  Added(h, g, n, c)
<1>1. h \in Seq(CellType) /\ DOMAIN h = 1..Len(h) /\ Len(h) \in Nat
  BY DEF HeapOK
<1>2. g \in Seq(CellType) /\ Len(g) = n /\ g[n] = c /\ \A b \in DOMAIN h : g[b] = h[b]
  BY <1>1, AppendIs
<1>3. n \in Pos /\ n \notin DOMAIN h /\ DOMAIN g = DOMAIN h \cup {n}
  BY <1>1, <1>2 DEF Pos
<1>4. HeapOK(g)
  BY <1>2, <1>3 DEF HeapOK
<1>5. Small(h) /\ Small(g) /\ ItemsAt(h, n) = << >> /\ ItemsAt(g, n) = c.items
  BY <1>2, <1>3, <1>4, HeapIs
<1>6. ASSUME NEW r \in Pos
      PROVE  /\ Holds(g, r) = Holds(h, r) + Occurrences(c.items, r)
             /\ Count(g, r) = IF r = n THEN c.refcnt ELSE Count(h, r)
             /\ r = n => Count(h, r) = 0
  <2>1. SameBut(h, g, n)
    BY <1>2, <1>3 DEF SameBut
  <2>2. Holds(g, r) + Occurrences(ItemsAt(h, n), r) = Holds(h, r) + Occurrences(ItemsAt(g, n), r)
    <3>1. h \in Seq(CellType) /\ g \in Seq(CellType) /\ Small(h) /\ Small(g)
      BY <1>1, <1>2, <1>5
    <3>2. HoldsMoved(h, g, n, r)
      BY <2>1, <3>1, HoldsChange
    <3> QED
      BY <3>2 DEF HoldsMoved
  <2>3. Occurrences(ItemsAt(h, n), r) = 0
    BY <1>5, OccNone
  <2>4. Holds(g, r) \in Nat
    BY <1>2, HeldFinite
  <2>5. Count(g, r) = (IF r = n THEN c.refcnt ELSE Count(h, r)) /\ (r = n => Count(h, r) = 0)
    BY <1>2, <1>3 DEF Count
  <2> QED
    BY <1>5, <2>2, <2>3, <2>4, <2>5
<1> QED
  BY <1>2, <1>3, <1>4, <1>6 DEF Added

\* A value keeps its type, and that DESTROY was called for it.
Evolves(h, g) ==
  \A a \in DOMAIN h : a \in DOMAIN g /\ g[a].type = h[a].type /\ (h[a].destroyed => g[a].destroyed)

\* One more owner of a value.
Retained(h, g, v) ==
  /\ HeapOK(g) /\ DOMAIN g = DOMAIN h /\ Len(g) = Len(h) /\ Evolves(h, g)
  /\ \A b \in DOMAIN h : \E k \in Nat : g[b] = [h[b] EXCEPT !.refcnt = k]
  /\ \A r \in Pos : Holds(g, r) = Holds(h, r) /\ Count(g, r) = Count(h, r) + One(v, r)

LEMMA RetainIs ==
  ASSUME NEW h, HeapOK(h), NEW v \in Nat, v # 0 => v \in DOMAIN h /\ h[v].live,
         NEW g, g = Retain(h, v)
  PROVE  Retained(h, g, v)
<1>1. CASE v = 0
  <2>1. g = h
    BY <1>1 DEF Retain, Undef
  <2>2. \A r \in Pos : One(v, r) = 0 /\ Count(h, r) \in Nat
    BY <1>1, HeapIs DEF One, Pos, Count, CellType
  <2>3. \A b \in DOMAIN h : \E k \in Nat : h[b] = [h[b] EXCEPT !.refcnt = k]
    <3> TAKE b \in DOMAIN h
    <3>1. h[b] \in CellType
      BY HeapIs
    <3> QED
      BY <3>1, CellRecount
  <2>4. \A r \in Pos : Holds(g, r) = Holds(h, r) /\ Count(g, r) = Count(h, r) + One(v, r)
    BY <2>1, <2>2
  <2> QED
    BY <2>1, <2>3, <2>4 DEF Evolves, Retained
<1>2. CASE v # 0
  <2> DEFINE c == [h[v] EXCEPT !.refcnt = @ + 1]
  <2>1. h[v] \in CellType /\ CellShape(h[v]) /\ v \in DOMAIN h /\ h[v].live /\ v \in Pos
    BY <1>2, HeapIs
  <2>2. c \in CellType /\ c.items = h[v].items /\ c.refcnt = h[v].refcnt + 1 /\ c.type = h[v].type
        /\ c.destroyed = h[v].destroyed /\ c.live = h[v].live /\ c.runs = h[v].runs /\ c.script = h[v].script
    <3>1. h[v].refcnt + 1 \in Nat
      BY <2>1 DEF CellType
    <3> QED
      BY <2>1, <3>1, CellRecount
  <2>3. CellShape(c)
    BY <2>1, <2>2 DEF CellShape
  <2>4. g = [h EXCEPT ![v] = c]
    BY <1>2 DEF Retain, Undef
  <2> HIDE DEF c
  <2>5. /\ HeapOK(g) /\ DOMAIN g = DOMAIN h /\ Len(g) = Len(h)
        /\ g[v] = c /\ \A b \in DOMAIN h : b # v => g[b] = h[b]
        /\ \A r \in Pos : /\ Holds(g, r) + Occurrences(h[v].items, r) = Holds(h, r) + Occurrences(c.items, r)
                          /\ Count(g, r) = IF r = v THEN c.refcnt ELSE Count(h, r)
    <3>1. Put(h, g, v, c)
      BY <2>1, <2>2, <2>3, <2>4, CellPut
    <3> QED
      BY <3>1 DEF Put
  <2>6. ASSUME NEW r \in Pos PROVE Holds(g, r) = Holds(h, r) /\ Count(g, r) = Count(h, r) + One(v, r)
    <3>1. Holds(g, r) \in Nat /\ Holds(h, r) \in Nat
      BY <2>5, HeldFinite, HeapIs
    <3>2. Occurrences(c.items, r) \in Nat
      BY <2>2, PlacesFinite DEF CellType
    <3>3. Count(h, r) \in Nat
      BY HeapIs DEF Count, CellType
    <3>4. Holds(g, r) = Holds(h, r)
      BY <2>2, <2>5, <3>1, <3>2
    <3>5. Count(g, r) = Count(h, r) + One(v, r)
      BY <2>1, <2>2, <2>5, <3>3 DEF One, Count
    <3> QED
      BY <3>4, <3>5
  <2>7. Evolves(h, g)
    BY <2>2, <2>5 DEF Evolves
  <2>8. \A b \in DOMAIN h : \E k \in Nat : g[b] = [h[b] EXCEPT !.refcnt = k]
    <3> TAKE b \in DOMAIN h
    <3>1. CASE b = v
      <4>1. h[v].refcnt + 1 \in Nat
        BY <2>1 DEF CellType
      <4> QED
        BY <2>5, <3>1, <4>1 DEF c
    <3>2. CASE b # v
      <4>1. h[b] \in CellType
        BY HeapIs
      <4> QED
        BY <2>5, <3>2, <4>1, CellRecount
    <3> QED
      BY <3>1, <3>2
  <2> QED
    BY <2>5, <2>6, <2>7, <2>8 DEF Retained
<1> QED
  BY <1>1, <1>2

-----------------------------------------------------------------------------
(* Owners. *)

Total(h, p, s, f, t, r) ==
  Occurrences(p.outer, r) + Occurrences(p.inner, r) + Occurrences(s, r) + (One(f.cur, r) + One(f.of, r))
    + Occurrences(t, Release(r)) + Holds(h, r)

Balanced(h, p, s, f, t) == \A r \in Pos : Count(h, r) = Total(h, p, s, f, t, r)

LEMMA OccTwo ==
  ASSUME NEW v, NEW w, NEW r
  PROVE  Occurrences(<< v, w >>, r) = One(v, r) + One(w, r)
<1> DEFINE one == << v >>
           two == << v, w >>
<1>1. one \in Seq({v, w}) /\ two = Append(one, w) /\ w \in {v, w}
  OBVIOUS
<1>2. Occurrences(one, r) = One(v, r)
  BY OccOne
<1> HIDE DEF one, two
<1>3. Occurrences(two, r) = Occurrences(one, r) + One(w, r)
  BY <1>1, OccAppend
<1> QED
  BY <1>2, <1>3 DEF two

LEMMA ExactIs ==
  /\ Exact <=> Balanced(heap, pads, stack, frame, todo)
  /\ Exact' <=> Balanced(heap', pads', stack', frame', todo')
<1>1. \A r : Owners(r) = Total(heap, pads, stack, frame, todo, r)
  BY OccTwo DEF Owners, Total, Cells, Holds, HeldAt
<1>2. \A r : Owners(r)' = Total(heap', pads', stack', frame', todo', r)
  BY OccTwo DEF Owners, Total, Cells, Holds, HeldAt, Occurrences
<1>3. Exact' <=> \A r \in Pos : Count(heap', r) = Owners(r)'
  BY DEF Exact, Count
<1> QED
  BY <1>1, <1>2, <1>3 DEF Exact, Balanced

LEMMA TotalNat ==
  ASSUME NEW h, HeapOK(h), NEW p \in [Pads -> Seq(Nat)], NEW s \in Seq(Pos), NEW t \in Seq(Tasks), NEW r
  PROVE  /\ Occurrences(p.outer, r) \in Nat /\ Occurrences(p.inner, r) \in Nat /\ Occurrences(s, r) \in Nat
         /\ Occurrences(t, Release(r)) \in Nat /\ Holds(h, r) \in Nat
         /\ \A v : One(v, r) \in Nat
         /\ Count(h, r) \in Nat
<1>1. p.outer \in Seq(Nat) /\ p.inner \in Seq(Nat)
  BY DEF Pads
<1>2. h \in Seq(CellType)
  BY DEF HeapOK
<1>3. Count(h, r) \in Nat
  BY HeapIs DEF Count, CellType
<1> QED
  BY <1>1, <1>2, <1>3, PlacesFinite, HeldFinite DEF One

Alive(r) == r \in DOMAIN heap /\ heap[r].live

\* What has an owner is alive.
LEMMA OwnedLive ==
  ASSUME IInv, NEW r \in Pos
  PROVE  /\ (\E i \in DOMAIN stack : stack[i] = r) => Alive(r)
         /\ (\E p \in Pads : \E i \in DOMAIN pads[p] : pads[p][i] = r) => Alive(r)
         /\ (r = frame.cur \/ r = frame.of) => Alive(r)
         /\ (\E i \in DOMAIN todo : todo[i] = Release(r)) => Alive(r)
         /\ (\E a \in DOMAIN heap : heap[a].live /\ \E i \in DOMAIN heap[a].items : heap[a].items[i] = r) => Alive(r)
<1>1. HeapOK(heap) /\ pads \in [Pads -> Seq(Nat)] /\ stack \in Seq(Pos) /\ todo \in Seq(Tasks)
  BY DEF IInv, Shaped, TodoOK
<1> DEFINE a == Occurrences(pads.outer, r)
           b == Occurrences(pads.inner, r)
           c == Occurrences(stack, r)
           d == One(frame.cur, r)
           e == One(frame.of, r)
           f == Occurrences(todo, Release(r))
           g == Holds(heap, r)
<1>2. a \in Nat /\ b \in Nat /\ c \in Nat /\ d \in Nat /\ e \in Nat /\ f \in Nat /\ g \in Nat
  BY <1>1, TotalNat
<1>3. Count(heap, r) = a + b + c + (d + e) + f + g
  BY ExactIs DEF IInv, Balanced, Total
<1>4. Count(heap, r) # 0 => Alive(r)
  BY <1>1, HeapIs DEF Count, Alive, CellShape
<1>5. c # 0 <=> \E i \in DOMAIN stack : stack[i] = r
  BY <1>1, OccAbsent
<1>6. pads.outer \in Seq(Nat) /\ pads.inner \in Seq(Nat)
  BY <1>1 DEF Pads
<1>7. (a # 0 <=> \E i \in DOMAIN pads.outer : pads.outer[i] = r) /\ (b # 0 <=> \E i \in DOMAIN pads.inner : pads.inner[i] = r)
  BY <1>6, OccAbsent
<1>8. (d # 0 <=> r = frame.cur) /\ (e # 0 <=> r = frame.of)
  BY DEF One
<1>9. f # 0 <=> \E i \in DOMAIN todo : todo[i] = Release(r)
  BY <1>1, OccAbsent
<1>10. ASSUME NEW q \in DOMAIN heap, heap[q].live, NEW i \in DOMAIN heap[q].items, heap[q].items[i] = r
       PROVE  g # 0
  <2>1. ItemsAt(heap, q) = heap[q].items /\ heap \in Seq(CellType) /\ Small(heap) /\ heap[q].items \in Seq(Pos)
    BY <1>1, <1>10, HeapIs DEF Small
  <2>2. Occurrences(ItemsAt(heap, q), r) # 0 /\ Occurrences(ItemsAt(heap, q), r) \in Nat
    BY <1>10, <2>1, OccAbsent, PlacesFinite
  <2> DEFINE o == Cardinality({x \in HeldAt(heap, r) : x[1] # q})
  <2>3. o \in Nat /\ g = o + Occurrences(ItemsAt(heap, q), r)
    BY <2>1, HeldApart
  <2> HIDE DEF o, g
  <2> QED
    BY <2>2, <2>3
<1> HIDE DEF a, b, c, d, e, f, g
<1>11. (a # 0 \/ b # 0 \/ c # 0 \/ d # 0 \/ e # 0 \/ f # 0 \/ g # 0) => Alive(r)
  BY <1>2, <1>3, <1>4
<1>12. (\E p \in Pads : \E i \in DOMAIN pads[p] : pads[p][i] = r) => a # 0 \/ b # 0
  BY <1>7 DEF Pads
<1> QED
  BY <1>5, <1>8, <1>9, <1>10, <1>11, <1>12

-----------------------------------------------------------------------------
(* What steps leave in todo. *)

\* The tasks of PadList::set.
Plain(ts, v) ==
  /\ ts \in Seq(Tasks)
  /\ \A k \in DOMAIN ts :
       /\ ts[k].do \in {"shift", "shrink", "insert"} /\ ts[k].pad \in Pads
       /\ ts[k].do # "shrink" => ts[k].at # 0
       /\ ts[k].do = "insert" => ts[k].of = v

\* They are about one pad, and the insertion is the last of them.
SetOf(ts, p, i, v) ==
  /\ ts \in Seq(Tasks) /\ Len(ts) \in Pos /\ ts[Len(ts)] = InsertTask(p, i, v)
  /\ \A k \in DOMAIN ts :
       /\ ts[k].do \in {"shift", "shrink", "insert"} /\ ts[k].pad = p
       /\ ts[k].do # "shrink" => ts[k].at # 0
       /\ ts[k].do = "insert" => k = Len(ts)

LEMMA SetEnds ==
  ASSUME pads \in [Pads -> Seq(Nat)], NEW p \in Pads, NEW i \in Pos, NEW v \in Nat
  PROVE  SetOf(Set(p, i, v), p, i, v)
<1> DEFINE n == Len(pads[p])
           last == InsertTask(p, i, v)
           cut == Shrink(p)
           moves == [k \in 1..n - i |-> Shift(p, i + k - 1)]
<1>1. n \in Nat /\ i \in Nat /\ i # 0
  BY DEF Pos
<1>2. last \in Tasks /\ last.do = "insert" /\ last.pad = p /\ last.at = i /\ last.of = v
  BY <1>1 DEF InsertTask, Tasks
<1>3. cut \in Tasks /\ cut.do = "shrink" /\ cut.pad = p
  BY DEF Shrink, Tasks
<1>4. \A k \in 1..n - i :
        Shift(p, i + k - 1) \in Tasks /\ Shift(p, i + k - 1).do = "shift" /\ Shift(p, i + k - 1).pad = p
        /\ Shift(p, i + k - 1).at # 0
  <2>1. \A m \in Pos : Shift(p, m) \in Tasks /\ Shift(p, m).do = "shift" /\ Shift(p, m).pad = p /\ Shift(p, m).at # 0
    BY DEF Shift, Tasks, Pos
  <2>2. \A k \in 1..n - i : i + k - 1 \in Pos
    BY <1>1 DEF Pos
  <2> QED
    BY <2>1, <2>2
<1>5. Set(p, i, v) = IF i > n THEN << last >> ELSE moves \o << cut, last >>
  BY DEF Set
<1>6. CASE i > n
  <2> DEFINE one == << last >>
  <2>1. one \in Seq(Tasks) /\ Len(one) = 1 /\ one[1] = last
    BY <1>2
  <2> HIDE DEF one, last
  <2>2. Set(p, i, v) = one
    BY <1>5, <1>6 DEF one
  <2>3. \A k \in DOMAIN one : k = 1
    BY <2>1
  <2>4. SetOf(one, p, i, v)
    BY <1>1, <1>2, <2>1, <2>3 DEF SetOf, Pos, last
  <2> QED
    BY <2>2, <2>4
<1>7. CASE ~(i > n)
  <2> DEFINE m == n - i
             two == << cut, last >>
  <2>1. m \in Nat
    BY <1>1, <1>7
  <2>2. moves \in Seq(Tasks) /\ Len(moves) = m /\ \A k \in 1..m : moves[k] = Shift(p, i + k - 1)
    BY SMTT(40), <1>4, <2>1
  <2>3. two \in Seq(Tasks) /\ Len(two) = 2 /\ two[1] = cut /\ two[2] = last
    <3> HIDE DEF cut, last
    <3> QED
      BY <1>2, <1>3
  <2> DEFINE all == moves \o two
  <2> HIDE DEF moves, two, m, last, cut
  <2>4. all \in Seq(Tasks) /\ Len(all) = m + 2 /\ (\A k \in 1..m : all[k] = moves[k]) /\ (\A k \in 1..2 : all[m + k] = two[k])
    <3>1. moves \in Seq(Tasks) /\ two \in Seq(Tasks)
      BY <2>2, <2>3
    <3>2. /\ all \in Seq(Tasks) /\ Len(all) = Len(moves) + Len(two)
          /\ (\A k \in 1..Len(moves) : all[k] = moves[k]) /\ (\A k \in 1..Len(two) : all[Len(moves) + k] = two[k])
      BY <3>1, ConcatIs
    <3> HIDE DEF all
    <3> QED
      BY <2>2, <2>3, <3>2
  <2> HIDE DEF all
  <2>5. \A k \in 1..m : moves[k].do = "shift" /\ moves[k].pad = p /\ moves[k].at # 0
    BY <1>4, <2>2 DEF m
  <2>6. all[m + 1] = cut /\ all[m + 2] = last
    BY <2>3, <2>4
  <2>7. ASSUME NEW k \in DOMAIN all PROVE k \in 1..m \/ k = m + 1 \/ k = m + 2
    BY <2>1, <2>4, <2>7
  <2>8. ASSUME NEW k \in DOMAIN all
        PROVE  /\ all[k].do \in {"shift", "shrink", "insert"} /\ all[k].pad = p
               /\ all[k].do # "shrink" => all[k].at # 0
               /\ all[k].do = "insert" => k = m + 2
    <3>1. CASE k \in 1..m
      BY <2>4, <2>5, <3>1
    <3>2. CASE k = m + 1
      BY <1>3, <2>6, <3>2
    <3>3. CASE k = m + 2
      BY <1>1, <1>2, <2>6, <3>3
    <3> QED
      BY <2>7, <2>8, <3>1, <3>2, <3>3
  <2>9. SetOf(all, p, i, v)
    <3>1. Len(all) = m + 2 /\ m + 2 \in Pos /\ all[m + 2] = InsertTask(p, i, v)
      BY <2>1, <2>4, <2>6 DEF Pos, last
    <3> QED
      BY <2>4, <2>8, <3>1 DEF SetOf
  <2> QED
    BY <1>5, <1>7, <2>9 DEF all, two
<1> QED
  BY <1>6, <1>7

LEMMA SetIs ==
  ASSUME pads \in [Pads -> Seq(Nat)], NEW p \in Pads, NEW i \in Pos, NEW v \in Nat
  PROVE  Plain(Set(p, i, v), v)
<1>1. SetOf(Set(p, i, v), p, i, v) /\ InsertTask(p, i, v).of = v
  BY SetEnds DEF InsertTask
<1> QED
  BY <1>1 DEF SetOf, Plain

LEMMA PlainIs ==
  ASSUME NEW ts, NEW v, Plain(ts, v)
  PROVE  /\ \A h : TodoOK(h, ts)
         /\ \A r \in Pos : Occurrences(ts, Release(r)) = 0
<1>1. ts \in Seq(Tasks)
  BY DEF Plain
<1>2. \A h : \A k \in DOMAIN ts : TaskShape(h, ts[k])
  BY DEF Plain, TaskShape
<1>3. ASSUME NEW r \in Pos PROVE Occurrences(ts, Release(r)) = 0
  <2>1. \A k \in DOMAIN ts : ts[k] # Release(r)
    <3>1. Release(r).do = "release"
      BY DEF Release
    <3> QED
      BY <3>1 DEF Plain
  <2> QED
    BY <1>1, <2>1, OccAbsent
<1> QED
  BY <1>1, <1>2, <1>3 DEF TodoOK

LEMMA DropsOK ==
  ASSUME NEW ts \in Seq(Drops), NEW h
  PROVE  TodoOK(h, ts)
<1>1. \A k \in DOMAIN ts : ts[k] \in Drops
  OBVIOUS
<1>2. ts \in Seq(Tasks)
  BY DropsAre
<1>3. \A t \in Drops : TaskShape(h, t)
  BY DropsAre DEF TaskShape, Pos
<1> QED
  BY <1>1, <1>2, <1>3 DEF TodoOK

LEMMA TodoConcat ==
  ASSUME NEW h, NEW s, TodoOK(h, s), NEW t, TodoOK(h, t)
  PROVE  TodoOK(h, s \o t)
<1>1. s \in Seq(Tasks) /\ t \in Seq(Tasks) /\ Len(s) \in Nat /\ Len(t) \in Nat
  BY DEF TodoOK
<1> DEFINE u == s \o t
<1>2. u \in Seq(Tasks) /\ Len(u) = Len(s) + Len(t)
      /\ (\A i \in 1..Len(s) : u[i] = s[i]) /\ (\A i \in 1..Len(t) : u[Len(s) + i] = t[i])
  BY <1>1, ConcatIs
<1> HIDE DEF u
<1>3. ASSUME NEW i \in DOMAIN u PROVE TaskShape(h, u[i])
  <2>1. CASE i \in 1..Len(s)
    BY <1>1, <1>2, <2>1 DEF TodoOK
  <2>2. CASE i \notin 1..Len(s)
    <3> DEFINE j == i - Len(s)
    <3>1. j \in 1..Len(t) /\ i = Len(s) + j
      BY <1>1, <1>2, <2>2
    <3> HIDE DEF j
    <3>2. u[i] = t[j] /\ j \in DOMAIN t
      BY <1>1, <1>2, <3>1
    <3> QED
      BY <3>2 DEF TodoOK
  <2> QED
    BY <2>1, <2>2
<1>4. TodoOK(h, u)
  BY <1>2, <1>3 DEF TodoOK
<1> QED
  BY <1>4 DEF u

LEMMA TodoEvolves ==
  ASSUME NEW h, NEW ts, TodoOK(h, ts), NEW g, Evolves(h, g)
  PROVE  TodoOK(g, ts)
BY DEF TodoOK, TaskShape, Evolves

\* Every body and every insert comes with a release of its value.
SelfGuarded(ts) ==
  \A i \in DOMAIN ts :
    /\ ts[i].do # "iterate"
    /\ ts[i].do = "body" \/ (ts[i].do = "insert" /\ ts[i].of # 0) => ReleasedAfter(ts, i, ts[i].of)

\* new comes from todo when its first task leaves ts to do.
Worked(g, ts, new) ==
  /\ TodoOK(g, new) /\ Guarded(new, stack, frame)
  /\ \A r \in Pos : Occurrences(new, Release(r)) + One(Head(todo), Release(r))
                      = Occurrences(ts, Release(r)) + Occurrences(todo, Release(r))

LEMMA ThenIs ==
  ASSUME Shaped, Guarded(todo, stack, frame), todo # << >>,
         NEW g, Evolves(heap, g), NEW ts, TodoOK(g, ts), SelfGuarded(ts),
         NEW new, new = ts \o Tail(todo)
  PROVE  Worked(g, ts, new)
<1> DEFINE rest == Tail(todo)
           n == Len(ts)
<1>1. todo \in Seq(Tasks) /\ TodoOK(g, todo) /\ ts \in Seq(Tasks) /\ n \in Nat /\ Len(todo) \in Nat \ {0}
  BY TodoEvolves DEF Shaped, TodoOK
<1>2. rest \in Seq(Tasks) /\ Len(rest) = Len(todo) - 1 /\ \A i \in 1..Len(todo) - 1 : rest[i] = todo[i + 1]
  BY <1>1
<1> HIDE DEF rest
<1>3. TodoOK(g, rest)
  <2>1. \A i \in DOMAIN rest : i + 1 \in DOMAIN todo /\ rest[i] = todo[i + 1]
    BY <1>1, <1>2
  <2> QED
    BY <1>1, <1>2, <2>1 DEF TodoOK
<1>4. TodoOK(g, new)
  BY <1>3, TodoConcat DEF rest
<1>5. new \in Seq(Tasks) /\ Len(new) = n + Len(rest)
      /\ (\A i \in 1..n : new[i] = ts[i]) /\ (\A i \in 1..Len(rest) : new[n + i] = rest[i])
  BY <1>1, <1>2, ConcatIs DEF rest
<1> HIDE DEF n
<1>6. \A i \in 1..Len(rest) : new[n + i] = todo[i + 1] /\ i + 1 \in DOMAIN todo
  BY <1>1, <1>2, <1>5
<1>7. ASSUME NEW i \in DOMAIN new PROVE GuardedTask(new, i, stack, frame)
  <2>1. i \in 1..n + Len(rest)
    BY <1>5
  <2>2. CASE i \in 1..n
    <3>1. i \in DOMAIN ts /\ new[i] = ts[i]
      BY <1>1, <1>5, <2>2 DEF n
    <3>2. \A v : ReleasedAfter(ts, i, v) => ReleasedAfter(new, i, v)
      <4> TAKE v
      <4> HAVE ReleasedAfter(ts, i, v)
      <4>1. PICK j \in DOMAIN ts : j > i /\ ts[j] = Release(v)
        BY DEF ReleasedAfter
      <4>2. j \in DOMAIN new /\ new[j] = ts[j]
        BY <1>1, <1>2, <1>5 DEF n
      <4> QED
        BY <4>1, <4>2 DEF ReleasedAfter
    <3> QED
      BY <3>1, <3>2 DEF SelfGuarded, GuardedTask
  <2>3. CASE i \notin 1..n
    <3> DEFINE k == i - n
    <3>1. k \in 1..Len(rest) /\ i = n + k
      BY <1>1, <1>2, <2>1, <2>3
    <3> HIDE DEF k
    <3>2. new[i] = todo[k + 1] /\ k + 1 \in DOMAIN todo
      BY <1>6, <3>1
    <3>3. GuardedTask(todo, k + 1, stack, frame)
      BY <3>2 DEF Guarded
    <3>4. \A v : ReleasedAfter(todo, k + 1, v) => ReleasedAfter(new, i, v)
      <4> TAKE v
      <4> HAVE ReleasedAfter(todo, k + 1, v)
      <4>1. PICK j \in DOMAIN todo : j > k + 1 /\ todo[j] = Release(v)
        BY DEF ReleasedAfter
      <4> DEFINE m == j - 1
      <4>2. m \in 1..Len(rest) /\ m + 1 = j /\ n + m > i
        BY <1>1, <1>2, <3>1, <4>1
      <4> HIDE DEF m
      <4>3. n + m \in DOMAIN new /\ new[n + m] = todo[j]
        BY <1>1, <1>2, <1>5, <1>6, <4>2
      <4> QED
        BY <4>1, <4>2, <4>3 DEF ReleasedAfter
    <3>5. Iterates(new) => Iterates(todo)
      <4> HAVE Iterates(new)
      <4>1. PICK j \in DOMAIN new : new[j].do = "iterate"
        BY DEF Iterates
      <4>2. j \notin 1..n
        BY <1>1, <1>5, <4>1 DEF SelfGuarded, n
      <4> DEFINE m == j - n
      <4>3. m \in 1..Len(rest) /\ j = n + m
        BY <1>1, <1>2, <1>5, <4>2
      <4> HIDE DEF m
      <4> QED
        BY <1>6, <4>1, <4>3 DEF Iterates
    <3>6. k + 1 = Len(todo) => i = Len(new)
      <4> HAVE k + 1 = Len(todo)
      <4>1. k = Len(rest)
        BY <1>1, <1>2, <3>1
      <4> QED
        BY <1>5, <3>1, <4>1
    <3> QED
      BY <3>2, <3>3, <3>4, <3>5, <3>6 DEF GuardedTask
  <2> QED
    BY <2>2, <2>3
<1>8. ASSUME NEW r \in Pos
      PROVE  Occurrences(new, Release(r)) + One(Head(todo), Release(r))
               = Occurrences(ts, Release(r)) + Occurrences(todo, Release(r))
  <2>1. Occurrences(todo, Release(r)) = One(Head(todo), Release(r)) + Occurrences(rest, Release(r))
    BY <1>1, OccTail DEF rest
  <2>2. Occurrences(new, Release(r)) = Occurrences(ts, Release(r)) + Occurrences(rest, Release(r))
    BY <1>1, <1>2, OccConcat DEF rest
  <2>3. Occurrences(ts, Release(r)) \in Nat /\ Occurrences(rest, Release(r)) \in Nat
        /\ One(Head(todo), Release(r)) \in Nat
    BY <1>1, <1>2, PlacesFinite DEF One
  <2> QED
    BY <2>1, <2>2, <2>3
<1> QED
  BY <1>4, <1>7, <1>8 DEF Worked, Guarded

\* After an op, what is to be inserted is an operand.
LEMMA GuardOps ==
  ASSUME NEW ts, NEW s, NEW f,
         \A i \in DOMAIN ts : /\ ts[i].do \in {"release", "shift", "shrink", "insert"}
                              /\ ts[i].do = "insert" /\ ts[i].of # 0 => ts[i].of \in Range(s)
  PROVE  Guarded(ts, s, f)
BY DEF Guarded, GuardedTask, Iterates

-----------------------------------------------------------------------------
(* Each op keeps the invariant. *)

LEMMA Shapes ==
  ASSUME Shaped
  PROVE  /\ HeapOK(heap) /\ heap \in Seq(CellType) /\ TodoOK(heap, todo) /\ todo \in Seq(Tasks)
         /\ pads \in [Pads -> Seq(Nat)] /\ pads.outer \in Seq(Nat) /\ pads.inner \in Seq(Nat)
         /\ stack \in Seq(Pos) /\ FrameOK(frame, stack) /\ frame \in FrameType
         /\ frame.top \in Nat /\ frame.counter \in Nat /\ frame.of \in Nat /\ frame.cur \in Nat
BY DEF Shaped, HeapOK, TodoOK, FrameOK, FrameType, Pads

Summed(r) ==
  /\ Count(heap, r) = Occurrences(pads.outer, r) + Occurrences(pads.inner, r) + Occurrences(stack, r)
                        + (One(frame.cur, r) + One(frame.of, r))
                        + Occurrences(todo, Release(r)) + Holds(heap, r)
  /\ Count(heap, r) \in Nat
  /\ Occurrences(pads.outer, r) \in Nat /\ Occurrences(pads.inner, r) \in Nat
  /\ Occurrences(stack, r) \in Nat /\ Occurrences(todo, Release(r)) \in Nat /\ Holds(heap, r) \in Nat
  /\ \A v : One(v, r) \in Nat

LEMMA Counts ==
  ASSUME IInv, NEW r \in Pos
  PROVE  Summed(r)
BY TotalNat, Shapes, ExactIs DEF IInv, Balanced, Total, Summed

LEMMA Keeps ==
  ASSUME HeapOK(heap'), TodoOK(heap', todo'), pads' \in [Pads -> Seq(Nat)], stack' \in Seq(Pos),
         FrameOK(frame', stack'), mode' \in {"run", "aborted"}, Guarded(todo', stack', frame'),
         \A r \in Pos : Count(heap', r) = Total(heap', pads', stack', frame', todo', r)
  PROVE  IInv'
BY ExactIs DEF IInv, Shaped, Balanced

\* Without tasks.
LEMMA Idle ==
  /\ \A h : TodoOK(h, << >>)
  /\ \A s, f : Guarded(<< >>, s, f)
  /\ \A r : Occurrences(<< >>, r) = 0
BY OccNone DEF TodoOK, Guarded

LEMMA TopIs ==
  ASSUME IInv, Len(stack) > 0
  PROVE  /\ stack # << >> /\ Top \in Pos /\ Alive(Top) /\ Top \in DOMAIN heap /\ heap[Top] \in CellType
         /\ Front(stack) \in Seq(Pos) /\ Len(Front(stack)) = Len(stack) - 1 /\ Len(stack) \in Nat
         /\ \A r : Occurrences(stack, r) = Occurrences(Front(stack), r) + One(Top, r)
         /\ \A r : Occurrences(Front(stack), r) \in Nat
         /\ Top \in Range(stack)
<1>1. stack \in Seq(Pos) /\ Len(stack) \in Nat /\ stack # << >> /\ heap \in Seq(CellType)
  BY Shapes DEF IInv
<1>2. Front(stack) \in Seq(Pos) /\ Len(Front(stack)) = Len(stack) - 1 /\ Top \in Pos
      /\ \A r : Occurrences(stack, r) = Occurrences(Front(stack), r) + One(Top, r)
  BY <1>1, OccFront DEF Top
<1>3. Len(stack) \in DOMAIN stack /\ stack[Len(stack)] = Top
  BY <1>1 DEF Top, Last
<1>4. Alive(Top)
  BY <1>2, <1>3, OwnedLive
<1>5. Top \in Range(stack)
  BY <1>3 DEF Range
<1>6. \A r : Occurrences(Front(stack), r) \in Nat
  BY <1>2, PlacesFinite
<1>7. Top \in DOMAIN heap /\ heap[Top] \in CellType
  BY <1>1, <1>4 DEF Alive
<1> QED
  BY <1>1, <1>2, <1>4, <1>5, <1>6, <1>7

LEMMA OwnTop ==
  ASSUME Shaped, Own
  PROVE  Len(stack) > 0 /\ frame.top <= Len(stack) - 1 /\ frame.top \in Nat /\ Len(stack) \in Nat
BY Shapes DEF Own

\* The operands change and the frame stays.
LEMMA FrameStays ==
  ASSUME NEW f, NEW s, FrameOK(f, s), NEW t, f.top <= Len(t)
  PROVE  FrameOK(f, t)
BY DEF FrameOK

LEMMA PushIntKeeps ==
  ASSUME HeapAssumption, IInv, OP_PUSH_INT
  PROVE  IInv'
<1> DEFINE c == Cell("int", 0, << >>, "none")
           n == Len(heap) + 1
<1>1. Shaped /\ todo = << >> /\ heap' = Append(heap, c) /\ stack' = Append(stack, n)
      /\ pads' = pads /\ frame' = frame /\ todo' = todo /\ mode' = mode
  BY DEF IInv, OP_PUSH_INT, Ready
<1>2. c \in CellType /\ CellShape(c) /\ c.items = << >> /\ c.refcnt = 1
  BY DEF HeapAssumption, Cell, CellType, CellShape
<1> HIDE DEF c, n
<1>3. Added(heap, heap', n, c)
  BY <1>1, <1>2, Shapes, CellAppend DEF n
<1>4. stack \in Seq(Pos) /\ n \in Pos
  BY <1>1, <1>3, Shapes DEF Added
<1>5. stack' \in Seq(Pos) /\ Len(stack') = Len(stack) + 1 /\ Len(stack) \in Nat
      /\ \A r : Occurrences(stack', r) = Occurrences(stack, r) + One(n, r)
  BY <1>1, <1>4, AppendIs, OccAppend
<1>6. FrameOK(frame', stack')
  <2>1. FrameOK(frame, stack) /\ frame.top \in Nat /\ frame.top <= Len(stack)
    BY <1>1, Shapes DEF FrameOK
  <2>2. frame.top <= Len(stack')
    BY <1>5, <2>1
  <2> QED
    BY <1>1, <2>1, <2>2, FrameStays
<1>7. ASSUME NEW r \in Pos PROVE Count(heap', r) = Total(heap', pads', stack', frame', todo', r)
  <2>1. Holds(heap', r) = Holds(heap, r) /\ Count(heap', r) = Count(heap, r) + One(n, r)
    <3>1. Holds(heap', r) = Holds(heap, r) + Occurrences(c.items, r) /\ Occurrences(c.items, r) = 0
      BY <1>2, <1>3, Idle DEF Added
    <3>2. Count(heap', r) = (IF r = n THEN c.refcnt ELSE Count(heap, r)) /\ (r = n => Count(heap, r) = 0)
      BY <1>3 DEF Added
    <3> QED
      BY <1>2, <3>1, <3>2, Counts DEF One, Summed
  <2>2. Total(heap', pads', stack', frame', todo', r)
          = Occurrences(pads.outer, r) + Occurrences(pads.inner, r) + Occurrences(stack', r)
              + (One(frame.cur, r) + One(frame.of, r)) + Occurrences(todo, Release(r)) + Holds(heap', r)
    BY <1>1 DEF Total
  <2>3. Occurrences(stack', r) = Occurrences(stack, r) + One(n, r)
    BY <1>5
  <2> QED
    BY <2>1, <2>2, <2>3, Counts DEF Summed
<1>8. HeapOK(heap') /\ TodoOK(heap', todo') /\ Guarded(todo', stack', frame') /\ pads' \in [Pads -> Seq(Nat)]
      /\ mode' \in {"run", "aborted"}
  BY <1>1, <1>3, Idle DEF Added, Shaped
<1> QED
  BY <1>5, <1>6, <1>7, <1>8, Keeps

\* OP_MAKE_ARRAY and Object#bless: the operand moves into a new value.
Wraps(c) ==
  /\ Own /\ todo = << >>
  /\ heap' = Append(heap, c) /\ stack' = Append(Front(stack), Len(heap) + 1)
  /\ pads' = pads /\ frame' = frame /\ todo' = todo /\ mode' = mode

LEMMA WrapKeeps ==
  ASSUME IInv, NEW c \in CellType, CellShape(c), c.items = << Top >>, c.refcnt = 1, Wraps(c)
  PROVE  IInv'
<1> DEFINE n == Len(heap) + 1
           s == Front(stack)
<1>1. Shaped /\ Len(stack) > 0 /\ frame.top <= Len(stack) - 1 /\ frame.top \in Nat
  BY OwnTop DEF IInv, Wraps
<1>2. Added(heap, heap', n, c)
  BY <1>1, Shapes, CellAppend DEF Wraps
<1>3. s \in Seq(Pos) /\ Len(s) = Len(stack) - 1 /\ Len(stack) \in Nat
      /\ \A r : Occurrences(stack, r) = Occurrences(s, r) + One(Top, r) /\ Occurrences(s, r) \in Nat
  BY <1>1, TopIs
<1>4. stack' = Append(s, n) /\ n \in Pos /\ todo = << >> /\ pads' = pads /\ frame' = frame /\ todo' = todo /\ mode' = mode
  BY <1>2 DEF Added, Wraps
<1> HIDE DEF n, s
<1>5. stack' \in Seq(Pos) /\ Len(stack') = Len(s) + 1
      /\ \A r : Occurrences(stack', r) = Occurrences(s, r) + One(n, r)
  <2>1. s \in Seq(Pos) /\ n \in Pos
    BY <1>3, <1>4
  <2>2. Append(s, n) \in Seq(Pos) /\ Len(Append(s, n)) = Len(s) + 1
        /\ \A r : Occurrences(Append(s, n), r) = Occurrences(s, r) + One(n, r)
    BY <2>1, AppendIs, OccAppend
  <2> QED
    BY <1>4, <2>2
<1>6. FrameOK(frame', stack')
  <2>1. FrameOK(frame, stack) /\ frame.top <= Len(stack')
    <3>1. Len(stack') = Len(stack)
      BY <1>3, <1>5
    <3> QED
      BY <1>1, <1>3, <3>1, Shapes
  <2> QED
    BY <1>4, <2>1, FrameStays
<1>7. ASSUME NEW r \in Pos PROVE Count(heap', r) = Total(heap', pads', stack', frame', todo', r)
  <2>1. Holds(heap', r) = Holds(heap, r) + One(Top, r) /\ Count(heap', r) = Count(heap, r) + One(n, r)
    <3>1. Holds(heap', r) = Holds(heap, r) + Occurrences(c.items, r) /\ Occurrences(c.items, r) = One(Top, r)
      BY <1>2, OccOne DEF Added
    <3>2. Count(heap', r) = (IF r = n THEN c.refcnt ELSE Count(heap, r)) /\ (r = n => Count(heap, r) = 0)
      BY <1>2 DEF Added
    <3> QED
      BY <3>1, <3>2, Counts DEF One, Summed
  <2>2. Occurrences(stack, r) = Occurrences(s, r) + One(Top, r) /\ Occurrences(stack', r) = Occurrences(s, r) + One(n, r)
        /\ Occurrences(s, r) \in Nat
    BY <1>3, <1>5
  <2>3. Total(heap', pads', stack', frame', todo', r)
          = Occurrences(pads.outer, r) + Occurrences(pads.inner, r) + Occurrences(stack', r)
              + (One(frame.cur, r) + One(frame.of, r)) + Occurrences(todo, Release(r)) + Holds(heap', r)
    BY <1>4 DEF Total
  <2>4. Summed(r)
    BY Counts
  <2> QED
    BY <2>1, <2>2, <2>3, <2>4 DEF Summed
<1>8. HeapOK(heap') /\ TodoOK(heap', todo') /\ Guarded(todo', stack', frame') /\ pads' \in [Pads -> Seq(Nat)]
      /\ mode' \in {"run", "aborted"}
  BY <1>1, <1>2, <1>4, Idle DEF Added, Shaped
<1> QED
  BY <1>5, <1>6, <1>7, <1>8, Keeps

LEMMA MakeArrayKeeps ==
  ASSUME HeapAssumption, IInv, OP_MAKE_ARRAY
  PROVE  IInv'
<1> DEFINE c == Cell("array", 0, << Top >>, "none")
<1>1. Own /\ todo = << >> /\ heap' = Append(heap, c) /\ stack' = Append(Front(stack), Len(heap) + 1)
      /\ pads' = pads /\ frame' = frame /\ todo' = todo /\ mode' = mode
  BY DEF OP_MAKE_ARRAY, Ready
<1>2. Top \in Pos
  BY <1>1, OwnTop, TopIs DEF IInv
<1>3. c \in CellType /\ CellShape(c) /\ c.items = << Top >> /\ c.refcnt = 1
  BY <1>2 DEF HeapAssumption, Cell, CellType, CellShape
<1> QED
  BY <1>1, <1>3, WrapKeeps DEF Wraps

LEMMA BlessKeeps ==
  ASSUME HeapAssumption, IInv, Bless
  PROVE  IInv'
<1>1. PICK x \in ScriptsFor(Top) :
        /\ Own /\ todo = << >> /\ heap' = Append(heap, Cell("object", 0, << Top >>, x))
        /\ stack' = Append(Front(stack), Len(heap) + 1)
        /\ pads' = pads /\ frame' = frame /\ todo' = todo /\ mode' = mode
  BY DEF Bless, Ready
<1> DEFINE c == Cell("object", 0, << Top >>, x)
<1>2. Top \in Pos
  BY <1>1, OwnTop, TopIs DEF IInv
<1>3. x \in {"none", "quiet", "data", "self"}
  BY DEF ScriptsFor, HeapAssumption
<1>4. c \in CellType /\ CellShape(c) /\ c.items = << Top >> /\ c.refcnt = 1
  BY <1>2, <1>3 DEF HeapAssumption, Cell, CellType, CellShape
<1> QED
  BY <1>1, <1>4, WrapKeeps DEF Wraps

LEMMA ReleaseOne ==
  ASSUME NEW v \in Nat
  PROVE  /\ Releases(<< v >>) \in Seq(Drops)
         /\ \A r \in Pos : Occurrences(Releases(<< v >>), Release(r)) = One(v, r)
<1>1. << v >> \in Seq(Nat)
  OBVIOUS
<1> QED
  BY <1>1, ReleasesAre, OccOne

\* After an op that leaves only releases to do.
LEMMA DropsGuarded ==
  ASSUME NEW ts \in Seq(Drops), NEW s, NEW f
  PROVE  Guarded(ts, s, f)
<1>1. \A i \in DOMAIN ts : ts[i].do = "release"
  BY DropsAre
<1> QED
  BY <1>1, GuardOps

LEMMA GetVariableKeeps ==
  ASSUME IInv, GetVariable
  PROVE  IInv'
<1>1. PICK p \in DOMAIN pads : \E i \in DOMAIN pads[p] :
        /\ todo = << >> /\ pads[p][i] # Undef /\ Push(pads[p][i])
        /\ pads' = pads /\ frame' = frame /\ todo' = todo /\ mode' = mode
  BY DEF GetVariable, Ready
<1>2. PICK i \in DOMAIN pads[p] :
        /\ todo = << >> /\ pads[p][i] # Undef /\ Push(pads[p][i])
        /\ pads' = pads /\ frame' = frame /\ todo' = todo /\ mode' = mode
  BY <1>1
<1> DEFINE v == pads[p][i]
<1>3. Shaped /\ p \in Pads /\ v \in Pos /\ v \in Nat
  BY <1>2, Shapes DEF IInv, Undef, Pos
<1>4. Alive(v)
  BY <1>3, OwnedLive
<1>5. heap' = Retain(heap, v) /\ stack' = Append(stack, v)
  BY <1>2 DEF Push
<1> HIDE DEF v
<1>6. Retained(heap, heap', v)
  <2>1. HeapOK(heap) /\ v \in DOMAIN heap /\ heap[v].live
    BY <1>3, <1>4, Shapes DEF Alive
  <2> QED
    BY <1>3, <1>5, <2>1, RetainIs
<1>7. stack' \in Seq(Pos) /\ Len(stack') = Len(stack) + 1 /\ Len(stack) \in Nat
      /\ \A r : Occurrences(stack', r) = Occurrences(stack, r) + One(v, r)
  <2>1. stack \in Seq(Pos)
    BY <1>3, Shapes
  <2> QED
    BY <1>3, <1>5, <2>1, AppendIs, OccAppend
<1>8. FrameOK(frame', stack')
  <2>1. FrameOK(frame, stack) /\ frame.top \in Nat /\ frame.top <= Len(stack)
    BY <1>3, Shapes DEF FrameOK
  <2>2. frame.top <= Len(stack')
    BY <1>7, <2>1
  <2> QED
    BY <1>2, <2>1, <2>2, FrameStays
<1>9. ASSUME NEW r \in Pos PROVE Count(heap', r) = Total(heap', pads', stack', frame', todo', r)
  <2>1. Holds(heap', r) = Holds(heap, r) /\ Count(heap', r) = Count(heap, r) + One(v, r)
    BY <1>6 DEF Retained
  <2>2. Total(heap', pads', stack', frame', todo', r)
          = Occurrences(pads.outer, r) + Occurrences(pads.inner, r) + Occurrences(stack', r)
              + (One(frame.cur, r) + One(frame.of, r)) + Occurrences(todo, Release(r)) + Holds(heap', r)
    BY <1>2 DEF Total
  <2>3. Occurrences(stack', r) = Occurrences(stack, r) + One(v, r)
    BY <1>7
  <2> QED
    BY <2>1, <2>2, <2>3, Counts DEF Summed
<1>10. HeapOK(heap') /\ TodoOK(heap', todo') /\ Guarded(todo', stack', frame') /\ pads' \in [Pads -> Seq(Nat)]
       /\ mode' \in {"run", "aborted"}
  BY <1>2, <1>3, <1>6, Idle DEF Retained, Shaped
<1> QED
  BY <1>7, <1>8, <1>9, <1>10, Keeps

LEMMA SetVariableKeeps ==
  ASSUME HeapAssumption, IInv, SetVariable
  PROVE  IInv'
<1>1. PICK p \in DOMAIN pads, i \in 1..Outer :
        /\ todo = << >> /\ Own /\ todo' = Set(p, i, Top)
        /\ heap' = heap /\ pads' = pads /\ stack' = stack /\ frame' = frame /\ mode' = mode
  BY DEF SetVariable, Ready
<1>2. Shaped /\ p \in Pads /\ i \in Pos /\ Len(stack) > 0
  BY <1>1, Shapes, OwnTop DEF IInv, Pos, HeapAssumption
<1>3. Top \in Pos /\ Top \in Nat /\ Top \in Range(stack)
  BY <1>2, TopIs DEF Pos
<1>4. Plain(todo', Top)
  <2>1. pads \in [Pads -> Seq(Nat)]
    BY <1>2, Shapes
  <2> QED
    BY <1>1, <1>2, <1>3, <2>1, SetIs
<1>5. TodoOK(heap', todo') /\ \A r \in Pos : Occurrences(todo', Release(r)) = 0
  BY <1>4, PlainIs
<1>6. Guarded(todo', stack', frame')
  <2>1. \A j \in DOMAIN todo' : /\ todo'[j].do \in {"release", "shift", "shrink", "insert"}
                                /\ todo'[j].do = "insert" /\ todo'[j].of # 0 => todo'[j].of \in Range(stack)
    BY <1>3, <1>4 DEF Plain
  <2> QED
    BY <1>1, <2>1, GuardOps
<1>7. ASSUME NEW r \in Pos PROVE Count(heap', r) = Total(heap', pads', stack', frame', todo', r)
  <2>1. Total(heap', pads', stack', frame', todo', r)
          = Occurrences(pads.outer, r) + Occurrences(pads.inner, r) + Occurrences(stack, r)
              + (One(frame.cur, r) + One(frame.of, r)) + Occurrences(todo', Release(r)) + Holds(heap, r)
    BY <1>1 DEF Total
  <2>2. Occurrences(todo', Release(r)) = 0 /\ Occurrences(todo, Release(r)) = 0 /\ Count(heap', r) = Count(heap, r)
    BY <1>1, <1>5, Idle
  <2> QED
    BY <2>1, <2>2, Counts DEF Summed
<1>8. HeapOK(heap') /\ pads' \in [Pads -> Seq(Nat)] /\ stack' \in Seq(Pos) /\ FrameOK(frame', stack')
      /\ mode' \in {"run", "aborted"}
  BY <1>1, <1>2 DEF Shaped
<1> QED
  BY <1>5, <1>6, <1>7, <1>8, Keeps

LEMMA PopTopKeeps ==
  ASSUME IInv, OP_POP_TOP
  PROVE  IInv'
<1>1. /\ todo = << >> /\ Own /\ stack' = Front(stack) /\ todo' = Releases(<< Top >>)
      /\ heap' = heap /\ pads' = pads /\ frame' = frame /\ mode' = mode
  BY DEF OP_POP_TOP, Ready
<1>2. Shaped /\ Len(stack) > 0 /\ frame.top <= Len(stack) - 1 /\ frame.top \in Nat
  BY <1>1, OwnTop DEF IInv
<1>3. Top \in Pos /\ Top \in Nat /\ Front(stack) \in Seq(Pos) /\ Len(Front(stack)) = Len(stack) - 1
      /\ \A r : Occurrences(stack, r) = Occurrences(Front(stack), r) + One(Top, r) /\ Occurrences(Front(stack), r) \in Nat
  BY <1>2, TopIs DEF Pos
<1>4. todo' \in Seq(Drops) /\ \A r \in Pos : Occurrences(todo', Release(r)) = One(Top, r)
  BY <1>1, <1>3, ReleaseOne
<1>5. TodoOK(heap', todo') /\ Guarded(todo', stack', frame')
  BY <1>4, DropsOK, DropsGuarded
<1>6. FrameOK(frame', stack')
  <2>1. FrameOK(frame, stack) /\ frame.top <= Len(stack')
    BY <1>1, <1>2, <1>3, Shapes
  <2> QED
    BY <1>1, <2>1, FrameStays
<1>7. ASSUME NEW r \in Pos PROVE Count(heap', r) = Total(heap', pads', stack', frame', todo', r)
  <2>1. Total(heap', pads', stack', frame', todo', r)
          = Occurrences(pads.outer, r) + Occurrences(pads.inner, r) + Occurrences(Front(stack), r)
              + (One(frame.cur, r) + One(frame.of, r)) + Occurrences(todo', Release(r)) + Holds(heap, r)
    BY <1>1 DEF Total
  <2>2. Occurrences(todo', Release(r)) = One(Top, r) /\ Occurrences(todo, Release(r)) = 0 /\ Count(heap', r) = Count(heap, r)
    BY <1>1, <1>4, Idle
  <2>3. Occurrences(stack, r) = Occurrences(Front(stack), r) + One(Top, r) /\ Occurrences(Front(stack), r) \in Nat
    BY <1>3
  <2> QED
    BY <2>1, <2>2, <2>3, Counts DEF Summed
<1>8. HeapOK(heap') /\ pads' \in [Pads -> Seq(Nat)] /\ stack' \in Seq(Pos) /\ mode' \in {"run", "aborted"}
  BY <1>1, <1>2, <1>3 DEF Shaped
<1> QED
  BY <1>5, <1>6, <1>7, <1>8, Keeps

\* g is h with another number in a cell.
Renumbered(h, g) ==
  /\ HeapOK(g) /\ DOMAIN g = DOMAIN h /\ Len(g) = Len(h) /\ Evolves(h, g)
  /\ \A r \in Pos : Holds(g, r) = Holds(h, r) /\ Count(g, r) = Count(h, r)

LEMMA NumberPut ==
  ASSUME NEW h, HeapOK(h), NEW a \in DOMAIN h, NEW k \in 0..MaxInt, NEW g, g = [h EXCEPT ![a].n = k]
  PROVE  Renumbered(h, g)
<1> DEFINE c == [h[a] EXCEPT !.n = k]
<1>1. h[a] \in CellType /\ CellShape(h[a]) /\ h \in Seq(CellType)
  BY HeapIs
<1>2. c \in CellType /\ c.items = h[a].items /\ c.refcnt = h[a].refcnt /\ c.type = h[a].type
      /\ c.destroyed = h[a].destroyed /\ c.live = h[a].live /\ c.runs = h[a].runs /\ c.script = h[a].script
  BY <1>1 DEF CellType
<1>3. g = [h EXCEPT ![a] = c]
  OBVIOUS
<1> HIDE DEF c
<1>4. CellShape(c)
  BY <1>1, <1>2 DEF CellShape
<1>5. Put(h, g, a, c)
  BY <1>2, <1>3, <1>4, CellPut
<1>6. Evolves(h, g)
  BY <1>2, <1>5 DEF Put, Evolves
<1>7. ASSUME NEW r \in Pos PROVE Holds(g, r) = Holds(h, r) /\ Count(g, r) = Count(h, r)
  <2>1. Holds(g, r) + Occurrences(h[a].items, r) = Holds(h, r) + Occurrences(c.items, r)
        /\ Count(g, r) = IF r = a THEN c.refcnt ELSE Count(h, r)
    BY <1>5 DEF Put
  <2>2. Holds(g, r) \in Nat /\ Holds(h, r) \in Nat
    <3>1. g \in Seq(CellType)
      BY <1>5 DEF Put, HeapOK
    <3> QED
      BY <1>1, <3>1, HeldFinite
  <2>3. Occurrences(c.items, r) \in Nat
    BY <1>2, PlacesFinite DEF CellType
  <2> QED
    BY <1>2, <2>1, <2>2, <2>3 DEF Count
<1> QED
  BY <1>5, <1>6, <1>7 DEF Put, Renumbered

\* g is h with other elements in the array a.
Refilled(h, g, a, items) ==
  /\ HeapOK(g) /\ DOMAIN g = DOMAIN h /\ Len(g) = Len(h) /\ Evolves(h, g)
  /\ \A r \in Pos : /\ Holds(g, r) + Occurrences(h[a].items, r) = Holds(h, r) + Occurrences(items, r)
                    /\ Count(g, r) = Count(h, r)

LEMMA ItemsPut ==
  ASSUME NEW h, HeapOK(h), NEW a \in DOMAIN h, h[a].live, h[a].type = "array",
         NEW items \in Seq(Pos), Len(items) <= 2, NEW g, g = [h EXCEPT ![a].items = items]
  PROVE  Refilled(h, g, a, items)
<1> DEFINE c == [h[a] EXCEPT !.items = items]
<1>1. h[a] \in CellType /\ CellShape(h[a]) /\ h \in Seq(CellType)
  BY HeapIs
<1>2. c \in CellType /\ c.items = items /\ c.refcnt = h[a].refcnt /\ c.type = h[a].type
      /\ c.destroyed = h[a].destroyed /\ c.live = h[a].live /\ c.runs = h[a].runs /\ c.script = h[a].script
  BY <1>1 DEF CellType
<1>3. g = [h EXCEPT ![a] = c]
  OBVIOUS
<1> HIDE DEF c
<1>4. CellShape(c)
  BY <1>1, <1>2 DEF CellShape
<1>5. Put(h, g, a, c)
  BY <1>2, <1>3, <1>4, CellPut
<1>6. Evolves(h, g)
  BY <1>2, <1>5 DEF Put, Evolves
<1>7. ASSUME NEW r \in Pos
      PROVE  /\ Holds(g, r) + Occurrences(h[a].items, r) = Holds(h, r) + Occurrences(items, r)
             /\ Count(g, r) = Count(h, r)
  BY <1>2, <1>5 DEF Put, Count
<1> QED
  BY <1>5, <1>6, <1>7 DEF Put, Refilled

LEMMA ReleaseTask ==
  ASSUME NEW v \in Pos
  PROVE  /\ << Release(v) >> \in Seq(Drops)
         /\ \A r \in Pos : Occurrences(<< Release(v) >>, Release(r)) = One(v, r)
<1>1. Release(v) \in Drops
  BY DEF Drops
<1>2. \A r \in Pos : Occurrences(<< Release(v) >>, Release(r)) = One(Release(v), Release(r))
  BY OccOne
<1> QED
  BY <1>1, <1>2, DropsAre

LEMMA PreIncrementKeeps ==
  ASSUME HeapAssumption, IInv, PreIncrement
  PROVE  IInv'
<1>1. /\ todo = << >> /\ Own /\ heap[Top].n < MaxInt /\ heap' = [heap EXCEPT ![Top].n = @ + 1]
      /\ pads' = pads /\ stack' = stack /\ frame' = frame /\ todo' = todo /\ mode' = mode
  BY DEF PreIncrement, Ready
<1>2. Shaped /\ Top \in DOMAIN heap /\ heap[Top] \in CellType
  BY <1>1, OwnTop, TopIs DEF IInv
<1> DEFINE k == heap[Top].n + 1
<1>3. k \in 0..MaxInt
  BY <1>1, <1>2 DEF CellType, HeapAssumption
<1>4. heap' = [heap EXCEPT ![Top].n = k]
  BY <1>1
<1> HIDE DEF k
<1>5. Renumbered(heap, heap')
  BY <1>2, <1>3, <1>4, Shapes, NumberPut
<1>6. ASSUME NEW r \in Pos PROVE Count(heap', r) = Total(heap', pads', stack', frame', todo', r)
  <2>1. Total(heap', pads', stack', frame', todo', r)
          = Occurrences(pads.outer, r) + Occurrences(pads.inner, r) + Occurrences(stack, r)
              + (One(frame.cur, r) + One(frame.of, r)) + Occurrences(todo, Release(r)) + Holds(heap, r)
    BY <1>1, <1>5 DEF Total, Renumbered
  <2> QED
    BY <1>5, <2>1, Counts DEF Summed, Renumbered
<1>7. HeapOK(heap') /\ TodoOK(heap', todo') /\ pads' \in [Pads -> Seq(Nat)] /\ stack' \in Seq(Pos) /\ FrameOK(frame', stack')
      /\ mode' \in {"run", "aborted"} /\ Guarded(todo', stack', frame')
  BY <1>1, <1>2, <1>5, Idle DEF Shaped, Renumbered
<1> QED
  BY <1>6, <1>7, Keeps

LEMMA PushKeeps ==
  ASSUME HeapAssumption, IInv, av_push
  PROVE  IInv'
<1> DEFINE a == stack[Len(stack) - 1]
           items == Append(heap[a].items, Top)
<1>1. /\ todo = << >> /\ Len(stack) >= frame.top + 2 /\ heap[a].type = "array" /\ Len(heap[a].items) < 2
      /\ heap' = [heap EXCEPT ![a].items = items] /\ stack' = Front(stack)
      /\ pads' = pads /\ frame' = frame /\ todo' = todo /\ mode' = mode
  BY DEF av_push, Ready
<1>2. Shaped /\ frame.top \in Nat /\ stack \in Seq(Pos) /\ Len(stack) \in Nat /\ Len(stack) > 0
      /\ FrameOK(frame, stack) /\ frame.top <= Len(stack) - 1
  <2>1. Shaped /\ frame.top \in Nat /\ stack \in Seq(Pos) /\ FrameOK(frame, stack)
    BY Shapes DEF IInv
  <2>2. Len(stack) \in Nat
    BY <2>1
  <2>3. Len(stack) >= frame.top + 2
    BY <1>1
  <2> QED
    BY <2>1, <2>2, <2>3
<1>3. Top \in Pos /\ Front(stack) \in Seq(Pos) /\ Len(Front(stack)) = Len(stack) - 1
      /\ \A r : Occurrences(stack, r) = Occurrences(Front(stack), r) + One(Top, r) /\ Occurrences(Front(stack), r) \in Nat
  BY <1>2, TopIs
<1>4. a \in Pos /\ Alive(a)
  <2>1. Len(stack) - 1 \in DOMAIN stack
    BY <1>1, <1>2
  <2>2. a \in Pos
    BY <1>2, <2>1
  <2> QED
    BY <2>1, <2>2, OwnedLive
<1> HIDE DEF a
<1>5. a \in DOMAIN heap /\ heap[a].live /\ heap[a] \in CellType /\ HeapOK(heap)
  BY <1>2, <1>4, Shapes DEF Alive
<1>6. heap[a].items \in Seq(Pos)
  BY <1>5 DEF CellType
<1>7. items \in Seq(Pos) /\ Len(items) <= 2
      /\ \A r : Occurrences(items, r) = Occurrences(heap[a].items, r) + One(Top, r) /\ Occurrences(heap[a].items, r) \in Nat
  <2>1. Len(items) = Len(heap[a].items) + 1 /\ Len(heap[a].items) \in Nat
    BY <1>3, <1>6, AppendIs
  <2>2. items \in Seq(Pos)
    BY <1>3, <1>6, AppendIs
  <2> QED
    <3>1. \A r : Occurrences(items, r) = Occurrences(heap[a].items, r) + One(Top, r)
      BY <1>3, <1>6, OccAppend
    <3>2. \A r : Occurrences(heap[a].items, r) \in Nat
      BY <1>6, PlacesFinite
    <3>3. Len(items) <= 2
      <4> HIDE DEF items
      <4> QED
        BY <1>1, <2>1
    <3> QED
      BY <2>2, <3>1, <3>2, <3>3
<1> HIDE DEF items
<1>8. Refilled(heap, heap', a, items)
  BY <1>1, <1>5, <1>7, ItemsPut
<1>9. FrameOK(frame', stack')
  <2>1. frame.top <= Len(stack')
    BY <1>1, <1>2, <1>3
  <2> QED
    BY <1>1, <1>2, <2>1, FrameStays
<1>10. ASSUME NEW r \in Pos PROVE Count(heap', r) = Total(heap', pads', stack', frame', todo', r)
  <2>1. Total(heap', pads', stack', frame', todo', r)
          = Occurrences(pads.outer, r) + Occurrences(pads.inner, r) + Occurrences(Front(stack), r)
              + (One(frame.cur, r) + One(frame.of, r)) + Occurrences(todo, Release(r)) + Holds(heap', r)
    BY <1>1 DEF Total
  <2>2. Holds(heap', r) + Occurrences(heap[a].items, r) = Holds(heap, r) + Occurrences(items, r)
        /\ Count(heap', r) = Count(heap, r)
    BY <1>8 DEF Refilled
  <2>3. Occurrences(items, r) = Occurrences(heap[a].items, r) + One(Top, r) /\ Occurrences(heap[a].items, r) \in Nat
    BY <1>7
  <2>4. Occurrences(stack, r) = Occurrences(Front(stack), r) + One(Top, r) /\ Occurrences(Front(stack), r) \in Nat
    BY <1>3
  <2>5. Holds(heap', r) \in Nat
    <3>1. heap' \in Seq(CellType)
      BY <1>8 DEF Refilled, HeapOK
    <3> QED
      BY <3>1, HeldFinite
  <2>6. Holds(heap', r) = Holds(heap, r) + One(Top, r)
    <3>1. Holds(heap, r) \in Nat /\ One(Top, r) \in Nat
      BY Counts DEF Summed
    <3> QED
      BY <2>2, <2>3, <2>5, <3>1
  <2> QED
    BY <2>1, <2>2, <2>4, <2>6, Counts DEF Summed
<1>11. HeapOK(heap') /\ TodoOK(heap', todo') /\ Guarded(todo', stack', frame') /\ pads' \in [Pads -> Seq(Nat)]
       /\ stack' \in Seq(Pos) /\ mode' \in {"run", "aborted"}
  BY <1>1, <1>2, <1>3, <1>8, Idle DEF Refilled, Shaped
<1> QED
  BY <1>9, <1>10, <1>11, Keeps

LEMMA PopKeeps ==
  ASSUME HeapAssumption, IInv, av_pop
  PROVE  IInv'
<1> DEFINE a == Top
           old == heap[a].items
           items == Front(old)
           v == Last(old)
           s == Front(stack)
<1>1. /\ todo = << >> /\ Own /\ heap[a].type = "array" /\ old # << >>
      /\ heap' = [heap EXCEPT ![a].items = items] /\ stack' = Append(s, v) /\ todo' = << Release(a) >>
      /\ pads' = pads /\ frame' = frame /\ mode' = mode
  BY DEF av_pop, Ready
<1>2. Shaped /\ Len(stack) > 0 /\ frame.top <= Len(stack) - 1 /\ frame.top \in Nat
  BY <1>1, OwnTop DEF IInv
<1>3. /\ a \in Pos /\ a \in DOMAIN heap /\ heap[a].live /\ heap[a] \in CellType /\ CellShape(heap[a])
      /\ s \in Seq(Pos) /\ Len(s) = Len(stack) - 1 /\ Len(stack) \in Nat
      /\ \A r : Occurrences(stack, r) = Occurrences(s, r) + One(a, r) /\ Occurrences(s, r) \in Nat
  BY <1>2, TopIs, Shapes, HeapIs DEF Alive
<1>4. old \in Seq(Pos) /\ Len(old) <= 2 /\ Len(old) \in Nat
  BY <1>3 DEF CellType, CellShape
<1> HIDE DEF a, old, s
<1>5. items \in Seq(Pos) /\ Len(items) = Len(old) - 1 /\ v \in Pos
      /\ \A r : Occurrences(old, r) = Occurrences(items, r) + One(v, r)
  BY <1>1, <1>4, OccFront
<1>6. \A r : Occurrences(items, r) \in Nat /\ One(v, r) \in Nat
  BY <1>5, PlacesFinite DEF One
<1> HIDE DEF items, v
<1>7. Refilled(heap, heap', a, items)
  <2>1. Len(items) <= 2
    BY <1>4, <1>5
  <2>2. HeapOK(heap)
    BY <1>2, Shapes
  <2> QED
    BY <1>1, <1>3, <1>5, <2>1, <2>2, ItemsPut
<1>8. stack' \in Seq(Pos) /\ Len(stack') = Len(s) + 1 /\ \A r : Occurrences(stack', r) = Occurrences(s, r) + One(v, r)
  <2>1. s \in Seq(Pos)
    BY <1>3
  <2>2. Append(s, v) \in Seq(Pos) /\ Len(Append(s, v)) = Len(s) + 1
        /\ \A r : Occurrences(Append(s, v), r) = Occurrences(s, r) + One(v, r)
    BY <1>5, <2>1, AppendIs, OccAppend
  <2> QED
    BY <1>1, <2>2
<1>9. todo' \in Seq(Drops) /\ \A r \in Pos : Occurrences(todo', Release(r)) = One(a, r)
  BY <1>1, <1>3, ReleaseTask
<1>10. FrameOK(frame', stack')
  <2>1. frame.top <= Len(stack')
    BY <1>2, <1>3, <1>8
  <2>2. FrameOK(frame, stack)
    BY <1>2, Shapes
  <2> QED
    BY <1>1, <2>1, <2>2, FrameStays
<1>11. ASSUME NEW r \in Pos PROVE Count(heap', r) = Total(heap', pads', stack', frame', todo', r)
  <2>1. Total(heap', pads', stack', frame', todo', r)
          = Occurrences(pads.outer, r) + Occurrences(pads.inner, r) + Occurrences(stack', r)
              + (One(frame.cur, r) + One(frame.of, r)) + Occurrences(todo', Release(r)) + Holds(heap', r)
    BY <1>1 DEF Total
  <2>2. Holds(heap', r) + One(v, r) = Holds(heap, r) /\ Count(heap', r) = Count(heap, r)
    <3>1. Holds(heap', r) + Occurrences(old, r) = Holds(heap, r) + Occurrences(items, r)
          /\ Count(heap', r) = Count(heap, r)
      BY <1>7 DEF Refilled, old
    <3>2. Holds(heap', r) \in Nat
      <4>1. heap' \in Seq(CellType)
        BY <1>7 DEF Refilled, HeapOK
      <4> QED
        BY <4>1, HeldFinite
    <3>3. Holds(heap, r) \in Nat
      BY Counts DEF Summed
    <3>4. Occurrences(old, r) = Occurrences(items, r) + One(v, r) /\ Occurrences(items, r) \in Nat /\ One(v, r) \in Nat
      BY <1>5, <1>6
    <3> QED
      BY <3>1, <3>2, <3>3, <3>4
  <2>3. Occurrences(stack, r) = Occurrences(s, r) + One(a, r) /\ Occurrences(stack', r) = Occurrences(s, r) + One(v, r)
        /\ Occurrences(s, r) \in Nat
    BY <1>3, <1>8
  <2>4. Occurrences(todo', Release(r)) = One(a, r) /\ Occurrences(todo, Release(r)) = 0
    BY <1>1, <1>9, Idle
  <2>5. Holds(heap', r) \in Nat
    <3>1. heap' \in Seq(CellType)
      BY <1>7 DEF Refilled, HeapOK
    <3> QED
      BY <3>1, HeldFinite
  <2> QED
    BY <2>1, <2>2, <2>3, <2>4, <2>5, Counts DEF Summed
<1>12. HeapOK(heap') /\ TodoOK(heap', todo') /\ Guarded(todo', stack', frame') /\ pads' \in [Pads -> Seq(Nat)]
       /\ mode' \in {"run", "aborted"}
  BY <1>1, <1>2, <1>7, <1>9, DropsOK, DropsGuarded DEF Refilled, Shaped
<1> QED
  BY <1>8, <1>10, <1>11, <1>12, Keeps

LEMMA PostIncrementKeeps ==
  ASSUME HeapAssumption, IInv, PostIncrement
  PROVE  IInv'
<1> DEFINE a == Top
           k == heap[a].n + 1
           h == [heap EXCEPT ![a].n = k]
           c == Cell("int", heap[a].n, << >>, "none")
           n == Len(heap) + 1
           s == Front(stack)
<1>1. /\ todo = << >> /\ Own /\ heap[a].n < MaxInt
      /\ heap' = Append(h, c) /\ stack' = Append(s, n) /\ todo' = << Release(a) >>
      /\ pads' = pads /\ frame' = frame /\ mode' = mode
  BY DEF PostIncrement, Ready
<1>2. Shaped /\ Len(stack) > 0 /\ frame.top <= Len(stack) - 1 /\ frame.top \in Nat
  BY <1>1, OwnTop DEF IInv
<1>3. /\ a \in Pos /\ a \in DOMAIN heap /\ heap[a] \in CellType /\ HeapOK(heap)
      /\ s \in Seq(Pos) /\ Len(s) = Len(stack) - 1 /\ Len(stack) \in Nat
      /\ \A r : Occurrences(stack, r) = Occurrences(s, r) + One(a, r) /\ Occurrences(s, r) \in Nat
  BY <1>2, TopIs, Shapes
<1>4. k \in 0..MaxInt /\ heap[a].n \in 0..MaxInt
  BY <1>1, <1>3 DEF CellType, HeapAssumption
<1>5. c \in CellType /\ CellShape(c) /\ c.items = << >> /\ c.refcnt = 1
  BY <1>4 DEF Cell, CellType, CellShape
<1> HIDE DEF a, k, c, s
<1>6. Renumbered(heap, h)
  BY <1>3, <1>4, NumberPut
<1> HIDE DEF h
<1>7. Added(h, heap', n, c)
  <2>1. HeapOK(h) /\ n = Len(h) + 1
    BY <1>6 DEF Renumbered
  <2> HIDE DEF n
  <2> QED
    BY <1>1, <1>5, <2>1, CellAppend
<1> HIDE DEF n
<1>8. stack' \in Seq(Pos) /\ Len(stack') = Len(s) + 1 /\ \A r : Occurrences(stack', r) = Occurrences(s, r) + One(n, r)
  <2>1. s \in Seq(Pos) /\ n \in Pos
    BY <1>3, <1>7 DEF Added
  <2>2. Append(s, n) \in Seq(Pos) /\ Len(Append(s, n)) = Len(s) + 1
        /\ \A r : Occurrences(Append(s, n), r) = Occurrences(s, r) + One(n, r)
    BY <2>1, AppendIs, OccAppend
  <2> QED
    BY <1>1, <2>2
<1>9. todo' \in Seq(Drops) /\ \A r \in Pos : Occurrences(todo', Release(r)) = One(a, r)
  BY <1>1, <1>3, ReleaseTask
<1>10. FrameOK(frame', stack')
  <2>1. frame.top <= Len(stack')
    BY <1>2, <1>3, <1>8
  <2>2. FrameOK(frame, stack)
    BY <1>2, Shapes
  <2> QED
    BY <1>1, <2>1, <2>2, FrameStays
<1>11. ASSUME NEW r \in Pos PROVE Count(heap', r) = Total(heap', pads', stack', frame', todo', r)
  <2>1. Total(heap', pads', stack', frame', todo', r)
          = Occurrences(pads.outer, r) + Occurrences(pads.inner, r) + Occurrences(stack', r)
              + (One(frame.cur, r) + One(frame.of, r)) + Occurrences(todo', Release(r)) + Holds(heap', r)
    BY <1>1 DEF Total
  <2>2. Holds(heap', r) = Holds(heap, r) /\ Count(heap', r) = Count(heap, r) + One(n, r)
    <3>1. Holds(heap', r) = Holds(h, r) + Occurrences(c.items, r) /\ Occurrences(c.items, r) = 0
      BY <1>5, <1>7, Idle DEF Added
    <3>2. Count(heap', r) = (IF r = n THEN c.refcnt ELSE Count(h, r)) /\ (r = n => Count(h, r) = 0)
      BY <1>7 DEF Added
    <3>3. Holds(h, r) = Holds(heap, r) /\ Count(h, r) = Count(heap, r)
      BY <1>6 DEF Renumbered
    <3> QED
      BY <1>5, <3>1, <3>2, <3>3, Counts DEF One, Summed
  <2>3. Occurrences(stack, r) = Occurrences(s, r) + One(a, r) /\ Occurrences(stack', r) = Occurrences(s, r) + One(n, r)
        /\ Occurrences(s, r) \in Nat
    BY <1>3, <1>8
  <2>4. Occurrences(todo', Release(r)) = One(a, r) /\ Occurrences(todo, Release(r)) = 0
    BY <1>1, <1>9, Idle
  <2> QED
    BY <2>1, <2>2, <2>3, <2>4, Counts DEF Summed
<1>12. HeapOK(heap') /\ TodoOK(heap', todo') /\ Guarded(todo', stack', frame') /\ pads' \in [Pads -> Seq(Nat)]
       /\ mode' \in {"run", "aborted"}
  BY <1>1, <1>2, <1>7, <1>9, DropsOK, DropsGuarded DEF Added, Shaped
<1> QED
  BY <1>8, <1>10, <1>11, <1>12, Keeps

LEMMA EnterKeeps ==
  ASSUME IInv, OP_ENTER
  PROVE  IInv'
<1>1. /\ todo = << >> /\ frame = NoFrame /\ frame' = [NoFrame EXCEPT !.kind = "block", !.top = Len(stack)]
      /\ heap' = heap /\ pads' = pads /\ stack' = stack /\ todo' = todo /\ mode' = mode
  BY DEF OP_ENTER, Ready
<1>2. Shaped /\ Len(stack) \in Nat
  BY Shapes DEF IInv
<1>3. frame' \in FrameType /\ frame'.kind = "block" /\ frame'.top = Len(stack) /\ frame'.of = frame.of /\ frame'.cur = frame.cur
  BY <1>1, <1>2 DEF NoFrame, FrameType, Undef
<1>4. FrameOK(frame', stack')
  BY <1>1, <1>2, <1>3 DEF FrameOK
<1>5. ASSUME NEW r \in Pos PROVE Count(heap', r) = Total(heap', pads', stack', frame', todo', r)
  <2>1. Total(heap', pads', stack', frame', todo', r)
          = Occurrences(pads.outer, r) + Occurrences(pads.inner, r) + Occurrences(stack, r)
              + (One(frame.cur, r) + One(frame.of, r)) + Occurrences(todo, Release(r)) + Holds(heap, r)
    BY <1>1, <1>3 DEF Total
  <2> QED
    BY <1>1, <2>1, Counts DEF Summed
<1>6. HeapOK(heap') /\ TodoOK(heap', todo') /\ pads' \in [Pads -> Seq(Nat)] /\ stack' \in Seq(Pos)
      /\ mode' \in {"run", "aborted"} /\ Guarded(todo', stack', frame')
  BY <1>1, <1>2, Idle DEF Shaped
<1> QED
  BY <1>4, <1>5, <1>6, Keeps

LEMMA EnterForeachKeeps ==
  ASSUME IInv, OP_ENTER_FOREACH
  PROVE  IInv'
<1> DEFINE k == IF heap[Top].type = "int" THEN 1 ELSE 0
           s == Front(stack)
<1>1. /\ todo = << >> /\ frame = NoFrame /\ stack # << >> /\ stack' = s
      /\ frame' = [kind |-> "foreach", top |-> Len(stack) - 1, cur |-> Undef, of |-> Top, counter |-> k]
      /\ heap' = heap /\ pads' = pads /\ todo' = todo /\ mode' = mode
  BY DEF OP_ENTER_FOREACH, Ready
<1>2. Shaped /\ Len(stack) > 0
  <2>1. stack \in Seq(Pos)
    BY Shapes DEF IInv
  <2>2. Len(stack) \in Nat /\ Len(stack) # 0
    BY <1>1, <2>1
  <2> QED
    BY <2>2 DEF IInv
<1>3. Top \in Pos /\ s \in Seq(Pos) /\ Len(s) = Len(stack) - 1 /\ Len(stack) \in Nat
      /\ \A r : Occurrences(stack, r) = Occurrences(s, r) + One(Top, r) /\ Occurrences(s, r) \in Nat
  BY <1>2, TopIs
<1>4. k \in Nat
  OBVIOUS
<1> HIDE DEF k, s
<1>5. frame' \in FrameType /\ frame'.kind = "foreach" /\ frame'.top = Len(stack) - 1 /\ frame'.of = Top /\ frame'.cur = 0
  BY <1>1, <1>2, <1>3, <1>4 DEF FrameType, Undef, Pos
<1>6. FrameOK(frame', stack')
  BY <1>1, <1>3, <1>5 DEF FrameOK, Pos
<1>7. ASSUME NEW r \in Pos PROVE Count(heap', r) = Total(heap', pads', stack', frame', todo', r)
  <2>1. Total(heap', pads', stack', frame', todo', r)
          = Occurrences(pads.outer, r) + Occurrences(pads.inner, r) + Occurrences(s, r)
              + (One(0, r) + One(Top, r)) + Occurrences(todo, Release(r)) + Holds(heap, r)
    BY <1>1, <1>5 DEF Total
  <2>2. One(0, r) = 0 /\ One(frame.cur, r) = 0 /\ One(frame.of, r) = 0
    BY <1>1 DEF One, NoFrame, Undef, Pos
  <2>3. Occurrences(stack, r) = Occurrences(s, r) + One(Top, r) /\ Occurrences(s, r) \in Nat
    BY <1>3
  <2>4. Count(heap', r) = Count(heap, r)
    BY <1>1
  <2> QED
    BY <2>1, <2>2, <2>3, <2>4, Counts DEF Summed
<1>8. HeapOK(heap') /\ TodoOK(heap', todo') /\ Guarded(todo', stack', frame') /\ pads' \in [Pads -> Seq(Nat)]
      /\ mode' \in {"run", "aborted"} /\ stack' \in Seq(Pos)
  BY <1>1, <1>2, <1>3, Idle DEF Shaped
<1> QED
  BY <1>6, <1>7, <1>8, Keeps

\* The operands of the frame and those below.
LEMMA LeftIs ==
  ASSUME Shaped
  PROVE  /\ SubSeq(stack, 1, frame.top) \in Seq(Pos) /\ Len(SubSeq(stack, 1, frame.top)) = frame.top
         /\ Left \in Seq(Nat)
         /\ \A r : Occurrences(stack, r) = Occurrences(SubSeq(stack, 1, frame.top), r) + Occurrences(Left, r)
         /\ \A r : Occurrences(SubSeq(stack, 1, frame.top), r) \in Nat /\ Occurrences(Left, r) \in Nat
<1>1. stack \in Seq(Pos) /\ frame.top \in 0..Len(stack)
  <2>1. Len(stack) \in Nat /\ frame.top \in Nat /\ frame.top <= Len(stack)
    BY Shapes DEF FrameOK
  <2> QED
    BY <2>1, Shapes
<1>2. SubSeq(stack, 1, frame.top) \in Seq(Pos) /\ Len(SubSeq(stack, 1, frame.top)) = frame.top /\ Left \in Seq(Pos)
      /\ \A r : Occurrences(stack, r) = Occurrences(SubSeq(stack, 1, frame.top), r) + Occurrences(Left, r)
  BY <1>1, OccCut DEF Left
<1>3. Left \in Seq(Nat)
  BY <1>2 DEF Pos
<1>4. \A r : Occurrences(SubSeq(stack, 1, frame.top), r) \in Nat /\ Occurrences(Left, r) \in Nat
  BY <1>2, PlacesFinite
<1> QED
  BY <1>2, <1>3, <1>4

LEMMA MembersAre ==
  ASSUME Shaped
  PROVE  /\ Members \in Seq(Drops)
         /\ \A r \in Pos : Occurrences(Members, Release(r))
                             = (One(frame.cur, r) + One(frame.of, r)) + Occurrences(pads.inner, r)
<1> DEFINE two == << frame.cur, frame.of >>
           all == two \o pads.inner
<1>1. two \in Seq(Nat) /\ pads.inner \in Seq(Nat)
  BY Shapes
<1>2. \A r : Occurrences(two, r) = One(frame.cur, r) + One(frame.of, r)
  BY OccTwo
<1>3. Members = Releases(all)
  BY DEF Members
<1> HIDE DEF two
<1>4. all \in Seq(Nat) /\ \A r : Occurrences(all, r) = Occurrences(two, r) + Occurrences(pads.inner, r)
  BY <1>1, OccConcat, ConcatIs
<1> HIDE DEF all
<1>5. Releases(all) \in Seq(Drops) /\ \A r \in Pos : Occurrences(Releases(all), Release(r)) = Occurrences(all, r)
  BY <1>4, ReleasesAre
<1> QED
  BY <1>2, <1>3, <1>4, <1>5

LEMMA PadPut ==
  ASSUME pads \in [Pads -> Seq(Nat)], NEW p \in Pads, NEW new \in Seq(Nat), NEW g, g = [pads EXCEPT ![p] = new]
  PROVE  /\ g \in [Pads -> Seq(Nat)]
         /\ p = "inner" => g.inner = new /\ g.outer = pads.outer
         /\ p = "outer" => g.outer = new /\ g.inner = pads.inner
BY DEF Pads

LEMMA LeaveKeeps ==
  ASSUME IInv, OP_LEAVE
  PROVE  IInv'
<1> DEFINE s == SubSeq(stack, 1, frame.top)
<1>1. /\ todo = << >> /\ stack' = s /\ frame' = NoFrame /\ pads' = [pads EXCEPT !.inner = << >>]
      /\ todo' = Releases(Left) \o Members /\ heap' = heap /\ mode' = mode
  BY DEF OP_LEAVE, Ready, DropFrame
<1>2. Shaped
  BY DEF IInv
<1>3. /\ s \in Seq(Pos) /\ Len(s) = frame.top /\ frame.top \in Nat
      /\ \A r : Occurrences(stack, r) = Occurrences(s, r) + Occurrences(Left, r)
      /\ \A r : Occurrences(s, r) \in Nat /\ Occurrences(Left, r) \in Nat
  BY <1>2, LeftIs, Shapes
<1> HIDE DEF s
<1>4. Releases(Left) \in Seq(Drops) /\ \A r \in Pos : Occurrences(Releases(Left), Release(r)) = Occurrences(Left, r)
  <2>1. Left \in Seq(Nat)
    BY <1>2, LeftIs
  <2> QED
    BY <2>1, ReleasesAre
<1>5. Members \in Seq(Drops) /\ \A r \in Pos : Occurrences(Members, Release(r))
                                  = (One(frame.cur, r) + One(frame.of, r)) + Occurrences(pads.inner, r)
  BY <1>2, MembersAre
<1>6. todo' \in Seq(Drops)
      /\ \A r : Occurrences(todo', Release(r)) = Occurrences(Releases(Left), Release(r)) + Occurrences(Members, Release(r))
  <2>1. Releases(Left) \in Seq(Drops) /\ Members \in Seq(Drops)
    BY <1>4, <1>5
  <2> QED
    BY <1>1, <2>1, OccConcat, ConcatIs
<1>7. pads' \in [Pads -> Seq(Nat)] /\ pads'.outer = pads.outer /\ pads'.inner = << >>
  <2>1. pads \in [Pads -> Seq(Nat)] /\ << >> \in Seq(Nat) /\ "inner" \in Pads
    BY <1>2, Shapes DEF Pads
  <2>2. pads' = [pads EXCEPT !["inner"] = << >>]
    BY <1>1
  <2> QED
    BY <2>1, <2>2, PadPut
<1>8. FrameOK(frame', stack')
  <2>1. Len(stack') \in Nat
    BY <1>1, <1>3
  <2> QED
    BY <1>1, <2>1 DEF FrameOK, NoFrame, FrameType, Undef
<1>9. ASSUME NEW r \in Pos PROVE Count(heap', r) = Total(heap', pads', stack', frame', todo', r)
  <2>1. Total(heap', pads', stack', frame', todo', r)
          = Occurrences(pads.outer, r) + Occurrences(<< >>, r) + Occurrences(s, r)
              + (One(NoFrame.cur, r) + One(NoFrame.of, r)) + Occurrences(todo', Release(r)) + Holds(heap, r)
    BY <1>1, <1>7 DEF Total
  <2>2. One(NoFrame.cur, r) = 0 /\ One(NoFrame.of, r) = 0 /\ Occurrences(<< >>, r) = 0
    BY Idle DEF One, NoFrame, Undef, Pos
  <2>3. Occurrences(stack, r) = Occurrences(s, r) + Occurrences(Left, r)
        /\ Occurrences(s, r) \in Nat /\ Occurrences(Left, r) \in Nat
    BY <1>3
  <2>4. Occurrences(todo', Release(r))
          = Occurrences(Left, r) + ((One(frame.cur, r) + One(frame.of, r)) + Occurrences(pads.inner, r))
    BY <1>4, <1>5, <1>6
  <2>5. Count(heap', r) = Count(heap, r) /\ Occurrences(todo, Release(r)) = 0
    BY <1>1, Idle
  <2> DEFINE inner == Occurrences(pads.inner, r)
             left == Occurrences(Left, r)
             low == Occurrences(s, r)
             both == One(frame.cur, r) + One(frame.of, r)
  <2>6. Summed(r) /\ both \in Nat
    BY Counts DEF Summed
  <2>7. Count(heap, r) = Occurrences(pads.outer, r) + inner + (low + left) + both + Holds(heap, r)
    BY <2>3, <2>5, <2>6 DEF Summed
  <2>8. Total(heap', pads', stack', frame', todo', r)
          = Occurrences(pads.outer, r) + low + (left + (both + inner)) + Holds(heap, r)
    BY <2>1, <2>2, <2>3, <2>4, <2>6 DEF Summed
  <2>9. inner \in Nat /\ left \in Nat /\ low \in Nat /\ Occurrences(pads.outer, r) \in Nat /\ Holds(heap, r) \in Nat
    BY <2>3, <2>6 DEF Summed
  <2> HIDE DEF inner, left, low, both
  <2> QED
    BY <2>5, <2>6, <2>7, <2>8, <2>9
<1>10. HeapOK(heap') /\ TodoOK(heap', todo') /\ Guarded(todo', stack', frame') /\ mode' \in {"run", "aborted"}
       /\ stack' \in Seq(Pos)
  BY <1>1, <1>2, <1>3, <1>6, DropsOK, DropsGuarded DEF Shaped
<1> QED
  BY <1>7, <1>8, <1>9, <1>10, Keeps

LEMMA ForIterKeeps ==
  ASSUME IInv, OP_FOR_ITER
  PROVE  IInv'
<1> DEFINE s == SubSeq(stack, 1, frame.top)
           d == Releases(Left)
<1>1. /\ todo = << >> /\ frame.kind = "foreach" /\ stack' = s /\ todo' = d \o << Iterate >>
      /\ heap' = heap /\ pads' = pads /\ frame' = frame /\ mode' = mode
  BY DEF OP_FOR_ITER, Ready
<1>2. Shaped
  BY DEF IInv
<1>3. /\ s \in Seq(Pos) /\ Len(s) = frame.top /\ frame.top \in Nat
      /\ \A r : Occurrences(stack, r) = Occurrences(s, r) + Occurrences(Left, r)
      /\ \A r : Occurrences(s, r) \in Nat /\ Occurrences(Left, r) \in Nat
  BY <1>2, LeftIs, Shapes
<1> HIDE DEF s
<1>4. d \in Seq(Drops) /\ \A r \in Pos : Occurrences(d, Release(r)) = Occurrences(Left, r)
  <2>1. Left \in Seq(Nat)
    BY <1>2, LeftIs
  <2> QED
    BY <2>1, ReleasesAre
<1> HIDE DEF d
<1> DEFINE it == Iterate
<1>5. it \in Tasks /\ it.do = "iterate" /\ \A r : One(it, Release(r)) = 0
  BY DEF Iterate, Tasks, Release, One
<1>6. d \in Seq(Tasks) /\ (\A i \in DOMAIN d : d[i].do = "release") /\ \A h : TodoOK(h, d)
  BY <1>4, DropsAre, DropsOK DEF TodoOK
<1>7. todo' = Append(d, it)
  BY <1>1, <1>6
<1> HIDE DEF it
<1>8. /\ todo' \in Seq(Tasks) /\ Len(todo') = Len(d) + 1 /\ Len(d) \in Nat
      /\ (\A i \in 1..Len(d) : todo'[i] = d[i]) /\ todo'[Len(d) + 1] = it
      /\ \A r : Occurrences(todo', Release(r)) = Occurrences(d, Release(r)) + One(it, Release(r))
  <2>1. d \in Seq(Tasks) /\ it \in Tasks
    BY <1>5, <1>6
  <2> DEFINE t == Append(d, it)
  <2>2. t \in Seq(Tasks) /\ Len(t) = Len(d) + 1 /\ (\A i \in 1..Len(d) : t[i] = d[i]) /\ t[Len(d) + 1] = it
    BY <2>1, AppendIs
  <2>3. \A r : Occurrences(t, Release(r)) = Occurrences(d, Release(r)) + One(it, Release(r))
    BY <2>1, OccAppend
  <2>4. todo' = t /\ Len(d) \in Nat
    BY <1>7, <2>1
  <2> HIDE DEF t
  <2> QED
    BY <2>2, <2>3, <2>4
<1>9. TodoOK(heap', todo') /\ Guarded(todo', stack', frame')
  <2>1. ASSUME NEW i \in DOMAIN todo' PROVE TaskShape(heap', todo'[i]) /\ GuardedTask(todo', i, stack', frame')
    <3>1. i \in 1..Len(d) \/ i = Len(d) + 1
      BY <1>8
    <3>2. CASE i \in 1..Len(d)
      <4>1. i \in DOMAIN d /\ todo'[i] = d[i]
        BY <1>6, <1>8, <3>2
      <4> QED
        BY <1>6, <4>1 DEF TodoOK, GuardedTask
    <3>3. CASE i = Len(d) + 1
      <4>1. todo'[i] = it /\ i = Len(todo') /\ Len(stack') = frame'.top /\ frame'.kind = "foreach"
        BY <1>1, <1>3, <1>8, <3>3
      <4> QED
        BY <1>5, <4>1 DEF TaskShape, GuardedTask
    <3> QED
      BY <3>1, <3>2, <3>3
  <2> QED
    <3>1. todo' \in Seq(Tasks)
      BY <1>8
    <3>2. (\A i \in DOMAIN todo' : TaskShape(heap', todo'[i])) /\ \A i \in DOMAIN todo' : GuardedTask(todo', i, stack', frame')
      BY <2>1
    <3> QED
      BY <3>1, <3>2 DEF TodoOK, Guarded
<1>10. FrameOK(frame', stack')
  <2>1. FrameOK(frame, stack) /\ frame.top <= Len(stack')
    BY <1>1, <1>2, <1>3, Shapes
  <2> QED
    BY <1>1, <2>1, FrameStays
<1>11. ASSUME NEW r \in Pos PROVE Count(heap', r) = Total(heap', pads', stack', frame', todo', r)
  <2>1. Total(heap', pads', stack', frame', todo', r)
          = Occurrences(pads.outer, r) + Occurrences(pads.inner, r) + Occurrences(s, r)
              + (One(frame.cur, r) + One(frame.of, r)) + Occurrences(todo', Release(r)) + Holds(heap, r)
    BY <1>1 DEF Total
  <2>2. Occurrences(stack, r) = Occurrences(s, r) + Occurrences(Left, r)
        /\ Occurrences(s, r) \in Nat /\ Occurrences(Left, r) \in Nat
    BY <1>3
  <2>3. Occurrences(todo', Release(r)) = Occurrences(Left, r)
    BY <1>4, <1>5, <1>8, <2>2
  <2>4. Count(heap', r) = Count(heap, r) /\ Occurrences(todo, Release(r)) = 0
    BY <1>1, Idle
  <2> QED
    BY <2>1, <2>2, <2>3, <2>4, Counts DEF Summed
<1>12. HeapOK(heap') /\ pads' \in [Pads -> Seq(Nat)] /\ stack' \in Seq(Pos) /\ mode' \in {"run", "aborted"}
  BY <1>1, <1>2, <1>3 DEF Shaped
<1> QED
  BY <1>9, <1>10, <1>11, <1>12, Keeps

-----------------------------------------------------------------------------
(* Each task keeps the invariant. *)

LEMMA HeadIs ==
  ASSUME IInv, todo # << >>
  PROVE  /\ Head(todo) \in Tasks /\ TaskShape(heap, Head(todo)) /\ GuardedTask(todo, 1, stack, frame)
         /\ 1 \in DOMAIN todo /\ todo[1] = Head(todo) /\ The \in Nat /\ Head(todo).at \in Nat
         /\ Head(todo).do # "release" => \A r : One(Head(todo), Release(r)) = 0
<1>1. todo \in Seq(Tasks) /\ TodoOK(heap, todo) /\ Guarded(todo, stack, frame)
  BY Shapes DEF IInv
<1>2. Head(todo) \in Tasks /\ 1 \in DOMAIN todo /\ todo[1] = Head(todo)
  BY <1>1
<1>3. TaskShape(heap, todo[1]) /\ GuardedTask(todo, 1, stack, frame)
  BY <1>1, <1>2 DEF TodoOK, Guarded
<1>4. \A r : Release(r).do = "release"
  BY DEF Release
<1>5. The \in Nat /\ Head(todo).at \in Nat
  BY <1>2 DEF The, Tasks
<1> QED
  BY <1>2, <1>3, <1>4, <1>5 DEF One

\* What follows in todo has an owner.
LEMMA LaterAlive ==
  ASSUME IInv, NEW i, NEW r \in Pos, ReleasedAfter(todo, i, r)
  PROVE  Alive(r)
BY OwnedLive DEF ReleasedAfter

PadHolds(p, r) == Occurrences(p.outer, r) + Occurrences(p.inner, r)

\* A task that leaves ts to do moves references, and no more.
Moved(ts, r) ==
  Count(heap', r) + PadHolds(pads, r) + Holds(heap, r) + One(Head(todo), Release(r))
    = Count(heap, r) + PadHolds(pads', r) + Holds(heap', r) + Occurrences(ts, Release(r))

LEMMA TaskKeeps ==
  ASSUME IInv, todo # << >>, stack' = stack, frame' = frame, mode' = mode, HeapOK(heap'), pads' \in [Pads -> Seq(Nat)],
         Evolves(heap, heap'), NEW ts, TodoOK(heap', ts), SelfGuarded(ts), todo' = ts \o Tail(todo),
         \A r \in Pos : Moved(ts, r)
  PROVE  IInv'
<1>1. Shaped /\ Guarded(todo, stack, frame)
  BY DEF IInv
<1>2. Worked(heap', ts, todo')
  BY <1>1, ThenIs
<1>3. ASSUME NEW r \in Pos PROVE Count(heap', r) = Total(heap', pads', stack', frame', todo', r)
  <2> DEFINE hc == Count(heap, r)
             nc == Count(heap', r)
             hh == Holds(heap, r)
             nh == Holds(heap', r)
             hp == PadHolds(pads, r)
             np == PadHolds(pads', r)
             ht == Occurrences(todo, Release(r))
             nt == Occurrences(todo', Release(r))
             hd == One(Head(todo), Release(r))
             tt == Occurrences(ts, Release(r))
             st == Occurrences(stack, r)
             fr == One(frame.cur, r) + One(frame.of, r)
  <2>1. Summed(r)
    BY Counts
  <2>2. hc = hp + st + fr + ht + hh /\ hc \in Nat /\ hh \in Nat /\ hp \in Nat /\ ht \in Nat /\ st \in Nat /\ fr \in Nat
    BY <2>1 DEF Summed, PadHolds
  <2>3. nt + hd = tt + ht
    BY <1>2 DEF Worked
  <2>4. nc + hp + hh + hd = hc + np + nh + tt
    BY DEF Moved
  <2>5. /\ Occurrences(pads'.outer, r) \in Nat /\ Occurrences(pads'.inner, r) \in Nat
        /\ nt \in Nat /\ nh \in Nat /\ nc \in Nat
    <3>1. stack \in Seq(Pos) /\ todo' \in Seq(Tasks)
      BY <1>1, <1>2, Shapes DEF Worked, TodoOK
    <3> QED
      BY <3>1, TotalNat
  <2>6. np \in Nat /\ np = Occurrences(pads'.outer, r) + Occurrences(pads'.inner, r)
    BY <2>5 DEF PadHolds
  <2>7. hd \in Nat /\ tt \in Nat
    BY PlacesFinite DEF One, TodoOK
  <2>8. Total(heap', pads', stack', frame', todo', r)
          = Occurrences(pads'.outer, r) + Occurrences(pads'.inner, r) + st + fr + nt + nh
    BY DEF Total
  <2> HIDE DEF hc, nc, hh, nh, hp, np, ht, nt, hd, tt, st, fr
  <2>9. Total(heap', pads', stack', frame', todo', r) = np + st + fr + nt + nh
    BY <2>6, <2>8
  <2>10. nc = np + st + fr + nt + nh
    <3>1. nt \in Nat /\ nh \in Nat /\ nc \in Nat /\ np \in Nat
      BY <2>5, <2>6
    <3>2. nc + hd = st + fr + ht + np + nh + tt
      BY <2>2, <2>4, <2>7, <3>1
    <3> QED
      BY <2>2, <2>3, <2>7, <3>1, <3>2
  <2> QED
    BY <2>9, <2>10 DEF nc
<1>4. TodoOK(heap', todo') /\ Guarded(todo', stack', frame') /\ stack' \in Seq(Pos) /\ FrameOK(frame', stack')
      /\ mode' \in {"run", "aborted"}
  BY <1>1, <1>2 DEF Worked, Shaped
<1> QED
  BY <1>3, <1>4, Keeps

LEMMA DropsThen ==
  ASSUME NEW ts \in Seq(Drops), NEW g
  PROVE  TodoOK(g, ts) /\ SelfGuarded(ts)
<1>1. \A i \in DOMAIN ts : ts[i].do = "release"
  BY DropsAre
<1> QED
  BY <1>1, DropsOK DEF SelfGuarded

\* g is pads with other variables in block p.
PadSet(g, p, new) ==
  /\ g \in [Pads -> Seq(Nat)]
  /\ \A r : /\ PadHolds(g, r) \in Nat /\ PadHolds(pads, r) \in Nat
            /\ PadHolds(g, r) + Occurrences(pads[p], r) = PadHolds(pads, r) + Occurrences(new, r)

LEMMA PadRecount ==
  ASSUME Shaped, NEW p \in Pads, NEW new \in Seq(Nat), NEW g, g = [pads EXCEPT ![p] = new]
  PROVE  PadSet(g, p, new)
<1> SUFFICES ASSUME NEW r
             PROVE  /\ g \in [Pads -> Seq(Nat)] /\ PadHolds(g, r) \in Nat /\ PadHolds(pads, r) \in Nat
                    /\ PadHolds(g, r) + Occurrences(pads[p], r) = PadHolds(pads, r) + Occurrences(new, r)
  BY DEF PadSet
<1>1. /\ g \in [Pads -> Seq(Nat)]
      /\ p = "inner" => g.inner = new /\ g.outer = pads.outer
      /\ p = "outer" => g.outer = new /\ g.inner = pads.inner
  BY PadPut, Shapes
<1>2. p = "inner" \/ p = "outer"
  BY DEF Pads
<1>3. pads.outer \in Seq(Nat) /\ pads.inner \in Seq(Nat)
  BY Shapes
<1>4. Occurrences(pads.outer, r) \in Nat /\ Occurrences(pads.inner, r) \in Nat /\ Occurrences(new, r) \in Nat
  BY <1>3, PlacesFinite
<1>5. CASE p = "inner"
  <2>1. g.inner = new /\ g.outer = pads.outer /\ pads[p] = pads.inner
    BY <1>1, <1>5
  <2> QED
    BY <1>1, <1>4, <2>1 DEF PadHolds
<1>6. CASE p = "outer"
  <2>1. g.outer = new /\ g.inner = pads.inner /\ pads[p] = pads.outer
    BY <1>1, <1>6
  <2> QED
    BY <1>1, <1>4, <2>1 DEF PadHolds
<1> QED
  BY <1>2, <1>5, <1>6

LEMMA ShiftKeeps ==
  ASSUME IInv, DoShift
  PROVE  IInv'
<1> DEFINE p == Head(todo).pad
           i == Head(todo).at
           s == pads[p]
           w == s[i + 1]
           v == s[i]
           new == [s EXCEPT ![i] = w]
           ts == Releases(<< v >>)
<1>1. /\ todo # << >> /\ Head(todo).do = "shift" /\ i < Len(s)
      /\ heap' = Retain(heap, w) /\ pads' = [pads EXCEPT ![p] = new] /\ todo' = ts \o Tail(todo)
      /\ stack' = stack /\ frame' = frame /\ mode' = mode
  BY DEF DoShift, Busy, Then
<1>2. Shaped
  BY DEF IInv
<1>3. p \in Pads /\ i \in Nat /\ i # 0 /\ \A r : One(Head(todo), Release(r)) = 0
  BY <1>1, HeadIs DEF TaskShape
<1>4. s \in Seq(Nat) /\ i \in 1..Len(s) /\ i + 1 \in 1..Len(s)
  <2>1. s \in Seq(Nat)
    BY <1>2, <1>3, Shapes
  <2>2. i < Len(s)
    BY <1>1
  <2> HIDE DEF s, i
  <2>3. Len(s) \in Nat
    BY <2>1
  <2> QED
    BY <1>3, <2>1, <2>2, <2>3
<1> HIDE DEF s
<1>5. w \in Nat /\ v \in Nat
  BY <1>4
<1>6. w # 0 => Alive(w)
  <2>1. i + 1 \in DOMAIN pads[p] /\ w = pads[p][i + 1]
    BY <1>4 DEF s
  <2> HIDE DEF w
  <2>2. w # 0 => w \in Pos
    BY <1>5 DEF Pos
  <2> QED
    BY <1>3, <2>1, <2>2, OwnedLive
<1> HIDE DEF p, i, w, v, new
<1>7. Retained(heap, heap', w)
  <2>1. HeapOK(heap) /\ (w # 0 => w \in DOMAIN heap /\ heap[w].live)
    BY <1>2, <1>6, Shapes DEF Alive
  <2> QED
    BY <1>1, <1>5, <2>1, RetainIs
<1>8. new \in Seq(Nat) /\ \A r : Occurrences(new, r) + One(v, r) = Occurrences(s, r) + One(w, r)
  <2>1. s \in Seq(Nat) /\ i \in 1..Len(s) /\ w \in Nat
    BY <1>4, <1>5
  <2>2. Placed(s, i, w, new) /\ v = s[i]
    BY DEF new, v, Placed
  <2>3. new \in Seq(Nat) /\ \A r : Occurrences(new, r) + One(s[i], r) = Occurrences(s, r) + One(w, r)
    BY <2>1, <2>2, OccPut
  <2> QED
    BY <2>2, <2>3
<1>9. ts \in Seq(Drops) /\ \A r \in Pos : Occurrences(ts, Release(r)) = One(v, r)
  BY <1>5, ReleaseOne
<1> HIDE DEF ts
<1>13. PadSet(pads', p, new)
  BY <1>1, <1>2, <1>3, <1>8, PadRecount
<1>10. ASSUME NEW r \in Pos PROVE Moved(ts, r)
  <2>1. PadHolds(pads', r) \in Nat /\ PadHolds(pads, r) \in Nat
        /\ PadHolds(pads', r) + Occurrences(s, r) = PadHolds(pads, r) + Occurrences(new, r)
    BY <1>13 DEF PadSet, s
  <2>2. Holds(heap', r) = Holds(heap, r) /\ Count(heap', r) = Count(heap, r) + One(w, r)
    BY <1>7 DEF Retained
  <2>3. Occurrences(s, r) \in Nat /\ Occurrences(new, r) \in Nat /\ One(v, r) \in Nat /\ One(w, r) \in Nat
    BY <1>4, <1>8, PlacesFinite DEF One
  <2>4. PadHolds(pads', r) + One(v, r) = PadHolds(pads, r) + One(w, r)
    <3>1. Occurrences(new, r) + One(v, r) = Occurrences(s, r) + One(w, r)
      BY <1>8
    <3> QED
      BY <2>1, <2>3, <3>1
  <2>5. Holds(heap, r) \in Nat /\ Count(heap, r) \in Nat
    BY Counts DEF Summed
  <2>6. Occurrences(ts, Release(r)) = One(v, r) /\ One(Head(todo), Release(r)) = 0
    BY <1>3, <1>9
  <2> DEFINE hc == Count(heap, r)
             hh == Holds(heap, r)
             hp == PadHolds(pads, r)
             np == PadHolds(pads', r)
             ow == One(w, r)
             ov == One(v, r)
  <2>7. hc \in Nat /\ hh \in Nat /\ hp \in Nat /\ np \in Nat /\ ow \in Nat /\ ov \in Nat /\ np + ov = hp + ow
    BY <2>1, <2>3, <2>4, <2>5
  <2>8. Moved(ts, r) <=> (hc + ow) + hp + hh + 0 = hc + np + hh + ov
    BY <2>2, <2>6 DEF Moved
  <2> HIDE DEF hc, hh, hp, np, ow, ov
  <2> QED
    BY <2>7, <2>8
<1>11. HeapOK(heap') /\ Evolves(heap, heap') /\ TodoOK(heap', ts) /\ SelfGuarded(ts)
  BY <1>7, <1>9, DropsThen DEF Retained
<1>12. pads' \in [Pads -> Seq(Nat)]
  BY <1>13 DEF PadSet
<1> QED
  BY <1>1, <1>10, <1>11, <1>12, TaskKeeps

LEMMA SameHeap ==
  Evolves(heap, heap)
BY DEF Evolves

LEMMA ShrinkKeeps ==
  ASSUME IInv, DoShrink
  PROVE  IInv'
<1> DEFINE p == Head(todo).pad
           s == pads[p]
           new == Front(s)
           v == Last(s)
           ts == Releases(<< v >>)
<1>1. /\ todo # << >> /\ Head(todo).do = "shrink" /\ s # << >>
      /\ heap' = heap /\ pads' = [pads EXCEPT ![p] = new] /\ todo' = ts \o Tail(todo)
      /\ stack' = stack /\ frame' = frame /\ mode' = mode
  BY DEF DoShrink, Busy, Then
<1>2. Shaped
  BY DEF IInv
<1>3. p \in Pads /\ \A r : One(Head(todo), Release(r)) = 0
  BY <1>1, HeadIs DEF TaskShape
<1>4. s \in Seq(Nat)
  BY <1>2, <1>3, Shapes
<1> HIDE DEF p, s
<1>5. new \in Seq(Nat) /\ v \in Nat /\ \A r : Occurrences(s, r) = Occurrences(new, r) + One(v, r)
  BY <1>1, <1>4, OccFront
<1> HIDE DEF v, new
<1>6. ts \in Seq(Drops) /\ \A r \in Pos : Occurrences(ts, Release(r)) = One(v, r)
  BY <1>5, ReleaseOne
<1> HIDE DEF ts
<1>10. PadSet(pads', p, new)
  BY <1>1, <1>2, <1>3, <1>5, PadRecount
<1>7. ASSUME NEW r \in Pos PROVE Moved(ts, r)
  <2>1. PadHolds(pads', r) \in Nat /\ PadHolds(pads, r) \in Nat
        /\ PadHolds(pads', r) + Occurrences(s, r) = PadHolds(pads, r) + Occurrences(new, r)
    BY <1>10 DEF PadSet, s
  <2>2. Holds(heap', r) = Holds(heap, r) /\ Count(heap', r) = Count(heap, r)
    BY <1>1
  <2>3. Occurrences(new, r) \in Nat /\ One(v, r) \in Nat
    BY <1>5, PlacesFinite DEF One
  <2>4. PadHolds(pads', r) + One(v, r) = PadHolds(pads, r)
    <3>1. Occurrences(s, r) = Occurrences(new, r) + One(v, r)
      BY <1>5
    <3> QED
      BY <2>1, <2>3, <3>1
  <2>5. Holds(heap, r) \in Nat /\ Count(heap, r) \in Nat
    BY Counts DEF Summed
  <2>6. Occurrences(ts, Release(r)) = One(v, r) /\ One(Head(todo), Release(r)) = 0
    BY <1>3, <1>6
  <2> QED
    BY <2>1, <2>2, <2>3, <2>4, <2>5, <2>6 DEF Moved
<1>8. HeapOK(heap') /\ Evolves(heap, heap') /\ TodoOK(heap', ts) /\ SelfGuarded(ts)
  BY <1>1, <1>2, <1>6, DropsThen, SameHeap, Shapes
<1>9. pads' \in [Pads -> Seq(Nat)]
  BY <1>10 DEF PadSet
<1> QED
  BY <1>1, <1>7, <1>8, <1>9, TaskKeeps

\* PadList::set fills up with undef.
Filled(s, i) == s \o [k \in 1..(i - 1) - Len(s) |-> Undef]

LEMMA FilledIs ==
  ASSUME NEW s \in Seq(Nat), NEW i \in Pos, NEW filled, filled = Filled(s, i)
  PROVE  /\ filled \in Seq(Nat) /\ i \in 1..Len(filled) + 1
         /\ \A r \in Pos : Occurrences(filled, r) = Occurrences(s, r)
<1> DEFINE undefs == [k \in 1..(i - 1) - Len(s) |-> Undef]
<1>1. i \in Nat /\ i # 0
  BY DEF Pos
<1>2. Len(s) \in Nat
  OBVIOUS
<1>3. undefs \in Seq(Nat) /\ \A r \in Pos : Occurrences(undefs, r) = 0
  <2> DEFINE n == (i - 1) - Len(s)
  <2>1. n \in Int
    BY <1>1, <1>2
  <2> HIDE DEF n
  <2>2. undefs \in Seq(Nat) /\ \A k \in DOMAIN undefs : undefs[k] = 0
    <3>1. CASE n \in Nat
      BY <3>1 DEF Undef, n
    <3>2. CASE n \notin Nat
      <4>1. 1..n = {}
        BY <2>1, <3>2
      <4>2. undefs = << >>
        BY <4>1 DEF n
      <4> HIDE DEF undefs
      <4> QED
        BY <4>2
    <3> QED
      BY <3>1, <3>2
  <2> HIDE DEF undefs
  <2>3. \A r \in Pos : ~\E k \in DOMAIN undefs : undefs[k] = r
    BY <2>2 DEF Pos
  <2> QED
    BY <2>2, <2>3, OccAbsent
<1>4. Len(undefs) = IF (i - 1) - Len(s) > 0 THEN (i - 1) - Len(s) ELSE 0
  <2> DEFINE n == (i - 1) - Len(s)
  <2>1. n \in Int /\ (n \in Nat \/ 1..n = {})
    BY <1>1, <1>2
  <2>2. undefs = [k \in 1..n |-> Undef]
    OBVIOUS
  <2> HIDE DEF n, undefs
  <2>3. CASE n \in Nat
    <3>1. Len(undefs) = n
      BY <2>2, <2>3
    <3> QED
      BY <2>3, <3>1 DEF n
  <2>4. CASE n \notin Nat
    <3>1. undefs = << >>
      BY <2>1, <2>2, <2>4
    <3> QED
      BY <2>1, <2>4, <3>1 DEF n
  <2> QED
    BY <2>3, <2>4
<1>5. filled = s \o undefs
  BY DEF Filled
<1> HIDE DEF undefs
<1>6. filled \in Seq(Nat) /\ Len(filled) = Len(s) + Len(undefs)
  BY <1>5, <1>3, ConcatIs
<1>7. i \in 1..Len(filled) + 1
  BY <1>6, <1>1, <1>2, <1>4
<1>8. \A r \in Pos : Occurrences(filled, r) = Occurrences(s, r) + Occurrences(undefs, r) /\ Occurrences(s, r) \in Nat
  BY <1>5, <1>3, OccConcat, PlacesFinite
<1>9. \A r \in Pos : Occurrences(filled, r) = Occurrences(s, r)
  BY <1>3, <1>8
<1> QED
  BY <1>6, <1>7, <1>9

LEMMA InsertKeeps ==
  ASSUME IInv, DoInsert
  PROVE  IInv'
<1> DEFINE p == Head(todo).pad
           i == Head(todo).at
           v == The
           s == pads[p]
           filled == Filled(s, i)
           new == InsertAt(filled, i, v)
           ts == << >>
<1>1. /\ todo # << >> /\ Head(todo).do = "insert"
      /\ heap' = Retain(heap, v) /\ pads' = [pads EXCEPT ![p] = new] /\ todo' = ts \o Tail(todo)
      /\ stack' = stack /\ frame' = frame /\ mode' = mode
  BY DEF DoInsert, Busy, Then, Kept, Filled
<1>2. Shaped
  BY DEF IInv
<1>3. p \in Pads /\ i \in Nat /\ i # 0 /\ v \in Nat /\ \A r : One(Head(todo), Release(r)) = 0
  BY <1>1, HeadIs DEF TaskShape
<1>4. s \in Seq(Nat) /\ Len(s) \in Nat
  BY <1>2, <1>3, Shapes
<1>5. v # 0 => Alive(v)
  <2> SUFFICES ASSUME v # 0 PROVE Alive(v)
    OBVIOUS
  <2>1. v \in Pos
    BY <1>3 DEF Pos
  <2>2. ReleasedAfter(todo, 1, v) \/ v \in Range(stack)
    BY <1>1, HeadIs DEF GuardedTask, The
  <2>3. v \in Range(stack) => \E j \in DOMAIN stack : stack[j] = v
    BY DEF Range
  <2> QED
    BY <2>1, <2>2, <2>3, OwnedLive, LaterAlive
<1> HIDE DEF p, i, v, s
<1>6. Retained(heap, heap', v)
  <2>1. HeapOK(heap) /\ (v # 0 => v \in DOMAIN heap /\ heap[v].live)
    BY <1>2, <1>5, Shapes DEF Alive
  <2> QED
    BY <1>1, <1>3, <2>1, RetainIs
<1>9. filled \in Seq(Nat) /\ i \in 1..Len(filled) + 1 /\ \A r \in Pos : Occurrences(filled, r) = Occurrences(s, r)
  BY <1>3, <1>4, FilledIs DEF Pos
<1> HIDE DEF filled
<1>10. new \in Seq(Nat) /\ \A r : Occurrences(new, r) = Occurrences(filled, r) + One(v, r)
  <2>1. filled \in Seq(Nat) /\ i \in 1..Len(filled) + 1 /\ v \in Nat
    BY <1>3, <1>9
  <2>2. new = InsertAt(filled, i, v)
    OBVIOUS
  <2> HIDE DEF new
  <2>3. new \in Seq(Nat) /\ \A r : Occurrences(new, r) = Occurrences(filled, r) + One(v, r)
    BY <2>1, <2>2, OccInsert
  <2> QED
    BY <2>3
<1> HIDE DEF new
<1>14. PadSet(pads', p, new)
  BY <1>1, <1>2, <1>3, <1>10, PadRecount
<1>11. ASSUME NEW r \in Pos PROVE Moved(ts, r)
  <2>1. PadHolds(pads', r) \in Nat /\ PadHolds(pads, r) \in Nat
        /\ PadHolds(pads', r) + Occurrences(s, r) = PadHolds(pads, r) + Occurrences(new, r)
    BY <1>14 DEF PadSet, s
  <2>2. Holds(heap', r) = Holds(heap, r) /\ Count(heap', r) = Count(heap, r) + One(v, r)
    BY <1>6 DEF Retained
  <2>3. Occurrences(s, r) \in Nat /\ One(v, r) \in Nat
    BY <1>4, PlacesFinite DEF One
  <2>4. PadHolds(pads', r) = PadHolds(pads, r) + One(v, r)
    <3>1. Occurrences(new, r) = Occurrences(s, r) + One(v, r)
      BY <1>9, <1>10
    <3> QED
      BY <2>1, <2>3, <3>1
  <2>5. Holds(heap, r) \in Nat /\ Count(heap, r) \in Nat
    BY Counts DEF Summed
  <2>6. Occurrences(ts, Release(r)) = 0 /\ One(Head(todo), Release(r)) = 0
    BY <1>3, Idle
  <2> DEFINE hc == Count(heap, r)
             hh == Holds(heap, r)
             hp == PadHolds(pads, r)
             np == PadHolds(pads', r)
             ov == One(v, r)
  <2>7. hc \in Nat /\ hh \in Nat /\ hp \in Nat /\ np \in Nat /\ ov \in Nat /\ np = hp + ov
    BY <2>1, <2>3, <2>4, <2>5
  <2>8. Moved(ts, r) <=> (hc + ov) + hp + hh + 0 = hc + np + hh + 0
    BY <2>2, <2>6 DEF Moved
  <2> HIDE DEF hc, hh, hp, np, ov
  <2> QED
    BY <2>7, <2>8
<1>12. HeapOK(heap') /\ Evolves(heap, heap') /\ TodoOK(heap', ts) /\ SelfGuarded(ts)
  BY <1>6, Idle DEF Retained, SelfGuarded
<1>13. pads' \in [Pads -> Seq(Nat)]
  BY <1>14 DEF PadSet
<1> HIDE DEF ts
<1> QED
  BY <1>1, <1>11, <1>12, <1>13, TaskKeeps

\* What value a holds and its count change by what is left to do.
Settled(a, c, ts, r) ==
  (IF r = a THEN c.refcnt ELSE Count(heap, r)) + One(Head(todo), Release(r)) + Occurrences(heap[a].items, r)
    = Count(heap, r) + Occurrences(c.items, r) + Occurrences(ts, Release(r))

\* A task changes value a.
CellTask(a, c, ts) ==
  /\ heap' = [heap EXCEPT ![a] = c] /\ todo' = ts \o Tail(todo)
  /\ stack' = stack /\ frame' = frame /\ mode' = mode /\ pads' = pads

LEMMA BothSums ==
  ASSUME NEW hc \in Nat, NEW nc \in Nat, NEW hh \in Nat, NEW nh \in Nat, NEW hp \in Nat, NEW hd \in Nat,
         NEW tt \in Nat, NEW oi \in Nat, NEW ni \in Nat,
         nc + hd + oi = hc + ni + tt, nh + oi = hh + ni
  PROVE  nc + hp + hh + hd = hc + hp + nh + tt
OBVIOUS

LEMMA CellTaskKeeps ==
  ASSUME IInv, todo # << >>, NEW a \in DOMAIN heap, NEW c \in CellType, CellShape(c),
         c.type = heap[a].type, heap[a].destroyed => c.destroyed,
         NEW ts, CellTask(a, c, ts), TodoOK(heap', ts), SelfGuarded(ts),
         \A r \in Pos : Settled(a, c, ts, r)
  PROVE  IInv'
<1>1. Shaped /\ HeapOK(heap) /\ HeapOK(heap) /\ pads \in [Pads -> Seq(Nat)] /\ heap \in Seq(CellType)
  BY Shapes DEF IInv
<1>2. heap' = [heap EXCEPT ![a] = c] /\ todo' = ts \o Tail(todo)
      /\ stack' = stack /\ frame' = frame /\ mode' = mode /\ pads' = pads
  BY DEF CellTask
<1>3. Put(heap, heap', a, c)
  BY <1>1, <1>2, CellPut
<1>4. HeapOK(heap') /\ Evolves(heap, heap')
  BY <1>3 DEF Put, Evolves
<1>5. ASSUME NEW r \in Pos PROVE Moved(ts, r)
  <2> DEFINE hc == Count(heap, r)
             nc == Count(heap', r)
             hh == Holds(heap, r)
             nh == Holds(heap', r)
             hp == PadHolds(pads, r)
             hd == One(Head(todo), Release(r))
             tt == Occurrences(ts, Release(r))
             oi == Occurrences(heap[a].items, r)
             ni == Occurrences(c.items, r)
  <2>1. nh + oi = hh + ni /\ nc = IF r = a THEN c.refcnt ELSE hc
    BY <1>3 DEF Put
  <2>2. nc + hd + oi = hc + ni + tt
    BY <2>1 DEF Settled
  <2>3. nh \in Nat /\ nc \in Nat
    <3>1. heap' \in Seq(CellType)
      BY <1>4, HeapIs
    <3> QED
      BY <1>4, <3>1, HeldFinite, HeapIs DEF Count, CellType
  <2>4. hc \in Nat /\ hh \in Nat /\ hp \in Nat
    BY Counts DEF Summed, PadHolds
  <2>5. hd \in Nat /\ tt \in Nat /\ oi \in Nat /\ ni \in Nat
    <3>1. ts \in Seq(Tasks) /\ c.items \in Seq(Pos) /\ heap[a].items \in Seq(Pos)
      BY <1>1, HeapIs DEF TodoOK, CellType
    <3> QED
      BY <3>1, PlacesFinite DEF One
  <2>6. Moved(ts, r) <=> nc + hp + hh + hd = hc + hp + nh + tt
    BY <1>2 DEF Moved
  <2> HIDE DEF hc, nc, hh, nh, hp, hd, tt, oi, ni
  <2>7. nc + hp + hh + hd = hc + hp + nh + tt
    <3>1. nh + oi = hh + ni
      BY <2>1
    <3> QED
      BY <2>2, <2>3, <2>4, <2>5, <3>1, BothSums
  <2> QED
    BY <2>6, <2>7
<1>6. pads' \in [Pads -> Seq(Nat)]
  BY <1>1, <1>2
<1> QED
  BY <1>2, <1>4, <1>5, <1>6, TaskKeeps

\* A value whose release is under way is alive and counted.
LEMMA ReleasedIs ==
  ASSUME IInv, Busy("release")
  PROVE  /\ The \in Pos /\ Head(todo) = Release(The) /\ todo # << >>
         /\ The \in DOMAIN heap /\ heap[The].live /\ heap[The] \in CellType /\ CellShape(heap[The])
         /\ heap[The].refcnt # 0
         /\ \A r \in Pos : One(Head(todo), Release(r)) = One(The, r)
<1>1. todo # << >> /\ Head(todo).do = "release"
  BY DEF Busy
<1>2. The \in Pos /\ Head(todo) = Release(The) /\ 1 \in DOMAIN todo /\ todo[1] = Release(The)
  <2>1. TaskShape(heap, Head(todo)) /\ The \in Nat /\ 1 \in DOMAIN todo /\ todo[1] = Head(todo)
    BY <1>1, HeadIs
  <2> QED
    BY <1>1, <2>1 DEF TaskShape, The, Pos
<1>3. Alive(The)
  BY <1>2, OwnedLive
<1>4. Occurrences(todo, Release(The)) # 0
  <2>1. todo \in Seq(Tasks)
    BY Shapes DEF IInv
  <2> QED
    BY <1>2, <2>1, OccAbsent
<1>5. Count(heap, The) # 0
  <2>1. Summed(The)
    BY <1>2, Counts
  <2> DEFINE n == Occurrences(todo, Release(The))
             m == Occurrences(pads.outer, The) + Occurrences(pads.inner, The) + Occurrences(stack, The)
                    + (One(frame.cur, The) + One(frame.of, The))
  <2>2. m \in Nat
    BY <2>1 DEF Summed
  <2>3. Count(heap, The) = m + n + Holds(heap, The) /\ n \in Nat /\ Holds(heap, The) \in Nat
    BY <2>1 DEF Summed
  <2> HIDE DEF m, n
  <2>4. n # 0
    BY <1>4 DEF n
  <2> QED
    BY <2>2, <2>3, <2>4
<1>6. HeapOK(heap)
  BY Shapes DEF IInv
<1>7. The \in DOMAIN heap /\ heap[The].live /\ heap[The].refcnt # 0
  BY <1>3, <1>5 DEF Alive, Count
<1>8. heap[The] \in CellType /\ CellShape(heap[The])
  BY <1>6, <1>7, HeapIs
<1>9. \A r \in Pos : One(Head(todo), Release(r)) = One(The, r)
  <2> DEFINE v == The
  <2>1. v \in Pos /\ Head(todo) = Release(v)
    BY <1>2
  <2> HIDE DEF v
  <2>2. \A r \in Pos : One(Release(v), Release(r)) = One(v, r)
    BY <2>1, DropsAre
  <2> QED
    BY <2>1, <2>2 DEF v
<1> QED
  BY <1>1, <1>2, <1>7, <1>8, <1>9

LEMMA FreedIs ==
  ASSUME NEW a \in DOMAIN heap, heap[a] \in CellType, CellShape(heap[a]), heap[a].type = "object" => heap[a].destroyed,
         MaxInt \in Nat,
         NEW c, c = [heap[a] EXCEPT !.live = FALSE, !.refcnt = 0, !.items = << >>, !.n = 0]
  PROVE  /\ Freed(heap, a) = [heap EXCEPT ![a] = c]
         /\ c \in CellType /\ CellShape(c) /\ c.refcnt = 0 /\ c.items = << >> /\ c.type = heap[a].type
         /\ c.destroyed = heap[a].destroyed
<1>1. Freed(heap, a) = [heap EXCEPT ![a] = c]
  BY DEF Freed
<1>2. c \in CellType /\ c.refcnt = 0 /\ c.items = << >> /\ c.type = heap[a].type /\ c.destroyed = heap[a].destroyed
      /\ ~c.live /\ c.script = heap[a].script /\ c.runs = heap[a].runs
  <2> DEFINE e == << >>
             old == heap[a]
             d == [old EXCEPT !.live = FALSE, !.refcnt = 0, !.items = e, !.n = 0]
  <2>1. e \in Seq(Pos) /\ 0 \in 0..MaxInt /\ c = d /\ old \in CellType
    OBVIOUS
  <2> HIDE DEF e, old
  <2>2. d \in CellType /\ d.refcnt = 0 /\ d.items = e /\ d.type = old.type /\ d.destroyed = old.destroyed
        /\ ~d.live /\ d.script = old.script /\ d.runs = old.runs
    BY <2>1 DEF CellType
  <2> HIDE DEF d
  <2> QED
    BY <2>1, <2>2 DEF e, old
<1>3. CellShape(c)
  BY <1>2 DEF CellShape
<1> QED
  BY <1>1, <1>2, <1>3

LEMMA OneNat ==
  \A v, r : One(v, r) \in Nat
BY DEF One

\* A reference that is not the last.
LEMMA ReleaseShared ==
  ASSUME IInv, Busy("release"), ~IsLast(The), heap' = [heap EXCEPT ![The].refcnt = @ - 1], Then(<< >>),
         UNCHANGED << pads, stack, frame, mode >>
  PROVE  IInv'
<1> DEFINE a == The
           k == heap[a].refcnt - 1
           c == [heap[a] EXCEPT !.refcnt = k]
           ts == << >>
<1>1. /\ a \in Pos /\ todo # << >> /\ a \in DOMAIN heap /\ heap[a].live /\ heap[a] \in CellType /\ CellShape(heap[a])
      /\ heap[a].refcnt # 0 /\ \A r \in Pos : One(Head(todo), Release(r)) = One(a, r)
  BY ReleasedIs
<1>2. heap[a].refcnt # 1
  BY DEF IsLast
<1>3. heap[a].refcnt \in Nat /\ k \in Nat
  BY <1>1 DEF CellType
<1>4. CellTask(a, c, ts)
  BY DEF CellTask, Then
<1> HIDE DEF a
<1>5. c \in CellType /\ c.refcnt = k /\ c.live = heap[a].live /\ c.type = heap[a].type /\ c.items = heap[a].items
      /\ c.script = heap[a].script /\ c.destroyed = heap[a].destroyed /\ c.runs = heap[a].runs
  <2> HIDE DEF k
  <2> QED
    BY <1>1, <1>3, CellRecount
<1> HIDE DEF c
<1>6. CellShape(c)
  BY <1>1, <1>5 DEF CellShape
<1>7. ASSUME NEW r \in Pos PROVE Settled(a, c, ts, r)
  <2> DEFINE o == Occurrences(heap[a].items, r)
  <2>1. o \in Nat /\ Count(heap, r) \in Nat /\ One(a, r) \in Nat
    <3>1. heap[a].items \in Seq(Pos)
      BY <1>1 DEF CellType
    <3> QED
      BY <3>1, PlacesFinite, Counts, OneNat DEF Summed
  <2>2. Settled(a, c, ts, r) <=> (IF r = a THEN k ELSE Count(heap, r)) + One(a, r) + o = Count(heap, r) + o + 0
    BY <1>1, <1>5, Idle DEF Settled
  <2> HIDE DEF o
  <2>3. CASE r = a
    <3>1. Count(heap, r) = k + 1 /\ One(a, r) = 1
      BY <1>1, <1>3, <2>3 DEF Count, One
    <3> HIDE DEF k
    <3> QED
      BY <1>3, <2>1, <2>2, <2>3, <3>1
  <2>4. CASE r # a
    <3>1. One(a, r) = 0
      BY <2>4 DEF One
    <3> QED
      BY <2>1, <2>2, <2>4, <3>1
  <2> QED
    BY <2>3, <2>4
<1>8. TodoOK(heap', ts) /\ SelfGuarded(ts)
  BY Idle DEF SelfGuarded
<1> HIDE DEF ts
<1> QED
  BY <1>1, <1>4, <1>5, <1>6, <1>7, <1>8, CellTaskKeeps

\* The count of a value that is released for the last time.
LEMMA LastSettles ==
  ASSUME IInv, Busy("release"), IsLast(The), NEW c \in CellType, c.items = heap[The].items, NEW ts \in Seq(Tasks),
         \A r \in Pos : Occurrences(ts, Release(r)) = (IF c.refcnt = 1 THEN One(The, r) ELSE 0),
         c.refcnt \in {0, 1}, NEW r \in Pos
  PROVE  Settled(The, c, ts, r)
<1> DEFINE a == The
           o == Occurrences(heap[a].items, r)
           h == Count(heap, r)
<1>1. a \in DOMAIN heap /\ heap[a] \in CellType /\ One(Head(todo), Release(r)) = One(a, r) /\ heap[a].refcnt = 1
  BY ReleasedIs DEF IsLast
<1>2. o \in Nat /\ h \in Nat
  <2>1. heap[a].items \in Seq(Pos)
    BY <1>1 DEF CellType
  <2> QED
    BY <2>1, PlacesFinite, Counts DEF Summed
<1>3. Settled(a, c, ts, r) <=>
        (IF r = a THEN c.refcnt ELSE h) + One(a, r) + o = h + o + (IF c.refcnt = 1 THEN One(a, r) ELSE 0)
  BY <1>1 DEF Settled
<1>4. r = a => h = 1 /\ One(a, r) = 1
  BY <1>1 DEF Count, One
<1>5. r # a => One(a, r) = 0
  BY DEF One
<1> HIDE DEF a, o, h
<1>6. Settled(a, c, ts, r)
  BY <1>2, <1>3, <1>4, <1>5
<1> QED
  BY <1>6 DEF a

\* A value without references is freed, and drops what it holds.
LEMMA FreedKeeps ==
  ASSUME HeapAssumption, IInv, todo # << >>, NEW a \in DOMAIN heap, heap[a].type = "object" => heap[a].destroyed,
         \A r \in Pos : (IF r = a THEN 0 ELSE Count(heap, r)) + One(Head(todo), Release(r)) = Count(heap, r),
         heap' = Freed(heap, a), Then(Releases(heap[a].items)), UNCHANGED << pads, stack, frame, mode >>
  PROVE  IInv'
<1> DEFINE items == heap[a].items
           c == [heap[a] EXCEPT !.live = FALSE, !.refcnt = 0, !.items = << >>, !.n = 0]
           ts == Releases(items)
<1>1. heap[a] \in CellType /\ CellShape(heap[a]) /\ MaxInt \in Nat
  BY Shapes, HeapIs DEF IInv, HeapAssumption
<1>2. /\ heap' = [heap EXCEPT ![a] = c]
      /\ c \in CellType /\ CellShape(c) /\ c.refcnt = 0 /\ c.items = << >> /\ c.type = heap[a].type
      /\ c.destroyed = heap[a].destroyed
  BY <1>1, FreedIs
<1> HIDE DEF c
<1>3. CellTask(a, c, ts)
  BY <1>2 DEF CellTask, Then
<1>4. items \in Seq(Pos) /\ items \in Seq(Nat)
  BY <1>1 DEF CellType, Pos
<1>5. ts \in Seq(Drops) /\ \A r \in Pos : Occurrences(ts, Release(r)) = Occurrences(items, r)
  BY <1>4, ReleasesAre
<1> HIDE DEF ts
<1>6. ASSUME NEW r \in Pos PROVE Settled(a, c, ts, r)
  <2> DEFINE o == Occurrences(items, r)
             h == Count(heap, r)
             d == One(Head(todo), Release(r))
             k == IF r = a THEN 0 ELSE h
  <2>1. o \in Nat /\ h \in Nat /\ d \in Nat
    BY <1>4, PlacesFinite, Counts, OneNat DEF Summed
  <2>2. Settled(a, c, ts, r) <=> k + d + o = h + 0 + o
    BY <1>2, <1>5, Idle DEF Settled
  <2>3. k + d = h /\ k \in Nat
    BY <2>1
  <2> HIDE DEF o, h, d, k
  <2> QED
    BY <2>1, <2>2, <2>3
<1>7. TodoOK(heap', ts) /\ SelfGuarded(ts)
  BY <1>5, DropsThen
<1> QED
  BY <1>2, <1>3, <1>6, <1>7, CellTaskKeeps

LEMMA ReleaseFrees ==
  ASSUME HeapAssumption, IInv, Busy("release"), IsLast(The), heap[The].type # "object",
         heap' = Freed(heap, The), Then(Releases(heap[The].items)), UNCHANGED << pads, stack, frame, mode >>
  PROVE  IInv'
<1> DEFINE a == The
<1>1. a \in DOMAIN heap /\ todo # << >> /\ heap[a].refcnt = 1 /\ \A r \in Pos : One(Head(todo), Release(r)) = One(a, r)
  BY ReleasedIs DEF IsLast
<1>2. ASSUME NEW r \in Pos
      PROVE  (IF r = a THEN 0 ELSE Count(heap, r)) + One(Head(todo), Release(r)) = Count(heap, r)
  <2>1. Count(heap, r) \in Nat
    BY Counts DEF Summed
  <2>2. One(Head(todo), Release(r)) = IF r = a THEN 1 ELSE 0
    BY <1>1 DEF One
  <2>3. r = a => Count(heap, r) = 1
    BY <1>1 DEF Count
  <2> HIDE DEF a
  <2> QED
    BY <2>1, <2>2, <2>3
<1> QED
  BY <1>1, <1>2, FreedKeeps

LEMMA FinishKeeps ==
  ASSUME HeapAssumption, IInv, DoFinish
  PROVE  IInv'
<1> DEFINE a == The
<1>1. todo # << >> /\ Head(todo).do = "finish" /\ pads' = pads /\ stack' = stack /\ frame' = frame
  BY DEF DoFinish, Busy
<1>2. Shaped /\ a \in DOMAIN heap /\ heap[a].type = "object" /\ heap[a].destroyed
      /\ \A r : One(Head(todo), Release(r)) = 0
  BY <1>1, HeadIs DEF TaskShape, The, IInv
<1>3. CASE heap[a].refcnt # 0
  <2>1. heap' = heap /\ todo' = todo /\ mode' = "aborted"
    BY <1>3 DEF DoFinish
  <2>2. ASSUME NEW r \in Pos PROVE Count(heap', r) = Total(heap', pads', stack', frame', todo', r)
    BY <1>1, <2>1, Counts DEF Total, Summed
  <2>3. HeapOK(heap') /\ TodoOK(heap', todo') /\ Guarded(todo', stack', frame') /\ pads' \in [Pads -> Seq(Nat)]
        /\ stack' \in Seq(Pos) /\ FrameOK(frame', stack') /\ mode' \in {"run", "aborted"}
    BY <1>1, <1>2, <2>1 DEF Shaped, IInv
  <2> QED
    BY <2>2, <2>3, Keeps
<1>4. CASE heap[a].refcnt = 0
  <2>1. heap' = Freed(heap, a) /\ Then(Releases(heap[a].items)) /\ mode' = mode
    BY <1>4 DEF DoFinish
  <2>2. ASSUME NEW r \in Pos
        PROVE  (IF r = a THEN 0 ELSE Count(heap, r)) + One(Head(todo), Release(r)) = Count(heap, r)
    <3>1. Count(heap, r) \in Nat
      BY Counts DEF Summed
    <3>2. One(Head(todo), Release(r)) = 0
      BY <1>2
    <3>3. r = a => Count(heap, r) = 0
      BY <1>2, <1>4 DEF Count
    <3> HIDE DEF a
    <3> QED
      BY <3>1, <3>2, <3>3
  <2> QED
    BY <1>1, <1>2, <2>1, <2>2, FreedKeeps
<1> QED
  BY <1>3, <1>4

\* A class without a DESTROY.
LEMMA ReleaseUncalled ==
  ASSUME IInv, Busy("release"), IsLast(The), CallsDestroy(The), heap[The].script = "none",
         heap' = [heap EXCEPT ![The].destroyed = TRUE, ![The].refcnt = 0], Then(<< Finish(The) >>),
         UNCHANGED << pads, stack, frame, mode >>
  PROVE  IInv'
<1> DEFINE a == The
           old == heap[a]
           c == [old EXCEPT !.destroyed = TRUE, !.refcnt = 0]
           task == Finish(a)
           ts == << task >>
<1>1. /\ a \in Pos /\ todo # << >> /\ a \in DOMAIN heap /\ old.live /\ old \in CellType /\ CellShape(old)
      /\ heap[a].type = "object" /\ heap[a].script = "none"
  BY ReleasedIs DEF CallsDestroy
<1>2. CellTask(a, c, ts)
  BY DEF CellTask, Then
<1> HIDE DEF a
<1>3. task \in Tasks /\ task.do = "finish" /\ task.of = a
  BY <1>1 DEF Finish, Tasks, Pos
<1>4. c \in CellType /\ c.refcnt = 0 /\ c.live = old.live /\ c.type = old.type /\ c.items = old.items
      /\ c.script = old.script /\ c.destroyed /\ c.runs = old.runs
  <2> HIDE DEF old
  <2> QED
    BY <1>1 DEF CellType
<1> HIDE DEF c
<1>5. CellShape(c)
  BY <1>1, <1>4 DEF CellShape
<1> HIDE DEF task
<1>6. ts \in Seq(Tasks) /\ \A r \in Pos : Occurrences(ts, Release(r)) = 0
  <2>1. \A r : Release(r) # task
    <3>1. \A r : Release(r).do = "release"
      BY DEF Release
    <3> QED
      BY <1>3, <3>1
  <2>2. \A r : Occurrences(ts, Release(r)) = One(task, Release(r))
    BY OccOne
  <2> QED
    BY <1>3, <2>1, <2>2 DEF One
<1>7. heap' = [heap EXCEPT ![a] = c]
  BY <1>2 DEF CellTask
<1>8. a \in DOMAIN heap' /\ heap'[a] = c
  <2>1. heap \in Seq(CellType)
    BY Shapes DEF IInv
  <2> QED
    BY <1>1, <1>7, <2>1
<1>9. TodoOK(heap', ts) /\ SelfGuarded(ts)
  <2>1. \A i \in DOMAIN ts : ts[i] = task
    OBVIOUS
  <2>2. TaskShape(heap', task)
    BY <1>1, <1>3, <1>4, <1>8 DEF TaskShape
  <2>3. \A i \in DOMAIN ts : ts[i].do = "finish"
    BY <1>3, <2>1
  <2> HIDE DEF ts
  <2> QED
    BY <1>6, <2>1, <2>2, <2>3 DEF TodoOK, SelfGuarded
<1> HIDE DEF ts
<1>10. \A r \in Pos : Settled(a, c, ts, r)
  BY <1>4, <1>6, LastSettles DEF a
<1> QED
  BY <1>1, <1>2, <1>4, <1>5, <1>9, <1>10, CellTaskKeeps

\* DESTROY is called, with a reference of its own to the object.
LEMMA ReleaseCalls ==
  ASSUME IInv, Busy("release"), IsLast(The), CallsDestroy(The), heap[The].script # "none",
         heap' = [heap EXCEPT ![The].destroyed = TRUE, ![The].refcnt = 1, ![The].runs = Min({2, @ + 1})],
         Then(<< Body(The), Release(The), Finish(The) >>), UNCHANGED << pads, stack, frame, mode >>
  PROVE  IInv'
<1> DEFINE a == The
           old == heap[a]
           k == Min({2, old.runs + 1})
           c == [old EXCEPT !.destroyed = TRUE, !.refcnt = 1, !.runs = k]
           b == Body(a)
           d == Release(a)
           e == Finish(a)
           ts == << b, d, e >>
<1>1. /\ a \in Pos /\ todo # << >> /\ a \in DOMAIN heap /\ old.live /\ old \in CellType /\ CellShape(old)
      /\ old.type = "object" /\ old.script # "none" /\ ~old.destroyed
  BY ReleasedIs DEF CallsDestroy
<1>2. CellTask(a, c, ts)
  BY DEF CellTask, Then
<1>3. k = 1
  <2>1. old.runs = 0
    BY <1>1 DEF CellShape
  <2>2. Min({2, 1}) = 1
    <3>1. \E x \in {2, 1} : \A y \in {2, 1} : x <= y
      OBVIOUS
    <3>2. Min({2, 1}) \in {2, 1} /\ \A y \in {2, 1} : Min({2, 1}) <= y
      BY <3>1 DEF Min
    <3> QED
      BY <3>2
  <2> QED
    BY <2>1, <2>2
<1> HIDE DEF a
<1>4. /\ b \in Tasks /\ b.do = "body" /\ b.of = a
      /\ d \in Tasks /\ d.do = "release" /\ d.of = a /\ d = Release(a)
      /\ e \in Tasks /\ e.do = "finish" /\ e.of = a
  BY <1>1 DEF Body, Release, Finish, Tasks, Pos
<1> HIDE DEF k
<1>5. c \in CellType /\ c.refcnt = 1 /\ c.live = old.live /\ c.type = old.type /\ c.items = old.items
      /\ c.script = old.script /\ c.destroyed /\ c.runs = 1
  <2> HIDE DEF old
  <2> QED
    BY <1>1, <1>3 DEF CellType
<1> HIDE DEF c
<1>6. CellShape(c)
  BY <1>1, <1>5 DEF CellShape
<1> HIDE DEF b, d, e
<1>7. ts \in Seq(Tasks) /\ \A r \in Pos : Occurrences(ts, Release(r)) = One(a, r)
  <2> DEFINE two == << b, d >>
             one == << b >>
  <2>1. one \in Seq(Tasks) /\ two = Append(one, d) /\ two \in Seq(Tasks) /\ ts = Append(two, e) /\ ts \in Seq(Tasks)
    BY <1>4
  <2>2. \A r : Occurrences(one, r) = One(b, r)
    BY OccOne
  <2> HIDE DEF one, two, ts
  <2>3. \A r : Occurrences(two, r) = Occurrences(one, r) + One(d, r)
    BY <1>4, <2>1, OccAppend
  <2>4. \A r : Occurrences(ts, r) = Occurrences(two, r) + One(e, r)
    BY <1>4, <2>1, OccAppend
  <2>5. \A r : b # Release(r) /\ e # Release(r)
    <3>1. \A r : Release(r).do = "release"
      BY DEF Release
    <3> QED
      BY <1>4, <3>1
  <2>6. \A r \in Pos : One(d, Release(r)) = One(a, r)
    BY <1>1, <1>4, DropsAre
  <2>7. \A r \in Pos : One(b, Release(r)) = 0 /\ One(e, Release(r)) = 0 /\ One(a, r) \in Nat
    BY <2>5 DEF One
  <2> QED
    BY <2>1, <2>2, <2>3, <2>4, <2>6, <2>7
<1>8. heap' = [heap EXCEPT ![a] = c]
  BY <1>2 DEF CellTask
<1>9. a \in DOMAIN heap' /\ heap'[a] = c
  <2>1. heap \in Seq(CellType)
    BY Shapes DEF IInv
  <2> QED
    BY <1>1, <1>8, <2>1
<1>10. DOMAIN ts = 1..3 /\ ts[1] = b /\ ts[2] = d /\ ts[3] = e
  OBVIOUS
<1>11. TodoOK(heap', ts) /\ SelfGuarded(ts)
  <2>1. TaskShape(heap', b) /\ TaskShape(heap', d) /\ TaskShape(heap', e)
    BY <1>1, <1>4, <1>5, <1>9 DEF TaskShape, Pos
  <2> HIDE DEF ts
  <2>2. \A i \in DOMAIN ts : ts[i] = b \/ ts[i] = d \/ ts[i] = e
    BY <1>10
  <2>3. ReleasedAfter(ts, 1, a)
    BY <1>4, <1>10 DEF ReleasedAfter
  <2>4. \A i \in DOMAIN ts : i = 1 \/ ts[i] = d \/ ts[i] = e
    BY <1>10
  <2>5. \A i \in DOMAIN ts : /\ ts[i].do # "iterate" /\ ts[i].do # "insert"
                             /\ ts[i].do = "body" => i = 1
    BY <1>4, <2>2, <2>4
  <2>6. SelfGuarded(ts)
    BY <1>4, <1>10, <2>3, <2>5 DEF SelfGuarded
  <2> QED
    BY <1>7, <2>1, <2>2, <2>6 DEF TodoOK
<1> HIDE DEF ts
<1>12. \A r \in Pos : Settled(a, c, ts, r)
  BY <1>5, <1>7, LastSettles DEF a
<1> QED
  BY <1>1, <1>2, <1>5, <1>6, <1>11, <1>12, CellTaskKeeps

\* The second time.
LEMMA ReleaseAgain ==
  ASSUME IInv, Busy("release"), IsLast(The), heap[The].type = "object",
         heap' = [heap EXCEPT ![The].refcnt = 0], Then(<< >>), UNCHANGED << pads, stack, frame, mode >>
  PROVE  IInv'
<1> DEFINE a == The
           old == heap[a]
           c == [old EXCEPT !.refcnt = 0]
           ts == << >>
<1>1. /\ a \in Pos /\ todo # << >> /\ a \in DOMAIN heap /\ old.live /\ old \in CellType /\ CellShape(old)
  BY ReleasedIs
<1>2. CellTask(a, c, ts)
  BY DEF CellTask, Then
<1> HIDE DEF a
<1>3. c \in CellType /\ c.refcnt = 0 /\ c.live = old.live /\ c.type = old.type /\ c.items = old.items
      /\ c.script = old.script /\ c.destroyed = old.destroyed /\ c.runs = old.runs
  <2> HIDE DEF old
  <2> QED
    BY <1>1, CellRecount
<1> HIDE DEF c
<1>4. CellShape(c)
  BY <1>1, <1>3 DEF CellShape
<1>5. ts \in Seq(Tasks) /\ TodoOK(heap', ts) /\ SelfGuarded(ts) /\ \A r \in Pos : Occurrences(ts, Release(r)) = 0
  BY Idle DEF SelfGuarded, TodoOK
<1> HIDE DEF ts
<1>6. \A r \in Pos : Settled(a, c, ts, r)
  BY <1>3, <1>5, LastSettles DEF a
<1> QED
  BY <1>1, <1>2, <1>3, <1>4, <1>5, <1>6, CellTaskKeeps

LEMMA ReleaseKeeps ==
  ASSUME HeapAssumption, IInv, DoRelease
  PROVE  IInv'
<1>1. Busy("release") /\ UNCHANGED << pads, stack, frame, mode >>
  BY DEF DoRelease
<1>2. CASE ~IsLast(The)
  <2>1. heap' = [heap EXCEPT ![The].refcnt = @ - 1] /\ Then(<< >>)
    BY <1>2 DEF DoRelease
  <2> QED
    BY <1>1, <1>2, <2>1, ReleaseShared
<1>3. CASE IsLast(The) /\ CallsDestroy(The) /\ heap[The].script = "none"
  <2>1. heap' = [heap EXCEPT ![The].destroyed = TRUE, ![The].refcnt = 0, ![The].runs = @] /\ Then(<< Finish(The) >>)
    BY <1>3 DEF DoRelease
  <2>2. heap' = [heap EXCEPT ![The].destroyed = TRUE, ![The].refcnt = 0]
    <3>1. heap \in Seq(CellType) /\ The \in DOMAIN heap /\ heap[The] \in CellType
      BY <1>1, ReleasedIs, Shapes DEF IInv
    <3> QED
      BY <2>1, <3>1 DEF CellType
  <2> QED
    BY <1>1, <1>3, <2>1, <2>2, ReleaseUncalled
<1>4. CASE IsLast(The) /\ CallsDestroy(The) /\ heap[The].script # "none"
  <2>1. heap' = [heap EXCEPT ![The].destroyed = TRUE, ![The].refcnt = 1, ![The].runs = Min({2, @ + 1})]
        /\ Then(<< Body(The), Release(The), Finish(The) >>)
    BY <1>4 DEF DoRelease
  <2> QED
    BY <1>1, <1>4, <2>1, ReleaseCalls
<1>5. CASE IsLast(The) /\ ~CallsDestroy(The) /\ heap[The].type = "object"
  <2>1. heap' = [heap EXCEPT ![The].refcnt = 0] /\ Then(<< >>)
    BY <1>5 DEF DoRelease
  <2> QED
    BY <1>1, <1>5, <2>1, ReleaseAgain
<1>6. CASE IsLast(The) /\ heap[The].type # "object"
  <2>1. heap' = Freed(heap, The) /\ Then(Releases(heap[The].items))
    BY <1>6 DEF DoRelease, CallsDestroy
  <2> QED
    BY <1>1, <1>6, <2>1, ReleaseFrees
<1> QED
  BY <1>2, <1>3, <1>4, <1>5, <1>6 DEF CallsDestroy

\* An assignment in a DESTROY method: its operand is dropped afterwards.
Dropping(s, v, ts) == ts = s \o Releases(<< v >>)

LEMMA SetThenDrop ==
  ASSUME NEW v \in Pos, NEW s, Plain(s, v), NEW ts, Dropping(s, v, ts)
  PROVE  /\ \A h : TodoOK(h, ts)
         /\ SelfGuarded(ts)
         /\ \A r \in Pos : Occurrences(ts, Release(r)) = One(v, r)
<1> DEFINE d == Releases(<< v >>)
<1>1. v \in Nat /\ ts = s \o d
  BY DEF Pos, Dropping
<1>2. d \in Seq(Drops) /\ \A r \in Pos : Occurrences(d, Release(r)) = One(v, r)
  BY <1>1, ReleaseOne
<1> HIDE DEF d
<1>3. d \in Seq(Tasks) /\ (\A i \in DOMAIN d : d[i].do = "release") /\ \A h : TodoOK(h, d)
  BY <1>2, DropsAre, DropsOK DEF TodoOK
<1>4. s \in Seq(Tasks) /\ (\A h : TodoOK(h, s)) /\ \A r \in Pos : Occurrences(s, Release(r)) = 0
  BY PlainIs DEF Plain
<1>5. \A h : TodoOK(h, ts)
  BY <1>1, <1>3, <1>4, TodoConcat
<1>6. \A r \in Pos : Occurrences(ts, Release(r)) = One(v, r)
  <2>1. \A r : Occurrences(ts, Release(r)) = Occurrences(s, Release(r)) + Occurrences(d, Release(r))
    BY <1>1, <1>3, <1>4, OccConcat
  <2> QED
    BY <1>2, <1>4, <2>1, OneNat
<1>7. PICK j \in DOMAIN d : d[j] = Release(v)
  <2>1. Occurrences(d, Release(v)) # 0
    BY <1>2 DEF One
  <2> QED
    BY <1>3, <2>1, OccAbsent
<1>8. /\ ts \in Seq(Tasks) /\ Len(ts) = Len(s) + Len(d) /\ Len(s) \in Nat /\ Len(d) \in Nat
      /\ (\A i \in 1..Len(s) : ts[i] = s[i]) /\ \A i \in 1..Len(d) : ts[Len(s) + i] = d[i]
  BY <1>1, <1>3, <1>4, ConcatIs
<1>9. ASSUME NEW i \in DOMAIN ts
      PROVE  /\ ts[i].do # "iterate"
             /\ ts[i].do = "body" \/ (ts[i].do = "insert" /\ ts[i].of # 0) => ReleasedAfter(ts, i, ts[i].of)
  <2>1. CASE i \in 1..Len(s)
    <3>1. i \in DOMAIN s /\ ts[i] = s[i]
      BY <1>4, <1>8, <2>1
    <3>2. ts[i].do \in {"shift", "shrink", "insert"} /\ (ts[i].do = "insert" => ts[i].of = v)
      BY <3>1 DEF Plain
    <3>3. ReleasedAfter(ts, i, v)
      <4>1. j \in 1..Len(d)
        BY <1>3
      <4>2. Len(s) + j \in DOMAIN ts /\ Len(s) + j > i /\ ts[Len(s) + j] = Release(v)
        <5> DEFINE m == Len(s) + j
        <5>1. m \in 1..Len(ts) /\ m > i
          BY <1>8, <2>1, <4>1
        <5>2. ts[m] = d[j]
          BY <1>8, <4>1
        <5> HIDE DEF m
        <5>3. m \in DOMAIN ts
          BY <1>8, <5>1
        <5> QED
          BY <1>7, <5>1, <5>2, <5>3 DEF m
      <4> QED
        BY <4>2 DEF ReleasedAfter
    <3> QED
      BY <3>2, <3>3
  <2>2. CASE i \notin 1..Len(s)
    <3> DEFINE k == i - Len(s)
    <3>1. k \in 1..Len(d) /\ i = Len(s) + k
      BY <1>8, <2>2
    <3> HIDE DEF k
    <3>2. k \in DOMAIN d /\ ts[i] = d[k]
      BY <1>3, <1>8, <3>1
    <3>3. ts[i].do = "release"
      BY <1>3, <3>2
    <3> QED
      BY <3>3
  <2> QED
    BY <2>1, <2>2
<1> QED
  BY <1>5, <1>6, <1>9 DEF SelfGuarded

LEMMA BodyKeeps ==
  ASSUME HeapAssumption, IInv, DoBody
  PROVE  IInv'
<1> DEFINE a == The
<1>1. todo # << >> /\ Head(todo).do = "body" /\ pads' = pads /\ stack' = stack /\ frame' = frame /\ mode' = mode
  BY DEF DoBody, Busy
<1>2. Shaped /\ a \in DOMAIN heap /\ heap[a].type = "object" /\ a \in Pos /\ ReleasedAfter(todo, 1, a)
      /\ \A r : One(Head(todo), Release(r)) = 0
  <2>1. a \in DOMAIN heap /\ heap[a].type = "object" /\ \A r : One(Head(todo), Release(r)) = 0
    BY <1>1, HeadIs DEF TaskShape, The
  <2>2. ReleasedAfter(todo, 1, a)
    BY <1>1, HeadIs DEF GuardedTask, The
  <2>3. Shaped /\ a \in Pos
    BY <2>1, Shapes, HeapIs DEF IInv
  <2> QED
    BY <2>1, <2>2, <2>3
<1>3. Alive(a) /\ heap[a] \in CellType /\ CellShape(heap[a]) /\ HeapOK(heap) /\ pads \in [Pads -> Seq(Nat)]
  BY <1>2, LaterAlive, Shapes, HeapIs
<1>4. CASE heap[a].script = "quiet"
  <2> DEFINE ts == << >>
  <2>1. heap' = heap /\ todo' = ts \o Tail(todo)
    BY <1>4 DEF DoBody, Then
  <2>2. ASSUME NEW r \in Pos PROVE Moved(ts, r)
    <3>1. Occurrences(ts, Release(r)) = 0 /\ One(Head(todo), Release(r)) = 0
      BY <1>2, Idle
    <3> HIDE DEF ts
    <3> QED
      BY <1>1, <2>1, <3>1 DEF Moved
  <2>3. HeapOK(heap') /\ Evolves(heap, heap') /\ TodoOK(heap', ts) /\ SelfGuarded(ts) /\ pads' \in [Pads -> Seq(Nat)]
    BY <1>1, <1>3, <2>1, SameHeap, Idle DEF SelfGuarded
  <2> HIDE DEF ts
  <2> QED
    BY <1>1, <2>1, <2>2, <2>3, TaskKeeps
<1>5. CASE heap[a].script # "quiet"
  <2> DEFINE v == IF heap[a].script = "self" THEN a ELSE heap[a].items[1]
             s == Set("outer", DestroyVar, v)
             d == Releases(<< v >>)
             ts == s \o d
  <2>1. heap' = Retain(heap, v) /\ todo' = ts \o Tail(todo)
    BY <1>5 DEF DoBody, Then
  <2>2. v \in Pos /\ Alive(v)
    <3>1. CASE heap[a].script = "self"
      BY <1>2, <1>3, <3>1
    <3>2. CASE heap[a].script # "self"
      <4> DEFINE w == heap[a].items[1]
      <4>1. heap[a].live /\ heap[a].items \in Seq(Pos) /\ Len(heap[a].items) = 1
        BY <1>2, <1>3 DEF Alive, CellType, CellShape
      <4>2. 1 \in DOMAIN heap[a].items /\ w \in Pos
        BY <4>1
      <4>3. \E q \in DOMAIN heap : heap[q].live /\ \E i \in DOMAIN heap[q].items : heap[q].items[i] = w
        BY <1>2, <4>1, <4>2
      <4> HIDE DEF w
      <4>4. Alive(w)
        BY <4>2, <4>3, OwnedLive
      <4> QED
        BY <3>2, <4>2, <4>4 DEF w
    <3> QED
      BY <3>1, <3>2
  <2> HIDE DEF v
  <2>3. Plain(s, v)
    <3>1. "outer" \in Pads /\ DestroyVar \in Pos /\ v \in Nat
      BY <2>2 DEF Pads, Pos, HeapAssumption
    <3> QED
      BY <1>3, <3>1, SetIs
  <2> HIDE DEF s
  <2>4. (\A h : TodoOK(h, ts)) /\ SelfGuarded(ts) /\ \A r \in Pos : Occurrences(ts, Release(r)) = One(v, r)
    <3>1. Dropping(s, v, ts)
      BY DEF Dropping
    <3> HIDE DEF d, ts
    <3> QED
      BY <2>2, <2>3, <3>1, SetThenDrop
  <2> HIDE DEF ts, d
  <2>5. Retained(heap, heap', v)
    <3>1. v \in Nat /\ (v # 0 => v \in DOMAIN heap /\ heap[v].live)
      BY <2>2 DEF Alive, Pos
    <3> QED
      BY <1>3, <2>1, <3>1, RetainIs
  <2>6. ASSUME NEW r \in Pos PROVE Moved(ts, r)
    <3>1. Holds(heap', r) = Holds(heap, r) /\ Count(heap', r) = Count(heap, r) + One(v, r)
      BY <2>5 DEF Retained
    <3> DEFINE hc == Count(heap, r)
               hh == Holds(heap, r)
               hp == PadHolds(pads, r)
               ov == One(v, r)
    <3>2. hc \in Nat /\ hh \in Nat /\ hp \in Nat /\ ov \in Nat
      <4>1. Summed(r)
        BY Counts
      <4> QED
        BY <4>1 DEF Summed, PadHolds
    <3>3. Occurrences(ts, Release(r)) = One(v, r) /\ One(Head(todo), Release(r)) = 0
      BY <1>2, <2>4
    <3>4. Moved(ts, r) <=> (hc + ov) + hp + hh + 0 = hc + hp + hh + ov
      BY <1>1, <3>1, <3>3 DEF Moved
    <3> HIDE DEF hc, hh, hp, ov
    <3> QED
      BY <3>2, <3>4
  <2>7. HeapOK(heap') /\ Evolves(heap, heap') /\ TodoOK(heap', ts) /\ pads' \in [Pads -> Seq(Nat)]
    BY <1>1, <1>3, <2>4, <2>5 DEF Retained
  <2> QED
    BY <1>1, <2>1, <2>4, <2>6, <2>7, TaskKeeps
<1> QED
  BY <1>4, <1>5

\* The rest of OP_FOR_ITER is the last task, with only the operands below the frame.
LEMMA IterateIs ==
  ASSUME IInv, Busy("iterate")
  PROVE  /\ Shaped /\ todo # << >> /\ frame.kind = "foreach" /\ Len(stack) = frame.top /\ Len(stack) \in Nat
         /\ \A r : Occurrences(todo, Release(r)) = 0
         /\ \A ts \in Seq(Tasks) : ts \o Tail(todo) = ts
         /\ frame.of \in Pos /\ Alive(frame.of) /\ heap[frame.of] \in CellType /\ CellShape(heap[frame.of])
<1>1. todo # << >> /\ Head(todo).do = "iterate"
  BY DEF Busy
<1>2. Shaped /\ todo \in Seq(Tasks) /\ stack \in Seq(Pos) /\ FrameOK(frame, stack) /\ frame.of \in Nat /\ HeapOK(heap)
  BY Shapes DEF IInv
<1>3. 1 = Len(todo) /\ frame.kind = "foreach" /\ Len(stack) = frame.top /\ \A r : One(Head(todo), Release(r)) = 0
  <2>1. GuardedTask(todo, 1, stack, frame) /\ todo[1] = Head(todo) /\ \A r : One(Head(todo), Release(r)) = 0
    BY <1>1, HeadIs
  <2> QED
    BY <1>1, <2>1 DEF GuardedTask
<1>4. Tail(todo) = << >> /\ \A r : Occurrences(todo, r) = One(Head(todo), r) + Occurrences(Tail(todo), r)
  <2>1. todo \in Seq(Tasks) /\ todo # << >> /\ Len(todo) = 1
    BY <1>1, <1>2, <1>3
  <2>2. Tail(todo) \in Seq(Tasks) /\ Len(Tail(todo)) = 0
        /\ \A r : Occurrences(todo, r) = One(Head(todo), r) + Occurrences(Tail(todo), r)
    <3>1. /\ Tail(todo) \in Seq(Tasks) /\ Len(Tail(todo)) = Len(todo) - 1
          /\ \A r : Occurrences(todo, r) = One(Head(todo), r) + Occurrences(Tail(todo), r)
      BY <2>1, OccTail
    <3> QED
      BY <2>1, <3>1
  <2> DEFINE rest == Tail(todo)
  <2>3. rest \in Seq(Tasks) /\ Len(rest) = 0
    BY <2>2
  <2> HIDE DEF rest
  <2>4. rest = << >>
    BY <2>3
  <2> QED
    BY <2>2, <2>4 DEF rest
<1>5. ASSUME NEW r PROVE Occurrences(todo, Release(r)) = 0
  <2> DEFINE t == Release(r)
  <2>1. One(Head(todo), t) = 0
    BY <1>3
  <2>2. Occurrences(todo, t) = One(Head(todo), t) + Occurrences(Tail(todo), t)
    BY <1>4
  <2>3. Occurrences(Tail(todo), t) = 0
    BY <1>4, OccNone
  <2> HIDE DEF t
  <2>4. Occurrences(todo, t) = 0
    BY <2>1, <2>2, <2>3
  <2> QED
    BY <2>4 DEF t
<1>6. ASSUME NEW ts \in Seq(Tasks) PROVE ts \o Tail(todo) = ts
  <2> DEFINE rest == Tail(todo)
  <2>1. rest = << >>
    BY <1>4
  <2> HIDE DEF rest
  <2>2. ts \o << >> = ts
    OBVIOUS
  <2>3. ts \o rest = ts
    BY <2>1, <2>2
  <2> QED
    BY <2>3 DEF rest
<1>7. frame.of \in Pos
  BY <1>2, <1>3 DEF FrameOK, Pos
<1>8. Alive(frame.of)
  BY <1>7, OwnedLive
<1>9. heap[frame.of] \in CellType /\ CellShape(heap[frame.of])
  BY <1>2, <1>8, HeapIs DEF Alive
<1> QED
  BY <1>1, <1>2, <1>3, <1>5, <1>6, <1>7, <1>8, <1>9

LEMMA PushedIs ==
  ASSUME Shaped, NEW w \in Pos, NEW s, s = Append(stack, w)
  PROVE  /\ s \in Seq(Pos) /\ Len(s) = Len(stack) + 1 /\ w \in Range(s)
         /\ \A r : Occurrences(s, r) = Occurrences(stack, r) + One(w, r)
<1>1. stack \in Seq(Pos) /\ Len(stack) \in Nat
  BY Shapes
<1>2. s \in Seq(Pos) /\ Len(s) = Len(stack) + 1 /\ s[Len(stack) + 1] = w
  BY <1>1, AppendIs
<1>3. \A r : Occurrences(s, r) = Occurrences(stack, r) + One(w, r)
  BY <1>1, OccAppend
<1>4. Len(stack) + 1 \in DOMAIN s
  BY <1>1, <1>2
<1> QED
  BY <1>2, <1>3, <1>4 DEF Range

\* A turn of a loop with value w, which is there already.
TurnOf(w) ==
  /\ stack' = Append(stack, w) /\ frame' = [frame EXCEPT !.counter = frame.counter + 1]
  /\ todo' = Set("inner", 1, w) \o Tail(todo) /\ pads' = pads /\ mode' = mode

LEMMA TurnKeeps ==
  ASSUME IInv, Busy("iterate"), NEW w \in Pos, TurnOf(w), HeapOK(heap'),
         \A r \in Pos : Holds(heap', r) = Holds(heap, r) /\ Count(heap', r) = Count(heap, r) + One(w, r)
  PROVE  IInv'
<1>1. stack' = Append(stack, w) /\ frame' = [frame EXCEPT !.counter = frame.counter + 1]
      /\ todo' = Set("inner", 1, w) \o Tail(todo) /\ pads' = pads /\ mode' = mode
  BY DEF TurnOf
<1>2. Shaped /\ Len(stack) = frame.top /\ Len(stack) \in Nat /\ \A r : Occurrences(todo, Release(r)) = 0
      /\ \A ts \in Seq(Tasks) : ts \o Tail(todo) = ts
  BY IterateIs
<1>3. Plain(todo', w)
  <2>1. pads \in [Pads -> Seq(Nat)] /\ "inner" \in Pads /\ 1 \in Pos /\ w \in Nat
    BY <1>2, Shapes DEF Pads, Pos
  <2>2. Plain(Set("inner", 1, w), w)
    BY <2>1, SetIs
  <2>3. todo' = Set("inner", 1, w)
    BY <1>1, <1>2, <2>2 DEF Plain
  <2> QED
    BY <2>2, <2>3
<1>4. TodoOK(heap', todo') /\ \A r \in Pos : Occurrences(todo', Release(r)) = 0
  BY <1>3, PlainIs
<1>5. stack' \in Seq(Pos) /\ Len(stack') = Len(stack) + 1 /\ w \in Range(stack')
      /\ \A r : Occurrences(stack', r) = Occurrences(stack, r) + One(w, r)
  BY <1>1, <1>2, PushedIs
<1>6. Guarded(todo', stack', frame')
  <2>1. \A i \in DOMAIN todo' : /\ todo'[i].do \in {"release", "shift", "shrink", "insert"}
                                /\ todo'[i].do = "insert" /\ todo'[i].of # 0 => todo'[i].of \in Range(stack')
    BY <1>3, <1>5 DEF Plain
  <2> QED
    BY <2>1, GuardOps
<1>7. FrameOK(frame', stack') /\ frame'.cur = frame.cur /\ frame'.of = frame.of
  <2>1. frame \in FrameType /\ FrameOK(frame, stack) /\ frame.counter + 1 \in Nat
    BY <1>2, Shapes
  <2>2. frame' \in FrameType /\ frame'.kind = frame.kind /\ frame'.top = frame.top /\ frame'.of = frame.of
        /\ frame'.cur = frame.cur
    BY <1>1, <2>1 DEF FrameType
  <2>3. frame'.top <= Len(stack')
    BY <1>2, <1>5, <2>2
  <2> QED
    BY <2>1, <2>2, <2>3 DEF FrameOK
<1>8. ASSUME NEW r \in Pos PROVE Count(heap', r) = Total(heap', pads', stack', frame', todo', r)
  <2>1. Total(heap', pads', stack', frame', todo', r)
          = Occurrences(pads.outer, r) + Occurrences(pads.inner, r) + Occurrences(stack', r)
              + (One(frame.cur, r) + One(frame.of, r)) + Occurrences(todo', Release(r)) + Holds(heap', r)
    BY <1>1, <1>7 DEF Total
  <2>2. Holds(heap', r) = Holds(heap, r) /\ Count(heap', r) = Count(heap, r) + One(w, r)
    OBVIOUS
  <2>3. Occurrences(stack', r) = Occurrences(stack, r) + One(w, r)
        /\ Occurrences(todo', Release(r)) = 0 /\ Occurrences(todo, Release(r)) = 0
    BY <1>2, <1>4, <1>5
  <2>4. Summed(r)
    BY Counts
  <2> QED
    BY <2>1, <2>2, <2>3, <2>4 DEF Summed
<1>9. pads' \in [Pads -> Seq(Nat)] /\ mode' \in {"run", "aborted"}
  BY <1>1, <1>2 DEF Shaped
<1> QED
  BY <1>4, <1>5, <1>6, <1>7, <1>8, <1>9, Keeps

LEMMA IterateArray ==
  ASSUME IInv, DoIterate, heap[frame.of].type = "array", frame.counter < Len(heap[frame.of].items)
  PROVE  IInv'
<1> DEFINE items == heap[frame.of].items
           w == items[frame.counter + 1]
<1>1. Busy("iterate") /\ TurnOf(w) /\ heap' = Retain(heap, w)
  BY DEF DoIterate, TurnOf, Turn, Then
<1>2. Shaped /\ frame.of \in DOMAIN heap /\ heap[frame.of].live /\ heap[frame.of] \in CellType /\ frame.counter \in Nat
      /\ HeapOK(heap)
  BY <1>1, IterateIs, Shapes DEF Alive
<1>3. items \in Seq(Pos)
  BY <1>2 DEF CellType
<1>4. frame.counter + 1 \in DOMAIN items /\ w \in Pos
  BY <1>2, <1>3
<1>5. Alive(w)
  BY <1>2, <1>4, OwnedLive
<1> HIDE DEF w
<1>6. Retained(heap, heap', w)
  <2>1. w \in Nat /\ (w # 0 => w \in DOMAIN heap /\ heap[w].live)
    BY <1>4, <1>5 DEF Alive, Pos
  <2> QED
    BY <1>1, <1>2, <2>1, RetainIs
<1>7. HeapOK(heap')
      /\ \A r \in Pos : Holds(heap', r) = Holds(heap, r) /\ Count(heap', r) = Count(heap, r) + One(w, r)
  BY <1>6 DEF Retained
<1> QED
  BY <1>1, <1>4, <1>7, TurnKeeps

LEMMA IterateUncopied ==
  ASSUME HeapAssumption, IInv, DoIterate, heap[frame.of].type = "int", InRange(frame.counter), IsUncopied
  PROVE  IInv'
<1> DEFINE w == frame.cur
           k == frame.counter
           h == Retain(heap, w)
<1>1. Busy("iterate") /\ TurnOf(w) /\ heap' = [h EXCEPT ![w].n = k]
  BY DEF DoIterate, TurnOf, Turn, Then
<1>2. Shaped /\ heap[frame.of] \in CellType /\ k \in Nat /\ HeapOK(heap) /\ w \in Nat
  BY <1>1, IterateIs, Shapes
<1>3. k \in 0..MaxInt
  <2>1. heap[frame.of].n \in 0..MaxInt /\ k <= heap[frame.of].n
    BY <1>2 DEF CellType, InRange
  <2> HIDE DEF k
  <2> QED
    BY <1>2, <2>1 DEF HeapAssumption
<1>4. w \in Pos /\ Alive(w)
  <2>1. w \in Pos
    BY <1>2 DEF IsUncopied, Undef, Pos
  <2> QED
    BY <2>1, OwnedLive
<1> HIDE DEF w, k
<1>5. Retained(heap, h, w)
  <2>1. w \in Nat /\ (w # 0 => w \in DOMAIN heap /\ heap[w].live)
    BY <1>4 DEF Alive, Pos
  <2> QED
    BY <1>2, <2>1, RetainIs
<1> HIDE DEF h
<1>6. Renumbered(h, heap')
  <2>1. HeapOK(h) /\ w \in DOMAIN h
    BY <1>4, <1>5 DEF Retained, Alive
  <2> QED
    BY <1>1, <1>3, <2>1, NumberPut
<1>7. HeapOK(heap')
      /\ \A r \in Pos : Holds(heap', r) = Holds(heap, r) /\ Count(heap', r) = Count(heap, r) + One(w, r)
  BY <1>5, <1>6 DEF Retained, Renumbered
<1> QED
  BY <1>1, <1>4, <1>7, TurnKeeps

LEMMA IterateFresh ==
  ASSUME HeapAssumption, IInv, DoIterate, heap[frame.of].type = "int", InRange(frame.counter), ~IsUncopied
  PROVE  IInv'
<1> DEFINE n == Len(heap) + 1
           k == frame.counter
           c == [Cell("int", k, << >>, "none") EXCEPT !.refcnt = 2]
           d == Releases(<< frame.cur >>)
           s == Set("inner", 1, n)
<1>1. /\ Busy("iterate") /\ stack' = Append(stack, n) /\ heap' = Append(heap, c) /\ pads' = pads /\ mode' = mode
      /\ frame' = [frame EXCEPT !.counter = k + 1, !.cur = n] /\ todo' = (d \o s) \o Tail(todo)
  BY DEF DoIterate, Turn, Then
<1>2. /\ Shaped /\ frame.kind = "foreach" /\ Len(stack) = frame.top /\ Len(stack) \in Nat
      /\ \A r : Occurrences(todo, Release(r)) = 0
      /\ \A ts \in Seq(Tasks) : ts \o Tail(todo) = ts
      /\ heap[frame.of] \in CellType
  BY <1>1, IterateIs
<1>3. HeapOK(heap) /\ k \in Nat /\ frame.cur \in Nat /\ frame \in FrameType /\ FrameOK(frame, stack)
      /\ pads \in [Pads -> Seq(Nat)]
  BY <1>2, Shapes
<1>4. c \in CellType /\ CellShape(c) /\ c.items = << >> /\ c.refcnt = 2
  <2>1. k \in 0..MaxInt
    <3>1. heap[frame.of].n \in 0..MaxInt /\ k <= heap[frame.of].n
      BY <1>2 DEF CellType, InRange
    <3> HIDE DEF k
    <3> QED
      BY <1>3, <3>1 DEF HeapAssumption
  <2> DEFINE b == Cell("int", k, << >>, "none")
  <2> HIDE DEF k
  <2>2. b \in CellType /\ b.items = << >> /\ b.type = "int" /\ b.live
    BY <2>1 DEF Cell, CellType
  <2> HIDE DEF b
  <2>3. /\ c \in CellType /\ c.refcnt = 2 /\ c.live = b.live /\ c.type = b.type /\ c.items = b.items
    BY <2>2, CellRecount DEF b
  <2> HIDE DEF c
  <2> QED
    BY <2>2, <2>3 DEF CellShape
<1> HIDE DEF c, n, k
<1>5. Added(heap, heap', n, c)
  BY <1>1, <1>3, <1>4, CellAppend DEF n
<1>6. n \in Pos
  BY <1>5 DEF Added
<1>7. stack' \in Seq(Pos) /\ Len(stack') = Len(stack) + 1 /\ n \in Range(stack')
      /\ \A r : Occurrences(stack', r) = Occurrences(stack, r) + One(n, r)
  BY <1>1, <1>2, <1>6, PushedIs
<1>8. d \in Seq(Drops) /\ \A r \in Pos : Occurrences(d, Release(r)) = One(frame.cur, r)
  BY <1>3, ReleaseOne
<1>9. Plain(s, n)
  <2>1. "inner" \in Pads /\ 1 \in Pos /\ n \in Nat
    BY <1>6 DEF Pads, Pos
  <2> QED
    BY <1>3, <2>1, SetIs
<1> HIDE DEF d, s
<1>10. /\ (\A h : TodoOK(h, d) /\ TodoOK(h, s)) /\ d \in Seq(Tasks) /\ s \in Seq(Tasks)
       /\ \A r \in Pos : Occurrences(s, Release(r)) = 0
  <2>1. (\A h : TodoOK(h, d)) /\ (\A h : TodoOK(h, s)) /\ \A r \in Pos : Occurrences(s, Release(r)) = 0
    BY <1>8, <1>9, DropsOK, PlainIs
  <2> QED
    BY <2>1 DEF TodoOK
<1>11. todo' = d \o s /\ d \o s \in Seq(Tasks)
  <2>1. d \o s \in Seq(Tasks)
    BY <1>10, ConcatIs
  <2> QED
    BY <1>1, <1>2, <2>1
<1>12. TodoOK(heap', todo') /\ \A r \in Pos : Occurrences(todo', Release(r)) = One(frame.cur, r)
  <2>1. TodoOK(heap', d) /\ TodoOK(heap', s)
    BY <1>10
  <2>2. TodoOK(heap', d \o s)
    BY <2>1, TodoConcat
  <2>3. \A r : Occurrences(d \o s, Release(r)) = Occurrences(d, Release(r)) + Occurrences(s, Release(r))
    BY <1>10, OccConcat
  <2>4. \A r \in Pos : Occurrences(todo', Release(r)) = One(frame.cur, r) + 0
    BY <1>8, <1>10, <1>11, <2>3
  <2> QED
    BY <1>11, <2>2, <2>4 DEF One
<1>13. Guarded(todo', stack', frame')
  <2>1. ASSUME NEW i \in DOMAIN todo'
        PROVE  /\ todo'[i].do \in {"release", "shift", "shrink", "insert"}
               /\ todo'[i].do = "insert" /\ todo'[i].of # 0 => todo'[i].of \in Range(stack')
    <3>1. /\ Len(todo') = Len(d) + Len(s) /\ Len(d) \in Nat /\ Len(s) \in Nat /\ i \in 1..Len(todo')
          /\ (\A j \in 1..Len(d) : todo'[j] = d[j]) /\ \A j \in 1..Len(s) : todo'[Len(d) + j] = s[j]
      BY <1>10, <1>11, <2>1, ConcatIs
    <3>2. CASE i \in 1..Len(d)
      <4>1. todo'[i].do = "release"
        BY <1>8, <3>1, <3>2, DropsAre
      <4> QED
        BY <4>1
    <3>3. CASE i \notin 1..Len(d)
      <4> DEFINE j == i - Len(d)
      <4>1. j \in 1..Len(s) /\ i = Len(d) + j
        BY <3>1, <3>3
      <4> HIDE DEF j
      <4>2. j \in DOMAIN s /\ todo'[i] = s[j]
        BY <1>10, <3>1, <4>1
      <4> QED
        BY <1>7, <1>9, <4>2 DEF Plain
    <3> QED
      BY <3>2, <3>3
  <2> QED
    BY <2>1, GuardOps
<1>14. FrameOK(frame', stack') /\ frame'.cur = n /\ frame'.of = frame.of
  <2>1. k + 1 \in Nat /\ n \in Nat
    BY <1>3, <1>6 DEF Pos
  <2>2. frame' \in FrameType /\ frame'.kind = frame.kind /\ frame'.top = frame.top /\ frame'.of = frame.of
        /\ frame'.cur = n
    BY <1>1, <1>3, <2>1 DEF FrameType
  <2>3. frame'.top <= Len(stack')
    BY <1>2, <1>7, <2>2
  <2> QED
    BY <1>3, <2>2, <2>3 DEF FrameOK
<1>15. ASSUME NEW r \in Pos PROVE Count(heap', r) = Total(heap', pads', stack', frame', todo', r)
  <2>1. Total(heap', pads', stack', frame', todo', r)
          = Occurrences(pads.outer, r) + Occurrences(pads.inner, r) + Occurrences(stack', r)
              + (One(n, r) + One(frame.of, r)) + Occurrences(todo', Release(r)) + Holds(heap', r)
    BY <1>1, <1>14 DEF Total
  <2>2. Holds(heap', r) = Holds(heap, r) /\ Count(heap', r) = Count(heap, r) + 2 * One(n, r)
    <3>1. Holds(heap', r) = Holds(heap, r) + Occurrences(c.items, r) /\ Occurrences(c.items, r) = 0
      BY <1>4, <1>5, Idle DEF Added
    <3>2. Count(heap', r) = (IF r = n THEN c.refcnt ELSE Count(heap, r)) /\ (r = n => Count(heap, r) = 0)
      BY <1>5 DEF Added
    <3> QED
      BY <1>4, <3>1, <3>2, Counts DEF One, Summed
  <2>3. Occurrences(stack', r) = Occurrences(stack, r) + One(n, r)
        /\ Occurrences(todo', Release(r)) = One(frame.cur, r) /\ Occurrences(todo, Release(r)) = 0
    BY <1>2, <1>7, <1>12
  <2> DEFINE hc == Count(heap, r)
             hh == Holds(heap, r)
             po == Occurrences(pads.outer, r)
             pi == Occurrences(pads.inner, r)
             st == Occurrences(stack, r)
             fc == One(frame.cur, r)
             fo == One(frame.of, r)
             on == One(n, r)
  <2>4. hc = po + pi + st + (fc + fo) + 0 + hh /\ hh \in Nat /\ po \in Nat /\ pi \in Nat /\ st \in Nat
    <3>1. Summed(r)
      BY Counts
    <3> QED
      BY <2>3, <3>1 DEF Summed
  <2>5. fc \in Nat /\ fo \in Nat /\ on \in Nat
    BY OneNat
  <2>6. Count(heap', r) = hc + 2 * on
        /\ Total(heap', pads', stack', frame', todo', r) = po + pi + (st + on) + (on + fo) + fc + hh
    BY <2>1, <2>2, <2>3
  <2> HIDE DEF hc, hh, po, pi, st, fc, fo, on
  <2> QED
    BY <2>4, <2>5, <2>6
<1>16. HeapOK(heap') /\ pads' \in [Pads -> Seq(Nat)] /\ mode' \in {"run", "aborted"}
  BY <1>1, <1>2, <1>5 DEF Added, Shaped
<1> QED
  BY <1>7, <1>12, <1>13, <1>14, <1>15, <1>16, Keeps

\* At the end of the loop the frame's members are dropped; it has no operands left.
LEMMA IterateEnds ==
  ASSUME IInv, Busy("iterate"), DropFrame, Then(Members), heap' = heap, mode' = mode
  PROVE  IInv'
<1> DEFINE s == SubSeq(stack, 1, frame.top)
<1>1. /\ stack' = s /\ frame' = NoFrame /\ pads' = [pads EXCEPT !.inner = << >>]
      /\ todo' = Members \o Tail(todo) /\ heap' = heap /\ mode' = mode
  BY DEF DropFrame, Then
<1>2. /\ Shaped /\ Len(stack) = frame.top /\ Len(stack) \in Nat
      /\ \A r : Occurrences(todo, Release(r)) = 0
      /\ \A ts \in Seq(Tasks) : ts \o Tail(todo) = ts
  BY IterateIs
<1>3. s \in Seq(Pos) /\ Len(s) = frame.top /\ \A r : Occurrences(stack, r) = Occurrences(s, r)
  <2>1. stack \in Seq(Pos)
    BY <1>2, Shapes
  <2>2. s = stack
    BY <1>2, <2>1
  <2> QED
    BY <1>2, <2>1, <2>2
<1> HIDE DEF s
<1>4. Members \in Seq(Drops) /\ \A r \in Pos : Occurrences(Members, Release(r))
                                  = (One(frame.cur, r) + One(frame.of, r)) + Occurrences(pads.inner, r)
  BY <1>2, MembersAre
<1>5. todo' = Members
  <2>1. \A h : TodoOK(h, Members)
    BY <1>4, DropsOK
  <2>2. Members \in Seq(Tasks)
    BY <2>1 DEF TodoOK
  <2> QED
    BY <1>1, <1>2, <2>2
<1>6. pads' \in [Pads -> Seq(Nat)] /\ pads'.outer = pads.outer /\ pads'.inner = << >>
  <2>1. pads \in [Pads -> Seq(Nat)] /\ << >> \in Seq(Nat) /\ "inner" \in Pads
    BY <1>2, Shapes DEF Pads
  <2>2. pads' = [pads EXCEPT !["inner"] = << >>]
    BY <1>1
  <2> QED
    BY <2>1, <2>2, PadPut
<1>7. FrameOK(frame', stack')
  <2>1. Len(stack') \in Nat
    BY <1>1, <1>2, <1>3
  <2> QED
    BY <1>1, <2>1 DEF FrameOK, NoFrame, FrameType, Undef
<1>8. ASSUME NEW r \in Pos PROVE Count(heap', r) = Total(heap', pads', stack', frame', todo', r)
  <2>1. Total(heap', pads', stack', frame', todo', r)
          = Occurrences(pads.outer, r) + Occurrences(<< >>, r) + Occurrences(s, r)
              + (One(NoFrame.cur, r) + One(NoFrame.of, r)) + Occurrences(todo', Release(r)) + Holds(heap, r)
    BY <1>1, <1>6 DEF Total
  <2>2. One(NoFrame.cur, r) = 0 /\ One(NoFrame.of, r) = 0 /\ Occurrences(<< >>, r) = 0
    BY Idle DEF One, NoFrame, Undef, Pos
  <2>3. Occurrences(stack, r) = Occurrences(s, r) /\ Occurrences(todo, Release(r)) = 0
        /\ Occurrences(todo', Release(r)) = (One(frame.cur, r) + One(frame.of, r)) + Occurrences(pads.inner, r)
    BY <1>2, <1>3, <1>4, <1>5
  <2>4. Count(heap', r) = Count(heap, r)
    BY <1>1
  <2> DEFINE hc == Count(heap, r)
             hh == Holds(heap, r)
             po == Occurrences(pads.outer, r)
             pi == Occurrences(pads.inner, r)
             st == Occurrences(stack, r)
             fc == One(frame.cur, r)
             fo == One(frame.of, r)
  <2>5. hc = po + pi + st + (fc + fo) + 0 + hh /\ hh \in Nat /\ po \in Nat /\ pi \in Nat /\ st \in Nat
    <3>1. Summed(r)
      BY Counts
    <3> QED
      BY <2>3, <3>1 DEF Summed
  <2>6. fc \in Nat /\ fo \in Nat
    BY OneNat
  <2>7. Count(heap', r) = hc
        /\ Total(heap', pads', stack', frame', todo', r) = po + 0 + st + (0 + 0) + ((fc + fo) + pi) + hh
    BY <2>1, <2>2, <2>3, <2>4
  <2> HIDE DEF hc, hh, po, pi, st, fc, fo
  <2> QED
    BY <2>5, <2>6, <2>7
<1>9. HeapOK(heap') /\ TodoOK(heap', todo') /\ Guarded(todo', stack', frame') /\ mode' \in {"run", "aborted"}
      /\ stack' \in Seq(Pos)
  BY <1>1, <1>2, <1>3, <1>4, <1>5, DropsOK, DropsGuarded DEF Shaped
<1> QED
  BY <1>6, <1>7, <1>8, <1>9, Keeps

LEMMA IterateKeeps ==
  ASSUME HeapAssumption, IInv, DoIterate
  PROVE  IInv'
<1>1. CASE heap[frame.of].type = "array" /\ frame.counter < Len(heap[frame.of].items)
  BY <1>1, IterateArray
<1>2. CASE heap[frame.of].type = "int" /\ InRange(frame.counter)
  BY <1>2, IterateUncopied, IterateFresh
<1>3. CASE /\ ~(heap[frame.of].type = "array" /\ frame.counter < Len(heap[frame.of].items))
           /\ ~(heap[frame.of].type = "int" /\ InRange(frame.counter))
  <2>1. Busy("iterate") /\ DropFrame /\ Then(Members) /\ heap' = heap /\ mode' = mode
    BY <1>3 DEF DoIterate
  <2> QED
    BY <2>1, IterateEnds
<1> QED
  BY <1>1, <1>2, <1>3

-----------------------------------------------------------------------------
(* The invariant. *)

LEMMA InitIInv ==
  ASSUME HeapAssumption, Init
  PROVE  IInv
<1>1. /\ heap = << >> /\ stack = << >> /\ todo = << >> /\ mode = "run" /\ frame = NoFrame
      /\ pads = [outer |-> [i \in 1..Outer |-> Undef], inner |-> << >>]
  BY DEF Init
<1>2. pads \in [Pads -> Seq(Nat)] /\ pads.inner = << >> /\ pads.outer = [i \in 1..Outer |-> Undef]
  <2> DEFINE o == [i \in 1..Outer |-> Undef]
  <2>1. o \in Seq(Nat)
    <3>1. o \in [1..Outer -> Nat] /\ Outer \in Nat
      BY DEF HeapAssumption, Undef
    <3> QED
      BY <3>1 DEF Seq
  <2> HIDE DEF o
  <2>2. pads = [outer |-> o, inner |-> << >>]
    BY <1>1 DEF o
  <2> DEFINE e == << >>
  <2>3. e \in Seq(Nat)
    OBVIOUS
  <2>4. pads = [outer |-> o, inner |-> e]
    BY <2>2
  <2> HIDE DEF e
  <2>5. pads.inner = e /\ pads.outer = o
    BY <2>4
  <2>6. DOMAIN pads = {"outer", "inner"} /\ pads = [x \in DOMAIN pads |-> pads[x]]
    BY <2>4
  <2>7. \A x \in DOMAIN pads : pads[x] \in Seq(Nat)
    BY <2>1, <2>3, <2>5, <2>6
  <2>8. pads \in [Pads -> Seq(Nat)]
    BY <2>6, <2>7 DEF Pads
  <2> QED
    BY <2>5, <2>8 DEF o, e
<1>3. Shaped
  <2>1. HeapOK(heap) /\ TodoOK(heap, todo) /\ stack \in Seq(Pos)
    BY <1>1, Idle DEF HeapOK
  <2>2. FrameOK(frame, stack)
    BY <1>1 DEF FrameOK, FrameType, NoFrame, Undef
  <2> QED
    BY <1>1, <1>2, <2>1, <2>2 DEF Shaped
<1>4. ASSUME NEW r \in Pos PROVE Count(heap, r) = Total(heap, pads, stack, frame, todo, r)
  <2>1. Count(heap, r) = 0
    BY <1>1 DEF Count
  <2>2. Occurrences(pads.outer, r) = 0 /\ Occurrences(<< >>, r) = 0 /\ Occurrences(<< >>, Release(r)) = 0
    <3>1. \A i \in DOMAIN pads.outer : pads.outer[i] # r
      BY <1>2 DEF Undef, Pos
    <3>2. pads.outer \in Seq(Nat)
      BY <1>2 DEF Pads
    <3> QED
      BY <3>1, <3>2, OccAbsent, OccNone
  <2>3. One(NoFrame.cur, r) = 0 /\ One(NoFrame.of, r) = 0
    BY DEF One, NoFrame, Undef, Pos
  <2>4. Holds(heap, r) = 0
    <3>1. HeldAt(heap, r) = {}
      BY <1>1 DEF HeldAt
    <3> QED
      BY <3>1, FS_EmptySet DEF Holds
  <2>5. Total(heap, pads, stack, frame, todo, r)
          = Occurrences(pads.outer, r) + Occurrences(<< >>, r) + Occurrences(<< >>, r)
              + (One(NoFrame.cur, r) + One(NoFrame.of, r)) + Occurrences(<< >>, Release(r)) + Holds(heap, r)
    BY <1>1, <1>2 DEF Total
  <2> QED
    BY <2>1, <2>2, <2>3, <2>4, <2>5
<1>5. Guarded(todo, stack, frame)
  BY <1>1, Idle
<1> QED
  BY <1>3, <1>4, <1>5, ExactIs DEF IInv, Balanced

LEMMA StepIInv ==
  ASSUME HeapAssumption, IInv, [Next]_vars
  PROVE  IInv'
<1>1. CASE Op
  <2>1. CASE OP_PUSH_INT
    BY <2>1, PushIntKeeps
  <2>2. CASE GetVariable
    BY <2>2, GetVariableKeeps
  <2>3. CASE SetVariable
    BY <2>3, SetVariableKeeps
  <2>4. CASE OP_POP_TOP
    BY <2>4, PopTopKeeps
  <2>5. CASE PreIncrement
    BY <2>5, PreIncrementKeeps
  <2>6. CASE PostIncrement
    BY <2>6, PostIncrementKeeps
  <2>7. CASE OP_MAKE_ARRAY
    BY <2>7, MakeArrayKeeps
  <2>8. CASE Bless
    BY <2>8, BlessKeeps
  <2>9. CASE av_push
    BY <2>9, PushKeeps
  <2>10. CASE av_pop
    BY <2>10, PopKeeps
  <2>11. CASE OP_ENTER
    BY <2>11, EnterKeeps
  <2>12. CASE OP_ENTER_FOREACH
    BY <2>12, EnterForeachKeeps
  <2>13. CASE OP_FOR_ITER
    BY <2>13, ForIterKeeps
  <2>14. CASE OP_LEAVE
    BY <2>14, LeaveKeeps
  <2> QED
    BY <1>1, <2>1, <2>2, <2>3, <2>4, <2>5, <2>6, <2>7, <2>8, <2>9, <2>10, <2>11, <2>12, <2>13, <2>14 DEF Op
<1>2. CASE Task
  <2>1. CASE DoRelease
    BY <2>1, ReleaseKeeps
  <2>2. CASE DoBody
    BY <2>2, BodyKeeps
  <2>3. CASE DoFinish
    BY <2>3, FinishKeeps
  <2>4. CASE DoShift
    BY <2>4, ShiftKeeps
  <2>5. CASE DoShrink
    BY <2>5, ShrinkKeeps
  <2>6. CASE DoInsert
    BY <2>6, InsertKeeps
  <2>7. CASE DoIterate
    BY <2>7, IterateKeeps
  <2> QED
    BY <1>2, <2>1, <2>2, <2>3, <2>4, <2>5, <2>6, <2>7 DEF Task
<1>3. CASE UNCHANGED vars
  <2>1. Shaped /\ Guarded(todo, stack, frame) /\ Balanced(heap, pads, stack, frame, todo)
    BY ExactIs DEF IInv
  <2>2. heap' = heap /\ pads' = pads /\ stack' = stack /\ frame' = frame /\ todo' = todo /\ mode' = mode
    BY <1>3 DEF vars
  <2> QED
    BY <2>1, <2>2, Keeps DEF Shaped, Balanced
<1> QED
  BY <1>1, <1>2, <1>3 DEF Next

LEMMA IInvHolds ==
  ASSUME HeapAssumption
  PROVE  Spec => []IInv
<1>1. Init => IInv
  BY InitIInv
<1>2. IInv /\ [Next]_vars => IInv'
  BY StepIInv
<1> QED
  BY <1>1, <1>2, PTL DEF Spec

\* TypeOK of module Heap: the fields of Value, PadList and ForeachFrame; what
\* refers to a value refers to one that was made.
LEMMA IInvTypes ==
  ASSUME IInv
  PROVE  TypeOK
<1>1. Shaped /\ HeapOK(heap) /\ pads \in [Pads -> Seq(Nat)] /\ stack \in Seq(Pos)
      /\ frame.of \in Nat /\ frame.cur \in Nat /\ mode \in {"run", "aborted"}
  BY Shapes DEF IInv, Shaped
<1>2. \A r : Alive(r) => r \in Refs
  BY DEF Alive, Refs, Cells
<1>3. \A r \in Nat : r \in Pos \/ r \in Refs
  BY DEF Pos, Refs, Undef
<1>4. ASSUME NEW r \in Cells
      PROVE  /\ heap[r].live \in BOOLEAN /\ heap[r].refcnt \in Nat /\ heap[r].n \in 0..MaxInt
             /\ heap[r].type \in {"int", "array", "object"}
             /\ Range(heap[r].items) \subseteq Refs
  <2>1. r \in DOMAIN heap /\ heap[r] \in CellType /\ CellShape(heap[r])
    BY <1>1, HeapIs DEF Cells
  <2>2. ASSUME NEW i \in DOMAIN heap[r].items PROVE heap[r].items[i] \in Refs
    <3>1. heap[r].live
      BY <2>1, <2>2 DEF CellShape, CellType
    <3>2. heap[r].items[i] \in Pos
      BY <2>1, <2>2 DEF CellType
    <3> DEFINE v == heap[r].items[i]
    <3>3. \E a \in DOMAIN heap : heap[a].live /\ \E k \in DOMAIN heap[a].items : heap[a].items[k] = v
      BY <2>1, <2>2, <3>1
    <3> HIDE DEF v
    <3>4. Alive(v)
      <4>1. v \in Pos
        BY <3>2 DEF v
      <4> QED
        BY <3>3, <4>1, OwnedLive
    <3> QED
      BY <1>2, <3>4 DEF v
  <2> QED
    BY <2>1, <2>2 DEF CellType, Range
<1>5. Range(stack) \subseteq Refs
  <2>1. ASSUME NEW i \in DOMAIN stack PROVE stack[i] \in Refs
    <3>1. stack[i] \in Pos
      BY <1>1, <2>1
    <3> QED
      BY <1>2, <2>1, <3>1, OwnedLive
  <2> QED
    BY <2>1 DEF Range
<1>6. ASSUME NEW p \in Pads PROVE Range(pads[p]) \subseteq Refs
  <2>1. ASSUME NEW i \in DOMAIN pads[p] PROVE pads[p][i] \in Refs
    <3>1. pads[p][i] \in Nat
      BY <1>1, <2>1
    <3> QED
      BY <1>2, <1>3, <2>1, <3>1, OwnedLive
  <2> QED
    BY <2>1 DEF Range
<1>7. Range(pads.outer) \cup Range(pads.inner) \subseteq Refs
  <2>1. Range(pads["outer"]) \subseteq Refs /\ Range(pads["inner"]) \subseteq Refs
    BY <1>6 DEF Pads
  <2> QED
    BY <2>1
<1>8. frame.cur \in Refs /\ frame.of \in Refs
  BY <1>1, <1>2, <1>3, OwnedLive
<1> QED
  BY <1>1, <1>4, <1>5, <1>7, <1>8 DEF TypeOK

\* The three parts of CountsExact: a count is the number of owners, what is
\* freed has no owner, and the shape of a cell says how often DESTROY ran.
LEMMA IInvCounts ==
  ASSUME IInv
  PROVE  CountsExact
<1>1. HeapOK(heap) /\ \A r \in Pos : Count(heap, r) = Owners(r)
  BY Shapes DEF IInv, Exact
<1>2. \A r \in Cells : r \in Pos /\ heap[r] \in CellType /\ CellShape(heap[r]) /\ heap[r].refcnt = Owners(r)
  BY <1>1, HeapIs DEF Cells, Count
<1>3. RefcntExact
  BY <1>2 DEF RefcntExact
<1>4. NoDangling
  BY <1>2 DEF NoDangling, CellShape
<1>5. DestroyOnce
  BY <1>2 DEF DestroyOnce, CellShape
<1> QED
  BY <1>3, <1>4, <1>5 DEF CountsExact

\* The fields have their types, and every variable, operand, frame and value
\* refers to the shared undef or to a value that was made (shared_ptr.h,
\* value.h, object.h).
THEOREM TypeCorrect ==
  ASSUME HeapAssumption
  PROVE  Spec => []TypeOK
<1>1. IInv => TypeOK
  BY IInvTypes
<1> QED
  BY <1>1, IInvHolds, PTL

\* At every step, in the middle of destructors and DESTROY methods too, the
\* count of a value is the number of its owners, nothing that is owned has
\* been freed, and DESTROY runs once for each object (SharedPtr of
\* shared_ptr.h, Value::release, ObjectValue::release).
THEOREM CountsExactCorrect ==
  ASSUME HeapAssumption
  PROVE  Spec => []CountsExact
<1>1. IInv => CountsExact
  BY IInvCounts
<1> QED
  BY <1>1, IInvHolds, PTL

-----------------------------------------------------------------------------
(* The variable of a loop over integers. *)

SameTypes(h, g) == \A a \in DOMAIN h : a \in DOMAIN g /\ g[a].type = h[a].type

LEMMA TypesPut ==
  ASSUME NEW h, NEW a, NEW c, a \in DOMAIN h => c.type = h[a].type, NEW g, g = [h EXCEPT ![a] = c]
  PROVE  SameTypes(h, g)
BY DEF SameTypes

LEMMA TypesAppend ==
  ASSUME NEW S, NEW h \in Seq(S), NEW c, NEW g, g = Append(h, c)
  PROVE  SameTypes(h, g)
<1>1. DOMAIN h = 1..Len(h) /\ Len(h) \in Nat /\ DOMAIN g = 1..Len(h) + 1 /\ \A a \in 1..Len(h) : g[a] = h[a]
  OBVIOUS
<1> QED
  BY <1>1 DEF SameTypes

LEMMA PutSeq ==
  ASSUME NEW S, NEW s \in Seq(S), NEW a, NEW c, NEW t, t = [s EXCEPT ![a] = c]
  PROVE  t \in Seq(S \cup {c})
<1> DEFINE n == Len(s)
<1>1. s \in [1..n -> S] /\ n \in Nat
  OBVIOUS
<1> HIDE DEF n
<1>2. t \in [1..n -> S \cup {c}]
  BY <1>1
<1> QED
  BY <1>1, <1>2 DEF Seq

\* No assignment to the other fields of a value changes its type.
LEMMA FieldsPut ==
  ASSUME NEW c \in CellType
  PROVE  /\ \A x : /\ [c EXCEPT !.refcnt = x].type = c.type
                   /\ [c EXCEPT !.n = x].type = c.type
                   /\ [c EXCEPT !.items = x].type = c.type
         /\ \A x, y : /\ [c EXCEPT !.refcnt = x, !.n = y].type = c.type
                      /\ [c EXCEPT !.destroyed = TRUE, !.refcnt = x, !.runs = y].type = c.type
         /\ \A x : [c EXCEPT !.live = FALSE, !.refcnt = 0, !.items = x, !.n = 0].type = c.type
BY DEF CellType

LEMMA TypesRetain ==
  ASSUME NEW h, HeapOK(h), NEW v
  PROVE  SameTypes(h, Retain(h, v))
<1>1. CASE v = Undef
  BY <1>1 DEF Retain, SameTypes
<1>2. CASE v # Undef
  <2> DEFINE c == [h[v] EXCEPT !.refcnt = h[v].refcnt + 1]
  <2>1. Retain(h, v) = [h EXCEPT ![v] = c]
    BY <1>2 DEF Retain
  <2>2. v \in DOMAIN h => c.type = h[v].type
    BY HeapIs, FieldsPut
  <2> HIDE DEF c
  <2> QED
    BY <2>1, <2>2, TypesPut
<1> QED
  BY <1>1, <1>2

LEMMA TypesFreed ==
  ASSUME NEW h, HeapOK(h), NEW a
  PROVE  SameTypes(h, Freed(h, a))
<1> DEFINE e == << >>
           c == [h[a] EXCEPT !.live = FALSE, !.refcnt = 0, !.items = e, !.n = 0]
<1>1. Freed(h, a) = [h EXCEPT ![a] = c]
  BY DEF Freed
<1> HIDE DEF e
<1>2. a \in DOMAIN h => c.type = h[a].type
  BY HeapIs, FieldsPut
<1> HIDE DEF c
<1> QED
  BY <1>1, <1>2, TypesPut

\* Values keep their types.
LEMMA TypesRelease ==
  ASSUME IInv, DoRelease
  PROVE  SameTypes(heap, heap')
<1> DEFINE a == The
           old == heap[a]
<1>1. HeapOK(heap) /\ a \in DOMAIN heap /\ old \in CellType
  BY Shapes, ReleasedIs DEF IInv, DoRelease
<1>3. ASSUME NEW k, heap' = [heap EXCEPT ![a].refcnt = k]
      PROVE  SameTypes(heap, heap')
  <2> DEFINE c == [old EXCEPT !.refcnt = k]
  <2>1. c.type = old.type
    BY <1>1, FieldsPut
  <2>2. heap' = [heap EXCEPT ![a] = c]
    BY <1>3
  <2> HIDE DEF c
  <2> QED
    BY <2>1, <2>2, TypesPut
<1>4. CASE ~IsLast(a)
  <2>1. heap' = [heap EXCEPT ![a].refcnt = old.refcnt - 1]
    BY <1>4 DEF DoRelease
  <2> QED
    BY <1>3, <2>1
<1>5. CASE IsLast(a) /\ CallsDestroy(a)
  <2> DEFINE k == IF old.script = "none" THEN 0 ELSE 1
             j == IF old.script = "none" THEN old.runs ELSE Min({2, old.runs + 1})
             c == [old EXCEPT !.destroyed = TRUE, !.refcnt = k, !.runs = j]
  <2>1. heap' = [heap EXCEPT ![a].destroyed = TRUE, ![a].refcnt = k, ![a].runs = j]
    BY <1>5 DEF DoRelease
  <2> HIDE DEF k, j
  <2>2. heap' = [heap EXCEPT ![a] = c]
    BY <1>1, <2>1
  <2>3. c.type = old.type
    BY <1>1, FieldsPut
  <2> HIDE DEF c
  <2> QED
    BY <2>2, <2>3, TypesPut
<1>6. CASE IsLast(a) /\ ~CallsDestroy(a) /\ old.type = "object"
  <2>1. heap' = [heap EXCEPT ![a].refcnt = 0]
    BY <1>6 DEF DoRelease
  <2> QED
    BY <1>3, <2>1
<1>7. CASE IsLast(a) /\ ~CallsDestroy(a) /\ old.type # "object"
  <2>1. heap' = Freed(heap, a)
    BY <1>7 DEF DoRelease
  <2> QED
    BY <1>1, <2>1, TypesFreed
<1> QED
  BY <1>4, <1>5, <1>6, <1>7

LEMMA TypesIterate ==
  ASSUME IInv, DoIterate
  PROVE  SameTypes(heap, heap')
<1>1. HeapOK(heap) /\ heap \in Seq(CellType)
  BY Shapes DEF IInv
<1>2. CASE \E w : heap' = Retain(heap, w)
  <2>1. PICK w : heap' = Retain(heap, w)
    BY <1>2
  <2> QED
    BY <1>1, <2>1, TypesRetain
<1>3. CASE \E c : heap' = Append(heap, c)
  <2>1. PICK c : heap' = Append(heap, c)
    BY <1>3
  <2> QED
    BY <1>1, <2>1, TypesAppend
<1>4. CASE IsUncopied /\ heap' = [Retain(heap, frame.cur) EXCEPT ![frame.cur].n = frame.counter]
  <2> DEFINE a == frame.cur
             k == frame.counter
             m == heap[a].refcnt + 1
             c == [heap[a] EXCEPT !.refcnt = m, !.n = k]
  <2>1. a # Undef
    BY <1>4 DEF IsUncopied
  <2>2. heap' = [[heap EXCEPT ![a].refcnt = m] EXCEPT ![a].n = k]
    BY <1>4, <2>1 DEF Retain
  <2>3. a \in DOMAIN heap => c.type = heap[a].type
    BY <1>1, HeapIs, FieldsPut
  <2> HIDE DEF a, k, m
  <2>4. heap' = [heap EXCEPT ![a] = c]
    BY <1>1, <2>2
  <2> HIDE DEF c
  <2> QED
    BY <2>3, <2>4, TypesPut
<1>5. CASE heap' = heap
  BY <1>5 DEF SameTypes
<1> QED
  BY <1>2, <1>3, <1>4, <1>5 DEF DoIterate

LEMMA TypesStay ==
  ASSUME IInv, Next
  PROVE  SameTypes(heap, heap')
<1>1. HeapOK(heap) /\ heap \in Seq(CellType)
  BY Shapes DEF IInv
<1>u. ASSUME heap' = heap PROVE SameTypes(heap, heap')
  BY <1>u DEF SameTypes
<1>r. ASSUME NEW v, heap' = Retain(heap, v) PROVE SameTypes(heap, heap')
  BY <1>1, <1>r, TypesRetain
<1>a. ASSUME NEW c, heap' = Append(heap, c) PROVE SameTypes(heap, heap')
  BY <1>1, <1>a, TypesAppend
<1>2. CASE SetVariable \/ OP_POP_TOP \/ OP_ENTER \/ OP_ENTER_FOREACH \/ OP_FOR_ITER \/ OP_LEAVE \/ DoShrink
  BY <1>2, <1>u DEF SetVariable, OP_POP_TOP, OP_ENTER, OP_ENTER_FOREACH, OP_FOR_ITER, OP_LEAVE, DoShrink
<1>3. CASE GetVariable
  BY <1>3, <1>r DEF GetVariable, Push
<1>4. CASE DoShift \/ DoInsert
  BY <1>4, <1>r DEF DoShift, DoInsert, Kept
<1>5. CASE DoBody
  BY <1>5, <1>r, <1>u DEF DoBody
<1>6. CASE OP_PUSH_INT \/ OP_MAKE_ARRAY
  BY <1>6, <1>a DEF OP_PUSH_INT, OP_MAKE_ARRAY
<1>7. CASE Bless
  BY <1>7, <1>a DEF Bless
<1>8. CASE DoFinish
  <2>1. heap' = heap \/ heap' = Freed(heap, The)
    BY <1>8 DEF DoFinish
  <2> QED
    BY <1>1, <1>u, <2>1, TypesFreed
<1>9. CASE PreIncrement \/ PostIncrement
  <2> DEFINE a == Top
             k == heap[a].n + 1
             c == [heap[a] EXCEPT !.n = k]
             g == [heap EXCEPT ![a] = c]
  <2>1. heap' = g \/ \E d : heap' = Append(g, d)
    BY <1>9 DEF PreIncrement, PostIncrement
  <2>2. a \in DOMAIN heap => c.type = heap[a].type
    BY <1>1, HeapIs, FieldsPut
  <2> HIDE DEF c
  <2>3. SameTypes(heap, g)
    BY <2>2, TypesPut
  <2>4. g \in Seq(CellType \cup {c})
    BY <1>1, PutSeq
  <2> HIDE DEF g
  <2>5. ASSUME NEW d, heap' = Append(g, d) PROVE SameTypes(heap, heap')
    <3>1. SameTypes(g, heap')
      BY <2>4, <2>5, TypesAppend
    <3> QED
      BY <2>3, <3>1 DEF SameTypes
  <2> QED
    BY <2>1, <2>3, <2>5
<1>10. CASE av_push
  <2> DEFINE a == stack[Len(stack) - 1]
             k == Append(heap[a].items, Top)
             c == [heap[a] EXCEPT !.items = k]
  <2>1. heap' = [heap EXCEPT ![a] = c]
    BY <1>10 DEF av_push
  <2> HIDE DEF k
  <2>2. a \in DOMAIN heap => c.type = heap[a].type
    BY <1>1, HeapIs, FieldsPut
  <2> HIDE DEF c
  <2> QED
    BY <2>1, <2>2, TypesPut
<1>11. CASE av_pop
  <2> DEFINE a == Top
             k == Front(heap[a].items)
             c == [heap[a] EXCEPT !.items = k]
  <2>1. heap' = [heap EXCEPT ![a] = c]
    BY <1>11 DEF av_pop
  <2> HIDE DEF k
  <2>2. a \in DOMAIN heap => c.type = heap[a].type
    BY <1>1, HeapIs, FieldsPut
  <2> HIDE DEF c
  <2> QED
    BY <2>1, <2>2, TypesPut
<1> QED
  BY <1>2, <1>3, <1>4, <1>5, <1>6, <1>7, <1>8, <1>9, <1>10, <1>11, TypesRelease, TypesIterate DEF Next, Op, Task

\* A task of PadList::set for the loop variable, and the one that puts v there.
Changes(t) == t.do \in {"shift", "shrink", "insert"} /\ t.pad = "inner"

Puts(t, v) == t.do = "insert" /\ t.pad = "inner" /\ t.at = 1 /\ t.of = v

\* Whatever changes the loop variable puts v there in the end.
EndsWith(ts, v) ==
  \A i \in DOMAIN ts : Changes(ts[i]) =>
    /\ ts[i].do = "insert" => Puts(ts[i], v)
    /\ \E j \in DOMAIN ts : j >= i /\ Puts(ts[j], v)

Changing(ts) == \E i \in DOMAIN ts : Changes(ts[i])

\* A loop has an integer of its own over integers only, and has put it in its variable.
LoopHolds ==
  frame.cur # Undef =>
    /\ frame.kind = "foreach" /\ heap[frame.of].type = "int"
    /\ EndsWith(todo, frame.cur)
    /\ Changing(todo) \/ (pads.inner # << >> /\ pads.inner[1] = frame.cur)

LEMMA EndsConcat ==
  ASSUME NEW ts \in Seq(Tasks), ~Changing(ts), NEW rest \in Seq(Tasks), NEW v, EndsWith(rest, v)
  PROVE  EndsWith(ts \o rest, v) /\ (Changing(rest) => Changing(ts \o rest))
<1> DEFINE new == ts \o rest
           n == Len(ts)
<1>1. /\ new \in Seq(Tasks) /\ Len(new) = n + Len(rest) /\ n \in Nat /\ Len(rest) \in Nat
      /\ (\A i \in 1..n : new[i] = ts[i]) /\ (\A i \in 1..Len(rest) : new[n + i] = rest[i])
      /\ DOMAIN ts = 1..n /\ DOMAIN rest = 1..Len(rest)
  BY ConcatIs
<1> HIDE DEF new, n
<1>2. ASSUME NEW i \in DOMAIN rest PROVE n + i \in DOMAIN new /\ new[n + i] = rest[i] /\ i \in Nat
  BY <1>1
<1>3. ASSUME NEW i \in DOMAIN new, Changes(new[i])
      PROVE  /\ new[i].do = "insert" => Puts(new[i], v)
             /\ \E j \in DOMAIN new : j >= i /\ Puts(new[j], v)
  <2>1. i \notin 1..n
    BY <1>1, <1>3 DEF Changing
  <2> DEFINE k == i - n
  <2>2. k \in DOMAIN rest /\ i = n + k
    BY <1>1, <2>1
  <2> HIDE DEF k
  <2>3. new[i] = rest[k]
    BY <1>2, <2>2
  <2>4. rest[k].do = "insert" => Puts(rest[k], v)
    BY <1>3, <2>2, <2>3 DEF EndsWith
  <2>5. PICK j \in DOMAIN rest : j >= k /\ Puts(rest[j], v)
    BY <1>3, <2>2, <2>3 DEF EndsWith
  <2>6. n + j \in DOMAIN new /\ Puts(new[n + j], v) /\ n + j >= i
    BY <1>1, <1>2, <2>2, <2>5
  <2> QED
    BY <2>3, <2>4, <2>6
<1>4. EndsWith(new, v)
  BY <1>3 DEF EndsWith
<1>5. Changing(rest) => Changing(new)
  BY <1>2 DEF Changing
<1> QED
  BY <1>4, <1>5 DEF new

LEMMA EndsTail ==
  ASSUME NEW ts \in Seq(Tasks), ts # << >>, NEW v, EndsWith(ts, v)
  PROVE  /\ Tail(ts) \in Seq(Tasks) /\ EndsWith(Tail(ts), v)
         /\ Changing(ts) => Changing(Tail(ts)) \/ Puts(Head(ts), v)
<1> DEFINE rest == Tail(ts)
           n == Len(ts)
<1>1. /\ n \in Nat \ {0} /\ DOMAIN ts = 1..n /\ ts[1] = Head(ts)
      /\ rest \in Seq(Tasks) /\ DOMAIN rest = 1..n - 1 /\ \A i \in 1..n - 1 : rest[i] = ts[i + 1]
  OBVIOUS
<1> HIDE DEF rest, n
<1>2. ASSUME NEW j \in DOMAIN ts, j # 1
      PROVE  \E k \in DOMAIN rest : k = j - 1 /\ rest[k] = ts[j]
  <2> DEFINE k == j - 1
  <2>1. k \in 1..n - 1 /\ k + 1 = j
    BY <1>1, <1>2
  <2> HIDE DEF k
  <2>2. rest[k] = ts[j] /\ k \in DOMAIN rest
    BY <1>1, <2>1
  <2> QED
    BY <2>2 DEF k
<1>3. ASSUME NEW i \in DOMAIN rest, Changes(rest[i])
      PROVE  /\ rest[i].do = "insert" => Puts(rest[i], v)
             /\ \E j \in DOMAIN rest : j >= i /\ Puts(rest[j], v)
  <2> DEFINE k == i + 1
  <2>1. k \in DOMAIN ts /\ rest[i] = ts[k] /\ i \in Nat /\ i >= 1 /\ k = i + 1
    BY <1>1
  <2> HIDE DEF k
  <2>2. rest[i].do = "insert" => Puts(rest[i], v)
    BY <1>3, <2>1 DEF EndsWith
  <2>3. PICK j \in DOMAIN ts : j >= k /\ Puts(ts[j], v)
    BY <1>3, <2>1 DEF EndsWith
  <2>4. j # 1 /\ j \in Nat
    BY <1>1, <2>1, <2>3
  <2>5. PICK m \in DOMAIN rest : m = j - 1 /\ rest[m] = ts[j]
    BY <1>2, <2>4
  <2> QED
    BY <2>1, <2>2, <2>3, <2>4, <2>5
<1>4. EndsWith(rest, v)
  BY <1>3 DEF EndsWith
<1>5. ASSUME Changing(ts) PROVE Changing(rest) \/ Puts(Head(ts), v)
  <2>1. PICK i \in DOMAIN ts : Changes(ts[i])
    BY <1>5 DEF Changing
  <2>2. PICK j \in DOMAIN ts : Puts(ts[j], v)
    BY <2>1 DEF EndsWith
  <2>3. CASE j = 1
    BY <1>1, <2>2, <2>3
  <2>4. CASE j # 1
    <3>1. PICK m \in DOMAIN rest : rest[m] = ts[j]
      BY <1>2, <2>4
    <3>2. Changes(rest[m])
      BY <2>2, <3>1 DEF Changes, Puts
    <3> QED
      BY <3>1, <3>2 DEF Changing
  <2> QED
    BY <2>3, <2>4
<1> QED
  BY <1>1, <1>4, <1>5 DEF rest

\* What does not touch the loop variable.
LEMMA Untouched ==
  /\ \A ts \in Seq(Drops) : ~Changing(ts)
  /\ \A i \in Pos, v \in Nat : pads \in [Pads -> Seq(Nat)] => ~Changing(Set("outer", i, v))
  /\ ~Changing(<< >>)
  /\ \A ts, v : ~Changing(ts) => EndsWith(ts, v)
<1>1. ASSUME NEW ts \in Seq(Drops) PROVE ~Changing(ts)
  <2>1. \A i \in DOMAIN ts : ts[i].do = "release"
    BY DropsAre
  <2> QED
    BY <2>1 DEF Changing, Changes
<1>2. ASSUME NEW i \in Pos, NEW v \in Nat, pads \in [Pads -> Seq(Nat)] PROVE ~Changing(Set("outer", i, v))
  <2> DEFINE ts == Set("outer", i, v)
  <2>1. SetOf(ts, "outer", i, v)
    BY <1>2, SetEnds DEF Pads
  <2> HIDE DEF ts
  <2>2. \A k \in DOMAIN ts : ts[k].pad = "outer"
    BY <2>1 DEF SetOf
  <2>3. ~Changing(ts)
    BY <2>2 DEF Changing, Changes
  <2> QED
    BY <2>3 DEF ts
<1>3. ~Changing(<< >>)
  BY DEF Changing
<1>4. \A ts, v : ~Changing(ts) => EndsWith(ts, v)
  BY DEF Changing, EndsWith
<1> QED
  BY <1>1, <1>2, <1>3, <1>4

\* PadList::set of the loop variable.
LEMMA SetPuts ==
  ASSUME pads \in [Pads -> Seq(Nat)], NEW v \in Nat
  PROVE  /\ Set("inner", 1, v) \in Seq(Tasks) /\ EndsWith(Set("inner", 1, v), v) /\ Changing(Set("inner", 1, v))
<1> DEFINE ts == Set("inner", 1, v)
           n == Len(ts)
<1>1. SetOf(ts, "inner", 1, v)
  BY SetEnds DEF Pads, Pos
<1> HIDE DEF ts
<1>2. ts \in Seq(Tasks) /\ n \in Pos /\ ts[n] = InsertTask("inner", 1, v)
      /\ \A k \in DOMAIN ts : ts[k].do = "insert" => k = n
  BY <1>1 DEF SetOf
<1>3. n \in DOMAIN ts /\ DOMAIN ts = 1..n
  BY <1>2 DEF Pos
<1>4. Puts(ts[n], v) /\ Changes(ts[n])
  BY <1>2 DEF InsertTask, Puts, Changes
<1> HIDE DEF n
<1>5. \A i \in DOMAIN ts : n >= i
  BY <1>2, <1>3 DEF Pos
<1>6. EndsWith(ts, v)
  BY <1>2, <1>3, <1>4, <1>5 DEF EndsWith
<1>7. Changing(ts)
  BY <1>3, <1>4 DEF Changing
<1> QED
  BY <1>2, <1>6, <1>7 DEF ts

\* The loop is over the same value as before.
LEMMA LoopAgain ==
  ASSUME IInv, Next, frame'.of = frame.of, frame'.kind = frame.kind,
         frame'.cur # Undef =>
           /\ frame.kind = "foreach" /\ heap[frame.of].type = "int"
           /\ EndsWith(todo', frame'.cur)
           /\ Changing(todo') \/ (pads'.inner # << >> /\ pads'.inner[1] = frame'.cur)
  PROVE  LoopHolds'
<1> SUFFICES ASSUME frame'.cur # Undef PROVE heap'[frame'.of].type = "int"
  BY DEF LoopHolds, Undef
<1>1. frame.kind = "foreach" /\ heap[frame.of].type = "int"
  OBVIOUS
<1>2. frame.of \in Pos
  BY <1>1, Shapes DEF IInv, FrameOK, Pos
<1>3. frame.of \in DOMAIN heap
  BY <1>2, OwnedLive DEF Alive
<1> QED
  BY <1>1, <1>3, TypesStay DEF SameTypes

LEMMA LoopGoesOn ==
  ASSUME IInv, LoopHolds, Next, frame' = frame,
         frame.cur # Undef =>
           EndsWith(todo', frame.cur) /\ (Changing(todo') \/ (pads'.inner # << >> /\ pads'.inner[1] = frame.cur))
  PROVE  LoopHolds'
BY LoopAgain DEF LoopHolds

LEMMA LoopOp ==
  ASSUME IInv, LoopHolds, Next, todo = << >>, frame' = frame, pads' = pads,
         frame.cur # Undef => ~Changing(todo')
  PROVE  LoopHolds'
<1>1. frame.cur # Undef => pads.inner # << >> /\ pads.inner[1] = frame.cur
  BY Untouched DEF LoopHolds
<1> QED
  BY <1>1, LoopGoesOn, Untouched

LEMMA LoopTask ==
  ASSUME IInv, LoopHolds, Next, todo # << >>, frame' = frame,
         NEW ts \in Seq(Tasks), ~Changing(ts), todo' = ts \o Tail(todo),
         ~Changes(Head(todo)) => pads'.inner = pads.inner,
         Puts(Head(todo), frame.cur) => pads'.inner # << >> /\ pads'.inner[1] = frame.cur
  PROVE  LoopHolds'
<1> SUFFICES ASSUME frame.cur # Undef
             PROVE  /\ EndsWith(todo', frame.cur)
                    /\ Changing(todo') \/ (pads'.inner # << >> /\ pads'.inner[1] = frame.cur)
  BY LoopGoesOn
<1> DEFINE rest == Tail(todo)
<1>1. todo \in Seq(Tasks) /\ EndsWith(todo, frame.cur)
  BY Shapes DEF IInv, LoopHolds
<1>2. /\ rest \in Seq(Tasks) /\ EndsWith(rest, frame.cur)
      /\ Changing(todo) => Changing(rest) \/ Puts(Head(todo), frame.cur)
  BY <1>1, EndsTail
<1>3. todo' = ts \o rest
  OBVIOUS
<1> HIDE DEF rest
<1>4. EndsWith(todo', frame.cur) /\ (Changing(rest) => Changing(todo'))
  BY <1>2, <1>3, EndsConcat
<1>5. CASE Changing(todo)
  BY <1>2, <1>4, <1>5
<1>6. CASE ~Changing(todo)
  <2>1. pads.inner # << >> /\ pads.inner[1] = frame.cur
    BY <1>6 DEF LoopHolds
  <2>2. ~Changes(Head(todo))
    <3>1. 1 \in DOMAIN todo /\ todo[1] = Head(todo)
      BY <1>1
    <3> QED
      BY <1>6, <3>1 DEF Changing
  <2> QED
    BY <1>4, <2>1, <2>2
<1> QED
  BY <1>5, <1>6

\* Releases leave the loop variable alone.
LEMMA DropsQuiet ==
  ASSUME NEW refs \in Seq(Nat)
  PROVE  Releases(refs) \in Seq(Tasks) /\ ~Changing(Releases(refs))
<1>1. Releases(refs) \in Seq(Drops)
  BY ReleasesAre
<1> QED
  BY <1>1, DropsAre, Untouched

LEMMA LoopRelease ==
  ASSUME IInv, LoopHolds, DoRelease
  PROVE  LoopHolds'
<1> DEFINE a == The
<1>1. /\ todo # << >> /\ ~Changes(Head(todo)) /\ frame' = frame /\ pads' = pads
  BY DEF DoRelease, Busy, Changes
<1>2. ~Puts(Head(todo), frame.cur)
  BY <1>1 DEF Puts, Changes
<1>3. Next
  BY DEF Next, Task
<1>4. ASSUME NEW ts \in Seq(Tasks), ~Changing(ts), todo' = ts \o Tail(todo) PROVE LoopHolds'
  BY <1>1, <1>2, <1>3, <1>4, LoopTask
<1>5. a \in Pos /\ heap[a] \in CellType
  BY ReleasedIs DEF DoRelease
<1>6. /\ << >> \in Seq(Tasks) /\ ~Changing(<< >>)
  BY Untouched
<1>7. Releases(heap[a].items) \in Seq(Tasks) /\ ~Changing(Releases(heap[a].items))
  <2>1. heap[a].items \in Seq(Nat)
    BY <1>5 DEF CellType, Pos
  <2> QED
    BY <2>1, DropsQuiet
<1>8. << Finish(a) >> \in Seq(Tasks) /\ ~Changing(<< Finish(a) >>)
  <2> DEFINE t == Finish(a)
  <2>1. t \in Tasks /\ t.do = "finish"
    BY <1>5 DEF Finish, Tasks, Pos
  <2> HIDE DEF t
  <2> DEFINE ts == << t >>
  <2>2. ts \in Seq(Tasks) /\ \A i \in DOMAIN ts : ts[i] = t
    BY <2>1
  <2> HIDE DEF ts
  <2>3. ~Changing(ts)
    BY <2>1, <2>2 DEF Changing, Changes
  <2> QED
    BY <2>2, <2>3 DEF ts, t
<1>9. << Body(a), Release(a), Finish(a) >> \in Seq(Tasks) /\ ~Changing(<< Body(a), Release(a), Finish(a) >>)
  <2> DEFINE t == Finish(a)
             d == Release(a)
             b == Body(a)
  <2>1. t \in Tasks /\ t.do = "finish" /\ d \in Tasks /\ d.do = "release" /\ b \in Tasks /\ b.do = "body"
    BY <1>5 DEF Finish, Release, Body, Tasks, Pos
  <2> HIDE DEF t, d, b
  <2> DEFINE ts == << b, d, t >>
  <2>2. ts \in Seq(Tasks) /\ \A i \in DOMAIN ts : ts[i] = b \/ ts[i] = d \/ ts[i] = t
    BY <2>1
  <2> HIDE DEF ts
  <2>3. ~Changing(ts)
    BY <2>1, <2>2 DEF Changing, Changes
  <2> QED
    BY <2>2, <2>3 DEF ts, t, d, b
<1>10. \/ todo' = << >> \o Tail(todo) \/ todo' = Releases(heap[a].items) \o Tail(todo)
       \/ todo' = << Finish(a) >> \o Tail(todo) \/ todo' = << Body(a), Release(a), Finish(a) >> \o Tail(todo)
  BY DEF DoRelease, Then
<1> HIDE DEF a
<1> QED
  BY <1>4, <1>6, <1>7, <1>8, <1>9, <1>10

LEMMA LoopFinish ==
  ASSUME IInv, LoopHolds, DoFinish
  PROVE  LoopHolds'
<1>1. /\ todo # << >> /\ ~Changes(Head(todo)) /\ frame' = frame /\ pads' = pads
  BY DEF DoFinish, Busy, Changes
<1>2. ~Puts(Head(todo), frame.cur)
  BY <1>1 DEF Puts, Changes
<1>3. Next
  BY DEF Next, Task
<1>4. CASE heap[The].refcnt # 0
  <2>1. todo' = todo
    BY <1>4 DEF DoFinish
  <2> QED
    BY <1>1, <1>3, <2>1, LoopGoesOn DEF LoopHolds
<1>5. CASE heap[The].refcnt = 0
  <2> DEFINE ts == Releases(heap[The].items)
  <2>1. todo' = ts \o Tail(todo)
    BY <1>5 DEF DoFinish, Then
  <2>2. heap[The].items \in Seq(Nat)
    <3>1. HeapOK(heap) /\ TaskShape(heap, Head(todo)) /\ Head(todo).do = "finish"
      BY <1>1, HeadIs, Shapes DEF IInv, DoFinish, Busy
    <3>2. heap[The] \in CellType
      BY <3>1, HeapIs DEF TaskShape, The
    <3> QED
      BY <3>2 DEF CellType, Pos
  <2>3. ts \in Seq(Tasks) /\ ~Changing(ts)
    BY <2>2, DropsQuiet
  <2> HIDE DEF ts
  <2> QED
    BY <1>1, <1>2, <1>3, <2>1, <2>3, LoopTask
<1> QED
  BY <1>4, <1>5

LEMMA LoopBody ==
  ASSUME HeapAssumption, IInv, LoopHolds, DoBody
  PROVE  LoopHolds'
<1> DEFINE a == The
           v == IF heap[a].script = "self" THEN a ELSE heap[a].items[1]
           s == Set("outer", DestroyVar, v)
           d == Releases(<< v >>)
<1>1. todo # << >> /\ Head(todo).do = "body" /\ pads' = pads /\ frame' = frame
  BY DEF DoBody, Busy
<1>2. ~Changes(Head(todo)) /\ ~Puts(Head(todo), frame.cur)
  BY <1>1 DEF Puts, Changes
<1>3. Next
  BY DEF Next, Task
<1>4. todo' = << >> \o Tail(todo) \/ todo' = (s \o d) \o Tail(todo)
  BY DEF DoBody, Then
<1>5. HeapOK(heap) /\ pads \in [Pads -> Seq(Nat)] /\ DestroyVar \in Pos
  BY Shapes DEF IInv, HeapAssumption, Pos
<1>6. v \in Nat
  <2>1. a \in DOMAIN heap /\ heap[a].type = "object" /\ ReleasedAfter(todo, 1, a)
    BY <1>1, HeadIs DEF TaskShape, GuardedTask, The
  <2>2. a \in Pos /\ heap[a] \in CellType /\ CellShape(heap[a])
    BY <1>5, <2>1, HeapIs
  <2>3. heap[a].live
    BY <2>1, <2>2, LaterAlive DEF Alive
  <2>4. Len(heap[a].items) = 1 /\ heap[a].items \in Seq(Pos)
    BY <2>1, <2>2, <2>3 DEF CellShape, CellType
  <2>5. heap[a].items[1] \in Pos
    BY <2>4
  <2> QED
    BY <2>2, <2>5 DEF Pos
<1> HIDE DEF v
<1>7. s \in Seq(Tasks) /\ ~Changing(s)
  BY <1>5, <1>6, SetIs, Untouched DEF Plain, Pads
<1>8. d \in Seq(Tasks) /\ ~Changing(d)
  <2> DEFINE one == << v >>
  <2>1. one \in Seq(Nat)
    BY <1>6
  <2> HIDE DEF one
  <2>2. Releases(one) \in Seq(Tasks) /\ ~Changing(Releases(one))
    BY <2>1, DropsQuiet
  <2> QED
    BY <2>2 DEF one
<1> HIDE DEF s, d
<1>9. s \o d \in Seq(Tasks) /\ ~Changing(s \o d)
  <2> DEFINE ts == s \o d
  <2>1. /\ ts \in Seq(Tasks) /\ Len(ts) = Len(s) + Len(d)
        /\ (\A i \in 1..Len(s) : ts[i] = s[i]) /\ (\A i \in 1..Len(d) : ts[Len(s) + i] = d[i])
        /\ Len(s) \in Nat /\ Len(d) \in Nat
    BY <1>7, <1>8, ConcatIs
  <2> HIDE DEF ts
  <2>2. ASSUME NEW i \in DOMAIN ts PROVE ~Changes(ts[i])
    <3>1. CASE i \in 1..Len(s)
      BY <1>7, <2>1, <3>1 DEF Changing
    <3>2. CASE i \notin 1..Len(s)
      <4> DEFINE k == i - Len(s)
      <4>1. k \in 1..Len(d) /\ i = Len(s) + k
        BY <2>1, <3>2
      <4> HIDE DEF k
      <4>2. ts[i] = d[k] /\ k \in DOMAIN d
        BY <1>8, <2>1, <4>1
      <4> QED
        BY <1>8, <4>2 DEF Changing
    <3> QED
      BY <3>1, <3>2
  <2>3. ~Changing(ts)
    BY <2>2 DEF Changing
  <2> QED
    BY <2>1, <2>3 DEF ts
<1>10. << >> \in Seq(Tasks) /\ ~Changing(<< >>)
  BY Untouched
<1> DEFINE both == s \o d
<1>11. both \in Seq(Tasks) /\ ~Changing(both) /\ (todo' = << >> \o Tail(todo) \/ todo' = both \o Tail(todo))
  BY <1>4, <1>9
<1> HIDE DEF both
<1>12. ASSUME NEW ts \in Seq(Tasks), ~Changing(ts), todo' = ts \o Tail(todo) PROVE LoopHolds'
  BY <1>1, <1>2, <1>3, <1>12, LoopTask
<1> QED
  BY <1>10, <1>11, <1>12

\* A task about block p leaves the other block alone.
LEMMA OtherPad ==
  ASSUME IInv, NEW p \in Pads, NEW new \in Seq(Nat), pads' = [pads EXCEPT ![p] = new]
  PROVE  (p = "outer" => pads'.inner = pads.inner) /\ (p = "inner" => pads'.inner = new)
BY PadPut, Shapes DEF IInv

LEMMA LoopShift ==
  ASSUME IInv, LoopHolds, DoShift
  PROVE  LoopHolds'
<1> DEFINE p == Head(todo).pad
           i == Head(todo).at
           s == pads[p]
           v == s[i]
           new == [s EXCEPT ![i] = s[i + 1]]
           one == << v >>
           ts == Releases(one)
<1>1. /\ todo # << >> /\ Head(todo).do = "shift" /\ i < Len(s)
      /\ pads' = [pads EXCEPT ![p] = new] /\ todo' = ts \o Tail(todo) /\ frame' = frame
  BY DEF DoShift, Busy, Then
<1>2. p \in Pads /\ i \in Nat /\ i # 0 /\ s \in Seq(Nat)
  <2>1. p \in Pads /\ i \in Nat /\ i # 0
    BY <1>1, HeadIs DEF TaskShape
  <2> QED
    BY <2>1, Shapes DEF IInv
<1>3. ~Puts(Head(todo), frame.cur) /\ (~Changes(Head(todo)) => p = "outer")
  BY <1>1, <1>2 DEF Puts, Changes, Pads
<1>4. Next
  BY DEF Next, Task
<1> HIDE DEF p, i, s
<1>5. v \in Nat /\ s[i + 1] \in Nat
  <2>1. Len(s) \in Nat /\ i < Len(s)
    BY <1>1, <1>2
  <2>2. i \in 1..Len(s) /\ i + 1 \in 1..Len(s)
    BY <1>2, <2>1
  <2> QED
    BY <1>2, <2>2
<1>6. new \in Seq(Nat)
  <2> DEFINE w == s[i + 1]
  <2>1. w \in Nat /\ Nat \cup {w} = Nat
    BY <1>5
  <2> HIDE DEF w
  <2>2. [s EXCEPT ![i] = w] \in Seq(Nat \cup {w})
    BY <1>2, PutSeq
  <2> QED
    BY <2>1, <2>2 DEF w
<1>7. ts \in Seq(Tasks) /\ ~Changing(ts)
  <2>1. one \in Seq(Nat)
    BY <1>5
  <2> HIDE DEF one
  <2> QED
    BY <2>1, DropsQuiet
<1> HIDE DEF new, ts
<1>8. ~Changes(Head(todo)) => pads'.inner = pads.inner
  BY <1>1, <1>2, <1>3, <1>6, OtherPad
<1> QED
  BY <1>1, <1>3, <1>4, <1>7, <1>8, LoopTask

LEMMA LoopShrink ==
  ASSUME IInv, LoopHolds, DoShrink
  PROVE  LoopHolds'
<1> DEFINE p == Head(todo).pad
           s == pads[p]
           v == Last(s)
           new == Front(s)
           one == << v >>
           ts == Releases(one)
<1>1. /\ todo # << >> /\ Head(todo).do = "shrink" /\ s # << >>
      /\ pads' = [pads EXCEPT ![p] = new] /\ todo' = ts \o Tail(todo) /\ frame' = frame
  BY DEF DoShrink, Busy, Then
<1>2. p \in Pads /\ s \in Seq(Nat)
  <2>1. p \in Pads
    BY <1>1, HeadIs DEF TaskShape
  <2> QED
    BY <2>1, Shapes DEF IInv
<1>3. ~Puts(Head(todo), frame.cur) /\ (~Changes(Head(todo)) => p = "outer")
  BY <1>1, <1>2 DEF Puts, Changes, Pads
<1>4. Next
  BY DEF Next, Task
<1> HIDE DEF p, s
<1>5. v \in Nat /\ new \in Seq(Nat)
  BY <1>1, <1>2, OccFront
<1> HIDE DEF v
<1>6. ts \in Seq(Tasks) /\ ~Changing(ts)
  <2>1. one \in Seq(Nat)
    BY <1>5
  <2> HIDE DEF one
  <2> QED
    BY <2>1, DropsQuiet
<1> HIDE DEF new, ts
<1>7. ~Changes(Head(todo)) => pads'.inner = pads.inner
  BY <1>1, <1>2, <1>3, <1>5, OtherPad
<1> QED
  BY <1>1, <1>3, <1>4, <1>6, <1>7, LoopTask

LEMMA InsertFirst ==
  ASSUME NEW S, NEW s \in Seq(S), NEW v \in S, NEW t, t = InsertAt(s, 1, v)
  PROVE  t # << >> /\ t[1] = v
<1> DEFINE one == << v >>
<1>1. one \in Seq(S) /\ Len(one) = 1 /\ one[1] = v
  OBVIOUS
<1>2. SubSeq(s, 1, 1 - 1) = << >> /\ SubSeq(s, 1, Len(s)) = s
  OBVIOUS
<1>3. t = << >> \o one \o s
  BY <1>2 DEF InsertAt
<1> HIDE DEF one
<1>4. << >> \o one = one
  BY <1>1
<1>5. t = one \o s
  BY <1>3, <1>4
<1>6. /\ one \o s \in Seq(S) /\ Len(one \o s) = Len(one) + Len(s)
      /\ \A i \in 1..Len(one) : (one \o s)[i] = one[i]
  BY <1>1, ConcatIs
<1>7. /\ t \in Seq(S) /\ Len(t) = Len(one) + Len(s)
      /\ \A i \in 1..Len(one) : t[i] = one[i]
  BY <1>5, <1>6
<1>8. Len(s) \in Nat /\ Len(t) = 1 + Len(s) /\ t[1] = v
  BY <1>1, <1>7
<1> QED
  BY <1>7, <1>8

LEMMA LoopInsert ==
  ASSUME IInv, LoopHolds, DoInsert
  PROVE  LoopHolds'
<1> DEFINE p == Head(todo).pad
           i == Head(todo).at
           v == The
           s == pads[p]
           filled == Filled(s, i)
           new == InsertAt(filled, i, v)
           ts == << >>
<1>1. /\ todo # << >> /\ Head(todo).do = "insert"
      /\ pads' = [pads EXCEPT ![p] = new] /\ todo' = ts \o Tail(todo) /\ frame' = frame
  BY DEF DoInsert, Busy, Then, Filled
<1>2. p \in Pads /\ i \in Nat /\ i # 0 /\ v \in Nat /\ s \in Seq(Nat)
  <2>1. p \in Pads /\ i \in Nat /\ i # 0 /\ v \in Nat
    BY <1>1, HeadIs DEF TaskShape
  <2> QED
    BY <2>1, Shapes DEF IInv
<1>3. /\ ~Changes(Head(todo)) => p = "outer"
      /\ Puts(Head(todo), frame.cur) => p = "inner" /\ i = 1 /\ v = frame.cur
  BY <1>1, <1>2 DEF Puts, Changes, Pads, The
<1>4. Next
  BY DEF Next, Task
<1> HIDE DEF p, i, v, s
<1>5. filled \in Seq(Nat) /\ i \in 1..Len(filled) + 1
  BY <1>2, FilledIs DEF Pos
<1> HIDE DEF filled
<1>6. new \in Seq(Nat)
  BY <1>2, <1>5, OccInsert
<1>7. i = 1 => new # << >> /\ new[1] = v
  BY <1>2, <1>5, InsertFirst
<1> HIDE DEF new
<1>8. ts \in Seq(Tasks) /\ ~Changing(ts)
  BY Untouched
<1>9. (p = "outer" => pads'.inner = pads.inner) /\ (p = "inner" => pads'.inner = new)
  BY <1>1, <1>2, <1>6, OtherPad
<1> HIDE DEF ts
<1> QED
  BY <1>1, <1>3, <1>4, <1>7, <1>8, <1>9, LoopTask

\* The loop variable gets the value of the next turn, and the integer of a turn is the loop's own.
LEMMA LoopIterate ==
  ASSUME IInv, LoopHolds, DoIterate
  PROVE  LoopHolds'
<1> DEFINE items == heap[frame.of].items
           k == frame.counter
<1>1. /\ Busy("iterate") /\ Next
  BY DEF DoIterate, Next, Task
<1>2. /\ frame.kind = "foreach" /\ \A ts \in Seq(Tasks) : ts \o Tail(todo) = ts
      /\ frame \in FrameType /\ pads \in [Pads -> Seq(Nat)] /\ HeapOK(heap) /\ frame.cur \in Nat
  BY <1>1, IterateIs, Shapes
<1>3. ASSUME NEW c, frame' = [frame EXCEPT !.counter = c]
      PROVE  frame'.of = frame.of /\ frame'.kind = frame.kind /\ frame'.cur = frame.cur
  BY <1>2, <1>3 DEF FrameType
<1>4. CASE heap[frame.of].type = "array" /\ k < Len(items)
  <2>1. frame' = [frame EXCEPT !.counter = k + 1]
    BY <1>4 DEF DoIterate
  <2>2. frame.cur = Undef
    BY <1>4 DEF LoopHolds
  <2> QED
    BY <1>3, <2>1, <2>2 DEF LoopHolds
<1>5. CASE heap[frame.of].type = "int" /\ InRange(k) /\ IsUncopied
  <2> DEFINE w == frame.cur
             s == Set("inner", 1, w)
  <2>1. frame' = [frame EXCEPT !.counter = k + 1] /\ todo' = s \o Tail(todo)
    BY <1>5 DEF DoIterate, Then
  <2>2. s \in Seq(Tasks) /\ EndsWith(s, w) /\ Changing(s)
    BY <1>2, SetPuts
  <2> HIDE DEF s
  <2>3. todo' = s
    BY <1>2, <2>1, <2>2
  <2> QED
    BY <1>1, <1>2, <1>3, <1>5, <2>1, <2>2, <2>3, LoopAgain
<1>6. CASE heap[frame.of].type = "int" /\ InRange(k) /\ ~IsUncopied
  <2> DEFINE w == Len(heap) + 1
             s == Set("inner", 1, w)
             one == << frame.cur >>
             d == Releases(one)
  <2>1. frame' = [frame EXCEPT !.counter = k + 1, !.cur = w] /\ todo' = (d \o s) \o Tail(todo)
    BY <1>4, <1>6 DEF DoIterate, Then
  <2>2. frame'.of = frame.of /\ frame'.kind = frame.kind /\ frame'.cur = w
    BY <1>2, <2>1 DEF FrameType
  <2>3. w \in Nat
    <3>1. heap \in Seq(CellType)
      BY <1>2 DEF HeapOK
    <3> QED
      BY <3>1
  <2> HIDE DEF w
  <2>4. s \in Seq(Tasks) /\ EndsWith(s, w) /\ Changing(s)
    BY <1>2, <2>3, SetPuts
  <2>5. one \in Seq(Nat)
    BY <1>2
  <2> HIDE DEF s, one
  <2>6. d \in Seq(Tasks) /\ ~Changing(d)
    BY <2>5, DropsQuiet
  <2> HIDE DEF d
  <2>7. d \o s \in Seq(Tasks) /\ EndsWith(d \o s, w) /\ Changing(d \o s)
    BY <2>4, <2>6, EndsConcat, ConcatIs
  <2> DEFINE both == d \o s
  <2>8. todo' = both /\ EndsWith(both, w) /\ Changing(both)
    BY <1>2, <2>1, <2>7
  <2> HIDE DEF both
  <2> QED
    BY <1>1, <1>2, <1>6, <2>2, <2>8, LoopAgain
<1>7. CASE DropFrame
  BY <1>7 DEF DropFrame, NoFrame, LoopHolds
<1> QED
  BY <1>4, <1>5, <1>6, <1>7 DEF DoIterate

LEMMA LoopSet ==
  ASSUME HeapAssumption, ~AssignsLoop, IInv, LoopHolds, SetVariable
  PROVE  LoopHolds'
<1>1. PICK p \in DOMAIN pads, i \in 1..Outer :
        /\ todo = << >> /\ Own /\ todo' = Set(p, i, Top) /\ pads' = pads /\ frame' = frame
        /\ p = "inner" /\ frame.kind = "foreach" => AssignsLoop
  BY DEF SetVariable, Ready, Assignable
<1>2. pads \in [Pads -> Seq(Nat)] /\ p \in Pads /\ i \in Pos /\ Len(stack) > 0
  BY SMTT(40), <1>1, Shapes, OwnTop DEF IInv, Pos, HeapAssumption
<1>3. Top \in Nat
  BY <1>2, TopIs DEF Pos
<1>4. Next
  BY DEF Next, Op
<1>5. ASSUME frame.cur # Undef PROVE ~Changing(todo')
  <2>1. p = "outer"
    BY <1>1, <1>2, <1>5 DEF LoopHolds, Pads
  <2>2. ~Changing(Set("outer", i, Top))
    BY <1>2, <1>3, Untouched
  <2> QED
    BY <1>1, <2>1, <2>2
<1> QED
  BY <1>1, <1>4, <1>5, LoopOp

\* A release of one operand, when no task is under way.
LEMMA OneQuiet ==
  ASSUME NEW v \in Pos
  PROVE  ~Changing(<< Release(v) >>)
<1> DEFINE t == Release(v)
           ts == << t >>
<1>1. t.do = "release"
  BY DEF Release
<1> HIDE DEF t
<1>3. \A i \in DOMAIN ts : ts[i] = t
  OBVIOUS
<1> HIDE DEF ts
<1>2. ~Changing(ts)
  BY <1>1, <1>3 DEF Changing, Changes
<1> QED
  BY <1>2 DEF ts, t

\* The ops that drop operands.
LEMMA LoopDrops ==
  ASSUME IInv, LoopHolds, OP_POP_TOP \/ PostIncrement \/ av_pop
  PROVE  LoopHolds'
<1>1. /\ todo = << >> /\ Own /\ frame' = frame /\ pads' = pads /\ Next
      /\ todo' = Releases(<< Top >>) \/ todo' = << Release(Top) >>
  BY DEF OP_POP_TOP, PostIncrement, av_pop, Ready, Next, Op
<1>2. Top \in Pos /\ Top \in Nat
  BY <1>1, OwnTop, TopIs DEF IInv, Pos
<1> DEFINE one == << Top >>
<1>3. one \in Seq(Nat)
  BY <1>2
<1> HIDE DEF one
<1>4. ~Changing(Releases(one))
  BY <1>3, DropsQuiet
<1>5. ~Changing(<< Release(Top) >>)
  BY <1>2, OneQuiet
<1>6. ~Changing(todo')
  BY <1>1, <1>4, <1>5 DEF one
<1> QED
  BY <1>1, <1>6, LoopOp

LEMMA LoopForIter ==
  ASSUME IInv, LoopHolds, OP_FOR_ITER
  PROVE  LoopHolds'
<1> DEFINE d == Releases(Left)
           t == Iterate
           one == << t >>
<1>1. todo = << >> /\ frame' = frame /\ pads' = pads /\ Next /\ todo' = d \o one
  BY DEF OP_FOR_ITER, Ready, Next, Op
<1>2. d \in Seq(Tasks) /\ ~Changing(d)
  BY LeftIs, DropsQuiet DEF IInv
<1>3. t \in Tasks /\ t.do = "iterate"
  BY DEF Iterate, Tasks
<1> HIDE DEF d, t
<1>4. one \in Seq(Tasks) /\ Len(one) = 1 /\ one[1] = t
  BY <1>3
<1> HIDE DEF one
<1> DEFINE ts == d \o one
<1>5. /\ Len(ts) = Len(d) + 1 /\ Len(d) \in Nat /\ ts \in Seq(Tasks)
      /\ (\A i \in 1..Len(d) : ts[i] = d[i]) /\ ts[Len(d) + 1] = t
  <2>1. /\ Len(ts) = Len(d) + Len(one) /\ ts \in Seq(Tasks)
        /\ (\A i \in 1..Len(d) : ts[i] = d[i]) /\ (\A i \in 1..Len(one) : ts[Len(d) + i] = one[i])
    <3>1. d \in Seq(Tasks)
      BY <1>2
    <3>2. one \in Seq(Tasks)
      BY <1>4
    <3> QED
      BY <3>1, <3>2, ConcatIs
  <2> HIDE DEF ts
  <2>2. Len(d) \in Nat /\ 1 \in 1..Len(one)
    BY <1>2, <1>4
  <2>3. ts[Len(d) + 1] = one[1]
    BY <2>1, <2>2
  <2> QED
    BY <1>4, <2>1, <2>2, <2>3
<1>6. todo' = ts
  BY <1>1
<1> HIDE DEF ts
<1>7. ASSUME NEW i \in DOMAIN ts PROVE ~Changes(ts[i])
  <2>1. CASE i \in 1..Len(d)
    BY <1>2, <1>5, <2>1 DEF Changing
  <2>2. CASE i \notin 1..Len(d)
    <3>1. i = Len(d) + 1
      BY <1>5, <2>2
    <3> QED
      BY <1>3, <1>5, <3>1 DEF Changes
  <2> QED
    BY <2>1, <2>2
<1>8. ~Changing(todo')
  BY <1>6, <1>7 DEF Changing
<1> QED
  BY <1>1, <1>8, LoopOp

LEMMA LoopOps ==
  ASSUME HeapAssumption, ~AssignsLoop, IInv, LoopHolds, Op
  PROVE  LoopHolds'
<1>1. CASE \/ OP_PUSH_INT \/ GetVariable \/ PreIncrement \/ OP_MAKE_ARRAY \/ Bless \/ av_push
  <2>1. todo = << >> /\ todo' = todo /\ frame' = frame /\ pads' = pads
    BY <1>1 DEF OP_PUSH_INT, GetVariable, PreIncrement, OP_MAKE_ARRAY, Bless, av_push, Ready
  <2>2. Next
    BY DEF Next
  <2>3. ~Changing(todo')
    BY <2>1, Untouched
  <2> QED
    BY <2>1, <2>2, <2>3, LoopOp
<1>2. CASE OP_ENTER \/ OP_ENTER_FOREACH \/ OP_LEAVE
  <2>1. CASE OP_ENTER
    <3>1. frame' = [NoFrame EXCEPT !.kind = "block", !.top = Len(stack)]
      BY <2>1 DEF OP_ENTER
    <3> QED
      BY <3>1 DEF NoFrame, LoopHolds
  <2>2. CASE OP_ENTER_FOREACH
    BY <2>2 DEF OP_ENTER_FOREACH, LoopHolds
  <2>3. CASE OP_LEAVE
    BY <2>3 DEF OP_LEAVE, DropFrame, NoFrame, LoopHolds
  <2> QED
    BY <1>2, <2>1, <2>2, <2>3
<1> QED
  BY <1>1, <1>2, LoopSet, LoopDrops, LoopForIter DEF Op

LEMMA LoopStep ==
  ASSUME HeapAssumption, ~AssignsLoop, IInv, LoopHolds, [Next]_vars
  PROVE  LoopHolds'
<1>1. CASE Op
  BY <1>1, LoopOps
<1>2. CASE Task
  BY <1>2, LoopRelease, LoopBody, LoopFinish, LoopShift, LoopShrink, LoopInsert, LoopIterate DEF Task
<1>3. CASE UNCHANGED vars
  BY <1>3 DEF vars, LoopHolds, EndsWith, Changing
<1> QED
  BY <1>1, <1>2, <1>3 DEF Next

LEMMA LoopInit ==
  ASSUME Init
  PROVE  LoopHolds
BY DEF Init, NoFrame, LoopHolds

LEMMA NumbersRetain ==
  ASSUME NEW h, HeapOK(h), NEW v, NEW r \in DOMAIN h
  PROVE  Retain(h, v)[r].n = h[r].n
<1>1. h[r] \in CellType
  BY HeapIs
<1> DEFINE k == h[v].refcnt + 1
<1>2. [h[r] EXCEPT !.refcnt = k].n = h[r].n
  BY <1>1 DEF CellType
<1>3. Retain(h, v) = IF v = Undef THEN h ELSE [h EXCEPT ![v].refcnt = k]
  BY DEF Retain
<1> HIDE DEF k
<1> QED
  BY <1>2, <1>3

\* The integer of the last turn, used again, is in no outer variable: the
\* frame holds it and the loop variable does, and its count is two.
LEMMA ReusedIsOwn ==
  ASSUME IInv, LoopHolds, Busy("iterate"), IsUncopied
  PROVE  ~Held(frame.cur)
<1> DEFINE w == frame.cur
<1> SUFFICES ASSUME Held(w) PROVE FALSE
  OBVIOUS
<1>1. w # Undef /\ heap[w].refcnt = 2
  BY DEF IsUncopied
<1>2. /\ Shaped /\ todo # << >> /\ todo \in Seq(Tasks) /\ pads.outer \in Seq(Nat) /\ pads.inner \in Seq(Nat)
      /\ w \in Pos /\ HeapOK(heap)
  BY <1>1, IterateIs, Shapes DEF Undef, Pos
<1>3. Len(todo) = 1 /\ Head(todo).do = "iterate" /\ todo[1] = Head(todo)
  <2>1. Head(todo).do = "iterate" /\ GuardedTask(todo, 1, stack, frame) /\ todo[1] = Head(todo)
    BY <1>2, HeadIs DEF Busy
  <2> QED
    BY <2>1 DEF GuardedTask
<1>4. ~Changing(todo)
  BY <1>2, <1>3 DEF Changing, Changes
<1>5. pads.inner # << >> /\ pads.inner[1] = w
  BY <1>1, <1>4 DEF LoopHolds
<1> HIDE DEF w
<1>6. Occurrences(pads.inner, w) # 0
  <2>1. 1 \in DOMAIN pads.inner
    BY <1>2, <1>5
  <2> QED
    BY <1>2, <1>5, <2>1, OccAbsent
<1>7. Occurrences(pads.outer, w) # 0
  BY <1>2, OccAbsent DEF Held
<1>8. One(frame.cur, w) = 1
  BY DEF One, w
<1>9. Count(heap, w) = 2
  <2>1. w \in DOMAIN heap
    <3>1. Alive(w)
      BY <1>2, OwnedLive DEF w
    <3> QED
      BY <3>1 DEF Alive
  <2> QED
    BY <1>1, <2>1 DEF Count
<1>10. Summed(w)
  BY <1>2, Counts
<1> DEFINE a == Occurrences(pads.outer, w)
           b == Occurrences(pads.inner, w)
           s == Occurrences(stack, w)
           o == One(frame.of, w)
           t == Occurrences(todo, Release(w))
           h == Holds(heap, w)
<1>11. /\ 2 = a + b + s + (1 + o) + t + h
       /\ a \in Nat \ {0} /\ b \in Nat \ {0} /\ s \in Nat /\ o \in Nat /\ t \in Nat /\ h \in Nat
  BY <1>6, <1>7, <1>8, <1>9, <1>10 DEF Summed
<1> HIDE DEF a, b, s, o, t, h
<1> QED
  BY <1>11

LEMMA TurnNew ==
  ASSUME IInv, LoopHolds, [Next]_vars, Busy("iterate"), NEW r \in Cells, Held(r)
  PROVE  heap'[r].n = heap[r].n
<1>1. HeapOK(heap) /\ heap \in Seq(CellType) /\ todo # << >> /\ Head(todo).do = "iterate" /\ r \in DOMAIN heap
  BY IterateIs, Shapes DEF Busy, Cells
<1>2. DoIterate \/ UNCHANGED vars
  <2>1. ~Op
    BY <1>1 DEF Op, OP_PUSH_INT, GetVariable, SetVariable, OP_POP_TOP, PreIncrement, PostIncrement,
                OP_MAKE_ARRAY, Bless, av_push, av_pop, OP_ENTER, OP_ENTER_FOREACH, OP_FOR_ITER, OP_LEAVE, Ready
  <2>2. Task => DoIterate
    BY <1>1 DEF Task, DoRelease, DoBody, DoFinish, DoShift, DoShrink, DoInsert, Busy
  <2> QED
    BY <2>1, <2>2 DEF Next
<1>3. CASE heap' = heap
  BY <1>3
<1>4. CASE \E v : heap' = Retain(heap, v)
  BY <1>1, <1>4, NumbersRetain
<1>5. CASE \E c : heap' = Append(heap, c)
  <2>1. PICK c : heap' = Append(heap, c)
    BY <1>5
  <2>2. heap'[r] = heap[r]
    BY <1>1, <2>1
  <2> QED
    BY <2>2
<1>6. CASE IsUncopied /\ \E k : heap' = [Retain(heap, frame.cur) EXCEPT ![frame.cur].n = k]
  <2> DEFINE g == Retain(heap, frame.cur)
  <2>1. PICK k : heap' = [g EXCEPT ![frame.cur].n = k]
    BY <1>6
  <2>2. r # frame.cur
    BY <1>6, ReusedIsOwn
  <2>3. g[r].n = heap[r].n
    BY <1>1, NumbersRetain
  <2> HIDE DEF g
  <2>4. heap'[r] = g[r]
    BY <2>1, <2>2
  <2> QED
    BY <2>3, <2>4
<1>7. CASE DoIterate
  BY <1>3, <1>4, <1>5, <1>6, <1>7 DEF DoIterate
<1>8. CASE UNCHANGED vars
  BY <1>3, <1>8 DEF vars
<1> QED
  BY <1>2, <1>7, <1>8

\* A turn of a foreach leaves the integers that outer variables hold alone:
\* what OP_FOR_ITER uses again is held by nothing but the frame and the loop
\* variable ("value is not copied").  It is so of programs that do not assign
\* to the loop variable.
THEOREM TurnsAreNewCorrect ==
  ASSUME HeapAssumption, ~AssignsLoop
  PROVE  Spec => TurnsAreNew
<1>1. Init => LoopHolds
  BY LoopInit
<1>2. IInv /\ LoopHolds /\ [Next]_vars => LoopHolds'
  BY LoopStep
<1>3. IInv /\ LoopHolds /\ [Next]_vars =>
        [Busy("iterate") =>
           \A r \in Cells : heap[r].type = "int" /\ Held(r) => heap'[r].n = heap[r].n]_vars
  BY TurnNew
<1>4. Spec => []IInv
  BY IInvHolds
<1> QED
  BY <1>1, <1>2, <1>3, <1>4, PTL DEF Spec, TurnsAreNew

-----------------------------------------------------------------------------
\* f gives what rs lead to in at most n steps.
IsReach(h, rs, f, n) ==
  f = [m \in 0..n |->
        IF m = 0 THEN rs ELSE f[m-1] \cup UNION {Range(h[r].items) : r \in f[m-1] \ {Undef}}]

LEMMA ReachExists ==
  ASSUME NEW h, NEW rs, NEW n \in Nat
  PROVE  \E f : IsReach(h, rs, f, n)
<1> DEFINE T == {m \in 0..n : ~\E f : IsReach(h, rs, f, m)}
<1> SUFFICES ASSUME T # {} PROVE FALSE
  OBVIOUS
<1>1. PICK m \in T : \A k \in T : m <= k
  <2>1. T \in SUBSET Nat
    OBVIOUS
  <2> HIDE DEF T
  <2> QED
    BY <2>1, LeastNat
<1>2. m \in 0..n /\ ~\E f : IsReach(h, rs, f, m)
  OBVIOUS
<1>3. m # 0
  <2>1. IsReach(h, rs, [k \in 0..0 |-> rs], 0)
    BY DEF IsReach
  <2> QED
    BY <1>2, <2>1
<1>4. m - 1 \in 0..n /\ m - 1 \notin T
  <2>1. m - 1 \in 0..n /\ m - 1 < m
    BY <1>2, <1>3
  <2> HIDE DEF T
  <2>2. ASSUME m - 1 \in T PROVE FALSE
    <3>1. m <= m - 1
      BY <1>1, <2>2
    <3> QED
      BY <1>2, <3>1
  <2> QED
    BY <2>1, <2>2
<1>5. PICK f : IsReach(h, rs, f, m - 1)
  BY <1>4
<1> DEFINE step(s) == s \cup UNION {Range(h[r].items) : r \in s \ {Undef}}
           g == [k \in 0..m |-> IF k = m THEN step(f[m-1]) ELSE f[k]]
<1>6. g[m] = step(f[m-1]) /\ \A k \in 0..m - 1 : g[k] = f[k]
  BY <1>2
<1>7. g = [k \in 0..m |-> g[k]]
  OBVIOUS
<1>8. f = [k \in 0..m - 1 |-> IF k = 0 THEN rs ELSE step(f[k-1])]
  BY <1>5, Zenon DEF IsReach
<1> HIDE DEF g, step
<1>9. m - 1 \in 0..m - 1 /\ 0 \in 0..m - 1
  BY <1>2, <1>3
<1>10. \A k \in 0..m : g[k] = IF k = 0 THEN rs ELSE step(g[k-1])
  <2> TAKE k \in 0..m
  <2>1. CASE k = 0
    BY <1>6, <1>8, <1>9, <2>1
  <2>2. CASE k = m
    BY <1>3, <1>6, <1>9, <2>2
  <2>3. CASE k # 0 /\ k # m
    <3>1. k \in 0..m - 1 /\ k - 1 \in 0..m - 1
      BY <1>2, <2>3
    <3>2. f[k] = step(f[k-1])
      BY <1>8, <2>3, <3>1
    <3> QED
      BY <1>6, <2>3, <3>1, <3>2
  <2> QED
    BY <2>1, <2>2, <2>3
<1>11. g = [k \in 0..m |-> IF k = 0 THEN rs ELSE step(g[k-1])]
  BY <1>7, <1>10, Zenon
<1>12. IsReach(h, rs, g, m)
  BY <1>11, Zenon DEF IsReach, step
<1> QED
  BY <1>2, <1>12

\* What rs lead to, step by step.
Reaches(rs, f) ==
  /\ f[0] = rs /\ From(rs) = f[Len(heap)]
  /\ \A n \in 1..Len(heap) :
       /\ f[n-1] \subseteq f[n]
       /\ \A r \in f[n-1] \ {Undef} : Range(heap[r].items) \subseteq f[n]
       /\ \A x \in f[n] : x \in f[n-1] \/ \E r \in f[n-1] \ {Undef} : x \in Range(heap[r].items)

LEMMA FromIs ==
  ASSUME Len(heap) \in Nat, NEW rs
  PROVE  \E f : Reaches(rs, f)
<1> DEFINE step(s) == s \cup UNION {Range(heap[r].items) : r \in s \ {Undef}}
           l == Len(heap)
           f == CHOOSE g : g = [m \in 0..l |->
                  IF m = 0 THEN rs ELSE g[m-1] \cup UNION {Range(heap[r].items) : r \in g[m-1] \ {Undef}}]
<1>1. f = [m \in 0..l |->
            IF m = 0 THEN rs ELSE f[m-1] \cup UNION {Range(heap[r].items) : r \in f[m-1] \ {Undef}}]
  <2>1. \E g : IsReach(heap, rs, g, l)
    BY ReachExists
  <2> QED
    BY <2>1, Zenon DEF IsReach
<1>2. From(rs) = f[l]
  BY DEF From
<1> HIDE DEF f
<1>3. f = [m \in 0..l |-> IF m = 0 THEN rs ELSE step(f[m-1])]
  BY <1>1, Zenon
<1> HIDE DEF step
<1>4. f[0] = rs /\ \A n \in 1..l : f[n] = step(f[n-1])
  BY <1>3
<1>5. \A n \in 1..l : f[n] = f[n-1] \cup UNION {Range(heap[r].items) : r \in f[n-1] \ {Undef}}
  BY <1>4 DEF step
<1>6. ASSUME NEW n \in 1..l
      PROVE  /\ f[n-1] \subseteq f[n]
             /\ \A r \in f[n-1] \ {Undef} : Range(heap[r].items) \subseteq f[n]
             /\ \A x \in f[n] : x \in f[n-1] \/ \E r \in f[n-1] \ {Undef} : x \in Range(heap[r].items)
  <2> DEFINE s == f[n-1]
             t == f[n]
  <2>1. t = s \cup UNION {Range(heap[r].items) : r \in s \ {Undef}}
    BY <1>5
  <2> HIDE DEF s, t
  <2>2. s \subseteq t /\ (\A r \in s \ {Undef} : Range(heap[r].items) \subseteq t)
        /\ \A x \in t : x \in s \/ \E r \in s \ {Undef} : x \in Range(heap[r].items)
    BY <2>1
  <2> QED
    BY <2>2 DEF s, t
<1>7. Reaches(rs, f)
  BY <1>2, <1>4, <1>6 DEF Reaches
<1> QED
  BY <1>7
LEMMA ReachGrows ==
  ASSUME Len(heap) \in Nat, NEW rs, NEW f, Reaches(rs, f), NEW n \in 0..Len(heap)
  PROVE  f[n] \subseteq From(rs) /\ rs \subseteq f[n]
<1> DEFINE l == Len(heap)
<1>1. l \in Nat /\ n \in 0..l /\ \A m \in 1..l : f[m-1] \subseteq f[m]
  BY DEF Reaches
<1>2. f[l] = From(rs) /\ f[0] = rs
  BY DEF Reaches
<1> HIDE DEF l
<1>3. f[n] \subseteq f[l]
  <2> DEFINE T == {d \in 0..l : ~(f[l-d] \subseteq f[l])}
  <2>1. ASSUME T # {} PROVE FALSE
    <3>1. PICK d \in T : \A e \in T : d <= e
      <4>1. T \in SUBSET Nat
        BY <1>1
      <4> HIDE DEF T
      <4> QED
        BY <2>1, <4>1, LeastNat
    <3>2. d \in 0..l /\ ~(f[l-d] \subseteq f[l])
      OBVIOUS
    <3>3. d # 0
      <4>1. l - 0 = l
        BY <1>1
      <4> QED
        BY <3>2, <4>1
    <3>4. PICK e \in 0..l : e = d - 1
      BY <1>1, <3>2, <3>3
    <3>5. e \notin T
      <4> HIDE DEF T
      <4>1. e < d /\ e \in Nat /\ d \in Nat
        BY <1>1, <3>2, <3>4
      <4> QED
        BY <3>1, <4>1
    <3>6. f[l-e] \subseteq f[l]
      BY <3>5
    <3>7. PICK m \in 1..l : m = l - e
      BY <1>1, <3>2, <3>3, <3>4
    <3>8. m - 1 = l - d
      BY <1>1, <3>2, <3>4, <3>7
    <3> QED
      BY <1>1, <3>2, <3>6, <3>7, <3>8
  <2>2. l - n \in 0..l /\ l - (l - n) = n
    BY <1>1
  <2>3. l - n \notin T
    BY <2>1
  <2> QED
    BY <2>2, <2>3
<1>4. f[0] \subseteq f[n]
  <2> DEFINE T == {d \in 0..l : ~(f[0] \subseteq f[d])}
  <2>1. ASSUME T # {} PROVE FALSE
    <3>1. PICK d \in T : \A e \in T : d <= e
      <4>1. T \in SUBSET Nat
        BY <1>1
      <4> HIDE DEF T
      <4> QED
        BY <2>1, <4>1, LeastNat
    <3>2. d \in 1..l /\ ~(f[0] \subseteq f[d])
      BY <1>1
    <3>4. PICK e \in 0..l : e = d - 1
      BY <1>1, <3>2
    <3>5. e \notin T
      <4> HIDE DEF T
      <4>1. e < d /\ e \in Nat /\ d \in Nat
        BY <1>1, <3>2, <3>4
      <4> QED
        BY <3>1, <4>1
    <3>6. f[0] \subseteq f[e] /\ f[e] \subseteq f[d]
      BY <1>1, <3>2, <3>4, <3>5
    <3> QED
      BY <3>2, <3>6
  <2> QED
    BY <1>1, <2>1
<1> QED
  BY <1>2, <1>3, <1>4

\* Values, each of which the next one holds.
Chain(s, k) ==
  /\ s \in [0..k -> DOMAIN heap]
  /\ \A i \in 1..k : s[i-1] \in Range(heap[s[i]].items)

LEMMA Along ==
  ASSUME Len(heap) \in Nat, \A r \in DOMAIN heap : r # Undef,
         NEW k \in Nat, NEW s, Chain(s, k), NEW b \in 0..k, NEW rs, s[b] \in rs, NEW a \in 0..b, b - a <= Len(heap)
  PROVE  s[a] \in From(rs)
<1> DEFINE l == Len(heap)
<1>1. PICK f : Reaches(rs, f)
  BY FromIs
<1>2. l \in Nat /\ b \in 0..k /\ a \in 0..b /\ b - a \in 0..l
  OBVIOUS
<1>3. \A i \in 1..k : s[i-1] \in Range(heap[s[i]].items) /\ s[i] \in DOMAIN heap
  BY DEF Chain
<1>4. f[0] = rs /\ \A n \in 1..l : \A r \in f[n-1] \ {Undef} : Range(heap[r].items) \subseteq f[n]
  BY <1>1 DEF Reaches
<1> DEFINE T == {d \in 0..b : d <= l /\ s[b-d] \notin f[d]}
<1>5. ASSUME T # {} PROVE FALSE
  <2>1. PICK d \in T : \A e \in T : d <= e
    <3>1. T \in SUBSET Nat
      BY <1>2
    <3> HIDE DEF T
    <3> QED
      BY <1>5, <3>1, LeastNat
  <2>2. d \in 0..b /\ d <= l /\ s[b-d] \notin f[d]
    OBVIOUS
  <2>3. d # 0
    <3>1. b - 0 = b
      BY <1>2
    <3> QED
      BY <1>4, <2>2, <3>1
  <2>4. PICK e \in 0..b : e = d - 1
    BY <1>2, <2>2, <2>3
  <2>5. e \notin T /\ e <= l
    <3> HIDE DEF T
    <3>1. e < d /\ e \in Nat /\ d \in Nat
      BY <1>2, <2>2, <2>4
    <3> QED
      BY <1>2, <2>1, <2>2, <3>1
  <2>6. s[b-e] \in f[e]
    BY <2>5
  <2>7. PICK m \in 1..k : m = b - e
    BY <1>2, <2>2, <2>3, <2>4
  <2>8. m - 1 = b - d /\ d \in 1..l
    BY <1>2, <2>2, <2>3, <2>4, <2>7
  <2>9. s[m] \in f[d-1] \ {Undef} /\ s[m-1] \in Range(heap[s[m]].items)
    BY <1>3, <2>4, <2>6, <2>7
  <2> QED
    BY <1>4, <2>2, <2>8, <2>9
<1>6. PICK d \in 0..b : d = b - a
  BY <1>2
<1>7. s[b-d] \in f[d] /\ d \in 0..l /\ b - d = a
  <2>1. d \notin T
    BY <1>5
  <2>2. d <= l /\ d \in 0..l /\ b - d = a
    BY <1>2, <1>6
  <2> QED
    BY <2>1, <2>2
<1> QED
  BY <1>1, <1>7, ReachGrows

\* A value that is not freed has a count, or its DESTROY has run and it is going to be freed.
Dropped ==
  \A r \in DOMAIN heap : heap[r].live =>
    /\ heap[r].refcnt = 0 => heap[r].destroyed
    /\ heap[r].destroyed => \E i \in DOMAIN todo : todo[i] = Finish(r)

\* What no root refers to is held by a value.
LEMMA HeldByValue ==
  ASSUME IInv, Dropped, todo = << >>, NEW x \in DOMAIN heap, heap[x].live, x \notin Roots
  PROVE  \E a \in DOMAIN heap : heap[a].live /\ x \in Range(heap[a].items)
<1>1. /\ HeapOK(heap) /\ pads.outer \in Seq(Nat) /\ pads.inner \in Seq(Nat) /\ stack \in Seq(Pos)
      /\ x \in Pos /\ heap \in Seq(CellType) /\ heap[x] \in CellType
  BY Shapes, HeapIs DEF IInv
<1>2. heap[x].refcnt # 0
  BY DEF Dropped
<1>3. Count(heap, x) # 0
  BY <1>2 DEF Count
<1>4. /\ Occurrences(pads.outer, x) = 0 /\ Occurrences(pads.inner, x) = 0 /\ Occurrences(stack, x) = 0
      /\ One(frame.cur, x) = 0 /\ One(frame.of, x) = 0
  BY <1>1, OccAbsent DEF Roots, One, Range
<1>5. Occurrences(todo, Release(x)) = 0
  BY OccNone
<1>6. Holds(heap, x) # 0
  BY <1>1, <1>3, <1>4, <1>5, Counts DEF Summed
<1>7. HeldAt(heap, x) # {}
  BY <1>6, FS_EmptySet DEF Holds
<1>8. PICK y \in HeldAt(heap, x) : TRUE
  BY <1>7
<1>9. << y[1], y[2] >> \in HeldAt(heap, x)
  BY <1>8, HeldIs
<1>10. y[1] \in DOMAIN heap /\ heap[y[1]].live /\ y[2] \in DOMAIN heap[y[1]].items /\ heap[y[1]].items[y[2]] = x
  BY <1>9, HeldIs
<1> QED
  BY <1>10 DEF Range

LEMMA Backwards ==
  ASSUME IInv, Dropped, todo = << >>, NEW r \in DOMAIN heap, heap[r].live, NEW f, Reaches(Roots, f),
         r \notin From(Roots), NEW n \in 0..Len(heap)
  PROVE  \E s : Chain(s, n) /\ s[0] = r /\ heap[s[n]].live /\ s[n] \notin f[Len(heap)-n]
<1> DEFINE l == Len(heap)
           Good(k, s) == Chain(s, k) /\ s[0] = r /\ heap[s[k]].live /\ s[k] \notin f[l-k]
           T == {k \in 0..l : ~\E s : Good(k, s)}
<1>1. l \in Nat /\ HeapOK(heap) /\ \A x \in DOMAIN heap : x # Undef
  <2>1. HeapOK(heap) /\ heap \in Seq(CellType)
    BY Shapes DEF IInv
  <2> QED
    BY <2>1, HeapIs DEF Pos, Undef
<1>2. From(Roots) = f[l] /\ \A m \in 1..l : \A x \in f[m-1] \ {Undef} : Range(heap[x].items) \subseteq f[m]
  BY DEF Reaches
<1>3. \A m \in 0..l : Roots \subseteq f[m]
  BY <1>1, ReachGrows
<1> HIDE DEF l
<1>4. Good(0, [i \in 0..0 |-> r])
  <2> DEFINE s == [i \in 0..0 |-> r]
  <2>1. s \in [0..0 -> DOMAIN heap] /\ s[0] = r /\ l - 0 = l
    BY <1>1
  <2> HIDE DEF s
  <2> QED
    BY <1>2, <2>1 DEF Chain
<1>5. ASSUME NEW k \in 1..l, NEW s, Good(k - 1, s) PROVE \E t : Good(k, t)
  <2> DEFINE x == s[k-1]
  <2>1. /\ s \in [0..k-1 -> DOMAIN heap] /\ s[0] = r /\ \A i \in 1..k-1 : s[i-1] \in Range(heap[s[i]].items)
    BY <1>5 DEF Chain
  <2>2. k - 1 \in 0..k - 1 /\ l - k + 1 \in 1..l /\ l - (k - 1) = l - k + 1 /\ (l - k + 1) - 1 = l - k
    BY <1>1
  <2>3. x \in DOMAIN heap /\ heap[x].live /\ x \notin f[l - k + 1]
    BY <1>5, <2>1, <2>2
  <2>4. x \notin Roots
    BY <1>1, <1>3, <2>2, <2>3
  <2>5. PICK a \in DOMAIN heap : heap[a].live /\ x \in Range(heap[a].items)
    BY <2>3, <2>4, HeldByValue
  <2>6. a \notin f[l-k]
    BY <1>1, <1>2, <2>2, <2>3, <2>5
  <2> DEFINE t == [i \in 0..k |-> IF i = k THEN a ELSE s[i]]
  <2>7. t[k] = a /\ \A i \in 0..k-1 : t[i] = s[i]
    BY <1>1
  <2>8. t \in [0..k -> DOMAIN heap]
    BY <1>1, <2>1
  <2> HIDE DEF t
  <2>9. \A i \in 1..k : t[i-1] \in Range(heap[t[i]].items)
    <3> TAKE i \in 1..k
    <3>1. CASE i = k
      BY <2>2, <2>5, <2>7, <3>1
    <3>2. CASE i # k
      <4>1. i \in 1..k-1 /\ i \in 0..k-1 /\ i - 1 \in 0..k-1
        BY <1>1, <3>2
      <4> QED
        BY <2>1, <2>7, <4>1
    <3> QED
      BY <3>1, <3>2
  <2>10. t[0] = r
    <3>1. 0 \in 0..k-1
      BY <1>1
    <3> QED
      BY <2>1, <2>7, <3>1
  <2>11. Good(k, t)
    BY <2>5, <2>6, <2>7, <2>8, <2>9, <2>10 DEF Chain
  <2> QED
    BY <2>11
<1>6. ASSUME T # {} PROVE FALSE
  <2>1. PICK k \in T : \A m \in T : k <= m
    <3>1. T \in SUBSET Nat
      BY <1>1
    <3> HIDE DEF T
    <3> QED
      BY <1>6, <3>1, LeastNat
  <2> HIDE DEF Good
  <2>2. k \in 0..l /\ ~\E s : Good(k, s)
    BY <2>1
  <2>3. k # 0
    BY <1>4, <2>2
  <2>4. PICK m \in 0..l : m = k - 1
    BY <1>1, <2>2, <2>3
  <2>5. m \notin T
    <3> HIDE DEF T
    <3>1. m < k /\ m \in Nat /\ k \in Nat
      BY <1>1, <2>2, <2>4
    <3> QED
      BY <2>1, <3>1
  <2>6. k \in 1..l /\ \E s : Good(k - 1, s)
    BY <1>1, <2>2, <2>3, <2>4, <2>5
  <2> QED
    BY <1>5, <2>2, <2>6
<1>7. n \in 0..l
  BY DEF l
<1> QED
  BY <1>6, <1>7 DEF l

\* What is not freed and no root leads to hangs on a cycle of values: the chain
\* of what holds it is longer than there are values.
LEMMA OnlyCyclesStay ==
  ASSUME IInv, Dropped
  PROVE  Collected
<1> SUFFICES ASSUME todo = << >>, NEW r \in Cells \ From(Roots), heap[r].live
             PROVE  \E c \in Cells : c \in From(Range(heap[c].items)) /\ r \in From({c})
  BY DEF Collected
<1> DEFINE l == Len(heap)
<1>1. l \in Nat /\ DOMAIN heap = 1..l /\ HeapOK(heap) /\ \A x \in DOMAIN heap : x # Undef
  <2>1. HeapOK(heap) /\ heap \in Seq(CellType)
    BY Shapes DEF IInv
  <2> QED
    BY <2>1, HeapIs DEF Pos, Undef
<1>2. r \in DOMAIN heap /\ r \notin From(Roots)
  BY DEF Cells
<1>3. PICK f : Reaches(Roots, f)
  BY <1>1, FromIs
<1>4. PICK s : Chain(s, l) /\ s[0] = r
  <2>1. l \in 0..l
    BY <1>1
  <2> QED
    BY <1>2, <1>3, <2>1, Backwards
<1>5. s \in [0..l -> 1..l]
  BY <1>1, <1>4 DEF Chain
<1>6. PICK i, j \in 0..l : i # j /\ s[i] = s[j]
  <2>1. IsFiniteSet(0..l) /\ Cardinality(0..l) = l + 1 /\ IsFiniteSet(1..l) /\ Cardinality(1..l) = l
    <3>1. 0 \in Int /\ 1 \in Int /\ l \in Int /\ ~(0 > l) /\ l - 0 + 1 = l + 1
      BY <1>1
    <3>2. IsFiniteSet(0..l) /\ Cardinality(0..l) = l + 1
      BY <3>1, FS_Interval
    <3>3. IsFiniteSet(1..l) /\ Cardinality(1..l) = IF 1 > l THEN 0 ELSE l - 1 + 1
      BY <3>1, FS_Interval
    <3> QED
      BY <1>1, <3>2, <3>3
  <2>2. Cardinality(1..l) < Cardinality(0..l)
    BY <1>1, <2>1
  <2> DEFINE A == 0..l
             B == 1..l
  <2>3. s \in [A -> B] /\ IsFiniteSet(A) /\ IsFiniteSet(B) /\ Cardinality(B) < Cardinality(A)
    BY <1>5, <2>1, <2>2
  <2> HIDE DEF A, B
  <2>4. \E x, y \in A : x # y /\ s[x] = s[y]
    BY <2>3, FS_PigeonHole
  <2> QED
    BY <2>4 DEF A
<1>7. PICK a \in 0..l, b \in 0..l : a < b /\ s[a] = s[b]
  BY <1>1, <1>6
<1> DEFINE c == s[b]
<1>8. c \in Cells
  BY <1>1, <1>5, <1>7 DEF Cells
<1>9. c \in From(Range(heap[c].items))
  <2>1. PICK m \in 0..l : m = b - 1
    BY <1>1, <1>7
  <2>2. b \in 1..l /\ a \in 0..m /\ m - a <= l
    BY <1>1, <1>7, <2>1
  <2>3. s[m] \in Range(heap[c].items)
    BY <1>4, <2>1, <2>2 DEF Chain
  <2>4. s[a] \in From(Range(heap[c].items))
    BY <1>1, <1>4, <2>2, <2>3, Along
  <2> QED
    BY <1>7, <2>4
<1>10. r \in From({c})
  <2>1. 0 \in 0..b /\ b - 0 <= l /\ s[b] \in {c}
    BY <1>1, <1>7
  <2>2. s[0] \in From({c})
    BY <1>1, <1>4, <1>7, <2>1, Along
  <2> QED
    BY <1>4, <2>2
<1> QED
  BY <1>8, <1>9, <1>10

-----------------------------------------------------------------------------
(* What a step does to the values. *)

IntIs(h, r) == r = Undef \/ (r \in DOMAIN h /\ h[r].type = "int")

\* A value keeps its type and its script, and what it holds if it is no array, until it is freed.
Follows(c, d) ==
  /\ d.type = c.type /\ d.script = c.script /\ (d.live => c.live)
  /\ d.items = c.items \/ c.type = "array" \/ (d.items = << >> /\ ~d.live)

\* It is dropped by a release only.
Goes(c, d) ==
  /\ Follows(c, d)
  /\ d.live => d.destroyed = c.destroyed /\ (d.refcnt = 0 => c.refcnt = 0)

Fresh(h, c) ==
  /\ c.refcnt # 0 /\ ~c.destroyed
  /\ c.type = "int" => c.items = << >>
  /\ c.type = "object" => c.script \in Scripts /\ (c.script = "data" /\ ~Overwrites => IntIs(h, c.items[1]))

Grown(h, g) ==
  /\ \A a \in DOMAIN h : a \in DOMAIN g /\ Goes(h[a], g[a])
  /\ \A a \in DOMAIN g : a \in DOMAIN h \/ Fresh(h, g[a])

LEMMA GoesSame ==
  /\ \A c : Goes(c, c)
  /\ \A h : Grown(h, h)
BY DEF Goes, Follows, Grown

LEMMA GoesPut ==
  ASSUME NEW c \in CellType
  PROVE  /\ \A x : x # 0 => Goes(c, [c EXCEPT !.refcnt = x])
         /\ \A x : Goes(c, [c EXCEPT !.n = x])
         /\ \A x, y : x # 0 => Goes(c, [c EXCEPT !.refcnt = x, !.n = y])
         /\ \A x : c.type = "array" => Goes(c, [c EXCEPT !.items = x])
         /\ \A x : x = << >> => Goes(c, [c EXCEPT !.live = FALSE, !.refcnt = 0, !.items = x, !.n = 0])
         /\ \A x : Follows(c, [c EXCEPT !.refcnt = x])
         /\ \A x, y : Follows(c, [c EXCEPT !.destroyed = TRUE, !.refcnt = x, !.runs = y])
         /\ \A x, y : LET d == [c EXCEPT !.destroyed = TRUE, !.refcnt = x, !.runs = y]
                      IN  d.destroyed /\ d.live = c.live
         /\ \A x : LET d == [c EXCEPT !.refcnt = x]
                   IN  d.destroyed = c.destroyed /\ d.live = c.live /\ d.refcnt = x
BY DEF Goes, Follows, CellType

LEMMA GrownPut ==
  ASSUME NEW S, NEW h \in Seq(S), NEW a, NEW c, a \in DOMAIN h => Goes(h[a], c), NEW g, g = [h EXCEPT ![a] = c]
  PROVE  Grown(h, g)
BY GoesSame DEF Grown

LEMMA GrownAppend ==
  ASSUME NEW S, NEW h \in Seq(S), NEW g \in Seq(S), Grown(h, g), NEW c, Fresh(h, c), NEW k, k = Append(g, c)
  PROVE  Grown(h, k)
<1>1. DOMAIN g = 1..Len(g) /\ Len(g) \in Nat /\ DOMAIN k = 1..Len(g) + 1 /\ (\A a \in 1..Len(g) : k[a] = g[a])
      /\ k[Len(g) + 1] = c
  OBVIOUS
<1>2. \A a \in DOMAIN h : a \in DOMAIN k /\ Goes(h[a], k[a])
  BY <1>1 DEF Grown
<1>3. ASSUME NEW a \in DOMAIN k PROVE a \in DOMAIN h \/ Fresh(h, k[a])
  <2>1. CASE a = Len(g) + 1
    BY <1>1, <2>1
  <2>2. CASE a # Len(g) + 1
    <3>1. a \in DOMAIN g /\ k[a] = g[a]
      BY <1>1, <2>2
    <3> QED
      BY <3>1 DEF Grown
  <2> QED
    BY <2>1, <2>2
<1> QED
  BY <1>2, <1>3 DEF Grown

LEMMA GrownRetain ==
  ASSUME NEW h, HeapOK(h), NEW v
  PROVE  Grown(h, Retain(h, v))
<1>1. CASE v = Undef
  BY <1>1, GoesSame DEF Retain
<1>2. CASE v # Undef
  <2> DEFINE c == [h[v] EXCEPT !.refcnt = h[v].refcnt + 1]
  <2>1. Retain(h, v) = [h EXCEPT ![v] = c]
    BY <1>2 DEF Retain
  <2>2. v \in DOMAIN h => Goes(h[v], c)
    <3> HAVE v \in DOMAIN h
    <3>1. h[v] \in CellType
      BY HeapIs
    <3>2. PICK k : k = h[v].refcnt + 1
      OBVIOUS
    <3>3. k # 0
      BY <3>1, <3>2 DEF CellType
    <3>4. Goes(h[v], [h[v] EXCEPT !.refcnt = k])
      BY <3>1, <3>3, GoesPut
    <3> QED
      BY <3>2, <3>4
  <2>3. h \in Seq(CellType)
    BY HeapIs
  <2> HIDE DEF c
  <2> QED
    BY <2>1, <2>2, <2>3, GrownPut
<1> QED
  BY <1>1, <1>2

LEMMA GrownFreed ==
  ASSUME NEW h, HeapOK(h), NEW a
  PROVE  Grown(h, Freed(h, a))
<1> DEFINE e == << >>
           c == [h[a] EXCEPT !.live = FALSE, !.refcnt = 0, !.items = e, !.n = 0]
<1>1. Freed(h, a) = [h EXCEPT ![a] = c]
  BY DEF Freed
<1>2. e = << >>
  OBVIOUS
<1> HIDE DEF e
<1>3. a \in DOMAIN h => Goes(h[a], c)
  <2> HAVE a \in DOMAIN h
  <2>1. h[a] \in CellType
    BY HeapIs
  <2> QED
    BY <1>2, <2>1, GoesPut
<1>4. h \in Seq(CellType)
  BY HeapIs
<1> HIDE DEF c
<1> QED
  BY <1>1, <1>3, <1>4, GrownPut

\* The integers that ops and turns make.
LEMMA FreshInt ==
  ASSUME NEW h, NEW n, NEW k, k # 0
  PROVE  Fresh(h, Cell("int", n, << >>, "none")) /\ Fresh(h, [Cell("int", n, << >>, "none") EXCEPT !.refcnt = k])
BY DEF Fresh, Cell

LEMMA GrownIterate ==
  ASSUME IInv, DoIterate
  PROVE  Grown(heap, heap')
<1>1. HeapOK(heap) /\ heap \in Seq(CellType)
  BY Shapes DEF IInv
<1>2. CASE \E w : heap' = Retain(heap, w)
  <2>1. PICK w : heap' = Retain(heap, w)
    BY <1>2
  <2> QED
    BY <1>1, <2>1, GrownRetain
<1>3. CASE \E n : heap' = Append(heap, [Cell("int", n, << >>, "none") EXCEPT !.refcnt = 2])
  <2>1. PICK n : heap' = Append(heap, [Cell("int", n, << >>, "none") EXCEPT !.refcnt = 2])
    BY <1>3
  <2> DEFINE c == [Cell("int", n, << >>, "none") EXCEPT !.refcnt = 2]
  <2>2. Fresh(heap, c)
    BY FreshInt
  <2> HIDE DEF c
  <2>3. heap' = Append(heap, c)
    BY <2>1 DEF c
  <2> QED
    BY <1>1, <2>2, <2>3, GrownAppend, GoesSame
<1>4. CASE IsUncopied /\ heap' = [Retain(heap, frame.cur) EXCEPT ![frame.cur].n = frame.counter]
  <2> DEFINE a == frame.cur
             k == frame.counter
             m == heap[a].refcnt + 1
             c == [heap[a] EXCEPT !.refcnt = m, !.n = k]
  <2>1. a # Undef
    BY <1>4 DEF IsUncopied
  <2>2. heap' = [[heap EXCEPT ![a].refcnt = m] EXCEPT ![a].n = k]
    BY <1>4, <2>1 DEF Retain
  <2>3. m # 0
    BY <1>4 DEF IsUncopied
  <2> HIDE DEF a, k, m
  <2>4. a \in DOMAIN heap => Goes(heap[a], c)
    BY <1>1, <2>3, HeapIs, GoesPut
  <2>5. heap' = [heap EXCEPT ![a] = c]
    BY <1>1, <2>2
  <2> HIDE DEF c
  <2> QED
    BY <1>1, <2>4, <2>5, GrownPut
<1>5. CASE heap' = heap
  BY <1>5, GoesSame
<1> QED
  BY <1>2, <1>3, <1>4, <1>5 DEF DoIterate

LEMMA GrownStep ==
  ASSUME IInv, Next, ~DoRelease
  PROVE  Grown(heap, heap')
<1>1. HeapOK(heap) /\ heap \in Seq(CellType)
  BY Shapes DEF IInv
<1>u. ASSUME heap' = heap PROVE Grown(heap, heap')
  BY <1>u, GoesSame
<1>r. ASSUME NEW v, heap' = Retain(heap, v) PROVE Grown(heap, heap')
  BY <1>1, <1>r, GrownRetain
<1>a. ASSUME NEW c, Fresh(heap, c), heap' = Append(heap, c) PROVE Grown(heap, heap')
  BY <1>1, <1>a, GrownAppend, GoesSame
<1>2. CASE SetVariable \/ OP_POP_TOP \/ OP_ENTER \/ OP_ENTER_FOREACH \/ OP_FOR_ITER \/ OP_LEAVE \/ DoShrink
  BY <1>2, <1>u DEF SetVariable, OP_POP_TOP, OP_ENTER, OP_ENTER_FOREACH, OP_FOR_ITER, OP_LEAVE, DoShrink
<1>3. CASE GetVariable
  BY <1>3, <1>r DEF GetVariable, Push
<1>4. CASE DoShift \/ DoInsert
  BY <1>4, <1>r DEF DoShift, DoInsert, Kept
<1>5. CASE DoBody
  BY <1>5, <1>r, <1>u DEF DoBody
<1>6. CASE OP_PUSH_INT
  <2> DEFINE c == Cell("int", 0, << >>, "none")
  <2>1. heap' = Append(heap, c)
    BY <1>6 DEF OP_PUSH_INT
  <2>2. Fresh(heap, c)
    BY DEF Fresh, Cell
  <2> HIDE DEF c
  <2> QED
    BY <1>a, <2>1, <2>2
<1>7. CASE OP_MAKE_ARRAY
  <2> DEFINE c == Cell("array", 0, << Top >>, "none")
  <2>1. heap' = Append(heap, c)
    BY <1>7 DEF OP_MAKE_ARRAY
  <2>2. Fresh(heap, c)
    BY DEF Fresh, Cell
  <2> HIDE DEF c
  <2> QED
    BY <1>a, <2>1, <2>2
<1>8. CASE Bless
  <2>1. PICK s \in ScriptsFor(Top) : Own /\ heap' = Append(heap, Cell("object", 0, << Top >>, s))
    BY <1>8 DEF Bless
  <2> DEFINE c == Cell("object", 0, << Top >>, s)
  <2>2. Top \in DOMAIN heap
    BY <2>1, OwnTop, TopIs DEF IInv
  <2>3. s \in Scripts /\ (s = "data" /\ ~Overwrites => IntIs(heap, Top))
    BY <2>1, <2>2 DEF ScriptsFor, IntIs
  <2>4. c.refcnt = 1 /\ ~c.destroyed /\ c.type = "object" /\ c.script = s /\ c.items[1] = Top
    BY DEF Cell
  <2> HIDE DEF c
  <2>5. Fresh(heap, c)
    BY <2>3, <2>4 DEF Fresh
  <2> QED
    BY <1>a, <2>1, <2>5 DEF c
<1>9. CASE DoFinish
  <2>1. heap' = heap \/ heap' = Freed(heap, The)
    BY <1>9 DEF DoFinish
  <2> QED
    BY <1>1, <1>u, <2>1, GrownFreed
<1>10. CASE PreIncrement \/ PostIncrement
  <2> DEFINE a == Top
             k == heap[a].n + 1
             c == [heap[a] EXCEPT !.n = k]
             g == [heap EXCEPT ![a] = c]
  <2>1. heap' = g \/ \E n : heap' = Append(g, Cell("int", n, << >>, "none"))
    BY <1>10 DEF PreIncrement, PostIncrement
  <2>2. a \in DOMAIN heap => c \in CellType \cup {c} /\ Goes(heap[a], c)
    BY <1>1, HeapIs, GoesPut
  <2> HIDE DEF c
  <2>3. Grown(heap, g)
    BY <1>1, <2>2, GrownPut
  <2>4. g \in Seq(CellType \cup {c}) /\ heap \in Seq(CellType \cup {c})
    <3>1. g \in Seq(CellType \cup {c})
      <4> HIDE DEF a
      <4> QED
        BY <1>1, PutSeq
    <3>2. CellType \subseteq CellType \cup {c}
      OBVIOUS
    <3> DEFINE S == CellType \cup {c}
    <3> HIDE DEF S
    <3>3. CellType \subseteq S => heap \in Seq(S)
      BY <1>1
    <3> QED
      BY <3>1, <3>2, <3>3 DEF S
  <2> HIDE DEF g
  <2>5. ASSUME NEW n, heap' = Append(g, Cell("int", n, << >>, "none")) PROVE Grown(heap, heap')
    <3> DEFINE d == Cell("int", n, << >>, "none")
    <3>1. heap' = Append(g, d) /\ Fresh(heap, d)
      BY <2>5 DEF Fresh, Cell
    <3> HIDE DEF d
    <3> QED
      BY <2>3, <2>4, <3>1, GrownAppend
  <2> QED
    BY <2>1, <2>3, <2>5
<1>11. CASE av_push
  <2> DEFINE a == stack[Len(stack) - 1]
             k == Append(heap[a].items, Top)
             c == [heap[a] EXCEPT !.items = k]
  <2>1. heap' = [heap EXCEPT ![a] = c] /\ heap[a].type = "array"
    BY <1>11 DEF av_push
  <2> HIDE DEF k
  <2>2. a \in DOMAIN heap => Goes(heap[a], c)
    BY <1>1, <2>1, HeapIs, GoesPut
  <2> HIDE DEF c, a
  <2> QED
    BY <1>1, <2>1, <2>2, GrownPut
<1>12. CASE av_pop
  <2> DEFINE a == Top
             k == Front(heap[a].items)
             c == [heap[a] EXCEPT !.items = k]
  <2>1. heap' = [heap EXCEPT ![a] = c] /\ heap[a].type = "array"
    BY <1>12 DEF av_pop
  <2> HIDE DEF k
  <2>2. a \in DOMAIN heap => Goes(heap[a], c)
    BY <1>1, <2>1, HeapIs, GoesPut
  <2> HIDE DEF c, a
  <2> QED
    BY <1>1, <2>1, <2>2, GrownPut
<1> QED
  BY <1>2, <1>3, <1>4, <1>5, <1>6, <1>7, <1>8, <1>9, <1>10, <1>11, <1>12, GrownIterate DEF Next, Op, Task

-----------------------------------------------------------------------------
(* What a step leaves in todo. *)

LEMMA FewReleases ==
  /\ Releases(<< >>) = << >>
  /\ \A v \in Nat : Releases(<< v >>) = IF v = Undef THEN << >> ELSE << Release(v) >>
<1>1. ASSUME NEW refs \in Seq(Nat)
      PROVE  \E f : /\ Releases(refs) = f[Len(refs)]
                    /\ f = [m \in 0..Len(refs) |->
                             IF m = 0 THEN << >>
                             ELSE IF refs[m] = Undef THEN f[m-1] ELSE Append(f[m-1], Release(refs[m]))]
  <2> DEFINE f == CHOOSE g : g = [m \in 0..Len(refs) |->
                     IF m = 0 THEN << >>
                     ELSE IF refs[m] = Undef THEN g[m-1] ELSE Append(g[m-1], Release(refs[m]))]
  <2>1. \E g : IsReleases(refs, g, Len(refs))
    BY ReleasesExist
  <2>2. f = [m \in 0..Len(refs) |->
              IF m = 0 THEN << >>
              ELSE IF refs[m] = Undef THEN f[m-1] ELSE Append(f[m-1], Release(refs[m]))]
    BY <2>1, Zenon DEF IsReleases
  <2>3. Releases(refs) = f[Len(refs)]
    BY DEF Releases
  <2> HIDE DEF f
  <2> QED
    BY <2>2, <2>3
<1>2. Releases(<< >>) = << >>
  <2> DEFINE e == << >>
  <2>1. e \in Seq(Nat) /\ Len(e) = 0
    OBVIOUS
  <2> HIDE DEF e
  <2>2. PICK f : /\ Releases(e) = f[0]
                 /\ f = [m \in 0..0 |->
                          IF m = 0 THEN << >>
                          ELSE IF e[m] = Undef THEN f[m-1] ELSE Append(f[m-1], Release(e[m]))]
    BY <1>1, <2>1
  <2>3. f[0] = << >>
    BY <2>2
  <2> QED
    BY <2>2, <2>3 DEF e
<1>3. ASSUME NEW v \in Nat PROVE Releases(<< v >>) = IF v = Undef THEN << >> ELSE << Release(v) >>
  <2> DEFINE e == << v >>
  <2>1. e \in Seq(Nat) /\ Len(e) = 1 /\ e[1] = v
    OBVIOUS
  <2> HIDE DEF e
  <2>2. PICK f : /\ Releases(e) = f[1]
                 /\ f = [m \in 0..1 |->
                          IF m = 0 THEN << >>
                          ELSE IF e[m] = Undef THEN f[m-1] ELSE Append(f[m-1], Release(e[m]))]
    BY <1>1, <2>1
  <2>3. f[0] = << >>
    BY <2>2
  <2> DEFINE g(m) == IF m = 0 THEN << >>
                     ELSE IF e[m] = Undef THEN f[m-1] ELSE Append(f[m-1], Release(e[m]))
  <2>4. f = [m \in 0..1 |-> g(m)]
    BY <2>2, Zenon
  <2>5. f[1] = IF v = Undef THEN << >> ELSE Append(<< >>, Release(v))
    <3>1. f[1] = g(1)
      <4> HIDE DEF g
      <4> QED
        BY <2>4
    <3>2. 1 # 0 /\ 1 - 1 = 0
      OBVIOUS
    <3>3. g(1) = IF e[1] = Undef THEN f[0] ELSE Append(f[0], Release(e[1]))
      BY <3>2
    <3> QED
      BY <2>1, <2>3, <3>1, <3>3
  <2>6. Append(<< >>, Release(v)) = << Release(v) >>
    OBVIOUS
  <2> QED
    BY <2>2, <2>5, <2>6 DEF e
<1> QED
  BY <1>2, <1>3

\* Tasks that change no variable.
Calm(ts) == ts \in Seq(Tasks) /\ \A i \in DOMAIN ts : ts[i].do \notin {"shift", "shrink", "insert"}

LEMMA DropsCalm ==
  /\ \A ts \in Seq(Drops) : Calm(ts)
  /\ \A refs \in Seq(Nat) : Calm(Releases(refs))
  /\ Calm(<< >>)
<1>1. ASSUME NEW ts \in Seq(Drops) PROVE Calm(ts)
  <2>1. ts \in Seq(Tasks) /\ \A i \in DOMAIN ts : ts[i].do = "release"
    BY DropsAre
  <2> QED
    BY <2>1 DEF Calm
<1>2. Calm(<< >>)
  BY DEF Calm
<1> QED
  BY <1>1, <1>2, ReleasesAre

LEMMA CalmShort ==
  ASSUME NEW a \in Pos
  PROVE  /\ Calm(<< Release(a) >>) /\ Calm(<< Finish(a) >>) /\ Calm(<< Body(a), Release(a), Finish(a) >>)
         /\ Calm(<< Iterate >>)
<1> DEFINE t == Finish(a)
           d == Release(a)
           b == Body(a)
           o == Iterate
<1>1. /\ t \in Tasks /\ t.do = "finish" /\ d \in Tasks /\ d.do = "release" /\ b \in Tasks /\ b.do = "body"
      /\ o \in Tasks /\ o.do = "iterate"
  BY DEF Finish, Release, Body, Iterate, Tasks, Pos
<1> HIDE DEF t, d, b, o
<1>2. ASSUME NEW x \in Tasks, x.do \in {"finish", "release", "body", "iterate"} PROVE Calm(<< x >>)
  <2> DEFINE ts == << x >>
  <2>1. ts \in Seq(Tasks) /\ \A i \in DOMAIN ts : ts[i] = x
    OBVIOUS
  <2> HIDE DEF ts
  <2>2. Calm(ts)
    BY <1>2, <2>1 DEF Calm
  <2> QED
    BY <2>2 DEF ts
<1>3. Calm(<< b, d, t >>)
  <2> DEFINE ts == << b, d, t >>
  <2>1. ts \in Seq(Tasks) /\ \A i \in DOMAIN ts : ts[i] = b \/ ts[i] = d \/ ts[i] = t
    BY <1>1
  <2> HIDE DEF ts
  <2>2. Calm(ts)
    BY <1>1, <2>1 DEF Calm
  <2> QED
    BY <2>2 DEF ts
<1> QED
  BY <1>1, <1>2, <1>3 DEF t, d, b, o

LEMMA CalmConcat ==
  ASSUME NEW s, Calm(s), NEW t, Calm(t)
  PROVE  Calm(s \o t)
<1> DEFINE u == s \o t
<1>1. s \in Seq(Tasks) /\ t \in Seq(Tasks) /\ Len(s) \in Nat /\ Len(t) \in Nat
  BY DEF Calm
<1>2. /\ u \in Seq(Tasks) /\ Len(u) = Len(s) + Len(t)
      /\ (\A i \in 1..Len(s) : u[i] = s[i]) /\ (\A i \in 1..Len(t) : u[Len(s) + i] = t[i])
  BY <1>1, ConcatIs
<1> HIDE DEF u
<1>3. ASSUME NEW i \in DOMAIN u PROVE u[i].do \notin {"shift", "shrink", "insert"}
  <2>1. CASE i \in 1..Len(s)
    BY <1>1, <1>2, <2>1 DEF Calm
  <2>2. CASE i \notin 1..Len(s)
    <3>1. PICK k \in 1..Len(t) : i = Len(s) + k
      <4>1. i - Len(s) \in 1..Len(t) /\ i = Len(s) + (i - Len(s))
        BY <1>1, <1>2, <2>2
      <4> QED
        BY <4>1
    <3>2. u[i] = t[k] /\ k \in DOMAIN t
      BY <1>1, <1>2, <3>1
    <3> QED
      BY <3>2 DEF Calm
  <2> QED
    BY <2>1, <2>2
<1>4. Calm(u)
  BY <1>2, <1>3 DEF Calm
<1> QED
  BY <1>4 DEF u

\* DoFinish with a count of zero.
Finishes == DoFinish /\ heap[The].refcnt = 0

\* Releases, and the rest of OP_FOR_ITER.
Quiet(ts) == ts \in Seq(Tasks) /\ \A i \in DOMAIN ts : ts[i].do \in {"release", "iterate"}

LEMMA QuietAre ==
  /\ \A ts \in Seq(Drops) : Quiet(ts)
  /\ \A refs \in Seq(Nat) : Quiet(Releases(refs))
  /\ Quiet(<< >>)
  /\ \A ts : Quiet(ts) => Calm(ts)
<1>1. ASSUME NEW ts \in Seq(Drops) PROVE Quiet(ts)
  <2>1. ts \in Seq(Tasks) /\ \A i \in DOMAIN ts : ts[i].do = "release"
    BY DropsAre
  <2> QED
    BY <2>1 DEF Quiet
<1>2. Quiet(<< >>)
  BY DEF Quiet
<1>3. \A ts : Quiet(ts) => Calm(ts)
  BY DEF Quiet, Calm
<1> QED
  BY <1>1, <1>2, <1>3, ReleasesAre

LEMMA TaskQuiet ==
  ASSUME IInv, Finishes \/ DoShift \/ DoShrink \/ DoInsert
  PROVE  \E ts : Quiet(ts) /\ todo' = ts \o Tail(todo)
<1>1. HeapOK(heap) /\ pads \in [Pads -> Seq(Nat)] /\ todo # << >>
  BY Shapes DEF IInv, Finishes, DoFinish, DoShift, DoShrink, DoInsert, Busy
<1>3. CASE Finishes
  <2>1. todo' = Releases(heap[The].items) \o Tail(todo) /\ Head(todo).do = "finish"
    BY <1>3 DEF Finishes, DoFinish, Then, Busy
  <2>2. TaskShape(heap, Head(todo))
    BY <1>1, HeadIs
  <2>3. The \in DOMAIN heap
    BY <2>1, <2>2 DEF TaskShape, The
  <2>4. heap[The] \in CellType
    BY <1>1, <2>3, HeapIs
  <2>5. heap[The].items \in Seq(Nat)
    BY <2>4 DEF CellType, Pos
  <2> QED
    BY <2>1, <2>5, QuietAre
<1>4. CASE DoShift
  <2> DEFINE p == Head(todo).pad
             i == Head(todo).at
             v == pads[p][i]
  <2>1. Head(todo).do = "shift" /\ i < Len(pads[p]) /\ todo' = Releases(<< v >>) \o Tail(todo)
    BY <1>4 DEF DoShift, Busy, Then
  <2>2. p \in Pads /\ i \in Nat /\ i # 0
    BY <1>1, <2>1, HeadIs DEF TaskShape
  <2> HIDE DEF p, i
  <2>3. pads[p] \in Seq(Nat)
    BY <1>1, <2>2
  <2>4. v \in Nat
    <3>1. i \in 1..Len(pads[p])
      BY <2>1, <2>2, <2>3
    <3> QED
      BY <2>3, <3>1
  <2> HIDE DEF v
  <2>5. << v >> \in Seq(Nat)
    BY <2>4
  <2> QED
    BY <2>1, <2>5, QuietAre
<1>5. CASE DoShrink
  <2> DEFINE p == Head(todo).pad
             v == Last(pads[p])
  <2>1. Head(todo).do = "shrink" /\ pads[p] # << >> /\ todo' = Releases(<< v >>) \o Tail(todo)
    BY <1>5 DEF DoShrink, Busy, Then
  <2>2. p \in Pads
    BY <1>1, <2>1, HeadIs DEF TaskShape
  <2> HIDE DEF p
  <2>3. v \in Nat
    <3>1. pads[p] \in Seq(Nat)
      BY <1>1, <2>2
    <3> QED
      BY <2>1, <3>1, OccFront
  <2> HIDE DEF v
  <2>4. << v >> \in Seq(Nat)
    BY <2>3
  <2> QED
    BY <2>1, <2>4, QuietAre
<1>6. CASE DoInsert
  <2>1. todo' = << >> \o Tail(todo)
    BY <1>6 DEF DoInsert, Then
  <2> QED
    BY <2>1, QuietAre
<1> QED
  BY <1>3, <1>4, <1>5, <1>6

\* Most tasks leave some that change no variable.
LEMMA TaskLeaves ==
  ASSUME IInv, DoRelease \/ Finishes \/ DoShift \/ DoShrink \/ DoInsert
  PROVE  \E ts : Calm(ts) /\ todo' = ts \o Tail(todo)
<1>1. HeapOK(heap) /\ pads \in [Pads -> Seq(Nat)] /\ todo # << >>
  BY Shapes DEF IInv, DoRelease, Finishes, DoFinish, DoShift, DoShrink, DoInsert, Busy
<1>2. CASE DoRelease
  <2> DEFINE a == The
  <2>1. a \in Pos /\ heap[a] \in CellType
    BY <1>2, ReleasedIs DEF DoRelease
  <2>2. heap[a].items \in Seq(Nat)
    BY <2>1 DEF CellType, Pos
  <2>3. Calm(Releases(heap[a].items)) /\ Calm(<< >>) /\ Calm(<< Finish(a) >>)
        /\ Calm(<< Body(a), Release(a), Finish(a) >>)
    BY <2>1, <2>2, DropsCalm, CalmShort
  <2>4. \/ todo' = << >> \o Tail(todo) \/ todo' = Releases(heap[a].items) \o Tail(todo)
        \/ todo' = << Finish(a) >> \o Tail(todo) \/ todo' = << Body(a), Release(a), Finish(a) >> \o Tail(todo)
    BY <1>2 DEF DoRelease, Then
  <2> HIDE DEF a
  <2> QED
    BY <2>3, <2>4
<1>3. CASE Finishes \/ DoShift \/ DoShrink \/ DoInsert
  BY <1>3, TaskQuiet, QuietAre
<1> QED
  BY <1>2, <1>3

\* What a release does to the value.
LEMMA ReleaseCell ==
  ASSUME IInv, DoRelease
  PROVE  /\ DOMAIN heap' = DOMAIN heap /\ \A b \in DOMAIN heap : b # The => heap'[b] = heap[b]
         /\ Follows(heap[The], heap'[The])
         /\ heap'[The].live =>
              /\ heap'[The].refcnt = 0 => heap'[The].destroyed
              /\ heap'[The].destroyed =>
                   heap[The].destroyed \/ todo' = << Finish(The) >> \o Tail(todo)
                     \/ todo' = << Body(The), Release(The), Finish(The) >> \o Tail(todo)
<1> DEFINE a == The
           old == heap[a]
<1>1. HeapOK(heap) /\ a \in DOMAIN heap /\ old \in CellType /\ old.refcnt # 0 /\ old.refcnt \in Nat
  BY Shapes, ReleasedIs DEF IInv, DoRelease, CellType
<1>2. ASSUME NEW c, heap' = [heap EXCEPT ![a] = c]
      PROVE  DOMAIN heap' = DOMAIN heap /\ heap'[a] = c /\ \A b \in DOMAIN heap : b # a => heap'[b] = heap[b]
  BY <1>1, <1>2
<1>3. CASE ~IsLast(a)
  <2> DEFINE k == old.refcnt - 1
             c == [old EXCEPT !.refcnt = k]
  <2>1. heap' = [heap EXCEPT ![a] = c]
    BY <1>3 DEF DoRelease
  <2>2. k # 0
    BY <1>1, <1>3 DEF IsLast
  <2> HIDE DEF k
  <2>3. Follows(old, c) /\ c.destroyed = old.destroyed /\ c.live = old.live /\ c.refcnt = k
    BY <1>1, GoesPut
  <2> HIDE DEF c
  <2> QED
    BY <1>2, <2>1, <2>2, <2>3
<1>4. CASE IsLast(a) /\ CallsDestroy(a)
  <2> DEFINE k == IF old.script = "none" THEN 0 ELSE 1
             j == IF old.script = "none" THEN old.runs ELSE Min({2, old.runs + 1})
             c == [old EXCEPT !.destroyed = TRUE, !.refcnt = k, !.runs = j]
  <2>1. /\ heap' = [heap EXCEPT ![a].destroyed = TRUE, ![a].refcnt = k, ![a].runs = j]
        /\ todo' = << Finish(a) >> \o Tail(todo) \/ todo' = << Body(a), Release(a), Finish(a) >> \o Tail(todo)
    BY <1>4 DEF DoRelease, Then
  <2> HIDE DEF k, j
  <2>2. heap' = [heap EXCEPT ![a] = c]
    BY <1>1, <2>1
  <2>3. Follows(old, c) /\ c.destroyed
    BY <1>1, GoesPut
  <2> HIDE DEF c
  <2> QED
    BY <1>2, <2>1, <2>2, <2>3
<1>5. CASE IsLast(a) /\ ~CallsDestroy(a) /\ old.type = "object"
  <2> DEFINE k == 0
             c == [old EXCEPT !.refcnt = k]
  <2>1. heap' = [heap EXCEPT ![a] = c]
    BY <1>5 DEF DoRelease
  <2>2. old.destroyed
    BY <1>5 DEF CallsDestroy
  <2> HIDE DEF k
  <2>3. Follows(old, c) /\ c.destroyed = old.destroyed /\ c.live = old.live /\ c.refcnt = k
    BY <1>1, GoesPut
  <2> HIDE DEF c
  <2> QED
    BY <1>2, <2>1, <2>2, <2>3
<1>6. CASE IsLast(a) /\ ~CallsDestroy(a) /\ old.type # "object"
  <2> DEFINE e == << >>
             c == [old EXCEPT !.live = FALSE, !.refcnt = 0, !.items = e, !.n = 0]
  <2>1. heap' = [heap EXCEPT ![a] = c]
    BY <1>6 DEF DoRelease, Freed
  <2>2. e = << >>
    OBVIOUS
  <2> HIDE DEF e
  <2>3. Goes(old, c) /\ ~c.live
    BY <1>1, <2>2, GoesPut DEF CellType
  <2> HIDE DEF c
  <2> QED
    BY <1>2, <2>1, <2>3 DEF Goes
<1> QED
  BY <1>3, <1>4, <1>5, <1>6

\* t is one of the tasks.
Among(t, ts) == \E i \in DOMAIN ts : ts[i] = t

LEMMA AmongConcat ==
  ASSUME NEW s \in Seq(Tasks), NEW ts \in Seq(Tasks), NEW t
  PROVE  Among(t, s \o ts) <=> Among(t, s) \/ Among(t, ts)
<1> DEFINE u == s \o ts
<1>1. /\ u \in Seq(Tasks) /\ Len(u) = Len(s) + Len(ts) /\ Len(s) \in Nat /\ Len(ts) \in Nat
      /\ (\A i \in 1..Len(s) : u[i] = s[i]) /\ (\A i \in 1..Len(ts) : u[Len(s) + i] = ts[i])
  BY ConcatIs
<1> HIDE DEF u
<1>2. ASSUME NEW i \in DOMAIN u, u[i] = t PROVE Among(t, s) \/ Among(t, ts)
  <2>1. CASE i \in 1..Len(s)
    BY <1>1, <1>2, <2>1 DEF Among
  <2>2. CASE i \notin 1..Len(s)
    <3>1. PICK k \in 1..Len(ts) : i = Len(s) + k
      <4>1. i - Len(s) \in 1..Len(ts) /\ i = Len(s) + (i - Len(s))
        BY <1>1, <2>2
      <4> QED
        BY <4>1
    <3>2. ts[k] = t /\ k \in DOMAIN ts
      BY <1>1, <1>2, <3>1
    <3> QED
      BY <3>2 DEF Among
  <2> QED
    BY <2>1, <2>2
<1>3. ASSUME NEW i \in DOMAIN s, s[i] = t PROVE Among(t, u)
  <2>1. i \in DOMAIN u /\ u[i] = t
    BY <1>1, <1>3
  <2> QED
    BY <2>1 DEF Among
<1>4. ASSUME NEW i \in DOMAIN ts, ts[i] = t PROVE Among(t, u)
  <2>1. PICK k \in DOMAIN u : k = Len(s) + i
    <3>1. i \in 1..Len(ts) /\ DOMAIN u = 1..Len(s) + Len(ts)
      BY <1>1
    <3>2. Len(s) + i \in DOMAIN u
      BY <1>1, <3>1
    <3> QED
      BY <3>2
  <2>2. u[k] = t
    <3>1. i \in 1..Len(ts)
      BY <1>1
    <3>2. u[Len(s) + i] = ts[i]
      BY <1>1, <3>1
    <3> QED
      BY <1>4, <2>1, <3>2
  <2> QED
    BY <2>2 DEF Among
<1>5. Among(t, u) <=> Among(t, s) \/ Among(t, ts)
  BY <1>2, <1>3, <1>4 DEF Among
<1> QED
  BY <1>5 DEF u

LEMMA HeadTail ==
  ASSUME NEW S, NEW s \in Seq(S), s # << >>
  PROVE  /\ Head(s) \in S /\ Tail(s) \in Seq(S) /\ Len(Tail(s)) = Len(s) - 1 /\ Len(s) \in Nat \ {0}
         /\ s[1] = Head(s) /\ \A i \in 1..Len(s) - 1 : Tail(s)[i] = s[i + 1]
OBVIOUS

LEMMA AmongTail ==
  ASSUME NEW ts \in Seq(Tasks), ts # << >>, NEW t
  PROVE  Among(t, ts) <=> t = Head(ts) \/ Among(t, Tail(ts))
<1> DEFINE r == Tail(ts)
<1>1. /\ r \in Seq(Tasks) /\ Len(r) = Len(ts) - 1 /\ Len(ts) \in Nat \ {0} /\ ts[1] = Head(ts)
      /\ \A i \in 1..Len(ts) - 1 : r[i] = ts[i + 1]
  BY HeadTail
<1> HIDE DEF r
<1>2. ASSUME NEW i \in DOMAIN ts, ts[i] = t PROVE t = Head(ts) \/ Among(t, r)
  <2>1. CASE i = 1
    BY <1>1, <1>2, <2>1
  <2>2. CASE i # 1
    <3>1. PICK k \in DOMAIN r : i = k + 1
      <4>1. i - 1 \in DOMAIN r /\ i = (i - 1) + 1
        BY <1>1, <2>2
      <4> QED
        BY <4>1
    <3>2. r[k] = t
      BY <1>1, <1>2, <3>1
    <3> QED
      BY <3>2 DEF Among
  <2> QED
    BY <2>1, <2>2
<1>3. ASSUME NEW k \in DOMAIN r, r[k] = t PROVE Among(t, ts)
  <2>1. PICK i \in DOMAIN ts : i = k + 1
    BY <1>1
  <2>2. ts[i] = t
    BY <1>1, <1>3, <2>1
  <2> QED
    BY <2>2 DEF Among
<1>4. t = Head(ts) => Among(t, ts)
  BY <1>1 DEF Among
<1>5. Among(t, ts) <=> t = Head(ts) \/ Among(t, r)
  BY <1>2, <1>3, <1>4 DEF Among
<1> QED
  BY <1>5 DEF r

LEMMA FinishIs ==
  \A r : Finish(r).do = "finish" /\ Finish(r).of = r
BY DEF Finish

\* When no value is dropped, those that were are still going to be freed.
LEMMA DroppedGrown ==
  ASSUME Dropped, Grown(heap, heap'),
         \A r \in DOMAIN heap : heap[r].live /\ heap'[r].live /\ Among(Finish(r), todo) => Among(Finish(r), todo')
  PROVE  Dropped'
<1>1. ASSUME NEW r \in DOMAIN heap', heap'[r].live
      PROVE  /\ heap'[r].refcnt = 0 => heap'[r].destroyed
             /\ heap'[r].destroyed => Among(Finish(r), todo')
  <2>1. CASE r \in DOMAIN heap
    <3>1. Goes(heap[r], heap'[r])
      BY <2>1 DEF Grown
    <3>2. /\ heap[r].live /\ heap'[r].destroyed = heap[r].destroyed /\ (heap'[r].refcnt = 0 => heap[r].refcnt = 0)
      BY <1>1, <3>1 DEF Goes, Follows
    <3>3. /\ heap[r].refcnt = 0 => heap[r].destroyed
          /\ heap[r].destroyed => Among(Finish(r), todo)
      BY <2>1, <3>2 DEF Dropped, Among
    <3> QED
      BY <1>1, <2>1, <3>2, <3>3
  <2>2. CASE r \notin DOMAIN heap
    BY <2>2 DEF Grown, Fresh
  <2> QED
    BY <2>1, <2>2
<1>2. \A r \in DOMAIN heap' : heap'[r].live =>
        /\ heap'[r].refcnt = 0 => heap'[r].destroyed
        /\ heap'[r].destroyed => \E i \in DOMAIN todo' : todo'[i] = Finish(r)
  BY <1>1 DEF Among
<1> QED
  BY <1>2 DEF Dropped, Finish

LEMMA DroppedRelease ==
  ASSUME IInv, Dropped, DoRelease
  PROVE  Dropped'
<1> DEFINE a == The
<1>1. todo \in Seq(Tasks) /\ todo # << >> /\ a \in Pos /\ a \in DOMAIN heap /\ heap[a].live /\ Head(todo).do = "release"
  BY Shapes, ReleasedIs DEF IInv, DoRelease, Busy
<1>2. PICK ts : Calm(ts) /\ todo' = ts \o Tail(todo)
  BY TaskLeaves
<1>3. ts \in Seq(Tasks) /\ Tail(todo) \in Seq(Tasks)
  <2>1. ts \in Seq(Tasks)
    BY <1>2 DEF Calm
  <2>2. todo \in Seq(Tasks) /\ todo # << >>
    BY <1>1
  <2>3. Tail(todo) \in Seq(Tasks)
    BY <2>2, HeadTail
  <2> QED
    BY <2>1, <2>3
<1>4. ASSUME NEW r, Among(Finish(r), todo) PROVE Among(Finish(r), todo')
  <2>1. Finish(r) # Head(todo)
    BY <1>1, FinishIs
  <2>2. Among(Finish(r), Tail(todo))
    BY <1>1, <1>4, <2>1, AmongTail
  <2> QED
    BY <1>2, <1>3, <2>2, AmongConcat
<1>5. ASSUME NEW s \in Seq(Tasks), NEW i \in DOMAIN s, s[i] = Finish(a), todo' = s \o Tail(todo)
      PROVE  Among(Finish(a), todo')
  BY <1>3, <1>5, AmongConcat DEF Among
<1>6. ASSUME todo' = << Finish(a) >> \o Tail(todo) PROVE Among(Finish(a), todo')
  <2> DEFINE s == << Finish(a) >>
  <2>1. s \in Seq(Tasks)
    BY <1>1, CalmShort DEF Calm
  <2>2. 1 \in DOMAIN s /\ s[1] = Finish(a)
    OBVIOUS
  <2> HIDE DEF s
  <2> QED
    BY <1>5, <1>6, <2>1, <2>2 DEF s
<1>7. ASSUME todo' = << Body(a), Release(a), Finish(a) >> \o Tail(todo) PROVE Among(Finish(a), todo')
  <2> DEFINE s == << Body(a), Release(a), Finish(a) >>
  <2>1. s \in Seq(Tasks)
    BY <1>1, CalmShort DEF Calm
  <2>2. 3 \in DOMAIN s /\ s[3] = Finish(a)
    OBVIOUS
  <2> HIDE DEF s
  <2> QED
    BY <1>5, <1>7, <2>1, <2>2 DEF s
<1>8. /\ DOMAIN heap' = DOMAIN heap /\ \A b \in DOMAIN heap : b # a => heap'[b] = heap[b]
      /\ heap'[a].live =>
           /\ heap'[a].refcnt = 0 => heap'[a].destroyed
           /\ heap'[a].destroyed =>
                heap[a].destroyed \/ todo' = << Finish(a) >> \o Tail(todo)
                  \/ todo' = << Body(a), Release(a), Finish(a) >> \o Tail(todo)
  BY ReleaseCell
<1>9. \A r \in DOMAIN heap : heap[r].live =>
        /\ heap[r].refcnt = 0 => heap[r].destroyed
        /\ heap[r].destroyed => Among(Finish(r), todo)
  BY DEF Dropped, Among
<1>10. ASSUME NEW r \in DOMAIN heap', heap'[r].live
       PROVE  /\ heap'[r].refcnt = 0 => heap'[r].destroyed
              /\ heap'[r].destroyed => Among(Finish(r), todo')
  <2>1. CASE r = a
    <3>1. heap[a].destroyed => Among(Finish(a), todo')
      BY <1>1, <1>4, <1>9
    <3> HIDE DEF a
    <3> QED
      BY <1>6, <1>7, <1>8, <1>10, <2>1, <3>1
  <2>2. CASE r # a
    <3>1. r \in DOMAIN heap /\ heap'[r] = heap[r]
      BY <1>8, <1>10, <2>2
    <3> QED
      BY <1>4, <1>9, <1>10, <3>1
  <2> QED
    BY <2>1, <2>2
<1>11. \A r \in DOMAIN heap' : heap'[r].live =>
         /\ heap'[r].refcnt = 0 => heap'[r].destroyed
         /\ heap'[r].destroyed => \E i \in DOMAIN todo' : todo'[i] = Finish(r)
  BY <1>10 DEF Among
<1> QED
  BY <1>11 DEF Dropped, Finish

BodyValue == IF heap[The].script = "self" THEN The ELSE heap[The].items[1]

\* What a DESTROY method leaves.
BodyIs ==
  /\ todo # << >> /\ Head(todo).do = "body" /\ pads' = pads /\ frame' = frame
  /\ The \in Pos /\ Alive(The) /\ heap[The].type = "object" /\ BodyValue \in Pos
  /\ Set("outer", DestroyVar, BodyValue) \in Seq(Tasks) /\ Calm(Releases(<< BodyValue >>))
  /\ \E ts \in Seq(Tasks) :
       /\ todo' = ts \o Tail(todo)
       /\ IF heap[The].script = "quiet" THEN ts = << >> /\ env' = env
          ELSE /\ ts = Set("outer", DestroyVar, BodyValue) \o Releases(<< BodyValue >>)
               /\ env' = [env EXCEPT !.outer[DestroyVar] = BodyValue]

LEMMA BodyLeaves ==
  ASSUME HeapAssumption, IInv, DoBody
  PROVE  BodyIs
<1> DEFINE a == The
           v == BodyValue
           s == Set("outer", DestroyVar, v)
           d == Releases(<< v >>)
<1>1. todo # << >> /\ Head(todo).do = "body" /\ pads' = pads /\ frame' = frame
  BY DEF DoBody, Busy
<1>2. HeapOK(heap) /\ pads \in [Pads -> Seq(Nat)] /\ DestroyVar \in Pos
  BY Shapes DEF IInv, HeapAssumption, Pos
<1>3. a \in DOMAIN heap /\ heap[a].type = "object" /\ ReleasedAfter(todo, 1, a)
  BY <1>1, HeadIs DEF TaskShape, GuardedTask, The
<1>4. a \in Pos /\ heap[a] \in CellType /\ CellShape(heap[a])
  BY <1>2, <1>3, HeapIs
<1>5. Alive(a)
  BY <1>3, <1>4, LaterAlive
<1>6. v \in Pos
  <2>1. Len(heap[a].items) = 1 /\ heap[a].items \in Seq(Pos)
    BY <1>3, <1>4, <1>5 DEF CellShape, CellType, Alive
  <2>2. heap[a].items[1] \in Pos
    BY <2>1
  <2> QED
    BY <1>4, <2>2 DEF BodyValue
<1>7. s \in Seq(Tasks)
  BY <1>2, <1>6, SetIs DEF Plain, Pads, Pos
<1>8. Calm(d) /\ d \in Seq(Tasks)
  <2>1. << v >> \in Seq(Nat)
    BY <1>6 DEF Pos
  <2>2. Calm(d)
    BY <2>1, DropsCalm
  <2> QED
    BY <2>2 DEF Calm
<1>9. /\ heap[a].script = "quiet" => todo' = << >> \o Tail(todo) /\ env' = env
      /\ heap[a].script # "quiet" =>
           todo' = (s \o d) \o Tail(todo) /\ env' = [env EXCEPT !.outer[DestroyVar] = v]
  BY DEF DoBody, Then, BodyValue
<1> HIDE DEF v, s, d
<1>10. \E ts \in Seq(Tasks) :
         /\ todo' = ts \o Tail(todo)
         /\ IF heap[a].script = "quiet" THEN ts = << >> /\ env' = env
            ELSE ts = s \o d /\ env' = [env EXCEPT !.outer[DestroyVar] = v]
  <2>1. s \o d \in Seq(Tasks) /\ << >> \in Seq(Tasks)
    BY <1>7, <1>8, ConcatIs
  <2> DEFINE e == << >>
             b == s \o d
  <2>2. /\ e \in Seq(Tasks) /\ b \in Seq(Tasks)
        /\ heap[a].script = "quiet" => todo' = e \o Tail(todo) /\ env' = env
        /\ heap[a].script # "quiet" =>
             todo' = b \o Tail(todo) /\ env' = [env EXCEPT !.outer[DestroyVar] = v]
        /\ e = << >> /\ b = s \o d
    BY <1>9, <2>1
  <2> HIDE DEF e, b
  <2>3. CASE heap[a].script = "quiet"
    BY <2>2, <2>3
  <2>4. CASE heap[a].script # "quiet"
    BY <2>2, <2>4
  <2> QED
    BY <2>3, <2>4
<1> QED
  BY <1>1, <1>3, <1>4, <1>5, <1>6, <1>7, <1>8, <1>10 DEF BodyIs, s, d, v

\* The rest of OP_FOR_ITER is the last task.
LEMMA OnlyIterate ==
  ASSUME IInv, todo # << >>, Head(todo).do = "iterate"
  PROVE  todo = << Head(todo) >>
<1>1. todo \in Seq(Tasks) /\ GuardedTask(todo, 1, stack, frame) /\ todo[1] = Head(todo)
  BY HeadIs, Shapes DEF IInv
<1>2. Len(todo) = 1
  BY <1>1 DEF GuardedTask
<1> QED
  BY <1>1, <1>2

LEMMA DroppedStep ==
  ASSUME HeapAssumption, IInv, Dropped, [Next]_vars
  PROVE  Dropped'
<1>1. CASE Op
  <2>1. todo = << >> /\ ~DoRelease
    BY <1>1 DEF Op, OP_PUSH_INT, GetVariable, SetVariable, OP_POP_TOP, PreIncrement, PostIncrement,
                OP_MAKE_ARRAY, Bless, av_push, av_pop, OP_ENTER, OP_ENTER_FOREACH, OP_FOR_ITER, OP_LEAVE, Ready,
                DoRelease, Busy
  <2>2. Grown(heap, heap')
    BY <1>1, <2>1, GrownStep DEF Next
  <2>3. \A r : ~Among(Finish(r), todo)
    BY <2>1 DEF Among
  <2> QED
    BY <2>2, <2>3, DroppedGrown
<1>2. CASE DoRelease
  BY <1>2, DroppedRelease
<1>3. CASE Task /\ ~DoRelease
  <2>1. Grown(heap, heap') /\ todo \in Seq(Tasks) /\ todo # << >>
    BY <1>3, GrownStep, Shapes DEF IInv, Next, Task, DoBody, DoFinish, DoShift, DoShrink, DoInsert, DoIterate, Busy
  <2>2. CASE DoFinish /\ ~Finishes
    <3>1. todo' = todo
      BY <2>2 DEF DoFinish, Finishes
    <3> QED
      BY <2>1, <3>1, DroppedGrown
  <2>3. ASSUME NEW ts \in Seq(Tasks), todo' = ts \o Tail(todo), Head(todo).do # "finish" \/ ~heap'[The].live
        PROVE  Dropped'
    <3>1. ASSUME NEW r, Among(Finish(r), todo), heap'[r].live PROVE Among(Finish(r), todo')
      <4>1. Finish(r) # Head(todo)
        <5>1. Finish(r) = Head(todo) => Head(todo).do = "finish" /\ The = r
          BY FinishIs DEF The
        <5> QED
          BY <2>3, <3>1, <5>1
      <4>2. Among(Finish(r), Tail(todo)) /\ Tail(todo) \in Seq(Tasks)
        BY <2>1, <3>1, <4>1, AmongTail, HeadTail
      <4> QED
        BY <2>3, <4>2, AmongConcat
    <3> QED
      BY <2>1, <3>1, DroppedGrown
  <2>4. CASE Finishes
    <3>1. PICK ts : Calm(ts) /\ todo' = ts \o Tail(todo)
      BY <2>4, TaskLeaves
    <3>2. ~heap'[The].live
      <4>1. heap' = Freed(heap, The) /\ Head(todo).do = "finish"
        BY <2>4 DEF Finishes, DoFinish, Busy
      <4>2. TaskShape(heap, Head(todo)) /\ HeapOK(heap)
        BY <2>1, HeadIs, Shapes DEF IInv
      <4>3. The \in DOMAIN heap
        BY <4>1, <4>2 DEF TaskShape, The
      <4>4. heap[The] \in CellType
        BY <4>2, <4>3, HeapIs
      <4> DEFINE e == << >>
                 c == [heap[The] EXCEPT !.live = FALSE, !.refcnt = 0, !.items = e, !.n = 0]
      <4>5. heap' = [heap EXCEPT ![The] = c]
        BY <4>1 DEF Freed
      <4> HIDE DEF e
      <4>6. ~c.live
        BY <4>4 DEF CellType
      <4> HIDE DEF c
      <4> QED
        BY <4>3, <4>5, <4>6
    <3> QED
      BY <2>3, <3>1, <3>2 DEF Calm
  <2>5. CASE DoShift \/ DoShrink \/ DoInsert
    <3>1. PICK ts : Calm(ts) /\ todo' = ts \o Tail(todo)
      BY <2>5, TaskLeaves
    <3>2. Head(todo).do # "finish"
      BY <2>5 DEF DoShift, DoShrink, DoInsert, Busy
    <3> QED
      BY <2>3, <3>1, <3>2 DEF Calm
  <2>6. CASE DoBody
    <3>1. PICK ts \in Seq(Tasks) : todo' = ts \o Tail(todo)
      BY <2>6, BodyLeaves DEF BodyIs
    <3>2. Head(todo).do # "finish"
      BY <2>6 DEF DoBody, Busy
    <3> QED
      BY <2>3, <3>1, <3>2
  <2>7. CASE DoIterate
    <3>1. Head(todo).do = "iterate"
      BY <2>7 DEF DoIterate, Busy
    <3>2. todo = << Head(todo) >>
      BY <2>1, <3>1, OnlyIterate
    <3>3. \A r : ~Among(Finish(r), todo)
      <4>1. PICK t : t = Head(todo)
        OBVIOUS
      <4>2. todo = << t >> /\ t.do = "iterate"
        BY <3>1, <3>2, <4>1
      <4>3. \A i \in DOMAIN todo : todo[i] = t
        BY <4>2
      <4> QED
        BY <4>2, <4>3, FinishIs DEF Among
    <3> QED
      BY <2>1, <3>3, DroppedGrown
  <2> QED
    BY <1>3, <2>2, <2>4, <2>5, <2>6, <2>7 DEF Task, Finishes
<1>4. CASE UNCHANGED vars
  BY <1>4 DEF vars, Dropped
<1> QED
  BY <1>1, <1>2, <1>3, <1>4 DEF Next

-----------------------------------------------------------------------------
(* PadList::set. *)

\* Whether a DESTROY method assigns.
Careful == Scripts \cap {"data", "self"} # {}

Read(s, i) == IF i <= Len(s) THEN s[i] ELSE Undef

Changer(t, p) == t.do \in {"shift", "shrink", "insert"} /\ t.pad = p

NoneOf(ts, p) == \A i \in DOMAIN ts : ~Changer(ts[i], p)

\* What is left of an assignment to place i when place a of l is the next to be moved.
Remaining(b, p, a, i, v, l) ==
  /\ Len(b) = l - a + 2 /\ \A k \in 1..l - a : b[k] = Shift(p, a + k - 1)
  /\ b[l - a + 1] = Shrink(p) /\ b[l - a + 2] = InsertTask(p, i, v)

\* e is what variables s hold, and what they are going to hold: by the
\* insertion, and by the moves from place a on before it.
Fits(s, e) == \A m \in DOMAIN e : e[m] = Read(s, m)

ToInsert(s, e, i, v) ==
  \A m \in DOMAIN e : e[m] = IF m = i THEN v ELSE IF m < i THEN Read(s, m) ELSE Read(s, m - 1)

ToMove(s, e, a, i, v) ==
  \A m \in DOMAIN e : e[m] = IF m = i THEN v ELSE IF m < i \/ m > a THEN Read(s, m) ELSE Read(s, m - 1)

\* What the next move drops is an integer, or the place before has it, too.
Spare(h, s, a, i) == IF a = i THEN IntIs(h, s[a]) ELSE s[a-1] = s[a]

Inserting(p, b, s, e) ==
  \E i \in DOMAIN e, v \in Nat : b = << InsertTask(p, i, v) >> /\ ToInsert(s, e, i, v)

Moving(h, p, b, s, e) ==
  \E i \in DOMAIN e, v \in Nat : \E a \in i..Len(s) :
    /\ Remaining(b, p, a, i, v, Len(s)) /\ ToMove(s, e, a, i, v)
    /\ p = "outer" /\ Careful => Spare(h, s, a, i)

LEMMA Moved1 ==
  ASSUME NEW s \in Seq(Nat), NEW e \in Seq(Nat), NEW i \in Pos, NEW v, NEW a \in Pos, i <= a, a < Len(s),
         ToMove(s, e, a, i, v), NEW h, NEW c, c = a + 1, NEW t, Placed(s, a, s[c], t)
  PROVE  t \in Seq(Nat) /\ Len(t) = Len(s) /\ ToMove(t, e, c, i, v) /\ Spare(h, t, c, i)
<1>1. Len(s) \in Nat /\ a \in Nat /\ i \in Nat /\ i # 0 /\ a # 0 /\ c \in Nat /\ DOMAIN e = 1..Len(e) /\ Len(e) \in Nat
  BY DEF Pos
<1>0. c # i /\ c - 1 = a /\ c # a
  <2>1. c = a + 1 /\ i <= a
    OBVIOUS
  <2>2. c - 1 = a
    BY <1>1, <2>1
  <2>3. c # i
    BY <1>1, <2>1
  <2>4. c # a
    BY <1>1, <2>1
  <2> QED
    BY <2>2, <2>3, <2>4
<1>2. a \in 1..Len(s) /\ c \in 1..Len(s) /\ DOMAIN s = 1..Len(s)
  BY <1>1
<1>3. s[c] \in Nat
  BY <1>2
<1> DEFINE w == s[c]
<1>4. t = [s EXCEPT ![a] = w]
  BY DEF Placed
<1> HIDE DEF w
<1>5. t \in Seq(Nat) /\ Len(t) = Len(s) /\ DOMAIN t = 1..Len(s)
  <2>1. Nat \cup {w} = Nat
    BY <1>3 DEF w
  <2>2. t \in Seq(Nat)
    BY <1>4, <2>1, PutSeq
  <2>3. DOMAIN t = DOMAIN s
    BY <1>4
  <2> QED
    BY <1>1, <2>2, <2>3
<1>6. t[a] = s[c] /\ \A m \in 1..Len(s) : m # a => t[m] = s[m]
  <2>1. t[a] = w
    BY <1>2, <1>4
  <2>2. \A m \in 1..Len(s) : m # a => t[m] = s[m]
    BY <1>2, <1>4
  <2>3. t[a] = s[c]
    BY <2>1 DEF w
  <2> QED
    BY <2>2, <2>3
<1> HIDE DEF w
<1>7. Spare(h, t, c, i)
  <2>1. t[c] = s[c]
    BY <1>0, <1>2, <1>6
  <2>2. t[c - 1] = t[c]
    BY <1>0, <1>6, <2>1
  <2> QED
    BY <1>0, <2>2 DEF Spare
<1>8. ASSUME NEW m \in DOMAIN e
      PROVE  e[m] = IF m = i THEN v ELSE IF m < i \/ m > c THEN Read(t, m) ELSE Read(t, m - 1)
  <2>1. e[m] = IF m = i THEN v ELSE IF m < i \/ m > a THEN Read(s, m) ELSE Read(s, m - 1)
    BY DEF ToMove
  <2>2. m \in Nat /\ m >= 1
    BY <1>1
  <2>3. \A k \in Nat : k # a /\ k # 0 => Read(t, k) = Read(s, k)
    <3> TAKE k \in Nat
    <3> HAVE k # a /\ k # 0
    <3>1. k <= Len(s) => k \in 1..Len(s)
      BY <1>1
    <3> QED
      BY <1>5, <1>6, <3>1 DEF Read
  <2>4. CASE m = i
    BY <2>1, <2>4
  <2>5. CASE m < i \/ m > c
    <3>1. m # a /\ m # 0 /\ m # i /\ (m < i \/ m > a)
      BY <1>1, <2>2, <2>5
    <3> QED
      BY <2>1, <2>2, <2>3, <2>5, <3>1
  <2>6. CASE m = c
    <3>1. m # i /\ ~(m < i) /\ m > a /\ ~(m > c) /\ m - 1 = a
      BY <1>1, <2>2, <2>6
    <3>2. e[m] = Read(s, c)
      BY <2>1, <2>6, <3>1
    <3>3. Read(s, c) = s[c] /\ Read(t, a) = t[a]
      BY <1>1, <1>2, <1>5 DEF Read
    <3> QED
      BY <1>6, <3>1, <3>2, <3>3
  <2>7. CASE m # i /\ ~(m < i) /\ ~(m > a)
    <3>1. ~(m > c) /\ m - 1 \in Nat /\ m - 1 # a /\ m - 1 # 0
      BY <1>1, <2>2, <2>7
    <3>2. Read(t, m - 1) = Read(s, m - 1)
      BY <2>3, <3>1
    <3> QED
      BY <2>1, <2>7, <3>1, <3>2
  <2>8. m = i \/ m < i \/ m > c \/ m = c \/ (m # i /\ ~(m < i) /\ ~(m > a))
    BY <1>1, <2>2
  <2> QED
    BY <2>4, <2>5, <2>6, <2>7, <2>8
<1> QED
  BY <1>5, <1>7, <1>8 DEF ToMove

LEMMA FrontIs ==
  ASSUME NEW S, NEW s \in Seq(S), s # << >>, NEW t, t = Front(s)
  PROVE  t \in Seq(S) /\ Len(t) = Len(s) - 1 /\ \A m \in 1..Len(s) - 1 : t[m] = s[m]
<1>1. Len(s) \in Nat \ {0}
  OBVIOUS
<1>2. PICK k \in 0..Len(s) : k = Len(s) - 1
  BY SMTT(40), <1>1
<1>3. t = SubSeq(s, 1, k)
  BY <1>2 DEF Front
<1>4. t \in Seq(S) /\ Len(t) = k /\ \A m \in 1..k : t[m] = s[m]
  BY <1>3
<1> QED
  BY <1>2, <1>4

LEMMA Moved2 ==
  ASSUME NEW s \in Seq(Nat), NEW e \in Seq(Nat), NEW i \in Pos, NEW v, i <= Len(s),
         ToMove(s, e, Len(s), i, v), NEW t, t = Front(s)
  PROVE  t \in Seq(Nat) /\ ToInsert(t, e, i, v)
<1>1. Len(s) \in Nat /\ i \in Nat /\ i # 0 /\ DOMAIN e = 1..Len(e) /\ Len(e) \in Nat
  BY DEF Pos
<1>2. s # << >>
  BY <1>1
<1>3. t \in Seq(Nat) /\ Len(t) = Len(s) - 1 /\ \A m \in 1..Len(s) - 1 : t[m] = s[m]
  BY <1>2, FrontIs
<1>4. \A k \in Nat : k # 0 /\ k # Len(s) => Read(t, k) = Read(s, k)
  BY <1>1, <1>3 DEF Read
<1>5. ASSUME NEW m \in DOMAIN e
      PROVE  e[m] = IF m = i THEN v ELSE IF m < i THEN Read(t, m) ELSE Read(t, m - 1)
  <2>1. e[m] = IF m = i THEN v ELSE IF m < i \/ m > Len(s) THEN Read(s, m) ELSE Read(s, m - 1)
    BY DEF ToMove
  <2>2. m \in Nat /\ m >= 1
    BY <1>1
  <2>3. CASE m = i
    BY <2>1, <2>3
  <2>4. CASE m < i
    <3>1. m # 0 /\ m # Len(s) /\ m # i
      BY <1>1, <2>2, <2>4
    <3> QED
      BY <1>4, <2>1, <2>2, <2>4, <3>1
  <2>5. CASE m > Len(s)
    <3>1. m # i /\ ~(m < i) /\ ~(m <= Len(s)) /\ ~(m - 1 <= Len(t))
      BY SMTT(40), <1>1, <1>3, <2>2, <2>5
    <3>2. Read(s, m) = Undef /\ Read(t, m - 1) = Undef
      BY <3>1 DEF Read
    <3> QED
      BY <2>1, <2>5, <3>1, <3>2
  <2>6. CASE m # i /\ ~(m < i) /\ ~(m > Len(s))
    <3>1. m - 1 \in Nat /\ m - 1 # 0 /\ m - 1 # Len(s)
      BY <1>1, <2>2, <2>6
    <3>2. Read(t, m - 1) = Read(s, m - 1)
      BY <1>4, <3>1
    <3> QED
      BY <2>1, <2>6, <3>2
  <2> QED
    BY <2>3, <2>4, <2>5, <2>6
<1> QED
  BY <1>3, <1>5 DEF ToInsert

LEMMA ConcatHead ==
  ASSUME NEW S, NEW s \in Seq(S), s # << >>, NEW t \in Seq(S)
  PROVE  s \o t # << >> /\ Head(s \o t) = Head(s) /\ Tail(s \o t) = Tail(s) \o t
<1> DEFINE u == s \o t
           r == Tail(s) \o t
<1>1. /\ Tail(s) \in Seq(S) /\ Len(Tail(s)) = Len(s) - 1 /\ Len(s) \in Nat \ {0} /\ s[1] = Head(s)
      /\ \A i \in 1..Len(s) - 1 : Tail(s)[i] = s[i + 1]
  BY HeadTail
<1>2. /\ u \in Seq(S) /\ Len(u) = Len(s) + Len(t) /\ Len(t) \in Nat
      /\ (\A i \in 1..Len(s) : u[i] = s[i]) /\ (\A i \in 1..Len(t) : u[Len(s) + i] = t[i])
  BY ConcatIs
<1> HIDE DEF u
<1>3. u # << >> /\ 1 \in 1..Len(s)
  BY <1>1, <1>2
<1>4. /\ Tail(u) \in Seq(S) /\ Len(Tail(u)) = Len(u) - 1 /\ u[1] = Head(u)
      /\ \A i \in 1..Len(u) - 1 : Tail(u)[i] = u[i + 1]
  BY <1>2, <1>3, HeadTail
<1>5. \A i \in 1..Len(Tail(s)) : Tail(u)[i] = Tail(s)[i]
  <2> TAKE i \in 1..Len(Tail(s))
  <2>1. i \in 1..Len(s) - 1 /\ i \in 1..Len(u) - 1 /\ i + 1 \in 1..Len(s)
    BY <1>1, <1>2
  <2> QED
    BY <1>1, <1>2, <1>4, <2>1
<1>6. \A i \in 1..Len(t) : t[i] = Tail(u)[Len(Tail(s)) + i]
  <2> TAKE i \in 1..Len(t)
  <2> DEFINE k == Len(Tail(s)) + i
  <2>1. k \in 1..Len(u) - 1 /\ k + 1 = Len(s) + i
    BY <1>1, <1>2
  <2> HIDE DEF k
  <2>2. Tail(u)[k] = t[i]
    BY <1>2, <1>4, <2>1
  <2> QED
    BY <2>2 DEF k
<1>7. Len(t) = Len(Tail(u)) - Len(Tail(s)) /\ Len(Tail(s)) \in Nat
  BY <1>1, <1>2, <1>4
<1>8. Tail(s) \o t = Tail(u)
  <2> DEFINE w == Tail(u)
             a == Tail(s)
  <2>1. w \in Seq(S) /\ a \in Seq(S) /\ Len(a) \in Nat /\ Len(t) = Len(w) - Len(a)
        /\ (\A i \in 1..Len(a) : a[i] = w[i]) /\ \A i \in 1..Len(t) : t[i] = w[Len(a) + i]
    BY <1>1, <1>4, <1>5, <1>6, <1>7
  <2> HIDE DEF w, a
  <2>2. a \o t = w
    BY <2>1, SplitIs
  <2> QED
    BY <2>2 DEF w, a
<1>9. Head(u) = Head(s)
  BY <1>1, <1>2, <1>3, <1>4
<1> QED
  BY <1>3, <1>8, <1>9 DEF u

LEMMA ConcatThrice ==
  ASSUME NEW S, NEW a \in Seq(S), NEW b \in Seq(S), NEW c \in Seq(S)
  PROVE  a \o (b \o c) = (a \o b) \o c
<1> DEFINE x == a \o b
           y == b \o c
           z == x \o c
<1>1. /\ x \in Seq(S) /\ Len(x) = Len(a) + Len(b) /\ Len(a) \in Nat /\ Len(b) \in Nat
      /\ (\A i \in 1..Len(a) : x[i] = a[i]) /\ (\A i \in 1..Len(b) : x[Len(a) + i] = b[i])
  BY ConcatIs
<1>2. /\ y \in Seq(S) /\ Len(y) = Len(b) + Len(c) /\ Len(c) \in Nat
      /\ (\A i \in 1..Len(b) : y[i] = b[i]) /\ (\A i \in 1..Len(c) : y[Len(b) + i] = c[i])
  BY ConcatIs
<1> HIDE DEF x, y
<1>3. /\ z \in Seq(S) /\ Len(z) = Len(x) + Len(c)
      /\ (\A i \in 1..Len(x) : z[i] = x[i]) /\ (\A i \in 1..Len(c) : z[Len(x) + i] = c[i])
  <2>1. x \in Seq(S)
    BY <1>1
  <2> QED
    BY <2>1, ConcatIs
<1> HIDE DEF z
<1>4. Len(y) = Len(z) - Len(a)
  BY <1>1, <1>2, <1>3
<1>5. \A i \in 1..Len(a) : a[i] = z[i]
  <2> TAKE i \in 1..Len(a)
  <2>1. i \in 1..Len(x)
    BY <1>1
  <2> QED
    BY <1>1, <1>3, <2>1
<1>6. \A i \in 1..Len(y) : y[i] = z[Len(a) + i]
  <2> TAKE i \in 1..Len(y)
  <2>1. CASE i \in 1..Len(b)
    <3> DEFINE k == Len(a) + i
    <3>1. k \in 1..Len(x) /\ k = Len(a) + i
      BY <1>1, <2>1
    <3> HIDE DEF k
    <3>2. y[i] = b[i] /\ x[k] = b[i] /\ z[k] = x[k]
      BY <1>1, <1>2, <1>3, <2>1, <3>1
    <3> QED
      BY <3>1, <3>2
  <2>2. CASE i \notin 1..Len(b)
    <3> DEFINE k == i - Len(b)
    <3>1. k \in 1..Len(c) /\ Len(b) + k = i /\ Len(x) + k = Len(a) + i
      BY <1>1, <1>2, <2>2
    <3> HIDE DEF k
    <3>2. y[Len(b) + k] = c[k] /\ z[Len(x) + k] = c[k]
      BY <1>2, <1>3, <3>1
    <3> QED
      BY <3>1, <3>2
  <2> QED
    BY <2>1, <2>2
<1>7. a \o y = z
  BY ZenonT(60), <1>1, <1>2, <1>3, <1>4, <1>5, <1>6, SplitIs
<1> QED
  BY <1>7 DEF x, y, z

LEMMA TasksThrice == \A a, b, c \in Seq(Tasks) : a \o (b \o c) = (a \o b) \o c
BY ConcatThrice

LEMMA NoneConcat ==
  ASSUME NEW s \in Seq(Tasks), NEW t \in Seq(Tasks), NEW p
  PROVE  NoneOf(s \o t, p) <=> NoneOf(s, p) /\ NoneOf(t, p)
<1> DEFINE u == s \o t
<1>1. /\ u \in Seq(Tasks) /\ Len(u) = Len(s) + Len(t) /\ Len(s) \in Nat /\ Len(t) \in Nat
      /\ (\A i \in 1..Len(s) : u[i] = s[i]) /\ (\A i \in 1..Len(t) : u[Len(s) + i] = t[i])
      /\ DOMAIN u = 1..Len(u) /\ DOMAIN s = 1..Len(s) /\ DOMAIN t = 1..Len(t)
  BY ConcatIs
<1> HIDE DEF u
<1>2. ASSUME NEW i \in DOMAIN u
      PROVE  (i \in DOMAIN s /\ u[i] = s[i]) \/ \E k \in DOMAIN t : u[i] = t[k]
  <2>1. CASE i \in 1..Len(s)
    BY <1>1, <2>1
  <2>2. CASE i \notin 1..Len(s)
    <3> DEFINE k == i - Len(s)
    <3>1. k \in 1..Len(t) /\ Len(s) + k = i
      BY <1>1, <2>2
    <3> HIDE DEF k
    <3> QED
      BY <1>1, <3>1
  <2> QED
    BY <2>1, <2>2
<1>3. ASSUME NEW k \in DOMAIN t PROVE \E i \in DOMAIN u : u[i] = t[k]
  <2>1. Len(s) + k \in DOMAIN u
    BY <1>1
  <2> QED
    BY <1>1, <2>1
<1>4. ASSUME NEW i \in DOMAIN s PROVE i \in DOMAIN u /\ u[i] = s[i]
  BY <1>1
<1>5. NoneOf(u, p) <=> NoneOf(s, p) /\ NoneOf(t, p)
  BY <1>2, <1>3, <1>4 DEF NoneOf
<1> QED
  BY <1>5 DEF u

LEMMA CalmNone ==
  /\ \A ts : Calm(ts) => ts \in Seq(Tasks) /\ \A p : NoneOf(ts, p)
  /\ \A p : NoneOf(<< >>, p)
<1>1. ASSUME NEW ts, Calm(ts), NEW p PROVE NoneOf(ts, p)
  BY <1>1 DEF Calm, NoneOf, Changer
<1>2. \A p : NoneOf(<< >>, p)
  BY DEF NoneOf
<1> QED
  BY <1>1, <1>2 DEF Calm

LEMMA NoneTail ==
  ASSUME NEW ts \in Seq(Tasks), ts # << >>, NEW p
  PROVE  NoneOf(ts, p) <=> ~Changer(Head(ts), p) /\ NoneOf(Tail(ts), p)
<1>1. /\ Tail(ts) \in Seq(Tasks) /\ Len(Tail(ts)) = Len(ts) - 1 /\ Len(ts) \in Nat \ {0} /\ ts[1] = Head(ts)
      /\ (\A i \in 1..Len(ts) - 1 : Tail(ts)[i] = ts[i + 1]) /\ DOMAIN ts = 1..Len(ts)
      /\ DOMAIN Tail(ts) = 1..Len(ts) - 1
  BY HeadTail
<1> DEFINE r == Tail(ts)
<1> HIDE DEF r
<1>2. ASSUME NEW i \in DOMAIN ts PROVE i = 1 \/ \E k \in DOMAIN r : r[k] = ts[i]
  <2>1. CASE i # 1
    <3> DEFINE k == i - 1
    <3>1. k \in 1..Len(ts) - 1 /\ k + 1 = i
      BY <1>1, <2>1
    <3> HIDE DEF k
    <3> QED
      BY <1>1, <3>1 DEF r
  <2> QED
    BY <2>1
<1>3. ASSUME NEW k \in DOMAIN r PROVE \E i \in DOMAIN ts : r[k] = ts[i]
  <2>1. k + 1 \in DOMAIN ts /\ k \in 1..Len(ts) - 1
    BY <1>1 DEF r
  <2> QED
    BY <1>1, <2>1 DEF r
<1>4. 1 \in DOMAIN ts
  BY <1>1
<1>5. NoneOf(ts, p) <=> ~Changer(Head(ts), p) /\ NoneOf(r, p)
  BY <1>1, <1>2, <1>3, <1>4 DEF NoneOf
<1> QED
  BY <1>5 DEF r

LEMMA Moved3 ==
  ASSUME NEW s \in Seq(Nat), NEW e \in Seq(Nat), NEW i \in Pos, NEW v \in Nat, ToInsert(s, e, i, v),
         NEW t, t = InsertAt(Filled(s, i), i, v)
  PROVE  t \in Seq(Nat) /\ Fits(t, e)
<1> DEFINE f == Filled(s, i)
           g == [k \in 1..(i - 1) - Len(s) |-> Undef]
<1>1. i \in Nat /\ i # 0 /\ Len(s) \in Nat /\ DOMAIN e = 1..Len(e) /\ Len(e) \in Nat
  BY DEF Pos
<1>2. f \in Seq(Nat) /\ i \in 1..Len(f) + 1 /\ Len(f) \in Nat
  BY FilledIs
<1>3. g \in Seq(Nat) /\ (\A k \in DOMAIN g : g[k] = Undef) /\ Len(g) = IF Len(s) < i THEN (i - 1) - Len(s) ELSE 0
  <2> DEFINE n == (i - 1) - Len(s)
  <2>1. n \in Int
    BY <1>1
  <2>2. (Len(s) < i => n \in Nat) /\ (~(Len(s) < i) => n \notin Nat)
    BY <1>1
  <2> HIDE DEF n
  <2>3. CASE Len(s) < i
    <3>1. n \in Nat
      BY <2>2, <2>3
    <3> QED
      BY <2>3, <3>1 DEF Undef, n
  <2>4. CASE ~(Len(s) < i)
    <3>1. 1..n = {}
      BY <2>1, <2>2, <2>4
    <3>2. g = << >>
      BY <3>1 DEF n
    <3> HIDE DEF g
    <3>3. g \in Seq(Nat) /\ Len(g) = 0 /\ DOMAIN g = {}
      BY <3>2
    <3> QED
      BY <2>4, <3>3
  <2> QED
    BY <2>3, <2>4
<1>4. f = s \o g
  BY DEF Filled
<1> HIDE DEF f, g
<1>5. /\ Len(f) = Len(s) + Len(g)
      /\ (\A k \in 1..Len(s) : f[k] = s[k]) /\ (\A k \in 1..Len(g) : f[Len(s) + k] = g[k])
  BY <1>3, <1>4, ConcatIs
<1>6. \A k \in Nat : k # 0 => Read(f, k) = Read(s, k)
  <2> TAKE k \in Nat
  <2> HAVE k # 0
  <2>1. CASE k <= Len(s)
    <3>1. k \in 1..Len(s) /\ k <= Len(f)
      BY <1>1, <1>2, <1>3, <1>5, <2>1
    <3> QED
      BY <1>5, <2>1, <3>1 DEF Read
  <2>2. CASE ~(k <= Len(s)) /\ k <= Len(f)
    <3> DEFINE m == k - Len(s)
    <3>1. m \in 1..Len(g) /\ Len(s) + m = k /\ DOMAIN g = 1..Len(g)
      BY <1>1, <1>3, <1>5, <2>2
    <3> HIDE DEF m
    <3>2. f[k] = Undef
      BY <1>3, <1>5, <3>1
    <3> QED
      BY <2>2, <3>2 DEF Read
  <2>3. CASE ~(k <= Len(s)) /\ ~(k <= Len(f))
    BY <2>3 DEF Read
  <2> QED
    BY <2>1, <2>2, <2>3
<1> DEFINE a == SubSeq(f, 1, i - 1)
           b == SubSeq(f, i, Len(f))
           o == << v >>
           c == a \o o
<1>7. /\ a \in Seq(Nat) /\ Len(a) = i - 1 /\ \A k \in 1..i - 1 : a[k] = f[k]
  <2> DEFINE j == i - 1
  <2>1. j \in 0..Len(f)
    BY <1>1, <1>2
  <2> HIDE DEF j
  <2>2. SubSeq(f, 1, j) \in Seq(Nat) /\ Len(SubSeq(f, 1, j)) = j /\ \A k \in 1..j : SubSeq(f, 1, j)[k] = f[k]
    BY <1>2, <2>1
  <2> QED
    BY <2>2 DEF j
<1>8. /\ b \in Seq(Nat) /\ Len(b) = Len(f) - i + 1 /\ \A k \in 1..Len(f) - i + 1 : b[k] = f[i - 1 + k]
  <2>1. CASE i = Len(f) + 1
    <3>1. b = << >> /\ Len(f) - i + 1 = 0
      BY <1>2, <2>1
    <3> QED
      BY <3>1
  <2>2. CASE i # Len(f) + 1
    <3>1. i \in 1..Len(f)
      BY <1>1, <1>2, <2>2
    <3> QED
      BY <1>2, <3>1
  <2> QED
    BY <2>1, <2>2
<1>9. o \in Seq(Nat) /\ Len(o) = 1 /\ o[1] = v
  OBVIOUS
<1>10. t = c \o b
  BY DEF InsertAt, f
<1> HIDE DEF a, b, o
<1>11. c \in Seq(Nat) /\ Len(c) = i /\ (\A k \in 1..i - 1 : c[k] = f[k]) /\ c[i] = v
  <2>1. /\ c \in Seq(Nat) /\ Len(c) = Len(a) + Len(o)
        /\ (\A k \in 1..Len(a) : c[k] = a[k]) /\ (\A k \in 1..Len(o) : c[Len(a) + k] = o[k])
    <3>1. a \in Seq(Nat) /\ o \in Seq(Nat)
      BY <1>7, <1>9
    <3> QED
      BY <3>1, ConcatIs
  <2> HIDE DEF c
  <2>2. Len(c) = i /\ \A k \in 1..i - 1 : c[k] = f[k]
    BY <1>1, <1>7, <1>9, <2>1
  <2>3. c[Len(a) + 1] = v /\ Len(a) + 1 = i
    BY <1>1, <1>7, <1>9, <2>1
  <2> QED
    BY <2>1, <2>2, <2>3
<1> HIDE DEF c
<1>12. /\ t \in Seq(Nat) /\ Len(t) = Len(f) + 1 /\ (\A k \in 1..i : t[k] = c[k])
       /\ \A k \in 1..Len(f) - i + 1 : t[i + k] = f[i - 1 + k]
  <2>1. /\ t \in Seq(Nat) /\ Len(t) = Len(c) + Len(b)
        /\ (\A k \in 1..Len(c) : t[k] = c[k]) /\ (\A k \in 1..Len(b) : t[Len(c) + k] = b[k])
    <3>1. b \in Seq(Nat) /\ c \in Seq(Nat)
      BY <1>8, <1>11
    <3> QED
      BY <1>10, <3>1, ConcatIs
  <2>2. Len(t) = Len(f) + 1
    BY <1>1, <1>2, <1>8, <1>11, <2>1
  <2> QED
    BY <1>8, <1>11, <2>1, <2>2
<1>13. ASSUME NEW m \in DOMAIN e PROVE e[m] = Read(t, m)
  <2>1. e[m] = IF m = i THEN v ELSE IF m < i THEN Read(s, m) ELSE Read(s, m - 1)
    BY DEF ToInsert
  <2>2. m \in Nat /\ m # 0
    BY <1>1
  <2>3. CASE m = i
    <3>1. m <= Len(t) /\ m \in 1..i
      BY <1>1, <1>2, <1>12, <2>3
    <3> QED
      BY <1>11, <1>12, <2>1, <2>3, <3>1 DEF Read
  <2>4. CASE m < i
    <3>1. m <= Len(t) /\ m \in 1..i - 1 /\ m \in 1..i /\ m <= Len(f) /\ m # i
      BY SMTT(40), <1>1, <1>2, <1>12, <2>2, <2>4
    <3>2. t[m] = f[m]
      BY <1>11, <1>12, <3>1
    <3>3. Read(t, m) = Read(f, m)
      BY <3>1, <3>2 DEF Read
    <3> QED
      BY <1>6, <2>1, <2>2, <2>4, <3>1, <3>3
  <2>5. CASE m # i /\ ~(m < i)
    <3> DEFINE j == m - 1
               k == m - i
    <3>0. Len(t) = Len(f) + 1 /\ Len(f) \in Nat
      BY <1>2, <1>12
    <3>a. j \in Nat /\ j # 0 /\ k \in Nat /\ k # 0 /\ i + k = m /\ i - 1 + k = j
      BY <1>1, <2>2, <2>5
    <3>b. j <= Len(f) <=> m <= Len(t)
      BY <1>1, <2>2, <3>0
    <3>c. j <= Len(f) => k \in 1..Len(f) - i + 1
      BY <1>1, <2>2, <2>5, <3>0
    <3>1. j \in Nat /\ j # 0 /\ k \in Nat /\ k # 0 /\ i + k = m /\ i - 1 + k = j /\ (j <= Len(f) <=> m <= Len(t))
          /\ (j <= Len(f) => k \in 1..Len(f) - i + 1)
      BY <3>a, <3>b, <3>c
    <3>2. e[m] = Read(s, j)
      BY <2>1, <2>5
    <3> HIDE DEF j, k
    <3>3. j <= Len(f) => t[m] = f[j]
      BY <1>12, <3>1
    <3>4. Read(t, m) = Read(f, j)
      BY <3>1, <3>3 DEF Read
    <3> QED
      BY <1>6, <3>1, <3>2, <3>4
  <2> QED
    BY <2>3, <2>4, <2>5
<1> QED
  BY <1>12, <1>13 DEF Fits

LEMMA RemainingSet ==
  ASSUME pads \in [Pads -> Seq(Nat)], NEW p \in Pads, NEW i \in Pos, NEW v \in Nat, ~(i > Len(pads[p]))
  PROVE  Remaining(Set(p, i, v), p, i, i, v, Len(pads[p]))
<1> DEFINE n == Len(pads[p])
           last == InsertTask(p, i, v)
           cut == Shrink(p)
           moves == [k \in 1..n - i |-> Shift(p, i + k - 1)]
           m == n - i
           two == << cut, last >>
           all == moves \o two
<1>1. n \in Nat /\ i \in Nat /\ i # 0
  BY DEF Pos
<1>2. last \in Tasks /\ cut \in Tasks
  BY <1>1 DEF InsertTask, Shrink, Tasks
<1>3. \A k \in 1..n - i : Shift(p, i + k - 1) \in Tasks
  <2>1. \A j \in Pos : Shift(p, j) \in Tasks
    BY DEF Shift, Tasks, Pos
  <2>2. \A k \in 1..n - i : i + k - 1 \in Pos
    BY <1>1 DEF Pos
  <2> QED
    BY <2>1, <2>2
<1>4. Set(p, i, v) = all
  BY DEF Set
<1>5. m \in Nat
  BY <1>1
<1>6. moves \in Seq(Tasks) /\ Len(moves) = m /\ \A k \in 1..m : moves[k] = Shift(p, i + k - 1)
  BY SMTT(40), <1>3, <1>5
<1>7. two \in Seq(Tasks) /\ Len(two) = 2 /\ two[1] = cut /\ two[2] = last
  <2> HIDE DEF cut, last
  <2> QED
    BY <1>2
<1> HIDE DEF moves, two, m, last, cut
<1>8. /\ all \in Seq(Tasks) /\ Len(all) = Len(moves) + Len(two)
      /\ (\A k \in 1..Len(moves) : all[k] = moves[k]) /\ (\A k \in 1..Len(two) : all[Len(moves) + k] = two[k])
  <2>1. moves \in Seq(Tasks) /\ two \in Seq(Tasks)
    BY <1>6, <1>7
  <2> QED
    BY <2>1, ConcatIs
<1> HIDE DEF all
<1>9. Len(all) = m + 2 /\ (\A k \in 1..m : all[k] = Shift(p, i + k - 1)) /\ all[m + 1] = cut /\ all[m + 2] = last
  <2>1. all[Len(moves) + 1] = cut /\ all[Len(moves) + 2] = last
    BY <1>7, <1>8
  <2> QED
    BY <1>6, <1>7, <1>8, <2>1
<1> QED
  BY <1>4, <1>9 DEF Remaining, m, cut, last

\* One task.
Alone(t) == << t >>

LEMMA RemainingHead ==
  ASSUME NEW b \in Seq(Tasks), NEW p, NEW a \in Pos, NEW i, NEW v, NEW l \in Nat, a <= l,
         Remaining(b, p, a, i, v, l)
  PROVE  /\ b # << >>
         /\ a < l => Head(b) = Shift(p, a) /\ \A c : c = a + 1 => Remaining(Tail(b), p, c, i, v, l)
<1>1. a \in Nat /\ a # 0 /\ Len(b) = l - a + 2 /\ l - a \in Nat
  BY DEF Pos, Remaining
<1>2. b # << >>
  BY <1>1
<1>3. /\ Tail(b) \in Seq(Tasks) /\ Len(Tail(b)) = Len(b) - 1 /\ b[1] = Head(b)
      /\ \A k \in 1..Len(b) - 1 : Tail(b)[k] = b[k + 1]
  BY <1>2, HeadTail
<1> DEFINE r == Tail(b)
<1> HIDE DEF r
<1>4. ASSUME a < l PROVE Head(b) = Shift(p, a) /\ \A c : c = a + 1 => Remaining(r, p, c, i, v, l)
  <2>1. 1 \in 1..l - a /\ a + 1 - 1 = a
    BY <1>1, <1>4
  <2>2. b[1] = Shift(p, a + 1 - 1)
    BY <2>1 DEF Remaining
  <2>3. ASSUME NEW c, c = a + 1 PROVE Remaining(r, p, c, i, v, l)
    <3>1. c \in Nat /\ Len(r) = l - c + 2 /\ l - c \in Nat
      BY <1>1, <1>3, <1>4, <2>3 DEF r
    <3>2. ASSUME NEW k \in 1..l - c PROVE r[k] = Shift(p, c + k - 1)
      <4> DEFINE j == k + 1
      <4>1. j \in 1..l - a /\ k \in 1..Len(b) - 1 /\ a + j - 1 = c + k - 1
        BY <1>1, <2>3, <3>1
      <4> HIDE DEF j
      <4>2. b[j] = Shift(p, a + j - 1)
        BY <4>1 DEF Remaining
      <4>3. r[k] = b[j]
        BY <1>3, <4>1 DEF r, j
      <4> QED
        BY <4>1, <4>2, <4>3
    <3>3. ASSUME NEW k \in Nat, k = l - c PROVE r[k + 1] = Shrink(p) /\ r[k + 2] = InsertTask(p, i, v)
      <4>1. k + 1 \in 1..Len(b) - 1 /\ k + 2 \in 1..Len(b) - 1 /\ k + 1 + 1 = l - a + 1 /\ k + 2 + 1 = l - a + 2
        BY <1>1, <2>3, <3>1, <3>3
      <4>2. r[k + 1] = b[l - a + 1] /\ r[k + 2] = b[l - a + 2]
        BY <1>3, <4>1 DEF r
      <4> QED
        BY <4>2 DEF Remaining
    <3> QED
      BY <3>1, <3>2, <3>3 DEF Remaining
  <2> QED
    BY <1>3, <2>1, <2>2, <2>3
<1> QED
  BY <1>2, <1>4 DEF r

LEMMA RemainingLast ==
  ASSUME NEW b \in Seq(Tasks), NEW p, NEW i, NEW v, NEW l \in Nat, Remaining(b, p, l, i, v, l)
  PROVE  b # << >> /\ Head(b) = Shrink(p) /\ Tail(b) = Alone(InsertTask(p, i, v))
<1>1. l - l + 1 = 1 /\ l - l + 2 = 2
  OBVIOUS
<1>2. Len(b) = 2 /\ b[1] = Shrink(p) /\ b[2] = InsertTask(p, i, v)
  BY <1>1 DEF Remaining
<1>3. b # << >>
  BY <1>2
<1>4. /\ Tail(b) \in Seq(Tasks) /\ Len(Tail(b)) = Len(b) - 1 /\ b[1] = Head(b)
      /\ \A k \in 1..Len(b) - 1 : Tail(b)[k] = b[k + 1]
  BY <1>3, HeadTail
<1> DEFINE r == Tail(b)
           t == InsertTask(p, i, v)
<1> HIDE DEF r, t
<1>5. r \in Seq(Tasks) /\ Len(r) = 1 /\ r[1] = t
  BY <1>2, <1>4 DEF r, t
<1>6. r = << r[1] >>
  BY <1>5
<1>7. r = Alone(t)
  BY <1>5, <1>6 DEF Alone
<1> QED
  BY <1>2, <1>3, <1>4, <1>7 DEF r, t

\* The tasks of an assignment that is under way.
Assigning(h, p, b, s, e) == Inserting(p, b, s, e) \/ Moving(h, p, b, s, e)

Begins(h, s, i) == i <= Len(s) => IntIs(h, s[i])

LEMMA SetAssigns ==
  ASSUME NEW h, pads \in [Pads -> Seq(Nat)], NEW p \in Pads, NEW i \in Pos, NEW v \in Nat,
         NEW e0 \in Seq(Nat), i \in DOMAIN e0, Fits(pads[p], e0), NEW e, e = [e0 EXCEPT ![i] = v],
         p = "outer" /\ Careful => Begins(h, pads[p], i)
  PROVE  Assigning(h, p, Set(p, i, v), pads[p], e)
<1> DEFINE s == pads[p]
           b == Set(p, i, v)
<1>1. s \in Seq(Nat) /\ Len(s) \in Nat /\ i \in Nat /\ i # 0
  BY DEF Pos
<1>2. i > Len(s) => b = << InsertTask(p, i, v) >>
  BY DEF Set
<1>3. ~(i > Len(s)) => Remaining(b, p, i, i, v, Len(s))
  BY RemainingSet
<1>4. Fits(s, e0) /\ (p = "outer" /\ Careful => Begins(h, s, i))
  OBVIOUS
<1> HIDE DEF s, b
<1>5. DOMAIN e = DOMAIN e0 /\ i \in DOMAIN e
  OBVIOUS
<1>6. \A m \in DOMAIN e : e[m] = IF m = i THEN v ELSE Read(s, m)
  BY <1>4, <1>5 DEF Fits
<1>7. \A m \in DOMAIN e : m \in Nat
  BY <1>5
<1>8. CASE i > Len(s)
  <2>1. ASSUME NEW m \in DOMAIN e
        PROVE  e[m] = IF m = i THEN v ELSE IF m < i THEN Read(s, m) ELSE Read(s, m - 1)
    <3>1. CASE m = i \/ m < i
      BY <1>6, <3>1
    <3>2. CASE ~(m = i \/ m < i)
      <4>1. ~(m <= Len(s)) /\ ~(m - 1 <= Len(s)) /\ m # i /\ ~(m < i)
        BY <1>1, <1>7, <1>8, <3>2
      <4>2. Read(s, m) = Undef /\ Read(s, m - 1) = Undef
        BY <4>1 DEF Read
      <4> QED
        BY <1>6, <4>1, <4>2
    <3> QED
      BY <3>1, <3>2
  <2>2. ToInsert(s, e, i, v)
    BY <2>1 DEF ToInsert
  <2> QED
    BY <1>2, <1>5, <1>8, <2>2 DEF Assigning, Inserting, s, b
<1>9. CASE ~(i > Len(s))
  <2>1. i \in i..Len(s) /\ i <= Len(s)
    BY <1>1, <1>9
  <2>2. \A m \in DOMAIN e : m = i \/ m < i \/ m > i
    BY <1>1, <1>7
  <2>3. ToMove(s, e, i, i, v)
    BY <1>6, <2>2 DEF ToMove
  <2>4. p = "outer" /\ Careful => Spare(h, s, i, i)
    BY <1>4, <2>1 DEF Spare, Begins
  <2>5. Moving(h, p, b, s, e)
    BY <1>3, <1>5, <1>9, <2>1, <2>3, <2>4 DEF Moving
  <2> QED
    BY <2>5 DEF Assigning, s, b
<1> QED
  BY <1>8, <1>9

\* What a release of x, which a move has left behind, cannot do: run a DESTROY.
Harmless(h, s, x) == IntIs(h, x) \/ \E j \in DOMAIN s : s[j] = x

Leads(h, p, rs, s) ==
  p = "outer" /\ Careful => rs = << >> \/ \E x \in Pos : rs = << Release(x) >> /\ Harmless(h, s, x)

\* One assignment at most is under way, and what it has dropped comes before the rest of it.
Parted(h, p, ts, s, e) ==
  \/ NoneOf(ts, p) /\ Fits(s, e)
  \/ \E rs, b, rest \in Seq(Tasks) :
       /\ ts = rs \o (b \o rest) /\ NoneOf(rs, p) /\ NoneOf(rest, p)
       /\ Assigning(h, p, b, s, e) /\ Leads(h, p, rs, s)

LEMMA AssigningIs ==
  ASSUME NEW h, NEW p, NEW b \in Seq(Tasks), NEW s \in Seq(Nat), NEW e \in Seq(Nat), Assigning(h, p, b, s, e)
  PROVE  b # << >> /\ Changer(Head(b), p)
<1>1. CASE Inserting(p, b, s, e)
  <2>1. PICK t : b = << t >> /\ t.do = "insert" /\ t.pad = p
    BY <1>1 DEF Inserting, InsertTask
  <2> QED
    BY <2>1 DEF Changer
<1>2. CASE Moving(h, p, b, s, e)
  <2>0. PICK i \in DOMAIN e, v \in Nat : \E a \in i..Len(s) : Remaining(b, p, a, i, v, Len(s))
    BY <1>2 DEF Moving
  <2>1. PICK a \in i..Len(s) : Remaining(b, p, a, i, v, Len(s))
    BY <2>0
  <2>2. a \in Pos /\ Len(s) \in Nat /\ a <= Len(s)
    BY <2>1 DEF Pos
  <2>3. b # << >> /\ (a < Len(s) => Head(b) = Shift(p, a)) /\ (a = Len(s) => Head(b) = Shrink(p))
    <3>1. PICK l \in Nat : l = Len(s)
      BY <2>2
    <3>2. Remaining(b, p, a, i, v, l) /\ a <= l /\ a \in Pos
      BY <2>1, <2>2, <3>1
    <3>3. b # << >> /\ (a < l => Head(b) = Shift(p, a))
      BY <3>2, RemainingHead
    <3>4. a = l => Head(b) = Shrink(p)
      <4> HAVE a = l
      <4>1. Remaining(b, p, l, i, v, l)
        BY <3>2
      <4> QED
        BY <4>1, RemainingLast
    <3> QED
      BY <3>1, <3>3, <3>4
  <2>4. a < Len(s) \/ a = Len(s)
    BY <2>2 DEF Pos
  <2>5. Changer(Shift(p, a), p) /\ Changer(Shrink(p), p)
    BY DEF Changer, Shift, Shrink
  <2> QED
    BY <2>3, <2>4, <2>5
<1> QED
  BY <1>1, <1>2 DEF Assigning

\* No assignment is under way.
LEMMA PartedNone ==
  ASSUME NEW h, NEW p, NEW s \in Seq(Nat), NEW e \in Seq(Nat), NEW ts \in Seq(Tasks), NoneOf(ts, p),
         Parted(h, p, ts, s, e)
  PROVE  Fits(s, e)
<1> SUFFICES ASSUME NEW rs \in Seq(Tasks), NEW b \in Seq(Tasks), NEW rest \in Seq(Tasks),
                    ts = rs \o (b \o rest), Assigning(h, p, b, s, e)
             PROVE  FALSE
  BY DEF Parted
<1>1. b # << >> /\ Changer(Head(b), p)
  BY AssigningIs
<1> DEFINE c == b \o rest
<1>2. c \in Seq(Tasks) /\ (NoneOf(c, p) => NoneOf(b, p))
  BY ConcatIs, NoneConcat
<1> HIDE DEF c
<1>3. ts = rs \o c
  BY DEF c
<1>4. NoneOf(c, p)
  BY <1>2, <1>3, NoneConcat
<1> QED
  BY <1>1, <1>2, <1>4, NoneTail

LEMMA AssigningGrows ==
  ASSUME NEW h, NEW g, \A r : IntIs(h, r) => IntIs(g, r), NEW p, NEW b, NEW s, NEW e, Assigning(h, p, b, s, e)
  PROVE  Assigning(g, p, b, s, e)
<1>1. \A a, i : Spare(h, s, a, i) => Spare(g, s, a, i)
  BY DEF Spare
<1> QED
  BY <1>1 DEF Assigning, Moving

\* A step of a task that does not change pad p.
LEMMA PartedOn ==
  ASSUME NEW h, NEW g, \A r : IntIs(h, r) => IntIs(g, r), NEW p, NEW s \in Seq(Nat), NEW e \in Seq(Nat),
         NEW ts \in Seq(Tasks), ts # << >>, ~Changer(Head(ts), p), Parted(h, p, ts, s, e),
         NEW new \in Seq(Tasks), NoneOf(new, p),
         \A x \in Pos : p = "outer" /\ Careful /\ Head(ts) = Release(x) /\ Harmless(h, s, x) => new = << >>
  PROVE  Parted(g, p, new \o Tail(ts), s, e)
<1>1. Tail(ts) \in Seq(Tasks)
  BY HeadTail
<1>2. CASE NoneOf(ts, p) /\ Fits(s, e)
  <2>1. NoneOf(Tail(ts), p)
    BY <1>2, NoneTail
  <2>2. NoneOf(new \o Tail(ts), p)
    BY <1>1, <2>1, NoneConcat
  <2> QED
    BY <1>2, <2>2 DEF Parted
<1>3. ASSUME NEW rs \in Seq(Tasks), NEW b \in Seq(Tasks), NEW rest \in Seq(Tasks),
             ts = rs \o (b \o rest), NoneOf(rs, p), NoneOf(rest, p), Assigning(h, p, b, s, e), Leads(h, p, rs, s)
      PROVE  Parted(g, p, new \o Tail(ts), s, e)
  <2> DEFINE c == b \o rest
  <2>1. b # << >> /\ Changer(Head(b), p)
    BY <1>3, AssigningIs
  <2>2. c \in Seq(Tasks) /\ c # << >> /\ Head(c) = Head(b)
    BY <2>1, ConcatHead, ConcatIs
  <2> HIDE DEF c
  <2>3. ts = rs \o c
    BY <1>3 DEF c
  <2>4. rs # << >>
    <3>1. rs = << >> => ts = c
      BY <2>2, <2>3
    <3> QED
      BY <2>1, <2>2, <3>1
  <2>5. Head(ts) = Head(rs) /\ Tail(ts) = Tail(rs) \o c
    BY <2>2, <2>3, <2>4, ConcatHead
  <2> DEFINE r2 == new \o Tail(rs)
  <2>6. Tail(rs) \in Seq(Tasks) /\ NoneOf(Tail(rs), p)
    BY <1>3, <2>4, HeadTail, NoneTail
  <2>7. r2 \in Seq(Tasks) /\ NoneOf(r2, p)
    BY <2>6, ConcatIs, NoneConcat
  <2>8. new \o Tail(ts) = r2 \o c
    <3> DEFINE d == Tail(rs)
    <3>1. d \in Seq(Tasks) /\ Tail(ts) = d \o c
      BY <2>5, <2>6
    <3> HIDE DEF d
    <3>2. new \in Seq(Tasks) /\ d \in Seq(Tasks) /\ c \in Seq(Tasks)
      BY <2>2, <3>1
    <3> HIDE DEF r2
    <3>3. new \o (d \o c) = (new \o d) \o c
      BY SMTT(40), <3>2, TasksThrice
    <3> USE DEF r2
    <3> QED
      BY <3>1, <3>3 DEF d
  <2>9. p = "outer" /\ Careful => r2 = << >>
    <3> HAVE p = "outer" /\ Careful
    <3>1. PICK x \in Pos : rs = << Release(x) >> /\ Harmless(h, s, x)
      BY <1>3, <2>4 DEF Leads
    <3> DEFINE t == Release(x)
    <3> HIDE DEF t
    <3>2. rs = << t >>
      BY <3>1 DEF t
    <3>3. Head(rs) = t /\ Tail(rs) = << >>
      BY <3>2
    <3>4. new = << >>
      BY <2>5, <3>1, <3>3 DEF t
    <3> QED
      BY <3>3, <3>4
  <2>10. Leads(g, p, r2, s)
    BY <2>9 DEF Leads
  <2>11. Assigning(g, p, b, s, e)
    BY <1>3, AssigningGrows
  <2> HIDE DEF r2
  <2>12. new \o Tail(ts) = r2 \o (b \o rest)
    BY <2>8 DEF c
  <2> QED
    BY <1>3, <2>7, <2>10, <2>11, <2>12 DEF Parted
<1> QED
  BY <1>2, <1>3 DEF Parted

\* The assignment comes first when its pad is about to change.
LEMMA PartedFirst ==
  ASSUME NEW h, NEW p, NEW s \in Seq(Nat), NEW e \in Seq(Nat),
         NEW ts \in Seq(Tasks), ts # << >>, Changer(Head(ts), p), Parted(h, p, ts, s, e)
  PROVE  \E b, rest \in Seq(Tasks) :
           /\ Head(ts) = Head(b) /\ Tail(ts) = Tail(b) \o rest /\ b # << >>
           /\ NoneOf(rest, p) /\ Assigning(h, p, b, s, e)
<1>1. ~NoneOf(ts, p)
  BY NoneTail
<1>2. PICK rs \in Seq(Tasks), b \in Seq(Tasks), rest \in Seq(Tasks) :
        ts = rs \o (b \o rest) /\ NoneOf(rs, p) /\ NoneOf(rest, p) /\ Assigning(h, p, b, s, e)
  BY <1>1 DEF Parted
<1> DEFINE c == b \o rest
<1>3. b # << >>
  BY <1>2, AssigningIs
<1>4. c \in Seq(Tasks) /\ Head(c) = Head(b) /\ Tail(c) = Tail(b) \o rest
  BY <1>3, ConcatHead, ConcatIs
<1> HIDE DEF c
<1>5. ts = rs \o c
  BY <1>2 DEF c
<1>6. rs = << >>
  <2> SUFFICES ASSUME rs # << >> PROVE FALSE
    OBVIOUS
  <2>1. Head(ts) = Head(rs)
    BY <1>4, <1>5, ConcatHead
  <2>2. ~Changer(Head(rs), p)
    BY <1>2, NoneTail
  <2> QED
    BY <2>1, <2>2
<1>7. ts = c
  BY <1>4, <1>5, <1>6
<1> QED
  BY <1>2, <1>3, <1>4, <1>7

-----------------------------------------------------------------------------
(* What variables hold. *)

\* No DESTROY method assigns, or only integers go where one assigns.
Undisturbed == Careful => ~Overwrites /\ "self" \notin Scripts

CellFits(h, c) ==
  /\ c.type = "int" => c.items = << >>
  /\ c.type = "object" =>
       c.script \in Scripts /\ (Careful /\ c.script = "data" /\ c.live => IntIs(h, c.items[1]))

CellsFit == \A a \in DOMAIN heap : CellFits(heap, heap[a])

LEMMA IntsStay ==
  ASSUME IInv, Next
  PROVE  \A r : IntIs(heap, r) => IntIs(heap', r)
BY TypesStay DEF SameTypes, IntIs

LEMMA CellFollows ==
  ASSUME NEW h, NEW g, \A r : IntIs(h, r) => IntIs(g, r), NEW c, CellFits(h, c), NEW d, Follows(c, d)
  PROVE  CellFits(g, d)
BY DEF Follows, CellFits

LEMMA CellsFitStep ==
  ASSUME Undisturbed, IInv, CellsFit, [Next]_vars
  PROVE  CellsFit'
<1>1. CASE UNCHANGED vars
  BY <1>1 DEF vars, CellsFit
<1>2. CASE Next /\ ~DoRelease
  <2>1. Grown(heap, heap') /\ \A r : IntIs(heap, r) => IntIs(heap', r)
    BY <1>2, GrownStep, IntsStay
  <2>2. ASSUME NEW a \in DOMAIN heap' PROVE CellFits(heap', heap'[a])
    <3>1. CASE a \in DOMAIN heap
      <4>1. Follows(heap[a], heap'[a])
        BY <2>1, <3>1 DEF Grown, Goes
      <4> QED
        BY <2>1, <3>1, <4>1, CellFollows DEF CellsFit
    <3>2. CASE Fresh(heap, heap'[a])
      BY <2>1, <3>2 DEF Fresh, CellFits, Undisturbed
    <3> QED
      BY <2>1, <3>1, <3>2 DEF Grown
  <2> QED
    BY <2>2 DEF CellsFit
<1>3. CASE DoRelease
  <2>1. Next
    BY <1>3 DEF Next, Task
  <2>2. \A r : IntIs(heap, r) => IntIs(heap', r)
    BY <2>1, IntsStay
  <2>3. /\ DOMAIN heap' = DOMAIN heap /\ \A b \in DOMAIN heap : b # The => heap'[b] = heap[b]
        /\ Follows(heap[The], heap'[The])
    BY <1>3, ReleaseCell
  <2>4. \A b \in DOMAIN heap : Follows(heap[b], heap'[b])
    BY <2>3, GoesSame DEF Goes
  <2>5. ASSUME NEW a \in DOMAIN heap' PROVE CellFits(heap', heap'[a])
    BY <2>2, <2>3, <2>4, CellFollows DEF CellsFit
  <2> QED
    BY <2>5 DEF CellsFit
<1> QED
  BY <1>1, <1>2, <1>3

LEMMA QuietConcat ==
  ASSUME NEW s, Quiet(s), NEW t, Quiet(t)
  PROVE  Quiet(s \o t)
<1> DEFINE u == s \o t
<1>1. s \in Seq(Tasks) /\ t \in Seq(Tasks) /\ Len(s) \in Nat /\ Len(t) \in Nat
  BY DEF Quiet
<1>2. /\ u \in Seq(Tasks) /\ Len(u) = Len(s) + Len(t)
      /\ (\A i \in 1..Len(s) : u[i] = s[i]) /\ (\A i \in 1..Len(t) : u[Len(s) + i] = t[i])
  BY <1>1, ConcatIs
<1> HIDE DEF u
<1>3. ASSUME NEW i \in DOMAIN u PROVE u[i].do \in {"release", "iterate"}
  <2>1. CASE i \in 1..Len(s)
    BY <1>1, <1>2, <2>1 DEF Quiet
  <2>2. CASE i \notin 1..Len(s)
    <3>1. PICK k \in 1..Len(t) : i = Len(s) + k
      <4>1. i - Len(s) \in 1..Len(t) /\ i = Len(s) + (i - Len(s))
        BY <1>1, <1>2, <2>2
      <4> QED
        BY <4>1
    <3>2. u[i] = t[k] /\ k \in DOMAIN t
      BY <1>1, <1>2, <3>1
    <3> QED
      BY <3>2 DEF Quiet
  <2> QED
    BY <2>1, <2>2
<1>4. Quiet(u)
  BY <1>2, <1>3 DEF Quiet
<1> QED
  BY <1>4 DEF u

\* What ops leave that assign no variable.
LEMMA OpQuiet ==
  ASSUME IInv, Op, ~SetVariable
  PROVE  todo = << >> /\ Quiet(todo')
<1>1. CASE \/ OP_PUSH_INT \/ GetVariable \/ PreIncrement \/ OP_MAKE_ARRAY \/ Bless \/ av_push
           \/ OP_ENTER \/ OP_ENTER_FOREACH
  <2>1. todo = << >> /\ todo' = todo
    BY <1>1 DEF OP_PUSH_INT, GetVariable, PreIncrement, OP_MAKE_ARRAY, Bless, av_push, OP_ENTER,
                OP_ENTER_FOREACH, Ready
  <2> QED
    BY <2>1, QuietAre
<1>2. CASE OP_POP_TOP \/ PostIncrement \/ av_pop
  <2>1. /\ todo = << >> /\ Own
        /\ todo' = Releases(<< Top >>) \/ todo' = << Release(Top) >>
    BY <1>2 DEF OP_POP_TOP, PostIncrement, av_pop, Ready
  <2>2. Top \in Pos /\ Top \in Nat
    BY <2>1, OwnTop, TopIs DEF IInv, Pos
  <2> DEFINE one == << Top >>
             t == Release(Top)
             ts == << t >>
  <2>3. one \in Seq(Nat)
    BY <2>2
  <2>4. t \in Tasks /\ t.do = "release"
    BY <2>2, DropsAre DEF Drops
  <2> HIDE DEF one, t
  <2>5. Quiet(Releases(one))
    BY <2>3, QuietAre
  <2>6. ts \in Seq(Tasks) /\ \A i \in DOMAIN ts : ts[i] = t
    BY <2>4
  <2> HIDE DEF ts
  <2>7. Quiet(ts)
    BY <2>4, <2>6 DEF Quiet
  <2> QED
    BY <2>1, <2>5, <2>7 DEF one, t, ts
<1>3. CASE OP_LEAVE
  <2>1. todo = << >> /\ todo' = Releases(Left) \o Members
    BY <1>3 DEF OP_LEAVE, Ready
  <2>2. Quiet(Releases(Left)) /\ Quiet(Members)
    BY LeftIs, MembersAre, QuietAre DEF IInv
  <2> QED
    BY <2>1, <2>2, QuietConcat
<1>4. CASE OP_FOR_ITER
  <2> DEFINE t == Iterate
             ts == << t >>
  <2>1. todo = << >> /\ todo' = Releases(Left) \o ts
    BY <1>4 DEF OP_FOR_ITER, Ready
  <2>2. t \in Tasks /\ t.do = "iterate"
    BY DEF Iterate, Tasks
  <2> HIDE DEF t
  <2>3. ts \in Seq(Tasks) /\ \A i \in DOMAIN ts : ts[i] = t
    BY <2>2
  <2> HIDE DEF ts
  <2>4. Quiet(ts)
    BY <2>2, <2>3 DEF Quiet
  <2>5. Quiet(Releases(Left))
    BY LeftIs, QuietAre DEF IInv
  <2> QED
    BY <2>1, <2>4, <2>5, QuietConcat
<1> QED
  BY <1>1, <1>2, <1>3, <1>4 DEF Op

\* The rest of OP_FOR_ITER: the next turn, or the end of the loop.
IterateLeaves ==
  \/ /\ pads' = pads /\ frame'.kind = "foreach"
     /\ \E v \in Pos : \E ts : /\ Quiet(ts) /\ todo' = ts \o Set("inner", 1, v)
                               /\ env' = [env EXCEPT !.inner[1] = v]
  \/ Quiet(todo') /\ DropFrame

LEMMA IterateIsLast ==
  ASSUME IInv, DoIterate
  PROVE  /\ frame.kind = "foreach" /\ todo # << >> /\ Head(todo).do = "iterate" /\ \A p : NoneOf(todo, p)
         /\ IterateLeaves
<1> DEFINE items == heap[frame.of].items
           k == frame.counter
<1>1. Busy("iterate")
  BY DEF DoIterate
<1>2. /\ frame.kind = "foreach" /\ \A ts \in Seq(Tasks) : ts \o Tail(todo) = ts
      /\ frame \in FrameType /\ pads \in [Pads -> Seq(Nat)] /\ HeapOK(heap) /\ frame.cur \in Nat /\ k \in Nat
      /\ heap[frame.of] \in CellType /\ todo # << >> /\ Head(todo).do = "iterate" /\ Shaped
  BY <1>1, IterateIs, Shapes DEF Busy
<1>3. ASSUME NEW c, frame' = [frame EXCEPT !.counter = c] PROVE frame'.kind = "foreach"
  BY <1>2, <1>3 DEF FrameType
<1>4. \A p : NoneOf(todo, p)
  <2>1. PICK t : t = Head(todo)
    OBVIOUS
  <2>2. todo = << t >> /\ t.do = "iterate"
    BY <1>2, <2>1, OnlyIterate
  <2>3. \A i \in DOMAIN todo : todo[i] = t
    BY <2>2
  <2> QED
    BY <2>2, <2>3 DEF NoneOf, Changer
<1>5. ASSUME NEW v \in Pos PROVE Set("inner", 1, v) \in Seq(Tasks)
  <2>1. v \in Nat
    BY DEF Pos
  <2> QED
    BY <1>2, <2>1, SetPuts
<1>6. ASSUME NEW v \in Pos, todo' = Set("inner", 1, v) \o Tail(todo)
      PROVE  todo' = << >> \o Set("inner", 1, v) /\ Quiet(<< >>)
  <2> DEFINE s == Set("inner", 1, v)
  <2>1. s \in Seq(Tasks)
    BY <1>5
  <2>2. todo' = s \o Tail(todo)
    BY <1>6
  <2> HIDE DEF s
  <2>3. todo' = s
    BY <1>2, <2>1, <2>2
  <2>4. << >> \o s = s
    BY <2>1
  <2> QED
    BY <2>3, <2>4, QuietAre DEF s
<1>7. CASE heap[frame.of].type = "array" /\ k < Len(items)
  <2> DEFINE w == items[k + 1]
  <2>1. /\ frame' = [frame EXCEPT !.counter = k + 1] /\ pads' = pads /\ env' = [env EXCEPT !.inner[1] = w]
        /\ todo' = Set("inner", 1, w) \o Tail(todo)
    BY <1>7 DEF DoIterate, Then, Turn
  <2>2. w \in Pos
    <3>1. items \in Seq(Pos)
      BY <1>2 DEF CellType
    <3>2. k + 1 \in 1..Len(items)
      BY <1>2, <1>7, <3>1
    <3> QED
      BY <3>1, <3>2
  <2> HIDE DEF w
  <2>3. frame'.kind = "foreach"
    BY <1>3, <2>1
  <2> QED
    BY <1>2, <1>4, <1>6, <2>1, <2>2, <2>3 DEF IterateLeaves
<1>8. CASE heap[frame.of].type = "int" /\ InRange(k) /\ IsUncopied
  <2> DEFINE w == frame.cur
  <2>1. /\ frame' = [frame EXCEPT !.counter = k + 1] /\ pads' = pads /\ env' = [env EXCEPT !.inner[1] = w]
        /\ todo' = Set("inner", 1, w) \o Tail(todo)
    BY <1>8 DEF DoIterate, Then, Turn
  <2>2. w \in Pos
    BY <1>2, <1>8 DEF IsUncopied, Undef, Pos
  <2> HIDE DEF w
  <2>3. frame'.kind = "foreach"
    BY <1>3, <2>1
  <2> QED
    BY <1>2, <1>4, <1>6, <2>1, <2>2, <2>3 DEF IterateLeaves
<1>9. CASE heap[frame.of].type = "int" /\ InRange(k) /\ ~IsUncopied
  <2> DEFINE w == Len(heap) + 1
             s == Set("inner", 1, w)
             one == << frame.cur >>
             d == Releases(one)
  <2>1. /\ frame' = [frame EXCEPT !.counter = k + 1, !.cur = w] /\ todo' = (d \o s) \o Tail(todo)
        /\ pads' = pads /\ env' = [env EXCEPT !.inner[1] = w]
    BY <1>9 DEF DoIterate, Then, Turn
  <2>2. frame'.kind = "foreach"
    BY <1>2, <2>1 DEF FrameType
  <2>3. w \in Pos
    <3>1. heap \in Seq(CellType)
      BY <1>2 DEF HeapOK
    <3> QED
      BY <3>1 DEF Pos
  <2> HIDE DEF w
  <2>4. s \in Seq(Tasks)
    BY <1>5, <2>3
  <2>5. one \in Seq(Nat)
    BY <1>2
  <2> HIDE DEF s, one
  <2>6. Quiet(d)
    BY <2>5, QuietAre
  <2>7. d \in Seq(Tasks)
    BY <2>6 DEF Quiet
  <2> HIDE DEF d
  <2>8. d \o s \in Seq(Tasks)
    BY <2>4, <2>7, ConcatIs
  <2>9. todo' = d \o s
    BY <1>2, <2>1, <2>8
  <2> QED
    BY <1>2, <1>4, <2>1, <2>2, <2>3, <2>6, <2>9 DEF IterateLeaves, s
<1>10. CASE DropFrame /\ todo' = Members \o Tail(todo)
  <2>1. Quiet(Members)
    BY <1>2, MembersAre, QuietAre
  <2>2. todo' = Members
    <3>1. Members \in Seq(Tasks)
      BY <2>1 DEF Quiet
    <3> QED
      BY <1>2, <1>10, <3>1
  <2> QED
    BY <1>2, <1>4, <1>10, <2>1, <2>2 DEF IterateLeaves
<1>11. \/ heap[frame.of].type = "array" /\ k < Len(items)
       \/ heap[frame.of].type = "int" /\ InRange(k)
       \/ DropFrame /\ todo' = Members \o Tail(todo)
  BY DEF DoIterate, Then
<1> QED
  BY <1>7, <1>8, <1>9, <1>10, <1>11

\* No value changes its script.
LEMMA ValuesFollow ==
  ASSUME IInv, Next
  PROVE  \A a \in DOMAIN heap : a \in DOMAIN heap' /\ Follows(heap[a], heap'[a])
<1>1. CASE ~DoRelease
  BY <1>1, GrownStep DEF Grown, Goes
<1>2. CASE DoRelease
  BY <1>2, ReleaseCell, GoesSame DEF Goes
<1> QED
  BY <1>1, <1>2

\* A DESTROY method that is going to be called exists.
BodiesFit == \A t : Among(t, todo) /\ t.do = "body" => heap[t.of].script # "none"

NoBody(ts) == \A t : Among(t, ts) => t.do # "body"

LEMMA NoBodies ==
  /\ \A ts : Quiet(ts) => NoBody(ts)
  /\ \A ts, v : Plain(ts, v) => NoBody(ts)
  /\ \A s, t \in Seq(Tasks) : NoBody(s) /\ NoBody(t) => NoBody(s \o t)
<1>1. \A ts : Quiet(ts) => NoBody(ts)
  BY DEF Quiet, NoBody, Among
<1>2. \A ts, v : Plain(ts, v) => NoBody(ts)
  BY DEF Plain, NoBody, Among
<1>3. \A s, t \in Seq(Tasks) : NoBody(s) /\ NoBody(t) => NoBody(s \o t)
  BY AmongConcat DEF NoBody
<1> QED
  BY <1>1, <1>2, <1>3

LEMMA BodiesThen ==
  ASSUME IInv, BodiesFit, Next, todo # << >>, NEW ts \in Seq(Tasks), todo' = ts \o Tail(todo),
         \A t : Among(t, ts) /\ t.do = "body" => heap'[t.of].script # "none"
  PROVE  BodiesFit'
<1>1. todo \in Seq(Tasks) /\ TodoOK(heap, todo) /\ Tail(todo) \in Seq(Tasks)
  BY Shapes, HeadTail DEF IInv
<1>2. ASSUME NEW t, Among(t, todo'), t.do = "body" PROVE heap'[t.of].script # "none"
  <2>1. Among(t, ts) \/ Among(t, todo)
    BY <1>1, <1>2, AmongConcat, AmongTail
  <2>2. CASE Among(t, todo)
    <3>1. t.of \in DOMAIN heap
      BY <1>1, <1>2, <2>2 DEF TodoOK, TaskShape, Among
    <3>2. heap'[t.of].script = heap[t.of].script
      BY <3>1, ValuesFollow DEF Follows
    <3> QED
      BY <1>2, <2>2, <3>2 DEF BodiesFit
  <2> QED
    BY <1>2, <2>1, <2>2
<1> QED
  BY <1>2 DEF BodiesFit, Among

LEMMA BodiesFitStep ==
  ASSUME HeapAssumption, IInv, BodiesFit, [Next]_vars
  PROVE  BodiesFit'
<1>1. CASE UNCHANGED vars
  BY <1>1 DEF vars, BodiesFit, Among
<1>2. ASSUME NoBody(todo') PROVE BodiesFit'
  BY <1>2 DEF NoBody, BodiesFit, Among
<1>3. CASE Op
  <2>1. CASE ~SetVariable
    BY <1>2, <1>3, <2>1, OpQuiet, NoBodies
  <2>2. CASE SetVariable
    <3>1. PICK p \in DOMAIN pads, i \in 1..Outer : Own /\ todo' = Set(p, i, Top)
      BY <2>2 DEF SetVariable
    <3>2. pads \in [Pads -> Seq(Nat)] /\ p \in Pads /\ i \in Pos /\ Len(stack) > 0
      BY SMTT(40), <3>1, Shapes, OwnTop DEF IInv, Pos, HeapAssumption
    <3>3. Top \in Nat
      BY <3>2, TopIs DEF Pos
    <3>4. Plain(Set(p, i, Top), Top)
      BY <3>2, <3>3, SetIs
    <3> QED
      BY <1>2, <3>1, <3>4, NoBodies
  <2> QED
    BY <2>1, <2>2
<1>4. CASE Finishes \/ DoShift \/ DoShrink \/ DoInsert
  <2>1. PICK ts : Quiet(ts) /\ todo' = ts \o Tail(todo)
    BY <1>4, TaskQuiet
  <2>2. ts \in Seq(Tasks) /\ NoBody(ts) /\ Next /\ todo # << >>
    BY <1>4, <2>1, NoBodies DEF Quiet, Next, Task, Finishes, DoFinish, DoShift, DoShrink, DoInsert, Busy
  <2> QED
    BY <2>1, <2>2, BodiesThen DEF NoBody
<1>5. CASE DoFinish /\ ~Finishes
  BY <1>5 DEF DoFinish, Finishes, BodiesFit, Among
<1>6. CASE DoBody
  <2>1. BodyIs /\ pads \in [Pads -> Seq(Nat)] /\ DestroyVar \in Pos /\ Next
    BY <1>6, BodyLeaves, Shapes DEF IInv, HeapAssumption, Pos, Next, Task
  <2>2. PICK ts \in Seq(Tasks) :
          /\ todo' = ts \o Tail(todo)
          /\ ts = << >> \/ ts = Set("outer", DestroyVar, BodyValue) \o Releases(<< BodyValue >>)
    BY <2>1 DEF BodyIs
  <2> DEFINE v == BodyValue
             s == Set("outer", DestroyVar, v)
             one == << v >>
  <2>3. v \in Nat /\ s \in Seq(Tasks)
    BY <2>1 DEF BodyIs, Pos
  <2>4. Plain(s, v)
    BY <2>1, <2>3, SetIs DEF Pads
  <2> HIDE DEF s, v
  <2>5. one \in Seq(Nat)
    BY <2>3
  <2> HIDE DEF one
  <2>6. Quiet(Releases(one)) /\ Quiet(<< >>)
    BY <2>5, QuietAre
  <2>7. NoBody(s) /\ NoBody(Releases(one)) /\ Releases(one) \in Seq(Tasks) /\ NoBody(<< >>)
    BY <2>4, <2>6, NoBodies DEF Quiet
  <2>8. NoBody(s \o Releases(one))
    BY <2>3, <2>7, NoBodies
  <2>9. NoBody(ts)
    BY <2>2, <2>7, <2>8 DEF s, one, v
  <2>10. todo # << >>
    BY <2>1 DEF BodyIs
  <2> QED
    BY <2>1, <2>2, <2>9, <2>10, BodiesThen DEF NoBody
<1>7. CASE DoIterate
  <2>1. IterateLeaves /\ pads \in [Pads -> Seq(Nat)]
    BY <1>7, IterateIsLast, Shapes DEF IInv
  <2>2. CASE Quiet(todo')
    BY <1>2, <2>2, NoBodies
  <2>3. ASSUME NEW v \in Pos, NEW ts, Quiet(ts), todo' = ts \o Set("inner", 1, v) PROVE NoBody(todo')
    <3>1. v \in Nat /\ 1 \in Pos
      BY DEF Pos
    <3>2. Plain(Set("inner", 1, v), v)
      BY <2>1, <3>1, SetIs DEF Pads
    <3>3. Set("inner", 1, v) \in Seq(Tasks) /\ ts \in Seq(Tasks) /\ NoBody(ts) /\ NoBody(Set("inner", 1, v))
      BY <2>3, <3>2, NoBodies DEF Plain, Quiet
    <3> QED
      BY <2>3, <3>3, NoBodies
  <2> QED
    BY <1>2, <2>1, <2>2, <2>3 DEF IterateLeaves
<1>8. CASE DoRelease
  <2> DEFINE a == The
             c == << Body(a), Release(a), Finish(a) >>
             e == << >>
             f == << Finish(a) >>
             d == Releases(heap[a].items)
  <2>1. a \in Pos /\ a \in DOMAIN heap /\ heap[a] \in CellType /\ todo # << >> /\ Next
    BY <1>8, ReleasedIs DEF DoRelease, Next, Task
  <2>2. heap[a].items \in Seq(Nat)
    BY <2>1 DEF CellType, Pos
  <2>3. Quiet(d) /\ Quiet(e)
    BY <2>2, QuietAre
  <2>4. NoBody(d) /\ NoBody(e) /\ d \in Seq(Tasks) /\ e \in Seq(Tasks) /\ f \in Seq(Tasks) /\ c \in Seq(Tasks)
    BY <2>1, <2>3, CalmShort, NoBodies DEF Quiet, Calm
  <2>5. NoBody(f)
    <3>1. PICK t : t = Finish(a)
      OBVIOUS
    <3>2. t.do = "finish"
      BY <3>1 DEF Finish
    <3>3. f = << t >>
      BY <3>1
    <3> HIDE DEF f
    <3> QED
      BY <3>2, <3>3 DEF NoBody, Among
  <2>6. ASSUME NEW t, Among(t, c), t.do = "body" PROVE t.of = a
    <3> DEFINE x == Body(a)
               y == Release(a)
               z == Finish(a)
    <3>0. c = << x, y, z >>
      OBVIOUS
    <3> HIDE DEF c, x, y, z
    <3>a. DOMAIN c = 1..3 /\ c[1] = x /\ c[2] = y /\ c[3] = z
      BY <3>0
    <3>b. PICK i \in DOMAIN c : c[i] = t
      BY <2>6 DEF Among
    <3>c. i = 1 \/ i = 2 \/ i = 3
      BY <3>a, <3>b
    <3>1. t = Body(a) \/ t = Release(a) \/ t = Finish(a)
      BY <3>a, <3>b, <3>c DEF x, y, z
    <3>2. Body(a).of = a /\ Release(a).of = a /\ Finish(a).of = a
      BY DEF Body, Release, Finish
    <3> QED
      BY <3>1, <3>2
  <2>7. \/ todo' = e \o Tail(todo) \/ todo' = d \o Tail(todo) \/ todo' = f \o Tail(todo)
        \/ todo' = c \o Tail(todo) /\ heap[a].script # "none"
    BY <1>8 DEF DoRelease, Then
  <2>8. heap'[a].script = heap[a].script
    BY <2>1, ValuesFollow DEF Follows
  <2> HIDE DEF a, c, d, e, f
  <2>9. ASSUME NEW ts \in Seq(Tasks), NoBody(ts), todo' = ts \o Tail(todo) PROVE BodiesFit'
    BY <2>1, <2>9, BodiesThen DEF NoBody
  <2>10. CASE todo' = c \o Tail(todo) /\ heap[a].script # "none"
    BY <2>1, <2>4, <2>6, <2>8, <2>10, BodiesThen
  <2> QED
    BY <2>4, <2>5, <2>7, <2>9, <2>10
<1> QED
  BY <1>1, <1>3, <1>4, <1>5, <1>6, <1>7, <1>8 DEF Next, Task

Assigned ==
  /\ env \in [Pads -> Seq(Nat)] /\ Len(env.outer) = Outer
  /\ Len(env.inner) = IF frame.kind = "none" THEN 0 ELSE 1
  /\ frame.kind = "none" => pads.inner = << >>
  /\ Careful => IntIs(heap, env.outer[DestroyVar])

\* Each variable holds what was assigned to it last, or an assignment is under
\* way after which it does.
Holding == Assigned /\ \A p \in Pads : Parted(heap, p, todo, pads[p], env[p])

LEMMA AssignedOn ==
  ASSUME IInv, Assigned, Next, env' = env, frame'.kind = frame.kind,
         frame.kind = "none" => pads'.inner = pads.inner
  PROVE  Assigned'
BY IntsStay DEF Assigned

LEMMA EnvPut ==
  ASSUME env \in [Pads -> Seq(Nat)], NEW p \in Pads, NEW i \in DOMAIN env[p], NEW v \in Nat,
         NEW g, g = [env EXCEPT ![p][i] = v]
  PROVE  /\ g \in [Pads -> Seq(Nat)] /\ g[p] = [env[p] EXCEPT ![i] = v] /\ Len(g[p]) = Len(env[p])
         /\ \A q \in Pads : q # p => g[q] = env[q]
<1> DEFINE e == env[p]
           f == [e EXCEPT ![i] = v]
<1>1. e \in Seq(Nat) /\ Nat \cup {v} = Nat
  OBVIOUS
<1>2. g = [env EXCEPT ![p] = f]
  OBVIOUS
<1> HIDE DEF e
<1>3. f \in Seq(Nat)
  BY <1>1, PutSeq
<1>4. DOMAIN f = DOMAIN e
  OBVIOUS
<1> HIDE DEF f
<1>5. Len(f) = Len(e)
  BY <1>1, <1>3, <1>4
<1>6. g \in [Pads -> Seq(Nat)] /\ g[p] = f /\ \A q \in Pads : q # p => g[q] = env[q]
  BY <1>2, <1>3
<1> QED
  BY <1>5, <1>6 DEF e, f

\* A task that changes pad p.
LEMMA PadTask ==
  ASSUME IInv, Holding, Next, todo # << >>, NEW p \in Pads, Changer(Head(todo), p), NEW t \in Seq(Nat),
         pads' = [pads EXCEPT ![p] = t], env' = env, frame' = frame,
         NEW new, Quiet(new), todo' = new \o Tail(todo), DOMAIN env[p] # {},
         Parted(heap', p, todo', t, env[p])
  PROVE  Holding'
<1>1. pads \in [Pads -> Seq(Nat)] /\ todo \in Seq(Tasks) /\ new \in Seq(Tasks) /\ env \in [Pads -> Seq(Nat)]
  BY Shapes DEF IInv, Quiet, Holding, Assigned
<1>2. pads'[p] = t /\ \A q \in Pads : q # p => pads'[q] = pads[q]
  BY <1>1
<1>3. ASSUME frame.kind = "none" PROVE pads'.inner = pads.inner
  <2>1. p # "inner"
    <3>1. Len(env.inner) = 0 /\ env.inner \in Seq(Nat)
      BY <1>3 DEF Holding, Assigned, Pads
    <3>2. DOMAIN env.inner = {}
      BY <3>1
    <3> QED
      BY <3>2
  <2> QED
    BY <1>2, <2>1 DEF Pads
<1>4. Assigned'
  BY <1>3, AssignedOn DEF Holding
<1>5. \A r : IntIs(heap, r) => IntIs(heap', r)
  BY IntsStay
<1>6. ASSUME NEW q \in Pads, q # p PROVE Parted(heap', q, todo', pads'[q], env'[q])
  <2>1. pads[q] \in Seq(Nat) /\ env[q] \in Seq(Nat) /\ Parted(heap, q, todo, pads[q], env[q])
    BY <1>1 DEF Holding
  <2>2. ~Changer(Head(todo), q)
    BY <1>6 DEF Changer
  <2>3. NoneOf(new, q)
    BY QuietAre, CalmNone
  <2>4. \A x : Head(todo) # Release(x)
    <3>1. \A x : Release(x).do = "release"
      BY DEF Release
    <3>2. Head(todo).do # "release"
      BY DEF Changer
    <3> QED
      BY <3>1, <3>2
  <2> DEFINE s == pads[q]
             e == env[q]
  <2>5. s \in Seq(Nat) /\ e \in Seq(Nat) /\ Parted(heap, q, todo, s, e)
    BY <2>1
  <2> HIDE DEF s, e
  <2>6. Parted(heap', q, new \o Tail(todo), s, e)
    BY <1>1, <1>5, <2>2, <2>3, <2>4, <2>5, PartedOn
  <2> QED
    BY <1>2, <1>6, <2>6 DEF s, e
<1>7. \A q \in Pads : Parted(heap', q, todo', pads'[q], env'[q])
  BY <1>2, <1>6
<1> QED
  BY <1>4, <1>7 DEF Holding

\* The assignment to the pad that is about to change.
Underway(p, s, e, b, rest) ==
  /\ p \in Pads /\ s = pads[p] /\ e = env[p] /\ s \in Seq(Nat) /\ e \in Seq(Nat)
  /\ b \in Seq(Tasks) /\ rest \in Seq(Tasks) /\ b # << >> /\ NoneOf(rest, p)
  /\ Head(todo) = Head(b) /\ Tail(todo) = Tail(b) \o rest /\ Assigning(heap, p, b, s, e)

LEMMA PadFirst ==
  ASSUME IInv, Holding, todo # << >>, Head(todo).do \in {"shift", "shrink", "insert"}
  PROVE  \E p, s, e, b, rest : Underway(p, s, e, b, rest) /\ Changer(Head(todo), p) /\ p = Head(todo).pad
<1> DEFINE p == Head(todo).pad
           s == pads[p]
           e == env[p]
<1>1. p \in Pads /\ todo \in Seq(Tasks) /\ pads \in [Pads -> Seq(Nat)] /\ env \in [Pads -> Seq(Nat)]
  BY HeadIs, Shapes DEF TaskShape, IInv, Holding, Assigned
<1>2. Changer(Head(todo), p)
  BY DEF Changer
<1> HIDE DEF p
<1>3. s \in Seq(Nat) /\ e \in Seq(Nat) /\ Parted(heap, p, todo, s, e)
  BY <1>1 DEF Holding
<1>4. s = pads[p] /\ e = env[p]
  OBVIOUS
<1> HIDE DEF s, e
<1>5. PICK b \in Seq(Tasks), rest \in Seq(Tasks) :
        /\ Head(todo) = Head(b) /\ Tail(todo) = Tail(b) \o rest /\ b # << >>
        /\ NoneOf(rest, p) /\ Assigning(heap, p, b, s, e)
  BY <1>1, <1>2, <1>3, PartedFirst
<1>6. Underway(p, s, e, b, rest)
  BY <1>1, <1>3, <1>4, <1>5 DEF Underway
<1> QED
  BY <1>2, <1>6 DEF p

\* What is left of the assignment when what was dropped is put before it.
LEMMA PartedAfter ==
  ASSUME NEW g, NEW p, NEW t, NEW e, NEW new \in Seq(Tasks), NoneOf(new, p), NEW b \in Seq(Tasks),
         NEW rest \in Seq(Tasks), NoneOf(rest, p), Assigning(g, p, b, t, e), Leads(g, p, new, t)
  PROVE  Parted(g, p, new \o (b \o rest), t, e)
BY DEF Parted

\* What a move drops.
LEMMA DroppedLeads ==
  ASSUME NEW g, NEW p, NEW t, NEW x \in Nat, p = "outer" /\ Careful => Harmless(g, t, x)
  PROVE  Quiet(Releases(<< x >>)) /\ Leads(g, p, Releases(<< x >>), t)
<1> DEFINE one == << x >>
<1>1. one \in Seq(Nat)
  OBVIOUS
<1>2. Releases(one) = IF x = Undef THEN << >> ELSE << Release(x) >>
  BY FewReleases
<1> HIDE DEF one
<1>3. Quiet(Releases(one))
  BY <1>1, QuietAre
<1>4. CASE x = Undef
  <2>1. Releases(one) = << >>
    BY <1>2, <1>4
  <2>2. Leads(g, p, Releases(one), t)
    BY <2>1 DEF Leads
  <2> QED
    BY <1>3, <2>2 DEF one
<1>5. CASE x # Undef
  <2>1. Releases(one) = << Release(x) >> /\ x \in Pos
    BY <1>2, <1>5 DEF Undef, Pos
  <2> DEFINE rs == Releases(one)
  <2>2. rs = << Release(x) >>
    BY <2>1
  <2> HIDE DEF rs
  <2>3. Leads(g, p, rs, t)
    BY <2>1, <2>2 DEF Leads
  <2> QED
    BY <1>3, <2>3 DEF one, rs
<1> QED
  BY <1>4, <1>5

\* Where a move stands.
MovingAt(h, p, b, s, e, i, v, c) ==
  /\ i \in DOMAIN e /\ v \in Nat /\ i \in Pos /\ c \in Pos /\ i <= c /\ c <= Len(s) /\ c \in 1..Len(s)
  /\ ToMove(s, e, c, i, v) /\ (p = "outer" /\ Careful => Spare(h, s, c, i))
  /\ c < Len(s) => Head(b) = Shift(p, c) /\ \A d : d = c + 1 => Remaining(Tail(b), p, d, i, v, Len(s))
  /\ c = Len(s) => Head(b) = Shrink(p) /\ Tail(b) = Alone(InsertTask(p, i, v))

LEMMA MovingIs ==
  ASSUME NEW h, NEW p, NEW b \in Seq(Tasks), NEW s \in Seq(Nat), NEW e \in Seq(Nat), Moving(h, p, b, s, e)
  PROVE  \E i, v, c : MovingAt(h, p, b, s, e, i, v, c)
<1>1. PICK i \in DOMAIN e, v \in Nat : \E c \in i..Len(s) :
        /\ Remaining(b, p, c, i, v, Len(s)) /\ ToMove(s, e, c, i, v)
        /\ p = "outer" /\ Careful => Spare(h, s, c, i)
  BY DEF Moving
<1>2. PICK c \in i..Len(s) :
        /\ Remaining(b, p, c, i, v, Len(s)) /\ ToMove(s, e, c, i, v)
        /\ p = "outer" /\ Careful => Spare(h, s, c, i)
  BY <1>1
<1>3. i \in Pos /\ c \in Pos /\ Len(s) \in Nat /\ c <= Len(s) /\ i <= c /\ c \in 1..Len(s)
  BY <1>2 DEF Pos
<1>4. PICK l \in Nat : l = Len(s)
  BY <1>3
<1>5. Remaining(b, p, c, i, v, l) /\ c <= l
  BY <1>2, <1>3, <1>4
<1>6. /\ c < l => Head(b) = Shift(p, c) /\ \A d : d = c + 1 => Remaining(Tail(b), p, d, i, v, l)
      /\ c = l => Head(b) = Shrink(p) /\ Tail(b) = Alone(InsertTask(p, i, v))
  <2>1. c < l => Head(b) = Shift(p, c) /\ \A d : d = c + 1 => Remaining(Tail(b), p, d, i, v, l)
    BY <1>3, <1>5, RemainingHead
  <2>2. c = l => Head(b) = Shrink(p) /\ Tail(b) = Alone(InsertTask(p, i, v))
    <3> HAVE c = l
    <3>1. Remaining(b, p, l, i, v, l)
      BY <1>5
    <3> QED
      BY <3>1, RemainingLast
  <2> QED
    BY <2>1, <2>2
<1>7. MovingAt(h, p, b, s, e, i, v, c)
  <2>1. /\ c < Len(s) => Head(b) = Shift(p, c) /\ \A d : d = c + 1 => Remaining(Tail(b), p, d, i, v, Len(s))
        /\ c = Len(s) => Head(b) = Shrink(p) /\ Tail(b) = Alone(InsertTask(p, i, v))
    BY <1>4, <1>6
  <2> QED
    BY <1>2, <1>3, <2>1 DEF MovingAt
<1> QED
  BY <1>7

LEMMA ShiftHolds ==
  ASSUME IInv, Holding, DoShift
  PROVE  Holding'
<1>1. todo # << >> /\ Head(todo).do = "shift" /\ env' = env /\ frame' = frame /\ Next
  BY DEF DoShift, Busy, Next, Task
<1>2. PICK p, s, e, b, rest : Underway(p, s, e, b, rest) /\ Changer(Head(todo), p) /\ p = Head(todo).pad
  BY <1>1, PadFirst
<1>3. /\ p \in Pads /\ s = pads[p] /\ e = env[p] /\ s \in Seq(Nat) /\ e \in Seq(Nat)
      /\ b \in Seq(Tasks) /\ rest \in Seq(Tasks) /\ b # << >> /\ NoneOf(rest, p) /\ pads \in [Pads -> Seq(Nat)]
      /\ Head(todo) = Head(b) /\ Tail(todo) = Tail(b) \o rest /\ Assigning(heap, p, b, s, e)
  BY <1>2, Shapes DEF Underway, IInv
<1> DEFINE a == Head(todo).at
           t == [s EXCEPT ![a] = s[a + 1]]
           x == s[a]
           new == Releases(<< x >>)
<1>4. pads' = [pads EXCEPT ![p] = t] /\ todo' = new \o Tail(todo)
  BY <1>2, <1>3 DEF DoShift, Then
<1>5. ~Inserting(p, b, s, e)
  <2> SUFFICES ASSUME Inserting(p, b, s, e) PROVE FALSE
    OBVIOUS
  <2>1. PICK y : b = << y >> /\ y.do = "insert"
    BY DEF Inserting, InsertTask
  <2> QED
    BY <1>1, <1>3, <2>1
<1>6. PICK i, v, c : MovingAt(heap, p, b, s, e, i, v, c)
  BY <1>3, <1>5, MovingIs DEF Assigning
<1>7. ToMove(s, e, c, i, v) /\ (p = "outer" /\ Careful => Spare(heap, s, c, i))
  BY <1>6 DEF MovingAt
<1>8. /\ i \in Pos /\ c \in Pos /\ Len(s) \in Nat /\ c <= Len(s) /\ i <= c /\ c \in 1..Len(s)
      /\ i \in DOMAIN e /\ v \in Nat
  BY <1>3, <1>6 DEF MovingAt
<1>9. /\ c < Len(s) => Head(b) = Shift(p, c) /\ \A d : d = c + 1 => Remaining(Tail(b), p, d, i, v, Len(s))
      /\ c = Len(s) => Head(b) = Shrink(p)
  BY <1>6 DEF MovingAt
<1>10. c < Len(s)
  <2>1. Shrink(p).do = "shrink"
    BY DEF Shrink
  <2>2. c # Len(s)
    BY <1>1, <1>3, <1>9, <2>1
  <2> QED
    BY <1>8, <2>2 DEF Pos
<1>11. a = c
  BY <1>3, <1>9, <1>10 DEF Shift
<1> HIDE DEF a
<1> DEFINE d == c + 1
<1>12. d = c + 1 /\ Remaining(Tail(b), p, d, i, v, Len(s)) /\ d \in i..Len(s) /\ Tail(b) \in Seq(Tasks)
  BY <1>3, <1>8, <1>9, <1>10, HeadTail DEF Pos
<1> HIDE DEF d
<1>13. t = [s EXCEPT ![c] = s[c + 1]]
  BY <1>11
<1> HIDE DEF t
<1>14. t \in Seq(Nat) /\ Len(t) = Len(s) /\ ToMove(t, e, d, i, v) /\ Spare(heap', t, d, i)
  <2>1. ToMove(s, e, c, i, v) /\ s \in Seq(Nat) /\ e \in Seq(Nat) /\ i \in Pos /\ c \in Pos /\ i <= c /\ c < Len(s)
    BY <1>3, <1>7, <1>8, <1>10
  <2>2. d = c + 1
    BY <1>12
  <2>3. \A h : t \in Seq(Nat) /\ Len(t) = Len(s) /\ ToMove(t, e, d, i, v) /\ Spare(h, t, d, i)
    <3> TAKE h
    <3>1. c \in Pos /\ i \in Pos /\ Placed(s, c, s[d], t)
      BY <1>8, <1>13, <2>2 DEF Placed
    <3> QED
      BY <2>1, <2>2, <3>1, Moved1
  <2> QED
    BY <2>3
<1>15. Assigning(heap', p, Tail(b), t, e)
  BY <1>8, <1>12, <1>14 DEF Assigning, Moving
<1>16. x \in Nat /\ x = s[c]
  BY SMTT(40), <1>3, <1>8, <1>11
<1> HIDE DEF x
<1>17. ASSUME p = "outer", Careful PROVE Harmless(heap', t, x)
  <2>1. CASE c = i
    <3>1. IntIs(heap, x)
      BY <1>7, <1>16, <1>17, <2>1 DEF Spare
    <3> QED
      BY <1>1, <3>1, IntsStay DEF Harmless
  <2>2. CASE c # i
    <3> DEFINE j == c - 1
    <3>0. c \in Nat /\ i \in Nat /\ i # 0 /\ i <= c /\ c <= Len(s) /\ Len(s) \in Nat /\ Len(t) = Len(s)
      BY <1>3, <1>8, <1>14 DEF Pos
    <3>a. j \in 1..Len(s) /\ j # c
      BY <2>2, <3>0
    <3>b. DOMAIN s = 1..Len(s) /\ DOMAIN t = 1..Len(s)
      BY <1>8, <1>14
    <3>1. j \in DOMAIN t /\ j # c /\ j \in DOMAIN s /\ DOMAIN s = 1..Len(s)
      BY <3>a, <3>b
    <3>2. s[j] = x
      BY <1>7, <1>16, <1>17, <2>2 DEF Spare
    <3> HIDE DEF j
    <3>3. t[j] = x
      BY <1>3, <1>13, <3>1, <3>2
    <3> QED
      BY <3>1, <3>3 DEF Harmless
  <2> QED
    BY <2>1, <2>2
<1>18. Quiet(new) /\ Leads(heap', p, new, t)
  BY <1>16, <1>17, DroppedLeads
<1> HIDE DEF new
<1>19. new \in Seq(Tasks) /\ NoneOf(new, p)
  BY <1>18, QuietAre, CalmNone
<1>20. Parted(heap', p, new \o (Tail(b) \o rest), t, e)
  BY <1>3, <1>12, <1>15, <1>18, <1>19, PartedAfter
<1>21. DOMAIN env[p] # {}
  BY <1>3, <1>8
<1> QED
  BY <1>1, <1>2, <1>3, <1>4, <1>14, <1>18, <1>20, <1>21, PadTask

LEMMA ShrinkHolds ==
  ASSUME IInv, Holding, DoShrink
  PROVE  Holding'
<1>1. todo # << >> /\ Head(todo).do = "shrink" /\ env' = env /\ frame' = frame /\ Next
  BY DEF DoShrink, Busy, Next, Task
<1>2. PICK p, s, e, b, rest : Underway(p, s, e, b, rest) /\ Changer(Head(todo), p) /\ p = Head(todo).pad
  BY <1>1, PadFirst
<1>3. /\ p \in Pads /\ s = pads[p] /\ e = env[p] /\ s \in Seq(Nat) /\ e \in Seq(Nat)
      /\ b \in Seq(Tasks) /\ rest \in Seq(Tasks) /\ b # << >> /\ NoneOf(rest, p) /\ pads \in [Pads -> Seq(Nat)]
      /\ Head(todo) = Head(b) /\ Tail(todo) = Tail(b) \o rest /\ Assigning(heap, p, b, s, e)
  BY <1>2, Shapes DEF Underway, IInv
<1> DEFINE t == Front(s)
           x == Last(s)
           new == Releases(<< x >>)
<1>4. pads' = [pads EXCEPT ![p] = t] /\ todo' = new \o Tail(todo) /\ s # << >>
  BY <1>2, <1>3 DEF DoShrink, Then
<1>5. ~Inserting(p, b, s, e)
  <2> SUFFICES ASSUME Inserting(p, b, s, e) PROVE FALSE
    OBVIOUS
  <2>1. PICK y : b = << y >> /\ y.do = "insert"
    BY DEF Inserting, InsertTask
  <2> QED
    BY <1>1, <1>3, <2>1
<1>6. PICK i, v, c : MovingAt(heap, p, b, s, e, i, v, c)
  BY <1>3, <1>5, MovingIs DEF Assigning
<1>7. ToMove(s, e, c, i, v) /\ (p = "outer" /\ Careful => Spare(heap, s, c, i))
  BY <1>6 DEF MovingAt
<1>8. /\ i \in Pos /\ c \in Pos /\ Len(s) \in Nat /\ c <= Len(s) /\ i <= c /\ c \in 1..Len(s)
      /\ i \in DOMAIN e /\ v \in Nat
  BY <1>3, <1>6 DEF MovingAt
<1>9. c = Len(s)
  <2>1. c < Len(s) => Head(b) = Shift(p, c)
    BY <1>6 DEF MovingAt
  <2>2. Shift(p, c).do = "shift"
    BY DEF Shift
  <2>3. ~(c < Len(s))
    BY <1>1, <1>3, <2>1, <2>2
  <2> QED
    BY <1>8, <2>3 DEF Pos
<1>10. Tail(b) = Alone(InsertTask(p, i, v)) /\ Tail(b) \in Seq(Tasks)
  <2>1. Tail(b) = Alone(InsertTask(p, i, v))
    BY <1>6, <1>9 DEF MovingAt
  <2>2. Tail(b) \in Seq(Tasks)
    BY <1>3, HeadTail
  <2> QED
    BY <2>1, <2>2
<1>11. /\ t \in Seq(Nat) /\ Len(t) = Len(s) - 1 /\ \A m \in 1..Len(s) - 1 : t[m] = s[m]
  <2>1. PICK f : f = Front(s)
    OBVIOUS
  <2>2. s \in Seq(Nat) /\ s # << >>
    BY <1>3, <1>4
  <2>3. /\ f \in Seq(Nat) /\ Len(f) = Len(s) - 1 /\ \A m \in 1..Len(s) - 1 : f[m] = s[m]
    BY <2>1, <2>2, FrontIs
  <2> QED
    BY <2>1, <2>3
<1>12. x = s[c] /\ x \in Nat
  <2>1. s[c] \in Nat
    BY SMTT(40), <1>3, <1>8
  <2> QED
    BY <1>9, <2>1 DEF Last
<1>13. ToInsert(t, e, i, v)
  <2>1. ToMove(s, e, Len(s), i, v) /\ i <= Len(s)
    BY <1>7, <1>8, <1>9
  <2> QED
    BY <1>3, <1>8, <2>1, Moved2
<1> HIDE DEF t, x
<1>14. Assigning(heap', p, Tail(b), t, e)
  <2>1. Inserting(p, Tail(b), t, e)
    BY <1>8, <1>10, <1>13 DEF Inserting, Alone
  <2> QED
    BY <2>1 DEF Assigning
<1>15. ASSUME p = "outer", Careful PROVE Harmless(heap', t, x)
  <2>1. CASE c = i
    <3>1. IntIs(heap, x)
      BY <1>7, <1>12, <1>15, <2>1 DEF Spare
    <3> QED
      BY <1>1, <3>1, IntsStay DEF Harmless
  <2>2. CASE c # i
    <3> DEFINE j == c - 1
    <3>1. j \in 1..Len(s) - 1 /\ DOMAIN t = 1..Len(s) - 1
      BY <1>8, <1>9, <1>11, <2>2 DEF Pos
    <3>2. s[j] = x
      BY <1>7, <1>12, <1>15, <2>2 DEF Spare
    <3> HIDE DEF j
    <3>3. t[j] = x
      BY <1>11, <3>1, <3>2
    <3> QED
      BY <3>1, <3>3 DEF Harmless
  <2> QED
    BY <2>1, <2>2
<1>16. Quiet(new) /\ Leads(heap', p, new, t)
  BY <1>12, <1>15, DroppedLeads
<1> HIDE DEF new
<1>17. new \in Seq(Tasks) /\ NoneOf(new, p)
  BY <1>16, QuietAre, CalmNone
<1>18. Parted(heap', p, new \o (Tail(b) \o rest), t, e)
  BY <1>3, <1>10, <1>14, <1>16, <1>17, PartedAfter
<1>19. DOMAIN env[p] # {}
  BY <1>3, <1>8
<1> QED
  BY <1>1, <1>2, <1>3, <1>4, <1>11, <1>16, <1>18, <1>19, PadTask

LEMMA InsertHolds ==
  ASSUME IInv, Holding, DoInsert
  PROVE  Holding'
<1>1. todo # << >> /\ Head(todo).do = "insert" /\ env' = env /\ frame' = frame /\ Next
  BY DEF DoInsert, Busy, Next, Task
<1>2. PICK p, s, e, b, rest : Underway(p, s, e, b, rest) /\ Changer(Head(todo), p) /\ p = Head(todo).pad
  BY <1>1, PadFirst
<1>3. /\ p \in Pads /\ s = pads[p] /\ e = env[p] /\ s \in Seq(Nat) /\ e \in Seq(Nat)
      /\ b \in Seq(Tasks) /\ rest \in Seq(Tasks) /\ b # << >> /\ NoneOf(rest, p) /\ pads \in [Pads -> Seq(Nat)]
      /\ Head(todo) = Head(b) /\ Tail(todo) = Tail(b) \o rest /\ Assigning(heap, p, b, s, e)
  BY <1>2, Shapes DEF Underway, IInv
<1> DEFINE k == Head(todo).at
           w == The
           t == InsertAt(Filled(s, k), k, w)
           new == << >>
<1>4. pads' = [pads EXCEPT ![p] = t] /\ todo' = new \o Tail(todo)
  BY <1>2, <1>3 DEF DoInsert, Then, Filled
<1>5. ~Moving(heap, p, b, s, e)
  <2> SUFFICES ASSUME Moving(heap, p, b, s, e) PROVE FALSE
    OBVIOUS
  <2>1. PICK i, v, c : MovingAt(heap, p, b, s, e, i, v, c)
    BY <1>3, MovingIs
  <2>2. c < Len(s) \/ c = Len(s)
    BY <1>3, <2>1 DEF MovingAt
  <2>3. Head(b) = Shift(p, c) \/ Head(b) = Shrink(p)
    BY <2>1, <2>2 DEF MovingAt
  <2>4. Shift(p, c).do = "shift" /\ Shrink(p).do = "shrink"
    BY DEF Shift, Shrink
  <2> QED
    BY <1>1, <1>3, <2>3, <2>4
<1>6. PICK i \in DOMAIN e, v \in Nat : b = << InsertTask(p, i, v) >> /\ ToInsert(s, e, i, v)
  BY <1>3, <1>5 DEF Assigning, Inserting
<1>7. i \in Pos
  BY <1>3 DEF Pos
<1>8. Head(b) = InsertTask(p, i, v) /\ Tail(b) = << >>
  <2> DEFINE y == InsertTask(p, i, v)
  <2>1. b = << y >>
    BY <1>6
  <2> HIDE DEF y
  <2>2. Head(b) = y /\ Tail(b) = << >>
    BY <2>1
  <2> QED
    BY <2>2 DEF y
<1>9. k = i /\ w = v
  BY <1>3, <1>8 DEF InsertTask, The
<1> HIDE DEF k, w
<1>10. t = InsertAt(Filled(s, i), i, v)
  BY <1>9
<1> HIDE DEF t
<1>11. t \in Seq(Nat) /\ Fits(t, e)
  BY <1>3, <1>6, <1>7, <1>10, Moved3
<1>12. Quiet(new)
  BY QuietAre
<1>13. todo' = rest
  <2>1. << >> \o rest = rest
    BY <1>3
  <2>2. Tail(todo) = << >> \o rest
    BY <1>3, <1>8
  <2>3. todo' = << >> \o Tail(todo)
    BY <1>4
  <2> QED
    BY <2>1, <2>2, <2>3
<1> HIDE DEF new
<1>14. Parted(heap', p, todo', t, e)
  BY <1>3, <1>11, <1>13 DEF Parted
<1>15. DOMAIN env[p] # {}
  BY <1>3, <1>6
<1> QED
  BY <1>1, <1>2, <1>3, <1>4, <1>11, <1>12, <1>14, <1>15, PadTask

\* A task that changes no pad and assigns nothing.
LEMMA OtherTask ==
  ASSUME IInv, Holding, Next, todo # << >>, \A p : ~Changer(Head(todo), p),
         pads' = pads, env' = env, frame' = frame,
         NEW new \in Seq(Tasks), \A p : NoneOf(new, p), todo' = new \o Tail(todo),
         \A x \in Pos : Careful /\ Head(todo) = Release(x) /\ Harmless(heap, pads.outer, x) => new = << >>
  PROVE  Holding'
<1>1. pads \in [Pads -> Seq(Nat)] /\ todo \in Seq(Tasks) /\ env \in [Pads -> Seq(Nat)]
  BY Shapes DEF IInv, Holding, Assigned
<1>2. Assigned'
  BY AssignedOn DEF Holding
<1>3. \A r : IntIs(heap, r) => IntIs(heap', r)
  BY IntsStay
<1>4. ASSUME NEW q \in Pads PROVE Parted(heap', q, todo', pads[q], env[q])
  <2> DEFINE s == pads[q]
             e == env[q]
  <2>1. s \in Seq(Nat) /\ e \in Seq(Nat) /\ Parted(heap, q, todo, s, e) /\ (q = "outer" => s = pads.outer)
    BY <1>1 DEF Holding
  <2> HIDE DEF s, e
  <2>2. Parted(heap', q, new \o Tail(todo), s, e)
    BY <1>1, <1>3, <2>1, PartedOn
  <2> QED
    BY <2>2 DEF s, e
<1> QED
  BY <1>2, <1>4 DEF Holding

LEMMA FinishHolds ==
  ASSUME IInv, Holding, DoFinish
  PROVE  Holding'
<1>1. CASE Finishes
  <2>1. PICK new : Quiet(new) /\ todo' = new \o Tail(todo)
    BY <1>1, TaskQuiet
  <2>2. new \in Seq(Tasks) /\ \A p : NoneOf(new, p)
    BY <2>1, QuietAre, CalmNone
  <2>3. /\ todo # << >> /\ Head(todo).do = "finish" /\ pads' = pads /\ env' = env /\ frame' = frame /\ Next
    BY DEF DoFinish, Busy, Next, Task
  <2>4. (\A p : ~Changer(Head(todo), p)) /\ \A x : Head(todo) # Release(x)
    <3>1. \A x : Release(x).do = "release"
      BY DEF Release
    <3> QED
      BY <2>3, <3>1 DEF Changer
  <2> QED
    BY <2>1, <2>2, <2>3, <2>4, OtherTask
<1>2. CASE ~Finishes
  <2>1. heap' = heap /\ todo' = todo /\ pads' = pads /\ env' = env /\ frame' = frame
    BY <1>2 DEF DoFinish, Finishes
  <2> QED
    BY <2>1 DEF Holding, Assigned
<1> QED
  BY <1>1, <1>2

\* What a variable refers to is not dropped by the release that follows a move.
LEMMA ReleaseHolds ==
  ASSUME IInv, Holding, CellsFit, DoRelease
  PROVE  Holding'
<1> DEFINE a == The
<1>1. /\ Busy("release") /\ todo # << >> /\ Head(todo).do = "release" /\ pads' = pads /\ env' = env
      /\ frame' = frame /\ Next
  BY DEF DoRelease, Busy, Next, Task
<1>2. PICK new : Calm(new) /\ todo' = new \o Tail(todo)
  BY TaskLeaves
<1>3. new \in Seq(Tasks) /\ \A p : NoneOf(new, p)
  BY <1>2, CalmNone
<1>4. \A p : ~Changer(Head(todo), p)
  BY <1>1 DEF Changer
<1>5. a \in Pos /\ a \in DOMAIN heap /\ heap[a].live /\ Head(todo) = Release(a) /\ heap[a] \in CellType
  BY <1>1, ReleasedIs
<1>6. ASSUME NEW x \in Pos, Head(todo) = Release(x), Harmless(heap, pads.outer, x)
      PROVE  todo' = << >> \o Tail(todo)
  <2>1. x = a
    <3>1. Release(x).of = x /\ Release(a).of = a
      BY DEF Release
    <3> QED
      BY <1>5, <1>6, <3>1
  <2>2. CASE ~IsLast(a)
    BY <2>2 DEF DoRelease, Then
  <2>3. CASE IsLast(a)
    <3>1. ASSUME NEW j \in DOMAIN pads.outer, pads.outer[j] = a PROVE FALSE
      <4>1. Summed(a) /\ Count(heap, a) = 1
        BY <1>5, <2>3, Counts DEF Count, IsLast
      <4>2. Occurrences(pads.outer, a) # 0 /\ Occurrences(todo, Release(a)) # 0
        <5>1. pads.outer \in Seq(Nat) /\ todo \in Seq(Tasks) /\ 1 \in DOMAIN todo /\ todo[1] = Release(a)
          BY <1>1, <1>5, HeadIs, Shapes DEF IInv
        <5> DEFINE tk == Release(a)
                   s == pads.outer
        <5>2. s \in Seq(Nat) /\ j \in DOMAIN s /\ s[j] = a /\ todo[1] = tk
          BY <3>1, <5>1
        <5> HIDE DEF tk, s
        <5>3. Occurrences(s, a) # 0
          BY <5>2, OccAbsent
        <5>4. Occurrences(todo, tk) # 0
          BY <5>1, <5>2, OccAbsent
        <5> QED
          BY <5>3, <5>4 DEF tk, s
      <4> DEFINE o == Occurrences(pads.outer, a)
                 n == Occurrences(pads.inner, a)
                 m == Occurrences(stack, a)
                 f == One(frame.cur, a) + One(frame.of, a)
                 u == Occurrences(todo, Release(a))
                 g == Holds(heap, a)
      <4>3. 1 = o + n + m + f + u + g /\ o \in Nat /\ n \in Nat /\ m \in Nat /\ f \in Nat /\ u \in Nat /\ g \in Nat
            /\ o # 0 /\ u # 0
        <5>1. One(frame.cur, a) \in Nat /\ One(frame.of, a) \in Nat
          BY <4>1 DEF Summed
        <5>2. f \in Nat
          BY <5>1
        <5> QED
          BY <4>1, <4>2, <5>2 DEF Summed
      <4> HIDE DEF o, n, m, f, u, g
      <4> QED
        BY <4>3
    <3>2. IntIs(heap, a)
      BY <1>6, <2>1, <3>1 DEF Harmless
    <3>3. heap[a].type = "int" /\ heap[a].items = << >>
      BY <1>5, <3>2 DEF IntIs, Undef, Pos, CellsFit, CellFits
    <3>4. todo' = Releases(heap[a].items) \o Tail(todo)
      BY <2>3, <3>3 DEF DoRelease, CallsDestroy, Then
    <3> QED
      BY <3>3, <3>4, FewReleases
  <2> QED
    BY <2>2, <2>3
<1>7. CASE \E x \in Pos : Head(todo) = Release(x) /\ Harmless(heap, pads.outer, x)
  <2> DEFINE none == << >>
  <2>1. none \in Seq(Tasks) /\ (\A p : NoneOf(none, p)) /\ todo' = none \o Tail(todo) /\ none = << >>
    BY <1>6, <1>7, CalmNone
  <2> HIDE DEF none
  <2> QED
    BY <1>1, <1>4, <2>1, OtherTask
<1>8. CASE ~\E x \in Pos : Head(todo) = Release(x) /\ Harmless(heap, pads.outer, x)
  BY <1>1, <1>2, <1>3, <1>4, <1>8, OtherTask
<1> QED
  BY <1>7, <1>8

LEMMA SetNone ==
  ASSUME pads \in [Pads -> Seq(Nat)], NEW p \in Pads, NEW i \in Pos, NEW v \in Nat
  PROVE  Set(p, i, v) \in Seq(Tasks) /\ \A q : q # p => NoneOf(Set(p, i, v), q)
<1> DEFINE b == Set(p, i, v)
<1>1. SetOf(b, p, i, v)
  BY SetEnds
<1> HIDE DEF b
<1>2. b \in Seq(Tasks) /\ \A q : q # p => NoneOf(b, q)
  BY <1>1 DEF SetOf, NoneOf, Changer
<1> QED
  BY <1>2 DEF b

\* An assignment begins when none is under way.
LEMMA SetBegins ==
  ASSUME IInv, Holding, Next, \A q : NoneOf(todo, q), NEW p \in Pads, NEW i \in DOMAIN env[p], NEW v \in Pos,
         pads' = pads, env' = [env EXCEPT ![p][i] = v], frame'.kind = frame.kind,
         NEW ts, Quiet(ts), todo' = ts \o Set(p, i, v),
         p = "outer" /\ Careful => ts = << >> /\ Begins(heap', pads[p], i) /\ (i = DestroyVar => IntIs(heap', v))
  PROVE  Holding'
<1>1. /\ pads \in [Pads -> Seq(Nat)] /\ todo \in Seq(Tasks) /\ env \in [Pads -> Seq(Nat)]
      /\ env[p] \in Seq(Nat) /\ v \in Nat /\ ts \in Seq(Tasks)
  BY Shapes DEF IInv, Holding, Assigned, Pos, Quiet
<1>2. i \in Pos
  BY SMTT(40), <1>1 DEF Pos
<1>3. /\ env' \in [Pads -> Seq(Nat)] /\ env'[p] = [env[p] EXCEPT ![i] = v] /\ Len(env'[p]) = Len(env[p])
      /\ \A q \in Pads : q # p => env'[q] = env[q]
  BY SMTT(40), <1>1, EnvPut
<1> DEFINE b == Set(p, i, v)
           none == << >>
<1>4. b \in Seq(Tasks) /\ \A q : q # p => NoneOf(b, q)
  BY <1>1, <1>2, SetNone
<1>5. none \in Seq(Tasks) /\ \A q : NoneOf(none, q) /\ NoneOf(ts, q)
  BY QuietAre, CalmNone
<1>6. ASSUME NEW q \in Pads PROVE Fits(pads[q], env[q])
  <2> DEFINE s == pads[q]
             e == env[q]
  <2>1. s \in Seq(Nat) /\ e \in Seq(Nat) /\ Parted(heap, q, todo, s, e)
    BY <1>1 DEF Holding
  <2> HIDE DEF s, e
  <2>2. Fits(s, e)
    BY <1>1, <2>1, PartedNone
  <2> QED
    BY <2>2 DEF s, e
<1>7. Parted(heap', p, todo', pads[p], env'[p])
  <2> DEFINE s == pads[p]
             e == env'[p]
  <2>1. Fits(pads[p], env[p])
    BY <1>6
  <2>2. Assigning(heap', p, b, s, e)
    BY <1>1, <1>2, <1>3, <2>1, SetAssigns
  <2>3. Leads(heap', p, ts, s)
    BY DEF Leads
  <2> HIDE DEF b, s, e
  <2>4. todo' = ts \o (b \o none)
    <3>1. b \o << >> = b
      BY <1>4
    <3> QED
      BY <3>1 DEF b
  <2> HIDE DEF none
  <2>5. Parted(heap', p, ts \o (b \o none), s, e)
    BY <1>1, <1>4, <1>5, <2>2, <2>3, PartedAfter
  <2> QED
    BY <2>4, <2>5 DEF s, e
<1>8. ASSUME NEW q \in Pads, q # p PROVE Parted(heap', q, todo', pads[q], env'[q])
  <2>1. NoneOf(ts \o b, q)
    BY <1>1, <1>4, <1>5, <1>8, NoneConcat
  <2> QED
    BY <1>3, <1>6, <1>8, <2>1 DEF Parted
<1>9. ASSUME Careful PROVE IntIs(heap', env'.outer[DestroyVar])
  <2>1. IntIs(heap', env.outer[DestroyVar])
    BY <1>9, IntsStay DEF Holding, Assigned
  <2>2. CASE p # "outer"
    BY <1>3, <2>1, <2>2 DEF Pads
  <2>3. CASE p = "outer" /\ i = DestroyVar
    <3>1. env'.outer[DestroyVar] = v
      BY <1>3, <2>3
    <3> QED
      BY <1>9, <2>3, <3>1
  <2>4. CASE p = "outer" /\ i # DestroyVar
    <3>1. env'.outer[DestroyVar] = env.outer[DestroyVar]
      <4>1. env'.outer = [env.outer EXCEPT ![i] = v]
        BY <1>3, <2>4
      <4> QED
        BY <2>4, <4>1
    <3> QED
      BY <2>1, <3>1
  <2> QED
    BY <2>2, <2>3, <2>4
<1>10. Len(env'.outer) = Len(env.outer) /\ Len(env'.inner) = Len(env.inner)
  BY <1>3 DEF Pads
<1>11. Assigned'
  BY <1>3, <1>9, <1>10 DEF Assigned, Holding
<1> QED
  BY <1>7, <1>8, <1>11 DEF Holding

Enters ==
  /\ pads' = pads /\ frame.kind = "none" /\ frame'.kind \in {"block", "foreach"}
  /\ env' = [env EXCEPT !.inner = << Undef >>]

\* Steps between assignments.
LEMMA HoldsBetween ==
  ASSUME IInv, Holding, Next, \A p : NoneOf(todo, p) /\ NoneOf(todo', p),
         (pads' = pads /\ env' = env /\ frame'.kind = frame.kind) \/ Enters \/ DropFrame
  PROVE  Holding'
<1>1. pads \in [Pads -> Seq(Nat)] /\ todo \in Seq(Tasks) /\ env \in [Pads -> Seq(Nat)]
  BY Shapes DEF IInv, Holding, Assigned
<1>2. ASSUME NEW q \in Pads PROVE Fits(pads[q], env[q])
  <2> DEFINE s == pads[q]
             e == env[q]
  <2>1. s \in Seq(Nat) /\ e \in Seq(Nat) /\ Parted(heap, q, todo, s, e)
    BY <1>1 DEF Holding
  <2> HIDE DEF s, e
  <2>2. Fits(s, e)
    BY <1>1, <2>1, PartedNone
  <2> QED
    BY <2>2 DEF s, e
<1>3. SUFFICES Assigned' /\ \A q \in Pads : Fits(pads'[q], env'[q])
  BY DEF Holding, Parted
<1>4. \A r : IntIs(heap, r) => IntIs(heap', r)
  BY IntsStay
<1>5. CASE pads' = pads /\ env' = env /\ frame'.kind = frame.kind
  BY <1>2, <1>5, AssignedOn DEF Holding
<1>6. CASE Enters
  <2> DEFINE one == << Undef >>
  <2>1. one \in Seq(Nat) /\ Len(one) = 1 /\ DOMAIN one = {1} /\ one[1] = Undef
    BY DEF Undef
  <2>2. env' = [env EXCEPT !.inner = one]
    BY <1>6 DEF Enters
  <2> HIDE DEF one
  <2>3. env' \in [Pads -> Seq(Nat)] /\ env'.inner = one /\ env'.outer = env.outer
    BY <1>1, <2>1, <2>2 DEF Pads
  <2>4. pads' = pads /\ pads.inner = << >> /\ frame'.kind # "none"
    BY <1>6 DEF Enters, Holding, Assigned
  <2>5. Fits(pads'.inner, env'.inner)
    <3>1. Read(<< >>, 1) = Undef
      BY DEF Read
    <3> QED
      BY <2>1, <2>3, <2>4, <3>1 DEF Fits
  <2>6. Fits(pads'.outer, env'.outer)
    BY <1>2, <2>3, <2>4 DEF Pads
  <2>7. Assigned'
    BY <1>4, <2>1, <2>3, <2>4 DEF Assigned, Holding
  <2> QED
    BY <2>5, <2>6, <2>7 DEF Pads
<1>7. CASE DropFrame
  <2> DEFINE none == << >>
  <2>1. none \in Seq(Nat) /\ Len(none) = 0 /\ DOMAIN none = {}
    OBVIOUS
  <2>2. env' = [env EXCEPT !.inner = none] /\ pads' = [pads EXCEPT !.inner = none] /\ frame'.kind = "none"
    BY <1>7 DEF DropFrame, NoFrame
  <2>3. none = << >>
    OBVIOUS
  <2> HIDE DEF none
  <2>4. /\ env' \in [Pads -> Seq(Nat)] /\ env'.inner = none /\ env'.outer = env.outer
        /\ pads'.inner = none /\ pads'.outer = pads.outer
    BY <1>1, <2>1, <2>2 DEF Pads
  <2>5. Fits(pads'.inner, env'.inner)
    BY <2>1, <2>4 DEF Fits
  <2>6. Fits(pads'.outer, env'.outer)
    BY <1>2, <2>4 DEF Pads
  <2>7. Assigned'
    BY SMTT(40), <1>4, <2>1, <2>2, <2>3, <2>4 DEF Assigned, Holding
  <2> QED
    BY <2>5, <2>6, <2>7 DEF Pads
<1> QED
  BY <1>5, <1>6, <1>7

LEMMA IterateHolds ==
  ASSUME IInv, Holding, DoIterate
  PROVE  Holding'
<1>1. frame.kind = "foreach" /\ (\A p : NoneOf(todo, p)) /\ IterateLeaves
  BY IterateIsLast
<1>2. Next
  BY DEF Next, Task
<1>3. ASSUME NEW v \in Pos, NEW ts, Quiet(ts), todo' = ts \o Set("inner", 1, v), pads' = pads,
             env' = [env EXCEPT !.inner[1] = v], frame'.kind = "foreach"
      PROVE  Holding'
  <2>1. 1 \in DOMAIN env["inner"] /\ "inner" \in Pads
    BY <1>1 DEF Holding, Assigned, Pads
  <2> QED
    BY <1>1, <1>2, <1>3, <2>1, SetBegins
<1>4. CASE Quiet(todo') /\ DropFrame
  BY <1>1, <1>2, <1>4, QuietAre, CalmNone, HoldsBetween
<1> QED
  BY <1>1, <1>3, <1>4 DEF IterateLeaves

LEMMA OpHolds ==
  ASSUME IInv, Holding, Op, ~SetVariable
  PROVE  Holding'
<1>1. todo = << >> /\ Quiet(todo') /\ Next
  BY OpQuiet DEF Next
<1>2. \A p : NoneOf(todo, p) /\ NoneOf(todo', p)
  BY <1>1, QuietAre, CalmNone
<1>3. (pads' = pads /\ env' = env /\ frame'.kind = frame.kind) \/ Enters \/ DropFrame
  <2>1. CASE \/ OP_PUSH_INT \/ GetVariable \/ OP_POP_TOP \/ PreIncrement \/ PostIncrement \/ OP_MAKE_ARRAY
             \/ Bless \/ av_push \/ av_pop \/ OP_FOR_ITER
    BY <2>1 DEF OP_PUSH_INT, GetVariable, OP_POP_TOP, PreIncrement, PostIncrement, OP_MAKE_ARRAY, Bless,
                av_push, av_pop, OP_FOR_ITER
  <2>2. CASE OP_ENTER
    BY <2>2 DEF OP_ENTER, Enters, NoFrame
  <2>3. CASE OP_ENTER_FOREACH
    BY <2>3 DEF OP_ENTER_FOREACH, Enters, NoFrame
  <2>4. CASE OP_LEAVE
    BY <2>4 DEF OP_LEAVE
  <2> QED
    BY <2>1, <2>2, <2>3, <2>4 DEF Op
<1> QED
  BY <1>1, <1>2, <1>3, HoldsBetween

LEMMA SetHolds ==
  ASSUME Undisturbed, IInv, Holding, SetVariable
  PROVE  Holding'
<1>1. PICK p \in DOMAIN pads, i \in 1..Outer :
        /\ todo = << >> /\ Own /\ Assignable(p, i) /\ todo' = Set(p, i, Top) /\ env' = [env EXCEPT ![p][i] = Top]
        /\ heap' = heap /\ pads' = pads /\ frame' = frame
  BY DEF SetVariable, Ready
<1>2. pads \in [Pads -> Seq(Nat)] /\ p \in Pads /\ Len(stack) > 0 /\ HeapOK(heap)
  BY <1>1, Shapes, OwnTop DEF IInv
<1>3. Top \in Pos /\ Top \in DOMAIN heap /\ Next
  BY <1>2, TopIs DEF Next, Op
<1>4. i \in DOMAIN env[p] /\ (\A q : NoneOf(todo, q)) /\ Quiet(<< >>)
  BY <1>1, CalmNone, QuietAre DEF Assignable
<1>5. ASSUME p = "outer", Careful PROVE Begins(heap, pads[p], i) /\ (i = DestroyVar => IntIs(heap, Top))
  <2>1. ~Overwrites
    BY <1>5 DEF Undisturbed
  <2>2. i = DestroyVar => IntIs(heap, Top)
    BY <1>1, <1>3, <1>5, <2>1 DEF Assignable, IntOrUndef, IntIs
  <2>3. ASSUME i <= Len(pads[p]) PROVE IntIs(heap, pads[p][i])
    <3>1. pads[p] \in Seq(Nat)
      BY <1>2
    <3>2. i \in DOMAIN pads[p] /\ pads[p][i] \in Nat
      <4>1. i \in 1..Len(pads[p])
        BY <2>3
      <4> QED
        BY <3>1, <4>1
    <3> DEFINE r == pads[p][i]
    <3>3. IntOrUndef(r)
      BY <1>1, <2>1, <3>2 DEF Assignable
    <3>4. r # 0 => r \in DOMAIN heap
      <4> HAVE r # 0
      <4>1. r \in Pos
        BY <3>2 DEF Pos
      <4>2. Alive(r)
        BY <1>2, <3>2, <4>1, OwnedLive
      <4> QED
        BY <4>2 DEF Alive
    <3> QED
      BY <3>3, <3>4 DEF IntOrUndef, IntIs, Undef
  <2> QED
    BY <2>2, <2>3 DEF Begins
<1>6. todo' = << >> \o Set(p, i, Top)
  <2>1. Set(p, i, Top) \in Seq(Tasks)
    <3>1. i \in Pos /\ Top \in Nat
      BY <1>3, <1>4 DEF Pos, Holding, Assigned
    <3> QED
      BY <1>2, <3>1, SetNone
  <2> QED
    BY <1>1, <2>1
<1> DEFINE none == << >>
           v == Top
<1>7. /\ Quiet(none) /\ todo' = none \o Set(p, i, v) /\ none = << >> /\ v \in Pos /\ frame'.kind = frame.kind
      /\ env' = [env EXCEPT ![p][i] = v] /\ pads' = pads
      /\ p = "outer" /\ Careful => Begins(heap', pads[p], i) /\ (i = DestroyVar => IntIs(heap', v))
  BY <1>1, <1>3, <1>4, <1>5, <1>6
<1> HIDE DEF none, v
<1> QED
  BY <1>2, <1>3, <1>4, <1>7, SetBegins

\* No assignment to the outer variables is under way when a DESTROY method is called.
LEMMA PartedBody ==
  ASSUME Careful, NEW h, NEW s \in Seq(Nat), NEW e \in Seq(Nat), NEW ts \in Seq(Tasks), ts # << >>,
         Head(ts).do = "body", Parted(h, "outer", ts, s, e)
  PROVE  NoneOf(ts, "outer") /\ Fits(s, e)
<1> SUFFICES ASSUME NEW rs \in Seq(Tasks), NEW b \in Seq(Tasks), NEW rest \in Seq(Tasks),
                    ts = rs \o (b \o rest), Assigning(h, "outer", b, s, e), Leads(h, "outer", rs, s)
             PROVE  FALSE
  BY DEF Parted
<1>1. b # << >> /\ Changer(Head(b), "outer")
  BY AssigningIs
<1> DEFINE c == b \o rest
<1>2. c \in Seq(Tasks) /\ Head(c) = Head(b)
  BY <1>1, ConcatHead, ConcatIs
<1> HIDE DEF c
<1>3. ts = rs \o c
  BY DEF c
<1>4. CASE rs = << >>
  <2>1. ts = c
    BY <1>2, <1>3, <1>4
  <2> QED
    BY <1>1, <1>2, <2>1 DEF Changer
<1>5. ASSUME NEW x \in Pos, rs = << Release(x) >> PROVE FALSE
  <2>1. rs # << >> /\ Head(rs) = Release(x)
    BY <1>5
  <2>2. Head(ts) = Release(x)
    BY <1>2, <1>3, <2>1, ConcatHead
  <2>3. Release(x).do = "release"
    BY DEF Release
  <2> QED
    BY <2>2, <2>3
<1> QED
  BY <1>4, <1>5 DEF Leads

LEMMA BodyHolds ==
  ASSUME HeapAssumption, Undisturbed, IInv, Holding, CellsFit, BodiesFit, DoBody
  PROVE  Holding'
<1> DEFINE a == The
<1>1. BodyIs /\ Next
  BY BodyLeaves DEF Next, Task
<1>2. todo # << >> /\ Head(todo).do = "body" /\ pads' = pads /\ frame' = frame
  BY <1>1 DEF BodyIs
<1>3. a \in DOMAIN heap /\ heap[a].live /\ heap[a].type = "object" /\ BodyValue \in Pos
  BY <1>1 DEF BodyIs, Alive
<1>4. heap[a].script \in Scripts /\ heap[a].script # "none"
  <2>1. Among(Head(todo), todo)
    <3>1. todo \in Seq(Tasks) /\ todo[1] = Head(todo) /\ 1 \in DOMAIN todo
      BY <1>2, HeadIs, Shapes DEF IInv
    <3> QED
      BY <3>1 DEF Among
  <2> QED
    BY <1>2, <1>3, <2>1 DEF BodiesFit, CellsFit, CellFits, The
<1>5. \A x : Head(todo) # Release(x)
  <2>1. \A x : Release(x).do = "release"
    BY DEF Release
  <2> QED
    BY <1>2, <2>1
<1>6. \A p : ~Changer(Head(todo), p)
  BY <1>2 DEF Changer
<1>7. /\ pads \in [Pads -> Seq(Nat)] /\ todo \in Seq(Tasks) /\ env \in [Pads -> Seq(Nat)] /\ Tail(todo) \in Seq(Tasks)
  BY <1>2, HeadTail, Shapes DEF IInv, Holding, Assigned
<1>8. CASE heap[a].script = "quiet"
  <2> DEFINE none == << >>
  <2>1. none \in Seq(Tasks) /\ (\A p : NoneOf(none, p)) /\ none = << >>
    BY CalmNone
  <2>2. todo' = none \o Tail(todo) /\ env' = env
    BY <1>1, <1>8 DEF BodyIs
  <2> HIDE DEF none
  <2> QED
    BY <1>1, <1>2, <1>5, <1>6, <2>1, <2>2, OtherTask
<1>9. CASE heap[a].script # "quiet"
  <2> DEFINE v == BodyValue
             b == Set("outer", DestroyVar, v)
             d == Releases(<< v >>)
             r == Tail(todo)
  <2>1. heap[a].script \in {"data", "self"} /\ Careful
    BY <1>4, <1>9 DEF Careful, HeapAssumption
  <2>2. heap[a].script = "data"
    BY <1>4, <2>1 DEF Undisturbed
  <2>3. IntIs(heap, v)
    BY <1>3, <2>1, <2>2 DEF CellsFit, CellFits, BodyValue
  <2>4. \A x : IntIs(heap, x) => IntIs(heap', x)
    BY <1>1, IntsStay
  <2>5. v \in Pos /\ v \in Nat /\ b \in Seq(Tasks) /\ Calm(d) /\ d \in Seq(Tasks)
    BY <1>1 DEF BodyIs, Pos, Calm
  <2>6. todo' = (b \o d) \o r /\ env' = [env EXCEPT !.outer[DestroyVar] = v]
    BY <1>1, <1>9 DEF BodyIs
  <2>7. DestroyVar \in DOMAIN env["outer"] /\ DestroyVar \in Pos /\ "outer" \in Pads /\ "inner" \in Pads
    BY DEF Holding, Assigned, HeapAssumption, Pads, Pos
  <2> HIDE DEF v
  <2>8. /\ env' \in [Pads -> Seq(Nat)] /\ env'["outer"] = [env["outer"] EXCEPT ![DestroyVar] = v]
        /\ Len(env'["outer"]) = Len(env["outer"]) /\ env'["inner"] = env["inner"]
    <3>1. env' = [env EXCEPT !["outer"][DestroyVar] = v]
      BY <2>6
    <3>2. \A q \in Pads : q # "outer" => env'[q] = env[q]
      BY <1>7, <2>5, <2>7, <3>1, EnvPut
    <3>3. /\ env' \in [Pads -> Seq(Nat)] /\ env'["outer"] = [env["outer"] EXCEPT ![DestroyVar] = v]
          /\ Len(env'["outer"]) = Len(env["outer"])
      BY <1>7, <2>5, <2>7, <3>1, EnvPut
    <3> QED
      BY <2>7, <3>2, <3>3
  <2> DEFINE s == pads["outer"]
             e0 == env["outer"]
             e == env'["outer"]
  <2>9. s \in Seq(Nat) /\ e0 \in Seq(Nat) /\ e \in Seq(Nat) /\ Parted(heap, "outer", todo, s, e0)
    BY <1>7, <2>7, <2>8 DEF Holding
  <2>10. NoneOf(todo, "outer") /\ Fits(s, e0)
    <3> HIDE DEF s, e0
    <3> QED
      BY <1>2, <1>7, <2>1, <2>9, PartedBody
  <2>11. Begins(heap', s, DestroyVar)
    <3> SUFFICES ASSUME DestroyVar <= Len(s) PROVE IntIs(heap', s[DestroyVar])
      BY DEF Begins
    <3>1. e0[DestroyVar] = s[DestroyVar]
      BY <2>7, <2>10 DEF Fits, Read
    <3>2. IntIs(heap, e0[DestroyVar])
      BY <2>1 DEF Holding, Assigned
    <3> QED
      BY <2>4, <3>1, <3>2
  <2>12. Assigning(heap', "outer", b, s, e)
    BY <1>7, <2>5, <2>7, <2>8, <2>9, <2>10, <2>11, SetAssigns
  <2>13. d \o r \in Seq(Tasks) /\ todo' = b \o (d \o r)
    BY <1>7, <2>5, <2>6, ConcatIs, TasksThrice
  <2>14. NoneOf(d \o r, "outer")
    <3>1. NoneOf(r, "outer")
      BY <1>2, <1>7, <2>10, NoneTail
    <3>2. NoneOf(d, "outer")
      BY <2>5, CalmNone
    <3> HIDE DEF d, r
    <3> QED
      BY <1>7, <2>5, <3>1, <3>2, NoneConcat DEF r
  <2>15. Parted(heap', "outer", todo', s, e)
    <3> DEFINE none == << >>
               rest == d \o r
    <3>1. none \in Seq(Tasks) /\ NoneOf(none, "outer") /\ Leads(heap', "outer", none, s)
      BY CalmNone DEF Leads
    <3>2. none \o (b \o rest) = b \o rest
      BY <2>5, <2>13, ConcatIs
    <3>3. rest \in Seq(Tasks) /\ NoneOf(rest, "outer") /\ todo' = b \o rest
      BY <2>13, <2>14
    <3> HIDE DEF none, rest, b, s, e
    <3>4. Parted(heap', "outer", none \o (b \o rest), s, e)
      BY <2>5, <2>12, <3>1, <3>3, PartedAfter
    <3> QED
      BY <3>2, <3>3, <3>4
  <2>16. Parted(heap', "inner", todo', pads["inner"], env'["inner"])
    <3> DEFINE si == pads["inner"]
               ei == env["inner"]
               new == b \o d
    <3>1. si \in Seq(Nat) /\ ei \in Seq(Nat) /\ Parted(heap, "inner", todo, si, ei)
      BY <1>7, <2>7 DEF Holding
    <3>2. new \in Seq(Tasks) /\ NoneOf(new, "inner")
      <4>1. NoneOf(b, "inner")
        BY <1>7, <2>5, <2>7, SetNone
      <4>2. NoneOf(d, "inner")
        BY <2>5, CalmNone
      <4> HIDE DEF b, d
      <4> QED
        BY <2>5, <4>1, <4>2, NoneConcat, ConcatIs
    <3>3. todo' = new \o r
      BY <2>6
    <3> HIDE DEF si, ei, new
    <3>4. Parted(heap', "inner", new \o Tail(todo), si, ei)
      BY <1>2, <1>6, <1>7, <2>4, <3>1, <3>2, PartedOn
    <3> QED
      BY <2>8, <3>3, <3>4 DEF si, ei
  <2>17. Assigned'
    <3>1. e[DestroyVar] = v
      BY <2>7, <2>8
    <3>2. IntIs(heap', env'.outer[DestroyVar])
      BY <2>3, <2>4, <3>1
    <3>3. Len(env'.outer) = Len(env.outer) /\ Len(env'.inner) = Len(env.inner)
      BY <2>8
    <3> QED
      BY <1>2, <2>8, <3>2, <3>3 DEF Assigned, Holding
  <2>18. \A q \in Pads : Parted(heap', q, todo', pads'[q], env'[q])
    BY <1>2, <2>15, <2>16 DEF Pads
  <2> QED
    BY <2>17, <2>18 DEF Holding
<1> QED
  BY <1>8, <1>9

LEMMA HoldingStep ==
  ASSUME HeapAssumption, Undisturbed, IInv, Holding, CellsFit, BodiesFit, [Next]_vars
  PROVE  Holding'
<1>1. CASE SetVariable
  BY <1>1, SetHolds
<1>2. CASE Op /\ ~SetVariable
  BY <1>2, OpHolds
<1>3. CASE DoRelease
  BY <1>3, ReleaseHolds
<1>4. CASE DoBody
  BY <1>4, BodyHolds
<1>5. CASE DoFinish
  BY <1>5, FinishHolds
<1>6. CASE DoShift
  BY <1>6, ShiftHolds
<1>7. CASE DoShrink
  BY <1>7, ShrinkHolds
<1>8. CASE DoInsert
  BY <1>8, InsertHolds
<1>9. CASE DoIterate
  BY <1>9, IterateHolds
<1>10. CASE UNCHANGED vars
  BY <1>10 DEF vars, Holding, Assigned
<1> QED
  BY <1>1, <1>2, <1>3, <1>4, <1>5, <1>6, <1>7, <1>8, <1>9, <1>10 DEF Next, Task

LEMMA HoldingInit ==
  ASSUME HeapAssumption, Init
  PROVE  Dropped /\ CellsFit /\ BodiesFit /\ Holding
<1>1. heap = << >> /\ todo = << >> /\ env = pads /\ frame.kind = "none" /\ pads.inner = << >>
  BY DEF Init, NoFrame
<1> DEFINE o == [i \in 1..Outer |-> Undef]
           none == << >>
<1>2. Outer \in Nat /\ DestroyVar \in 1..Outer
  BY DEF HeapAssumption
<1>3. o \in Seq(Nat) /\ Len(o) = Outer /\ o[DestroyVar] = Undef
  BY <1>2 DEF Undef
<1>4. none \in Seq(Nat) /\ Len(none) = 0
  OBVIOUS
<1>5. pads = [outer |-> o, inner |-> none]
  BY DEF Init
<1> HIDE DEF o, none
<1>6. pads \in [Pads -> Seq(Nat)] /\ pads.outer = o /\ pads.inner = none
  BY <1>5, InitIInv, Shapes DEF IInv
<1>7. Assigned
  BY <1>1, <1>3, <1>4, <1>6 DEF Assigned, IntIs
<1>8. ASSUME NEW p \in Pads PROVE Parted(heap, p, todo, pads[p], env[p])
  <2>1. pads[p] \in Seq(Nat) /\ env[p] = pads[p]
    BY <1>1, <1>6
  <2>2. Fits(pads[p], env[p])
    BY <2>1 DEF Fits, Read
  <2>3. NoneOf(todo, p)
    BY <1>1, CalmNone
  <2> QED
    BY <2>2, <2>3 DEF Parted
<1>9. Dropped
  BY <1>1 DEF Dropped
<1>10. CellsFit /\ BodiesFit
  BY <1>1 DEF CellsFit, BodiesFit, Among
<1> QED
  BY <1>7, <1>8, <1>9, <1>10 DEF Holding

LEMMA HoldingHold ==
  ASSUME IInv, Holding
  PROVE  VariablesHold
<1> SUFFICES ASSUME todo = << >>, NEW p \in DOMAIN env, NEW i \in DOMAIN env[p]
             PROVE  env[p][i] = Read(pads[p], i)
  BY DEF VariablesHold, Read
<1> DEFINE s == pads[p]
           e == env[p]
<1>1. s \in Seq(Nat) /\ e \in Seq(Nat) /\ todo \in Seq(Tasks) /\ Parted(heap, p, todo, s, e)
  BY Shapes DEF IInv, Holding, Assigned
<1>2. NoneOf(todo, p)
  BY CalmNone
<1> HIDE DEF s, e
<1>3. Fits(s, e)
  BY <1>1, <1>2, PartedNone
<1> QED
  BY <1>3 DEF s, e, Fits

\* Between two ops, when no DESTROY method is in the middle, a variable holds
\* what was assigned to it last (PadList::set), and a value that neither a
\* variable nor an operand leads to has been freed unless a cycle holds it
\* (SharedPtr, Value::release).  Where a DESTROY method assigns to a variable
\* the others hold integers: an object dropped by std::vector::erase may
\* otherwise assign in the middle of the erase that drops it (pad_list.cc:68).
THEOREM BetweenOpsCorrect ==
  ASSUME HeapAssumption, Undisturbed
  PROVE  Spec => []BetweenOps
<1> DEFINE All == IInv /\ Dropped /\ CellsFit /\ BodiesFit /\ Holding
<1>1. Init => All
  BY InitIInv, HoldingInit
<1>2. All /\ [Next]_vars => All'
  BY StepIInv, DroppedStep, CellsFitStep, BodiesFitStep, HoldingStep
<1>3. All => BetweenOps
  BY OnlyCyclesStay, HoldingHold DEF BetweenOps
<1> HIDE DEF All
<1> QED
  BY <1>1, <1>2, <1>3, PTL DEF Spec

=============================================================================
