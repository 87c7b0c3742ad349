-------------------------- MODULE AssocArrays_proofs --------------------------
(***************************************************************************)
(* Theorems about module AssocArrays, for any strings, keys and data, any  *)
(* hash function and any first size: the arrays are dictionaries, and each *)
(* record is linked once, where its `from` says.                           *)
(***************************************************************************)
EXTENDS AssocArrays, WellFoundedInduction, TLAPS

AllKeys == Names \cup Keys
AllData == AllKeys \cup Data

Recs == [key : AllKeys, data : AllData, next : Nat, from : {"ht", "next"} \X Nat]

Typed(a) ==
  /\ a = [size |-> a.size, tbl |-> a.tbl, ht |-> a.ht]
  /\ a.size \in Nat \ {0} /\ a.tbl \in Seq(Recs)
  /\ a.ht \in [0..a.size - 1 -> 0..Len(a.tbl)]

\* A record is linked to one that came before it, 0 for none.
Backwards(a) == \A j \in 1..Len(a.tbl) : a.tbl[j].next \in 0..j - 1

-----------------------------------------------------------------------------
(* Chains. *)

\* A set of numbers has a least one.
LEMMA LeastNat ==
  ASSUME NEW T \in SUBSET Nat, T # {}
  PROVE  \E n \in T : \A m \in T : n <= m
<1> DEFINE R == OpToRel(<, Nat)
<1>1. PICK x \in T : \A y \in T : ~ (<< y, x >> \in R)
  BY NatLessThanWellFounded, WFMin
<1>2. x \in Nat /\ \A y \in T : y \in Nat /\ ~ (y < x)
  BY <1>1 DEF OpToRel
<1> QED
  BY <1>2

\* c is the chain from each of the first n records.
IsChain(a, c, n) ==
  c = [j \in 0..n |-> IF j = 0 THEN << >> ELSE << j >> \o c[a.tbl[j].next]]

LEMMA ChainExists ==
  ASSUME NEW a, Typed(a), Backwards(a)
  PROVE  \E c : IsChain(a, c, Len(a.tbl))
<1>1. Len(a.tbl) \in Nat
  BY DEF Typed
<1> DEFINE T == {n \in 0..Len(a.tbl) : ~\E c : IsChain(a, c, n)}
<1> SUFFICES ASSUME T # {} PROVE FALSE
  BY <1>1
<1>2. PICK n \in T : \A m \in T : n <= m
  <2>1. T \in SUBSET Nat
    BY <1>1
  <2> HIDE DEF T
  <2> QED
    BY <2>1, LeastNat
<1>3. n \in 0..Len(a.tbl) /\ ~\E c : IsChain(a, c, n)
  OBVIOUS
<1>4. n # 0
  <2>1. IsChain(a, [j \in 0..0 |-> << >>], 0)
    BY DEF IsChain
  <2> QED
    BY <1>3, <2>1
<1>5. n - 1 \in 0..Len(a.tbl) /\ n - 1 \notin T
  BY <1>1, <1>2, <1>3, <1>4
<1>6. PICK c : IsChain(a, c, n - 1)
  BY <1>5
<1> DEFINE d == [j \in 0..n |-> IF j = n THEN << n >> \o c[a.tbl[n].next] ELSE c[j]]
<1>7. \A j \in 1..n : a.tbl[j].next \in 0..n - 1 /\ (j # n => a.tbl[j].next \in 0..n - 2)
  BY <1>1, <1>3, <1>4 DEF Backwards
<1>8. \A j \in 0..n - 1 : d[j] = c[j]
  BY <1>1, <1>3
<1>9. \A j \in 0..n : d[j] = IF j = 0 THEN << >> ELSE << j >> \o d[a.tbl[j].next]
  <2> TAKE j \in 0..n
  <2>1. CASE j = 0
    <3>1. 0 \in 0..n - 1
      BY <1>1, <1>3, <1>4
    <3>2. c[0] = << >>
      BY <1>6, <3>1 DEF IsChain
    <3> HIDE DEF d
    <3> QED
      BY <1>8, <2>1, <3>1, <3>2
  <2>2. CASE j = n
    <3>1. d[n] = << n >> \o c[a.tbl[n].next]
      BY <1>1, <1>3
    <3>2. a.tbl[n].next \in 0..n - 1
      BY <1>1, <1>3, <1>4, <1>7
    <3> HIDE DEF d
    <3> QED
      BY <1>4, <1>8, <2>2, <3>1, <3>2
  <2>3. CASE j # 0 /\ j # n
    <3>1. j \in 1..n - 1 /\ j \in 0..n - 1 /\ j \in 1..n
      BY <1>1, <1>3, <2>3
    <3>2. a.tbl[j].next \in 0..n - 1
      BY <1>7, <3>1
    <3>3. c[j] = << j >> \o c[a.tbl[j].next]
      BY <1>6, <2>3, <3>1 DEF IsChain
    <3> HIDE DEF d
    <3> QED
      BY <1>8, <2>3, <3>1, <3>2, <3>3
  <2> QED
    BY <2>1, <2>2, <2>3
<1>10. IsChain(a, d, n)
  <2>1. d = [j \in 0..n |-> d[j]]
    OBVIOUS
  <2> HIDE DEF d
  <2> QED
    BY <1>9, <2>1, Zenon DEF IsChain
<1> QED
  BY <1>3, <1>10

\* What Chain does.
LEMMA ChainIs ==
  ASSUME NEW a, Typed(a), Backwards(a), NEW i \in 0..Len(a.tbl)
  PROVE  Chain(a, i) = IF i = 0 THEN << >> ELSE << i >> \o Chain(a, a.tbl[i].next)
<1> DEFINE n == Len(a.tbl)
           c == CHOOSE f : f = [j \in 0..n |-> IF j = 0 THEN << >> ELSE << j >> \o f[a.tbl[j].next]]
<1>1. n \in Nat
  BY DEF Typed
<1>2. c = [j \in 0..n |-> IF j = 0 THEN << >> ELSE << j >> \o c[a.tbl[j].next]]
  BY ChainExists DEF IsChain
<1>3. \A j : Chain(a, j) = c[j]
  BY DEF Chain
<1> HIDE DEF c
<1> QED
  BY ZenonT(40), <1>2, <1>3
\* The chain from record i has record r.
Reach(a, i, r) == \E p \in DOMAIN Chain(a, i) : Chain(a, i)[p] = r

LEMMA SeqWider ==
  ASSUME NEW S, NEW T, S \subseteq T, NEW s \in Seq(S)
  PROVE  s \in Seq(T)
<1>1. Len(s) \in Nat /\ DOMAIN s = 1..Len(s) /\ s = [p \in 1..Len(s) |-> s[p]]
  OBVIOUS
<1>2. \A p \in 1..Len(s) : s[p] \in T
  OBVIOUS
<1>3. s \in [1..Len(s) -> T]
  BY <1>1, <1>2
<1> QED
  BY <1>1, <1>3

\* A chain is made of records, none after the one it begins with.
LEMMA ChainType ==
  ASSUME NEW a, Typed(a), Backwards(a), NEW i \in 0..Len(a.tbl)
  PROVE  Chain(a, i) \in Seq(1..i)
<1>1. Len(a.tbl) \in Nat
  BY DEF Typed
<1> DEFINE T == {n \in 0..Len(a.tbl) : Chain(a, n) \notin Seq(1..n)}
<1> SUFFICES ASSUME T # {} PROVE FALSE
  OBVIOUS
<1>2. PICK n \in T : \A m \in T : n <= m
  <2>1. T \in SUBSET Nat
    BY <1>1
  <2> HIDE DEF T
  <2> QED
    BY <2>1, LeastNat
<1>3. n \in 0..Len(a.tbl) /\ Chain(a, n) \notin Seq(1..n)
  OBVIOUS
<1>4. n # 0
  <2>1. ASSUME n = 0 PROVE FALSE
    <3>1. Chain(a, n) = << >>
      BY <1>3, <2>1, ChainIs
    <3> QED
      BY <1>3, <3>1
  <2> QED
    BY <2>1
<1>5. Chain(a, n) = << n >> \o Chain(a, a.tbl[n].next)
  BY <1>3, <1>4, ChainIs
<1>6. a.tbl[n].next \in 0..n - 1
  BY <1>1, <1>3, <1>4 DEF Backwards
<1> DEFINE m == a.tbl[n].next
<1>7. m \in 0..Len(a.tbl) /\ ~ (n <= m)
  BY <1>1, <1>3, <1>6
<1>8. m \notin T
  BY <1>2, <1>7
<1>9. Chain(a, m) \in Seq(1..m)
  BY <1>7, <1>8
<1> HIDE DEF m
<1>10. m \in Nat /\ n \in Nat /\ m <= n /\ n \in 1..n
  BY <1>1, <1>3, <1>4, <1>7
<1>11. 1..m \subseteq 1..n
  BY <1>10
<1>12. Chain(a, m) \in Seq(1..n)
  BY <1>9, <1>11, SeqWider
<1>13. << n >> \in Seq(1..n)
  BY <1>10
<1> QED
  BY <1>3, <1>5, <1>12, <1>13 DEF m

LEMMA ReachRange ==
  ASSUME NEW a, Typed(a), Backwards(a), NEW i \in 0..Len(a.tbl), NEW r, Reach(a, i, r)
  PROVE  r \in 1..i
<1>1. PICK p \in DOMAIN Chain(a, i) : Chain(a, i)[p] = r
  BY DEF Reach
<1>2. Chain(a, i) \in Seq(1..i)
  BY ChainType
<1> QED
  BY <1>1, <1>2

\* What is in a chain is its first record or in the chain behind it.
LEMMA ReachIs ==
  ASSUME NEW a, Typed(a), Backwards(a), NEW i \in 0..Len(a.tbl), NEW r
  PROVE  Reach(a, i, r) <=> i # 0 /\ (r = i \/ Reach(a, a.tbl[i].next, r))
<1>1. CASE i = 0
  <2>1. Chain(a, i) = << >>
    BY <1>1, ChainIs
  <2>2. DOMAIN Chain(a, i) = {}
    BY <2>1
  <2> QED
    BY <1>1, <2>2 DEF Reach
<1>2. CASE i # 0
  <2> DEFINE s == Chain(a, a.tbl[i].next)
  <2>1. Len(a.tbl) \in Nat
    BY DEF Typed
  <2>2. i \in 1..Len(a.tbl)
    BY <1>2, <2>1
  <2>3. a.tbl[i].next \in 0..i - 1
    BY <2>2 DEF Backwards
  <2>4. a.tbl[i].next \in 0..Len(a.tbl)
    BY <2>1, <2>2, <2>3
  <2>5. s \in Seq(1..a.tbl[i].next)
    BY <2>4, ChainType
  <2>6. Chain(a, i) = << i >> \o s
    BY <1>2, ChainIs
  <2>7. Reach(a, a.tbl[i].next, r) <=> \E p \in DOMAIN s : s[p] = r
    BY DEF Reach
  <2>8. Reach(a, i, r) <=> \E p \in DOMAIN (<< i >> \o s) : (<< i >> \o s)[p] = r
    BY <2>6 DEF Reach
  <2> HIDE DEF s
  <2>9. Len(s) \in Nat /\ DOMAIN s = 1..Len(s)
    BY <2>5
  <2>10. DOMAIN (<< i >> \o s) = 1..Len(s) + 1
    BY <2>5
  <2>11. (<< i >> \o s)[1] = i /\ \A p \in 1..Len(s) : (<< i >> \o s)[p + 1] = s[p]
    BY <2>5, <2>9
  <2>12. \A p \in 1..Len(s) + 1 : p = 1 \/ (p - 1 \in 1..Len(s) /\ (p - 1) + 1 = p)
    BY <2>9
  <2>13. 1 \in 1..Len(s) + 1 /\ \A p \in 1..Len(s) : p + 1 \in 1..Len(s) + 1
    BY <2>9
  <2>14. ASSUME \E p \in 1..Len(s) + 1 : (<< i >> \o s)[p] = r
         PROVE  r = i \/ \E p \in 1..Len(s) : s[p] = r
    <3>1. PICK p \in 1..Len(s) + 1 : (<< i >> \o s)[p] = r
      BY <2>14
    <3>2. CASE p = 1
      BY <2>11, <3>1, <3>2
    <3>3. CASE p - 1 \in 1..Len(s) /\ (p - 1) + 1 = p
      BY <2>11, <3>1, <3>3
    <3> QED
      BY <2>12, <3>2, <3>3
  <2>15. ASSUME r = i \/ \E p \in 1..Len(s) : s[p] = r
         PROVE  \E p \in 1..Len(s) + 1 : (<< i >> \o s)[p] = r
    BY <2>11, <2>13, <2>15
  <2> QED
    BY <1>2, <2>7, <2>8, <2>9, <2>10, <2>14, <2>15
<1> QED
  BY <1>1, <1>2

-----------------------------------------------------------------------------
(* What an array is like. *)

KeysOnce(a) == \A i, j \in 1..Len(a.tbl) : a.tbl[i].key = a.tbl[j].key => i = j

\* The chain of a slot has the records whose key has that slot.
Chained(a) ==
  \A h \in 0..a.size - 1, r \in 1..Len(a.tbl) : Reach(a, a.ht[h], r) <=> Slot(a.tbl[r].key, a.size) = h

\* The place that links to a record is in the array.
Backlinked(a) ==
  \A i \in 1..Len(a.tbl) : LET from == a.tbl[i].from IN
    \/ from[1] = "ht" /\ from[2] \in 0..a.size - 1 /\ a.ht[from[2]] = i
    \/ from[1] = "next" /\ from[2] \in 1..Len(a.tbl) /\ a.tbl[from[2]].next = i

WellLinked(a) == Typed(a) /\ Backwards(a) /\ KeysOnce(a) /\ Chained(a) /\ Backlinked(a)

LEMMA SlotType ==
  ASSUME AssocArraysAssumption, NEW k \in AllKeys, NEW size \in Nat \ {0}
  PROVE  Slot(k, size) \in 0..size - 1
<1>1. HashOf[k] \in Nat
  BY DEF AssocArraysAssumption, AllKeys
<1> DEFINE x == HashOf[k]
<1>2. x \in Nat
  BY <1>1
<1> HIDE DEF x
<1>3. x % size \in 0..size - 1
  BY <1>2
<1> QED
  BY <1>3 DEF Slot, x

\* An empty array.
LEMMA EmptyLinked ==
  ASSUME NEW size \in Nat \ {0}
  PROVE  WellLinked(Array(size)) /\ Array(size).size = size /\ Array(size).tbl = << >>
<1> DEFINE a == Array(size)
<1>1. a = [size |-> size, tbl |-> << >>, ht |-> [h \in 0..size - 1 |-> 0]]
  BY DEF Array
<1>2. a = [size |-> a.size, tbl |-> a.tbl, ht |-> a.ht] /\ a.size = size /\ a.tbl = << >>
      /\ a.ht = [h \in 0..size - 1 |-> 0]
  BY <1>1
<1> HIDE DEF a
<1>3. Len(a.tbl) = 0 /\ a.tbl \in Seq(Recs)
  BY <1>2
<1>4. Typed(a)
  BY <1>2, <1>3 DEF Typed
<1> QED
  BY <1>2, <1>3, <1>4 DEF WellLinked, Backwards, KeysOnce, Chained, Backlinked, a

\* A record more: what Linked makes of an array, in terms of the old one.
Adds(a, b, k, d) ==
  LET n == Len(a.tbl)  h == Slot(k, a.size) IN
    /\ Typed(b) /\ b.size = a.size /\ Len(b.tbl) = n + 1
    /\ b.ht = [a.ht EXCEPT ![h] = n + 1]
    /\ \A j \in 1..n : /\ b.tbl[j].key = a.tbl[j].key /\ b.tbl[j].data = a.tbl[j].data
                       /\ b.tbl[j].next = a.tbl[j].next
                       /\ b.tbl[j].from = IF j = a.ht[h] THEN << "next", n + 1 >> ELSE a.tbl[j].from
    /\ b.tbl[n + 1] = [key |-> k, data |-> d, next |-> a.ht[h], from |-> << "ht", h >>]

LEMMA LinkedAdds ==
  ASSUME AssocArraysAssumption, NEW a, Typed(a), NEW k \in AllKeys, NEW d \in AllData
  PROVE  Adds(a, Linked(a, k, d), k, d)
<1> DEFINE n == Len(a.tbl)
           h == Slot(k, a.size)
           first == a.ht[h]
           t == PushedBack(a.tbl, first, n + 1)
           r == [key |-> k, data |-> d, next |-> first, from |-> << "ht", h >>]
           b == Linked(a, k, d)
<1>1. n \in Nat /\ a.size \in Nat \ {0} /\ a.tbl \in Seq(Recs) /\ a.ht \in [0..a.size - 1 -> 0..n]
  BY DEF Typed
<1>2. h \in 0..a.size - 1
  BY <1>1, SlotType
<1>3. first \in 0..n
  BY <1>1, <1>2
<1>4. b = [a EXCEPT !.tbl = Append(PushedBack(@, first, n + 1), r), !.ht[h] = n + 1]
  BY DEF Linked
<1>5. a = [size |-> a.size, tbl |-> a.tbl, ht |-> a.ht]
  BY DEF Typed
<1> HIDE DEF r, b
<1>6. b = [size |-> a.size, tbl |-> Append(t, r), ht |-> [a.ht EXCEPT ![h] = n + 1]]
  BY <1>4, <1>5
<1> DEFINE ht == [a.ht EXCEPT ![h] = n + 1]
<1>7. ht \in [0..a.size - 1 -> 0..n + 1]
  BY <1>1, <1>2
<1>8. t \in Seq(Recs) /\ Len(t) = n
      /\ \A j \in 1..n : /\ t[j].key = a.tbl[j].key /\ t[j].data = a.tbl[j].data
                         /\ t[j].next = a.tbl[j].next
                         /\ t[j].from = IF j = first THEN << "next", n + 1 >> ELSE a.tbl[j].from
  <2>1. CASE first = 0
    BY <1>1, <1>3, <2>1 DEF PushedBack
  <2>2. CASE first # 0
    <3> DEFINE old == a.tbl[first]
               new == [old EXCEPT !.from = << "next", n + 1 >>]
    <3>1. first \in 1..n
      BY <1>1, <1>3, <2>2
    <3>2. t = [a.tbl EXCEPT ![first] = new]
      BY <2>2 DEF PushedBack
    <3>3. old \in Recs
      BY <1>1, <3>1
    <3>4. << "next", n + 1 >> \in {"ht", "next"} \X Nat
      BY <1>1
    <3> HIDE DEF old, n
    <3>5. new \in Recs /\ new.key = old.key /\ new.data = old.data /\ new.next = old.next
          /\ new.from = << "next", n + 1 >>
      BY <3>3, <3>4 DEF Recs
    <3> HIDE DEF new, t, first
    <3> USE DEF n
    <3>6. t \in Seq(Recs) /\ Len(t) = n /\ t[first] = new
          /\ \A j \in 1..n : j # first => t[j] = a.tbl[j]
      BY <1>1, <3>1, <3>2, <3>5
    <3> QED
      BY <3>5, <3>6 DEF old
  <2> QED
    BY <2>1, <2>2
<1>9. r \in Recs
  <2>1. << "ht", h >> \in {"ht", "next"} \X Nat
    BY <1>1, <1>2
  <2>2. first \in Nat
    BY <1>1, <1>3
  <2> HIDE DEF first, h
  <2> QED
    BY <2>1, <2>2 DEF r, Recs
<1> HIDE DEF t, ht
<1>10. Append(t, r) \in Seq(Recs) /\ Len(Append(t, r)) = n + 1 /\ Append(t, r)[n + 1] = r
       /\ \A j \in 1..n : Append(t, r)[j] = t[j]
  BY <1>1, <1>8, <1>9
<1>11. b = [size |-> b.size, tbl |-> b.tbl, ht |-> b.ht] /\ b.size = a.size /\ b.tbl = Append(t, r) /\ b.ht = ht
  BY <1>6 DEF ht
<1>12. Typed(b)
  BY <1>1, <1>7, <1>10, <1>11 DEF Typed
<1>13. \A j \in 1..n : /\ b.tbl[j].key = a.tbl[j].key /\ b.tbl[j].data = a.tbl[j].data
                       /\ b.tbl[j].next = a.tbl[j].next
                       /\ b.tbl[j].from = IF j = first THEN << "next", n + 1 >> ELSE a.tbl[j].from
  <2> TAKE j \in 1..n
  <2>1. b.tbl[j] = t[j]
    BY <1>10, <1>11
  <2> HIDE DEF n, first
  <2> QED
    BY <1>8, <2>1
<1> QED
  BY <1>10, <1>11, <1>12, <1>13 DEF Adds, r, b, ht

\* Chains of the old records stay.
LEMMA ReachStays ==
  ASSUME NEW a, NEW b, NEW k, NEW d, Typed(a), Backwards(a), Backwards(b), Adds(a, b, k, d),
         NEW i \in 0..Len(a.tbl), NEW r
  PROVE  Reach(b, i, r) <=> Reach(a, i, r)
<1>1. Len(a.tbl) \in Nat /\ Typed(b) /\ Len(b.tbl) = Len(a.tbl) + 1
      /\ \A j \in 1..Len(a.tbl) : b.tbl[j].next = a.tbl[j].next
  BY DEF Typed, Adds
<1> DEFINE T == {n \in 0..Len(a.tbl) : ~ (Reach(b, n, r) <=> Reach(a, n, r))}
<1> SUFFICES ASSUME T # {} PROVE FALSE
  OBVIOUS
<1>2. PICK n \in T : \A m \in T : n <= m
  <2>1. T \in SUBSET Nat
    BY <1>1
  <2> HIDE DEF T
  <2> QED
    BY <2>1, LeastNat
<1>3. n \in 0..Len(a.tbl) /\ ~ (Reach(b, n, r) <=> Reach(a, n, r))
  OBVIOUS
<1>4. n \in 0..Len(b.tbl)
  BY <1>1, <1>3
<1>5. Reach(a, n, r) <=> n # 0 /\ (r = n \/ Reach(a, a.tbl[n].next, r))
  BY <1>3, ReachIs
<1>6. Reach(b, n, r) <=> n # 0 /\ (r = n \/ Reach(b, b.tbl[n].next, r))
  BY <1>1, <1>4, ReachIs
<1>7. CASE n = 0
  BY <1>3, <1>5, <1>6, <1>7
<1>8. CASE n # 0
  <2> DEFINE m == a.tbl[n].next
  <2>1. n \in 1..Len(a.tbl)
    BY <1>1, <1>3, <1>8
  <2>2. m \in 0..n - 1 /\ b.tbl[n].next = m
    BY <1>1, <2>1 DEF Backwards
  <2> HIDE DEF m
  <2>3. m \in 0..Len(a.tbl) /\ ~ (n <= m)
    BY <1>1, <2>1, <2>2
  <2>4. Reach(b, m, r) <=> Reach(a, m, r)
    BY <1>2, <2>3
  <2> QED
    BY <1>3, <1>5, <1>6, <2>2, <2>4 DEF m
<1> QED
  BY <1>7, <1>8

\* An array is as it should be with a record more.
LEMMA AddsLinked ==
  ASSUME AssocArraysAssumption, NEW a, NEW b, NEW k \in AllKeys, NEW d, WellLinked(a), Adds(a, b, k, d),
         \A i \in 1..Len(a.tbl) : a.tbl[i].key # k
  PROVE  WellLinked(b)
<1> DEFINE n == Len(a.tbl)
           h == Slot(k, a.size)
           first == a.ht[h]
<1>1. Typed(a) /\ Backwards(a) /\ n \in Nat /\ a.size \in Nat \ {0} /\ a.ht \in [0..a.size - 1 -> 0..n]
  BY DEF WellLinked, Typed
<1>2. h \in 0..a.size - 1
  BY <1>1, SlotType
<1>3. first \in 0..n
  BY <1>1, <1>2
<1>4. /\ Typed(b) /\ b.size = a.size /\ Len(b.tbl) = n + 1
      /\ b.ht = [a.ht EXCEPT ![h] = n + 1]
  BY DEF Adds
<1>5. \A j \in 1..n : /\ b.tbl[j].key = a.tbl[j].key /\ b.tbl[j].next = a.tbl[j].next
                      /\ b.tbl[j].from = IF j = first THEN << "next", n + 1 >> ELSE a.tbl[j].from
  BY DEF Adds
<1>6. b.tbl[n + 1].key = k /\ b.tbl[n + 1].next = first /\ b.tbl[n + 1].from = << "ht", h >>
  BY DEF Adds
<1> HIDE DEF n, h, first
<1>7. b.ht[h] = n + 1 /\ \A g \in 0..a.size - 1 : g # h => b.ht[g] = a.ht[g]
  BY <1>1, <1>2, <1>4
<1>8. \A j \in 1..n + 1 : j \in 1..n \/ j = n + 1
  BY <1>1
<1>9. Backwards(b)
  <2>1. \A j \in 1..n : a.tbl[j].next \in 0..j - 1
    BY <1>1 DEF Backwards, n
  <2>2. \A j \in 1..n : b.tbl[j].next \in 0..j - 1
    BY <1>5, <2>1
  <2>3. b.tbl[n + 1].next \in 0..(n + 1) - 1
    BY <1>1, <1>3, <1>6
  <2> QED
    BY <1>4, <1>8, <2>2, <2>3 DEF Backwards
<1>10. KeysOnce(b)
  <2>1. \A i, j \in 1..n : a.tbl[i].key = a.tbl[j].key => i = j
    BY DEF WellLinked, KeysOnce, n
  <2>2. \A i \in 1..n : a.tbl[i].key # k
    BY DEF n
  <2>3. ASSUME NEW i \in 1..n + 1, NEW j \in 1..n + 1, b.tbl[i].key = b.tbl[j].key PROVE i = j
    <3>1. CASE i \in 1..n /\ j \in 1..n
      BY <1>5, <2>1, <2>3, <3>1
    <3>2. CASE i = n + 1 /\ j \in 1..n
      BY <1>5, <1>6, <2>2, <2>3, <3>2
    <3>3. CASE i \in 1..n /\ j = n + 1
      BY <1>5, <1>6, <2>2, <2>3, <3>3
    <3> QED
      BY <1>8, <3>1, <3>2, <3>3
  <2> QED
    BY <1>4, <2>3 DEF KeysOnce
<1>11. Chained(b)
  <2>1. \A g \in 0..a.size - 1, r \in 1..n : Reach(a, a.ht[g], r) <=> Slot(a.tbl[r].key, a.size) = g
    BY DEF WellLinked, Chained, n
  <2>2. ASSUME NEW i \in 0..n, NEW r PROVE Reach(b, i, r) <=> Reach(a, i, r)
    BY <1>1, <1>9, ReachStays DEF n
  <2>3. ASSUME NEW i \in 0..n PROVE ~Reach(b, i, n + 1)
    <3>1. SUFFICES ASSUME Reach(b, i, n + 1) PROVE FALSE
      OBVIOUS
    <3>2. i \in 0..Len(b.tbl)
      BY <1>1, <1>4
    <3>3. n + 1 \in 1..i
      BY <1>4, <1>9, <3>1, <3>2, ReachRange
    <3> QED
      BY <1>1, <3>3
  <2>4. ASSUME NEW r PROVE Reach(b, n + 1, r) <=> (r = n + 1 \/ Reach(b, first, r))
    <3>1. n + 1 \in 0..Len(b.tbl) /\ n + 1 # 0
      BY <1>1, <1>4
    <3> QED
      BY <1>4, <1>6, <1>9, <3>1, ReachIs
  <2>5. ASSUME NEW g \in 0..a.size - 1, NEW r \in 1..n + 1
        PROVE  Reach(b, b.ht[g], r) <=> Slot(b.tbl[r].key, a.size) = g
    <3>1. CASE g = h /\ r \in 1..n
      <4>1. r # n + 1
        BY <1>1, <3>1
      <4>2. Reach(b, b.ht[g], r) <=> Reach(b, first, r)
        BY <1>7, <2>4, <3>1, <4>1
      <4>3. Reach(b, first, r) <=> Reach(a, first, r)
        BY <1>3, <2>2
      <4>4. Reach(a, first, r) <=> Slot(a.tbl[r].key, a.size) = g
        BY <2>1, <3>1 DEF first
      <4>5. b.tbl[r].key = a.tbl[r].key
        BY <1>5, <3>1
      <4> QED
        BY <4>2, <4>3, <4>4, <4>5
    <3>2. CASE g = h /\ r = n + 1
      <4>1. Reach(b, b.ht[g], r)
        BY <1>7, <2>4, <3>2
      <4>2. Slot(b.tbl[r].key, a.size) = g
        BY <1>6, <3>2 DEF h
      <4> QED
        BY <4>1, <4>2
    <3>3. CASE g # h /\ r \in 1..n
      <4>1. a.ht[g] \in 0..n /\ b.ht[g] = a.ht[g]
        BY <1>1, <1>7, <3>3
      <4>2. Reach(b, b.ht[g], r) <=> Reach(a, a.ht[g], r)
        BY <2>2, <4>1
      <4>3. b.tbl[r].key = a.tbl[r].key
        BY <1>5, <3>3
      <4> QED
        BY <2>1, <3>3, <4>2, <4>3
    <3>4. CASE g # h /\ r = n + 1
      <4>1. a.ht[g] \in 0..n /\ b.ht[g] = a.ht[g]
        BY <1>1, <1>7, <3>4
      <4>2. ~Reach(b, b.ht[g], r)
        BY <2>3, <3>4, <4>1
      <4>3. Slot(b.tbl[r].key, a.size) = h
        BY <1>6, <3>4 DEF h
      <4> QED
        BY <3>4, <4>2, <4>3
    <3> QED
      BY <1>8, <3>1, <3>2, <3>3, <3>4
  <2> QED
    BY <1>4, <2>5 DEF Chained
<1>12. Backlinked(b)
  <2>1. ASSUME NEW i \in 1..n
        PROVE  \/ a.tbl[i].from[1] = "ht" /\ a.tbl[i].from[2] \in 0..a.size - 1 /\ a.ht[a.tbl[i].from[2]] = i
               \/ a.tbl[i].from[1] = "next" /\ a.tbl[i].from[2] \in 1..n /\ a.tbl[a.tbl[i].from[2]].next = i
    BY DEF WellLinked, Backlinked, n
  <2> DEFINE Links(i, f) ==
        \/ f[1] = "ht" /\ f[2] \in 0..a.size - 1 /\ b.ht[f[2]] = i
        \/ f[1] = "next" /\ f[2] \in 1..n + 1 /\ b.tbl[f[2]].next = i
  <2>2. n + 1 \in 1..n + 1 /\ \A x \in 1..n : x \in 1..n + 1
    BY <1>1
  <2>3. Links(n + 1, b.tbl[n + 1].from)
    BY <1>2, <1>6, <1>7
  <2>4. ASSUME NEW i \in 1..n PROVE Links(i, b.tbl[i].from)
    <3>1. CASE i = first
      <4>1. b.tbl[i].from = << "next", n + 1 >>
        BY <1>5, <3>1
      <4> QED
        BY <1>6, <2>2, <3>1, <4>1
    <3>2. CASE i # first
      <4> DEFINE f == a.tbl[i].from
      <4>1. b.tbl[i].from = f
        BY <1>5, <3>2
      <4>2. \/ f[1] = "ht" /\ f[2] \in 0..a.size - 1 /\ a.ht[f[2]] = i
            \/ f[1] = "next" /\ f[2] \in 1..n /\ a.tbl[f[2]].next = i
        BY <2>1
      <4> HIDE DEF f
      <4>3. CASE f[1] = "ht" /\ f[2] \in 0..a.size - 1 /\ a.ht[f[2]] = i
        <5>1. f[2] # h
          BY <3>2, <4>3 DEF first
        <5> QED
          BY <1>7, <4>1, <4>3, <5>1
      <4>4. CASE f[1] = "next" /\ f[2] \in 1..n /\ a.tbl[f[2]].next = i
        BY <1>5, <2>2, <4>1, <4>4
      <4> QED
        BY <4>2, <4>3, <4>4
    <3> QED
      BY <3>1, <3>2
  <2>5. \A i \in 1..n + 1 : Links(i, b.tbl[i].from)
    BY <1>8, <2>3, <2>4
  <2> QED
    BY <1>4, <2>5 DEF Backlinked
<1> QED
  BY <1>4, <1>9, <1>10, <1>11, <1>12 DEF WellLinked

-----------------------------------------------------------------------------
(* What is found. *)

LEMMA RecordTypes ==
  ASSUME NEW a, Typed(a), NEW i \in 1..Len(a.tbl)
  PROVE  a.tbl[i].key \in AllKeys /\ a.tbl[i].data \in AllData
<1> DEFINE r == a.tbl[i]
<1>1. r \in Recs
  BY DEF Typed
<1> HIDE DEF r
<1>2. r.key \in AllKeys /\ r.data \in AllData
  BY <1>1 DEF Recs
<1> QED
  BY <1>2 DEF r

\* The record with a key is found, if there is one.
LEMMA FoundIs ==
  ASSUME AssocArraysAssumption, NEW a, WellLinked(a), NEW k \in AllKeys
  PROVE  /\ \A r \in 1..Len(a.tbl) : a.tbl[r].key = k => Found(a, k) = r
         /\ (\A r \in 1..Len(a.tbl) : a.tbl[r].key # k) => Found(a, k) = 0
<1> DEFINE n == Len(a.tbl)
           h == Slot(k, a.size)
           chain == Chain(a, a.ht[h])
           hits == {i \in DOMAIN chain : a.tbl[chain[i]].key = k}
           q == CHOOSE i \in hits : \A j \in hits : i <= j
<1>1. Typed(a) /\ Backwards(a) /\ n \in Nat /\ a.size \in Nat \ {0} /\ a.ht \in [0..a.size - 1 -> 0..n]
  BY DEF WellLinked, Typed
<1>2. h \in 0..a.size - 1
  BY <1>1, SlotType
<1>3. a.ht[h] \in 0..n
  BY <1>1, <1>2
<1>4. chain \in Seq(1..n)
  <2>1. chain \in Seq(1..a.ht[h])
    BY <1>1, <1>3, ChainType
  <2>2. 1..a.ht[h] \subseteq 1..n
    BY <1>1, <1>3
  <2> HIDE DEF chain, n, h
  <2> QED
    BY <2>1, <2>2, SeqWider
<1>5. Found(a, k) = IF hits = {} THEN 0 ELSE chain[q]
  BY DEF Found, ChainOf, NotFound
<1>6. ASSUME NEW r \in 1..n, a.tbl[r].key = k PROVE Found(a, k) = r
  <2>1. Reach(a, a.ht[h], r)
    BY <1>2, <1>6 DEF WellLinked, Chained
  <2>2. hits # {}
    BY <1>6, <2>1 DEF Reach
  <2>3. DOMAIN chain \subseteq Nat /\ \A p \in DOMAIN chain : chain[p] \in 1..n
    BY <1>4
  <2>4. hits \in SUBSET Nat
    BY <2>3
  <2>5. q \in hits
    <3> HIDE DEF hits
    <3> QED
      BY <2>2, <2>4, LeastNat
  <2>6. chain[q] \in 1..n /\ a.tbl[chain[q]].key = k
    <3> HIDE DEF q
    <3> QED
      BY <2>3, <2>5
  <2> HIDE DEF chain, q, hits
  <2>7. chain[q] = r
    BY <1>6, <2>6 DEF WellLinked, KeysOnce
  <2> QED
    BY <1>5, <2>2, <2>7
<1>7. ASSUME \A r \in 1..n : a.tbl[r].key # k PROVE Found(a, k) = 0
  <2>1. \A p \in DOMAIN chain : chain[p] \in 1..n
    BY <1>4
  <2>2. hits = {}
    BY <1>7, <2>1
  <2> QED
    BY <1>5, <2>2
<1> QED
  BY <1>6, <1>7

\* The records are there once, and found.
LEMMA LinkedOnce ==
  ASSUME AssocArraysAssumption, NEW a, WellLinked(a)
  PROVE  EachOnce(a) /\ FromLinksBack(a)
<1>1. DOMAIN a.tbl = 1..Len(a.tbl) /\ a.tbl \in Seq(Recs)
  BY DEF WellLinked, Typed
<1>2. \A i \in 1..Len(a.tbl) : a.tbl[i].key \in AllKeys
  BY RecordTypes DEF WellLinked
<1>3. EachOnce(a)
  BY <1>1, <1>2, FoundIs DEF EachOnce, WellLinked, KeysOnce
<1>4. FromLinksBack(a)
  BY <1>1 DEF FromLinksBack, WellLinked, Backlinked
<1> QED
  BY <1>3, <1>4

\* The keys of the records, and what the dictionary has for them.
LEMMA ContentIs ==
  ASSUME AssocArraysAssumption, NEW a, WellLinked(a)
  PROVE  /\ Content(a) = [x \in DOMAIN Content(a) |-> Content(a)[x]]
         /\ \A x : x \in DOMAIN Content(a) <=> \E i \in 1..Len(a.tbl) : a.tbl[i].key = x
         /\ \A i \in 1..Len(a.tbl) : Content(a)[a.tbl[i].key] = a.tbl[i].data
<1> DEFINE K == {x \in AllKeys : Found(a, x) # 0}
<1>1. a.tbl \in Seq(Recs) /\ Len(a.tbl) \in Nat
  BY DEF WellLinked, Typed
<1>2. \A i \in 1..Len(a.tbl) : a.tbl[i].key \in AllKeys
  BY RecordTypes DEF WellLinked
<1>3. Content(a) = [x \in K |-> a.tbl[Found(a, x)].data]
  BY DEF Content, Find, AllKeys, NotFound
<1>4. ASSUME NEW x PROVE x \in K <=> \E i \in 1..Len(a.tbl) : a.tbl[i].key = x
  <2>1. ASSUME NEW i \in 1..Len(a.tbl), a.tbl[i].key = x PROVE x \in K
    <3>1. x \in AllKeys /\ Found(a, x) = i
      BY <1>2, <2>1, FoundIs
    <3> QED
      BY <1>1, <3>1
  <2>2. ASSUME x \in K PROVE \E i \in 1..Len(a.tbl) : a.tbl[i].key = x
    BY <2>2, FoundIs
  <2> QED
    BY <2>1, <2>2
<1>5. \A i \in 1..Len(a.tbl) : Found(a, a.tbl[i].key) = i
  BY <1>2, FoundIs
<1> HIDE DEF K
<1>6. DOMAIN Content(a) = K
  BY <1>3
<1>7. \A i \in 1..Len(a.tbl) : Content(a)[a.tbl[i].key] = a.tbl[i].data
  BY <1>3, <1>4, <1>5
<1> QED
  BY <1>3, <1>4, <1>6, <1>7

\* One record more is one key more.
LEMMA AddsContent ==
  ASSUME AssocArraysAssumption, NEW a, NEW b, NEW k \in AllKeys, NEW d,
         WellLinked(a), WellLinked(b), Adds(a, b, k, d),
         \A i \in 1..Len(a.tbl) : a.tbl[i].key # k
  PROVE  Content(b) = D!With(Content(a), k, d)
<1> DEFINE n == Len(a.tbl)
           c == Content(a)
           e == Content(b)
<1>1. n \in Nat /\ Len(b.tbl) = n + 1 /\ b.tbl[n + 1].key = k /\ b.tbl[n + 1].data = d
      /\ \A j \in 1..n : b.tbl[j].key = a.tbl[j].key /\ b.tbl[j].data = a.tbl[j].data
  BY DEF Adds, WellLinked, Typed
<1>2. /\ c = [x \in DOMAIN c |-> c[x]]
      /\ \A x : x \in DOMAIN c <=> \E i \in 1..n : a.tbl[i].key = x
      /\ \A i \in 1..n : c[a.tbl[i].key] = a.tbl[i].data
  BY ContentIs
<1>3. /\ e = [x \in DOMAIN e |-> e[x]]
      /\ \A x : x \in DOMAIN e <=> \E i \in 1..Len(b.tbl) : b.tbl[i].key = x
      /\ \A i \in 1..Len(b.tbl) : e[b.tbl[i].key] = b.tbl[i].data
  BY ContentIs
<1>4. k \notin DOMAIN c
  BY <1>2
<1>5. D!With(c, k, d) = [x \in DOMAIN c \cup {k} |-> IF x = k THEN d ELSE c[x]]
  BY <1>4 DEF D!With
<1>6. \A j \in 1..n + 1 : j \in 1..n \/ j = n + 1
  BY <1>1
<1>7. n + 1 \in 1..n + 1 /\ \A j \in 1..n : j \in 1..n + 1
  BY <1>1
<1> HIDE DEF n, c, e
<1>8. DOMAIN e = DOMAIN c \cup {k}
  <2>1. ASSUME NEW x \in DOMAIN e PROVE x \in DOMAIN c \cup {k}
    <3>1. PICK i \in 1..n + 1 : b.tbl[i].key = x
      BY <1>1, <1>3, <2>1
    <3>2. CASE i \in 1..n
      BY <1>1, <1>2, <3>1, <3>2
    <3>3. CASE i = n + 1
      BY <1>1, <3>1, <3>3
    <3> QED
      BY <1>6, <3>2, <3>3
  <2>2. ASSUME NEW x \in DOMAIN c PROVE x \in DOMAIN e
    <3>1. PICK i \in 1..n : a.tbl[i].key = x
      BY <1>2, <2>2
    <3>2. b.tbl[i].key = x /\ i \in 1..Len(b.tbl)
      BY <1>1, <1>7, <3>1
    <3> QED
      BY <1>3, <3>2
  <2>3. k \in DOMAIN e
    BY <1>1, <1>3, <1>7
  <2> QED
    BY <2>1, <2>2, <2>3
<1>9. e[k] = d
  BY <1>1, <1>3, <1>7
<1>10. \A x \in DOMAIN c : e[x] = c[x]
  BY SMTT(40), <1>1, <1>2, <1>3, <1>7
<1>11. \A x \in DOMAIN e : e[x] = IF x = k THEN d ELSE c[x]
  BY <1>8, <1>9, <1>10
<1> QED
  BY <1>3, <1>5, <1>8, <1>11 DEF c, e

-----------------------------------------------------------------------------
(* Growing. *)

\* g has the array of twice the size with each of the first n records linked again.
IsGrowth(a, g, n) ==
  g = [m \in 0..n |-> IF m = 0 THEN Array(2 * a.size) ELSE Linked(g[m-1], a.tbl[m].key, a.tbl[m].data)]

LEMMA GrowthExists ==
  ASSUME NEW a, Typed(a)
  PROVE  \E g : IsGrowth(a, g, Len(a.tbl))
<1>1. Len(a.tbl) \in Nat
  BY DEF Typed
<1> DEFINE T == {n \in 0..Len(a.tbl) : ~\E g : IsGrowth(a, g, n)}
<1> SUFFICES ASSUME T # {} PROVE FALSE
  BY <1>1
<1>2. PICK n \in T : \A m \in T : n <= m
  <2>1. T \in SUBSET Nat
    BY <1>1
  <2> HIDE DEF T
  <2> QED
    BY <2>1, LeastNat
<1>3. n \in 0..Len(a.tbl) /\ ~\E g : IsGrowth(a, g, n)
  OBVIOUS
<1>4. n # 0
  <2>1. IsGrowth(a, [m \in 0..0 |-> Array(2 * a.size)], 0)
    BY DEF IsGrowth
  <2> QED
    BY <1>3, <2>1
<1>5. n - 1 \in 0..Len(a.tbl) /\ n - 1 \notin T
  BY <1>1, <1>2, <1>3, <1>4
<1>6. PICK g : IsGrowth(a, g, n - 1)
  BY <1>5
<1> DEFINE e == [m \in 0..n |-> IF m = n THEN Linked(g[n-1], a.tbl[n].key, a.tbl[n].data) ELSE g[m]]
<1>7. e[n] = Linked(g[n-1], a.tbl[n].key, a.tbl[n].data) /\ \A m \in 0..n - 1 : e[m] = g[m]
  BY <1>1, <1>3
<1>8. e = [m \in 0..n |-> e[m]]
  OBVIOUS
<1> HIDE DEF e
<1>9. n - 1 \in 0..n - 1 /\ 0 \in 0..n - 1
  BY <1>1, <1>3, <1>4
<1>10. \A m \in 0..n :
         e[m] = IF m = 0 THEN Array(2 * a.size) ELSE Linked(e[m-1], a.tbl[m].key, a.tbl[m].data)
  <2> TAKE m \in 0..n
  <2>1. CASE m = 0
    <3>1. g[0] = Array(2 * a.size)
      BY <1>6, <1>9 DEF IsGrowth
    <3> QED
      BY <1>7, <1>9, <2>1, <3>1
  <2>2. CASE m = n
    BY <1>4, <1>7, <1>9, <2>2
  <2>3. CASE m # 0 /\ m # n
    <3>1. m \in 0..n - 1 /\ m - 1 \in 0..n - 1
      BY <1>1, <1>3, <2>3
    <3>2. g[m] = Linked(g[m-1], a.tbl[m].key, a.tbl[m].data)
      BY <1>6, <2>3, <3>1 DEF IsGrowth
    <3> QED
      BY <1>7, <2>3, <3>1, <3>2
  <2> QED
    BY <2>1, <2>2, <2>3
<1>11. IsGrowth(a, e, n)
  BY <1>8, <1>10, Zenon DEF IsGrowth
<1> QED
  BY <1>3, <1>11

\* b has the first n records of a, in twice the slots.
Copies(a, b, n) ==
  /\ WellLinked(b) /\ b.size = 2 * a.size /\ Len(b.tbl) = n
  /\ \A i \in 1..n : b.tbl[i].key = a.tbl[i].key /\ b.tbl[i].data = a.tbl[i].data

LEMMA CopiesMore ==
  ASSUME AssocArraysAssumption, NEW a, WellLinked(a), NEW n \in 1..Len(a.tbl), NEW b, Copies(a, b, n - 1)
  PROVE  Copies(a, Linked(b, a.tbl[n].key, a.tbl[n].data), n)
<1> DEFINE k == a.tbl[n].key
           d == a.tbl[n].data
           e == Linked(b, k, d)
<1>1. Typed(a) /\ Len(a.tbl) \in Nat
  BY DEF WellLinked, Typed
<1>2. k \in AllKeys /\ d \in AllData
  BY <1>1, RecordTypes
<1>3. WellLinked(b) /\ Typed(b) /\ b.size = 2 * a.size /\ Len(b.tbl) = n - 1
      /\ \A i \in 1..n - 1 : b.tbl[i].key = a.tbl[i].key /\ b.tbl[i].data = a.tbl[i].data
  BY DEF Copies, WellLinked
<1>4. Adds(b, e, k, d)
  BY <1>2, <1>3, LinkedAdds
<1>5. \A i \in 1..n - 1 : i \in 1..Len(a.tbl) /\ i # n
  BY <1>1
<1>6. \A i, j \in 1..Len(a.tbl) : a.tbl[i].key = a.tbl[j].key => i = j
  BY DEF WellLinked, KeysOnce
<1>7. \A i \in 1..Len(b.tbl) : b.tbl[i].key # k
  BY <1>3, <1>5, <1>6
<1> HIDE DEF k, d, e
<1>8. WellLinked(e)
  BY <1>2, <1>3, <1>4, <1>7, AddsLinked
<1>9. e.size = 2 * a.size /\ Len(e.tbl) = (n - 1) + 1
      /\ \A i \in 1..n - 1 : e.tbl[i].key = b.tbl[i].key /\ e.tbl[i].data = b.tbl[i].data
  BY <1>3, <1>4 DEF Adds
<1>10. e.tbl[(n - 1) + 1] = [key |-> k, data |-> d, next |-> b.ht[Slot(k, b.size)], from |-> << "ht", Slot(k, b.size) >>]
  BY <1>3, <1>4 DEF Adds
<1>11. e.tbl[(n - 1) + 1].key = k /\ e.tbl[(n - 1) + 1].data = d
  BY <1>10
<1>12. (n - 1) + 1 = n /\ \A i \in 1..n : i \in 1..n - 1 \/ i = n
  BY <1>1
<1>13. \A i \in 1..n : e.tbl[i].key = a.tbl[i].key /\ e.tbl[i].data = a.tbl[i].data
  BY <1>3, <1>9, <1>11, <1>12 DEF k, d
<1> QED
  BY <1>8, <1>9, <1>12, <1>13 DEF Copies, e, k, d

\* An array that grows has the same records.
LEMMA GrownCopies ==
  ASSUME AssocArraysAssumption, NEW a, WellLinked(a)
  PROVE  Copies(a, Grown(a), Len(a.tbl))
<1> DEFINE N == Len(a.tbl)
           g == CHOOSE f : f = [m \in 0..N |-> IF m = 0 THEN Array(2 * a.size)
                                               ELSE Linked(f[m-1], a.tbl[m].key, a.tbl[m].data)]
<1>1. Typed(a) /\ N \in Nat /\ a.size \in Nat \ {0}
  BY DEF WellLinked, Typed
<1>2. g = [m \in 0..N |-> IF m = 0 THEN Array(2 * a.size) ELSE Linked(g[m-1], a.tbl[m].key, a.tbl[m].data)]
  BY <1>1, GrowthExists DEF IsGrowth
<1>3. Grown(a) = g[N]
  BY DEF Grown
<1> HIDE DEF g, N
<1> DEFINE T == {n \in 0..N : ~Copies(a, g[n], n)}
<1>4. ASSUME T # {} PROVE FALSE
  <2>1. PICK n \in T : \A m \in T : n <= m
    <3>1. T \in SUBSET Nat
      BY <1>1
    <3> HIDE DEF T
    <3> QED
      BY <1>4, <3>1, LeastNat
  <2>2. n \in 0..N /\ ~Copies(a, g[n], n)
    OBVIOUS
  <2>3. CASE n = 0
    <3>1. g[0] = Array(2 * a.size)
      BY <1>2, <2>2, <2>3
    <3>2. 2 * a.size \in Nat \ {0}
      BY <1>1
    <3> DEFINE b == Array(2 * a.size)
    <3>3. WellLinked(b) /\ b.size = 2 * a.size /\ b.tbl = << >>
      BY <3>2, EmptyLinked
    <3> HIDE DEF b
    <3>4. Copies(a, b, 0)
      BY <3>3 DEF Copies
    <3> QED
      BY <2>2, <2>3, <3>1, <3>4 DEF b
  <2>4. CASE n # 0
    <3>1. n \in 1..N /\ n - 1 \in 0..N /\ ~ (n <= n - 1)
      BY <1>1, <2>2, <2>4
    <3>2. Copies(a, g[n-1], n - 1)
      BY <2>1, <3>1
    <3>3. g[n] = Linked(g[n-1], a.tbl[n].key, a.tbl[n].data)
      BY <1>2, <2>2, <2>4
    <3>4. Copies(a, g[n], n)
      BY <3>1, <3>2, <3>3, CopiesMore DEF N
    <3> QED
      BY <2>2, <3>4
  <2> QED
    BY <2>3, <2>4
<1>5. N \in 0..N
  BY <1>1
<1> QED
  BY <1>3, <1>4, <1>5 DEF N

\* A growing array keeps what it says.
LEMMA CopiesContent ==
  ASSUME AssocArraysAssumption, NEW a, WellLinked(a), NEW b, Copies(a, b, Len(a.tbl))
  PROVE  Content(b) = Content(a)
<1> DEFINE n == Len(a.tbl)
           c == Content(a)
           e == Content(b)
<1>1. /\ c = [x \in DOMAIN c |-> c[x]]
      /\ \A x : x \in DOMAIN c <=> \E i \in 1..n : a.tbl[i].key = x
      /\ \A i \in 1..n : c[a.tbl[i].key] = a.tbl[i].data
  BY ContentIs
<1>2. WellLinked(b) /\ Len(b.tbl) = n
      /\ \A i \in 1..n : b.tbl[i].key = a.tbl[i].key /\ b.tbl[i].data = a.tbl[i].data
  BY DEF Copies
<1>3. /\ e = [x \in DOMAIN e |-> e[x]]
      /\ \A x : x \in DOMAIN e <=> \E i \in 1..Len(b.tbl) : b.tbl[i].key = x
      /\ \A i \in 1..Len(b.tbl) : e[b.tbl[i].key] = b.tbl[i].data
  BY <1>2, ContentIs
<1> HIDE DEF n, c, e
<1>4. /\ \A x : x \in DOMAIN e <=> \E i \in 1..n : a.tbl[i].key = x
      /\ \A i \in 1..n : e[a.tbl[i].key] = a.tbl[i].data
  BY <1>2, <1>3
<1>5. DOMAIN e = DOMAIN c
  BY <1>1, <1>4
<1>6. \A x \in DOMAIN c : e[x] = c[x]
  BY <1>1, <1>4
<1> QED
  BY <1>1, <1>3, <1>5, <1>6 DEF c, e

-----------------------------------------------------------------------------
(* Inserting. *)

LEMMA LinkedContent ==
  ASSUME AssocArraysAssumption, NEW a, WellLinked(a), NEW k \in AllKeys, NEW d \in AllData,
         \A i \in 1..Len(a.tbl) : a.tbl[i].key # k
  PROVE  WellLinked(Linked(a, k, d)) /\ Content(Linked(a, k, d)) = D!With(Content(a), k, d)
<1>1. Typed(a)
  BY DEF WellLinked
<1>2. Adds(a, Linked(a, k, d), k, d)
  BY <1>1, LinkedAdds
<1>3. WellLinked(Linked(a, k, d))
  BY <1>2, AddsLinked
<1> QED
  BY <1>2, <1>3, AddsContent

\* An insertion is one into the dictionary, or without effect for lack of memory.
LEMMA InsertedIs ==
  ASSUME AssocArraysAssumption, NEW a, WellLinked(a), NEW k \in AllKeys, NEW d \in AllData, NEW memory
  PROVE  /\ WellLinked(Inserted(a, k, d, memory))
         /\ Content(Inserted(a, k, d, memory)) \in {Content(a), D!With(Content(a), k, d)}
<1> DEFINE b == Inserted(a, k, d, memory)
<1>1. CASE Found(a, k) # 0 \/ b = a
  <2>1. b = a
    BY <1>1 DEF Inserted, NotFound
  <2> HIDE DEF b
  <2> QED
    BY <2>1 DEF b
<1>2. CASE Found(a, k) = 0 /\ b # a
  <2>1. \A i \in 1..Len(a.tbl) : a.tbl[i].key # k
    <3>1. Len(a.tbl) \in Nat
      BY DEF WellLinked, Typed
    <3>2. \A i \in 1..Len(a.tbl) : i # 0
      BY <3>1
    <3> QED
      BY <1>2, <3>2, FoundIs
  <2>2. b = Linked(a, k, d) \/ b = Linked(Grown(a), k, d)
    BY <1>2 DEF Inserted, NotFound
  <2>3. CASE b = Linked(a, k, d)
    BY <2>1, <2>3, LinkedContent
  <2>4. CASE b = Linked(Grown(a), k, d)
    <3> DEFINE g == Grown(a)
    <3>1. Copies(a, g, Len(a.tbl))
      BY GrownCopies
    <3>2. Content(g) = Content(a)
      BY <3>1, CopiesContent
    <3>3. WellLinked(g) /\ \A i \in 1..Len(g.tbl) : g.tbl[i].key # k
      BY <2>1, <3>1 DEF Copies
    <3> HIDE DEF g
    <3>4. WellLinked(Linked(g, k, d)) /\ Content(Linked(g, k, d)) = D!With(Content(g), k, d)
      BY <3>3, LinkedContent
    <3> QED
      BY <2>4, <3>2, <3>4 DEF g
  <2> QED
    BY <2>2, <2>3, <2>4
<1> QED
  BY <1>1, <1>2

LEMMA ClearedIs ==
  ASSUME AssocArraysAssumption, NEW size \in Nat \ {0}
  PROVE  WellLinked(Array(size)) /\ Content(Array(size)) = D!Empty
<1> DEFINE a == Array(size)
<1>1. WellLinked(a) /\ a.tbl = << >>
  BY EmptyLinked
<1> HIDE DEF a
<1>2. 1..Len(a.tbl) = {}
  BY <1>1
<1>3. Content(a) = [x \in DOMAIN Content(a) |-> Content(a)[x]] /\ DOMAIN Content(a) = {}
  BY <1>1, <1>2, ContentIs
<1>4. Content(a) = D!Empty
  BY <1>3 DEF D!Empty
<1> QED
  BY <1>1, <1>4 DEF a

-----------------------------------------------------------------------------
(* The four arrays. *)

\* The inductive invariant.
AllLinked ==
  /\ arrays = [a \in Arrays |-> arrays[a]]
  /\ \A a \in Arrays : WellLinked(arrays[a])

dict == [a \in Arrays |-> Content(arrays[a])]

\* What one array becomes is what one entry of the dictionaries becomes.
LEMMA OneChanges ==
  ASSUME AllLinked, NEW a \in Arrays, NEW new, arrays' = [arrays EXCEPT ![a] = new], WellLinked(new)
  PROVE  AllLinked' /\ dict' = [dict EXCEPT ![a] = Content(new)]
<1>1. DOMAIN arrays = Arrays
  BY DEF AllLinked
<1>2. arrays' = [b \in Arrays |-> IF b = a THEN new ELSE arrays[b]]
  BY <1>1
<1>3. dict' = [b \in Arrays |-> IF b = a THEN Content(new) ELSE Content(arrays[b])]
  BY <1>2 DEF dict
<1> QED
  BY <1>2, <1>3 DEF AllLinked, dict

LEMMA TwoChange ==
  ASSUME AllLinked, NEW new, NEW other, WellLinked(new), WellLinked(other),
         arrays' = [arrays EXCEPT !["x1"] = new, !["x2"] = other]
  PROVE  AllLinked' /\ dict' = [dict EXCEPT !["x1"] = Content(new), !["x2"] = Content(other)]
<1>1. DOMAIN arrays = Arrays /\ "x1" # "x2"
  BY DEF AllLinked
<1>2. arrays' = [c \in Arrays |-> IF c = "x2" THEN other ELSE IF c = "x1" THEN new ELSE arrays[c]]
  BY <1>1
<1>3. dict' = [c \in Arrays |-> IF c = "x2" THEN Content(other) ELSE IF c = "x1" THEN Content(new) ELSE Content(arrays[c])]
  BY <1>2 DEF dict
<1>4. AllLinked'
  BY <1>2 DEF AllLinked
<1> QED
  BY <1>1, <1>3, <1>4 DEF dict

\* An insertion into one array is one into one dictionary, or none.
LEMMA InsertStep ==
  ASSUME AssocArraysAssumption, AllLinked, NEW a \in Arrays, NEW k \in AllKeys, NEW d \in AllData, NEW memory,
         arrays' = [arrays EXCEPT ![a] = Inserted(@, k, d, memory)]
  PROVE  AllLinked' /\ (dict' = dict \/ D!Insert(a, k, d))
<1> DEFINE old == arrays[a]
           new == Inserted(old, k, d, memory)
<1>1. WellLinked(old)
  BY DEF AllLinked
<1>2. WellLinked(new) /\ Content(new) \in {Content(old), D!With(Content(old), k, d)}
  BY <1>1, InsertedIs
<1>3. arrays' = [arrays EXCEPT ![a] = new]
  OBVIOUS
<1> HIDE DEF new
<1>4. AllLinked' /\ dict' = [dict EXCEPT ![a] = Content(new)]
  BY <1>2, <1>3, OneChanges
<1>5. dict[a] = Content(old)
  BY DEF dict
<1>6. CASE Content(new) = Content(old)
  <2>1. dict' = dict
    BY <1>4, <1>5, <1>6 DEF dict
  <2> QED
    BY <1>4, <2>1
<1>7. CASE Content(new) = D!With(Content(old), k, d)
  <2>1. D!Insert(a, k, d)
    BY <1>4, <1>5, <1>7 DEF D!Insert, dict
  <2> QED
    BY <1>4, <2>1
<1> QED
  BY <1>2, <1>6, <1>7

LEMMA SymbolStep ==
  ASSUME AssocArraysAssumption, AllLinked, NEW x \in Names, NEW d \in Data, NEW memory1, NEW memory2,
         Symbol_new(x, d, memory1, memory2)
  PROVE  AllLinked' /\ D!InsertSymbol(x, d)
<1> DEFINE strings == Strsafe_insert(x, memory1)
           symbols == Symbol_insert(d, x, memory2)
<1>1. WellLinked(arrays["x1"]) /\ WellLinked(arrays["x2"])
  BY DEF AllLinked, Arrays
<1>2. x \in AllKeys /\ x \in AllData /\ d \in AllData
  BY DEF AllKeys, AllData
<1>3. WellLinked(strings) /\ Content(strings) \in {Content(arrays["x1"]), D!With(Content(arrays["x1"]), x, x)}
  BY <1>1, <1>2, InsertedIs DEF Strsafe_insert
<1>4. WellLinked(symbols) /\ Content(symbols) \in {Content(arrays["x2"]), D!With(Content(arrays["x2"]), x, d)}
  BY <1>1, <1>2, InsertedIs DEF Symbol_insert
<1>5. Found(arrays["x2"], x) = 0 /\ arrays' = [arrays EXCEPT !["x1"] = strings, !["x2"] = symbols]
  BY DEF Symbol_new, NotFound
<1> HIDE DEF strings, symbols
<1>6. AllLinked' /\ dict' = [dict EXCEPT !["x1"] = Content(strings), !["x2"] = Content(symbols)]
  <2>1. WellLinked(strings) /\ WellLinked(symbols) /\ arrays' = [arrays EXCEPT !["x1"] = strings, !["x2"] = symbols]
    BY <1>3, <1>4, <1>5
  <2> QED
    BY <2>1, TwoChange, Zenon
<1>7. dict["x1"] = Content(arrays["x1"]) /\ dict["x2"] = Content(arrays["x2"])
  BY DEF dict, Arrays
<1>8. x \notin DOMAIN dict["x2"]
  <2>1. Len(arrays["x2"].tbl) \in Nat
    BY <1>1 DEF WellLinked, Typed
  <2>2. \A i \in 1..Len(arrays["x2"].tbl) : arrays["x2"].tbl[i].key # x
    <3>1. \A i \in 1..Len(arrays["x2"].tbl) : i # 0
      BY <2>1
    <3> QED
      BY <1>1, <1>2, <1>5, <3>1, FoundIs
  <2> QED
    BY <1>1, <1>7, <2>2, ContentIs
<1>9. DOMAIN dict = Arrays /\ "x1" \in Arrays /\ "x2" \in Arrays
  BY DEF dict, Arrays
<1>10. dict' = [dict EXCEPT !["x2"] = Content(symbols), !["x1"] = Content(strings)]
  BY <1>6, <1>9
<1>11. \E s \in {dict["x2"], D!With(dict["x2"], x, d)}, t \in {dict["x1"], D!With(dict["x1"], x, x)} :
         dict' = [dict EXCEPT !["x2"] = s, !["x1"] = t]
  BY <1>3, <1>4, <1>7, <1>10
<1> QED
  BY <1>6, <1>8, <1>11 DEF D!InsertSymbol, dict

LEMMA ClearStep ==
  ASSUME AssocArraysAssumption, AllLinked, Configtable_clear
  PROVE  AllLinked' /\ D!Clear
<1> DEFINE size == arrays["x4"].size
<1>1. size \in Nat \ {0} /\ "x4" \in Arrays
  BY DEF AllLinked, WellLinked, Typed, Arrays
<1>2. arrays' = [arrays EXCEPT !["x4"] = Array(size)]
  BY DEF Configtable_clear
<1>3. WellLinked(Array(size)) /\ Content(Array(size)) = D!Empty
  BY <1>1, ClearedIs
<1> HIDE DEF size
<1>4. AllLinked' /\ dict' = [dict EXCEPT !["x4"] = Content(Array(size))]
  BY <1>1, <1>2, <1>3, OneChanges
<1> QED
  BY <1>3, <1>4 DEF D!Clear, dict

\* Every step keeps the arrays linked and is a step of the dictionaries, or none.
LEMMA ArraysStep ==
  ASSUME AssocArraysAssumption, AllLinked, [Next]_arrays
  PROVE  AllLinked' /\ [D!Next]_dict
<1>1. CASE UNCHANGED arrays
  <2>1. AllLinked' /\ dict' = dict
    BY <1>1 DEF AllLinked, dict
  <2> QED
    BY <2>1
<1>2. ASSUME NEW memory \in BOOLEAN, NEW x \in Names, Strsafe(x, memory) PROVE AllLinked' /\ [D!Next]_dict
  <2>1. x \in AllKeys /\ x \in AllData /\ "x1" \in Arrays
    BY <1>2 DEF AllKeys, AllData, Arrays
  <2>2. arrays' = [arrays EXCEPT !["x1"] = Inserted(@, x, x, memory)]
    BY <1>2 DEF Strsafe, Strsafe_insert
  <2>3. AllLinked' /\ (dict' = dict \/ D!Insert("x1", x, x))
    BY <2>1, <2>2, InsertStep
  <2> QED
    BY <1>2, <2>3 DEF D!Next
<1>3. ASSUME NEW memory \in BOOLEAN, NEW memory2 \in BOOLEAN, NEW x \in Names, NEW d \in Data,
             Symbol_new(x, d, memory, memory2)
      PROVE  AllLinked' /\ [D!Next]_dict
  <2>1. AllLinked' /\ D!InsertSymbol(x, d)
    BY <1>3, SymbolStep
  <2> QED
    BY <1>3, <2>1 DEF D!Next
<1>4. ASSUME NEW memory \in BOOLEAN, NEW k \in Keys, NEW d \in Data, State_insert(d, k, memory)
      PROVE  AllLinked' /\ [D!Next]_dict
  <2>1. k \in AllKeys /\ d \in AllData /\ "x3" \in Arrays
    BY <1>4 DEF AllKeys, AllData, Arrays
  <2>2. arrays' = [arrays EXCEPT !["x3"] = Inserted(@, k, d, memory)]
    BY <1>4 DEF State_insert
  <2>3. AllLinked' /\ (dict' = dict \/ D!Insert("x3", k, d))
    BY <2>1, <2>2, InsertStep
  <2> QED
    BY <1>4, <2>3 DEF D!Next
<1>5. ASSUME NEW memory \in BOOLEAN, NEW k \in Keys, Configtable_insert(k, memory)
      PROVE  AllLinked' /\ [D!Next]_dict
  <2>1. k \in AllKeys /\ k \in AllData /\ "x4" \in Arrays
    BY <1>5 DEF AllKeys, AllData, Arrays
  <2>2. arrays' = [arrays EXCEPT !["x4"] = Inserted(@, k, k, memory)]
    BY <1>5 DEF Configtable_insert
  <2>3. AllLinked' /\ (dict' = dict \/ D!Insert("x4", k, k))
    BY <2>1, <2>2, InsertStep
  <2> QED
    BY <1>5, <2>3 DEF D!Next
<1>6. CASE Configtable_clear
  <2>1. AllLinked' /\ D!Clear
    BY <1>6, ClearStep
  <2> QED
    BY <2>1 DEF D!Next
<1>7. CASE NamesNext
  BY <1>2, <1>3, <1>7 DEF NamesNext
<1>8. CASE KeysNext
  BY <1>4, <1>5, <1>6, <1>8 DEF KeysNext
<1> QED
  BY <1>1, <1>7, <1>8 DEF Next

\* Strsafe_init, Symbol_init, State_init, Configtable_init.
LEMMA ArraysInit ==
  ASSUME AssocArraysAssumption, Init
  PROVE  AllLinked /\ dict = [a \in Arrays |-> D!Empty]
<1>1. arrays = [a \in Arrays |-> Array(InitialSize)] /\ InitialSize \in Nat \ {0}
  BY DEF Init, AssocArraysAssumption
<1>2. WellLinked(Array(InitialSize)) /\ Content(Array(InitialSize)) = D!Empty
  BY <1>1, ClearedIs
<1> QED
  BY <1>1, <1>2 DEF AllLinked, dict

-----------------------------------------------------------------------------
(* Theorems. *)

\* The four tables of lemon (table.c in lemon.c:4235-4895) are dictionaries, for any strings,
\* keys and data, any hash function and any first size: a key is found as soon as and as long
\* as it is inserted, with the data it was inserted with, through every collision, every
\* growth (lemon.c:4325-4348) and every failure of memory.
THEOREM DictionariesCorrect ==
  ASSUME AssocArraysAssumption
  PROVE  Spec => Refines
<1>1. Init => AllLinked /\ D!Init
  BY ArraysInit DEF D!Init, dict
<1>2. AllLinked /\ [Next]_arrays => AllLinked' /\ [D!Next]_dict
  BY ArraysStep
<1> QED
  BY <1>1, <1>2, PTL DEF Spec, Refines, D!Spec, dict

\* Each key once, in the order of insertion, found where it is, and linked from where its
\* `from` says (x1node, lemon.c:4276-4281; Symbol_arrayof and State_arrayof, lemon.c:4567, 4748).
THEOREM OnceInOrderCorrect ==
  ASSUME AssocArraysAssumption
  PROVE  Spec => []EachOnceInOrder
<1>1. Init => AllLinked
  BY ArraysInit
<1>2. AllLinked /\ [Next]_arrays => AllLinked'
  BY ArraysStep
<1>3. AllLinked => EachOnceInOrder
  BY LinkedOnce DEF AllLinked, EachOnceInOrder
<1> QED
  BY <1>1, <1>2, <1>3, PTL DEF Spec
=============================================================================
