----------------------------- MODULE AssocArrays -----------------------------
(***************************************************************************)
(* The four associative arrays of lemon (table.c in lemon.c): x1, strings; *)
(* x2, symbols by their names; x3, states by their basis; x4,              *)
(* configurations.  Records are kept in the order they came, chained by    *)
(* hash; an array that is full moves to one of twice its size.             *)
(***************************************************************************)
EXTENDS Integers, Sequences

CONSTANTS
  Names,         \* strings
  Keys,          \* bases of states and configurations
  Data,          \* states and symbols
  HashOf,        \* strhash, statehash and confighash: name or key -> number
  InitialSize    \* 1024, 128, 128 and 64 slots

AssocArraysAssumption ==
  InitialSize \in Nat \ {0} /\ HashOf \in [Names \union Keys -> Nat]

VARIABLE arrays   \* x1a, x2a, x3a and x4a

Arrays == {"x1", "x2", "x3", "x4"}

\* tbl: records, by the number they were inserted with; ht: slot -> first record, 0 for none.
Array(size) == [size |-> size, tbl |-> << >>, ht |-> [h \in 0..size-1 |-> 0]]

Init == arrays = [a \in Arrays |-> Array(InitialSize)]

\* ph & (size-1), for a size that is a power of two
Slot(k, size) == HashOf[k] % size

\* The records from the i-th on along next.
Chain(array, i) ==
  LET c[j \in 0..Len(array.tbl)] == IF j = 0 THEN << >> ELSE << j >> \o c[array.tbl[j].next] IN c[i]

ChainOf(array, k) == Chain(array, array.ht[Slot(k, array.size)])

NotFound == 0

\* The number of the record with the key.
Found(array, k) ==
  LET chain == ChainOf(array, k)
      hits == {i \in DOMAIN chain : array.tbl[chain[i]].key = k}
  IN  IF hits = {} THEN NotFound ELSE chain[CHOOSE i \in hits : \A j \in hits : i <= j]

\* ht[h]->from = &(np->next)
PushedBack(tbl, first, new) ==
  IF first = 0 THEN tbl ELSE [tbl EXCEPT ![first].from = << "next", new >>]

\* A record comes first in its chain.  ht is already that of the array it goes to.
Linked(array, k, data) ==
  LET h == Slot(k, array.size)
      first == array.ht[h]
      new == Len(array.tbl) + 1
  IN  [array EXCEPT !.tbl = Append(PushedBack(@, first, new),
                       [key |-> k, data |-> data, next |-> first, from |-> << "ht", h >>]),
                    !.ht[h] = new]

\* Mutant: the data of the first record goes with every key.
FirstData(array) ==
  LET g[n \in 0..Len(array.tbl)] ==
        IF n = 0 THEN Array(2 * array.size)
        ELSE Linked(g[n-1], array.tbl[n].key, array.tbl[1].data)
  IN  g[Len(array.tbl)]

\* Every record is linked again, the first one first.
Grown(array) ==
  LET g[n \in 0..Len(array.tbl)] ==
        IF n = 0 THEN Array(2 * array.size)
        ELSE Linked(g[n-1], array.tbl[n].key, array.tbl[n].data)
  IN  g[Len(array.tbl)]

\* Mutant: a key that is there is inserted again.
InsertedAgain(array, k, data, memory) ==
  IF Len(array.tbl) < array.size THEN Linked(array, k, data)
  ELSE IF memory THEN Linked(Grown(array), k, data)
  ELSE array

\* A key that is there is not overwritten.  Without memory to grow nothing is inserted.
Inserted(array, k, data, memory) ==
  IF Found(array, k) # NotFound THEN array
  ELSE IF Len(array.tbl) < array.size THEN Linked(array, k, data)
  ELSE IF memory THEN Linked(Grown(array), k, data)
  ELSE array

-----------------------------------------------------------------------------
\* The data of a string is the string.
Strsafe_insert(y, memory) == Inserted(arrays["x1"], y, y, memory)

Strsafe(y, memory) ==
  arrays' = [arrays EXCEPT !["x1"] = Strsafe_insert(y, memory)]

Symbol_insert(data, x, memory) == Inserted(arrays["x2"], x, data, memory)

\* A symbol that is not there is made and inserted under the safe copy of its name.
\* Nobody looks whether it was inserted.
Symbol_new(x, data, memory1, memory2) ==
  /\ Found(arrays["x2"], x) = NotFound
  /\ arrays' = [arrays EXCEPT !["x1"] = Strsafe_insert(x, memory1),
                              !["x2"] = Symbol_insert(data, x, memory2)]

State_insert(data, k, memory) ==
  arrays' = [arrays EXCEPT !["x3"] = Inserted(@, k, data, memory)]

\* The data of a configuration is the configuration.
Configtable_insert(k, memory) ==
  arrays' = [arrays EXCEPT !["x4"] = Inserted(@, k, k, memory)]

\* The size stays.
Configtable_clear ==
  arrays["x4"].tbl # << >> /\ arrays' = [arrays EXCEPT !["x4"] = Array(@.size)]

\* Strings and symbols.
NamesNext == \E memory, memory2 \in BOOLEAN, x \in Names :
  \/ Strsafe(x, memory)
  \/ \E data \in Data : Symbol_new(x, data, memory, memory2)

\* States and configurations.
KeysNext ==
  \/ \E memory \in BOOLEAN, k \in Keys :
       \/ \E data \in Data : State_insert(data, k, memory)
       \/ Configtable_insert(k, memory)
  \/ Configtable_clear

Next == NamesNext \/ KeysNext

Spec == Init /\ [][Next]_arrays

-----------------------------------------------------------------------------
(* Properties. *)

\* Strsafe_find, Symbol_find, State_find, Configtable_find: what they give for each key.
Find(array, k) == array.tbl[Found(array, k)].data

Content(array) ==
  [k \in {x \in Names \union Keys : Found(array, x) # NotFound} |-> Find(array, k)]

D == INSTANCE Dictionaries WITH dict <- [a \in Arrays |-> Content(arrays[a])]

\* The arrays are dictionaries (lemon.c:4235-4895): a key is found as soon as and as long as
\* it is inserted, with the data it was inserted with, however the array grows.
Refines == D!Spec

\* Each key once, and found where it is.
EachOnce(array) ==
  /\ \A i, j \in DOMAIN array.tbl : array.tbl[i].key = array.tbl[j].key => i = j
  /\ \A i \in DOMAIN array.tbl : Found(array, array.tbl[i].key) = i

\* from is the place that links to the record.
FromLinksBack(array) == \A i \in DOMAIN array.tbl :
  LET from == array.tbl[i].from
  IN  i = IF from[1] = "ht" THEN array.ht[from[2]] ELSE array.tbl[from[2]].next

\* Symbol_Nth, Symbol_arrayof, State_arrayof (lemon.c:4547, 4567, 4748): each key once, in the
\* order of insertion, as many as can be found; x1node.from is the "Previous link" (lemon.c:4280).
EachOnceInOrder == \A a \in Arrays : EachOnce(arrays[a]) /\ FromLinksBack(arrays[a])
=============================================================================
