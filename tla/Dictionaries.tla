---------------------------- MODULE Dictionaries ----------------------------
(***************************************************************************)
(* What the associative arrays of lemon promise: a key that is inserted    *)
(* keeps the first data it was inserted with, until the array is cleared.  *)
(***************************************************************************)
CONSTANTS Names, Keys, Data, Arrays

VARIABLE dict   \* array -> partial function from keys to data

Empty == [k \in {} |-> 0]

Init == dict = [a \in Arrays |-> Empty]

\* Data that is there stays.
With(d, k, v) ==
  IF k \in DOMAIN d THEN d ELSE [x \in DOMAIN d \union {k} |-> IF x = k THEN v ELSE d[x]]

Insert(a, k, v) == dict' = [dict EXCEPT ![a] = With(@, k, v)]

\* A symbol takes its name into the array of strings; there may be no memory for either.
InsertSymbol(x, v) ==
  /\ x \notin DOMAIN dict["x2"]
  /\ \E symbols \in {dict["x2"], With(dict["x2"], x, v)},
        strings \in {dict["x1"], With(dict["x1"], x, x)} :
       dict' = [dict EXCEPT !["x2"] = symbols, !["x1"] = strings]

Clear == dict' = [dict EXCEPT !["x4"] = Empty]

Next ==
  \/ \E x \in Names : Insert("x1", x, x) \/ \E v \in Data : InsertSymbol(x, v)
  \/ \E k \in Keys, v \in Data : Insert("x3", k, v)
  \/ \E k \in Keys : Insert("x4", k, k)
  \/ Clear

Spec == Init /\ [][Next]_dict
=============================================================================
