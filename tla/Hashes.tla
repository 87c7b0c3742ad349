------------------------------- MODULE Hashes -------------------------------
(***************************************************************************)
(* HashValue: an ordered map with the methods of class Hash, hash literals *)
(* and the foreach that walks the map while its body stores, reads and     *)
(* deletes.  Reading goes through std::map's operator[], which puts a null *)
(* pointer where the key is missing.                                       *)
(***************************************************************************)
EXTENDS Integers, Sequences, FiniteSets, SequencesExt

CONSTANTS
  Keys,         \* keys, by their order in the map
  End,          \* the iterator behind the last key, a number behind all keys
  Values,
  ReadsMissing, \* whether a program reads keys that are not in the hash
  UsesValue,    \* whether it uses what it read
  DeletesAny,   \* whether the body of a foreach deletes other keys than its own
  MaxPairs,     \* bound on the pairs of a literal
  MaxLoops      \* bound on nested loops

HashesAssumption ==
  /\ Keys \subseteq Nat \ {0} /\ Values \subseteq Nat \ {0}
  /\ End \in Nat /\ (\A k \in Keys : k < End) /\ {MaxPairs, MaxLoops} \subseteq Nat
  /\ {ReadsMissing, UsesValue, DeletesAny} \subseteq BOOLEAN

VARIABLES
  hash,      \* the map: a function on the keys it holds
  loops,     \* foreach loops over it, the outermost first
  operand,   \* what was read last, on top of the stack
  mode       \* run, aborted (assertion of SharedPtr) or undefined

vars == << hash, loops, operand, mode >>

Null == 0
Unread == -1

Held == DOMAIN hash

Init == hash = << >> /\ loops = << >> /\ operand = Unread /\ mode = "run"

Restricted(h, keys) == [k \in keys |-> h[k]]

Stored(h, k, v) == [x \in DOMAIN h \cup {k} |-> IF x = k THEN v ELSE h[x]]

\* std::map::begin and std::map::upper_bound
After(k) ==
  LET later == {x \in Held : x > k}
  IN  IF later = {} THEN End ELSE CHOOSE x \in later : \A y \in later : x <= y

Loop(h) == [next |-> After(0), lost |-> FALSE, seen |-> << >>, stayed |-> DOMAIN h, added |-> {}]

Running == mode = "run"

\* What a change does to the loops: an iterator is lost with its key.  The history
\* keeps the keys that were there all the time, and those that were added.
Inserting(k) == loops' = [i \in DOMAIN loops |->
  IF k \in Held THEN loops[i] ELSE [loops[i] EXCEPT !.added = @ \cup {k}]]

Erasing(k) == loops' = [i \in DOMAIN loops |->
  [loops[i] EXCEPT !.lost = @ \/ loops[i].next = k, !.stayed = @ \ {k}]]

-----------------------------------------------------------------------------
(* Operations. *)

\* Pairs of a literal: the ops push them in the order of the text.
Literals == UNION {[1..n -> Keys \X Values] : n \in 1..MaxPairs}

\* OP_MAKE_HASH pops, so the pairs come last to first.
PopOrder(pairs) == Reverse(pairs)

Made(pairs) ==
  LET made[n \in 0..Len(pairs)] ==
        IF n = 0 THEN << >> ELSE Stored(made[n-1], PopOrder(pairs)[n][1], PopOrder(pairs)[n][2])
  IN  made[Len(pairs)]

MakeHash(pairs) ==
  /\ Running /\ loops = << >>
  /\ hash' = Made(pairs)
  /\ UNCHANGED << loops, operand, mode >>

OP_MAKE_HASH == \E pairs \in Literals : MakeHash(pairs)

\* HashValue::set_item
OP_SET_ITEM == \E k \in Keys, v \in Values :
  /\ Running
  /\ hash' = Stored(hash, k, v) /\ Inserting(k)
  /\ UNCHANGED << operand, mode >>

\* HashValue::get_item
OP_GET_ITEM == \E k \in Keys :
  /\ Running /\ (k \in Held \/ ReadsMissing)
  /\ operand' = (IF k \in Held THEN hash[k] ELSE Null)
  /\ hash' = (IF k \in Held THEN hash ELSE Stored(hash, k, Null)) /\ Inserting(k)
  /\ UNCHANGED mode

\* Any op that looks at the operand goes through SharedPtr's operator->.
UseOperand ==
  /\ Running /\ UsesValue /\ operand # Unread
  /\ mode' = IF operand = Null THEN "aborted" ELSE "run"
  /\ UNCHANGED << hash, loops, operand >>

\* HashValue::has_key
has_key(k) == k \in Held

\* Keys the bodies of the loops may delete.
Deletable == IF DeletesAny THEN Keys
             ELSE {k \in Keys : \A i \in DOMAIN loops : loops[i].seen # << >> /\ k = Last(loops[i].seen)}

\* HashValue::delete_key
Hash_delete == \E k \in Deletable :
  /\ Running
  /\ IF k \in Held
     THEN hash' = Restricted(hash, Held \ {k}) /\ Erasing(k)
     ELSE UNCHANGED << hash, loops >>
  /\ UNCHANGED << operand, mode >>

-----------------------------------------------------------------------------
(* Loops. *)

OP_ENTER_FOREACH ==
  /\ Running /\ Len(loops) < MaxLoops
  /\ loops' = Append(loops, Loop(hash))
  /\ UNCHANGED << hash, operand, mode >>

\* riter->increment() comes before the body.
Incremented(f) == After(f.next)

finished(f) == f.next = End

OP_FOR_ITER ==
  LET f == Last(loops)
  IN  /\ Running /\ loops # << >>
      /\ IF f.lost THEN mode' = "undefined" /\ UNCHANGED << loops, operand >>
         ELSE /\ loops' = IF finished(f) THEN Front(loops)
                          ELSE [loops EXCEPT ![Len(loops)] =
                                  [f EXCEPT !.next = Incremented(f), !.seen = Append(@, f.next)]]
              /\ operand' = IF finished(f) THEN operand ELSE hash[f.next]
              /\ UNCHANGED mode
      /\ UNCHANGED hash

Next ==
  \/ OP_MAKE_HASH \/ OP_SET_ITEM \/ OP_GET_ITEM \/ UseOperand \/ Hash_delete
  \/ OP_ENTER_FOREACH \/ OP_FOR_ITER

Spec == Init /\ [][Next]_vars

-----------------------------------------------------------------------------
(* Properties. *)

\* OP_FOR_ITER (vm.inc:867-881): bodies that store any key, and delete their own,
\* see each key at most once and in order; a key that stays is not left out.
EachKeyStep ==
  \A i \in DOMAIN loops :
    LET f == loops[i]
    IN  /\ ~f.lost /\ \A m, n \in DOMAIN f.seen : m < n => f.seen[m] < f.seen[n]
        /\ i \notin DOMAIN loops' => f.stayed \subseteq ToSet(f.seen)

\* So it is for every loop (vm.inc:867-881).
ForeachEachKeyOnce == [][EachKeyStep]_vars

\* HashValue::iterator (hash.h:71): the iterator is the first key not seen yet, also
\* after keys were added, unless one was added right before it.
IteratorIsNext == \A i \in DOMAIN loops :
  LET f == loops[i]
      seen == IF f.seen = << >> THEN 0 ELSE Last(f.seen)
  IN  /\ f.next # End => f.next \in Held /\ f.next > seen
      /\ {k \in Held : seen < k /\ k < f.next} \subseteq f.added

\* Hash#exists (object/hash.cc:60 "Check hash key existence."): what exists is what was
\* stored, so reading a key does not make it exist.
ExistsMeansStored == \A k \in Keys : has_key(k) => hash[k] # Null

\* SharedPtr (shared_ptr.h:70 assert(ptr != NULL)): a value that was read is one.
ReadGivesValue == mode # "aborted"

\* OP_MAKE_HASH (vm.inc:658): of two pairs with one key, the one written first is kept.
LiteralStep ==
  \A pairs \in Literals : MakeHash(pairs) =>
    \A i \in DOMAIN pairs :
      (\A j \in 1..i - 1 : pairs[j][1] # pairs[i][1]) => hash'[pairs[i][1]] = pairs[i][2]

\* So it is for every literal (vm.inc:658).
FirstPairKept == [][LiteralStep]_vars
=============================================================================
