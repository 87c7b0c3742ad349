------------------------------- MODULE Arrays -------------------------------
(***************************************************************************)
(* ArrayValue: a deque of values with the methods of class Array, and the  *)
(* loops that walk it while their bodies change it: foreach keeps a count, *)
(* map and grep keep an iterator of the deque, which some changes          *)
(* invalidate.  Elements stand for values that differ as strings.          *)
(***************************************************************************)
EXTENDS Integers, Sequences, FiniteSets, SequencesExt

CONSTANTS
  Elements,        \* values, by their order as strings
  Indexes,         \* the indexes a program uses
  PopsEmpty,       \* whether a program pops an empty array
  ForeachChanges,  \* what bodies of foreach do to the array
  MapChanges,      \* what callbacks of map and grep do to it
  MaxSize, MaxLoops   \* bounds

Changes == {"push", "pop", "shift", "unshift", "set"}

ArraysAssumption ==
  /\ Elements \subseteq Nat \ {0} /\ Indexes \subseteq Int /\ PopsEmpty \in BOOLEAN
  /\ ForeachChanges \cup MapChanges \subseteq Changes
  /\ {MaxSize, MaxLoops} \subseteq Nat

VARIABLES
  items,   \* the deque
  loops,   \* loops under way, the outermost first
  answer,  \* what the last method returned
  mode     \* run, uncaught (a C++ exception ends the program) or undefined

vars == << items, loops, answer, mode >>

Undef == 0
Separator == -1

\* LessValue compares what to_s returns; undef is "undef", behind the digits.
Less(v, w) == v # Undef /\ (w = Undef \/ v < w)

Init == items = << >> /\ loops = << >> /\ answer = << Undef >> /\ mode = "run"

Foreach == [kind |-> "foreach", at |-> 0, valid |-> TRUE, seen |-> << >>, kept |-> << >>, ahead |-> TRUE]

Map(kind) == [Foreach EXCEPT !.kind = kind, !.at = 1]

-----------------------------------------------------------------------------
(* What a change of the deque does to the loops over it.  An iterator stays *)
(* with its element; it is lost with its element, and with any insertion   *)
(* or any removal in the middle.  The history of a foreach is whether all  *)
(* changes were made ahead of its count.                                   *)

Walks(f) == f.kind # "foreach"

\* After the removal of place k of n.
Removed(f, k, n) ==
  IF Walks(f)
  THEN [f EXCEPT !.valid = @ /\ k \in {1, n} /\ k # f.at,
                 !.at = IF k < f.at THEN @ - 1 ELSE @]
  ELSE [f EXCEPT !.ahead = @ /\ k > f.at]

\* After the insertion before place k.
Inserted(f, k) ==
  IF Walks(f) THEN [f EXCEPT !.valid = FALSE]
  ELSE [f EXCEPT !.ahead = @ /\ k > f.at]

AllLoops(Op(_)) == loops' = [i \in DOMAIN loops |-> Op(loops[i])]

MayChange(c) ==
  /\ mode = "run"
  /\ \A i \in DOMAIN loops : c \in IF Walks(loops[i]) THEN MapChanges ELSE ForeachChanges

\* Callbacks that leave the element they are called for where it is.
Elsewhere(k) == \A i \in DOMAIN loops : Walks(loops[i]) => loops[i].at # k

-----------------------------------------------------------------------------
(* Methods of class Array, and the ops on items. *)

\* Mutant: the array is filled with undef up to the index itself.
PadTo(i) == items \o [j \in 1..i - Len(items) + 1 |-> Undef]

\* The loop of set_item: from size() - 1 on, while the index before is not reached.
Padded(i) == items \o [j \in 1..i - Len(items) |-> Undef]

\* ArrayValue::set_item
set_item(i, v) ==
  IF Len(items) - 1 < i
  THEN /\ items' = InsertAt(Padded(i), i + 1, v)
       /\ AllLoops(LAMBDA f : Inserted(f, Len(items) + 1))
  ELSE /\ items' = InsertAt(RemoveAt(items, i + 1), i + 1, v)
       /\ AllLoops(LAMBDA f : Inserted(Removed(f, i + 1, Len(items)), i + 1))

OP_SET_ITEM == \E i \in Indexes, v \in Elements :
  /\ MayChange("set") /\ i < MaxSize
  /\ IF i < 0 THEN mode' = "undefined" /\ UNCHANGED << items, loops >>
     ELSE set_item(i, v) /\ UNCHANGED mode
  /\ UNCHANGED answer

av_push == \E v \in Elements :
  /\ MayChange("push") /\ Len(items) < MaxSize
  /\ set_item(Len(items), v)
  /\ UNCHANGED << answer, mode >>

\* ArrayValue::get_item; at() refuses the index that is not one.
get_item(i) ==
  IF i >= Len(items) THEN answer' = << Undef >> /\ UNCHANGED mode
  ELSE IF i < 0 THEN mode' = "uncaught" /\ UNCHANGED answer
  ELSE answer' = << items[i + 1] >> /\ UNCHANGED mode

OP_GET_ITEM == \E i \in Indexes : mode = "run" /\ get_item(i) /\ UNCHANGED << items, loops >>

av_pop ==
  /\ MayChange("pop") /\ (items = << >> => PopsEmpty) /\ Elsewhere(Len(items))
  /\ IF items = << >>
     THEN mode' = "undefined" /\ UNCHANGED << items, loops, answer >>
     ELSE /\ answer' = << Last(items) >> /\ items' = Front(items)
          /\ AllLoops(LAMBDA f : Removed(f, Len(items), Len(items))) /\ UNCHANGED mode

av_shift ==
  /\ MayChange("shift") /\ Elsewhere(1)
  /\ IF items = << >>
     THEN answer' = << Undef >> /\ UNCHANGED << items, loops >>
     ELSE /\ answer' = << Head(items) >> /\ items' = Tail(items)
          /\ AllLoops(LAMBDA f : Removed(f, 1, Len(items)))
  /\ UNCHANGED mode

av_unshift == \E v \in Elements :
  /\ MayChange("unshift") /\ Len(items) < MaxSize
  /\ items' = << v >> \o items /\ AllLoops(LAMBDA f : Inserted(f, 1))
  /\ UNCHANGED << answer, mode >>

\* Methods that give a value of their own.
av_reverse == answer' = Reverse(items)

\* The separator is added unless the next place is the end.
Joined ==
  LET str[k \in 0..Len(items)] ==
        IF k = 0 THEN << >>
        ELSE str[k-1] \o << items[k] >> \o IF k + 1 # Len(items) + 1 THEN << Separator >> ELSE << >>
  IN  str[Len(items)]

av_join == answer' = Joined

\* std::sort of a copy: a permutation in which no element is less than one before it.
av_sort == \E order \in [1..Len(items) -> 1..Len(items)] :
  /\ \A j, k \in DOMAIN items :
       j < k => order[j] # order[k] /\ ~Less(items[order[k]], items[order[j]])
  /\ answer' = [k \in DOMAIN items |-> items[order[k]]]

Derived ==
  /\ mode = "run" /\ loops = << >>
  /\ av_reverse \/ av_join \/ av_sort
  /\ UNCHANGED << items, loops, mode >>

-----------------------------------------------------------------------------
(* Loops. *)

OP_ENTER_FOREACH ==
  /\ mode = "run" /\ Len(loops) < MaxLoops
  /\ loops' = Append(loops, [Foreach EXCEPT !.kept = items])
  /\ UNCHANGED << items, answer, mode >>

InArray(f) == f.at < Len(items)

\* OP_FOR_ITER on an array iterator, and the end of the loop.
OP_FOR_ITER ==
  LET f == Last(loops)
  IN  /\ mode = "run" /\ loops # << >> /\ f.kind = "foreach" /\ InArray(f)
      /\ Len(f.seen) < MaxSize
      /\ IF f.at >= Len(items) THEN mode' = "uncaught" /\ UNCHANGED loops
         ELSE loops' = [loops EXCEPT ![Len(loops)] =
                          [f EXCEPT !.at = @ + 1, !.seen = Append(@, items[f.at + 1])]]
              /\ UNCHANGED mode
      /\ UNCHANGED << items, answer >>

EndForeach ==
  /\ mode = "run" /\ loops # << >> /\ Last(loops).kind = "foreach" /\ ~InArray(Last(loops))
  /\ loops' = Front(loops)
  /\ UNCHANGED << items, answer, mode >>

\* av_map and av_grep: from begin() on, the callback is called with *iter.
av_map == \E kind \in {"map", "grep"} :
  /\ mode = "run" /\ Len(loops) < MaxLoops /\ items # << >>
  /\ loops' = Append(loops, [Map(kind) EXCEPT !.seen = << items[1] >>])
  /\ UNCHANGED << items, answer, mode >>

\* Mutant: the place in the array is counted, instead of kept by an iterator.
CountedPlace(f) == Len(f.seen) + 1

\* ++iter
NextPlace(f) == f.at + 1

\* The callback has returned: what it returned, or for grep *iter if that was
\* true, goes to the result, and the iterator to the next element.
Returned == \E true \in BOOLEAN :
  LET f == Last(loops)
      next == NextPlace(f)
      kept == IF f.kind = "grep" /\ ~true THEN f.kept ELSE Append(f.kept, items[f.at])
  IN  /\ mode = "run" /\ loops # << >> /\ Walks(f) /\ (f.kind = "map" => true)
      /\ IF ~f.valid THEN mode' = "undefined" /\ UNCHANGED loops
         ELSE IF next > Len(items)
         THEN loops' = Front(loops) /\ UNCHANGED mode
         ELSE /\ loops' = [loops EXCEPT ![Len(loops)] =
                             [f EXCEPT !.at = next, !.kept = kept,
                                       !.seen = Append(@, items[next])]]
              /\ UNCHANGED mode
      /\ UNCHANGED << items, answer >>

Method == OP_SET_ITEM \/ av_push \/ OP_GET_ITEM \/ av_pop \/ av_shift \/ av_unshift \/ Derived

Loop == OP_ENTER_FOREACH \/ OP_FOR_ITER \/ EndForeach \/ av_map \/ Returned

Next == Method \/ Loop

Spec == Init /\ [][Next]_vars

-----------------------------------------------------------------------------
(* Properties. *)

\* Array methods (array.cc:34, object/array.cc:33-190): the deque and its ends
\* behave like a list indexed from 0, whose holes are undef; sort, reverse and
\* join leave it alone.
Lists == INSTANCE Lists WITH
  size <- Len(items), at <- [j \in 0..Len(items) - 1 |-> items[j + 1]],
  MaxIndex <- MaxSize

Refines == Lists!Spec

\* OP_FOR_ITER (vm.inc:833): a foreach whose body changes the array only behind
\* the place it has reached has given out everything before that place, and
\* stops after the last element.
ForeachStep ==
  \A k \in DOMAIN loops : loops[k].kind = "foreach" /\ loops[k].ahead =>
    /\ loops[k].seen = SubSeq(items, 1, loops[k].at)
    /\ k \notin DOMAIN loops' => loops[k].at = Len(items)

\* av_map, av_grep (object/array.cc:136, 158): a callback that removes elements at
\* the ends, but not its own, leaves the walk where it is: no element is passed
\* twice, and none that stays is left out.
WalkStep ==
  \A k \in DOMAIN loops : Walks(loops[k]) =>
    LET f == loops[k]
    IN  /\ f.valid /\ items[f.at] = Last(f.seen)
        /\ IsSuffix(SubSeq(items, 1, f.at), f.seen)
        /\ IF f.kind = "map" THEN f.kept = Front(f.seen) ELSE Len(f.kept) < Len(f.seen)
        /\ k \notin DOMAIN loops' => f.at = Len(items)

\* So it is for every loop (vm.inc:833, object/array.cc:136, 158).
LoopsInOrder == [][ForeachStep /\ WalkStep]_vars

\* t/tra/object/array.tra:24 "out-of-range": reading at an index where the array
\* has no element gives undef, and the program goes on.
OutOfRangeIsUndef == [][OP_GET_ITEM => mode' = "run"]_vars
=============================================================================
