-------------------------------- MODULE Lists --------------------------------
(***************************************************************************)
(* What an array promises: a size, a value at every index below it, and    *)
(* operations that say nothing of how the values are stored.               *)
(***************************************************************************)
EXTENDS Integers, Sequences, FiniteSets

CONSTANTS Elements, Undef, Separator, MaxIndex, Less(_, _)

VARIABLES
  size, at,
  answer   \* what the last operation gave: one value, or a list

lvars == << size, at, answer >>

Contents == {Undef} \cup Elements

Init == size = 0 /\ at = << >> /\ answer = << Undef >>

\* Storing at an index makes the array long enough; what is new is undef.
Store(i, v) ==
  /\ size' = (IF i < size THEN size ELSE i + 1)
  /\ at' = [j \in 0..size' - 1 |-> IF j = i THEN v ELSE IF j < size THEN at[j] ELSE Undef]
  /\ UNCHANGED answer

Fetch(i) == answer' = << IF i < size THEN at[i] ELSE Undef >> /\ UNCHANGED << size, at >>

TakeFirst ==
  /\ size > 0 /\ size' = size - 1 /\ answer' = << at[0] >>
  /\ at' = [j \in 0..size - 2 |-> at[j + 1]]

TakeLast ==
  /\ size > 0 /\ size' = size - 1 /\ answer' = << at[size - 1] >>
  /\ at' = [j \in 0..size - 2 |-> at[j]]

AddFirst(v) ==
  /\ size' = size + 1 /\ UNCHANGED answer
  /\ at' = [j \in 0..size |-> IF j = 0 THEN v ELSE at[j - 1]]

Places(v, list) == {j \in DOMAIN list : list[j] = v}

IsSorted(list) ==
  /\ \A v \in Contents : Cardinality(Places(v, list)) = Cardinality(Places(v, at))
  /\ \A j, k \in 1..size : j < k => ~Less(list[k], list[j])

\* Lists made from an array, which they leave alone.
Derive ==
  /\ UNCHANGED << size, at >>
  /\ \/ answer' = [j \in 1..size |-> at[size - j]]
     \/ answer' = [j \in 1..2 * size - 1 |-> IF j % 2 = 1 THEN at[j \div 2] ELSE Separator]
     \/ DOMAIN answer' = 1..size /\ IsSorted(answer')

Next ==
  \/ \E i \in 0..MaxIndex : Fetch(i) \/ \E v \in Elements : Store(i, v)
  \/ \E v \in Elements : AddFirst(v)
  \/ TakeFirst \/ TakeLast
  \/ size = 0 /\ Fetch(0)   \* taking the first of an empty array
  \/ Derive

Spec == Init /\ [][Next]_lvars
=============================================================================
