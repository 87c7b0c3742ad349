-------------------------------- MODULE Heap --------------------------------
(***************************************************************************)
(* Values and their reference counts: SharedPtr, Value::release,           *)
(* ObjectValue::release with DESTROY, the in-place operations on integers, *)
(* arrays, assignments to variables and the loops of foreach.  A value is  *)
(* a cell of the heap; a step that drops references leaves tasks behind,   *)
(* which are worked off before the next op, as the destructors do.  A      *)
(* DESTROY method runs as a task, in the middle of what dropped its object.*)
(***************************************************************************)
EXTENDS Integers, Sequences, FiniteSets, SequencesExt

CONSTANTS
  Outer,        \* number of variables of the enclosing block
  Scripts,      \* what DESTROY methods do: none, quiet, data, self
  DestroyVar,   \* the outer variable they assign to
  Overwrites,   \* whether a program assigns to variables that hold more than integers
  AssignsLoop,  \* whether it assigns to the variable of a foreach
  Steps,        \* whether it uses ++
  Frames,       \* which frames it enters: block, foreach
  MaxCells, MaxStack, MaxInt   \* bounds

HeapAssumption ==
  /\ Outer \in Nat \ {0} /\ DestroyVar \in 1..Outer
  /\ Scripts \subseteq {"none", "quiet", "data", "self"} /\ Frames \subseteq {"block", "foreach"}
  /\ {Overwrites, AssignsLoop, Steps} \subseteq BOOLEAN
  /\ {MaxCells, MaxStack, MaxInt} \subseteq Nat

VARIABLES
  heap,   \* cells; the place of a cell is its address
  pads,   \* block -> its variables: outer, and inner while a block is entered
  stack,  \* operands
  frame,  \* the inner block: none, block or foreach, with its iterator
  todo,   \* tasks under way, the innermost first
  mode,   \* run, or aborted by an assertion
  env     \* history: what each variable was last assigned

vars == << heap, pads, stack, frame, todo, mode, env >>

Undef == 0   \* the shared UndefValue, which is never freed

Cell(type, n, items, script) ==
  [live |-> TRUE, refcnt |-> 1, type |-> type, n |-> n, items |-> items,
   script |-> script, destroyed |-> FALSE, runs |-> 0]

NoFrame == [kind |-> "none", top |-> 0, counter |-> 0, of |-> Undef, cur |-> Undef]

Init ==
  /\ heap = << >> /\ stack = << >> /\ todo = << >> /\ mode = "run"
  /\ pads = [outer |-> [i \in 1..Outer |-> Undef], inner |-> << >>]
  /\ env = pads /\ frame = NoFrame

Retain(h, r) == IF r = Undef THEN h ELSE [h EXCEPT ![r].refcnt = @ + 1]

\* Tasks.
Release(r)      == [do |-> "release", of |-> r, pad |-> "", at |-> 0]
Body(r)         == [do |-> "body", of |-> r, pad |-> "", at |-> 0]
Finish(r)       == [do |-> "finish", of |-> r, pad |-> "", at |-> 0]
Shift(p, i)     == [do |-> "shift", of |-> 0, pad |-> p, at |-> i]
Shrink(p)       == [do |-> "shrink", of |-> 0, pad |-> p, at |-> 0]
InsertTask(p, i, v) == [do |-> "insert", of |-> v, pad |-> p, at |-> i]
Iterate         == [do |-> "iterate", of |-> 0, pad |-> "", at |-> 0]

Releases(refs) ==
  LET tasks[n \in 0..Len(refs)] ==
        IF n = 0 THEN << >>
        ELSE IF refs[n] = Undef THEN tasks[n-1] ELSE Append(tasks[n-1], Release(refs[n]))
  IN  tasks[Len(refs)]

\* Mutant: the value is put one place too far.
SetBehind(p, i, v) == << InsertTask(p, i + 1, v) >>

\* Mutant: the erased place is not taken off again.
SetTooFar(p, i, v) ==
  [k \in 1..Len(pads[p]) - i + 1 |-> Shift(p, i + k - 1)] \o << InsertTask(p, i, v) >>

\* PadList::set: erase moves the variables behind the place one to the left
\* and drops the last one, insert puts the value in.
Set(p, i, v) ==
  IF i > Len(pads[p]) THEN << InsertTask(p, i, v) >>
  ELSE [k \in 1..Len(pads[p]) - i |-> Shift(p, i + k - 1)]
         \o << Shrink(p), InsertTask(p, i, v) >>

-----------------------------------------------------------------------------
(* Ops. *)

Ready == mode = "run" /\ todo = << >>

Room == Len(heap) < MaxCells /\ Len(stack) < MaxStack

\* A frame's operands are its own.
Own == Len(stack) > frame.top

Top == Last(stack)

Push(r) == heap' = Retain(heap, r) /\ stack' = Append(stack, r)

OP_PUSH_INT ==
  /\ Ready /\ Room
  /\ heap' = Append(heap, Cell("int", 0, << >>, "none"))
  /\ stack' = Append(stack, Len(heap) + 1)
  /\ UNCHANGED << pads, frame, todo, mode, env >>

\* OP_GETLOCAL, OP_GETDYNAMIC
GetVariable == \E p \in DOMAIN pads : \E i \in DOMAIN pads[p] :
  /\ Ready /\ Len(stack) < MaxStack /\ pads[p][i] # Undef
  /\ Push(pads[p][i])
  /\ UNCHANGED << pads, frame, todo, mode, env >>

IntOrUndef(r) == IF r = Undef THEN TRUE ELSE heap[r].type = "int"

\* Whether the program may assign to the variable.
Assignable(p, i) ==
  /\ i \in DOMAIN env[p]
  /\ p = "inner" /\ frame.kind = "foreach" => AssignsLoop
  /\ ~Overwrites /\ i \in DOMAIN pads[p] => IntOrUndef(pads[p][i])
  /\ ~Overwrites /\ p = "outer" /\ i = DestroyVar => IntOrUndef(Top)

\* OP_SETLOCAL, OP_SETDYNAMIC: the value stays on the stack.
SetVariable == \E p \in DOMAIN pads, i \in 1..Outer :
  /\ Ready /\ Own /\ Assignable(p, i)
  /\ todo' = Set(p, i, Top)
  /\ env' = [env EXCEPT ![p][i] = Top]
  /\ UNCHANGED << heap, pads, stack, frame, mode >>

OP_POP_TOP ==
  /\ Ready /\ Own
  /\ stack' = Front(stack) /\ todo' = Releases(<< Top >>)
  /\ UNCHANGED << heap, pads, frame, mode, env >>

\* OP_PRE_INCREMENT: the integer itself is changed.
PreIncrement ==
  /\ Ready /\ Steps /\ Own /\ heap[Top].type = "int" /\ heap[Top].n < MaxInt
  /\ heap' = [heap EXCEPT ![Top].n = @ + 1]
  /\ UNCHANGED << pads, stack, frame, todo, mode, env >>

\* OP_POST_INCREMENT: a copy of it is left on the stack.
PostIncrement ==
  /\ Ready /\ Steps /\ Own /\ heap[Top].type = "int" /\ heap[Top].n < MaxInt /\ Len(heap) < MaxCells
  /\ heap' = Append([heap EXCEPT ![Top].n = @ + 1], Cell("int", heap[Top].n, << >>, "none"))
  /\ stack' = Append(Front(stack), Len(heap) + 1)
  /\ todo' = << Release(Top) >>
  /\ UNCHANGED << pads, frame, mode, env >>

\* OP_MAKE_ARRAY of one element, which moves into the array.
OP_MAKE_ARRAY ==
  /\ Ready /\ Own /\ Len(heap) < MaxCells
  /\ heap' = Append(heap, Cell("array", 0, << Top >>, "none"))
  /\ stack' = Append(Front(stack), Len(heap) + 1)
  /\ UNCHANGED << pads, frame, todo, mode, env >>

\* A DESTROY that assigns its data replaces what the variable held before.
ScriptsFor(data) ==
  IF ~Overwrites /\ heap[data].type # "int" THEN Scripts \ {"data"} ELSE Scripts

\* Object#bless: data and a class with or without a DESTROY of its own.
Bless == stack # << >> /\ \E s \in ScriptsFor(Top) :
  /\ Ready /\ Own /\ Len(heap) < MaxCells
  /\ heap' = Append(heap, Cell("object", 0, << Top >>, s))
  /\ stack' = Append(Front(stack), Len(heap) + 1)
  /\ UNCHANGED << pads, frame, todo, mode, env >>

\* Array#push: the array stays as the result.
av_push ==
  LET a == stack[Len(stack) - 1] IN
  /\ Ready /\ Len(stack) >= frame.top + 2
  /\ heap[a].type = "array" /\ Len(heap[a].items) < 2
  /\ heap' = [heap EXCEPT ![a].items = Append(@, Top)]
  /\ stack' = Front(stack)
  /\ UNCHANGED << pads, frame, todo, mode, env >>

\* Array#pop
av_pop ==
  /\ Ready /\ Own /\ heap[Top].type = "array" /\ heap[Top].items # << >>
  /\ heap' = [heap EXCEPT ![Top].items = Front(@)]
  /\ stack' = Append(Front(stack), Last(heap[Top].items))
  /\ todo' = << Release(Top) >>
  /\ UNCHANGED << pads, frame, mode, env >>

\* OP_ENTER of a block with one variable.
OP_ENTER ==
  /\ Ready /\ frame = NoFrame /\ "block" \in Frames
  /\ frame' = [NoFrame EXCEPT !.kind = "block", !.top = Len(stack)]
  /\ env' = [env EXCEPT !.inner = << Undef >>]
  /\ UNCHANGED << heap, pads, stack, todo, mode >>

\* OP_NEW_RANGE of 1 and the operand, or an array, and OP_ENTER_FOREACH.
OP_ENTER_FOREACH ==
  /\ Ready /\ frame = NoFrame /\ "foreach" \in Frames /\ stack # << >> /\ heap[Top].type \in {"int", "array"}
  /\ frame' = [kind |-> "foreach", top |-> Len(stack) - 1, cur |-> Undef, of |-> Top,
               counter |-> IF heap[Top].type = "int" THEN 1 ELSE 0]
  /\ stack' = Front(stack)
  /\ env' = [env EXCEPT !.inner = << Undef >>]
  /\ UNCHANGED << heap, pads, todo, mode >>

Left == SubSeq(stack, frame.top + 1, Len(stack))

\* OP_FOR_ITER: what the body left on the stack is dropped first.
OP_FOR_ITER ==
  /\ Ready /\ frame.kind = "foreach"
  /\ stack' = SubSeq(stack, 1, frame.top)
  /\ todo' = Releases(Left) \o << Iterate >>
  /\ UNCHANGED << heap, pads, frame, mode, env >>

\* OP_LEAVE: the operands of the frame, then the members of the frame.
DropFrame ==
  /\ stack' = SubSeq(stack, 1, frame.top)
  /\ frame' = NoFrame
  /\ pads' = [pads EXCEPT !.inner = << >>]
  /\ env' = [env EXCEPT !.inner = << >>]

Members == Releases(<< frame.cur, frame.of >> \o pads.inner)

OP_LEAVE ==
  /\ Ready /\ frame.kind = "block"
  /\ DropFrame /\ todo' = Releases(Left) \o Members
  /\ UNCHANGED << heap, mode >>

-----------------------------------------------------------------------------
(* Tasks. *)

Busy(t) == mode = "run" /\ todo # << >> /\ Head(todo).do = t
The == Head(todo).of
Then(tasks) == todo' = tasks \o Tail(todo)

Freed(h, r) == [h EXCEPT ![r] = [@ EXCEPT !.live = FALSE, !.refcnt = 0, !.items = << >>, !.n = 0]]

\* Mutant: an object calls DESTROY whenever its count falls to zero.
CallsAgain(r) == heap[r].type = "object"

CallsDestroy(r) == heap[r].type = "object" /\ ~heap[r].destroyed

IsLast(r) == heap[r].refcnt = 1

\* Value::release and ObjectValue::release.  The second time an object's
\* count falls to zero nothing happens.
DoRelease ==
  /\ Busy("release")
  /\ IF ~IsLast(The) THEN heap' = [heap EXCEPT ![The].refcnt = @ - 1] /\ Then(<< >>)
     ELSE IF CallsDestroy(The)
       THEN /\ heap' = [heap EXCEPT ![The].destroyed = TRUE,
                          ![The].refcnt = IF heap[The].script = "none" THEN 0 ELSE 1,
                          ![The].runs = IF heap[The].script = "none" THEN @ ELSE Min({2, @ + 1})]
            /\ Then(IF heap[The].script = "none" THEN << Finish(The) >>
                    ELSE << Body(The), Release(The), Finish(The) >>)
     ELSE IF heap[The].type = "object"
       THEN heap' = [heap EXCEPT ![The].refcnt = 0] /\ Then(<< >>)
     ELSE heap' = Freed(heap, The) /\ Then(Releases(heap[The].items))
  /\ UNCHANGED << pads, stack, frame, mode, env >>

\* ObjectValue::call_destroy: the method, called with the object as self.
DoBody ==
  /\ Busy("body")
  /\ IF heap[The].script = "quiet"
       THEN Then(<< >>) /\ UNCHANGED << heap, env >>
     ELSE LET v == IF heap[The].script = "self" THEN The ELSE heap[The].items[1] IN
          /\ heap' = Retain(heap, v)
          /\ env' = [env EXCEPT !.outer[DestroyVar] = v]
          /\ Then(Set("outer", DestroyVar, v) \o Releases(<< v >>))
  /\ UNCHANGED << pads, stack, frame, mode >>

\* assert(this->refcnt == 0); delete this;
DoFinish ==
  /\ Busy("finish")
  /\ IF heap[The].refcnt # 0
       THEN mode' = "aborted" /\ UNCHANGED << heap, todo >>
       ELSE heap' = Freed(heap, The) /\ Then(Releases(heap[The].items)) /\ UNCHANGED mode
  /\ UNCHANGED << pads, stack, frame, env >>

\* One assignment of std::vector::erase.
DoShift ==
  /\ Busy("shift")
  /\ LET p == Head(todo).pad  i == Head(todo).at IN
     /\ i < Len(pads[p])
     /\ heap' = Retain(heap, pads[p][i + 1])
     /\ pads' = [pads EXCEPT ![p][i] = pads[p][i + 1]]
     /\ Then(Releases(<< pads[p][i] >>))
  /\ UNCHANGED << stack, frame, mode, env >>

DoShrink ==
  /\ Busy("shrink")
  /\ LET p == Head(todo).pad IN
     /\ pads[p] # << >>
     /\ pads' = [pads EXCEPT ![p] = Front(@)]
     /\ Then(Releases(<< Last(pads[p]) >>))
  /\ UNCHANGED << heap, stack, frame, mode, env >>

Kept(h, r) == Retain(h, r)

\* Behind the end, PadList::set fills up with undef.
DoInsert ==
  /\ Busy("insert")
  /\ LET p == Head(todo).pad
         i == Head(todo).at
         filled == pads[p] \o [k \in 1..(i - 1) - Len(pads[p]) |-> Undef]
     IN  pads' = [pads EXCEPT ![p] = InsertAt(filled, i, The)]
  /\ heap' = Kept(heap, The) /\ Then(<< >>)
  /\ UNCHANGED << stack, frame, mode, env >>

\* Mutant: the integer of the last turn is always used again.
AlwaysReused == frame.cur # Undef

\* "value is not copied": only the frame and the loop variable hold it.
IsUncopied == frame.cur # Undef /\ heap[frame.cur].refcnt = 2

InRange(c) == c <= heap[frame.of].n

Turn(r) ==
  /\ stack' = Append(stack, r)
  /\ env' = [env EXCEPT !.inner[1] = r]

\* The rest of OP_FOR_ITER, and OP_SETLOCAL of the loop variable.  At the end
\* of the loop OP_LEAVE.
DoIterate ==
  /\ Busy("iterate")
  /\ LET items == heap[frame.of].items  c == frame.counter IN
     IF heap[frame.of].type = "array" /\ c < Len(items)
       THEN /\ Turn(items[c + 1]) /\ heap' = Retain(heap, items[c + 1])
            /\ frame' = [frame EXCEPT !.counter = c + 1]
            /\ Then(Set("inner", 1, items[c + 1]))
            /\ UNCHANGED pads
     ELSE IF heap[frame.of].type = "int" /\ InRange(c)
       THEN /\ UNCHANGED pads
            /\ IF IsUncopied
                 THEN /\ Turn(frame.cur)
                      /\ heap' = [Retain(heap, frame.cur) EXCEPT ![frame.cur].n = c]
                      /\ frame' = [frame EXCEPT !.counter = c + 1]
                      /\ Then(Set("inner", 1, frame.cur))
                 ELSE LET iv == Len(heap) + 1 IN
                      /\ Len(heap) < MaxCells
                      /\ Turn(iv)
                      /\ heap' = Append(heap, [Cell("int", c, << >>, "none") EXCEPT !.refcnt = 2])
                      /\ frame' = [frame EXCEPT !.counter = c + 1, !.cur = iv]
                      /\ Then(Releases(<< frame.cur >>) \o Set("inner", 1, iv))
     ELSE DropFrame /\ Then(Members) /\ UNCHANGED heap
  /\ UNCHANGED mode

Op ==
  \/ OP_PUSH_INT \/ GetVariable \/ SetVariable \/ OP_POP_TOP
  \/ PreIncrement \/ PostIncrement \/ OP_MAKE_ARRAY \/ Bless \/ av_push \/ av_pop
  \/ OP_ENTER \/ OP_ENTER_FOREACH \/ OP_FOR_ITER \/ OP_LEAVE

Task ==
  \/ DoRelease \/ DoBody \/ DoFinish \/ DoShift \/ DoShrink \/ DoInsert \/ DoIterate

Next == Op \/ Task

\* The destructors run to their end; nothing makes a program go on.
Spec == Init /\ [][Next]_vars /\ WF_vars(Task)

-----------------------------------------------------------------------------
Cells == DOMAIN heap
Refs == Cells \cup {Undef}
Occurrences(s, r) == Cardinality({i \in DOMAIN s : s[i] = r})

\* All references that something owns, once for each owner.
Owners(r) ==
  Occurrences(pads.outer, r) + Occurrences(pads.inner, r) + Occurrences(stack, r)
    + Occurrences(<< frame.cur, frame.of >>, r)
    + Occurrences(todo, Release(r))
    + Cardinality({x \in Cells \X (1..2) :
         heap[x[1]].live /\ x[2] \in DOMAIN heap[x[1]].items /\ heap[x[1]].items[x[2]] = r})

\* The fields have their types (Value, PadList, ForeachFrame).
TypeOK ==
  /\ \A r \in Cells :
       /\ heap[r].live \in BOOLEAN /\ heap[r].refcnt \in Nat /\ heap[r].n \in 0..MaxInt
       /\ heap[r].type \in {"int", "array", "object"}
       /\ Range(heap[r].items) \subseteq Refs
  /\ Range(stack) \subseteq Refs /\ Range(pads.outer) \cup Range(pads.inner) \subseteq Refs
  /\ frame.cur \in Refs /\ frame.of \in Refs
  /\ mode \in {"run", "aborted"}

\* A value's count is the number of its owners, also in the middle of a
\* destructor (SharedPtr).
RefcntExact ==
  mode = "run" => \A r \in Cells : heap[r].live => heap[r].refcnt = Owners(r)

\* What a variable, an operand, a frame or a value refers to is not freed.
NoDangling ==
  \A r \in Cells : ~heap[r].live => Owners(r) = 0

\* DESTROY runs once for each object that is dropped, before it is freed
\* (ObjectValue::release, destroyed_).
DestroyOnce ==
  \A r \in Cells : heap[r].type = "object" /\ heap[r].script # "none" =>
     heap[r].runs <= 1 /\ (~heap[r].live => heap[r].runs = 1)

\* SharedPtr, Value::release and ObjectValue::release, for every value at every step.
CountsExact == RefcntExact /\ NoDangling /\ DestroyOnce

\* What references lead to, by way of one value after the other.
From(rs) ==
  LET f[n \in 0..Len(heap)] ==
        IF n = 0 THEN rs ELSE f[n-1] \cup UNION {Range(heap[r].items) : r \in f[n-1] \ {Undef}}
  IN  f[Len(heap)]

Roots == Range(stack) \cup Range(pads.outer) \cup Range(pads.inner) \cup {frame.cur, frame.of}

\* Between two ops a value that no variable or operand leads to has been
\* freed, unless a cycle holds it.
Collected ==
  todo = << >> =>
    \A r \in Cells \ From(Roots) :
       heap[r].live => \E c \in Cells : c \in From(Range(heap[c].items)) /\ r \in From({c})

\* A variable holds what was assigned to it last, by the program or by a
\* DESTROY method (PadList::set).
VariablesHold ==
  todo = << >> =>
    \A p \in DOMAIN env : \A i \in DOMAIN env[p] :
       env[p][i] = (IF i <= Len(pads[p]) THEN pads[p][i] ELSE Undef)

\* What an op leaves when its destructors are done: the variables hold what was
\* assigned last (PadList::set), and only cycles hold what nothing leads to (SharedPtr).
BetweenOps == VariablesHold /\ Collected

\* The destructors of one op come to an end.
Drains == todo # << >> ~> todo = << >> \/ mode = "aborted"

Held(r) == \E i \in DOMAIN pads.outer : pads.outer[i] = r

\* An integer that a variable holds changes by ++ only: a loop that goes on
\* leaves it alone (OP_FOR_ITER, "value is not copied").
TurnsAreNew ==
  [][Busy("iterate") =>
       \A r \in Cells : heap[r].type = "int" /\ Held(r) => heap'[r].n = heap[r].n]_vars

\* The elements of an array in a variable are not changed through the
\* variable of a foreach (docs/source/control.rst, "variables are copied").
LoopCopies ==
  [][frame.kind = "foreach" /\ pads.inner # << >> /\ stack # << >> /\ Top = pads.inner[1]
       => \A a \in Cells : heap[a].type = "array" /\ heap[a].live =>
            \A i \in DOMAIN heap[a].items :
               heap[a].items[i] # Undef => heap'[heap[a].items[i]].n = heap[heap[a].items[i]].n]_vars

\* assert(this->refcnt == 0) after DESTROY (ObjectValue::release).
StaysDropped == mode # "aborted"
=============================================================================
