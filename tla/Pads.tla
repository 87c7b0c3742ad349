-------------------------------- MODULE Pads --------------------------------
(***************************************************************************)
(* Variables at run time.  The compiler turns a name into an op and a      *)
(* place: a level, counted in its own blocks, and a number.  The machine   *)
(* finds the place by walking pads, which are linked in the order in which *)
(* frames were pushed.  A program is a set of scopes, whose statements     *)
(* (declare, read, assign, enter, define, call, leave) come in any order.  *)
(***************************************************************************)
EXTENDS Integers, Sequences, FiniteSets, SequencesExt

CONSTANTS
  Programs,    \* sets of scopes: [kind, parent, seen, names]
  Values,      \* what variables are assigned
  Redefines,   \* whether the statement that makes a function is run twice
  SetsInner,   \* whether a function called by another one assigns to closed variables
  MaxPads, MaxFrames   \* bounds

PadsAssumption ==
  /\ {Redefines, SetsInner} \subseteq BOOLEAN /\ {MaxPads, MaxFrames} \subseteq Nat
  /\ 0 \notin Values

VARIABLES
  prog,      \* the program
  pads,      \* PadList objects: the next one and the variables
  frames,    \* frame_stack, the outermost first
  codes,     \* function -> the pad list of its CodeValue, 0 for none
  crashed,   \* whether a null pad list was followed
  declared,  \* history: pad -> declarations of its scope run so far
  about,     \* history: pad -> its scope, the pad around it in the text, its arguments
  held,      \* history: function values, with the pad they were made on
  got        \* history: the value read last

history == << declared, about, held, got >>

vars == << prog, pads, frames, codes, crashed, history >>

Undef == 0
Top == Last(frames)

\* LexicalVarsFrame's constructor links its pad to the pad of the frame below.
PadAbove(ps, fs) == [next |-> IF fs = << >> THEN 0 ELSE Last(fs).pad, vals |-> << >>]

Frame(type, pad, scope) == [type |-> type, pad |-> pad, scope |-> scope]

NotAScope == [scope |-> 0, link |-> 0, args |-> << >>]

Init ==
  /\ prog \in Programs
  /\ pads = << [next |-> 0, vals |-> << >>], [next |-> 1, vals |-> << >>] >>
  /\ frames = << Frame("lexical", 1, 0), Frame("file", 2, 1) >>
  /\ codes = [s \in DOMAIN prog |-> 0] /\ crashed = FALSE
  /\ declared = << 0, 0 >> /\ about = << NotAScope, [NotAScope EXCEPT !.scope = 1] >>
  /\ held = {} /\ got = Undef

Ready == ~crashed

-----------------------------------------------------------------------------
(* The compiler: blocks and find_localvar. *)

\* The blocks while the text of scope s is compiled, after n declarations.
RECURSIVE Blocks(_, _)
Blocks(s, n) ==
  << [type |-> prog[s].kind, vars |-> SubSeq(prog[s].names, 1, n)] >>
    \o IF prog[s].parent = 0 THEN << >> ELSE Blocks(prog[s].parent, prog[s].seen)

Here == Blocks(Top.scope, declared[Top.pad])

Names == UNION {Range(prog[s].names) : s \in DOMAIN prog}

Visible(name) == \E k \in DOMAIN Here : name \in Range(Here[k].vars)

Smallest(S) == CHOOSE k \in S : \A j \in S : k <= j

\* Mutant: the outermost block that has the name.
FindOutermost(name) ==
  LET k == CHOOSE k \in DOMAIN Here : /\ name \in Range(Here[k].vars)
                                      /\ \A j \in k + 1 .. Len(Here) : name \notin Range(Here[j].vars)
      f == {j \in 1..k - 1 : Here[j].type = "function"}
  IN [level |-> k - 1, no |-> CHOOSE i \in DOMAIN Here[k].vars : Here[k].vars[i] = name,
      funcdef_level |-> IF f = {} THEN 0 ELSE Smallest(f) - 1,
      need_closure |-> f # {}, is_arg |-> Here[k].type = "function"]

\* Levels count from 0, at the innermost block; Smallest(f) is seen_funcdef.
find_localvar(name) ==
  LET k == Smallest({k \in DOMAIN Here : name \in Range(Here[k].vars)})
      f == {j \in 1..k - 1 : Here[j].type = "function"}
  IN [level |-> k - 1, no |-> CHOOSE i \in DOMAIN Here[k].vars : Here[k].vars[i] = name,
      funcdef_level |-> IF f = {} THEN 0 ELSE Smallest(f) - 1,
      need_closure |-> f # {}, is_arg |-> Here[k].type = "function"]

-----------------------------------------------------------------------------
(* The machine: pads and frames. *)

\* PadList::upper; 0 when the list ends before.
RECURSIVE upper(_, _)
upper(pad, level) ==
  IF pad = 0 \/ level = 0 THEN pad ELSE upper(pads[pad].next, level - 1)

FunctionFrames == {k \in DOMAIN frames : frames[k].type = "function"}

Innermost == frames[CHOOSE k \in FunctionFrames : \A j \in FunctionFrames : j <= k]
Outermost == frames[Smallest(FunctionFrames)]

\* OP_GETCLOSURE and OP_SETCLOSURE start at the pad list of a code value.
ClosurePad(v, frame) == upper(codes[frame.scope], v.level - v.funcdef_level - 1)

PlainPad(v) == upper(Top.pad, v.level)

GetPad(v) == IF v.need_closure THEN ClosurePad(v, Innermost) ELSE PlainPad(v)

\* Mutant: an assignment to a closed variable starts at the frame of its function.
SetFromFrame(v) == PlainPad(v)

SetPad(v) == IF v.need_closure THEN ClosurePad(v, Outermost) ELSE PlainPad(v)

\* PadList::get
get(pad, no) == IF no <= Len(pads[pad].vals) THEN pads[pad].vals[no] ELSE Undef

\* OP_GETARG: parameters are operands below the frame, not in its pad.
IsOperand(v) == v.is_arg /\ ~v.need_closure

InTry == \E k \in DOMAIN frames : /\ frames[k].type = "try"
                                  /\ \A j \in FunctionFrames : j < k

\* PadList::set fills a pad up to the place.
Extend(vals, no, v) ==
  [i \in 1 .. (IF no > Len(vals) THEN no ELSE Len(vals)) |->
     IF i = no THEN v ELSE IF i <= Len(vals) THEN vals[i] ELSE Undef]

FetchedBy(v) ==
  IF IsOperand(v) THEN about[Innermost.pad].args[v.no] ELSE get(GetPad(v), v.no)

Read == Ready /\ \E name \in Names :
  /\ Visible(name)
  /\ LET v == find_localvar(name) IN
       /\ ~(IsOperand(v) /\ InTry)
       /\ crashed' = (~IsOperand(v) /\ GetPad(v) = 0)
       /\ got' = IF crashed' THEN got ELSE FetchedBy(v)
  /\ UNCHANGED << prog, pads, frames, codes, declared, about, held >>

\* The value of v at its place.
Store(v, value) ==
  IF IsOperand(v)
  THEN /\ about' = [about EXCEPT ![Innermost.pad].args[v.no] = value]
       /\ UNCHANGED << pads, crashed >>
  ELSE /\ crashed' = (SetPad(v) = 0)
       /\ pads' = IF crashed' THEN pads
                  ELSE [pads EXCEPT ![SetPad(v)].vals = Extend(@, v.no, value)]
       /\ UNCHANGED about

Write == Ready /\ \E name \in Names, value \in Values :
  /\ Visible(name)
  /\ LET v == find_localvar(name) IN
       /\ ~(IsOperand(v) /\ InTry)
       /\ v.need_closure => SetsInner \/ Cardinality(FunctionFrames) = 1
       /\ Store(v, value)
  /\ UNCHANGED << prog, frames, codes, declared, held, got >>

\* define_my: the name joins the block and the variable is set to undef.
define_my ==
  /\ Ready /\ declared[Top.pad] < Len(prog[Top.scope].names)
  /\ declared' = [declared EXCEPT ![Top.pad] = @ + 1]
  /\ pads' = [pads EXCEPT ![Top.pad].vals = Extend(@, declared'[Top.pad], Undef)]
  /\ UNCHANGED << prog, frames, codes, crashed, about, held, got >>

-----------------------------------------------------------------------------
(* Frames. *)

Inside(s) == prog[s].parent = Top.scope /\ prog[s].seen = declared[Top.pad]

\* A frame on a pad of its own, for activation a of a scope.
Pushed(type, a) ==
  /\ frames' = Append(frames, Frame(type, Len(pads) + 1, a.scope))
  /\ pads' = Append(pads, PadAbove(pads, frames))
  /\ declared' = Append(declared, Len(a.args)) /\ about' = Append(about, a)

Room(n) == Len(pads) + n <= MaxPads /\ Len(frames) + n <= MaxFrames

\* OP_ENTER, OP_CLASS_ENTER
Enter == Ready /\ Room(1) /\ \E s \in DOMAIN prog :
  /\ Inside(s) /\ prog[s].kind \in {"block", "class"}
  /\ Pushed("lexical", [scope |-> s, link |-> Top.pad, args |-> << >>])
  /\ UNCHANGED << prog, codes, crashed, held, got >>

\* OP_TRY and the OP_ENTER after it: two frames for one block of the compiler.
EnterTry == Ready /\ Room(2) /\ \E s \in DOMAIN prog :
  /\ Inside(s) /\ prog[s].kind = "try"
  /\ frames' = frames \o << Frame("try", Len(pads) + 1, 0), Frame("lexical", Len(pads) + 2, s) >>
  /\ pads' = pads \o << PadAbove(pads, frames), [next |-> Len(pads) + 1, vals |-> << >>] >>
  /\ declared' = declared \o << 0, 0 >>
  /\ about' = about \o << NotAScope, [scope |-> s, link |-> Top.pad, args |-> << >>] >>
  /\ UNCHANGED << prog, codes, crashed, held, got >>

\* The frames of the innermost scope are popped.
Leave ==
  /\ Ready /\ Len(frames) > 2
  /\ frames' = LET fs == Front(frames) IN IF Last(fs).type = "try" THEN Front(fs) ELSE fs
  /\ UNCHANGED << prog, pads, codes, crashed, history >>

\* OP_RETURN: frames are popped down to a function's, or a try's.
OP_RETURN ==
  /\ Ready
  /\ \E k \in DOMAIN frames :
       /\ k < Len(frames) /\ frames[k].type \in {"function", "try"}
       /\ \A j \in k + 1 .. Len(frames) : frames[j].type \notin {"function", "try"}
       /\ frames' = SubSeq(frames, 1, k - 1)
  /\ UNCHANGED << prog, pads, codes, crashed, history >>

\* OP_CLOSUREDEF: the code value is a constant of the op array.
OP_CLOSUREDEF == Ready /\ \E s \in DOMAIN prog :
  /\ Inside(s) /\ prog[s].kind = "function"
  /\ codes[s] = 0 \/ Redefines
  /\ codes' = [codes EXCEPT ![s] = Top.pad]
  /\ held' = held \union {<< s, Top.pad >>}
  /\ UNCHANGED << prog, pads, frames, crashed, declared, about, got >>

\* VM::function_call of a function value, from anywhere.
function_call == Ready /\ Room(1) /\ \E f \in held :
  /\ \E args \in [1..Len(prog[f[1]].names) -> Values] :
       Pushed("function", [scope |-> f[1], link |-> f[2], args |-> args])
  /\ UNCHANGED << prog, codes, crashed, held, got >>

Next ==
  \/ Read \/ Write \/ define_my \/ Enter \/ EnterTry \/ Leave \/ OP_RETURN
  \/ OP_CLOSUREDEF \/ function_call

Spec == Init /\ [][Next]_vars

-----------------------------------------------------------------------------
(* The promise, with pads for activations. *)

ScopePads == {p \in DOMAIN pads : about[p].scope # 0}

ValsOf(p) ==
  IF prog[about[p].scope].kind = "function" THEN about[p].args
  ELSE [i \in 1..declared[p] |-> get(p, i)]

ScopeFrames == SelectSeq(frames, LAMBDA f : f.scope # 0)

L == INSTANCE Lexical WITH
       Ids <- 1..MaxPads,
       env <- [p \in ScopePads |-> [scope |-> about[p].scope, link |-> about[p].link, vals |-> ValsOf(p)]],
       at  <- [k \in DOMAIN ScopeFrames |-> ScopeFrames[k].pad]

\* Every run of pads and frames is one of lexical scoping: what a read gives,
\* and which variable an assignment changes, follows the text of the program
\* although pads are linked in the order of calls.
Refines == L!Spec

\* Every name that the compiler accepts has the value that lexical scoping
\* gives it, wherever the walk over pads starts and whoever called.
LexicalScoping ==
  Ready => \A name \in Names :
    Visible(name) /\ ~(IsOperand(find_localvar(name)) /\ InTry) =>
      LET v == find_localvar(name) IN
      (IsOperand(v) \/ GetPad(v) # 0) => FetchedBy(v) = L!ValueOf(name)

\* A name is read where it is assigned: OP_GETCLOSURE and OP_SETCLOSURE, and
\* the ops for plain variables, meet on one pad.
SameVariable ==
  Ready => \A name \in Names :
    Visible(name) => LET v == find_localvar(name) IN GetPad(v) = SetPad(v)

\* assert(pl) in PadList::get_dynamic, and the assertions of OP_GETCLOSURE: the
\* walk over pads ends on one.
PadFound == ~crashed

\* The pad of a try frame stays empty: `try frame does not have variables.`
TryHasNoVariables ==
  \A k \in DOMAIN frames : frames[k].type = "try" => pads[frames[k].pad].vals = << >>
=============================================================================
