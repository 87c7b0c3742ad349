------------------------------ MODULE CompiledTrees ------------------------------
(***************************************************************************)
(* Compiler on every small program: a statement is wrapped in others, from *)
(* the inside out, and the ops of the file and its functions are followed  *)
(* with the frames they push.                                              *)
(***************************************************************************)
EXTENDS Trees, FiniteSets

CONSTANTS
  LastFirst,   \* whether `last` may stand before a loop inside its own
  Lambdas,     \* whether there are lambdas
  MaxWraps     \* bound: statements around the innermost one

VARIABLES
  tree,        \* the program, one statement
  wraps        \* how many statements have been put around it

vars == << tree, wraps >>

V == Get("$v")
Plain == { Expr(<< V >>), Set(V, Const), My("$v"), LastStmt, Return(<< >>), Const }

\* Names of functions, one for each step.
FunctionName == << "f1", "f2", "f3", "f4", "f5" >>[wraps + 1]

Wrapped(s) ==
  { If(Const, Block(<< s >>), Void), If(V, Const, Block(<< s >>)), While(V, Block(<< s >>)),
    For(My("$v"), V, Const, Block(<< s >>)), Foreach(Const, "$v", Block(<< s >>)),
    Foreach(Const, "$w", Block(<< s >>)), Try(Block(<< s >>)), Class(Block(<< s >>)),
    Sub(FunctionName, << "$v" >>, Block(<< s >>)) }
  \union (IF Lambdas THEN { Lambda(FunctionName, << "$w" >>, Block(<< s >>)) } ELSE {})
  \union { Block(<< p, s >>) : p \in Plain } \union { Block(<< s, p >>) : p \in Plain }

IsFunction(n) == n.t \in {"FUNCDEF", "LAMBDA"}
IsLoop(n) == n.t \in {"WHILE", "FOR", "FOREACH"}

\* The loops and lasts of one function in the order of the text.
RECURSIVE Text(_)
Text(n) ==
  IF IsFunction(n) THEN << >>
  ELSE LET inner == FoldLeft(LAMBDA ts, k : ts \o Text(k), << >>, n.kids)
       IN  CASE n.t = "LAST" -> << "last" >>
             [] IsLoop(n)    -> << "begin" >> \o inner \o << "end" >>
             [] OTHER        -> inner

Bodies(n) ==
  LET RECURSIVE In(_)
      In(k) == (IF IsFunction(k) THEN {k.kids[1]} ELSE {}) \union UNION {In(k.kids[i]) : i \in DOMAIN k.kids}
  IN  {n} \union In(n)

HasLastFirst(n) ==
  \E b \in Bodies(n) :
    LET ts == Text(b) IN
    \E i, j \in DOMAIN ts : i < j /\ ts[i] = "last" /\ ts[j] = "begin"
                            /\ \A k \in i .. j : ts[k] # "end"

Init == tree \in Plain /\ wraps = 0

Wrap ==
  /\ wraps < MaxWraps /\ wraps' = wraps + 1
  /\ tree' \in Wrapped(tree) /\ (~LastFirst => ~HasLastFirst(tree'))

Spec == Init /\ [][Wrap]_vars

-----------------------------------------------------------------------------
(* What is compiled, and where control goes in it. *)

File1 == File(<< MyTuple(<< "$v", "$u" >>), tree >>)

Compiled == CompileFile("main", File1)

\* The op arrays of the file and of its functions, with a frame each that the call has pushed.
Arrays(c) ==
  { [name |-> "main", ops |-> c.ops, frames |-> << >>] }
  \union { [name |-> f.name, ops |-> f.ops, frames |-> << [kind |-> "FUNCTION", pc |-> -1] >>]
           : f \in Range(c.funs) }

Pushed(i, p) ==
  CASE i.op = "ENTER_FOREACH" -> << [kind |-> "FOREACH", pc |-> p] >>
    [] i.op = "CLASS_ENTER"   -> << [kind |-> "CLASS", pc |-> p] >>
    [] i.op = "TRY"           -> << [kind |-> "TRY", pc |-> p] >>
    [] OTHER                  -> << [kind |-> "BLOCK", pc |-> p] >>

\* A frame of a WHILE or FOR is known by the scope its ENTER has been given.
KindOf(c, name, frame) ==
  LET recs == { r \in c.scopes : r.id = << name, frame.pc >> }
  IN  IF frame.kind # "BLOCK" \/ recs = {} THEN frame.kind ELSE (CHOOSE r \in recs : TRUE).kind

\* OP_LAST takes frames off up to that of a loop.
LoopFrame(c, name, frames) ==
  LET is == { i \in DOMAIN frames : KindOf(c, name, frames[i]) \in {"WHILE", "FOR", "FOREACH"} }
  IN  IF is = {} THEN 0 ELSE Max(is)

\* Where control goes from an op, and with which frames.
Steps(c, name, i, p, frames) ==
  CASE i.op \in {"ENTER", "ENTER_FOREACH", "CLASS_ENTER"} -> { << p + 1, frames \o Pushed(i, p) >> }
    [] i.op = "TRY" -> { << p + 1, frames \o Pushed(i, p) >>, << i.to, frames >> }
    [] i.op \in {"LEAVE", "CLASS_LEAVE"} ->
         IF frames = << >> THEN {} ELSE { << p + 1, Front(frames) >> }
    [] i.op = "LAST" ->
         LET k == LoopFrame(c, name, frames)
         IN  IF k = 0 THEN {} ELSE { << i.to + 1, SubSeq(frames, 1, k - 1) >> }
    [] i.op = "JUMP" -> { << i.to, frames >> }
    [] i.op = "JUMP_IF" -> { << i.to, frames >>, << p + 1, frames >> }
    [] i.op \in {"RETURN", "END", "DIE"} -> {}
    [] OTHER -> { << p + 1, frames >> }

\* Every place control comes to, with the frames it may have there.
Flow(c, a) ==
  LET Next1(s) == IF s[1] + 1 \notin DOMAIN a.ops \/ Len(s[2]) > 2 * MaxWraps + 4 THEN {}
                  ELSE Steps(c, a.name, a.ops[s[1] + 1].ins, s[1], s[2])
      RECURSIVE Reach(_, _)
      Reach(seen, new) ==
        IF new = {} THEN seen
        ELSE LET more == UNION { Next1(s) : s \in new }
             IN  Reach(seen \union new, more \ (seen \union new))
  IN  Reach({}, { << 0, a.frames >> })

-----------------------------------------------------------------------------
(* Properties. *)

\* NODE_IF, NODE_WHILE, NODE_FOR, NODE_FOREACH, NODE_TRY and NODE_CLASS: whatever way control
\* comes to an op, the same frames have been pushed and not yet left, and it never leaves the op array.
OneNesting(a, flow) ==
  /\ \A s \in flow : s[1] + 1 \in DOMAIN a.ops
  /\ \A s, t \in flow : s[1] = t[1] => s[2] = t[2]

\* compiler.cc:1472 "break from for/foreach/while": OP_LAST goes on where the loop it is written
\* in goes on at its end.
LastLeavesItsLoop(c, a, flow) ==
  LET At(p) == a.ops[p + 1].ins
      End(frame) ==   \* behind the loop of the frame
        IF KindOf(c, a.name, frame) = "WHILE" THEN At(frame.pc - 1).to
        ELSE (CHOOSE s \in flow : /\ At(s[1]).op = "LEAVE" /\ s[2] # << >>
                                  /\ Last(s[2]) = frame)[1] + 1
  IN  \A s \in flow : At(s[1]).op = "LAST" =>
        LET k == LoopFrame(c, a.name, s[2]) IN k # 0 /\ At(s[1]).to + 1 = End(s[2][k])

\* Compiler::find_localvar: as many frames are pushed since the block of a variable as its level
\* says, where no try is between them.
LevelsReachHome(a, flow) ==
  \A s \in flow :
    LET i == a.ops[s[1] + 1].ins IN
    i.op = "VALUE" /\ i.get \in {"LOCAL", "DYNAMIC"} =>
      LET k == Len(s[2]) - i.level IN
      (\A j \in k .. Len(s[2]) : j >= 1 => s[2][j].kind # "TRY")
        => k >= 1 /\ i.home = << a.name, s[2][k].pc >>

\* Compiler::compile: jumps and levels agree with the frames in all code that is run.
JumpsAndLevels ==
  LET c == Compiled IN
  ~c.error =>
    \A a \in Arrays(c) :
      LET flow == Flow(c, a)
      IN  OneNesting(a, flow) /\ LastLeavesItsLoop(c, a, flow) /\ LevelsReachHome(a, flow)

\* main.cc:215 "Compilation failed": code in which something could not be compiled is not run.
FailuresStop == LET c == Compiled IN (\E f \in Range(c.funs) : f.failed) => c.error
=============================================================================
