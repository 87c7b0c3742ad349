------------------------------ MODULE Compiler ------------------------------
(***************************************************************************)
(* Compiler::compile: the op arrays it lays out for a syntax tree, with    *)
(* the bookkeeping it keeps while doing so (blocks of variables, the loop  *)
(* and try contexts, the pending `last` labels).  Beside each op stands    *)
(* the static scope it lies in and the operands that are surely on the     *)
(* stack above that scope's frame, which is what module VM asks of a       *)
(* program.                                                                *)
(*                                                                         *)
(* A node is a record of its type t and its children kids, as in class     *)
(* Node, with the payload the type needs.  Nodes that only take operands   *)
(* and push one result (constants, operators, items, containers) are the   *)
(* one type EXPR.  Functions an op can call are named in the node, since   *)
(* the lookup is made at run time.                                         *)
(***************************************************************************)
EXTENDS Integers, Sequences, SequencesExt

Void == [t |-> "VOID", kids |-> << >>]
Undef == [t |-> "EXPR", kids |-> << >>, throws |-> FALSE]

RootScope == << "", 0 >>
FunctionScope(f) == << f, -1 >>

-----------------------------------------------------------------------------
(* The compiler's state. *)

NewBlock(type, names, scope) == [type |-> type, vars |-> names, scope |-> scope]

Compiler(name, blocks, scope) ==
  [name |-> name, ops |-> << >>, blocks |-> blocks, scope |-> scope,
   depth |-> 0, scopes |-> {}, in_try_block |-> FALSE,
   in_loop_context |-> FALSE, last_labels |-> << >>, funs |-> << >>,
   error |-> FALSE]

Fail(c) == [c EXCEPT !.error = TRUE]

\* The pc of the next op.
Here(c) == Len(c.ops)

\* push_op of i, with d operands above the frame after it.
Emit(c, i, d) ==
  [c EXCEPT !.ops = Append(@, [scope |-> c.scope, depth |-> c.depth, ins |-> i]),
            !.depth = d]

Patch(c, at, label) == [c EXCEPT !.ops[at + 1].ins.to = label]

Value(c, pop, push, throws) ==
  Emit(c, [op |-> "VALUE", pop |-> pop, push |-> push, throws |-> throws,
           get |-> "NONE"], c.depth - pop + push)

Nextstate(c) == Emit(c, [op |-> "NEXTSTATE"], 0)

\* Fewer operands are sure where control joins with d of them.
Join(c, d) == [c EXCEPT !.depth = IF d < @ THEN d ELSE @]

\* An op that pushes a frame: the code after it lies in a new scope, d
\* operands of the old one stay below, and in operands are on the new one.
EnterScope(c, i, kind, d, in) ==
  LET s == << c.name, Here(c) >> IN
  [Emit(c, i @@ [into |-> s], in) EXCEPT
     !.scope = s,
     !.scopes = @ \cup {[id |-> s, parent |-> c.scope, kind |-> kind, entry |-> d]}]

ScopeRec(c) == CHOOSE r \in c.scopes : r.id = c.scope

\* The code from here on lies in the scope around the current one.
LeaveScope(c, d) == [c EXCEPT !.scope = ScopeRec(c).parent, !.depth = d]

push_block(c, type) ==
  [c EXCEPT !.blocks = Append(@, NewBlock(type, << >>, c.scope))]
pop_block(c) == [c EXCEPT !.blocks = Front(@)]

\* LoopContext and TryGuard: a context for the code of one node.
Restore(c, old) == [c EXCEPT !.in_loop_context = old.in_loop_context,
                             !.in_try_block = old.in_try_block]

-----------------------------------------------------------------------------
(* Variables. *)

define_localvar(c, name) ==
  LET b == Last(c.blocks) IN
  IF name \in Range(b.vars)
  THEN Fail(c)
  ELSE [c EXCEPT !.blocks[Len(c.blocks)].vars = Append(@, name)]

\* The innermost block that has the variable; level counts blocks up to it.
Visible(c, name) == \E k \in DOMAIN c.blocks : name \in Range(c.blocks[k].vars)
find_localvar(c, name) ==
  LET k == Max({j \in DOMAIN c.blocks : name \in Range(c.blocks[j].vars)})
      b == c.blocks[k]
  IN [level |-> Len(c.blocks) - k,
      no    |-> (CHOOSE i \in DOMAIN b.vars : b.vars[i] = name) - 1,
      home  |-> b.scope,
      is_arg |-> b.type = "FUNCDEF",
      need_closure |-> \E j \in k + 1 .. Len(c.blocks) :
                         c.blocks[j].type = "FUNCDEF"]

\* OP_GETCLOSURE, OP_GETARG, OP_GETLOCAL or OP_GETDYNAMIC, or the SET of each,
\* which leaves the operand it stores.
Access(c, name, push) ==
  IF ~Visible(c, name) THEN Fail(c)
  ELSE LET v == find_localvar(c, name)
           get == IF v.need_closure THEN "CLOSURE"
                  ELSE IF v.is_arg THEN "ARG"
                  ELSE IF v.level = 0 THEN "LOCAL" ELSE "DYNAMIC"
       IN IF get = "ARG"
          THEN Emit(c, [op |-> "ARG", no |-> v.no, push |-> push], c.depth + push)
          ELSE Emit(c, [op |-> "VALUE", pop |-> 1 - push, push |-> 1,
                        throws |-> FALSE, get |-> get, level |-> v.level,
                        no |-> v.no, home |-> v.home], c.depth + push)

get_variable(c, name) == Access(c, name, 1)
set_variable(c, name) == Access(c, name, 0)

\* count_variable_declare: declarations anywhere below the node, those of
\* inner blocks and functions included.
RECURSIVE declares(_)
declares(n) ==
  \/ n.t = "MY" /\ n.kids # << >>
  \/ n.t # "MY" /\ \E i \in DOMAIN n.kids : declares(n.kids[i])

MyNames(n) ==
  IF n.kids[1].t = "TUPLE" THEN [i \in DOMAIN n.kids[1].kids |-> n.kids[1].kids[i].name]
  ELSE << n.kids[1].name >>

Define(c, names) == FoldLeft(define_localvar, c, names)

\* Assign the operand on top to an lvalue; a tuple is taken apart and gone.
SetAll(c, names) ==
  FoldLeft(LAMBDA d, name : Value(set_variable(d, name), 1, 0, FALSE),
           Value(c, 1, Len(names), FALSE), names)

set_lvalue(c, n) ==
  CASE n.t = "GETVARIABLE" -> set_variable(c, n.name)
    [] n.t = "TUPLE" -> SetAll(c, [i \in DOMAIN n.kids |-> n.kids[i].name])
    [] n.t = "MY" ->
         LET d == Define(c, MyNames(n)) IN
         IF n.kids[1].t = "TUPLE" THEN SetAll(d, MyNames(n))
         ELSE set_variable(d, n.kids[1].name)

-----------------------------------------------------------------------------
(* One case per node type. *)

\* Mutant: the label is taken for the place before the one to go on at.
PatchLastBehind(c, label) ==
  [FoldLeft(LAMBDA d, at : Patch(d, at, label + 1), c, c.last_labels) EXCEPT !.last_labels = << >>]

\* The end of a loop: every pending `last` of the function gets its label.
PatchLast(c, label) ==
  [FoldLeft(LAMBDA d, at : Patch(d, at, label), c, c.last_labels)
     EXCEPT !.last_labels = << >>]

RECURSIVE compile(_, _), CompileAll(_, _)

CompileAll(c, ns) == IF ns = << >> THEN c ELSE CompileAll(compile(c, Head(ns)), Tail(ns))

\* OptimizableEnterScope's constructor and destructor: a frame and a block
\* around the code of a node, only if the node declares variables.
OptimizableEnterScope(c, n) ==
  IF declares(n)
  THEN push_block(EnterScope(c, [op |-> "ENTER"], "LEXICAL", c.depth, 0), "BLOCK")
  ELSE c
OptimizableLeaveScope(c, n, d) ==
  IF declares(n) THEN pop_block(LeaveScope(Emit(d, [op |-> "LEAVE"], 0), c.depth)) ELSE d

CompileRoot(c, n) ==
  LET p == push_block(EnterScope(c, [op |-> "ENTER"], "FILE_PACKAGE", 0, 0), "FILE")
      b == push_block(EnterScope(p, [op |-> "ENTER"], "LEXICAL", 0, 0), "BLOCK")
  IN Emit(compile(b, n.kids[1]), [op |-> "END"], 0)

CompileReturn(c, n) ==
  LET ks == IF c.in_try_block THEN << Undef >> \o n.kids ELSE n.kids
      d  == CASE Len(ks) = 0 -> Value(c, 0, 1, FALSE)
              [] Len(ks) = 1 -> compile(c, ks[1])
              [] OTHER -> Value(CompileAll(c, ks), Len(ks), 1, FALSE)
  IN Emit(d, [op |-> "RETURN"], d.depth)

CompileIf(c, n) ==
  LET b == OptimizableEnterScope(c, n.kids[1])
      d == compile(b, n.kids[1])
      e == compile(Emit(d, [op |-> "JUMP_IF", to |-> 0], d.depth), n.kids[2])
      f == Emit(e, [op |-> "JUMP", to |-> 0], d.depth)
      g == compile(Patch(f, Here(d), Here(f)), n.kids[3])
  IN OptimizableLeaveScope(c, n.kids[1], Join(Patch(g, Here(e), Here(g)), e.depth))

CompileWhile(c, n) ==
  LET d == compile(c, n.kids[1])
      w == push_block(EnterScope(Emit([d EXCEPT !.in_loop_context = TRUE],
                                      [op |-> "JUMP_IF", to |-> 0], d.depth),
                                 [op |-> "ENTER"], "WHILE", d.depth, 0), "BLOCK")
      e == pop_block(LeaveScope(Emit(compile(w, n.kids[2]), [op |-> "LEAVE"], 0),
                                d.depth))
      f == Emit(e, [op |-> "JUMP", to |-> Here(c)], d.depth)
  IN Restore(PatchLast(Patch(f, Here(d), Here(f)), Here(f) - 1), c)

\* The condition may start again with fewer operands than the first time: the
\* statements of the block drop them.
CompileFor(c, n) ==
  LET b == push_block(EnterScope(c, [op |-> "ENTER"], "FOR", c.depth, 0), "BLOCK")
      i == [compile(b, n.kids[1]) EXCEPT !.depth = 0]
      d == compile(i, n.kids[2])
      j == [Emit(d, [op |-> "JUMP_IF", to |-> 0], d.depth)
              EXCEPT !.in_loop_context = TRUE]
      e == compile(Restore(compile(j, n.kids[4]), c), n.kids[3])
      f == Emit(e, [op |-> "JUMP", to |-> Here(i)], 0)
      g == pop_block(LeaveScope(Emit(Patch(f, Here(d), Here(f)), [op |-> "LEAVE"], 0),
                                c.depth))
  IN PatchLast(g, Here(f))

CompileForeach(c, n) ==
  LET s == compile([c EXCEPT !.in_loop_context = TRUE], n.kids[1])
      b == push_block(EnterScope(s, [op |-> "ENTER_FOREACH", throws |-> n.throws],
                                 "FOREACH", c.depth, 0), "BLOCK")
      i == Emit(b, [op |-> "FOR_ITER", throws |-> n.throws], 1)
      j == Emit(i, [op |-> "JUMP_IF", to |-> 0], 1)
      e == compile(set_lvalue(j, n.kids[2]), n.kids[3])
      f == Emit(e, [op |-> "JUMP", to |-> Here(b)], 1)
      g == pop_block(Patch(f, Here(i), Here(f)))
      h == LeaveScope(Emit([g EXCEPT !.depth = 0], [op |-> "LEAVE"], 0), c.depth)
  IN Restore(PatchLast(h, Here(f)), c)

\* Two frames, the try frame and the lexical frame in it, for one block.
CompileTry(c, n) ==
  LET x == [c EXCEPT !.in_loop_context = FALSE, !.in_try_block = TRUE]
      t == EnterScope(x, [op |-> "TRY", to |-> 0], "TRY", c.depth, 0)
      b == push_block(EnterScope(t, [op |-> "ENTER"], "LEXICAL", 0, 0), "TRY")
      d == Value(Value(Value(compile(b, n.kids[1]), 0, 1, FALSE), 0, 1, FALSE), 2, 1, FALSE)
      r == Emit(d, [op |-> "RETURN"], 0)
      e == LeaveScope(pop_block(LeaveScope(r, 0)), c.depth + 1)
  IN Restore(Patch(e, Here(c), Here(r)), c)

CompileClass(c, n) ==
  LET b == push_block(EnterScope(c, [op |-> "CLASS_ENTER"], "CLASS", c.depth, 1), "CLASS")
      d == compile(b, n.kids[1])
  IN pop_block(LeaveScope(Emit(d, [op |-> "CLASS_LEAVE"], 0), c.depth + d.depth))

CompileLast(c) ==
  IF c.in_loop_context
  THEN Emit([c EXCEPT !.last_labels = Append(@, Here(c))],
            [op |-> "LAST", to |-> 0], c.depth)
  ELSE Fail(c)

\* && and ||: the left operand stays if it decides.
CompileLogical(c, n) ==
  LET d == compile(c, n.kids[1])
      j == Emit(d, [op |-> "JUMP_IF", to |-> 0], d.depth)
      e == compile(Value(j, 1, 0, FALSE), n.kids[2])
  IN Patch(e, Here(d), Here(e))

\* Arguments last to first, then the name of the callee and the object.
CompileCall(c, n, i) ==
  LET a == CompileAll([c EXCEPT !.in_loop_context = FALSE], Reverse(n.kids))
      d == compile(Value(a, 0, 1, FALSE), n.object)
  IN Restore(Emit(d, i, c.depth + 1), c)

\* A function is compiled by a compiler of its own that starts with a copy of
\* the blocks.  The code of the defaults, each ended by OP_END, comes first.
CompileBody(c, name, params, withDefaults, body) ==
  LET fs == FunctionScope(name)
      f0 == Compiler(name, Append(c.blocks, NewBlock("FUNCDEF",
                             [i \in DOMAIN params |-> params[i].name], fs)), fs)
      f1 == IF withDefaults THEN Emit(f0, [op |-> "JUMP", to |-> 0], 0) ELSE f0
      Default(f, p) ==
        IF p.default = Void THEN [f EXCEPT !.defaults = Append(@, -1)]
        ELSE LET g == compile([f EXCEPT !.scope = RootScope, !.depth = 0], p.default)
                 h == Emit(g, [op |-> "END"], 0)
             IN [h EXCEPT !.defaults = Append(@, Here(f)), !.scope = fs]
      f2 == IF withDefaults THEN FoldLeft(Default, f1 @@ [defaults |-> << >>], params)
            ELSE f1 @@ [defaults |-> [i \in DOMAIN params |-> -1]]
      f3 == IF withDefaults THEN Patch(f2, 0, Here(f2)) ELSE f2
  IN Emit(compile(f3, body), [op |-> "RETURN"], 0)

\* The enclosing code pushes the code value and defines it.  The errors of a
\* named function count, those of a lambda do not.
AddFunction(c, name, f, nparams, countErrors) ==
  [Value(c, 0, 1, FALSE) EXCEPT
     !.funs = (@ \o f.funs) \o << [name |-> name, ops |-> f.ops, nparams |-> nparams,
                                    defaults |-> f.defaults, failed |-> f.error] >>,
     !.scopes = @ \cup f.scopes,
     !.error = @ \/ (countErrors /\ f.error)]

\* A call of a native function: the functions it calls back and with how many
\* arguments, the files it evaluates.
NativeOp(n, pop) ==
  [op |-> "NATIVE", pop |-> pop, callbacks |-> n.callbacks, cbargs |-> n.cbargs,
   files |-> n.files, throws |-> n.throws]

Params(names) == [i \in DOMAIN names |-> [name |-> names[i], default |-> Void]]

CompileFuncdef(c, n) ==
  LET ps == IF n.have_params THEN n.params ELSE Params(<< "$_" >>)
  IN AddFunction(c, n.name, CompileBody(c, n.name, ps, n.have_params, n.kids[1]),
                 IF n.have_params THEN Len(ps) ELSE -1, TRUE)

CompileLambda(c, n) ==
  LET ps == IF n.params = << >> THEN Params(<< "$_" >>) ELSE n.params
  IN AddFunction(c, n.name, CompileBody(c, n.name, ps, FALSE, n.kids[1]), Len(ps), FALSE)

CompileNode(c, n) ==
  CASE n.t = "ROOT" -> CompileRoot(c, n)
    [] n.t = "VOID" -> c
    [] n.t = "EXPR" -> Value(CompileAll(c, n.kids), Len(n.kids), 1, n.throws)
    [] n.t = "GETVARIABLE" -> get_variable(c, n.name)
    [] n.t = "SETVARIABLE" -> set_lvalue(compile(c, n.kids[2]), n.kids[1])
    [] n.t = "MY" ->
         FoldLeft(LAMBDA d, name : set_variable(Value(define_localvar(d, name), 0, 1, FALSE), name),
                  c, MyNames(n))
    [] n.t = "STMTS" -> compile(Nextstate(compile(c, n.kids[1])), n.kids[2])
    [] n.t = "STMTS_LIST" -> FoldLeft(LAMBDA d, k : compile(Nextstate(d), k), c, n.kids)
    [] n.t = "BLOCK" ->
         OptimizableLeaveScope(c, n.kids[1],
           compile(OptimizableEnterScope(c, n.kids[1]), n.kids[1]))
    [] n.t = "RETURN" -> CompileReturn(c, n)
    [] n.t = "IF" -> CompileIf(c, n)
    [] n.t = "WHILE" -> CompileWhile(c, n)
    [] n.t = "FOR" -> CompileFor(c, n)
    [] n.t = "FOREACH" -> CompileForeach(c, n)
    [] n.t = "LAST" -> CompileLast(c)
    [] n.t = "TRY" -> CompileTry(c, n)
    [] n.t = "DIE" -> LET d == compile(c, n.kids[1])
                      IN Emit(d, [op |-> "DIE"], d.depth)
    [] n.t = "CLASS" -> CompileClass(c, n)
    [] n.t \in {"LOGICAL_AND", "LOGICAL_OR"} -> CompileLogical(c, n)
    [] n.t = "FUNCALL" ->
         CompileCall(c, n, [op |-> "FUNCALL", pop |-> Len(n.kids),
                               counts |-> IF n.spread = {} THEN {Len(n.kids)} ELSE n.spread,
                               fns |-> n.fns, throws |-> n.throws])
    [] n.t = "METHOD_CALL" ->
         CompileCall(c, n, [op |-> "METHOD_CALL", pop |-> Len(n.kids),
                               fns |-> n.fns, throws |-> n.throws])
    [] n.t = "CODE_CALL" ->
         CompileCall(c, n, [op |-> "CODE_CALL", pop |-> Len(n.kids), fns |-> n.fns])
    [] n.t = "NATIVE" ->
         CompileCall(c, n, NativeOp(n, Len(n.kids) + (IF n.object = Void THEN 1 ELSE 2)))
    [] n.t = "USE" -> Emit(CompileAll(c, n.kids), NativeOp(n, 2), c.depth + 1)
    [] n.t = "FUNCDEF" -> CompileFuncdef(c, n)
    [] n.t = "LAMBDA" -> CompileLambda(c, n)

\* The state is a value, not an expression yet to be evaluated, in each case:
\* the long chains of a large tree would exhaust TLC's stack.
compile(c, n) == CHOOSE r \in {CompileNode(d, n) : d \in {c}} : TRUE

\* Compiler::compile on a whole file, as main() and VM::eval call it.
CompileFile(name, n) == compile(Compiler(name, << >>, RootScope), n)
=============================================================================
