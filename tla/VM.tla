--------------------------------- MODULE VM ---------------------------------
(***************************************************************************)
(* The control machine of Tora's word-code interpreter: the interpreter    *)
(* loop VM::execute, the opcodes of vm.inc that move control or touch the  *)
(* frame, mark and operand stacks, the unwinding of VM::handle_exception,  *)
(* and the re-entrance of the interpreter through native functions         *)
(* (VM::function_call_ex, VM::eval, default arguments).                    *)
(*                                                                         *)
(* The operand stack is abstracted to its height: no property of this      *)
(* module depends on the values, only on which slots belong to whom.  The  *)
(* outcome of a test, of a lookup or of a native function is a free        *)
(* choice.  The program is a constant: op arrays annotated with the        *)
(* static scope and the least operand depth of each op, as the compiler    *)
(* lays them out (WellFormed says what the annotation must satisfy).       *)
(***************************************************************************)
EXTENDS Integers, Sequences, SequencesExt

CONSTANTS
  Files,          \* op arrays of compiled files and evaluated strings
  Functions,      \* op arrays of compiled functions and lambdas
  Main,           \* the file the interpreter is started on
  End,            \* end_ops: the one-op array of function_call_ex
  Code,           \* Code[a][pc]: the op at pc of op array a
  ScopeAt,        \* ScopeAt[a][pc]: the static scope the op lies in
  DepthAt,        \* DepthAt[a][pc]: operands surely above the scope's frame
  Scopes, Root,   \* static scopes, Root outside all of them
  Parent, Kind,   \* nesting and frame type of a scope
  EntryDepth,     \* operands of the parent surely there when entering it
  LoopOf,         \* the loop a `last` in the scope leaves, on its domain
  ReturnScopes,   \* scopes inside a function or a try
  FnScope,        \* the scope of a function's own frame
  NParams,        \* length of the parameter list, NoParams without a list
  Defaults        \* Defaults[f][i]: pc of the default of parameter i, or -1

NoParams == -1

OpArrays   == Files \cup Functions \cup {End}
LoopTypes  == {"WHILE", "FOR", "FOREACH"}
BlockTypes == {"LEXICAL"} \cup LoopTypes
ActTypes   == {"FUNCTION", "TRY"}
FrameTypes == BlockTypes \cup ActTypes \cup {"FILE_PACKAGE", "CLASS"}

-----------------------------------------------------------------------------
(* What the compiler guarantees of the op arrays. *)

\* Control may go to t with scope s and d operands above the frame of s.
FlowsTo(a, t, s, d) ==
  /\ t \in DOMAIN Code[a]
  /\ ScopeAt[a][t] = s
  /\ DepthAt[a][t] <= d

\* The op enters scope i.into, d operands staying below its frame.
Enters(i, s, d) ==
  /\ i.into \in Scopes \ {Root}
  /\ Parent[i.into] = s
  /\ EntryDepth[i.into] <= d

WellFormedOp(a, p) ==
  LET i == Code[a][p]
      s == ScopeAt[a][p]
      d == DepthAt[a][p]
  IN /\ i.op = "VALUE" =>
          /\ i.pop \in 0 .. d /\ i.push \in Nat
          /\ FlowsTo(a, p + 1, s, d - i.pop + i.push)
     /\ i.op = "ARG" =>
          /\ i.no \in Nat /\ s \in ReturnScopes /\ i.push \in {0, 1}
          /\ FlowsTo(a, p + 1, s, d + i.push)
     /\ i.op = "NEXTSTATE" => s # Root /\ FlowsTo(a, p + 1, s, 0)
     /\ i.op = "JUMP" => FlowsTo(a, i.to, s, d)
     /\ i.op = "JUMP_IF" =>
          /\ d >= 1
          /\ FlowsTo(a, i.to, s, d) /\ FlowsTo(a, p + 1, s, d)
     /\ i.op = "ENTER" =>
          /\ Enters(i, s, d)
          /\ Kind[i.into] \in {"LEXICAL", "WHILE", "FOR", "FILE_PACKAGE"}
          /\ FlowsTo(a, p + 1, i.into, 0)
     /\ i.op = "ENTER_FOREACH" =>
          /\ d >= 1 /\ Enters(i, s, d - 1) /\ Kind[i.into] = "FOREACH"
          /\ FlowsTo(a, p + 1, i.into, 0)
     /\ i.op = "CLASS_ENTER" =>
          /\ Enters(i, s, d) /\ Kind[i.into] = "CLASS"
          /\ FlowsTo(a, p + 1, i.into, 1)
     /\ i.op = "LEAVE" =>
          /\ s # Root /\ Kind[s] \in BlockTypes
          /\ FlowsTo(a, p + 1, Parent[s], EntryDepth[s])
     /\ i.op = "CLASS_LEAVE" =>
          /\ s # Root /\ Kind[s] = "CLASS"
          /\ FlowsTo(a, p + 1, Parent[s], EntryDepth[s] + d)
     /\ i.op = "FOR_ITER" =>
          /\ s # Root /\ Kind[s] = "FOREACH"
          /\ FlowsTo(a, p + 1, s, 1)
     /\ i.op = "LAST" =>
          /\ s \in DOMAIN LoopOf
          /\ FlowsTo(a, i.to + 1, Parent[LoopOf[s]], EntryDepth[LoopOf[s]])
     /\ i.op = "TRY" =>
          /\ Enters(i, s, d) /\ Kind[i.into] = "TRY"
          /\ FlowsTo(a, p + 1, i.into, 0)
          /\ FlowsTo(a, i.to, s, EntryDepth[i.into] + 1)
     /\ i.op = "DIE" => d >= 1
     /\ i.op = "FUNCALL" =>
          /\ i.fns \subseteq Functions /\ i.pop \in 0 .. d - 1
          /\ i.counts \subseteq Nat
          /\ FlowsTo(a, p + 1, s, d - i.pop)
     /\ i.op \in {"METHOD_CALL", "CODE_CALL"} =>
          /\ i.fns \subseteq Functions /\ i.pop \in 0 .. d - 2
          /\ FlowsTo(a, p + 1, s, d - i.pop - 1)
     /\ i.op = "NATIVE" =>
          /\ i.pop \in 0 .. d
          /\ i.callbacks \subseteq Functions /\ i.files \subseteq Files
          /\ i.cbargs \in Nat
          /\ FlowsTo(a, p + 1, s, d - i.pop + 1)
     /\ i.op = "RETURN" => s \in ReturnScopes
     /\ i.op = "END" => /\ a \in Functions => s = Root
                        /\ s = Root => d >= 1
                        /\ a \in Files => s # Root /\ s \notin ReturnScopes

\* A scope's chain reaches its loop, and its function or try, frame by frame.
WellNested ==
  /\ Root \in Scopes
  /\ \A s \in Scopes : Kind[s] \in FrameTypes
  /\ \A s \in Scopes \ {Root} : Parent[s] \in Scopes /\ EntryDepth[s] \in Nat
  /\ \A s \in DOMAIN LoopOf :
       /\ s \in Scopes \ {Root} /\ Kind[s] \notin ActTypes
       /\ IF Kind[s] \in LoopTypes
          THEN LoopOf[s] = s
          ELSE Parent[s] \in DOMAIN LoopOf /\ LoopOf[s] = LoopOf[Parent[s]]
  /\ ReturnScopes = {s \in Scopes \ {Root} : Kind[s] \in ActTypes \/ Parent[s] \in ReturnScopes}

ASSUME ArraysAssumption ==
  /\ Main \in Files
  /\ End \notin Files \cup Functions
  /\ Files \cap Functions = {}
  /\ \A a \in OpArrays : DOMAIN Code[a] \subseteq Nat
  /\ \A a \in OpArrays : \A p \in DOMAIN Code[a] :
       ScopeAt[a][p] \in Scopes /\ DepthAt[a][p] \in Nat

ASSUME ScopesAssumption == WellNested

ASSUME FunctionsAssumption ==
  /\ \A f \in Functions :
       /\ FnScope[f] \in Scopes \ {Root}
       /\ Kind[FnScope[f]] = "FUNCTION"
       /\ FlowsTo(f, 0, FnScope[f], 0)
       /\ NParams[f] \in Nat \cup {NoParams}
       /\ \A i \in 0 .. NParams[f] - 1 :
            Defaults[f][i] >= 0 => FlowsTo(f, Defaults[f][i], Root, 0)
  /\ \A f \in Files : FlowsTo(f, 0, Root, 0)
  /\ FlowsTo(End, 0, Root, 1) /\ DOMAIN Code[End] = {0} /\ Code[End][0].op = "END"

ASSUME CodeAssumption ==
  \A a \in OpArrays : \A p \in DOMAIN Code[a] : WellFormedOp(a, p)

-----------------------------------------------------------------------------
VARIABLES
  mode,         \* "op", "native", "done" or "died"
  pc, ops,      \* VM::pc, VM::ops
  height,       \* stack.size()
  mark_stack,   \* VM::mark_stack
  frame_stack,  \* VM::frame_stack
  native_stack, \* C++ activations of execute(), the innermost last
  caught,       \* history: a try has caught an exception
  strayed       \* history: a catch left the nesting of the program, see Raise

vars == << mode, pc, ops, height, mark_stack, frame_stack, native_stack,
           caught, strayed >>

\* A frame, and four fields the code does not have: the scope it was made
\* for, the op array that runs while it is innermost, the activation of
\* execute() it was pushed under, and the position of its mark.
Frame(type, top, ret, orig, argcnt, scope, arr, lvl, mk) ==
  [type |-> type, top |-> top, ret |-> ret, orig |-> orig, argcnt |-> argcnt,
   scope |-> scope, ops |-> arr, lvl |-> lvl, mk |-> mk]

\* Mutants: every op pushes a plain frame; the block types of the compiler
\* are taken for frame types.
PlainFrame(type, top, scope) ==
  Frame("LEXICAL", top, 0, End, 0, scope, ops, Len(native_stack), 0)
BlockTypeFrame(type, top, scope) ==
  Frame("BLOCK", top, 0, End, 0, scope, ops, Len(native_stack), 0)

BlockFrame(type, top, scope) ==
  Frame(type, top, 0, End, 0, scope, ops, Len(native_stack), 0)

\* What execute()'s caller keeps in its locals: the pc and ops to restore,
\* the frames and operands it started above, what it runs, and, for a default
\* argument, the callee and the arguments present.
Native(kind, at, arr, n, h, run, argcnt) ==
  [kind |-> kind, pc |-> at, ops |-> arr, frames |-> n, height |-> h,
   run |-> run, argcnt |-> argcnt]

IsInnermost(k, types) ==
  /\ k \in DOMAIN frame_stack
  /\ frame_stack[k].type \in types
  /\ \A j \in k + 1 .. Len(frame_stack) : frame_stack[j].type \notin types

FramesBelow(k) == SubSeq(frame_stack, 1, k - 1)

\* Mutant: a call or try leaves no mark.
NoMark(h) == UNCHANGED mark_stack

\* stack.size() when a call is made, or a try entered, is its mark.
PushMark(h) == mark_stack' = Append(mark_stack, h)

\* Mutant: the mark stays when its frame is left.
MarkLeft == mark_stack # << >> /\ UNCHANGED mark_stack

\* OP_RETURN, and no other op, drops a mark.
PopMark == mark_stack # << >> /\ mark_stack' = Front(mark_stack)

\* Mutant: eval leaves the frames of the file it has run.
KeepFrames(n) == UNCHANGED frame_stack

\* The frames that code run by eval leaves behind are dropped down to n.
DropFrames(n) ==
  frame_stack' = IF n < Len(frame_stack) THEN SubSeq(frame_stack, 1, n)
                                         ELSE frame_stack

\* The frame and operand count of an op that needs a frame to work on.
Frames == frame_stack # << >>
Top    == Last(frame_stack).top

\* VM::VM and the call of execute() in main().
Init ==
  /\ mode = "op" /\ pc = 0 /\ ops = Main /\ height = 0
  /\ mark_stack = << >>
  /\ native_stack = << Native("main", 0, Main, 1, 0, Main, 0) >>
  /\ frame_stack = << Frame("LEXICAL", 0, 0, End, 0, Root, Main, 1, 0) >>
  /\ caught = FALSE /\ strayed = FALSE

-----------------------------------------------------------------------------
(* Exceptions. *)

\* r is what `ops` is after the frames above k are unwound, o what it was:
\* the orig_ops of the lowest function frame among them.
OpsUnwound(k, o, r) ==
  \/ /\ \A j \in k + 1 .. Len(frame_stack) : frame_stack[j].type # "FUNCTION"
     /\ r = o
  \/ \E j \in k + 1 .. Len(frame_stack) :
       /\ frame_stack[j].type = "FUNCTION"
       /\ \A m \in k + 1 .. j - 1 : frame_stack[m].type # "FUNCTION"
       /\ r = frame_stack[j].orig

\* throw, VM::die, and VM::handle_exception in the innermost execute() of ns,
\* when VM::ops is o, by code of op array own.  Frames are popped down to the
\* innermost try, whose value is the pair of undef and the exception; without
\* a try the process exits.  mark_stack keeps the marks of the popped frames.
\* The catch strays when the try is outside the innermost execute(), which
\* then runs its caller's code, or when it resumes in an o that is not own.
Raise(o, own, ns) ==
  /\ native_stack' = ns
  /\ \/ /\ \A j \in DOMAIN frame_stack : frame_stack[j].type # "TRY"
        /\ mode' = "died"
        /\ UNCHANGED << pc, ops, height, mark_stack, frame_stack,
                        caught, strayed >>
     \/ \E t \in DOMAIN frame_stack, r \in OpArrays :
        /\ IsInnermost(t, {"TRY"})
        /\ OpsUnwound(t, o, r)
        /\ mode' = "op"
        /\ ops' = r
        /\ pc' = frame_stack[t].ret + 1
        /\ height' = frame_stack[t].top + 1
        /\ frame_stack' = FramesBelow(t)
        /\ caught' = TRUE
        /\ strayed' = \/ strayed
                      \/ t <= Last(ns).frames
                      \/ r = o /\ o # own
        /\ UNCHANGED mark_stack

-----------------------------------------------------------------------------
(* One action per op that moves control or one of the stacks. *)

At(op) == mode = "op" /\ pc \in DOMAIN Code[ops] /\ Code[ops][pc].op = op
Instr  == Code[ops][pc]

Stacks == << mark_stack, frame_stack, native_stack >>
History == << caught, strayed >>

\* Control goes on at pc p of the same op array with h operands.
GoOn(p, h) == pc' = p /\ height' = h /\ UNCHANGED << mode, ops >>

MayThrow == Instr.throws /\ Raise(ops, ops, native_stack)

\* The ops that take operands and push results: constants, variables,
\* operators, items, containers, POP_TOP, FUNCDEF, CLOSUREDEF, and so on.
VALUE ==
  /\ At("VALUE")
  /\ \/ /\ GoOn(pc + 1, height - Instr.pop + Instr.push)
        /\ UNCHANGED << Stacks, History >>
     \/ MayThrow

\* OP_GETARG, OP_SETARG: the slot below the innermost mark.
ArgSlot == Last(mark_stack) - Instr.no - 1
ARG ==
  /\ At("ARG")
  /\ mark_stack # << >>
  /\ GoOn(pc + 1, height + Instr.push)
  /\ UNCHANGED << Stacks, History >>

OP_NEXTSTATE ==
  /\ At("NEXTSTATE") /\ Frames
  /\ GoOn(pc + 1, Top)
  /\ UNCHANGED << Stacks, History >>

OP_JUMP ==
  /\ At("JUMP")
  /\ GoOn(Instr.to, height)
  /\ UNCHANGED << Stacks, History >>

\* OP_JUMP_IF_FALSE, OP_JUMP_IF_TRUE, OP_JUMP_IF_STOP_EXCEPTION.
JUMP_IF ==
  /\ At("JUMP_IF")
  /\ GoOn(Instr.to, height) \/ GoOn(pc + 1, height)
  /\ UNCHANGED << Stacks, History >>

PushFrame(f) == frame_stack' = Append(frame_stack, f)

\* OP_ENTER, OP_ENTER_WHILE, OP_ENTER_FOR, OP_PACKAGE_ENTER.
ENTER ==
  /\ At("ENTER")
  /\ PushFrame(BlockFrame(Kind[Instr.into], height, Instr.into))
  /\ GoOn(pc + 1, height)
  /\ UNCHANGED << mark_stack, native_stack, History >>

OP_ENTER_FOREACH ==
  /\ At("ENTER_FOREACH")
  /\ \/ /\ PushFrame(BlockFrame("FOREACH", height - 1, Instr.into))
        /\ GoOn(pc + 1, height - 1)
        /\ UNCHANGED << mark_stack, native_stack, History >>
     \/ MayThrow

OP_CLASS_ENTER ==
  /\ At("CLASS_ENTER")
  /\ PushFrame(BlockFrame("CLASS", height, Instr.into))
  /\ GoOn(pc + 1, height + 1)
  /\ UNCHANGED << mark_stack, native_stack, History >>

OP_LEAVE ==
  /\ At("LEAVE") /\ Frames
  /\ frame_stack' = Front(frame_stack)
  /\ GoOn(pc + 1, Top)
  /\ UNCHANGED << mark_stack, native_stack, History >>

OP_CLASS_LEAVE ==
  /\ At("CLASS_LEAVE") /\ Frames
  /\ frame_stack' = Front(frame_stack)
  /\ GoOn(pc + 1, height)
  /\ UNCHANGED << mark_stack, native_stack, History >>

OP_FOR_ITER ==
  /\ At("FOR_ITER") /\ Frames
  /\ \/ /\ GoOn(pc + 1, Top + 1)
        /\ UNCHANGED << Stacks, History >>
     \/ MayThrow

\* Frames go down to the innermost loop; a function or try frame on the way
\* fails an assertion.
OP_LAST ==
  /\ At("LAST")
  /\ \E k \in DOMAIN frame_stack :
       /\ IsInnermost(k, LoopTypes \cup ActTypes)
       /\ frame_stack[k].type \in LoopTypes
       /\ frame_stack' = FramesBelow(k)
       /\ GoOn(Instr.to + 1, frame_stack[k].top)
  /\ UNCHANGED << mark_stack, native_stack, History >>

OP_TRY ==
  /\ At("TRY")
  /\ PushFrame(Frame("TRY", height, Instr.to - 1, End, 0, Instr.into, ops,
                     Len(native_stack), Len(mark_stack) + 1))
  /\ PushMark(height)
  /\ GoOn(pc + 1, height)
  /\ UNCHANGED << native_stack, History >>

OP_DIE == At("DIE") /\ Raise(ops, ops, native_stack)

-----------------------------------------------------------------------------
(* Calls. *)

\* The frame and the mark of a call of f with n arguments under h operands,
\* in the innermost execute() of ns; it returns to the op after at in from.
Activate(f, n, h, at, from, ns) ==
  /\ PushFrame(Frame("FUNCTION", h, at, from, n, FnScope[f], f,
                     Len(ns), Len(mark_stack) + 1))
  /\ PushMark(h)
  /\ native_stack' = ns
  /\ mode' = "op" /\ ops' = f /\ pc' = 0
  /\ UNCHANGED History

\* Mutant: the frame keeps the top it was made with.
NotPacked(h, n) == h

\* The top of the frame once n arguments are one array.
Packed(h, n) == h - n + 1

\* The rest of OP_FUNCALL once n arguments are on the stack of h operands.
\* Without a parameter list the arguments become one array.  A missing
\* argument is computed by running its default in a nested execute() (fframe->top
\* grows by one for each: it is the height once all are there), or is
\* an ArgumentException, thrown when ops is already f.
PassArgs(f, n, h, at, from, ns) ==
  LET packed  == NParams[f] = NoParams
      enough  == ~packed /\ n >= NParams[f]
      missing == ~packed /\ n < NParams[f]
  IN \/ packed  /\ Activate(f, 1, Packed(h, n), at, from, ns) /\ height' = h - n + 1
     \/ enough  /\ Activate(f, n, h, at, from, ns) /\ height' = h
     \/ /\ missing /\ Defaults[f][n] >= 0
        /\ native_stack' = Append(ns,
                             Native("default", at, from, Len(frame_stack), h, f, n))
        /\ mode' = "op" /\ ops' = f /\ pc' = Defaults[f][n] /\ height' = h
        /\ UNCHANGED << mark_stack, frame_stack, History >>
     \/ missing /\ Defaults[f][n] < 0 /\ Raise(f, from, ns)

\* The function name and the arguments are popped, a tuple argument is
\* spread; the name may not be a function of the file scope.
OP_FUNCALL ==
  /\ At("FUNCALL")
  /\ \/ \E f \in Instr.fns, n \in Instr.counts :
          PassArgs(f, n, height - 1 - Instr.pop + n, pc, ops, native_stack)
     \/ MayThrow

\* VM::call_method on a method written in Tora: no defaults, no array of
\* arguments, and ops is the callee's when the argument count is refused.
OP_METHOD_CALL ==
  /\ At("METHOD_CALL")
  /\ \/ \E f \in Instr.fns :
          /\ NParams[f] \in {NoParams, Instr.pop}
          /\ Activate(f, Instr.pop, height - 2, pc, ops, native_stack)
          /\ height' = height - 2
     \/ \E f \in Instr.fns :
          /\ NParams[f] \notin {NoParams, Instr.pop}
          /\ Raise(f, ops, native_stack)
     \/ MayThrow

\* The method "()" of a code value, code_call: function_call enters the code,
\* then call_native_func pushes code_call's own result above its mark.
CODE_CALL ==
  /\ At("CODE_CALL")
  /\ \E f \in Instr.fns :
       Activate(f, Instr.pop, height - 2, pc, ops, native_stack)
  /\ height' = height - 1

\* mark_stack says whether there is a value to return, and loses one mark;
\* frames go down to the innermost function or try.
OP_RETURN ==
  /\ At("RETURN")
  /\ PopMark
  /\ \E k \in DOMAIN frame_stack :
       LET f == frame_stack[k] IN
       /\ IsInnermost(k, ActTypes)
       /\ frame_stack' = FramesBelow(k)
       /\ pc' = f.ret + 1
       /\ IF f.type = "FUNCTION"
          THEN ops' = f.orig /\ height' = f.top - f.argcnt + 1
          ELSE ops' = ops /\ height' = f.top + 1
  /\ UNCHANGED << mode, native_stack, History >>

-----------------------------------------------------------------------------
(* Native functions, and what they run. *)

\* A native function that runs no Tora code pops its arguments and pushes its
\* result; one that does has control until NativeReturn or NativeThrow.
NATIVE ==
  /\ At("NATIVE")
  /\ \/ /\ Instr.callbacks \cup Instr.files = {}
        /\ GoOn(pc + 1, height - Instr.pop + 1)
        /\ UNCHANGED << Stacks, History >>
     \/ /\ Instr.callbacks \cup Instr.files # {}
        /\ mode' = "native" /\ height' = height - Instr.pop
        /\ UNCHANGED << pc, ops, Stacks, History >>
     \/ MayThrow

\* VM::function_call_ex on a code value, Instr.cbargs arguments pushed by its
\* caller: the frame's return address is -1 in a fresh op array that ends.
function_call_ex ==
  /\ mode = "native"
  /\ \E f \in Instr.callbacks :
       LET h == height + Instr.cbargs IN
       /\ Activate(f, Instr.cbargs, h, -1, End, Append(native_stack,
                   Native("ex", pc, ops, Len(frame_stack), height, End, 0)))
       /\ height' = h

\* VM::eval once the source is compiled.
eval ==
  /\ mode = "native"
  /\ \E f \in Instr.files :
       /\ native_stack' = Append(native_stack,
                            Native("eval", pc, ops, Len(frame_stack), height, f, 0))
       /\ mode' = "op" /\ ops' = f /\ pc' = 0
  /\ UNCHANGED << height, mark_stack, frame_stack, History >>

NativeReturn ==
  /\ mode = "native"
  /\ mode' = "op" /\ pc' = pc + 1 /\ height' = height + 1
  /\ UNCHANGED << ops, Stacks, History >>

NativeThrow == mode = "native" /\ Instr.throws /\ Raise(ops, ops, native_stack)

\* OP_END leaves the innermost execute(), and its caller goes on: main()
\* exits, function_call_ex and eval restore pc and ops, eval also drops the
\* frames and operands left, OP_FUNCALL passes the default just computed.
OP_END ==
  LET e == Last(native_stack) IN
  /\ At("END")
  /\ \/ /\ e.kind = "main"
        /\ mode' = "done"
        /\ UNCHANGED << pc, ops, height, Stacks, History >>
     \/ /\ e.kind = "ex"
        /\ mode' = "native" /\ pc' = e.pc /\ ops' = e.ops
        /\ height' = height - 1
        /\ native_stack' = Front(native_stack)
        /\ UNCHANGED << mark_stack, frame_stack, History >>
     \/ /\ e.kind = "eval"
        /\ mode' = "native" /\ pc' = e.pc /\ ops' = e.ops
        /\ height' = IF e.height < height THEN e.height ELSE height
        /\ DropFrames(e.frames)
        /\ native_stack' = Front(native_stack)
        /\ UNCHANGED << mark_stack, History >>
     \/ /\ e.kind = "default"
        /\ PassArgs(e.run, e.argcnt + 1, height, e.pc, e.ops, Front(native_stack))

Terminated == mode \in {"done", "died"} /\ UNCHANGED vars

Next ==
  \/ VALUE \/ ARG \/ OP_NEXTSTATE \/ OP_JUMP \/ JUMP_IF
  \/ ENTER \/ OP_ENTER_FOREACH \/ OP_CLASS_ENTER \/ OP_LEAVE \/ OP_CLASS_LEAVE
  \/ OP_FOR_ITER \/ OP_LAST \/ OP_TRY \/ OP_DIE
  \/ OP_FUNCALL \/ OP_METHOD_CALL \/ CODE_CALL \/ OP_RETURN
  \/ NATIVE \/ function_call_ex \/ eval \/ NativeReturn \/ NativeThrow
  \/ OP_END \/ Terminated

Spec == Init /\ [][Next]_vars
-----------------------------------------------------------------------------
(* Properties. *)

FrameRec ==
  [type : FrameTypes, top : Int, ret : Int, orig : OpArrays, argcnt : Int,
   scope : Scopes, ops : OpArrays, lvl : Nat, mk : Nat]

\* A native function is called by a NATIVE op.
IsNative(a, p) == p \in DOMAIN Code[a] /\ Code[a][p].op = "NATIVE"

NativeRec ==
  {e \in [kind : {"main", "ex", "eval", "default"}, pc : Int, ops : OpArrays,
          frames : Nat, height : Int, run : OpArrays, argcnt : Int] :
     /\ e.kind \in {"ex", "eval"} => IsNative(e.ops, e.pc)
     /\ e.kind = "default" => e.run \in Functions /\ e.argcnt \in Nat}

\* The first activation of execute() is that of main(), and no other is.
NativeStacks ==
  {ns \in Seq(NativeRec) :
     ns # << >> /\ \A l \in DOMAIN ns : ns[l].kind = "main" <=> l = 1}

\* The types of the variables; nothing is said of a wild pc or height.
TypeOK ==
  /\ mode \in {"op", "native", "done", "died"}
  /\ pc \in Int /\ ops \in OpArrays /\ height \in Int
  /\ mark_stack \in Seq(Int)
  /\ frame_stack \in Seq(FrameRec)
  /\ native_stack \in NativeStacks
  /\ mode = "native" => IsNative(ops, pc)
  /\ caught \in BOOLEAN /\ strayed \in BOOLEAN

\* What runs in activation l of execute() while it has n frames in all: the
\* static scope of its code, the op array, and the operands it must not touch.
ScopeOn(n, l) == IF n > native_stack[l].frames THEN frame_stack[n].scope ELSE Root
OpsOn(n, l)   == IF n > native_stack[l].frames THEN frame_stack[n].ops
                                               ELSE native_stack[l].run
FloorOn(n, l) == IF n > native_stack[l].frames THEN frame_stack[n].top
                                               ELSE native_stack[l].height

\* Activation l, with n frames, can go on at pc p of op array a on h operands.
Resumes(n, l, a, p, h) ==
  /\ a = OpsOn(n, l)
  /\ p \in DOMAIN Code[a]
  /\ ScopeAt[a][p] = ScopeOn(n, l)
  /\ h >= FloorOn(n, l) + DepthAt[a][p]

\* The same, while the native function called by the op at p is running.
ResumesNative(n, l, a, p, h) ==
  /\ IsNative(a, p)
  /\ Resumes(n, l, a, p, h + Code[a][p].pop)

\* Frame k was made for a scope that the one below it encloses, and leaving
\* it, by a return, by an exception or at its end, resumes the one below.
FrameOnTrack(k) ==
  LET f == frame_stack[k]
      l == f.lvl
  IN /\ l \in DOMAIN native_stack
     /\ k > native_stack[l].frames
     /\ f.scope # Root /\ Kind[f.scope] = f.type
     /\ f.type # "FUNCTION" =>
          /\ Parent[f.scope] = ScopeOn(k - 1, l)
          /\ f.ops = OpsOn(k - 1, l)
          /\ f.top >= FloorOn(k - 1, l) + EntryDepth[f.scope]
     /\ f.type = "TRY" => Resumes(k - 1, l, f.ops, f.ret + 1, f.top + 1)
     /\ f.type = "FUNCTION" =>
          /\ f.scope = FnScope[f.ops]
          /\ f.argcnt >= 0 /\ f.top - f.argcnt >= FloorOn(k - 1, l)
          /\ Resumes(k - 1, l, f.orig, f.ret + 1, f.top - f.argcnt + 1)

\* What an activation of execute() keeps is where its caller goes on.
NativeOnTrack(l) ==
  LET e == native_stack[l]
  IN /\ e.frames >= native_stack[l - 1].frames /\ e.frames <= Len(frame_stack)
     /\ \A k \in 2 .. e.frames : frame_stack[k].lvl < l
     /\ e.height >= FloorOn(e.frames, l - 1)
     /\ e.kind \in {"ex", "eval"} =>
          /\ ResumesNative(e.frames, l - 1, e.ops, e.pc, e.height)
          /\ e.kind = "ex" => e.run = End
          /\ e.kind = "eval" => e.run \in Files
     /\ e.kind = "default" =>
          /\ e.run \in Functions
          /\ e.argcnt \in 0 .. NParams[e.run] - 1
          /\ e.height - e.argcnt >= FloorOn(e.frames, l - 1)
          /\ Resumes(e.frames, l - 1, e.ops, e.pc + 1, e.height - e.argcnt + 1)

ControlOnTrack ==
  LET n == Len(frame_stack)
      l == Len(native_stack)
  IN /\ mode = "op" => Resumes(n, l, ops, pc, height)
     /\ mode = "native" => ResumesNative(n, l, ops, pc, height)

\* The run-time stacks mirror the static nesting of the program: every op
\* runs with the frames its scope was compiled for, whatever calls, returns,
\* loop exits, exceptions and nested executes came before (the stack
\* discipline that the opcodes and handle_exception share).
OnTrack ==
  ~strayed =>
    /\ \A k \in 2 .. Len(frame_stack) : FrameOnTrack(k)
    /\ \A l \in 2 .. Len(native_stack) : NativeOnTrack(l)
    /\ ControlOnTrack

\* The operands that OP_RETURN leaves on the stack before it resizes it.
HeightAfterTake ==
  IF Last(mark_stack) < height THEN height - 1 ELSE height

\* stack.resize() only ever shrinks the stack: no frame's top is above it, so
\* no exit of a frame pads the stack with null values or drops a value that
\* belongs to an outer frame.  A catch leaves marks behind that can make
\* OP_RETURN take a value from below its own frame.
NoPadding ==
  /\ mode \in {"op", "native"} /\ ~strayed =>
       \A k \in DOMAIN frame_stack :
         frame_stack[k].top <= height /\ frame_stack[k].argcnt >= 0
  /\ At("RETURN") /\ ~strayed /\ ~caught =>
       \A k \in DOMAIN frame_stack :
         IsInnermost(k, ActTypes) => frame_stack[k].top <= HeightAfterTake

\* The marks of the function and try frames on the frame stack are on the
\* mark stack, in the same order, whatever was left by exceptions: the
\* assertion mark_stack.size() > 0 of OP_RETURN cannot fail.
MarksPresent ==
  /\ \A k \in DOMAIN frame_stack : frame_stack[k].type \in ActTypes =>
       /\ frame_stack[k].mk \in DOMAIN mark_stack
       /\ mark_stack[frame_stack[k].mk] = frame_stack[k].top
  /\ \A j, k \in DOMAIN frame_stack :
       j < k /\ frame_stack[j].type \in ActTypes /\ frame_stack[k].type \in ActTypes
         => frame_stack[j].mk < frame_stack[k].mk

\* Until an exception is caught, the innermost mark is that of the innermost
\* function or try frame (the stack picture in OP_FUNCALL), and outside all
\* of them there is none.
MarkOwned ==
  ~caught =>
    /\ \A k \in DOMAIN frame_stack :
         IsInnermost(k, ActTypes) => frame_stack[k].mk = Len(mark_stack)
    /\ (\A k \in DOMAIN frame_stack : frame_stack[k].type \notin ActTypes)
         => mark_stack = << >>

\* An argument is read at the mark of the function that reads it ("mark for
\* first argument in function call", vm.h), even inside a try and after one.
ArgumentsOwn ==
  At("ARG") => \A k \in DOMAIN frame_stack :
                 IsInnermost(k, {"FUNCTION"}) => Last(mark_stack) = frame_stack[k].top

\* The op array that runs is the one its innermost frame was made for: control
\* goes on after the try when something it called has thrown.
RunsOwnCode ==
  mode = "op" => ops = OpsOn(Len(frame_stack), Len(native_stack))

\* While a nested execute() runs, the frames of its caller stay: what it was
\* started for cannot unwind them ("restore VM state!", vm.h).
CallerFramesStay ==
  \A l \in DOMAIN native_stack : native_stack[l].frames <= Len(frame_stack)

\* A nested execute() gives its caller back the frames it started with, and
\* at least its operands: function_call_ex runs code "And... restore VM state!".
NestedExecuteRestores ==
  [][ mode' = "native" /\ Len(native_stack') < Len(native_stack)
        => /\ Len(frame_stack') = Last(native_stack).frames
           /\ height' >= Last(native_stack).height
    ]_vars
=============================================================================
