------------------------------ MODULE VM_proofs ------------------------------
(***************************************************************************)
(* Proofs about the control machine, for every program whose op arrays     *)
(* are well formed.                                                        *)
(***************************************************************************)
EXTENDS VM, SequenceTheorems, TLAPS

USE DEF GoOn, Stacks, History

-----------------------------------------------------------------------------
(* Sequences that grow and shrink at their end. *)

LEMMA AppendFacts ==
  ASSUME NEW S, NEW s \in Seq(S), NEW e \in S
  PROVE  /\ Append(s, e) \in Seq(S)
         /\ Len(Append(s, e)) = Len(s) + 1
         /\ \A i \in 1 .. Len(s) : Append(s, e)[i] = s[i]
         /\ Append(s, e)[Len(s) + 1] = e
BY AppendProperties

LEMMA PrefixFacts ==
  ASSUME NEW S, NEW s \in Seq(S), NEW n \in 0 .. Len(s)
  PROVE  /\ SubSeq(s, 1, n) \in Seq(S)
         /\ Len(SubSeq(s, 1, n)) = n
         /\ \A i \in 1 .. n : SubSeq(s, 1, n)[i] = s[i]
BY SubSeqProperties

LEMMA FrontFacts ==
  ASSUME NEW S, NEW s \in Seq(S), s # << >>
  PROVE  /\ Front(s) \in Seq(S)
         /\ Len(Front(s)) = Len(s) - 1
         /\ \A i \in 1 .. Len(s) - 1 : Front(s)[i] = s[i]
         /\ Last(s) \in S /\ Last(s) = s[Len(s)]
         /\ Len(s) \in Nat \ {0}
<1>1. Len(s) \in Nat \ {0}
  BY EmptySeq, LenProperties
<1>2. Front(s) = SubSeq(s, 1, Len(s) - 1) /\ Last(s) = s[Len(s)]
  BY DEF Front, Last
<1>3. Len(s) - 1 \in 0 .. Len(s) /\ Len(s) \in 1 .. Len(s)
  BY <1>1
<1>4. s[Len(s)] \in S
  BY <1>3, ElementOfSeq
<1>5. /\ SubSeq(s, 1, Len(s) - 1) \in Seq(S)
      /\ Len(SubSeq(s, 1, Len(s) - 1)) = Len(s) - 1
      /\ \A i \in 1 .. Len(s) - 1 : SubSeq(s, 1, Len(s) - 1)[i] = s[i]
  BY <1>3, PrefixFacts
<1> QED
  BY <1>1, <1>2, <1>4, <1>5

(* Typing. *)

LEMMA FrameType ==
  ASSUME NEW type \in FrameTypes, NEW top \in Int, NEW ret \in Int,
         NEW orig \in OpArrays, NEW argcnt \in Int, NEW scope \in Scopes,
         NEW arr \in OpArrays, NEW lvl \in Nat, NEW mk \in Nat
  PROVE  Frame(type, top, ret, orig, argcnt, scope, arr, lvl, mk) \in FrameRec
BY DEF Frame, FrameRec

LEMMA NativeType ==
  ASSUME NEW kind \in {"ex", "eval", "default"}, NEW at \in Int, NEW arr \in OpArrays,
         NEW n \in Nat, NEW h \in Int, NEW run \in OpArrays, NEW argcnt \in Int,
         NEW ns \in NativeStacks,
         kind \in {"ex", "eval"} => IsNative(arr, at),
         kind = "default" => run \in Functions /\ argcnt \in Nat
  PROVE  Append(ns, Native(kind, at, arr, n, h, run, argcnt)) \in NativeStacks
<1>1. /\ Native(kind, at, arr, n, h, run, argcnt) \in NativeRec
      /\ Native(kind, at, arr, n, h, run, argcnt).kind # "main"
  BY DEF Native, NativeRec
<1>2. ASSUME NEW e \in NativeRec, e.kind # "main"
      PROVE  Append(ns, e) \in NativeStacks
  <2>1. ns \in Seq(NativeRec) /\ Len(ns) \in Nat \ {0}
    BY FrontFacts DEF NativeStacks
  <2>2. DOMAIN ns = 1 .. Len(ns)
    BY <2>1, LenProperties
  <2>3. \A l \in 1 .. Len(ns) : ns[l].kind = "main" <=> l = 1
    BY <2>2 DEF NativeStacks
  <2>4. DOMAIN Append(ns, e) = 1 .. Len(ns) + 1
    BY <2>1, AppendFacts, LenProperties
  <2>5. \A l \in 1 .. Len(ns) + 1 : Append(ns, e)[l].kind = "main" <=> l = 1
    BY <1>2, <2>1, <2>3, AppendFacts
  <2>6. Append(ns, e) \in Seq(NativeRec) /\ Append(ns, e) # << >>
    BY <2>1, AppendFacts, EmptySeq
  <2> QED
    BY <2>4, <2>5, <2>6 DEF NativeStacks
<1> QED
  BY <1>1, <1>2

LEMMA NativeFront ==
  ASSUME NEW ns \in NativeStacks, Last(ns).kind # "main"
  PROVE  Front(ns) \in NativeStacks
<1>1. ns \in Seq(NativeRec) /\ ns # << >> /\ Len(ns) \in Nat \ {0}
  BY FrontFacts DEF NativeStacks
<1>2. DOMAIN ns = 1 .. Len(ns) /\ DOMAIN Front(ns) = 1 .. Len(ns) - 1
  BY <1>1, FrontFacts, LenProperties
<1>3. \A l \in 1 .. Len(ns) : ns[l].kind = "main" <=> l = 1
  BY <1>2 DEF NativeStacks
<1>4. Len(ns) # 1
  BY <1>1, <1>3 DEF Last
<1>5. \A l \in 1 .. Len(ns) - 1 : Front(ns)[l].kind = "main" <=> l = 1
  BY <1>1, <1>3, FrontFacts
<1>6. Front(ns) \in Seq(NativeRec) /\ Front(ns) # << >>
  <2>1. Front(ns) \in Seq(NativeRec) /\ Len(Front(ns)) = Len(ns) - 1
    BY <1>1, FrontFacts
  <2>2. Len(<< >>) = 0
    OBVIOUS
  <2> QED
    BY <1>1, <1>4, <2>1, <2>2
<1> QED
  BY <1>2, <1>5, <1>6 DEF NativeStacks

LEMMA TypeInit == Init => TypeOK
<1> SUFFICES ASSUME Init PROVE TypeOK
  OBVIOUS
<1> USE ArraysAssumption, ScopesAssumption DEF WellNested, OpArrays, Init
<1>1. Frame("LEXICAL", 0, 0, End, 0, Root, Main, 1, 0) \in FrameRec
  BY FrameType DEF FrameTypes, BlockTypes
<1>2. Native("main", 0, Main, 1, 0, Main, 0) \in NativeRec
  BY DEF Native, NativeRec
<1>3. native_stack \in NativeStacks
  <2>1. native_stack \in Seq(NativeRec) /\ native_stack # << >> /\ DOMAIN native_stack = {1}
    BY <1>2
  <2>2. native_stack[1].kind = "main"
    BY DEF Native
  <2> QED
    BY <2>1, <2>2 DEF NativeStacks
<1>4. frame_stack \in Seq(FrameRec) /\ mark_stack \in Seq(Int)
  BY <1>1, EmptySeq
<1>5. mode = "op" /\ pc = 0 /\ ops \in OpArrays /\ height = 0
  OBVIOUS
<1>6. caught \in BOOLEAN /\ strayed \in BOOLEAN
  OBVIOUS
<1> HIDE DEF Init, OpArrays
<1> QED
  BY <1>3, <1>4, <1>5, <1>6 DEF TypeOK
\* What the well-formedness of the program says of the types of an op.
LEMMA OpTypes ==
  ASSUME TypeOK, pc \in DOMAIN Code[ops]
  PROVE  /\ pc \in Nat
         /\ WellFormedOp(ops, pc)
         /\ ScopeAt[ops][pc] \in Scopes /\ DepthAt[ops][pc] \in Nat
         /\ \A p : p \in DOMAIN Code[ops] => p \in Nat
<1> ops \in OpArrays
  BY DEF TypeOK
<1> QED
  BY ArraysAssumption, CodeAssumption

\* Where an op jumps to and which scope it enters.
LEMMA OpTargets ==
  ASSUME TypeOK, NEW op, At(op)
  PROVE  /\ op \in {"JUMP", "JUMP_IF", "TRY"} => Instr.to \in Int
         /\ op = "LAST" => Instr.to + 1 \in Int
         /\ op \in {"ENTER", "ENTER_FOREACH", "CLASS_ENTER", "TRY"} => Instr.into \in Scopes
<1>1. /\ WellFormedOp(ops, pc) /\ Instr = Code[ops][pc] /\ Instr.op = op
      /\ \A p : p \in DOMAIN Code[ops] => p \in Nat
  BY OpTypes DEF At, Instr
<1>2. ASSUME op \in {"JUMP", "JUMP_IF", "TRY"} PROVE Instr.to \in Int
  <2>1. Instr.to \in DOMAIN Code[ops]
    <3>1. CASE op = "JUMP"
      BY <1>1, <3>1 DEF WellFormedOp, FlowsTo
    <3>2. CASE op = "JUMP_IF"
      BY <1>1, <3>2 DEF WellFormedOp, FlowsTo
    <3>3. CASE op = "TRY"
      BY <1>1, <3>3 DEF WellFormedOp, FlowsTo
    <3> QED
      BY <1>2, <3>1, <3>2, <3>3
  <2> QED
    BY <1>1, <2>1
<1>3. ASSUME op = "LAST" PROVE Instr.to + 1 \in Int
  <2>1. Instr.to + 1 \in DOMAIN Code[ops]
    BY <1>1, <1>3 DEF WellFormedOp, FlowsTo
  <2> QED
    BY <1>1, <2>1
<1>4. ASSUME op \in {"ENTER", "ENTER_FOREACH", "CLASS_ENTER", "TRY"} PROVE Instr.into \in Scopes
  <2>1. CASE op = "ENTER"
    BY <1>1, <2>1 DEF WellFormedOp, Enters
  <2>2. CASE op = "ENTER_FOREACH"
    BY <1>1, <2>2 DEF WellFormedOp, Enters
  <2>3. CASE op = "CLASS_ENTER"
    BY <1>1, <2>3 DEF WellFormedOp, Enters
  <2>4. CASE op = "TRY"
    BY <1>1, <2>4 DEF WellFormedOp, Enters
  <2> QED
    BY <1>4, <2>1, <2>2, <2>3, <2>4
<1> QED
  BY <1>2, <1>3, <1>4

LEMMA ScopeTypes ==
  \A s \in Scopes : Kind[s] \in FrameTypes
BY ScopesAssumption DEF WellNested

LEMMA FrameStackType ==
  ASSUME TypeOK
  PROVE  /\ Len(frame_stack) \in Nat /\ DOMAIN frame_stack = 1 .. Len(frame_stack)
         /\ \A k \in DOMAIN frame_stack :
              frame_stack[k] \in FrameRec /\ FramesBelow(k) \in Seq(FrameRec)
         /\ \A n \in Nat : n < Len(frame_stack) =>
              SubSeq(frame_stack, 1, n) \in Seq(FrameRec)
         /\ Frames => Top \in Int /\ Front(frame_stack) \in Seq(FrameRec)
         /\ Len(native_stack) \in Nat /\ Len(mark_stack) \in Nat
         /\ mark_stack # << >> => Front(mark_stack) \in Seq(Int)
         /\ Last(native_stack) \in NativeRec
<1>1. /\ frame_stack \in Seq(FrameRec) /\ mark_stack \in Seq(Int)
      /\ native_stack \in Seq(NativeRec) /\ native_stack # << >>
  BY DEF TypeOK, NativeStacks
<1>2. Len(frame_stack) \in Nat /\ DOMAIN frame_stack = 1 .. Len(frame_stack)
  BY <1>1, LenProperties
<1>3. \A n \in 0 .. Len(frame_stack) : SubSeq(frame_stack, 1, n) \in Seq(FrameRec)
  BY <1>1, PrefixFacts
<1>4. \A k \in DOMAIN frame_stack :
        frame_stack[k] \in FrameRec /\ FramesBelow(k) \in Seq(FrameRec)
  BY <1>1, <1>2, <1>3, ElementOfSeq DEF FramesBelow
<1>5. Frames => Top \in Int /\ Front(frame_stack) \in Seq(FrameRec)
  <2> SUFFICES ASSUME Frames PROVE Top \in Int /\ Front(frame_stack) \in Seq(FrameRec)
    OBVIOUS
  <2>1. Last(frame_stack) \in FrameRec /\ Front(frame_stack) \in Seq(FrameRec)
    BY <1>1, FrontFacts DEF Frames
  <2> QED
    BY <2>1 DEF FrameRec, Top
<1>6. Len(native_stack) \in Nat /\ Len(mark_stack) \in Nat
  BY <1>1, LenProperties
<1>7. mark_stack # << >> => Front(mark_stack) \in Seq(Int)
  BY <1>1, FrontFacts
<1>8. Last(native_stack) \in NativeRec
  BY <1>1, FrontFacts
<1> QED
  BY <1>2, <1>3, <1>4, <1>5, <1>6, <1>7, <1>8

LEMMA MarkTypes ==
  ASSUME TypeOK
  PROVE  /\ \A h \in Int : PushMark(h) => mark_stack' \in Seq(Int)
         /\ PopMark => mark_stack' \in Seq(Int)
<1>1. mark_stack \in Seq(Int)
  BY DEF TypeOK
<1> QED
  BY ZenonT(40), <1>1, AppendFacts, FrameStackType DEF PushMark, PopMark

LEMMA PushFrameType ==
  ASSUME TypeOK, NEW f \in FrameRec, PushFrame(f)
  PROVE  frame_stack' \in Seq(FrameRec)
BY AppendFacts DEF TypeOK, PushFrame

LEMMA BlockFrameType ==
  ASSUME TypeOK, NEW type \in FrameTypes, NEW top \in Int, NEW scope \in Scopes
  PROVE  BlockFrame(type, top, scope) \in FrameRec
<1>1. ops \in OpArrays /\ End \in OpArrays /\ Len(native_stack) \in Nat
  BY FrameStackType DEF TypeOK, OpArrays
<1> QED
  BY <1>1, FrameType DEF BlockFrame

LEMMA RaiseType ==
  ASSUME TypeOK, NEW o, NEW own, NEW ns \in NativeStacks, Raise(o, own, ns)
  PROVE  TypeOK'
<1>1. CASE \A j \in DOMAIN frame_stack : frame_stack[j].type # "TRY"
  BY <1>1 DEF Raise, IsInnermost, TypeOK
<1>2. ASSUME NEW t \in DOMAIN frame_stack, NEW r \in OpArrays,
             mode' = "op", ops' = r, pc' = frame_stack[t].ret + 1,
             height' = frame_stack[t].top + 1, frame_stack' = FramesBelow(t),
             caught' = TRUE, UNCHANGED mark_stack,
             strayed' = (strayed \/ t <= Last(ns).frames \/ (r = o /\ o # own))
      PROVE  TypeOK'
  <2>1. frame_stack[t].ret \in Int /\ frame_stack[t].top \in Int
    BY FrameStackType DEF FrameRec
  <2>2. frame_stack' \in Seq(FrameRec)
    BY <1>2, FrameStackType
  <2>3. strayed' \in BOOLEAN
    BY <1>2
  <2>4. native_stack' \in NativeStacks
    BY DEF Raise
  <2>5. mark_stack' \in Seq(Int)
    BY <1>2 DEF TypeOK
  <2> QED
    BY <1>2, <2>1, <2>2, <2>3, <2>4, <2>5 DEF TypeOK
<1> QED
  BY <1>1, <1>2 DEF Raise

LEMMA FunctionTypes ==
  ASSUME NEW f \in Functions
  PROVE  /\ f \in OpArrays /\ FnScope[f] \in Scopes
         /\ 0 \in DOMAIN Code[f]
         /\ \A i \in 0 .. NParams[f] - 1 :
              Defaults[f][i] >= 0 => Defaults[f][i] \in Nat
         /\ NParams[f] \in Int
<1>1. f \in OpArrays
  BY DEF OpArrays
<1>2. \A i \in 0 .. NParams[f] - 1 :
        Defaults[f][i] >= 0 => Defaults[f][i] \in Nat
  BY <1>1, FunctionsAssumption, ArraysAssumption DEF FlowsTo
<1> QED
  BY <1>1, <1>2, FunctionsAssumption DEF FlowsTo, NoParams

LEMMA ActivateType ==
  ASSUME TypeOK, NEW f \in Functions, NEW n \in Int, NEW h \in Int, NEW at \in Int,
         NEW from \in OpArrays, NEW ns \in NativeStacks,
         Activate(f, n, h, at, from, ns), height' \in Int
  PROVE  TypeOK'
<1>1. Len(ns) \in Nat
  BY LenProperties DEF NativeStacks
<1>2. Frame("FUNCTION", h, at, from, n, FnScope[f], f, Len(ns), Len(mark_stack) + 1) \in FrameRec
  <2>1. "FUNCTION" \in FrameTypes
    BY DEF FrameTypes, ActTypes
  <2>2. Len(mark_stack) + 1 \in Nat
    BY FrameStackType
  <2> QED
    BY <1>1, <2>1, <2>2, FrameType, FunctionTypes
<1>3. frame_stack' \in Seq(FrameRec)
  BY <1>2, PushFrameType DEF Activate
<1>4. mark_stack' \in Seq(Int)
  BY MarkTypes DEF Activate
<1> QED
  BY <1>3, <1>4, FunctionTypes DEF Activate, TypeOK

LEMMA PassArgsType ==
  ASSUME TypeOK, NEW f \in Functions, NEW n \in Nat, NEW h \in Int, NEW at \in Int,
         NEW from \in OpArrays, NEW ns \in NativeStacks,
         PassArgs(f, n, h, at, from, ns)
  PROVE  TypeOK'
<1>1. CASE /\ Activate(f, 1, Packed(h, n), at, from, ns) /\ height' = h - n + 1
  BY <1>1, ActivateType DEF Packed
<1>2. CASE Activate(f, n, h, at, from, ns) /\ height' = h
  BY <1>2, ActivateType
<1>3. CASE /\ NParams[f] # NoParams /\ n < NParams[f] /\ Defaults[f][n] >= 0
           /\ native_stack' = Append(ns,
                 Native("default", at, from, Len(frame_stack), h, f, n))
           /\ mode' = "op" /\ ops' = f /\ pc' = Defaults[f][n] /\ height' = h
           /\ UNCHANGED << mark_stack, frame_stack, History >>
  <2>1. native_stack' \in NativeStacks
    BY <1>3, NativeType, FunctionTypes, FrameStackType
  <2>2. n \in 0 .. NParams[f] - 1
    BY <1>3, FunctionTypes
  <2>3. pc' \in Int
    BY <1>3, <2>2, FunctionTypes
  <2> QED
    BY <1>3, <2>1, <2>3, FunctionTypes DEF TypeOK
<1>4. CASE Raise(f, from, ns)
  BY <1>4, RaiseType
<1> QED
  BY <1>1, <1>2, <1>3, <1>4 DEF PassArgs

\* Every step keeps the types, action by action.
LEMMA TypeStep == TypeOK /\ [Next]_vars => TypeOK'
<1> SUFFICES ASSUME TypeOK, [Next]_vars PROVE TypeOK'
  OBVIOUS
<1> USE OpTypes, FrameStackType
<1>t. /\ mode \in {"op", "native", "done", "died"} /\ pc \in Int /\ ops \in OpArrays
      /\ height \in Int /\ mark_stack \in Seq(Int) /\ frame_stack \in Seq(FrameRec)
      /\ native_stack \in NativeStacks /\ caught \in BOOLEAN /\ strayed \in BOOLEAN
  BY DEF TypeOK
<1>r. ASSUME Raise(ops, ops, native_stack) PROVE TypeOK'
  BY <1>t, <1>r, RaiseType
<1>i. ASSUME NEW op, At(op)
      PROVE  /\ pc \in DOMAIN Code[ops] /\ Instr = Code[ops][pc] /\ Instr.op = op
             /\ WellFormedOp(ops, pc) /\ DepthAt[ops][pc] \in Nat
  BY <1>i DEF At, Instr
<1>b. ASSUME NEW type \in FrameTypes, NEW top \in Int, NEW scope \in Scopes,
             PushFrame(BlockFrame(type, top, scope))
      PROVE  frame_stack' \in Seq(FrameRec)
  BY <1>b, BlockFrameType, PushFrameType
<1>1. CASE VALUE
  <2>1. Instr.pop \in Int /\ Instr.push \in Int
    BY <1>1, <1>i DEF VALUE, WellFormedOp
  <2>2. CASE GoOn(pc + 1, height - Instr.pop + Instr.push) /\ UNCHANGED << Stacks, History >>
    BY <1>1, <1>t, <2>1, <2>2 DEF At, VALUE, TypeOK
  <2> QED
    BY <1>1, <1>r, <2>2 DEF VALUE, MayThrow
<1>2. CASE ARG
  <2>1. Instr.push \in Int
    BY <1>2, <1>i DEF ARG, WellFormedOp
  <2> QED
    BY <1>2, <1>t, <2>1 DEF At, ARG, TypeOK
<1>3. CASE OP_NEXTSTATE
  BY <1>3, <1>t DEF At, OP_NEXTSTATE, TypeOK
<1>4. CASE OP_JUMP
  <2>0. At("JUMP")
    BY <1>4 DEF OP_JUMP
  <2>1. Instr.to \in Int
    BY <2>0, OpTargets
  <2> QED
    BY <1>4, <1>t, <2>1 DEF At, OP_JUMP, TypeOK
<1>5. CASE JUMP_IF
  <2>0. At("JUMP_IF")
    BY <1>5 DEF JUMP_IF
  <2>1. Instr.to \in Int
    BY <2>0, OpTargets
  <2> QED
    BY <1>5, <1>t, <2>1 DEF At, JUMP_IF, TypeOK
<1>6. CASE ENTER
  <2>0. At("ENTER")
    BY <1>6 DEF ENTER
  <2>1. Instr.into \in Scopes
    BY <2>0, OpTargets
  <2>2. frame_stack' \in Seq(FrameRec)
    BY <1>6, <1>b, <1>t, <2>1, ScopeTypes DEF ENTER
  <2> QED
    BY <1>6, <1>t, <2>2 DEF At, ENTER, TypeOK
<1>7. CASE OP_ENTER_FOREACH
  <2>0. At("ENTER_FOREACH")
    BY <1>7 DEF OP_ENTER_FOREACH
  <2>1. Instr.into \in Scopes
    BY <2>0, OpTargets
  <2>2. CASE /\ PushFrame(BlockFrame("FOREACH", height - 1, Instr.into))
             /\ GoOn(pc + 1, height - 1)
             /\ UNCHANGED << mark_stack, native_stack, History >>
    <3>1. frame_stack' \in Seq(FrameRec)
      <4>1. "FOREACH" \in FrameTypes /\ height - 1 \in Int
        BY <1>t DEF FrameTypes, BlockTypes, LoopTypes
      <4> QED
        BY <1>b, <2>1, <2>2, <4>1
    <3> QED
      BY <1>7, <1>t, <2>2, <3>1 DEF At, OP_ENTER_FOREACH, TypeOK
  <2> QED
    BY <1>7, <1>r, <2>2 DEF OP_ENTER_FOREACH, MayThrow
<1>8. CASE OP_CLASS_ENTER
  <2>0. At("CLASS_ENTER")
    BY <1>8 DEF OP_CLASS_ENTER
  <2>1. Instr.into \in Scopes
    BY <2>0, OpTargets
  <2>2. frame_stack' \in Seq(FrameRec)
    BY <1>8, <1>b, <1>t, <2>1 DEF OP_CLASS_ENTER, FrameTypes
  <2> QED
    BY <1>8, <1>t, <2>2 DEF At, OP_CLASS_ENTER, TypeOK
<1>9. CASE OP_LEAVE
  BY <1>9, <1>t DEF At, OP_LEAVE, TypeOK
<1>10. CASE OP_CLASS_LEAVE
  BY <1>10, <1>t DEF At, OP_CLASS_LEAVE, TypeOK
<1>11. CASE OP_FOR_ITER
  <2>1. CASE Frames /\ GoOn(pc + 1, Top + 1) /\ UNCHANGED << Stacks, History >>
    BY <1>11, <1>t, <2>1 DEF At, OP_FOR_ITER, TypeOK
  <2> QED
    BY <1>11, <1>r, <2>1 DEF OP_FOR_ITER, MayThrow
<1>12. CASE OP_LAST
  <2>0. At("LAST")
    BY <1>12 DEF OP_LAST
  <2>1. Instr.to + 1 \in Int
    BY <2>0, OpTargets
  <2>2. PICK k \in DOMAIN frame_stack :
          frame_stack' = FramesBelow(k) /\ GoOn(Instr.to + 1, frame_stack[k].top)
    BY <1>12 DEF OP_LAST
  <2>3. frame_stack[k].top \in Int /\ frame_stack' \in Seq(FrameRec)
    BY <2>2 DEF FrameRec
  <2> QED
    BY <1>12, <1>t, <2>1, <2>2, <2>3 DEF At, OP_LAST, TypeOK
<1>13. CASE OP_TRY
  <2>0. At("TRY")
    BY <1>13 DEF OP_TRY
  <2>1. Instr.into \in Scopes /\ Instr.to \in Int
    BY <2>0, OpTargets
  <2>2. Frame("TRY", height, Instr.to - 1, End, 0, Instr.into, ops,
              Len(native_stack), Len(mark_stack) + 1) \in FrameRec
    <3>1. "TRY" \in FrameTypes /\ End \in OpArrays /\ 0 \in Int
      BY DEF FrameTypes, ActTypes, OpArrays
    <3>2. Instr.to - 1 \in Int /\ Len(native_stack) \in Nat /\ Len(mark_stack) + 1 \in Nat
      BY <2>1
    <3> QED
      BY <1>t, <2>1, <3>1, <3>2, FrameType
  <2>3. frame_stack' \in Seq(FrameRec) /\ mark_stack' \in Seq(Int)
    BY <1>13, <1>t, <2>2, PushFrameType, MarkTypes DEF OP_TRY
  <2> QED
    BY <1>13, <1>t, <2>3 DEF At, OP_TRY, TypeOK
<1>14. CASE OP_DIE
  BY <1>14, <1>r DEF OP_DIE
<1>15. CASE OP_FUNCALL
  <2>1. Instr.pop \in Int /\ Instr.fns \subseteq Functions /\ Instr.counts \subseteq Nat
    BY <1>15, <1>i DEF OP_FUNCALL, WellFormedOp
  <2>2. ASSUME NEW f \in Instr.fns, NEW n \in Instr.counts,
               PassArgs(f, n, height - 1 - Instr.pop + n, pc, ops, native_stack)
        PROVE  TypeOK'
    <3>1. f \in Functions /\ n \in Nat /\ height - 1 - Instr.pop + n \in Int
      BY <1>t, <2>1
    <3> QED
      BY <1>t, <2>2, <3>1, PassArgsType
  <2> QED
    BY <1>15, <1>r, <2>2 DEF OP_FUNCALL, MayThrow
<1>16. CASE OP_METHOD_CALL
  <2>1. Instr.pop \in Int /\ Instr.fns \subseteq Functions
    BY <1>16, <1>i DEF OP_METHOD_CALL, WellFormedOp
  <2>2. ASSUME NEW f \in Instr.fns, height' = height - 2,
               Activate(f, Instr.pop, height - 2, pc, ops, native_stack)
        PROVE  TypeOK'
    BY <1>t, <2>1, <2>2, ActivateType
  <2>3. ASSUME NEW f \in Instr.fns, Raise(f, ops, native_stack)
        PROVE  TypeOK'
    BY <1>t, <2>3, RaiseType
  <2> QED
    BY <1>16, <1>r, <2>2, <2>3 DEF OP_METHOD_CALL, MayThrow
<1>17. CASE CODE_CALL
  <2>1. Instr.pop \in Int /\ Instr.fns \subseteq Functions
    BY <1>17, <1>i DEF CODE_CALL, WellFormedOp
  <2>2. PICK f \in Instr.fns : Activate(f, Instr.pop, height - 2, pc, ops, native_stack)
    BY <1>17 DEF CODE_CALL
  <2>3. height' \in Int
    BY <1>17, <1>t DEF CODE_CALL
  <2> QED
    BY <1>t, <2>1, <2>2, <2>3, ActivateType
<1>18. CASE OP_RETURN
  <2>1. PICK k \in DOMAIN frame_stack :
          LET f == frame_stack[k] IN
          /\ frame_stack' = FramesBelow(k)
          /\ pc' = f.ret + 1
          /\ IF f.type = "FUNCTION"
             THEN ops' = f.orig /\ height' = f.top - f.argcnt + 1
             ELSE ops' = ops /\ height' = f.top + 1
    BY <1>18 DEF OP_RETURN
  <2>2. frame_stack[k] \in FrameRec /\ frame_stack' \in Seq(FrameRec)
    BY <2>1
  <2>3. pc' \in Int /\ ops' \in OpArrays /\ height' \in Int
    <3>1. /\ frame_stack[k].ret \in Int /\ frame_stack[k].orig \in OpArrays
          /\ frame_stack[k].top \in Int /\ frame_stack[k].argcnt \in Int
      BY <2>2 DEF FrameRec
    <3>2. CASE frame_stack[k].type = "FUNCTION"
      BY <2>1, <3>1, <3>2
    <3>3. CASE frame_stack[k].type # "FUNCTION"
      BY <1>t, <2>1, <3>1, <3>3
    <3> QED
      BY <3>2, <3>3
  <2>4. mark_stack' \in Seq(Int)
    BY <1>18, MarkTypes DEF OP_RETURN
  <2> QED
    BY <1>18, <1>t, <2>2, <2>3, <2>4 DEF At, OP_RETURN, TypeOK
<1>19. CASE NATIVE
  <2>1. Instr.pop \in Int
    BY <1>19, <1>i DEF NATIVE, WellFormedOp
  <2>2. CASE GoOn(pc + 1, height - Instr.pop + 1) /\ UNCHANGED << Stacks, History >>
    BY <1>19, <1>t, <2>1, <2>2 DEF At, NATIVE, TypeOK
  <2>3. CASE /\ mode' = "native" /\ height' = height - Instr.pop
             /\ UNCHANGED << pc, ops, Stacks, History >>
    <3>1. IsNative(ops', pc')
      BY <1>19, <2>3 DEF NATIVE, At, IsNative
    <3> QED
      BY <1>t, <2>1, <2>3, <3>1 DEF TypeOK, IsNative
  <2> QED
    BY <1>19, <1>r, <2>2, <2>3 DEF NATIVE, MayThrow
<1>20. CASE mode = "native"
  <2> USE <1>20
  <2>1. /\ IsNative(ops, pc) /\ pc \in DOMAIN Code[ops] /\ Instr = Code[ops][pc]
        /\ Instr.op = "NATIVE" /\ WellFormedOp(ops, pc)
    BY DEF TypeOK, IsNative, Instr
  <2>2. /\ Instr.callbacks \subseteq Functions /\ Instr.files \subseteq Files
        /\ Instr.cbargs \in Nat
    BY <2>1 DEF WellFormedOp
  <2>3. End \in OpArrays /\ Files \subseteq OpArrays
    BY DEF OpArrays
  <2>4. CASE function_call_ex
    <3> DEFINE ns == Append(native_stack,
                       Native("ex", pc, ops, Len(frame_stack), height, End, 0))
    <3>1. ns \in NativeStacks
      BY <1>t, <2>1, <2>3, NativeType
    <3>2. PICK f \in Instr.callbacks :
            /\ Activate(f, Instr.cbargs, height + Instr.cbargs, -1, End, ns)
            /\ height' = height + Instr.cbargs
      BY <2>4 DEF function_call_ex
    <3> QED
      BY <1>t, <2>2, <2>3, <3>1, <3>2, ActivateType
  <2>5. CASE eval
    <3>1. PICK f \in Instr.files :
            /\ native_stack' = Append(native_stack,
                 Native("eval", pc, ops, Len(frame_stack), height, f, 0))
            /\ mode' = "op" /\ ops' = f /\ pc' = 0
      BY <2>5 DEF eval
    <3>2. native_stack' \in NativeStacks
      BY <1>t, <2>1, <2>2, <2>3, <3>1, NativeType
    <3> QED
      BY <1>t, <2>2, <2>3, <2>5, <3>1, <3>2 DEF eval, TypeOK
  <2>6. CASE NativeReturn
    BY <1>t, <2>1, <2>6 DEF NativeReturn, TypeOK
  <2>7. CASE NativeThrow
    BY <1>r, <2>7 DEF NativeThrow
  <2>8. CASE UNCHANGED vars
    BY <1>t, <2>1, <2>8 DEF vars, TypeOK, IsNative
  <2> QED
    BY <2>4, <2>5, <2>6, <2>7, <2>8 DEF Next, At, VALUE, ARG, OP_NEXTSTATE, OP_JUMP,
       JUMP_IF, ENTER, OP_ENTER_FOREACH, OP_CLASS_ENTER, OP_LEAVE, OP_CLASS_LEAVE,
       OP_FOR_ITER, OP_LAST, OP_TRY, OP_DIE, OP_FUNCALL, OP_METHOD_CALL, CODE_CALL,
       OP_RETURN, NATIVE, OP_END, Terminated
<1>21. CASE OP_END
  <2> DEFINE e == Last(native_stack)
  <2>1. e \in NativeRec
    OBVIOUS
  <2>2. CASE /\ mode' = "done" /\ UNCHANGED << pc, ops, height, Stacks, History >>
    BY <1>t, <2>2 DEF TypeOK
  <2>3. CASE /\ e.kind \in {"ex", "eval"}
             /\ mode' = "native" /\ pc' = e.pc /\ ops' = e.ops /\ height' \in Int
             /\ frame_stack' \in Seq(FrameRec) /\ native_stack' = Front(native_stack)
             /\ UNCHANGED << mark_stack, History >>
    <3>1. native_stack' \in NativeStacks
      BY <1>t, <2>3, NativeFront
    <3>2. pc' \in Int /\ ops' \in OpArrays /\ IsNative(ops', pc')
      BY <2>1, <2>3 DEF NativeRec
    <3> QED
      BY <1>t, <2>3, <3>1, <3>2 DEF TypeOK, IsNative
  <2>4. CASE /\ e.kind = "default"
             /\ PassArgs(e.run, e.argcnt + 1, height, e.pc, e.ops, Front(native_stack))
    <3>1. Front(native_stack) \in NativeStacks
      BY <1>t, <2>4, NativeFront
    <3>2. e.run \in Functions /\ e.argcnt + 1 \in Nat /\ e.pc \in Int /\ e.ops \in OpArrays
      BY <2>1, <2>4 DEF NativeRec
    <3> QED
      BY <1>t, <2>4, <3>1, <3>2, PassArgsType
  <2>5. e.height \in Int /\ e.frames \in Nat
    BY <2>1 DEF NativeRec
  <2>6. DropFrames(e.frames) => frame_stack' \in Seq(FrameRec)
    BY <1>t, <2>5 DEF DropFrames
  <2>7. /\ height - 1 \in Int
        /\ (IF e.height < height THEN e.height ELSE height) \in Int
    BY <1>t, <2>5
  <2> QED
    BY <1>21, <1>t, <2>2, <2>3, <2>4, <2>6, <2>7 DEF OP_END
<1>22. CASE UNCHANGED vars
  BY <1>t, <1>22 DEF vars, TypeOK, IsNative
<1> QED
  BY <1>1, <1>2, <1>3, <1>4, <1>5, <1>6, <1>7, <1>8, <1>9, <1>10, <1>11, <1>12,
     <1>13, <1>14, <1>15, <1>16, <1>17, <1>18, <1>19, <1>20, <1>21, <1>22
     DEF Next, Terminated, function_call_ex, eval, NativeReturn, NativeThrow

(***************************************************************************)
(* Every reachable state is well typed, whatever program runs: VM::pc,     *)
(* VM::ops and the four stacks hold what their C++ types say.              *)
(***************************************************************************)
THEOREM TypeCorrect == Spec => []TypeOK
<1>1. Init => TypeOK
  BY TypeInit
<1>2. TypeOK /\ [Next]_vars => TypeOK'
  BY TypeStep
<1> QED
  BY <1>1, <1>2, PTL DEF Spec

-----------------------------------------------------------------------------
(* Marks.  A step drops frames from the end, or pushes one frame, with a    *)
(* mark if it is a function or try frame; only OP_RETURN drops a mark.      *)

LEMMA MarksDropFrames ==
  ASSUME TypeOK, MarksPresent, NEW n \in 0 .. Len(frame_stack),
         frame_stack' = SubSeq(frame_stack, 1, n), UNCHANGED mark_stack
  PROVE  MarksPresent'
<1>1. /\ DOMAIN frame_stack = 1 .. Len(frame_stack) /\ DOMAIN frame_stack' = 1 .. n
      /\ \A k \in 1 .. n : frame_stack'[k] = frame_stack[k]
  BY PrefixFacts, LenProperties DEF TypeOK
<1>2. \A k \in DOMAIN frame_stack' : k \in DOMAIN frame_stack
  BY <1>1
<1> QED
  BY <1>1, <1>2 DEF MarksPresent

LEMMA MarksPushBlock ==
  ASSUME TypeOK, MarksPresent, NEW f \in FrameRec, f.type \notin ActTypes,
         PushFrame(f), UNCHANGED mark_stack
  PROVE  MarksPresent'
<1> DEFINE n == Len(frame_stack)
<1>1. /\ n \in Nat /\ DOMAIN frame_stack = 1 .. n /\ DOMAIN frame_stack' = 1 .. n + 1
      /\ \A k \in 1 .. n : frame_stack'[k] = frame_stack[k]
      /\ frame_stack'[n + 1] = f
  BY AppendFacts, LenProperties DEF TypeOK, PushFrame
<1> HIDE DEF n
<1>2. \A k \in DOMAIN frame_stack' : frame_stack'[k].type \in ActTypes =>
        k \in DOMAIN frame_stack /\ frame_stack'[k] = frame_stack[k]
  BY <1>1
<1> QED
  BY <1>2 DEF MarksPresent

LEMMA MarksPushCall ==
  ASSUME TypeOK, MarksPresent, NEW f \in FrameRec, f.mk = Len(mark_stack) + 1,
         PushFrame(f), PushMark(f.top)
  PROVE  MarksPresent'
<1> DEFINE n == Len(frame_stack)
           m == Len(mark_stack)
<1>1. /\ n \in Nat /\ DOMAIN frame_stack = 1 .. n /\ DOMAIN frame_stack' = 1 .. n + 1
      /\ \A k \in 1 .. n : frame_stack'[k] = frame_stack[k]
      /\ frame_stack'[n + 1] = f
  BY AppendFacts, LenProperties DEF TypeOK, PushFrame
<1>2. /\ m \in Nat /\ DOMAIN mark_stack = 1 .. m /\ DOMAIN mark_stack' = 1 .. m + 1
      /\ \A k \in 1 .. m : mark_stack'[k] = mark_stack[k]
      /\ mark_stack'[m + 1] = f.top
  <2>1. f.top \in Int
    BY DEF FrameRec
  <2> QED
    BY <2>1, AppendFacts, LenProperties DEF TypeOK, PushMark
<1> HIDE DEF n, m
<1>3. f.mk = m + 1
  BY DEF m
<1>4. \A k \in 1 .. n : frame_stack[k].type \in ActTypes =>
        /\ frame_stack[k].mk \in 1 .. m
        /\ mark_stack[frame_stack[k].mk] = frame_stack[k].top
  BY <1>1, <1>2 DEF MarksPresent
<1>5. \A k \in DOMAIN frame_stack' : frame_stack'[k].type \in ActTypes =>
        /\ frame_stack'[k].mk \in DOMAIN mark_stack'
        /\ mark_stack'[frame_stack'[k].mk] = frame_stack'[k].top
  <2> SUFFICES ASSUME NEW k \in DOMAIN frame_stack', frame_stack'[k].type \in ActTypes
               PROVE  /\ frame_stack'[k].mk \in DOMAIN mark_stack'
                      /\ mark_stack'[frame_stack'[k].mk] = frame_stack'[k].top
    OBVIOUS
  <2>1. CASE k = n + 1
    BY <1>1, <1>2, <1>3, <2>1
  <2>2. CASE k \in 1 .. n
    BY <1>1, <1>2, <1>4, <2>2
  <2> QED
    BY <1>1, <2>1, <2>2
<1>6. \A j, k \in DOMAIN frame_stack' :
        j < k /\ frame_stack'[j].type \in ActTypes /\ frame_stack'[k].type \in ActTypes
          => frame_stack'[j].mk < frame_stack'[k].mk
  <2> SUFFICES ASSUME NEW j \in DOMAIN frame_stack', NEW k \in DOMAIN frame_stack', j < k,
                      frame_stack'[j].type \in ActTypes, frame_stack'[k].type \in ActTypes
               PROVE  frame_stack'[j].mk < frame_stack'[k].mk
    OBVIOUS
  <2>1. j \in 1 .. n
    BY <1>1
  <2>2. CASE k = n + 1
    BY <1>1, <1>2, <1>3, <1>4, <2>1, <2>2
  <2>3. CASE k \in 1 .. n
    BY <1>1, <2>1, <2>3 DEF MarksPresent
  <2> QED
    BY <1>1, <2>2, <2>3
<1> QED
  BY <1>5, <1>6 DEF MarksPresent

\* OP_RETURN drops a mark and the frames from the innermost of the function
\* and try frames on: the marks of the others lie below that of this one.
LEMMA MarksReturn ==
  ASSUME TypeOK, MarksPresent, NEW k \in DOMAIN frame_stack, IsInnermost(k, ActTypes),
         frame_stack' = FramesBelow(k), PopMark
  PROVE  MarksPresent'
<1> DEFINE n == Len(frame_stack)
           m == Len(mark_stack)
<1>1. /\ n \in Nat /\ DOMAIN frame_stack = 1 .. n /\ k \in 1 .. n
      /\ DOMAIN frame_stack' = 1 .. k - 1
      /\ \A j \in 1 .. k - 1 : frame_stack'[j] = frame_stack[j]
  <2>1. n \in Nat /\ DOMAIN frame_stack = 1 .. n /\ k \in 1 .. n
    BY LenProperties DEF TypeOK
  <2>2. k - 1 \in 0 .. n
    BY <2>1
  <2> QED
    BY <2>1, <2>2, PrefixFacts, FrameStackType, LenProperties DEF TypeOK, FramesBelow
<1>2. /\ m \in Nat /\ DOMAIN mark_stack = 1 .. m /\ DOMAIN mark_stack' = 1 .. m - 1
      /\ \A i \in 1 .. m - 1 : mark_stack'[i] = mark_stack[i]
  BY FrontFacts, LenProperties DEF TypeOK, PopMark
<1> HIDE DEF n, m
<1>3. frame_stack[k].type \in ActTypes /\ frame_stack[k].mk \in 1 .. m
  BY <1>2 DEF IsInnermost, MarksPresent
<1>4. \A j \in 1 .. k - 1 : frame_stack[j].type \in ActTypes =>
        /\ frame_stack[j].mk \in 1 .. m - 1
        /\ mark_stack[frame_stack[j].mk] = frame_stack[j].top
  BY <1>1, <1>2, <1>3 DEF MarksPresent
<1>5. \A j \in DOMAIN frame_stack' : frame_stack'[j].type \in ActTypes =>
        /\ frame_stack'[j].mk \in DOMAIN mark_stack'
        /\ mark_stack'[frame_stack'[j].mk] = frame_stack'[j].top
  BY <1>1, <1>2, <1>4
<1>6. \A i, j \in DOMAIN frame_stack' :
        i < j /\ frame_stack'[i].type \in ActTypes /\ frame_stack'[j].type \in ActTypes
          => frame_stack'[i].mk < frame_stack'[j].mk
  BY <1>1 DEF MarksPresent
<1> QED
  BY <1>5, <1>6 DEF MarksPresent

LEMMA MarksRaise ==
  ASSUME TypeOK, MarksPresent, NEW o, NEW own, NEW ns, Raise(o, own, ns)
  PROVE  MarksPresent'
<1>1. CASE UNCHANGED << mark_stack, frame_stack >>
  BY <1>1 DEF MarksPresent
<1>2. ASSUME NEW t \in DOMAIN frame_stack, frame_stack' = FramesBelow(t),
             UNCHANGED mark_stack
      PROVE  MarksPresent'
  <2>1. t - 1 \in 0 .. Len(frame_stack)
    BY FrameStackType
  <2> QED
    BY <1>2, <2>1, MarksDropFrames DEF FramesBelow
<1> QED
  BY <1>1, <1>2 DEF Raise

LEMMA MarksActivate ==
  ASSUME TypeOK, MarksPresent, NEW f \in Functions, NEW n \in Int, NEW h \in Int,
         NEW at \in Int, NEW from \in OpArrays, NEW ns \in NativeStacks,
         Activate(f, n, h, at, from, ns)
  PROVE  MarksPresent'
<1> DEFINE g == Frame("FUNCTION", h, at, from, n, FnScope[f], f, Len(ns),
                      Len(mark_stack) + 1)
<1>1. g \in FrameRec
  <2>1. "FUNCTION" \in FrameTypes /\ Len(ns) \in Nat
    BY LenProperties DEF FrameTypes, ActTypes, NativeStacks
  <2>2. Len(mark_stack) + 1 \in Nat
    BY FrameStackType
  <2> QED
    BY <2>1, <2>2, FrameType, FunctionTypes
<1>2. g.mk = Len(mark_stack) + 1 /\ g.top = h
  BY DEF Frame
<1>3. PushFrame(g) /\ PushMark(h)
  BY DEF Activate
<1> HIDE DEF g
<1> QED
  BY <1>1, <1>2, <1>3, MarksPushCall

LEMMA MarksPassArgs ==
  ASSUME TypeOK, MarksPresent, NEW f \in Functions, NEW n \in Nat, NEW h \in Int,
         NEW at \in Int, NEW from \in OpArrays, NEW ns \in NativeStacks,
         PassArgs(f, n, h, at, from, ns)
  PROVE  MarksPresent'
<1>1. CASE Activate(f, 1, Packed(h, n), at, from, ns)
  BY <1>1, MarksActivate DEF Packed
<1>2. CASE Activate(f, n, h, at, from, ns)
  BY <1>2, MarksActivate
<1>3. CASE UNCHANGED << mark_stack, frame_stack >>
  BY <1>3 DEF MarksPresent
<1>4. CASE Raise(f, from, ns)
  BY <1>4, MarksRaise
<1> QED
  BY <1>1, <1>2, <1>3, <1>4 DEF PassArgs

LEMMA MarksStep ==
  ASSUME TypeOK, MarksPresent, [Next]_vars
  PROVE  MarksPresent'
<1> USE OpTypes, FrameStackType
<1>t. /\ pc \in Int /\ ops \in OpArrays /\ height \in Int
      /\ native_stack \in NativeStacks /\ End \in OpArrays
  BY DEF TypeOK, OpArrays
<1>i. ASSUME NEW op, At(op)
      PROVE  /\ pc \in DOMAIN Code[ops] /\ Instr = Code[ops][pc] /\ Instr.op = op
             /\ WellFormedOp(ops, pc) /\ DepthAt[ops][pc] \in Nat
  BY <1>i DEF At, Instr
<1>r. ASSUME NEW o, NEW own, NEW ns, Raise(o, own, ns) PROVE MarksPresent'
  BY <1>r, MarksRaise
<1>u. ASSUME UNCHANGED << mark_stack, frame_stack >> PROVE MarksPresent'
  BY <1>u DEF MarksPresent
<1>b. ASSUME NEW type \in FrameTypes \ ActTypes, NEW top \in Int, NEW scope \in Scopes,
             PushFrame(BlockFrame(type, top, scope)), UNCHANGED mark_stack
      PROVE  MarksPresent'
  <2>1. BlockFrame(type, top, scope).type = type
    BY DEF BlockFrame, Frame
  <2> QED
    BY <1>b, <2>1, BlockFrameType, MarksPushBlock
<1>f. ASSUME Frames, frame_stack' = Front(frame_stack), UNCHANGED mark_stack
      PROVE  MarksPresent'
  <2>1. Len(frame_stack) - 1 \in 0 .. Len(frame_stack)
    BY <1>f, EmptySeq DEF Frames, TypeOK
  <2> QED
    BY <1>f, <2>1, MarksDropFrames DEF Front
<1>1. CASE VALUE \/ OP_FOR_ITER \/ OP_DIE \/ NATIVE \/ NativeThrow
  BY <1>1, <1>r, <1>u DEF VALUE, OP_FOR_ITER, OP_DIE, NATIVE, NativeThrow, MayThrow
<1>2. CASE ARG \/ OP_NEXTSTATE \/ OP_JUMP \/ JUMP_IF \/ eval \/ NativeReturn
  BY <1>2, <1>u DEF ARG, OP_NEXTSTATE, OP_JUMP, JUMP_IF, eval, NativeReturn
<1>3. CASE ENTER
  <2>1. Instr.into \in Scopes /\ Kind[Instr.into] \in {"LEXICAL", "WHILE", "FOR", "FILE_PACKAGE"}
    BY <1>3, <1>i DEF ENTER, WellFormedOp, Enters
  <2>2. Kind[Instr.into] \in FrameTypes \ ActTypes
    BY <2>1 DEF FrameTypes, BlockTypes, LoopTypes, ActTypes
  <2> QED
    BY <1>3, <1>b, <1>t, <2>1, <2>2 DEF ENTER
<1>4. CASE OP_ENTER_FOREACH
  <2>0. At("ENTER_FOREACH")
    BY <1>4 DEF OP_ENTER_FOREACH
  <2>1. Instr.into \in Scopes /\ "FOREACH" \in FrameTypes \ ActTypes /\ height - 1 \in Int
    BY <1>t, <2>0, OpTargets DEF FrameTypes, BlockTypes, LoopTypes, ActTypes
  <2> QED
    BY <1>4, <1>b, <1>r, <2>1 DEF OP_ENTER_FOREACH, MayThrow
<1>5. CASE OP_CLASS_ENTER
  <2>1. Instr.into \in Scopes /\ "CLASS" \in FrameTypes \ ActTypes
    BY <1>5, <1>i DEF OP_CLASS_ENTER, WellFormedOp, Enters, FrameTypes, ActTypes
  <2> QED
    BY <1>5, <1>b, <1>t, <2>1 DEF OP_CLASS_ENTER
<1>6. CASE OP_LEAVE \/ OP_CLASS_LEAVE
  BY <1>6, <1>f DEF OP_LEAVE, OP_CLASS_LEAVE
<1>7. CASE OP_LAST
  <2>1. PICK k \in DOMAIN frame_stack : frame_stack' = FramesBelow(k)
    BY <1>7 DEF OP_LAST
  <2>2. k - 1 \in 0 .. Len(frame_stack)
    BY <2>1
  <2> QED
    BY <1>7, <2>1, <2>2, MarksDropFrames DEF OP_LAST, FramesBelow
<1>8. CASE OP_TRY
  <2> DEFINE f == Frame("TRY", height, Instr.to - 1, End, 0, Instr.into, ops,
                        Len(native_stack), Len(mark_stack) + 1)
  <2>0. At("TRY")
    BY <1>8 DEF OP_TRY
  <2>1. Instr.into \in Scopes /\ Instr.to \in Int
    BY <2>0, OpTargets
  <2>2. f \in FrameRec
    <3>1. "TRY" \in FrameTypes /\ 0 \in Int
      BY DEF FrameTypes, ActTypes
    <3>2. Instr.to - 1 \in Int /\ Len(native_stack) \in Nat /\ Len(mark_stack) + 1 \in Nat
      BY <2>1
    <3> QED
      BY <1>t, <2>1, <3>1, <3>2, FrameType
  <2>3. f.mk = Len(mark_stack) + 1 /\ f.top = height
    BY DEF Frame
  <2>4. PushFrame(f) /\ PushMark(height)
    BY <1>8 DEF OP_TRY
  <2> HIDE DEF f
  <2> QED
    BY <2>2, <2>3, <2>4, MarksPushCall
<1>9. CASE OP_FUNCALL
  <2>1. Instr.pop \in Int /\ Instr.fns \subseteq Functions /\ Instr.counts \subseteq Nat
    BY <1>9, <1>i DEF OP_FUNCALL, WellFormedOp
  <2>2. ASSUME NEW f \in Instr.fns, NEW n \in Instr.counts,
               PassArgs(f, n, height - 1 - Instr.pop + n, pc, ops, native_stack)
        PROVE  MarksPresent'
    <3>1. f \in Functions /\ n \in Nat /\ height - 1 - Instr.pop + n \in Int
      BY <1>t, <2>1
    <3> QED
      BY <1>t, <2>2, <3>1, MarksPassArgs
  <2> QED
    BY <1>9, <1>r, <2>2 DEF OP_FUNCALL, MayThrow
<1>10. CASE OP_METHOD_CALL \/ CODE_CALL
  <2>1. Instr.pop \in Int /\ Instr.fns \subseteq Functions /\ height - 2 \in Int
    BY <1>10, <1>i, <1>t DEF OP_METHOD_CALL, CODE_CALL, WellFormedOp
  <2>2. ASSUME NEW f \in Instr.fns, Activate(f, Instr.pop, height - 2, pc, ops, native_stack)
        PROVE  MarksPresent'
    BY <1>t, <2>1, <2>2, MarksActivate
  <2> QED
    BY <1>10, <1>r, <2>2 DEF OP_METHOD_CALL, CODE_CALL, MayThrow
<1>11. CASE OP_RETURN
  <2>1. PICK k \in DOMAIN frame_stack :
          IsInnermost(k, ActTypes) /\ frame_stack' = FramesBelow(k)
    BY <1>11 DEF OP_RETURN
  <2> QED
    BY <1>11, <2>1, MarksReturn DEF OP_RETURN
<1>12. CASE function_call_ex
  <2> DEFINE ns == Append(native_stack,
                     Native("ex", pc, ops, Len(frame_stack), height, End, 0))
  <2>1. /\ IsNative(ops, pc) /\ pc \in DOMAIN Code[ops] /\ Instr = Code[ops][pc]
        /\ Instr.op = "NATIVE" /\ WellFormedOp(ops, pc)
    BY <1>12 DEF function_call_ex, TypeOK, IsNative, Instr
  <2>2. Instr.callbacks \subseteq Functions /\ Instr.cbargs \in Nat
    BY <2>1 DEF WellFormedOp
  <2>3. ns \in NativeStacks
    BY <1>t, <2>1, NativeType
  <2>4. PICK f \in Instr.callbacks :
          Activate(f, Instr.cbargs, height + Instr.cbargs, -1, End, ns)
    BY <1>12 DEF function_call_ex
  <2> QED
    BY <1>t, <2>2, <2>3, <2>4, MarksActivate
<1>13. CASE OP_END
  <2> DEFINE e == Last(native_stack)
  <2>1. CASE UNCHANGED << mark_stack, frame_stack >>
    BY <1>u, <2>1
  <2>2. CASE DropFrames(e.frames) /\ UNCHANGED mark_stack
    <3>1. e.frames \in Nat
      BY DEF NativeRec
    <3>2. CASE e.frames < Len(frame_stack)
      BY <2>2, <3>1, <3>2, MarksDropFrames DEF DropFrames
    <3>3. CASE ~(e.frames < Len(frame_stack))
      BY <1>u, <2>2, <3>3 DEF DropFrames
    <3> QED
      BY <3>2, <3>3
  <2>3. CASE /\ e.kind = "default"
             /\ PassArgs(e.run, e.argcnt + 1, height, e.pc, e.ops, Front(native_stack))
    <3>1. Front(native_stack) \in NativeStacks
      BY <1>t, <2>3, NativeFront
    <3>2. e.run \in Functions /\ e.argcnt + 1 \in Nat /\ e.pc \in Int /\ e.ops \in OpArrays
      BY <2>3 DEF NativeRec
    <3> QED
      BY <1>t, <2>3, <3>1, <3>2, MarksPassArgs
  <2> QED
    BY <1>13, <2>1, <2>2, <2>3 DEF OP_END
<1>14. CASE UNCHANGED vars
  BY <1>14, <1>u DEF vars
<1> QED
  BY <1>1, <1>2, <1>3, <1>4, <1>5, <1>6, <1>7, <1>8, <1>9, <1>10, <1>11, <1>12,
     <1>13, <1>14 DEF Next, Terminated

(***************************************************************************)
(* The mark of every function and try frame stays on the mark stack, in    *)
(* order, as long as the frame does, whatever calls, returns, exceptions   *)
(* and nested executions a program makes: OP_RETURN always finds one.      *)
(***************************************************************************)
THEOREM MarksCorrect == Spec => []MarksPresent
<1>1. Init => MarksPresent
  BY DEF Init, MarksPresent, Frame, ActTypes
<1>2. TypeOK /\ MarksPresent /\ [Next]_vars => MarksPresent'
  BY MarksStep
<1> QED
  BY <1>1, <1>2, TypeCorrect, PTL DEF Spec
=============================================================================
