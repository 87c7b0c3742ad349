--------------------------- MODULE VM_track_proofs ---------------------------
(***************************************************************************)
(* Proofs that the run-time stacks mirror the nesting of the program, for  *)
(* every program whose op arrays are well formed, until a catch strays.    *)
(*                                                                         *)
(* Actions build stacks in two steps (an activation ends and a frame is    *)
(* pushed), so what VM says of frame_stack and native_stack is said here   *)
(* of any frames fs and activations ns.                                    *)
(***************************************************************************)
EXTENDS VM_proofs, WellFoundedInduction

USE DEF GoOn, Stacks, History

ScopeIn(fs, ns, n, l) == IF n > ns[l].frames THEN fs[n].scope ELSE Root
OpsIn(fs, ns, n, l)   == IF n > ns[l].frames THEN fs[n].ops ELSE ns[l].run
FloorIn(fs, ns, n, l) == IF n > ns[l].frames THEN fs[n].top ELSE ns[l].height

\* Resumes
GoesOn(fs, ns, n, l, a, p, h) ==
  /\ a = OpsIn(fs, ns, n, l)
  /\ p \in DOMAIN Code[a]
  /\ ScopeAt[a][p] = ScopeIn(fs, ns, n, l)
  /\ h >= FloorIn(fs, ns, n, l) + DepthAt[a][p]

\* FrameOnTrack, and that only a frame of a function has arguments, and its code.
FrameFits(fs, ns, k) ==
  LET f == fs[k]
      l == f.lvl
  IN /\ l \in DOMAIN ns
     /\ k > ns[l].frames
     /\ f.scope # Root /\ Kind[f.scope] = f.type
     /\ f.type # "FUNCTION" =>
          /\ Parent[f.scope] = ScopeIn(fs, ns, k - 1, l)
          /\ f.ops = OpsIn(fs, ns, k - 1, l)
          /\ f.top >= FloorIn(fs, ns, k - 1, l) + EntryDepth[f.scope]
          /\ f.argcnt = 0
     /\ f.type = "TRY" => GoesOn(fs, ns, k - 1, l, f.ops, f.ret + 1, f.top + 1)
     /\ f.type = "FUNCTION" =>
          /\ f.ops \in Functions
          /\ f.scope = FnScope[f.ops]
          /\ f.argcnt >= 0 /\ f.top - f.argcnt >= FloorIn(fs, ns, k - 1, l)
          /\ GoesOn(fs, ns, k - 1, l, f.orig, f.ret + 1, f.top - f.argcnt + 1)

\* NativeOnTrack
NativeFits(fs, ns, l) ==
  LET e == ns[l]
  IN /\ e.frames >= ns[l - 1].frames /\ e.frames <= Len(fs)
     /\ \A k \in 2 .. e.frames : fs[k].lvl < l
     /\ e.height >= FloorIn(fs, ns, e.frames, l - 1)
     /\ e.kind \in {"ex", "eval"} =>
          /\ IsNative(e.ops, e.pc)
          /\ GoesOn(fs, ns, e.frames, l - 1, e.ops, e.pc, e.height + Code[e.ops][e.pc].pop)
          /\ e.kind = "ex" => e.run = End
          /\ e.kind = "eval" => e.run \in Files
     /\ e.kind = "default" =>
          /\ e.run \in Functions
          /\ e.argcnt \in 0 .. NParams[e.run] - 1
          /\ e.height - e.argcnt >= FloorIn(fs, ns, e.frames, l - 1)
          /\ GoesOn(fs, ns, e.frames, l - 1, e.ops, e.pc + 1, e.height - e.argcnt + 1)

\* The frame and the activation that main() begins with stay.
Bottom(fs, ns) ==
  /\ fs # << >> /\ fs[1].type = "LEXICAL" /\ fs[1].argcnt = 0
  /\ ns[1].frames = 1 /\ ns[1].run = Main

\* The frames above those that an activation began with were pushed by it, or
\* by one inside it.
Layers(fs, ns) ==
  \A l \in DOMAIN ns :
    /\ ns[l].frames \in 1 .. Len(fs)
    /\ \A k \in ns[l].frames + 1 .. Len(fs) : fs[k].lvl >= l

\* Tops of frames, and operands that activations began with, lie in the order
\* in which they were pushed.
Ascending(fs, ns) ==
  /\ \A j, k \in DOMAIN fs : j <= k => fs[j].top <= fs[k].top
  /\ \A l \in DOMAIN ns, k \in DOMAIN fs :
       IF k <= ns[l].frames THEN fs[k].top <= ns[l].height ELSE ns[l].height <= fs[k].top
  /\ \A l, m \in DOMAIN ns :
       l <= m => ns[l].frames <= ns[m].frames /\ ns[l].height <= ns[m].height

Nested(fs, ns) ==
  /\ Bottom(fs, ns) /\ Layers(fs, ns) /\ Ascending(fs, ns)
  /\ \A k \in 2 .. Len(fs) : FrameFits(fs, ns, k)
  /\ \A l \in 2 .. Len(ns) : NativeFits(fs, ns, l)

\* ControlOnTrack
InControl(fs, ns, m, a, p, h) ==
  /\ m = "op" => GoesOn(fs, ns, Len(fs), Len(ns), a, p, h)
  /\ m = "native" =>
       IsNative(a, p) /\ GoesOn(fs, ns, Len(fs), Len(ns), a, p, h + Code[a][p].pop)

\* The inductive invariant.
Mirrors ==
  ~strayed =>
    /\ Nested(frame_stack, native_stack)
    /\ InControl(frame_stack, native_stack, mode, ops, pc, height)

-----------------------------------------------------------------------------
(* Lengths, types and the least of a set of numbers.                       *)

LEMMA LeastNat ==
  ASSUME NEW T \in SUBSET Nat, T # {}
  PROVE  \E n \in T : \A m \in T : n <= m
<1> DEFINE R == OpToRel(<, Nat)
<1>1. IsWellFoundedOn(R, Nat)
  BY NatLessThanWellFounded
<1>2. \A x, y \in Nat : x < y => << x, y >> \in R
  BY DEF OpToRel
<1> HIDE DEF R
<1>3. PICK x \in T : \A y \in T : ~ (<< y, x >> \in R)
  BY <1>1, WFMin
<1>4. \A y \in T : ~ (y < x)
  BY <1>2, <1>3
<1>5. x \in Nat /\ \A y \in T : y \in Nat
  OBVIOUS
<1>6. \A y \in T : x <= y
  BY <1>4, <1>5
<1> QED
  BY <1>6

LEMMA StackTypes ==
  ASSUME NEW fs \in Seq(FrameRec), NEW ns \in NativeStacks
  PROVE  /\ Len(fs) \in Nat /\ DOMAIN fs = 1 .. Len(fs)
         /\ Len(ns) \in Nat \ {0} /\ DOMAIN ns = 1 .. Len(ns)
         /\ \A k \in 1 .. Len(fs) :
              /\ fs[k].top \in Int /\ fs[k].ret \in Int /\ fs[k].argcnt \in Int
              /\ fs[k].lvl \in Nat /\ fs[k].mk \in Nat
              /\ fs[k].scope \in Scopes /\ fs[k].ops \in OpArrays /\ fs[k].orig \in OpArrays
              /\ fs[k].type \in FrameTypes
         /\ \A l \in 1 .. Len(ns) :
              /\ ns[l].frames \in Nat /\ ns[l].height \in Int /\ ns[l].pc \in Int
              /\ ns[l].argcnt \in Int /\ ns[l].ops \in OpArrays /\ ns[l].run \in OpArrays
         /\ Last(ns) = ns[Len(ns)]
<1>1. Len(fs) \in Nat /\ DOMAIN fs = 1 .. Len(fs)
  BY LenProperties
<1>2. ns \in Seq(NativeRec) /\ ns # << >>
  BY DEF NativeStacks
<1>3. Len(ns) \in Nat \ {0} /\ DOMAIN ns = 1 .. Len(ns) /\ Last(ns) = ns[Len(ns)]
  BY <1>2, FrontFacts, LenProperties
<1>4. \A k \in 1 .. Len(fs) : fs[k] \in FrameRec
  BY ElementOfSeq
<1>5. \A l \in 1 .. Len(ns) : ns[l] \in NativeRec
  BY <1>2, ElementOfSeq
<1>6. ASSUME NEW f \in FrameRec
      PROVE  /\ f.top \in Int /\ f.ret \in Int /\ f.argcnt \in Int /\ f.lvl \in Nat /\ f.mk \in Nat
             /\ f.scope \in Scopes /\ f.ops \in OpArrays /\ f.orig \in OpArrays /\ f.type \in FrameTypes
  BY DEF FrameRec
<1>7. ASSUME NEW e \in NativeRec
      PROVE  /\ e.frames \in Nat /\ e.height \in Int /\ e.pc \in Int /\ e.argcnt \in Int
             /\ e.ops \in OpArrays /\ e.run \in OpArrays
  BY DEF NativeRec
<1> QED
  BY <1>1, <1>3, <1>4, <1>5, <1>6, <1>7

\* Depths are numbers, and so are the depths at which scopes are entered.
LEMMA DepthTypes ==
  /\ \A a \in OpArrays : \A p \in DOMAIN Code[a] : ScopeAt[a][p] \in Scopes /\ DepthAt[a][p] \in Nat
  /\ \A s \in Scopes \ {Root} : EntryDepth[s] \in Nat /\ Parent[s] \in Scopes
BY ArraysAssumption, ScopesAssumption DEF WellNested

-----------------------------------------------------------------------------
(* Stacks that share a part.                                               *)

LEMMA SameFrame ==
  ASSUME NEW fs \in Seq(FrameRec), NEW gs \in Seq(FrameRec), NEW ns \in NativeStacks,
         NEW ms \in NativeStacks, NEW k \in 2 .. Len(fs), k <= Len(gs),
         gs[k] = fs[k], gs[k - 1] = fs[k - 1],
         fs[k].lvl \in DOMAIN ms, ms[fs[k].lvl] = ns[fs[k].lvl], FrameFits(fs, ns, k)
  PROVE  FrameFits(gs, ms, k)
BY DEF FrameFits, GoesOn, ScopeIn, OpsIn, FloorIn

LEMMA SameNative ==
  ASSUME NEW fs \in Seq(FrameRec), NEW gs \in Seq(FrameRec), NEW ns \in NativeStacks,
         NEW ms \in NativeStacks, NEW l \in 2 .. Len(ns), l <= Len(ms),
         ms[l] = ns[l], ms[l - 1] = ns[l - 1], ns[l].frames \in 1 .. Len(gs),
         \A k \in 1 .. ns[l].frames : gs[k] = fs[k], NativeFits(fs, ns, l)
  PROVE  NativeFits(gs, ms, l)
<1>1. gs[ns[l].frames] = fs[ns[l].frames]
  BY SMTT(40)
<1>2. \A k \in 2 .. ns[l].frames : gs[k] = fs[k]
  BY StackTypes
<1> QED
  BY <1>1, <1>2 DEF NativeFits, GoesOn, ScopeIn, OpsIn, FloorIn

\* Frames and activations are dropped from the ends.
LEMMA NestedPrefix ==
  ASSUME NEW fs \in Seq(FrameRec), NEW gs \in Seq(FrameRec), NEW ns \in NativeStacks,
         NEW ms \in NativeStacks, Nested(fs, ns),
         Len(gs) <= Len(fs), \A k \in 1 .. Len(gs) : gs[k] = fs[k],
         Len(ms) <= Len(ns), \A l \in 1 .. Len(ms) : ms[l] = ns[l],
         ns[Len(ms)].frames <= Len(gs), \A k \in 2 .. Len(gs) : fs[k].lvl <= Len(ms)
  PROVE  Nested(gs, ms)
<1>1. /\ Len(fs) \in Nat /\ DOMAIN fs = 1 .. Len(fs) /\ Len(gs) \in Nat /\ DOMAIN gs = 1 .. Len(gs)
      /\ Len(ns) \in Nat \ {0} /\ DOMAIN ns = 1 .. Len(ns)
      /\ Len(ms) \in Nat \ {0} /\ DOMAIN ms = 1 .. Len(ms)
      /\ \A k \in 1 .. Len(gs) : k \in 1 .. Len(fs)
      /\ \A l \in 1 .. Len(ms) : l \in 1 .. Len(ns)
      /\ \A l \in 1 .. Len(ns) : ns[l].frames \in Nat
  BY StackTypes
<1>2. \A l \in 1 .. Len(ms) : ns[l].frames \in 1 .. Len(gs)
  <2>1. \A l \in 1 .. Len(ms) : ns[l].frames <= ns[Len(ms)].frames
    BY <1>1 DEF Nested, Ascending
  <2> QED
    BY <1>1, <2>1 DEF Nested, Layers
<1>3. Bottom(gs, ms)
  <2>1. Len(gs) >= 1
    BY <1>1, <1>2
  <2> QED
    BY <1>1, <2>1, EmptySeq DEF Nested, Bottom
<1>4. Layers(gs, ms)
  BY <1>1, <1>2 DEF Nested, Layers
<1>5. Ascending(gs, ms)
  BY <1>1 DEF Nested, Ascending
<1>6. ASSUME NEW k \in 2 .. Len(gs) PROVE FrameFits(gs, ms, k)
  <2>1. k \in 2 .. Len(fs) /\ k - 1 \in 1 .. Len(gs) /\ k \in 1 .. Len(gs)
    BY <1>1
  <2>2. FrameFits(fs, ns, k)
    BY <2>1 DEF Nested
  <2>3. fs[k].lvl \in 1 .. Len(ms)
    BY <1>1, <2>1, <2>2, StackTypes DEF FrameFits
  <2> QED
    BY SMTT(40), <1>1, <2>1, <2>2, <2>3, SameFrame
<1>7. ASSUME NEW l \in 2 .. Len(ms) PROVE NativeFits(gs, ms, l)
  <2>1. l \in 2 .. Len(ns) /\ l - 1 \in 1 .. Len(ms) /\ l \in 1 .. Len(ms)
    BY <1>1
  <2>2. NativeFits(fs, ns, l)
    BY <2>1 DEF Nested
  <2>3. \A k \in 1 .. ns[l].frames : gs[k] = fs[k]
    BY <1>1, <1>2, <2>1
  <2>4. ms[l] = ns[l] /\ ms[l - 1] = ns[l - 1] /\ l <= Len(ms) /\ ns[l].frames \in 1 .. Len(gs)
    BY SMTT(40), <1>1, <1>2, <2>1
  <2> QED
    BY <2>1, <2>2, <2>3, <2>4, SameNative
<1> QED
  BY <1>3, <1>4, <1>5, <1>6, <1>7 DEF Nested

\* What lies below what.
LEMMA NestedFacts ==
  ASSUME NEW fs \in Seq(FrameRec), NEW ns \in NativeStacks, Nested(fs, ns)
  PROVE  /\ \A j, k \in 1 .. Len(fs) : j <= k => fs[j].top <= fs[k].top
         /\ \A l \in 1 .. Len(ns), k \in 1 .. Len(fs) :
              IF k <= ns[l].frames THEN fs[k].top <= ns[l].height ELSE ns[l].height <= fs[k].top
         /\ \A l, m \in 1 .. Len(ns) :
              l <= m => ns[l].frames <= ns[m].frames /\ ns[l].height <= ns[m].height
         /\ \A l \in 1 .. Len(ns) :
              /\ ns[l].frames \in 1 .. Len(fs)
              /\ \A k \in ns[l].frames + 1 .. Len(fs) : fs[k].lvl >= l
<1>1. DOMAIN fs = 1 .. Len(fs) /\ DOMAIN ns = 1 .. Len(ns)
  BY StackTypes
<1> QED
  BY <1>1 DEF Nested, Ascending, Layers

\* Nothing lies above the operands that the innermost frame, or else the
\* innermost activation, began with.
LEMMA FloorHighest ==
  ASSUME NEW fs \in Seq(FrameRec), NEW ns \in NativeStacks, Nested(fs, ns)
  PROVE  /\ FloorIn(fs, ns, Len(fs), Len(ns)) \in Int
         /\ \A k \in 1 .. Len(fs) : fs[k].top <= FloorIn(fs, ns, Len(fs), Len(ns))
         /\ \A l \in 1 .. Len(ns) : ns[l].height <= FloorIn(fs, ns, Len(fs), Len(ns))
         /\ Len(fs) \in 1 .. Len(fs) /\ Len(ns) \in 1 .. Len(ns)
<1> DEFINE n == Len(fs)
           m == Len(ns)
<1>1. /\ n \in Nat /\ DOMAIN fs = 1 .. n /\ m \in Nat \ {0} /\ DOMAIN ns = 1 .. m
      /\ \A k \in 1 .. n : fs[k].top \in Int
      /\ \A l \in 1 .. m : ns[l].height \in Int /\ ns[l].frames \in Nat
  BY StackTypes
<1>2. n \in 1 .. n /\ m \in 1 .. m /\ ns[m].frames \in 1 .. n
  <2>1. m \in 1 .. m
    BY <1>1
  <2>2. ns[m].frames \in 1 .. n
    BY <1>1, <2>1 DEF Nested, Layers
  <2> QED
    BY <1>1, <2>1, <2>2
<1> HIDE DEF n, m
<1>a. \A j, k \in 1 .. n : j <= k => fs[j].top <= fs[k].top
  BY <1>1 DEF Nested, Ascending
<1>b. \A l \in 1 .. m, k \in 1 .. n :
        IF k <= ns[l].frames THEN fs[k].top <= ns[l].height ELSE ns[l].height <= fs[k].top
  BY <1>1 DEF Nested, Ascending
<1>c. \A l, k \in 1 .. m : l <= k => ns[l].height <= ns[k].height
  BY <1>1 DEF Nested, Ascending
<1>3. CASE n > ns[m].frames
  <2>1. FloorIn(fs, ns, n, m) = fs[n].top
    BY <1>3 DEF FloorIn
  <2>2. ASSUME NEW k \in 1 .. n PROVE fs[k].top <= fs[n].top
    <3>1. n \in 1 .. n /\ k <= n
      BY <1>1, <1>2
    <3> QED
      BY <1>a, <3>1
  <2>3. ns[m].height <= fs[n].top
    <3>1. ~(n <= ns[m].frames)
      BY <1>1, <1>2, <1>3
    <3> QED
      BY <1>2, <1>b, <3>1
  <2>4. \A l \in 1 .. m : ns[l].height <= ns[m].height
    BY <1>1, <1>2, <1>c
  <2>5. \A l \in 1 .. m : ns[l].height <= fs[n].top
    BY <1>1, <1>2, <2>3, <2>4
  <2> QED
    BY <1>1, <1>2, <2>1, <2>2, <2>5 DEF n, m
<1>4. CASE ~(n > ns[m].frames)
  <2>1. FloorIn(fs, ns, n, m) = ns[m].height
    BY <1>4 DEF FloorIn
  <2>2. \A k \in 1 .. n : k <= ns[m].frames
    BY <1>1, <1>2, <1>4
  <2>3. \A k \in 1 .. n : fs[k].top <= ns[m].height
    BY <1>2, <1>b, <2>2
  <2>4. \A l \in 1 .. m : ns[l].height <= ns[m].height
    BY <1>1, <1>2, <1>c
  <2> QED
    BY <1>1, <1>2, <2>1, <2>3, <2>4 DEF n, m
<1> QED
  BY <1>3, <1>4

\* A frame is pushed by the innermost activation.
LEMMA NestedPushFrame ==
  ASSUME NEW fs \in Seq(FrameRec), NEW ns \in NativeStacks, NEW f \in FrameRec, Nested(fs, ns),
         FrameFits(Append(fs, f), ns, Len(fs) + 1), f.lvl = Len(ns),
         f.top >= FloorIn(fs, ns, Len(fs), Len(ns))
  PROVE  Nested(Append(fs, f), ns)
<1> DEFINE gs == Append(fs, f)
           n == Len(fs)
<1>1. /\ gs \in Seq(FrameRec) /\ Len(gs) = n + 1 /\ \A k \in 1 .. n : gs[k] = fs[k]
      /\ gs[n + 1] = f
  BY AppendFacts
<1>2. /\ n \in Nat \ {0} /\ DOMAIN fs = 1 .. n /\ DOMAIN gs = 1 .. n + 1
      /\ Len(ns) \in Nat \ {0} /\ DOMAIN ns = 1 .. Len(ns)
      /\ \A l \in 1 .. Len(ns) : ns[l].height \in Int /\ ns[l].frames \in Nat
      /\ \A k \in 1 .. n : fs[k].top \in Int /\ fs[k].lvl \in Nat
      /\ f.top \in Int
  <2>1. n \in Nat /\ n \in 1 .. n
    BY FloorHighest, StackTypes
  <2>2. f.top \in Int
    BY DEF FrameRec
  <2> QED
    BY <1>1, <2>1, <2>2, StackTypes
<1>3. /\ \A k \in 1 .. n : fs[k].top <= f.top
      /\ \A l \in 1 .. Len(ns) : ns[l].height <= f.top
  <2> DEFINE floor == FloorIn(fs, ns, Len(fs), Len(ns))
  <2>1. /\ \A k \in 1 .. n : fs[k].top <= floor
        /\ \A l \in 1 .. Len(ns) : ns[l].height <= floor
        /\ floor \in Int /\ floor <= f.top
    BY FloorHighest
  <2>2. ASSUME NEW x \in Int, x <= floor PROVE x <= f.top
    BY <1>2, <2>1, <2>2
  <2> HIDE DEF floor
  <2> QED
    BY <1>2, <2>1, <2>2
<1>4. \A l \in 1 .. Len(ns) : ns[l].frames \in 1 .. n
  BY <1>2 DEF Nested, Layers
<1>5. ASSUME NEW k \in 2 .. n PROVE FrameFits(gs, ns, k)
  <2>1. k \in 2 .. Len(fs) /\ gs[k] = fs[k] /\ gs[k - 1] = fs[k - 1] /\ k <= Len(gs)
    BY <1>1, <1>2
  <2>2. FrameFits(fs, ns, k)
    BY <2>1 DEF Nested
  <2>3. fs[k].lvl \in DOMAIN ns
    BY <2>2 DEF FrameFits
  <2> QED
    BY <1>1, <2>1, <2>2, <2>3, SameFrame
<1>6. ASSUME NEW l \in 2 .. Len(ns) PROVE NativeFits(gs, ns, l)
  <2>1. NativeFits(fs, ns, l)
    BY DEF Nested
  <2>2. ns[l].frames \in 1 .. Len(gs) /\ \A k \in 1 .. ns[l].frames : gs[k] = fs[k]
    <3>1. l \in 1 .. Len(ns)
      BY <1>2
    <3> QED
      BY <1>1, <1>2, <1>4, <3>1
  <2>3. l <= Len(ns) /\ ns[l] = ns[l] /\ ns[l - 1] = ns[l - 1]
    BY <1>2
  <2> QED
    BY <1>1, <2>1, <2>2, <2>3, SameNative
<1> HIDE DEF gs, n
<1>7. Bottom(gs, ns)
  BY <1>1, <1>2, EmptySeq DEF Nested, Bottom
<1>8. Layers(gs, ns)
  <2>1. ASSUME NEW l \in 1 .. Len(ns), NEW k \in ns[l].frames + 1 .. Len(gs) PROVE gs[k].lvl >= l
    <3>1. CASE k = n + 1
      BY <1>1, <1>2, <3>1
    <3>2. CASE k # n + 1
      <4>1. k \in ns[l].frames + 1 .. Len(fs)
        BY <1>1, <1>2, <3>2 DEF n
      <4>2. fs[k].lvl >= l
        BY <4>1, NestedFacts
      <4>3. k \in 1 .. n
        BY <1>1, <1>2, <1>4, <3>2
      <4> QED
        BY <1>1, <4>2, <4>3
    <3> QED
      BY <3>1, <3>2
  <2> QED
    BY <1>1, <1>2, <1>4, <2>1 DEF Layers
<1>9. Ascending(gs, ns)
  <2>1. ASSUME NEW j \in 1 .. n + 1, NEW k \in 1 .. n + 1, j <= k PROVE gs[j].top <= gs[k].top
    <3>1. CASE k = n + 1 /\ j # k
      BY <1>1, <1>2, <1>3, <3>1
    <3>2. CASE k # n + 1
      <4>1. j \in 1 .. Len(fs) /\ k \in 1 .. Len(fs) /\ j <= k
        BY <1>2, <2>1, <3>2 DEF n
      <4>2. fs[j].top <= fs[k].top
        BY <4>1, NestedFacts
      <4> QED
        BY <1>1, <4>1, <4>2 DEF n
    <3>3. CASE j = n + 1
      BY <1>1, <1>2, <2>1, <3>3
    <3> QED
      BY <1>2, <2>1, <3>1, <3>2, <3>3
  <2>2. ASSUME NEW l \in 1 .. Len(ns), NEW k \in 1 .. n + 1
        PROVE  IF k <= ns[l].frames THEN gs[k].top <= ns[l].height ELSE ns[l].height <= gs[k].top
    <3>1. CASE k = n + 1
      BY <1>1, <1>2, <1>3, <1>4, <3>1
    <3>2. CASE k # n + 1
      <4>1. k \in 1 .. Len(fs)
        BY <1>2, <3>2 DEF n
      <4> QED
        BY <1>1, <4>1, NestedFacts DEF n
    <3> QED
      BY <3>1, <3>2
  <2>3. \A l, m \in DOMAIN ns :
          l <= m => ns[l].frames <= ns[m].frames /\ ns[l].height <= ns[m].height
    BY DEF Nested, Ascending
  <2> QED
    BY <1>2, <2>1, <2>2, <2>3 DEF Ascending
<1>10. FrameFits(gs, ns, n + 1)
  BY DEF gs, n
<1>11. \A k \in 2 .. Len(gs) : FrameFits(gs, ns, k)
  BY <1>1, <1>2, <1>5, <1>10
<1> QED
  BY <1>6, <1>7, <1>8, <1>9, <1>11 DEF Nested, gs

\* An activation begins above all frames.
LEMMA NestedPushNative ==
  ASSUME NEW fs \in Seq(FrameRec), NEW ns \in NativeStacks, NEW e \in NativeRec,
         Append(ns, e) \in NativeStacks, Nested(fs, ns), e.frames = Len(fs),
         e.height >= FloorIn(fs, ns, Len(fs), Len(ns)),
         (\A k \in 2 .. Len(fs) : fs[k].lvl < Len(ns) + 1) => NativeFits(fs, Append(ns, e), Len(ns) + 1)
  PROVE  Nested(fs, Append(ns, e))
<1> DEFINE ms == Append(ns, e)
           m == Len(ns)
<1>1. /\ Len(ms) = m + 1 /\ \A l \in 1 .. m : ms[l] = ns[l]
      /\ ms[m + 1] = e
  BY AppendFacts DEF NativeStacks
<1>2. /\ Len(fs) \in Nat \ {0} /\ DOMAIN fs = 1 .. Len(fs) /\ DOMAIN ms = 1 .. m + 1
      /\ m \in Nat \ {0} /\ DOMAIN ns = 1 .. m
      /\ \A l \in 1 .. m : ns[l].height \in Int /\ ns[l].frames \in Nat
      /\ \A k \in 1 .. Len(fs) : fs[k].top \in Int /\ fs[k].lvl \in Nat
      /\ e.height \in Int
  <2>1. Len(fs) \in Nat /\ Len(fs) \in 1 .. Len(fs)
    BY FloorHighest, StackTypes
  <2>2. e.height \in Int
    BY DEF NativeRec
  <2> QED
    BY <1>1, <2>1, <2>2, StackTypes
<1>3. /\ \A k \in 1 .. Len(fs) : fs[k].top <= e.height
      /\ \A l \in 1 .. m : ns[l].height <= e.height
  <2> DEFINE floor == FloorIn(fs, ns, Len(fs), Len(ns))
  <2>1. /\ \A k \in 1 .. Len(fs) : fs[k].top <= floor
        /\ \A l \in 1 .. m : ns[l].height <= floor
        /\ floor \in Int /\ floor <= e.height
    BY FloorHighest
  <2> HIDE DEF floor
  <2> QED
    BY SMTT(40), <1>2, <2>1
<1>4. \A l \in 1 .. m : ns[l].frames \in 1 .. Len(fs)
  BY <1>2 DEF Nested, Layers
<1>5. ASSUME NEW k \in 2 .. Len(fs) PROVE FrameFits(fs, ms, k) /\ fs[k].lvl < m + 1
  <2>1. FrameFits(fs, ns, k)
    BY DEF Nested
  <2>2. fs[k].lvl \in 1 .. m
    BY <1>2, <2>1 DEF FrameFits
  <2>3. fs[k].lvl \in DOMAIN ms /\ ms[fs[k].lvl] = ns[fs[k].lvl] /\ k <= Len(fs)
    BY <1>1, <1>2, <2>2
  <2>4. fs[k] = fs[k] /\ fs[k - 1] = fs[k - 1]
    OBVIOUS
  <2>5. ms \in NativeStacks
    OBVIOUS
  <2> HIDE DEF ms
  <2>6. FrameFits(fs, ms, k)
    BY <2>1, <2>3, <2>4, <2>5, SameFrame
  <2> QED
    BY <1>2, <2>2, <2>6
<1>6. ASSUME NEW l \in 2 .. m PROVE NativeFits(fs, ms, l)
  <2>1. NativeFits(fs, ns, l)
    BY DEF Nested
  <2>2. ns[l].frames \in 1 .. Len(fs) /\ ms[l] = ns[l] /\ ms[l - 1] = ns[l - 1] /\ l <= Len(ms)
    <3>1. l \in 1 .. m /\ l - 1 \in 1 .. m
      BY <1>2
    <3> QED
      BY <1>1, <1>2, <1>4, <3>1
  <2> QED
    BY <2>1, <2>2, SameNative
<1>7. NativeFits(fs, ms, m + 1)
  BY <1>5
<1> HIDE DEF ms, m
<1>8. Bottom(fs, ms)
  BY <1>1, <1>2 DEF Nested, Bottom
<1>9. Layers(fs, ms)
  <2>1. ASSUME NEW l \in 1 .. m + 1
        PROVE  ms[l].frames \in 1 .. Len(fs) /\ \A k \in ms[l].frames + 1 .. Len(fs) : fs[k].lvl >= l
    <3>1. CASE l = m + 1
      BY <1>1, <1>2, <3>1
    <3>2. CASE l \in 1 .. m
      BY <1>1, <1>2, <3>2 DEF Nested, Layers
    <3> QED
      BY <1>2, <3>1, <3>2
  <2> QED
    BY <1>2, <2>1 DEF Layers
<1>10. Ascending(fs, ms)
  <2>1. \A j, k \in DOMAIN fs : j <= k => fs[j].top <= fs[k].top
    BY DEF Nested, Ascending
  <2>2. ASSUME NEW l \in 1 .. m + 1, NEW k \in 1 .. Len(fs)
        PROVE  IF k <= ms[l].frames THEN fs[k].top <= ms[l].height ELSE ms[l].height <= fs[k].top
    <3>1. CASE l = m + 1
      BY <1>1, <1>2, <1>3, <3>1
    <3>2. CASE l \in 1 .. m
      BY <1>1, <1>2, <3>2 DEF Nested, Ascending
    <3> QED
      BY <1>2, <3>1, <3>2
  <2>3. ASSUME NEW l \in 1 .. m + 1, NEW i \in 1 .. m + 1, l <= i
        PROVE  ms[l].frames <= ms[i].frames /\ ms[l].height <= ms[i].height
    <3>1. CASE i = m + 1 /\ l = i
      BY <1>1, <1>2, <3>1
    <3>2. CASE i = m + 1 /\ l # i
      BY <1>1, <1>2, <1>3, <1>4, <3>2
    <3>3. CASE i \in 1 .. m
      <4>1. l \in 1 .. Len(ns) /\ i \in 1 .. Len(ns)
        BY <1>2, <2>3, <3>3 DEF m
      <4> QED
        BY <1>1, <2>3, <4>1, NestedFacts DEF m
    <3> QED
      BY <1>2, <3>1, <3>2, <3>3
  <2> QED
    BY <1>2, <2>1, <2>2, <2>3 DEF Ascending
<1>11. \A l \in 2 .. Len(ms) : NativeFits(fs, ms, l)
  BY <1>1, <1>2, <1>6, <1>7
<1> QED
  BY <1>5, <1>8, <1>9, <1>10, <1>11 DEF Nested, ms

-----------------------------------------------------------------------------
(* The frames of the innermost activation.                                 *)

LEMMA OwnFrame ==
  ASSUME NEW fs \in Seq(FrameRec), NEW ns \in NativeStacks, Nested(fs, ns),
         NEW k \in 1 .. Len(fs), k > ns[Len(ns)].frames
  PROVE  k \in 2 .. Len(fs) /\ FrameFits(fs, ns, k) /\ fs[k].lvl = Len(ns)
<1>1. /\ Len(ns) \in Nat \ {0} /\ DOMAIN ns = 1 .. Len(ns) /\ Len(ns) \in 1 .. Len(ns)
      /\ Len(fs) \in Nat /\ fs[k].lvl \in Nat
  BY StackTypes, FloorHighest
<1>2. ns[Len(ns)].frames \in 1 .. Len(fs)
  BY <1>1, NestedFacts
<1>3. k \in 2 .. Len(fs) /\ k \in ns[Len(ns)].frames + 1 .. Len(fs)
  BY <1>1, <1>2
<1>4. FrameFits(fs, ns, k) /\ fs[k].lvl >= Len(ns)
  BY <1>1, <1>3, NestedFacts DEF Nested
<1>5. fs[k].lvl \in DOMAIN ns
  BY <1>4 DEF FrameFits
<1> QED
  BY <1>1, <1>3, <1>4, <1>5

\* Frames above t run the op array of t until a function's frame is pushed.
LEMMA SameOps ==
  ASSUME NEW fs \in Seq(FrameRec), NEW ns \in NativeStacks, Nested(fs, ns),
         NEW t \in 1 .. Len(fs), t > ns[Len(ns)].frames,
         NEW n \in t .. Len(fs), \A j \in t + 1 .. n : fs[j].type # "FUNCTION"
  PROVE  fs[n].ops = fs[t].ops
<1> DEFINE T == {j \in t .. n : fs[j].ops # fs[t].ops}
<1>1. /\ Len(fs) \in Nat /\ Len(ns) \in 1 .. Len(ns) /\ ns[Len(ns)].frames \in Nat
      /\ t \in Nat /\ n \in Nat
  BY StackTypes, FloorHighest
<1>2. SUFFICES ASSUME T # {} PROVE FALSE
  BY <1>1
<1>3. T \in SUBSET Nat
  BY <1>1
<1>4. PICK j \in T : \A i \in T : j <= i
  BY <1>2, <1>3, LeastNat
<1>5. /\ j \in t + 1 .. n /\ j - 1 \in t .. n /\ j - 1 \notin T
      /\ j \in 1 .. Len(fs) /\ j > ns[Len(ns)].frames /\ j - 1 > ns[Len(ns)].frames
  BY <1>1, <1>4
<1>6. fs[j - 1].ops = fs[t].ops
  BY <1>5
<1>7. FrameFits(fs, ns, j) /\ fs[j].lvl = Len(ns) /\ fs[j].type # "FUNCTION"
  BY <1>5, OwnFrame
<1>8. fs[j].ops = fs[j - 1].ops
  BY <1>5, <1>7 DEF FrameFits, OpsIn
<1> QED
  BY <1>4, <1>6, <1>8

\* An activation runs what it was started for, or a function.
LEMMA OwnOps ==
  ASSUME NEW fs \in Seq(FrameRec), NEW ns \in NativeStacks, Nested(fs, ns)
  PROVE  OpsIn(fs, ns, Len(fs), Len(ns)) \in Functions \cup {ns[Len(ns)].run}
<1> DEFINE n == Len(fs)
           b == ns[Len(ns)].frames
           T == {j \in b + 1 .. n : fs[j].ops \notin Functions \cup {ns[Len(ns)].run}}
<1>1. n \in Nat /\ Len(ns) \in 1 .. Len(ns) /\ b \in 1 .. n
  BY StackTypes, FloorHighest, NestedFacts
<1>2. T = {}
  <2> SUFFICES ASSUME T # {} PROVE FALSE
    OBVIOUS
  <2>1. T \in SUBSET Nat
    BY <1>1
  <2>2. PICK j \in T : \A i \in T : j <= i
    BY <2>1, LeastNat
  <2>3. j \in 1 .. n /\ j > b /\ j - 1 \notin T
    BY <1>1, <2>2
  <2>4. FrameFits(fs, ns, j) /\ fs[j].lvl = Len(ns)
    BY <2>3, OwnFrame
  <2>5. fs[j].type # "FUNCTION" /\ fs[j].ops = OpsIn(fs, ns, j - 1, Len(ns))
    BY <2>2, <2>4 DEF FrameFits
  <2>6. CASE j - 1 > b
    <3>1. j - 1 \in b + 1 .. n
      BY <1>1, <2>3, <2>6
    <3>2. fs[j].ops = fs[j - 1].ops
      BY <2>5, <2>6 DEF OpsIn
    <3> QED
      BY <2>2, <2>3, <3>1, <3>2
  <2>7. CASE ~(j - 1 > b)
    BY <2>2, <2>5, <2>7 DEF OpsIn
  <2> QED
    BY <2>6, <2>7
<1>3. CASE n > b
  <2>1. n \in b + 1 .. n
    BY <1>1, <1>3
  <2> QED
    BY <1>2, <1>3, <2>1 DEF OpsIn
<1>4. CASE ~(n > b)
  BY <1>4 DEF OpsIn
<1> QED
  BY <1>3, <1>4

\* Frames of the innermost activation are dropped from t on.
LEMMA Unwound ==
  ASSUME NEW fs \in Seq(FrameRec), NEW ns \in NativeStacks, Nested(fs, ns),
         NEW t \in 1 .. Len(fs), t > ns[Len(ns)].frames
  PROVE  /\ Nested(SubSeq(fs, 1, t - 1), ns)
         /\ Len(SubSeq(fs, 1, t - 1)) = t - 1
         /\ \A a, p, h : GoesOn(fs, ns, t - 1, Len(ns), a, p, h) =>
              GoesOn(SubSeq(fs, 1, t - 1), ns, t - 1, Len(ns), a, p, h)
<1> DEFINE gs == SubSeq(fs, 1, t - 1)
<1>1. /\ Len(fs) \in Nat /\ Len(ns) \in 1 .. Len(ns) /\ ns[Len(ns)].frames \in 1 .. Len(fs)
      /\ Len(ns) \in Nat /\ DOMAIN ns = 1 .. Len(ns)
  BY StackTypes, FloorHighest, NestedFacts
<1>2. gs \in Seq(FrameRec) /\ Len(gs) = t - 1 /\ \A k \in 1 .. t - 1 : gs[k] = fs[k]
  <2>1. t - 1 \in 0 .. Len(fs)
    BY <1>1
  <2> QED
    BY <2>1, PrefixFacts
<1> HIDE DEF gs
<1>3. \A k \in 2 .. Len(gs) : fs[k].lvl <= Len(ns)
  <2> SUFFICES ASSUME NEW k \in 2 .. Len(gs) PROVE fs[k].lvl <= Len(ns)
    OBVIOUS
  <2>1. k \in 2 .. Len(fs)
    BY <1>1, <1>2
  <2>2. FrameFits(fs, ns, k)
    BY <2>1 DEF Nested
  <2> QED
    BY <1>1, <2>2 DEF FrameFits
<1>4. Len(gs) <= Len(fs) /\ ns[Len(ns)].frames <= Len(gs) /\ \A k \in 1 .. Len(gs) : gs[k] = fs[k]
  BY <1>1, <1>2
<1>5. Nested(gs, ns)
  <2>1. Len(ns) <= Len(ns) /\ \A l \in 1 .. Len(ns) : ns[l] = ns[l]
    BY <1>1
  <2> QED
    BY <1>2, <1>3, <1>4, <2>1, NestedPrefix
<1>6. gs[t - 1] = fs[t - 1]
  BY <1>1, <1>2
<1> QED
  BY <1>2, <1>5, <1>6 DEF gs, GoesOn, ScopeIn, OpsIn, FloorIn

-----------------------------------------------------------------------------
(* What the actions are made of.                                           *)

LEMMA Flows ==
  ASSUME NEW fs \in Seq(FrameRec), NEW ns \in NativeStacks, NEW a \in OpArrays, NEW p, NEW h,
         NEW d, NEW q, NEW i \in Int, GoesOn(fs, ns, Len(fs), Len(ns), a, p, h),
         FlowsTo(a, q, ScopeAt[a][p], d), d \in Int,
         i >= FloorIn(fs, ns, Len(fs), Len(ns)) + d, Nested(fs, ns)
  PROVE  GoesOn(fs, ns, Len(fs), Len(ns), a, q, i)
<1>1. FloorIn(fs, ns, Len(fs), Len(ns)) \in Int
  BY FloorHighest
<1>2. q \in DOMAIN Code[a] /\ DepthAt[a][q] \in Nat /\ DepthAt[a][q] <= d
  BY DepthTypes DEF FlowsTo
<1> QED
  BY <1>1, <1>2 DEF GoesOn, FlowsTo

\* Control goes on where the try, or its frame's activation, was entered.
LEMMA RaiseStep ==
  ASSUME TypeOK, NEW ns \in NativeStacks, Nested(frame_stack, ns), NEW o, NEW own,
         own = OpsIn(frame_stack, ns, Len(frame_stack), Len(ns)),
         Raise(o, own, ns)
  PROVE  Mirrors'
<1> USE DEF Mirrors
<1> SUFFICES ASSUME ~strayed' PROVE Mirrors'
  OBVIOUS
<1>1. frame_stack \in Seq(FrameRec) /\ native_stack' = ns
  BY DEF TypeOK, Raise
<1>2. CASE mode' = "died" /\ UNCHANGED frame_stack
  BY <1>1, <1>2 DEF InControl
<1>3. ASSUME NEW t \in DOMAIN frame_stack, NEW r \in OpArrays, IsInnermost(t, {"TRY"}),
             OpsUnwound(t, o, r), mode' = "op", ops' = r, pc' = frame_stack[t].ret + 1,
             height' = frame_stack[t].top + 1, frame_stack' = FramesBelow(t),
             strayed' = (strayed \/ t <= Last(ns).frames \/ (r = o /\ o # own))
      PROVE  Mirrors'
  <2> DEFINE fs == frame_stack
             n == Len(frame_stack)
             l == Len(ns)
             f == frame_stack[t]
  <2>1. /\ n \in Nat /\ t \in 1 .. n /\ l \in Nat /\ l \in 1 .. l /\ ns[l].frames \in 1 .. n
        /\ Last(ns) = ns[l]
    BY <1>1, StackTypes, FloorHighest, NestedFacts
  <2>2. t > ns[l].frames /\ ~(r = o /\ o # own)
    <3>1. ~(t <= Last(ns).frames) /\ ~(r = o /\ o # own)
      BY <1>3, Zenon
    <3> QED
      BY <2>1, <3>1
  <2>3. f.type = "TRY"
    BY <1>3 DEF IsInnermost
  <2>4. FrameFits(fs, ns, t) /\ f.lvl = l
    BY <1>1, <2>1, <2>2, OwnFrame
  <2>5. GoesOn(fs, ns, t - 1, l, f.ops, f.ret + 1, f.top + 1)
    BY <2>3, <2>4 DEF FrameFits
  <2>6. r = f.ops
    <3>1. CASE (\A j \in t + 1 .. n : fs[j].type # "FUNCTION") /\ r = o
      <4>1. o = fs[n].ops
        BY <2>1, <2>2, <3>1 DEF OpsIn
      <4>2. fs[n].ops = fs[t].ops
        BY <1>1, <2>1, <2>2, <3>1, SameOps
      <4> QED
        BY <3>1, <4>1, <4>2
    <3>2. CASE \E j \in t + 1 .. n :
                 /\ fs[j].type = "FUNCTION" /\ r = fs[j].orig
                 /\ \A m \in t + 1 .. j - 1 : fs[m].type # "FUNCTION"
      <4>1. PICK j \in t + 1 .. n :
                 /\ fs[j].type = "FUNCTION" /\ r = fs[j].orig
                 /\ \A m \in t + 1 .. j - 1 : fs[m].type # "FUNCTION"
        BY <3>2
      <4>2. j \in 1 .. n /\ j > ns[l].frames /\ j - 1 \in t .. n /\ j - 1 > ns[l].frames
        BY <2>1, <2>2
      <4>3. FrameFits(fs, ns, j) /\ fs[j].lvl = l
        BY <1>1, <4>2, OwnFrame
      <4>4. r = OpsIn(fs, ns, j - 1, l)
        BY <4>1, <4>3 DEF FrameFits, GoesOn
      <4>5. fs[j - 1].ops = fs[t].ops
        BY <1>1, <2>1, <2>2, <4>1, <4>2, SameOps
      <4> QED
        BY <4>2, <4>4, <4>5 DEF OpsIn
    <3> QED
      BY <1>3, <3>1, <3>2 DEF OpsUnwound
  <2>7. /\ Nested(SubSeq(fs, 1, t - 1), ns) /\ Len(SubSeq(fs, 1, t - 1)) = t - 1
        /\ GoesOn(SubSeq(fs, 1, t - 1), ns, t - 1, l, f.ops, f.ret + 1, f.top + 1)
    BY <1>1, <2>1, <2>2, <2>5, Unwound
  <2> QED
    BY <1>1, <1>3, <2>6, <2>7 DEF InControl, FramesBelow
<1> QED
  BY <1>2, <1>3 DEF Raise

\* A function begins above its arguments, and its caller goes on below them.
LEMMA ActivateStep ==
  ASSUME TypeOK, NEW ns \in NativeStacks, Nested(frame_stack, ns), NEW f \in Functions,
         NEW n \in Nat, NEW h \in Int, NEW at \in Int, NEW from \in OpArrays,
         Activate(f, n, h, at, from, ns), height' \in Int, height' >= h,
         h - n >= FloorIn(frame_stack, ns, Len(frame_stack), Len(ns)),
         GoesOn(frame_stack, ns, Len(frame_stack), Len(ns), from, at + 1, h - n + 1)
  PROVE  Mirrors'
<1> DEFINE g == Frame("FUNCTION", h, at, from, n, FnScope[f], f, Len(ns), Len(mark_stack) + 1)
           fs == frame_stack
           gs == Append(fs, g)
           k == Len(fs) + 1
<1>1. /\ fs \in Seq(FrameRec) /\ Len(fs) \in 1 .. Len(fs) /\ Len(fs) \in Nat
      /\ Len(ns) \in 1 .. Len(ns) /\ DOMAIN ns = 1 .. Len(ns) /\ ns[Len(ns)].frames \in 1 .. Len(fs)
      /\ FloorIn(fs, ns, Len(fs), Len(ns)) \in Int
  BY StackTypes, FloorHighest, NestedFacts DEF TypeOK
<1>2. g \in FrameRec
  <2>1. "FUNCTION" \in FrameTypes /\ Len(ns) \in Nat /\ Len(mark_stack) + 1 \in Nat
    BY StackTypes, FrameStackType, <1>1 DEF FrameTypes, ActTypes
  <2>2. n \in Int /\ f \in OpArrays /\ FnScope[f] \in Scopes
    BY FunctionTypes
  <2> QED
    BY <2>1, <2>2, FrameType
<1>3. /\ g.type = "FUNCTION" /\ g.top = h /\ g.ret = at /\ g.orig = from /\ g.argcnt = n
      /\ g.scope = FnScope[f] /\ g.ops = f /\ g.lvl = Len(ns)
  BY DEF Frame
<1>4. frame_stack' = gs /\ native_stack' = ns /\ mode' = "op" /\ ops' = f /\ pc' = 0
  BY DEF Activate, PushFrame
<1>5. gs \in Seq(FrameRec) /\ Len(gs) = k /\ gs[k] = g /\ gs[k - 1] = fs[k - 1]
  BY <1>1, <1>2, AppendFacts
<1>6. k > ns[Len(ns)].frames /\ k - 1 = Len(fs) /\ k \in Nat
  BY <1>1
<1> HIDE DEF g, gs
<1>7. FnScope[f] # Root /\ Kind[FnScope[f]] = "FUNCTION"
  BY FunctionsAssumption
<1>8. FrameFits(gs, ns, k)
  <2>1. FloorIn(gs, ns, k - 1, Len(ns)) = FloorIn(fs, ns, Len(fs), Len(ns))
    BY <1>5, <1>6 DEF FloorIn
  <2>2. GoesOn(gs, ns, k - 1, Len(ns), from, at + 1, h - n + 1)
    BY <1>5, <1>6 DEF GoesOn, FloorIn, OpsIn, ScopeIn
  <2>3. n >= 0 /\ Len(ns) \in DOMAIN ns
    BY <1>1
  <2> QED
    BY <1>3, <1>5, <1>6, <1>7, <2>1, <2>2, <2>3 DEF FrameFits
<1>9. h >= FloorIn(fs, ns, Len(fs), Len(ns))
  BY <1>1
<1>10. Nested(gs, ns)
  BY <1>1, <1>2, <1>3, <1>8, <1>9, NestedPushFrame DEF gs
<1>11. GoesOn(gs, ns, k, Len(ns), f, 0, height')
  <2>1. 0 \in DOMAIN Code[f] /\ ScopeAt[f][0] = FnScope[f] /\ DepthAt[f][0] <= 0 /\ DepthAt[f][0] \in Nat
    BY FunctionsAssumption, FunctionTypes, DepthTypes DEF FlowsTo
  <2> QED
    BY SMTT(40), <1>3, <1>5, <1>6, <2>1 DEF GoesOn, FloorIn, OpsIn, ScopeIn
<1> QED
  BY <1>4, <1>5, <1>10, <1>11 DEF Mirrors, InControl

\* What a new activation keeps is where its caller goes on.
Starts(fs, ns, e) ==
  LET n == Len(fs)
      l == Len(ns)
  IN /\ e.frames = n /\ e.height >= FloorIn(fs, ns, n, l)
     /\ e.kind \in {"ex", "eval"} =>
          /\ IsNative(e.ops, e.pc)
          /\ GoesOn(fs, ns, n, l, e.ops, e.pc, e.height + Code[e.ops][e.pc].pop)
          /\ e.kind = "ex" => e.run = End
          /\ e.kind = "eval" => e.run \in Files
     /\ e.kind = "default" =>
          /\ e.run \in Functions
          /\ e.argcnt \in 0 .. NParams[e.run] - 1
          /\ e.height - e.argcnt >= FloorIn(fs, ns, n, l)
          /\ GoesOn(fs, ns, n, l, e.ops, e.pc + 1, e.height - e.argcnt + 1)

LEMMA StartsNested ==
  ASSUME NEW fs \in Seq(FrameRec), NEW ns \in NativeStacks, Nested(fs, ns), NEW e \in NativeRec,
         Append(ns, e) \in NativeStacks, Starts(fs, ns, e)
  PROVE  Nested(fs, Append(ns, e))
<1> DEFINE ms == Append(ns, e)
           m == Len(ns)
<1>1. /\ Len(fs) \in 1 .. Len(fs) /\ Len(fs) \in Nat
      /\ m \in 1 .. m /\ m \in Nat /\ DOMAIN ns = 1 .. m /\ ns[m].frames \in 1 .. Len(fs)
  BY StackTypes, FloorHighest, NestedFacts
<1>2. Len(ms) = m + 1 /\ ms[m + 1] = e /\ ms[m] = ns[m]
  BY <1>1, AppendFacts DEF NativeStacks
<1> HIDE DEF ms
<1>3. \A a, q, h : GoesOn(fs, ns, Len(fs), m, a, q, h) => GoesOn(fs, ms, Len(fs), m, a, q, h)
  BY <1>2 DEF GoesOn, ScopeIn, OpsIn, FloorIn
<1>4. FloorIn(fs, ms, Len(fs), m) = FloorIn(fs, ns, Len(fs), m)
  BY <1>2 DEF FloorIn
<1>5. ASSUME \A k \in 2 .. Len(fs) : fs[k].lvl < m + 1 PROVE NativeFits(fs, ms, m + 1)
  <2>1. m + 1 - 1 = m /\ ns[m].frames <= Len(fs)
    BY <1>1
  <2> QED
    BY <1>1, <1>2, <1>3, <1>4, <1>5, <2>1 DEF NativeFits, Starts
<1> QED
  BY <1>1, <1>5, NestedPushNative DEF ms, Starts

\* A nested execution begins at p, outside all scopes, on the operands there are.
LEMMA ExecuteStep ==
  ASSUME TypeOK, NEW ns \in NativeStacks, Nested(frame_stack, ns), NEW e \in NativeRec, NEW p \in Nat,
         Append(ns, e) \in NativeStacks, Starts(frame_stack, ns, e),
         native_stack' = Append(ns, e), mode' = "op", ops' = e.run, pc' = p,
         height' = e.height, UNCHANGED frame_stack, FlowsTo(e.run, p, Root, 0)
  PROVE  Mirrors'
<1> DEFINE fs == frame_stack
           ms == Append(ns, e)
           m == Len(ns)
<1>1. fs \in Seq(FrameRec) /\ Len(fs) \in Nat /\ m \in Nat
  BY StackTypes DEF TypeOK
<1>2. Len(ms) = m + 1 /\ ms[m + 1] = e
  BY AppendFacts DEF NativeStacks
<1>3. Nested(fs, ms)
  BY <1>1, StartsNested
<1> HIDE DEF ms
<1>4. GoesOn(fs, ms, Len(fs), m + 1, e.run, p, e.height)
  <2>1. ~(Len(fs) > ms[m + 1].frames) /\ e.run \in OpArrays /\ e.height \in Int
    BY <1>1, <1>2 DEF NativeRec, Starts
  <2>2. /\ p \in DOMAIN Code[e.run] /\ ScopeAt[e.run][p] = Root
        /\ DepthAt[e.run][p] <= 0 /\ DepthAt[e.run][p] \in Nat
    BY <2>1, DepthTypes DEF FlowsTo
  <2> QED
    BY <1>2, <2>1, <2>2 DEF GoesOn, FloorIn, OpsIn, ScopeIn
<1> QED
  BY <1>2, <1>3, <1>4 DEF Mirrors, InControl, ms

LEMMA PassArgsStep ==
  ASSUME TypeOK, NEW ns \in NativeStacks, Nested(frame_stack, ns), NEW f \in Functions,
         NEW n \in Nat, NEW h \in Int, NEW at \in Int, NEW from \in OpArrays,
         PassArgs(f, n, h, at, from, ns),
         h - n >= FloorIn(frame_stack, ns, Len(frame_stack), Len(ns)),
         GoesOn(frame_stack, ns, Len(frame_stack), Len(ns), from, at + 1, h - n + 1)
  PROVE  Mirrors'
<1> DEFINE floor == FloorIn(frame_stack, ns, Len(frame_stack), Len(ns))
<1>1. frame_stack \in Seq(FrameRec) /\ floor \in Int /\ Len(frame_stack) \in Nat /\ h >= floor
  BY FloorHighest, StackTypes DEF TypeOK
<1>2. CASE Activate(f, 1, Packed(h, n), at, from, ns) /\ height' = h - n + 1
  <2>1. /\ Packed(h, n) \in Int /\ height' \in Int /\ height' >= Packed(h, n)
        /\ Packed(h, n) - 1 >= floor /\ Packed(h, n) - 1 + 1 = h - n + 1
    BY <1>1, <1>2 DEF Packed
  <2> QED
    BY <1>2, <2>1, ActivateStep
<1>3. CASE Activate(f, n, h, at, from, ns) /\ height' = h
  <2>1. height' \in Int /\ height' >= h
    BY <1>3
  <2> QED
    BY <1>3, <2>1, ActivateStep
<1>4. CASE /\ NParams[f] # NoParams /\ n < NParams[f] /\ Defaults[f][n] >= 0
           /\ native_stack' = Append(ns, Native("default", at, from, Len(frame_stack), h, f, n))
           /\ mode' = "op" /\ ops' = f /\ pc' = Defaults[f][n] /\ height' = h
           /\ UNCHANGED << mark_stack, frame_stack, History >>
  <2> DEFINE e == Native("default", at, from, Len(frame_stack), h, f, n)
  <2>1. /\ e.kind = "default" /\ e.pc = at /\ e.ops = from /\ e.frames = Len(frame_stack)
        /\ e.height = h /\ e.run = f /\ e.argcnt = n
    BY DEF Native
  <2>2. n \in 0 .. NParams[f] - 1 /\ f \in OpArrays
    BY <1>4, FunctionTypes
  <2>3. Append(ns, e) \in NativeStacks
    BY <1>1, <2>2, NativeType
  <2>4. e \in NativeRec
    BY <1>1, <2>2 DEF Native, NativeRec
  <2>5. Defaults[f][n] \in Nat /\ FlowsTo(f, Defaults[f][n], Root, 0)
    BY <1>4, <2>2, FunctionTypes, FunctionsAssumption
  <2>6. native_stack' = Append(ns, e)
    BY <1>4
  <2> HIDE DEF e
  <2>7. Starts(frame_stack, ns, e)
    BY <1>1, <2>1, <2>2 DEF Starts
  <2> QED
    BY <1>1, <1>4, <2>1, <2>2, <2>3, <2>4, <2>5, <2>6, <2>7, ExecuteStep
<1>5. CASE Raise(f, from, ns)
  BY <1>5, RaiseStep DEF GoesOn
<1> QED
  BY <1>2, <1>3, <1>4, <1>5 DEF PassArgs

LEMMA ControlStep ==
  ASSUME Nested(frame_stack, native_stack), UNCHANGED << frame_stack, native_stack >>,
         mode' = "op",
         GoesOn(frame_stack, native_stack, Len(frame_stack), Len(native_stack), ops', pc', height')
  PROVE  Mirrors'
BY DEF Mirrors, InControl

LEMMA UnwindStep ==
  ASSUME TypeOK, Nested(frame_stack, native_stack), UNCHANGED native_stack, mode' = "op",
         NEW t \in 1 .. Len(frame_stack), t > native_stack[Len(native_stack)].frames,
         frame_stack' = FramesBelow(t),
         GoesOn(frame_stack, native_stack, t - 1, Len(native_stack), ops', pc', height')
  PROVE  Mirrors'
<1>1. frame_stack \in Seq(FrameRec) /\ native_stack \in NativeStacks
  BY DEF TypeOK
<1> QED
  BY <1>1, Unwound DEF Mirrors, InControl, FramesBelow

\* A block's frame, or that of a try.
LEMMA EnterStep ==
  ASSUME TypeOK, Nested(frame_stack, native_stack), UNCHANGED native_stack, mode' = "op", ops' = ops,
         NEW f \in FrameRec, PushFrame(f), f.type # "FUNCTION", f.argcnt = 0, f.ops = ops,
         f.lvl = Len(native_stack), Kind[f.scope] = f.type, f.scope # Root,
         Parent[f.scope] = ScopeIn(frame_stack, native_stack, Len(frame_stack), Len(native_stack)),
         ops = OpsIn(frame_stack, native_stack, Len(frame_stack), Len(native_stack)),
         f.top >= FloorIn(frame_stack, native_stack, Len(frame_stack), Len(native_stack))
                    + EntryDepth[f.scope],
         f.type = "TRY" => GoesOn(frame_stack, native_stack, Len(frame_stack), Len(native_stack),
                                  ops, f.ret + 1, f.top + 1),
         NEW d \in Int, FlowsTo(ops, pc', f.scope, d), height' \in Int, height' >= f.top + d
  PROVE  Mirrors'
<1> DEFINE fs == frame_stack
           ns == native_stack
           gs == Append(fs, f)
           k == Len(fs) + 1
<1>1. /\ fs \in Seq(FrameRec) /\ ns \in NativeStacks /\ Len(fs) \in 1 .. Len(fs) /\ Len(fs) \in Nat
      /\ Len(ns) \in 1 .. Len(ns) /\ DOMAIN ns = 1 .. Len(ns) /\ ns[Len(ns)].frames \in 1 .. Len(fs)
      /\ FloorIn(fs, ns, Len(fs), Len(ns)) \in Int /\ ops \in OpArrays
  BY StackTypes, FloorHighest, NestedFacts DEF TypeOK
<1>2. frame_stack' = gs /\ gs \in Seq(FrameRec) /\ Len(gs) = k /\ gs[k] = f /\ gs[k - 1] = fs[k - 1]
  BY <1>1, AppendFacts DEF PushFrame
<1>3. k > ns[Len(ns)].frames /\ k - 1 = Len(fs) /\ k \in Nat
  BY <1>1
<1>4. f.top \in Int /\ EntryDepth[f.scope] \in Nat
  BY DepthTypes DEF FrameRec
<1> HIDE DEF gs
<1>5. FrameFits(gs, ns, k)
  <2>1. FloorIn(gs, ns, k - 1, Len(ns)) = FloorIn(fs, ns, Len(fs), Len(ns))
    BY <1>2, <1>3 DEF FloorIn
  <2>2. ScopeIn(gs, ns, k - 1, Len(ns)) = ScopeIn(fs, ns, Len(fs), Len(ns))
    BY <1>2, <1>3 DEF ScopeIn
  <2>3. OpsIn(gs, ns, k - 1, Len(ns)) = OpsIn(fs, ns, Len(fs), Len(ns))
    BY <1>2, <1>3 DEF OpsIn
  <2>4. \A a, p, h : GoesOn(fs, ns, Len(fs), Len(ns), a, p, h) => GoesOn(gs, ns, k - 1, Len(ns), a, p, h)
    BY <1>3, <2>1, <2>2, <2>3 DEF GoesOn
  <2>5. Len(ns) \in DOMAIN ns
    BY <1>1
  <2> QED
    BY <1>2, <1>3, <2>1, <2>2, <2>3, <2>4, <2>5 DEF FrameFits
<1>6. Nested(gs, ns)
  <2>1. f.top >= FloorIn(fs, ns, Len(fs), Len(ns))
    BY <1>1, <1>4
  <2> QED
    BY <1>1, <1>5, <2>1, NestedPushFrame DEF gs
<1>7. GoesOn(gs, ns, k, Len(ns), ops, pc', height')
  <2>1. /\ pc' \in DOMAIN Code[ops] /\ ScopeAt[ops][pc'] = f.scope
        /\ DepthAt[ops][pc'] <= d /\ DepthAt[ops][pc'] \in Nat
    BY <1>1, DepthTypes DEF FlowsTo
  <2> QED
    BY <1>2, <1>3, <1>4, <2>1 DEF GoesOn, FloorIn, OpsIn, ScopeIn
<1> QED
  BY <1>2, <1>6, <1>7 DEF Mirrors, InControl

\* What is known when an op runs: its scope is that of the innermost frame.
LEMMA OpFacts ==
  ASSUME TypeOK, Nested(frame_stack, native_stack), mode = "op",
         InControl(frame_stack, native_stack, mode, ops, pc, height)
  PROVE  LET fs == frame_stack
             ns == native_stack
             n == Len(frame_stack)
             l == Len(native_stack)
         IN /\ fs \in Seq(FrameRec) /\ ns \in NativeStacks
            /\ n \in 1 .. n /\ n \in Nat /\ l \in 1 .. l /\ l \in Nat /\ ns[l].frames \in 1 .. n
            /\ ops \in OpArrays /\ pc \in Int /\ height \in Int
            /\ GoesOn(fs, ns, n, l, ops, pc, height)
            /\ ops = OpsIn(fs, ns, n, l) /\ ScopeAt[ops][pc] = ScopeIn(fs, ns, n, l)
            /\ FloorIn(fs, ns, n, l) \in Int
            /\ height >= FloorIn(fs, ns, n, l) + DepthAt[ops][pc]
            /\ DepthAt[ops][pc] \in Nat /\ pc \in DOMAIN Code[ops] /\ WellFormedOp(ops, pc)
            /\ ScopeAt[ops][pc] # Root =>
                 /\ n > ns[l].frames /\ n \in 2 .. n
                 /\ FrameFits(fs, ns, n) /\ fs[n].lvl = l
                 /\ fs[n].scope = ScopeAt[ops][pc] /\ fs[n].top = FloorIn(fs, ns, n, l)
                 /\ fs[n].ops = ops /\ fs[n].type = Kind[ScopeAt[ops][pc]]
                 /\ Frames /\ Top = fs[n].top /\ Front(fs) = FramesBelow(n)
<1> DEFINE fs == frame_stack
           ns == native_stack
           n == Len(frame_stack)
           l == Len(native_stack)
<1>1. /\ fs \in Seq(FrameRec) /\ ns \in NativeStacks
      /\ n \in 1 .. n /\ n \in Nat /\ l \in 1 .. l /\ l \in Nat /\ ns[l].frames \in 1 .. n
      /\ ops \in OpArrays /\ pc \in Int /\ height \in Int /\ FloorIn(fs, ns, n, l) \in Int
  BY StackTypes, FloorHighest, NestedFacts DEF TypeOK
<1>2. GoesOn(fs, ns, n, l, ops, pc, height)
  BY DEF InControl
<1>3. /\ ops = OpsIn(fs, ns, n, l) /\ ScopeAt[ops][pc] = ScopeIn(fs, ns, n, l)
      /\ height >= FloorIn(fs, ns, n, l) + DepthAt[ops][pc]
      /\ DepthAt[ops][pc] \in Nat /\ pc \in DOMAIN Code[ops] /\ WellFormedOp(ops, pc)
  BY <1>1, <1>2, OpTypes DEF GoesOn
<1>4. ASSUME ScopeAt[ops][pc] # Root
      PROVE  /\ n > ns[l].frames /\ n \in 2 .. n
             /\ FrameFits(fs, ns, n) /\ fs[n].lvl = l
             /\ fs[n].scope = ScopeAt[ops][pc] /\ fs[n].top = FloorIn(fs, ns, n, l)
             /\ fs[n].ops = ops /\ fs[n].type = Kind[ScopeAt[ops][pc]]
             /\ Frames /\ Top = fs[n].top /\ Front(fs) = FramesBelow(n)
  <2>1. n > ns[l].frames
    BY <1>3, <1>4 DEF ScopeIn
  <2>2. n \in 2 .. n /\ FrameFits(fs, ns, n) /\ fs[n].lvl = l
    BY <1>1, <2>1, OwnFrame
  <2>3. fs[n].scope = ScopeAt[ops][pc] /\ fs[n].top = FloorIn(fs, ns, n, l) /\ fs[n].ops = ops
    BY <1>3, <2>1 DEF ScopeIn, FloorIn, OpsIn
  <2>4. fs[n].type = Kind[ScopeAt[ops][pc]]
    BY <2>2, <2>3 DEF FrameFits
  <2>5. Frames /\ Last(fs) = fs[n] /\ Front(fs) = FramesBelow(n)
    BY <1>1, EmptySeq DEF Frames, Nested, Bottom, Last, Front, FramesBelow
  <2> QED
    BY <2>1, <2>2, <2>3, <2>4, <2>5 DEF Top
<1> QED
  BY <1>1, <1>2, <1>3, <1>4

-----------------------------------------------------------------------------
(* Each op goes on where its scope was compiled to. *)

\* The op goes on in its own scope with d operands at least.
LEMMA GoOnStep ==
  ASSUME TypeOK, Nested(frame_stack, native_stack), UNCHANGED << frame_stack, native_stack >>,
         mode' = "op", ops' = ops, NEW h,
         GoesOn(frame_stack, native_stack, Len(frame_stack), Len(native_stack), ops, pc, h),
         NEW d \in Int, FlowsTo(ops, pc', ScopeAt[ops][pc], d), height' \in Int,
         height' >= FloorIn(frame_stack, native_stack, Len(frame_stack), Len(native_stack)) + d
  PROVE  Mirrors'
<1>1. frame_stack \in Seq(FrameRec) /\ native_stack \in NativeStacks /\ ops \in OpArrays
  BY DEF TypeOK
<1>2. GoesOn(frame_stack, native_stack, Len(frame_stack), Len(native_stack), ops, pc', height')
  BY <1>1, Flows
<1> QED
  BY <1>2, ControlStep

LEMMA AtFacts ==
  ASSUME Mirrors, ~strayed, NEW op, At(op)
  PROVE  /\ mode = "op" /\ Instr = Code[ops][pc] /\ Code[ops][pc].op = op
         /\ Nested(frame_stack, native_stack)
         /\ InControl(frame_stack, native_stack, mode, ops, pc, height)
BY DEF Mirrors, At, Instr

LEMMA ThrowStep ==
  ASSUME TypeOK, Mirrors, ~strayed, mode \in {"op", "native"}, NEW o, Raise(o, ops, native_stack)
  PROVE  Mirrors'
<1>1. /\ Nested(frame_stack, native_stack) /\ native_stack \in NativeStacks
      /\ ops = OpsIn(frame_stack, native_stack, Len(frame_stack), Len(native_stack))
  BY DEF Mirrors, InControl, GoesOn, TypeOK
<1> QED
  BY <1>1, RaiseStep

\* The ops that leave the stacks of frames and activations alone.
LEMMA MirrorsPlainOps ==
  ASSUME TypeOK, Mirrors, ~strayed,
         VALUE \/ ARG \/ OP_NEXTSTATE \/ OP_JUMP \/ JUMP_IF \/ OP_FOR_ITER \/ OP_DIE
  PROVE  Mirrors'
<1> DEFINE n == Len(frame_stack)
           l == Len(native_stack)
           floor == FloorIn(frame_stack, native_stack, n, l)
           s == ScopeAt[ops][pc]
           d == DepthAt[ops][pc]
           i == Code[ops][pc]
<1>r. ASSUME MayThrow, mode = "op" PROVE Mirrors'
  BY <1>r, ThrowStep DEF MayThrow
<1>o. ASSUME NEW op, At(op)
      PROVE  /\ Instr = i /\ i.op = op /\ WellFormedOp(ops, pc) /\ mode = "op"
             /\ pc \in Int /\ height \in Int /\ d \in Nat /\ floor \in Int /\ height >= floor + d
             /\ Nested(frame_stack, native_stack)
             /\ GoesOn(frame_stack, native_stack, n, l, ops, pc, height)
             /\ s # Root => Frames /\ Top = floor
  <2>1. /\ mode = "op" /\ Instr = i /\ i.op = op /\ Nested(frame_stack, native_stack)
        /\ InControl(frame_stack, native_stack, mode, ops, pc, height)
    BY <1>o, AtFacts
  <2> QED
    BY <2>1, OpFacts
<1>g. ASSUME NEW op, At(op), NEW p, NEW h \in Int, GoOn(p, h), UNCHANGED Stacks,
             NEW e \in Int, FlowsTo(ops, p, s, e), h >= floor + e
      PROVE  Mirrors'
  BY <1>g, <1>o, GoOnStep
<1>1. CASE VALUE
  <2>1. At("VALUE")
    BY <1>1 DEF VALUE
  <2>2. i.pop \in 0 .. d /\ i.push \in Nat /\ FlowsTo(ops, pc + 1, s, d - i.pop + i.push)
    BY <1>o, <2>1 DEF WellFormedOp
  <2>3. /\ height - i.pop + i.push \in Int /\ d - i.pop + i.push \in Int
        /\ height - i.pop + i.push >= floor + (d - i.pop + i.push)
    <3> DEFINE x == i.pop
               y == i.push
    <3>1. x \in 0 .. d /\ y \in Nat
      BY <2>2
    <3>2. height \in Int /\ d \in Nat /\ floor \in Int /\ height >= floor + d
      BY <1>o, <2>1
    <3> HIDE DEF x, y, floor, d
    <3>3. height - x + y \in Int /\ d - x + y \in Int /\ height - x + y >= floor + (d - x + y)
      BY <3>1, <3>2
    <3> QED
      BY <3>3 DEF x, y
  <2>4. (GoOn(pc + 1, height - i.pop + i.push) /\ UNCHANGED Stacks) \/ MayThrow
    BY <1>1, <1>o, <2>1 DEF VALUE
  <2> QED
    BY <1>g, <1>o, <1>r, <2>1, <2>2, <2>3, <2>4
<1>2. CASE ARG
  <2>1. At("ARG")
    BY <1>2 DEF ARG
  <2>2. i.push \in {0, 1} /\ FlowsTo(ops, pc + 1, s, d + i.push)
    BY <1>o, <2>1 DEF WellFormedOp
  <2>3. height + i.push \in Int /\ d + i.push \in Int /\ height + i.push >= floor + (d + i.push)
    BY SMTT(40), <1>o, <2>1, <2>2
  <2>4. GoOn(pc + 1, height + i.push) /\ UNCHANGED Stacks
    BY <1>2, <1>o, <2>1 DEF ARG
  <2> QED
    BY <1>g, <2>1, <2>2, <2>3, <2>4
<1>3. CASE OP_NEXTSTATE
  <2>1. At("NEXTSTATE")
    BY <1>3 DEF OP_NEXTSTATE
  <2>2. FlowsTo(ops, pc + 1, s, 0) /\ Top = floor /\ floor \in Int
    BY <1>o, <2>1 DEF WellFormedOp
  <2>3. GoOn(pc + 1, floor) /\ UNCHANGED Stacks
    BY <1>3, <2>2 DEF OP_NEXTSTATE
  <2>4. floor >= floor + 0
    BY <2>2
  <2> QED
    BY <1>g, <2>1, <2>2, <2>3, <2>4
<1>4. CASE OP_JUMP \/ JUMP_IF
  <2>1. PICK op \in {"JUMP", "JUMP_IF"} : At(op)
    BY <1>4 DEF OP_JUMP, JUMP_IF
  <2>2. PICK p \in {i.to, pc + 1} : GoOn(p, height) /\ UNCHANGED Stacks /\ FlowsTo(ops, p, s, d)
    BY <1>4, <1>o, <2>1 DEF OP_JUMP, JUMP_IF, At, WellFormedOp
  <2> QED
    BY <1>g, <1>o, <2>1, <2>2
<1>5. CASE OP_FOR_ITER
  <2>1. At("FOR_ITER")
    BY <1>5 DEF OP_FOR_ITER
  <2>2. FlowsTo(ops, pc + 1, s, 1) /\ Top = floor /\ floor \in Int
    BY <1>o, <2>1 DEF WellFormedOp
  <2>3. (GoOn(pc + 1, floor + 1) /\ UNCHANGED Stacks) \/ MayThrow
    BY <1>5, <2>2 DEF OP_FOR_ITER
  <2>4. floor + 1 \in Int /\ floor + 1 >= floor + 1
    BY <2>2
  <2> QED
    BY <1>g, <1>o, <1>r, <2>1, <2>2, <2>3, <2>4
<1>6. CASE OP_DIE
  BY <1>6, ThrowStep DEF OP_DIE, At
<1> QED
  BY <1>1, <1>2, <1>3, <1>4, <1>5, <1>6

\* The ops that push the frame of a block or of a try.
LEMMA MirrorsEnter ==
  ASSUME TypeOK, Mirrors, ~strayed, ENTER \/ OP_ENTER_FOREACH \/ OP_CLASS_ENTER \/ OP_TRY
  PROVE  Mirrors'
<1> DEFINE n == Len(frame_stack)
           l == Len(native_stack)
           floor == FloorIn(frame_stack, native_stack, n, l)
           s == ScopeAt[ops][pc]
           d == DepthAt[ops][pc]
           i == Code[ops][pc]
<1>o. ASSUME NEW op, At(op)
      PROVE  /\ Instr = i /\ i.op = op /\ WellFormedOp(ops, pc) /\ mode = "op" /\ ops \in OpArrays
             /\ pc \in Int /\ height \in Int /\ d \in Nat /\ floor \in Int /\ height >= floor + d
             /\ Nested(frame_stack, native_stack)
             /\ GoesOn(frame_stack, native_stack, n, l, ops, pc, height)
             /\ ops = OpsIn(frame_stack, native_stack, n, l)
             /\ s = ScopeIn(frame_stack, native_stack, n, l)
  <2>1. /\ mode = "op" /\ Instr = i /\ i.op = op /\ Nested(frame_stack, native_stack)
        /\ InControl(frame_stack, native_stack, mode, ops, pc, height)
    BY <1>o, AtFacts
  <2> QED
    BY <2>1, OpFacts
<1>e. ASSUME NEW op, At(op), NEW f \in FrameRec, PushFrame(f), f.type # "FUNCTION", f.argcnt = 0,
             f.ops = ops, f.lvl = l, UNCHANGED native_stack, NEW c \in Nat, Enters(i, s, c),
             f.scope = i.into, Kind[i.into] = f.type, f.top >= floor + c,
             f.type = "TRY" => GoesOn(frame_stack, native_stack, n, l, ops, f.ret + 1, f.top + 1),
             NEW e \in Int, FlowsTo(ops, pc + 1, i.into, e), NEW h \in Int, GoOn(pc + 1, h), h >= f.top + e
      PROVE  Mirrors'
  <2>1. f.scope # Root /\ Parent[f.scope] = s /\ EntryDepth[f.scope] <= c /\ EntryDepth[f.scope] \in Nat
    BY <1>e, DepthTypes DEF Enters
  <2>2. floor \in Int /\ f.top \in Int
    BY <1>e, <1>o DEF FrameRec
  <2> HIDE DEF floor
  <2>3. f.top >= floor + EntryDepth[f.scope]
    BY <1>e, <2>1, <2>2
  <2>4. mode' = "op" /\ ops' = ops /\ pc' = pc + 1 /\ height' = h
    BY <1>e, <1>o
  <2> QED
    BY <1>e, <1>o, <2>1, <2>3, <2>4, EnterStep DEF floor
<1>b. ASSUME NEW type \in FrameTypes, NEW top \in Int, NEW scope \in Scopes
      PROVE  LET f == BlockFrame(type, top, scope)
             IN  /\ f \in FrameRec /\ f.type = type /\ f.top = top /\ f.argcnt = 0 /\ f.ops = ops
                 /\ f.scope = scope /\ f.lvl = l
  BY BlockFrameType DEF BlockFrame, Frame
<1>1. CASE ENTER
  <2>1. At("ENTER")
    BY <1>1 DEF ENTER
  <2>2. /\ Enters(i, s, d) /\ FlowsTo(ops, pc + 1, i.into, 0) /\ i.into \in Scopes
        /\ Kind[i.into] \in {"LEXICAL", "WHILE", "FOR", "FILE_PACKAGE"}
    BY <1>o, <2>1 DEF WellFormedOp, Enters
  <2>3. Kind[i.into] \in FrameTypes /\ Kind[i.into] \notin {"FUNCTION", "TRY"}
    BY <2>2 DEF FrameTypes, BlockTypes, LoopTypes
  <2> DEFINE f == BlockFrame(Kind[i.into], height, i.into)
  <2>4. /\ f \in FrameRec /\ f.type = Kind[i.into] /\ f.top = height /\ f.argcnt = 0 /\ f.ops = ops
        /\ f.scope = i.into /\ f.lvl = l
    BY <1>b, <1>o, <2>1, <2>2, <2>3
  <2>5. PushFrame(f) /\ GoOn(pc + 1, height) /\ UNCHANGED native_stack
    BY <1>1, <1>o, <2>1 DEF ENTER
  <2> HIDE DEF f
  <2>6. height >= height + 0 /\ height >= floor + d /\ height \in Int /\ d \in Nat
    BY <1>o, <2>1
  <2> QED
    BY <1>e, <2>1, <2>2, <2>3, <2>4, <2>5, <2>6
<1>2. CASE OP_ENTER_FOREACH
  <2>1. At("ENTER_FOREACH")
    BY <1>2 DEF OP_ENTER_FOREACH
  <2>2. /\ Enters(i, s, d - 1) /\ d >= 1 /\ FlowsTo(ops, pc + 1, i.into, 0)
        /\ i.into \in Scopes /\ Kind[i.into] = "FOREACH"
    BY <1>o, <2>1 DEF WellFormedOp, Enters
  <2>3. "FOREACH" \in FrameTypes
    BY DEF FrameTypes, BlockTypes, LoopTypes
  <2> DEFINE f == BlockFrame("FOREACH", height - 1, i.into)
             h == height - 1
             c == d - 1
  <2>4. /\ h >= h + 0 /\ h >= floor + c /\ h \in Int /\ c \in Nat
    <3>1. height \in Int /\ floor \in Int /\ d \in Nat /\ d >= 1 /\ height >= floor + d
      BY <1>o, <2>1, <2>2
    <3> HIDE DEF floor, d
    <3> QED
      BY <3>1
  <2>5. /\ f \in FrameRec /\ f.type = "FOREACH" /\ f.top = h /\ f.argcnt = 0 /\ f.ops = ops
        /\ f.scope = i.into /\ f.lvl = l
    BY <1>b, <2>2, <2>3, <2>4
  <2>6. (PushFrame(f) /\ GoOn(pc + 1, h) /\ UNCHANGED native_stack) \/ MayThrow
    BY <1>2, <1>o, <2>1 DEF OP_ENTER_FOREACH
  <2>7. Enters(i, s, c)
    BY <2>2
  <2> HIDE DEF f, h, c
  <2>8. CASE PushFrame(f) /\ GoOn(pc + 1, h) /\ UNCHANGED native_stack
    BY <1>e, <2>1, <2>2, <2>4, <2>5, <2>7, <2>8
  <2>9. CASE MayThrow
    BY <1>o, <2>1, <2>9, ThrowStep DEF MayThrow
  <2> QED
    BY <2>6, <2>8, <2>9
<1>3. CASE OP_CLASS_ENTER
  <2>1. At("CLASS_ENTER")
    BY <1>3 DEF OP_CLASS_ENTER
  <2>2. /\ Enters(i, s, d) /\ FlowsTo(ops, pc + 1, i.into, 1)
        /\ i.into \in Scopes /\ Kind[i.into] = "CLASS"
    BY <1>o, <2>1 DEF WellFormedOp, Enters
  <2>3. "CLASS" \in FrameTypes
    BY DEF FrameTypes
  <2> DEFINE f == BlockFrame("CLASS", height, i.into)
  <2>4. /\ f \in FrameRec /\ f.type = "CLASS" /\ f.top = height /\ f.argcnt = 0 /\ f.ops = ops
        /\ f.scope = i.into /\ f.lvl = l
    BY <1>b, <1>o, <2>1, <2>2, <2>3
  <2>5. PushFrame(f) /\ GoOn(pc + 1, height + 1) /\ UNCHANGED native_stack
    BY <1>3, <1>o, <2>1 DEF OP_CLASS_ENTER
  <2> HIDE DEF f
  <2>6. height + 1 >= height + 1 /\ height >= floor + d /\ height + 1 \in Int /\ d \in Nat
    BY <1>o, <2>1
  <2> QED
    BY <1>e, <2>1, <2>2, <2>4, <2>5, <2>6
<1>4. CASE OP_TRY
  <2>1. At("TRY")
    BY <1>4 DEF OP_TRY
  <2>2. /\ Enters(i, s, d) /\ FlowsTo(ops, pc + 1, i.into, 0) /\ i.into \in Scopes \ {Root}
        /\ Kind[i.into] = "TRY" /\ FlowsTo(ops, i.to, s, EntryDepth[i.into] + 1)
        /\ EntryDepth[i.into] <= d /\ EntryDepth[i.into] \in Nat
    BY <1>o, <2>1, DepthTypes DEF WellFormedOp, Enters
  <2> DEFINE f == Frame("TRY", height, i.to - 1, End, 0, i.into, ops, l, Len(mark_stack) + 1)
  <2>3. i.to \in Int /\ i.to - 1 \in Int /\ i.to - 1 + 1 = i.to
    <3>1. i.to \in Nat
      BY <1>o, <2>1, <2>2, ArraysAssumption DEF FlowsTo
    <3> QED
      BY <3>1
  <2>4. /\ f \in FrameRec /\ f.type = "TRY" /\ f.top = height /\ f.argcnt = 0 /\ f.ops = ops
        /\ f.scope = i.into /\ f.lvl = l /\ f.ret = i.to - 1
    <3>1. /\ "TRY" \in FrameTypes /\ End \in OpArrays /\ l \in Nat /\ Len(mark_stack) + 1 \in Nat
          /\ 0 \in Int
      BY FrameStackType DEF FrameTypes, ActTypes, OpArrays
    <3>2. f \in FrameRec
      BY <1>o, <2>1, <2>2, <2>3, <3>1, FrameType
    <3> QED
      BY <3>2 DEF Frame
  <2>5. PushFrame(f) /\ GoOn(pc + 1, height) /\ UNCHANGED native_stack
    BY <1>4, <1>o, <2>1 DEF OP_TRY
  <2> HIDE DEF f
  <2>6. height >= height + 0 /\ height >= floor + d /\ height \in Int /\ d \in Nat
    BY <1>o, <2>1
  <2>7. GoesOn(frame_stack, native_stack, n, l, ops, f.ret + 1, f.top + 1)
    <3>1. height + 1 >= floor + (EntryDepth[i.into] + 1) /\ height + 1 \in Int
          /\ EntryDepth[i.into] + 1 \in Int
      BY SMTT(40), <1>o, <2>1, <2>2
    <3>2. frame_stack \in Seq(FrameRec) /\ native_stack \in NativeStacks
      BY DEF TypeOK
    <3>3. GoesOn(frame_stack, native_stack, n, l, ops, i.to, height + 1)
      BY SMTT(40), <1>o, <2>1, <2>2, <2>3, <3>1, <3>2, Flows
    <3> QED
      BY <2>3, <2>4, <3>3
  <2> QED
    BY <1>e, <2>1, <2>2, <2>4, <2>5, <2>6, <2>7
<1> QED
  BY <1>1, <1>2, <1>3, <1>4

LEMMA FloorType ==
  ASSUME NEW fs \in Seq(FrameRec), NEW ns \in NativeStacks, NEW k \in 0 .. Len(fs), NEW l \in 1 .. Len(ns)
  PROVE  FloorIn(fs, ns, k, l) \in Int
<1>1. ns[l].frames \in Nat /\ ns[l].height \in Int /\ Len(fs) \in Nat
  BY StackTypes
<1>2. CASE k > ns[l].frames
  <2>1. k \in 1 .. Len(fs)
    BY <1>1, <1>2
  <2> QED
    BY <1>2, <2>1, StackTypes DEF FloorIn
<1> QED
  BY <1>1, <1>2 DEF FloorIn

\* A block ends where the one around it goes on, with what lay below its frame.
LEMMA LeaveFlows ==
  ASSUME NEW fs \in Seq(FrameRec), NEW ns \in NativeStacks, Nested(fs, ns),
         NEW k \in 1 .. Len(fs), k > ns[Len(ns)].frames, fs[k].type # "FUNCTION",
         NEW d \in Nat, NEW q, FlowsTo(fs[k].ops, q, Parent[fs[k].scope], EntryDepth[fs[k].scope] + d),
         NEW h \in Int, h >= fs[k].top + d
  PROVE  GoesOn(fs, ns, k - 1, Len(ns), fs[k].ops, q, h)
<1> DEFINE s == fs[k].scope
           floor == FloorIn(fs, ns, k - 1, Len(ns))
           depth == EntryDepth[s]
           top == fs[k].top
           e == DepthAt[fs[k].ops][q]
<1>1. FrameFits(fs, ns, k) /\ fs[k].lvl = Len(ns)
  BY OwnFrame
<1>2. Parent[s] = ScopeIn(fs, ns, k - 1, Len(ns)) /\ fs[k].ops = OpsIn(fs, ns, k - 1, Len(ns))
  BY <1>1 DEF FrameFits
<1>3. top >= floor + depth /\ depth \in Nat /\ top \in Int /\ floor \in Int
  <2>1. fs[k].scope \in Scopes \ {Root} /\ top \in Int
    BY <1>1, StackTypes DEF FrameFits
  <2>2. k - 1 \in 0 .. Len(fs) /\ Len(ns) \in 1 .. Len(ns)
    BY FloorHighest, StackTypes
  <2> QED
    BY <1>1, <2>1, <2>2, DepthTypes, FloorType DEF FrameFits
<1>4. e \in Nat /\ e <= depth + d /\ q \in DOMAIN Code[fs[k].ops] /\ ScopeAt[fs[k].ops][q] = Parent[s]
  <2>1. fs[k].ops \in OpArrays
    BY StackTypes
  <2> QED
    BY <2>1, DepthTypes DEF FlowsTo
<1>5. h >= top + d
  OBVIOUS
<1>6. h >= floor + e
  <2> HIDE DEF floor, depth, top, e
  <2> QED
    BY <1>3, <1>4, <1>5
<1> QED
  BY <1>2, <1>4, <1>6 DEF GoesOn

\* The chain of scopes that leads to the loop of s has its frames on top.
LEMMA LoopFrame ==
  ASSUME NEW fs \in Seq(FrameRec), NEW ns \in NativeStacks, Nested(fs, ns),
         Len(fs) > ns[Len(ns)].frames, NEW s, s = fs[Len(fs)].scope, s \in DOMAIN LoopOf
  PROVE  \E k \in 1 .. Len(fs) :
           /\ k > ns[Len(ns)].frames /\ fs[k].scope = LoopOf[s] /\ fs[k].type \in LoopTypes
           /\ \A j \in k + 1 .. Len(fs) : fs[j].type \notin LoopTypes \cup ActTypes
<1> DEFINE n == Len(fs)
           b == ns[Len(ns)].frames
           T == {j \in b + 1 .. n :
                   /\ fs[j].scope \in DOMAIN LoopOf /\ LoopOf[fs[j].scope] = LoopOf[s]
                   /\ \A m \in j + 1 .. n : fs[m].type \notin LoopTypes \cup ActTypes}
<1>1. n \in Nat /\ Len(ns) \in 1 .. Len(ns) /\ b \in 1 .. n /\ b \in Nat /\ n > b
  BY StackTypes, FloorHighest, NestedFacts
<1>2. n \in T
  BY <1>1
<1>3. PICK k \in T : \A j \in T : k <= j
  <2>1. T \in SUBSET Nat /\ T # {}
    <3>1. \A j \in b + 1 .. n : j \in Nat
      BY <1>1
    <3>2. \A j \in T : j \in b + 1 .. n
      OBVIOUS
    <3> HIDE DEF T
    <3> QED
      BY <1>2, <3>1, <3>2
  <2> HIDE DEF T
  <2> QED
    BY <2>1, LeastNat
<1>4. k \in 1 .. n /\ k > b /\ k - 1 \notin T /\ k \in Nat
  BY <1>1, <1>3
<1>5. FrameFits(fs, ns, k) /\ fs[k].lvl = Len(ns) /\ fs[k].type = Kind[fs[k].scope]
  BY <1>4, OwnFrame DEF FrameFits
<1>6. /\ Kind[fs[k].scope] \notin ActTypes
      /\ IF Kind[fs[k].scope] \in LoopTypes
         THEN LoopOf[fs[k].scope] = fs[k].scope
         ELSE /\ Parent[fs[k].scope] \in DOMAIN LoopOf
              /\ LoopOf[fs[k].scope] = LoopOf[Parent[fs[k].scope]]
  BY <1>3, ScopesAssumption DEF WellNested
<1>7. Kind[fs[k].scope] \in LoopTypes
  <2> SUFFICES ASSUME Kind[fs[k].scope] \notin LoopTypes PROVE FALSE
    OBVIOUS
  <2>1. Parent[fs[k].scope] \in DOMAIN LoopOf /\ Parent[fs[k].scope] # Root
    BY <1>6, ScopesAssumption DEF WellNested
  <2>2. Parent[fs[k].scope] = ScopeIn(fs, ns, k - 1, Len(ns))
    BY <1>5, <1>6 DEF FrameFits, ActTypes
  <2>3. k - 1 > b /\ fs[k - 1].scope = Parent[fs[k].scope]
    BY <2>1, <2>2 DEF ScopeIn
  <2>4. fs[k].type \notin LoopTypes \cup ActTypes
    BY <1>5, <1>6
  <2>5. \A m \in k - 1 + 1 .. n : m = k \/ m \in k + 1 .. n
    BY <1>1, <1>4
  <2>6. \A m \in k - 1 + 1 .. n : fs[m].type \notin LoopTypes \cup ActTypes
    BY <1>3, <2>4, <2>5
  <2>7. k - 1 \in b + 1 .. n
    BY <1>1, <1>4, <2>3
  <2>8. LoopOf[fs[k - 1].scope] = LoopOf[s]
    BY <1>3, <1>6, <2>3
  <2> QED
    BY <1>4, <2>1, <2>3, <2>6, <2>7, <2>8
<1> QED
  BY <1>3, <1>4, <1>5, <1>6, <1>7

\* The chain that leads to the function or try around s has its frames on top.
LEMMA ActFrame ==
  ASSUME NEW fs \in Seq(FrameRec), NEW ns \in NativeStacks, Nested(fs, ns),
         Len(fs) > ns[Len(ns)].frames, fs[Len(fs)].scope \in ReturnScopes
  PROVE  \E k \in 1 .. Len(fs) :
           /\ k > ns[Len(ns)].frames /\ fs[k].type \in ActTypes
           /\ \A j \in k + 1 .. Len(fs) : fs[j].type \notin ActTypes
<1> DEFINE n == Len(fs)
           b == ns[Len(ns)].frames
           T == {j \in b + 1 .. n :
                   /\ fs[j].scope \in ReturnScopes
                   /\ \A m \in j + 1 .. n : fs[m].type \notin ActTypes}
<1>1. n \in Nat /\ Len(ns) \in 1 .. Len(ns) /\ b \in 1 .. n /\ b \in Nat /\ n > b
  BY StackTypes, FloorHighest, NestedFacts
<1>2. n \in T
  BY <1>1
<1>3. PICK k \in T : \A j \in T : k <= j
  <2>1. T \in SUBSET Nat /\ T # {}
    BY <1>1, <1>2
  <2> HIDE DEF T
  <2> QED
    BY <2>1, LeastNat
<1>4. k \in 1 .. n /\ k > b /\ k - 1 \notin T /\ k \in Nat
  BY <1>1, <1>3
<1>5. FrameFits(fs, ns, k) /\ fs[k].lvl = Len(ns) /\ fs[k].type = Kind[fs[k].scope]
  BY <1>4, OwnFrame DEF FrameFits
<1>6. Kind[fs[k].scope] \in ActTypes \/ Parent[fs[k].scope] \in ReturnScopes
  BY <1>3, ScopesAssumption DEF WellNested
<1>7. Kind[fs[k].scope] \in ActTypes
  <2> SUFFICES ASSUME Kind[fs[k].scope] \notin ActTypes PROVE FALSE
    OBVIOUS
  <2>1. Parent[fs[k].scope] \in ReturnScopes /\ Parent[fs[k].scope] # Root
    BY <1>6, ScopesAssumption DEF WellNested
  <2>2. Parent[fs[k].scope] = ScopeIn(fs, ns, k - 1, Len(ns))
    BY <1>5 DEF FrameFits, ActTypes
  <2>3. k - 1 > b /\ fs[k - 1].scope = Parent[fs[k].scope]
    BY <2>1, <2>2 DEF ScopeIn
  <2>4. \A m \in k - 1 + 1 .. n : m = k \/ m \in k + 1 .. n
    BY <1>1, <1>4
  <2>5. \A m \in k - 1 + 1 .. n : fs[m].type \notin ActTypes
    BY <1>3, <1>5, <2>4
  <2>6. k - 1 \in b + 1 .. n
    BY <1>1, <1>4, <2>3
  <2> QED
    BY <1>4, <2>1, <2>3, <2>5, <2>6
<1> QED
  BY <1>3, <1>4, <1>5, <1>7

\* Only one frame of the given types is the innermost.
LEMMA OneInnermost ==
  ASSUME TypeOK, NEW types, NEW k \in 1 .. Len(frame_stack), frame_stack[k].type \in types,
         \A j \in k + 1 .. Len(frame_stack) : frame_stack[j].type \notin types,
         NEW t, IsInnermost(t, types)
  PROVE  t = k
BY FrameStackType DEF IsInnermost

\* The ops that leave a block, a loop, a function or a try.
LEMMA MirrorsLeave ==
  ASSUME TypeOK, Mirrors, ~strayed, OP_LEAVE \/ OP_CLASS_LEAVE \/ OP_LAST \/ OP_RETURN
  PROVE  Mirrors'
<1> DEFINE fs == frame_stack
           ns == native_stack
           n == Len(frame_stack)
           l == Len(native_stack)
           s == ScopeAt[ops][pc]
           d == DepthAt[ops][pc]
           i == Code[ops][pc]
<1>o. ASSUME NEW op, At(op), s # Root
      PROVE  /\ Instr = i /\ i.op = op /\ WellFormedOp(ops, pc) /\ mode = "op"
             /\ pc \in Int /\ height \in Int /\ d \in Nat /\ height >= fs[n].top + d
             /\ fs \in Seq(FrameRec) /\ ns \in NativeStacks /\ Nested(fs, ns)
             /\ n \in 1 .. n /\ n > ns[l].frames /\ fs[n].top \in Int
             /\ fs[n].scope = s /\ fs[n].ops = ops /\ fs[n].type = Kind[s]
             /\ Top = fs[n].top /\ Front(fs) = FramesBelow(n)
  <2>1. /\ mode = "op" /\ Instr = i /\ i.op = op /\ Nested(fs, ns)
        /\ InControl(fs, ns, mode, ops, pc, height)
    BY <1>o, AtFacts
  <2> QED
    BY <1>o, <2>1, OpFacts, StackTypes
<1>l. ASSUME NEW op, At(op), s # Root, NEW k \in 1 .. n, k > ns[l].frames, fs[k].type # "FUNCTION",
             fs[k].ops = ops, frame_stack' = FramesBelow(k), UNCHANGED native_stack,
             NEW q, NEW h \in Int, GoOn(q, h), NEW c \in Nat, h >= fs[k].top + c,
             FlowsTo(ops, q, Parent[fs[k].scope], EntryDepth[fs[k].scope] + c)
      PROVE  Mirrors'
  <2>1. fs \in Seq(FrameRec) /\ ns \in NativeStacks /\ Nested(fs, ns) /\ mode = "op"
    BY <1>l, <1>o
  <2>2. GoesOn(fs, ns, k - 1, l, ops, q, h)
    BY <1>l, <2>1, LeaveFlows
  <2>3. mode' = "op" /\ ops' = ops /\ pc' = q /\ height' = h
    BY <1>l, <2>1
  <2> QED
    BY <1>l, <2>1, <2>2, <2>3, UnwindStep
<1>1. CASE OP_LEAVE
  <2>1. At("LEAVE")
    BY <1>1 DEF OP_LEAVE
  <2>2. s # Root /\ Kind[s] \in BlockTypes /\ FlowsTo(ops, pc + 1, Parent[s], EntryDepth[s])
    <3>1. WellFormedOp(ops, pc) /\ i.op = "LEAVE"
      BY <2>1, AtFacts, OpFacts
    <3> QED
      BY <3>1 DEF WellFormedOp
  <2>3. frame_stack' = FramesBelow(n) /\ GoOn(pc + 1, fs[n].top) /\ UNCHANGED native_stack
    BY <1>1, <1>o, <2>1, <2>2 DEF OP_LEAVE
  <2>4. Kind[s] # "FUNCTION"
    BY <2>2 DEF BlockTypes, LoopTypes
  <2>5. fs[n].top >= fs[n].top + 0 /\ EntryDepth[s] + 0 = EntryDepth[s] /\ 0 \in Nat
    <3>1. s \in Scopes \ {Root}
      BY <1>o, <2>1, <2>2, OpTypes DEF At
    <3> QED
      BY <1>o, <2>1, <2>2, <3>1, DepthTypes
  <2> QED
    BY <1>l, <1>o, <2>1, <2>2, <2>3, <2>4, <2>5
<1>2. CASE OP_CLASS_LEAVE
  <2>1. At("CLASS_LEAVE")
    BY <1>2 DEF OP_CLASS_LEAVE
  <2>2. s # Root /\ Kind[s] = "CLASS" /\ FlowsTo(ops, pc + 1, Parent[s], EntryDepth[s] + d)
    <3>1. WellFormedOp(ops, pc) /\ i.op = "CLASS_LEAVE"
      BY <2>1, AtFacts, OpFacts
    <3> QED
      BY <3>1 DEF WellFormedOp
  <2>3. frame_stack' = FramesBelow(n) /\ GoOn(pc + 1, height) /\ UNCHANGED native_stack
    BY <1>2, <1>o, <2>1, <2>2 DEF OP_CLASS_LEAVE
  <2> QED
    BY <1>l, <1>o, <2>1, <2>2, <2>3
<1>3. CASE OP_LAST
  <2>1. At("LAST")
    BY <1>3 DEF OP_LAST
  <2>2. /\ s \in DOMAIN LoopOf
        /\ FlowsTo(ops, i.to + 1, Parent[LoopOf[s]], EntryDepth[LoopOf[s]])
    <3>1. WellFormedOp(ops, pc) /\ i.op = "LAST"
      BY <2>1, AtFacts, OpFacts
    <3> QED
      BY <3>1 DEF WellFormedOp
  <2>3. s # Root
    BY <2>2, ScopesAssumption DEF WellNested
  <2>4. PICK k \in 1 .. n :
          /\ k > ns[l].frames /\ fs[k].scope = LoopOf[s] /\ fs[k].type \in LoopTypes
          /\ \A j \in k + 1 .. n : fs[j].type \notin LoopTypes \cup ActTypes
    <3>1. /\ fs \in Seq(FrameRec) /\ ns \in NativeStacks /\ Nested(fs, ns)
          /\ n > ns[l].frames /\ s = fs[n].scope
      BY <1>o, <2>1, <2>3
    <3> HIDE DEF s
    <3> QED
      BY <2>2, <3>1, LoopFrame
  <2>5. PICK t \in DOMAIN fs :
          /\ IsInnermost(t, LoopTypes \cup ActTypes) /\ frame_stack' = FramesBelow(t)
          /\ GoOn(i.to + 1, fs[t].top)
    BY <1>3 DEF OP_LAST, Instr
  <2>6. t = k
    BY <2>4, <2>5, OneInnermost
  <2>7. fs[k].ops = ops
    <3>1. n \in k .. n /\ \A j \in k + 1 .. n : fs[j].type # "FUNCTION"
      BY <1>o, <2>1, <2>3, <2>4 DEF ActTypes
    <3> QED
      BY <1>o, <2>1, <2>3, <2>4, <3>1, SameOps
  <2>8. fs[k].type # "FUNCTION" /\ fs[k].top \in Int /\ fs[k].scope \in Scopes \ {Root}
    <3>1. fs[k].type # "FUNCTION"
      BY <2>4 DEF LoopTypes
    <3>2. FrameFits(fs, ns, k)
      BY <1>o, <2>1, <2>3, <2>4, OwnFrame
    <3> QED
      BY <1>o, <2>1, <2>3, <2>4, <3>1, <3>2, StackTypes DEF FrameFits
  <2>9. fs[k].top >= fs[k].top + 0 /\ EntryDepth[fs[k].scope] + 0 = EntryDepth[fs[k].scope] /\ 0 \in Nat
    BY <2>8, DepthTypes
  <2>10. UNCHANGED native_stack
    BY <1>3 DEF OP_LAST
  <2> QED
    BY <1>l, <2>1, <2>2, <2>3, <2>4, <2>5, <2>6, <2>7, <2>8, <2>9, <2>10
<1>4. CASE OP_RETURN
  <2>1. At("RETURN")
    BY <1>4 DEF OP_RETURN
  <2>2. s \in ReturnScopes
    <3>1. WellFormedOp(ops, pc) /\ i.op = "RETURN"
      BY <2>1, AtFacts, OpFacts
    <3> QED
      BY <3>1 DEF WellFormedOp
  <2>3. s # Root
    BY <2>2, ScopesAssumption DEF WellNested
  <2>o. /\ fs \in Seq(FrameRec) /\ ns \in NativeStacks /\ Nested(fs, ns) /\ mode = "op"
        /\ n \in 1 .. n /\ n > ns[l].frames /\ fs[n].scope = s /\ fs[n].ops = ops
    BY <1>o, <2>1, <2>3
  <2>4. PICK k \in 1 .. n :
          /\ k > ns[l].frames /\ fs[k].type \in ActTypes
          /\ \A j \in k + 1 .. n : fs[j].type \notin ActTypes
    BY <2>2, <2>o, ActFrame
  <2>5. PICK t \in DOMAIN fs :
          /\ IsInnermost(t, ActTypes) /\ frame_stack' = FramesBelow(t) /\ pc' = fs[t].ret + 1
          /\ IF fs[t].type = "FUNCTION"
             THEN ops' = fs[t].orig /\ height' = fs[t].top - fs[t].argcnt + 1
             ELSE ops' = ops /\ height' = fs[t].top + 1
    BY <1>4 DEF OP_RETURN
  <2>6. t = k
    BY <2>4, <2>5, OneInnermost
  <2>7. FrameFits(fs, ns, k) /\ fs[k].lvl = l
    BY <2>4, <2>o, OwnFrame
  <2>8. GoesOn(fs, ns, k - 1, l, ops', pc', height')
    <3>1. CASE fs[k].type = "FUNCTION"
      BY <2>5, <2>6, <2>7, <3>1 DEF FrameFits
    <3>2. CASE fs[k].type = "TRY"
      <4>1. n \in k .. n /\ \A j \in k + 1 .. n : fs[j].type # "FUNCTION"
        BY <2>4, <2>o DEF ActTypes
      <4>2. fs[k].ops = ops
        BY <2>4, <2>o, <4>1, SameOps
      <4> QED
        BY <2>5, <2>6, <2>7, <3>2, <4>2 DEF FrameFits
    <3> QED
      BY <2>4, <3>1, <3>2 DEF ActTypes
  <2>9. UNCHANGED native_stack /\ mode' = "op"
    BY <1>4, <2>o DEF OP_RETURN
  <2> QED
    BY <2>4, <2>5, <2>6, <2>8, <2>9, <2>o, UnwindStep
<1> QED
  BY <1>1, <1>2, <1>3, <1>4

\* Calls: the caller goes on below the arguments, with the result.
LEMMA MirrorsCalls ==
  ASSUME TypeOK, Mirrors, ~strayed, OP_FUNCALL \/ OP_METHOD_CALL \/ CODE_CALL
  PROVE  Mirrors'
<1> DEFINE fs == frame_stack
           ns == native_stack
           n == Len(frame_stack)
           l == Len(native_stack)
           floor == FloorIn(fs, ns, n, l)
           s == ScopeAt[ops][pc]
           d == DepthAt[ops][pc]
           i == Code[ops][pc]
<1>o. ASSUME NEW op, At(op)
      PROVE  /\ Instr = i /\ i.op = op /\ WellFormedOp(ops, pc) /\ mode = "op" /\ ops \in OpArrays
             /\ pc \in Int /\ height \in Int /\ d \in Nat /\ floor \in Int /\ height >= floor + d
             /\ fs \in Seq(FrameRec) /\ ns \in NativeStacks /\ Nested(fs, ns)
             /\ GoesOn(fs, ns, n, l, ops, pc, height)
  <2>1. /\ mode = "op" /\ Instr = i /\ i.op = op /\ Nested(fs, ns)
        /\ InControl(fs, ns, mode, ops, pc, height)
    BY <1>o, AtFacts
  <2> QED
    BY <2>1, OpFacts
<1>r. ASSUME mode = "op", NEW o, Raise(o, ops, ns) PROVE Mirrors'
  BY <1>r, ThrowStep
<1>1. CASE OP_FUNCALL
  <2>1. At("FUNCALL")
    BY <1>1 DEF OP_FUNCALL
  <2>2. /\ i.fns \subseteq Functions /\ i.pop \in 0 .. d - 1 /\ i.counts \subseteq Nat
        /\ FlowsTo(ops, pc + 1, s, d - i.pop)
    BY <1>o, <2>1 DEF WellFormedOp
  <2>3. ASSUME NEW f \in i.fns, NEW c \in i.counts,
               PassArgs(f, c, height - 1 - i.pop + c, pc, ops, ns)
        PROVE  Mirrors'
    <3> DEFINE pop == i.pop
               h == height - 1 - pop + c
               e == d - pop
               back == h - c + 1
    <3>1. /\ pop \in 0 .. d - 1 /\ c \in Nat /\ f \in Functions /\ d \in Nat /\ height \in Int
          /\ floor \in Int /\ height >= floor + d
      BY <1>o, <2>1, <2>2, <2>3
    <3>2. FlowsTo(ops, pc + 1, s, e) /\ PassArgs(f, c, h, pc, ops, ns)
      BY <2>2, <2>3
    <3> HIDE DEF pop, floor, d
    <3>3. h \in Int /\ h - c >= floor /\ back \in Int /\ e \in Int /\ back >= floor + e
      BY <3>1
    <3> HIDE DEF h, e
    <3>4. GoesOn(fs, ns, n, l, ops, pc + 1, back)
      BY <1>o, <2>1, <3>2, <3>3, Flows DEF floor
    <3> QED
      BY <1>o, <2>1, <3>1, <3>2, <3>3, <3>4, PassArgsStep DEF floor
  <2> QED
    BY <1>1, <1>o, <1>r, <2>1, <2>3 DEF OP_FUNCALL, MayThrow
<1>2. CASE OP_METHOD_CALL \/ CODE_CALL
  <2>1. PICK op \in {"METHOD_CALL", "CODE_CALL"} : At(op)
    BY <1>2 DEF OP_METHOD_CALL, CODE_CALL
  <2>2. i.fns \subseteq Functions /\ i.pop \in 0 .. d - 2 /\ FlowsTo(ops, pc + 1, s, d - i.pop - 1)
    BY <1>o, <2>1 DEF WellFormedOp
  <2>3. ASSUME NEW f \in i.fns, Activate(f, i.pop, height - 2, pc, ops, ns),
               height' \in {height - 2, height - 1}
        PROVE  Mirrors'
    <3> DEFINE pop == i.pop
               h == height - 2
               e == d - pop - 1
               back == h - pop + 1
    <3>1. /\ pop \in 0 .. d - 2 /\ f \in Functions /\ d \in Nat /\ height \in Int
          /\ floor \in Int /\ height >= floor + d
      BY <1>o, <2>1, <2>2
    <3>2. FlowsTo(ops, pc + 1, s, e) /\ Activate(f, pop, h, pc, ops, ns)
      BY <2>2, <2>3
    <3> HIDE DEF pop, floor, d
    <3>3. /\ h \in Int /\ h - pop >= floor /\ back \in Int /\ e \in Int /\ back >= floor + e
          /\ pop \in Nat /\ height' \in Int /\ height' >= h
      BY <2>3, <3>1
    <3> HIDE DEF h, e
    <3>4. GoesOn(fs, ns, n, l, ops, pc + 1, back)
      BY SMTT(40), <1>o, <2>1, <3>2, <3>3, Flows DEF floor
    <3> QED
      BY <1>o, <2>1, <3>1, <3>2, <3>3, <3>4, ActivateStep DEF floor
  <2>4. ASSUME NEW f \in i.fns, Raise(f, ops, ns) PROVE Mirrors'
    BY <1>o, <1>r, <2>1, <2>4
  <2> QED
    BY <1>2, <1>o, <1>r, <2>1, <2>3, <2>4 DEF OP_METHOD_CALL, CODE_CALL, MayThrow
<1> QED
  BY <1>1, <1>2

\* Native functions, and what they run.
LEMMA MirrorsNative ==
  ASSUME TypeOK, Mirrors, ~strayed,
         NATIVE \/ function_call_ex \/ eval \/ NativeReturn \/ NativeThrow
  PROVE  Mirrors'
<1> DEFINE fs == frame_stack
           ns == native_stack
           n == Len(frame_stack)
           l == Len(native_stack)
           floor == FloorIn(fs, ns, n, l)
           s == ScopeAt[ops][pc]
           d == DepthAt[ops][pc]
           i == Code[ops][pc]
           taken == height + i.pop
<1>1. /\ fs \in Seq(FrameRec) /\ ns \in NativeStacks /\ Nested(fs, ns) /\ floor \in Int
      /\ ops \in OpArrays /\ pc \in Int /\ height \in Int /\ Instr = i /\ n \in Nat /\ l \in Nat
  <2>1. Nested(fs, ns)
    BY DEF Mirrors
  <2> QED
    BY <2>1, FloorHighest, StackTypes DEF TypeOK, Instr
<1>2. ASSUME IsNative(ops, pc)
      PROVE  /\ i.pop \in 0 .. d /\ d \in Nat /\ FlowsTo(ops, pc + 1, s, d - i.pop + 1)
             /\ i.callbacks \subseteq Functions /\ i.files \subseteq Files /\ i.cbargs \in Nat
  <2>1. WellFormedOp(ops, pc) /\ i.op = "NATIVE" /\ d \in Nat
    BY <1>2, OpTypes DEF IsNative
  <2> QED
    BY <2>1 DEF WellFormedOp
\* while it runs
<1>3. ASSUME mode = "native"
      PROVE  IsNative(ops, pc) /\ GoesOn(fs, ns, n, l, ops, pc, taken) /\ height >= floor
  <2>1. IsNative(ops, pc) /\ GoesOn(fs, ns, n, l, ops, pc, taken)
    BY <1>3 DEF Mirrors, InControl
  <2>2. taken >= floor + d
    BY <2>1 DEF GoesOn
  <2>3. i.pop \in 0 .. d /\ d \in Nat
    BY <1>2, <2>1
  <2> DEFINE pop == i.pop
  <2>4. pop \in 0 .. d /\ height + pop >= floor + d
    BY <2>2, <2>3
  <2> HIDE DEF pop, floor, d
  <2>5. height >= floor
    BY <1>1, <2>3, <2>4
  <2> QED
    BY <2>1, <2>5
\* once it has returned, from h operands with its arguments
<1>4. ASSUME NEW h \in Int, GoesOn(fs, ns, n, l, ops, pc, h), IsNative(ops, pc),
             GoOn(pc + 1, h - i.pop + 1) \/ (pc' = pc + 1 /\ height' = h - i.pop + 1 /\ ops' = ops),
             mode' = "op", UNCHANGED << frame_stack, native_stack >>
      PROVE  Mirrors'
  <2> DEFINE pop == i.pop
             e == d - pop + 1
             back == h - pop + 1
  <2>1. pop \in 0 .. d /\ d \in Nat /\ FlowsTo(ops, pc + 1, s, e) /\ h >= floor + d
    BY <1>2, <1>4 DEF GoesOn
  <2>2. ops' = ops /\ pc' = pc + 1 /\ height' = back
    BY <1>4
  <2> HIDE DEF pop, floor, d
  <2>3. e \in Int /\ back \in Int /\ back >= floor + e
    BY <1>1, <1>4, <2>1
  <2> HIDE DEF e, back
  <2> QED
    BY <1>1, <1>4, <2>1, <2>2, <2>3, GoOnStep DEF floor
<1>5. CASE NATIVE
  <2>1. At("NATIVE")
    BY <1>5 DEF NATIVE
  <2>2. GoesOn(fs, ns, n, l, ops, pc, height) /\ mode = "op" /\ IsNative(ops, pc)
    BY <2>1, AtFacts, OpFacts DEF IsNative
  <2>3. CASE GoOn(pc + 1, height - i.pop + 1) /\ UNCHANGED Stacks
    BY <1>1, <1>4, <2>2, <2>3
  <2>4. CASE mode' = "native" /\ height' = height - i.pop /\ UNCHANGED << pc, ops, Stacks >>
    <3>1. height - i.pop + i.pop = height
      BY <1>1, <1>2, <2>2
    <3> QED
      BY <1>1, <2>2, <2>4, <3>1 DEF Mirrors, InControl
  <2>5. CASE MayThrow
    BY <2>2, <2>5, ThrowStep DEF MayThrow
  <2> QED
    BY <1>1, <1>5, <2>3, <2>4, <2>5 DEF NATIVE
<1>6. CASE function_call_ex
  <2> DEFINE e == Native("ex", pc, ops, n, height, End, 0)
             ms == Append(ns, e)
  <2>1. mode = "native"
    BY <1>6 DEF function_call_ex
  <2>2. PICK f \in i.callbacks :
          /\ Activate(f, i.cbargs, height + i.cbargs, -1, End, ms) /\ height' = height + i.cbargs
    BY <1>1, <1>6 DEF function_call_ex
  <2>3. /\ e.kind = "ex" /\ e.pc = pc /\ e.ops = ops /\ e.frames = n
        /\ e.height = height /\ e.run = End
    BY DEF Native
  <2>4. IsNative(ops, pc) /\ f \in Functions /\ i.cbargs \in Nat /\ End \in OpArrays
    BY <1>2, <1>3, <2>1, <2>2 DEF OpArrays
  <2>5. ms \in NativeStacks
    BY <1>1, <2>4, NativeType
  <2>6. e \in NativeRec
    BY <1>1, <2>4 DEF Native, NativeRec
  <2>7. Len(ms) = l + 1 /\ ms[l + 1] = e
    BY <1>1, <2>6, AppendFacts DEF NativeStacks
  <2> HIDE DEF e
  <2>8. Starts(fs, ns, e)
    BY <1>3, <2>1, <2>3 DEF Starts
  <2>9. Nested(fs, ms)
    BY <1>1, <2>5, <2>6, <2>8, StartsNested
  <2> HIDE DEF ms
  <2>10. /\ FloorIn(fs, ms, n, l + 1) = height /\ OpsIn(fs, ms, n, l + 1) = End
         /\ ScopeIn(fs, ms, n, l + 1) = Root
    BY <1>1, <2>3, <2>7 DEF FloorIn, OpsIn, ScopeIn
  <2>11. /\ 0 \in DOMAIN Code[End] /\ ScopeAt[End][0] = Root /\ DepthAt[End][0] <= 1
         /\ DepthAt[End][0] \in Nat
    BY <2>4, FunctionsAssumption, DepthTypes DEF FlowsTo
  <2> DEFINE c == i.cbargs
             h == height + c
  <2>12. c \in Nat /\ Activate(f, c, h, -1, End, ms) /\ height' = h
    BY <2>2, <2>4
  <2> HIDE DEF c
  <2>13. h \in Int /\ h - c = height /\ height >= height /\ -1 + 1 = 0 /\ -1 \in Int
    BY <1>1, <2>12
  <2>14. GoesOn(fs, ms, n, l + 1, End, 0, height + 1)
    BY <1>1, <2>10, <2>11 DEF GoesOn
  <2> HIDE DEF h
  <2> QED
    BY <1>1, <2>4, <2>5, <2>7, <2>9, <2>10, <2>12, <2>13, <2>14, ActivateStep
<1>7. CASE eval
  <2>1. mode = "native"
    BY <1>7 DEF eval
  <2>2. PICK f \in i.files :
          /\ native_stack' = Append(ns, Native("eval", pc, ops, n, height, f, 0))
          /\ mode' = "op" /\ ops' = f /\ pc' = 0
    BY <1>1, <1>7 DEF eval
  <2> DEFINE e == Native("eval", pc, ops, n, height, f, 0)
  <2>3. /\ e.kind = "eval" /\ e.pc = pc /\ e.ops = ops /\ e.frames = n
        /\ e.height = height /\ e.run = f
    BY DEF Native
  <2>4. IsNative(ops, pc) /\ f \in Files /\ f \in OpArrays
    BY <1>2, <1>3, <2>1, <2>2 DEF OpArrays
  <2>5. Append(ns, e) \in NativeStacks
    <3>1. "eval" \in {"ex", "eval", "default"} /\ "eval" # "default" /\ 0 \in Int
      OBVIOUS
    <3> QED
      BY <1>1, <2>4, <3>1, NativeType
  <2>6. e \in NativeRec
    BY <1>1, <2>4 DEF Native, NativeRec
  <2>7. native_stack' = Append(ns, e) /\ UNCHANGED << height, frame_stack >>
    BY <1>7, <2>2 DEF eval
  <2> HIDE DEF e
  <2>8. Starts(fs, ns, e)
    BY <1>3, <2>1, <2>3, <2>4 DEF Starts
  <2>9. FlowsTo(f, 0, Root, 0)
    BY <2>4, FunctionsAssumption
  <2> QED
    BY <1>1, <2>2, <2>3, <2>5, <2>6, <2>7, <2>8, <2>9, ExecuteStep
<1>8. CASE NativeReturn
  <2>1. mode = "native" /\ IsNative(ops, pc) /\ GoesOn(fs, ns, n, l, ops, pc, taken)
    BY <1>3, <1>8 DEF NativeReturn
  <2>2. taken \in Int /\ taken - i.pop + 1 = height + 1
    <3> DEFINE pop == i.pop
    <3>1. pop \in Int
      BY <1>2, <2>1
    <3> HIDE DEF pop
    <3>2. height + pop \in Int
      BY <1>1, <3>1
    <3>3. taken = height + pop /\ i.pop = pop /\ height \in Int
      BY <1>1 DEF pop
    <3> HIDE DEF taken, i
    <3>4. taken \in Int
      BY <3>2, <3>3
    <3>5. taken - i.pop + 1 = height + 1
      BY <3>1, <3>3
    <3> QED
      BY <3>4, <3>5
  <2> QED
    BY <1>4, <1>8, <2>1, <2>2 DEF NativeReturn
<1>9. CASE NativeThrow
  BY <1>9, ThrowStep DEF NativeThrow
<1> QED
  BY <1>5, <1>6, <1>7, <1>8, <1>9

\* When an activation other than main()'s ends, its caller has its frames back.
LEMMA EndFacts ==
  ASSUME TypeOK, Mirrors, ~strayed, At("END"), Last(native_stack).kind # "main"
  PROVE  LET fs == frame_stack
             ns == native_stack
             ms == Front(native_stack)
             n == Len(frame_stack)
             l == Len(native_stack)
             e == Last(native_stack)
         IN /\ fs \in Seq(FrameRec) /\ ns \in NativeStacks /\ Nested(fs, ns) /\ height \in Int
            /\ e \in NativeRec /\ n \in Nat /\ l - 1 \in Nat
            /\ ms \in NativeStacks /\ Len(ms) = l - 1 /\ \A j \in 1 .. l - 1 : ms[j] = ns[j]
            /\ e = ns[l] /\ NativeFits(fs, ns, l) /\ e.frames \in 1 .. n /\ e.height \in Int
            /\ \A gs \in Seq(FrameRec) :
                 /\ Len(gs) = e.frames /\ \A k \in 1 .. e.frames : gs[k] = fs[k]
                 => /\ Nested(gs, ms)
                    /\ FloorIn(gs, ms, e.frames, l - 1) = FloorIn(fs, ns, e.frames, l - 1)
                    /\ \A a, p, h : GoesOn(fs, ns, e.frames, l - 1, a, p, h) =>
                         GoesOn(gs, ms, e.frames, l - 1, a, p, h)
            /\ height >= e.height
            /\ e.run \in Functions \cup {End} => n = e.frames /\ height >= e.height + 1
            /\ n > e.frames => fs[n].scope \notin ReturnScopes \cup {Root}
<1> DEFINE fs == frame_stack
           ns == native_stack
           ms == Front(native_stack)
           n == Len(frame_stack)
           l == Len(native_stack)
           e == Last(native_stack)
           s == ScopeAt[ops][pc]
           d == DepthAt[ops][pc]
           floor == FloorIn(fs, ns, n, l)
<1>1. /\ mode = "op" /\ Code[ops][pc].op = "END" /\ Nested(fs, ns)
      /\ InControl(fs, ns, mode, ops, pc, height)
  BY AtFacts
<1>2. /\ fs \in Seq(FrameRec) /\ ns \in NativeStacks /\ n \in Nat /\ n \in 1 .. n /\ l \in Nat /\ l \in 1 .. l
      /\ ops \in OpArrays /\ height \in Int /\ pc \in DOMAIN Code[ops]
      /\ ops = OpsIn(fs, ns, n, l) /\ s = ScopeIn(fs, ns, n, l) /\ ns[l].frames \in 1 .. n
      /\ floor \in Int /\ height >= floor + d /\ d \in Nat /\ WellFormedOp(ops, pc)
  BY <1>1, OpFacts
<1>3. ns \in Seq(NativeRec) /\ ns # << >> /\ \A j \in DOMAIN ns : ns[j].kind = "main" <=> j = 1
  BY <1>2 DEF NativeStacks
<1>4. /\ ms \in NativeStacks /\ Len(ms) = l - 1 /\ (\A j \in 1 .. l - 1 : ms[j] = ns[j])
      /\ e = ns[l] /\ e \in NativeRec
  BY <1>2, <1>3, FrontFacts, NativeFront
<1>5. l \in 2 .. l /\ l - 1 \in Nat /\ l - 1 \in 1 .. l - 1 /\ l - 1 \in 1 .. l
  <2>1. DOMAIN ns = 1 .. l /\ l # 1
    BY <1>2, <1>3, <1>4, StackTypes
  <2> QED
    BY <1>2, <2>1
<1>6. NativeFits(fs, ns, l)
  BY <1>1, <1>5 DEF Nested
<1>7. e.height \in Int /\ e.frames \in Nat /\ e.frames \in 1 .. n /\ e.height <= floor
  BY <1>1, <1>2, <1>4, StackTypes, FloorHighest
<1>8. ASSUME NEW gs \in Seq(FrameRec), Len(gs) = e.frames, \A k \in 1 .. e.frames : gs[k] = fs[k]
      PROVE  /\ Nested(gs, ms)
             /\ FloorIn(gs, ms, e.frames, l - 1) = FloorIn(fs, ns, e.frames, l - 1)
             /\ \A a, p, h : GoesOn(fs, ns, e.frames, l - 1, a, p, h) =>
                  GoesOn(gs, ms, e.frames, l - 1, a, p, h)
  <2> HIDE DEF ms, e
  <2>1. gs[e.frames] = fs[e.frames] /\ ms[l - 1] = ns[l - 1]
    BY <1>4, <1>5, <1>7, <1>8
  <2>2. \A k \in 2 .. Len(gs) : fs[k].lvl <= l - 1
    <3> SUFFICES ASSUME NEW k \in 2 .. e.frames PROVE fs[k].lvl <= l - 1
      BY <1>8
    <3>1. fs[k].lvl < l /\ fs[k].lvl \in Nat
      BY SMTT(40), <1>2, <1>4, <1>6, <1>7, StackTypes DEF NativeFits
    <3> QED
      BY <1>2, <3>1
  <2>3. ns[l - 1].frames <= Len(gs)
    BY <1>4, <1>6, <1>8 DEF NativeFits
  <2>4. Len(gs) <= Len(fs) /\ Len(ms) <= l /\ (\A k \in 1 .. Len(gs) : gs[k] = fs[k])
        /\ (\A j \in 1 .. Len(ms) : ms[j] = ns[j])
    BY <1>2, <1>4, <1>7, <1>8
  <2>5. ns[Len(ms)].frames <= Len(gs) /\ \A k \in 2 .. Len(gs) : fs[k].lvl <= Len(ms)
    BY <1>4, <2>2, <2>3
  <2>6. Nested(gs, ms)
    BY <1>1, <1>2, <1>4, <2>4, <2>5, NestedPrefix
  <2> QED
    BY <2>1, <2>6 DEF GoesOn, FloorIn, OpsIn, ScopeIn
<1>9. height >= e.height
  <2> HIDE DEF floor, d, e
  <2> QED
    BY <1>2, <1>7
<1>10. ASSUME e.run \in Functions \cup {End} PROVE n = e.frames /\ height >= e.height + 1
  <2>1. ops \in Functions \cup {End}
    BY <1>1, <1>2, <1>4, <1>10, OwnOps
  <2>2. s = Root
    <3>1. CASE ops \in Functions
      BY <1>1, <1>2, <3>1 DEF WellFormedOp
    <3>2. CASE ops = End
      BY <1>2, <3>2, FunctionsAssumption DEF FlowsTo
    <3> QED
      BY <2>1, <3>1, <3>2
  <2>3. d >= 1
    BY <1>1, <1>2, <2>2 DEF WellFormedOp
  <2>4. ~(n > e.frames)
    BY <1>1, <1>2, <1>4, <2>2, OwnFrame DEF ScopeIn, FrameFits
  <2>5. floor = e.height
    BY <1>4, <2>4 DEF FloorIn
  <2>6. n = e.frames
    BY <1>2, <1>7, <2>4
  <2> HIDE DEF floor, d, e
  <2> QED
    BY <1>2, <1>7, <2>3, <2>5, <2>6
<1>11. ASSUME n > e.frames PROVE fs[n].scope \notin ReturnScopes \cup {Root}
  <2>1. e.run \notin Functions \cup {End}
    BY <1>2, <1>7, <1>10, <1>11
  <2>2. e.run \in Files
    BY <1>4, <2>1 DEF NativeRec, OpArrays
  <2>3. ops \in Functions \cup Files
    BY <1>1, <1>2, <1>4, <2>2, OwnOps
  <2>4. s = fs[n].scope /\ s # Root
    BY <1>1, <1>2, <1>4, <1>11, OwnFrame DEF ScopeIn, FrameFits
  <2> QED
    BY <1>1, <1>2, <2>3, <2>4 DEF WellFormedOp
<1> HIDE DEF ms, e
<1> QED
  BY <1>1, <1>2, <1>4, <1>5, <1>6, <1>7, <1>8, <1>9, <1>10, <1>11 DEF ms, e

\* The end of an op array: of a program, a file, a default or a call_ex.
LEMMA MirrorsEnd ==
  ASSUME TypeOK, Mirrors, ~strayed, OP_END
  PROVE  Mirrors'
<1> DEFINE fs == frame_stack
           ns == native_stack
           ms == Front(native_stack)
           n == Len(frame_stack)
           l == Len(native_stack)
           e == Last(native_stack)
<1>1. At("END")
  BY DEF OP_END
<1>2. CASE e.kind = "main"
  <2>1. mode' = "done" /\ UNCHANGED << frame_stack, native_stack >> /\ Nested(fs, ns)
    BY <1>1, <1>2, AtFacts DEF OP_END
  <2> QED
    BY <2>1 DEF Mirrors, InControl
<1>3. CASE e.kind # "main"
  <2>1. /\ fs \in Seq(FrameRec) /\ ns \in NativeStacks /\ Nested(fs, ns) /\ height \in Int
        /\ e \in NativeRec /\ n \in Nat /\ l - 1 \in Nat
        /\ ms \in NativeStacks /\ Len(ms) = l - 1
        /\ e = ns[l] /\ NativeFits(fs, ns, l) /\ e.frames \in 1 .. n /\ e.height \in Int
        /\ height >= e.height
        /\ e.run \in Functions \cup {End} => n = e.frames /\ height >= e.height + 1
    BY <1>1, <1>3, EndFacts
  <2>2. ASSUME NEW gs \in Seq(FrameRec), Len(gs) = e.frames, \A k \in 1 .. e.frames : gs[k] = fs[k]
        PROVE  /\ Nested(gs, ms)
               /\ FloorIn(gs, ms, e.frames, l - 1) = FloorIn(fs, ns, e.frames, l - 1)
               /\ \A a, p, h : GoesOn(fs, ns, e.frames, l - 1, a, p, h) =>
                    GoesOn(gs, ms, e.frames, l - 1, a, p, h)
    BY <1>1, <1>3, <2>2, EndFacts
\* back to a native function
  <2>3. ASSUME e.kind \in {"ex", "eval"}, NEW gs \in Seq(FrameRec), Len(gs) = e.frames,
               \A k \in 1 .. e.frames : gs[k] = fs[k], frame_stack' = gs, native_stack' = ms,
               mode' = "native", ops' = e.ops, pc' = e.pc, height' \in Int, height' >= e.height
        PROVE  Mirrors'
    <3>1. /\ IsNative(e.ops, e.pc)
          /\ GoesOn(fs, ns, e.frames, l - 1, e.ops, e.pc, e.height + Code[e.ops][e.pc].pop)
      BY <2>1, <2>3 DEF NativeFits
    <3>2. /\ Nested(gs, ms)
          /\ GoesOn(gs, ms, e.frames, l - 1, e.ops, e.pc, e.height + Code[e.ops][e.pc].pop)
      BY <2>2, <2>3, <3>1
    <3> DEFINE pop == Code[e.ops][e.pc].pop
               f == FloorIn(gs, ms, e.frames, l - 1)
               d == DepthAt[e.ops][e.pc]
    <3>3. e.ops \in OpArrays /\ e.pc \in DOMAIN Code[e.ops]
      BY <2>1, <3>1 DEF NativeRec, IsNative
    <3>4. pop \in Int /\ d \in Nat
      <4>1. WellFormedOp(e.ops, e.pc) /\ Code[e.ops][e.pc].op = "NATIVE"
        BY <3>1, <3>3, CodeAssumption DEF IsNative
      <4>2. d \in Nat
        BY <3>3, DepthTypes
      <4>3. pop \in 0 .. d
        BY <4>1 DEF WellFormedOp
      <4> QED
        BY <4>2, <4>3
    <3>5. f \in Int
      <4>1. e.frames = Len(gs) /\ l - 1 = Len(ms)
        BY <2>1, <2>3
      <4> QED
        BY <2>1, <3>2, <4>1, FloorHighest
    <3>6. e.height + pop >= f + d
      BY <3>2 DEF GoesOn
    <3>7. height' + pop >= f + d
      <4> HIDE DEF pop, f, d, e
      <4> QED
        BY <2>1, <2>3, <3>4, <3>5, <3>6
    <3>8. GoesOn(gs, ms, e.frames, l - 1, e.ops, e.pc, height' + pop)
      BY <3>2, <3>7 DEF GoesOn
    <3> QED
      BY <2>1, <2>3, <3>1, <3>2, <3>8 DEF Mirrors, InControl
  <2>4. CASE e.kind = "ex"
    <3>1. e.run = End
      BY <2>1, <2>4 DEF NativeFits
    <3>2. n = e.frames /\ height >= e.height + 1
      BY <2>1, <3>1
    <3>3. /\ mode' = "native" /\ pc' = e.pc /\ ops' = e.ops /\ height' = height - 1
          /\ native_stack' = ms /\ frame_stack' = fs
      BY <2>4 DEF OP_END
    <3>4. height' \in Int /\ height' >= e.height
      <4> HIDE DEF e
      <4> QED
        BY <2>1, <3>2, <3>3
    <3> QED
      BY <2>1, <2>3, <2>4, <3>2, <3>3, <3>4
  <2>5. CASE e.kind = "eval"
    <3> DEFINE gs == IF e.frames < n THEN SubSeq(fs, 1, e.frames) ELSE fs
    <3>1. /\ mode' = "native" /\ pc' = e.pc /\ ops' = e.ops
          /\ height' = (IF e.height < height THEN e.height ELSE height)
          /\ native_stack' = ms /\ frame_stack' = gs
      BY <2>5 DEF OP_END, DropFrames
    <3>2. gs \in Seq(FrameRec) /\ Len(gs) = e.frames /\ \A k \in 1 .. e.frames : gs[k] = fs[k]
      <4>1. CASE e.frames < n
        <5>1. e.frames \in 0 .. n
          BY <2>1, <4>1
        <5> QED
          BY <2>1, <4>1, <5>1, PrefixFacts
      <4>2. CASE ~(e.frames < n)
        BY <2>1, <4>2
      <4> QED
        BY <4>1, <4>2
    <3> HIDE DEF gs
    <3>3. height' \in Int /\ height' >= e.height
      <4> HIDE DEF e
      <4> QED
        BY <2>1, <3>1
    <3> QED
      BY <2>3, <2>5, <3>1, <3>2, <3>3
\* back to OP_FUNCALL
  <2>6. CASE /\ e.kind = "default"
             /\ PassArgs(e.run, e.argcnt + 1, height, e.pc, e.ops, ms)
    <3> DEFINE f == FloorIn(fs, ns, e.frames, l - 1)
               c == e.argcnt
               back == e.height - c + 1
               h == height - (c + 1) + 1
    <3>1. /\ e.run \in Functions /\ c \in 0 .. NParams[e.run] - 1 /\ e.height - c >= f
          /\ GoesOn(fs, ns, e.frames, l - 1, e.ops, e.pc + 1, back)
      BY <2>1, <2>6 DEF NativeFits
    <3>2. n = e.frames /\ height >= e.height + 1
      BY <2>1, <3>1
    <3>3. /\ Nested(fs, ms) /\ FloorIn(fs, ms, e.frames, l - 1) = f
          /\ GoesOn(fs, ms, e.frames, l - 1, e.ops, e.pc + 1, back)
      BY <2>1, <2>2, <3>1, <3>2
    <3>4. c \in Nat /\ e.pc \in Int /\ e.ops \in OpArrays
      BY <2>1, <2>6 DEF NativeRec
    <3> DEFINE d == DepthAt[e.ops][e.pc + 1]
    <3>5. f \in Int /\ d \in Nat
      <4>1. f \in Int
        BY <2>1, <3>2, <3>3, FloorHighest
      <4>2. d \in Nat
        BY <3>3, <3>4, DepthTypes DEF GoesOn
      <4> QED
        BY <4>1, <4>2
    <3>6. back >= f + d
      BY <3>3 DEF GoesOn
    <3>7. h >= f + d /\ height - (c + 1) >= f /\ c + 1 \in Nat
      <4> DEFINE x == e.height
      <4>1. /\ x \in Int /\ height \in Int /\ c \in Nat /\ f \in Int /\ d \in Nat
            /\ height >= x + 1 /\ x - c + 1 >= f + d /\ x - c >= f
        BY <2>1, <3>1, <3>2, <3>4, <3>5, <3>6
      <4> HIDE DEF f, c, d, x
      <4> QED
        BY <4>1
    <3>8. GoesOn(fs, ms, n, Len(ms), e.ops, e.pc + 1, h)
      BY <2>1, <3>2, <3>3, <3>7 DEF GoesOn
    <3>9. height - (c + 1) >= FloorIn(fs, ms, n, Len(ms))
      BY <2>1, <3>2, <3>3, <3>7
    <3>10. PassArgs(e.run, c + 1, height, e.pc, e.ops, ms)
      BY <2>6
    <3> HIDE DEF c, e, ms
    <3> QED
      BY <2>1, <3>1, <3>3, <3>4, <3>7, <3>8, <3>9, <3>10, PassArgsStep
  <2> QED
    BY <1>3, <2>4, <2>5, <2>6 DEF OP_END
<1> QED
  BY <1>2, <1>3

-----------------------------------------------------------------------------
(* The stacks mirror the nesting of the program.                           *)

LEMMA MirrorsInit == Init => Mirrors
<1> SUFFICES ASSUME Init PROVE Mirrors
  OBVIOUS
<1> DEFINE fs == frame_stack
           ns == native_stack
<1>1. /\ fs = << Frame("LEXICAL", 0, 0, End, 0, Root, Main, 1, 0) >>
      /\ ns = << Native("main", 0, Main, 1, 0, Main, 0) >>
      /\ mode = "op" /\ pc = 0 /\ ops = Main /\ height = 0
  BY DEF Init
<1>2. /\ Len(fs) = 1 /\ DOMAIN fs = {1} /\ Len(ns) = 1 /\ DOMAIN ns = {1}
      /\ fs[1].type = "LEXICAL" /\ fs[1].argcnt = 0 /\ fs[1].top = 0
      /\ ns[1].frames = 1 /\ ns[1].height = 0 /\ ns[1].run = Main
  BY <1>1 DEF Frame, Native
<1>3. fs # << >>
  BY <1>1
<1> HIDE DEF fs, ns
<1>4. Bottom(fs, ns)
  BY <1>2, <1>3 DEF Bottom
<1>5. Layers(fs, ns)
  BY <1>2 DEF Layers
<1>6. Ascending(fs, ns)
  BY <1>2 DEF Ascending
<1>7. Nested(fs, ns)
  BY <1>2, <1>4, <1>5, <1>6 DEF Nested
<1>8. GoesOn(fs, ns, 1, 1, Main, 0, 0)
  <2>1. /\ 0 \in DOMAIN Code[Main] /\ ScopeAt[Main][0] = Root
        /\ DepthAt[Main][0] <= 0 /\ DepthAt[Main][0] \in Nat
    BY ArraysAssumption, FunctionsAssumption, DepthTypes DEF FlowsTo, OpArrays
  <2> QED
    BY <1>2, <2>1 DEF GoesOn, ScopeIn, OpsIn, FloorIn
<1> QED
  BY <1>1, <1>2, <1>7, <1>8 DEF Mirrors, InControl, fs, ns

LEMMA MirrorsStep ==
  ASSUME TypeOK, Mirrors, [Next]_vars
  PROVE  Mirrors'
<1>1. CASE strayed
  <2>1. strayed'
    <3>1. ASSUME NEW o, NEW own, NEW ns, Raise(o, own, ns) PROVE strayed'
      BY <1>1, <3>1 DEF Raise
    <3>2. ASSUME NEW f, NEW n, NEW h, NEW at, NEW from, NEW ns, PassArgs(f, n, h, at, from, ns)
          PROVE  strayed'
      BY <1>1, <3>1, <3>2 DEF PassArgs, Activate
    <3> QED
      BY <1>1, <3>1, <3>2 DEF Next, vars, MayThrow, VALUE, ARG, OP_NEXTSTATE, OP_JUMP, JUMP_IF,
         ENTER, OP_ENTER_FOREACH, OP_CLASS_ENTER, OP_LEAVE, OP_CLASS_LEAVE, OP_FOR_ITER, OP_LAST,
         OP_TRY, OP_DIE, OP_FUNCALL, OP_METHOD_CALL, CODE_CALL, OP_RETURN, NATIVE,
         function_call_ex, eval, NativeReturn, NativeThrow, OP_END, Terminated, Activate
  <2> QED
    BY <2>1 DEF Mirrors
<1>2. CASE ~strayed /\ Next /\ ~Terminated
  BY <1>2, MirrorsPlainOps, MirrorsEnter, MirrorsLeave, MirrorsCalls, MirrorsNative, MirrorsEnd
     DEF Next
<1>3. CASE UNCHANGED vars
  BY <1>3 DEF vars, Mirrors
<1> QED
  BY <1>1, <1>2, <1>3 DEF Terminated

LEMMA MirrorsCorrect == Spec => []Mirrors
<1>1. Init => Mirrors
  BY MirrorsInit
<1>2. TypeOK /\ Mirrors /\ [Next]_vars => Mirrors'
  BY MirrorsStep
<1> QED
  BY <1>1, <1>2, TypeCorrect, PTL DEF Spec

(***************************************************************************)
(* Every op runs with the frames its scope was compiled for, and every     *)
(* frame and activation goes back to the one below it, whatever calls,     *)
(* returns, loop exits, exceptions and nested executions came before: the  *)
(* discipline that the opcodes of vm.inc and VM::handle_exception share.   *)
(***************************************************************************)
THEOREM OnTrackCorrect == Spec => []OnTrack
<1>1. ASSUME Mirrors, ~strayed, NEW k \in 2 .. Len(frame_stack) PROVE FrameOnTrack(k)
  <2>1. FrameFits(frame_stack, native_stack, k)
    BY <1>1 DEF Mirrors, Nested
  <2> QED
    BY <2>1 DEF FrameOnTrack, FrameFits, Resumes, GoesOn, ScopeOn, OpsOn, FloorOn,
       ScopeIn, OpsIn, FloorIn
<1>2. ASSUME Mirrors, ~strayed, NEW l \in 2 .. Len(native_stack) PROVE NativeOnTrack(l)
  <2>1. NativeFits(frame_stack, native_stack, l)
    BY <1>2 DEF Mirrors, Nested
  <2> QED
    BY <2>1 DEF NativeOnTrack, NativeFits, Resumes, ResumesNative, GoesOn, ScopeOn, OpsOn,
       FloorOn, ScopeIn, OpsIn, FloorIn
<1>3. ASSUME Mirrors, ~strayed PROVE ControlOnTrack
  BY <1>3 DEF Mirrors, InControl, ControlOnTrack, Resumes, ResumesNative, GoesOn, ScopeOn, OpsOn,
     FloorOn, ScopeIn, OpsIn, FloorIn
<1>4. Mirrors => OnTrack
  BY <1>1, <1>2, <1>3 DEF OnTrack
<1> QED
  BY <1>4, MirrorsCorrect, PTL

-----------------------------------------------------------------------------
(* Marks, until an exception is caught.                                    *)

\* The inductive invariant: no mark lacks its frame, and a catch strays only
\* as it catches.
EachMarkOwned ==
  /\ strayed => caught
  /\ ~caught => \A m \in DOMAIN mark_stack :
       \E k \in DOMAIN frame_stack : frame_stack[k].type \in ActTypes /\ frame_stack[k].mk = m

LEMMA OwnedMarks ==
  ASSUME TypeOK, MarksPresent, EachMarkOwned
  PROVE  MarkOwned
<1> SUFFICES ASSUME ~caught PROVE MarkOwned
  BY DEF MarkOwned
<1>1. /\ Len(mark_stack) \in Nat /\ DOMAIN mark_stack = 1 .. Len(mark_stack)
      /\ DOMAIN frame_stack = 1 .. Len(frame_stack) /\ Len(frame_stack) \in Nat
      /\ mark_stack \in Seq(Int)
  BY LenProperties DEF TypeOK
<1>2. ASSUME NEW k \in DOMAIN frame_stack, IsInnermost(k, ActTypes)
      PROVE  frame_stack[k].mk = Len(mark_stack)
  <2>1. frame_stack[k].type \in ActTypes /\ frame_stack[k].mk \in DOMAIN mark_stack
    BY <1>2 DEF IsInnermost, MarksPresent
  <2>2. Len(mark_stack) \in DOMAIN mark_stack
    BY <1>1, <2>1
  <2>3. PICK j \in DOMAIN frame_stack :
          frame_stack[j].type \in ActTypes /\ frame_stack[j].mk = Len(mark_stack)
    BY <2>2 DEF EachMarkOwned
  <2>4. j <= k
    BY <1>1, <1>2, <2>3 DEF IsInnermost
  <2>5. ~(j < k)
    BY <1>1, <2>1, <2>3 DEF MarksPresent
  <2> QED
    BY <1>1, <2>3, <2>4, <2>5
<1>3. ASSUME \A k \in DOMAIN frame_stack : frame_stack[k].type \notin ActTypes
      PROVE  mark_stack = << >>
  <2>1. DOMAIN mark_stack = {}
    BY <1>3 DEF EachMarkOwned
  <2>2. Len(mark_stack) = 0
    BY <1>1, <2>1
  <2> QED
    BY <1>1, <2>2, EmptySeq
<1> QED
  BY <1>2, <1>3 DEF MarkOwned

\* Frames pushed, and dropped where they are neither functions nor tries.
LEMMA OwnedKept ==
  ASSUME TypeOK, EachMarkOwned, UNCHANGED << mark_stack, caught, strayed >>,
         \A k \in DOMAIN frame_stack : frame_stack[k].type \in ActTypes =>
           k \in DOMAIN frame_stack' /\ frame_stack'[k] = frame_stack[k]
  PROVE  EachMarkOwned'
<1> SUFFICES ASSUME ~caught, NEW m \in DOMAIN mark_stack
             PROVE  \E k \in DOMAIN frame_stack' :
                      frame_stack'[k].type \in ActTypes /\ frame_stack'[k].mk = m
  BY DEF EachMarkOwned
<1>1. PICK k \in DOMAIN frame_stack : frame_stack[k].type \in ActTypes /\ frame_stack[k].mk = m
  BY DEF EachMarkOwned
<1> QED
  BY <1>1

LEMMA OwnedDrop ==
  ASSUME TypeOK, EachMarkOwned, UNCHANGED << mark_stack, caught, strayed >>,
         NEW n \in 0 .. Len(frame_stack), frame_stack' = SubSeq(frame_stack, 1, n),
         \A k \in n + 1 .. Len(frame_stack) : frame_stack[k].type \notin ActTypes
  PROVE  EachMarkOwned'
<1>1. /\ Len(frame_stack) \in Nat /\ DOMAIN frame_stack = 1 .. Len(frame_stack)
      /\ DOMAIN frame_stack' = 1 .. n /\ \A k \in 1 .. n : frame_stack'[k] = frame_stack[k]
  BY PrefixFacts, LenProperties DEF TypeOK
<1>2. \A k \in DOMAIN frame_stack : frame_stack[k].type \in ActTypes =>
        k \in DOMAIN frame_stack' /\ frame_stack'[k] = frame_stack[k]
  BY <1>1
<1> QED
  BY <1>2, OwnedKept

LEMMA OwnedPushBlock ==
  ASSUME TypeOK, EachMarkOwned, UNCHANGED << mark_stack, caught, strayed >>,
         NEW f \in FrameRec, PushFrame(f)
  PROVE  EachMarkOwned'
<1>1. /\ Len(frame_stack) \in Nat /\ DOMAIN frame_stack = 1 .. Len(frame_stack)
      /\ DOMAIN frame_stack' = 1 .. Len(frame_stack) + 1
      /\ \A k \in 1 .. Len(frame_stack) : frame_stack'[k] = frame_stack[k]
  BY AppendFacts, LenProperties DEF TypeOK, PushFrame
<1>2. \A k \in DOMAIN frame_stack : k \in DOMAIN frame_stack' /\ frame_stack'[k] = frame_stack[k]
  BY <1>1
<1> QED
  BY <1>2, OwnedKept

LEMMA OwnedPushCall ==
  ASSUME TypeOK, EachMarkOwned, UNCHANGED << caught, strayed >>, NEW f \in FrameRec, PushFrame(f),
         NEW h \in Int, PushMark(h), f.type \in ActTypes, f.mk = Len(mark_stack) + 1
  PROVE  EachMarkOwned'
<1> DEFINE n == Len(frame_stack)
           m == Len(mark_stack)
<1>1. /\ n \in Nat /\ DOMAIN frame_stack = 1 .. n /\ DOMAIN frame_stack' = 1 .. n + 1
      /\ \A k \in 1 .. n : frame_stack'[k] = frame_stack[k]
      /\ frame_stack'[n + 1] = f
  BY AppendFacts, LenProperties DEF TypeOK, PushFrame
<1>2. m \in Nat /\ DOMAIN mark_stack = 1 .. m /\ DOMAIN mark_stack' = 1 .. m + 1
  BY AppendFacts, LenProperties DEF TypeOK, PushMark
<1>3. f.mk = m + 1
  OBVIOUS
<1> HIDE DEF n, m
<1>4. ASSUME ~caught, NEW j \in 1 .. m + 1
      PROVE  \E k \in 1 .. n + 1 : frame_stack'[k].type \in ActTypes /\ frame_stack'[k].mk = j
  <2>1. CASE j = m + 1
    BY <1>1, <1>3, <2>1
  <2>2. CASE j \in 1 .. m
    <3>1. PICK k \in 1 .. n : frame_stack[k].type \in ActTypes /\ frame_stack[k].mk = j
      BY <1>1, <1>2, <1>4, <2>2 DEF EachMarkOwned
    <3>2. k \in 1 .. n + 1 /\ frame_stack'[k] = frame_stack[k]
      BY <1>1
    <3> QED
      BY <3>1, <3>2
  <2> QED
    BY <1>2, <2>1, <2>2
<1> QED
  BY <1>1, <1>2, <1>4 DEF EachMarkOwned

LEMMA OwnedRaise ==
  ASSUME EachMarkOwned, NEW o, NEW own, NEW ns, Raise(o, own, ns)
  PROVE  EachMarkOwned'
<1>1. CASE UNCHANGED << mark_stack, frame_stack, caught, strayed >>
  BY <1>1 DEF EachMarkOwned
<1>2. CASE caught' = TRUE
  BY <1>2 DEF EachMarkOwned
<1> QED
  BY <1>1, <1>2 DEF Raise

LEMMA OwnedActivate ==
  ASSUME TypeOK, EachMarkOwned, NEW f \in Functions, NEW n \in Int, NEW h \in Int,
         NEW at \in Int, NEW from \in OpArrays, NEW ns \in NativeStacks,
         Activate(f, n, h, at, from, ns)
  PROVE  EachMarkOwned'
<1> DEFINE g == Frame("FUNCTION", h, at, from, n, FnScope[f], f, Len(ns), Len(mark_stack) + 1)
<1>1. g \in FrameRec
  <2>1. "FUNCTION" \in FrameTypes /\ Len(ns) \in Nat
    BY LenProperties DEF FrameTypes, ActTypes, NativeStacks
  <2>2. Len(mark_stack) + 1 \in Nat
    BY FrameStackType
  <2> QED
    BY <2>1, <2>2, FrameType, FunctionTypes
<1>2. g.mk = Len(mark_stack) + 1 /\ g.type \in ActTypes
  BY DEF Frame, ActTypes
<1>3. PushFrame(g) /\ PushMark(h) /\ UNCHANGED << caught, strayed >>
  BY DEF Activate
<1> HIDE DEF g
<1> QED
  BY <1>1, <1>2, <1>3, OwnedPushCall

LEMMA OwnedPassArgs ==
  ASSUME TypeOK, EachMarkOwned, NEW f \in Functions, NEW n \in Nat, NEW h \in Int,
         NEW at \in Int, NEW from \in OpArrays, NEW ns \in NativeStacks,
         PassArgs(f, n, h, at, from, ns)
  PROVE  EachMarkOwned'
<1>1. CASE Activate(f, 1, Packed(h, n), at, from, ns)
  BY <1>1, OwnedActivate DEF Packed
<1>2. CASE Activate(f, n, h, at, from, ns)
  BY <1>2, OwnedActivate
<1>3. CASE UNCHANGED << mark_stack, frame_stack, caught, strayed >>
  BY <1>3 DEF EachMarkOwned
<1>4. CASE Raise(f, from, ns)
  BY <1>4, OwnedRaise
<1> QED
  BY <1>1, <1>2, <1>3, <1>4 DEF PassArgs

\* OP_RETURN drops the mark of the frame it leaves.
LEMMA OwnedReturn ==
  ASSUME TypeOK, MarksPresent, EachMarkOwned, UNCHANGED << caught, strayed >>,
         NEW k \in DOMAIN frame_stack, IsInnermost(k, ActTypes),
         frame_stack' = FramesBelow(k), PopMark
  PROVE  EachMarkOwned'
<1> DEFINE n == Len(frame_stack)
           m == Len(mark_stack)
<1>1. /\ n \in Nat /\ DOMAIN frame_stack = 1 .. n /\ k \in 1 .. n
      /\ DOMAIN frame_stack' = 1 .. k - 1
      /\ \A j \in 1 .. k - 1 : frame_stack'[j] = frame_stack[j]
  <2>1. n \in Nat /\ DOMAIN frame_stack = 1 .. n /\ k \in 1 .. n
    BY LenProperties DEF TypeOK
  <2>2. k - 1 \in 0 .. n
    BY <2>1
  <2> QED
    BY <2>1, <2>2, PrefixFacts, FrameStackType, LenProperties DEF TypeOK, FramesBelow
<1>2. m \in Nat /\ DOMAIN mark_stack = 1 .. m /\ DOMAIN mark_stack' = 1 .. m - 1
  BY FrontFacts, LenProperties DEF TypeOK, PopMark
<1>3. ~caught => frame_stack[k].mk = m
  BY OwnedMarks DEF MarkOwned
<1> HIDE DEF n, m
<1>4. ASSUME ~caught, NEW j \in 1 .. m - 1
      PROVE  \E i \in 1 .. k - 1 : frame_stack'[i].type \in ActTypes /\ frame_stack'[i].mk = j
  <2>1. j \in 1 .. m /\ j # m
    BY <1>2
  <2>2. PICK i \in 1 .. n : frame_stack[i].type \in ActTypes /\ frame_stack[i].mk = j
    BY <1>1, <1>2, <1>4, <2>1 DEF EachMarkOwned
  <2>3. i # k
    BY <1>3, <1>4, <2>1, <2>2
  <2>4. ~(i \in k + 1 .. n)
    BY <2>2 DEF IsInnermost, n
  <2>5. i \in 1 .. k - 1
    BY <1>1, <2>3, <2>4
  <2> QED
    BY <1>1, <2>2, <2>5
<1> QED
  BY <1>1, <1>2, <1>4 DEF EachMarkOwned

\* Outside functions and tries the frames of the activation are of neither.
LEMMA NoActFrame ==
  ASSUME NEW fs \in Seq(FrameRec), NEW ns \in NativeStacks, Nested(fs, ns),
         Len(fs) > ns[Len(ns)].frames, fs[Len(fs)].scope \notin ReturnScopes,
         NEW j \in ns[Len(ns)].frames + 1 .. Len(fs)
  PROVE  fs[j].type \notin ActTypes
<1> DEFINE n == Len(fs)
           b == ns[Len(ns)].frames
           T == {k \in b + 1 .. n : \A m \in k .. n : fs[m].scope \notin ReturnScopes}
<1>1. n \in Nat /\ Len(ns) \in 1 .. Len(ns) /\ b \in 1 .. n /\ b \in Nat /\ n > b
  BY StackTypes, FloorHighest, NestedFacts
<1>2. n \in T
  BY <1>1
<1>3. ASSUME NEW k \in b + 1 .. n, fs[k].scope \notin ReturnScopes
      PROVE  fs[k].type \notin ActTypes /\ (k - 1 > b => fs[k - 1].scope \notin ReturnScopes)
  <2>1. k \in 1 .. n /\ k > b
    BY <1>1
  <2>2. FrameFits(fs, ns, k) /\ fs[k].lvl = Len(ns)
    BY <2>1, OwnFrame
  <2>3. fs[k].scope \in Scopes \ {Root} /\ fs[k].type = Kind[fs[k].scope]
    BY <2>1, <2>2, StackTypes DEF FrameFits
  <2>4. fs[k].type \notin ActTypes /\ Parent[fs[k].scope] \notin ReturnScopes
    BY <1>3, <2>3, ScopesAssumption DEF WellNested
  <2>5. Parent[fs[k].scope] = ScopeIn(fs, ns, k - 1, Len(ns))
    BY <2>2, <2>4 DEF FrameFits, ActTypes
  <2> QED
    BY <2>4, <2>5 DEF ScopeIn
<1>4. PICK k \in T : \A i \in T : k <= i
  <2>1. T \in SUBSET Nat /\ T # {}
    <3>1. \A i \in b + 1 .. n : i \in Nat
      BY <1>1
    <3>2. \A i \in T : i \in b + 1 .. n
      OBVIOUS
    <3> HIDE DEF T
    <3> QED
      BY <1>2, <3>1, <3>2
  <2> HIDE DEF T
  <2> QED
    BY <2>1, LeastNat
<1>5. k = b + 1
  <2> SUFFICES ASSUME k - 1 > b PROVE FALSE
    BY <1>1, <1>4
  <2>1. k \in b + 1 .. n /\ k \in k .. n
    BY <1>1, <1>4
  <2>2. fs[k - 1].scope \notin ReturnScopes
    BY <1>3, <1>4, <2>1
  <2>3. k - 1 \in b + 1 .. n /\ \A m \in k - 1 .. n : m = k - 1 \/ m \in k .. n
    BY <1>1, <2>1
  <2>4. k - 1 \in T
    BY <1>4, <2>2, <2>3
  <2> QED
    BY <1>1, <1>4, <2>1, <2>4
<1>6. j \in k .. n
  BY <1>1, <1>5
<1> QED
  BY <1>3, <1>4, <1>6

LEMMA OwnedStep ==
  ASSUME TypeOK, MarksPresent, Mirrors, EachMarkOwned, ~caught, [Next]_vars
  PROVE  EachMarkOwned'
<1> USE OpTypes, FrameStackType
<1>t. /\ pc \in Int /\ ops \in OpArrays /\ height \in Int /\ ~strayed
      /\ native_stack \in NativeStacks /\ End \in OpArrays
  BY DEF TypeOK, OpArrays, EachMarkOwned
<1>i. ASSUME NEW op, At(op)
      PROVE  /\ pc \in DOMAIN Code[ops] /\ Instr = Code[ops][pc] /\ Instr.op = op
             /\ WellFormedOp(ops, pc) /\ DepthAt[ops][pc] \in Nat
  BY <1>i DEF At, Instr
<1>r. ASSUME NEW o, NEW own, NEW ns, Raise(o, own, ns) PROVE EachMarkOwned'
  BY <1>r, OwnedRaise
<1>u. ASSUME UNCHANGED << mark_stack, frame_stack, caught, strayed >> PROVE EachMarkOwned'
  BY <1>u DEF EachMarkOwned
<1>b. ASSUME NEW type \in FrameTypes, NEW top \in Int, NEW scope \in Scopes,
             PushFrame(BlockFrame(type, top, scope)), UNCHANGED << mark_stack, caught, strayed >>
      PROVE  EachMarkOwned'
  BY <1>b, BlockFrameType, OwnedPushBlock
<1>1. CASE VALUE \/ OP_FOR_ITER \/ OP_DIE \/ NATIVE \/ NativeThrow
  BY <1>1, <1>r, <1>u DEF VALUE, OP_FOR_ITER, OP_DIE, NATIVE, NativeThrow, MayThrow
<1>2. CASE ARG \/ OP_NEXTSTATE \/ OP_JUMP \/ JUMP_IF \/ eval \/ NativeReturn
  BY <1>2, <1>u DEF ARG, OP_NEXTSTATE, OP_JUMP, JUMP_IF, eval, NativeReturn
<1>3. CASE ENTER
  <2>1. Instr.into \in Scopes /\ Kind[Instr.into] \in FrameTypes
    BY <1>3, <1>i, ScopeTypes DEF ENTER, WellFormedOp, Enters
  <2> QED
    BY <1>3, <1>b, <1>t, <2>1 DEF ENTER
<1>4. CASE OP_ENTER_FOREACH
  <2>1. Instr.into \in Scopes /\ "FOREACH" \in FrameTypes /\ height - 1 \in Int
    BY <1>4, <1>t, OpTargets DEF OP_ENTER_FOREACH, FrameTypes, BlockTypes, LoopTypes
  <2> QED
    BY <1>4, <1>b, <1>r, <2>1 DEF OP_ENTER_FOREACH, MayThrow
<1>5. CASE OP_CLASS_ENTER
  <2>1. Instr.into \in Scopes /\ "CLASS" \in FrameTypes
    BY <1>5, <1>i DEF OP_CLASS_ENTER, WellFormedOp, Enters, FrameTypes
  <2> QED
    BY <1>5, <1>b, <1>t, <2>1 DEF OP_CLASS_ENTER
<1>6. CASE OP_LEAVE \/ OP_CLASS_LEAVE
  <2> DEFINE n == Len(frame_stack)
             s == ScopeAt[ops][pc]
  <2>1. PICK op \in {"LEAVE", "CLASS_LEAVE"} : At(op)
    BY <1>6 DEF OP_LEAVE, OP_CLASS_LEAVE
  <2>2. s # Root /\ Kind[s] \notin ActTypes
    BY <1>i, <2>1 DEF WellFormedOp, BlockTypes, LoopTypes, ActTypes
  <2>3. frame_stack[n].type \notin ActTypes /\ n \in 1 .. n
    BY <1>t, <2>1, <2>2, AtFacts, OpFacts
  <2>4. /\ n - 1 \in 0 .. n /\ frame_stack' = SubSeq(frame_stack, 1, n - 1)
        /\ \A k \in n - 1 + 1 .. n : k = n
    BY <1>6, <2>3 DEF OP_LEAVE, OP_CLASS_LEAVE, Front
  <2> QED
    BY <1>6, <2>3, <2>4, OwnedDrop DEF OP_LEAVE, OP_CLASS_LEAVE
<1>7. CASE OP_LAST
  <2>1. PICK k \in DOMAIN frame_stack :
          /\ IsInnermost(k, LoopTypes \cup ActTypes) /\ frame_stack[k].type \in LoopTypes
          /\ frame_stack' = FramesBelow(k)
    BY <1>7 DEF OP_LAST
  <2>2. k - 1 \in 0 .. Len(frame_stack) /\ \A j \in k - 1 + 1 .. Len(frame_stack) : j = k \/ j \in k + 1 .. Len(frame_stack)
    BY <2>1
  <2>3. \A j \in k - 1 + 1 .. Len(frame_stack) : frame_stack[j].type \notin ActTypes
    BY <2>1, <2>2 DEF IsInnermost, LoopTypes, ActTypes
  <2> QED
    BY <1>7, <2>1, <2>2, <2>3, OwnedDrop DEF OP_LAST, FramesBelow
<1>8. CASE OP_TRY
  <2> DEFINE f == Frame("TRY", height, Instr.to - 1, End, 0, Instr.into, ops,
                        Len(native_stack), Len(mark_stack) + 1)
  <2>0. At("TRY")
    BY <1>8 DEF OP_TRY
  <2>1. Instr.into \in Scopes /\ Instr.to \in Int
    BY <2>0, OpTargets
  <2>2. f \in FrameRec
    <3>1. "TRY" \in FrameTypes /\ 0 \in Int
      BY DEF FrameTypes, ActTypes
    <3>2. Instr.to - 1 \in Int /\ Len(native_stack) \in Nat /\ Len(mark_stack) + 1 \in Nat
      BY <2>1
    <3> QED
      BY <1>t, <2>1, <3>1, <3>2, FrameType
  <2>3. f.mk = Len(mark_stack) + 1 /\ f.type \in ActTypes
    BY DEF Frame, ActTypes
  <2>4. PushFrame(f) /\ PushMark(height) /\ UNCHANGED << caught, strayed >>
    BY <1>8 DEF OP_TRY
  <2> HIDE DEF f
  <2> QED
    BY <1>t, <2>2, <2>3, <2>4, OwnedPushCall
<1>9. CASE OP_FUNCALL
  <2>1. Instr.pop \in Int /\ Instr.fns \subseteq Functions /\ Instr.counts \subseteq Nat
    BY <1>9, <1>i DEF OP_FUNCALL, WellFormedOp
  <2>2. ASSUME NEW f \in Instr.fns, NEW n \in Instr.counts,
               PassArgs(f, n, height - 1 - Instr.pop + n, pc, ops, native_stack)
        PROVE  EachMarkOwned'
    <3>1. f \in Functions /\ n \in Nat /\ height - 1 - Instr.pop + n \in Int
      BY <1>t, <2>1
    <3> QED
      BY <1>t, <2>2, <3>1, OwnedPassArgs
  <2> QED
    BY <1>9, <1>r, <2>2 DEF OP_FUNCALL, MayThrow
<1>10. CASE OP_METHOD_CALL \/ CODE_CALL
  <2>1. Instr.pop \in Int /\ Instr.fns \subseteq Functions /\ height - 2 \in Int
    BY <1>10, <1>i, <1>t DEF OP_METHOD_CALL, CODE_CALL, WellFormedOp
  <2>2. ASSUME NEW f \in Instr.fns, Activate(f, Instr.pop, height - 2, pc, ops, native_stack)
        PROVE  EachMarkOwned'
    BY <1>t, <2>1, <2>2, OwnedActivate
  <2> QED
    BY <1>10, <1>r, <2>2 DEF OP_METHOD_CALL, CODE_CALL, MayThrow
<1>11. CASE OP_RETURN
  <2>1. PICK k \in DOMAIN frame_stack : IsInnermost(k, ActTypes) /\ frame_stack' = FramesBelow(k)
    BY <1>11 DEF OP_RETURN
  <2> QED
    BY <1>11, <2>1, OwnedReturn DEF OP_RETURN
<1>12. CASE function_call_ex
  <2> DEFINE ns == Append(native_stack,
                     Native("ex", pc, ops, Len(frame_stack), height, End, 0))
  <2>1. /\ IsNative(ops, pc) /\ pc \in DOMAIN Code[ops] /\ Instr = Code[ops][pc]
        /\ Instr.op = "NATIVE" /\ WellFormedOp(ops, pc)
    BY <1>12 DEF function_call_ex, TypeOK, IsNative, Instr
  <2>2. Instr.callbacks \subseteq Functions /\ Instr.cbargs \in Nat
    BY <2>1 DEF WellFormedOp
  <2>3. ns \in NativeStacks
    BY <1>t, <2>1, NativeType
  <2>4. PICK f \in Instr.callbacks :
          Activate(f, Instr.cbargs, height + Instr.cbargs, -1, End, ns)
    BY <1>12 DEF function_call_ex
  <2>5. f \in Functions /\ Instr.cbargs \in Int /\ height + Instr.cbargs \in Int /\ -1 \in Int
    BY <1>t, <2>2
  <2> HIDE DEF ns
  <2> QED
    BY <1>t, <2>3, <2>4, <2>5, OwnedActivate
<1>13. CASE OP_END
  <2> DEFINE e == Last(native_stack)
             n == Len(frame_stack)
  <2>1. CASE UNCHANGED << mark_stack, frame_stack, caught, strayed >>
    BY <1>u, <2>1
  <2>2. CASE e.kind = "eval" /\ DropFrames(e.frames) /\ UNCHANGED << mark_stack, caught, strayed >>
    <3>1. CASE ~(e.frames < n)
      BY <1>u, <2>2, <3>1 DEF DropFrames
    <3>2. CASE e.frames < n
      <4>1. /\ frame_stack \in Seq(FrameRec) /\ Nested(frame_stack, native_stack)
            /\ e.frames \in 1 .. n /\ e = native_stack[Len(native_stack)] /\ n \in Nat
            /\ n > e.frames => frame_stack[n].scope \notin ReturnScopes \cup {Root}
        BY <1>13, <1>t, <2>2, EndFacts DEF OP_END
      <4>2. e.frames \in 0 .. n /\ n > e.frames
        BY <3>2, <4>1
      <4>3. \A j \in e.frames + 1 .. n : frame_stack[j].type \notin ActTypes
        BY <1>t, <4>1, <4>2, NoActFrame
      <4>4. frame_stack' = SubSeq(frame_stack, 1, e.frames)
        BY <2>2, <3>2 DEF DropFrames
      <4> QED
        BY <2>2, <4>2, <4>3, <4>4, OwnedDrop
    <3> QED
      BY <3>1, <3>2
  <2>3. CASE /\ e.kind = "default"
             /\ PassArgs(e.run, e.argcnt + 1, height, e.pc, e.ops, Front(native_stack))
    <3>1. Front(native_stack) \in NativeStacks
      BY <1>t, <2>3, NativeFront
    <3>2. e.run \in Functions /\ e.argcnt + 1 \in Nat /\ e.pc \in Int /\ e.ops \in OpArrays
      BY <2>3 DEF NativeRec
    <3> QED
      BY <1>t, <2>3, <3>1, <3>2, OwnedPassArgs
  <2> QED
    BY <1>13, <2>1, <2>2, <2>3 DEF OP_END
<1>14. CASE UNCHANGED vars
  BY <1>14, <1>u DEF vars
<1> QED
  BY <1>1, <1>2, <1>3, <1>4, <1>5, <1>6, <1>7, <1>8, <1>9, <1>10, <1>11, <1>12,
     <1>13, <1>14 DEF Next, Terminated

\* An exception that has been caught stays caught.
LEMMA CaughtStays ==
  ASSUME caught, EachMarkOwned, [Next]_vars
  PROVE  EachMarkOwned'
<1>1. ASSUME NEW o, NEW own, NEW ns, Raise(o, own, ns) PROVE caught'
  BY <1>1 DEF Raise
<1>2. ASSUME NEW f, NEW n, NEW h, NEW at, NEW from, NEW ns, PassArgs(f, n, h, at, from, ns)
      PROVE  caught'
  BY <1>1, <1>2 DEF PassArgs, Activate
<1>3. caught'
  BY <1>1, <1>2 DEF Next, vars, MayThrow, VALUE, ARG, OP_NEXTSTATE, OP_JUMP, JUMP_IF,
     ENTER, OP_ENTER_FOREACH, OP_CLASS_ENTER, OP_LEAVE, OP_CLASS_LEAVE, OP_FOR_ITER, OP_LAST,
     OP_TRY, OP_DIE, OP_FUNCALL, OP_METHOD_CALL, CODE_CALL, OP_RETURN, NATIVE,
     function_call_ex, eval, NativeReturn, NativeThrow, OP_END, Terminated, Activate
<1> QED
  BY <1>3 DEF EachMarkOwned

LEMMA OwnedCorrect == Spec => []EachMarkOwned
<1>1. Init => EachMarkOwned
  BY DEF Init, EachMarkOwned
<1>2. TypeOK /\ MarksPresent /\ Mirrors /\ EachMarkOwned /\ [Next]_vars => EachMarkOwned'
  BY OwnedStep, CaughtStays
<1> QED
  BY <1>1, <1>2, TypeCorrect, MarksCorrect, MirrorsCorrect, PTL DEF Spec

(***************************************************************************)
(* Until an exception is caught, the innermost mark is that of the         *)
(* innermost function or try frame, and outside all of them there is none: *)
(* the stack picture in OP_FUNCALL, and what OP_RETURN pops.               *)
(***************************************************************************)
THEOREM MarkOwnedCorrect == Spec => []MarkOwned
<1>1. TypeOK /\ MarksPresent /\ EachMarkOwned => MarkOwned
  BY OwnedMarks
<1> QED
  BY <1>1, TypeCorrect, MarksCorrect, OwnedCorrect, PTL

(***************************************************************************)
(* stack.resize() and stack.pop() never go below the operands of an outer  *)
(* frame: every frame's top is within the stack, and, until an exception   *)
(* is caught, OP_RETURN takes its value from above its own frame.          *)
(***************************************************************************)
THEOREM NoPaddingCorrect == Spec => []NoPadding
<1>1. ASSUME TypeOK, Mirrors, ~strayed, mode \in {"op", "native"}, NEW k \in DOMAIN frame_stack
      PROVE  frame_stack[k].top <= height /\ frame_stack[k].argcnt >= 0
  <2> DEFINE fs == frame_stack
             n == Len(frame_stack)
             floor == FloorIn(frame_stack, native_stack, Len(frame_stack), Len(native_stack))
  <2>1. /\ fs \in Seq(FrameRec) /\ native_stack \in NativeStacks /\ height \in Int
        /\ Nested(fs, native_stack) /\ k \in 1 .. n /\ ops \in OpArrays /\ n \in Nat
    BY <1>1, FrameStackType DEF Mirrors, TypeOK
  <2>2. fs[k].top <= floor /\ fs[k].top \in Int /\ floor \in Int
    BY <2>1, FloorHighest, StackTypes
  <2>3. height >= floor
    <3>1. CASE mode = "op"
      <4>1. height >= floor + DepthAt[ops][pc] /\ DepthAt[ops][pc] \in Nat
        BY <1>1, <2>1, <3>1, OpFacts DEF Mirrors
      <4> HIDE DEF floor
      <4> QED
        BY <2>1, <2>2, <4>1
    <3>2. CASE mode = "native"
      <4>1. /\ IsNative(ops, pc) /\ height + Code[ops][pc].pop >= floor + DepthAt[ops][pc]
        BY <1>1, <3>2 DEF Mirrors, InControl, GoesOn
      <4>2. WellFormedOp(ops, pc) /\ Code[ops][pc].op = "NATIVE" /\ DepthAt[ops][pc] \in Nat
        BY <1>1, <4>1, OpTypes DEF IsNative
      <4> DEFINE pop == Code[ops][pc].pop
                 d == DepthAt[ops][pc]
      <4>3. pop \in 0 .. d /\ d \in Nat /\ height + pop >= floor + d
        BY <4>1, <4>2 DEF WellFormedOp
      <4> HIDE DEF floor, pop, d
      <4> QED
        BY <2>1, <2>2, <4>3
    <3> QED
      BY <1>1, <3>1, <3>2
  <2>4. fs[k].argcnt >= 0
    <3>1. CASE k = 1
      BY <2>1, <3>1 DEF Nested, Bottom
    <3>2. CASE k # 1
      <4>1. k \in 2 .. n
        BY <2>1, <3>2
      <4>2. FrameFits(fs, native_stack, k)
        BY <2>1, <4>1 DEF Nested
      <4> QED
        BY <4>2 DEF FrameFits
    <3> QED
      BY <3>1, <3>2
  <2> HIDE DEF floor
  <2> QED
    BY <2>1, <2>2, <2>3, <2>4
<1>2. ASSUME TypeOK, Mirrors, MarksPresent, MarkOwned, At("RETURN"), ~strayed, ~caught,
             NEW k \in DOMAIN frame_stack, IsInnermost(k, ActTypes)
      PROVE  frame_stack[k].top <= HeightAfterTake
  <2>1. frame_stack[k].top <= height /\ frame_stack[k].top \in Int /\ height \in Int
    <3>1. mode = "op"
      BY <1>2 DEF At
    <3>2. frame_stack[k].top <= height
      BY <1>1, <1>2, <3>1
    <3>3. frame_stack[k].top \in Int
      BY <1>2, FrameStackType DEF FrameRec
    <3> QED
      BY <1>2, <3>2, <3>3 DEF TypeOK
  <2>2. /\ frame_stack[k].mk = Len(mark_stack) /\ frame_stack[k].mk \in DOMAIN mark_stack
        /\ mark_stack[frame_stack[k].mk] = frame_stack[k].top
    BY <1>2 DEF MarkOwned, MarksPresent, IsInnermost
  <2>3. Last(mark_stack) = frame_stack[k].top
    BY <2>2 DEF Last
  <2> QED
    BY <2>1, <2>3 DEF HeightAfterTake
<1>3. TypeOK /\ Mirrors /\ MarksPresent /\ MarkOwned => NoPadding
  BY <1>1, <1>2 DEF NoPadding
<1> QED
  BY <1>3, TypeCorrect, MirrorsCorrect, MarksCorrect, MarkOwnedCorrect, PTL

-----------------------------------------------------------------------------
(* What holds of every program, until a catch strays.                      *)

LEMMA NestedReturnStep ==
  ASSUME TypeOK, Mirrors, ~strayed, [Next]_vars,
         mode' = "native", Len(native_stack') < Len(native_stack)
  PROVE  /\ Len(frame_stack') = Last(native_stack).frames
         /\ height' >= Last(native_stack).height
<1> DEFINE e == Last(native_stack)
           n == Len(frame_stack)
<1>1. ASSUME NEW o, NEW own, NEW ns, Raise(o, own, ns) PROVE mode' # "native"
  <2>1. mode' = "died" \/ mode' = "op"
    BY <1>1 DEF Raise
  <2> QED
    BY <2>1
<1>2. ASSUME NEW f, NEW c, NEW h, NEW at, NEW from, NEW ns, PassArgs(f, c, h, at, from, ns)
      PROVE  mode' # "native"
  BY <1>1, <1>2 DEF PassArgs, Activate
<1>3. Len(native_stack) \in Nat
  BY FrameStackType
<1>4. ~ UNCHANGED native_stack
  BY <1>3
<1>5. OP_END
  BY <1>1, <1>2, <1>4 DEF Next, vars, MayThrow, VALUE, ARG, OP_NEXTSTATE, OP_JUMP, JUMP_IF,
     ENTER, OP_ENTER_FOREACH, OP_CLASS_ENTER, OP_LEAVE, OP_CLASS_LEAVE, OP_FOR_ITER, OP_LAST,
     OP_TRY, OP_DIE, OP_FUNCALL, OP_METHOD_CALL, CODE_CALL, OP_RETURN, NATIVE,
     function_call_ex, eval, NativeReturn, NativeThrow, Terminated, Activate
<1>6. /\ At("END")
      /\ \/ e.kind = "ex" /\ height' = height - 1 /\ frame_stack' = frame_stack
         \/ /\ e.kind = "eval" /\ height' = (IF e.height < height THEN e.height ELSE height)
            /\ DropFrames(e.frames)
  BY <1>2, <1>4, <1>5 DEF OP_END
<1>7. e.kind # "main"
  BY <1>6
<1>8. /\ frame_stack \in Seq(FrameRec) /\ height \in Int /\ n \in Nat
      /\ NativeFits(frame_stack, native_stack, Len(native_stack)) /\ e = native_stack[Len(native_stack)]
      /\ e.frames \in 1 .. n /\ e.height \in Int /\ height >= e.height
      /\ e.run \in Functions \cup {End} => n = e.frames /\ height >= e.height + 1
  BY <1>6, <1>7, EndFacts
<1>9. CASE e.kind = "ex" /\ height' = height - 1 /\ frame_stack' = frame_stack
  <2>1. e.run = End
    BY <1>8, <1>9 DEF NativeFits
  <2> HIDE DEF e
  <2> QED
    BY <1>8, <1>9, <2>1 DEF e
<1>10. CASE /\ e.kind = "eval" /\ height' = (IF e.height < height THEN e.height ELSE height)
            /\ DropFrames(e.frames)
  <2>1. Len(frame_stack') = e.frames
    <3>1. CASE e.frames < n
      <4>1. e.frames \in 0 .. n
        BY <1>8
      <4> QED
        BY <1>8, <1>10, <3>1, <4>1, PrefixFacts DEF DropFrames
    <3>2. CASE ~(e.frames < n)
      BY <1>8, <1>10, <3>2 DEF DropFrames
    <3> QED
      BY <3>1, <3>2
  <2>2. height' >= e.height
    <3> HIDE DEF e
    <3> QED
      BY <1>8, <1>10
  <2> QED
    BY <2>1, <2>2
<1> QED
  BY <1>6, <1>9, <1>10

(***************************************************************************)
(* function_call_ex and eval give the native function that called them its *)
(* frames back, and at least its operands ("And... restore VM state!"), in *)
(* every run in which no catch strays out of a nested execute().           *)
(***************************************************************************)
THEOREM NestedExecuteCorrect == Spec /\ []~strayed => NestedExecuteRestores
<1>1. TypeOK /\ Mirrors /\ ~strayed /\ [Next]_vars =>
        [ mode' = "native" /\ Len(native_stack') < Len(native_stack)
            => /\ Len(frame_stack') = Last(native_stack).frames
               /\ height' >= Last(native_stack).height
        ]_vars
  BY NestedReturnStep
<1> QED
  BY <1>1, TypeCorrect, MirrorsCorrect, PTL DEF Spec, NestedExecuteRestores

(***************************************************************************)
(* What the runs on stale code and on thrown callbacks refute has no other *)
(* cause than a catch that strays: until then a nested execute() leaves    *)
(* its caller's frames alone, and the op array that runs is the one that   *)
(* its innermost frame was made for.                                       *)
(***************************************************************************)
THEOREM StaysInside == Spec => [](~strayed => RunsOwnCode /\ CallerFramesStay)
<1>1. TypeOK /\ Mirrors => (~strayed => RunsOwnCode /\ CallerFramesStay)
  <2> SUFFICES ASSUME TypeOK, Mirrors, ~strayed PROVE RunsOwnCode /\ CallerFramesStay
    OBVIOUS
  <2>1. /\ frame_stack \in Seq(FrameRec) /\ native_stack \in NativeStacks
        /\ Nested(frame_stack, native_stack)
        /\ InControl(frame_stack, native_stack, mode, ops, pc, height)
    BY DEF Mirrors, TypeOK
  <2>2. RunsOwnCode
    BY <2>1 DEF RunsOwnCode, InControl, GoesOn, OpsIn, OpsOn
  <2>3. ASSUME NEW l \in DOMAIN native_stack PROVE native_stack[l].frames <= Len(frame_stack)
    <3>1. l \in 1 .. Len(native_stack) /\ Len(frame_stack) \in Nat
      BY <2>1, StackTypes
    <3>2. native_stack[l].frames \in 1 .. Len(frame_stack)
      BY <2>1, <3>1, NestedFacts
    <3> QED
      BY <3>1, <3>2
  <2> QED
    BY <2>2, <2>3 DEF CallerFramesStay
<1> QED
  BY <1>1, TypeCorrect, MirrorsCorrect, PTL

\* The frames and marks that ops take for granted: those of the loop of a
\* `last`, of the function or try of a `return` or of an argument, and the
\* innermost frame.
OpsFindFrames ==
  /\ \A op \in {"NEXTSTATE", "LEAVE", "CLASS_LEAVE", "FOR_ITER"} : At(op) => Frames
  /\ At("LAST") => \E k \in DOMAIN frame_stack :
       IsInnermost(k, LoopTypes \cup ActTypes) /\ frame_stack[k].type \in LoopTypes
  /\ At("RETURN") \/ At("ARG") =>
       mark_stack # << >> /\ \E k \in DOMAIN frame_stack : IsInnermost(k, ActTypes)

(***************************************************************************)
(* No assertion of OP_LAST or OP_RETURN can fail and no op finds the frame *)
(* or the mark missing that it works on: what TLC's search for deadlocks   *)
(* says of the programs of the runs.                                       *)
(***************************************************************************)
THEOREM NoAssertionFails == Spec => [](~strayed => OpsFindFrames)
<1> DEFINE fs == frame_stack
           n == Len(frame_stack)
           s == ScopeAt[ops][pc]
<1>1. TypeOK /\ Mirrors /\ MarksPresent => (~strayed => OpsFindFrames)
  <2> SUFFICES ASSUME TypeOK, Mirrors, MarksPresent, ~strayed PROVE OpsFindFrames
    OBVIOUS
  <2>1. ASSUME NEW op, At(op), s # Root
        PROVE  /\ WellFormedOp(ops, pc) /\ Code[ops][pc].op = op /\ Frames
               /\ fs \in Seq(FrameRec) /\ native_stack \in NativeStacks /\ Nested(fs, native_stack)
               /\ n > native_stack[Len(native_stack)].frames /\ s = fs[n].scope
               /\ DOMAIN fs = 1 .. n
    BY <2>1, AtFacts, OpFacts, FrameStackType
  <2>2. ASSUME NEW op, At(op) PROVE WellFormedOp(ops, pc) /\ Code[ops][pc].op = op
    BY <2>2, AtFacts, OpFacts
  <2>3. ASSUME NEW op \in {"NEXTSTATE", "LEAVE", "CLASS_LEAVE", "FOR_ITER"}, At(op) PROVE Frames
    <3>1. s # Root
      BY <2>2, <2>3 DEF WellFormedOp
    <3> QED
      BY <2>1, <2>3, <3>1
  <2>4. ASSUME At("LAST")
        PROVE  \E k \in DOMAIN fs : IsInnermost(k, LoopTypes \cup ActTypes) /\ fs[k].type \in LoopTypes
    <3>1. s \in DOMAIN LoopOf /\ s # Root
      BY <2>2, <2>4, ScopesAssumption DEF WellFormedOp, WellNested
    <3>2. /\ fs \in Seq(FrameRec) /\ native_stack \in NativeStacks /\ Nested(fs, native_stack)
          /\ n > native_stack[Len(native_stack)].frames /\ s = fs[n].scope /\ DOMAIN fs = 1 .. n
      BY <2>1, <2>4, <3>1
    <3> HIDE DEF s
    <3>3. PICK k \in 1 .. n :
            /\ fs[k].type \in LoopTypes
            /\ \A j \in k + 1 .. n : fs[j].type \notin LoopTypes \cup ActTypes
      BY <3>1, <3>2, LoopFrame
    <3> QED
      BY <3>2, <3>3 DEF IsInnermost
  <2>5. ASSUME NEW op \in {"RETURN", "ARG"}, At(op)
        PROVE  mark_stack # << >> /\ \E k \in DOMAIN fs : IsInnermost(k, ActTypes)
    <3>1. s \in ReturnScopes /\ s # Root
      BY <2>2, <2>5, ScopesAssumption DEF WellFormedOp, WellNested
    <3>2. /\ fs \in Seq(FrameRec) /\ native_stack \in NativeStacks /\ Nested(fs, native_stack)
          /\ n > native_stack[Len(native_stack)].frames /\ s = fs[n].scope /\ DOMAIN fs = 1 .. n
      BY <2>1, <2>5, <3>1
    <3>3. PICK k \in 1 .. n :
            fs[k].type \in ActTypes /\ \A j \in k + 1 .. n : fs[j].type \notin ActTypes
      BY <3>1, <3>2, ActFrame
    <3>4. fs[k].mk \in DOMAIN mark_stack
      BY <3>2, <3>3 DEF MarksPresent
    <3>5. mark_stack # << >>
      BY <3>4
    <3> QED
      BY <3>2, <3>3, <3>5 DEF IsInnermost
  <2> QED
    BY <2>3, <2>4, <2>5 DEF OpsFindFrames
<1> QED
  BY <1>1, TypeCorrect, MirrorsCorrect, MarksCorrect, PTL

=============================================================================
