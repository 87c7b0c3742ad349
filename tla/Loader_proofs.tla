---------------------------- MODULE Loader_proofs ----------------------------
(***************************************************************************)
(* Theorems about module Loader, for any modules, names and libraries.     *)
(* What the proofs use of the text of a file is that its blocks are nested *)
(* (Nests), and, where it is named, what NoCycle, NoClassSkipped and       *)
(* NoUseInClass say of the library.                                        *)
(***************************************************************************)
EXTENDS Loader, WellFoundedInduction, TLAPS

Body(f) == disk[f].body

Entries ==
  [mod : Modules, all : BOOLEAN, ops : Files, pc : Nat, scope : Nat, home : Nat, frames : Nat]

\* What activation i of eval runs, the frames below it and the scope made for it; 0 is the main file.
RunBy(ns, i)  == IF i = 0 THEN Main ELSE ns[i].mod
BaseOf(ns, i) == IF i = 0 THEN 0 ELSE ns[i].frames
HomeOf(ns, i) == IF i = 0 THEN 1 ELSE ns[i].home

\* The frames from b to t are those that file f has pushed at p.
Fits(fs, b, t, f, p) ==
  LET at == FramesAt(Body(f))[p] IN
    t = b + Len(at) /\ \A k \in 1..Len(at) : fs[b + k] = at[k]

Suspended(fs, ns) ==
  \A i \in 1..Len(ns) :
    /\ ns[i].ops = RunBy(ns, i - 1)
    /\ ns[i].pc \in 1..Len(Body(ns[i].ops))
    /\ Body(ns[i].ops)[ns[i].pc].op = "use"
    /\ Body(ns[i].ops)[ns[i].pc].mod = ns[i].mod
    /\ Fits(fs, BaseOf(ns, i - 1), ns[i].frames, ns[i].ops, ns[i].pc)
    /\ \A j \in i..Len(ns) : ns[i].frames <= ns[j].frames

\* Every frame belongs to the activation that pushed it, and is one of the
\* blocks its statement is in.
FramingOf(fs, ns, o, p) ==
  /\ fs \in Seq(FrameRecs) /\ ns \in Seq(Entries)
  /\ o = RunBy(ns, Len(ns))
  /\ p \in 1..Len(Body(o)) + 1
  /\ Fits(fs, BaseOf(ns, Len(ns)), Len(fs), o, p)
  /\ Suspended(fs, ns)

Framing == disk \in Disks /\ FramingOf(frame_stack, native_stack, ops, pc)

-----------------------------------------------------------------------------
(* Sequences. *)

\* Frames and entries are records in sequences.
LEMMA StackTypes ==
  ASSUME NEW fs \in Seq(FrameRecs), NEW ns \in Seq(Entries)
  PROVE  /\ Len(fs) \in Nat /\ DOMAIN fs = 1..Len(fs)
         /\ Len(ns) \in Nat /\ DOMAIN ns = 1..Len(ns)
         /\ \A k \in 1..Len(fs) : fs[k].type \in {"try", "class"} /\ fs[k].to \in Nat
         /\ \A i \in 1..Len(ns) :
              /\ ns[i].mod \in Modules /\ ns[i].ops \in Files /\ ns[i].pc \in Nat
              /\ ns[i].scope \in Nat /\ ns[i].home \in Nat /\ ns[i].frames \in Nat
         /\ \A i \in 0..Len(ns) : RunBy(ns, i) \in Files /\ BaseOf(ns, i) \in Nat
<1>1. /\ Len(fs) \in Nat /\ DOMAIN fs = 1..Len(fs)
      /\ Len(ns) \in Nat /\ DOMAIN ns = 1..Len(ns)
      /\ \A k \in 1..Len(fs) : fs[k] \in FrameRecs
      /\ \A i \in 1..Len(ns) : ns[i] \in Entries
  OBVIOUS
<1>2. \A k \in 1..Len(fs) : fs[k].type \in {"try", "class"} /\ fs[k].to \in Nat
  BY <1>1 DEF FrameRecs
<1>3. \A i \in 1..Len(ns) :
        /\ ns[i].mod \in Modules /\ ns[i].ops \in Files /\ ns[i].pc \in Nat
        /\ ns[i].scope \in Nat /\ ns[i].home \in Nat /\ ns[i].frames \in Nat
  BY <1>1 DEF Entries
<1>4. ASSUME NEW i \in 0..Len(ns) PROVE RunBy(ns, i) \in Files /\ BaseOf(ns, i) \in Nat
  <2>1. CASE i = 0
    BY <2>1 DEF RunBy, BaseOf, Files
  <2>2. CASE i # 0
    <3>1. i \in 1..Len(ns)
      BY <1>1, <2>2
    <3> QED
      BY <1>3, <2>2, <3>1 DEF RunBy, BaseOf, Files
  <2> QED
    BY <2>1, <2>2
<1> QED
  BY <1>1, <1>2, <1>3, <1>4

\* A beginning of a sequence.
LEMMA Cut ==
  ASSUME NEW S, NEW q \in Seq(S), NEW n \in 0..Len(q)
  PROVE  /\ SubSeq(q, 1, n) \in Seq(S) /\ Len(SubSeq(q, 1, n)) = n
         /\ \A k \in 1..n : SubSeq(q, 1, n)[k] = q[k]
  OBVIOUS

\* Front and Last, as the library defines them.
LEMMA FrontLast ==
  ASSUME NEW S, NEW q \in Seq(S), q # << >>
  PROVE  /\ Len(q) \in Nat \ {0}
         /\ Front(q) \in Seq(S) /\ Len(Front(q)) = Len(q) - 1
         /\ \A k \in 1..Len(q) - 1 : Front(q)[k] = q[k]
         /\ Last(q) = q[Len(q)] /\ Last(q) \in S
<1>1. Len(q) \in Nat \ {0}
  OBVIOUS
<1>2. Front(q) = SubSeq(q, 1, Len(q) - 1) /\ Last(q) = q[Len(q)]
  BY DEF Front, Last
<1>3. /\ SubSeq(q, 1, Len(q) - 1) \in Seq(S) /\ Len(SubSeq(q, 1, Len(q) - 1)) = Len(q) - 1
      /\ \A k \in 1..Len(q) - 1 : SubSeq(q, 1, Len(q) - 1)[k] = q[k]
  <2>1. Len(q) - 1 \in 0..Len(q)
    BY <1>1
  <2> QED
    BY <2>1, Cut
<1>4. q[Len(q)] \in S
  BY <1>1
<1> QED
  BY <1>1, <1>2, <1>3, <1>4

\* One more frame.
LEMMA Pushed ==
  ASSUME NEW q \in Seq(FrameRecs), NEW x \in FrameRecs
  PROVE  /\ Append(q, x) \in Seq(FrameRecs) /\ Len(Append(q, x)) = Len(q) + 1
         /\ \A k \in 1..Len(q) : Append(q, x)[k] = q[k]
         /\ Append(q, x)[Len(q) + 1] = x
  OBVIOUS

-----------------------------------------------------------------------------
(* The text of a file. *)

\* A file of a library has nested blocks and statements with their operands.
LEMMA Text ==
  ASSUME LoaderAssumption, disk \in Disks, NEW f \in Files
  PROVE  /\ Body(f) \in Seq(Statements) /\ Len(Body(f)) \in Nat
         /\ Nests(Body(f), FramesAt(Body(f)))
         /\ \A p \in 1..Len(Body(f)) : Body(f)[p] \in Statements
         /\ \A p \in 1..Len(Body(f)) + 1 :
              FramesAt(Body(f))[p] \in Seq(FrameRecs) /\ Len(FramesAt(Body(f))[p]) \in Nat
<1>1. Body(f) \in Seq(Statements) /\ Nests(Body(f), FramesAt(Body(f)))
  BY DEF LoaderAssumption, Body
<1>2. FramesAt(Body(f)) \in [1..Len(Body(f)) + 1 -> Seq(FrameRecs)]
  BY <1>1, Zenon DEF Nests
<1> QED
  BY <1>1, <1>2

\* The operands of the statements.
LEMMA Operands ==
  ASSUME NEW s \in Statements
  PROVE  /\ s.op \in {"sub", "class", "parent", "use", "try", "try_end", "class_end", "die"}
         /\ s.op \in {"sub", "class", "parent"} => s.name \in Ids
         /\ s.op = "use" => s.mod \in Modules /\ s.all \in BOOLEAN
         /\ s.op = "try" => s.to \in Nat
  BY DEF Statements
-----------------------------------------------------------------------------
(* How the frames change: a statement goes on, a catch, a use, an end.     *)

\* The frames of the activation in control, spelled out.
LEMMA OwnFrames ==
  ASSUME LoaderAssumption, disk \in Disks,
         NEW fs, NEW ns, NEW o, NEW p, FramingOf(fs, ns, o, p)
  PROVE  /\ Len(fs) \in Nat /\ Len(ns) \in Nat /\ o \in Files
         /\ BaseOf(ns, Len(ns)) \in Nat
         /\ Len(FramesAt(Body(o))[p]) \in Nat
         /\ Len(fs) = BaseOf(ns, Len(ns)) + Len(FramesAt(Body(o))[p])
         /\ \A k \in 1..Len(FramesAt(Body(o))[p]) :
              fs[BaseOf(ns, Len(ns)) + k] = FramesAt(Body(o))[p][k]
<1>1. fs \in Seq(FrameRecs) /\ ns \in Seq(Entries) /\ o = RunBy(ns, Len(ns))
  BY DEF FramingOf
<1>2. Len(fs) \in Nat /\ Len(ns) \in Nat /\ Len(ns) \in 0..Len(ns)
  BY <1>1
<1>3. o \in Files /\ BaseOf(ns, Len(ns)) \in Nat
  BY <1>1, <1>2, StackTypes
<1>4. p \in 1..Len(Body(o)) + 1 /\ Fits(fs, BaseOf(ns, Len(ns)), Len(fs), o, p)
  BY DEF FramingOf
<1>5. Len(FramesAt(Body(o))[p]) \in Nat
  BY <1>3, <1>4, Text
<1> QED
  BY <1>2, <1>3, <1>4, <1>5 DEF Fits

\* What is suspended has its frames below those of the activation in control.
LEMMA SameBelow ==
  ASSUME LoaderAssumption, disk \in Disks,
         NEW fs, NEW fs2, NEW ns \in Seq(Entries), Suspended(fs, ns),
         \A k \in 1..BaseOf(ns, Len(ns)) : fs2[k] = fs[k]
  PROVE  Suspended(fs2, ns)
<1>1. Len(ns) \in Nat /\ \A i \in 1..Len(ns) :
        /\ ns[i].ops \in Files /\ ns[i].frames \in Nat /\ ns[i].mod \in Modules
        /\ BaseOf(ns, i - 1) \in Nat
  <2>1. Len(ns) \in Nat
    OBVIOUS
  <2>2. \A i \in 1..Len(ns) : i - 1 \in 0..Len(ns)
    BY <2>1
  <2>3. << >> \in Seq(FrameRecs)
    OBVIOUS
  <2> QED
    BY <2>1, <2>2, <2>3, StackTypes
<1>2. ASSUME NEW i \in 1..Len(ns)
      PROVE  Fits(fs2, BaseOf(ns, i - 1), ns[i].frames, ns[i].ops, ns[i].pc)
  <2> DEFINE at == FramesAt(Body(ns[i].ops))[ns[i].pc]
             b == BaseOf(ns, i - 1)
             t == ns[i].frames
             top == BaseOf(ns, Len(ns))
  <2>1. ns[i].pc \in 1..Len(Body(ns[i].ops)) /\ t <= ns[Len(ns)].frames
    BY <1>1 DEF Suspended
  <2>2. Len(at) \in Nat
    <3>1. Len(Body(ns[i].ops)) \in Nat
      BY <1>1, Text
    <3>2. ns[i].pc \in 1..Len(Body(ns[i].ops)) + 1
      BY <2>1, <3>1
    <3> QED
      BY <1>1, <3>2, Text
  <2>3. t = b + Len(at) /\ \A k \in 1..Len(at) : fs[b + k] = at[k]
    BY DEF Suspended, Fits
  <2>4. Len(ns) # 0 /\ top = ns[Len(ns)].frames /\ top \in Nat /\ Len(ns) \in 1..Len(ns)
    BY <1>1 DEF BaseOf
  <2>5. b \in Nat /\ t \in Nat /\ t <= top
    BY <1>1, <2>1, <2>4
  <2> HIDE DEF at, b, t, top
  <2>6. \A k \in 1..Len(at) : b + k \in 1..top
    BY <2>2, <2>3, <2>4, <2>5
  <2>7. \A k \in 1..top : fs2[k] = fs[k]
    BY DEF top
  <2>8. t = b + Len(at) /\ \A k \in 1..Len(at) : fs2[b + k] = at[k]
    BY <2>3, <2>6, <2>7
  <2> QED
    BY <2>8 DEF Fits, at, b, t
<1> QED
  BY <1>2 DEF Suspended

\* A statement of the text is met with its frames and leaves the next one's.
LEMMA NextFrames ==
  ASSUME LoaderAssumption, disk \in Disks, NEW f \in Files, NEW p \in 1..Len(Body(f))
  PROVE  /\ p + 1 \in 1..Len(Body(f)) + 1 /\ p \in 1..Len(Body(f)) + 1
         /\ Body(f)[p] \in Statements
         /\ FramesAt(Body(f))[p] \in Seq(FrameRecs)
         /\ FramesAt(Body(f))[p + 1] = Framed(FramesAt(Body(f))[p], Body(f)[p])
         /\ Body(f)[p].op \in DOMAIN Ends =>
              /\ FramesAt(Body(f))[p] # << >>
              /\ FramesAt(Body(f))[p][Len(FramesAt(Body(f))[p])].type = Ends[Body(f)[p].op]
<1>1. Len(Body(f)) \in Nat /\ Body(f)[p] \in Statements
  BY Text
<1>2. p + 1 \in 1..Len(Body(f)) + 1 /\ p \in 1..Len(Body(f)) + 1
  BY <1>1
<1>3. FramesAt(Body(f))[p] \in Seq(FrameRecs)
  BY <1>2, Text
<1>4. Nests(Body(f), FramesAt(Body(f)))
  BY Text
<1> QED
  BY <1>1, <1>2, <1>3, <1>4 DEF Nests

\* Control goes on behind a statement that pushes, pops or leaves the frames.
LEMMA GoneOn ==
  ASSUME LoaderAssumption, disk \in Disks,
         NEW fs, NEW ns, NEW o, NEW p, FramingOf(fs, ns, o, p),
         p <= Len(Body(o)),
         NEW fs2, fs2 = Framed(fs, Body(o)[p])
  PROVE  /\ FramingOf(fs2, ns, o, p + 1)
         /\ Body(o)[p].op \in DOMAIN Ends =>
              fs # << >> /\ fs[Len(fs)].type = Ends[Body(o)[p].op]
<1> DEFINE b == BaseOf(ns, Len(ns))
           s == Body(o)[p]
           at == FramesAt(Body(o))[p]
           at2 == FramesAt(Body(o))[p + 1]
<1>1. /\ Len(fs) \in Nat /\ Len(ns) \in Nat /\ o \in Files /\ b \in Nat /\ Len(at) \in Nat
      /\ Len(fs) = b + Len(at) /\ \A k \in 1..Len(at) : fs[b + k] = at[k]
  BY OwnFrames
<1>2. fs \in Seq(FrameRecs) /\ ns \in Seq(Entries) /\ o = RunBy(ns, Len(ns)) /\ p \in Nat
      /\ Suspended(fs, ns) /\ p \in 1..Len(Body(o))
  <2>1. p \in 1..Len(Body(o)) + 1 /\ Len(Body(o)) \in Nat
    BY <1>1, Text DEF FramingOf
  <2>2. fs \in Seq(FrameRecs) /\ ns \in Seq(Entries) /\ o = RunBy(ns, Len(ns)) /\ Suspended(fs, ns)
    BY DEF FramingOf
  <2> QED
    BY <2>1, <2>2
<1>3. /\ p + 1 \in 1..Len(Body(o)) + 1
      /\ s \in Statements /\ at \in Seq(FrameRecs) /\ at2 = Framed(at, s)
      /\ s.op \in DOMAIN Ends => at # << >> /\ at[Len(at)].type = Ends[s.op]
  BY <1>1, <1>2, NextFrames
<1> HIDE DEF b, s, at, at2
<1>4. ASSUME NEW x \in FrameRecs, Framed(fs, s) = Append(fs, x), Framed(at, s) = Append(at, x)
      PROVE  /\ fs2 \in Seq(FrameRecs) /\ \A k \in 1..b : fs2[k] = fs[k]
             /\ Len(fs2) = b + Len(at2) /\ \A k \in 1..Len(at2) : fs2[b + k] = at2[k]
  <2>1. fs2 = Append(fs, x) /\ at2 = Append(at, x)
    BY <1>3, <1>4 DEF s
  <2>2. /\ fs2 \in Seq(FrameRecs) /\ Len(fs2) = Len(fs) + 1
        /\ \A k \in 1..Len(fs) : fs2[k] = fs[k]
        /\ fs2[Len(fs) + 1] = x
    <3>1. fs \in Seq(FrameRecs) /\ x \in FrameRecs
      BY <1>2
    <3> QED
      BY <2>1, <3>1, Pushed
  <2>3. /\ Len(at2) = Len(at) + 1 /\ \A k \in 1..Len(at) : at2[k] = at[k]
        /\ at2[Len(at) + 1] = x
    BY <1>3, <1>4, <2>1
  <2>4. ASSUME NEW k \in 1..Len(at2) PROVE fs2[b + k] = at2[k]
    <3>1. CASE k = Len(at) + 1
      BY <1>1, <2>2, <2>3, <3>1
    <3>2. CASE k # Len(at) + 1
      <4>1. k \in 1..Len(at) /\ b + k \in 1..Len(fs)
        BY <1>1, <2>3, <3>2
      <4> QED
        BY <1>1, <2>2, <2>3, <4>1
    <3> QED
      BY <3>1, <3>2
  <2> QED
    BY <1>1, <2>2, <2>3, <2>4
<1>5. ASSUME at # << >>, Framed(fs, s) = Front(fs), Framed(at, s) = Front(at)
      PROVE  /\ fs2 \in Seq(FrameRecs) /\ \A k \in 1..b : fs2[k] = fs[k]
             /\ Len(fs2) = b + Len(at2) /\ \A k \in 1..Len(at2) : fs2[b + k] = at2[k]
  <2>1. fs2 = Front(fs) /\ at2 = Front(at)
    BY <1>3, <1>5 DEF s
  <2>2. Len(at2) = Len(at) - 1 /\ Len(at) \in Nat \ {0} /\ \A k \in 1..Len(at) - 1 : at2[k] = at[k]
    BY <1>3, <1>5, <2>1, FrontLast
  <2>3. fs # << >>
    BY <1>1, <2>2
  <2>4. /\ fs2 \in Seq(FrameRecs) /\ Len(fs2) = Len(fs) - 1
        /\ \A k \in 1..Len(fs) - 1 : fs2[k] = fs[k]
    BY <1>2, <2>1, <2>3, FrontLast
  <2>5. \A k \in 1..Len(at2) : k \in 1..Len(at) /\ b + k \in 1..Len(fs) - 1
    BY <1>1, <2>2
  <2>6. \A k \in 1..b : k \in 1..Len(fs) - 1
    BY <1>1, <2>2
  <2>7. Len(fs2) = b + Len(at2)
    BY <1>1, <2>2, <2>4
  <2>8. \A k \in 1..Len(at2) : fs2[b + k] = at2[k]
    BY <1>1, <2>2, <2>4, <2>5
  <2> QED
    BY <2>4, <2>6, <2>7, <2>8
<1>6. ASSUME Framed(fs, s) = fs, Framed(at, s) = at
      PROVE  /\ fs2 \in Seq(FrameRecs) /\ \A k \in 1..b : fs2[k] = fs[k]
             /\ Len(fs2) = b + Len(at2) /\ \A k \in 1..Len(at2) : fs2[b + k] = at2[k]
  <2>1. fs2 = fs /\ at2 = at
    BY <1>3, <1>6 DEF s
  <2> QED
    BY <1>1, <1>2, <2>1
<1>7. /\ fs2 \in Seq(FrameRecs) /\ \A k \in 1..b : fs2[k] = fs[k]
      /\ Len(fs2) = b + Len(at2) /\ \A k \in 1..Len(at2) : fs2[b + k] = at2[k]
  <2>1. CASE s.op = "try"
    <3> DEFINE r == [type |-> "try", to |-> s.to]
    <3>1. r \in FrameRecs
      BY <1>3, <2>1, Operands DEF FrameRecs
    <3>2. Framed(fs, s) = Append(fs, r) /\ Framed(at, s) = Append(at, r)
      BY <2>1 DEF Framed, Ends
    <3> HIDE DEF r
    <3> QED
      BY <1>4, <3>1, <3>2
  <2>2. CASE s.op = "class"
    <3> DEFINE r == [type |-> "class", to |-> 0]
    <3>1. r \in FrameRecs
      BY DEF FrameRecs
    <3>2. Framed(fs, s) = Append(fs, r) /\ Framed(at, s) = Append(at, r)
      BY <2>2 DEF Framed, Ends
    <3> HIDE DEF r
    <3> QED
      BY <1>4, <3>1, <3>2
  <2>3. CASE s.op \in DOMAIN Ends
    <3>1. s.op # "try" /\ s.op # "class"
      BY <2>3 DEF Ends
    <3> QED
      BY <1>3, <1>5, <2>3, <3>1 DEF Framed
  <2>4. CASE s.op \notin {"try", "class"} /\ s.op \notin DOMAIN Ends
    BY <1>6, <2>4 DEF Framed
  <2> QED
    BY <2>1, <2>2, <2>3, <2>4
<1>8. Suspended(fs2, ns)
  <2>1. \A k \in 1..BaseOf(ns, Len(ns)) : fs2[k] = fs[k]
    BY <1>7 DEF b
  <2> QED
    BY <1>2, <2>1, SameBelow
<1>9. Fits(fs2, BaseOf(ns, Len(ns)), Len(fs2), o, p + 1)
  BY <1>7 DEF Fits, at2, b
<1>10. s.op \in DOMAIN Ends => fs # << >> /\ fs[Len(fs)].type = Ends[s.op]
  <2> SUFFICES ASSUME s.op \in DOMAIN Ends PROVE fs # << >> /\ fs[Len(fs)].type = Ends[s.op]
    OBVIOUS
  <2>1. Len(at) \in Nat \ {0}
    BY <1>3, FrontLast
  <2>2. Len(fs) = b + Len(at) /\ Len(fs) > 0 /\ fs[b + Len(at)] = at[Len(at)]
    BY <1>1, <2>1
  <2> QED
    BY <1>3, <2>2
<1> QED
  BY <1>2, <1>3, <1>7, <1>8, <1>9, <1>10 DEF FramingOf, s

\* The frames below a caught try are those of the place where it goes on.
LEMMA Caught ==
  ASSUME LoaderAssumption, disk \in Disks,
         NEW fs, NEW ns, NEW o, NEW p, FramingOf(fs, ns, o, p),
         p <= Len(Body(o)),
         NEW i \in 1..Len(fs), i > BaseOf(ns, Len(ns)), fs[i].type = "try"
  PROVE  FramingOf(SubSeq(fs, 1, i - 1), ns, o, fs[i].to)
<1> DEFINE b == BaseOf(ns, Len(ns))
           at == FramesAt(Body(o))[p]
           fs2 == SubSeq(fs, 1, i - 1)
           at2 == FramesAt(Body(o))[fs[i].to]
           k0 == i - b
<1>1. /\ Len(fs) \in Nat /\ o \in Files /\ b \in Nat /\ Len(at) \in Nat
      /\ Len(fs) = b + Len(at) /\ \A k \in 1..Len(at) : fs[b + k] = at[k]
  BY SMTT(40), OwnFrames
<1>2. fs \in Seq(FrameRecs) /\ ns \in Seq(Entries) /\ o = RunBy(ns, Len(ns))
      /\ Suspended(fs, ns) /\ p \in 1..Len(Body(o)) + 1
  BY DEF FramingOf
<1>3. p \in 1..Len(Body(o)) /\ Nests(Body(o), FramesAt(Body(o)))
  BY <1>1, <1>2, Text
<1>4. at \in Seq(FrameRecs)
  BY <1>1, <1>2, Text
<1>5. i > b
  OBVIOUS
<1> HIDE DEF b
<1>6. k0 \in 1..Len(at) /\ b + k0 = i
  BY <1>1, <1>5
<1> HIDE DEF at, k0
<1>7. at[k0] = fs[i]
  BY <1>1, <1>6
<1>8. fs[i].to \in 1..Len(Body(o)) + 1 /\ at2 = SubSeq(at, 1, k0 - 1)
  <2>1. at[k0].type = "try"
    BY <1>7
  <2>2. \A k \in 1..Len(at) : at[k].type = "try" =>
          /\ at[k].to \in 1..Len(Body(o)) + 1
          /\ FramesAt(Body(o))[at[k].to] = SubSeq(at, 1, k - 1)
    BY <1>3 DEF Nests, at
  <2> QED
    BY <1>6, <1>7, <2>1, <2>2
<1> HIDE DEF at2
<1>9. k0 - 1 \in 0..Len(at) /\ i - 1 \in 0..Len(fs) /\ i - 1 = b + (k0 - 1)
  BY <1>1, <1>6
<1>10. Len(at2) = k0 - 1 /\ \A k \in 1..k0 - 1 : at2[k] = at[k]
  BY <1>4, <1>8, <1>9, Cut
<1>11. /\ fs2 \in Seq(FrameRecs) /\ Len(fs2) = i - 1
       /\ \A k \in 1..i - 1 : fs2[k] = fs[k]
  BY <1>2, <1>9, Cut
<1> HIDE DEF fs2
<1>12. \A k \in 1..Len(at2) : k \in 1..Len(at) /\ b + k \in 1..i - 1
  BY <1>1, <1>6, <1>10
<1>13. Len(fs2) = b + Len(at2) /\ \A k \in 1..Len(at2) : fs2[b + k] = at2[k]
  BY <1>1, <1>9, <1>10, <1>11, <1>12
<1>14. \A k \in 1..b : k \in 1..i - 1
  BY <1>1, <1>5
<1>15. Suspended(fs2, ns)
  <2>1. \A k \in 1..BaseOf(ns, Len(ns)) : fs2[k] = fs[k]
    BY <1>11, <1>14 DEF b
  <2> QED
    BY <1>2, <2>1, SameBelow
<1>16. Fits(fs2, BaseOf(ns, Len(ns)), Len(fs2), o, fs[i].to)
  BY <1>13 DEF Fits, b, at2
<1> QED
  BY <1>2, <1>8, <1>11, <1>15, <1>16 DEF FramingOf, fs2

\* A module begins without frames of its own.
LEMMA Called ==
  ASSUME LoaderAssumption, disk \in Disks,
         NEW fs, NEW ns, NEW o, NEW p, FramingOf(fs, ns, o, p),
         p <= Len(Body(o)), Body(o)[p].op = "use",
         NEW e \in Entries, e.mod = Body(o)[p].mod, e.ops = o, e.pc = p, e.frames = Len(fs)
  PROVE  FramingOf(fs, Append(ns, e), e.mod, 1)
<1> DEFINE ns2 == Append(ns, e)
           n == Len(ns)
<1>1. /\ Len(fs) \in Nat /\ n \in Nat /\ o \in Files /\ BaseOf(ns, n) \in Nat
      /\ Len(FramesAt(Body(o))[p]) \in Nat
      /\ Len(fs) = BaseOf(ns, n) + Len(FramesAt(Body(o))[p])
  BY OwnFrames
<1>2. /\ fs \in Seq(FrameRecs) /\ ns \in Seq(Entries) /\ o = RunBy(ns, n)
      /\ Suspended(fs, ns) /\ p \in 1..Len(Body(o)) + 1
      /\ Fits(fs, BaseOf(ns, n), Len(fs), o, p)
  BY DEF FramingOf
<1>3. p \in 1..Len(Body(o)) /\ e.mod \in Modules /\ e.mod \in Files
  BY <1>1, <1>2, Text DEF Entries, Files
<1>4. /\ ns2 \in Seq(Entries) /\ Len(ns2) = n + 1
      /\ \A j \in 1..n : ns2[j] = ns[j]
      /\ ns2[n + 1] = e
  BY <1>2
<1> HIDE DEF ns2, n
<1>5. \A j \in 1..n : ns[j].frames \in Nat /\ ns[j].frames <= Len(fs)
  <2>1. \A j \in 1..n : ns[j].frames \in Nat
    BY <1>2, StackTypes DEF n
  <2>2. ASSUME NEW j \in 1..n PROVE ns[j].frames <= Len(fs)
    <3>1. n \in j..n /\ n # 0
      BY <1>1
    <3>2. ns[j].frames <= ns[n].frames
      BY <1>2, <3>1 DEF Suspended, n
    <3>3. BaseOf(ns, n) = ns[n].frames
      BY <3>1 DEF BaseOf
    <3> QED
      BY <1>1, <2>1, <3>2, <3>3
  <2> QED
    BY <2>1, <2>2
<1>6. \A j \in 0..n : RunBy(ns2, j) = RunBy(ns, j) /\ BaseOf(ns2, j) = BaseOf(ns, j)
  BY <1>1, <1>4 DEF RunBy, BaseOf
<1>7. RunBy(ns2, n + 1) = e.mod /\ BaseOf(ns2, n + 1) = Len(fs)
  BY <1>1, <1>4 DEF RunBy, BaseOf
<1>8. Fits(fs, Len(fs), Len(fs), e.mod, 1) /\ 1 \in 1..Len(Body(e.mod)) + 1
  <2>1. Len(Body(e.mod)) \in Nat /\ FramesAt(Body(e.mod))[1] = << >>
    BY <1>3, Text DEF Nests
  <2> QED
    BY <1>1, <2>1 DEF Fits
<1>9. ASSUME NEW i \in 1..Len(ns2)
      PROVE  /\ ns2[i].ops = RunBy(ns2, i - 1)
             /\ ns2[i].pc \in 1..Len(Body(ns2[i].ops))
             /\ Body(ns2[i].ops)[ns2[i].pc].op = "use"
             /\ Body(ns2[i].ops)[ns2[i].pc].mod = ns2[i].mod
             /\ Fits(fs, BaseOf(ns2, i - 1), ns2[i].frames, ns2[i].ops, ns2[i].pc)
             /\ \A j \in i..Len(ns2) : ns2[i].frames <= ns2[j].frames
  <2>1. CASE i = n + 1
    <3>1. i - 1 = n /\ n \in 0..n /\ \A j \in i..Len(ns2) : j = i
      BY SMTT(40), <1>1, <1>4, <2>1
    <3>2. ns2[i] = e /\ RunBy(ns2, i - 1) = o /\ BaseOf(ns2, i - 1) = BaseOf(ns, n)
      BY <1>2, <1>4, <1>6, <2>1, <3>1
    <3> QED
      BY SMTT(40), <1>1, <1>2, <1>3, <3>1, <3>2
  <2>2. CASE i # n + 1
    <3>1. i \in 1..n /\ i - 1 \in 0..n /\ \A j \in i..Len(ns2) : j \in i..n \/ j = n + 1
      BY <1>1, <1>4, <2>2
    <3>2. ns2[i] = ns[i] /\ RunBy(ns2, i - 1) = RunBy(ns, i - 1)
          /\ BaseOf(ns2, i - 1) = BaseOf(ns, i - 1)
      BY <1>4, <1>6, <3>1
    <3>3. /\ ns[i].ops = RunBy(ns, i - 1)
          /\ ns[i].pc \in 1..Len(Body(ns[i].ops))
          /\ Body(ns[i].ops)[ns[i].pc].op = "use"
          /\ Body(ns[i].ops)[ns[i].pc].mod = ns[i].mod
          /\ Fits(fs, BaseOf(ns, i - 1), ns[i].frames, ns[i].ops, ns[i].pc)
          /\ \A j \in i..n : ns[i].frames <= ns[j].frames
      BY <1>2, <3>1 DEF Suspended, n
    <3>4. ASSUME NEW j \in i..Len(ns2) PROVE ns2[i].frames <= ns2[j].frames
      <4>1. CASE j = n + 1
        BY <1>4, <1>5, <3>1, <3>2, <4>1
      <4>2. CASE j # n + 1
        <5>1. j \in i..n /\ j \in 1..n
          BY <1>1, <3>1, <4>2
        <5> QED
          BY <1>4, <3>2, <3>3, <5>1
      <4> QED
        BY <4>1, <4>2
    <3> QED
      BY <3>2, <3>3, <3>4
  <2> QED
    BY <2>1, <2>2
<1>10. Suspended(fs, ns2)
  BY <1>9 DEF Suspended
<1> QED
  BY <1>2, <1>4, <1>7, <1>8, <1>10 DEF FramingOf, ns2

\* A module that ends has left no frames, and its user goes on with his own.
LEMMA Returned ==
  ASSUME LoaderAssumption, disk \in Disks,
         NEW fs, NEW ns, NEW o, NEW p, FramingOf(fs, ns, o, p),
         p > Len(Body(o)), ns # << >>
  PROVE  /\ Len(fs) = ns[Len(ns)].frames
         /\ FramingOf(SubSeq(fs, 1, ns[Len(ns)].frames), Front(ns),
                      ns[Len(ns)].ops, ns[Len(ns)].pc + 1)
<1> DEFINE n == Len(ns)
           e == ns[n]
           f == e.ops
           at == FramesAt(Body(f))[e.pc]
           fs2 == SubSeq(fs, 1, e.frames)
           ns2 == Front(ns)
<1>1. /\ fs \in Seq(FrameRecs) /\ ns \in Seq(Entries) /\ o = RunBy(ns, n)
      /\ Suspended(fs, ns) /\ p \in 1..Len(Body(o)) + 1
  BY DEF FramingOf
<1>2. Len(fs) \in Nat /\ o \in Files /\ BaseOf(ns, n) \in Nat
      /\ Len(fs) = BaseOf(ns, n) + Len(FramesAt(Body(o))[p])
  BY OwnFrames
<1>3. n \in Nat \ {0} /\ ns2 \in Seq(Entries) /\ Len(ns2) = n - 1
      /\ \A j \in 1..n - 1 : ns2[j] = ns[j]
  BY <1>1, FrontLast
<1>4. BaseOf(ns, n) = e.frames
  BY <1>3 DEF BaseOf
<1>5. Len(FramesAt(Body(o))[p]) = 0
  <2>1. Len(Body(o)) \in Nat /\ FramesAt(Body(o))[Len(Body(o)) + 1] = << >>
    BY <1>2, Text DEF Nests
  <2>2. p = Len(Body(o)) + 1
    BY <1>1, <2>1
  <2> QED
    BY <2>1, <2>2
<1>6. Len(fs) = e.frames /\ e.frames \in Nat
  BY <1>2, <1>4, <1>5
<1>7. fs2 \in Seq(FrameRecs) /\ Len(fs2) = e.frames /\ \A k \in 1..e.frames : fs2[k] = fs[k]
  <2>1. e.frames \in 0..Len(fs)
    BY <1>6
  <2> QED
    BY <1>1, <2>1, Cut
<1> HIDE DEF fs2, ns2
<1>8. /\ f = RunBy(ns, n - 1) /\ f \in Files /\ e.pc \in 1..Len(Body(f))
      /\ Body(f)[e.pc].op = "use" /\ Fits(fs, BaseOf(ns, n - 1), e.frames, f, e.pc)
      /\ BaseOf(ns, n - 1) \in Nat
  <2>1. n \in 1..Len(ns) /\ n - 1 \in 0..Len(ns)
    BY <1>3
  <2> QED
    BY <1>1, <2>1, StackTypes DEF Suspended
<1>9. \A j \in 0..n - 1 : RunBy(ns2, j) = RunBy(ns, j) /\ BaseOf(ns2, j) = BaseOf(ns, j)
  BY <1>3 DEF RunBy, BaseOf
<1>10. n - 1 \in 0..n - 1
  BY <1>3
<1>11. /\ e.pc + 1 \in 1..Len(Body(f)) + 1
       /\ FramesAt(Body(f))[e.pc + 1] = at
  <2>1. e.pc + 1 \in 1..Len(Body(f)) + 1
        /\ FramesAt(Body(f))[e.pc + 1] = Framed(at, Body(f)[e.pc])
    BY <1>8, NextFrames
  <2> QED
    BY <1>8, <2>1 DEF Framed, Ends
<1>12. Len(at) \in Nat
  BY <1>8, NextFrames
<1>13. Fits(fs2, BaseOf(ns2, n - 1), Len(fs2), f, e.pc + 1)
  <2> DEFINE b == BaseOf(ns, n - 1)
             t == e.frames
  <2>1. t = b + Len(at) /\ \A k \in 1..Len(at) : fs[b + k] = at[k]
    BY <1>8 DEF Fits
  <2>2. b \in Nat /\ t \in Nat /\ Len(fs2) = t /\ \A k \in 1..t : fs2[k] = fs[k]
    BY <1>6, <1>7, <1>8
  <2> HIDE DEF b, t, at
  <2>3. \A k \in 1..Len(at) : b + k \in 1..t
    BY <1>12, <2>1, <2>2
  <2>4. Len(fs2) = b + Len(at) /\ \A k \in 1..Len(at) : fs2[b + k] = at[k]
    BY <2>1, <2>2, <2>3
  <2> QED
    BY <1>9, <1>10, <1>11, <2>4 DEF Fits, b, at
<1>14. Suspended(fs, ns2)
  <2> SUFFICES ASSUME NEW i \in 1..n - 1
               PROVE  /\ ns2[i].ops = RunBy(ns2, i - 1)
                      /\ ns2[i].pc \in 1..Len(Body(ns2[i].ops))
                      /\ Body(ns2[i].ops)[ns2[i].pc].op = "use"
                      /\ Body(ns2[i].ops)[ns2[i].pc].mod = ns2[i].mod
                      /\ Fits(fs, BaseOf(ns2, i - 1), ns2[i].frames, ns2[i].ops, ns2[i].pc)
                      /\ \A j \in i..n - 1 : ns2[i].frames <= ns2[j].frames
    BY <1>3 DEF Suspended
  <2>1. i \in 1..n /\ i - 1 \in 0..n - 1 /\ \A j \in i..n - 1 : j \in i..n /\ j \in 1..n - 1
    BY <1>3
  <2>2. ns2[i] = ns[i] /\ RunBy(ns2, i - 1) = RunBy(ns, i - 1) /\ BaseOf(ns2, i - 1) = BaseOf(ns, i - 1)
    BY <1>3, <1>9, <2>1
  <2>3. /\ ns[i].ops = RunBy(ns, i - 1)
        /\ ns[i].pc \in 1..Len(Body(ns[i].ops))
        /\ Body(ns[i].ops)[ns[i].pc].op = "use"
        /\ Body(ns[i].ops)[ns[i].pc].mod = ns[i].mod
        /\ Fits(fs, BaseOf(ns, i - 1), ns[i].frames, ns[i].ops, ns[i].pc)
        /\ \A j \in i..n : ns[i].frames <= ns[j].frames
    BY <1>1, <2>1 DEF Suspended
  <2>4. \A j \in i..n - 1 : ns2[i].frames <= ns2[j].frames
    BY <1>3, <2>1, <2>2, <2>3
  <2> QED
    BY <2>2, <2>3, <2>4
<1>15. Suspended(fs2, ns2)
  <2>1. BaseOf(ns2, Len(ns2)) <= e.frames /\ BaseOf(ns2, Len(ns2)) \in Nat
    <3>1. BaseOf(ns2, Len(ns2)) = BaseOf(ns, n - 1)
      BY <1>3, <1>9, <1>10
    <3>2. e.frames = BaseOf(ns, n - 1) + Len(at)
      BY <1>8 DEF Fits
    <3> QED
      BY <1>6, <1>8, <1>12, <3>1, <3>2
  <2>2. \A k \in 1..BaseOf(ns2, Len(ns2)) : k \in 1..e.frames
    BY <1>6, <2>1
  <2>3. \A k \in 1..BaseOf(ns2, Len(ns2)) : fs2[k] = fs[k]
    BY <1>7, <2>2
  <2> QED
    BY <1>3, <1>14, <2>3, SameBelow
<1>16. f = RunBy(ns2, Len(ns2))
  BY <1>3, <1>8, <1>9, <1>10
<1> QED
  BY <1>3, <1>6, <1>7, <1>11, <1>13, <1>15, <1>16 DEF FramingOf, fs2, ns2

-----------------------------------------------------------------------------
(* What a step does to the frames. *)

\* A set of numbers has a least one.
LEMMA LeastNat ==
  ASSUME NEW T \in SUBSET Nat, T # {}
  PROVE  \E n \in T : \A m \in T : n <= m
<1> DEFINE R == OpToRel(<, Nat)
<1>1. PICK x \in T : \A y \in T : ~ (<< y, x >> \in R)
  BY NatLessThanWellFounded, WFMin
<1>2. x \in Nat /\ \A y \in T : y \in Nat /\ ~ (y < x)
  BY <1>1 DEF OpToRel
<1>3. \A y \in T : x <= y
  BY <1>2
<1> QED
  BY <1>3

\* A set of numbers up to n has a greatest one.
LEMMA GreatestNat ==
  ASSUME NEW n \in Nat, NEW T, T # {}, \A x \in T : x \in 1..n
  PROVE  \E g \in T : \A x \in T : x <= g
<1> DEFINE U == {u \in Nat : \A x \in T : x <= u}
<1>1. n \in U
  OBVIOUS
<1>2. PICK g \in U : \A u \in U : g <= u
  BY <1>1, LeastNat
<1>3. g \in Nat /\ \A x \in T : x <= g
  OBVIOUS
<1>4. g \in T
  <2> SUFFICES ASSUME g \notin T PROVE FALSE
    OBVIOUS
  <2>1. \A x \in T : x <= g - 1 /\ 1 <= g
    BY <1>3
  <2>2. g - 1 \in Nat
    BY <1>3, <2>1
  <2>3. g - 1 \in U
    BY <2>1, <2>2
  <2>4. g <= g - 1
    BY <1>2, <2>3
  <2> QED
    BY <1>3, <2>4
<1> QED
  BY <1>3, <1>4

GoesOn ==
  /\ pc <= Len(Body(ops))
  /\ frame_stack' = Framed(frame_stack, Stmt) /\ pc' = pc + 1
  /\ Stmt.op = "class_end" => klass_' = NoClass
  /\ Stmt.op \notin {"class", "class_end"} => klass_' = klass_
  /\ UNCHANGED << ops, native_stack >>

Catches ==
  /\ pc <= Len(Body(ops)) /\ Stmt.op \in {"die", "use", "parent"}
  /\ \E i \in 1..Len(frame_stack) :
       /\ i > BaseOf(native_stack, Len(native_stack)) /\ frame_stack[i].type = "try"
       /\ pc' = frame_stack[i].to /\ frame_stack' = SubSeq(frame_stack, 1, i - 1)
       /\ klass_' = Dropped(i)
  /\ UNCHANGED << ops, native_stack >>

Stays == UNCHANGED << pc, frame_stack, ops, native_stack, klass_ >>

\* The frames of the activation in control begin where the definition says.
LEMMA BaseIsFrameBase ==
  ASSUME native_stack \in Seq(Entries)
  PROVE  FrameBase = BaseOf(native_stack, Len(native_stack))
<1>1. CASE native_stack = << >>
  BY <1>1 DEF FrameBase, BaseOf
<1>2. CASE native_stack # << >>
  <2>1. Last(native_stack) = native_stack[Len(native_stack)] /\ Len(native_stack) # 0
    BY <1>2, FrontLast
  <2> QED
    BY <1>2, <2>1 DEF FrameBase, BaseOf
<1> QED
  BY <1>1, <1>2

\* What is thrown is caught by a try of this activation, or nothing moves.
LEMMA Raises ==
  ASSUME LoaderAssumption, Framing, NEW b, Raise(b), ops' = ops,
         pc <= Len(Body(ops)), Stmt.op \in {"die", "use", "parent"}
  PROVE  disk' = disk /\ (Catches \/ Stays)
<1>1. frame_stack \in Seq(FrameRecs) /\ native_stack \in Seq(Entries)
  BY DEF Framing, FramingOf
<1>2. Len(frame_stack) \in Nat
  BY <1>1
<1>3. disk' = disk /\ native_stack' = native_stack
  BY DEF Raise
<1>4. CASE AllTries = {} \/ MyTries = {}
  BY <1>3, <1>4 DEF Raise, Stays
<1>5. CASE AllTries # {} /\ MyTries # {}
  <2> DEFINE i == CHOOSE j \in MyTries : \A k \in MyTries : k <= j
  <2>1. /\ pc' = frame_stack[i].to /\ frame_stack' = SubSeq(frame_stack, 1, i - 1)
        /\ klass_' = Dropped(i)
    BY <1>5 DEF Raise
  <2>2. \E j \in MyTries : \A k \in MyTries : k <= j
    <3>1. \A x \in MyTries : x \in 1..Len(frame_stack)
      BY DEF MyTries
    <3> QED
      BY <1>2, <1>5, <3>1, GreatestNat
  <2>3. i \in MyTries
    BY <2>2
  <2> HIDE DEF i
  <2>4. i \in 1..Len(frame_stack) /\ i > FrameBase /\ frame_stack[i].type = "try"
    BY <2>3 DEF MyTries
  <2> QED
    BY <1>1, <1>3, <2>1, <2>4, BaseIsFrameBase DEF Catches
<1> QED
  BY <1>3, <1>4, <1>5

\* The statements that do nothing to the frames.
LEMMA SameFrames ==
  ASSUME At("sub") \/ At("parent") \/ At("use"), frame_stack' = frame_stack,
         pc' = pc + 1, UNCHANGED << ops, native_stack, klass_ >>
  PROVE  GoesOn
  BY DEF At, GoesOn, Framed, Ends, Body, Stmt

\* Every step is one of five as far as frames are concerned.
LEMMA StepKinds ==
  ASSUME LoaderAssumption, Framing, Next
  PROVE  disk' = disk /\ (GoesOn \/ Catches \/ Stays \/ UseLoads \/ OP_END)
<1>1. CASE OP_TRY
  <2>1. frame_stack' = Append(frame_stack, [type |-> "try", to |-> Stmt.to]) /\ Stmt.op = "try"
    BY <1>1 DEF OP_TRY, At
  <2>2. Framed(frame_stack, Stmt) = Append(frame_stack, [type |-> "try", to |-> Stmt.to])
    BY <2>1 DEF Framed, Ends
  <2>3. pc <= Len(Body(ops)) /\ pc' = pc + 1 /\ UNCHANGED << disk, ops, native_stack, klass_ >>
    BY <1>1 DEF OP_TRY, At, GoOn, Body
  <2> QED
    BY <2>1, <2>2, <2>3, Zenon DEF GoesOn
<1>2. CASE TryEnd
  BY <1>2 DEF TryEnd, At, GoOn, GoesOn, Framed, Ends, Body, Stmt
<1>3. CASE OP_DIE
  <2>1. Raise(FALSE) /\ ops' = ops /\ pc <= Len(Body(ops)) /\ Stmt.op = "die"
    BY <1>3 DEF OP_DIE, At, Raise, Body
  <2> QED
    BY <2>1, Raises
<1>4. CASE OP_FUNCDEF
  BY <1>4, SameFrames DEF OP_FUNCDEF, GoOn
<1>5. CASE OP_CLASS_ENTER
  BY <1>5 DEF OP_CLASS_ENTER, At, GoOn, GoesOn, Framed, Ends, Body, Stmt
<1>6. CASE OP_SET_PARENT
  <2>1. At("parent") /\ pc <= Len(Body(ops)) /\ Stmt.op = "parent"
    BY <1>6 DEF OP_SET_PARENT, At, Body
  <2>2. \/ Raise(FALSE) /\ ops' = ops
        \/ GoOn /\ UNCHANGED << frame_stack, native_stack, klass_ >>
    BY <1>6 DEF OP_SET_PARENT, Raise
  <2>3. CASE Raise(FALSE) /\ ops' = ops
    BY <2>1, <2>3, Raises
  <2>4. CASE GoOn /\ UNCHANGED << frame_stack, native_stack, klass_ >>
    BY <2>1, <2>4, SameFrames DEF GoOn
  <2> QED
    BY <2>2, <2>3, <2>4
<1>7. CASE OP_CLASS_LEAVE
  BY <1>7 DEF OP_CLASS_LEAVE, At, GoOn, GoesOn, Framed, Ends, Body, Stmt
<1>8. CASE UseRequired
  <2>1. At("use") /\ pc <= Len(Body(ops)) /\ Stmt.op = "use"
    BY <1>8 DEF UseRequired, At, Body
  <2>2. \/ Raise(FALSE) /\ ops' = ops
        \/ GoOn /\ UNCHANGED << frame_stack, native_stack, klass_ >>
    BY <1>8 DEF UseRequired, Raise
  <2>3. CASE Raise(FALSE) /\ ops' = ops
    BY <2>1, <2>3, Raises
  <2>4. CASE GoOn /\ UNCHANGED << frame_stack, native_stack, klass_ >>
    BY <2>1, <2>4, SameFrames DEF GoOn
  <2> QED
    BY <2>2, <2>3, <2>4
<1>9. CASE UseFails
  <2>1. Raise(FALSE) /\ ops' = ops /\ pc <= Len(Body(ops)) /\ Stmt.op = "use"
    BY <1>9 DEF UseFails, At, Raise, Body
  <2> QED
    BY <2>1, Raises
<1>10. CASE UseBad
  <2>1. Raise(TRUE) /\ ops' = ops /\ pc <= Len(Body(ops)) /\ Stmt.op = "use"
    BY <1>10 DEF UseBad, At, Raise, Body
  <2> QED
    BY <2>1, Raises
<1>11. CASE UseLoads
  BY <1>11 DEF UseLoads
<1>12. CASE OP_END
  BY <1>12 DEF OP_END
<1>13. CASE Done
  BY <1>13 DEF Done, vars, Stays
<1> QED
  BY <1>1, <1>2, <1>3, <1>4, <1>5, <1>6, <1>7, <1>8, <1>9, <1>10, <1>11, <1>12, <1>13
     DEF Next, Step

\* The entry that UseLoads pushes.
Entered == [mod |-> Stmt.mod, all |-> Stmt.all, ops |-> ops, pc |-> pc,
            scope |-> file_scope_, home |-> Len(scopes) + 1, frames |-> Len(frame_stack)]

\* It keeps what the user of the module goes on with.
LEMMA EnteredIs ==
  ASSUME LoaderAssumption, Framing, UseLoads, file_scope_ \in Nat, Len(scopes) \in Nat
  PROVE  /\ Entered \in Entries /\ native_stack' = Append(native_stack, Entered)
         /\ Entered.mod = Stmt.mod /\ Entered.ops = ops /\ Entered.pc = pc
         /\ Entered.scope = file_scope_ /\ Entered.home = Len(scopes) + 1
         /\ Entered.all = Stmt.all /\ Entered.frames = Len(frame_stack)
         /\ Stmt.op = "use" /\ Stmt = Body(ops)[pc] /\ pc <= Len(Body(ops))
         /\ Stmt.mod \in Modules /\ Stmt.all \in BOOLEAN
<1>1. Stmt.op = "use" /\ Stmt = Body(ops)[pc] /\ pc <= Len(Body(ops))
  BY DEF UseLoads, At, Stmt, Body
<1>2. disk \in Disks /\ ops \in Files /\ Len(frame_stack) \in Nat /\ pc \in 1..Len(Body(ops)) + 1
  BY OwnFrames DEF Framing, FramingOf
<1>3. Stmt \in Statements /\ pc \in Nat
  <2>1. Len(Body(ops)) \in Nat
    BY <1>2, Text
  <2>2. pc \in 1..Len(Body(ops))
    BY <1>1, <1>2, <2>1
  <2> QED
    BY <1>1, <1>2, <2>2, Text
<1>4. Stmt.mod \in Modules /\ Stmt.all \in BOOLEAN
  BY <1>1, <1>3, Operands
<1>5. Len(scopes) + 1 \in Nat
  OBVIOUS
<1>6. Entered \in Entries
  BY <1>2, <1>3, <1>4, <1>5 DEF Entries, Entered
<1>7. native_stack' = Append(native_stack, Entered)
  BY DEF UseLoads, Entered
<1> QED
  BY <1>1, <1>4, <1>6, <1>7 DEF Entered

\* The frames fit in the beginning.
LEMMA FramingInit == ASSUME LoaderAssumption, Init PROVE Framing
<1>1. disk \in Disks /\ frame_stack = << >> /\ native_stack = << >> /\ ops = Main /\ pc = 1
  BY DEF Init
<1>2. Main \in Files /\ Len(Body(Main)) \in Nat /\ FramesAt(Body(Main))[1] = << >>
  BY <1>1, Text DEF Files, Nests
<1>3. Fits(<< >>, 0, 0, Main, 1)
  BY <1>2 DEF Fits
<1>4. Suspended(<< >>, << >>)
  BY DEF Suspended
<1>5. RunBy(<< >>, 0) = Main /\ BaseOf(<< >>, 0) = 0
  BY DEF RunBy, BaseOf
<1> QED
  BY <1>1, <1>2, <1>3, <1>4, <1>5 DEF Framing, FramingOf

\* Every step keeps them fitting.
LEMMA FramingStep ==
  ASSUME LoaderAssumption, Framing, file_scope_ \in Nat, Len(scopes) \in Nat, [Next]_vars
  PROVE  Framing'
<1> DEFINE G(fs, ns, o, p) == FramingOf(fs, ns, o, p)
<1>1. disk \in Disks /\ G(frame_stack, native_stack, ops, pc)
  BY DEF Framing
<1>2. ASSUME disk' = disk, G(frame_stack', native_stack', ops', pc') PROVE Framing'
  BY <1>1, <1>2 DEF Framing, FramingOf, Suspended, Fits, Body, RunBy, BaseOf
<1>3. CASE UNCHANGED vars
  BY <1>1, <1>2, <1>3 DEF vars
<1>4. CASE Next
  <2>1. disk' = disk /\ (GoesOn \/ Catches \/ Stays \/ UseLoads \/ OP_END)
    BY <1>4, StepKinds
  <2>2. CASE GoesOn
    <3>1. G(frame_stack', native_stack, ops, pc + 1)
      BY <1>1, <2>2, GoneOn DEF GoesOn, Stmt, Body
    <3> QED
      BY <1>2, <2>1, <2>2, <3>1 DEF GoesOn
  <2>3. CASE Catches
    <3>1. PICK i \in 1..Len(frame_stack) :
            /\ i > BaseOf(native_stack, Len(native_stack)) /\ frame_stack[i].type = "try"
            /\ pc' = frame_stack[i].to /\ frame_stack' = SubSeq(frame_stack, 1, i - 1)
      BY <2>3 DEF Catches
    <3>2. G(SubSeq(frame_stack, 1, i - 1), native_stack, ops, frame_stack[i].to)
      BY <1>1, <2>3, <3>1, Caught DEF Catches
    <3> QED
      BY <1>2, <2>1, <2>3, <3>1, <3>2 DEF Catches
  <2>4. CASE Stays
    BY <1>1, <1>2, <2>1, <2>4 DEF Stays
  <2>5. CASE UseLoads
    <3>1. G(frame_stack, Append(native_stack, Entered), Entered.mod, 1)
      BY <1>1, <2>5, EnteredIs, Called
    <3>2. frame_stack' = frame_stack /\ ops' = Stmt.mod /\ pc' = 1
      BY <2>5 DEF UseLoads
    <3> QED
      BY <1>2, <2>1, <2>5, <3>1, <3>2, EnteredIs
  <2>6. CASE OP_END
    <3>1. CASE native_stack = << >>
      BY <1>1, <1>2, <2>1, <2>6, <3>1 DEF OP_END
    <3>2. CASE native_stack # << >>
      <4> DEFINE e == native_stack[Len(native_stack)]
      <4>1. Last(native_stack) = e
        BY <1>1, <3>2, FrontLast DEF FramingOf
      <4>2. /\ pc > Len(Body(ops)) /\ ops' = e.ops /\ pc' = e.pc + 1
            /\ frame_stack' = SubSeq(frame_stack, 1, e.frames) /\ native_stack' = Front(native_stack)
        BY <2>6, <3>2, <4>1 DEF OP_END, ResumeAt, Body
      <4>3. G(SubSeq(frame_stack, 1, e.frames), Front(native_stack), e.ops, e.pc + 1)
        BY <1>1, <3>2, <4>2, Returned
      <4> QED
        BY <1>2, <2>1, <4>2, <4>3
    <3> QED
      BY <3>1, <3>2
  <2> QED
    BY <2>1, <2>2, <2>3, <2>4, <2>5, <2>6
<1> QED
  BY <1>3, <1>4

-----------------------------------------------------------------------------
(* Scopes: they are added, and names are added to them. *)

\* What refers to a scope refers to one that was made.
Scoping ==
  /\ \E S : scopes \in Seq(S)
  /\ file_scope_ \in 1..Len(scopes)
  /\ \A i \in 1..Len(native_stack) :
       native_stack[i].scope \in 1..Len(scopes) /\ native_stack[i].home \in 1..Len(scopes)
  /\ \A m \in DOMAIN file_scope_map_ : file_scope_map_[m] \in 1..Len(scopes)

\* Scope b has what a has.
Extends(a, b) == DOMAIN a \subseteq DOMAIN b /\ \A n \in DOMAIN a : b[n] = a[n]

Grow ==
  /\ \E S : scopes' \in Seq(S)
  /\ Len(scopes) <= Len(scopes')
  /\ \A s \in 1..Len(scopes) : Extends(scopes[s], scopes'[s])

\* std::map::insert keeps what is there, and the name is there then.
LEMMA Inserted ==
  ASSUME NEW a, NEW n, NEW v
  PROVE  /\ Extends(a, Insert(a, n, v)) /\ n \in DOMAIN Insert(a, n, v)
         /\ DOMAIN Insert(a, n, v) = DOMAIN a \cup {n}
<1>1. CASE n \in DOMAIN a
  BY <1>1 DEF Insert, Extends
<1>2. CASE n \notin DOMAIN a
  BY <1>2 DEF Insert, Extends
<1> QED
  BY <1>1, <1>2

\* So does copy_all_public_symbols.
LEMMA Copied ==
  ASSUME NEW a, NEW b
  PROVE  Extends(a, CopyAll(a, b))
  BY DEF CopyAll, Extends

\* One scope is replaced.
LEMMA Replaced ==
  ASSUME NEW S, scopes \in Seq(S), NEW t \in 1..Len(scopes), NEW X, Extends(scopes[t], X),
         scopes' = [scopes EXCEPT ![t] = X]
  PROVE  Grow /\ Len(scopes') = Len(scopes) /\ scopes'[t] = X
         /\ \A s \in 1..Len(scopes) : s # t => scopes'[s] = scopes[s]
<1>1. scopes' \in Seq(S \cup {X}) /\ Len(scopes') = Len(scopes) /\ Len(scopes) \in Nat
  OBVIOUS
<1>2. scopes'[t] = X /\ \A s \in 1..Len(scopes) : s # t => scopes'[s] = scopes[s]
  OBVIOUS
<1>3. \A s \in 1..Len(scopes) : Extends(scopes[s], scopes'[s])
  BY <1>2 DEF Extends
<1> QED
  BY <1>1, <1>2, <1>3 DEF Grow

\* The scope that a use imports to.
LEMMA Imported ==
  ASSUME NEW S, scopes \in Seq(S), NEW t \in 1..Len(scopes), NEW m, NEW all, Import(m, all, t)
  PROVE  Grow /\ Len(scopes') = Len(scopes)
<1> DEFINE X == IF all THEN CopyAll(scopes[t], scopes[file_scope_map_[m]])
                ELSE Insert(scopes[t], m, Package(m, file_scope_map_[m]))
<1>1. Extends(scopes[t], X)
  BY Inserted, Copied
<1>2. scopes' = [scopes EXCEPT ![t] = X]
  BY DEF Import
<1> HIDE DEF X
<1> QED
  BY <1>1, <1>2, Replaced

\* A scope without names is made for a module.
LEMMA Made ==
  ASSUME NEW S, scopes \in Seq(S), NEW m, NewScope(m)
  PROVE  /\ Grow /\ Len(scopes') = Len(scopes) + 1 /\ Len(scopes) \in Nat
         /\ file_scope_' = Len(scopes) + 1
         /\ file_scope_map_' = Insert(file_scope_map_, m, Len(scopes) + 1)
<1>1. scopes' = Append(scopes, Empty)
  BY DEF NewScope
<1>2. scopes' \in Seq(S \cup {Empty}) /\ Len(scopes') = Len(scopes) + 1 /\ Len(scopes) \in Nat
      /\ \A s \in 1..Len(scopes) : scopes'[s] = scopes[s]
  BY <1>1
<1>3. \A s \in 1..Len(scopes) : Extends(scopes[s], scopes'[s])
  BY <1>2 DEF Extends
<1> QED
  BY <1>2, <1>3 DEF Grow, NewScope

\* Nothing happens to the scopes.
LEMMA Unscoped ==
  ASSUME Scoping, UNCHANGED << scopes, file_scope_, file_scope_map_, native_stack >>
  PROVE  Scoping' /\ Grow
<1>1. PICK S : scopes \in Seq(S)
  BY DEF Scoping
<1>2. Len(scopes) \in Nat
  BY <1>1
<1>3. Grow
  BY <1>1, <1>2 DEF Grow, Extends
<1> QED
  BY <1>3 DEF Scoping

\* A name is added to a scope, or those of a module.
LEMMA Named ==
  ASSUME Scoping, UNCHANGED << file_scope_, file_scope_map_, native_stack >>,
         Grow, Len(scopes') = Len(scopes)
  PROVE  Scoping'
  BY DEF Scoping, Grow

\* A new scope is registered for its module, and remembers nothing else.
LEMMA Registered ==
  ASSUME Scoping, NEW m, NewScope(m), native_stack' = native_stack
  PROVE  Scoping' /\ Grow
<1>1. PICK S : scopes \in Seq(S)
  BY DEF Scoping
<1>2. /\ Grow /\ Len(scopes') = Len(scopes) + 1 /\ Len(scopes) \in Nat
      /\ file_scope_' = Len(scopes) + 1
      /\ file_scope_map_' = Insert(file_scope_map_, m, Len(scopes) + 1)
  BY <1>1, Made
<1>3. \A s \in 1..Len(scopes) : s \in 1..Len(scopes')
  BY <1>2
<1>4. Len(scopes) + 1 \in 1..Len(scopes')
  BY <1>2
<1>5. \A k \in DOMAIN file_scope_map_' : file_scope_map_'[k] \in 1..Len(scopes')
  <2>1. CASE m \in DOMAIN file_scope_map_
    BY <1>2, <1>3, <2>1 DEF Insert, Scoping
  <2>2. CASE m \notin DOMAIN file_scope_map_
    BY <1>2, <1>3, <1>4, <2>2 DEF Insert, Scoping
  <2> QED
    BY <2>1, <2>2
<1>6. \A i \in 1..Len(native_stack) :
        native_stack[i].scope \in 1..Len(scopes') /\ native_stack[i].home \in 1..Len(scopes')
  BY <1>3 DEF Scoping
<1> QED
  BY <1>2, <1>4, <1>5, <1>6 DEF Scoping, Grow

\* What Raise leaves alone.
LEMMA RaiseScopes ==
  ASSUME NEW b, Raise(b)
  PROVE  native_stack' = native_stack /\ disk' = disk /\ ops' = ops
  BY DEF Raise

\* Every step keeps the scopes in order and what is in them.
LEMMA ScopingStep ==
  ASSUME LoaderAssumption, Framing, Scoping, [Next]_vars
  PROVE  Scoping' /\ Grow
<1>1. PICK S : scopes \in Seq(S)
  BY DEF Scoping
<1>2. file_scope_ \in 1..Len(scopes) /\ Len(scopes) \in Nat
  BY <1>1 DEF Scoping
<1>3. ASSUME UNCHANGED << scopes, file_scope_, file_scope_map_, native_stack >>
      PROVE  Scoping' /\ Grow
  BY <1>3, Unscoped
<1>4. ASSUME NEW n, NEW v, scopes' = [scopes EXCEPT ![file_scope_] = Insert(@, n, v)],
             UNCHANGED << file_scope_, file_scope_map_, native_stack >>
      PROVE  Scoping' /\ Grow
  <2> DEFINE X == Insert(scopes[file_scope_], n, v)
  <2>1. scopes' = [scopes EXCEPT ![file_scope_] = X]
    BY <1>4
  <2>2. Extends(scopes[file_scope_], X)
    BY Inserted
  <2> HIDE DEF X
  <2>3. Grow /\ Len(scopes') = Len(scopes)
    BY <1>1, <1>2, <2>1, <2>2, Replaced
  <2> QED
    BY <1>4, <2>3, Named
<1>5. CASE UNCHANGED vars
  BY <1>3, <1>5 DEF vars
<1>6. CASE OP_TRY \/ TryEnd \/ OP_CLASS_LEAVE
  BY <1>3, <1>6 DEF OP_TRY, TryEnd, OP_CLASS_LEAVE, Names
<1>7. CASE OP_DIE
  BY <1>3, <1>7, RaiseScopes DEF OP_DIE, Names
<1>8. CASE OP_SET_PARENT
  <2>1. UNCHANGED Names /\ native_stack' = native_stack
    BY <1>8, RaiseScopes DEF OP_SET_PARENT
  <2> QED
    BY <1>3, <2>1 DEF Names
<1>9. CASE OP_FUNCDEF
  <2>1. UNCHANGED << file_scope_, file_scope_map_, native_stack >>
    BY <1>9 DEF OP_FUNCDEF
  <2>2. CASE klass_ # NoClass
    BY <1>3, <1>9, <2>1, <2>2 DEF OP_FUNCDEF
  <2>3. CASE klass_ = NoClass
    BY <1>4, <1>9, <2>1, <2>3 DEF OP_FUNCDEF, AddFunction, CodeScope
  <2> QED
    BY <2>2, <2>3
<1>10. CASE OP_CLASS_ENTER
  BY <1>4, <1>10 DEF OP_CLASS_ENTER, AddName
<1>11. CASE UseRequired
  <2>1. \/ UNCHANGED Names /\ native_stack' = native_stack
        \/ /\ Import(Stmt.mod, Stmt.all, file_scope_)
           /\ UNCHANGED << native_stack, file_scope_, file_scope_map_ >>
    BY <1>11, RaiseScopes DEF UseRequired
  <2>2. CASE UNCHANGED Names /\ native_stack' = native_stack
    BY <1>3, <2>2 DEF Names
  <2>3. CASE /\ Import(Stmt.mod, Stmt.all, file_scope_)
             /\ UNCHANGED << native_stack, file_scope_, file_scope_map_ >>
    BY <1>1, <1>2, <2>3, Imported, Named
  <2> QED
    BY <2>1, <2>2, <2>3
<1>12. CASE UseFails
  BY <1>3, <1>12, RaiseScopes DEF UseFails
<1>13. CASE UseBad
  BY <1>13, RaiseScopes, Registered DEF UseBad
<1>14. CASE UseLoads
  <2>1. NewScope(Stmt.mod)
    BY <1>14 DEF UseLoads
  <2>2. Grow /\ Len(scopes') = Len(scopes) + 1
    BY <1>1, <2>1, Made
  <2>3. /\ Entered \in Entries /\ native_stack' = Append(native_stack, Entered)
        /\ Entered.scope = file_scope_ /\ Entered.home = Len(scopes) + 1
    BY <1>2, <1>14, EnteredIs
  <2>4. ASSUME NEW x \in Entries, native_stack' = Append(native_stack, x),
               x.scope = file_scope_, x.home = Len(scopes) + 1
        PROVE  \A i \in 1..Len(native_stack') :
                 native_stack'[i].scope \in 1..Len(scopes') /\ native_stack'[i].home \in 1..Len(scopes')
    <3>1. native_stack \in Seq(Entries)
      BY DEF Framing, FramingOf
    <3>2. Len(native_stack) \in Nat /\ Len(native_stack') = Len(native_stack) + 1
          /\ native_stack'[Len(native_stack) + 1] = x
          /\ \A i \in 1..Len(native_stack) : native_stack'[i] = native_stack[i]
      BY <2>4, <3>1
    <3>3. \A s \in 1..Len(scopes) : s \in 1..Len(scopes')
      BY <1>2, <2>2
    <3>4. Len(scopes) + 1 \in 1..Len(scopes')
      BY <1>2, <2>2
    <3> SUFFICES ASSUME NEW i \in 1..Len(native_stack')
                 PROVE  native_stack'[i].scope \in 1..Len(scopes')
                        /\ native_stack'[i].home \in 1..Len(scopes')
      OBVIOUS
    <3>5. CASE i = Len(native_stack) + 1
      BY <1>2, <2>4, <3>2, <3>3, <3>4, <3>5
    <3>6. CASE i # Len(native_stack) + 1
      <4>1. i \in 1..Len(native_stack)
        BY <3>2, <3>6
      <4> QED
        BY <3>2, <3>3, <4>1 DEF Scoping
    <3> QED
      BY <3>5, <3>6
  <2>5. /\ file_scope_' \in 1..Len(scopes')
        /\ \A m \in DOMAIN file_scope_map_' : file_scope_map_'[m] \in 1..Len(scopes')
    <3>1. \A s \in 1..Len(scopes) : s \in 1..Len(scopes')
      BY <1>2, <2>2
    <3>2. Len(scopes) + 1 \in 1..Len(scopes')
      BY <1>2, <2>2
    <3>3. CASE Stmt.mod \in DOMAIN file_scope_map_
      BY <2>1, <3>1, <3>2, <3>3 DEF NewScope, Insert, Scoping
    <3>4. CASE Stmt.mod \notin DOMAIN file_scope_map_
      BY <2>1, <3>1, <3>2, <3>4 DEF NewScope, Insert, Scoping
    <3> QED
      BY <3>3, <3>4
  <2>6. \A i \in 1..Len(native_stack') :
          native_stack'[i].scope \in 1..Len(scopes') /\ native_stack'[i].home \in 1..Len(scopes')
    BY <2>3, <2>4
  <2> QED
    BY <2>2, <2>5, <2>6 DEF Scoping, Grow
<1>15. CASE OP_END
  <2>1. CASE native_stack = << >>
    BY <1>3, <1>15, <2>1 DEF OP_END, Names
  <2>2. CASE native_stack # << >>
    <3> DEFINE e == Last(native_stack)
    <3>1. native_stack \in Seq(Entries)
      BY DEF Framing, FramingOf
    <3>2. /\ Len(native_stack) \in Nat \ {0} /\ Len(Front(native_stack)) = Len(native_stack) - 1
          /\ \A k \in 1..Len(native_stack) - 1 : Front(native_stack)[k] = native_stack[k]
          /\ e = native_stack[Len(native_stack)]
      BY <2>2, <3>1, FrontLast
    <3>3. /\ native_stack' = Front(native_stack) /\ file_scope_' = e.scope
          /\ Import(e.mod, e.all, e.scope) /\ file_scope_map_' = file_scope_map_
      BY <1>15, <2>2 DEF OP_END, Restored
    <3>4. e.scope \in 1..Len(scopes)
      BY <3>2 DEF Scoping
    <3> HIDE DEF e
    <3>5. Grow /\ Len(scopes') = Len(scopes)
      BY <1>1, <3>3, <3>4, Imported
    <3>6. \A i \in 1..Len(native_stack') : i \in 1..Len(native_stack) /\ native_stack'[i] = native_stack[i]
      BY <3>2, <3>3
    <3> QED
      BY <3>3, <3>4, <3>5, <3>6 DEF Scoping, Grow
  <2> QED
    BY <2>1, <2>2
<1>16. CASE Done
  BY <1>5, <1>16 DEF Done
<1> QED
  BY <1>5, <1>6, <1>7, <1>8, <1>9, <1>10, <1>11, <1>12, <1>13, <1>14, <1>15, <1>16 DEF Next, Step

-----------------------------------------------------------------------------
(* The class being defined and its frame. *)

\* A class is being defined only with a class frame above lo.
ClassAbove(klass, fs, lo) ==
  klass # NoClass => \E k \in lo + 1..Len(fs) : fs[k].type = "class"

\* Nothing that an activation does to its frames leaves klass_ set without one.
LEMMA KlassKept ==
  ASSUME LoaderAssumption, Framing, Next, ~UseLoads, ~OP_END,
         NEW lo \in Nat, lo <= BaseOf(native_stack, Len(native_stack)),
         ClassAbove(klass_, frame_stack, lo)
  PROVE  ClassAbove(klass_', frame_stack', lo)
<1> DEFINE fs == frame_stack
<1>1. fs \in Seq(FrameRecs) /\ Len(fs) \in Nat
  BY DEF Framing, FramingOf
<1>2. GoesOn \/ Catches \/ Stays
  BY StepKinds
<1>3. CASE GoesOn
  <2>1. Stmt.op \in DOMAIN Ends => fs # << >> /\ fs[Len(fs)].type = Ends[Stmt.op]
    BY <1>3, GoneOn DEF Framing, GoesOn, Stmt, Body
  <2>2. pc \in 1..Len(Body(ops)) + 1 /\ pc <= Len(Body(ops)) /\ ops \in Files /\ disk \in Disks
    BY <1>3, OwnFrames DEF Framing, FramingOf, GoesOn
  <2>3. Stmt \in Statements
    <3>1. Len(Body(ops)) \in Nat
      BY <2>2, Text
    <3>2. pc \in 1..Len(Body(ops)) /\ Stmt = Body(ops)[pc]
      BY <2>2, <3>1 DEF Stmt, Body
    <3> QED
      BY <2>2, <3>2, Text
  <2>4. CASE Stmt.op = "class"
    <3> DEFINE x == [type |-> "class", to |-> 0]
    <3>1. fs' = Append(fs, x)
      BY <1>3, <2>4 DEF GoesOn, Framed, Ends
    <3>2. x \in FrameRecs /\ x.type = "class"
      BY DEF FrameRecs
    <3> HIDE DEF x
    <3>3. Len(fs') = Len(fs) + 1 /\ fs'[Len(fs) + 1] = x
      BY <1>1, <3>1, <3>2, Pushed
    <3>4. Len(fs) + 1 \in lo + 1..Len(fs')
      <4>1. BaseOf(native_stack, Len(native_stack)) <= Len(fs)
            /\ BaseOf(native_stack, Len(native_stack)) \in Nat
        BY OwnFrames DEF Framing
      <4> QED
        BY <1>1, <3>3, <4>1
    <3> QED
      BY <3>2, <3>3, <3>4 DEF ClassAbove
  <2>5. CASE Stmt.op = "class_end"
    BY <1>3, <2>5 DEF GoesOn, ClassAbove
  <2>6. CASE Stmt.op \notin {"class", "class_end"}
    <3>1. klass_' = klass_ /\ fs' = Framed(fs, Stmt)
      BY <1>3, <2>6 DEF GoesOn
    <3> SUFFICES ASSUME klass_ # NoClass
                 PROVE  \E k \in lo + 1..Len(fs') : fs'[k].type = "class"
      BY <3>1 DEF ClassAbove
    <3>2. PICK k \in lo + 1..Len(fs) : fs[k].type = "class"
      BY DEF ClassAbove
    <3>3. CASE Stmt.op = "try"
      <4> DEFINE x == [type |-> "try", to |-> Stmt.to]
      <4>1. fs' = Append(fs, x)
        BY <3>1, <3>3 DEF Framed, Ends
      <4>2. x \in FrameRecs
        BY <2>3, <3>3, Operands DEF FrameRecs
      <4> HIDE DEF x
      <4>3. Len(fs') = Len(fs) + 1 /\ \A j \in 1..Len(fs) : fs'[j] = fs[j]
        BY <1>1, <4>1, <4>2, Pushed
      <4>4. k \in 1..Len(fs) /\ k \in lo + 1..Len(fs')
        BY <1>1, <3>2, <4>3
      <4> QED
        BY <3>2, <4>3, <4>4
    <3>4. CASE Stmt.op = "try_end"
      <4>1. fs # << >> /\ fs[Len(fs)].type = "try"
        BY <2>1, <3>4 DEF Ends
      <4>2. fs' = Front(fs)
        BY <3>1, <3>4 DEF Framed, Ends
      <4>3. Len(fs') = Len(fs) - 1 /\ \A j \in 1..Len(fs) - 1 : fs'[j] = fs[j]
        BY <1>1, <4>1, <4>2, FrontLast
      <4>4. k # Len(fs)
        BY <3>2, <4>1
      <4>5. k \in 1..Len(fs) - 1 /\ k \in lo + 1..Len(fs')
        BY <1>1, <3>2, <4>3, <4>4
      <4> QED
        BY <3>2, <4>3, <4>5
    <3>5. CASE Stmt.op \notin {"try", "try_end"}
      <4>1. fs' = fs
        BY <2>6, <3>1, <3>5 DEF Framed, Ends
      <4> QED
        BY <3>2, <4>1
    <3> QED
      BY <3>3, <3>4, <3>5
  <2> QED
    BY <2>4, <2>5, <2>6
<1>4. CASE Catches
  <2>1. PICK i \in 1..Len(fs) :
          /\ fs[i].type = "try" /\ fs' = SubSeq(fs, 1, i - 1) /\ klass_' = Dropped(i)
          /\ i > BaseOf(native_stack, Len(native_stack))
    BY <1>4 DEF Catches
  <2> SUFFICES ASSUME klass_' # NoClass
               PROVE  \E k \in lo + 1..Len(fs') : fs'[k].type = "class"
    BY DEF ClassAbove
  <2>2. klass_ # NoClass /\ \A k \in i + 1..Len(fs) : fs[k].type # "class"
    BY <2>1 DEF Dropped
  <2>3. PICK k \in lo + 1..Len(fs) : fs[k].type = "class"
    BY <2>2 DEF ClassAbove
  <2>4. k # i /\ ~(k \in i + 1..Len(fs))
    BY <2>1, <2>2, <2>3
  <2>5. k \in lo + 1..i - 1 /\ k \in 1..i - 1 /\ i - 1 \in 0..Len(fs)
    BY <1>1, <2>1, <2>3, <2>4
  <2>6. Len(fs') = i - 1 /\ fs'[k] = fs[k]
    BY <1>1, <2>1, <2>5, Cut
  <2> QED
    BY <2>3, <2>5, <2>6
<1>5. CASE Stays
  BY <1>5 DEF Stays, ClassAbove
<1> QED
  BY <1>2, <1>3, <1>4, <1>5

\* A class frame is there exactly while klass_ is set, over all activations.
LEMMA KlassFramedStep ==
  ASSUME LoaderAssumption, Framing, KlassFramed, [Next]_vars
  PROVE  KlassFramed'
<1> DEFINE fs == frame_stack
<1>1. fs \in Seq(FrameRecs) /\ Len(fs) \in Nat /\ native_stack \in Seq(Entries)
  BY DEF Framing, FramingOf
<1>2. CASE UseLoads \/ UNCHANGED vars
  BY <1>2 DEF UseLoads, KlassFramed, vars
<1>3. CASE OP_END
  <2>1. CASE native_stack = << >>
    BY <1>3, <2>1 DEF OP_END, KlassFramed
  <2>2. CASE native_stack # << >>
    <3> DEFINE e == Last(native_stack)
    <3>1. /\ fs' = SubSeq(fs, 1, e.frames) /\ klass_' = Dropped(e.frames)
          /\ pc > Len(Body(ops))
      BY <1>3, <2>2 DEF OP_END, Body
    <3>2. e = native_stack[Len(native_stack)]
      BY <1>1, <2>2, FrontLast
    <3>3. e.frames = Len(fs)
      BY <2>2, <3>1, <3>2, Returned DEF Framing
    <3>4. Len(fs') = Len(fs) /\ \A k \in 1..Len(fs) : fs'[k] = fs[k]
      <4>1. Len(fs) \in 0..Len(fs)
        BY <1>1
      <4> QED
        BY <1>1, <3>1, <3>3, <4>1, Cut
    <3>5. klass_' = NoClass \/ klass_' = klass_
      BY <3>1 DEF Dropped
    <3> QED
      BY <3>4, <3>5 DEF KlassFramed
  <2> QED
    BY <2>1, <2>2
<1>4. CASE Next /\ ~UseLoads /\ ~OP_END
  <2>1. ClassAbove(klass_, fs, 0)
    <3>1. \A k \in 1..Len(fs) : k \in 0 + 1..Len(fs)
      BY <1>1
    <3> QED
      BY <3>1 DEF KlassFramed, ClassAbove
  <2>2. 0 <= BaseOf(native_stack, Len(native_stack))
    BY OwnFrames DEF Framing
  <2>3. ClassAbove(klass_', fs', 0)
    BY <1>4, <2>1, <2>2, KlassKept
  <2> QED
    BY <2>3 DEF KlassFramed, ClassAbove
<1> QED
  BY <1>2, <1>3, <1>4

-----------------------------------------------------------------------------
(* What is loaded, in libraries whose modules do not use each other. *)

RankOf(d) == CHOOSE rank \in [Files -> 0..Cardinality(Files)] : Descends(d, rank)

\* The modules that run descend; each has its scope registered and is not yet
\* required; what has a scope and compiles was required or still runs.
Loading ==
  /\ \A i, j \in 1..Len(native_stack) : i < j => RankOf(disk)[native_stack[j].mod] < RankOf(disk)[native_stack[i].mod]
  /\ \A i \in 1..Len(native_stack) :
       /\ disk[native_stack[i].mod].file = "ok" /\ native_stack[i].mod \notin DOMAIN required
       /\ native_stack[i].mod \in DOMAIN file_scope_map_
       /\ file_scope_map_[native_stack[i].mod] = native_stack[i].home
  /\ \A m \in DOMAIN file_scope_map_ : disk[m].file = "ok" =>
       m \in DOMAIN required \/ \E i \in 1..Len(native_stack) : native_stack[i].mod = m
  /\ \A m \in DOMAIN required : required[m] = "path" => m \in DOMAIN file_scope_map_

\* A module's number is below that of a file that uses it.
LEMMA Ranked ==
  ASSUME NoCycle(disk)
  PROVE  /\ \A f \in Files : RankOf(disk)[f] \in Int
         /\ \A f \in Files, m \in Modules : Mentions(disk, f, m) => RankOf(disk)[m] < RankOf(disk)[f]
<1>1. \E rank \in [Files -> 0..Cardinality(Files)] : Descends(disk, rank)
  BY DEF NoCycle
<1>2. RankOf(disk) \in [Files -> 0..Cardinality(Files)] /\ Descends(disk, RankOf(disk))
  BY <1>1, Zenon DEF RankOf
<1>3. 0..Cardinality(Files) \subseteq Int
  OBVIOUS
<1> QED
  BY <1>2, <1>3 DEF Descends

\* Nobody who runs is used by the file in control.
LEMMA NotRunning ==
  ASSUME LoaderAssumption, Framing, Loading, NoCycle(disk), NEW m \in Modules,
         pc <= Len(Body(ops)), Stmt.op = "use", Stmt.mod = m
  PROVE  /\ \A i \in 1..Len(native_stack) : RankOf(disk)[m] < RankOf(disk)[native_stack[i].mod]
         /\ \A i \in 1..Len(native_stack) : native_stack[i].mod # m
<1> DEFINE n == Len(native_stack)
<1>1. frame_stack \in Seq(FrameRecs) /\ native_stack \in Seq(Entries)
      /\ ops = RunBy(native_stack, n) /\ ops \in Files /\ n \in Nat
      /\ pc \in 1..Len(Body(ops)) + 1 /\ disk \in Disks
  BY OwnFrames DEF Framing, FramingOf
<1>2. RankOf(disk)[m] < RankOf(disk)[ops] /\ RankOf(disk)[m] \in Int /\ RankOf(disk)[ops] \in Int
  <2>1. pc \in 1..Len(Body(ops))
    BY <1>1, Text
  <2>2. Mentions(disk, ops, m)
    BY <2>1 DEF Mentions, Stmt, Body
  <2>3. m \in Files
    BY DEF Files
  <2> QED
    BY <1>1, <2>2, <2>3, Ranked
<1>3. ASSUME NEW i \in 1..n PROVE RankOf(disk)[m] < RankOf(disk)[native_stack[i].mod]
  <2>1. n # 0 /\ ops = native_stack[n].mod
    BY <1>1 DEF RunBy
  <2>2. CASE i = n
    BY <1>2, <2>1, <2>2
  <2>3. CASE i # n
    <3>1. i < n /\ n \in 1..n
      BY <1>1, <2>1, <2>3
    <3>2. RankOf(disk)[native_stack[n].mod] < RankOf(disk)[native_stack[i].mod]
      BY <3>1 DEF Loading
    <3>3. native_stack[i].mod \in Modules /\ native_stack[i].mod \in Files
      BY <1>1, StackTypes DEF Files
    <3>4. RankOf(disk)[native_stack[i].mod] \in Int
      BY <3>3, Ranked
    <3> QED
      BY <1>2, <2>1, <3>2, <3>4
  <2> QED
    BY <2>2, <2>3
<1> QED
  BY <1>2, <1>3

\* Nothing is registered, required or run.
LEMMA NotLoading ==
  ASSUME Loading, disk' = disk, UNCHANGED << native_stack, file_scope_map_, required >>
  PROVE  Loading'
  BY DEF Loading

\* A failed load is not one of those that run.
LEMMA FailedLoading ==
  ASSUME Loading, disk' = disk, native_stack' = native_stack, NEW m, disk[m].file # "ok",
         \/ required' = Insert(required, m, "undef") /\ m \notin DOMAIN required
            /\ file_scope_map_' = file_scope_map_
         \/ (\E h : file_scope_map_' = Insert(file_scope_map_, m, h)) /\ required' = required
  PROVE  Loading'
<1>1. CASE required' = Insert(required, m, "undef") /\ m \notin DOMAIN required
           /\ file_scope_map_' = file_scope_map_
  <2>1. DOMAIN required' = DOMAIN required \cup {m} /\ Extends(required, required')
    BY <1>1, Inserted
  <2>2. required'[m] = "undef"
    BY <1>1 DEF Insert
  <2>3. ASSUME NEW k \in DOMAIN required', required'[k] = "path"
        PROVE  k \in DOMAIN file_scope_map_
    <3>1. k # m /\ k \in DOMAIN required
      BY <2>1, <2>2, <2>3
    <3>2. required[k] = "path"
      BY <2>1, <2>3, <3>1 DEF Extends
    <3> QED
      BY <3>1, <3>2 DEF Loading
  <2>4. ASSUME NEW i \in 1..Len(native_stack) PROVE native_stack[i].mod \notin DOMAIN required'
    <3>1. disk[native_stack[i].mod].file = "ok" /\ native_stack[i].mod \notin DOMAIN required
      BY DEF Loading
    <3> QED
      BY <2>1, <3>1
  <2> QED
    BY <1>1, <2>1, <2>3, <2>4 DEF Loading
<1>2. CASE (\E h : file_scope_map_' = Insert(file_scope_map_, m, h)) /\ required' = required
  <2>1. /\ DOMAIN file_scope_map_' = DOMAIN file_scope_map_ \cup {m}
        /\ Extends(file_scope_map_, file_scope_map_')
    <3>1. PICK h : file_scope_map_' = Insert(file_scope_map_, m, h)
      BY <1>2
    <3> QED
      BY <3>1, Inserted
  <2>2. \A i \in 1..Len(native_stack) :
          /\ native_stack[i].mod \in DOMAIN file_scope_map_'
          /\ file_scope_map_'[native_stack[i].mod] = native_stack[i].home
    BY <2>1 DEF Extends, Loading
  <2>3. \A k \in DOMAIN file_scope_map_' : disk[k].file = "ok" =>
          k \in DOMAIN required \/ \E i \in 1..Len(native_stack) : native_stack[i].mod = k
    BY <2>1 DEF Loading
  <2>4. \A k \in DOMAIN required : required[k] = "path" => k \in DOMAIN file_scope_map_'
    BY <2>1 DEF Loading
  <2> QED
    BY <1>2, <2>2, <2>3, <2>4 DEF Loading
<1> QED
  BY <1>1, <1>2

\* A module that is loaded was not before: nobody who runs uses it in turn.
LEMMA LoadsAnother ==
  ASSUME LoaderAssumption, NoCycle(disk), Framing, Scoping, Loading, UseLoads
  PROVE  Loading'
<1> DEFINE n == Len(native_stack)
           m == Stmt.mod
           ns2 == native_stack'
<1>1. native_stack \in Seq(Entries) /\ n \in Nat
  BY OwnFrames DEF Framing, FramingOf
<1>2. file_scope_ \in Nat /\ Len(scopes) \in Nat
  <2>1. PICK S : scopes \in Seq(S)
    BY DEF Scoping
  <2>2. Len(scopes) \in Nat
    BY <2>1
  <2> QED
    BY <2>2 DEF Scoping
<1>3. /\ Entered \in Entries /\ ns2 = Append(native_stack, Entered)
      /\ Entered.mod = m /\ Entered.home = Len(scopes) + 1
      /\ Stmt.op = "use" /\ pc <= Len(Body(ops)) /\ m \in Modules
  BY <1>2, EnteredIs
<1>4. Len(ns2) = n + 1 /\ ns2[n + 1] = Entered /\ \A i \in 1..n : ns2[i] = native_stack[i]
  BY <1>1, <1>3
<1>5. /\ disk' = disk /\ disk[m].file = "ok" /\ m \notin DOMAIN required /\ required' = required
      /\ file_scope_map_' = Insert(file_scope_map_, m, Len(scopes) + 1)
  BY DEF UseLoads, IsRequired, NewScope
<1>6. /\ \A i \in 1..n : RankOf(disk)[m] < RankOf(disk)[native_stack[i].mod]
      /\ \A i \in 1..n : native_stack[i].mod # m
  BY <1>3, NotRunning
<1>7. m \notin DOMAIN file_scope_map_
  BY <1>5, <1>6 DEF Loading
<1>8. /\ DOMAIN file_scope_map_' = DOMAIN file_scope_map_ \cup {m}
      /\ Extends(file_scope_map_, file_scope_map_')
      /\ file_scope_map_'[m] = Len(scopes) + 1
  <2>1. file_scope_map_'[m] = Len(scopes) + 1
    BY <1>5, <1>7 DEF Insert
  <2> QED
    BY <1>5, <2>1, Inserted
<1> HIDE DEF n, m, ns2
<1>9. ASSUME NEW i \in 1..Len(ns2), NEW j \in 1..Len(ns2), i < j
      PROVE  RankOf(disk)[ns2[j].mod] < RankOf(disk)[ns2[i].mod]
  <2>1. i \in 1..n /\ (j \in 1..n \/ j = n + 1)
    BY <1>1, <1>4, <1>9 DEF n
  <2>2. CASE j \in 1..n
    BY <1>4, <1>9, <2>1, <2>2 DEF Loading, n
  <2>3. CASE j = n + 1
    BY <1>3, <1>4, <1>6, <2>1, <2>3
  <2> QED
    BY <2>1, <2>2, <2>3
<1>10. ASSUME NEW i \in 1..Len(ns2)
       PROVE  /\ disk[ns2[i].mod].file = "ok" /\ ns2[i].mod \notin DOMAIN required
              /\ ns2[i].mod \in DOMAIN file_scope_map_'
              /\ file_scope_map_'[ns2[i].mod] = ns2[i].home
  <2>1. CASE i = n + 1
    BY <1>3, <1>4, <1>5, <1>8, <2>1
  <2>2. CASE i # n + 1
    <3>1. i \in 1..n
      BY <1>1, <1>4, <2>2 DEF n
    <3>2. /\ disk[native_stack[i].mod].file = "ok" /\ native_stack[i].mod \notin DOMAIN required
          /\ native_stack[i].mod \in DOMAIN file_scope_map_
          /\ file_scope_map_[native_stack[i].mod] = native_stack[i].home
      BY <3>1 DEF Loading, n
    <3> QED
      BY <1>4, <1>8, <3>1, <3>2 DEF Extends
  <2> QED
    BY <2>1, <2>2
<1>11. ASSUME NEW k \in DOMAIN file_scope_map_', disk[k].file = "ok"
       PROVE  k \in DOMAIN required \/ \E i \in 1..Len(ns2) : ns2[i].mod = k
  <2>1. CASE k = m
    <3>1. n + 1 \in 1..Len(ns2)
      BY <1>1, <1>4 DEF n
    <3> QED
      BY <1>3, <1>4, <2>1, <3>1
  <2>2. CASE k # m
    <3>1. k \in DOMAIN file_scope_map_
      BY <1>8, <2>2
    <3>2. \A i \in 1..n : i \in 1..Len(ns2)
      BY <1>1, <1>4 DEF n
    <3> QED
      BY <1>4, <1>11, <3>1, <3>2 DEF Loading, n
  <2> QED
    BY <2>1, <2>2
<1>12. \A k \in DOMAIN required : required[k] = "path" => k \in DOMAIN file_scope_map_'
  BY <1>8 DEF Loading
<1> QED
  BY <1>5, <1>9, <1>10, <1>11, <1>12 DEF Loading, ns2

\* A module that ends is required, and no other of those that run is it.
LEMMA LoadedOne ==
  ASSUME LoaderAssumption, NoCycle(disk), Framing, Loading, OP_END
  PROVE  Loading'
<1> DEFINE ns == native_stack
           n == Len(native_stack)
           e == native_stack[Len(native_stack)]
<1>1. frame_stack \in Seq(FrameRecs) /\ ns \in Seq(Entries) /\ disk' = disk
      /\ file_scope_map_' = file_scope_map_
  <2>1. frame_stack \in Seq(FrameRecs) /\ ns \in Seq(Entries)
    BY DEF Framing, FramingOf
  <2>2. disk' = disk /\ file_scope_map_' = file_scope_map_
    BY DEF OP_END, Names
  <2> QED
    BY <2>1, <2>2
<1>2. CASE ns = << >>
  BY <1>1, <1>2, NotLoading DEF OP_END, Names
<1>3. CASE ns # << >>
  <2>1. /\ n \in Nat \ {0} /\ Len(Front(ns)) = n - 1 /\ Last(ns) = e
        /\ \A k \in 1..n - 1 : Front(ns)[k] = ns[k]
    BY <1>1, <1>3, FrontLast
  <2>2. /\ ns' = Front(ns)
        /\ required' = [k \in DOMAIN required \cup {e.mod} |-> IF k = e.mod THEN "path" ELSE required[k]]
    BY <1>3, <2>1 DEF OP_END
  <2>3. /\ DOMAIN required' = DOMAIN required \cup {e.mod}
        /\ \A k \in DOMAIN required : k # e.mod => required'[k] = required[k]
    BY <2>2
  <2>4. Len(ns') = n - 1 /\ \A i \in 1..n - 1 : ns'[i] = ns[i] /\ i \in 1..n /\ i < n
    BY <2>1, <2>2
  <2>5. n \in 1..n /\ \A i \in 1..n : ns[i].mod \in Files
    BY <1>1, <2>1, StackTypes DEF Files
  <2>6. e.mod \in DOMAIN file_scope_map_
    BY <2>5 DEF Loading
  <2>7. ASSUME NEW i \in 1..n - 1 PROVE ns[i].mod # e.mod
    <3>1. RankOf(disk)[e.mod] < RankOf(disk)[ns[i].mod]
      BY <2>4, <2>5 DEF Loading
    <3>2. RankOf(disk)[e.mod] \in Int
      BY <2>5, Ranked
    <3> QED
      BY <3>1, <3>2
  <2> HIDE DEF ns, n, e
  <2>8. ASSUME NEW i \in 1..Len(ns'), NEW j \in 1..Len(ns'), i < j
        PROVE  RankOf(disk)[ns'[j].mod] < RankOf(disk)[ns'[i].mod]
    BY <2>4, <2>8 DEF Loading, ns, n
  <2>9. ASSUME NEW i \in 1..Len(ns')
        PROVE  /\ disk[ns'[i].mod].file = "ok" /\ ns'[i].mod \notin DOMAIN required'
               /\ ns'[i].mod \in DOMAIN file_scope_map_
               /\ file_scope_map_[ns'[i].mod] = ns'[i].home
    <3>1. i \in 1..n - 1 /\ ns'[i] = ns[i] /\ i \in 1..n
      BY <2>4
    <3>2. /\ disk[ns[i].mod].file = "ok" /\ ns[i].mod \notin DOMAIN required
          /\ ns[i].mod \in DOMAIN file_scope_map_
          /\ file_scope_map_[ns[i].mod] = ns[i].home
      BY <3>1 DEF Loading, ns, n
    <3> QED
      BY <2>3, <2>7, <3>1, <3>2
  <2>10. ASSUME NEW m \in DOMAIN file_scope_map_, disk[m].file = "ok"
         PROVE  m \in DOMAIN required' \/ \E i \in 1..Len(ns') : ns'[i].mod = m
    <3>1. CASE m \in DOMAIN required \/ m = e.mod
      BY <2>3, <3>1
    <3>2. CASE m \notin DOMAIN required /\ m # e.mod
      <4>1. PICK i \in 1..n : ns[i].mod = m
        BY <2>10, <3>2 DEF Loading, ns, n
      <4>2. i # n
        BY <3>2, <4>1 DEF e, ns, n
      <4>3. i \in 1..n - 1 /\ i \in 1..Len(ns')
        BY <2>1, <2>4, <4>1, <4>2
      <4> QED
        BY <2>4, <4>1, <4>3
    <3> QED
      BY <3>1, <3>2
  <2>11. ASSUME NEW m \in DOMAIN required', required'[m] = "path"
         PROVE  m \in DOMAIN file_scope_map_
    BY <2>3, <2>6, <2>11 DEF Loading
  <2> QED
    BY <1>1, <2>8, <2>9, <2>10, <2>11 DEF Loading, ns
<1> QED
  BY <1>2, <1>3

\* Every step keeps the record of what is loaded right.
LEMMA LoadingStep ==
  ASSUME LoaderAssumption, NoCycle(disk), Framing, Scoping, Loading, [Next]_vars
  PROVE  Loading'
<1>1. CASE UNCHANGED vars \/ Done
  BY <1>1, NotLoading DEF vars, Done
<1>2. CASE OP_TRY \/ TryEnd \/ OP_FUNCDEF \/ OP_CLASS_ENTER \/ OP_CLASS_LEAVE
  BY <1>2, NotLoading DEF OP_TRY, TryEnd, OP_FUNCDEF, OP_CLASS_ENTER, OP_CLASS_LEAVE, GoOn, Names
<1>3. CASE OP_DIE
  BY <1>3, RaiseScopes, NotLoading DEF OP_DIE, Names
<1>4. CASE OP_SET_PARENT
  <2>1. UNCHANGED << disk, native_stack, file_scope_map_, required >>
    BY <1>4, RaiseScopes DEF OP_SET_PARENT, GoOn, Names
  <2> QED
    BY <2>1, NotLoading
<1>5. CASE UseRequired
  <2>1. UNCHANGED << disk, native_stack, file_scope_map_, required >>
    BY <1>5, RaiseScopes DEF UseRequired, GoOn, Names
  <2> QED
    BY <2>1, NotLoading
<1>6. CASE UseFails
  <2>1. /\ disk' = disk /\ native_stack' = native_stack /\ file_scope_map_' = file_scope_map_
        /\ disk[Stmt.mod].file \in {"missing", "unreadable"} /\ Stmt.mod \notin DOMAIN required
        /\ required' = required \/ required' = Insert(required, Stmt.mod, "undef")
    BY <1>6, RaiseScopes DEF UseFails, IsRequired
  <2>2. disk[Stmt.mod].file # "ok"
    BY <2>1
  <2>3. CASE required' = required
    BY <2>1, <2>3, NotLoading
  <2>4. CASE required' = Insert(required, Stmt.mod, "undef")
    BY <2>1, <2>2, <2>4, FailedLoading
  <2> QED
    BY <2>1, <2>3, <2>4
<1>7. CASE UseBad
  <2>1. /\ disk' = disk /\ native_stack' = native_stack /\ required' = required
        /\ disk[Stmt.mod].file # "ok"
    BY <1>7, RaiseScopes DEF UseBad
  <2>2. file_scope_map_' = Insert(file_scope_map_, Stmt.mod, Len(scopes) + 1)
    BY <1>7 DEF UseBad, NewScope
  <2> QED
    BY <2>1, <2>2, FailedLoading
<1>8. CASE UseLoads
  BY <1>8, LoadsAnother
<1>9. CASE OP_END
  BY <1>9, LoadedOne
<1> QED
  BY <1>1, <1>2, <1>3, <1>4, <1>5, <1>6, <1>7, <1>8, <1>9 DEF Next, Step

\* No module runs twice.
LEMMA RunsOnce ==
  ASSUME LoaderAssumption, NoCycle(disk), Framing, Loading
  PROVE  LoadedOnce
<1>1. frame_stack \in Seq(FrameRecs) /\ native_stack \in Seq(Entries) /\ Len(native_stack) \in Nat
  BY DEF Framing, FramingOf
<1>2. ASSUME NEW i \in 1..Len(native_stack), NEW j \in 1..Len(native_stack),
             native_stack[i].mod = native_stack[j].mod
      PROVE  i = j
  <2>1. RankOf(disk)[native_stack[i].mod] \in Int
    BY <1>1, StackTypes, Ranked DEF Files
  <2>2. ~(i < j) /\ ~(j < i)
    BY <1>2, <2>1 DEF Loading
  <2> QED
    BY <1>1, <2>2
<1> QED
  BY <1>2 DEF LoadedOnce, Loading

-----------------------------------------------------------------------------
(* What is defined where, while no load has failed to compile. *)

\* The classes that the text of f has before p are in the scope.
ClassesIn(scope, f, p) ==
  \A j \in 1..p - 1 : Body(f)[j].op = "class" => Body(f)[j].name \in DOMAIN scope

\* Each activation defines in the scope that was made for it, and has defined there what is behind it.
Owned ==
  /\ file_scope_ = HomeOf(native_stack, Len(native_stack))
  /\ \A i \in 1..Len(native_stack) : native_stack[i].scope = HomeOf(native_stack, i - 1)
  /\ ClassesIn(scopes[file_scope_], ops, pc)
  /\ \A i \in 1..Len(native_stack) :
       ClassesIn(scopes[native_stack[i].scope], native_stack[i].ops, native_stack[i].pc)
  /\ PackageComplete

\* A step within an activation, without a failed load.
LEMMA Within ==
  ASSUME Scoping, Next, ~UseLoads, ~OP_END, ~left'
  PROVE  /\ ~left /\ UNCHANGED << disk, ops, native_stack, file_scope_, file_scope_map_ >>
         /\ \/ required' = required
            \/ \E m : required' = Insert(required, m, "undef") /\ m \notin DOMAIN required
         /\ Stmt.op = "class" /\ pc' # pc => Stmt.name \in DOMAIN scopes'[file_scope_]
<1>1. CASE OP_TRY \/ TryEnd \/ OP_CLASS_LEAVE
  BY <1>1 DEF OP_TRY, TryEnd, OP_CLASS_LEAVE, At, GoOn, Names
<1>2. CASE OP_DIE
  BY <1>2 DEF OP_DIE, At, Raise, Names
<1>3. CASE OP_FUNCDEF
  BY <1>3 DEF OP_FUNCDEF, At, GoOn
<1>4. CASE OP_SET_PARENT
  <2>1. ~left /\ UNCHANGED << disk, ops, native_stack >> /\ UNCHANGED Names /\ Stmt.op = "parent"
    BY <1>4 DEF OP_SET_PARENT, At, Raise, GoOn, Names
  <2> QED
    BY <2>1 DEF Names
<1>5. CASE OP_CLASS_ENTER
  <2> DEFINE X == Insert(scopes[file_scope_], Stmt.name, Class(Len(classes) + 1))
  <2>1. PICK S : scopes \in Seq(S)
    BY DEF Scoping
  <2>2. scopes' = [scopes EXCEPT ![file_scope_] = X]
    BY <1>5 DEF OP_CLASS_ENTER, AddName
  <2>3. Extends(scopes[file_scope_], X) /\ Stmt.name \in DOMAIN X
    BY Inserted
  <2>4. file_scope_ \in 1..Len(scopes)
    BY DEF Scoping
  <2> HIDE DEF X
  <2>5. scopes'[file_scope_] = X
    BY <2>1, <2>2, <2>3, <2>4, Replaced
  <2>6. ~left /\ UNCHANGED << disk, ops, native_stack, file_scope_, file_scope_map_, required >>
    BY <1>5 DEF OP_CLASS_ENTER, GoOn
  <2> QED
    BY <2>3, <2>5, <2>6
<1>6. CASE UseRequired
  <2>1. /\ ~left /\ UNCHANGED << disk, ops, native_stack, file_scope_, file_scope_map_, required >>
        /\ Stmt.op = "use"
    BY <1>6 DEF UseRequired, At, Raise, GoOn, Names
  <2> QED
    BY <2>1
<1>7. CASE UseFails
  <2>1. /\ ~left /\ UNCHANGED << disk, ops, native_stack, file_scope_, file_scope_map_ >>
        /\ Stmt.op = "use" /\ Stmt.mod \notin DOMAIN required
        /\ required' = required \/ required' = Insert(required, Stmt.mod, "undef")
    BY <1>7 DEF UseFails, IsRequired, At, Raise
  <2> QED
    BY <2>1
<1>8. CASE UseBad
  BY <1>8 DEF UseBad, Raise
<1>9. CASE Done
  BY <1>9 DEF Done, vars
<1> QED
  BY <1>1, <1>2, <1>3, <1>4, <1>5, <1>6, <1>7, <1>8, <1>9 DEF Next, Step
\* What is complete stays so while scopes grow.
LEMMA CompleteKept ==
  ASSUME Scoping, Grow, Loading, PackageComplete, disk' = disk,
         Extends(file_scope_map_, file_scope_map_'),
         \A m \in DOMAIN required' : required'[m] = "path" => m \in DOMAIN required /\ required[m] = "path"
  PROVE  PackageComplete'
<1> SUFFICES ASSUME NEW m \in DOMAIN required', required'[m] = "path",
                    NEW i \in 1..Len(disk[m].body), disk[m].body[i].op = "class"
             PROVE  disk[m].body[i].name \in DOMAIN scopes'[file_scope_map_'[m]]
  BY DEF PackageComplete
<1>1. m \in DOMAIN required /\ required[m] = "path" /\ m \in DOMAIN file_scope_map_
  BY DEF Loading
<1>2. disk[m].body[i].name \in DOMAIN scopes[file_scope_map_[m]]
  BY <1>1 DEF PackageComplete
<1>3. file_scope_map_[m] \in 1..Len(scopes) /\ file_scope_map_'[m] = file_scope_map_[m]
  BY <1>1 DEF Scoping, Extends
<1> QED
  BY <1>2, <1>3 DEF Grow, Extends

\* So do the classes of those who wait.
LEMMA SuspendedKept ==
  ASSUME Scoping, Grow, Owned, disk' = disk, NEW i \in 1..Len(native_stack)
  PROVE  ClassesIn(scopes'[native_stack[i].scope], native_stack[i].ops, native_stack[i].pc)
<1>1. native_stack[i].scope \in 1..Len(scopes)
  BY DEF Scoping
<1>2. Extends(scopes[native_stack[i].scope], scopes'[native_stack[i].scope])
  BY <1>1 DEF Grow
<1> QED
  BY <1>2 DEF Owned, ClassesIn, Extends

\* A statement adds its class; a catch skips none.
LEMMA ClassesOn ==
  ASSUME LoaderAssumption, NoClassSkipped(disk), Framing, Scoping, Grow, Owned,
         Next, ~UseLoads, ~OP_END, ~left'
  PROVE  ClassesIn(scopes'[file_scope_], ops, pc')
<1>1. disk \in Disks /\ ops \in Files /\ pc \in 1..Len(Body(ops)) + 1 /\ Len(Body(ops)) \in Nat
  <2>1. disk \in Disks /\ ops \in Files /\ pc \in 1..Len(Body(ops)) + 1
    BY OwnFrames DEF Framing, FramingOf
  <2> QED
    BY <2>1, Text
<1>2. ASSUME NEW j \in 1..pc - 1, Body(ops)[j].op = "class"
      PROVE  Body(ops)[j].name \in DOMAIN scopes'[file_scope_]
  <2>1. Extends(scopes[file_scope_], scopes'[file_scope_])
    BY DEF Scoping, Grow
  <2> QED
    BY <1>2, <2>1 DEF Owned, ClassesIn, Extends
<1>3. Stmt.op = "class" /\ pc' # pc => Stmt.name \in DOMAIN scopes'[file_scope_]
  BY Within
<1>4. GoesOn \/ Catches \/ Stays
  BY StepKinds
<1>5. CASE GoesOn
  <2> SUFFICES ASSUME NEW j \in 1..pc, Body(ops)[j].op = "class"
               PROVE  Body(ops)[j].name \in DOMAIN scopes'[file_scope_]
    <3>1. \A j \in 1..pc' - 1 : j \in 1..pc
      BY <1>1, <1>5 DEF GoesOn
    <3> QED
      BY <3>1 DEF ClassesIn
  <2>1. CASE j = pc
    <3>1. Stmt = Body(ops)[j] /\ pc' # pc
      BY <1>1, <1>5, <2>1 DEF Stmt, Body, GoesOn
    <3> QED
      BY <1>3, <3>1
  <2>2. CASE j # pc
    <3>1. j \in 1..pc - 1
      BY <1>1, <2>2
    <3> QED
      BY <1>2, <3>1
  <2> QED
    BY <2>1, <2>2
<1>6. CASE Catches
  <2> DEFINE b == BaseOf(native_stack, Len(native_stack))
             at == FramesAt(Body(ops))[pc]
  <2>1. PICK i \in 1..Len(frame_stack) :
          i > b /\ frame_stack[i].type = "try" /\ pc' = frame_stack[i].to
    BY <1>6 DEF Catches
  <2>2. /\ b \in Nat /\ Len(at) \in Nat /\ Len(frame_stack) = b + Len(at)
        /\ \A k \in 1..Len(at) : frame_stack[b + k] = at[k]
    BY OwnFrames DEF Framing
  <2> DEFINE k0 == i - b
  <2> HIDE DEF b, at
  <2>3. k0 \in 1..Len(at) /\ b + k0 = i
    BY <2>1, <2>2
  <2> HIDE DEF k0
  <2>4. at[k0] = frame_stack[i]
    BY <2>2, <2>3
  <2>5. pc \in 1..Len(Body(ops)) /\ Body(ops)[pc].op \in {"die", "use", "parent"}
    BY <1>1, <1>6 DEF Catches, Stmt, Body
  <2>6. \A j \in pc + 1..at[k0].to - 1 : Body(ops)[j].op # "class"
    <3>1. at[k0].type = "try"
      BY <2>1, <2>4
    <3> QED
      BY <1>1, <2>3, <2>5, <3>1 DEF NoClassSkipped, Body, at
  <2> SUFFICES ASSUME NEW j \in 1..pc' - 1, Body(ops)[j].op = "class"
               PROVE  Body(ops)[j].name \in DOMAIN scopes'[file_scope_]
    BY DEF ClassesIn
  <2>7. j # pc
    BY <2>5
  <2>8. ~(j \in pc + 1..pc' - 1)
    BY <2>1, <2>4, <2>6
  <2>9. pc' \in Nat
    <3>1. frame_stack \in Seq(FrameRecs)
      BY DEF Framing, FramingOf
    <3>2. frame_stack[i] \in FrameRecs
      BY <3>1
    <3> QED
      BY <2>1, <3>2 DEF FrameRecs
  <2>10. j \in 1..pc - 1
    BY <1>1, <2>7, <2>8, <2>9
  <2> QED
    BY <1>2, <2>10
<1>7. CASE Stays
  BY <1>2, <1>7 DEF Stays, ClassesIn
<1> QED
  BY <1>4, <1>5, <1>6, <1>7

\* A step within an activation leaves everybody's scope alone.
LEMMA OwnedWithin ==
  ASSUME LoaderAssumption, NoClassSkipped(disk), Framing, Scoping, Grow, Loading, Owned,
         Next, ~UseLoads, ~OP_END, ~left'
  PROVE  Owned'
<1>1. /\ UNCHANGED << disk, ops, native_stack, file_scope_, file_scope_map_ >>
      /\ \/ required' = required
         \/ \E m : required' = Insert(required, m, "undef") /\ m \notin DOMAIN required
  BY Within
<1>2. \A m \in DOMAIN required' : required'[m] = "path" => m \in DOMAIN required /\ required[m] = "path"
  <2>1. CASE required' = required
    BY <2>1
  <2>2. CASE \E m : required' = Insert(required, m, "undef") /\ m \notin DOMAIN required
    BY <2>2 DEF Insert
  <2> QED
    BY <1>1, <2>1, <2>2
<1>3. PackageComplete'
  <2>1. Extends(file_scope_map_, file_scope_map_')
    BY <1>1 DEF Extends
  <2> QED
    BY <1>1, <1>2, <2>1, CompleteKept DEF Owned
<1>4. ClassesIn(scopes'[file_scope_], ops, pc')
  BY ClassesOn
<1>5. \A i \in 1..Len(native_stack) :
        ClassesIn(scopes'[native_stack[i].scope], native_stack[i].ops, native_stack[i].pc)
  BY <1>1, SuspendedKept
<1>6. \A scope, f, p : ClassesIn(scope, f, p)' <=> ClassesIn(scope, f, p)
  BY <1>1 DEF ClassesIn, Body
<1> QED
  BY <1>1, <1>3, <1>4, <1>5, <1>6 DEF Owned, ClassesIn, Body, HomeOf

\* A module begins with nothing behind it, its user waits where he was.
LEMMA OwnedLoads ==
  ASSUME LoaderAssumption, Framing, Scoping, Grow, Loading, Owned, UseLoads
  PROVE  Owned'
<1> DEFINE n == Len(native_stack)
           ns2 == native_stack'
<1>1. native_stack \in Seq(Entries) /\ n \in Nat
  BY OwnFrames DEF Framing, FramingOf
<1>2. \E S : scopes \in Seq(S)
  BY DEF Scoping
<1>3. file_scope_ \in Nat /\ Len(scopes) \in Nat
  <2>1. Len(scopes) \in Nat
    BY <1>2
  <2> QED
    BY <2>1 DEF Scoping
<1>4. /\ Entered \in Entries /\ ns2 = Append(native_stack, Entered)
      /\ Entered.scope = file_scope_ /\ Entered.home = Len(scopes) + 1
      /\ Entered.ops = ops /\ Entered.pc = pc
  BY <1>3, EnteredIs
<1>5. Len(ns2) = n + 1 /\ ns2[n + 1] = Entered /\ \A i \in 1..n : ns2[i] = native_stack[i]
  BY <1>1, <1>4
<1>6. /\ disk' = disk /\ pc' = 1 /\ required' = required /\ file_scope_' = Len(scopes) + 1
      /\ file_scope_map_' = Insert(file_scope_map_, Stmt.mod, Len(scopes) + 1)
  BY DEF UseLoads, NewScope
<1> HIDE DEF n, ns2
<1>7. \A i \in 0..n : HomeOf(ns2, i) = HomeOf(native_stack, i)
  BY <1>1, <1>5 DEF HomeOf
<1>8. HomeOf(ns2, Len(ns2)) = Len(scopes) + 1
  BY <1>1, <1>4, <1>5 DEF HomeOf
<1>9. PackageComplete'
  <2>1. Extends(file_scope_map_, file_scope_map_')
    BY <1>6, Inserted
  <2> QED
    BY <1>6, <2>1, CompleteKept DEF Owned
<1>10. \A i \in 1..n :
         ClassesIn(scopes'[native_stack[i].scope], native_stack[i].ops, native_stack[i].pc)
  BY <1>6, SuspendedKept DEF n
<1>11. ClassesIn(scopes'[file_scope_], ops, pc)
  <2>1. Extends(scopes[file_scope_], scopes'[file_scope_])
    BY DEF Scoping, Grow
  <2> QED
    BY <2>1 DEF Owned, ClassesIn, Extends
<1>12. ASSUME NEW i \in 1..Len(ns2)
       PROVE  /\ ns2[i].scope = HomeOf(ns2, i - 1)
              /\ ClassesIn(scopes'[ns2[i].scope], ns2[i].ops, ns2[i].pc)
  <2>1. CASE i = n + 1
    <3>1. i - 1 = n /\ n \in 0..n
      BY <1>1, <2>1 DEF n
    <3>2. file_scope_ = HomeOf(native_stack, n)
      BY DEF Owned, n
    <3> QED
      BY <1>4, <1>5, <1>7, <1>11, <2>1, <3>1, <3>2
  <2>2. CASE i # n + 1
    <3>1. i \in 1..n /\ i - 1 \in 0..n
      BY <1>1, <1>5, <2>2 DEF n
    <3>2. native_stack[i].scope = HomeOf(native_stack, i - 1)
      BY <3>1 DEF Owned, n
    <3> QED
      BY <1>5, <1>7, <1>10, <3>1, <3>2
  <2> QED
    BY <2>1, <2>2
<1>13. ClassesIn(scopes'[file_scope_'], ops', pc')
  BY <1>6 DEF ClassesIn
<1> QED
  BY <1>6, <1>8, <1>9, <1>12, <1>13 DEF Owned, ClassesIn, Body, HomeOf, ns2

\* What a module that ends has defined is in the scope that is registered for it.
LEMMA OwnedEnds ==
  ASSUME LoaderAssumption, Framing, Scoping, Grow, Loading, Owned, OP_END
  PROVE  Owned'
<1> DEFINE ns == native_stack
           n == Len(native_stack)
           e == native_stack[Len(native_stack)]
<1>1. ns \in Seq(Entries) /\ disk' = disk /\ file_scope_map_' = file_scope_map_
      /\ pc > Len(Body(ops))
  <2>1. ns \in Seq(Entries)
    BY DEF Framing, FramingOf
  <2>2. disk' = disk /\ file_scope_map_' = file_scope_map_ /\ pc > Len(Body(ops))
    BY DEF OP_END, Names, Body
  <2> QED
    BY <2>1, <2>2
<1>2. CASE ns = << >>
  <2>1. UNCHANGED << disk, ops, pc, native_stack, file_scope_, scopes, file_scope_map_, required >>
    BY <1>1, <1>2 DEF OP_END, Names
  <2> QED
    BY <2>1 DEF Owned, ClassesIn, Body, HomeOf, PackageComplete
<1>3. CASE ns # << >>
  <2>1. /\ n \in Nat \ {0} /\ Len(Front(ns)) = n - 1 /\ Last(ns) = e
        /\ \A k \in 1..n - 1 : Front(ns)[k] = ns[k]
    BY <1>1, <1>3, FrontLast
  <2>2. /\ ns' = Front(ns) /\ file_scope_' = e.scope /\ ops' = e.ops /\ pc' = e.pc + 1
        /\ required' = [k \in DOMAIN required \cup {e.mod} |-> IF k = e.mod THEN "path" ELSE required[k]]
    BY <1>3, <2>1 DEF OP_END, Restored, ResumeAt
  <2>3. Len(ns') = n - 1 /\ \A i \in 1..n - 1 : ns'[i] = ns[i] /\ i \in 1..n
    BY <2>1, <2>2
  <2>4. n \in 1..n /\ n - 1 \in 0..n - 1
    BY <2>1
  <2>5. /\ ops = e.mod /\ e.ops \in Files /\ e.pc \in 1..Len(Body(e.ops))
        /\ Body(e.ops)[e.pc].op = "use"
    <3>1. ops = e.mod
      BY <2>1 DEF Framing, FramingOf, RunBy
    <3>2. frame_stack \in Seq(FrameRecs) /\ Suspended(frame_stack, ns)
      BY DEF Framing, FramingOf
    <3>3. e.ops \in Files
      BY <1>1, <2>4, <3>2, StackTypes
    <3> QED
      BY <2>4, <3>1, <3>2, <3>3 DEF Suspended
  <2>6. /\ file_scope_map_[e.mod] = e.home /\ file_scope_ = e.home
        /\ e.scope = HomeOf(ns, n - 1) /\ e.scope \in 1..Len(scopes)
    <3>1. file_scope_ = e.home
      BY <2>1 DEF Owned, HomeOf
    <3> QED
      BY <2>4, <3>1 DEF Owned, Loading, Scoping
  <2> HIDE DEF ns, n, e
  <2>7. \A i \in 0..n - 1 : HomeOf(ns', i) = HomeOf(ns, i)
    BY <2>1, <2>3 DEF HomeOf
  <2>8. \A i \in 1..n :
          ClassesIn(scopes'[ns[i].scope], ns[i].ops, ns[i].pc)
    BY <1>1, SuspendedKept DEF n, ns
  <2>9. ClassesIn(scopes'[e.scope], e.ops, e.pc + 1)
    <3>1. ClassesIn(scopes'[e.scope], e.ops, e.pc)
      BY <2>4, <2>8 DEF e, ns, n
    <3> SUFFICES ASSUME NEW j \in 1..(e.pc + 1) - 1, Body(e.ops)[j].op = "class"
                 PROVE  Body(e.ops)[j].name \in DOMAIN scopes'[e.scope]
      BY DEF ClassesIn
    <3>2. j # e.pc
      BY <2>5
    <3>3. disk \in Disks
      BY DEF Framing
    <3>4. Len(Body(e.ops)) \in Nat
      BY <2>5, <3>3, Text
    <3>5. j \in 1..e.pc - 1
      <4> DEFINE x == e.pc
      <4>1. x \in Int /\ j \in 1..(x + 1) - 1 /\ j # x
        BY <2>5, <3>2, <3>4
      <4> HIDE DEF x
      <4>2. j \in 1..x - 1
        BY <4>1
      <4> QED
        BY <4>2 DEF x
    <3> QED
      BY <3>1, <3>5 DEF ClassesIn
  <2>10. ASSUME NEW m \in DOMAIN required', required'[m] = "path",
                NEW i \in 1..Len(Body(m)), Body(m)[i].op = "class"
         PROVE  Body(m)[i].name \in DOMAIN scopes'[file_scope_map_[m]]
    <3>1. CASE m = e.mod
      <4>1. i \in 1..pc - 1
        <5>1. pc \in 1..Len(Body(ops)) + 1 /\ ops \in Files /\ disk \in Disks
          BY OwnFrames DEF Framing, FramingOf
        <5>2. Len(Body(ops)) \in Nat
          BY <5>1, Text
        <5> QED
          BY <1>1, <2>5, <3>1, <5>1, <5>2
      <4>2. Body(m)[i].name \in DOMAIN scopes[file_scope_]
        BY <2>5, <2>10, <3>1, <4>1 DEF Owned, ClassesIn
      <4>3. Extends(scopes[file_scope_], scopes'[file_scope_])
        BY DEF Scoping, Grow
      <4> QED
        BY <2>6, <3>1, <4>2, <4>3 DEF Extends
    <3>2. CASE m # e.mod
      <4>1. m \in DOMAIN required /\ required[m] = "path" /\ m \in DOMAIN file_scope_map_
        BY <2>2, <2>10, <3>2 DEF Loading
      <4>2. Body(m)[i].name \in DOMAIN scopes[file_scope_map_[m]]
        BY <2>10, <4>1 DEF Owned, PackageComplete, Body
      <4>3. Extends(scopes[file_scope_map_[m]], scopes'[file_scope_map_[m]])
        BY <4>1 DEF Scoping, Grow
      <4> QED
        BY <4>2, <4>3 DEF Extends
    <3> QED
      BY <3>1, <3>2
  <2>11. PackageComplete'
    BY <1>1, <2>10 DEF PackageComplete, Body
  <2>12. file_scope_' = HomeOf(ns', Len(ns'))
    BY <2>2, <2>3, <2>4, <2>6, <2>7
  <2>13. ASSUME NEW i \in 1..Len(ns')
         PROVE  /\ ns'[i].scope = HomeOf(ns', i - 1)
                /\ ClassesIn(scopes'[ns'[i].scope], ns'[i].ops, ns'[i].pc)
    <3>1. i \in 1..n /\ ns'[i] = ns[i] /\ i - 1 \in 0..n - 1
      BY <2>1, <2>3
    <3>2. ns[i].scope = HomeOf(ns, i - 1)
      BY <3>1 DEF Owned, ns, n
    <3> QED
      BY <2>7, <2>8, <3>1, <3>2
  <2>14. ClassesIn(scopes'[file_scope_'], ops', pc')
    BY <2>2, <2>9
  <2> QED
    BY <1>1, <2>11, <2>12, <2>13, <2>14 DEF Owned, ClassesIn, Body, HomeOf, ns
<1> QED
  BY <1>2, <1>3

-----------------------------------------------------------------------------
(* Together. *)

Placed == Framing /\ Scoping

\* Both hold in the beginning.
LEMMA PlacedInit == ASSUME LoaderAssumption, Init PROVE Placed
<1>1. Scoping
  <2>1. scopes = << Empty >> /\ file_scope_ = 1 /\ native_stack = << >> /\ file_scope_map_ = << >>
    BY DEF Init
  <2>2. scopes \in Seq({Empty}) /\ Len(scopes) = 1
    BY <2>1
  <2>3. DOMAIN file_scope_map_ = {} /\ Len(native_stack) = 0
    BY <2>1
  <2>4. \E S : scopes \in Seq(S)
    BY <2>2
  <2>5. file_scope_ \in 1..Len(scopes)
    BY <2>1, <2>2
  <2>6. \A i \in 1..Len(native_stack) : FALSE
    BY <2>3
  <2> QED
    BY <2>3, <2>4, <2>5, <2>6 DEF Scoping
<1> QED
  BY <1>1, FramingInit DEF Placed

\* And after every step.
LEMMA PlacedStep == ASSUME LoaderAssumption, Placed, [Next]_vars PROVE Placed' /\ Grow
<1>1. file_scope_ \in Nat /\ Len(scopes) \in Nat
  <2>1. PICK S : scopes \in Seq(S)
    BY DEF Placed, Scoping
  <2>2. Len(scopes) \in Nat
    BY <2>1
  <2> QED
    BY <2>2 DEF Placed, Scoping
<1> QED
  BY <1>1, FramingStep, ScopingStep DEF Placed

LoadInv == Placed /\ Loading /\ (~left => Owned) /\ KlassFramed

\* Nothing was loaded in the beginning.
LEMMA LoadInit == ASSUME LoaderAssumption, Init PROVE LoadInv
<1>1. /\ native_stack = << >> /\ file_scope_map_ = << >> /\ required = << >>
      /\ file_scope_ = 1 /\ pc = 1 /\ klass_ = NoClass
  BY DEF Init
<1>2. Len(native_stack) = 0 /\ DOMAIN file_scope_map_ = {} /\ DOMAIN required = {}
  BY <1>1
<1>3. Loading
  BY <1>2 DEF Loading
<1>4. Owned
  BY <1>1, <1>2 DEF Owned, HomeOf, ClassesIn, PackageComplete
<1> QED
  BY <1>1, <1>3, <1>4, PlacedInit DEF LoadInv, KlassFramed

\* The invariant of loading is inductive.
LEMMA LoadStep ==
  ASSUME LoaderAssumption, NoCycle(disk), NoClassSkipped(disk), LoadInv, [Next]_vars
  PROVE  LoadInv'
<1>1. Placed' /\ Grow /\ Framing /\ Scoping
  BY PlacedStep DEF LoadInv, Placed
<1>2. Loading'
  BY <1>1, LoadingStep DEF LoadInv
<1>3. KlassFramed'
  BY <1>1, KlassFramedStep DEF LoadInv
<1>4. ASSUME ~left' PROVE Owned'
  <2>1. CASE UNCHANGED vars
    BY <1>4, <2>1 DEF vars, LoadInv, Owned, ClassesIn, Body, HomeOf, PackageComplete
  <2>2. CASE UseLoads
    <3>1. Owned
      BY <1>4, <2>2 DEF UseLoads, LoadInv
    <3> QED
      BY <1>1, <2>2, <3>1, OwnedLoads DEF LoadInv
  <2>3. CASE OP_END
    <3>1. Owned
      BY <1>4, <2>3 DEF OP_END, LoadInv
    <3> QED
      BY <1>1, <2>3, <3>1, OwnedEnds DEF LoadInv
  <2>4. CASE Next /\ ~UseLoads /\ ~OP_END
    <3>1. Owned
      BY <1>1, <1>4, <2>4, Within DEF LoadInv
    <3> QED
      BY <1>1, <1>4, <2>4, <3>1, OwnedWithin DEF LoadInv
  <2> QED
    BY <2>1, <2>2, <2>3, <2>4
<1> QED
  BY <1>1, <1>2, <1>3, <1>4 DEF LoadInv

\* What the run checks of loading follows.
LEMMA LoadImplies ==
  ASSUME LoaderAssumption, NoCycle(disk), LoadInv
  PROVE  ModulesLoaded
<1>1. LoadedOnce
  BY RunsOnce DEF LoadInv, Placed
<1>2. ~left => OwnScope
  <2> SUFFICES ASSUME ~left PROVE file_scope_ = HomeScope
    BY DEF OwnScope
  <2>1. file_scope_ = HomeOf(native_stack, Len(native_stack)) /\ native_stack \in Seq(Entries)
    BY DEF LoadInv, Owned, Placed, Framing, FramingOf
  <2>2. CASE native_stack = << >>
    BY <2>1, <2>2 DEF HomeOf, HomeScope
  <2>3. CASE native_stack # << >>
    <3>1. Last(native_stack) = native_stack[Len(native_stack)] /\ Len(native_stack) # 0
      BY <2>1, <2>3, FrontLast
    <3> QED
      BY <2>1, <2>3, <3>1 DEF HomeOf, HomeScope
  <2> QED
    BY <2>2, <2>3
<1> QED
  BY <1>1, <1>2 DEF ModulesLoaded, CompleteUnlessLeft, OwnScopeUnlessLeft, LoadInv, Owned

\* For any library without cycles of use, and without a class behind a statement
\* that may throw in the same try: a module runs once, what it defines is found
\* by its users in the scope registered for it, and require_package leaves
\* file_scope_ and klass_ as it found them, unless a load failed to compile.
THEOREM ModulesLoadedCorrect ==
  ASSUME LoaderAssumption, \A d \in Disks : NoCycle(d) /\ NoClassSkipped(d)
  PROVE  Spec => []ModulesLoaded
<1>1. Init => LoadInv
  BY LoadInit
<1>2. LoadInv => NoCycle(disk) /\ NoClassSkipped(disk)
  BY DEF LoadInv, Placed, Framing
<1>3. LoadInv /\ [Next]_vars => LoadInv'
  BY <1>2, LoadStep
<1>4. LoadInv => ModulesLoaded
  BY <1>2, LoadImplies
<1> QED
  BY <1>1, <1>3, <1>4, PTL DEF Spec

-----------------------------------------------------------------------------
(* Definitions. *)

\* A statement outside a class, or after the class is entered.
LEMMA InClassOn ==
  ASSUME NEW f, NEW p \in Nat \ {0}, disk[f].body[p].op # "class_end",
         disk[f].body[p].op = "class" \/ InClass(f, p)
  PROVE  InClass(f, p + 1)
<1>1. CASE disk[f].body[p].op = "class"
  <2>1. p \in 1..(p + 1) - 1 /\ \A j \in p..(p + 1) - 1 : j = p
    OBVIOUS
  <2> QED
    BY <1>1, <2>1 DEF InClass
<1>2. CASE InClass(f, p)
  <2>1. PICK i \in 1..p - 1 :
          /\ disk[f].body[i].op = "class"
          /\ \A j \in i..p - 1 : disk[f].body[j].op # "class_end"
    BY <1>2 DEF InClass
  <2>2. i \in 1..(p + 1) - 1 /\ \A j \in i..(p + 1) - 1 : j \in i..p - 1 \/ j = p
    OBVIOUS
  <2> QED
    BY <2>1, <2>2 DEF InClass
<1> QED
  BY <1>1, <1>2

\* Where a file has a class frame, its text is in a class body; and it has one at most.
LEMMA ClassText ==
  ASSUME LoaderAssumption, disk \in Disks, NEW f \in Files, NEW p \in 1..Len(Body(f)) + 1,
         Holds(FramesAt(Body(f))[p], "class")
  PROVE  InClass(f, p)
<1> DEFINE at(q) == FramesAt(Body(f))[q]
           Good(q) ==
             /\ \A k, l \in 1..Len(at(q)) : at(q)[k].type = "class" /\ at(q)[l].type = "class" => k = l
             /\ Holds(at(q), "class") => InClass(f, q)
           T == {q \in 1..Len(Body(f)) + 1 : ~Good(q)}
<1>1. Len(Body(f)) \in Nat /\ Nests(Body(f), FramesAt(Body(f)))
  BY Text
<1> SUFFICES ASSUME T # {} PROVE FALSE
  OBVIOUS
<1>2. \A q \in T : q \in Nat
  BY <1>1
<1>3. T \in SUBSET Nat
  BY <1>2
<1> HIDE DEF T
<1>4. PICK q \in T : \A r \in T : q <= r
  BY <1>3, LeastNat
<1>5. q \in 1..Len(Body(f)) + 1 /\ ~Good(q)
  BY DEF T
<1>6. Good(1)
  BY <1>1 DEF Nests, Holds
<1>7. q # 1
  BY <1>5, <1>6
<1> DEFINE s == Body(f)[q - 1]
           a == at(q - 1)
<1>8. q - 1 \in 1..Len(Body(f)) /\ q - 1 \in Nat \ {0} /\ (q - 1) + 1 = q
      /\ q - 1 \in 1..Len(Body(f)) + 1
  BY <1>1, <1>5, <1>7
<1>9. q - 1 \notin T
  BY <1>4, <1>8
<1>10. Good(q - 1)
  BY <1>8, <1>9 DEF T
<1>11. /\ s \in Statements /\ a \in Seq(FrameRecs) /\ at(q) = Framed(a, s)
       /\ s.op \in DOMAIN Ends => a # << >> /\ a[Len(a)].type = Ends[s.op]
  BY ZenonT(40), <1>8, NextFrames
<1>12. s.op = "class" => ~Holds(a, "class")
  BY <1>1, <1>8 DEF Nests
<1>13. /\ \A k, l \in 1..Len(a) : a[k].type = "class" /\ a[l].type = "class" => k = l
       /\ Holds(a, "class") => InClass(f, q - 1)
  BY <1>10
<1>14. s.op # "class_end" /\ (s.op = "class" \/ Holds(a, "class")) => InClass(f, q)
  BY <1>8, <1>13, InClassOn DEF Body
<1>15. Len(a) \in Nat
  BY <1>11
<1> HIDE DEF s, a
<1>16. CASE s.op = "class"
  <2> DEFINE x == [type |-> "class", to |-> 0]
  <2>1. x \in FrameRecs /\ x.type = "class"
    BY DEF FrameRecs
  <2>2. at(q) = Append(a, x)
    BY <1>11, <1>16 DEF Framed, Ends
  <2> HIDE DEF x, at
  <2>3. Len(at(q)) = Len(a) + 1 /\ \A k \in 1..Len(a) : at(q)[k] = a[k]
    BY <1>11, <2>1, <2>2, Pushed
  <2>4. \A k \in 1..Len(at(q)) : at(q)[k].type = "class" => k = Len(a) + 1
    <3>1. \A k \in 1..Len(at(q)) : k \in 1..Len(a) \/ k = Len(a) + 1
      BY <1>15, <2>3
    <3> QED
      BY <1>12, <1>16, <2>3, <3>1 DEF Holds
  <2>5. Good(q)
    BY <1>14, <1>16, <2>4
  <2> QED
    BY <1>5, <2>5
<1>17. CASE s.op = "try"
  <2> DEFINE x == [type |-> "try", to |-> s.to]
  <2>1. x \in FrameRecs /\ x.type = "try"
    BY <1>11, <1>17, Operands DEF FrameRecs
  <2>2. at(q) = Append(a, x)
    BY <1>11, <1>17 DEF Framed, Ends
  <2> HIDE DEF x, at
  <2>3. Len(at(q)) = Len(a) + 1 /\ at(q)[Len(a) + 1] = x /\ \A k \in 1..Len(a) : at(q)[k] = a[k]
    BY <1>11, <2>1, <2>2, Pushed
  <2>4. \A k \in 1..Len(at(q)) : at(q)[k].type = "class" => k \in 1..Len(a) /\ a[k].type = "class"
    <3>1. \A k \in 1..Len(at(q)) : k \in 1..Len(a) \/ k = Len(a) + 1
      BY <1>15, <2>3
    <3> QED
      BY <2>1, <2>3, <3>1
  <2>5. Good(q)
    BY <1>13, <1>14, <1>17, <2>4 DEF Holds
  <2> QED
    BY <1>5, <2>5
<1>18. CASE s.op \in DOMAIN Ends
  <2>1. a # << >> /\ a[Len(a)].type = Ends[s.op]
    BY <1>11, <1>18
  <2>2. at(q) = Front(a)
    BY <1>11, <1>18 DEF Framed, Ends
  <2> HIDE DEF at
  <2>3. /\ Len(at(q)) = Len(a) - 1 /\ Len(a) \in Nat \ {0}
        /\ \A k \in 1..Len(a) - 1 : at(q)[k] = a[k]
    BY <1>11, <2>1, <2>2, FrontLast
  <2>4. \A k \in 1..Len(at(q)) : at(q)[k].type = "class" =>
          k \in 1..Len(a) /\ a[k].type = "class" /\ k # Len(a)
    BY <2>3
  <2>5. s.op = "class_end" => ~Holds(at(q), "class")
    <3> SUFFICES ASSUME s.op = "class_end", NEW k \in 1..Len(at(q)), at(q)[k].type = "class"
                 PROVE  FALSE
      BY DEF Holds
    <3>1. a[Len(a)].type = "class" /\ Len(a) \in 1..Len(a)
      BY <2>1, <2>3 DEF Ends
    <3> QED
      BY <1>13, <2>4, <3>1
  <2>6. Holds(at(q), "class") => Holds(a, "class")
    BY <2>4 DEF Holds
  <2>7. Good(q)
    BY <1>13, <1>14, <2>4, <2>5, <2>6
  <2> QED
    BY <1>5, <2>7
<1>19. CASE s.op \notin {"class", "try"} /\ s.op \notin DOMAIN Ends
  <2>1. at(q) = a /\ s.op # "class_end"
    BY <1>11, <1>19 DEF Framed, Ends
  <2> HIDE DEF at
  <2>2. Good(q)
    BY <1>13, <1>14, <2>1
  <2> QED
    BY <1>5, <2>2
<1> QED
  BY <1>16, <1>17, <1>18, <1>19

\* A class is being defined only by the activation in control, in a class body.
OwnClass == ClassAbove(klass_, frame_stack, BaseOf(native_stack, Len(native_stack)))

\* It is: a module is used outside classes, and ends outside classes.
LEMMA OwnClassStep ==
  ASSUME LoaderAssumption, NoUseInClass(disk), Placed, OwnClass, [Next]_vars
  PROVE  OwnClass'
<1> DEFINE b == BaseOf(native_stack, Len(native_stack))
           at == FramesAt(Body(ops))[pc]
<1>1. /\ frame_stack \in Seq(FrameRecs) /\ native_stack \in Seq(Entries) /\ disk \in Disks
      /\ b \in Nat /\ Len(at) \in Nat /\ Len(frame_stack) = b + Len(at) /\ ops \in Files
      /\ \A k \in 1..Len(at) : frame_stack[b + k] = at[k]
      /\ pc \in 1..Len(Body(ops)) + 1
  BY OwnFrames DEF Placed, Framing, FramingOf
<1>2. CASE UNCHANGED vars
  BY <1>2 DEF vars, OwnClass, ClassAbove, BaseOf
<1>3. CASE UseLoads
  <2>1. Stmt.op = "use" /\ pc <= Len(Body(ops)) /\ klass_' = klass_ /\ Stmt = Body(ops)[pc]
    BY <1>3 DEF UseLoads, At, Body, Stmt
  <2>2. pc \in 1..Len(Body(ops))
    BY <1>1, <2>1, Text
  <2>3. ~Holds(at, "class")
    BY <1>1, <2>1, <2>2 DEF NoUseInClass, Body
  <2> HIDE DEF b, at
  <2>4. ASSUME NEW k \in b + 1..Len(frame_stack), frame_stack[k].type = "class" PROVE FALSE
    <3> DEFINE j == k - b
    <3>1. j \in 1..Len(at) /\ b + j = k
      BY <1>1
    <3> HIDE DEF j
    <3>2. at[j].type = "class"
      BY <1>1, <2>4, <3>1
    <3> QED
      BY <2>3, <3>1, <3>2 DEF Holds
  <2>5. klass_ = NoClass
    BY <2>4 DEF OwnClass, ClassAbove, b
  <2> QED
    BY <2>1, <2>5 DEF OwnClass, ClassAbove
<1>4. CASE OP_END
  <2>1. CASE native_stack = << >>
    BY <1>4, <2>1 DEF OP_END, OwnClass, ClassAbove, BaseOf
  <2>2. CASE native_stack # << >>
    <3>1. Len(frame_stack) = native_stack[Len(native_stack)].frames
      BY <1>4, <2>2, Returned DEF OP_END, Placed, Framing, Body
    <3>2. Len(native_stack) # 0 /\ b = Len(frame_stack)
      BY <1>1, <2>2, <3>1 DEF BaseOf
    <3>3. b + 1..Len(frame_stack) = {}
      BY <1>1, <3>2
    <3>4. klass_ = NoClass
      BY <3>3 DEF OwnClass, ClassAbove
    <3>5. klass_' = NoClass
      BY <1>4, <2>2, <3>4 DEF OP_END, Dropped
    <3> QED
      BY <3>5 DEF OwnClass, ClassAbove
  <2> QED
    BY <2>1, <2>2
<1>5. CASE Next /\ ~UseLoads /\ ~OP_END
  <2>1. native_stack' = native_stack
    BY <1>5, StepKinds DEF Placed, GoesOn, Catches, Stays
  <2>2. b <= BaseOf(native_stack, Len(native_stack))
    BY <1>1
  <2>3. ClassAbove(klass_, frame_stack, b)
    BY DEF OwnClass
  <2> HIDE DEF b
  <2>4. ClassAbove(klass_', frame_stack', b)
    BY <1>1, <1>5, <2>2, <2>3, KlassKept DEF Placed
  <2> QED
    BY <2>1, <2>4 DEF OwnClass, ClassAbove, b, BaseOf
<1> QED
  BY <1>2, <1>3, <1>4, <1>5

\* Outside the class bodies of its text, an activation defines functions.
LEMMA Outside ==
  ASSUME LoaderAssumption, Placed, OwnClass, ~InClass(ops, pc)
  PROVE  klass_ = NoClass
<1> DEFINE b == BaseOf(native_stack, Len(native_stack))
           at == FramesAt(Body(ops))[pc]
<1>1. /\ disk \in Disks /\ ops \in Files /\ pc \in 1..Len(Body(ops)) + 1
      /\ b \in Nat /\ Len(at) \in Nat /\ Len(frame_stack) = b + Len(at)
      /\ \A k \in 1..Len(at) : frame_stack[b + k] = at[k]
  BY OwnFrames DEF Placed, Framing, FramingOf
<1>2. ~Holds(at, "class")
  BY <1>1, ClassText
<1> HIDE DEF b, at
<1>3. ASSUME NEW k \in b + 1..Len(frame_stack), frame_stack[k].type = "class" PROVE FALSE
  <2> DEFINE j == k - b
  <2>1. j \in 1..Len(at) /\ b + j = k
    BY <1>1
  <2> HIDE DEF j
  <2>2. at[j].type = "class"
    BY <1>1, <1>3, <2>1
  <2> QED
    BY <1>2, <2>1, <2>2 DEF Holds
<1> QED
  BY <1>3 DEF OwnClass, ClassAbove, b

\* A sub outside classes becomes a function of the scope it is run in.
LEMMA SubDefined ==
  ASSUME LoaderAssumption, Placed, OwnClass, Next
  PROVE  SubStep
<1> SUFFICES ASSUME At("sub"), ~InClass(ops, pc) PROVE Stmt.name \in DOMAIN scopes'[file_scope_]
  BY DEF SubStep
<1>1. Stmt.op = "sub" /\ pc <= Len(disk[ops].body) /\ mode = "run"
  BY DEF At
<1>2. pc \in Int /\ Len(disk[ops].body) \in Int
  <2>1. disk \in Disks /\ ops \in Files /\ pc \in 1..Len(Body(ops)) + 1
    BY OwnFrames DEF Placed, Framing, FramingOf
  <2> QED
    BY <2>1, Text DEF Body
<1>3. OP_FUNCDEF
  BY <1>1, <1>2 DEF Next, Step, Done, At, OP_TRY, TryEnd, OP_DIE, OP_CLASS_ENTER, OP_SET_PARENT,
                    OP_CLASS_LEAVE, UseRequired, UseFails, UseBad, UseLoads, OP_END
<1>4. klass_ = NoClass
  BY Outside
<1> DEFINE X == Insert(scopes[file_scope_], Stmt.name, Code(ops))
<1>5. scopes' = [scopes EXCEPT ![file_scope_] = X]
  BY <1>3, <1>4 DEF OP_FUNCDEF, AddFunction, CodeScope
<1>6. Extends(scopes[file_scope_], X) /\ Stmt.name \in DOMAIN X
  BY Inserted
<1> HIDE DEF X
<1>7. (\E S : scopes \in Seq(S)) /\ file_scope_ \in 1..Len(scopes)
  BY DEF Placed, Scoping
<1>8. scopes'[file_scope_] = X
  BY <1>5, <1>6, <1>7, Replaced
<1> QED
  BY <1>6, <1>8

\* A name keeps its value.
LEMMA Bound == ASSUME Placed, Grow PROVE BindingStep
<1>1. PICK S : scopes \in Seq(S)
  BY DEF Placed, Scoping
<1>2. DOMAIN scopes = 1..Len(scopes)
  BY <1>1
<1> QED
  BY <1>2 DEF Grow, Extends, BindingStep

\* For any library in which no class uses a module: a name of a scope keeps the
\* value it was given first, and a sub outside classes becomes a function.
THEOREM DefinitionsCorrect ==
  ASSUME LoaderAssumption, \A d \in Disks : NoUseInClass(d)
  PROVE  Spec => DefinitionsHold
<1> DEFINE I == Placed /\ OwnClass
<1>1. Init => I
  <2> SUFFICES ASSUME Init PROVE I
    OBVIOUS
  <2>1. klass_ = NoClass
    BY DEF Init
  <2> QED
    BY <2>1, PlacedInit DEF OwnClass, ClassAbove
<1>2. I => NoUseInClass(disk)
  BY DEF Placed, Framing
<1>3. I /\ [Next]_vars => I'
  BY <1>2, PlacedStep, OwnClassStep
<1>4. I /\ [Next]_vars => [BindingStep /\ SubStep]_vars
  BY PlacedStep, SubDefined, Bound
<1> QED
  BY <1>1, <1>3, <1>4, PTL DEF Spec, DefinitionsHold

\* For any library at all: a name of a scope keeps the value it was given first.
THEOREM NeverReboundCorrect == ASSUME LoaderAssumption PROVE Spec => NeverRebound
<1>1. Init => Placed
  BY PlacedInit
<1>2. Placed /\ [Next]_vars => Placed' /\ [BindingStep]_vars
  BY PlacedStep, Bound
<1> QED
  BY <1>1, <1>2, PTL DEF Spec, NeverRebound

-----------------------------------------------------------------------------
(* Superclasses. *)

\* What is required has a scope registered, and what runs too.
Mapped ==
  /\ \A i \in 1..Len(native_stack) : native_stack[i].mod \in DOMAIN file_scope_map_
  /\ \A m \in DOMAIN required : required[m] # "undef" => m \in DOMAIN file_scope_map_

ClassRec(r) == r = [name |-> r.name, file |-> r.file, super |-> r.super, methods |-> r.methods]

\* The classes of a scope are among the first n.
Refers(scope, n) == \A x \in DOMAIN scope : scope[x].is = "class" => scope[x].class \in 1..n

\* The class being defined is the last one that was made; values refer to classes that were made.
Classing ==
  /\ \E S : classes \in Seq(S)
  /\ klass_ \in {NoClass, Len(classes)}
  /\ \A c \in 1..Len(classes) : ClassRec(classes[c]) /\ classes[c].super \in 0..c - 1
  /\ \A s \in 1..Len(scopes) : Refers(scopes[s], Len(classes))

\* Every step keeps modules registered.
LEMMA MappedStep ==
  ASSUME LoaderAssumption, Placed, Mapped, [Next]_vars
  PROVE  Mapped'
<1>1. frame_stack \in Seq(FrameRecs) /\ native_stack \in Seq(Entries) /\ Len(native_stack) \in Nat
  BY DEF Placed, Framing, FramingOf
<1>2. ASSUME native_stack' = native_stack, Extends(file_scope_map_, file_scope_map_'),
             \A m \in DOMAIN required' : required'[m] # "undef" => m \in DOMAIN required /\ required[m] # "undef"
      PROVE  Mapped'
  BY <1>2 DEF Mapped, Extends
<1>3. ASSUME UNCHANGED << native_stack, file_scope_map_, required >> PROVE Mapped'
  BY <1>3 DEF Mapped
<1>4. CASE UNCHANGED vars \/ Done
  BY <1>3, <1>4 DEF vars, Done
<1>5. CASE OP_TRY \/ TryEnd \/ OP_FUNCDEF \/ OP_CLASS_ENTER \/ OP_CLASS_LEAVE
  BY <1>3, <1>5 DEF OP_TRY, TryEnd, OP_FUNCDEF, OP_CLASS_ENTER, OP_CLASS_LEAVE, Names
<1>6. CASE OP_DIE
  BY <1>3, <1>6, RaiseScopes DEF OP_DIE, Names
<1>7. CASE OP_SET_PARENT
  BY <1>3, <1>7, RaiseScopes DEF OP_SET_PARENT, Names
<1>8. CASE UseRequired
  BY <1>3, <1>8, RaiseScopes DEF UseRequired, Names
<1>9. CASE UseFails
  <2>1. /\ native_stack' = native_stack /\ file_scope_map_' = file_scope_map_
        /\ Stmt.mod \notin DOMAIN required
        /\ required' = required \/ required' = Insert(required, Stmt.mod, "undef")
    BY <1>9, RaiseScopes DEF UseFails, IsRequired
  <2>2. CASE required' = required
    BY <1>3, <2>1, <2>2
  <2>3. CASE required' = Insert(required, Stmt.mod, "undef")
    <3>1. \A m \in DOMAIN required' :
            required'[m] # "undef" => m \in DOMAIN required /\ required[m] # "undef"
      BY <2>1, <2>3 DEF Insert
    <3> QED
      BY <1>2, <2>1, <3>1 DEF Extends
  <2> QED
    BY <2>1, <2>2, <2>3
<1>10. CASE UseBad
  <2>1. /\ native_stack' = native_stack /\ required' = required
        /\ file_scope_map_' = Insert(file_scope_map_, Stmt.mod, Len(scopes) + 1)
    BY <1>10, RaiseScopes DEF UseBad, NewScope
  <2> QED
    BY <1>2, <2>1, Inserted
<1>11. CASE UseLoads
  <2>1. \E S : scopes \in Seq(S)
    BY DEF Placed, Scoping
  <2>2. Len(scopes) \in Nat
    BY <2>1
  <2>3. file_scope_ \in Nat
    BY <2>2 DEF Placed, Scoping
  <2>4. Entered \in Entries /\ native_stack' = Append(native_stack, Entered) /\ Entered.mod = Stmt.mod
    BY <1>11, <2>2, <2>3, EnteredIs DEF Placed
  <2>5. /\ Len(native_stack') = Len(native_stack) + 1
        /\ native_stack'[Len(native_stack) + 1] = Entered
        /\ \A i \in 1..Len(native_stack) : native_stack'[i] = native_stack[i]
    BY <1>1, <2>4
  <2>6. file_scope_map_' = Insert(file_scope_map_, Stmt.mod, Len(scopes) + 1) /\ required' = required
    BY <1>11 DEF UseLoads, NewScope
  <2>7. DOMAIN file_scope_map_' = DOMAIN file_scope_map_ \cup {Stmt.mod}
    BY <2>6, Inserted
  <2>8. ASSUME NEW i \in 1..Len(native_stack') PROVE native_stack'[i].mod \in DOMAIN file_scope_map_'
    <3>1. i = Len(native_stack) + 1 \/ i \in 1..Len(native_stack)
      BY <1>1, <2>5
    <3> QED
      BY <2>4, <2>5, <2>7, <3>1 DEF Mapped
  <2> QED
    BY <2>6, <2>7, <2>8 DEF Mapped
<1>12. CASE OP_END
  <2>1. CASE native_stack = << >>
    BY <1>3, <1>12, <2>1 DEF OP_END, Names
  <2>2. CASE native_stack # << >>
    <3> DEFINE e == Last(native_stack)
    <3>1. /\ Len(native_stack) \in Nat \ {0} /\ Len(Front(native_stack)) = Len(native_stack) - 1
          /\ \A k \in 1..Len(native_stack) - 1 : Front(native_stack)[k] = native_stack[k]
          /\ e = native_stack[Len(native_stack)]
      BY <1>1, <2>2, FrontLast
    <3>2. /\ native_stack' = Front(native_stack) /\ file_scope_map_' = file_scope_map_
          /\ required' = [k \in DOMAIN required \cup {e.mod} |-> IF k = e.mod THEN "path" ELSE required[k]]
      BY <1>12, <2>2 DEF OP_END
    <3>3. e.mod \in DOMAIN file_scope_map_
      BY <3>1 DEF Mapped
    <3> HIDE DEF e
    <3>4. \A i \in 1..Len(native_stack') : i \in 1..Len(native_stack) /\ native_stack'[i] = native_stack[i]
      BY <3>1, <3>2
    <3> QED
      BY <3>2, <3>3, <3>4 DEF Mapped
  <2> QED
    BY <2>1, <2>2
<1> QED
  BY <1>4, <1>5, <1>6, <1>7, <1>8, <1>9, <1>10, <1>11, <1>12 DEF Next, Step

\* Names that are inserted or copied refer to classes if their values do.
LEMMA RefersKept ==
  ASSUME NEW a, NEW n, Refers(a, n)
  PROVE  /\ \A x, v : (v.is = "class" => v.class \in 1..n) => Refers(Insert(a, x, v), n)
         /\ \A b : Refers(b, n) => Refers(CopyAll(a, b), n)
<1>1. ASSUME NEW x, NEW v, v.is = "class" => v.class \in 1..n PROVE Refers(Insert(a, x, v), n)
  BY <1>1 DEF Refers, Insert
<1>2. ASSUME NEW b, Refers(b, n) PROVE Refers(CopyAll(a, b), n)
  BY <1>2 DEF Refers, CopyAll
<1> QED
  BY <1>1, <1>2

\* One scope is replaced, or one is added.
LEMMA RefersAll ==
  ASSUME NEW S, scopes \in Seq(S), NEW n, \A s \in 1..Len(scopes) : Refers(scopes[s], n),
         \/ scopes' = scopes
         \/ \E t \in 1..Len(scopes) : \E X : Refers(X, n) /\ scopes' = [scopes EXCEPT ![t] = X]
         \/ scopes' = Append(scopes, Empty)
  PROVE  \A s \in 1..Len(scopes') : Refers(scopes'[s], n)
<1>1. CASE scopes' = scopes
  BY <1>1
<1>2. CASE \E t \in 1..Len(scopes) : \E X : Refers(X, n) /\ scopes' = [scopes EXCEPT ![t] = X]
  <2>3. PICK t \in 1..Len(scopes) : \E X : Refers(X, n) /\ scopes' = [scopes EXCEPT ![t] = X]
    BY <1>2
  <2>1. PICK X : Refers(X, n) /\ scopes' = [scopes EXCEPT ![t] = X]
    BY <2>3
  <2>2. Len(scopes') = Len(scopes) /\ scopes'[t] = X
        /\ \A s \in 1..Len(scopes) : s # t => scopes'[s] = scopes[s]
    BY <2>1
  <2> QED
    BY <2>1, <2>2
<1>3. CASE scopes' = Append(scopes, Empty)
  <2>1. /\ Len(scopes) \in Nat /\ Len(scopes') = Len(scopes) + 1 /\ scopes'[Len(scopes) + 1] = Empty
        /\ \A s \in 1..Len(scopes) : scopes'[s] = scopes[s]
    BY <1>3
  <2>2. DOMAIN Empty = {}
    BY DEF Empty
  <2>3. Refers(Empty, n)
    BY <2>2 DEF Refers
  <2>4. \A s \in 1..Len(scopes') : s \in 1..Len(scopes) \/ s = Len(scopes) + 1
    BY <2>1
  <2> QED
    BY <2>1, <2>3, <2>4
<1> QED
  BY <1>1, <1>2, <1>3

\* More classes are more than those that are referred to.
LEMMA RefersMore ==
  ASSUME NEW a, NEW n \in Nat, NEW k \in Nat, n <= k, Refers(a, n)
  PROVE  Refers(a, k)
  BY DEF Refers

\* A use copies what a module's scope has, or adds a package.
LEMMA ImportRefers ==
  ASSUME NEW S, scopes \in Seq(S), NEW n, \A s \in 1..Len(scopes) : Refers(scopes[s], n),
         NEW m, file_scope_map_[m] \in 1..Len(scopes), NEW all, NEW t \in 1..Len(scopes),
         Import(m, all, t)
  PROVE  \A s \in 1..Len(scopes') : Refers(scopes'[s], n)
<1> DEFINE v == Package(m, file_scope_map_[m])
           X == IF all THEN CopyAll(scopes[t], scopes[file_scope_map_[m]]) ELSE Insert(scopes[t], m, v)
<1>1. v.is # "class"
  BY DEF Package
<1> HIDE DEF v
<1>2. Refers(X, n)
  BY <1>1, RefersKept
<1>3. scopes' = [scopes EXCEPT ![t] = X]
  BY DEF Import, v
<1> HIDE DEF X
<1> QED
  BY <1>2, <1>3, RefersAll

\* Nothing happens to the classes but, perhaps, that the definition of one ends.
LEMMA ClassesSame ==
  ASSUME Classing, classes' = classes, klass_' \in {NoClass, klass_},
         \A s \in 1..Len(scopes') : Refers(scopes'[s], Len(classes))
  PROVE  Classing'
  BY DEF Classing, ClassRec

\* A throw leaves them alone.
LEMMA RaiseClasses ==
  ASSUME NEW b, Raise(b)
  PROVE  classes' = classes /\ klass_' \in {NoClass, klass_}
  BY DEF Raise, Dropped

\* A class gets a method or a superclass.
LEMMA ClassChanged ==
  ASSUME Classing, klass_' = klass_, scopes' = scopes,
         \/ \E X : classes' = [classes EXCEPT ![klass_].methods = X]
         \/ \E p \in 0..Len(classes) : classes' = [classes EXCEPT ![klass_].super = p]
                /\ (klass_ # NoClass => p < klass_)
  PROVE  Classing'
<1>1. PICK S : classes \in Seq(S)
  BY DEF Classing
<1>2. Len(classes) \in Nat /\ DOMAIN classes = 1..Len(classes)
  BY <1>1
<1>3. PICK r, p : /\ classes' = [classes EXCEPT ![klass_] = r]
                  /\ klass_ # NoClass => ClassRec(r) /\ r.super = p /\ p \in 0..klass_ - 1
  <2>1. CASE \E X : classes' = [classes EXCEPT ![klass_].methods = X]
    <3>1. PICK X : classes' = [classes EXCEPT ![klass_].methods = X]
      BY <2>1
    <3> DEFINE c == classes[klass_]
               r == [c EXCEPT !.methods = X]
    <3>2. classes' = [classes EXCEPT ![klass_] = r]
      BY <3>1
    <3>3. ASSUME klass_ # NoClass PROVE ClassRec(r) /\ r.super \in 0..klass_ - 1
      <4>1. ClassRec(c) /\ c.super \in 0..klass_ - 1
        BY <1>2, <3>3 DEF Classing, NoClass
      <4>2. r = [name |-> c.name, file |-> c.file, super |-> c.super, methods |-> X]
        BY <4>1 DEF ClassRec
      <4> QED
        BY <4>1, <4>2 DEF ClassRec
    <3> QED
      BY <3>2, <3>3
  <2>2. CASE \E p \in 0..Len(classes) : classes' = [classes EXCEPT ![klass_].super = p]
                /\ (klass_ # NoClass => p < klass_)
    <3>1. PICK p \in 0..Len(classes) : classes' = [classes EXCEPT ![klass_].super = p]
                /\ (klass_ # NoClass => p < klass_)
      BY <2>2
    <3> DEFINE c == classes[klass_]
               r == [c EXCEPT !.super = p]
    <3>2. classes' = [classes EXCEPT ![klass_] = r]
      BY <3>1
    <3>3. ASSUME klass_ # NoClass PROVE ClassRec(r) /\ r.super \in 0..klass_ - 1
      <4>1. ClassRec(c) /\ klass_ \in Nat
        BY <1>2, <3>3 DEF Classing, NoClass
      <4>2. r = [name |-> c.name, file |-> c.file, super |-> p, methods |-> c.methods]
        BY <4>1 DEF ClassRec
      <4>3. r.super = p /\ ClassRec(r)
        BY <4>2 DEF ClassRec
      <4>4. p \in 0..klass_ - 1
        BY <1>2, <3>1, <3>3, <4>1
      <4> QED
        BY <4>3, <4>4
    <3> QED
      BY <3>2, <3>3
  <2> QED
    BY <2>1, <2>2
<1>4. classes' \in Seq(S \cup {r}) /\ Len(classes') = Len(classes)
      /\ \A c \in 1..Len(classes) : classes'[c] = IF c = klass_ THEN r ELSE classes[c]
  <2>1. CASE klass_ \in 1..Len(classes)
    BY <1>1, <1>3, <2>1
  <2>2. CASE klass_ \notin 1..Len(classes)
    <3>1. classes \in [1..Len(classes) -> S]
      BY <1>1
    <3>2. [classes EXCEPT ![klass_] = r] = classes
      BY <2>2, <3>1
    <3>3. classes' = classes
      BY <1>3, <3>2
    <3>4. classes \in Seq(S \cup {r})
      BY <1>1
    <3> QED
      BY <1>2, <2>2, <3>3, <3>4
  <2> QED
    BY <2>1, <2>2
<1>5. \A c \in 1..Len(classes) : c # NoClass
  BY <1>2 DEF NoClass
<1>6. \A c \in 1..Len(classes') : ClassRec(classes'[c]) /\ classes'[c].super \in 0..c - 1
  BY <1>3, <1>4, <1>5 DEF Classing
<1> QED
  BY <1>4, <1>6 DEF Classing, ClassRec

\* Every step keeps superclasses before their subclasses.
LEMMA ClassingStep ==
  ASSUME LoaderAssumption, Placed, Mapped, Classing, [Next]_vars
  PROVE  Classing'
<1>1. PICK S : scopes \in Seq(S)
  BY DEF Placed, Scoping
<1>2. PICK C : classes \in Seq(C)
  BY DEF Classing
<1>3. /\ Len(scopes) \in Nat /\ Len(classes) \in Nat /\ file_scope_ \in 1..Len(scopes)
      /\ \A s \in 1..Len(scopes) : Refers(scopes[s], Len(classes))
  BY <1>1, <1>2 DEF Placed, Scoping, Classing
<1>4. ASSUME classes' = classes, klass_' \in {NoClass, klass_}, scopes' = scopes PROVE Classing'
  BY <1>3, <1>4, ClassesSame
<1>5. ASSUME classes' = classes, klass_' \in {NoClass, klass_}, scopes' = Append(scopes, Empty)
      PROVE  Classing'
  BY <1>1, <1>3, <1>5, ClassesSame, RefersAll
<1>6. ASSUME classes' = classes, klass_' \in {NoClass, klass_}, NEW m, NEW all,
             NEW t \in 1..Len(scopes), m \in DOMAIN file_scope_map_, Import(m, all, t)
      PROVE  Classing'
  <2>1. file_scope_map_[m] \in 1..Len(scopes)
    BY <1>6 DEF Placed, Scoping
  <2>2. \A s \in 1..Len(scopes') : Refers(scopes'[s], Len(classes))
    BY <1>1, <1>3, <1>6, <2>1, ImportRefers
  <2> QED
    BY <1>6, <2>2, ClassesSame
<1>7. CASE UNCHANGED vars \/ Done
  BY <1>4, <1>7 DEF vars, Done
<1>8. CASE OP_TRY \/ TryEnd \/ OP_CLASS_LEAVE
  BY <1>4, <1>8 DEF OP_TRY, TryEnd, OP_CLASS_LEAVE, Names
<1>9. CASE OP_DIE
  BY <1>4, <1>9, RaiseClasses DEF OP_DIE, Names
<1>10. CASE OP_FUNCDEF
  <2>1. CASE klass_ # NoClass
    <3>1. /\ klass_' = klass_ /\ scopes' = scopes
          /\ classes' = [classes EXCEPT ![klass_].methods = Insert(@, Stmt.name, Code(ops))]
      BY <1>10, <2>1 DEF OP_FUNCDEF
    <3> DEFINE X == Insert(classes[klass_].methods, Stmt.name, Code(ops))
    <3>2. classes' = [classes EXCEPT ![klass_].methods = X]
      BY <3>1
    <3> HIDE DEF X
    <3> QED
      BY <3>1, <3>2, ClassChanged
  <2>2. CASE klass_ = NoClass
    <3> DEFINE v == Code(ops)
               X == Insert(scopes[file_scope_], Stmt.name, v)
    <3>1. /\ klass_' = klass_ /\ classes' = classes
          /\ scopes' = [scopes EXCEPT ![file_scope_] = X]
      BY <1>10, <2>2 DEF OP_FUNCDEF, AddFunction, CodeScope
    <3>2. v.is # "class"
      BY DEF Code
    <3> HIDE DEF v
    <3>3. Refers(X, Len(classes))
      BY <1>3, <3>2, RefersKept
    <3> HIDE DEF X
    <3>4. \A s \in 1..Len(scopes') : Refers(scopes'[s], Len(classes))
      BY <1>1, <1>3, <3>1, <3>3, RefersAll
    <3> QED
      BY <3>1, <3>4, ClassesSame
  <2> QED
    BY <2>1, <2>2
<1>11. CASE OP_CLASS_ENTER
  <2> DEFINE k == Len(classes) + 1
             v == Class(k)
             X == Insert(scopes[file_scope_], Stmt.name, v)
             r == [name |-> Stmt.name, file |-> ops, super |-> NoClass, methods |-> Empty]
  <2>1. klass_' = k /\ classes' = Append(classes, r) /\ scopes' = [scopes EXCEPT ![file_scope_] = X]
    BY <1>11 DEF OP_CLASS_ENTER, AddName
  <2>2. v.class = k
    BY DEF Class
  <2>3. ClassRec(r) /\ r.super = 0
    BY DEF ClassRec, NoClass
  <2>4. k \in Nat \ {0} /\ Len(classes) <= k
    BY <1>3
  <2> HIDE DEF r, v
  <2>5. classes' \in Seq(C \cup {r}) /\ Len(classes') = k /\ classes'[k] = r
        /\ \A c \in 1..Len(classes) : classes'[c] = classes[c]
    BY <1>2, <2>1
  <2> HIDE DEF k
  <2>6. \A s \in 1..Len(scopes) : Refers(scopes[s], k)
    BY <1>3, <2>4, RefersMore
  <2>7. Refers(X, k)
    BY <1>3, <2>2, <2>4, <2>6, RefersKept
  <2> HIDE DEF X
  <2>8. \A s \in 1..Len(scopes') : Refers(scopes'[s], k)
    BY <1>1, <1>3, <2>1, <2>6, <2>7, RefersAll
  <2>9. ASSUME NEW c \in 1..k PROVE ClassRec(classes'[c]) /\ classes'[c].super \in 0..c - 1
    <3>1. CASE c = k
      BY <2>3, <2>4, <2>5, <3>1
    <3>2. CASE c # k
      <4>1. c \in 1..Len(classes)
        BY <1>3, <3>2 DEF k
      <4> QED
        BY <2>5, <4>1 DEF Classing
    <3> QED
      BY <3>1, <3>2
  <2> QED
    BY <2>1, <2>5, <2>8, <2>9 DEF Classing, ClassRec
<1>12. CASE OP_SET_PARENT
  <2> DEFINE v == scopes[file_scope_][Stmt.name]
  <2>1. CASE ~Has(file_scope_, Stmt.name) \/ IsItself(v.class)
    BY <1>4, <1>12, <2>1, RaiseClasses DEF OP_SET_PARENT, Names
  <2>2. CASE Has(file_scope_, Stmt.name) /\ ~IsItself(v.class)
    <3>1. /\ v.is = "class" /\ klass_' = klass_ /\ scopes' = scopes
          /\ classes' = [classes EXCEPT ![klass_].super = v.class]
      BY <1>12, <2>2 DEF OP_SET_PARENT, Names
    <3>2. v.class \in 1..Len(classes)
      BY <1>3, <2>2, <3>1 DEF Has, Refers
    <3>3. v.class # klass_
      BY <2>2 DEF IsItself
    <3> DEFINE p == v.class
    <3>4. /\ classes' = [classes EXCEPT ![klass_].super = p]
          /\ p \in 1..Len(classes) /\ p # klass_
      BY <3>1, <3>2, <3>3
    <3> HIDE DEF p
    <3>5. p \in 0..Len(classes) /\ (klass_ # NoClass => p < klass_)
      BY <1>3, <3>4 DEF Classing
    <3> QED
      BY <3>1, <3>4, <3>5, ClassChanged
  <2> QED
    BY <2>1, <2>2
<1>13. CASE UseRequired
  <2>1. CASE required[Stmt.mod] = "undef"
    BY <1>4, <1>13, <2>1, RaiseClasses DEF UseRequired, Names
  <2>2. CASE required[Stmt.mod] # "undef"
    <3>1. /\ Import(Stmt.mod, Stmt.all, file_scope_) /\ Stmt.mod \in DOMAIN required
          /\ classes' = classes /\ klass_' = klass_
      BY <1>13, <2>2 DEF UseRequired, IsRequired
    <3>2. Stmt.mod \in DOMAIN file_scope_map_
      BY <2>2, <3>1 DEF Mapped
    <3> QED
      BY <1>3, <1>6, <3>1, <3>2
  <2> QED
    BY <2>1, <2>2
<1>14. CASE UseFails
  BY <1>4, <1>14, RaiseClasses DEF UseFails
<1>15. CASE UseBad
  BY <1>5, <1>15, RaiseClasses DEF UseBad, NewScope
<1>16. CASE UseLoads
  BY <1>5, <1>16 DEF UseLoads, NewScope
<1>17. CASE OP_END
  <2>1. CASE native_stack = << >>
    BY <1>4, <1>17, <2>1 DEF OP_END, Names
  <2>2. CASE native_stack # << >>
    <3> DEFINE e == Last(native_stack)
    <3>1. native_stack \in Seq(Entries)
      BY DEF Placed, Framing, FramingOf
    <3>2. e = native_stack[Len(native_stack)] /\ Len(native_stack) \in Nat \ {0}
      BY <2>2, <3>1, FrontLast
    <3>3. Len(native_stack) \in 1..Len(native_stack)
      BY <3>2
    <3>4. e.mod \in DOMAIN file_scope_map_ /\ e.scope \in 1..Len(scopes)
      BY <3>2, <3>3 DEF Placed, Scoping, Mapped
    <3>5. /\ Import(e.mod, e.all, e.scope) /\ classes' = classes
          /\ klass_' \in {NoClass, klass_}
      BY <1>17, <2>2 DEF OP_END, Restored, Dropped
    <3> HIDE DEF e
    <3> QED
      BY <1>6, <3>4, <3>5
  <2> QED
    BY <2>1, <2>2
<1> QED
  BY <1>7, <1>8, <1>9, <1>10, <1>11, <1>12, <1>13, <1>14, <1>15, <1>16, <1>17 DEF Next, Step

\* For any library at all: a superclass was made before its subclass, so that
\* isa() and the search of call_method along superclass() end.
THEOREM SuperEarlierCorrect == ASSUME LoaderAssumption PROVE Spec => []SuperEarlier
<1> DEFINE I == Placed /\ Mapped /\ Classing
<1>1. Init => I
  <2> SUFFICES ASSUME Init PROVE I
    OBVIOUS
  <2>1. /\ native_stack = << >> /\ required = << >> /\ classes = << >> /\ klass_ = NoClass
        /\ scopes = << Empty >>
    BY DEF Init
  <2>2. Mapped
    BY <2>1 DEF Mapped
  <2>3. Refers(Empty, Len(classes))
    BY DEF Refers, Empty
  <2>4. \A s \in 1..Len(scopes) : scopes[s] = Empty
    BY <2>1
  <2>5. (\E C : classes \in Seq(C)) /\ Len(classes) = 0
    BY <2>1
  <2>6. Classing
    BY <2>1, <2>3, <2>4, <2>5 DEF Classing
  <2> QED
    BY <2>2, <2>6, PlacedInit
<1>2. I /\ [Next]_vars => I'
  BY PlacedStep, MappedStep, ClassingStep
<1>3. I => SuperEarlier
  <2> SUFFICES ASSUME I, NEW c \in 1..Len(classes) PROVE classes[c].super < c
    BY DEF SuperEarlier
  <2>1. classes[c].super \in 0..c - 1
    BY DEF Classing
  <2>2. c \in Nat
    OBVIOUS
  <2> DEFINE x == classes[c].super
  <2>3. x \in 0..c - 1
    BY <2>1
  <2> HIDE DEF x
  <2>4. x < c
    BY <2>2, <2>3
  <2> QED
    BY <2>4 DEF x
<1> QED
  BY <1>1, <1>2, <1>3, PTL DEF Spec

=============================================================================
