--------------------------- MODULE Library_proofs ---------------------------
(***************************************************************************)
(* What the parts of MCLibrary keep, for any names, codes and sizes: the   *)
(* symbol table, the built-in functions, an array as a list, and the loops *)
(* over arrays and hashes.                                                 *)
(***************************************************************************)
EXTENDS MCLibrary, FiniteSetTheorems, WellFoundedInduction, TLAPS

\* What holds of some number holds of a least one.
LEMMA LeastNat ==
  ASSUME NEW T \in SUBSET Nat, T # {}
  PROVE  \E x \in T : \A y \in T : x <= y
<1> DEFINE R == OpToRel(<, Nat)
<1>1. PICK x \in T : \A y \in T : ~(<< y, x >> \in R)
  BY NatLessThanWellFounded, WFMin
<1>2. x \in Nat /\ \A y \in T : y \in Nat /\ ~(y < x)
  BY <1>1 DEF OpToRel
<1> QED
  BY <1>2

-----------------------------------------------------------------------------
(* The symbol table. *)

\* The tables together: numbers are given from 0 on without a gap.
Tables == << tbl, rev_tbl, counter >>

Dense ==
  /\ counter \in Nat /\ counter >= Len(Reserved)
  /\ DOMAIN rev_tbl = 0..counter-1
  /\ TablesInverse

\* The constructor of SymbolTable numbers the reserved names in their order (symbols.gen.pl).
LEMMA DenseInit == Init => Dense
<1> SUFFICES ASSUME Init PROVE Dense
  OBVIOUS
<1> USE ReservedAssumption DEF Init
<1> DEFINE names == {Reserved[i] : i \in DOMAIN Reserved}
           at(s) == CHOOSE i \in DOMAIN Reserved : Reserved[i] = s
<1>1. Len(Reserved) \in Nat /\ DOMAIN Reserved = 1..Len(Reserved)
  OBVIOUS
<1>2. \A s \in names : at(s) \in DOMAIN Reserved /\ Reserved[at(s)] = s
  OBVIOUS
<1>3. \A i \in DOMAIN Reserved : at(Reserved[i]) = i
  BY <1>2
<1>4. DOMAIN tbl = names /\ \A s \in names : tbl[s] = at(s) - 1
  OBVIOUS
<1>5. DOMAIN rev_tbl = 0..counter-1 /\ \A id \in 0..counter-1 : rev_tbl[id] = Reserved[id+1]
  OBVIOUS
<1> HIDE DEF names, at
<1>6. \A s \in DOMAIN tbl : tbl[s] \in DOMAIN rev_tbl /\ rev_tbl[tbl[s]] = s
  <2> SUFFICES ASSUME NEW s \in names PROVE tbl[s] \in 0..counter-1 /\ rev_tbl[tbl[s]] = s
    BY <1>4, <1>5
  <2>1. at(s) \in 1..Len(Reserved) /\ counter = Len(Reserved) /\ tbl[s] = at(s) - 1
    BY <1>1, <1>2, <1>4
  <2>2. tbl[s] \in 0..counter-1 /\ tbl[s] + 1 = at(s)
    BY <2>1, <1>1
  <2> QED
    BY <2>2, <1>2, <1>5
<1>7. \A id \in DOMAIN rev_tbl : rev_tbl[id] \in DOMAIN tbl /\ tbl[rev_tbl[id]] = id
  <2> SUFFICES ASSUME NEW id \in 0..counter-1 PROVE rev_tbl[id] \in names /\ tbl[rev_tbl[id]] = id
    BY <1>4, <1>5
  <2>1. id + 1 \in DOMAIN Reserved
    BY <1>1
  <2>2. rev_tbl[id] = Reserved[id+1] /\ Reserved[id+1] \in names
    BY <2>1, <1>5 DEF names
  <2>3. tbl[Reserved[id+1]] = (id + 1) - 1
    BY <2>1, <2>2, <1>3, <1>4
  <2> QED
    BY <2>2, <2>3
<1>8. \A i \in DOMAIN Reserved : rev_tbl[i-1] = Reserved[i]
  <2> SUFFICES ASSUME NEW i \in 1..Len(Reserved) PROVE rev_tbl[i-1] = Reserved[i]
    BY <1>1
  <2>1. i - 1 \in 0..counter-1 /\ (i - 1) + 1 = i
    BY <1>1
  <2> QED
    BY <2>1, <1>5
<1> QED
  BY SMTT(40), <1>1, <1>5, <1>6, <1>7, <1>8 DEF Dense, TablesInverse

\* SymbolTable::get_id (symbol_table.cc:11-23): a new name takes the next number.
LEMMA DenseStep == ASSUME Dense, NEW s \in Names, get_id(s) PROVE Dense'
<1> USE ReservedAssumption
<1>1. CASE s \in DOMAIN tbl
  BY <1>1 DEF get_id, Dense, TablesInverse
<1>2. CASE s \notin DOMAIN tbl
  <2> USE DEF Dense, TablesInverse
  <2>1. /\ tbl' = With(tbl, s, counter) /\ rev_tbl' = With(rev_tbl, counter, s)
        /\ counter' = counter + 1
    BY <1>2 DEF get_id, NextCounter
  <2>2. /\ DOMAIN tbl' = DOMAIN tbl \union {s} /\ tbl'[s] = counter
        /\ \A x \in DOMAIN tbl : tbl'[x] = tbl[x]
    BY <1>2, <2>1 DEF With
  <2>3. counter \notin DOMAIN rev_tbl
    OBVIOUS
  <2>4. /\ DOMAIN rev_tbl' = DOMAIN rev_tbl \union {counter} /\ rev_tbl'[counter] = s
        /\ \A id \in DOMAIN rev_tbl : rev_tbl'[id] = rev_tbl[id]
    BY <2>1, <2>3 DEF With
  <2>5. counter' \in Nat /\ counter' >= Len(Reserved) /\ DOMAIN rev_tbl' = 0..counter'-1
    BY <2>1, <2>4
  <2>6. \A x \in DOMAIN tbl' : tbl'[x] \in DOMAIN rev_tbl' /\ rev_tbl'[tbl'[x]] = x
    BY <2>2, <2>4
  <2>7. \A id \in DOMAIN rev_tbl' : rev_tbl'[id] \in DOMAIN tbl' /\ tbl'[rev_tbl'[id]] = id
    BY <2>2, <2>4
  <2>8. \A i \in DOMAIN Reserved : rev_tbl'[i-1] = Reserved[i]
    <3> SUFFICES ASSUME NEW i \in 1..Len(Reserved) PROVE rev_tbl'[i-1] = Reserved[i]
      OBVIOUS
    <3>1. i - 1 \in 0..counter-1
      OBVIOUS
    <3> QED
      BY <3>1, <2>4
  <2> QED
    BY <2>5, <2>6, <2>7, <2>8
<1> QED
  BY <1>1, <1>2

\* No other action touches the tables.
LEMMA DenseNext == ASSUME Dense, [Next]_vars PROVE Dense'
<1>1. ASSUME UNCHANGED Tables PROVE Dense'
  BY <1>1 DEF Tables, Dense, TablesInverse
<1>2. CASE UNCHANGED vars
  BY <1>1, <1>2 DEF vars, Tables
<1>3. ASSUME NEW code \in Codes, NEW obj \in Objects \union {NoObject}, Call(code, obj) PROVE Dense'
  BY <1>1, <1>3 DEF Call, Tables
<1>4. ASSUME NEW type \in Blocks, Enter(type) PROVE Dense'
  BY <1>1, <1>4 DEF Enter, Tables
<1>5. CASE Leave
  BY <1>1, <1>5 DEF Leave, Tables
<1>6. CASE Return
  BY <1>1, <1>6 DEF Return, Tables
<1>7. CASE callee \/ caller \/ self \/ rand_other
  BY <1>1, <1>7 DEF callee, caller, self, rand_other, OnlyGives, Tables
<1>8. ASSUME NEW n \in 0..MaxArgs, CallerOf(n) \/ rand(n) PROVE Dense'
  BY <1>1, <1>8 DEF CallerOf, rand, OnlyGives, Tables
<1>9. ASSUME NEW p \in Patterns, NEW n \in 0..MaxArgs, sprintf(p, [i \in 1..n |-> i]) PROVE Dense'
  BY <1>1, <1>9 DEF sprintf, OnlyGives, Tables
<1>10. ASSUME NEW s \in Names, get_id(s) PROVE Dense'
  BY <1>10, DenseStep
<1> QED
  BY <1>2, <1>3, <1>4, <1>5, <1>6, <1>7, <1>8, <1>9, <1>10 DEF Next

\* A behaviour of the program is one of its built-in functions, that stay as they begin when it is of
\* another part.
LEMMA BuiltinsPart == PartsSpec => Spec
<1>1. PartsInit => Init
  BY DEF PartsInit
<1>2. [PartsNext]_<< part, vars, stringVars, arrayVars, hashVars >> => [Next]_vars
  BY DEF PartsNext, BuiltinsStep, StringsStep, ArraysStep, HashesStep
<1> QED
  BY <1>1, <1>2, PTL DEF PartsSpec, Spec

\* symbol_table.h, "Convert ID to :symbol.": for any names, however many were given a number, no
\* two share one, each number leads back to its name, and the reserved names keep the numbers that
\* the C++ code knows as constants.
THEOREM SymbolsInverse == PartsSpec => []TablesInverse
<1>1. Dense => TablesInverse
  BY DEF Dense
<1> QED
  BY DenseInit, DenseNext, BuiltinsPart, <1>1, PTL DEF Spec

-----------------------------------------------------------------------------
(* The function frames. *)

Frame == [type : Blocks \cup {"FUNCTION"}, code : Codes \cup {Undef}, self : Objects \cup {NoObject}]

\* One frame more, and all of them.
Behind(x, fs) == IF x.type = "FUNCTION" THEN << x >> \o fs ELSE fs

Walking(f, fr, n) == f = [j \in 0..n |-> IF j = 0 THEN << >> ELSE Behind(fr[j], f[j - 1])]

LEMMA WalkExists == ASSUME NEW fr, NEW n \in Nat PROVE \E f : Walking(f, fr, n)
<1> DEFINE T == {m \in Nat : ~\E f : Walking(f, fr, m)}
<1>1. ASSUME T # {} PROVE FALSE
  <2>1. PICK m \in T : \A y \in T : m <= y
    BY <1>1, LeastNat
  <2>2. m \in Nat /\ ~\E f : Walking(f, fr, m)
    BY <2>1
  <2>3. CASE m = 0
    <3>1. PICK f : f = [j \in 0..m |-> << >>]
      OBVIOUS
    <3>2. \A j \in 0..m : j = 0
      BY <2>3
    <3>3. f = [j \in 0..m |-> IF j = 0 THEN << >> ELSE Behind(fr[j], f[j - 1])]
      BY <3>1, <3>2
    <3> QED
      BY <2>2, <3>3 DEF Walking
  <2>4. CASE m # 0
    <3>1. m - 1 \in Nat /\ ~(m <= m - 1)
      BY <2>2, <2>4
    <3>2. PICK f : Walking(f, fr, m - 1)
      BY <2>1, <3>1
    <3>3. PICK g : g = [j \in 0..m |-> IF j < m THEN f[j] ELSE Behind(fr[m], f[m - 1])]
      OBVIOUS
    <3>4. ASSUME NEW j \in 0..m PROVE g[j] = IF j = 0 THEN << >> ELSE Behind(fr[j], g[j - 1])
      <4>1. CASE j = 0
        <5>1. j < m /\ j \in 0..m - 1
          BY <2>2, <2>4, <4>1
        <5> QED
          BY <3>2, <3>3, <4>1, <5>1 DEF Walking
      <4>2. CASE j # 0 /\ j < m
        <5>1. j \in 0..m - 1 /\ j - 1 \in 0..m /\ j - 1 < m
          BY <2>2, <4>2
        <5>2. g[j] = f[j] /\ g[j - 1] = f[j - 1]
          BY <3>3, <4>2, <5>1
        <5>3. f[j] = Behind(fr[j], f[j - 1])
          BY <3>2, <4>2, <5>1 DEF Walking
        <5> QED
          BY <4>2, <5>2, <5>3
      <4>3. CASE j = m
        <5>1. ~(j < m) /\ j - 1 \in 0..m /\ j - 1 < m /\ j # 0
          BY <2>2, <2>4, <4>3
        <5>2. g[j] = Behind(fr[m], f[m - 1]) /\ g[j - 1] = f[j - 1]
          BY <3>3, <5>1
        <5> QED
          BY <4>3, <5>1, <5>2
      <4> QED
        BY <2>2, <4>1, <4>2, <4>3
    <3>5. g = [j \in 0..m |-> g[j]]
      BY <3>3
    <3>6. Walking(g, fr, m)
      BY <3>4, <3>5 DEF Walking
    <3> QED
      BY <2>2, <3>6
  <2> QED
    BY <2>3, <2>4
<1> QED
  BY <1>1

\* Walks over stacks that begin alike agree as far as they do.
LEMMA WalksAgree ==
  ASSUME NEW fr, NEW gr, NEW m \in Nat, NEW n \in Nat, m <= n, \A j \in 1..m : fr[j] = gr[j],
         NEW f, Walking(f, fr, m), NEW g, Walking(g, gr, n)
  PROVE  f[m] = g[m]
<1> DEFINE T == {j \in 0..m : f[j] # g[j]}
<1>1. ASSUME T # {} PROVE FALSE
  <2>0. T \subseteq Nat
    OBVIOUS
  <2>1. PICK k \in T : \A y \in T : k <= y
    BY <1>1, <2>0, LeastNat
  <2>2. k \in 0..m /\ k \in 0..n /\ f[k] # g[k]
    BY <2>1
  <2>3. f[k] = (IF k = 0 THEN << >> ELSE Behind(fr[k], f[k - 1])) /\ g[k] = IF k = 0 THEN << >> ELSE Behind(gr[k], g[k - 1])
    BY <2>2 DEF Walking
  <2>4. k # 0
    BY <2>2, <2>3
  <2>5. k \in 1..m /\ k - 1 \in 0..m /\ ~(k <= k - 1)
    BY <2>2, <2>4
  <2>6. f[k - 1] = g[k - 1]
    BY <2>1, <2>5
  <2> QED
    BY <2>2, <2>3, <2>4, <2>5, <2>6
<1>2. m \in 0..m
  OBVIOUS
<1> QED
  BY <1>1, <1>2

\* The function frames of the first n frames.
FunctionsOf(fr, n) == (CHOOSE f : Walking(f, fr, n))[n]

LEMMA FunctionsAre == Functions = FunctionsOf(frames, Len(frames))
  BY DEF Functions, FunctionsOf, Walking, Behind

LEMMA FunctionsAreNext == Functions' = FunctionsOf(frames', Len(frames'))
  BY DEF Functions, FunctionsOf, Walking, Behind

LEMMA NoFunctions == ASSUME NEW fr PROVE FunctionsOf(fr, 0) = << >>
<1>1. PICK z \in Nat : z = 0
  OBVIOUS
<1>2. PICK f : f = (CHOOSE g : Walking(g, fr, z)) /\ Walking(f, fr, z)
  BY WalkExists
<1>3. f[z] = << >>
  BY <1>1, <1>2 DEF Walking
<1> QED
  BY <1>1, <1>2, <1>3 DEF FunctionsOf

LEMMA FunctionsAgree ==
  ASSUME NEW fr, NEW gr, NEW m \in Nat, \A j \in 1..m : fr[j] = gr[j]
  PROVE  FunctionsOf(fr, m) = FunctionsOf(gr, m)
<1>1. PICK f : f = (CHOOSE g : Walking(g, fr, m)) /\ Walking(f, fr, m)
  BY WalkExists
<1>2. PICK h : h = (CHOOSE g : Walking(g, gr, m)) /\ Walking(h, gr, m)
  BY WalkExists
<1>3. m <= m
  OBVIOUS
<1>4. f[m] = h[m]
  BY <1>1, <1>2, <1>3, WalksAgree
<1> QED
  BY <1>1, <1>2, <1>4 DEF FunctionsOf

LEMMA OneFrameMore ==
  ASSUME NEW fr, NEW m \in Nat
  PROVE  FunctionsOf(fr, m + 1) = Behind(fr[m + 1], FunctionsOf(fr, m))
<1>1. PICK f : f = (CHOOSE g : Walking(g, fr, m)) /\ Walking(f, fr, m)
  BY WalkExists
<1>2. PICK n \in Nat : n = m + 1
  OBVIOUS
<1>3. PICK h : h = (CHOOSE g : Walking(g, fr, n)) /\ Walking(h, fr, n)
  BY WalkExists
<1>4. m <= n
  BY <1>2
<1>8. PICK gr : gr = fr
  OBVIOUS
<1>9. (\A j \in 1..m : fr[j] = gr[j]) /\ Walking(h, gr, n)
  BY <1>3, <1>8
<1>5. f[m] = h[m]
  BY <1>1, <1>4, <1>9, WalksAgree
<1>6. n \in 0..n /\ n # 0 /\ n - 1 = m
  BY <1>2
<1>7. h[n] = Behind(fr[n], h[n - 1])
  BY <1>3, <1>6 DEF Walking
<1> QED
  BY <1>1, <1>2, <1>3, <1>5, <1>6, <1>7 DEF FunctionsOf

LEMMA FunctionsAreFrames ==
  ASSUME NEW fr \in Seq(Frame), NEW n \in 0..Len(fr)
  PROVE  FunctionsOf(fr, n) \in Seq(Frame)
<1> DEFINE T == {m \in 0..Len(fr) : FunctionsOf(fr, m) \notin Seq(Frame)}
<1>1. ASSUME T # {} PROVE FALSE
  <2>0. T \subseteq Nat
    OBVIOUS
  <2>1. PICK k \in T : \A y \in T : k <= y
    BY <1>1, <2>0, LeastNat
  <2>2. k \in 0..Len(fr) /\ FunctionsOf(fr, k) \notin Seq(Frame)
    BY <2>1
  <2>3. k # 0
    <3>1. << >> \in Seq(Frame)
      OBVIOUS
    <3> QED
      BY <2>2, <3>1, NoFunctions
  <2>4. PICK m \in Nat : m = k - 1 /\ m \in 0..Len(fr) /\ ~(k <= m) /\ k \in 1..Len(fr)
    BY <2>2, <2>3
  <2>5. FunctionsOf(fr, m) \in Seq(Frame)
    BY <2>1, <2>4
  <2>6. FunctionsOf(fr, m + 1) = Behind(fr[m + 1], FunctionsOf(fr, m)) /\ m + 1 = k
    BY <2>4, OneFrameMore
  <2>7. PICK x \in Frame : x = fr[k]
    BY <2>4
  <2>8. PICK s \in Seq(Frame) : s = FunctionsOf(fr, m)
    BY <2>5
  <2>9. Behind(x, s) \in Seq(Frame)
    BY DEF Behind
  <2> QED
    BY <2>2, <2>6, <2>7, <2>8, <2>9
<1> QED
  BY <1>1

\* Between a function and the innermost frame there are blocks only.
LEMMA BlocksPassed ==
  ASSUME NEW fr \in Seq(Frame), NEW n \in 1..Len(fr), \A m \in n + 1..Len(fr) : fr[m].type # "FUNCTION"
  PROVE  FunctionsOf(fr, Len(fr)) = FunctionsOf(fr, n)
<1> DEFINE T == {m \in n..Len(fr) : FunctionsOf(fr, m) # FunctionsOf(fr, n)}
<1>1. ASSUME T # {} PROVE FALSE
  <2>0. T \subseteq Nat
    OBVIOUS
  <2>1. PICK k \in T : \A y \in T : k <= y
    BY <1>1, <2>0, LeastNat
  <2>2. k \in n..Len(fr) /\ FunctionsOf(fr, k) # FunctionsOf(fr, n)
    BY <2>1
  <2>3. k # n
    BY <2>2
  <2>4. PICK m \in Nat : m = k - 1 /\ m \in n..Len(fr) /\ ~(k <= m) /\ k \in n + 1..Len(fr)
    BY <2>2, <2>3
  <2>5. FunctionsOf(fr, m) = FunctionsOf(fr, n)
    BY <2>1, <2>4
  <2>6. FunctionsOf(fr, m + 1) = Behind(fr[m + 1], FunctionsOf(fr, m)) /\ m + 1 = k
    BY <2>4, OneFrameMore
  <2>7. fr[k].type # "FUNCTION"
    BY <2>4
  <2> QED
    BY <2>2, <2>5, <2>6, <2>7 DEF Behind
<1>2. Len(fr) \in n..Len(fr)
  OBVIOUS
<1> QED
  BY <1>1, <1>2

CallMade == [code : Codes, self : Objects \cup {NoObject}]

FramesKept ==
  /\ frames \in Seq(Frame) /\ calls \in Seq(CallMade)
  /\ Len(Functions) = Len(calls)
  /\ \A i \in 1..Len(calls) : Functions[i].code = calls[Len(calls) + 1 - i].code

LEMMA FunctionsTyped == ASSUME FramesKept PROVE Functions \in Seq(Frame)
<1>1. Len(frames) \in 0..Len(frames) /\ frames \in Seq(Frame)
  BY DEF FramesKept
<1> QED
  BY <1>1, FunctionsAre, FunctionsAreFrames

LEMMA FramesBegin == ASSUME Init PROVE FramesKept
<1>1. frames = << >> /\ calls = << >>
  BY DEF Init
<1>2. Len(frames) = 0 /\ Len(calls) = 0 /\ frames \in Seq(Frame) /\ calls \in Seq(CallMade)
  BY <1>1
<1>3. Functions = << >>
  BY <1>2, FunctionsAre, NoFunctions
<1>4. Len(Functions) = 0 /\ 1..Len(calls) = {}
  BY <1>2, <1>3
<1> QED
  BY <1>2, <1>4 DEF FramesKept

\* A frame more on the stack.
LEMMA PushedFrame ==
  ASSUME frames \in Seq(Frame), NEW x \in Frame, frames' = Append(frames, x)
  PROVE  frames' \in Seq(Frame) /\ Functions' = Behind(x, Functions)
<1>1. PICK m \in Nat : m = Len(frames)
  OBVIOUS
<1>2. frames' \in Seq(Frame) /\ Len(frames') = m + 1 /\ frames'[m + 1] = x /\ \A j \in 1..m : frames'[j] = frames[j]
  BY <1>1
<1>3. PICK fr : fr = frames
  OBVIOUS
<1>4. PICK gr : gr = frames'
  OBVIOUS
<1>5. FunctionsOf(gr, m) = FunctionsOf(fr, m)
  BY <1>2, <1>3, <1>4, FunctionsAgree
<1>6. FunctionsOf(gr, m + 1) = Behind(gr[m + 1], FunctionsOf(gr, m))
  BY OneFrameMore
<1>7. Functions' = FunctionsOf(gr, m + 1)
  BY <1>2, <1>4, FunctionsAreNext
<1>8. Functions = FunctionsOf(fr, m)
  BY <1>1, <1>3, FunctionsAre
<1> QED
  BY <1>2, <1>4, <1>5, <1>6, <1>7, <1>8

LEMMA CallKeeps ==
  ASSUME FramesKept, NEW code \in Codes, NEW obj \in Objects \cup {NoObject}, Call(code, obj)
  PROVE  FramesKept'
<1>1. PICK x \in Frame : x = [type |-> "FUNCTION", code |-> code, self |-> obj] /\ x.type = "FUNCTION" /\ x.code = code
  <2>1. [type |-> "FUNCTION", code |-> code, self |-> obj] \in Frame
    BY DEF Frame
  <2> QED
    BY <2>1
<1>2. PICK c \in CallMade : c = [code |-> code, self |-> obj] /\ c.code = code
  <2>1. [code |-> code, self |-> obj] \in CallMade
    BY DEF CallMade
  <2> QED
    BY <2>1
<1>3. frames' = Append(frames, x) /\ calls' = Append(calls, c)
  BY <1>1, <1>2 DEF Call
<1>4. PICK fs \in Seq(Frame) : fs = Functions
  BY FunctionsTyped
<1>5. frames' \in Seq(Frame) /\ Functions' = << x >> \o fs
  BY <1>1, <1>3, <1>4, PushedFrame DEF FramesKept, Behind
<1>6. PICK n \in Nat : n = Len(calls) /\ n = Len(fs)
  BY <1>4 DEF FramesKept
<1>7. /\ calls' \in Seq(CallMade)
      /\ Len(calls') = n + 1 /\ calls'[n + 1] = c /\ \A j \in 1..n : calls'[j] = calls[j]
  <2>1. calls \in Seq(CallMade)
    BY DEF FramesKept
  <2>2. Append(calls, c) \in Seq(CallMade) /\ Len(Append(calls, c)) = Len(calls) + 1
    BY <2>1
  <2>3. Append(calls, c)[Len(calls) + 1] = c /\ \A j \in 1..Len(calls) : Append(calls, c)[j] = calls[j]
    BY <2>1
  <2> QED
    BY <1>3, <1>6, <2>2, <2>3
<1>8. PICK gs : gs = << x >> \o fs
  OBVIOUS
<1>9. Len(gs) = n + 1 /\ gs[1] = x /\ \A j \in 1..n : gs[j + 1] = fs[j]
  BY <1>6, <1>8
<1>10. ASSUME NEW i \in 1..n + 1 PROVE gs[i].code = calls'[n + 1 + 1 - i].code
  <2>1. CASE i = 1
    <3>1. n + 1 + 1 - i = n + 1
      BY <2>1
    <3> QED
      BY <1>1, <1>2, <1>7, <1>9, <2>1, <3>1
  <2>2. CASE i # 1
    <3>1. PICK j \in 1..n : j = i - 1
      <4>1. i - 1 \in 1..n
        BY <2>2
      <4> QED
        BY <4>1
    <3>2. j + 1 = i /\ n + 1 - j \in 1..n /\ n + 1 + 1 - i = n + 1 - j
      BY <3>1
    <3>3. gs[i] = fs[j] /\ calls'[n + 1 - j] = calls[n + 1 - j]
      BY <1>7, <1>9, <3>2
    <3>4. fs[j].code = calls[n + 1 - j].code
      BY <1>4, <1>6 DEF FramesKept
    <3> QED
      BY <3>2, <3>3, <3>4
  <2> QED
    BY <2>1, <2>2
<1>11. Functions' = gs
  BY <1>5, <1>8
<1> QED
  BY <1>5, <1>7, <1>9, <1>10, <1>11 DEF FramesKept

LEMMA EnterKeeps ==
  ASSUME FramesKept, NEW type \in Blocks, Enter(type)
  PROVE  FramesKept'
<1>1. PICK x \in Frame : x = [type |-> type, code |-> Undef, self |-> NoObject] /\ x.type # "FUNCTION"
  <2>1. [type |-> type, code |-> Undef, self |-> NoObject] \in Frame
    BY DEF Frame
  <2> QED
    BY <2>1, BuiltinsAssumption
<1>2. frames' = Append(frames, x) /\ calls' = calls
  BY <1>1 DEF Enter
<1>3. frames' \in Seq(Frame) /\ Functions' = Functions
  BY <1>1, <1>2, PushedFrame DEF FramesKept, Behind
<1> QED
  BY <1>2, <1>3 DEF FramesKept

\* Frames off the stack, down to the first n.
LEMMA PoppedFrames ==
  ASSUME frames \in Seq(Frame), NEW n \in 0..Len(frames), frames' = SubSeq(frames, 1, n)
  PROVE  frames' \in Seq(Frame) /\ Functions' = FunctionsOf(frames, n)
<1>1. frames' \in Seq(Frame) /\ Len(frames') = n /\ \A j \in 1..n : frames'[j] = frames[j]
  OBVIOUS
<1>3. PICK fr : fr = frames
  OBVIOUS
<1>4. PICK gr : gr = frames'
  OBVIOUS
<1>5. n \in Nat
  OBVIOUS
<1>6. FunctionsOf(gr, n) = FunctionsOf(fr, n)
  BY <1>1, <1>3, <1>4, <1>5, FunctionsAgree
<1>7. Functions' = FunctionsOf(gr, n)
  BY <1>1, <1>4, FunctionsAreNext
<1> QED
  BY <1>1, <1>3, <1>6, <1>7

LEMMA LeaveKeeps ==
  ASSUME FramesKept, Leave
  PROVE  FramesKept'
<1>1. PICK m \in Nat : m + 1 = Len(frames) /\ m \in 0..Len(frames) /\ m = Len(frames) - 1
  <2>1. frames \in Seq(Frame) /\ frames # << >>
    BY DEF FramesKept, Leave
  <2>2. Len(frames) - 1 \in Nat /\ Len(frames) \in Nat
    BY <2>1
  <2> QED
    BY SMTT(40), <2>2
<1>2. frames[m + 1].type # "FUNCTION" /\ frames' = SubSeq(frames, 1, m) /\ calls' = calls
  BY <1>1 DEF Leave, Innermost
<1>3. frames' \in Seq(Frame) /\ Functions' = FunctionsOf(frames, m)
  BY <1>1, <1>2, PoppedFrames DEF FramesKept
<1>4. Functions = Behind(frames[m + 1], FunctionsOf(frames, m))
  BY <1>1, FunctionsAre, OneFrameMore
<1>5. Functions' = Functions
  BY <1>2, <1>3, <1>4 DEF Behind
<1> QED
  BY <1>2, <1>3, <1>5 DEF FramesKept

LEMMA ReturnKeeps ==
  ASSUME FramesKept, Return
  PROVE  FramesKept'
<1>0. frames \in Seq(Frame)
  BY DEF FramesKept
<1>1. PICK n \in 1..Len(frames) : /\ frames[n].type = "FUNCTION" /\ \A m \in n + 1..Len(frames) : frames[m].type # "FUNCTION"
                                  /\ frames' = SubSeq(frames, 1, n - 1)
  BY <1>0 DEF Return, Innermost
<1>2. PICK k \in Nat : k = n - 1 /\ k + 1 = n /\ k \in 0..Len(frames)
  <2>1. n - 1 \in Nat
    OBVIOUS
  <2> QED
    BY <2>1
<1>3. frames' \in Seq(Frame) /\ Functions' = FunctionsOf(frames, k)
  BY <1>0, <1>1, <1>2, PoppedFrames
<1>4. Functions = FunctionsOf(frames, n)
  BY <1>0, <1>1, BlocksPassed, FunctionsAre
<1>5. FunctionsOf(frames, k + 1) = Behind(frames[k + 1], FunctionsOf(frames, k))
  BY OneFrameMore
<1>6. PICK gs \in Seq(Frame) : gs = FunctionsOf(frames, k)
  BY <1>0, <1>2, FunctionsAreFrames
<1>7. Functions = << frames[n] >> \o gs
  BY <1>1, <1>2, <1>4, <1>5, <1>6 DEF Behind
<1>8. PICK N \in Nat : N = Len(calls) /\ N # 0 /\ calls # << >>
  BY DEF FramesKept, Return
<1>9. /\ calls' \in Seq(CallMade) /\ Len(calls') = N - 1
      /\ \A j \in 1..N - 1 : calls'[j] = calls[j]
  BY SMTT(40), <1>8 DEF FramesKept, Return
<1>10. PICK x \in Frame : x = frames[n]
  BY <1>0
<1>11. Len(<< x >> \o gs) = Len(gs) + 1 /\ \A j \in 1..Len(gs) : (<< x >> \o gs)[j + 1] = gs[j]
  OBVIOUS
<1>12. Len(gs) = N - 1
  BY <1>7, <1>8, <1>10, <1>11 DEF FramesKept
<1>13. ASSUME NEW i \in 1..N - 1 PROVE gs[i].code = calls'[N - 1 + 1 - i].code
  <2>1. PICK j \in 1..N : j = i + 1
    <3>1. i + 1 \in 1..N
      OBVIOUS
    <3> QED
      BY <3>1
  <2>2. Functions[j].code = calls[N + 1 - j].code
    BY <1>8 DEF FramesKept
  <2>3. Functions[j] = gs[i]
    BY <1>7, <1>10, <1>11, <1>12, <2>1
  <2>4. N - 1 + 1 - i \in 1..N - 1 /\ N - 1 + 1 - i = N + 1 - j
    BY <2>1
  <2>5. calls'[N - 1 + 1 - i] = calls[N - 1 + 1 - i]
    BY <1>9, <2>4
  <2> QED
    BY <2>2, <2>3, <2>4, <2>5
<1>14. Functions' = gs
  BY <1>3, <1>6
<1> QED
  BY <1>3, <1>9, <1>12, <1>13, <1>14 DEF FramesKept

\* callee() and caller() then speak of the calls.
LEMMA CallersFollow == ASSUME FramesKept PROVE CallersAreCalls
<1>1. PICK fs \in Seq(Frame) : fs = Functions
  BY FunctionsTyped
<1>2. PICK cs \in Seq(CallMade) : cs = calls
  BY DEF FramesKept
<1>3. PICK N \in Nat : N = Len(fs) /\ N = Len(cs) /\ \A i \in 1..N : fs[i].code = cs[N + 1 - i].code
  BY <1>1, <1>2 DEF FramesKept
<1>4. DOMAIN fs = 1..N /\ DOMAIN cs = 1..N
  <2>1. DOMAIN fs = 1..Len(fs) /\ DOMAIN cs = 1..Len(cs)
    OBVIOUS
  <2> QED
    BY <1>3, <2>1
<1>5. PICK rev : rev = Reversed(calls) /\ DOMAIN rev = 1..N /\ \A i \in 1..N : rev[i] = cs[N + 1 - i]
  <2>1. PICK D : D = 1..N
    OBVIOUS
  <2>2. Reversed(calls) = [i \in D |-> cs[N + 1 - i]]
    BY <1>2, <1>3, <1>4, <2>1 DEF Reversed
  <2>3. DOMAIN Reversed(calls) = D /\ \A i \in D : Reversed(calls)[i] = cs[N + 1 - i]
    BY <2>2
  <2> QED
    BY <2>1, <2>3
<1>6. CodesOf(fs) = CodesOf(rev)
  <2>1. \A i \in 1..N : fs[i].code = rev[i].code
    BY <1>3, <1>5
  <2>2. [i \in 1..N |-> fs[i].code] = [i \in 1..N |-> rev[i].code]
    BY <2>1
  <2> QED
    BY <1>4, <1>5, <2>2 DEF CodesOf
<1>7. PICK made : made = CodesOf(fs) /\ made = CodesOf(Reversed(calls))
  BY <1>5, <1>6
<1>8. Len(made) = N /\ DOMAIN made = 1..N /\ \A i \in 1..N : made[i] = fs[i].code
  <2>1. PICK D : D = 1..N
    OBVIOUS
  <2>2. made = [i \in D |-> fs[i].code]
    BY <1>4, <1>7, <2>1 DEF CodesOf
  <2>3. DOMAIN made = D /\ \A i \in D : made[i] = fs[i].code
    BY <2>2
  <2>4. made \in Seq({made[i] : i \in D})
    BY <2>1, <2>2
  <2>5. Len(made) = N
    BY <2>1, <2>3, <2>4
  <2> QED
    BY <2>1, <2>3, <2>5
<1>9. CASE N = 0
  <2>1. fs = << >> /\ made = << >>
    <3>1. fs = << >>
      <4>1. Len(fs) = 0 => fs = << >>
        OBVIOUS
      <4> QED
        BY <1>3, <1>9, <4>1
    <3>2. made = [i \in 1..0 |-> fs[i].code]
      BY <1>4, <1>7, <1>9 DEF CodesOf
    <3> QED
      BY <3>1, <3>2
  <2>2. CallerAll = << >>
    BY <1>1, <2>1 DEF CallerAll
  <2>3. ASSUME NEW n \in 0..MaxArgs PROVE CallerAt(n) = Undef /\ n + 1 \notin DOMAIN CallerAll
    <3>1. Needs(n) + 1 \notin DOMAIN Functions
      BY <1>1, <1>4, <1>9 DEF Needs
    <3>2. DOMAIN << >> = {}
      OBVIOUS
    <3> QED
      BY <2>2, <3>1, <3>2 DEF CallerAt
  <2> QED
    BY <1>1, <1>7, <2>1, <2>2, <2>3 DEF CallersAreCalls
<1>10. CASE N # 0
  <2>1. PICK M \in Nat : M = N - 1 /\ M + 1 = N
    <3>1. N - 1 \in Nat
      BY <1>10
    <3> QED
      BY <3>1
  <2>2. fs # << >> /\ made # << >>
    BY <1>3, <1>8, <1>10
  <2>3. PICK ts \in Seq(Frame) : ts = Tail(fs) /\ Len(ts) = M /\ \A i \in 1..M : ts[i] = fs[i + 1]
    <3>1. Len(fs) = M + 1
      BY <1>3, <2>1
    <3>2. fs # << >> => Tail(fs) \in Seq(Frame) /\ Len(Tail(fs)) = Len(fs) - 1 /\ \A i \in 1..Len(fs) - 1 : Tail(fs)[i] = fs[i + 1]
      OBVIOUS
    <3>3. Len(fs) - 1 = M
      BY <3>1
    <3> QED
      BY <2>2, <3>2, <3>3
  <2>4. CallerAll = CodesOf(ts)
    BY <1>1, <2>2, <2>3 DEF CallerAll
  <2>5. CodesOf(ts) = [i \in 1..M |-> fs[i + 1].code]
    <3>1. CodesOf(ts) = [i \in 1..M |-> ts[i].code]
      BY <2>3 DEF CodesOf
    <3> QED
      BY <2>3, <3>1
  <2>6. PICK S : S = {fs[i].code : i \in 1..N}
    OBVIOUS
  <2>7. Tail(made) = CodesOf(ts)
    <3>1. made = [i \in 1..N |-> fs[i].code]
      BY <1>4, <1>7 DEF CodesOf
    <3>2. made \in Seq(S)
      BY <2>6, <3>1
    <3>3. PICK ms \in Seq(S) : ms = Tail(made) /\ Len(ms) = M /\ \A i \in 1..M : ms[i] = made[i + 1]
      <4>1. Tail(made) \in Seq(S) /\ Len(Tail(made)) = Len(made) - 1 /\ \A i \in 1..Len(made) - 1 : Tail(made)[i] = made[i + 1]
        BY <2>2, <3>2
      <4>2. Len(made) - 1 = M
        BY <1>8, <2>1
      <4> QED
        BY <4>1, <4>2
    <3>4. ASSUME NEW i \in 1..M PROVE made[i + 1] = fs[i + 1].code
      <4>1. PICK j \in 1..N : j = i + 1
        <5>1. i + 1 \in 1..N
          BY <2>1
        <5> QED
          BY <5>1
      <4> QED
        BY <1>8, <4>1
    <3>5. ms = [i \in 1..M |-> ms[i]]
      <4>1. ms = [i \in 1..Len(ms) |-> ms[i]]
        OBVIOUS
      <4> QED
        BY <3>3, <4>1
    <3>6. [i \in 1..M |-> ms[i]] = [i \in 1..M |-> fs[i + 1].code]
      BY <3>3, <3>4
    <3> QED
      BY <2>5, <3>3, <3>5, <3>6
  <2>8. ASSUME NEW n \in 0..MaxArgs
        PROVE  CallerAt(n) = IF n + 1 \in DOMAIN CallerAll THEN CallerAll[n + 1] ELSE Undef
    <3>1. PICK k \in Nat : k = n + 1 /\ Needs(n) + 1 = k + 1 /\ k >= 1
      <4>1. n + 1 \in Nat /\ n >= 0
        OBVIOUS
      <4> QED
        BY <4>1 DEF Needs
    <3>2. DOMAIN CallerAll = 1..M
      BY <2>4, <2>5
    <3>3. CASE k <= M
      <4>1. k \in 1..M /\ k + 1 \in 1..N
        BY <2>1, <3>1, <3>3
      <4>2. CallerAll[k] = fs[k + 1].code
        BY <2>4, <2>5, <4>1
      <4>3. CallerAt(n) = fs[k + 1].code
        BY <1>1, <1>4, <3>1, <4>1 DEF CallerAt
      <4> QED
        BY <3>1, <3>2, <4>1, <4>2, <4>3
    <3>4. CASE ~(k <= M)
      <4>1. k \notin 1..M /\ k + 1 \notin 1..N
        BY <2>1, <3>1, <3>4
      <4>3. CallerAt(n) = Undef
        BY <1>1, <1>4, <3>1, <4>1 DEF CallerAt
      <4> QED
        BY <3>1, <3>2, <4>1, <4>3
    <3> QED
      BY <3>3, <3>4
  <2>9. CodesOf(Functions) = made /\ CallerAll = Tail(made)
    BY <1>1, <1>7, <2>4, <2>7
  <2> QED
    BY <1>7, <2>2, <2>8, <2>9 DEF CallersAreCalls
<1> QED
  BY <1>9, <1>10

LEMMA FramesNext == ASSUME FramesKept, [Next]_vars PROVE FramesKept'
<1>1. ASSUME UNCHANGED << frames, calls >> PROVE FramesKept'
  BY ZenonT(60), <1>1 DEF FramesKept, Functions
<1>2. CASE UNCHANGED vars
  BY <1>1, <1>2 DEF vars
<1>3. ASSUME NEW code \in Codes, NEW obj \in Objects \cup {NoObject}, Call(code, obj) PROVE FramesKept'
  BY <1>3, CallKeeps
<1>4. ASSUME NEW type \in Blocks, Enter(type) PROVE FramesKept'
  BY <1>4, EnterKeeps
<1>5. CASE Leave
  BY <1>5, LeaveKeeps
<1>6. CASE Return
  BY <1>6, ReturnKeeps
<1>7. CASE callee \/ caller \/ self \/ rand_other
  BY <1>1, <1>7 DEF callee, caller, self, rand_other, OnlyGives
<1>8. ASSUME NEW n \in 0..MaxArgs, CallerOf(n) \/ rand(n) PROVE FramesKept'
  BY <1>1, <1>8 DEF CallerOf, rand, OnlyGives
<1>9. ASSUME NEW p \in Patterns, NEW n \in 0..MaxArgs, sprintf(p, [i \in 1..n |-> i]) PROVE FramesKept'
  BY <1>1, <1>9 DEF sprintf, OnlyGives
<1>10. ASSUME NEW s \in Names, get_id(s) PROVE FramesKept'
  BY <1>1, <1>10 DEF get_id
<1> QED
  BY <1>2, <1>3, <1>4, <1>5, <1>6, <1>7, <1>8, <1>9, <1>10 DEF Next

-----------------------------------------------------------------------------
(* sprintf: what there is after a unit more. *)

Filling(before, unit, args) ==
  IF "threw" \in DOMAIN before THEN before
  ELSE IF unit = "%" THEN BadPattern
  ELSE IF unit = "%x" THEN Threw("unknown printf pattern character")
  ELSE IF Takes(unit)
  THEN IF before.param > Len(args) THEN BadPattern
       ELSE [ret |-> Append(before.ret, << unit, args[before.param] >>), param |-> before.param + 1]
  ELSE [before EXCEPT !.ret = Append(@, << unit, 0 >>)]

Fills(f, pattern, args, n) ==
  f = [j \in 0..n |-> IF j = 0 THEN [ret |-> << >>, param |-> 1] ELSE Filling(f[j - 1], pattern[j], args)]

LEMMA FillingExists == ASSUME NEW pattern, NEW args, NEW n \in Nat PROVE \E f : Fills(f, pattern, args, n)
<1> DEFINE T == {m \in Nat : ~\E f : Fills(f, pattern, args, m)}
<1>1. ASSUME T # {} PROVE FALSE
  <2>1. PICK m \in T : \A y \in T : m <= y
    BY <1>1, LeastNat
  <2>2. m \in Nat /\ ~\E f : Fills(f, pattern, args, m)
    BY <2>1
  <2>3. CASE m = 0
    <3>1. PICK f : f = [j \in 0..m |-> [ret |-> << >>, param |-> 1]]
      OBVIOUS
    <3>2. \A j \in 0..m : j = 0
      BY <2>3
    <3>3. f = [j \in 0..m |-> IF j = 0 THEN [ret |-> << >>, param |-> 1] ELSE Filling(f[j - 1], pattern[j], args)]
      BY <3>1, <3>2
    <3> QED
      BY <2>2, <3>3 DEF Fills
  <2>4. CASE m # 0
    <3>1. m - 1 \in Nat /\ ~(m <= m - 1)
      BY <2>2, <2>4
    <3>2. PICK f : Fills(f, pattern, args, m - 1)
      BY <2>1, <3>1
    <3>3. PICK g : g = [j \in 0..m |-> IF j < m THEN f[j] ELSE Filling(f[m - 1], pattern[m], args)]
      OBVIOUS
    <3>4. ASSUME NEW j \in 0..m
          PROVE  g[j] = IF j = 0 THEN [ret |-> << >>, param |-> 1] ELSE Filling(g[j - 1], pattern[j], args)
      <4>1. CASE j = 0
        <5>1. j < m /\ j \in 0..m - 1
          BY <2>2, <2>4, <4>1
        <5> QED
          BY <3>2, <3>3, <4>1, <5>1 DEF Fills
      <4>2. CASE j # 0 /\ j < m
        <5>1. j \in 0..m - 1 /\ j - 1 \in 0..m /\ j - 1 < m
          BY <2>2, <4>2
        <5>2. g[j] = f[j] /\ g[j - 1] = f[j - 1]
          BY <3>3, <4>2, <5>1
        <5>3. f[j] = Filling(f[j - 1], pattern[j], args)
          BY <3>2, <4>2, <5>1 DEF Fills
        <5> QED
          BY <4>2, <5>2, <5>3
      <4>3. CASE j = m
        <5>1. ~(j < m) /\ j - 1 \in 0..m /\ j - 1 < m /\ j # 0
          BY <2>2, <2>4, <4>3
        <5>2. g[j] = Filling(f[m - 1], pattern[m], args) /\ g[j - 1] = f[j - 1]
          BY <3>3, <5>1
        <5> QED
          BY <4>3, <5>1, <5>2
      <4> QED
        BY <2>2, <4>1, <4>2, <4>3
    <3>5. g = [j \in 0..m |-> g[j]]
      BY <3>3
    <3>6. Fills(g, pattern, args, m)
      BY <3>4, <3>5 DEF Fills
    <3> QED
      BY <2>2, <3>6
  <2> QED
    BY <2>3, <2>4
<1> QED
  BY <1>1

ConversionsTo(pattern, n) == {j \in 1..n : pattern[j] \in Conversions}
NumberTo(pattern, n) == Cardinality(ConversionsTo(pattern, n))

LEMMA Numbered ==
  ASSUME NEW pattern, NEW n \in Nat
  PROVE  /\ NumberTo(pattern, n) \in Nat
         /\ NumberTo(pattern, n + 1) = NumberTo(pattern, n) + IF pattern[n + 1] \in Conversions THEN 1 ELSE 0
<1>1. PICK S : S = ConversionsTo(pattern, n)
  OBVIOUS
<1>2. PICK m \in Nat : m = n + 1
  OBVIOUS
<1>3. IsFiniteSet(S) /\ m \notin S
  <2>1. IsFiniteSet(1..n)
    BY FS_Interval
  <2>2. S \subseteq 1..n /\ m \notin 1..n
    BY <1>1, <1>2 DEF ConversionsTo
  <2> QED
    BY <2>1, <2>2, FS_Subset
<1>4. Cardinality(S) \in Nat /\ IsFiniteSet(S \cup {m}) /\ Cardinality(S \cup {m}) = Cardinality(S) + 1
  BY <1>3, FS_CardinalityType, FS_AddElement
<1>5. ConversionsTo(pattern, m) = IF pattern[m] \in Conversions THEN S \cup {m} ELSE S
  <2>1. \A j : j \in 1..m <=> j \in 1..n \/ j = m
    BY <1>2
  <2> QED
    BY <1>1, <2>1 DEF ConversionsTo
<1> QED
  BY <1>1, <1>2, <1>4, <1>5 DEF NumberTo

LEMMA NumbersGrow ==
  ASSUME NEW pattern, NEW n \in Nat, NEW m \in Nat, n <= m
  PROVE  NumberTo(pattern, n) <= NumberTo(pattern, m)
<1>1. ConversionsTo(pattern, n) \subseteq ConversionsTo(pattern, m)
  BY DEF ConversionsTo
<1>2. IsFiniteSet(ConversionsTo(pattern, m))
  <2>1. IsFiniteSet(1..m) /\ ConversionsTo(pattern, m) \subseteq 1..m
    BY FS_Interval DEF ConversionsTo
  <2> QED
    BY <2>1, FS_Subset
<1> QED
  BY <1>1, <1>2, FS_Subset DEF NumberTo

Filled(r, pattern, args, n) ==
  IF "threw" \in DOMAIN r
  THEN (\E i \in 1..n : pattern[i] \in {"%", "%x"}) \/ NumberTo(pattern, n) > Len(args)
  ELSE /\ r.ret \in Seq(Units \X Nat) /\ Len(r.ret) = n /\ r.param = NumberTo(pattern, n) + 1
       /\ DOMAIN r = {"ret", "param"} /\ r = [ret |-> r.ret, param |-> r.param]
       /\ \A i \in 1..n :
            r.ret[i] = << pattern[i], IF pattern[i] \in Conversions THEN args[NumberTo(pattern, i)] ELSE 0 >>

LEMMA Thrown == "threw" \in DOMAIN BadPattern
  BY DEF BadPattern, Threw

LEMMA FilledOn ==
  ASSUME NEW pattern, NEW args \in Seq(Nat), NEW n \in Nat, pattern[n + 1] \in Units,
         NEW r, Filled(r, pattern, args, n), NEW t, t = Filling(r, pattern[n + 1], args)
  PROVE  Filled(t, pattern, args, n + 1)
<1>1. PICK m \in Nat : m = n + 1
  OBVIOUS
<1>2. PICK u \in Units : u = pattern[m] /\ t = Filling(r, u, args)
  BY <1>1
<1>3. PICK a \in Nat : a = NumberTo(pattern, n)
  BY Numbered
<1>4. PICK b \in Nat : b = NumberTo(pattern, m) /\ b = a + (IF u \in Conversions THEN 1 ELSE 0)
  <2>1. NumberTo(pattern, n + 1) = a + IF u \in Conversions THEN 1 ELSE 0
    BY <1>1, <1>2, <1>3, Numbered
  <2>2. (a + IF u \in Conversions THEN 1 ELSE 0) \in Nat
    OBVIOUS
  <2> QED
    BY <1>1, <2>1, <2>2
<1>5. \A i \in 1..m : i \in 1..n \/ i = m
  BY <1>1
<1>6. m \in 1..m /\ \A i \in 1..n : i \in 1..m
  BY <1>1
<1>7. CASE "threw" \in DOMAIN r
  <2>1. t = r
    BY <1>2, <1>7 DEF Filling
  <2>2. (\E i \in 1..n : pattern[i] \in {"%", "%x"}) \/ a > Len(args)
    BY <1>3, <1>7 DEF Filled
  <2>3. a > Len(args) => b > Len(args)
    BY <1>4
  <2>4. (\E i \in 1..m : pattern[i] \in {"%", "%x"}) \/ b > Len(args)
    BY <1>6, <2>2, <2>3
  <2> QED
    BY <1>1, <1>4, <1>7, <2>1, <2>4 DEF Filled
<1>8. CASE "threw" \notin DOMAIN r /\ (u = "%" \/ u = "%x")
  <2>1. t = BadPattern \/ t = Threw("unknown printf pattern character")
    BY <1>2, <1>8 DEF Filling
  <2>2. "threw" \in DOMAIN t
    BY <2>1 DEF BadPattern, Threw
  <2>3. \E i \in 1..m : pattern[i] \in {"%", "%x"}
    BY <1>2, <1>6, <1>8
  <2> QED
    BY <1>1, <2>2, <2>3 DEF Filled
<1>9. CASE "threw" \notin DOMAIN r /\ u # "%" /\ u # "%x"
  <2>1. PICK z \in Seq(Units \X Nat) : z = r.ret /\ Len(z) = n /\ r.param = a + 1 /\ r = [ret |-> z, param |-> a + 1]
    BY <1>3, <1>9 DEF Filled
  <2>2. \A i \in 1..n : z[i] = << pattern[i], IF pattern[i] \in Conversions THEN args[NumberTo(pattern, i)] ELSE 0 >>
    BY <1>9, <2>1 DEF Filled
  <2>3. ASSUME NEW v \in Nat, NEW p \in Nat, p = b + 1, v = (IF u \in Conversions THEN args[b] ELSE 0),
               t = [ret |-> Append(z, << u, v >>), param |-> p]
        PROVE  Filled(t, pattern, args, n + 1)
    <3>1. PICK e \in Units \X Nat : e = << u, v >>
      OBVIOUS
    <3>2. PICK y \in Seq(Units \X Nat) : y = Append(z, e) /\ Len(y) = m /\ y[m] = e /\ \A i \in 1..n : y[i] = z[i]
      <4>1. Append(z, e) \in Seq(Units \X Nat) /\ Len(Append(z, e)) = Len(z) + 1
        OBVIOUS
      <4>2. Append(z, e)[Len(z) + 1] = e /\ \A i \in 1..Len(z) : Append(z, e)[i] = z[i]
        OBVIOUS
      <4> QED
        BY <1>1, <2>1, <4>1, <4>2
    <3>3. t = [ret |-> y, param |-> p]
      BY <2>3, <3>1, <3>2
    <3>4. DOMAIN t = {"ret", "param"} /\ "threw" \notin DOMAIN t /\ t.ret = y /\ t.param = p
      BY <3>3
    <3>5. ASSUME NEW i \in 1..m
          PROVE  y[i] = << pattern[i], IF pattern[i] \in Conversions THEN args[NumberTo(pattern, i)] ELSE 0 >>
      <4>1. CASE i \in 1..n
        BY <2>2, <3>2, <4>1
      <4>2. CASE i = m
        BY <1>2, <1>4, <2>3, <3>1, <3>2, <4>2
      <4> QED
        BY <1>5, <4>1, <4>2
    <3> QED
      BY <1>1, <1>4, <2>3, <3>2, <3>3, <3>4, <3>5 DEF Filled
  <2>4. CASE u \in Conversions
    <3>1. b = a + 1 /\ Takes(u)
      BY <1>4, <2>4 DEF Takes
    <3>2. CASE a + 1 > Len(args)
      <4>1. t = BadPattern
        BY <1>2, <1>9, <2>1, <3>1, <3>2 DEF Filling
      <4>2. "threw" \in DOMAIN t
        BY <4>1, Thrown
      <4> QED
        BY <1>1, <1>4, <3>1, <3>2, <4>2 DEF Filled
    <3>3. CASE ~(a + 1 > Len(args))
      <4>1. t = [ret |-> Append(z, << u, args[b] >>), param |-> b + 1]
        BY <1>2, <1>9, <2>1, <3>1, <3>3 DEF Filling
      <4>2. b \in 1..Len(args)
        BY <3>1, <3>3
      <4>3. PICK v \in Nat : v = args[b]
        BY <4>2
      <4>4. PICK p \in Nat : p = b + 1
        OBVIOUS
      <4> QED
        BY <2>3, <2>4, <4>1, <4>3, <4>4
    <3> QED
      BY <3>2, <3>3
  <2>5. CASE u \notin Conversions
    <3>1. b = a /\ ~Takes(u)
      BY <1>4, <2>5 DEF Takes
    <3>2. t = [r EXCEPT !.ret = Append(z, << u, 0 >>)]
      BY <1>2, <1>9, <2>1, <3>1 DEF Filling
    <3>3. t = [ret |-> Append(z, << u, 0 >>), param |-> b + 1]
      BY <2>1, <3>1, <3>2
    <3>4. PICK v \in Nat : v = 0
      OBVIOUS
    <3>5. PICK p \in Nat : p = b + 1
      OBVIOUS
    <3> QED
      BY <2>3, <2>5, <3>3, <3>4, <3>5
  <2> QED
    BY <2>4, <2>5
<1> QED
  BY <1>7, <1>8, <1>9

LEMMA SprintfIs ==
  ASSUME NEW pattern, NEW N \in Nat, N = Len(pattern), \A i \in 1..N : pattern[i] \in Units, NEW args \in Seq(Nat)
  PROVE  Filled(Sprintf(pattern, args), pattern, args, N)
<1>1. PICK f : Fills(f, pattern, args, N) /\ f[N] = Sprintf(pattern, args)
  <2>1. Sprintf(pattern, args) = (CHOOSE f : Fills(f, pattern, args, N))[N]
    BY DEF Sprintf, Fills, Filling
  <2>2. Fills((CHOOSE f : Fills(f, pattern, args, N)), pattern, args, N)
    BY FillingExists
  <2> QED
    BY <2>1, <2>2
<1> DEFINE T == {m \in 0..N : ~Filled(f[m], pattern, args, m)}
<1>2. ASSUME T # {} PROVE FALSE
  <2>0. T \subseteq Nat
    OBVIOUS
  <2>1. PICK k \in T : \A y \in T : k <= y
    BY <1>2, <2>0, LeastNat
  <2>2. k \in 0..N /\ ~Filled(f[k], pattern, args, k)
    BY <2>1
  <2>3. CASE k = 0
    <3>1. f[k] = [ret |-> << >>, param |-> 1]
      BY <1>1, <2>2, <2>3 DEF Fills
    <3>2. PICK e \in Seq(Units \X Nat) : e = << >> /\ Len(e) = 0
      <4>1. << >> \in Seq(Units \X Nat) /\ Len(<< >>) = 0
        OBVIOUS
      <4> QED
        BY <4>1
    <3>3. NumberTo(pattern, 0) = 0
      <4>1. ConversionsTo(pattern, 0) = {}
        BY DEF ConversionsTo
      <4> QED
        BY <4>1, FS_EmptySet DEF NumberTo
    <3>4. PICK r : r = f[k] /\ r = [ret |-> e, param |-> 1]
      BY <3>1, <3>2
    <3>5. DOMAIN r = {"ret", "param"} /\ "threw" \notin DOMAIN r /\ r.ret = e /\ r.param = 1
      BY <3>4
    <3>6. Filled(r, pattern, args, 0)
      BY <3>2, <3>3, <3>4, <3>5 DEF Filled
    <3> QED
      BY <2>2, <2>3, <3>4, <3>6
  <2>4. CASE k # 0
    <3>1. PICK m \in Nat : m = k - 1 /\ m + 1 = k /\ m \in 0..N /\ ~(k <= m) /\ k \in 1..N
      <4>1. k - 1 \in Nat
        BY <2>2, <2>4
      <4> QED
        BY <2>2, <2>4, <4>1
    <3>2. PICK r : r = f[m] /\ Filled(r, pattern, args, m)
      BY <2>1, <3>1
    <3>3. PICK t : t = f[k] /\ t = Filling(r, pattern[m + 1], args)
      BY <1>1, <2>2, <2>4, <3>1, <3>2 DEF Fills
    <3>4. pattern[m + 1] \in Units
      BY <3>1
    <3>5. Filled(t, pattern, args, m + 1)
      BY <3>2, <3>3, <3>4, FilledOn
    <3> QED
      BY <2>2, <3>1, <3>3, <3>5
  <2> QED
    BY <2>3, <2>4
<1>3. N \in 0..N
  OBVIOUS
<1> QED
  BY <1>1, <1>2, <1>3

SprintfFits(pattern, args, result) ==
  LET before(i) == {j \in 1..i : pattern[j] \in Conversions}
      number(i) == Cardinality(before(i))
  IN  IF "threw" \in DOMAIN result
      THEN \/ \E i \in DOMAIN pattern : pattern[i] \in {"%", "%x"}
           \/ number(Len(pattern)) > Len(args)
      ELSE /\ Len(result.ret) = Len(pattern)
           /\ \A i \in DOMAIN pattern :
                result.ret[i] = << pattern[i], IF pattern[i] \in Conversions THEN args[number(i)] ELSE 0 >>

LEMMA FilledFits ==
  ASSUME NEW N \in Nat, NEW pattern, N = Len(pattern), DOMAIN pattern = 1..N, NEW args, NEW result,
         Filled(result, pattern, args, N)
  PROVE  SprintfFits(pattern, args, result)
<1>1. \A i : NumberTo(pattern, i) = Cardinality({j \in 1..i : pattern[j] \in Conversions})
  BY DEF NumberTo, ConversionsTo
<1>2. CASE "threw" \in DOMAIN result
  BY <1>1, <1>2 DEF SprintfFits, Filled
<1>3. CASE "threw" \notin DOMAIN result
  BY <1>1, <1>3 DEF SprintfFits, Filled
<1> QED
  BY <1>2, <1>3

LEMMA SprintfAnswers == ASSUME NEW p \in Patterns, NEW n \in 0..MaxArgs, sprintf(p, [i \in 1..n |-> i]) PROVE SprintfFills'
<1>1. PICK N \in Nat : p \in [1..N -> Units]
  BY BuiltinsAssumption DEF Patterns
<1>2. N = Len(p) /\ DOMAIN p = 1..N /\ \A i \in 1..N : p[i] \in Units
  BY <1>1
<1>3. PICK args \in Seq(Nat) : args = [i \in 1..n |-> i]
  <2>1. n \in Nat
    BY BuiltinsAssumption
  <2>2. [i \in 1..n |-> i] \in Seq(Nat)
    BY <2>1
  <2> QED
    BY <2>2
<1>4. PICK r : r = Sprintf(p, args)
  OBVIOUS
<1>5. SprintfFits(p, args, r)
  BY <1>2, <1>4, SprintfIs, FilledFits
<1>6. last' = [name |-> "sprintf", args |-> << p, args >>, result |-> r]
  BY <1>3, <1>4 DEF sprintf, OnlyGives, Gives
<1>7. last'.args[1] = p /\ last'.args[2] = args /\ last'.result = r
  BY <1>6
<1>8. SprintfFits(last'.args[1], last'.args[2], last'.result)
  BY <1>5, <1>7
<1> QED
  BY <1>8 DEF SprintfFills, SprintfFits

LEMMA SprintfBegins == ASSUME Init PROVE SprintfFills
<1>1. last = [name |-> "none"]
  BY DEF Init, Nothing
<1>2. last.name = "none"
  BY <1>1
<1> QED
  BY <1>2 DEF SprintfFills

LEMMA SprintfNext == ASSUME SprintfFills, [Next]_vars PROVE SprintfFills'
<1>1. ASSUME last' = last PROVE SprintfFills'
  BY <1>1 DEF SprintfFills
<1>2. ASSUME last'.name # "sprintf" PROVE SprintfFills'
  BY <1>2 DEF SprintfFills
<1>3. ASSUME NEW name, NEW args, NEW result, name # "sprintf", Gives(name, args, result) PROVE SprintfFills'
  <2>1. last' = [name |-> name, args |-> args, result |-> result]
    BY <1>3 DEF Gives
  <2>2. last'.name = name
    BY <2>1
  <2> QED
    BY <1>2, <1>3, <2>2
<1>4. CASE UNCHANGED vars
  BY <1>1, <1>4 DEF vars
<1>5. ASSUME NEW code, NEW obj, Call(code, obj) PROVE SprintfFills'
  BY <1>1, <1>5 DEF Call
<1>6. ASSUME NEW type, Enter(type) PROVE SprintfFills'
  BY <1>1, <1>6 DEF Enter
<1>7. CASE Leave \/ Return
  BY <1>1, <1>7 DEF Leave, Return
<1>8. CASE callee
  BY <1>3, <1>8 DEF callee, OnlyGives
<1>9. CASE caller
  BY <1>3, <1>9 DEF caller, OnlyGives
<1>10. CASE self
  BY <1>3, <1>10 DEF self, OnlyGives
<1>11. CASE rand_other
  BY <1>3, <1>11 DEF rand_other, OnlyGives
<1>12. ASSUME NEW n \in 0..MaxArgs, CallerOf(n) \/ rand(n) PROVE SprintfFills'
  BY <1>3, <1>12 DEF CallerOf, rand, OnlyGives
<1>13. ASSUME NEW p \in Patterns, NEW n \in 0..MaxArgs, sprintf(p, [i \in 1..n |-> i]) PROVE SprintfFills'
  BY <1>13, SprintfAnswers
<1>14. ASSUME NEW s \in Names, get_id(s) PROVE SprintfFills'
  BY <1>3, <1>14 DEF get_id
<1> QED
  BY <1>4, <1>5, <1>6, <1>7, <1>8, <1>9, <1>10, <1>11, <1>12, <1>13, <1>14 DEF Next

\* builtin_callee, builtin_caller (builtin.cc:130-178), tora_sprintf (printf.cc:8-53): whatever a
\* program calls, enters and leaves, the functions named are those that were called, and each
\* conversion of sprintf takes the argument that belongs to it or the call throws.
THEOREM BuiltinsAnswerCorrect == PartsSpec => []BuiltinsAnswer
<1> DEFINE Inv == FramesKept /\ SprintfFills
<1>1. Init => Inv
  BY FramesBegin, SprintfBegins
<1>2. Inv /\ [Next]_vars => Inv'
  BY FramesNext, SprintfNext
<1>3. Inv => BuiltinsAnswer
  BY CallersFollow DEF BuiltinsAnswer
<1> QED
  BY <1>1, <1>2, <1>3, BuiltinsPart, PTL DEF Spec

-----------------------------------------------------------------------------
(* Sequences. *)

LEMMA SameItems ==
  ASSUME NEW s \in Seq(Nat), NEW t \in Seq(Nat), Len(s) = Len(t), \A k \in 1..Len(t) : s[k] = t[k]
  PROVE  s = t
OBVIOUS

LEMMA Joins ==
  ASSUME NEW a \in Seq(Nat), NEW b \in Seq(Nat), NEW n \in Nat, n = Len(a)
  PROVE  /\ a \o b \in Seq(Nat) /\ Len(a \o b) = n + Len(b)
         /\ \A j \in 1..n : (a \o b)[j] = a[j]
         /\ \A j \in 1..Len(b) : (a \o b)[n + j] = b[j]
OBVIOUS

LEMMA Zeros == \A k \in Nat : [j \in 1..k |-> 0] \in Seq(Nat) /\ Len([j \in 1..k |-> 0]) = k
OBVIOUS

LEMMA InsertIs ==
  ASSUME NEW s \in Seq(Nat), NEW k \in 1..Len(s) + 1, NEW e \in Nat
  PROVE  /\ Ar!InsertAt(s, k, e) \in Seq(Nat) /\ Len(Ar!InsertAt(s, k, e)) = Len(s) + 1
         /\ \A j \in 1..Len(s) + 1 :
              Ar!InsertAt(s, k, e)[j] = IF j < k THEN s[j] ELSE IF j = k THEN e ELSE s[j - 1]
<1> DEFINE a == SubSeq(s, 1, k - 1)
           b == SubSeq(s, k, Len(s))
           c == a \o << e >>
<1>1. k \in Nat \ {0} /\ Len(s) \in Nat /\ k <= Len(s) + 1 /\ k - 1 \in Nat
  OBVIOUS
<1>2. PICK m \in Nat : m = k - 1
  BY <1>1
<1>3. a \in Seq(Nat) /\ Len(a) = m /\ \A j \in 1..m : a[j] = s[j]
  BY <1>1, <1>2
<1>4. b \in Seq(Nat) /\ Len(b) = Len(s) - m /\ \A j \in 1..Len(s) - m : b[j] = s[j + m]
  BY <1>1, <1>2
<1>5. Ar!InsertAt(s, k, e) = c \o b
  BY DEF Ar!InsertAt
<1>6. << e >> \in Seq(Nat) /\ Len(<< e >>) = 1 /\ << e >>[1] = e
  OBVIOUS
<1> HIDE DEF a, b
<1>7. /\ c \in Seq(Nat) /\ Len(c) = m + 1
      /\ \A j \in 1..m : c[j] = a[j]
      /\ \A j \in 1..1 : c[m + j] = << e >>[j]
  BY ZenonT(60), <1>2, <1>3, <1>6, Joins
<1>8. c[k] = e
  BY <1>1, <1>2, <1>6, <1>7
<1> HIDE DEF c
<1>9. /\ c \o b \in Seq(Nat) /\ Len(c \o b) = k + Len(b)
      /\ \A j \in 1..k : (c \o b)[j] = c[j]
      /\ \A j \in 1..Len(b) : (c \o b)[k + j] = b[j]
  <2>1. k \in Nat /\ k = Len(c)
    BY <1>1, <1>2, <1>7
  <2> QED
    BY <1>4, <1>7, <2>1, Joins
<1>10. \A j \in 1..Len(s) + 1 : (c \o b)[j] = IF j < k THEN s[j] ELSE IF j = k THEN e ELSE s[j - 1]
  <2> TAKE j \in 1..Len(s) + 1
  <2>0. j \in Nat /\ j <= Len(s) + 1
    BY <1>1
  <2>1. CASE j < k
    <3>1. j \in 1..m /\ j \in 1..k
      BY <1>1, <1>2, <2>1
    <3> QED
      BY <1>3, <1>7, <1>9, <2>1, <3>1
  <2>2. CASE j = k
    BY <1>1, <1>8, <1>9, <2>2
  <2>3. CASE j > k
    <3>4. Len(b) = Len(s) - m /\ k = m + 1
      BY <1>1, <1>2, <1>4
    <3>1. j - k \in 1..Len(b) /\ j = k + (j - k) /\ (j - k) + m = j - 1
      BY <1>1, <2>0, <2>3, <3>4
    <3>2. (c \o b)[k + (j - k)] = b[j - k] /\ b[j - k] = s[(j - k) + m]
      BY <1>4, <1>9, <3>1
    <3>3. (c \o b)[j] = s[j - 1]
      BY <3>1, <3>2
    <3>5. ~(j < k) /\ j # k
      BY <1>1, <2>0, <2>3
    <3> QED
      BY <3>3, <3>5
  <2>4. j < k \/ j = k \/ j > k
    BY <1>1, <2>0
  <2> QED
    BY <2>1, <2>2, <2>3, <2>4
<1> QED
  BY SMTT(40), <1>1, <1>2, <1>4, <1>5, <1>9, <1>10

LEMMA RemoveIs ==
  ASSUME NEW s \in Seq(Nat), NEW k \in 1..Len(s)
  PROVE  /\ Ar!RemoveAt(s, k) \in Seq(Nat) /\ Len(Ar!RemoveAt(s, k)) = Len(s) - 1
         /\ \A j \in 1..Len(s) - 1 : Ar!RemoveAt(s, k)[j] = IF j < k THEN s[j] ELSE s[j + 1]
<1> DEFINE a == SubSeq(s, 1, k - 1)
           b == SubSeq(s, k + 1, Len(s))
<1>1. a \in Seq(Nat) /\ Len(a) = k - 1 /\ \A j \in 1..k - 1 : a[j] = s[j]
  OBVIOUS
<1>2. b \in Seq(Nat) /\ Len(b) = Len(s) - k /\ \A j \in 1..Len(s) - k : b[j] = s[j + k]
  OBVIOUS
<1>3. Ar!RemoveAt(s, k) = a \o b
  BY DEF Ar!RemoveAt
<1> HIDE DEF a, b
<1>0. k \in Nat \ {0} /\ Len(s) \in Nat /\ k <= Len(s) /\ k - 1 \in Nat
  OBVIOUS
<1>6. PICK m \in Nat : m = k - 1
  BY <1>0
<1>7. /\ a \o b \in Seq(Nat) /\ Len(a \o b) = m + Len(b)
      /\ \A j \in 1..m : (a \o b)[j] = a[j]
      /\ \A j \in 1..Len(b) : (a \o b)[m + j] = b[j]
  <2>1. m = Len(a)
    BY <1>1, <1>6
  <2> QED
    BY <1>1, <1>2, <2>1, Joins
<1>4. a \o b \in Seq(Nat) /\ Len(a \o b) = Len(s) - 1
  BY <1>0, <1>2, <1>6, <1>7
<1>5. \A j \in 1..Len(s) - 1 : (a \o b)[j] = IF j < k THEN s[j] ELSE s[j + 1]
  <2> TAKE j \in 1..Len(s) - 1
  <2>1. CASE j < k
    BY <1>0, <1>1, <1>6, <1>7, <2>1
  <2>2. CASE ~(j < k)
    <3>1. j - m \in 1..Len(b) /\ j = m + (j - m) /\ (j - m) + k = j + 1
      BY <1>0, <1>2, <1>6, <2>2
    <3>2. (a \o b)[m + (j - m)] = b[j - m] /\ b[j - m] = s[(j - m) + k]
      BY <1>2, <1>7, <3>1
    <3> QED
      BY <2>2, <3>1, <3>2
  <2> QED
    BY <1>0, <2>1, <2>2
<1> QED
  BY <1>3, <1>4, <1>5

-----------------------------------------------------------------------------
(* Arrays are lists. *)

ItemsKept == items \in Seq(Nat) /\ Len(items) <= MaxSize

\* The list that an array is.
ListOf(s) == [j \in 0..Len(s) - 1 |-> s[j + 1]]

LEMMA ListInit == ASSUME Ar!ArraysAssumption, Ar!Init PROVE ItemsKept /\ Ar!Lists!Init
<1>1. items = << >> /\ answer = << 0 >>
  BY DEF Ar!Init, Ar!Undef
<1>2. items \in Seq(Nat) /\ Len(items) = 0 /\ MaxSize \in Nat
  BY <1>1 DEF Ar!ArraysAssumption
<1>3. [j \in 0..Len(items) - 1 |-> items[j + 1]] = << >>
  BY <1>2
<1> QED
  BY <1>1, <1>2, <1>3 DEF Ar!Lists!Init, ItemsKept, Ar!Undef

\* set_item pads with undef, and then the value is where it belongs.
LEMMA SetItemIs ==
  ASSUME items \in Seq(Nat), NEW i \in Nat, NEW v \in Nat, Ar!set_item(i, v), NEW n \in Nat, n = Len(items)
  PROVE  /\ items' \in Seq(Nat) /\ Len(items') = (IF i < n THEN n ELSE i + 1)
         /\ \A j \in 1..Len(items') : items'[j] = IF j = i + 1 THEN v ELSE IF j <= n THEN items[j] ELSE 0
<1>1. CASE i >= n
  <2>1. items' = Ar!InsertAt(Ar!Padded(i), i + 1, v)
    BY <1>1 DEF Ar!set_item
  <2>2. PICK z \in Seq(Nat) : z = [j \in 1..i - n |-> 0] /\ Len(z) = i - n
    <3>1. i - n \in Nat
      BY <1>1
    <3> QED
      BY <3>1, Zeros
  <2>3. Ar!Padded(i) = items \o z
    BY <2>2 DEF Ar!Padded, Ar!Undef
  <2>14. /\ items \o z \in Seq(Nat) /\ Len(items \o z) = n + Len(z)
         /\ \A j \in 1..n : (items \o z)[j] = items[j]
         /\ \A j \in 1..Len(z) : (items \o z)[n + j] = z[j]
    BY Joins
  <2>4. PICK p \in Seq(Nat) : p = items \o z
    BY <2>14
  <2>5. /\ Len(p) = n + Len(z)
        /\ \A j \in 1..n : p[j] = items[j]
        /\ \A j \in 1..Len(z) : p[n + j] = z[j]
    BY <2>4, <2>14
  <2>6. Len(p) = i /\ \A j \in 1..i : p[j] = IF j <= n THEN items[j] ELSE 0
    <3>1. Len(p) = i
      BY <2>2, <2>5
    <3>2. ASSUME NEW j \in 1..i PROVE p[j] = IF j <= n THEN items[j] ELSE 0
      <4>1. CASE j <= n
        BY <2>5, <4>1
      <4>2. CASE j > n
        <5>1. j - n \in 1..Len(z) /\ j = n + (j - n) /\ j - n \in 1..i - n
          BY <2>2, <4>2
        <5>2. p[n + (j - n)] = z[j - n] /\ z[j - n] = 0
          BY <2>2, <2>5, <5>1
        <5> QED
          BY <4>2, <5>1, <5>2
      <4> QED
        BY <4>1, <4>2
    <3> QED
      BY <3>1, <3>2
  <2>7. i + 1 \in 1..Len(p) + 1
    BY <2>6
  <2>15. /\ Ar!InsertAt(p, i + 1, v) \in Seq(Nat) /\ Len(Ar!InsertAt(p, i + 1, v)) = Len(p) + 1
         /\ \A j \in 1..Len(p) + 1 :
              Ar!InsertAt(p, i + 1, v)[j] = IF j < i + 1 THEN p[j] ELSE IF j = i + 1 THEN v ELSE p[j - 1]
    <3>1. PICK k \in 1..Len(p) + 1 : k = i + 1
      BY <2>7
    <3>2. /\ Ar!InsertAt(p, k, v) \in Seq(Nat) /\ Len(Ar!InsertAt(p, k, v)) = Len(p) + 1
          /\ \A j \in 1..Len(p) + 1 : Ar!InsertAt(p, k, v)[j] = IF j < k THEN p[j] ELSE IF j = k THEN v ELSE p[j - 1]
      BY InsertIs
    <3> QED
      BY <3>1, <3>2
  <2>8. /\ items' \in Seq(Nat) /\ Len(items') = Len(p) + 1
        /\ \A j \in 1..Len(p) + 1 : items'[j] = IF j < i + 1 THEN p[j] ELSE IF j = i + 1 THEN v ELSE p[j - 1]
    BY <2>1, <2>3, <2>4, <2>15
  <2>9. Len(items') = i + 1
    BY <2>6, <2>8
  <2>10. ASSUME NEW j \in 1..i + 1 PROVE items'[j] = IF j = i + 1 THEN v ELSE IF j <= n THEN items[j] ELSE 0
    <3>1. CASE j = i + 1
      BY <2>6, <2>8, <3>1
    <3>2. CASE j # i + 1
      <4>1. j \in 1..i /\ j < i + 1
        BY <3>2
      <4> QED
        BY <2>6, <2>8, <3>2, <4>1
    <3> QED
      BY <3>1, <3>2
  <2> QED
    BY <1>1, <2>8, <2>9, <2>10
<1>2. CASE i < n
  <2>1. items' = Ar!InsertAt(Ar!RemoveAt(items, i + 1), i + 1, v)
    BY <1>2 DEF Ar!set_item
  <2>2. i + 1 \in 1..Len(items)
    BY <1>2
  <2>3. PICK p \in Seq(Nat) : /\ p = Ar!RemoveAt(items, i + 1) /\ Len(p) = n - 1
                              /\ \A j \in 1..n - 1 : p[j] = IF j < i + 1 THEN items[j] ELSE items[j + 1]
    BY <2>2, RemoveIs
  <2>4. i + 1 \in 1..Len(p) + 1
    BY <1>2, <2>3
  <2>7. /\ Ar!InsertAt(p, i + 1, v) \in Seq(Nat) /\ Len(Ar!InsertAt(p, i + 1, v)) = Len(p) + 1
         /\ \A j \in 1..Len(p) + 1 :
              Ar!InsertAt(p, i + 1, v)[j] = IF j < i + 1 THEN p[j] ELSE IF j = i + 1 THEN v ELSE p[j - 1]
    <3>1. PICK k \in 1..Len(p) + 1 : k = i + 1
      BY <2>4
    <3>2. /\ Ar!InsertAt(p, k, v) \in Seq(Nat) /\ Len(Ar!InsertAt(p, k, v)) = Len(p) + 1
          /\ \A j \in 1..Len(p) + 1 : Ar!InsertAt(p, k, v)[j] = IF j < k THEN p[j] ELSE IF j = k THEN v ELSE p[j - 1]
      BY InsertIs
    <3> QED
      BY <3>1, <3>2
  <2>5. /\ items' \in Seq(Nat) /\ Len(items') = n
        /\ \A j \in 1..n : items'[j] = IF j < i + 1 THEN p[j] ELSE IF j = i + 1 THEN v ELSE p[j - 1]
    <3>1. /\ items' \in Seq(Nat) /\ Len(items') = Len(p) + 1
          /\ \A j \in 1..Len(p) + 1 : items'[j] = IF j < i + 1 THEN p[j] ELSE IF j = i + 1 THEN v ELSE p[j - 1]
      BY <2>1, <2>3, <2>7
    <3>2. Len(p) + 1 = n
      BY <2>3
    <3> QED
      BY <3>1, <3>2
  <2>6. ASSUME NEW j \in 1..n PROVE items'[j] = IF j = i + 1 THEN v ELSE IF j <= n THEN items[j] ELSE 0
    <3>1. CASE j = i + 1
      BY <2>5, <3>1
    <3>2. CASE j < i + 1
      <4>1. j \in 1..n - 1
        BY <1>2, <3>2
      <4> QED
        BY <2>3, <2>5, <3>2, <4>1
    <3>3. CASE j > i + 1
      <4>1. j - 1 \in 1..n - 1 /\ ~(j - 1 < i + 1) /\ (j - 1) + 1 = j
        BY <3>3
      <4>2. items'[j] = p[j - 1] /\ p[j - 1] = items[(j - 1) + 1]
        BY <2>3, <2>5, <3>3, <4>1
      <4> QED
        BY <3>3, <4>1, <4>2
    <3> QED
      BY <3>1, <3>2, <3>3
  <2> QED
    BY <1>2, <2>5, <2>6
<1> QED
  BY <1>1, <1>2

LEMMA Stores ==
  ASSUME Ar!ArraysAssumption, ItemsKept, NEW i \in Nat, i < MaxSize, NEW v \in Elements,
         Ar!set_item(i, v), UNCHANGED answer
  PROVE  ItemsKept' /\ Ar!Lists!Store(i, v)
<1>1. PICK n \in Nat : n = Len(items)
  BY DEF ItemsKept
<1>2. v \in Nat /\ MaxSize \in Nat /\ items \in Seq(Nat) /\ n <= MaxSize
  BY <1>1 DEF Ar!ArraysAssumption, ItemsKept
<1>3. /\ items' \in Seq(Nat) /\ Len(items') = (IF i < n THEN n ELSE i + 1)
      /\ \A j \in 1..Len(items') : items'[j] = IF j = i + 1 THEN v ELSE IF j <= n THEN items[j] ELSE 0
  BY <1>1, <1>2, SetItemIs
<1>4. ItemsKept'
  BY <1>2, <1>3 DEF ItemsKept
<1>5. PICK m \in Nat : m = Len(items')
  BY <1>3
<1>6. ASSUME NEW j \in 0..m - 1
      PROVE  items'[j + 1] = IF j = i THEN v ELSE IF j < n THEN ListOf(items)[j] ELSE 0
  <2>1. j + 1 \in 1..m
    BY <1>5
  <2>2. items'[j + 1] = IF j + 1 = i + 1 THEN v ELSE IF j + 1 <= n THEN items[j + 1] ELSE 0
    BY <1>3, <1>5, <2>1
  <2>3. j < n => ListOf(items)[j] = items[j + 1]
    BY <1>1 DEF ListOf
  <2> QED
    BY <2>1, <2>2, <2>3
<1>7. [j \in 0..m - 1 |-> items'[j + 1]] = [j \in 0..m - 1 |-> IF j = i THEN v ELSE IF j < n THEN ListOf(items)[j] ELSE 0]
  BY <1>6
<1> QED
  BY <1>1, <1>3, <1>4, <1>5, <1>7 DEF Ar!Lists!Store, ListOf, Ar!Undef

\* The other operations, when the array has n items.
LEMMA Pops ==
  ASSUME Ar!ArraysAssumption, ItemsKept, items # << >>, answer' = << Ar!Last(items) >>, items' = Ar!Front(items)
  PROVE  ItemsKept' /\ Ar!Lists!TakeLast
<1>1. PICK n \in Nat \ {0} : n = Len(items)
  BY DEF ItemsKept
<1>2. items \in Seq(Nat) /\ n <= MaxSize /\ MaxSize \in Nat
  BY <1>1 DEF ItemsKept, Ar!ArraysAssumption
<1>3. items' = SubSeq(items, 1, n - 1)
  BY <1>1 DEF Ar!Front
<1>4. items' \in Seq(Nat) /\ Len(items') = n - 1 /\ \A j \in 1..n - 1 : items'[j] = items[j]
  BY <1>1, <1>2, <1>3
<1>5. ItemsKept'
  BY <1>2, <1>4 DEF ItemsKept
<1>6. answer' = << ListOf(items)[n - 1] >>
  BY <1>1 DEF ListOf, Ar!Last
<1>7. ASSUME NEW j \in 0..n - 2 PROVE items'[j + 1] = ListOf(items)[j]
  <2>1. j + 1 \in 1..n - 1 /\ j \in 0..n - 1
    OBVIOUS
  <2> QED
    BY <1>1, <1>4, <2>1 DEF ListOf
<1>8. [j \in 0..n - 2 |-> items'[j + 1]] = [j \in 0..n - 2 |-> ListOf(items)[j]]
  BY <1>7
<1>9. Len(items') - 1 = n - 2
  BY <1>4
<1>10. ListOf(items)' = [j \in 0..n - 2 |-> ListOf(items)[j]]
  BY <1>8, <1>9 DEF ListOf
<1>11. n > 0 /\ Len(items') = n - 1
  BY <1>4
<1> QED
  BY <1>1, <1>5, <1>6, <1>10, <1>11 DEF Ar!Lists!TakeLast, ListOf

LEMMA Shifts ==
  ASSUME Ar!ArraysAssumption, ItemsKept, items # << >>, answer' = << Head(items) >>, items' = Tail(items)
  PROVE  ItemsKept' /\ Ar!Lists!TakeFirst
<1>1. PICK n \in Nat \ {0} : n = Len(items)
  BY DEF ItemsKept
<1>2. items \in Seq(Nat) /\ n <= MaxSize /\ MaxSize \in Nat
  BY <1>1 DEF ItemsKept, Ar!ArraysAssumption
<1>4. items' \in Seq(Nat) /\ Len(items') = n - 1 /\ \A j \in 1..n - 1 : items'[j] = items[j + 1]
  BY <1>1, <1>2
<1>5. ItemsKept'
  BY <1>2, <1>4 DEF ItemsKept
<1>6. answer' = << ListOf(items)[0] >>
  BY <1>1, <1>2 DEF ListOf
<1>7. ASSUME NEW j \in 0..n - 2 PROVE items'[j + 1] = ListOf(items)[j + 1]
  <2>1. j + 1 \in 1..n - 1 /\ j + 1 \in 0..n - 1
    OBVIOUS
  <2> QED
    BY <1>1, <1>4, <2>1 DEF ListOf
<1>8. [j \in 0..n - 2 |-> items'[j + 1]] = [j \in 0..n - 2 |-> ListOf(items)[j + 1]]
  BY <1>7
<1>9. Len(items') - 1 = n - 2
  BY <1>4
<1>10. ListOf(items)' = [j \in 0..n - 2 |-> ListOf(items)[j + 1]]
  BY <1>8, <1>9 DEF ListOf
<1>11. n > 0 /\ Len(items') = n - 1
  BY <1>4
<1> QED
  BY <1>1, <1>5, <1>6, <1>10, <1>11 DEF Ar!Lists!TakeFirst, ListOf

LEMMA Unshifts ==
  ASSUME Ar!ArraysAssumption, ItemsKept, NEW v \in Elements, Len(items) < MaxSize,
         items' = << v >> \o items, UNCHANGED answer
  PROVE  ItemsKept' /\ Ar!Lists!AddFirst(v)
<1>1. PICK n \in Nat : n = Len(items)
  BY DEF ItemsKept
<1>2. items \in Seq(Nat) /\ n < MaxSize /\ MaxSize \in Nat /\ v \in Nat
  BY <1>1 DEF ItemsKept, Ar!ArraysAssumption
<1>3. << v >> \in Seq(Nat) /\ Len(<< v >>) = 1 /\ << v >>[1] = v
  BY <1>2
<1>4. /\ items' \in Seq(Nat) /\ Len(items') = 1 + n
      /\ \A j \in 1..1 : items'[j] = << v >>[j]
      /\ \A j \in 1..n : items'[1 + j] = items[j]
  <2>1. /\ << v >> \o items \in Seq(Nat) /\ Len(<< v >> \o items) = 1 + Len(items)
        /\ \A j \in 1..1 : (<< v >> \o items)[j] = << v >>[j]
        /\ \A j \in 1..Len(items) : (<< v >> \o items)[1 + j] = items[j]
    BY <1>2, <1>3, Joins
  <2> QED
    BY <1>1, <2>1
<1>5. ItemsKept'
  BY <1>2, <1>4 DEF ItemsKept
<1>7. ASSUME NEW j \in 0..n PROVE items'[j + 1] = IF j = 0 THEN v ELSE ListOf(items)[j - 1]
  <2>1. CASE j = 0
    BY <1>3, <1>4, <2>1
  <2>2. CASE j # 0
    <3>1. j \in 1..n /\ j - 1 \in 0..n - 1 /\ j + 1 = 1 + j /\ (j - 1) + 1 = j
      BY <2>2
    <3> QED
      BY <1>1, <1>4, <2>2, <3>1 DEF ListOf
  <2> QED
    BY <2>1, <2>2
<1>8. [j \in 0..n |-> items'[j + 1]] = [j \in 0..n |-> IF j = 0 THEN v ELSE ListOf(items)[j - 1]]
  BY <1>7
<1>9. Len(items') - 1 = n
  BY <1>4
<1>10. ListOf(items)' = [j \in 0..n |-> IF j = 0 THEN v ELSE ListOf(items)[j - 1]]
  BY <1>8, <1>9 DEF ListOf
<1>11. Len(items') = n + 1
  BY <1>4
<1> QED
  BY <1>1, <1>5, <1>10, <1>11 DEF Ar!Lists!AddFirst, ListOf

LEMMA Fetches ==
  ASSUME Ar!ArraysAssumption, ItemsKept, NEW i \in Int, Ar!get_item(i), UNCHANGED items
  PROVE  ItemsKept' /\ (answer' = answer \/ \E k \in 0..MaxSize : Ar!Lists!Fetch(k))
<1>1. PICK n \in Nat : n = Len(items)
  BY DEF ItemsKept
<1>2. items \in Seq(Nat) /\ n <= MaxSize /\ MaxSize \in Nat /\ ItemsKept'
  BY <1>1 DEF ItemsKept, Ar!ArraysAssumption
<1>3. UNCHANGED << Len(items), ListOf(items) >>
  BY DEF ListOf
<1>4. CASE i >= n
  <2>1. answer' = << 0 >> /\ n \in 0..MaxSize /\ ~(n < n)
    BY <1>1, <1>2, <1>4 DEF Ar!get_item, Ar!Undef
  <2>2. Ar!Lists!Fetch(n)
    BY <1>1, <1>3, <2>1 DEF Ar!Lists!Fetch, Ar!Undef, ListOf
  <2> QED
    BY <1>2, <2>1, <2>2
<1>5. CASE i < 0
  BY <1>1, <1>2, <1>5 DEF Ar!get_item
<1>6. CASE i \in 0..n - 1
  <2>1. answer' = << items[i + 1] >> /\ ListOf(items)[i] = items[i + 1] /\ i < n /\ i \in 0..MaxSize
    BY <1>1, <1>2, <1>6 DEF Ar!get_item, ListOf
  <2>2. Ar!Lists!Fetch(i)
    BY <1>1, <1>3, <2>1 DEF Ar!Lists!Fetch, Ar!Undef, ListOf
  <2> QED
    BY <1>2, <2>1, <2>2
<1> QED
  BY <1>4, <1>5, <1>6

LEMMA Reverses ==
  ASSUME ItemsKept, Ar!av_reverse, UNCHANGED items
  PROVE  Ar!Lists!Derive
<1>1. PICK n \in Nat : n = Len(items)
  BY DEF ItemsKept
<1>2. UNCHANGED << Len(items), ListOf(items) >>
  BY DEF ListOf
<1>3. answer' = [j \in 1..n |-> items[(n - j) + 1]]
  BY <1>1 DEF Ar!av_reverse, Ar!Reverse
<1>4. ASSUME NEW j \in 1..n PROVE items[(n - j) + 1] = ListOf(items)[n - j]
  <2>1. n - j \in 0..n - 1
    OBVIOUS
  <2> QED
    BY <1>1, <2>1 DEF ListOf
<1>5. answer' = [j \in 1..n |-> ListOf(items)[n - j]]
  BY <1>3, <1>4
<1> QED
  BY <1>1, <1>2, <1>5 DEF Ar!Lists!Derive, ListOf

-----------------------------------------------------------------------------
\* What av_join has built when k items are in: each item, and after each but the last of n a separator.
JoinedTo(k, n) ==
  [j \in 1..IF k = n /\ n > 0 THEN 2 * n - 1 ELSE 2 * k |->
     IF j % 2 = 1 THEN items[j \div 2 + 1] ELSE -1]

JoinStep(s, k, n) == s \o << items[k] >> \o IF k + 1 # n + 1 THEN << -1 >> ELSE << >>

LEMMA Seqs ==
  ASSUME NEW a \in Seq(Int), NEW b \in Seq(Int), NEW n \in Nat, n = Len(a)
  PROVE  /\ a \o b \in Seq(Int) /\ Len(a \o b) = n + Len(b)
         /\ \A j \in 1..n : (a \o b)[j] = a[j]
         /\ \A j \in 1..Len(b) : (a \o b)[n + j] = b[j]
OBVIOUS

LEMMA SameInts ==
  ASSUME NEW s \in Seq(Int), NEW t \in Seq(Int), Len(s) = Len(t), \A k \in 1..Len(t) : s[k] = t[k]
  PROVE  s = t
OBVIOUS

LEMMA Odd == \A j \in Nat \ {0} : j % 2 = 1 => j \div 2 \in Nat /\ j = 2 * (j \div 2) + 1
OBVIOUS

LEMMA OddEven == \A k \in Nat : (2 * k + 1) % 2 = 1 /\ (2 * k + 1) \div 2 = k /\ (2 * k + 2) % 2 = 0
OBVIOUS

LEMMA JoinedIsSeq ==
  ASSUME items \in Seq(Nat), NEW n \in Nat, n = Len(items), NEW k \in 0..n
  PROVE  /\ JoinedTo(k, n) \in Seq(Int)
         /\ Len(JoinedTo(k, n)) = IF k = n /\ n > 0 THEN 2 * n - 1 ELSE 2 * k
         /\ \A j \in 1..Len(JoinedTo(k, n)) :
              JoinedTo(k, n)[j] = IF j % 2 = 1 THEN items[j \div 2 + 1] ELSE -1
<1>1. PICK m \in Nat : m = (IF k = n /\ n > 0 THEN 2 * n - 1 ELSE 2 * k) /\ m <= 2 * n
  <2>1. (IF k = n /\ n > 0 THEN 2 * n - 1 ELSE 2 * k) \in Nat /\ (IF k = n /\ n > 0 THEN 2 * n - 1 ELSE 2 * k) <= 2 * n
    OBVIOUS
  <2> QED
    BY <2>1
<1>2. ASSUME NEW j \in 1..m PROVE (IF j % 2 = 1 THEN items[j \div 2 + 1] ELSE -1) \in Int
  <2>1. CASE j % 2 = 1
    <3>1. j \in Nat \ {0} /\ j <= 2 * n
      BY <1>1
    <3>2. j \div 2 \in Nat /\ j = 2 * (j \div 2) + 1
      BY <2>1, <3>1, Odd
    <3>3. PICK h \in Nat : h = j \div 2
      BY <3>2
    <3>4. h + 1 \in 1..n
      BY <3>1, <3>2, <3>3
    <3>5. items[h + 1] \in Int
      BY <3>4
    <3> QED
      BY <2>1, <3>3, <3>5
  <2>2. CASE j % 2 # 1
    BY <2>2
  <2> QED
    BY <2>1, <2>2
<1>3. JoinedTo(k, n) = [j \in 1..m |-> IF j % 2 = 1 THEN items[j \div 2 + 1] ELSE -1]
  BY <1>1 DEF JoinedTo
<1>4. PICK f : f = [j \in 1..m |-> IF j % 2 = 1 THEN items[j \div 2 + 1] ELSE -1]
  OBVIOUS
<1>5. f \in [1..m -> Int] /\ \A j \in 1..m : f[j] = IF j % 2 = 1 THEN items[j \div 2 + 1] ELSE -1
  BY <1>2, <1>4
<1>6. f \in Seq(Int) /\ Len(f) = m
  BY <1>5
<1> QED
  BY <1>1, <1>3, <1>4, <1>5, <1>6

LEMMA JoinsOn ==
  ASSUME items \in Seq(Nat), NEW n \in Nat, n = Len(items), NEW k \in 1..n
  PROVE  JoinedTo(k, n) = JoinStep(JoinedTo(k - 1, n), k, n)
<1>1. PICK h \in 0..n : h = k - 1
  OBVIOUS
<1>2. PICK a \in Seq(Int) : /\ a = JoinedTo(h, n) /\ Len(a) = 2 * h
                            /\ \A j \in 1..2 * h : a[j] = IF j % 2 = 1 THEN items[j \div 2 + 1] ELSE -1
  <2>1. (IF h = n /\ n > 0 THEN 2 * n - 1 ELSE 2 * h) = 2 * h
    BY <1>1
  <2>2. /\ JoinedTo(h, n) \in Seq(Int)
        /\ Len(JoinedTo(h, n)) = IF h = n /\ n > 0 THEN 2 * n - 1 ELSE 2 * h
        /\ \A j \in 1..Len(JoinedTo(h, n)) :
             JoinedTo(h, n)[j] = IF j % 2 = 1 THEN items[j \div 2 + 1] ELSE -1
    BY JoinedIsSeq
  <2>3. Len(JoinedTo(h, n)) = 2 * h
    BY <2>1, <2>2
  <2> QED
    BY <2>2, <2>3
<1>3. PICK m \in Nat : m = IF k = n THEN 2 * k - 1 ELSE 2 * k
  <2>1. (IF k = n THEN 2 * k - 1 ELSE 2 * k) \in Nat
    OBVIOUS
  <2> QED
    BY <2>1
<1>4. PICK c \in Seq(Int) : /\ c = JoinedTo(k, n) /\ Len(c) = m
                            /\ \A j \in 1..m : c[j] = IF j % 2 = 1 THEN items[j \div 2 + 1] ELSE -1
  <2>1. (IF k = n /\ n > 0 THEN 2 * n - 1 ELSE 2 * k) = m
    BY <1>3
  <2>2. k \in 0..n
    OBVIOUS
  <2>3. /\ JoinedTo(k, n) \in Seq(Int)
        /\ Len(JoinedTo(k, n)) = IF k = n /\ n > 0 THEN 2 * n - 1 ELSE 2 * k
        /\ \A j \in 1..Len(JoinedTo(k, n)) :
             JoinedTo(k, n)[j] = IF j % 2 = 1 THEN items[j \div 2 + 1] ELSE -1
    BY <2>2, JoinedIsSeq
  <2>4. Len(JoinedTo(k, n)) = m
    BY <2>1, <2>3
  <2> QED
    BY <2>3, <2>4
<1>5. PICK e \in Int : e = items[k]
  <2>1. items[k] \in Int
    OBVIOUS
  <2> QED
    BY <2>1
<1>6. PICK t \in Seq(Int) : t = IF k + 1 # n + 1 THEN << -1 >> ELSE << >>
  <2>1. << -1 >> \in Seq(Int) /\ << >> \in Seq(Int)
    OBVIOUS
  <2> QED
    BY <2>1
<1>7. << e >> \in Seq(Int) /\ Len(<< e >>) = 1 /\ << e >>[1] = e
  OBVIOUS
<1>8. PICK b \in Seq(Int) : /\ b = a \o << e >> /\ Len(b) = 2 * h + 1
                            /\ \A j \in 1..2 * h : b[j] = a[j]
                            /\ b[2 * h + 1] = e
  <2>1. PICK x \in Nat : x = 2 * h /\ x = Len(a)
    BY <1>1, <1>2
  <2>2. /\ a \o << e >> \in Seq(Int) /\ Len(a \o << e >>) = x + Len(<< e >>)
        /\ \A j \in 1..x : (a \o << e >>)[j] = a[j]
        /\ \A j \in 1..Len(<< e >>) : (a \o << e >>)[x + j] = << e >>[j]
    BY SMTT(40), <1>7, <2>1, Seqs
  <2>3. (a \o << e >>)[x + 1] = e /\ Len(a \o << e >>) = x + 1
    BY <1>7, <2>2
  <2> QED
    BY <2>1, <2>2, <2>3
<1>9. PICK d \in Seq(Int) : /\ d = b \o t /\ Len(d) = 2 * h + 1 + Len(t)
                            /\ \A j \in 1..2 * h + 1 : d[j] = b[j]
                            /\ \A j \in 1..Len(t) : d[2 * h + 1 + j] = t[j]
  <2>1. PICK x \in Nat : x = 2 * h + 1
    BY <1>1
  <2>2. /\ b \o t \in Seq(Int) /\ Len(b \o t) = x + Len(t)
        /\ \A j \in 1..x : (b \o t)[j] = b[j]
        /\ \A j \in 1..Len(t) : (b \o t)[x + j] = t[j]
    BY <1>8, <2>1, Seqs
  <2> QED
    BY <2>1, <2>2
<1>10. d = JoinStep(JoinedTo(k - 1, n), k, n)
  BY <1>1, <1>2, <1>5, <1>6, <1>8, <1>9 DEF JoinStep
<1>11. Len(t) = (IF k = n THEN 0 ELSE 1) /\ (k # n => t[1] = -1)
  BY <1>6
<1>12. Len(d) = m
  BY <1>1, <1>3, <1>9, <1>11
<1>13. ASSUME NEW j \in 1..m PROVE d[j] = c[j]
  <2>1. CASE j \in 1..2 * h
    <3>1. j \in 1..2 * h + 1
      BY <1>1, <2>1
    <3>2. d[j] = a[j]
      BY <1>8, <1>9, <2>1, <3>1
    <3>3. a[j] = (IF j % 2 = 1 THEN items[j \div 2 + 1] ELSE -1) /\ c[j] = (IF j % 2 = 1 THEN items[j \div 2 + 1] ELSE -1)
      BY <1>2, <1>4, <2>1
    <3> QED
      BY <3>2, <3>3
  <2>2. CASE j = 2 * h + 1
    <3>1. h \in Nat /\ h + 1 = k /\ j % 2 = 1 /\ j \div 2 = h
      BY <1>1, <2>2, OddEven
    <3>4. j \in 1..2 * h + 1
      BY <2>2, <3>1
    <3>5. d[j] = e
      BY <1>8, <1>9, <2>2, <3>4
    <3>6. c[j] = items[j \div 2 + 1]
      BY <1>4, <3>1
    <3>2. d[j] = e /\ c[j] = items[h + 1]
      BY <3>1, <3>5, <3>6
    <3> QED
      BY <1>5, <3>1, <3>2
  <2>3. CASE j = 2 * h + 2
    <3>1. k # n
      BY <1>1, <1>3, <2>3
    <3>2. h \in Nat /\ j % 2 = 0
      BY <1>1, <2>3, OddEven
    <3>3. 1 \in 1..Len(t) /\ j = 2 * h + 1 + 1
      BY <1>1, <1>11, <2>3, <3>1
    <3>4. d[j] = -1
      BY <1>9, <1>11, <3>1, <3>3
    <3> QED
      BY <1>4, <3>2, <3>4
  <2>4. j \in 1..2 * h \/ j = 2 * h + 1 \/ j = 2 * h + 2
    BY <1>1, <1>3
  <2> QED
    BY <2>1, <2>2, <2>3, <2>4
<1>14. d = c
  BY <1>4, <1>12, <1>13, SameInts
<1> QED
  BY <1>4, <1>10, <1>14

JoinFn(str, n) == str = [k \in 0..n |-> IF k = 0 THEN << >> ELSE JoinStep(str[k - 1], k, n)]

LEMMA JoinedStart ==
  ASSUME items \in Seq(Nat), NEW n \in Nat, n = Len(items)
  PROVE  JoinedTo(0, n) = << >>
<1>1. JoinedTo(0, n) \in Seq(Int) /\ Len(JoinedTo(0, n)) = 0
  <2>1. 0 \in 0..n /\ (IF 0 = n /\ n > 0 THEN 2 * n - 1 ELSE 2 * 0) = 0
    OBVIOUS
  <2>2. PICK z \in 0..n : z = 0
    BY <2>1
  <2>3. JoinedTo(z, n) \in Seq(Int) /\ Len(JoinedTo(z, n)) = (IF z = n /\ n > 0 THEN 2 * n - 1 ELSE 2 * z)
    BY JoinedIsSeq
  <2> QED
    BY <2>1, <2>2, <2>3
<1> QED
  BY <1>1

LEMMA JoinedIs ==
  ASSUME items \in Seq(Nat), NEW n \in Nat, n = Len(items)
  PROVE  Ar!Joined = JoinedTo(n, n)
<1> DEFINE whole == [k \in 0..n |-> JoinedTo(k, n)]
<1>1. ASSUME NEW k \in 0..n
      PROVE  JoinedTo(k, n) = IF k = 0 THEN << >> ELSE JoinStep(whole[k - 1], k, n)
  <2>1. CASE k = 0
    BY <2>1, JoinedStart
  <2>2. CASE k # 0
    <3>1. k \in 1..n /\ k - 1 \in 0..n
      BY <2>2
    <3>2. whole[k - 1] = JoinedTo(k - 1, n)
      BY <3>1
    <3> QED
      BY <2>2, <3>1, <3>2, JoinsOn
  <2> QED
    BY <2>1, <2>2
<1>2. JoinFn(whole, n)
  <2>1. whole = [k \in 0..n |-> IF k = 0 THEN << >> ELSE JoinStep(whole[k - 1], k, n)]
    BY <1>1
  <2> QED
    BY <2>1 DEF JoinFn
<1>3. ASSUME NEW str, JoinFn(str, n) PROVE str[n] = JoinedTo(n, n)
  <2> DEFINE T == {k \in 0..n : str[k] # JoinedTo(k, n)}
  <2>1. ASSUME T # {} PROVE FALSE
    <3>1. T \in SUBSET Nat
      OBVIOUS
    <3>2. PICK k \in T : \A y \in T : k <= y
      BY <2>1, <3>1, LeastNat
    <3>3. k \in 0..n /\ str[k] # JoinedTo(k, n)
      BY <3>2
    <3>4. str[k] = IF k = 0 THEN << >> ELSE JoinStep(str[k - 1], k, n)
      BY <1>3, <3>3 DEF JoinFn
    <3>5. k # 0
      BY <3>3, <3>4, JoinedStart
    <3>6. k \in 1..n /\ k - 1 \in 0..n /\ ~(k <= k - 1)
      BY <3>3, <3>5
    <3>7. str[k - 1] = JoinedTo(k - 1, n)
      BY <3>2, <3>6
    <3> QED
      BY <3>3, <3>4, <3>5, <3>6, <3>7, JoinsOn
  <2>2. n \in 0..n
    OBVIOUS
  <2> QED
    BY <2>1, <2>2
<1>4. Ar!Joined = (CHOOSE str : JoinFn(str, n))[n]
  BY DEF Ar!Joined, Ar!Separator, JoinFn, JoinStep
<1> HIDE DEF whole
<1>5. JoinFn((CHOOSE str : JoinFn(str, n)), n)
  BY <1>2
<1> QED
  BY <1>3, <1>4, <1>5

LEMMA JoinIs ==
  ASSUME ItemsKept, Ar!av_join, UNCHANGED items
  PROVE  Ar!Lists!Derive
<1>1. PICK n \in Nat : n = Len(items)
  BY DEF ItemsKept
<1>2. UNCHANGED << Len(items), ListOf(items) >>
  BY DEF ListOf
<1>3. answer' = JoinedTo(n, n)
  BY <1>1, JoinedIs DEF ItemsKept, Ar!av_join
<1>4. JoinedTo(n, n) = [j \in 1..2 * n - 1 |-> IF j % 2 = 1 THEN items[j \div 2 + 1] ELSE -1]
  <2>1. CASE n > 0
    BY <2>1 DEF JoinedTo
  <2>2. CASE n = 0
    <3>1. 1..2 * n - 1 = {} /\ 1..2 * n = {}
      BY <2>2
    <3>2. [j \in {} |-> IF j % 2 = 1 THEN items[j \div 2 + 1] ELSE -1] = JoinedTo(n, n)
      BY <2>2, <3>1 DEF JoinedTo
    <3> QED
      BY <3>1, <3>2
  <2> QED
    BY <2>1, <2>2
<1>5. ASSUME NEW j \in 1..2 * n - 1
      PROVE  (IF j % 2 = 1 THEN items[j \div 2 + 1] ELSE -1) = IF j % 2 = 1 THEN ListOf(items)[j \div 2] ELSE -1
  <2>1. CASE j % 2 = 1
    <3>1. j \in Nat \ {0} /\ j <= 2 * n - 1
      OBVIOUS
    <3>2. j \div 2 \in Nat /\ j = 2 * (j \div 2) + 1
      BY <2>1, <3>1, Odd
    <3>3. PICK h \in Nat : h = j \div 2
      BY <3>2
    <3>4. h \in 0..n - 1
      BY <3>1, <3>2, <3>3
    <3> QED
      BY <1>1, <2>1, <3>3, <3>4 DEF ListOf
  <2> QED
    BY <2>1
<1>6. answer' = [j \in 1..2 * n - 1 |-> IF j % 2 = 1 THEN ListOf(items)[j \div 2] ELSE -1]
  BY <1>3, <1>4, <1>5
<1> QED
  BY <1>1, <1>2, <1>6 DEF Ar!Lists!Derive, ListOf, Ar!Separator

LEMMA OrderIsPermutation ==
  ASSUME NEW n \in Nat, NEW order \in [1..n -> 1..n],
         \A j, k \in 1..n : j < k => order[j] # order[k]
  PROVE  \A i \in 1..n : \E j \in 1..n : order[j] = i
<1>1. PICK D : D = 1..n
  OBVIOUS
<1>2. IsFiniteSet(D)
  BY <1>1, FS_Interval
<1>3. ASSUME NEW j \in D, NEW k \in D, order[j] = order[k] PROVE j = k
  <2>1. j \in Nat /\ k \in Nat
    BY <1>1
  <2> QED
    BY <1>1, <1>3, <2>1
<1>4. order \in Injection(D, D)
  BY <1>1, <1>3 DEF Injection, IsInjective
<1>5. order \in Surjection(D, D)
  BY <1>2, <1>4, FS_Injection
<1> QED
  BY <1>1, <1>5 DEF Surjection

LEMMA SameSize == \A S : Ar!Lists!Cardinality(S) = Cardinality(S)
  BY DEF Ar!Lists!Cardinality, Cardinality, Ar!Lists!IsFiniteSet, IsFiniteSet

LEMMA SortIs ==
  ASSUME ItemsKept, Ar!av_sort, UNCHANGED items
  PROVE  Ar!Lists!Derive
<1>1. PICK n \in Nat : n = Len(items) /\ DOMAIN items = 1..n
  BY DEF ItemsKept
<1>2. UNCHANGED << Len(items), ListOf(items) >>
  BY DEF ListOf
<1>3. PICK order \in [1..n -> 1..n] :
        /\ \A j, k \in 1..n : j < k => order[j] # order[k] /\ ~Ar!Less(items[order[k]], items[order[j]])
        /\ answer' = [k \in 1..n |-> items[order[k]]]
  BY <1>1 DEF Ar!av_sort
<1>4. \A i \in 1..n : \E j \in 1..n : order[j] = i
  BY ZenonT(60), <1>3, OrderIsPermutation
<1>5. PICK list : list = answer' /\ DOMAIN list = 1..n /\ \A k \in 1..n : list[k] = items[order[k]]
  <2>1. PICK D : D = 1..n
    OBVIOUS
  <2>2. answer' = [k \in D |-> items[order[k]]]
    BY <1>3, <2>1
  <2>3. DOMAIN answer' = D /\ \A k \in D : answer'[k] = items[order[k]]
    BY <2>2
  <2> QED
    BY <2>1, <2>3
<1>6. PICK at : at = ListOf(items) /\ DOMAIN at = 0..n - 1 /\ \A j \in 0..n - 1 : at[j] = items[j + 1]
  <2>1. PICK D : D = 0..n - 1
    OBVIOUS
  <2>2. ListOf(items) = [j \in D |-> items[j + 1]]
    BY <1>1, <2>1 DEF ListOf
  <2>3. DOMAIN ListOf(items) = D /\ \A j \in D : ListOf(items)[j] = items[j + 1]
    BY <2>2
  <2> QED
    BY <2>1, <2>3
<1>7. ASSUME NEW v
      PROVE  Cardinality({j \in DOMAIN list : list[j] = v}) = Cardinality({j \in DOMAIN at : at[j] = v})
  <2> DEFINE S == {j \in 1..n : list[j] = v}
             T == {j \in 0..n - 1 : at[j] = v}
             f == [j \in S |-> order[j] - 1]
  <2>1. IsFiniteSet(S)
    <3>1. IsFiniteSet(1..n) /\ S \subseteq 1..n
      BY FS_Interval
    <3> QED
      BY <3>1, FS_Subset
  <2>2. ASSUME NEW j \in S PROVE f[j] \in T
    <3>1. order[j] \in 1..n /\ order[j] - 1 \in 0..n - 1 /\ (order[j] - 1) + 1 = order[j]
      BY <1>3
    <3>2. at[order[j] - 1] = items[order[j]] /\ list[j] = items[order[j]]
      BY <1>5, <1>6, <3>1
    <3> QED
      BY <3>1, <3>2
  <2>3. ASSUME NEW j \in S, NEW k \in S, f[j] = f[k] PROVE j = k
    <3>1. j \in 1..n /\ k \in 1..n /\ order[j] \in Int /\ order[k] \in Int
      BY <1>3
    <3>2. order[j] = order[k]
      BY <2>3, <3>1
    <3>3. ~(j < k) /\ ~(k < j)
      BY <1>3, <3>1, <3>2
    <3> QED
      BY <3>1, <3>3
  <2>4. ASSUME NEW i \in T PROVE \E j \in S : f[j] = i
    <3>1. i + 1 \in 1..n /\ (i + 1) - 1 = i
      OBVIOUS
    <3>2. PICK j \in 1..n : order[j] = i + 1
      BY <1>4, <3>1
    <3>3. j \in S
      BY <1>5, <1>6, <3>2
    <3> QED
      BY <3>1, <3>2, <3>3
  <2> HIDE DEF S, T
  <2>5. f \in [S -> T]
    BY <2>2
  <2> HIDE DEF f
  <2>6. f \in Bijection(S, T)
    BY <2>3, <2>4, <2>5 DEF Bijection, Injection, Surjection, IsInjective
  <2>7. Cardinality(T) = Cardinality(S)
    BY <2>1, <2>6, FS_Bijection DEF ExistsBijection
  <2> QED
    BY <1>5, <1>6, <2>7 DEF S, T
<1>8. \A j, k \in 1..n : j < k => ~Ar!Less(list[k], list[j])
  BY <1>3, <1>5
<1>9. Ar!Lists!IsSorted(list)
  <2>1. at = [j \in 0..Len(items) - 1 |-> items[j + 1]]
    BY <1>6 DEF ListOf
  <2> QED
    BY <1>1, <1>7, <1>8, <2>1, SameSize DEF Ar!Lists!IsSorted, Ar!Lists!Places
<1> QED
  BY <1>1, <1>2, <1>5, <1>9 DEF Ar!Lists!Derive, ListOf

LEMMA ListStep ==
  ASSUME Ar!ArraysAssumption, ItemsKept, Ar!Next
  PROVE  ItemsKept' /\ (Ar!Lists!Next \/ UNCHANGED Ar!Lists!lvars)
<1>0. items \in Seq(Nat) /\ MaxSize \in Nat
  BY DEF ItemsKept, Ar!ArraysAssumption
<1>1. ASSUME items' = items PROVE ItemsKept' /\ UNCHANGED << Len(items), ListOf(items) >>
  BY <1>1 DEF ItemsKept, ListOf
<1>2. ASSUME items' = items, answer' = answer PROVE UNCHANGED Ar!Lists!lvars
  BY <1>1, <1>2 DEF Ar!Lists!lvars, ListOf
<1>3. ASSUME items' = items, Ar!Lists!Derive PROVE Ar!Lists!Next
  BY <1>3 DEF Ar!Lists!Next
<1>4. CASE Ar!OP_SET_ITEM
  <2>1. PICK i \in Indexes, v \in Elements :
          i < MaxSize /\ answer' = answer /\ IF i < 0 THEN items' = items ELSE Ar!set_item(i, v)
    BY <1>4 DEF Ar!OP_SET_ITEM
  <2>2. CASE i < 0
    BY <1>1, <1>2, <2>1, <2>2
  <2>3. CASE ~(i < 0)
    <3>1. i \in Nat /\ i \in 0..MaxSize
      BY <1>0, <2>1, <2>3 DEF Ar!ArraysAssumption
    <3>2. ItemsKept' /\ Ar!Lists!Store(i, v)
      BY <2>1, <2>3, <3>1, Stores
    <3> QED
      BY <3>1, <3>2 DEF Ar!Lists!Next
  <2> QED
    BY <2>2, <2>3
<1>5. CASE Ar!av_push
  <2>1. PICK v \in Elements : Len(items) < MaxSize /\ answer' = answer /\ Ar!set_item(Len(items), v)
    BY <1>5 DEF Ar!av_push
  <2>2. PICK i \in Nat : i = Len(items) /\ i \in 0..MaxSize
    BY <1>0, <2>1
  <2>3. ItemsKept' /\ Ar!Lists!Store(i, v)
    BY <2>1, <2>2, Stores
  <2> QED
    BY <2>2, <2>3 DEF Ar!Lists!Next
<1>6. CASE Ar!OP_GET_ITEM
  <2>1. PICK i \in Indexes : Ar!get_item(i) /\ items' = items
    BY <1>6 DEF Ar!OP_GET_ITEM
  <2>2. i \in Int
    BY DEF Ar!ArraysAssumption
  <2>3. ItemsKept' /\ (answer' = answer \/ \E k \in 0..MaxSize : Ar!Lists!Fetch(k))
    BY <2>1, <2>2, Fetches
  <2> QED
    BY <1>2, <2>1, <2>3 DEF Ar!Lists!Next
<1>7. CASE Ar!av_pop
  <2>1. CASE items = << >>
    <3>1. items' = items /\ answer' = answer
      BY <1>7, <2>1 DEF Ar!av_pop
    <3> QED
      BY <1>1, <1>2, <3>1
  <2>2. CASE items # << >>
    <3>1. answer' = << Ar!Last(items) >> /\ items' = Ar!Front(items)
      BY <1>7, <2>2 DEF Ar!av_pop
    <3>2. ItemsKept' /\ Ar!Lists!TakeLast
      BY <2>2, <3>1, Pops
    <3> QED
      BY <3>2 DEF Ar!Lists!Next
  <2> QED
    BY <2>1, <2>2
<1>8. CASE Ar!av_shift
  <2>1. CASE items = << >>
    <3>1. items' = items /\ answer' = << 0 >>
      BY <1>8, <2>1 DEF Ar!av_shift, Ar!Undef
    <3>2. Len(items) = 0
      BY <2>1
    <3>3. Ar!Lists!Fetch(0)
      BY <1>1, <3>1, <3>2 DEF Ar!Lists!Fetch, Ar!Undef, ListOf
    <3> QED
      BY <1>1, <3>1, <3>2, <3>3 DEF Ar!Lists!Next
  <2>2. CASE items # << >>
    <3>1. answer' = << Head(items) >> /\ items' = Tail(items)
      BY <1>8, <2>2 DEF Ar!av_shift
    <3>2. ItemsKept' /\ Ar!Lists!TakeFirst
      BY <2>2, <3>1, Shifts
    <3> QED
      BY <3>2 DEF Ar!Lists!Next
  <2> QED
    BY <2>1, <2>2
<1>9. CASE Ar!av_unshift
  <2>1. PICK v \in Elements : Len(items) < MaxSize /\ answer' = answer /\ items' = << v >> \o items
    BY <1>9 DEF Ar!av_unshift
  <2>2. ItemsKept' /\ Ar!Lists!AddFirst(v)
    BY <2>1, Unshifts
  <2> QED
    BY <2>2 DEF Ar!Lists!Next
<1>10. CASE Ar!Derived
  <2>1. items' = items /\ (Ar!av_reverse \/ Ar!av_join \/ Ar!av_sort)
    BY <1>10 DEF Ar!Derived
  <2>2. Ar!Lists!Derive
    BY <2>1, Reverses, JoinIs, SortIs
  <2> QED
    BY <1>1, <1>3, <2>1, <2>2
<1>11. CASE Ar!Loop
  <2>1. items' = items /\ answer' = answer
    BY <1>11 DEF Ar!Loop, Ar!OP_ENTER_FOREACH, Ar!OP_FOR_ITER, Ar!EndForeach, Ar!av_map, Ar!Returned
  <2> QED
    BY <1>1, <1>2, <2>1
<1> QED
  BY <1>4, <1>5, <1>6, <1>7, <1>8, <1>9, <1>10, <1>11 DEF Ar!Next, Ar!Method

THEOREM ArrayIsListCorrect == PartsSpec => ArrayIsList
<1> USE PartsAssumption
<1>1. PartsInit => ItemsKept /\ Ar!Lists!Init
  BY ListInit DEF PartsInit
<1>2. ItemsKept /\ [PartsNext]_<< part, vars, stringVars, arrayVars, hashVars >>
        => ItemsKept' /\ [part = "arrays" /\ Ar!Lists!Next]_Ar!Lists!lvars
  <2> SUFFICES ASSUME ItemsKept, [PartsNext]_<< part, vars, stringVars, arrayVars, hashVars >>
               PROVE  ItemsKept' /\ [part = "arrays" /\ Ar!Lists!Next]_Ar!Lists!lvars
    OBVIOUS
  <2>1. CASE ArraysStep
    BY <2>1, ListStep DEF ArraysStep
  <2>2. CASE UNCHANGED arrayVars
    BY <2>2 DEF arrayVars, ItemsKept, Ar!Lists!lvars
  <2>3. ArraysStep \/ UNCHANGED arrayVars
    BY DEF PartsNext, BuiltinsStep, StringsStep, HashesStep
  <2> QED
    BY <2>1, <2>2, <2>3
<1> QED
  BY <1>1, <1>2, PTL DEF PartsSpec, ArrayIsList

-----------------------------------------------------------------------------
(* The loops over an array. *)

ArrayLoop == [kind : {"foreach", "map", "grep"}, at : Nat, valid : BOOLEAN, seen : Seq(Nat), kept : Seq(Nat),
              ahead : BOOLEAN]

\* What a foreach has given out, when nothing was changed behind its count.
CountKept(f, s) == f.ahead => f.at <= Len(s) /\ Len(f.seen) = f.at /\ \A j \in 1..f.at : f.seen[j] = s[j]

\* What map or grep has walked over ends with the elements up to its own.
PlaceKept(f, s) ==
  /\ f.valid /\ f.at \in 1..Len(s) /\ f.at <= Len(f.seen)
  /\ \A j \in 1..f.at : s[j] = f.seen[Len(f.seen) - f.at + j]
  /\ IF f.kind = "map" THEN Len(f.kept) = Len(f.seen) - 1 /\ \A j \in 1..Len(f.seen) - 1 : f.kept[j] = f.seen[j]
     ELSE Len(f.kept) < Len(f.seen)

LoopKept(f, s) == f \in ArrayLoop /\ IF Ar!Walks(f) THEN PlaceKept(f, s) ELSE CountKept(f, s)

LEMMA WalkOn ==
  ASSUME NEW s \in Seq(Nat), NEW t \in Seq(Nat), NEW f, LoopKept(f, s), NEW k \in 1..Len(s),
         Len(t) = Len(s) - 1, \A j \in 1..Len(s) - 1 : t[j] = IF j < k THEN s[j] ELSE s[j + 1],
         Ar!Walks(f), k = 1 \/ k = Len(s), f.at # k
  PROVE  LoopKept(Ar!Removed(f, k, Len(s)), t)
<1>1. f \in ArrayLoop /\ PlaceKept(f, s) /\ f.kind # "foreach"
  BY DEF LoopKept, Ar!Walks
<1>2. PICK n \in Nat : n = Len(s) /\ k \in 1..n /\ k \in Nat
  OBVIOUS
<1>3. PICK a \in Nat : a = f.at /\ a \in 1..n /\ a # k /\ a <= Len(f.seen)
  BY <1>1, <1>2 DEF ArrayLoop, PlaceKept
<1>4. PICK m \in Nat : m = Len(f.seen) /\ a <= m
  BY <1>1, <1>3 DEF ArrayLoop
<1>5. PICK g : g = Ar!Removed(f, k, Len(s))
  OBVIOUS
<1>6. PICK b \in Nat : b = IF k < a THEN a - 1 ELSE a
  <2>1. (IF k < a THEN a - 1 ELSE a) \in Nat
    BY <1>2, <1>3
  <2> QED
    BY <2>1
<1>7. g = [f EXCEPT !.valid = f.valid /\ k \in {1, n} /\ k # a, !.at = b]
  BY <1>1, <1>2, <1>3, <1>5, <1>6 DEF Ar!Removed, Ar!Walks
<1>8. f.valid /\ (f.valid /\ k \in {1, n} /\ k # a) = TRUE
  BY <1>1, <1>2, <1>3 DEF PlaceKept
<1>9. /\ g \in ArrayLoop /\ g.kind = f.kind /\ g.valid /\ g.at = b /\ g.seen = f.seen /\ g.kept = f.kept
  BY <1>1, <1>7, <1>8 DEF ArrayLoop
<1>10. b \in 1..n - 1 /\ b <= m
  <2>1. a \in Nat /\ a >= 1 /\ a <= n /\ k >= 1 /\ k <= n /\ a # k
    BY <1>2, <1>3
  <2>2. CASE k < a
    BY <1>2, <1>4, <1>6, <2>1, <2>2
  <2>3. CASE ~(k < a)
    BY <1>2, <1>4, <1>6, <2>1, <2>3
  <2> QED
    BY <2>2, <2>3
<1>11. ASSUME NEW j \in 1..b PROVE t[j] = f.seen[m - b + j]
  <2>1. CASE k < a
    <3>1. k = 1 /\ b = a - 1
      BY <1>2, <1>3, <1>6, <2>1
    <3>2. j + 1 \in 1..a /\ j \in 1..n - 1 /\ ~(j < k) /\ m - a + (j + 1) = m - b + j
      <4>1. j \in Nat /\ j >= 1 /\ j <= a - 1 /\ a - 1 <= n - 1 /\ a \in Nat /\ m \in Nat /\ n \in Nat
        BY <1>3, <1>10, <3>1
      <4> QED
        BY <3>1, <4>1
    <3>3. PICK i \in 1..a : i = j + 1
      BY <3>2
    <3>4. s[i] = f.seen[m - a + i]
      BY <1>1, <1>3, <1>4 DEF PlaceKept
    <3>5. t[j] = s[j + 1]
      BY <1>2, <3>2
    <3> QED
      BY <3>2, <3>3, <3>4, <3>5
  <2>2. CASE ~(k < a)
    <3>1. k = n /\ b = a
      BY <1>2, <1>3, <1>6, <2>2
    <3>2. j \in 1..a /\ j \in 1..n - 1 /\ j < k
      BY SMTT(40), <1>3, <1>10, <3>1
    <3>4. s[j] = f.seen[m - a + j]
      BY <1>1, <1>3, <1>4, <3>2 DEF PlaceKept
    <3>5. t[j] = s[j]
      BY <1>2, <3>2
    <3> QED
      BY <3>1, <3>4, <3>5
  <2> QED
    BY <2>1, <2>2
<1>12. b \in 1..Len(t)
  BY <1>2, <1>10
<1>13. PlaceKept(g, t)
  BY <1>1, <1>4, <1>9, <1>10, <1>11, <1>12 DEF PlaceKept
<1> QED
  BY <1>1, <1>5, <1>9, <1>13 DEF LoopKept, Ar!Walks

LEMMA CountOn ==
  ASSUME NEW s \in Seq(Nat), NEW t \in Seq(Nat), NEW f, LoopKept(f, s), NEW k \in 1..Len(s),
         Len(t) = Len(s) - 1, \A j \in 1..Len(s) - 1 : t[j] = IF j < k THEN s[j] ELSE s[j + 1],
         ~Ar!Walks(f)
  PROVE  LoopKept(Ar!Removed(f, k, Len(s)), t)
<1>1. f \in ArrayLoop /\ CountKept(f, s)
  BY DEF LoopKept
<1>2. PICK n \in Nat : n = Len(s) /\ k \in 1..n /\ k \in Nat
  OBVIOUS
<1>3. PICK g : g = Ar!Removed(f, k, Len(s))
  OBVIOUS
<1>4. g = [f EXCEPT !.ahead = f.ahead /\ k > f.at]
  BY <1>3 DEF Ar!Removed
<1>5. f.ahead \in BOOLEAN /\ (f.ahead /\ k > f.at) \in BOOLEAN /\ f.at \in Nat
  BY <1>1, <1>2 DEF ArrayLoop
<1>6. /\ g \in ArrayLoop /\ g.kind = f.kind /\ g.at = f.at /\ g.seen = f.seen
      /\ g.ahead => f.ahead /\ k > f.at
  BY <1>1, <1>4, <1>5 DEF ArrayLoop
<1>7. ASSUME g.ahead PROVE g.at <= Len(t) /\ Len(g.seen) = g.at /\ \A j \in 1..g.at : g.seen[j] = t[j]
  <2>1. /\ f.ahead /\ k > f.at /\ f.at <= n /\ Len(f.seen) = f.at
        /\ \A j \in 1..f.at : f.seen[j] = s[j]
    BY <1>1, <1>2, <1>6, <1>7 DEF CountKept
  <2>2. f.at <= Len(t)
    BY <1>2, <1>5, <2>1
  <2>3. ASSUME NEW j \in 1..f.at PROVE f.seen[j] = t[j]
    <3>1. j < k /\ j \in 1..Len(s) - 1
      BY <1>2, <1>5, <2>1
    <3> QED
      BY <2>1, <3>1
  <2> QED
    BY <1>6, <2>1, <2>2, <2>3
<1>8. ~Ar!Walks(g)
  BY <1>6 DEF Ar!Walks
<1>9. CountKept(g, t)
  BY <1>7 DEF CountKept
<1> QED
  BY <1>3, <1>6, <1>8, <1>9 DEF LoopKept

LEMMA InsertedOn ==
  ASSUME NEW s \in Seq(Nat), NEW t \in Seq(Nat), NEW f, LoopKept(f, s), NEW k \in Nat,
         Len(t) >= Len(s), \A j \in 1..Len(s) : j < k => t[j] = s[j], ~Ar!Walks(f)
  PROVE  LoopKept(Ar!Inserted(f, k), t)
<1>1. f \in ArrayLoop /\ CountKept(f, s)
  BY DEF LoopKept
<1>3. PICK g : g = Ar!Inserted(f, k)
  OBVIOUS
<1>4. g = [f EXCEPT !.ahead = f.ahead /\ k > f.at]
  BY <1>3 DEF Ar!Inserted
<1>5. f.ahead \in BOOLEAN /\ (f.ahead /\ k > f.at) \in BOOLEAN /\ f.at \in Nat
  BY <1>1 DEF ArrayLoop
<1>6. /\ g \in ArrayLoop /\ g.kind = f.kind /\ g.at = f.at /\ g.seen = f.seen
      /\ g.ahead => f.ahead /\ k > f.at
  BY <1>1, <1>4, <1>5 DEF ArrayLoop
<1>7. ASSUME g.ahead PROVE g.at <= Len(t) /\ Len(g.seen) = g.at /\ \A j \in 1..g.at : g.seen[j] = t[j]
  <2>1. /\ f.ahead /\ k > f.at /\ f.at <= Len(s) /\ Len(f.seen) = f.at
        /\ \A j \in 1..f.at : f.seen[j] = s[j]
    BY <1>1, <1>6, <1>7 DEF CountKept
  <2>2. f.at <= Len(t)
    BY <1>5, <2>1
  <2>3. ASSUME NEW j \in 1..f.at PROVE f.seen[j] = t[j]
    <3>1. j < k /\ j \in 1..Len(s)
      BY <1>5, <2>1
    <3> QED
      BY <2>1, <3>1
  <2> QED
    BY <1>6, <2>1, <2>2, <2>3
<1> QED
  BY <1>3, <1>6, <1>7 DEF LoopKept, CountKept, Ar!Walks

LEMMA Turned ==
  ASSUME NEW s \in Seq(Nat), NEW n \in Nat, n = Len(s)
  PROVE  Ar!Reverse(s) \in Seq(Nat) /\ Len(Ar!Reverse(s)) = n /\ \A i \in 1..n : Ar!Reverse(s)[i] = s[(n - i) + 1]
<1>1. \A i \in 1..n : s[(n - i) + 1] \in Nat
  <2> TAKE i \in 1..n
  <2>1. PICK j \in 1..n : j = (n - i) + 1
    <3>1. (n - i) + 1 \in 1..n
      OBVIOUS
    <3> QED
      BY <3>1
  <2> QED
    BY <2>1
<1>2. Ar!Reverse(s) = [i \in 1..n |-> s[(n - i) + 1]]
  BY DEF Ar!Reverse
<1> QED
  BY <1>1, <1>2

LEMMA EndsWith ==
  ASSUME NEW s \in Seq(Nat), NEW t \in Seq(Nat), Len(s) <= Len(t),
         \A j \in 1..Len(s) : s[j] = t[Len(t) - Len(s) + j]
  PROVE  Ar!IsSuffix(s, t)
<1>1. PICK a \in Nat : a = Len(s)
  OBVIOUS
<1>2. PICK m \in Nat : m = Len(t) /\ a <= m
  BY <1>1
<1>3. PICK u \in Seq(Nat) : u = Ar!Reverse(s) /\ Len(u) = a /\ \A i \in 1..a : u[i] = s[(a - i) + 1]
  BY <1>1, Turned
<1>4. PICK w \in Seq(Nat) : w = Ar!Reverse(t) /\ Len(w) = m /\ \A i \in 1..m : w[i] = t[(m - i) + 1]
  BY <1>2, Turned
<1>5. ASSUME NEW i \in 1..a PROVE u[i] = w[i]
  <2>1. i \in 1..m /\ (a - i) + 1 \in 1..a /\ m - a + ((a - i) + 1) = (m - i) + 1
    BY <1>2
  <2>2. PICK j \in 1..a : j = (a - i) + 1
    BY <2>1
  <2>3. s[j] = t[m - a + j]
    BY <1>1, <1>2
  <2> QED
    BY <1>3, <1>4, <2>1, <2>2, <2>3
<1>6. SubSeq(u, 1, a) = SubSeq(w, 1, a)
  <2>1. SubSeq(u, 1, a) \in Seq(Nat) /\ Len(SubSeq(u, 1, a)) = a /\ \A i \in 1..a : SubSeq(u, 1, a)[i] = u[i]
    BY <1>3
  <2>2. SubSeq(w, 1, a) \in Seq(Nat) /\ Len(SubSeq(w, 1, a)) = a /\ \A i \in 1..a : SubSeq(w, 1, a)[i] = w[i]
    BY <1>2, <1>4
  <2>3. \A i \in 1..a : SubSeq(u, 1, a)[i] = SubSeq(w, 1, a)[i]
    BY <1>5, <2>1, <2>2
  <2> QED
    BY <2>1, <2>2, <2>3, SameItems
<1>7. Len(u) = a /\ Len(u) <= Len(w)
  BY <1>2, <1>3, <1>4
<1> QED
  BY <1>3, <1>4, <1>6, <1>7 DEF Ar!IsSuffix, Ar!IsPrefix

LoopsKept ==
  /\ items \in Seq(Nat) /\ array_loops \in Seq(ArrayLoop)
  /\ \A i \in 1..Len(array_loops) : LoopKept(array_loops[i], items)

\* What LoopsInOrder asks of a step, when loops that end are at their end.
LEMMA LoopsAtEnd ==
  ASSUME LoopsKept,
         \A i \in 1..Len(array_loops) :
           i \notin DOMAIN array_loops' /\ (Ar!Walks(array_loops[i]) \/ array_loops[i].ahead)
             => array_loops[i].at = Len(items)
  PROVE  Ar!ForeachStep /\ Ar!WalkStep
<1>0. DOMAIN array_loops = 1..Len(array_loops) /\ items \in Seq(Nat)
  BY DEF LoopsKept
<1>1. ASSUME NEW k \in DOMAIN array_loops, array_loops[k].kind = "foreach" /\ array_loops[k].ahead
      PROVE  /\ array_loops[k].seen = SubSeq(items, 1, array_loops[k].at)
             /\ k \notin DOMAIN array_loops' => array_loops[k].at = Len(items)
  <2>1. PICK f \in ArrayLoop : f = array_loops[k] /\ LoopKept(f, items)
    BY <1>0 DEF LoopsKept, LoopKept
  <2>2. f.at \in Nat /\ f.seen \in Seq(Nat) /\ f.at <= Len(items) /\ Len(f.seen) = f.at /\ \A j \in 1..f.at : f.seen[j] = items[j]
    BY <1>1, <2>1 DEF LoopKept, CountKept, Ar!Walks, ArrayLoop
  <2>3. PICK a \in Nat : a = f.at
    BY <2>2
  <2>4. SubSeq(items, 1, a) \in Seq(Nat) /\ Len(SubSeq(items, 1, a)) = a /\ \A j \in 1..a : SubSeq(items, 1, a)[j] = items[j]
    BY <1>0, <2>2, <2>3
  <2>5. f.seen = SubSeq(items, 1, a)
    BY <2>2, <2>3, <2>4, SameItems
  <2> QED
    BY <1>0, <1>1, <2>1, <2>3, <2>5
<1>2. ASSUME NEW k \in DOMAIN array_loops, Ar!Walks(array_loops[k]), NEW f, f = array_loops[k]
      PROVE  /\ f.valid /\ items[f.at] = Ar!Last(f.seen)
             /\ Ar!IsSuffix(SubSeq(items, 1, f.at), f.seen)
             /\ IF f.kind = "map" THEN f.kept = Ar!Front(f.seen) ELSE Len(f.kept) < Len(f.seen)
             /\ k \notin DOMAIN array_loops' => f.at = Len(items)
  <2>1. f \in ArrayLoop /\ PlaceKept(f, items)
    BY <1>0, <1>2 DEF LoopsKept, LoopKept
  <2>2. PICK a \in Nat : a = f.at /\ a \in 1..Len(items)
    BY <2>1 DEF ArrayLoop, PlaceKept
  <2>3. PICK m \in Nat : m = Len(f.seen) /\ a <= m /\ f.seen \in Seq(Nat) /\ f.kept \in Seq(Nat)
    BY <2>1, <2>2 DEF ArrayLoop, PlaceKept
  <2>4. \A j \in 1..a : items[j] = f.seen[m - a + j]
    BY <2>1, <2>2, <2>3 DEF PlaceKept
  <2>5. items[a] = f.seen[m]
    <3>1. a \in 1..a /\ m - a + a = m
      BY <2>2, <2>3
    <3> QED
      BY <2>4, <3>1
  <2>6. SubSeq(items, 1, a) \in Seq(Nat) /\ Len(SubSeq(items, 1, a)) = a /\ \A j \in 1..a : SubSeq(items, 1, a)[j] = items[j]
    BY <1>0, <2>2
  <2>7. Ar!IsSuffix(SubSeq(items, 1, a), f.seen)
    <3>1. \A j \in 1..a : SubSeq(items, 1, a)[j] = f.seen[m - a + j]
      BY <2>4, <2>6
    <3>2. PICK u \in Seq(Nat) : u = SubSeq(items, 1, a) /\ Len(u) = a
      BY <2>6
    <3>3. \A j \in 1..Len(u) : u[j] = f.seen[Len(f.seen) - Len(u) + j]
      BY <2>3, <3>1, <3>2
    <3>4. Len(u) <= Len(f.seen)
      BY <2>3, <3>2
    <3> QED
      BY <2>3, <3>2, <3>3, <3>4, EndsWith
  <2>8. f.kind = "map" => f.kept = Ar!Front(f.seen)
    <3> SUFFICES ASSUME f.kind = "map" PROVE f.kept = Ar!Front(f.seen)
      OBVIOUS
    <3>1. Len(f.kept) = m - 1 /\ \A j \in 1..m - 1 : f.kept[j] = f.seen[j]
      BY <2>1, <2>3 DEF PlaceKept
    <3>2. m >= 1
      BY <2>2, <2>3
    <3>3. /\ SubSeq(f.seen, 1, m - 1) \in Seq(Nat) /\ Len(SubSeq(f.seen, 1, m - 1)) = m - 1
          /\ \A j \in 1..m - 1 : SubSeq(f.seen, 1, m - 1)[j] = f.seen[j]
      BY <2>3, <3>2
    <3>4. f.kept = SubSeq(f.seen, 1, m - 1)
      BY <2>3, <3>1, <3>3, SameItems
    <3> QED
      BY <2>3, <3>4 DEF Ar!Front
  <2>9. f.valid /\ (f.kind # "map" => Len(f.kept) < Len(f.seen))
    BY <2>1 DEF PlaceKept
  <2>10. k \notin DOMAIN array_loops' => f.at = Len(items)
    BY <1>0, <1>2
  <2> QED
    BY <2>2, <2>3, <2>5, <2>7, <2>8, <2>9, <2>10 DEF Ar!Last
<1>3. Ar!ForeachStep
  BY <1>1 DEF Ar!ForeachStep
<1>4. Ar!WalkStep
  BY <1>2 DEF Ar!WalkStep
<1> QED
  BY <1>3, <1>4

LoopsFine == LoopsKept' /\ Ar!ForeachStep /\ Ar!WalkStep

\* The loops stay, each as its place asks.
LEMMA LoopsStay ==
  ASSUME LoopsKept, items' \in Seq(Nat), array_loops' = [i \in DOMAIN array_loops |-> array_loops'[i]],
         \A i \in 1..Len(array_loops) : LoopKept(array_loops'[i], items')
  PROVE  LoopsFine
<1>1. PICK n \in Nat : n = Len(array_loops) /\ DOMAIN array_loops = 1..n
  BY SMTT(40) DEF LoopsKept
<1>2. \A i \in 1..n : array_loops'[i] \in ArrayLoop
  BY <1>1 DEF LoopKept
<1>3. array_loops' \in Seq(ArrayLoop) /\ Len(array_loops') = n /\ DOMAIN array_loops' = 1..n
  <2>1. PICK g : g = array_loops' /\ g = [i \in 1..n |-> array_loops'[i]]
    BY <1>1
  <2>2. g \in [1..n -> ArrayLoop]
    BY <1>2, <2>1
  <2> QED
    BY <2>1, <2>2
<1>4. LoopsKept'
  BY <1>1, <1>3 DEF LoopsKept
<1> QED
  BY <1>1, <1>3, <1>4, LoopsAtEnd DEF LoopsFine

LEMMA LoopsBegin ==
  ASSUME LoopsKept, items' = items, NEW f, LoopKept(f, items), array_loops' = Append(array_loops, f)
  PROVE  LoopsFine
<1>1. PICK n \in Nat : n = Len(array_loops) /\ DOMAIN array_loops = 1..n /\ array_loops \in Seq(ArrayLoop)
  BY DEF LoopsKept
<1>2. f \in ArrayLoop
  BY DEF LoopKept
<1>3. /\ array_loops' \in Seq(ArrayLoop) /\ Len(array_loops') = n + 1 /\ DOMAIN array_loops' = 1..n + 1
      /\ array_loops'[n + 1] = f /\ \A i \in 1..n : array_loops'[i] = array_loops[i]
  BY <1>1, <1>2
<1>4. ASSUME NEW i \in 1..n + 1 PROVE LoopKept(array_loops'[i], items')
  <2>1. i \in 1..n \/ i = n + 1
    BY <1>1
  <2>2. ASSUME i \in 1..n PROVE LoopKept(array_loops'[i], items')
    BY <1>1, <1>3, <2>2 DEF LoopsKept
  <2> QED
    BY <1>3, <2>1, <2>2
<1>5. LoopsKept'
  BY <1>3, <1>4 DEF LoopsKept
<1>6. \A i \in 1..n : i \in DOMAIN array_loops'
  BY <1>1, <1>3
<1> QED
  BY <1>1, <1>5, <1>6, LoopsAtEnd DEF LoopsFine

LEMMA LoopsTurn ==
  ASSUME LoopsKept, items' = items, array_loops # << >>, NEW g, LoopKept(g, items),
         array_loops' = [array_loops EXCEPT ![Len(array_loops)] = g]
  PROVE  LoopsFine
<1>1. PICK n \in Nat : n = Len(array_loops) /\ DOMAIN array_loops = 1..n /\ array_loops \in Seq(ArrayLoop) /\ n \in 1..n
  BY DEF LoopsKept
<1>3. DOMAIN array_loops' = 1..n /\ array_loops'[n] = g /\ \A i \in 1..n : i # n => array_loops'[i] = array_loops[i]
  BY <1>1
<1>4. array_loops' = [i \in DOMAIN array_loops |-> array_loops'[i]]
  BY <1>1
<1>5. ASSUME NEW i \in 1..n PROVE LoopKept(array_loops'[i], items')
  <2>1. CASE i = n
    BY <1>3, <2>1
  <2>2. CASE i # n
    BY <1>1, <1>3, <2>2 DEF LoopsKept
  <2> QED
    BY <2>1, <2>2
<1>6. items' \in Seq(Nat)
  BY DEF LoopsKept
<1> QED
  BY <1>1, <1>4, <1>5, <1>6, LoopsStay

LEMMA LoopsEnd ==
  ASSUME LoopsKept, items' = items, array_loops # << >>, array_loops' = Ar!Front(array_loops),
         Ar!Walks(array_loops[Len(array_loops)]) \/ array_loops[Len(array_loops)].ahead
           => array_loops[Len(array_loops)].at = Len(items)
  PROVE  LoopsFine
<1>1. PICK n \in Nat : n = Len(array_loops) /\ DOMAIN array_loops = 1..n /\ array_loops \in Seq(ArrayLoop) /\ n \in 1..n
  BY DEF LoopsKept
<1>2. array_loops' = SubSeq(array_loops, 1, n - 1)
  BY <1>1 DEF Ar!Front
<1>3. /\ array_loops' \in Seq(ArrayLoop) /\ Len(array_loops') = n - 1 /\ DOMAIN array_loops' = 1..n - 1
      /\ \A i \in 1..n - 1 : array_loops'[i] = array_loops[i]
  BY <1>1, <1>2
<1>4. ASSUME NEW i \in 1..n - 1 PROVE LoopKept(array_loops'[i], items')
  <2>1. i \in 1..n
    BY <1>1
  <2> QED
    BY <1>1, <1>3, <2>1 DEF LoopsKept
<1>5. LoopsKept'
  BY <1>3, <1>4 DEF LoopsKept
<1>6. \A i \in 1..n : i \notin DOMAIN array_loops' => i = n
  BY <1>1, <1>3
<1> QED
  BY <1>1, <1>5, <1>6, LoopsAtEnd DEF LoopsFine

\* No map or grep is under way when the array is changed in a way that callbacks do not change it.
LEMMA NoneWalks ==
  ASSUME MapChanges \subseteq {"pop", "shift"}, NEW c, c \notin {"pop", "shift"}, Ar!MayChange(c), LoopsKept,
         NEW i \in 1..Len(array_loops)
  PROVE  ~Ar!Walks(array_loops[i])
<1>1. i \in DOMAIN array_loops
  BY DEF LoopsKept
<1> QED
  BY <1>1 DEF Ar!MayChange

LEMMA LoopsRemoved ==
  ASSUME LoopsKept, NEW k \in 1..Len(items), items' \in Seq(Nat), Len(items') = Len(items) - 1,
         \A j \in 1..Len(items) - 1 : items'[j] = IF j < k THEN items[j] ELSE items[j + 1],
         k = 1 \/ k = Len(items), Ar!Elsewhere(k),
         array_loops' = [i \in DOMAIN array_loops |-> Ar!Removed(array_loops[i], k, Len(items))]
  PROVE  LoopsFine
<1>1. DOMAIN array_loops = 1..Len(array_loops) /\ items \in Seq(Nat)
  BY DEF LoopsKept
<1>2. ASSUME NEW i \in 1..Len(array_loops) PROVE LoopKept(array_loops'[i], items')
  <2>1. PICK f : f = array_loops[i] /\ LoopKept(f, items)
    BY DEF LoopsKept
  <2>2. array_loops'[i] = Ar!Removed(f, k, Len(items))
    BY <1>1, <2>1
  <2>3. PICK t \in Seq(Nat) : t = items'
    OBVIOUS
  <2>4. CASE Ar!Walks(f)
    <3>1. f.at # k
      BY <1>1, <2>1, <2>4 DEF Ar!Elsewhere
    <3>2. LoopKept(Ar!Removed(f, k, Len(items)), t)
      BY <1>1, <2>1, <2>3, <2>4, <3>1, WalkOn
    <3> QED
      BY <2>2, <2>3, <3>2
  <2>5. CASE ~Ar!Walks(f)
    <3>2. LoopKept(Ar!Removed(f, k, Len(items)), t)
      BY <1>1, <2>1, <2>3, <2>5, CountOn
    <3> QED
      BY <2>2, <2>3, <3>2
  <2> QED
    BY <2>4, <2>5
<1>3. array_loops' = [i \in DOMAIN array_loops |-> array_loops'[i]]
  OBVIOUS
<1> QED
  BY <1>2, <1>3, LoopsStay

LEMMA LoopsInserted ==
  ASSUME LoopsKept, NEW k \in Nat, items' \in Seq(Nat), Len(items') >= Len(items),
         \A j \in 1..Len(items) : j < k => items'[j] = items[j],
         \A i \in 1..Len(array_loops) : ~Ar!Walks(array_loops[i]),
         array_loops' = [i \in DOMAIN array_loops |-> Ar!Inserted(array_loops[i], k)]
  PROVE  LoopsFine
<1>1. DOMAIN array_loops = 1..Len(array_loops) /\ items \in Seq(Nat)
  BY DEF LoopsKept
<1>2. ASSUME NEW i \in 1..Len(array_loops) PROVE LoopKept(array_loops'[i], items')
  <2>1. PICK f : f = array_loops[i] /\ LoopKept(f, items) /\ ~Ar!Walks(f)
    BY DEF LoopsKept
  <2>2. array_loops'[i] = Ar!Inserted(f, k)
    BY <1>1, <2>1
  <2>3. PICK t \in Seq(Nat) : t = items'
    OBVIOUS
  <2>4. LoopKept(Ar!Inserted(f, k), t)
    BY <1>1, <2>1, <2>3, InsertedOn
  <2> QED
    BY <2>2, <2>3, <2>4
<1>3. array_loops' = [i \in DOMAIN array_loops |-> array_loops'[i]]
  OBVIOUS
<1> QED
  BY <1>2, <1>3, LoopsStay

\* ArrayValue::set_item inside the array removes an element and inserts another.
LEMMA LoopsReplaced ==
  ASSUME LoopsKept, NEW k \in 1..Len(items), items' \in Seq(Nat), Len(items') = Len(items),
         \A j \in 1..Len(items) : j # k => items'[j] = items[j],
         \A i \in 1..Len(array_loops) : ~Ar!Walks(array_loops[i]),
         array_loops' = [i \in DOMAIN array_loops |-> Ar!Inserted(Ar!Removed(array_loops[i], k, Len(items)), k)]
  PROVE  LoopsFine
<1>1. DOMAIN array_loops = 1..Len(array_loops) /\ items \in Seq(Nat)
  BY DEF LoopsKept
<1>4. PICK u \in Seq(Nat) : /\ u = Ar!RemoveAt(items, k) /\ Len(u) = Len(items) - 1
                            /\ \A j \in 1..Len(items) - 1 : u[j] = IF j < k THEN items[j] ELSE items[j + 1]
  BY <1>1, RemoveIs
<1>5. PICK t \in Seq(Nat) : t = items'
  OBVIOUS
<1>6. Len(t) >= Len(u) /\ k \in Nat
  BY <1>1, <1>4, <1>5
<1>7. \A j \in 1..Len(u) : j < k => t[j] = u[j]
  <2> SUFFICES ASSUME NEW j \in 1..Len(u), j < k PROVE t[j] = u[j]
    OBVIOUS
  <2>1. j \in 1..Len(items) - 1 /\ j \in 1..Len(items) /\ j # k
    BY <1>1, <1>4
  <2> QED
    BY <1>4, <1>5, <2>1
<1>2. ASSUME NEW i \in 1..Len(array_loops) PROVE LoopKept(array_loops'[i], items')
  <2>1. PICK f : f = array_loops[i] /\ LoopKept(f, items) /\ ~Ar!Walks(f)
    BY DEF LoopsKept
  <2>2. PICK g : g = Ar!Removed(f, k, Len(items))
    OBVIOUS
  <2>3. LoopKept(g, u)
    BY <1>1, <1>4, <2>1, <2>2, CountOn
  <2>4. ~Ar!Walks(g)
    <3>1. g = [f EXCEPT !.ahead = f.ahead /\ k > f.at] /\ f \in ArrayLoop
      BY <2>1, <2>2 DEF Ar!Removed, LoopKept
    <3>2. g.kind = f.kind
      BY <3>1 DEF ArrayLoop
    <3> QED
      BY <2>1, <3>2 DEF Ar!Walks
  <2>5. LoopKept(Ar!Inserted(g, k), t)
    BY <1>6, <1>7, <2>3, <2>4, InsertedOn
  <2>6. array_loops'[i] = Ar!Inserted(g, k)
    BY <1>1, <2>1, <2>2
  <2> QED
    BY <1>5, <2>5, <2>6
<1>3. array_loops' = [i \in DOMAIN array_loops |-> array_loops'[i]]
  OBVIOUS
<1> QED
  BY <1>2, <1>3, LoopsStay

LEMMA LoopsStored ==
  ASSUME LoopsKept, NEW i \in Nat, NEW v \in Nat, Ar!set_item(i, v),
         \A j \in 1..Len(array_loops) : ~Ar!Walks(array_loops[j])
  PROVE  LoopsFine
<1>1. PICK n \in Nat : n = Len(items) /\ items \in Seq(Nat)
  BY DEF LoopsKept
<1>2. /\ items' \in Seq(Nat) /\ Len(items') = (IF i < n THEN n ELSE i + 1)
      /\ \A j \in 1..Len(items') : items'[j] = IF j = i + 1 THEN v ELSE IF j <= n THEN items[j] ELSE 0
  BY <1>1, SetItemIs
<1>3. CASE i < n
  <2>1. array_loops' = [j \in DOMAIN array_loops |-> Ar!Inserted(Ar!Removed(array_loops[j], i + 1, n), i + 1)]
    BY <1>1, <1>3 DEF Ar!set_item, Ar!AllLoops
  <2>2. PICK k \in 1..n : k = i + 1
    <3>1. i + 1 \in 1..n
      BY <1>3
    <3> QED
      BY <3>1
  <2>3. array_loops' = [j \in DOMAIN array_loops |-> Ar!Inserted(Ar!Removed(array_loops[j], k, n), k)]
    BY <2>1, <2>2
  <2>4. ASSUME NEW j \in 1..n, j # k PROVE items'[j] = items[j]
    BY <1>2, <1>3, <2>2, <2>4
  <2> QED
    BY <1>1, <1>2, <1>3, <2>2, <2>3, <2>4, LoopsReplaced
<1>4. CASE ~(i < n)
  <2>1. array_loops' = [j \in DOMAIN array_loops |-> Ar!Inserted(array_loops[j], n + 1)]
    BY <1>1, <1>4 DEF Ar!set_item, Ar!AllLoops
  <2>2. PICK k \in Nat : k = n + 1
    BY <1>1
  <2>3. array_loops' = [j \in DOMAIN array_loops |-> Ar!Inserted(array_loops[j], k)]
    BY <2>1, <2>2
  <2>4. ASSUME NEW j \in 1..n PROVE items'[j] = items[j]
    <3>1. j \in 1..Len(items') /\ j # i + 1 /\ j <= n
      BY <1>2, <1>4
    <3> QED
      BY <1>2, <3>1
  <2>5. Len(items') >= n
    BY <1>2, <1>4
  <2> QED
    BY <1>1, <1>2, <2>2, <2>3, <2>4, <2>5, LoopsInserted
<1> QED
  BY <1>3, <1>4

LEMMA LastLoop ==
  ASSUME LoopsKept, array_loops # << >>
  PROVE  \E f \in ArrayLoop : f = array_loops[Len(array_loops)] /\ f = Ar!Last(array_loops) /\ LoopKept(f, items)
<1>1. Len(array_loops) \in 1..Len(array_loops)
  BY DEF LoopsKept
<1>2. LoopKept(array_loops[Len(array_loops)], items)
  BY <1>1 DEF LoopsKept
<1> QED
  BY <1>2 DEF LoopKept, Ar!Last

\* OP_FOR_ITER on an array: the next element is given out.
LEMMA GivesNext ==
  ASSUME NEW s \in Seq(Nat), NEW f, LoopKept(f, s), ~Ar!Walks(f), f.at < Len(s),
         NEW g, g = [f EXCEPT !.at = f.at + 1, !.seen = Append(f.seen, s[f.at + 1])]
  PROVE  LoopKept(g, s)
<1>1. f \in ArrayLoop /\ CountKept(f, s)
  BY DEF LoopKept
<1>2. PICK a \in Nat : a = f.at /\ a < Len(s)
  BY <1>1 DEF ArrayLoop
<1>3. PICK e \in Nat : e = s[a + 1]
  <2>1. a + 1 \in 1..Len(s)
    BY <1>2
  <2> QED
    BY <2>1
<1>4. PICK z \in Seq(Nat) : z = f.seen
  BY <1>1 DEF ArrayLoop
<1>5. Append(z, e) \in Seq(Nat) /\ Len(Append(z, e)) = Len(z) + 1
  OBVIOUS
<1>6. PICK y \in Seq(Nat) : y = Append(z, e)
  BY <1>5
<1>7. g = [f EXCEPT !.at = a + 1, !.seen = y]
  BY <1>2, <1>3, <1>4, <1>6
<1>8. g \in ArrayLoop /\ g.kind = f.kind /\ g.at = a + 1 /\ g.seen = y /\ g.ahead = f.ahead
  <2>6. PICK b \in Nat : b = a + 1
    OBVIOUS
  <2>1. PICK h : h = [f EXCEPT !.at = b]
    OBVIOUS
  <2>2. h \in ArrayLoop /\ h.kind = f.kind /\ h.at = b /\ h.ahead = f.ahead
    BY <1>1, <2>1 DEF ArrayLoop
  <2>3. g = [h EXCEPT !.seen = y]
    BY <1>7, <2>1, <2>6
  <2> QED
    BY <2>2, <2>3, <2>6 DEF ArrayLoop
<1>9. ASSUME g.ahead PROVE g.at <= Len(s) /\ Len(g.seen) = g.at /\ \A j \in 1..g.at : g.seen[j] = s[j]
  <2>1. Len(z) = a /\ \A j \in 1..a : z[j] = s[j]
    BY <1>1, <1>2, <1>4, <1>8, <1>9 DEF CountKept
  <2>2. Len(y) = a + 1 /\ y[a + 1] = e /\ \A j \in 1..a : y[j] = z[j]
    BY <1>6, <2>1
  <2>3. ASSUME NEW j \in 1..a + 1 PROVE y[j] = s[j]
    <3>1. j \in 1..a \/ j = a + 1
      OBVIOUS
    <3> QED
      BY <1>3, <2>1, <2>2, <3>1
  <2>4. a + 1 <= Len(s)
    BY <1>2
  <2> QED
    BY <1>8, <2>2, <2>3, <2>4
<1> QED
  BY <1>8, <1>9 DEF LoopKept, CountKept, Ar!Walks

\* The callback has returned: the walk goes on to the element behind.
LEMMA WalksNext ==
  ASSUME NEW s \in Seq(Nat), NEW f, LoopKept(f, s), Ar!Walks(f), f.at + 1 <= Len(s), NEW kept,
         (kept = f.kept /\ f.kind # "map") \/ kept = Append(f.kept, s[f.at]),
         NEW g, g = [f EXCEPT !.at = f.at + 1, !.kept = kept, !.seen = Append(f.seen, s[f.at + 1])]
  PROVE  LoopKept(g, s)
<1>1. f \in ArrayLoop /\ PlaceKept(f, s)
  BY DEF LoopKept
<1>2. PICK a \in Nat : a = f.at /\ a + 1 <= Len(s) /\ a \in 1..Len(s)
  BY <1>1 DEF ArrayLoop, PlaceKept
<1>3. PICK e \in Nat : e = s[a + 1]
  <2>1. a + 1 \in 1..Len(s)
    BY <1>2
  <2> QED
    BY <2>1
<1>4. PICK z \in Seq(Nat) : z = f.seen
  BY <1>1 DEF ArrayLoop
<1>5. PICK m \in Nat : m = Len(z) /\ a <= m
  BY SMTT(40), <1>1, <1>2, <1>4 DEF PlaceKept
<1>6. PICK y \in Seq(Nat) : y = Append(z, e) /\ Len(y) = m + 1 /\ y[m + 1] = e /\ \A j \in 1..m : y[j] = z[j]
  <2>1. Append(z, e) \in Seq(Nat) /\ Len(Append(z, e)) = Len(z) + 1
    OBVIOUS
  <2>2. Append(z, e)[Len(z) + 1] = e /\ \A j \in 1..Len(z) : Append(z, e)[j] = z[j]
    OBVIOUS
  <2> QED
    BY <1>5, <2>1, <2>2
<1>7. PICK w \in Seq(Nat) : w = f.kept
  BY <1>1 DEF ArrayLoop
<1>8. s[a] \in Nat
  BY <1>2
<1>9. PICK c \in Nat : c = s[a]
  BY <1>8
<1>10. kept \in Seq(Nat) /\ ((kept = w /\ f.kind # "map") \/ kept = Append(w, c))
  <2>1. Append(w, c) \in Seq(Nat)
    OBVIOUS
  <2> QED
    BY <1>2, <1>7, <1>9, <2>1
<1>11. g = [f EXCEPT !.at = a + 1, !.kept = kept, !.seen = y]
  BY <1>2, <1>3, <1>4, <1>6
<1>12. /\ g \in ArrayLoop /\ g.kind = f.kind /\ g.at = a + 1 /\ g.seen = y /\ g.kept = kept
       /\ g.valid = f.valid
  <2>6. PICK b \in Nat : b = a + 1
    OBVIOUS
  <2>1. PICK h : h = [f EXCEPT !.at = b]
    OBVIOUS
  <2>2. h \in ArrayLoop /\ h.kind = f.kind /\ h.at = b /\ h.valid = f.valid
    BY <1>1, <2>1 DEF ArrayLoop
  <2>3. PICK i : i = [h EXCEPT !.kept = kept]
    OBVIOUS
  <2>4. i \in ArrayLoop /\ i.kind = f.kind /\ i.at = b /\ i.valid = f.valid /\ i.kept = kept
    BY <1>10, <2>2, <2>3 DEF ArrayLoop
  <2>5. g = [i EXCEPT !.seen = y]
    BY <1>11, <2>1, <2>3, <2>6
  <2> QED
    BY <2>4, <2>5, <2>6 DEF ArrayLoop
<1>13. \A j \in 1..a : s[j] = z[m - a + j]
  BY <1>1, <1>2, <1>4, <1>5 DEF PlaceKept
<1>14. ASSUME NEW j \in 1..a + 1 PROVE s[j] = y[(m + 1) - (a + 1) + j]
  <2>1. CASE j \in 1..a
    <3>3. j \in Nat /\ j >= 1 /\ j <= a
      BY <2>1
    <3>4. m - a + j >= 1 /\ m - a + j <= m
      BY <1>5, <3>3
    <3>5. m - a + j \in 1..m
      BY <3>3, <3>4
    <3>1. m - a + j \in 1..m /\ (m + 1) - (a + 1) + j = m - a + j
      BY <3>3, <3>5
    <3>2. PICK i \in 1..m : i = m - a + j
      BY <3>1
    <3> QED
      BY <1>6, <1>13, <2>1, <3>1, <3>2
  <2>2. CASE j = a + 1
    <3>1. (m + 1) - (a + 1) + j = m + 1
      BY <1>5, <2>2
    <3> QED
      BY <1>3, <1>6, <2>2, <3>1
  <2>3. j \in 1..a \/ j = a + 1
    OBVIOUS
  <2> QED
    BY <2>1, <2>2, <2>3
<1>18. g.valid /\ g.at \in 1..Len(s) /\ g.at <= Len(g.seen) /\ Len(g.seen) = m + 1
  <2>1. f.valid /\ a + 1 \in 1..Len(s) /\ a + 1 <= m + 1
    <3>1. f.valid
      BY <1>1 DEF PlaceKept
    <3>2. a + 1 >= 1 /\ Len(s) \in Nat
      OBVIOUS
    <3>3. a + 1 \in 1..Len(s)
      BY <1>2, <3>2
    <3> QED
      BY <1>5, <3>1, <3>3
  <2> QED
    BY <1>6, <1>12, <2>1
<1>19. \A j \in 1..g.at : s[j] = g.seen[Len(g.seen) - g.at + j]
  BY <1>12, <1>14, <1>18
<1>15. c = z[m]
  <2>1. a \in 1..a /\ m - a + a = m
    BY SMTT(40), <1>2, <1>5
  <2> QED
    BY <1>9, <1>13, <2>1
<1>16. CASE f.kind = "map"
  <2>1. kept = Append(w, c) /\ Len(w) = m - 1 /\ \A j \in 1..m - 1 : w[j] = z[j]
    BY <1>1, <1>4, <1>5, <1>7, <1>10, <1>16 DEF PlaceKept
  <2>2. Len(kept) = m
    BY <1>5, <1>10, <2>1
  <2>3. ASSUME NEW j \in 1..m PROVE kept[j] = y[j]
    <3>1. CASE j = m
      <4>1. kept[m] = c
        BY <1>5, <2>1
      <4> QED
        BY <1>6, <1>15, <3>1, <4>1
    <3>2. CASE j # m
      <4>1. j \in 1..m - 1
        BY <3>2
      <4>2. kept[j] = w[j]
        BY <1>5, <2>1, <4>1
      <4> QED
        BY <1>6, <2>1, <4>1, <4>2
    <3> QED
      BY <3>1, <3>2
  <2>4. (m + 1) - 1 = m
    OBVIOUS
  <2>5. PlaceKept(g, s)
    BY ZenonT(60), <1>12, <1>16, <1>18, <1>19, <2>2, <2>3, <2>4 DEF PlaceKept
  <2> QED
    BY <1>12, <2>5 DEF LoopKept, Ar!Walks
<1>17. CASE f.kind # "map"
  <2>1. Len(w) < m
    BY <1>1, <1>4, <1>5, <1>7, <1>17 DEF PlaceKept
  <2>2. Len(kept) < m + 1
    BY <1>7, <1>9, <1>10, <2>1
  <2>3. PlaceKept(g, s)
    BY <1>12, <1>17, <1>18, <1>19, <2>2 DEF PlaceKept
  <2> QED
    BY <1>12, <2>3 DEF LoopKept, Ar!Walks
<1> QED
  BY <1>16, <1>17

LEMMA LoopsUnchanged ==
  ASSUME LoopsKept, items' = items, array_loops' = array_loops
  PROVE  LoopsFine
<1>1. LoopsKept'
  BY DEF LoopsKept
<1>2. DOMAIN array_loops = 1..Len(array_loops)
  BY DEF LoopsKept
<1> QED
  BY <1>1, <1>2, LoopsAtEnd DEF LoopsFine

LEMMA MethodsKeepLoops ==
  ASSUME Ar!ArraysAssumption, MapChanges \subseteq {"pop", "shift"}, ItemsKept, LoopsKept, Ar!Method
  PROVE  LoopsFine
<1>0. items \in Seq(Nat) /\ Elements \subseteq Nat
  BY DEF ItemsKept, Ar!ArraysAssumption
<1>1. ASSUME NEW c, c \notin {"pop", "shift"}, Ar!MayChange(c)
      PROVE  \A i \in 1..Len(array_loops) : ~Ar!Walks(array_loops[i])
  BY <1>1, NoneWalks
<1>4. CASE Ar!OP_SET_ITEM
  <2>1. PICK i \in Indexes, v \in Elements :
          Ar!MayChange("set") /\ IF i < 0 THEN items' = items /\ array_loops' = array_loops ELSE Ar!set_item(i, v)
    BY <1>4 DEF Ar!OP_SET_ITEM
  <2>2. CASE i < 0
    BY <2>1, <2>2, LoopsUnchanged
  <2>3. CASE ~(i < 0)
    <3>1. i \in Nat /\ v \in Nat
      BY <1>0, <2>3 DEF Ar!ArraysAssumption
    <3>2. "set" \notin {"pop", "shift"}
      OBVIOUS
    <3>3. \A j \in 1..Len(array_loops) : ~Ar!Walks(array_loops[j])
      BY <1>1, <2>1, <3>2
    <3> QED
      BY <2>1, <2>3, <3>1, <3>3, LoopsStored
  <2> QED
    BY <2>2, <2>3
<1>5. CASE Ar!av_push
  <2>1. PICK v \in Elements : Ar!MayChange("push") /\ Ar!set_item(Len(items), v)
    BY <1>5 DEF Ar!av_push
  <2>2. PICK i \in Nat : i = Len(items)
    BY <1>0
  <2>3. "push" \notin {"pop", "shift"} /\ v \in Nat
    BY <1>0
  <2>4. \A j \in 1..Len(array_loops) : ~Ar!Walks(array_loops[j])
    BY <1>1, <2>1, <2>3
  <2> QED
    BY <2>1, <2>2, <2>3, <2>4, LoopsStored
<1>6. CASE Ar!OP_GET_ITEM
  <2>1. items' = items /\ array_loops' = array_loops
    BY <1>6 DEF Ar!OP_GET_ITEM
  <2> QED
    BY <2>1, LoopsUnchanged
<1>7. CASE Ar!av_pop
  <2>1. CASE items = << >>
    <3>1. items' = items /\ array_loops' = array_loops
      BY <1>7, <2>1 DEF Ar!av_pop
    <3> QED
      BY <3>1, LoopsUnchanged
  <2>2. CASE items # << >>
    <3>1. PICK n \in Nat : n = Len(items) /\ n \in 1..Len(items)
      BY <1>0, <2>2
    <3>2. /\ items' = SubSeq(items, 1, n - 1) /\ Ar!Elsewhere(n)
          /\ array_loops' = [i \in DOMAIN array_loops |-> Ar!Removed(array_loops[i], n, n)]
      BY <1>7, <2>2, <3>1 DEF Ar!av_pop, Ar!Front, Ar!AllLoops
    <3>3. items' \in Seq(Nat) /\ Len(items') = n - 1 /\ \A j \in 1..n - 1 : items'[j] = items[j]
      BY <1>0, <3>1, <3>2
    <3>4. ASSUME NEW j \in 1..n - 1 PROVE items'[j] = IF j < n THEN items[j] ELSE items[j + 1]
      BY <3>1, <3>3
    <3> QED
      BY <3>1, <3>2, <3>3, <3>4, LoopsRemoved
  <2> QED
    BY <2>1, <2>2
<1>8. CASE Ar!av_shift
  <2>1. CASE items = << >>
    <3>1. items' = items /\ array_loops' = array_loops
      BY <1>8, <2>1 DEF Ar!av_shift
    <3> QED
      BY <3>1, LoopsUnchanged
  <2>2. CASE items # << >>
    <3>1. PICK k \in 1..Len(items) : k = 1
      BY <1>0, <2>2
    <3>2. /\ items' = Tail(items) /\ Ar!Elsewhere(k)
          /\ array_loops' = [i \in DOMAIN array_loops |-> Ar!Removed(array_loops[i], k, Len(items))]
      BY <1>8, <2>2, <3>1 DEF Ar!av_shift, Ar!AllLoops
    <3>3. /\ items' \in Seq(Nat) /\ Len(items') = Len(items) - 1
          /\ \A j \in 1..Len(items) - 1 : items'[j] = items[j + 1]
      BY <1>0, <2>2, <3>2
    <3>4. ASSUME NEW j \in 1..Len(items) - 1 PROVE items'[j] = IF j < k THEN items[j] ELSE items[j + 1]
      BY <3>1, <3>3
    <3> QED
      BY <3>1, <3>2, <3>3, <3>4, LoopsRemoved
  <2> QED
    BY <2>1, <2>2
<1>9. CASE Ar!av_unshift
  <2>1. PICK v \in Elements : Ar!MayChange("unshift") /\ items' = << v >> \o items
    BY <1>9 DEF Ar!av_unshift
  <2>2. PICK k \in Nat : k = 1
    OBVIOUS
  <2>3. "unshift" \notin {"pop", "shift"} /\ v \in Nat
    BY <1>0
  <2>4. \A j \in 1..Len(array_loops) : ~Ar!Walks(array_loops[j])
    BY <1>1, <2>1, <2>3
  <2>5. << v >> \in Seq(Nat) /\ Len(<< v >>) = 1
    BY <2>3
  <2>6. items' \in Seq(Nat) /\ Len(items') = 1 + Len(items)
    BY <1>0, <2>1, <2>5
  <2>7. array_loops' = [i \in DOMAIN array_loops |-> Ar!Inserted(array_loops[i], k)]
    BY <1>9, <2>2 DEF Ar!av_unshift, Ar!AllLoops
  <2>8. \A j \in 1..Len(items) : j < k => items'[j] = items[j]
    BY <2>2
  <2>9. Len(items') >= Len(items)
    BY <1>0, <2>6
  <2> QED
    BY <2>4, <2>6, <2>7, <2>8, <2>9, LoopsInserted
<1>10. CASE Ar!Derived
  <2>1. items' = items /\ array_loops' = array_loops
    BY <1>10 DEF Ar!Derived
  <2> QED
    BY <2>1, LoopsUnchanged
<1> QED
  BY <1>4, <1>5, <1>6, <1>7, <1>8, <1>9, <1>10 DEF Ar!Method

LEMMA ForeachIs ==
  /\ Ar!Foreach \in ArrayLoop /\ Ar!Foreach.kind = "foreach" /\ Ar!Foreach.at = 0 /\ Ar!Foreach.valid
  /\ Ar!Foreach.seen = << >> /\ Ar!Foreach.kept = << >>
<1>1. << >> \in Seq(Nat) /\ 0 \in Nat
  OBVIOUS
<1> QED
  BY <1>1 DEF Ar!Foreach, ArrayLoop

LEMMA LoopActionsKeepLoops ==
  ASSUME LoopsKept, Ar!Loop
  PROVE  LoopsFine
<1>0. items \in Seq(Nat)
  BY DEF LoopsKept
<1>1. items' = items
  BY DEF Ar!Loop, Ar!OP_ENTER_FOREACH, Ar!OP_FOR_ITER, Ar!EndForeach, Ar!av_map, Ar!Returned
<1>2. CASE Ar!OP_ENTER_FOREACH
  <2>1. PICK f : f = [Ar!Foreach EXCEPT !.kept = items]
    OBVIOUS
  <2>2. array_loops' = Append(array_loops, f)
    BY <1>2, <2>1 DEF Ar!OP_ENTER_FOREACH
  <2>3. LoopKept(f, items)
    <3>5. << >> \in Seq(Nat) /\ Len(<< >>) = 0
      OBVIOUS
    <3>1. PICK e \in Seq(Nat) : e = << >> /\ Len(e) = 0
      BY <3>5
    <3>2. Ar!Foreach \in ArrayLoop /\ Ar!Foreach.kind = "foreach" /\ Ar!Foreach.at = 0 /\ Ar!Foreach.seen = e
      BY ForeachIs, <3>1
    <3>3. f \in ArrayLoop /\ f.kind = "foreach" /\ f.at = 0 /\ f.seen = e
      BY <1>0, <2>1, <3>2 DEF ArrayLoop
    <3>4. CountKept(f, items)
      BY <1>0, <3>1, <3>3 DEF CountKept
    <3> QED
      BY <3>3, <3>4 DEF LoopKept, Ar!Walks
  <2> QED
    BY <1>1, <2>2, <2>3, LoopsBegin
<1>3. CASE Ar!OP_FOR_ITER
  <2>1. array_loops # << >>
    BY <1>3 DEF Ar!OP_FOR_ITER
  <2>2. PICK f \in ArrayLoop : f = array_loops[Len(array_loops)] /\ f = Ar!Last(array_loops) /\ LoopKept(f, items)
    BY <2>1, LastLoop
  <2>3. f.kind = "foreach" /\ f.at < Len(items) /\ f.at \in Nat
    BY <1>3, <2>2 DEF Ar!OP_FOR_ITER, Ar!InArray, ArrayLoop
  <2>4. ~(f.at >= Len(items))
    BY <1>0, <2>3
  <2>5. PICK g : g = [f EXCEPT !.at = f.at + 1, !.seen = Append(f.seen, items[f.at + 1])]
    OBVIOUS
  <2>6. array_loops' = [array_loops EXCEPT ![Len(array_loops)] = g]
    BY <1>3, <2>2, <2>4, <2>5 DEF Ar!OP_FOR_ITER
  <2>7. LoopKept(g, items)
    BY <1>0, <2>2, <2>3, <2>5, GivesNext DEF Ar!Walks
  <2> QED
    BY <1>1, <2>1, <2>6, <2>7, LoopsTurn
<1>4. CASE Ar!EndForeach
  <2>1. array_loops # << >> /\ array_loops' = Ar!Front(array_loops)
    BY <1>4 DEF Ar!EndForeach
  <2>2. PICK f \in ArrayLoop : f = array_loops[Len(array_loops)] /\ f = Ar!Last(array_loops) /\ LoopKept(f, items)
    BY <2>1, LastLoop
  <2>3. f.kind = "foreach" /\ ~(f.at < Len(items)) /\ f.at \in Nat
    BY <1>4, <2>2 DEF Ar!EndForeach, Ar!InArray, ArrayLoop
  <2>4. ~Ar!Walks(f) /\ CountKept(f, items)
    BY <2>2, <2>3 DEF LoopKept, Ar!Walks
  <2>5. f.ahead => f.at = Len(items)
    BY <1>0, <2>3, <2>4 DEF CountKept
  <2> QED
    BY <1>1, <2>1, <2>2, <2>4, <2>5, LoopsEnd
<1>5. CASE Ar!av_map
  <2>1. PICK kind \in {"map", "grep"} : /\ items # << >>
          /\ array_loops' = Append(array_loops, [Ar!Map(kind) EXCEPT !.seen = << items[1] >>])
    BY <1>5 DEF Ar!av_map
  <2>2. PICK f : f = [Ar!Map(kind) EXCEPT !.seen = << items[1] >>]
    OBVIOUS
  <2>4. items[1] \in Nat /\ 1 \in 1..Len(items)
    BY <1>0, <2>1
  <2>12. PICK x \in Nat : x = items[1]
    BY <2>4
  <2>13. << x >> \in Seq(Nat) /\ Len(<< x >>) = 1 /\ << x >>[1] = x
    OBVIOUS
  <2>5. PICK y \in Seq(Nat) : y = << items[1] >> /\ Len(y) = 1 /\ y[1] = items[1]
    BY <2>12, <2>13
  <2>19. << >> \in Seq(Nat) /\ Len(<< >>) = 0
    OBVIOUS
  <2>6. PICK e \in Seq(Nat) : e = << >> /\ Len(e) = 0
    BY <2>19
  <2>7. /\ Ar!Foreach \in ArrayLoop /\ Ar!Foreach.valid /\ Ar!Foreach.kept = e
    BY <2>6, ForeachIs
  <2>14. PICK g : g = [Ar!Foreach EXCEPT !.kind = kind]
    OBVIOUS
  <2>15. g \in ArrayLoop /\ g.valid /\ g.kept = e /\ g.kind = kind
    BY <2>7, <2>14 DEF ArrayLoop
  <2>16. PICK h : h = [g EXCEPT !.at = 1]
    OBVIOUS
  <2>17. h \in ArrayLoop /\ h.valid /\ h.kept = e /\ h.kind = kind /\ h.at = 1
    BY <2>15, <2>16 DEF ArrayLoop
  <2>3. f = [h EXCEPT !.seen = y]
    BY <2>2, <2>5, <2>14, <2>16 DEF Ar!Map
  <2>18. f \in ArrayLoop /\ f.valid /\ f.kept = e /\ f.kind = kind /\ f.at = 1 /\ f.seen = y
    BY <2>3, <2>17 DEF ArrayLoop
  <2>8. f.valid /\ f.at = 1 /\ f.seen = y /\ f.kept = << >> /\ f.kind # "foreach"
    BY <2>6, <2>18
  <2>9. ASSUME NEW j \in 1..1 PROVE items[j] = y[1 - 1 + j]
    BY <2>5
  <2>10. PlaceKept(f, items)
    BY <2>4, <2>5, <2>6, <2>8, <2>9 DEF PlaceKept
  <2>11. LoopKept(f, items)
    BY <2>8, <2>10, <2>18 DEF LoopKept, Ar!Walks
  <2> QED
    BY <1>1, <2>1, <2>2, <2>11, LoopsBegin
<1>6. CASE Ar!Returned
  <2>1. array_loops # << >>
    BY <1>6 DEF Ar!Returned
  <2>2. PICK f \in ArrayLoop : f = array_loops[Len(array_loops)] /\ f = Ar!Last(array_loops) /\ LoopKept(f, items)
    BY <2>1, LastLoop
  <2>3. PICK true \in BOOLEAN :
          LET kept == IF f.kind = "grep" /\ ~true THEN f.kept ELSE Append(f.kept, items[f.at])
          IN  /\ Ar!Walks(f) /\ (f.kind = "map" => true)
              /\ IF ~f.valid THEN array_loops' = array_loops
                 ELSE IF f.at + 1 > Len(items) THEN array_loops' = Ar!Front(array_loops)
                 ELSE array_loops' = [array_loops EXCEPT ![Len(array_loops)] =
                                        [f EXCEPT !.at = f.at + 1, !.kept = kept,
                                                  !.seen = Append(f.seen, items[f.at + 1])]]
    BY <1>6, <2>2 DEF Ar!Returned, Ar!NextPlace
  <2>4. Ar!Walks(f) /\ PlaceKept(f, items)
    BY <2>2, <2>3 DEF LoopKept
  <2>5. f.valid /\ f.at \in Nat /\ f.at <= Len(items)
    BY <1>0, <2>4 DEF PlaceKept
  <2>6. PICK kept : kept = IF f.kind = "grep" /\ ~true THEN f.kept ELSE Append(f.kept, items[f.at])
    OBVIOUS
  <2>7. (kept = f.kept /\ f.kind # "map") \/ kept = Append(f.kept, items[f.at])
    BY <2>6
  <2>8. CASE f.at + 1 > Len(items)
    <3>1. array_loops' = Ar!Front(array_loops)
      BY <2>3, <2>5, <2>8
    <3>2. f.at = Len(items)
      BY <1>0, <2>5, <2>8
    <3> QED
      BY <1>1, <2>1, <2>2, <3>1, <3>2, LoopsEnd
  <2>9. CASE ~(f.at + 1 > Len(items))
    <3>1. PICK g : g = [f EXCEPT !.at = f.at + 1, !.kept = kept, !.seen = Append(f.seen, items[f.at + 1])]
      OBVIOUS
    <3>2. array_loops' = [array_loops EXCEPT ![Len(array_loops)] = g]
      BY <2>3, <2>5, <2>6, <2>9, <3>1
    <3>3. f.at + 1 <= Len(items)
      BY <1>0, <2>5, <2>9
    <3>4. LoopKept(g, items)
      BY <1>0, <2>2, <2>4, <2>7, <3>1, <3>3, WalksNext
    <3> QED
      BY <1>1, <2>1, <3>2, <3>4, LoopsTurn
  <2> QED
    BY <2>8, <2>9
<1> QED
  BY <1>2, <1>3, <1>4, <1>5, <1>6 DEF Ar!Loop

-----------------------------------------------------------------------------
(* The loops over a hash. *)

HashLoop == [next : Nat, lost : BOOLEAN, seen : Seq(Nat), stayed : SUBSET Nat, added : SUBSET Nat]

LastSeen(f) == IF f.seen = << >> THEN 0 ELSE f.seen[Len(f.seen)]

\* A loop over a hash that holds the keys held: its iterator is at the end, or at a key behind
\* those it has given out; what it has passed was added, and what stays comes or has come.
IteratorKept(f, held) ==
  /\ f \in HashLoop /\ ~f.lost
  /\ \A m, n \in 1..Len(f.seen) : m < n => f.seen[m] < f.seen[n]
  /\ f.next = End \/ (f.next \in held /\ f.next > LastSeen(f))
  /\ \A k \in held : LastSeen(f) < k /\ k < f.next => k \in f.added
  /\ f.stayed \subseteq held /\ f.stayed \cap f.added = {}
  /\ \A k \in f.stayed : k >= f.next \/ \E m \in 1..Len(f.seen) : f.seen[m] = k

HashKept ==
  /\ DOMAIN hash \subseteq Keys /\ hash_loops \in Seq(HashLoop)
  /\ \A i \in 1..Len(hash_loops) : IteratorKept(hash_loops[i], DOMAIN hash)

LEMMA SeenLast == ASSUME NEW f \in HashLoop PROVE LastSeen(f) \in Nat
<1>1. f.seen \in Seq(Nat)
  BY DEF HashLoop
<1>2. f.seen # << >> => Len(f.seen) \in 1..Len(f.seen)
  BY <1>1
<1>3. f.seen # << >> => f.seen[Len(f.seen)] \in Nat
  BY <1>1, <1>2
<1> QED
  BY <1>3 DEF LastSeen

\* std::map::upper_bound
LEMMA AfterIs ==
  ASSUME Ha!HashesAssumption, DOMAIN hash \subseteq Keys, NEW k \in Nat
  PROVE  /\ Ha!After(k) \in Nat
         /\ Ha!After(k) = End \/ (Ha!After(k) \in DOMAIN hash /\ Ha!After(k) > k)
         /\ \A x \in DOMAIN hash : x > k => Ha!After(k) <= x
<1> DEFINE later == {x \in DOMAIN hash : x > k}
<1>1. later \subseteq Nat /\ End \in Nat
  BY DEF Ha!HashesAssumption
<1>2. Ha!After(k) = IF later = {} THEN End ELSE CHOOSE x \in later : \A y \in later : x <= y
  BY DEF Ha!After, Ha!Held
<1>3. CASE later = {}
  BY <1>1, <1>2, <1>3
<1>4. CASE later # {}
  <2>1. PICK x \in later : \A y \in later : x <= y
    BY <1>1, <1>4, LeastNat
  <2> HIDE DEF later
  <2>2. Ha!After(k) \in later /\ \A y \in later : Ha!After(k) <= y
    BY <1>2, <1>4, <2>1
  <2> QED
    BY <1>1, <2>2 DEF later
<1> QED
  BY <1>3, <1>4

LEMMA LoopBegins ==
  ASSUME Ha!HashesAssumption, DOMAIN hash \subseteq Keys
  PROVE  IteratorKept(Ha!Loop(hash), DOMAIN hash)
<1>1. PICK f : f = Ha!Loop(hash)
  OBVIOUS
<1>2. PICK e \in Seq(Nat) : e = << >> /\ Len(e) = 0
  <2>1. << >> \in Seq(Nat) /\ Len(<< >>) = 0
    OBVIOUS
  <2> QED
    BY <2>1
<1>3. PICK z \in Nat : z = 0
  OBVIOUS
<1>4. PICK a \in Nat : /\ a = Ha!After(0) /\ (a = End \/ (a \in DOMAIN hash /\ a > 0))
                       /\ \A x \in DOMAIN hash : x > 0 => a <= x
  BY <1>3, AfterIs
<1>5. \A x \in DOMAIN hash : x \in Nat /\ x > 0
  BY DEF Ha!HashesAssumption
<1>6. f = [next |-> a, lost |-> FALSE, seen |-> e, stayed |-> DOMAIN hash, added |-> {}]
  BY <1>1, <1>2, <1>4 DEF Ha!Loop
<1>7. DOMAIN hash \in SUBSET Nat /\ {} \in SUBSET Nat
  BY <1>5
<1>8. /\ f \in HashLoop /\ f.next = a /\ ~f.lost /\ f.seen = e /\ f.stayed = DOMAIN hash /\ f.added = {}
  BY <1>6, <1>7 DEF HashLoop
<1>9. LastSeen(f) = 0
  BY <1>2, <1>8 DEF LastSeen
<1>10. \A m, n \in 1..Len(f.seen) : m < n => f.seen[m] < f.seen[n]
  BY <1>2, <1>8
<1>11. \A k \in DOMAIN hash : ~(LastSeen(f) < k /\ k < f.next)
  BY <1>4, <1>5, <1>8, <1>9
<1>12. \A k \in f.stayed : k >= f.next
  BY <1>4, <1>5, <1>8
<1> QED
  BY <1>1, <1>4, <1>8, <1>9, <1>10, <1>11, <1>12 DEF IteratorKept

LEMMA IteratorGoesOn ==
  ASSUME Ha!HashesAssumption, DOMAIN hash \subseteq Keys, NEW f, IteratorKept(f, DOMAIN hash), f.next # End,
         NEW g, g = [f EXCEPT !.next = Ha!After(f.next), !.seen = Append(f.seen, f.next)]
  PROVE  IteratorKept(g, DOMAIN hash)
<1>1. PICK held : held = DOMAIN hash /\ \A x \in held : x \in Nat
  BY DEF Ha!HashesAssumption
<1>2. f \in HashLoop /\ ~f.lost
  BY DEF IteratorKept
<1>3. PICK k \in Nat : k = f.next /\ k \in held /\ k > LastSeen(f)
  BY <1>1, <1>2 DEF IteratorKept, HashLoop
<1>4. PICK a \in Nat : /\ a = Ha!After(k) /\ (a = End \/ (a \in held /\ a > k))
                       /\ \A x \in held : x > k => a <= x
  BY <1>1, AfterIs
<1>5. PICK z \in Seq(Nat) : z = f.seen
  BY <1>2 DEF HashLoop
<1>6. PICK m \in Nat : m = Len(z)
  OBVIOUS
<1>7. PICK y \in Seq(Nat) : y = Append(z, k) /\ Len(y) = m + 1 /\ y[m + 1] = k /\ \A j \in 1..m : y[j] = z[j]
  <2>1. Append(z, k) \in Seq(Nat) /\ Len(Append(z, k)) = Len(z) + 1
    OBVIOUS
  <2>2. Append(z, k)[Len(z) + 1] = k /\ \A j \in 1..Len(z) : Append(z, k)[j] = z[j]
    OBVIOUS
  <2> QED
    BY <1>6, <2>1, <2>2
<1>8. PICK h : h = [f EXCEPT !.next = a]
  OBVIOUS
<1>9. h \in HashLoop /\ h.next = a /\ ~h.lost /\ h.stayed = f.stayed /\ h.added = f.added
  BY <1>2, <1>8 DEF HashLoop
<1>10. g = [h EXCEPT !.seen = y]
  BY <1>3, <1>4, <1>5, <1>7, <1>8
<1>11. /\ g \in HashLoop /\ g.next = a /\ ~g.lost /\ g.seen = y /\ g.stayed = f.stayed /\ g.added = f.added
  BY <1>9, <1>10 DEF HashLoop
<1>12. LastSeen(g) = k
  <2>1. y # << >>
    BY <1>7
  <2> QED
    BY <1>7, <1>11, <2>1 DEF LastSeen
<1>13. \A j \in 1..m : z[j] \in Nat /\ z[j] < k
  <2> SUFFICES ASSUME NEW j \in 1..m PROVE z[j] \in Nat /\ z[j] < k
    OBVIOUS
  <2>1. m \in 1..m /\ z # << >> /\ z[j] \in Nat /\ z[m] \in Nat
    BY <1>6
  <2>2. LastSeen(f) = z[m]
    BY <1>5, <1>6, <2>1 DEF LastSeen
  <2>3. j < m => z[j] < z[m]
    BY <1>5, <1>6, <2>1 DEF IteratorKept
  <2>4. j < m \/ j = m
    OBVIOUS
  <2> QED
    BY SMTT(40), <1>3, <2>1, <2>2, <2>3, <2>4
<1>14. ASSUME NEW i \in 1..m + 1, NEW j \in 1..m + 1, i < j PROVE y[i] < y[j]
  <2>1. i \in 1..m
    BY <1>14
  <2>2. CASE j = m + 1
    BY <1>7, <1>13, <2>1, <2>2
  <2>3. CASE j # m + 1
    <3>1. j \in 1..m
      BY <2>3
    <3>2. z[i] < z[j]
      BY <1>5, <1>6, <1>14, <2>1, <3>1 DEF IteratorKept
    <3> QED
      BY <1>7, <2>1, <3>1, <3>2
  <2> QED
    BY <2>2, <2>3
<1>15. \A x \in held : ~(k < x /\ x < a)
  BY <1>1, <1>4
<1>16. ASSUME NEW x \in f.stayed PROVE x >= a \/ \E j \in 1..m + 1 : y[j] = x
  <2>1. x \in held /\ x \in Nat
    BY <1>1 DEF IteratorKept
  <2>2. x >= k \/ \E j \in 1..m : z[j] = x
    BY <1>3, <1>5, <1>6 DEF IteratorKept
  <2>3. CASE x > k
    BY <1>4, <2>1, <2>3
  <2>4. CASE x = k
    <3>1. m + 1 \in 1..m + 1
      OBVIOUS
    <3> QED
      BY <1>7, <2>4, <3>1
  <2>5. CASE \E j \in 1..m : z[j] = x
    <3>1. PICK j \in 1..m : z[j] = x
      BY <2>5
    <3>2. j \in 1..m + 1 /\ y[j] = x
      BY <1>7, <3>1
    <3> QED
      BY <3>2
  <2> QED
    BY <2>1, <2>2, <2>3, <2>4, <2>5
<1>17. f.stayed \subseteq held /\ f.stayed \cap f.added = {}
  BY <1>1 DEF IteratorKept
<1>18. Len(y) = m + 1
  BY <1>7
<1> QED
  BY ZenonT(60), <1>1, <1>4, <1>11, <1>12, <1>14, <1>15, <1>16, <1>17, <1>18 DEF IteratorKept

LEMMA IteratorMeetsAdded ==
  ASSUME Ha!HashesAssumption, NEW held, held \subseteq Keys, NEW f, IteratorKept(f, held), NEW k \in Keys, k \notin held,
         NEW g, g = [f EXCEPT !.added = f.added \cup {k}]
  PROVE  IteratorKept(g, held \cup {k})
<1>1. k \in Nat /\ f \in HashLoop
  BY DEF Ha!HashesAssumption, IteratorKept
<1>2. PICK a \in SUBSET Nat : a = f.added \cup {k}
  BY <1>1 DEF HashLoop
<1>3. g = [f EXCEPT !.added = a]
  BY <1>2
<1>4. /\ g \in HashLoop /\ g.next = f.next /\ g.lost = f.lost /\ g.seen = f.seen /\ g.stayed = f.stayed /\ g.added = a
  BY <1>1, <1>3 DEF HashLoop
<1>5. LastSeen(g) = LastSeen(f)
  BY <1>4 DEF LastSeen
<1>6. \A x \in held \cup {k} : LastSeen(g) < x /\ x < g.next => x \in g.added
  BY <1>2, <1>4, <1>5 DEF IteratorKept
<1>7. g.stayed \subseteq held \cup {k} /\ g.stayed \cap g.added = {}
  BY <1>2, <1>4 DEF IteratorKept
<1> QED
  BY ZenonT(60), <1>4, <1>5, <1>6, <1>7 DEF IteratorKept

LEMMA IteratorMeetsDeleted ==
  ASSUME Ha!HashesAssumption, NEW held, held \subseteq Keys, NEW f, IteratorKept(f, held), NEW k \in held,
         f.seen # << >>, k = f.seen[Len(f.seen)],
         NEW g, g = [f EXCEPT !.lost = f.lost \/ f.next = k, !.stayed = f.stayed \ {k}]
  PROVE  IteratorKept(g, held \ {k})
<1>1. k \in Nat /\ k < End /\ End \in Nat /\ f \in HashLoop /\ ~f.lost
  BY DEF Ha!HashesAssumption, IteratorKept
<1>2. LastSeen(f) = k
  BY DEF LastSeen
<1>3. f.next \in Nat /\ f.next # k
  BY <1>1, <1>2 DEF IteratorKept, HashLoop
<1>4. PICK s \in SUBSET Nat : s = f.stayed \ {k}
  BY <1>1 DEF HashLoop
<1>5. PICK h : h = [f EXCEPT !.lost = FALSE]
  OBVIOUS
<1>6. /\ h \in HashLoop /\ h.next = f.next /\ ~h.lost /\ h.seen = f.seen /\ h.added = f.added
  BY <1>1, <1>5 DEF HashLoop
<1>7. (f.lost \/ f.next = k) = FALSE
  BY <1>1, <1>3
<1>8. g = [h EXCEPT !.stayed = s]
  BY <1>4, <1>5, <1>7
<1>9. /\ g \in HashLoop /\ g.next = f.next /\ ~g.lost /\ g.seen = f.seen /\ g.stayed = s /\ g.added = f.added
  BY <1>6, <1>8 DEF HashLoop
<1>10. LastSeen(g) = LastSeen(f)
  BY <1>9 DEF LastSeen
<1>11. g.next = End \/ (g.next \in held \ {k} /\ g.next > LastSeen(g))
  BY <1>3, <1>9, <1>10 DEF IteratorKept
<1>12. g.stayed \subseteq held \ {k} /\ g.stayed \cap g.added = {}
  BY <1>4, <1>9 DEF IteratorKept
<1> QED
  BY <1>4, <1>9, <1>10, <1>11, <1>12 DEF IteratorKept

HashFine == HashKept' /\ Ha!EachKeyStep /\ Ha!IteratorIsNext

\* What LoopsKeepPlace asks of a step, when loops that end are at the end.
LEMMA IteratorsAtEnd ==
  ASSUME Ha!HashesAssumption, HashKept,
         \A i \in 1..Len(hash_loops) : i \notin DOMAIN hash_loops' => hash_loops[i].next = End
  PROVE  Ha!EachKeyStep /\ Ha!IteratorIsNext
<1>0. DOMAIN hash_loops = 1..Len(hash_loops)
  BY DEF HashKept
<1>1. ASSUME NEW i \in DOMAIN hash_loops, NEW f, f = hash_loops[i]
      PROVE  /\ ~f.lost /\ \A m, n \in DOMAIN f.seen : m < n => f.seen[m] < f.seen[n]
             /\ i \notin DOMAIN hash_loops' => f.stayed \subseteq Ha!ToSet(f.seen)
  <2>1. IteratorKept(f, DOMAIN hash)
    BY <1>0, <1>1 DEF HashKept
  <2>2. f.seen \in Seq(Nat) /\ DOMAIN f.seen = 1..Len(f.seen)
    BY <2>1 DEF IteratorKept, HashLoop
  <2>3. ASSUME i \notin DOMAIN hash_loops', NEW x \in f.stayed PROVE x \in Ha!ToSet(f.seen)
    <3>1. f.next = End
      BY <1>0, <1>1, <2>3
    <3>2. x \in Nat /\ x < End /\ End \in Nat
      BY <2>1 DEF HashKept, IteratorKept, Ha!HashesAssumption
    <3>3. \E m \in 1..Len(f.seen) : f.seen[m] = x
      BY <2>1, <3>1, <3>2 DEF IteratorKept
    <3> QED
      BY <2>2, <3>3 DEF Ha!ToSet
  <2> QED
    BY <2>1, <2>2, <2>3 DEF IteratorKept
<1>2. ASSUME NEW i \in DOMAIN hash_loops, NEW f, f = hash_loops[i],
             NEW seen, seen = IF f.seen = << >> THEN 0 ELSE Ha!Last(f.seen)
      PROVE  /\ f.next # End => f.next \in Ha!Held /\ f.next > seen
             /\ {k \in Ha!Held : seen < k /\ k < f.next} \subseteq f.added
  <2>1. IteratorKept(f, DOMAIN hash)
    BY <1>0, <1>2 DEF HashKept
  <2>2. seen = LastSeen(f)
    BY <1>2 DEF LastSeen, Ha!Last
  <2> QED
    BY <2>1, <2>2 DEF IteratorKept, Ha!Held
<1>3. Ha!EachKeyStep
  BY <1>1 DEF Ha!EachKeyStep
<1>4. Ha!IteratorIsNext
  BY <1>2 DEF Ha!IteratorIsNext
<1> QED
  BY <1>3, <1>4

LEMMA IteratorsStay ==
  ASSUME Ha!HashesAssumption, HashKept, DOMAIN hash' \subseteq Keys,
         hash_loops' = [i \in DOMAIN hash_loops |-> hash_loops'[i]],
         \A i \in 1..Len(hash_loops) : IteratorKept(hash_loops'[i], DOMAIN hash')
  PROVE  HashFine
<1>1. PICK n \in Nat : n = Len(hash_loops) /\ DOMAIN hash_loops = 1..n
  BY DEF HashKept
<1>2. \A i \in 1..n : hash_loops'[i] \in HashLoop
  BY <1>1 DEF IteratorKept
<1>3. hash_loops' \in Seq(HashLoop) /\ Len(hash_loops') = n /\ DOMAIN hash_loops' = 1..n
  <2>1. PICK g : g = hash_loops' /\ g = [i \in 1..n |-> hash_loops'[i]]
    BY <1>1
  <2>2. g \in [1..n -> HashLoop]
    BY <1>2, <2>1
  <2> QED
    BY <2>1, <2>2
<1>4. HashKept'
  BY <1>1, <1>3 DEF HashKept
<1> QED
  BY <1>1, <1>3, <1>4, IteratorsAtEnd DEF HashFine

-----------------------------------------------------------------------------
(* Literals: what the first n of the pairs, in the order in which they are popped, make. *)

Putting(q, h, j) == Ha!Stored(h, q[j][1], q[j][2])

Makes(f, q, n) == f = [j \in 0..n |-> IF j = 0 THEN << >> ELSE Putting(q, f[j - 1], j)]

LEMMA MakingExists == ASSUME NEW q, NEW n \in Nat PROVE \E f : Makes(f, q, n)
<1> DEFINE T == {m \in Nat : ~\E f : Makes(f, q, m)}
<1>1. ASSUME T # {} PROVE FALSE
  <2>1. PICK m \in T : \A y \in T : m <= y
    BY <1>1, LeastNat
  <2>2. m \in Nat /\ ~\E f : Makes(f, q, m)
    BY <2>1
  <2>3. CASE m = 0
    <3>1. PICK f : f = [j \in 0..m |-> << >>]
      OBVIOUS
    <3>2. \A j \in 0..m : j = 0
      BY <2>3
    <3>3. f = [j \in 0..m |-> IF j = 0 THEN << >> ELSE Putting(q, f[j - 1], j)]
      BY <3>1, <3>2
    <3> QED
      BY <2>2, <3>3 DEF Makes
  <2>4. CASE m # 0
    <3>1. m - 1 \in Nat /\ ~(m <= m - 1)
      BY <2>2, <2>4
    <3>2. PICK f : Makes(f, q, m - 1)
      BY <2>1, <3>1
    <3>3. PICK g : g = [j \in 0..m |-> IF j < m THEN f[j] ELSE Putting(q, f[m - 1], m)]
      OBVIOUS
    <3>4. ASSUME NEW j \in 0..m PROVE g[j] = IF j = 0 THEN << >> ELSE Putting(q, g[j - 1], j)
      <4>1. CASE j = 0
        <5>1. j < m /\ j \in 0..m - 1
          BY <2>2, <2>4, <4>1
        <5> QED
          BY <3>2, <3>3, <4>1, <5>1 DEF Makes
      <4>2. CASE j # 0 /\ j < m
        <5>1. j \in 0..m - 1 /\ j - 1 \in 0..m /\ j - 1 < m
          BY <2>2, <4>2
        <5>2. g[j] = f[j] /\ g[j - 1] = f[j - 1]
          BY <3>3, <4>2, <5>1
        <5>3. f[j] = Putting(q, f[j - 1], j)
          BY <3>2, <4>2, <5>1 DEF Makes
        <5> QED
          BY <4>2, <5>2, <5>3
      <4>3. CASE j = m
        <5>1. ~(j < m) /\ j - 1 \in 0..m /\ j - 1 < m /\ j # 0
          BY <2>2, <2>4, <4>3
        <5>2. g[j] = Putting(q, f[m - 1], m) /\ g[j - 1] = f[j - 1]
          BY <3>3, <5>1
        <5> QED
          BY <4>3, <5>1, <5>2
      <4> QED
        BY <2>2, <4>1, <4>2, <4>3
    <3>5. g = [j \in 0..m |-> g[j]]
      BY <3>3
    <3>6. Makes(g, q, m)
      BY <3>4, <3>5 DEF Makes
    <3> QED
      BY <2>2, <3>6
  <2> QED
    BY <2>3, <2>4
<1> QED
  BY <1>1

LEMMA MakingKeeps ==
  ASSUME NEW q, NEW N \in Nat, NEW f, Makes(f, q, N), \A j \in 1..N : q[j] \in Keys \X Values, NEW i \in 1..N,
         \A j \in i + 1..N : q[j][1] # q[i][1], NEW n \in i..N
  PROVE  q[i][1] \in DOMAIN f[n] /\ f[n][q[i][1]] = q[i][2]
<1> DEFINE T == {m \in i..N : ~(q[i][1] \in DOMAIN f[m] /\ f[m][q[i][1]] = q[i][2])}
<1>1. ASSUME T # {} PROVE FALSE
  <2>0. T \subseteq Nat
    OBVIOUS
  <2>1. PICK m \in T : \A y \in T : m <= y
    BY <1>1, <2>0, LeastNat
  <2>2. m \in i..N /\ ~(q[i][1] \in DOMAIN f[m] /\ f[m][q[i][1]] = q[i][2])
    BY <2>1
  <2>3. m \in 0..N /\ m # 0
    BY <2>2
  <2>4. f[m] = Putting(q, f[m - 1], m)
    BY <2>3 DEF Makes
  <2>5. f[m] = [x \in DOMAIN f[m - 1] \cup {q[m][1]} |-> IF x = q[m][1] THEN q[m][2] ELSE f[m - 1][x]]
    BY <2>4 DEF Putting, Ha!Stored
  <2>6. CASE m = i
    BY <2>2, <2>5, <2>6
  <2>7. CASE m # i
    <3>1. m \in i + 1..N /\ m - 1 \in i..N /\ ~(m <= m - 1)
      BY <2>2, <2>7
    <3>2. q[i][1] \in DOMAIN f[m - 1] /\ f[m - 1][q[i][1]] = q[i][2]
      BY <2>1, <3>1
    <3>3. q[m][1] # q[i][1]
      BY <3>1
    <3> QED
      BY <2>2, <2>5, <3>2, <3>3
  <2> QED
    BY <2>6, <2>7
<1> QED
  BY <1>1

LEMMA MakingOfKeys ==
  ASSUME NEW q, NEW N \in Nat, NEW f, Makes(f, q, N), \A j \in 1..N : q[j] \in Keys \X Values, NEW n \in 0..N
  PROVE  DOMAIN f[n] \subseteq Keys
<1> DEFINE T == {m \in 0..N : ~(DOMAIN f[m] \subseteq Keys)}
<1>1. ASSUME T # {} PROVE FALSE
  <2>0. T \subseteq Nat
    OBVIOUS
  <2>1. PICK m \in T : \A y \in T : m <= y
    BY <1>1, <2>0, LeastNat
  <2>2. m \in 0..N /\ ~(DOMAIN f[m] \subseteq Keys)
    BY <2>1
  <2>3. CASE m = 0
    <3>1. f[m] = << >>
      BY <2>2, <2>3 DEF Makes
    <3> QED
      BY <2>2, <3>1
  <2>4. CASE m # 0
    <3>1. m \in 1..N /\ m - 1 \in 0..N /\ ~(m <= m - 1)
      BY <2>2, <2>4
    <3>2. DOMAIN f[m - 1] \subseteq Keys /\ q[m][1] \in Keys
      BY <2>1, <3>1
    <3>3. f[m] = Putting(q, f[m - 1], m)
      BY <2>2, <2>4 DEF Makes
    <3>4. DOMAIN f[m] = DOMAIN f[m - 1] \cup {q[m][1]}
      BY <3>3 DEF Putting, Ha!Stored
    <3> QED
      BY <2>2, <3>2, <3>4
  <2> QED
    BY <2>3, <2>4
<1> QED
  BY <1>1

\* OP_MAKE_HASH: the pair that is popped last is the one written first.
LEMMA LiteralIs ==
  ASSUME NEW pairs \in Ha!Literals, NEW h, h = Ha!Made(pairs)
  PROVE  /\ DOMAIN h \subseteq Keys
         /\ \A i \in DOMAIN pairs : (\A j \in 1..i - 1 : pairs[j][1] # pairs[i][1]) => h[pairs[i][1]] = pairs[i][2]
<1>1. PICK N \in Nat : pairs \in [1..N -> Keys \X Values]
  BY DEF Ha!Literals
<1>2. Len(pairs) = N /\ DOMAIN pairs = 1..N
  BY <1>1
<1>3. PICK q : q = Ha!PopOrder(pairs) /\ q = [i \in 1..N |-> pairs[(N - i) + 1]]
  BY <1>2 DEF Ha!PopOrder, Ha!Reverse
<1>4. ASSUME NEW j \in 1..N PROVE q[j] = pairs[(N - j) + 1] /\ (N - j) + 1 \in 1..N /\ q[j] \in Keys \X Values
  <2>1. (N - j) + 1 \in 1..N
    OBVIOUS
  <2> QED
    BY <1>1, <1>3, <2>1
<1>5. h = (CHOOSE f : Makes(f, q, N))[N]
  BY <1>2, <1>3 DEF Ha!Made, Makes, Putting
<1>6. PICK f : Makes(f, q, N) /\ h = f[N]
  <2>1. Makes((CHOOSE f : Makes(f, q, N)), q, N)
    BY MakingExists
  <2> QED
    BY <1>5, <2>1
<1>7. DOMAIN h \subseteq Keys
  <2>1. N \in 0..N
    OBVIOUS
  <2>2. PICK z \in 0..N : z = N
    BY <2>1
  <2>3. \A j \in 1..N : q[j] \in Keys \X Values
    BY <1>4
  <2>4. DOMAIN f[z] \subseteq Keys
    BY <1>6, <2>3, MakingOfKeys
  <2> QED
    BY <1>6, <2>2, <2>4
<1>8. ASSUME NEW i \in 1..N, \A j \in 1..i - 1 : pairs[j][1] # pairs[i][1] PROVE h[pairs[i][1]] = pairs[i][2]
  <2>1. PICK k \in 1..N : k = (N - i) + 1
    <3>1. (N - i) + 1 \in 1..N
      OBVIOUS
    <3> QED
      BY <3>1
  <2>2. (N - k) + 1 = i /\ N \in k..N
    BY <2>1
  <2>3. q[k] = pairs[i]
    BY <1>4, <2>2
  <2>4. ASSUME NEW j \in k + 1..N PROVE q[j][1] # q[k][1]
    <3>1. j \in 1..N /\ (N - j) + 1 \in 1..i - 1
      BY <2>1
    <3>2. q[j] = pairs[(N - j) + 1]
      BY <1>4, <3>1
    <3>3. PICK l \in 1..i - 1 : l = (N - j) + 1
      BY <3>1
    <3> QED
      BY <1>8, <2>3, <3>2, <3>3
  <2>5. f[N][q[k][1]] = q[k][2]
    BY <1>4, <1>6, <2>2, <2>4, MakingKeeps
  <2> QED
    BY <1>6, <2>3, <2>5
<1> QED
  BY <1>2, <1>7, <1>8

-----------------------------------------------------------------------------
LEMMA HashUnchanged ==
  ASSUME Ha!HashesAssumption, HashKept, DOMAIN hash' = DOMAIN hash, hash_loops' = hash_loops
  PROVE  HashFine
<1>1. HashKept'
  BY DEF HashKept
<1>2. DOMAIN hash_loops = 1..Len(hash_loops)
  BY DEF HashKept
<1> QED
  BY <1>1, <1>2, IteratorsAtEnd DEF HashFine

LEMMA KeyStored ==
  ASSUME Ha!HashesAssumption, HashKept, NEW k \in Keys, NEW v, Ha!Inserting(k),
         hash' = Ha!Stored(hash, k, v) \/ (k \in DOMAIN hash /\ hash' = hash)
  PROVE  HashFine
<1>0. DOMAIN hash_loops = 1..Len(hash_loops) /\ DOMAIN hash \subseteq Keys
  BY DEF HashKept
<1>1. DOMAIN hash' = DOMAIN hash \cup {k}
  BY DEF Ha!Stored
<1>2. ASSUME NEW i \in 1..Len(hash_loops) PROVE IteratorKept(hash_loops'[i], DOMAIN hash')
  <2>1. IteratorKept(hash_loops[i], DOMAIN hash)
    BY DEF HashKept
  <2>2. CASE k \in DOMAIN hash
    <3>1. DOMAIN hash' = DOMAIN hash /\ hash_loops'[i] = hash_loops[i]
      BY <1>0, <1>1, <2>2 DEF Ha!Inserting, Ha!Held
    <3> QED
      BY <2>1, <3>1
  <2>3. CASE k \notin DOMAIN hash
    <3>1. hash_loops'[i] = [hash_loops[i] EXCEPT !.added = hash_loops[i].added \cup {k}]
      BY <1>0, <2>3 DEF Ha!Inserting, Ha!Held
    <3>2. PICK f : f = hash_loops[i]
      OBVIOUS
    <3>3. PICK g : g = hash_loops'[i]
      OBVIOUS
    <3>4. IteratorKept(g, DOMAIN hash \cup {k})
      BY <1>0, <2>1, <2>3, <3>1, <3>2, <3>3, IteratorMeetsAdded
    <3> QED
      BY <1>1, <3>3, <3>4
  <2> QED
    BY <2>2, <2>3
<1>3. hash_loops' = [i \in DOMAIN hash_loops |-> hash_loops'[i]]
  BY DEF Ha!Inserting
<1>4. DOMAIN hash' \subseteq Keys
  BY <1>0, <1>1
<1> QED
  BY <1>2, <1>3, <1>4, IteratorsStay

LEMMA HashStep ==
  ASSUME Ha!HashesAssumption, ~DeletesAny, HashKept, Ha!Next
  PROVE  HashFine
<1>0. DOMAIN hash_loops = 1..Len(hash_loops) /\ DOMAIN hash \subseteq Keys /\ hash_loops \in Seq(HashLoop)
  BY DEF HashKept
<1>1. CASE Ha!OP_MAKE_HASH
  <2>1. PICK pairs \in Ha!Literals : hash_loops = << >> /\ hash_loops' = hash_loops /\ hash' = Ha!Made(pairs)
    BY <1>1 DEF Ha!OP_MAKE_HASH, Ha!MakeHash
  <2>2. DOMAIN hash' \subseteq Keys
    BY <2>1, LiteralIs
  <2>3. 1..Len(hash_loops) = {}
    BY <2>1
  <2>4. HashKept'
    BY <1>0, <2>1, <2>2, <2>3 DEF HashKept
  <2> QED
    BY <2>3, <2>4, IteratorsAtEnd DEF HashFine
<1>2. CASE Ha!OP_SET_ITEM
  <2>1. PICK k \in Keys, v \in Values : hash' = Ha!Stored(hash, k, v) /\ Ha!Inserting(k)
    BY <1>2 DEF Ha!OP_SET_ITEM
  <2> QED
    BY <2>1, KeyStored
<1>3. CASE Ha!OP_GET_ITEM
  <2>1. PICK k \in Keys : Ha!Inserting(k) /\ hash' = IF k \in DOMAIN hash THEN hash ELSE Ha!Stored(hash, k, Ha!Null)
    BY <1>3 DEF Ha!OP_GET_ITEM, Ha!Held
  <2> QED
    BY <2>1, KeyStored
<1>4. CASE Ha!UseOperand
  <2>1. hash' = hash /\ hash_loops' = hash_loops
    BY <1>4 DEF Ha!UseOperand
  <2> QED
    BY <2>1, HashUnchanged
<1>5. CASE Ha!Hash_delete
  <2>1. PICK k \in Ha!Deletable :
          IF k \in DOMAIN hash THEN hash' = Ha!Restricted(hash, DOMAIN hash \ {k}) /\ Ha!Erasing(k)
          ELSE hash' = hash /\ hash_loops' = hash_loops
    BY <1>5 DEF Ha!Hash_delete, Ha!Held
  <2>2. \A i \in 1..Len(hash_loops) : hash_loops[i].seen # << >> /\ k = hash_loops[i].seen[Len(hash_loops[i].seen)]
    BY <1>0 DEF Ha!Deletable, Ha!Last
  <2>3. CASE k \notin DOMAIN hash
    BY <2>1, <2>3, HashUnchanged
  <2>4. CASE k \in DOMAIN hash
    <3>1. DOMAIN hash' = DOMAIN hash \ {k}
      BY <2>1, <2>4 DEF Ha!Restricted
    <3>2. hash_loops' = [i \in DOMAIN hash_loops |->
            [hash_loops[i] EXCEPT !.lost = hash_loops[i].lost \/ hash_loops[i].next = k, !.stayed = hash_loops[i].stayed \ {k}]]
      BY <2>1, <2>4 DEF Ha!Erasing
    <3>3. ASSUME NEW i \in 1..Len(hash_loops) PROVE IteratorKept(hash_loops'[i], DOMAIN hash')
      <4>1. PICK f : f = hash_loops[i] /\ IteratorKept(f, DOMAIN hash)
        BY DEF HashKept
      <4>2. PICK g : g = hash_loops'[i] /\ g = [f EXCEPT !.lost = f.lost \/ f.next = k, !.stayed = f.stayed \ {k}]
        BY <1>0, <3>2, <4>1
      <4>3. f.seen # << >> /\ k = f.seen[Len(f.seen)]
        BY <2>2, <4>1
      <4>4. IteratorKept(g, DOMAIN hash \ {k})
        BY <1>0, <2>4, <4>1, <4>2, <4>3, IteratorMeetsDeleted
      <4> QED
        BY <3>1, <4>2, <4>4
    <3>4. hash_loops' = [i \in DOMAIN hash_loops |-> hash_loops'[i]]
      BY <3>2
    <3>5. DOMAIN hash' \subseteq Keys
      BY <1>0, <3>1
    <3> QED
      BY <3>3, <3>4, <3>5, IteratorsStay
  <2> QED
    BY <2>3, <2>4
<1>6. CASE Ha!OP_ENTER_FOREACH
  <2>1. PICK f : f = Ha!Loop(hash) /\ hash_loops' = Append(hash_loops, f) /\ hash' = hash
    BY <1>6 DEF Ha!OP_ENTER_FOREACH
  <2>2. IteratorKept(f, DOMAIN hash)
    BY <1>0, <2>1, LoopBegins
  <2>3. f \in HashLoop
    BY <2>2 DEF IteratorKept
  <2>4. PICK n \in Nat : n = Len(hash_loops)
    <3>1. Len(hash_loops) \in Nat
      BY <1>0
    <3> QED
      BY <3>1
  <2>5. /\ hash_loops' \in Seq(HashLoop) /\ Len(hash_loops') = n + 1 /\ DOMAIN hash_loops' = 1..n + 1
        /\ hash_loops'[n + 1] = f /\ \A i \in 1..n : hash_loops'[i] = hash_loops[i]
    BY <1>0, <2>1, <2>3, <2>4
  <2>6. ASSUME NEW i \in 1..n + 1 PROVE IteratorKept(hash_loops'[i], DOMAIN hash')
    <3>1. i \in 1..n \/ i = n + 1
      OBVIOUS
    <3>2. ASSUME i \in 1..n PROVE IteratorKept(hash_loops'[i], DOMAIN hash')
      BY <2>1, <2>4, <2>5, <3>2 DEF HashKept
    <3> QED
      BY <2>1, <2>2, <2>5, <3>1, <3>2
  <2>7. HashKept'
    BY <1>0, <2>1, <2>5, <2>6 DEF HashKept
  <2>8. \A i \in 1..Len(hash_loops) : i \in DOMAIN hash_loops'
    BY <2>4, <2>5
  <2> QED
    BY <2>7, <2>8, IteratorsAtEnd DEF HashFine
<1>7. CASE Ha!OP_FOR_ITER
  <2>1. PICK n \in Nat : n = Len(hash_loops) /\ n \in 1..n
    BY <1>0, <1>7 DEF Ha!OP_FOR_ITER
  <2>2. PICK f : f = hash_loops[n] /\ f = Ha!Last(hash_loops) /\ IteratorKept(f, DOMAIN hash)
    BY <2>1 DEF HashKept, Ha!Last
  <2>3. ~f.lost
    BY <2>2 DEF IteratorKept
  <2>4. hash' = hash
    BY <1>7 DEF Ha!OP_FOR_ITER
  <2>5. CASE f.next = End
    <3>1. hash_loops' = SubSeq(hash_loops, 1, n - 1)
      BY <1>7, <2>1, <2>2, <2>3, <2>5 DEF Ha!OP_FOR_ITER, Ha!finished, Ha!Front
    <3>2. /\ hash_loops' \in Seq(HashLoop) /\ Len(hash_loops') = n - 1 /\ DOMAIN hash_loops' = 1..n - 1
          /\ \A i \in 1..n - 1 : hash_loops'[i] = hash_loops[i]
      BY <1>0, <2>1, <3>1
    <3>3. ASSUME NEW i \in 1..n - 1 PROVE IteratorKept(hash_loops'[i], DOMAIN hash')
      <4>1. i \in 1..n
        BY <2>1
      <4> QED
        BY <2>1, <2>4, <3>2, <4>1 DEF HashKept
    <3>4. HashKept'
      BY <1>0, <2>4, <3>2, <3>3 DEF HashKept
    <3>5. \A i \in 1..n : i \notin DOMAIN hash_loops' => i = n
      BY <2>1, <3>2
    <3> QED
      BY <2>1, <2>2, <2>5, <3>4, <3>5, IteratorsAtEnd DEF HashFine
  <2>6. CASE f.next # End
    <3>1. PICK g : g = [f EXCEPT !.next = Ha!After(f.next), !.seen = Append(f.seen, f.next)]
      OBVIOUS
    <3>2. hash_loops' = [hash_loops EXCEPT ![n] = g]
      BY <1>7, <2>1, <2>2, <2>3, <2>6, <3>1 DEF Ha!OP_FOR_ITER, Ha!finished, Ha!Incremented
    <3>3. IteratorKept(g, DOMAIN hash)
      BY <1>0, <2>2, <2>6, <3>1, IteratorGoesOn
    <3>4. hash_loops'[n] = g /\ \A i \in 1..n : i # n => hash_loops'[i] = hash_loops[i]
      BY <1>0, <2>1, <3>2
    <3>5. ASSUME NEW i \in 1..n PROVE IteratorKept(hash_loops'[i], DOMAIN hash')
      <4>1. CASE i = n
        BY <2>4, <3>3, <3>4, <4>1
      <4>2. CASE i # n
        BY <2>1, <2>4, <3>4, <4>2 DEF HashKept
      <4> QED
        BY <4>1, <4>2
    <3>6. hash_loops' = [i \in DOMAIN hash_loops |-> hash_loops'[i]]
      BY <1>0, <3>2
    <3>7. DOMAIN hash' \subseteq Keys
      BY <1>0, <2>4
    <3> QED
      BY <2>1, <3>5, <3>6, <3>7, IteratorsStay
  <2> QED
    BY <2>5, <2>6
<1> QED
  BY <1>1, <1>2, <1>3, <1>4, <1>5, <1>6, <1>7 DEF Ha!Next

LEMMA LiteralsKeepFirst == Ha!LiteralStep
<1> SUFFICES ASSUME NEW pairs \in Ha!Literals, Ha!MakeHash(pairs), NEW i \in DOMAIN pairs,
                    \A j \in 1..i - 1 : pairs[j][1] # pairs[i][1]
             PROVE  hash'[pairs[i][1]] = pairs[i][2]
  BY DEF Ha!LiteralStep
<1>1. PICK h : h = hash' /\ h = Ha!Made(pairs)
  BY DEF Ha!MakeHash
<1> QED
  BY <1>1, LiteralIs

THEOREM LoopsKeepPlaceCorrect ==
  ASSUME MapChanges \subseteq {"pop", "shift"}, ~DeletesAny
  PROVE  PartsSpec => LoopsKeepPlace
<1> USE PartsAssumption
<1> DEFINE Kept == ItemsKept /\ LoopsKept /\ HashKept
           Fine == /\ part = "arrays" => Ar!ForeachStep /\ Ar!WalkStep
                   /\ part = "hashes" => Ha!EachKeyStep /\ Ha!IteratorIsNext /\ Ha!LiteralStep
<1>1. PartsInit => Kept
  <2> SUFFICES ASSUME PartsInit PROVE Kept
    OBVIOUS
  <2>1. ItemsKept
    BY ListInit DEF PartsInit
  <2>2. array_loops = << >> /\ hash = << >> /\ hash_loops = << >>
    BY DEF PartsInit, Ar!Init, Ha!Init
  <2>3. /\ array_loops \in Seq(ArrayLoop) /\ hash_loops \in Seq(HashLoop) /\ DOMAIN hash = {}
        /\ 1..Len(array_loops) = {} /\ 1..Len(hash_loops) = {}
    BY <2>2
  <2> QED
    BY <2>1, <2>3 DEF ItemsKept, LoopsKept, HashKept
<1>2. Kept /\ [PartsNext]_<< part, vars, stringVars, arrayVars, hashVars >> => Kept' /\ [Fine]_<< arrayVars, hashVars >>
  <2> SUFFICES ASSUME Kept, [PartsNext]_<< part, vars, stringVars, arrayVars, hashVars >>
               PROVE  Kept' /\ [Fine]_<< arrayVars, hashVars >>
    OBVIOUS
  <2>1. CASE ArraysStep
    <3>1. part = "arrays" /\ Ar!Next /\ UNCHANGED hashVars
      BY <2>1 DEF ArraysStep
    <3>2. ItemsKept'
      BY <3>1, ListStep
    <3>3. LoopsKept' /\ Ar!ForeachStep /\ Ar!WalkStep
      BY <3>1, MethodsKeepLoops, LoopActionsKeepLoops DEF Ar!Next, LoopsFine
    <3>4. HashKept'
      BY <3>1 DEF hashVars, HashKept
    <3> QED
      BY <3>1, <3>2, <3>3, <3>4
  <2>2. CASE HashesStep
    <3>1. part = "hashes" /\ Ha!Next /\ UNCHANGED arrayVars
      BY <2>2 DEF HashesStep
    <3>2. HashKept' /\ Ha!EachKeyStep /\ Ha!IteratorIsNext
      BY <3>1, HashStep DEF HashFine
    <3>3. ItemsKept' /\ LoopsKept'
      BY <3>1 DEF arrayVars, ItemsKept, LoopsKept
    <3> QED
      BY <3>1, <3>2, <3>3, LiteralsKeepFirst
  <2>3. CASE UNCHANGED << arrayVars, hashVars >>
    <3>1. UNCHANGED << items, array_loops, hash, hash_loops >>
      BY <2>3 DEF arrayVars, hashVars
    <3>2. ItemsKept' /\ LoopsKept' /\ HashKept'
      BY <3>1 DEF ItemsKept, LoopsKept, HashKept
    <3> QED
      BY <2>3, <3>2
  <2>4. ArraysStep \/ HashesStep \/ UNCHANGED << arrayVars, hashVars >>
    BY DEF PartsNext, BuiltinsStep, StringsStep
  <2> QED
    BY <2>1, <2>2, <2>3, <2>4
<1>3. PartsSpec => [][Fine]_<< arrayVars, hashVars >>
  BY <1>1, <1>2, PTL DEF PartsSpec
<1> QED
  BY <1>3 DEF LoopsKeepPlace
=============================================================================
