------------------------------ MODULE Builtins ------------------------------
(***************************************************************************)
(* Built-in functions of tora that look at the machine or at their         *)
(* arguments (builtin.cc, printf.cc, VM::get_self), and the symbol table.  *)
(* A program calls and returns, enters and leaves blocks, and calls these. *)
(***************************************************************************)
EXTENDS Integers, Sequences, FiniteSets

CONSTANTS
  Codes,       \* functions and methods
  Objects,     \* what methods are called on
  Blocks,      \* the other frame types: LEXICAL, TRY, FOREACH, ...
  Names,       \* texts of symbols
  Reserved,    \* the names symbols.gen.pl numbers first, in order
  MaxFrames,   \* bound: length of frame_stack
  MaxArgs      \* bound: arguments and conversions of sprintf, argument of rand

\* symbols.gen.pl lists no name twice.
ASSUME ReservedAssumption ==
  /\ Reserved \in Seq(Names)
  /\ \A i, j \in DOMAIN Reserved : Reserved[i] = Reserved[j] => i = j

\* FUNCTION is a frame type of its own.
ASSUME BuiltinsAssumption == "FUNCTION" \notin Blocks /\ {MaxFrames, MaxArgs} \subseteq Nat

VARIABLES
  frames,    \* frame_stack, the innermost frame last: [type, code, self]
  calls,     \* the calls that have not returned, as the program made them: [code, self]
  tbl,       \* SymbolTable: names to numbers
  rev_tbl,   \* and back
  counter,
  last       \* the last built-in called: [name, args, result]

vars == << frames, calls, tbl, rev_tbl, counter, last >>

NoObject == "no object"
Undef == [undef |-> TRUE]
Threw(what) == [threw |-> what]
Nothing == [name |-> "none"]

Init ==
  /\ frames = << >> /\ calls = << >> /\ last = Nothing
  /\ tbl = [s \in {Reserved[i] : i \in DOMAIN Reserved} |-> (CHOOSE i \in DOMAIN Reserved : Reserved[i] = s) - 1]
  /\ rev_tbl = [id \in 0..Len(Reserved)-1 |-> Reserved[id+1]]
  /\ counter = Len(Reserved)

-----------------------------------------------------------------------------
\* function_call and the call of a method: self is NULL for a function.
Call(code, self) ==
  /\ Len(frames) < MaxFrames
  /\ frames' = Append(frames, [type |-> "FUNCTION", code |-> code, self |-> self])
  /\ calls' = Append(calls, [code |-> code, self |-> self])
  /\ UNCHANGED << tbl, rev_tbl, counter, last >>

Enter(type) ==
  /\ Len(frames) < MaxFrames
  /\ frames' = Append(frames, [type |-> type, code |-> Undef, self |-> NoObject])
  /\ UNCHANGED << calls, tbl, rev_tbl, counter, last >>

Innermost(n) == SubSeq(frames, 1, n)

Leave ==
  /\ frames # << >> /\ frames[Len(frames)].type # "FUNCTION"
  /\ frames' = Innermost(Len(frames) - 1)
  /\ UNCHANGED << calls, tbl, rev_tbl, counter, last >>

\* Every frame goes up to that of the function.
Return ==
  /\ calls # << >>
  /\ \E n \in DOMAIN frames :
       /\ frames[n].type = "FUNCTION" /\ \A m \in n+1..Len(frames) : frames[m].type # "FUNCTION"
       /\ frames' = Innermost(n - 1)
  /\ calls' = SubSeq(calls, 1, Len(calls) - 1)
  /\ UNCHANGED << tbl, rev_tbl, counter, last >>

Gives(name, args, result) == last' = [name |-> name, args |-> args, result |-> result]
OnlyGives(name, args, result) == Gives(name, args, result) /\ UNCHANGED << frames, calls, tbl, rev_tbl, counter >>

\* The function frames from the innermost on.
Functions ==
  LET f[n \in 0..Len(frames)] ==
        IF n = 0 THEN << >>
        ELSE IF frames[n].type = "FUNCTION" THEN << frames[n] >> \o f[n-1] ELSE f[n-1]
  IN  f[Len(frames)]

CodesOf(fs) == [n \in DOMAIN fs |-> fs[n].code]

callee == OnlyGives("callee", << >>, IF Functions = << >> THEN Undef ELSE Functions[1].code)

\* caller(): all but the function itself.
CallerAll == IF Functions = << >> THEN << >> ELSE CodesOf(Tail(Functions))

\* Mutant: seen is compared with what was asked for.
NeedsItself(n) == n

\* caller(n): the function frame with n + 1 before it.
Needs(n) == n + 1

CallerAt(n) == IF Needs(n) + 1 \in DOMAIN Functions THEN Functions[Needs(n) + 1].code ELSE Undef

caller == OnlyGives("caller", << >>, CallerAll)
CallerOf(n) == OnlyGives("caller", << n >>, CallerAt(n))

\* VM::get_self: the self of the innermost function, undef when it has none.
self ==
  OnlyGives("self", << >>,
    IF Functions = << >> THEN Threw("Cannot call 'self' method out of method.")
    ELSE IF Functions[1].self = NoObject THEN Undef ELSE Functions[1].self)

\* rand($n Int): uniform_int_distribution has both its bounds.
rand(n) == \E r \in 0..n : OnlyGives("rand", << n >>, r)

\* rand of something else, or of more: the exception is returned.
Returned(what) == [returned |-> what]
rand_other ==
  \E what \in {"Invalid arguments for rand()", "Too many arguments for rand()"} :
    OnlyGives("rand", << >>, Returned(what))

-----------------------------------------------------------------------------
(* sprintf: a pattern is a sequence of what it is made of, args come after the pattern. *)

Conversions == {"%s", "%d"}
Units == Conversions \union {"%%", "x", "%x", "%"}

Takes(unit) == unit \in Conversions

BadPattern == Threw("Bad printf pattern")

\* ret and param_i after n units, or the exception.  % is the last character of a pattern.
Sprintf(pattern, args) ==
  LET s[n \in 0..Len(pattern)] ==
        IF n = 0 THEN [ret |-> << >>, param |-> 1]
        ELSE LET before == s[n-1]  unit == pattern[n] IN
          IF "threw" \in DOMAIN before THEN before
          ELSE IF unit = "%" THEN BadPattern
          ELSE IF unit = "%x" THEN Threw("unknown printf pattern character")
          ELSE IF Takes(unit)
          THEN IF before.param > Len(args) THEN BadPattern
               ELSE [ret |-> Append(before.ret, << unit, args[before.param] >>), param |-> before.param + 1]
          ELSE [before EXCEPT !.ret = Append(@, << unit, 0 >>)]
  IN  s[Len(pattern)]

sprintf(pattern, args) == OnlyGives("sprintf", << pattern, args >>, Sprintf(pattern, args))

Patterns == {p \in UNION {[1..n -> Units] : n \in 0..MaxArgs} : \A i \in 1..Len(p) - 1 : p[i] # "%"}

-----------------------------------------------------------------------------
\* Mutant: a number is given twice.
KeepsCounter == counter

NextCounter == counter + 1

With(f, k, v) == [x \in DOMAIN f \union {k} |-> IF x = k THEN v ELSE f[x]]

get_id(s) ==
  /\ IF s \in DOMAIN tbl THEN UNCHANGED << tbl, rev_tbl, counter >>
     ELSE /\ tbl' = With(tbl, s, counter)
          /\ rev_tbl' = With(rev_tbl, counter, s)
          /\ counter' = NextCounter
  /\ Gives("get_id", << s >>, tbl'[s])
  /\ UNCHANGED << frames, calls >>

Next ==
  \/ \E code \in Codes, obj \in Objects \union {NoObject} : Call(code, obj)
  \/ \E type \in Blocks : Enter(type)
  \/ Leave \/ Return
  \/ callee \/ caller \/ self \/ rand_other
  \/ \E n \in 0..MaxArgs : CallerOf(n) \/ rand(n)
  \/ \E p \in Patterns, n \in 0..MaxArgs : sprintf(p, [i \in 1..n |-> i])
  \/ \E s \in Names : get_id(s)

Spec == Init /\ [][Next]_vars

-----------------------------------------------------------------------------
(* Properties. *)

Reversed(s) == [i \in DOMAIN s |-> s[Len(s) + 1 - i]]

\* builtin_caller, builtin_callee (builtin.cc:130-178): whatever blocks are open in between, they
\* speak of the calls the program made, and caller(n) is the n-th of caller().
CallersAreCalls == LET made == CodesOf(Reversed(calls)) IN
  /\ CodesOf(Functions) = made
  /\ CallerAll = IF made = << >> THEN << >> ELSE Tail(made)
  /\ \A n \in 0..MaxArgs : CallerAt(n) = IF n + 1 \in DOMAIN CallerAll THEN CallerAll[n+1] ELSE Undef

\* tora_sprintf (printf.cc:8-53): it throws if there is no argument for a conversion or a
\* conversion it does not know, and else gives each unit in its place, the k-th conversion with the
\* k-th argument.
SprintfFills == last.name = "sprintf" =>
  LET pattern == last.args[1]  args == last.args[2]  result == last.result
      before(i) == {j \in 1..i : pattern[j] \in Conversions}
      number(i) == Cardinality(before(i))
  IN  IF "threw" \in DOMAIN result
      THEN \/ \E i \in DOMAIN pattern : pattern[i] \in {"%", "%x"}
           \/ number(Len(pattern)) > Len(args)
      ELSE /\ Len(result.ret) = Len(pattern)
           /\ \A i \in DOMAIN pattern :
                result.ret[i] = << pattern[i], IF pattern[i] \in Conversions THEN args[number(i)] ELSE 0 >>

\* "Convert ID to :symbol." (symbol_table.h): the two tables are each other's inverse, so that no
\* two names share a number, the reserved ones included.
TablesInverse ==
  /\ \A s \in DOMAIN tbl : tbl[s] \in DOMAIN rev_tbl /\ rev_tbl[tbl[s]] = s
  /\ \A id \in DOMAIN rev_tbl : rev_tbl[id] \in DOMAIN tbl /\ tbl[rev_tbl[id]] = id
  /\ \A i \in DOMAIN Reserved : rev_tbl[i-1] = Reserved[i]

\* "rand($n :Int) returns [0, $n) in Int value." (builtin.cc:79)
RandBelow == last.name = "rand" /\ last.args # << >> /\ last.args[1] > 0 => last.result < last.args[1]

\* "Cannot call 'self' method out of method." (vm.cc:510): a function that is no method has no self.
SelfInMethods == last.name = "self" => last.result # Undef
=============================================================================
