---------------------------- MODULE LemonParser ----------------------------
(***************************************************************************)
(* The parser that lemon generates (tora/lempar.c), run on the tables of   *)
(* module LemonTables and driven as VM::eval and main drive tora::Parser:  *)
(* tokens one at a time, "$" last, then the failure flags and the root.    *)
(* A semantic value is the tree of what was reduced.                       *)
(***************************************************************************)
EXTENDS LemonTables

CONSTANTS
  YYSTACKDEPTH,   \* entries of the parser's stack
  MaxTokens       \* bound: tokens before "$"

ParserAssumption == {YYSTACKDEPTH, MaxTokens} \subseteq Nat

VARIABLES
  tab,       \* the tables of the generated parser
  stack,     \* yystack[0..yyidx]; empty when yyidx < 0
  yyerrcnt,
  yymajor,   \* the token Parse works on, None between calls
  yyerrorhit,
  state,     \* ParserState: errors, failure, root_node
  word,      \* history: the tokens given
  sentences, \* history: sentences, if no action was dropped from the tables
  good,      \* history: tokens shifted since the last syntax error, None if there was none
  report,    \* history: of the last error, the tokens shifted since the one before, and was it reported
  overflowed \* history: yyStackOverflow was called

historyVars == << word, sentences, good, report, overflowed >>
parserVars == << tab, stack, yyerrcnt, yymajor, yyerrorhit, state, historyVars >>
lemonVars == << buildVars, tableVars >>

Entry(stateno, major, minor) == [stateno |-> stateno, major |-> major, minor |-> minor]

\* Semantic values: a token by its place in the input, or a rule and the values it reduced.
Leaf(major, place) == [major |-> major, place |-> place]
Node(rule, kids) == [major |-> gram.rules[rule].lhs, rule |-> rule, kids |-> kids]
NoTree == << >>

\* YYERRORSYMBOL is defined: lemp->errsym->useCnt is not 0.
HasErrorSymbol == \E r \in Rules(gram) : \E i \in DOMAIN Rhs(gram, r) : Rhs(gram, r)[i] = << gram.errsym >>

\* The generated parser has not been made.
NewParser ==
  /\ tab = << >> /\ stack = << >> /\ yyerrcnt = -1 /\ yymajor = None /\ yyerrorhit = FALSE
  /\ state = [errors |-> 0, failure |-> FALSE, root |-> NoTree]
  /\ word = << >> /\ sentences = {} /\ good = None /\ report = [shifted |-> None, reported |-> TRUE]
  /\ overflowed = FALSE

InitParser == InitTables /\ NewParser

Generate == TablesNext /\ UNCHANGED parserVars

\* No action was dropped in favour of another one, and no token is taken for another one.
Faithful ==
  /\ nconflict = 0 /\ errorcnt = 0 /\ gram.wildcard = None /\ ~HasErrorSymbol
  /\ \A x \in DOMAIN gram.fallback : gram.fallback[x] = 0
  /\ \A q \in DOMAIN acts : \A i \in DOMAIN acts[q] : acts[q][i].type \notin {"SH_RESOLVED", "RD_RESOLVED"}

\* The generated file is compiled; lemon's own data is gone.
Compile ==
  /\ phase = "done"
  /\ phase' = "parse"
  /\ tab' = Tables
  /\ sentences' = IF Faithful THEN Sentences(gram, MaxTokens + 2) ELSE {}
  /\ lambda' = {} /\ first' = << >> /\ states' = << >> /\ todo' = << >> /\ fws' = << >> /\ links' = {}
  /\ backlinks' = {} /\ acts' = << >> /\ info' = << >> /\ sorted' = << >> /\ aAction' = << >> /\ nAction' = 0
  /\ follow' = [rest |-> << >>, incomplete |-> {}, progress |-> FALSE] /\ at' = 1
  /\ UNCHANGED << gram, nconflict, errorcnt, opts, axsets, stack, yyerrcnt, yymajor, yyerrorhit, state,
                  word, good, report, overflowed >>

-----------------------------------------------------------------------------
(* The tables and the stack. *)

TopOf(stk) == stk[Len(stk)]

\* State number s has the default action on every token.
\* Mutant: so has the last state that has an offset.
WithoutLast(s) == s + 1 >= Len(tab.shift.ofst)
WithoutOffset(s) == s + 1 > Len(tab.shift.ofst)

RECURSIVE yy_find_shift_action(_, _)
yy_find_shift_action(stateno, x) ==
  LET n == stateno + 1
      hit(i, y) == i \in 0..(Len(tab.action) - 1) /\ tab.lookahead[i + 1] = y
  IN
  IF WithoutOffset(stateno) \/ tab.shift.ofst[n] = tab.shift.dflt THEN tab.default[n]
  ELSE LET ofst == tab.shift.ofst[n] IN
       IF hit(ofst + x, x) THEN tab.action[ofst + x + 1]
       ELSE IF x > 0 /\ gram.fallback[x] # 0 THEN yy_find_shift_action(stateno, gram.fallback[x])
       ELSE IF x > 0 /\ gram.wildcard # None /\ hit(ofst + gram.wildcard, gram.wildcard)
            THEN tab.action[ofst + gram.wildcard + 1]
       ELSE tab.default[n]

yy_find_reduce_action(stateno, x) == Found(tab, tab.reduce, stateno, x)

\* The stack after yy_shift: yyStackOverflow empties it.
yy_shift(stk, stateno, major, minor) ==
  IF Len(stk) >= YYSTACKDEPTH THEN << >> ELSE Append(stk, Entry(stateno, major, minor))
Overflows(stk) == Len(stk) >= YYSTACKDEPTH

\* %syntax_error, %stack_overflow and %parse_failure of tora/parser.yy.
CountError(st, yes) == IF yes THEN [st EXCEPT !.errors = @ + 1] ELSE st
yyStackOverflow(st, yes) == CountError(st, yes)
Fail(st) == [st EXCEPT !.failure = TRUE]

\* The stack without what yy_pop_parser_stack takes off until `error' can be shifted.
RECURSIVE Unwound(_)
Unwound(stk) ==
  IF stk = << >> \/ yy_find_reduce_action(TopOf(stk).stateno, gram.errsym) < tab.nstate THEN stk
  ELSE Unwound(Front(stk))

-----------------------------------------------------------------------------
(* Parse. *)

Ended == phase = "parse" /\ yymajor = None /\ word # << >> /\ Last(word) = 0
Running == phase = "parse" /\ yymajor # None
Act == yy_find_shift_action(TopOf(stack).stateno, yymajor)

\* The scanner gives a token; an empty stack is (re)initialized.
Give(t) ==
  /\ phase = "parse" /\ yymajor = None /\ ~Ended
  /\ t # 0 => Len(word) < MaxTokens
  /\ yymajor' = t /\ yyerrorhit' = FALSE
  /\ word' = Append(word, t)
  /\ IF stack = << >>
     THEN /\ stack' = << Entry(0, 0, NoTree) >>
          /\ yyerrcnt' = -1 /\ good' = None
     ELSE UNCHANGED << stack, yyerrcnt, good >>
  /\ UNCHANGED << lemonVars, tab, state, sentences, report, overflowed >>

\* The stack without the right-hand side of a rule.
Popped(stk, n) == SubSeq(stk, 1, Len(stk) - n)

\* The values its action gets.
Handle(stk, n) == [i \in 1..n |-> stk[Len(stk) - n + i].minor]

\* The loop ends when the token is used or the stack is empty.
Loop(stk, major) == IF stk = << >> THEN None ELSE major

Shifting ==
  /\ Running /\ Act < tab.nstate
  /\ stack' = yy_shift(stack, Act, yymajor, Leaf(yymajor, Len(word)))
  /\ overflowed' = (overflowed \/ Overflows(stack))
  /\ state' = yyStackOverflow(state, Overflows(stack))
  /\ yyerrcnt' = yyerrcnt - 1
  /\ yymajor' = None
  /\ good' = IF good = None THEN None ELSE good + 1
  /\ UNCHANGED << lemonVars, tab, yyerrorhit, word, sentences, report >>

\* yy_reduce, with the action of the rule: a rule of the start symbol sets the root.
yy_reduce ==
  LET rule == Act - tab.nstate + 1
      lhs == tab.rules[rule].lhs
      n == tab.rules[rule].nrhs
      tree == Node(rule, Handle(stack, n))
      below == Popped(stack, n)
      goto == yy_find_reduce_action(TopOf(below).stateno, lhs)
      accepts == goto >= tab.nstate
      stk == IF accepts THEN << >> ELSE yy_shift(below, goto, lhs, tree)
      over == ~accepts /\ Overflows(below)
  IN
  /\ Running /\ Act \in tab.nstate..(tab.nstate + tab.nrule - 1)
  /\ stack' = stk
  /\ overflowed' = (overflowed \/ over)
  /\ state' = yyStackOverflow(IF lhs = StartSymbol(gram) THEN [state EXCEPT !.root = tree] ELSE state, over)
  /\ yymajor' = Loop(stk, yymajor)
  /\ UNCHANGED << lemonVars, tab, yyerrcnt, yyerrorhit, word, sentences, good, report >>

Reported(yes) ==
  /\ report' = [shifted |-> good, reported |-> yes]
  /\ good' = 0

IsError == Running /\ Act >= tab.nstate + tab.nrule

\* Whether an error is reported when yyerrcnt is n, in a grammar without `error'.
\* Mutant: only after one more token.
TellLate(n) == n < 0
Tell(n) == n <= 0

\* A syntax error in a grammar without `error': the token is thrown away.
yy_syntax_error ==
  LET tell == Tell(yyerrcnt) IN
  /\ IsError /\ ~HasErrorSymbol
  /\ Reported(tell)
  /\ state' = IF yymajor = 0 THEN Fail(CountError(state, tell)) ELSE CountError(state, tell)
  /\ stack' = IF yymajor = 0 THEN << >> ELSE stack
  /\ yyerrcnt' = 3
  /\ yymajor' = None
  /\ UNCHANGED << lemonVars, tab, yyerrorhit, word, sentences, overflowed >>

\* The token is thrown away when `error' is on the stack already.
Discards == TopOf(stack).major = gram.errsym \/ yyerrorhit

\* A syntax error in a grammar with it.
Recover ==
  LET tell == yyerrcnt < 0
      told == CountError(state, tell)
      down == Unwound(stack)
  IN
  /\ IsError /\ HasErrorSymbol
  /\ Reported(tell)
  /\ yyerrcnt' = 3 /\ yyerrorhit' = TRUE
  /\ \/ /\ Discards
        /\ yymajor' = None /\ state' = told
        /\ UNCHANGED << stack, overflowed >>
     \/ /\ ~Discards /\ (down = << >> \/ yymajor = 0)
        /\ yymajor' = None /\ state' = Fail(told) /\ stack' = << >>
        /\ UNCHANGED overflowed
     \/ /\ ~Discards /\ down # << >> /\ yymajor # 0
        /\ stack' = yy_shift(down, yy_find_reduce_action(TopOf(down).stateno, gram.errsym), gram.errsym, NoTree)
        /\ overflowed' = (overflowed \/ Overflows(down))
        /\ state' = yyStackOverflow(told, Overflows(down))
        /\ yymajor' = Loop(stack', yymajor)
  /\ UNCHANGED << lemonVars, tab, word, sentences >>

ParseStep == Shifting \/ yy_reduce \/ yy_syntax_error \/ Recover

ParserNext ==
  \/ Generate \/ Compile \/ ParseStep
  \/ phase = "parse" /\ \E t \in Terminals \ {gram.wildcard} : Give(t)

allVars == << lemonVars, parserVars >>
ParserSpec == InitParser /\ [][ParserNext]_allVars /\ WF_allVars(ParseStep)

-----------------------------------------------------------------------------

RECURSIVE Yield(_)
Yield(m) ==
  IF m = NoTree THEN << >> ELSE IF "place" \in DOMAIN m THEN << m.place >>
  ELSE FlattenSeq([i \in DOMAIN m.kids |-> Yield(m.kids[i])])

\* A token x may stand where the grammar says y.
RECURSIVE StandsFor(_, _)
StandsFor(x, y) ==
  x = y \/ (x \in DOMAIN gram.fallback /\ (y = gram.wildcard \/ (gram.fallback[x] # 0 /\ StandsFor(gram.fallback[x], y))))

RECURSIVE WellFormed(_)
WellFormed(m) ==
  "place" \in DOMAIN m \/
  LET rhs == Rhs(gram, m.rule) IN
  /\ Len(m.kids) = Len(rhs)
  /\ \A i \in DOMAIN rhs : (\E y \in ToSet(rhs[i]) : StandsFor(m.kids[i].major, y)) /\ WellFormed(m.kids[i])

is_failure == state.failure \/ state.errors > 0

\* Until the first error the trees on the stack are trees of the grammar, and read
\* from left to right they are the tokens shifted: no reduction takes too much or
\* too little off yystack, and no goto leads to the state of another symbol.
StackYields ==
  (phase = "parse" /\ stack # << >> /\ ~is_failure) =>
    /\ \A i \in 2..Len(stack) : WellFormed(stack[i].minor) /\ stack[i].minor.major = stack[i].major
    /\ FlattenSeq([i \in DOMAIN stack |-> Yield(stack[i].minor)])
         = [i \in 1..(Len(word) - (IF yymajor = None THEN 0 ELSE 1)) |-> i]

\* assert(parser.root_node()) in main, after is_failure(): an input that passes has
\* a root, which is a tree of the whole input, also when the stack overflowed and the
\* rest of the input was parsed as a program of its own.
RootWhenClean ==
  (Ended /\ ~is_failure) =>
    /\ state.root # NoTree /\ state.root.major = StartSymbol(gram)
    /\ WellFormed(state.root)
    /\ Yield(state.root) = [i \in 1..(Len(word) - 1) |-> i]

\* Without conflicts the parser accepts the sentences of the grammar and nothing else.
AcceptsLanguage ==
  (Ended /\ sentences # {} /\ ~overflowed) => (~is_failure <=> Front(word) \in sentences)

\* An error is found at the first token that no sentence can have there: default
\* reductions come earlier, but nothing is shifted.
ViablePrefix ==
  (phase = "parse" /\ sentences # {} /\ stack # << >> /\ ~is_failure /\ yymajor = None) =>
    \E w \in sentences : IsPrefix(word, w)

\* An operator under another one, on its left or right, binds tighter or associates there.
Operator(m) ==
  IF "kids" \in DOMAIN m /\ Len(m.kids) = 3 /\ gram.prec[m.kids[2].major] >= 0 THEN m.kids[2].major ELSE None

RECURSIVE Grouped(_)
Grouped(m) ==
  "place" \in DOMAIN m \/
  LET op == Operator(m)
      under(kid, assoc) == LET o == Operator(kid) IN
        o = None \/ op = None \/ gram.prec[o] > gram.prec[op] \/ (gram.prec[o] = gram.prec[op] /\ gram.assoc[op] = assoc)
  IN /\ \A i \in DOMAIN m.kids : Grouped(m.kids[i])
     /\ op # None => under(m.kids[1], "LEFT") /\ under(m.kids[3], "RIGHT")

\* What %left and %right of a grammar file say of expressions, seen in the trees.
PrecedenceShape == (Ended /\ ~is_failure /\ nconflict = 0) => Grouped(state.root)

\* lempar.c: "subsequent error messages are suppressed until three input tokens have
\* been successfully shifted", and no longer.
ErrorsSpaced == report.shifted = None \/ (report.reported <=> report.shifted >= 3)

\* For a grammar with `error': "No new error processing will occur until three tokens
\* have been shifted successfully"; after three the next error is processed.
ThreeTokens == (report.shifted # None /\ HasErrorSymbol) => (report.reported <=> report.shifted >= 3)

\* Each call of Parse returns.
ParseReturns == Running ~> ~Running
=============================================================================
