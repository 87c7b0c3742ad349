----------------------------- MODULE LemonInput -----------------------------
(***************************************************************************)
(* How lemon reads a grammar: parseonetoken (lemon.c), one step for a      *)
(* token, and the exit of main when there were errors.  A token is a word: *)
(* a name, a declaration's keyword, a punctuation, or a piece of text in   *)
(* braces or quotes.  Line numbers and #line macros are left out.          *)
(***************************************************************************)
EXTENDS Integers, Sequences, FiniteSets, TLC

CONSTANTS
  Terminals,      \* names in upper case
  Nonterminals,   \* names in lower case, keywords among them
  Texts,          \* {...} and "..."
  Compounds,      \* |NAME and /NAME -> the name, which is empty after a | or / alone
  Tokens,         \* the tokens the input is made of
  MAXRHS,         \* the longest right side, 1000
  MaxTokens,      \* bound: length of the input
  MaxErrors       \* bound: errors in the input

Punctuation == {"%", "[", "]", "(", ")", "::=", "."}

LemonInputAssumption ==
  Tokens \subseteq Terminals \union Nonterminals \union Texts \union DOMAIN Compounds \union Punctuation

VARIABLES
  input,   \* the tokens read so far
  ps,      \* struct pstate
  gp,      \* struct lemon
  status   \* exit status of main, or Running

vars == << input, ps, gp, status >>

None == "none"
Running == -1
NoRule == 0

\* isalpha, islower and isupper of the first character
Alpha == Terminals \union Nonterminals

Globals == {"name", "include", "code", "token_destructor", "default_destructor", "token_prefix",
            "syntax_error", "parse_accept", "parse_failure", "stack_overflow", "extra_argument",
            "token_type", "default_type", "stack_size", "start_symbol"}
Associations == {"left", "right", "nonassoc"}

\* slots: declarations, of the grammar or of a symbol -> the arguments, one after the other.
InitialSymbol == [prec |-> -1, assoc |-> "unk", fallback |-> None, rules |-> << >>]

Init ==
  /\ input = << >>
  /\ ps = [state |-> "INITIALIZE", errorcnt |-> 0, lhs |-> None, lhsalias |-> None, rhs |-> << >>,
           prevrule |-> NoRule, slot |-> << >>, declassoc |-> "unk", preccounter |-> 0, fallback |-> None]
  /\ gp = [rule |-> << >>, symbol |-> [x \in {"error"} |-> InitialSymbol], slots |-> << >>,
           wildcard |-> None, has_fallback |-> FALSE]
  /\ status = Running

-----------------------------------------------------------------------------
GoesTo(s) == ps' = [ps EXCEPT !.state = s]
Fails(s) == ps' = [ps EXCEPT !.state = s, !.errorcnt = @ + 1]

Symbol_new(symbol, x) == IF x \in DOMAIN symbol THEN symbol ELSE symbol @@ (x :> InitialSymbol)
MakesSymbol(x) == gp' = [gp EXCEPT !.symbol = Symbol_new(@, x)]

\* The list a declaration's argument goes to the end of.
Slot(slot) == IF slot \in DOMAIN gp.slots THEN gp.slots[slot] ELSE << >>

In(s) == ps.state = s
AtStart == ps.state \in {"INITIALIZE", "WAITING_FOR_DECL_OR_RULE"}

\* INITIALIZE falls through to what follows it.
DeclOrRule(x) ==
  /\ AtStart
  /\ \/ x = "%" /\ GoesTo("WAITING_FOR_DECL_KEYWORD") /\ UNCHANGED gp
     \/ /\ x \in Nonterminals
        /\ ps' = [ps EXCEPT !.lhs = x, !.rhs = << >>, !.lhsalias = None, !.state = "WAITING_FOR_ARROW"]
        /\ MakesSymbol(x)
     \/ /\ x \in Texts
        /\ IF ps.prevrule # NoRule /\ gp.rule[ps.prevrule].code = None
           THEN gp' = [gp EXCEPT !.rule[ps.prevrule].code = x] /\ UNCHANGED ps
           ELSE Fails(ps.state) /\ UNCHANGED gp
     \/ x = "[" /\ GoesTo("PRECEDENCE_MARK_1") /\ UNCHANGED gp
     \/ x \notin Nonterminals \union Texts \union {"%", "["} /\ Fails(ps.state) /\ UNCHANGED gp

PrecedenceMark1(x) ==
  /\ In("PRECEDENCE_MARK_1")
  /\ IF x \in Terminals /\ ps.prevrule # NoRule /\ gp.rule[ps.prevrule].precsym = None
     THEN /\ gp' = [gp EXCEPT !.rule[ps.prevrule].precsym = x, !.symbol = Symbol_new(@, x)]
          /\ GoesTo("PRECEDENCE_MARK_2")
     ELSE Fails("PRECEDENCE_MARK_2") /\ UNCHANGED gp

PrecedenceMark2(x) ==
  /\ In("PRECEDENCE_MARK_2") /\ UNCHANGED gp
  /\ IF x = "]" THEN GoesTo("WAITING_FOR_DECL_OR_RULE") ELSE Fails("WAITING_FOR_DECL_OR_RULE")

RuleFails == Fails("RESYNC_AFTER_RULE_ERROR") /\ UNCHANGED gp
DeclFails == Fails("RESYNC_AFTER_DECL_ERROR") /\ UNCHANGED gp

WaitingForArrow(x) ==
  /\ In("WAITING_FOR_ARROW")
  /\ \/ x = "::=" /\ GoesTo("IN_RHS") /\ UNCHANGED gp
     \/ x = "(" /\ GoesTo("LHS_ALIAS_1") /\ UNCHANGED gp
     \/ x \notin {"::=", "("} /\ RuleFails

LhsAlias1(x) ==
  /\ In("LHS_ALIAS_1")
  /\ IF x \in Alpha
     THEN ps' = [ps EXCEPT !.lhsalias = x, !.state = "LHS_ALIAS_2"] /\ UNCHANGED gp
     ELSE RuleFails

\* One token is all that may follow.
Expect(s, token, next) == In(s) /\ IF token THEN GoesTo(next) /\ UNCHANGED gp ELSE RuleFails

LhsAlias2(x) == Expect("LHS_ALIAS_2", x = ")", "LHS_ALIAS_3")
LhsAlias3(x) == Expect("LHS_ALIAS_3", x = "::=", "IN_RHS")
RhsAlias2(x) == Expect("RHS_ALIAS_2", x = ")", "IN_RHS")

\* rp->nextlhs = rp->lhs->rule; rp->lhs->rule = rp;
LinksRule(symbol, lhs, new) == [symbol EXCEPT ![lhs].rules = << new >> \o @]

PrevRule(new) == new

\* Without memory there is no rule, and none for the code that may follow.
RuleEnds(x) ==
  /\ In("IN_RHS") /\ x = "."
  /\ \/ LET new == Len(gp.rule) + 1
        IN  /\ gp' = [gp EXCEPT
                 !.rule = Append(@, [lhs |-> ps.lhs, lhsalias |-> ps.lhsalias, rhs |-> ps.rhs, code |-> None,
                                     precsym |-> None, ruleline |-> Len(input) + 1]),
                 !.symbol = LinksRule(@, ps.lhs, new)]
            /\ ps' = [ps EXCEPT !.prevrule = PrevRule(new), !.state = "WAITING_FOR_DECL_OR_RULE"]
     \/ /\ ps' = [ps EXCEPT !.prevrule = NoRule, !.state = "WAITING_FOR_DECL_OR_RULE", !.errorcnt = @ + 1]
        /\ UNCHANGED gp


RhsSymbol(x) == [syms |-> << x >>, alias |-> None]

RhsGrows(x) ==
  /\ In("IN_RHS") /\ x \in Alpha
  /\ IF Len(ps.rhs) >= MAXRHS THEN RuleFails
     ELSE ps' = [ps EXCEPT !.rhs = Append(@, RhsSymbol(x))] /\ MakesSymbol(x)

\* The symbol before it becomes a compound, if it is none.  Only tokens may be in one.
RhsCompound(x) ==
  /\ In("IN_RHS") /\ x \in DOMAIN Compounds /\ ps.rhs # << >>
  /\ LET new == Compounds[x]
         last == ps.rhs[Len(ps.rhs)]
         bad == {new, last.syms[1]} \intersect Nonterminals # {}
     IN  ps' = [ps EXCEPT !.rhs[Len(ps.rhs)].syms = Append(@, new), !.errorcnt = IF bad THEN @ + 1 ELSE @]
         /\ MakesSymbol(new)

RhsOther(x) ==
  /\ In("IN_RHS")
  /\ x \notin Alpha \union {"."} /\ ~(x \in DOMAIN Compounds /\ ps.rhs # << >>)
  /\ IF x = "(" /\ ps.rhs # << >> THEN GoesTo("RHS_ALIAS_1") /\ UNCHANGED gp ELSE RuleFails

RhsAlias1(x) ==
  /\ In("RHS_ALIAS_1")
  /\ IF x \in Alpha
     THEN ps' = [ps EXCEPT !.rhs[Len(ps.rhs)].alias = x, !.state = "RHS_ALIAS_2"] /\ UNCHANGED gp
     ELSE RuleFails

-----------------------------------------------------------------------------
KeywordState == [destructor |-> "WAITING_FOR_DESTRUCTOR_SYMBOL", type |-> "WAITING_FOR_DATATYPE_SYMBOL",
                 fallback |-> "WAITING_FOR_FALLBACK_ID", wildcard |-> "WAITING_FOR_WILDCARD_ID"]

DeclKeyword(x) ==
  /\ In("WAITING_FOR_DECL_KEYWORD")
  /\ \/ x \in Globals /\ ps' = [ps EXCEPT !.slot = << x >>, !.state = "WAITING_FOR_DECL_ARG"] /\ UNCHANGED gp
     \/ /\ x \in Associations /\ UNCHANGED gp
        /\ ps' = [ps EXCEPT !.preccounter = @ + 1, !.declassoc = x, !.state = "WAITING_FOR_PRECEDENCE_SYMBOL"]
     \/ /\ x \in DOMAIN KeywordState /\ UNCHANGED gp
        /\ ps' = [ps EXCEPT !.fallback = IF x = "fallback" THEN None ELSE @, !.state = KeywordState[x]]
     \/ x \notin Globals \union Associations \union DOMAIN KeywordState /\ DeclFails

DestructorSymbol(x) ==
  /\ In("WAITING_FOR_DESTRUCTOR_SYMBOL")
  /\ IF x \in Alpha
     THEN ps' = [ps EXCEPT !.slot = << "destructor", x >>, !.state = "WAITING_FOR_DECL_ARG"] /\ MakesSymbol(x)
     ELSE DeclFails

\* A symbol has one type.
DatatypeSymbol(x) ==
  /\ In("WAITING_FOR_DATATYPE_SYMBOL")
  /\ IF x \in Alpha /\ Slot(<< "type", x >>) = << >>
     THEN ps' = [ps EXCEPT !.slot = << "type", x >>, !.state = "WAITING_FOR_DECL_ARG"] /\ MakesSymbol(x)
     ELSE DeclFails

DeclArg(x) ==
  /\ In("WAITING_FOR_DECL_ARG")
  /\ IF x \in Texts \union Alpha
     THEN /\ gp' = [gp EXCEPT !.slots = (ps.slot :> Append(Slot(ps.slot), x)) @@ @]
          /\ GoesTo("WAITING_FOR_DECL_OR_RULE")
     ELSE DeclFails

\* Lists of tokens to the next period.  A token that is wrong is an error and the list goes on.
InList(s, x) == In(s) /\ x # "."
ListEnds(x) ==
  /\ x = "."
  /\ ps.state \in {"WAITING_FOR_PRECEDENCE_SYMBOL", "WAITING_FOR_FALLBACK_ID", "WAITING_FOR_WILDCARD_ID"}
  /\ GoesTo("WAITING_FOR_DECL_OR_RULE") /\ UNCHANGED gp

NoPrecedenceYet(symbol) == symbol.prec < 0

PrecedenceSymbol(x) ==
  /\ InList("WAITING_FOR_PRECEDENCE_SYMBOL", x)
  /\ IF x \notin Terminals THEN Fails(ps.state) /\ UNCHANGED gp
     ELSE LET symbol == Symbol_new(gp.symbol, x)
          IN  IF NoPrecedenceYet(symbol[x])
              THEN /\ gp' = [gp EXCEPT !.symbol = [symbol EXCEPT ![x].prec = ps.preccounter, ![x].assoc = ps.declassoc]]
                   /\ UNCHANGED ps
              ELSE gp' = [gp EXCEPT !.symbol = symbol] /\ Fails(ps.state)

\* The first token of the list is the fallback of the others.
FallbackId(x) ==
  /\ InList("WAITING_FOR_FALLBACK_ID", x)
  /\ IF x \notin Terminals THEN Fails(ps.state) /\ UNCHANGED gp
     ELSE LET symbol == Symbol_new(gp.symbol, x)
          IN  IF ps.fallback = None
              THEN gp' = [gp EXCEPT !.symbol = symbol] /\ ps' = [ps EXCEPT !.fallback = x]
              ELSE IF symbol[x].fallback # None
              THEN gp' = [gp EXCEPT !.symbol = symbol] /\ Fails(ps.state)
              ELSE /\ gp' = [gp EXCEPT !.symbol = [symbol EXCEPT ![x].fallback = ps.fallback], !.has_fallback = TRUE]
                   /\ UNCHANGED ps

WildcardId(x) ==
  /\ InList("WAITING_FOR_WILDCARD_ID", x)
  /\ IF x \notin Terminals THEN Fails(ps.state) /\ UNCHANGED gp
     ELSE IF gp.wildcard = None
     THEN gp' = [gp EXCEPT !.symbol = Symbol_new(@, x), !.wildcard = x] /\ UNCHANGED ps
     ELSE MakesSymbol(x) /\ Fails(ps.state)

\* After an error all is skipped to the next period or declaration.
Resync(x) ==
  /\ ps.state \in {"RESYNC_AFTER_RULE_ERROR", "RESYNC_AFTER_DECL_ERROR"}
  /\ UNCHANGED gp
  /\ GoesTo(IF x = "." THEN "WAITING_FOR_DECL_OR_RULE"
            ELSE IF x = "%" THEN "WAITING_FOR_DECL_KEYWORD" ELSE ps.state)

-----------------------------------------------------------------------------
parseonetoken(x) ==
  /\ status = Running /\ Len(input) < MaxTokens /\ ps.errorcnt < MaxErrors
  /\ \/ DeclOrRule(x) \/ PrecedenceMark1(x) \/ PrecedenceMark2(x)
     \/ WaitingForArrow(x) \/ LhsAlias1(x) \/ LhsAlias2(x) \/ LhsAlias3(x)
     \/ RuleEnds(x) \/ RhsGrows(x) \/ RhsCompound(x) \/ RhsOther(x) \/ RhsAlias1(x) \/ RhsAlias2(x)
     \/ DeclKeyword(x) \/ DestructorSymbol(x) \/ DatatypeSymbol(x) \/ DeclArg(x)
     \/ ListEnds(x) \/ PrecedenceSymbol(x) \/ FallbackId(x) \/ WildcardId(x) \/ Resync(x)
  /\ input' = Append(input, x)
  /\ UNCHANGED status

\* exit(lem.errorcnt), or exit(1) for a grammar without rules; the system keeps 8 bits of it.
Finish ==
  /\ status = Running
  /\ status' = IF ps.errorcnt # 0 THEN ps.errorcnt % 256 ELSE IF gp.rule = << >> THEN 1 ELSE 0
  /\ UNCHANGED << input, ps, gp >>

Next == (\E x \in Tokens : parseonetoken(x)) \/ Finish

Spec == Init /\ [][Next]_vars

-----------------------------------------------------------------------------
(* Properties. *)

\* In a text that begins at start.
IsAlias(p, start) == p > start /\ input[p-1] = "("

\* The places from start to end, those of the aliases left out.
Places(start, end) ==
  LET w[p \in start-1..end] ==
        IF p = start - 1 THEN << >>
        ELSE IF input[p] \in {"(", ")"} \/ IsAlias(p, start) THEN w[p-1] ELSE Append(w[p-1], p)
  IN  w[end]

\* What is written as x in a compound.
Word(x) == CHOOSE w \in DOMAIN Compounds : Compounds[w] = x

PartWords(part) == << part.syms[1] >> \o [i \in 1..Len(part.syms) - 1 |-> Word(part.syms[i+1])]

\* The words of the first k parts of a right side.
RhsWords(rule) ==
  LET w[k \in 0..Len(rule.rhs)] == IF k = 0 THEN << >> ELSE w[k-1] \o PartWords(rule.rhs[k]) IN w

RuleWords(rule) == << rule.lhs, "::=" >> \o RhsWords(rule)[Len(rule.rhs)] \o << "." >>

\* The last alias between two places.
AliasBetween(p, q) ==
  LET places == {r \in p..q : IsAlias(r, p)}
  IN  IF places = {} THEN None ELSE input[CHOOSE r \in places : \A t \in places : t <= r]

\* parseonetoken "builds all the appropriate data structures" (lemon.c:2488): each rule has the
\* symbols and the aliases of a text that ends on its line.  Nothing of a rule before it, or of
\* one that was in error, is left in it.
RulesAsWritten == \A i \in DOMAIN gp.rule :
  LET rule == gp.rule[i]
  IN  \E start \in 1..rule.ruleline :
        LET places == Places(start, rule.ruleline)
            first(k) == 3 + Len(RhsWords(rule)[k-1])
        IN  /\ [k \in DOMAIN places |-> input[places[k]]] = RuleWords(rule)
            /\ rule.lhsalias = AliasBetween(places[1], places[2])
            /\ \A k \in DOMAIN rule.rhs :
                 rule.rhs[k].alias = AliasBetween(places[first(k)], places[first(k+1)])

\* "not the first to follow the previous rule" (lemon.c:2001, 2028): the code and the precedence
\* mark of a rule come after it, before the rule that follows it.
CodeFollowsRule == \A i \in DOMAIN gp.rule :
  LET end == IF i = Len(gp.rule) THEN Len(input) ELSE gp.rule[i+1].ruleline
  IN  \A x \in {gp.rule[i].code, gp.rule[i].precsym} \ {None} :
        \E p \in gp.rule[i].ruleline..end : input[p] = x

\* lemon.c:2115: a symbol's chain of rules has each rule it is the left side of, once.
LeftSidesLinked == \A x \in DOMAIN gp.symbol :
  LET chain == gp.symbol[x].rules
  IN  /\ {chain[i] : i \in DOMAIN chain} = {n \in DOMAIN gp.rule : gp.rule[n].lhs = x}
      /\ \A i \in 1..Len(chain) - 1 : chain[i] > chain[i+1]

\* The lists of %left, %right and %nonassoc that have begun.
Declarations == {p \in 1..Len(input) - 1 : input[p] = "%" /\ input[p+1] \in Associations}

\* The list that place p of the input is in: the last before it, with no period between.
ListAt(p) == {d \in Declarations : d + 1 < p /\ \A q \in d..p : input[q] # "."}

\* lemon.c:2307-2326: in an input without errors a token's precedence is the number of its
\* declaration, and only a declaration gives one.
PrecedenceIsOrder == ps.errorcnt = 0 => \A x \in Terminals \intersect DOMAIN gp.symbol :
  LET places == {p \in DOMAIN input : input[p] = x /\ ListAt(p) # {}}
  IN  IF places = {} THEN gp.symbol[x].prec = -1
      ELSE \A p \in places : \E d \in ListAt(p) :
             /\ gp.symbol[x].assoc = input[d+1]
             /\ gp.symbol[x].prec = Cardinality({e \in Declarations : e <= d})

\* The tokens a token falls back to, in any number of steps.
FallsBackTo(x) ==
  LET falls[n \in 0..Cardinality(Terminals)] ==
        IF n = 0 THEN {gp.symbol[x].fallback}
        ELSE falls[n-1] \union {gp.symbol[y].fallback : y \in falls[n-1] \ {None}}
  IN  falls[Cardinality(Terminals)]

\* "the type of the token is changed to ID and the parse is retried before an error is thrown"
\* (lempar.c:138): an end of every chain of fallbacks, in a grammar lemon accepts.
FallbacksEnd == ps.errorcnt = 0 => \A x \in DOMAIN gp.symbol : x \notin FallsBackTo(x)

\* "Cannot form a compound containing a non-terminal" (lemon.c:2158): a grammar lemon accepts has
\* compounds of tokens only.
CompoundsOfTokens == ps.errorcnt = 0 => \A i \in DOMAIN gp.rule : \A k \in DOMAIN gp.rule[i].rhs :
  LET part == gp.rule[i].rhs[k]
  IN  Len(part.syms) > 1 => \A j \in DOMAIN part.syms : part.syms[j] \in Terminals

\* "return 0 on success, 1 on failure." (lemon.c:1517): a grammar with errors is no success.
ErrorsFail == status # Running /\ ps.errorcnt > 0 => status # 0
=============================================================================
