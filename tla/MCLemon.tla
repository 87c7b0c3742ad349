------------------------------ MODULE MCLemon ------------------------------
(***************************************************************************)
(* tools/lemon, part by part: the text of a grammar (LemonPreprocess,      *)
(* LemonScanner, LemonInput), the arrays names are kept in (AssocArrays),  *)
(* the tables made of a grammar (LemonTables) and the parser that runs on  *)
(* them (LemonParser).  A behaviour is of one part; the others stay as     *)
(* they begin, with no text and one grammar.                               *)
(***************************************************************************)
EXTENDS LemonGrammars, AssocArrays

CONSTANTS
  Parts,                      \* those to check
  TableGrammars, TableOptions \* grammars and command lines for "tables"

VARIABLES
  part,
  gram, phase, lambda, first, states, todo, fws, links, backlinks, follow, at, acts,
  nconflict, errorcnt, opts, info, sorted, aAction, nAction, axsets,            \* of LemonTables
  tab, stack, yyerrcnt, yymajor, yyerrorhit, state,
  word, sentences, good, report, overflowed,                                    \* of LemonParser
  input, ps, gp, status,                                                        \* of LemonInput
  file, z, line, exclude, start, result,                                        \* of LemonPreprocess
  text, cp, lineno, level, token, tokens, comments, reported                    \* of LemonScanner

tableVars  == << gram, phase, lambda, first, states, todo, fws, links, backlinks, follow, at, acts,
                 nconflict, errorcnt, opts, info, sorted, aAction, nAction, axsets >>
parserVars == << tab, stack, yyerrcnt, yymajor, yyerrorhit, state, word, sentences, good, report, overflowed >>
inputVars  == << input, ps, gp, status >>
linesVars  == << file, z, line, exclude, start, result >>
textVars   == << text, cp, lineno, level, token, tokens, comments, reported >>
vars == << part, tableVars, parserVars, inputVars, linesVars, textVars, arrays >>

-----------------------------------------------------------------------------
(* Grammars and command lines. *)

Examples == {LeftSums, MixedSums, Sums, Pointers, Merging, Empties, Shared, Dangling, Orphan}
             \cup {ThreeWay(p, q, r) : p \in {None, 2, 3}, q \in 0..2, r \in 0..1}

Small == {g \in Family : First1(g)[5] # {}}   \* x derives some word

AllGrammars == Examples \cup Small
Compressing == {[c |-> c, r |-> FALSE] : c \in BOOLEAN}
Unsorted == {[c |-> FALSE, r |-> TRUE]}

Plain == {[c |-> FALSE, r |-> FALSE]}
Inputs == {LeftSums, PowerSums, Pointers, Empties, Dangling, Statements, Recovering, Lenient, Merging}

Tables   == INSTANCE LemonTables WITH Grammars <- TableGrammars, Options <- TableOptions
Parser   == INSTANCE LemonParser WITH Grammars <- Inputs, Options <- Plain, YYSTACKDEPTH <- 6, MaxTokens <- 5
Overflow == INSTANCE LemonParser WITH Grammars <- Inputs, Options <- Plain, YYSTACKDEPTH <- 4, MaxTokens <- 5
Errors   == INSTANCE LemonParser WITH Grammars <- {Statements}, Options <- Plain, YYSTACKDEPTH <- 6, MaxTokens <- 8

-----------------------------------------------------------------------------
(* Texts of grammars: of a few tokens, lines or characters. *)

Keywords == {"left", "right", "fallback", "name", "type", "destructor", "wildcard"}

RuleText == INSTANCE LemonInput WITH
  Terminals <- {"NUM"}, Nonterminals <- {"expr"}, Texts <- {"{code}"}, Compounds <- [x \in {"|NUM"} |-> "NUM"],
  Tokens <- {"expr", "NUM", "::=", ".", "(", ")", "|NUM", "{code}"}, MAXRHS <- 2, MaxTokens <- 10, MaxErrors <- 1
Ranks == INSTANCE LemonInput WITH
  Terminals <- {"NUM", "ID"}, Nonterminals <- Keywords, Texts <- {"{code}"}, Compounds <- [x \in {} |-> ""],
  Tokens <- {"%", "left", "right", "fallback", "NUM", "ID", "."}, MAXRHS <- 2, MaxTokens <- 10, MaxErrors <- 1
Codes == INSTANCE LemonInput WITH
  Terminals <- {"NUM"}, Nonterminals <- Keywords \cup {"expr"}, Texts <- {"{code}"}, Compounds <- [x \in {} |-> ""],
  Tokens <- {"%", "expr", "::=", ".", "[", "]", "NUM", "name", "type", "destructor", "wildcard", "{code}"},
  MAXRHS <- 2, MaxTokens <- 7, MaxErrors <- 1

Macros == {"DEBUG", "TRACE"}
Lines   == INSTANCE LemonPreprocess WITH Macros <- Macros, Defined <- {"DEBUG"}, MaxLines <- 5, i <- line
NoLines == INSTANCE LemonPreprocess WITH Macros <- Macros, Defined <- {"DEBUG"}, MaxLines <- 0, i <- line

Blocks == INSTANCE LemonScanner WITH
            Characters <- {"{", "}", "/", "*", "\"", "\n"}, MaxText <- 6
Tokens == INSTANCE LemonScanner WITH
            Characters <- {"a", ":", "=", "/", "|", "_", " ", "\n", "\"", "\\"}, MaxText <- 4
NoText == INSTANCE LemonScanner WITH Characters <- {}, MaxText <- 0

\* Arrays of one slot that grow to four, with hashes that meet in every size and in some.
Hashes == [expr |-> 4, NUM |-> 1, stmt |-> 5, k1 |-> 0, k2 |-> 6, k3 |-> 2]

ASSUME PartsAssumption ==
  /\ Parser!ParserAssumption /\ Overflow!ParserAssumption /\ Errors!ParserAssumption
  /\ RuleText!LemonInputAssumption /\ Ranks!LemonInputAssumption /\ Codes!LemonInputAssumption
  /\ Lines!LemonPreprocessAssumption
  /\ AssocArraysAssumption

-----------------------------------------------------------------------------
InitTables ==
  IF part = "tables" THEN Tables!InitTables
  ELSE IF part \in {"parse", "overflow"} THEN Parser!InitTables ELSE Errors!InitTables

InitText == IF part = "blocks" THEN Blocks!Init ELSE IF part = "words" THEN Tokens!Init ELSE NoText!Init

PartsInit ==
  /\ part \in Parts
  /\ InitTables /\ Parser!NewParser /\ RuleText!Init /\ InitText /\ Init
  /\ IF part = "lines" THEN Lines!Init ELSE NoLines!Init

ToTables == UNCHANGED << part, inputVars, linesVars, textVars, arrays >>
ToInput  == UNCHANGED << part, tableVars, parserVars, linesVars, textVars, arrays >>
ToLines  == UNCHANGED << part, tableVars, parserVars, inputVars, textVars, arrays >>
ToText   == UNCHANGED << part, tableVars, parserVars, inputVars, linesVars, arrays >>
ToArrays == UNCHANGED << part, tableVars, parserVars, inputVars, linesVars, textVars >>

TablesStep   == part = "tables" /\ Tables!TablesNext /\ UNCHANGED parserVars /\ ToTables
ParserStep   == part = "parse" /\ Parser!ParserNext /\ ToTables
OverflowStep == part = "overflow" /\ Overflow!ParserNext /\ ToTables
ErrorsStep   == part = "errors" /\ Errors!ParserNext /\ ToTables
RulesStep    == part = "rules" /\ RuleText!Next /\ ToInput
RanksStep    == part = "ranks" /\ Ranks!Next /\ ToInput
CodesStep    == part = "codes" /\ Codes!Next /\ ToInput
LinesStep    == part = "lines" /\ Lines!Next /\ ToLines
BlocksStep   == part = "blocks" /\ Blocks!Next /\ ToText
WordsStep    == part = "words" /\ Tokens!Next /\ ToText
StringsStep  == part = "strings" /\ NamesNext /\ ToArrays
ConfigsStep  == part = "configs" /\ KeysNext /\ ToArrays

PartsNext ==
  \/ TablesStep \/ ParserStep \/ OverflowStep \/ ErrorsStep
  \/ RulesStep \/ RanksStep \/ CodesStep \/ LinesStep \/ BlocksStep \/ WordsStep
  \/ StringsStep \/ ConfigsStep

\* As in LemonTables and LemonParser: a loop of lemon goes on, and so does a call of Parse.
PartsSpec ==
  /\ PartsInit /\ [][PartsNext]_vars
  /\ WF_vars(part = "tables" /\ Tables!FollowStep /\ UNCHANGED parserVars /\ ToTables)
  /\ WF_vars(part = "parse" /\ Parser!ParseStep /\ ToTables)

-----------------------------------------------------------------------------
(* Properties, whose parts are stated in the modules. *)

\* FindFirstSets, FindLinks, FindFollowSets: lambda and the first sets are what words can begin
\* with, the follow sets those of the canonical automaton, merged.
LookaheadExact == part = "tables" => Tables!FirstExact /\ Tables!LookaheadExact

\* acttab_insert: states that share slots still find their own actions.
TablesExact == part = "tables" => Tables!TablesExact

\* resolve_conflict, ReportTable: one action is left on each token, the one precedence wants or a
\* counted conflict; the tables hold these actions; yy_find_reduce_action finds an offset where it asks.
ActionsExact == part = "tables" => Tables!OneActionLeft /\ Tables!TablesExact /\ Tables!ReduceOffsets

\* Parse (lempar.c): it accepts the sentences of a grammar without conflicts and nothing else, finds an
\* error at the first token no sentence can have there, and until then the trees on its stack spell
\* the tokens shifted, in the shape that %left and %right want.
ParserExact == part = "parse" =>
  Parser!AcceptsLanguage /\ Parser!ViablePrefix /\ Parser!StackYields /\ Parser!PrecedenceShape

\* assert(parser.root_node()) in main: input that passes is in the tree, also after an overflow;
\* errors are reported unless three tokens have not been shifted since the last (lempar.c:845).
ErrorsSeen ==
  (part = "overflow" => Overflow!RootWhenClean) /\ (part = "errors" => Errors!ErrorsSpaced)


\* FindFollowSets ends, and so does each call of Parse.
LoopsEnd ==
  /\ part = "tables" /\ phase = "follow" ~> phase = "actions"
  /\ part = "parse" /\ Parser!Running ~> ~Parser!Running
=============================================================================
