----------------------------- MODULE MCLibrary -----------------------------
(***************************************************************************)
(* What programs call, part by part: functions that look at the machine    *)
(* (Builtins), and the methods of texts, arrays and hashes.  A behaviour   *)
(* is of one part; the others stay as they begin.                          *)
(***************************************************************************)
EXTENDS Builtins

CONSTANTS
  Parts,   \* those to check: "builtins", "strings", "arrays", "hashes"
  Texts, TextPatterns, Words, Numbers, MaxLen, MaxPieces,                                      \* of Strings
  Elements, Indexes, PopsEmpty, ForeachChanges, MapChanges, MaxSize, ArrayLoops,               \* of Arrays
  Keys, End, Values, ReadsMissing, UsesValue, DeletesAny, MaxPairs, HashLoops                  \* of Hashes

VARIABLES
  part,
  text, loop, res, matched, str_mode,          \* of Strings
  items, array_loops, answer, array_mode,      \* of Arrays
  hash, hash_loops, operand, hash_mode         \* of Hashes

St == INSTANCE Strings WITH Patterns <- TextPatterns, mode <- str_mode

Ar == INSTANCE Arrays WITH MaxLoops <- ArrayLoops, loops <- array_loops, mode <- array_mode

Ha == INSTANCE Hashes WITH MaxLoops <- HashLoops, loops <- hash_loops, mode <- hash_mode

ASSUME PartsAssumption == St!StringsAssumption /\ Ar!ArraysAssumption /\ Ha!HashesAssumption

stringVars == << text, loop, res, matched, str_mode >>
arrayVars == << items, array_loops, answer, array_mode >>
hashVars == << hash, hash_loops, operand, hash_mode >>

PartsInit ==
  /\ part \in Parts /\ Init /\ Ar!Init /\ Ha!Init
  /\ St!Init /\ (part = "strings" \/ text = << >>)

BuiltinsStep == part = "builtins" /\ Next /\ UNCHANGED << part, stringVars, arrayVars, hashVars >>
StringsStep  == part = "strings" /\ St!Next /\ UNCHANGED << part, vars, arrayVars, hashVars >>
ArraysStep   == part = "arrays" /\ Ar!Next /\ UNCHANGED << part, vars, stringVars, hashVars >>
HashesStep   == part = "hashes" /\ Ha!Next /\ UNCHANGED << part, vars, stringVars, arrayVars >>

PartsNext == BuiltinsStep \/ StringsStep \/ ArraysStep \/ HashesStep

\* Bound: names are given numbers while no call is open, and calls made before names are added.
TableBound == frames = << >> \/ counter = Len(Reserved)

\* As in Strings: a loop that can take a turn takes it.
PartsSpec ==
  /\ PartsInit
  /\ [][PartsNext]_<< part, vars, stringVars, arrayVars, hashVars >>
  /\ WF_stringVars(part = "strings" /\ St!Loops /\ UNCHANGED << part, vars, arrayVars, hashVars >>)

-----------------------------------------------------------------------------
(* Values for the run. *)

\* Names of symbols, of which two are reserved.
MCReserved == << "", "DESTROY" >>
MCNames == {"", "DESTROY", "a", "b"}
MCBlocks == {"TRY"}

\* Strings: all well-formed texts of up to three characters.
MCChars == {<< "a" >>, << "A" >>, << "L", "C" >>}
MCTexts == {<< >>} \cup MCChars \cup {c \o d : c, d \in MCChars}
             \cup {c \o d \o e : c, d, e \in MCChars}

Lit(x, g) == [kind |-> "lit", x |-> x, global |-> g]

\* Patterns that split can work with: they match no empty string, or are //.
MCPatterns == {Lit(<< "a" >>, TRUE), Lit(<< "a" >>, FALSE), Lit(<< "a", "a" >>, TRUE),
               Lit(<< "L", "C" >>, TRUE), [kind |-> "alt", x |-> << "a" >>, y |-> << "A" >>, global |-> TRUE],
               [kind |-> "empty", flagged |-> FALSE, global |-> FALSE]}
MCWords == {<< >>, << "A" >>, << "a", "a" >>}
MCNumbers == -1..2

-----------------------------------------------------------------------------
(* Properties, whose parts are stated in the modules. *)

\* builtin_callee, builtin_caller (builtin.cc:151-185), tora_sprintf (printf.cc:9): the functions
\* named are those that were called, and each conversion takes the argument that belongs to it.
BuiltinsAnswer == CallersAreCalls /\ SprintfFills

\* The methods of Str (object/str.cc) and RE2RegexpValue's split and scan: pieces and separators
\* give the subject again, within the limit; matches and replacements are complete; what index
\* finds is there, and length counts all characters but the ASCII ones behind a multibyte one.
TextMethods ==
  /\ res.op = "length" => St!LengthKnown
  /\ St!SplitJoins /\ St!SplitLimited /\ St!ScanFindsAll /\ St!ReplaceComplete /\ St!IndexStable

\* RE2RegexpValue::scan and split: a loop comes to its end.
Ends == loop.of # "none" ~> loop.of = "none"

\* array.cc:34, object/array.cc:33-190: a deque behaves like a list indexed from 0.
ArrayIsList == Ar!Lists!Init /\ [][part = "arrays" /\ Ar!Lists!Next]_Ar!Lists!lvars

\* OP_FOR_ITER (vm.inc:833-881), av_map and av_grep: loops give out each element, or each key, once
\* and in order, while their bodies change what they walk over; of two pairs with one key in a
\* literal the first is kept (OP_MAKE_HASH).
LoopsKeepPlace ==
  [][/\ part = "arrays" => Ar!ForeachStep /\ Ar!WalkStep
     /\ part = "hashes" => Ha!EachKeyStep /\ Ha!IteratorIsNext /\ Ha!LiteralStep]_<< arrayVars, hashVars >>
=============================================================================
