------------------------------ MODULE Strings ------------------------------
(***************************************************************************)
(* The methods of Str and Bytes (object/str.cc, object/bytes.cc), the      *)
(* regular expressions they use (value/regexp.cc) and the match objects    *)
(* they return (object/re2_regexp_matched.cc).  One string is the subject; *)
(* a method that returns a string may make it the next subject.  The loops *)
(* of split and scan are steps of their own, since they need not end.      *)
(*                                                                         *)
(* A string is a sequence of bytes.  The bytes are classes of them: ASCII  *)
(* letters, a lead byte L and a continuation byte C of UTF-8.  RE2 is      *)
(* external: a pattern is one of a few shapes and is matched leftmost.     *)
(***************************************************************************)
EXTENDS Integers, Sequences, FiniteSets, SequencesExt

CONSTANTS
  Texts,     \* the subjects to start from
  Patterns,  \* the regular expressions
  Words,     \* string arguments
  Numbers,   \* integer arguments: positions, lengths, limits, indexes
  MaxLen,    \* bound: no longer string becomes a subject
  MaxPieces  \* bound: further pieces of split or scan are not recorded

StringsAssumption ==
  /\ MaxLen \in Nat /\ MaxPieces \in Nat /\ Numbers \subseteq Int
  /\ \A t \in Texts : Len(t) <= MaxLen

VARIABLES
  text,     \* the subject
  loop,     \* the loop that runs: none, scan or split, with its locals
  res,      \* the last call: its op, arguments, subject and value
  matched,  \* the match object of the last match, or NoMatch
  mode      \* run, or terminated: an exception the VM does not catch

vars == << text, loop, res, matched, mode >>

Undef == << "undef" >>
NoLoop == [of |-> "none"]
NoMatch == [re |-> << >>]
NPos == -1

-----------------------------------------------------------------------------
(* std::string and RE2. *)

\* substr(pos, n) of positions counted from 0.
Sub(t, pos, n) == SubSeq(t, pos + 1, IF pos + n > Len(t) THEN Len(t) ELSE pos + n)
Rest(t, pos) == SubSeq(t, pos + 1, Len(t))

Occurs(t, p, at) == at + Len(p) <= Len(t) /\ Sub(t, at, Len(p)) = p

Least(S) == CHOOSE x \in S : \A y \in S : x <= y

\* find(p, from).
Find(t, p, from) ==
  LET found == {at \in from..Len(t) : Occurs(t, p, at)}
  IN  IF found = {} THEN NPos ELSE Least(found)

\* How many bytes x stand in t from position at on.
Run(t, x, at) ==
  Least({n \in 0..Len(t) - at : at + n = Len(t) \/ t[at + n + 1] # x})

\* Patterns: lit (a literal), star (x*), empty (// with or without flags), and
\* alt ((x)|y, whose group is set when x matched).
LitMatch(t, p, from) == [at |-> Find(t, p, from), len |-> Len(p), set |-> TRUE]

Match(re, t, from) ==
  IF from > Len(t) THEN [at |-> NPos, len |-> 0, set |-> FALSE]
  ELSE CASE re.kind = "lit"   -> LitMatch(t, re.x, from)
         [] re.kind = "empty" -> [at |-> from, len |-> 0, set |-> TRUE]
         [] re.kind = "star"  -> [at |-> from, len |-> Run(t, re.x[1], from), set |-> TRUE]
         [] re.kind = "alt"   ->
              LET m == LitMatch(t, re.x, from)  n == LitMatch(t, re.y, from)
              IN  IF m.at # NPos /\ (n.at = NPos \/ m.at <= n.at) THEN m
                  ELSE [n EXCEPT !.set = FALSE]

Groups(re) == IF re.kind = "alt" THEN 1 ELSE 0

\* RE2RegexpValue::RE2RegexpValue: a flag is written before the pattern, so
\* that pattern() is no longer empty.
PatternIsEmpty(re) == re.kind = "empty" /\ ~re.flagged

-----------------------------------------------------------------------------
(* StrValue::length. *)

IsCont(b)  == b = "C"
IsMulti(b) == b \in {"L", "C"}

\* The position after the continuation bytes at i.
PastConts(t, i) == Least({j \in i..Len(t) + 1 : j = Len(t) + 1 \/ ~IsCont(t[j])})

\* The for loop: it advances i once more after the continuation bytes.
LengthFrom[t \in Seq(STRING), i \in Nat \ {0}] ==
  IF i > Len(t) THEN 0
  ELSE IF ~IsMulti(t[i]) THEN 1 + LengthFrom[t, i + 1]
  ELSE 1 + LengthFrom[t, PastConts(t, i + 1) + 1]

Length(t) == LengthFrom[t, 1]

-----------------------------------------------------------------------------
(* The methods.  A result that is a string may become the subject. *)

NoCall(t) == [op |-> "none", args |-> << >>, of |-> t, v |-> 0]

Idle == mode = "run" /\ loop = NoLoop /\ res.op = "none"

\* While there is a match object, only its methods are called.
Ready == Idle /\ matched = NoMatch

Result(op, args, v) == res' = [op |-> op, args |-> args, of |-> text, v |-> v]

\* The value is returned; its text may be assigned to the variable that held
\* the subject.
ReturnStr(op, args, v) ==
  /\ Result(op, args, v)
  /\ text' \in {text} \cup (IF Len(v) <= MaxLen THEN {v} ELSE {})
  /\ UNCHANGED << loop, matched, mode >>

ReturnValue(op, args, v) ==
  Result(op, args, v) /\ UNCHANGED << text, loop, matched, mode >>

Init ==
  /\ text \in Texts
  /\ loop = NoLoop /\ matched = NoMatch /\ mode = "run"
  /\ res = NoCall(text)

\* The caller is done with the value of the last call.
NextCall ==
  /\ mode = "run" /\ loop = NoLoop /\ res.op # "none"
  /\ res' = NoCall(text)
  /\ UNCHANGED << text, loop, matched, mode >>

str_length == Ready /\ ReturnValue("length", << >>, Length(text))

bytes_length == Ready /\ ReturnValue("bytes", << >>, Len(text))

\* An int argument becomes a size_t: a negative position lies past the end,
\* where std::string throws an exception that no try of the program catches.
PastEnd(pos) == pos < 0 \/ pos > Len(text)

\* str_substr, Bytes_substr; a negative length is a huge one.
SubstrOf(pos, n) == IF n < 0 THEN Rest(text, pos) ELSE Sub(text, pos, n)

str_substr == \E pos, n \in Numbers :
  /\ Ready
  /\ IF PastEnd(pos)
       THEN mode' = "terminated" /\ UNCHANGED << text, loop, res, matched >>
       ELSE ReturnStr("substr", << pos, n >>, SubstrOf(pos, n))

IndexOf(p, pos) == IF pos < 0 THEN NPos ELSE Find(text, p, pos)

str_index == \E p \in Words, pos \in Numbers :
  Ready /\ ReturnValue("index", << p, pos >>, IndexOf(p, pos))

Upper(b) == IF b = "a" THEN "A" ELSE b
Lower(b) == IF b = "A" THEN "a" ELSE b

str_upper == Ready /\ ReturnStr("upper", << >>, [i \in DOMAIN text |-> Upper(text[i])])
str_lower == Ready /\ ReturnStr("lower", << >>, [i \in DOMAIN text |-> Lower(text[i])])

\* RE2::GlobalReplace from position p; last is where the last match ended.
\* An empty match there is passed over by one byte.
GlobalReplace[re \in Patterns, t \in Seq(STRING), w \in Seq(STRING), p \in Nat, last \in Int] ==
  LET m == Match(re, t, p) IN
  IF m.at = NPos THEN Rest(t, p)
  ELSE IF m.at = last /\ m.len = 0
    THEN IF p >= Len(t) THEN << >>
         ELSE << t[p + 1] >> \o GlobalReplace[re, t, w, p + 1, last]
  ELSE SubSeq(t, p + 1, m.at) \o w \o GlobalReplace[re, t, w, m.at + m.len, m.at + m.len]

\* RE2::Replace: the first match only.
ReplaceFirst(re, t, w) ==
  LET m == Match(re, t, 0)
  IN  IF m.at = NPos THEN t ELSE SubSeq(t, 1, m.at) \o w \o Rest(t, m.at + m.len)

Replaced(re, w) ==
  IF re.global THEN GlobalReplace[re, text, w, 0, NPos] ELSE ReplaceFirst(re, text, w)

str_replace == \E re \in Patterns, w \in Words :
  /\ Ready
  /\ ReturnStr("replace", << re, w >>, Replaced(re, w))

-----------------------------------------------------------------------------
(* String#match and its match object. *)

\* The pieces of a match: the whole and the groups; a group may be unset.
Pieces(re, t, m) ==
  << Sub(t, m.at, m.len) >> \o
  (IF Groups(re) = 0 THEN << >>
   ELSE << IF m.set THEN Sub(t, m.at, m.len) ELSE Undef >>)

\* str_value() returns a copy that is gone when str_match returns, and the
\* pieces point into it.
str_match == \E re \in Patterns :
  /\ Ready
  /\ LET m == Match(re, text, 0) IN
     IF m.at = NPos
       THEN Result("match", << re >>, Undef) /\ matched' = NoMatch
       ELSE /\ matched' = [re |-> re, pieces |-> Pieces(re, text, m)]
            /\ Result("match", << re >>, "matched")
  /\ UNCHANGED << text, loop, mode >>

\* match with a string: whether it occurs.
str_match_str == \E p \in Words :
  Ready /\ ReturnValue("occurs", << p >>, Find(text, p, 0) # NPos)

\* What is read through a piece that points into freed memory: the old bytes
\* while nobody used the memory again, or others.
Freed(piece) == {piece, [i \in DOMAIN piece |-> "?"]}

\* RE2_Regexp_Matched_getitem; vector::at throws for a negative index.
getitem == \E i \in Numbers :
  /\ Idle /\ matched # NoMatch
  /\ IF i < 0
       THEN mode' = "terminated" /\ UNCHANGED << text, loop, res, matched >>
     ELSE IF i > Groups(matched.re)
       THEN ReturnValue("getitem", << i >>, Undef)
     ELSE IF matched.pieces[i + 1] = Undef
       THEN ReturnValue("getitem", << i >>, Undef)
     ELSE \E v \in Freed(matched.pieces[i + 1]) :
            ReturnValue("getitem", << i, matched.pieces[i + 1] >>, v)

\* to_array: one piece for each group, from the whole match on.  An unset
\* group is the empty string.
to_array ==
  /\ Idle /\ matched # NoMatch
  /\ ReturnValue("to_array", << matched.re >>,
                 SubSeq(matched.pieces, 1, Groups(matched.re)))

\* RE2_Regexp_Matched_DESTROY: the last reference to the object is gone.
matched_DESTROY ==
  /\ Idle /\ matched # NoMatch
  /\ matched' = NoMatch /\ UNCHANGED << text, loop, res, mode >>

-----------------------------------------------------------------------------
(* String#scan and String#split: one step for each turn of the loop. *)

str_scan == \E re \in Patterns :
  /\ Ready
  /\ loop' = [of |-> "scan", re |-> re, start |-> 0, res |-> << >>, limit |-> 0,
               odd |-> FALSE]
  /\ UNCHANGED << text, res, matched, mode >>

\* Mutant: an empty match is found again.
SameStart(m) == m.at + m.len

\* Where the next search starts: an empty match is passed over by one byte.
NextStart(m) == m.at + (IF m.len > 0 THEN m.len ELSE 1)

\* One turn; odd tells it from the next.  An element of scan's result: the match, or its groups.
Scanned(re, m) ==
  IF Groups(re) = 0 THEN Sub(text, m.at, m.len)
  ELSE SubSeq(Pieces(re, text, m), 2, Groups(re) + 1)

Return(v) ==
  /\ Result(loop.of, << loop.re, loop.limit >>, v)
  /\ loop' = NoLoop
  /\ UNCHANGED << text, matched, mode >>

ScanStep ==
  /\ loop.of = "scan"
  /\ LET m == Match(loop.re, text, loop.start) IN
     IF m.at = NPos THEN Return(loop.res)
     ELSE /\ loop' = [loop EXCEPT !.res = IF Len(@) = MaxPieces THEN @
                                           ELSE Append(@, Scanned(loop.re, m)),
                                  !.start = NextStart(m), !.odd = ~@]
          /\ UNCHANGED << text, res, matched, mode >>

str_split == \E re \in Patterns, limit \in Numbers :
  /\ Ready
  /\ loop' = [of |-> "split", re |-> re, src |-> text, res |-> << >>, limit |-> limit,
               odd |-> FALSE]
  /\ UNCHANGED << text, res, matched, mode >>

\* limit is an int, size() + 1 a size_t: a negative limit is a huge one.
WithinLimit == loop.limit <= 0 \/ Len(loop.res) + 1 < loop.limit

SplitEmptyStep ==
  /\ loop.of = "split" /\ PatternIsEmpty(loop.re)
  /\ IF loop.src = << >> THEN Return(loop.res)
     ELSE IF ~WithinLimit THEN Return(Append(loop.res, loop.src))
     ELSE /\ loop' = [loop EXCEPT !.res = Append(@, << Head(loop.src) >>),
                                  !.src = Tail(@)]
          /\ UNCHANGED << text, res, matched, mode >>

\* Mutant: the separator stays in the source.
KeepSeparator(m) == Rest(loop.src, m.at)

\* The source is cut behind the separator.
CutAt(m) == Rest(loop.src, m.at + m.len)

\* A last piece that is empty is dropped.
SplitStep ==
  /\ loop.of = "split" /\ ~PatternIsEmpty(loop.re)
  /\ LET m == Match(loop.re, loop.src, 0) IN
     IF m.at # NPos /\ WithinLimit
       THEN /\ loop' = [loop EXCEPT !.res = IF Len(@) = MaxPieces THEN @
                                             ELSE Append(@, SubSeq(loop.src, 1, m.at)),
                                    !.src = CutAt(m), !.odd = ~@]
            /\ UNCHANGED << text, res, matched, mode >>
       ELSE Return(IF loop.src = << >> THEN loop.res ELSE Append(loop.res, loop.src))

Stopped == mode = "terminated" /\ UNCHANGED vars

Loops == ScanStep \/ SplitEmptyStep \/ SplitStep

Next ==
  \/ str_length \/ bytes_length \/ str_substr \/ str_index
  \/ str_upper \/ str_lower \/ str_replace
  \/ str_match \/ str_match_str \/ getitem \/ to_array \/ matched_DESTROY \/ NextCall
  \/ str_scan \/ str_split \/ Loops \/ Stopped

Spec == Init /\ [][Next]_vars

\* A loop that can take a turn takes it: the interpreter is one thread.
FairSpec == Spec /\ WF_vars(Loops)

-----------------------------------------------------------------------------
Bytes == {"a", "A", "L", "C"}

\* The subject is a string of bytes; the calls leave it within its bound.
TypeOK ==
  /\ text \in Seq(Bytes) /\ Len(text) <= MaxLen
  /\ loop.of \in {"none", "scan", "split"}
  /\ mode \in {"run", "terminated"}
  /\ loop.of = "split" => loop.src \in Seq(Bytes) /\ loop.res \in Seq(Seq(Bytes))
  /\ loop.of = "scan" => loop.start \in 0..Len(text) + 1

\* The lengths of the UTF-8 characters that start at position i.
StartsChar(t, i) == ~IsCont(t[i])
WellFormed(t) ==
  \A i \in 1..Len(t) :
     /\ t[i] = "L" => i < Len(t) /\ IsCont(t[i + 1])
     /\ IsCont(t[i]) => i > 1 /\ IsMulti(t[i - 1])
Chars(t) == Cardinality({i \in 1..Len(t) : StartsChar(t, i)})

\* ASCII characters that follow a multibyte one.
Hidden(t) == Cardinality({i \in 2..Len(t) : ~IsMulti(t[i]) /\ IsMulti(t[i - 1])})

\* String#length is the number of characters, but for the ASCII characters
\* that stand behind a multibyte one (StrValue::length).
LengthKnown ==
  res.op = "length" /\ WellFormed(res.of) => res.v = Chars(res.of) - Hidden(res.of)

\* String#length is the number of characters (docs/source/object/str.rst).
LengthIsChars ==
  res.op = "length" /\ WellFormed(res.of) => res.v = Chars(res.of)

\* Pieces are what stands between the separators: with the separators between
\* them they give the subject again, but for separators at its end, and no
\* piece that was cut holds a separator (RE2RegexpValue::split).
SplitJoins ==
  res.op = "split" /\ res.args[1].kind = "lit" =>
    LET sep == res.args[1].x
        cut == IF res.args[2] <= 0 THEN Len(res.v) ELSE Len(res.v) - 1
        joined == IF res.v = << >> THEN << >>
                  ELSE FlattenSeq([i \in 1..Len(res.v) - 1 |-> res.v[i] \o sep])
                         \o Last(res.v)
    IN  /\ res.of \in {joined, joined \o sep}
        /\ \A i \in 1..cut : Find(res.v[i], sep, 0) = NPos

\* A positive limit bounds the pieces, and split takes all it may: fewer than
\* the limit only when no separator is left in the last piece.
SplitLimited ==
  res.op = "split" /\ res.args[2] > 0 /\ res.args[1].kind # "star" =>
     /\ Len(res.v) <= res.args[2]
     /\ Len(res.v) < res.args[2] /\ res.v # << >> /\ res.args[1].kind = "lit"
          => Find(Last(res.v), res.args[1].x, 0) = NPos

\* The largest number of places where p occurs without overlap.
Disjoint(t, p) ==
  LET places == {S \in SUBSET {at \in 0..Len(t) : Occurs(t, p, at)} :
                   \A i, j \in S : i < j => i + Len(p) <= j}
  IN  CHOOSE n \in 0..Len(t) + 1 :
        /\ \E S \in places : Cardinality(S) = n
        /\ \A S \in places : Cardinality(S) <= n

\* scan finds as many matches of a literal as fit into the subject without
\* overlap (RE2RegexpValue::scan).
ScanFindsAll ==
  res.op = "scan" /\ res.args[1].kind = "lit" =>
    /\ Len(res.v) = Disjoint(res.of, res.args[1].x)
    /\ \A i \in 1..Len(res.v) : res.v[i] = res.args[1].x

\* After a global replace by a word that does not bring the pattern back, in
\* itself or with its neighbours, nothing is left to replace (str_replace).
ReplaceComplete ==
  res.op = "replace" /\ res.args[1].kind = "lit" /\ res.args[1].global
    /\ Len(res.args[1].x) = 1 /\ Find(res.args[2], res.args[1].x, 0) = NPos
    => Find(res.v, res.args[1].x, 0) = NPos

\* index is consistent with itself: what it finds at pos is found from every
\* position between, and -1 stays -1 further on (str_index).
IndexStable ==
  res.op = "index" /\ res.args[2] >= 0 =>
    LET p == res.args[1]  f == res.v IN
    IF f = NPos THEN \A at \in res.args[2]..Len(res.of) : ~Occurs(res.of, p, at)
    ELSE Occurs(res.of, p, f) /\ f >= res.args[2]

\* A piece of a match is text of the subject
\* (docs/source/object/re2_regexp_matched.rst).
PieceOfMatch ==
  res.op = "getitem" /\ res.v # Undef => res.v = res.args[2]

\* The array of a match holds the whole match and every group.
ArrayComplete ==
  res.op = "to_array" => Len(res.v) = Groups(res.args[1]) + 1

\* A loop comes to its end and the method returns (scan, split).
Ends == loop.of # "none" ~> loop.of = "none"
=============================================================================
