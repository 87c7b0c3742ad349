--------------------------- MODULE LemonPreprocess ---------------------------
(***************************************************************************)
(* preprocess_input of lemon.c: %ifdef, %ifndef and %endif of a grammar    *)
(* are commented out, and the text they exclude with them.  One step is a  *)
(* line; a line is << "text", "" >>, << "ifdef", macro >>, << "ifndef",    *)
(* macro >> or << "endif", "" >>.  A blanked line keeps its newline.       *)
(***************************************************************************)
EXTENDS Integers, Sequences

CONSTANTS
  Macros,     \* names that grammars test
  Defined,    \* azDefine, what -D gave
  MaxLines    \* bound: lines of a grammar

LemonPreprocessAssumption == Defined \subseteq Macros

VARIABLES
  file,      \* the file, which no step changes
  z,         \* its text so far
  i,         \* the line the loop is at
  exclude,   \* depth of conditionals since the one that excludes, 0 for none
  start,     \* that one
  result     \* how it ended

vars == << file, z, i, exclude, start, result >>

Text == << "text", "" >>
Blank == << "blank", "" >>
Endif == << "endif", "" >>
Lines == {Text, Endif} \union {<< k, m >> : k \in {"ifdef", "ifndef"}, m \in Macros}

Init ==
  /\ file \in UNION {[1..n -> Lines] : n \in 0..MaxLines}
  /\ z = file /\ i = 1 /\ exclude = 0 /\ start = 0 /\ result = "running"

Blanked(from, to) == [j \in DOMAIN z |-> IF j \in from..to THEN Blank ELSE z[j]]

\* Does a conditional exclude the text after it?
Excludes(line) == (line[1] = "ifndef") = (line[2] \in Defined)

AtLine(kinds) == result = "running" /\ i <= Len(z) /\ z[i][1] \in kinds

TextLine == AtLine({"text"}) /\ i' = i + 1 /\ UNCHANGED << file, z, exclude, start, result >>

\* What was excluded is blanked when its own %endif is reached.
EndifLine ==
  /\ AtLine({"endif"})
  /\ exclude' = IF exclude = 0 THEN 0 ELSE exclude - 1
  /\ z' = Blanked(IF exclude = 1 THEN start ELSE i, i)
  /\ i' = i + 1
  /\ UNCHANGED << file, start, result >>

Deeper == exclude + 1

ConditionalLine ==
  /\ AtLine({"ifdef", "ifndef"})
  /\ IF exclude > 0 THEN exclude' = Deeper /\ UNCHANGED start
     ELSE IF Excludes(z[i]) THEN exclude' = 1 /\ start' = i
     ELSE UNCHANGED << exclude, start >>
  /\ z' = Blanked(i, i)
  /\ i' = i + 1
  /\ UNCHANGED << file, result >>

\* At the end of the text.
Ends ==
  /\ result = "running" /\ i > Len(z)
  /\ result' = IF exclude > 0 THEN "unterminated" ELSE "done"
  /\ UNCHANGED << file, z, i, exclude, start >>

Next == TextLine \/ EndifLine \/ ConditionalLine \/ Ends

Spec == Init /\ [][Next]_vars

-----------------------------------------------------------------------------
(* Properties. *)

\* The conditionals a line is in: TRUE for one that excludes.
Nesting ==
  LET n[j \in 0..Len(file)] ==
        IF j = 0 THEN << >>
        ELSE LET line == file[j] IN
          IF line[1] \in {"ifdef", "ifndef"} THEN Append(n[j-1], Excludes(line))
          ELSE IF line = Endif /\ n[j-1] # << >> THEN SubSeq(n[j-1], 1, Len(n[j-1]) - 1)
          ELSE n[j-1]
  IN  n

\* "comments them out.  Text in between is also commented out as appropriate" (lemon.c:2437): what
\* is left is the text that no conditional around it excludes, each line where it was.
TextOfConditions == result = "done" =>
  /\ DOMAIN z = DOMAIN file
  /\ \A j \in DOMAIN file :
       z[j] = IF file[j] = Text /\ \A d \in DOMAIN Nesting[j] : ~Nesting[j][d] THEN Text ELSE Blank

\* "unterminated %ifdef starting on line" (lemon.c:2481): a conditional without an end is refused.
UnterminatedIsRefused == result = "done" => Nesting[Len(file)] = << >>
=============================================================================
