---------------------------- MODULE LemonScanner ----------------------------
(***************************************************************************)
(* The scanner of lemon (Parse in lemon.c): one step is one turn of the    *)
(* loop over the text, or of the loop over a block of C code.  Characters  *)
(* stand for their classes: "a" for letters and digits, " " for space.     *)
(***************************************************************************)
EXTENDS Integers, Sequences, FiniteSets

CONSTANTS
  Characters,   \* what texts are made of
  MaxText       \* bound: length of a text

VARIABLES
  text,          \* filebuf
  cp,            \* the character to look at
  lineno,
  level,         \* depth of braces in a block of C code, 0 outside
  token,         \* tokenstart and tokenlineno: place and line
  tokens,        \* what parseonetoken was given: [from, to, line]
  comments,      \* what was skipped outside of blocks as C comments: << from, to >>
  reported       \* lines of error messages

vars == << text, cp, lineno, level, token, tokens, comments, reported >>

Init ==
  /\ text \in UNION {[1..n -> Characters] : n \in 0..MaxText}
  /\ cp = 1 /\ lineno = 1 /\ level = 0 /\ token = << 0, 0 >>
  /\ tokens = << >> /\ comments = << >> /\ reported = << >>

Nul == "nul"
At(p) == IF p \in DOMAIN text THEN text[p] ELSE Nul

\* The first place from p on that stops a loop.
FirstFrom(p, Stops(_)) ==
  LET stops == {q \in p..Len(text) : Stops(q)}
  IN  IF stops = {} THEN IF p > Len(text) THEN p ELSE Len(text) + 1
      ELSE CHOOSE q \in stops : \A r \in stops : q <= r

Newlines(p, q) == Cardinality({r \in p..q : At(r) = "\n"})

Letters == {"a"}
IsSpace(c) == c \in {" ", "\n"}

Keeps == UNCHANGED << text, tokens, comments, reported, token, level >>

Moves(to, lines) == cp' = to /\ lineno' = lineno + lines

\* parseonetoken is given the text from the start to end - 1.
Gives(start, line, end, next, lines) ==
  /\ tokens' = Append(tokens, [from |-> start, to |-> end - 1, line |-> line])
  /\ Moves(next, lines)

Outside == level = 0 /\ cp <= Len(text)
Comment(kind) == At(cp) = "/" /\ At(cp+1) = kind

Space == Outside /\ IsSpace(At(cp)) /\ Moves(cp + 1, Newlines(cp, cp)) /\ Keeps

\* The newline is left for Space to count.
LineComment ==
  /\ Outside /\ Comment("/")
  /\ LET Stops(q) == At(q) = "\n" IN Moves(FirstFrom(cp + 2, Stops), 0)
  /\ Keeps

CComment ==
  /\ Outside /\ Comment("*")
  /\ LET Stops(q) == At(q) = "/" /\ At(q-1) = "*"
         end == FirstFrom(cp + 2, Stops)
     IN  /\ Moves(IF At(end) = Nul THEN end ELSE end + 1, Newlines(cp + 2, end))
         /\ comments' = Append(comments, << cp, end >>)
  /\ UNCHANGED << text, tokens, reported, token, level >>

LiteralLines(p, q) == Newlines(p, q)

\* The line of the message is startline, which nothing sets.
StringLiteral ==
  /\ Outside /\ At(cp) = "\""
  /\ LET Stops(q) == At(q) = "\""
         end == FirstFrom(cp + 1, Stops)
     IN  /\ Gives(cp, lineno, end, IF At(end) = Nul THEN end ELSE end + 1, LiteralLines(cp + 1, end))
         /\ reported' = IF At(end) = Nul THEN Append(reported, 0) ELSE reported
  /\ UNCHANGED << text, comments, token, level >>

\* A name, ::=, a | or / with a name, or one character.
WordEnd ==
  LET Stops(q) == At(q) \notin Letters \union {"_"}
  IN  IF At(cp) \in Letters THEN FirstFrom(cp, Stops)
      ELSE IF At(cp) = ":" /\ At(cp+1) = ":" /\ At(cp+2) = "=" THEN cp + 3
      ELSE IF At(cp) \in {"/", "|"} /\ At(cp+1) \in Letters THEN FirstFrom(cp + 2, Stops)
      ELSE cp + 1

Word ==
  /\ Outside /\ ~IsSpace(At(cp)) /\ At(cp) \notin {"\"", "{"} /\ ~Comment("/") /\ ~Comment("*")
  /\ Gives(cp, lineno, WordEnd, WordEnd, 0)
  /\ UNCHANGED << text, comments, reported, token, level >>

BlockBegins ==
  /\ Outside /\ At(cp) = "{"
  /\ level' = 1 /\ token' = << cp, lineno >> /\ Moves(cp + 1, 0)
  /\ UNCHANGED << text, tokens, comments, reported >>

-----------------------------------------------------------------------------
\* Past the end of the buffer nothing can be said.
InBlock == level > 0 /\ cp <= Len(text) + 1

BlockEnds ==
  /\ InBlock
  /\ \/ At(cp) = "}" /\ level = 1 /\ UNCHANGED reported /\ Gives(token[1], token[2], cp, cp + 1, 0)
     \/ At(cp) = Nul /\ reported' = Append(reported, token[2]) /\ Gives(token[1], token[2], cp, cp, 0)
  /\ level' = 0
  /\ UNCHANGED << text, comments, token >>

InCode == InBlock /\ At(cp) # Nul /\ ~(At(cp) = "}" /\ level = 1)

Brace ==
  /\ InCode /\ At(cp) \in {"{", "}"}
  /\ level' = IF At(cp) = "{" THEN level + 1 ELSE level - 1
  /\ Moves(cp + 1, 0)
  /\ UNCHANGED << text, tokens, comments, reported, token >>

\* The step of the loop comes after the end of the comment, also when that is the end of the text.
CommentInBlock ==
  /\ InCode /\ Comment("*")
  /\ LET Stops(q) == At(q) = "/" /\ At(q-1) = "*" /\ q - 1 >= cp + 2
         end == FirstFrom(cp + 2, Stops)
     IN  Moves(end + 1, Newlines(cp + 2, end))
  /\ Keeps

LineCommentInBlock ==
  /\ InCode /\ Comment("/")
  /\ LET Stops(q) == At(q) = "\n"
         end == FirstFrom(cp + 2, Stops)
     IN  Moves(end + 1, Newlines(end, end))
  /\ Keeps

\* A quote after a backslash that is not itself escaped does not end a literal.
LiteralEnd ==
  LET escaped[q \in cp+1..Len(text)] == q > cp + 1 /\ At(q-1) = "\\" /\ ~escaped[q-1]
      Stops(q) == At(q) = At(cp) /\ ~escaped[q]
  IN  FirstFrom(cp + 1, Stops)

LiteralInBlock ==
  /\ InCode /\ At(cp) \in {"\"", "'"}
  /\ Moves(LiteralEnd + 1, LiteralLines(cp + 1, LiteralEnd))
  /\ Keeps

OtherInBlock ==
  /\ InCode /\ At(cp) \notin {"{", "}", "\"", "'"} /\ ~Comment("*") /\ ~Comment("/")
  /\ Moves(cp + 1, Newlines(cp, cp))
  /\ Keeps

Next ==
  \/ Space \/ LineComment \/ CComment \/ StringLiteral \/ Word \/ BlockBegins
  \/ BlockEnds \/ Brace \/ CommentInBlock \/ LineCommentInBlock \/ LiteralInBlock \/ OtherInBlock

Spec == Init /\ [][Next]_vars

-----------------------------------------------------------------------------
(* Properties. *)

\* "Keep track of the line number" (lemon.c:2543): a token's line, which error messages and #line
\* give, is the line it begins on, whatever was skipped before it.
LinesRight == \A k \in DOMAIN tokens : tokens[k].line = 1 + Newlines(1, tokens[k].from - 1)

\* "C code starting on this line is not terminated before the end of the file." (lemon.c:2608):
\* the scan of a block does not leave the text.
StaysInText == cp <= Len(text) + 1

\* "Skip C style comments" (lemon.c:2550): one ends with a star and a slash of its own.
CommentsAreWhole == \A k \in DOMAIN comments :
  comments[k][2] > Len(text) \/ comments[k][2] >= comments[k][1] + 3

\* "String starting on this line is not terminated" (lemon.c:2569): the line is one of the file.
ReportsALine == \A k \in DOMAIN reported : reported[k] \in 1..lineno
=============================================================================
