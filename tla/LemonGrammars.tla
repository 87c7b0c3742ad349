--------------------------- MODULE LemonGrammars ---------------------------
(* Grammars for lemon; the symbols of each are named in its comment. *)
EXTENDS LR1, TLC

G(nterm, nsym, rules) ==
  [nterminal |-> nterm, nsymbol |-> nsym, rules |-> rules, prec |-> [x \in 0..(nsym - 1) |-> None],
   assoc |-> [x \in 0..(nsym - 1) |-> "UNK"], start |-> None, errsym |-> nterm, wildcard |-> None,
   fallback |-> [x \in 0..(nterm - 1) |-> 0]]
R(lhs, rhs) == [lhs |-> lhs, rhs |-> [i \in DOMAIN rhs |-> << rhs[i] >>], precsym |-> None]
M(lhs, rhs) == [lhs |-> lhs, rhs |-> rhs, precsym |-> None]
Ranked(g, ranks) ==
  [g EXCEPT !.prec = [x \in DOMAIN g.prec |-> IF x \in DOMAIN ranks THEN ranks[x][1] ELSE None],
            !.assoc = [x \in DOMAIN g.prec |-> IF x \in DOMAIN ranks THEN ranks[x][2] ELSE "UNK"]]

\* $ ADD MUL N | error s e
Sums == G(4, 7, << R(5, << 6 >>), R(6, << 6, 1, 6 >>), R(6, << 6, 2, 6 >>), R(6, << 3 >>) >>)
LeftSums == Ranked(Sums, 1 :> << 0, "LEFT" >> @@ 2 :> << 1, "LEFT" >>)
MixedSums == Ranked(Sums, 1 :> << 1, "RIGHT" >> @@ 2 :> << 0, "NONE" >>)
\* $ ASSIGN ID STAR | error s l r: LALR(1), and its follow sets must pass between states
Pointers == G(4, 8, << R(5, << 6, 1, 7 >>), R(5, << 7 >>), R(6, << 3, 7 >>), R(6, << 2 >>), R(7, << 6 >>) >>)
\* $ A B C D E | error s x y: LR(1) and not LALR(1)
Merging == G(6, 10, << R(7, << 1, 8, 4 >>), R(7, << 2, 9, 4 >>), R(7, << 1, 9, 5 >>), R(7, << 2, 8, 5 >>),
                       R(8, << 3 >>), R(9, << 3 >>) >>)
\* $ A B | error s x y z: nullable and left recursive nonterminals
Empties == G(3, 8, << R(4, << 5, 6, 5 >>), R(5, << >>), R(5, << 5, 1 >>), R(6, << 7, 7 >>), R(7, << >>), R(7, << 2 >>) >>)
\* $ A B C | error s x: multiterminals, two of which share a token
Shared == G(4, 7, << M(5, << << 1, 2 >>, << 6 >> >>), M(5, << << 2, 3 >>, << 3 >> >>), M(6, << << 1, 2 >>, << 6 >> >>), R(6, << >>) >>)
\* $ IF ELSE X | error p s
Dangling == G(4, 7, << R(5, << 6 >>), R(6, << 1, 6 >>), R(6, << 1, 6, 2, 6 >>), R(6, << 3 >>) >>)
\* $ A B | error s x y: a nonterminal without rules, and rules that cannot be reduced
Orphan == G(3, 7, << R(4, << 5, 1 >>), R(4, << 2 >>), R(5, << 6, 2 >>), R(6, << 6, 1 >>) >>)
\* Three actions on a token, decided by precedence: $ A B C | error s x y z
ThreeWay(p, q, r) ==
  Ranked(G(4, 9, << R(5, << 6, 1 >>), R(5, << 7, 1 >>), R(5, << 3, 1 >>), [R(6, << 3 >>) EXCEPT !.precsym = 2],
                    [R(7, << 3 >>) EXCEPT !.precsym = p] >>),
         1 :> << q, "LEFT" >> @@ 2 :> << r, "LEFT" >> @@ 3 :> << 1, "RIGHT" >>)

\* $ ADD MUL N | error s e: a right-associative operator under a left-associative one
PowerSums == Ranked(Sums, 1 :> << 0, "LEFT" >> @@ 2 :> << 1, "RIGHT" >>)
\* $ ID SEMI | error s l: statements
Statements == G(3, 6, << R(4, << 5 >>), R(5, << >>), R(5, << 5, 1, 2 >>) >>)
\* the same with l ::= l error SEMI
Recovering == G(3, 6, << R(4, << 5 >>), R(5, << >>), R(5, << 5, 1, 2 >>), R(5, << 5, 3, 2 >>) >>)
\* $ ID IF ANY SEMI | error s l: IF falls back to ID, ANY is the wildcard
Lenient == [G(5, 8, << R(6, << 7 >>), R(7, << >>), R(7, << 7, 1, 4 >>), R(7, << 7, 2, 3, 4 >>) >>)
              EXCEPT !.fallback = [x \in 0..4 |-> IF x = 2 THEN 1 ELSE 0], !.wildcard = 3]
\* s ::= alpha; x ::= beta; x ::= gamma; with $ A B | error s x
Words == {<< >>} \cup {<< x >> : x \in {1, 2, 5}} \cup ({1, 2, 5} \X {1, 2, 5})
Family == {G(3, 6, << R(4, u), R(5, v), R(5, w) >>) :
             << u, v, w >> \in {t \in {<< 5, 1 >>, << 5, 5 >>} \X Words \X Words : Len(t[2]) <= Len(t[3])}}
=============================================================================
