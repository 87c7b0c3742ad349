-------------------------------- MODULE LR1 --------------------------------
(***************************************************************************)
(* Grammars, and what parsing theory says of them: the words a symbol      *)
(* derives and the lookaheads of the canonical LR(1) automaton, merged by  *)
(* core (LALR(1)).  This is the reference the lemon modules are checked    *)
(* against; it shares nothing with the algorithms of tools/lemon/lemon.c.  *)
(*                                                                         *)
(* A symbol is its index: "$" is 0, terminals come first.  An element of a *)
(* right-hand side is a sequence of symbols, longer than one when it is a  *)
(* MULTITERMINAL (A|B|C in a grammar file).                                *)
(***************************************************************************)
EXTENDS Integers, Sequences, FiniteSets, SequencesExt

None == -1

Rules(g) == DOMAIN g.rules
IsNonterminal(g, x) == x >= g.nterminal
Rhs(g, r) == g.rules[r].rhs

\* lemp->start, or the left-hand side of the first rule.
StartSymbol(g) == IF g.start = None THEN g.rules[1].lhs ELSE g.start

\* The elements of S in the total order Leq.
InLine(S, Leq(_, _)) ==
  LET ranked == {<< Cardinality({y \in S : Leq(y, x)}), x >> : x \in S}
  IN [n \in 1..Cardinality(S) |-> (CHOOSE p \in ranked : p[1] = n)[2]]

-----------------------------------------------------------------------------

RECURSIVE Fixpoint(_, _)
Fixpoint(F(_), x) == LET y == F(x) IN IF y = x THEN x ELSE Fixpoint(F, y)

Cut(w, k) == SubSeq(w, 1, IF Len(w) < k THEN Len(w) ELSE k)

\* Words of symbols x of g, cut at or limited to k terminals, given those of nonterminals.
Concat(U, V, k, Keep(_, _)) == {Keep(u \o v, k) : u \in U, v \in V}

Derives(g, lang, rhs, k, Keep(_, _)) ==
  FoldLeft(LAMBDA U, alts :
             Concat(U, UNION {IF IsNonterminal(g, x) THEN lang[x] ELSE {<< x >>} : x \in ToSet(alts)}, k, Keep),
           {<< >>}, rhs)

Languages(g, k, Keep(_, _)) ==
  LET Symbols == g.nterminal .. (g.nsymbol - 1)
      Grow(lang) == [x \in Symbols |->
        lang[x] \cup UNION {Derives(g, lang, Rhs(g, r), k, Keep) : r \in {s \in Rules(g) : g.rules[s].lhs = x}}]
  IN Fixpoint(Grow, [x \in Symbols |-> {}])

\* FIRST_1, the empty word standing for "can be empty".
First1(g) == Languages(g, 1, Cut)

-----------------------------------------------------------------------------
(* The canonical LR(1) automaton: items are <<rule, dot, lookahead>>. *)

After(g, item) == Rhs(g, item[1])[item[2] + 1]
Shiftable(g, item) == item[2] < Len(Rhs(g, item[1]))

Closure1(g, first, items) ==
  LET Add(I) == I \cup UNION {
        LET rest == SubSeq(Rhs(g, i[1]), i[2] + 2, Len(Rhs(g, i[1]))) \o << << i[3] >> >> IN
        {<< r, 0, w[1] >> : r \in {s \in Rules(g) : << g.rules[s].lhs >> = After(g, i)},
                            w \in Derives(g, first, rest, 1, Cut)} : i \in {j \in I : Shiftable(g, j)}}
  IN Fixpoint(Add, items)

Moves(g, first, items) ==
  {Closure1(g, first, {<< i[1], i[2] + 1, i[3] >> : i \in {j \in items : Shiftable(g, j) /\ After(g, j) = x}})
     : x \in {After(g, i) : i \in {j \in items : Shiftable(g, j)}}}

Canonical(g) ==
  LET first == First1(g)
      start == {<< r, 0, 0 >> : r \in {s \in Rules(g) : g.rules[s].lhs = StartSymbol(g)}}
      Add(Q) == Q \cup UNION {Moves(g, first, q) : q \in Q}
  IN Fixpoint(Add, {Closure1(g, first, start)})

Core(items) == {<< i[1], i[2] >> : i \in items}

\* For each core, the lookaheads of each of its items in any canonical state.
Merged(g) ==
  LET states == Canonical(g) IN
  [c \in {Core(q) : q \in states} |->
     [i \in c |-> {a \in 0..(g.nterminal - 1) : \E q \in states : Core(q) = c /\ << i[1], i[2], a >> \in q}]]

\* The sentences of g of at most k tokens.
Sentences(g, k) ==
  {w \in Languages(g, k + 1, Cut)[StartSymbol(g)] : Len(w) <= k}
=============================================================================
