---------------------------- MODULE LemonTables ----------------------------
(***************************************************************************)
(* tools/lemon/lemon.c, from the actions of the states to the tables of    *)
(* the generated parser: CompressTables, ResortStates and the packing of   *)
(* all actions into the one array yy_action by acttab_insert.              *)
(***************************************************************************)
EXTENDS LemonBuild

CONSTANT Options   \* command lines: whether -c and -r are given

VARIABLES
  opts,      \* the command line
  info,      \* state -> nTknAct, nNtAct, iDflt, iTknOfst, iNtOfst
  sorted,    \* lemp->sorted: the states in the order of their final numbers
  aAction,   \* acttab: slots, each a lookahead and an action
  nAction,   \* acttab: slots in use
  axsets     \* action sets that wait to be packed

tableVars == << opts, info, sorted, aAction, nAction, axsets >>

NO_OFFSET == -2147483647
Slack == 20   \* slots added beyond the need when the table grows

DefaultSymbol == gram.nsymbol
nrule == Len(gram.rules)
nstate == Len(states)
ErrorAction == nstate + nrule
AcceptAction == nstate + nrule + 1
NoAction == nstate + nrule + 2

\* The number of a state: its place in lemp->sorted, from 0.
statenum(q) == (CHOOSE i \in DOMAIN sorted : sorted[i] = q) - 1

Live(a) == a.type \in {"SHIFT", "REDUCE", "ACCEPT"}
compute_action(a) ==
  IF a.type = "SHIFT" THEN statenum(a.arg)
  ELSE IF a.type = "REDUCE" THEN a.arg - 1 + nstate
  ELSE IF a.type = "ACCEPT" THEN AcceptAction ELSE -1

InitTables ==
  /\ Init
  /\ opts \in Options
  /\ info = << >> /\ sorted = << >> /\ aAction = << >> /\ nAction = 0 /\ axsets = << >>

Build == BuildNext /\ UNCHANGED tableVars

-----------------------------------------------------------------------------

\* The most frequent reduction of a state by a rule not of the start symbol, the first such.
Counted(list, r) == Cardinality({i \in DOMAIN list : list[i].type = "REDUCE" /\ list[i].arg = r})
Candidates(list) ==
  {i \in DOMAIN list : list[i].type = "REDUCE" /\ gram.rules[list[i].arg].lhs # StartSymbol(gram)}
Best(list) ==
  CHOOSE i \in Candidates(list) : \A j \in Candidates(list) :
    LET ci == Counted(list, list[i].arg)  cj == Counted(list, list[j].arg) IN ci > cj \/ (ci = cj /\ i <= j)

UsesWildcard(list) == \E i \in DOMAIN list : list[i].type = "SHIFT" /\ list[i].sp = gram.wildcard

\* Matching reductions become the action on {default}.
Compressed(list, later) ==
  IF Candidates(list) = {} \/ UsesWildcard(list) THEN list
  ELSE LET best == Best(list) IN
       Action_sort([i \in DOMAIN list |->
         IF i = best THEN [list[i] EXCEPT !.sp = DefaultSymbol]
         ELSE IF i > best /\ list[i].type = "REDUCE" /\ list[i].arg = list[best].arg
              THEN [list[i] EXCEPT !.type = "NOT_USED"] ELSE list[i]], later)

CompressTables ==
  /\ phase = "compress"
  /\ acts' = IF opts.c THEN acts ELSE [q \in DOMAIN acts |-> Compressed(acts[q], TRUE)]
  /\ sorted' = [q \in DOMAIN states |-> q]
  /\ phase' = "resort"
  /\ UNCHANGED << gram, lambda, first, states, todo, fws, links, backlinks, follow, at, nconflict, errorcnt,
                  opts, info, aAction, nAction, axsets >>

Kind(list, from, to) == {i \in DOMAIN list : Live(list[i]) /\ list[i].sp \in from..to}

Counts(list) ==
  LET dflt == Kind(list, DefaultSymbol, DefaultSymbol) IN
  [nTknAct |-> Cardinality(Kind(list, 0, gram.nterminal - 1)),
   nNtAct |-> Cardinality(Kind(list, gram.nterminal, gram.nsymbol - 1)),
   iDflt |-> IF dflt = {} THEN ErrorAction ELSE compute_action(list[CHOOSE i \in dflt : TRUE]),
   iTknOfst |-> NO_OFFSET, iNtOfst |-> NO_OFFSET]

\* Descending order of tuples.
Descending(a, b) ==
  a = b \/ \E i \in DOMAIN a : a[i] > b[i] /\ \A j \in 1..(i - 1) : a[j] = b[j]

\* stateResortCompare: nNtAct, nTknAct, statenum.
stateResortCompare(counts, q) == << counts.nNtAct, counts.nTknAct, q >>

\* axset_compare: nAction, iOrder (even for tokens, odd for nonterminals), and the state.
axset_compare(inf, order, iOrder) ==
  LET q == order[iOrder \div 2]
  IN << IF iOrder % 2 = 0 THEN inf[q].nTknAct ELSE inf[q].nNtAct, iOrder, q >>

\* A state as State_new leaves it: main calls ResortStates unless -r is given.
Calloced == [nTknAct |-> 0, nNtAct |-> 0, iDflt |-> 0, iTknOfst |-> 0, iNtOfst |-> 0]

\* ResortStates, and the ordering of the action sets in ReportTable.
ResortStates ==
  LET info2 == [q \in DOMAIN states |-> IF opts.r THEN Calloced ELSE Counts(acts[q])]
      line == InLine({stateResortCompare(info2[q], q) : q \in 2..nstate}, Descending)
      order == IF opts.r THEN sorted ELSE << 1 >> \o [i \in DOMAIN line |-> line[i][3]]
      sets == {x \in {axset_compare(info2, order, i) : i \in 2..(2 * nstate + 1)} : x[1] > 0}
      axs == InLine(sets, Descending)
  IN
  /\ phase = "resort"
  /\ info' = info2
  /\ sorted' = order
  /\ axsets' = [i \in DOMAIN axs |-> << axs[i][3], IF axs[i][2] % 2 = 0 THEN "token" ELSE "nonterminal" >>]
  /\ phase' = "pack"
  /\ UNCHANGED << gram, lambda, first, states, todo, fws, links, backlinks, follow, at, acts, nconflict, errorcnt,
                  opts, aAction, nAction >>

-----------------------------------------------------------------------------
(* acttab_insert: slots are counted from 0, the transaction is a set of    *)
(* [lookahead, action].                                                    *)

Slot(table, i) == table[i + 1]
EmptySlot == [lookahead |-> -1, action |-> -1]
Lookaheads(trans) == {t.lookahead : t \in trans}
Lowest(trans) == CHOOSE x \in Lookaheads(trans) : \A y \in Lookaheads(trans) : x <= y
Highest(trans) == CHOOSE x \in Lookaheads(trans) : \A y \in Lookaheads(trans) : x >= y

\* The table with room for a transaction at its end.
Grown(trans) ==
  LET n == Highest(trans) + 1 IN
  IF nAction + n < Len(aAction) THEN aAction
  ELSE aAction \o [i \in 1..(nAction + n + Slack) |-> EmptySlot]

\* Slots in use that a state with this offset would take for its own.
Matching(table, offset) == {j \in 0..(nAction - 1) : Slot(table, j).lookahead >= 0 /\ Slot(table, j).lookahead = j - offset}

\* Slot i has the lowest lookahead of a copy of the transaction.
IsDuplicate(table, trans, i) ==
  LET offset == i - Lowest(trans) IN
  /\ \A t \in trans : t.lookahead + offset \in 0..(nAction - 1) /\ Slot(table, t.lookahead + offset) = t
  /\ Cardinality(Matching(table, offset)) = Cardinality(trans)

\* Mutant: only the slots to be filled are looked at.
SlotsFree(table, trans, i) ==
  \A t \in trans : Slot(table, t.lookahead + i - Lowest(trans)).lookahead < 0

\* The transaction fits in unused slots, and no slot in use matches its offset;
\* an unused one, whose lookahead is -1, may also stand in the way.
FitsAt(table, trans, i) ==
  LET offset == i - Lowest(trans) IN
  /\ \A t \in trans : Slot(table, t.lookahead + offset).lookahead < 0
  /\ \A j \in 0..(nAction - 1) : Slot(table, j).lookahead # j - offset

Greatest(S) == CHOOSE x \in S : \A y \in S : x >= y
Least(S) == CHOOSE x \in S : \A y \in S : x <= y

Place(table, trans) ==
  LET copies == {i \in 0..(nAction - 1) : IsDuplicate(table, trans, i)}
      room == 0..(Len(table) - Highest(trans) - 1)
      holes == {i \in room : FitsAt(table, trans, i)}
  IN IF copies # {} THEN Greatest(copies) ELSE IF holes # {} THEN Least(holes) ELSE Len(table) - Highest(trans)

\* Pack one action set.
acttab_insert ==
  LET x == Head(axsets)
      q == x[1]
      range == IF x[2] = "token" THEN 0..(gram.nterminal - 1) ELSE gram.nterminal..(gram.nsymbol - 1)
      live == {i \in DOMAIN acts[q] : Live(acts[q][i]) /\ acts[q][i].sp \in range}
      trans == {[lookahead |-> acts[q][i].sp, action |-> compute_action(acts[q][i])] : i \in live}
      table == Grown(trans)
      offset == Place(table, trans) - Lowest(trans)
      put == [i \in DOMAIN table |->
                IF \E t \in trans : t.lookahead + offset = i - 1
                THEN CHOOSE t \in trans : t.lookahead + offset = i - 1 ELSE table[i]]
  IN
  /\ phase = "pack" /\ axsets # << >>
  /\ aAction' = put
  /\ nAction' = Greatest({nAction} \cup {t.lookahead + offset + 1 : t \in trans})
  /\ info' = IF x[2] = "token" THEN [info EXCEPT ![q].iTknOfst = offset] ELSE [info EXCEPT ![q].iNtOfst = offset]
  /\ axsets' = Tail(axsets)
  /\ UNCHANGED << buildVars, opts, sorted >>

-----------------------------------------------------------------------------
(* ReportTable: the arrays of the generated parser. *)

Offsets(field) == {info[q][field] : q \in DOMAIN info} \ {NO_OFFSET}

\* The offsets of the states up to the last one that has any; the least, less one, for none.
OffsetTable(field) ==
  LET dflt == Least(Offsets(field) \cup {0}) - 1
      has == {i \in DOMAIN sorted : info[sorted[i]][field] # NO_OFFSET}
      n == IF has = {} THEN 0 ELSE Greatest(has)
  IN [dflt |-> dflt,
      ofst |-> [i \in 1..n |-> IF i \in has THEN info[sorted[i]][field] ELSE dflt]]

Tables ==
  [nstate |-> nstate, nrule |-> nrule,
   action |-> [i \in 1..nAction |-> IF aAction[i].action < 0 THEN NoAction ELSE aAction[i].action],
   lookahead |-> [i \in 1..nAction |-> IF aAction[i].lookahead < 0 THEN gram.nsymbol ELSE aAction[i].lookahead],
   shift |-> OffsetTable("iTknOfst"), reduce |-> OffsetTable("iNtOfst"),
   default |-> [i \in DOMAIN sorted |-> info[sorted[i]].iDflt],
   rules |-> [r \in DOMAIN gram.rules |-> [lhs |-> gram.rules[r].lhs, nrhs |-> Len(gram.rules[r].rhs)]]]

Report ==
  /\ phase = "pack" /\ axsets = << >>
  /\ phase' = "done"
  /\ UNCHANGED << gram, lambda, first, states, todo, fws, links, backlinks, follow, at, acts, nconflict, errorcnt, tableVars >>

TablesNext == Build \/ CompressTables \/ ResortStates \/ acttab_insert \/ Report

vars == << buildVars, tableVars >>

\* A step of the loops of FindFollowSets.
FollowStep == (Propagate \/ PassEnds) /\ UNCHANGED tableVars

TablesSpec == InitTables /\ [][TablesNext]_vars /\ WF_vars(FollowStep)

-----------------------------------------------------------------------------

\* What the formula in lempar.c finds for state number s and symbol x.
Found(t, ofsts, s, x) ==
  LET n == s + 1 IN
  IF n > Len(ofsts.ofst) \/ ofsts.ofst[n] = ofsts.dflt THEN t.default[n]
  ELSE LET i == ofsts.ofst[n] + x IN
       IF i \in 0..(Len(t.action) - 1) /\ t.lookahead[i + 1] = x THEN t.action[i + 1] ELSE t.default[n]

Chosen(q, x) == {compute_action(acts[q][i]) : i \in Acting(acts[q], x)}

\* acttab_insert lets states share slots: each state still finds its own action
\* on each symbol, and its default where it has none.
TablesExact ==
  phase = "done" => LET t == Tables IN
    \A q \in DOMAIN states : \A x \in 0..(gram.nsymbol - 1) :
      LET found == Found(t, IF x < gram.nterminal THEN t.shift ELSE t.reduce, statenum(q), x)
          dflt == Chosen(q, DefaultSymbol) \cup (IF Chosen(q, DefaultSymbol) = {} THEN {ErrorAction} ELSE {})
      IN found \in (IF Chosen(q, x) # {} THEN Chosen(q, x) ELSE dflt)

\* yy_find_reduce_action asserts that the state it is given has an offset in
\* yy_reduce_ofst: ResortStates puts states without one after all others.
ReduceOffsets ==
  phase = "done" => \A n \in DOMAIN Tables.reduce.ofst : Tables.reduce.ofst[n] # Tables.reduce.dflt

\* FindFollowSets ends: a configuration becomes INCOMPLETE again only when its
\* follow set has grown.
FollowSetsEnd == phase = "follow" ~> phase = "actions"
=============================================================================
