----------------------------- MODULE LemonBuild -----------------------------
(***************************************************************************)
(* tools/lemon/lemon.c, from a grammar to the actions of its states: the   *)
(* LR(0) automaton, built depth first by buildshifts, the propagation of   *)
(* follow sets along the links between configurations, and the actions     *)
(* with their conflicts resolved by precedence.                            *)
(***************************************************************************)
EXTENDS LR1, TLC

CONSTANT Grammars   \* [nterminal, nsymbol, rules, prec, assoc, start, errsym, wildcard, fallback]

VARIABLES
  gram,       \* struct lemon: the grammar
  phase,      \* the step of main that runs
  lambda,     \* nonterminals that derive the empty string
  first,      \* nonterminal -> firstset
  states,     \* the states in the order of their numbers: basis and closure
  todo,       \* calls of buildshifts: a state and its INCOMPLETE configurations
  fws,        \* configuration <<state, rule, dot>> -> follow set
  links,      \* forward propagation links, <<from, to>>
  backlinks,  \* pairs <<to, from>> of the back links
  follow,     \* FindFollowSets: configurations left in this pass, INCOMPLETE ones, progress
  at,         \* the state the loops of FindActions are at
  acts,       \* state -> its actions, the oldest first
  nconflict, errorcnt

buildVars == << gram, phase, lambda, first, states, todo, fws, links, backlinks, follow, at, acts, nconflict, errorcnt >>

Terminals == 0 .. (gram.nterminal - 1)

Dot(c) == Rhs(gram, c[1])[c[2] + 1]
CanShift(c) == c[2] < Len(Rhs(gram, c[1]))
Configcmp(a, b) == a[1] < b[1] \/ (a[1] = b[1] /\ a[2] <= b[2])
InOrder(configs) == InLine(configs, Configcmp)

\* The first symbol of the right-hand side that has a precedence, if none is given.
FindRulePrecedences(g) ==
  [r \in Rules(g) |->
     LET ranked == SelectSeq(FlattenSeq(Rhs(g, r)), LAMBDA x : g.prec[x] >= 0) IN
     IF g.rules[r].precsym # None \/ ranked = << >> THEN g.rules[r] ELSE [g.rules[r] EXCEPT !.precsym = ranked[1]]]

Init ==
  /\ \E g \in Grammars : gram = [g EXCEPT !.rules = FindRulePrecedences(g)]
  /\ phase = "lambda" /\ lambda = {}
  /\ first = [x \in gram.nterminal .. (gram.nsymbol - 1) |-> {}]
  /\ states = << >> /\ todo = << >> /\ fws = << >> /\ links = {} /\ backlinks = {} /\ acts = << >>
  /\ follow = [rest |-> << >>, incomplete |-> {}, progress |-> FALSE] /\ at = 1
  /\ nconflict = 0 /\ errorcnt = 0

-----------------------------------------------------------------------------
(* FindFirstSets. *)

Nullable(lam, alts) == Len(alts) = 1 /\ alts[1] \in lam

\* Positions of rhs from `from' that can come first, given the nullable nonterminals.
Leading(lam, rhs, from) == {i \in from..Len(rhs) : \A j \in from..(i - 1) : Nullable(lam, rhs[j])}

Starts(fst, alts) == UNION {IF IsNonterminal(gram, x) THEN fst[x] ELSE {x} : x \in ToSet(alts)}
Ahead(lam, fst, rhs, from) == UNION {Starts(fst, rhs[i]) : i \in Leading(lam, rhs, from)}

AllNullable(lam, rhs, from) == \A i \in from..Len(rhs) : Nullable(lam, rhs[i])

\* One turn of the first do-while loop.
LambdaPass ==
  LET pass == FoldLeft(LAMBDA lam, rule : IF AllNullable(lam, rule.rhs, 1) THEN lam \cup {rule.lhs} ELSE lam,
                       lambda, gram.rules)
  IN /\ phase = "lambda"
     /\ lambda' = pass
     /\ phase' = IF pass = lambda THEN "first" ELSE phase
     /\ UNCHANGED << gram, first, states, todo, fws, links, backlinks, follow, at, acts, nconflict, errorcnt >>

\* One turn of the second.
FirstPass ==
  LET pass == FoldLeft(LAMBDA fst, rule : [fst EXCEPT ![rule.lhs] = @ \cup Ahead(lambda, fst, rule.rhs, 1)],
                       first, gram.rules)
  IN /\ phase = "first"
     /\ first' = pass
     /\ phase' = IF pass = first THEN "start" ELSE phase
     /\ UNCHANGED << gram, lambda, states, todo, fws, links, backlinks, follow, at, acts, nconflict, errorcnt >>

-----------------------------------------------------------------------------
(* FindStates, getstate and buildshifts. *)

RulesOf(x) == {r \in Rules(gram) : gram.rules[r].lhs = x}
Leads(c) == IF CanShift(c) THEN {<< r, 0 >> : r \in UNION {RulesOf(x) : x \in ToSet(Dot(c))}} ELSE {}

\* Configlist_closure: the configurations,
Closure(basis) ==
  Fixpoint(LAMBDA items : items \cup UNION {Leads(c) : c \in items}, basis)

\* what they are certain to be followed by,
ClosureFollow(items, d) ==
  UNION {Ahead(lambda, first, Rhs(gram, c[1]), c[2] + 2) : c \in {b \in items : d \in Leads(b)}}

\* and the links to those that are followed by what follows the other one.
ClosureLinks(q, items) ==
  {<< << q >> \o c, << q >> \o d >> :
     << c, d >> \in {p \in items \X items : p[2] \in Leads(p[1]) /\ AllNullable(lambda, Rhs(gram, p[1][1]), p[1][2] + 2)}}

NoRules(items) == Cardinality({c \in items : CanShift(c) /\ \E x \in ToSet(Dot(c)) :
                                 IsNonterminal(gram, x) /\ RulesOf(x) = {} /\ x # gram.errsym})

\* getstate for a basis that no state has; found: errors counted before.
NewState(basis, follows, found) ==
  LET q == Len(states) + 1
      items == Closure(basis)
  IN
  /\ states' = Append(states, [basis |-> basis, items |-> items])
  /\ fws' = [c \in {<< q >> \o i : i \in items} |->
                ClosureFollow(items, Tail(c)) \cup (IF Tail(c) \in basis THEN follows ELSE {})] @@ fws
  /\ links' = links \cup ClosureLinks(q, items)
  /\ errorcnt' = errorcnt + NoRules(items) + found

FindStates ==
  LET start == StartSymbol(gram)
      basis == {<< r, 0 >> : r \in RulesOf(start)}
      uses == UNION {{<< r, i >> : i \in {j \in DOMAIN Rhs(gram, r) : Rhs(gram, r)[j] = << start >>}} : r \in Rules(gram)}
  IN
  /\ phase = "start"
  /\ NewState(basis, {0}, Cardinality(uses))
  /\ todo' = << [stp |-> 1, incomplete |-> Closure(basis)] >>
  /\ acts' = << << >> >>
  /\ phase' = "shifts"
  /\ UNCHANGED << gram, lambda, first, backlinks, follow, at, nconflict >>

Action(type, sp, arg) == [type |-> type, sp |-> sp, arg |-> arg]

Top == todo[Len(todo)]
Pending == {c \in Top.incomplete : CanShift(c)}

\* The first configuration left, those with the same symbol after the dot,
\* and the state they lead to.
Shift ==
  LET cfp == CHOOSE c \in Pending : \A d \in Pending : Configcmp(c, d)
      same == {c \in Pending : Dot(c) = Dot(cfp)}
      basis == {<< c[1], c[2] + 1 >> : c \in same}
      known == {q \in DOMAIN states : states[q].basis = basis}
      to == IF known = {} THEN Len(states) + 1 ELSE CHOOSE q \in known : TRUE
      rest == [todo EXCEPT ![Len(todo)].incomplete = @ \ same]
      shifts == [i \in 1..Len(Dot(cfp)) |-> Action("SHIFT", Dot(cfp)[i], to)]
      more == [acts EXCEPT ![Top.stp] = @ \o shifts]
  IN
  /\ phase = "shifts" /\ todo # << >> /\ Pending # {}
  /\ backlinks' = backlinks \cup {<< << to, c[1], c[2] + 1 >>, << Top.stp >> \o c >> : c \in same}
  /\ \/ /\ known # {}
        /\ todo' = rest /\ acts' = more
        /\ UNCHANGED << states, fws, links, errorcnt >>
     \/ /\ known = {}
        /\ NewState(basis, {}, 0)
        /\ todo' = Append(rest, [stp |-> to, incomplete |-> Closure(basis)])
        /\ acts' = Append(more, << >>)
  /\ UNCHANGED << gram, phase, lambda, first, follow, at, nconflict >>

\* buildshifts returns.
Return ==
  /\ phase = "shifts" /\ todo # << >> /\ Pending = {}
  /\ todo' = Front(todo)
  /\ UNCHANGED << gram, phase, lambda, first, states, fws, links, backlinks, follow, at, acts, nconflict, errorcnt >>

-----------------------------------------------------------------------------
(* FindLinks and FindFollowSets. *)

Configs == FlattenSeq([q \in DOMAIN states |-> [i \in 1..Cardinality(states[q].items) |->
                                                  << q >> \o InOrder(states[q].items)[i]]])

FindLinks ==
  /\ phase = "shifts" /\ todo = << >>
  /\ links' = links \cup {<< b[2], b[1] >> : b \in backlinks}
  /\ follow' = [rest |-> Configs, incomplete |-> DOMAIN fws, progress |-> FALSE]
  /\ phase' = "follow"
  /\ UNCHANGED << gram, lambda, first, states, todo, fws, backlinks, at, acts, nconflict, errorcnt >>

\* SetUnion tells whether the set it adds to has grown.
\* Mutant: whether there was something to add.
NotEmpty(from, to) == from # {}
Grows(from, to) == ~(from \subseteq to)

\* The configurations that are INCOMPLETE after c has been propagated.
\* Mutant: what c changed is not propagated again.
OneRound(incomplete, changed, c) == incomplete \ {c}
Again(incomplete, changed, c) == (incomplete \cup changed) \ {c}

\* One configuration: what it is followed by follows those it is linked to.
Propagate ==
  /\ phase = "follow" /\ follow.rest # << >>
  /\ LET c == Head(follow.rest)
         changed == {d \in DOMAIN fws : << c, d >> \in links /\ Grows(fws[c], fws[d])}
     IN IF c \notin follow.incomplete
        THEN /\ follow' = [follow EXCEPT !.rest = Tail(@)]
             /\ UNCHANGED fws
        ELSE /\ follow' = [rest |-> Tail(follow.rest), incomplete |-> Again(follow.incomplete, changed, c),
                           progress |-> follow.progress \/ changed # {}]
             /\ fws' = [d \in DOMAIN fws |-> IF << c, d >> \in links THEN fws[d] \cup fws[c] ELSE fws[d]]
  /\ UNCHANGED << gram, phase, lambda, first, states, todo, links, backlinks, at, acts, nconflict, errorcnt >>

\* The end of a pass of the do-while loop.
PassEnds ==
  /\ phase = "follow" /\ follow.rest = << >>
  /\ follow' = [follow EXCEPT !.rest = IF follow.progress THEN Configs ELSE @, !.progress = FALSE]
  /\ phase' = IF follow.progress THEN phase ELSE "actions"
  /\ UNCHANGED << gram, lambda, first, states, todo, fws, links, backlinks, at, acts, nconflict, errorcnt >>

-----------------------------------------------------------------------------
(* FindActions and resolve_conflict. *)

ActionRank(type) ==
  CHOOSE i \in 1..10 : << "SHIFT", "ACCEPT", "REDUCE", "ERROR", "SSCONFLICT", "SRCONFLICT", "RRCONFLICT",
                          "SH_RESOLVED", "RD_RESOLVED", "NOT_USED" >>[i] = type

\* actioncmp: actions i and j of a list; of two that are the same the one that
\* lies behind in memory is first, the later one unless another block was allocated.
actioncmp(list, i, j, later) ==
  LET a == list[i]  b == list[j] IN
  \/ a.sp < b.sp
  \/ /\ a.sp = b.sp
     /\ \/ ActionRank(a.type) < ActionRank(b.type)
        \/ /\ a.type = b.type
           /\ a.type = "REDUCE" /\ a.arg < b.arg
        \/ /\ a.type = b.type /\ (a.type = "REDUCE" => a.arg = b.arg)
           /\ (IF later THEN i >= j ELSE i <= j)

Action_sort(list, later) ==
  LET order == InLine(DOMAIN list, LAMBDA i, j : actioncmp(list, i, j, later))
  IN [n \in 1..Len(list) |-> list[order[n]]]

FindActions ==
  LET reduces(q) == FlattenSeq([n \in 1..Cardinality(states[q].items) |->
        LET c == InOrder(states[q].items)[n]
            after == InLine(fws[<< q >> \o c], <=)
        IN IF CanShift(c) THEN << >> ELSE [j \in 1..Len(after) |-> Action("REDUCE", after[j], c[1])]])
      accept(q) == IF q = 1 THEN << Action("ACCEPT", StartSymbol(gram), 0) >> ELSE << >>
  IN
  /\ phase = "actions"
  /\ acts' = [q \in DOMAIN acts |-> acts[q] \o reduces(q) \o accept(q)]
  /\ phase' = "resolve"
  /\ UNCHANGED << gram, lambda, first, states, todo, fws, links, backlinks, follow, at, nconflict, errorcnt >>

Prec(x) == IF x = None THEN None ELSE gram.prec[x]

\* The types of two actions on one symbol, and whether that is a conflict.
resolve_conflict(x, y) ==
  LET yrule == gram.rules[y.arg].precsym
      xrule == gram.rules[x.arg].precsym
      out(tx, ty, err) == [x |-> tx, y |-> ty, err |-> err]
  IN
  IF x.type = "SHIFT" /\ y.type = "SHIFT" THEN out("SHIFT", "SSCONFLICT", 1)
  ELSE IF x.type = "SHIFT" /\ y.type = "REDUCE" THEN
    IF Prec(x.sp) < 0 \/ Prec(yrule) < 0 THEN out("SHIFT", "SRCONFLICT", 1)
    ELSE IF Prec(x.sp) > Prec(yrule) THEN out("SHIFT", "RD_RESOLVED", 0)
    ELSE IF Prec(x.sp) < Prec(yrule) THEN out("SH_RESOLVED", "REDUCE", 0)
    ELSE IF gram.assoc[x.sp] = "RIGHT" THEN out("SHIFT", "RD_RESOLVED", 0)
    ELSE IF gram.assoc[x.sp] = "LEFT" THEN out("SH_RESOLVED", "REDUCE", 0)
    ELSE out("SHIFT", "SRCONFLICT", 1)
  ELSE IF x.type = "REDUCE" /\ y.type = "REDUCE" THEN
    IF Prec(xrule) < 0 \/ Prec(yrule) < 0 \/ Prec(xrule) = Prec(yrule) THEN out("REDUCE", "RRCONFLICT", 1)
    ELSE IF Prec(xrule) > Prec(yrule) THEN out("REDUCE", "RD_RESOLVED", 0)
    ELSE out("RD_RESOLVED", "REDUCE", 0)
  ELSE out(x.type, y.type, 0)

Settled == {"SH_RESOLVED", "RD_RESOLVED", "SSCONFLICT", "SRCONFLICT", "RRCONFLICT"}

\* The assertion at the end of resolve_conflict.
AssertionFails(x, y) ==
  /\ << x.type, y.type >> \notin {<< "SHIFT", "SHIFT" >>, << "SHIFT", "REDUCE" >>, << "REDUCE", "REDUCE" >>}
  /\ x.type \notin Settled /\ y.type \notin Settled

\* The two loops over the sorted actions of a state.
Resolved(list) ==
  LET pairs == SelectSeq([k \in 1..(Len(list) * Len(list)) |-> << 1 + (k - 1) \div Len(list), 1 + ((k - 1) % Len(list)) >>],
                         LAMBDA p : p[1] < p[2] /\ list[p[1]].sp = list[p[2]].sp)
      step(acc, p) ==
        LET r == resolve_conflict(acc.list[p[1]], acc.list[p[2]]) IN
        [list |-> [acc.list EXCEPT ![p[1]].type = r.x, ![p[2]].type = r.y], err |-> acc.err + r.err,
         fails |-> acc.fails \/ AssertionFails(acc.list[p[1]], acc.list[p[2]])]
  IN FoldLeft(step, [list |-> list, err |-> 0, fails |-> FALSE], pairs)

\* One state.
ResolveConflicts ==
  /\ phase = "resolve" /\ at <= Len(states)
  /\ \E later \in BOOLEAN :
       LET r == Resolved(Action_sort(acts[at], later)) IN
       /\ acts' = [acts EXCEPT ![at] = r.list]
       /\ nconflict' = nconflict + r.err
       /\ phase' = IF r.fails THEN "aborted" ELSE phase
  /\ at' = at + 1
  /\ UNCHANGED << gram, lambda, first, states, todo, fws, links, backlinks, follow, errorcnt >>

\* The check for rules that can never be reduced.
Reducible == {r \in Rules(gram) : \E q \in DOMAIN acts : \E i \in DOMAIN acts[q] :
                acts[q][i].type = "REDUCE" /\ acts[q][i].arg = r}

ReportUnreduced ==
  /\ phase = "resolve" /\ at > Len(states)
  /\ errorcnt' = errorcnt + Cardinality(Rules(gram) \ Reducible)
  /\ phase' = "compress"
  /\ UNCHANGED << gram, lambda, first, states, todo, fws, links, backlinks, follow, at, acts, nconflict >>

BuildNext ==
  \/ LambdaPass \/ FirstPass \/ FindStates \/ Shift \/ Return \/ FindLinks
  \/ Propagate \/ PassEnds \/ FindActions \/ ResolveConflicts \/ ReportUnreduced

-----------------------------------------------------------------------------
(* What the pipeline promises. *)

\* FindLinks and FindFollowSets: in each state a configuration is followed by
\* exactly the tokens that follow it in some state of the canonical LR(1)
\* automaton with the same configurations.  The depth-first getstate must copy
\* back links to a state met again, and no pass may end too early.
LookaheadExact ==
  phase = "actions" =>
    LET reference == Merged(gram) IN
    /\ {states[q].items : q \in DOMAIN states} = DOMAIN reference
    /\ \A q \in DOMAIN states : \A c \in states[q].items : fws[<< q >> \o c] = reference[states[q].items][c]

\* FindFirstSets: the two loops find the nonterminals that derive the empty word
\* and the tokens words can begin with.
FirstExact ==
  phase = "start" => \A x \in DOMAIN first :
    LET words == First1(gram)[x] IN
    /\ x \in lambda <=> << >> \in words
    /\ {<< t >> : t \in first[x]} = words \ {<< >>}

\* y would be chosen against x by what %left, %right and %nonassoc declare.
Beats(x, y) ==
  LET px == IF x.type = "REDUCE" \/ x.type = "RD_RESOLVED" THEN Prec(gram.rules[x.arg].precsym) ELSE Prec(x.sp)
      py == IF y.type = "REDUCE" \/ y.type = "RD_RESOLVED" THEN Prec(gram.rules[y.arg].precsym) ELSE Prec(y.sp)
      shifts == {a \in {x, y} : a.type \in {"SHIFT", "SH_RESOLVED"}}
  IN /\ px >= 0 /\ py >= 0
     /\ \/ px > py
        \/ px = py /\ shifts # {} /\ gram.assoc[x.sp] = (IF x \in shifts THEN "RIGHT" ELSE "LEFT")

Acting(list, sp) == {i \in DOMAIN list : list[i].sp = sp /\ list[i].type \in {"SHIFT", "REDUCE", "ACCEPT"}}

\* resolve_conflict over all pairs, also with three or more actions on a token:
\* one action is left, and unless a conflict is counted it beats all others.
OneActionLeft ==
  phase = "compress" => \A q \in DOMAIN acts :
    LET list == acts[q] IN
    \A sp \in {list[i].sp : i \in DOMAIN list} :
      LET on == {i \in DOMAIN list : list[i].sp = sp} IN
      /\ Cardinality(Acting(list, sp)) = 1
      /\ LET best == CHOOSE i \in Acting(list, sp) : TRUE IN
         (\A i \in on : list[i].type \notin {"SSCONFLICT", "SRCONFLICT", "RRCONFLICT"}) =>
           \A i \in on \ {best} : Beats(list[best], list[i])

\* The comment at the end of resolve_conflict: "If we reach this point it must be
\* because the parser conflict had already been resolved."
AssertionHolds == phase # "aborted"
=============================================================================
