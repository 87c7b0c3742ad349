------------------------------ MODULE Lexical ------------------------------
(***************************************************************************)
(* What variables, blocks and functions promise: a name is the variable of *)
(* the innermost enclosing block, enclosing in the text of the program,    *)
(* that has declared it before that place; a function value keeps the      *)
(* blocks it was made in.  Module Pads refines this.                       *)
(***************************************************************************)
EXTENDS Integers, Sequences, FiniteSets, Functions

CONSTANTS
  Programs,  \* sets of scopes: [kind, parent, seen, names]
  Values,    \* what variables are assigned
  Ids        \* activations of scopes

VARIABLES
  prog,   \* the program
  env,    \* activation -> its scope, the activation around it, its variables
  at,     \* activations entered and not left
  held,   \* function values: their function and the activation they were made in
  got     \* the value read last

vars == << prog, env, at, held, got >>

Undef == 0

Here == at[Len(at)]

\* Names that a scope nested in s can see of the scope around s.
Seen(s) == IF prog[s].parent = 0 THEN 0 ELSE prog[s].seen

Declares(s, n, name) == \E i \in 1..n : prog[s].names[i] = name

\* The variable of that name, seen from activation e with n declarations.
RECURSIVE Resolve(_, _, _)
Resolve(e, n, name) ==
  LET s == env[e].scope IN
  IF Declares(s, n, name)
  THEN << e, CHOOSE i \in 1..n : prog[s].names[i] = name >>
  ELSE IF env[e].link = 0 THEN << 0, 0 >>
  ELSE Resolve(env[e].link, Seen(s), name)

Variable(name) == Resolve(Here, Len(env[Here].vals), name)

Visible(name) == Variable(name)[1] # 0

ValueOf(name) == LET v == Variable(name) IN env[v[1]].vals[v[2]]

-----------------------------------------------------------------------------

Activate(e, s, link, vals) ==
  /\ e \in Ids \ DOMAIN env
  /\ env' = [x \in DOMAIN env \union {e} |->
               IF x = e THEN [scope |-> s, link |-> link, vals |-> vals] ELSE env[x]]
  /\ at' = Append(at, e)

Init == \E e \in Ids :
  /\ prog \in Programs
  /\ env = [x \in {e} |-> [scope |-> 1, link |-> 0, vals |-> << >>]]
  /\ at = << e >> /\ held = {} /\ got = Undef

Declare ==
  /\ Len(env[Here].vals) < Len(prog[env[Here].scope].names)
  /\ env' = [env EXCEPT ![Here].vals = Append(@, Undef)]
  /\ UNCHANGED << prog, at, held, got >>

Enter == \E e \in Ids, s \in DOMAIN prog :
  /\ prog[s].parent = env[Here].scope /\ prog[s].kind # "function"
  /\ Activate(e, s, Here, << >>)
  /\ UNCHANGED << prog, held, got >>

Define == \E s \in DOMAIN prog :
  /\ prog[s].parent = env[Here].scope /\ prog[s].kind = "function"
  /\ held' = held \union {<< s, Here >>}
  /\ UNCHANGED << prog, env, at, got >>

Call == \E e \in Ids, f \in held :
  /\ \E args \in [1..Len(prog[f[1]].names) -> Values] : Activate(e, f[1], f[2], args)
  /\ UNCHANGED << prog, held, got >>

Leave == \E n \in 1..Len(at) - 1 :
  /\ at' = SubSeq(at, 1, n)
  /\ UNCHANGED << prog, env, held, got >>

Read == \E name \in UNION {Range(prog[s].names) : s \in DOMAIN prog} :
  /\ Visible(name) /\ got' = ValueOf(name)
  /\ UNCHANGED << prog, env, at, held >>

Write == \E name \in UNION {Range(prog[s].names) : s \in DOMAIN prog}, v \in Values :
  /\ Visible(name)
  /\ LET x == Variable(name) IN env' = [env EXCEPT ![x[1]].vals[x[2]] = v]
  /\ UNCHANGED << prog, at, held, got >>

Next == Declare \/ Enter \/ Define \/ Call \/ Leave \/ Read \/ Write

Spec == Init /\ [][Next]_vars
=============================================================================
