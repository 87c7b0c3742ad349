-------------------------------- MODULE MCVM --------------------------------
(***************************************************************************)
(* VM on small programs, compiled by module Compiler.                      *)
(***************************************************************************)
EXTENDS VM, Trees

CONSTANTS
  Program,    \* the name of the program to run
  MaxHeight,  \* bound: operands on the stack
  MaxMarks    \* bound: marks on the stack

\* Operands and marks that nothing drops pile up without end: a while loop
\* leaves its condition on the stack, a caught exception leaves its marks.
Bounded == height <= MaxHeight /\ Len(mark_stack) <= MaxMarks

X == Get("$x")
Rest == Set(X, Const)

\* Loops of the three kinds in one another, left by last, by return and at
\* their ends, with and without frames of their own in between; a class.
Loops ==
  [main |-> File(<<
     My("$n"),
     Foreach(Const, "$i", Block(<<
       My("$k"),
       While(Const, Block(<<
         If(Const, Block(<< My("$d"), LastStmt >>), Void),
         If(Get("$k"), LastStmt, Block(<< Expr(<< Get("$i") >>) >>)) >>)),
       If(Const, LastStmt, Void) >>)),
     For(Set(My("$j"), Const), Get("$j"), Expr(<< Get("$j") >>), Block(<<
       If(And(Get("$j"), Const), Block(<< LastStmt >>), Void) >>)),
     Class(Block(<< Sub("Foo.bar", << "$x" >>, Block(<<
         Foreach(X, "$y", Block(<<
           While(X, Block(<<
             If(X, Block(<< My("$z"), Return(<< Get("$z") >>) >>), Void) >>)),
           If(X, LastStmt, Void) >>)) >>)) >>)),
     Expr(<< Const, Method(Const, "Foo.bar", << Get("$n") >>) >>) >>)]

\* Calls in every form, among operands of the caller; nothing is caught.
Calls ==
  [main |-> File(<<
     SubDefault("opt", << [name |-> "$a", default |-> Void],
                          [name |-> "$b", default |-> Risky(<< Call("two", << Const, Const >>) >>)],
                          [name |-> "$c", default |-> Or(Const, Call("any", << Const, Const >>))] >>,
                Block(<< Return(<< Expr(<< Get("$a"), Get("$c") >>) >>) >>)),
     Sub("two", << "$x", "$y" >>, Block(<<
        My("$m"), If(X, Return(<< >>), Void), Return(<< X, Get("$y") >>) >>)),
     SubAny("any", Block(<< If(Get("$_"), Block(<< Die(Const) >>), Void), Get("$_") >>)),
     Set(My("$f"), Lambda("lam", << "$p" >>, Block(<<
        Set(Get("$p"), Const), Or(Get("$p"), Unknown) >>))),
     Set(My("$r"), Expr(<< Const, CallTuple("opt", Const, {0, 1, 3}) >>)),
     Expr(<< Get("$r"), Call("opt", << Call("two", << Const, Get("$r") >>), Const >>) >>),
     CodeCall(Get("$f"), "lam", << Const >>),
     If(Const, Block(<< Expr(<< Const, Method(Const, "two", << Const >>) >>) >>), Void) >>)]

\* Exceptions caught and not, in loops, in functions and in a try within.
Tries ==
  [main |-> File(<<
     Sub("g", << "$x" >>, Block(<<
        My("$l"),
        While(Const, Block(<< If(Const, Die(Const), Return(<< Const >>)) >>)) >>)),
     Sub("f", << "$x" >>, Block(<<
        Set(MyTuple(<< "$e", "$v" >>), Try(Block(<<
           Foreach(Const, "$i", Block(<<
              If(Const, Block(<< My("$q"), Call("g", << Get("$q") >>) >>), Void) >>)),
           Expr(<< Const, Try(Block(<< Return(<< Const >>) >>)) >>) >>))),
        If(Get("$v"), Return(<< Get("$v") >>), Void),
        Foreach(Const, "$i", Block(<< Try(Block(<< Risky(<< >>) >>)), LastStmt >>)) >>)),
     Foreach(Const, "$i", Block(<<
        Expr(<< Const, Try(Block(<< Expr(<< Const, Call("f", << Get("$i") >>) >>) >>)) >>),
        If(Const, LastStmt, Void) >>)),
     Call("g", << Const >>) >>)]

\* Native functions that run code: callbacks that call back, an evaluated
\* string, a module; what is thrown is caught below the native function only.
Natives ==
  [main |-> File(<<
     Use("module"),
     Sub("cb", << "$x" >>, Block(<<
        My("$t"),
        Set(MyTuple(<< "$e", "$v" >>), Try(Block(<<
           If(Const, Block(<< Die(X) >>), Void) >>))),
        If(Const, Return(<< Map(X, "inner") >>), Const) >>)),
     Lambda("inner", << "$y" >>, Block(<< Foreach(Get("$y"), "$z", Block(<<
           If(Const, Return(<< Get("$z") >>), LastStmt) >>)) >>)),
     Foreach(Map(Const, "cb"), "$i", Block(<< Expr(<< Const, Map(Const, "cb") >>) >>)),
     Expr(<< Const, Eval("text") >>) >>),
   module |-> File(<< Sub("exported", << "$x" >>, Block(<< X >>)), Const >>),
   text |-> File(<< My("$q"), While(Const, Block(<< LastStmt >>)),
                    If(Const, Die(Const), Void), Call("exported", << Const >>) >>)]

\* A function's argument read inside a try that starts above the frame's top.
TryArgument ==
  [main |-> File(<<
     Sub("f", << "$x" >>, Block(<<
        If(Const, Block(<< My("$y"), Try(Block(<< X >>)) >>), Void) >>)),
     Call("f", << Const >>) >>)]

\* A function that has caught an exception, called by one with an argument.
StaleMark ==
  [main |-> File(<<
     Sub("f", << "$x" >>, Block(<< Try(Block(<< Die(Const) >>)), Const >>)),
     Sub("g", << "$x" >>, Block(<< Expr(<< Call("f", << Const >>) >>), X >>)),
     Call("g", << Const >>) >>)]

\* A callback that throws to a try around the native function.
TryMap ==
  [main |-> File(<<
     Try(Block(<< Map(Const, "cb") >>)),
     Lambda("cb", << "$x" >>, Block(<< Die(X) >>)),
     Const >>)]

\* A method called with too few arguments directly in a try.
TryShort ==
  [main |-> File(<<
     Class(Block(<< Sub("m", << "$x" >>, Block(<< X, X, X >>)) >>)),
     Try(Block(<< Method(Const, "m", << >>) >>)),
     Const >>)]

\* One after the other, so that each begins with what those before it have left.
Everything ==
  [main |-> [t |-> "ROOT", kids |-> << List([p \in 1 .. 4 |-> << Loops, Calls, Natives, Tries >>[p].main.kids[1]]) >>],
   module |-> Natives.module, text |-> Natives.text]

Programs == [all |-> Everything, loops |-> Loops, calls |-> Calls, tries |-> Tries, natives |-> Natives,
             tryarg |-> TryArgument, stale |-> StaleMark, trymap |-> TryMap,
             tryshort |-> TryShort]

-----------------------------------------------------------------------------
(* The constants of VM for the program: what the compiler made of its files. *)

\* (LET keeps a value that is used more than once from being computed again.)
Compiled ==
  LET trees == Programs[Program] IN [f \in DOMAIN trees |-> CompileFile(f, trees[f])]
Funs == LET c == Compiled IN UNION {Range(c[f].funs) : f \in DOMAIN c}
FunRec == LET funs == Funs IN [f \in {u.name : u \in funs} |-> CHOOSE u \in funs : u.name = f]

MCEnd == "end_ops"
MCFiles     == LET trees == Programs[Program] IN DOMAIN trees
MCFunctions == LET funs == FunRec IN DOMAIN funs

Listing ==
  LET c == Compiled
      funs == FunRec
  IN  [a \in DOMAIN c |-> c[a].ops] @@ [f \in DOMAIN funs |-> funs[f].ops]
      @@ (MCEnd :> << [scope |-> RootScope, depth |-> 1, ins |-> [op |-> "END"]] >>)
\* Sequences count from 1, a program counter from 0.
FromZero(Field(_)) ==
  LET list == Listing
      Fields(l) == [p \in 0 .. Len(l) - 1 |-> Field(l[p + 1])]
  IN  [a \in DOMAIN list |-> Fields(list[a])]
MCCode    == LET Ins(o) == o.ins IN FromZero(Ins)
MCScopeAt == LET Scope(o) == o.scope IN FromZero(Scope)
MCDepthAt == LET Depth(o) == o.depth IN FromZero(Depth)

ScopeRecs ==
  LET c == Compiled IN
  UNION {c[f].scopes : f \in DOMAIN c}
    \cup {[id |-> FunctionScope(f), parent |-> RootScope, kind |-> "FUNCTION", entry |-> 0]
            : f \in DOMAIN FunRec}
    \cup {[id |-> RootScope, parent |-> RootScope, kind |-> "LEXICAL", entry |-> 0]}
RecOf == LET recs == ScopeRecs IN [s \in {r.id : r \in recs} |-> CHOOSE r \in recs : r.id = s]
MCScopes     == LET recs == RecOf IN DOMAIN recs
MCParent     == LET recs == RecOf IN [s \in DOMAIN recs |-> recs[s].parent]
MCKind       == LET recs == RecOf IN [s \in DOMAIN recs |-> recs[s].kind]
MCEntryDepth == LET recs == RecOf IN [s \in DOMAIN recs |-> recs[s].entry]

MCReturnScopes ==
  LET recs == RecOf
      in[s \in DOMAIN recs] ==
        s # RootScope /\ (recs[s].kind \in {"FUNCTION", "TRY"} \/ in[recs[s].parent])
  IN {s \in DOMAIN recs : in[s]}
MCLoopOf ==
  LET recs == RecOf
      loop[s \in DOMAIN recs] ==
        IF s = RootScope \/ recs[s].kind \in {"FUNCTION", "TRY"} THEN RootScope
        ELSE IF recs[s].kind \in {"WHILE", "FOR", "FOREACH"} THEN s
        ELSE loop[recs[s].parent]
  IN [s \in {q \in DOMAIN recs : loop[q] # RootScope} |-> loop[s]]

MCFnScope  == LET funs == FunRec IN [f \in DOMAIN funs |-> FunctionScope(f)]
MCNParams  == LET funs == FunRec IN [f \in DOMAIN funs |-> funs[f].nparams]
MCDefaults ==
  LET ByIndex(ds) == [i \in 0 .. Len(ds) - 1 |-> ds[i + 1]]
      funs == FunRec
  IN [f \in DOMAIN funs |-> ByIndex(funs[f].defaults)]

\* The compiler reports no error for the program.
ASSUME Compiles == \A f \in MCFiles : ~Compiled[f].error
=============================================================================
