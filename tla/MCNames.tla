------------------------------ MODULE MCNames ------------------------------
(***************************************************************************)
(* How a program's names are found, part by part: the levels that the      *)
(* compiler gives variables (CompiledTrees, with the jumps and frames they *)
(* depend on), their values in pads (Pads), functions and classes in the   *)
(* scopes of files (Loader), methods in classes (Classes).  A behaviour is *)
(* of one part; the others stay as they begin, with one of their programs. *)
(***************************************************************************)
EXTENDS Loader

CONSTANT Parts   \* those to check: "trees", "pads", "loader", "classes"

VARIABLES
  part,
  tree, wraps,                                                                 \* of CompiledTrees
  prog, pads, frames, codes, crashed, declared, about, held, got,              \* of Pads
  known, class_scope, open_class, objects, result                              \* of Classes

-----------------------------------------------------------------------------
(* Programs for Pads. *)

Scope(kind, parent, seen, names) == [kind |-> kind, parent |-> parent, seen |-> seen, names |-> names]

File == << Scope("file", 0, 0, << >>), Scope("block", 1, 0, << "x", "y" >>) >>

\* A function made between two declarations, with a block that has a name of
\* its own for a variable outside, and a plain block beside it.
Counter == File \o << Scope("function", 2, 1, << "a" >>), Scope("block", 3, 1, << "y" >>),
                      Scope("block", 2, 2, << "x" >>) >>

\* Two functions, one in a block of its own.
TwoFunctions == File \o << Scope("function", 2, 2, << >>), Scope("block", 2, 1, << "z" >>),
                           Scope("function", 4, 1, << >>) >>

\* A method of a class that is declared in the file.
Method == File \o << Scope("class", 2, 1, << >>), Scope("function", 3, 0, << "a" >>) >>

\* A function that does its work in a try.
Guarded == File \o << Scope("function", 2, 1, << >>), Scope("try", 3, 0, << "y" >>) >>

Good == {Counter, TwoFunctions, Method, Guarded}

-----------------------------------------------------------------------------
(* Libraries of two modules for Loader: each file is one of a few short    *)
(* bodies, and every combination is an initial state.                      *)

MCModules == {"A", "B"}

Use(m, all)  == [op |-> "use", mod |-> m, all |-> all]
Sub(n)       == [op |-> "sub", name |-> n]
Open(n)      == [op |-> "class", name |-> n]
Parent(n)    == [op |-> "parent", name |-> n]
Shut         == [op |-> "class_end"]
TryTo(to)     == [op |-> "try", to |-> to]
TryDone      == [op |-> "try_end"]
Die          == [op |-> "die"]

Ok(body) == [file |-> "ok", body |-> body]
NotOk    == {[file |-> f, body |-> << >>] : f \in {"missing", "unreadable", "bad"}}

Disk(m, a, b) == [x \in {"A", "B", "main"} |->
                    IF x = "main" THEN Ok(m) ELSE IF x = "A" THEN a ELSE b]

Catching(stmt) == << TryTo(4), stmt, TryDone >>

\* A uses B or nothing; B is complete in itself, or fails.
As == {Ok(<< Sub("f") >>), Ok(<< Open("C"), Sub("g"), Shut, Sub("f") >>)}
        \cup {Ok(<< Sub("f"), Use("B", all), Open("D"), Parent(p), Shut >>) :
                all \in BOOLEAN, p \in {"C", "D"}}
        \cup {Ok(Catching(Use("B", TRUE)) \o << Sub("f") >>)}
Bs == {Ok(<< Open("C"), Sub("f"), Shut, Sub("g") >>),
       Ok(<< Sub("f"), Die >>),
       Ok(<< TryTo(6), Open("C"), Shut, Die, TryDone, Sub("f") >>)} \cup NotOk

Mains == {<< Sub("f"), Use(m, x), Use(n, y), Open("C"), Sub("g"), Shut >> :
            m \in MCModules, n \in MCModules, x \in BOOLEAN, y \in BOOLEAN}
         \cup {Catching(Use("B", x)) \o << Use("A", TRUE), Use("B", TRUE), Sub("g") >> : x \in BOOLEAN}
         \cup {<< Open("C"), Shut, Open("C"), Parent("D"), Shut >>,
                << Open("C"), Shut, Open("D"), Parent("C"), Sub("g"), Shut, Sub("g") >>,
                << Open("C"), Parent("C"), Shut >>, << Use("A", TRUE) >>,
                Catching(Die) \o << Sub("f") >>,
                << TryTo(6), Open("C"), Die, Shut, TryDone, Sub("f") >>}

\* Libraries that load, or fail in one of the ways a load can fail.
LibDisks == {Disk(m, a, b) : m \in Mains, a \in As, b \in Bs}
\* Modules that use each other.
CycleDisks == {Disk(<< Use("A", TRUE) >>, Ok(<< Sub("f"), Use("B", TRUE) >>),
                    Ok(<< Use("A", all), Sub("g") >>)) : all \in BOOLEAN}

-----------------------------------------------------------------------------
Ct == INSTANCE CompiledTrees WITH LastFirst <- FALSE, Lambdas <- FALSE, MaxWraps <- 3
Pd == INSTANCE Pads WITH
        Programs <- Good, Values <- {1}, Redefines <- FALSE, SetsInner <- FALSE, MaxPads <- 6, MaxFrames <- 6
Cl == INSTANCE Classes WITH
        Names <- {"A", "B"}, Methods <- {"m"}, Types <- {"int", "undef"}, MaxClasses <- 9, MaxObjects <- 1,
        classes <- known, file_scope_ <- class_scope, klass_ <- open_class

\* The hypotheses of the proofs about Loader.
ASSUME LibraryAssumption ==
  \A d \in LibDisks : NoCycle(d) /\ NoClassSkipped(d) /\ NoUseInClass(d)

ASSUME PartsAssumption == LoaderAssumption /\ Pd!PadsAssumption /\ Cl!ClassesAssumption

treesVars   == << tree, wraps >>
padsVars    == << prog, pads, frames, codes, crashed, declared, about, held, got >>
classesVars == << known, class_scope, open_class, objects, result >>
partsVars   == << part, treesVars, padsVars, vars, classesVars >>

PartsInit ==
  /\ part \in Parts
  /\ Ct!Init /\ (part = "trees" \/ tree = Ct!Const)
  /\ Pd!Init /\ (part = "pads" \/ prog = Counter)
  /\ Init /\ (part = "loader" \/ disk = CHOOSE d \in Disks : TRUE)
  /\ Cl!Init

TreesStep   == part = "trees" /\ Ct!Wrap /\ UNCHANGED << part, padsVars, vars, classesVars >>
PadsStep    == part = "pads" /\ Pd!Next /\ UNCHANGED << part, treesVars, vars, classesVars >>
BoundsEnd   == part \in {"trees", "pads"} /\ UNCHANGED partsVars   \* the bounds may leave no step
LoaderStep  == part = "loader" /\ Next /\ UNCHANGED << part, treesVars, padsVars, classesVars >>
ClassesStep == part = "classes" /\ Cl!Next /\ UNCHANGED << part, treesVars, padsVars, vars >>

\* Bound: the two programs with most behaviours are followed up to their fifth pad, the others to the sixth.
PadsBound == part = "pads" /\ prog \in {TwoFunctions, Guarded} => Len(pads) <= 5

PartsSpec == PartsInit /\ [][TreesStep \/ PadsStep \/ BoundsEnd \/ LoaderStep \/ ClassesStep]_partsVars

-----------------------------------------------------------------------------
(* Properties, whose parts are stated in the modules. *)

\* Compiler::find_localvar, NODE_LAST: a variable's level leads to its block, an op has the same
\* frames whatever way control comes to it, and OP_LAST leaves the loop it is written in
\* (compiler.cc:1472) unless it stands before an inner loop.
JumpsAndLevels == part = "trees" => Ct!JumpsAndLevels

\* PadList (vm.inc:100-205): the variable that is read is the one that the text means, and the
\* walk over pads ends on one (assert(pl) in PadList::get_dynamic).
LexicalScoping == part = "pads" => Pd!LexicalScoping /\ Pd!PadFound

\* The machine of pads and frames is one of lexical scoping, read by read and assignment by assignment.
Refines == Pd!L!Init /\ [][part = "pads" /\ Pd!L!Next]_Pd!L!vars

\* OP_SET_PARENT, VM::call_method and ObjectValue::isa: the lines of superclasses end, of two
\* methods the overriding one runs, those of Object are answered, and isa says what dispatch does;
\* classes of a module that is required are in the scope its users import.
MethodsFound ==
  /\ part = "loader" => SuperEarlier /\ PackageComplete
  /\ part = "classes" => Cl!Rooted /\ Cl!OverrideRuns /\ Cl!AnswersUniversal /\ Cl!IsaAnswers /\ Cl!IsaComplete
=============================================================================
