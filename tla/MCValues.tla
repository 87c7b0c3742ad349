------------------------------ MODULE MCValues ------------------------------
(***************************************************************************)
(* Values: reference counts and destructors (Heap) on three kinds of       *)
(* programs, and operators (Operators).  A behaviour is of one kind.       *)
(***************************************************************************)
EXTENDS Heap   \* programs that drop objects with a DESTROY method, by leaving blocks and by assigning

CONSTANT Parts   \* the kinds to check: "drops", "destroy", "foreach", "operators"

VARIABLES
  part,
  operands, ops, op_mode   \* of Operators

\* Programs whose DESTROY methods assign to a variable.
Destroy == INSTANCE Heap WITH
             Outer <- 2, Scripts <- {"none", "data"}, DestroyVar <- 1, Overwrites <- FALSE, AssignsLoop <- FALSE,
             Steps <- FALSE, Frames <- {"block"}, MaxCells <- 3, MaxStack <- 2, MaxInt <- 0

\* Programs with foreach and ++.
Turns == INSTANCE Heap WITH
           Outer <- 1, Scripts <- {}, DestroyVar <- 1, Overwrites <- TRUE, AssignsLoop <- AssignsLoop,
           Steps <- TRUE, Frames <- {"foreach"}, MaxCells <- 4, MaxStack <- 1, MaxInt <- 2

\* The values of Operators' own language: a number of four bits, a half, and
\* texts that are empty, a number, a number and a letter, or a letter.
Literal(type, n, d, s) == [type |-> type, n |-> n, d |-> d, s |-> s]
MCLiterals ==
  {Literal("Int", n, 1, << >>) : n \in {-8, -3, -1, 0, 1, 2, 3, 7}}
    \cup {Literal("Double", n, 2, << >>) : n \in {-3, 3}}
    \cup {Literal("Double", n, 1, << >>) : n \in {0, 1}}
    \cup {Literal("Str", 0, 1, s) : s \in {<< >>, << 4 >>, << 3, 12 >>, << 11 >>}}
    \cup {Literal("Bytes", 0, 1, << 11 >>), Literal("Bool", 1, 1, << >>), Literal("Bool", 0, 1, << >>),
          Literal("Undef", 0, 1, << >>)}

Arith == INSTANCE Operators WITH
           Width <- 4, Literals <- MCLiterals, MaxOps <- 2, MaxDen <- 2, MaxPower <- 3,
           stack <- operands, mode <- op_mode

ASSUME PartsAssumption ==
  HeapAssumption /\ Destroy!HeapAssumption /\ Turns!HeapAssumption /\ Arith!OperatorsAssumption

operatorVars == << operands, ops, op_mode >>
partsVars == << part, vars, operatorVars >>

\* Two variables in the programs of "destroy", one in those of the others.
PartsInit ==
  /\ part \in Parts /\ Arith!Init
  /\ IF part = "destroy" THEN Destroy!Init ELSE Init

DropsStep     == part = "drops" /\ Next /\ UNCHANGED << part, operatorVars >>
DestroyStep   == part = "destroy" /\ Destroy!Next /\ UNCHANGED << part, operatorVars >>
TurnsStep     == part = "foreach" /\ Turns!Next /\ UNCHANGED << part, operatorVars >>
OperatorsStep == part = "operators" /\ Arith!Next /\ UNCHANGED << part, vars >>

\* As in Heap: a task that is under way goes on.
PartsSpec ==
  /\ PartsInit /\ [][DropsStep \/ DestroyStep \/ TurnsStep \/ OperatorsStep]_partsVars
  /\ WF_partsVars(part = "destroy" /\ Destroy!Task /\ UNCHANGED << part, operatorVars >>)

-----------------------------------------------------------------------------
(* CountsExact, BetweenOps and TurnsAreNew are stated in Heap. *)

\* operator.cc: dividing by 0 throws, whatever the types; % lies between 0 and its right operand;
\* the lexer's signs, the order of operands and cmpop order values as the text says; an int that
\* became text comes back.
OperatorsExact == [][part = "operators" =>
  Arith!DivisionStep /\ Arith!ModuloStep /\ Arith!ComparisonStep /\ Arith!TextStep]_operatorVars

\* ObjectValue::release: the destructors of one op come to an end.
DestroyDrains == part = "destroy" /\ todo # << >> ~> todo = << >> \/ mode = "aborted"
=============================================================================
