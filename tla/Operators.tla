------------------------------ MODULE Operators ------------------------------
(***************************************************************************)
(* Operators on values and the conversions they use.  Ints wrap at their   *)
(* width; doubles are exact fractions; texts are sequences of characters   *)
(* in the order of their codes.  Operands are pushed in the order of the   *)
(* text, and each op takes them off again its own way.                     *)
(***************************************************************************)
EXTENDS Integers, Sequences, SequencesExt, Bitwise

CONSTANTS
  Width,      \* bits of an int
  Literals,   \* values a program writes
  MaxOps,     \* bound on the operators applied one to the other's result
  MaxDen,     \* bound on the denominators of doubles: 1 or 2
  MaxPower    \* bound on exponents

OperatorsAssumption == Width \in Nat \ {0, 1} /\ MaxOps \in Nat /\ MaxDen \in 1..2 /\ MaxPower \in Nat

VARIABLES
  stack,   \* operands
  ops,     \* operators applied so far
  mode     \* run, the exception thrown, aborted (TODO), misread (an operand taken for
           \* another type), or infinite: a double without a fraction, where the model stops

vars == << stack, ops, mode >>

Init == stack = << >> /\ ops = 0 /\ mode = "run"

-----------------------------------------------------------------------------
(* Values. *)

Half == 2^(Width - 1)

\* What the machine's addition and multiplication leave of a sum or product.
Wrap(n) == ((n + Half) % (2 * Half)) - Half

\* What its conversion makes of a double: toward zero, or the least int.
Cut(n, d) == IF n < 0 THEN -((-n) \div d) ELSE n \div d
Truncated(n, d) == IF Cut(n, d) \in -Half..Half - 1 THEN Cut(n, d) ELSE -Half

Value(type, n, d, s) == [type |-> type, n |-> n, d |-> d, s |-> s]
IntValue(n)   == Value("Int", n, 1, << >>)
StrValue(s)   == Value("Str", 0, 1, s)
BytesValue(s) == Value("Bytes", 0, 1, s)
BoolValue(b)  == Value("Bool", IF b THEN 1 ELSE 0, 1, << >>)
UndefValue    == Value("Undef", 0, 1, << >>)

Abs(n) == IF n < 0 THEN -n ELSE n
Divisor(n, d) == CHOOSE c \in 1..d : d % c = 0 /\ Abs(n) % c = 0
                   /\ \A e \in c + 1..d : d % e # 0 \/ Abs(n) % e # 0

\* d may be negative, not 0.
DoubleValue(n, d) ==
  LET m == IF d < 0 THEN -n ELSE n
      c == Divisor(m, Abs(d))
  IN  Value("Double", Cut(m, c), Abs(d) \div c, << >>)

-----------------------------------------------------------------------------
(* Conversions.  A conversion gives a value, or the mode it ends in.       *)

Failed(mode1) == Value("fail", 0, 1, << mode1 >>)
Fails(v) == v.type = "fail"

Minus == 0
Point == 1
Digit(i) == 2 + i
IsDigit(c) == c \in Digit(0)..Digit(9)

\* Ints of the width have two digits at most.
TextOf(n) ==
  (IF n < 0 THEN << Minus >> ELSE << >>)
  \o (IF Abs(n) > 9 THEN << Digit(Abs(n) \div 10) >> ELSE << >>) \o << Digit(Abs(n) % 10) >>

TextTrue  == << 32, 30, 33, 15 >>
TextFalse == << 16, 11, 24, 31, 15 >>
TextUndef == << 33, 26, 14, 15, 16 >>

\* Value::to_s; the stream drops a fraction that is 0.
to_s(v) ==
  CASE v.type \in {"Str", "Bytes"} -> StrValue(v.s)
    [] v.type = "Int" -> StrValue(TextOf(v.n))
    [] v.type = "Double" ->
         StrValue(IF v.d = 1 THEN TextOf(v.n)
             ELSE (IF v.n < 0 THEN << Minus >> ELSE << >>)
                    \o TextOf(Abs(v.n) \div 2) \o << Point, Digit(5) >>)
    [] v.type = "Bool" -> StrValue(IF v.n = 1 THEN TextTrue ELSE TextFalse)
    [] OTHER -> StrValue(TextUndef)

\* strtol: a sign and digits, as many as there are; none make 0.
Signless(s) == IF s # << >> /\ s[1] = Minus THEN Tail(s) ELSE s
Digits(s) == LET stop == {i \in DOMAIN s : ~IsDigit(s[i])}
             IN  SubSeq(s, 1, IF stop = {} THEN Len(s)
                              ELSE (CHOOSE i \in stop : \A j \in stop : i <= j) - 1)
strtol(s) ==
  LET m == FoldLeft(LAMBDA n, c : 10 * n + (c - Digit(0)), 0, Digits(Signless(s)))
  IN  IF Signless(s) # s THEN -m ELSE m

\* Value::to_int; the text of a long goes into an int.
to_int(v) ==
  CASE v.type = "Int" -> v
    [] v.type = "Double" -> IntValue(Truncated(v.n, v.d))
    [] v.type = "Str" -> IntValue(Wrap(strtol(v.s)))
    [] OTHER -> Failed("not an int")

IsNumber(v) == v.type \in {"Int", "Double"}

\* Value::to_double
to_double(v) == IF IsNumber(v) THEN Value("Double", v.n, v.d, << >>) ELSE Failed("not a double")

\* Value::to_bool
to_bool(v) == v.type # "Undef" /\ (v.type = "Bool" => v.n = 1)

-----------------------------------------------------------------------------
(* Binary operators, operator.cc. *)

\* A function of two doubles, and of two ints the right one of which is converted.
Both(Op(_, _), v, w) == IF Fails(w) THEN w ELSE Op(v, w)

AsDoubles(l, r) == l.type = "Double" \/ (l.type = "Int" /\ r.type = "Double")

Plus(v, w)  == DoubleValue(v.n * w.d + w.n * v.d, v.d * w.d)
Minused(v, w) == Plus(v, [w EXCEPT !.n = -@])
Times(v, w) == DoubleValue(v.n * w.n, v.d * w.d)
Over(v, w)  == DoubleValue(v.n * w.d, v.d * w.n)

op_add(l, r) ==
  IF l.type = "Str" THEN StrValue(l.s \o to_s(r).s)
  ELSE IF l.type = "Bytes" THEN BytesValue(l.s \o to_s(r).s)
  ELSE IF AsDoubles(l, r) THEN Both(Plus, to_double(l), to_double(r))
  ELSE IF l.type = "Int" THEN Both(LAMBDA v, w : IntValue(Wrap(v.n + w.n)), l, to_int(r))
  ELSE Failed("not numeric or string")

op_sub(l, r) ==
  IF AsDoubles(l, r) THEN Both(Minused, to_double(l), to_double(r))
  ELSE IF l.type = "Int" THEN Both(LAMBDA v, w : IntValue(Wrap(v.n - w.n)), l, to_int(r))
  ELSE Failed("not numeric")

Repeated(s, n) == FoldLeftDomain(LAMBDA t, i : t \o s, << >>, [i \in 1..n |-> i])

\* The right operand of an int is taken for an int without a look at its type.
op_mul(l, r) ==
  IF AsDoubles(l, r) THEN Both(Times, to_double(l), to_double(r))
  ELSE IF l.type = "Int"
  THEN IF r.type = "Int" THEN IntValue(Wrap(l.n * r.n)) ELSE Failed("misread")
  ELSE IF l.type = "Str" THEN Both(LAMBDA v, w : StrValue(Repeated(v.s, w.n)), l, to_int(r))
  ELSE Failed("not numeric")

IsZero(r) == r.n = 0

\* Two ints are divided as doubles, too, and the quotient converted.
op_div(l, r) ==
  LET divided(v, w) ==
        IF IsZero(w) THEN Failed("divided by zero")
        ELSE IF AsDoubles(l, r) THEN IF w.n = 0 THEN Failed("infinite") ELSE Over(v, w)
        ELSE IntValue(Truncated(IF w.n < 0 THEN -v.n ELSE v.n, Abs(w.n)))
  IN  IF AsDoubles(l, r) THEN Both(divided, to_double(l), to_double(r))
      ELSE IF l.type = "Int" THEN Both(divided, l, to_int(r))
      ELSE Failed("not numeric")

\* pow(x, 0) is 1, whatever x is.
Power(v, w) ==
  IF w.n = 0 THEN DoubleValue(1, 1) ELSE
  IF w.n < 0 /\ v.n = 0 THEN Failed("infinite")
  ELSE IF w.n < 0 THEN DoubleValue(v.d^(-w.n), v.n^(-w.n)) ELSE DoubleValue(v.n^w.n, v.d^w.n)

\* An infinite double becomes the least int.
op_pow(l, r) ==
  IF ~IsNumber(l) THEN Failed("not numeric")
  ELSE IF AsDoubles(l, r) THEN Both(Power, to_double(l), to_double(r))
  ELSE LET p == Both(Power, to_double(l), to_double(r))
       IN  IF Fails(p) THEN IF p.s = << "infinite" >> THEN IntValue(-Half) ELSE p
           ELSE IntValue(Truncated(p.n, p.d))

\* Mutant: the remainder of C, with the sign of the dividend.
Remainder(x, y) == IF y = 0 THEN -Half ELSE x - y * Cut(IF y < 0 THEN -x ELSE x, Abs(y))

\* x - y * floor(x / y); by zero it is not a number, which converts to the least int.
Modulo(x, y) ==
  IF y = 0 THEN -Half ELSE x - y * ((IF y < 0 THEN -x ELSE x) \div Abs(y))

OnInts(Op(_, _), l, r) ==
  IF l.type # "Int" THEN Failed("not integer")
  ELSE Both(LAMBDA v, w : IntValue(Op(v.n, w.n)), l, to_int(r))

Unsign(n) == n % (2 * Half)

Binary(op, l, r) ==
  CASE op = "+"  -> op_add(l, r)
    [] op = "-"  -> op_sub(l, r)
    [] op = "*"  -> op_mul(l, r)
    [] op = "/"  -> op_div(l, r)
    [] op = "**" -> op_pow(l, r)
    [] op = "&"  -> OnInts(LAMBDA x, y : Wrap(Unsign(x) & Unsign(y)), l, r)
    [] op = "|"  -> OnInts(LAMBDA x, y : Wrap(Unsign(x) | Unsign(y)), l, r)
    [] op = "^"  -> OnInts(LAMBDA x, y : Wrap(Unsign(x) ^^ Unsign(y)), l, r)
    [] op = "<<" -> OnInts(LAMBDA x, y : Wrap(x * 2^(y % Width)), l, r)
    [] op = ">>" -> OnInts(LAMBDA x, y : x \div 2^(y % Width), l, r)
    [] op = "%"  -> OnInts(Modulo, l, r)

Arithmetic == {"+", "-", "*", "/", "**", "&", "|", "^", "<<", ">>", "%"}

\* Texts and comparisons.
LessText(s, t) == \E i \in 1..Len(t) :
  /\ \A j \in 1..i - 1 : j <= Len(s) /\ s[j] = t[j]
  /\ i > Len(s) \/ (i <= Len(s) /\ s[i] < t[i])

LessNumber(v, w) == v.n * w.d < w.n * v.d

\* std::less and its relatives, from an order on the operands.
Relation(op, less, greater) ==
  CASE op = "OP_LT" -> less            [] op = "OP_GT" -> greater
    [] op = "OP_LE" -> ~greater        [] op = "OP_GE" -> ~less
    [] op = "OP_EQ" -> ~less /\ ~greater [] op = "OP_NE" -> less \/ greater

Compared(op, Less(_, _), v, w) == BoolValue(Relation(op, Less(v, w), Less(w, v)))

cmpop(op, l, r) ==
  CASE l.type = "Int" ->
         IF Fails(to_int(r)) THEN to_int(r) ELSE Compared(op, LessNumber, l, to_int(r))
    [] l.type = "Str" -> Compared(op, LessText, l.s, to_s(r).s)
    [] l.type = "Bytes" ->
         IF r.type = "Bytes" THEN Compared(op, LessText, l.s, r.s) ELSE BoolValue(FALSE)
    [] l.type = "Double" ->
         IF IsNumber(r) THEN Compared(op, LessNumber, l, r) ELSE Failed("aborted")
    [] l.type = "Bool" -> BoolValue((l.n = 1) = to_bool(r))
    [] OTHER -> BoolValue(r.type = "Undef")

Signs == {"<", ">", "<=", ">=", "==", "!="}

\* The lexer gives "<" the token of ">", and so on.
OpOf == [s \in Signs |->
  CASE s = "<" -> "OP_GT" [] s = ">" -> "OP_LT" [] s = "<=" -> "OP_GE"
    [] s = ">=" -> "OP_LE" [] s = "==" -> "OP_EQ" [] s = "!=" -> "OP_NE"]

-----------------------------------------------------------------------------
(* Ops. *)

Push == \E v \in Literals :
  /\ mode = "run" /\ Len(stack) < 2
  /\ stack' = Append(stack, v)
  /\ UNCHANGED << ops, mode >>

Replace(n, v) ==
  /\ ops' = ops + 1
  /\ IF Fails(v) THEN mode' = v.s[1] /\ stack' = SubSeq(stack, 1, Len(stack) - n + 1)
     ELSE /\ mode' = "run" /\ v.d <= MaxDen
          /\ stack' = SubSeq(stack, 1, Len(stack) - n) \o << v >>

Ready(n) == mode = "run" /\ ops < MaxOps /\ Len(stack) >= n

\* Doubles have no roots here, and the numbers of a power stay small.
Exact(op, r) == op = "**" => r.d = 1 /\ Abs(r.n) <= MaxPower

\* BINOP: the operand on top is the right one.
BINOP == \E op \in Arithmetic :
  LET l == stack[Len(stack) - 1]
      r == Last(stack)
  IN  Ready(2) /\ Exact(op, r) /\ Replace(2, Binary(op, l, r))

\* OP_EQ and its relatives: the operand on top is the left one.
Comparison(s) == Ready(2) /\ Replace(2, cmpop(OpOf[s], Last(stack), stack[Len(stack) - 1]))

Compare == \E s \in Signs : Comparison(s)

OP_UNARY_NEGATIVE ==
  /\ Ready(1)
  /\ LET v == Last(stack)
     IN  Replace(1, CASE v.type = "Int" -> IntValue(Wrap(-v.n))
                      [] v.type = "Double" -> [v EXCEPT !.n = -@]
                      [] OTHER -> Failed("not a numeric"))

Next == Push \/ BINOP \/ Compare \/ OP_UNARY_NEGATIVE

Spec == Init /\ [][Next]_vars

-----------------------------------------------------------------------------
(* Properties. *)

\* The operator is applied to a left and a right operand of the given types.
Applied(op, lefts, rights) ==
  /\ Ready(2) /\ Len(stack) = 2 /\ stack[1].type \in lefts /\ stack[2].type \in rights
  /\ Replace(2, Binary(op, stack[1], stack[2]))

Numbers == {"Int", "Double"}

\* op_div (operator.cc:59): whatever the types of two numbers, dividing throws exactly when
\* the divisor is 0, and two ints give the quotient cut toward 0, unless it has no int.
DivisionStep ==
  /\ Applied("/", Numbers, Numbers) =>
       mode' = IF stack[2].n = 0 THEN "divided by zero" ELSE "run"
  /\ Applied("/", {"Int"}, {"Int"}) /\ mode' = "run" =>
       LET x == stack[1].n
           y == stack[2].n
           q == stack'[1].n
       IN  (x = -Half /\ y = -1) \/ (Abs(x - q * y) < Abs(y) /\ Abs(q * y) <= Abs(x))

\* So it is for every division (operator.cc:59).
DivisionByZero == [][DivisionStep]_vars

\* op_modulo (operator.cc:178), t/tra/operator.tra:41-43: the result differs from the left
\* operand by a multiple of the right one and lies between 0 and it.
ModuloStep ==
  Applied("%", {"Int"}, {"Int"}) /\ stack[2].n # 0 =>
    LET x == stack[1].n
        y == stack[2].n
        m == stack'[1].n
    IN  /\ (x - m) % Abs(y) = 0
        /\ IF y > 0 THEN m \in 0..y - 1 ELSE m \in y + 1..0

\* So it is for every remainder (operator.cc:178).
ModuloFloors == [][ModuloStep]_vars

\* The lexer's signs, the order of the operands and cmpop together: values of one type are
\* ordered by their numbers or their texts.
ComparisonStep ==
  \A s \in Signs :
    Comparison(s) /\ Len(stack) = 2 /\ stack[1].type = stack[2].type
      /\ stack[1].type \in {"Int", "Double", "Str", "Bytes"} =>
      LET l == stack[1]
          r == stack[2]
          less == IF IsNumber(l) THEN LessNumber(l, r) ELSE LessText(l.s, r.s)
          same == l = r
      IN  (stack'[1].n = 1) = (CASE s = "<" -> less [] s = "<=" -> less \/ same
                                 [] s = ">" -> ~less /\ ~same [] s = ">=" -> ~less
                                 [] s = "==" -> same [] s = "!=" -> ~same)

\* So it is for every comparison (operator.cc, cmpop).
OrderOfSigns == [][ComparisonStep]_vars

\* to_s and to_int (value.cc:92-140): the text an int leaves in a string is read back as
\* that int, the least one included.
TextStep ==
  Applied("+", {"Str"}, {"Int"}) /\ stack[1].s = << >> => to_int(stack'[1]) = stack[2]

\* So it is for every text an int leaves (value.cc:92-140).
TextReadsBack == [][TextStep]_vars

\* lib/Test/More.tra:30 "if ($msg!=undef)", before the message of a test is printed: a
\* message that is there differs from undef, and undef does not.
DiffersFromUndef == [][
  Comparison("!=") /\ stack[2] = UndefValue /\ mode' = "run" =>
    (stack'[1].n = 1) = (stack[1] # UndefValue)]_vars
=============================================================================
