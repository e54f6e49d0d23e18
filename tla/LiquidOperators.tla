-------------------------- MODULE LiquidOperators ---------------------------
(***************************************************************************)
(* The operators of the standard dialect (src/dialect.cpp:707-1042) as     *)
(* functions of their rendered operands.  The machine and the tree         *)
(* renderer call the same render functions, with the operands taken from   *)
(* the stack or from the tree.                                             *)
(***************************************************************************)
EXTENDS LiquidValues

(* The longest range that is built; beyond it the operator yields nothing. *)
CONSTANT MaxRange
ASSUME MaxRangeAssumption == MaxRange \in Nat

(* DivisionOperation: zero for a zero divisor, else the quotient cut towards zero. *)
Quotient(a, b) ==
    IF b = 0 THEN 0
    ELSE LET q == (IF a < 0 THEN -a ELSE a) \div (IF b < 0 THEN -b ELSE b)
         IN  IF (a < 0) = (b < 0) THEN q ELSE -q

(* Mutated: the remainder of mathematics. *)
RemainderFromBelow(a, b) == a % (IF b < 0 THEN -b ELSE b)

(* The remainder of C: it has the sign of the dividend. *)
Remainder(a, b) == a - b * Quotient(a, b)

Arithmetic == [sym \in {"+", "-", "*", "/"} |->
    [a, b \in Int |-> CASE sym = "+" -> a + b [] sym = "-" -> a - b
                        [] sym = "*" -> a * b [] sym = "/" -> Quotient(a, b)]]

(* The same of doubles, of which nothing is cut off; of one that is Beyond there is no more. *)
FloatArithmetic(sym, x, y) ==
    LET a == x.n
        b == y.n
        negative == (a < 0) # (b < 0)
    IN  CASE Beyond \in {x, y} -> Beyond
          [] Beyond \notin {x, y} /\ sym = "+" -> Double(a + b, FALSE)
          [] Beyond \notin {x, y} /\ sym = "-" -> Double(a - b, FALSE)
          [] Beyond \notin {x, y} /\ sym = "*" ->
                 IF Magnitude(a * b) % 8 # 0 THEN Beyond ELSE Double(Quotient(a * b, 8), negative)
          [] Beyond \notin {x, y} /\ sym = "/" ->
                 IF b = 0 THEN Float(0)
                 ELSE IF Remainder(8 * a, b) # 0 THEN Beyond ELSE Double(Quotient(8 * a, b), negative)

(* operate of two numbers: two integers give an integer, with a double it is a double. *)
Operate(sym, v, w) ==
    IF IsInt(v) /\ IsInt(w) THEN Num(Arithmetic[sym][v.n, w.n])
    ELSE FloatArithmetic(sym, ToFloat(v), ToFloat(w))

(* ArithmeticOperatorNode::render: numbers, and strings for + only. *)
ArithmeticOperator(sym, v, w) ==
    CASE IsNumber(v) /\ IsNumber(w) -> Operate(sym, v, w)
      [] sym = "+" /\ (IsStr(v) \/ (IsNumber(v) /\ IsStr(w))) -> Str(Text(v) \o Text(w))
      [] OTHER -> Nil

RemainderOrNil(a, b) == IF b = 0 THEN Nil ELSE Num(Remainder(a, b))
ModuloOperator(v, w) == RemainderOrNil(ToInt(v), ToInt(w))

UnaryMinusOperator(v) ==
    CASE v.t = "INT"   -> Num(-v.n)
      [] v.t = "FLOAT" -> Double(-v.n, TRUE)
      [] OTHER         -> Nil

UnaryNegationOperator(v) == Bool(~Truthy(v))

(* NumericalComparaisonOperatorNode::render: nothing but two numbers compares. *)
Eighths(v) == IF IsInt(v) THEN 8 * v.n ELSE v.n

NumericalComparison(sym, v, w) ==
    LET a == Eighths(v)
        b == Eighths(w)
    IN  IF ~(IsNumber(v) /\ IsNumber(w)) THEN Nil
        ELSE Bool(CASE sym = "<" -> a < b [] sym = "<=" -> a <= b
                    [] sym = ">" -> a > b [] sym = ">=" -> a >= b)

(***************************************************************************)
(* QualitativeComparaisonOperatorNode::render.  The left operand's type    *)
(* decides: a nil equals only a nil, a boolean compares with the truth of  *)
(* the right operand, a number reads a string as a number, a string reads  *)
(* the right operand as text, and two pointers compare as pointers.  Of a  *)
(* double that is compared with a string the bits are taken for an integer *)
(* (dialect.cpp:905), which but for zero equals none that a string gives.  *)
(* Against a value of another kind a pointer yields false for == and for   *)
(* != alike; a number against a boolean or a pointer yields nothing.       *)
(***************************************************************************)
Qualitative(sym, v, w) ==
    LET Test(eq) == Bool(IF sym = "==" THEN eq ELSE ~eq)
    IN  CASE w.t = "NIL"                -> Test(v.t = "NIL")
          [] w.t # "NIL" /\ v.t = "NIL"  -> Test(FALSE)
          [] w.t # "NIL" /\ v.t = "BOOL" -> Test((v.n = 1) = Truthy(w))
          [] IsNumber(w) /\ IsNumber(v)  -> Test(Eighths(v) = Eighths(w))
          [] IsStr(w) /\ v.t = "INT"     -> Test(v.n = ToInt(w))
          [] IsStr(w) /\ v.t = "FLOAT"   -> IF v.n # 0 THEN Test(FALSE)
                                             ELSE With(Atof(w.s), LAMBDA n : Test(n = 0))
          [] w.t # "NIL" /\ v.t = "STR"  -> Test(v.s = Text(w))
          [] w.t # "NIL" /\ v.t = "VAR"  -> IF w.t = "VAR" THEN Test(v = w) ELSE Bool(FALSE)
          [] OTHER -> Nil

AndOperator(v, w) == Bool(Truthy(v) /\ Truthy(w))
OrOperator(v, w)  == Bool(Truthy(v) \/ Truthy(w))

(* The positions from which pattern occurs in s, counted from 0: std::string::find. *)
Occurrences(s, pattern) ==
    {k \in 0..(Len(s) - Len(pattern)) : SubSeq(s, k + 1, k + Len(pattern)) = pattern}

(* ContainsOperatorNode::render. *)
ContainsOperator(v, w) ==
    CASE ~IsStr(w) -> Nil
      [] IsStr(w) /\ IsStr(v) -> Bool(Occurrences(v.s, w.s) # {})
      [] IsStr(w) /\ v.t = "ARRAY" ->
             Bool(\E k \in 1..Len(v.a) : IsStr(v.a[k]) /\ Occurrences(v.a[k].s, w.s) # {})
      [] OTHER -> Nil

(***************************************************************************)
(* RangeOperatorNode::render: two integers; a range longer than MaxRange   *)
(* yields nothing.  RangeDefined is what keeps vector::reserve from being  *)
(* asked for a negative size, which throws out of the rendering.           *)
(***************************************************************************)
RangeDefined(v, w) == IsInt(v) /\ IsInt(w) => w.n - v.n + 1 >= 0

RangeOperator(v, w) ==
    IF ~(IsInt(v) /\ IsInt(w)) \/ w.n - v.n + 1 > MaxRange THEN Nil
    ELSE Array([k \in 1..(w.n - v.n + 1) |-> Num(v.n + k - 1)])

(* An operator node applied to its operands, in the order they are written. *)
ApplyOperator(sym, args) ==
    CASE Len(args) = 1 /\ sym = "-" -> UnaryMinusOperator(args[1])
      [] Len(args) = 1 /\ sym = "!" -> UnaryNegationOperator(args[1])
      [] Len(args) = 2 /\ sym \in {"+", "-", "*", "/"} ->
             ArithmeticOperator(sym, args[1], args[2])
      [] Len(args) = 2 /\ sym = "%" -> ModuloOperator(args[1], args[2])
      [] Len(args) = 2 /\ sym \in {"<", "<=", ">", ">="} ->
             NumericalComparison(sym, args[1], args[2])
      [] Len(args) = 2 /\ sym \in {"==", "!="} -> Qualitative(sym, args[1], args[2])
      [] Len(args) = 2 /\ sym = "and" -> AndOperator(args[1], args[2])
      [] Len(args) = 2 /\ sym = "or" -> OrOperator(args[1], args[2])
      [] Len(args) = 2 /\ sym = "contains" -> ContainsOperator(args[1], args[2])
      [] Len(args) = 2 /\ sym = ".." -> RangeOperator(args[1], args[2])
=============================================================================
