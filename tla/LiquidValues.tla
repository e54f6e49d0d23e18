---------------------------- MODULE LiquidValues ----------------------------
(***************************************************************************)
(* The values of the engine (src/common.h, Variant) and of the store that  *)
(* the host hands to a rendering (a Variable behind a resolver; the        *)
(* resolver modelled here is the C++ one of src/cppvariable.h).            *)
(*                                                                         *)
(* Every value is a record with the same four fields, so that TLC can      *)
(* compare any two: t its type, n the number of an INT or a BOOL, s the    *)
(* characters of a STR or the keys of a HASH, a the elements of an ARRAY   *)
(* (of the engine) or of a LIST or HASH (of the store).  A VAR is a value  *)
(* of the store that has no counterpart in the engine: a pointer, whose    *)
(* referent is a[1]; the null pointer is the VAR that refers to nothing.   *)
(* A FLOAT, a double, is a number n of eighths below a thousand: with such  *)
(* a double the code calculates exactly and prints it alike with "%f" and  *)
(* "%g".  Any other, a third or the negative zero, is Beyond, and nothing  *)
(* is claimed of it.                                                       *)
(***************************************************************************)
EXTENDS Integers, Sequences, SequencesExt, FiniteSetsExt

(***************************************************************************)
(* EFalsiness (common.h): which values besides false are false.            *)
(* implementPermissive and implementStrict set FALSY_0, FALSY_EMPTY_STRING *)
(* and FALSY_NIL in different combinations (dialect.cpp:2288, 2366).       *)
(***************************************************************************)
CONSTANT Falsy
ASSUME FalsyAssumption == Falsy \subseteq {"0", "EMPTY_STRING", "NIL"}

Value(t, n, s, a) == [t |-> t, n |-> n, s |-> s, a |-> a]

Nil      == Value("NIL", 0, <<>>, <<>>)
Num(n)   == Value("INT", n, <<>>, <<>>)
Float(n) == Value("FLOAT", n, <<>>, <<>>)
Beyond   == Value("BEYOND", 0, <<>>, <<>>)
Bool(b)  == Value("BOOL", IF b THEN 1 ELSE 0, <<>>, <<>>)
Str(s)   == Value("STR", 0, s, <<>>)
Array(a) == Value("ARRAY", 0, <<>>, a)
List(a)  == Value("LIST", 0, <<>>, a)
Hash(keys, vals) == Value("HASH", 0, keys, vals)
Var(x)   == Value("VAR", 0, <<>>, <<x>>)
NullVar  == Value("VAR", 0, <<>>, <<>>)

IsInt(v) == v.t = "INT"
IsStr(v) == v.t = "STR"
IsNumber(v) == v.t \in {"INT", "FLOAT"}

(* The double of n eighths; a zero that is negative is not zero eighths. *)
Double(n, negative) ==
    IF n \in -7999..7999 /\ ~(n = 0 /\ negative) THEN Float(n) ELSE Beyond

(* What a function of its eighths gives of a double that may be Beyond. *)
With(x, F(_)) == IF x = Beyond THEN Beyond ELSE F(x.n)

(***************************************************************************)
(* Variant::isTruthy: BOOL by itself, a number, NIL and STRING by the      *)
(* falsiness of the context, everything else true.                         *)
(***************************************************************************)
Truthy(v) ==
    CASE v.t = "BOOL" -> v.n = 1
      [] IsNumber(v)  -> ~("0" \in Falsy /\ v.n = 0)
      [] v.t = "NIL"  -> "NIL" \notin Falsy
      [] v.t = "STR"  -> ~("EMPTY_STRING" \in Falsy /\ v.s = <<>>)
      [] OTHER        -> TRUE

(* A sequence without its first and its last elements. *)
Cut(s, front, back) == SubSeq(s, front + 1, Len(s) - back)

Digit == <<"0", "1", "2", "3", "4", "5", "6", "7", "8", "9">>
IsDigit(c) == \E k \in 1..10 : Digit[k] = c
DigitValue(c) == (CHOOSE k \in 1..10 : Digit[k] = c) - 1

(* The decimal text of a natural number, as the characters it is printed in. *)
Decimal[n \in Nat] ==
    IF n < 10 THEN <<Digit[n + 1]>> ELSE Append(Decimal[n \div 10], Digit[(n % 10) + 1])

IntText(n) == IF n < 0 THEN <<"-">> \o Decimal[-n] ELSE Decimal[n]

(* A double in decimals, after the whole part: "%f" prints six. *)
Magnitude(n) == IF n < 0 THEN -n ELSE n
Decimals(n)  == Tail(Decimal[1000 + 125 * (Magnitude(n) % 8)])
Zeros(s)     == Max({k \in 0..Len(s) : \A j \in 1..k : s[Len(s) + 1 - j] = "0"})

FloatText(n, decimals) ==
    (IF n < 0 THEN <<"-">> ELSE <<>>) \o Decimal[Magnitude(n) \div 8]
    \o (IF decimals = <<>> THEN <<>> ELSE <<".">> \o decimals)

(***************************************************************************)
(* Variant::getString: numbers and booleans print, a FLOAT without zeros   *)
(* at its end; everything else but a string is empty.                      *)
(***************************************************************************)
Text(v) ==
    CASE v.t = "STR"  -> v.s
      [] v.t = "INT"  -> IntText(v.n)
      [] v.t = "FLOAT" -> FloatText(v.n, Cut(Decimals(v.n), 0, Zeros(Decimals(v.n))))
      [] v.t = "BOOL" -> IF v.n = 1 THEN <<"t", "r", "u", "e">>
                                    ELSE <<"f", "a", "l", "s", "e">>
      [] OTHER        -> <<>>

(* The number of digits at the front of a string, and of white space. *)
DigitRun(s)      == Max({k \in 0..Len(s) : \A j \in 1..k : IsDigit(s[j])})
LeadingSpaces(s) == Max({k \in 0..Len(s) : \A j \in 1..k : s[j] \in {" ", "TAB", "LF", "CR"}})

SkipSpaces(s) == Cut(s, LeadingSpaces(s), 0)
SignLength(s) == IF s # <<>> /\ Head(s) \in {"-", "+"} THEN 1 ELSE 0
HasMinus(s)   == s # <<>> /\ Head(s) = "-"

NumberOf(digits) == FoldLeft(LAMBDA acc, c : 10 * acc + DigitValue(c), 0, digits)

(* atoll: an optional sign, then the digits up to the first other character. *)
Atoll == [s \in Seq(STRING) |->
    LET number == SkipSpaces(s)
        body   == Cut(number, SignLength(number), 0)
        whole  == NumberOf(SubSeq(body, 1, DigitRun(body)))
    IN  IF HasMinus(number) THEN -whole ELSE whole]

(***************************************************************************)
(* atof: as atoll, with a point and digits after it.  An exponent,         *)
(* hexadecimal digits, inf and nan are left out.                           *)
(***************************************************************************)
Atof(s) ==
    LET number   == SkipSpaces(s)
        body     == Cut(number, SignLength(number), 0)
        whole    == SubSeq(body, 1, DigitRun(body))
        rest     == Cut(body, Len(whole), 0)
        fraction == IF rest # <<>> /\ Head(rest) = "." THEN SubSeq(rest, 2, 1 + DigitRun(Tail(rest)))
                                                      ELSE <<>>
        scale    == 10 ^ Len(fraction)
        eighths  == 8 * NumberOf(whole \o fraction)
    IN  IF whole \o fraction = <<>> THEN Float(0)
        ELSE IF eighths % scale # 0 THEN Beyond
        ELSE Double((IF HasMinus(number) THEN -1 ELSE 1) * (eighths \div scale), HasMinus(number))

(* Variant::getInt: a double is cut towards zero. *)
ToInt(v) ==
    CASE v.t = "INT"   -> v.n
      [] v.t = "FLOAT" -> IF v.n < 0 THEN -(Magnitude(v.n) \div 8) ELSE v.n \div 8
      [] v.t = "STR"   -> Atoll[v.s]
      [] OTHER         -> 0

(* Variant::getFloat. *)
ToFloat(v) ==
    CASE v.t = "INT"   -> Double(8 * v.n, FALSE)
      [] v.t = "FLOAT" -> v
      [] v.t = "STR"   -> Atof(v.s)
      [] OTHER         -> Float(0)

(* Variant::operator ==: the types must agree. *)
Same(v, w) == v = w

-----------------------------------------------------------------------------
(* CPPVariable::getDictionaryVariable and getArrayVariable; Nothing is failure. *)

Nothing == <<>>
Just(v) == <<v>>

KeyIndex(h, key) == {k \in 1..Len(h.s) : h.s[k] = key}

GetDictionary(obj, key) ==
    IF obj.t = "HASH" /\ KeyIndex(obj, key) # {}
    THEN Just(obj.a[CHOOSE k \in KeyIndex(obj, key) : TRUE])
    ELSE Nothing

(* A negative index counts from the end. *)
GetArray(obj, idx) ==
    LET i == IF idx < 0 THEN idx + Len(obj.a) ELSE idx
    IN  IF obj.t = "LIST" /\ i \in 0..(Len(obj.a) - 1) THEN Just(obj.a[i + 1]) ELSE Nothing

Get(obj, key) ==
    CASE IsInt(key) -> GetArray(obj, key.n)
      [] IsStr(key) -> GetDictionary(obj, key.s)
      [] OTHER      -> Nothing

(***************************************************************************)
(* CPPVariable::setDictionaryVariable: a nil becomes a hash; a variable of *)
(* any other type but a hash refuses, and the object is as it was.         *)
(***************************************************************************)
SetDictionary(obj, key, v) ==
    CASE obj.t = "NIL" -> Hash(<<key>>, <<v>>)
      [] obj.t = "HASH" /\ KeyIndex(obj, key) = {} ->
             Hash(Append(obj.s, key), Append(obj.a, v))
      [] obj.t = "HASH" /\ KeyIndex(obj, key) # {} ->
             [obj EXCEPT !.a[CHOOSE k \in KeyIndex(obj, key) : TRUE] = v]
      [] OTHER -> obj

(***************************************************************************)
(* CPPVariable::setArrayVariable: an index past the end grows the array    *)
(* (the elements between are null pointers); an index still negative after *)
(* counting from the end resizes the array to idx + 1 and writes before    *)
(* its first element, which is outside this model (SetArrayDefined).       *)
(***************************************************************************)
SetArrayDefined(obj, idx) == obj.t = "LIST" => idx >= -Len(obj.a)

SetArray(obj, idx, v) ==
    LET i == IF idx < 0 THEN idx + Len(obj.a) ELSE idx
        n == Max({Len(obj.a), i + 1})
    IN  IF obj.t # "LIST" THEN obj
        ELSE List([k \in 1..n |-> IF k = i + 1 THEN v
                                  ELSE IF k <= Len(obj.a) THEN obj.a[k] ELSE Nil])

SetAt(obj, key, v) ==
    CASE IsInt(key) -> SetArray(obj, key.n, v)
      [] IsStr(key) -> SetDictionary(obj, key.s, v)
      [] OTHER      -> obj

(* Renderer::getVariable: what is at a path of a value, Nothing if it leads nowhere. *)
GetPath(obj, keys) ==
    LET at[k \in 0..Len(keys)] ==
            IF k = 0 THEN Just(obj)
            ELSE LET before == at[k - 1]
                 IN  IF before = Nothing THEN Nothing ELSE Get(before[1], keys[k])
    IN  at[Len(keys)]

(***************************************************************************)
(* Renderer::setVariable: every link but the last must lead somewhere, and *)
(* the resolver may refuse the last; then the store is as it was.          *)
(***************************************************************************)
SetPath(obj, keys, v) ==
    LET changed[k \in DOMAIN keys] ==
            SetAt(GetPath(obj, SubSeq(keys, 1, k - 1))[1], keys[k],
                  IF k = Len(keys) THEN v ELSE changed[k + 1])
    IN  IF GetPath(obj, Front(keys)) = Nothing THEN obj ELSE changed[1]

(***************************************************************************)
(* Renderer::parseVariant: scalars of the store become values of the       *)
(* engine, lists and hashes stay behind a pointer.                         *)
(***************************************************************************)
ParseVariant(x) == IF x.t \in {"LIST", "HASH"} THEN Var(x) ELSE x

(* Renderer::inject: a copy of the value, made by the resolver. *)
Inject(v) == CASE v.t = "VAR" -> v.a[1]
               [] v.t = "ARRAY" -> List(v.a)
               [] OTHER -> v

(* CPPVariable::getString: none for a list or hash, and a FLOAT in six decimals. *)
StoredText(x) ==
    IF x.t = "FLOAT" THEN FloatText(x.n, Decimals(x.n) \o <<"0", "0", "0">>) ELSE Text(x)

(* Renderer::getString: a pointer's text is what the resolver gives. *)
NodeText(v) == IF v.t = "VAR" THEN (IF v.a = <<>> THEN <<>> ELSE StoredText(v.a[1])) ELSE Text(v)
=============================================================================
