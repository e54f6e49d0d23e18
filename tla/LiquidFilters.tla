--------------------------- MODULE LiquidFilters ----------------------------
(***************************************************************************)
(* The filters of the standard dialect (src/dialect.cpp:1044-2260) as      *)
(* functions of the rendered operand and arguments.  A string is the       *)
(* sequence of its characters.  Two results, besides Beyond, are not       *)
(* values: Undefined, where the code reads or writes memory it does not    *)
(* own, and Diverges, where its loop never ends.  The date filter is left  *)
(* out.                                                                    *)
(***************************************************************************)
EXTENDS LiquidOperators

Undefined == Value("UNDEFINED", 0, <<>>, <<>>)
Diverges  == Value("DIVERGES", 0, <<>>, <<>>)

(* FilterNodeType::getArgument on the tree: an argument that is not there is nil. *)
Arg(args, k) == IF k <= Len(args) THEN args[k] ELSE Nil

(* How many arguments a filter's render asks for, given or not. *)
ArgumentsRead(sym) ==
    CASE sym \in {"plus", "minus", "times", "divided_by", "modulo", "round", "at_most",
                  "at_least", "append", "prepend", "remove", "removefirst", "split",
                  "upcase", "join", "concat", "map", "sort", "index", "default"} -> 1
      [] sym \in {"replace", "replacefirst", "slice", "truncate", "truncatewords",
                  "where", "uniq"} -> 2
      [] sym = "pluralize" -> 3
      [] OTHER -> 0

(* The elements of an array of the engine, or of the list a pointer refers to. *)
Elements(v) == CASE v.t = "ARRAY" -> v.a
                 [] v.t = "VAR" /\ v.a # <<>> /\ v.a[1].t = "LIST" -> v.a[1].a
                 [] OTHER -> <<>>

IsCollection(v) == v.t \in {"ARRAY", "VAR"}

Smaller(a, b) == IF a < b THEN a ELSE b
Larger(a, b)  == IF a < b THEN b ELSE a

-----------------------------------------------------------------------------
(* Numbers. *)

Readable == {"INT", "FLOAT", "STR"}

(* Mutated: a string is read as an integer. *)
ArithmeticFilterOfIntegers(sym, v, w) ==
    IF v.t \in Readable /\ w.t \in Readable THEN Num(Arithmetic[sym][ToInt(v), ToInt(w)]) ELSE Nil

(* ArithmeticFilterNode::render: a string operand or argument is read as a double. *)
ArithmeticFilter(sym, v, w) ==
    IF v.t \in Readable /\ w.t \in Readable THEN Operate(sym, v, w) ELSE Nil

(* AbsFilterNode::render tests for the node's type where it means that there is none. *)
AbsFilter(v) == Nil

(* CeilFilterNode, FloorFilterNode: the whole number above and below, still a double. *)
CeilFilter(v) ==
    CASE v.t = "INT"            -> v
      [] v.t \in {"FLOAT", "STR"} -> With(ToFloat(v), LAMBDA n : Double(-8 * ((-n) \div 8), n < 0))
      [] OTHER                  -> Nil

FloorFilter(v) ==
    CASE v.t = "INT"            -> v
      [] v.t \in {"FLOAT", "STR"} -> With(ToFloat(v), LAMBDA n : Double(8 * (n \div 8), FALSE))
      [] OTHER                  -> Nil

(***************************************************************************)
(* RoundFilterNode::render: half a unit is rounded away from zero, at as   *)
(* many decimals as the argument says.  Eighths have three; a number of    *)
(* decimals below zero divides by zero, one above nine has no power of ten *)
(* in an int.                                                              *)
(***************************************************************************)
Rounded(n, digits) ==
    LET unit  == 10 ^ Smaller(digits, 3)
        units == (2 * Magnitude(n) * unit + 8) \div 16
    IN  IF digits \notin 0..9 \/ (8 * units) % unit # 0 THEN Beyond
        ELSE Double((IF n < 0 THEN -1 ELSE 1) * ((8 * units) \div unit), n < 0)

RoundFilter(v, w) ==
    CASE v.t = "INT"   -> v
      [] v.t = "FLOAT" -> Rounded(v.n, ToInt(w))
      [] OTHER         -> Nil

(* AtMostFilterNode, AtLeastFilterNode: the operand's type is the result's, a string's is a double. *)
Compared(v, w, Better(_, _)) ==
    CASE v.t = "INT" -> Num(Better(v.n, ToInt(w)))
      [] v.t \in {"FLOAT", "STR"} ->
             With(ToFloat(v), LAMBDA n : With(ToFloat(w), LAMBDA m : Float(Better(n, m))))
      [] OTHER -> Nil

AtMostFilter(v, w)  == Compared(v, w, Smaller)
AtLeastFilter(v, w) == Compared(v, w, Larger)

-----------------------------------------------------------------------------
(* Strings. *)

LowerCase == <<"a", "b", "c", "d", "e", "f", "g", "h", "i", "j", "k", "l", "m",
               "n", "o", "p", "q", "r", "s", "t", "u", "v", "w", "x", "y", "z">>
UpperCase == <<"A", "B", "C", "D", "E", "F", "G", "H", "I", "J", "K", "L", "M",
               "N", "O", "P", "Q", "R", "S", "T", "U", "V", "W", "X", "Y", "Z">>

IsLower(c) == \E k \in 1..26 : LowerCase[k] = c
IsUpper(c) == \E k \in 1..26 : UpperCase[k] = c
ToUpper(c) == IF IsLower(c) THEN UpperCase[CHOOSE k \in 1..26 : LowerCase[k] = c] ELSE c
ToLower(c) == IF IsUpper(c) THEN LowerCase[CHOOSE k \in 1..26 : UpperCase[k] = c] ELSE c
Alnum      == Range(LowerCase) \union Range(UpperCase) \union Range(Digit)
IsAlnum(c) == c \in Alnum
IsBlank(c) == c \in {" ", "TAB"}

UpperText(s) == [k \in 1..Len(s) |-> ToUpper(s[k])]
LowerText(s) == [k \in 1..Len(s) |-> ToLower(s[k])]

UpcaseFilter(v)   == Str(UpperText(NodeText(v)))
DowncaseFilter(v) == Str(LowerText(NodeText(v)))

Capitalized(s) == IF s = <<>> THEN s ELSE <<ToUpper(Head(s))>> \o Tail(s)
CapitalizeFilter(v) == Str(Capitalized(NodeText(v)))

AppendFilter(v, w)  == Str(NodeText(v) \o NodeText(w))
PrependFilter(v, w) == Str(NodeText(w) \o NodeText(v))

(***************************************************************************)
(* HandleGenericFilterNode::render: what is not a letter or a digit        *)
(* becomes a hyphen, except before the first letter or digit.              *)
(***************************************************************************)
HandleCharacter(c) == IF IsAlnum(c) THEN ToLower(c) ELSE "-"

Handle(s) ==
    LET From == {k \in 1..Len(s) : IsAlnum(s[k])}
    IN  IF From = {} THEN <<>>
        ELSE [k \in 1..(Len(s) - Min(From) + 1) |-> HandleCharacter(s[Min(From) + k - 1])]

HandleFilter(v) == Str(Handle(NodeText(v)))

(* PluralizeFilterNode::render reads its second and third argument, of the two it takes. *)
PluralizeFilter(v, args) == Str(NodeText(IF ToInt(v) > 1 THEN Arg(args, 3) ELSE Arg(args, 2)))

(* Mutated: the search goes on one character after the start of what it found. *)
PiecesAroundOverlapping(s, pattern) ==
    LET from[start \in 0..Len(s)] ==
            LET hits == {k \in Occurrences(s, pattern) : k >= start}
            IN  IF hits = {} THEN <<SubSeq(s, start + 1, Len(s))>>
                ELSE <<SubSeq(s, start + 1, Min(hits))>> \o from[Min(hits) + 1]
    IN  from[0]

(***************************************************************************)
(* The search loop that remove, replace and split share: the text before,  *)
(* between and after the occurrences of a pattern that is not empty.       *)
(***************************************************************************)
PiecesAround(s, pattern) ==
    LET from[start \in 0..Len(s)] ==
            LET hits == {k \in Occurrences(s, pattern) : k >= start}
            IN  IF hits = {} THEN <<SubSeq(s, start + 1, Len(s))>>
                ELSE <<SubSeq(s, start + 1, Min(hits))>> \o from[Min(hits) + Len(pattern)]
    IN  from[0]

JoinText(pieces, glue) ==
    FoldLeft(LAMBDA acc, p : acc \o glue \o p, Head(pieces), Tail(pieces))

(* RemoveFilterNode, ReplaceFilterNode: an empty pattern is found for ever. *)
ReplaceFilter(v, pattern, replacement) ==
    IF pattern = <<>> THEN Diverges
    ELSE Str(JoinText(PiecesAround(NodeText(v), pattern), replacement))

(* Mutated: the last occurrence is replaced. *)
ReplaceLastFilter(v, pattern, replacement) ==
    LET s    == NodeText(v)
        hits == Occurrences(s, pattern)
    IN  IF hits = {} THEN Str(s)
        ELSE Str(SubSeq(s, 1, Max(hits)) \o replacement
                 \o SubSeq(s, Max(hits) + Len(pattern) + 1, Len(s)))

(* RemoveFirstFilterNode, ReplaceFirstFilterNode: the same loop, left after one round. *)
ReplacedAt(s, hits, length, replacement) ==
    IF hits = {} THEN s
    ELSE SubSeq(s, 1, Min(hits)) \o replacement \o SubSeq(s, Min(hits) + length + 1, Len(s))

ReplaceFirstFilter(v, pattern, replacement) ==
    Str(ReplacedAt(NodeText(v), Occurrences(NodeText(v), pattern), Len(pattern), replacement))

(* SplitFilterNode::render: an empty piece is kept only at the end. *)
KeptPieces(pieces) == SelectSeq(Front(pieces), LAMBDA p : p # <<>>) \o <<Last(pieces)>>
ArrayOfTexts(parts)  == Array([k \in 1..Len(parts) |-> Str(parts[k])])

(* Mutated: what is left after the last splitter is dropped. *)
SplitFilterLosingTail(v, splitter) ==
    IF splitter = <<>> THEN Array(<<Str(NodeText(v))>>)
    ELSE ArrayOfTexts(Append(Front(PiecesAround(NodeText(v), splitter)), <<>>))

SplitFilter(v, splitter) ==
    IF splitter = <<>> THEN Array(<<Str(NodeText(v))>>)
    ELSE ArrayOfTexts(KeptPieces(PiecesAround(NodeText(v), splitter)))

(* std::string::substr: a length below zero is a huge unsigned one, to the end. *)
Substring(s, offset, size) ==
    SubSeq(s, offset + 1, IF size < 0 THEN Len(s) ELSE Smaller(offset + size, Len(s)))

(* The length a slice is given; an absent one is the size of the whole. *)
LengthOr(b, whole) == IF b.t # "NIL" THEN ToInt(b) ELSE whole

(* Mutated: an offset below zero is the start. *)
SliceTextFromTheFront(s, a, b) ==
    LET offset == Larger(Smaller(ToInt(a), Len(s)), 0)
    IN  Substring(s, offset, Smaller(LengthOr(b, Len(s)), Len(s) - offset))

(***************************************************************************)
(* SliceFilterNode::render on a string, and on the elements of an array or *)
(* of a list.                                                              *)
(***************************************************************************)
FromEnd(first, length) == Larger(IF first < 0 THEN first + length ELSE first, 0)

SliceText(s, a, b) ==
    LET offset == FromEnd(Smaller(ToInt(a), Len(s)), Len(s))
    IN  Substring(s, offset, Smaller(LengthOr(b, Len(s)), Len(s) - offset))

SliceElements(elements, a, b) ==
    LET start == FromEnd(ToInt(a), Len(elements))
    IN  SubSeq(elements, start + 1, Smaller(start + LengthOr(b, Len(elements)), Len(elements)))

SliceFilter(v, a, b) ==
    CASE v.t = "STR" -> Str(SliceText(v.s, a, b))
      [] v.t = "VAR" \/ (v.t = "ARRAY" /\ v.a # <<>>) -> Array(SliceElements(Elements(v), a, b))
      [] OTHER -> Nil

(* How many blanks a string starts with, and ends with (the first character not counted). *)
LeadingBlanks(s)  == Max({k \in 0..Len(s) : \A j \in 1..k : IsBlank(s[j])})
TrailingBlanks(s) == Max({k \in 0..Larger(Len(s) - 1, 0) :
                              \A j \in 1..k : IsBlank(s[Len(s) + 1 - j])})

(* Mutated: one blank is left at the end. *)
StripFilterLeavingOne(v) ==
    IF NodeText(v) = <<>> THEN Undefined
    ELSE Str(Cut(NodeText(v), LeadingBlanks(NodeText(v)), Larger(TrailingBlanks(NodeText(v)) - 1, 0)))

(***************************************************************************)
(* The strip filters.  rstrip stops before the first character, so that a  *)
(* string of blanks keeps one.  The last character of an empty string is   *)
(* one before its first, which strip and rstrip read.                      *)
(***************************************************************************)
LStripFilter(v) == Str(Cut(NodeText(v), LeadingBlanks(NodeText(v)), 0))

RStripFilter(v) ==
    IF NodeText(v) = <<>> THEN Undefined ELSE Str(Cut(NodeText(v), 0, TrailingBlanks(NodeText(v))))

StripFilter(v) ==
    IF NodeText(v) = <<>> THEN Undefined
    ELSE Str(Cut(NodeText(v), LeadingBlanks(NodeText(v)), TrailingBlanks(NodeText(v))))

StripNewlinesFilter(v) == Str(SelectSeq(NodeText(v), LAMBDA c : c \notin {"LF", "CR"}))

(* Mutated: the count is that of the text alone. *)
TruncateFilterAndMore(v, a, b) ==
    Str(Substring(NodeText(v), 0, ToInt(a)) \o (IF IsStr(b) THEN b.s ELSE <<".", ".", ".">>))

(***************************************************************************)
(* TruncateFilterNode::render: the ellipsis is added whether or not the    *)
(* text was cut, and alone it is cut to the count, a count below zero      *)
(* leaving it whole.                                                       *)
(***************************************************************************)
Truncated(s, count, ellipsis) ==
    IF count > Len(ellipsis) THEN Substring(s, 0, count - Len(ellipsis)) \o ellipsis
    ELSE Substring(ellipsis, 0, Smaller(count, Len(ellipsis)))

TruncateFilter(v, a, b) ==
    Str(Truncated(NodeText(v), ToInt(a), IF IsStr(b) THEN b.s ELSE <<".", ".", ".">>))

(***************************************************************************)
(* TruncateWordsFilterNode::render counts a word at every blank that       *)
(* follows a blank, and cuts one character before the place it stopped at. *)
(***************************************************************************)
TruncatedWords(s, count) ==
    LET Ends  == {k \in 2..Len(s) : IsBlank(s[k]) /\ IsBlank(s[k - 1])}
        Stops == {k \in Ends : Cardinality({j \in Ends : j <= k}) = count}
    IN  IF s = <<>> THEN s ELSE IF Stops = {} THEN Front(s) ELSE SubSeq(s, 1, Min(Stops) - 2)

TruncateWordsFilter(v, a) == Str(TruncatedWords(NodeText(v), ToInt(a)))

-----------------------------------------------------------------------------
(* Lists and arrays. *)

(* An element is a value of the engine or of the store. *)
ElementText(v, k) == IF v.t = "VAR" THEN StoredText(Elements(v)[k]) ELSE NodeText(Elements(v)[k])

(* JoinFilterNode: an empty array joins to nil, an empty list to the empty string. *)
JoinFilter(v, w) ==
    CASE ~IsCollection(v) \/ (v.t = "ARRAY" /\ v.a = <<>>) -> Nil
      [] IsCollection(v) /\ Elements(v) # <<>> ->
             Str(JoinText([k \in 1..Len(Elements(v)) |-> ElementText(v, k)], NodeText(w)))
      [] OTHER -> Str(<<>>)

(***************************************************************************)
(* ConcatFilterNode, MapFilterNode, ReverseFilterNode, SortFilterNode and  *)
(* UniqFilterNode append to the vector of a Variant that was made a nil,   *)
(* whose vector was never constructed; concat and map survive if there is  *)
(* nothing to append, uniq if no element's hash was seen before.           *)
(***************************************************************************)
ConcatFilter(v, w) ==
    CASE ~IsCollection(v) -> Nil
      [] IsCollection(v) /\ Elements(v) \o Elements(w) = <<>> -> Nil
      [] OTHER -> Undefined

MapFilter(v) == IF IsCollection(v) /\ Elements(v) # <<>> THEN Undefined ELSE Nil
ReverseFilter(v) == IF IsCollection(v) THEN Undefined ELSE Nil
SortFilter(v) == ReverseFilter(v)

(* Variant::hash, up to collisions: nil, zero, false and every array hash alike. *)
HashOf(v) == IF v.t \in {"NIL", "ARRAY"} \/ (v.t \in {"INT", "FLOAT", "BOOL"} /\ v.n = 0) THEN Nil ELSE v

UniqFilter(v) ==
    LET e == Elements(v)
    IN  IF \E j, k \in 1..Len(e) : j < k /\ HashOf(e[j]) = HashOf(e[k]) THEN Undefined ELSE Nil

(***************************************************************************)
(* WhereFilterNode: the comparison with a value is not written, so nothing *)
(* is ever selected by a property.  Without a name for it, the elements    *)
(* that have something true under the empty key are, and are appended to   *)
(* such a vector.                                                          *)
(***************************************************************************)
IsSet(held) ==
    held # Nothing /\ held[1].t # "NIL" /\ ~(held[1].t \in {"INT", "FLOAT", "BOOL"} /\ held[1].n = 0)

Selects(x) == IsSet(GetDictionary(IF x.t = "VAR" /\ x.a # <<>> THEN x.a[1] ELSE x, <<>>))

WhereFilter(v, w) ==
    IF NodeText(w) = <<>> /\ \E k \in 1..Len(Elements(v)) : Selects(Elements(v)[k])
    THEN Undefined ELSE Nil

FirstFilter(v) == IF IsCollection(v) /\ Elements(v) # <<>> THEN ParseVariant(Elements(v)[1]) ELSE Nil
LastFilter(v)  == IF IsCollection(v) /\ Elements(v) # <<>> THEN ParseVariant(Last(Elements(v))) ELSE Nil

(***************************************************************************)
(* IndexFilterNode reads its argument as an integer whatever it is, and    *)
(* indexes an array without looking for a negative index.                  *)
(***************************************************************************)
IndexFilter(v, w) ==
    CASE ~IsCollection(v) -> Nil
      [] IsCollection(v) /\ ~IsInt(w) -> Undefined
      [] v.t = "VAR" /\ IsInt(w) ->
             LET found == GetArray(v.a[1], w.n) IN IF found = Nothing THEN Nil ELSE Var(found[1])
      [] v.t = "ARRAY" /\ IsInt(w) ->
             CASE w.n >= Len(v.a) -> Nil
               [] w.n < 0 -> Undefined
               [] OTHER -> v.a[w.n + 1]

SizeFilter(v) ==
    CASE v.t = "STR" -> Num(Len(v.s))
      [] v.t = "ARRAY" \/ (v.t = "VAR" /\ v.a # <<>> /\ v.a[1].t = "LIST") -> Num(Len(Elements(v)))
      [] OTHER -> Nil

DefaultFilter(v, w) == IF Truthy(v) THEN v ELSE w

ApplyFilter(sym, v, args) ==
    LET w == Arg(args, 1)
    IN  CASE sym = "plus"       -> ArithmeticFilter("+", v, w)
          [] sym = "minus"      -> ArithmeticFilter("-", v, w)
          [] sym = "times"      -> ArithmeticFilter("*", v, w)
          [] sym = "divided_by" -> ArithmeticFilter("/", v, w)
          [] sym = "modulo"     -> ModuloOperator(v, w)
          [] sym = "abs"        -> AbsFilter(v)
          [] sym = "ceil"       -> CeilFilter(v)
          [] sym = "floor"      -> FloorFilter(v)
          [] sym = "round"      -> RoundFilter(v, w)
          [] sym = "at_most"    -> AtMostFilter(v, w)
          [] sym = "at_least"   -> AtLeastFilter(v, w)
          [] sym = "upcase"     -> UpcaseFilter(v)
          [] sym = "downcase"   -> DowncaseFilter(v)
          [] sym = "capitalize" -> CapitalizeFilter(v)
          [] sym = "camelcase"  -> Nil
          [] sym = "where"      -> WhereFilter(v, w)
          [] sym = "append"     -> AppendFilter(v, w)
          [] sym = "prepend"    -> PrependFilter(v, w)
          [] sym \in {"handle", "handleize"} -> HandleFilter(v)
          [] sym = "pluralize"  -> PluralizeFilter(v, args)
          [] sym = "remove"     -> ReplaceFilter(v, NodeText(w), <<>>)
          [] sym = "replace"    -> ReplaceFilter(v, NodeText(w), NodeText(Arg(args, 2)))
          [] sym = "removefirst"  -> ReplaceFirstFilter(v, NodeText(w), <<>>)
          [] sym = "replacefirst" -> ReplaceFirstFilter(v, NodeText(w), NodeText(Arg(args, 2)))
          [] sym = "split"      -> SplitFilter(v, NodeText(w))
          [] sym = "slice"      -> SliceFilter(v, w, Arg(args, 2))
          [] sym = "strip"      -> StripFilter(v)
          [] sym = "lstrip"     -> LStripFilter(v)
          [] sym = "rstrip"     -> RStripFilter(v)
          [] sym = "strip_newlines" -> StripNewlinesFilter(v)
          [] sym = "truncate"   -> TruncateFilter(v, w, Arg(args, 2))
          [] sym = "truncatewords" -> TruncateWordsFilter(v, w)
          [] sym = "join"       -> JoinFilter(v, w)
          [] sym = "concat"     -> ConcatFilter(v, w)
          [] sym = "map"        -> MapFilter(v)
          [] sym = "reverse"    -> ReverseFilter(v)
          [] sym = "sort"       -> SortFilter(v)
          [] sym = "uniq"       -> UniqFilter(v)
          [] sym = "first"      -> FirstFilter(v)
          [] sym = "last"       -> LastFilter(v)
          [] sym = "index"      -> IndexFilter(v, w)
          [] sym = "size"       -> SizeFilter(v)
          [] sym = "default"    -> DefaultFilter(v, w)

-----------------------------------------------------------------------------
(* The dot filters: SizeDotFilterNode, FirstDotFilterNode and LastDotFilterNode. *)

MemberOr(v, key, other) ==
    IF v.t = "VAR" /\ v.a # <<>> /\ v.a[1].t = "HASH"
    THEN LET found == GetDictionary(v.a[1], key) IN IF found = Nothing THEN Nil ELSE found[1]
    ELSE other

FirstDotFilter(v) == ParseVariant(MemberOr(v, <<"f", "i", "r", "s", "t">>, FirstFilter(v)))
LastDotFilter(v)  == ParseVariant(MemberOr(v, <<"l", "a", "s", "t">>, LastFilter(v)))
SizeDotFilter(v)  ==
    MemberOr(v, <<"s", "i", "z", "e">>,
             IF v.t \in {"ARRAY", "STR", "VAR"} THEN SizeFilter(v) ELSE Num(Len(Text(v))))

ApplyDotFilter(sym, v) ==
    CASE sym = "first" -> FirstDotFilter(v)
      [] sym = "last"  -> LastDotFilter(v)
      [] sym = "size"  -> SizeDotFilter(v)
=============================================================================
