--------------------------- MODULE LiquidPipeline ---------------------------
(***************************************************************************)
(* The chain of filters of an output, {{ value | filter | filter }}: each  *)
(* filter's operand is what the one before it gave (context.cpp,           *)
(* FilterNodeType::getOperand).  The properties are laws that relate       *)
(* several filters, at whatever value a chain arrives.                     *)
(***************************************************************************)
EXTENDS LiquidWeb

CONSTANTS
    Inputs,       \* the values a chain may start from
    Calls,        \* the filters a chain may apply: records [sym, args]
    MaxFilters,   \* how many of them at most
    Patterns,     \* the texts the laws search for, split at and replace
    Numbers,      \* the integers they count and calculate with
    Colors,       \* the colors they convert and mix
    Fresh         \* a character of none of the inputs

ASSUME PipelineAssumption ==
    MaxFilters \in Nat /\ Numbers \subseteq Int /\ Fresh \notin UNION {Range(p) : p \in Patterns}

VARIABLES
    value,      \* what the chain has come to
    applied     \* how many filters were applied

vars == <<value, applied>>

Broken == {Undefined, Diverges, Throws, Beyond}

AnyDigit == {"0", "F"}

(* What a filter may give: one value, save for the undefined digit of a color in hexadecimal. *)
Results(sym, v, args) ==
    CASE sym = "escape"     -> {EscapeFilter(v)}
      [] sym = "url_encode" -> {URLEncodeFilter(v)}
      [] sym \in {"md5", "sha1", "sha256"}     -> {DigestFilter(sym, v)}
      [] sym \in {"hmac_sha1", "hmac_sha256"}  -> {HMACFilter(sym, v, Arg(args, 1))}
      [] sym = "link_to"    -> {LinkToFilter(v, Arg(args, 1), Arg(args, 2))}
      [] sym = "img_tag"    -> {ImgTagFilter(v)}
      [] sym = "stylesheet_tag" -> {StylesheetTagFilter(v)}
      [] sym = "script_tag" -> {ScriptTagFilter(v)}
      [] sym = "highlight"  -> {HighlightFilter(v, Arg(args, 1))}
      [] sym = "newline_to_br"  -> {NewlineToBrFilter(v)}
      [] sym = "color_to_rgb"   -> {ColorToRGBFilter(v)}
      [] sym = "color_to_hex"   -> {ColorToHexFilter(v, any) : any \in AnyDigit}
      [] sym = "color_extract"  -> {ColorExtractFilter(v, Arg(args, 1))}
      [] sym = "color_modify"   ->
             {ColorModifyFilter(v, Arg(args, 1), Arg(args, 2), any) : any \in AnyDigit}
      [] sym = "color_mix"      ->
             {ColorMixFilter(v, Arg(args, 1), Arg(args, 2), any) : any \in AnyDigit}
      [] OTHER -> {ApplyFilter(sym, v, args)}

Init == value \in Inputs /\ applied = 0

Filter(call) ==
    /\ applied < MaxFilters
    /\ value \notin Broken
    /\ value' \in Results(call.sym, value, call.args)
    /\ applied' = applied + 1

Next == \E call \in Calls : Filter(call)

Spec == Init /\ [][Next]_vars

-----------------------------------------------------------------------------
Ends(s) == {1, Len(s)} \intersect DOMAIN s

(* Splitting loses only the splitters: joined with nothing the pieces are the text without them. *)
SplitKeepsText ==
    IsStr(value) =>
        \A p \in Patterns : JoinFilter(SplitFilter(value, p), Str(<<>>)) = ReplaceFilter(value, p, <<>>)

(* Every occurrence is replaced and nothing else: replacing the replacement back gives the text. *)
ReplacingReverses ==
    IsStr(value) =>
        \A p \in Patterns : ReplaceFilter(ReplaceFilter(value, p, <<Fresh>>), <<Fresh>>, p) = value

(* Replacing the first occurrence and then the others is replacing them all. *)
FirstThenRest ==
    IsStr(value) =>
        \A p \in Patterns :
            LET marked == ReplaceFirstFilter(value, p, <<Fresh>>)
            IN  ReplaceFilter(marked, p, <<Fresh>>) = ReplaceFilter(value, p, <<Fresh>>)

(***************************************************************************)
(* The filters that search a text find the same occurrences in it, the     *)
(* leftmost first and none twice (dialect.cpp:1326-1404, 1458).            *)
(***************************************************************************)
SearchesAgree == SplitKeepsText /\ ReplacingReverses /\ FirstThenRest

(***************************************************************************)
(* slice cuts a text as it cuts the array of its characters, from either   *)
(* end and past both, and two slices that meet are the whole.              *)
(***************************************************************************)
SlicesAgree ==
    IsStr(value) =>
        \A a, b \in Numbers :
            /\ b >= 0 => SliceText(value.s, Num(a), Num(b)) = SliceElements(value.s, Num(a), Num(b))
            /\ a >= 0 => SliceText(value.s, Num(0), Num(a)) \o SliceText(value.s, Num(a), Nil) = value.s

(***************************************************************************)
(* strip is both of its halves in either order and leaves no blank at an   *)
(* end, but for the text that has no last character: of that, strip and    *)
(* rstrip read what is before it, and a text of blanks comes to it between *)
(* lstrip and rstrip (dialect.cpp:1487, 1507).                             *)
(***************************************************************************)
StripsAreHalves ==
    IsStr(value) =>
        LET blank == LeadingBlanks(value.s) = Len(value.s)
            strip == StripFilter(value)
        IN  /\ RStripFilter(LStripFilter(value)) = IF blank THEN Undefined ELSE strip
            /\ IF value.s = <<>> THEN strip = Undefined
               ELSE /\ strip = LStripFilter(RStripFilter(value))
                    /\ \A k \in Ends(strip.s) : ~IsBlank(strip.s[k])

(* A truncated text is no longer than it may be, whatever the ellipsis. *)
TruncationsFit ==
    IsStr(value) =>
        \A n \in Numbers, p \in Patterns : n >= 0 => Len(TruncateFilter(value, Num(n), Str(p)).s) <= n

(***************************************************************************)
(* The filters that cut a text take what is there and no more, at either   *)
(* end and beyond both; the only text outside of which one of them reads   *)
(* is the empty one (dialect.cpp:1406, 1480, 1525).                        *)
(***************************************************************************)
CutsAgree == SlicesAgree /\ StripsAreHalves /\ TruncationsFit

(***************************************************************************)
(* A number is what its quotient and its remainder say: an integer is cut, *)
(* and modulo gives what divided_by leaves out, with the sign of the       *)
(* number; a text or a double is divided with its fraction, so that times  *)
(* alone gives it back, and a whole one has the remainder of its quotient  *)
(* cut to an integer (dialect.cpp:14, 1044-1121).                          *)
(***************************************************************************)
QuotientAndRemainder ==
    value.t \in Readable =>
        \A b \in Numbers \ {0} :
            LET q == ArithmeticFilter("/", value, Num(b))
                r == ModuloOperator(value, Num(b)).n
                whole == ToFloat(value) = ToFloat(Num(ToInt(value)))
            IN  /\ r * r < b * b /\ r * ToInt(value) >= 0
                /\ q # Beyond /\ whole => b * ToInt(q) + r = ToInt(value)
                /\ q # Beyond /\ ~IsInt(value) => ArithmeticFilter("*", q, Num(b)) = ToFloat(value)

(***************************************************************************)
(* Escaped text has no character of markup left, and reading its entities  *)
(* gives the text again.                                                   *)
(***************************************************************************)
Unescaped(s) ==
    LET read[k \in 1..(Len(s) + 1)] ==
            IF k = Len(s) + 1 THEN <<>>
            ELSE LET hits == {c \in {"'", "\"", "<", ">", "&"} :
                                  s[k] = "&" /\ IsPrefix(Entity(c), SubSeq(s, k, Len(s)))}
                     c == IF hits = {} THEN s[k] ELSE CHOOSE h \in hits : TRUE
                 IN  <<c>> \o read[k + Len(Entity(c))]
    IN  read[1]

EscapeReadsBack ==
    IsStr(value) =>
        LET escaped == EscapeFilter(value).s
        IN  Unescaped(escaped) = value.s /\ Range(escaped) \intersect {"'", "\"", "<", ">"} = {}

(***************************************************************************)
(* An encoded text is letters, digits and percent signs, and every sign    *)
(* starts the two digits of a code: decoding gives the text again.         *)
(***************************************************************************)
Decodes(s, original) ==
    LET reads[k \in 1..(Len(s) + 1), j \in 1..(Len(original) + 1)] ==
            IF k = Len(s) + 1 \/ j = Len(original) + 1
            THEN k = Len(s) + 1 /\ j = Len(original) + 1
            ELSE IF s[k] = "%"
                 THEN /\ k + 2 <= Len(s)
                      /\ SubSeq(s, k + 1, k + 2) = ToHex(<<SignedCode(original[j])>>)
                      /\ reads[k + 3, j + 1]
                 ELSE IsAlnum(s[k]) /\ s[k] = original[j] /\ reads[k + 1, j + 1]
    IN  reads[1, 1]

EncodingDecodes ==
    IsStr(value) =>
        LET encoded == URLEncodeFilter(value)
        IN  encoded # Undefined => Decodes(encoded.s, value.s)

(* What escape and url_encode write can be read back: neither loses a character (web.cpp:26, 48). *)
EncodersReadBack == EscapeReadsBack /\ EncodingDecodes

(***************************************************************************)
(* A color printed by color_to_rgb is read back as the same color, and     *)
(* whatever is read as a color, color_to_rgb of it is stable.              *)
(***************************************************************************)
ColorsReadBack ==
    /\ \A color \in Colors : GetColorString(PrintRGB(color)) = [color EXCEPT ![4] = 255]
    /\ value \notin Broken /\ ~ColorThrows(Text(value)) =>
           ColorToRGBFilter(ColorToRGBFilter(value)) = ColorToRGBFilter(value)

(* What a text in hexadecimal shows of a color, the digit after its mark and the last of blue being lost. *)
Shown(color) == <<Red(color), Green(color), Blue(color) \div 16>>

HexValue(c) == (CHOOSE k \in 1..16 : UpperHexDigits[k] = c) - 1

ReadHex(s) == <<16 * HexValue(s[3]) + HexValue(s[4]), 16 * HexValue(s[5]) + HexValue(s[6]), HexValue(s[7])>>

(* color_to_hex shows the color x of the value, and color_modify x with one component exchanged. *)
HexKeepsColor(x, any) ==
    /\ ReadHex(ColorToHexFilter(value, any).s) = Shown(x)
    /\ \A y \in Colors, k \in 1..3, turns \in {0, 1} :
           LET modified == ColorModifyFilter(value, Str(ComponentName[k]), Num(y[k] - 256 * turns), any)
           IN  ReadHex(modified.s) = Shown([x EXCEPT ![k] = y[k]])

(* A mix goes from the color x of the value to the other, nearer to it the more there is of it. *)
MixIsBetween(x, any) ==
    \A y \in Colors :
        LET mixed == [quarter \in 0..4 |->
                ReadHex(ColorMixFilter(value, Str(PrintRGB(y)), Num(25 * quarter), any).s)]
        IN  /\ mixed[0] = Shown(x) /\ mixed[4] = Shown(y)
            /\ \A quarter \in 0..3, k \in 1..3 :
                   (mixed[4][k] - mixed[0][k]) * (mixed[quarter + 1][k] - mixed[quarter][k]) >= 0

(* No color filter reads a text in hexadecimal: std::stoul is given its mark. *)
HexIsNotRead(any) == ColorToRGBFilter(ColorToHexFilter(value, any)) = Throws

(***************************************************************************)
(* A text in rgb is the color it was printed from.  The one in hexadecimal *)
(* that color_to_hex, color_modify and color_mix print of it still shows   *)
(* the red, the green and the high digit of the blue that color_extract    *)
(* reads, one of them exchanged, or on the way to another color; and no    *)
(* color filter reads that text again (web.cpp:169-470).                   *)
(***************************************************************************)
ColorsAgree ==
    /\ ColorsReadBack
    /\ IsStr(value) /\ IsPrefix(RGB, value.s) =>
           LET Component(k) == ColorExtractFilter(value, Str(ComponentName[k])).n
               x == <<Component(1), Component(2), Component(3)>>
           IN  \A any \in AnyDigit : HexKeepsColor(x, any) /\ MixIsBetween(x, any) /\ HexIsNotRead(any)
=============================================================================
