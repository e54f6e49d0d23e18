------------------------------ MODULE LiquidWeb -----------------------------
(***************************************************************************)
(* The filters of the web dialect (src/web.cpp) as functions of the        *)
(* rendered operand and arguments.  A color, an unsigned int in the code,  *)
(* is its four bytes <<red, green, blue, alpha>>: all that is done to it   *)
(* is masking and shifting by whole bytes.  What is computed in floats is  *)
(* left out: hue, saturation, lightness, brightness, contrast and the      *)
(* alpha of a text; a percentage is one that a float holds exactly.        *)
(***************************************************************************)
EXTENDS LiquidFilters

CONSTANT Digest(_, _)   \* OpenSSL: the bytes of a digest of a text, by the function's name

Throws == Value("THROWS", 0, <<>>, <<>>)   \* an exception that is none of the renderer's

-----------------------------------------------------------------------------
(* Escaping. *)

(* Mutated: the ampersand is no character of markup. *)
EntityButAmpersand(c) ==
    CASE c = "'"  -> <<"&", "a", "p", "o", "s", ";">>
      [] c = "\"" -> <<"&", "q", "u", "o", "t", ";">>
      [] c = "<"  -> <<"&", "l", "t", ";">>
      [] c = ">"  -> <<"&", "g", "t", ";">>
      [] OTHER    -> <<c>>

Entity(c) ==
    CASE c = "'"  -> <<"&", "a", "p", "o", "s", ";">>
      [] c = "\"" -> <<"&", "q", "u", "o", "t", ";">>
      [] c = "<"  -> <<"&", "l", "t", ";">>
      [] c = ">"  -> <<"&", "g", "t", ";">>
      [] c = "&"  -> <<"&", "a", "m", "p", ";">>
      [] OTHER    -> <<c>>

HtmlEscape(s) == FoldLeft(LAMBDA acc, c : acc \o Entity(c), <<>>, s)

HexDigits == <<"0", "1", "2", "3", "4", "5", "6", "7", "8", "9", "a", "b", "c", "d", "e", "f">>

HexText(digits, bytes) ==
    FoldLeft(LAMBDA acc, b : acc \o <<digits[(b \div 16) + 1], digits[(b % 16) + 1]>>, <<>>, bytes)

ToHex(bytes) == HexText(HexDigits, bytes)

(* The characters of ASCII that are no letters and no digits, in runs from the code each starts at. *)
Ascii == {
    [from |-> 9,   chars |-> <<"TAB", "LF", "VT", "FF", "CR">>],
    [from |-> 32,  chars |-> <<" ", "!", "\"", "#", "$", "%", "&", "'", "(", ")", "*", "+", ",", "-", ".", "/">>],
    [from |-> 58,  chars |-> <<":", ";", "<", "=", ">", "?", "@">>],
    [from |-> 91,  chars |-> <<"[", "\\", "]", "^", "_", "BACKTICK">>],
    [from |-> 123, chars |-> <<"{", "|", "}", "~">>]}

AsciiCode ==
    [c \in UNION {Range(run.chars) : run \in Ascii} |->
        LET run == CHOOSE r \in Ascii : c \in Range(r.chars)
        IN  run.from + (CHOOSE k \in DOMAIN run.chars : run.chars[k] = c) - 1]

(* The code of such a character, as the signed char it is: any other has a byte from 128 up. *)
SignedCode(c) == IF c \in DOMAIN AsciiCode THEN AsciiCode[c] ELSE -61

(* Mutated: a code below 16 is one digit. *)
EncodedCharShort(c) ==
    IF IsAlnum(c) THEN <<c>>
    ELSE <<"%">> \o SubSeq(ToHex(<<SignedCode(c)>>), IF SignedCode(c) < 16 THEN 2 ELSE 1, 2)

(* paramEncode: a byte from 128 up is a negative char, and indexes hexDigits below its start. *)
EncodedChar(c) == IF IsAlnum(c) THEN <<c>> ELSE <<"%">> \o ToHex(<<SignedCode(c)>>)

URLEncodeFilter(v) ==
    LET s == Text(v)
    IN  IF \E k \in 1..Len(s) : ~IsAlnum(s[k]) /\ SignedCode(s[k]) < 0 THEN Undefined
        ELSE Str(FoldLeft(LAMBDA acc, c : acc \o EncodedChar(c), <<>>, s))

EscapeFilter(v) == Str(HtmlEscape(Text(v)))

(* DigestFilterNode, DigestHMACFilterNode. *)
DigestFilter(sym, v)    == Str(ToHex(Digest(sym, <<Text(v)>>)))
HMACFilter(sym, v, key) == Str(ToHex(Digest(sym, <<Text(key), Text(v)>>)))

-----------------------------------------------------------------------------
(* Tags. *)

(* Fixed text, as the characters it is made of. *)
Chars(text) == [k \in 1..Len(text) |-> SubSeq(text, k, k)]

(* LinkToFilterNode: the address is not escaped. *)
LinkToFilter(v, url, title) ==
    Str(Chars("<a ")
        \o (IF Text(title) = <<>> THEN <<>>
            ELSE Chars("title=\"") \o HtmlEscape(Text(title)) \o <<"\"">>)
        \o Chars(" href=\"") \o Text(url) \o <<"\"", ">">>
        \o HtmlEscape(Text(v)) \o Chars("</a>"))

ImgTagFilter(v) == Str(Chars("<img src='") \o Text(v) \o Chars("'/>"))

StylesheetTagFilter(v) ==
    Str(Chars("<link href=\"") \o Text(v)
        \o Chars("\" rel=\"stylesheet\" type=\"text/css\" media=\"all\" />"))

ScriptTagFilter(v) ==
    Str(Chars("<script src=\"") \o Text(v) \o Chars("\" type=\"text/javascript\"></script>"))

(***************************************************************************)
(* HighlightFilterNode: the place the search goes on from is never moved   *)
(* on, so that a word found once is found for ever.                        *)
(***************************************************************************)
HighlightFilter(v, w) ==
    IF Occurrences(Text(v), Text(w)) # {} THEN Diverges ELSE Str(Text(v))

NewlineToBrFilter(v) ==
    Str(FoldLeft(LAMBDA acc, c : CASE c = "LF" -> acc \o <<"<", "b", "r", "/", ">">>
                                   [] c = "CR" -> acc
                                   [] OTHER    -> Append(acc, c), <<>>, Text(v)))

-----------------------------------------------------------------------------
(* Colors. *)

Red(color)   == color[1]
Green(color) == color[2]
Blue(color)  == color[3]

(* getRGB: ints are cut to bytes. *)
GetRGB(r, g, b, a) == <<r % 256, g % 256, b % 256, a % 256>>

RGB == <<"r", "g", "b">>
Commas(numbers) == JoinText(numbers, <<",", " ">>)

(* Mutated: the components in the order of the bytes in memory. *)
PrintRGBReversed(color) ==
    RGB \o <<"(">> \o Commas(<<IntText(Blue(color)), IntText(Green(color)), IntText(Red(color))>>)
        \o <<")">>

PrintRGB(color) ==
    RGB \o <<"(">> \o Commas(<<IntText(Red(color)), IntText(Green(color)), IntText(Blue(color))>>)
        \o <<")">>

(***************************************************************************)
(* printHex shifts a nibble too far: the first digit is a shift by all of  *)
(* the 32 bits, which may give anything, and the last one is never read.   *)
(***************************************************************************)
UpperHexDigits == <<"0", "1", "2", "3", "4", "5", "6", "7", "8", "9", "A", "B", "C", "D", "E", "F">>

PrintHex(color, any) == <<"#", any>> \o SubSeq(HexText(UpperHexDigits, color), 1, 5)

(***************************************************************************)
(* sscanf as getColorString uses it: "(%d, %d, %d)" after the name.  The   *)
(* numbers that were read before the text stopped matching.                *)
(***************************************************************************)
NumberLength(s)  == DigitRun(SubSeq(s, SignLength(s) + 1, Len(s)))

ScanNumber(acc, mark) ==
    LET body == SkipSpaces(Tail(acc.rest))
    IN  CASE ~acc.matches \/ acc.rest = <<>> \/ Head(acc.rest) # mark -> [acc EXCEPT !.matches = FALSE]
          [] OTHER ->
                IF NumberLength(body) = 0 THEN [acc EXCEPT !.matches = FALSE]
                ELSE [acc EXCEPT !.numbers = Append(@, Atoll[body]),
                                 !.rest = SubSeq(body, SignLength(body) + NumberLength(body) + 1, Len(body))]

ScanNumbers(s) ==
    FoldLeft(ScanNumber, [matches |-> TRUE, rest |-> s, numbers |-> <<>>], <<"(", ",", ",">>).numbers

(***************************************************************************)
(* getColorString: a color in hexadecimal is given to std::stoul with its  *)
(* sign in front, which throws; a number that is not there is zero; a text *)
(* that is no color is black and transparent.                              *)
(***************************************************************************)
ColorThrows(s) == s # <<>> /\ Head(s) = "#"

GetColorString(s) ==
    LET numbers == ScanNumbers(SubSeq(s, 4, Len(s)))
        Pixel(k) == IF k <= Len(numbers) THEN numbers[k] ELSE 0
    IN  IF Len(s) >= 3 /\ SubSeq(s, 1, 3) = RGB
        THEN GetRGB(Pixel(1), Pixel(2), Pixel(3), 255) ELSE <<0, 0, 0, 0>>

ColorToRGBFilter(v) == IF ColorThrows(Text(v)) THEN Throws ELSE Str(PrintRGB(GetColorString(Text(v))))

ColorToHexFilter(v, any) ==
    IF ColorThrows(Text(v)) THEN Throws ELSE Str(PrintHex(GetColorString(Text(v)), any))

ComponentName == <<<<"r", "e", "d">>, <<"g", "r", "e", "e", "n">>, <<"b", "l", "u", "e">>>>
Components(name) == {k \in 1..3 : ComponentName[k] = name}

ColorExtractFilter(v, w) ==
    CASE ColorThrows(Text(v)) -> Throws
      [] ~ColorThrows(Text(v)) /\ Components(Text(w)) # {} ->
             Num(GetColorString(Text(v))[CHOOSE k \in Components(Text(w)) : TRUE])
      [] OTHER -> Nil

(* ColorModifyFilterNode, as the color that it prints: an unknown component changes nothing. *)
ModifyColor(color, name, n) ==
    [k \in 1..4 |-> IF k \in Components(name) THEN n % 256 ELSE color[k]]

ColorModifyFilter(v, name, n, any) ==
    IF ColorThrows(Text(v)) THEN Throws
    ELSE Str(PrintHex(ModifyColor(GetColorString(Text(v)), Text(name), ToInt(n)), any))

(* Mutated: the way is measured in bytes, which wrap around. *)
MixColorInBytes(color, other, eighths) ==
    [k \in 1..4 |-> ((800 * color[k] + ((other[k] - color[k]) % 256) * eighths) \div 800) % 256]

(* ColorMixFilterNode: the way from one color to the other, of which a percentage in eighths. *)
MixColor(color, other, eighths) ==
    [k \in 1..4 |-> ((800 * color[k] + (other[k] - color[k]) * eighths) \div 800) % 256]

ColorMixFilter(v, other, percent, any) ==
    IF ColorThrows(Text(v)) \/ ColorThrows(Text(other)) THEN Throws
    ELSE With(ToFloat(percent), LAMBDA n :
             Str(PrintHex(MixColor(GetColorString(Text(v)), GetColorString(Text(other)), n), any)))
=============================================================================
