----------------------------- MODULE MCPipeline -----------------------------
(***************************************************************************)
(* LiquidPipeline on all texts of up to two characters over a letter of    *)
(* either case, a blank and a character of markup, on those of three       *)
(* without the capital, on texts that are read as numbers and as colors,   *)
(* and on integers, doubles, lists and nil.                                *)
(***************************************************************************)
EXTENDS LiquidPipeline

Alphabet == {"a", "B", " ", "<"}
Texts    == UNION {[1..n -> Alphabet] : n \in 0..2} \union [1..3 -> Alphabet \ {"B"}]

Rgb(r, g, b) == Str(PrintRGB(<<r, g, b, 255>>))

OddTexts == {
    <<"7">>, <<"-", "1", "2", "x">>, <<"+", "5">>, <<"-">>, <<"x", "3">>,
    <<" ", "6">>, <<"2", ".", "5">>, <<"-", "7", ".", "5", "0">>, <<"(", "#", "_">>, <<"B", "<", "a", "B">>,
    <<"&", "'", "\"", ">", "a", ";">>, <<"&", "l", "t", ";">>, <<"a", "HIGH">>, <<"LF", "a", "CR">>,
    <<"#", "0", "F">>, <<"r", "g", "b">>, <<"r", "g", "b", "(", "3", ",", "-", "1">>,
    <<"r", "g", "b", "(", " ", "3", "0", "0", ",", "x", ",", "5", ")">>}

MCInputs ==
    {Str(s) : s \in Texts \union OddTexts}
    \union {Num(n) : n \in -7..7} \union {Float(20), Float(-60)} \union {Nil, Bool(TRUE), Array(<<>>)}
    \union {Rgb(0, 128, 255), Rgb(18, 52, 86)}
    \union {Var(List(<<Str(<<"a">>), Num(2), Str(<<" ">>)>>)), Var(List(<<>>)), Var(Hash(<<>>, <<>>)),
            Var(List(<<Hash(<<<<>>>>, <<Num(1)>>)>>))}

Word(c) == Str(<<c>>)
Call(sym, args) == [sym |-> sym, args |-> args]

MCCalls ==
    {Call(sym, <<>>) : sym \in {"upcase", "downcase", "capitalize", "handle", "strip", "lstrip", "rstrip",
        "strip_newlines", "size", "first", "last", "reverse", "uniq", "abs", "ceil", "floor", "round",
        "escape", "url_encode", "md5", "img_tag", "stylesheet_tag", "script_tag", "newline_to_br",
        "color_to_rgb", "color_to_hex"}}
    \union {Call(sym, <<Num(2)>>) : sym \in {"plus", "minus", "times", "divided_by", "modulo",
        "at_most", "at_least", "index", "truncate", "truncatewords", "default"}}
    \union {Call(sym, <<Word("a")>>) : sym \in {"append", "prepend", "remove", "removefirst", "split",
        "join", "concat", "map", "sort", "hmac_sha1", "link_to", "highlight"}}
    \union {Call(sym, <<Word("a"), Word("<")>>) : sym \in {"replace", "replacefirst", "link_to", "where"}}
    \union {Call("slice", <<Num(-2), Num(1)>>), Call("slice", <<Num(1)>>), Call("pluralize", <<Nil, Word("a"), Word("B")>>),
            Call("where", <<Str(<<>>), Nil>>),
            Call("color_extract", <<Str(ComponentName[2])>>),
            Call("color_modify", <<Str(ComponentName[2]), Num(300)>>),
            Call("color_mix", <<Rgb(10, 20, 31), Str(<<"5", "0">>)>>)}

MCPatterns == {<<"a">>, <<"a", "a">>, <<" ">>, <<"B", "<", "a">>, <<"<", "<">>}
MCColors   == {<<0, 128, 255, 255>>, <<255, 9, 10, 255>>, <<1, 2, 3, 0>>}
MCNumbers  == -4..4
MCDigest(f, s) == <<Len(s), Len(s[1]) % 256, 171>>
=============================================================================
