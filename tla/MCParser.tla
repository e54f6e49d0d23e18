------------------------------- MODULE MCParser -------------------------------
(***************************************************************************)
(* LiquidParser for TLC: a small dialect, and two kinds of texts.  The     *)
(* templates of a grammar, each with the tree it stands for, show that the *)
(* parser builds what was written; all short texts over an alphabet show   *)
(* what it does with anything else.                                        *)
(***************************************************************************)
EXTENDS LiquidUnparser, FiniteSetsExt, TLC

CONSTANTS Templates,      \* the templates of the grammar
          OutputLength,   \* bound: tokens in any other text that starts with an output,
          TagLength,      \*        with a tag,
          ArgumentLength  \*        or that is an argument

Tag(composition, min, max, within, qualifiers) ==
  [composition |-> composition, minArguments |-> min, maxArguments |-> max,
   within |-> within, qualifiers |-> qualifiers]

MCTagTypes ==
  "if" :> Tag("ENCLOSED", 1, 1, {}, {}) @@
  "for" :> Tag("ENCLOSED", 1, -1, {}, {"limit", "reversed"}) @@
  "else" :> Tag("FREE", 0, 0, {"if", "for"}, {}) @@
  "elsif" :> Tag("FREE", 1, 1, {"if"}, {}) @@
  "break" :> Tag("FREE", 0, 0, {}, {}) @@
  "assign" :> Tag("FREE", 1, 1, {}, {}) @@
  "raw" :> Tag("LEXING_HALT", 0, 0, {}, {})

MCContextual ==
  [c \in DOMAIN MCTagTypes \cup {"echo"} |->
     [operators |-> IF c = "assign" THEN {"="} ELSE {},
      filters   |-> IF c \in {"echo", "assign"} THEN {"f"} ELSE {}]]

MCEndOf          == "endif" :> "if" @@ "endfor" :> "for" @@ "endraw" :> "raw"
MCOperators      == {"+", "*", "==", "in"}
MCPriority       == "+" :> 5 @@ "*" :> 10 @@ "==" :> 2 @@ "in" :> -1000 @@ "=" :> -1
MCPrefixPriority == "-" :> 10
MCSettings       == {[limit |-> 100, grouping |-> TRUE, arrays |-> TRUE],
                     [limit |-> 4, grouping |-> FALSE, arrays |-> FALSE]}
MCWords == DOMAIN MCTagTypes \cup DOMAIN MCEndOf \cup DOMAIN MCPriority \cup
           {"-", "|", "a", "b", "c", "f", "g", "size", "nil", "limit", "reversed", "liquid", "echo"}

-----------------------------------------------------------------------------
(* The grammar: tokens and the tree they stand for.                        *)

As(tokens, tree) == [tokens |-> tokens, tree |-> tree]

Trees(es)  == [i \in DOMAIN es |-> es[i].tree]
Tokens(es) == FlattenSeq([i \in DOMAIN es |-> es[i].tokens])

Listed(es) == FlattenSeq([i \in DOMAIN es |-> (IF i = 1 THEN <<>> ELSE <<",">>) \o es[i].tokens])

A  == As(<<"a">>, Node("variable", "", <<Value("a")>>))
B  == As(<<"b">>, Node("variable", "", <<Value("b")>>))
C  == As(<<"c">>, Node("variable", "", <<Value("c")>>))
S  == As(<<"string">>, Value("string"))
N  == As(<<"number">>, Value("number"))
L  == As(<<"nil">>, Node("literal", "nil", <<>>))

Named(e, w)    == As(e.tokens \o <<".", w>>, Give(e.tree, Value(w)))
Indexed(e, i)  == As(e.tokens \o <<"[">> \o i.tokens \o <<"]">>, Give(e.tree, Node("deref", "", <<i.tree>>)))
Sized(e)       == As(e.tokens \o <<".", "size">>,
                     Node("variable", "", <<Node("dotfilter", "size", <<e.tree>>)>>))
Infixed(op, l, r) == As(l.tokens \o <<op>> \o r.tokens, Node("operator", op, <<l.tree, r.tree>>))
Prefixed(e)    == As(<<"-">> \o e.tokens, Node("prefix", "-", <<e.tree>>))
Grouped(e)     == As(<<"(">> \o e.tokens \o <<")">>, Node("group", "", <<e.tree>>))
Array(es)      == As(<<"[">> \o Listed(es) \o <<"]">>, Node("array", "", Trees(es)))
Filtered(e, f, es) ==
  As(e.tokens \o <<"|", f>> \o (IF es = <<>> THEN <<>> ELSE <<":">> \o Listed(es)),
     Node("filter", f, <<e.tree, Node("arguments", "", Trees(es))>>))

\* Two operands and the operator between them, if that is how they group: the
\* right operand binds tighter, the left one at least as tightly.
Arithmetic == {"+", "*", "=="}
Groups(op, l, r) ==
  /\ l.tree.type = "operator" => MCPriority[l.tree.sym] >= MCPriority[op]
  /\ r.tree.type = "operator" => MCPriority[r.tree.sym] > MCPriority[op]
Joined(ls, rs) ==
  {Infixed(x[1], x[2], x[3]) : x \in {y \in Arithmetic \X ls \X rs : Groups(y[1], y[2], y[3])}}

Pairs   == Joined({A}, {B})
Triples == Joined(Pairs, {C}) \cup Joined({C}, Pairs)
Quads   == Joined(Triples, {B}) \cup Joined({A}, Triples) \cup Joined(Pairs, Pairs)
Signed  == {Prefixed(A)} \cup Joined({Prefixed(A)}, {B}) \cup Joined({A}, {Prefixed(B)})

Sum == Infixed("+", A, B)
Paths == {Named(A, "b"), Named(Named(A, "b"), "c"), Indexed(A, S), Indexed(Named(A, "b"), Sum),
          Named(Indexed(A, Indexed(B, N)), "c"), Sized(Named(A, "b"))}
Lists == {Array(<<>>), Array(<<A>>), Array(<<Sum, N>>), Infixed("==", Array(<<A, B>>), C)}
Pipes == {Filtered(A, "f", <<>>), Filtered(Sum, "f", <<>>), Filtered(A, "g", <<Sum, N>>),
          Filtered(Filtered(A, "f", <<B>>), "g", <<>>), Filtered(S, "g", <<Grouped(Sum)>>),
          Filtered(Filtered(A, "f", <<Grouped(Filtered(B, "g", <<C>>)), N>>), "g", <<S>>)}
Nests == {Grouped(Sum), Infixed("*", Grouped(Sum), C), Infixed("*", C, Grouped(Sum)),
          Grouped(Grouped(A)), Infixed("+", Grouped(Filtered(A, "f", <<>>)), B)}
Expressions == {A, S, N, L} \cup Pairs \cup Triples \cup Signed \cup Paths \cup Lists \cup Pipes \cup Nests

Arguments(es) == Node("arguments", "", Trees(es))
Block(ts)     == As(Tokens(ts), Node("concat", "", Trees(ts)))
T             == As(<<"text">>, Value("text"))
Output(e)     == As(<<"{{">> \o e.tokens \o <<"}}">>, Node("output", "echo", <<Arguments(<<e>>)>>))
Start(w, es)  == <<"{%", w>> \o Tokens(es) \o <<"%}">>
Ended(w)      == <<"{%", w, "%}">>

Free(w, es) == As(Start(w, es), Node("tag", w, <<Arguments(es)>>))
Assign(e)   == Free("assign", <<Infixed("=", A, e)>>)
Break       == Free("break", <<>>)
Raw(t)      == As(<<"{%", "raw", "%}">> \o t.tokens \o <<"endraw">>, Node("tag", "raw", <<Arguments(<<>>), Block(<<t>>).tree>>))

\* An enclosed tag and its branches: pairs of an intermediate and its body.
Enclosed(w, end, es, body, branches) ==
  As(Start(w, es) \o body.tokens \o Tokens(branches) \o Ended(end),
     Node("tag", w, <<Arguments(es), body.tree>> \o Trees(branches)))
If(e, body, branches)   == Enclosed("if", "endif", <<e>>, body, branches)
For(es, body, branches) == Enclosed("for", "endfor", es, body, branches)

In      == Infixed("in", A, B)
Limit   == As(<<"limit", ":", "number">>, Node("qualifier", "limit", <<Value("number")>>))
Reversed == As(<<"reversed">>, Node("qualifier", "reversed", <<>>))
Else(b) == <<Free("else", <<>>), b>>

Body  == Block(<<T>>)
Empty == Block(<<>>)

\* A liquid tag, one statement a line.
Liquid(lines, ts) == As(<<"{%", "liquid">> \o lines \o <<"%}">>, Node("concat", "", Trees(ts)))
EchoLine(e)       == <<"newline", "echo">> \o e.tokens
AssignLine(e)     == <<"newline", "assign", "a", "=">> \o e.tokens

PlainTemplates ==
  {Block(<<Output(e)>>) : e \in Expressions} \cup
  {Block(<<Assign(e)>>) : e \in Pairs \cup Pipes \cup {Infixed("+", Infixed("*", A, B), C)}} \cup
  {Empty,
   Block(<<T, Output(A), T, Output(S)>>),
   Block(<<Raw(T), T, Raw(T)>>),
   Block(<<If(A, Body, <<>>), T>>),
   Block(<<If(Sum, Body, <<Free("elsif", <<B>>), Empty>> \o Else(Body))>>),
   Block(<<For(<<In>>, Block(<<T, If(A, Block(<<Break>>), Else(Block(<<Output(B)>>))), T>>), Else(Body))>>),
   Block(<<For(<<In, Limit>>, Body, <<>>)>>),
   Block(<<For(<<In, Limit, Reversed>>, Body, <<>>)>>),
   Block(<<For(<<In, Reversed, Limit>>, Block(<<For(<<In>>, Empty, <<>>)>>), <<>>), Output(A)>>),
   Block(<<If(A, Block(<<If(B, Block(<<Raw(T)>>), Else(Empty))>>), Else(Body)), Assign(B)>>),
   Liquid(AssignLine(B) \o EchoLine(A) \o AssignLine(C), <<Assign(B), Output(A), Assign(C)>>)}

\* For the runs that show what goes wrong: three operators; a liquid tag that
\* does not end with a tag, an end word with a filter or a qualifier, a tag in
\* parentheses.
QuadTemplates  == {Block(<<Output(e)>>) : e \in Quads}
Loose(w, es, end) == As(Start(w, es) \o end, Block(<<Enclosed(w, "", es, Empty, <<>>)>>).tree)
LooseTemplates ==
  {Liquid(EchoLine(A), <<Output(A)>>),
   Loose("if", <<A>>, <<"{%", "endif", "|", "g", "%}">>),
   Loose("for", <<In>>, <<"{%", "endfor", "reversed", "%}">>),
   As(<<"{%", "(", "break", ")", "%}">>, Block(<<Break>>).tree)}

-----------------------------------------------------------------------------
(* The texts: the templates, every template that lost a token, has two of  *)
(* them in the wrong order or another end word, and every short text.      *)

Lines      == {e.tokens : e \in Templates}
NearMisses == UNION {
  {RemoveAt(l, i) : i \in DOMAIN l} \cup
  {[l EXCEPT ![i] = l[i + 1], ![i + 1] = l[i]] : i \in 1..(Len(l) - 1)} \cup
  {[l EXCEPT ![i] = w] : i \in {j \in DOMAIN l : l[j] \in DOMAIN EndOf}, w \in DOMAIN EndOf} : l \in Lines}
Written    == UNION {{SubSeq(l, 1, n) : n \in 0..Len(l)} : l \in Lines \cup NearMisses}

OutputWords   == {"a", "+", "*", "-", "|", "f", ":", ",", ".", "(", ")", "[", "]", "number", "}}"}
TagWords      == {"if", "for", "else", "endif", "break", "raw", "a", "in", "limit", "{%", "%}", "(", "text"}
ArgumentWords == {"a", "+", "|", "g", ":", ".", "[", "]", "number"}

Over(t, alphabet) == \A i \in DOMAIN t : t[i] \in alphabet
Short(t) ==
  \/ Len(t) <= OutputLength /\ Head(t) = "{{" /\ Over(Tail(t), OutputWords)
  \/ Len(t) <= TagLength /\ Head(t) = "{%" /\ Over(Tail(t), TagWords)
  \/ Len(t) <= ArgumentLength /\ Over(t, ArgumentWords)

MCIsText(t) == t \in Written \/ Short(t)

-----------------------------------------------------------------------------
(* What a parse promises.                                                  *)

\* The words a tree stands for, in the order they are written in.
RECURSIVE Yield(_)
Yield(n) ==
  LET kids == FlattenSeq([i \in DOMAIN n.kids |-> Yield(n.kids[i])])
      rest == FlattenSeq([i \in 1..(Len(n.kids) - 1) |-> Yield(n.kids[i + 1])])
  IN  CASE n.type \in {"operator", "filter", "dotfilter"} -> Yield(n.kids[1]) \o <<n.sym>> \o rest
        [] n.type \in {"value", "literal", "prefix", "qualifier", "tag"} -> <<n.sym>> \o kids
        [] OTHER -> kids

Punctuation == {"", "{{", "}}", "{%", "%}", ":", ",", ".", "[", "]", "(", ")", "|", "newline", "echo", "liquid"}
Content(t)  == SelectSeq(t, LAMBDA w : w \notin Punctuation \cup DOMAIN EndOf)

\* TemplatesAsWritten: a template of the grammar that the depth limit and the
\* settings allow is parsed to the tree it stands for, with nothing reported,
\* whatever the parser parsed before (parser.cpp:251-453, 504-623, 659-690).
TemplatesAsWritten ==
  outcome \notin {"none", "reading"} /\ parser.start = "INITIAL" /\ parser.limit = 100 =>
    \A e \in Templates : e.tokens = read => Accepted /\ parser.nodes = <<e.tree>>

\* ArgumentsAsWritten: so is an expression that is parsed as an argument, when
\* the text of an expression ends there (parser.cpp:625-645).
ArgumentsAsWritten ==
  outcome \notin {"none", "reading"} /\ parser.start = "OUTPUT" /\ parser.limit = 100 =>
    \A e \in Expressions : e.tokens = read => Accepted /\ parser.nodes[1].kids[1] = e.tree

\* ParsesAsWritten: both, in one parser's life: what it parses is what was
\* written, and not what its last parse left behind (parser.cpp:625-690).
ParsesAsWritten == TemplatesAsWritten /\ ArgumentsAsWritten

\* NothingLostSilently: what a parse accepts without an error is all in the
\* tree, each word once and in its place: no handler that fails and is ignored,
\* and no pop that drops a node, loses a part of the text that was written
\* (parser.cpp:504-534, 659-690).  An operand right before a qualifier may be
\* lost (parser.cpp:415): those texts are left out, as are those at which the
\* lexer was stopped.
Qualified(t) ==
  \E i \in 1..(Len(t) - 1) : t[i] \in {"string", "number"} /\ t[i + 1] \in {"limit", "reversed"}

NothingLostSilently ==
  Accepted /\ parser.ok /\ parser.start = "INITIAL" /\ ~Qualified(read) =>
    Content(Yield(parser.nodes[1])) = Content(read)

\* UnparsedReadsBack: what unparse writes for a tree is read as the same tree,
\* with nothing reported (parser.cpp:692-847; the test unparser,
\* t/01sanity.cpp:1387-1467).  Left out are the nodes unparse has no case for, an
\* output of nothing or of several things, a child that never came, an operator,
\* group or index that was accepted without its operand or with a filter's arguments for it, and a sign before a number or another sign, which the lexer reads
\* as something else.
Arity(n) == CASE n.type \in {"prefix", "group", "deref"} -> 1
              [] n.type \in {"operator", "filter"} -> 2
              [] OTHER -> Len(n.kids)

RECURSIVE Writable(_)
Writable(n) ==
  /\ n.type \notin {"literal", "array", "dotfilter", "qualifier", "null"}
  /\ n.type = "output" => Len(n.kids[1].kids) = 1
  /\ Len(n.kids) = Arity(n)
  /\ n.type \in {"operator", "prefix", "group"} => \A i \in DOMAIN n.kids : n.kids[i].type # "arguments"
  /\ n.type = "prefix" => n.kids[1].type # "prefix" /\ n.kids[1].sym # "number"
  /\ \A i \in DOMAIN n.kids : Writable(n.kids[i])

ReadsAs(p, nodes) == p.nodes = nodes /\ p.errors = {} /\ p.lexing = "INITIAL"

UnparsedReadsBack ==
  Accepted /\ parser.start = "INITIAL" /\ Writable(parser.nodes[1]) =>
    ReadsAs(ParseWhole(parser, Unparse(parser.nodes[1])), parser.nodes)

\* RespectsPriority: an operator's left operand binds at least as tightly as the
\* operator, and its right one tighter: 10 + 2 * 3 adds last, as the test
\* orderOfOperations expects (t/01sanity.cpp:141-152, parser.cpp:433-448).
RECURSIVE Respects(_)
Respects(n) ==
  /\ \A i \in DOMAIN n.kids : Respects(n.kids[i])
  /\ n.type = "operator" =>
       \A i \in DOMAIN n.kids :
         n.kids[i].type = "operator" =>
           \/ Priority[n.kids[i].sym] > Priority[n.sym]
           \/ i = 1 /\ Priority[n.kids[i].sym] = Priority[n.sym]

RespectsPriority == Accepted => Respects(parser.nodes[1])
=============================================================================
