----------------------------- MODULE LiquidUnparser -----------------------------
(***************************************************************************)
(* Parser::unparse (parser.cpp): the text of a tree, as the tokens the     *)
(* lexer reads in it.  A tree may have come from the optimizer; the hosts  *)
(* call unparse through the C interface.                                   *)
(*                                                                         *)
(* The code writes into one text as it goes down the tree.  Where it has   *)
(* no case for a node it asserts, and a release writes nothing.            *)
(***************************************************************************)
EXTENDS LiquidParser

\* One text between commas.
Separated(texts) == FlattenSeq([i \in DOMAIN texts |-> (IF i = 1 THEN <<>> ELSE <<",">>) \o texts[i]])

\* Mutation: the parentheses are left to the priorities.
UnparseGroupBare(inner) == inner

UnparseGroup(inner) == <<"(">> \o inner \o <<")">>

\* The sign of a number is read as a part of the number.
UnparsePrefix(symbol, operand) ==
  IF symbol = "-" /\ Head(operand) = "number" THEN operand ELSE <<symbol>> \o operand

UnparseOperator(symbol, left, right) == left \o <<symbol>> \o right

\* A name is what a variable starts with, or what follows a dot; an index
\* brings its brackets along.
UnparseVariable(n, texts) ==
  LET Step(i) == IF n.kids[i].type = "value" THEN <<".">> \o texts[i]
                 ELSE IF Head(texts[i]) = "[" THEN texts[i]
                 ELSE <<"[">> \o texts[i] \o <<"]">>
  IN  texts[1] \o FlattenSeq([i \in 1..(Len(texts) - 1) |-> Step(i + 1)])

UnparseFilter(name, operand, arguments) ==
  operand \o <<"|", name>> \o (IF arguments = <<>> THEN <<>> ELSE <<":">> \o Separated(arguments))

\* The end of a tag that halts the lexer is one token of the lexer's.
EndWordOf(tag) == CHOOSE w \in DOMAIN EndOf : EndOf[w] = tag

UnparseTag(tag, arguments, body) ==
  LET start == <<"{%", tag>> \o Separated(arguments) \o <<"%}">>
      end   == IF TagTypes[tag].composition = "LEXING_HALT" THEN <<EndWordOf(tag)>>
               ELSE <<"{%", EndWordOf(tag), "%}">>
  IN  IF TagTypes[tag].composition = "FREE" THEN start ELSE start \o body \o end

RECURSIVE Unparse(_)
Unparse(n) ==
  LET texts == [i \in DOMAIN n.kids |-> Unparse(n.kids[i])]
      arguments(i) == [k \in DOMAIN n.kids[i].kids |-> Unparse(n.kids[i].kids[k])]
  IN  CASE n.type = "value"    -> IF n.sym = "" THEN <<>> ELSE <<n.sym>>
        [] n.type = "concat"   -> FlattenSeq(texts)
        [] n.type = "tag"      -> UnparseTag(n.sym, arguments(1), FlattenSeq(Tail(texts)))
        [] n.type = "output"   -> <<"{{">> \o arguments(1)[1] \o <<"}}">>
        [] n.type = "group"    -> UnparseGroup(texts[1])
        [] n.type = "deref"    -> <<"[">> \o texts[1] \o <<"]">>
        [] n.type = "prefix"   -> UnparsePrefix(n.sym, texts[1])
        [] n.type = "operator" -> UnparseOperator(n.sym, texts[1], texts[2])
        [] n.type = "variable" -> UnparseVariable(n, texts)
        [] n.type = "filter"   -> UnparseFilter(n.sym, texts[1], arguments(2))
        [] OTHER               -> <<>>

\* The lexer on a whole text, without the choice of another.
Handle(p, t, last) ==
  CASE p.lexing = "HALT" -> IF t \in Texts THEN p ELSE EndHalt(p, IF last \in Texts THEN last ELSE "", t)
    [] t = "{{" -> StartOutputBlock(p)
    [] t = "}}" -> EndOutputBlock(p)
    [] t = "{%" -> [p EXCEPT !.lexing = "CONTROL"]
    [] t = "%}" -> EndControlBlock(p)
    [] t = ":"  -> Colon(p)
    [] t = ","  -> Comma(p)
    [] t = "."  -> Dot(p)
    [] t = "["  -> StartVariableDereference(p)
    [] t = "]"  -> EndVariableDereference(p)
    [] t = "("  -> OpenParenthesis(p)
    [] t = ")"  -> CloseParenthesis(p)
    [] t \in {"string", "number"} -> Operand(p, t)
    [] OTHER -> Literal(p, t)

\* What the parser holds after all of a text.
ParseWhole(p, tokens) ==
  LET Lexed(at, t) == [parser |-> IF at.parser.ok THEN Handle(at.parser, t, at.last) ELSE at.parser,
                       last   |-> t]
      start == [parser |-> Fresh(p, <<Concat>>, "NODE", "NONE", "INITIAL"), last |-> ""]
  IN  FoldLeft(Lexed, start, tokens).parser
=============================================================================
