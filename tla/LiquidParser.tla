----------------------------- MODULE LiquidParser -----------------------------
(***************************************************************************)
(* The parser of liquid-cpp: Parser and Parser::Lexer (parser.cpp), a      *)
(* machine with a stack of open nodes that the lexer (lexer.h) drives      *)
(* with one call per token.  Each handler is an operator from the parser's *)
(* members to the parser's members; each action is the lexer reading one   *)
(* token and calling its handler.                                          *)
(*                                                                         *)
(* Words are abstract: the constants say what the context registered them  *)
(* as.  A string, a number and a stretch of text are one token each.       *)
(* Where the code reads something that is not there (the children of a     *)
(* value, the priority of a node that has none, a null pointer), nothing   *)
(* is claimed of what follows: the parse ends with the outcome undefined.  *)
(***************************************************************************)
EXTENDS Integers, Sequences, SequencesExt

CONSTANTS
  TagTypes,           \* per tag: composition, numbers of arguments, qualifiers,
                      \* and the tags it is an intermediate of
  Contextual,         \* per tag, and for an output: operators and filters of its own
  EndOf,              \* per end word: the tag it ends
  Operators,          \* the binary operators of the context
  Priority,           \* of every binary operator
  PrefixPriority,     \* of every unary operator
  UnaryQualifiers,    \* the qualifiers that take an operand
  Filters,            \* the filters of the context
  WildcardFilters,    \* those of the context, a tag or an output with named arguments
  DotFilters,
  Literals,           \* true, nil, ...
  Words,              \* the words a text may hold
  Settings,           \* what a host may set: depth limit, parentheses, array literals
  IsText(_)           \* the texts to parse; a text may end after any token

VARIABLES
  parser,   \* the members of the parser and its lexer
  read,     \* the tokens read so far
  outcome   \* what the last call of parse came to

vars == <<parser, read, outcome>>

Compositions == {"FREE", "ENCLOSED", "LEXING_HALT"}

\* What the lexer hands to the parser besides words and stretches of text.
Symbols == {"{{", "}}", "{%", "%}", ":", ",", ".", "[", "]", "(", ")", "string", "number", "newline"}
Texts   == {"text", "two bytes"}

ASSUME ContextAssumption ==
  /\ \A t \in DOMAIN TagTypes :
       /\ TagTypes[t].composition \in Compositions
       /\ TagTypes[t].within \subseteq DOMAIN TagTypes
       /\ TagTypes[t].minArguments \in Int
       /\ TagTypes[t].maxArguments \in Int
  /\ DOMAIN TagTypes \cup {"echo"} \subseteq DOMAIN Contextual
  /\ \A w \in Operators \cup UNION {Contextual[c].operators : c \in DOMAIN Contextual} :
       w \in DOMAIN Priority
  /\ \A s \in Settings : s.limit \in Nat

-----------------------------------------------------------------------------
(* Nodes and the stack.                                                    *)

Node(type, sym, kids) == [type |-> type, sym |-> sym, kids |-> kids]

Null                == Node("null", "", <<>>)   \* a child that is still to come
Value(w)            == Node("value", w, <<>>)   \* a node without a type: a variant
Awaiting(type, sym) == Node(type, sym, <<Null>>)

\* No word is a symbol or a stretch of text, nor the empty name of a node.
ASSUME NamesAssumption ==
  (Words \cup DOMAIN TagTypes \cup DOMAIN EndOf) \cap (Symbols \cup Texts \cup {Null.sym}) = {}

Waits(n)     == n.kids # <<>> /\ Last(n.kids) = Null
Give(n, kid) == [n EXCEPT !.kids = Append(@, kid)]
Fill(n, kid) == [n EXCEPT !.kids = Append(Front(@), kid)]

Top(p)         == Last(p.nodes)
Under(p)       == p.nodes[Len(p.nodes) - 1]
SetTop(p, n)   == [p EXCEPT !.nodes = Append(Front(@), n)]
Push(p, n)     == [p EXCEPT !.nodes = Append(@, n)]
Fail(p, error) == [p EXCEPT !.errors = @ \cup {error}, !.ok = FALSE]
Undefined(p)   == Fail(p, "undefined")

\* A call whose result is ignored: its caller goes on whatever it was.
Regardless(p) == [p EXCEPT !.ok = "undefined" \notin p.errors]

Nearest(p, types) ==
  LET i == SelectLastInSeq(p.nodes, LAMBDA n : n.type \in types)
  IN  IF i = 0 THEN Null ELSE p.nodes[i]

HasNode(p, type) == \E i \in DOMAIN p.nodes : p.nodes[i].type = type

PushNode(p, n) ==
  IF Len(p.nodes) > p.limit THEN Fail(p, "PARSE_DEPTH_EXCEEDED") ELSE Push(p, n)

\* Only assign validates its node when it is popped.  It looks for its operator
\* among those of the context, where it is not, and then reads the assignment
\* as if it were a value.
Validates(n) == n.type = "tag" /\ n.sym = "assign"

\* Mutation: a node whose parent keeps no slot for it is dropped.
PopNodeAlways(p) ==
  LET node   == Top(p)
      kept   == IF Waits(node) THEN [node EXCEPT !.kids = Front(@)] ELSE node
      popped == [p EXCEPT !.nodes = Front(@)]
  IN  IF Len(p.nodes) <= 1 THEN [p EXCEPT !.ok = FALSE]
      ELSE IF Validates(node) \/ Top(popped).type = "value" THEN Undefined(popped)
      ELSE IF ~Waits(Top(popped)) THEN popped
      ELSE SetTop(popped, Fill(Top(popped), kept))

\* A node given its last child leaves the stack for the slot its parent keeps.
PopNode(p) ==
  LET node   == Top(p)
      kept   == IF Waits(node) THEN [node EXCEPT !.kids = Front(@)] ELSE node
      popped == [p EXCEPT !.nodes = Front(@)]
  IN  IF Len(p.nodes) <= 1 THEN [p EXCEPT !.ok = FALSE]
      ELSE IF Validates(node) \/ Top(popped).type = "value" THEN Undefined(popped)
      ELSE IF ~Waits(Top(popped)) THEN [popped EXCEPT !.ok = FALSE]
      ELSE SetTop(popped, Fill(Top(popped), kept))

\* The parser after the first k pops for which Stops holds; Stops holds at the
\* latest when there is nothing left to pop.
PopWhile(p, Stops(_)) ==
  LET pops[k \in 0..Len(p.nodes)] == IF k = 0 THEN p ELSE PopNode(pops[k - 1])
  IN  pops[CHOOSE k \in 0..Len(p.nodes) :
             Stops(pops[k]) /\ \A j \in 0..(k - 1) : ~Stops(pops[j])]

PopNodeUntil(p, type) == PopWhile(p, LAMBDA q : ~q.ok \/ Top(q).type = type)

\* nodes.back()->children.push_back(nullptr)
Expect(p) == IF Top(p).type = "value" THEN Undefined(p) ELSE SetTop(p, Give(Top(p), Null))

OpenBlock(p, n) ==
  LET opened == PushNode(p, n)
  IN  IF opened.ok THEN PushNode(opened, Awaiting("arguments", "")) ELSE opened

Ignores(p)   == p.state = "IGNORE_UNTIL_BLOCK_END"
InArguments(p) == p.state \in {"ARGUMENT", "LIQUID_ARGUMENT"}

\* What most handlers start with: arguments are read in arguments only.
Argument(p, handled) ==
  IF Ignores(p) THEN p
  ELSE IF InArguments(p) THEN handled
  ELSE Fail(p, "INVALID_SYMBOL")

-----------------------------------------------------------------------------
(* Symbols inside a tag or an output.                                      *)

\* A second colon among a filter's arguments names the argument before it.  An
\* unknown filter (it has no name) takes anything.  What follows reads the arity
\* of a type that has none.
WildcardQualifier(p) ==
  LET filter   == Nearest(p, {"filter"})
      top      == Top(p)
      isString == Len(top.kids) = 1 /\ top.kids[1].type = "value" /\ top.kids[1].sym # "number"
  IN  IF filter.sym \notin WildcardFilters \cup {Null.sym} THEN Fail(p, "INVALID_QUALIFIER")
      ELSE IF top.type = "value" \/ top.kids = <<Null>> \/ isString THEN Undefined(p)
      ELSE Fail(p, "INVALID_SYMBOL")

Colon(p) ==
  IF Ignores(p) THEN p
  ELSE IF p.filterState = "COLON" THEN [Expect(p) EXCEPT !.filterState = "ARGUMENTS"]
  ELSE IF p.filterState = "ARGUMENTS" THEN WildcardQualifier(p)
  ELSE IF Top(p).type = "qualifier"
       THEN IF Top(p).sym \in UnaryQualifiers THEN Expect(p) ELSE Fail(p, "UNEXPECTED_OPERAND")
  ELSE IF Top(p).type = "variable" /\ Len(Top(p).kids) = 1 THEN p
  ELSE Fail(p, "INVALID_SYMBOL")

Comma(p) ==
  LET inArray == Len(p.nodes) > 2 /\ Under(p).type = "array"
      closed  == IF inArray THEN PopNode(p) ELSE PopNodeUntil(p, "arguments")
  IN  Argument(p, IF closed.ok THEN Expect(closed)
                  ELSE IF inArray THEN closed
                  ELSE Fail(closed, "INVALID_SYMBOL"))

Dot(p) ==
  Argument(p, IF Top(p).type = "variable" THEN Expect(p) ELSE Fail(p, "INVALID_SYMBOL"))

StartVariableDereference(p) ==
  Argument(p,
    IF Top(p).type = "variable" THEN PushNode(Expect(p), Awaiting("deref", ""))
    ELSE IF ~p.arrays THEN Fail(p, "INVALID_SYMBOL")
    ELSE PushNode(p, Awaiting("array", "")))

\* An array stays on the stack, a dereference is popped into its variable.
EndVariableDereference(p) ==
  LET bracket == Nearest(p, {"deref", "array"})
      whole   == IF Top(p) = Awaiting("array", "") THEN SetTop(p, Node("array", "", <<>>)) ELSE p
      closed  == PopNodeUntil(whole, IF bracket.type = "array" THEN "array" ELSE "deref")
  IN  Argument(p,
        IF ~closed.ok THEN Fail(closed, "UNBALANCED_GROUP")
        ELSE IF bracket.type = "array" THEN closed
        ELSE Regardless(PopNode(closed)))

\* string, integer, floating
Operand(p, w) == Argument(p, PushNode(p, Value(w)))

GroupAllowed(p) ==
  p.grouping \/ \E i \in DOMAIN p.nodes : p.nodes[i].type = "tag" /\ p.nodes[i].sym = "assign"

\* A parenthesis that is not allowed is reported and passed over.
Group(p, handled) ==
  IF Ignores(p) THEN p
  ELSE IF ~GroupAllowed(p) THEN [p EXCEPT !.errors = @ \cup {"INVALID_SYMBOL"}]
  ELSE handled

OpenParenthesis(p) ==
  LET inside == IF p.filterState = "ARGUMENTS" THEN "UNSET" ELSE p.filterState
  IN  Group(p, PushNode([p EXCEPT !.filterState = inside], Awaiting("group", "")))

CloseParenthesis(p) ==
  LET closed == PopNodeUntil(p, "group")
      deep   == Len(closed.nodes) > 3
  IN  Group(p,
        IF ~closed.ok THEN Fail(closed, "UNBALANCED_GROUP")
        ELSE IF deep /\ Under(closed).type = "value" THEN Undefined(closed)
        ELSE IF /\ deep
                /\ Under(closed).type = "arguments"
                /\ closed.nodes[Len(closed.nodes) - 2].type = "filter"
             THEN [closed EXCEPT !.filterState = "ARGUMENTS"]
        ELSE closed)

-----------------------------------------------------------------------------
(* Words inside a tag or an output: names, operators, filters, qualifiers. *)

\* The name a variable or a dot waits for.
Name(p, w) ==
  IF w \in DotFilters
  THEN LET operand == [Top(p) EXCEPT !.kids = Front(@)]
       IN  SetTop(p, Node("variable", "", <<Node("dotfilter", w, <<operand>>)>>))
  ELSE SetTop(p, Fill(Top(p), Value(w)))

StartOperand(p, w) ==
  IF w \in DOMAIN PrefixPriority THEN PushNode(p, Awaiting("prefix", w))
  ELSE Push(p, Node("variable", "", <<Value(w)>>))

Bar(p) ==
  LET closed == IF p.filterState \in {"COLON", "ARGUMENTS"} THEN PopNodeUntil(p, "filter") ELSE p
  IN  IF closed.ok /\ p.filterState # "NAME" THEN [closed EXCEPT !.filterState = "NAME"]
      ELSE Fail(closed, "INVALID_SYMBOL")

\* Mutation: an operator of the same priority is not closed.
BindsTighter(p, priority) ==
  LET parent == Under(p)
  IN  \/ parent.type = "operator" /\ Priority[parent.sym] > priority
      \/ parent.type = "prefix" /\ PrefixPriority[parent.sym] > priority

\* The node under the top is an operator that binds its operand at least as
\* tightly; concatenations are operators as well, ones without a priority.
Binds(p, priority) ==
  LET parent == Under(p)
  IN  \/ parent.type = "operator" /\ Priority[parent.sym] >= priority
      \/ parent.type = "prefix" /\ PrefixPriority[parent.sym] >= priority

Unclear(p) == Under(p).type \in {"value", "concat"}

\* The top becomes the first operand of an operator or filter.
Wrap(p, n) == SetTop(p, [n EXCEPT !.kids = @ \o <<Top(p), Null>>])

IsFilter(p, w) ==
  w \in Filters \/ \E i \in DOMAIN p.nodes :
                     p.nodes[i].type \in {"tag", "output"} /\ w \in Contextual[p.nodes[i].sym].filters

FilterName(p, w) ==
  LET unknown  == ~IsFilter(p, w)
      filter   == IF unknown THEN Node("filter", "", <<Value(w)>>) ELSE Node("filter", w, <<>>)
      named    == [p EXCEPT !.filterState = "COLON",
                            !.errors = IF unknown THEN @ \cup {"UNKNOWN_FILTER"} ELSE @]
      operand  == Regardless(PopWhile(named, LAMBDA q : Len(q.nodes) <= 2 \/ ~Binds(q, 0)))
  IN  IF Len(operand.nodes) > 2 /\ Unclear(operand) THEN Undefined(operand)
      ELSE Push(Wrap(operand, filter), Node("arguments", "", <<>>))

\* One operator that binds as tightly is closed before the new one opens.
Infix(p, w) ==
  LET left == IF Binds(p, Priority[w]) THEN Regardless(PopNode(p)) ELSE p
  IN  IF Unclear(p) THEN Undefined(p) ELSE Wrap(left, Node("operator", w, <<>>))

QualifierName(p, w) ==
  LET next == Expect(Regardless(PopNodeUntil(p, "arguments")))
  IN  IF next.ok THEN PushNode(next, Node("qualifier", w, <<>>)) ELSE next

OperatorName(p, w) ==
  LET context   == Nearest(p, {"tag", "output", "concat"})
      qualifies == context.type = "tag" /\ w \in TagTypes[context.sym].qualifiers
      unknown == IF context.type = "tag" THEN "UNKNOWN_OPERATOR_OR_QUALIFIER" ELSE "UNKNOWN_OPERATOR"
  IN  IF w \in Operators THEN Infix(p, w)
      ELSE IF context.type \notin {"tag", "output"} THEN Undefined(p)
      ELSE IF w \in Contextual[context.sym].operators THEN Infix(p, w)
      ELSE IF qualifies THEN QualifierName(p, w)
      ELSE [p EXCEPT !.errors = @ \cup {unknown}, !.state = "IGNORE_UNTIL_BLOCK_END"]

ArgumentWord(p, w) ==
  IF w \in Literals THEN PushNode(p, Node("literal", w, <<>>))
  ELSE IF Top(p).type = "variable" /\ Waits(Top(p)) THEN Name(p, w)
  ELSE IF Waits(Top(p)) THEN StartOperand(p, w)
  ELSE IF w = "|" THEN Bar(p)
  ELSE IF p.filterState = "NAME" THEN FilterName(p, w)
  ELSE OperatorName(p, w)

-----------------------------------------------------------------------------
(* Tag names and text.                                                     *)

Text(p, w) == IF Top(p).type = "value" THEN Undefined(p) ELSE SetTop(p, Give(Top(p), Value(w)))

ContextTags == {t \in DOMAIN TagTypes : TagTypes[t].within = {}}

\* Mutation: an end word ends whatever tag is open.
EndNameOfAny(p, w) ==
  LET closed == PopNodeUntil(p, "tag")
  IN  IF ~closed.ok THEN Fail(closed, "UNKNOWN_TAG")
      ELSE [closed EXCEPT !.state = "ARGUMENT", !.blockType = "END"]

\* Mutation: an end word without a tag stops the parser and is not reported.
EndNameUnreported(p, w) ==
  LET closed == PopNodeUntil(p, "tag")
  IN  IF ~closed.ok THEN closed
      ELSE IF Top(closed).sym # EndOf[w] THEN Fail(closed, "UNKNOWN_TAG")
      ELSE [closed EXCEPT !.state = "ARGUMENT", !.blockType = "END"]

EndName(p, w) ==
  LET tag    == EndOf[w]
      closed == PopNodeUntil(p, "tag")
  IN  IF tag \notin ContextTags \/ TagTypes[tag].composition = "FREE" THEN Fail(p, "UNKNOWN_TAG")
      ELSE IF ~closed.ok \/ Top(closed).sym # tag THEN Fail(closed, "UNKNOWN_TAG")
      ELSE [closed EXCEPT !.state = "ARGUMENT", !.blockType = "END"]

\* A tag of the context, or an intermediate of the innermost open tag.
StartTag(p, w) ==
  LET own          == w \in ContextTags
      intermediate == w \in DOMAIN TagTypes /\ Nearest(p, {"tag"}).sym \in TagTypes[w].within
      closed == IF intermediate THEN [Regardless(PopNode(p)) EXCEPT !.blockType = "INTERMEDIATE"] ELSE p
      opened == [closed EXCEPT !.state = IF @ = "LIQUID_NODE" THEN "LIQUID_ARGUMENT" ELSE "ARGUMENT"]
      halted == IF TagTypes[w].composition = "LEXING_HALT"
                THEN [opened EXCEPT !.lexing = "CONTROL_HALT", !.halt = w] ELSE opened
  IN  IF own \/ intermediate THEN OpenBlock(halted, Awaiting("tag", w)) ELSE Fail(p, "UNKNOWN_TAG")

TagName(p, w) ==
  IF w \in DOMAIN EndOf THEN EndName(p, w)
  ELSE IF w = "liquid" THEN [p EXCEPT !.state = "LIQUID_NODE"]
  ELSE IF w = "echo" /\ p.state = "LIQUID_NODE"
       THEN OpenBlock([p EXCEPT !.state = "LIQUID_ARGUMENT"], Awaiting("output", "echo"))
  ELSE StartTag(p, w)

Literal(p, w) ==
  IF Ignores(p) THEN p
  ELSE IF InArguments(p) THEN ArgumentWord(p, w)
  ELSE IF p.lexing = "CONTROL" THEN TagName(p, w)
  ELSE Text(p, w)

-----------------------------------------------------------------------------
(* The ends of outputs and tags.                                           *)

Concat == Node("concat", "", <<>>)

\* The finished output becomes the next child of the concatenation below.
EndOutputContext(p) ==
  LET closed == PopNodeUntil([p EXCEPT !.filterState = "UNSET"], "output")
      below  == [closed EXCEPT !.nodes = Front(@)]
  IN  IF p.state = "NODE" THEN Fail([p EXCEPT !.filterState = "UNSET"], "UNEXPECTED_END")
      ELSE IF ~closed.ok THEN closed
      ELSE IF below.nodes = <<>> \/ Top(below).type = "value" THEN Undefined(closed)
      ELSE SetTop(below, Give(Top(below), Top(closed)))

\* A tag's arguments are closed and counted.  An enclosed tag stays open for
\* its body; a free one, an intermediate and an ended one go to their parent.
PlaceTag(p) ==
  LET tag   == Top(p)
      type  == TagTypes[tag.sym]
      given == Len(tag.kids[1].kids)
      wrong == \/ type.minArguments # -1 /\ given < type.minArguments
               \/ type.maxArguments # -1 /\ given > type.maxArguments
      counted == [p EXCEPT !.errors = IF wrong THEN @ \cup {"INVALID_ARGUMENTS"} ELSE @]
      below   == [counted EXCEPT !.nodes = Front(@)]
      moved   == SetTop(below, Give(Top(below), tag))
      placed  == IF p.blockType = "NONE" /\ type.composition # "FREE" THEN Push(Expect(counted), Concat)
                 ELSE IF p.blockType = "INTERMEDIATE" THEN Push(Expect(moved), Concat)
                 ELSE moved
  IN  IF \/ tag.kids = <<>> \/ tag.kids[1].type \in {"null", "value"}
         \/ Len(p.nodes) = 1 \/ Under(p).type = "value"
      THEN Undefined(p)
      ELSE [placed EXCEPT !.state = "NODE", !.blockType = "NONE"]

EndTagContext(p) ==
  LET start  == [p EXCEPT !.filterState = "UNSET"]
      ends   == p.blockType = "END"
      listed == IF ends THEN start ELSE PopNodeUntil(start, "arguments")
      pruned == IF ~ends /\ Top(listed).kids = <<Null>>
                THEN SetTop(listed, [Top(listed) EXCEPT !.kids = <<>>]) ELSE listed
      closed == PopNodeUntil(pruned, "tag")
  IN  IF p.state = "NODE" THEN Fail(start, "UNEXPECTED_END")
      ELSE IF ~listed.ok THEN listed
      ELSE IF ~closed.ok THEN closed
      ELSE PlaceTag(closed)

EndOutputBlock(p) ==
  LET ended == EndOutputContext(p)
  IN  IF ended.ok THEN [ended EXCEPT !.state = "NODE", !.lexing = "INITIAL"] ELSE ended

EndControlBlock(p) ==
  LET ended == EndTagContext(p)
      next  == IF p.lexing = "CONTROL_HALT" THEN "HALT" ELSE "INITIAL"
  IN  IF ended.ok THEN [ended EXCEPT !.state = "NODE", !.blockType = "NONE", !.lexing = next]
      ELSE ended

\* In a liquid tag a line ends what was open, whether it could be ended or not.
Newline(p) ==
  LET ended == IF HasNode(p, "output") THEN EndOutputContext(p) ELSE EndTagContext(p)
  IN  IF p.state = "LIQUID_ARGUMENT" THEN [Regardless(ended) EXCEPT !.state = "LIQUID_NODE"]
      ELSE p

\* The lexer finds the end of a raw or comment tag itself, and then hands on
\* the text up to it, an empty one as well, but not one of two bytes.
EndHalt(p, text, w) ==
  LET filled == IF text = "two bytes" THEN p ELSE Literal(p, text)
      named  == Literal([filled EXCEPT !.lexing = "CONTROL"], w)
  IN  IF named.ok THEN EndControlBlock(named) ELSE named

StartOutputBlock(p) ==
  OpenBlock([p EXCEPT !.lexing = "OUTPUT", !.state = "ARGUMENT"], Awaiting("output", "echo"))

-----------------------------------------------------------------------------
(* The lexer calls the handlers; parse and parseArgument start and finish. *)

Fresh(p, nodes, state, blockType, lexing) ==
  [nodes |-> nodes, errors |-> {}, ok |-> TRUE, state |-> state, filterState |-> "UNSET",
   blockType |-> blockType, lexing |-> lexing, start |-> lexing, halt |-> p.halt,
   limit |-> p.limit, grouping |-> p.grouping, arrays |-> p.arrays]

Begin(p) ==
  /\ parser' = p
  /\ read' = <<>>
  /\ outcome' = "reading"

Parse         == outcome # "reading" /\ Begin(Fresh(parser, <<Concat>>, "NODE", "NONE", "INITIAL"))
ParseArgument == outcome # "reading" /\
  Begin(Fresh(parser, <<Awaiting("output", "echo")>>, "ARGUMENT", "INTERMEDIATE", "OUTPUT"))

Reading(states) == outcome = "reading" /\ parser.ok /\ parser.lexing \in states
InBlock         == Reading({"OUTPUT", "CONTROL", "CONTROL_HALT"})

Token(t, p) ==
  /\ IsText(Append(read, t))
  /\ read' = Append(read, t)
  /\ parser' = p
  /\ UNCHANGED outcome

\* Text is lexed as far as it goes.
NewText == read # <<>> => Last(read) \notin Texts

ReadText     == NewText /\ Reading({"INITIAL"}) /\ Token("text", Literal(parser, "text"))
ReadHaltText == NewText /\ Reading({"HALT"}) /\ \E t \in Texts : Token(t, parser)

ReadStartOutput  == Reading({"INITIAL"}) /\ Token("{{", StartOutputBlock(parser))
ReadEndOutput    == Reading({"OUTPUT"}) /\ Token("}}", EndOutputBlock(parser))
ReadStartControl == Reading({"INITIAL"}) /\ Token("{%", [parser EXCEPT !.lexing = "CONTROL"])
ReadEndControl   == Reading({"CONTROL", "CONTROL_HALT"}) /\ Token("%}", EndControlBlock(parser))
ReadEndHalt      == Reading({"HALT"}) /\ \E w \in DOMAIN EndOf :
                      /\ EndOf[w] = parser.halt
                      /\ Token(w, EndHalt(parser, IF Last(read) \in Texts THEN Last(read) ELSE "", w))

ReadWord             == InBlock /\ \E w \in Words : Token(w, Literal(parser, w))
ReadOperand          == InBlock /\ \E w \in {"string", "number"} : Token(w, Operand(parser, w))
ReadColon            == InBlock /\ Token(":", Colon(parser))
ReadComma            == InBlock /\ Token(",", Comma(parser))
ReadDot              == InBlock /\ Token(".", Dot(parser))
ReadOpenBracket      == InBlock /\ Token("[", StartVariableDereference(parser))
ReadCloseBracket     == InBlock /\ Token("]", EndVariableDereference(parser))
ReadOpenParenthesis  == InBlock /\ Token("(", OpenParenthesis(parser))
ReadCloseParenthesis == InBlock /\ Token(")", CloseParenthesis(parser))
ReadNewline          == InBlock /\ Token("newline", Newline(parser))

\* parse: the lexer reports a text that ends inside a block, unless a handler
\* stopped it; a tree is returned when one node is left, whatever went wrong.
ParseOutcome(p) ==
  IF "undefined" \in p.errors THEN "undefined"
  ELSE IF p.ok /\ p.lexing # p.start THEN "exception"
  ELSE IF Len(p.nodes) > 1 THEN "exception"
  ELSE "tree"

FinishParse ==
  /\ outcome = "reading"
  /\ parser.start = "INITIAL"
  /\ outcome' = ParseOutcome(parser)
  /\ UNCHANGED <<parser, read>>

\* parseArgument: the expression is the only child of the bottom node.
FinishArgument ==
  LET closed == PopNodeUntil(parser, "output")
      failed == \/ parser.ok /\ parser.lexing # parser.start
                \/ parser.errors # {}
  IN  /\ outcome = "reading"
      /\ parser.start = "OUTPUT"
      /\ parser' = IF failed THEN parser ELSE closed
      /\ outcome' = IF "undefined" \in parser'.errors THEN "undefined"
                    ELSE IF failed THEN "exception"
                    ELSE IF ~closed.ok THEN "empty"
                    ELSE IF closed.nodes[1].kids[1] = Null THEN "undefined"
                    ELSE "tree"
      /\ UNCHANGED read

Init ==
  /\ \E s \in Settings :
       parser = [nodes |-> <<>>, errors |-> {}, ok |-> TRUE, state |-> "NODE",
                 filterState |-> "UNSET", blockType |-> "NONE", lexing |-> "INITIAL",
                 start |-> "INITIAL", halt |-> "", limit |-> s.limit,
                 grouping |-> s.grouping, arrays |-> s.arrays]
  /\ read = <<>>
  /\ outcome = "none"

Lex == \/ ReadText \/ ReadHaltText \/ ReadStartOutput \/ ReadEndOutput \/ ReadStartControl \/ ReadEndControl
       \/ ReadEndHalt \/ ReadWord \/ ReadOperand \/ ReadColon \/ ReadComma \/ ReadDot
       \/ ReadOpenBracket \/ ReadCloseBracket \/ ReadOpenParenthesis \/ ReadCloseParenthesis
       \/ ReadNewline

Next == Parse \/ ParseArgument \/ Lex \/ FinishParse \/ FinishArgument

Spec == Init /\ [][Next]_vars

-----------------------------------------------------------------------------
Accepted == outcome = "tree" /\ parser.errors = {}

\* Every tag is its name and then its arguments, an end tag its word alone, and
\* none is a liquid tag.
TagsAreNamed(t) ==
  \A i \in 1..(Len(t) - 1) :
    t[i] = "{%" =>
      /\ t[i + 1] \in Words \ {"liquid"}
      /\ t[i + 1] \in DOMAIN EndOf /\ i + 1 < Len(t) => t[i + 2] = "%}"

\* ReadsWhole: parse throws or reports what is wrong with a text; a tree without
\* errors is the tree of the whole text, as no handler stopped the lexer
\* (README.md:127-128; parser.cpp:659-690).
ReadsWhole == Accepted => parser.ok

\* StopsAreReported: so it is when all tags of the text are named.  Whatever the
\* arguments are, a handler that stops the lexer leaves an error behind or a
\* stack that makes the parse throw (parser.cpp:504-623, 659-690).
StopsAreReported == TagsAreNamed(read) => ReadsWhole

\* The tags that a text has opened and not ended, the innermost last.  A tag's
\* name comes after "{%", the end of a raw tag after its text or its "%}"; an
\* end word that ends no open tag stays itself.
Heads       == {"{%", "%}"} \cup Texts
Encloses(w) == w \in ContextTags /\ TagTypes[w].composition # "FREE"

Opened(open, w) ==
  IF w \in DOMAIN EndOf THEN IF open # <<>> /\ Last(open) = EndOf[w] THEN Front(open) ELSE Append(open, w)
  ELSE IF Encloses(w) THEN Append(open, w) ELSE open

Unended(t) ==
  LET open[k \in 0..Len(t)] ==
        IF k = 0 THEN <<>>
        ELSE IF k > 1 /\ t[k - 1] \in Heads THEN Opened(open[k - 1], t[k])
        ELSE open[k - 1]
  IN  open[Len(t)]

\* BlocksMatch: a text of named tags is accepted only if every tag that encloses
\* others was ended, by its own end word, the innermost first, whatever is
\* between and within them (parser.cpp:258-275, 576-614).
BlocksMatch == Accepted /\ parser.start = "INITIAL" /\ TagsAreNamed(read) => Unended(read) = <<>>
=============================================================================
