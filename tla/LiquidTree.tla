----------------------------- MODULE LiquidTree -----------------------------
(***************************************************************************)
(* The tree renderer as a function: what the render functions of the nodes *)
(* (src/context.h, src/context.cpp, src/dialect.cpp, src/renderer.cpp)     *)
(* return for a parse tree and a store.  LiquidRenderer has the same       *)
(* renderer as a state machine with its errors, limits and host callbacks; *)
(* here the values matter, and this is the reference that the compiled     *)
(* program and the optimized tree are compared with.                       *)
(*                                                                         *)
(* A node is a leaf with a value or a branch with a kind, a symbol and     *)
(* children.  The environment of a rendering is the store (a HASH), the    *)
(* internal drops (a stack of the loops' variables) and the control.  The  *)
(* qualifiers of for are left to LiquidRenderer.                           *)
(***************************************************************************)
EXTENDS LiquidFilters

Leaf(v) == [k |-> "leaf", sym |-> "", c |-> <<>>, v |-> v]
Branch(k, sym, c) == [k |-> k, sym |-> sym, c |-> c, v |-> Nil]

IsTag(n, sym) == n.k = "tag" /\ n.sym = sym

Environment(store) == [store |-> store, drops |-> <<>>, control |-> "none"]

(* The literals of the dialect: true, false, nil, null and blank. *)
Literal(sym) == CASE sym \in {"true", "false"} -> Bool(sym = "true")
                  [] sym = "blank" -> Str(<<>>)
                  [] OTHER -> Nil

-----------------------------------------------------------------------------
(* Internal drops: Renderer::getInternalDrop finds the one pushed last under a name. *)

ForLoopName == <<"f", "o", "r", "l", "o", "o", "p">>

Drop(kind, name, v, idx, length) ==
    [kind |-> kind, name |-> name, v |-> v, idx |-> idx, length |-> length]

DropsNamed(e, name) == {k \in 1..Len(e.drops) : e.drops[k].name = name}
InternalDrop(e, name) == e.drops[Max(DropsNamed(e, name))]

(* The properties of forloop (ForNode::render); rindex and rindex0 are as the code has them. *)
LoopProperty(d, property) ==
    CASE property = <<"i", "n", "d", "e", "x", "0">> -> Num(d.idx)
      [] property = <<"i", "n", "d", "e", "x">> -> Num(d.idx + 1)
      [] property = <<"r", "i", "n", "d", "e", "x">> -> Num(d.length - (d.idx + 1))
      [] property = <<"r", "i", "n", "d", "e", "x", "0">> -> Num(d.length - d.idx)
      [] property = <<"f", "i", "r", "s", "t">> -> Bool(d.idx = 0)
      [] property = <<"l", "a", "s", "t">> -> Bool(d.idx = d.length - 1)
      [] property = <<"l", "e", "n", "g", "t", "h">> -> Num(d.length)
      [] OTHER -> Nil

-----------------------------------------------------------------------------
(* Expressions. *)

RECURSIVE Exec(_, _), Walk(_, _, _, _), WalkOn(_, _, _, _)

(* Renderer::retrieveRenderedNode, of an expression: its value; the environment stays as it is. *)
Eval(n, e) == Exec(n, e).v

(***************************************************************************)
(* Renderer::getVariable: follows the links of a variable from a base; a   *)
(* dot filter replaces the base by its own value.                          *)
(***************************************************************************)
Link(base, link, e) ==
    IF link.k = "dotfilter" THEN Just(Inject(Eval(link, e))) ELSE Get(base, Eval(link, e))

Walk(base, links, k, e) ==
    IF k > Len(links) THEN Just(base) ELSE WalkOn(Link(base, links[k], e), links, k, e)

WalkOn(found, links, k, e) == IF found = Nothing THEN Nothing ELSE Walk(found[1], links, k + 1, e)

(* What a walk comes to, as a value of the engine, or something else if it comes to nothing. *)
Parsed(found, other) == IF found = Nothing THEN other ELSE ParseVariant(found[1])

(* A loop's variable: an array's element as it is, a list's element to be walked into. *)
DropValue(d, n, e) ==
    CASE d.kind = "forloop" ->
             IF Len(n.c) = 2 THEN LoopProperty(d, Text(Eval(n.c[2], e))) ELSE Nil
      [] d.kind = "array" -> d.v
      [] d.kind = "list" -> Parsed(Walk(d.v, n.c, 2, e), Undefined)

(* VariableNode::render: an internal drop of that name goes before the store. *)
VariableValue(n, e) ==
    LET name == Text(Eval(n.c[1], e))
    IN  IF DropsNamed(e, name) # {} THEN DropValue(InternalDrop(e, name), n, e)
        ELSE Parsed(Walk(e.store, n.c, 1, e), Nil)

Evaluated(nodes, e) == [k \in 1..Len(nodes) |-> Eval(nodes[k], e)]

(* The literal blank on either side of == or != stands for nil and the empty string. *)
IsBlankLiteral(n) == n.k = "literal" /\ n.sym = "blank"

OperatorValue(n, e) ==
    LET Blank == {k \in 1..Len(n.c) : IsBlankLiteral(n.c[k])}
        other == Eval(n.c[3 - Min(Blank)], e)
    IN  IF n.sym \in {"==", "!="} /\ Blank # {}
        THEN Bool((n.sym = "==") = (other \in {Nil, Str(<<>>)}))
        ELSE ApplyOperator(n.sym, Evaluated(n.c, e))

(***************************************************************************)
(* FirstDotFilterNode::render asks a loop's variable for its first; that   *)
(* of a list is asked with a node that has no children to walk.  The same  *)
(* test in SizeDotFilterNode and LastDotFilterNode never holds.            *)
(***************************************************************************)
DotFilterValue(n, e) ==
    LET name == IF n.c[1].k = "variable" THEN Text(Eval(n.c[1].c[1], e)) ELSE <<>>
        d    == InternalDrop(e, name)
    IN  IF n.sym = "first" /\ n.c[1].k = "variable" /\ Len(n.c[1].c) = 1 /\ DropsNamed(e, name) # {}
        THEN CASE d.kind = "forloop" -> LoopProperty(d, <<"f", "i", "r", "s", "t">>)
               [] d.kind = "array" -> d.v
               [] d.kind = "list" -> Undefined
        ELSE ApplyDotFilter(n.sym, Eval(n.c[1], e))

Expression(n, e) ==
    CASE n.k = "leaf"      -> n.v
      [] n.k = "literal"   -> Literal(n.sym)
      [] n.k \in {"group", "deref"} -> Eval(n.c[1], e)
      [] n.k = "array"     -> Array(Evaluated(n.c, e))
      [] n.k = "variable"  -> VariableValue(n, e)
      [] n.k = "operator" /\ n.sym # "=" -> OperatorValue(n, e)
      [] n.k = "filter"    -> ApplyFilter(n.sym, Eval(n.c[1], e), Evaluated(n.c[2].c, e))
      [] n.k = "dotfilter" -> DotFilterValue(n, e)
      [] IsTag(n, "when")  -> Eval(n.c[1].c[1], e)
      (* NodeType::render of a type that has none of its own: the = of assign, the else of case. *)
      [] IsTag(n, "else") \/ (n.k = "operator" /\ n.sym = "=") -> Nil

-----------------------------------------------------------------------------
(* Tags and text. *)

SetVariable(e, n, v) == [e EXCEPT !.store = SetPath(@, Evaluated(n.c, e), v)]

(* A rendering step: the environment after it and the value it returned. *)
Step(e, v) == [e |-> e, v |-> v]

RECURSIVE ExecAll(_, _, _, _), AllAfter(_, _, _), ExecElse(_, _, _), ExecWhen(_, _, _, _), ExecLoop(_, _)

(***************************************************************************)
(* ConcatenationNode::render: a single child's value as it is, else the    *)
(* text of the children, up to the first that breaks or continues.         *)
(***************************************************************************)
Joined(text, r) == Step(r.e, Str(text \o Text(r.v)))

ExecAll(nodes, k, e, text) ==
    IF k > Len(nodes) THEN Step(e, Str(text)) ELSE AllAfter(nodes, k, Joined(text, Exec(nodes[k], e)))

AllAfter(nodes, k, r) ==
    IF r.e.control # "none" THEN r ELSE ExecAll(nodes, k + 1, r.e, r.v.s)

(***************************************************************************)
(* BranchNode::internalRender after a first condition that does not hold:  *)
(* the elsif conditions are taken as they are, for unless too.             *)
(***************************************************************************)
ExecElse(c, k, e) ==
    IF k >= Len(c) THEN Step(e, Nil)
    ELSE IF c[k].sym = "else" \/ Truthy(Eval(c[k].c[1].c[1], e))
         THEN Exec(c[k + 1], e)
         ELSE ExecElse(c, k + 2, e)

ExecBranch(n, e) ==
    IF Truthy(Eval(n.c[1].c[1], e)) = (n.sym = "if") THEN Exec(n.c[2], e) ELSE ExecElse(n.c, 3, e)

(* CaseNode::render: the first when of the same type and value, or whatever is not a when. *)
ExecWhen(c, k, v, e) ==
    IF k >= Len(c) THEN Step(e, Nil)
    ELSE IF ~IsTag(c[k], "when") \/ Same(Eval(c[k], e), v)
         THEN Exec(c[k + 1], e)
         ELSE ExecWhen(c, k + 2, v, e)

(***************************************************************************)
(* The iterator of ForNode::render: what the loop goes on with after a     *)
(* step of its body.  A break leaves the loop after the iteration is       *)
(* counted; both internal drops are popped.                                *)
(***************************************************************************)
AfterBody(loop, r) ==
    [loop EXCEPT !.e = [r.e EXCEPT !.drops = loop.e.drops, !.control = "none"],
                 !.text = @ \o Text(r.v), !.idx = @ + 1, !.left = (r.e.control = "break")]

InBody(loop) ==
    LET d == Drop(loop.kind, loop.name, loop.over[loop.idx + 1], loop.idx, Len(loop.over))
    IN  [loop.e EXCEPT !.drops = @ \o <<[d EXCEPT !.kind = "forloop", !.name = ForLoopName], d>>]

ExecLoop(body, loop) ==
    IF loop.left \/ loop.idx = Len(loop.over) THEN loop
    ELSE ExecLoop(body, AfterBody(loop, Exec(body, InBody(loop))))

(* The else of a for is rendered when there was nothing to iterate. *)
ForElse(n, e) == IF Len(n.c) >= 4 THEN Exec(n.c[4], e) ELSE Step(e, Nil)

AfterFor(n, loop) ==
    IF loop.idx = 0 /\ Len(n.c) >= 4 THEN ForElse(n, loop.e) ELSE Step(loop.e, Str(loop.text))

ForLoop(name, over, e) ==
    [kind |-> IF over.t = "VAR" THEN "list" ELSE "array", name |-> name, over |-> Elements(over),
     e |-> e, text |-> <<>>, idx |-> 0, left |-> FALSE]

ExecFor(n, name, over, e) ==
    CASE Len(name.c) # 1 -> Step(e, Nil)
      [] ~IsCollection(over) -> ForElse(n, e)
      [] OTHER -> AfterFor(n, ExecLoop(n.c[2], ForLoop(Text(Eval(name.c[1], e)), over, e)))

(* CycleNode::render: the argument of the innermost loop's index. *)
CycleValue(n, e) ==
    LET args == n.c[1].c
    IN  IF DropsNamed(e, ForLoopName) = {} THEN Nil
        ELSE Eval(args[(InternalDrop(e, ForLoopName).idx % Len(args)) + 1], e)

(* CaptureNode::render: the text of the body. *)
Captured(n, r) == Step(SetVariable(r.e, n, Str(Text(r.v))), Nil)

Exec(n, e) ==
    CASE n.k = "concat" ->
             IF Len(n.c) = 1 THEN Exec(n.c[1], e) ELSE ExecAll(n.c, 1, e, <<>>)
      [] n.k = "output" -> Step(e, Str(NodeText(Eval(n.c[1].c[1], e))))
      [] IsTag(n, "assign") ->
             Step(SetVariable(e, n.c[1].c[1].c[1], Inject(Eval(n.c[1].c[1].c[2], e))), Nil)
      [] IsTag(n, "capture") ->
             Captured(n.c[1].c[1], Exec(n.c[2], e))
      [] IsTag(n, "if") \/ IsTag(n, "unless") -> ExecBranch(n, e)
      [] IsTag(n, "case") -> ExecWhen(n.c, 3, Eval(n.c[1].c[1], e), e)
      [] IsTag(n, "for")  -> ExecFor(n, n.c[1].c[1].c[1], Eval(n.c[1].c[1].c[2], e), e)
      [] IsTag(n, "cycle") -> Step(e, CycleValue(n, e))
      [] IsTag(n, "break") \/ IsTag(n, "continue") -> Step([e EXCEPT !.control = n.sym], Nil)
      [] IsTag(n, "raw")  -> Exec(n.c[2], e)
      [] IsTag(n, "comment") -> Step(e, Nil)
      (* increment and decrement set a member of the number itself, which refuses. *)
      [] IsTag(n, "increment") \/ IsTag(n, "decrement") -> Step(e, Nil)
      [] OTHER -> Step(e, Expression(n, e))

(* Renderer::render: the text of what the tree returns. *)
RenderTree(n, store) == Exec(n, Environment(store))
Rendered(n, store)   == Text(RenderTree(n, store).v)
StoreAfter(n, store) == RenderTree(n, store).e.store
=============================================================================
