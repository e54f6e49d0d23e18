-------------------------- MODULE LiquidOptimizer ---------------------------
(***************************************************************************)
(* The optimizer (src/optimizer.cpp and the optimize functions of          *)
(* src/context.cpp and src/dialect.cpp) as a function from a parse tree    *)
(* and the store to a tree with what is known of the store rendered into   *)
(* it.  Rendering a part may write to the store and leave a break pending, *)
(* so the environment goes through it as through a rendering; there are no *)
(* internal drops, whatever loops are around the part.                     *)
(***************************************************************************)
EXTENDS LiquidTree

IsLeaf(n) == n.k = "leaf"

(* LIQUID_OPTIMIZATION_SCHEME of a node's type, as its constructor sets it. *)
Scheme(n) ==
    CASE n.k = "operator" /\ n.sym = "in" -> "SHIELD"
      [] n.k = "arguments"
         \/ (n.k = "literal" /\ n.sym = "blank")
         \/ (n.k = "tag" /\ n.sym \in {"assign", "capture", "increment", "decrement",
                                       "cycle", "break", "continue"}) -> "NONE"
      [] n.k = "concat" \/ (n.k = "operator" /\ n.sym \in {"and", "or"})
         \/ (n.k = "tag" /\ n.sym \in {"if", "unless", "case", "raw", "comment"}) -> "PARTIAL"
      [] OTHER -> "FULL"

(* Optimizer::optimize asks arguments for their children, and other nodes for their type. *)
NonRendered(child) ==
    IF child.k = "arguments" THEN \E k \in 1..Len(child.c) : ~IsLeaf(child.c[k]) ELSE ~IsLeaf(child)

Result(n, e) == [n |-> n, e |-> e]

(* NodeType::optimize: the node's value takes its place. *)
Rendering(r) == Result(Leaf(r.v), r.e)

ByRendering(n, e) == Rendering(Exec(n, e))

(* VariableNode::optimize: what the store has under that name now, if it has anything. *)
Known(n, found) == IF found = Nothing THEN n ELSE Leaf(ParseVariant(found[1]))

KnownVariable(n, e) == Known(n, Walk(e.store, n.c, 1, e))

(* A mutant: the text after the last child that is not text is dropped. *)
JoinedTextsButTheLast(n) ==
    LET text == FoldLeft(LAMBDA acc, child :
                    IF IsLeaf(child) THEN [acc EXCEPT !.s = @ \o Text(child.v)]
                    ELSE [c |-> acc.c \o (IF acc.s = <<>> THEN <<>> ELSE <<Leaf(Str(acc.s))>>) \o <<child>>,
                          s |-> <<>>],
                    [c |-> <<>>, s |-> <<>>], n.c)
    IN  IF text.c = <<>> THEN Leaf(Str(text.s)) ELSE [n EXCEPT !.c = text.c]

(***************************************************************************)
(* ConcatenationNode::optimize: texts side by side become one; the last is *)
(* added even when it is empty, unless nothing but text is left.           *)
(***************************************************************************)
JoinedTexts(n) ==
    LET text == FoldLeft(LAMBDA acc, child :
                    IF IsLeaf(child) THEN [acc EXCEPT !.s = @ \o Text(child.v)]
                    ELSE [c |-> acc.c \o (IF acc.s = <<>> THEN <<>> ELSE <<Leaf(Str(acc.s))>>) \o <<child>>,
                          s |-> <<>>],
                    [c |-> <<>>, s |-> <<>>], n.c)
    IN  IF text.c = <<>> THEN Leaf(Str(text.s)) ELSE [n EXCEPT !.c = Append(text.c, Leaf(Str(text.s)))]

(* AndOperatorNode, OrOperatorNode: false and true decide, from either side. *)
KnownTruth(n, b) == \E k \in 1..2 : IsLeaf(n.c[k]) /\ Truthy(n.c[k].v) = b
KnownTruths(n, b) == \A k \in 1..2 : IsLeaf(n.c[k]) /\ Truthy(n.c[k].v) = b

Decided(n) ==
    LET decisive == (n.sym = "or")
    IN  CASE KnownTruth(n, decisive) -> Leaf(Bool(decisive))
          [] KnownTruths(n, ~decisive) -> Leaf(Bool(~decisive))
          [] OTHER -> n

(***************************************************************************)
(* BranchNode::internalOptimize, once the first condition is known.  If it *)
(* does not hold, the elsifs up to the else are pruned: a condition known  *)
(* (inverted for unless) puts its body in the node's place, one not known  *)
(* moves forward, the first into the place of the if.  An else behind one  *)
(* that moved is cut off.                                                  *)
(***************************************************************************)
Condition(n, k) == IF k = 1 THEN n.c[1].c[1] ELSE n.c[k].c[1].c[1]
Holds(n, k) == Truthy(Condition(n, k).v) = (n.sym = "if")

Elsifs(n) ==
    LET elses == {k \in 3..Len(n.c) : k % 2 = 1 /\ IsTag(n.c[k], "else")}
    IN  {k \in 3..Len(n.c) : k % 2 = 1 /\ \A j \in elses : k < j}

Pruned(n) ==
    LET known   == {k \in Elsifs(n) : IsLeaf(Condition(n, k)) /\ Holds(n, k)}
        unknown == SetToSortSeq({k \in Elsifs(n) : ~IsLeaf(Condition(n, k))}, <)
        kept    == FoldLeft(LAMBDA acc, k :
                       acc \o <<IF acc = <<>> THEN n.c[k].c[1] ELSE n.c[k], n.c[k + 1]>>, <<>>, unknown)
    IN  CASE known # {} -> n.c[Min(known) + 1]
          [] known = {} /\ unknown # <<>> -> [n EXCEPT !.c = kept]
          [] OTHER -> IF IsTag(n.c[Len(n.c) - 1], "else") THEN Last(n.c) ELSE Leaf(Nil)

OptimizedBranch(n) ==
    CASE ~IsLeaf(Condition(n, 1)) -> n
      [] IsLeaf(Condition(n, 1)) /\ Holds(n, 1) -> n.c[2]
      [] OTHER -> Pruned(n)

(* optimize of the node's type; that of elsif leaves the node alone. *)
OptimizedNode(n, e) ==
    CASE n.k = "concat"   -> Result(JoinedTexts(n), e)
      [] n.k = "variable" -> Result(KnownVariable(n, e), e)
      [] n.k = "operator" /\ n.sym \in {"and", "or"} -> Result(Decided(n), e)
      [] n.k = "tag" /\ n.sym \in {"if", "unless"} -> Result(OptimizedBranch(n), e)
      [] IsTag(n, "elsif") -> Result(n, e)
      [] OTHER -> ByRendering(n, e)

(***************************************************************************)
(* Optimizer::optimize: children first, in order; then the node, as its    *)
(* scheme allows.  The else of a case is rendered; those of a branch and   *)
(* of a loop stay.                                                         *)
(***************************************************************************)
RECURSIVE Optimize(_, _, _)
Optimize(n, e, parent) ==
    IF IsLeaf(n) \/ Scheme(n) = "SHIELD" \/ (IsTag(n, "else") /\ parent # "case") THEN Result(n, e)
    ELSE LET below  == FoldLeft(LAMBDA acc, child :
                           LET r == Optimize(child, acc.e, n.sym) IN [c |-> Append(acc.c, r.n), e |-> r.e],
                           [c |-> <<>>, e |-> e], n.c)
             m      == [n EXCEPT !.c = below.c]
             rest   == \E k \in 1..Len(m.c) : NonRendered(m.c[k])
         IN  IF Scheme(m) = "PARTIAL" \/ (Scheme(m) = "FULL" /\ ~rest)
             THEN OptimizedNode(m, below.e) ELSE Result(m, below.e)

(* Optimizer::optimize of a template: its tree after it, and the host's store. *)
OptimizeTree(n, store) == Optimize(n, Environment(store), "")
=============================================================================
