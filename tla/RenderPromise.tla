---------------------------- MODULE RenderPromise ----------------------------
(***************************************************************************)
(* What rendering a template promises its host, without a stack, drops,    *)
(* pending controls or depth counter: a denotational semantics of the      *)
(* control-flow tags, and a two-step state machine (ask, be answered).     *)
(* LiquidRenderer is checked to implement it.                              *)
(*                                                                         *)
(* A loop's variables are lexically scoped; break and continue leave the   *)
(* innermost enclosing loop; the store is threaded through in order.       *)
(***************************************************************************)
EXTENDS Integers, Sequences, FiniteSetsExt

CONSTANTS Node, NoNode, Kind, Child, Var, HasElse, Dotted, Name, Templates, Windows,
          MaxDepth, MaxFetch

VARIABLES
  job,    \* the template being rendered, or NoNode
  store,  \* the host's variables
  reply   \* the answer, until the next question

vars == <<job, store, reply>>

One(n, i) == <<[src |-> n, pos |-> i]>>

-----------------------------------------------------------------------------
(* The elements of a sequence a loop visits, with the index each has.      *)

\* Elements offset .. offset + limit - 1 of those there are; a negative limit
\* counts from the end of the whole sequence.
VisitSet(w) ==
  LET from  == Max({w.offset, 0})
      count == IF ~w.limited THEN w.size
               ELSE IF w.limit < 0 THEN Max({w.size + w.limit, 0}) ELSE w.limit
  IN {i \in 0 .. w.size - 1 : from <= i /\ i < from + count}

Visits(w) ==
  LET all == VisitSet(w)
      n   == Cardinality(all)
  IN [k \in 1 .. n |->
        [pos |-> IF w.reversed THEN Max(all) - (k - 1) ELSE Min(all) + (k - 1),
         idx |-> Max({w.offset, 0}) + (k - 1)]]

-----------------------------------------------------------------------------
(* Outcomes of a node: its text, the break or continue it ends in, and the *)
(* store it leaves.                                                        *)

Outcome(text, ctl, st) == [text |-> text, ctl |-> ctl, store |-> st]
Plain(text, st) == {Outcome(text, "none", st)}

\* The bindings in force: loop variables, and the index of the innermost loop.
NoScope == [elem |-> <<>>, loop |-> <<>>]
Bind(scope, v, elem, idx) ==
  [elem |-> [k \in DOMAIN scope.elem \cup {v} |-> IF k = v THEN elem ELSE scope.elem[k]],
   loop |-> <<idx>>]

Lookup(n, scope, st) ==
  IF Var[n] = "forloop" /\ scope.loop # <<>> THEN One(n, scope.loop[1])
  ELSE IF Var[n] \in DOMAIN scope.elem THEN scope.elem[Var[n]]
  ELSE st[Var[n]]

RECURSIVE Outcomes(_, _, _), InOrder(_, _, _), Iterations(_, _, _, _)

\* The children one after the other, up to one that ends in a control.
InOrder(children, scope, st) ==
  IF children = <<>> THEN Plain(<<>>, st)
  ELSE UNION {IF o.ctl # "none" THEN {o}
              ELSE {Outcome(o.text \o rest.text, rest.ctl, rest.store) :
                      rest \in InOrder(Tail(children), scope, o.store)}
              : o \in Outcomes(Head(children), scope, st)}

\* One iteration per visit, up to one that ends in a break.
Iterations(n, visits, scope, st) ==
  IF visits = <<>> THEN Plain(<<>>, st)
  ELSE LET inner == Bind(scope, Var[n], One(n, Head(visits).pos), Head(visits).idx)
       IN UNION {IF o.ctl = "break" THEN {Outcome(o.text, "none", o.store)}
                 ELSE {Outcome(o.text \o rest.text, "none", rest.store) :
                         rest \in Iterations(n, Tail(visits), scope, o.store)}
                 : o \in Outcomes(Child[n][1], inner, st)}

Otherwise(n, scope, st) ==
  IF Len(Child[n]) > 1 THEN Outcomes(Child[n][2], scope, st) ELSE Plain(<<>>, st)

Outcomes(n, scope, st) ==
  CASE Kind[n] = "text" -> Plain(One(n, 0), st)
    [] Kind[n] = "read" -> Plain(Lookup(n, scope, st), st)
    [] Kind[n] = "assign" -> Plain(<<>>, [st EXCEPT ![Var[n]] = One(n, 0)])
    [] Kind[n] \in {"break", "continue"} -> {Outcome(<<>>, Kind[n], st)}
    [] Kind[n] = "cycle" ->
         IF scope.loop = <<>> THEN Plain(<<>>, st)
         ELSE Outcomes(Child[n][(scope.loop[1] % Len(Child[n])) + 1], scope, st)
    [] Kind[n] = "concat" -> InOrder(Child[n], scope, st)
    [] Kind[n] = "branch" ->
         UNION {Outcomes(Child[n][i], scope, st) : i \in DOMAIN Child[n]}
           \cup (IF n \in HasElse THEN {} ELSE Plain(<<>>, st))
    [] Kind[n] = "capture" ->
         {Outcome(<<>>, o.ctl, [o.store EXCEPT ![Var[n]] = o.text])
            : o \in Outcomes(Child[n][1], scope, st)}
    [] Kind[n] = "user" ->
         Plain(One(n, 0), st) \cup
         (IF MaxFetch = 0 \/ Child[n] = <<>> THEN {}
          ELSE {Outcome(o.text \o One(n, 1), o.ctl, o.store)
                  : o \in Outcomes(Child[n][1], scope, st)})
    [] Kind[n] = "for" /\ n \in Dotted -> Plain(<<>>, st)
    [] Kind[n] = "for" /\ n \notin Dotted ->
         Otherwise(n, scope, st) \cup
         UNION {IF Visits(w) # <<>> THEN Iterations(n, Visits(w), scope, st)
                ELSE IF w.offset > 0 THEN Plain(<<>>, st)
                ELSE Otherwise(n, scope, st)
                : w \in Windows}

\* The concatenations a template nests, those with one child not counted.
RECURSIVE Nesting(_)
Nesting(n) ==
  LET inner == Max({0} \cup {Nesting(Child[n][i]) : i \in DOMAIN Child[n]})
  IN IF Kind[n] # "concat" THEN inner
     ELSE IF Len(Child[n]) = 1 THEN Max({1, inner}) ELSE 1 + inner

-----------------------------------------------------------------------------
NoReply == [outcome |-> "none", node |-> NoNode, text |-> <<>>]

Init ==
  /\ job = NoNode
  /\ store = [k \in Name |-> <<>>]
  /\ reply = NoReply

Ask(t) ==
  /\ job = NoNode
  /\ job' = t
  /\ reply' = NoReply
  /\ UNCHANGED store

\* The answer is a text the template can give, and the store is the one it
\* leaves.
Answer ==
  /\ job # NoNode
  /\ job' = NoNode
  /\ \E o \in Outcomes(job, NoScope, store) :
       /\ reply' = [outcome |-> "rendered", node |-> job, text |-> o.text]
       /\ store' = o.store

\* Only a template that nests too deep may fail, and it is never passed off as
\* rendered; what it has already done to the store stays done.
Fail ==
  /\ job # NoNode
  /\ Nesting(job) > MaxDepth
  /\ job' = NoNode
  /\ reply'.outcome \in {"reported", "threw", "escaped"}
  /\ reply'.node = job

Next == (\E t \in Templates : Ask(t)) \/ Answer \/ Fail

Spec == Init /\ [][Next]_vars
=============================================================================
