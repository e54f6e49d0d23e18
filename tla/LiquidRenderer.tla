---------------------------- MODULE LiquidRenderer ----------------------------
(***************************************************************************)
(* The tree-walking renderer of liquid-cpp: Renderer (renderer.cpp), the   *)
(* concatenation node (context.cpp) and the control-flow tags of the       *)
(* standard dialect (dialect.cpp), driven by a host that calls render and  *)
(* renderArgument and that may register tags of its own (interface.cpp).   *)
(*                                                                         *)
(* The C++ recursion retrieveRenderedNode -> NodeType::render is unrolled  *)
(* into steps: stack holds one frame per render call that still has work   *)
(* to do after its callee returns, task says what happens next.  A call in *)
(* tail position (a branch rendering its body) needs no frame.             *)
(*                                                                         *)
(* Data is abstracted: a text is a sequence of items that say which node   *)
(* produced them, a condition may go either way each time it is evaluated, *)
(* and a loop may find any window of Windows (or no sequence at all).      *)
(***************************************************************************)
EXTENDS Integers, Sequences, FiniteSets

CONSTANTS
  Node,          \* the nodes of every template's AST
  NoNode,        \* not a node
  Kind,          \* Kind[n]: what n is, one of Kinds
  Child,         \* Child[n]: the nodes n renders, in the order of the AST
  Var,           \* Var[n]: the variable n reads, sets or binds
  HasElse,       \* the branch nodes that end in an else
  Dotted,        \* the for tags whose loop variable has several parts
  Name,          \* variable names, "forloop" among them
  Templates,     \* the roots of the templates the host holds
  Windows,       \* the sequences, offsets and limits a for tag may meet
  MaxDepth,      \* Renderer::maximumRenderingDepth
  DepthModulus,  \* 2^32: currentRenderingDepth is an unsigned int
  Apis,          \* the render calls the host uses
  HostCalls,     \* what a host's tag calls on the renderer that called it
  MaxFetch,      \* bound: calls one host tag makes on the renderer
  MaxStack       \* bound: frames and loop contexts alive when a host tag renders

Kinds == {"text", "read", "assign", "capture", "concat", "branch", "for",
          "cycle", "break", "continue", "user"}

Window == [path: {"variant", "resolver"}, size: Int, offset: Int, limit: Int,
           limited: BOOLEAN, reversed: BOOLEAN]

ASSUME AstAssumption ==
  /\ NoNode \notin Node
  /\ Kind \in [Node -> Kinds]
  /\ Child \in [Node -> Seq(Node)]
  /\ Var \in [Node -> Name]
  /\ HasElse \subseteq Node
  /\ Dotted \subseteq Node
  /\ Templates \subseteq Node
  /\ "forloop" \in Name
  /\ \A n \in Node : Kind[n] \in {"capture", "for", "cycle"} => Len(Child[n]) > 0

ASSUME BoundsAssumption ==
  /\ Windows \subseteq Window
  /\ MaxDepth \in Nat \ {0}
  /\ DepthModulus \in Nat
  /\ MaxDepth + 1 < DepthModulus
  /\ Apis \subseteq {"callback", "string", "c"}
  /\ HostCalls \subseteq {"render", "argument"}
  /\ MaxFetch \in Nat
  /\ MaxStack \in Nat

VARIABLES
  task,            \* what the call chain does next
  stack,           \* the render calls waiting for their callee
  control,         \* Renderer::control: a break or continue looking for its loop
  error,           \* Renderer::error
  depth,           \* Renderer::currentRenderingDepth
  drops,           \* Renderer::internalDrops: per name, the live loop contexts
  internalRender,  \* Renderer::internalRender
  store,           \* the variables of the template, as the host's store holds them
  reply            \* what a top-level render gave the host, until the next one

engine == <<control, error, depth, drops, internalRender>>
vars == <<task, stack, engine, store, reply>>

Item == [src: Node, pos: Int]
Text == Seq(Item)
One(n, i) == <<[src |-> n, pos |-> i]>>

NoWindow == [path |-> "variant", size |-> 0, offset |-> 0, limit |-> 0,
             limited |-> FALSE, reversed |-> FALSE]

\* kind: which render call; pos: the child, the array element or the number of
\* calls made so far; idx: ForLoopContext::idx; text: what it collected.
Frame == [kind: {"outer", "inner", "concat", "single", "for", "capture", "user"},
          node: Node, pos: Int, idx: Int, win: Windows \cup {NoWindow}, text: Text]
NewFrame(kind, n) ==
  [kind |-> kind, node |-> n, pos |-> 0, idx |-> 0, win |-> NoWindow, text |-> <<>>]

\* An entry of internalDrops: the ForLoopContext it points to, which lives in
\* a frame of the stack, and which of the two drop functions it carries.
Drop == [frame: Nat \ {0}, fn: {"forloop", "element"}]

NoReply == [outcome |-> "none", node |-> NoNode, text |-> <<>>]

Idle     == [op |-> "idle", node |-> NoNode, text |-> <<>>]
InHost   == [op |-> "host", node |-> NoNode, text |-> <<>>]
Enter(n) == [op |-> "enter", node |-> n, text |-> <<>>]
Leave(v) == [op |-> "leave", node |-> NoNode, text |-> v]

Top           == stack[Len(stack)]
Push(f)       == Append(stack, f)
Popped        == SubSeq(stack, 1, Len(stack) - 1)
ReplaceTop(f) == [stack EXCEPT ![Len(stack)] = f]

Entering(kind) == task.op = "enter" /\ Kind[task.node] = kind
Leaving(kind)  == task.op = "leave" /\ stack # <<>> /\ Top.kind = kind

\* ++ and -- on an unsigned int.
Inc(d) == IF d = DepthModulus - 1 THEN 0 ELSE d + 1
DecNever(d) == d        \* mutation: a way out that forgets to count down
DecSigned(d) == d - 1   \* mutation: the counter as a signed int
Dec(d) == IF d = 0 THEN DepthModulus - 1 ELSE d - 1

-----------------------------------------------------------------------------
(* Loop windows: the elements a for tag visits.                            *)

Smaller(a, b) == IF a < b THEN a ELSE b
Larger(a, b)  == IF a < b THEN b ELSE a

LoopStart(w) == Larger(w.offset, 0)
LoopLimit(w) == IF ~w.limited THEN w.size
                ELSE IF w.limit < 0 THEN Larger(w.limit + w.size, 0) ELSE w.limit

\* Mutation: the end of the window, without a look at the size.
LoopEndUncut(w) == IF w.size < 0 THEN LoopStart(w) - 1 ELSE LoopStart(w) + LoopLimit(w) - 1

\* The last index of the window: computed by the tag for an array it built
\* itself, by CPPVariable::iterate (which knows the array as a variable, and
\* gives up on what is not an array, size -1) for one in the store.  The second
\* cuts the window at the size, which is one past the last element.
LoopEnd(w) ==
  IF w.path = "variant" THEN Smaller(LoopLimit(w) + LoopStart(w) - 1, w.size - 1)
  ELSE IF w.size < 0 THEN LoopStart(w) - 1
  ELSE Smaller(LoopStart(w) + LoopLimit(w) - 1, w.size)

\* The windows that have the element one past the last: of an array in the store
\* with an offset but no limit, say.
ReachesPastEnd(w) ==
  w.path = "resolver" /\ w.size >= 0 /\ LoopStart(w) + LoopLimit(w) > w.size

IsEmptyLoop(w) == LoopEnd(w) < LoopStart(w)
\* Mutation: a reversed loop that starts one too early.
FirstElementSkipped(w) == IF w.reversed THEN LoopEnd(w) - 1 ELSE LoopStart(w)
FirstElement(w) == IF w.reversed THEN LoopEnd(w) ELSE LoopStart(w)
LastElement(w)  == IF w.reversed THEN LoopStart(w) ELSE LoopEnd(w)
NextElement(w, i) == IF w.reversed THEN i - 1 ELSE i + 1

-----------------------------------------------------------------------------
(* Internal drops: how a name is resolved while loops are running.         *)

\* Mutation: an assignment inside the loop hides the loop's variable.
ResolutionsStoreFirst(n) ==
  LET found == drops[Var[n]]
      f     == stack[found[Len(found)].frame]
  IN IF store[Var[n]] # <<>> \/ found = <<>> THEN {store[Var[n]]}
     ELSE {IF Var[n] = "forloop" THEN One(n, f.idx) ELSE One(f.node, f.pos)}

\* VariableNode finds a name in the drops before it looks in the store.  A drop
\* whose frame is gone is a dangling pointer, and what lies past the end of an
\* array is none of its elements: the value of either is anything.
Resolutions(n) ==
  LET found == drops[Var[n]]
      drop  == found[Len(found)]
      f     == stack[drop.frame]
  IN IF found = <<>> THEN {store[Var[n]]}
     ELSE IF drop.frame \notin DOMAIN stack THEN {<<>>, One(n, 0)}
     ELSE IF drop.fn = "forloop" THEN {One(n, f.idx)}
     ELSE IF f.pos < f.win.size THEN {One(f.node, f.pos)}
     ELSE {<<>>, One(n, 0)}

\* The for tag pushes "forloop", then its variable; the frame is the one it
\* is about to push.
PushDrops(n) ==
  LET entry(fn) == [frame |-> Len(stack) + 1, fn |-> fn]
  IN [k \in Name |->
        LET outer == IF k = "forloop" THEN Append(drops[k], entry("forloop")) ELSE drops[k]
        IN IF k = Var[n] THEN Append(outer, entry("element")) ELSE outer]

AllButLast(s) == SubSeq(s, 1, Len(s) - 1)

\* Mutation: the pop of "forloop" is forgotten.
PopVariableOnly(n) == [drops EXCEPT ![Var[n]] = AllButLast(@)]

\* ... and pops both, by name.
PopDrops(n) ==
  [k \in Name |->
     LET rest == IF k = "forloop" THEN AllButLast(drops[k]) ELSE drops[k]
     IN IF k = Var[n] THEN AllButLast(rest) ELSE rest]

-----------------------------------------------------------------------------
Init ==
  /\ task = Idle
  /\ stack = <<>>
  /\ control = "none"
  /\ error = "none"
  /\ depth = 0
  /\ drops = [k \in Name |-> <<>>]
  /\ internalRender = FALSE
  /\ store = [k \in Name |-> <<>>]
  /\ reply = NoReply

(* The host calls the renderer.                                            *)

StartAfresh(t, callers) ==
  /\ stack' = Append(callers, NewFrame("outer", t))
  /\ error' = "none"
  /\ depth' = 0
  /\ internalRender' = TRUE

\* Renderer::render: a call made while another is running keeps that call's
\* state, any other starts afresh (control and internalDrops excepted).
BeginRender(t, callers) ==
  /\ task' = Enter(t)
  /\ IF internalRender
     THEN /\ stack' = Append(callers, NewFrame("inner", t))
          /\ UNCHANGED <<error, depth, internalRender>>
     ELSE StartAfresh(t, callers)
  /\ UNCHANGED <<control, drops, store>>

RenderTemplate(t) == task.op = "idle" /\ BeginRender(t, stack) /\ reply' = NoReply

\* Renderer::renderArgument: an expression holds no concatenation, so it
\* raises no error and takes one step.
RenderArgument ==
  /\ task.op = "idle" \/ (task.op = "host" /\ "argument" \in HostCalls)
  /\ error' = "none"
  /\ depth' = 0
  /\ internalRender' = FALSE
  /\ UNCHANGED <<task, stack, control, drops, store, reply>>

StillRenderingSet == internalRender  \* mutation: the flag is never reset
StillRendering == internalRender /\ Top.kind = "inner"

\* The root's text comes back: the callback gets it, with the error if any.  A
\* render inside a host's tag gives it to that tag.
EndRender ==
  /\ Leaving("outer") \/ Leaving("inner")
  /\ error = "none" \/ "callback" \in Apis
  /\ internalRender' = StillRendering
  /\ IF Len(stack) = 1
     THEN /\ task' = Idle
          /\ stack' = <<>>
          /\ reply' = [outcome |-> IF error = "none" THEN "rendered" ELSE "reported",
                       node |-> Top.node, text |-> task.text]
     ELSE /\ task' = InHost
          /\ stack' = [Popped EXCEPT ![Len(stack) - 1].text = @ \o task.text]
          /\ UNCHANGED reply
  /\ UNCHANGED <<control, error, depth, drops, store>>

\* The overload that returns a string throws Renderer::Error instead; so does
\* liquidRendererRenderTemplate, whose handler is for Renderer::Exception.
\* Every call on the stack is unwound, none of them restores anything.
Raise(api) ==
  /\ Leaving("outer") \/ Leaving("inner")
  /\ error # "none"
  /\ api \in Apis \ {"callback"}
  /\ internalRender' = StillRendering
  /\ task' = Idle
  /\ stack' = <<>>
  /\ reply' = [outcome |-> IF api = "c" THEN "escaped" ELSE "threw",
               node |-> stack[1].node, text |-> <<>>]
  /\ UNCHANGED <<control, error, depth, drops, store>>

-----------------------------------------------------------------------------
(* Leaves: nodes that return without rendering another.                    *)

\* Text, and a tag or expression that has no effect the model keeps.
RenderText ==
  /\ Entering("text")
  /\ task' = Leave(One(task.node, 0))
  /\ UNCHANGED <<stack, engine, store, reply>>

\* {{ name }} and {{ forloop.index0 }}.
RenderRead ==
  /\ Entering("read")
  /\ \E v \in Resolutions(task.node) : task' = Leave(v)
  /\ UNCHANGED <<stack, engine, store, reply>>

\* {% assign name = ... %} writes the store, never a drop.
RenderAssign ==
  /\ Entering("assign")
  /\ store' = [store EXCEPT ![Var[task.node]] = One(task.node, 0)]
  /\ task' = Leave(<<>>)
  /\ UNCHANGED <<stack, engine, reply>>

RenderBreak ==
  /\ Entering("break") \/ Entering("continue")
  /\ control' = Kind[task.node]
  /\ task' = Leave(<<>>)
  /\ UNCHANGED <<stack, error, depth, drops, internalRender, store, reply>>

\* {% cycle %} picks the argument by the index of the innermost loop; outside
\* loops it gives nothing.
RenderCycle ==
  /\ Entering("cycle")
  /\ LET found == drops["forloop"]
         args  == Child[task.node]
         f     == found[Len(found)].frame
     IN \/ found = <<>> /\ task' = Leave(<<>>)
        \/ /\ found # <<>> /\ f \in DOMAIN stack
           /\ task' = Enter(args[(stack[f].idx % Len(args)) + 1])
        \/ /\ found # <<>> /\ f \notin DOMAIN stack
           /\ \E i \in DOMAIN args : task' = Enter(args[i])
  /\ UNCHANGED <<stack, engine, store, reply>>

-----------------------------------------------------------------------------
(* if, unless and case: the first clause that holds, or the else.          *)

RenderBranch ==
  /\ Entering("branch")
  /\ \/ \E i \in DOMAIN Child[task.node] : task' = Enter(Child[task.node][i])
     \/ task.node \notin HasElse /\ task' = Leave(<<>>)
  /\ UNCHANGED <<stack, engine, store, reply>>

-----------------------------------------------------------------------------
(* ConcatenationNode::render.                                              *)

\* Mutation: the error is noted, the call goes on.
ExceedDepthGoesOn ==
  /\ Entering("concat")
  /\ Inc(depth) > MaxDepth
  /\ error' = "depth"
  /\ UNCHANGED <<task, stack, control, depth, drops, internalRender, store, reply>>

ExceedDepth ==
  /\ Entering("concat")
  /\ Inc(depth) > MaxDepth
  /\ error' = "depth"
  /\ task' = Leave(<<>>)
  /\ UNCHANGED <<stack, control, depth, drops, internalRender, store, reply>>

\* One child: the depth is given back before the child renders.
EnterSingle ==
  /\ Entering("concat")
  /\ Inc(depth) <= MaxDepth
  /\ Len(Child[task.node]) = 1
  /\ stack' = Push(NewFrame("single", task.node))
  /\ task' = Enter(Child[task.node][1])
  /\ UNCHANGED <<engine, store, reply>>

LeaveSingle ==
  /\ Leaving("single")
  /\ stack' = Popped
  /\ UNCHANGED <<task, engine, store, reply>>

EnterEmpty ==
  /\ Entering("concat")
  /\ Inc(depth) <= MaxDepth
  /\ Len(Child[task.node]) = 0
  /\ task' = Leave(<<>>)
  /\ UNCHANGED <<stack, engine, store, reply>>

EnterConcat ==
  /\ Entering("concat")
  /\ Inc(depth) <= MaxDepth
  /\ Len(Child[task.node]) > 1
  /\ depth' = Inc(depth)
  /\ stack' = Push([NewFrame("concat", task.node) EXCEPT !.pos = 1])
  /\ task' = Enter(Child[task.node][1])
  /\ UNCHANGED <<control, error, drops, internalRender, store, reply>>

Collected == Top.text \o task.text

\* After an error the text is dropped, and the depth is not given back.
AbandonConcat ==
  /\ Leaving("concat")
  /\ error # "none"
  /\ stack' = Popped
  /\ task' = Leave(<<>>)
  /\ UNCHANGED <<engine, store, reply>>

\* Mutation: a pending break or continue does not stop the concatenation.
NextChildRegardless ==
  /\ Leaving("concat")
  /\ error = "none"
  /\ Top.pos < Len(Child[Top.node])
  /\ stack' = ReplaceTop([Top EXCEPT !.pos = @ + 1, !.text = Collected])
  /\ task' = Enter(Child[Top.node][Top.pos + 1])
  /\ UNCHANGED <<engine, store, reply>>

NextChild ==
  /\ Leaving("concat")
  /\ error = "none" /\ control = "none"
  /\ Top.pos < Len(Child[Top.node])
  /\ stack' = ReplaceTop([Top EXCEPT !.pos = @ + 1, !.text = Collected])
  /\ task' = Enter(Child[Top.node][Top.pos + 1])
  /\ UNCHANGED <<engine, store, reply>>

\* The last child is done, or a break or continue skips the others.
LeaveConcat ==
  /\ Leaving("concat")
  /\ error = "none"
  /\ control # "none" \/ Top.pos >= Len(Child[Top.node])
  /\ depth' = Dec(depth)
  /\ stack' = Popped
  /\ task' = Leave(Collected)
  /\ UNCHANGED <<control, error, drops, internalRender, store, reply>>

-----------------------------------------------------------------------------
(* ForNode::render.                                                        *)

Body(n) == Child[n][1]
ElseOr(n, v) == IF Len(Child[n]) > 1 THEN Enter(Child[n][2]) ELSE Leave(v)

\* What follows "in" is not a sequence; or the loop variable has several parts,
\* and then not even an else is rendered.
SkipLoop ==
  /\ Entering("for")
  /\ task' = IF task.node \in Dotted THEN Leave(<<>>) ELSE ElseOr(task.node, <<>>)
  /\ UNCHANGED <<stack, engine, store, reply>>

\* A window without elements: the drops are pushed and popped again.  The else
\* depends on idx, which starts at the offset.
EmptyLoop(w) ==
  /\ Entering("for")
  /\ task.node \notin Dotted
  /\ IsEmptyLoop(w)
  /\ task' = IF LoopStart(w) = 0 THEN ElseOr(task.node, <<>>) ELSE Leave(<<>>)
  /\ UNCHANGED <<stack, engine, store, reply>>

EnterLoop(w) ==
  /\ Entering("for")
  /\ task.node \notin Dotted
  /\ ~IsEmptyLoop(w)
  /\ drops' = PushDrops(task.node)
  /\ stack' = Push([NewFrame("for", task.node) EXCEPT
                      !.pos = FirstElement(w), !.idx = LoopStart(w), !.win = w])
  /\ task' = Enter(Body(task.node))
  /\ UNCHANGED <<control, error, depth, internalRender, store, reply>>

\* Mutation: an iteration starts afresh, without the error as well.
NextIterationAfresh ==
  /\ Leaving("for")
  /\ control # "break"
  /\ Top.pos # LastElement(Top.win)
  /\ control' = "none"
  /\ error' = "none"
  /\ stack' = ReplaceTop([Top EXCEPT !.pos = NextElement(Top.win, @),
                                     !.idx = @ + 1, !.text = Collected])
  /\ task' = Enter(Body(Top.node))
  /\ UNCHANGED <<depth, drops, internalRender, store, reply>>

\* The iterator: a continue is consumed here, an error is not looked at.
NextIteration ==
  /\ Leaving("for")
  /\ control # "break"
  /\ Top.pos # LastElement(Top.win)
  /\ control' = "none"
  /\ stack' = ReplaceTop([Top EXCEPT !.pos = NextElement(Top.win, @),
                                     !.idx = @ + 1, !.text = Collected])
  /\ task' = Enter(Body(Top.node))
  /\ UNCHANGED <<error, depth, drops, internalRender, store, reply>>

\* Mutation: a break met on the last element is not consumed.
LeaveLoopKeepsBreak ==
  /\ Leaving("for")
  /\ control = "break" \/ Top.pos = LastElement(Top.win)
  /\ control' = IF Top.pos = LastElement(Top.win) THEN control ELSE "none"
  /\ drops' = PopDrops(Top.node)
  /\ stack' = Popped
  /\ task' = Leave(Collected)
  /\ UNCHANGED <<error, depth, internalRender, store, reply>>

LeaveLoop ==
  /\ Leaving("for")
  /\ control = "break" \/ Top.pos = LastElement(Top.win)
  /\ control' = "none"
  /\ drops' = PopDrops(Top.node)
  /\ stack' = Popped
  /\ task' = Leave(Collected)
  /\ UNCHANGED <<error, depth, internalRender, store, reply>>

-----------------------------------------------------------------------------
(* CaptureNode::render.                                                    *)

EnterCapture ==
  /\ Entering("capture")
  /\ stack' = Push(NewFrame("capture", task.node))
  /\ task' = Enter(Body(task.node))
  /\ UNCHANGED <<engine, store, reply>>

LeaveCapture ==
  /\ Leaving("capture")
  /\ store' = [store EXCEPT ![Var[Top.node]] = task.text]
  /\ stack' = Popped
  /\ task' = Leave(<<>>)
  /\ UNCHANGED <<engine, reply>>

-----------------------------------------------------------------------------
(* A tag the host registered: NodeType::render calls its function, which   *)
(* may have its child rendered, render a template or an argument with the  *)
(* same renderer, and gives back a text.                                   *)

EnterUser ==
  /\ Entering("user")
  /\ stack' = Push(NewFrame("user", task.node))
  /\ task' = InHost
  /\ UNCHANGED <<engine, store, reply>>

Called == ReplaceTop([Top EXCEPT !.pos = @ + 1])

UserGetChild ==
  /\ task.op = "host"
  /\ Top.pos < MaxFetch
  /\ Child[Top.node] # <<>>
  /\ stack' = Called
  /\ task' = Enter(Body(Top.node))
  /\ UNCHANGED <<engine, store, reply>>

UserGotChild ==
  /\ Leaving("user")
  /\ stack' = ReplaceTop([Top EXCEPT !.text = Collected])
  /\ task' = InHost
  /\ UNCHANGED <<engine, store, reply>>

UserRender(t) ==
  /\ task.op = "host"
  /\ "render" \in HostCalls
  /\ Top.pos < MaxFetch
  /\ Len(stack) + Len(drops["forloop"]) < MaxStack
  /\ BeginRender(t, Called)
  /\ UNCHANGED reply

UserReturn ==
  /\ task.op = "host"
  /\ stack' = Popped
  /\ task' = Leave(Top.text \o One(Top.node, Top.pos))
  /\ UNCHANGED <<engine, store, reply>>

-----------------------------------------------------------------------------
RenderLeaf == RenderText \/ RenderRead \/ RenderAssign \/ RenderBreak
RenderConcat == ExceedDepth \/ EnterSingle \/ LeaveSingle \/ EnterEmpty
                \/ EnterConcat \/ AbandonConcat \/ NextChild \/ LeaveConcat
RenderLoop == SkipLoop \/ (\E w \in Windows : EmptyLoop(w) \/ EnterLoop(w))
              \/ NextIteration \/ LeaveLoop \/ RenderCycle
RenderCapture == EnterCapture \/ LeaveCapture
FinishRender == EndRender \/ (\E api \in {"string", "c"} : Raise(api))

\* The renderer's own steps.
Engine == RenderLeaf \/ RenderBranch \/ RenderConcat \/ RenderLoop \/ RenderCapture
          \/ EnterUser \/ UserGotChild \/ FinishRender

\* What the host chooses to do: between renders, and inside a tag of its own.
Host == (\E t \in Templates : RenderTemplate(t) \/ UserRender(t))
        \/ RenderArgument \/ UserGetChild

Next == Host \/ Engine \/ UserReturn

\* The renderer runs on the caller's thread, so it keeps stepping until it
\* returns; a host's tag returns too.  The host need not render anything.
Fairness == WF_vars(Engine) /\ WF_vars(UserReturn)

Spec == Init /\ [][Next]_vars
FairSpec == Spec /\ Fairness

-----------------------------------------------------------------------------
(* Properties.                                                             *)

Task == [op: {"idle", "host", "enter", "leave"}, node: Node \cup {NoNode}, text: Text]

\* The range of every variable.
TypeOK ==
  /\ task \in Task
  /\ task.op = "enter" => task.node \in Node
  /\ stack \in Seq(Frame)
  /\ task.op = "idle" <=> stack = <<>>
  /\ control \in {"none", "break", "continue"}
  /\ error \in {"none", "depth"}
  /\ depth \in 0 .. DepthModulus - 1
  /\ drops \in [Name -> Seq(Drop)]
  /\ internalRender \in BOOLEAN
  /\ store \in [Name -> Text]
  /\ reply \in [outcome: {"none", "rendered", "reported", "threw", "escaped"},
               node: Node \cup {NoNode}, text: Text]

Frames(kinds) == {p \in DOMAIN stack : stack[p].kind \in kinds}

\* A host that lets an error of a nested render fly through the outer one, or
\* that calls renderArgument from a tag, is outside the guarantees below.
NoNestedThrow == "render" \notin HostCalls \/ Apis \subseteq {"callback"}
NoNestedArgument == "argument" \notin HostCalls

\* currentRenderingDepth counts the concatenations being rendered, exactly as
\* long as there is no error, and it never goes below that count (where it
\* would wrap around) nor above the maximum: no way out of a concatenation
\* (end, break, error, an error raised further in) miscounts.
DepthAccounting ==
  NoNestedArgument /\ NoNestedThrow =>
    /\ Cardinality(Frames({"concat"})) <= depth
    /\ depth <= MaxDepth
    /\ error = "none" => depth = Cardinality(Frames({"concat"}))

\* internalDrops holds exactly the contexts of the loops being rendered, inner
\* loops after outer ones, so a name always resolves to the innermost loop
\* that binds it and never to a loop that has ended.
DropsMirrorLoops ==
  NoNestedThrow => \A k \in Name :
    /\ \A i \in DOMAIN drops[k] :
         LET d == drops[k][i]
         IN /\ d.frame \in Frames({"for"})
            /\ k = (IF d.fn = "forloop" THEN "forloop" ELSE Var[stack[d.frame].node])
    /\ \A i, j \in DOMAIN drops[k] : i < j =>
         \/ drops[k][i].frame < drops[k][j].frame
         \/ /\ drops[k][i].frame = drops[k][j].frame
            /\ drops[k][i].fn = "forloop" /\ drops[k][j].fn = "element"
    /\ \A p \in Frames({"for"}) :
         /\ k = "forloop" =>
              \E i \in DOMAIN drops[k] : drops[k][i] = [frame |-> p, fn |-> "forloop"]
         /\ k = Var[stack[p].node] =>
              \E i \in DOMAIN drops[k] : drops[k][i] = [frame |-> p, fn |-> "element"]

\* The breaks and continues of the templates are all in a loop's body; inLoop
\* says which nodes are.
BreaksInLoops(inLoop) ==
  \A n \in Node :
    /\ n \in Templates => ~inLoop[n]
    /\ Kind[n] \in {"break", "continue"} => inLoop[n]
    /\ \A i \in DOMAIN Child[n] :
         inLoop[Child[n][i]] => inLoop[n] \/ (Kind[n] = "for" /\ i = 1)

\* A break or continue is consumed by a loop of the render that met it: once
\* the host is back in control none is left for the next render to trip over
\* ("One renderer can render many templates", README.md:130).
NoPendingControl == task.op = "idle" => control = "none"

\* Between renders the renderer is as good as new: no loop context is left in
\* the drops, and the next render will not be taken for a nested one.
IdleIsClean ==
  task.op = "idle" =>
    /\ ~internalRender
    /\ \A k \in Name : drops[k] = <<>>

\* From a break or continue to the loop it belongs to, nothing is rendered:
\* calls only return.  (A host's tag cannot see a pending break, and may have
\* its child rendered again.)
PendingOnlyUnwinds ==
  control # "none" /\ Frames({"user"}) = {} => task.op \in {"leave", "idle"}

\* forloop.index0 keeps step with the element being visited, in either
\* direction and from any offset.
IndexTracksElement ==
  \A p \in Frames({"for"}) :
    LET f == stack[p]
    IN f.idx - LoopStart(f.win)
         = IF f.win.reversed THEN LoopEnd(f.win) - f.pos ELSE f.pos - LoopStart(f.win)

\* Whatever the offset, limit and direction, a loop is at an element of its
\* sequence, but for the one place that CPPVariable::iterate lets in
\* (cppvariable.h:317): the first place past the end of an array of the store,
\* in a window that reaches there.  No loop is ever further out, before the
\* front, or past the end of an array that its tag built.
LoopStaysInSequence ==
  \A p \in Frames({"for"}) :
    LET f == stack[p]
    IN \/ f.pos \in 0 .. f.win.size - 1
       \/ ReachesPastEnd(f.win) /\ f.pos = f.win.size

\* An error, once raised, is still there when the render that raised it
\* returns: nothing the template goes on to render, loop iterations after the
\* error included, hides it from the host.
ErrorSticks == [][error # "none" => error' = error \/ task.op = "idle"]_vars

\* Every render the host starts returns, whatever loops, breaks, errors and
\* calls back into the host it goes through.
RendersReturn == task.op # "idle" ~> task.op = "idle"

=============================================================================
