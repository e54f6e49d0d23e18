------------------------ MODULE LiquidRenderer_proofs ------------------------
(***************************************************************************)
(* Theorems about LiquidRenderer, for every set of templates, every window *)
(* of a loop and every bound.                                              *)
(***************************************************************************)
EXTENDS LiquidRenderer, TLAPS, FiniteSetTheorems, SequenceTheorems

Renders == {"outer", "inner"}

\* What a frame says about the node it renders.
FrameShape(f) ==
  /\ f.kind \in {"for", "capture", "user"} => Kind[f.node] = f.kind
  /\ f.kind \in {"concat", "single"} => Kind[f.node] = "concat"
  /\ f.kind = "concat" => f.pos \in 1 .. Len(Child[f.node])

\* A render is at the bottom of the stack or on top of a host's tag.
Stacked(s) ==
  /\ \A p \in DOMAIN s : FrameShape(s[p])
  /\ s # <<>> => s[1].kind \in Renders
  /\ \A p \in 2 .. Len(s) : s[p].kind \in Renders => s[p - 1].kind = "user"

\* The host only acts when its tag is on top.
Shape == Stacked(stack) /\ (task.op = "host" => Top.kind = "user")

\* What TypeOK says of everything but the stack.
DataOK ==
  /\ control \in {"none", "break", "continue"}
  /\ error \in {"none", "depth"}
  /\ depth \in 0 .. DepthModulus - 1
  /\ drops \in [Name -> Seq(Drop)]
  /\ internalRender \in BOOLEAN
  /\ store \in [Name -> Text]
  /\ reply \in [outcome: {"none", "rendered", "reported", "threw", "escaped"},
               node: Node \cup {NoNode}, text: Text]

TaskOK ==
  /\ task \in Task
  /\ task.op = "enter" => task.node \in Node
  /\ task.op = "idle" <=> stack = <<>>

TypeInv == DataOK /\ TaskOK /\ stack \in Seq(Frame) /\ Shape

LEMMA TypeInvIsEnough == TypeInv => TypeOK
  BY DEF TypeInv, TypeOK, DataOK, TaskOK

-----------------------------------------------------------------------------
(* Stacks.                                                                 *)

LEMMA Pushing ==
  ASSUME NEW s \in Seq(Frame), NEW f \in Frame
  PROVE  /\ Append(s, f) \in Seq(Frame)
         /\ Append(s, f) # <<>>
         /\ Len(Append(s, f)) = Len(s) + 1
         /\ Len(s) \in Nat
         /\ DOMAIN Append(s, f) = 1 .. Len(s) + 1
         /\ \A p \in 1 .. Len(s) : Append(s, f)[p] = s[p]
         /\ Append(s, f)[Len(s) + 1] = f
  BY AppendProperties, LenProperties

LEMMA Popping ==
  ASSUME NEW s \in Seq(Frame), s # <<>>
  PROVE  /\ SubSeq(s, 1, Len(s) - 1) \in Seq(Frame)
         /\ Len(s) \in Nat \ {0}
         /\ Len(SubSeq(s, 1, Len(s) - 1)) = Len(s) - 1
         /\ DOMAIN SubSeq(s, 1, Len(s) - 1) = 1 .. Len(s) - 1
         /\ \A p \in 1 .. Len(s) - 1 : SubSeq(s, 1, Len(s) - 1)[p] = s[p]
  <1>1. Len(s) \in Nat \ {0} /\ \A i \in 1 .. Len(s) : s[i] \in Frame
    BY LenProperties, EmptySeq
  <1>2. \A i \in 1 .. Len(s) - 1 : s[i] \in Frame
    BY <1>1
  <1> DEFINE r == SubSeq(s, 1, Len(s) - 1)
             n == Len(s)
  <1>3. /\ r \in Seq(Frame)
        /\ Len(r) = IF 1 <= n - 1 THEN n - 1 - 1 + 1 ELSE 0
        /\ \A p \in 1 .. n - 1 - 1 + 1 : r[p] = s[1 + p - 1]
    BY <1>1, <1>2, SubSeqProperties
  <1>4. n \in Nat \ {0}
    BY <1>1
  <1> HIDE DEF r, n
  <1>5. Len(r) = n - 1
    BY <1>3, <1>4
  <1>6. DOMAIN r = 1 .. n - 1
    BY <1>3, <1>5, LenProperties
  <1>7. \A p \in 1 .. n - 1 : r[p] = s[p]
    BY <1>3, <1>4
  <1> QED BY <1>3, <1>4, <1>5, <1>6, <1>7 DEF r, n

LEMMA Replacing ==
  ASSUME NEW s \in Seq(Frame), s # <<>>, NEW f \in Frame
  PROVE  LET r == [s EXCEPT ![Len(s)] = f]
         IN /\ r \in Seq(Frame)
            /\ r # <<>>
            /\ Len(s) \in Nat \ {0}
            /\ Len(r) = Len(s)
            /\ DOMAIN r = 1 .. Len(s)
            /\ \A p \in 1 .. Len(s) - 1 : r[p] = s[p]
            /\ r[Len(s)] = f
  <1>1. Len(s) \in Nat \ {0}
    BY LenProperties, EmptySeq
  <1> QED BY <1>1, ExceptSeq, LenProperties, EmptySeq

LEMMA TopOfStack ==
  ASSUME TypeInv, stack # <<>>
  PROVE  /\ Len(stack) \in Nat \ {0}
         /\ DOMAIN stack = 1 .. Len(stack)
         /\ Top \in Frame
         /\ Top = stack[Len(stack)]
  BY LenProperties, EmptySeq DEF TypeInv, Top

LEMMA Framing ==
  ASSUME NEW n \in Node
  PROVE  \A k \in {"outer", "inner", "concat", "single", "for", "capture", "user"} :
            NewFrame(k, n) \in Frame
  BY EmptySeq DEF NewFrame, Frame, Text

LEMMA PushStacked ==
  ASSUME NEW s \in Seq(Frame), Stacked(s), NEW f \in Frame, FrameShape(f),
         IF f.kind \in Renders THEN s # <<>> => s[Len(s)].kind = "user" ELSE s # <<>>
  PROVE  Stacked(Append(s, f))
  <1> DEFINE r == Append(s, f)
  <1>1. /\ r # <<>>
        /\ Len(r) = Len(s) + 1
        /\ Len(s) \in Nat
        /\ DOMAIN r = 1 .. Len(s) + 1
        /\ \A p \in 1 .. Len(s) : r[p] = s[p]
        /\ r[Len(s) + 1] = f
    BY Pushing
  <1>2. DOMAIN s = 1 .. Len(s) /\ (s # <<>> => Len(s) # 0) /\ (Len(s) # 0 => s # <<>>)
    BY LenProperties, EmptySeq
  <1> HIDE DEF r
  <1>3. \A p \in DOMAIN r : FrameShape(r[p])
    BY <1>1, <1>2 DEF Stacked
  <1>4. r[1].kind \in Renders
    BY <1>1, <1>2 DEF Stacked
  <1>5. \A p \in 2 .. Len(r) : r[p].kind \in Renders => r[p - 1].kind = "user"
    BY <1>1, <1>2 DEF Stacked
  <1>6. Stacked(r)
    BY <1>3, <1>4, <1>5 DEF Stacked
  <1> QED BY <1>6 DEF r

LEMMA PopStacked ==
  ASSUME NEW s \in Seq(Frame), Stacked(s), s # <<>>
  PROVE  /\ Stacked(SubSeq(s, 1, Len(s) - 1))
         /\ SubSeq(s, 1, Len(s) - 1) = <<>> <=> Len(s) = 1
         /\ s[Len(s)].kind \notin Renders => Len(s) # 1
  <1> DEFINE r == SubSeq(s, 1, Len(s) - 1)
  <1>1. /\ r \in Seq(Frame)
        /\ Len(s) \in Nat \ {0}
        /\ Len(r) = Len(s) - 1
        /\ DOMAIN r = 1 .. Len(s) - 1
        /\ \A p \in 1 .. Len(s) - 1 : r[p] = s[p]
    BY Popping
  <1>2. DOMAIN s = 1 .. Len(s) /\ (r # <<>> => Len(r) # 0) /\ (Len(r) # 0 => r # <<>>)
    BY <1>1, LenProperties, EmptySeq
  <1> HIDE DEF r
  <1>3. \A p \in DOMAIN r : FrameShape(r[p])
    BY <1>1, <1>2 DEF Stacked
  <1>4. r # <<>> => r[1].kind \in Renders
    BY <1>1, <1>2 DEF Stacked
  <1>5. \A p \in 2 .. Len(r) : r[p].kind \in Renders => r[p - 1].kind = "user"
    BY <1>1, <1>2 DEF Stacked
  <1>6. Stacked(r)
    BY <1>3, <1>4, <1>5 DEF Stacked
  <1>7. r = <<>> <=> Len(s) = 1
    BY <1>1, <1>2
  <1>8. s[Len(s)].kind \notin Renders => Len(s) # 1
    BY DEF Stacked
  <1> QED BY <1>6, <1>7, <1>8 DEF r

LEMMA ReplaceStacked ==
  ASSUME NEW s \in Seq(Frame), Stacked(s), s # <<>>,
         NEW f \in Frame, FrameShape(f), f.kind = s[Len(s)].kind
  PROVE  Stacked([s EXCEPT ![Len(s)] = f])
  <1> DEFINE r == [s EXCEPT ![Len(s)] = f]
  <1>1. /\ r # <<>>
        /\ Len(s) \in Nat \ {0}
        /\ Len(r) = Len(s)
        /\ DOMAIN r = 1 .. Len(s)
        /\ \A p \in 1 .. Len(s) - 1 : r[p] = s[p]
        /\ r[Len(s)] = f
    BY Replacing
  <1>2. DOMAIN s = 1 .. Len(s)
    BY LenProperties
  <1> HIDE DEF r
  <1>3. \A p \in 1 .. Len(s) : r[p].kind = s[p].kind
    BY <1>1
  <1>4. \A p \in DOMAIN r : FrameShape(r[p])
    BY <1>1, <1>2 DEF Stacked
  <1>5. r[1].kind \in Renders
    BY <1>1, <1>3 DEF Stacked
  <1>6. \A p \in 2 .. Len(r) : r[p].kind \in Renders => r[p - 1].kind = "user"
    BY <1>1, <1>3 DEF Stacked
  <1>7. Stacked(r)
    BY <1>1, <1>4, <1>5, <1>6 DEF Stacked
  <1> QED BY <1>7 DEF r

-----------------------------------------------------------------------------
(* Tasks and texts.                                                        *)

LEMMA Texts ==
  /\ <<>> \in Text
  /\ \A n \in Node, i \in Int : One(n, i) \in Text
  /\ \A v, w \in Text : v \o w \in Text
  <1>1. <<>> \in Text
    BY EmptySeq DEF Text
  <1>2. ASSUME NEW n \in Node, NEW i \in Int PROVE One(n, i) \in Text
    <2>1. [src |-> n, pos |-> i] \in Item
      BY DEF Item
    <2> QED BY <2>1 DEF Text, One
  <1>3. \A v, w \in Text : v \o w \in Text
    BY ConcatProperties DEF Text
  <1> QED BY <1>1, <1>2, <1>3

LEMMA Tasks ==
  /\ Idle \in Task /\ Idle.op = "idle"
  /\ InHost \in Task /\ InHost.op = "host"
  /\ \A n \in Node : Enter(n) \in Task /\ Enter(n).op = "enter" /\ Enter(n).node = n
  /\ \A v \in Text : Leave(v) \in Task /\ Leave(v).op = "leave" /\ Leave(v).text = v
  BY Texts DEF Idle, InHost, Enter, Leave, Task

LEMMA Children ==
  ASSUME NEW n \in Node
  PROVE  /\ Len(Child[n]) \in Nat
         /\ DOMAIN Child[n] = 1 .. Len(Child[n])
         /\ \A i \in 1 .. Len(Child[n]) : Child[n][i] \in Node
         /\ Kind[n] \in {"capture", "for", "cycle"} => Body(n) \in Node
         /\ Child[n] # <<>> => Body(n) \in Node
         /\ \A v \in Text : ElseOr(n, v) \in Task /\ ElseOr(n, v).op \in {"enter", "leave"}
                             /\ (ElseOr(n, v).op = "enter" => ElseOr(n, v).node \in Node)
  <1>1. Child[n] \in Seq(Node)
    BY AstAssumption
  <1>2. /\ Len(Child[n]) \in Nat
        /\ DOMAIN Child[n] = 1 .. Len(Child[n])
        /\ \A i \in 1 .. Len(Child[n]) : Child[n][i] \in Node
    BY <1>1, LenProperties
  <1>3. Child[n] # <<>> => Len(Child[n]) > 0
    BY <1>1, EmptySeq
  <1>4. Kind[n] \in {"capture", "for", "cycle"} => Len(Child[n]) > 0
    BY AstAssumption
  <1> QED BY <1>2, <1>3, <1>4, Tasks DEF Body, ElseOr

-----------------------------------------------------------------------------
(* The type invariant, one kind of step at a time.                         *)

\* What a step does to the stack, unless it starts or ends a render.
Keeps == stack' = stack /\ (task'.op = "host" => task.op = "host")
Pushes == \E f \in Frame : /\ stack' = Push(f)
                           /\ FrameShape(f)
                           /\ f.kind \notin Renders
                           /\ task'.op = "host" => f.kind = "user"
Pops == stack' = Popped /\ Top.kind \notin Renders /\ task'.op # "host"
Replaces == \E f \in Frame : /\ stack' = ReplaceTop(f)
                             /\ FrameShape(f)
                             /\ f.kind = Top.kind
                             /\ task'.op = "host" => f.kind = "user"
GoesOn == task' \in Task /\ task'.op # "idle" /\ (task'.op = "enter" => task'.node \in Node)

LEMMA StackStep ==
  ASSUME TypeInv, stack # <<>>, Keeps \/ Pushes \/ Pops \/ Replaces, GoesOn, DataOK'
  PROVE  TypeInv'
  <1>0. stack \in Seq(Frame) /\ Stacked(stack) /\ (task.op = "host" => Top.kind = "user")
    BY DEF TypeInv, Shape
  <1>1. /\ stack' \in Seq(Frame) /\ stack' # <<>> /\ Stacked(stack')
        /\ task'.op = "host" => stack'[Len(stack')].kind = "user"
    <2>1. CASE Keeps
      BY <1>0, <2>1 DEF Keeps, Top
    <2>2. CASE Pushes
      <3>1. PICK f \in Frame : /\ stack' = Push(f)
                               /\ FrameShape(f)
                               /\ f.kind \notin Renders
                               /\ task'.op = "host" => f.kind = "user"
        BY <2>2 DEF Pushes
      <3> QED BY <1>0, <3>1, Pushing, PushStacked DEF Push
    <2>3. CASE Pops
      BY <1>0, <2>3, Popping, PopStacked DEF Pops, Popped, Top
    <2>4. CASE Replaces
      <3>1. PICK f \in Frame : /\ stack' = ReplaceTop(f)
                               /\ FrameShape(f)
                               /\ f.kind = Top.kind
                               /\ task'.op = "host" => f.kind = "user"
        BY <2>4 DEF Replaces
      <3> DEFINE r == [stack EXCEPT ![Len(stack)] = f]
      <3>2. r \in Seq(Frame) /\ r # <<>> /\ r[Len(r)] = f
        BY <1>0, Replacing
      <3>3. Stacked(r)
        BY <1>0, <3>1, ReplaceStacked DEF Top
      <3>4. stack' = r
        BY <3>1 DEF ReplaceTop
      <3> HIDE DEF r
      <3> QED BY <1>0, <3>1, <3>2, <3>3, <3>4
    <2> QED BY <2>1, <2>2, <2>3, <2>4
  <1>2. TaskOK'
    BY <1>1 DEF TaskOK, GoesOn
  <1>3. Shape'
    BY <1>1 DEF Shape, Top, Stacked, FrameShape
  <1> QED BY <1>1, <1>2, <1>3 DEF TypeInv

LEMMA Resolved ==
  ASSUME TypeInv, NEW n \in Node
  PROVE  Resolutions(n) \subseteq Text
  <1> DEFINE found == drops[Var[n]]
             drop  == found[Len(found)]
             f     == stack[drop.frame]
  <1>1. found \in Seq(Drop) /\ store[Var[n]] \in Text
    BY AstAssumption DEF TypeInv, DataOK
  <1>2. CASE found = <<>>
    BY <1>1, <1>2 DEF Resolutions
  <1>3. CASE found # <<>> /\ drop.frame \notin DOMAIN stack
    BY <1>3, Texts DEF Resolutions
  <1>4. CASE found # <<>> /\ drop.frame \in DOMAIN stack
    <2>1. f \in Frame
      BY <1>4, LenProperties DEF TypeInv
    <2>2. f.node \in Node /\ f.idx \in Int /\ f.pos \in Int
      BY <2>1 DEF Frame
    <2> QED BY <1>4, <2>2, Texts DEF Resolutions
  <1> QED BY <1>2, <1>3, <1>4

LEMMA LeafTypes ==
  ASSUME TypeInv, RenderLeaf \/ RenderBranch
  PROVE  TypeInv'
  <1>1. DataOK /\ TaskOK
    BY DEF TypeInv
  <1>2. task.op = "enter" => stack # <<>> /\ task.node \in Node
    BY <1>1 DEF TaskOK
  <1>3. CASE RenderText
    <2>1. Keeps /\ GoesOn /\ stack # <<>>
      BY <1>2, <1>3, Tasks, Texts DEF RenderText, Entering, Keeps, GoesOn
    <2>2. DataOK'
      BY <1>1, <1>3 DEF RenderText, DataOK, engine
    <2> QED BY <2>1, <2>2, StackStep
  <1>4. CASE RenderRead
    <2>1. Keeps /\ GoesOn /\ stack # <<>>
      BY <1>2, <1>4, Tasks, Resolved DEF RenderRead, Entering, Keeps, GoesOn
    <2>2. DataOK'
      BY <1>1, <1>4 DEF RenderRead, DataOK, engine
    <2> QED BY <2>1, <2>2, StackStep
  <1>5. CASE RenderAssign
    <2>1. Keeps /\ GoesOn /\ stack # <<>>
      BY <1>2, <1>5, Tasks, Texts DEF RenderAssign, Entering, Keeps, GoesOn
    <2>2. One(task.node, 0) \in Text
      BY <1>2, <1>5, Texts DEF RenderAssign, Entering
    <2>3. DataOK'
      BY <1>1, <1>5, <2>2 DEF RenderAssign, DataOK, engine
    <2> QED BY <2>1, <2>3, StackStep
  <1>6. CASE RenderBreak
    <2>1. Keeps /\ GoesOn /\ stack # <<>>
      BY <1>2, <1>6, Tasks, Texts DEF RenderBreak, Entering, Keeps, GoesOn
    <2>2. DataOK'
      BY <1>1, <1>6 DEF RenderBreak, Entering, DataOK
    <2> QED BY <2>1, <2>2, StackStep
  <1>7. CASE RenderBranch
    <2>1. Keeps /\ GoesOn /\ stack # <<>>
      BY <1>2, <1>7, Tasks, Texts, Children DEF RenderBranch, Entering, Keeps, GoesOn
    <2>2. DataOK'
      BY <1>1, <1>7 DEF RenderBranch, DataOK, engine
    <2> QED BY <2>1, <2>2, StackStep
  <1> QED BY <1>3, <1>4, <1>5, <1>6, <1>7 DEF RenderLeaf

LEMMA Depths ==
  ASSUME NEW d \in 0 .. DepthModulus - 1
  PROVE  /\ Inc(d) \in 0 .. DepthModulus - 1
         /\ Dec(d) \in 0 .. DepthModulus - 1
         /\ Inc(d) <= MaxDepth => Inc(d) = d + 1 \/ (d = DepthModulus - 1 /\ Inc(d) = 0)
         /\ d # 0 => Dec(d) = d - 1
  BY BoundsAssumption DEF Inc, Dec

LEMMA CollectedText ==
  ASSUME TypeInv, stack # <<>>
  PROVE  Collected \in Text /\ Top.text \in Text /\ task.text \in Text
  BY TopOfStack, Texts DEF TypeInv, TaskOK, Task, Frame, Collected

LEMMA Going ==
  /\ \A n \in Node : task' = Enter(n) => GoesOn /\ task'.op = "enter"
  /\ \A v \in Text : task' = Leave(v) => GoesOn /\ task'.op = "leave"
  /\ task' = InHost => GoesOn /\ task'.op = "host"
  BY Tasks DEF GoesOn

\* A frame's position, index and text may change; its kind, node and window stay.
LEMMA Updating ==
  ASSUME NEW f \in Frame, NEW g, NEW i \in Int, NEW j \in Int, NEW v \in Text,
         \/ g = [f EXCEPT !.pos = i]
         \/ g = [f EXCEPT !.text = v]
         \/ g = [f EXCEPT !.pos = i, !.text = v]
         \/ g = [f EXCEPT !.pos = i, !.idx = j, !.text = v]
  PROVE  /\ g \in Frame
         /\ g.kind = f.kind /\ g.node = f.node /\ g.win = f.win
  BY DEF Frame

LEMMA ConcatTypes ==
  ASSUME TypeInv, RenderConcat
  PROVE  TypeInv'
  <1>1. DataOK /\ TaskOK /\ Shape
    BY DEF TypeInv
  <1>2. task.op = "enter" => stack # <<>> /\ task.node \in Node
    BY <1>1 DEF TaskOK
  <1>3. stack # <<>> => /\ Top \in Frame /\ FrameShape(Top)
                        /\ Top.node \in Node /\ Collected \in Text
                        /\ task.text \in Text
    BY <1>1, TopOfStack, CollectedText DEF Shape, Stacked, Top, Frame
  <1>4. CASE ExceedDepth
    <2>1. Keeps /\ GoesOn /\ stack # <<>>
      BY <1>2, <1>4, Tasks, Texts DEF ExceedDepth, Entering, Keeps, GoesOn
    <2>2. DataOK'
      BY <1>1, <1>4 DEF ExceedDepth, DataOK
    <2> QED BY <2>1, <2>2, StackStep
  <1>5. CASE EnterSingle
    <2>1. task.node \in Node /\ stack # <<>>
      BY <1>2, <1>5 DEF EnterSingle, Entering
    <2>2. NewFrame("single", task.node) \in Frame /\ FrameShape(NewFrame("single", task.node))
      BY <1>5, <2>1, Framing DEF EnterSingle, Entering, FrameShape, NewFrame
    <2>3. GoesOn
      BY <1>5, <2>1, Tasks, Children DEF EnterSingle, GoesOn
    <2>4. Pushes
      BY <1>5, <2>1, <2>2, Tasks, Children DEF EnterSingle, Pushes, Renders, NewFrame
    <2>5. DataOK'
      BY <1>1, <1>5 DEF EnterSingle, DataOK, engine
    <2> QED BY <2>1, <2>3, <2>4, <2>5, StackStep
  <1>6. CASE LeaveSingle
    <2>1. Pops /\ GoesOn /\ stack # <<>>
      BY <1>1, <1>6 DEF LeaveSingle, Leaving, Pops, GoesOn, Renders, TaskOK
    <2>2. DataOK'
      BY <1>1, <1>6 DEF LeaveSingle, DataOK, engine
    <2> QED BY <2>1, <2>2, StackStep
  <1>7. CASE EnterEmpty
    <2>1. Keeps /\ GoesOn /\ stack # <<>>
      BY <1>2, <1>7, Tasks, Texts DEF EnterEmpty, Entering, Keeps, GoesOn
    <2>2. DataOK'
      BY <1>1, <1>7 DEF EnterEmpty, DataOK, engine
    <2> QED BY <2>1, <2>2, StackStep
  <1>8. CASE EnterConcat
    <2> DEFINE f == [NewFrame("concat", task.node) EXCEPT !.pos = 1]
    <2>1. task.node \in Node /\ stack # <<>>
      BY <1>2, <1>8 DEF EnterConcat, Entering
    <2>2. f \in Frame /\ f.kind = "concat" /\ f.pos = 1 /\ f.node = task.node
      BY <2>1, Framing DEF NewFrame, Frame
    <2>3. FrameShape(f)
      BY <1>8, <2>1, <2>2, Children DEF EnterConcat, Entering, FrameShape
    <2>4. GoesOn /\ task'.op = "enter"
      <3>1. Child[task.node][1] \in Node
        BY <1>8, <2>1, Children DEF EnterConcat
      <3> QED BY <1>8, <3>1, Going DEF EnterConcat
    <2>5. Pushes
      BY <1>8, <2>2, <2>3, <2>4 DEF EnterConcat, Pushes, Renders
    <2>6. DataOK'
      BY <1>1, <1>8, Depths DEF EnterConcat, DataOK
    <2> QED BY <2>1, <2>4, <2>5, <2>6, StackStep
  <1>9. CASE AbandonConcat
    <2>1. Pops /\ GoesOn /\ stack # <<>>
      BY <1>9, Tasks, Texts DEF AbandonConcat, Leaving, Pops, GoesOn, Renders
    <2>2. DataOK'
      BY <1>1, <1>9 DEF AbandonConcat, DataOK, engine
    <2> QED BY <2>1, <2>2, StackStep
  <1>10. CASE NextChild
    <2> DEFINE f == [Top EXCEPT !.pos = @ + 1, !.text = Collected]
    <2>1. stack # <<>> /\ Top.kind = "concat" /\ Top.pos < Len(Child[Top.node])
      BY <1>10 DEF NextChild, Leaving
    <2>2. Top.pos \in 1 .. Len(Child[Top.node])
      BY <1>3, <2>1 DEF FrameShape
    <2>3. Top.pos + 1 \in 1 .. Len(Child[Top.node])
      BY <1>3, <2>1, <2>2, Children
    <2>4. /\ Top.pos + 1 \in Int
          /\ f = [Top EXCEPT !.pos = Top.pos + 1, !.text = Collected]
          /\ f.pos = Top.pos + 1
      BY <1>3, <2>1, <2>3 DEF Frame
    <2>5. f \in Frame /\ f.kind = Top.kind /\ f.node = Top.node
      BY <1>3, <2>1, <2>4, Updating
    <2>6. FrameShape(f)
      BY <1>3, <2>1, <2>3, <2>4, <2>5 DEF FrameShape
    <2>7. GoesOn /\ task'.op = "enter"
      <3>1. Child[Top.node][Top.pos + 1] \in Node
        BY <1>3, <2>1, <2>3, Children
      <3> QED BY <1>10, <3>1, Going DEF NextChild
    <2>8. Replaces
      BY <1>10, <2>5, <2>6, <2>7 DEF NextChild, Replaces
    <2>9. DataOK'
      BY <1>1, <1>10 DEF NextChild, DataOK, engine
    <2> QED BY <2>1, <2>7, <2>8, <2>9, StackStep
  <1>11. CASE LeaveConcat
    <2>1. stack # <<>> /\ Top.kind = "concat"
      BY <1>11 DEF LeaveConcat, Leaving
    <2>2. Pops /\ GoesOn
      BY <1>3, <1>11, <2>1, Tasks DEF LeaveConcat, Pops, GoesOn, Renders
    <2>3. DataOK'
      BY <1>1, <1>11, Depths DEF LeaveConcat, DataOK
    <2> QED BY <2>1, <2>2, <2>3, StackStep
  <1> QED BY <1>4, <1>5, <1>6, <1>7, <1>8, <1>9, <1>10, <1>11 DEF RenderConcat

LEMMA DropTypes ==
  ASSUME TypeInv, NEW n \in Node
  PROVE  PushDrops(n) \in [Name -> Seq(Drop)] /\ PopDrops(n) \in [Name -> Seq(Drop)]
  <1>1. drops \in [Name -> Seq(Drop)] /\ Len(stack) \in Nat
    BY LenProperties DEF TypeInv, DataOK
  <1>2. \A fn \in {"forloop", "element"} : [frame |-> Len(stack) + 1, fn |-> fn] \in Drop
    BY <1>1 DEF Drop
  <1>3. \A s \in Seq(Drop), d \in Drop : Append(s, d) \in Seq(Drop)
    BY AppendProperties
  <1>4. ASSUME NEW s \in Seq(Drop) PROVE AllButLast(s) \in Seq(Drop)
    <2>1. Len(s) \in Nat /\ \A i \in 1 .. Len(s) : s[i] \in Drop
      BY LenProperties
    <2>2. \A i \in 1 .. Len(s) - 1 : s[i] \in Drop
      BY <2>1
    <2> QED BY <2>1, <2>2, SubSeqProperties DEF AllButLast
  <1>5. PushDrops(n) \in [Name -> Seq(Drop)]
    BY <1>1, <1>2, <1>3 DEF PushDrops
  <1>6. PopDrops(n) \in [Name -> Seq(Drop)]
    BY <1>1, <1>4 DEF PopDrops
  <1> QED BY <1>5, <1>6

LEMMA WindowTypes ==
  ASSUME NEW w \in Windows
  PROVE  /\ LoopStart(w) \in Int /\ LoopEnd(w) \in Int
         /\ FirstElement(w) \in Int /\ LastElement(w) \in Int
         /\ \A i \in Int : NextElement(w, i) \in Int
  <1>1. w \in Window
    BY BoundsAssumption
  <1>2. LoopStart(w) \in Int /\ LoopLimit(w) \in Int
    BY <1>1 DEF LoopStart, LoopLimit, Larger, Window
  <1>3. LoopEnd(w) \in Int
    BY <1>1, <1>2 DEF LoopEnd, Smaller, Window
  <1> QED BY <1>2, <1>3 DEF FirstElement, LastElement, NextElement

LEMMA LoopTypes ==
  ASSUME TypeInv, RenderLoop
  PROVE  TypeInv'
  <1>1. DataOK /\ TaskOK /\ Shape
    BY DEF TypeInv
  <1>2. task.op = "enter" => stack # <<>> /\ task.node \in Node
    BY <1>1 DEF TaskOK
  <1>3. stack # <<>> => /\ Top \in Frame /\ FrameShape(Top)
                        /\ Top.node \in Node /\ Collected \in Text
                        /\ Top.pos \in Int /\ Top.idx \in Int
    BY <1>1, TopOfStack, CollectedText DEF Shape, Stacked, Top, Frame
  <1>4. CASE SkipLoop
    <2>1. task.node \in Node /\ stack # <<>>
      BY <1>2, <1>4 DEF SkipLoop, Entering
    <2>2. GoesOn /\ Keeps
      BY <1>4, <2>1, Children, Texts, Tasks DEF SkipLoop, GoesOn, Keeps
    <2>3. DataOK'
      BY <1>1, <1>4 DEF SkipLoop, DataOK, engine
    <2> QED BY <2>1, <2>2, <2>3, StackStep
  <1>5. ASSUME NEW w \in Windows, EmptyLoop(w) PROVE TypeInv'
    <2>1. task.node \in Node /\ stack # <<>>
      BY <1>2, <1>5 DEF EmptyLoop, Entering
    <2>2. GoesOn /\ Keeps
      BY <1>5, <2>1, Children, Texts, Tasks DEF EmptyLoop, GoesOn, Keeps
    <2>3. DataOK'
      BY <1>1, <1>5 DEF EmptyLoop, DataOK, engine
    <2> QED BY <2>1, <2>2, <2>3, StackStep
  <1>6. ASSUME NEW w \in Windows, EnterLoop(w) PROVE TypeInv'
    <2> DEFINE f == [NewFrame("for", task.node) EXCEPT
                       !.pos = FirstElement(w), !.idx = LoopStart(w), !.win = w]
    <2>1. task.node \in Node /\ stack # <<>> /\ Kind[task.node] = "for"
      BY <1>2, <1>6 DEF EnterLoop, Entering
    <2>2. f \in Frame /\ f.kind = "for" /\ f.node = task.node
      BY <2>1, Texts, WindowTypes DEF NewFrame, Frame
    <2>3. FrameShape(f)
      BY <2>1, <2>2 DEF FrameShape
    <2>4. GoesOn /\ task'.op = "enter"
      BY <1>6, <2>1, Children, Going DEF EnterLoop
    <2>5. Pushes
      BY <1>6, <2>2, <2>3, <2>4 DEF EnterLoop, Pushes, Renders
    <2>6. DataOK'
      BY <1>1, <1>6, <2>1, DropTypes DEF EnterLoop, DataOK
    <2> QED BY <2>1, <2>4, <2>5, <2>6, StackStep
  <1>7. CASE NextIteration
    <2> DEFINE f == [Top EXCEPT !.pos = NextElement(Top.win, @),
                                !.idx = @ + 1, !.text = Collected]
    <2>1. stack # <<>> /\ Top.kind = "for"
      BY <1>7 DEF NextIteration, Leaving
    <2>2. NextElement(Top.win, Top.pos) \in Int /\ Top.idx + 1 \in Int
      BY <1>3, <2>1 DEF NextElement
    <2>3. f = [Top EXCEPT !.pos = NextElement(Top.win, Top.pos),
                          !.idx = Top.idx + 1, !.text = Collected]
      BY <1>3, <2>1 DEF Frame
    <2>4. f \in Frame /\ f.kind = Top.kind /\ f.node = Top.node
      BY <1>3, <2>1, <2>2, <2>3, Updating
    <2>5. FrameShape(f)
      BY <1>3, <2>1, <2>4 DEF FrameShape
    <2>6. GoesOn /\ task'.op = "enter"
      BY <1>3, <1>7, <2>1, Children, Going DEF NextIteration, FrameShape
    <2>7. Replaces
      BY <1>7, <2>4, <2>5, <2>6 DEF NextIteration, Replaces
    <2>8. DataOK'
      BY <1>1, <1>7 DEF NextIteration, DataOK
    <2> QED BY <2>1, <2>6, <2>7, <2>8, StackStep
  <1>8. CASE LeaveLoop
    <2>1. stack # <<>> /\ Top.kind = "for"
      BY <1>8 DEF LeaveLoop, Leaving
    <2>2. Pops /\ GoesOn
      BY <1>3, <1>8, <2>1, Tasks DEF LeaveLoop, Pops, GoesOn, Renders
    <2>3. DataOK'
      BY <1>1, <1>3, <1>8, <2>1, DropTypes DEF LeaveLoop, DataOK
    <2> QED BY <2>1, <2>2, <2>3, StackStep
  <1>9. CASE RenderCycle
    <2> DEFINE found == drops["forloop"]
               args  == Child[task.node]
               f     == found[Len(found)].frame
    <2>1. task.node \in Node /\ stack # <<>> /\ Kind[task.node] = "cycle"
      BY <1>2, <1>9 DEF RenderCycle, Entering
    <2>2. Len(args) \in Nat \ {0}
      BY <2>1, Children, AstAssumption
    <2>3. \A i \in 1 .. Len(args) : args[i] \in Node
      BY <2>1, Children
    <2>4. ASSUME f \in DOMAIN stack PROVE (stack[f].idx % Len(args)) + 1 \in 1 .. Len(args)
      <3>1. stack[f] \in Frame
        BY <2>4, LenProperties DEF TypeInv
      <3>2. stack[f].idx \in Int
        BY <3>1 DEF Frame
      <3>3. \A i \in Int, n \in Nat \ {0} : (i % n) + 1 \in 1 .. n
        OBVIOUS
      <3> QED BY <2>2, <3>2, <3>3
    <2>5. task' = Leave(<<>>) \/ \E i \in 1 .. Len(args) : task' = Enter(args[i])
      BY <1>9, <2>1, <2>4, Children DEF RenderCycle
    <2>6. Keeps /\ GoesOn
      BY <1>9, <2>3, <2>5, Going, Texts DEF RenderCycle, Keeps
    <2>7. DataOK'
      BY <1>1, <1>9 DEF RenderCycle, DataOK, engine
    <2> QED BY <2>1, <2>6, <2>7, StackStep
  <1> QED BY <1>4, <1>5, <1>6, <1>7, <1>8, <1>9 DEF RenderLoop

LEMMA CaptureTypes ==
  ASSUME TypeInv, RenderCapture
  PROVE  TypeInv'
  <1>1. DataOK /\ TaskOK
    BY DEF TypeInv
  <1>2. CASE EnterCapture
    <2>1. task.node \in Node /\ stack # <<>> /\ Kind[task.node] = "capture"
      BY <1>1, <1>2 DEF EnterCapture, Entering, TaskOK
    <2>2. NewFrame("capture", task.node) \in Frame /\ FrameShape(NewFrame("capture", task.node))
      BY <2>1, Framing DEF FrameShape, NewFrame
    <2>3. GoesOn /\ task'.op = "enter"
      BY <1>2, <2>1, Children, Going DEF EnterCapture
    <2>4. Pushes
      BY <1>2, <2>2, <2>3 DEF EnterCapture, Pushes, Renders, NewFrame
    <2>5. DataOK'
      BY <1>1, <1>2 DEF EnterCapture, DataOK, engine
    <2> QED BY <2>1, <2>3, <2>4, <2>5, StackStep
  <1>3. CASE LeaveCapture
    <2>1. stack # <<>> /\ Top.kind = "capture"
      BY <1>3 DEF LeaveCapture, Leaving
    <2>2. Pops /\ GoesOn
      BY <1>3, <2>1, Tasks, Texts DEF LeaveCapture, Pops, GoesOn, Renders
    <2>3. DataOK'
      BY <1>1, <1>3, <2>1, CollectedText DEF LeaveCapture, DataOK, engine
    <2> QED BY <2>1, <2>2, <2>3, StackStep
  <1> QED BY <1>2, <1>3 DEF RenderCapture

\* The frame of a host's tag, after one more call on the renderer.
LEMMA Calling ==
  ASSUME TypeInv, task.op = "host"
  PROVE  LET f == [Top EXCEPT !.pos = @ + 1]
         IN /\ stack # <<>> /\ Top \in Frame /\ Top.kind = "user" /\ Top.node \in Node
            /\ f \in Frame /\ FrameShape(f) /\ f.kind = "user" /\ f.node = Top.node
            /\ Called = ReplaceTop(f)
  <1> DEFINE f == [Top EXCEPT !.pos = @ + 1]
  <1>1. stack # <<>> /\ Top.kind = "user"
    BY DEF TypeInv, TaskOK, Shape
  <1>2. Top \in Frame /\ FrameShape(Top) /\ Top.pos \in Int
    BY <1>1, TopOfStack DEF TypeInv, Shape, Stacked, Top, Frame
  <1>3. f \in Frame /\ f.kind = Top.kind /\ f.node = Top.node
    <2>1. f = [Top EXCEPT !.pos = Top.pos + 1]
      BY <1>2 DEF Frame
    <2>2. Top.pos + 1 \in Int /\ 0 \in Int /\ <<>> \in Text
      BY <1>2, Texts
    <2> QED BY <1>2, <2>1, <2>2, Updating
  <1>4. FrameShape(f)
    BY <1>1, <1>2, <1>3 DEF FrameShape
  <1>5. Top.node \in Node
    BY <1>2 DEF Frame
  <1> QED BY <1>1, <1>2, <1>3, <1>4, <1>5 DEF Called

LEMMA UserTypes ==
  ASSUME TypeInv, EnterUser \/ UserGotChild \/ UserGetChild \/ UserReturn
  PROVE  TypeInv'
  <1>1. DataOK /\ TaskOK
    BY DEF TypeInv
  <1>2. CASE EnterUser
    <2>1. task.node \in Node /\ stack # <<>> /\ Kind[task.node] = "user"
      BY <1>1, <1>2 DEF EnterUser, Entering, TaskOK
    <2>2. NewFrame("user", task.node) \in Frame /\ FrameShape(NewFrame("user", task.node))
      BY <2>1, Framing DEF FrameShape, NewFrame
    <2>3. GoesOn /\ Pushes
      BY <1>2, <2>2, Going DEF EnterUser, Pushes, Renders, NewFrame
    <2>4. DataOK'
      BY <1>1, <1>2 DEF EnterUser, DataOK, engine
    <2> QED BY <2>1, <2>3, <2>4, StackStep
  <1>3. CASE UserGotChild
    <2> DEFINE f == [Top EXCEPT !.text = Collected]
    <2>1. stack # <<>> /\ Top.kind = "user"
      BY <1>3 DEF UserGotChild, Leaving
    <2>2. Top \in Frame /\ FrameShape(Top) /\ Collected \in Text
      BY <2>1, TopOfStack, CollectedText DEF TypeInv, Shape, Stacked, Top
    <2>3. f \in Frame /\ f.kind = Top.kind /\ f.node = Top.node
      BY <2>2, Updating DEF Frame
    <2>4. FrameShape(f)
      BY <2>1, <2>2, <2>3 DEF FrameShape
    <2>5. GoesOn /\ Replaces
      BY <1>3, <2>1, <2>3, <2>4, Going DEF UserGotChild, Replaces
    <2>6. DataOK'
      BY <1>1, <1>3 DEF UserGotChild, DataOK, engine
    <2> QED BY <2>1, <2>5, <2>6, StackStep
  <1>4. CASE UserGetChild
    <2>1. task.op = "host"
      BY <1>4 DEF UserGetChild
    <2>2. stack # <<>> /\ Top.node \in Node
      BY <2>1, Calling
    <2>3. GoesOn /\ task'.op = "enter"
      BY <1>4, <2>2, Children, Going DEF UserGetChild
    <2>4. Replaces
      BY <1>4, <2>1, <2>3, Calling DEF UserGetChild, Replaces
    <2>5. DataOK'
      BY <1>1, <1>4 DEF UserGetChild, DataOK, engine
    <2> QED BY <2>2, <2>3, <2>4, <2>5, StackStep
  <1>5. CASE UserReturn
    <2>1. stack # <<>> /\ Top \in Frame /\ Top.kind = "user"
      BY <1>5, Calling DEF UserReturn
    <2>2. Top.text \o One(Top.node, Top.pos) \in Text
      <3>1. Top.text \in Text /\ Top.node \in Node /\ Top.pos \in Int
        BY <2>1 DEF Frame
      <3> QED BY <3>1, Texts
    <2>3. GoesOn /\ Pops
      BY <1>5, <2>1, <2>2, Going DEF UserReturn, Pops, Renders
    <2>4. DataOK'
      BY <1>1, <1>5 DEF UserReturn, DataOK, engine
    <2> QED BY <2>1, <2>3, <2>4, StackStep
  <1> QED BY <1>2, <1>3, <1>4, <1>5

LEMMA NoDepth == 0 \in 0 .. DepthModulus - 1
  BY BoundsAssumption

\* A render starts with nothing on the stack, or on top of a host's tag.
LEMMA BeginTypes ==
  ASSUME TypeInv, NEW t \in Templates, NEW s \in Seq(Frame), Stacked(s),
         s # <<>> => s[Len(s)].kind = "user", BeginRender(t, s),
         reply' \in {reply, NoReply}
  PROVE  TypeInv'
  <1>1. DataOK /\ TaskOK /\ t \in Node
    BY AstAssumption DEF TypeInv
  <1>2. GoesOn /\ task'.op = "enter"
    BY <1>1, Going DEF BeginRender
  <1>3. PICK k \in Renders : stack' = Append(s, NewFrame(k, t))
    BY DEF BeginRender, StartAfresh, Renders
  <1>4. NewFrame(k, t) \in Frame /\ NewFrame(k, t).kind = k /\ FrameShape(NewFrame(k, t))
    BY <1>1, Framing DEF NewFrame, FrameShape, Renders
  <1>5. stack' \in Seq(Frame) /\ stack' # <<>> /\ Stacked(stack')
    BY <1>3, <1>4, Pushing, PushStacked
  <1>6. DataOK'
    <2>1. reply' \in [outcome: {"none", "rendered", "reported", "threw", "escaped"},
                     node: Node \cup {NoNode}, text: Text]
      BY <1>1, Texts DEF DataOK, NoReply
    <2>2. CASE internalRender
      BY <1>1, <2>1, <2>2 DEF BeginRender, DataOK
    <2>3. CASE ~internalRender
      BY <1>1, <2>1, <2>3, NoDepth, Zenon DEF BeginRender, StartAfresh, DataOK
    <2> QED BY <2>2, <2>3
  <1>7. Shape' /\ TaskOK'
    BY <1>2, <1>5 DEF Shape, TaskOK, GoesOn, Stacked, FrameShape
  <1> QED BY <1>5, <1>6, <1>7 DEF TypeInv

LEMMA EmptyStack == <<>> \in Seq(Frame) /\ Stacked(<<>>)
  BY EmptySeq DEF Stacked

LEMMA HostTypes ==
  ASSUME TypeInv, (\E t \in Templates : RenderTemplate(t) \/ UserRender(t)) \/ RenderArgument
  PROVE  TypeInv'
  <1>1. ASSUME NEW t \in Templates, RenderTemplate(t) PROVE TypeInv'
    <2>1. stack = <<>>
      BY <1>1 DEF RenderTemplate, TypeInv, TaskOK
    <2> QED BY <1>1, <2>1, BeginTypes, EmptyStack DEF RenderTemplate
  <1>2. ASSUME NEW t \in Templates, UserRender(t) PROVE TypeInv'
    <2> DEFINE f == [Top EXCEPT !.pos = @ + 1]
    <2>1. /\ stack \in Seq(Frame) /\ stack # <<>> /\ Stacked(stack)
          /\ f \in Frame /\ FrameShape(f) /\ f.kind = "user" /\ Top.kind = "user"
          /\ Called = ReplaceTop(f)
      BY <1>2, Calling DEF UserRender, TypeInv, Shape
    <2> HIDE DEF f
    <2>2. Called \in Seq(Frame) /\ Called[Len(Called)].kind = "user"
      BY <2>1, Replacing DEF ReplaceTop
    <2>3. Stacked(Called)
      BY <2>1, ReplaceStacked DEF ReplaceTop, Top
    <2> QED BY <1>2, <2>2, <2>3, BeginTypes DEF UserRender
  <1>3. CASE RenderArgument
    <2>1. DataOK'
      BY <1>3, NoDepth, Zenon DEF RenderArgument, TypeInv, DataOK
    <2>2. TaskOK' /\ Shape' /\ stack' \in Seq(Frame)
      BY <1>3 DEF RenderArgument, TypeInv, TaskOK, Shape, Stacked, FrameShape, Top
    <2> QED BY <2>1, <2>2 DEF TypeInv
  <1> QED BY <1>1, <1>2, <1>3

LEMMA FinishTypes ==
  ASSUME TypeInv, FinishRender
  PROVE  TypeInv'
  <1>1. DataOK /\ TaskOK /\ stack \in Seq(Frame) /\ Stacked(stack)
    BY DEF TypeInv, Shape
  <1>2. CASE stack' = <<>> /\ task' = Idle /\ DataOK'
    <2>1. TaskOK' /\ Shape'
      BY <1>2, Tasks, EmptyStack DEF TaskOK, Shape
    <2> QED BY <1>2, <2>1, EmptyStack DEF TypeInv
  <1>3. stack # <<>> /\ Top.kind \in Renders
    BY DEF FinishRender, EndRender, Raise, Leaving, Renders
  <1>4. Len(stack) \in Nat \ {0} /\ Top \in Frame /\ stack[1] \in Frame
        /\ task.text \in Text /\ Top.node \in Node /\ stack[1].node \in Node
    <2>1. Len(stack) \in Nat \ {0} /\ Top \in Frame /\ task.text \in Text
      BY <1>3, TopOfStack, CollectedText
    <2>2. stack[1] \in Frame
      BY <1>1, <2>1, LenProperties
    <2> QED BY <2>1, <2>2 DEF Frame
  <1>5. StillRendering \in BOOLEAN
    BY <1>1 DEF StillRendering, DataOK
  <1>6. CASE EndRender /\ Len(stack) = 1
    <2>1. DataOK'
      BY <1>1, <1>4, <1>5, <1>6 DEF EndRender, DataOK
    <2> QED BY <1>2, <1>6, <2>1 DEF EndRender
  <1>7. CASE EndRender /\ Len(stack) # 1
    <2> DEFINE s == Popped
               u == [s[Len(s)] EXCEPT !.text = @ \o task.text]
    <2>1. /\ s \in Seq(Frame) /\ Len(s) = Len(stack) - 1 /\ s # <<>>
          /\ Stacked(s) /\ s[Len(s)] = stack[Len(stack) - 1]
      BY <1>1, <1>3, <1>4, <1>7, Popping, PopStacked DEF Popped
    <2>2. s[Len(s)].kind = "user"
      BY <1>1, <1>3, <1>4, <1>7, <2>1 DEF Stacked, Top
    <2>3. s[Len(s)] \in Frame /\ FrameShape(s[Len(s)])
      BY <2>1, LenProperties, EmptySeq DEF Stacked
    <2>4. stack' = [s EXCEPT ![Len(s)] = u] /\ task' = InHost /\ DataOK'
      BY <1>1, <1>5, <1>7, <2>1 DEF EndRender, DataOK
    <2> HIDE DEF s
    <2>5. s[Len(s)].text \o task.text \in Text
      BY <1>4, <2>3, Texts DEF Frame
    <2>6. u \in Frame /\ u.kind = "user" /\ u.node = s[Len(s)].node
      BY <2>2, <2>3, <2>5 DEF Frame
    <2>7. FrameShape(u)
      BY <2>2, <2>3, <2>6 DEF FrameShape
    <2> HIDE DEF u
    <2> DEFINE r == [s EXCEPT ![Len(s)] = u]
    <2>8. r \in Seq(Frame) /\ r # <<>> /\ r[Len(r)] = u
      BY <2>1, <2>6, Replacing
    <2>9. Stacked(r)
      BY <2>1, <2>2, <2>6, <2>7, ReplaceStacked
    <2>10. stack' = r
      BY <2>4
    <2> HIDE DEF r
    <2>11. /\ stack' \in Seq(Frame) /\ stack' # <<>> /\ Stacked(stack')
          /\ stack'[Len(stack')] = u
      BY <2>8, <2>9, <2>10
    <2>12. task' \in Task /\ task'.op = "host"
      BY <2>4, Tasks
    <2>13. TaskOK'
      BY <2>11, <2>12 DEF TaskOK
    <2>14. Stacked(stack)'
      BY <2>11 DEF Stacked, FrameShape
    <2>15. Shape'
      BY <2>6, <2>11, <2>14 DEF Shape, Top
    <2> QED BY <2>4, <2>11, <2>13, <2>15 DEF TypeInv
  <1>8. ASSUME NEW api \in {"string", "c"}, Raise(api) PROVE TypeInv'
    <2>1. DataOK'
      BY <1>1, <1>4, <1>5, <1>8, Texts DEF Raise, DataOK
    <2> QED BY <1>2, <1>8, <2>1 DEF Raise
  <1> QED BY <1>6, <1>7, <1>8 DEF FinishRender

LEMMA InitTypes == Init => TypeInv
  <1> SUFFICES ASSUME Init PROVE TypeInv
    OBVIOUS
  <1>1. DataOK
    <2>1. drops \in [Name -> Seq(Drop)] /\ store \in [Name -> Text]
      BY Texts, EmptySeq DEF Init
    <2>2. reply \in [outcome: {"none", "rendered", "reported", "threw", "escaped"},
                    node: Node \cup {NoNode}, text: Text]
      BY Texts DEF Init, NoReply
    <2> QED BY <2>1, <2>2, NoDepth, Zenon DEF Init, DataOK
  <1>2. TaskOK /\ Shape /\ stack \in Seq(Frame)
    BY Tasks, EmptyStack DEF Init, TaskOK, Shape
  <1> QED BY <1>1, <1>2 DEF TypeInv

LEMMA NextTypes == TypeInv /\ [Next]_vars => TypeInv'
  <1> SUFFICES ASSUME TypeInv, [Next]_vars PROVE TypeInv'
    OBVIOUS
  <1>1. CASE UNCHANGED vars
    BY <1>1 DEF vars, engine, TypeInv, DataOK, TaskOK, Shape, Stacked, FrameShape, Top
  <1>2. CASE Next
    BY <1>2, LeafTypes, ConcatTypes, LoopTypes, CaptureTypes, UserTypes, HostTypes, FinishTypes
       DEF Next, Host, Engine
  <1> QED BY <1>1, <1>2

LEMMA TypeInvariant == Spec => []TypeInv
  BY InitTypes, NextTypes, PTL DEF Spec

\* Every variable keeps its type, whatever the templates, the windows and the
\* bounds: the stack never runs dry under a call that has yet to return
\* (renderer.cpp:34-68), a concatenation never indexes past its children, and
\* the depth counter stays an unsigned int.
THEOREM TypeCorrect == Spec => []TypeOK
  BY TypeInvariant, TypeInvIsEnough, PTL

=============================================================================
