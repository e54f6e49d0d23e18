------------------------- MODULE LiquidRenderer_safety -------------------------
(***************************************************************************)
(* Safety of LiquidRenderer: loops, pending controls, the depth counter,   *)
(* the internal drops and errors.  A step either leaves the frames of a    *)
(* kind alone or is one of the few actions that push, pop or change such a *)
(* frame; each invariant below only looks at those.                        *)
(***************************************************************************)
EXTENDS LiquidRenderer_proofs

FrameKinds == {"outer", "inner", "concat", "single", "for", "capture", "user"}

\* The frame pushed is for the node being entered, or for a template's root.
Grows(k)   == \E f \in Frame : /\ f.kind = k /\ stack' = Append(stack, f)
                               /\ f.node \in Templates \/ (task.op = "enter" /\ f.node = task.node)
Shrinks(k) == stack # <<>> /\ Top.kind = k /\ stack' = Popped
Turns(k)   == stack # <<>> /\ Top.kind = k
              /\ \E f \in Frame : f.kind = k /\ f.node = Top.node /\ stack' = ReplaceTop(f)
\* A render that starts or ends inside a host's tag.
StartsInTag == \E t \in Templates : UserRender(t)
EndsInTag == EndRender /\ Len(stack) # 1
Clears == stack' = <<>> /\ (Len(stack) = 1 \/ \E api \in {"string", "c"} : Raise(api))

\* The frames of kind k are where they were, as they were.
Carries(k) ==
  /\ \A p \in DOMAIN stack : stack[p].kind = k => p \in DOMAIN stack' /\ stack'[p] = stack[p]
  /\ \A p \in DOMAIN stack' : stack'[p].kind = k => p \in DOMAIN stack /\ stack[p] = stack'[p]

LEMMA GrowsCarries ==
  ASSUME TypeInv, NEW k \in FrameKinds, NEW j \in FrameKinds \ {k}, Grows(j)
  PROVE  Carries(k)
  <1>1. PICK f \in Frame : f.kind = j /\ stack' = Append(stack, f)
    BY DEF Grows
  <1>2. stack \in Seq(Frame) /\ DOMAIN stack = 1 .. Len(stack)
    BY LenProperties DEF TypeInv
  <1>3. /\ Len(stack) \in Nat /\ DOMAIN stack' = 1 .. Len(stack) + 1
        /\ \A p \in 1 .. Len(stack) : stack'[p] = stack[p]
        /\ stack'[Len(stack) + 1] = f
    BY <1>1, <1>2, Pushing
  <1> QED BY <1>1, <1>2, <1>3 DEF Carries

LEMMA ShrinksCarries ==
  ASSUME TypeInv, NEW k \in FrameKinds, NEW j \in FrameKinds \ {k}, Shrinks(j)
  PROVE  Carries(k)
  <1>1. stack \in Seq(Frame) /\ stack # <<>> /\ DOMAIN stack = 1 .. Len(stack)
        /\ stack[Len(stack)].kind = j
    BY LenProperties DEF TypeInv, Shrinks, Top
  <1>2. /\ Len(stack) \in Nat \ {0} /\ DOMAIN stack' = 1 .. Len(stack) - 1
        /\ \A p \in 1 .. Len(stack) - 1 : stack'[p] = stack[p]
    BY <1>1, Popping DEF Shrinks, Popped
  <1> QED BY <1>1, <1>2 DEF Carries

LEMMA TurnsCarries ==
  ASSUME TypeInv, NEW k \in FrameKinds, NEW j \in FrameKinds \ {k}, Turns(j)
  PROVE  Carries(k)
  <1>1. PICK f \in Frame : f.kind = j /\ stack' = ReplaceTop(f)
    BY DEF Turns
  <1>2. stack \in Seq(Frame) /\ stack # <<>> /\ DOMAIN stack = 1 .. Len(stack)
        /\ stack[Len(stack)].kind = j
    BY LenProperties DEF TypeInv, Turns, Top
  <1> DEFINE r == [stack EXCEPT ![Len(stack)] = f]
  <1>3. /\ Len(stack) \in Nat \ {0} /\ DOMAIN r = 1 .. Len(stack)
        /\ \A p \in 1 .. Len(stack) - 1 : r[p] = stack[p]
        /\ r[Len(stack)] = f
    <2>1. stack \in Seq(Frame) /\ stack # <<>>
      BY <1>2
    <2> QED BY <2>1, Replacing
  <1> HIDE DEF r
  <1>4. stack' = r
    BY <1>1 DEF r, ReplaceTop
  <1> QED BY <1>1, <1>2, <1>3, <1>4 DEF Carries

LEMMA StartsInTagShape ==
  ASSUME TypeInv, StartsInTag
  PROVE  /\ Len(stack) \in Nat \ {0} /\ DOMAIN stack = 1 .. Len(stack) /\ stack # <<>>
         /\ stack[Len(stack)].kind = "user"
         /\ Len(stack') = Len(stack) + 1
         /\ DOMAIN stack' = 1 .. Len(stack) + 1
         /\ \A p \in 1 .. Len(stack) - 1 : stack'[p] = stack[p]
         /\ stack'[Len(stack)].kind = "user"
         /\ stack'[Len(stack)].node = stack[Len(stack)].node
         /\ \E r \in Renders, t \in Templates :
              /\ stack'[Len(stack) + 1] = NewFrame(r, t)
              /\ NewFrame(r, t).kind = r /\ NewFrame(r, t).node = t
              /\ internalRender => r = "inner"
  <1>1. PICK t \in Templates : UserRender(t)
    BY DEF StartsInTag
  <1> DEFINE u == [Top EXCEPT !.pos = @ + 1]
             s == ReplaceTop(u)
  <1>2. /\ stack # <<>> /\ Top.kind = "user" /\ u \in Frame /\ u.kind = "user"
        /\ u.node = Top.node /\ Called = s /\ stack \in Seq(Frame) /\ t \in Node
    BY <1>1, Calling, AstAssumption DEF UserRender, TypeInv
  <1>3. PICK r \in Renders : /\ stack' = Append(s, NewFrame(r, t))
                             /\ internalRender => r = "inner"
    BY <1>1, <1>2 DEF UserRender, BeginRender, StartAfresh, Renders
  <1> HIDE DEF u
  <1>4. /\ s \in Seq(Frame) /\ Len(stack) \in Nat \ {0} /\ Len(s) = Len(stack)
        /\ \A p \in 1 .. Len(stack) - 1 : s[p] = stack[p]
        /\ s[Len(stack)] = u
    BY <1>2, Replacing DEF ReplaceTop
  <1>5. NewFrame(r, t) \in Frame /\ NewFrame(r, t).kind = r /\ NewFrame(r, t).node = t
    BY <1>2, Framing DEF NewFrame, Renders
  <1> HIDE DEF s
  <1>6. /\ DOMAIN stack' = 1 .. Len(stack) + 1 /\ Len(stack') = Len(stack) + 1
        /\ \A p \in 1 .. Len(stack) : stack'[p] = s[p]
        /\ stack'[Len(stack) + 1] = NewFrame(r, t)
    BY <1>3, <1>4, <1>5, Pushing
  <1>7. DOMAIN stack = 1 .. Len(stack) /\ stack[Len(stack)] = Top
    BY <1>2, LenProperties DEF Top
  <1>8. /\ \A p \in 1 .. Len(stack) - 1 : stack'[p] = stack[p]
        /\ stack'[Len(stack)] = u
    BY <1>4, <1>6
  <1> QED BY <1>2, <1>3, <1>4, <1>5, <1>6, <1>7, <1>8

LEMMA StartsInTagCarries ==
  ASSUME TypeInv, NEW k \in FrameKinds \ {"user", "outer", "inner"}, StartsInTag
  PROVE  Carries(k)
  <1>1. /\ Len(stack) \in Nat \ {0} /\ DOMAIN stack = 1 .. Len(stack)
        /\ stack[Len(stack)].kind # k
        /\ DOMAIN stack' = 1 .. Len(stack) + 1
        /\ \A p \in 1 .. Len(stack) - 1 : stack'[p] = stack[p]
        /\ stack'[Len(stack)].kind # k /\ stack'[Len(stack) + 1].kind # k
    BY StartsInTagShape DEF Renders
  <1> QED BY <1>1 DEF Carries

LEMMA EndsInTagShape ==
  ASSUME TypeInv, EndsInTag
  PROVE  /\ Len(stack) \in Nat \ {0, 1} /\ DOMAIN stack = 1 .. Len(stack)
         /\ stack[Len(stack)].kind \in Renders
         /\ stack[Len(stack) - 1].kind = "user"
         /\ DOMAIN stack' = 1 .. Len(stack) - 1
         /\ \A p \in 1 .. Len(stack) - 2 : stack'[p] = stack[p]
         /\ stack'[Len(stack) - 1].kind = "user"
         /\ stack'[Len(stack) - 1].node = stack[Len(stack) - 1].node
  <1>1. /\ stack \in Seq(Frame) /\ stack # <<>> /\ Stacked(stack)
        /\ Top.kind \in Renders /\ Len(stack) # 1
    BY DEF EndsInTag, EndRender, Leaving, Renders, TypeInv, Shape
  <1>2. /\ Len(stack) \in Nat \ {0, 1} /\ DOMAIN stack = 1 .. Len(stack)
        /\ stack[Len(stack)].kind \in Renders
    BY <1>1, LenProperties, EmptySeq DEF Top
  <1>3. stack[Len(stack) - 1].kind = "user"
    BY <1>1, <1>2 DEF Stacked
  <1> DEFINE s == Popped
             n == Len(stack)
             u == [s[n - 1] EXCEPT !.text = @ \o task.text]
  <1>4. s \in Seq(Frame) /\ DOMAIN s = 1 .. n - 1 /\ \A p \in 1 .. n - 1 : s[p] = stack[p]
    BY <1>1, Popping DEF Popped
  <1>5. stack' = [s EXCEPT ![n - 1] = u]
    BY DEF EndsInTag, EndRender
  <1> HIDE DEF s, n
  <1>6. n - 1 \in 1 .. n - 1 /\ n - 1 \in DOMAIN s
    BY <1>2, <1>4 DEF n
  <1>7. s[n - 1] \in Frame /\ s[n - 1] = stack[n - 1]
    BY <1>4, <1>6, LenProperties
  <1>8. u.kind = s[n - 1].kind /\ u.node = s[n - 1].node
    BY <1>7 DEF Frame
  <1> HIDE DEF u
  <1>9. /\ DOMAIN stack' = 1 .. n - 1
        /\ stack'[n - 1] = u
        /\ \A p \in 1 .. n - 1 : p # n - 1 => stack'[p] = s[p]
    BY <1>4, <1>5, <1>6
  <1>10. \A p \in 1 .. n - 2 : p \in 1 .. n - 1 /\ p # n - 1
    <2>1. n \in Int
      BY <1>2 DEF n
    <2> QED BY <2>1
  <1>11. \A p \in 1 .. n - 2 : stack'[p] = stack[p]
    BY <1>4, <1>9, <1>10
  <1> QED BY <1>1, <1>2, <1>3, <1>7, <1>8, <1>9, <1>11 DEF n

LEMMA EndsInTagCarries ==
  ASSUME TypeInv, NEW k \in FrameKinds \ {"user", "outer", "inner"}, EndsInTag
  PROVE  Carries(k)
  <1> DEFINE n == Len(stack)
  <1>1. /\ n \in Nat \ {0, 1} /\ DOMAIN stack = 1 .. n /\ DOMAIN stack' = 1 .. n - 1
        /\ \A p \in 1 .. n - 2 : stack'[p] = stack[p]
        /\ stack[n].kind # k /\ stack[n - 1].kind # k /\ stack'[n - 1].kind # k
    BY EndsInTagShape DEF Renders
  <1> HIDE DEF n
  <1>2. \A p \in 1 .. n : p = n \/ p = n - 1 \/ p \in 1 .. n - 2
    BY <1>1
  <1>3. \A p \in 1 .. n - 1 : p \in 1 .. n /\ p # n
    BY <1>1
  <1>4. \A p \in 1 .. n - 2 : p \in 1 .. n /\ p \in 1 .. n - 1
    BY <1>1
  <1> QED BY <1>1, <1>2, <1>3, <1>4, Zenon DEF Carries

\* Everything but the loops' and the concatenations' own steps.
LoopSteps   == (\E w \in Windows : EnterLoop(w)) \/ NextIteration \/ LeaveLoop
ConcatSteps == EnterConcat \/ NextChild \/ AbandonConcat \/ LeaveConcat
Others(k) == \/ stack' = stack
             \/ \E j \in FrameKinds \ {k} : \/ Grows(j) /\ (j \in Renders => stack = <<>>)
                                           \/ Shrinks(j) \/ Turns(j)
             \/ StartsInTag
             \/ EndsInTag
             \/ Clears

LEMMA EnterLoopGrows ==
  ASSUME TypeInv, NEW w \in Windows, EnterLoop(w)
  PROVE  Grows("for")
  <1> DEFINE f == [NewFrame("for", task.node) EXCEPT
                     !.pos = FirstElement(w), !.idx = LoopStart(w), !.win = w]
  <1>1. task.op = "enter" /\ task.node \in Node
    BY DEF EnterLoop, Entering, TypeInv, TaskOK
  <1>2. f \in Frame /\ f.kind = "for" /\ f.node = task.node
    BY <1>1, Texts, WindowTypes DEF NewFrame, Frame
  <1> QED BY <1>1, <1>2 DEF EnterLoop, Push, Grows

LEMMA NextIterationTurns ==
  ASSUME TypeInv, NextIteration
  PROVE  Turns("for")
  <1> DEFINE f == [Top EXCEPT !.pos = NextElement(Top.win, @), !.idx = @ + 1, !.text = Collected]
  <1>1. stack # <<>> /\ Top.kind = "for" /\ stack' = ReplaceTop(f)
    BY DEF NextIteration, Leaving
  <1>2. Top \in Frame /\ Collected \in Text
    BY <1>1, TopOfStack, CollectedText
  <1>3. Top.pos \in Int /\ Top.idx + 1 \in Int /\ NextElement(Top.win, Top.pos) \in Int
    BY <1>2 DEF Frame, NextElement
  <1>4. f = [Top EXCEPT !.pos = NextElement(Top.win, Top.pos), !.idx = Top.idx + 1, !.text = Collected]
    BY <1>2 DEF Frame
  <1>5. f \in Frame /\ f.kind = Top.kind /\ f.node = Top.node
    BY <1>2, <1>3, <1>4, Updating
  <1> QED BY <1>1, <1>5 DEF Turns

LEMMA FramesOfOthers ==
  ASSUME TypeInv, [Next]_vars, NEW k \in {"for", "concat"}
  PROVE  \/ Others(k)
         \/ k = "for" /\ LoopSteps
         \/ k = "concat" /\ ConcatSteps
  <1>1. task.op = "enter" => task.node \in Node
    BY DEF TypeInv, TaskOK
  <1>2. stack # <<>> => Top \in Frame /\ Collected \in Text
    BY TopOfStack, CollectedText
  <1>3. ASSUME NEW j \in FrameKinds, NEW f \in Frame, f.kind = j,
               stack' = Append(stack, f) \/ stack' = Push(f), j # k,
               j \in Renders => stack = <<>>,
               f.node \in Templates \/ (task.op = "enter" /\ f.node = task.node)
        PROVE  Others(k)
    BY <1>3 DEF Others, Grows, Push
  <1>4. CASE UNCHANGED vars
    BY <1>4 DEF vars, Others
  <1>5. CASE RenderLeaf \/ RenderBranch \/ RenderArgument \/ SkipLoop \/ RenderCycle
             \/ (\E w \in Windows : EmptyLoop(w)) \/ ExceedDepth \/ EnterEmpty
    BY <1>5 DEF RenderLeaf, RenderText, RenderRead, RenderAssign, RenderBreak, RenderBranch,
         RenderArgument, SkipLoop, RenderCycle, EmptyLoop, ExceedDepth, EnterEmpty, Others
  <1>6. CASE LeaveSingle \/ LeaveCapture \/ UserReturn
    <2>1. \E j \in {"single", "capture", "user"} : Shrinks(j)
      BY <1>6, Calling DEF LeaveSingle, LeaveCapture, UserReturn, Leaving, Shrinks
    <2> QED BY <2>1 DEF Others, FrameKinds
  <1>7. CASE EnterSingle
    <2>1. /\ NewFrame("single", task.node) \in Frame /\ NewFrame("single", task.node).kind = "single"
          /\ NewFrame("single", task.node).node = task.node /\ task.op = "enter"
      BY <1>1, <1>7, Framing DEF EnterSingle, Entering, NewFrame
    <2> QED BY <1>3, <1>7, <2>1 DEF EnterSingle, FrameKinds, Renders
  <1>8. CASE EnterCapture
    <2>1. /\ NewFrame("capture", task.node) \in Frame /\ NewFrame("capture", task.node).kind = "capture"
          /\ NewFrame("capture", task.node).node = task.node /\ task.op = "enter"
      BY <1>1, <1>8, Framing DEF EnterCapture, Entering, NewFrame
    <2> QED BY <1>3, <1>8, <2>1 DEF EnterCapture, FrameKinds, Renders
  <1>9. CASE EnterUser
    <2>1. /\ NewFrame("user", task.node) \in Frame /\ NewFrame("user", task.node).kind = "user"
          /\ NewFrame("user", task.node).node = task.node /\ task.op = "enter"
      BY <1>1, <1>9, Framing DEF EnterUser, Entering, NewFrame
    <2> QED BY <1>3, <1>9, <2>1 DEF EnterUser, FrameKinds, Renders
  <1>10. ASSUME NEW t \in Templates, RenderTemplate(t) PROVE Others(k)
    <2>1. PICK r \in Renders : stack' = Append(stack, NewFrame(r, t))
      BY <1>10 DEF RenderTemplate, BeginRender, StartAfresh, Renders
    <2>2. NewFrame(r, t) \in Frame /\ NewFrame(r, t).kind = r /\ NewFrame(r, t).node = t
      BY AstAssumption, Framing DEF NewFrame, Renders
    <2>3. stack = <<>>
      BY <1>10 DEF RenderTemplate, TypeInv, TaskOK
    <2> QED BY <1>3, <2>1, <2>2, <2>3 DEF FrameKinds, Renders
  <1>11. CASE \E t \in Templates : UserRender(t)
    BY <1>11 DEF Others, StartsInTag
  <1>12. CASE UserGetChild \/ UserGotChild
    <2>1. Turns("user")
      <3>1. CASE UserGetChild
        BY <3>1, Calling DEF UserGetChild, Turns
      <3>2. CASE UserGotChild
        <4> DEFINE f == [Top EXCEPT !.text = Collected]
        <4>1. stack # <<>> /\ Top.kind = "user" /\ stack' = ReplaceTop(f)
          BY <3>2 DEF UserGotChild, Leaving
        <4>2. f \in Frame /\ f.kind = Top.kind /\ f.node = Top.node
          BY <1>2, <4>1, Updating DEF Frame
        <4> QED BY <4>1, <4>2 DEF Turns
      <3> QED BY <1>12, <3>1, <3>2
    <2> QED BY <2>1 DEF Others, FrameKinds
  <1>13. CASE FinishRender
    <2>1. EndRender /\ Len(stack) = 1 => Clears
      BY DEF EndRender, Clears
    <2>2. \A api \in {"string", "c"} : Raise(api) => Clears
      BY DEF Raise, Clears
    <2> QED BY <1>13, <2>1, <2>2 DEF FinishRender, Others, EndsInTag
  <1>14. CASE LoopSteps
    <2>1. k = "concat" => Others(k)
      <3>1. ASSUME NEW w \in Windows, EnterLoop(w) PROVE Grows("for")
        BY <3>1, EnterLoopGrows
      <3>2. CASE NextIteration
        BY <3>2, NextIterationTurns DEF Others, FrameKinds
      <3>3. CASE LeaveLoop
        BY <3>3 DEF LeaveLoop, Leaving, Shrinks, Others, FrameKinds
      <3> QED BY <1>14, <3>1, <3>2, <3>3 DEF LoopSteps, Others, FrameKinds, Renders
    <2> QED BY <1>14, <2>1
  <1>15. CASE ConcatSteps
    <2>1. k = "for" => Others(k)
      <3>1. CASE EnterConcat
        <4> DEFINE f == [NewFrame("concat", task.node) EXCEPT !.pos = 1]
        <4>1. f \in Frame /\ f.kind = "concat" /\ f.node = task.node /\ task.op = "enter"
          BY <1>1, <3>1, Framing DEF EnterConcat, Entering, NewFrame, Frame
        <4> QED BY <3>1, <4>1 DEF EnterConcat, Push, Grows, Others, FrameKinds, Renders
      <3>2. CASE NextChild
        <4> DEFINE f == [Top EXCEPT !.pos = @ + 1, !.text = Collected]
        <4>1. stack # <<>> /\ Top.kind = "concat" /\ stack' = ReplaceTop(f)
          BY <3>2 DEF NextChild, Leaving
        <4>2. Top.pos + 1 \in Int /\ f = [Top EXCEPT !.pos = Top.pos + 1, !.text = Collected]
          BY <1>2, <4>1 DEF Frame
        <4>3. f \in Frame /\ f.kind = Top.kind /\ f.node = Top.node
          <5>1. Top \in Frame /\ Collected \in Text /\ Top.pos + 1 \in Int
            BY <1>2, <4>1, <4>2
          <5> QED BY <4>2, <5>1, Updating
        <4> QED BY <4>1, <4>3 DEF Turns, Others, FrameKinds
      <3>3. CASE AbandonConcat \/ LeaveConcat
        BY <3>3 DEF AbandonConcat, LeaveConcat, Leaving, Shrinks, Others, FrameKinds
      <3> QED BY <1>15, <3>1, <3>2, <3>3 DEF ConcatSteps
    <2> QED BY <1>15, <2>1
  <1>16. CASE Next
    BY <1>5, <1>6, <1>7, <1>8, <1>9, <1>10, <1>11, <1>12, <1>13, <1>14, <1>15, <1>16
       DEF Next, Host, Engine, RenderLoop, RenderConcat, RenderCapture, LoopSteps, ConcatSteps
  <1> QED BY <1>4, <1>16

\* A step of another kind leaves the loops (the concatenations) alone, except
\* when it ends the whole render.
LEMMA OthersCarry ==
  ASSUME TypeInv, NEW k \in {"for", "concat"}, Others(k)
  PROVE  Carries(k) \/ Clears
  <1>1. CASE stack' = stack
    BY <1>1 DEF Carries
  <1>2. ASSUME NEW j \in FrameKinds \ {k}, Grows(j) \/ Shrinks(j) \/ Turns(j) PROVE Carries(k)
    BY <1>2, GrowsCarries, ShrinksCarries, TurnsCarries DEF FrameKinds
  <1>3. CASE StartsInTag \/ EndsInTag
    BY <1>3, StartsInTagCarries, EndsInTagCarries DEF FrameKinds
  <1> QED BY <1>1, <1>2, <1>3 DEF Others

LEMMA NotBoth == ~(LoopSteps /\ ConcatSteps)
  BY DEF LoopSteps, EnterLoop, NextIteration, LeaveLoop, ConcatSteps, EnterConcat, NextChild,
         AbandonConcat, LeaveConcat, Entering, Leaving

LEMMA ClearedCarries ==
  ASSUME TypeInv, NEW k \in {"for", "concat"}, Clears, Len(stack) = 1
  PROVE  Carries(k)
  <1>1. DOMAIN stack = 1 .. 1 /\ (stack # <<>> => stack[1].kind \in Renders) /\ stack # <<>>
    BY LenProperties, EmptySeq DEF TypeInv, Shape, Stacked
  <1>2. DOMAIN stack' = {} /\ \A p \in DOMAIN stack : p = 1
    BY <1>1 DEF Clears
  <1> QED BY <1>1, <1>2 DEF Carries, Renders

-----------------------------------------------------------------------------
(* Loops stay in their window.                                             *)

InWindow(f) ==
  /\ f.win \in Windows
  /\ LoopStart(f.win) <= f.pos /\ f.pos <= LoopEnd(f.win)
  /\ f.idx - LoopStart(f.win)
       = IF f.win.reversed THEN LoopEnd(f.win) - f.pos ELSE f.pos - LoopStart(f.win)

LoopInv == \A p \in DOMAIN stack : stack[p].kind = "for" => InWindow(stack[p])

LEMMA LoopInvInit == Init => LoopInv
  BY DEF Init, LoopInv

LEMMA LoopInvNext == TypeInv /\ LoopInv /\ [Next]_vars => LoopInv'
  <1> SUFFICES ASSUME TypeInv, LoopInv, [Next]_vars PROVE LoopInv'
    OBVIOUS
  <1>1. Others("for") \/ LoopSteps
    BY FramesOfOthers
  <1>2. task.op = "enter" => task.node \in Node
    BY DEF TypeInv, TaskOK
  <1>3. /\ stack \in Seq(Frame) /\ DOMAIN stack = 1 .. Len(stack) /\ Len(stack) \in Nat
        /\ stack # <<>> => Top = stack[Len(stack)] /\ Top \in Frame /\ Len(stack) \in Nat \ {0}
        /\ stack # <<>> => Collected \in Text
    BY LenProperties, TopOfStack, CollectedText DEF TypeInv
  <1>4. CASE Clears
    BY <1>4 DEF Clears, LoopInv
  <1>5. CASE Carries("for")
    BY <1>5 DEF Carries, LoopInv, InWindow
  <1>6. ASSUME NEW w \in Windows, EnterLoop(w) PROVE LoopInv'
    <2> DEFINE f == [NewFrame("for", task.node) EXCEPT
                       !.pos = FirstElement(w), !.idx = LoopStart(w), !.win = w]
    <2>1. f \in Frame /\ f.kind = "for" /\ f.win = w /\ f.pos = FirstElement(w) /\ f.idx = LoopStart(w)
      BY <1>2, <1>6, Texts, WindowTypes DEF EnterLoop, Entering, NewFrame, Frame
    <2>2. stack' = Append(stack, f)
      BY <1>6 DEF EnterLoop, Push
    <2> HIDE DEF f
    <2>3. ~IsEmptyLoop(w) /\ LoopStart(w) \in Int /\ LoopEnd(w) \in Int
      BY <1>6, WindowTypes DEF EnterLoop
    <2>4. InWindow(f)
      BY <2>1, <2>3 DEF InWindow, FirstElement, IsEmptyLoop
    <2>5. /\ DOMAIN stack' = 1 .. Len(stack) + 1
          /\ \A p \in 1 .. Len(stack) : stack'[p] = stack[p]
          /\ stack'[Len(stack) + 1] = f
      BY <1>3, <2>1, <2>2, Pushing
    <2> QED BY <1>3, <2>4, <2>5 DEF LoopInv, InWindow
  <1>7. CASE NextIteration
    <2> DEFINE f == [Top EXCEPT !.pos = NextElement(Top.win, @),
                                !.idx = @ + 1, !.text = Collected]
    <2>1. stack # <<>> /\ Top.kind = "for" /\ stack' = ReplaceTop(f) /\ Top.pos # LastElement(Top.win)
      BY <1>7 DEF NextIteration, Leaving
    <2>2. InWindow(Top) /\ Top \in Frame
      BY <1>3, <2>1 DEF LoopInv
    <2>3. Top.pos \in Int /\ Top.idx \in Int /\ NextElement(Top.win, Top.pos) \in Int
      BY <2>2 DEF Frame, NextElement
    <2>4. f.pos = NextElement(Top.win, Top.pos) /\ f.idx = Top.idx + 1
      BY <2>2 DEF Frame
    <2>5. f = [Top EXCEPT !.pos = NextElement(Top.win, Top.pos),
                          !.idx = Top.idx + 1, !.text = Collected]
      BY <2>2 DEF Frame
    <2>6. f \in Frame /\ f.win = Top.win
      <3>1. Collected \in Text /\ Top.idx + 1 \in Int
        BY <1>3, <2>1, <2>3
      <3> QED BY <2>2, <2>3, <2>5, <3>1, Updating
    <2> HIDE DEF f
    <2>7. LoopStart(Top.win) \in Int /\ LoopEnd(Top.win) \in Int
      BY <2>2, WindowTypes DEF InWindow
    <2>8. InWindow(f)
      <3> DEFINE w == Top.win
      <3>1. /\ w \in Windows /\ LoopStart(w) <= Top.pos /\ Top.pos <= LoopEnd(w)
            /\ Top.idx - LoopStart(w)
                 = IF w.reversed THEN LoopEnd(w) - Top.pos ELSE Top.pos - LoopStart(w)
        BY <2>2 DEF InWindow
      <3>2. CASE w.reversed
        <4>1. f.pos = Top.pos - 1 /\ Top.pos # LoopStart(w)
          BY <2>1, <2>4, <3>2 DEF NextElement, LastElement
        <4> QED BY <2>3, <2>4, <2>6, <2>7, <3>1, <3>2, <4>1 DEF InWindow
      <3>3. CASE ~w.reversed
        <4>1. f.pos = Top.pos + 1 /\ Top.pos # LoopEnd(w)
          BY <2>1, <2>4, <3>3 DEF NextElement, LastElement
        <4> QED BY <2>3, <2>4, <2>6, <2>7, <3>1, <3>3, <4>1 DEF InWindow
      <3> QED BY <3>2, <3>3
    <2> DEFINE r == [stack EXCEPT ![Len(stack)] = f]
    <2>9. stack' = r
      BY <2>1 DEF ReplaceTop
    <2>10. DOMAIN r = 1 .. Len(stack) /\ r[Len(stack)] = f
           /\ \A p \in 1 .. Len(stack) - 1 : r[p] = stack[p]
      <3>1. stack \in Seq(Frame) /\ stack # <<>>
        BY <1>3, <2>1
      <3> QED BY <2>6, <3>1, Replacing
    <2> HIDE DEF r
    <2> QED BY <1>3, <2>1, <2>8, <2>9, <2>10 DEF LoopInv, InWindow
  <1>8. CASE LeaveLoop
    <2>1. stack # <<>> /\ stack' = SubSeq(stack, 1, Len(stack) - 1)
      BY <1>8 DEF LeaveLoop, Leaving, Popped
    <2>2. DOMAIN stack' = 1 .. Len(stack) - 1 /\ \A p \in 1 .. Len(stack) - 1 : stack'[p] = stack[p]
      BY <1>3, <2>1, Popping
    <2> QED BY <1>3, <2>1, <2>2 DEF LoopInv, InWindow
  <1> QED BY <1>1, <1>4, <1>5, <1>6, <1>7, <1>8, OthersCarry DEF LoopSteps

LEMMA LoopInvariant == Spec => []LoopInv
  BY TypeInvariant, LoopInvInit, LoopInvNext, PTL DEF Spec

\* For any window, forloop.index0 (the idx that dialect.cpp:457-601 counts up)
\* is the distance of the current element from the end the loop started at.
THEOREM IndexInStep == Spec => []IndexTracksElement
  <1>1. LoopInv => IndexTracksElement
    BY DEF LoopInv, InWindow, IndexTracksElement, Frames
  <1> QED BY <1>1, LoopInvariant, PTL

\* For every size, offset, limit and direction: the place a loop is at holds an
\* element of its sequence, or is the first one past the end, and that only in an
\* array of the store, whose window CPPVariable::iterate cuts one too late
\* (cppvariable.h:317; dialect.cpp:569 does not).
THEOREM LoopsInSequence == Spec => []LoopStaysInSequence
  <1>1. ASSUME NEW w \in Windows, NEW i \in Int, LoopStart(w) <= i, i <= LoopEnd(w)
        PROVE  i \in 0 .. w.size - 1 \/ (ReachesPastEnd(w) /\ i = w.size)
    <2>1. w \in Window
      BY BoundsAssumption
    <2>2. /\ LoopStart(w) \in Nat /\ LoopLimit(w) \in Int /\ w.size \in Int
          /\ w.path \in {"variant", "resolver"}
      BY <2>1 DEF LoopStart, LoopLimit, Larger, Window
    <2>3. CASE w.path = "variant"
      BY <1>1, <2>2, <2>3 DEF LoopEnd, Smaller
    <2>4. CASE w.path = "resolver" /\ w.size < 0
      BY <1>1, <2>2, <2>4 DEF LoopEnd
    <2>5. CASE w.path = "resolver" /\ w.size >= 0
      <3>1. LoopEnd(w) = Smaller(LoopStart(w) + LoopLimit(w) - 1, w.size)
        BY <2>2, <2>5 DEF LoopEnd
      <3> QED BY <1>1, <2>2, <2>5, <3>1 DEF ReachesPastEnd, Smaller
    <2> QED BY <2>2, <2>3, <2>4, <2>5
  <1>2. TypeInv /\ LoopInv => LoopStaysInSequence
    <2> SUFFICES ASSUME TypeInv, LoopInv, NEW p \in DOMAIN stack, stack[p].kind = "for"
                 PROVE  \/ stack[p].pos \in 0 .. stack[p].win.size - 1
                        \/ ReachesPastEnd(stack[p].win) /\ stack[p].pos = stack[p].win.size
      BY DEF LoopStaysInSequence, Frames
    <2>1. InWindow(stack[p]) /\ stack[p] \in Frame
      BY LenProperties DEF LoopInv, TypeInv
    <2>2. stack[p].pos \in Int /\ stack[p].win \in Windows
      BY <2>1 DEF Frame, InWindow
    <2> QED BY <1>1, <2>1, <2>2 DEF InWindow
  <1> QED BY <1>2, TypeInvariant, LoopInvariant, PTL

-----------------------------------------------------------------------------
(* Renders, when no exception of a nested render flies through an outer one. *)

HostInv ==
  /\ stack # <<>> => stack[1].kind = "outer"
  /\ task.op = "idle" => ~internalRender
  /\ "render" \notin HostCalls => \A p \in 2 .. Len(stack) : stack[p].kind \notin Renders

\* How a render can leave the host in control with nothing on the stack.
LEMMA GoesIdle ==
  ASSUME TypeInv, [Next]_vars, task'.op = "idle"
  PROVE  \/ task' = task /\ internalRender' = internalRender
         \/ RenderArgument /\ internalRender' = FALSE
         \/ Clears /\ internalRender' = StillRendering
  <1>1. /\ \A n : Enter(n).op = "enter"
        /\ \A v : Leave(v).op = "leave"
        /\ \A n, v : ElseOr(n, v).op \in {"enter", "leave"}
        /\ InHost.op = "host"
    BY DEF Enter, Leave, InHost, ElseOr
  <1>2. CASE UNCHANGED vars
    BY <1>2 DEF vars, engine
  <1>3. CASE RenderLeaf \/ RenderBranch
    BY <1>1, <1>3 DEF RenderLeaf, RenderText, RenderRead, RenderAssign, RenderBreak, RenderBranch
  <1>4. CASE RenderConcat
    <2>1. CASE LeaveSingle
      BY <2>1 DEF LeaveSingle, engine
    <2> QED BY <1>1, <1>4, <2>1 DEF RenderConcat, ExceedDepth, EnterSingle, EnterEmpty, EnterConcat,
         AbandonConcat, NextChild, LeaveConcat
  <1>5. CASE RenderLoop
    BY <1>1, <1>5 DEF RenderLoop, SkipLoop, EmptyLoop, EnterLoop, NextIteration, LeaveLoop, RenderCycle
  <1>6. CASE RenderCapture \/ EnterUser \/ UserGotChild \/ UserGetChild \/ UserReturn
    BY <1>1, <1>6 DEF RenderCapture, EnterCapture, LeaveCapture, EnterUser, UserGotChild,
         UserGetChild, UserReturn
  <1>7. CASE \E t \in Templates : RenderTemplate(t) \/ UserRender(t)
    BY <1>1, <1>7 DEF RenderTemplate, UserRender, BeginRender
  <1>8. CASE RenderArgument
    BY <1>8 DEF RenderArgument
  <1>9. CASE FinishRender
    BY <1>1, <1>9 DEF FinishRender, EndRender, Raise, Clears
  <1> QED BY <1>2, <1>3, <1>4, <1>5, <1>6, <1>7, <1>8, <1>9 DEF Next, Host, Engine

\* When a render ends and the stack with it, it was the only one.
LEMMA ClearsAtBottom ==
  ASSUME TypeInv, HostInv, NoNestedThrow, Clears, stack # <<>>
  PROVE  Len(stack) = 1 /\ Top.kind = "outer"
  <1>1. Len(stack) \in Nat \ {0} /\ Top = stack[Len(stack)]
    BY TopOfStack
  <1>2. CASE Len(stack) = 1
    BY <1>1, <1>2 DEF HostInv
  <1>3. CASE Len(stack) # 1
    <2>1. PICK api \in {"string", "c"} : Raise(api)
      BY <1>3 DEF Clears
    <2>2. Top.kind \in Renders /\ "render" \notin HostCalls
      BY <2>1 DEF Raise, Leaving, Renders, NoNestedThrow
    <2>3. Len(stack) \in 2 .. Len(stack)
      BY <1>1, <1>3
    <2> QED BY <1>1, <2>2, <2>3 DEF HostInv
  <1> QED BY <1>2, <1>3

LEMMA HostInvInit == Init => HostInv
  BY EmptySeq DEF Init, HostInv

LEMMA HostInvNext == NoNestedThrow /\ TypeInv /\ HostInv /\ [Next]_vars => HostInv'
  <1> SUFFICES ASSUME NoNestedThrow, TypeInv, HostInv, [Next]_vars PROVE HostInv'
    OBVIOUS
  <1>1. /\ stack \in Seq(Frame) /\ DOMAIN stack = 1 .. Len(stack) /\ Len(stack) \in Nat
        /\ stack # <<>> => Top = stack[Len(stack)] /\ Len(stack) \in Nat \ {0}
        /\ task.op = "idle" <=> stack = <<>>
    BY LenProperties, TopOfStack DEF TypeInv, TaskOK
  <1>2. task'.op = "idle" => ~internalRender'
    <2> SUFFICES ASSUME task'.op = "idle" PROVE ~internalRender'
      OBVIOUS
    <2>1. CASE task' = task /\ internalRender' = internalRender
      BY <2>1 DEF HostInv
    <2>2. CASE RenderArgument /\ internalRender' = FALSE
      BY <2>2
    <2>3. CASE Clears /\ internalRender' = StillRendering
      <3>1. CASE stack = <<>>
        BY <1>1, <2>3, <3>1 DEF HostInv, StillRendering
      <3>2. CASE stack # <<>>
        BY <2>3, <3>2, ClearsAtBottom DEF StillRendering
      <3> QED BY <3>1, <3>2
    <2> QED BY <2>1, <2>2, <2>3, GoesIdle
  <1> DEFINE Bottom == stack' # <<>> => stack'[1].kind = "outer"
             Single == "render" \notin HostCalls => \A p \in 2 .. Len(stack') : stack'[p].kind \notin Renders
  <1>3. CASE stack' = stack
    <2>1. Bottom /\ Single
      BY <1>3 DEF HostInv
    <2> QED BY <1>2, <2>1 DEF HostInv
  <1>4. CASE Clears
    <2>1. Bottom /\ Single
      BY <1>4, EmptySeq DEF Clears
    <2> QED BY <1>2, <2>1 DEF HostInv
  <1>5. ASSUME NEW j \in FrameKinds, Grows(j), j \in Renders => stack = <<>> PROVE HostInv'
    <2>1. PICK f \in Frame : f.kind = j /\ stack' = Append(stack, f)
      BY <1>5 DEF Grows
    <2>2. /\ Len(stack') = Len(stack) + 1
          /\ \A p \in 1 .. Len(stack) : stack'[p] = stack[p]
          /\ stack'[Len(stack) + 1] = f
      BY <1>1, <2>1, Pushing
    <2>3. stack = <<>> => j = "outer"
      <3> SUFFICES ASSUME stack = <<>> PROVE j = "outer"
        OBVIOUS
      <3>1. task.op = "idle" /\ ~internalRender
        BY <1>1 DEF HostInv
      <3>2. stack' # stack
        BY <1>1, <2>2
      <3>3. \E t \in Templates : RenderTemplate(t)
        BY <3>1, <3>2 DEF vars, Next, Host, Engine, RenderLeaf, RenderText, RenderRead, RenderAssign,
           RenderBreak, RenderBranch, RenderConcat, ExceedDepth, EnterSingle, LeaveSingle, EnterEmpty,
           EnterConcat, AbandonConcat, NextChild, LeaveConcat, RenderLoop, SkipLoop, EmptyLoop,
           EnterLoop, NextIteration, LeaveLoop, RenderCycle, RenderCapture, EnterCapture, LeaveCapture,
           EnterUser, UserGotChild, UserGetChild, UserReturn, UserRender, RenderArgument,
           FinishRender, EndRender, Raise, Entering, Leaving
      <3>4. PICK t \in Templates : stack' = Append(stack, NewFrame("outer", t))
        BY <3>1, <3>3 DEF RenderTemplate, BeginRender, StartAfresh
      <3>5. NewFrame("outer", t) \in Frame /\ NewFrame("outer", t).kind = "outer"
        BY AstAssumption, Framing DEF NewFrame
      <3>6. stack'[Len(stack) + 1] = NewFrame("outer", t)
        BY <1>1, <3>4, <3>5, Pushing
      <3> QED BY <2>1, <2>2, <3>5, <3>6
    <2>4. Bottom
      BY <1>1, <2>1, <2>2, <2>3, EmptySeq DEF HostInv
    <2>5. Single
      BY <1>1, <1>5, <2>1, <2>2, EmptySeq DEF HostInv
    <2> QED BY <1>2, <2>4, <2>5 DEF HostInv
  <1>6. ASSUME NEW j \in FrameKinds, Shrinks(j) PROVE HostInv'
    <2>1. stack # <<>> /\ stack' = SubSeq(stack, 1, Len(stack) - 1)
      BY <1>6 DEF Shrinks, Popped
    <2>2. /\ stack' \in Seq(Frame)
          /\ Len(stack') = Len(stack) - 1
          /\ \A p \in 1 .. Len(stack) - 1 : stack'[p] = stack[p]
      BY <1>1, <2>1, Popping
    <2>3. stack' # <<>> => Len(stack) > 1
      BY <1>1, <2>1, <2>2, EmptySeq
    <2>4. Bottom /\ Single
      BY <1>1, <2>1, <2>2, <2>3 DEF HostInv
    <2> QED BY <1>2, <2>4 DEF HostInv
  <1>7. ASSUME NEW j \in FrameKinds, Turns(j) PROVE HostInv'
    <2>1. PICK f \in Frame : f.kind = j /\ stack' = ReplaceTop(f)
      BY <1>7 DEF Turns
    <2>2. stack # <<>> /\ Top.kind = j
      BY <1>7 DEF Turns
    <2> DEFINE r == [stack EXCEPT ![Len(stack)] = f]
    <2>3. /\ Len(r) = Len(stack)
          /\ \A p \in 1 .. Len(stack) - 1 : r[p] = stack[p]
          /\ r[Len(stack)] = f
      <3>1. stack \in Seq(Frame) /\ stack # <<>>
        BY <1>1, <2>2
      <3> QED BY <3>1, Replacing
    <2>4. stack' = r
      BY <2>1 DEF ReplaceTop
    <2> HIDE DEF r
    <2>5. \A p \in 1 .. Len(stack) : r[p].kind = stack[p].kind
      BY <1>1, <2>1, <2>2, <2>3
    <2>6. Bottom /\ Single
      BY <1>1, <2>2, <2>3, <2>4, <2>5 DEF HostInv
    <2> QED BY <1>2, <2>6 DEF HostInv
  <1>8. CASE StartsInTag
    <2>1. "render" \in HostCalls
      BY <1>8 DEF StartsInTag, UserRender
    <2>2. Bottom
      <3>1. Len(stack) # 1
        BY <1>8, StartsInTagShape DEF HostInv
      <3>2. stack'[1] = stack[1] /\ stack # <<>>
        BY <1>8, <3>1, StartsInTagShape
      <3> QED BY <3>2 DEF HostInv
    <2> QED BY <1>2, <2>1, <2>2 DEF HostInv
  <1>9. CASE EndsInTag
    <2>1. Bottom /\ Single
      BY <1>9, EndsInTagShape DEF HostInv
    <2> QED BY <1>2, <2>1 DEF HostInv
  <1>10. Others("for") \/ Others("concat")
    BY FramesOfOthers, NotBoth
  <1> QED BY <1>3, <1>4, <1>5, <1>6, <1>7, <1>8, <1>9, <1>10 DEF Others

LEMMA HostInvariant == NoNestedThrow => (Spec => []HostInv)
  <1> SUFFICES ASSUME NoNestedThrow PROVE Spec => []HostInv
    OBVIOUS
  <1>1. TypeInv /\ HostInv /\ [Next]_vars => HostInv'
    BY HostInvNext
  <1> QED BY <1>1, TypeInvariant, HostInvInit, PTL DEF Spec

-----------------------------------------------------------------------------
(* Breaks and continues.                                                   *)

LoopFrames == Frames({"for"})

\* A node of a loop's body is rendered above that loop; a pending break or
\* continue has its loop on the stack.
ControlInv(inLoop) ==
  /\ control # "none" => LoopFrames # {}
  /\ task.op = "enter" /\ inLoop[task.node] => LoopFrames # {}
  /\ \A p \in DOMAIN stack : inLoop[stack[p].node] =>
        \E q \in 1 .. p : stack[q].kind = "for"

\* A step that leaves the control alone, or clears it, or meets a break.
LEMMA ControlSteps ==
  ASSUME [Next]_vars
  PROVE  \/ control' = control
         \/ RenderBreak
         \/ (NextIteration \/ LeaveLoop) /\ control' = "none"
  BY DEF vars, engine, Next, Host, Engine, RenderLeaf, RenderText, RenderRead, RenderAssign,
     RenderBranch, RenderConcat, ExceedDepth, EnterSingle, LeaveSingle, EnterEmpty,
     EnterConcat, AbandonConcat, NextChild, LeaveConcat, RenderLoop, SkipLoop, EmptyLoop,
     EnterLoop, NextIteration, LeaveLoop, RenderCycle, RenderCapture, EnterCapture, LeaveCapture,
     EnterUser, UserGotChild, UserGetChild, UserReturn, UserRender, RenderArgument,
     RenderTemplate, BeginRender, StartAfresh, FinishRender, EndRender, Raise

\* Where a step that enters a node has it from.
LEMMA EnterSources ==
  ASSUME TypeInv, [Next]_vars, task'.op = "enter"
  PROVE  \/ task' = task /\ stack' = stack
         \/ task'.node \in Templates
         \/ task.op = "enter" /\ \E i \in DOMAIN Child[task.node] :
              /\ task'.node = Child[task.node][i]
              /\ Kind[task.node] = "for" /\ i = 1 => \E w \in Windows : EnterLoop(w)
         \/ stack # <<>> /\ \E i \in DOMAIN Child[Top.node] :
              /\ task'.node = Child[Top.node][i]
              /\ NextIteration \/ Kind[Top.node] # "for"
  <1>1. /\ \A n : Enter(n).op = "enter" /\ Enter(n).node = n
        /\ \A v : Leave(v).op = "leave"
        /\ InHost.op = "host" /\ Idle.op = "idle"
    BY DEF Enter, Leave, InHost, Idle
  <1>2. /\ task.op = "enter" => task.node \in Node
        /\ stack # <<>> => Top.node \in Node /\ FrameShape(Top)
    BY TopOfStack DEF TypeInv, TaskOK, Shape, Stacked, Frame, Top
  <1>3. \A n \in Node : /\ DOMAIN Child[n] = 1 .. Len(Child[n]) /\ Len(Child[n]) \in Nat
                        /\ Kind[n] \in {"capture", "for", "cycle"} => 1 \in DOMAIN Child[n]
                        /\ Child[n] # <<>> => 1 \in DOMAIN Child[n]
    <2> TAKE n \in Node
    <2>1. Child[n] \in Seq(Node) /\ (Kind[n] \in {"capture", "for", "cycle"} => Len(Child[n]) > 0)
      BY AstAssumption
    <2> QED BY <2>1, Children, EmptySeq
  <1>4. CASE UNCHANGED vars
    BY <1>4 DEF vars
  <1>5. CASE RenderLeaf \/ RenderBranch \/ RenderArgument
    BY <1>1, <1>5 DEF RenderLeaf, RenderText, RenderRead, RenderAssign, RenderBreak, RenderBranch,
       RenderArgument, Entering
  <1>6. CASE RenderConcat
    <2>1. CASE EnterSingle \/ EnterConcat
      BY <1>1, <1>2, <1>3, <2>1 DEF EnterSingle, EnterConcat, Entering
    <2>2. CASE NextChild
      <3>1. stack # <<>> /\ Top.kind = "concat" /\ Top.pos < Len(Child[Top.node])
            /\ task'.node = Child[Top.node][Top.pos + 1]
        BY <1>1, <2>2 DEF NextChild, Leaving
      <3>2. Top.pos + 1 \in DOMAIN Child[Top.node] /\ Kind[Top.node] # "for"
        BY <1>2, <1>3, <3>1 DEF FrameShape
      <3> QED BY <3>1, <3>2
    <2>3. CASE LeaveSingle
      BY <2>3 DEF LeaveSingle, Leaving
    <2> QED BY <1>1, <1>6, <2>1, <2>2, <2>3 DEF RenderConcat, ExceedDepth, EnterEmpty, AbandonConcat, LeaveConcat
  <1>7. CASE RenderLoop
    <2>1. CASE SkipLoop \/ \E w \in Windows : EmptyLoop(w)
      <3>1. Entering("for") /\ Len(Child[task.node]) > 1 /\ task' = Enter(Child[task.node][2])
        BY <1>1, <2>1 DEF SkipLoop, EmptyLoop, ElseOr
      <3> QED BY <1>1, <1>2, <1>3, <3>1 DEF Entering
    <2>2. CASE \E w \in Windows : EnterLoop(w)
      BY <1>1, <1>2, <1>3, <2>2 DEF EnterLoop, Entering, Body
    <2>3. CASE NextIteration
      BY <1>1, <1>2, <1>3, <2>3 DEF NextIteration, Leaving, FrameShape, Body
    <2>4. CASE LeaveLoop
      BY <1>1, <2>4 DEF LeaveLoop
    <2>5. CASE RenderCycle
      <3>1. Entering("cycle") /\ task.node \in Node
        BY <1>2, <2>5 DEF RenderCycle, Entering
      <3>2. \E i \in DOMAIN Child[task.node] : task' = Enter(Child[task.node][i])
        <4> DEFINE f == drops["forloop"][Len(drops["forloop"])].frame
        <4>1. Len(Child[task.node]) \in Nat \ {0}
          BY <1>3, <3>1 DEF Entering
        <4>2. ASSUME f \in DOMAIN stack
              PROVE  (stack[f].idx % Len(Child[task.node])) + 1 \in DOMAIN Child[task.node]
          <5>1. stack[f] \in Frame
            BY <4>2, LenProperties DEF TypeInv
          <5>2. stack[f].idx \in Int
            BY <5>1 DEF Frame
          <5>3. \A i \in Int, n \in Nat \ {0} : (i % n) + 1 \in 1 .. n
            OBVIOUS
          <5> QED BY <1>3, <3>1, <4>1, <5>2, <5>3
        <4> QED BY <1>1, <2>5, <4>2 DEF RenderCycle
      <3> QED BY <1>1, <3>1, <3>2 DEF Entering
    <2> QED BY <1>7, <2>1, <2>2, <2>3, <2>4, <2>5 DEF RenderLoop
  <1>8. CASE RenderCapture
    BY <1>1, <1>2, <1>3, <1>8 DEF RenderCapture, EnterCapture, LeaveCapture, Entering, Body
  <1>9. CASE EnterUser \/ UserGotChild \/ UserReturn \/ FinishRender
    BY <1>1, <1>9 DEF EnterUser, UserGotChild, UserReturn, FinishRender, EndRender, Raise
  <1>10. CASE UserGetChild
    <2>1. stack # <<>> /\ Top.kind = "user" /\ Child[Top.node] # <<>> /\ task' = Enter(Child[Top.node][1])
      BY <1>10, Calling DEF UserGetChild, Body
    <2> QED BY <1>1, <1>2, <1>3, <2>1 DEF FrameShape
  <1>11. CASE \E t \in Templates : RenderTemplate(t) \/ UserRender(t)
    BY <1>1, <1>11 DEF RenderTemplate, UserRender, BeginRender
  <1> QED BY <1>4, <1>5, <1>6, <1>7, <1>8, <1>9, <1>10, <1>11 DEF Next, Host, Engine

\* Entering a loop, and going on with one, leaves it on the stack.
LEMMA LoopMoves ==
  ASSUME TypeInv, (\E w \in Windows : EnterLoop(w)) \/ NextIteration
  PROVE  LoopFrames' # {}
  <1>1. Grows("for") \/ Turns("for")
    <2>1. ASSUME NEW w \in Windows, EnterLoop(w) PROVE Grows("for")
      BY <2>1, EnterLoopGrows
    <2> QED BY <2>1, NextIterationTurns
  <1>2. /\ stack \in Seq(Frame) /\ (stack # <<>> => Len(stack) \in Nat \ {0}) /\ Len(stack) \in Nat
    BY LenProperties, TopOfStack DEF TypeInv
  <1>3. CASE Grows("for")
    <2>1. PICK f \in Frame : f.kind = "for" /\ stack' = Append(stack, f)
      BY <1>3 DEF Grows
    <2>2. DOMAIN stack' = 1 .. Len(stack) + 1 /\ stack'[Len(stack) + 1].kind = "for"
      BY <1>2, <2>1, Pushing
    <2>3. Len(stack) + 1 \in DOMAIN stack'
      BY <1>2, <2>2
    <2> QED BY <2>2, <2>3 DEF LoopFrames, Frames
  <1>4. CASE Turns("for")
    <2>1. PICK f \in Frame : f.kind = "for" /\ stack' = ReplaceTop(f)
      BY <1>4 DEF Turns
    <2> DEFINE r == [stack EXCEPT ![Len(stack)] = f]
    <2>2. stack # <<>> /\ stack \in Seq(Frame)
      BY <1>2, <1>4 DEF Turns
    <2>3. DOMAIN r = 1 .. Len(stack) /\ r[Len(stack)] = f
      BY <2>2, Replacing
    <2>4. stack' = r
      BY <2>1 DEF ReplaceTop
    <2> HIDE DEF r
    <2>5. Len(stack) \in DOMAIN stack'
      BY <1>2, <2>2, <2>3, <2>4
    <2> QED BY <2>1, <2>3, <2>4, <2>5 DEF LoopFrames, Frames
  <1> QED BY <1>1, <1>3, <1>4

\* A loop is popped by LeaveLoop or by an exception, never otherwise.
LEMMA LoopsKept ==
  ASSUME TypeInv, [Next]_vars, ~Clears, ~LeaveLoop, LoopFrames # {}
  PROVE  LoopFrames' # {}
  <1>1. Others("for") \/ LoopSteps
    BY FramesOfOthers
  <1>2. PICK p \in DOMAIN stack : stack[p].kind = "for"
    BY DEF LoopFrames, Frames
  <1>3. CASE Carries("for")
    BY <1>2, <1>3 DEF Carries, LoopFrames, Frames
  <1> QED BY <1>1, <1>3, LoopMoves, OthersCarry DEF LoopSteps

LEMMA ControlInvInit ==
  ASSUME NEW inLoop PROVE Init => ControlInv(inLoop)
  BY DEF Init, ControlInv, Idle

LEMMA CoveredNext ==
  ASSUME NEW inLoop, BreaksInLoops(inLoop), NoNestedThrow,
         TypeInv, HostInv, ControlInv(inLoop), [Next]_vars
  PROVE  \A p \in DOMAIN stack' : inLoop[stack'[p].node] =>
            \E q \in 1 .. p : stack'[q].kind = "for"
  <1> DEFINE Covered == \A p \in DOMAIN stack' : inLoop[stack'[p].node] =>
                           \E q \in 1 .. p : stack'[q].kind = "for"
             n == Len(stack)
  <1>1. /\ stack \in Seq(Frame) /\ DOMAIN stack = 1 .. n /\ n \in Nat
        /\ stack # <<>> => Top = stack[n] /\ n \in Nat \ {0}
    BY LenProperties, TopOfStack DEF TypeInv
  <1>2. \A p \in 1 .. n : inLoop[stack[p].node] => \E q \in 1 .. p : stack[q].kind = "for"
    BY <1>1 DEF ControlInv
  <1>3. \A t \in Templates : ~inLoop[t]
    BY AstAssumption DEF BreaksInLoops
  <1>4. CASE stack' = stack
    BY <1>1, <1>2, <1>4
  <1>5. CASE Clears
    BY <1>5, EmptySeq DEF Clears
  <1>6. ASSUME NEW j \in FrameKinds, Grows(j) PROVE Covered
    <2>1. PICK f \in Frame : /\ f.kind = j /\ stack' = Append(stack, f)
                             /\ f.node \in Templates \/ (task.op = "enter" /\ f.node = task.node)
      BY <1>6 DEF Grows
    <2>2. /\ DOMAIN stack' = 1 .. n + 1
          /\ \A p \in 1 .. n : stack'[p] = stack[p]
          /\ stack'[n + 1] = f
      BY <1>1, <2>1, Pushing
    <2>3. inLoop[f.node] => \E q \in 1 .. n : stack[q].kind = "for"
      BY <1>1, <1>3, <2>1 DEF ControlInv, LoopFrames, Frames
    <2> HIDE DEF n
    <2>4. inLoop[f.node] => \E q \in 1 .. n + 1 : stack'[q].kind = "for"
      BY <1>1, <2>2, <2>3
    <2>5. \A p \in 1 .. n : inLoop[stack'[p].node] => \E q \in 1 .. p : stack'[q].kind = "for"
      BY <1>1, <1>2, <2>2
    <2> QED BY <1>1, <2>2, <2>4, <2>5
  <1>7. ASSUME NEW j \in FrameKinds, Shrinks(j) PROVE Covered
    <2>1. stack # <<>> /\ stack' = SubSeq(stack, 1, n - 1)
      BY <1>7 DEF Shrinks, Popped
    <2>2. DOMAIN stack' = 1 .. n - 1 /\ \A p \in 1 .. n - 1 : stack'[p] = stack[p]
      BY <1>1, <2>1, Popping
    <2> HIDE DEF n
    <2> QED BY <1>1, <1>2, <2>2
  <1>8. ASSUME NEW j \in FrameKinds, Turns(j) PROVE Covered
    <2>1. PICK f \in Frame : f.kind = j /\ f.node = Top.node /\ stack' = ReplaceTop(f)
      BY <1>8 DEF Turns
    <2>2. stack # <<>> /\ Top.kind = j
      BY <1>8 DEF Turns
    <2> DEFINE r == [stack EXCEPT ![Len(stack)] = f]
    <2>3. /\ DOMAIN r = 1 .. n
          /\ \A p \in 1 .. n - 1 : r[p] = stack[p]
          /\ r[n] = f
      <3>1. stack \in Seq(Frame) /\ stack # <<>>
        BY <1>1, <2>2
      <3> QED BY <3>1, Replacing
    <2>4. stack' = r
      BY <2>1 DEF ReplaceTop
    <2> HIDE DEF r, n
    <2>5. \A p \in 1 .. n : r[p].kind = stack[p].kind /\ r[p].node = stack[p].node
      BY <1>1, <2>1, <2>2, <2>3
    <2> QED BY <1>1, <1>2, <2>3, <2>4, <2>5
  <1>9. CASE StartsInTag
    <2>1. PICK t \in Templates :
             /\ n \in Nat \ {0} /\ DOMAIN stack' = 1 .. n + 1
             /\ \A p \in 1 .. n - 1 : stack'[p] = stack[p]
             /\ stack'[n].kind = stack[n].kind /\ stack'[n].node = stack[n].node
             /\ stack'[n + 1].node = t
      BY <1>9, StartsInTagShape
    <2> HIDE DEF n
    <2>2. \A p \in 1 .. n : stack'[p].kind = stack[p].kind /\ stack'[p].node = stack[p].node
      BY <2>1
    <2> QED BY <1>2, <1>3, <2>1, <2>2
  <1>10. CASE EndsInTag
    <2>1. /\ n \in Nat \ {0, 1} /\ DOMAIN stack' = 1 .. n - 1
          /\ \A p \in 1 .. n - 2 : stack'[p] = stack[p]
          /\ stack'[n - 1].kind = stack[n - 1].kind /\ stack'[n - 1].node = stack[n - 1].node
      BY <1>10, EndsInTagShape
    <2> HIDE DEF n
    <2>2. \A p \in 1 .. n - 1 : p = n - 1 \/ p \in 1 .. n - 2
      BY <2>1
    <2>3. \A p \in 1 .. n - 1 : stack'[p].kind = stack[p].kind /\ stack'[p].node = stack[p].node
      BY <2>1, <2>2
    <2> QED BY <1>1, <1>2, <2>1, <2>3
  <1>11. Others("for") \/ Others("concat")
    BY FramesOfOthers, NotBoth
  <1> QED BY <1>4, <1>5, <1>6, <1>7, <1>8, <1>9, <1>10, <1>11 DEF Others

LEMMA ControlInvNext ==
  ASSUME NEW inLoop, BreaksInLoops(inLoop), NoNestedThrow,
         TypeInv, HostInv, ControlInv(inLoop), [Next]_vars
  PROVE  ControlInv(inLoop)'
  <1>1. ~LeaveLoop /\ LoopFrames # {} => LoopFrames' # {} \/ Clears
    BY LoopsKept
  <1>2. Clears => LoopFrames = {}
    <2> SUFFICES ASSUME Clears, NEW p \in DOMAIN stack, stack[p].kind = "for" PROVE FALSE
      BY DEF LoopFrames, Frames
    <2>1. stack # <<>>
      BY EmptySeq
    <2>2. Len(stack) = 1 /\ Top.kind = "outer"
      BY <2>1, ClearsAtBottom
    <2>3. p = 1
      BY <2>2, LenProperties DEF TypeInv
    <2> QED BY <2>2, <2>3 DEF Top
  <1>3. control' # "none" => LoopFrames' # {}
    <2>1. CASE control' = control
      <3>1. LeaveLoop => control' = "none"
        BY DEF LeaveLoop
      <3> QED BY <1>1, <1>2, <2>1, <3>1 DEF ControlInv
    <2>2. CASE RenderBreak
      <3>1. task.op = "enter" /\ Kind[task.node] \in {"break", "continue"} /\ stack' = stack
        BY <2>2 DEF RenderBreak, Entering
      <3>2. inLoop[task.node]
        BY <3>1 DEF TypeInv, TaskOK, BreaksInLoops
      <3> QED BY <3>1, <3>2 DEF ControlInv, LoopFrames, Frames
    <2> QED BY <2>1, <2>2, ControlSteps
  <1>4. ASSUME task'.op = "enter", inLoop[task'.node] PROVE LoopFrames' # {}
    <2>1. ~LeaveLoop /\ ~Clears
      <3>1. ~LeaveLoop
        BY <1>4 DEF LeaveLoop, Leave
      <3>2. TypeInv'
        BY NextTypes
      <3> QED BY <1>4, <3>1, <3>2 DEF Clears, TypeInv, TaskOK
    <2>2. LoopFrames # {} => LoopFrames' # {}
      BY <1>1, <2>1
    <2>3. CASE task' = task /\ stack' = stack
      BY <1>4, <2>2, <2>3 DEF ControlInv
    <2>4. CASE task'.node \in Templates
      BY <1>4, <2>4, AstAssumption DEF BreaksInLoops
    <2>5. ASSUME task.op = "enter", NEW i \in DOMAIN Child[task.node],
                 task'.node = Child[task.node][i],
                 Kind[task.node] = "for" /\ i = 1 => \E w \in Windows : EnterLoop(w)
          PROVE  LoopFrames' # {}
      <3>1. inLoop[task.node] \/ (Kind[task.node] = "for" /\ i = 1)
        BY <1>4, <2>5 DEF BreaksInLoops, TypeInv, TaskOK
      <3> QED BY <2>2, <2>5, <3>1, LoopMoves DEF ControlInv
    <2>6. ASSUME stack # <<>>, NEW i \in DOMAIN Child[Top.node],
                 task'.node = Child[Top.node][i],
                 NextIteration \/ Kind[Top.node] # "for"
          PROVE  LoopFrames' # {}
      <3>1. CASE NextIteration
        BY <3>1, LoopMoves
      <3>2. CASE Kind[Top.node] # "for"
        <4>1. Top \in Frame /\ Top = stack[Len(stack)] /\ Len(stack) \in DOMAIN stack
              /\ DOMAIN stack = 1 .. Len(stack)
          BY <2>6, TopOfStack
        <4>2. inLoop[Top.node]
          BY <1>4, <2>6, <3>2, <4>1 DEF BreaksInLoops, Frame
        <4> QED BY <2>2, <4>1, <4>2 DEF ControlInv, LoopFrames, Frames
      <3> QED BY <2>6, <3>1, <3>2
    <2> QED BY <1>4, <2>3, <2>4, <2>5, <2>6, EnterSources
  <1>5. \A p \in DOMAIN stack' : inLoop[stack'[p].node] =>
           \E q \in 1 .. p : stack'[q].kind = "for"
    BY CoveredNext
  <1> QED BY <1>3, <1>4, <1>5 DEF ControlInv

\* If the templates break and continue in loops only, and errors of a nested
\* render are not thrown through the outer one, then no break or continue ever
\* survives the render that met it (renderer.h:20-25, dialect.cpp:393-407: the
\* loops are all that clears Renderer::control).
THEOREM BreaksStayInLoops ==
  ASSUME NEW inLoop \in [Node -> BOOLEAN], BreaksInLoops(inLoop), NoNestedThrow
  PROVE  Spec => []NoPendingControl
  <1>1. Init => ControlInv(inLoop)
    BY ControlInvInit
  <1>2. TypeInv /\ HostInv /\ ControlInv(inLoop) /\ [Next]_vars => ControlInv(inLoop)'
    BY ControlInvNext
  <1>3. TypeInv /\ ControlInv(inLoop) => NoPendingControl
    BY DEF TypeInv, TaskOK, ControlInv, LoopFrames, Frames, NoPendingControl
  <1>4. Spec => []HostInv
    BY HostInvariant
  <1> QED BY <1>1, <1>2, <1>3, <1>4, TypeInvariant, PTL DEF Spec

LEMMA EnteringGrows ==
  ASSUME TypeInv, [Next]_vars, task.op = "enter"
  PROVE  stack' = stack \/ \E f \in Frame : stack' = Append(stack, f)
  <1>1. task.node \in Node
    BY DEF TypeInv, TaskOK
  <1>2. NewFrame("concat", task.node) \in Frame /\ [NewFrame("concat", task.node) EXCEPT !.pos = 1] \in Frame
    BY <1>1, Framing DEF NewFrame, Frame
  <1>3. \A k \in {"single", "capture", "user"} : NewFrame(k, task.node) \in Frame
    BY <1>1, Framing
  <1>4. ASSUME NEW w \in Windows, EnterLoop(w) PROVE \E f \in Frame : stack' = Append(stack, f)
    BY <1>4, EnterLoopGrows DEF Grows
  <1>5. CASE UNCHANGED vars
    BY <1>5 DEF vars
  <1>6. CASE RenderConcat \/ RenderCapture \/ EnterUser
    BY <1>2, <1>3, <1>6 DEF RenderConcat, ExceedDepth, EnterSingle, LeaveSingle, EnterEmpty, EnterConcat,
       AbandonConcat, NextChild, LeaveConcat, RenderCapture, EnterCapture, LeaveCapture, EnterUser,
       Leaving, Push
  <1>7. CASE RenderLoop
    BY <1>4, <1>7 DEF RenderLoop, SkipLoop, EmptyLoop, NextIteration, LeaveLoop, RenderCycle, Leaving
  <1>8. CASE RenderLeaf \/ RenderBranch
    BY <1>8 DEF RenderLeaf, RenderText, RenderRead, RenderAssign, RenderBreak, RenderBranch
  <1> QED BY <1>5, <1>6, <1>7, <1>8 DEF Next, Host, Engine, RenderTemplate, UserRender, UserGetChild,
         UserGotChild, UserReturn, RenderArgument, FinishRender, EndRender, Raise, Leaving

LEMMA PendingNext ==
  ASSUME TypeInv, NoPendingControl, PendingOnlyUnwinds, [Next]_vars
  PROVE  PendingOnlyUnwinds'
  <1> SUFFICES ASSUME control' # "none", task'.op \notin {"leave", "idle"}
               PROVE  Frames({"user"})' # {}
    BY DEF PendingOnlyUnwinds
  <1>1. TypeInv'
    BY NextTypes
  <1>2. CASE task'.op = "host"
    <2>1. stack' # <<>> /\ Top'.kind = "user"
      BY <1>1, <1>2 DEF TypeInv, TaskOK, Shape
    <2>2. stack' \in Seq(Frame)
      BY <1>1 DEF TypeInv
    <2>3. Len(stack') \in DOMAIN stack'
      BY <2>1, <2>2, LenProperties, EmptySeq
    <2> QED BY <2>1, <2>3 DEF Frames, Top
  <1>3. CASE task'.op = "enter"
    <2>1. control' = control /\ ~NextIteration
      <3>1. ~RenderBreak
        BY <1>3 DEF RenderBreak, Leave
      <3>2. ~NextIteration
        BY DEF NextIteration
      <3> QED BY <3>1, <3>2, ControlSteps
    <2>2. CASE task.op = "enter"
      <3>1. PICK p \in DOMAIN stack : stack[p].kind = "user"
        BY <2>1, <2>2 DEF PendingOnlyUnwinds, Frames
      <3>2. p \in DOMAIN stack' /\ stack'[p] = stack[p]
        <4>1. CASE stack' = stack
          BY <3>1, <4>1
        <4>2. ASSUME NEW f \in Frame, stack' = Append(stack, f) PROVE p \in DOMAIN stack' /\ stack'[p] = stack[p]
          <5>1. stack \in Seq(Frame) /\ DOMAIN stack = 1 .. Len(stack)
            BY LenProperties DEF TypeInv
          <5>2. DOMAIN stack' = 1 .. Len(stack) + 1 /\ Len(stack) \in Nat
                /\ \A q \in 1 .. Len(stack) : stack'[q] = stack[q]
            BY <4>2, <5>1, Pushing
          <5> QED BY <3>1, <5>1, <5>2
        <4> QED BY <2>2, <4>1, <4>2, EnteringGrows
      <3> QED BY <3>1, <3>2 DEF Frames
    <2>3. CASE UserGetChild \/ \E t \in Templates : UserRender(t)
      <3>1. CASE UserGetChild
        <4>1. stack # <<>> /\ Top.kind = "user"
          BY <3>1, Calling DEF UserGetChild
        <4> DEFINE f == [Top EXCEPT !.pos = @ + 1]
                   r == [stack EXCEPT ![Len(stack)] = f]
        <4>2. f \in Frame /\ f.kind = "user" /\ stack' = r
          BY <3>1, Calling DEF UserGetChild, ReplaceTop
        <4> HIDE DEF f
        <4>3. stack \in Seq(Frame)
          BY DEF TypeInv
        <4>4. Len(stack) \in Nat \ {0} /\ DOMAIN r = 1 .. Len(stack) /\ r[Len(stack)] = f
          BY <4>1, <4>2, <4>3, Replacing
        <4> HIDE DEF r
        <4>5. Len(stack) \in DOMAIN stack'
          BY <4>2, <4>4
        <4> QED BY <4>2, <4>4, <4>5 DEF Frames
      <3>2. CASE \E t \in Templates : UserRender(t)
        <4>1. /\ Len(stack) \in Nat \ {0} /\ DOMAIN stack' = 1 .. Len(stack) + 1
              /\ stack'[Len(stack)].kind = "user"
          BY <3>2, StartsInTagShape DEF StartsInTag
        <4>2. Len(stack) \in DOMAIN stack'
          BY <4>1
        <4> QED BY <4>1, <4>2 DEF Frames
      <3> QED BY <2>3, <3>1, <3>2
    <2>4. CASE task.op # "enter" /\ ~UserGetChild /\ ~(\E t \in Templates : UserRender(t))
      <3>1. task.op = "idle" => control = "none"
        BY DEF NoPendingControl
      <3>2. /\ \A v : Leave(v).op = "leave"
            /\ InHost.op = "host" /\ Idle.op = "idle"
        BY DEF Leave, InHost, Idle
      <3> QED BY <1>3, <2>1, <2>4, <3>1, <3>2
             DEF vars, Next, Host, Engine, RenderTemplate, RenderArgument, UserGotChild, UserReturn,
                 RenderLeaf, RenderText, RenderRead, RenderAssign, RenderBreak, RenderBranch,
                 RenderConcat, ExceedDepth, EnterSingle, LeaveSingle, EnterEmpty, EnterConcat,
                 AbandonConcat, NextChild, LeaveConcat, RenderLoop, SkipLoop, EmptyLoop, EnterLoop,
                 LeaveLoop, RenderCycle, RenderCapture, EnterCapture, LeaveCapture, EnterUser,
                 FinishRender, EndRender, Raise, Entering, Leaving
    <2> QED BY <2>2, <2>3, <2>4
  <1> QED BY <1>1, <1>2, <1>3 DEF TypeInv, TaskOK, Task

\* Under the same conditions, from a break or continue to its loop the calls
\* only return: every concatenation on the way looks at the control before it
\* goes on to its next child (context.cpp:106-115).
THEOREM PendingUnwinds ==
  ASSUME NEW inLoop \in [Node -> BOOLEAN], BreaksInLoops(inLoop), NoNestedThrow
  PROVE  Spec => []PendingOnlyUnwinds
  <1>1. Init => PendingOnlyUnwinds
    BY DEF Init, PendingOnlyUnwinds
  <1>2. TypeInv /\ NoPendingControl /\ PendingOnlyUnwinds /\ [Next]_vars => PendingOnlyUnwinds'
    BY PendingNext
  <1>3. Spec => []NoPendingControl
    BY BreaksStayInLoops
  <1> QED BY <1>1, <1>2, <1>3, TypeInvariant, PTL DEF Spec

-----------------------------------------------------------------------------
(* The depth counter and the error.                                        *)

\* A render inside another keeps the outer one's state.
RenderInv ==
  /\ task.op # "idle" => internalRender
  /\ \A p \in 2 .. Len(stack) : stack[p].kind # "outer"

LEMMA RenderSteps ==
  ASSUME TypeInv, [Next]_vars
  PROVE  \/ internalRender' = internalRender /\ task.op # "idle"
         \/ task' = task /\ stack' = stack /\ internalRender' = internalRender
         \/ RenderArgument
         \/ \E t \in Templates : RenderTemplate(t) \/ UserRender(t)
         \/ (EndRender \/ task'.op = "idle") /\ internalRender' = StillRendering
  <1>1. Idle.op = "idle"
    BY DEF Idle
  <1>2. stack # <<>> => task.op # "idle"
    BY DEF TypeInv, TaskOK
  <1> QED
    BY <1>1, <1>2
    DEF vars, engine, Next, Host, Engine, RenderLeaf, RenderText, RenderRead, RenderAssign, RenderBreak,
     RenderBranch, RenderConcat, ExceedDepth, EnterSingle, LeaveSingle, EnterEmpty,
     EnterConcat, AbandonConcat, NextChild, LeaveConcat, RenderLoop, SkipLoop, EmptyLoop,
     EnterLoop, NextIteration, LeaveLoop, RenderCycle, RenderCapture, EnterCapture, LeaveCapture,
     EnterUser, UserGotChild, UserGetChild, UserReturn, FinishRender, EndRender, Raise, Entering, Leaving

LEMMA RenderInvInit == Init => RenderInv
  BY EmptySeq DEF Init, RenderInv, Idle

LEMMA RenderInvNext ==
  ASSUME NoNestedThrow, NoNestedArgument, TypeInv, HostInv, RenderInv, [Next]_vars
  PROVE  RenderInv'
  <1> DEFINE n == Len(stack)
  <1>1. /\ stack \in Seq(Frame) /\ DOMAIN stack = 1 .. n /\ n \in Nat
        /\ stack # <<>> => Top = stack[n] /\ n \in Nat \ {0}
        /\ task.op = "idle" <=> stack = <<>>
    BY LenProperties, TopOfStack DEF TypeInv, TaskOK
  <1>2. task'.op # "idle" => internalRender'
    <2> SUFFICES ASSUME task'.op # "idle" PROVE internalRender'
      OBVIOUS
    <2>1. CASE internalRender' = internalRender /\ task.op # "idle"
      BY <2>1 DEF RenderInv
    <2>2. CASE task' = task /\ stack' = stack /\ internalRender' = internalRender
      BY <2>2 DEF RenderInv
    <2>3. CASE RenderArgument
      BY <2>3 DEF RenderArgument, NoNestedArgument
    <2>4. ASSUME NEW t \in Templates, RenderTemplate(t) \/ UserRender(t) PROVE internalRender'
      BY <2>4 DEF RenderTemplate, UserRender, BeginRender, StartAfresh, RenderInv
    <2>5. CASE EndRender /\ internalRender' = StillRendering
      <3>1. n # 1 /\ stack # <<>> /\ Top.kind \in Renders
        BY <2>5 DEF EndRender, Leaving, Renders, Idle
      <3>2. n \in 2 .. n
        BY <1>1, <3>1
      <3>3. Top.kind = "inner" /\ internalRender
        BY <1>1, <3>1, <3>2 DEF RenderInv, Renders
      <3> QED BY <2>5, <3>3 DEF StillRendering
    <2> QED BY <2>1, <2>2, <2>3, <2>4, <2>5, RenderSteps
  <1> DEFINE Inner == \A p \in 2 .. Len(stack') : stack'[p].kind # "outer"
  <1>3. CASE stack' = stack
    BY <1>2, <1>3 DEF RenderInv
  <1>4. CASE Clears
    BY <1>2, <1>4, EmptySeq DEF Clears, RenderInv
  <1>5. ASSUME NEW j \in FrameKinds, Grows(j), j \in Renders => stack = <<>> PROVE Inner
    <2>1. PICK f \in Frame : f.kind = j /\ stack' = Append(stack, f)
      BY <1>5 DEF Grows
    <2>2. /\ Len(stack') = n + 1
          /\ \A p \in 1 .. n : stack'[p] = stack[p]
          /\ stack'[n + 1] = f
      BY <1>1, <2>1, Pushing
    <2>3. stack = <<>> => n = 0
      BY EmptySeq
    <2> HIDE DEF n
    <2> QED BY <1>1, <1>5, <2>1, <2>2, <2>3 DEF RenderInv, Renders, n
  <1>6. ASSUME NEW j \in FrameKinds, Shrinks(j) PROVE Inner
    <2>1. stack # <<>> /\ stack' = SubSeq(stack, 1, n - 1)
      BY <1>6 DEF Shrinks, Popped
    <2>2. Len(stack') = n - 1 /\ \A p \in 1 .. n - 1 : stack'[p] = stack[p]
      BY <1>1, <2>1, Popping
    <2> QED BY <1>1, <2>2 DEF RenderInv
  <1>7. ASSUME NEW j \in FrameKinds, Turns(j) PROVE Inner
    <2>1. PICK f \in Frame : f.kind = j /\ stack' = ReplaceTop(f)
      BY <1>7 DEF Turns
    <2>2. stack # <<>> /\ Top.kind = j
      BY <1>7 DEF Turns
    <2> DEFINE r == [stack EXCEPT ![Len(stack)] = f]
    <2>3. /\ Len(r) = n
          /\ \A p \in 1 .. n - 1 : r[p] = stack[p]
          /\ r[n] = f
      <3>1. stack \in Seq(Frame) /\ stack # <<>>
        BY <1>1, <2>2
      <3> QED BY <3>1, Replacing
    <2>4. stack' = r
      BY <2>1 DEF ReplaceTop
    <2> HIDE DEF r
    <2>5. \A p \in 1 .. n : r[p].kind = stack[p].kind
      BY <1>1, <2>1, <2>2, <2>3
    <2> QED BY <1>1, <2>3, <2>4, <2>5 DEF RenderInv
  <1>8. CASE StartsInTag
    <2>1. internalRender
      BY <1>1, <1>8, StartsInTagShape DEF RenderInv
    <2>2. /\ n \in Nat \ {0} /\ Len(stack') = n + 1
          /\ \A p \in 1 .. n - 1 : stack'[p] = stack[p]
          /\ stack'[n].kind = "user" /\ stack'[n + 1].kind = "inner"
      BY <1>8, <2>1, StartsInTagShape
    <2>3. \A p \in 2 .. n + 1 : p = n + 1 \/ p = n \/ (p \in 2 .. n /\ p \in 1 .. n - 1)
      BY <2>2
    <2> QED BY <1>2, <2>2, <2>3 DEF RenderInv
  <1>9. CASE EndsInTag
    <2>1. /\ n \in Nat \ {0, 1} /\ DOMAIN stack' = 1 .. n - 1
          /\ \A p \in 1 .. n - 2 : stack'[p] = stack[p]
          /\ stack'[n - 1].kind = "user"
      BY <1>9, EndsInTagShape
    <2>2. Len(stack') = n - 1
      <3>1. stack' \in Seq(Frame)
        BY NextTypes DEF TypeInv
      <3> QED BY <2>1, <3>1, LenProperties
    <2>3. \A p \in 2 .. n - 1 : p = n - 1 \/ (p \in 2 .. n /\ p \in 1 .. n - 2)
      BY <2>1
    <2> QED BY <1>2, <2>1, <2>2, <2>3 DEF RenderInv
  <1>10. Others("for") \/ Others("concat")
    BY FramesOfOthers, NotBoth
  <1> QED BY <1>2, <1>3, <1>4, <1>5, <1>6, <1>7, <1>8, <1>9, <1>10 DEF Others, RenderInv

LEMMA RenderInvariant ==
  ASSUME NoNestedThrow, NoNestedArgument PROVE Spec => []RenderInv
  <1>1. TypeInv /\ HostInv /\ RenderInv /\ [Next]_vars => RenderInv'
    BY RenderInvNext
  <1>2. Spec => []HostInv
    BY HostInvariant
  <1> QED BY <1>1, <1>2, TypeInvariant, RenderInvInit, PTL DEF Spec

\* An error, once raised, is not lost before the render returns to the host
\* (renderer.cpp:34-57: a nested render keeps it, only a fresh one resets it).
THEOREM ErrorsStick ==
  ASSUME NoNestedThrow, NoNestedArgument PROVE Spec => ErrorSticks
  <1>1. TypeInv /\ RenderInv /\ [Next]_vars => [error # "none" => error' = error \/ task.op = "idle"]_vars
    <2> SUFFICES ASSUME TypeInv, RenderInv, [Next]_vars, error # "none", task.op # "idle"
                 PROVE  error' = error
      OBVIOUS
    <2>1. error = "depth" /\ internalRender
      BY DEF TypeInv, DataOK, RenderInv
    <2> QED BY <2>1
         DEF NoNestedArgument, vars, engine, Next, Host, Engine, RenderLeaf, RenderText, RenderRead,
          RenderAssign, RenderBreak, RenderBranch, RenderConcat, ExceedDepth, EnterSingle, LeaveSingle,
          EnterEmpty, EnterConcat, AbandonConcat, NextChild, LeaveConcat, RenderLoop, SkipLoop, EmptyLoop,
          EnterLoop, NextIteration, LeaveLoop, RenderCycle, RenderCapture, EnterCapture, LeaveCapture,
          EnterUser, UserGotChild, UserGetChild, UserReturn, UserRender, RenderTemplate, BeginRender,
          RenderArgument, FinishRender, EndRender, Raise
  <1>2. Spec => []RenderInv
    BY RenderInvariant
  <1> QED BY <1>1, <1>2, TypeInvariant, PTL DEF Spec, ErrorSticks

Concats == Frames({"concat"})

DepthInv ==
  /\ Cardinality(Concats) <= depth
  /\ depth <= MaxDepth
  /\ error = "none" => depth = Cardinality(Concats)

LEMMA ConcatsFinite ==
  ASSUME TypeInv
  PROVE  IsFiniteSet(Concats) /\ Cardinality(Concats) \in Nat
  <1>1. DOMAIN stack = 1 .. Len(stack) /\ Len(stack) \in Nat
    BY LenProperties DEF TypeInv
  <1>2. IsFiniteSet(1 .. Len(stack)) /\ Concats \subseteq 1 .. Len(stack)
    BY <1>1, FS_Interval DEF Concats, Frames
  <1> QED BY <1>2, FS_Subset, FS_CardinalityType

LEMMA DepthSteps ==
  ASSUME [Next]_vars
  PROVE  \/ depth' = depth /\ error' = error
         \/ ExceedDepth \/ EnterConcat \/ LeaveConcat \/ RenderArgument
         \/ \E t \in Templates : RenderTemplate(t) \/ UserRender(t)
  BY DEF vars, engine, Next, Host, Engine, RenderLeaf, RenderText, RenderRead,
     RenderAssign, RenderBreak, RenderBranch, RenderConcat, EnterSingle, LeaveSingle,
     EnterEmpty, AbandonConcat, NextChild, RenderLoop, SkipLoop, EmptyLoop,
     EnterLoop, NextIteration, LeaveLoop, RenderCycle, RenderCapture, EnterCapture, LeaveCapture,
     EnterUser, UserGotChild, UserGetChild, UserReturn, FinishRender, EndRender, Raise

\* The concatenations being rendered change by their own steps only.
LEMMA ConcatMoves ==
  ASSUME NoNestedThrow, TypeInv, HostInv, [Next]_vars
  PROVE  \/ Concats' = Concats /\ ~EnterConcat /\ ~LeaveConcat /\ ~AbandonConcat
         \/ EnterConcat /\ Concats' = Concats \cup {Len(stack) + 1} /\ Len(stack) + 1 \notin Concats
         \/ (LeaveConcat \/ AbandonConcat) /\ Concats' = Concats \ {Len(stack)} /\ Len(stack) \in Concats
  <1> DEFINE n == Len(stack)
  <1>1. /\ stack \in Seq(Frame) /\ DOMAIN stack = 1 .. n /\ n \in Nat
        /\ stack # <<>> => Top = stack[n] /\ Top \in Frame /\ n \in Nat \ {0} /\ Collected \in Text
    BY LenProperties, TopOfStack, CollectedText DEF TypeInv
  <1>2. CASE EnterConcat
    <2> DEFINE f == [NewFrame("concat", task.node) EXCEPT !.pos = 1]
    <2>1. task.node \in Node
      BY <1>2 DEF EnterConcat, Entering, TypeInv, TaskOK
    <2>2. f \in Frame /\ f.kind = "concat"
      BY <2>1, Framing DEF NewFrame, Frame
    <2>3. stack' = Append(stack, f)
      BY <1>2 DEF EnterConcat, Push
    <2> HIDE DEF f
    <2>4. /\ DOMAIN stack' = 1 .. n + 1 /\ stack'[n + 1].kind = "concat"
          /\ \A p \in 1 .. n : stack'[p] = stack[p]
      BY <1>1, <2>2, <2>3, Pushing
    <2>5. Concats' = Concats \cup {n + 1} /\ n + 1 \notin Concats
      BY <1>1, <2>4 DEF Concats, Frames
    <2> QED BY <1>2, <2>5
  <1>3. CASE LeaveConcat \/ AbandonConcat
    <2>1. stack # <<>> /\ Top.kind = "concat" /\ stack' = SubSeq(stack, 1, n - 1)
      BY <1>3 DEF LeaveConcat, AbandonConcat, Leaving, Popped
    <2>2. DOMAIN stack' = 1 .. n - 1 /\ \A p \in 1 .. n - 1 : stack'[p] = stack[p]
      BY <1>1, <2>1, Popping
    <2>3. Concats' = Concats \ {n} /\ n \in Concats
      BY <1>1, <2>1, <2>2 DEF Concats, Frames
    <2> QED BY <1>3, <2>3
  <1>4. CASE ~EnterConcat /\ ~LeaveConcat /\ ~AbandonConcat
    <2>1. CASE NextChild
      <3> DEFINE f == [Top EXCEPT !.pos = @ + 1, !.text = Collected]
                 r == [stack EXCEPT ![Len(stack)] = f]
      <3>1. stack # <<>> /\ Top.kind = "concat" /\ stack' = r
        BY <2>1 DEF NextChild, Leaving, ReplaceTop
      <3>2. Top.pos + 1 \in Int /\ f = [Top EXCEPT !.pos = Top.pos + 1, !.text = Collected]
        BY <1>1, <3>1 DEF Frame
      <3>3. f \in Frame /\ f.kind = "concat"
        BY <1>1, <3>1, <3>2, Updating
      <3> HIDE DEF f
      <3>4. DOMAIN r = 1 .. n /\ r[n] = f /\ \A p \in 1 .. n - 1 : r[p] = stack[p]
        <4>1. stack \in Seq(Frame) /\ stack # <<>>
          BY <1>1, <3>1
        <4> QED BY <3>3, <4>1, Replacing
      <3> HIDE DEF r
      <3>5. \A p \in 1 .. n : r[p].kind = "concat" <=> stack[p].kind = "concat"
        BY <1>1, <3>1, <3>3, <3>4
      <3>6. Concats' = Concats
        BY <1>1, <3>1, <3>4, <3>5 DEF Concats, Frames
      <3> QED BY <1>4, <3>6
    <2>2. CASE Carries("concat")
      <3>1. Concats' = Concats
        BY <2>2 DEF Carries, Concats, Frames
      <3> QED BY <1>4, <3>1
    <2>3. CASE Clears
      <3>1. CASE stack = <<>>
        BY <1>4, <2>3, <3>1 DEF Clears, Concats, Frames
      <3>2. CASE stack # <<>>
        BY <2>2, <2>3, <3>2, ClearsAtBottom, ClearedCarries
      <3> QED BY <3>1, <3>2
    <2> QED BY <1>4, <2>1, <2>2, <2>3, FramesOfOthers, OthersCarry DEF ConcatSteps
  <1> QED BY <1>2, <1>3, <1>4

LEMMA NoConcats == Cardinality({}) = 0
  BY FS_EmptySet

LEMMA DepthInvInit == Init => DepthInv
  <1> SUFFICES ASSUME Init PROVE DepthInv
    OBVIOUS
  <1>1. Concats = {} /\ depth = 0
    BY DEF Init, Concats, Frames
  <1> QED BY <1>1, NoConcats, BoundsAssumption DEF DepthInv

LEMMA DepthInvNext ==
  ASSUME NoNestedThrow, NoNestedArgument, TypeInv, HostInv, RenderInv, DepthInv, [Next]_vars
  PROVE  DepthInv'
  <1>1. /\ IsFiniteSet(Concats) /\ Cardinality(Concats) \in Nat
        /\ depth \in 0 .. DepthModulus - 1 /\ DepthModulus \in Nat /\ MaxDepth \in Nat
    BY ConcatsFinite, BoundsAssumption DEF TypeInv, DataOK
  <1>2. CASE EnterConcat
    <2>1. Concats' = Concats \cup {Len(stack) + 1} /\ Len(stack) + 1 \notin Concats
      BY <1>2, ConcatMoves DEF EnterConcat, LeaveConcat, AbandonConcat, Entering, Leaving
    <2>2. Cardinality(Concats') = Cardinality(Concats) + 1
      BY <1>1, <2>1, FS_AddElement
    <2>3. depth' = depth + 1 /\ depth' <= MaxDepth /\ error' = error
      <3>1. depth # DepthModulus - 1
        BY <1>1, BoundsAssumption DEF DepthInv
      <3> QED BY <1>2, <3>1 DEF EnterConcat, Inc
    <2> QED BY <1>1, <2>2, <2>3 DEF DepthInv
  <1>3. CASE LeaveConcat
    <2>1. Concats' = Concats \ {Len(stack)} /\ Len(stack) \in Concats
      BY <1>3, ConcatMoves DEF EnterConcat, LeaveConcat, AbandonConcat, Entering, Leaving
    <2>2. Cardinality(Concats') = Cardinality(Concats) - 1 /\ Cardinality(Concats) # 0
      BY <1>1, <2>1, FS_RemoveElement, FS_EmptySet
    <2>3. error = "none" /\ error' = error /\ depth' = Dec(depth)
      BY <1>3 DEF LeaveConcat
    <2>4. depth' = depth - 1
      BY <1>1, <2>2, <2>3 DEF DepthInv, Dec
    <2> QED BY <1>1, <2>2, <2>3, <2>4 DEF DepthInv
  <1>4. CASE AbandonConcat
    <2>1. Concats' = Concats \ {Len(stack)} /\ Len(stack) \in Concats
      BY <1>4, ConcatMoves DEF EnterConcat, LeaveConcat, AbandonConcat, Entering, Leaving
    <2>2. Cardinality(Concats') = Cardinality(Concats) - 1
      BY <1>1, <2>1, FS_RemoveElement
    <2>3. error # "none" /\ error' = error /\ depth' = depth
      BY <1>4 DEF AbandonConcat, engine
    <2> QED BY <1>1, <2>2, <2>3 DEF DepthInv
  <1>5. CASE Concats' = Concats /\ ~EnterConcat /\ ~LeaveConcat
    <2>1. Cardinality(Concats') = Cardinality(Concats)
      BY <1>5
    <2>2. CASE depth' = depth /\ error' = error
      BY <2>1, <2>2 DEF DepthInv
    <2>3. CASE ExceedDepth
      BY <2>1, <2>3 DEF DepthInv, ExceedDepth
    <2>4. CASE task.op = "idle" /\ depth' = 0
      <3>1. Concats = {}
        BY <2>4, EmptySeq DEF TypeInv, TaskOK, Concats, Frames
      <3> QED BY <1>1, <2>1, <2>4, <3>1, NoConcats DEF DepthInv
    <2>5. CASE RenderArgument
      BY <2>4, <2>5 DEF RenderArgument, NoNestedArgument
    <2>6. ASSUME NEW t \in Templates, RenderTemplate(t) PROVE DepthInv'
      BY <2>4, <2>6 DEF RenderTemplate, BeginRender, StartAfresh, HostInv
    <2>7. ASSUME NEW t \in Templates, UserRender(t) PROVE DepthInv'
      <3>1. internalRender
        BY <2>7 DEF UserRender, RenderInv
      <3> QED BY <2>2, <2>7, <3>1 DEF UserRender, BeginRender
    <2> QED BY <1>5, <2>2, <2>3, <2>5, <2>6, <2>7, DepthSteps
  <1> QED BY <1>2, <1>3, <1>4, <1>5, ConcatMoves

\* currentRenderingDepth (context.cpp:97-119) is, without an error, the number
\* of concatenations being rendered, and never falls below it, so that
\* no decrement wraps around; and it never exceeds the maximum.
THEOREM DepthCounts == Spec => []DepthAccounting
  <1>1. CASE NoNestedThrow /\ NoNestedArgument
    <2>1. Spec => []HostInv
      BY <1>1, HostInvariant
    <2>2. Spec => []RenderInv
      BY <1>1, RenderInvariant
    <2>3. TypeInv /\ HostInv /\ RenderInv /\ DepthInv /\ [Next]_vars => DepthInv'
      BY <1>1, DepthInvNext
    <2>4. DepthInv => DepthAccounting
      BY DEF DepthInv, DepthAccounting, Concats
    <2> QED BY <2>1, <2>2, <2>3, <2>4, TypeInvariant, DepthInvInit, PTL DEF Spec
  <1>2. CASE ~(NoNestedThrow /\ NoNestedArgument)
    <2>1. DepthAccounting
      BY <1>2 DEF DepthAccounting
    <2> QED BY <2>1, PTL
  <1> QED BY <1>1, <1>2

-----------------------------------------------------------------------------
(***************************************************************************)
(* The internal drops of LiquidRenderer and the loops being rendered.      *)
(* Each name's drops are tied to the loops of the stack, one by one and in *)
(* their order; entering a loop appends to both, leaving one takes the     *)
(* last of both, and no other step touches either.  What the renderer is   *)
(* left with between renders follows.                                      *)
(***************************************************************************)

\* The drops of a loop: both are its frame's, "forloop" before the element.
Before(d, e) == d.frame < e.frame \/ (d.frame = e.frame /\ d.fn = "forloop" /\ e.fn = "element")
NameOf(st, d) == IF d.fn = "forloop" THEN "forloop" ELSE Var[st[d.frame].node]
LoopAt(st, p) == p \in DOMAIN st /\ st[p].kind = "for"

\* The drops s of the name k are those of the loops of the stack st.
AreLoops(st, k, s) == \A i \in DOMAIN s : LoopAt(st, s[i].frame) /\ k = NameOf(st, s[i])
InOrder(s)         == \A i, j \in DOMAIN s : i < j => Before(s[i], s[j])
HasLoops(st, k, s) ==
  \A p \in DOMAIN st : st[p].kind = "for" =>
    /\ k = "forloop" => \E i \in DOMAIN s : s[i] = [frame |-> p, fn |-> "forloop"]
    /\ k = Var[st[p].node] => \E i \in DOMAIN s : s[i] = [frame |-> p, fn |-> "element"]
Mirrors(st, k, s)  == AreLoops(st, k, s) /\ InOrder(s) /\ HasLoops(st, k, s)

\* The inductive invariant.
DropsInv == \A k \in Name : Mirrors(stack, k, drops[k])

LEMMA DropsInvInit == Init => DropsInv
  BY EmptySeq DEF Init, DropsInv, Mirrors, AreLoops, InOrder, HasLoops

\* Stacks with the same loops have the same drops.
SameLoops(st, tt) ==
  /\ \A p : LoopAt(st, p) => LoopAt(tt, p) /\ tt[p].node = st[p].node
  /\ \A p : LoopAt(tt, p) => LoopAt(st, p)

LEMMA SameMirrors ==
  ASSUME NEW st, NEW tt, NEW k, NEW s, SameLoops(st, tt), Mirrors(st, k, s)
  PROVE  Mirrors(tt, k, s)
  <1>1. AreLoops(tt, k, s)
    BY DEF SameLoops, Mirrors, AreLoops, NameOf
  <1>2. HasLoops(tt, k, s)
    BY DEF SameLoops, Mirrors, HasLoops, LoopAt
  <1> QED BY <1>1, <1>2 DEF Mirrors

LEMMA CarriedLoops ==
  ASSUME Carries("for")
  PROVE  SameLoops(stack, stack')
  BY DEF Carries, SameLoops, LoopAt

LEMMA TurnedLoops ==
  ASSUME TypeInv, Turns("for")
  PROVE  SameLoops(stack, stack')
  <1>1. PICK f \in Frame : f.kind = "for" /\ f.node = Top.node /\ stack' = ReplaceTop(f)
    BY DEF Turns
  <1>2. stack \in Seq(Frame) /\ stack # <<>> /\ Top = stack[Len(stack)] /\ Top.kind = "for"
        /\ DOMAIN stack = 1 .. Len(stack)
    BY TopOfStack DEF Turns, TypeInv
  <1> DEFINE r == [stack EXCEPT ![Len(stack)] = f]
  <1>3. /\ Len(stack) \in Nat \ {0} /\ DOMAIN r = 1 .. Len(stack)
        /\ \A p \in 1 .. Len(stack) - 1 : r[p] = stack[p]
        /\ r[Len(stack)] = f
    <2>1. stack \in Seq(Frame) /\ stack # <<>>
      BY <1>2
    <2> QED BY <2>1, Replacing
  <1>4. stack' = r
    BY <1>1 DEF ReplaceTop
  <1> HIDE DEF r
  <1>5. \A p \in 1 .. Len(stack) : stack'[p].kind = stack[p].kind /\ stack'[p].node = stack[p].node
    BY <1>1, <1>2, <1>3, <1>4
  <1> QED BY <1>2, <1>3, <1>4, <1>5 DEF SameLoops, LoopAt

\* Appending drops of a frame above all the others.
LEMMA DropPushed ==
  ASSUME NEW s \in Seq(Drop), NEW d \in Drop, InOrder(s), \A i \in DOMAIN s : Before(s[i], d)
  PROVE  /\ Append(s, d) \in Seq(Drop)
         /\ InOrder(Append(s, d))
         /\ \A i \in DOMAIN s : i \in DOMAIN Append(s, d) /\ Append(s, d)[i] = s[i]
         /\ Len(s) + 1 \in DOMAIN Append(s, d) /\ Append(s, d)[Len(s) + 1] = d
         /\ \A i \in DOMAIN Append(s, d) : i \in DOMAIN s \/ i = Len(s) + 1
  <1> DEFINE r == Append(s, d)
  <1>1. /\ r \in Seq(Drop) /\ Len(r) = Len(s) + 1 /\ Len(s) \in Nat
        /\ \A i \in 1 .. Len(s) : r[i] = s[i]
        /\ r[Len(s) + 1] = d
        /\ DOMAIN s = 1 .. Len(s) /\ DOMAIN r = 1 .. Len(s) + 1
    BY AppendProperties, LenProperties
  <1> HIDE DEF r
  <1>2. InOrder(r)
    BY <1>1 DEF InOrder
  <1> QED BY <1>1, <1>2 DEF r

\* Entering a loop appends its drops above all the others.
LEMMA PushMirrors ==
  ASSUME TypeInv, DropsInv, NEW w \in Windows, EnterLoop(w), NEW k \in Name
  PROVE  Mirrors(stack', k, drops'[k])
  <1> DEFINE n == Len(stack) + 1
             d == [frame |-> n, fn |-> "forloop"]
             e == [frame |-> n, fn |-> "element"]
             s == drops[k]
             t == IF k = "forloop" THEN Append(s, d) ELSE s
             v == Var[task.node]
             r == IF k = v THEN Append(t, e) ELSE t
  <1>1. PICK f \in Frame : f.kind = "for" /\ stack' = Append(stack, f) /\ f.node = task.node
    <2>1. Grows("for")
      BY EnterLoopGrows
    <2>2. task.op = "enter" /\ Kind[task.node] = "for" /\ task.node \in Node
      BY DEF EnterLoop, Entering, TypeInv, TaskOK
    <2> DEFINE f == [NewFrame("for", task.node) EXCEPT
                       !.pos = FirstElement(w), !.idx = LoopStart(w), !.win = w]
    <2>3. f \in Frame /\ f.kind = "for" /\ f.node = task.node
      BY <2>2, Texts, WindowTypes DEF NewFrame, Frame
    <2> QED BY <2>3 DEF EnterLoop, Push
  <1>2. /\ stack \in Seq(Frame) /\ Len(stack) \in Nat /\ DOMAIN stack = 1 .. Len(stack)
        /\ drops \in [Name -> Seq(Drop)]
    BY LenProperties DEF TypeInv, DataOK
  <1>3. /\ DOMAIN stack' = 1 .. n
        /\ \A p \in 1 .. Len(stack) : stack'[p] = stack[p]
        /\ stack'[n] = f
    BY <1>1, <1>2, Pushing
  <1>4. drops'[k] = r
    BY DEF EnterLoop, PushDrops
  <1>5. n \in Nat \ {0} /\ d \in Drop /\ e \in Drop /\ s \in Seq(Drop)
        /\ d.frame = n /\ e.frame = n /\ d.fn = "forloop" /\ e.fn = "element"
    <2>1. n \in Nat \ {0} /\ s \in Seq(Drop)
      BY <1>2
    <2> HIDE DEF n
    <2> QED BY <2>1 DEF Drop
  <1>6. AreLoops(stack, k, s) /\ InOrder(s) /\ HasLoops(stack, k, s)
    BY DEF DropsInv, Mirrors
  <1>7. \A i \in DOMAIN s : Before(s[i], d) /\ Before(s[i], e) /\ s[i].frame \in 1 .. Len(stack)
    BY <1>2, <1>5, <1>6 DEF AreLoops, LoopAt, Before
  <1> HIDE DEF d, e, s
  <1>8. /\ t \in Seq(Drop) /\ InOrder(t)
        /\ \A i \in DOMAIN t : (i \in DOMAIN s /\ t[i] = s[i]) \/ (k = "forloop" /\ t[i] = d)
        /\ \A i \in DOMAIN s : i \in DOMAIN t /\ t[i] = s[i]
        /\ k = "forloop" => \E i \in DOMAIN t : t[i] = d
    <2>1. CASE k = "forloop"
      <3>1. /\ Append(s, d) \in Seq(Drop) /\ InOrder(Append(s, d))
            /\ \A i \in DOMAIN s : i \in DOMAIN Append(s, d) /\ Append(s, d)[i] = s[i]
            /\ Len(s) + 1 \in DOMAIN Append(s, d) /\ Append(s, d)[Len(s) + 1] = d
            /\ \A i \in DOMAIN Append(s, d) : i \in DOMAIN s \/ i = Len(s) + 1
        BY <1>5, <1>6, <1>7, DropPushed
      <3>2. t = Append(s, d)
        BY <2>1
      <3> HIDE DEF t
      <3> QED BY <2>1, <3>1, <3>2
    <2>2. CASE k # "forloop"
      BY <1>5, <1>6, <2>2
    <2> QED BY <2>1, <2>2
  <1> HIDE DEF t
  <1>9. \A i \in DOMAIN t : Before(t[i], e)
    BY <1>5, <1>7, <1>8 DEF Before
  <1>10. /\ r \in Seq(Drop) /\ InOrder(r)
         /\ \A i \in DOMAIN r : (i \in DOMAIN t /\ r[i] = t[i]) \/ (k = v /\ r[i] = e)
         /\ \A i \in DOMAIN t : i \in DOMAIN r /\ r[i] = t[i]
         /\ k = v => \E i \in DOMAIN r : r[i] = e
    <2>1. CASE k = v
      <3>1. /\ Append(t, e) \in Seq(Drop) /\ InOrder(Append(t, e))
            /\ \A i \in DOMAIN t : i \in DOMAIN Append(t, e) /\ Append(t, e)[i] = t[i]
            /\ Len(t) + 1 \in DOMAIN Append(t, e) /\ Append(t, e)[Len(t) + 1] = e
            /\ \A i \in DOMAIN Append(t, e) : i \in DOMAIN t \/ i = Len(t) + 1
        BY <1>5, <1>8, <1>9, DropPushed
      <3>2. r = Append(t, e)
        BY <2>1
      <3> HIDE DEF r
      <3> QED BY <2>1, <3>1, <3>2
    <2>2. CASE k # v
      BY <1>8, <2>2
    <2> QED BY <2>1, <2>2
  <1> HIDE DEF r, v, n
  <1>11. \A i \in DOMAIN r : \/ (\E j \in DOMAIN s : r[i] = s[j])
                           \/ (k = "forloop" /\ r[i] = d)
                           \/ (k = v /\ r[i] = e)
    BY <1>8, <1>10
  <1>12. v = Var[f.node] /\ LoopAt(stack', n)
    BY <1>1, <1>3, <1>5 DEF v, LoopAt
  <1>13. AreLoops(stack', k, r)
    <2> SUFFICES ASSUME NEW i \in DOMAIN r
                 PROVE  LoopAt(stack', r[i].frame) /\ k = NameOf(stack', r[i])
      BY DEF AreLoops
    <2>1. ASSUME NEW j \in DOMAIN s, r[i] = s[j]
          PROVE  LoopAt(stack', r[i].frame) /\ k = NameOf(stack', r[i])
      <3>1. LoopAt(stack, s[j].frame) /\ k = NameOf(stack, s[j]) /\ s[j].frame \in 1 .. Len(stack)
        BY <1>6, <1>7 DEF AreLoops
      <3>2. s[j].frame \in DOMAIN stack' /\ stack'[s[j].frame] = stack[s[j].frame]
        BY <1>2, <1>3, <3>1 DEF n
      <3> QED BY <2>1, <3>1, <3>2 DEF LoopAt, NameOf
    <2>2. CASE k = "forloop" /\ r[i] = d
      BY <1>5, <1>12, <2>2 DEF NameOf
    <2>3. CASE k = v /\ r[i] = e
      BY <1>3, <1>5, <1>12, <2>3 DEF NameOf
    <2> QED BY <1>11, <2>1, <2>2, <2>3
  <1>14. HasLoops(stack', k, r)
    <2> SUFFICES ASSUME NEW p \in DOMAIN stack', stack'[p].kind = "for"
                 PROVE  /\ k = "forloop" => \E i \in DOMAIN r : r[i] = [frame |-> p, fn |-> "forloop"]
                        /\ k = Var[stack'[p].node] =>
                             \E i \in DOMAIN r : r[i] = [frame |-> p, fn |-> "element"]
      BY DEF HasLoops
    <2>1. p = n \/ p \in 1 .. Len(stack)
      BY <1>2, <1>3 DEF n
    <2>2. CASE p = n
      BY <1>3, <1>8, <1>10, <1>12, <2>2 DEF d, e
    <2>3. CASE p \in 1 .. Len(stack)
      <3>1. \A i \in DOMAIN s : i \in DOMAIN r /\ r[i] = s[i]
        BY <1>8, <1>10
      <3>2. p \in DOMAIN stack /\ stack'[p] = stack[p]
        BY <1>2, <1>3, <2>3
      <3> QED BY <1>6, <3>1, <3>2 DEF HasLoops
    <2> QED BY <2>1, <2>2, <2>3
  <1> QED BY <1>4, <1>10, <1>13, <1>14 DEF Mirrors

\* Taking the last drop, when it is above all the others.
LEMMA DropPopped ==
  ASSUME NEW s \in Seq(Drop), InOrder(s), NEW d \in Drop,
         \E i \in DOMAIN s : s[i] = d, \A i \in DOMAIN s : ~Before(d, s[i])
  PROVE  /\ AllButLast(s) \in Seq(Drop)
         /\ InOrder(AllButLast(s))
         /\ \A i \in DOMAIN AllButLast(s) : /\ i \in DOMAIN s /\ AllButLast(s)[i] = s[i]
                                            /\ Before(s[i], d)
         /\ \A i \in DOMAIN s : i \in DOMAIN AllButLast(s) \/ s[i] = d
  <1>1. PICK j \in DOMAIN s : s[j] = d
    OBVIOUS
  <1>2. DOMAIN s = 1 .. Len(s) /\ Len(s) \in Nat /\ \A i \in 1 .. Len(s) : s[i] \in Drop
    BY LenProperties, ElementOfSeq
  <1> DEFINE m == Len(s)
             r == SubSeq(s, 1, m - 1)
  <1>3. m \in Nat \ {0}
    BY <1>1, <1>2
  <1>4. j = m
    <2>1. ASSUME j # m PROVE FALSE
      <3>1. j < m /\ m \in DOMAIN s
        BY <1>1, <1>2, <1>3, <2>1
      <3>2. Before(s[j], s[m])
        BY <3>1, <1>1 DEF InOrder
      <3> QED BY <1>1, <3>1, <3>2
    <2> QED BY <2>1
  <1>5. \A i \in 1 .. m - 1 : i \in 1 .. m /\ s[i] \in Drop
    BY <1>2
  <1>6. /\ r \in Seq(Drop)
        /\ Len(r) = IF 1 <= m - 1 THEN m - 1 - 1 + 1 ELSE 0
        /\ \A i \in 1 .. m - 1 - 1 + 1 : r[i] = s[1 + i - 1]
    BY <1>2, <1>5, SubSeqProperties
  <1> HIDE DEF r, m
  <1>7. DOMAIN r = 1 .. m - 1
    <2>1. Len(r) = m - 1
      BY <1>3, <1>6
    <2> QED BY <1>6, <2>1, LenProperties
  <1>8. \A i \in 1 .. m - 1 : r[i] = s[i] /\ i < m
    BY <1>3, <1>6
  <1>9. r = AllButLast(s)
    BY DEF r, m, AllButLast
  <1>10. InOrder(r)
    BY <1>2, <1>3, <1>5, <1>7, <1>8 DEF InOrder, m
  <1>11. \A i \in 1 .. m - 1 : Before(s[i], d)
    BY <1>1, <1>4, <1>5, <1>8 DEF InOrder, m
  <1>12. \A i \in DOMAIN s : i \in 1 .. m - 1 \/ s[i] = d
    BY <1>1, <1>2, <1>3, <1>4 DEF m
  <1> QED BY <1>2, <1>5, <1>6, <1>7, <1>8, <1>9, <1>10, <1>11, <1>12 DEF m

\* The last drops of the names a loop binds are its own, so taking the last by
\* name (dialect.cpp pops both names blindly) takes the right ones.
LEMMA PopMirrors ==
  ASSUME TypeInv, DropsInv, LeaveLoop, NEW k \in Name
  PROVE  Mirrors(stack', k, drops'[k])
  <1> DEFINE n == Len(stack)
             d == [frame |-> n, fn |-> "forloop"]
             e == [frame |-> n, fn |-> "element"]
             s == drops[k]
             t == IF k = "forloop" THEN AllButLast(s) ELSE s
             v == Var[stack[n].node]
             r == IF k = v THEN AllButLast(t) ELSE t
  <1>1. /\ stack \in Seq(Frame) /\ stack # <<>> /\ n \in Nat \ {0} /\ DOMAIN stack = 1 .. n
        /\ Top = stack[n] /\ stack[n].kind = "for"
        /\ drops \in [Name -> Seq(Drop)] /\ s \in Seq(Drop)
    BY TopOfStack DEF LeaveLoop, Leaving, TypeInv, DataOK
  <1>2. /\ DOMAIN stack' = 1 .. n - 1
        /\ \A p \in 1 .. n - 1 : stack'[p] = stack[p]
    BY <1>1, Popping DEF LeaveLoop, Popped
  <1>3. drops'[k] = r
    BY <1>1 DEF LeaveLoop, PopDrops
  <1>4. AreLoops(stack, k, s) /\ InOrder(s) /\ HasLoops(stack, k, s)
    BY DEF DropsInv, Mirrors
  <1>5. \A i \in DOMAIN s : /\ s[i] \in Drop /\ s[i].frame \in 1 .. n
                            /\ s[i].frame = n => \/ (s[i] = d /\ k = "forloop")
                                                 \/ (s[i] = e /\ k = v)
    <2>1. \A i \in DOMAIN s : s[i] \in Drop
      BY <1>1, LenProperties, ElementOfSeq
    <2> SUFFICES ASSUME NEW i \in DOMAIN s
                 PROVE  /\ s[i].frame \in 1 .. n
                        /\ s[i].frame = n => \/ (s[i] = d /\ k = "forloop")
                                             \/ (s[i] = e /\ k = v)
      BY <2>1
    <2>2. s[i].frame \in 1 .. n /\ k = NameOf(stack, s[i])
      BY <1>1, <1>4 DEF AreLoops, LoopAt
    <2>3. s[i] = [frame |-> s[i].frame, fn |-> s[i].fn] /\ s[i].fn \in {"forloop", "element"}
      BY <2>1 DEF Drop
    <2> QED BY <2>2, <2>3 DEF NameOf
  <1>6. /\ d \in Drop /\ e \in Drop /\ d.frame = n /\ e.frame = n
        /\ d.fn = "forloop" /\ e.fn = "element" /\ d # e
    <2>1. n \in Nat \ {0}
      BY <1>1
    <2> HIDE DEF n
    <2> QED BY <2>1 DEF Drop
  <1>7. /\ k = "forloop" => \E i \in DOMAIN s : s[i] = d
        /\ k = v => \E i \in DOMAIN s : s[i] = e
    BY <1>1, <1>4 DEF HasLoops
  <1>n. n \in Nat \ {0}
    BY <1>1
  <1> HIDE DEF d, e, s, n, v
  <1>8. /\ r \in Seq(Drop) /\ InOrder(r)
        /\ \A i \in DOMAIN r : i \in DOMAIN s /\ r[i] = s[i] /\ s[i].frame # n
        /\ \A i \in DOMAIN s : i \in DOMAIN r \/ s[i].frame = n
    <2>1. CASE k # "forloop" /\ k # v
      <3>1. r = s
        BY <2>1
      <3> QED BY <1>1, <1>4, <1>5, <2>1, <3>1
    <2>2. CASE k = "forloop" /\ k # v
      <3>1. \A i \in DOMAIN s : ~Before(d, s[i]) /\ (s[i].frame = n => s[i] = d)
        BY <1>n, <1>5, <1>6, <2>2 DEF Before
      <3>2. /\ AllButLast(s) \in Seq(Drop) /\ InOrder(AllButLast(s))
            /\ \A i \in DOMAIN AllButLast(s) : /\ i \in DOMAIN s /\ AllButLast(s)[i] = s[i]
                                               /\ Before(s[i], d)
            /\ \A i \in DOMAIN s : i \in DOMAIN AllButLast(s) \/ s[i] = d
        BY <1>1, <1>4, <1>6, <1>7, <2>2, <3>1, DropPopped
      <3>3. r = AllButLast(s)
        BY <2>2
      <3>4. \A i \in DOMAIN s : Before(s[i], d) => s[i].frame # n
        BY <1>6, <3>1 DEF Before
      <3> HIDE DEF r, t
      <3> QED BY <1>6, <3>2, <3>3, <3>4
    <2>3. CASE k # "forloop" /\ k = v
      <3>1. \A i \in DOMAIN s : ~Before(e, s[i]) /\ (s[i].frame = n => s[i] = e)
        BY <1>n, <1>5, <1>6, <2>3 DEF Before
      <3>2. /\ AllButLast(s) \in Seq(Drop) /\ InOrder(AllButLast(s))
            /\ \A i \in DOMAIN AllButLast(s) : /\ i \in DOMAIN s /\ AllButLast(s)[i] = s[i]
                                               /\ Before(s[i], e)
            /\ \A i \in DOMAIN s : i \in DOMAIN AllButLast(s) \/ s[i] = e
        BY <1>1, <1>4, <1>6, <1>7, <2>3, <3>1, DropPopped
      <3>3. r = AllButLast(s)
        BY <2>3
      <3>4. \A i \in DOMAIN s : Before(s[i], e) => s[i].frame # n
        BY <1>6, <3>1 DEF Before
      <3> HIDE DEF r, t
      <3> QED BY <1>6, <3>2, <3>3, <3>4
    <2>4. CASE k = "forloop" /\ k = v
      <3> DEFINE u == AllButLast(s)
      <3>1. \A i \in DOMAIN s : ~Before(e, s[i])
        BY <1>n, <1>5, <1>6 DEF Before
      <3>2. /\ u \in Seq(Drop) /\ InOrder(u)
            /\ \A i \in DOMAIN u : i \in DOMAIN s /\ u[i] = s[i] /\ Before(s[i], e)
            /\ \A i \in DOMAIN s : i \in DOMAIN u \/ s[i] = e
        BY <1>1, <1>4, <1>6, <1>7, <2>4, <3>1, DropPopped
      <3> HIDE DEF u
      <3>3. \A i \in DOMAIN u : u[i] # e /\ (u[i].frame = n => u[i] = d) /\ ~Before(d, u[i])
        BY <1>n, <1>5, <1>6, <3>2 DEF Before
      <3>4. \E i \in DOMAIN u : u[i] = d
        BY <1>6, <1>7, <2>4, <3>2
      <3>5. /\ AllButLast(u) \in Seq(Drop) /\ InOrder(AllButLast(u))
            /\ \A i \in DOMAIN AllButLast(u) : /\ i \in DOMAIN u /\ AllButLast(u)[i] = u[i]
                                               /\ Before(u[i], d)
            /\ \A i \in DOMAIN u : i \in DOMAIN AllButLast(u) \/ u[i] = d
        BY <1>6, <3>2, <3>3, <3>4, DropPopped
      <3>6. r = AllButLast(u)
        BY <2>4 DEF u
      <3>7. \A i \in DOMAIN u : Before(u[i], d) => u[i].frame # n
        BY <1>6, <3>3 DEF Before
      <3> HIDE DEF r, t
      <3> QED BY <1>6, <3>2, <3>5, <3>6, <3>7
    <2> QED BY <2>1, <2>2, <2>3, <2>4
  <1> HIDE DEF r, t
  <1>9. AreLoops(stack', k, r)
    <2> SUFFICES ASSUME NEW i \in DOMAIN r
                 PROVE  LoopAt(stack', r[i].frame) /\ k = NameOf(stack', r[i])
      BY DEF AreLoops
    <2>1. /\ LoopAt(stack, s[i].frame) /\ k = NameOf(stack, s[i])
          /\ s[i].frame \in 1 .. n /\ s[i].frame # n /\ r[i] = s[i]
      BY <1>4, <1>5, <1>8 DEF AreLoops
    <2>2. s[i].frame \in 1 .. n - 1
      BY <1>n, <2>1
    <2> QED BY <1>2, <2>1, <2>2 DEF LoopAt, NameOf
  <1>10. HasLoops(stack', k, r)
    <2> SUFFICES ASSUME NEW p \in DOMAIN stack', stack'[p].kind = "for"
                 PROVE  /\ k = "forloop" => \E i \in DOMAIN r : r[i] = [frame |-> p, fn |-> "forloop"]
                        /\ k = Var[stack'[p].node] =>
                             \E i \in DOMAIN r : r[i] = [frame |-> p, fn |-> "element"]
      BY DEF HasLoops
    <2>1. p \in DOMAIN stack /\ p # n /\ stack'[p] = stack[p]
      BY <1>1, <1>n, <1>2
    <2>2. \A fn : \A i \in DOMAIN s : s[i] = [frame |-> p, fn |-> fn] => i \in DOMAIN r /\ r[i] = s[i]
      BY <1>8, <2>1
    <2> QED BY <1>4, <2>1, <2>2 DEF HasLoops
  <1> QED BY <1>3, <1>8, <1>9, <1>10 DEF Mirrors

-----------------------------------------------------------------------------
(* The invariant, and what it says of the renderer between renders.        *)

\* internalDrops is touched by the for tag only.
LEMMA DropSteps ==
  ASSUME [Next]_vars
  PROVE  drops' = drops \/ (\E w \in Windows : EnterLoop(w)) \/ LeaveLoop
  BY DEF vars, engine, Next, Host, Engine, RenderLeaf, RenderText, RenderRead, RenderAssign,
     RenderBreak, RenderBranch, RenderConcat, ExceedDepth, EnterSingle, LeaveSingle, EnterEmpty,
     EnterConcat, AbandonConcat, NextChild, LeaveConcat, RenderLoop, SkipLoop, EmptyLoop,
     NextIteration, RenderCycle, RenderCapture, EnterCapture, LeaveCapture,
     EnterUser, UserGotChild, UserGetChild, UserReturn, UserRender, RenderArgument,
     RenderTemplate, BeginRender, StartAfresh, FinishRender, EndRender, Raise

LEMMA DropsInvNext ==
  ASSUME NoNestedThrow, TypeInv, HostInv, DropsInv, [Next]_vars
  PROVE  DropsInv'
  <1>1. CASE \E w \in Windows : EnterLoop(w)
    BY <1>1, PushMirrors DEF DropsInv
  <1>2. CASE LeaveLoop
    BY <1>2, PopMirrors DEF DropsInv
  <1>3. CASE drops' = drops /\ ~LeaveLoop /\ ~(\E w \in Windows : EnterLoop(w))
    <2>1. SameLoops(stack, stack')
      <3>1. CASE NextIteration
        BY <3>1, NextIterationTurns, TurnedLoops
      <3>2. CASE Carries("for")
        BY <3>2, CarriedLoops
      <3>3. CASE Clears
        <4>1. CASE stack = <<>>
          BY <3>3, <4>1 DEF Clears, SameLoops, LoopAt
        <4>2. CASE stack # <<>>
          BY <3>2, <3>3, <4>2, ClearsAtBottom, ClearedCarries
        <4> QED BY <4>1, <4>2
      <3> QED BY <1>3, <3>1, <3>2, <3>3, FramesOfOthers, OthersCarry DEF LoopSteps
    <2> QED BY <1>3, <2>1, SameMirrors DEF DropsInv
  <1> QED BY <1>1, <1>2, <1>3, DropSteps

LEMMA WithoutDrops ==
  ASSUME NEW s \in Seq(Drop), DOMAIN s = {} PROVE s = <<>>
  <1>1. Len(s) \in Nat /\ 1 .. Len(s) = {}
    BY LenProperties
  <1>2. Len(s) = 0
    BY <1>1
  <1> QED BY <1>2, EmptySeq

LEMMA DropsInvariant == NoNestedThrow => (Spec => []DropsInv)
  <1> SUFFICES ASSUME NoNestedThrow PROVE Spec => []DropsInv
    OBVIOUS
  <1>1. TypeInv /\ HostInv /\ DropsInv /\ [Next]_vars => DropsInv'
    BY DropsInvNext
  <1>2. Spec => []HostInv
    BY HostInvariant
  <1> QED BY <1>1, <1>2, TypeInvariant, DropsInvInit, PTL DEF Spec

\* Whatever the templates, and through breaks, errors and nested renders, a
\* name's internalDrops are exactly the loops in progress that bind it, inner
\* after outer (dialect.cpp pushes and pops them around the loop by name).
THEOREM DropsAreLoops == Spec => []DropsMirrorLoops
  <1>1. CASE NoNestedThrow
    <2>1. DropsInv => DropsMirrorLoops
      BY DEF DropsInv, DropsMirrorLoops, Mirrors, AreLoops, InOrder, HasLoops, Before, NameOf,
             LoopAt, Frames
    <2> QED BY <1>1, <2>1, DropsInvariant, PTL
  <1>2. CASE ~NoNestedThrow
    <2>1. DropsMirrorLoops
      BY <1>2 DEF DropsMirrorLoops
    <2> QED BY <2>1, PTL
  <1> QED BY <1>1, <1>2

\* Between renders no loop context is left in internalDrops, which render does
\* not reset (renderer.cpp:34-57), and internalRender is down again.
THEOREM IdleRendererIsClean == NoNestedThrow => (Spec => []IdleIsClean)
  <1> SUFFICES ASSUME NoNestedThrow PROVE Spec => []IdleIsClean
    OBVIOUS
  <1>1. TypeInv /\ HostInv /\ DropsInv => IdleIsClean
    <2> SUFFICES ASSUME TypeInv, HostInv, DropsInv, task.op = "idle", NEW k \in Name
                 PROVE  drops[k] = <<>>
      BY DEF HostInv, IdleIsClean
    <2>1. stack = <<>>
      BY DEF TypeInv, TaskOK
    <2>2. DOMAIN drops[k] = {}
      BY <2>1 DEF DropsInv, Mirrors, AreLoops, LoopAt
    <2>3. drops[k] \in Seq(Drop)
      BY DEF TypeInv, DataOK
    <2> QED BY <2>2, <2>3, WithoutDrops
  <1> QED BY <1>1, HostInvariant, TypeInvariant, DropsInvariant, PTL
=============================================================================
