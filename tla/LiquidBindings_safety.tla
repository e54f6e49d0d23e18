------------------------ MODULE LiquidBindings_safety ------------------------
(***************************************************************************)
(* A script that keeps the rules is safe: for any number of objects and of *)
(* registrations and any nesting of callbacks, whenever the collector runs,*)
(* memory is used wrongly only after the script has broken the rule that   *)
(* RulesSuffice names.  On the way: a proc lives as long as the script has *)
(* the context it was registered with, and a renderer that no exception    *)
(* left knows whether it is rendering, how deep, and whose warnings it has.*)
(***************************************************************************)
EXTENDS LiquidBindings, FiniteSetTheorems, TLAPS

-----------------------------------------------------------------------------
(* For any number of objects, registrations and nested callbacks, whenever *)
(* the collector runs and whatever the script breaks, the state keeps its  *)
(* types.                                                                  *)

(* The sets that TypeOK leaves open. *)
NodeTypes == [context : Contexts, symbol : Symbols, captures : BOOLEAN, replaced : BOOLEAN]

FrameSet(n) ==
    [op : {"render", "optimize"}, self : Renderers \cup Optimizers, arg : Templates,
     todo : SUBSET (1..n), folds : SUBSET (1..n), nested : BOOLEAN, calling : 0..n, loop : BOOLEAN]

MachineSet ==
    [internal : BOOLEAN, depth : 0..(Word - 1), mode : {"tree", "interpreter"},
     warned : SUBSET {"own", "old"}, drops : BOOLEAN]

Typed ==
    /\ types \in Seq(NodeTypes)
    /\ machine \in [Renderers -> MachineSet]
    /\ frames \in Seq(FrameSet(Len(types)))

(* A call under way has a renderer, its own or that of its optimizer. *)
RenderersOfFrames ==
    /\ \A o \in Optimizers : wrapper[o] # "unborn" => on[o] \in Renderers
    /\ \A n \in DOMAIN frames :
          /\ frames[n].op = "render" => frames[n].self \in Renderers
          /\ frames[n].op = "optimize" =>
                frames[n].self \in Optimizers /\ wrapper[frames[n].self] # "unborn"

(* A node type is registered with a context that was made. *)
ContextsOfTypes == \A ty \in DOMAIN types : wrapper[types[ty].context] # "unborn"

TypeInv == TypeOK /\ Typed /\ RenderersOfFrames /\ ContextsOfTypes

-----------------------------------------------------------------------------
(* Facts about the state that several steps need.                          *)

(* Objects have one class. *)
LEMMA ClassesDiffer ==
    /\ Optimizers \cap (Contexts \cup Parsers \cup Renderers \cup Templates \cup Compilers \cup Programs) = {}
    /\ Contexts \cap Renderers = {}
    /\ Contexts \cup Renderers \cup Optimizers \cup Templates \subseteq Objects
    /\ None \notin Objects
  BY BindingsAssumption DEF Kind, Contexts, Parsers, Renderers, Templates, Optimizers, Compilers, Programs

(* The fields of a node type. *)
LEMMA TypeIsTyped ==
    ASSUME TypeInv, NEW ty \in DOMAIN types
    PROVE  types[ty] \in NodeTypes /\ types[ty].context \in Contexts
  <1>1. types[ty] \in NodeTypes  BY DEF TypeInv, Typed
  <1> QED  BY <1>1 DEF NodeTypes

(* The fields of a frame. *)
LEMMA FrameIsTyped ==
    ASSUME TypeInv, NEW n \in DOMAIN frames
    PROVE  /\ frames[n] \in FrameSet(Len(types))
           /\ frames[n].op \in {"render", "optimize"}
           /\ frames[n].calling \in 0..Len(types)
           /\ frames[n].arg \in Templates
           /\ frames[n].todo \subseteq 1..Len(types) /\ frames[n].folds \subseteq 1..Len(types)
           /\ frames[n].nested \in BOOLEAN
  <1>1. frames[n] \in FrameSet(Len(types))  BY DEF TypeInv, Typed
  <1> QED  BY <1>1 DEF FrameSet

(* The innermost call is one of the frames. *)
LEMMA LastIsFrame ==
    ASSUME TypeInv, frames # <<>>
    PROVE  /\ Len(frames) \in DOMAIN frames
           /\ Last(frames) = frames[Len(frames)]
           /\ Last(frames) \in FrameSet(Len(types))
  <1>1. Len(frames) \in 1..Len(frames) /\ Len(frames) \in Nat  BY DEF TypeInv, Typed
  <1>2. frames[Len(frames)] \in FrameSet(Len(types))  BY <1>1 DEF TypeInv, Typed
  <1> QED  BY <1>1, <1>2 DEF TypeInv, Typed, Last

(* The renderer of a call under way is a renderer. *)
LEMMA RendererIsRenderer ==
    ASSUME TypeInv, NEW n \in DOMAIN frames
    PROVE  RendererOf(frames[n]) \in Renderers
  <1>1. frames[n].op \in {"render", "optimize"}  BY FrameIsTyped
  <1> QED  BY <1>1 DEF TypeInv, RenderersOfFrames, RendererOf

(* What a script has at hand was made: a context, or something that is none. *)
LEMMA HandIsMade ==
    ASSUME TypeInv, NEW c \in Hand, c \in Contexts
    PROVE  wrapper[c] # "unborn"
  <1>1. CASE c \in Held  BY <1>1 DEF Held
  <1>2. CASE c \notin Held
    <2>1. Calling /\ c \in Given(Last(frames))  BY <1>2 DEF Hand
    <2>2. Len(frames) \in DOMAIN frames /\ Last(frames) = frames[Len(frames)]
      BY <2>1, LastIsFrame DEF Calling
    <2>3. c # RendererOf(Last(frames))  BY <2>2, RendererIsRenderer, ClassesDiffer
    <2>4. c = types[Last(frames).calling].context  BY <2>1, <2>3 DEF Given
    <2>5. Last(frames).calling \in DOMAIN types
      <3>1. Last(frames).calling \in 0..Len(types)  BY <2>1, LastIsFrame DEF Calling, FrameSet
      <3>2. Last(frames).calling # 0  BY <2>1 DEF Calling
      <3> QED  BY <3>1, <3>2 DEF TypeInv, Typed
    <2> QED  BY <2>4, <2>5 DEF TypeInv, ContextsOfTypes
  <1> QED  BY <1>1, <1>2

(* A use of objects ends in one of three ways. *)
LEMMA UsingStatus ==
    ASSUME NEW objects, NEW nodeTypes
    PROVE  Using(objects, nodeTypes) \in {"freed memory", "stale type", "ok"}
  BY DEF Using

-----------------------------------------------------------------------------
(* Steps of the same kind keep the types for the same reason.              *)

Statuses == {"ok", "freed memory", "freed nodes", "stale type", "no error", "no node", "mode", "aborted", "stale drop"}
Rules    == {"letgo", "optimizer", "replaced", "lexed", "compiled", "mixed", "raised", "optimized"}

(* What the state after a step that registers nothing has to be, to be typed. *)
LEMMA TypesKept ==
    ASSUME TypeInv, UNCHANGED <<types, dead>>,
           wrapper' \in [Objects -> {"unborn", "held", "loose", "freed"}],
           on' \in [Objects -> Objects \cup {None}],
           uses' \in [Objects -> SUBSET (1..Len(types))],
           machine' \in [Renderers -> MachineSet],
           frames' \in Seq(FrameSet(Len(types))), Len(frames') <= MaxFrames,
           raised' \subseteq Renderers, broke' \subseteq Rules, status' \in Statuses
    PROVE  TypeOK' /\ Typed'
  <1>1. \A r \in Renderers : machine'[r] \in MachineSet  OBVIOUS
  <1>2. TypeOK'  BY <1>1 DEF TypeInv, TypeOK, MachineSet, Rules, Statuses
  <1>3. types' \in Seq(NodeTypes)  BY DEF TypeInv, Typed
  <1>4. frames' \in Seq(FrameSet(Len(types')))  OBVIOUS
  <1> QED  BY <1>2, <1>3, <1>4 DEF Typed, NodeTypes, FrameSet, MachineSet

(* The part of the state that a failure, or nothing, leaves alone. *)
LEMMA StateTyped ==
    ASSUME TypeInv
    PROVE  /\ wrapper \in [Objects -> {"unborn", "held", "loose", "freed"}]
           /\ on \in [Objects -> Objects \cup {None}]
           /\ uses \in [Objects -> SUBSET (1..Len(types))]
           /\ machine \in [Renderers -> MachineSet]
           /\ frames \in Seq(FrameSet(Len(types))) /\ Len(frames) <= MaxFrames
           /\ raised \subseteq Renderers /\ broke \subseteq Rules /\ status \in Statuses
           /\ Len(types) \in Nat /\ types \in Seq(NodeTypes) /\ dead \subseteq 1..Len(types)
  <1>1. types \in Seq(NodeTypes)  BY DEF TypeInv, Typed
  <1>2. Len(types) \in Nat /\ DOMAIN types = 1..Len(types)  BY <1>1
  <1>3. machine \in [Renderers -> MachineSet] /\ frames \in Seq(FrameSet(Len(types)))  BY DEF TypeInv, Typed
  <1> QED  BY <1>1, <1>2, <1>3 DEF TypeInv, TypeOK, Rules, Statuses

(* Objects that were made stay made, and optimizers on their renderers. *)
LEMMA MadeStaysMade ==
    ASSUME TypeInv, UNCHANGED <<types, frames>>,
           \A o \in Objects : wrapper[o] # "unborn" => wrapper'[o] # "unborn",
           \A o \in Optimizers : wrapper'[o] # "unborn" => on'[o] \in Renderers
    PROVE  RenderersOfFrames' /\ ContextsOfTypes'
  <1>1. RenderersOfFrames'
    <2>1. \A n \in DOMAIN frames :
             /\ frames[n].op = "render" => frames[n].self \in Renderers
             /\ frames[n].op = "optimize" =>
                   frames[n].self \in Optimizers /\ wrapper'[frames[n].self] # "unborn"
      BY ClassesDiffer DEF TypeInv, RenderersOfFrames
    <2>2. Optimizers' = Optimizers /\ Renderers' = Renderers  BY DEF Optimizers, Renderers, Kind
    <2> QED  BY <2>1, <2>2 DEF RenderersOfFrames
  <1>2. ContextsOfTypes'
    <2>1. \A ty \in DOMAIN types : types[ty].context \in Objects
      BY TypeIsTyped, ClassesDiffer
    <2> QED  BY <2>1 DEF TypeInv, ContextsOfTypes
  <1> QED  BY <1>1, <1>2

(* A failure changes nothing but the status. *)
LEMMA FailingKeepsTypes ==
    ASSUME TypeInv, UNCHANGED engine, status' \in Statuses, broke' \subseteq Rules
    PROVE  TypeInv'
  <1>1. UNCHANGED <<wrapper, on, uses, types, dead, machine, frames, raised>>  BY DEF engine
  <1>2. TypeOK' /\ Typed'  BY <1>1, StateTyped, TypesKept
  <1>3. RenderersOfFrames' /\ ContextsOfTypes'
    BY <1>1, MadeStaysMade DEF TypeInv, RenderersOfFrames
  <1> QED  BY <1>2, <1>3 DEF TypeInv

LEMMA FailsKeeps ==
    ASSUME TypeInv, NEW as \in Statuses, NEW why \in SUBSET Rules, Fails(as, why)
    PROVE  TypeInv'
  <1>1. UNCHANGED engine /\ status' \in Statuses /\ broke' \subseteq Rules
    BY StateTyped DEF Fails
  <1> QED  BY <1>1, FailingKeepsTypes

(* Something is made: it was not before, and if it is an optimizer it has a renderer. *)
LEMMA MakingKeepsTypes ==
    ASSUME TypeInv, NEW o \in Objects, NEW x \in Objects \cup {None}, NEW nodeTypes \in SUBSET (1..Len(types)),
           Make(o, x, nodeTypes), o \in Optimizers => x \in Renderers,
           UNCHANGED <<types, dead, frames, raised, status>>,
           machine' \in [Renderers -> MachineSet], broke' \subseteq Rules
    PROVE  TypeInv'
  <1>1. /\ wrapper' \in [Objects -> {"unborn", "held", "loose", "freed"}]
        /\ on' \in [Objects -> Objects \cup {None}]
        /\ uses' \in [Objects -> SUBSET (1..Len(types))]
    BY StateTyped DEF Make
  <1>2. frames' \in Seq(FrameSet(Len(types))) /\ Len(frames') <= MaxFrames
        /\ raised' \subseteq Renderers /\ status' \in Statuses
    BY StateTyped
  <1>3. TypeOK' /\ Typed'  BY <1>1, <1>2, TypesKept
  <1>4. \A p \in Objects : /\ wrapper'[p] = IF p = o THEN "held" ELSE wrapper[p]
                           /\ on'[p] = IF p = o THEN x ELSE on[p]
    BY StateTyped DEF Make
  <1>5. \A p \in Objects : wrapper[p] # "unborn" => wrapper'[p] # "unborn"  BY <1>4
  <1>6. \A p \in Optimizers : wrapper'[p] # "unborn" => on'[p] \in Renderers
    BY <1>4, ClassesDiffer DEF TypeInv, RenderersOfFrames
  <1>7. RenderersOfFrames' /\ ContextsOfTypes'  BY <1>5, <1>6, MadeStaysMade
  <1> QED  BY <1>3, <1>7 DEF TypeInv

(* A wrapper that was made is let go of or freed. *)
LEMMA LettingGoKeepsTypes ==
    ASSUME TypeInv, NEW o \in Objects, NEW w \in {"loose", "freed"}, wrapper[o] # "unborn",
           wrapper' = [wrapper EXCEPT ![o] = w],
           UNCHANGED <<on, uses, types, dead, machine, frames, raised>>,
           status' \in Statuses, broke' \subseteq Rules
    PROVE  TypeInv'
  <1>1. \A p \in Objects : wrapper'[p] = IF p = o THEN w ELSE wrapper[p]  BY StateTyped
  <1>2. wrapper' \in [Objects -> {"unborn", "held", "loose", "freed"}]  BY StateTyped
  <1>3. TypeOK' /\ Typed'  BY <1>2, StateTyped, TypesKept
  <1>4. \A p \in Objects : wrapper[p] # "unborn" <=> wrapper'[p] # "unborn"  BY <1>1
  <1>5. \A p \in Optimizers : wrapper'[p] # "unborn" => on'[p] \in Renderers
    BY <1>4, ClassesDiffer DEF TypeInv, RenderersOfFrames
  <1>6. RenderersOfFrames' /\ ContextsOfTypes'  BY <1>4, <1>5, MadeStaysMade
  <1> QED  BY <1>3, <1>6 DEF TypeInv

(* A call begins, goes on or ends: only frames and the renderers change. *)
LEMMA CallsKeepTypes ==
    ASSUME TypeInv, UNCHANGED <<wrapper, on, types, dead, status>>,
           uses' \in [Objects -> SUBSET (1..Len(types))],
           machine' \in [Renderers -> MachineSet],
           frames' \in Seq(FrameSet(Len(types))), Len(frames') <= MaxFrames,
           \A n \in DOMAIN frames' :
              /\ frames'[n].op = "render" => frames'[n].self \in Renderers
              /\ frames'[n].op = "optimize" =>
                    frames'[n].self \in Optimizers /\ wrapper[frames'[n].self] # "unborn",
           raised' \subseteq Renderers, broke' \subseteq Rules
    PROVE  TypeInv'
  <1>1. TypeOK' /\ Typed'  BY StateTyped, TypesKept
  <1>2. RenderersOfFrames'
    BY DEF TypeInv, RenderersOfFrames, Optimizers, Renderers, Kind
  <1>3. ContextsOfTypes'  BY DEF TypeInv, ContextsOfTypes
  <1> QED  BY <1>1, <1>2, <1>3 DEF TypeInv

-----------------------------------------------------------------------------
(* Every step keeps the types.                                             *)

(* A field of a renderer is set. *)
LEMMA MachineStaysTyped ==
    ASSUME TypeInv, NEW r \in Renderers, NEW m \in MachineSet
    PROVE  [machine EXCEPT ![r] = m] \in [Renderers -> MachineSet]
  BY StateTyped

LEMMA DepthIsTyped == ASSUME NEW n \in Int PROVE n % Word \in 0..(Word - 1)
  BY BindingsAssumption

LEMMA NewTypes ==
    ASSUME TypeInv, NEW o \in Objects, NEW x \in Objects, New(o, x), UNCHANGED machine,
           o \notin Optimizers, Breaks("letgo", x \notin Held)
    PROVE  TypeInv'
  <1>1. Make(o, x, {}) /\ UNCHANGED <<types, dead, frames, raised, status>>  BY DEF New
  <1>2. machine' \in [Renderers -> MachineSet] /\ broke' \subseteq Rules
    BY StateTyped DEF Breaks, Rules
  <1> QED  BY <1>1, <1>2, MakingKeepsTypes

LEMMA NewContextTypes == ASSUME TypeInv, NewContext PROVE TypeInv'
  <1>1. PICK c \in Contexts : Make(c, None, {})  BY DEF NewContext
  <1>2. UNCHANGED <<types, dead, machine, frames, raised, broke, status>>  BY DEF NewContext
  <1>3. machine' \in [Renderers -> MachineSet] /\ broke' \subseteq Rules  BY <1>2, StateTyped
  <1>4. c \in Objects /\ c \notin Optimizers  BY ClassesDiffer
  <1> QED  BY <1>1, <1>2, <1>3, <1>4, MakingKeepsTypes

LEMMA NewOfContextTypes ==
    ASSUME TypeInv, NewParser \/ NewRenderer \/ NewCompiler
    PROVE  TypeInv'
  <1>1. PICK o \in Parsers \cup Renderers \cup Compilers, c \in Contexts : NewOfContext(o, c)
    BY DEF NewParser, NewRenderer, NewCompiler
  <1>2. o \in Objects /\ o \notin Optimizers /\ c \in Objects
    BY ClassesDiffer DEF Parsers, Renderers, Compilers, Kind
  <1> QED  BY <1>1, <1>2, NewTypes DEF NewOfContext

LEMMA NewOptimizerTypes == ASSUME TypeInv, NewOptimizer PROVE TypeInv'
  <1>1. PICK o \in Optimizers, r \in Renderers :
           /\ New(o, r)
           /\ machine' = [machine EXCEPT ![r].depth = 0]
           /\ broke' = broke \cup (IF r \in Held THEN {} ELSE {"letgo"})
                             \cup (IF Rendering(r) = {} THEN {} ELSE {"optimizer"})
    BY DEF NewOptimizer
  <1>2. Make(o, r, {}) /\ UNCHANGED <<types, dead, frames, raised, status>>  BY <1>1 DEF New
  <1>3. broke' \subseteq Rules  BY <1>1, StateTyped DEF Rules
  <1>4. machine' \in [Renderers -> MachineSet]
    <2>1. 0 \in 0..(Word - 1)  BY BindingsAssumption
    <2>2. [machine[r] EXCEPT !.depth = 0] \in MachineSet  BY <2>1, StateTyped DEF MachineSet
    <2> QED  BY <1>1, <2>2, MachineStaysTyped
  <1>5. o \in Objects /\ r \in Objects  BY ClassesDiffer
  <1> QED  BY <1>2, <1>3, <1>4, <1>5, MakingKeepsTypes

LEMMA DropTypes == ASSUME TypeInv, NEW o \in Objects, Drop(o) PROVE TypeInv'
  <1>1. wrapper[o] # "unborn"  BY DEF Drop, Held
  <1>2. broke' \subseteq Rules /\ status' \in Statuses  BY StateTyped DEF Drop, Breaks, Rules
  <1> QED  BY <1>1, <1>2, LettingGoKeepsTypes DEF Drop

LEMMA CollectTypes == ASSUME TypeInv, NEW o \in Objects, Collect(o) PROVE TypeInv'
  <1>1. wrapper[o] # "unborn"  BY DEF Collect
  <1>2. broke' \subseteq Rules /\ status' \in Statuses
    BY StateTyped, UsingStatus DEF Collect, Statuses
  <1> QED  BY <1>1, <1>2, LettingGoKeepsTypes DEF Collect

LEMMA CollectProcTypes == ASSUME TypeInv, NEW ty \in DOMAIN types, CollectProc(ty) PROVE TypeInv'
  <1>1. dead' \subseteq DOMAIN types /\ UNCHANGED <<wrapper, on, uses, types, machine, frames, raised, broke, status>>
    BY DEF CollectProc, TypeInv, TypeOK
  <1>2. TypeOK'  BY <1>1 DEF TypeInv, TypeOK
  <1>3. Typed'
    <2>1. types' = types /\ machine' = machine /\ frames' = frames  BY <1>1
    <2> QED  BY <2>1, StateTyped DEF Typed, NodeTypes, FrameSet, MachineSet
  <1>4. RenderersOfFrames' /\ ContextsOfTypes'
    BY <1>1, MadeStaysMade DEF TypeInv, RenderersOfFrames
  <1> QED  BY <1>2, <1>3, <1>4 DEF TypeInv

(* With one more node type, frames and uses have the types they had. *)
LEMMA MoreTypes ==
    ASSUME NEW n \in Nat
    PROVE  FrameSet(n) \subseteq FrameSet(n + 1) /\ SUBSET (1..n) \subseteq SUBSET (1..(n + 1))
  <1>1. 1..n \subseteq 1..(n + 1) /\ 0..n \subseteq 0..(n + 1)  OBVIOUS
  <1> QED  BY <1>1 DEF FrameSet

LEMMA RegisterTypes ==
    ASSUME TypeInv, NEW c \in Contexts, NEW s \in Symbols, NEW captures \in BOOLEAN, Register(c, s, captures)
    PROVE  TypeInv'
  <1> DEFINE older == [ty \in DOMAIN types |-> [types[ty] EXCEPT !.replaced = @ \/ ty \in Current(c, s)]]
  <1>1. /\ types' = Append(older, NodeType(c, s, captures))
        /\ Len(types) < MaxTypes /\ broke' \subseteq Rules
        /\ UNCHANGED <<wrapper, on, uses, dead, machine, frames, raised, status>>
        /\ wrapper[c] # "unborn"
    BY StateTyped, HandIsMade DEF Register, Breaks, Rules
  <1>2. older \in Seq(NodeTypes) /\ Len(older) = Len(types)
        /\ \A ty \in DOMAIN types : older[ty].context = types[ty].context
    <2>1. \A ty \in DOMAIN types : /\ [types[ty] EXCEPT !.replaced = @ \/ ty \in Current(c, s)] \in NodeTypes
                                   /\ older[ty].context = types[ty].context
      BY TypeIsTyped DEF NodeTypes
    <2>2. DOMAIN types = 1..Len(types) /\ Len(types) \in Nat  BY StateTyped
    <2>3. older \in [1..Len(types) -> NodeTypes]  BY <2>1, <2>2
    <2> QED  BY <2>1, <2>2, <2>3
  <1>3. NodeType(c, s, captures) \in NodeTypes  BY DEF NodeType, NodeTypes
  <1> HIDE DEF older
  <1>4. types' \in Seq(NodeTypes) /\ Len(types') = Len(types) + 1 /\ DOMAIN types' = 1..(Len(types) + 1)
    BY <1>1, <1>2, <1>3
  <1>5. \A ty \in DOMAIN types' : types'[ty].context = IF ty \in DOMAIN types THEN types[ty].context ELSE c
    <2>1. DOMAIN types = 1..Len(types) /\ Len(types) \in Nat  BY StateTyped
    <2>2. \A ty \in 1..Len(types) : types'[ty] = older[ty]  BY <1>1, <1>2, <1>3
    <2>3. types'[Len(types) + 1] = NodeType(c, s, captures)  BY <1>1, <1>2, <1>3
    <2> QED  BY <1>2, <1>4, <2>1, <2>2, <2>3 DEF NodeType
  <1>6. Len(types) \in Nat  BY StateTyped
  <1>7. frames' \in Seq(FrameSet(Len(types'))) /\ uses' \in [Objects -> SUBSET (1..Len(types'))]
        /\ dead' \subseteq DOMAIN types' /\ Len(types') <= MaxTypes
    <2>1. FrameSet(Len(types)) \subseteq FrameSet(Len(types'))
          /\ SUBSET (1..Len(types)) \subseteq SUBSET (1..Len(types'))
      BY <1>4, <1>6, MoreTypes
    <2>2. frames' \in Seq(FrameSet(Len(types'))) /\ uses' \in [Objects -> SUBSET (1..Len(types'))]
      BY <1>1, <2>1, StateTyped
    <2>3. dead' \subseteq DOMAIN types'  BY <1>1, <1>4, <1>6, StateTyped
    <2>4. Len(types') <= MaxTypes  BY <1>1, <1>4, <1>6, BindingsAssumption
    <2> QED  BY <2>2, <2>3, <2>4
  <1>8. Typed'
    <2>1. machine' = machine  BY <1>1
    <2> QED  BY <2>1, <1>4, <1>7, StateTyped DEF Typed, NodeTypes, FrameSet, MachineSet
  <1>9. TypeOK'  BY <1>1, <1>7 DEF TypeInv, TypeOK, Rules
  <1>10. RenderersOfFrames'
    BY <1>1 DEF TypeInv, RenderersOfFrames, Optimizers, Renderers, Kind
  <1>11. ContextsOfTypes'  BY <1>1, <1>5 DEF TypeInv, ContextsOfTypes
  <1> QED  BY <1>8, <1>9, <1>10, <1>11 DEF TypeInv

LEMMA ParseTypes ==
    ASSUME TypeInv, NEW p \in Parsers, NEW t \in Templates, Parse(p, t) \/ CopiesNoError(p)
    PROVE  TypeInv'
  <1>1. p \in Objects /\ t \in Objects /\ t \notin Optimizers  BY ClassesDiffer DEF Parsers, Kind
  <1>2. CASE CopiesNoError(p)
    BY <1>2, FailsKeeps DEF CopiesNoError, Statuses, Rules
  <1>3. CASE Parse(p, t) /\ Using(Behind({p}), {}) # "ok"
    <2>1. Using(Behind({p}), {}) \in Statuses  BY UsingStatus DEF Statuses
    <2>2. Fails(Using(Behind({p}), {}), {})  BY <1>3 DEF Parse
    <2> QED  BY <2>1, <2>2, FailsKeeps
  <1>4. CASE Parse(p, t) /\ Using(Behind({p}), {}) = "ok"
    <2>1. PICK symbols \in SUBSET Symbols : Make(t, on[p], UNION {Current(on[p], s) : s \in symbols})
      BY <1>4 DEF Parse
    <2>2. UNCHANGED <<types, dead, machine, frames, raised, broke, status>>  BY <1>4 DEF Parse
    <2>3. UNION {Current(on[p], s) : s \in symbols} \in SUBSET (1..Len(types))
      <3>1. DOMAIN types = 1..Len(types)  BY StateTyped
      <3> QED  BY <3>1 DEF Current
    <2>4. on[p] \in Objects \cup {None}  BY <1>1, StateTyped
    <2>5. machine' \in [Renderers -> MachineSet] /\ broke' \subseteq Rules  BY <2>2, StateTyped
    <2> QED  BY <1>1, <2>1, <2>2, <2>3, <2>4, <2>5, MakingKeepsTypes
  <1> QED  BY <1>2, <1>3, <1>4

LEMMA UnparseTypes ==
    ASSUME TypeInv, NEW p \in Parsers, NEW t \in Templates, Unparse(p, t)
    PROVE  TypeInv'
  <1>1. Using({p} \cup Behind({t}), uses[t]) \in Statuses  BY UsingStatus DEF Statuses
  <1> QED  BY <1>1, FailsKeeps DEF Unparse

LEMMA CompileTypes ==
    ASSUME TypeInv, NEW k \in Compilers, NEW t \in Templates, NEW g \in Programs, Compile(k, t, g)
    PROVE  TypeInv'
  <1> DEFINE result == Using({k} \cup Behind({t}), uses[t])
  <1>1. t \in Objects /\ g \in Objects /\ g \notin Optimizers  BY ClassesDiffer DEF Programs, Kind
  <1>2. result \in Statuses  BY UsingStatus DEF Statuses
  <1>3. CASE result # "ok"
    <2>1. Fails(result, {})  BY <1>3 DEF Compile
    <2> HIDE DEF result
    <2> QED  BY <1>2, <2>1, FailsKeeps
  <1>4. CASE result = "ok"
    <2>1. Make(g, on[t], uses[t]) /\ UNCHANGED <<types, dead, machine, frames, raised, status>>
          /\ Breaks("compiled", uses[t] # {})
      BY <1>4 DEF Compile
    <2>2. on[t] \in Objects \cup {None} /\ uses[t] \in SUBSET (1..Len(types))  BY <1>1, StateTyped
    <2>3. machine' \in [Renderers -> MachineSet] /\ broke' \subseteq Rules
      BY <2>1, StateTyped DEF Breaks, Rules
    <2> QED  BY <1>1, <2>1, <2>2, <2>3, MakingKeepsTypes
  <1> QED  BY <1>3, <1>4

LEMMA RunTypes ==
    ASSUME TypeInv, NEW r \in Renderers, NEW g \in Programs, Run(r, g)
    PROVE  TypeInv'
  <1> DEFINE result == Using(Behind({r, g}), uses[g])
  <1>1. result \in Statuses /\ "no node" \in Statuses  BY UsingStatus DEF Statuses
  <1>2. CASE result # "ok" \/ uses[g] # {}
    <2>1. Fails(IF result = "ok" THEN "no node" ELSE result, {})  BY <1>2 DEF Run
    <2>2. (IF result = "ok" THEN "no node" ELSE result) \in Statuses  BY <1>1
    <2> HIDE DEF result
    <2> QED  BY <2>1, <2>2, FailsKeeps
  <1>3. CASE ~(result # "ok" \/ uses[g] # {})
    <2>1. /\ machine' = [machine EXCEPT ![r].mode = "interpreter"]
          /\ Breaks("mixed", \E f \in ToSet(frames) : RendererOf(f) = r)
          /\ UNCHANGED <<wrapper, on, uses, types, dead, frames, raised, status>>
      BY <1>3 DEF Run
    <2>2. [machine[r] EXCEPT !.mode = "interpreter"] \in MachineSet  BY StateTyped DEF MachineSet
    <2>3. machine' \in [Renderers -> MachineSet]  BY <2>1, <2>2, MachineStaysTyped
    <2>4. broke' \subseteq Rules  BY <2>1, StateTyped DEF Breaks, Rules
    <2> QED  BY <2>1, <2>3, <2>4, StateTyped, CallsKeepTypes DEF TypeInv, RenderersOfFrames
  <1> QED  BY <1>2, <1>3

(* A call that begins. *)
LEMMA PushTypes ==
    ASSUME TypeInv, NEW f \in FrameSet(Len(types)), frames' = Append(frames, f), Len(frames) < MaxFrames,
           f.op = "render" => f.self \in Renderers,
           f.op = "optimize" => f.self \in Optimizers /\ wrapper[f.self] # "unborn",
           UNCHANGED <<wrapper, on, uses, types, dead, raised, status>>,
           machine' \in [Renderers -> MachineSet], broke' \subseteq Rules
    PROVE  TypeInv'
  <1>1. frames' \in Seq(FrameSet(Len(types))) /\ Len(frames') = Len(frames) + 1 /\ Len(frames) \in Nat
    BY StateTyped
  <1>2. Len(frames') <= MaxFrames  BY <1>1, BindingsAssumption
  <1>3. \A n \in DOMAIN frames' : frames'[n] = IF n \in DOMAIN frames THEN frames[n] ELSE f
    BY StateTyped
  <1>4. \A n \in DOMAIN frames' :
           /\ frames'[n].op = "render" => frames'[n].self \in Renderers
           /\ frames'[n].op = "optimize" =>
                 frames'[n].self \in Optimizers /\ wrapper[frames'[n].self] # "unborn"
    BY <1>3 DEF TypeInv, RenderersOfFrames
  <1>5. uses' \in [Objects -> SUBSET (1..Len(types))] /\ raised' \subseteq Renderers  BY StateTyped
  <1> QED  BY <1>1, <1>2, <1>4, <1>5, CallsKeepTypes

LEMMA EnteredIsTyped ==
    ASSUME TypeInv, NEW r \in Renderers
    PROVE  Entered(r) \in MachineSet /\ Entered(r).depth \in Nat
  <1>1. machine[r] \in MachineSet  BY StateTyped
  <1>2. 0 \in 0..(Word - 1)  BY BindingsAssumption
  <1>3. Restarted(machine[r]) \in MachineSet  BY <1>1, <1>2 DEF Restarted, MachineSet
  <1>4. Entered(r) \in MachineSet  BY <1>1, <1>3 DEF Entered, MachineSet
  <1> QED  BY <1>4 DEF MachineSet

LEMMA StartRenderTypes ==
    ASSUME TypeInv, NEW r \in Renderers, NEW t \in Templates, StartRender(r, t)
    PROVE  TypeInv'
  <1> DEFINE result == Using(Behind({r, t}), {})
             depth  == (Entered(r).depth + 1) % Word
             frame  == [Frame("render", r, t, uses[t]) EXCEPT !.nested = machine[r].internal]
  <1>1. result \in Statuses /\ "aborted" \in Statuses  BY UsingStatus DEF Statuses
  <1>2. CASE result # "ok"
    <2>1. Fails(result, {})  BY <1>2 DEF StartRender
    <2> HIDE DEF result
    <2> QED  BY <1>1, <2>1, FailsKeeps
  <1>3. CASE result = "ok" /\ depth > MaximumRenderingDepth
    <2>1. Fails("aborted", {})  BY <1>3 DEF StartRender
    <2> QED  BY <1>1, <2>1, FailsKeeps
  <1>4. CASE result = "ok" /\ ~(depth > MaximumRenderingDepth)
    <2>1. /\ machine' = [machine EXCEPT ![r] = [Entered(r) EXCEPT !.depth = depth]]
          /\ frames' = Append(frames, frame)
          /\ Len(frames) < MaxFrames
          /\ UNCHANGED <<wrapper, on, uses, types, dead, raised, broke, status>>
      BY <1>4 DEF StartRender
    <2>2. depth \in 0..(Word - 1)
      <3>1. Entered(r).depth + 1 \in Int  BY EnteredIsTyped
      <3> QED  BY <3>1, DepthIsTyped
    <2>3. [Entered(r) EXCEPT !.depth = depth] \in MachineSet
      <3> HIDE DEF depth
      <3> QED  BY <2>2, EnteredIsTyped DEF MachineSet
    <2>4. machine' \in [Renderers -> MachineSet]  BY <2>1, <2>3, MachineStaysTyped
    <2>5. frame \in FrameSet(Len(types)) /\ frame.op = "render" /\ frame.self = r
      <3>1. uses[t] \in SUBSET (1..Len(types))  BY StateTyped, ClassesDiffer
      <3>2. machine[r].internal \in BOOLEAN  BY StateTyped DEF MachineSet
      <3>3. 0 \in 0..Len(types)  BY StateTyped
      <3> QED  BY <3>1, <3>2, <3>3 DEF Frame, FrameSet
    <2>6. broke' \subseteq Rules  BY <2>1, StateTyped
    <2> QED  BY <2>1, <2>4, <2>5, <2>6, PushTypes
  <1> QED  BY <1>2, <1>3, <1>4

LEMMA StartOptimizeTypes ==
    ASSUME TypeInv, NEW o \in Optimizers, NEW t \in Templates, StartOptimize(o, t)
    PROVE  TypeInv'
  <1> DEFINE result == Using(Behind(Behind({o})) \cup Behind({t}), uses[t])
  <1>1. result \in Statuses  BY UsingStatus DEF Statuses
  <1>2. CASE result # "ok"
    <2>1. Fails(result, {})  BY <1>2 DEF StartOptimize
    <2> HIDE DEF result
    <2> QED  BY <1>1, <2>1, FailsKeeps
  <1>3. CASE Fails("freed nodes", {"optimized"})
    BY <1>3, FailsKeeps DEF Statuses, Rules
  <1>4. CASE result = "ok" /\ ~Fails("freed nodes", {"optimized"})
    <2>1. /\ \E known \in SUBSET uses[t] : frames' = Append(frames, Frame("optimize", o, t, known))
          /\ broke' \subseteq broke \cup {"mixed", "optimized"}
          /\ Len(frames) < MaxFrames
          /\ UNCHANGED <<wrapper, on, uses, types, dead, machine, raised, status>>
      BY <1>4 DEF StartOptimize
    <2>2. PICK known \in SUBSET uses[t] : frames' = Append(frames, Frame("optimize", o, t, known))
      BY <2>1
    <2>3. Frame("optimize", o, t, known) \in FrameSet(Len(types))
      <3>1. uses[t] \in SUBSET (1..Len(types))  BY StateTyped, ClassesDiffer
      <3>2. 0 \in 0..Len(types)  BY StateTyped
      <3> QED  BY <3>1, <3>2 DEF Frame, FrameSet
    <2>4. o \in Held
      <3>1. CASE ~Calling  BY <3>1 DEF StartOptimize, Hand
      <3>2. CASE Calling
        <4>1. Len(frames) \in DOMAIN frames /\ Last(frames) = frames[Len(frames)]
              /\ Last(frames) \in FrameSet(Len(types))
          BY <3>2, LastIsFrame DEF Calling
        <4>2. RendererOf(Last(frames)) \in Renderers  BY <4>1, RendererIsRenderer
        <4>3. Last(frames).calling \in DOMAIN types  BY <3>2, <4>1, StateTyped DEF Calling, FrameSet
        <4>4. types[Last(frames).calling].context \in Contexts  BY <4>3, TypeIsTyped
        <4>5. o \notin Given(Last(frames))  BY <4>2, <4>4, ClassesDiffer DEF Given
        <4> QED  BY <4>5 DEF StartOptimize, Hand
      <3> QED  BY <3>1, <3>2
    <2>5. wrapper[o] # "unborn"  BY <2>4 DEF Held
    <2>6. machine' \in [Renderers -> MachineSet] /\ broke' \subseteq Rules
      BY <2>1, StateTyped DEF Rules
    <2>7. Frame("optimize", o, t, known).op = "optimize" /\ Frame("optimize", o, t, known).self = o
      BY DEF Frame
    <2> QED  BY <2>1, <2>2, <2>3, <2>5, <2>6, <2>7, PushTypes
  <1> QED  BY <1>2, <1>3, <1>4

(* The innermost call goes on, with another turn. *)
LEMMA TurnTypes ==
    ASSUME TypeInv, frames # <<>>, NEW f \in FrameSet(Len(types)),
           f.op = Last(frames).op, f.self = Last(frames).self,
           frames' = [frames EXCEPT ![Len(frames)] = f],
           UNCHANGED <<wrapper, on, uses, types, dead, machine, raised, broke, status>>
    PROVE  TypeInv'
  <1>1. Len(frames) \in DOMAIN frames /\ Last(frames) = frames[Len(frames)]  BY LastIsFrame
  <1>2. frames' \in Seq(FrameSet(Len(types))) /\ Len(frames') = Len(frames) /\ DOMAIN frames' = DOMAIN frames
    BY StateTyped
  <1>3. \A n \in DOMAIN frames' : frames'[n] = IF n = Len(frames) THEN f ELSE frames[n]
    BY <1>1, StateTyped
  <1>4. \A n \in DOMAIN frames' : frames'[n].op = frames[n].op /\ frames'[n].self = frames[n].self
    BY <1>1, <1>3
  <1>5. \A n \in DOMAIN frames' :
           /\ frames'[n].op = "render" => frames'[n].self \in Renderers
           /\ frames'[n].op = "optimize" =>
                 frames'[n].self \in Optimizers /\ wrapper[frames'[n].self] # "unborn"
    BY <1>2, <1>4 DEF TypeInv, RenderersOfFrames
  <1>6. Len(frames') <= MaxFrames  BY <1>2, StateTyped
  <1> QED  BY <1>2, <1>5, <1>6, StateTyped, CallsKeepTypes

(* What CallHost and Return make of the innermost call. *)
Turned(f, ty, inLoop) == [f EXCEPT !.calling = ty, !.loop = inLoop, !.todo = @ \ {ty}]
Resumed(f)            == [f EXCEPT !.calling = 0, !.loop = FALSE]

LEMMA CallHostTypes ==
    ASSUME TypeInv, NEW ty \in DOMAIN types, NEW inLoop \in BOOLEAN, CallHost(ty, inLoop)
    PROVE  TypeInv'
  <1> DEFINE result == Using(FrameUses(Last(frames)), {ty})
             called == Turned(Last(frames), ty, inLoop)
  <1>1. {result, "mode", "freed memory"} \subseteq Statuses  BY UsingStatus DEF Statuses
  <1>2. Fails(result, {}) \/ Fails("mode", {}) \/ Fails("freed memory", {})
        \/ /\ frames' = [frames EXCEPT ![Len(frames)].calling = ty, ![Len(frames)].loop = inLoop,
                                        ![Len(frames)].todo = @ \ {ty}]
           /\ UNCHANGED <<wrapper, on, uses, types, dead, machine, raised, broke, status>>
    BY DEF CallHost
  <1>3. CASE Fails(result, {}) \/ Fails("mode", {}) \/ Fails("freed memory", {})
    <2> HIDE DEF result
    <2> QED  BY <1>1, <1>3, FailsKeeps
  <1>4. CASE /\ frames' = [frames EXCEPT ![Len(frames)].calling = ty, ![Len(frames)].loop = inLoop,
                                          ![Len(frames)].todo = @ \ {ty}]
             /\ UNCHANGED <<wrapper, on, uses, types, dead, machine, raised, broke, status>>
    <2>1. frames # <<>>  BY DEF CallHost, Engine
    <2>2. Len(frames) \in DOMAIN frames /\ Last(frames) = frames[Len(frames)]
          /\ Last(frames) \in FrameSet(Len(types))
      BY <2>1, LastIsFrame
    <2>3. frames' = [frames EXCEPT ![Len(frames)] = called]  BY <1>4, <2>2 DEF Turned, FrameSet
    <2>4. ty \in 0..Len(types)  BY StateTyped
    <2>5. called \in FrameSet(Len(types)) /\ called.op = Last(frames).op /\ called.self = Last(frames).self
      BY <2>2, <2>4 DEF Turned, FrameSet
    <2> QED  BY <1>4, <2>1, <2>3, <2>5, TurnTypes
  <1> QED  BY <1>2, <1>3, <1>4

LEMMA ReturnTypes == ASSUME TypeInv, Return PROVE TypeInv'
  <1> DEFINE resumed == Resumed(Last(frames))
  <1>1. frames # <<>>  BY DEF Return, Calling
  <1>2. Len(frames) \in DOMAIN frames /\ Last(frames) = frames[Len(frames)]
        /\ Last(frames) \in FrameSet(Len(types))
    BY <1>1, LastIsFrame
  <1>3. frames' = [frames EXCEPT ![Len(frames)] = resumed]  BY <1>2 DEF Return, Resumed, FrameSet
  <1>4. 0 \in 0..Len(types)  BY StateTyped
  <1>5. resumed \in FrameSet(Len(types)) /\ resumed.op = Last(frames).op /\ resumed.self = Last(frames).self
    BY <1>2, <1>4 DEF Resumed, FrameSet
  <1> QED  BY <1>1, <1>3, <1>5, TurnTypes DEF Return

LEMMA ReadStaleDropTypes == ASSUME TypeInv, ReadStaleDrop PROVE TypeInv'
  BY FailsKeeps DEF ReadStaleDrop, Statuses

(* The calls that are left when the innermost ones are over. *)
LEMMA PopIsTyped ==
    ASSUME TypeInv, NEW n \in 0..Len(frames), NEW rest, rest = SubSeq(frames, 1, n)
    PROVE  /\ rest \in Seq(FrameSet(Len(types))) /\ Len(rest) <= MaxFrames
           /\ DOMAIN rest = 1..n /\ Len(rest) = n
           /\ \A k \in 1..n : k \in DOMAIN frames /\ rest[k] = frames[k]
           /\ \A k \in 1..n : /\ rest[k].op = "render" => rest[k].self \in Renderers
                              /\ rest[k].op = "optimize" =>
                                    rest[k].self \in Optimizers /\ wrapper[rest[k].self] # "unborn"
  <1>1. frames \in Seq(FrameSet(Len(types))) /\ Len(frames) <= MaxFrames /\ Len(frames) \in Nat
    BY StateTyped
  <1>2. rest \in Seq(FrameSet(Len(types))) /\ Len(rest) = n /\ DOMAIN rest = 1..n  BY <1>1
  <1>3. \A k \in 1..n : k \in DOMAIN frames /\ rest[k] = frames[k]  BY <1>1
  <1>4. Len(rest) <= MaxFrames  BY <1>1, <1>2, BindingsAssumption
  <1> QED  BY <1>2, <1>3, <1>4 DEF TypeInv, RenderersOfFrames

LEMMA RaiseTypes == ASSUME TypeInv, NEW n \in 1..MaxFrames, Raise(n) PROVE TypeInv'
  <1> DEFINE popped == {frames[k] : k \in (Len(frames) - n + 1)..Len(frames)}
             inLoop == {RendererOf(f) : f \in {g \in popped : g.loop}}
  <1>1. /\ n \in 1..Len(frames)
        /\ machine' = [r \in DOMAIN machine |-> [machine[r] EXCEPT !.drops = @ \/ r \in inLoop]]
        /\ raised' = raised \cup {f.self : f \in {g \in popped : g.op = "render"}}
        /\ broke' = broke \cup {"raised"}
        /\ frames' = SubSeq(frames, 1, Len(frames) - n)
        /\ UNCHANGED <<wrapper, on, uses, types, dead, status>>
    BY DEF Raise
  <1>2. Len(frames) - n \in 0..Len(frames)  BY <1>1, StateTyped
  <1>3. \A k \in (Len(frames) - n + 1)..Len(frames) : k \in DOMAIN frames  BY <1>1, StateTyped
  <1>4. raised' \subseteq Renderers
    BY <1>1, <1>3, StateTyped DEF TypeInv, RenderersOfFrames
  <1>5. machine' \in [Renderers -> MachineSet]
    <2>1. \A r \in Renderers : machine[r] \in MachineSet  BY StateTyped
    <2>4. DOMAIN machine = Renderers  BY StateTyped
    <2> DEFINE after(r) == [machine[r] EXCEPT !.drops = @ \/ r \in inLoop]
    <2>2. machine' = [r \in Renderers |-> after(r)]  BY <1>1, <2>4
    <2> HIDE DEF inLoop
    <2>3. \A r \in Renderers : after(r) \in MachineSet  BY <2>1 DEF MachineSet
    <2> HIDE DEF after
    <2> QED  BY <2>2, <2>3
  <1>6. broke' \subseteq Rules  BY <1>1, StateTyped DEF Rules
  <1>7. uses' \in [Objects -> SUBSET (1..Len(types))]  BY <1>1, StateTyped
  <1> HIDE DEF popped, inLoop
  <1> DEFINE left == Len(frames) - n
  <1>9. left \in 0..Len(frames) /\ frames' = SubSeq(frames, 1, left)  BY <1>1, <1>2
  <1> HIDE DEF left
  <1>8. /\ frames' \in Seq(FrameSet(Len(types))) /\ Len(frames') <= MaxFrames
        /\ \A k \in DOMAIN frames' :
              /\ frames'[k].op = "render" => frames'[k].self \in Renderers
              /\ frames'[k].op = "optimize" =>
                    frames'[k].self \in Optimizers /\ wrapper[frames'[k].self] # "unborn"
    BY <1>9, PopIsTyped
  <1>10. UNCHANGED <<wrapper, on, types, dead, status>>  BY <1>1
  <1> QED  BY <1>4, <1>5, <1>6, <1>7, <1>8, <1>10, CallsKeepTypes

LEMMA OverIsTyped ==
    ASSUME NEW m \in MachineSet, NEW nested \in BOOLEAN, NEW warns \in BOOLEAN
    PROVE  /\ Over(m, nested, warns) \in MachineSet
           /\ Over(m, nested, warns).internal = nested
           /\ Over(m, nested, warns).depth = (m.depth - 1) % Word
           /\ Over(m, nested, warns).warned \subseteq m.warned \cup {"own"}
  <1>1. m.depth - 1 \in Int  BY DEF MachineSet
  <1>2. (m.depth - 1) % Word \in 0..(Word - 1)  BY <1>1, DepthIsTyped
  <1>3. Left(m, nested) \in MachineSet /\ Left(m, nested).internal = nested
        /\ Left(m, nested).depth = (m.depth - 1) % Word /\ Left(m, nested).warned = m.warned
    BY <1>2 DEF Left, MachineSet
  <1> QED  BY <1>3 DEF Over, MachineSet

(* What Finish does, unless it fails. *)
LEMMA Finished ==
    ASSUME TypeInv, NEW warns \in BOOLEAN, Finish(warns), frames' # frames \/ machine' # machine \/ uses' # uses
    PROVE  /\ frames # <<>> /\ frames' = SubSeq(frames, 1, Len(frames) - 1)
           /\ Last(frames).op = "optimize" => machine' = machine
           /\ Last(frames).op = "render" =>
                 /\ uses' = uses
                 /\ machine' = [machine EXCEPT ![Last(frames).self] = Over(@, Last(frames).nested, warns)]
           /\ Last(frames).op # "render" =>
                 uses' = [uses EXCEPT ![Last(frames).arg] = @ \ Last(frames).folds]
           /\ UNCHANGED <<wrapper, on, types, dead, raised, broke, status>>
  <1> DEFINE f == Last(frames)
             result == Using(FrameUses(f), {})
  <1>1. result = "ok"
    <2>1. ~Fails(result, {})  BY DEF Fails, engine
    <2> QED  BY <2>1 DEF Finish
  <1>2. /\ frames' = Front(frames)
        /\ machine' = IF f.op = "optimize" THEN machine
                      ELSE [machine EXCEPT ![f.self] = Over(@, f.nested, warns)]
        /\ uses' = IF f.op = "render" THEN uses ELSE [uses EXCEPT ![f.arg] = @ \ f.folds]
        /\ UNCHANGED <<wrapper, on, types, dead, raised, broke, status>>
    BY <1>1 DEF Finish
  <1>3. frames # <<>>  BY DEF Finish, Engine
  <1>4. frames' = SubSeq(frames, 1, Len(frames) - 1)  BY <1>2 DEF Front
  <1>5. f.op = "optimize" => machine' = machine
    <2> HIDE DEF f
    <2> QED  BY <1>2
  <1>6. f.op = "render" => uses' = uses /\ machine' = [machine EXCEPT ![f.self] = Over(@, f.nested, warns)]
    <2> HIDE DEF f
    <2> QED  BY <1>2
  <1>8. f.op # "render" => uses' = [uses EXCEPT ![f.arg] = @ \ f.folds]
    <2> HIDE DEF f
    <2> QED  BY <1>2
  <1>7. UNCHANGED <<wrapper, on, types, dead, raised, broke, status>>  BY <1>2
  <1> HIDE DEF result
  <1> QED  BY <1>3, <1>4, <1>5, <1>6, <1>7, <1>8

LEMMA FinishTypes == ASSUME TypeInv, NEW warns \in BOOLEAN, Finish(warns) PROVE TypeInv'
  <1> DEFINE f == Last(frames)
             result == Using(FrameUses(f), {})
  <1>1. result \in Statuses  BY UsingStatus DEF Statuses
  <1>2. CASE frames' = frames /\ machine' = machine /\ uses' = uses
    <2>1. frames # <<>>  BY DEF Finish, Engine
    <2>2. Front(frames) # frames
      <3>1. Len(frames) - 1 \in 0..Len(frames) /\ Len(frames) - 1 # Len(frames)  BY <2>1, StateTyped
      <3>2. Len(SubSeq(frames, 1, Len(frames) - 1)) = Len(frames) - 1  BY <3>1, PopIsTyped
      <3> QED  BY <3>1, <3>2 DEF Front
    <2>3. Fails(result, {})  BY <1>2, <2>2 DEF Finish
    <2> HIDE DEF result
    <2> QED  BY <1>1, <2>3, FailsKeeps
  <1>3. CASE ~(frames' = frames /\ machine' = machine /\ uses' = uses)
    <2>1. /\ frames # <<>> /\ frames' = SubSeq(frames, 1, Len(frames) - 1)
          /\ f.op = "optimize" => machine' = machine
          /\ f.op = "render" =>
                uses' = uses /\ machine' = [machine EXCEPT ![f.self] = Over(@, f.nested, warns)]
          /\ f.op # "render" => uses' = [uses EXCEPT ![f.arg] = @ \ f.folds]
          /\ UNCHANGED <<wrapper, on, types, dead, raised, broke, status>>
      BY <1>3, Finished
    <2>2. Len(frames) \in DOMAIN frames /\ f = frames[Len(frames)]  BY <2>1, LastIsFrame
    <2>3. f.op \in {"render", "optimize"} /\ f.nested \in BOOLEAN /\ f.arg \in Templates
      BY <2>2, FrameIsTyped
    <2>4. f.op = "render" => f.self \in Renderers  BY <2>2 DEF TypeInv, RenderersOfFrames
    <2> HIDE DEF f
    <2>5. uses' \in [Objects -> SUBSET (1..Len(types))]
      <3>1. uses \in [Objects -> SUBSET (1..Len(types))] /\ f.arg \in Objects
        BY <2>3, StateTyped, ClassesDiffer
      <3>2. uses[f.arg] \ f.folds \in SUBSET (1..Len(types))  BY <3>1
      <3> QED  BY <2>1, <3>1, <3>2
    <2>6. machine' \in [Renderers -> MachineSet]
      <3>1. CASE f.op = "render"
        <4>1. machine[f.self] \in MachineSet  BY <2>4, <3>1, StateTyped
        <4>2. Over(machine[f.self], f.nested, warns) \in MachineSet  BY <2>3, <4>1, OverIsTyped
        <4> QED  BY <2>1, <2>4, <3>1, <4>2, MachineStaysTyped
      <3> QED  BY <2>1, <2>3, <3>1, StateTyped
    <2>7. Len(frames) - 1 \in 0..Len(frames)  BY <2>1, StateTyped
    <2>8. /\ frames' \in Seq(FrameSet(Len(types))) /\ Len(frames') <= MaxFrames
          /\ \A k \in DOMAIN frames' :
                /\ frames'[k].op = "render" => frames'[k].self \in Renderers
                /\ frames'[k].op = "optimize" =>
                      frames'[k].self \in Optimizers /\ wrapper[frames'[k].self] # "unborn"
      BY <2>1, <2>7, PopIsTyped
    <2>9. raised' \subseteq Renderers /\ broke' \subseteq Rules  BY <2>1, StateTyped
    <2> QED  BY <2>1, <2>5, <2>6, <2>8, <2>9, CallsKeepTypes
  <1> QED  BY <1>2, <1>3

LEMMA InitTypes == Init => TypeInv
  <1> SUFFICES ASSUME Init PROVE TypeInv  OBVIOUS
  <1>1. types = <<>> /\ frames = <<>> /\ DOMAIN types = {} /\ DOMAIN frames = {} /\ Len(types) = 0 /\ Len(frames) = 0
    BY DEF Init
  <1>2. 0 \in 0..(Word - 1) /\ MaxTypes \in Nat /\ MaxFrames \in Nat  BY BindingsAssumption
  <1>3. Idle \in MachineSet  BY <1>2 DEF Idle, MachineSet
  <1>4. machine \in [Renderers -> MachineSet]  BY <1>3 DEF Init
  <1>5. TypeOK  BY <1>1, <1>2, <1>4 DEF Init, TypeOK, MachineSet
  <1>6. Typed  BY <1>1, <1>4 DEF Typed
  <1>7. RenderersOfFrames /\ ContextsOfTypes
    BY <1>1, ClassesDiffer DEF Init, RenderersOfFrames, ContextsOfTypes
  <1> QED  BY <1>5, <1>6, <1>7 DEF TypeInv

LEMMA ScriptTypes == ASSUME TypeInv, Script PROVE TypeInv'
  <1>1. CASE NewContext \/ NewParser \/ NewRenderer \/ NewCompiler \/ NewOptimizer
    BY <1>1, NewContextTypes, NewOfContextTypes, NewOptimizerTypes
  <1>2. CASE \/ \E o \in Objects : Drop(o)
             \/ \E c \in Contexts, s \in Symbols, captures \in BOOLEAN : Register(c, s, captures)
    BY <1>2, DropTypes, RegisterTypes
  <1>3. CASE \/ ParseTemplate \/ ParseArgument \/ ParseAppropriate
             \/ \E p \in Parsers, t \in Templates : Unparse(p, t)
    BY <1>3, ParseTypes, UnparseTypes DEF ParseTemplate, ParseArgument, ParseAppropriate
  <1>4. CASE \/ \E r \in Renderers, t \in Templates : StartRender(r, t)
             \/ \E o \in Optimizers, t \in Templates : StartOptimize(o, t)
    BY <1>4, StartRenderTypes, StartOptimizeTypes
  <1>5. CASE \/ \E k \in Compilers, t \in Templates, g \in Programs : Compile(k, t, g)
             \/ \E r \in Renderers, g \in Programs : Run(r, g)
    BY <1>5, CompileTypes, RunTypes
  <1>6. CASE Return \/ \E n \in 1..MaxFrames : Raise(n)
    BY <1>6, ReturnTypes, RaiseTypes
  <1> QED  BY <1>1, <1>2, <1>3, <1>4, <1>5, <1>6 DEF Script

LEMMA NextTypes == TypeInv /\ [Next]_vars => TypeInv'
  <1> SUFFICES ASSUME TypeInv, [Next]_vars PROVE TypeInv'  OBVIOUS
  <1>1. CASE Script  BY <1>1, ScriptTypes
  <1>2. CASE Collector  BY <1>2, CollectTypes, CollectProcTypes DEF Collector
  <1>3. CASE \E ty \in DOMAIN types, inLoop \in BOOLEAN : CallHost(ty, inLoop)
    BY <1>3, CallHostTypes
  <1>4. CASE ReadStaleDrop  BY <1>4, ReadStaleDropTypes
  <1>5. CASE \E warns \in BOOLEAN : Finish(warns)  BY <1>5, FinishTypes
  <1>6. CASE UNCHANGED vars
    <2>1. UNCHANGED engine /\ status' \in Statuses /\ broke' \subseteq Rules
      BY <1>6, StateTyped DEF vars, engine
    <2> QED  BY <2>1, FailingKeepsTypes
  <1> QED  BY <1>1, <1>2, <1>3, <1>4, <1>5, <1>6 DEF Next

(* The state has its types, whatever the script does and whenever the      *)
(* collector runs.                                                         *)
THEOREM Types == Spec => []TypeOK
  <1>1. TypeInv => TypeOK  BY DEF TypeInv
  <1> QED  BY <1>1, InitTypes, NextTypes, PTL DEF Spec

-----------------------------------------------------------------------------
(* What a script that keeps the rules can rely on.                         *)

(* A rendering remembers whether there was another one around it. *)
Inside(n) == \E m \in 1..(n - 1) : frames[m].op = "render" /\ frames[m].self = frames[n].self

NestedMeansInside ==
    \A n \in DOMAIN frames :
        frames[n].op = "render" /\ frames[n].self \notin raised => (frames[n].nested <=> Inside(n))

RenderInv == InternalMeansRendering /\ NestedMeansInside /\ WarningsAreOwn

(* What an object points to was made before it, and is of the class that it is made with. *)
ParentsOf(o) == IF o \in Optimizers THEN Renderers ELSE IF o \in Contexts THEN {} ELSE Contexts

ClassesFit ==
    \A o \in Objects : on[o] # None => on[o] \in ParentsOf(o) /\ wrapper[on[o]] # "unborn"

(* The node types that a template uses are registered with its context; *)
TypesFit == \A o \in Objects : \A ty \in uses[o] : types[ty].context = on[o]

(* and those that a call under way has yet to call are with that of its template. *)
CallsFit ==
    \A n \in DOMAIN frames :
        /\ wrapper[frames[n].self] # "unborn" /\ wrapper[frames[n].arg] # "unborn"
        /\ \A ty \in frames[n].todo : types[ty].context = on[frames[n].arg]
        /\ frames[n].calling # 0 => types[frames[n].calling].context = on[frames[n].arg]

FitInv == ClassesFit /\ TypesFit /\ CallsFit

(* What can be reached is not freed, and the script holds what it points to. *)
Sheltered ==
    "letgo" \notin broke =>
        \A d \in Reachable : wrapper[d] # "freed" /\ (on[d] # None => on[d] \in Held)

(* The other rules, and what keeping each of them preserves. *)
Fresh == "replaced" \notin broke => \A ty \in DOMAIN types : ~types[ty].replaced

Plain == "compiled" \notin broke => \A g \in Programs : uses[g] = {}

Straight ==
    broke \cap {"mixed", "raised"} = {} =>
        \A n \in DOMAIN frames : machine[RendererOf(frames[n])].mode = "tree"

Unraised == "raised" \notin broke => raised = {} /\ \A r \in Renderers : ~machine[r].drops

RulesInv == Fresh /\ Plain /\ Straight /\ Unraised

SafeInv ==
    /\ TypeInv /\ ProcsLive /\ RenderInv /\ DepthIsRenderings
    /\ FitInv /\ Sheltered /\ RulesInv /\ RulesSuffice

-----------------------------------------------------------------------------
(* The ways in which a step changes the state.                             *)

(* It fails, or does nothing. *)
Failing == UNCHANGED engine /\ broke \subseteq broke'

(* The fields that only renderings set. *)
Undisturbed(r) ==
    /\ machine'[r].internal = machine[r].internal /\ machine'[r].warned = machine[r].warned
    /\ machine'[r].mode = machine[r].mode /\ machine'[r].drops = machine[r].drops

(* An object is made. *)
Making(o, x, used) ==
    /\ wrapper[o] = "unborn" /\ Make(o, x, used)
    /\ UNCHANGED <<types, dead, frames, raised, status>> /\ broke \subseteq broke'
    /\ \A r \in Renderers : Undisturbed(r)
    /\ "optimizer" \notin broke' =>
          \A r \in Renderers : \/ machine'[r].depth = machine[r].depth
                               \/ machine'[r].depth = 0 /\ Rendering(r) = {}
    /\ x # None => x \in ParentsOf(o) /\ wrapper[x] # "unborn"
    /\ \A ty \in used : types[ty].context = x
    /\ "letgo" \notin broke' => x \in {None} \cup Held \cup {on[p] : p \in Held}
    /\ "compiled" \notin broke' /\ o \in Programs => used = {}

(* A wrapper is let go of, or freed. *)
LettingGo(o, w) ==
    /\ wrapper[o] # "unborn" /\ wrapper' = [wrapper EXCEPT ![o] = w]
    /\ UNCHANGED <<on, uses, types, dead, machine, frames, raised, status>> /\ broke \subseteq broke'
    /\ w = "loose" /\ "letgo" \notin broke' => \A d \in Reachable \ {o} : ~Depends(d, o)
    /\ w = "freed" => o \notin Reachable

(* A program is run. *)
Running(r) ==
    /\ machine' = [machine EXCEPT ![r].mode = "interpreter"]
    /\ UNCHANGED <<wrapper, on, uses, types, dead, frames, raised, status>> /\ broke \subseteq broke'
    /\ "mixed" \notin broke' => \A n \in DOMAIN frames : RendererOf(frames[n]) # r

(* A call begins. *)
Entering(r, t) ==
    /\ machine' = [machine EXCEPT ![r] = [Entered(r) EXCEPT !.depth = (Entered(r).depth + 1) % Word]]
    /\ frames' = Append(frames, [Frame("render", r, t, uses[t]) EXCEPT !.nested = machine[r].internal])
    /\ Len(frames) < MaxFrames /\ r \in Hand /\ t \in Hand
    /\ UNCHANGED <<wrapper, on, uses, types, dead, raised, broke, status>>

Optimizing(o, t, known) ==
    /\ frames' = Append(frames, Frame("optimize", o, t, known))
    /\ "mixed" \notin broke' => machine[on[o]].mode = "tree"
    /\ o \in Hand /\ t \in Hand
    /\ UNCHANGED <<wrapper, on, uses, types, dead, machine, raised, status>> /\ broke \subseteq broke'

(* The innermost call calls the script, or goes on after that. *)
Turning(f) ==
    /\ frames # <<>> /\ frames' = [frames EXCEPT ![Len(frames)] = f]
    /\ f \in FrameSet(Len(types))
    /\ f.op = Last(frames).op /\ f.self = Last(frames).self /\ f.arg = Last(frames).arg
    /\ f.nested = Last(frames).nested
    /\ f.todo \subseteq Last(frames).todo /\ f.calling \in Last(frames).todo \cup {0}
    /\ UNCHANGED <<wrapper, on, uses, types, dead, machine, raised, broke, status>>

(* It ends. *)
Ending(warns) ==
    /\ frames # <<>> /\ frames' = SubSeq(frames, 1, Len(frames) - 1)
    /\ Last(frames).op = "optimize" => machine' = machine
    /\ Last(frames).op = "render" =>
          /\ uses' = uses
          /\ machine' = [machine EXCEPT ![Last(frames).self] = Over(@, Last(frames).nested, warns)]
    /\ Last(frames).op # "render" =>
          uses' = [uses EXCEPT ![Last(frames).arg] = @ \ Last(frames).folds]
    /\ UNCHANGED <<wrapper, on, types, dead, raised, broke, status>>

(* It ends with others by an exception. *)
Unwinding(n) ==
    /\ n \in 1..Len(frames) /\ frames' = SubSeq(frames, 1, Len(frames) - n)
    /\ \A r \in Renderers : /\ machine'[r].internal = machine[r].internal /\ machine'[r].warned = machine[r].warned
                            /\ machine'[r].mode = machine[r].mode /\ machine'[r].depth = machine[r].depth
    /\ raised \subseteq raised'
    /\ \A k \in (Len(frames) - n + 1)..Len(frames) : frames[k].op = "render" => frames[k].self \in raised'
    /\ broke' = broke \cup {"raised"}
    /\ UNCHANGED <<wrapper, on, uses, types, dead, status>>

Step ==
    \/ Failing
    \/ \E o \in Objects, x \in Objects \cup {None}, used \in SUBSET DOMAIN types : Making(o, x, used)
    \/ \E o \in Objects, w \in {"loose", "freed"} : LettingGo(o, w)
    \/ \E ty \in DOMAIN types : CollectProc(ty)
    \/ \E c \in Contexts, s \in Symbols, captures \in BOOLEAN : Register(c, s, captures)
    \/ \E r \in Renderers : Running(r)
    \/ \E r \in Renderers, t \in Templates : Entering(r, t)
    \/ \E o \in Optimizers, t \in Templates : \E known \in SUBSET uses[t] : Optimizing(o, t, known)
    \/ \E f : Turning(f)
    \/ \E warns \in BOOLEAN : Ending(warns)
    \/ \E n \in 1..MaxFrames : Unwinding(n)

-----------------------------------------------------------------------------
(* Every step is one of them.                                              *)

LEMMA ClassesApart ==
    /\ Contexts \cap (Parsers \cup Renderers \cup Templates \cup Optimizers \cup Compilers \cup Programs) = {}
    /\ Renderers \cap (Parsers \cup Templates \cup Optimizers \cup Compilers \cup Programs) = {}
    /\ Optimizers \cap (Parsers \cup Templates \cup Compilers \cup Programs) = {}
    /\ Programs \cap (Parsers \cup Templates \cup Compilers) = {}
    /\ Contexts \cup Parsers \cup Renderers \cup Templates \cup Optimizers \cup Compilers \cup Programs \subseteq Objects
    /\ None \notin Objects
  BY BindingsAssumption DEF Kind, Contexts, Parsers, Renderers, Templates, Optimizers, Compilers, Programs

(* A callback is given nothing but contexts and renderers. *)
LEMMA HandIsHeld ==
    ASSUME TypeInv, NEW o \in Hand, o \notin Contexts \cup Renderers
    PROVE  o \in Held
  <1>1. CASE ~Calling  BY <1>1 DEF Hand
  <1>2. CASE Calling
    <2>1. Len(frames) \in DOMAIN frames /\ Last(frames) = frames[Len(frames)]
          /\ Last(frames) \in FrameSet(Len(types))
      BY <1>2, LastIsFrame DEF Calling
    <2>2. RendererOf(Last(frames)) \in Renderers  BY <2>1, RendererIsRenderer
    <2>3. Last(frames).calling \in DOMAIN types  BY <1>2, <2>1, StateTyped DEF Calling, FrameSet
    <2>4. types[Last(frames).calling].context \in Contexts  BY <2>3, TypeIsTyped
    <2> QED  BY <2>2, <2>4 DEF Given, Hand
  <1> QED  BY <1>1, <1>2

(* What a callback is given was made, and so was what the script has at hand. *)
LEMMA GivenIsBorn ==
    ASSUME TypeInv, FitInv, NEW n \in DOMAIN frames, NEW o \in Given(frames[n])
    PROVE  wrapper[o] # "unborn" /\ o \in Objects
  <1> DEFINE f == frames[n]
  <1>1. f \in FrameSet(Len(types)) /\ RendererOf(f) \in Renderers  BY FrameIsTyped, RendererIsRenderer
  <1>2. f.calling \in DOMAIN types
    <2>1. f.calling \in 0..Len(types) /\ f.calling # 0  BY <1>1 DEF Given, FrameSet
    <2> QED  BY <2>1, StateTyped
  <1>3. types[f.calling].context \in Contexts /\ wrapper[types[f.calling].context] # "unborn"
    BY <1>2, TypeIsTyped DEF TypeInv, ContextsOfTypes
  <1>4. wrapper[RendererOf(f)] # "unborn"
    <2>1. CASE f.op = "render"  BY <1>1, <2>1 DEF RendererOf, FitInv, CallsFit
    <2>2. CASE f.op = "optimize"
      <3>1. f.self \in Optimizers /\ RendererOf(f) = on[f.self]
        BY <2>2 DEF RendererOf, TypeInv, RenderersOfFrames
      <3> QED  BY <1>1, <3>1, ClassesApart DEF FitInv, ClassesFit
    <2> QED  BY <2>1, <2>2, FrameIsTyped
  <1>5. o = RendererOf(f) \/ o = types[f.calling].context  BY DEF Given
  <1> QED  BY <1>1, <1>3, <1>4, <1>5, ClassesApart

LEMMA HandIsBorn ==
    ASSUME TypeInv, FitInv, NEW o \in Hand
    PROVE  wrapper[o] # "unborn" /\ o \in Objects
  <1>1. CASE o \in Held  BY <1>1 DEF Held
  <1>2. CASE o \notin Held
    <2>1. Calling /\ o \in Given(Last(frames))  BY <1>2 DEF Hand
    <2>2. Len(frames) \in DOMAIN frames /\ Last(frames) = frames[Len(frames)]
      BY <2>1, LastIsFrame DEF Calling
    <2> QED  BY <2>1, <2>2, GivenIsBorn
  <1> QED  BY <1>1, <1>2

LEMMA FailsIsFailing == ASSUME NEW as, NEW why, Fails(as, why) PROVE Failing
  BY DEF Fails, Failing

(* A renderer of which one field is set. *)
LEMMA DepthSet ==
    ASSUME TypeInv, NEW r \in Renderers, NEW d, machine' = [machine EXCEPT ![r].depth = d]
    PROVE  /\ \A q \in Renderers : Undisturbed(q)
           /\ machine'[r].depth = d
           /\ \A q \in Renderers \ {r} : machine'[q].depth = machine[q].depth
  <1>1. \A q \in Renderers : machine'[q] = IF q = r THEN [machine[q] EXCEPT !.depth = d] ELSE machine[q]
    BY StateTyped
  <1>2. \A q \in Renderers : machine[q] \in MachineSet  BY StateTyped
  <1>3. machine'[r].depth = d /\ Undisturbed(r)  BY <1>1, <1>2 DEF MachineSet, Undisturbed
  <1>4. \A q \in Renderers \ {r} : machine'[q] = machine[q]  BY <1>1
  <1> QED  BY <1>3, <1>4 DEF Undisturbed

LEMMA NewIsMaking ==
    ASSUME TypeInv, FitInv, NewContext \/ NewParser \/ NewRenderer \/ NewCompiler
    PROVE  \E o \in Objects, x \in Objects \cup {None} : Making(o, x, {})
  <1>1. CASE NewContext
    <2>1. PICK c \in Contexts : wrapper[c] = "unborn" /\ Make(c, None, {})  BY <1>1 DEF NewContext
    <2>2. UNCHANGED <<types, dead, machine, frames, raised, broke, status>>  BY <1>1 DEF NewContext
    <2>3. Making(c, None, {})  BY <2>1, <2>2 DEF Making, Undisturbed
    <2> QED  BY <2>3, ClassesApart
  <1>2. CASE NewParser \/ NewRenderer \/ NewCompiler
    <2>1. PICK o \in Parsers \cup Renderers \cup Compilers, c \in Contexts : NewOfContext(o, c)
      BY <1>2 DEF NewParser, NewRenderer, NewCompiler
    <2>2. /\ wrapper[o] = "unborn" /\ Make(o, c, {}) /\ UNCHANGED <<types, dead, frames, raised, status, machine>>
          /\ broke \subseteq broke' /\ ("letgo" \notin broke' => c \in Held)
      BY <2>1 DEF NewOfContext, New, Breaks
    <2>3. o \in Objects /\ c \in Objects /\ o \notin Optimizers /\ o \notin Contexts  BY ClassesApart
    <2>4. wrapper[c] # "unborn"  BY <2>1, HandIsBorn DEF NewOfContext, New
    <2>5. Making(o, c, {})  BY <2>2, <2>3, <2>4 DEF Making, Undisturbed, ParentsOf
    <2> QED  BY <2>3, <2>5
  <1> QED  BY <1>1, <1>2

LEMMA NewOptimizerIsMaking ==
    ASSUME TypeInv, FitInv, NewOptimizer
    PROVE  \E o \in Objects, x \in Objects \cup {None} : Making(o, x, {})
  <1>1. PICK o \in Optimizers, r \in Renderers :
           /\ New(o, r)
           /\ machine' = [machine EXCEPT ![r].depth = 0]
           /\ broke' = broke \cup (IF r \in Held THEN {} ELSE {"letgo"})
                             \cup (IF Rendering(r) = {} THEN {} ELSE {"optimizer"})
    BY DEF NewOptimizer
  <1>2. wrapper[o] = "unborn" /\ Make(o, r, {}) /\ UNCHANGED <<types, dead, frames, raised, status>>
    BY <1>1 DEF New
  <1>3. /\ broke \subseteq broke' /\ ("letgo" \notin broke' => r \in Held)
        /\ "optimizer" \notin broke' => Rendering(r) = {}
    BY <1>1
  <1>4. /\ \A q \in Renderers : Undisturbed(q)
        /\ machine'[r].depth = 0
        /\ \A q \in Renderers \ {r} : machine'[q].depth = machine[q].depth
    BY <1>1, DepthSet
  <1>5. o \in Objects /\ r \in Objects  BY ClassesApart
  <1>6. wrapper[r] # "unborn"  BY <1>1, HandIsBorn DEF New
  <1>7. Making(o, r, {})  BY <1>2, <1>3, <1>4, <1>5, <1>6 DEF Making, ParentsOf
  <1> QED  BY <1>5, <1>7

LEMMA ParseIsMaking ==
    ASSUME TypeInv, FitInv, NEW p \in Parsers, NEW t \in Templates, Parse(p, t)
    PROVE  Failing \/ \E o \in Objects, x \in Objects \cup {None}, used \in SUBSET DOMAIN types : Making(o, x, used)
  <1>1. CASE Using(Behind({p}), {}) # "ok"  BY <1>1, FailsIsFailing DEF Parse
  <1>2. CASE Using(Behind({p}), {}) = "ok"
    <2>1. PICK symbols \in SUBSET Symbols : Make(t, on[p], UNION {Current(on[p], s) : s \in symbols})
      BY <1>2 DEF Parse
    <2> DEFINE used == UNION {Current(on[p], s) : s \in symbols}
    <2>2. /\ p \in Hand /\ wrapper[t] = "unborn"
          /\ UNCHANGED <<types, dead, machine, frames, raised, broke, status>>
      BY <1>2 DEF Parse
    <2>3. used \in SUBSET DOMAIN types /\ \A ty \in used : types[ty].context = on[p]  BY DEF Current
    <2>4. p \in Held  BY <2>2, HandIsHeld, ClassesApart
    <2>5. t \in Objects /\ t \notin Optimizers /\ t \notin Contexts /\ t \notin Programs
          /\ p \in Objects /\ p \notin Optimizers /\ p \notin Contexts
      BY ClassesApart
    <2>6. on[p] # None => on[p] \in Contexts /\ wrapper[on[p]] # "unborn"
      BY <2>5 DEF FitInv, ClassesFit, ParentsOf
    <2>7. on[p] \in Objects \cup {None}  BY <2>5, StateTyped
    <2> HIDE DEF used
    <2>8. Make(t, on[p], used)  BY <2>1 DEF used
    <2>9. Making(t, on[p], used)  BY <2>2, <2>3, <2>4, <2>5, <2>6, <2>8 DEF Making, Undisturbed, ParentsOf
    <2> QED  BY <2>3, <2>5, <2>7, <2>9
  <1> QED  BY <1>1, <1>2

LEMMA CompileIsMaking ==
    ASSUME TypeInv, FitInv, NEW k \in Compilers, NEW t \in Templates, NEW g \in Programs, Compile(k, t, g)
    PROVE  Failing \/ \E o \in Objects, x \in Objects \cup {None}, used \in SUBSET DOMAIN types : Making(o, x, used)
  <1> DEFINE result == Using({k} \cup Behind({t}), uses[t])
  <1>1. CASE result # "ok"
    <2>1. Fails(result, {})  BY <1>1 DEF Compile
    <2> HIDE DEF result
    <2> QED  BY <2>1, FailsIsFailing
  <1>2. CASE result = "ok"
    <2>1. /\ t \in Hand /\ wrapper[g] = "unborn" /\ Make(g, on[t], uses[t])
          /\ UNCHANGED <<types, dead, machine, frames, raised, status>> /\ broke \subseteq broke'
          /\ "compiled" \notin broke' => uses[t] = {}
      BY <1>2 DEF Compile, Breaks
    <2>2. g \in Objects /\ g \notin Optimizers /\ g \notin Contexts
          /\ t \in Objects /\ t \notin Optimizers /\ t \notin Contexts /\ t \notin Renderers
      BY ClassesApart
    <2>3. t \in Held  BY <2>1, <2>2, HandIsHeld
    <2>4. on[t] # None => on[t] \in Contexts /\ wrapper[on[t]] # "unborn"
      BY <2>2 DEF FitInv, ClassesFit, ParentsOf
    <2>5. \A ty \in uses[t] : types[ty].context = on[t]  BY <2>2 DEF FitInv, TypesFit
    <2>6. on[t] \in Objects \cup {None} /\ uses[t] \in SUBSET DOMAIN types  BY <2>2, StateTyped
    <2> HIDE DEF result
    <2>7. Making(g, on[t], uses[t])  BY <2>1, <2>2, <2>3, <2>4, <2>5 DEF Making, Undisturbed, ParentsOf
    <2> QED  BY <2>2, <2>6, <2>7
  <1> QED  BY <1>1, <1>2

LEMMA DropIsLettingGo == ASSUME TypeInv, NEW o \in Objects, Drop(o) PROVE LettingGo(o, "loose")
  BY DEF Drop, Held, Breaks, LettingGo

LEMMA CollectIsLettingGo == ASSUME TypeInv, NEW o \in Objects, Collect(o) PROVE LettingGo(o, "freed")
  <1>1. wrapper[o] # "unborn" /\ wrapper[o] # "freed" /\ o \notin Reachable  BY DEF Collect
  <1>2. status' = status  BY <1>1 DEF Collect, Using, Destructor
  <1> QED  BY <1>1, <1>2 DEF Collect, LettingGo

LEMMA RunIsRunning ==
    ASSUME TypeInv, NEW r \in Renderers, NEW g \in Programs, Run(r, g)
    PROVE  Failing \/ Running(r)
  <1> DEFINE result == Using(Behind({r, g}), uses[g])
             started == \E f \in ToSet(frames) : RendererOf(f) = r
  <1>1. CASE result # "ok" \/ uses[g] # {}
    <2>1. Fails(IF result = "ok" THEN "no node" ELSE result, {})  BY <1>1 DEF Run
    <2> HIDE DEF result
    <2> QED  BY <2>1, FailsIsFailing
  <1>2. CASE ~(result # "ok" \/ uses[g] # {})
    <2>1. /\ machine' = [machine EXCEPT ![r].mode = "interpreter"]
          /\ Breaks("mixed", started)
          /\ UNCHANGED <<wrapper, on, uses, types, dead, frames, raised, status>>
      BY <1>2 DEF Run
    <2>2. \A n \in DOMAIN frames : frames[n] \in ToSet(frames)  BY DEF ToSet
    <2>3. broke \subseteq broke'
      <3> HIDE DEF started
      <3> QED  BY <2>1 DEF Breaks
    <2>4. "mixed" \notin broke' => ~started
      <3> HIDE DEF started
      <3> QED  BY <2>1 DEF Breaks
    <2>5. "mixed" \notin broke' => \A n \in DOMAIN frames : RendererOf(frames[n]) # r  BY <2>2, <2>4
    <2> QED  BY <2>1, <2>3, <2>5 DEF Running
  <1> QED  BY <1>1, <1>2

LEMMA StartRenderIsEntering ==
    ASSUME TypeInv, NEW r \in Renderers, NEW t \in Templates, StartRender(r, t)
    PROVE  Failing \/ Entering(r, t)
  <1> DEFINE result == Using(Behind({r, t}), {})
             deep   == (Entered(r).depth + 1) % Word > MaximumRenderingDepth
  <1>1. CASE result # "ok"
    <2>1. Fails(result, {})  BY <1>1 DEF StartRender
    <2> HIDE DEF result
    <2> QED  BY <2>1, FailsIsFailing
  <1>2. CASE result = "ok" /\ deep
    <2>1. Fails("aborted", {})  BY <1>2 DEF StartRender
    <2> QED  BY <2>1, FailsIsFailing
  <1>3. CASE result = "ok" /\ ~deep
    BY <1>3 DEF StartRender, Entering
  <1> QED  BY <1>1, <1>2, <1>3

LEMMA StartOptimizeIsOptimizing ==
    ASSUME TypeInv, NEW o \in Optimizers, NEW t \in Templates, StartOptimize(o, t)
    PROVE  Failing \/ \E known \in SUBSET uses[t] : Optimizing(o, t, known)
  <1> DEFINE result == Using(Behind(Behind({o})) \cup Behind({t}), uses[t])
  <1>1. CASE result # "ok"
    <2>1. Fails(result, {})  BY <1>1 DEF StartOptimize
    <2> HIDE DEF result
    <2> QED  BY <2>1, FailsIsFailing
  <1>2. CASE Fails("freed nodes", {"optimized"})
    BY <1>2, FailsIsFailing
  <1>3. CASE result = "ok" /\ ~Fails("freed nodes", {"optimized"})
    <2>1. PICK known \in SUBSET uses[t] : frames' = Append(frames, Frame("optimize", o, t, known))
      BY <1>3 DEF StartOptimize
    <2>2. /\ o \in Hand /\ t \in Hand
          /\ broke \subseteq broke' /\ (machine[on[o]].mode = "interpreter" => "mixed" \in broke')
          /\ UNCHANGED <<wrapper, on, uses, types, dead, machine, raised, status>>
      BY <1>3 DEF StartOptimize
    <2>3. o \in Held /\ o \in Objects  BY <2>2, HandIsHeld, ClassesApart
    <2>4. on[o] \in Renderers  BY <2>3 DEF Held, TypeInv, RenderersOfFrames
    <2>5. machine[on[o]].mode \in {"tree", "interpreter"}  BY <2>4, StateTyped DEF MachineSet
    <2>6. broke \subseteq broke' /\ ("mixed" \notin broke' => machine[on[o]].mode = "tree")
      BY <2>2, <2>5
    <2> HIDE DEF result
    <2>7. Optimizing(o, t, known)  BY <2>1, <2>2, <2>6 DEF Optimizing
    <2> QED  BY <2>7
  <1> QED  BY <1>1, <1>2, <1>3

LEMMA CallHostIsTurning ==
    ASSUME TypeInv, NEW ty \in DOMAIN types, NEW inLoop \in BOOLEAN, CallHost(ty, inLoop)
    PROVE  Failing \/ \E f : Turning(f)
  <1> DEFINE result == Using(FrameUses(Last(frames)), {ty})
             called == Turned(Last(frames), ty, inLoop)
  <1>1. Fails(result, {}) \/ Fails("mode", {}) \/ Fails("freed memory", {})
        \/ /\ frames' = [frames EXCEPT ![Len(frames)].calling = ty, ![Len(frames)].loop = inLoop,
                                        ![Len(frames)].todo = @ \ {ty}]
           /\ UNCHANGED <<wrapper, on, uses, types, dead, machine, raised, broke, status>>
    BY DEF CallHost
  <1>2. CASE Fails(result, {}) \/ Fails("mode", {}) \/ Fails("freed memory", {})
    <2> HIDE DEF result
    <2> QED  BY <1>2, FailsIsFailing
  <1>3. CASE /\ frames' = [frames EXCEPT ![Len(frames)].calling = ty, ![Len(frames)].loop = inLoop,
                                          ![Len(frames)].todo = @ \ {ty}]
             /\ UNCHANGED <<wrapper, on, uses, types, dead, machine, raised, broke, status>>
    <2>1. frames # <<>> /\ ty \in Last(frames).todo  BY DEF CallHost, Engine
    <2>2. Len(frames) \in DOMAIN frames /\ Last(frames) = frames[Len(frames)]
          /\ Last(frames) \in FrameSet(Len(types))
      BY <2>1, LastIsFrame
    <2>3. frames' = [frames EXCEPT ![Len(frames)] = called]  BY <1>3, <2>2 DEF Turned, FrameSet
    <2>4. ty \in 0..Len(types)  BY StateTyped
    <2>5. /\ called \in FrameSet(Len(types)) /\ called.op = Last(frames).op /\ called.self = Last(frames).self
          /\ called.arg = Last(frames).arg /\ called.nested = Last(frames).nested
          /\ called.todo \subseteq Last(frames).todo /\ called.calling = ty
      BY <2>2, <2>4 DEF Turned, FrameSet
    <2> HIDE DEF called, result
    <2>6. Turning(called)  BY <1>3, <2>1, <2>3, <2>5 DEF Turning
    <2> QED  BY <2>6
  <1> QED  BY <1>1, <1>2, <1>3

LEMMA ReturnIsTurning == ASSUME TypeInv, Return PROVE \E f : Turning(f)
  <1> DEFINE resumed == Resumed(Last(frames))
  <1>1. frames # <<>>  BY DEF Return, Calling
  <1>2. Len(frames) \in DOMAIN frames /\ Last(frames) = frames[Len(frames)]
        /\ Last(frames) \in FrameSet(Len(types))
    BY <1>1, LastIsFrame
  <1>3. frames' = [frames EXCEPT ![Len(frames)] = resumed]  BY <1>2 DEF Return, Resumed, FrameSet
  <1>4. 0 \in 0..Len(types)  BY StateTyped
  <1>5. /\ resumed \in FrameSet(Len(types)) /\ resumed.op = Last(frames).op /\ resumed.self = Last(frames).self
        /\ resumed.arg = Last(frames).arg /\ resumed.nested = Last(frames).nested
        /\ resumed.todo = Last(frames).todo /\ resumed.calling = 0
    BY <1>2, <1>4 DEF Resumed, FrameSet
  <1> HIDE DEF resumed
  <1>6. Turning(resumed)  BY <1>1, <1>3, <1>5 DEF Turning, Return
  <1> QED  BY <1>6

LEMMA FinishIsEnding ==
    ASSUME TypeInv, NEW warns \in BOOLEAN, Finish(warns)
    PROVE  Failing \/ Ending(warns)
  <1> DEFINE result == Using(FrameUses(Last(frames)), {})
  <1>1. CASE frames' # frames \/ machine' # machine \/ uses' # uses
    BY <1>1, Finished DEF Ending
  <1>2. CASE ~(frames' # frames \/ machine' # machine \/ uses' # uses)
    <2>1. CASE Fails(result, {})
      <3> HIDE DEF result
      <3> QED  BY <2>1, FailsIsFailing
    <2>2. CASE ~Fails(result, {})
      <3>1. UNCHANGED <<wrapper, on, types, dead, raised, broke, status>>  BY <2>2 DEF Finish
      <3> QED  BY <1>2, <3>1 DEF Failing, engine
    <2> QED  BY <2>1, <2>2
  <1> QED  BY <1>1, <1>2

LEMMA RaiseIsUnwinding == ASSUME TypeInv, NEW n \in 1..MaxFrames, Raise(n) PROVE Unwinding(n)
  <1> DEFINE popped == {frames[k] : k \in (Len(frames) - n + 1)..Len(frames)}
             inLoop == {RendererOf(f) : f \in {g \in popped : g.loop}}
  <1>1. /\ n \in 1..Len(frames)
        /\ machine' = [r \in DOMAIN machine |-> [machine[r] EXCEPT !.drops = @ \/ r \in inLoop]]
        /\ raised' = raised \cup {f.self : f \in {g \in popped : g.op = "render"}}
        /\ broke' = broke \cup {"raised"}
        /\ frames' = SubSeq(frames, 1, Len(frames) - n)
        /\ UNCHANGED <<wrapper, on, uses, types, dead, status>>
    BY DEF Raise
  <1>2. \A r \in Renderers : machine[r] \in MachineSet /\ r \in DOMAIN machine  BY StateTyped
  <1>3. \A r \in Renderers :
           /\ machine'[r].internal = machine[r].internal /\ machine'[r].warned = machine[r].warned
           /\ machine'[r].mode = machine[r].mode /\ machine'[r].depth = machine[r].depth
    <2> HIDE DEF inLoop
    <2> QED  BY <1>1, <1>2 DEF MachineSet
  <1>4. raised \subseteq raised'
        /\ \A k \in (Len(frames) - n + 1)..Len(frames) : frames[k].op = "render" => frames[k].self \in raised'
    BY <1>1
  <1> HIDE DEF popped, inLoop
  <1>5. /\ n \in 1..Len(frames) /\ frames' = SubSeq(frames, 1, Len(frames) - n)
        /\ broke' = broke \cup {"raised"} /\ UNCHANGED <<wrapper, on, uses, types, dead, status>>
    BY <1>1
  <1> QED  BY <1>3, <1>4, <1>5 DEF Unwinding

LEMMA NextIsStep == ASSUME TypeInv, FitInv, [Next]_vars PROVE Step
  <1>1. CASE NewContext \/ NewParser \/ NewRenderer \/ NewCompiler \/ NewOptimizer
    <2>1. \E o \in Objects, x \in Objects \cup {None} : Making(o, x, {})
      BY <1>1, NewIsMaking, NewOptimizerIsMaking
    <2>2. {} \in SUBSET DOMAIN types  OBVIOUS
    <2> QED  BY <2>1, <2>2 DEF Step
  <1>2. CASE \E o \in Objects : Drop(o) \/ Collect(o)
    <2>1. PICK o \in Objects : Drop(o) \/ Collect(o)  BY <1>2
    <2>2. LettingGo(o, "loose") \/ LettingGo(o, "freed")  BY <2>1, DropIsLettingGo, CollectIsLettingGo
    <2> QED  BY <2>2 DEF Step
  <1>3. CASE \E c \in Contexts, s \in Symbols, captures \in BOOLEAN : Register(c, s, captures)
    BY <1>3 DEF Step
  <1>4. CASE \E p \in Parsers, t \in Templates : Parse(p, t) \/ CopiesNoError(p) \/ Unparse(p, t)
    <2>1. PICK p \in Parsers, t \in Templates : Parse(p, t) \/ CopiesNoError(p) \/ Unparse(p, t)
      BY <1>4
    <2>2. CASE Parse(p, t)  BY <2>2, ParseIsMaking DEF Step
    <2>3. CASE CopiesNoError(p) \/ Unparse(p, t)
      BY <2>3, FailsIsFailing DEF CopiesNoError, Unparse, Step
    <2> QED  BY <2>1, <2>2, <2>3
  <1>5. CASE \E k \in Compilers, t \in Templates, g \in Programs : Compile(k, t, g)
    BY <1>5, CompileIsMaking DEF Step
  <1>6. CASE \E r \in Renderers, g \in Programs : Run(r, g)
    BY <1>6, RunIsRunning DEF Step
  <1>7. CASE \E r \in Renderers, t \in Templates : StartRender(r, t)
    BY <1>7, StartRenderIsEntering DEF Step
  <1>8. CASE \E o \in Optimizers, t \in Templates : StartOptimize(o, t)
    BY <1>8, StartOptimizeIsOptimizing DEF Step
  <1>9. CASE Return \/ \E ty \in DOMAIN types, inLoop \in BOOLEAN : CallHost(ty, inLoop)
    BY <1>9, ReturnIsTurning, CallHostIsTurning DEF Step
  <1>10. CASE \E n \in 1..MaxFrames : Raise(n)
    BY <1>10, RaiseIsUnwinding DEF Step
  <1>11. CASE \E warns \in BOOLEAN : Finish(warns)
    BY <1>11, FinishIsEnding DEF Step
  <1>12. CASE ReadStaleDrop \/ UNCHANGED vars
    <2>1. Failing  BY <1>12, FailsIsFailing DEF ReadStaleDrop, Failing, vars, engine
    <2> QED  BY <2>1 DEF Step
  <1>13. CASE \E ty \in DOMAIN types : CollectProc(ty)  BY <1>13 DEF Step
  <1>14. ParseTemplate \/ ParseArgument \/ ParseAppropriate
            => \E p \in Parsers, t \in Templates : Parse(p, t) \/ CopiesNoError(p) \/ Unparse(p, t)
    BY DEF ParseTemplate, ParseArgument, ParseAppropriate
  <1>15. CASE Script
    BY <1>1, <1>2, <1>3, <1>4, <1>5, <1>6, <1>7, <1>8, <1>9, <1>10, <1>14, <1>15 DEF Script
  <1> QED  BY <1>2, <1>9, <1>11, <1>12, <1>13, <1>15 DEF Next, Collector

-----------------------------------------------------------------------------
(* What steps do, field by field.                                          *)

LEMMA MadeIsHeld ==
    ASSUME TypeInv, NEW o \in Objects, NEW x \in Objects \cup {None}, NEW used, Making(o, x, used)
    PROVE  /\ \A p \in Objects : /\ wrapper'[p] = IF p = o THEN "held" ELSE wrapper[p]
                                 /\ on'[p] = IF p = o THEN x ELSE on[p]
                                 /\ uses'[p] = IF p = o THEN used ELSE uses[p]
           /\ Held' = Held \cup {o}
  <1>1. \A p \in Objects : /\ wrapper'[p] = IF p = o THEN "held" ELSE wrapper[p]
                           /\ on'[p] = IF p = o THEN x ELSE on[p]
                           /\ uses'[p] = IF p = o THEN used ELSE uses[p]
    BY StateTyped DEF Making, Make
  <1> QED  BY <1>1 DEF Held

LEMMA LetGoIsNotHeld ==
    ASSUME TypeInv, NEW o \in Objects, NEW w \in {"loose", "freed"}, LettingGo(o, w)
    PROVE  /\ \A p \in Objects : wrapper'[p] = IF p = o THEN w ELSE wrapper[p]
           /\ Held' = Held \ {o}
  <1>1. \A p \in Objects : wrapper'[p] = IF p = o THEN w ELSE wrapper[p]
    BY StateTyped DEF LettingGo
  <1> QED  BY <1>1 DEF Held

LEMMA RegisteredTypes ==
    ASSUME TypeInv, NEW c \in Contexts, NEW s \in Symbols, NEW captures \in BOOLEAN, Register(c, s, captures)
    PROVE  /\ DOMAIN types' = DOMAIN types \cup {Len(types) + 1}
           /\ \A ty \in DOMAIN types :
                 /\ types'[ty].context = types[ty].context /\ types'[ty].captures = types[ty].captures
                 /\ types'[ty].replaced = (types[ty].replaced \/ ty \in Current(c, s))
           /\ types'[Len(types) + 1] = NodeType(c, s, captures)
           /\ Len(types) + 1 \notin DOMAIN types
           /\ UNCHANGED <<wrapper, on, uses, dead, machine, frames, raised, status>>
           /\ broke \subseteq broke' /\ ("replaced" \notin broke' => Current(c, s) = {})
  <1> DEFINE older == [ty \in DOMAIN types |-> [types[ty] EXCEPT !.replaced = @ \/ ty \in Current(c, s)]]
  <1>1. /\ types' = Append(older, NodeType(c, s, captures))
        /\ UNCHANGED <<wrapper, on, uses, dead, machine, frames, raised, status>>
        /\ broke \subseteq broke' /\ ("replaced" \notin broke' => Current(c, s) = {})
    BY DEF Register, Breaks
  <1>2. DOMAIN types = 1..Len(types) /\ Len(types) \in Nat  BY StateTyped
  <1>3. \A ty \in DOMAIN types : /\ older[ty].context = types[ty].context
                                 /\ older[ty].captures = types[ty].captures
                                 /\ older[ty].replaced = (types[ty].replaced \/ ty \in Current(c, s))
                                 /\ older[ty] \in NodeTypes
    BY TypeIsTyped DEF NodeTypes
  <1>4. older \in Seq(NodeTypes) /\ Len(older) = Len(types)
    <2>1. DOMAIN older = 1..Len(types)  BY <1>2
    <2>2. older \in [1..Len(types) -> NodeTypes]  BY <1>2, <1>3
    <2> QED  BY <1>2, <2>2
  <1> HIDE DEF older
  <1>5. NodeType(c, s, captures) \in NodeTypes  BY DEF NodeType, NodeTypes
  <1>6. /\ DOMAIN types' = 1..(Len(types) + 1)
        /\ \A ty \in 1..Len(types) : types'[ty] = older[ty]
        /\ types'[Len(types) + 1] = NodeType(c, s, captures)
    BY <1>1, <1>2, <1>4, <1>5
  <1>7. DOMAIN types' = DOMAIN types \cup {Len(types) + 1} /\ Len(types) + 1 \notin DOMAIN types
    BY <1>2, <1>6
  <1>8. \A ty \in DOMAIN types :
           /\ types'[ty].context = types[ty].context /\ types'[ty].captures = types[ty].captures
           /\ types'[ty].replaced = (types[ty].replaced \/ ty \in Current(c, s))
    BY <1>2, <1>3, <1>6
  <1> QED  BY <1>1, <1>6, <1>7, <1>8

(* The calls under way after one begins, goes on, or ends. *)
LEMMA PushedFrames ==
    ASSUME TypeInv, NEW f, frames' = Append(frames, f)
    PROVE  /\ Len(frames) \in Nat /\ DOMAIN frames = 1..Len(frames) /\ DOMAIN frames' = 1..(Len(frames) + 1)
           /\ \A n \in 1..Len(frames) : frames'[n] = frames[n]
           /\ frames'[Len(frames) + 1] = f
  BY StateTyped

LEMMA TurnedFrames ==
    ASSUME TypeInv, NEW f, Turning(f)
    PROVE  /\ DOMAIN frames' = DOMAIN frames /\ Len(frames) \in DOMAIN frames
           /\ Last(frames) = frames[Len(frames)]
           /\ \A n \in DOMAIN frames : frames'[n] = IF n = Len(frames) THEN f ELSE frames[n]
           /\ \A n \in DOMAIN frames :
                 /\ frames'[n].op = frames[n].op /\ frames'[n].self = frames[n].self
                 /\ frames'[n].arg = frames[n].arg /\ frames'[n].nested = frames[n].nested
                 /\ frames'[n].todo \subseteq frames[n].todo
                 /\ frames'[n].calling \in frames[n].todo \cup {0, frames[n].calling}
  <1>1. frames # <<>> /\ frames' = [frames EXCEPT ![Len(frames)] = f]  BY DEF Turning
  <1>2. Len(frames) \in DOMAIN frames /\ Last(frames) = frames[Len(frames)]  BY <1>1, LastIsFrame
  <1>3. DOMAIN frames' = DOMAIN frames
        /\ \A n \in DOMAIN frames : frames'[n] = IF n = Len(frames) THEN f ELSE frames[n]
    BY <1>1, <1>2, StateTyped
  <1> QED  BY <1>2, <1>3 DEF Turning

LEMMA PoppedFrames ==
    ASSUME TypeInv, NEW n \in 1..Len(frames), frames' = SubSeq(frames, 1, Len(frames) - n)
    PROVE  /\ Len(frames) \in Nat /\ DOMAIN frames = 1..Len(frames) /\ DOMAIN frames' = 1..(Len(frames) - n)
           /\ \A k \in DOMAIN frames' : k \in DOMAIN frames /\ frames'[k] = frames[k]
  BY StateTyped

LEMMA EndedFrames ==
    ASSUME TypeInv, NEW warns, Ending(warns)
    PROVE  /\ 1 \in 1..Len(frames) /\ Len(frames) \in Nat
           /\ DOMAIN frames = 1..Len(frames) /\ DOMAIN frames' = 1..(Len(frames) - 1)
           /\ \A k \in DOMAIN frames' : k \in DOMAIN frames /\ frames'[k] = frames[k]
           /\ Len(frames) \in DOMAIN frames /\ Last(frames) = frames[Len(frames)]
           /\ Last(frames).arg \in Objects
           /\ \A o \in Objects : uses'[o] \subseteq uses[o] /\ (o \notin Templates => uses'[o] = uses[o])
  <1>1. frames # <<>> /\ frames' = SubSeq(frames, 1, Len(frames) - 1)  BY DEF Ending
  <1>2. 1 \in 1..Len(frames) /\ Len(frames) \in Nat  BY <1>1, StateTyped
  <1>3. Len(frames) \in DOMAIN frames /\ Last(frames) = frames[Len(frames)]  BY <1>1, LastIsFrame
  <1>4. Last(frames).arg \in Templates  BY <1>3, FrameIsTyped
  <1>5. \A o \in Objects : uses'[o] \subseteq uses[o] /\ (o \notin Templates => uses'[o] = uses[o])
    BY <1>4, StateTyped DEF Ending
  <1> QED  BY <1>1, <1>2, <1>3, <1>4, <1>5, PoppedFrames, ClassesApart

-----------------------------------------------------------------------------
(* Procs live as long as the script holds their context.                   *)

LEMMA ProcsKept == ASSUME TypeInv, ProcsLive, Step PROVE ProcsLive'
  <1>1. CASE UNCHANGED <<wrapper, types, dead>>  BY <1>1 DEF ProcsLive, Held
  <1>2. CASE \E o \in Objects, x \in Objects \cup {None}, used \in SUBSET DOMAIN types : Making(o, x, used)
    <2>1. PICK o \in Objects, x \in Objects \cup {None}, used \in SUBSET DOMAIN types : Making(o, x, used)
      BY <1>2
    <2>2. Held' = Held \cup {o}  BY <2>1, MadeIsHeld
    <2>3. \A ty \in DOMAIN types : types[ty].context # o
      BY <2>1 DEF Making, TypeInv, ContextsOfTypes
    <2> QED  BY <2>1, <2>2, <2>3 DEF ProcsLive, Making
  <1>3. CASE \E o \in Objects, w \in {"loose", "freed"} : LettingGo(o, w)
    BY <1>3, LetGoIsNotHeld DEF ProcsLive, LettingGo
  <1>4. CASE \E ty \in DOMAIN types : CollectProc(ty)
    BY <1>4 DEF CollectProc, ProcFound, Marked, Reachable, ProcsLive, Held
  <1>5. CASE \E c \in Contexts, s \in Symbols, captures \in BOOLEAN : Register(c, s, captures)
    <2>1. dead \subseteq DOMAIN types  BY DEF TypeInv, TypeOK
    <2> QED  BY <1>5, <2>1, RegisteredTypes DEF ProcsLive, Held
  <1> QED
    BY <1>1, <1>2, <1>3, <1>4, <1>5
    DEF Step, Failing, engine, Running, Entering, Optimizing, Turning, Ending, Unwinding

-----------------------------------------------------------------------------
(* What calls and templates use is of the context they belong to.          *)

LEMMA MakingFits ==
    ASSUME TypeInv, FitInv, NEW o \in Objects, NEW x \in Objects \cup {None}, NEW used \in SUBSET DOMAIN types,
           Making(o, x, used)
    PROVE  FitInv'
  <1>1. \A p \in Objects : /\ wrapper'[p] = IF p = o THEN "held" ELSE wrapper[p]
                           /\ on'[p] = IF p = o THEN x ELSE on[p]
                           /\ uses'[p] = IF p = o THEN used ELSE uses[p]
    BY MadeIsHeld
  <1>2. UNCHANGED <<types, frames>> /\ (x # None => x \in ParentsOf(o) /\ wrapper[x] # "unborn")
        /\ wrapper[o] = "unborn" /\ \A ty \in used : types[ty].context = x
    BY DEF Making
  <1>3. ClassesFit'
    <2>1. \A p \in Objects : on'[p] # None => on'[p] \in ParentsOf(p) /\ on'[p] \in Objects /\ wrapper[on'[p]] # "unborn"
      BY <1>1, <1>2, StateTyped DEF FitInv, ClassesFit
    <2>2. \A p \in Objects : on'[p] # None => wrapper'[on'[p]] # "unborn"  BY <1>1, <2>1
    <2> QED  BY <2>1, <2>2 DEF ClassesFit, ParentsOf, Optimizers, Renderers, Contexts, Kind
  <1>4. TypesFit'  BY <1>1, <1>2 DEF FitInv, TypesFit
  <1>5. CallsFit'
    <2>1. \A n \in DOMAIN frames : frames[n].arg \in Objects /\ frames[n].self \in Objects
      BY FrameIsTyped, ClassesApart DEF TypeInv, RenderersOfFrames
    <2>2. \A n \in DOMAIN frames : frames[n].arg # o /\ frames[n].self # o
      BY <1>2 DEF FitInv, CallsFit
    <2> QED  BY <1>1, <1>2, <2>1, <2>2 DEF FitInv, CallsFit
  <1> QED  BY <1>3, <1>4, <1>5 DEF FitInv

(* Nothing is made, and calls go on. *)
LEMMA SameCallsFit ==
    ASSUME TypeInv, FitInv, UNCHANGED <<on, frames>>,
           \A o \in Objects : wrapper[o] # "unborn" => wrapper'[o] # "unborn",
           \A o \in Objects : uses'[o] \subseteq uses[o],
           \A ty \in DOMAIN types : types'[ty].context = types[ty].context
    PROVE  FitInv'
  <1>1. \A n \in DOMAIN frames :
           /\ frames[n].arg \in Objects /\ frames[n].self \in Objects
           /\ frames[n].todo \subseteq DOMAIN types /\ frames[n].calling \in DOMAIN types \cup {0}
    <2>1. DOMAIN types = 1..Len(types)  BY StateTyped
    <2> QED  BY <2>1, FrameIsTyped, ClassesApart DEF TypeInv, RenderersOfFrames
  <1>2. \A o \in Objects : uses[o] \subseteq DOMAIN types /\ on[o] \in Objects \cup {None}  BY StateTyped
  <1>3. ClassesFit'
    BY <1>2 DEF FitInv, ClassesFit, ParentsOf, Optimizers, Renderers, Contexts, Kind
  <1>4. TypesFit'  BY <1>2 DEF FitInv, TypesFit
  <1>5. CallsFit'  BY <1>1 DEF FitInv, CallsFit
  <1> QED  BY <1>3, <1>4, <1>5 DEF FitInv

(* The objects stay as they are, and calls begin, go on or end. *)
LEMMA SameObjectsFit ==
    ASSUME TypeInv, FitInv, UNCHANGED <<wrapper, on, types>>,
           \A o \in Objects : uses'[o] \subseteq uses[o],
           \A n \in DOMAIN frames' :
              /\ wrapper[frames'[n].self] # "unborn" /\ wrapper[frames'[n].arg] # "unborn"
              /\ \A ty \in frames'[n].todo : types[ty].context = on[frames'[n].arg]
              /\ frames'[n].calling # 0 => types[frames'[n].calling].context = on[frames'[n].arg]
    PROVE  FitInv'
  <1>1. ClassesFit'  BY DEF FitInv, ClassesFit, ParentsOf, Optimizers, Renderers, Contexts, Kind
  <1>2. TypesFit'  BY DEF FitInv, TypesFit
  <1>3. CallsFit'  BY DEF CallsFit
  <1> QED  BY <1>1, <1>2, <1>3 DEF FitInv

LEMMA PushFits ==
    ASSUME TypeInv, FitInv, NEW f, frames' = Append(frames, f), UNCHANGED <<wrapper, on, uses, types>>,
           f.self \in Hand, f.arg \in Hand, f.arg \in Objects, f.todo \subseteq uses[f.arg], f.calling = 0
    PROVE  FitInv'
  <1>1. wrapper[f.self] # "unborn" /\ wrapper[f.arg] # "unborn"  BY HandIsBorn
  <1>2. \A ty \in f.todo : types[ty].context = on[f.arg]  BY DEF FitInv, TypesFit
  <1>3. \A n \in DOMAIN frames' : frames'[n] = f \/ (n \in DOMAIN frames /\ frames'[n] = frames[n])
    <2>1. /\ Len(frames) \in Nat /\ DOMAIN frames = 1..Len(frames) /\ DOMAIN frames' = 1..(Len(frames) + 1)
          /\ \A n \in 1..Len(frames) : frames'[n] = frames[n]
          /\ frames'[Len(frames) + 1] = f
      BY PushedFrames
    <2>2. \A n \in 1..(Len(frames) + 1) : n \in 1..Len(frames) \/ n = Len(frames) + 1  BY <2>1
    <2> QED  BY <2>1, <2>2
  <1>4. \A n \in DOMAIN frames' :
           /\ wrapper[frames'[n].self] # "unborn" /\ wrapper[frames'[n].arg] # "unborn"
           /\ \A ty \in frames'[n].todo : types[ty].context = on[frames'[n].arg]
           /\ frames'[n].calling # 0 => types[frames'[n].calling].context = on[frames'[n].arg]
    BY <1>1, <1>2, <1>3 DEF FitInv, CallsFit
  <1> QED  BY <1>4, SameObjectsFit

LEMMA FitKept == ASSUME TypeInv, FitInv, Step PROVE FitInv'
  <1>1. CASE \E o \in Objects, x \in Objects \cup {None}, used \in SUBSET DOMAIN types : Making(o, x, used)
    BY <1>1, MakingFits
  <1>2. CASE UNCHANGED <<wrapper, on, uses, types, frames>>
    BY <1>2, SameCallsFit
  <1>3. CASE \E o \in Objects, w \in {"loose", "freed"} : LettingGo(o, w)
    <2>1. PICK o \in Objects, w \in {"loose", "freed"} : LettingGo(o, w)  BY <1>3
    <2>2. \A p \in Objects : wrapper'[p] = IF p = o THEN w ELSE wrapper[p]  BY <2>1, LetGoIsNotHeld
    <2>3. UNCHANGED <<on, uses, types, frames>>  BY <2>1 DEF LettingGo
    <2>4. \A p \in Objects : wrapper[p] # "unborn" => wrapper'[p] # "unborn"  BY <2>2
    <2> QED  BY <2>3, <2>4, SameCallsFit
  <1>4. CASE \E c \in Contexts, s \in Symbols, captures \in BOOLEAN : Register(c, s, captures)
    <2>1. UNCHANGED <<wrapper, on, uses, frames>>
          /\ \A ty \in DOMAIN types : types'[ty].context = types[ty].context
      BY <1>4, RegisteredTypes
    <2> QED  BY <2>1, SameCallsFit
  <1>5. CASE \E r \in Renderers, t \in Templates : Entering(r, t)
    <2>1. PICK r \in Renderers, t \in Templates : Entering(r, t)  BY <1>5
    <2> DEFINE f == [Frame("render", r, t, uses[t]) EXCEPT !.nested = machine[r].internal]
    <2>2. frames' = Append(frames, f) /\ r \in Hand /\ t \in Hand /\ UNCHANGED <<wrapper, on, uses, types>>
      BY <2>1 DEF Entering
    <2>3. f.self = r /\ f.arg = t /\ f.todo = uses[t] /\ f.calling = 0  BY DEF Frame
    <2>4. t \in Objects  BY ClassesApart
    <2> HIDE DEF f
    <2> QED  BY <2>2, <2>3, <2>4, PushFits
  <1>6. CASE \E o \in Optimizers, t \in Templates : \E known \in SUBSET uses[t] : Optimizing(o, t, known)
    <2>0. PICK o \in Optimizers, t \in Templates : \E known \in SUBSET uses[t] : Optimizing(o, t, known)  BY <1>6
    <2>1. PICK known \in SUBSET uses[t] : Optimizing(o, t, known)  BY <2>0
    <2> DEFINE f == Frame("optimize", o, t, known)
    <2>2. frames' = Append(frames, f) /\ o \in Hand /\ t \in Hand /\ UNCHANGED <<wrapper, on, uses, types>>
      BY <2>1 DEF Optimizing
    <2>3. f.self = o /\ f.arg = t /\ f.todo = known /\ f.calling = 0  BY DEF Frame
    <2>4. t \in Objects  BY ClassesApart
    <2> HIDE DEF f
    <2> QED  BY <2>1, <2>2, <2>3, <2>4, PushFits
  <1>7. CASE \E f : Turning(f)
    <2>1. PICK f : Turning(f)  BY <1>7
    <2>2. \A n \in DOMAIN frames' :
             /\ wrapper[frames'[n].self] # "unborn" /\ wrapper[frames'[n].arg] # "unborn"
             /\ \A ty \in frames'[n].todo : types[ty].context = on[frames'[n].arg]
             /\ frames'[n].calling # 0 => types[frames'[n].calling].context = on[frames'[n].arg]
      BY <2>1, TurnedFrames DEF FitInv, CallsFit
    <2> QED  BY <2>1, <2>2, SameObjectsFit DEF Turning
  <1>8. CASE \E warns \in BOOLEAN : Ending(warns)
    <2>1. PICK warns \in BOOLEAN : Ending(warns)  BY <1>8
    <2>2. \A o \in Objects : uses'[o] \subseteq uses[o]  BY <2>1, EndedFrames
    <2>3. \A n \in DOMAIN frames' : n \in DOMAIN frames /\ frames'[n] = frames[n]  BY <2>1, EndedFrames
    <2> QED  BY <2>1, <2>2, <2>3, SameObjectsFit DEF FitInv, CallsFit, Ending
  <1>9. CASE \E n \in 1..MaxFrames : Unwinding(n)
    <2>1. PICK n \in 1..MaxFrames : Unwinding(n)  BY <1>9
    <2>2. \A k \in DOMAIN frames' : k \in DOMAIN frames /\ frames'[k] = frames[k]
      BY <2>1, PoppedFrames DEF Unwinding
    <2> QED  BY <2>1, <2>2, SameObjectsFit DEF FitInv, CallsFit, Unwinding
  <1> QED
    BY <1>1, <1>2, <1>3, <1>4, <1>5, <1>6, <1>7, <1>8, <1>9
    DEF Step, Failing, engine, Running, CollectProc

-----------------------------------------------------------------------------
(* A renderer knows whether it is rendering, and whose warnings it has.    *)

(* The renderings that a renderer has under way after a step. *)
LEMMA RenderingsKept ==
    ASSUME DOMAIN frames' = DOMAIN frames,
           \A n \in DOMAIN frames : frames'[n].op = frames[n].op /\ frames'[n].self = frames[n].self
    PROVE  \A r : Rendering(r)' = Rendering(r)
  BY DEF Rendering

LEMMA RenderingsPushed ==
    ASSUME TypeInv, NEW f, frames' = Append(frames, f), NEW r
    PROVE  Rendering(r)' = Rendering(r) \cup IF f.op = "render" /\ f.self = r THEN {Len(frames) + 1} ELSE {}
  <1>1. /\ Len(frames) \in Nat /\ DOMAIN frames = 1..Len(frames) /\ DOMAIN frames' = 1..(Len(frames) + 1)
        /\ \A n \in 1..Len(frames) : frames'[n] = frames[n]
        /\ frames'[Len(frames) + 1] = f
    BY PushedFrames
  <1>2. 1..(Len(frames) + 1) = 1..Len(frames) \cup {Len(frames) + 1}  BY <1>1
  <1>3. Len(frames) + 1 \notin 1..Len(frames)  BY <1>1
  <1>4. \A n \in DOMAIN frames' : n \in Rendering(r)'
           <=> n \in Rendering(r) \cup IF f.op = "render" /\ f.self = r THEN {Len(frames) + 1} ELSE {}
    BY <1>1, <1>2, <1>3 DEF Rendering
  <1> QED  BY <1>1, <1>2, <1>4 DEF Rendering

LEMMA RenderingsPopped ==
    ASSUME TypeInv, NEW n \in 1..Len(frames), frames' = SubSeq(frames, 1, Len(frames) - n), NEW r
    PROVE  Rendering(r)' = Rendering(r) \ ((Len(frames) - n + 1)..Len(frames))
  <1>1. /\ Len(frames) \in Nat /\ DOMAIN frames = 1..Len(frames) /\ DOMAIN frames' = 1..(Len(frames) - n)
        /\ \A k \in DOMAIN frames' : k \in DOMAIN frames /\ frames'[k] = frames[k]
    BY PoppedFrames
  <1>2. 1..(Len(frames) - n) = (1..Len(frames)) \ ((Len(frames) - n + 1)..Len(frames))  BY <1>1
  <1> QED  BY <1>1, <1>2 DEF Rendering

LEMMA SameCallsRender ==
    ASSUME TypeInv, RenderInv, DOMAIN frames' = DOMAIN frames, raised' = raised,
           \A n \in DOMAIN frames : /\ frames'[n].op = frames[n].op /\ frames'[n].self = frames[n].self
                                    /\ frames'[n].nested = frames[n].nested,
           \A r \in Renderers : /\ machine'[r].internal = machine[r].internal
                                /\ machine'[r].warned = machine[r].warned
    PROVE  RenderInv'
  <1>1. InternalMeansRendering'
    <2>1. \A r : Rendering(r)' = Rendering(r)  BY RenderingsKept
    <2>2. \A r \in Renderers \ raised : machine'[r].internal <=> Rendering(r)' # {}
      BY <2>1 DEF RenderInv, InternalMeansRendering
    <2> QED  BY <2>2 DEF InternalMeansRendering, Renderers, Kind
  <1>2. NestedMeansInside'
    <2>1. DOMAIN frames = 1..Len(frames) /\ Len(frames) \in Nat  BY StateTyped
    <2>2. \A n \in DOMAIN frames : \A m \in 1..(n - 1) : m \in DOMAIN frames  BY <2>1
    <2>3. \A n \in DOMAIN frames : Inside(n)' <=> Inside(n)  BY <2>2 DEF Inside
    <2> QED  BY <2>3 DEF RenderInv, NestedMeansInside
  <1>3. WarningsAreOwn'  BY DEF RenderInv, WarningsAreOwn, Warnings, Renderers, Kind
  <1> QED  BY <1>1, <1>2, <1>3 DEF RenderInv

LEMMA EnteringRenders ==
    ASSUME TypeInv, RenderInv, NEW r \in Renderers, NEW t \in Templates, Entering(r, t)
    PROVE  RenderInv'
  <1> DEFINE f == [Frame("render", r, t, uses[t]) EXCEPT !.nested = machine[r].internal]
             d == (Entered(r).depth + 1) % Word
  <1>1. frames' = Append(frames, f) /\ raised' = raised
        /\ machine' = [machine EXCEPT ![r] = [Entered(r) EXCEPT !.depth = d]]
    BY DEF Entering
  <1>2. f.op = "render" /\ f.self = r /\ f.nested = machine[r].internal  BY DEF Frame
  <1> HIDE DEF f, d
  <1>3. \A q \in Renderers : machine'[q] = IF q = r THEN [Entered(r) EXCEPT !.depth = d] ELSE machine[q]
    BY <1>1, StateTyped
  <1>4. machine[r] \in MachineSet /\ Entered(r) \in MachineSet  BY StateTyped, EnteredIsTyped
  <1>5. machine'[r].internal = Entered(r).internal /\ machine'[r].warned = Entered(r).warned
    BY <1>3, <1>4 DEF MachineSet
  <1>6. /\ Entered(r).internal
        /\ r \notin raised /\ "old" \notin machine[r].warned => "old" \notin Entered(r).warned
    <2>1. CASE ~machine[r].internal  BY <1>4, <2>1 DEF Entered, Restarted, MachineSet
    <2>2. CASE machine[r].internal
      <3>1. Entered(r).internal = machine[r].internal  BY <1>4, <2>2 DEF Entered, MachineSet
      <3>2. r \notin raised => Rendering(r) # {}  BY <2>2 DEF RenderInv, InternalMeansRendering
      <3>3. Rendering(r) # {} => Entered(r).warned = machine[r].warned  BY <1>4, <2>2 DEF Entered, MachineSet
      <3> QED  BY <2>2, <3>1, <3>2, <3>3
    <2> QED  BY <2>1, <2>2
  <1>7. \A q : Rendering(q)' = Rendering(q) \cup IF q = r THEN {Len(frames) + 1} ELSE {}
    BY <1>1, <1>2, RenderingsPushed
  <1>8. InternalMeansRendering'
    <2>1. \A q \in Renderers \ raised : machine'[q].internal <=> Rendering(q)' # {}
      BY <1>3, <1>5, <1>6, <1>7 DEF RenderInv, InternalMeansRendering
    <2> QED  BY <1>1, <2>1 DEF InternalMeansRendering, Renderers, Kind
  <1>9. NestedMeansInside'
    <2>1. /\ Len(frames) \in Nat /\ DOMAIN frames = 1..Len(frames) /\ DOMAIN frames' = 1..(Len(frames) + 1)
          /\ \A n \in 1..Len(frames) : frames'[n] = frames[n]
          /\ frames'[Len(frames) + 1] = f
      BY <1>1, PushedFrames
    <2>2. \A n \in DOMAIN frames' : \A m \in 1..(n - 1) : m \in DOMAIN frames  BY <2>1
    <2>3. \A n \in 1..Len(frames) : Inside(n)' <=> Inside(n)  BY <2>1, <2>2 DEF Inside
    <2>4. \A n : n = Len(frames) + 1 => (Inside(n)' <=> Rendering(r) # {})
      <3>1. \A n : n = Len(frames) + 1 => 1..(n - 1) = DOMAIN frames  BY <2>1
      <3> QED  BY <1>2, <2>1, <3>1 DEF Inside, Rendering
    <2>5. \A n : n = Len(frames) + 1 /\ r \notin raised => (f.nested <=> Inside(n)')
      BY <1>2, <2>4 DEF RenderInv, InternalMeansRendering
    <2>6. \A n \in 1..Len(frames) :
             frames[n].op = "render" /\ frames[n].self \notin raised => (frames[n].nested <=> Inside(n))
      BY <2>1 DEF RenderInv, NestedMeansInside
    <2>7. \A n \in DOMAIN frames' : n \in 1..Len(frames) \/ n = Len(frames) + 1  BY <2>1
    <2>8. \A n \in DOMAIN frames' :
             frames'[n].op = "render" /\ frames'[n].self \notin raised => (frames'[n].nested <=> Inside(n)')
      BY <1>2, <2>1, <2>3, <2>5, <2>6, <2>7
    <2> QED  BY <1>1, <2>8 DEF NestedMeansInside
  <1>10. WarningsAreOwn'
    <2>1. \A q \in Renderers \ raised : "old" \notin machine'[q].warned
      BY <1>3, <1>5, <1>6 DEF RenderInv, WarningsAreOwn, Warnings
    <2> QED  BY <1>1, <2>1 DEF WarningsAreOwn, Warnings, Renderers, Kind
  <1> QED  BY <1>8, <1>9, <1>10 DEF RenderInv

LEMMA OptimizingRenders ==
    ASSUME TypeInv, RenderInv, NEW o, NEW t, NEW known, Optimizing(o, t, known)
    PROVE  RenderInv'
  <1> DEFINE f == Frame("optimize", o, t, known)
  <1>1. frames' = Append(frames, f) /\ UNCHANGED <<machine, raised>>  BY DEF Optimizing
  <1>2. f.op # "render"  BY DEF Frame
  <1> HIDE DEF f
  <1>3. \A q : Rendering(q)' = Rendering(q)  BY <1>1, <1>2, RenderingsPushed
  <1>4. /\ Len(frames) \in Nat /\ DOMAIN frames = 1..Len(frames) /\ DOMAIN frames' = 1..(Len(frames) + 1)
        /\ \A n \in 1..Len(frames) : frames'[n] = frames[n]
        /\ frames'[Len(frames) + 1] = f
    BY <1>1, PushedFrames
  <1>5. \A n \in 1..Len(frames) : \A m \in 1..(n - 1) : m \in 1..Len(frames)  BY <1>4
  <1>6. \A n \in 1..Len(frames) : Inside(n)' <=> Inside(n)  BY <1>4, <1>5 DEF Inside
  <1>7. \A n \in DOMAIN frames' : n \in 1..Len(frames) \/ n = Len(frames) + 1  BY <1>4
  <1>8. NestedMeansInside'
    <2>1. \A n \in 1..Len(frames) :
             frames[n].op = "render" /\ frames[n].self \notin raised => (frames[n].nested <=> Inside(n))
      BY <1>4 DEF RenderInv, NestedMeansInside
    <2>2. \A n \in DOMAIN frames' :
             frames'[n].op = "render" /\ frames'[n].self \notin raised => (frames'[n].nested <=> Inside(n)')
      BY <1>2, <1>4, <1>6, <1>7, <2>1
    <2> QED  BY <1>1, <2>2 DEF NestedMeansInside
  <1>9. InternalMeansRendering' /\ WarningsAreOwn'
    BY <1>1, <1>3 DEF RenderInv, InternalMeansRendering, WarningsAreOwn, Warnings, Renderers, Kind
  <1> QED  BY <1>8, <1>9 DEF RenderInv

(* Of the calls that are left when some have ended. *)
LEMMA LeftNested ==
    ASSUME TypeInv, RenderInv, NEW n \in 1..Len(frames), frames' = SubSeq(frames, 1, Len(frames) - n),
           raised \subseteq raised'
    PROVE  NestedMeansInside'
  <1>1. /\ Len(frames) \in Nat /\ DOMAIN frames = 1..Len(frames) /\ DOMAIN frames' = 1..(Len(frames) - n)
        /\ \A k \in DOMAIN frames' : k \in DOMAIN frames /\ frames'[k] = frames[k]
    BY PoppedFrames
  <1>2. \A k \in DOMAIN frames' : \A m \in 1..(k - 1) : m \in DOMAIN frames'  BY <1>1
  <1>3. \A k \in DOMAIN frames' : Inside(k)' <=> Inside(k)  BY <1>1, <1>2 DEF Inside
  <1>4. \A k \in DOMAIN frames' :
           frames'[k].op = "render" /\ frames'[k].self \notin raised' => (frames'[k].nested <=> Inside(k)')
    BY <1>1, <1>3 DEF RenderInv, NestedMeansInside
  <1> QED  BY <1>4 DEF NestedMeansInside

LEMMA EndingRenders ==
    ASSUME TypeInv, RenderInv, NEW warns \in BOOLEAN, Ending(warns)
    PROVE  RenderInv'
  <1> DEFINE f == Last(frames)
  <1>1. /\ 1 \in 1..Len(frames) /\ Len(frames) \in Nat /\ DOMAIN frames = 1..Len(frames)
        /\ Len(frames) \in DOMAIN frames /\ f = frames[Len(frames)]
    BY EndedFrames
  <1>2. frames' = SubSeq(frames, 1, Len(frames) - 1) /\ raised' = raised  BY DEF Ending
  <1>3. NestedMeansInside'  BY <1>1, <1>2, LeftNested
  <1>4. \A r : Rendering(r)' = Rendering(r) \ {Len(frames)}
    <2>1. (Len(frames) - 1 + 1)..Len(frames) = {Len(frames)}  BY <1>1
    <2> QED  BY <1>1, <1>2, <2>1, RenderingsPopped
  <1>5. f.op \in {"render", "optimize"} /\ f.nested \in BOOLEAN  BY <1>1, FrameIsTyped
  <1>6. CASE f.op = "optimize"
    <2>1. machine' = machine  BY <1>6 DEF Ending
    <2>2. \A r : Rendering(r)' = Rendering(r)
      <3>1. \A r : Len(frames) \notin Rendering(r)  BY <1>1, <1>6 DEF Rendering
      <3> QED  BY <1>4, <3>1
    <2>3. InternalMeansRendering' /\ WarningsAreOwn'
      BY <1>2, <2>1, <2>2 DEF RenderInv, InternalMeansRendering, WarningsAreOwn, Warnings, Renderers, Kind
    <2> QED  BY <1>3, <2>3 DEF RenderInv
  <1>7. CASE f.op = "render"
    <2>1. f.self \in Renderers  BY <1>1, <1>7 DEF TypeInv, RenderersOfFrames
    <2>2. machine' = [machine EXCEPT ![f.self] = Over(@, f.nested, warns)]  BY <1>7 DEF Ending
    <2> HIDE DEF f
    <2>3. machine[f.self] \in MachineSet  BY <2>1, StateTyped
    <2>4. /\ \A r \in Renderers \ {f.self} : machine'[r] = machine[r]
          /\ machine'[f.self] = Over(machine[f.self], f.nested, warns)
      BY <2>1, <2>2, StateTyped
    <2>5. machine'[f.self].internal = f.nested /\ machine'[f.self].warned \subseteq machine[f.self].warned \cup {"own"}
      BY <1>5, <2>3, <2>4, OverIsTyped
    <2>6. \A r \in Renderers \ {f.self} : Rendering(r)' = Rendering(r)
      <3>1. \A r \in Renderers \ {f.self} : Len(frames) \notin Rendering(r)  BY <1>1 DEF Rendering
      <3> QED  BY <1>4, <3>1
    <2>7. \A r \in Renderers \ raised : r = f.self => (f.nested <=> Rendering(r)' # {})
      <3>1. f.self \notin raised => (f.nested <=> Inside(Len(frames)))
        BY <1>1, <1>7 DEF RenderInv, NestedMeansInside
      <3>2. \A m : m \in 1..(Len(frames) - 1) <=> m \in DOMAIN frames /\ m # Len(frames)  BY <1>1
      <3>3. Inside(Len(frames)) <=> Rendering(f.self) \ {Len(frames)} # {}
        BY <1>1, <3>2 DEF Inside, Rendering
      <3> QED  BY <1>4, <3>1, <3>3
    <2>8. InternalMeansRendering'
      <3>1. \A r \in Renderers \ raised : machine'[r].internal <=> Rendering(r)' # {}
        BY <2>1, <2>4, <2>5, <2>6, <2>7 DEF RenderInv, InternalMeansRendering
      <3> QED  BY <1>2, <3>1 DEF InternalMeansRendering, Renderers, Kind
    <2>9. WarningsAreOwn'
      <3>1. \A r \in Renderers \ raised : "old" \notin machine'[r].warned
        BY <2>1, <2>4, <2>5 DEF RenderInv, WarningsAreOwn, Warnings
      <3> QED  BY <1>2, <3>1 DEF WarningsAreOwn, Warnings, Renderers, Kind
    <2> QED  BY <1>3, <2>8, <2>9 DEF RenderInv
  <1> QED  BY <1>5, <1>6, <1>7

LEMMA UnwindingRenders ==
    ASSUME TypeInv, RenderInv, NEW n \in 1..MaxFrames, Unwinding(n)
    PROVE  RenderInv'
  <1>1. n \in 1..Len(frames) /\ frames' = SubSeq(frames, 1, Len(frames) - n) /\ raised \subseteq raised'
    BY DEF Unwinding
  <1>2. NestedMeansInside'  BY <1>1, LeftNested
  <1>3. \A r \in Renderers \ raised' : Rendering(r)' = Rendering(r)
    <2>1. \A r \in Renderers \ raised' : Rendering(r) \cap ((Len(frames) - n + 1)..Len(frames)) = {}
      BY DEF Unwinding, Rendering
    <2> QED  BY <1>1, <2>1, RenderingsPopped
  <1>4. \A r \in Renderers : /\ machine'[r].internal = machine[r].internal
                             /\ machine'[r].warned = machine[r].warned
    BY DEF Unwinding
  <1>5. \A r \in Renderers \ raised' : r \notin raised  BY <1>1
  <1>6. \A r \in Renderers \ raised' : (machine'[r].internal <=> Rendering(r)' # {}) /\ "old" \notin machine'[r].warned
    BY <1>3, <1>4, <1>5 DEF RenderInv, InternalMeansRendering, WarningsAreOwn, Warnings
  <1>7. InternalMeansRendering' /\ WarningsAreOwn'
    BY <1>6 DEF InternalMeansRendering, WarningsAreOwn, Warnings, Renderers, Kind
  <1> QED  BY <1>2, <1>7 DEF RenderInv

LEMMA RenderKept == ASSUME TypeInv, RenderInv, Step PROVE RenderInv'
  <1>1. CASE \E o \in Objects, x \in Objects \cup {None}, used \in SUBSET DOMAIN types : Making(o, x, used)
    BY <1>1, SameCallsRender DEF Making, Undisturbed
  <1>2. CASE UNCHANGED <<machine, frames, raised>>  BY <1>2, SameCallsRender
  <1>3. CASE \E r \in Renderers : Running(r)
    <2>1. PICK r \in Renderers : Running(r)  BY <1>3
    <2>2. \A q \in Renderers : machine'[q] = IF q = r THEN [machine[q] EXCEPT !.mode = "interpreter"] ELSE machine[q]
      BY <2>1, StateTyped DEF Running
    <2>3. \A q \in Renderers : machine[q] \in MachineSet  BY StateTyped
    <2>4. \A q \in Renderers : /\ machine'[q].internal = machine[q].internal
                               /\ machine'[q].warned = machine[q].warned
      BY <2>2, <2>3 DEF MachineSet
    <2> QED  BY <2>1, <2>4, SameCallsRender DEF Running
  <1>4. CASE \E f : Turning(f)
    <2>1. PICK f : Turning(f)  BY <1>4
    <2>2. /\ DOMAIN frames' = DOMAIN frames
          /\ \A n \in DOMAIN frames : /\ frames'[n].op = frames[n].op /\ frames'[n].self = frames[n].self
                                      /\ frames'[n].nested = frames[n].nested
      BY <2>1, TurnedFrames
    <2> QED  BY <2>1, <2>2, SameCallsRender DEF Turning
  <1>5. CASE \E o \in Objects, w \in {"loose", "freed"} : LettingGo(o, w)
    BY <1>2, <1>5 DEF LettingGo
  <1>6. CASE \E c \in Contexts, s \in Symbols, captures \in BOOLEAN : Register(c, s, captures)
    BY <1>2, <1>6 DEF Register
  <1>7. CASE \/ \E r \in Renderers, t \in Templates : Entering(r, t)
             \/ \E o \in Optimizers, t \in Templates : \E known \in SUBSET uses[t] : Optimizing(o, t, known)
             \/ \E warns \in BOOLEAN : Ending(warns)
             \/ \E n \in 1..MaxFrames : Unwinding(n)
    BY <1>7, EnteringRenders, OptimizingRenders, EndingRenders, UnwindingRenders
  <1>8. CASE Failing \/ \E ty \in DOMAIN types : CollectProc(ty)
    BY <1>2, <1>8 DEF Failing, engine, CollectProc
  <1> QED  BY <1>1, <1>3, <1>4, <1>5, <1>6, <1>7, <1>8 DEF Step

-----------------------------------------------------------------------------
(* It knows how deep.                                                      *)

LEMMA SmallDepth == ASSUME NEW n \in 0..(Word - 1) PROVE n % Word = n
  BY BindingsAssumption

LEMMA RenderingsCounted ==
    ASSUME TypeInv, NEW r
    PROVE  /\ IsFiniteSet(Rendering(r)) /\ Cardinality(Rendering(r)) \in Nat
           /\ Cardinality(Rendering(r)) <= Len(frames)
           /\ Rendering(r) \subseteq 1..Len(frames)
           /\ Rendering(r) = {} => Cardinality(Rendering(r)) = 0
  <1>1. Rendering(r) \subseteq 1..Len(frames) /\ Len(frames) \in Nat  BY StateTyped DEF Rendering
  <1>2. IsFiniteSet(1..Len(frames)) /\ Cardinality(1..Len(frames)) = Len(frames)
    <2> DEFINE len == Len(frames)
    <2>1. len \in Int /\ len >= 0  BY <1>1
    <2> HIDE DEF len
    <2>2. IsFiniteSet(1..len) /\ Cardinality(1..len) = IF 1 > len THEN 0 ELSE len - 1 + 1
      BY <2>1, FS_Interval
    <2>3. IsFiniteSet(1..len) /\ Cardinality(1..len) = len  BY <2>1, <2>2
    <2> QED  BY <2>3 DEF len
  <1> QED  BY <1>1, <1>2, FS_Subset, FS_CardinalityType, FS_EmptySet

LEMMA DepthOfSameCalls ==
    ASSUME TypeInv, DepthIsRenderings, broke \subseteq broke', raised \subseteq raised',
           \A r \in Renderers \ raised' : Rendering(r)' = Rendering(r) /\ machine'[r].depth = machine[r].depth
    PROVE  DepthIsRenderings'
  <1>1. "optimizer" \notin broke' => \A r \in Renderers \ raised' : machine'[r].depth = Cardinality(Rendering(r)')
    BY DEF DepthIsRenderings
  <1> QED  BY <1>1 DEF DepthIsRenderings, Renderers, Kind

LEMMA EnteredDepth ==
    ASSUME TypeInv, RenderInv, DepthIsRenderings, "optimizer" \notin broke,
           NEW r \in Renderers \ raised
    PROVE  Entered(r).depth = Cardinality(Rendering(r))
  <1>1. machine[r] \in MachineSet  BY StateTyped
  <1>2. CASE ~machine[r].internal
    <2>1. Entered(r).depth = 0  BY <1>1, <1>2 DEF Entered, Restarted, MachineSet
    <2>2. Rendering(r) = {}  BY <1>2 DEF RenderInv, InternalMeansRendering
    <2> QED  BY <2>1, <2>2, RenderingsCounted
  <1>3. CASE machine[r].internal
    <2>1. Entered(r).depth = machine[r].depth  BY <1>1, <1>3 DEF Entered, MachineSet
    <2> QED  BY <2>1 DEF DepthIsRenderings
  <1> QED  BY <1>2, <1>3

(* With what is under way, there is room for one more. *)
LEMMA DepthHasRoom ==
    ASSUME TypeInv, Len(frames) < MaxFrames, NEW r
    PROVE  /\ Cardinality(Rendering(r)) + 1 \in 0..(Word - 1)
           /\ (Cardinality(Rendering(r)) + 1) % Word = Cardinality(Rendering(r)) + 1
           /\ Cardinality(Rendering(r)) + 1 <= MaximumRenderingDepth
  <1>1. Cardinality(Rendering(r)) \in Nat /\ Cardinality(Rendering(r)) <= Len(frames)  BY RenderingsCounted
  <1>2. MaxFrames \in Nat /\ MaximumRenderingDepth \in Nat /\ Word \in Nat
        /\ MaximumRenderingDepth >= MaxFrames /\ Word > MaximumRenderingDepth + 1 /\ Len(frames) \in Nat
    BY BindingsAssumption, StateTyped
  <1>3. Cardinality(Rendering(r)) + 1 \in 0..(Word - 1) /\ Cardinality(Rendering(r)) + 1 <= MaximumRenderingDepth
    BY <1>1, <1>2
  <1> QED  BY <1>3, SmallDepth

LEMMA DepthKept == ASSUME TypeInv, RenderInv, DepthIsRenderings, Step PROVE DepthIsRenderings'
  <1>1. CASE \E o \in Objects, x \in Objects \cup {None}, used \in SUBSET DOMAIN types : Making(o, x, used)
    <2>1. UNCHANGED <<frames, raised>> /\ broke \subseteq broke'  BY <1>1 DEF Making
    <2>2. "optimizer" \notin broke' => \A r \in Renderers : \/ machine'[r].depth = machine[r].depth
                                                            \/ machine'[r].depth = 0 /\ Rendering(r) = {}
      BY <1>1 DEF Making
    <2>3. \A r : Rendering(r)' = Rendering(r)  BY <2>1, RenderingsKept
    <2>4. \A r : Rendering(r) = {} => Cardinality(Rendering(r)) = 0  BY RenderingsCounted
    <2>5. "optimizer" \notin broke' => \A r \in Renderers \ raised : machine'[r].depth = Cardinality(Rendering(r)')
      BY <2>1, <2>2, <2>3, <2>4 DEF DepthIsRenderings
    <2> QED  BY <2>1, <2>5 DEF DepthIsRenderings, Renderers, Kind
  <1>2. CASE UNCHANGED <<machine, frames, raised>> /\ broke \subseteq broke'
    BY <1>2, RenderingsKept, DepthOfSameCalls
  <1>3. CASE \E r \in Renderers : Running(r)
    <2>1. PICK r \in Renderers : Running(r)  BY <1>3
    <2>2. \A q \in Renderers : machine'[q] = IF q = r THEN [machine[q] EXCEPT !.mode = "interpreter"] ELSE machine[q]
      BY <2>1, StateTyped DEF Running
    <2>3. \A q \in Renderers : machine[q] \in MachineSet  BY StateTyped
    <2>4. \A q \in Renderers : machine'[q].depth = machine[q].depth  BY <2>2, <2>3 DEF MachineSet
    <2> QED  BY <2>1, <2>4, RenderingsKept, DepthOfSameCalls DEF Running
  <1>4. CASE \E f : Turning(f)
    <2>1. PICK f : Turning(f)  BY <1>4
    <2>2. \A r : Rendering(r)' = Rendering(r)  BY <2>1, TurnedFrames, RenderingsKept
    <2> QED  BY <2>1, <2>2, DepthOfSameCalls DEF Turning
  <1>5. CASE \E o \in Optimizers, t \in Templates : \E known \in SUBSET uses[t] : Optimizing(o, t, known)
    <2>1. PICK o \in Optimizers, t \in Templates : \E known \in SUBSET uses[t] : Optimizing(o, t, known)  BY <1>5
    <2>2. PICK known \in SUBSET uses[t] : Optimizing(o, t, known)  BY <2>1
    <2> DEFINE f == Frame("optimize", o, t, known)
    <2>3. frames' = Append(frames, f) /\ UNCHANGED <<machine, raised>> /\ broke \subseteq broke'
      BY <2>2 DEF Optimizing
    <2>4. f.op # "render"  BY DEF Frame
    <2> HIDE DEF f
    <2>5. \A q : Rendering(q)' = Rendering(q)  BY <2>3, <2>4, RenderingsPushed
    <2> QED  BY <2>3, <2>5, DepthOfSameCalls
  <1>6. CASE \E r \in Renderers, t \in Templates : Entering(r, t)
    <2>1. PICK r \in Renderers, t \in Templates : Entering(r, t)  BY <1>6
    <2> DEFINE f == [Frame("render", r, t, uses[t]) EXCEPT !.nested = machine[r].internal]
    <2>2. /\ machine' = [machine EXCEPT ![r] = [Entered(r) EXCEPT !.depth = (Entered(r).depth + 1) % Word]]
          /\ frames' = Append(frames, f) /\ UNCHANGED <<raised, broke>> /\ Len(frames) < MaxFrames
      BY <2>1 DEF Entering
    <2>3. f.op = "render" /\ f.self = r  BY DEF Frame
    <2> HIDE DEF f
    <2>4. \A q : Rendering(q)' = Rendering(q) \cup IF q = r THEN {Len(frames) + 1} ELSE {}
      BY <2>2, <2>3, RenderingsPushed
    <2>5. \A q \in Renderers \ {r} : machine'[q] = machine[q]  BY <2>2, StateTyped
    <2>6. machine'[r].depth = (Entered(r).depth + 1) % Word
      <3>1. machine'[r] = [Entered(r) EXCEPT !.depth = (Entered(r).depth + 1) % Word]  BY <2>2, StateTyped
      <3> QED  BY <3>1, EnteredIsTyped DEF MachineSet
    <2>7. "optimizer" \notin broke /\ r \notin raised => machine'[r].depth = Cardinality(Rendering(r)) + 1
      BY <2>2, <2>6, EnteredDepth, DepthHasRoom
    <2>8. Cardinality(Rendering(r) \cup {Len(frames) + 1}) = Cardinality(Rendering(r)) + 1
      <3>1. IsFiniteSet(Rendering(r)) /\ Rendering(r) \subseteq 1..Len(frames)  BY RenderingsCounted
      <3>2. Len(frames) + 1 \notin Rendering(r)  BY <3>1, StateTyped
      <3> QED  BY <3>1, <3>2, FS_AddElement
    <2>9. "optimizer" \notin broke => \A q \in Renderers \ raised : machine'[q].depth = Cardinality(Rendering(q)')
      BY <2>4, <2>5, <2>7, <2>8 DEF DepthIsRenderings
    <2> QED  BY <2>2, <2>9 DEF DepthIsRenderings, Renderers, Kind
  <1>7. CASE \E warns \in BOOLEAN : Ending(warns)
    <2>1. PICK warns \in BOOLEAN : Ending(warns)  BY <1>7
    <2> DEFINE f == Last(frames)
    <2>2. /\ 1 \in 1..Len(frames) /\ Len(frames) \in Nat /\ DOMAIN frames = 1..Len(frames)
          /\ Len(frames) \in DOMAIN frames /\ f = frames[Len(frames)]
      BY <2>1, EndedFrames
    <2>3. frames' = SubSeq(frames, 1, Len(frames) - 1) /\ UNCHANGED <<raised, broke>>  BY <2>1 DEF Ending
    <2>4. \A r : Rendering(r)' = Rendering(r) \ {Len(frames)}
      <3>1. (Len(frames) - 1 + 1)..Len(frames) = {Len(frames)}  BY <2>2
      <3> QED  BY <2>2, <2>3, <3>1, RenderingsPopped
    <2>5. f.op \in {"render", "optimize"} /\ f.nested \in BOOLEAN  BY <2>2, FrameIsTyped
    <2>6. CASE f.op = "optimize"
      <3>1. machine' = machine  BY <2>1, <2>6 DEF Ending
      <3>2. \A r : Rendering(r)' = Rendering(r)
        <4>1. \A r : Len(frames) \notin Rendering(r)  BY <2>2, <2>6 DEF Rendering
        <4> QED  BY <2>4, <4>1
      <3> QED  BY <2>3, <3>1, <3>2, DepthOfSameCalls
    <2>7. CASE f.op = "render"
      <3>1. f.self \in Renderers  BY <2>2, <2>7 DEF TypeInv, RenderersOfFrames
      <3>2. machine' = [machine EXCEPT ![f.self] = Over(@, f.nested, warns)]  BY <2>1, <2>7 DEF Ending
      <3> HIDE DEF f
      <3>3. machine[f.self] \in MachineSet  BY <3>1, StateTyped
      <3>4. /\ \A r \in Renderers \ {f.self} : machine'[r] = machine[r]
            /\ machine'[f.self] = Over(machine[f.self], f.nested, warns)
        BY <3>1, <3>2, StateTyped
      <3>5. machine'[f.self].depth = (machine[f.self].depth - 1) % Word
        BY <2>5, <3>3, <3>4, OverIsTyped
      <3>6. Len(frames) \in Rendering(f.self)  BY <2>2, <2>7 DEF Rendering
      <3>7. \A r \in Renderers \ {f.self} : Rendering(r)' = Rendering(r)
        <4>1. \A r \in Renderers \ {f.self} : Len(frames) \notin Rendering(r)  BY <2>2 DEF Rendering
        <4> QED  BY <2>4, <4>1
      <3>8. /\ Cardinality(Rendering(f.self) \ {Len(frames)}) = Cardinality(Rendering(f.self)) - 1
            /\ Cardinality(Rendering(f.self)) - 1 \in 0..(Word - 1)
        <4>1. IsFiniteSet(Rendering(f.self)) /\ Cardinality(Rendering(f.self)) \in Nat
              /\ Cardinality(Rendering(f.self)) <= Len(frames)
          BY RenderingsCounted
        <4>2. Cardinality(Rendering(f.self) \ {Len(frames)}) = Cardinality(Rendering(f.self)) - 1
              /\ Cardinality(Rendering(f.self) \ {Len(frames)}) \in Nat
          BY <3>6, <4>1, FS_RemoveElement, FS_CardinalityType
        <4>3. Len(frames) <= MaxFrames /\ MaxFrames \in Nat /\ MaximumRenderingDepth \in Nat /\ Word \in Nat
              /\ MaximumRenderingDepth >= MaxFrames /\ Word > MaximumRenderingDepth + 1
          BY BindingsAssumption, StateTyped
        <4> QED  BY <2>2, <4>1, <4>2, <4>3
      <3>9. "optimizer" \notin broke /\ f.self \notin raised
               => machine'[f.self].depth = Cardinality(Rendering(f.self) \ {Len(frames)})
        BY <3>1, <3>5, <3>8, SmallDepth DEF DepthIsRenderings
      <3>10. "optimizer" \notin broke => \A r \in Renderers \ raised : machine'[r].depth = Cardinality(Rendering(r)')
        BY <2>4, <3>4, <3>7, <3>9 DEF DepthIsRenderings
      <3> QED  BY <2>3, <3>10 DEF DepthIsRenderings, Renderers, Kind
    <2> QED  BY <2>5, <2>6, <2>7
  <1>8. CASE \E n \in 1..MaxFrames : Unwinding(n)
    <2>1. PICK n \in 1..MaxFrames : Unwinding(n)  BY <1>8
    <2>2. n \in 1..Len(frames) /\ frames' = SubSeq(frames, 1, Len(frames) - n)
          /\ raised \subseteq raised' /\ broke \subseteq broke'
      BY <2>1 DEF Unwinding
    <2>3. \A r \in Renderers \ raised' : Rendering(r)' = Rendering(r)
      <3>1. \A r \in Renderers \ raised' : Rendering(r) \cap ((Len(frames) - n + 1)..Len(frames)) = {}
        BY <2>1 DEF Unwinding, Rendering
      <3> QED  BY <2>2, <3>1, RenderingsPopped
    <2>4. \A r \in Renderers : machine'[r].depth = machine[r].depth  BY <2>1 DEF Unwinding
    <2> QED  BY <2>2, <2>3, <2>4, DepthOfSameCalls
  <1>9. CASE \E o \in Objects, w \in {"loose", "freed"} : LettingGo(o, w)
    BY <1>2, <1>9 DEF LettingGo
  <1>10. CASE \E c \in Contexts, s \in Symbols, captures \in BOOLEAN : Register(c, s, captures)
    BY <1>2, <1>10, RegisteredTypes
  <1>11. CASE Failing \/ \E ty \in DOMAIN types : CollectProc(ty)
    BY <1>2, <1>11 DEF Failing, engine, CollectProc
  <1> QED  BY <1>1, <1>3, <1>4, <1>5, <1>6, <1>7, <1>8, <1>9, <1>10, <1>11 DEF Step

-----------------------------------------------------------------------------
(* Whoever lets go of nothing too early keeps all that can be reached.     *)

LEMMA ReachableByFrames ==
    \A d : d \in Reachable <=> \/ d \in Held
                               \/ \E n \in DOMAIN frames :
                                     d \in {frames[n].self, frames[n].arg} \cup Given(frames[n])
  BY DEF Reachable, ToSet

LEMMA ReachableIsBorn ==
    ASSUME TypeInv, FitInv, NEW d \in Reachable
    PROVE  wrapper[d] # "unborn" /\ d \in Objects
  <1>1. CASE d \in Held  BY <1>1 DEF Held
  <1>2. CASE \E n \in DOMAIN frames : d \in {frames[n].self, frames[n].arg} \cup Given(frames[n])
    <2>1. PICK n \in DOMAIN frames : d \in {frames[n].self, frames[n].arg} \cup Given(frames[n])  BY <1>2
    <2>2. frames[n].self \in Objects /\ frames[n].arg \in Objects
          /\ wrapper[frames[n].self] # "unborn" /\ wrapper[frames[n].arg] # "unborn"
      BY FrameIsTyped, ClassesApart DEF TypeInv, RenderersOfFrames, FitInv, CallsFit
    <2> QED  BY <2>1, <2>2, GivenIsBorn
  <1> QED  BY <1>1, <1>2, ReachableByFrames

LEMMA HandIsReachable ==
    ASSUME TypeInv, NEW o \in Hand
    PROVE  o \in Reachable
  <1>1. CASE o \in Held  BY <1>1, ReachableByFrames
  <1>2. CASE o \notin Held
    <2>1. Calling /\ o \in Given(Last(frames))  BY <1>2 DEF Hand
    <2>2. Len(frames) \in DOMAIN frames /\ Last(frames) = frames[Len(frames)]
      BY <2>1, LastIsFrame DEF Calling
    <2> QED  BY <2>1, <2>2, ReachableByFrames
  <1> QED  BY <1>1, <1>2

LEMMA GivenKept ==
    ASSUME UNCHANGED <<on, types>>
    PROVE  \A f : Given(f)' = Given(f)
  BY DEF Given, RendererOf

(* No more can be reached than before. *)
LEMMA ShelterOfLess ==
    ASSUME Sheltered, UNCHANGED <<wrapper, on>>, broke \subseteq broke',
           "letgo" \notin broke => \A d : d \in Reachable' => d \in Reachable
    PROVE  Sheltered'
  <1>1. Held' = Held  BY DEF Held
  <1> QED  BY <1>1 DEF Sheltered

LEMMA FewerCallsShelter ==
    ASSUME Sheltered, UNCHANGED <<wrapper, on, types>>, broke \subseteq broke',
           \A n \in DOMAIN frames' : n \in DOMAIN frames /\ frames'[n] = frames[n]
    PROVE  Sheltered'
  <1>1. Held' = Held  BY DEF Held
  <1>2. ToSet(frames') \subseteq ToSet(frames)  BY DEF ToSet
  <1>3. \A d : d \in Reachable' => d \in Reachable
    BY <1>1, <1>2 DEF Reachable, Given, RendererOf
  <1> QED  BY <1>3, ShelterOfLess

LEMMA PushShelters ==
    ASSUME TypeInv, Sheltered, NEW f, frames' = Append(frames, f), UNCHANGED <<wrapper, on, types>>,
           broke \subseteq broke', f.self \in Hand, f.arg \in Hand, f.calling = 0
    PROVE  Sheltered'
  <1>1. Held' = Held  BY DEF Held
  <1>2. \A g \in ToSet(frames') : g = f \/ g \in ToSet(frames)
    <2>1. /\ Len(frames) \in Nat /\ DOMAIN frames = 1..Len(frames) /\ DOMAIN frames' = 1..(Len(frames) + 1)
          /\ \A n \in 1..Len(frames) : frames'[n] = frames[n]
          /\ frames'[Len(frames) + 1] = f
      BY PushedFrames
    <2>2. \A n \in 1..(Len(frames) + 1) : n \in 1..Len(frames) \/ n = Len(frames) + 1  BY <2>1
    <2> QED  BY <2>1, <2>2 DEF ToSet
  <1>3. f.self \in Reachable /\ f.arg \in Reachable  BY HandIsReachable
  <1>4. \A d : d \in Reachable' => d \in Reachable
    BY <1>1, <1>2, <1>3 DEF Reachable, Given, RendererOf
  <1> QED  BY <1>4, ShelterOfLess

LEMMA MakingShelters ==
    ASSUME TypeInv, FitInv, Sheltered, NEW o \in Objects, NEW x \in Objects \cup {None},
           NEW used \in SUBSET DOMAIN types, Making(o, x, used)
    PROVE  Sheltered'
  <1>1. /\ \A p \in Objects : /\ wrapper'[p] = IF p = o THEN "held" ELSE wrapper[p]
                              /\ on'[p] = IF p = o THEN x ELSE on[p]
        /\ Held' = Held \cup {o}
    BY MadeIsHeld
  <1>2. /\ UNCHANGED <<types, frames>> /\ wrapper[o] = "unborn" /\ broke \subseteq broke'
        /\ "letgo" \notin broke' => x \in {None} \cup Held \cup {on[p] : p \in Held}
    BY DEF Making
  <1>3. \A f \in ToSet(frames) : f.self \in Objects /\ f.self # o
    <2>1. \A n \in DOMAIN frames : frames[n].self \in Objects /\ frames[n].self # o
      BY <1>2, FrameIsTyped, ClassesApart DEF TypeInv, RenderersOfFrames, FitInv, CallsFit
    <2> QED  BY <2>1 DEF ToSet
  <1>4. \A d : d \in Reachable' => d = o \/ d \in Reachable
    BY <1>1, <1>2, <1>3 DEF Reachable, Given, RendererOf
  <1>5. \A d \in Reachable : d # o /\ d \in Objects  BY <1>2, ReachableIsBorn
  <1>6. Held \subseteq Reachable  BY ReachableByFrames
  <1>7. "letgo" \notin broke' => (x # None => x \in Held)
    BY <1>2, <1>6 DEF Sheltered
  <1>8. "letgo" \notin broke' =>
           \A d \in Reachable' : wrapper'[d] # "freed" /\ (on'[d] # None => on'[d] \in Held')
    BY <1>1, <1>2, <1>4, <1>5, <1>7 DEF Sheltered
  <1> QED  BY <1>8 DEF Sheltered

LEMMA LettingGoShelters ==
    ASSUME TypeInv, FitInv, Sheltered, NEW o \in Objects, NEW w \in {"loose", "freed"}, LettingGo(o, w)
    PROVE  Sheltered'
  <1>1. (\A p \in Objects : wrapper'[p] = IF p = o THEN w ELSE wrapper[p]) /\ Held' = Held \ {o}
    BY LetGoIsNotHeld
  <1>2. /\ UNCHANGED <<on, types, frames>> /\ broke \subseteq broke'
        /\ w = "loose" /\ "letgo" \notin broke' => \A d \in Reachable \ {o} : ~Depends(d, o)
        /\ w = "freed" => o \notin Reachable
    BY DEF LettingGo
  <1>3. \A d : d \in Reachable' => d \in Reachable
    BY <1>1, <1>2 DEF Reachable, Given, RendererOf
  <1>4. \A d \in Reachable : d \in Objects  BY ReachableIsBorn
  <1>5. on[o] # o
    <2>1. on[o] # None => on[o] \in ParentsOf(o)  BY DEF FitInv, ClassesFit
    <2> QED  BY <2>1, ClassesApart DEF ParentsOf
  <1>6. ASSUME "letgo" \notin broke', NEW d \in Reachable'
        PROVE  wrapper'[d] # "freed" /\ (on'[d] # None => on'[d] \in Held')
    <2>1. d \in Reachable /\ d \in Objects /\ "letgo" \notin broke  BY <1>2, <1>3, <1>4, <1>6
    <2>2. wrapper[d] # "freed" /\ (on[d] # None => on[d] \in Held)  BY <2>1 DEF Sheltered
    <2>3. wrapper'[d] # "freed"  BY <1>1, <1>2, <2>1, <2>2
    <2>4. on[d] # None => on[d] # o
      <3>1. CASE w = "loose"  BY <1>2, <1>5, <1>6, <2>1, <3>1 DEF Depends
      <3>2. CASE w = "freed"
        <4>1. o \notin Held  BY <1>2, <3>2, ReachableByFrames
        <4> QED  BY <2>2, <4>1
      <3> QED  BY <3>1, <3>2
    <2> QED  BY <1>1, <1>2, <2>2, <2>3, <2>4
  <1> QED  BY <1>6 DEF Sheltered

LEMMA TurningShelters ==
    ASSUME TypeInv, FitInv, Sheltered, NEW f, Turning(f)
    PROVE  Sheltered'
  <1>1. UNCHANGED <<wrapper, on, types, broke>>  BY DEF Turning
  <1>2. /\ DOMAIN frames' = DOMAIN frames /\ Len(frames) \in DOMAIN frames
        /\ Last(frames) = frames[Len(frames)]
        /\ \A n \in DOMAIN frames : frames'[n] = IF n = Len(frames) THEN f ELSE frames[n]
    BY TurnedFrames
  <1> DEFINE l == frames[Len(frames)]
  <1>3. f.op = l.op /\ f.self = l.self /\ f.arg = l.arg /\ f.calling \in l.todo \cup {0}
    BY <1>2 DEF Turning
  <1>4. l.self \in Reachable /\ l.arg \in Reachable  BY <1>2, ReachableByFrames
  <1>5. RendererOf(l) \in Renderers /\ RendererOf(l) \in Objects  BY <1>2, RendererIsRenderer, ClassesApart
  <1>6. \A ty \in l.todo : types[ty].context = on[l.arg] /\ types[ty].context \in Objects
    <2>1. l.todo \subseteq DOMAIN types  BY <1>2, FrameIsTyped, StateTyped
    <2> QED  BY <1>2, <2>1, TypeIsTyped, ClassesApart DEF FitInv, CallsFit
  <1> HIDE DEF l
  <1>7. RendererOf(f) = RendererOf(l)  BY <1>3 DEF RendererOf
  <1>8. "letgo" \notin broke => Given(f) \subseteq Reachable
    <2> SUFFICES ASSUME "letgo" \notin broke PROVE Given(f) \subseteq Reachable  OBVIOUS
    <2>1. RendererOf(l) \in Reachable
      <3>1. RendererOf(l) = l.self \/ RendererOf(l) = on[l.self]  BY DEF RendererOf
      <3>2. CASE RendererOf(l) = on[l.self]
        <4>1. on[l.self] \in Held  BY <1>4, <1>5, <3>2, ClassesApart DEF Sheltered
        <4> QED  BY <3>2, <4>1, ReachableByFrames
      <3> QED  BY <1>4, <3>1, <3>2
    <2>2. \A ty \in l.todo : types[ty].context \in Reachable
      <3>1. \A ty \in l.todo : types[ty].context \in Held  BY <1>4, <1>6, ClassesApart DEF Sheltered
      <3> QED  BY <3>1, ReachableByFrames
    <2> QED  BY <1>3, <1>7, <2>1, <2>2 DEF Given
  <1>9. \A g : Given(g)' = Given(g)  BY <1>1, GivenKept
  <1>10. Held' = Held  BY <1>1 DEF Held
  <1>11. \A g \in ToSet(frames') : g = f \/ g \in ToSet(frames)  BY <1>2 DEF ToSet
  <1>12. "letgo" \notin broke => \A d : d \in Reachable' => d \in Reachable
    BY <1>3, <1>4, <1>8, <1>9, <1>10, <1>11 DEF Reachable
  <1> QED  BY <1>1, <1>12, ShelterOfLess

LEMMA ShelterKept == ASSUME TypeInv, FitInv, Sheltered, Step PROVE Sheltered'
  <1>1. CASE \E o \in Objects, x \in Objects \cup {None}, used \in SUBSET DOMAIN types : Making(o, x, used)
    BY <1>1, MakingShelters
  <1>2. CASE UNCHANGED <<wrapper, on, types, frames>> /\ broke \subseteq broke'
    BY <1>2, FewerCallsShelter
  <1>3. CASE \E o \in Objects, w \in {"loose", "freed"} : LettingGo(o, w)
    BY <1>3, LettingGoShelters
  <1>4. CASE \E c \in Contexts, s \in Symbols, captures \in BOOLEAN : Register(c, s, captures)
    <2>1. UNCHANGED <<wrapper, on, frames>> /\ broke \subseteq broke'
          /\ \A ty \in DOMAIN types : types'[ty].context = types[ty].context
                                      /\ types'[ty].captures = types[ty].captures
      BY <1>4, RegisteredTypes
    <2>2. \A f \in ToSet(frames) : f.calling \in DOMAIN types \cup {0}
      <3>1. \A n \in DOMAIN frames : frames[n].calling \in 0..Len(types)  BY FrameIsTyped
      <3>2. 0..Len(types) = DOMAIN types \cup {0}  BY StateTyped
      <3> QED  BY <3>1, <3>2 DEF ToSet
    <2>3. Held' = Held  BY <2>1 DEF Held
    <2>4. \A d : d \in Reachable' => d \in Reachable
      BY <2>1, <2>2, <2>3 DEF Reachable, Given, RendererOf
    <2> QED  BY <2>1, <2>4, ShelterOfLess
  <1>5. CASE \E r \in Renderers, t \in Templates : Entering(r, t)
    <2>1. PICK r \in Renderers, t \in Templates : Entering(r, t)  BY <1>5
    <2> DEFINE f == [Frame("render", r, t, uses[t]) EXCEPT !.nested = machine[r].internal]
    <2>2. frames' = Append(frames, f) /\ r \in Hand /\ t \in Hand /\ UNCHANGED <<wrapper, on, types, broke>>
      BY <2>1 DEF Entering
    <2>3. f.self = r /\ f.arg = t /\ f.calling = 0  BY DEF Frame
    <2> HIDE DEF f
    <2> QED  BY <2>2, <2>3, PushShelters
  <1>6. CASE \E o \in Optimizers, t \in Templates : \E known \in SUBSET uses[t] : Optimizing(o, t, known)
    <2>1. PICK o \in Optimizers, t \in Templates : \E known \in SUBSET uses[t] : Optimizing(o, t, known)  BY <1>6
    <2>2. PICK known \in SUBSET uses[t] : Optimizing(o, t, known)  BY <2>1
    <2> DEFINE f == Frame("optimize", o, t, known)
    <2>3. frames' = Append(frames, f) /\ o \in Hand /\ t \in Hand /\ UNCHANGED <<wrapper, on, types>>
          /\ broke \subseteq broke'
      BY <2>2 DEF Optimizing
    <2>4. f.self = o /\ f.arg = t /\ f.calling = 0  BY DEF Frame
    <2> HIDE DEF f
    <2> QED  BY <2>3, <2>4, PushShelters
  <1>7. CASE \E f : Turning(f)  BY <1>7, TurningShelters
  <1>8. CASE \E warns \in BOOLEAN : Ending(warns)
    BY <1>8, EndedFrames, FewerCallsShelter DEF Ending
  <1>9. CASE \E n \in 1..MaxFrames : Unwinding(n)
    BY <1>9, PoppedFrames, FewerCallsShelter DEF Unwinding
  <1>10. CASE Failing \/ (\E ty \in DOMAIN types : CollectProc(ty)) \/ \E r \in Renderers : Running(r)
    BY <1>2, <1>10 DEF Failing, engine, CollectProc, Running
  <1> QED  BY <1>1, <1>3, <1>4, <1>5, <1>6, <1>7, <1>8, <1>9, <1>10 DEF Step

-----------------------------------------------------------------------------
(* What keeping each of the other rules preserves.                         *)

LEMMA EnteredKeeps ==
    ASSUME TypeInv, NEW r \in Renderers
    PROVE  /\ Entered(r).drops = machine[r].drops
           /\ ~machine[r].internal => Entered(r).mode = "tree"
           /\ machine[r].internal => Entered(r).mode = machine[r].mode
  <1>1. machine[r] \in MachineSet  BY StateTyped
  <1> QED  BY <1>1 DEF Entered, Restarted, MachineSet

LEMMA OverKeeps ==
    ASSUME NEW m \in MachineSet, NEW nested \in BOOLEAN, NEW warns \in BOOLEAN
    PROVE  Over(m, nested, warns).mode = m.mode /\ Over(m, nested, warns).drops = m.drops
  BY DEF Over, Left, MachineSet

LEMMA EndingKeeps ==
    ASSUME TypeInv, NEW warns \in BOOLEAN, Ending(warns)
    PROVE  \A r \in Renderers : machine'[r].mode = machine[r].mode /\ machine'[r].drops = machine[r].drops
  <1> DEFINE f == Last(frames)
  <1>1. Len(frames) \in DOMAIN frames /\ f = frames[Len(frames)]  BY EndedFrames
  <1>2. f.op \in {"render", "optimize"} /\ f.nested \in BOOLEAN  BY <1>1, FrameIsTyped
  <1>3. CASE f.op = "optimize"  BY <1>3 DEF Ending
  <1>4. CASE f.op = "render"
    <2>1. f.self \in Renderers  BY <1>1, <1>4 DEF TypeInv, RenderersOfFrames
    <2>2. machine' = [machine EXCEPT ![f.self] = Over(@, f.nested, warns)]  BY <1>4 DEF Ending
    <2> HIDE DEF f
    <2>3. \A r \in Renderers : machine'[r] = IF r = f.self THEN Over(machine[r], f.nested, warns) ELSE machine[r]
      BY <2>1, <2>2, StateTyped
    <2>4. \A r \in Renderers : machine[r] \in MachineSet  BY StateTyped
    <2> QED  BY <1>2, <2>3, <2>4, OverKeeps
  <1> QED  BY <1>2, <1>3, <1>4

LEMMA EnteringKeeps ==
    ASSUME TypeInv, NEW r \in Renderers, NEW t \in Templates, Entering(r, t)
    PROVE  /\ \A q \in Renderers \ {r} : machine'[q] = machine[q]
           /\ machine'[r].mode = Entered(r).mode /\ machine'[r].drops = machine[r].drops
  <1> DEFINE d == (Entered(r).depth + 1) % Word
  <1>1. machine' = [machine EXCEPT ![r] = [Entered(r) EXCEPT !.depth = d]]  BY DEF Entering
  <1> HIDE DEF d
  <1>2. \A q \in Renderers : machine'[q] = IF q = r THEN [Entered(r) EXCEPT !.depth = d] ELSE machine[q]
    BY <1>1, StateTyped
  <1>3. machine'[r].mode = Entered(r).mode /\ machine'[r].drops = Entered(r).drops
    BY <1>2, EnteredIsTyped DEF MachineSet
  <1> QED  BY <1>2, <1>3, EnteredKeeps

LEMMA RunningKeeps ==
    ASSUME TypeInv, NEW r \in Renderers, Running(r)
    PROVE  /\ \A q \in Renderers \ {r} : machine'[q] = machine[q]
           /\ machine'[r].drops = machine[r].drops
  <1>1. \A q \in Renderers : machine'[q] = IF q = r THEN [machine[q] EXCEPT !.mode = "interpreter"] ELSE machine[q]
    BY StateTyped DEF Running
  <1>2. machine[r] \in MachineSet  BY StateTyped
  <1> QED  BY <1>1, <1>2 DEF MachineSet

LEMMA FreshKept == ASSUME TypeInv, Fresh, Step PROVE Fresh'
  <1>1. CASE \E c \in Contexts, s \in Symbols, captures \in BOOLEAN : Register(c, s, captures)
    <2>1. PICK c \in Contexts, s \in Symbols, captures \in BOOLEAN : Register(c, s, captures)  BY <1>1
    <2>2. /\ DOMAIN types' = DOMAIN types \cup {Len(types) + 1}
          /\ \A ty \in DOMAIN types : types'[ty].replaced = (types[ty].replaced \/ ty \in Current(c, s))
          /\ types'[Len(types) + 1] = NodeType(c, s, captures)
          /\ broke \subseteq broke' /\ ("replaced" \notin broke' => Current(c, s) = {})
      BY <2>1, RegisteredTypes
    <2>3. ~NodeType(c, s, captures).replaced  BY DEF NodeType
    <2>4. "replaced" \notin broke' => \A ty \in DOMAIN types' : ~types'[ty].replaced
      BY <2>2, <2>3 DEF Fresh
    <2> QED  BY <2>4 DEF Fresh
  <1>2. CASE types' = types /\ broke \subseteq broke'  BY <1>2 DEF Fresh
  <1> QED
    BY <1>1, <1>2
    DEF Step, Failing, engine, Making, LettingGo, CollectProc, Running, Entering, Optimizing, Turning, Ending, Unwinding

LEMMA PlainKept == ASSUME TypeInv, Plain, Step PROVE Plain'
  <1>1. CASE \E o \in Objects, x \in Objects \cup {None}, used \in SUBSET DOMAIN types : Making(o, x, used)
    <2>1. PICK o \in Objects, x \in Objects \cup {None}, used \in SUBSET DOMAIN types : Making(o, x, used)
      BY <1>1
    <2>2. \A p \in Objects : uses'[p] = IF p = o THEN used ELSE uses[p]  BY <2>1, MadeIsHeld
    <2>3. broke \subseteq broke' /\ ("compiled" \notin broke' /\ o \in Programs => used = {})
      BY <2>1 DEF Making
    <2>4. "compiled" \notin broke' => \A g \in Programs : uses'[g] = {}
      BY <2>2, <2>3, ClassesApart DEF Plain
    <2> QED  BY <2>4 DEF Plain, Programs, Kind
  <1>2. CASE \E warns \in BOOLEAN : Ending(warns)
    <2>1. PICK warns \in BOOLEAN : Ending(warns)  BY <1>2
    <2>2. \A o \in Objects : uses'[o] \subseteq uses[o]  BY <2>1, EndedFrames
    <2>3. broke' = broke  BY <2>1 DEF Ending
    <2>4. "compiled" \notin broke' => \A g \in Programs : uses'[g] = {}
      BY <2>2, <2>3, ClassesApart DEF Plain
    <2> QED  BY <2>4 DEF Plain, Programs, Kind
  <1>3. CASE uses' = uses /\ broke \subseteq broke'  BY <1>3 DEF Plain, Programs, Kind
  <1>4. CASE \E c \in Contexts, s \in Symbols, captures \in BOOLEAN : Register(c, s, captures)
    BY <1>3, <1>4, RegisteredTypes
  <1> QED
    BY <1>1, <1>2, <1>3, <1>4
    DEF Step, Failing, engine, LettingGo, CollectProc, Running, Entering, Optimizing, Turning, Unwinding

LEMMA UnraisedKept == ASSUME TypeInv, Unraised, Step PROVE Unraised'
  <1>1. CASE broke \subseteq broke' /\ raised' = raised /\ \A r \in Renderers : machine'[r].drops = machine[r].drops
    BY <1>1 DEF Unraised, Renderers, Kind
  <1>2. CASE \E n \in 1..MaxFrames : Unwinding(n)  BY <1>2 DEF Unwinding, Unraised
  <1>3. CASE \E o \in Objects, x \in Objects \cup {None}, used \in SUBSET DOMAIN types : Making(o, x, used)
    BY <1>1, <1>3 DEF Making, Undisturbed
  <1>4. CASE \E r \in Renderers : Running(r)
    <2>1. \A q \in Renderers : machine'[q].drops = machine[q].drops  BY <1>4, RunningKeeps
    <2> QED  BY <1>1, <1>4, <2>1 DEF Running
  <1>5. CASE \E r \in Renderers, t \in Templates : Entering(r, t)
    <2>1. \A q \in Renderers : machine'[q].drops = machine[q].drops  BY <1>5, EnteringKeeps
    <2> QED  BY <1>1, <1>5, <2>1 DEF Entering
  <1>6. CASE \E warns \in BOOLEAN : Ending(warns)
    BY <1>1, <1>6, EndingKeeps DEF Ending
  <1>7. CASE \E c \in Contexts, s \in Symbols, captures \in BOOLEAN : Register(c, s, captures)
    BY <1>1, <1>7, RegisteredTypes
  <1> QED
    BY <1>1, <1>2, <1>3, <1>4, <1>5, <1>6, <1>7
    DEF Step, Failing, engine, LettingGo, CollectProc, Optimizing, Turning

LEMMA StraightOfSame ==
    ASSUME TypeInv, Straight, UNCHANGED on, broke \subseteq broke',
           \A n \in DOMAIN frames' :
              n \in DOMAIN frames /\ frames'[n].op = frames[n].op /\ frames'[n].self = frames[n].self,
           broke' \cap {"mixed", "raised"} = {} =>
              \A n \in DOMAIN frames : machine'[RendererOf(frames[n])].mode = machine[RendererOf(frames[n])].mode
    PROVE  Straight'
  <1>1. \A n \in DOMAIN frames' :
           RendererOf(frames[n]) = IF frames'[n].op = "render" THEN frames'[n].self ELSE on'[frames'[n].self]
    BY DEF RendererOf
  <1>2. broke' \cap {"mixed", "raised"} = {} =>
           \A n \in DOMAIN frames' : machine'[RendererOf(frames[n])].mode = "tree"
    BY DEF Straight
  <1> QED  BY <1>1, <1>2 DEF Straight, RendererOf

LEMMA StraightKept == ASSUME TypeInv, FitInv, RenderInv, Unraised, Straight, Step PROVE Straight'
  <1>1. CASE UNCHANGED <<on, frames, machine>> /\ broke \subseteq broke'
    BY <1>1, StraightOfSame
  <1>2. CASE \E o \in Objects, x \in Objects \cup {None}, used \in SUBSET DOMAIN types : Making(o, x, used)
    <2>1. PICK o \in Objects, x \in Objects \cup {None}, used \in SUBSET DOMAIN types : Making(o, x, used)
      BY <1>2
    <2>2. \A p \in Objects : on'[p] = IF p = o THEN x ELSE on[p]  BY <2>1, MadeIsHeld
    <2>3. UNCHANGED frames /\ broke \subseteq broke' /\ \A r \in Renderers : machine'[r].mode = machine[r].mode
      BY <2>1 DEF Making, Undisturbed
    <2>4. \A n \in DOMAIN frames : frames[n].self \in Objects /\ frames[n].self # o
      BY <2>1, FrameIsTyped, ClassesApart DEF Making, TypeInv, RenderersOfFrames, FitInv, CallsFit
    <2>5. broke' \cap {"mixed", "raised"} = {} =>
             \A n \in DOMAIN frames : machine'[RendererOf(frames[n])].mode = "tree"
      BY <2>3, RendererIsRenderer DEF Straight
    <2> QED  BY <2>2, <2>3, <2>4, <2>5 DEF Straight, RendererOf
  <1>3. CASE \E r \in Renderers : Running(r)
    <2>1. PICK r \in Renderers : Running(r)  BY <1>3
    <2>2. UNCHANGED <<on, frames>> /\ broke \subseteq broke'
          /\ ("mixed" \notin broke' => \A n \in DOMAIN frames : RendererOf(frames[n]) # r)
      BY <2>1 DEF Running
    <2>3. broke' \cap {"mixed", "raised"} = {} =>
             \A n \in DOMAIN frames : machine'[RendererOf(frames[n])].mode = machine[RendererOf(frames[n])].mode
      BY <2>1, <2>2, RunningKeeps, RendererIsRenderer
    <2> QED  BY <2>2, <2>3, StraightOfSame
  <1>4. CASE \E r \in Renderers, t \in Templates : Entering(r, t)
    <2>1. PICK r \in Renderers, t \in Templates : Entering(r, t)  BY <1>4
    <2> DEFINE f == [Frame("render", r, t, uses[t]) EXCEPT !.nested = machine[r].internal]
    <2>2. frames' = Append(frames, f) /\ UNCHANGED <<on, broke>>  BY <2>1 DEF Entering
    <2>3. f.op = "render" /\ f.self = r  BY DEF Frame
    <2> HIDE DEF f
    <2>4. broke \cap {"mixed", "raised"} = {} => Entered(r).mode = "tree"
      <3>1. CASE ~machine[r].internal  BY <3>1, EnteredKeeps
      <3>2. CASE machine[r].internal
        <4> SUFFICES ASSUME broke \cap {"mixed", "raised"} = {} PROVE machine[r].mode = "tree"
          BY <3>2, EnteredKeeps
        <4>1. raised = {}  BY DEF Unraised
        <4>2. Rendering(r) # {}  BY <3>2, <4>1 DEF RenderInv, InternalMeansRendering
        <4>3. PICK n \in DOMAIN frames : frames[n].op = "render" /\ frames[n].self = r  BY <4>2 DEF Rendering
        <4>4. RendererOf(frames[n]) = r  BY <4>3 DEF RendererOf
        <4> QED  BY <4>4 DEF Straight
      <3> QED  BY <3>1, <3>2
    <2>5. broke \cap {"mixed", "raised"} = {} =>
             \A n \in DOMAIN frames : machine'[RendererOf(frames[n])].mode = "tree"
      BY <2>1, <2>4, EnteringKeeps, RendererIsRenderer DEF Straight
    <2>6. broke \cap {"mixed", "raised"} = {} => machine'[r].mode = "tree"  BY <2>1, <2>4, EnteringKeeps
    <2>7. \A n \in DOMAIN frames' : frames'[n] = f \/ (n \in DOMAIN frames /\ frames'[n] = frames[n])
      <3>1. /\ Len(frames) \in Nat /\ DOMAIN frames = 1..Len(frames) /\ DOMAIN frames' = 1..(Len(frames) + 1)
            /\ \A n \in 1..Len(frames) : frames'[n] = frames[n]
            /\ frames'[Len(frames) + 1] = f
        BY <2>2, PushedFrames
      <3>2. \A n \in 1..(Len(frames) + 1) : n \in 1..Len(frames) \/ n = Len(frames) + 1  BY <3>1
      <3> QED  BY <3>1, <3>2
    <2> QED  BY <2>2, <2>3, <2>5, <2>6, <2>7 DEF Straight, RendererOf
  <1>5. CASE \E o \in Optimizers, t \in Templates : \E known \in SUBSET uses[t] : Optimizing(o, t, known)
    <2>1. PICK o \in Optimizers, t \in Templates : \E known \in SUBSET uses[t] : Optimizing(o, t, known)  BY <1>5
    <2>2. PICK known \in SUBSET uses[t] : Optimizing(o, t, known)  BY <2>1
    <2> DEFINE f == Frame("optimize", o, t, known)
    <2>3. frames' = Append(frames, f) /\ UNCHANGED <<on, machine>> /\ broke \subseteq broke'
          /\ ("mixed" \notin broke' => machine[on[o]].mode = "tree")
      BY <2>2 DEF Optimizing
    <2>4. f.op = "optimize" /\ f.self = o  BY DEF Frame
    <2> HIDE DEF f
    <2>5. \A n \in DOMAIN frames' : frames'[n] = f \/ (n \in DOMAIN frames /\ frames'[n] = frames[n])
      <3>1. /\ Len(frames) \in Nat /\ DOMAIN frames = 1..Len(frames) /\ DOMAIN frames' = 1..(Len(frames) + 1)
            /\ \A n \in 1..Len(frames) : frames'[n] = frames[n]
            /\ frames'[Len(frames) + 1] = f
        BY <2>3, PushedFrames
      <3>2. \A n \in 1..(Len(frames) + 1) : n \in 1..Len(frames) \/ n = Len(frames) + 1  BY <3>1
      <3> QED  BY <3>1, <3>2
    <2>6. broke' \cap {"mixed", "raised"} = {} =>
             \A n \in DOMAIN frames : machine[RendererOf(frames[n])].mode = "tree"
      BY <2>3 DEF Straight
    <2> QED  BY <2>3, <2>4, <2>5, <2>6 DEF Straight, RendererOf
  <1>6. CASE \E f : Turning(f)
    <2>1. PICK f : Turning(f)  BY <1>6
    <2> QED  BY <2>1, TurnedFrames, StraightOfSame DEF Turning
  <1>7. CASE \E warns \in BOOLEAN : Ending(warns)
    <2>1. PICK warns \in BOOLEAN : Ending(warns)  BY <1>7
    <2>2. \A n \in DOMAIN frames' : n \in DOMAIN frames /\ frames'[n] = frames[n]  BY <2>1, EndedFrames
    <2>3. \A n \in DOMAIN frames : machine'[RendererOf(frames[n])].mode = machine[RendererOf(frames[n])].mode
      BY <2>1, EndingKeeps, RendererIsRenderer
    <2> QED  BY <2>1, <2>2, <2>3, StraightOfSame DEF Ending
  <1>8. CASE \E n \in 1..MaxFrames : Unwinding(n)  BY <1>8 DEF Unwinding, Straight
  <1>9. CASE \E o \in Objects, w \in {"loose", "freed"} : LettingGo(o, w)
    BY <1>1, <1>9 DEF LettingGo
  <1>10. CASE \E c \in Contexts, s \in Symbols, captures \in BOOLEAN : Register(c, s, captures)
    BY <1>1, <1>10, RegisteredTypes
  <1>11. CASE Failing \/ \E ty \in DOMAIN types : CollectProc(ty)
    BY <1>1, <1>11 DEF Failing, engine, CollectProc
  <1> QED  BY <1>2, <1>3, <1>4, <1>5, <1>6, <1>7, <1>8, <1>9, <1>10, <1>11 DEF Step

-----------------------------------------------------------------------------
(* What goes wrong was ruled out.                                          *)

LEMMA BehindIsReachable ==
    ASSUME Sheltered, "letgo" \notin broke, NEW objects, objects \subseteq Reachable
    PROVE  Behind(objects) \subseteq Reachable /\ \A o \in Behind(objects) : wrapper[o] # "freed"
  <1>1. \A o \in objects : on[o] # None => on[o] \in Reachable
    <2>1. \A o \in objects : on[o] # None => on[o] \in Held  BY DEF Sheltered
    <2> QED  BY <2>1, ReachableByFrames
  <1>2. Behind(objects) \subseteq Reachable  BY <1>1 DEF Behind
  <1> QED  BY <1>2 DEF Sheltered

(* Nothing went wrong in this step. *)
LEMMA StillWell ==
    ASSUME RulesSuffice, broke \subseteq broke', status' = status \/ status' = "ok"
    PROVE  RulesSuffice'
  BY DEF RulesSuffice

(* Using what can be reached is safe for who breaks neither of two rules. *)
LEMMA UseByRules ==
    ASSUME Sheltered, Fresh, RulesSuffice, NEW objects, NEW nodeTypes, nodeTypes \subseteq DOMAIN types,
           "letgo" \notin broke => \A o \in objects : wrapper[o] # "freed",
           Fails(Using(objects, nodeTypes), {})
    PROVE  RulesSuffice'
  <1>1. broke' = broke /\ status' = Using(objects, nodeTypes)  BY DEF Fails
  <1>2. CASE \E o \in objects : wrapper[o] = "freed"
    <2>1. status' = "freed memory" /\ "letgo" \in broke  BY <1>1, <1>2 DEF Using
    <2> QED  BY <1>1, <2>1 DEF RulesSuffice
  <1>3. CASE (\A o \in objects : wrapper[o] # "freed") /\ \E ty \in nodeTypes : types[ty].replaced
    <2>1. status' = "stale type" /\ "replaced" \in broke  BY <1>1, <1>3 DEF Using, Fresh
    <2> QED  BY <1>1, <2>1 DEF RulesSuffice
  <1>4. CASE (\A o \in objects : wrapper[o] # "freed") /\ \A ty \in nodeTypes : ~types[ty].replaced
    <2>1. status' = "ok"  BY <1>1, <1>4 DEF Using
    <2> QED  BY <1>1, <2>1, StillWell
  <1> QED  BY <1>2, <1>3, <1>4

(* The node types of a template or a program, and of a call under way. *)
LEMMA UsesAreTypes ==
    ASSUME TypeInv
    PROVE  /\ \A o \in Objects : uses[o] \subseteq DOMAIN types
           /\ \A n \in DOMAIN frames : frames[n].todo \subseteq DOMAIN types
  BY StateTyped, FrameIsTyped

LEMMA ParseByRules ==
    ASSUME SafeInv, NEW p \in Parsers, NEW t \in Templates, Parse(p, t) \/ CopiesNoError(p)
    PROVE  RulesSuffice'
  <1>1. CASE CopiesNoError(p)
    <2>1. status' = "no error" /\ "lexed" \in broke'  BY <1>1 DEF CopiesNoError, Fails
    <2> QED  BY <2>1 DEF RulesSuffice
  <1>2. CASE Parse(p, t) /\ Using(Behind({p}), {}) = "ok"
    <2>1. UNCHANGED <<status, broke>>  BY <1>2 DEF Parse
    <2> QED  BY <2>1, StillWell DEF SafeInv
  <1>3. CASE Parse(p, t) /\ Using(Behind({p}), {}) # "ok"
    <2>1. Fails(Using(Behind({p}), {}), {}) /\ p \in Hand  BY <1>3 DEF Parse
    <2>2. {p} \subseteq Reachable  BY <2>1, HandIsReachable DEF SafeInv
    <2>3. "letgo" \notin broke => \A o \in Behind({p}) : wrapper[o] # "freed"
      BY <2>2, BehindIsReachable DEF SafeInv
    <2> QED  BY <2>1, <2>3, UseByRules DEF SafeInv, RulesInv
  <1> QED  BY <1>1, <1>2, <1>3

LEMMA UnparseByRules ==
    ASSUME SafeInv, NEW p \in Parsers, NEW t \in Templates, Unparse(p, t)
    PROVE  RulesSuffice'
  <1>1. Fails(Using({p} \cup Behind({t}), uses[t]), {}) /\ p \in Hand /\ t \in Hand  BY DEF Unparse
  <1>2. p \in Reachable /\ {t} \subseteq Reachable  BY <1>1, HandIsReachable DEF SafeInv
  <1>3. "letgo" \notin broke => \A o \in {p} \cup Behind({t}) : wrapper[o] # "freed"
    BY <1>2, BehindIsReachable DEF SafeInv, Sheltered
  <1>4. uses[t] \subseteq DOMAIN types  BY UsesAreTypes, ClassesApart DEF SafeInv
  <1> QED  BY <1>1, <1>3, <1>4, UseByRules DEF SafeInv, RulesInv

LEMMA CompileByRules ==
    ASSUME SafeInv, NEW k \in Compilers, NEW t \in Templates, NEW g \in Programs, Compile(k, t, g)
    PROVE  RulesSuffice'
  <1> DEFINE result == Using({k} \cup Behind({t}), uses[t])
  <1>1. k \in Hand /\ t \in Hand  BY DEF Compile
  <1>2. CASE result = "ok"
    <2>1. broke \subseteq broke' /\ status' = status  BY <1>2 DEF Compile, Breaks
    <2> QED  BY <2>1, StillWell DEF SafeInv
  <1>3. CASE result # "ok"
    <2>1. Fails(result, {})  BY <1>3 DEF Compile
    <2>2. k \in Reachable /\ {t} \subseteq Reachable  BY <1>1, HandIsReachable DEF SafeInv
    <2>3. "letgo" \notin broke => \A o \in {k} \cup Behind({t}) : wrapper[o] # "freed"
      BY <2>2, BehindIsReachable DEF SafeInv, Sheltered
    <2>4. uses[t] \subseteq DOMAIN types  BY UsesAreTypes, ClassesApart DEF SafeInv
    <2> QED  BY <2>1, <2>3, <2>4, UseByRules DEF SafeInv, RulesInv
  <1> QED  BY <1>2, <1>3

LEMMA RunByRules ==
    ASSUME SafeInv, NEW r \in Renderers, NEW g \in Programs, Run(r, g)
    PROVE  RulesSuffice'
  <1> DEFINE result == Using(Behind({r, g}), uses[g])
  <1>1. r \in Hand /\ g \in Hand /\ uses[g] \subseteq DOMAIN types
    BY UsesAreTypes, ClassesApart DEF SafeInv, Run
  <1>2. CASE result = "ok" /\ uses[g] = {}
    <2>1. UNCHANGED <<wrapper, on, uses, types, dead, frames, raised, status>>
          /\ Breaks("mixed", \E f \in ToSet(frames) : RendererOf(f) = r)
      BY <1>2 DEF Run
    <2>2. broke \subseteq broke' /\ status' = status  BY <2>1 DEF Breaks
    <2> QED  BY <2>2, StillWell DEF SafeInv
  <1>3. CASE result = "ok" /\ uses[g] # {}
    <2>1. Fails("no node", {})  BY <1>3 DEF Run
    <2>2. "compiled" \in broke  BY <1>3 DEF SafeInv, RulesInv, Plain
    <2> QED  BY <2>1, <2>2 DEF RulesSuffice, Fails
  <1>4. CASE result # "ok"
    <2>1. Fails(result, {})  BY <1>4 DEF Run
    <2>2. {r, g} \subseteq Reachable  BY <1>1, HandIsReachable DEF SafeInv
    <2>3. "letgo" \notin broke => \A o \in Behind({r, g}) : wrapper[o] # "freed"
      BY <2>2, BehindIsReachable DEF SafeInv
    <2> QED  BY <1>1, <2>1, <2>3, UseByRules DEF SafeInv, RulesInv
  <1> QED  BY <1>2, <1>3, <1>4

LEMMA StartRenderByRules ==
    ASSUME SafeInv, NEW r \in Renderers, NEW t \in Templates, StartRender(r, t)
    PROVE  RulesSuffice'
  <1> DEFINE result == Using(Behind({r, t}), {})
             depth  == (Entered(r).depth + 1) % Word
  <1>1. r \in Hand /\ t \in Hand /\ Len(frames) < MaxFrames  BY DEF StartRender
  <1>2. CASE result # "ok"
    <2>1. Fails(result, {})  BY <1>2 DEF StartRender
    <2>2. {r, t} \subseteq Reachable  BY <1>1, HandIsReachable DEF SafeInv
    <2>3. "letgo" \notin broke => \A o \in Behind({r, t}) : wrapper[o] # "freed"
      BY <2>2, BehindIsReachable DEF SafeInv
    <2> QED  BY <2>1, <2>3, UseByRules DEF SafeInv, RulesInv
  <1>3. CASE result = "ok" /\ depth > MaximumRenderingDepth
    <2>1. Fails("aborted", {})  BY <1>3 DEF StartRender
    <2>2. broke \cap {"raised", "optimizer"} # {}
      <3> SUFFICES ASSUME "raised" \notin broke, "optimizer" \notin broke PROVE FALSE  OBVIOUS
      <3>1. r \in Renderers \ raised  BY DEF SafeInv, RulesInv, Unraised
      <3>2. Entered(r).depth = Cardinality(Rendering(r))  BY <3>1, EnteredDepth DEF SafeInv
      <3>3. /\ (Cardinality(Rendering(r)) + 1) % Word = Cardinality(Rendering(r)) + 1
            /\ Cardinality(Rendering(r)) + 1 <= MaximumRenderingDepth
            /\ Cardinality(Rendering(r)) \in Nat
        BY <1>1, DepthHasRoom, RenderingsCounted DEF SafeInv
      <3>4. depth = Cardinality(Rendering(r)) + 1  BY <3>2, <3>3
      <3>5. MaximumRenderingDepth \in Nat  BY BindingsAssumption
      <3> HIDE DEF depth, result
      <3> QED  BY <1>3, <3>3, <3>4, <3>5
    <2> QED  BY <2>1, <2>2 DEF RulesSuffice, Fails
  <1>4. CASE result = "ok" /\ ~(depth > MaximumRenderingDepth)
    <2>1. UNCHANGED <<broke, status>>  BY <1>4 DEF StartRender
    <2> QED  BY <2>1, StillWell DEF SafeInv
  <1> QED  BY <1>2, <1>3, <1>4

LEMMA StartOptimizeByRules ==
    ASSUME SafeInv, NEW o \in Optimizers, NEW t \in Templates, StartOptimize(o, t)
    PROVE  RulesSuffice'
  <1> DEFINE result == Using(Behind(Behind({o})) \cup Behind({t}), uses[t])
  <1>1. o \in Hand /\ t \in Hand  BY DEF StartOptimize
  <1>2. CASE Fails("freed nodes", {"optimized"})
    BY <1>2 DEF RulesSuffice, Fails
  <1>3. CASE result = "ok" /\ ~Fails("freed nodes", {"optimized"})
    <2>1. broke \subseteq broke' /\ status' = status  BY <1>3 DEF StartOptimize
    <2> QED  BY <2>1, StillWell DEF SafeInv
  <1>4. CASE result # "ok"
    <2>1. Fails(result, {})  BY <1>4 DEF StartOptimize
    <2>2. {o} \subseteq Reachable /\ {t} \subseteq Reachable  BY <1>1, HandIsReachable DEF SafeInv
    <2>3. "letgo" \notin broke => Behind({o}) \subseteq Reachable
      BY <2>2, BehindIsReachable DEF SafeInv
    <2>4. "letgo" \notin broke => \A d \in Behind(Behind({o})) \cup Behind({t}) : wrapper[d] # "freed"
      BY <2>2, <2>3, BehindIsReachable DEF SafeInv
    <2>5. uses[t] \subseteq DOMAIN types  BY UsesAreTypes, ClassesApart DEF SafeInv
    <2> QED  BY <2>1, <2>4, <2>5, UseByRules DEF SafeInv, RulesInv
  <1> QED  BY <1>2, <1>3, <1>4

(* What the innermost call uses can be reached. *)
LEMMA FrameUsesAreSafe ==
    ASSUME SafeInv, NEW n \in DOMAIN frames, "letgo" \notin broke
    PROVE  \A o \in FrameUses(frames[n]) : wrapper[o] # "freed"
  <1> DEFINE f == frames[n]
  <1>1. f.self \in Reachable /\ f.arg \in Reachable  BY ReachableByFrames
  <1>2. RendererOf(f) \in Renderers /\ RendererOf(f) # None  BY RendererIsRenderer, ClassesApart DEF SafeInv
  <1>3. RendererOf(f) \in Reachable
    <2>1. RendererOf(f) = f.self \/ RendererOf(f) = on[f.self]  BY DEF RendererOf
    <2>2. CASE RendererOf(f) = on[f.self]
      <3>1. on[f.self] \in Held  BY <1>1, <1>2, <2>2 DEF SafeInv, Sheltered
      <3> QED  BY <2>2, <3>1, ReachableByFrames
    <2> QED  BY <1>1, <2>1, <2>2
  <1> HIDE DEF f
  <1>4. {RendererOf(f), f.self, f.arg} \subseteq Reachable  BY <1>1, <1>3
  <1>5. \A o \in FrameUses(f) : wrapper[o] # "freed"
    BY <1>4, BehindIsReachable DEF SafeInv, FrameUses
  <1> QED  BY <1>5 DEF f

LEMMA CallHostByRules ==
    ASSUME SafeInv, NEW ty \in DOMAIN types, NEW inLoop \in BOOLEAN, CallHost(ty, inLoop)
    PROVE  RulesSuffice'
  <1> DEFINE f == Last(frames)
             result == Using(FrameUses(f), {ty})
  <1>1. frames # <<>> /\ ty \in f.todo  BY DEF CallHost, Engine
  <1>2. Len(frames) \in DOMAIN frames /\ f = frames[Len(frames)]  BY <1>1, LastIsFrame DEF SafeInv
  <1>3. CASE result # "ok"
    <2>1. Fails(result, {})  BY <1>3 DEF CallHost
    <2>2. "letgo" \notin broke => \A o \in FrameUses(f) : wrapper[o] # "freed"  BY <1>2, FrameUsesAreSafe
    <2> QED  BY <2>1, <2>2, UseByRules DEF SafeInv, RulesInv
  <1>4. CASE result = "ok" /\ ~OperandsAreNodes(RendererOf(f))
    <2>1. Fails("mode", {})  BY <1>4 DEF CallHost
    <2>2. broke \cap {"mixed", "raised"} # {}
      BY <1>2, <1>4 DEF SafeInv, RulesInv, Straight, OperandsAreNodes
    <2> QED  BY <2>1, <2>2 DEF RulesSuffice, Fails
  <1>5. CASE result = "ok" /\ OperandsAreNodes(RendererOf(f)) /\ ty \in dead
    <2>1. Fails("freed memory", {})  BY <1>5 DEF CallHost
    <2>2. "letgo" \in broke
      <3> SUFFICES ASSUME "letgo" \notin broke PROVE FALSE  OBVIOUS
      <3>1. types[ty].context = on[f.arg]  BY <1>1, <1>2 DEF SafeInv, FitInv, CallsFit
      <3>2. types[ty].context # None  BY TypeIsTyped, ClassesApart DEF SafeInv
      <3>3. f.arg \in Reachable  BY <1>2, ReachableByFrames
      <3>4. on[f.arg] \in Held  BY <3>1, <3>2, <3>3 DEF SafeInv, Sheltered
      <3> QED  BY <1>5, <3>1, <3>4 DEF SafeInv, ProcsLive
    <2> QED  BY <2>1, <2>2 DEF RulesSuffice, Fails
  <1>6. CASE result = "ok" /\ OperandsAreNodes(RendererOf(f)) /\ ty \notin dead
    <2>1. UNCHANGED <<broke, status>>  BY <1>6 DEF CallHost
    <2> QED  BY <2>1, StillWell DEF SafeInv
  <1> QED  BY <1>3, <1>4, <1>5, <1>6

LEMMA FinishByRules ==
    ASSUME SafeInv, NEW warns \in BOOLEAN, Finish(warns)
    PROVE  RulesSuffice'
  <1> DEFINE f == Last(frames)
             result == Using(FrameUses(f), {})
  <1>1. frames # <<>>  BY DEF Finish, Engine
  <1>2. Len(frames) \in DOMAIN frames /\ f = frames[Len(frames)]  BY <1>1, LastIsFrame DEF SafeInv
  <1>3. CASE result # "ok"
    <2>1. Fails(result, {})  BY <1>3 DEF Finish
    <2>2. "letgo" \notin broke => \A o \in FrameUses(f) : wrapper[o] # "freed"  BY <1>2, FrameUsesAreSafe
    <2> QED  BY <2>1, <2>2, UseByRules DEF SafeInv, RulesInv
  <1>4. CASE result = "ok"
    <2>1. UNCHANGED <<broke, status>>  BY <1>4 DEF Finish
    <2> QED  BY <2>1, StillWell DEF SafeInv
  <1> QED  BY <1>3, <1>4

LEMMA ReadStaleDropByRules == ASSUME SafeInv, ReadStaleDrop PROVE RulesSuffice'
  <1>1. frames # <<>> /\ machine[RendererOf(Last(frames))].drops /\ Fails("stale drop", {})
    BY DEF ReadStaleDrop, Engine
  <1>2. RendererOf(Last(frames)) \in Renderers  BY <1>1, LastIsFrame, RendererIsRenderer DEF SafeInv
  <1>3. "raised" \in broke  BY <1>1, <1>2 DEF SafeInv, RulesInv, Unraised
  <1> QED  BY <1>1, <1>3 DEF RulesSuffice, Fails

(* The steps that cannot go wrong. *)
LEMMA OthersByRules ==
    ASSUME SafeInv,
           \/ \E o \in Objects, x \in Objects \cup {None}, used \in SUBSET DOMAIN types : Making(o, x, used)
           \/ \E o \in Objects, w \in {"loose", "freed"} : LettingGo(o, w)
           \/ \E ty \in DOMAIN types : CollectProc(ty)
           \/ \E c \in Contexts, s \in Symbols, captures \in BOOLEAN : Register(c, s, captures)
           \/ \E f : Turning(f)
           \/ \E n \in 1..MaxFrames : Unwinding(n)
    PROVE  RulesSuffice'
  <1>1. CASE \E c \in Contexts, s \in Symbols, captures \in BOOLEAN : Register(c, s, captures)
    <2>1. status' = status /\ broke \subseteq broke'  BY <1>1, RegisteredTypes DEF SafeInv
    <2> QED  BY <2>1, StillWell DEF SafeInv
  <1>2. CASE status' = status /\ broke \subseteq broke'  BY <1>2, StillWell DEF SafeInv
  <1> QED  BY <1>1, <1>2 DEF Making, LettingGo, CollectProc, Turning, Unwinding

LEMMA RulesSufficeKept == ASSUME SafeInv, [Next]_vars PROVE RulesSuffice'
  <1>1. TypeInv /\ FitInv  BY DEF SafeInv
  <1>2. CASE NewContext \/ NewParser \/ NewRenderer \/ NewCompiler \/ NewOptimizer
    <2>1. \E o \in Objects, x \in Objects \cup {None} : Making(o, x, {})
      BY <1>1, <1>2, NewIsMaking, NewOptimizerIsMaking
    <2>2. {} \in SUBSET DOMAIN types  OBVIOUS
    <2> QED  BY <2>1, <2>2, OthersByRules
  <1>3. CASE \E o \in Objects : Drop(o) \/ Collect(o)
    <2>1. PICK o \in Objects : Drop(o) \/ Collect(o)  BY <1>3
    <2>2. LettingGo(o, "loose") \/ LettingGo(o, "freed")  BY <1>1, <2>1, DropIsLettingGo, CollectIsLettingGo
    <2> QED  BY <2>2, OthersByRules
  <1>4. CASE \E c \in Contexts, s \in Symbols, captures \in BOOLEAN : Register(c, s, captures)
    BY <1>4, OthersByRules
  <1>5. CASE \E p \in Parsers, t \in Templates : Parse(p, t) \/ CopiesNoError(p) \/ Unparse(p, t)
    BY <1>5, ParseByRules, UnparseByRules
  <1>6. CASE \E k \in Compilers, t \in Templates, g \in Programs : Compile(k, t, g)
    BY <1>6, CompileByRules
  <1>7. CASE \E r \in Renderers, g \in Programs : Run(r, g)  BY <1>7, RunByRules
  <1>8. CASE \E r \in Renderers, t \in Templates : StartRender(r, t)  BY <1>8, StartRenderByRules
  <1>9. CASE \E o \in Optimizers, t \in Templates : StartOptimize(o, t)  BY <1>9, StartOptimizeByRules
  <1>10. CASE Return  BY <1>1, <1>10, ReturnIsTurning, OthersByRules
  <1>11. CASE \E n \in 1..MaxFrames : Raise(n)  BY <1>1, <1>11, RaiseIsUnwinding, OthersByRules
  <1>12. CASE \E ty \in DOMAIN types, inLoop \in BOOLEAN : CallHost(ty, inLoop)  BY <1>12, CallHostByRules
  <1>13. CASE \E warns \in BOOLEAN : Finish(warns)  BY <1>13, FinishByRules
  <1>14. CASE ReadStaleDrop  BY <1>14, ReadStaleDropByRules
  <1>15. CASE \E ty \in DOMAIN types : CollectProc(ty)  BY <1>15, OthersByRules
  <1>16. CASE UNCHANGED vars
    <2>1. UNCHANGED <<status, broke>>  BY <1>16 DEF vars
    <2> QED  BY <2>1, StillWell DEF SafeInv
  <1>17. ParseTemplate \/ ParseArgument \/ ParseAppropriate
            => \E p \in Parsers, t \in Templates : Parse(p, t) \/ CopiesNoError(p) \/ Unparse(p, t)
    BY DEF ParseTemplate, ParseArgument, ParseAppropriate
  <1>18. CASE Script
    BY <1>2, <1>3, <1>4, <1>5, <1>6, <1>7, <1>8, <1>9, <1>10, <1>11, <1>17, <1>18 DEF Script
  <1> QED  BY <1>3, <1>12, <1>13, <1>14, <1>15, <1>16, <1>18 DEF Next, Collector

-----------------------------------------------------------------------------
(* The theorems.                                                           *)

LEMMA InitSafe == Init => SafeInv
  <1> SUFFICES ASSUME Init PROVE SafeInv  OBVIOUS
  <1>1. TypeInv  BY InitTypes
  <1>2. /\ types = <<>> /\ frames = <<>> /\ DOMAIN types = {} /\ DOMAIN frames = {} /\ ToSet(frames) = {}
        /\ raised = {} /\ broke = {} /\ status = "ok"
        /\ \A o \in Objects : wrapper[o] = "unborn" /\ on[o] = None /\ uses[o] = {}
        /\ \A r \in Renderers : machine[r] = Idle
    BY DEF Init, ToSet
  <1>3. \A r : Rendering(r) = {}  BY <1>2 DEF Rendering
  <1>4. ProcsLive /\ FitInv
    BY <1>2 DEF ProcsLive, FitInv, ClassesFit, TypesFit, CallsFit
  <1>5. RenderInv
    BY <1>2, <1>3 DEF RenderInv, InternalMeansRendering, NestedMeansInside, WarningsAreOwn, Warnings, Idle
  <1>6. DepthIsRenderings
    <2>1. Cardinality({}) = 0  BY FS_EmptySet
    <2>2. \A r \in Renderers : Cardinality(Rendering(r)) = 0
      <3>1. \A r \in Renderers : Cardinality(Rendering(r)) = Cardinality({})  BY <1>3
      <3> QED  BY <2>1, <3>1
    <2>3. \A r \in Renderers : machine[r].depth = 0  BY <1>2 DEF Idle
    <2> QED  BY <2>2, <2>3 DEF DepthIsRenderings
  <1>7. Sheltered
    <2>1. \A d : d \notin Reachable  BY <1>2, ReachableByFrames DEF Held
    <2> QED  BY <2>1 DEF Sheltered
  <1>8. RulesInv
    BY <1>2, ClassesApart DEF RulesInv, Fresh, Plain, Straight, Unraised, Idle
  <1>9. RulesSuffice  BY <1>2 DEF RulesSuffice
  <1> QED  BY <1>1, <1>4, <1>5, <1>6, <1>7, <1>8, <1>9 DEF SafeInv

LEMMA NextSafe == SafeInv /\ [Next]_vars => SafeInv'
  <1> SUFFICES ASSUME SafeInv, [Next]_vars PROVE SafeInv'  OBVIOUS
  <1>1. TypeInv /\ FitInv  BY DEF SafeInv
  <1>2. Step  BY <1>1, NextIsStep
  <1>3. TypeInv'  BY <1>1, NextTypes
  <1>4. ProcsLive' /\ FitInv' /\ Sheltered'  BY <1>2, ProcsKept, FitKept, ShelterKept DEF SafeInv
  <1>5. RenderInv' /\ DepthIsRenderings'  BY <1>2, RenderKept, DepthKept DEF SafeInv
  <1>6. RulesInv'
    BY <1>2, FreshKept, PlainKept, UnraisedKept, StraightKept DEF SafeInv, RulesInv
  <1>7. RulesSuffice'  BY RulesSufficeKept
  <1> QED  BY <1>3, <1>4, <1>5, <1>6, <1>7 DEF SafeInv

(* Whatever goes wrong has a cause in the script: who lets go of nothing too *)
(* early, registers no symbol anew, compiles no template with functions of   *)
(* its own, mixes no programs with trees, raises through no rendering, makes *)
(* no optimizer for a renderer at work and optimizes no template that a call *)
(* is at work on never uses freed memory or nodes, the node or the type that *)
(* is not there, or aborts.                                                  *)
THEOREM RulesAreEnough == Spec => []RulesSuffice
  <1>1. SafeInv => RulesSuffice  BY DEF SafeInv
  <1> QED  BY <1>1, InitSafe, NextSafe, PTL DEF Spec

(* The procs of a context that the script holds are not collected. *)
THEOREM ProcsAreKept == Spec => []ProcsLive
  <1>1. SafeInv => ProcsLive  BY DEF SafeInv
  <1> QED  BY <1>1, InitSafe, NextSafe, PTL DEF Spec

(* internalRender is set exactly while the renderer renders, unless an *)
(* exception cut a rendering short.                                    *)
THEOREM RendererKnowsItRenders == Spec => []InternalMeansRendering
  <1>1. SafeInv => InternalMeansRendering  BY DEF SafeInv, RenderInv
  <1> QED  BY <1>1, InitSafe, NextSafe, PTL DEF Spec

(* currentRenderingDepth counts the renderings under way, unless an *)
(* exception or an optimizer disturbed it.                          *)
THEOREM RendererKnowsHowDeep == Spec => []DepthIsRenderings
  <1>1. SafeInv => DepthIsRenderings  BY DEF SafeInv
  <1> QED  BY <1>1, InitSafe, NextSafe, PTL DEF Spec

(* The warnings a script reads are those of the last rendering, unless an *)
(* exception cut one short.                                               *)
THEOREM WarningsOfOneRendering == Spec => []WarningsAreOwn
  <1>1. SafeInv => WarningsAreOwn  BY DEF SafeInv, RenderInv
  <1> QED  BY <1>1, InitSafe, NextSafe, PTL DEF Spec
=============================================================================
