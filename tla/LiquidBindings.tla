--------------------------- MODULE LiquidBindings ---------------------------
(***************************************************************************)
(* A script that uses the engine by the Ruby binding (liquid.c), over the  *)
(* C interface (src/interface.cpp).  Each Ruby object wraps one object of  *)
(* the engine and frees it when the garbage collector takes the wrapper;   *)
(* the engine's objects point to one another, but of the wrappers only the *)
(* context's marks anything: the procs that were registered with it.  A    *)
(* tag or filter of the script runs as a callback, in which the script may *)
(* do all that it may do outside: render, optimize, register, let go of    *)
(* what it holds, or raise, which unwinds the engine's frames by longjmp.  *)
(*                                                                         *)
(* A template is the set of the host's node types that its nodes have, and *)
(* has a concatenation of several nodes at its root.  Collecting, and what *)
(* the script does, are steps of their own; status says whether memory was *)
(* used that is not the program's, or how else a run of it went wrong.     *)
(***************************************************************************)
EXTENDS Integers, Sequences, FiniteSets, SequencesExt

CONSTANTS
    Objects,                \* the Ruby objects a script may make,
    ClassOf,                \* the class of each,
    None,                   \* and no object
    Symbols,                \* the tags and filters it may register
    MaxTypes,               \* how many times it registers one
    MaxBroken,              \* how many rules one script breaks
    MaxFrames,              \* how deep renderings and optimizations may nest
    MaximumRenderingDepth,  \* how deep the renderer lets them
    Word                    \* how many values the unsigned depth has

Classes == {"Context", "Parser", "Renderer", "Template", "Optimizer", "Compiler", "Program"}

ASSUME BindingsAssumption ==
    /\ ClassOf \in [Objects -> Classes]
    /\ None \notin Objects
    /\ {MaxTypes, MaxBroken, MaxFrames, MaximumRenderingDepth, Word} \subseteq Nat
    /\ MaximumRenderingDepth >= MaxFrames
    /\ Word > MaximumRenderingDepth + 1

VARIABLES
    wrapper,    \* for every object: not made yet, held by the script, let go of, or freed
    on,         \* the context or renderer that an object of the engine points to
    uses,       \* the registered node types that a template or a program has
    types,      \* the node types that were registered
    dead,       \* those whose proc was collected
    machine,    \* the fields of each renderer
    frames,     \* the engine's calls that are under way, the innermost last
    raised,     \* the renderers that lost a rendering to an exception
    broke,      \* what the script has done that it had better not
    status      \* "ok", or what went wrong

vars == <<wrapper, on, uses, types, dead, machine, frames, raised, broke, status>>
engine == <<wrapper, on, uses, types, dead, machine, frames, raised>>

Held == {o \in Objects : wrapper[o] = "held"}
Kind(class) == {o \in Objects : ClassOf[o] = class}

Idle == [internal |-> FALSE, depth |-> 0, mode |-> "tree", warned |-> {}, drops |-> FALSE]

NodeType(c, s, captures) ==
    [context |-> c, symbol |-> s, captures |-> captures, replaced |-> FALSE]

Frame(op, self, arg, todo) ==
    [op |-> op, self |-> self, arg |-> arg, todo |-> todo, folds |-> todo,
     nested |-> FALSE, calling |-> 0, loop |-> FALSE]

RendererOf(f) == IF f.op = "render" THEN f.self ELSE on[f.self]
Rendering(r)  == {n \in DOMAIN frames : frames[n].op = "render" /\ frames[n].self = r}

(* The script runs at the top or in a callback; there it also has the renderer, *)
(* and the context if the proc was written where that is in scope.              *)
Calling  == frames # <<>> /\ Last(frames).calling # 0
Scripted == status = "ok" /\ (frames = <<>> \/ Calling)
Engine   == status = "ok" /\ frames # <<>> /\ ~Calling

Given(f) ==
    IF f.calling = 0 THEN {}
    ELSE {RendererOf(f)} \cup IF types[f.calling].captures THEN {types[f.calling].context} ELSE {}

Hand == Held \cup IF Calling THEN Given(Last(frames)) ELSE {}

-----------------------------------------------------------------------------
(* Memory. *)

(* What the collector finds: variables of the script, the receivers and arguments *)
(* of calls under way, and what the procs under way were given or refer to.       *)
Reachable == Held \cup UNION {{f.self, f.arg} \cup Given(f) : f \in ToSet(frames)}

(* Mutated: nothing marks the procs. *)
MarkedNever(ty) == FALSE
Marked(ty) == types[ty].context \in Reachable
ProcFound(ty) == Marked(ty) \/ \E f \in ToSet(frames) : f.calling = ty

(* What a use of objects and of node types comes to. *)
Using(objects, nodeTypes) ==
    IF \E o \in objects : wrapper[o] = "freed" THEN "freed memory"
    ELSE IF \E ty \in nodeTypes : types[ty].replaced THEN "stale type"
    ELSE "ok"

(* The objects that an operation on these reads: templates and programs have node *)
(* types of the context that their parser had.                                    *)
Behind(objects) == objects \cup ({on[o] : o \in objects} \ {None})

Fails(as, why) ==
    /\ status' = as
    /\ broke' = broke \cup why
    /\ UNCHANGED engine

Breaks(rule, if) == broke' = broke \cup IF if THEN {rule} ELSE {}

-----------------------------------------------------------------------------
(* Objects are made and let go of. *)

Make(o, x, nodeTypes) ==
    /\ wrapper' = [wrapper EXCEPT ![o] = "held"]
    /\ on' = [on EXCEPT ![o] = x]
    /\ uses' = [uses EXCEPT ![o] = nodeTypes]

Contexts   == Kind("Context")
Parsers    == Kind("Parser")
Renderers  == Kind("Renderer")
Templates  == Kind("Template")
Optimizers == Kind("Optimizer")
Compilers  == Kind("Compiler")
Programs   == Kind("Program")

NewContext ==
    /\ Scripted
    /\ \E c \in Contexts : wrapper[c] = "unborn" /\ Make(c, None, {})
    /\ UNCHANGED <<types, dead, machine, frames, raised, broke, status>>

New(o, x) ==
    /\ Scripted
    /\ wrapper[o] = "unborn"
    /\ x \in Hand
    /\ Make(o, x, {})
    /\ UNCHANGED <<types, dead, frames, raised, status>>

NewOfContext(o, c) ==
    /\ New(o, c)
    /\ Breaks("letgo", c \notin Held)
    /\ UNCHANGED machine

NewParser   == \E o \in Parsers, c \in Contexts : NewOfContext(o, c)
NewRenderer == \E o \in Renderers, c \in Contexts : NewOfContext(o, c)
NewCompiler == \E o \in Compilers, c \in Contexts : NewOfContext(o, c)

(* Optimizer::Optimizer sets the renderer's depth back, whatever that is doing. *)
NewOptimizer ==
    \E o \in Optimizers, r \in Renderers :
        /\ New(o, r)
        /\ machine' = [machine EXCEPT ![r].depth = 0]
        /\ broke' = broke \cup (IF r \in Held THEN {} ELSE {"letgo"})
                          \cup (IF Rendering(r) = {} THEN {} ELSE {"optimizer"})

Depends(o, x) == on[o] = x \/ (on[o] # None /\ on[on[o]] = x)

Drop(o) ==
    /\ Scripted
    /\ o \in Held
    /\ wrapper' = [wrapper EXCEPT ![o] = "loose"]
    /\ Breaks("letgo", \E d \in Reachable \ {o} : Depends(d, o))
    /\ UNCHANGED <<on, uses, types, dead, machine, frames, raised, status>>

(* Mutated: the destructor of a node asks its type. *)
DestructorAsksTypes(o) == IF ClassOf[o] = "Template" THEN Behind({o}) ELSE {o}

(* What the liquidFree function of a wrapper reads: its own object, even where   *)
(* that has references to others.                                               *)
Destructor(o) == {o}

Collect(o) ==
    /\ status = "ok"
    /\ wrapper[o] \in {"held", "loose"} /\ o \notin Reachable
    /\ wrapper' = [wrapper EXCEPT ![o] = "freed"]
    /\ status' = Using(Destructor(o), {})
    /\ UNCHANGED <<on, uses, types, dead, machine, frames, raised, broke>>

CollectProc(ty) ==
    /\ status = "ok"
    /\ ty \notin dead /\ ~ProcFound(ty)
    /\ dead' = dead \cup {ty}
    /\ UNCHANGED <<wrapper, on, uses, types, machine, frames, raised, broke, status>>

(* registerType replaces, and so frees, the type that the symbol had; the proc of   *)
(* that one stays in the array of the context.                                     *)
Current(c, s) == {ty \in DOMAIN types : types[ty].context = c /\ types[ty].symbol = s
                                        /\ ~types[ty].replaced}

Register(c, s, captures) ==
    /\ Scripted
    /\ c \in Hand
    /\ Len(types) < MaxTypes
    /\ types' = Append([ty \in DOMAIN types |-> [types[ty] EXCEPT !.replaced = @ \/ ty \in Current(c, s)]],
                       NodeType(c, s, captures))
    /\ Breaks("replaced", Current(c, s) # {})
    /\ UNCHANGED <<wrapper, on, uses, dead, machine, frames, raised, status>>

-----------------------------------------------------------------------------
(* Templates and programs. *)

Parse(p, t) ==
    /\ Scripted
    /\ p \in Hand
    /\ wrapper[t] = "unborn"
    /\ \/ /\ Using(Behind({p}), {}) = "ok"
          /\ \E symbols \in SUBSET Symbols : Make(t, on[p], UNION {Current(on[p], s) : s \in symbols})
          /\ UNCHANGED <<types, dead, machine, frames, raised, broke, status>>
       \/ Using(Behind({p}), {}) # "ok" /\ Fails(Using(Behind({p}), {}), {})

(* Two of the entries copy the first error of the parser even if it was the lexer *)
(* that raised one; liquidParserParseTemplate asks for the type of the error.     *)
CopiesNoError(p) ==
    /\ Scripted
    /\ p \in Hand
    /\ Using(Behind({p}), {}) = "ok"
    /\ Fails("no error", {"lexed"})

ParseTemplate    == \E p \in Parsers, t \in Templates : Parse(p, t)
ParseArgument    == \E p \in Parsers, t \in Templates : Parse(p, t) \/ CopiesNoError(p)
ParseAppropriate == \E p \in Parsers, t \in Templates : Parse(p, t) \/ CopiesNoError(p)

Unparse(p, t) ==
    /\ Scripted
    /\ p \in Hand /\ t \in Hand
    /\ Using({p} \cup Behind({t}), uses[t]) # "ok"
    /\ Fails(Using({p} \cup Behind({t}), uses[t]), {})

(* A call of a host's function in a program is compiled like one of the engine's. *)
Compile(k, t, g) ==
    /\ Scripted
    /\ k \in Hand /\ t \in Hand
    /\ wrapper[g] = "unborn"
    /\ LET result == Using({k} \cup Behind({t}), uses[t])
       IN  IF result # "ok" THEN Fails(result, {})
           ELSE /\ Make(g, on[t], uses[t])
                /\ Breaks("compiled", uses[t] # {})
                /\ UNCHANGED <<types, dead, machine, frames, raised, status>>

(* Interpreter::renderTemplate: OP_CALL hands the function an empty node, whose  *)
(* arguments the callbacks of the binding count.                                 *)
Run(r, g) ==
    /\ Scripted
    /\ r \in Hand /\ g \in Hand
    /\ LET result == Using(Behind({r, g}), uses[g])
       IN  IF result # "ok" \/ uses[g] # {} THEN Fails(IF result = "ok" THEN "no node" ELSE result, {})
           ELSE /\ machine' = [machine EXCEPT ![r].mode = "interpreter"]
                /\ Breaks("mixed", \E f \in ToSet(frames) : RendererOf(f) = r)
                /\ UNCHANGED <<wrapper, on, uses, types, dead, frames, raised, status>>

-----------------------------------------------------------------------------
(* Rendering and optimizing a tree. *)

(* Mutated: the warnings of the last rendering stay. *)
RestartedWithWarnings(m) == [m EXCEPT !.internal = TRUE, !.depth = 0, !.mode = "tree",
                                      !.warned = IF @ = {} THEN {} ELSE {"old"}]

(* Renderer::render outside of a rendering starts anew. *)
Restarted(m) == [m EXCEPT !.internal = TRUE, !.depth = 0, !.mode = "tree", !.warned = {}]

(* With internalRender left over, the warnings of an earlier rendering are kept. *)
Entered(r) ==
    IF ~machine[r].internal THEN Restarted(machine[r])
    ELSE [machine[r] EXCEPT !.warned = IF Rendering(r) = {} /\ @ # {} THEN {"old"} ELSE @]

StartRender(r, t) ==
    /\ Scripted
    /\ Len(frames) < MaxFrames
    /\ r \in Hand /\ t \in Hand
    /\ LET result == Using(Behind({r, t}), {})
           depth  == (Entered(r).depth + 1) % Word
       IN  IF result # "ok" THEN Fails(result, {})
           ELSE IF depth > MaximumRenderingDepth
           THEN Fails("aborted", {})  \* a Renderer::Error is thrown, and nothing catches one
           ELSE /\ machine' = [machine EXCEPT ![r] = [Entered(r) EXCEPT !.depth = depth]]
                /\ frames' = Append(frames, [Frame("render", r, t, uses[t]) EXCEPT !.nested = machine[r].internal])
                /\ UNCHANGED <<wrapper, on, uses, types, dead, raised, broke, status>>

(* Optimizer::optimize renders what it can, in the mode the renderer was left in.  It *)
(* replaces nodes of the template, and their lists: a call that is at work on them,   *)
(* if an exception does not end it, goes on with nodes that are freed.                *)
AtWork(t) == \E f \in ToSet(frames) : f.arg = t

StartOptimize(o, t) ==
    /\ Scripted
    /\ Len(frames) < MaxFrames
    /\ o \in Hand /\ t \in Hand
    /\ LET result == Using(Behind(Behind({o})) \cup Behind({t}), uses[t])
       IN  \/ result # "ok" /\ Fails(result, {})
           \/ result = "ok" /\ AtWork(t) /\ Fails("freed nodes", {"optimized"})
           \/ /\ result = "ok"
              /\ \E known \in SUBSET uses[t] : frames' = Append(frames, Frame("optimize", o, t, known))
              /\ broke' = broke \cup (IF machine[on[o]].mode = "interpreter" THEN {"mixed"} ELSE {})
                                \cup (IF AtWork(t) THEN {"optimized"} ELSE {})
              /\ UNCHANGED <<wrapper, on, uses, types, dead, machine, raised, status>>

FrameUses(f) == Behind({RendererOf(f), f.self, f.arg})

(* Operands are taken from the stack of the machine if that was what ran last. *)
OperandsAreNodes(r) == machine[r].mode = "tree"

(* Any of the four callbacks that the binding registers. *)
CallHost(ty, inLoop) ==
    /\ Engine
    /\ LET f      == Last(frames)
           r      == RendererOf(f)
           result == Using(FrameUses(f), {ty})
       IN  /\ ty \in f.todo
           /\ inLoop => f.op = "render"
           /\ IF result # "ok" THEN Fails(result, {})
              ELSE IF ~OperandsAreNodes(r) THEN Fails("mode", {})
              ELSE IF ty \in dead THEN Fails("freed memory", {})
              ELSE /\ frames' = [frames EXCEPT ![Len(frames)].calling = ty, ![Len(frames)].loop = inLoop,
                                               ![Len(frames)].todo = @ \ {ty}]
                   /\ UNCHANGED <<wrapper, on, uses, types, dead, machine, raised, broke, status>>

Return ==
    /\ status = "ok" /\ Calling
    /\ frames' = [frames EXCEPT ![Len(frames)].calling = 0, ![Len(frames)].loop = FALSE]
    /\ UNCHANGED <<wrapper, on, uses, types, dead, machine, raised, broke, status>>

(* The variable of a loop that an exception left is found among internalDrops, *)
(* and is on a stack frame that is gone.                                       *)
ReadStaleDrop ==
    /\ Engine
    /\ machine[RendererOf(Last(frames))].drops
    /\ Fails("stale drop", {})

(* Mutated: the flag is not reset. *)
LeftInternal(m, nested) == [m EXCEPT !.depth = (@ - 1) % Word]

(* Mutated: the depth is not given back. *)
LeftDeep(m, nested) == [m EXCEPT !.internal = nested]

Left(m, nested) == [m EXCEPT !.depth = (@ - 1) % Word, !.internal = nested]

(* A rendering that ends may have warned. *)
Over(m, nested, warns) == [Left(m, nested) EXCEPT !.warned = @ \cup IF warns THEN {"own"} ELSE {}]

Finish(warns) ==
    /\ Engine
    /\ LET f      == Last(frames)
           result == Using(FrameUses(f), {})
       IN  IF result # "ok" THEN Fails(result, {})
           ELSE /\ frames' = Front(frames)
                /\ machine' = IF f.op = "optimize" THEN machine
                              ELSE [machine EXCEPT ![f.self] = Over(@, f.nested, warns)]
                /\ uses' = IF f.op = "render" THEN uses ELSE [uses EXCEPT ![f.arg] = @ \ f.folds]
                /\ UNCHANGED <<wrapper, on, types, dead, raised, broke, status>>

(* What LiquidCPP::Renderer#warnings lists. *)
Warnings(r) == machine[r].warned

(* A proc raises, or a tag's returns no string, and the script rescues that outside *)
(* of the last n calls: nothing of them is undone.                                  *)
Raise(n) ==
    /\ status = "ok" /\ Calling
    /\ n \in 1..Len(frames)
    /\ LET popped == {frames[k] : k \in (Len(frames) - n + 1)..Len(frames)}
           inLoop == {RendererOf(f) : f \in {g \in popped : g.loop}}
       IN  /\ machine' = [r \in DOMAIN machine |-> [machine[r] EXCEPT !.drops = @ \/ r \in inLoop]]
           /\ raised' = raised \cup {f.self : f \in {g \in popped : g.op = "render"}}
           /\ broke' = broke \cup {"raised"}
    /\ frames' = SubSeq(frames, 1, Len(frames) - n)
    /\ UNCHANGED <<wrapper, on, uses, types, dead, status>>

-----------------------------------------------------------------------------
Init ==
    /\ wrapper = [o \in Objects |-> "unborn"]
    /\ on = [o \in Objects |-> None]
    /\ uses = [o \in Objects |-> {}]
    /\ types = <<>> /\ dead = {}
    /\ machine = [r \in Renderers |-> Idle]
    /\ frames = <<>>
    /\ raised = {} /\ broke = {}
    /\ status = "ok"

Script ==
    \/ NewContext \/ NewParser \/ NewRenderer \/ NewCompiler \/ NewOptimizer
    \/ \E o \in Objects : Drop(o)
    \/ \E c \in Contexts, s \in Symbols, captures \in BOOLEAN : Register(c, s, captures)
    \/ ParseTemplate \/ ParseArgument \/ ParseAppropriate
    \/ \E p \in Parsers, t \in Templates : Unparse(p, t)
    \/ \E r \in Renderers, t \in Templates : StartRender(r, t)
    \/ \E o \in Optimizers, t \in Templates : StartOptimize(o, t)
    \/ \E k \in Compilers, t \in Templates, g \in Programs : Compile(k, t, g)
    \/ \E r \in Renderers, g \in Programs : Run(r, g)
    \/ Return
    \/ \E n \in 1..MaxFrames : Raise(n)

Collector == (\E o \in Objects : Collect(o)) \/ (\E ty \in DOMAIN types : CollectProc(ty))

Next ==
    \/ Script /\ Cardinality(broke') <= MaxBroken
    \/ Collector
    \/ \E ty \in DOMAIN types, inLoop \in BOOLEAN : CallHost(ty, inLoop)
    \/ ReadStaleDrop
    \/ \E warns \in BOOLEAN : Finish(warns)

Spec == Init /\ [][Next]_vars

-----------------------------------------------------------------------------
TypeOK ==
    /\ wrapper \in [Objects -> {"unborn", "held", "loose", "freed"}]
    /\ on \in [Objects -> Objects \cup {None}]
    /\ uses \in [Objects -> SUBSET (1..Len(types))]
    /\ Len(types) <= MaxTypes
    /\ dead \subseteq DOMAIN types
    /\ \A r \in Renderers :
          machine[r] \in [internal: BOOLEAN, depth: 0..(Word - 1), mode: {"tree", "interpreter"},
                          warned: SUBSET {"own", "old"}, drops: BOOLEAN]
    /\ Len(frames) <= MaxFrames
    /\ raised \subseteq Renderers
    /\ broke \subseteq {"letgo", "optimizer", "replaced", "lexed", "compiled", "mixed", "raised",
                        "optimized"}
    /\ status \in {"ok", "freed memory", "freed nodes", "stale type", "no error", "no node", "mode",
                   "aborted", "stale drop"}

(***************************************************************************)
(* Whatever goes wrong has one of eight causes in the script: it let go of *)
(* a context or a renderer before what it had made with it; it registered  *)
(* a symbol anew; it compiled a template with functions of its own; it     *)
(* mixed programs with the trees of one renderer; it parsed an argument    *)
(* that the lexer refuses; it raised through a rendering; it made an       *)
(* optimizer for a renderer that was at work; or it optimized a template   *)
(* that a call was at work on (context.cpp:140).  A script that does none  *)
(* of this is safe, whenever the collector runs and however callbacks nest.*)
(***************************************************************************)
RulesSuffice ==
    /\ status = "freed memory" => "letgo" \in broke
    /\ status = "freed nodes"  => "optimized" \in broke
    /\ status = "stale type"   => "replaced" \in broke
    /\ status = "no node"      => "compiled" \in broke
    /\ status = "mode"         => broke \cap {"mixed", "raised"} # {}
    /\ status = "no error"     => "lexed" \in broke
    /\ status = "stale drop"   => "raised" \in broke
    /\ status = "aborted"      => broke \cap {"raised", "optimizer"} # {}

(***************************************************************************)
(* The proc behind every function of a context that the script holds is    *)
(* never collected, registered anew or not (liquid.c:220, 776).            *)
(***************************************************************************)
ProcsLive == \A ty \in DOMAIN types : types[ty].context \in Held => ty \notin dead

(***************************************************************************)
(* A renderer takes a call for one from inside a rendering exactly when    *)
(* one is under way, unless an exception cut one short: from then on it    *)
(* does for good.                                                          *)
(***************************************************************************)
InternalMeansRendering ==
    \A r \in Renderers \ raised : machine[r].internal <=> Rendering(r) # {}

(***************************************************************************)
(* currentRenderingDepth is the number of renderings under way, unless an  *)
(* exception cut one short or an optimizer was made meanwhile.             *)
(***************************************************************************)
DepthIsRenderings ==
    "optimizer" \notin broke =>
        \A r \in Renderers \ raised : machine[r].depth = Cardinality(Rendering(r))

(***************************************************************************)
(* The warnings a script reads after a rendering are of that rendering,    *)
(* unless an exception cut an earlier one short.                           *)
(***************************************************************************)
WarningsAreOwn == \A r \in Renderers \ raised : "old" \notin Warnings(r)
=============================================================================
