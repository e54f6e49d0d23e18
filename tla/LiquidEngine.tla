---------------------------- MODULE LiquidEngine ----------------------------
(***************************************************************************)
(* The pieces put together as a host does (src/interface.cpp, t/01sanity): *)
(* one store, one Compiler and one Interpreter serve one request after the *)
(* other.  A request parses a template, may optimize the tree in place,    *)
(* and renders it with the tree renderer, or compiles it and has the       *)
(* machine run the program.  The compiler's drop frames and the machine's  *)
(* registers and buffers are what one request leaves to the next.          *)
(***************************************************************************)
EXTENDS LiquidOptimizer, LiquidCompiler, LiquidInterpreter

CONSTANTS
    Templates,    \* the trees of the templates the host may ask for
    Sound         \* those among them that the machine is expected to render

VARIABLES
    request,     \* the template asked for and the store it was asked with; none when there is none
    answer,      \* the text of the last request
    tree,        \* its tree, as parsed or as optimized
    optimized,   \* whether it was optimized
    frames       \* the drop frames the Compiler still has

engine == <<request, answer, tree, optimized, frames>>
allvars == <<vars, engine>>

machine == <<status, prog, ip, reg, stack, buffers, out, runs, renderings>>

-----------------------------------------------------------------------------
(***************************************************************************)
(* Three conditions a host has to keep for the answers to be right.  The   *)
(* optimizer takes every variable for what the store has under its name,   *)
(* bound by the template or not (context.cpp:13).  It renders a case after *)
(* its whens were replaced by their values, and so takes the first         *)
(* (dialect.cpp:343).  And text that is not part of a concatenation, as it *)
(* is when the optimizer has folded a whole body, is compiled to a value   *)
(* that nobody writes (compiler.cpp:164).                                  *)
(***************************************************************************)
RECURSIVE Binds(_), HasCase(_), LosesText(_)

VariableName(n) == IF n.k = "variable" THEN {Text(n.c[1].v)} ELSE {}

Binds(n) ==
    (CASE IsTag(n, "assign") \/ IsTag(n, "for") -> VariableName(n.c[1].c[1].c[1])
       [] IsTag(n, "capture") -> VariableName(n.c[1].c[1])
       [] OTHER -> {})
    \union UNION {Binds(n.c[k]) : k \in 1..Len(n.c)}

HasCase(n) == IsTag(n, "case") \/ \E k \in 1..Len(n.c) : HasCase(n.c[k])

Optimizable(n, s) == ~HasCase(n) /\ \A name \in Binds(n) : GetDictionary(s, name) = Nothing

LosesText(n) ==
    \/ \E k \in 2..Len(n.c) : n.k = "tag" /\ IsLeaf(n.c[k])
    \/ \E k \in 1..Len(n.c) : LosesText(n.c[k])

Compilable(n) == ~IsLeaf(n) /\ ~LosesText(n)

-----------------------------------------------------------------------------
EngineInit ==
    /\ Init
    /\ request = <<>>
    /\ answer = <<>>
    /\ tree = Leaf(Nil)
    /\ optimized = FALSE
    /\ frames = <<>>

Ask(t, s) ==
    /\ request = <<>>
    /\ request' = <<[template |-> t, store |-> s]>>
    /\ store' = s
    /\ answer' = <<>>
    /\ tree' = t
    /\ optimized' = FALSE
    /\ UNCHANGED <<machine, frames>>

Replaced(r) == tree' = r.n /\ store' = r.e.store

OptimizeTemplate ==
    /\ request # <<>>
    /\ status = "idle"
    /\ ~optimized
    /\ Optimizable(tree, store)
    /\ Replaced(OptimizeTree(tree, store))
    /\ optimized' = TRUE
    /\ UNCHANGED <<machine, request, answer, frames>>

Answered(r) == answer' = <<Text(r.v)>> /\ store' = r.e.store

RenderByTree ==
    /\ request # <<>>
    /\ status = "idle"
    /\ Answered(RenderTree(tree, store))
    /\ request' = <<>>
    /\ UNCHANGED <<machine, tree, optimized, frames>>

Started(C) == ~C.failed /\ frames' = C.frames /\ RenderTemplate(ProgramOf(C))

CompileAndRun ==
    /\ request # <<>>
    /\ status = "idle"
    /\ Compilable(tree)
    /\ Started(CompileTemplate([NewCompiler EXCEPT !.frames = frames], tree))
    /\ UNCHANGED <<request, answer, tree, optimized>>

MachineStep == Run /\ UNCHANGED engine

MachineDone ==
    /\ status = "done"
    /\ status' = "idle"
    /\ prog' = NoProgram
    /\ ip' = 1
    /\ out' = <<>>
    /\ answer' = <<out>>
    /\ request' = <<>>
    /\ UNCHANGED <<reg, stack, buffers, runs, store, renderings>>
    /\ UNCHANGED <<tree, optimized, frames>>

Serve == OptimizeTemplate \/ RenderByTree \/ CompileAndRun \/ MachineStep \/ MachineDone

EngineNext == Serve \/ \E t \in Templates, s \in Stores \union {store} : Ask(t, s)

-----------------------------------------------------------------------------
(***************************************************************************)
(* A template of the Sound ones makes no assertion of the machine fail,    *)
(* and it reads nothing that was not written: stack, registers and buffers *)
(* are where the compiled code expects them, whatever was rendered before. *)
(***************************************************************************)
NeverGoesWrong ==
    request # <<>> /\ request[1].template \in Sound => status \notin {"aborted", "undefined"}

(* The assertions of Interpreter::run hold (compiler.cpp:428, 884). *)
AssertionsHold == status # "aborted"

(***************************************************************************)
(* What the callback was handed is never to be taken back: at any point of *)
(* a program it is the beginning of what the tree renderer answers for the *)
(* template as it was parsed and the store as it was then.                 *)
(***************************************************************************)
OutputIsPrefix ==
    status \in {"running", "done"} =>
        IsPrefix(out, Rendered(request[1].template, request[1].store))

(***************************************************************************)
(* The machine and the optimizer, alone and together, are a template       *)
(* engine whose answers are those of the tree renderer: nothing that a     *)
(* request leaves in the compiler or the machine shows in the next one,    *)
(* and the store is what it would be.                                      *)
(***************************************************************************)
Promise == INSTANCE TemplateEngine WITH
    Reply   <- Rendered,
    Effect  <- StoreAfter,
    store   <- IF request = <<>> THEN store ELSE request[1].store,
    request <- IF request = <<>> THEN <<>> ELSE <<request[1].template>>,
    answer  <- answer

ImplementsTemplateEngine == Promise!Safety

(***************************************************************************)
(* Every program that was started comes to its end, and is answered if it  *)
(* did not stop before: loops run out, jumps lead on, calls return.        *)
(***************************************************************************)
ProgramsEnd == status = "running" ~> (answer # <<>> \/ status \in {"aborted", "undefined"})

(* A program that was started is run on; the host may leave a request, or stop asking. *)
EngineSpec ==
    EngineInit /\ [][EngineNext]_allvars /\ WF_allvars(MachineStep) /\ WF_allvars(MachineDone)
=============================================================================
