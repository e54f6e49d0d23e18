--------------------------- MODULE LiquidCompiler ---------------------------
(***************************************************************************)
(* The compiler (src/compiler.cpp and the compile functions of             *)
(* src/dialect.cpp) as a function from a parse tree to a program.          *)
(*                                                                         *)
(* A program is a data segment (the pool of strings) and a code segment.   *)
(* Offsets count instructions and pool entries where the code counts       *)
(* bytes, from 0; a jump to offset p goes to code[p + 1].  A jump that is  *)
(* never patched keeps the operand 0 and so goes to the start of the code. *)
(* failed stands for an assertion of the compiler.                         *)
(***************************************************************************)
EXTENDS LiquidTree

(* An instruction: opcode, target register, operand, and the node type an OP_CALL calls. *)
Instruction(op, target, operand, callee) ==
    [op |-> op, t |-> target, x |-> operand, callee |-> callee]

NoCallee == [k |-> "none", sym |-> "", arity |-> 0, value |-> Nil]

(* What OP_CALL is given of a node: its type, and so the arity and a literal's value. *)
CalleeOf(n) == [k |-> n.k, sym |-> n.sym, arity |-> Len(n.c), value |-> Literal(n.sym)]

(* A Compiler as constructed; the drop frames are the only part that compile does not reset. *)
NewCompiler == [code |-> <<>>, data |-> <<>>, pool |-> <<>>, free |-> 0, size |-> 0,
                frames |-> <<>>, failed |-> FALSE]

Add(C, op, t, x) == [C EXCEPT !.code = Append(@, Instruction(op, t, x, NoCallee))]
AddCall(C, t, callee) == [C EXCEPT !.code = Append(@, Instruction("CALL", t, 0, callee))]

(* A mutant: one slot less is popped than is counted. *)
AddPopOneLess(C, n) == [Add(C, "POP", 0, n - 1) EXCEPT !.size = @ - n]

(* addPush and addPop: the only two that count what the code will have on the stack. *)
AddPush(C, t) == [Add(C, "PUSH", t, 0) EXCEPT !.size = @ + 1]
AddPop(C, n)  == [Add(C, "POP", 0, n) EXCEPT !.size = @ - n]

Modify(C, offset, op, t, x) ==
    [C EXCEPT !.code[offset + 1] = Instruction(op, t, x, NoCallee)]

CurrentOffset(C) == Len(C.code)
WithFree(C, n)   == [C EXCEPT !.free = n]
Fail(C)          == [C EXCEPT !.failed = TRUE]

-----------------------------------------------------------------------------
(***************************************************************************)
(* The pool is keyed by a string's hash alone.  hash is h * 33 + c from    *)
(* 5381, in 64 bits; up to the ten characters or so that do not overflow   *)
(* it, its value is represented exactly by its digits in base 33.          *)
(***************************************************************************)
Ascii(c) ==
    CASE IsLower(c) -> 96 + CHOOSE k \in 1..26 : LowerCase[k] = c
      [] IsUpper(c) -> 64 + CHOOSE k \in 1..26 : UpperCase[k] = c
      [] IsDigit(c) -> 48 + DigitValue(c)
      [] c = " " -> 32 [] c = "," -> 44 [] c = "." -> 46 [] c = ":" -> 58 [] c = ";" -> 59
      [] OTHER -> 63

StringHash(s) ==
    LET carry == FoldRight(LAMBDA c, acc : <<(Ascii(c) + acc[1]) \div 33,
                                             <<(Ascii(c) + acc[1]) % 33>> \o acc[2]>>,
                           s, <<0, <<>>>>)
    IN  <<5381 + carry[1]>> \o carry[2]

Pooled(C, s) == {k \in 1..Len(C.pool) : C.pool[k] = StringHash(s)}

(* Compiler::add of a string: a string already pooled under the same hash stands for it. *)
Intern(C, s) ==
    IF Pooled(C, s) # {} THEN C
    ELSE [C EXCEPT !.pool = Append(@, StringHash(s)), !.data = Append(@, s)]

PoolOffset(C, s) == Min(Pooled(C, s)) - 1

AddString(C, op, t, s) == LET d == Intern(C, s) IN Add(d, op, t, PoolOffset(d, s))

-----------------------------------------------------------------------------
(* Drop frames: where on the stack a loop's variables are. *)

AddDropFrame(C, name, kind) ==
    [C EXCEPT !.frames = Append(@, [name |-> name, kind |-> kind, point |-> C.size])]

FramesNamed(C, name) == {k \in 1..Len(C.frames) : C.frames[k].name = name}

(* The "forloop" callback; rindex, rindex0 and length compile to nothing. *)
CompileForLoop(C, n, offset) ==
    LET property == CASE n.k = "dotfilter" -> <<"f", "i", "r", "s", "t">>
                      [] n.k = "variable" /\ Len(n.c) = 2 /\ n.c[2].k = "leaf" -> Text(n.c[2].v)
                      [] OTHER -> <<>>
    IN  CASE property = <<"i", "n", "d", "e", "x">> -> Add(C, "STACK", 0, offset - 1)
          [] property = <<"i", "n", "d", "e", "x", "0">> ->
                 Add(Add(Add(C, "STACK", 0, offset - 1), "MOVINT", 1, 1), "SUB", 1, 0)
          [] property = <<"f", "i", "r", "s", "t">> ->
                 Add(Add(Add(C, "STACK", 1, offset - 1), "MOVINT", 0, 1), "EQL", 1, 0)
          [] property = <<"l", "a", "s", "t">> ->
                 Add(Add(Add(C, "STACK", 1, offset - 1), "STACK", 0, offset - 3), "EQL", 1, 0)
          [] OTHER -> C

(* The callback of the frame pushed last under the variable's name. *)
CompileDrop(C, name, n) ==
    LET frame  == C.frames[Max(FramesNamed(C, name))]
        offset == frame.point - C.size
    IN  CASE frame.kind = "list"    -> Add(C, "STACK", 0, offset - 2)
          [] frame.kind = "range"   -> Add(C, "STACK", 0, offset - 1)
          [] frame.kind = "forloop" -> CompileForLoop(C, n, offset)

-----------------------------------------------------------------------------
RECURSIVE Compile(_, _), CompileEach(_, _), CompileBranches(_, _, _, _, _),
          CompileWhens(_, _, _, _, _), CompileLinks(_, _, _, _), CompileOperands(_, _, _)

(* Compiler::compileBranch on a leaf. *)
CompileLeaf(C, v) ==
    LET D == CASE v.t = "STR" -> AddString(C, "MOVSTR", C.free, v.s)
               [] v.t = "INT" -> Add(C, "MOVINT", C.free, v.n)
               [] v.t = "FLOAT" -> Add(C, "MOVFLOAT", C.free, v.n)
               [] v.t = "NIL" -> Add(C, "MOVNIL", C.free, 0)
               [] OTHER -> Fail(C)
    IN  WithFree(D, C.free + 1)

CompileEach(C, nodes) == FoldLeft(LAMBDA D, n : Compile(D, n), C, nodes)

(* ConcatenationNode::compile: text is written from the pool, and must be a string. *)
CompileConcat(C, n) ==
    FoldLeft(LAMBDA D, child : IF child.k # "leaf" THEN Compile(D, child)
                               ELSE IF IsStr(child.v) THEN AddString(D, "OUTPUTMEM", 0, child.v.s)
                               ELSE Fail(D), C, n.c)

(* ArgumentNode::compile: every argument is pushed from the register below the first free one. *)
CompileArguments(C, n) ==
    FoldLeft(LAMBDA D, child : LET E == Compile(D, child) IN Add(E, "PUSH", E.free - 1, 0), C, n.c)

CompileOutput(C, n) ==
    WithFree(Add(Compile(WithFree(C, 0), n.c[1].c[1]), "OUTPUT", 0, 0), 0)

(* VariableNode::compile: each link is resolved in register 0 against the one before, in 1. *)
CompileLinks(C, links, k, target) ==
    IF k > Len(links) THEN C
    ELSE LET D == Add(Compile(WithFree(C, 0), links[k]), "RESOLVE", 0, target)
         IN  IF k < Len(links) THEN CompileLinks(Add(D, "MOV", 0, 1), links, k + 1, 1) ELSE D

HasFrame(C, n) ==
    n.c # <<>> /\ n.c[1].k = "leaf" /\ IsStr(n.c[1].v) /\ FramesNamed(C, n.c[1].v.s) # {}

CompileVariable(C, n) ==
    IF HasFrame(C, n) THEN CompileDrop(C, n.c[1].v.s, n) ELSE CompileLinks(C, n.c, 1, -1)

(* OperatorNodeType::compile: the last operand is pushed first; no push is counted. *)
CompileOperands(C, nodes, free) ==
    FoldRight(LAMBDA child, D : WithFree(Add(Compile(D, child), "PUSH", free, 0), free), nodes, C)

CompileOperator(C, n) ==
    LET D == CompileOperands(C, n.c, C.free)
    IN  WithFree(AddCall(Add(D, "MOVINT", D.free, Len(n.c)), D.free, CalleeOf(n)), 1)

(***************************************************************************)
(* FilterNodeType::compile: the arguments push themselves, the operand is  *)
(* pushed after them, and what OP_CALL is told to pop is the number of the *)
(* node's children, which is two whatever the number of arguments.         *)
(***************************************************************************)
CompileFilter(C, n) ==
    LET D == Compile(Compile(C, n.c[2]), n.c[1])
        E == Add(D, "PUSH", D.free - 1, 0)
    IN  WithFree(AddCall(Add(E, "MOVINT", E.free, Len(n.c)), E.free, CalleeOf(n)), 1)

(* NodeType::compile: the call is made with whatever register 0 holds for its count. *)
CompileDefault(C, n) ==
    WithFree(AddCall(CompileEach(C, n.c), 0, CalleeOf(n)), 1)

(* FirstDotFilterNode::compile: the first of a loop's variable is that variable's callback. *)
CompileDotFilter(C, n) ==
    IF n.sym = "first" /\ n.c[1].k = "variable" /\ Len(n.c[1].c) = 1 /\ HasFrame(C, n.c[1])
    THEN CompileDrop(C, n.c[1].c[1].v.s, n)
    ELSE CompileDefault(C, n)

-----------------------------------------------------------------------------
(* AssignNode and CaptureNode: the last instruction of the variable becomes the OP_ASSIGN. *)
CompileTarget(C, variable) ==
    LET D == Compile(Add(C, "MOVNIL", 1, 0), variable)
    IN  Modify(D, CurrentOffset(D) - 1, "ASSIGN", 1, 2)

CompileAssign(C, n) ==
    LET assignment == n.c[1].c[1]
    IN  CompileTarget(Add(Compile(C, assignment.c[2]), "MOV", 0, 2), assignment.c[1])

CompileCapture(C, n) ==
    CompileTarget(Add(Compile(Add(C, "PUSHBUFFER", 0, 0), n.c[2]), "POPBUFFER", 2, 0), n.c[1].c[1])

PatchAll(C, jumps, op) ==
    FoldLeft(LAMBDA D, at : Modify(D, at, op, 0, CurrentOffset(C)), C, jumps)

(***************************************************************************)
(* BranchNode::internalCompile: every condition but the else's, inverted   *)
(* for unless, jumps over its body; the bodies jump to the end.            *)
(***************************************************************************)
CompileBranches(C, n, k, inverse, jumps) ==
    IF k > Len(n.c) THEN PatchAll(C, jumps, "JMP")
    ELSE IF n.c[k].sym = "else"
    THEN CompileBranches(Compile(C, n.c[k + 1]), n, k + 2, inverse, jumps)
    ELSE LET condition == IF k = 1 THEN n.c[1].c[1] ELSE n.c[k].c[1].c[1]
             tested == Compile(WithFree(C, 0), condition)
             D    == IF inverse THEN Add(tested, "INVERT", 0, 0) ELSE tested
             E    == Compile(Add(D, "JMPFALSE", 0, 0), n.c[k + 1])
             over == Add(E, "JMP", 0, 0)
             F    == Modify(over, CurrentOffset(D), "JMPFALSE", 0, CurrentOffset(over))
         IN  CompileBranches(F, n, k + 2, inverse, Append(jumps, CurrentOffset(E)))

(***************************************************************************)
(* CaseNode::compile: the jump of a when that does not match is patched by *)
(* the when or else after it, so that of the last one only if an else      *)
(* follows.  last is its offset, -1 when there is none.                    *)
(***************************************************************************)
CompileWhensUnpatched(C, n, k, last, jumps) ==   \* a mutant: no when is patched
    IF k >= Len(n.c) THEN PatchAll(C, jumps, "JMP")
    ELSE LET D == Add(Compile(WithFree(C, 0), n.c[k].c[1].c[1]), "EQL", 1, 0)
             E == Compile(Add(D, "JMPFALSE", 0, 0), n.c[k + 1])
         IN  IF n.c[k].sym = "when"
             THEN CompileWhens(Add(E, "JMP", 0, 0), n, k + 2, CurrentOffset(D),
                               Append(jumps, CurrentOffset(E)))
             ELSE CompileWhens(Compile(C, n.c[k + 1]), n, k + 2, last, jumps)

CompileWhens(C, n, k, last, jumps) ==
    IF k >= Len(n.c) THEN PatchAll(C, jumps, "JMP")
    ELSE LET B == IF last = -1 THEN C ELSE Modify(C, last, "JMPFALSE", 0, CurrentOffset(C))
             D == Add(Compile(WithFree(B, 0), n.c[k].c[1].c[1]), "EQL", 1, 0)
             E == Compile(Add(D, "JMPFALSE", 0, 0), n.c[k + 1])
         IN  IF n.c[k].sym = "when"
             THEN CompileWhens(Add(E, "JMP", 0, 0), n, k + 2, CurrentOffset(D),
                               Append(jumps, CurrentOffset(E)))
             ELSE CompileWhens(Compile(B, n.c[k + 1]), n, k + 2, last, jumps)

CompileCase(C, n) ==
    CompileWhens(WithFree(Add(Compile(C, n.c[1].c[1]), "MOV", 0, 1), 0), n, 3, -1, <<>>)

(***************************************************************************)
(* ForNode::compile over a variable: the list, the current element and a   *)
(* counter are pushed, OP_ITERATE puts each element in register 0.  The    *)
(* drop frames are not cleared at the end, and an else is not compiled.    *)
(***************************************************************************)
CompileListLoop(C, n, sequence, name) ==
    LET C1 == AddPush(Compile(C, sequence), 0)
        C2 == AddPush(Add(C1, "MOVNIL", 0, 0), 0)
        C3 == WithFree(AddPush(Add(C2, "MOVINT", 0, 0), 0), 0)
        C4 == AddDropFrame(AddDropFrame(C3, name, "list"), ForLoopName, "forloop")
        top == CurrentOffset(C4)
        C5 == Add(Add(C4, "STACK", 1, -1), "STACK", 2, -3)
        at == CurrentOffset(C5)
        C6 == Add(Add(Add(C5, "ITERATE", 2, 0), "POP", 0, 2), "PUSH", 0, 0)
        C7 == Add(Add(Add(C6, "MOVINT", 0, 1), "ADD", 1, 0), "PUSH", 1, 0)
        C8 == Add(Compile(C7, n.c[2]), "JMP", 0, top)
    IN  AddPop(Modify(C8, at, "ITERATE", 2, CurrentOffset(C8)), 3)

(***************************************************************************)
(* ForNode::compile over two operands: the bound after the last value and  *)
(* the current value are pushed; the loop ends when the two are equal.     *)
(***************************************************************************)
CompileRangeLoop(C, n, sequence, name) ==
    LET C1 == Add(Add(Compile(C, sequence.c[2]), "MOVINT", 1, 1), "ADD", 1, 0)
        C2 == AddPush(Compile(AddPush(C1, 0), sequence.c[1]), 0)
        C3 == AddDropFrame(C2, name, "range")
        enter == CurrentOffset(C3)
        C4 == Add(Add(Add(Add(C3, "JMP", 0, 0), "STACK", 0, -1), "MOVINT", 1, 1), "ADD", 1, 0)
        C5 == Add(Add(Add(C4, "POP", 1, 1), "PUSH", 0, 0), "STACK", 1, -2)
        C6 == Modify(Add(C5, "EQL", 1, 0), enter, "JMP", 0, CurrentOffset(C5))
        C7 == Add(Compile(Add(C6, "JMPTRUE", 0, 0), n.c[2]), "JMP", 0, enter + 1)
    IN  AddPop(Modify(C7, CurrentOffset(C6), "JMPTRUE", 0, CurrentOffset(C7)), 2)

CompileFor(C, n) ==
    LET group    == n.c[1].c[1].c[2]
        sequence == IF group.k = "group" THEN group.c[1] ELSE group
        name     == n.c[1].c[1].c[1].c[1].v.s
    IN  CASE sequence.k = "variable" -> CompileListLoop(C, n, sequence, name)
          [] sequence.k # "variable" /\ sequence.k # "leaf" /\ Len(sequence.c) = 2 ->
                 CompileRangeLoop(C, n, sequence, name)
          [] OTHER -> Fail(C)

Compile(C, n) ==
    CASE n.k = "leaf"      -> CompileLeaf(C, n.v)
      [] n.k = "concat"    -> CompileConcat(C, n)
      [] n.k = "arguments" -> CompileArguments(C, n)
      [] n.k = "output"    -> CompileOutput(C, n)
      [] n.k = "variable"  -> CompileVariable(C, n)
      [] n.k = "operator"  -> CompileOperator(C, n)
      [] n.k = "filter"    -> CompileFilter(C, n)
      [] n.k = "dotfilter" -> CompileDotFilter(C, n)
      [] n.k \in {"group", "deref"} -> CompileEach(C, n.c)
      [] IsTag(n, "assign")  -> CompileAssign(C, n)
      [] IsTag(n, "capture") -> CompileCapture(C, n)
      [] IsTag(n, "if")      -> CompileBranches(C, n, 1, FALSE, <<>>)
      [] IsTag(n, "unless")  -> CompileBranches(C, n, 1, TRUE, <<>>)
      [] IsTag(n, "case")    -> CompileCase(C, n)
      [] IsTag(n, "for")     -> CompileFor(C, n)
      [] IsTag(n, "comment") \/ IsTag(n, "elsif") -> C
      (* RawNode::compile takes the text of a node that has none. *)
      [] IsTag(n, "raw")     -> Fail(C)
      [] OTHER -> CompileDefault(C, n)

(* Compiler::compile: everything is reset but the drop frames. *)
CompileTemplate(C, n) ==
    LET fresh == [NewCompiler EXCEPT !.frames = C.frames]
    IN  Add(Compile(fresh, n), "EXIT", 0, 0)

ProgramOf(C) == [code |-> C.code, data |-> C.data]
=============================================================================
