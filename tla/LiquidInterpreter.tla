-------------------------- MODULE LiquidInterpreter -------------------------
(***************************************************************************)
(* The virtual machine (src/compiler.h, src/compiler.cpp): one Interpreter *)
(* object that renders programs, one after the other, against the host's   *)
(* store.  A step is one instruction of Interpreter::run; a nested run, by *)
(* which OP_ITERATE has its body executed for each element, is an entry of *)
(* runs.  Four registers, the stack and the buffers belong to the object:  *)
(* a rendering resets the stack and nothing else.                          *)
(*                                                                         *)
(* An assertion that fails makes the status "aborted"; a read of memory    *)
(* that does not hold what is read (a register that was never written, a   *)
(* number taken for a pointer, a slot below the stack) makes it            *)
(* "undefined", where anything may follow and the model stops.  So does an *)
(* assignment into a member of a variable, whose effect on other pointers  *)
(* to it values cannot show, and one of a pointer that is null.            *)
(***************************************************************************)
EXTENDS LiquidFilters

CONSTANTS
    Programs,         \* what the host may have rendered: records of a code and a data segment
    Stores,           \* the stores the host may start with: HASH values
    ShortStringSize,  \* SHORT_STRING_SIZE, 64 in the code: no string in a register is as long
    MaxRenderings     \* bound: how many renderings the host asks for

VARIABLES
    status,      \* "idle", "running", "done", "aborted" or "undefined"
    prog,        \* the program being rendered
    ip,          \* the place in its code, from 1
    reg,         \* registers
    stack,       \* stackBlock up to stackPointer, the top last
    buffers,     \* the texts being captured, the innermost last
    out,         \* what the callback was handed in this rendering
    runs,        \* the nested runs, the innermost last
    store,       \* the host's store
    renderings   \* how many renderings were asked for

vars == <<status, prog, ip, reg, stack, buffers, out, runs, store, renderings>>

Opcodes == {"MOV", "MOVSTR", "MOVINT", "MOVFLOAT", "MOVNIL", "EQL", "ADD", "SUB", "STACK", "PUSH", "POP",
            "JMP", "JMPFALSE", "JMPTRUE", "CALL", "RESOLVE", "ASSIGN", "ITERATE", "INVERT",
            "OUTPUT", "OUTPUTMEM", "PUSHBUFFER", "POPBUFFER", "EXIT"}

(***************************************************************************)
(* What Compiler::compile makes, as far as run relies on it: jumps stay in *)
(* the code, strings in the data, and nothing follows the only OP_EXIT.    *)
(***************************************************************************)
WellFormed(p) ==
    /\ p.code # <<>>
    /\ \A k \in 1..Len(p.code) : LET i == p.code[k] IN
          /\ i.op \in Opcodes
          /\ i.op = "EXIT" <=> k = Len(p.code)
          /\ i.op \in {"JMP", "JMPFALSE", "JMPTRUE", "ITERATE"} => i.x \in 0..(Len(p.code) - 1)
          /\ i.op \in {"MOVSTR", "OUTPUTMEM"} => i.x \in 0..(Len(p.data) - 1)

ASSUME ProgramsAssumption == \A p \in Programs : WellFormed(p)
ASSUME RenderingsAssumption == MaxRenderings \in Nat

(* No program: there is nothing but the end of one. *)
NoProgram == [code |-> <<[op |-> "EXIT", t |-> 0, x |-> 0]>>, data |-> <<>>]

Registers == 0..3

(* A register that was never written, and a NIL whose pointer field holds something else. *)
Wild == Value("WILD", 0, <<>>, <<>>)
StaleNil == Value("NIL", 1, <<>>, <<>>)

(* The pointer field of a register, read whatever its type: null, an object, or neither. *)
NullPointer(r)  == r = NullVar \/ r = Nil \/ (IsNumber(r) /\ r.n = 0)
ObjectPointer(r) == r.t = "VAR" /\ r.a # <<>>

(* The condition of OP_JMPTRUE and OP_JMPFALSE; OP_INVERT takes every pointer for false. *)
Taken(r) ==
    CASE r.t \in {"INT", "FLOAT", "BOOL"} -> r.n # 0
      [] r.t = "STR" -> r.s # <<>>
      [] r.t = "VAR" -> r.a # <<>>
      [] OTHER -> FALSE

FitsRegister(v) == v.t \in {"INT", "FLOAT", "BOOL", "NIL"} \/ (IsStr(v) /\ Len(v.s) < ShortStringSize)

(* Interpreter::pushRegister: the type is written, of a nil nothing else. *)
AsRegister(v) == IF v.t = "NIL" THEN StaleNil ELSE v

-----------------------------------------------------------------------------
(* The frame of a step. *)

instruction == prog.code[ip]
op == instruction.op
target == instruction.t
operand == instruction.x

host == <<prog, renderings>>

Goto(place)   == ip' = place /\ UNCHANGED status
Continue      == Goto(ip + 1)
Stop(outcome) == status' = outcome /\ UNCHANGED ip

SetRegister(r, v) == reg' = [reg EXCEPT ![r] = v]

(* Everything but the status stays as it is. *)
Fails(outcome) ==
    /\ Stop(outcome)
    /\ UNCHANGED <<reg, stack, buffers, out, runs, store, host>>

(* The registers an instruction reads or writes exist, and those it reads hold something. *)
UsesRegisters ==
    CASE op \in {"PUSH", "OUTPUT", "INVERT", "JMPFALSE", "JMPTRUE", "RESOLVE", "ITERATE", "CALL"} -> {target}
      [] op \in {"EQL", "ADD", "SUB"} -> {0, target}
      [] op = "ASSIGN" -> {0, target, operand}
      [] OTHER -> {}

Defined ==
    /\ target \in Registers
    /\ op = "MOV" => operand \in Registers
    /\ op = "RESOLVE" => operand \in {-1} \union Registers
    /\ \A r \in UsesRegisters : r \in Registers /\ (op # "CALL" => reg[r] # Wild)

At(opcodes) == status = "running" /\ op \in opcodes /\ Defined

-----------------------------------------------------------------------------
(* Registers and the stack. *)

(***************************************************************************)
(* The value an instruction writes to its target register, when it does no *)
(* more than that.  The operand of OP_MOVFLOAT is the double, and is put   *)
(* through an integer.                                                     *)
(***************************************************************************)
Loaded ==
    CASE op = "MOVSTR" -> Str(prog.data[operand + 1])
      [] op = "MOVINT" -> Num(operand)
      [] op = "MOVFLOAT" -> Float(8 * ToInt(Float(operand)))
      [] op = "MOVNIL" -> Nil
      [] op = "INVERT" -> Bool(~(reg[target].t # "VAR" /\ Taken(reg[target])))

Load ==
    /\ At({"MOVSTR", "MOVINT", "MOVFLOAT", "MOVNIL", "INVERT"})
    /\ IF FitsRegister(Loaded)
       THEN /\ SetRegister(target, Loaded)
            /\ Continue
            /\ UNCHANGED <<stack, buffers, out, runs, store, host>>
       ELSE Fails("aborted")

Move ==
    /\ At({"MOV"})
    /\ SetRegister(operand, reg[target])
    /\ Continue
    /\ UNCHANGED <<stack, buffers, out, runs, store, host>>

(* OP_EQL, OP_ADD, OP_SUB: register 0 with the target; numbers of other types add nothing. *)
Combined ==
    LET a == reg[0]
        b == reg[target]
    IN  CASE op = "EQL" -> Bool(a.t = b.t /\ (a.t = "NIL" \/ a = b))
          [] op = "ADD" -> IF IsInt(a) /\ IsInt(b) THEN Num(a.n + b.n) ELSE a
          [] op = "SUB" -> IF IsInt(a) /\ IsInt(b) THEN Num(a.n - b.n) ELSE a

Combine ==
    /\ At({"EQL", "ADD", "SUB"})
    /\ SetRegister(0, Combined)
    /\ Continue
    /\ UNCHANGED <<stack, buffers, out, runs, store, host>>

(***************************************************************************)
(* OP_STACK: the slot is counted from the top, -1 the first; the length of *)
(* a string is not taken from the slot.                                    *)
(***************************************************************************)
Slot(k) == stack[Len(stack) + 1 + k]

FetchSlot ==
    /\ At({"STACK"})
    /\ CASE operand >= 0 -> Fails("aborted")
         [] operand < -Len(stack) -> Fails("undefined")
         [] operand \in -Len(stack)..-1 /\ IsStr(Slot(operand)) -> Fails("undefined")
         [] OTHER -> /\ SetRegister(target, AsRegister(Slot(operand)))
                     /\ Continue
                     /\ UNCHANGED <<stack, buffers, out, runs, store, host>>

PushRegister ==
    /\ At({"PUSH"})
    /\ stack' = Append(stack, reg[target])
    /\ Continue
    /\ UNCHANGED <<reg, buffers, out, runs, store, host>>

(* popStack asserts that there is something on the stack, even to pop nothing. *)
Pop ==
    /\ At({"POP"})
    /\ CASE stack = <<>> -> Fails("aborted")
         [] stack # <<>> /\ operand > Len(stack) -> Fails("undefined")
         [] OTHER -> /\ stack' = SubSeq(stack, 1, Len(stack) - operand)
                     /\ Continue
                     /\ UNCHANGED <<reg, buffers, out, runs, store, host>>

-----------------------------------------------------------------------------
(* Control. *)

(* A mutant: targets of jumps counted from 1, as the model's places are. *)
JumpOneAhead ==
    /\ At({"JMP", "JMPFALSE", "JMPTRUE"})
    /\ IF op = "JMP" \/ Taken(reg[target]) = (op = "JMPTRUE") THEN Goto(operand + 2) ELSE Continue
    /\ UNCHANGED <<reg, stack, buffers, out, runs, store, host>>

Jump ==
    /\ At({"JMP", "JMPFALSE", "JMPTRUE"})
    /\ IF op = "JMP" \/ Taken(reg[target]) = (op = "JMPTRUE") THEN Goto(operand + 1) ELSE Continue
    /\ UNCHANGED <<reg, stack, buffers, out, runs, store, host>>

(***************************************************************************)
(* OP_ITERATE.  Met again by the run it started, it ends that run, and the *)
(* resolver goes on with the next element or not at all.  Else the list is *)
(* what the register points to, or the store if it points to nothing; only *)
(* a list has elements.                                                    *)
(***************************************************************************)
Iterated == LET r == reg[target] IN IF NullPointer(r) THEN store ELSE r.a[1]

Resumes == runs # <<>> /\ Last(runs).at = ip

IterateNext ==
    /\ At({"ITERATE"})
    /\ Resumes
    /\ IF Last(runs).rest = <<>>
       THEN /\ runs' = Front(runs)
            /\ Goto(operand + 1)
            /\ UNCHANGED reg
       ELSE /\ runs' = [runs EXCEPT ![Len(runs)].rest = Tail(@)]
            /\ SetRegister(0, Var(Head(Last(runs).rest)))
            /\ Continue
    /\ UNCHANGED <<stack, buffers, out, store, host>>

IterateFirst ==
    /\ At({"ITERATE"})
    /\ ~Resumes
    /\ CASE ~NullPointer(reg[target]) /\ ~ObjectPointer(reg[target]) -> Fails("undefined")
         [] (NullPointer(reg[target]) \/ ObjectPointer(reg[target]))
            /\ (Iterated.t # "LIST" \/ Iterated.a = <<>>) ->
                /\ Goto(operand + 1)
                /\ UNCHANGED <<reg, stack, buffers, out, runs, store, host>>
         [] OTHER ->
                /\ runs' = Append(runs, [at |-> ip, rest |-> Tail(Iterated.a)])
                /\ SetRegister(0, Var(Head(Iterated.a)))
                /\ Continue
                /\ UNCHANGED <<stack, buffers, out, store, host>>

(* OP_EXIT asserts an empty stack; a nested run that exits leaves the code behind it to run. *)
Exit ==
    /\ At({"EXIT"})
    /\ CASE stack # <<>> -> Fails("aborted")
         [] stack = <<>> /\ runs # <<>> -> Fails("undefined")
         [] OTHER -> Fails("done")

-----------------------------------------------------------------------------
(* Calls. *)

(***************************************************************************)
(* What a node type's render finds on the stack: a pointer is the address  *)
(* of its slot, not what the slot holds, and so differs from any other.    *)
(***************************************************************************)
OnStack(k) == IF Slot(-k).t = "VAR" THEN Value("VAR", Len(stack) - k, <<>>, <<Wild>>) ELSE Slot(-k)

Operands(n) == [k \in 1..n |-> OnStack(k)]

(***************************************************************************)
(* NodeType::render called with an empty node.  An operator takes its      *)
(* operands from the top down; a filter its operand from the top and its   *)
(* arguments below; both take what is there.  Other node types than these  *)
(* and literals look at the node they are not given, and so do == and !=,  *)
(* which count its children where a value was never written: they may      *)
(* find none (Stray is when they find some).                      *)
(***************************************************************************)
FilterReads(sym) == 1 + ArgumentsRead(sym)

CallResult(callee) ==
    CASE callee.k = "operator" /\ Len(stack) >= callee.arity ->
             ApplyOperator(callee.sym, Operands(callee.arity))
      [] callee.k = "filter" /\ Len(stack) >= FilterReads(callee.sym)
         /\ \A k \in 1..FilterReads(callee.sym) : OnStack(k).t # "VAR" ->
             ApplyFilter(callee.sym, OnStack(1), Tail(Operands(FilterReads(callee.sym))))
      [] callee.k = "literal" -> callee.value
      [] OTHER -> Undefined

(* What popStack is told: a number, zero for a null pointer, else whatever the register holds. *)
PopCount(r) == IF IsInt(r) THEN r.n ELSE IF NullPointer(r) THEN 0 ELSE -1

Unusual == {"UNDEFINED", "DIVERGES", "BEYOND"}

Returns(result, count) ==
    CASE result.t \in Unusual -> Fails("undefined")
      [] result.t \notin Unusual /\ (~FitsRegister(result) \/ stack = <<>>) ->
             Fails("aborted")
      [] FitsRegister(result) /\ stack # <<>> /\ count \notin 0..Len(stack) ->
             Fails("undefined")
      [] OTHER -> /\ SetRegister(0, AsRegister(result))
                  /\ stack' = SubSeq(stack, 1, Len(stack) - count)
                  /\ Continue
                  /\ UNCHANGED <<buffers, out, runs, store, host>>

Call ==
    /\ At({"CALL"})
    /\ Returns(CallResult(instruction.callee), PopCount(reg[target]))

-----------------------------------------------------------------------------
(* The store. *)

(***************************************************************************)
(* OP_RESOLVE: the key in the target register, looked up in the object the *)
(* operand register points to; in the store for -1, and also for a null    *)
(* pointer.  A key that is not found leaves a null pointer.                *)
(***************************************************************************)
Resolve ==
    /\ At({"RESOLVE"})
    /\ LET base  == IF operand = -1 \/ NullPointer(reg[operand]) THEN store ELSE reg[operand].a[1]
           found == Get(base, reg[target])
           v     == ParseVariant(found[1])
       IN  CASE operand # -1 /\ ~NullPointer(reg[operand]) /\ ~ObjectPointer(reg[operand]) ->
                    Fails("undefined")
             [] (operand = -1 \/ NullPointer(reg[operand]) \/ ObjectPointer(reg[operand]))
                /\ \/ reg[target].t \notin {"INT", "STR"}
                   \/ found # Nothing /\ v.t # "VAR" /\ ~FitsRegister(v) ->
                    Fails("aborted")
             [] OTHER -> /\ SetRegister(target, IF found = Nothing THEN NullVar
                                                ELSE IF v.t = "VAR" THEN v ELSE AsRegister(v))
                         /\ Continue
                         /\ UNCHANGED <<stack, buffers, out, runs, store, host>>

(***************************************************************************)
(* OP_ASSIGN: the key in register 0, the value in the operand's, of which  *)
(* a pointer is not cloned.  What the key held is freed: a list or hash    *)
(* freed while a list is iterated may be the one.                          *)
(***************************************************************************)
FreesIterated(key) ==
    runs # <<>> /\ LET old == Get(store, key) IN old # Nothing /\ old[1].t \in {"LIST", "HASH"}

Assign ==
    /\ At({"ASSIGN"})
    /\ LET v == reg[operand]
       IN  CASE ~NullPointer(reg[target]) \/ v.t = "VAR" \/ FreesIterated(reg[0]) -> Fails("undefined")
             [] NullPointer(reg[target]) /\ v.t # "VAR" /\ ~FreesIterated(reg[0])
                /\ reg[0].t \notin {"INT", "STR"} ->
                    Fails("aborted")
             [] OTHER -> /\ store' = SetAt(store, reg[0], IF v.t = "NIL" THEN Nil ELSE Inject(v))
                         /\ Continue
                         /\ UNCHANGED <<reg, stack, buffers, out, runs, host>>

-----------------------------------------------------------------------------
(* Output and capture. *)

(* A mutant: text goes to the callback while a capture is open. *)
EmitPastBuffers(text) == out' = out \o text /\ UNCHANGED buffers

Emit(text) ==
    IF buffers = <<>> THEN out' = out \o text /\ UNCHANGED buffers
    ELSE buffers' = [buffers EXCEPT ![Len(buffers)] = @ \o text] /\ UNCHANGED out

Output ==
    /\ At({"OUTPUT", "OUTPUTMEM"})
    /\ Emit(IF op = "OUTPUT" THEN NodeText(reg[target]) ELSE prog.data[operand + 1])
    /\ Continue
    /\ UNCHANGED <<reg, stack, runs, store, host>>

PushBuffer ==
    /\ At({"PUSHBUFFER"})
    /\ buffers' = Append(buffers, <<>>)
    /\ Continue
    /\ UNCHANGED <<reg, stack, out, runs, store, host>>

PopBuffer ==
    /\ At({"POPBUFFER"})
    /\ CASE buffers = <<>> -> Fails("undefined")
         [] buffers # <<>> /\ Len(Last(buffers)) >= ShortStringSize -> Fails("aborted")
         [] OTHER -> /\ SetRegister(target, Str(Last(buffers)))
                     /\ buffers' = Front(buffers)
                     /\ Continue
                     /\ UNCHANGED <<stack, out, runs, store, host>>

(***************************************************************************)
(* A register that does not exist, or is read before it was ever written;  *)
(* and the children that == and != may find on the node they are given     *)
(* (dialect.cpp:862).                                                      *)
(***************************************************************************)
Stray ==
    /\ status = "running"
    /\ ~Defined \/ (op = "CALL" /\ instruction.callee.sym \in {"==", "!="})
    /\ Fails("undefined")

-----------------------------------------------------------------------------
Init ==
    /\ status = "idle"
    /\ prog = NoProgram
    /\ ip = 1
    /\ reg = [r \in Registers |-> Wild]
    /\ stack = <<>>
    /\ buffers = <<>>
    /\ out = <<>>
    /\ runs = <<>>
    /\ store \in Stores
    /\ renderings = 0

(* Interpreter::renderTemplate: the host has a program rendered against its store. *)
RenderTemplate(p) ==
    /\ status \in {"idle", "done"}
    /\ renderings < MaxRenderings
    /\ status' = "running"
    /\ prog' = p
    /\ ip' = 1
    /\ stack' = <<>>
    /\ out' = <<>>
    /\ runs' = <<>>
    /\ renderings' = renderings + 1
    /\ UNCHANGED <<reg, buffers, store>>

Run ==
    \/ Load \/ Move \/ Combine \/ FetchSlot \/ PushRegister \/ Pop
    \/ Jump \/ IterateNext \/ IterateFirst \/ Exit
    \/ Call \/ Resolve \/ Assign
    \/ Output \/ PushBuffer \/ PopBuffer \/ Stray

Next == Run \/ \E p \in Programs : RenderTemplate(p)

-----------------------------------------------------------------------------
(***************************************************************************)
(* The machine never runs off its code: whatever jumps it takes and        *)
(* however runs nest, the next instruction is one of the program's, and    *)
(* every nested run goes back to an OP_ITERATE of it.                      *)
(***************************************************************************)
TypeOK ==
    /\ status \in {"idle", "running", "done", "aborted", "undefined"}
    /\ renderings \in 0..MaxRenderings
    /\ WellFormed(prog)
    /\ ip \in 1..Len(prog.code)
    /\ runs \in Seq({runs[k] : k \in DOMAIN runs})
    /\ \A k \in DOMAIN runs :
          runs[k].at \in 1..Len(prog.code) /\ prog.code[runs[k].at].op = "ITERATE"

(* A rendering that was started is carried on; the host may stop asking for one. *)
Spec == Init /\ [][Next]_vars /\ WF_vars(Run)
=============================================================================
