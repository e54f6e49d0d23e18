---------------------- MODULE LiquidInterpreter_proofs ----------------------
(***************************************************************************)
(* The machine never runs off its code, for every set of well formed       *)
(* programs, every store and every string limit.                           *)
(***************************************************************************)
EXTENDS LiquidInterpreter, TLAPS

(* An instruction that is not the last of a program is followed by another. *)
LEMMA NotLastThenNext ==
    ASSUME NEW p, WellFormed(p), NEW k \in 1..Len(p.code), p.code[k].op # "EXIT"
    PROVE  k + 1 \in 1..Len(p.code)
BY DEF WellFormed

(* A jump leads to an instruction of the program. *)
LEMMA JumpsStay ==
    ASSUME NEW p, WellFormed(p), NEW k \in 1..Len(p.code),
           p.code[k].op \in {"JMP", "JMPFALSE", "JMPTRUE", "ITERATE"}
    PROVE  p.code[k].x + 1 \in 1..Len(p.code)
BY DEF WellFormed

LEMMA NoProgramWellFormed == WellFormed(NoProgram) /\ Len(NoProgram.code) = 1
BY DEF WellFormed, NoProgram, Opcodes

(***************************************************************************)
(* A step that stays, goes on or jumps keeps the place in the code.        *)
(***************************************************************************)
LEMMA PlaceKept ==
    ASSUME TypeOK,
           \/ UNCHANGED ip
           \/ ip' = ip + 1 /\ op # "EXIT"
           \/ ip' = operand + 1 /\ op \in {"JMP", "JMPFALSE", "JMPTRUE", "ITERATE"}
    PROVE  ip' \in 1..Len(prog.code)
<1>1. CASE UNCHANGED ip
  BY <1>1 DEF TypeOK
<1>2. CASE ip' = ip + 1 /\ op # "EXIT"
  BY <1>2, NotLastThenNext DEF TypeOK, op, instruction
<1>3. CASE ip' = operand + 1 /\ op \in {"JMP", "JMPFALSE", "JMPTRUE", "ITERATE"}
  BY <1>3, JumpsStay DEF TypeOK, op, operand, instruction
<1> QED BY <1>1, <1>2, <1>3

(* What is left to show of a step that does not touch the nested runs. *)
LEMMA RunsUntouched ==
    ASSUME TypeOK, UNCHANGED <<runs, prog, renderings>>,
           ip' \in 1..Len(prog.code),
           status' \in {"idle", "running", "done", "aborted", "undefined"}
    PROVE  TypeOK'
BY DEF TypeOK, WellFormed, Opcodes

(* A step that stops the machine stays where it is. *)
LEMMA FailsKeeps ==
    ASSUME TypeOK, NEW o \in {"done", "aborted", "undefined"}, Fails(o)
    PROVE  TypeOK'
<1>1. UNCHANGED <<runs, prog, renderings, ip>> /\ status' = o
  BY DEF Fails, Stop, host
<1>2. ip' \in 1..Len(prog.code)
  BY <1>1 DEF TypeOK
<1> QED BY <1>1, <1>2, RunsUntouched

(* A step that goes on to the next instruction, and is not an OP_EXIT. *)
LEMMA ContinueKeeps ==
    ASSUME TypeOK, status = "running", op # "EXIT", Continue, UNCHANGED <<runs, prog, renderings>>
    PROVE  TypeOK'
<1>1. ip' = ip + 1 /\ status' = "running"
  BY DEF Continue, Goto
<1>2. ip' \in 1..Len(prog.code)
  BY <1>1, PlaceKept
<1> QED BY <1>1, <1>2, RunsUntouched

(* A step that jumps to its operand. *)
LEMMA GotoKeeps ==
    ASSUME TypeOK, status = "running", op \in {"JMP", "JMPFALSE", "JMPTRUE", "ITERATE"},
           Goto(operand + 1), UNCHANGED <<runs, prog, renderings>>
    PROVE  TypeOK'
<1>1. ip' = operand + 1 /\ status' = "running"
  BY DEF Goto
<1>2. ip' \in 1..Len(prog.code)
  BY <1>1, PlaceKept
<1> QED BY <1>1, <1>2, RunsUntouched

(* A function on the positions up to a length is a sequence of its own values. *)
LEMMA SequenceOfItsValues ==
    ASSUME NEW s, NEW n \in Nat, s = [k \in 1..n |-> s[k]]
    PROVE  s \in Seq({s[k] : k \in DOMAIN s})
<1> DEFINE T == {s[k] : k \in DOMAIN s}
<1>1. DOMAIN s = 1..n
  OBVIOUS
<1>2. \A k \in 1..n : s[k] \in T
  BY <1>1
<1> HIDE DEF T
<1>3. [k \in 1..n |-> s[k]] \in [1..n -> T]
  BY <1>2
<1>4. s \in [1..n -> T]
  BY <1>3
<1>5. s \in Seq(T)
  BY <1>4
<1> QED BY <1>5 DEF T

LEMMA IterateNextKeeps == ASSUME TypeOK, IterateNext PROVE TypeOK'
<1> USE DEF At
<1>1. status = "running" /\ op = "ITERATE" /\ runs # <<>> /\ UNCHANGED <<prog, renderings>>
  BY DEF IterateNext, Resumes, host
<1> DEFINE S == {runs[k] : k \in DOMAIN runs}
<1>2. runs \in Seq(S) /\ Len(runs) \in 1..Len(runs) /\ DOMAIN runs = 1..Len(runs)
  BY <1>1 DEF TypeOK
<1>3. CASE Last(runs).rest = <<>>
  <2>1. runs' = Front(runs) /\ ip' = operand + 1 /\ status' = "running"
    BY <1>1, <1>3 DEF IterateNext, Goto
  <2>2. ip' \in 1..Len(prog.code)
    BY <1>1, <2>1, PlaceKept
  <2>3. DOMAIN runs' = 1..(Len(runs) - 1) /\ \A k \in DOMAIN runs' : runs'[k] = runs[k]
    BY <1>2, <2>1 DEF Front
  <2>4. runs' \in Seq({runs'[k] : k \in DOMAIN runs'})
    <3>1. Len(runs) - 1 \in Nat
      BY <1>2
    <3>2. runs' = [k \in 1..(Len(runs) - 1) |-> runs'[k]]
      BY <1>2, <2>1, <2>3 DEF Front
    <3> QED BY <3>1, <3>2, SequenceOfItsValues
  <2>5. \A k \in DOMAIN runs' :
           runs'[k].at \in 1..Len(prog.code) /\ prog.code[runs'[k].at].op = "ITERATE"
    BY <1>2, <2>3 DEF TypeOK
  <2> QED BY <1>1, <2>1, <2>2, <2>4, <2>5 DEF TypeOK, WellFormed, Opcodes
<1>4. CASE Last(runs).rest # <<>>
  <2>1. /\ runs' = [runs EXCEPT ![Len(runs)].rest = Tail(@)]
        /\ ip' = ip + 1 /\ status' = "running"
    BY <1>1, <1>4 DEF IterateNext, Goto, Continue
  <2>2. ip' \in 1..Len(prog.code)
    BY <1>1, <2>1, PlaceKept
  <2>3. DOMAIN runs' = 1..Len(runs) /\ \A k \in DOMAIN runs' : runs'[k].at = runs[k].at
    BY <1>2, <2>1
  <2>4. runs' \in Seq({runs'[k] : k \in DOMAIN runs'})
    <3>1. Len(runs) \in Nat
      BY <1>2
    <3>2. runs' = [k \in 1..Len(runs) |-> runs'[k]]
      BY <1>2, <2>1, <2>3
    <3> QED BY <3>1, <3>2, SequenceOfItsValues
  <2>5. \A k \in DOMAIN runs' :
           runs'[k].at \in 1..Len(prog.code) /\ prog.code[runs'[k].at].op = "ITERATE"
    BY <1>2, <2>3 DEF TypeOK
  <2> QED BY <1>1, <2>1, <2>2, <2>4, <2>5 DEF TypeOK, WellFormed, Opcodes
<1> QED BY <1>3, <1>4

LEMMA IterateFirstKeeps == ASSUME TypeOK, IterateFirst PROVE TypeOK'
<1> USE DEF At
<1>1. status = "running" /\ op = "ITERATE"
  BY DEF IterateFirst
<1>2. \/ Fails("undefined")
      \/ Goto(operand + 1) /\ UNCHANGED <<runs, prog, renderings>>
      \/ /\ runs' = Append(runs, [at |-> ip, rest |-> Tail(Iterated.a)])
         /\ Continue
         /\ UNCHANGED <<prog, renderings>>
  BY DEF IterateFirst, host
<1>3. CASE Fails("undefined")
  BY <1>3, FailsKeeps
<1>4. CASE Goto(operand + 1) /\ UNCHANGED <<runs, prog, renderings>>
  BY <1>1, <1>4, GotoKeeps
<1>5. CASE /\ runs' = Append(runs, [at |-> ip, rest |-> Tail(Iterated.a)])
           /\ Continue
           /\ UNCHANGED <<prog, renderings>>
  <2> DEFINE new == [at |-> ip, rest |-> Tail(Iterated.a)]
             S   == {runs[k] : k \in DOMAIN runs}
  <2>1. runs \in Seq(S \union {new}) /\ runs' = Append(runs, new)
    BY <1>5 DEF TypeOK
  <2> HIDE DEF new
  <2>2. /\ DOMAIN runs' = 1..(Len(runs) + 1) /\ DOMAIN runs = 1..Len(runs)
        /\ \A k \in DOMAIN runs : runs'[k] = runs[k]
        /\ runs'[Len(runs) + 1] = new
    BY <2>1
  <2>3. runs' \in Seq({runs'[k] : k \in DOMAIN runs'})
    BY <2>1, <2>2
  <2>4. new.at = ip
    BY DEF new
  <2>5. ip \in 1..Len(prog.code) /\ prog.code[ip].op = "ITERATE"
    BY <1>1 DEF TypeOK, op, instruction
  <2>6. \A k \in DOMAIN runs' :
           runs'[k].at \in 1..Len(prog.code) /\ prog.code[runs'[k].at].op = "ITERATE"
    BY <2>2, <2>4, <2>5 DEF TypeOK
  <2>7. ip' = ip + 1 /\ status' = "running"
    BY <1>1, <1>5 DEF Continue, Goto
  <2>8. ip' \in 1..Len(prog.code)
    BY <1>1, <2>7, PlaceKept
  <2> QED BY <1>5, <2>3, <2>6, <2>7, <2>8 DEF TypeOK, WellFormed, Opcodes
<1> QED BY <1>2, <1>3, <1>4, <1>5

(* One step of the machine, whatever it is. *)
LEMMA RunKeeps == ASSUME TypeOK, Run PROVE TypeOK'
<1> USE DEF At, host
<1>1. CASE Load
  BY <1>1, FailsKeeps, ContinueKeeps DEF Load
<1>2. CASE Move
  BY <1>2, ContinueKeeps DEF Move
<1>3. CASE Combine
  BY <1>3, ContinueKeeps DEF Combine
<1>4. CASE FetchSlot
  BY <1>4, FailsKeeps, ContinueKeeps DEF FetchSlot
<1>5. CASE PushRegister
  BY <1>5, ContinueKeeps DEF PushRegister
<1>6. CASE Pop
  BY <1>6, FailsKeeps, ContinueKeeps DEF Pop
<1>7. CASE Jump
  BY <1>7, ContinueKeeps, GotoKeeps DEF Jump
<1>8. CASE IterateNext
  BY <1>8, IterateNextKeeps
<1>9. CASE IterateFirst
  BY <1>9, IterateFirstKeeps
<1>10. CASE Exit
  BY <1>10, FailsKeeps DEF Exit
<1>11. CASE Call
  BY <1>11, FailsKeeps, ContinueKeeps DEF Call, Returns
<1>12. CASE Resolve
  BY <1>12, FailsKeeps, ContinueKeeps DEF Resolve
<1>13. CASE Assign
  BY <1>13, FailsKeeps, ContinueKeeps DEF Assign
<1>14. CASE Output
  BY <1>14, ContinueKeeps DEF Output
<1>15. CASE PushBuffer
  BY <1>15, ContinueKeeps DEF PushBuffer
<1>16. CASE PopBuffer
  BY <1>16, FailsKeeps, ContinueKeeps DEF PopBuffer
<1>17. CASE Stray
  BY <1>17, FailsKeeps DEF Stray
<1> QED BY <1>1, <1>2, <1>3, <1>4, <1>5, <1>6, <1>7, <1>8, <1>9, <1>10, <1>11, <1>12,
           <1>13, <1>14, <1>15, <1>16, <1>17 DEF Run

LEMMA RenderTemplateKeeps ==
    ASSUME TypeOK, NEW p \in Programs, RenderTemplate(p) PROVE TypeOK'
<1>1. WellFormed(p)
  BY ProgramsAssumption
<1>2. 1 \in 1..Len(p.code)
  BY <1>1 DEF WellFormed
<1>3. prog' = p /\ ip' = 1 /\ runs' = <<>> /\ status' = "running" /\ renderings' \in 0..MaxRenderings
  BY RenderingsAssumption DEF RenderTemplate, TypeOK
<1> QED BY <1>1, <1>2, <1>3 DEF TypeOK, WellFormed, Opcodes

(***************************************************************************)
(* The machine stays in its code (Interpreter::run, compiler.cpp:534):     *)
(* every place it comes to is one of the program's, and every nested run   *)
(* goes back to an OP_ITERATE, for all programs a compiler may make.       *)
(***************************************************************************)
THEOREM StaysInCode == Spec => []TypeOK
<1>1. Init => TypeOK
  <2> SUFFICES ASSUME Init PROVE TypeOK
    OBVIOUS
  <2>1. WellFormed(prog) /\ ip \in 1..Len(prog.code)
    BY NoProgramWellFormed DEF Init
  <2> QED BY <2>1, RenderingsAssumption DEF Init, TypeOK
<1>2. TypeOK /\ [Next]_vars => TypeOK'
  <2> SUFFICES ASSUME TypeOK, [Next]_vars PROVE TypeOK'
    OBVIOUS
  <2>1. CASE Run
    BY <2>1, RunKeeps
  <2>2. CASE \E p \in Programs : RenderTemplate(p)
    BY <2>2, RenderTemplateKeeps
  <2>3. CASE UNCHANGED vars
    BY <2>3 DEF vars, TypeOK, WellFormed, Opcodes
  <2> QED BY <2>1, <2>2, <2>3 DEF Next
<1> QED BY <1>1, <1>2, PTL DEF Spec
=============================================================================
