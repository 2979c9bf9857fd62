------------------------------- MODULE MCCore -------------------------------
(***************************************************************************)
(* Instances of Core for TLC.  A run executes every program that strings   *)
(* together instructions of a small alphabet, followed by a jump back to   *)
(* the start so that the predictors are trained and then used.             *)
(***************************************************************************)
EXTENDS Core, SequencesExt

----------------------------------------------------------------------------
(* An assembler.                                                           *)
I0 == [Illegal EXCEPT !.len = 2]
ADDI(rd, rs1, imm)    == [I0 EXCEPT !.op = "alu", !.fn = "ri", !.rd = rd, !.rs1 = rs1, !.imm = imm]
ADD(rd, rs1, rs2)     == [I0 EXCEPT !.op = "alu", !.fn = "rr", !.rd = rd, !.rs1 = rs1, !.rs2 = rs2]
AUIPC(rd, imm)        == [I0 EXCEPT !.op = "alu", !.fn = "pc", !.rd = rd, !.imm = imm]
LOAD(fn, rd, rs1, imm) == [I0 EXCEPT !.op = "load", !.fn = fn, !.rd = rd, !.rs1 = rs1, !.imm = imm]
STORE(fn, rs2, rs1, imm) == [I0 EXCEPT !.op = "store", !.fn = fn, !.rs2 = rs2, !.rs1 = rs1, !.imm = imm]
BR(fn, rs1, rs2, imm) == [I0 EXCEPT !.op = "branch", !.fn = fn, !.rs1 = rs1, !.rs2 = rs2, !.imm = imm]
JAL(rd, imm)          == [I0 EXCEPT !.op = "jal", !.rd = rd, !.imm = imm]
JALR(rd, rs1, imm)    == [I0 EXCEPT !.op = "jalr", !.rd = rd, !.rs1 = rs1, !.imm = imm]
LR(rd, rs1)           == [I0 EXCEPT !.op = "lr", !.rd = rd, !.rs1 = rs1]
SC(rd, rs2, rs1)      == [I0 EXCEPT !.op = "sc", !.rd = rd, !.rs2 = rs2, !.rs1 = rs1]
AMO(fn, rd, rs2, rs1) == [I0 EXCEPT !.op = "amo", !.fn = fn, !.rd = rd, !.rs2 = rs2, !.rs1 = rs1]
MD(fn, rd, rs1, rs2)  == [I0 EXCEPT !.op = "md", !.fn = fn, !.rd = rd, !.rs1 = rs1, !.rs2 = rs2]
CSR(fn, rd, name, rs1) == [I0 EXCEPT !.op = "csr", !.fn = fn, !.csr = name, !.rd = rd, !.rs1 = rs1]
SYS(name)             == [I0 EXCEPT !.op = name]
C(instr)              == [instr EXCEPT !.len = 1]       \* its compressed form

\* Lay a sequence of instructions out in an image from lane "from".
Place(img, s, from) ==
    FoldLeft(LAMBDA acc, ins : [img |-> [acc.img EXCEPT ![acc.at] = ins], at |-> acc.at + ins.len],
             [img |-> img, at |-> from], s).img
Blank == [a \in Word |-> Illegal]
Image(s, handler) == Place(Place(Blank, handler, MTVEC), s, 0)

\* All programs of n instructions of an alphabet, closed by a jump to lane 0.
Size(s) == FoldLeft(LAMBDA acc, ins : acc + ins.len, 0, s)
Loop(s) == Append(s, JAL(0, (XL - Size(s)) % XL))
Strings(alphabet, n) == [1 .. n -> alphabet]

Quiet == [irq |-> FALSE, haltreq |-> FALSE, resumereq |-> FALSE,
          ar |-> [valid |-> FALSE, write |-> FALSE, csr |-> FALSE, regno |-> 0, wdata |-> 0]]
XorIndex(p, g) == (p + g) % 2       \* one-bit exclusive or
ZeroIndex(p, g) == 0
OneMem == {[a \in 0 .. MemLanes - 1 |-> (a + 1) % LaneBase]}

----------------------------------------------------------------------------
(* Run "pipeline", first part: forwarding into every kind of consumer,     *)
(* across loads, two-beat accesses, atomics and the multiplier.            *)
DataOps ==
    {ADDI(1, 1, 1), ADD(2, 1, 2), C(ADD(1, 2, 1)),
     LOAD("w", 1, 2, 0), LOAD("w", 2, 0, 1), LOAD("h", 1, 1, 3),
     STORE("w", 1, 2, 1), STORE("h", 2, 1, 0),
     MD("mul", 2, 1, 2), MD("div", 1, 2, 1),
     LR(1, 2), SC(2, 1, 0), AMO("add", 1, 1, 2)}

\* The W stage needs a second beat for this instruction at some address.
TwoBeat(ins) == ins.op = "amo" \/ (ins.op \in {"load", "store"} /\ ins.fn = "w")
\* A multiply or divide does not directly follow a two-beat access it uses.
MdNotBehindTwoBeat(s) ==
    \A k \in 2 .. Len(s) :
        s[k].op = "md" /\ TwoBeat(s[k - 1]) => s[k - 1].rd \notin {s[k].rs1, s[k].rs2} \ {0}
DataPrograms ==
    {Image(Loop(s), <<>>) : s \in {t \in Strings(DataOps, 3) : MdNotBehindTwoBeat(t)}}
QuietInputs == {Quiet}

----------------------------------------------------------------------------
(* Run "control": taken and untaken branches, calls and returns deeper     *)
(* than the return stack, compressed code and instructions that straddle   *)
(* two fetch words, jumps into the middle of an instruction.               *)
ControlOps ==
    {C(ADDI(1, 1, 1)), ADDI(2, 2, 1), AUIPC(1, 2),
     BR("ne", 1, 2, 3), C(BR("eq", 1, 2, XL - 2)),
     JAL(1, 3), C(JAL(0, 2)), JALR(0, 1, 0), C(JALR(1, 2, 1)),
     SYS("fencei"), STORE("w", 1, 0, 1)}
ControlPrograms == {Image(Loop(s), <<JAL(0, XL - MTVEC)>>) : s \in Strings(ControlOps, 4)}

----------------------------------------------------------------------------
(* Its second part: exceptions and an interrupt line that may rise or fall *)
(* in any cycle, against two handlers: one returns to mepc at once, the    *)
(* other steps mepc past the instruction.                                  *)
TrapOps ==
    {CSR("rsi", 0, "mstatus", 1), CSR("rci", 1, "mstatus", 1), CSR("rw", 1, "mscratch", 1),
     SYS("ecall"), SYS("ebreak"), C(SYS("illegal")), SYS("mret"),
     C(ADDI(1, 1, 1)), LOAD("w", 1, 0, 1), MD("mul", 1, 1, 1), BR("ne", 1, 0, 2), JAL(1, 2)}
Handlers == {<<SYS("mret")>>,
             <<CSR("rw", 2, "mepc", 0), C(ADDI(2, 2, 2)), CSR("rw", 0, "mepc", 2), SYS("mret")>>}
TrapPrograms ==
    {Image(Loop(<<CSR("rsi", 0, "mstatus", 1)>> \o s), h) :
        s \in {t \in Strings(TrapOps, 2) : MdNotBehindTwoBeat(t)}, h \in Handlers}
IrqInputs == {Quiet, [Quiet EXCEPT !.irq = TRUE]}

----------------------------------------------------------------------------
(* Its third part: the debugger halts, resumes, single-steps, plants      *)
(* EBREAKs and writes registers at any time.                               *)
Ar(c, r, v) == [Quiet EXCEPT !.ar = [valid |-> TRUE, write |-> TRUE, csr |-> c, regno |-> r, wdata |-> v]]
DebugInputs ==
    {Quiet, [Quiet EXCEPT !.haltreq = TRUE], [Quiet EXCEPT !.resumereq = TRUE],
     Ar(FALSE, 1, 3), Ar(TRUE, "dpc", 2), Ar(TRUE, "dcsr", 0), Ar(TRUE, "dcsr", 3)}
DebugOps == {BR("ne", 1, 0, 2), SYS("ebreak"), SYS("ecall"), LOAD("w", 1, 0, 1)}
DebugPairs ==
    {s \in Strings(DebugOps, 2) : SYS("ebreak") \in {s[1], s[2]}} \cup
    {<<LOAD("w", 1, 0, 1), BR("ne", 1, 0, 2)>>, <<SYS("ecall"), LOAD("w", 1, 0, 1)>>}
DebugPrograms == {Image(Loop(s), <<SYS("mret")>>) : s \in DebugPairs}

\* An interrupt line or a debugger is attached, as the program calls for.
Attached ==
    IF prog \in TrapPrograms THEN IrqInputs
    ELSE IF prog \in DebugPrograms THEN DebugInputs ELSE QuietInputs
\* The halt request does not reach a cycle in which X is held, nor one in
\* which a single step is under way.  The findings show what happens if not.
HaltEnvNext ==
    /\ Next
    /\ in' \in Attached
    /\ in'.haltreq => (~ex_freeze)' /\ ~dbg'.step_active
HaltEnvInit == Init /\ in \in Attached
HaltEnvSpec == HaltEnvInit /\ [][HaltEnvNext]_vars /\ WF_vars(HaltEnvNext)
PipelinePrograms == DataPrograms \cup TrapPrograms \cup DebugPrograms
PipelineInputs == IrqInputs \cup DebugInputs

----------------------------------------------------------------------------
(* Runs that exhibit a disagreement between the code and what its comments *)
(* and documents say of it, each with the shortest program that does.      *)

\* A multiply in X while the halt request comes.
HaltInputs == {Quiet, [Quiet EXCEPT !.haltreq = TRUE], [Quiet EXCEPT !.resumereq = TRUE]}
MdPrograms == {Image(Loop(<<ADDI(1, 1, 1), MD("mul", 1, 1, 1)>>), <<>>)}

\* FENCE.I with an interrupt pending.
FenceiPrograms == {Image(Loop(<<CSR("rsi", 0, "mstatus", 1), SYS("fencei")>>), <<SYS("mret")>>)}

\* A multiply that uses the register a two-beat access in front of it loads.
MdBehindTwoBeatPrograms ==
    {Image(Loop(<<ins, MD("mul", 1, 1, 1)>>), <<>>) :
        ins \in {LOAD("w", 1, 0, 1), AMO("swap", 1, 0, 0)}}
=============================================================================
