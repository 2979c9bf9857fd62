-------------------------------- MODULE Isa --------------------------------
(***************************************************************************)
(* The abstract machine the pipeline promises to implement: one            *)
(* instruction at a time, precise traps and interrupts, and external debug *)
(* that stops between two instructions (docs/architecture.md,              *)
(* docs/traps-and-interrupts.md, docs/debug.md).  Core is checked to       *)
(* implement it.                                                           *)
(***************************************************************************)
EXTENDS Rv32

VARIABLES
    prog,       \* the program, fixed
    pc,         \* the next instruction to execute; dpc while halted
    regs,       \* x0 .. xRegMax
    mem,        \* data memory
    resv,       \* the reserved word's address, or NoResv
    csr,        \* machine CSRs
    dcsr,       \* [ebreakm, step, cause]: the debug control register
    halting,    \* "no", or why the hart is about to enter debug mode
    halted,     \* the hart is in debug mode
    stepping    \* resumed for a single step, which has not been taken

vars == <<prog, pc, regs, mem, resv, csr, dcsr, halting, halted, stepping>>

Init ==
    /\ prog \in Program
    /\ pc = 0
    /\ regs = [r \in Reg |-> 0]
    /\ mem \in Memory
    /\ resv = NoResv
    /\ csr = Csr0
    /\ dcsr = [ebreakm |-> FALSE, step |-> FALSE, cause |-> "none"]
    /\ halting = "no"
    /\ halted = FALSE
    /\ stepping = FALSE

----------------------------------------------------------------------------
Cause(i) ==
    CASE i.op = "ecall" -> "ecall" [] i.op = "ebreak" -> "breakpoint" [] OTHER -> "illegal"

\* The value the instruction leaves in rd.
Result(i, a, b) ==
    CASE i.op = "alu"  -> AddX(IF i.fn = "pc" THEN pc ELSE a, IF i.fn = "rr" THEN b ELSE i.imm)
      [] i.op \in {"jal", "jalr"} -> AddX(pc, i.len)
      [] i.op = "load" -> LoadAt(mem, i.fn, AddX(a, i.imm))
      [] i.op \in {"lr", "amo"} -> WordAt(mem, AlignDown(a))
      [] i.op = "sc"   -> IF resv = AlignDown(a) THEN 0 ELSE 1
      [] i.op = "md"   -> MdOp(i.fn, a, b)
      [] i.op = "csr"  -> CsrRead(csr, i.csr)
      [] OTHER         -> 0

NextPc(i, a, b) ==
    CASE i.op = "jal" \/ (i.op = "branch" /\ BranchTaken(i, a, b)) -> AddX(pc, i.imm)
      [] i.op = "jalr" -> AddX(a, i.imm)
      [] i.op = "mret" -> csr.mepc
      [] OTHER         -> AddX(pc, i.len)

NextMem(i, a, b) ==
    CASE i.op = "store" -> StoreAt(mem, i.fn, AddX(a, i.imm), b)
      [] i.op = "sc" /\ resv = AlignDown(a) -> StoreAt(mem, "w", AlignDown(a), b)
      [] i.op = "amo" -> StoreAt(mem, "w", AlignDown(a), AmoOp(i.fn, Result(i, a, b), b))
      [] OTHER -> mem

\* LR reserves; SC and an ordinary store release.
NextResv(i, a) ==
    CASE i.op = "lr" -> AlignDown(a)
      [] i.op \in {"sc", "store"} -> NoResv
      [] OTHER -> resv

NextCsr(i, a) ==
    CASE i.op = "mret" -> CsrMret(csr)
      [] CsrWrites(i)  -> CsrWrite(csr, i.csr, CsrNew(i, CsrRead(csr, i.csr), CsrSource(i, a)))
      [] OTHER         -> csr

----------------------------------------------------------------------------
\* EBREAK belongs to the debugger when dcsr.ebreakm is set.
ToDebug(i) == i.op = "ebreak" /\ dcsr.ebreakm
Traps(i) == i.op \in {"illegal", "ecall"} \/ (i.op = "ebreak" /\ ~dcsr.ebreakm)

\* No instruction executes once a halt is due.  A single step makes it due
\* with the step's instruction; a debugger may make it due at any other.
Running == ~halted /\ halting = "no"
AfterInstruction ==
    /\ stepping' = FALSE
    /\ IF stepping THEN halting' = "step" ELSE halting' \in {"no", "haltreq"}
    /\ UNCHANGED <<dcsr, halted, prog>>

\* An instruction that does not trap executes completely, and an enabled
\* interrupt may be taken right after it: mepc is then the address of the
\* instruction that comes next.
Execute(irq) ==
    LET i == prog[pc]
        a == regs[i.rs1]
        b == regs[i.rs2]
        c == NextCsr(i, a)
    IN  /\ Running /\ ~Traps(i) /\ ~ToDebug(i)
        /\ irq => c.mie
        /\ regs' = IF WritesRd(i) /\ i.rd # 0 THEN [regs EXCEPT ![i.rd] = Result(i, a, b)] ELSE regs
        /\ mem' = NextMem(i, a, b)
        /\ resv' = NextResv(i, a)
        /\ csr' = IF irq THEN CsrTrap(c, "interrupt", NextPc(i, a, b)) ELSE c
        /\ pc' = IF irq THEN MTVEC ELSE NextPc(i, a, b)
        /\ AfterInstruction

\* A trapping instruction changes nothing but the trap state and pc.
Trap ==
    /\ Running /\ Traps(prog[pc])
    /\ csr' = CsrTrap(csr, Cause(prog[pc]), pc)
    /\ pc' = MTVEC
    /\ UNCHANGED <<regs, mem, resv>>
    /\ AfterInstruction

\* EBREAK with ebreakm stops the hart at the EBREAK itself.
BreakToDebug ==
    /\ Running /\ ToDebug(prog[pc])
    /\ halting' = "ebreak" /\ stepping' = FALSE
    /\ UNCHANGED <<prog, pc, regs, mem, resv, csr, dcsr, halted>>

----------------------------------------------------------------------------
(* External debug.                                                         *)
HaltRequest ==
    /\ Running /\ ~stepping
    /\ halting' = "haltreq"
    /\ UNCHANGED <<prog, pc, regs, mem, resv, csr, dcsr, halted, stepping>>

EnterDebug ==
    /\ ~halted /\ halting # "no"
    /\ halted' = TRUE /\ halting' = "no" /\ stepping' = FALSE
    /\ dcsr' = [dcsr EXCEPT !.cause = halting]
    /\ UNCHANGED <<prog, pc, regs, mem, resv, csr>>

Resume ==
    /\ halted
    /\ halted' = FALSE
    /\ stepping' = dcsr.step
    /\ UNCHANGED <<prog, pc, regs, mem, resv, csr, dcsr, halting>>

\* An abstract command writes one register of the halted hart.
DebugWrite ==
    /\ halted
    /\ \/ \E r \in Reg \ {0}, v \in Word :
             regs' = [regs EXCEPT ![r] = v] /\ UNCHANGED <<pc, csr, dcsr>>
       \/ \E c \in Csrs, v \in Word :
             csr' = CsrWrite(csr, c, v) /\ UNCHANGED <<pc, regs, dcsr>>
       \/ pc' \in Word /\ UNCHANGED <<regs, csr, dcsr>>
       \/ \E e, s \in BOOLEAN :
             dcsr' = [dcsr EXCEPT !.ebreakm = e, !.step = s] /\ UNCHANGED <<pc, regs, csr>>
    /\ UNCHANGED <<prog, mem, resv, halting, halted, stepping>>

Next ==
    \/ \E irq \in BOOLEAN : Execute(irq)
    \/ Trap
    \/ BreakToDebug
    \/ HaltRequest
    \/ EnterDebug
    \/ Resume
    \/ DebugWrite

Spec == Init /\ [][Next]_vars
=============================================================================
