-------------------------------- MODULE Core --------------------------------
(***************************************************************************)
(* rtl/three_sipp_es_core.sv: the three-stage F | X | W pipeline, in its   *)
(* default build (SECURE = 0, BPRED = 1).  A step is one clock edge.  Wires *)
(* are operators on the state and on the input pins, which "in" holds for  *)
(* the current cycle and which change arbitrarily at every edge; each      *)
(* always_ff block is one operator that ends in "Edge".  Names are the     *)
(* source's; the fields of an instruction stand for the decoder's outputs. *)
(* The data the model keeps is explained in Rv32.                          *)
(***************************************************************************)
EXTENDS Rv32

CONSTANTS
    Programs,           \* instruction memories considered
    Memories,           \* initial contents of data memory
    Inputs,             \* values of the input pins
    BtbEntries,         \* 2^BTB_BITS
    RAS_N,              \* depth of the return address stack
    BhtEntries,         \* 2^BHT_BITS
    GhrMod,             \* 2^GHR_BITS
    BhtIndex(_, _),     \* pc[BHT_BITS:1] ^ ghist
    DivCycles           \* cycles the divider is busy (33 in the hardware)

\* The access the debug module asks for (external pins dbg_ar_*).
DebugCsrs == {"dcsr", "dpc", "mstatus", "mepc", "mscratch"}
Access == [valid : BOOLEAN, write : BOOLEAN, csr : {FALSE}, regno : Reg, wdata : Word] \cup
          [valid : BOOLEAN, write : BOOLEAN, csr : {TRUE}, regno : DebugCsrs, wdata : Word]

ASSUME CoreAssumption ==
    /\ Programs \subseteq Program /\ Memories \subseteq Memory
    /\ \A p \in Programs, a \in Word : p[a].fn \in {"rs", "rc", "rsi", "rci"} => p[a].csr = "mstatus"
    /\ \A p \in Programs, a \in Word : p[a].op \in {"load", "store"} => p[a].fn # "rr"
    /\ Inputs \subseteq [irq : BOOLEAN, haltreq : BOOLEAN, resumereq : BOOLEAN, ar : Access]
    /\ BtbEntries \in Nat \ {0} /\ RAS_N \in Nat \ {0} /\ DivCycles \in Nat \ {0}
    /\ BhtEntries \in Nat \ {0} /\ GhrMod \in Nat \ {0}
    /\ \A p \in Word, g \in 0 .. GhrMod - 1 : BhtIndex(p, g) \in 0 .. BhtEntries - 1

VARIABLES
    in,         \* [irq, haltreq, resumereq, ar]: the pins in this cycle
    prog,       \* instruction memory
    pc, straddle, fx,                       \* F, and the F/X register
    btb, bht, ghist, ras, ras_ptr, ras_cnt, \* predictors
    xw, beat2, ld_w0, resv,                 \* X/W register, W's second beat
    md, md_inflight,                        \* multiply/divide unit
    regs, mem, csr,                         \* register file, data memory, CSRs
    dbg         \* debug controller: mode, halt_req, step_active, dpc, dcsr, ...

vars == <<in, prog, pc, straddle, fx, btb, bht, ghist, ras, ras_ptr, ras_cnt,
          xw, beat2, ld_w0, resv, md, md_inflight, regs, mem, csr, dbg>>

NoEntry == [valid |-> FALSE, tag |-> 0, tgt |-> 0, isjal |-> FALSE]

Init ==
    /\ in \in Inputs
    /\ prog \in Programs
    /\ pc = 0 /\ straddle = FALSE
    /\ fx = [valid |-> FALSE, pc |-> 0, instr |-> Illegal,
             pred_taken |-> FALSE, pred_target |-> 0, ghist |-> 0]
    /\ btb = [e \in 0 .. BtbEntries - 1 |-> NoEntry]
    /\ bht = [e \in 0 .. BhtEntries - 1 |-> 1]
    /\ ghist = 0
    /\ ras = [e \in 0 .. RAS_N - 1 |-> 0] /\ ras_ptr = 0 /\ ras_cnt = 0
    /\ xw = [valid |-> FALSE, instr |-> Illegal, result |-> 0, store |-> 0, reg_we |-> FALSE,
             mem_re |-> FALSE, mem_we |-> FALSE, is_amo |-> FALSE, amo_addr |-> 0, amo_b |-> 0]
    /\ beat2 = FALSE /\ ld_w0 = 0
    /\ resv = NoResv
    /\ md = [cnt |-> 0, done |-> FALSE, result |-> 0] /\ md_inflight = FALSE
    /\ regs = [r \in Reg |-> 0]
    /\ mem \in Memories
    /\ csr = Csr0
    /\ dbg = [mode |-> FALSE, halt_req |-> FALSE, step_active |-> FALSE, dpc |-> 0,
              ebreakm |-> FALSE, step |-> FALSE, cause |-> "none",
              ar_busy |-> FALSE, ar_done |-> FALSE, cap_valid |-> FALSE, cap |-> 0]

----------------------------------------------------------------------------
(* W stage: memory port, load assembly, the value written back.            *)
lo == xw.result % 2
mem_mis == xw.valid /\ (xw.mem_re \/ xw.mem_we) /\ Width(xw.instr) = 2 /\ lo = 1
amo_here == xw.valid /\ xw.is_amo
\* Fault: an AMO repeats its load beat.
amo_rmw_b1_Fault == amo_here /\ xw.instr.op = "amo"
amo_rmw_b1 == amo_here /\ xw.instr.op = "amo" /\ ~beat2
amo_rmw_b2 == amo_here /\ xw.instr.op = "amo" /\ beat2
mem_beat_stall == (mem_mis /\ ~beat2) \/ amo_rmw_b1
sc_ok == resv = AlignDown(xw.amo_addr)

dmem_addr == IF amo_here THEN AlignDown(xw.amo_addr)
             ELSE AlignDown(xw.result) + (IF beat2 THEN 2 ELSE 0)
dmem_we == (xw.valid /\ xw.mem_we) \/ (amo_here /\ ((xw.instr.op = "sc" /\ sc_ok) \/ amo_rmw_b2))
dmem_rdata == FromLanes(mem[dmem_addr % MemLanes], mem[(dmem_addr + 1) % MemLanes])

\* Lane k of the two-word window {second word, first word} of a load.
ld_comb(k) ==
    IF beat2 THEN (IF k < 2 THEN LaneOf(ld_w0, k) ELSE LaneOf(dmem_rdata, k - 2))
             ELSE (IF k < 2 THEN LaneOf(dmem_rdata, k) ELSE 0)
w_load == IF Width(xw.instr) = 2 THEN FromLanes(ld_comb(lo), ld_comb(lo + 1))
          ELSE Extend(xw.instr.fn, ld_comb(lo))
amo_wb == CASE xw.instr.op = "lr" -> dmem_rdata
            [] xw.instr.op = "sc" -> IF sc_ok THEN 0 ELSE 1
            [] OTHER              -> ld_w0
w_wb == IF amo_here THEN amo_wb ELSE IF xw.mem_re THEN w_load ELSE xw.result

\* Lane j of the word being written: its byte enable and its data.
win(j) == j + (IF beat2 THEN 2 ELSE 0)
dmem_be(j) == amo_here \/ (lo <= win(j) /\ win(j) < lo + Width(xw.instr))
dmem_wdata(j) ==
    IF amo_rmw_b2 THEN LaneOf(AmoOp(xw.instr.fn, ld_w0, xw.amo_b), j)
    ELSE IF amo_here THEN LaneOf(xw.amo_b, j)
    ELSE LaneOf(xw.store, win(j) - lo)

rf_we == xw.valid /\ xw.reg_we /\ xw.instr.rd # 0 /\ ~mem_beat_stall

----------------------------------------------------------------------------
(* X stage: forwarding, execution, traps, interrupts, redirection.         *)
\* Fault: no forwarding out of W.
op_Fault(r) == IF r = 0 THEN 0 ELSE regs[r]
op(r) == IF r = 0 THEN 0
         ELSE IF xw.valid /\ xw.reg_we /\ xw.instr.rd = r THEN w_wb ELSE regs[r]
i == fx.instr
op1 == op(i.rs1)
op2 == op(i.rs2)
\* ALU result: also the address of a load or store.
alu_y == AddX(IF i.fn = "pc" /\ i.op = "alu" THEN fx.pc ELSE op1,
              IF i.fn = "rr" THEN op2 ELSE i.imm)

\* Fault: the unit restarts in the cycle that delivers its result.
md_start_Fault == fx.valid /\ i.op = "md" /\ md.cnt = 0
md_start == fx.valid /\ i.op = "md" /\ ~md_inflight /\ md.cnt = 0
md_stall == fx.valid /\ i.op = "md" /\ ~md.done
ex_freeze == md_stall \/ mem_beat_stall

ebreak_to_debug == fx.valid /\ i.op = "ebreak" /\ dbg.ebreakm /\ ~dbg.mode
step_halt_now == dbg.step_active /\ fx.valid /\ ~dbg.mode
dbg_resume_now == dbg.mode /\ in.resumereq
\* Fault: one-step-done does not freeze fetch.
dbg_freeze_StepFault == dbg.mode \/ dbg.halt_req \/ in.haltreq \/ ebreak_to_debug
\* Fault: only the request pulse freezes fetch, not the halt it leaves pending.
dbg_freeze_PulseFault == dbg.mode \/ in.haltreq \/ ebreak_to_debug \/ step_halt_now
dbg_freeze == dbg.mode \/ dbg.halt_req \/ in.haltreq \/ ebreak_to_debug \/ step_halt_now
pipe_drained == ~fx.valid /\ ~xw.valid
dbg_do == dbg.mode /\ in.ar.valid /\ ~dbg.ar_busy

ex_trap == fx.valid /\ (i.op \in {"illegal", "ecall"} \/ (i.op = "ebreak" /\ ~dbg.ebreakm))
ex_cause == CASE i.op = "ecall" -> "ecall" [] i.op = "ebreak" -> "breakpoint" [] OTHER -> "illegal"
irq_req == csr.mie /\ in.irq
\* Fault: an interrupt may displace a CSR instruction.
take_irq_Fault == fx.valid /\ ~ex_freeze /\ irq_req /\ ~ex_trap /\ ~dbg_freeze
                  /\ i.op \notin {"mret", "jal", "jalr", "branch"}
take_irq == fx.valid /\ ~ex_freeze /\ irq_req /\ ~ex_trap /\ ~dbg_freeze
            /\ i.op \notin {"mret", "csr", "jal", "jalr", "branch"}
m_trap_set == (ex_trap /\ ~ex_freeze) \/ take_irq

seq_nx == AddX(fx.pc, i.len)
br_actual_taken == i.op = "jal" \/ (i.op = "branch" /\ BranchTaken(i, op1, op2))
br_actual_next == IF br_actual_taken THEN AddX(fx.pc, i.imm) ELSE seq_nx
pred_next == IF fx.pred_taken THEN fx.pred_target ELSE seq_nx

\* The next pc that X insists on, in the priority of the redirect mux.
redirect_target ==
    CASE ex_trap        -> MTVEC
      [] i.op = "mret"  -> csr.mepc
      [] i.op = "jalr"  -> AddX(op1, i.imm)
      [] i.op \in {"jal", "branch"} -> br_actual_next
      [] i.op = "fencei" -> seq_nx
      [] OTHER          -> MTVEC
\* Faults: returns are trusted; an interrupt is taken without redirecting;
\* a held instruction redirects fetch.
redirect_ReturnFault ==
    /\ fx.valid /\ ~ex_freeze
    /\ \/ ex_trap \/ i.op \in {"mret", "fencei"} \/ take_irq
       \/ IsControl(i) /\ redirect_target # pred_next /\ ~(i.op = "jalr" /\ fx.pred_taken)
redirect_IrqFault ==
    /\ fx.valid /\ ~ex_freeze
    /\ \/ ex_trap \/ i.op \in {"mret", "fencei"}
       \/ IsControl(i) /\ redirect_target # pred_next
redirect_FreezeFault ==
    /\ fx.valid
    /\ \/ ex_trap \/ i.op \in {"mret", "fencei"} \/ take_irq
       \/ IsControl(i) /\ redirect_target # pred_next
redirect ==
    /\ fx.valid /\ ~ex_freeze
    /\ \/ ex_trap \/ i.op \in {"mret", "fencei"} \/ take_irq
       \/ IsControl(i) /\ redirect_target # pred_next

x_result == CASE i.op \in {"jal", "jalr"} -> seq_nx
              [] i.op = "csr" -> CsrRead(csr, i.csr)
              [] i.op = "md"  -> md.result
              [] OTHER        -> alu_y
x_commit == fx.valid /\ ~md_stall /\ ~ebreak_to_debug

----------------------------------------------------------------------------
(* F stage.                                                                *)
\* Fault: the index leaves out pc[1], as for code without compressed
\* instructions.
BtbIdx_Fault(p) == (p \div 2) % BtbEntries
BtbIdx(p) == p % BtbEntries
BtbTag(p) == p \div BtbEntries
\* Fault: the tag is not compared.
btb_hit_Fault == btb[BtbIdx(pc)].valid
btb_hit == btb[BtbIdx(pc)].valid /\ btb[BtbIdx(pc)].tag = BtbTag(pc)
predict_taken == btb_hit /\ (btb[BtbIdx(pc)].isjal \/ bht[BhtIndex(pc, ghist)] >= 2)

fetched == prog[pc]
\* Fault: the second beat is not told from the first.
need_straddle_Fault == fetched.len = 2 /\ pc % 2 = 1
need_straddle == fetched.len = 2 /\ pc % 2 = 1 /\ ~straddle
IsLink(r) == r \in {1, 5}
f_is_call == fetched.op \in {"jal", "jalr"} /\ IsLink(fetched.rd)
f_is_ret == fetched.op = "jalr" /\ IsLink(fetched.rs1) /\ ~IsLink(fetched.rd)
ras_predict == f_is_ret /\ ras_cnt # 0
ras_top == (ras_ptr + RAS_N - 1) % RAS_N
predict_taken_f == ras_predict \/ predict_taken
predict_target_f == IF ras_predict THEN ras[ras_top] ELSE btb[BtbIdx(pc)].tgt

FetchEdge ==
    \/ /\ redirect
       /\ pc' = redirect_target
       /\ fx' = [fx EXCEPT !.valid = FALSE] /\ straddle' = FALSE
    \/ /\ ~redirect /\ dbg_resume_now
       /\ pc' = dbg.dpc
       /\ fx' = [fx EXCEPT !.valid = FALSE] /\ straddle' = FALSE
    \/ /\ ~redirect /\ ~dbg_resume_now /\ dbg_freeze
       /\ fx' = [fx EXCEPT !.valid = FALSE]
       /\ UNCHANGED <<pc, straddle>>
    \/ /\ ~redirect /\ ~dbg_freeze /\ ex_freeze
       /\ UNCHANGED <<pc, fx, straddle>>
    \/ /\ ~redirect /\ ~dbg_freeze /\ ~ex_freeze /\ need_straddle
       /\ straddle' = TRUE
       /\ fx' = [fx EXCEPT !.valid = FALSE]
       /\ UNCHANGED pc
    \/ /\ ~redirect /\ ~dbg_freeze /\ ~ex_freeze /\ ~need_straddle
       /\ fx' = [valid |-> TRUE, pc |-> pc, instr |-> fetched, ghist |-> ghist,
                 pred_taken |-> predict_taken_f, pred_target |-> predict_target_f]
       /\ straddle' = FALSE
       /\ pc' = IF predict_taken_f THEN predict_target_f ELSE AddX(pc, fetched.len)

RasEdge ==
    LET enable == ~ex_freeze /\ ~redirect /\ ~dbg_freeze /\ ~need_straddle IN
    \/ /\ enable /\ f_is_call
       /\ ras' = [ras EXCEPT ![ras_ptr] = AddX(pc, fetched.len)]
       /\ ras_ptr' = (ras_ptr + 1) % RAS_N
       /\ ras_cnt' = IF ras_cnt # RAS_N THEN ras_cnt + 1 ELSE ras_cnt
    \/ /\ enable /\ ~f_is_call /\ ras_predict
       /\ ras_ptr' = ras_top /\ ras_cnt' = ras_cnt - 1
       /\ UNCHANGED ras
    \/ /\ ~(enable /\ (f_is_call \/ ras_predict))
       /\ UNCHANGED <<ras, ras_ptr, ras_cnt>>

\* Train the direction counter on a branch, install the target of a taken one.
BpredEdge ==
    LET upd == fx.valid /\ ~ex_freeze /\ ~ex_trap /\ i.op \in {"branch", "jal"}
        e == BhtIndex(fx.pc, fx.ghist)
    IN  /\ IF upd /\ i.op = "branch"
           THEN /\ bht' = [bht EXCEPT ![e] = IF br_actual_taken THEN (IF @ = 3 THEN 3 ELSE @ + 1)
                                                               ELSE (IF @ = 0 THEN 0 ELSE @ - 1)]
                /\ ghist' = (2 * ghist + Bit(br_actual_taken)) % GhrMod
           ELSE UNCHANGED <<bht, ghist>>
        /\ btb' = IF upd /\ br_actual_taken
                  THEN [btb EXCEPT ![BtbIdx(fx.pc)] =
                          [valid |-> TRUE, tag |-> BtbTag(fx.pc),
                           tgt |-> AddX(fx.pc, i.imm), isjal |-> i.op = "jal"]]
                  ELSE btb

----------------------------------------------------------------------------
(* X and W registers.                                                      *)
MuldivEdge ==
    /\ md' = IF md_start
             THEN [cnt |-> IF i.fn = "mul" \/ op2 = 0 THEN 1 ELSE DivCycles,
                   done |-> FALSE, result |-> MdOp(i.fn, op1, op2)]
             ELSE [md EXCEPT !.cnt = IF md.cnt = 0 THEN 0 ELSE md.cnt - 1, !.done = md.cnt = 1]
    /\ md_inflight' = IF md.done THEN FALSE ELSE md_inflight \/ md_start

XWEdge ==
    xw' = IF mem_beat_stall THEN xw
          ELSE [valid |-> x_commit, instr |-> i, result |-> x_result, store |-> op2,
                reg_we |-> WritesRd(i) /\ ~ex_trap,
                mem_re |-> i.op = "load" /\ ~ex_trap, mem_we |-> i.op = "store" /\ ~ex_trap,
                is_amo |-> IsAtomic(i) /\ ~ex_trap, amo_addr |-> op1, amo_b |-> op2]

BeatEdge ==
    /\ beat2' = mem_beat_stall
    /\ ld_w0' = IF mem_beat_stall THEN dmem_rdata ELSE ld_w0

\* Fault: an ordinary store leaves the reservation.
ReservationEdge_Fault ==
    resv' = IF amo_here /\ xw.instr.op = "lr" THEN AlignDown(xw.amo_addr)
            ELSE IF amo_here /\ xw.instr.op = "sc" THEN NoResv
            ELSE resv

ReservationEdge ==
    resv' = IF amo_here /\ xw.instr.op = "lr" THEN AlignDown(xw.amo_addr)
            ELSE IF (amo_here /\ xw.instr.op = "sc") \/ (xw.valid /\ xw.mem_we) THEN NoResv
            ELSE resv

MemEdge ==
    mem' = [l \in 0 .. MemLanes - 1 |->
              IF dmem_we /\ l \in {dmem_addr % MemLanes, (dmem_addr + 1) % MemLanes} /\ dmem_be(l % 2)
              THEN dmem_wdata(l % 2) ELSE mem[l]]

RegfileEdge ==
    LET dbg_gpr_we == dbg_do /\ in.ar.write /\ ~in.ar.csr /\ in.ar.regno # 0 IN
    regs' = IF dbg_gpr_we THEN [regs EXCEPT ![in.ar.regno] = in.ar.wdata]
            ELSE IF rf_we THEN [regs EXCEPT ![xw.instr.rd] = w_wb]
            ELSE regs

\* A trap comes before MRET, MRET before a software or a debugger's write.
CsrEdge ==
    csr' = IF m_trap_set
           THEN CsrTrap(csr, IF ex_trap THEN ex_cause ELSE "interrupt",
                             IF ex_trap THEN fx.pc ELSE seq_nx)
           ELSE IF fx.valid /\ i.op = "mret" /\ ~ex_freeze
           THEN CsrMret(csr)
           ELSE IF dbg_do /\ in.ar.write /\ in.ar.csr
           THEN CsrWrite(csr, in.ar.regno, in.ar.wdata)
           ELSE IF ~dbg.mode /\ fx.valid /\ CsrWrites(i) /\ ~ex_freeze
           THEN CsrWrite(csr, i.csr, CsrNew(i, CsrRead(csr, i.csr), CsrSource(i, op1)))
           ELSE csr

----------------------------------------------------------------------------
(* Debug controller: abstract register access, drain to halt, resume.      *)
DebugEdge ==
    LET enter == dbg.halt_req /\ ~dbg.mode /\ pipe_drained
        dcsr_we == dbg_do /\ in.ar.write /\ in.ar.csr /\ in.ar.regno = "dcsr"
        dpc_we == dbg_do /\ in.ar.write /\ in.ar.csr /\ in.ar.regno = "dpc"
    IN dbg' =
        [mode |-> (dbg.mode \/ enter) /\ ~dbg_resume_now,
         halt_req |-> ~enter /\ (dbg.halt_req \/
                        (~dbg.mode /\ (in.haltreq \/ ebreak_to_debug \/ step_halt_now))),
         step_active |-> IF dbg_resume_now THEN dbg.step ELSE dbg.step_active /\ ~enter,
         dpc |-> IF enter THEN (IF dbg.cap_valid THEN dbg.cap ELSE pc)
                 ELSE IF dpc_we THEN in.ar.wdata ELSE dbg.dpc,
         ebreakm |-> IF dcsr_we THEN (in.ar.wdata \div 2) % 2 = 1 ELSE dbg.ebreakm,
         step |-> IF dcsr_we THEN in.ar.wdata % 2 = 1 ELSE dbg.step,
         cause |-> IF ~enter THEN dbg.cause
                   ELSE IF dbg.cap_valid THEN "ebreak"
                   ELSE IF dbg.step_active THEN "step" ELSE "haltreq",
         ar_busy |-> in.ar.valid /\ (dbg.ar_busy \/ dbg_do),
         ar_done |-> dbg_do,
         cap_valid |-> ~enter /\ (dbg.cap_valid \/ ebreak_to_debug),
         cap |-> IF ebreak_to_debug THEN fx.pc ELSE dbg.cap]

----------------------------------------------------------------------------
Next ==
    /\ FetchEdge /\ RasEdge /\ BpredEdge
    /\ MuldivEdge /\ XWEdge /\ BeatEdge /\ ReservationEdge /\ MemEdge /\ RegfileEdge
    /\ CsrEdge /\ DebugEdge
    /\ in' \in Inputs
    /\ UNCHANGED prog

\* The clock never stops.
Spec == Init /\ [][Next]_vars
FairSpec == Spec /\ WF_vars(Next)

----------------------------------------------------------------------------
(* Refinement.  An instruction takes effect for the programmer on the edge *)
(* that moves it from X to W, so the architectural state is the registers  *)
(* and memory with what W is still going to write.                         *)
Retiring ==     \* the value W's instruction will leave in its register
    IF xw.mem_re THEN LoadAt(mem, xw.instr.fn, xw.result)
    ELSE IF ~xw.is_amo THEN xw.result
    ELSE IF xw.instr.op = "sc" THEN (IF sc_ok THEN 0 ELSE 1)
    ELSE WordAt(mem, AlignDown(xw.amo_addr))
ArchRegs ==
    IF xw.valid /\ xw.reg_we /\ xw.instr.rd # 0
    THEN [regs EXCEPT ![xw.instr.rd] = Retiring] ELSE regs
ArchMem ==
    LET a == AlignDown(xw.amo_addr) IN
    IF ~xw.valid THEN mem
    ELSE IF xw.mem_we THEN StoreAt(mem, xw.instr.fn, xw.result, xw.store)
    ELSE IF xw.is_amo /\ xw.instr.op = "sc" /\ sc_ok THEN StoreAt(mem, "w", a, xw.amo_b)
    ELSE IF xw.is_amo /\ xw.instr.op = "amo"
         THEN StoreAt(mem, "w", a, AmoOp(xw.instr.fn, WordAt(mem, a), xw.amo_b))
    ELSE mem
ArchResv ==
    IF amo_here /\ xw.instr.op = "lr" THEN AlignDown(xw.amo_addr)
    ELSE IF (amo_here /\ xw.instr.op = "sc") \/ (xw.valid /\ xw.mem_we) THEN NoResv
    ELSE resv
ArchPc ==
    IF dbg.mode THEN dbg.dpc
    ELSE IF dbg.cap_valid THEN dbg.cap
    ELSE IF fx.valid THEN fx.pc ELSE pc
ArchHalting ==
    IF ~dbg.halt_req THEN "no"
    ELSE IF dbg.cap_valid THEN "ebreak"
    ELSE IF dbg.step_active THEN "step" ELSE "haltreq"

Machine == INSTANCE Isa WITH
    pc <- ArchPc, regs <- ArchRegs, mem <- ArchMem, resv <- ArchResv,
    dcsr <- [ebreakm |-> dbg.ebreakm, step |-> dbg.step, cause |-> dbg.cause],
    halting <- ArchHalting, halted <- dbg.mode,
    stepping <- dbg.step_active /\ ~dbg.halt_req

\* The pipeline executes programs as the sequential machine does: forwarding,
\* two-beat accesses, prediction, flushes, traps, interrupts and debug never
\* show in the registers, memory, CSRs or the order of instructions.
ImplementsIsa == Machine!Spec

----------------------------------------------------------------------------
(* Properties of the pipeline itself.                                      *)

\* Every register keeps a value of its width.
TypeOK ==
    /\ in \in Inputs /\ prog \in Program
    /\ pc \in Word /\ straddle \in BOOLEAN
    /\ fx \in [valid : BOOLEAN, pc : Word, instr : Instr, pred_taken : BOOLEAN,
               pred_target : Word, ghist : 0 .. GhrMod - 1]
    /\ btb \in [0 .. BtbEntries - 1 ->
                  [valid : BOOLEAN, tag : Nat, tgt : Word, isjal : BOOLEAN]]
    /\ bht \in [0 .. BhtEntries - 1 -> 0 .. 3] /\ ghist \in 0 .. GhrMod - 1
    /\ ras \in [0 .. RAS_N - 1 -> Word] /\ ras_ptr \in 0 .. RAS_N - 1 /\ ras_cnt \in 0 .. RAS_N
    /\ xw \in [valid : BOOLEAN, instr : Instr, result : Word, store : Word, reg_we : BOOLEAN,
               mem_re : BOOLEAN, mem_we : BOOLEAN, is_amo : BOOLEAN, amo_addr : Word, amo_b : Word]
    /\ beat2 \in BOOLEAN /\ ld_w0 \in Word /\ resv \in Word \cup {NoResv}
    /\ md \in [cnt : 0 .. DivCycles, done : BOOLEAN, result : Word] /\ md_inflight \in BOOLEAN
    /\ regs \in [Reg -> Word] /\ mem \in Memory /\ csr \in CsrState
    /\ dbg \in [mode : BOOLEAN, halt_req : BOOLEAN, step_active : BOOLEAN, dpc : Word,
                ebreakm : BOOLEAN, step : BOOLEAN, cause : {"none", "ebreak", "step", "haltreq"},
                ar_busy : BOOLEAN, ar_done : BOOLEAN, cap_valid : BOOLEAN, cap : Word]

\* A valid BTB entry describes the branch or jump that the program has at the
\* pc the entry's index and tag stand for: this is what the comment on
\* halfword-granular indexing relies on.
BtbSound ==
    \A p \in Word :
        btb[BtbIdx(p)].valid /\ btb[BtbIdx(p)].tag = BtbTag(p) =>
            /\ prog[p].op \in {"branch", "jal"}
            /\ btb[BtbIdx(p)].tgt = AddX(p, prog[p].imm)

\* Only a branch, JAL or JALR reaches X predicted taken.  X corrects no other
\* instruction's prediction, so any other would send fetch astray for good.
PredictedIsControl == fx.valid /\ fx.pred_taken => IsControl(fx.instr)

\* The second beat belongs to the access that took the first: W then holds a
\* crossing access or an AMO, and never starts a third.
BeatsPaired == beat2 => xw.valid /\ (mem_mis \/ amo_rmw_b2) /\ ~mem_beat_stall

\* The multiplier works for the instruction in X and for no other, and its
\* one-cycle "done" never falls into a cycle in which W holds X back, when it
\* would be missed and the result lost.
MdInStep ==
    /\ md_inflight <=> md.cnt > 0 \/ md.done
    /\ md_inflight => fx.valid /\ fx.instr.op = "md"
    /\ md.done => ~mem_beat_stall

\* The multiplier starts on the architectural values of its operands.
MdOperandsFresh ==
    md_start => op1 = ArchRegs[fx.instr.rs1] /\ op2 = ArchRegs[fx.instr.rs2]

\* An instruction that X has to hold stays in X until it moves on to W; only
\* an EBREAK that turns into a halt leaves without executing.
FrozenStays ==
    [][fx.valid /\ ex_freeze /\ ~ebreak_to_debug =>
          fx'.valid /\ fx'.pc = fx.pc /\ fx'.instr = fx.instr]_vars

\* Whoever takes a trap or an interrupt, saving the context and disabling
\* interrupts, continues at mtvec.
TrapVectors == [][m_trap_set => pc' = MTVEC /\ ~fx'.valid]_vars

\* A requested halt is reached, and the clock always brings another
\* instruction out of X unless the hart is halted.
HaltReached == dbg.halt_req ~> dbg.mode
Progress == []<>((x_commit /\ ~mem_beat_stall) \/ dbg.mode)
=============================================================================
