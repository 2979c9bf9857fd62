----------------------------- MODULE CoreProofs -----------------------------
(***************************************************************************)
(* What TLAPS proves about Core itself: type correctness of every          *)
(* register, and the soundness of the branch predictor, of trap vectoring, *)
(* of two-beat accesses and of the multiply handshake, for every program,  *)
(* memory, predictor geometry, divider latency and sequence of pins.       *)
(* CoreRefinement builds the proof that Core implements Isa on these.      *)
(***************************************************************************)
EXTENDS Core, TLAPS

(* Arithmetic and the operators of Rv32.                                   *)

\* A remainder lies below its modulus.
LEMMA ModType ==
  ASSUME NEW n \in Nat \ {0}, NEW a \in Int
  PROVE  a % n \in 0 .. n - 1
  OBVIOUS

\* A quotient never exceeds the dividend.
LEMMA DivType ==
  ASSUME NEW n \in Nat \ {0}, NEW a \in Nat
  PROVE  a \div n \in 0 .. a
  OBVIOUS

\* Index and tag together determine a pc: quotient and remainder determine
\* a number.
LEMMA DivModUnique ==
  ASSUME NEW n \in Nat \ {0}, NEW a \in Nat, NEW b \in Nat,
         a % n = b % n, a \div n = b \div n
  PROVE  a = b
  OBVIOUS

\* The sizes of the data, as the assumption on the constants gives them.
LEMMA Sizes == XL \in Nat /\ XL >= 4 /\ LaneBase \in Nat /\ LaneBase >= 2 /\ MTVEC \in Word
               /\ MemLanes \in Nat /\ MemLanes >= 4 /\ MemLanes % 2 = 0 /\ Reg \subseteq Word
               /\ 0 \in Reg
  BY Rv32Assumption DEF XL, Word, Reg

\* Two lanes make a word (load assembly).
LEMMA FromLanesType ==
  ASSUME NEW l \in Lane, NEW h \in Lane
  PROVE  FromLanes(l, h) \in Word
  BY Rv32Assumption DEF FromLanes, Lane, Word, XL

\* Either half of a word is a lane (store data, load window).
LEMMA LaneOfType ==
  ASSUME NEW v \in Word, NEW k
  PROVE  LaneOf(v, k) \in Lane
  BY Sizes, ModType, DivType DEF LaneOf, Lane, Word

\* The adder wraps into the word.
LEMMA AddXType ==
  ASSUME NEW a \in Int, NEW b \in Int
  PROVE  AddX(a, b) \in Word
  BY Sizes, ModType DEF AddX, Word

\* The multiply/divide unit returns a word, division by zero included.
LEMMA MdOpType ==
  ASSUME NEW fn, NEW a \in Word, NEW b \in Word
  PROVE  MdOp(fn, a, b) \in Word
<1>1. (a * b) % XL \in Word
  BY Sizes, ModType DEF Word
<1>2. b # 0 => a \div b \in Word
  BY Sizes, DivType DEF Word
<1>3. XL - 1 \in Word
  BY Sizes DEF Word
<1> QED
  BY <1>1, <1>2, <1>3, Zenon DEF MdOp

----------------------------------------------------------------------------
\* The fields of a decoded instruction.
LEMMA InstrFields ==
  ASSUME NEW ins \in Instr
  PROVE  /\ ins.op \in Ops /\ ins.fn \in Fns /\ ins.csr \in Csrs /\ ins.len \in {1, 2}
         /\ ins.rd \in Reg /\ ins.rs1 \in Reg /\ ins.rs2 \in Reg /\ ins.imm \in Word
  BY DEF Instr

\* Words and lanes are natural numbers, and every lane is a word.
LEMMA WordIsNat ==
  /\ \A w \in Word : w \in Nat
  /\ \A l \in Lane : l \in Nat /\ l \in Word
  /\ 0 \in Word /\ 1 \in Word /\ 0 \in Lane /\ LaneBase - 1 \in Lane
  BY Sizes, Rv32Assumption DEF Word, Lane, XL

\* Sign or zero extension of a lane gives a word.
LEMMA ExtendType ==
  ASSUME NEW fn, NEW l \in Lane
  PROVE  Extend(fn, l) \in Word
  BY WordIsNat, FromLanesType DEF Extend

\* Reading memory at a wrapped address gives a lane.
LEMMA MemType ==
  ASSUME NEW m \in Memory, NEW a \in Int
  PROVE  m[a % MemLanes] \in Lane
  BY Sizes, ModType DEF Memory

\* Aligning a word address gives an even word address (amo_addr_al).
LEMMA AlignType ==
  ASSUME NEW a \in Word
  PROVE  AlignDown(a) \in Word /\ AlignDown(a) % 2 = 0
  BY Sizes DEF AlignDown, Word

\* The AMO adder and swap give a word (amo_res).
LEMMA AmoOpType ==
  ASSUME NEW fn, NEW a \in Word, NEW b \in Word
  PROVE  AmoOp(fn, a, b) \in Word
  BY AddXType, WordIsNat DEF AmoOp

\* A Boolean as a bit.
LEMMA BitType == \A b : Bit(b) \in {0, 1}
  BY DEF Bit

\* The two modelled bits of mstatus fit a word.
LEMMA SmallIsWord == 0 .. 3 \subseteq Word
  BY Sizes DEF Word

\* Reading a CSR gives a word (csr_rdata).
LEMMA CsrReadType ==
  ASSUME NEW c \in CsrState, NEW n
  PROVE  CsrRead(c, n) \in Word
<1>1. Bit(c.mie) + 2 * Bit(c.mpie) \in Word
  BY BitType, SmallIsWord
<1>2. c.mepc \in Word /\ c.mscratch \in Word /\ 0 \in Word
  BY WordIsNat DEF CsrState
<1> QED
  BY <1>1, <1>2, Zenon DEF CsrRead

\* Writing a word to a CSR keeps the CSR file well formed.
LEMMA CsrWriteType ==
  ASSUME NEW c \in CsrState, NEW n, NEW v \in Word
  PROVE  CsrWrite(c, n, v) \in CsrState
<1>1. [c EXCEPT !.mie = v % 2 = 1, !.mpie = (v \div 2) % 2 = 1] \in CsrState
  BY DEF CsrState
<1>2. [c EXCEPT !.mepc = v] \in CsrState
  BY DEF CsrState
<1>3. [c EXCEPT !.mscratch = v] \in CsrState
  BY DEF CsrState
<1> QED
  BY <1>1, <1>2, <1>3, Zenon DEF CsrWrite

\* Trap entry keeps the CSR file well formed.
LEMMA CsrTrapType ==
  ASSUME NEW c \in CsrState, NEW cause \in Causes, NEW epc \in Word
  PROVE  CsrTrap(c, cause, epc) \in CsrState
  BY DEF CsrTrap, CsrState

\* MRET keeps the CSR file well formed.
LEMMA CsrMretType ==
  ASSUME NEW c \in CsrState
  PROVE  CsrMret(c) \in CsrState
  BY DEF CsrMret, CsrState

\* What CSRRW, CSRRS and CSRRC write is a word (csr_wval).
LEMMA CsrNewType ==
  ASSUME NEW ins, NEW old \in Word, NEW src \in Word
  PROVE  CsrNew(ins, old, src) \in Word
<1>1. \A b, d : Bit(b) + 2 * Bit(d) \in Word
  BY BitType, SmallIsWord
<1> QED
  BY <1>1, Zenon DEF CsrNew

\* The source of a CSR instruction, register or immediate, is a word.
LEMMA CsrSourceType ==
  ASSUME NEW ins \in Instr, NEW a \in Word
  PROVE  CsrSource(ins, a) \in Word
  BY Sizes, InstrFields DEF CsrSource

----------------------------------------------------------------------------
\* The X/W register and what W reads.
LEMMA XwFields ==
  ASSUME TypeOK
  PROVE  /\ xw.valid \in BOOLEAN /\ xw.instr \in Instr /\ xw.reg_we \in BOOLEAN
         /\ xw.mem_re \in BOOLEAN /\ xw.mem_we \in BOOLEAN /\ xw.is_amo \in BOOLEAN
         /\ xw.result \in Word /\ xw.store \in Word /\ xw.amo_addr \in Word /\ xw.amo_b \in Word
         /\ mem \in Memory /\ ld_w0 \in Word
  BY DEF TypeOK

\* The F/X register.
LEMMA FxFields ==
  ASSUME TypeOK
  PROVE  /\ fx.valid \in BOOLEAN /\ fx.pc \in Word /\ fx.instr \in Instr
         /\ fx.pred_taken \in BOOLEAN /\ fx.pred_target \in Word /\ fx.ghist \in 0 .. GhrMod - 1
  BY DEF TypeOK

\* What the F stage reads.
LEMMA FrontFields ==
  ASSUME TypeOK
  PROVE  /\ pc \in Word /\ pc \in Nat /\ prog[pc] \in Instr /\ prog[pc].len \in Nat
         /\ ras_ptr \in Nat /\ ras_cnt \in Nat /\ RAS_N \in Nat \ {0}
         /\ \A e \in 0 .. RAS_N - 1 : ras[e] \in Word
         /\ \A e \in 0 .. BtbEntries - 1 : btb[e].tgt \in Word
<1>1. pc \in Word /\ prog \in [Word -> Instr]
  BY DEF TypeOK, Program
<1>2. prog[pc] \in Instr /\ prog[pc].len \in Nat /\ pc \in Nat
  BY <1>1, InstrFields, WordIsNat
<1>3. ras_ptr \in Nat /\ ras_cnt \in Nat /\ RAS_N \in Nat \ {0}
  BY CoreAssumption DEF TypeOK
<1>4. \A e \in 0 .. RAS_N - 1 : ras[e] \in Word
  BY DEF TypeOK
<1>5. \A e \in 0 .. BtbEntries - 1 : btb[e].tgt \in Word
  BY DEF TypeOK
<1> QED
  BY <1>1, <1>2, <1>3, <1>4, <1>5

\* What X reads besides its operands.
LEMMA CsrFields ==
  ASSUME TypeOK
  PROVE  csr \in CsrState /\ csr.mepc \in Word /\ md.result \in Word
<1>1. csr \in CsrState /\ md.result \in Word
  BY DEF TypeOK
<1> QED
  BY <1>1 DEF CsrState

\* The instruction in X.
LEMMA XFields ==
  ASSUME TypeOK
  PROVE  /\ i \in Instr /\ i.rd \in Reg /\ i.rs1 \in Reg /\ i.rs2 \in Reg
         /\ i.imm \in Word /\ i.imm \in Nat /\ i.len \in Nat /\ fx.pc \in Nat
  BY FxFields, InstrFields, WordIsNat DEF i

\* The data memory port carries a word (dmem_rdata).
LEMMA MemoryPortType ==
  ASSUME TypeOK
  PROVE  dmem_addr \in Nat /\ dmem_rdata \in Word
<1>1. dmem_addr \in Nat
  BY XwFields, AlignType, WordIsNat DEF dmem_addr
<1> QED
  BY <1>1, XwFields, MemType, FromLanesType DEF dmem_rdata

\* Load assembly gives a word, for one beat and for two (w_load).
LEMMA LoadType ==
  ASSUME TypeOK
  PROVE  w_load \in Word
<1>1. lo \in 0 .. 1
  BY XwFields, WordIsNat DEF lo
<1>2. \A k \in Int : ld_comb(k) \in Lane
  BY XwFields, MemoryPortType, LaneOfType, WordIsNat DEF ld_comb
<1> QED
  BY <1>1, <1>2, FromLanesType, ExtendType DEF w_load

\* The value W writes back is a word (w_wb).
LEMMA WritebackType ==
  ASSUME TypeOK
  PROVE  w_wb \in Word
<1>1. amo_wb \in Word
  BY XwFields, MemoryPortType, WordIsNat, Zenon DEF amo_wb
<1> QED
  BY <1>1, XwFields, LoadType DEF w_wb

\* An operand is a word, forwarded or not (op1, op2).
LEMMA OperandType ==
  ASSUME TypeOK, NEW r \in Reg
  PROVE  op(r) \in Word
  BY WritebackType, WordIsNat DEF op, TypeOK

\* The results of X are words.
LEMMA ExecuteType ==
  ASSUME TypeOK
  PROVE  /\ op1 \in Word /\ op2 \in Word /\ alu_y \in Word /\ seq_nx \in Word
         /\ br_actual_next \in Word
<1>1. op1 \in Word /\ op2 \in Word /\ op1 \in Nat /\ op2 \in Nat
  BY XFields, OperandType, WordIsNat DEF op1, op2
<1>2. alu_y \in Word
  BY <1>1, XFields, AddXType DEF alu_y
<1>3. seq_nx \in Word
  BY XFields, AddXType DEF seq_nx
<1>4. br_actual_next \in Word
  BY <1>3, XFields, AddXType DEF br_actual_next
<1> QED
  BY <1>1, <1>2, <1>3, <1>4

\* So are the redirect target and the value handed to W.
LEMMA ResultType ==
  ASSUME TypeOK
  PROVE  redirect_target \in Word /\ x_result \in Word
<1>1. AddX(op1, i.imm) \in Word
  <2>1. op1 \in Nat
    BY ExecuteType, WordIsNat
  <2> QED
    BY <2>1, XFields, AddXType
<1>2. redirect_target \in Word
  BY <1>1, CsrFields, ExecuteType, Sizes, Zenon DEF redirect_target
<1>3. x_result \in Word
  BY <1>1, CsrFields, ExecuteType, CsrReadType, Zenon DEF x_result
<1> QED
  BY <1>2, <1>3

\* Every pc has a BTB entry and a tag.
LEMMA BtbIndexType ==
  ASSUME NEW p \in Word
  PROVE  BtbIdx(p) \in 0 .. BtbEntries - 1 /\ BtbTag(p) \in Nat
<1>1. BtbEntries \in Nat \ {0} /\ p \in Nat
  BY CoreAssumption, WordIsNat
<1>2. p % BtbEntries \in 0 .. BtbEntries - 1
  BY <1>1, ModType
<1>3. p \div BtbEntries \in Nat
  BY <1>1, DivType
<1> QED
  BY <1>2, <1>3 DEF BtbIdx, BtbTag

\* What F predicts: an instruction and a target that is a word.
LEMMA FetchType ==
  ASSUME TypeOK
  PROVE  /\ fetched \in Instr /\ predict_target_f \in Word /\ predict_taken_f \in BOOLEAN
         /\ AddX(pc, fetched.len) \in Word /\ ras_top \in 0 .. RAS_N - 1
<1>1. fetched \in Instr
  BY FrontFields DEF fetched
<1>2. ras_top \in 0 .. RAS_N - 1
  <2>1. ras_ptr + RAS_N - 1 \in Int /\ RAS_N \in Nat \ {0}
    BY FrontFields
  <2> QED
    BY <2>1, ModType DEF ras_top
<1>3. predict_target_f \in Word
  <2>1. ras[ras_top] \in Word
    BY <1>2, FrontFields
  <2>2. BtbIdx(pc) \in 0 .. BtbEntries - 1
    BY FrontFields, BtbIndexType
  <2>3. btb[BtbIdx(pc)].tgt \in Word
    BY <2>2, FrontFields
  <2> QED
    BY <2>1, <2>3 DEF predict_target_f
<1>4. predict_taken_f \in BOOLEAN
  BY DEF predict_taken_f
<1>5. AddX(pc, fetched.len) \in Word
  BY FrontFields, AddXType DEF fetched
<1> QED
  BY <1>1, <1>2, <1>3, <1>4, <1>5

----------------------------------------------------------------------------
(* What each always_ff block leaves in its registers.                      *)
FxType == [valid : BOOLEAN, pc : Word, instr : Instr, pred_taken : BOOLEAN,
           pred_target : Word, ghist : 0 .. GhrMod - 1]

\* F stage registers.
LEMMA FetchEdgeType ==
  ASSUME TypeOK, FetchEdge
  PROVE  pc' \in Word /\ straddle' \in BOOLEAN /\ fx' \in FxType
<1>1. /\ fx \in FxType /\ pc \in Word /\ straddle \in BOOLEAN
      /\ dbg.dpc \in Word /\ ghist \in 0 .. GhrMod - 1
  BY DEF TypeOK, FxType
<1>2. [fx EXCEPT !.valid = FALSE] \in FxType
  BY <1>1 DEF FxType
<1>3. [valid |-> TRUE, pc |-> pc, instr |-> fetched, ghist |-> ghist,
       pred_taken |-> predict_taken_f, pred_target |-> predict_target_f] \in FxType
  BY <1>1, FetchType DEF FxType
<1>4. (IF predict_taken_f THEN predict_target_f ELSE AddX(pc, fetched.len)) \in Word
  BY FetchType
<1> QED
  BY <1>1, <1>2, <1>3, <1>4, ResultType DEF FetchEdge

\* Return address stack: pointer and count stay in range at both ends.
LEMMA RasEdgeType ==
  ASSUME TypeOK, RasEdge
  PROVE  /\ ras' \in [0 .. RAS_N - 1 -> Word] /\ ras_ptr' \in 0 .. RAS_N - 1
         /\ ras_cnt' \in 0 .. RAS_N
<1>1. /\ ras \in [0 .. RAS_N - 1 -> Word] /\ ras_ptr \in 0 .. RAS_N - 1
      /\ ras_cnt \in 0 .. RAS_N /\ RAS_N \in Nat \ {0}
  BY CoreAssumption DEF TypeOK
<1>2. (ras_ptr + 1) % RAS_N \in 0 .. RAS_N - 1
  BY <1>1, ModType
<1>3. [ras EXCEPT ![ras_ptr] = AddX(pc, fetched.len)] \in [0 .. RAS_N - 1 -> Word]
  BY <1>1, FetchType
<1>4. ras_predict => ras_cnt - 1 \in 0 .. RAS_N
  BY <1>1 DEF ras_predict
<1>5. (IF ras_cnt # RAS_N THEN ras_cnt + 1 ELSE ras_cnt) \in 0 .. RAS_N
  BY <1>1
<1> QED
  BY <1>1, <1>2, <1>3, <1>4, <1>5, FetchType DEF RasEdge

\* Branch predictor: counters saturate, the history wraps.
LEMMA BpredEdgeType ==
  ASSUME TypeOK, BpredEdge
  PROVE  /\ btb' \in [0 .. BtbEntries - 1 ->
                        [valid : BOOLEAN, tag : Nat, tgt : Word, isjal : BOOLEAN]]
         /\ bht' \in [0 .. BhtEntries - 1 -> 0 .. 3] /\ ghist' \in 0 .. GhrMod - 1
<1> DEFINE e == BhtIndex(fx.pc, fx.ghist)
           Entry == [valid : BOOLEAN, tag : Nat, tgt : Word, isjal : BOOLEAN]
<1>1. /\ btb \in [0 .. BtbEntries - 1 -> Entry]
      /\ bht \in [0 .. BhtEntries - 1 -> 0 .. 3] /\ ghist \in 0 .. GhrMod - 1
  BY DEF TypeOK
<1>2. GhrMod \in Nat \ {0}
  BY CoreAssumption
<1>3. (2 * ghist + Bit(br_actual_taken)) % GhrMod \in 0 .. GhrMod - 1
  <2>1. Bit(br_actual_taken) \in Int /\ ghist \in Int
    BY <1>1, BitType
  <2>2. 2 * ghist + Bit(br_actual_taken) \in Int
    BY <2>1
  <2> QED
    BY <1>2, <2>2, ModType
<1>4. [bht EXCEPT ![e] = IF br_actual_taken THEN (IF @ = 3 THEN 3 ELSE @ + 1)
                                           ELSE (IF @ = 0 THEN 0 ELSE @ - 1)]
        \in [0 .. BhtEntries - 1 -> 0 .. 3]
  <2>1. \A b \in 0 .. 3 : (IF br_actual_taken THEN (IF b = 3 THEN 3 ELSE b + 1)
                                               ELSE (IF b = 0 THEN 0 ELSE b - 1)) \in 0 .. 3
    OBVIOUS
  <2> QED
    BY <1>1, <2>1, Zenon
<1>5. [btb EXCEPT ![BtbIdx(fx.pc)] =
         [valid |-> TRUE, tag |-> BtbTag(fx.pc),
          tgt |-> AddX(fx.pc, i.imm), isjal |-> i.op = "jal"]]
        \in [0 .. BtbEntries - 1 -> Entry]
  <2>1. [valid |-> TRUE, tag |-> BtbTag(fx.pc),
         tgt |-> AddX(fx.pc, i.imm), isjal |-> i.op = "jal"] \in Entry
    <3>1. BtbTag(fx.pc) \in Nat
      BY FxFields, BtbIndexType
    <3>2. AddX(fx.pc, i.imm) \in Word
      BY XFields, AddXType
    <3>3. (i.op = "jal") \in BOOLEAN
      OBVIOUS
    <3> QED
      BY <3>1, <3>2, <3>3
  <2> QED
    BY <1>1, <2>1
<1> QED
  BY <1>1, <1>3, <1>4, <1>5 DEF BpredEdge

\* Multiply/divide unit: the down-counter never passes zero.
LEMMA MuldivEdgeType ==
  ASSUME TypeOK, MuldivEdge
  PROVE  /\ md' \in [cnt : 0 .. DivCycles, done : BOOLEAN, result : Word]
         /\ md_inflight' \in BOOLEAN
<1>1. /\ md \in [cnt : 0 .. DivCycles, done : BOOLEAN, result : Word]
      /\ md_inflight \in BOOLEAN /\ DivCycles \in Nat \ {0}
  BY CoreAssumption DEF TypeOK
<1>2. MdOp(i.fn, op1, op2) \in Word
  BY ExecuteType, MdOpType
<1>3. [cnt |-> IF i.fn = "mul" \/ op2 = 0 THEN 1 ELSE DivCycles,
       done |-> FALSE, result |-> MdOp(i.fn, op1, op2)]
        \in [cnt : 0 .. DivCycles, done : BOOLEAN, result : Word]
  BY <1>1, <1>2
<1>4. [md EXCEPT !.cnt = IF md.cnt = 0 THEN 0 ELSE md.cnt - 1, !.done = md.cnt = 1]
        \in [cnt : 0 .. DivCycles, done : BOOLEAN, result : Word]
  <2>1. (IF md.cnt = 0 THEN 0 ELSE md.cnt - 1) \in 0 .. DivCycles
    BY <1>1
  <2>2. (md.cnt = 1) \in BOOLEAN
    OBVIOUS
  <2> QED
    BY <1>1, <2>1, <2>2
<1>5. md_inflight' \in BOOLEAN
  BY <1>1 DEF MuldivEdge, md_start
<1> QED
  BY <1>3, <1>4, <1>5 DEF MuldivEdge

XwType == [valid : BOOLEAN, instr : Instr, result : Word, store : Word, reg_we : BOOLEAN,
           mem_re : BOOLEAN, mem_we : BOOLEAN, is_amo : BOOLEAN, amo_addr : Word, amo_b : Word]

\* X/W register.
LEMMA XWEdgeType ==
  ASSUME TypeOK, XWEdge
  PROVE  xw' \in XwType
<1>1. xw \in XwType
  BY DEF TypeOK, XwType
<1>2. x_commit \in BOOLEAN /\ ex_trap \in BOOLEAN /\ WritesRd(i) \in BOOLEAN /\ IsAtomic(i) \in BOOLEAN
  BY DEF x_commit, ex_trap, WritesRd, IsAtomic
<1>3. /\ i \in Instr /\ x_result \in Word /\ op1 \in Word /\ op2 \in Word
  BY XFields, ResultType, ExecuteType
<1> QED
  BY <1>1, <1>2, <1>3 DEF XWEdge, XwType

\* Second-beat flag and the word the first beat read.
LEMMA BeatEdgeType ==
  ASSUME TypeOK, BeatEdge
  PROVE  beat2' \in BOOLEAN /\ ld_w0' \in Word
<1>1. mem_beat_stall \in BOOLEAN
  BY DEF mem_beat_stall, mem_mis, amo_rmw_b1, amo_here
<1> QED
  BY <1>1, MemoryPortType, XwFields DEF BeatEdge

\* LR/SC reservation.
LEMMA ReservationEdgeType ==
  ASSUME TypeOK, ReservationEdge
  PROVE  resv' \in Word \cup {NoResv}
<1>1. resv \in Word \cup {NoResv}
  BY DEF TypeOK
<1> QED
  BY <1>1, XwFields, AlignType DEF ReservationEdge

\* Data memory.
LEMMA MemEdgeType ==
  ASSUME TypeOK, MemEdge
  PROVE  mem' \in Memory
<1>1. AmoOp(xw.instr.fn, ld_w0, xw.amo_b) \in Word
  BY XwFields, AmoOpType
<1>2. \A j : dmem_wdata(j) \in Lane
  BY <1>1, XwFields, LaneOfType DEF dmem_wdata
<1>3. \A l \in 0 .. MemLanes - 1 : mem[l] \in Lane
  BY XwFields DEF Memory
<1> QED
  BY <1>2, <1>3 DEF MemEdge, Memory

\* The input pins.
LEMMA PinFields ==
  ASSUME TypeOK
  PROVE  /\ in.haltreq \in BOOLEAN /\ in.resumereq \in BOOLEAN /\ in.irq \in BOOLEAN
         /\ in.ar.valid \in BOOLEAN /\ in.ar.write \in BOOLEAN /\ in.ar.csr \in BOOLEAN
         /\ in.ar.wdata \in Word /\ (~in.ar.csr => in.ar.regno \in Reg)
<1>1. in \in [irq : BOOLEAN, haltreq : BOOLEAN, resumereq : BOOLEAN, ar : Access]
  BY CoreAssumption DEF TypeOK
<1>2. in.ar \in Access
  BY <1>1
<1> QED
  BY <1>1, <1>2 DEF Access

\* Register file: the debugger and W write words to existing registers.
LEMMA RegfileEdgeType ==
  ASSUME TypeOK, RegfileEdge
  PROVE  regs' \in [Reg -> Word]
<1>1. regs \in [Reg -> Word]
  BY DEF TypeOK
<1> QED
  BY <1>1, PinFields, WritebackType, XwFields, InstrFields DEF RegfileEdge

\* CSR file.
LEMMA CsrEdgeType ==
  ASSUME TypeOK, CsrEdge
  PROVE  csr' \in CsrState
<1>1. ex_cause \in Causes
  BY Zenon DEF ex_cause, Causes
<1>2. "interrupt" \in Causes
  BY DEF Causes
<1>3. CsrTrap(csr, IF ex_trap THEN ex_cause ELSE "interrupt",
                   IF ex_trap THEN fx.pc ELSE seq_nx) \in CsrState
  <2>1. (IF ex_trap THEN ex_cause ELSE "interrupt") \in Causes
    BY <1>1, <1>2
  <2>2. (IF ex_trap THEN fx.pc ELSE seq_nx) \in Word
    BY FxFields, ExecuteType
  <2> QED
    BY <2>1, <2>2, CsrFields, CsrTrapType
<1>4. CsrMret(csr) \in CsrState
  BY CsrFields, CsrMretType
<1>5. CsrWrite(csr, in.ar.regno, in.ar.wdata) \in CsrState
  BY CsrFields, PinFields, CsrWriteType
<1>6. CsrWrite(csr, i.csr, CsrNew(i, CsrRead(csr, i.csr), CsrSource(i, op1))) \in CsrState
  <2>1. CsrRead(csr, i.csr) \in Word /\ CsrSource(i, op1) \in Word
    BY CsrFields, CsrReadType, CsrSourceType, XFields, ExecuteType
  <2>2. CsrNew(i, CsrRead(csr, i.csr), CsrSource(i, op1)) \in Word
    BY <2>1, CsrNewType
  <2> QED
    BY <2>2, CsrFields, CsrWriteType
<1> QED
  BY <1>3, <1>4, <1>5, <1>6, CsrFields DEF CsrEdge

DbgType == [mode : BOOLEAN, halt_req : BOOLEAN, step_active : BOOLEAN, dpc : Word,
            ebreakm : BOOLEAN, step : BOOLEAN, cause : {"none", "ebreak", "step", "haltreq"},
            ar_busy : BOOLEAN, ar_done : BOOLEAN, cap_valid : BOOLEAN, cap : Word]

\* Debug controller.
LEMMA DebugEdgeType ==
  ASSUME TypeOK, DebugEdge
  PROVE  dbg' \in DbgType
<1>1. dbg \in DbgType
  BY DEF TypeOK, DbgType
<1>2. /\ dbg.mode \in BOOLEAN /\ dbg.halt_req \in BOOLEAN /\ dbg.step_active \in BOOLEAN
      /\ dbg.dpc \in Word /\ dbg.ebreakm \in BOOLEAN /\ dbg.step \in BOOLEAN
      /\ dbg.cause \in {"none", "ebreak", "step", "haltreq"} /\ dbg.ar_busy \in BOOLEAN
      /\ dbg.cap_valid \in BOOLEAN /\ dbg.cap \in Word
  BY <1>1 DEF DbgType
<1>3. /\ dbg_do \in BOOLEAN /\ dbg_resume_now \in BOOLEAN /\ ebreak_to_debug \in BOOLEAN
      /\ step_halt_now \in BOOLEAN /\ pipe_drained \in BOOLEAN
  BY DEF dbg_do, dbg_resume_now, ebreak_to_debug, step_halt_now, pipe_drained
<1>4. pc \in Word /\ fx.pc \in Word
  BY DEF TypeOK
<1> QED
  BY <1>2, <1>3, <1>4, PinFields DEF DebugEdge, DbgType

\* Every register of the core keeps a value of its width, whatever the
\* program, the data and the pins.
THEOREM CoreTypeOK == Spec => []TypeOK
<1>1. Init => TypeOK
  <2> SUFFICES ASSUME Init PROVE TypeOK
    OBVIOUS
  <2>1. Illegal \in Instr
    BY Sizes, WordIsNat DEF Illegal, Instr, Ops, Fns, Csrs
  <2>2. in \in Inputs /\ prog \in Program /\ mem \in Memory
    BY CoreAssumption DEF Init
  <2>3. /\ BtbEntries \in Nat \ {0} /\ RAS_N \in Nat \ {0} /\ DivCycles \in Nat \ {0}
        /\ BhtEntries \in Nat \ {0} /\ GhrMod \in Nat \ {0} /\ 0 \in Word
    BY CoreAssumption, WordIsNat
  <2>4. csr \in CsrState
    BY <2>3 DEF Init, Csr0, CsrState, Causes
  <2>5. fx \in FxType /\ xw \in XwType /\ dbg \in DbgType
    BY <2>1, <2>3 DEF Init, FxType, XwType, DbgType
  <2>6. btb \in [0 .. BtbEntries - 1 ->
                    [valid : BOOLEAN, tag : Nat, tgt : Word, isjal : BOOLEAN]]
    BY <2>3 DEF Init, NoEntry
  <2>7. /\ bht \in [0 .. BhtEntries - 1 -> 0 .. 3] /\ ghist \in 0 .. GhrMod - 1
        /\ ras \in [0 .. RAS_N - 1 -> Word] /\ ras_ptr \in 0 .. RAS_N - 1
        /\ ras_cnt \in 0 .. RAS_N
    BY <2>3 DEF Init
  <2>8. /\ md \in [cnt : 0 .. DivCycles, done : BOOLEAN, result : Word]
    BY <2>3 DEF Init
  <2>9. /\ md_inflight \in BOOLEAN /\ regs \in [Reg -> Word] /\ resv \in Word \cup {NoResv}
        /\ pc \in Word /\ straddle \in BOOLEAN /\ beat2 \in BOOLEAN /\ ld_w0 \in Word
    BY <2>3 DEF Init
  <2> QED
    BY <2>2, <2>4, <2>5, <2>6, <2>7, <2>8, <2>9 DEF TypeOK, FxType, XwType, DbgType
<1>2. TypeOK /\ [Next]_vars => TypeOK'
  <2> SUFFICES ASSUME TypeOK, [Next]_vars PROVE TypeOK'
    OBVIOUS
  <2>1. CASE Next
    <3>1. /\ FetchEdge /\ RasEdge /\ BpredEdge /\ MuldivEdge /\ XWEdge /\ BeatEdge
          /\ ReservationEdge /\ MemEdge /\ RegfileEdge /\ CsrEdge /\ DebugEdge
          /\ in' \in Inputs /\ prog' = prog
      BY <2>1 DEF Next
    <3>2. prog' \in Program
      BY <3>1 DEF TypeOK
    <3> QED
      BY <3>1, <3>2, FetchEdgeType, RasEdgeType, BpredEdgeType, MuldivEdgeType, XWEdgeType,
         BeatEdgeType, ReservationEdgeType, MemEdgeType, RegfileEdgeType, CsrEdgeType,
         DebugEdgeType DEF TypeOK, FxType, XwType, DbgType
  <2>2. CASE UNCHANGED vars
    BY <2>2 DEF vars, TypeOK
  <2> QED
    BY <2>1, <2>2
<1> QED
  BY <1>1, <1>2, PTL DEF Spec

----------------------------------------------------------------------------
(* Prediction.  The inductive invariant adds to the two properties that X  *)
(* holds what the program has at its pc, and that the program stays.       *)
FromProgram == prog \in Programs /\ (fx.valid => fx.instr = prog[fx.pc])

\* The F/X register becomes a bubble, is held, or takes the fetched instruction.
LEMMA FetchCases ==
  ASSUME TypeOK, FetchEdge
  PROVE  \/ ~fx'.valid
         \/ fx' = fx
         \/ fx'.instr = fetched /\ fx'.pc = pc /\ fx'.pred_taken = predict_taken_f
<1>1. fx \in FxType
  BY DEF TypeOK, FxType
<1>2. [fx EXCEPT !.valid = FALSE].valid = FALSE
  BY <1>1 DEF FxType
<1>3. CASE fx' = [fx EXCEPT !.valid = FALSE]
  BY <1>2, <1>3, Zenon
<1>4. CASE fx' = [valid |-> TRUE, pc |-> pc, instr |-> fetched, ghist |-> ghist,
                  pred_taken |-> predict_taken_f, pred_target |-> predict_target_f]
  BY <1>4
<1> QED
  BY <1>3, <1>4, Zenon DEF FetchEdge

\* A clock edge keeps FromProgram.
LEMMA FromProgramStep ==
  ASSUME TypeOK, FromProgram, Next
  PROVE  FromProgram'
<1>1. prog' = prog /\ FetchEdge
  BY DEF Next
<1> QED
  BY <1>1, FetchCases DEF FromProgram, fetched

\* The instruction in X is the one the program has at its pc.
LEMMA FromProgramInv == Spec => []FromProgram
<1>1. Init => FromProgram
  BY DEF Init, FromProgram
<1>2. TypeOK /\ FromProgram /\ [Next]_vars => FromProgram'
  BY FromProgramStep DEF FromProgram, vars
<1> QED
  BY <1>1, <1>2, CoreTypeOK, PTL DEF Spec

\* A clock edge keeps every BTB entry sound: the only entry written
\* describes the instruction in X, and index and tag determine its pc.
LEMMA BtbSoundStep ==
  ASSUME TypeOK, FromProgram, BtbSound, Next
  PROVE  BtbSound'
<1> SUFFICES ASSUME NEW p \in Word,
                    btb'[BtbIdx(p)].valid, btb'[BtbIdx(p)].tag = BtbTag(p)
             PROVE  /\ prog[p].op \in {"branch", "jal"}
                    /\ btb'[BtbIdx(p)].tgt = AddX(p, prog[p].imm)
  BY DEF Next, BtbSound, BtbIdx, BtbTag
<1> DEFINE upd == fx.valid /\ ~ex_freeze /\ ~ex_trap /\ i.op \in {"branch", "jal"}
           new == [valid |-> TRUE, tag |-> BtbTag(fx.pc),
                   tgt |-> AddX(fx.pc, i.imm), isjal |-> i.op = "jal"]
<1>1. btb' = IF upd /\ br_actual_taken THEN [btb EXCEPT ![BtbIdx(fx.pc)] = new] ELSE btb
  BY DEF Next, BpredEdge
<1>2. BtbIdx(p) \in 0 .. BtbEntries - 1 /\ BtbIdx(fx.pc) \in 0 .. BtbEntries - 1
  BY FxFields, BtbIndexType
<1>3. CASE upd /\ br_actual_taken /\ BtbIdx(p) = BtbIdx(fx.pc)
  <2>1. DOMAIN btb = 0 .. BtbEntries - 1
    BY DEF TypeOK
  <2>2. btb'[BtbIdx(p)] = new
    BY <1>1, <1>2, <1>3, <2>1
  <2>3. BtbTag(p) = BtbTag(fx.pc)
    BY <2>2
  <2>4. p \in Nat /\ fx.pc \in Nat /\ BtbEntries \in Nat \ {0}
    BY FxFields, WordIsNat, CoreAssumption
  <2>5. p = fx.pc
    BY <1>3, <2>3, <2>4, DivModUnique DEF BtbIdx, BtbTag
  <2>6. prog[p] = i
    BY <1>3, <2>5 DEF FromProgram, i
  <2> QED
    BY <1>3, <2>2, <2>5, <2>6
<1>4. CASE ~(upd /\ br_actual_taken /\ BtbIdx(p) = BtbIdx(fx.pc))
  <2>1. btb'[BtbIdx(p)] = btb[BtbIdx(p)]
    BY <1>1, <1>4
  <2> QED
    BY <2>1 DEF BtbSound
<1> QED
  BY <1>3, <1>4

\* Halfword-granular indexing and full tags are enough: for every table size
\* and every program a BTB entry describes the branch or jump at its pc.
THEOREM CoreBtbSound == Spec => []BtbSound
<1>1. Init => BtbSound
  <2> SUFFICES ASSUME Init, NEW p \in Word PROVE ~btb[BtbIdx(p)].valid
    BY DEF BtbSound
  <2> QED
    BY BtbIndexType DEF Init, NoEntry
<1>2. TypeOK /\ FromProgram /\ BtbSound /\ [Next]_vars => BtbSound'
  <2>1. BtbSound /\ UNCHANGED vars => BtbSound'
    BY DEF BtbSound, vars, BtbIdx, BtbTag
  <2> QED
    BY <2>1, BtbSoundStep
<1> QED
  BY <1>1, <1>2, CoreTypeOK, FromProgramInv, PTL DEF Spec

\* For every program and every predictor geometry, only a branch, JAL or JALR
\* reaches X predicted taken: what the redirect mux of X leaves uncorrected
\* needs no correction.
THEOREM CorePredictedIsControl == Spec => []PredictedIsControl
<1>1. Init => PredictedIsControl
  BY DEF Init, PredictedIsControl
<1>2. ASSUME TypeOK, BtbSound, PredictedIsControl, Next
      PROVE  PredictedIsControl'
  <2>1. FetchEdge
    BY <1>2 DEF Next
  <2>2. predict_taken_f => fetched.op \in {"branch", "jal", "jalr"}
    <3>1. ras_predict => fetched.op = "jalr"
      BY DEF ras_predict, f_is_ret
    <3>2. predict_taken => fetched.op \in {"branch", "jal"}
      BY <1>2, FrontFields DEF predict_taken, btb_hit, BtbSound, fetched
    <3> QED
      BY <3>1, <3>2 DEF predict_taken_f
  <2> QED
    BY <1>2, <2>1, <2>2, FetchCases DEF PredictedIsControl, IsControl
<1>3. PredictedIsControl /\ UNCHANGED vars => PredictedIsControl'
  BY DEF PredictedIsControl, IsControl, vars
<1> QED
  BY <1>1, <1>2, <1>3, CoreTypeOK, CoreBtbSound, PTL DEF Spec

----------------------------------------------------------------------------
(* Traps.                                                                  *)
NoFencei == \A p \in Programs, a \in Word : p[a].op # "fencei"

\* In every program without FENCE.I a trap or interrupt, once taken, continues
\* at mtvec.  (With FENCE.I it does not: run fencei_irq.)
THEOREM CoreTrapVectors ==
  ASSUME NoFencei
  PROVE  Spec => TrapVectors
<1>1. ASSUME TypeOK, FromProgram, Next, m_trap_set
      PROVE  pc' = MTVEC /\ ~fx'.valid
  <2>1. fx.valid /\ fx.instr = prog[fx.pc] /\ ~ex_freeze
    BY <1>1 DEF m_trap_set, take_irq, ex_trap, FromProgram
  <2>2. i.op # "fencei"
    BY <1>1, <2>1, NoFencei, FxFields DEF NoFencei, FromProgram, i
  <2>3. redirect
    BY <1>1, <2>1 DEF m_trap_set, redirect
  <2>4. ex_trap => i.op \in {"illegal", "ecall", "ebreak"}
    BY DEF ex_trap
  <2>5. ~ex_trap => i.op \notin {"mret", "jal", "jalr", "branch"}
    BY <1>1 DEF m_trap_set, take_irq
  <2>6. redirect_target = MTVEC
    BY <2>2, <2>4, <2>5, Zenon DEF redirect_target
  <2>7. pc' = redirect_target /\ fx' = [fx EXCEPT !.valid = FALSE]
    BY <1>1, <2>3 DEF Next, FetchEdge
  <2>8. fx \in FxType
    BY <1>1 DEF TypeOK, FxType
  <2> QED
    BY <2>6, <2>7, <2>8 DEF FxType
<1>2. TypeOK /\ FromProgram /\ [Next]_vars =>
        [m_trap_set => pc' = MTVEC /\ ~fx'.valid]_vars
  BY <1>1
<1> QED
  BY <1>2, CoreTypeOK, FromProgramInv, PTL DEF Spec, TrapVectors

----------------------------------------------------------------------------
(* The two beats of a memory access, and the multiply/divide unit.         *)

\* After a stalled beat W keeps its instruction and does not stall again.
LEMMA SecondBeat ==
  ASSUME Next, mem_beat_stall
  PROVE  beat2' /\ xw' = xw /\ ~mem_beat_stall'
<1>1. beat2' = mem_beat_stall /\ xw' = xw
  BY DEF Next, BeatEdge, XWEdge
<1> QED
  BY <1>1 DEF mem_beat_stall, mem_mis, lo, amo_rmw_b1, amo_here

\* In every program and under every sequence of pins, debug requests
\* included, a second beat belongs to the access that took the first.
THEOREM CoreBeatsPaired == Spec => []BeatsPaired
<1>1. Init => BeatsPaired
  BY DEF Init, BeatsPaired
<1>2. BeatsPaired /\ [Next]_vars => BeatsPaired'
  <2>1. ASSUME Next PROVE BeatsPaired'
    <3>1. beat2' = mem_beat_stall
      BY <2>1 DEF Next, BeatEdge
    <3>2. CASE mem_beat_stall
      <4>1. beat2' /\ xw' = xw /\ ~mem_beat_stall'
        BY <2>1, <3>2, SecondBeat
      <4>2. xw.valid /\ (mem_mis \/ (amo_here /\ xw.instr.op = "amo"))
        BY <3>2 DEF mem_beat_stall, amo_rmw_b1, amo_here, mem_mis
      <4> QED
        BY <4>1, <4>2 DEF BeatsPaired, mem_mis, lo, amo_here, amo_rmw_b2
    <3>3. CASE ~mem_beat_stall
      BY <3>1, <3>3 DEF BeatsPaired
    <3> QED
      BY <3>2, <3>3
  <2>2. BeatsPaired /\ UNCHANGED vars => BeatsPaired'
    BY DEF BeatsPaired, vars, mem_mis, lo, amo_here, amo_rmw_b2, amo_rmw_b1, mem_beat_stall
  <2> QED
    BY <2>1, <2>2
<1> QED
  BY <1>1, <1>2, PTL DEF Spec

----------------------------------------------------------------------------
(* The debug controller.                                                   *)

\* X is empty from the moment a halt is due; a halted hart has drained.
DebugInv ==
  /\ dbg.mode => ~fx.valid /\ ~xw.valid /\ ~dbg.halt_req /\ ~dbg.step_active
  /\ dbg.halt_req => ~fx.valid
  /\ dbg.cap_valid => dbg.halt_req

\* A redirect, a resume and a debug freeze leave a bubble in the F/X register.
LEMMA FlushedOrFrozen ==
  ASSUME TypeOK, FetchEdge, redirect \/ dbg_resume_now \/ dbg_freeze
  PROVE  ~fx'.valid
<1>1. fx \in FxType
  BY DEF TypeOK, FxType
<1>2. [fx EXCEPT !.valid = FALSE].valid = FALSE
  BY <1>1 DEF FxType
<1>3. dbg_resume_now => dbg_freeze
  BY DEF dbg_resume_now, dbg_freeze
<1>4. \/ fx' = [fx EXCEPT !.valid = FALSE]
      \/ ~redirect /\ ~dbg_freeze
  BY Zenon DEF FetchEdge
<1> QED
  BY <1>2, <1>3, <1>4

\* Without an instruction in X, W becomes empty once it does not stall.
LEMMA Drains ==
  ASSUME Next, ~fx.valid, ~xw.valid
  PROVE  ~xw'.valid
<1>1. ~mem_beat_stall /\ ~x_commit
  BY DEF mem_beat_stall, mem_mis, amo_rmw_b1, amo_here, x_commit
<1> QED
  BY <1>1 DEF Next, XWEdge

\* The debug controller's registers after an edge.
LEMMA DebugNext ==
  ASSUME TypeOK, Next
  PROVE  LET enter == dbg.halt_req /\ ~dbg.mode /\ pipe_drained IN
         /\ dbg'.mode <=> (dbg.mode \/ enter) /\ ~dbg_resume_now
         /\ dbg'.halt_req <=> ~enter /\ (dbg.halt_req \/
              (~dbg.mode /\ (in.haltreq \/ ebreak_to_debug \/ step_halt_now)))
         /\ dbg'.step_active = IF dbg_resume_now THEN dbg.step ELSE dbg.step_active /\ ~enter
         /\ dbg'.cap_valid <=> ~enter /\ (dbg.cap_valid \/ ebreak_to_debug)
  BY DEF Next, DebugEdge

\* A clock edge keeps DebugInv.
LEMMA DebugInvStep ==
  ASSUME TypeOK, DebugInv, Next
  PROVE  DebugInv'
<1> DEFINE enter == dbg.halt_req /\ ~dbg.mode /\ pipe_drained
<1>1. FetchEdge
  BY DEF Next
<1>2. dbg'.mode => ~fx'.valid /\ ~xw'.valid /\ ~dbg'.halt_req /\ ~dbg'.step_active
  <2> SUFFICES ASSUME dbg'.mode
               PROVE  ~fx'.valid /\ ~xw'.valid /\ ~dbg'.halt_req /\ ~dbg'.step_active
    OBVIOUS
  <2>1. (dbg.mode \/ enter) /\ ~dbg_resume_now
    BY DebugNext
  <2>2. ~fx.valid /\ ~xw.valid /\ dbg_freeze
    BY <2>1 DEF DebugInv, pipe_drained, dbg_freeze
  <2>3. ~fx'.valid /\ ~xw'.valid
    BY <1>1, <2>2, FlushedOrFrozen, Drains
  <2>4. ~dbg'.halt_req
    BY <2>1, DebugNext DEF DebugInv
  <2>5. ~dbg'.step_active
    BY <2>1, DebugNext, Zenon DEF DebugInv
  <2> QED
    BY <2>3, <2>4, <2>5
<1>3. dbg'.halt_req => ~fx'.valid
  <2> SUFFICES ASSUME dbg'.halt_req PROVE ~fx'.valid
    OBVIOUS
  <2>1. dbg_freeze
    BY DebugNext DEF dbg_freeze
  <2> QED
    BY <1>1, <2>1, FlushedOrFrozen
<1>4. dbg'.cap_valid => dbg'.halt_req
  BY DebugNext DEF DebugInv, ebreak_to_debug
<1> QED
  BY <1>2, <1>3, <1>4 DEF DebugInv

\* Debug mode is only entered with an empty pipeline, whatever the debugger
\* asks for and when.
LEMMA DebugInvariant == Spec => []DebugInv
<1>1. Init => DebugInv
  BY DEF Init, DebugInv
<1>2. DebugInv /\ UNCHANGED vars => DebugInv'
  BY DEF DebugInv, vars
<1> QED
  BY <1>1, <1>2, DebugInvStep, CoreTypeOK, PTL DEF Spec

\* Neither a halt request nor the end of a single step meets an instruction
\* that X holds.  (If one does, the instruction is dropped: run
\* halt_drops_multiply.)
HaltsBetween == in.haltreq \/ step_halt_now => ~(fx.valid /\ ex_freeze)

\* An X that is held and free of debug requests keeps its instruction.
LEMMA HeldWhileFrozen ==
  ASSUME TypeOK, DebugInv, HaltsBetween, Next, fx.valid, ex_freeze, ~ebreak_to_debug
  PROVE  pc' = pc /\ fx' = fx
<1>1. ~redirect /\ ~dbg_freeze /\ ~dbg_resume_now
  BY DEF redirect, DebugInv, HaltsBetween, dbg_freeze, dbg_resume_now
<1> QED
  BY <1>1, Zenon DEF Next, FetchEdge

\* With an orderly debugger, or none, an instruction that X has to hold stays
\* in X.
THEOREM CoreFrozenStays == Spec /\ []HaltsBetween => FrozenStays
<1>1. TypeOK /\ DebugInv /\ HaltsBetween /\ [Next]_vars =>
        [fx.valid /\ ex_freeze /\ ~ebreak_to_debug =>
           fx'.valid /\ fx'.pc = fx.pc /\ fx'.instr = fx.instr]_vars
  BY HeldWhileFrozen
<1> QED
  BY <1>1, CoreTypeOK, DebugInvariant, PTL DEF Spec, FrozenStays

\* The strengthening that makes MdInStep inductive: while the unit works W is
\* never on the first of two beats, because X sent it a bubble.
MdInv ==
  /\ md_inflight <=> md.cnt > 0 \/ md.done
  /\ ~(md.cnt > 0 /\ md.done)
  /\ md_inflight => fx.valid /\ fx.instr.op = "md" /\ ~mem_beat_stall

\* A multiply or divide in X that is not done sends W a bubble or, while W is
\* on its first beat, lets W finish.
LEMMA BubbleBehindMd ==
  ASSUME TypeOK, Next, md_stall
  PROVE  ~mem_beat_stall'
<1>1. CASE mem_beat_stall
  BY <1>1, SecondBeat
<1>2. CASE ~mem_beat_stall
  <2>1. xw'.valid = FALSE
    BY <1>2 DEF Next, XWEdge, x_commit
  <2> QED
    BY <2>1 DEF mem_beat_stall, mem_mis, amo_rmw_b1, amo_here
<1> QED
  BY <1>1, <1>2

\* A clock edge keeps MdInv: the unit starts, counts, delivers or idles.
LEMMA MdInvStep ==
  ASSUME TypeOK, DebugInv, HaltsBetween, MdInv, Next
  PROVE  MdInv'
<1>1. /\ md.cnt \in Nat /\ md.done \in BOOLEAN /\ md_inflight \in BOOLEAN
      /\ md \in [cnt : 0 .. DivCycles, done : BOOLEAN, result : Word]
      /\ DivCycles \in Nat \ {0}
  BY CoreAssumption DEF TypeOK
<1>2. MuldivEdge
  BY DEF Next
<1>3. CASE md_start
  <2>1. fx.valid /\ fx.instr.op = "md" /\ ~md_inflight /\ md.cnt = 0 /\ ~md.done
    BY <1>3 DEF md_start, MdInv, i
  <2>2. md_stall /\ ex_freeze /\ ~ebreak_to_debug
    BY <2>1 DEF md_stall, ex_freeze, i, ebreak_to_debug
  <2>3. fx' = fx /\ ~mem_beat_stall'
    BY <2>1, <2>2, HeldWhileFrozen, BubbleBehindMd
  <2>4. md_inflight' /\ md'.cnt > 0 /\ ~md'.done
    <3>1. md' = [cnt |-> IF i.fn = "mul" \/ op2 = 0 THEN 1 ELSE DivCycles,
                 done |-> FALSE, result |-> MdOp(i.fn, op1, op2)]
      BY <1>2, <1>3 DEF MuldivEdge
    <3>2. md_inflight' = IF md.done THEN FALSE ELSE md_inflight \/ md_start
      BY <1>2, Zenon DEF MuldivEdge
    <3>3. md'.cnt > 0 /\ md'.done = FALSE
      BY <1>1, <3>1
    <3> QED
      BY <1>3, <2>1, <3>2, <3>3, Zenon
  <2> QED
    BY <2>1, <2>3, <2>4, Zenon DEF MdInv
<1>4. CASE ~md_start
  <2>1. md'.cnt = (IF md.cnt = 0 THEN 0 ELSE md.cnt - 1) /\ md'.done = (md.cnt = 1)
    BY <1>1, <1>2, <1>4 DEF MuldivEdge
  <2>2. md_inflight' = IF md.done THEN FALSE ELSE md_inflight
    BY <1>1, <1>2, <1>4 DEF MuldivEdge
  <2>3. CASE md.cnt > 0
    <3>1. fx.valid /\ fx.instr.op = "md" /\ ~md.done /\ md_inflight
      BY <2>3 DEF MdInv
    <3>2. md_stall /\ ex_freeze /\ ~ebreak_to_debug
      BY <3>1 DEF md_stall, ex_freeze, i, ebreak_to_debug
    <3>3. fx' = fx /\ ~mem_beat_stall'
      BY <3>1, <3>2, HeldWhileFrozen, BubbleBehindMd
    <3>4. md_inflight'
      BY <2>2, <3>1
    <3>5. md.cnt = 1 => ~(md'.cnt > 0)
      BY <1>1, <2>1
    <3>6. md.cnt # 1 => md'.cnt > 0
      BY <1>1, <2>1, <2>3
    <3> QED
      BY <2>1, <3>1, <3>3, <3>4, <3>5, <3>6, Zenon DEF MdInv
  <2>4. CASE ~(md.cnt > 0)
    <3>1. md.cnt = 0
      BY <1>1, <2>4
    <3>2. ~(md'.cnt > 0)
      BY <2>1, <3>1
    <3>3. ~md'.done
      <4>1. md.cnt # 1
        BY <3>1
      <4> QED
        BY <2>1, <4>1, Zenon
    <3>4. ~md_inflight'
      BY <2>2, <2>4, Zenon DEF MdInv
    <3> QED
      BY <3>2, <3>3, <3>4, Zenon DEF MdInv
  <2> QED
    BY <2>3, <2>4
<1> QED
  BY <1>3, <1>4

\* With an orderly debugger, or none, the unit works in step with X.
LEMMA MdInvariant == Spec /\ []HaltsBetween => []MdInv
<1>1. Init => MdInv
  BY DEF Init, MdInv
<1>2. TypeOK /\ DebugInv /\ HaltsBetween /\ MdInv /\ [Next]_vars => MdInv'
  <2>1. MdInv /\ UNCHANGED vars => MdInv'
    BY DEF MdInv, vars, mem_beat_stall, mem_mis, lo, amo_rmw_b1, amo_here
  <2> QED
    BY <2>1, MdInvStep
<1> QED
  BY <1>1, <1>2, CoreTypeOK, DebugInvariant, PTL DEF Spec

\* For every program, divider latency and interrupt pattern, and with an
\* orderly debugger or none, the multiplier works for the instruction in X and
\* its one-cycle "done" is never missed.
THEOREM CoreMdInStep == Spec /\ []HaltsBetween => []MdInStep
<1>1. MdInv => MdInStep
  BY DEF MdInv, MdInStep
<1> QED
  BY <1>1, MdInvariant, PTL

----------------------------------------------------------------------------
(* How long it takes.  Liveness under fairness is out of reach here, but   *)
(* not the bound behind it: a natural number that every clock lowers until *)
(* what is awaited has happened.                                           *)

\* Clocks until the pipeline has drained once a halt is due: the second beat
\* of a memory access, then the instruction in W.
DrainLeft == IF mem_beat_stall THEN 2 ELSE IF xw.valid THEN 1 ELSE 0

\* An edge that hands W nothing ends W's stall.
LEMMA StallEnds ==
  ASSUME TypeOK, Next, mem_beat_stall \/ ~x_commit
  PROVE  ~mem_beat_stall'
<1>1. CASE mem_beat_stall
  BY <1>1, SecondBeat
<1>2. CASE ~mem_beat_stall
  <2>1. xw'.valid = FALSE
    BY <1>2 DEF Next, XWEdge, x_commit
  <2> QED
    BY <2>1 DEF mem_beat_stall, mem_mis, amo_rmw_b1, amo_here
<1> QED
  BY <1>1, <1>2

\* What a due halt does at an edge: it drains the pipeline or halts the hart.
LEMMA DrainStep ==
  ASSUME TypeOK, DebugInv, Next, dbg.halt_req
  PROVE  dbg'.mode \/ (dbg'.halt_req /\ DrainLeft' < DrainLeft)
<1>1. ~dbg.mode /\ ~fx.valid /\ ~dbg_resume_now /\ ~x_commit
  BY DEF DebugInv, dbg_resume_now, x_commit
<1>2. CASE mem_beat_stall
  <2>1. xw.valid
    BY <1>2 DEF mem_beat_stall, mem_mis, amo_rmw_b1, amo_here
  <2>2. ~mem_beat_stall'
    BY <1>2, SecondBeat
  <2>3. dbg'.halt_req
    BY <1>1, <2>1, DebugNext DEF pipe_drained
  <2> QED
    BY <1>2, <2>2, <2>3 DEF DrainLeft
<1>3. CASE ~mem_beat_stall /\ xw.valid
  <2>1. ~mem_beat_stall'
    BY <1>1, StallEnds
  <2>2. ~xw'.valid
    BY <1>1, <1>3 DEF Next, XWEdge
  <2>3. dbg'.halt_req
    BY <1>1, <1>3, DebugNext DEF pipe_drained
  <2> QED
    BY <1>3, <2>1, <2>2, <2>3 DEF DrainLeft
<1>4. CASE ~xw.valid
  <2>1. pipe_drained
    BY <1>1, <1>4 DEF pipe_drained
  <2> QED
    BY <1>1, <2>1, DebugNext
<1> QED
  BY <1>2, <1>3, <1>4

\* A halt that is due is reached, for every program, latency and debugger: each
\* clock lowers DrainLeft, which never exceeds two, and keeps the halt due, so
\* the hart is in debug mode after three clocks at the latest.  This is the
\* bound behind HaltReached.
THEOREM CoreHaltsSoon ==
  Spec => /\ []((dbg.halt_req => ~dbg.mode) /\ DrainLeft \in 0 .. 2)
          /\ [][dbg.halt_req => dbg'.mode \/ (dbg'.halt_req /\ DrainLeft' < DrainLeft)]_vars
<1>1. DebugInv => (dbg.halt_req => ~dbg.mode) /\ DrainLeft \in 0 .. 2
  BY DEF DebugInv, DrainLeft
<1>2. TypeOK /\ DebugInv /\ [Next]_vars =>
        [dbg.halt_req => dbg'.mode \/ (dbg'.halt_req /\ DrainLeft' < DrainLeft)]_vars
  BY DrainStep
<1> QED
  BY <1>1, <1>2, CoreTypeOK, DebugInvariant, PTL DEF Spec

----------------------------------------------------------------------------
\* Unlike MdInv this needs nothing of the debugger: an operation in flight is
\* counted down or delivered.
MdCounts ==
  /\ md_inflight <=> md.cnt > 0 \/ md.done
  /\ ~(md.cnt > 0 /\ md.done)

\* What the multiply/divide unit does at an edge.
LEMMA MdNext ==
  ASSUME TypeOK, Next
  PROVE  /\ md.cnt \in 0 .. DivCycles /\ md.done \in BOOLEAN /\ md_inflight \in BOOLEAN
         /\ DivCycles \in Nat \ {0}
         /\ md_start => md'.cnt \in 1 .. DivCycles /\ ~md'.done
         /\ ~md_start => /\ md'.cnt = (IF md.cnt = 0 THEN 0 ELSE md.cnt - 1)
                         /\ md'.done <=> md.cnt = 1
         /\ md_inflight' <=> ~md.done /\ (md_inflight \/ md_start)
<1>1. /\ md \in [cnt : 0 .. DivCycles, done : BOOLEAN, result : Word]
      /\ md_inflight \in BOOLEAN /\ DivCycles \in Nat \ {0} /\ MuldivEdge
  BY CoreAssumption DEF TypeOK, Next
<1>2. md_start => md'.cnt \in 1 .. DivCycles /\ ~md'.done
  BY <1>1 DEF MuldivEdge
<1>3. ~md_start => /\ md'.cnt = (IF md.cnt = 0 THEN 0 ELSE md.cnt - 1)
                   /\ md'.done <=> md.cnt = 1
  BY <1>1 DEF MuldivEdge
<1>4. md_inflight' <=> ~md.done /\ (md_inflight \/ md_start)
  <2>1. md_inflight' = IF md.done THEN FALSE ELSE md_inflight \/ md_start
    BY <1>1, Zenon DEF MuldivEdge
  <2> QED
    BY <2>1, Zenon
<1> QED
  BY <1>1, <1>2, <1>3, <1>4

\* A clock edge keeps MdCounts.
LEMMA MdCountsStep ==
  ASSUME TypeOK, MdCounts, Next
  PROVE  MdCounts'
<1>1. CASE md_start
  <2>1. ~md_inflight /\ ~md.done
    BY <1>1 DEF md_start, MdCounts
  <2> QED
    BY <1>1, <2>1, MdNext DEF MdCounts
<1>2. CASE ~md_start /\ md.cnt > 0
  <2>1. md_inflight /\ ~md.done
    BY <1>2 DEF MdCounts
  <2>2. md_inflight'
    BY <2>1, MdNext
  <2>3. md'.cnt > 0 <=> md.cnt # 1
    BY <1>2, MdNext
  <2>4. md'.done <=> md.cnt = 1
    BY <1>2, MdNext
  <2> QED
    BY <2>2, <2>3, <2>4 DEF MdCounts
<1>3. CASE ~md_start /\ ~(md.cnt > 0)
  <2>1. md.cnt = 0 /\ (md_inflight => md.done)
    BY <1>3, MdNext DEF MdCounts
  <2>2. md'.cnt = 0 /\ ~md'.done
    BY <1>3, <2>1, MdNext
  <2>3. ~md_inflight'
    BY <1>3, <2>1, MdNext
  <2> QED
    BY <2>2, <2>3 DEF MdCounts
<1> QED
  BY <1>1, <1>2, <1>3

\* The unit keeps count, whatever the debugger does.
LEMMA MdCountsInvariant == Spec => []MdCounts
<1>1. Init => MdCounts
  BY DEF Init, MdCounts
<1>2. MdCounts /\ UNCHANGED vars => MdCounts'
  BY DEF MdCounts, vars
<1> QED
  BY <1>1, <1>2, MdCountsStep, CoreTypeOK, PTL DEF Spec

\* Clocks the multiply/divide unit still needs for the instruction in X; it
\* may first have to be started.
WorkLeft ==
  IF i.op # "md" \/ md.done THEN 0
  ELSE IF md_inflight THEN md.cnt ELSE DivCycles + 1

\* Clocks until an instruction leaves X or the hart halts, at most.
RetireLeft ==
  IF dbg.halt_req THEN DrainLeft
  ELSE IF mem_beat_stall THEN DivCycles + 7
  ELSE IF fx.valid THEN WorkLeft + 3
  ELSE IF need_straddle THEN DivCycles + 6 ELSE DivCycles + 5

\* X hands an instruction to W at this edge (the event of Progress).
Retires == x_commit /\ ~mem_beat_stall

\* The bounds of WorkLeft and RetireLeft.
LEMMA Bounds ==
  ASSUME TypeOK
  PROVE  /\ DivCycles \in Nat \ {0} /\ WorkLeft \in 0 .. DivCycles + 1
         /\ DrainLeft \in 0 .. 2 /\ RetireLeft \in 0 .. DivCycles + 7
<1>1. DivCycles \in Nat \ {0} /\ md.cnt \in 0 .. DivCycles
  BY CoreAssumption DEF TypeOK
<1>2. WorkLeft \in 0 .. DivCycles + 1
  BY <1>1 DEF WorkLeft
<1>3. DrainLeft \in 0 .. 2
  BY DEF DrainLeft
<1> QED
  BY <1>1, <1>2, <1>3 DEF RetireLeft

\* X waits for the unit: the unit comes closer.
LEMMA WorkStep ==
  ASSUME TypeOK, MdCounts, Next, md_stall, fx' = fx
  PROVE  WorkLeft' < WorkLeft
<1>1. fx.valid /\ i.op = "md" /\ ~md.done /\ i' = i
  BY DEF md_stall, i
<1>2. CASE md_inflight
  <2>1. md.cnt > 0 /\ ~md_start
    BY <1>1, <1>2 DEF MdCounts, md_start
  <2>2. md'.cnt = md.cnt - 1 /\ md_inflight' /\ WorkLeft = md.cnt
    BY <1>1, <1>2, <2>1, MdNext DEF WorkLeft
  <2>3. WorkLeft' \in {0, md.cnt - 1}
    BY <2>2 DEF WorkLeft
  <2> QED
    BY <2>1, <2>2, <2>3, MdNext
<1>3. CASE ~md_inflight
  <2>1. md_start
    BY <1>1, <1>3, MdNext DEF MdCounts, md_start
  <2>2. md'.cnt \in 1 .. DivCycles /\ md_inflight' /\ WorkLeft = DivCycles + 1
    BY <1>1, <1>3, <2>1, MdNext DEF WorkLeft
  <2>3. WorkLeft' \in {0, md'.cnt}
    BY <2>2 DEF WorkLeft
  <2> QED
    BY <2>2, <2>3, MdNext
<1> QED
  BY <1>2, <1>3

\* A clock in which no instruction leaves X brings the next one closer.
LEMMA RetireStep ==
  ASSUME TypeOK, TypeOK', DebugInv, MdCounts, Next, ~dbg.mode, ~Retires
  PROVE  dbg'.mode \/ RetireLeft' < RetireLeft
<1>0. ~dbg_resume_now /\ FetchEdge /\ prog' = prog
  BY DEF dbg_resume_now, Next
<1>1. ~mem_beat_stall'
  BY StallEnds DEF Retires
<1>2. /\ DivCycles \in Nat \ {0} /\ WorkLeft \in 0 .. DivCycles + 1 /\ DrainLeft \in 0 .. 2
  BY Bounds
<1>3. /\ WorkLeft' \in 0 .. DivCycles + 1 /\ DrainLeft' \in 0 .. 2
  <2>1. md'.cnt \in 0 .. DivCycles
    BY DEF TypeOK
  <2> QED
    BY <1>2, <2>1 DEF WorkLeft, DrainLeft
<1>4. CASE dbg.halt_req
  <2>1. dbg'.mode \/ (dbg'.halt_req /\ DrainLeft' < DrainLeft)
    BY <1>4, DrainStep
  <2> QED
    BY <1>4, <2>1 DEF RetireLeft
<1>5. CASE ~dbg.halt_req /\ dbg'.halt_req
  <2>1. RetireLeft' \in 0 .. 2
    BY <1>3, <1>5 DEF RetireLeft
  <2>2. RetireLeft \in Int /\ RetireLeft >= 3
    BY <1>2, <1>5 DEF RetireLeft
  <2> QED
    BY <2>1, <2>2
<1>6. CASE ~dbg.halt_req /\ ~dbg'.halt_req
  <2>1. ~in.haltreq /\ ~ebreak_to_debug /\ ~step_halt_now /\ ~dbg_freeze
    BY <1>6, DebugNext DEF dbg_freeze, DebugInv
  <2>2. /\ fx'.valid => RetireLeft' = WorkLeft' + 3
        /\ ~fx'.valid => RetireLeft' \in DivCycles + 5 .. DivCycles + 6
        /\ ~fx'.valid /\ ~need_straddle' => RetireLeft' = DivCycles + 5
    BY <1>1, <1>2, <1>6 DEF RetireLeft
  <2>3. CASE mem_beat_stall
    <3>1. RetireLeft = DivCycles + 7
      BY <1>6, <2>3 DEF RetireLeft
    <3> QED
      BY <1>2, <1>3, <2>2, <3>1
  <2>4. CASE ~mem_beat_stall /\ fx.valid
    <3>1. md_stall /\ ~redirect
      BY <2>1, <2>4 DEF Retires, x_commit, redirect, ex_freeze
    <3>2. fx' = fx
      BY <1>0, <2>1, <3>1, Zenon DEF FetchEdge, ex_freeze
    <3>3. WorkLeft' < WorkLeft
      BY <3>1, <3>2, WorkStep
    <3>4. RetireLeft = WorkLeft + 3
      BY <1>6, <2>4 DEF RetireLeft
    <3> QED
      BY <1>2, <1>3, <2>2, <2>4, <3>2, <3>3, <3>4
  <2>5. CASE ~mem_beat_stall /\ ~fx.valid
    <3>1. ~redirect /\ ~ex_freeze
      BY <2>5 DEF redirect, ex_freeze, md_stall
    <3>2. CASE need_straddle
      <4>1. pc' = pc /\ straddle' = TRUE
        BY <1>0, <2>1, <3>1, <3>2, Zenon DEF FetchEdge
      <4>2. ~need_straddle'
        BY <4>1 DEF need_straddle
      <4>3. RetireLeft = DivCycles + 6
        BY <1>6, <2>5, <3>2 DEF RetireLeft
      <4> QED
        BY <1>2, <1>3, <2>2, <4>2, <4>3
    <3>3. CASE ~need_straddle
      <4>1. fx'.valid = TRUE
        <5>1. fx' = [valid |-> TRUE, pc |-> pc, instr |-> fetched, ghist |-> ghist,
                     pred_taken |-> predict_taken_f, pred_target |-> predict_target_f]
          BY <1>0, <2>1, <3>1, <3>3, Zenon DEF FetchEdge
        <5> QED
          BY <5>1
      <4>2. RetireLeft = DivCycles + 5
        BY <1>6, <2>5, <3>3 DEF RetireLeft
      <4> QED
        BY <1>2, <1>3, <2>2, <4>1, <4>2
    <3> QED
      BY <3>2, <3>3
  <2> QED
    BY <2>3, <2>4, <2>5
<1> QED
  BY <1>4, <1>5, <1>6

\* The hart never hangs, for every program, latency and debugger, orderly or
\* not: each clock in which X hands nothing to W brings debug mode or lowers
\* RetireLeft, so of any DivCycles + 8 clocks one retires an instruction or
\* leaves the hart halted.  This is the bound behind Progress.
THEOREM CoreRetiresSoon ==
  Spec => /\ [](RetireLeft \in 0 .. DivCycles + 7)
          /\ [][~dbg.mode /\ ~Retires => dbg'.mode \/ RetireLeft' < RetireLeft]_vars
<1>1. TypeOK => RetireLeft \in 0 .. DivCycles + 7
  BY Bounds
<1>2. TypeOK /\ TypeOK' /\ DebugInv /\ MdCounts /\ [Next]_vars =>
        [~dbg.mode /\ ~Retires => dbg'.mode \/ RetireLeft' < RetireLeft]_vars
  BY RetireStep
<1> QED
  BY <1>1, <1>2, CoreTypeOK, DebugInvariant, MdCountsInvariant, PTL DEF Spec

----------------------------------------------------------------------------
(* The debug port.  DebugModule is built on a hart that does what HartPort *)
(* says; this is the proof that Core does, with its pins as the requests.  *)
(* The registers are those that keep a whole word: x0 and the masked       *)
(* mstatus and dcsr do not.                                                *)
WholeRegs == [csr : {FALSE}, regno : Reg \ {0}] \cup
             [csr : {TRUE}, regno : {"dpc", "mepc", "mscratch"}]
Shown(x) ==
  IF ~x.csr THEN regs[x.regno]
  ELSE IF x.regno = "dpc" THEN dbg.dpc ELSE CsrRead(csr, x.regno)
Requested ==
  [ndmreset |-> FALSE, resumereq |-> in.resumereq, ar_valid |-> in.ar.valid,
   ar |-> [write |-> in.ar.write, val |-> in.ar.wdata,
           regno |-> [csr |-> in.ar.csr, regno |-> in.ar.regno]]]

HartSide == INSTANCE HartPort WITH
  Regs <- WholeRegs, Data <- Word, req <- Requested,
  hart <- [halted |-> dbg.mode, ar_busy |-> dbg.ar_busy, ar_done |-> dbg.ar_done],
  regs <- [x \in WholeRegs |-> Shown(x)]

\* An access can read a word from each of these registers.
LEMMA ShownType ==
  ASSUME TypeOK, NEW x \in WholeRegs
  PROVE  Shown(x) \in Word
<1>1. regs \in [Reg -> Word] /\ dbg.dpc \in Word
  BY DEF TypeOK
<1>2. ~x.csr => x.regno \in Reg
  BY DEF WholeRegs
<1>3. CsrRead(csr, x.regno) \in Word
  BY CsrFields, CsrReadType
<1> QED
  BY <1>1, <1>2, <1>3 DEF Shown

\* Reading back the two CSRs that are written whole.
LEMMA CsrReadBack ==
  ASSUME NEW c \in CsrState, NEW n \in {"mepc", "mscratch"}, NEW k, NEW v \in Word
  PROVE  CsrRead(CsrWrite(c, k, v), n) = IF k = n THEN v ELSE CsrRead(c, n)
<1>1. \A d : CsrRead(d, n) = IF n = "mepc" THEN d.mepc ELSE d.mscratch
  BY Zenon DEF CsrRead
<1>2. \/ k = "mstatus" /\ CsrWrite(c, k, v) = [c EXCEPT !.mie = v % 2 = 1, !.mpie = (v \div 2) % 2 = 1]
      \/ k = "mepc" /\ CsrWrite(c, k, v) = [c EXCEPT !.mepc = v]
      \/ k = "mscratch" /\ CsrWrite(c, k, v) = [c EXCEPT !.mscratch = v]
      \/ k \notin {"mstatus", "mepc", "mscratch"} /\ CsrWrite(c, k, v) = c
  BY Zenon DEF CsrWrite
<1>3. CASE n = "mepc"
  <2>1. \A d : CsrRead(d, n) = d.mepc
    BY <1>1, <1>3
  <2>2. CsrWrite(c, k, v).mepc = IF k = "mepc" THEN v ELSE c.mepc
    <3>1. CASE k = "mstatus"
      <4>1. CsrWrite(c, k, v) = [c EXCEPT !.mie = v % 2 = 1, !.mpie = (v \div 2) % 2 = 1]
        BY <1>2, <3>1
      <4> QED
        BY <3>1, <4>1 DEF CsrState
    <3>2. CASE k = "mepc"
      <4>1. CsrWrite(c, k, v) = [c EXCEPT !.mepc = v]
        BY <1>2, <3>2
      <4> QED
        BY <3>2, <4>1 DEF CsrState
    <3>3. CASE k = "mscratch"
      <4>1. CsrWrite(c, k, v) = [c EXCEPT !.mscratch = v]
        BY <1>2, <3>3
      <4> QED
        BY <3>3, <4>1 DEF CsrState
    <3>4. CASE k \notin {"mstatus", "mepc", "mscratch"}
      BY <1>2, <3>4
    <3> QED
      BY <3>1, <3>2, <3>3, <3>4
  <2> QED
    BY <1>3, <2>1, <2>2
<1>4. CASE n = "mscratch"
  <2>1. \A d : CsrRead(d, n) = d.mscratch
    BY <1>1, <1>4
  <2>2. CsrWrite(c, k, v).mscratch = IF k = "mscratch" THEN v ELSE c.mscratch
    <3>1. CASE k = "mstatus"
      <4>1. CsrWrite(c, k, v) = [c EXCEPT !.mie = v % 2 = 1, !.mpie = (v \div 2) % 2 = 1]
        BY <1>2, <3>1
      <4> QED
        BY <3>1, <4>1 DEF CsrState
    <3>2. CASE k = "mepc"
      <4>1. CsrWrite(c, k, v) = [c EXCEPT !.mepc = v]
        BY <1>2, <3>2
      <4> QED
        BY <3>2, <4>1 DEF CsrState
    <3>3. CASE k = "mscratch"
      <4>1. CsrWrite(c, k, v) = [c EXCEPT !.mscratch = v]
        BY <1>2, <3>3
      <4> QED
        BY <3>3, <4>1 DEF CsrState
    <3>4. CASE k \notin {"mstatus", "mepc", "mscratch"}
      BY <1>2, <3>4
    <3> QED
      BY <3>1, <3>2, <3>3, <3>4
  <2> QED
    BY <1>4, <2>1, <2>2
<1> QED
  BY <1>3, <1>4

\* A halted hart changes the register the debugger writes and no other.
LEMMA HaltedKeeps ==
  ASSUME TypeOK, DebugInv, Next, dbg.mode, NEW x \in WholeRegs
  PROVE  Shown(x)' = IF dbg_do /\ in.ar.write /\ x = [csr |-> in.ar.csr, regno |-> in.ar.regno]
                     THEN in.ar.wdata ELSE Shown(x)
<1>1. ~fx.valid /\ ~xw.valid /\ ~rf_we /\ ~m_trap_set
  BY DEF DebugInv, rf_we, m_trap_set, ex_trap, take_irq
<1>2. /\ in.ar.csr \in BOOLEAN /\ in.ar.wdata \in Word /\ (~in.ar.csr => in.ar.regno \in Reg)
      /\ regs \in [Reg -> Word] /\ csr \in CsrState
  BY PinFields DEF TypeOK
<1>3. regs' = IF dbg_do /\ in.ar.write /\ ~in.ar.csr /\ in.ar.regno # 0
              THEN [regs EXCEPT ![in.ar.regno] = in.ar.wdata] ELSE regs
  BY <1>1 DEF Next, RegfileEdge
<1>4. csr' = IF dbg_do /\ in.ar.write /\ in.ar.csr
             THEN CsrWrite(csr, in.ar.regno, in.ar.wdata) ELSE csr
  BY <1>1 DEF Next, CsrEdge
<1>5. dbg'.dpc = IF dbg_do /\ in.ar.write /\ in.ar.csr /\ in.ar.regno = "dpc"
                 THEN in.ar.wdata ELSE dbg.dpc
  BY DEF Next, DebugEdge
<1>6. /\ x = [csr |-> in.ar.csr, regno |-> in.ar.regno] <=>
           x.csr = in.ar.csr /\ x.regno = in.ar.regno
      /\ x.csr \in BOOLEAN
  <2>1. x = [csr |-> x.csr, regno |-> x.regno] /\ x.csr \in BOOLEAN
    BY DEF WholeRegs
  <2> QED
    BY <2>1
<1>7. CASE ~x.csr
  <2>1. x.regno \in Reg \ {0}
    BY <1>7 DEF WholeRegs
  <2> QED
    BY <1>2, <1>3, <1>6, <1>7, <2>1 DEF Shown
<1>8. CASE x.csr /\ x.regno = "dpc"
  BY <1>2, <1>5, <1>6, <1>8 DEF Shown
<1>9. CASE x.csr /\ x.regno # "dpc"
  <2>1. x.regno \in {"mepc", "mscratch"}
    BY <1>9 DEF WholeRegs
  <2>2. CsrRead(csr', x.regno) =
          IF dbg_do /\ in.ar.write /\ in.ar.csr /\ in.ar.regno = x.regno
          THEN in.ar.wdata ELSE CsrRead(csr, x.regno)
    BY <1>2, <1>4, <2>1, CsrReadBack
  <2> QED
    BY <1>2, <1>6, <1>9, <2>2 DEF Shown
<1> QED
  BY <1>6, <1>7, <1>8, <1>9

\* A clock edge of the core is one of the port.
LEMMA HartEdgeStep ==
  ASSUME TypeOK, TypeOK', DebugInv, Next
  PROVE  HartSide!HartEdge
<1> DEFINE View == [x \in WholeRegs |-> Shown(x)]
           Named == [csr |-> in.ar.csr, regno |-> in.ar.regno]
<1>1. /\ dbg_do = (dbg.mode /\ in.ar.valid /\ ~dbg.ar_busy)
      /\ dbg'.ar_busy = (in.ar.valid /\ (dbg.ar_busy \/ dbg_do)) /\ dbg'.ar_done = dbg_do
      /\ dbg'.mode \in BOOLEAN /\ (dbg.mode => dbg'.mode = ~in.resumereq)
  BY PinFields DEF Next, DebugEdge, dbg_do, dbg_resume_now, TypeOK
<1>2. View' \in [WholeRegs -> Word]
  <2>1. regs' \in [Reg -> Word] /\ dbg'.dpc \in Word /\ csr' \in CsrState
    BY DEF TypeOK
  <2>2. \A x \in WholeRegs : Shown(x)' \in Word
    <3> SUFFICES ASSUME NEW x \in WholeRegs PROVE Shown(x)' \in Word
      OBVIOUS
    <3>1. ~x.csr => x.regno \in Reg
      BY DEF WholeRegs
    <3>2. CsrRead(csr', x.regno) \in Word
      BY <2>1, CsrReadType
    <3> QED
      BY <2>1, <3>1, <3>2 DEF Shown
  <2> QED
    BY <2>2
<1>3. dbg.mode => View' = IF dbg_do /\ in.ar.write THEN [View EXCEPT ![Named] = in.ar.wdata] ELSE View
  <2> SUFFICES ASSUME dbg.mode
               PROVE  View' = IF dbg_do /\ in.ar.write THEN [View EXCEPT ![Named] = in.ar.wdata] ELSE View
    OBVIOUS
  <2>1. \A x \in WholeRegs :
          Shown(x)' = IF dbg_do /\ in.ar.write /\ x = Named THEN in.ar.wdata ELSE Shown(x)
    BY HaltedKeeps
  <2>2. CASE dbg_do /\ in.ar.write
    <3>1. \A x \in WholeRegs : Shown(x)' = IF x = Named THEN in.ar.wdata ELSE Shown(x)
      BY <2>1, <2>2
    <3>2. [View EXCEPT ![Named] = in.ar.wdata] =
            [x \in WholeRegs |-> IF x = Named THEN in.ar.wdata ELSE Shown(x)]
      OBVIOUS
    <3>3. View' = [x \in WholeRegs |-> IF x = Named THEN in.ar.wdata ELSE Shown(x)]
      BY <3>1
    <3> QED
      BY <2>2, <3>2, <3>3
  <2>3. CASE ~(dbg_do /\ in.ar.write)
    <3>1. \A x \in WholeRegs : Shown(x)' = Shown(x)
      BY <2>1, <2>3
    <3> QED
      BY <2>3, <3>1
  <2> QED
    BY <2>2, <2>3
<1> QED
  BY <1>1, <1>2, <1>3 DEF HartSide!HartEdge, HartSide!dbg_do, Requested

\* The core is the hart the debug module was built for: for every program and
\* every sequence of pins its debug port serves each access once, changes no
\* register but the one it is told to write while it is halted, and resumes when
\* told to and not before (debug controller and register file of
\* three_sipp_es_core.sv).
THEOREM CoreImplementsHartPort == Spec => HartSide!Spec
<1>1. Init /\ TypeOK => HartSide!Init
  BY ShownType DEF Init, HartSide!Init, HartSide!Running
<1>2. TypeOK /\ TypeOK' /\ DebugInv /\ [Next]_vars => [HartSide!HartEdge]_(HartSide!vars)
  <2>1. UNCHANGED vars => UNCHANGED HartSide!vars
    BY DEF vars, HartSide!vars, Requested, Shown
  <2> QED
    BY <2>1, HartEdgeStep
<1> QED
  BY <1>1, <1>2, CoreTypeOK, DebugInvariant, PTL DEF Spec, HartSide!Spec
=============================================================================
