-------------------------------- MODULE Rv32 --------------------------------
(***************************************************************************)
(* The instruction set as the core implements it, with the data cut down   *)
(* to what its control tells apart.  The smallest unit of an address is    *)
(* the halfword, called a lane: a compressed instruction takes one lane    *)
(* and any other two, a word of memory is two lanes, and an access of two  *)
(* lanes at an odd address crosses a word boundary.  Byte accesses never   *)
(* cross one and are left out; so is the JALR target's bit 0, which lies   *)
(* below a lane.  Registers have two lanes of LaneBase values each and     *)
(* arithmetic wraps as it does at 32 bits.                                 *)
(***************************************************************************)
EXTENDS Integers

CONSTANTS
    LaneBase,       \* number of values of a lane (2^16 in the hardware)
    MemLanes,       \* lanes of data memory; addresses wrap around it
    RegMax,         \* registers are x0 .. x<RegMax>
    MTVEC           \* the trap vector, written once by start-up code

ASSUME Rv32Assumption ==
    /\ LaneBase \in Nat \ {0, 1}
    /\ MemLanes \in Nat /\ MemLanes >= 4 /\ MemLanes % 2 = 0
    /\ RegMax \in 0 .. LaneBase * LaneBase - 1     \* a CSR immediate fits a word
    /\ MTVEC \in 0 .. LaneBase * LaneBase - 1

XL == LaneBase * LaneBase       \* 2^XLEN
Lane == 0 .. LaneBase - 1
Word == 0 .. XL - 1
Reg == 0 .. RegMax
Memory == [0 .. MemLanes - 1 -> Lane]
NoResv == XL                    \* no reservation is held

----------------------------------------------------------------------------
(* An instruction, after decompression.  "fn" selects the variant of an    *)
(* operation: the second ALU operand, the access width, the comparison,    *)
(* the CSR function and so on.                                             *)
Ops == {"alu", "jal", "jalr", "branch", "load", "store", "lr", "sc", "amo",
        "md", "csr", "ecall", "ebreak", "mret", "fencei", "illegal"}
Fns == {"", "rr", "ri", "pc", "eq", "ne", "w", "h", "hu", "add", "swap",
        "mul", "div", "rw", "rs", "rc", "rwi", "rsi", "rci"}
Csrs == {"", "mstatus", "mepc", "mscratch"}
Instr == [op : Ops, fn : Fns, csr : Csrs, len : {1, 2},
          rd : Reg, rs1 : Reg, rs2 : Reg, imm : Word]

\* An all-zero halfword is the defined illegal instruction.
Illegal == [op |-> "illegal", fn |-> "", csr |-> "", len |-> 1,
            rd |-> 0, rs1 |-> 0, rs2 |-> 0, imm |-> 0]

\* A program gives the instruction that starts at each lane.
Program == [Word -> Instr]

WritesRd(i) == i.op \in {"alu", "jal", "jalr", "load", "lr", "sc", "amo", "md", "csr"}
IsAtomic(i) == i.op \in {"lr", "sc", "amo"}
IsControl(i) == i.op \in {"branch", "jal", "jalr"}
Width(i) == IF i.fn = "w" THEN 2 ELSE 1

----------------------------------------------------------------------------
(* Words and lanes.                                                        *)
LaneOf(v, k) == IF k = 0 THEN v % LaneBase ELSE (v \div LaneBase) % LaneBase
FromLanes(lo, hi) == lo + LaneBase * hi
\* Sign or zero extension of a halfword load.
Extend(fn, lo) ==
    FromLanes(lo, IF fn = "h" /\ 2 * lo >= LaneBase THEN LaneBase - 1 ELSE 0)
\* A load of the width fn names from memory m, a store of one or two lanes.
WordAt(m, a) == FromLanes(m[a % MemLanes], m[(a + 1) % MemLanes])
LoadAt(m, fn, a) == IF fn = "w" THEN WordAt(m, a) ELSE Extend(fn, m[a % MemLanes])
StoreAt(m, fn, a, v) ==
    [m EXCEPT ![a % MemLanes] = LaneOf(v, 0),
              ![(a + 1) % MemLanes] = IF fn = "w" THEN LaneOf(v, 1) ELSE @]
\* Fault: addition does not wrap.
AddX_Fault(a, b) == a + b
AddX(a, b) == (a + b) % XL
AlignDown(a) == a - (a % 2)
Bit(b) == IF b THEN 1 ELSE 0

----------------------------------------------------------------------------
(* Arithmetic of the leaf cells, one representative of each class.         *)
MdOp(fn, a, b) ==
    CASE fn = "mul" -> (a * b) % XL
      [] OTHER      -> IF b = 0 THEN XL - 1 ELSE a \div b
AmoOp(fn, old, b) == IF fn = "swap" THEN b ELSE AddX(old, b)
BranchTaken(i, a, b) == IF i.fn = "eq" THEN a = b ELSE a # b

----------------------------------------------------------------------------
(* Machine CSRs: the trap state of mstatus, mepc, mcause and one plain     *)
(* register.                                                               *)
Causes == {"none", "illegal", "ecall", "breakpoint", "interrupt"}
CsrState == [mie : BOOLEAN, mpie : BOOLEAN, mepc : Word, mcause : Causes, mscratch : Word]
Csr0 == [mie |-> FALSE, mpie |-> FALSE, mepc |-> 0, mcause |-> "none", mscratch |-> 0]

CsrRead(c, name) ==
    CASE name = "mstatus"  -> Bit(c.mie) + 2 * Bit(c.mpie)
      [] name = "mepc"     -> c.mepc
      [] name = "mscratch" -> c.mscratch
      [] OTHER             -> 0

CsrWrite(c, name, v) ==
    CASE name = "mstatus"  -> [c EXCEPT !.mie = v % 2 = 1, !.mpie = (v \div 2) % 2 = 1]
      [] name = "mepc"     -> [c EXCEPT !.mepc = v]
      [] name = "mscratch" -> [c EXCEPT !.mscratch = v]
      [] OTHER             -> c

\* Trap entry saves the context and disables interrupts; MRET undoes it.
CsrTrap(c, cause, epc) ==
    [c EXCEPT !.mepc = epc, !.mcause = cause, !.mpie = c.mie, !.mie = FALSE]
CsrMret(c) == [c EXCEPT !.mie = c.mpie, !.mpie = TRUE]

\* The source of a CSR instruction (the rs1 field itself in the immediate
\* forms), the value it writes, and whether it writes at all: setting or
\* clearing with x0 or 0 only reads.  Setting and clearing are modelled for
\* mstatus, whose two bits are taken one by one.
CsrSource(i, a) == IF i.fn \in {"rwi", "rsi", "rci"} THEN i.rs1 ELSE a
CsrNew(i, old, src) ==
    LET b(v, n) == (v \div n) % 2 IN
    CASE i.fn \in {"rs", "rsi"} ->
            Bit(b(old, 1) + b(src, 1) > 0) + 2 * Bit(b(old, 2) + b(src, 2) > 0)
      [] i.fn \in {"rc", "rci"} ->
            Bit(b(old, 1) > b(src, 1)) + 2 * Bit(b(old, 2) > b(src, 2))
      [] OTHER -> src
CsrWrites(i) == i.op = "csr" /\ (i.fn \in {"rw", "rwi"} \/ i.rs1 # 0)
=============================================================================
