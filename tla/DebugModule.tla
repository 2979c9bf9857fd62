---------------------------- MODULE DebugModule ----------------------------
(***************************************************************************)
(* rtl/three_sipp_es_debug.sv: the debug module behind the JTAG port, with *)
(* the two handshakes it drives: abstract register access to the hart and  *)
(* the system bus port of the SoC (one cycle of latency). A step is one    *)
(* clock edge. The JTAG transport is reduced to what arrives: DMI writes   *)
(* (an UPDATE-DR with ir = DMI and op = 2), rarely; DMI reads change       *)
(* nothing in the module and are left to the transport. dmactive is not    *)
(* kept: a write with dmactive = 0 clears haltreq and ndmreset, and it     *)
(* gates nothing else.                                                     *)
(*                                                                         *)
(* The hart is what HartPort says of its debug port (Core implements it),   *)
(* and changes memory while it runs.                                       *)
(***************************************************************************)
EXTENDS Integers

CONSTANTS
    MaxData,        \* greatest data word, and greatest word address
    Regs,           \* registers and CSRs an abstract command can name
    HostWaits       \* the debugger starts no bus access while abs_busy

ASSUME DebugAssumption ==
    /\ MaxData \in Nat /\ Regs # {} /\ HostWaits \in BOOLEAN

Data == 0 .. MaxData

\* Writes to the DM registers, with the fields that matter; writes the module
\* treats alike (dmactive = 0, a command without effect) are one each.
DmiWrites ==
    [reg : {"data0", "sbaddress0", "sbdata0"}, val : Data] \cup
    [reg : {"dmcontrol"}, active : {TRUE}, ndmreset : BOOLEAN, haltreq : BOOLEAN,
     resumereq : BOOLEAN] \cup
    [reg : {"dmcontrol"}, active : {FALSE}] \cup
    [reg : {"command"}, cmdtype : {0}, transfer : {TRUE}, write : BOOLEAN, regno : Regs] \cup
    [reg : {"command"}, cmdtype : {0}, transfer : {FALSE}] \cup
    [reg : {"command"}, cmdtype : {1}] \cup
    [reg : {"sbcs"}, readonaddr : BOOLEAN, autoincrement : BOOLEAN] \cup
    [reg : {"abstractcs"}]
NoWrite == [reg |-> "none"]

VARIABLES
    dm,         \* the registers of the DM and of its engine
    port,       \* dm_mem_ready and dm_mem_rdata of the SoC
    hart,       \* dbg_halted, dbg_ar_busy, dbg_ar_done
    regs, mem,  \* the hart's registers, memory
    asked       \* history: the command and the bus access the host waits for

vars == <<dm, port, hart, regs, mem, asked>>

\* dbg_ar_* and dm_mem_* without their valid bits; the payload of a request
\* that is no longer valid is not kept.
Nothing == [write |-> FALSE, regno |-> CHOOSE r \in Regs : TRUE, val |-> 0]
NoAccess == [write |-> FALSE, addr |-> 0, val |-> 0]

Init ==
    /\ dm = [ndmreset |-> FALSE, haltreq |-> FALSE, resumereq |-> FALSE,
             resumeack |-> FALSE, abs_busy |-> FALSE, cmderr |-> 0, data0 |-> 0, eng |-> "E_IDLE",
             ar_valid |-> FALSE, ar |-> Nothing, mem_valid |-> FALSE, mem |-> NoAccess,
             sbaddress0 |-> 0, sbdata0 |-> 0, sbreadonaddr |-> FALSE, sbautoincrement |-> FALSE]
    /\ port = [ready |-> FALSE, rdata |-> 0]
    /\ hart = [halted |-> FALSE, ar_busy |-> FALSE, ar_done |-> FALSE]
    /\ regs \in [Regs -> Data] /\ mem \in [Data -> Data]
    /\ asked = [cmd |-> Nothing, next |-> 0, addr |-> 0, val |-> 0, quiet |-> FALSE]

----------------------------------------------------------------------------
(* The DMI side.                                                           *)
IsBusAccess(w) == w.reg = "sbdata0" \/ (w.reg = "sbaddress0" /\ dm.sbreadonaddr)

\* The TAP makes its writes eight clocks apart or more; by then a resume request
\* and a bus access are over (DebugProofs and JtagTapProofs).
Settled == ~dm.resumereq /\ dm.eng \notin {"E_SB_RD", "E_SB_WR"}

\* dmi_we_pulse, dmi_we_addr and dmi_we_data of this cycle.
dmi_we ==
    {NoWrite} \cup
    {w \in DmiWrites : Settled /\ (HostWaits /\ dm.abs_busy => ~IsBusAccess(w))}

----------------------------------------------------------------------------
(* The register file and the engine.  Both assign in one always block, the *)
(* engine later: what it assigns wins.                                     *)
\* Fault: the request to the hart is raised by the engine, a clock later.
start_access_reg_Fault(d, c) ==
    IF c.cmdtype # 0 THEN [d EXCEPT !.cmderr = 2]
    ELSE IF ~c.transfer THEN d
    ELSE [d EXCEPT !.abs_busy = TRUE, !.eng = "E_AR_WAIT",
                   !.ar = [write |-> c.write, regno |-> c.regno, val |-> d.data0]]
start_access_reg(d, c) ==
    IF c.cmdtype # 0 THEN [d EXCEPT !.cmderr = 2]
    ELSE IF ~c.transfer THEN d
    ELSE [d EXCEPT !.abs_busy = TRUE, !.ar_valid = TRUE, !.eng = "E_AR_WAIT",
                   !.ar = [write |-> c.write, regno |-> c.regno, val |-> d.data0]]

Write_dmcontrol(d, w) ==
    IF ~w.active THEN [d EXCEPT !.haltreq = FALSE, !.ndmreset = FALSE]
    ELSE [d EXCEPT !.ndmreset = w.ndmreset, !.haltreq = w.haltreq,
                   !.resumereq = w.resumereq /\ hart.halted,
                   !.resumeack = @ \/ (w.resumereq /\ hart.halted)]

\* Fault: a command is taken while another is being executed.
Write_command_Fault(d, w) == start_access_reg(d, w)
Write_command(d, w) == IF d.abs_busy THEN d ELSE start_access_reg(d, w)

Written(d, dmi) ==
    CASE dmi.reg = "none"       -> d
      [] dmi.reg = "data0"      -> [d EXCEPT !.data0 = dmi.val]
      [] dmi.reg = "dmcontrol"  -> Write_dmcontrol(d, dmi)
      [] dmi.reg = "abstractcs" -> [d EXCEPT !.cmderr = 0]
      [] dmi.reg = "command"    -> Write_command(d, dmi)
      [] dmi.reg = "sbcs"       -> [d EXCEPT !.sbreadonaddr = dmi.readonaddr,
                                             !.sbautoincrement = dmi.autoincrement]
      [] dmi.reg = "sbaddress0" ->
            IF d.sbreadonaddr
            THEN [d EXCEPT !.sbaddress0 = dmi.val, !.mem_valid = TRUE, !.eng = "E_SB_RD",
                           !.mem = [write |-> FALSE, addr |-> dmi.val, val |-> 0]]
            ELSE [d EXCEPT !.sbaddress0 = dmi.val]
      [] dmi.reg = "sbdata0"    ->
            [d EXCEPT !.sbdata0 = dmi.val, !.mem_valid = TRUE, !.eng = "E_SB_WR",
                      !.mem = [write |-> TRUE, addr |-> d.sbaddress0, val |-> dmi.val]]

\* The register the hart shows: X's operand register once it runs again.
ar_rdata == IF hart.halted \/ ~hart.ar_done THEN {regs[dm.ar.regno]}
            ELSE {regs[r] : r \in Regs} \cup {0}

After(a) == (a + 1) % (MaxData + 1)
\* Faults: the address does not wrap; the address is that of the first access.
Increment_WrapFault(d) == IF dm.sbautoincrement THEN dm.sbaddress0 + 1 ELSE d.sbaddress0
Increment_Fault(d) == d.sbaddress0
Increment(d) == IF dm.sbautoincrement THEN After(dm.sbaddress0) ELSE d.sbaddress0

\* Fault: the request to the hart is not taken back when it is answered.
Answered_Fault(d, v) ==
    [d EXCEPT !.data0 = IF dm.ar.write THEN @ ELSE v, !.abs_busy = FALSE, !.eng = "E_IDLE"]
Answered(d, v) ==
    [d EXCEPT !.ar_valid = FALSE, !.ar = Nothing, !.data0 = IF dm.ar.write THEN @ ELSE v,
              !.abs_busy = FALSE, !.eng = "E_IDLE"]
Released(d) == [d EXCEPT !.mem_valid = FALSE, !.mem = NoAccess]
Engine(d, v) ==
    CASE dm.eng = "E_AR_WAIT" ->
            IF hart.ar_done THEN Answered(d, v) ELSE [d EXCEPT !.ar_valid = TRUE]
      [] dm.eng = "E_SB_RD" ->
            IF port.ready
            THEN [Released(d) EXCEPT !.sbdata0 = port.rdata,
                           !.sbaddress0 = Increment(d), !.eng = "E_IDLE"]
            ELSE Released(d)
      [] dm.eng = "E_SB_WR" ->
            IF port.ready
            THEN [Released(d) EXCEPT !.sbaddress0 = Increment(d), !.eng = "E_IDLE"]
            ELSE Released(d)
      [] OTHER -> d

DmEdge(dmi) ==
    \E v \in ar_rdata : dm' = Engine(Written([dm EXCEPT !.resumereq = FALSE], dmi), v)

----------------------------------------------------------------------------
(* What the module talks to: the hart's debug port, the SoC's memory.      *)
Hart == INSTANCE HartPort WITH req <- dm
dbg_do == Hart!dbg_do

\* The core's data port and the debug port write the same array: when both
\* hit one word in one cycle either may win.
MemEdge ==
    /\ port' = [ready |-> dm.mem_valid,
                rdata |-> IF dm.mem_valid /\ ~dm.mem.write THEN mem[dm.mem.addr] ELSE 0]
    /\ \E core \in {mem} \cup (IF hart.halted THEN {}
                               ELSE {[mem EXCEPT ![a] = v] : a, v \in Data}) :
          \/ mem' = IF dm.mem_valid /\ dm.mem.write
                    THEN [core EXCEPT ![dm.mem.addr] = dm.mem.val] ELSE core
          \/ /\ dm.mem_valid /\ dm.mem.write /\ core[dm.mem.addr] # mem[dm.mem.addr]
             /\ mem' = core

\* What the host has asked for, from its own requests: a new sbaddress0 is where
\* the next access goes, and with autoincrement every access moves on one word.
Asked(dmi) ==
    LET read  == dmi.reg = "sbaddress0" /\ dm.sbreadonaddr
        write == dmi.reg = "sbdata0"
        addr  == IF dmi.reg = "sbaddress0" THEN dmi.val ELSE asked.next
        command == dmi.reg = "command" /\ dmi.cmdtype = 0 /\ dmi.transfer /\ ~dm.abs_busy
        idle == dm.eng = "E_IDLE" /\ dmi = NoWrite
    IN asked' =
      [cmd   |-> IF command THEN [write |-> dmi.write, regno |-> dmi.regno, val |-> dm.data0]
                 ELSE IF dm.abs_busy THEN asked.cmd ELSE Nothing,
       next  |-> IF (read \/ write) /\ dm.sbautoincrement THEN After(addr) ELSE addr,
       addr  |-> IF read \/ write THEN addr ELSE IF idle THEN 0 ELSE asked.addr,
       val   |-> IF write THEN dmi.val ELSE IF idle THEN 0 ELSE asked.val,
       quiet |-> hart.halted /\ (read \/ write \/ (~idle /\ asked.quiet))]

Next == MemEdge /\ Hart!HartEdge /\ \E dmi \in dmi_we : DmEdge(dmi) /\ Asked(dmi)

Spec == Init /\ [][Next]_vars

----------------------------------------------------------------------------
Requests == [write : BOOLEAN, regno : Regs, val : Data]
Accesses == [write : BOOLEAN, addr : Data, val : Data]
Registers ==
    [ndmreset : BOOLEAN, haltreq : BOOLEAN, resumereq : BOOLEAN, resumeack : BOOLEAN,
     abs_busy : BOOLEAN, cmderr : {0, 2}, data0 : Data,
     eng : {"E_IDLE", "E_AR_WAIT", "E_SB_RD", "E_SB_WR"},
     ar_valid : BOOLEAN, ar : Requests, mem_valid : BOOLEAN, mem : Accesses,
     sbaddress0 : Data, sbdata0 : Data, sbreadonaddr : BOOLEAN, sbautoincrement : BOOLEAN]
\* Every register keeps a value of its width.
TypeOK ==
    /\ dm \in Registers
    /\ port \in [ready : BOOLEAN, rdata : Data]
    /\ hart \in [halted : BOOLEAN, ar_busy : BOOLEAN, ar_done : BOOLEAN]
    /\ regs \in [Regs -> Data] /\ mem \in [Data -> Data]
    /\ asked \in [cmd : Requests, next : Data, addr : Data, val : Data, quiet : BOOLEAN]

\* When a command ends, the hart is halted and the command has had its effect:
\* the register has the value data0 had when the command was given, or data0
\* gets the register's value.
CommandEffect ==
    [][dm.abs_busy /\ ~dm'.abs_busy =>
         /\ hart.halted
         /\ IF asked.cmd.write THEN regs[asked.cmd.regno] = asked.cmd.val
            ELSE dm'.data0 = regs[asked.cmd.regno]]_vars

\* When a bus access ends during which the hart was halted, the word at the
\* address the debugger had reached, counting autoincrements, is the word it
\* wrote, or is the word in sbdata0 for it to read.
BusEffect ==
    [][asked.quiet /\ hart.halted /\ dm'.eng = "E_IDLE" =>
         /\ dm.eng = "E_SB_WR" => mem[asked.addr] = asked.val
         /\ dm.eng = "E_SB_RD" => dm'.sbdata0 = mem[asked.addr]]_vars

\* A command pending while the hart is halted is being served: the hart takes
\* it in this cycle or has just answered it.
PendingServed == dm.abs_busy /\ hart.halted => dbg_do \/ hart.ar_done

\* The hart is never told to resume in the cycle in which it takes an abstract
\* command, although neither request waits for the other: the write of a dpc
\* would be lost, as the resume reads the old one. Core relies on that.
OneCommand == dm.resumereq => ~dbg_do
=============================================================================
