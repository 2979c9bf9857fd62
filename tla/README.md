# 3-SIPP-ESR: a TLA+ model of the core, its units and the programs that run on it

3-SIPP-ESR is a three-stage in-order RV32IMAC microcontroller core
(`rtl/three_sipp_es_core.sv`) with a dynamic branch predictor, RISC-V external
debug over JTAG, a small SoC and an AXI4-Lite bridge; the repository also holds
the programs that exercise it: a FreeRTOS demo, CoreMark, Dhrystone and the C
library they link. The modules in this directory model the hardware's control
cycle by cycle and the programs statement by statement, check both with TLC on
small instances, and prove part of it with TLAPS for every instance. Paths below
are relative to `src/`.

## 1. Inventory

| Component | Source | State it keeps | Operations |
|---|---|---|---|
| Pipeline | `rtl/three_sipp_es_core.sv` | pc, straddle half, F/X and X/W registers, second-beat flag, first load word, reservation | fetch, decode/execute/redirect, memory access and write-back, trap and interrupt entry |
| Predictors | same, lines 153-271, 876-911 | BTB, BHT, global history, return stack | predict in F, train in X, repair after a misprediction |
| Debug controller | same, lines 995-1040 | debug mode, halt request, step, dpc, dcsr, dscratch0, access handshake | halt, drain, resume, single step, EBREAK-to-debug, register access |
| CSR file | `rtl/common/three_sipp_es_csr.sv` | machine CSRs, counters, PMP registers, privilege | trap entry, MRET, CSR writes, interrupt request |
| Multiply/divide | `rtl/common/three_sipp_es_muldiv.sv` | state, latched operands, quotient, remainder, bit index | multiply in one cycle, divide one bit per cycle |
| Leaf cells | `rtl/common/`: alu, branch, decode, immgen, rvc, regfile, pkg | register file | combinational, one write port |
| PMP | `rtl/common/three_sipp_es_pmp.sv` | none | priority match of an address against regions |
| AXI4-Lite bridge | `rtl/three_sipp_es_axi_lite.sv` | state, latched request, accepted channels, response | write address/data, write response, read address, read data |
| Debug module and TAP | `rtl/three_sipp_es_debug.sv` | TAP state, IR, DR, DM registers, engine state | DMI read and write, abstract register command, system bus access |
| SoC | `rtl/three_sipp_es_soc.sv` | code and data RAM, mtime, mtimecmp, msip, tohost | address decoding, CLINT, two writers of one RAM |
| UART | `rtl/three_sipp_es_uart.sv` | transmit and receive shifters, baud counters, ready and overrun | send, receive, register access |
| FPGA top | `fpga/` | reset synchroniser | assert at once, release in step with the clock |
| FreeRTOS demo and board support | `rtos/app/main.c`, `rtos/bsp/bsp.c` | two kernel objects, the tasks' counts, the console transmitter | Producer, Consumer, Worker; creation of objects and tasks; polled console output; tick; the two endings |
| FreeRTOS start-up and test applications | `rtos/bsp/start.S`, `rtos/app/test_*.c` | tasks, queues, tick | boot; tests of the external kernel |
| C library of the images | `rtos/bsp/libc_stubs.c`, copies in the benchmarks' ports | none | memory and string functions, byte by byte |
| CoreMark | `coremark/src/` | one block of memory: list, matrices, text; results; timer | list search, reversal, sort, removal; matrix arithmetic; state machine; crc; timing, verdict, score |
| Dhrystone | `dhrystone/src/` | globals, two records, two arrays | eight procedures, three functions, main's loop, score |
| Golden model, benches, scripts | `tools/`, `tb/`, `programs/`, `arch-test/` | none of the system | co-simulation and directed tests |

How they interact: F hands X an instruction with its prediction; X reads the
register file, forwards from W, starts the multiplier and waits for it, decides
the next pc and redirects F; W owns the data port and may hold X for a second
beat. Traps, interrupts, the debugger and mispredictions all compete for the
next pc, and the multiplier, W and the debugger all hold X. The debug module
asks the core to halt and, once it is halted, borrows its register ports by a
valid/done handshake; it reaches memory through a second port of the SoC's RAM,
beside the core's own. The bridge turns the same memory requests into AXI
channels, whose handshakes complete in any order. The demo's tasks share a
queue, a semaphore and, without a lock, the console; the benchmarks' algorithms
share one block of memory, and CoreMark's sort runs the other two algorithms from
its comparison function.

What is hard about it: three agents stall X for different reasons in the same
cycle; results come one or several cycles late and are forwarded; a misprediction
may be made on data of another instruction; interrupts, halt requests and DMI
writes arrive in any cycle; AXI channels reorder; RAM has two writers. Everything
of this kind is listed with its line under `hazards` in `PROJECT.json`. In the
programs it is preemption between any two instructions of the console driver,
two kernel objects filled by two calls, allocations that fail, and data structures
that are reversed, cut, corrupted and repaired in place hundreds of times before
a single crc is looked at.

What makes each component correct:

- Pipeline, predictors, traps, debug controller: together they execute programs
  as a machine that runs one instruction at a time (`Isa`). Nothing of
  forwarding, prediction, stalling or halting is visible in registers, memory,
  CSRs or the order of instructions; and the pipeline keeps moving.
- Multiplier: one answer for each start, on time, with the M extension's value.
- Bridge: AXI's rules (a VALID stays until READY, one transaction outstanding),
  and to the requester it is a plain memory port.
- Debug module: a command or access has the effect asked for, at the register
  or address the debugger had in mind, and ends.
- JTAG transport: the debugger knows where the TAP is, and each of its scans is one
  request, performed once and in order.
- Demo: queue and semaphore agree whatever preempts whom; the Producer's and the
  Consumer's lines are whole and in order; it passes exactly when it should.
- CoreMark and Dhrystone: they compute the published results and leave their data
  as they found it, so that every iteration measures the same work.
- C library: what the C standard says, for every legal call.
- UART: every byte sent is received once, in order; no byte is missed unnoticed.
- CSR file (rest), PMP, SoC, reset: section 8.

## 2. Modules

| Module | Models | Extends or instances |
|---|---|---|
| `Rv32` | data: words, lanes of memory, instruction records, ALU, CSR access | |
| `Isa` | abstract sequential machine | `Rv32` |
| `Core` | pipeline, predictors, CSRs, debug controller, data memory | `Rv32`; `Isa` as abstraction |
| `MCCore` | programs and inputs for TLC | `Core` |
| `CoreProofs` | theorems about `Core` | `Core`; `HartPort` as abstraction |
| `CoreRefinement` | theorem that `Core` implements `Isa` | `CoreProofs` |
| `MdUnit` | abstract multiply/divide unit | |
| `Muldiv` | the unit itself, at any width | `MdUnit` as abstraction |
| `MuldivProofs` | theorems about the unit | `Muldiv` |
| `Uart` | the UART's transmit half and the receive half at the other end of the line | |
| `UartProofs` | theorems about its flags and its delivery | `Uart` |
| `DmiPort` | abstract DMI port | |
| `JtagTap` | TAP, shift registers and DMI accesses, with the adapter that drives the pins | `DmiPort` as abstraction |
| `JtagTapProofs` | theorems about the TAP's state and its scans | `JtagTap` |
| `MCUnits` | instance of these three units for TLC, one at a time | `Muldiv`, `Uart`, `JtagTap` |
| `MemPort` | abstract memory port | |
| `AxiLite` | bridge with an arbitrary AXI4-Lite slave | `MemPort` as abstraction |
| `MCAxiLite`, `AxiLiteProofs` | instance for TLC; theorems | `AxiLite` |
| `HartPort` | the debug port of a hart | |
| `DebugModule` | DM registers, engine, the SoC's side of them | `HartPort` as the hart |
| `MCDebug`, `DebugProofs` | instance for TLC; theorems | `DebugModule` |
| `Channel` | what the demo's console promises | |
| `Rtos` | the demo, its console driver and failure paths, on an external kernel | `Channel` as abstraction |
| `RtosProofs` | theorems about the demo | `Rtos` |
| `CoreUtil` | crc and seeds | |
| `CoreMatrix`, `CoreState` | the matrix and state-machine algorithms | `CoreUtil` |
| `CoreList` | the list algorithm and its comparison functions | `CoreMatrix`, `CoreState` |
| `CoreMark` | main: memory layout, iterations, timing, verdict, score | `CoreList` |
| `Dhrystone` | all procedures, main, score | |
| `Libc` | the C library functions, byte by byte | |
| `MCBenchmarks` | the images for TLC, one at a time | `CoreMark`, `Dhrystone`, `Libc` |

### Core

A step of `Core` is one clock edge. A wire of the RTL is an operator of the same
name; an `always_ff` block is an operator ending in `Edge` that assigns the same
registers (`FetchEdge`, `RasEdge`, `BpredEdge`, `XWEdge`, `BeatEdge`,
`ReservationEdge`, `MuldivEdge`, `MemEdge`, `RegfileEdge`, `CsrEdge`,
`DebugEdge`); `Next` is their conjunction. The interrupt line and the debug pins
(`in`) take any value of the constant `Inputs` at every edge.

The data is small. An instruction is a record of the decoder's outputs and a
length in halfwords, and a program maps every halfword address to what would be
decoded there, so that jumping into the middle of an instruction is modelled. A
word is two lanes instead of four bytes, which is enough for a word access to
cross a word boundary. One or two representatives of each class of ALU, branch,
load, AMO and multiply operation are kept, with their real dependence on their
operands. The divider is a counter that answers after `DivCycles` cycles.

The build is the default one: `SECURE = 0`, `BPRED = 1`.

`ImplementsIsa` maps the pipeline to `Isa`: the abstract pc is the oldest
instruction not yet completed, the abstract registers and memory are those the
instruction in W is about to leave, and an instruction executes in `Isa` when it
moves from X to W for good. A single step or a halt is mapped to the machine's
own, which happens between instructions.

### Muldiv

Every state of the unit is an action, and the reset another. The width is a
constant `W`; powers of two are a table `Pow2`, so that the module uses no
recursion and can be proved about. `Value` defines the M extension's operations
on integers, from which the unit's own computation (magnitudes, shifted
remainder, sign fix-up, two's-complement extension of products) differs
completely. `MdUnit` is the interface `Core` assumes: its `md` variable.

### Uart

A step is one clock edge of the receiver: both halves (`TxEdge`; `SyncEdge`,
`RxEdge`, `Flags`), while software writes a byte or none and reads a register or
none. The line may join a UART to itself or to another one with a clock of its
own. `Skews` says how far the clocks may differ: by less than half a bit over a
frame, the limit of any receiver that looks for the phase only once, at the start
bit. `Rates` are the divisors at which a frame can be received at all: the
receiver counts one and a half bits in 16 bits, so that a divisor above two
thirds of the range (or 0, which the counter takes for the whole range) wraps.
`uart_init` and the reset value are far below. Software sets the rate while
nothing is on its way, as `uart_init` does.

`line`, `unread` and `lost` are history: the bytes on their way, whether the byte
in the data register has been read, whether one was overwritten before it was and
nobody has been told. The stop bit is not tested, and a write to a busy
transmitter is ignored; `Rtos` records the latter as `lost`. The converse of
`NothingMissed` is not true of the code: when the previous byte is read in the
very cycle in which the next one completes, the overrun flag is set although
nothing was lost (line 105 looks at the flag before the read clears it). The
simulation SoC ties `serial_rx` to 1; the FPGA top brings it to a pin.

### AxiLite

Each state of the bridge is an action, combined with what the slave does in that
cycle: accept AW and W together or one by one, wait, answer OKAY or SLVERR. The
slave is external. `MemPort` is one request, one response.

### DebugModule

A step is one clock edge: a DMI write or none (`Written`), then the engine
(`Engine`), both assigning in the same block with the engine last, as in the
RTL; beside it the hart's debug port (`HartEdge` of `HartPort`) and the SoC's bus
port (`MemEdge`). The hart is a `HartPort`: it halts whenever it likes, changes
registers and memory while it runs, and once halted serves accesses and nothing
else. `Core` implements that port (section 6). `asked` records what the debugger asked for, from its own writes only.

### JtagTap

A step is one edge of the core's clock: the samples of the pins (`Sample`), and at
each rise of TCK they show, the TAP, the shift registers and the DMI access
(`TapEdge`). The adapter is external. It keeps TCK at each level for at least two
clocks, since shorter levels may be missed by the samples; it sets TMS and TDI a
clock before TCK rises; it shifts whole DMI and instruction registers or nothing,
with pauses wherever the TAP has them; it may lose its place outside a DMI scan
that is under way, and then, as after a reset, sends five ones. `host` records
where it believes the TAP to be and the bits it has sent and got.

Three details of the code matter. A write is applied one clock after its
update, and `rst` clears neither that pulse nor the shift registers and the
last answer: a write whose scan has just ended survives a reset, which
`DmiPort` allows. `dmi_rdata` and `dmi_rstat` have no reset value, and the model
takes the 0 the FPGA's registers power up with. Two abbreviations: a shift register
is cleared once it has been used, since it is captured again before anybody sees it,
and the bypass bit (which Capture-DR leaves as it was) is left out. The registers
behind the port just keep what is written; what else happens to them is
`DebugModule`'s.

### Rtos

`main.c` and `bsp.c` are modelled, the kernel is external: a fixed-priority
preemptive scheduler (`Switch` goes to the ready task of the highest priority), a
queue, a counting semaphore and delays in ticks (`Waits`, `Tick`). Each context
(main, Producer, Consumer, Worker) has a place in its code (`pc`) and a number of
console calls it has still to make before it goes on from there (`put`). A line is
`LineCalls` calls of `uart_puts`/`uart_putdec`; each call, whatever its number of
bytes, is a poll of the transmitter and a write, with preemption possible in
between. `heap` is the set of objects there is memory for, arbitrary from the
start: the queue, the semaphore and the idle task are asserted, but the results of
`xTaskCreate` (`main.c:143-145`) are not looked at, so the demo can also run with
tasks missing. `tick_on = FALSE` is the `NEG_NO_TICK` build. The Worker only asks
whether the tick count has moved since it last looked: `advanced`.

`Switch` leaves the transmitter idle: `uart_init` always sets BAUDDIV to 2, which
makes a frame some twenty cycles, and a context switch saves and restores thirty
registers. (The comment in `bsp.c:8-9` says that FPGA builds keep the 115200 baud
default; `uart_init` has no such condition. On a line that slow a byte of a
Worker preempted between `bsp.c:19` and `bsp.c:20` could be dropped by the
transmitter.) `lost` records that; `NoByteLost` depends on this premise.

### CoreMark, Dhrystone, Libc

The benchmarks are deterministic, so a behaviour is a choice of build, start
time and duration. CoreMark's arithmetic is bit for bit: crc, 16- and 32-bit
wrap-around, sign extension, the bit-field extraction, the text of the state
machine character by character. `core_bench_list` is one action for each value it
searches and one for each later phase, on a heap of links and data items; the two
other algorithms are operators called from its comparison function, as in the
code. main's memory is the three thirds of `static_memblk`. Compiled away and not
modelled: several contexts, seeds from arguments, debug output. `ITERATIONS = 0`
(search for a count by time) and runs of a subset of the algorithms are left out.

In `Dhrystone` a string is a name of which the procedures look at two letters and
the order. The record and array globals are kept. Procedure 2's local is read
uninitialised unless `Ch_1_glob` is 'A'; then the loop may spin, which is a stage of
its own. Only the DMIPS line of the report is modelled.

`Libc` runs a function one byte at a time over a small memory; `Legal` are the
calls C defines (for `strncpy` also a source without a NUL, if the count ends
first), and `Exact` is what the standard says of each function.

`BuildsAssumption` names what the benchmark itself relies on: at least three list
heads (`core_list_remove` follows three links), and equal first and second seeds,
since the text's corruption is undone by applying it once more with the other
seed. Even then the second pass skips a byte that the first pass turned into a
comma. The comment at `core_state.c:99` does not mention that; `Restored` is stated
for texts where it does not happen (`Undoable`).

## 3. Runs

| Run | Shows | Bounds |
|---|---|---|
| `pipeline` | forwarding into every consumer, crossing accesses, LR/SC/AMO, multiply and divide; exceptions and an interrupt line that changes in any cycle; halt, resume, step, EBREAK-to-debug and register access: `ImplementsIsa`, `TypeOK`, `BeatsPaired`, `MdInStep`, `MdOperandsFresh`, `TrapVectors`, `FrozenStays`, `HaltReached` | with both debugger and interrupt quiet: all programs of 3 of 13 instructions and a jump back, except that a multiply does not directly follow the two-beat access it reads (run `md_stale_operand`); with an interrupt line: all pairs of 12 instructions, 2 handlers, no FENCE.I (run `fencei_irq`); with a debugger: nine of the pairs of 4 instructions (those with an EBREAK, a load before a branch and an ECALL before a load), none of which holds X for long, and a halt request that meets no held X and no step under way (run `halt_drops_multiply`) |
| `control` | BTB, gshare, return stack, straddling and compressed code, FENCE.I: `ImplementsIsa`, `BtbSound`, `PredictedIsControl`, `Progress` | all programs of 4 of 11 instructions and a jump back |
| `units` | multiply/divide: `TypeOK`, `DivLoop`, `ImplementsUnit`, `Answered`; UART: `Delivered`, `NothingMissed`; JTAG: `ImplementsDmiPort` | 5-bit operands: all operations on all operands, followed by corner cases; frames of 2 data bits, counters modulo 16, divisors 1, 2, 7, 11 and 12; DMI of 1 address bit and 1 data bit, instruction register of 2 bits, every path through the TAP, resets at any time |
| `axi` | `TypeOK`, `OneOutstanding`, `ValidStable`, `ImplementsMemPort`, `Answered` | 2 addresses, 2 lanes, 2 byte values |
| `debug_module` | `TypeOK`, `PendingServed`, `OneCommand`, `CommandEffect`, `BusEffect` | 2 words of 1 bit, 1 register; a debugger that starts no bus access while a command is pending |
| `rtos` | `TypeOK`, `Accounts`, `LinesIntact`, `TickIsLoadBearing`, `ImplementsChannel`, `Outcome` | 3 items, queue of 2, delay of 2 ticks, 2 lines of the Worker, lines of 2 calls; every subset of the allocations, tick on and off |
| `benchmarks` | CoreMark: `DataWhole` (`ListWhole`, `BackupKept`, `BlocksApart`), `Restored`, `Validated`; Dhrystone: `RunsAlike`, `ScoreReads`; C library: `Exact` (with the image's name in front) | 7 builds of CoreMark at full size, three of which have published crcs (seed sets of 2000 and 1200 bytes); 1 to 3 runs of Dhrystone; all legal calls on 5 bytes of 3 values |

Five runs show disagreements between the code and what its documents and
comments say; they are listed under `findings` in `PROJECT.json` with the lines
quoted:

| Run | Property | What it shows |
|---|---|---|
| `halt_drops_multiply` | `FrozenStays` | a halt request that meets a waiting multiply removes it from X; it never executes. A single step over a multiply is lost the same way: the freeze of `step_halt_now` has priority over the stall |
| `fencei_irq` | `TrapVectors` | an interrupt accepted on FENCE.I saves context and disables interrupts but does not go to mtvec |
| `md_stale_operand` | `MdOperandsFresh` | a multiply directly behind a crossing load or an AMO of its operand starts on an unfinished value |
| `bus_access_loses_command` | `PendingServed` | a bus access started while a command waits for a running hart strands the command: it stays busy for ever |
| `score_misprinted` | `CoreMarkScoreInThousandths` | the port's `ee_printf` ignores the width of `%03d`, so a score of 2.050 CoreMark/MHz is printed as 2.50 |

Why the bounds are enough. The pipeline is three stages deep and no mechanism
looks further back than two instructions (forwarding, second beat, straddle), so
programs of two to four instructions run in a loop put every ordered pair and
triple of the alphabet into the stages, on cold and on trained predictors.
Tables of one or two entries make different instructions share an entry; a return
stack of two overflows with three calls; a word address space of 16 halfwords
wraps. Two lanes per word give aligned, misaligned-within and crossing accesses.
In `Muldiv` every mechanism repeats per bit, so width 5 goes through first,
middle and last step; the loop invariant is proved for every width. In `Uart`
two data bits are a first and a last one; divisor 1 leaves no slack, 7 is the first
at which the clocks may differ, 11 the last at which one and a half bits fit the
counter, and 12, at which software sends nothing, shows the way there and back. In `JtagTap` a DMI scan of four bits has
a first, a last and inner bits, two registers tell a wrong address from the right
one, and four instruction codes select every register and none; the widths of the
code add more of the same bits. In `AxiLite`
the second address and byte serve to tell two requests apart. In `DebugModule`
two words let the autoincrement move and wrap. In `Rtos` the third item is the
first that finds the queue used before; a line of two calls has an inside, in which
it could be torn, and the theorems cover every size. CoreMark is not
bounded at all: a build's data and iterations are the program's own, and the
small builds put the block's boundaries elsewhere. Only mtime's range is smaller
(20 bits, with a start close to the wrap). Five bytes hold two overlapping or
disjoint buffers of two bytes, and a string between other bytes.

Each property is also run against a deliberately faulty definition (the
operators named `..._Fault`, a dropped condition, reset or comparison of the
kind one could make in the RTL) and must be violated by it; `PROJECT.json` lists
them under `mutants`.

## 4. What the properties say

- `ImplementsIsa` (refinement of `Isa`): precise execution, with traps,
  interrupts and debug.
- `BeatsPaired`: a second beat belongs to the access that took the first.
- `MdInStep`: the multiplier works for the instruction in X; its one-cycle done
  is never missed behind a second beat.
- `MdOperandsFresh`: it starts on the architectural values of its operands.
- `BtbSound`, `PredictedIsControl`: a BTB hit always describes the branch or
  jump at that very address. X corrects only branches and jumps, so a hit on
  anything else would send fetch astray for good.
- `FrozenStays`: what X has to hold is not lost.
- `TrapVectors`: whoever takes a trap goes to mtvec.
- `HaltReached`, `Progress`: a halt drains, the pipeline moves.
- `DivLoop`, `ImplementsUnit`, `Answered`: the division's loop invariant, its
  results and latencies, and that it ends.
- `Delivered`: what the receiver completes is the byte that was loaded first and not
  yet received, for frames back to back, at any phase, with clocks that differ.
- `NothingMissed`: a byte that waits shows as ready; one that was overwritten unread
  shows as overrun until the status has been read.
- `OneOutstanding`, `ValidStable`, `ImplementsMemPort`, `Answered`: AXI's rules,
  and one answer per request, from the memory or an error.
- `PendingServed`, `CommandEffect`, `BusEffect`: a command that is still busy
  while the hart is halted is being worked on; a command or bus access has had its
  effect when it ends, also through autoincrement and resets.
- `OneCommand`: a resume never reaches the hart in the cycle in which it takes a
  command, although neither request waits for the other.
- `ImplementsDmiPort`: whatever path the scans take and whatever happens between
  them, each performs its own request once, before the next one starts
  (`NoneSkipped`), and brings the result of the last read.
- `Accounts`: two objects filled and emptied by two tasks, without a lock around
  the pair, never disagree by more than the step in progress. It implies that the
  Consumer never blocks on the queue (`ItemIsThere`).
- `LinesIntact`: what the console keeps with three tasks printing to it and no
  lock. A line of the Producer or the Consumer is in one piece (`LinesWhole`), no
  byte is lost (`NoByteLost`), and the only output such a line is ever appended to
  is the beginning of a line of the Worker (`BehindWorker`). It does not say that
  the console can be read line by line, and it cannot be: the Worker prints its
  line with three calls (`main.c:109`), and if the tick preempts it behind the
  first, the Producer's line follows on the same line of the console, as in
  `[W]run@[P]send:2`. `run_rtos.py:69-93` looks for whole lines and would report
  that item as missing. Whether a simulation meets that preemption depends on its
  timing, which the model leaves open; the console never shows anything worse.
- `TickIsLoadBearing`: the claim of the negative test. Without the timer the demo
  cannot pass, because the Producer waits for a tick between items.
- `ImplementsChannel`, `Outcome`: the transcript's order; the verdict, for every
  combination of failed allocations.
- `DataWhole` is three things. `ListWhole`: no list operation loses an item or links one twice. `BackupKept`:
  the cached result never overwrites the byte the item is rebuilt from.
  `BlocksApart`: the matrices end before the text, and the text's scan stops
  inside its block although its last bytes are corrupted too.
- `Restored`: an iteration gives list, matrices and text back unchanged.
- `Validated`: main's own verdict. The published crcs of seed sets 2, 3 and 4 of
  `core_main.c` come out of the model, from initial data to final verdict, which
  also shows that the translation is right; and the time is right across a wrap.
- `RunsAlike`: Dhrystone's runs share globals, and each finds what the first did.
  `ScoreReads`: the digits of the DMIPS line are the rate over 1757, in thousandths.
- `Exact`: the C library.

## 5. Fairness

All modules are clocked. `WF_vars(Next)` says that the clock does not stop, and
no more: there is no fairness on inputs. `Progress` (an instruction leaves X
again and again, or the hart is halted) and `HaltReached` need no help from
interrupts or the debugger. In `Muldiv` the
fair action is a clock edge that is not a reset, as a unit that is reset for ever
answers nothing. In `AxiLite` the slave is assumed to accept and answer
eventually (AXI requires it), which is stated with `FairSpec`. In `Rtos` the
processor, the timer and the transmitter each go on (`WF` of `Cpu`, `Tick` and
`FrameSent`); the tasks need no fairness of their own, because the scheduler's
priorities decide which of them runs. Nothing is stated about the end of
CoreMark: its loops are counted, and those over the list end because the list
has no cycle (`ListWhole`).

## 6. What is proved

Every theorem is checked by `tlapm` to the last leaf; none depends on a TLC run.
They hold for all values of the constants that satisfy the modules' named
assumptions (`Rv32`'s, `CoreAssumption`, `MuldivAssumption`, ...), which TLC
evaluates in the runs.

`AxiLiteProofs`

- `BridgeInvariant`: `TypeOK /\ OneOutstanding` is inductive.
- `ValidIsStable`: from it, action by action.
- `BridgeImplementsMemPort`: initial states map to initial states, each action
  of the bridge to a step of `MemPort` or a stutter.

`CoreProofs`

- `CoreTypeOK`: one lemma for each wire (what it returns when the state is
  typed) and one for each always block, combined by conjunction.
- `CoreBtbSound`: needs that X's instruction is the program's at its pc
  (`FromProgram`), since the BTB is trained from X. `FromProgram` needs in turn
  that a straddling fetch assembles the instruction at its own pc.
- `CorePredictedIsControl`: from `CoreBtbSound` and the return stack's own test
  of the instruction.
- `CoreBeatsPaired`: the second beat starts only in a cycle in which W is held,
  and W does not change in such a cycle.
- `CoreTrapVectors`, for programs without FENCE.I (`NoFencei`). The run
  `fencei_irq` shows that the assumption is necessary.
- `CoreFrozenStays` and `CoreMdInStep`, for behaviours in which neither a halt
  request nor the end of a single step meets an instruction that X holds
  (`HaltsBetween`); `halt_drops_multiply` is the counterexample without it.
  `DebugInv`, which holds for every debugger, says that debug mode is entered with
  an empty pipeline. `MdInStep` is strengthened by "W holds a bubble while the
  multiplier works": that is why no second beat can hide its done.
- `CoreHaltsSoon` and `CoreRetiresSoon`, for every debugger, orderly or not: the
  bounds behind `HaltReached` and `Progress`, as ranking functions. While a
  halt is due, X is empty (`DebugInv`), and `DrainLeft` (at most 2) falls at every
  clock: a second beat, then the instruction in W. `RetireLeft` (at most
  `DivCycles + 7`) falls at every clock in which X hands nothing to W and the hart
  does not halt: it counts W's second beat, the two fetches of a straddling
  instruction and the multiplier's remaining cycles, in an order in which each can
  only be followed by a later one. It needs that an operation in flight is being
  counted down or delivered (`MdCounts`), which holds also where a halt has dropped
  its instruction.
- `CoreImplementsHartPort`: `Spec => HartSide!Spec`, for every program and every
  sequence of pins. The core is the hart that `DebugModule` is built on: each
  access is served once; a halted hart has an empty pipeline (`DebugInv`) and so
  changes no register but the one it is told to write (`HaltedKeeps`), and it
  resumes when told to. The registers meant are those that keep a whole word
  (`WholeRegs`): x1 to x31, dpc, mepc and mscratch. x0, mstatus and dcsr do not
  read back what is written to them.

`CoreRefinement`, on top of it

- `CoreMdOperandsFresh`, for programs in which no multiply or divide directly
  follows a late write (an AMO or a word load) of its operand
  (`NoMdBehindLateWrite`; counterexample: `md_stale_operand`) and for any pins.
  Behind a late write in W, X holds the next instruction of the program (`Adjacent`),
  because a load or AMO is never predicted taken (`CorePredictedIsControl`).
- `CoreImplementsIsa`: `Spec /\ []Orderly => ImplementsIsa`, for such programs.
  The inductive invariant `RInv` has eight parts: `WInv` (types; control bits
  are those of the instruction; between two beats `ld_w0`, or memory, holds what
  the first one did), `ZeroReg`, `FromProgram`, `PredictedIsControl`, `Chain` (F
  stands where X's instruction or its prediction leads), `DebugInv`, `MdInv` and
  `MdRight` (the multiplier's result is that of the architectural operands).
  First, data: what W writes in one beat or two is what `ArchRegs`, `ArchMem` and
  `ArchResv` already count as done (`StepRetires`, `OwedAfterFirstBeat`), and what X reads
  is `ArchRegs` (`Operand`); below them is the arithmetic of lanes, beats, byte
  enables and sign extension (`LoadAssembles`, `StoreRetires`, `WordRetires`). Then
  each edge is a step of `Isa` or invisible: an instruction leaves X (`MovesStep`:
  data, next pc, CSRs, debug state), an EBREAK turns into a halt (`BreakStep`), a
  request makes one due (`HaltStep`), the empty pipeline enters debug mode
  (`EnterStep`), a halted hart is resumed or written (`HaltedStep`), or nothing
  shows (`IdleStep`: X empty, held or waiting for W's first beat).
- `Orderly` has four parts. `HaltsBetween` and `FenceiAlone` (no interrupt is accepted on a
  FENCE.I) exclude the disagreements `halt_drops_multiply` and `fencei_irq`
  show. `StepAlone`: no halt request while a single step is under way; one that comes
  before the step's instruction is fetched stops the hart at once, and the core
  reports cause "step" for a step that executed nothing, which `Isa` does not allow.
  `OneCommand`: no resume in the cycle that writes a register; the write of a dpc
  would be lost, as the resume reads the old one. The repository's own debug module
  never asks for that (`DebugOneCommand` below). The behaviours of run `pipeline`
  are orderly, with halts, steps and resumes among them.
- `CoreAloneImplementsIsa`, `CoreAloneKeepsInstructions`: without a debugger
  (`NoDebugger`) the debug controller never leaves its reset state, and `Orderly`
  follows from assumptions on the constants alone (for the first, `NoFencei` or an
  interrupt line that is not connected).

`MuldivProofs`

- `MuldivDivLoop`: at every width, type correctness and the loop invariant of
  the divider. The invariant is strengthened by `Loaded`, which ties the latched
  magnitudes and sign flags to the request. The step consumes one bit:
  `(2q + c) * d + (2r + b - c*d) = 2(q*d + r) + b`; that the quotient never
  overflows its register follows from the invariant itself.
- `MuldivTypeOK`: from it.
- `MuldivImplementsUnit`: the unit refines `MdUnit`, the abstraction `Core` uses.
  The arithmetic comes first. A sign extension differs from the number it stands
  for by nothing or by one multiple of the word (or double word), so products of
  either agree in their low words (`LowWord`, `BothWords`, hence `MulValue`). The
  loop invariant at the last bit determines quotient and remainder (`DivUnique`),
  and negating a word is negating the number (`NegIsMinus`), hence `DivValue`;
  division by zero and overflow are `SpecialValue`. Then the simulation: an
  invariant says that a "done" carries the value of the latched operation and
  comes in the idle state (`AnswerRight`), and each edge loads or counts down the
  cycles left (`StepIsUnitStep`).

`UartProofs`

- `UartNothingMissed`: inductive as it stands; an edge sets and clears flags and
  history alike, also when both happen at once (`EdgeHidesNothing`).
- `UartDelivered`: for frames of at least two bits (`Sizes`), any range of the
  counters and any divisors. The inductive invariant `Reception` relates the two
  ends by time: `RxAge` and `TxAge` are the clocks since the start bit of the byte
  that each is at, and the two taps show what was on the line one and two clocks
  ago (`Taps`). `On` says what can be on the line at an age: each bit of the frame
  for one length of the sender's, then the stop bit until another byte may have
  been loaded and waited its time. While the receiver is in a byte, the
  sender (`Ahead`) is still in it at the same age, is free, waits with the next
  byte, or has begun it; `AheadStep` takes the four along one edge. The
  arithmetic is in `SkewFacts`: with less than half a bit of difference over a
  frame, every sample falls within its own bit, and the receiver completes before
  the next start bit can be at its second tap (`EndBound`), however closely
  the frames follow. Products of two unknowns reach the prover only through
  `Split`, `NextMul` and `MulMono`. The limits `Rates` and `Skews` are what the
  proof needs: see the section on `Uart` for what the code does beyond them.

`JtagTapProofs`, for every width of address, word and instruction register

- `FiveOnes`: from every state of the TAP, by where one, two, ... ones can lead
  (`After`).
- `TapInStep`: `InStep` is not inductive, since a rise of TCK takes up to two clocks to
  reach the TAP. `Place` speaks of the state the TAP is bound for (`Bound`), and of
  `After(n)` while the adapter sends its ones; `Levels` says which samples go with
  a TCK that has had its level for one clock or for longer. Keeping each level for two
  clocks is what makes it true that no rise is on its way when the next one comes.
- `JtagWritesApart`: two DMI writes are at least eight clocks apart, whatever drives
  the pins and whenever the reset comes. `ClocksTo` is a lower bound of the clocks to
  the next one: four rises of TCK lead from one Update-DR to the next, and
  the samples cannot show rises in consecutive clocks.
- `TapImplementsDmiPort`: the transport refines `DmiPort`, for widths and codes as
  `Widths` has them (the instruction register shorter than DMI's, a code of its own
  for DMI). The adapter is ahead of the TAP by a rise that is on its way, so the
  invariant `Track` compares what it has sent with what each register is bound to
  hold (`BoundIr`, `BoundIrShift`, `BoundDr`): after `s` has gone into a register
  that captured `c`, it holds `Mixed(c, s)`, through any pause and any number of
  surplus bits (`KeepMixed`). An update on its way still carries the whole scan or
  nothing (`Scans`), also where the adapter has lost its place since, and a
  write still to be performed is the last scan's (`Write`), so that neither a
  read nor a reset finds the registers in between. A scan into which nothing was
  shifted carries the answer it captured, which is no request (`AnswerIsNop`).

`DebugProofs`, for every word size and set of registers

- `DebugTypeOK`: for every debugger. A write and the engine both assign in one
  clock edge, so each half has a lemma that says what it leaves (`Kinds`,
  `Serves`), and a step is one after the other.
- `DebugPendingServed`, `DebugCommandEffect`, `DebugBusEffect`: for a debugger
  that starts no bus access while a command is pending (`HostWaits`); the run
  `bus_access_loses_command` shows that the assumption is necessary. The
  inductive invariant ties the two ends of each handshake together: the engine
  waits exactly while a command is pending, and the hart answers in the cycle after
  it took the command and does not resume in between (`Handshake`); the request
  on its way is the one the debugger gave (`Pending`); the request on the bus is at
  the address the debugger counts, and its answer is the word there (`Bus`).
- `DebugOneCommand`: `OneCommand`, for every debugger, also one that starts bus
  accesses while a command is pending. A resume request is written in one clock
  and seen in the next, so a command taken in that clock was valid before it
  (`OldCommand`) and has been taken already.
- `DebugSettlesSoon`: a resume request and a bus access are over within two clocks
  of the write that starts them (`Unsettled` falls at each), for every debugger. It
  needs `Answering`: no access is left without request and answer.
- `PacedIsDebugModule`: `DebugModule` lets a write come only when the one before
  has settled (`Settled`). `PacedSpec` assumes instead that writes are as far apart
  as the TAP makes them, and every behaviour of it is one of `Spec`, so the
  theorems above hold of it.

The three ends meet. `JtagWritesApart` gives `PacedSpec` its pace, so `Settled` is
no assumption about the debugger; `CoreImplementsHartPort` says that the hart
`DebugModule` relies on is this core; and `DebugOneCommand` gives the core one of
the four parts of `Orderly`. These are theorems about the interfaces, one for each
side: a product of the modules is not built, and the other three parts of
`Orderly` really are about when the debugger and the interrupts act.

`RtosProofs`, for every number of items, queue length, delay and length of a line

- `RtosTypeOK`, `RtosAccounts`, `RtosItemIsThere`, `RtosConsole`
  (`LinesIntact`), `RtosTickIsLoadBearing`: parts of one inductive invariant `Inv`.
  What the properties need beside themselves: where main and the tasks are before
  the scheduler starts (`Started`), that a context which has polled and not
  written sees an idle transmitter unless it is preempted (`PollHolds`), that a
  Producer in the middle of its line is the one whose turn it is unless the
  Consumer can run (`Undisturbed`), and where the Producer is stuck when no tick
  ever comes (`Stuck`). One lemma per action, under it one step per part. `BehindWorker`
  follows (`BehindWorkerHolds`) once main is known to be silent when the scheduler
  runs (`MainSilent`): who is about to print has no unfinished line of main, Producer
  or Consumer before it, because of priorities.
- `RtosImplementsChannel`: initial states correspond; every step is a step of
  `Channel` or invisible. A value counts as announced or received when the last
  write of its line is made, so the proof's core is the write that ends a line.

## 7. What is only model-checked

- Liveness (`Progress`, `HaltReached`, `Answered`, `Outcome`): beyond the prover,
  which treats neither fairness nor ENABLED. Of the first two the bounds are proved,
  as ranking functions (`CoreRetiresSoon`, `CoreHaltsSoon`).
- CoreMark, Dhrystone and the C library: their algorithms are recursive operators
  over data, which the prover cannot reason about.

## 8. Not modelled, and the plan

Order of the plan: the pipeline against its abstract machine first, since it is
the heart of the code, then the units it relies on, then what surrounds it.

Done: `Rv32`, `Isa`, `Core`, `MCCore`, `CoreProofs`, `CoreRefinement`; `MemPort`, `AxiLite`,
`AxiLiteProofs`; `MdUnit`, `Muldiv`, `MuldivProofs`; `HartPort`, `DebugModule`,
`DebugProofs`; `Uart`, `UartProofs`; `DmiPort`, `JtagTap`, `JtagTapProofs`; `Channel`, `Rtos`, `RtosProofs`; `CoreMark`
and its algorithms, `Dhrystone`, `Libc`.

Next, in this order:

1. The debugger's polling of resumeack and havereset, and status words as a
   whole.
2. `Soc`: CLINT with mtime wrap and mtimecmp in halves, tohost, address map, code
   memory written by data port and debug bus (BTB entries that outlive the code).
3. `Csr`: WARL fields, counters, delegation; the SECURE build with User mode, N
   user traps and triggers on top of `Core`'s trap model; `Pmp` as operators
   against the priority-match definition.
4. `ResetSync`: asynchronous assertion, synchronous release.
5. Fairness of interrupts: a loop made of branches and jumps alone postpones
   them for ever, since an interrupt is taken only on other instructions.

Theorems worth proving next: safety of the CLINT's half writes, once it is
modelled.

Left out for good: encodings (RVC expansion, immediate generation and opcode
bits are data no property tells apart), the RVFI trace port, simulation benches,
FPGA board wrappers and build scripts, which hold no state of the system;
`coremark/src/barebones/`, which `build_coremark.sh` does not compile and which
stops at `#error` until it is ported; `print_uint` of `dhry_port.c`, which nothing
calls; FreeRTOS's test applications and `start.S`, because what they observe is
decided by kernel code that is not in the repository. The golden model is a second
implementation used by co-simulation; `Isa` plays its part here.

Two things the benchmarks' model cannot show. main returns 0 whatever
`total_errors` is (`core_main.c:469`), so that the run script sees PASS; the
model's arithmetic is that of a correct core and never gets there. And a
`total_time` of 0 would be divided by (`core_main.c:423`); no run is that short.
