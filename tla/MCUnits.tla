------------------------------- MODULE MCUnits ------------------------------
(***************************************************************************)
(* TLC instance of three units that do not meet, one at a time: the        *)
(* multiply/divide unit, the UART at both ends of a line, and the JTAG     *)
(* transport with two registers behind it.                                 *)
(*                                                                         *)
(* Muldiv starts with any operation on any operands and goes on with those *)
(* of Corners, so that every pair of an arbitrary operation and a corner   *)
(* case after it is covered without the square of all operations.          *)
(***************************************************************************)
EXTENDS Muldiv

CONSTANTS Bits, CountMod, BAUD_DIV_RST, Divisors
CONSTANTS ABits, DBits, IrBits

VARIABLES
    unit,       \* the unit that runs
    pick,       \* the operation X may ask for now
    baud_div, skew, tx, serial_tx, rx_sync, rx, rx_ready_q, rx_overrun_q, rx_irq, line, unread, lost,
    pins, held, sync, tap, ir, ir_shift, dr, dmi, dmregs, host, scan

U == INSTANCE Uart
\* The codes of the instruction register, and what the IDCODE and DTMCS hold.
T == INSTANCE JtagTap WITH
    IR_IDCODE <- <<1, 0>>, IR_DTMCS <- <<0, 0>>, IR_DMI <- <<0, 1>>, IDCODE <- <<1>>, DTMCS <- <<0>>
MuldivVars == <<vars, pick>>
UartVars == <<baud_div, skew, tx, serial_tx, rx_sync, rx, rx_ready_q, rx_overrun_q, rx_irq, line, unread, lost>>
TapVars == <<pins, held, sync, tap, ir, ir_shift, dr, dmi, dmregs, host, scan>>

MCPow2 == [n \in 0 .. W |-> 2 ^ n]
Corners == [op : {"mulh", "rem"}, a : {Half}, b : {0, 3, Full - 1}]

MCInit ==
    /\ Init /\ U!Init /\ T!Init
    /\ \/ unit = "muldiv" /\ pick \in Request
       \/ unit \in {"uart", "tap"} /\ pick = req
RunMuldiv ==
    /\ unit = "muldiv" /\ Next({pick}) /\ pick' \in (IF done' THEN Corners ELSE {pick})
    /\ UNCHANGED <<unit, UartVars, TapVars>>
RunUart == unit = "uart" /\ U!Next /\ UNCHANGED <<unit, MuldivVars, TapVars>>
RunTap == unit = "tap" /\ T!Next /\ UNCHANGED <<unit, MuldivVars, UartVars>>
MCNext == RunMuldiv \/ RunUart \/ RunTap
MCSpec == MCInit /\ [][MCNext]_<<unit, MuldivVars, UartVars, TapVars>> /\ WF_MuldivVars(RunMuldiv /\ Clock({pick}))

-----------------------------------------------------------------------------
\* three_sipp_es_uart.sv delivers every byte once, in order, at any phase and
\* within the tolerated difference of the two clocks.
Delivered == U!Delivered
\* Its flags tell software of every byte that waits and of every byte lost.
NothingMissed == U!NothingMissed
\* The scans of a debugger reach the registers of three_sipp_es_debug.sv as
\* they would through a port of one request at a time.
ImplementsDmiPort == T!ImplementsDmiPort
=============================================================================
