------------------------------- MODULE JtagTap ------------------------------
(***************************************************************************)
(* rtl/three_sipp_es_debug.sv: the JTAG transport, from the oversampled    *)
(* pins to the registers of the debug module (what else happens to them is *)
(* DebugModule's).  One step is one edge of the core's clock, while the    *)
(* adapter drives the pins.  A register or a request is a sequence of bits *)
(* in the order they are shifted.                                          *)
(***************************************************************************)
EXTENDS Integers, Sequences

CONSTANTS
    ABits, DBits,               \* widths of a DMI address and of a word
    IrBits, IR_IDCODE, IR_DTMCS, IR_DMI,
    IDCODE, DTMCS               \* words, the values of two registers

BitStrings(n) == [1 .. n -> {0, 1}]
Zeros(n) == [i \in 1 .. n |-> 0]
Word == BitStrings(DBits)
DMI_W == ABits + DBits + 2
CapturePattern == [Zeros(IrBits) EXCEPT ![1] = 1]
NoRequest == <<>>
Hold == 2           \* clocks for which TCK keeps each level, at least

VARIABLES
    pins,       \* tck, tms, tdi
    held,       \* for how many clocks TCK has been what it is, up to Hold
    sync,       \* tck_s, tms_s, tdi_s: the last two samples, the newer one first
    tap, ir, ir_shift, dr,
    dmi,        \* dmi_rdata; the write of dmi_we_addr and dmi_we_data, if any
    dmregs,     \* the debug module's registers
    host,       \* history: what the adapter knows of the TAP and has scanned
    scan        \* history: the DMI scan that ended at the last edge

tapvars == <<tap, ir, ir_shift, dr, dmi, dmregs>>
vars == <<pins, held, sync, tapvars, host, scan>>

\* The next state for tms = 0 and for tms = 1.
Arcs ==
    [TLR    |-> <<"RTI", "TLR">>,       RTI    |-> <<"RTI", "SEL_DR">>,
     SEL_DR |-> <<"CAP_DR", "SEL_IR">>, CAP_DR |-> <<"SHF_DR", "EX1_DR">>,
     SHF_DR |-> <<"SHF_DR", "EX1_DR">>, EX1_DR |-> <<"PAU_DR", "UPD_DR">>,
     PAU_DR |-> <<"PAU_DR", "EX2_DR">>, EX2_DR |-> <<"SHF_DR", "UPD_DR">>,
     UPD_DR |-> <<"RTI", "SEL_DR">>,    SEL_IR |-> <<"CAP_IR", "TLR">>,
     CAP_IR |-> <<"SHF_IR", "EX1_IR">>, SHF_IR |-> <<"SHF_IR", "EX1_IR">>,
     EX1_IR |-> <<"PAU_IR", "UPD_IR">>, PAU_IR |-> <<"PAU_IR", "EX2_IR">>,
     EX2_IR |-> <<"SHF_IR", "UPD_IR">>, UPD_IR |-> <<"RTI", "SEL_DR">>]
NextTap(s, tms) == Arcs[s][tms + 1]

Init ==
    /\ pins = [tck |-> 0, tms |-> 1, tdi |-> 0] /\ held = Hold
    /\ sync = [tck |-> <<0, 0>>, tms |-> <<1, 1>>, tdi |-> <<0, 0>>]
    /\ tap = "TLR" /\ ir = IR_IDCODE /\ ir_shift = CapturePattern
    /\ dr = Zeros(DMI_W)
    /\ dmi = [rdata |-> Zeros(DBits), write |-> NoRequest]
    /\ dmregs = [a \in BitStrings(ABits) |-> Zeros(DBits)]
    /\ host = [tap |-> "TLR", ir |-> IR_IDCODE, lost |-> 5, sent |-> <<>>, got |-> <<>>]
    /\ scan = NoRequest

----------------------------------------------------------------------------
(* The TAP: one step at each rise of TCK the samples show, with the tms and *)
(* tdi of the last low sample.                                              *)
tck_rise == sync.tck = <<1, 0>>
tms_q == sync.tms[2]
tdi_q == sync.tdi[2]
At(s) == tck_rise /\ tap = s

ShiftIn(s, bit) == Append(Tail(s), bit)
tdo == dr[1]    \* while ir selects a register

Sample ==
    sync' = [tck |-> <<pins.tck, sync.tck[1]>>, tms |-> <<pins.tms, sync.tms[1]>>,
             tdi |-> <<pins.tdi, sync.tdi[1]>>]

\* Once used, a shift register keeps its bits until the next capture, where
\* nobody can see them: they are cleared here.
IrEdge ==
    /\ ir' = IF At("TLR") THEN IR_IDCODE ELSE IF At("UPD_IR") THEN ir_shift ELSE ir
    /\ ir_shift' = IF At("CAP_IR") THEN CapturePattern
                   ELSE IF At("SHF_IR") THEN ShiftIn(ir_shift, tdi_q)
                   ELSE IF At("UPD_IR") THEN CapturePattern ELSE ir_shift

\* IDCODE and DTMCS occupy the low word of the register.
Captured ==
    CASE ir = IR_IDCODE -> IDCODE \o Zeros(ABits + 2)
      [] ir = IR_DTMCS  -> DTMCS \o Zeros(ABits + 2)
      [] ir = IR_DMI    -> Zeros(2) \o dmi.rdata \o Zeros(ABits)    \* dmi_rstat is always 0
      [] OTHER          -> Zeros(DMI_W)
\* Fault: the register is as long for DMI as for IDCODE.
Shifted_Fault == ShiftIn(SubSeq(dr, 1, DBits), tdi_q) \o Zeros(ABits + 2)
Shifted ==
    CASE ir = IR_DMI                   -> ShiftIn(dr, tdi_q)
      [] ir \in {IR_IDCODE, IR_DTMCS}  -> ShiftIn(SubSeq(dr, 1, DBits), tdi_q) \o Zeros(ABits + 2)
      [] OTHER                         -> dr
DrEdge == dr' = IF At("CAP_DR") THEN Captured ELSE IF At("SHF_DR") THEN Shifted
                ELSE IF At("UPD_DR") THEN Zeros(DMI_W) ELSE dr

\* The request in the shift register, op first.
Op(s) == CASE s[1] = 0 /\ s[2] = 0 -> "nop" [] s[1] = 1 /\ s[2] = 0 -> "read"
           [] s[1] = 0 /\ s[2] = 1 -> "write" [] OTHER -> "reserved"
Request(s) ==
    [op |-> Op(s), data |-> SubSeq(s, 3, DBits + 2), addr |-> SubSeq(s, DBits + 3, DMI_W)]
Updates == At("UPD_DR") /\ ir = IR_DMI

\* A write is performed one clock after its update.
DmiEdge ==
    /\ dmi' = [rdata |-> IF Updates /\ Op(dr) = "read" THEN dmregs[Request(dr).addr] ELSE dmi.rdata,
               write |-> IF Updates /\ Op(dr) = "write" THEN Request(dr) ELSE NoRequest]
    /\ dmregs' = IF dmi.write = NoRequest THEN dmregs ELSE [dmregs EXCEPT ![dmi.write.addr] = dmi.write.data]

TapEdge ==
    /\ tap' = IF tck_rise THEN NextTap(tap, tms_q) ELSE tap
    /\ IrEdge /\ DrEdge /\ DmiEdge

----------------------------------------------------------------------------
(* The adapter: a clock much slower than the core's, tms and tdi stable     *)
(* around its rise, DMI and instruction registers scanned in full.          *)
Keep(s, n, bit) == IF Len(s) = n THEN ShiftIn(s, bit) ELSE Append(s, bit)
Whole ==
    CASE host.tap \in {"EX1_IR", "EX2_IR"} -> Len(host.sent) \in {0, IrBits}
      [] host.tap \in {"EX1_DR", "EX2_DR"} -> host.ir = IR_DMI => Len(host.sent) \in {0, DMI_W}
      [] OTHER -> TRUE

Seen ==
    [tap  |-> NextTap(host.tap, pins.tms),
     ir   |-> IF host.tap = "UPD_IR" THEN IF host.sent = <<>> THEN CapturePattern ELSE host.sent
              ELSE IF host.tap = "TLR" THEN IR_IDCODE ELSE host.ir,
     lost |-> IF host.lost = 0 THEN 0 ELSE host.lost - 1,
     sent |-> CASE host.tap \in {"CAP_DR", "CAP_IR", "UPD_IR"} -> <<>>
                [] host.tap = "SHF_IR" -> Keep(host.sent, IrBits, pins.tdi)
                [] host.tap = "SHF_DR" /\ host.ir = IR_DMI -> Keep(host.sent, DMI_W, pins.tdi)
                [] OTHER -> host.sent,
     got  |-> CASE host.tap = "CAP_DR" -> <<>>
                [] host.tap = "SHF_DR" /\ host.ir = IR_DMI /\ Len(host.got) < DBits + 2 -> Append(host.got, tdo)
                [] OTHER -> host.got]
\* The adapter's next move, between two edges of the core's clock.
Wait == (pins.tck = 1 \/ held = Hold) /\ UNCHANGED pins /\ held' = Hold
SetUp ==
    /\ pins.tck = 0 /\ held = 1
    /\ \E tms \in {0, 1}, tdi \in IF host.tap \in {"SHF_DR", "SHF_IR"} THEN {0, 1} ELSE {0} :
          pins' = [pins EXCEPT !.tms = tms, !.tdi = tdi]
    /\ held' = Hold
Fall == pins.tck = 1 /\ held = Hold /\ pins' = [pins EXCEPT !.tck = 0] /\ held' = 1
Rise ==
    /\ pins.tck = 0 /\ held = Hold
    /\ host.lost > 0 => pins.tms = 1
    /\ NextTap(host.tap, pins.tms) \in {"UPD_DR", "UPD_IR"} => Whole
    /\ pins' = [pins EXCEPT !.tck = 1] /\ held' = 1 /\ host' = Seen
\* It loses its place, though not inside a scan of DMI.  From then on, as after
\* a reset, it first sends five ones.
Lost(sent, got) == [tap |-> "TLR", ir |-> IR_IDCODE, lost |-> 5, sent |-> sent, got |-> got]
Lose ==
    /\ host.lost = 0 /\ held = Hold
    /\ host.ir = IR_DMI => /\ host.tap # "SHF_DR"
                           /\ host.tap \in {"EX1_DR", "PAU_DR", "EX2_DR"} => Len(host.sent) \in {0, DMI_W}
    /\ host' = IF Len(host.sent) = DMI_W THEN Lost(host.sent, host.got) ELSE Lost(<<>>, <<>>)
    /\ held' = Hold /\ UNCHANGED pins
Adapter == ((Wait \/ SetUp \/ Fall) /\ UNCHANGED host) \/ Rise \/ Lose

\* The scan that ends at this edge, with the request the adapter has sent and
\* the word it has got, which comes after the status 0.
Ended == Updates /\ host.sent # <<>>
EndOfScan ==
    /\ Ended /\ (Wait \/ Fall)
    /\ scan' = [request |-> Request(host.sent),
                reply |-> IF SubSeq(host.got, 1, 2) = Zeros(2) THEN SubSeq(host.got, 3, DBits + 2) ELSE host.got]
    /\ host' = [tap |-> host.tap, ir |-> host.ir, lost |-> host.lost, sent |-> <<>>, got |-> <<>>]

Clock == Sample /\ TapEdge /\ (EndOfScan \/ (~Ended /\ Adapter /\ scan' = NoRequest))
\* rst leaves the shift registers, the answer and a write still to be performed
\* alone.
Reset ==
    /\ Sample /\ tap' = "TLR" /\ ir' = IR_IDCODE
    /\ dmregs' = [a \in BitStrings(ABits) |-> Zeros(DBits)]
    /\ UNCHANGED <<pins, ir_shift, dr, dmi>>
    /\ held' = Hold /\ host' = Lost(<<>>, <<>>) /\ scan' = NoRequest

Next == Clock \/ Reset
Spec == Init /\ [][Next]_vars

----------------------------------------------------------------------------
\* A rise of TCK that the TAP has yet to follow: not yet sampled, or sampled.
OnItsWay == (pins.tck = 1 /\ held = 1) \/ tck_rise
\* An adapter that has sent its five ones knows where the TAP is, from whatever
\* state it started and however its clock and the core's lie.
InStep == host.lost = 0 /\ ~OnItsWay => tap = host.tap

\* When the adapter captures again, the TAP has performed the scan before.
NoneSkipped == host.tap = "CAP_DR" => host.sent = <<>>
\* A debugger sees a port: whatever path its scans take through the TAP,
\* whenever it pauses, loses its place or is reset, each scan performs its own
\* request once, before the next one starts, and brings the result of the last
\* read.
Port == INSTANCE DmiPort WITH
    Addr <- BitStrings(ABits), ZeroWord <- Zeros(DBits), NoScan <- NoRequest, answer <- dmi.rdata,
    regs <- IF dmi.write = NoRequest THEN dmregs ELSE [dmregs EXCEPT ![dmi.write.addr] = dmi.write.data]
ImplementsDmiPort == Port!Spec /\ []NoneSkipped
=============================================================================
