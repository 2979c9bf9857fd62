---------------------------- MODULE JtagTapProofs ---------------------------
(***************************************************************************)
(* What TLAPS proves about JtagTap, for every width of its registers: the  *)
(* adapter and the TAP agree on where they are, and the scans of an        *)
(* adapter are the requests of a DmiPort.                                  *)
(***************************************************************************)
EXTENDS JtagTap, SequenceTheorems, TLAPS

Bit == {0, 1}
States == {"TLR", "RTI", "SEL_DR", "CAP_DR", "SHF_DR", "EX1_DR", "PAU_DR", "EX2_DR", "UPD_DR",
           "SEL_IR", "CAP_IR", "SHF_IR", "EX1_IR", "PAU_IR", "EX2_IR", "UPD_IR"}

\* Where the TAP can be after n ones.
After(n) ==
    CASE n = 0 -> States
      [] n = 1 -> {"TLR", "SEL_DR", "SEL_IR", "EX1_DR", "EX2_DR", "UPD_DR", "EX1_IR", "EX2_IR", "UPD_IR"}
      [] n = 2 -> {"TLR", "SEL_DR", "SEL_IR", "UPD_DR", "UPD_IR"}
      [] n = 3 -> {"TLR", "SEL_DR", "SEL_IR"}
      [] n = 4 -> {"TLR", "SEL_IR"}
      [] OTHER -> {"TLR"}

\* The state the TAP is on its way to.
Bound ==
    IF pins.tck = 1 /\ held = 1 THEN NextTap(tap, sync.tms[1])
    ELSE IF tck_rise THEN NextTap(tap, tms_q) ELSE tap

Kinds ==
    /\ tap \in States /\ host.tap \in States /\ host.lost \in 0 .. 5
    /\ pins \in [tck : Bit, tms : Bit, tdi : Bit] /\ held \in {1, 2}
    /\ sync \in [tck : Bit \X Bit, tms : Bit \X Bit, tdi : Bit \X Bit]
\* What the samples are, given how long TCK has had its level.
Levels ==
    /\ held = 1 /\ pins.tck = 1 => sync.tck = <<0, 0>> /\ sync.tms[1] = pins.tms
    /\ held = 1 /\ pins.tck = 0 => sync.tck = <<1, 1>>
    /\ held = 2 => sync.tck[1] = pins.tck
Place ==
    /\ host.lost = 0 => Bound = host.tap
    /\ host.lost > 0 => host.tap = "TLR" /\ Bound \in After(5 - host.lost)
Inv == Kinds /\ Levels /\ Place

----------------------------------------------------------------------------
\* Every arc leads to a state.
LEMMA NextIsState ==
  ASSUME NEW s \in States, NEW tms \in Bit
  PROVE  NextTap(s, tms) \in States
BY SMT DEF NextTap, Arcs, States, Bit

\* A one leads from where n ones may lead to where one more may.
LEMMA OneMore ==
  ASSUME NEW n \in 0 .. 4, NEW s \in After(n)
  PROVE  NextTap(s, 1) \in After(n + 1)
<1>1. CASE n = 0
  BY <1>1, SMT DEF After, NextTap, Arcs, States
<1>2. CASE n = 1
  BY <1>2, SMT DEF After, NextTap, Arcs
<1>3. CASE n = 2
  BY <1>3, SMT DEF After, NextTap, Arcs
<1>4. CASE n = 3
  BY <1>4, SMT DEF After, NextTap, Arcs
<1>5. CASE n = 4
  BY <1>5, SMT DEF After, NextTap, Arcs
<1> QED
  BY <1>1, <1>2, <1>3, <1>4, <1>5

\* Five ones lead from every state to Test-Logic-Reset.
THEOREM FiveOnes ==
  ASSUME NEW s \in States
  PROVE  NextTap(NextTap(NextTap(NextTap(NextTap(s, 1), 1), 1), 1), 1) = "TLR"
<1>1. s \in After(0)
  BY DEF After
<1>2. NextTap(s, 1) \in After(1)
  BY <1>1, OneMore
<1>3. NextTap(NextTap(s, 1), 1) \in After(2)
  BY <1>2, OneMore
<1>4. NextTap(NextTap(NextTap(s, 1), 1), 1) \in After(3)
  BY <1>3, OneMore
<1>5. NextTap(NextTap(NextTap(NextTap(s, 1), 1), 1), 1) \in After(4)
  BY <1>4, OneMore
<1>6. NextTap(NextTap(NextTap(NextTap(NextTap(s, 1), 1), 1), 1), 1) \in After(5)
  BY <1>5, OneMore
<1> QED
  BY <1>6 DEF After

\* Initially the TAP is in Test-Logic-Reset.
LEMMA InitInv == Init => Inv
BY DEF Init, Inv, Kinds, Levels, Place, Bound, After, States, Bit, Hold, tck_rise, tms_q

\* Unless the adapter raises TCK, the TAP stays bound for the same state.
LEMMA SameBound ==
  ASSUME Inv, Sample, tap' = (IF tck_rise THEN NextTap(tap, tms_q) ELSE tap),
         Wait \/ SetUp \/ Fall \/ (UNCHANGED pins /\ held' = Hold)
  PROVE  /\ Bound' = Bound /\ tap' \in States /\ Levels'
         /\ pins' \in [tck : Bit, tms : Bit, tdi : Bit] /\ held' \in {1, 2}
         /\ sync' \in [tck : Bit \X Bit, tms : Bit \X Bit, tdi : Bit \X Bit]
<1> USE DEF Inv
<1>1. /\ pins' \in [tck : Bit, tms : Bit, tdi : Bit] /\ held' \in {1, 2}
      /\ sync' \in [tck : Bit \X Bit, tms : Bit \X Bit, tdi : Bit \X Bit]
  BY DEF Kinds, Wait, SetUp, Fall, Sample, Bit, Hold
<1>2. tap' \in States
  <2>1. tms_q \in Bit
    BY DEF Kinds, tms_q, Bit
  <2> QED
    BY <2>1, NextIsState DEF Kinds
<1>. DEFINE longer == held' = 2 /\ pins'.tck = pins.tck
            falls  == pins.tck = 1 /\ held = 2 /\ pins'.tck = 0 /\ held' = 1
<1>a. longer \/ falls
  <2>1. CASE Wait \/ (UNCHANGED pins /\ held' = Hold)
    BY <2>1 DEF Wait, Hold
  <2>2. CASE SetUp
    BY <2>2 DEF SetUp, Kinds, Hold
  <2>3. CASE Fall
    BY <2>3 DEF Fall, Kinds, Hold
  <2> QED
    BY <2>1, <2>2, <2>3
<1>b. sync'.tck = <<pins.tck, sync.tck[1]>> /\ pins.tck \in {0, 1} /\ held \in {1, 2}
  BY DEF Sample, Kinds, Bit
<1>c. /\ held = 1 /\ pins.tck = 1 => sync.tck = <<0, 0>>
      /\ held = 1 /\ pins.tck = 0 => sync.tck = <<1, 1>>
      /\ held = 2 => sync.tck[1] = pins.tck
  BY DEF Levels
<1>3. Levels'
  <2>1. CASE longer
    BY <1>b, <2>1 DEF Levels
  <2>2. CASE falls
    BY <1>b, <1>c, <2>2 DEF Levels
  <2> QED
    BY <1>a, <2>1, <2>2
<1>4. Bound' = Bound
  <2>1. CASE pins.tck = 1 /\ held = 1
    <3>1. ~tck_rise /\ pins'.tck = 1 /\ held' = 2 /\ sync'.tck = <<1, 0>> /\ sync'.tms[2] = sync.tms[1]
      BY <2>1 DEF Kinds, Levels, Wait, SetUp, Fall, Sample, Hold, tck_rise
    <3> QED
      BY <2>1, <3>1 DEF Bound, tck_rise, tms_q
  <2>2. CASE ~(pins.tck = 1 /\ held = 1) /\ tck_rise
    <3>1. sync'.tck = <<1, 1>> /\ ~(pins'.tck = 1 /\ held' = 1)
      <4>1. sync.tck[1] = 1 /\ sync.tck = <<1, 0>>
        BY <2>2 DEF tck_rise
      <4>2. held = 2 /\ pins.tck = 1
        BY <1>b, <1>c, <2>2, <4>1
      <4> QED
        BY <1>a, <1>b, <4>1, <4>2
    <3> QED
      BY <2>2, <3>1 DEF Bound, tck_rise
  <2>3. CASE ~(pins.tck = 1 /\ held = 1) /\ ~tck_rise
    <3>1. sync'.tck # <<1, 0>> /\ ~(pins'.tck = 1 /\ held' = 1)
      BY <1>a, <1>b, <1>c, <2>3
    <3> QED
      BY <2>3, <3>1 DEF Bound, tck_rise
  <2> QED
    BY <2>1, <2>2, <2>3
<1> QED
  BY <1>1, <1>2, <1>3, <1>4

\* When the adapter raises TCK, both go on by the same arc.
LEMMA RiseInv ==
  ASSUME Inv, Sample, Rise, tap' = (IF tck_rise THEN NextTap(tap, tms_q) ELSE tap)
  PROVE  Inv'
<1> USE DEF Inv
<1>1. ~tck_rise /\ pins.tck = 0 /\ sync.tck[1] = 0 /\ pins.tms \in Bit
  BY DEF Rise, Kinds, Levels, Hold, tck_rise
<1>2. tap' = tap /\ Bound = tap
  BY <1>1 DEF Bound
<1>3. /\ pins' \in [tck : Bit, tms : Bit, tdi : Bit] /\ pins'.tck = 1 /\ pins'.tms = pins.tms /\ held' = 1
      /\ sync' \in [tck : Bit \X Bit, tms : Bit \X Bit, tdi : Bit \X Bit]
      /\ sync'.tck = <<0, 0>> /\ sync'.tms[1] = pins.tms
  BY <1>1 DEF Rise, Sample, Kinds, Bit
<1>4. Bound' = NextTap(tap, pins.tms)
  BY <1>2, <1>3 DEF Bound
<1>5. /\ host'.tap = NextTap(host.tap, pins.tms)
      /\ host'.lost = IF host.lost = 0 THEN 0 ELSE host.lost - 1
  BY DEF Rise, Seen
<1>6. Kinds'
  <2>1. host'.tap \in States
    BY <1>1, <1>5, NextIsState DEF Kinds
  <2>2. host'.lost \in 0 .. 5
    BY <1>5 DEF Kinds
  <2> QED
    BY <1>2, <1>3, <2>1, <2>2 DEF Kinds
<1>7. Levels'
  BY <1>3 DEF Levels
<1>8. Place'
  <2>1. CASE host.lost = 0
    BY <1>2, <1>4, <1>5, <2>1 DEF Place
  <2>2. CASE host.lost > 0
    <3>1. pins.tms = 1
      BY <2>2 DEF Rise
    <3>2. host.lost \in 1 .. 5 /\ host'.lost = host.lost - 1
      BY <1>5, <2>2 DEF Kinds
    <3>3. host'.tap = "TLR"
      BY <1>5, <2>2, <3>1 DEF Place, NextTap, Arcs
    <3>4. Bound' \in After((5 - host.lost) + 1)
      <4>1. 5 - host.lost \in 0 .. 4 /\ tap \in After(5 - host.lost)
        BY <1>2, <2>2, <3>2 DEF Place
      <4> QED
        BY <1>4, <3>1, <4>1, OneMore
    <3>5. CASE host'.lost = 0
      <4>1. Bound' = "TLR"
        BY <3>2, <3>4, <3>5 DEF After
      <4> QED
        BY <3>3, <3>5, <4>1 DEF Place
    <3>6. CASE host'.lost > 0
      <4>1. 5 - host'.lost = (5 - host.lost) + 1
        BY <3>2
      <4> QED
        BY <3>3, <3>4, <3>6, <4>1 DEF Place
    <3> QED
      BY <3>2, <3>5, <3>6
  <2> QED
    BY <2>1, <2>2 DEF Kinds
<1> QED
  BY <1>6, <1>7, <1>8

\* Where the adapter has lost its place, any state of the TAP will do.
LEMMA LostInv ==
  ASSUME Inv, Kinds', Levels', host'.lost = 5, host'.tap = "TLR"
  PROVE  Inv'
<1>1. Bound' \in States
  <2>1. sync'.tms[1] \in Bit /\ tms_q' \in Bit /\ tap' \in States
    BY DEF Kinds, tms_q
  <2> QED
    BY <2>1, NextIsState DEF Bound
<1>2. 5 - host'.lost = 0 /\ After(0) = States
  BY DEF After
<1> QED
  BY <1>1, <1>2 DEF Inv, Place

\* The invariant holds in every reachable state.
LEMMA Invariant == Spec => []Inv
<1>1. Inv /\ [Next]_vars => Inv'
  <2> SUFFICES ASSUME Inv, [Next]_vars PROVE Inv'
    OBVIOUS
  <2>1. CASE Clock
    <3>1. Sample /\ tap' = (IF tck_rise THEN NextTap(tap, tms_q) ELSE tap)
      BY <2>1 DEF Clock, TapEdge
    <3>2. CASE (Wait \/ SetUp \/ Fall) /\ (UNCHANGED host \/ EndOfScan)
      <4>1. host'.tap = host.tap /\ host'.lost = host.lost
        BY <3>2 DEF EndOfScan
      <4> QED
        BY <3>1, <3>2, <4>1, SameBound DEF Inv, Kinds, Place
    <3>3. CASE Rise
      BY <3>1, <3>3, RiseInv
    <3>4. CASE Lose
      <4>1. UNCHANGED pins /\ held' = Hold /\ host'.lost = 5 /\ host'.tap = "TLR"
        BY <3>4 DEF Lose, Lost
      <4>2. Kinds' /\ Levels'
        BY <3>1, <4>1, SameBound DEF Kinds, States
      <4> QED
        BY <4>1, <4>2, LostInv
    <3> QED
      BY <2>1, <3>2, <3>3, <3>4 DEF Clock, Adapter, EndOfScan
  <2>2. CASE Reset
    <3>1. UNCHANGED pins /\ held' = Hold /\ tap' = "TLR" /\ host'.lost = 5 /\ host'.tap = "TLR" /\ Sample
      BY <2>2 DEF Reset, Lost
    <3>2. Kinds'
      BY <3>1 DEF Inv, Kinds, Sample, States, Hold, Bit
    <3>3. Levels'
      BY <3>1 DEF Inv, Kinds, Levels, Sample, Hold, Bit
    <3> QED
      BY <3>1, <3>2, <3>3, LostInv
  <2>3. CASE UNCHANGED vars
    BY <2>3 DEF vars, tapvars, Inv, Kinds, Levels, Place, Bound, tck_rise, tms_q
  <2> QED
    BY <2>1, <2>2, <2>3 DEF Next
<1> QED
  BY InitInv, <1>1, PTL DEF Spec

\* Whatever the phase of TCK, wherever the TAP was when the adapter lost its
\* place, and through every reset: once five ones are sent, the adapter's idea
\* of the TAP's state is right (three_sipp_es_debug.sv, sections 1 and 2).
THEOREM TapInStep == Spec => []InStep
<1>1. Inv => InStep
  BY DEF Inv, Place, Bound, InStep, OnItsWay
<1> QED
  BY Invariant, <1>1, PTL

----------------------------------------------------------------------------
(* How soon one DMI write can follow another, whatever drives the pins.    *)

\* The rises of TCK after which the TAP is in Update-DR, at least.
RisesTo(s) ==
    CASE s = "UPD_DR" -> 0 [] s \in {"EX1_DR", "EX2_DR"} -> 1
      [] s \in {"CAP_DR", "SHF_DR", "PAU_DR"} -> 2 [] s = "SEL_DR" -> 3 [] OTHER -> 4
\* The clocks before the edge that can set the next write: two for each rise,
\* and one while the last sample of TCK is still high.
ClocksTo == 2 * RisesTo(tap) + (IF sync.tck[2] = 1 THEN 1 ELSE 0)

\* A rise takes the TAP one state on.
LEMMA OneRise ==
  ASSUME NEW s \in States, NEW tms \in Bit
  PROVE  /\ RisesTo(s) \in 0 .. 4 /\ RisesTo(NextTap(s, tms)) \in 0 .. 4
         /\ s # "UPD_DR" => RisesTo(NextTap(s, tms)) >= RisesTo(s) - 1
         /\ s = "UPD_DR" => RisesTo(NextTap(s, tms)) >= 3
BY SMTT(30) DEF RisesTo, NextTap, Arcs, States, Bit

\* A clock brings the next write nearer by one at most; one that sets a write
\* puts the next one seven clocks off.
LEMMA PaceStep ==
  ASSUME Kinds, Next
  PROVE  /\ ClocksTo \in Nat /\ ClocksTo' \in Nat
         /\ ClocksTo' >= ClocksTo - 1 \/ (tck_rise /\ tap = "UPD_DR")
         /\ tck_rise /\ tap = "UPD_DR" => ClocksTo = 0
         /\ tck_rise /\ tap = "UPD_DR" /\ Clock => ClocksTo' >= 7
         /\ Reset => ClocksTo' >= 8
<1> USE DEF Kinds
<1>1. /\ sync'.tck[2] = sync.tck[1] /\ sync.tck[1] \in Bit /\ sync.tck[2] \in Bit
      /\ tck_rise <=> sync.tck[1] = 1 /\ sync.tck[2] = 0
  BY DEF Next, Clock, Reset, Sample, Bit, tck_rise
<1>2. tms_q \in Bit
  BY DEF tms_q
<1>3. CASE Reset
  <2>1. RisesTo(tap') = 4
    BY <1>3 DEF Reset, RisesTo
  <2>2. RisesTo(tap) \in 0 .. 4
    BY <1>2, OneRise
  <2> QED
    BY <1>1, <1>3, <2>1, <2>2 DEF ClocksTo, Bit, RisesTo
<1>4. CASE Clock
  <2>1. tap' = IF tck_rise THEN NextTap(tap, tms_q) ELSE tap
    BY <1>4 DEF Clock, TapEdge
  <2>2. RisesTo(tap) \in 0 .. 4 /\ RisesTo("UPD_DR") = 0
    BY <1>2, OneRise DEF RisesTo
  <2>3. tck_rise => /\ RisesTo(tap') \in 0 .. 4
                    /\ tap # "UPD_DR" => RisesTo(tap') >= RisesTo(tap) - 1
                    /\ tap = "UPD_DR" => RisesTo(tap') >= 3
    BY <1>2, <2>1, OneRise
  <2>4. ~tck_rise => RisesTo(tap') = RisesTo(tap)
    BY <2>1
  <2>5. /\ ClocksTo = 2 * RisesTo(tap) + (IF sync.tck[2] = 1 THEN 1 ELSE 0)
        /\ ClocksTo' = 2 * RisesTo(tap') + (IF sync'.tck[2] = 1 THEN 1 ELSE 0)
    BY DEF ClocksTo
  <2>6. CASE tck_rise
    <3>1. /\ ClocksTo = 2 * RisesTo(tap) /\ ClocksTo' = 2 * RisesTo(tap') + 1
      <4>1. sync.tck[2] = 0 /\ sync'.tck[2] = 1
        BY <1>1, <2>6
      <4> QED
        BY <2>2, <2>3, <2>5, <2>6, <4>1
    <3>2. ~Reset \/ ClocksTo' >= 8
      BY <1>3
    <3> QED
      BY <2>2, <2>3, <2>6, <3>1, <3>2
  <2>7. CASE ~tck_rise
    <3>1. /\ ClocksTo = 2 * RisesTo(tap) + (IF sync.tck[2] = 1 THEN 1 ELSE 0)
          /\ ClocksTo' \in {2 * RisesTo(tap), 2 * RisesTo(tap) + 1}
          /\ sync.tck[2] = 0 \/ sync.tck[2] = 1
      <4>1. sync.tck[2] \in {0, 1}
        BY <1>1 DEF Bit
      <4> QED
        BY <2>2, <2>4, <2>5, <2>7, <4>1
    <3>2. ~Reset \/ ClocksTo' >= 8
      BY <1>3
    <3> QED
      BY <2>2, <2>7, <3>1, <3>2
  <2> QED
    BY <2>6, <2>7
<1> QED
  BY <1>3, <1>4 DEF Next

\* Two DMI writes are at least eight clocks apart, for every width and whatever
\* drives the pins, resets included: a write is set only by an edge with no
\* clocks left, leaves seven, and each clock takes at most one of them (the TAP's
\* case statement and tck_rise).  A debug module that settles within two clocks
\* of a write is settled at the next.
THEOREM JtagWritesApart ==
  Spec => /\ [](dmi.write # NoRequest => ClocksTo >= 7)
          /\ [][/\ ClocksTo > 0 => ClocksTo' >= ClocksTo - 1
                /\ dmi'.write # NoRequest => ClocksTo = 0 \/ dmi' = dmi]_vars
<1> DEFINE Paced == dmi.write # NoRequest => ClocksTo >= 7
<1>1. Init => Paced
  BY DEF Init
<1>2. Inv /\ Paced /\ [Next]_vars => Paced'
  <2>1. Paced /\ UNCHANGED vars => Paced'
    BY DEF ClocksTo, vars, tapvars
  <2>2. Inv /\ Clock => Paced'
    <3>1. Clock => (dmi'.write # NoRequest => tck_rise /\ tap = "UPD_DR")
      BY DEF Clock, TapEdge, DmiEdge, Updates, At
    <3> QED
      BY <3>1, PaceStep DEF Inv, Next
  <2>3. Inv /\ Reset => Paced'
    <3>1. Inv /\ Reset => ClocksTo' \in Nat /\ ClocksTo' >= 8
      BY PaceStep DEF Inv, Next
    <3> QED
      BY <3>1
  <2> QED
    BY <2>1, <2>2, <2>3 DEF Next
<1>3. Inv /\ [Next]_vars => [/\ ClocksTo > 0 => ClocksTo' >= ClocksTo - 1
                             /\ dmi'.write # NoRequest => ClocksTo = 0 \/ dmi' = dmi]_vars
  <2>1. Inv /\ Next => (ClocksTo > 0 => ClocksTo' >= ClocksTo - 1)
    BY PaceStep DEF Inv
  <2>2. Inv /\ Clock => (dmi'.write # NoRequest => ClocksTo = 0)
    BY PaceStep DEF Inv, Next, Clock, TapEdge, DmiEdge, Updates, At
  <2>3. Reset => dmi' = dmi
    BY DEF Reset
  <2> QED
    BY <2>1, <2>2, <2>3 DEF Next
<1> QED
  BY <1>1, <1>2, <1>3, Invariant, PTL DEF Spec

----------------------------------------------------------------------------
(* What the TAP holds of a scan, against what the adapter has sent of it.   *)

\* The widths and codes of three_sipp_es_debug.sv are of this kind.
Widths ==
    /\ ABits \in Nat \ {0} /\ DBits \in Nat \ {0} /\ IrBits \in Nat \ {0} /\ IrBits < DMI_W
    /\ IR_DMI \notin {IR_IDCODE, IR_DTMCS}

\* What a shift register that held c holds after s has gone into it.
Mixed(c, s) ==
    [i \in 1 .. Len(c) |-> IF i + Len(s) <= Len(c) THEN c[i + Len(s)] ELSE s[i + Len(s) - Len(c)]]
\* What a scan of DMI captures.
Answer == Zeros(2) \o dmi.rdata \o Zeros(ABits)

\* What the TAP holds once it has followed TCK, next to Bound.
Coming == pins.tck = 1 /\ held = 1
BoundTdi == IF Coming THEN sync.tdi[1] ELSE tdi_q
BoundIr ==
    IF OnItsWay /\ tap = "TLR" THEN IR_IDCODE ELSE IF OnItsWay /\ tap = "UPD_IR" THEN ir_shift ELSE ir
BoundIrShift ==
    IF OnItsWay /\ tap \in {"CAP_IR", "UPD_IR"} THEN CapturePattern
    ELSE IF OnItsWay /\ tap = "SHF_IR" THEN ShiftIn(ir_shift, BoundTdi) ELSE ir_shift
\* Of the data register only what it holds for DMI.
BoundDr ==
    IF OnItsWay /\ tap = "CAP_DR" THEN Answer
    ELSE IF OnItsWay /\ tap = "SHF_DR" THEN ShiftIn(dr, BoundTdi) ELSE dr

\* The states in which a scan is under way.
DrScan == {"SHF_DR", "EX1_DR", "PAU_DR", "EX2_DR", "UPD_DR"}
IrScan == {"SHF_IR", "EX1_IR", "PAU_IR", "EX2_IR", "UPD_IR"}
\* The TAP is bound for a scan of DMI.
Scanning == Bound \in DrScan /\ BoundIr = IR_DMI
\* The rise that performs one is on its way.
Due == OnItsWay /\ tap = "UPD_DR" /\ ir = IR_DMI

\* What the shift register d holds after s has gone into c, and the adapter
\* has got the first bits of c.
Carries(d) ==
    /\ d = Mixed(Answer, host.sent)
    /\ Len(host.sent) <= DMI_W
    /\ host.got = SubSeq(Answer, 1, IF Len(host.sent) < DBits + 2 THEN Len(host.sent) ELSE DBits + 2)

\* The parts of the invariant.  What is stored, and what the adapter sends, are
\* words, requests and bits.
Words ==
    /\ dmregs \in [BitStrings(ABits) -> Word]
    /\ dmi.rdata \in Word /\ DOMAIN dmi = {"rdata", "write"}
    /\ dmi.write \in Port!Requests \cup {NoRequest}
    /\ host.sent \in Seq(Bit)
\* The first sample of tdi after a rise is what it was at the rise.
TdiLevel == held = 1 /\ pins.tck = 1 => sync.tdi[1] = pins.tdi
\* Unless it is about to be reset, the instruction register is what the adapter
\* thinks, and what it holds of a scan is what the adapter has sent.
Instructions ==
    /\ host.lost = 0 /\ Bound # "TLR" => BoundIr = host.ir
    /\ host.lost = 0 /\ Bound \in IrScan =>
          /\ BoundIrShift = Mixed(CapturePattern, host.sent) /\ Len(host.sent) <= IrBits
          /\ Bound = "UPD_IR" => Len(host.sent) \in {0, IrBits}
\* A scan of DMI holds what the adapter has sent, until it has been performed;
\* it ends whole or not begun, also where the adapter has lost its place.
Scans ==
    /\ Scanning => /\ Carries(BoundDr)
                   /\ Bound = "UPD_DR" \/ host.lost > 0 => Len(host.sent) \in {0, DMI_W}
    /\ Due => Carries(dr) /\ Len(host.sent) \in {0, DMI_W}
    /\ ~(Scanning /\ host.lost > 0 /\ Bound = "SHF_DR")
\* Outside a scan nothing is sent.
Nothing ==
    /\ host.sent # <<>> => Due \/ Scanning \/ (host.lost = 0 /\ Bound \in IrScan)
    /\ host.lost > 0 /\ host.sent = <<>> => host.got = <<>>
\* A write still to be performed is the last scan's, also after a reset, and no
\* scan can end before it is performed.
Write ==
    dmi.write # NoRequest =>
        /\ ~tck_rise /\ (pins.tck = 1 => sync.tck[1] = 1)
        /\ dmi.write.op = "write"
        /\ \/ scan # NoRequest /\ scan.request = dmi.write
           \/ scan = NoRequest /\ dmregs = Port!Zeroed
Track == Words /\ TdiLevel /\ Instructions /\ Scans /\ Nothing /\ Write

----------------------------------------------------------------------------
\* A word is a sequence of bits.
LEMMA FunctionIsSeq ==
  ASSUME NEW n \in Nat, NEW f \in BitStrings(n)
  PROVE  f \in Seq(Bit) /\ Len(f) = n /\ DOMAIN f = 1 .. n /\ \A i \in 1 .. n : f[i] \in Bit
BY DEF BitStrings, Bit

\* A sequence of bits is a word of its length.
LEMMA SeqIsFunction ==
  ASSUME NEW s \in Seq(Bit)
  PROVE  s \in BitStrings(Len(s))
<1>1. Len(s) \in Nat /\ DOMAIN s = 1 .. Len(s) /\ s \in [1 .. Len(s) -> Bit]
  BY LenProperties, Zenon
<1> QED
  BY <1>1 DEF BitStrings, Bit

\* A shift register keeps its length.
LEMMA MixedType ==
  ASSUME NEW c \in Seq(Bit), NEW s \in Seq(Bit), Len(s) <= Len(c)
  PROVE  /\ Mixed(c, s) \in Seq(Bit) /\ Len(Mixed(c, s)) = Len(c)
         /\ DOMAIN Mixed(c, s) = 1 .. Len(c)
<1>1. Mixed(c, s) \in BitStrings(Len(c))
  BY DEF Mixed, BitStrings, Bit
<1> QED
  BY <1>1, FunctionIsSeq DEF Mixed

\* Nothing sent leaves what was captured; a whole scan leaves what was sent.
LEMMA MixedEnds ==
  ASSUME NEW c \in Seq(Bit), NEW s \in Seq(Bit)
  PROVE  /\ s = <<>> => Mixed(c, s) = c
         /\ Len(s) = Len(c) => Mixed(c, s) = s
<1>1. ASSUME s = <<>> PROVE Mixed(c, s) = c
  <2>1. \A i \in 1 .. Len(c) : i + Len(s) <= Len(c) /\ i + Len(s) = i
    BY <1>1
  <2> QED
    BY <2>1 DEF Mixed
<1>2. ASSUME Len(s) = Len(c) PROVE Mixed(c, s) = s
  <2>1. \A i \in 1 .. Len(c) : ~(i + Len(s) <= Len(c)) /\ i + Len(s) - Len(c) = i
    BY <1>2
  <2> QED
    BY <1>2, <2>1 DEF Mixed
<1> QED
  BY <1>1, <1>2

\* The bit that comes in is the next of the register's new contents.
LEMMA ShiftMixed ==
  ASSUME NEW c \in Seq(Bit), NEW s \in Seq(Bit), Len(s) < Len(c), NEW b \in Bit
  PROVE  ShiftIn(Mixed(c, s), b) = Mixed(c, Append(s, b))
<1> DEFINE m == Mixed(c, s)
           t == Append(s, b)
           u == Mixed(c, t)
<1>1. m \in Seq(Bit) /\ Len(m) = Len(c) /\ Len(c) > 0
  BY MixedType
<1>2. t \in Seq(Bit) /\ Len(t) = Len(s) + 1 /\ t[Len(t)] = b /\ \A i \in 1 .. Len(s) : t[i] = s[i]
  BY DEF Bit
<1> HIDE DEF t
<1>3. u \in Seq(Bit) /\ Len(u) = Len(c)
  BY <1>2, MixedType
<1>4. \A i \in 1 .. Len(c) : m[i] = IF i + Len(s) <= Len(c) THEN c[i + Len(s)] ELSE s[i + Len(s) - Len(c)]
  BY DEF Mixed
<1>5. \A i \in 1 .. Len(c) : u[i] = IF i + Len(t) <= Len(c) THEN c[i + Len(t)] ELSE t[i + Len(t) - Len(c)]
  BY DEF Mixed
<1> HIDE DEF m, u
<1>6. ShiftIn(m, b) \in Seq(Bit) /\ Len(ShiftIn(m, b)) = Len(c)
  BY <1>1 DEF ShiftIn
<1>7. ASSUME NEW i \in 1 .. Len(c) PROVE ShiftIn(m, b)[i] = u[i]
  <2>1. CASE i = Len(c)
    <3>1. ShiftIn(m, b)[i] = b
      BY <1>1, <2>1 DEF ShiftIn
    <3>2. i + Len(t) - Len(c) = Len(t) /\ ~(i + Len(t) <= Len(c))
      BY <1>2, <2>1
    <3> QED
      BY <1>2, <1>5, <3>1, <3>2
  <2>2. CASE i < Len(c)
    <3>1. ShiftIn(m, b)[i] = m[i + 1] /\ i + 1 \in 1 .. Len(c)
      BY <1>1, <2>2 DEF ShiftIn
    <3>2. i + 1 + Len(s) = i + Len(t)
      BY <1>2
    <3>3. CASE i + Len(t) <= Len(c)
      BY <1>2, <1>4, <1>5, <3>1, <3>2, <3>3
    <3>4. CASE ~(i + Len(t) <= Len(c))
      <4>1. i + Len(t) - Len(c) \in 1 .. Len(s)
        BY <1>2, <2>2, <3>4
      <4>2. t[i + Len(t) - Len(c)] = s[i + Len(t) - Len(c)]
        BY <1>2, <4>1
      <4>3. m[i + 1] = s[i + 1 + Len(s) - Len(c)]
        BY <1>4, <3>1, <3>2, <3>4
      <4> QED
        BY <1>2, <1>5, <3>1, <3>4, <4>2, <4>3
    <3> QED
      BY <3>3, <3>4
  <2> QED
    BY <2>1, <2>2
<1>8. ShiftIn(m, b) = u
  BY <1>1, <1>3, <1>6, <1>7, SeqEqual
<1> QED
  BY <1>8 DEF m, t, u

\* One more shift, whether the scan is whole already or not.
LEMMA KeepMixed ==
  ASSUME NEW c \in Seq(Bit), Len(c) > 0, NEW s \in Seq(Bit), Len(s) <= Len(c), NEW b \in Bit
  PROVE  /\ ShiftIn(Mixed(c, s), b) = Mixed(c, Keep(s, Len(c), b))
         /\ Keep(s, Len(c), b) \in Seq(Bit) /\ Keep(s, Len(c), b) # <<>>
         /\ Len(Keep(s, Len(c), b)) = IF Len(s) = Len(c) THEN Len(c) ELSE Len(s) + 1
<1>1. CASE Len(s) = Len(c)
  <2>1. Mixed(c, s) = s /\ Keep(s, Len(c), b) = ShiftIn(s, b)
    BY <1>1, MixedEnds DEF Keep
  <2>2. ShiftIn(s, b) \in Seq(Bit) /\ Len(ShiftIn(s, b)) = Len(c)
    BY <1>1 DEF ShiftIn
  <2>3. Mixed(c, ShiftIn(s, b)) = ShiftIn(s, b)
    BY <2>2, MixedEnds
  <2> QED
    BY <1>1, <2>1, <2>2, <2>3
<1>2. CASE Len(s) < Len(c)
  <2>1. Keep(s, Len(c), b) = Append(s, b)
    BY <1>2 DEF Keep
  <2>2. Append(s, b) \in Seq(Bit) /\ Len(Append(s, b)) = Len(s) + 1
    OBVIOUS
  <2> QED
    BY <1>2, <2>1, <2>2, ShiftMixed
<1> QED
  BY <1>1, <1>2

\* Status and data of what a scan captures.
LEMMA AnswerBits ==
  ASSUME Widths, dmi.rdata \in Word
  PROVE  /\ Answer \in Seq(Bit) /\ Len(Answer) = DMI_W
         /\ Answer[1] = 0 /\ Answer[2] = 0
         /\ \A i \in 1 .. DBits : Answer[i + 2] = dmi.rdata[i]
<1>1. /\ Zeros(2) \in Seq(Bit) /\ Len(Zeros(2)) = 2 /\ Zeros(2)[1] = 0 /\ Zeros(2)[2] = 0
  <2>1. Zeros(2) \in BitStrings(2) /\ Zeros(2)[1] = 0 /\ Zeros(2)[2] = 0
    BY DEF Zeros, BitStrings
  <2> QED
    BY <2>1, FunctionIsSeq
<1>2. Zeros(ABits) \in Seq(Bit) /\ Len(Zeros(ABits)) = ABits /\ ABits \in Nat
  <2>1. Zeros(ABits) \in BitStrings(ABits) /\ ABits \in Nat
    BY DEF Zeros, BitStrings, Widths
  <2> QED
    BY <2>1, FunctionIsSeq
<1>3. dmi.rdata \in Seq(Bit) /\ Len(dmi.rdata) = DBits /\ DBits \in Nat
  BY FunctionIsSeq DEF Word, Widths
<1> DEFINE z == Zeros(2)
           r == dmi.rdata
           a == Zeros(ABits)
<1>4. Answer = z \o r \o a
  BY DEF Answer
<1> HIDE DEF z, r, a
<1>5. z \in Seq(Bit) /\ r \in Seq(Bit) /\ a \in Seq(Bit) /\ Len(z) = 2 /\ Len(r) = DBits /\ Len(a) = ABits
  BY <1>1, <1>2, <1>3 DEF z, r, a
<1>6. /\ z \o r \in Seq(Bit) /\ Len(z \o r) = DBits + 2
      /\ \A i \in 1 .. DBits + 2 : (z \o r)[i] = IF i <= 2 THEN z[i] ELSE r[i - 2]
  <2>1. /\ z \o r \in Seq(Bit) /\ Len(z \o r) = Len(z) + Len(r)
        /\ \A i \in 1 .. Len(z) + Len(r) : (z \o r)[i] = IF i <= Len(z) THEN z[i] ELSE r[i - Len(z)]
    BY <1>5, ConcatProperties, Zenon
  <2> QED
    BY <1>3, <1>5, <2>1
<1> DEFINE zr == z \o r
<1> HIDE DEF zr
<1>7. /\ zr \o a \in Seq(Bit) /\ Len(zr \o a) = DMI_W
      /\ \A i \in 1 .. DBits + 2 : (zr \o a)[i] = zr[i]
  <2>1. zr \in Seq(Bit) /\ Len(zr) = DBits + 2
    BY <1>6 DEF zr
  <2>2. /\ zr \o a \in Seq(Bit) /\ Len(zr \o a) = Len(zr) + Len(a)
        /\ \A i \in 1 .. Len(zr) + Len(a) : (zr \o a)[i] = IF i <= Len(zr) THEN zr[i] ELSE a[i - Len(zr)]
    <3>1. a \in Seq(Bit)
      BY <1>5
    <3> QED
      BY <2>1, <3>1, ConcatProperties
  <2> QED
    BY <1>2, <1>3, <1>5, <2>1, <2>2 DEF DMI_W
<1>8. \A i \in 1 .. DBits + 2 : ((z \o r) \o a)[i] = (z \o r)[i]
  BY <1>7 DEF zr
<1>9. (z \o r)[1] = z[1] /\ (z \o r)[2] = z[2] /\ \A i \in 1 .. DBits : (z \o r)[i + 2] = r[i]
  BY <1>3, <1>6
<1>10. z[1] = 0 /\ z[2] = 0
  BY <1>1 DEF z
<1>11. ASSUME NEW i \in 1 .. DBits PROVE Answer[i + 2] = dmi.rdata[i]
  <2>1. i + 2 \in 1 .. DBits + 2
    BY <1>3
  <2> QED
    BY <1>4, <1>8, <1>9, <2>1 DEF r
<1>12. 1 \in 1 .. DBits + 2 /\ 2 \in 1 .. DBits + 2
  BY <1>3
<1> QED
  BY <1>4, <1>7, <1>8, <1>9, <1>10, <1>11, <1>12 DEF zr

\* Nothing shifted in is no request.
LEMMA AnswerIsNop == ASSUME Widths, dmi.rdata \in Word PROVE Op(Answer) = "nop"
BY AnswerBits DEF Op

\* The bits shifted out.
LEMMA NextOut ==
  ASSUME NEW c \in Seq(Bit), NEW m \in 0 .. Len(c) - 1
  PROVE  Append(SubSeq(c, 1, m), c[m + 1]) = SubSeq(c, 1, m + 1)
<1> DEFINE p == SubSeq(c, 1, m)
           q == SubSeq(c, 1, m + 1)
<1>1. p \in Seq(Bit) /\ Len(p) = m /\ \A i \in 1 .. m : p[i] = c[i]
  OBVIOUS
<1>2. q \in Seq(Bit) /\ Len(q) = m + 1 /\ \A i \in 1 .. m + 1 : q[i] = c[i]
  OBVIOUS
<1> HIDE DEF p, q
<1>3. Append(p, c[m + 1]) \in Seq(Bit) /\ Len(Append(p, c[m + 1])) = m + 1
  BY <1>1
<1>4. \A i \in 1 .. m + 1 : Append(p, c[m + 1])[i] = q[i]
  BY <1>1, <1>2
<1>5. Append(p, c[m + 1]) = q
  BY <1>2, <1>3, <1>4
<1> QED
  BY <1>5 DEF p, q

\* The status and the word the adapter reads off a whole scan.
LEMMA ReplyBits ==
  ASSUME Widths, dmi.rdata \in Word
  PROVE  /\ SubSeq(SubSeq(Answer, 1, DBits + 2), 1, 2) = Zeros(2)
         /\ SubSeq(SubSeq(Answer, 1, DBits + 2), 3, DBits + 2) = dmi.rdata
<1> DEFINE g == SubSeq(Answer, 1, DBits + 2)
<1>1. DBits \in Nat /\ ABits \in Nat /\ DBits + 2 <= DMI_W /\ DMI_W \in Nat
  BY DEF Widths, DMI_W
<1>2. g \in Seq(Bit) /\ Len(g) = DBits + 2 /\ \A i \in 1 .. DBits + 2 : g[i] = Answer[i]
  BY <1>1, AnswerBits
<1> HIDE DEF g
<1>3. g[1] = 0 /\ g[2] = 0 /\ \A i \in 1 .. DBits : g[i + 2] = dmi.rdata[i]
  BY <1>1, <1>2, AnswerBits
<1>4. SubSeq(g, 1, 2) = Zeros(2)
  <2>1. SubSeq(g, 1, 2) \in Seq(Bit) /\ Len(SubSeq(g, 1, 2)) = 2
        /\ SubSeq(g, 1, 2)[1] = g[1] /\ SubSeq(g, 1, 2)[2] = g[2]
    BY <1>1, <1>2
  <2>2. Zeros(2) \in Seq(Bit) /\ Len(Zeros(2)) = 2 /\ Zeros(2)[1] = 0 /\ Zeros(2)[2] = 0
    <3>1. Zeros(2) \in BitStrings(2) /\ Zeros(2)[1] = 0 /\ Zeros(2)[2] = 0
      BY DEF Zeros, BitStrings
    <3> QED
      BY <3>1, FunctionIsSeq
  <2> QED
    BY <1>3, <2>1, <2>2
<1>5. SubSeq(g, 3, DBits + 2) = dmi.rdata
  <2>1. SubSeq(g, 3, DBits + 2) \in Seq(Bit) /\ Len(SubSeq(g, 3, DBits + 2)) = DBits
        /\ \A i \in 1 .. DBits : SubSeq(g, 3, DBits + 2)[i] = g[i + 2]
    BY <1>1, <1>2
  <2>2. dmi.rdata \in Seq(Bit) /\ Len(dmi.rdata) = DBits
    BY <1>1, FunctionIsSeq DEF Word
  <2> QED
    BY <1>1, <1>3, <2>1, <2>2
<1> QED
  BY <1>4, <1>5 DEF g

\* A whole scan is a request.
LEMMA WholeIsRequest ==
  ASSUME Widths, NEW s \in Seq(Bit), Len(s) = DMI_W
  PROVE  Request(s) \in Port!Requests /\ Request(s) # NoRequest /\ Request(s).op = Op(s)
<1>1. DBits \in Nat /\ ABits \in Nat /\ DMI_W = DBits + 2 + ABits
  BY DEF Widths, DMI_W
<1>2. SubSeq(s, 3, DBits + 2) \in Word
  <2>1. SubSeq(s, 3, DBits + 2) \in Seq(Bit) /\ Len(SubSeq(s, 3, DBits + 2)) = DBits
    BY <1>1
  <2> QED
    BY <2>1, SeqIsFunction DEF Word
<1>3. SubSeq(s, DBits + 3, DMI_W) \in BitStrings(ABits)
  <2>1. SubSeq(s, DBits + 3, DMI_W) \in Seq(Bit) /\ Len(SubSeq(s, DBits + 3, DMI_W)) = ABits
    BY <1>1
  <2> QED
    BY <2>1, SeqIsFunction
<1>4. Op(s) \in {"nop", "read", "write", "reserved"}
  BY DEF Op
<1>5. Request(s) # <<>>
  BY DEF Request
<1> QED
  BY <1>2, <1>3, <1>4, <1>5 DEF Request, Port!Requests, NoRequest

\* Unless the adapter raises TCK, a rise on its way gets one step nearer.
LEMMA Nearer ==
  ASSUME Inv, Sample, Wait \/ SetUp \/ Fall \/ (UNCHANGED pins /\ held' = Hold)
  PROVE  /\ ~Coming' /\ (tck_rise' <=> Coming) /\ (OnItsWay' <=> Coming)
         /\ Coming => ~tck_rise /\ tdi_q' = sync.tdi[1] /\ tms_q' = sync.tms[1]
<1>1. held' = 2 \/ (pins.tck = 1 /\ held = 2 /\ pins'.tck = 0)
  BY DEF Wait, SetUp, Fall, Hold, Inv, Kinds
<1>2. sync'.tck = <<pins.tck, sync.tck[1]>> /\ pins.tck \in {0, 1} /\ held \in {1, 2}
  BY DEF Inv, Sample, Kinds, Bit
<1>3. ~Coming'
  BY <1>1 DEF Coming
<1>4. /\ held = 1 /\ pins.tck = 1 => sync.tck = <<0, 0>>
      /\ held = 2 => sync.tck[1] = pins.tck
  BY DEF Inv, Levels
<1>5. tck_rise' <=> Coming
  BY <1>2, <1>4 DEF tck_rise, Coming
<1>6. Coming => ~tck_rise
  BY <1>4 DEF tck_rise, Coming
<1>7. tdi_q' = sync.tdi[1] /\ tms_q' = sync.tms[1]
  BY DEF Sample, tdi_q, tms_q, Inv, Kinds
<1>8. OnItsWay' <=> Coming
  BY <1>3, <1>5 DEF OnItsWay, Coming
<1> QED
  BY <1>3, <1>5, <1>6, <1>7, <1>8

\* Without a rise the TAP stands still.
LEMMA Still ==
  ASSUME ~tck_rise, TapEdge
  PROVE  tap' = tap /\ ir' = ir /\ ir_shift' = ir_shift /\ dr' = dr /\ dmi'.rdata = dmi.rdata /\ Answer' = Answer
<1>1. tap' = tap /\ ir' = ir /\ ir_shift' = ir_shift /\ dr' = dr
  BY DEF TapEdge, IrEdge, DrEdge, At
<1>2. dmi'.rdata = dmi.rdata
  BY DEF TapEdge, DmiEdge, Updates, At
<1> QED
  BY <1>1, <1>2 DEF Answer

\* What the TAP is going to hold does not change on the way.
LEMMA SameRegisters ==
  ASSUME Widths, Inv, Sample, TapEdge, Wait \/ SetUp \/ Fall \/ (UNCHANGED pins /\ held' = Hold)
  PROVE  /\ BoundIr' = BoundIr /\ BoundIrShift' = BoundIrShift
         /\ Scanning => BoundDr' = BoundDr /\ Answer' = Answer
<1>1. CASE Coming
  <2>1. OnItsWay /\ OnItsWay' /\ ~Coming' /\ ~tck_rise /\ tdi_q' = sync.tdi[1]
    BY <1>1, Nearer DEF OnItsWay, Coming
  <2>2. tap' = tap /\ ir' = ir /\ ir_shift' = ir_shift /\ dr' = dr /\ Answer' = Answer
    BY <2>1, Still
  <2>3. BoundTdi' = BoundTdi
    BY <1>1, <2>1 DEF BoundTdi
  <2> QED
    BY <2>1, <2>2, <2>3 DEF BoundIr, BoundIrShift, BoundDr
<1>2. CASE ~Coming /\ ~tck_rise
  <2>1. ~OnItsWay /\ ~OnItsWay'
    BY <1>2, Nearer DEF OnItsWay, Coming
  <2>2. tap' = tap /\ ir' = ir /\ ir_shift' = ir_shift /\ dr' = dr /\ Answer' = Answer
    BY <1>2, Still
  <2> QED
    BY <2>1, <2>2 DEF BoundIr, BoundIrShift, BoundDr
<1>3. CASE ~Coming /\ tck_rise
  <2>1. OnItsWay /\ ~OnItsWay'
    BY <1>3, Nearer DEF OnItsWay, Coming
  <2>2. BoundTdi = tdi_q /\ Bound = NextTap(tap, tms_q)
    BY <1>3 DEF BoundTdi, Bound, Coming
  <2>3. ir' = BoundIr
    BY <1>3, <2>1 DEF TapEdge, IrEdge, At, BoundIr
  <2>4. ir_shift' = BoundIrShift
    BY <1>3, <2>1, <2>2 DEF TapEdge, IrEdge, At, BoundIrShift
  <2>5. ASSUME Scanning PROVE dr' = BoundDr /\ Answer' = Answer
    <3>1. tap \in {"CAP_DR", "SHF_DR", "EX1_DR", "PAU_DR", "EX2_DR"}
      <4>1. tap \in States /\ tms_q \in Bit
        BY DEF Inv, Kinds, tms_q
      <4>2. NextTap(tap, tms_q) \in DrScan
        BY <2>2, <2>5 DEF Scanning
      <4> QED
        BY <4>1, <4>2 DEF States, DrScan, NextTap, Arcs, Bit
    <3>2. ir = IR_DMI
      BY <2>5, <3>1 DEF Scanning, BoundIr
    <3>3. dr' = BoundDr
      <4>1. CASE tap = "CAP_DR"
        <5>1. Captured = Answer
          BY <3>2 DEF Captured, Answer, Widths
        <5> QED
          BY <1>3, <2>1, <4>1, <5>1 DEF TapEdge, DrEdge, At, BoundDr
      <4>2. CASE tap = "SHF_DR"
        <5>1. Shifted = ShiftIn(dr, tdi_q)
          BY <3>2 DEF Shifted, Widths
        <5> QED
          BY <1>3, <2>1, <2>2, <4>2, <5>1 DEF TapEdge, DrEdge, At, BoundDr
      <4>3. CASE tap \in {"EX1_DR", "PAU_DR", "EX2_DR"}
        BY <1>3, <2>1, <4>3 DEF TapEdge, DrEdge, At, BoundDr
      <4> QED
        BY <3>1, <4>1, <4>2, <4>3
    <3>4. dmi'.rdata = dmi.rdata
      BY <3>1 DEF TapEdge, DmiEdge, Updates, At
    <3> QED
      BY <3>3, <3>4 DEF Answer
  <2> QED
    BY <2>1, <2>3, <2>4, <2>5 DEF BoundIr, BoundIrShift, BoundDr
<1> QED
  BY <1>1, <1>2, <1>3

\* What a scan that ends has sent, and what it brings.
LEMMA DueScan ==
  ASSUME Widths, Words, Scans, Due
  PROVE  \/ host.sent = <<>> /\ Op(dr) = "nop"
         \/ /\ host.sent # <<>> /\ Len(host.sent) = DMI_W /\ dr = host.sent
            /\ Request(dr) \in Port!Requests /\ Request(dr) # NoRequest /\ Request(dr).op = Op(dr)
            /\ host.got = SubSeq(Answer, 1, DBits + 2)
<1>1. /\ dr = Mixed(Answer, host.sent) /\ Len(host.sent) \in {0, DMI_W}
      /\ host.got = SubSeq(Answer, 1, IF Len(host.sent) < DBits + 2 THEN Len(host.sent) ELSE DBits + 2)
  BY DEF Scans, Carries
<1>2. Answer \in Seq(Bit) /\ Len(Answer) = DMI_W /\ Op(Answer) = "nop"
  BY AnswerBits, AnswerIsNop DEF Words
<1>3. DMI_W \in Nat /\ DMI_W > 0 /\ ~(DMI_W < DBits + 2)
  BY DEF Widths, DMI_W
<1>4. host.sent \in Seq(Bit)
  BY DEF Words
<1>5. CASE Len(host.sent) = 0
  <2>1. host.sent = <<>>
    BY <1>4, <1>5
  <2> QED
    BY <1>1, <1>2, <1>4, <2>1, MixedEnds
<1>6. CASE Len(host.sent) = DMI_W
  <2>1. host.sent # <<>>
    BY <1>3, <1>6
  <2>2. dr = host.sent
    BY <1>1, <1>2, <1>4, <1>6, MixedEnds
  <2>3. Request(host.sent) \in Port!Requests /\ Request(host.sent) # NoRequest
        /\ Request(host.sent).op = Op(host.sent)
    BY <1>4, <1>6, WholeIsRequest
  <2>4. host.got = SubSeq(Answer, 1, DBits + 2)
    BY <1>1, <1>3, <1>6
  <2> QED
    BY <1>6, <2>1, <2>2, <2>3, <2>4
<1> QED
  BY <1>1, <1>5, <1>6

\* The next words and requests are words and requests.
LEMMA TapWords ==
  ASSUME Widths, Words, Scans, TapEdge
  PROVE  /\ dmregs' \in [BitStrings(ABits) -> Word]
         /\ dmi'.rdata \in Word /\ DOMAIN dmi' = {"rdata", "write"}
         /\ dmi'.write \in Port!Requests \cup {NoRequest}
<1>1. ASSUME Updates, Op(dr) # "nop" PROVE Request(dr) \in Port!Requests
  <2>1. Due
    BY <1>1 DEF Updates, At, Due, OnItsWay
  <2> QED
    BY <1>1, <2>1, DueScan
<1>2. dmregs' \in [BitStrings(ABits) -> Word]
  BY DEF Words, TapEdge, DmiEdge, Port!Requests
<1>3. dmi'.rdata \in Word
  <2>1. CASE Updates /\ Op(dr) = "read"
    <3>1. Request(dr).addr \in BitStrings(ABits)
      BY <1>1, <2>1 DEF Port!Requests
    <3>2. dmi'.rdata = dmregs[Request(dr).addr]
      BY <2>1 DEF TapEdge, DmiEdge
    <3> QED
      BY <3>1, <3>2 DEF Words
  <2>2. CASE ~(Updates /\ Op(dr) = "read")
    BY <2>2 DEF TapEdge, DmiEdge, Words
  <2> QED
    BY <2>1, <2>2
<1>4. dmi'.write \in Port!Requests \cup {NoRequest} /\ DOMAIN dmi' = {"rdata", "write"}
  BY <1>1 DEF TapEdge, DmiEdge
<1> QED
  BY <1>2, <1>3, <1>4

\* A write to be performed is that of the scan just ended, and no scan ends
\* before it is performed.
LEMMA WriteStep ==
  ASSUME Widths, Inv, Track, Clock
  PROVE  Write'
<1> SUFFICES ASSUME dmi'.write # NoRequest
             PROVE  /\ ~tck_rise' /\ (pins'.tck = 1 => sync'.tck[1] = 1)
                    /\ dmi'.write.op = "write" /\ scan' # NoRequest /\ scan'.request = dmi'.write
  BY DEF Write
<1>1. Updates /\ Op(dr) = "write" /\ dmi'.write = Request(dr)
  BY DEF Clock, TapEdge, DmiEdge
<1>2. Due
  BY <1>1 DEF Updates, At, Due, OnItsWay
<1>3. host.sent # <<>> /\ dr = host.sent /\ Request(dr).op = Op(dr)
  BY <1>1, <1>2, DueScan DEF Track
<1>4. EndOfScan
  BY <1>1, <1>3 DEF Clock, Ended
<1>5. scan' # NoRequest /\ scan'.request = Request(dr)
  BY <1>3, <1>4 DEF EndOfScan, NoRequest
<1>6. sync.tck = <<1, 0>>
  BY <1>1 DEF Updates, At, tck_rise
<1>7. held = 2 /\ pins.tck = 1
  BY <1>6 DEF Inv, Levels, Kinds, Bit
<1>8. ~Coming
  BY <1>7 DEF Coming
<1>9. ~tck_rise'
  BY <1>4, <1>8, Nearer DEF EndOfScan, Clock
<1>10. pins'.tck = 1 => sync'.tck[1] = 1
  BY <1>7 DEF Clock, Sample
<1> QED
  BY <1>1, <1>3, <1>5, <1>9, <1>10

\* A level of TCK that is new was just raised by the adapter.
LEMMA QuietTdi ==
  ASSUME Inv, Wait \/ SetUp \/ Fall \/ (UNCHANGED pins /\ held' = Hold)
  PROVE  TdiLevel'
BY DEF Wait, SetUp, Fall, Hold, Inv, Kinds, TdiLevel

\* Steps of the adapter that do not scan.
LEMMA QuietStep ==
  ASSUME Widths, Inv, Track, Sample, TapEdge, ~Ended, Wait \/ SetUp \/ Fall, UNCHANGED host
  PROVE  Words' /\ TdiLevel' /\ Instructions' /\ Scans' /\ Nothing'
<1>1. Bound' = Bound
  BY SameBound DEF TapEdge
<1>2. /\ BoundIr' = BoundIr /\ BoundIrShift' = BoundIrShift
      /\ Scanning => BoundDr' = BoundDr /\ Answer' = Answer
  BY SameRegisters
<1>3. Words'
  BY TapWords DEF Track, Words
<1>4. Instructions'
  BY <1>1, <1>2 DEF Track, Instructions
<1>5. Scanning' = Scanning
  BY <1>1, <1>2 DEF Scanning
<1>6. Due' => Due /\ dr' = dr /\ Answer' = Answer
  BY Nearer, Still DEF Due, OnItsWay, Coming
<1>7. Scans'
  BY <1>1, <1>2, <1>5, <1>6 DEF Track, Scans, Carries
<1>8. Nothing'
  <2>1. ASSUME Due, host.sent # <<>> PROVE Due'
    <3>1. ~tck_rise
      BY <2>1 DEF Due, Ended, Updates, At
    <3>2. Coming
      BY <2>1, <3>1 DEF Due, OnItsWay, Coming
    <3> QED
      BY <2>1, <3>1, <3>2, Nearer, Still DEF Due
  <2> QED
    BY <1>1, <1>5, <2>1 DEF Track, Nothing
<1> QED
  BY <1>3, <1>4, <1>7, <1>8, QuietTdi

\* At the end of a scan the adapter has nothing more on its way.
LEMMA EndStep ==
  ASSUME Widths, Inv, Track, Sample, TapEdge, EndOfScan
  PROVE  Words' /\ TdiLevel' /\ Instructions' /\ Scans' /\ Nothing'
<1>1. tck_rise /\ tap = "UPD_DR" /\ (Wait \/ Fall)
      /\ host'.tap = host.tap /\ host'.ir = host.ir /\ host'.lost = host.lost /\ host'.sent = <<>> /\ host'.got = <<>>
  BY DEF EndOfScan, Ended, Updates, At
<1>2. ~Coming /\ ~OnItsWay'
  <2>1. ~Coming
    BY <1>1 DEF Inv, Levels, Coming, tck_rise
  <2> QED
    BY <1>1, <2>1, Nearer
<1>3. Bound' = Bound /\ Bound \in {"RTI", "SEL_DR"}
  <2>1. tms_q \in Bit
    BY DEF Inv, Kinds, tms_q
  <2>2. Bound = NextTap("UPD_DR", tms_q)
    BY <1>1, <1>2 DEF Bound, Coming
  <2>3. Bound \in {"RTI", "SEL_DR"}
    BY <2>1, <2>2 DEF NextTap, Arcs, Bit
  <2> QED
    BY <1>1, <2>3, SameBound DEF TapEdge
<1>4. Words'
  BY <1>1, TapWords DEF Track, Words
<1>5. Instructions'
  BY <1>1, <1>3, SameRegisters DEF Track, Instructions, IrScan
<1>6. Scans' /\ Nothing'
  BY <1>1, <1>2, <1>3 DEF Scans, Nothing, Scanning, DrScan, Due
<1> QED
  BY <1>1, <1>4, <1>5, <1>6, QuietTdi

\* An adapter that loses its place has the last scan of DMI whole or not begun.
LEMMA LoseStep ==
  ASSUME Widths, Inv, Track, Sample, TapEdge, ~Ended, Lose
  PROVE  Words' /\ TdiLevel' /\ Instructions' /\ Scans' /\ Nothing'
<1>1. /\ host.lost = 0 /\ held = 2 /\ UNCHANGED pins /\ held' = Hold
      /\ host'.lost = 5
      /\ host'.sent = IF Len(host.sent) = DMI_W THEN host.sent ELSE <<>>
      /\ host'.got = IF Len(host.sent) = DMI_W THEN host.got ELSE <<>>
  BY DEF Lose, Lost, Hold
<1>2. ~Coming /\ ~OnItsWay'
  BY <1>1, Nearer DEF Coming
<1>3. Bound' = Bound
  BY <1>1, SameBound DEF TapEdge
<1>4. Words'
  <2>1. host'.sent \in Seq(Bit)
    BY <1>1 DEF Track, Words
  <2> QED
    BY <2>1, TapWords DEF Track, Words
<1>5. Instructions'
  BY <1>1 DEF Instructions
<1>6. /\ Scanning' = Scanning
      /\ Scanning => BoundDr' = BoundDr /\ Answer' = Answer
  BY <1>1, <1>3, SameRegisters DEF Scanning
<1>7. ~Due'
  BY <1>2 DEF Due
<1>8. ASSUME Scanning PROVE Len(host.sent) \in {0, DMI_W} /\ Bound # "SHF_DR"
  <2>1. Bound = host.tap /\ Bound \in DrScan /\ BoundIr = IR_DMI
    BY <1>1, <1>8 DEF Inv, Place, Scanning
  <2>2. host.ir = IR_DMI
    BY <1>1, <2>1 DEF Track, Instructions, DrScan
  <2>3. CASE Bound = "UPD_DR"
    BY <1>8, <2>3 DEF Track, Scans
  <2>4. CASE Bound # "UPD_DR"
    BY <2>1, <2>2, <2>4 DEF Lose, DrScan
  <2> QED
    BY <2>3, <2>4
<1>9. host.sent \in Seq(Bit) /\ DMI_W \in Nat /\ DMI_W > 0
  BY DEF Track, Words, Widths, DMI_W
<1>10. Scanning => host'.sent = host.sent
  <2>1. Len(host.sent) = 0 => host.sent = <<>>
    BY <1>9
  <2> QED
    BY <1>1, <1>8, <2>1
<1>11. ASSUME Scanning PROVE Carries(BoundDr)' /\ Len(host'.sent) \in {0, DMI_W} /\ Bound' # "SHF_DR"
  <2>1. Carries(BoundDr)
    BY <1>11 DEF Track, Scans
  <2>2. host'.got = host.got
    <3>1. CASE Len(host.sent) = 0
      <4>1. host.got = SubSeq(Answer, 1, 0)
        BY <2>1, <3>1 DEF Carries, Widths
      <4>2. SubSeq(Answer, 1, 0) = <<>>
        OBVIOUS
      <4> QED
        BY <1>1, <1>9, <3>1, <4>1, <4>2
    <3> QED
      BY <1>1, <1>8, <1>11, <3>1
  <2> QED
    BY <1>3, <1>6, <1>8, <1>10, <1>11, <2>1, <2>2 DEF Carries
<1>12. Scans'
  BY <1>6, <1>7, <1>11 DEF Scans, Carries
<1>13. Nothing'
  <2>1. ASSUME host'.sent # <<>> PROVE Scanning
    <3>1. Len(host.sent) = DMI_W /\ host.sent # <<>>
      BY <1>1, <2>1
    <3>2. ~Due
      BY <1>2, <3>1 DEF Due, Ended, Updates, At, OnItsWay, Coming
    <3>3. Bound \in IrScan => Len(host.sent) <= IrBits
      BY <1>1 DEF Track, Instructions
    <3> QED
      BY <3>1, <3>2, <3>3 DEF Track, Nothing, Widths
  <2>2. host'.sent = <<>> => host'.got = <<>>
    <3>1. Len(host.sent) = DMI_W => host.sent # <<>>
      BY <1>9
    <3> QED
      BY <1>1, <3>1
  <2> QED
    BY <1>6, <2>1, <2>2 DEF Nothing
<1> QED
  BY <1>1, <1>4, <1>5, <1>12, <1>13, QuietTdi

\* Between two rises what the TAP holds is what it was bound to hold.
LEMMA BeforeRise ==
  ASSUME Inv, TapEdge, Sample, Rise
  PROVE  /\ ~Coming /\ ~tck_rise /\ ~OnItsWay /\ Coming' /\ OnItsWay' /\ BoundTdi' = pins.tdi
         /\ Bound = tap /\ BoundIr = ir /\ BoundIrShift = ir_shift /\ BoundDr = dr
         /\ tap' = tap /\ ir' = ir /\ ir_shift' = ir_shift /\ dr' = dr /\ Answer' = Answer
         /\ Bound' = NextTap(tap, pins.tms) /\ tap \in States /\ pins.tms \in Bit /\ pins.tdi \in Bit
         /\ host.lost = 0 => host.tap = tap
         /\ host.lost > 0 => host.tap = "TLR" /\ pins.tms = 1
<1>1. pins.tck = 0 /\ held = 2 /\ pins' = [pins EXCEPT !.tck = 1] /\ held' = 1
  BY DEF Rise, Hold
<1>2. ~Coming /\ ~tck_rise /\ ~OnItsWay
  BY <1>1 DEF Coming, OnItsWay, tck_rise, Inv, Levels
<1>3. pins'.tck = 1
  BY <1>1 DEF Inv, Kinds
<1>4. Coming' /\ OnItsWay'
  BY <1>1, <1>3 DEF Coming, OnItsWay
<1>5. sync'.tdi[1] = pins.tdi /\ sync'.tms[1] = pins.tms
  BY DEF Sample
<1>6. BoundTdi' = pins.tdi
  BY <1>4, <1>5 DEF BoundTdi
<1>7. Bound = tap /\ BoundIr = ir /\ BoundIrShift = ir_shift /\ BoundDr = dr
  BY <1>2 DEF Bound, BoundIr, BoundIrShift, BoundDr, Coming
<1>8. tap' = tap /\ ir' = ir /\ ir_shift' = ir_shift /\ dr' = dr /\ Answer' = Answer
  BY <1>2, Still
<1>9. Bound' = NextTap(tap, pins.tms)
  BY <1>4, <1>5, <1>8 DEF Bound, Coming
<1>10. tap \in States /\ pins.tms \in Bit /\ pins.tdi \in Bit
  BY DEF Inv, Kinds
<1>11. host.lost = 0 => host.tap = tap
  BY <1>7 DEF Inv, Place
<1>12. host.lost > 0 => host.tap = "TLR" /\ pins.tms = 1
  BY DEF Inv, Place, Rise
<1> QED
  BY <1>2, <1>4, <1>6, <1>7, <1>8, <1>9, <1>10, <1>11, <1>12

\* At the end of a scan the adapter has sent all of it or nothing.
LEMMA WholeScan ==
  ASSUME Whole
  PROVE  /\ host.tap \in {"EX1_IR", "EX2_IR"} => Len(host.sent) \in {0, IrBits}
         /\ host.tap \in {"EX1_DR", "EX2_DR"} /\ host.ir = IR_DMI => Len(host.sent) \in {0, DMI_W}
<1>1. ASSUME host.tap \in {"EX1_IR", "EX2_IR"} PROVE Len(host.sent) \in {0, IrBits}
  BY <1>1, Zenon DEF Whole
<1>2. ASSUME host.tap \in {"EX1_DR", "EX2_DR"}, host.ir = IR_DMI PROVE Len(host.sent) \in {0, DMI_W}
  <2>1. host.tap \notin {"EX1_IR", "EX2_IR"}
    BY <1>2
  <2> QED
    BY <1>2, <2>1, Zenon DEF Whole
<1> QED
  BY <1>1, <1>2

\* The adapter raises TCK and knows where the TAP is.
LEMMA RiseInStep ==
  ASSUME Widths, Inv, Track, Sample, TapEdge, Rise, host.lost = 0
  PROVE  Instructions' /\ Scans' /\ Nothing' /\ host'.sent \in Seq(Bit)
<1> DEFINE s == host.sent
           b == pins.tdi
<1>1. /\ ~OnItsWay /\ OnItsWay' /\ BoundTdi' = b /\ Bound = tap /\ BoundIr = ir /\ BoundIrShift = ir_shift
      /\ BoundDr = dr /\ tap' = tap /\ ir' = ir /\ ir_shift' = ir_shift /\ dr' = dr /\ Answer' = Answer
      /\ Bound' = NextTap(tap, pins.tms) /\ tap \in States /\ pins.tms \in Bit /\ b \in Bit
      /\ host.tap = tap
  BY BeforeRise
<1>2. /\ host'.lost = 0
      /\ host'.ir = IF tap = "UPD_IR" THEN IF s = <<>> THEN CapturePattern ELSE s
                    ELSE IF tap = "TLR" THEN IR_IDCODE ELSE host.ir
      /\ host'.sent = CASE tap \in {"CAP_DR", "CAP_IR", "UPD_IR"} -> <<>>
                        [] tap = "SHF_IR" -> Keep(s, IrBits, b)
                        [] tap = "SHF_DR" /\ host.ir = IR_DMI -> Keep(s, DMI_W, b)
                        [] OTHER -> s
      /\ host'.got = CASE tap = "CAP_DR" -> <<>>
                       [] tap = "SHF_DR" /\ host.ir = IR_DMI /\ Len(host.got) < DBits + 2 -> Append(host.got, tdo)
                       [] OTHER -> host.got
  BY <1>1 DEF Rise, Seen
<1>3. /\ s \in Seq(Bit) /\ DBits \in Nat /\ ABits \in Nat /\ IrBits \in Nat /\ IrBits > 0
      /\ DMI_W \in Nat /\ DMI_W > 0 /\ DBits + 2 <= DMI_W /\ IrBits < DMI_W
  BY DEF Track, Words, Widths, DMI_W
<1>4. Answer \in Seq(Bit) /\ Len(Answer) = DMI_W
  BY AnswerBits DEF Track, Words
<1>5. CapturePattern \in Seq(Bit) /\ Len(CapturePattern) = IrBits
  <2>1. CapturePattern \in BitStrings(IrBits)
    BY <1>3 DEF CapturePattern, Zeros, BitStrings
  <2> QED
    BY <1>3, <2>1, FunctionIsSeq
<1>22. Mixed(Answer, <<>>) = Answer /\ Mixed(CapturePattern, <<>>) = CapturePattern
  <2>1. <<>> \in Seq(Bit)
    OBVIOUS
  <2> QED
    BY <1>4, <1>5, <2>1, MixedEnds
<1>6. /\ tap # "TLR" => ir = host.ir
      /\ tap \in IrScan => /\ ir_shift = Mixed(CapturePattern, s) /\ Len(s) <= IrBits
                           /\ tap = "UPD_IR" => Len(s) \in {0, IrBits}
  BY <1>1 DEF Track, Instructions
<1>7. tap \in DrScan /\ ir = IR_DMI =>
         /\ dr = Mixed(Answer, s) /\ Len(s) <= DMI_W
         /\ host.got = SubSeq(Answer, 1, IF Len(s) < DBits + 2 THEN Len(s) ELSE DBits + 2)
         /\ tap = "UPD_DR" => Len(s) \in {0, DMI_W}
  BY <1>1 DEF Track, Scans, Scanning, Carries
<1>8. s # <<>> => (tap \in DrScan /\ ir = IR_DMI) \/ tap \in IrScan
  BY <1>1 DEF Track, Nothing, Scanning, Due
<1>9. Bound' \in {"UPD_DR", "UPD_IR"} => Whole
  BY <1>1 DEF Rise
<1>10. Bound' \in IrScan => tap \in {"CAP_IR", "SHF_IR", "EX1_IR", "PAU_IR", "EX2_IR"}
  BY <1>1 DEF IrScan, NextTap, Arcs, States, Bit
<1>11. Bound' \in DrScan => tap \in {"CAP_DR", "SHF_DR", "EX1_DR", "PAU_DR", "EX2_DR"}
  BY <1>1 DEF DrScan, NextTap, Arcs, States, Bit
<1>12. /\ tap \in {"CAP_IR", "SHF_IR", "PAU_IR"} => Bound' \in IrScan \ {"UPD_IR"}
       /\ tap \in {"EX1_IR", "EX2_IR"} => Bound' \in IrScan
       /\ tap \in {"CAP_DR", "SHF_DR", "PAU_DR"} => Bound' \in DrScan \ {"UPD_DR"}
       /\ tap \in {"EX1_DR", "EX2_DR"} => Bound' \in DrScan
  BY <1>1 DEF IrScan, DrScan, NextTap, Arcs, Bit
<1>13. BoundIr' = IF tap = "TLR" THEN IR_IDCODE ELSE IF tap = "UPD_IR" THEN ir_shift ELSE ir
  BY <1>1 DEF BoundIr
<1>14. BoundIrShift' = IF tap \in {"CAP_IR", "UPD_IR"} THEN CapturePattern
                       ELSE IF tap = "SHF_IR" THEN ShiftIn(ir_shift, b) ELSE ir_shift
  BY <1>1 DEF BoundIrShift
<1>15. BoundDr' = IF tap = "CAP_DR" THEN Answer ELSE IF tap = "SHF_DR" THEN ShiftIn(dr, b) ELSE dr
  BY <1>1 DEF BoundDr
<1>16. host'.sent \in Seq(Bit)
  <2>1. CASE tap = "SHF_IR"
    <3>1. Keep(s, IrBits, b) \in Seq(Bit)
      BY <1>1, <1>3, <1>5, <1>6, <2>1, KeepMixed DEF IrScan
    <3> QED
      BY <1>2, <2>1, <3>1
  <2>2. CASE tap = "SHF_DR" /\ host.ir = IR_DMI
    <3>1. Keep(s, DMI_W, b) \in Seq(Bit)
      BY <1>1, <1>3, <1>4, <1>6, <1>7, <2>2, KeepMixed DEF DrScan
    <3> QED
      BY <1>2, <2>2, <3>1
  <2>3. CASE tap \in {"CAP_DR", "CAP_IR", "UPD_IR"}
    BY <1>2, <2>3
  <2>4. CASE tap \notin {"SHF_IR", "CAP_DR", "CAP_IR", "UPD_IR"} /\ ~(tap = "SHF_DR" /\ host.ir = IR_DMI)
    BY <1>2, <1>3, <2>4
  <2> QED
    BY <2>1, <2>2, <2>3, <2>4
<1>17. Instructions'
  <2>1. BoundIr' = host'.ir
    <3>1. CASE tap = "UPD_IR"
      <4>1. s = <<>> \/ Len(s) = IrBits
        BY <1>3, <1>6, <3>1 DEF IrScan
      <4>2. s # <<>> \/ Len(s) # IrBits
        BY <1>3
      <4> QED
        BY <1>2, <1>3, <1>5, <1>6, <1>13, <3>1, <4>1, <4>2, MixedEnds DEF IrScan
    <3>2. CASE tap # "UPD_IR"
      BY <1>2, <1>6, <1>13, <3>2
    <3> QED
      BY <3>1, <3>2
  <2>2. ASSUME Bound' \in IrScan
        PROVE  /\ BoundIrShift' = Mixed(CapturePattern, host'.sent) /\ Len(host'.sent) <= IrBits
               /\ Bound' = "UPD_IR" => Len(host'.sent) \in {0, IrBits}
    <3>1. CASE tap = "CAP_IR"
      <4>1. host'.sent = <<>> /\ BoundIrShift' = CapturePattern /\ Len(<<>>) = 0
        BY <1>2, <1>14, <3>1
      <4> QED
        BY <1>3, <1>5, <1>22, <4>1
    <3>2. CASE tap = "SHF_IR"
      <4>1. host'.sent = Keep(s, IrBits, b) /\ BoundIrShift' = ShiftIn(ir_shift, b) /\ Bound' # "UPD_IR"
        BY <1>2, <1>12, <1>14, <3>2
      <4>2. /\ ShiftIn(Mixed(CapturePattern, s), b) = Mixed(CapturePattern, Keep(s, IrBits, b))
            /\ Len(Keep(s, IrBits, b)) = IF Len(s) = IrBits THEN IrBits ELSE Len(s) + 1
        BY <1>1, <1>3, <1>5, <1>6, <3>2, KeepMixed DEF IrScan
      <4> QED
        BY <1>3, <1>6, <3>2, <4>1, <4>2 DEF IrScan
    <3>3. CASE tap \in {"EX1_IR", "PAU_IR", "EX2_IR"}
      <4>1. host'.sent = s /\ BoundIrShift' = ir_shift
        BY <1>2, <1>14, <3>3
      <4>2. Bound' = "UPD_IR" => Len(s) \in {0, IrBits}
        BY <1>1, <1>9, <1>12, <3>3, WholeScan
      <4> QED
        BY <1>6, <3>3, <4>1, <4>2 DEF IrScan
    <3> QED
      BY <1>10, <2>2, <3>1, <3>2, <3>3
  <2> QED
    BY <2>1, <2>2 DEF Instructions, CapturePattern, Zeros
<1>18. ASSUME Scanning'
       PROVE  /\ BoundDr' = Mixed(Answer, host'.sent) /\ Len(host'.sent) <= DMI_W
              /\ host'.got = SubSeq(Answer, 1, IF Len(host'.sent) < DBits + 2 THEN Len(host'.sent) ELSE DBits + 2)
              /\ Bound' = "UPD_DR" => Len(host'.sent) \in {0, DMI_W}
  <2>1. tap \in {"CAP_DR", "SHF_DR", "EX1_DR", "PAU_DR", "EX2_DR"} /\ BoundIr' = IR_DMI
    BY <1>11, <1>18 DEF Scanning
  <2>2. ir = IR_DMI /\ host.ir = IR_DMI
    BY <1>6, <1>13, <2>1
  <2>3. CASE tap = "CAP_DR"
    <3>1. host'.sent = <<>> /\ host'.got = <<>> /\ BoundDr' = Answer /\ Bound' # "UPD_DR"
      BY <1>2, <1>12, <1>15, <2>3
    <3>2. SubSeq(Answer, 1, 0) = <<>> /\ Len(<<>>) = 0 /\ 0 < DBits + 2
      BY <1>3
    <3> QED
      BY <1>3, <1>4, <1>22, <3>1, <3>2
  <2>4. CASE tap = "SHF_DR"
    <3>1. host'.sent = Keep(s, DMI_W, b) /\ BoundDr' = ShiftIn(dr, b) /\ Bound' # "UPD_DR"
      BY <1>2, <1>12, <1>15, <2>2, <2>4
    <3>2. dr = Mixed(Answer, s) /\ Len(s) <= DMI_W
          /\ host.got = SubSeq(Answer, 1, IF Len(s) < DBits + 2 THEN Len(s) ELSE DBits + 2)
      BY <1>7, <2>2, <2>4 DEF DrScan
    <3>3. /\ ShiftIn(Mixed(Answer, s), b) = Mixed(Answer, Keep(s, DMI_W, b))
          /\ Len(Keep(s, DMI_W, b)) = IF Len(s) = DMI_W THEN DMI_W ELSE Len(s) + 1
      <4>1. Len(Answer) > 0 /\ Len(s) <= Len(Answer)
        BY <1>3, <1>4, <3>2
      <4>2. /\ ShiftIn(Mixed(Answer, s), b) = Mixed(Answer, Keep(s, Len(Answer), b))
            /\ Len(Keep(s, Len(Answer), b)) = IF Len(s) = Len(Answer) THEN Len(Answer) ELSE Len(s) + 1
        BY <1>1, <1>3, <1>4, <4>1, KeepMixed
      <4> QED
        BY <1>4, <4>2
    <3>4. host'.got = IF Len(host.got) < DBits + 2 THEN Append(host.got, tdo) ELSE host.got
      BY <1>2, <2>2, <2>4
    <3>5. CASE Len(s) < DBits + 2
      <4>1. host.got = SubSeq(Answer, 1, Len(s)) /\ Len(s) \in 0 .. Len(Answer) - 1
        BY <1>3, <1>4, <3>2, <3>5
      <4>2. Len(host.got) = Len(s)
        BY <1>4, <4>1
      <4>3. tdo = Answer[Len(s) + 1]
        <5>1. Len(s) \in Nat /\ 1 \in 1 .. Len(Answer) /\ 1 + Len(s) <= Len(Answer) /\ 1 + Len(s) = Len(s) + 1
          BY <1>3, <1>4, <4>1
        <5> QED
          BY <3>2, <5>1 DEF tdo, Mixed
      <4>4. host'.got = SubSeq(Answer, 1, Len(s) + 1)
        BY <1>4, <3>4, <3>5, <4>1, <4>2, <4>3, NextOut
      <4>5. Len(host'.sent) = Len(s) + 1 /\ Len(s) + 1 <= DBits + 2
        BY <1>3, <3>1, <3>3, <3>5
      <4>6. (IF Len(host'.sent) < DBits + 2 THEN Len(host'.sent) ELSE DBits + 2) = Len(s) + 1
        BY <1>3, <4>5
      <4> QED
        BY <1>3, <3>1, <3>2, <3>3, <4>4, <4>5, <4>6
    <3>6. CASE ~(Len(s) < DBits + 2)
      <4>1. host.got = SubSeq(Answer, 1, DBits + 2)
        BY <3>2, <3>6
      <4>2. Len(host.got) = DBits + 2
        BY <1>3, <1>4, <4>1
      <4>3. host'.got = SubSeq(Answer, 1, DBits + 2)
        BY <1>3, <3>4, <4>1, <4>2
      <4>4. ~(Len(host'.sent) < DBits + 2) /\ Len(host'.sent) <= DMI_W
        BY <1>3, <3>1, <3>2, <3>3, <3>6
      <4> QED
        BY <3>1, <3>2, <3>3, <4>3, <4>4
    <3> QED
      BY <3>5, <3>6
  <2>5. CASE tap \in {"EX1_DR", "PAU_DR", "EX2_DR"}
    <3>1. host'.sent = s /\ host'.got = host.got /\ BoundDr' = dr
      BY <1>2, <1>15, <2>5
    <3>2. Bound' = "UPD_DR" => Len(s) \in {0, DMI_W}
      BY <1>1, <1>9, <1>12, <2>2, <2>5, WholeScan
    <3> QED
      BY <1>7, <2>2, <2>5, <3>1, <3>2 DEF DrScan
  <2> QED
    BY <2>1, <2>3, <2>4, <2>5
<1>19. ASSUME tap = "UPD_DR"
       PROVE  host'.sent = s /\ host'.got = host.got
  BY <1>2, <1>19
<1>20. Scans'
  <2>1. Due' => Carries(dr)' /\ Len(host'.sent) \in {0, DMI_W}
    BY <1>1, <1>7, <1>19 DEF Due, DrScan, Carries
  <2>2. Scanning' => Carries(BoundDr)'
    BY <1>1, <1>18 DEF Carries
  <2> QED
    BY <1>2, <1>18, <2>1, <2>2 DEF Scans
<1>21. Nothing'
  <2>1. ASSUME host'.sent # <<>> PROVE Due' \/ Scanning' \/ Bound' \in IrScan
    <3>1. CASE tap = "SHF_IR"
      BY <1>12, <3>1
    <3>2. CASE tap = "SHF_DR" /\ host.ir = IR_DMI
      BY <1>6, <1>12, <1>13, <3>2 DEF Scanning
    <3>3. CASE ~(tap = "SHF_IR") /\ ~(tap = "SHF_DR" /\ host.ir = IR_DMI)
      <4>1. host'.sent = s /\ tap \notin {"CAP_DR", "CAP_IR", "UPD_IR"}
        BY <1>2, <2>1, <3>3
      <4>2. CASE tap \in DrScan /\ ir = IR_DMI
        <5>1. tap \in {"EX1_DR", "PAU_DR", "EX2_DR", "UPD_DR"}
          BY <1>6, <3>3, <4>2 DEF DrScan
        <5>2. CASE tap = "UPD_DR"
          BY <1>1, <4>2, <5>2 DEF Due
        <5>3. CASE tap # "UPD_DR"
          BY <1>12, <1>13, <4>2, <5>1, <5>3 DEF Scanning
        <5> QED
          BY <5>2, <5>3
      <4>3. CASE tap \in IrScan
        BY <1>12, <3>3, <4>1, <4>3 DEF IrScan
      <4> QED
        BY <1>8, <2>1, <4>1, <4>2, <4>3
    <3> QED
      BY <3>1, <3>2, <3>3
  <2> QED
    BY <1>2, <2>1 DEF Nothing
<1> QED
  BY <1>16, <1>17, <1>20, <1>21

\* An adapter that has lost its place sends ones: a scan under way ends.
LEMMA RiseAstray ==
  ASSUME Widths, Inv, Track, Sample, TapEdge, Rise, host.lost > 0, Inv'
  PROVE  Instructions' /\ Scans' /\ Nothing' /\ host'.sent \in Seq(Bit)
<1>1. /\ ~OnItsWay /\ OnItsWay' /\ Bound = tap /\ BoundIr = ir /\ BoundDr = dr
      /\ tap' = tap /\ ir' = ir /\ dr' = dr /\ Answer' = Answer
      /\ Bound' = NextTap(tap, 1) /\ tap \in States /\ host.tap = "TLR"
  BY BeforeRise
<1>2. /\ host'.lost = host.lost - 1 /\ host'.sent = host.sent /\ host'.got = host.got
      /\ host.lost \in 1 .. 5
  BY <1>1 DEF Rise, Seen, Inv, Kinds
<1>3. Instructions'
  <2>1. ASSUME host'.lost = 0 PROVE Bound' = "TLR"
    <3>1. host'.tap = "TLR"
      BY <1>1, BeforeRise DEF Rise, Seen, NextTap, Arcs
    <3> QED
      BY <2>1, <3>1 DEF Inv, Place
  <2> QED
    BY <2>1 DEF Instructions, IrScan
<1>4. host.sent # <<>> => tap \in DrScan /\ ir = IR_DMI
  BY <1>1 DEF Track, Nothing, Due, Scanning
<1>5. tap \in DrScan /\ ir = IR_DMI => /\ Carries(dr) /\ Len(host.sent) \in {0, DMI_W} /\ tap # "SHF_DR"
  BY <1>1 DEF Track, Scans, Scanning
<1>6. Bound' # "SHF_DR"
  BY <1>1 DEF States, NextTap, Arcs
<1>7. ASSUME Scanning' PROVE Carries(BoundDr)' /\ Len(host'.sent) \in {0, DMI_W}
  <2>1. tap \in {"CAP_DR", "SHF_DR", "EX1_DR", "PAU_DR", "EX2_DR"}
    BY <1>1, <1>7 DEF Scanning, DrScan, States, NextTap, Arcs
  <2>2. ir = IR_DMI
    BY <1>1, <1>7, <2>1 DEF Scanning, BoundIr
  <2>3. CASE tap = "CAP_DR"
    <3>1. host.sent = <<>> /\ host.got = <<>> /\ Len(<<>>) = 0
      <4>1. host.sent = <<>>
        BY <1>4, <2>3 DEF DrScan
      <4> QED
        BY <1>2, <4>1 DEF Track, Nothing
    <3>2. BoundDr' = Answer
      BY <1>1, <2>3 DEF BoundDr
    <3>3. Answer \in Seq(Bit) /\ <<>> \in Seq(Bit)
      BY AnswerBits DEF Track, Words
    <3>4. Mixed(Answer, <<>>) = Answer /\ SubSeq(Answer, 1, 0) = <<>>
      <4>1. Mixed(Answer, <<>>) = Answer
        BY <3>3, MixedEnds
      <4>2. SubSeq(Answer, 1, 0) = <<>>
        OBVIOUS
      <4> QED
        BY <4>1, <4>2
    <3>5. 0 < DBits + 2 /\ 0 <= DMI_W
      BY DEF Widths, DMI_W
    <3> QED
      BY <1>1, <1>2, <3>1, <3>2, <3>4, <3>5 DEF Carries
  <2>4. CASE tap \in {"SHF_DR", "EX1_DR", "PAU_DR", "EX2_DR"}
    <3>1. Carries(dr) /\ Len(host.sent) \in {0, DMI_W} /\ tap # "SHF_DR"
      BY <1>5, <2>2, <2>4 DEF DrScan
    <3>2. BoundDr' = dr
      BY <1>1, <2>4, <3>1 DEF BoundDr
    <3> QED
      BY <1>1, <1>2, <3>1, <3>2 DEF Carries
  <2> QED
    BY <2>1, <2>3, <2>4
<1>8. Due' => Carries(dr)' /\ Len(host'.sent) \in {0, DMI_W}
  BY <1>1, <1>2, <1>5 DEF Due, DrScan, Carries
<1>9. Scans'
  BY <1>6, <1>7, <1>8 DEF Scans
<1>10. Nothing'
  <2>1. ASSUME host'.sent # <<>> PROVE Due' \/ Scanning'
    <3>1. tap \in DrScan /\ ir = IR_DMI /\ tap # "SHF_DR"
      BY <1>2, <1>4, <1>5, <2>1
    <3>2. CASE tap = "UPD_DR"
      BY <1>1, <3>1, <3>2 DEF Due
    <3>3. CASE tap # "UPD_DR"
      <4>1. Bound' \in DrScan
        BY <1>1, <3>1, <3>3 DEF DrScan, NextTap, Arcs
      <4>2. BoundIr' = IR_DMI
        BY <1>1, <3>1 DEF BoundIr, DrScan
      <4> QED
        BY <4>1, <4>2 DEF Scanning
    <3> QED
      BY <3>2, <3>3
  <2> QED
    BY <1>2, <2>1 DEF Track, Nothing
<1> QED
  BY <1>2, <1>3, <1>9, <1>10 DEF Track, Words

\* A reset leaves nothing on its way but a write whose scan has ended.
LEMMA ResetStep ==
  ASSUME Widths, Inv, Track, Reset
  PROVE  Track'
<1>1. /\ Sample /\ tap' = "TLR" /\ pins' = pins /\ dmi' = dmi /\ held' = Hold /\ scan' = NoRequest
      /\ dmregs' = Port!Zeroed
      /\ host'.lost = 5 /\ host'.sent = <<>> /\ host'.got = <<>>
  BY DEF Reset, Lost, Port!Zeroed
<1>2. Words'
  <2>1. Port!Zeroed \in [BitStrings(ABits) -> Word] /\ <<>> \in Seq(Bit)
    <3>1. Zeros(DBits) \in Word
      BY DEF Zeros, Word, BitStrings
    <3> QED
      BY <3>1 DEF Port!Zeroed
  <2> QED
    BY <1>1, <2>1 DEF Track, Words
<1>3. TdiLevel'
  BY <1>1, QuietTdi
<1>4. Bound' \in {"TLR", "RTI"}
  <2>1. tms_q' \in Bit
    BY <1>1 DEF Sample, Inv, Kinds, tms_q
  <2>2. Bound' = NextTap("TLR", tms_q') \/ Bound' = "TLR"
    BY <1>1 DEF Bound, Hold
  <2>3. \A tms \in Bit : NextTap("TLR", tms) \in {"TLR", "RTI"}
    BY DEF NextTap, Arcs, Bit
  <2> QED
    BY <2>1, <2>2, <2>3
<1>5. Instructions' /\ Scans' /\ Nothing'
  BY <1>1, <1>4 DEF Instructions, Scans, Nothing, Scanning, DrScan, Due
<1>6. Write'
  <2> SUFFICES ASSUME dmi.write # NoRequest
               PROVE  ~tck_rise' /\ (pins.tck = 1 => sync'.tck[1] = 1) /\ dmi.write.op = "write"
    BY <1>1 DEF Write
  <2>1. ~tck_rise /\ (pins.tck = 1 => sync.tck[1] = 1) /\ dmi.write.op = "write"
    BY DEF Track, Write
  <2>2. sync'.tck = <<pins.tck, sync.tck[1]>>
    BY <1>1 DEF Sample
  <2> QED
    BY <2>1, <2>2 DEF tck_rise
<1> QED
  BY <1>2, <1>3, <1>5, <1>6 DEF Track

\* Initially nothing has been sent.
LEMMA InitTrack == ASSUME Widths, Init PROVE Track
<1>1. Words
  <2>1. Zeros(DBits) \in Word /\ <<>> \in Seq(Bit)
    BY DEF Zeros, Word, BitStrings
  <2>2. dmregs \in [BitStrings(ABits) -> Word]
    BY <2>1 DEF Init
  <2>3. dmi = [rdata |-> Zeros(DBits), write |-> NoRequest] /\ host.sent = <<>>
    BY DEF Init
  <2> QED
    BY <2>1, <2>2, <2>3 DEF Words
<1>2. Bound = "TLR" /\ ~OnItsWay /\ host.lost = 5 /\ host.sent = <<>> /\ host.got = <<>>
  BY DEF Init, Bound, OnItsWay, tck_rise
<1>3. Instructions /\ Scans /\ Nothing
  BY <1>2 DEF Instructions, Scans, Nothing, Scanning, Due, DrScan
<1>4. TdiLevel /\ Write
  BY DEF Init, TdiLevel, Write
<1> QED
  BY <1>1, <1>3, <1>4 DEF Track

\* Every step keeps the adapter and the TAP at the same point of the scan.
LEMMA TrackStep ==
  ASSUME Widths, Inv, Track, [Next]_vars, Inv'
  PROVE  Track'
<1>1. CASE Clock
  <2>1. Sample /\ TapEdge /\ (EndOfScan \/ (~Ended /\ Adapter))
    BY <1>1 DEF Clock
  <2>2. Write'
    BY <1>1, WriteStep
  <2>3. CASE EndOfScan
    BY <2>1, <2>2, <2>3, EndStep DEF Track
  <2>4. CASE ~Ended /\ (Wait \/ SetUp \/ Fall) /\ UNCHANGED host
    BY <2>1, <2>2, <2>4, QuietStep DEF Track
  <2>5. CASE ~Ended /\ Lose
    BY <2>1, <2>2, <2>5, LoseStep DEF Track
  <2>6. CASE Rise
    <3>1. Instructions' /\ Scans' /\ Nothing' /\ host'.sent \in Seq(Bit)
      <4>1. host.lost = 0 \/ host.lost > 0
        BY DEF Inv, Kinds
      <4> QED
        BY <2>1, <2>6, <4>1, RiseInStep, RiseAstray
    <3>2. Words'
      BY <2>1, <3>1, TapWords DEF Track, Words
    <3>3. TdiLevel'
      <4>1. sync'.tdi[1] = pins.tdi /\ pins'.tdi = pins.tdi
        BY <2>1, <2>6 DEF Sample, Rise, Inv, Kinds
      <4> QED
        BY <4>1 DEF TdiLevel
    <3> QED
      BY <2>2, <3>1, <3>2, <3>3 DEF Track
  <2> QED
    BY <2>1, <2>3, <2>4, <2>5, <2>6 DEF Adapter
<1>2. CASE Reset
  BY <1>2, ResetStep
<1>3. CASE UNCHANGED vars
  <2>1. /\ pins' = pins /\ held' = held /\ sync' = sync /\ tap' = tap /\ ir' = ir /\ ir_shift' = ir_shift
        /\ dr' = dr /\ dmi' = dmi /\ dmregs' = dmregs /\ host' = host /\ scan' = scan
    BY <1>3 DEF vars, tapvars
  <2>2. Coming' = Coming /\ tck_rise' = tck_rise /\ OnItsWay' = OnItsWay /\ Bound' = Bound /\ Answer' = Answer
        /\ BoundTdi' = BoundTdi
    BY <2>1 DEF Coming, tck_rise, OnItsWay, Bound, tms_q, tdi_q, Answer, BoundTdi
  <2>3. BoundIr' = BoundIr /\ BoundIrShift' = BoundIrShift /\ BoundDr' = BoundDr
    BY <2>1, <2>2 DEF BoundIr, BoundIrShift, BoundDr
  <2>4. Scanning' = Scanning /\ Due' = Due /\ Carries(dr)' = Carries(dr) /\ Carries(BoundDr)' = Carries(BoundDr)
    BY <2>1, <2>2, <2>3 DEF Scanning, Due, Carries
  <2>5. Words' /\ TdiLevel' /\ Instructions' /\ Nothing' /\ Scans' /\ Write'
    BY <2>1, <2>2, <2>3, <2>4 DEF Track, Words, TdiLevel, Instructions, Nothing, Scans, Write
  <2> QED
    BY <2>5 DEF Track
<1> QED
  BY <1>1, <1>2, <1>3 DEF Next

\* The invariants hold in every reachable state.
LEMMA Tracked == ASSUME Widths PROVE Spec => [](Inv /\ Track)
<1>1. Init => Inv /\ Track
  BY InitInv, InitTrack
<1>2. Inv /\ Inv' /\ Track /\ [Next]_vars => Track'
  BY TrackStep
<1> QED
  BY <1>1, <1>2, Invariant, PTL DEF Spec

\* A scan that ends is one request to the port; every other step of the clock
\* leaves the port alone.
LEMMA ClockIsPort ==
  ASSUME Widths, Inv, Track, Clock
  PROVE  Port!Scan \/ Port!Pause
<1> DEFINE regs == IF dmi.write = NoRequest THEN dmregs ELSE [dmregs EXCEPT ![dmi.write.addr] = dmi.write.data]
           q == Request(dr)
<1>1. dmregs' = regs
  BY DEF Clock, TapEdge, DmiEdge
<1>2. dmi' = [rdata |-> IF Updates /\ Op(dr) = "read" THEN dmregs[q.addr] ELSE dmi.rdata,
              write |-> IF Updates /\ Op(dr) = "write" THEN q ELSE NoRequest]
  BY DEF Clock, TapEdge, DmiEdge
<1>3. dmi'.rdata = (IF Updates /\ Op(dr) = "read" THEN dmregs[q.addr] ELSE dmi.rdata)
      /\ dmi'.write = (IF Updates /\ Op(dr) = "write" THEN q ELSE NoRequest)
  BY <1>2
<1>4. Updates => Due
  BY DEF Updates, At, Due, OnItsWay
<1>5. CASE Ended
  <2>1. Due /\ host.sent # <<>>
    BY <1>4, <1>5 DEF Ended
  <2>2. /\ dr = host.sent /\ q \in Port!Requests /\ q # NoRequest /\ q.op = Op(dr)
        /\ host.got = SubSeq(Answer, 1, DBits + 2)
    BY <2>1, DueScan DEF Track
  <2>3. scan' = [request |-> q, reply |-> dmi.rdata]
    <3>1. EndOfScan
      BY <1>5 DEF Clock
    <3>2. SubSeq(host.got, 1, 2) = Zeros(2) /\ SubSeq(host.got, 3, DBits + 2) = dmi.rdata
      BY <2>2, ReplyBits DEF Track, Words
    <3> QED
      BY <2>2, <3>1, <3>2 DEF EndOfScan
  <2>4. Updates /\ dmi.write = NoRequest /\ regs = dmregs
    <3>1. Updates /\ tck_rise
      BY <1>5 DEF Ended, Updates, At
    <3> QED
      BY <3>1 DEF Track, Write
  <2>5. regs' = IF q.op = "write" THEN [dmregs EXCEPT ![q.addr] = q.data] ELSE dmregs
    BY <1>1, <1>3, <2>2, <2>4
  <2>6. dmi'.rdata = IF q.op = "read" THEN dmregs[q.addr] ELSE dmi.rdata
    BY <1>3, <2>2, <2>4
  <2>7. Port!Scan
    BY <2>2, <2>3, <2>4, <2>5, <2>6 DEF Port!Scan
  <2> QED
    BY <2>7
<1>6. CASE ~Ended
  <2>1. scan' = NoRequest
    BY <1>6 DEF Clock, EndOfScan
  <2>2. Updates => Op(dr) = "nop"
    BY <1>4, <1>6, DueScan DEF Track, Ended
  <2>3. dmi'.rdata = dmi.rdata /\ dmi'.write = NoRequest
    BY <1>3, <2>2
  <2>4. regs' = regs
    BY <1>1, <2>3
  <2>5. Port!Pause
    BY <2>1, <2>3, <2>4 DEF Port!Pause
  <2> QED
    BY <2>5
<1> QED
  BY <1>5, <1>6

\* A reset is one of the port, of which a second in a row is nothing new.
LEMMA ResetIsPort ==
  ASSUME Widths, Inv, Track, Reset
  PROVE  Port!Reset \/ UNCHANGED Port!vars
<1> DEFINE regs == IF dmi.write = NoRequest THEN dmregs ELSE [dmregs EXCEPT ![dmi.write.addr] = dmi.write.data]
<1>1. dmregs' = Port!Zeroed /\ dmi' = dmi /\ scan' = NoRequest
  BY DEF Reset, Port!Zeroed
<1>2. CASE dmi.write = NoRequest
  <2>1. regs' = Port!Zeroed
    BY <1>1, <1>2
  <2> QED
    BY <1>1, <2>1 DEF Port!Reset
<1>3. CASE dmi.write # NoRequest
  <2>1. regs' = [Port!Zeroed EXCEPT ![dmi.write.addr] = dmi.write.data]
    BY <1>1, <1>3
  <2>2. /\ dmi.write.op = "write"
        /\ \/ scan # NoRequest /\ scan.request = dmi.write
           \/ scan = NoRequest /\ dmregs = Port!Zeroed
    BY <1>3 DEF Track, Write
  <2>3. CASE scan # NoRequest /\ scan.request = dmi.write
    BY <1>1, <2>1, <2>2, <2>3 DEF Port!Reset
  <2>4. CASE scan = NoRequest /\ dmregs = Port!Zeroed
    <3>1. regs' = regs
      BY <1>1, <1>3, <2>1, <2>4
    <3> QED
      BY <1>1, <2>4, <3>1 DEF Port!vars
  <2> QED
    BY <2>2, <2>3, <2>4
<1> QED
  BY <1>2, <1>3

\* Before the adapter captures again, the TAP has performed the scan.
LEMMA PerformedBefore ==
  ASSUME Inv, Track
  PROVE  NoneSkipped
<1> SUFFICES ASSUME host.tap = "CAP_DR", host.sent # <<>> PROVE FALSE
  BY DEF NoneSkipped
<1>1. host.lost = 0 /\ Bound = "CAP_DR"
  BY DEF Inv, Place, Kinds
<1>2. Due
  BY <1>1 DEF Track, Nothing, Scanning, DrScan, IrScan
<1>3. sync.tms[1] \in Bit /\ tms_q \in Bit
  BY DEF Inv, Kinds, tms_q
<1>4. Bound \in {NextTap("UPD_DR", sync.tms[1]), NextTap("UPD_DR", tms_q)}
  BY <1>2 DEF Due, OnItsWay, Bound
<1> QED
  BY <1>1, <1>3, <1>4 DEF NextTap, Arcs, Bit

\* A debugger sees a port: through any phase of TCK, pause, loss of place and
\* reset, each DMI scan performs its own request exactly once, before the next
\* is captured, and brings the answer to the last read
\* (three_sipp_es_debug.sv, sections 1 to 3).
THEOREM TapImplementsDmiPort == ASSUME Widths PROVE Spec => ImplementsDmiPort
<1>1. Init => Port!Init
  BY DEF Init, Port!Init, Port!Zeroed
<1>2. Inv /\ Track /\ [Next]_vars => [Port!Next]_(Port!vars)
  <2> SUFFICES ASSUME Inv, Track, [Next]_vars PROVE Port!Next \/ UNCHANGED Port!vars
    OBVIOUS
  <2>1. CASE Clock
    BY <2>1, ClockIsPort DEF Port!Next
  <2>2. CASE Reset
    BY <2>2, ResetIsPort DEF Port!Next
  <2>3. CASE UNCHANGED vars
    BY <2>3 DEF vars, tapvars, Port!vars
  <2> QED
    BY <2>1, <2>2, <2>3 DEF Next
<1>3. Inv /\ Track => NoneSkipped
  BY PerformedBefore
<1> QED
  BY <1>1, <1>2, <1>3, Tracked, PTL DEF Spec, Port!Spec, ImplementsDmiPort
=============================================================================
