--------------------------- MODULE AxiLiteProofs ---------------------------
(***************************************************************************)
(* Proofs about the AXI4-Lite bridge for every address set, word shape and *)
(* slave behaviour: its invariants, the stability of its VALID signals,    *)
(* and that it implements the memory port.                                 *)
(***************************************************************************)
EXTENDS AxiLite, TLAPS

IInv == TypeOK /\ OneOutstanding

\* The bridge and the slave keep their types, and the slave holds exactly
\* the part of the current request that the FSM has handed over.
LEMMA InitIInv == Init => IInv
  BY ZeroAssumption, NoneAssumption
  DEF Init, IInv, TypeOK, OneOutstanding, States, Word, Word0, Resp

\* A store through byte strobes leaves a memory of the same type.
LEMMA MergeType ==
  ASSUME NEW m \in [Addr -> Word], NEW a \in Addr, NEW d \in Word, NEW s \in SUBSET Lanes
  PROVE  [m EXCEPT ![a] = [l \in Lanes |-> IF l \in s THEN d[l] ELSE m[a][l]]] \in [Addr -> Word]
  BY DEF Word

\* Each action of the bridge and of the slave preserves the invariant.
LEMMA NextIInv == IInv /\ [Next]_vars => IInv'
<1> SUFFICES ASSUME IInv, [Next]_vars PROVE IInv'
  OBVIOUS
<1> USE NoneAssumption, ZeroAssumption
    DEF IInv, TypeOK, OneOutstanding, States, bridge, slave
<1>1. CASE Request
  <2>1. PICK write \in BOOLEAN, addr \in Addr, wdata \in Word, wstrb \in SUBSET Lanes :
               Idle(write, addr, wdata, wstrb)
    BY <1>1 DEF Request
  <2>2. TypeOK'
    BY <2>1 DEF Idle
  <2>3. OneOutstanding'
    BY <2>1 DEF Idle, req_ready
  <2> QED
    BY <2>2, <2>3
<1>2. CASE IdleNoReq
  BY <1>2 DEF IdleNoReq, req_ready
<1>3. CASE \E awready, wready \in BOOLEAN : WAddr(awready, wready)
  BY <1>3 DEF WAddr, awvalid, wvalid
<1>4. CASE WResp
  BY <1>4 DEF WResp, bready
<1>5. CASE \E arready \in BOOLEAN : RAddr(arready)
  BY <1>5 DEF RAddr, arvalid
<1>6. CASE RData
  BY <1>6 DEF RData, rready
<1>7. CASE Done
  BY <1>7 DEF Done, rsp_valid
<1>8. CASE Reset
  BY <1>8 DEF Reset, Word0, Word, Resp
<1>9. CASE SlaveStep
  <2>1. ASSUME NEW resp \in Resp, SlaveWrite(resp) PROVE IInv'
    <3>1. mem' \in [Addr -> Word]
      BY <2>1, MergeType DEF SlaveWrite
    <3> QED
      BY <2>1, <3>1 DEF SlaveWrite
  <2>2. ASSUME NEW resp \in Resp, NEW junk \in Word, SlaveRead(resp, junk) PROVE IInv'
    <3>1. /\ s_r' = [resp |-> resp, rdata |-> IF resp = OKAY THEN mem[addr_q] ELSE junk]
          /\ s_r' \in [resp : Resp, rdata : Word]
          /\ s_r' # NoRsp
      BY <2>2 DEF SlaveRead
    <3>2. TypeOK'
      BY <2>2, <3>1 DEF SlaveRead
    <3>3. OneOutstanding'
      BY <2>2, <3>1 DEF SlaveRead
    <3> QED
      BY <3>2, <3>3
  <2> QED
    BY <1>9, <2>1, <2>2 DEF SlaveStep
<1>10. CASE UNCHANGED vars
  BY <1>10 DEF vars
<1> QED
  BY <1>1, <1>2, <1>3, <1>4, <1>5, <1>6, <1>7, <1>8, <1>9, <1>10 DEF Next

\* Registers keep their widths and at most one transaction is outstanding.
THEOREM BridgeInvariant == Spec => [](TypeOK /\ OneOutstanding)
<1>1. IInv => TypeOK /\ OneOutstanding
  BY DEF IInv
<1> QED
  BY InitIInv, NextIInv, <1>1, PTL DEF Spec

\* The bridge's registers and the slave keep values of their widths.
THEOREM BridgeTypeOK == Spec => []TypeOK
  BY BridgeInvariant, PTL

\* Short of a reset no step withdraws a VALID or changes its payload before
\* the matching READY.
THEOREM ValidIsStable == Spec => ValidStable
<1>1. ASSUME IInv, [Next]_vars
      PROVE  [ Reset \/
               /\ awvalid /\ ~s_aw' => awvalid' /\ addr_q' = addr_q
               /\ wvalid /\ ~s_w' => wvalid' /\ wdata_q' = wdata_q /\ wstrb_q' = wstrb_q
               /\ arvalid /\ ~s_ar' => arvalid' /\ addr_q' = addr_q ]_vars
  <2> USE <1>1 DEF IInv, TypeOK, OneOutstanding, bridge, slave, awvalid, wvalid, arvalid
  <2>1. CASE Request
    BY <2>1 DEF Request, Idle, req_ready
  <2>2. CASE \E awready, wready \in BOOLEAN : WAddr(awready, wready)
    BY <2>2 DEF WAddr
  <2>3. CASE IdleNoReq \/ WResp \/ RData \/ Done
    BY <2>3 DEF IdleNoReq, WResp, RData, Done, req_ready, bready, rready, rsp_valid
  <2>4. CASE \E arready \in BOOLEAN : RAddr(arready)
    BY <2>4 DEF RAddr
  <2>5. CASE SlaveStep
    BY <2>5 DEF SlaveStep, SlaveWrite, SlaveRead
  <2> QED
    BY <2>1, <2>2, <2>3, <2>4, <2>5 DEF Next
<1> QED
  BY InitIInv, NextIInv, <1>1, PTL DEF Spec, ValidStable

\* The request and the answer the memory port shows for a state of the bridge.
req_abs == IF s_b # NoRsp \/ s_r # NoRsp \/ state \in {"S_IDLE", "S_DONE"} THEN NoReq
           ELSE [write |-> state \in {"S_WADDR", "S_WRESP"}, addr |-> addr_q,
                 wdata |-> wdata_q, wstrb |-> wstrb_q]
rsp_abs == IF s_b # NoRsp THEN [resp |-> s_b, rdata |-> rdata_q]
           ELSE IF s_r # NoRsp THEN s_r
           ELSE IF state = "S_DONE" THEN [resp |-> resp_q, rdata |-> rdata_q]
           ELSE NoRsp

\* A request in progress is never mistaken for its absence.
LEMMA RequestIsNotNone ==
  ASSUME NEW w \in BOOLEAN, NEW a \in Addr, NEW d \in Word, NEW s \in SUBSET Lanes
  PROVE  [write |-> w, addr |-> a, wdata |-> d, wstrb |-> s] # NoReq
<1>1. [write |-> w, addr |-> a, wdata |-> d, wstrb |-> s]
        \in [write : BOOLEAN, addr : Addr, wdata : Word, wstrb : SUBSET Lanes]
  OBVIOUS
<1> QED
  BY <1>1, NoneAssumption

\* Every load and store through the bridge is performed exactly once and
\* answered exactly once: the bridge implements the memory port.
THEOREM BridgeImplementsMemPort == Spec => ImplementsMemPort
<1>1. Init => Port!Init
  BY DEF Init, Port!Init, Port!Word, Word
<1>2. ASSUME IInv, IInv', [Next]_vars PROVE [Port!Next]_(Port!vars)
  <2> USE <1>2 DEF Port!vars, bridge, slave
  <2>1. CASE Request
    <3>1. PICK write \in BOOLEAN, addr \in Addr, wdata \in Word, wstrb \in SUBSET Lanes :
                 Idle(write, addr, wdata, wstrb)
      BY <2>1 DEF Request
    <3>2. /\ req_abs = NoReq /\ rsp_abs = NoRsp
          /\ req_abs' = [write |-> write, addr |-> addr, wdata |-> wdata, wstrb |-> wstrb]
          /\ rsp_abs' = NoRsp /\ mem' = mem
      BY <3>1 DEF Idle, req_ready, req_abs, rsp_abs, IInv, OneOutstanding
    <3>3. [write |-> write, addr |-> addr, wdata |-> wdata, wstrb |-> wstrb] \in Port!Request
      BY DEF Port!Request, Port!Word, Word
    <3>4. Port!Accept([write |-> write, addr |-> addr, wdata |-> wdata, wstrb |-> wstrb])
      BY <3>2 DEF Port!Accept, req_abs, rsp_abs
    <3> QED
      BY <3>3, <3>4 DEF Port!Next
  <2>2. CASE IdleNoReq
    BY <2>2 DEF IdleNoReq
  <2>3. CASE \E awready, wready \in BOOLEAN : WAddr(awready, wready)
    BY <2>3 DEF WAddr
  <2>4. CASE WResp
    BY <2>4 DEF WResp, bready, IInv, OneOutstanding
  <2>5. CASE \E arready \in BOOLEAN : RAddr(arready)
    BY <2>5 DEF RAddr, arvalid
  <2>6. CASE RData
    BY <2>6 DEF RData, rready, IInv, OneOutstanding, TypeOK
  <2>7. CASE Done
    <3>1. Port!Deliver
      BY <2>7, NoneAssumption DEF Done, rsp_valid, Port!Deliver, IInv, OneOutstanding, TypeOK
    <3> QED
      BY <3>1 DEF Port!Next
  <2>8. CASE Reset
    <3>1. Port!Reset
      BY <2>8 DEF Reset, Port!Reset
    <3> QED
      BY <3>1 DEF Port!Next
  <2>9. CASE SlaveStep
    <3>1. ASSUME NEW resp \in Resp, SlaveWrite(resp) PROVE Port!Next
      <4>1. state = "S_WRESP" /\ s_b = NoRsp /\ s_r = NoRsp /\ resp # NoRsp
        BY <3>1, NoneAssumption DEF SlaveWrite, IInv, OneOutstanding, TypeOK, States
      <4>2. rdata_q \in Word /\ resp \in Port!Resp
        BY DEF IInv, TypeOK, Port!Resp, Resp
      <4>3. [write |-> TRUE, addr |-> addr_q, wdata |-> wdata_q, wstrb |-> wstrb_q] # NoReq
        <5>1. TRUE \in BOOLEAN /\ addr_q \in Addr /\ wdata_q \in Word /\ wstrb_q \in SUBSET Lanes
          BY DEF IInv, TypeOK
        <5> QED
          BY <5>1, RequestIsNotNone, Zenon
      <4>4. Port!PerformWrite(resp, rdata_q)
        BY <3>1, <4>1, <4>3 DEF SlaveWrite, Port!PerformWrite, Port!Merge
      <4> QED
        BY <4>2, <4>4 DEF Port!Next, Port!Word, Word
    <3>2. ASSUME NEW resp \in Resp, NEW junk \in Word, SlaveRead(resp, junk) PROVE Port!Next
      <4>1. state = "S_RDATA" /\ s_b = NoRsp /\ s_r = NoRsp
        BY <3>2 DEF SlaveRead, IInv, OneOutstanding, TypeOK, States
      <4>2. s_r' # NoRsp /\ s_b' = NoRsp
        BY <3>2, <4>1, NoneAssumption DEF SlaveRead, IInv, TypeOK
      <4>3. [write |-> FALSE, addr |-> addr_q, wdata |-> wdata_q, wstrb |-> wstrb_q] # NoReq
        <5>1. FALSE \in BOOLEAN /\ addr_q \in Addr /\ wdata_q \in Word /\ wstrb_q \in SUBSET Lanes
          BY DEF IInv, TypeOK
        <5> QED
          BY <5>1, RequestIsNotNone, Zenon
      <4>4. Port!PerformRead(resp, junk)
        <5>1. req_abs # NoReq /\ ~req_abs.write /\ req_abs.addr = addr_q
          <6>1. /\ state \notin {"S_IDLE", "S_DONE"}
                /\ (state \in {"S_WADDR", "S_WRESP"}) = FALSE
            BY <4>1
          <6>2. req_abs = [write |-> FALSE, addr |-> addr_q, wdata |-> wdata_q, wstrb |-> wstrb_q]
            BY <4>1, <6>1, Zenon DEF req_abs
          <6> QED
            BY <4>3, <6>2
        <5>3. req_abs' = NoReq /\ rsp_abs' = s_r'
          BY <4>2 DEF req_abs, rsp_abs
        <5>2. /\ s_r' = [resp |-> resp, rdata |-> IF resp = OKAY THEN mem[addr_q] ELSE junk]
              /\ mem' = mem
          BY <3>2 DEF SlaveRead
        <5> QED
          BY <5>1, <5>2, <5>3 DEF Port!PerformRead, req_abs, rsp_abs
      <4>5. resp \in Port!Resp /\ junk \in Port!Word
        BY DEF Port!Resp, Port!Word, Resp, Word
      <4> QED
        BY <4>4, <4>5 DEF Port!Next
    <3> QED
      BY <2>9, <3>1, <3>2 DEF SlaveStep
  <2>10. CASE UNCHANGED vars
    BY <2>10 DEF vars
  <2> QED
    BY <2>1, <2>2, <2>3, <2>4, <2>5, <2>6, <2>7, <2>8, <2>9, <2>10 DEF Next
<1> QED
  BY InitIInv, NextIInv, <1>1, <1>2, PTL DEF Spec, ImplementsMemPort, Port!Spec
=============================================================================
