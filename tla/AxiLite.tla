------------------------------ MODULE AxiLite ------------------------------
(***************************************************************************)
(* rtl/three_sipp_es_axi_lite.sv: the AXI4-Lite master bridge, one action  *)
(* per arm of its FSM, against an AXI4-Lite slave.  The slave is not in    *)
(* the repository; it is any slave that obeys the handshakes the bridge    *)
(* relies on: it takes AW and W in either order and answers B once after   *)
(* both, it takes AR and answers R once.  A clock edge on which the bridge *)
(* waits for a handshake changes nothing in the bridge, so the slave's own *)
(* steps are actions of their own.                                         *)
(***************************************************************************)
EXTENDS Naturals

CONSTANTS Addr, Lanes, Byte, OKAY, SLVERR, NoReq, NoRsp,
          Addr0, Byte0          \* the all-zero address and byte ('0 on reset)

Word == [Lanes -> Byte]
Resp == {OKAY, SLVERR}
Word0 == [l \in Lanes |-> Byte0]

ASSUME ZeroAssumption == Addr0 \in Addr /\ Byte0 \in Byte
ASSUME NoneAssumption ==
    /\ NoReq \notin [write : BOOLEAN, addr : Addr, wdata : Word, wstrb : SUBSET Lanes]
    /\ NoRsp \notin Resp
    /\ NoRsp \notin [resp : Resp, rdata : Word]

VARIABLES
    state, addr_q, wdata_q, wstrb_q, rdata_q, resp_q, aw_done, w_done,
    mem,            \* the slave's memory
    s_aw, s_w,      \* the slave has taken the write address / the write data
    s_b,            \* BVALID with this BRESP, or NoRsp
    s_ar,           \* the slave has taken the read address
    s_r             \* RVALID with this [resp, rdata], or NoRsp

bridge == <<state, addr_q, wdata_q, wstrb_q, rdata_q, resp_q, aw_done, w_done>>
slave == <<mem, s_aw, s_w, s_b, s_ar, s_r>>
vars == <<bridge, slave>>

States == {"S_IDLE", "S_WADDR", "S_WRESP", "S_RADDR", "S_RDATA", "S_DONE"}

----------------------------------------------------------------------------
(* The outputs of the bridge.                                              *)
req_ready == state = "S_IDLE"
rsp_valid == state = "S_DONE"
awvalid == state = "S_WADDR" /\ ~aw_done
wvalid  == state = "S_WADDR" /\ ~w_done
\* Fault: B is refused while the channel flags of its write are set.
bready_Fault == state = "S_WRESP" /\ ~w_done
bready  == state = "S_WRESP"
arvalid == state = "S_RADDR"
rready  == state = "S_RDATA"

----------------------------------------------------------------------------
Init ==
    /\ state = "S_IDLE"
    /\ addr_q = Addr0 /\ wdata_q = Word0 /\ rdata_q = Word0
    /\ wstrb_q = {} /\ resp_q = OKAY
    /\ aw_done = FALSE /\ w_done = FALSE
    /\ s_aw = FALSE /\ s_w = FALSE /\ s_b = NoRsp /\ s_ar = FALSE /\ s_r = NoRsp
    /\ mem \in [Addr -> Word]

\* Fault: the channel flags of the previous write are kept.
Idle_Fault(write, addr, wdata, wstrb) ==
    /\ req_ready
    /\ addr_q' = addr /\ wdata_q' = wdata /\ wstrb_q' = wstrb
    /\ state' = IF write THEN "S_WADDR" ELSE "S_RADDR"
    /\ UNCHANGED <<aw_done, w_done, rdata_q, resp_q, slave>>

\* S_IDLE with req_valid: latch the request.
Idle(write, addr, wdata, wstrb) ==
    /\ req_ready
    /\ aw_done' = FALSE /\ w_done' = FALSE
    /\ addr_q' = addr /\ wdata_q' = wdata /\ wstrb_q' = wstrb
    /\ state' = IF write THEN "S_WADDR" ELSE "S_RADDR"
    /\ UNCHANGED <<rdata_q, resp_q, slave>>

\* S_IDLE without a request clears the per-channel flags.
IdleNoReq ==
    /\ req_ready
    /\ aw_done' = FALSE /\ w_done' = FALSE
    /\ UNCHANGED <<state, addr_q, wdata_q, wstrb_q, rdata_q, resp_q, slave>>

\* Fault: the FSM advances as soon as the address is accepted.
WAddr_Fault(awready, wready) ==
    /\ state = "S_WADDR"
    /\ aw_done' = (aw_done \/ (awvalid /\ awready))
    /\ w_done' = (w_done \/ (wvalid /\ wready))
    /\ state' = IF aw_done' THEN "S_WRESP" ELSE state
    /\ s_aw' = (s_aw \/ (awvalid /\ awready))
    /\ s_w' = (s_w \/ (wvalid /\ wready))
    /\ UNCHANGED <<addr_q, wdata_q, wstrb_q, rdata_q, resp_q, mem, s_b, s_ar, s_r>>

\* S_WADDR: AW and W are retired independently, each on its own handshake.
WAddr(awready, wready) ==
    /\ state = "S_WADDR"
    /\ aw_done' = (aw_done \/ (awvalid /\ awready))
    /\ w_done' = (w_done \/ (wvalid /\ wready))
    /\ state' = IF aw_done' /\ w_done' THEN "S_WRESP" ELSE state
    /\ s_aw' = (s_aw \/ (awvalid /\ awready))
    /\ s_w' = (s_w \/ (wvalid /\ wready))
    /\ UNCHANGED <<addr_q, wdata_q, wstrb_q, rdata_q, resp_q, mem, s_b, s_ar, s_r>>

\* Fault: BVALID is not awaited.
WResp_Fault ==
    /\ bready
    /\ resp_q' = s_b
    /\ state' = "S_DONE"
    /\ s_b' = NoRsp
    /\ UNCHANGED <<addr_q, wdata_q, wstrb_q, rdata_q, aw_done, w_done, mem, s_aw, s_w, s_ar, s_r>>

WResp ==
    /\ bready /\ s_b # NoRsp
    /\ resp_q' = s_b
    /\ state' = "S_DONE"
    /\ s_b' = NoRsp
    /\ UNCHANGED <<addr_q, wdata_q, wstrb_q, rdata_q, aw_done, w_done, mem, s_aw, s_w, s_ar, s_r>>

RAddr(arready) ==
    /\ arvalid /\ arready
    /\ state' = "S_RDATA"
    /\ s_ar' = TRUE
    /\ UNCHANGED <<addr_q, wdata_q, wstrb_q, rdata_q, resp_q, aw_done, w_done, mem, s_aw, s_w, s_b, s_r>>

\* Fault: the read data is not captured.
RData_Fault ==
    /\ rready /\ s_r # NoRsp
    /\ resp_q' = s_r.resp
    /\ state' = "S_DONE"
    /\ s_r' = NoRsp
    /\ UNCHANGED <<addr_q, wdata_q, wstrb_q, rdata_q, aw_done, w_done, mem, s_aw, s_w, s_b, s_ar>>

RData ==
    /\ rready /\ s_r # NoRsp
    /\ rdata_q' = s_r.rdata /\ resp_q' = s_r.resp
    /\ state' = "S_DONE"
    /\ s_r' = NoRsp
    /\ UNCHANGED <<addr_q, wdata_q, wstrb_q, aw_done, w_done, mem, s_aw, s_w, s_b, s_ar>>

Done ==
    /\ rsp_valid
    /\ state' = "S_IDLE"
    /\ UNCHANGED <<addr_q, wdata_q, wstrb_q, rdata_q, resp_q, aw_done, w_done, slave>>

\* rst for the bridge and, with the fabric's reset, for the slave's queues.
Reset ==
    /\ state' = "S_IDLE"
    /\ addr_q' = Addr0 /\ wdata_q' = Word0 /\ rdata_q' = Word0
    /\ wstrb_q' = {} /\ resp_q' = OKAY
    /\ aw_done' = FALSE /\ w_done' = FALSE
    /\ s_aw' = FALSE /\ s_w' = FALSE /\ s_b' = NoRsp /\ s_ar' = FALSE /\ s_r' = NoRsp
    /\ UNCHANGED mem

----------------------------------------------------------------------------
(* The slave: it performs a transaction once it has taken all of it, using *)
(* the address and data the bridge still drives.                           *)
SlaveWrite(resp) ==
    /\ s_aw /\ s_w /\ s_b = NoRsp
    /\ mem' = IF resp = OKAY
              THEN [mem EXCEPT ![addr_q] = [l \in Lanes |->
                      IF l \in wstrb_q THEN wdata_q[l] ELSE mem[addr_q][l]]]
              ELSE mem
    /\ s_b' = resp
    /\ s_aw' = FALSE /\ s_w' = FALSE
    /\ UNCHANGED <<bridge, s_ar, s_r>>

SlaveRead(resp, junk) ==
    /\ s_ar /\ s_r = NoRsp
    /\ s_r' = [resp |-> resp, rdata |-> IF resp = OKAY THEN mem[addr_q] ELSE junk]
    /\ s_ar' = FALSE
    /\ UNCHANGED <<bridge, mem, s_aw, s_w, s_b>>

SlaveStep == \E resp \in Resp : SlaveWrite(resp) \/ \E junk \in Word : SlaveRead(resp, junk)

Request == \E write \in BOOLEAN, addr \in Addr, wdata \in Word, wstrb \in SUBSET Lanes :
              Idle(write, addr, wdata, wstrb)

Next ==
    \/ Request
    \/ IdleNoReq
    \/ \E awready, wready \in BOOLEAN : WAddr(awready, wready)
    \/ WResp
    \/ \E arready \in BOOLEAN : RAddr(arready)
    \/ RData
    \/ Done
    \/ Reset
    \/ SlaveStep

\* The clock keeps ticking and an AXI slave neither withholds READY from a
\* VALID forever nor forgets to answer.
Fairness ==
    /\ WF_vars(WAddr(TRUE, TRUE)) /\ WF_vars(WResp)
    /\ WF_vars(RAddr(TRUE)) /\ WF_vars(RData) /\ WF_vars(Done)
    /\ WF_vars(SlaveStep)

Spec == Init /\ [][Next]_vars
FairSpec == Spec /\ Fairness

----------------------------------------------------------------------------
(* Properties.                                                             *)

\* Every register of the bridge and of the slave holds a value of its width.
TypeOK ==
    /\ state \in States
    /\ addr_q \in Addr /\ wdata_q \in Word /\ wstrb_q \in SUBSET Lanes
    /\ rdata_q \in Word /\ resp_q \in Resp
    /\ aw_done \in BOOLEAN /\ w_done \in BOOLEAN
    /\ mem \in [Addr -> Word]
    /\ s_aw \in BOOLEAN /\ s_w \in BOOLEAN /\ s_ar \in BOOLEAN
    /\ s_b \in Resp \cup {NoRsp}
    /\ s_r \in [resp : Resp, rdata : Word] \cup {NoRsp}

\* "One outstanding transaction at a time": what the slave holds is exactly
\* the part of the current request the FSM says was handed over, so that no
\* channel is handed over twice and no answer is left for a later request.
OneOutstanding ==
    /\ state \in {"S_IDLE", "S_DONE", "S_RADDR"} =>
          ~s_aw /\ ~s_w /\ ~s_ar /\ s_b = NoRsp /\ s_r = NoRsp
    /\ state = "S_WADDR" => s_aw = aw_done /\ s_w = w_done /\ ~(s_aw /\ s_w)
                            /\ s_b = NoRsp /\ ~s_ar /\ s_r = NoRsp
    /\ state = "S_WRESP" => /\ s_aw = s_w /\ (s_aw <=> s_b = NoRsp)
                            /\ ~s_ar /\ s_r = NoRsp
    /\ state = "S_RDATA" => /\ s_ar <=> s_r = NoRsp
                            /\ ~s_aw /\ ~s_w /\ s_b = NoRsp

\* "All master-driven *VALID signals hold stable until the matching *READY":
\* short of a reset, a step that leaves a channel's payload not taken keeps
\* VALID up and the payload unchanged.
ValidStable ==
    [][ Reset \/
        /\ awvalid /\ ~s_aw' => awvalid' /\ addr_q' = addr_q
        /\ wvalid /\ ~s_w' => wvalid' /\ wdata_q' = wdata_q /\ wstrb_q' = wstrb_q
        /\ arvalid /\ ~s_ar' => arvalid' /\ addr_q' = addr_q ]_vars

\* The memory port the bridge implements.
Port == INSTANCE MemPort WITH
    mem <- mem,
    req <- IF s_b # NoRsp \/ s_r # NoRsp \/ state \in {"S_IDLE", "S_DONE"} THEN NoReq
           ELSE [write |-> state \in {"S_WADDR", "S_WRESP"}, addr |-> addr_q,
                 wdata |-> wdata_q, wstrb |-> wstrb_q],
    rsp <- IF s_b # NoRsp THEN [resp |-> s_b, rdata |-> rdata_q]
           ELSE IF s_r # NoRsp THEN s_r
           ELSE IF state = "S_DONE" THEN [resp |-> resp_q, rdata |-> rdata_q]
           ELSE NoRsp

\* Through the bridge, every load and store is performed exactly once and
\* answered exactly once with its own outcome, as MemPort promises.
ImplementsMemPort == Port!Spec

\* An accepted request is answered, unless the bridge is reset meanwhile.
Answered == (state \in {"S_WADDR", "S_RADDR"}) ~> (state \in {"S_DONE", "S_IDLE"})
=============================================================================
