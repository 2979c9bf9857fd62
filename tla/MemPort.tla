------------------------------ MODULE MemPort ------------------------------
(***************************************************************************)
(* What a memory port promises the core: a request is accepted only when   *)
(* no other is in progress, is performed on memory exactly once and in one *)
(* step, and is answered exactly once with the outcome of that step.  This *)
(* is the request/response interface described in the header of            *)
(* rtl/three_sipp_es_axi_lite.sv; AxiLite is shown to implement it.        *)
(***************************************************************************)
EXTENDS Naturals

CONSTANTS
    Addr,       \* word addresses
    Lanes,      \* byte lanes of a word (WSTRB has one bit for each)
    Byte,       \* values of one lane
    OKAY,       \* AXI response codes
    SLVERR,
    NoReq,      \* no request is in progress
    NoRsp       \* no outcome is waiting to be delivered

Word == [Lanes -> Byte]
Resp == {OKAY, SLVERR}
Request == [write : BOOLEAN, addr : Addr, wdata : Word, wstrb : SUBSET Lanes]

VARIABLES
    mem,        \* memory behind the port
    req,        \* the request accepted and not yet performed
    rsp         \* the outcome not yet delivered

vars == <<mem, req, rsp>>

\* The word that a store with byte strobes leaves in memory.
Merge(old, wdata, wstrb) == [l \in Lanes |-> IF l \in wstrb THEN wdata[l] ELSE old[l]]

Init ==
    /\ mem \in [Addr -> Word]
    /\ req = NoReq
    /\ rsp = NoRsp

Accept(r) ==
    /\ req = NoReq
    /\ rsp = NoRsp
    /\ req' = r
    /\ UNCHANGED <<mem, rsp>>

\* An OKAY store changes the strobed lanes of one word; the read data of its
\* answer means nothing.
PerformWrite(resp, junk) ==
    /\ req # NoReq
    /\ req.write
    /\ mem' = IF resp = OKAY
              THEN [mem EXCEPT ![req.addr] = Merge(mem[req.addr], req.wdata, req.wstrb)]
              ELSE mem
    /\ rsp' = [resp |-> resp, rdata |-> junk]
    /\ req' = NoReq

\* An OKAY load answers the word that is in memory at that moment.
PerformRead(resp, junk) ==
    /\ req # NoReq
    /\ ~req.write
    /\ rsp' = [resp |-> resp, rdata |-> IF resp = OKAY THEN mem[req.addr] ELSE junk]
    /\ req' = NoReq
    /\ UNCHANGED mem

Deliver ==
    /\ rsp # NoRsp
    /\ rsp' = NoRsp
    /\ UNCHANGED <<mem, req>>

\* Reset forgets the transaction in progress, performed or not.
Reset ==
    /\ req' = NoReq
    /\ rsp' = NoRsp
    /\ UNCHANGED mem

Next ==
    \/ \E r \in Request : Accept(r)
    \/ \E resp \in Resp, junk \in Word : PerformWrite(resp, junk) \/ PerformRead(resp, junk)
    \/ Deliver
    \/ Reset

Spec == Init /\ [][Next]_vars
=============================================================================
