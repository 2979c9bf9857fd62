------------------------------- MODULE DmiPort ------------------------------
(***************************************************************************)
(* What the JTAG transport promises to a debugger: each scan of the DMI    *)
(* register performs its request once, in the order of the scans, and      *)
(* returns the result of the last read before it.                          *)
(***************************************************************************)
CONSTANTS Addr, Word, ZeroWord, NoScan

VARIABLES
    regs,       \* of the debug module
    answer,     \* the last read's result
    scan        \* the scan that ends in this step, or NoScan

vars == <<regs, answer, scan>>
Requests == [op : {"nop", "read", "write", "reserved"}, addr : Addr, data : Word]
Zeroed == [a \in Addr |-> ZeroWord]

Init == regs = Zeroed /\ answer = ZeroWord /\ scan = NoScan

Scan ==
    \E q \in Requests :
        /\ scan' = [request |-> q, reply |-> answer]
        /\ regs' = IF q.op = "write" THEN [regs EXCEPT ![q.addr] = q.data] ELSE regs
        /\ answer' = IF q.op = "read" THEN regs[q.addr] ELSE answer
Pause == scan' = NoScan /\ UNCHANGED <<regs, answer>>
\* A write whose scan has just ended may be performed before the reset or after.
Reset ==
    /\ \/ regs' = Zeroed
       \/ /\ scan # NoScan /\ scan.request.op = "write"
          /\ regs' = [Zeroed EXCEPT ![scan.request.addr] = scan.request.data]
    /\ scan' = NoScan /\ UNCHANGED answer

Next == Scan \/ Pause \/ Reset
Spec == Init /\ [][Next]_vars
=============================================================================
