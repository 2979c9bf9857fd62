------------------------------- MODULE MdUnit -------------------------------
(***************************************************************************)
(* What the pipeline relies on in the multiply/divide unit: an operation   *)
(* that is started is answered once, after the latency of its operands, by *)
(* a "done" of one cycle with the value of the operation.  Core models the *)
(* unit this way (its variable md); Muldiv is the unit itself.             *)
(***************************************************************************)
EXTENDS Naturals

CONSTANTS
    Request,        \* operations with their operands
    Value(_),       \* the result of an operation
    Latency(_)      \* cycles from "start" to "done"

VARIABLES req, cnt, done, result

vars == <<req, cnt, done, result>>

Init == req \in Request /\ cnt = 0 /\ done = FALSE /\ result = Value(req)

Start ==
    /\ cnt = 0
    /\ req' \in Request
    /\ cnt' = Latency(req') /\ done' = FALSE /\ result' = Value(req')

Tick ==
    /\ cnt' = IF cnt = 0 THEN 0 ELSE cnt - 1
    /\ done' = (cnt = 1)
    /\ UNCHANGED <<req, result>>

Reset == cnt' = 0 /\ done' = FALSE /\ UNCHANGED <<req, result>>

Next == Tick \/ Reset \/ Start
Spec == Init /\ [][Next]_vars
=============================================================================
