------------------------------ MODULE HartPort ------------------------------
(***************************************************************************)
(* The debug port of a hart, as the debug module relies on it: the hart    *)
(* halts whenever it likes (halt request, EBREAK, single step), and while  *)
(* it is halted it serves each register access once, in the cycle that     *)
(* accepts it, keeps every register it is not asked to write, and resumes  *)
(* when told to and not before.  DebugModule is built on this port; Core   *)
(* implements it.                                                          *)
(***************************************************************************)
CONSTANTS
    Regs,       \* registers and CSRs that keep the whole word written to them
    Data

VARIABLES
    req,        \* ndmreset, resumereq, ar_valid, ar: what the module asks for
    hart,       \* dbg_halted, dbg_ar_busy, dbg_ar_done
    regs        \* what an access would read

vars == <<req, hart, regs>>

Running == [halted |-> FALSE, ar_busy |-> FALSE, ar_done |-> FALSE]
Init == hart = Running /\ regs \in [Regs -> Data]

dbg_do == hart.halted /\ req.ar_valid /\ ~hart.ar_busy

\* A running hart changes its registers at any time, which covers those that a
\* reset clears: the hart runs after it.
HartEdge ==
    IF req.ndmreset THEN hart' = Running /\ UNCHANGED regs
    ELSE /\ \E h \in BOOLEAN :
              /\ hart.halted => h = ~req.resumereq
              /\ hart' = [halted |-> h, ar_busy |-> req.ar_valid /\ (hart.ar_busy \/ dbg_do),
                          ar_done |-> dbg_do]
         /\ IF ~hart.halted THEN regs' \in [Regs -> Data]
            ELSE IF dbg_do /\ req.ar.write THEN regs' = [regs EXCEPT ![req.ar.regno] = req.ar.val]
            ELSE UNCHANGED regs

Spec == Init /\ [][HartEdge]_vars
=============================================================================
