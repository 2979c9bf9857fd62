------------------------------- MODULE Channel -------------------------------
(***************************************************************************)
(* What the demo of src/rtos promises on its console: the values 1 .. N    *)
(* are announced in order, each is received in order after it has been     *)
(* announced, and the demo passes when the last one has been received.     *)
(***************************************************************************)
EXTENDS Naturals

CONSTANT N
VARIABLES announced, received, passed
vars == <<announced, received, passed>>

Init == announced = 0 /\ received = 0 /\ passed = FALSE

Announce == announced < N /\ announced' = announced + 1 /\ UNCHANGED <<received, passed>>
Receive  == received < announced /\ received' = received + 1 /\ UNCHANGED <<announced, passed>>
Pass     == received = N /\ passed' = TRUE /\ UNCHANGED <<announced, received>>

Next == Announce \/ Receive \/ Pass
Spec == Init /\ [][Next]_vars
=============================================================================
