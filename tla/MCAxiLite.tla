----------------------------- MODULE MCAxiLite -----------------------------
(***************************************************************************)
(* Two addresses, two byte lanes and two byte values: enough for a store   *)
(* with a partial strobe to be told from a full one, and for a transaction *)
(* to reach the wrong address.                                             *)
(***************************************************************************)
EXTENDS AxiLite
=============================================================================
