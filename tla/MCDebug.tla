------------------------------ MODULE MCDebug ------------------------------
(* TLC instance of DebugModule: words and addresses 0 and 1, so that the    *)
(* increment wraps, and one register.                                       *)
EXTENDS DebugModule
=============================================================================
