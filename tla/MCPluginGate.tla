------------------------------ MODULE MCPluginGate ------------------------------
(* An instance of PluginGate for TLC: more threads than permits. *)
EXTENDS PluginGate

CONSTANTS t1, t2, t3, t4
=============================================================================
