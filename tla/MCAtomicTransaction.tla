--------------------------- MODULE MCAtomicTransaction ---------------------------
(* Instances of AtomicTransaction for TLC: three plans on three files. *)
EXTENDS AtomicTransaction

CONSTANTS a, b, c

PlanThree == <<a, b, c>>
=============================================================================
