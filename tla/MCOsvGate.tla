------------------------------ MODULE MCOsvGate ------------------------------
(* The instance of OsvGate that TLC checks: processes are interchangeable. *)
EXTENDS OsvGate, TLC
CONSTANTS p1, p2
Symmetry == Permutations(Proc)
===============================================================================
