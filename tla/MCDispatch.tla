------------------------------ MODULE MCDispatch ------------------------------
(* Small instances of Dispatch with no symmetry: for liveness, and for the *)
(* shortest counterexamples.                                               *)
EXTENDS Dispatch
===============================================================================
