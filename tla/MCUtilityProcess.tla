------------------------- MODULE MCUtilityProcess -------------------------
(* A small instance of UtilityProcess: two calls, three processes.          *)
EXTENDS UtilityProcess, TLC

Alike == Permutations(Callers)
=============================================================================
