---------------------------- MODULE MCManagedCLI ----------------------------
(* A small instance of ManagedCLI: two rounds, one command, two pin lists.  *)
EXTENDS ManagedCLI
=============================================================================
