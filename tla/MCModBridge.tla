---------------------------- MODULE MCModBridge ----------------------------
(* A small instance of ModBridge: a command that is awaited, one that is not.          *)
EXTENDS ModBridge
=============================================================================
