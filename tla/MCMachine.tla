----------------------------- MODULE MCMachine -----------------------------
(* Machine with a queue of a few places, two descriptors and the keyboard  *)
(* holding one or two keys.                                                *)
EXTENDS Machine
=============================================================================
