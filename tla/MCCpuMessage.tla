---------------------------- MODULE MCCpuMessage ----------------------------
(***************************************************************************)
(* A small instance of CpuMessage: the indices wrap around after 8 steps.  *)
(***************************************************************************)
EXTENDS CpuMessage
=============================================================================
