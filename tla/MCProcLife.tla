----------------------------- MODULE MCProcLife -----------------------------
(***************************************************************************)
(* Small instances of ProcLife.                                            *)
(***************************************************************************)
EXTENDS ProcLife
=============================================================================
