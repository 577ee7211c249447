---------------------------- MODULE MCProcGroup ----------------------------
(***************************************************************************)
(* Small instances of ProcGroup for TLC.                                   *)
(***************************************************************************)
EXTENDS ProcGroup, TLC

\* Harts other than the boot hart, and processes other than init, are
\* interchangeable.
Symmetry == Permutations(CPUs \ {BootCpu}) \cup Permutations(Procs \ {InitProc})
=============================================================================
