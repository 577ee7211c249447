------------------------------- MODULE MCLog -------------------------------
(***************************************************************************)
(* Small instances of Log: two calls fit into the log at a time.           *)
(***************************************************************************)
EXTENDS Log
=============================================================================
