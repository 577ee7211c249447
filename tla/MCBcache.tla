------------------------------ MODULE MCBcache ------------------------------
(***************************************************************************)
(* Small instances of Bcache: more blocks than buffers.                    *)
(***************************************************************************)
EXTENDS Bcache
=============================================================================
