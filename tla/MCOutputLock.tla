--------------------------- MODULE MCOutputLock ---------------------------
(* OutputLock with a few processes that run acquire_output_lock on one output: their *)
(* number, the inodes and the kills of each run are in its cfg file.                 *)
EXTENDS OutputLock
=============================================================================
