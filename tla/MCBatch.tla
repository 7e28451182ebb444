------------------------------- MODULE MCBatch -------------------------------
(* Batch on small instances: see the cfg files for the bounds of each run. *)
EXTENDS Batch, TLC

CONSTANTS a, b, m

\* Two directories with a file of the same name.
Colliding == a :> m @@ b :> m
=============================================================================
