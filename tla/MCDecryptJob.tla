---------------------------- MODULE MCDecryptJob ----------------------------
(* DecryptJob on small instances: see the cfg files for the bounds of each run. *)
EXTENDS DecryptJob
=============================================================================
