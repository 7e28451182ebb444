------------------------------- MODULE MCVDisk -------------------------------
(* VDisk with small sets of files and stores: one file, in the first of the stores. *)
EXTENDS VDisk, TLC

FirstStore == [f \in Files |-> CHOOSE s \in Stores : TRUE]
=============================================================================
