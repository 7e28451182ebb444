---------------------------- MODULE MCEncryptJob ----------------------------
(* EncryptJob on small instances: see the cfg files for the bounds of each run. *)
EXTENDS EncryptJob

\* States that differ only in what inodes nobody refers to once held are the same: such
\* an inode is emptied when it is taken into use again (Prepare).
View ==
  <<src, tmp, final, prs, lock, pc, job, faults,
    [i \in Inodes |-> IF i \in FreeInodes THEN EmptyFile ELSE file[i]]>>
=============================================================================
