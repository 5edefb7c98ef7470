----------------------------- MODULE MCHybridCache -----------------------------
(* HybridCache for TLC.  Checkouts, keys and files are interchangeable: no   *)
(* action or invariant names one, and the inode that WriteInto takes depends *)
(* only on the inodes in use.                                                *)
EXTENDS HybridCache, TLC

Symmetry == Permutations(Host) \cup Permutations(Key) \cup Permutations(File)
================================================================================
