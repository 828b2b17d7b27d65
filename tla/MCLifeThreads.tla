---------------------------- MODULE MCLifeThreads ----------------------------
(* Instances of LifeThreads for TLC: a board of three columns and two rows,  *)
(* with every first grid, and as many threads as give blocks of two sizes.   *)
EXTENDS LifeThreads
=============================================================================
