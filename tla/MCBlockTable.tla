---------------------------- MODULE MCBlockTable ----------------------------
(* Instances of BlockTable for TLC: a table of one to three places and more *)
(* blocks than places, so that blocks leak and the table is filled again.    *)
EXTENDS BlockTable, TLC

SomeNumbers == -1 .. 3         \* %d of too many digits may give -1
Symmetry == Permutations(Blocks)
=============================================================================
