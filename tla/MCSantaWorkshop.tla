-------------------------- MODULE MCSantaWorkshop --------------------------
(* Instances of SantaWorkshop for TLC: groups of two instead of the source's *)
(* three elves and nine reindeer.  An elf goes back to work once it has      *)
(* queued, so two elves already compete for a full queue.                    *)
EXTENDS SantaWorkshop
=============================================================================
