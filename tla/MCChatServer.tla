---------------------------- MODULE MCChatServer ----------------------------
(* Instances of ChatServer for TLC: two or three clients on a server with   *)
(* two ids, so that ids are given again and the server is found full.       *)
EXTENDS ChatServer, TLC

\* No code compares processes or keys with each other; SIGINT tells clients apart.
Symmetry == Permutations(Clients \ Interrupted) \union Permutations(Interrupted)
            \union Permutations(Keys)

FairSpecKeysDiffer == SpecKeysDiffer /\ Fairness
=============================================================================
