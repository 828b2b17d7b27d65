---------------------------- MODULE MCBarberShop ----------------------------
(* Instances of BarberShop for TLC: up to three barbers and three clients,   *)
(* four of them at a time, and arrays of two places.  Two processes race on  *)
(* a byte, and with three barbers one of them finds every seat taken.        *)
EXTENDS BarberShop, TLC

\* Processes are interchangeable: no code looks at a pid.
Symmetry == Permutations(Barbers) \union Permutations(Clients)

\* At most four of the processes are forked, whichever they are.
AtMostFour == Cardinality({p \in Processes : pc[p] \in {"look", "lookLobby"}}) <= 4
InitFour == Init /\ AtMostFour
SpecFour == InitFour /\ [][Next]_vars
=============================================================================
