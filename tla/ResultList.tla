----------------------------- MODULE ResultList -----------------------------
(***************************************************************************)
(* What lab01 promises its user: a list of wc results with a capacity,     *)
(* counted into at the end, shown and deleted by index from 0.             *)
(***************************************************************************)
EXTENDS Integers, Sequences

CONSTANTS Texts, Empty         \* what wc may print; the empty string

VARIABLES asked, capacity, list, shown      \* asked: the number of the last command

Init == asked = 0 /\ capacity = 0 /\ list = <<>> /\ shown = Empty

Known == asked \in 0 .. Len(list) - 1
Without(s, index) ==
  [n \in 1 .. Len(s) - 1 |-> IF n <= index THEN s[n] ELSE s[n + 1]]

Ask ==
  /\ asked' \in Int
  /\ UNCHANGED <<capacity, list, shown>>
Create ==
  /\ capacity = 0 /\ asked > 0 /\ capacity' = asked
  /\ UNCHANGED <<asked, list, shown>>
Count ==
  /\ Len(list) < capacity
  /\ \E text \in Texts : list' = Append(list, text)
  /\ UNCHANGED <<asked, capacity, shown>>
Show ==
  /\ capacity > 0
  /\ shown' = IF Known THEN list[asked + 1] ELSE Empty
  /\ UNCHANGED <<asked, capacity, list>>
Delete ==
  /\ Known /\ list' = Without(list, asked)
  /\ UNCHANGED <<asked, capacity, shown>>
Destroy ==
  /\ capacity > 0 /\ capacity' = 0 /\ list' = <<>>
  /\ UNCHANGED <<asked, shown>>

Next == Ask \/ Create \/ Count \/ Show \/ Delete \/ Destroy
Spec == Init /\ [][Next]_<<asked, capacity, list, shown>>
=============================================================================
