----------------------------- MODULE Handshake -----------------------------
(***************************************************************************)
(* What lab04/zad03 promises one sender (polecenia.md:26, 38): its modes   *)
(* are received in the order given, each at most once, the next is sent    *)
(* only when the last is confirmed, and it is confirmed only when it has   *)
(* been received.                                                          *)
(***************************************************************************)
EXTENDS Naturals, Sequences

VARIABLES script,          \* the modes, in order: they never change
          sent,            \* how many have been sent
          received,        \* those the catcher has received
          waiting          \* TRUE until the last one sent is confirmed

Init == sent = 0 /\ received = <<>> /\ waiting = FALSE

Send == /\ ~waiting /\ sent < Len(script)
        /\ sent' = sent + 1 /\ waiting' = TRUE
        /\ UNCHANGED <<script, received>>

Receive == /\ Len(received) < sent
           /\ received' = Append(received, script[Len(received) + 1])
           /\ UNCHANGED <<script, sent, waiting>>

Confirm == /\ waiting /\ Len(received) = sent
           /\ waiting' = FALSE
           /\ UNCHANGED <<script, sent, received>>

Next == Send \/ Receive \/ Confirm
vars == <<script, sent, received, waiting>>
Spec == Init /\ [][Next]_vars
=============================================================================
