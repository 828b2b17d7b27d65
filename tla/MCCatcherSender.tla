-------------------------- MODULE MCCatcherSender --------------------------
(* Instances of CatcherSender for TLC: lists of up to two modes.            *)
EXTENDS CatcherSender

UpTo(n, tasks) == UNION {[1 .. k -> tasks] : k \in 1 .. n}
AllModes == UpTo(2, {1, 3, 4, 5, 6})       \* 6 stands for every unknown mode
=============================================================================
