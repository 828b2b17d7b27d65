--------------------------- MODULE CatcherSender ---------------------------
(***************************************************************************)
(* lab04/zad03: senders give a catcher its modes of work one by one, each  *)
(* in the value of a SIGUSR1, and spin until a SIGUSR1 confirms it.        *)
(* SIGUSR1 is a standard signal: at most one is pending for a process, a   *)
(* further one is discarded, and none is delivered during its handler.     *)
(* What the modes print is left out.                                       *)
(***************************************************************************)
EXTENDS Integers, Sequences

CONSTANTS
  Senders,             \* the sender processes
  Scripts,             \* the lists of modes a sender may be started with
  NoSignal,            \* nothing pending
  ResetHand            \* the values SA_RESETHAND may have in the unset sa_flags (sender.c:25)

Modes == 1 .. 5
ASSUME CatcherAssumption ==
  Scripts \subseteq Seq(Nat) \ {<<>>} /\ NoSignal \notin [pid : Senders, task : Nat]
  /\ ResetHand \subseteq BOOLEAN

VARIABLES
  script,              \* argv of each sender
  cat,                 \* what the catcher does
  pending,             \* the SIGUSR1 pending for the catcher
  current,             \* the signal its handler was called for
  request_count,
  received,            \* history: the modes received from each sender
  snd,                 \* what each sender does
  sent,                \* how many modes each sender has sent
  ackPending,          \* a SIGUSR1 is pending for the sender
  ack_received,
  resetHand,           \* sa_flags of the sender holds SA_RESETHAND
  handlerSet           \* the sender's handler is installed

catcherv == <<cat, pending, current, request_count, received>>
senderv  == <<snd, sent, ackPending, ack_received, handlerSet>>
vars     == <<script, resetHand, catcherv, senderv>>

Init ==
  /\ script \in [Senders -> Scripts]
  /\ cat = "starting" /\ pending = NoSignal /\ current = NoSignal /\ request_count = 0
  /\ received = [s \in Senders |-> <<>>]
  /\ snd = [s \in Senders |-> "send"] /\ sent = [s \in Senders |-> 0]
  /\ ackPending = [s \in Senders |-> FALSE] /\ ack_received = [s \in Senders |-> FALSE]
  /\ resetHand \in [Senders -> ResetHand]
  /\ handlerSet = [s \in Senders |-> TRUE]

-----------------------------------------------------------------------------
(* The catcher *)

\* The pid is printed before the handler is installed: it can be known before.
Install ==
  /\ cat = "starting" /\ cat' = "idle"
  /\ UNCHANGED <<script, resetHand, pending, current, request_count, received, senderv>>

\* Mutants: the handler takes si_code, which is SI_QUEUE, for the mode, or the first mode
\* of the sender's list.
SignalCode(signal) == -1
FirstMode(signal) == script[signal.pid][1]
TaskOf(signal) == signal.task

Deliver ==
  /\ cat = "idle" /\ pending # NoSignal
  /\ cat' = "ack"
  /\ current' = pending /\ pending' = NoSignal
  /\ received' = [received EXCEPT ![pending.pid] = Append(@, TaskOf(pending))]
  /\ UNCHANGED <<script, resetHand, request_count, senderv>>

\* Mutant: the confirmation goes to whoever is waiting.
AckAnyone(s) == snd[s] = "wait"
AckSender(s) == s = current.pid

SendAck ==
  /\ cat = "ack" /\ cat' = "work"
  /\ ackPending' = [s \in Senders |->
       ackPending[s] \/ (AckSender(s) /\ snd[s] \notin {"done", "killed"})]
  /\ UNCHANGED <<script, resetHand, pending, current, request_count, received,
                 snd, sent, ack_received, handlerSet>>

\* Mutant: a forgotten break lets mode 3 fall into mode 4.
FallsThrough(task) ==
  CASE task \in 1 .. 2 -> "idle"
    [] task \in 3 .. 4 -> "printingTime"
    [] task = 5 -> "finished"
    [] OTHER -> "failed"

\* Mode 4 prints the time for ever, inside the handler; 5 and an unknown mode exit.
AfterMode(task) ==
  CASE task \in 1 .. 3 -> "idle"
    [] task = 4 -> "printingTime"
    [] task = 5 -> "finished"
    [] OTHER -> "failed"

Work ==
  /\ cat = "work"
  /\ cat' = AfterMode(current.task)
  /\ request_count' = request_count + 1
  /\ UNCHANGED <<script, resetHand, pending, current, received, senderv>>

CatcherStep == Install \/ Deliver \/ SendAck \/ Work

-----------------------------------------------------------------------------
(* A sender *)

SignalOf(s) == [pid |-> s, task |-> script[s][sent[s] + 1]]

\* sigqueue: the default action kills a catcher without a handler.
Send(s) ==
  /\ snd[s] = "send" /\ sent[s] < Len(script[s])
  /\ sent' = [sent EXCEPT ![s] = @ + 1]
  /\ snd' = [snd EXCEPT ![s] = "wait"]
  /\ cat' = IF cat = "starting" THEN "killed" ELSE cat
  /\ pending' = IF cat \in {"idle", "ack", "work", "printingTime"} /\ pending = NoSignal
                THEN SignalOf(s) ELSE pending
  /\ UNCHANGED <<script, resetHand, current, request_count, received,
                 ackPending, ack_received, handlerSet>>

HandleAck(s) ==
  /\ ackPending[s] /\ snd[s] \in {"send", "wait", "reset"}
  /\ ackPending' = [ackPending EXCEPT ![s] = FALSE]
  /\ handlerSet' = [handlerSet EXCEPT ![s] = ~resetHand[s]]
  /\ ack_received' = [ack_received EXCEPT ![s] = @ \/ handlerSet[s]]
  /\ snd' = [snd EXCEPT ![s] = IF handlerSet[s] THEN @ ELSE "killed"]
  /\ UNCHANGED <<script, resetHand, catcherv, sent>>

\* Mutant: the sender does not wait for the confirmation.
GoesOn(s) == TRUE
Confirmed(s) == ack_received[s]

LeaveLoop(s) ==
  /\ snd[s] = "wait" /\ Confirmed(s)
  /\ snd' = [snd EXCEPT ![s] = "reset"]
  /\ UNCHANGED <<script, resetHand, catcherv, sent, ackPending, ack_received, handlerSet>>

\* Mutant: the flag is left set for the next mode.
FlagKept(s) == ack_received
FlagReset(s) == [ack_received EXCEPT ![s] = FALSE]

ResetFlag(s) ==
  /\ snd[s] = "reset"
  /\ snd' = [snd EXCEPT ![s] = IF sent[s] = Len(script[s]) THEN "done" ELSE "send"]
  /\ ack_received' = FlagReset(s)
  /\ UNCHANGED <<script, resetHand, catcherv, sent, ackPending, handlerSet>>

SenderStep(s) == Send(s) \/ HandleAck(s) \/ LeaveLoop(s) \/ ResetFlag(s)

-----------------------------------------------------------------------------
Next == CatcherStep \/ \E s \in Senders : SenderStep(s)

Spec == Init /\ [][Next]_vars

\* Both programs run; a pending signal that is not blocked is delivered.
FairSpec == Spec /\ WF_vars(CatcherStep) /\ \A s \in Senders : WF_vars(SenderStep(s))

-----------------------------------------------------------------------------
(* Properties *)

\* Every variable has its type.
TypeOK ==
  /\ script \in [Senders -> Seq(Nat)] /\ resetHand \in [Senders -> BOOLEAN]
  /\ cat \in {"starting", "idle", "ack", "work", "printingTime", "finished", "failed", "killed"}
  /\ pending \in [pid : Senders, task : Nat] \union {NoSignal}
  /\ current \in [pid : Senders, task : Nat] \union {NoSignal}
  /\ request_count \in Nat
  /\ received \in [Senders -> Seq(Nat)]
  /\ snd \in [Senders -> {"send", "wait", "reset", "done", "killed"}]
  /\ sent \in [Senders -> Nat]
  /\ ackPending \in [Senders -> BOOLEAN] /\ ack_received \in [Senders -> BOOLEAN]
  /\ handlerSet \in [Senders -> BOOLEAN]

\* However many senders compete and signals are discarded, each sender's modes are
\* received in order, none twice, and a sender only ends when the catcher has
\* received all of them (polecenia.md:38): each pair behaves as a Handshake.
Pair(s) == INSTANCE Handshake WITH
  script <- script[s], sent <- sent[s], received <- received[s],
  waiting <- snd[s] \notin {"send", "done"}
PairsShakeHands ==
  /\ \A s \in Senders : Pair(s)!Init
  /\ [][\A s \in Senders : [Pair(s)!Next]_(Pair(s)!vars)]_vars

\* The same of a state: what was received is a prefix of what was sent.
ReceivedInOrder ==
  \A s \in Senders :
    /\ Len(received[s]) <= sent[s]
    /\ \A n \in 1 .. Len(received[s]) : received[s][n] = script[s][n]
DoneMeansReceived ==
  \A s \in Senders : snd[s] \in {"send", "reset", "done"} => Len(received[s]) = sent[s]

\* A sender about to send has no confirmation left over that would end its next wait
\* at once (sender.c:42-45).
NoStaleAck ==
  \A s \in Senders : snd[s] \in {"send", "done"} => ~ackPending[s] /\ ~ack_received[s]

\* The signal of a sender was lost: the other's was pending when it was sent.
Discarded(s) ==
  /\ snd[s] = "wait" /\ Len(received[s]) < sent[s]
  /\ pending # NoSignal => pending.pid # s

\* When all modes are such that the catcher goes on (1 to 3), every sender ends or is
\* killed, unless its signal was lost or the catcher killed at its start: the next mode
\* may be sent while the catcher is still in its handler.
CatcherGoesOn == \A s \in Senders : \A n \in 1 .. Len(script[s]) : script[s][n] \in 1 .. 3
SenderEnds ==
  CatcherGoesOn =>
    \A s \in Senders : <>(snd[s] \in {"done", "killed"} \/ Discarded(s) \/ cat = "killed")
=============================================================================
