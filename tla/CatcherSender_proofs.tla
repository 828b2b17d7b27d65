----------------------- MODULE CatcherSender_proofs -----------------------
(***************************************************************************)
(* Proofs about lab04/zad03 for any number of senders and any lists of     *)
(* modes.  The inductive invariant follows one mode of one sender: first   *)
(* it is outstanding (sent, not yet received, at most pending), then it is *)
(* being confirmed, and the confirmation is in exactly one of three        *)
(* places: owed by the handler, pending for the sender, or in its flag.    *)
(***************************************************************************)
EXTENDS CatcherSender, TLAPS

Signals == [pid : Senders, task : Nat]
CatcherStates ==
  {"starting", "idle", "ack", "work", "printingTime", "finished", "failed", "killed"}

-----------------------------------------------------------------------------
LEMMA AfterModeType == \A task : AfterMode(task) \in CatcherStates
BY Zenon DEF AfterMode, CatcherStates

LEMMA SignalType ==
  ASSUME TypeOK, NEW s \in Senders, sent[s] < Len(script[s])
  PROVE  /\ SignalOf(s) \in Signals
         /\ SignalOf(s).pid = s /\ SignalOf(s).task = script[s][sent[s] + 1]
<1>1. script[s] \in Seq(Nat) /\ sent[s] \in Nat
  BY DEF TypeOK
<1>2. sent[s] + 1 \in 1 .. Len(script[s])
  BY <1>1
<1>3. script[s][sent[s] + 1] \in Nat
  BY <1>1, <1>2
<1> QED
  BY <1>3 DEF SignalOf, Signals

LEMMA TypeStep ==
  ASSUME CatcherAssumption, TypeOK, [Next]_vars
  PROVE  TypeOK'
<1> USE DEF TypeOK, catcherv, senderv
<1>1. CASE Install
  BY <1>1 DEF Install
<1>2. CASE Deliver
  <2>1. pending \in [pid : Senders, task : Nat]
    BY <1>2 DEF Deliver
  <2>2. pending.pid \in Senders /\ pending.task \in Nat
    BY <2>1
  <2>3. received' \in [Senders -> Seq(Nat)]
    BY <1>2, <2>2 DEF Deliver, TaskOf
  <2> QED
    BY <1>2, <2>1, <2>3 DEF Deliver
<1>3. CASE SendAck
  <2>1. ackPending' \in [Senders -> BOOLEAN]
    BY <1>3 DEF SendAck
  <2> QED
    BY <1>3, <2>1 DEF SendAck
<1>4. CASE Work
  <2>1. cat' \in CatcherStates
    BY <1>4, AfterModeType DEF Work
  <2> QED
    BY <1>4, <2>1 DEF Work, CatcherStates
<1>5. ASSUME NEW s \in Senders, Send(s)
      PROVE  TypeOK'
  <2>1. SignalOf(s) \in [pid : Senders, task : Nat]
    BY <1>5, SignalType DEF Send, Signals
  <2>2. pending' \in [pid : Senders, task : Nat] \union {NoSignal}
    BY <1>5, <2>1 DEF Send
  <2>3. cat' = "killed" \/ cat' = cat
    BY <1>5 DEF Send
  <2> QED
    BY <1>5, <2>2, <2>3 DEF Send
<1>6. ASSUME NEW s \in Senders, HandleAck(s) \/ LeaveLoop(s) \/ ResetFlag(s)
      PROVE  TypeOK'
  BY <1>6 DEF HandleAck, LeaveLoop, ResetFlag, FlagReset
<1>7. CASE UNCHANGED vars
  BY <1>7 DEF vars
<1> QED
  BY <1>1, <1>2, <1>3, <1>4, <1>5, <1>6, <1>7 DEF Next, CatcherStep, SenderStep

-----------------------------------------------------------------------------
(* The inductive invariant.                                                 *)
From(signal, s) == signal # NoSignal /\ signal.pid = s
Owed(s) == cat = "ack" /\ From(current, s)
Quiet(s) == ~ackPending[s] /\ ~ack_received[s] /\ ~Owed(s)

\* The mode sent last is on its way, or was discarded.
Outstanding(s) ==
  /\ Len(received[s]) + 1 = sent[s]
  /\ Quiet(s)
  /\ From(pending, s) => pending.task = script[s][sent[s]]

\* It was received, and its confirmation is in one place.
Confirming(s) ==
  /\ Len(received[s]) = sent[s]
  /\ ~From(pending, s)
  /\ Owed(s) => ~ackPending[s] /\ ~ack_received[s]
  /\ ackPending[s] => ~ack_received[s]

Prefix(s) ==
  /\ sent[s] <= Len(script[s]) /\ Len(received[s]) <= sent[s]
  /\ \A n \in 1 .. Len(received[s]) : received[s][n] = script[s][n]

PairInv(s) ==
  /\ Prefix(s)
  /\ snd[s] \in {"send", "done"} =>
       Len(received[s]) = sent[s] /\ Quiet(s) /\ ~From(pending, s)
  /\ snd[s] = "reset" =>
       Len(received[s]) = sent[s] /\ ~ackPending[s] /\ ~Owed(s) /\ ~From(pending, s)
  /\ snd[s] \in {"wait", "killed"} => sent[s] > 0 /\ (Outstanding(s) \/ Confirming(s))

IInv ==
  /\ TypeOK
  /\ cat \in {"ack", "work"} => current # NoSignal
  /\ \A s \in Senders : PairInv(s)

LEMMA InitInv ==
  ASSUME CatcherAssumption, Init
  PROVE  IInv
<1>1. script \in [Senders -> Seq(Nat)] /\ \A s \in Senders : script[s] # <<>>
  BY DEF Init, CatcherAssumption
<1>2. TypeOK
  BY <1>1 DEF Init, TypeOK, CatcherAssumption
<1>3. ASSUME NEW s \in Senders
      PROVE  PairInv(s)
  BY <1>1 DEF Init, PairInv, Prefix, Quiet, Owed, From
<1> QED
  BY <1>2, <1>3 DEF IInv, Init

-----------------------------------------------------------------------------
(* The catcher's steps: they touch the flag of no sender.                   *)
LEMMA DeliverInv ==
  ASSUME CatcherAssumption, IInv, TypeOK', Deliver
  PROVE  IInv'
<1> USE DEF IInv, TypeOK, senderv
<1>1. PICK p \in Senders : pending.pid = p
  BY DEF Deliver
<1>2. /\ pending \in Signals /\ pending # NoSignal /\ current' = pending /\ pending' = NoSignal
      /\ cat = "idle" /\ cat' = "ack"
      /\ received' = [received EXCEPT ![p] = Append(@, pending.task)]
      /\ UNCHANGED <<script, snd, sent, ackPending, ack_received>>
  BY <1>1 DEF Deliver, TaskOf, Signals
<1>3. Outstanding(p) /\ snd[p] \in {"wait", "killed"} /\ Prefix(p) /\ sent[p] > 0
  <2>1. From(pending, p)
    BY <1>1, <1>2 DEF From
  <2> QED
    BY <2>1 DEF PairInv, Confirming
<1>4. PairInv(p)'
  <2>1. /\ received'[p] = Append(received[p], script[p][sent[p]])
        /\ Len(received[p]) + 1 = sent[p] /\ ~ackPending[p] /\ ~ack_received[p]
    BY <1>1, <1>2, <1>3 DEF Outstanding, From, Quiet
  <2>2. received[p] \in Seq(Nat) /\ sent[p] \in Nat /\ script[p] \in Seq(Nat)
    OBVIOUS
  <2>3. Len(received'[p]) = sent[p]
    BY <2>1, <2>2
  <2>4. Prefix(p)'
    <3>1. ASSUME NEW n \in 1 .. Len(received'[p])
          PROVE  received'[p][n] = script[p][n]
      <4>1. CASE n = Len(received[p]) + 1
        BY <2>1, <2>2, <4>1
      <4>2. CASE n \in 1 .. Len(received[p])
        <5>1. received'[p][n] = received[p][n]
          BY <2>1, <2>2, <4>2
        <5> QED
          BY <1>3, <4>2, <5>1 DEF Prefix
      <4> QED
        BY <2>1, <2>2, <2>3, <4>1, <4>2
    <3>2. sent'[p] = sent[p] /\ script'[p] = script[p] /\ sent[p] <= Len(script[p])
      BY <1>2, <1>3 DEF Prefix
    <3>3. Len(received'[p]) <= sent'[p]
      BY <2>2, <2>3, <3>2
    <3> QED
      BY <3>1, <3>2, <3>3 DEF Prefix
  <2>5. Confirming(p)'
    BY <1>2, <2>1, <2>3 DEF Confirming, From
  <2> QED
    BY <1>2, <1>3, <2>4, <2>5 DEF PairInv
<1>5. ASSUME NEW s \in Senders \ {p}
      PROVE  PairInv(s)'
  <2>1. received'[s] = received[s] /\ ~Owed(s)' /\ ~Owed(s) /\ ~From(pending', s)
    BY <1>1, <1>2 DEF Owed, From
  <2>2. Prefix(s)'
    BY <1>2, <2>1 DEF PairInv, Prefix
  <2>3. (Quiet(s) => Quiet(s)') /\ (Outstanding(s) => Outstanding(s)')
        /\ (Confirming(s) => Confirming(s)')
    BY <1>2, <2>1 DEF Quiet, Outstanding, Confirming, From
  <2> QED
    BY <1>2, <2>1, <2>2, <2>3 DEF PairInv
<1> QED
  BY <1>2, <1>4, <1>5

LEMMA SendAckInv ==
  ASSUME CatcherAssumption, IInv, TypeOK', SendAck
  PROVE  IInv'
<1> USE DEF IInv, TypeOK
<1>1. /\ cat = "ack" /\ cat' = "work" /\ current # NoSignal
      /\ UNCHANGED <<script, pending, current, received, snd, sent, ack_received>>
  BY DEF SendAck
<1>2. ASSUME NEW s \in Senders
      PROVE  PairInv(s)'
  <2>1. Prefix(s)' /\ ~Owed(s)'
    BY <1>1 DEF PairInv, Prefix, Owed
  <2>2. CASE current.pid = s
    <3>1. Owed(s) /\ snd[s] \in {"wait", "killed"} /\ Confirming(s) /\ sent[s] > 0
      BY <1>1, <2>2 DEF Owed, From, PairInv, Quiet, Outstanding
    <3>2. Confirming(s)'
      BY <1>1, <2>1, <3>1 DEF Confirming, From
    <3> QED
      BY <1>1, <2>1, <3>1, <3>2 DEF PairInv
  <2>3. CASE current.pid # s
    <3>1. ackPending'[s] = ackPending[s]
      BY <2>3 DEF SendAck, AckSender
    <3>2. (Quiet(s) => Quiet(s)') /\ (Outstanding(s) => Outstanding(s)')
          /\ (Confirming(s) => Confirming(s)')
      BY <1>1, <2>1, <3>1 DEF Quiet, Outstanding, Confirming, From
    <3> QED
      BY <1>1, <2>1, <3>1, <3>2 DEF PairInv, From
  <2> QED
    BY <2>2, <2>3
<1> QED
  BY <1>1, <1>2

LEMMA InstallOrWorkInv ==
  ASSUME CatcherAssumption, IInv, TypeOK', Install \/ Work
  PROVE  IInv'
<1>1. /\ cat \notin {"ack"} /\ cat' \notin {"ack", "work"}
      /\ UNCHANGED <<script, pending, current, received, snd, sent, ackPending, ack_received>>
  <2>1. CASE Install
    BY <2>1 DEF Install, senderv
  <2>2. CASE Work
    <3>1. \A task : AfterMode(task) \notin {"ack", "work"}
      BY Zenon DEF AfterMode
    <3> QED
      BY <2>2, <3>1 DEF Work, senderv
  <2> QED
    BY <2>1, <2>2
<1>2. ASSUME NEW s \in Senders
      PROVE  PairInv(s)'
  BY <1>1, <1>2 DEF IInv, PairInv, Prefix, Quiet, Owed, From, Outstanding, Confirming
<1> QED
  BY <1>1, <1>2 DEF IInv

-----------------------------------------------------------------------------
(* A sender's steps: another sender sees at most the pending place filled.  *)
LEMMA OthersKept ==
  ASSUME CatcherAssumption, IInv, TypeOK', NEW s \in Senders, SenderStep(s),
         NEW p \in Senders \ {s}
  PROVE  PairInv(p)'
<1> USE DEF IInv, TypeOK, catcherv
<1>1. /\ UNCHANGED <<script, current, received>>
      /\ snd'[p] = snd[p] /\ sent'[p] = sent[p]
      /\ ackPending'[p] = ackPending[p] /\ ack_received'[p] = ack_received[p]
  BY DEF SenderStep, Send, HandleAck, LeaveLoop, ResetFlag, FlagReset
<1>2. cat' = cat \/ (cat = "starting" /\ cat' = "killed")
  BY DEF SenderStep, Send, HandleAck, LeaveLoop, ResetFlag
<1>3. pending' = pending \/ ~From(pending', p)
  <2>1. CASE Send(s)
    <3>1. SignalOf(s).pid = s
      BY <2>1, SignalType DEF Send
    <3> QED
      BY <2>1, <3>1 DEF Send, From
  <2>2. CASE HandleAck(s) \/ LeaveLoop(s) \/ ResetFlag(s)
    BY <2>2 DEF HandleAck, LeaveLoop, ResetFlag
  <2> QED
    BY <2>1, <2>2 DEF SenderStep
<1>4. Owed(p)' = Owed(p)
  BY <1>1, <1>2 DEF Owed, From
<1>5. Quiet(p)' = Quiet(p)
  BY <1>1, <1>4 DEF Quiet
<1>6. Prefix(p)'
  BY <1>1 DEF PairInv, Prefix
<1>7. (Outstanding(p) => Outstanding(p)') /\ (Confirming(p) => Confirming(p)')
  <2>1. Outstanding(p) => Outstanding(p)'
    BY <1>1, <1>3, <1>5 DEF Outstanding
  <2>2. ~From(pending, p) => ~From(pending', p)
    BY <1>3
  <2>3. Confirming(p) => Confirming(p)'
    BY <1>1, <1>4, <2>2 DEF Confirming
  <2> QED
    BY <2>1, <2>3
<1> QED
  BY <1>1, <1>3, <1>4, <1>5, <1>6, <1>7 DEF PairInv

LEMMA SendInv ==
  ASSUME CatcherAssumption, IInv, TypeOK', NEW s \in Senders, Send(s)
  PROVE  PairInv(s)'
<1> USE DEF IInv, TypeOK
<1>1. /\ snd[s] = "send" /\ sent[s] < Len(script[s]) /\ Len(received[s]) = sent[s]
      /\ Quiet(s) /\ ~From(pending, s) /\ Prefix(s)
  BY DEF Send, PairInv
<1>2. /\ sent'[s] = sent[s] + 1 /\ snd'[s] = "wait" /\ sent[s] \in Nat
      /\ UNCHANGED <<script, received, ackPending, ack_received, current>>
  BY DEF Send
<1>3. SignalOf(s).task = script[s][sent[s] + 1]
  BY <1>1, SignalType
<1>4. pending' = pending \/ pending' = SignalOf(s)
  BY DEF Send
<1>5. From(pending', s) => pending'.task = script'[s][sent'[s]]
  BY <1>1, <1>2, <1>3, <1>4 DEF From
<1>6. Quiet(s)'
  <2>1. cat' = "ack" => cat = "ack"
    BY DEF Send
  <2> QED
    BY <1>1, <1>2, <2>1 DEF Quiet, Owed, From
<1>7. Outstanding(s)'
  BY <1>1, <1>2, <1>5, <1>6 DEF Outstanding
<1>8. Prefix(s)'
  <2>1. Len(script[s]) \in Nat /\ Len(received[s]) \in Nat
    OBVIOUS
  <2>2. sent'[s] <= Len(script'[s]) /\ Len(received'[s]) <= sent'[s]
    BY <1>1, <1>2, <2>1
  <2> QED
    BY <1>1, <1>2, <2>2 DEF Prefix
<1> QED
  BY <1>2, <1>7, <1>8 DEF PairInv

LEMMA ConfirmInv ==
  ASSUME CatcherAssumption, IInv, TypeOK', NEW s \in Senders,
         HandleAck(s) \/ LeaveLoop(s) \/ ResetFlag(s)
  PROVE  PairInv(s)'
<1> USE DEF IInv, TypeOK, catcherv
<1>1. UNCHANGED <<script, cat, pending, current, received, sent>>
  BY DEF HandleAck, LeaveLoop, ResetFlag
<1>2. Prefix(s)' /\ Prefix(s) /\ Owed(s)' = Owed(s)
  BY <1>1 DEF PairInv, Prefix, Owed, From
<1>3. CASE HandleAck(s)
  <2>1. snd[s] = "wait" /\ Confirming(s) /\ ~Owed(s) /\ ~ack_received[s] /\ sent[s] > 0
    BY <1>3 DEF HandleAck, PairInv, Quiet, Outstanding, Confirming
  <2>2. ~ackPending'[s] /\ snd'[s] \in {"wait", "killed"}
    BY <1>3, <2>1 DEF HandleAck
  <2>3. Confirming(s)'
    BY <1>1, <1>2, <2>1, <2>2 DEF Confirming, From
  <2> QED
    BY <1>1, <1>2, <2>1, <2>2, <2>3 DEF PairInv
<1>4. CASE LeaveLoop(s)
  <2>1. Confirming(s) /\ ack_received[s]
    BY <1>4 DEF LeaveLoop, Confirmed, PairInv, Quiet, Outstanding
  <2>2. ~ackPending[s] /\ ~Owed(s) /\ ~From(pending, s) /\ Len(received[s]) = sent[s]
    BY <2>1 DEF Confirming
  <2>3. snd'[s] = "reset" /\ ackPending' = ackPending
    BY <1>4 DEF LeaveLoop
  <2>4. ~From(pending, s)'
    BY <1>1, <2>2 DEF From
  <2> QED
    BY <1>1, <1>2, <2>2, <2>3, <2>4 DEF PairInv, From
<1>5. CASE ResetFlag(s)
  <2>1. ~ackPending[s] /\ ~Owed(s) /\ ~From(pending, s) /\ Len(received[s]) = sent[s]
    BY <1>5 DEF ResetFlag, PairInv
  <2>2. snd'[s] \in {"done", "send"} /\ ackPending' = ackPending /\ ~ack_received'[s]
    BY <1>5 DEF ResetFlag, FlagReset
  <2>3. Quiet(s)' /\ ~From(pending, s)'
    BY <1>1, <1>2, <2>1, <2>2 DEF Quiet, From
  <2> QED
    BY <1>1, <1>2, <2>1, <2>2, <2>3 DEF PairInv
<1> QED
  BY <1>3, <1>4, <1>5

LEMMA StepInv ==
  ASSUME CatcherAssumption, IInv, [Next]_vars
  PROVE  IInv'
<1>1. TypeOK'
  BY TypeStep DEF IInv
<1>2. CASE CatcherStep
  BY <1>1, <1>2, DeliverInv, SendAckInv, InstallOrWorkInv DEF CatcherStep
<1>3. ASSUME NEW s \in Senders, SenderStep(s)
      PROVE  IInv'
  <2>1. PairInv(s)'
    BY <1>1, <1>3, SendInv, ConfirmInv DEF SenderStep
  <2>2. ASSUME NEW p \in Senders \ {s}
        PROVE  PairInv(p)'
    BY <1>1, <1>3, <2>2, OthersKept
  <2>3. current' = current /\ (cat' \in {"ack", "work"} => cat' = cat)
    BY <1>3 DEF SenderStep, Send, HandleAck, LeaveLoop, ResetFlag, catcherv
  <2> QED
    BY <1>1, <2>1, <2>2, <2>3 DEF IInv
<1>4. CASE UNCHANGED vars
  <2>1. ASSUME NEW s \in Senders
        PROVE  PairInv(s)'
    BY <1>4 DEF IInv, PairInv, Prefix, Quiet, Owed, From, Outstanding, Confirming,
                vars, catcherv, senderv
  <2> QED
    BY <1>1, <1>4, <2>1 DEF IInv, vars, catcherv, senderv
<1> QED
  BY <1>2, <1>3, <1>4 DEF Next

-----------------------------------------------------------------------------
(* Theorems                                                                 *)

\* The invariant that follows one mode of every sender is kept by every step.
THEOREM Inductive == Spec => []IInv
<1> USE CatcherAssumption
<1>1. Init => IInv
  BY InitInv
<1>2. IInv /\ [Next]_vars => IInv'
  BY StepInv
<1> QED
  BY <1>1, <1>2, PTL DEF Spec

\* The variables keep their types for any senders and lists.
THEOREM TypeCorrect == Spec => []TypeOK
<1>1. IInv => TypeOK
  BY DEF IInv
<1> QED
  BY Inductive, <1>1, PTL

\* catcher.c:48-50: the catcher receives a prefix of each sender's list, in order.
THEOREM InOrder == Spec => []ReceivedInOrder
<1>1. IInv => ReceivedInOrder
  BY DEF IInv, PairInv, Prefix, ReceivedInOrder
<1> QED
  BY Inductive, <1>1, PTL

\* sender.c:42-45: a sender past its wait has had every mode received.
THEOREM DoneReceived == Spec => []DoneMeansReceived
<1>1. IInv => DoneMeansReceived
  BY DEF IInv, PairInv, DoneMeansReceived
<1> QED
  BY Inductive, <1>1, PTL

\* sender.c:45: the flag is never left set for the next mode.
THEOREM StaleAckFree == Spec => []NoStaleAck
<1>1. IInv => NoStaleAck
  BY DEF IInv, PairInv, Quiet, NoStaleAck
<1> QED
  BY Inductive, <1>1, PTL

-----------------------------------------------------------------------------
(* Each sender and the catcher implement a Handshake.                       *)
LEMMA StepShakesHands ==
  ASSUME CatcherAssumption, IInv, [Next]_vars, NEW s \in Senders
  PROVE  [Pair(s)!Next]_(Pair(s)!vars)
<1> USE DEF Pair!Next, Pair!vars, Pair!Send, Pair!Receive, Pair!Confirm, IInv, TypeOK
<1>1. CASE Deliver
  <2>1. PICK p \in Senders : pending.pid = p
    BY <1>1 DEF Deliver
  <2>2. received' = [received EXCEPT ![p] = Append(@, pending.task)]
        /\ UNCHANGED <<script, snd, sent>> /\ pending # NoSignal /\ cat = "idle"
    BY <1>1, <2>1 DEF Deliver, TaskOf, senderv
  <2>3. CASE p = s
    <3>1. Outstanding(s)
      BY <2>1, <2>2, <2>3 DEF PairInv, Confirming, From
    <3>2. /\ Len(received[s]) + 1 = sent[s] /\ pending.task = script[s][sent[s]]
          /\ received'[s] = Append(received[s], pending.task)
      BY <2>1, <2>2, <2>3, <3>1 DEF Outstanding, From
    <3>3. Len(received[s]) < sent[s]
      BY <3>2
    <3> QED
      BY <2>2, <3>2, <3>3
  <2>4. CASE p # s
    BY <2>2, <2>4
  <2> QED
    BY <2>3, <2>4
<1>2. CASE Install \/ SendAck \/ Work
  BY <1>2 DEF Install, SendAck, Work, senderv
<1>3. ASSUME NEW p \in Senders, Send(p)
      PROVE  [Pair(s)!Next]_(Pair(s)!vars)
  <2>1. /\ UNCHANGED <<script, received>>
        /\ snd' = [snd EXCEPT ![p] = "wait"] /\ sent' = [sent EXCEPT ![p] = @ + 1]
        /\ snd[p] = "send" /\ sent[p] < Len(script[p])
    BY <1>3 DEF Send
  <2> QED
    BY <2>1
<1>4. ASSUME NEW p \in Senders, HandleAck(p) \/ LeaveLoop(p)
      PROVE  [Pair(s)!Next]_(Pair(s)!vars)
  <2>1. /\ UNCHANGED <<script, received, sent>>
        /\ \/ snd' = snd
           \/ snd' = [snd EXCEPT ![p] = "killed"] /\ snd[p] \in {"wait", "reset"}
           \/ snd' = [snd EXCEPT ![p] = "reset"] /\ snd[p] = "wait"
    BY <1>4 DEF HandleAck, LeaveLoop, PairInv, Quiet, catcherv
  <2> QED
    BY <2>1
<1>5. ASSUME NEW p \in Senders, ResetFlag(p)
      PROVE  [Pair(s)!Next]_(Pair(s)!vars)
  <2>1. /\ UNCHANGED <<script, received, sent>> /\ snd[p] = "reset"
        /\ \/ snd' = [snd EXCEPT ![p] = "send"]
           \/ snd' = [snd EXCEPT ![p] = "done"]
        /\ Len(received[p]) = sent[p]
    BY <1>5 DEF ResetFlag, PairInv, catcherv
  <2> QED
    BY <2>1
<1>6. CASE UNCHANGED vars
  BY <1>6 DEF vars, catcherv, senderv
<1> QED
  BY <1>1, <1>2, <1>3, <1>4, <1>5, <1>6 DEF Next, CatcherStep, SenderStep

\* Every sender and the catcher, whatever the other senders do to them, behave as
\* the two ends of a Handshake (polecenia.md:26, 38).
THEOREM Implements == Spec => PairsShakeHands
<1> USE CatcherAssumption
<1>1. Init => \A s \in Senders : Pair(s)!Init
  BY DEF Init, Pair!Init
<1>2. IInv /\ [Next]_vars => [\A s \in Senders : [Pair(s)!Next]_(Pair(s)!vars)]_vars
  BY StepShakesHands
<1> QED
  BY <1>1, <1>2, Inductive, PTL DEF Spec, PairsShakeHands
=============================================================================
