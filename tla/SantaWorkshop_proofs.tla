----------------------- MODULE SantaWorkshop_proofs -----------------------
(***************************************************************************)
(* Proofs about lab09/zad01/main.c for any number of elves and reindeer    *)
(* and any group sizes.  The inductive invariant is TypeOK, the sections   *)
(* of the four mutexes, what the elves queue holds, and the wakeup that is *)
(* on its way whenever Santa is about to sleep on a complete group.        *)
(***************************************************************************)
EXTENDS SantaWorkshop, TLAPS

\* An elf about to queue (line 93) has seen a free place, and only Santa or an
\* elf holding elvesWithProblem_mutex can have changed the counter since.
QueueingHasPlace == \A e \in Elves : pc[e] = "queueing" => elvesWithProblem < ELVES_NEEDED

\* The counted places hold elves, and Santa in the shop has met a full queue.
QueueHoldsElves ==
  /\ \A p \in Places : p < elvesWithProblem => elvesQueue[p] \in Elves
  /\ pc[Santa] = "fixing" => QueueFull

IInv == /\ TypeOK /\ SectionHoldsMutex
        /\ ElvesAtMostNeeded /\ QueueingHasPlace /\ QueueHoldsElves
        /\ NoMissedWakeup

-----------------------------------------------------------------------------
(* A step by thread t that moves no other thread across the boundary of a   *)
(* section keeps the sections in step with the mutexes if, for every mutex, *)
(* t leaves it alone, takes it when free and enters, or leaves and frees it.*)
LEMMA SectionStep ==
  ASSUME SantaAssumption, TypeOK, SectionHoldsMutex, NEW t \in Threads,
         \A u \in Threads \ {t}, k \in Mutexes : Inside(pc'[u], k) <=> Inside(pc[u], k),
         \A k \in Mutexes :
           \/ owner'[k] = owner[k] /\ (Inside(pc'[t], k) <=> Inside(pc[t], k))
           \/ owner[k] = NoOne /\ owner'[k] = t /\ Inside(pc'[t], k)
           \/ Inside(pc[t], k) /\ owner'[k] = NoOne /\ ~Inside(pc'[t], k)
  PROVE  SectionHoldsMutex'
<1> SUFFICES ASSUME NEW k \in Mutexes, NEW u \in Threads
             PROVE  owner'[k] = u <=> Inside(pc'[u], k)
  BY DEF SectionHoldsMutex, Inside
<1>1. NoOne \notin Threads
  BY DEF SantaAssumption, Threads
<1>2. /\ owner[k] = t <=> Inside(pc[t], k)
      /\ owner[k] = u <=> Inside(pc[u], k)
  BY DEF SectionHoldsMutex
<1>3. CASE u = t
  BY <1>1, <1>2, <1>3
<1>4. CASE u # t
  BY <1>1, <1>2, <1>4
<1> QED
  BY <1>3, <1>4

(* The type invariant alone is inductive. *)
LEMMA TypeStep ==
  ASSUME SantaAssumption, TypeOK, [Next]_vars
  PROVE  TypeOK'
<1> USE DEF TypeOK, Threads, Mutexes, SantaLabels, ElfLabels, ReindeerLabels, Goto, counters
<1> USE SantaAssumption DEF SantaAssumption
<1>1. CASE running /\ SantaStep
  <2>1. CASE SantaLockSleep \/ SantaReacquire \/ SantaLockElves \/ SantaLockReindeer
    BY <2>1 DEF SantaLockSleep, SantaReacquire, SantaLockElves, SantaLockReindeer, Lock
  <2>2. CASE SantaCheckReindeer \/ SantaCheckElves \/ SantaSleep
    BY <2>2 DEF SantaCheckReindeer, SantaCheckElves, SantaSleep, Unlock, AwakeAt
  <2>3. CASE SantaMeetElves \/ SantaMeetReindeer
    BY <2>3 DEF SantaMeetElves, SantaMeetReindeer, Unlock
  <2>4. CASE SantaFix
    BY <2>4 DEF SantaFix, Unlock, ClearedQueue, CountAfterFix
  <2>5. CASE SantaDeliver
    BY <2>5 DEF SantaDeliver
  <2>6. CASE SantaAnnounce
    BY <2>6 DEF SantaAnnounce, Unlock
  <2> QED
    BY <1>1, <2>1, <2>2, <2>3, <2>4, <2>5, <2>6 DEF SantaStep
<1>2. CASE running /\ \E e \in Elves : ElfStep(e)
  <2> PICK e \in Elves : ElfStep(e)
    BY <1>2
  <2>1. CASE ElfReport(e) \/ ElfLockSleep(e)
    BY <2>1 DEF ElfReport, ElfLockSleep, LockSleep, Lock
  <2>2. CASE ElfCheck(e)
    BY <2>2 DEF ElfCheck, Unlock
  <2>3. CASE ElfQueue(e)
    <3>1. elvesQueue' \in [Places -> Elves \union {NoOne}]
      BY <2>3 DEF ElfQueue
    <3> QED
      BY <2>3, <3>1 DEF ElfQueue
  <2>4. CASE ElfSignal(e)
    BY <2>4 DEF ElfSignal, Signal, Unlock
  <2> QED
    BY <2>1, <2>2, <2>3, <2>4 DEF ElfStep
<1>3. CASE running /\ \E r \in Reindeer : ReindeerStep(r)
  <2> PICK r \in Reindeer : ReindeerStep(r)
    BY <1>3
  <2>1. CASE ReindeerLockWait(r) \/ ReindeerReacquire(r) \/ ReindeerReturn(r) \/ ReindeerLockSleep(r)
    BY <2>1 DEF ReindeerLockWait, ReindeerReacquire, ReindeerReturn, ReindeerLockSleep,
                LockSleep, Lock
  <2>2. CASE ReindeerCheck(r) \/ ReindeerWait(r)
    BY <2>2 DEF ReindeerCheck, ReindeerWait, Unlock
  <2>3. CASE ReindeerCount(r)
    BY <2>3 DEF ReindeerCount
  <2>4. CASE ReindeerSignal(r)
    BY <2>4 DEF ReindeerSignal, Signal, Unlock
  <2> QED
    BY <2>1, <2>2, <2>3, <2>4 DEF ReindeerStep
<1>4. CASE running /\ SpuriousWakeup
  BY <1>4 DEF SpuriousWakeup, SantaSpuriousWakeup, ReindeerSpuriousWakeup
<1>5. CASE UNCHANGED vars
  BY <1>5 DEF vars
<1> QED
  BY <1>1, <1>2, <1>3, <1>4, <1>5 DEF Next

(* Mutual exclusion is inductive on top of it. *)
LEMMA MutexStep ==
  ASSUME SantaAssumption, TypeOK, SectionHoldsMutex, [Next]_vars
  PROVE  SectionHoldsMutex'
<1> USE DEF TypeOK, Threads, Mutexes, SantaLabels, ElfLabels, ReindeerLabels, Goto, Inside
<1> USE SantaAssumption DEF SantaAssumption
<1>1. CASE running /\ SantaStep
  <2>1. CASE SantaLockSleep \/ SantaReacquire \/ SantaLockElves \/ SantaLockReindeer
    BY <2>1, SectionStep, Santa \in Threads
       DEF SantaLockSleep, SantaReacquire, SantaLockElves, SantaLockReindeer, Lock
  <2>2. CASE SantaCheckReindeer \/ SantaCheckElves \/ SantaSleep
    BY <2>2, SectionStep DEF SantaCheckReindeer, SantaCheckElves, SantaSleep, Unlock, AwakeAt
  <2>3. CASE SantaMeetElves \/ SantaMeetReindeer
    BY <2>3, SectionStep DEF SantaMeetElves, SantaMeetReindeer, Unlock
  <2>4. CASE SantaFix
    BY <2>4, SectionStep DEF SantaFix, Unlock
  <2>5. CASE SantaDeliver
    BY <2>5, SectionStep DEF SantaDeliver
  <2>6. CASE SantaAnnounce
    BY <2>6, SectionStep DEF SantaAnnounce, Unlock
  <2> QED
    BY <1>1, <2>1, <2>2, <2>3, <2>4, <2>5, <2>6 DEF SantaStep
<1>2. CASE running /\ \E e \in Elves : ElfStep(e)
  <2> PICK e \in Elves : ElfStep(e)
    BY <1>2
  <2>1. CASE ElfReport(e) \/ ElfLockSleep(e)
    BY <2>1, SectionStep DEF ElfReport, ElfLockSleep, LockSleep, Lock
  <2>2. CASE ElfCheck(e)
    BY <2>2, SectionStep DEF ElfCheck, Unlock
  <2>3. CASE ElfQueue(e)
    BY <2>3, SectionStep DEF ElfQueue
  <2>4. CASE ElfSignal(e)
    BY <2>4, SectionStep DEF ElfSignal, Signal, Unlock
  <2> QED
    BY <2>1, <2>2, <2>3, <2>4 DEF ElfStep
<1>3. CASE running /\ \E r \in Reindeer : ReindeerStep(r)
  <2> PICK r \in Reindeer : ReindeerStep(r)
    BY <1>3
  <2>1. CASE ReindeerLockWait(r) \/ ReindeerReacquire(r) \/ ReindeerReturn(r) \/ ReindeerLockSleep(r)
    BY <2>1, SectionStep
       DEF ReindeerLockWait, ReindeerReacquire, ReindeerReturn, ReindeerLockSleep, LockSleep, Lock
  <2>2. CASE ReindeerCheck(r) \/ ReindeerWait(r)
    BY <2>2, SectionStep DEF ReindeerCheck, ReindeerWait, Unlock
  <2>3. CASE ReindeerCount(r)
    BY <2>3, SectionStep DEF ReindeerCount
  <2>4. CASE ReindeerSignal(r)
    BY <2>4, SectionStep DEF ReindeerSignal, Signal, Unlock
  <2> QED
    BY <2>1, <2>2, <2>3, <2>4 DEF ReindeerStep
<1>4. CASE running /\ SpuriousWakeup
  <2>1. CASE SantaSpuriousWakeup
    BY <2>1, SectionStep DEF SantaSpuriousWakeup
  <2>2. ASSUME NEW r \in Reindeer, ReindeerSpuriousWakeup(r)
        PROVE  SectionHoldsMutex'
    BY <2>2, SectionStep DEF ReindeerSpuriousWakeup
  <2> QED
    BY <1>4, <2>1, <2>2 DEF SpuriousWakeup
<1>5. CASE UNCHANGED vars
  BY <1>5 DEF vars, SectionHoldsMutex
<1> QED
  BY <1>1, <1>2, <1>3, <1>4, <1>5 DEF Next

(* The queue: only an elf and Santa change it, and elvesWithProblem_mutex   *)
(* keeps them from changing it between each other's check and update.       *)
QueueInv == ElvesAtMostNeeded /\ QueueingHasPlace /\ QueueHoldsElves

LEMMA QueueStep ==
  ASSUME SantaAssumption, TypeOK, SectionHoldsMutex, QueueInv, [Next]_vars
  PROVE  QueueInv'
<1> USE DEF TypeOK, Threads, SantaLabels, ElfLabels, ReindeerLabels, Goto, counters, QueueInv,
            ElvesAtMostNeeded, QueueingHasPlace, QueueHoldsElves, QueueFull, Places
<1> USE SantaAssumption DEF SantaAssumption
<1>1. CASE running /\ SantaStep
  <2>1. CASE SantaLockSleep \/ SantaReacquire \/ SantaLockElves \/ SantaLockReindeer
    BY <2>1 DEF SantaLockSleep, SantaReacquire, SantaLockElves, SantaLockReindeer
  <2>2. CASE SantaCheckReindeer \/ SantaCheckElves \/ SantaSleep
    BY <2>2 DEF SantaCheckReindeer, SantaCheckElves, SantaSleep, AwakeAt
  <2>3. CASE SantaMeetElves \/ SantaMeetReindeer
    BY <2>3 DEF SantaMeetElves, SantaMeetReindeer
  <2>4. CASE SantaFix
    BY <2>4 DEF SantaFix, CountAfterFix
  <2>5. CASE SantaDeliver \/ SantaAnnounce
    BY <2>5 DEF SantaDeliver, SantaAnnounce
  <2> QED
    BY <1>1, <2>1, <2>2, <2>3, <2>4, <2>5 DEF SantaStep
<1>2. CASE running /\ \E e \in Elves : ElfStep(e)
  <2> PICK e \in Elves : ElfStep(e)
    BY <1>2
  <2>1. CASE ElfReport(e) \/ ElfLockSleep(e)
    BY <2>1 DEF ElfReport, ElfLockSleep, LockSleep
  <2>2. CASE ElfCheck(e)
    BY <2>2 DEF ElfCheck, PlaceLeft
  <2>3. CASE ElfQueue(e)
    <3>1. \A t \in Threads : Inside(pc[t], "elves") => t = e
      BY <2>3 DEF ElfQueue, SectionHoldsMutex, Inside, Mutexes
    <3>2. \A f \in Elves : pc'[f] # "queueing"
      BY <2>3, <3>1 DEF ElfQueue, Inside
    <3>3. pc'[Santa] # "fixing"
      BY <2>3, <3>1 DEF ElfQueue, Inside
    <3>4. elvesWithProblem < ELVES_NEEDED /\ elvesWithProblem' = elvesWithProblem + 1
      BY <2>3 DEF ElfQueue
    <3>5. \A p \in Places : p < elvesWithProblem' => elvesQueue'[p] \in Elves
      BY <2>3, <3>4 DEF ElfQueue
    <3> QED
      BY <3>2, <3>3, <3>4, <3>5
  <2>4. CASE ElfSignal(e)
    BY <2>4 DEF ElfSignal, Signal
  <2> QED
    BY <2>1, <2>2, <2>3, <2>4 DEF ElfStep
<1>3. CASE running /\ \E r \in Reindeer : ReindeerStep(r)
  <2>1. PICK r \in Reindeer : ReindeerStep(r)
    BY <1>3
  <2>2. /\ UNCHANGED <<elvesWithProblem, elvesQueue>>
        /\ \A e \in Elves : pc'[e] = pc[e]
        /\ pc'[Santa] = pc[Santa] \/ pc'[Santa] = "woken"
    BY <2>1 DEF ReindeerStep, ReindeerLockWait, ReindeerReacquire, ReindeerReturn,
      ReindeerLockSleep, LockSleep, ReindeerCheck, ReindeerWait, ReindeerCount,
      ReindeerSignal, Signal
  <2> QED
    BY <2>2
<1>4. CASE running /\ SpuriousWakeup
  <2>1. /\ UNCHANGED <<elvesWithProblem, elvesQueue>>
        /\ \A e \in Elves : pc'[e] = pc[e]
        /\ pc'[Santa] = pc[Santa] \/ pc'[Santa] = "woken"
    BY <1>4 DEF SpuriousWakeup, SantaSpuriousWakeup, ReindeerSpuriousWakeup
  <2> QED
    BY <2>1
<1>5. CASE UNCHANGED vars
  BY <1>5 DEF vars
<1> QED
  BY <1>1, <1>2, <1>3, <1>4, <1>5 DEF Next

(* The wakeup: while Santa decides to sleep he holds santa_sleep_mutex, so  *)
(* the thread that completes a group signals before he looks or after he is *)
(* waiting, never in between.                                               *)
LEMMA WakeupStep ==
  ASSUME SantaAssumption, TypeOK, SectionHoldsMutex, NoMissedWakeup, [Next]_vars
  PROVE  NoMissedWakeup'
<1> USE DEF TypeOK, Threads, SantaLabels, ElfLabels, ReindeerLabels, Goto, counters,
            NoMissedWakeup, SignalComing, QueueFull, AllReindeerBack
<1> USE SantaAssumption DEF SantaAssumption
<1>1. CASE running /\ SantaStep
  <2>1. CASE SantaLockSleep \/ SantaReacquire \/ SantaLockElves \/ SantaLockReindeer
    BY <2>1 DEF SantaLockSleep, SantaReacquire, SantaLockElves, SantaLockReindeer
  <2>2. CASE SantaCheckReindeer
    BY <2>2 DEF SantaCheckReindeer, AwakeAt
  <2>3. CASE SantaCheckElves \/ SantaSleep
    BY <2>3 DEF SantaCheckElves, SantaSleep, AwakeAt
  <2>4. CASE SantaMeetElves \/ SantaMeetReindeer \/ SantaFix \/ SantaDeliver \/ SantaAnnounce
    BY <2>4 DEF SantaMeetElves, SantaMeetReindeer, SantaFix, SantaDeliver, SantaAnnounce
  <2> QED
    BY <1>1, <2>1, <2>2, <2>3, <2>4 DEF SantaStep
<1>2. CASE running /\ \E e \in Elves : ElfStep(e)
  <2> PICK e \in Elves : ElfStep(e)
    BY <1>2
  <2>1. CASE ElfReport(e) \/ ElfCheck(e) \/ ElfLockSleep(e)
    BY <2>1 DEF ElfReport, ElfCheck, ElfLockSleep, LockSleep
  <2>2. CASE ElfQueue(e)
    BY <2>2 DEF ElfQueue
  <2>3. CASE ElfSignal(e)
    <3>1. pc[Santa] # "goToSleep"
      BY <2>3 DEF ElfSignal, Signal, SectionHoldsMutex, Inside, Mutexes
    <3> QED
      BY <2>3, <3>1 DEF ElfSignal, Signal
  <2> QED
    BY <2>1, <2>2, <2>3 DEF ElfStep
<1>3. CASE running /\ \E r \in Reindeer : ReindeerStep(r)
  <2> PICK r \in Reindeer : ReindeerStep(r)
    BY <1>3
  <2>1. CASE ReindeerLockWait(r) \/ ReindeerReacquire(r) \/ ReindeerReturn(r) \/ ReindeerLockSleep(r)
    BY <2>1 DEF ReindeerLockWait, ReindeerReacquire, ReindeerReturn, ReindeerLockSleep, LockSleep
  <2>2. CASE ReindeerCheck(r) \/ ReindeerWait(r)
    BY <2>2 DEF ReindeerCheck, ReindeerWait
  <2>3. CASE ReindeerCount(r)
    BY <2>3 DEF ReindeerCount
  <2>4. CASE ReindeerSignal(r)
    <3>1. pc[Santa] \notin {"goToSleep", "checkElves"}
      BY <2>4 DEF ReindeerSignal, Signal, SectionHoldsMutex, Inside, Mutexes
    <3> QED
      BY <2>4, <3>1 DEF ReindeerSignal, Signal
  <2> QED
    BY <2>1, <2>2, <2>3, <2>4 DEF ReindeerStep
<1>4. CASE running /\ SpuriousWakeup
  BY <1>4 DEF SpuriousWakeup, SantaSpuriousWakeup, ReindeerSpuriousWakeup
<1>5. CASE UNCHANGED vars
  BY <1>5 DEF vars
<1> QED
  BY <1>1, <1>2, <1>3, <1>4, <1>5 DEF Next

-----------------------------------------------------------------------------
LEMMA InitIInv ==
  ASSUME SantaAssumption, Init
  PROVE  IInv
<1> USE DEF Init, Threads, Places, Mutexes, SantaAssumption
<1>1. TypeOK
  BY DEF TypeOK, SantaLabels, ElfLabels, ReindeerLabels
<1>2. SectionHoldsMutex
  BY DEF SectionHoldsMutex, Inside
<1>3. ElvesAtMostNeeded /\ QueueingHasPlace /\ QueueHoldsElves /\ NoMissedWakeup
  BY DEF ElvesAtMostNeeded, QueueingHasPlace, QueueHoldsElves, NoMissedWakeup
<1> QED
  BY <1>1, <1>2, <1>3 DEF IInv

\* The invariant holds in every reachable state.
THEOREM Inductive == Spec => []IInv
<1>1. Init => IInv
  BY InitIInv, SantaAssumption
<1>2. IInv /\ [Next]_vars => IInv'
  BY TypeStep, MutexStep, QueueStep, WakeupStep, SantaAssumption DEF IInv, QueueInv
<1> QED
  BY <1>1, <1>2, PTL DEF Spec

\* The variables keep their types for groups of any size.
THEOREM TypeCorrect == Spec => []TypeOK
<1>1. IInv => TypeOK
  BY DEF IInv
<1> QED
  BY <1>1, Inductive, PTL

\* A mutex is held by exactly the thread inside its section: no two threads are
\* ever in a section of the same mutex.
THEOREM MutualExclusion == Spec => []SectionHoldsMutex
<1>1. IInv => SectionHoldsMutex
  BY DEF IInv
<1> QED
  BY <1>1, Inductive, PTL

\* The elves never overrun elvesQueue (main.c:87-94).
THEOREM QueueBounded == Spec => []ElvesAtMostNeeded
<1>1. IInv => ElvesAtMostNeeded
  BY DEF IInv
<1> QED
  BY <1>1, Inductive, PTL

\* Santa never sleeps through the completion of a group (main.c:41-42, 98-103,
\* 123-128).
THEOREM WakeupNotMissed == Spec => []NoMissedWakeup
<1>1. IInv => NoMissedWakeup
  BY DEF IInv
<1> QED
  BY <1>1, Inductive, PTL

\* Santa only ever meets a queue full of elves (main.c:49-51).
THEOREM MeetsElves == Spec => []SantaMeetsQueuedElves
<1>1. IInv => SantaMeetsQueuedElves
  BY SantaAssumption DEF IInv, SantaAssumption, QueueHoldsElves, SantaMeetsQueuedElves, QueueFull, Places
<1> QED
  BY <1>1, Inductive, PTL

\* Both, as the run checks them: the queue is never overrun or met half empty.
THEOREM QueueKept == Spec => []QueueSound
<1> QED
  BY QueueBounded, MeetsElves, PTL DEF QueueSound

\* A full queue of elves is met before the reindeer (polecenie.md:10).
THEOREM ElvesGoFirst == Spec => ElvesFirst
<1> DEFINE Waking == {"checkReindeer", "checkElves", "lockElves", "meetElves"}
           OnWayToElves == {"checkElves", "lockElves", "meetElves", "fixing"}
<1>1. ASSUME IInv, [Next]_vars, pc[Santa] \in Waking, QueueFull, pc'[Santa] # pc[Santa]
      PROVE  pc'[Santa] \in OnWayToElves
  <2> USE SantaAssumption, <1>1
      DEF SantaAssumption, IInv, TypeOK, Threads, Goto, QueueFull
  <2>1. CASE SantaStep
    BY <2>1 DEF SantaStep, SantaLockSleep, SantaReacquire, SantaLockElves, SantaLockReindeer,
       SantaCheckReindeer, SantaCheckElves, SantaSleep, SantaMeetElves, SantaMeetReindeer,
       SantaFix, SantaDeliver, SantaAnnounce, AwakeAt
  <2>2. ASSUME NEW e \in Elves, ElfStep(e) PROVE FALSE
    BY <2>2 DEF ElfStep, ElfReport, ElfCheck, ElfQueue, ElfLockSleep, LockSleep, ElfSignal, Signal
  <2>3. ASSUME NEW r \in Reindeer, ReindeerStep(r) PROVE FALSE
    BY <2>3 DEF ReindeerStep, ReindeerLockWait, ReindeerReacquire, ReindeerReturn,
       ReindeerLockSleep, LockSleep, ReindeerCheck, ReindeerWait, ReindeerCount,
       ReindeerSignal, Signal
  <2>4. ~SpuriousWakeup /\ ~UNCHANGED vars
    BY DEF SpuriousWakeup, SantaSpuriousWakeup, ReindeerSpuriousWakeup, vars
  <2> QED
    BY <2>1, <2>2, <2>3, <2>4 DEF Next
<1> QED
  BY <1>1, Inductive, PTL DEF ElvesFirst, Spec
=============================================================================
