--------------------------- MODULE SantaWorkshop ---------------------------
(***************************************************************************)
(* lab09/zad01/main.c: Santa, the elves and the reindeer are POSIX threads *)
(* that share counters, four mutexes and two condition variables.          *)
(* A thread's pc names the next thing it does.  A thread waiting on a      *)
(* condition variable has pc "sleeping" (Santa) or "waiting" (a reindeer); *)
(* a broadcast moves it to a label where it re-acquires the mutex.  The    *)
(* counters are read outside their mutex by the wait loops (lines 41, 113),*)
(* so every such read is a step of its own; an aligned int is read whole.  *)
(***************************************************************************)
EXTENDS Naturals

CONSTANTS
  Santa,                     \* the santa thread
  Elves, Reindeer,           \* the other threads, ELVES_NUMBER and REINDEER_NUMBER of them
  NoOne,                     \* a free mutex, an empty place in elvesQueue
  ELVES_NEEDED, REINDEERS_NEEDED, PRESENTS_TO_BE_DELIVERED,
  CameBackBound              \* model bound: reindeer stay away once this many are counted

ASSUME SantaAssumption ==
  /\ ELVES_NEEDED \in Nat \ {0} /\ REINDEERS_NEEDED \in Nat \ {0}
  /\ PRESENTS_TO_BE_DELIVERED \in Nat \ {0} /\ CameBackBound \in Nat
  /\ Santa \notin Elves \union Reindeer /\ Elves \intersect Reindeer = {}
  /\ NoOne \notin {Santa} \union Elves \union Reindeer

VARIABLES
  pc,                  \* where each thread is
  owner,               \* which thread holds each mutex
  elvesWithProblem, elvesQueue, reindeersCameBack, presentsDelivered,
  running              \* FALSE once exit(0) has ended every thread

vars == <<pc, owner, elvesWithProblem, elvesQueue, reindeersCameBack,
          presentsDelivered, running>>

Threads == {Santa} \union Elves \union Reindeer
Mutexes == {"santa_sleep", "elves", "cameBack", "reindeersWait"}
Places  == 0 .. ELVES_NEEDED - 1

SantaLabels == {"lockSleep", "checkReindeer", "checkElves", "goToSleep", "sleeping",
                "woken", "lockElves", "meetElves", "fixing", "lockReindeer",
                "meetReindeer", "delivering", "announcing"}
ElfLabels == {"working", "reporting", "queueing", "elfLockSleep", "elfSignal"}
ReindeerLabels == {"lockWait", "checkBack", "goToWait", "waiting", "reindeerWoken",
                   "vacation", "counting", "reindeerLockSleep", "reindeerSignal"}

Init ==
  /\ pc = [t \in Threads |-> IF t = Santa THEN "lockSleep"
                             ELSE IF t \in Elves THEN "working" ELSE "lockWait"]
  /\ owner = [m \in Mutexes |-> NoOne]
  /\ elvesWithProblem = 0
  /\ elvesQueue = [p \in Places |-> NoOne]
  /\ reindeersCameBack = 0
  /\ presentsDelivered = 0
  /\ running = TRUE

-----------------------------------------------------------------------------
(* pthread mutexes and control flow *)

Goto(t, from, to) == pc[t] = from /\ pc' = [pc EXCEPT ![t] = to]

Lock(t, m) == owner[m] = NoOne /\ owner' = [owner EXCEPT ![m] = t]

Unlock(ms) == owner' = [m \in Mutexes |-> IF m \in ms THEN NoOne ELSE owner[m]]

counters == <<elvesWithProblem, elvesQueue, reindeersCameBack, presentsDelivered>>

-----------------------------------------------------------------------------
(* Santa *)

AllReindeerBack == reindeersCameBack = REINDEERS_NEEDED
QueueFull == elvesWithProblem = ELVES_NEEDED

\* Mutant: on waking Santa goes to the reindeer first.
AwakeReindeerFirst == "lockReindeer"
AwakeAt == "lockElves"

SantaLockSleep ==
  /\ Goto(Santa, "lockSleep", "checkReindeer") /\ Lock(Santa, "santa_sleep")
  /\ UNCHANGED <<counters, running>>

\* The two reads of the wait condition, left to right; leaving the loop unlocks.
SantaCheckReindeer ==
  /\ \/ AllReindeerBack /\ Goto(Santa, "checkReindeer", AwakeAt) /\ Unlock({"santa_sleep"})
     \/ ~AllReindeerBack /\ Goto(Santa, "checkReindeer", "checkElves") /\ UNCHANGED owner
  /\ UNCHANGED <<counters, running>>

SantaCheckElves ==
  /\ \/ QueueFull /\ Goto(Santa, "checkElves", AwakeAt) /\ Unlock({"santa_sleep"})
     \/ ~QueueFull /\ Goto(Santa, "checkElves", "goToSleep") /\ UNCHANGED owner
  /\ UNCHANGED <<counters, running>>

\* pthread_cond_wait: start waiting and release the mutex in one step ...
SantaSleep ==
  /\ Goto(Santa, "goToSleep", "sleeping") /\ Unlock({"santa_sleep"})
  /\ UNCHANGED <<counters, running>>

\* ... be woken without a broadcast, as POSIX allows ...
SantaSpuriousWakeup ==
  Goto(Santa, "sleeping", "woken") /\ UNCHANGED <<owner, counters, running>>

\* ... and re-acquire the mutex before the condition is read again.
SantaReacquire ==
  /\ Goto(Santa, "woken", "checkReindeer") /\ Lock(Santa, "santa_sleep")
  /\ UNCHANGED <<counters, running>>

SantaLockElves ==
  /\ Goto(Santa, "lockElves", "meetElves") /\ Lock(Santa, "elves")
  /\ UNCHANGED <<counters, running>>

SantaMeetElves ==
  /\ \/ QueueFull /\ Goto(Santa, "meetElves", "fixing") /\ UNCHANGED owner
     \/ ~QueueFull /\ Goto(Santa, "meetElves", "lockReindeer") /\ Unlock({"elves"})
  /\ UNCHANGED <<counters, running>>

\* Mutants: the clearing loop runs once too often; the counter is not reset.
ClearedOnceTooOften == [p \in 0 .. ELVES_NEEDED |-> NoOne]
ClearedQueue == [p \in Places |-> NoOne]
CountNotReset == elvesWithProblem
CountAfterFix == 0

SantaFix ==
  /\ Goto(Santa, "fixing", "lockReindeer") /\ Unlock({"elves"})
  /\ elvesQueue' = ClearedQueue
  /\ elvesWithProblem' = CountAfterFix
  /\ UNCHANGED <<reindeersCameBack, presentsDelivered, running>>

SantaLockReindeer ==
  /\ Goto(Santa, "lockReindeer", "meetReindeer") /\ Lock(Santa, "cameBack")
  /\ UNCHANGED <<counters, running>>

SantaMeetReindeer ==
  /\ \/ AllReindeerBack /\ Goto(Santa, "meetReindeer", "delivering") /\ UNCHANGED owner
     \/ ~AllReindeerBack /\ Goto(Santa, "meetReindeer", "lockSleep") /\ Unlock({"cameBack"})
  /\ UNCHANGED <<counters, running>>

\* The last delivery calls exit(0), which stops every thread where it is.
SantaDeliver ==
  /\ Goto(Santa, "delivering", "announcing")
  /\ reindeersCameBack' = 0
  /\ presentsDelivered' = presentsDelivered + 1
  /\ running' = (presentsDelivered' # PRESENTS_TO_BE_DELIVERED)
  /\ UNCHANGED <<owner, elvesWithProblem, elvesQueue>>

\* Broadcast on reindeerWait_cond, then unlock reindeersCameBack_mutex.
SantaAnnounce ==
  /\ pc[Santa] = "announcing"
  /\ pc' = [t \in Threads |-> IF t = Santa THEN "lockSleep"
                              ELSE IF pc[t] = "waiting" THEN "reindeerWoken" ELSE pc[t]]
  /\ Unlock({"cameBack"})
  /\ UNCHANGED <<counters, running>>

SantaStep ==
  \/ SantaLockSleep \/ SantaCheckReindeer \/ SantaCheckElves \/ SantaSleep
  \/ SantaReacquire \/ SantaLockElves \/ SantaMeetElves \/ SantaFix
  \/ SantaLockReindeer \/ SantaMeetReindeer \/ SantaDeliver \/ SantaAnnounce

-----------------------------------------------------------------------------
(* An elf and a reindeer both wake Santa from inside their own mutex: lock  *)
(* santa_sleep, broadcast when the group is complete, unlock both.          *)

LockSleep(t, from, to) ==
  /\ Goto(t, from, to) /\ Lock(t, "santa_sleep")
  /\ UNCHANGED <<counters, running>>

\* Mutant: the waker broadcasts without taking santa_sleep_mutex.
ElfSkipsSleepMutex(e) ==
  Goto(e, "elfLockSleep", "elfSignal") /\ UNCHANGED <<owner, counters, running>>

Signal(t, complete, from, to, own) ==
  /\ pc[t] = from
  /\ pc' = [pc EXCEPT ![t] = to,
                      ![Santa] = IF complete /\ @ = "sleeping" THEN "woken" ELSE @]
  /\ Unlock({"santa_sleep", own})
  /\ UNCHANGED <<counters, running>>

ElfReport(e) ==
  /\ Goto(e, "working", "reporting") /\ Lock(e, "elves")
  /\ UNCHANGED <<counters, running>>

\* Mutant: the elf lets one elf too many into the queue.
PlaceLeftOffByOne == elvesWithProblem <= ELVES_NEEDED
PlaceLeft == elvesWithProblem # ELVES_NEEDED

ElfCheck(e) ==
  /\ \/ PlaceLeft /\ Goto(e, "reporting", "queueing") /\ UNCHANGED owner
     \/ ~PlaceLeft /\ Goto(e, "reporting", "working") /\ Unlock({"elves"})
  /\ UNCHANGED <<counters, running>>

ElfQueue(e) ==
  /\ Goto(e, "queueing", "elfLockSleep")
  /\ elvesQueue' = [elvesQueue EXCEPT ![elvesWithProblem] = e]
  /\ elvesWithProblem' = elvesWithProblem + 1
  /\ UNCHANGED <<owner, reindeersCameBack, presentsDelivered, running>>

ElfLockSleep(e) == LockSleep(e, "elfLockSleep", "elfSignal")
ElfSignal(e) == Signal(e, QueueFull, "elfSignal", "working", "elves")

ElfStep(e) == \/ ElfReport(e) \/ ElfCheck(e) \/ ElfQueue(e)
              \/ ElfLockSleep(e) \/ ElfSignal(e)

-----------------------------------------------------------------------------
(* Reindeer *)

ReindeerLockWait(r) ==
  /\ Goto(r, "lockWait", "checkBack") /\ Lock(r, "reindeersWait")
  /\ UNCHANGED <<counters, running>>

ReindeerCheck(r) ==
  /\ \/ AllReindeerBack /\ Goto(r, "checkBack", "goToWait") /\ UNCHANGED owner
     \/ ~AllReindeerBack /\ Goto(r, "checkBack", "vacation") /\ Unlock({"reindeersWait"})
  /\ UNCHANGED <<counters, running>>

ReindeerWait(r) ==
  /\ Goto(r, "goToWait", "waiting") /\ Unlock({"reindeersWait"})
  /\ UNCHANGED <<counters, running>>

ReindeerSpuriousWakeup(r) ==
  Goto(r, "waiting", "reindeerWoken") /\ UNCHANGED <<owner, counters, running>>

ReindeerReacquire(r) ==
  /\ Goto(r, "reindeerWoken", "checkBack") /\ Lock(r, "reindeersWait")
  /\ UNCHANGED <<counters, running>>

ReindeerReturn(r) ==
  /\ reindeersCameBack < CameBackBound
  /\ Goto(r, "vacation", "counting") /\ Lock(r, "cameBack")
  /\ UNCHANGED <<counters, running>>

ReindeerCount(r) ==
  /\ Goto(r, "counting", "reindeerLockSleep")
  /\ reindeersCameBack' = reindeersCameBack + 1
  /\ UNCHANGED <<owner, elvesWithProblem, elvesQueue, presentsDelivered, running>>

ReindeerLockSleep(r) == LockSleep(r, "reindeerLockSleep", "reindeerSignal")
ReindeerSignal(r) == Signal(r, AllReindeerBack, "reindeerSignal", "lockWait", "cameBack")

ReindeerStep(r) ==
  \/ ReindeerLockWait(r) \/ ReindeerCheck(r) \/ ReindeerWait(r)
  \/ ReindeerReacquire(r) \/ ReindeerReturn(r) \/ ReindeerCount(r)
  \/ ReindeerLockSleep(r) \/ ReindeerSignal(r)

-----------------------------------------------------------------------------
SpuriousWakeup == SantaSpuriousWakeup \/ \E r \in Reindeer : ReindeerSpuriousWakeup(r)

Next ==
  \/ running /\ SantaStep
  \/ running /\ \E e \in Elves : ElfStep(e)
  \/ running /\ \E r \in Reindeer : ReindeerStep(r)
  \/ running /\ SpuriousWakeup
  \/ ~running /\ UNCHANGED vars          \* the process has exited

Spec == Init /\ [][Next]_vars

(* Every thread keeps running, and one that keeps asking for a mutex that   *)
(* keeps becoming free gets it: the mutexes are held for short sections and *)
(* every contender sleeps for seconds between two attempts.  Nothing is     *)
(* assumed of spurious wakeups.                                             *)
SantaLocks == SantaLockSleep \/ SantaReacquire \/ SantaLockElves \/ SantaLockReindeer
ElfLocks(e) == ElfReport(e) \/ ElfLockSleep(e)
ReindeerLocks(r) == ReindeerLockWait(r) \/ ReindeerReacquire(r) \/ ReindeerReturn(r)
                    \/ ReindeerLockSleep(r)

Fairness ==
  /\ WF_vars(running /\ SantaStep) /\ SF_vars(running /\ SantaLocks)
  /\ \A e \in Elves : WF_vars(running /\ ElfStep(e)) /\ SF_vars(running /\ ElfLocks(e))
  /\ \A r \in Reindeer : /\ WF_vars(running /\ ReindeerStep(r))
                         /\ SF_vars(running /\ ReindeerLocks(r))

FairSpec == Spec /\ Fairness

-----------------------------------------------------------------------------
(* Properties *)

\* The code each mutex protects; who is in it holds the mutex, and nobody else.
\* This makes the counters' updates atomic and orders sleeping and waking.
Inside(label, m) ==
  \/ m = "santa_sleep" /\ label \in {"checkReindeer", "checkElves", "goToSleep",
                                    "elfSignal", "reindeerSignal"}
  \/ m = "elves" /\ label \in {"meetElves", "fixing", "reporting", "queueing",
                              "elfLockSleep", "elfSignal"}
  \/ m = "cameBack" /\ label \in {"meetReindeer", "delivering", "announcing", "counting",
                                 "reindeerLockSleep", "reindeerSignal"}
  \/ m = "reindeersWait" /\ label \in {"checkBack", "goToWait"}
SectionHoldsMutex == \A m \in Mutexes, t \in Threads : owner[m] = t <=> Inside(pc[t], m)

\* Every variable has its type; in particular elvesQueue never grows past its
\* ELVES_NEEDED places.
TypeOK ==
  /\ pc \in [Threads -> SantaLabels \union ElfLabels \union ReindeerLabels]
  /\ pc[Santa] \in SantaLabels
  /\ \A e \in Elves : pc[e] \in ElfLabels
  /\ \A r \in Reindeer : pc[r] \in ReindeerLabels
  /\ owner \in [Mutexes -> Threads \union {NoOne}]
  /\ elvesWithProblem \in Nat
  /\ elvesQueue \in [Places -> Elves \union {NoOne}]
  /\ reindeersCameBack \in Nat
  /\ presentsDelivered \in Nat
  /\ running \in BOOLEAN

\* No more than ELVES_NEEDED elves wait for Santa (polecenie.md:38), so that the
\* write to elvesQueue at line 93 stays inside the array.
ElvesAtMostNeeded == elvesWithProblem <= ELVES_NEEDED

\* Santa never goes to sleep, or stays asleep, on a complete group, unless the
\* thread that completed it is still on its way to the broadcast: the decision to
\* sleep and the broadcast are ordered by santa_sleep_mutex, although the counters
\* are not written under it (polecenie.md:37).
SignalComing(Group, labels) == \E t \in Group : pc[t] \in labels
NoMissedWakeup ==
  /\ pc[Santa] \in {"goToSleep", "sleeping"} /\ QueueFull
       => SignalComing(Elves, {"elfLockSleep", "elfSignal"})
  /\ pc[Santa] \in {"checkElves", "goToSleep", "sleeping"} /\ AllReindeerBack
       => SignalComing(Reindeer, {"reindeerLockSleep", "reindeerSignal"})

\* While Santa solves the problems (line 51 prints the whole queue), every place
\* holds an elf that queued since the queue was last cleared.
SantaMeetsQueuedElves ==
  pc[Santa] = "fixing" => \A p \in Places : elvesQueue[p] \in Elves

\* The elves' queue (main.c:49-51, 87-94): never overrun, and full of elves when met.
QueueSound == ElvesAtMostNeeded /\ SantaMeetsQueuedElves

\* When both groups are waiting, the elves go first (polecenie.md:10): from the
\* wait loop on, a full queue takes Santa to the elves before the reindeer.
ElvesFirst ==
  [][ pc[Santa] \in {"checkReindeer", "checkElves", "lockElves", "meetElves"}
      /\ QueueFull /\ pc'[Santa] # pc[Santa]
      => pc'[Santa] \in {"checkElves", "lockElves", "meetElves", "fixing"} ]_vars

\* A full queue is served, unless the program ends first.
FullQueueServed == QueueFull ~> (elvesWithProblem = 0 \/ ~running)

\* polecenie.md:37: Santa does not sleep while the reindeer wait for him.  The wait
\* loop tests for equality, so a reindeer counted past the limit breaks it.
SantaSleepsNotWithNine ==
  pc[Santa] = "sleeping" /\ reindeersCameBack >= REINDEERS_NEEDED
    => SignalComing(Reindeer, {"reindeerLockSleep", "reindeerSignal"})
=============================================================================
