-------------------------- MODULE CriticalSection ---------------------------
(***************************************************************************)
(* kolos2 kol1/zad3 (a System V semaphore) and kol2/zad1 (a POSIX one): a  *)
(* parent and its child write each entry to common.txt and to the screen.  *)
(* The semaphore outlives a run that is interrupted.                       *)
(***************************************************************************)
EXTENDS Integers, Sequences, FiniteSets

CONSTANTS
  MaxTurns,            \* model bound: the loop counters of the command line
  MaxInterrupts        \* model bound: the runs ended by SIGINT

VARIABLES
  semaphore,           \* "posix" or "sysv": which program it is
  sem,                 \* its value; NoSemaphore when it has been removed
  pc,                  \* what the parent and the child do next
  loopCounter,
  commonTxt, screen,   \* the entries written
  interrupts

semVars == <<semaphore, sem, pc, loopCounter, commonTxt, screen, interrupts>>

Processes == {"parent", "child"}
NoSemaphore == -1
Entry(p) == <<p, loopCounter[p]>>

SemInit ==
  /\ semaphore = "posix" /\ sem = NoSemaphore
  /\ pc = [p \in Processes |-> "notStarted"]
  /\ loopCounter = [p \in Processes |-> 0]
  /\ commonTxt = <<>> /\ screen = <<>>
  /\ interrupts = 0

\* Mutant: semget is not followed by SETVAL.
OpenOnly == IF sem = NoSemaphore THEN 1 ELSE sem
SetValue == 1

\* sem_open gives a new semaphore the value 1 and leaves an old one alone.  The file is
\* truncated.  Without a child the parent goes on alone.
StartRun(kind) ==
  /\ pc["parent"] = "notStarted" /\ pc["child"] = "notStarted"
  /\ interrupts > 0 => semaphore = kind
  /\ semaphore' = kind
  /\ sem' = IF kind = "sysv" THEN SetValue ELSE IF sem = NoSemaphore THEN 1 ELSE sem
  /\ commonTxt' = <<>> /\ screen' = <<>>
  /\ loopCounter' \in [Processes -> 0 .. MaxTurns]
  /\ \E c \in {"loop", "ended"} : pc' = [parent |-> "loop", child |-> c]
  /\ UNCHANGED interrupts

SemGoes(p, from, to) == pc[p] = from /\ pc' = [pc EXCEPT ![p] = to]

\* After sleep() for up to max_sleep_time seconds.
Sleep(p) ==
  /\ SemGoes(p, "loop", "wait") /\ loopCounter[p] > 0
  /\ loopCounter' = [loopCounter EXCEPT ![p] = @ - 1]
  /\ UNCHANGED <<semaphore, sem, commonTxt, screen, interrupts>>

\* Mutant: the child of either program does not wait.
OnlyParentWaits(p) == p = "parent"
Waits(p) == p = "parent" \/ semaphore = "posix"

\* The child of kol1/zad3 fills in the decrement and never passes it to semop.
Wait(p) ==
  /\ SemGoes(p, "wait", "file")
  /\ IF Waits(p) THEN sem > 0 /\ sem' = sem - 1 ELSE UNCHANGED sem
  /\ UNCHANGED <<semaphore, loopCounter, commonTxt, screen, interrupts>>

\* The descriptor of the file, and with it the place in it, is shared over the fork.
WriteFile(p) ==
  /\ SemGoes(p, "file", "screen")
  /\ commonTxt' = Append(commonTxt, Entry(p))
  /\ UNCHANGED <<semaphore, sem, loopCounter, screen, interrupts>>

WriteScreen(p) ==
  /\ SemGoes(p, "screen", "post")
  /\ screen' = Append(screen, Entry(p))
  /\ UNCHANGED <<semaphore, sem, loopCounter, commonTxt, interrupts>>

Post(p) ==
  /\ SemGoes(p, "post", "loop")
  /\ sem' = sem + 1
  /\ UNCHANGED <<semaphore, loopCounter, commonTxt, screen, interrupts>>

ChildEnds ==
  /\ SemGoes("child", "loop", "ended") /\ loopCounter["child"] = 0
  /\ UNCHANGED <<semaphore, sem, loopCounter, commonTxt, screen, interrupts>>

ChildAwaited == pc["child"] = "ended"

ParentCleans ==
  /\ SemGoes("parent", "loop", "ended") /\ loopCounter["parent"] = 0 /\ ChildAwaited
  /\ sem' = NoSemaphore
  /\ UNCHANGED <<semaphore, loopCounter, commonTxt, screen, interrupts>>

\* SIGINT from the terminal ends both processes, wherever they are, and nobody cleans up.
Interrupt ==
  /\ interrupts < MaxInterrupts /\ pc["parent"] \notin {"notStarted", "ended"}
  /\ pc' = [p \in Processes |-> "notStarted"]
  /\ interrupts' = interrupts + 1
  /\ UNCHANGED <<semaphore, sem, loopCounter, commonTxt, screen>>

SemStep(p) == Sleep(p) \/ Wait(p) \/ WriteFile(p) \/ WriteScreen(p) \/ Post(p)
SemWork == ChildEnds \/ ParentCleans \/ \E p \in Processes : SemStep(p)
SemNext == (\E kind \in {"posix", "sysv"} : StartRun(kind)) \/ SemWork \/ Interrupt

SemSpec == SemInit /\ [][SemNext]_semVars

\* A process that is not blocked goes on.
SemFairness ==
  WF_semVars(ChildEnds) /\ WF_semVars(ParentCleans) /\ \A p \in Processes : WF_semVars(SemStep(p))

-----------------------------------------------------------------------------
(* Properties *)

SemInside == {p \in Processes : pc[p] \in {"file", "screen", "post"}}

\* With the POSIX semaphore the file holds the entries in the order of the screen, after
\* an interrupted run too; only the entry being written may be missing on the screen.
SameOrder ==
  semaphore = "posix" =>
    /\ Len(commonTxt) - Len(screen) \in 0 .. 1
    /\ screen = SubSeq(commonTxt, 1, Len(screen))

\* Either program ends, its child too: the semaphore of kol1/zad3 never keeps the parent
\* out for good, and an interrupted run does not stop the next one.  A POSIX run ends unless
\* an earlier one was interrupted inside the section: sem_open finds the value 0 that
\* nobody will raise.
LostToken == semaphore = "posix" /\ sem = 0 /\ SemInside = {}
RunEnds ==
  pc["parent"] = "loop" ~>
    \/ pc["parent"] = "notStarted" \/ LostToken
    \/ pc["parent"] = "ended" /\ pc["child"] = "ended"
=============================================================================
