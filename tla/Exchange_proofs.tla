-------------------------- MODULE Exchange_proofs ---------------------------
(***************************************************************************)
(* The exercises in which processes share or hand over data:               *)
(* CriticalSection, PipeIntegrator, FifoIntegrator and ValueHandover.  For *)
(* each: its inductive invariant, one lemma for the steps of each          *)
(* operation, and the properties the runs check.                           *)
(***************************************************************************)
EXTENDS CriticalSection, PipeIntegrator, FifoIntegrator, ValueHandover,
        FunctionTheorems, FiniteSetTheorems, TLAPS

\* What a sequence holds.
Elements(s) == {s[k] : k \in 1 .. Len(s)}
-----------------------------------------------------------------------------
(* CriticalSection.  With the POSIX semaphore the two processes exclude each *)
(* other, and the file and the screen agree, however many runs are           *)
(* interrupted.                                                              *)

PosixInside(p) == semaphore = "posix" /\ pc[p] \in {"file", "screen", "post"}

\* The types SameOrder depends on.  A run has both processes or none.
SemTypeOK ==
  /\ semaphore \in {"posix", "sysv"} /\ sem \in Int /\ interrupts \in Nat
  /\ pc \in [Processes -> {"notStarted", "loop", "wait", "file", "screen", "post", "ended"}]
  /\ pc["parent"] = "notStarted" <=> pc["child"] = "notStarted"
  /\ loopCounter \in [Processes -> Int]
  /\ commonTxt \in Seq(Processes \X Int) /\ screen \in Seq(Processes \X Int)

\* The token: 1 in the semaphore, or taken by the one process inside, or lost.
OneToken ==
  semaphore = "posix" =>
    /\ sem \in {NoSemaphore, 0, 1}
    /\ \A p \in Processes : PosixInside(p) => sem = 0
    /\ ~(PosixInside("parent") /\ PosixInside("child"))

\* Before the first run there is no semaphore, so that it is created with the value 1.
FirstRun == interrupts = 0 /\ pc["parent"] = "notStarted" => sem = NoSemaphore

\* Between a process's two writes the file is ahead by its entry; else the logs agree,
\* but for a run that was interrupted.
LogsAgree ==
  semaphore = "posix" =>
    /\ \A p \in Processes : pc[p] = "screen" => commonTxt = Append(screen, Entry(p))
    /\ \/ \E p \in Processes : pc[p] \in {"screen", "notStarted"}
       \/ commonTxt = screen

SemInv == SemTypeOK /\ OneToken /\ FirstRun /\ LogsAgree /\ SameOrder

\* Sequences that are equal, or differ by one element at the end, are in the same order.
LEMMA AgreeingLogs ==
  ASSUME NEW S, NEW s \in Seq(S), NEW t \in Seq(S), NEW e \in S,
         t = s \/ t = Append(s, e)
  PROVE  Len(t) - Len(s) \in 0 .. 1 /\ s = SubSeq(t, 1, Len(s))
OBVIOUS

\* A sequence of entries stays one when an entry is appended.
LEMMA OneMore ==
  ASSUME NEW S, NEW s \in Seq(S), NEW e \in S, NEW t, t = s \/ t = Append(s, e)
  PROVE  t \in Seq(S)
OBVIOUS

\* There is no semaphore yet, and no entry.
LEMMA SemInitHolds == SemInit => SemInv
<1> SUFFICES ASSUME SemInit PROVE SemInv
  OBVIOUS
<1>1. commonTxt = <<>> /\ screen = <<>> /\ semaphore = "posix"
  BY DEF SemInit
<1>2. SameOrder
  BY <1>1 DEF SameOrder
<1> QED
  BY <1>1, <1>2 DEF SemInit, SemInv, SemTypeOK, OneToken, PosixInside, FirstRun, LogsAgree, Processes, NoSemaphore

\* A new run finds the value its last one left: 1, or 0 if it was interrupted inside.
LEMMA StartRunStep ==
  ASSUME SemInv, NEW kind \in {"posix", "sysv"}, StartRun(kind)
  PROVE  SemInv'
<1> USE DEF SemInv, StartRun
<1>1. SemTypeOK'
  BY DEF SemTypeOK, Processes, NoSemaphore, SetValue
<1>2. OneToken' /\ FirstRun'
  BY DEF SemTypeOK, OneToken, FirstRun, PosixInside, Processes, NoSemaphore
<1>3. LogsAgree' /\ SameOrder'
  BY DEF SemTypeOK, LogsAgree, SameOrder, Processes
<1> QED
  BY <1>1, <1>2, <1>3

\* The only step into the section takes the token.
LEMMA WaitStep ==
  ASSUME SemInv, NEW p \in Processes, Wait(p)
  PROVE  SemInv'
<1> USE DEF SemInv, Wait, SemGoes
<1>1. SemTypeOK'
  BY DEF SemTypeOK, Processes
<1>2. OneToken' /\ FirstRun'
  BY DEF SemTypeOK, OneToken, FirstRun, PosixInside, Processes, NoSemaphore, Waits
<1>3. LogsAgree' /\ SameOrder'
  BY DEF SemTypeOK, LogsAgree, SameOrder, Processes, Entry
<1> QED
  BY <1>1, <1>2, <1>3

\* The process that writes is alone inside, so the logs agreed before its first write.
LEMMA WriteStep ==
  ASSUME SemInv, NEW p \in Processes, WriteFile(p) \/ WriteScreen(p)
  PROVE  SemInv'
<1> USE DEF SemInv, WriteFile, WriteScreen, SemGoes
<1>1. Entry(p) \in Processes \X Int
  BY DEF SemTypeOK, Entry
<1>2. SemTypeOK'
  <2>1. commonTxt' \in Seq(Processes \X Int)
    <3>1. \/ commonTxt' = commonTxt
          \/ commonTxt' = Append(commonTxt, Entry(p))
      OBVIOUS
    <3>2. commonTxt \in Seq(Processes \X Int)
      BY DEF SemTypeOK
    <3> HIDE DEF SemInv, WriteFile, WriteScreen, SemGoes
    <3> QED
      BY <1>1, <3>1, <3>2, OneMore
  <2>2. screen' \in Seq(Processes \X Int)
    <3>1. screen' = screen \/ screen' = Append(screen, Entry(p))
      OBVIOUS
    <3>2. screen \in Seq(Processes \X Int)
      BY DEF SemTypeOK
    <3> HIDE DEF SemInv, WriteFile, WriteScreen, SemGoes
    <3> QED
      BY <1>1, <3>1, <3>2, OneMore
  <2>3. /\ pc' \in [Processes -> {"notStarted", "loop", "wait", "file", "screen", "post", "ended"}]
        /\ pc'["parent"] = "notStarted" <=> pc'["child"] = "notStarted"
    BY DEF SemTypeOK, Processes
  <2>4. UNCHANGED <<semaphore, sem, interrupts, loopCounter>>
    OBVIOUS
  <2> QED
    BY <2>1, <2>2, <2>3, <2>4 DEF SemTypeOK
<1>3. OneToken' /\ FirstRun'
  BY DEF SemTypeOK, OneToken, FirstRun, PosixInside, Processes
<1>4. LogsAgree'
  BY DEF SemTypeOK, OneToken, PosixInside, LogsAgree, Processes, Entry
<1>5. semaphore' = "posix" => commonTxt' = screen' \/ commonTxt' = Append(screen', Entry(p))
  BY DEF SemTypeOK, OneToken, PosixInside, LogsAgree, Processes
<1>6. SameOrder'
  <2> SUFFICES ASSUME semaphore' = "posix"
               PROVE  /\ Len(commonTxt') - Len(screen') \in 0 .. 1
                      /\ screen' = SubSeq(commonTxt', 1, Len(screen'))
    BY DEF SameOrder
  <2> HIDE DEF SemInv, WriteFile, WriteScreen, SemGoes
  <2>1. commonTxt' \in Seq(Processes \X Int) /\ screen' \in Seq(Processes \X Int)
    BY <1>2 DEF SemTypeOK
  <2>2. commonTxt' = screen' \/ commonTxt' = Append(screen', Entry(p))
    BY <1>5
  <2> QED
    BY <1>1, <2>1, <2>2, AgreeingLogs
<1> QED
  BY <1>2, <1>3, <1>4, <1>6

\* The token is put back by the process that took it.
LEMMA PostStep ==
  ASSUME SemInv, NEW p \in Processes, Post(p)
  PROVE  SemInv'
<1> USE DEF SemInv, Post, SemGoes
<1>1. SemTypeOK'
  BY DEF SemTypeOK, Processes
<1>2. OneToken' /\ FirstRun'
  BY DEF SemTypeOK, OneToken, FirstRun, PosixInside, Processes, NoSemaphore
<1>3. LogsAgree' /\ SameOrder'
  BY DEF SemTypeOK, LogsAgree, SameOrder, Processes, Entry
<1> QED
  BY <1>1, <1>2, <1>3

\* Outside the section nothing but the program counters and loop counters moves, until
\* the parent removes the semaphore when its child has ended.
LEMMA OutsideStep ==
  ASSUME SemInv, NEW p \in Processes, Sleep(p) \/ ChildEnds \/ ParentCleans
  PROVE  SemInv'
<1> USE DEF SemInv, Sleep, ChildEnds, ParentCleans, ChildAwaited, SemGoes
<1>1. SemTypeOK'
  BY DEF SemTypeOK, Processes, NoSemaphore
<1>2. OneToken' /\ FirstRun'
  BY DEF SemTypeOK, OneToken, FirstRun, PosixInside, Processes, NoSemaphore
<1>3. LogsAgree' /\ SameOrder'
  BY DEF SemTypeOK, LogsAgree, SameOrder, Processes, Entry
<1> QED
  BY <1>1, <1>2, <1>3

\* An interrupted run leaves the token and the logs as they are.
LEMMA InterruptStep ==
  ASSUME SemInv, Interrupt
  PROVE  SemInv'
<1> USE DEF SemInv, Interrupt
<1>1. SemTypeOK'
  BY DEF SemTypeOK, Processes
<1>2. OneToken' /\ FirstRun'
  BY DEF SemTypeOK, OneToken, FirstRun, PosixInside, Processes, NoSemaphore
<1>3. LogsAgree' /\ SameOrder'
  BY DEF SemTypeOK, LogsAgree, SameOrder, Processes, Entry
<1> QED
  BY <1>1, <1>2, <1>3

\* Every step keeps the invariant.
LEMMA SemInductive == SemSpec => []SemInv
<1>1. ASSUME SemInv, [SemNext]_semVars
      PROVE  SemInv'
  <2>1. CASE \E kind \in {"posix", "sysv"} : StartRun(kind)
    BY <1>1, <2>1, StartRunStep
  <2>2. CASE ChildEnds \/ ParentCleans
    BY <1>1, <2>2, OutsideStep DEF Processes
  <2>3. CASE \E p \in Processes : SemStep(p)
    BY <1>1, <2>3, OutsideStep, WaitStep, WriteStep, PostStep DEF SemStep
  <2>4. CASE Interrupt
    BY <1>1, <2>4, InterruptStep
  <2>5. CASE UNCHANGED semVars
    BY <1>1, <2>5 DEF semVars, SemInv, SemTypeOK, OneToken, PosixInside, FirstRun, LogsAgree, SameOrder, Entry
  <2> QED
    BY <1>1, <2>1, <2>2, <2>3, <2>4, <2>5 DEF SemNext, SemWork
<1> QED
  BY <1>1, SemInitHolds, PTL DEF SemSpec

\* With the POSIX semaphore no two processes are between sem_wait and sem_post at once,
\* after an interrupted run too (kol2/zad1/main.c:59-72, 88-101).
THEOREM PosixExcludes ==
  SemSpec => [](semaphore = "posix" => \A p, q \in SemInside : p = q)
<1>1. SemInv => (semaphore = "posix" => \A p, q \in SemInside : p = q)
  BY DEF SemInv, OneToken, PosixInside, SemInside, Processes
<1> QED
  BY <1>1, SemInductive, PTL

\* The file and the screen of kol2/zad1, the POSIX program, show the entries of its two
\* processes in one order, for any loop counters and any number of interrupted runs.  Of
\* kol1/zad3, whose child takes no semaphore, this says nothing.
THEOREM OrderKept == SemSpec => []SameOrder
<1>1. SemInv => SameOrder
  BY DEF SemInv
<1> QED
  BY <1>1, SemInductive, PTL

-----------------------------------------------------------------------------
(* PipeIntegrator.  A pipe that was not read has the component of its child or *)
(* nothing, and the result has the component of every child before readFrom.   *)

Computed(c) == child[c] \in {"write", "exit", "ended"}
Written(c) == child[c] \in {"exit", "ended"}
NotWritten(c) == child[c] \in {"none", "integrate", "write", "killed"}
Gone(c) == child[c] \in {"exit", "ended", "killed"}

PipeTypes ==
  /\ children \in Children /\ rect_width \in 1 .. Points
  /\ parent \in {"main", "fork", "sum", "read", "ended", "failed"}
  /\ child \in [Children -> {"none", "integrate", "write", "exit", "ended", "killed"}]
  /\ child_result \in [Children -> Nat] /\ fd \in [Children -> Nat]
  /\ integration_result \in [Children -> Nat]
  /\ readFrom \in 1 .. children + 1
  /\ parent = "read" => readFrom <= children
  /\ parent = "ended" => readFrom = children + 1

ForkedInv ==
  /\ parent \in {"main", "fork", "failed"} => readFrom = 1
  /\ \E n \in 0 .. children : /\ \A c \in Children : child[c] # "none" <=> c <= n
                              /\ parent = "main" => n = 0
                              /\ parent \in {"sum", "read", "ended"} => n = children

ReadInv ==
  \A c \in Children :
    /\ c < readFrom => Gone(c)
    /\ NotWritten(c) => fd[c] = NoData
    /\ Computed(c) => child_result[c] # NoData
    /\ Written(c) /\ c >= readFrom => fd[c] = child_result[c]
    /\ integration_result[c] = IF c < readFrom /\ child[c] # "killed" THEN child_result[c] ELSE 0

IntegralInv == PipeTypes /\ ForkedInv /\ ReadInv

\* Before the fork nothing was written or read.
LEMMA PipeInitInv ==
  ASSUME PipeAssumption, PipeInit
  PROVE  IntegralInv
<1> USE DEF PipeAssumption, PipeInit, Zero
<1>1. PipeTypes
  BY DEF PipeTypes, Children, NoData
<1>2. ForkedInv
  BY DEF ForkedInv, Children
<1>3. ReadInv
  BY DEF ReadInv, Children, Gone, Written, Computed
<1> QED
  BY <1>1, <1>2, <1>3 DEF IntegralInv

\* The number of children and the width are chosen while no child runs.
LEMMA PipeMainStep ==
  ASSUME PipeAssumption, IntegralInv, PipeMain
  PROVE  IntegralInv'
<1> USE DEF IntegralInv
<1>1. /\ parent = "main" /\ children' \in Children
      /\ rect_width' \in 1 .. Points /\ parent' \in {"fork", "failed"}
      /\ UNCHANGED <<child, child_result, fd, readFrom, writeEnd, component, integration_result>>
  BY DEF PipeMain
<1>2. readFrom = 1 /\ \A c \in Children : child[c] = "none"
  BY <1>1 DEF ForkedInv, Children
<1>3. PipeTypes'
  <2> DEFINE n == children'
             f == readFrom'
  <2> HIDE DEF n, f
  <2>1. f \in 1 .. n + 1
    <3>1. n \in 1 .. MaxChildren /\ MaxChildren \in Nat /\ f = 1
      BY <1>1, <1>2 DEF PipeAssumption, Children, n, f
    <3> QED
      BY <3>1
  <2> QED
    BY <1>1, <2>1 DEF PipeTypes, n, f
<1>4. ForkedInv'
  BY <1>1, <1>2 DEF ForkedInv, Children
<1>5. ReadInv'
  BY <1>1 DEF ReadInv, Gone, NotWritten, Computed, Written
<1> QED
  BY <1>3, <1>4, <1>5

\* A segment has a sample at least, so that no component is mistaken for a pipe without data.
LEMMA SegmentsAreData ==
  ASSUME NEW c \in Children, NEW n \in Segment(c)
  PROVE  n \in Nat \ {0}
BY DEF Segment, integrate

\* The children are forked in the order of their numbers.
LEMMA PipeForkStep ==
  ASSUME PipeAssumption, IntegralInv, Fork
  PROVE  IntegralInv'
<1> USE DEF IntegralInv
<1>1. PICK n \in 0 .. children : \A c \in Children : child[c] # "none" <=> c <= n
  BY DEF ForkedInv
<1>2. /\ parent = "fork" /\ readFrom = 1 /\ n \in Nat
      /\ UNCHANGED <<children, rect_width, child_result, fd, readFrom, writeEnd, component,
                     integration_result>>
  BY DEF Fork, ForkedInv, PipeTypes, Children
<1>3. Cardinality(Forked) = n
  <2>1. Forked = 1 .. n
    BY <1>1, <1>2 DEF Forked, PipeTypes, Children
  <2> QED
    BY <1>2, <2>1, FS_Interval
<1>4. \/ n + 1 > children /\ parent' = "sum" /\ UNCHANGED child
      \/ n + 1 <= children /\ child' = [child EXCEPT ![n + 1] = "integrate"] /\ UNCHANGED parent
      \/ n + 1 <= children /\ parent' = "failed" /\ UNCHANGED child
  BY <1>3 DEF Fork
<1>5. CASE UNCHANGED child
  <2>1. ReadInv'
    BY <1>2, <1>5 DEF ReadInv, Gone, Written, NotWritten, Computed
  <2>2. PipeTypes'
    BY <1>2, <1>4, <1>5 DEF PipeTypes
  <2>3. /\ (n + 1 > children /\ parent' = "sum") \/ parent' = "failed"
        /\ parent' = "sum" => n = children
    <3>1. (n + 1 > children /\ parent' = "sum") \/ parent' = "failed"
      <4>1. child' # [child EXCEPT ![n + 1] = "integrate"] \/ ~(n + 1 <= children)
        <5>1. n + 1 <= children => n + 1 \in Children /\ child[n + 1] = "none"
          BY <1>1, <1>2 DEF PipeTypes, PipeAssumption, Children
        <5> QED
          BY <1>5, <5>1 DEF PipeTypes
      <4> QED
        BY <1>4, <4>1
    <3>2. children \in Nat
      BY DEF PipeTypes, PipeAssumption, Children
    <3> QED
      BY <1>2, <3>1, <3>2
  <2>4. ForkedInv'
    BY <1>1, <1>2, <1>5, <2>3 DEF ForkedInv
  <2> QED
    BY <2>1, <2>2, <2>4
<1>6. CASE n + 1 <= children /\ child' = [child EXCEPT ![n + 1] = "integrate"] /\ UNCHANGED parent
  <2>1. n + 1 \in Children /\ child[n + 1] = "none"
    BY <1>1, <1>2, <1>6 DEF PipeTypes, Children
  <2>2. \A c \in Children : child'[c] = IF c = n + 1 THEN "integrate" ELSE child[c]
    BY <1>6 DEF PipeTypes
  <2>3. ReadInv'
    BY <1>2, <2>1, <2>2 DEF ReadInv, Gone, Written, NotWritten, Computed, Children
  <2>4. PipeTypes'
    BY <1>2, <1>6 DEF PipeTypes
  <2>5. ForkedInv'
    <3>1. \A c \in Children : child'[c] # "none" <=> c <= n + 1
      BY <1>1, <1>2, <2>2 DEF Children
    <3> QED
      BY <1>2, <1>6, <3>1 DEF ForkedInv
  <2> QED
    BY <2>3, <2>4, <2>5
<1> QED
  BY <1>4, <1>5, <1>6

\* A read takes the component of its child, or finds it killed.
LEMMA PipeReadStep ==
  ASSUME PipeAssumption, IntegralInv, ParentRead
  PROVE  IntegralInv'
<1> USE DEF IntegralInv
<1> DEFINE r == readFrom
<1>1. /\ parent = "read" /\ parent' = "sum" /\ readFrom' = r + 1
      /\ fd[r] # NoData \/ AtEnd(r)
      /\ fd' = [fd EXCEPT ![r] = NoData] /\ UNCHANGED <<children, rect_width, child, child_result>>
  BY DEF ParentRead, DataOrEnd
<1>2. r \in Children /\ r \in 1 .. children /\ r \in Nat /\ children \in Nat
  BY <1>1 DEF PipeTypes, Children
<1>3. child[r] # "none"
  BY <1>1, <1>2 DEF ForkedInv
<1>4. Gone(r) /\ fd[r] = IF child[r] = "killed" THEN NoData ELSE child_result[r]
  <2>1. fd[r] # NoData => Written(r)
    BY <1>2, <1>3 DEF ReadInv, PipeTypes, Written, NotWritten
  <2>2. AtEnd(r) => child[r] \in {"ended", "killed"}
    BY <1>2, <1>3 DEF AtEnd, Forked
  <2> QED
    BY <1>1, <1>2, <2>1, <2>2 DEF ReadInv, Gone, Written, NotWritten
<1>5. \A c \in Children : component'[c] = IF c = r THEN fd[r] ELSE 0
  <2>1. component' = IF fd[r] = NoData THEN Zero ELSE Of(r, fd[r])
    BY DEF ParentRead, ComponentCleared
  <2> QED
    BY <1>2, <2>1 DEF Zero, Of, NoData
<1>6. /\ \A c \in Children : integration_result'[c] = integration_result[c] + (IF c = r THEN fd[r] ELSE 0)
      /\ integration_result' \in [Children -> Nat]
  <2>1. integration_result' = [c \in Children |-> integration_result[c] + component'[c]]
    BY DEF ParentRead, Plus
  <2> QED
    BY <1>5, <2>1 DEF PipeTypes
<1>7. ReadInv'
  <2>1. integration_result[r] = 0 /\ fd'[r] = NoData /\ \A c \in Children \ {r} : fd'[c] = fd[c]
    BY <1>1, <1>2 DEF ReadInv, PipeTypes
  <2>2. \A c \in Children : c < readFrom' <=> c < r \/ c = r
    BY <1>1, <1>2 DEF Children
  <2>3. \A c \in Children : c >= readFrom' => c >= r /\ c # r
    BY <1>1, <1>2 DEF Children
  <2>4. \A c \in Children \ {r} : integration_result'[c] = integration_result[c]
    BY <1>6 DEF PipeTypes
  <2>5. integration_result'[r] = IF child[r] = "killed" THEN 0 ELSE child_result[r]
    BY <1>2, <1>4, <1>6, <2>1 DEF NoData, PipeTypes
  <2>6. ASSUME NEW c \in Children, c # r
        PROVE  /\ c < readFrom' => Gone(c)
               /\ NotWritten(c) => fd'[c] = NoData
               /\ Computed(c) => child_result[c] # NoData
               /\ Written(c) /\ c >= readFrom' => fd'[c] = child_result[c]
               /\ integration_result'[c] = IF c < readFrom' /\ child[c] # "killed" THEN child_result[c] ELSE 0
    BY <2>1, <2>2, <2>3, <2>4, <2>6 DEF ReadInv
  <2>7. \A c : /\ Gone(c)' <=> Gone(c)
               /\ NotWritten(c)' <=> NotWritten(c)
               /\ Computed(c)' <=> Computed(c)
               /\ Written(c)' <=> Written(c)
    BY <1>1 DEF Gone, NotWritten, Computed, Written
  <2>8. Computed(r) => child_result[r] # NoData
    BY <1>2 DEF ReadInv
  <2>9. r < readFrom' /\ ~(r >= readFrom')
    BY <1>1, <1>2
  <2> QED
    BY <1>1, <1>4, <2>1, <2>5, <2>6, <2>7, <2>8, <2>9 DEF ReadInv
<1>8. PipeTypes' /\ ForkedInv'
  <2>1. readFrom' \in 1 .. children + 1 /\ fd' \in [Children -> Nat]
    BY <1>1, <1>2 DEF PipeTypes, NoData
  <2>2. PipeTypes'
    BY <1>1, <1>6, <2>1 DEF PipeTypes
  <2>3. ForkedInv'
    BY <1>1 DEF ForkedInv
  <2> QED
    BY <2>2, <2>3
<1> QED
  BY <1>7, <1>8

\* A child writes its segment once, or is killed before.
LEMMA PipeChildStep ==
  ASSUME PipeAssumption, IntegralInv, NEW c \in Children, ChildStep(c) \/ ChildKilled(c)
  PROVE  IntegralInv'
<1> USE DEF IntegralInv
<1>1. /\ UNCHANGED <<children, rect_width, parent, readFrom, writeEnd, component, integration_result>>
      /\ \/ /\ child[c] = "integrate" /\ child' = [child EXCEPT ![c] = "write"] /\ fd' = fd
            /\ \E n \in Segment(c) : child_result' = [child_result EXCEPT ![c] = n]
         \/ /\ child[c] = "write" /\ child' = [child EXCEPT ![c] = "exit"]
            /\ fd' = [fd EXCEPT ![c] = child_result[c]] /\ child_result' = child_result
         \/ /\ child[c] = "exit" /\ child' = [child EXCEPT ![c] = "ended"]
            /\ fd' = fd /\ child_result' = child_result
         \/ /\ child[c] \in {"integrate", "write"} /\ child' = [child EXCEPT ![c] = "killed"]
            /\ fd' = fd /\ child_result' = child_result
  BY DEF ChildStep, ChildIntegrate, ChildWrite, ChildExit, ChildKilled, ChildBecomes
<1>2. /\ \A d \in Children \ {c} : child'[d] = child[d] /\ fd'[d] = fd[d] /\ child_result'[d] = child_result[d]
      /\ child' \in [Children -> {"none", "integrate", "write", "exit", "ended", "killed"}]
      /\ child'[c] \in {"write", "exit", "ended", "killed"} /\ child[c] \in {"integrate", "write", "exit"}
      /\ child_result' \in [Children -> Nat] /\ fd' \in [Children -> Nat]
  BY <1>1, SegmentsAreData DEF PipeTypes
<1>3. PipeTypes' /\ ForkedInv'
  BY <1>1, <1>2 DEF PipeTypes, ForkedInv
<1>4. ReadInv'
  <2>1. ASSUME NEW d \in Children, d # c
        PROVE  /\ d < readFrom => Gone(d)'
               /\ NotWritten(d)' => fd'[d] = NoData
               /\ Computed(d)' => child_result'[d] # NoData
               /\ Written(d)' /\ d >= readFrom => fd'[d] = child_result'[d]
               /\ integration_result[d] = IF d < readFrom /\ child'[d] # "killed" THEN child_result'[d] ELSE 0
    BY <1>2, <2>1 DEF ReadInv, Gone, NotWritten, Computed, Written
  <2>2. /\ c < readFrom => Gone(c)'
        /\ NotWritten(c)' => fd'[c] = NoData
        /\ Computed(c)' => child_result'[c] # NoData
        /\ Written(c)' /\ c >= readFrom => fd'[c] = child_result'[c]
        /\ integration_result[c] = IF c < readFrom /\ child'[c] # "killed" THEN child_result'[c] ELSE 0
    BY <1>1, SegmentsAreData DEF ReadInv, Gone, NotWritten, Computed, Written, PipeTypes, NoData
  <2> QED
    BY <1>1, <2>1, <2>2 DEF ReadInv
<1> QED
  BY <1>3, <1>4

\* Closing the write end and ending change no component.
LEMMA PipeRestStep ==
  ASSUME PipeAssumption, IntegralInv, ParentClose \/ ParentEnds \/ UNCHANGED pipeVars
  PROVE  IntegralInv'
<1> USE DEF IntegralInv
<1>1. UNCHANGED <<children, rect_width, child, child_result, fd, readFrom, integration_result>>
  BY DEF ParentClose, ParentEnds, pipeVars
<1>2. PipeTypes' /\ ForkedInv'
  <2>1. CASE ParentClose
    BY <1>1, <2>1 DEF PipeTypes, ForkedInv, ParentClose
  <2>2. CASE ParentEnds
    <3>1. readFrom = children + 1
      BY <2>2 DEF ParentEnds, PipeTypes, PipeAssumption, Children
    <3> QED
      BY <1>1, <2>2, <3>1 DEF PipeTypes, ForkedInv, ParentEnds
  <2>3. CASE UNCHANGED pipeVars
    BY <1>1, <2>3 DEF PipeTypes, ForkedInv, pipeVars
  <2> QED
    BY <2>1, <2>2, <2>3
<1>3. ReadInv'
  BY <1>1 DEF ReadInv, Gone, Written, NotWritten, Computed
<1> QED
  BY <1>2, <1>3

\* When the parent ends the invariant says what it has added up.
LEMMA SumIsComplete ==
  ASSUME PipeAssumption, IntegralInv
  PROVE  ComponentsKept
<1>1. SUFFICES ASSUME parent = "ended"
               PROVE  ComponentsKept
  BY DEF ComponentsKept
<1>2. \A c \in Children : c \in Forked <=> c < readFrom
  BY <1>1 DEF IntegralInv, PipeTypes, ForkedInv, Forked, Children
<1>3. \A c \in Children : integration_result[c] = IF c \in Forked /\ child[c] # "killed" THEN child_result[c] ELSE 0
  BY <1>2 DEF IntegralInv, ReadInv
<1> QED
  BY <1>3 DEF ComponentsKept, IntegralInv, PipeTypes

\* The parent adds up the component of every child that was not killed, once, and nothing
\* else, for any number of children (zad02_integral.c:71-77).
THEOREM PipeComponentsKept == PipeSpec => []ComponentsKept
<1>1. PipeInit => IntegralInv
  BY PipeAssumption, PipeInitInv
<1>2. IntegralInv /\ [PipeNext]_pipeVars => IntegralInv'
  BY PipeAssumption, PipeMainStep, PipeForkStep, PipeReadStep, PipeChildStep, PipeRestStep
     DEF PipeNext, ParentStep
<1>3. IntegralInv => ComponentsKept
  BY PipeAssumption, SumIsComplete
<1> QED
  BY <1>1, <1>2, <1>3, PTL DEF PipeSpec

-----------------------------------------------------------------------------
(* FifoIntegrator.  The bytes between two commas of the stream are of one    *)
(* worker; when all the records fit into one read they are whole in it.      *)

RecordBytes == Workers \X (1 .. RecordLen)
InPipe == Elements(stream)
HasWritten == {v \in Started : worker[v] \in {"close", "ended"}}
Emptied == {v \in HasWritten : \A b \in InPipe : b[1] # v}

\* Between two bytes of different workers there is a comma.
Separated(s) ==
  \A i, j \in 1 .. Len(s) : i <= j /\ (\A l \in i .. j - 1 : ~Comma(s[l])) => s[i][1] = s[j][1]
EndsInComma(s) == s # <<>> => Comma(s[Len(s)])

\* Every byte has the other bytes of its record around it, and is there once.
WholeRecords(s) ==
  /\ \A k \in 1 .. Len(s) :
       /\ k >= s[k][2] /\ k - s[k][2] + RecordLen <= Len(s)
       /\ \A i \in 1 .. RecordLen : s[k - s[k][2] + i] = <<s[k][1], i>>
  /\ \A k, l \in 1 .. Len(s) : s[k] = s[l] => k = l

FifoTypes ==
  /\ n_procs \in 0 .. MaxWorkers /\ (integrator = "main" => n_procs = 0)
  /\ integrator \in {"main", "fork", "open", "opening", "read", "remove", "ended"}
  /\ worker \in [Workers -> {"none", "integrate", "notForked", "open", "write", "close", "ended"}]
  /\ stream \in Seq(RecordBytes)
  /\ summed_component_number \in Nat
  /\ \A w \in Workers : worker[w] # "none" => w \in Started

StreamInv ==
  /\ Separated(stream) /\ EndsInComma(stream)
  /\ \A b \in InPipe : b[1] \in Started
  /\ \A t \in summed : \E w \in Started : t \subseteq Digits(w)
  /\ integrator \in {"main", "fork", "open"} =>
       /\ stream = <<>>
       /\ \A w \in Workers : worker[w] \in {"none", "notForked", "integrate", "open"}
  /\ integrator \in {"main", "fork", "open", "opening"} => summed = {} /\ summed_component_number = 0
  /\ Reading => (UNION summed) \union {b \in InPipe : ~Comma(b)} = UNION {Digits(w) : w \in HasWritten}

WholeInv ==
  Fits =>
    /\ Reading =>
         /\ WholeRecords(stream)
         /\ \A b \in InPipe : b[1] \in HasWritten
         /\ summed = {Digits(w) : w \in Emptied}
         /\ summed_component_number = Cardinality(summed)
    /\ integrator \in {"remove", "ended"} => summed = {Digits(w) : w \in Started}

FifoInv == FifoTypes /\ StreamInv /\ WholeInv

\* A set of numbers up to m that holds m has a least one: without it, taking the number
\* before would map those from some member on up to m into themselves, all but m.
LEMMA Least ==
  ASSUME NEW m \in Nat, NEW T \in SUBSET (0 .. m), T # {}
  PROVE  \E x \in T : \A y \in T : x <= y
<1> DEFINE U == {x \in 0 .. m : \E t \in T : t <= x}
           before == [x \in U |-> x - 1]
<1>1. SUFFICES ASSUME \A x \in T : \E y \in T : ~(x <= y)
               PROVE  FALSE
  OBVIOUS
<1>2. m \in U /\ U \subseteq 0 .. m
  <2>1. PICK t \in T : t \in 0 .. m
    OBVIOUS
  <2>2. m \in 0 .. m /\ t <= m
    BY <2>1
  <2> QED
    BY <2>2
<1>3. \A x \in U : x - 1 \in U
  <2>1. TAKE x \in U
  <2>2. PICK t \in T : t <= x
    OBVIOUS
  <2>3. PICK y \in T : ~(t <= y)
    BY <1>1
  <2>4. y <= x - 1 /\ x - 1 \in 0 .. m
    BY <2>2, <2>3
  <2> QED
    BY <2>4
<1>4. IsFiniteSet(U)
  <2>1. IsFiniteSet(0 .. m)
    BY FS_Interval
  <2> QED
    BY <1>2, <2>1, FS_Subset
<1> HIDE DEF U
<1>5. before \in [U -> U] /\ \A x, y \in U : before[x] = before[y] => x = y
  BY <1>2, <1>3
<1> HIDE DEF before
<1>6. before \in Injection(U, U)
  BY <1>5, Fun_IsInj
<1>7. before \in Surjection(U, U)
  BY <1>4, <1>6, FS_Injection
<1>8. PICK x \in U : before[x] = m
  BY <1>2, <1>7 DEF Surjection
<1> QED
  BY <1>2, <1>8 DEF before

\* The tokens of a chunk have all its bytes but the commas.
LEMMA TokensCover ==
  ASSUME FifoAssumption, NEW s \in Seq(RecordBytes)
  PROVE  UNION Tokens(s) = {b \in {s[k] : k \in 1 .. Len(s)} : ~Comma(b)}
<1> DEFINE First(k) == ~Comma(s[k]) /\ (k = 1 \/ Comma(s[k - 1]))
           Run(k) == {s[l] : l \in {m \in k .. Len(s) : \A j \in k .. m : ~Comma(s[j])}}
<1>1. Tokens(s) = {Run(k) : k \in {m \in 1 .. Len(s) : First(m)}}
  BY DEF Tokens
<1>2. Len(s) \in Nat
  OBVIOUS
<1>3. ASSUME NEW t \in Tokens(s), NEW b \in t
      PROVE  b \in {s[k] : k \in 1 .. Len(s)} /\ ~Comma(b)
  <2>1. PICK k \in 1 .. Len(s) : t = Run(k)
    BY <1>1
  <2>2. PICK m \in k .. Len(s) : b = s[m] /\ \A j \in k .. m : ~Comma(s[j])
    BY <1>3, <2>1
  <2>3. m \in 1 .. Len(s) /\ m \in k .. m
    BY <1>2, <2>2
  <2> QED
    BY <2>2, <2>3
<1>4. ASSUME NEW m \in 1 .. Len(s), ~Comma(s[m])
      PROVE  \E t \in Tokens(s) : s[m] \in t
  <2> DEFINE T == {k \in 1 .. m : \A j \in k .. m : ~Comma(s[j])}
  <2>1. m \in Nat /\ T \in SUBSET (0 .. m) /\ T # {}
    <3>1. m \in T
      BY <1>2, <1>4
    <3>2. m \in Nat /\ \A k \in T : k \in 0 .. m
      BY <1>2
    <3> HIDE DEF T
    <3> QED
      BY <3>1, <3>2
  <2>2. PICK k \in T : \A l \in T : k <= l
    <3> HIDE DEF T
    <3> QED
      BY <2>1, Least
  <2>3. k \in 1 .. m /\ ~Comma(s[k]) /\ m \in k .. Len(s)
    BY <1>2, <2>2
  <2>4. k # 1 => Comma(s[k - 1])
    <3>1. SUFFICES ASSUME k # 1, ~Comma(s[k - 1])
                   PROVE  FALSE
      OBVIOUS
    <3>2. k - 1 \in 1 .. m /\ \A j \in k - 1 .. m : j = k - 1 \/ j \in k .. m
      BY <2>3, <3>1
    <3>3. k - 1 \in T
      BY <2>2, <3>1, <3>2
    <3> QED
      BY <2>2, <2>3, <3>3
  <2>5. s[m] \in Run(k) /\ First(k)
    BY <2>2, <2>3, <2>4
  <2>6. k \in 1 .. Len(s)
    BY <1>2, <2>3
  <2> HIDE DEF Run, First
  <2> QED
    BY <1>1, <2>5, <2>6
<1> QED
  BY <1>3, <1>4

\* Between the bytes of different workers there are commas, so that a token has the bytes of one.
LEMMA TokenOfOne ==
  ASSUME FifoAssumption, NEW s \in Seq(RecordBytes), Separated(s), NEW t \in Tokens(s)
  PROVE  \E k \in 1 .. Len(s) : t \subseteq Digits(s[k][1])
<1>1. PICK k \in 1 .. Len(s) :
        t = {s[l] : l \in {m \in k .. Len(s) : \A j \in k .. m : ~Comma(s[j])}}
  BY DEF Tokens
<1>2. ASSUME NEW m \in k .. Len(s), \A j \in k .. m : ~Comma(s[j])
      PROVE  s[m] \in Digits(s[k][1])
  <2>1. m \in 1 .. Len(s) /\ k <= m /\ m \in k .. m /\ \A l \in k .. m - 1 : l \in k .. m
    OBVIOUS
  <2>2. s[k][1] = s[m][1]
    BY <1>2, <2>1 DEF Separated
  <2>3. s[m] \in Workers \X (1 .. RecordLen)
    BY <2>1 DEF RecordBytes
  <2>4. s[m] = <<s[m][1], s[m][2]>> /\ s[m][2] \in 1 .. RecordLen
    BY <2>3
  <2>5. s[m][2] # RecordLen
    BY <1>2, <2>1 DEF Comma
  <2>6. s[m][2] \in 1 .. RecordLen - 1
    BY <2>4, <2>5 DEF FifoAssumption
  <2> QED
    BY <2>2, <2>4, <2>6 DEF Digits
<1> QED
  BY <1>1, <1>2

\* The tokens of whole records are the digits of their workers.
LEMMA TokensOfWhole ==
  ASSUME FifoAssumption, NEW s \in Seq(RecordBytes), WholeRecords(s)
  PROVE  Tokens(s) = {Digits(w) : w \in {s[k][1] : k \in 1 .. Len(s)}}
<1> DEFINE First(k) == ~Comma(s[k]) /\ (k = 1 \/ Comma(s[k - 1]))
           Run(k) == {s[l] : l \in {m \in k .. Len(s) : \A j \in k .. m : ~Comma(s[j])}}
<1>1. Tokens(s) = {Run(k) : k \in {m \in 1 .. Len(s) : First(m)}}
  BY DEF Tokens
<1>2. Len(s) \in Nat /\ RecordLen \in Nat /\ RecordLen >= 2
  BY DEF FifoAssumption
<1>3. \A k \in 1 .. Len(s) : s[k][2] \in 1 .. RecordLen /\ s[k] = <<s[k][1], s[k][2]>>
  <2>1. \A k \in 1 .. Len(s) : s[k] \in Workers \X (1 .. RecordLen)
    BY DEF RecordBytes
  <2> QED
    BY <2>1
\* A position p with the bytes of a record of w behind it gives the token of w.
<1>4. ASSUME NEW p \in 0 .. Len(s), NEW w, p + RecordLen <= Len(s),
             \A i \in 1 .. RecordLen : s[p + i] = <<w, i>>
      PROVE  Run(p + 1) = Digits(w) /\ ~Comma(s[p + 1])
  <2>1. \A i \in 1 .. RecordLen : Comma(s[p + i]) <=> i = RecordLen
    <3>1. \A i : <<w, i>>[2] = i
      OBVIOUS
    <3> QED
      BY <1>4, <3>1 DEF Comma
  <2>2. \A m \in p + 1 .. Len(s) : (\A j \in p + 1 .. m : ~Comma(s[j])) <=> m < p + RecordLen
    <3>1. TAKE m \in p + 1 .. Len(s)
    <3>2. ASSUME m < p + RecordLen, NEW j \in p + 1 .. m
          PROVE  ~Comma(s[j])
      <4>1. j - p \in 1 .. RecordLen /\ j - p # RecordLen /\ p + (j - p) = j
        BY <1>2, <3>2
      <4> QED
        BY <2>1, <4>1
    <3>3. ASSUME m >= p + RecordLen
          PROVE  p + RecordLen \in p + 1 .. m /\ Comma(s[p + RecordLen])
      BY <1>2, <2>1, <3>3
    <3> QED
      BY <1>2, <3>2, <3>3
  <2>3. Run(p + 1) = {s[l] : l \in p + 1 .. p + RecordLen - 1}
    <3>1. \A l : l \in {m \in p + 1 .. Len(s) : \A j \in p + 1 .. m : ~Comma(s[j])}
                 <=> l \in p + 1 .. p + RecordLen - 1
      <4>1. \A l \in p + 1 .. Len(s) : l < p + RecordLen <=> l \in p + 1 .. p + RecordLen - 1
        BY <1>2
      <4>2. \A l \in p + 1 .. p + RecordLen - 1 : l \in p + 1 .. Len(s)
        BY <1>2, <1>4
      <4> QED
        BY <2>2, <4>1, <4>2
    <3> QED
      BY <3>1
  <2>4. {s[l] : l \in p + 1 .. p + RecordLen - 1} = Digits(w)
    <3>1. ASSUME NEW l \in p + 1 .. p + RecordLen - 1
          PROVE  s[l] \in Digits(w)
      <4>1. l - p \in 1 .. RecordLen - 1 /\ l - p \in 1 .. RecordLen /\ p + (l - p) = l
        BY <1>2
      <4>2. s[p + (l - p)] = <<w, l - p>>
        BY <1>4, <4>1
      <4> QED
        BY <4>1, <4>2 DEF Digits
    <3>2. ASSUME NEW i \in 1 .. RecordLen - 1
          PROVE  p + i \in p + 1 .. p + RecordLen - 1 /\ s[p + i] = <<w, i>>
      BY <1>2, <1>4
    <3> QED
      BY <3>1, <3>2 DEF Digits
  <2>5. ~Comma(s[p + 1])
    BY <1>2, <2>1
  <2> QED
    BY <2>3, <2>4, <2>5
<1>5. ASSUME NEW k \in 1 .. Len(s), First(k)
      PROVE  Run(k) = Digits(s[k][1])
  <2> DEFINE p == k - s[k][2]
             w == s[k][1]
  <2>1. p \in 0 .. Len(s) /\ p + RecordLen <= Len(s) /\ \A i \in 1 .. RecordLen : s[p + i] = <<w, i>>
    <3>1. s[k][2] \in 1 .. RecordLen /\ k >= s[k][2] /\ k - s[k][2] + RecordLen <= Len(s)
      BY <1>3 DEF WholeRecords
    <3>2. k - s[k][2] \in 0 .. Len(s)
      BY <1>2, <3>1
    <3> QED
      BY <3>1, <3>2 DEF WholeRecords
  <2>2. s[k][2] = 1
    <3>1. SUFFICES ASSUME s[k][2] # 1
                   PROVE  FALSE
      OBVIOUS
    <3>2. s[k][2] - 1 \in 1 .. RecordLen /\ p + (s[k][2] - 1) = k - 1 /\ k # 1 /\ s[k][2] - 1 # RecordLen
      <4> DEFINE i == s[k][2]
      <4>1. i \in 1 .. RecordLen /\ i # 1 /\ p = k - i /\ p \in 0 .. Len(s) /\ k \in Nat
        BY <1>2, <1>3, <2>1, <3>1
      <4> HIDE DEF i, p
      <4>2. i - 1 \in 1 .. RecordLen /\ p + (i - 1) = k - 1 /\ k # 1 /\ i - 1 # RecordLen
        BY <1>2, <4>1
      <4> QED
        BY <4>2 DEF i
    <3>3. s[k - 1] = <<w, s[k][2] - 1>>
      BY <2>1, <3>2
    <3> QED
      BY <1>5, <3>2, <3>3 DEF Comma
  <2>3. p + 1 = k
    BY <2>2
  <2> HIDE DEF p, w, Run
  <2>4. Run(p + 1) = Digits(w)
    BY <1>4, <2>1
  <2> QED
    BY <2>3, <2>4 DEF w
<1>6. ASSUME NEW k \in 1 .. Len(s)
      PROVE  \E l \in 1 .. Len(s) : First(l) /\ Run(l) = Digits(s[k][1])
  <2> DEFINE p == k - s[k][2]
             w == s[k][1]
  <2>1. p \in 0 .. Len(s) /\ p + RecordLen <= Len(s) /\ \A i \in 1 .. RecordLen : s[p + i] = <<w, i>>
    <3>1. s[k][2] \in 1 .. RecordLen /\ k >= s[k][2] /\ k - s[k][2] + RecordLen <= Len(s)
      BY <1>3 DEF WholeRecords
    <3>2. k - s[k][2] \in 0 .. Len(s)
      BY <1>2, <3>1
    <3> QED
      BY <3>1, <3>2 DEF WholeRecords
  <2> HIDE DEF p, w
  <2>2. Run(p + 1) = Digits(w) /\ ~Comma(s[p + 1])
    BY <1>4, <2>1
  <2>3. p + 1 \in 1 .. Len(s) /\ s[p + 1] = <<w, 1>> /\ (p + 1) - 1 = p
    BY <1>2, <2>1
  <2>4. p = 0 \/ Comma(s[p])
    <3>1. SUFFICES ASSUME p # 0, ~Comma(s[p])
                   PROVE  FALSE
      OBVIOUS
    <3> DEFINE j == s[p][2]
    <3>2. p \in 1 .. Len(s) /\ j \in 1 .. RecordLen /\ j # RecordLen
      BY <1>2, <1>3, <2>1, <3>1 DEF Comma
    <3>3. j + 1 \in 1 .. RecordLen /\ p - j + (j + 1) = p + 1
      <4> HIDE DEF j
      <4>1. p \in Nat /\ j \in Nat /\ j < RecordLen
        BY <1>2, <2>1, <3>2
      <4> QED
        BY <1>2, <4>1
    <3>4. s[p - j + (j + 1)] = <<s[p][1], j + 1>>
      BY <3>2, <3>3 DEF WholeRecords
    <3>5. s[p + 1] = <<s[p][1], j + 1>>
      BY <3>3, <3>4
    <3> QED
      BY <2>3, <3>2, <3>5
  <2>5. First(p + 1)
    BY <2>2, <2>3, <2>4
  <2> QED
    BY <2>2, <2>3, <2>5 DEF w
<1> HIDE DEF First, Run
<1> QED
  BY <1>1, <1>5, <1>6
\* A record put behind the others keeps them apart and whole.
LEMMA AppendRecord ==
  ASSUME FifoAssumption, NEW s \in Seq(RecordBytes), NEW w \in Workers, Separated(s), EndsInComma(s)
  PROVE  LET t == s \o Record(w) IN
         /\ t \in Seq(RecordBytes) /\ Separated(t) /\ EndsInComma(t)
         /\ Elements(t) = Elements(s) \union {<<w, i>> : i \in 1 .. RecordLen}
         /\ WholeRecords(s) /\ (\A b \in Elements(s) : b[1] # w) => WholeRecords(t)
<1> DEFINE r == Record(w)
           t == s \o r
           n == Len(s)
<1>1. n \in Nat /\ RecordLen \in Nat /\ RecordLen >= 2
  BY DEF FifoAssumption
<1>2. r \in Seq(RecordBytes) /\ Len(r) = RecordLen /\ \A i \in 1 .. RecordLen : r[i] = <<w, i>>
  BY <1>1 DEF Record, RecordBytes
<1> HIDE DEF r
<1>3. /\ t \in Seq(RecordBytes) /\ Len(t) = n + RecordLen
      /\ \A k \in 1 .. n : t[k] = s[k]
      /\ \A i \in 1 .. RecordLen : t[n + i] = <<w, i>>
  <2>1. t \in Seq(RecordBytes) /\ Len(t) = n + RecordLen /\ \A k \in 1 .. n : t[k] = s[k]
    <3>1. t \in Seq(RecordBytes)
      BY <1>2
    <3>2. Len(t) = n + RecordLen
      <4>1. r \in Seq(RecordBytes) /\ Len(r) = RecordLen
        BY <1>2
      <4>2. Len(s \o r) = Len(s) + Len(r)
        BY <4>1
      <4> QED
        BY <4>1, <4>2
    <3>3. \A k \in 1 .. n : k \in 1 .. n + RecordLen /\ k <= n
      BY <1>1
    <3>4. \A k \in 1 .. n : t[k] = s[k]
      BY <1>1, <1>2, <3>3
    <3> HIDE DEF t
    <3> QED
      BY <3>1, <3>2, <3>4
  <2>2. ASSUME NEW i \in 1 .. RecordLen
        PROVE  t[n + i] = <<w, i>>
    <3>1. n + i \in 1 .. n + RecordLen /\ n + i > n /\ (n + i) - n = i
      BY <1>1
    <3>2. t[n + i] = r[(n + i) - n]
      BY <1>1, <1>2, <3>1
    <3> QED
      BY <1>2, <3>1, <3>2
  <2> HIDE DEF t
  <2> QED
    BY <2>1, <2>2
<1> HIDE DEF t
<1>4. \A k \in 1 .. Len(t) : k \in 1 .. n \/ (k - n \in 1 .. RecordLen /\ n + (k - n) = k)
  BY <1>1, <1>3
<1>5. \A k \in 1 .. Len(t) : k > n => t[k] = <<w, k - n>> /\ k - n \in 1 .. RecordLen
  <2>1. TAKE k \in 1 .. Len(t)
  <2>2. HAVE k > n
  <2>3. k - n \in 1 .. RecordLen /\ n + (k - n) = k
    BY <1>1, <1>4, <2>2
  <2>4. t[n + (k - n)] = <<w, k - n>>
    BY <1>3, <2>3
  <2> QED
    BY <2>3, <2>4
<1>6. Separated(t)
  <2>1. SUFFICES ASSUME NEW i \in 1 .. Len(t), NEW j \in 1 .. Len(t), i <= j,
                        \A l \in i .. j - 1 : ~Comma(t[l])
                 PROVE  t[i][1] = t[j][1]
    BY DEF Separated
  <2>2. CASE j <= n
    <3>1. i \in 1 .. n /\ j \in 1 .. n /\ \A l \in i .. j - 1 : l \in 1 .. n
      BY <1>1, <2>1, <2>2
    <3> QED
      BY <1>3, <2>1, <3>1 DEF Separated
  <2>3. CASE i > n
    <3>1. t[i] = <<w, i - n>> /\ t[j] = <<w, j - n>>
      BY <1>1, <1>5, <2>1, <2>3
    <3> QED
      BY <3>1
  <2>4. CASE i <= n /\ j > n
    <3>1. n \in i .. j - 1 /\ n \in 1 .. n /\ s # <<>>
      BY <1>1, <2>1, <2>4
    <3> QED
      BY <1>3, <2>1, <3>1 DEF EndsInComma
  <2> QED
    BY <1>1, <2>2, <2>3, <2>4
<1>7. EndsInComma(t)
  <2>1. t[n + RecordLen] = <<w, RecordLen>>
    <3>1. RecordLen \in 1 .. RecordLen
      BY <1>1
    <3> QED
      BY <1>3, <3>1
  <2> QED
    BY <1>3, <2>1 DEF EndsInComma, Comma
<1>8. Elements(t) = Elements(s) \union {<<w, i>> : i \in 1 .. RecordLen}
  <2>1. \A k \in 1 .. n : k \in 1 .. Len(t)
    BY <1>1, <1>3
  <2>2. \A i \in 1 .. RecordLen : n + i \in 1 .. Len(t)
    BY <1>1, <1>3
  <2>3. \A k \in 1 .. Len(t) :
          (k \in 1 .. n /\ t[k] = s[k]) \/ (k - n \in 1 .. RecordLen /\ t[k] = <<w, k - n>>)
    BY <1>1, <1>3, <1>4, <1>5
  <2> QED
    BY <1>3, <2>1, <2>2, <2>3 DEF Elements
<1>9. ASSUME WholeRecords(s), \A b \in Elements(s) : b[1] # w
      PROVE  WholeRecords(t)
  <2>1. ASSUME NEW k \in 1 .. Len(t)
        PROVE  /\ k >= t[k][2] /\ k - t[k][2] + RecordLen <= Len(t)
               /\ \A i \in 1 .. RecordLen : t[k - t[k][2] + i] = <<t[k][1], i>>
    <3>1. CASE k > n
      <4>1. t[k] = <<w, k - n>>
        BY <1>5, <3>1
      <4>2. t[k][2] = k - n /\ t[k][1] = w /\ k - (k - n) = n
        BY <1>1, <4>1
      <4>3. k >= k - n /\ n + RecordLen <= Len(t)
        BY <1>1, <1>3
      <4>4. \A i \in 1 .. RecordLen : t[n + i] = <<w, i>>
        BY <1>3
      <4> QED
        BY <4>2, <4>3, <4>4
    <3>2. CASE k <= n
      <4>1. k \in 1 .. n /\ s[k][2] \in 1 .. RecordLen /\ t[k] = s[k]
        <5>1. k \in 1 .. n
          BY <3>2
        <5>2. s[k] \in Workers \X (1 .. RecordLen)
          BY <5>1 DEF RecordBytes
        <5> QED
          BY <1>3, <5>1, <5>2
      <4> DEFINE p == k - s[k][2]
      <4>2. k >= s[k][2] /\ p + RecordLen <= n /\ \A i \in 1 .. RecordLen : s[p + i] = <<s[k][1], i>>
        BY <1>9, <4>1 DEF WholeRecords
      <4>3. p \in Nat
        BY <4>1, <4>2
      <4> HIDE DEF p
      <4>4. \A i \in 1 .. RecordLen : p + i \in 1 .. n
        BY <1>1, <4>2, <4>3
      <4>5. p + RecordLen <= Len(t) /\ \A i \in 1 .. RecordLen : t[p + i] = <<t[k][1], i>>
        <5>1. p + RecordLen <= Len(t)
          BY <1>1, <1>3, <4>2, <4>3
        <5>2. ASSUME NEW i \in 1 .. RecordLen
              PROVE  t[p + i] = <<t[k][1], i>>
          <6>1. p + i \in 1 .. n /\ s[p + i] = <<s[k][1], i>>
            BY <4>2, <4>4
          <6> QED
            BY <1>3, <4>1, <6>1
        <5> QED
          BY <5>1, <5>2
      <4> QED
        BY <4>1, <4>2, <4>5 DEF p
    <3>3. k > n \/ k <= n
      BY <1>1, <1>3
    <3> QED
      BY <3>1, <3>2, <3>3
  <2>2. ASSUME NEW k \in 1 .. Len(t), NEW l \in 1 .. Len(t), t[k] = t[l]
        PROVE  k = l
    <3>1. \A m \in 1 .. n : t[m] = s[m] /\ s[m] \in Elements(s) /\ s[m][1] # w
      BY <1>3, <1>9 DEF Elements
    <3>2. \A m \in 1 .. Len(t) : m > n => t[m][1] = w /\ t[m][2] = m - n
      BY <1>5
    <3>3. (k <= n /\ l <= n) \/ (k > n /\ l > n)
      <4>1. \A m \in 1 .. Len(t) : m <= n => m \in 1 .. n
        BY <1>1
      <4> QED
        BY <1>1, <2>2, <3>1, <3>2, <4>1
    <3>4. CASE k <= n /\ l <= n
      BY <1>9, <2>2, <3>1, <3>4 DEF WholeRecords
    <3>5. CASE k > n /\ l > n
      BY <1>1, <2>2, <3>2, <3>5
    <3> QED
      BY <3>3, <3>4, <3>5
  <2> QED
    BY <2>1, <2>2 DEF WholeRecords
<1> QED
  BY <1>3, <1>6, <1>7, <1>8, <1>9 DEF t, r

\* A chunk and what is left of the stream have the bytes of the stream, kept apart as before.
LEMMA CutStream ==
  ASSUME NEW s \in Seq(RecordBytes), Separated(s), EndsInComma(s), NEW n \in 0 .. Len(s)
  PROVE  LET c == SubSeq(s, 1, n)
             t == SubSeq(s, n + 1, Len(s)) IN
         /\ c \in Seq(RecordBytes) /\ t \in Seq(RecordBytes)
         /\ Separated(c) /\ Separated(t) /\ EndsInComma(t)
         /\ Elements(s) = Elements(c) \union Elements(t)
<1> DEFINE c == SubSeq(s, 1, n)
           t == SubSeq(s, n + 1, Len(s))
<1>1. Len(s) \in Nat /\ n \in Nat /\ n <= Len(s)
  OBVIOUS
<1>2. /\ c \in Seq(RecordBytes) /\ Len(c) = n /\ \A k \in 1 .. n : c[k] = s[k]
  BY <1>1
<1>3. /\ t \in Seq(RecordBytes) /\ Len(t) = Len(s) - n /\ \A k \in 1 .. Len(s) - n : t[k] = s[n + k]
  BY <1>1
<1> HIDE DEF c, t
<1>4. Separated(c)
  <2>1. SUFFICES ASSUME NEW i \in 1 .. n, NEW j \in 1 .. n, i <= j, \A l \in i .. j - 1 : ~Comma(c[l])
                 PROVE  c[i][1] = c[j][1]
    BY <1>2 DEF Separated
  <2>2. i \in 1 .. Len(s) /\ j \in 1 .. Len(s) /\ \A l \in i .. j - 1 : l \in 1 .. n
    BY <1>1
  <2> QED
    BY <1>2, <2>1, <2>2 DEF Separated
<1>5. Separated(t)
  <2>1. SUFFICES ASSUME NEW i \in 1 .. Len(s) - n, NEW j \in 1 .. Len(s) - n, i <= j,
                        \A l \in i .. j - 1 : ~Comma(t[l])
                 PROVE  t[i][1] = t[j][1]
    BY <1>3 DEF Separated
  <2>2. n + i \in 1 .. Len(s) /\ n + j \in 1 .. Len(s) /\ n + i <= n + j
    BY <1>1, <2>1
  <2>3. \A l \in n + i .. (n + j) - 1 : ~Comma(s[l])
    <3>1. TAKE l \in n + i .. (n + j) - 1
    <3>2. l - n \in i .. j - 1 /\ l - n \in 1 .. Len(s) - n /\ n + (l - n) = l
      BY <1>1
    <3> QED
      BY <1>3, <2>1, <3>2
  <2>4. s[n + i][1] = s[n + j][1]
    BY <2>2, <2>3 DEF Separated
  <2> QED
    BY <1>3, <2>4
<1>6. EndsInComma(t)
  <2>1. SUFFICES ASSUME t # <<>>
                 PROVE  Comma(t[Len(t)])
    BY DEF EndsInComma
  <2>2. Len(t) \in 1 .. Len(s) - n /\ n + Len(t) = Len(s)
    BY <1>1, <1>3, <2>1
  <2>3. s # <<>>
    BY <1>1, <2>2
  <2> QED
    BY <1>3, <2>2, <2>3 DEF EndsInComma
<1>7. Elements(s) = Elements(c) \union Elements(t)
  <2>1. \A k \in 1 .. Len(s) : k \in 1 .. n \/ (k - n \in 1 .. Len(s) - n /\ n + (k - n) = k)
    BY <1>1
  <2>2. \A k \in 1 .. n : k \in 1 .. Len(s)
    BY <1>1
  <2>3. \A k \in 1 .. Len(s) - n : n + k \in 1 .. Len(s)
    BY <1>1
  <2>4. \A k \in 1 .. Len(s) :
          (k \in 1 .. n /\ s[k] = c[k]) \/ (k - n \in 1 .. Len(s) - n /\ s[k] = t[k - n])
    <3>1. TAKE k \in 1 .. Len(s)
    <3>2. k - n \in 1 .. Len(s) - n => t[k - n] = s[n + (k - n)]
      BY <1>3
    <3> QED
      BY <1>2, <2>1, <3>2
  <2>5. \A k \in 1 .. n : c[k] \in Elements(s)
    BY <1>2, <2>2 DEF Elements
  <2>6. \A k \in 1 .. Len(s) - n : t[k] \in Elements(s)
    BY <1>3, <2>3 DEF Elements
  <2>7. \A k \in 1 .. Len(s) : s[k] \in Elements(c) \union Elements(t)
    BY <1>2, <1>3, <2>4 DEF Elements
  <2>8. Elements(c) = {c[k] : k \in 1 .. n} /\ Elements(t) = {t[k] : k \in 1 .. Len(s) - n}
    BY <1>2, <1>3 DEF Elements
  <2>9. Elements(s) \subseteq Elements(c) \union Elements(t)
    BY <2>7 DEF Elements
  <2> QED
    BY <2>5, <2>6, <2>8, <2>9
<1> QED
  BY <1>2, <1>3, <1>4, <1>5, <1>6, <1>7 DEF c, t

\* Whole records are no longer than those of all the workers that were started.
LEMMA WholeLength ==
  ASSUME FifoAssumption, n_procs \in 0 .. MaxWorkers, NEW s \in Seq(RecordBytes), WholeRecords(s),
         \A b \in Elements(s) : b[1] \in Started
  PROVE  Len(s) <= n_procs * RecordLen
<1> DEFINE D == 1 .. Len(s)
           S == 1 .. n_procs
           T == 1 .. RecordLen
<1>1. n_procs \in Nat /\ n_procs <= MaxWorkers /\ RecordLen \in Nat /\ MaxWorkers \in Nat /\ Len(s) \in Nat
  BY DEF FifoAssumption
<1>2. s \in [D -> S \X T]
  <2>1. ASSUME NEW k \in D
        PROVE  s[k] \in S \X T
    <3>1. s[k] \in Workers \X T /\ s[k] \in Elements(s)
      BY DEF RecordBytes, Elements
    <3>2. s[k][1] \in S
      BY <1>1, <3>1 DEF Started, Workers
    <3> QED
      BY <3>1, <3>2
  <2>2. s \in [D -> RecordBytes]
    OBVIOUS
  <2> HIDE DEF D, S, T
  <2> QED
    BY <2>1, <2>2
<1>3. \A k, l \in D : s[k] = s[l] => k = l
  BY DEF WholeRecords
<1>4. IsFiniteSet(S) /\ Cardinality(S) = n_procs
  BY <1>1, FS_Interval
<1>5. IsFiniteSet(T) /\ Cardinality(T) = RecordLen
  BY <1>1, FS_Interval
<1>6. Cardinality(D) = Len(s)
  BY <1>1, FS_Interval
<1> HIDE DEF D, S, T
<1>7. s \in Injection(D, S \X T)
  BY <1>2, <1>3, Fun_IsInj
<1>8. IsFiniteSet(S \X T) /\ Cardinality(S \X T) = n_procs * RecordLen
  BY <1>4, <1>5, FS_Product
<1> QED
  BY <1>6, <1>7, <1>8, FS_Injection

\* The digits of two workers are different.
LEMMA DigitsApart ==
  ASSUME FifoAssumption, NEW v, NEW w, Digits(v) = Digits(w)
  PROVE  v = w
<1>1. 1 \in 1 .. RecordLen - 1
  BY DEF FifoAssumption
<1>2. <<v, 1>> \in Digits(v)
  BY <1>1 DEF Digits
<1>3. PICK k \in 1 .. RecordLen - 1 : <<v, 1>> = <<w, k>>
  BY <1>2 DEF Digits
<1> QED
  BY <1>3

\* The numbers of a set of workers are as many as the workers.
LEMMA CountDigits ==
  ASSUME FifoAssumption, NEW S, IsFiniteSet(S)
  PROVE  LET N == {Digits(w) : w \in S} IN IsFiniteSet(N) /\ Cardinality(N) = Cardinality(S)
<1> DEFINE N == {Digits(w) : w \in S}
           f == [w \in S |-> Digits(w)]
<1>1. f \in [S -> N] /\ (\A n \in N : \E w \in S : f[w] = n)
  OBVIOUS
<1>2. \A v, w \in S : f[v] = f[w] => v = w
  BY DigitsApart
<1> HIDE DEF N, f
<1>3. f \in Injection(S, N)
  BY <1>1, <1>2, Fun_IsInj
<1>4. f \in Surjection(S, N)
  BY <1>1, Fun_IsSurj
<1> QED
  BY <1>3, <1>4, FS_Surjection DEF N

\* Nothing is written or read before the open.
LEMMA FifoInitInv ==
  ASSUME FifoAssumption, FifoInit
  PROVE  FifoInv
<1> USE DEF FifoInit
<1>1. MaxWorkers \in Nat \ {0} /\ Started = {}
  BY DEF FifoAssumption, Started, Workers
<1>2. InPipe = {} /\ \A w \in Workers : worker[w] = "none"
  BY DEF InPipe, Elements
<1>3. FifoTypes
  BY <1>1, <1>2 DEF FifoTypes
<1>4. StreamInv
  BY <1>1, <1>2 DEF StreamInv, Separated, EndsInComma, Reading
<1>5. WholeInv
  BY DEF WholeInv, Reading
<1> QED
  BY <1>3, <1>4, <1>5 DEF FifoInv

\* The steps of the integrator before it reads, and its last.
LEMMA IntegratorMoves ==
  ASSUME FifoAssumption, FifoInv, FifoMain \/ ForkWorkers \/ OpenStream \/ RemoveStream
  PROVE  FifoInv'
<1> USE DEF FifoInv
<1>1. UNCHANGED <<stream, summed, summed_component_number>> /\ InPipe' = InPipe
  BY DEF FifoMain, ForkWorkers, OpenStream, RemoveStream, InPipe
<1>2. CASE FifoMain
  <2>1. /\ integrator = "main" /\ integrator' = "fork" /\ n_procs' \in 1 .. MaxWorkers
        /\ UNCHANGED worker
    BY <1>2 DEF FifoMain, Workers
  <2>2. stream = <<>> /\ summed = {} /\ summed_component_number = 0 /\ InPipe = {}
    BY <2>1 DEF StreamInv, InPipe, Elements
  <2>3. \A w \in Workers : worker[w] = "none"
    BY <2>1 DEF FifoTypes, Started, FifoAssumption
  <2>4. FifoTypes'
    BY <1>1, <2>1, <2>3 DEF FifoTypes, FifoAssumption
  <2>5. StreamInv'
    BY <1>1, <2>1, <2>2, <2>3 DEF StreamInv, Separated, EndsInComma, Reading
  <2>6. WholeInv'
    BY <2>1 DEF WholeInv, Reading
  <2> QED
    BY <2>4, <2>5, <2>6
<1>3. CASE ForkWorkers
  <2>1. /\ integrator = "fork" /\ integrator' \in {"fork", "open"} /\ UNCHANGED n_procs
        /\ \/ UNCHANGED worker
           \/ \E w \in Started, s \in {"integrate", "notForked"} : worker' = [worker EXCEPT ![w] = s]
    BY <1>3 DEF ForkWorkers
  <2>2. Started' = Started /\ Started \subseteq Workers
    BY <2>1 DEF Started
  <2>3. FifoTypes'
    BY <1>1, <2>1, <2>2 DEF FifoTypes
  <2>4. \A w \in Workers : worker'[w] \in {"none", "notForked", "integrate", "open"}
    BY <2>1, <2>2 DEF StreamInv, FifoTypes
  <2>5. StreamInv'
    BY <1>1, <2>1, <2>2, <2>4 DEF StreamInv, Reading
  <2>6. WholeInv'
    BY <2>1 DEF WholeInv, Reading
  <2> QED
    BY <2>3, <2>5, <2>6
<1>4. CASE OpenStream
  <2>1. /\ UNCHANGED <<n_procs, worker>>
        /\ \/ integrator = "open" /\ integrator' = "opening"
           \/ integrator = "opening" /\ integrator' = "read"
    BY <1>4 DEF OpenStream
  <2>2. Started' = Started /\ HasWritten' = HasWritten /\ Emptied' = Emptied
    BY <1>1, <2>1 DEF Started, HasWritten, Emptied
  <2>3. FifoTypes'
    BY <1>1, <2>1, <2>2 DEF FifoTypes
  <2>4. integrator = "open" => HasWritten = {} /\ Emptied = {} /\ InPipe = {} /\ stream = <<>>
                               /\ summed = {} /\ summed_component_number = 0
    BY DEF StreamInv, HasWritten, Emptied, Started, InPipe, Elements
  <2>5. StreamInv'
    BY <1>1, <2>1, <2>2, <2>4 DEF StreamInv, Reading
  <2>6. integrator = "open" => WholeRecords(stream) /\ summed_component_number = Cardinality(summed)
    <3>1. WholeRecords(<<>>) /\ Cardinality({}) = 0
      BY FS_EmptySet DEF WholeRecords
    <3> QED
      BY <2>4, <3>1
  <2>7. WholeInv'
    BY <1>1, <2>1, <2>2, <2>4, <2>6 DEF WholeInv, Reading, Fits
  <2> QED
    BY <2>3, <2>5, <2>7
<1>5. CASE RemoveStream
  <2>1. integrator = "remove" /\ integrator' = "ended" /\ UNCHANGED <<n_procs, worker>>
    BY <1>5 DEF RemoveStream
  <2>2. Started' = Started
    BY <2>1 DEF Started
  <2> QED
    BY <1>1, <2>1, <2>2 DEF FifoTypes, StreamInv, WholeInv, Reading, Fits
<1> QED
  BY <1>2, <1>3, <1>4, <1>5

\* What is read is added to the sum: no byte but the commas goes.
LEMMA ReadKeepsDigits ==
  ASSUME FifoAssumption, FifoInv, ReadStream
  PROVE  FifoTypes' /\ StreamInv'
<1> USE DEF FifoInv
<1> DEFINE c == SubSeq(stream, 1, read_size)
           t == SubSeq(stream, read_size + 1, Len(stream))
<1>1. /\ integrator = "read" /\ stream' = t /\ summed' = summed \union Tokens(c)
      /\ summed_component_number' = summed_component_number + Cardinality(Tokens(c))
      /\ UNCHANGED <<n_procs, integrator, worker>>
  BY DEF ReadStream, read_buffer
<1>2. stream \in Seq(RecordBytes) /\ Len(stream) \in Nat /\ read_size \in 0 .. Len(stream)
  BY DEF FifoTypes, read_size, FifoAssumption
<1>3. /\ c \in Seq(RecordBytes) /\ t \in Seq(RecordBytes)
      /\ Separated(c) /\ Separated(t) /\ EndsInComma(t)
      /\ InPipe = Elements(c) \union Elements(t)
  BY <1>2, CutStream DEF StreamInv, InPipe
<1> HIDE DEF c, t
<1>4. InPipe' = Elements(t) /\ Started' = Started /\ HasWritten' = HasWritten
  BY <1>1 DEF InPipe, Started, HasWritten
<1>5. \A u \in Tokens(c) : \E w \in Started : u \subseteq Digits(w)
  <2>1. TAKE u \in Tokens(c)
  <2>2. PICK k \in 1 .. Len(c) : u \subseteq Digits(c[k][1])
    BY <1>3, TokenOfOne
  <2>3. c[k] \in InPipe
    BY <1>3 DEF Elements
  <2> QED
    BY <2>2, <2>3 DEF StreamInv
<1>6. UNION Tokens(c) = {b \in Elements(c) : ~Comma(b)}
  BY <1>3, TokensCover DEF Elements
<1>7. (UNION summed') \union {b \in InPipe' : ~Comma(b)} = UNION {Digits(w) : w \in HasWritten'}
  <2>1. (UNION summed) \union {b \in InPipe : ~Comma(b)} = UNION {Digits(w) : w \in HasWritten}
    BY <1>1 DEF StreamInv, Reading
  <2>2. UNION summed' = (UNION summed) \union (UNION Tokens(c))
    <3>1. \A A, B : UNION (A \union B) = (UNION A) \union (UNION B)
      OBVIOUS
    <3> QED
      BY <1>1, <3>1
  <2>3. {b \in InPipe : ~Comma(b)} = {b \in Elements(c) : ~Comma(b)} \union {b \in Elements(t) : ~Comma(b)}
    BY <1>3
  <2>4. (UNION summed') \union {b \in InPipe' : ~Comma(b)} = (UNION summed) \union {b \in InPipe : ~Comma(b)}
    BY <1>4, <1>6, <2>2, <2>3
  <2> QED
    BY <1>4, <2>1, <2>4
<1>8. Cardinality(Tokens(c)) \in Nat
  <2>1. IsFiniteSet(1 .. Len(c))
    BY <1>3, FS_Interval
  <2> DEFINE Run(k) == {c[l] : l \in {m \in k .. Len(c) : \A j \in k .. m : ~Comma(c[j])}}
             T == {Run(k) : k \in 1 .. Len(c)}
             f == [k \in 1 .. Len(c) |-> Run(k)]
  <2>2. Tokens(c) \subseteq T
    BY DEF Tokens
  <2>3. f \in [1 .. Len(c) -> T] /\ \A u \in T : \E k \in 1 .. Len(c) : f[k] = u
    <3> HIDE DEF Run
    <3> QED
      OBVIOUS
  <2> HIDE DEF T, f
  <2>4. IsFiniteSet(T)
    BY <2>1, <2>3, Fun_IsSurj, FS_Surjection
  <2>5. IsFiniteSet(Tokens(c))
    BY <2>2, <2>4, FS_Subset
  <2> QED
    BY <2>5, FS_CardinalityType
<1>9. FifoTypes'
  BY <1>1, <1>3, <1>4, <1>8 DEF FifoTypes
<1>10. StreamInv'
  <2>1. \A b \in InPipe' : b[1] \in Started'
    BY <1>3, <1>4 DEF StreamInv
  <2>2. \A u \in summed' : \E w \in Started' : u \subseteq Digits(w)
    BY <1>1, <1>4, <1>5 DEF StreamInv
  <2> QED
    BY <1>1, <1>3, <1>7, <2>1, <2>2 DEF StreamInv
<1> QED
  BY <1>9, <1>10

\* When all records fit, a read empties the pipe.
LEMMA ReadAllRecords ==
  ASSUME FifoAssumption, FifoInv, ReadStream
  PROVE  WholeInv'
<1> USE DEF FifoInv
<1>1. /\ integrator = "read" /\ integrator' = "read" /\ UNCHANGED <<n_procs, worker>>
      /\ stream' = SubSeq(stream, read_size + 1, Len(stream))
      /\ summed' = summed \union Tokens(read_buffer)
      /\ summed_component_number' = summed_component_number + Cardinality(Tokens(read_buffer))
  BY DEF ReadStream
<1>2. Started' = Started /\ HasWritten' = HasWritten /\ Fits' = Fits
  BY <1>1 DEF Started, HasWritten, Fits
<1>3. SUFFICES ASSUME Fits
               PROVE  /\ WholeRecords(stream') /\ InPipe' = {}
                      /\ summed' = {Digits(w) : w \in HasWritten}
                      /\ summed_component_number' = Cardinality(summed')
  <2>1. InPipe' = {} => Emptied' = HasWritten
    BY <1>2 DEF Emptied
  <2> QED
    BY <1>1, <1>2, <1>3, <2>1 DEF WholeInv
<1>4. /\ WholeRecords(stream) /\ \A b \in InPipe : b[1] \in HasWritten
      /\ summed = {Digits(w) : w \in Emptied} /\ summed_component_number = Cardinality(summed)
  BY <1>1, <1>3 DEF WholeInv, Reading
<1>5. stream \in Seq(RecordBytes) /\ n_procs \in 0 .. MaxWorkers /\ Len(stream) \in Nat
  BY DEF FifoTypes
<1>6. Len(stream) <= READ_BUFF_SIZE
  <2>1. Len(stream) <= n_procs * RecordLen
    BY <1>4, <1>5, WholeLength DEF StreamInv, InPipe
  <2>2. n_procs * RecordLen <= READ_BUFF_SIZE /\ n_procs * RecordLen \in Nat
    BY <1>3, <1>5 DEF Fits, FifoAssumption
  <2> QED
    BY <1>5, <2>1, <2>2 DEF FifoAssumption
<1>7. read_size = Len(stream)
  BY <1>5, <1>6 DEF read_size, FifoAssumption
<1>8. read_buffer = stream /\ stream' = <<>>
  <2>1. SubSeq(stream, 1, Len(stream)) = stream
    BY <1>5
  <2>2. SubSeq(stream, Len(stream) + 1, Len(stream)) = <<>>
    BY <1>5
  <2> QED
    BY <1>1, <1>7, <2>1, <2>2 DEF read_buffer
<1>9. WholeRecords(stream') /\ InPipe' = {}
  BY <1>8 DEF WholeRecords, InPipe, Elements
<1> DEFINE P == {b[1] : b \in InPipe}
<1>10. Tokens(read_buffer) = {Digits(w) : w \in P}
  <2>1. {stream[k][1] : k \in 1 .. Len(stream)} = P
    BY DEF InPipe, Elements
  <2> QED
    BY <1>4, <1>5, <1>8, <2>1, TokensOfWhole
<1>11. Emptied \union P = HasWritten /\ Emptied \intersect P = {}
  BY <1>4 DEF Emptied
<1>12. IsFiniteSet(HasWritten)
  <2>1. IsFiniteSet(1 .. MaxWorkers)
    BY FS_Interval DEF FifoAssumption
  <2> QED
    BY <2>1, FS_Subset DEF HasWritten, Started, Workers
<1> HIDE DEF P
<1>13. IsFiniteSet(Emptied) /\ IsFiniteSet(P)
  BY <1>11, <1>12, FS_Subset
<1>14. summed' = {Digits(w) : w \in HasWritten}
  BY <1>1, <1>4, <1>10, <1>11
<1>15. Cardinality(HasWritten) = Cardinality(Emptied) + Cardinality(P)
  <2>1. Cardinality(Emptied \intersect P) = 0
    BY <1>11, FS_EmptySet
  <2>2. Cardinality(Emptied) \in Nat /\ Cardinality(P) \in Nat
    BY <1>13, FS_CardinalityType
  <2>3. Cardinality(Emptied \union P) =
          Cardinality(Emptied) + Cardinality(P) - Cardinality(Emptied \intersect P)
    BY <1>13, FS_Union
  <2>4. Cardinality(HasWritten) = Cardinality(Emptied \union P)
    BY <1>11
  <2> QED
    BY <2>1, <2>2, <2>3, <2>4
<1>16. summed_component_number' = Cardinality(summed')
  BY <1>1, <1>4, <1>10, <1>12, <1>13, <1>14, <1>15, CountDigits
<1> QED
  BY <1>9, <1>14, <1>16

\* When as many numbers as workers were summed and all records fit, they are the workers'.
LEMMA CloseStreamStep ==
  ASSUME FifoAssumption, FifoInv, CloseStream
  PROVE  FifoInv'
<1> USE DEF FifoInv
<1>1. /\ integrator = "read" /\ summed_component_number >= n_procs /\ integrator' = "remove"
      /\ UNCHANGED <<n_procs, worker, stream, summed, summed_component_number>>
  BY DEF CloseStream, MoreToSum, FifoTypes
<1>2. Started' = Started /\ InPipe' = InPipe /\ Fits' = Fits
  BY <1>1 DEF Started, InPipe, Fits
<1>3. FifoTypes' /\ StreamInv'
  BY <1>1, <1>2 DEF FifoTypes, StreamInv, Reading
<1>4. ASSUME Fits
      PROVE  summed = {Digits(w) : w \in Started}
  <2>1. summed = {Digits(w) : w \in Emptied} /\ summed_component_number = Cardinality(summed)
    BY <1>1, <1>4 DEF WholeInv, Reading
  <2>2. n_procs \in Nat /\ Started = 1 .. n_procs
    BY DEF FifoTypes, FifoAssumption, Started, Workers
  <2>3. IsFiniteSet(Started) /\ Cardinality(Started) = n_procs
    BY <2>2, FS_Interval
  <2>4. Emptied \subseteq Started
    BY DEF Emptied, HasWritten
  <2>5. IsFiniteSet(Emptied) /\ Cardinality(Emptied) <= Cardinality(Started)
    BY <2>3, <2>4, FS_Subset
  <2>6. Cardinality(Emptied) = summed_component_number /\ Cardinality(Emptied) \in Nat
    BY <2>1, <2>5, CountDigits, FS_CardinalityType
  <2>7. Cardinality(Started) = Cardinality(Emptied)
    BY <1>1, <2>2, <2>3, <2>5, <2>6
  <2>8. Emptied = Started
    BY <2>3, <2>4, <2>7, FS_Subset
  <2> QED
    BY <2>1, <2>8
<1>5. WholeInv'
  BY <1>1, <1>2, <1>4 DEF WholeInv, Reading
<1> QED
  BY <1>3, <1>5

\* A worker that neither writes nor ends after a write.
LEMMA WorkerMoves ==
  ASSUME FifoAssumption, FifoInv, NEW w \in Workers, Integrate(w) \/ WorkerOpen(w) \/ WorkerClose(w)
  PROVE  FifoInv'
<1> USE DEF FifoInv
<1>1. UNCHANGED <<n_procs, integrator, stream, summed, summed_component_number>>
  BY DEF Integrate, WorkerOpen, WorkerClose, WorkerBecomes
<1>2. PICK s \in {"open", "write", "ended"} :
        /\ worker' = [worker EXCEPT ![w] = s] /\ worker[w] # "none"
        /\ Reading => (s = "ended" <=> worker[w] = "close") /\ worker[w] # "ended"
        /\ integrator \in {"main", "fork", "open"} => s = "open"
  <2>1. CASE Integrate(w)
    BY <2>1 DEF Integrate, WorkerBecomes, Reading
  <2>2. CASE WorkerOpen(w)
    BY <2>2 DEF WorkerOpen, WorkerBecomes, Reading
  <2>3. CASE WorkerClose(w)
    BY <2>3 DEF WorkerClose, WorkerBecomes, Reading, StreamInv
  <2> QED
    BY <2>1, <2>2, <2>3
<1>3. Started' = Started /\ InPipe' = InPipe /\ Fits' = Fits /\ Started \subseteq Workers
  BY <1>1 DEF Started, InPipe, Fits
<1>4. FifoTypes'
  BY <1>1, <1>2, <1>3 DEF FifoTypes
<1>5. Reading => HasWritten' = HasWritten
  BY <1>2, <1>3 DEF HasWritten, FifoTypes
<1>6. Reading' = Reading
  BY <1>1 DEF Reading
<1>7. StreamInv'
  <2>1. integrator \in {"main", "fork", "open"} =>
          \A v \in Workers : worker'[v] \in {"none", "notForked", "integrate", "open"}
    BY <1>2 DEF StreamInv, FifoTypes
  <2> QED
    BY <1>1, <1>3, <1>5, <1>6, <2>1 DEF StreamInv
<1>8. Reading => Emptied' = Emptied
  BY <1>3, <1>5 DEF Emptied
<1>9. WholeInv'
  BY <1>1, <1>3, <1>5, <1>6, <1>8 DEF WholeInv
<1> QED
  BY <1>4, <1>7, <1>9

\* The record that is written is the only one of its worker.
LEMMA WorkerWriteStep ==
  ASSUME FifoAssumption, FifoInv, NEW w \in Workers, WorkerWrite(w)
  PROVE  FifoInv'
<1> USE DEF FifoInv
<1>1. /\ worker[w] = "write" /\ UNCHANGED <<n_procs, integrator, summed, summed_component_number>>
      /\ worker' = [worker EXCEPT ![w] = IF Reading THEN "close" ELSE "ended"]
      /\ stream' = IF Reading THEN stream \o Record(w) ELSE stream
  BY DEF WorkerWrite, WorkerBecomes
<1>2. Started' = Started /\ Fits' = Fits /\ Reading' = Reading /\ w \in Started
  BY <1>1 DEF Started, Fits, Reading, FifoTypes
<1>3. integrator \notin {"main", "fork", "open"}
  BY <1>1 DEF StreamInv
<1>4. CASE ~Reading
  <2>1. UNCHANGED <<stream, InPipe>> /\ integrator \in {"remove", "ended"}
    BY <1>1, <1>3, <1>4 DEF InPipe, Reading, FifoTypes
  <2>2. FifoTypes'
    BY <1>1, <1>2, <1>4, <2>1 DEF FifoTypes
  <2>3. StreamInv'
    BY <1>1, <1>2, <1>3, <1>4, <2>1 DEF StreamInv
  <2>4. WholeInv'
    BY <1>1, <1>2, <1>4, <2>1 DEF WholeInv
  <2> QED
    BY <2>2, <2>3, <2>4
<1>5. CASE Reading
  <2> DEFINE t == stream \o Record(w)
  <2>1. /\ t \in Seq(RecordBytes) /\ Separated(t) /\ EndsInComma(t)
        /\ Elements(t) = Elements(stream) \union {<<w, i>> : i \in 1 .. RecordLen}
        /\ WholeRecords(stream) /\ (\A b \in Elements(stream) : b[1] # w) => WholeRecords(t)
    BY AppendRecord DEF StreamInv, FifoTypes
  <2>2. stream' = t
    BY <1>1, <1>5
  <2> HIDE DEF t
  <2>3. InPipe' = InPipe \union {<<w, i>> : i \in 1 .. RecordLen}
    BY <2>1, <2>2 DEF InPipe
  <2>4. HasWritten' = HasWritten \union {w} /\ w \notin HasWritten
    BY <1>1, <1>2, <1>5 DEF HasWritten, FifoTypes, Started
  <2>5. FifoTypes'
    BY <1>1, <1>2, <1>5, <2>1, <2>2 DEF FifoTypes
  <2>6. {b \in InPipe' : ~Comma(b)} = {b \in InPipe : ~Comma(b)} \union Digits(w)
    <3>1. \A i \in 1 .. RecordLen : ~Comma(<<w, i>>) <=> i \in 1 .. RecordLen - 1
      BY DEF Comma, FifoAssumption
    <3>2. \A i \in 1 .. RecordLen - 1 : i \in 1 .. RecordLen
      BY DEF FifoAssumption
    <3>3. {b \in {<<w, i>> : i \in 1 .. RecordLen} : ~Comma(b)} = Digits(w)
      BY <3>1, <3>2 DEF Digits
    <3> QED
      BY <2>3, <3>3
  <2>7. UNION {Digits(v) : v \in HasWritten'} = (UNION {Digits(v) : v \in HasWritten}) \union Digits(w)
    BY <2>4
  <2>8. StreamInv'
    <3>1. (UNION summed') \union {b \in InPipe' : ~Comma(b)} = UNION {Digits(v) : v \in HasWritten'}
      <4>1. (UNION summed) \union {b \in InPipe : ~Comma(b)} = UNION {Digits(v) : v \in HasWritten}
        BY <1>5 DEF StreamInv
      <4>2. summed' = summed
        BY <1>1
      <4> QED
        BY <2>6, <2>7, <4>1, <4>2
    <3>2. \A b \in InPipe' : b[1] \in Started'
      BY <1>2, <2>3 DEF StreamInv
    <3> QED
      BY <1>1, <1>2, <1>3, <2>1, <2>2, <3>1, <3>2 DEF StreamInv
  <2>9. WholeInv'
    <3>1. SUFFICES ASSUME Fits
                   PROVE  /\ WholeRecords(stream') /\ \A b \in InPipe' : b[1] \in HasWritten'
                          /\ Emptied' = Emptied
      BY <1>1, <1>2, <1>5 DEF WholeInv, Reading
    <3>2. WholeRecords(stream) /\ \A b \in InPipe : b[1] \in HasWritten
      BY <1>5, <3>1 DEF WholeInv
    <3>3. WholeRecords(stream')
      BY <2>1, <2>2, <2>4, <3>2 DEF InPipe
    <3>4. \A b \in InPipe' : b[1] \in HasWritten'
      BY <2>3, <2>4, <3>2
    <3>5. Emptied' = Emptied
      <4>1. <<w, 1>> \in InPipe'
        BY <2>3 DEF FifoAssumption
      <4>2. \A v \in HasWritten : (\A b \in InPipe' : b[1] # v) <=> (\A b \in InPipe : b[1] # v)
        BY <2>3, <2>4
      <4>3. w \notin Emptied'
        BY <4>1 DEF Emptied
      <4> QED
        BY <2>4, <4>2, <4>3 DEF Emptied
    <3> QED
      BY <3>3, <3>4, <3>5
  <2> QED
    BY <2>5, <2>8, <2>9
<1> QED
  BY <1>4, <1>5

\* No digit a worker writes is lost, none is joined with another worker's, and when all the
\* records fit into one read every number is summed: for any number of workers and any sizes
\* of record and read.
THEOREM SumIsKept == FifoSpec => []SumKept
<1>1. FifoInit => FifoInv
  BY FifoAssumption, FifoInitInv
<1>2. FifoInv /\ [FifoNext]_fifoVars => FifoInv'
  <2>1. SUFFICES ASSUME FifoInv, [FifoNext]_fifoVars
                 PROVE  FifoInv'
    OBVIOUS
  <2>2. CASE FifoMain \/ ForkWorkers \/ OpenStream \/ RemoveStream
    BY FifoAssumption, <2>1, <2>2, IntegratorMoves
  <2>3. CASE ReadStream
    BY FifoAssumption, <2>1, <2>3, ReadKeepsDigits, ReadAllRecords DEF FifoInv
  <2>4. CASE CloseStream
    BY FifoAssumption, <2>1, <2>4, CloseStreamStep
  <2>5. CASE \E w \in Workers : WorkerStep(w)
    BY FifoAssumption, <2>1, <2>5, WorkerMoves, WorkerWriteStep DEF WorkerStep
  <2>6. CASE UNCHANGED fifoVars
    <3>1. UNCHANGED <<n_procs, integrator, worker, stream, summed, summed_component_number>>
      BY <2>6 DEF fifoVars
    <3>2. /\ Started' = Started /\ InPipe' = InPipe /\ Reading' = Reading /\ Fits' = Fits
          /\ HasWritten' = HasWritten /\ Emptied' = Emptied
      BY <3>1 DEF Started, InPipe, Reading, Fits, HasWritten, Emptied
    <3>3. FifoTypes'
      BY <2>1, <3>1, <3>2 DEF FifoInv, FifoTypes
    <3>4. StreamInv'
      BY <2>1, <3>1, <3>2 DEF FifoInv, StreamInv
    <3>5. WholeInv'
      BY <2>1, <3>1, <3>2 DEF FifoInv, WholeInv
    <3> QED
      BY <3>3, <3>4, <3>5 DEF FifoInv
  <2> QED
    BY <2>1, <2>2, <2>3, <2>4, <2>5, <2>6 DEF FifoNext, IntegratorStep
<1>3. FifoInv => SumKept
  <2>1. SUFFICES ASSUME FifoInv
                 PROVE  SumKept
    OBVIOUS
  <2>2. NoDigitLost
    BY <2>1 DEF FifoInv, StreamInv, NoDigitLost, Reading, InPipe, Elements, HasWritten
  <2>3. AllSummed
    BY <2>1 DEF FifoInv, WholeInv, AllSummed
  <2> QED
    BY <2>2, <2>3 DEF SumKept
<1> QED
  BY <1>1, <1>2, <1>3, PTL DEF FifoSpec

-----------------------------------------------------------------------------
(* ValueHandover.  A queue holds what was sent to it and not yet received;   *)
(* the receivers have the rest, each value once.                             *)

Values == {Unwritten} \union Senders
OpenedBySome(o) == \E s \in Senders : fdOf[s] = o
AllPrinted == UNION {Elements(printed[t]) : t \in Receivers}

HandTypes ==
  /\ medium \in {"none", "shm", "queue"}
  /\ sender \in [Senders -> {"open", "truncate", "put", "ended", "failed"}]
  /\ receiver \in [Receivers -> {"open", "get", "remove", "ended", "killed", "failed"}]
  /\ object \in {0} \union Objects
  /\ content \in [Objects -> Seq(Values)]
  /\ fdOf \in [Senders \union Receivers -> {0} \union Objects]
  /\ printed \in [Receivers -> Seq(Values)]
  /\ sentSoFar \in [Objects -> Seq(Senders)]
  /\ sentBefore \in [Receivers -> SUBSET Senders]

\* An object stands for the name until a receiver is through, and is never used again.
NameInv ==
  /\ \A s \in Senders : /\ sender[s] = "open" <=> fdOf[s] = 0
                        /\ sender[s] = "truncate" => medium = "shm"
  /\ \A r \in Receivers : /\ receiver[r] \in {"open", "failed"} <=> fdOf[r] = 0
                          /\ receiver[r] = "killed" => medium = "shm"
  /\ object # 0 => OpenedBySome(object)
  /\ \A r \in Receivers : fdOf[r] # 0 => OpenedBySome(fdOf[r])
  /\ (\A r \in Receivers : receiver[r] # "ended") => \A s \in Senders : fdOf[s] \in {0, object}
  /\ medium = "none" => \A p \in Senders \union Receivers : fdOf[p] = 0

\* What was sent to an object comes from senders that opened it and have ended.
SentInv ==
  /\ \A o \in Objects : ~OpenedBySome(o) => content[o] = <<>>
  /\ \A o \in Objects : \A v \in Elements(sentSoFar[o]) : sender[v] = "ended" /\ fdOf[v] = o
  /\ \A r \in Receivers : fdOf[r] = 0 => printed[r] = <<>> /\ sentBefore[r] = {}
  /\ \A r \in Receivers : fdOf[r] # 0 => sentBefore[r] \subseteq Elements(sentSoFar[fdOf[r]])

ShmInv ==
  medium = "shm" =>
    /\ \A o \in Objects : content[o] = <<>> \/ \E v \in Values : content[o] = <<v>>
    /\ \A s \in Senders :
         /\ sender[s] \in {"put", "ended"} => content[fdOf[s]] # <<>>
         /\ sender[s] = "ended" => content[fdOf[s]] # <<Unwritten>>
    /\ \A r \in Receivers :
         /\ receiver[r] = "get" => printed[r] = <<>>
         /\ sentBefore[r] # {} => receiver[r] # "killed" /\ Unwritten \notin Elements(printed[r])

\* The values that have been received from queue o.
Taken(o) == Len(sentSoFar[o]) - Len(content[o])

\* Queue q has the last of the values sent, each of them once.
Holds(q, sent) ==
  LET n == Len(sent) - Len(q) IN
  /\ n \in Nat
  /\ \A k \in 1 .. Len(q) : q[k] = sent[n + k]
  /\ \A l, m \in 1 .. Len(sent) : sent[l] = sent[m] => l = m

\* The values p are among the first n of those sent, and in the order they were sent in.
InOrder(p, sent, n) ==
  /\ \A k \in 1 .. Len(p) : \E m \in 1 .. n : sent[m] = p[k]
  /\ \A k, l \in 1 .. Len(p) : k < l => \E i, j \in 1 .. n : i < j /\ sent[i] = p[k] /\ sent[j] = p[l]

QueueInv ==
  medium = "queue" =>
    /\ \A o \in Objects : /\ Holds(content[o], sentSoFar[o])
                          /\ \A m \in 1 .. Taken(o) : sentSoFar[o][m] \in AllPrinted
    /\ \A r \in Receivers :
         /\ InOrder(printed[r], sentSoFar[fdOf[r]], Taken(fdOf[r]))
         /\ receiver[r] = "remove" /\ object = fdOf[r] => sentBefore[r] \subseteq AllPrinted
    /\ \A r, t \in Receivers : \A k \in 1 .. Len(printed[r]), l \in 1 .. Len(printed[t]) :
         printed[r][k] = printed[t][l] => r = t /\ k = l

HandInv == HandTypes /\ NameInv /\ SentInv /\ ShmInv /\ QueueInv

\* What is among the first few is among them all.
LEMMA Within ==
  ASSUME NEW a \in Nat, NEW b \in Nat, NEW m \in 1 .. a - b
  PROVE  m \in 1 .. a
  OBVIOUS

\* What a sequence holds, and where, after one more value.
LEMMA AppendOne ==
  ASSUME NEW S, NEW q \in Seq(S), NEW v \in S
  PROVE  /\ Append(q, v) \in Seq(S) /\ Len(Append(q, v)) = Len(q) + 1
         /\ \A k \in 1 .. Len(q) : Append(q, v)[k] = q[k]
         /\ Append(q, v)[Len(q) + 1] = v
         /\ Elements(Append(q, v)) = Elements(q) \union {v}
<1> DEFINE t == Append(q, v)
<1>1. Len(q) \in Nat /\ t \in Seq(S) /\ Len(t) = Len(q) + 1
  OBVIOUS
<1>2. (\A k \in 1 .. Len(q) : t[k] = q[k]) /\ t[Len(q) + 1] = v
  BY <1>1
<1> HIDE DEF t
<1>3. \A k \in 1 .. Len(q) + 1 : k \in 1 .. Len(q) \/ k = Len(q) + 1
  BY <1>1
<1>4. (\A k \in 1 .. Len(q) : k \in 1 .. Len(q) + 1) /\ Len(q) + 1 \in 1 .. Len(q) + 1
  BY <1>1
<1>5. Elements(t) = {t[k] : k \in 1 .. Len(q) + 1}
  BY <1>1 DEF Elements
<1>6. Elements(t) = Elements(q) \union {v}
  BY <1>2, <1>3, <1>4, <1>5 DEF Elements
<1> QED
  BY <1>1, <1>2, <1>6 DEF t

\* A queue without its first value.
LEMMA TakeFirst ==
  ASSUME NEW S, NEW q \in Seq(S), q # <<>>
  PROVE  /\ Tail(q) \in Seq(S) /\ Len(q) \in Nat \ {0} /\ Len(Tail(q)) = Len(q) - 1
         /\ Head(q) = q[1] /\ Head(q) \in S
         /\ \A k \in 1 .. Len(q) - 1 : Tail(q)[k] = q[k + 1]
  OBVIOUS

\* There is always an object nobody has used.
LEMMA FreshObject ==
  ASSUME HandAssumption, HandTypes, NEW s \in Senders, fdOf[s] = 0
  PROVE  LET new == CHOOSE o \in Objects : \A p \in Senders : fdOf[p] # o
         IN  new \in Objects /\ ~OpenedBySome(new)
<1>1. SUFFICES \E o \in Objects : \A p \in Senders : fdOf[p] # o
  BY DEF OpenedBySome
<1>2. SUFFICES ASSUME \A o \in Objects : \E p \in Senders : fdOf[p] = o
               PROVE  FALSE
  OBVIOUS
<1> DEFINE g == [o \in Senders |-> CHOOSE p \in Senders : fdOf[p] = o]
<1>3. \A o \in Senders : g[o] \in Senders /\ fdOf[g[o]] = o
  BY <1>2 DEF Objects
<1>4. g \in [Senders -> Senders]
  BY <1>3
<1> HIDE DEF g
<1>5. g \in Injection(Senders, Senders)
  BY <1>3, <1>4, Fun_IsInj
<1>6. IsFiniteSet(Senders)
  BY FS_Interval DEF Senders, HandAssumption
<1>7. g \in Surjection(Senders, Senders)
  BY <1>5, <1>6, FS_Injection
<1>8. PICK o \in Senders : g[o] = s
  BY <1>7 DEF Surjection
<1> QED
  BY <1>3, <1>8 DEF Senders

\* Nothing is open, sent or printed.
LEMMA HandInitInv ==
  ASSUME HandAssumption, HandInit
  PROVE  HandInv
<1> USE DEF HandInit, Objects
<1>1. Elements(<<>>) = {} /\ Len(<<>>) = 0 /\ \A S : <<>> \in Seq(S)
  BY DEF Elements
<1>2. HandTypes
  BY <1>1 DEF HandTypes, Values
<1>3. NameInv
  BY DEF NameInv
<1>4. SentInv
  BY <1>1 DEF SentInv
<1>5. ShmInv /\ QueueInv
  BY DEF ShmInv, QueueInv
<1> QED
  BY <1>2, <1>3, <1>4, <1>5 DEF HandInv

\* Which of the two pairs of programs runs is chosen while nothing is open.
LEMMA HandMainStep ==
  ASSUME HandAssumption, HandInv, HandMain
  PROVE  HandInv'
<1> USE DEF HandInv
<1>1. /\ medium = "none" /\ medium' \in {"shm", "queue"}
      /\ UNCHANGED <<sender, receiver, object, content, fdOf, printed, sentSoFar, sentBefore>>
  BY DEF HandMain
<1>2. /\ \A p \in Senders \union Receivers : fdOf[p] = 0
      /\ \A o \in Objects : ~OpenedBySome(o)
  BY <1>1 DEF NameInv, OpenedBySome, Objects, Senders
<1>3. /\ \A s \in Senders : sender[s] = "open"
      /\ \A r \in Receivers : /\ receiver[r] \in {"open", "failed"} /\ printed[r] = <<>>
                              /\ sentBefore[r] = {}
  <2>1. \A s \in Senders : sender[s] = "open"
    BY <1>2 DEF NameInv
  <2>2. \A r \in Receivers : receiver[r] \in {"open", "failed"}
    BY <1>2 DEF NameInv
  <2>3. \A r \in Receivers : printed[r] = <<>> /\ sentBefore[r] = {}
    BY <1>2 DEF SentInv
  <2> QED
    BY <2>1, <2>2, <2>3
<1>4. \A o \in Objects : content[o] = <<>> /\ sentSoFar[o] = <<>>
  <2>1. TAKE o \in Objects
  <2>2. \A v \in Elements(sentSoFar[o]) : FALSE
    <3>1. \A v \in Elements(sentSoFar[o]) : v \in Senders
      BY DEF HandTypes, Elements
    <3> QED
      BY <1>3, <3>1 DEF SentInv
  <2>3. sentSoFar[o] \in Seq(Senders)
    BY DEF HandTypes
  <2>4. Len(sentSoFar[o]) = 0
    <3>1. Len(sentSoFar[o]) > 0 => sentSoFar[o][1] \in Elements(sentSoFar[o])
      BY <2>3 DEF Elements
    <3> QED
      BY <2>2, <2>3, <3>1
  <2> QED
    BY <1>2, <2>3, <2>4 DEF SentInv
<1>5. HandTypes'
  BY <1>1 DEF HandTypes
<1>6. NameInv'
  BY <1>1, <1>3 DEF NameInv, OpenedBySome
<1>7. SentInv'
  BY <1>1 DEF SentInv, OpenedBySome
<1>8. ShmInv'
  BY <1>1, <1>3, <1>4 DEF ShmInv
<1>9. QueueInv'
  <2>1. \A o \in Objects : Taken(o)' = 0 /\ content'[o] = <<>> /\ sentSoFar'[o] = <<>>
    BY <1>1, <1>4 DEF Taken
  <2>2. \A r \in Receivers : printed'[r] = <<>> /\ receiver'[r] # "remove"
    BY <1>1, <1>3
  <2>3. /\ \A k \in 1 .. Len(<<>>) : FALSE
        /\ \A k \in 1 .. 0 : FALSE
    OBVIOUS
  <2>4. Holds(<<>>, <<>>) /\ \A sent, n : InOrder(<<>>, sent, n)
    BY DEF Holds, InOrder
  <2> QED
    BY <2>1, <2>2, <2>3, <2>4 DEF QueueInv
<1> QED
  BY <1>5, <1>6, <1>7, <1>8, <1>9

\* A sender opens the object the name stands for, or one nobody has used.
LEMMA SenderOpenStep ==
  ASSUME HandAssumption, HandInv, NEW s \in Senders, SenderOpen(s)
  PROVE  HandInv'
<1> USE DEF HandInv
<1>1. sender[s] = "open" /\ fdOf[s] = 0 /\ medium # "none"
  <2>1. sender[s] = "open" /\ medium # "none"
    BY DEF SenderOpen, SenderGoes
  <2> QED
    BY <2>1 DEF NameInv
<1>2. PICK o \in Objects :
        /\ (object # 0 /\ o = object) \/ (object = 0 /\ ~OpenedBySome(o))
        /\ sender' = [sender EXCEPT ![s] = IF medium = "shm" THEN "truncate" ELSE "put"]
        /\ object' = o /\ fdOf' = [fdOf EXCEPT ![s] = o]
        /\ UNCHANGED <<medium, receiver, content, printed, sentSoFar, sentBefore>>
  <2> DEFINE new == CHOOSE x \in Objects : \A p \in Senders : fdOf[p] # x
             o == IF object = 0 THEN new ELSE object
  <2>1. new \in Objects /\ ~OpenedBySome(new)
    BY <1>1, FreshObject
  <2>2. /\ sender' = [sender EXCEPT ![s] = IF medium = "shm" THEN "truncate" ELSE "put"]
        /\ object' = o /\ fdOf' = [fdOf EXCEPT ![s] = o]
        /\ UNCHANGED <<medium, receiver, content, printed, sentSoFar, sentBefore>>
    BY DEF SenderOpen, SenderGoes
  <2> HIDE DEF new
  <2>3. o \in Objects
    BY <2>1 DEF HandTypes
  <2> QED
    BY <2>1, <2>2, <2>3
<1>3. o # 0 /\ s \in Senders \union Receivers /\ 0 \notin Objects
  BY DEF Objects, Senders
<1>4. HandTypes'
  BY <1>2 DEF HandTypes
<1>5. /\ \A p \in Senders \union Receivers : fdOf'[p] = IF p = s THEN o ELSE fdOf[p]
      /\ \A p \in Senders : p # s => sender'[p] = sender[p]
      /\ sender'[s] \in {"truncate", "put"} /\ (sender'[s] = "truncate" => medium = "shm")
  BY <1>2 DEF HandTypes
<1>6. \A r \in Receivers : r # s /\ fdOf'[r] = fdOf[r]
  BY <1>5 DEF Receivers, Senders, HandAssumption
<1>7. \A x \in Objects : OpenedBySome(x)' <=> OpenedBySome(x) \/ x = o
  BY <1>1, <1>3, <1>5 DEF OpenedBySome
<1>8. NameInv'
  <2>1. \A p \in Senders : /\ sender'[p] = "open" <=> fdOf'[p] = 0
                           /\ sender'[p] = "truncate" => medium' = "shm"
    <3>1. TAKE p \in Senders
    <3>2. CASE p = s
      BY <1>2, <1>3, <1>5, <3>2
    <3>3. CASE p # s
      BY <1>2, <1>5, <3>3 DEF NameInv
    <3> QED
      BY <3>2, <3>3
  <2>2. \A r \in Receivers : /\ receiver'[r] \in {"open", "failed"} <=> fdOf'[r] = 0
                             /\ receiver'[r] = "killed" => medium' = "shm"
    BY <1>2, <1>6 DEF NameInv
  <2>3. \E p \in Senders : fdOf'[p] = object'
    BY <1>2, <1>5
  <2>4. \A r \in Receivers : fdOf'[r] # 0 => \E p \in Senders : fdOf'[p] = fdOf'[r]
    <3>1. TAKE r \in Receivers
    <3>2. HAVE fdOf'[r] # 0
    <3>3. PICK p \in Senders : fdOf[p] = fdOf[r]
      BY <1>6, <3>2 DEF NameInv, OpenedBySome
    <3> QED
      BY <1>1, <1>5, <1>6, <3>2, <3>3
  <2>5. (\A r \in Receivers : receiver'[r] # "ended") => \A p \in Senders : fdOf'[p] \in {0, object'}
    BY <1>2, <1>5 DEF NameInv
  <2>6. medium' # "none"
    BY <1>1, <1>2
  <2> QED
    BY <2>1, <2>2, <2>3, <2>4, <2>5, <2>6 DEF NameInv, OpenedBySome
<1>9. SentInv'
  <2>1. \A x \in Objects : \A v \in Elements(sentSoFar[x]) : v # s /\ v \in Senders
    <3>1. TAKE x \in Objects
    <3>2. TAKE v \in Elements(sentSoFar[x])
    <3>3. sender[v] = "ended"
      BY DEF SentInv
    <3>4. sentSoFar[x] \in Seq(Senders)
      BY DEF HandTypes
    <3> QED
      BY <1>1, <3>3, <3>4 DEF Elements
  <2> QED
    BY <1>2, <1>5, <1>6, <1>7, <2>1 DEF SentInv, Elements, OpenedBySome
<1>10. ShmInv'
  <2>1. SUFFICES ASSUME medium = "shm"
                 PROVE  ShmInv'
    BY <1>2 DEF ShmInv
  <2>2. \A p \in Senders : /\ sender'[p] \in {"put", "ended"} => content'[fdOf'[p]] # <<>>
                           /\ sender'[p] = "ended" => content'[fdOf'[p]] # <<Unwritten>>
    <3>1. sender'[s] = "truncate"
      BY <1>2, <2>1 DEF HandTypes
    <3> QED
      BY <1>2, <1>5, <2>1, <3>1 DEF ShmInv
  <2> QED
    BY <1>2, <2>1, <2>2 DEF ShmInv, Elements
<1>11. QueueInv'
  <2>1. \A x : Taken(x)' = Taken(x)
    BY <1>2 DEF Taken
  <2>2. AllPrinted' = AllPrinted
    BY <1>2 DEF AllPrinted, Elements
  <2>3. \A r \in Receivers : receiver[r] = "remove" /\ object' = fdOf'[r] => object = fdOf[r]
    BY <1>2, <1>3, <1>6 DEF NameInv
  <2> QED
    <3>1. SUFFICES ASSUME medium = "queue"
                   PROVE  QueueInv'
      BY <1>2 DEF QueueInv
    <3>2. ASSUME NEW r \in Receivers
          PROVE  InOrder(printed[r], sentSoFar[fdOf[r]], Taken(fdOf[r]))'
      <4>1. fdOf'[r] = fdOf[r] /\ Taken(fdOf[r])' = Taken(fdOf[r])
        BY <1>6, <2>1
      <4>2. InOrder(printed[r], sentSoFar[fdOf[r]], Taken(fdOf[r]))
        BY <3>1 DEF QueueInv
      <4> QED
        BY <1>2, <4>1, <4>2
    <3>3. \A r \in Receivers : receiver'[r] = "remove" /\ object' = fdOf'[r] => sentBefore'[r] \subseteq AllPrinted'
      BY <1>2, <2>2, <2>3, <3>1 DEF QueueInv
    <3> QED
      BY <1>2, <2>1, <2>2, <3>1, <3>2, <3>3 DEF QueueInv
<1> QED
  BY <1>4, <1>8, <1>9, <1>10, <1>11

\* A sender of the memory gives it a size, or writes its value into it.
LEMMA SenderShmStep ==
  ASSUME HandAssumption, HandInv, NEW s \in Senders, Truncate(s) \/ Memcpy(s)
  PROVE  HandInv'
<1> USE DEF HandInv
<1> DEFINE o == fdOf[s]
<1>1. /\ sender[s] \in {"truncate", "put"} /\ medium = "shm"
      /\ UNCHANGED <<medium, receiver, object, fdOf, printed, sentBefore>>
  BY DEF Truncate, Memcpy, SenderGoes, NameInv, NameKept
<1>2. o \in Objects /\ OpenedBySome(o)
  BY <1>1 DEF NameInv, HandTypes, OpenedBySome
<1>3. \A x : OpenedBySome(x)' <=> OpenedBySome(x)
  BY <1>1 DEF OpenedBySome
<1>4. \A v \in Values : <<v>> # <<>> /\ <<v>> \in Seq(Values)
  OBVIOUS
<1>5. Unwritten \in Values /\ s \in Values /\ s # Unwritten
  BY DEF Values, Unwritten, Senders
<1>6. /\ content' \in [Objects -> Seq(Values)] /\ sentSoFar' \in [Objects -> Seq(Senders)]
      /\ \A x \in Objects : x # o => content'[x] = content[x] /\ sentSoFar'[x] = sentSoFar[x]
      /\ Elements(sentSoFar'[o]) \subseteq Elements(sentSoFar[o]) \union {s}
      /\ Elements(sentSoFar[o]) \subseteq Elements(sentSoFar'[o])
      /\ sender' \in [Senders -> {"open", "truncate", "put", "ended", "failed"}]
      /\ \A p \in Senders : p # s => sender'[p] = sender[p]
      /\ \E v \in Values : content'[o] = <<v>>
      /\ \/ /\ sender'[s] = "put" /\ sentSoFar' = sentSoFar
            /\ content'[o] = content[o] \/ content[o] = <<>>
         \/ sender'[s] = "ended" /\ content'[o] = <<s>>
  <2>1. /\ content \in [Objects -> Seq(Values)] /\ sentSoFar \in [Objects -> Seq(Senders)]
        /\ sender \in [Senders -> {"open", "truncate", "put", "ended", "failed"}]
    BY DEF HandTypes
  <2>2. CASE Truncate(s)
    <3>1. CASE content[o] = <<>>
      <4>1. content' = [content EXCEPT ![o] = <<Unwritten>>] /\ sender' = [sender EXCEPT ![s] = "put"]
            /\ sentSoFar' = sentSoFar
        BY <2>2, <3>1 DEF Truncate, SenderGoes
      <4> HIDE DEF o
      <4> QED
        BY <1>2, <1>4, <1>5, <2>1, <3>1, <4>1
    <3>2. CASE content[o] # <<>>
      <4>1. content' = content /\ sender' = [sender EXCEPT ![s] = "put"] /\ sentSoFar' = sentSoFar
        BY <2>2, <3>2 DEF Truncate, SenderGoes
      <4>2. \E v \in Values : content[o] = <<v>>
        BY <1>1, <1>2, <3>2 DEF ShmInv
      <4> HIDE DEF o
      <4> QED
        BY <2>1, <4>1, <4>2
    <3> QED
      BY <3>1, <3>2
  <2>3. CASE Memcpy(s)
    <3>1. content' = [content EXCEPT ![o] = <<s>>] /\ sender' = [sender EXCEPT ![s] = "ended"]
          /\ sentSoFar' = [sentSoFar EXCEPT ![o] = Append(sentSoFar[o], s)]
      BY <2>3 DEF Memcpy, SenderGoes
    <3>2. /\ Append(sentSoFar[o], s) \in Seq(Senders)
          /\ Elements(Append(sentSoFar[o], s)) = Elements(sentSoFar[o]) \union {s}
      BY <1>2, <2>1, AppendOne
    <3> HIDE DEF o
    <3> QED
      BY <1>2, <1>4, <1>5, <2>1, <3>1, <3>2
  <2> QED
    BY <2>2, <2>3
<1>7. s \notin Elements(sentSoFar[o])
  BY <1>1, <1>2 DEF SentInv
<1>8. HandTypes'
  BY <1>1, <1>6 DEF HandTypes
<1>9. NameInv'
  <2>1. sender[s] # "open" /\ sender'[s] \in {"put", "ended"}
    BY <1>1, <1>6
  <2> QED
    BY <1>1, <1>3, <1>6, <2>1 DEF NameInv
<1>10. SentInv'
  <2>1. \A x \in Objects : ~OpenedBySome(x) => content'[x] = <<>>
    BY <1>2, <1>6 DEF SentInv
  <2>2. \A x \in Objects : \A v \in Elements(sentSoFar'[x]) : sender'[v] = "ended" /\ fdOf[v] = x
    <3>1. TAKE x \in Objects
    <3>2. TAKE v \in Elements(sentSoFar'[x])
    <3>3. CASE v = s
      <4>1. x = o
        BY <1>1, <1>6, <3>2, <3>3 DEF SentInv
      <4> QED
        BY <1>6, <1>7, <3>2, <3>3, <4>1
    <3>4. CASE v # s
      <4>1. v \in Elements(sentSoFar[x])
        BY <1>6, <3>2, <3>4
      <4>2. v \in Senders
        <5>1. sentSoFar[x] \in Seq(Senders)
          BY DEF HandTypes
        <5> QED
          BY <4>1, <5>1 DEF Elements
      <4> QED
        <5>1. sender[v] = "ended" /\ fdOf[v] = x
          BY <4>1 DEF SentInv
        <5>2. sender'[v] = sender[v]
          BY <1>6, <3>4, <4>2
        <5> QED
          BY <5>1, <5>2
    <3> QED
      BY <3>3, <3>4
  <2>3. \A r \in Receivers : fdOf[r] # 0 => sentBefore[r] \subseteq Elements(sentSoFar'[fdOf[r]])
    <3>1. TAKE r \in Receivers
    <3>2. HAVE fdOf[r] # 0
    <3>3. fdOf[r] \in Objects /\ sentBefore[r] \subseteq Elements(sentSoFar[fdOf[r]])
      BY <3>2 DEF SentInv, HandTypes
    <3> QED
      BY <1>6, <3>3
  <2> QED
    BY <1>1, <1>3, <2>1, <2>2, <2>3 DEF SentInv
<1>11. ShmInv'
  <2>1. \A x \in Objects : content'[x] = <<>> \/ \E v \in Values : content'[x] = <<v>>
    BY <1>1, <1>6 DEF ShmInv
  <2>2. ASSUME NEW p \in Senders, sender'[p] \in {"put", "ended"}
        PROVE  content'[fdOf[p]] # <<>>
    <3>1. fdOf[p] \in Objects
      BY <1>1, <1>6, <2>2 DEF NameInv, HandTypes
    <3>2. CASE fdOf[p] = o
      BY <1>4, <1>6, <3>2
    <3>3. CASE fdOf[p] # o
      BY <1>1, <1>6, <2>2, <3>1, <3>3 DEF ShmInv
    <3> QED
      BY <3>2, <3>3
  <2>3. ASSUME NEW p \in Senders, sender'[p] = "ended"
        PROVE  content'[fdOf[p]] # <<Unwritten>>
    <3>1. fdOf[p] \in Objects
      BY <1>1, <1>6, <2>3 DEF NameInv, HandTypes
    <3>2. <<s>> # <<Unwritten>>
      BY <1>5
    <3>3. p # s => content[fdOf[p]] \notin {<<>>, <<Unwritten>>}
      BY <1>1, <1>6, <2>3 DEF ShmInv
    <3>4. CASE fdOf[p] = o
      BY <1>6, <2>3, <3>2, <3>3, <3>4
    <3>5. CASE fdOf[p] # o
      BY <1>6, <3>1, <3>3, <3>5
    <3> QED
      BY <3>4, <3>5
  <2> QED
    BY <1>1, <2>1, <2>2, <2>3 DEF ShmInv, Elements
<1>12. QueueInv'
  BY <1>1 DEF QueueInv
<1> QED
  BY <1>8, <1>9, <1>10, <1>11, <1>12

\* One value more is sent: it is the last, and nothing that was taken is disturbed.
LEMMA SendOne ==
  ASSUME NEW S, NEW q \in Seq(S), NEW sent \in Seq(S), Holds(q, sent), NEW v \in S, v \notin Elements(sent)
  PROVE  /\ Holds(Append(q, v), Append(sent, v))
         /\ Len(Append(sent, v)) - Len(Append(q, v)) = Len(sent) - Len(q)
         /\ \A m \in 1 .. Len(sent) - Len(q) : Append(sent, v)[m] = sent[m]
         /\ \A p : InOrder(p, sent, Len(sent) - Len(q)) => InOrder(p, Append(sent, v), Len(sent) - Len(q))
<1> DEFINE q2 == Append(q, v)
           sent2 == Append(sent, v)
           n == Len(sent) - Len(q)
<1>1. /\ Len(q2) = Len(q) + 1 /\ (\A k \in 1 .. Len(q) : q2[k] = q[k]) /\ q2[Len(q) + 1] = v
      /\ Len(sent2) = Len(sent) + 1 /\ (\A k \in 1 .. Len(sent) : sent2[k] = sent[k])
      /\ sent2[Len(sent) + 1] = v
  BY AppendOne
<1>2. Len(q) \in Nat /\ Len(sent) \in Nat /\ n \in Nat /\ n + Len(q) = Len(sent)
  BY DEF Holds
<1>3. /\ \A k \in 1 .. Len(q) : q[k] = sent[n + k]
      /\ \A l, m \in 1 .. Len(sent) : sent[l] = sent[m] => l = m
      /\ \A l \in 1 .. Len(sent) : sent[l] # v
  BY DEF Holds, Elements
<1> HIDE DEF q2, sent2
<1>4. Len(sent2) - Len(q2) = n
  BY <1>1, <1>2
<1> HIDE DEF n
<1>5. Holds(q2, sent2)
  <2>1. ASSUME NEW k \in 1 .. Len(q2)
        PROVE  q2[k] = sent2[n + k]
    <3>1. CASE k = Len(q) + 1
      <4>1. n + k = Len(sent) + 1
        BY <1>2, <3>1
      <4> QED
        BY <1>1, <3>1, <4>1
    <3>2. CASE k # Len(q) + 1
      <4>1. k \in 1 .. Len(q) /\ n + k \in 1 .. Len(sent)
        BY <1>1, <1>2, <3>2
      <4> QED
        BY <1>1, <1>3, <4>1
    <3> QED
      BY <3>1, <3>2
  <2>2. ASSUME NEW l \in 1 .. Len(sent2), NEW m \in 1 .. Len(sent2), sent2[l] = sent2[m]
        PROVE  l = m
    <3>1. \A i \in 1 .. Len(sent2) : i \in 1 .. Len(sent) \/ i = Len(sent) + 1
      BY <1>1, <1>2
    <3> QED
      BY <1>1, <1>3, <2>2, <3>1
  <2> QED
    BY <1>2, <1>4, <2>1, <2>2 DEF Holds
<1>6. \A m \in 1 .. n : m \in 1 .. Len(sent)
  BY <1>2
<1>7. \A p : InOrder(p, sent, n) => InOrder(p, sent2, n)
  <2>1. \A m \in 1 .. n : sent2[m] = sent[m]
    BY <1>1, <1>6
  <2>2. TAKE p
  <2>3. HAVE InOrder(p, sent, n)
  <2>4. \A k \in 1 .. Len(p) : \E m \in 1 .. n : sent2[m] = p[k]
    BY <2>1, <2>3 DEF InOrder
  <2>5. \A k, l \in 1 .. Len(p) : k < l => \E i, j \in 1 .. n : i < j /\ sent2[i] = p[k] /\ sent2[j] = p[l]
    <3>1. TAKE k, l \in 1 .. Len(p)
    <3>2. HAVE k < l
    <3>3. PICK i \in 1 .. n, j \in 1 .. n : i < j /\ sent[i] = p[k] /\ sent[j] = p[l]
      BY <2>3, <3>2 DEF InOrder
    <3> QED
      BY <2>1, <3>3
  <2> QED
    BY <2>4, <2>5 DEF InOrder
<1> QED
  BY <1>1, <1>4, <1>5, <1>6, <1>7 DEF n, q2, sent2

\* The first value of the queue is taken: it comes after all that were taken before.
LEMMA TakeNext ==
  ASSUME NEW S, NEW q \in Seq(S), q # <<>>, NEW sent \in Seq(S), Holds(q, sent)
  PROVE  LET n == Len(sent) - Len(q) IN
         /\ n \in Nat /\ n + 1 \in 1 .. Len(sent)
         /\ Len(sent) - Len(Tail(q)) = n + 1 /\ Head(q) = sent[n + 1] /\ Holds(Tail(q), sent)
         /\ \A p \in Seq(S) : InOrder(p, sent, n) =>
              InOrder(p, sent, n + 1) /\ InOrder(Append(p, Head(q)), sent, n + 1)
<1> DEFINE n == Len(sent) - Len(q)
           t == Tail(q)
           h == Head(q)
<1>1. /\ t \in Seq(S) /\ Len(q) \in Nat \ {0} /\ Len(t) = Len(q) - 1
      /\ h = q[1] /\ h \in S /\ \A k \in 1 .. Len(q) - 1 : t[k] = q[k + 1]
  BY TakeFirst
<1>2. Len(sent) \in Nat /\ n \in Nat /\ n + Len(q) = Len(sent)
  BY <1>1 DEF Holds
<1>3. /\ \A k \in 1 .. Len(q) : q[k] = sent[n + k]
      /\ \A l, m \in 1 .. Len(sent) : sent[l] = sent[m] => l = m
  BY DEF Holds
<1> HIDE DEF t, h
<1>4. Len(sent) - Len(t) = n + 1 /\ n + 1 \in 1 .. Len(sent)
  BY <1>1, <1>2
<1> HIDE DEF n
<1>5. h = sent[n + 1]
  BY <1>1, <1>3
<1>6. Holds(t, sent)
  <2>1. ASSUME NEW k \in 1 .. Len(t)
        PROVE  t[k] = sent[(n + 1) + k]
    <3>1. k \in 1 .. Len(q) - 1 /\ k + 1 \in 1 .. Len(q) /\ n + (k + 1) = (n + 1) + k
      BY <1>1, <1>2
    <3>2. t[k] = q[k + 1] /\ q[k + 1] = sent[n + (k + 1)]
      BY <1>1, <1>3, <3>1
    <3> QED
      BY <3>1, <3>2
  <2>2. n + 1 \in Nat
    BY <1>2
  <2> QED
    BY <1>3, <1>4, <2>1, <2>2 DEF Holds
<1>7. ASSUME NEW p \in Seq(S), InOrder(p, sent, n)
      PROVE  InOrder(p, sent, n + 1) /\ InOrder(Append(p, h), sent, n + 1)
  <2>1. \A m \in 1 .. n : m \in 1 .. n + 1 /\ m < n + 1
    BY <1>2
  <2>2. InOrder(p, sent, n + 1)
    BY <1>7, <2>1 DEF InOrder
  <2> DEFINE u == Append(p, h)
  <2>3. /\ Len(u) = Len(p) + 1 /\ (\A k \in 1 .. Len(p) : u[k] = p[k]) /\ u[Len(p) + 1] = h
        /\ Len(p) \in Nat
    BY <1>1, AppendOne
  <2> HIDE DEF u
  <2>4. \A k \in 1 .. Len(u) : k \in 1 .. Len(p) \/ k = Len(p) + 1
    BY <2>3
  <2>5. n + 1 \in 1 .. n + 1
    BY <1>2
  <2>6. \A k \in 1 .. Len(u) : \E m \in 1 .. n + 1 : sent[m] = u[k]
    <3>1. TAKE k \in 1 .. Len(u)
    <3>2. CASE k = Len(p) + 1
      BY <1>5, <2>3, <2>5, <3>2
    <3>3. CASE k \in 1 .. Len(p)
      <4>1. PICK m \in 1 .. n : sent[m] = p[k]
        BY <1>7, <3>3 DEF InOrder
      <4> QED
        BY <2>1, <2>3, <3>3, <4>1
    <3> QED
      BY <2>4, <3>2, <3>3
  <2>7. ASSUME NEW k \in 1 .. Len(u), NEW l \in 1 .. Len(u), k < l
        PROVE  \E i, j \in 1 .. n + 1 : i < j /\ sent[i] = u[k] /\ sent[j] = u[l]
    <3>1. k \in 1 .. Len(p) /\ u[k] = p[k]
      BY <2>3, <2>7
    <3>2. CASE l = Len(p) + 1
      <4>1. PICK m \in 1 .. n : sent[m] = p[k]
        BY <1>7, <3>1 DEF InOrder
      <4> QED
        BY <1>5, <2>1, <2>3, <2>5, <3>1, <3>2, <4>1
    <3>3. CASE l \in 1 .. Len(p)
      <4>1. PICK i \in 1 .. n, j \in 1 .. n : i < j /\ sent[i] = p[k] /\ sent[j] = p[l]
        BY <1>7, <2>7, <3>1, <3>3 DEF InOrder
      <4> QED
        BY <2>1, <2>3, <3>1, <3>3, <4>1
    <3> QED
      BY <2>4, <3>2, <3>3
  <2>8. InOrder(u, sent, n + 1)
    BY <2>6, <2>7 DEF InOrder
  <2> QED
    BY <2>2, <2>8 DEF u
<1> QED
  BY <1>2, <1>4, <1>5, <1>6, <1>7 DEF n, t, h

\* A sender puts its value behind the others, or gives up.
LEMMA MsgsndStep ==
  ASSUME HandAssumption, HandInv, NEW s \in Senders, Msgsnd(s)
  PROVE  HandInv'
<1> USE DEF HandInv
<1> DEFINE o == fdOf[s]
<1>1. /\ sender[s] = "put" /\ medium = "queue"
      /\ UNCHANGED <<medium, receiver, object, fdOf, printed, sentBefore>>
  BY DEF Msgsnd, SenderGoes
<1>2. o \in Objects /\ OpenedBySome(o)
  BY <1>1 DEF NameInv, HandTypes, OpenedBySome
<1>3. \A x : OpenedBySome(x)' <=> OpenedBySome(x)
  BY <1>1 DEF OpenedBySome
<1>4. s \in Values /\ s \notin Elements(sentSoFar[o])
  BY <1>1, <1>2 DEF SentInv, Values
<1>5. content[o] \in Seq(Values) /\ sentSoFar[o] \in Seq(Senders) /\ sentSoFar[o] \in Seq(Values)
  BY <1>2 DEF HandTypes, Values
<1>6. AllPrinted' = AllPrinted
  BY <1>1 DEF AllPrinted, Elements
<1>7. ShmInv'
  BY <1>1 DEF ShmInv
<1>8. Holds(content[o], sentSoFar[o])
  BY <1>1, <1>2 DEF QueueInv
<1>9. \A r \in Receivers : InOrder(printed[r], sentSoFar[fdOf[r]], Taken(fdOf[r]))
  BY <1>1 DEF QueueInv
<1>10. CASE UNCHANGED <<content, sentSoFar>> /\ sender' = [sender EXCEPT ![s] = "failed"]
  <2>1. \A p \in Senders : sender'[p] = IF p = s THEN "failed" ELSE sender[p]
    BY <1>10 DEF HandTypes
  <2>2. HandTypes'
    BY <1>1, <1>10 DEF HandTypes
  <2>3. NameInv'
    BY <1>1, <1>3, <2>1 DEF NameInv
  <2>4. \A x \in Objects : \A v \in Elements(sentSoFar[x]) : sender'[v] = "ended" /\ fdOf[v] = x
    <3>1. TAKE x \in Objects
    <3>2. TAKE v \in Elements(sentSoFar[x])
    <3>3. sender[v] = "ended" /\ fdOf[v] = x
      BY DEF SentInv
    <3>4. v \in Senders
      <4>1. sentSoFar[x] \in Seq(Senders)
        BY DEF HandTypes
      <4> QED
        BY <4>1 DEF Elements
    <3> QED
      BY <1>1, <2>1, <3>3, <3>4
  <2>5. SentInv'
    BY <1>1, <1>3, <1>10, <2>4 DEF SentInv, Elements
  <2>6. \A x : Taken(x)' = Taken(x)
    BY <1>10 DEF Taken
  <2>7. \A r \in Receivers : InOrder(printed[r], sentSoFar[fdOf[r]], Taken(fdOf[r]))'
    <3>1. TAKE r \in Receivers
    <3>2. Taken(fdOf[r])' = Taken(fdOf[r])
      BY <1>1, <2>6
    <3> QED
      BY <1>1, <1>9, <1>10, <3>2
  <2>8. QueueInv'
    BY <1>1, <1>6, <1>10, <2>6, <2>7 DEF QueueInv
  <2> QED
    BY <1>7, <2>2, <2>3, <2>5, <2>8
<1>11. CASE /\ sender' = [sender EXCEPT ![s] = "ended"]
            /\ content' = [content EXCEPT ![o] = Append(content[o], s)]
            /\ sentSoFar' = [sentSoFar EXCEPT ![o] = Append(sentSoFar[o], s)]
  <2>1. /\ Append(content[o], s) \in Seq(Values) /\ Append(sentSoFar[o], s) \in Seq(Senders)
        /\ Elements(Append(sentSoFar[o], s)) = Elements(sentSoFar[o]) \union {s}
    BY <1>4, <1>5, AppendOne
  <2>2. /\ \A p \in Senders : sender'[p] = IF p = s THEN "ended" ELSE sender[p]
        /\ content'[o] = Append(content[o], s) /\ sentSoFar'[o] = Append(sentSoFar[o], s)
        /\ \A x \in Objects : x # o => content'[x] = content[x] /\ sentSoFar'[x] = sentSoFar[x]
    BY <1>2, <1>11 DEF HandTypes
  <2>3. HandTypes'
    <3> HIDE DEF o
    <3> QED
      BY <1>1, <1>2, <1>11, <2>1 DEF HandTypes
  <2>4. NameInv'
    BY <1>1, <1>3, <2>2 DEF NameInv
  <2>5. SentInv'
    <3>1. \A x \in Objects : ~OpenedBySome(x) => content'[x] = <<>>
      BY <1>2, <2>2 DEF SentInv
    <3>2. \A x \in Objects : \A v \in Elements(sentSoFar'[x]) : sender'[v] = "ended" /\ fdOf[v] = x
      <4>1. TAKE x \in Objects
      <4>2. TAKE v \in Elements(sentSoFar'[x])
      <4>3. CASE v \in Elements(sentSoFar[x])
        <5>1. sender[v] = "ended" /\ fdOf[v] = x
          BY <4>3 DEF SentInv
        <5>2. v \in Senders
          <6>1. sentSoFar[x] \in Seq(Senders)
            BY DEF HandTypes
          <6> QED
            BY <4>3, <6>1 DEF Elements
        <5> QED
          BY <2>2, <5>1, <5>2
      <4>4. CASE v \notin Elements(sentSoFar[x])
        <5>1. x = o /\ v = s
          BY <2>1, <2>2, <4>2, <4>4
        <5> QED
          BY <2>2, <5>1
      <4> QED
        BY <4>3, <4>4
    <3>3. \A r \in Receivers : fdOf[r] # 0 => sentBefore[r] \subseteq Elements(sentSoFar'[fdOf[r]])
      <4>1. TAKE r \in Receivers
      <4>2. HAVE fdOf[r] # 0
      <4>3. fdOf[r] \in Objects /\ sentBefore[r] \subseteq Elements(sentSoFar[fdOf[r]])
        BY <4>2 DEF SentInv, HandTypes
      <4> QED
        BY <2>1, <2>2, <4>3
    <3> QED
      BY <1>1, <1>3, <3>1, <3>2, <3>3 DEF SentInv
  <2>6. /\ Holds(Append(content[o], s), Append(sentSoFar[o], s))
        /\ Len(Append(sentSoFar[o], s)) - Len(Append(content[o], s)) = Taken(o)
        /\ \A m \in 1 .. Taken(o) : Append(sentSoFar[o], s)[m] = sentSoFar[o][m]
        /\ \A p : InOrder(p, sentSoFar[o], Taken(o)) => InOrder(p, Append(sentSoFar[o], s), Taken(o))
    BY <1>4, <1>5, <1>8, SendOne DEF Taken
  <2>7. \A x \in Objects : Len(sentSoFar'[x]) - Len(content'[x]) = Taken(x)
    BY <2>2, <2>6 DEF Taken
  <2>8. \A x \in Objects : /\ Holds(content'[x], sentSoFar'[x])
                           /\ \A m \in 1 .. Taken(x) : sentSoFar'[x][m] \in AllPrinted
    <3>1. TAKE x \in Objects
    <3>2. /\ Holds(content[x], sentSoFar[x])
          /\ \A m \in 1 .. Taken(x) : sentSoFar[x][m] \in AllPrinted
      BY <1>1 DEF QueueInv
    <3>3. CASE x = o
      BY <2>2, <2>6, <3>2, <3>3
    <3>4. CASE x # o
      BY <2>2, <3>2, <3>4
    <3> QED
      BY <3>3, <3>4
  <2>9. \A r \in Receivers : InOrder(printed[r], sentSoFar'[fdOf[r]], Len(sentSoFar'[fdOf[r]]) - Len(content'[fdOf[r]]))
    <3>1. TAKE r \in Receivers
    <3>2. CASE fdOf[r] = 0
      <4>1. printed[r] = <<>>
        BY <3>2 DEF SentInv
      <4> QED
        BY <4>1 DEF InOrder
    <3>3. CASE fdOf[r] = o
      BY <1>9, <2>2, <2>6, <3>3
    <3>4. CASE fdOf[r] \in Objects /\ fdOf[r] # o
      BY <1>9, <2>2, <3>4 DEF Taken
    <3>5. fdOf[r] \in {0} \union Objects
      BY DEF HandTypes
    <3> QED
      BY <3>2, <3>3, <3>4, <3>5
  <2>10. QueueInv'
    <3> HIDE DEF o
    <3>1. \A x \in Objects : Taken(x)' = Taken(x)
      BY <2>7 DEF Taken
    <3>2. \A r \in Receivers : InOrder(printed[r], sentSoFar[fdOf[r]], Taken(fdOf[r]))'
      BY <1>1, <2>9 DEF Taken
    <3> QED
      BY <1>1, <1>6, <2>8, <3>1, <3>2 DEF QueueInv
  <2> QED
    BY <1>7, <2>3, <2>4, <2>5, <2>10
<1> QED
  BY <1>10, <1>11 DEF Msgsnd, SenderGoes, PutLast

\* A receiver opens what has the name, and remembers what was sent to it so far.
LEMMA ReceiverOpenStep ==
  ASSUME HandAssumption, HandInv, NEW r \in Receivers, ReceiverOpen(r)
  PROVE  HandInv'
<1> USE DEF HandInv
<1>1. /\ receiver[r] = "open" /\ medium # "none"
      /\ receiver' = [receiver EXCEPT ![r] = IF object = 0 THEN "failed" ELSE "get"]
      /\ fdOf' = [fdOf EXCEPT ![r] = object]
      /\ sentBefore' = IF object = 0 THEN sentBefore ELSE [sentBefore EXCEPT ![r] = Elements(sentSoFar[object])]
      /\ UNCHANGED <<medium, sender, object, content, printed, sentSoFar>>
  BY DEF ReceiverOpen, ReceiverGoes, Elements
<1>2. fdOf[r] = 0 /\ printed[r] = <<>> /\ sentBefore[r] = {} /\ object \in {0} \union Objects
  BY <1>1 DEF NameInv, SentInv, HandTypes
<1>3. \A s \in Senders : s # r /\ s \notin Receivers
  BY DEF Receivers, Senders, HandAssumption
<1>4. object # 0 => Elements(sentSoFar[object]) \in SUBSET Senders
  <2>1. object # 0 => sentSoFar[object] \in Seq(Senders)
    BY <1>2 DEF HandTypes
  <2> QED
    BY <2>1 DEF Elements
<1>5. HandTypes'
  BY <1>1, <1>2, <1>4 DEF HandTypes
<1>6. /\ \A s \in Senders : fdOf'[s] = fdOf[s]
      /\ \A t \in Receivers : /\ fdOf'[t] = IF t = r THEN object ELSE fdOf[t]
                              /\ t # r => receiver'[t] = receiver[t] /\ sentBefore'[t] = sentBefore[t]
      /\ receiver'[r] = IF object = 0 THEN "failed" ELSE "get"
      /\ sentBefore'[r] = IF object = 0 THEN {} ELSE Elements(sentSoFar[object])
  <2>1. \A p \in Senders \union Receivers : fdOf'[p] = IF p = r THEN object ELSE fdOf[p]
    BY <1>1 DEF HandTypes
  <2>2. \A t \in Receivers : receiver'[t] = IF t = r THEN (IF object = 0 THEN "failed" ELSE "get") ELSE receiver[t]
    BY <1>1 DEF HandTypes
  <2>3. \A t \in Receivers : sentBefore'[t] = IF t = r /\ object # 0 THEN Elements(sentSoFar[object]) ELSE sentBefore[t]
    BY <1>1 DEF HandTypes
  <2> QED
    BY <1>2, <1>3, <2>1, <2>2, <2>3
<1>7. \A x : OpenedBySome(x)' <=> OpenedBySome(x)
  BY <1>6 DEF OpenedBySome
<1>8. NameInv'
  <2>1. \A t \in Receivers : receiver'[t] \in {"open", "failed"} <=> fdOf'[t] = 0
    BY <1>6 DEF NameInv
  <2>2. \A t \in Receivers : fdOf'[t] # 0 => \E s \in Senders : fdOf'[s] = fdOf'[t]
    <3>1. TAKE t \in Receivers
    <3>2. HAVE fdOf'[t] # 0
    <3>3. CASE t = r
      BY <1>6, <3>2, <3>3 DEF NameInv, OpenedBySome
    <3>4. CASE t # r
      BY <1>6, <3>2, <3>4 DEF NameInv, OpenedBySome
    <3> QED
      BY <3>3, <3>4
  <2>3. object # 0 => \E s \in Senders : fdOf'[s] = object
    BY <1>6 DEF NameInv, OpenedBySome
  <2>4. (\A t \in Receivers : receiver'[t] # "ended") => \A s \in Senders : fdOf'[s] \in {0, object}
    BY <1>1, <1>6 DEF NameInv
  <2>5. \A s \in Senders : /\ sender[s] = "open" <=> fdOf'[s] = 0
                           /\ sender[s] = "truncate" => medium = "shm"
    BY <1>6 DEF NameInv
  <2> QED
    BY <1>1, <2>1, <2>2, <2>3, <2>4, <2>5 DEF NameInv, OpenedBySome
<1>9. SentInv'
  <2>1. \A x \in Objects : \A v \in Elements(sentSoFar[x]) : sender[v] = "ended" /\ fdOf'[v] = x
    <3>1. TAKE x \in Objects
    <3>2. TAKE v \in Elements(sentSoFar[x])
    <3>3. v \in Senders
      <4>1. sentSoFar[x] \in Seq(Senders)
        BY DEF HandTypes
      <4> QED
        BY <4>1 DEF Elements
    <3> QED
      BY <1>6, <3>3 DEF SentInv
  <2>2. \A t \in Receivers : fdOf'[t] = 0 => printed[t] = <<>> /\ sentBefore'[t] = {}
    BY <1>2, <1>6 DEF SentInv
  <2>3. \A t \in Receivers : fdOf'[t] # 0 => sentBefore'[t] \subseteq Elements(sentSoFar[fdOf'[t]])
    BY <1>6 DEF SentInv
  <2> QED
    <3>1. sentSoFar' = sentSoFar /\ content' = content /\ sender' = sender /\ printed' = printed
      BY <1>1
    <3>2. \A x \in Objects : ~OpenedBySome(x)' => content'[x] = <<>>
      BY <1>7, <3>1 DEF SentInv
    <3> QED
      BY <2>1, <2>2, <2>3, <3>1, <3>2 DEF SentInv
<1>10. ShmInv'
  <2>1. SUFFICES ASSUME medium = "shm"
                 PROVE  ShmInv'
    BY <1>1 DEF ShmInv
  <2>2. \A t \in Receivers : /\ receiver'[t] = "get" => printed[t] = <<>>
                             /\ sentBefore'[t] # {} => receiver'[t] # "killed" /\ Unwritten \notin Elements(printed[t])
    <3>1. TAKE t \in Receivers
    <3>2. CASE t = r
      <4>1. Elements(printed[r]) = {} /\ receiver'[r] # "killed"
        BY <1>2, <1>6 DEF Elements
      <4> QED
        BY <1>2, <3>2, <4>1
    <3>3. CASE t # r
      BY <1>6, <2>1, <3>3 DEF ShmInv
    <3> QED
      BY <3>2, <3>3
  <2> QED
    BY <1>1, <1>6, <2>1, <2>2 DEF ShmInv, Elements
<1>11. QueueInv'
  <2>1. SUFFICES ASSUME medium = "queue"
                 PROVE  QueueInv'
    BY <1>1 DEF QueueInv
  <2>2. \A x : Taken(x)' = Taken(x)
    BY <1>1 DEF Taken
  <2>3. AllPrinted' = AllPrinted
    BY <1>1 DEF AllPrinted, Elements
  <2>4. \A t \in Receivers : InOrder(printed[t], sentSoFar[fdOf'[t]], Len(sentSoFar[fdOf'[t]]) - Len(content[fdOf'[t]]))
    <3>1. TAKE t \in Receivers
    <3>2. CASE t = r
      BY <1>2, <3>2 DEF InOrder
    <3>3. CASE t # r
      BY <1>6, <2>1, <3>3 DEF QueueInv, Taken
    <3> QED
      BY <3>2, <3>3
  <2>5. \A t \in Receivers : receiver'[t] = "remove" /\ object = fdOf'[t] => sentBefore'[t] \subseteq AllPrinted
    BY <1>6, <2>1 DEF QueueInv
  <2>6. \A t \in Receivers : InOrder(printed[t], sentSoFar[fdOf[t]], Taken(fdOf[t]))'
    BY <1>1, <2>4 DEF Taken
  <2> QED
    BY <1>1, <2>1, <2>2, <2>3, <2>5, <2>6 DEF QueueInv
<1> QED
  BY <1>5, <1>8, <1>9, <1>10, <1>11

\* A receiver of the memory is killed, or has the value and will remove the name.
LEMMA ReadShmStep ==
  ASSUME HandAssumption, HandInv, NEW r \in Receivers, ReadShm(r)
  PROVE  HandInv'
<1> USE DEF HandInv
<1> DEFINE o == fdOf[r]
           new == IF content[o] = <<>> THEN "killed" ELSE "remove"
<1>1. /\ receiver[r] = "get" /\ medium = "shm"
      /\ receiver' = [receiver EXCEPT ![r] = new]
      /\ printed' = IF content[o] = <<>> THEN printed ELSE [printed EXCEPT ![r] = content[o]]
      /\ UNCHANGED <<medium, sender, object, content, fdOf, sentSoFar, sentBefore>>
  BY DEF ReadShm, ReceiverGoes
<1>2. o \in Objects /\ printed[r] = <<>>
  BY <1>1 DEF NameInv, HandTypes, ShmInv
<1>3. content[o] \in Seq(Values) /\ (content[o] = <<>> \/ \E v \in Values : content[o] = <<v>>)
  BY <1>1, <1>2 DEF HandTypes, ShmInv
<1>4. HandTypes'
  BY <1>1, <1>3 DEF HandTypes
<1>5. /\ receiver'[r] = new /\ printed'[r] = content[o]
      /\ \A t \in Receivers : t # r => receiver'[t] = receiver[t] /\ printed'[t] = printed[t]
  BY <1>1, <1>2 DEF HandTypes
<1>6. NameInv'
  <2>1. \A x : OpenedBySome(x)' <=> OpenedBySome(x)
    BY <1>1 DEF OpenedBySome
  <2>2. \A t \in Receivers : /\ receiver'[t] \in {"open", "failed"} <=> receiver[t] \in {"open", "failed"}
                             /\ receiver'[t] = "ended" <=> receiver[t] = "ended"
    BY <1>1, <1>5
  <2>3. \A t \in Receivers : receiver'[t] \in {"open", "failed"} <=> fdOf[t] = 0
    BY <2>2 DEF NameInv
  <2> QED
    BY <1>1, <2>1, <2>2, <2>3 DEF NameInv
<1>7. SentInv'
  <2>1. \A x : OpenedBySome(x)' <=> OpenedBySome(x)
    BY <1>1 DEF OpenedBySome
  <2>2. \A t \in Receivers : fdOf[t] = 0 => printed'[t] = <<>> /\ sentBefore[t] = {}
    BY <1>2, <1>5 DEF SentInv, Objects, Senders
  <2> QED
    BY <1>1, <2>1, <2>2 DEF SentInv
<1>8. sentBefore[r] # {} => content[o] # <<>> /\ content[o] # <<Unwritten>>
  <2>1. HAVE sentBefore[r] # {}
  <2>2. PICK v \in sentBefore[r] : TRUE
    BY <2>1
  <2>3. v \in Senders /\ sender[v] = "ended" /\ fdOf[v] = o
    BY <1>2, <2>2 DEF SentInv, HandTypes, Objects, Senders
  <2> QED
    BY <1>1, <2>3 DEF ShmInv
<1>9. ShmInv'
  <2>1. \A t \in Receivers : /\ receiver'[t] = "get" => printed'[t] = <<>>
                             /\ sentBefore[t] # {} => receiver'[t] # "killed" /\ Unwritten \notin Elements(printed'[t])
    <3>1. TAKE t \in Receivers
    <3>2. CASE t # r
      BY <1>1, <1>5, <3>2 DEF ShmInv
    <3>3. CASE t = r
      <4>1. \A v \in Values : Elements(<<v>>) = {v}
        BY DEF Elements
      <4>2. sentBefore[r] # {} => receiver'[r] # "killed" /\ Unwritten \notin Elements(printed'[r])
        <5>1. HAVE sentBefore[r] # {}
        <5>2. PICK v \in Values : content[o] = <<v>>
          BY <1>3, <1>8, <5>1
        <5>3. v # Unwritten
          BY <1>8, <5>1, <5>2
        <5>4. Elements(printed'[r]) = {v}
          BY <1>5, <4>1, <5>2
        <5> QED
          BY <1>5, <1>8, <5>1, <5>3, <5>4
      <4> QED
        BY <1>5, <3>3, <4>2
    <3> QED
      BY <3>2, <3>3
  <2> QED
    BY <1>1, <2>1 DEF ShmInv
<1>10. QueueInv'
  BY <1>1 DEF QueueInv
<1> QED
  BY <1>4, <1>6, <1>7, <1>9, <1>10

\* A receiver takes the first value of its queue, or leaves the loop.
LEMMA MsgrcvStep ==
  ASSUME HandAssumption, HandInv, NEW r \in Receivers, Msgrcv(r)
  PROVE  HandInv'
<1> USE DEF HandInv
<1> DEFINE o == fdOf[r]
           q == content[o]
           sent == sentSoFar[o]
           n == Len(sent) - Len(q)
<1>1. /\ receiver[r] = "get" /\ medium = "queue"
      /\ UNCHANGED <<medium, sender, object, fdOf, sentSoFar, sentBefore>>
  BY DEF Msgrcv, ReceiverGoes
<1>2. o \in Objects /\ OpenedBySome(o)
  BY <1>1 DEF NameInv, HandTypes
<1>3. /\ \A x : OpenedBySome(x)' <=> OpenedBySome(x)
      /\ q \in Seq(Values) /\ sent \in Seq(Senders) /\ sent \in Seq(Values) /\ Holds(q, sent)
      /\ \A m \in 1 .. n : sent[m] \in AllPrinted
  BY <1>1, <1>2 DEF OpenedBySome, HandTypes, Values, QueueInv, Taken
<1>4. ShmInv'
  BY <1>1 DEF ShmInv
<1>5. /\ \A x \in Objects : /\ Holds(content[x], sentSoFar[x])
                            /\ \A m \in 1 .. Taken(x) : sentSoFar[x][m] \in AllPrinted
      /\ \A t \in Receivers : InOrder(printed[t], sentSoFar[fdOf[t]], Taken(fdOf[t]))
      /\ \A t \in Receivers : receiver[t] = "remove" /\ object = fdOf[t] => sentBefore[t] \subseteq AllPrinted
  BY <1>1 DEF QueueInv
<1>6. CASE /\ receiver' = [receiver EXCEPT ![r] = "remove"] /\ UNCHANGED <<printed, content>>
           /\ object = o => q = <<>>
  <2>1. HandTypes'
    BY <1>1, <1>6 DEF HandTypes
  <2>2. receiver'[r] = "remove" /\ \A t \in Receivers : t # r => receiver'[t] = receiver[t]
    BY <1>6 DEF HandTypes
  <2>3. NameInv'
    <3>1. \A t \in Receivers : receiver'[t] = "ended" <=> receiver[t] = "ended"
      BY <1>1, <2>2
    <3>2. \A t \in Receivers : /\ receiver'[t] \in {"open", "failed"} <=> fdOf[t] = 0
                               /\ receiver'[t] = "killed" => medium = "shm"
      BY <1>1, <2>2 DEF NameInv
    <3> QED
      BY <1>1, <1>3, <3>1, <3>2 DEF NameInv
  <2>4. SentInv'
    BY <1>1, <1>3, <1>6 DEF SentInv
  <2>5. object = o => sentBefore[r] \subseteq AllPrinted
    <3>1. HAVE object = o
    <3>2. Len(q) = 0 /\ Len(sent) \in Nat
      BY <1>3, <1>6, <3>1
    <3>3. Elements(sent) \subseteq AllPrinted
      BY <1>3, <3>2 DEF Elements
    <3>4. sentBefore[r] \subseteq Elements(sent)
      BY <1>2 DEF SentInv, Objects, Senders
    <3> QED
      BY <3>3, <3>4
  <2>6. AllPrinted' = AllPrinted /\ \A x : Taken(x)' = Taken(x)
    BY <1>1, <1>6 DEF AllPrinted, Taken
  <2>7. \A t \in Receivers : receiver'[t] = "remove" /\ object = fdOf[t] => sentBefore[t] \subseteq AllPrinted
    BY <1>5, <2>2, <2>5
  <2>8. \A t \in Receivers : InOrder(printed[t], sentSoFar[fdOf[t]], Taken(fdOf[t]))'
    <3>1. TAKE t \in Receivers
    <3>2. Taken(fdOf[t])' = Taken(fdOf[t])
      BY <1>1, <2>6
    <3> QED
      BY <1>1, <1>5, <1>6, <3>2
  <2>9. QueueInv'
    BY <1>1, <1>6, <2>6, <2>7, <2>8 DEF QueueInv
  <2> QED
    BY <1>4, <2>1, <2>3, <2>4, <2>9
<1>7. CASE /\ receiver' = [receiver EXCEPT ![r] = "get"] /\ q # <<>>
           /\ printed' = [printed EXCEPT ![r] = Append(printed[r], Head(q))]
           /\ content' = [content EXCEPT ![o] = Tail(q)]
  <2>1. /\ Tail(q) \in Seq(Values) /\ Head(q) \in Values
    BY <1>3, <1>7, TakeFirst
  <2>2. /\ n \in Nat /\ n + 1 \in 1 .. Len(sent)
        /\ Len(sent) - Len(Tail(q)) = n + 1 /\ Head(q) = sent[n + 1] /\ Holds(Tail(q), sent)
        /\ \A p \in Seq(Values) : InOrder(p, sent, n) =>
             InOrder(p, sent, n + 1) /\ InOrder(Append(p, Head(q)), sent, n + 1)
    BY <1>3, <1>7, TakeNext
  <2>3. /\ Append(printed[r], Head(q)) \in Seq(Values) /\ Len(printed[r]) \in Nat
        /\ Len(Append(printed[r], Head(q))) = Len(printed[r]) + 1
        /\ \A k \in 1 .. Len(printed[r]) : Append(printed[r], Head(q))[k] = printed[r][k]
        /\ Append(printed[r], Head(q))[Len(printed[r]) + 1] = Head(q)
        /\ Elements(Append(printed[r], Head(q))) = Elements(printed[r]) \union {Head(q)}
    <3>1. printed[r] \in Seq(Values)
      BY DEF HandTypes
    <3> QED
      BY <2>1, <3>1, AppendOne
  <2>4. receiver' = receiver
    BY <1>1, <1>7 DEF HandTypes
  <2>5. /\ printed'[r] = Append(printed[r], Head(q)) /\ content'[o] = Tail(q)
        /\ \A t \in Receivers : t # r => printed'[t] = printed[t]
        /\ \A x \in Objects : x # o => content'[x] = content[x]
    BY <1>2, <1>7 DEF HandTypes
  <2>6. HandTypes'
    BY <1>1, <1>2, <1>7, <2>1, <2>3, <2>4 DEF HandTypes
  <2>7. NameInv'
    BY <1>1, <1>3, <2>4 DEF NameInv
  <2>8. SentInv'
    <3>1. \A x \in Objects : ~OpenedBySome(x) => content'[x] = <<>>
      BY <1>2, <2>5 DEF SentInv
    <3>2. \A t \in Receivers : fdOf[t] = 0 => printed'[t] = <<>> /\ sentBefore[t] = {}
      BY <1>2, <2>5 DEF SentInv, Objects, Senders
    <3> QED
      BY <1>1, <1>3, <3>1, <3>2 DEF SentInv
  <2>9. AllPrinted \subseteq AllPrinted' /\ Head(q) \in AllPrinted'
    <3>1. \A t \in Receivers : Elements(printed[t]) \subseteq Elements(printed'[t])
      BY <2>3, <2>5
    <3>2. Head(q) \in Elements(printed'[r])
      BY <2>3, <2>5
    <3>3. AllPrinted' = UNION {Elements(printed'[t]) : t \in Receivers}
      BY DEF AllPrinted, Elements
    <3> QED
      BY <3>1, <3>2, <3>3 DEF AllPrinted
  <2>10. \A x \in Objects : /\ Len(sentSoFar[x]) - Len(content'[x]) = IF x = o THEN n + 1 ELSE Taken(x)
                            /\ Holds(content'[x], sentSoFar[x])
    BY <1>5, <2>2, <2>5 DEF Taken
  <2>11. \A x \in Objects : \A m \in 1 .. Len(sentSoFar[x]) - Len(content'[x]) : sentSoFar[x][m] \in AllPrinted'
    <3>1. TAKE x \in Objects
    <3>2. CASE x = o
      <4> HIDE DEF n
      <4>1. \A m \in 1 .. n + 1 : m \in 1 .. n \/ m = n + 1
        BY <2>2
      <4> QED
        BY <1>3, <2>2, <2>9, <2>10, <3>2, <4>1
    <3>3. CASE x # o
      BY <1>5, <2>9, <2>10, <3>3
    <3> QED
      BY <3>2, <3>3
  <2>12. \A t \in Receivers : InOrder(printed'[t], sentSoFar[fdOf[t]], Len(sentSoFar[fdOf[t]]) - Len(content'[fdOf[t]]))
    <3>1. TAKE t \in Receivers
    <3>2. printed[t] \in Seq(Values) /\ InOrder(printed[t], sentSoFar[fdOf[t]], Taken(fdOf[t]))
      BY <1>5 DEF HandTypes
    <3>3. CASE fdOf[t] = 0
      <4>1. printed'[t] = <<>>
        BY <1>2, <2>5, <3>3 DEF SentInv, Objects, Senders
      <4> QED
        BY <4>1 DEF InOrder
    <3>4. CASE fdOf[t] = o
      <4>1. InOrder(printed[t], sent, n)
        BY <3>2, <3>4 DEF Taken
      <4>2. InOrder(printed'[t], sent, n + 1)
        BY <2>2, <2>5, <3>2, <4>1
      <4> QED
        BY <1>2, <2>10, <3>4, <4>2
    <3>5. CASE fdOf[t] \in Objects /\ fdOf[t] # o
      BY <2>5, <2>10, <3>2, <3>5
    <3>6. fdOf[t] \in {0} \union Objects
      BY DEF HandTypes
    <3> QED
      BY <3>3, <3>4, <3>5, <3>6
  <2>13. \A t \in Receivers : Head(q) \notin Elements(printed[t])
    <3>1. SUFFICES ASSUME NEW t \in Receivers, NEW k \in 1 .. Len(printed[t]), printed[t][k] = Head(q)
                   PROVE  FALSE
      BY DEF Elements
    <3>2. fdOf[t] \in Objects
      <4>1. printed[t] # <<>>
        BY <3>1
      <4> QED
        BY <4>1 DEF SentInv, HandTypes
    <3>3. PICK m \in 1 .. Taken(fdOf[t]) : sentSoFar[fdOf[t]][m] = Head(q)
      BY <1>5, <3>1 DEF InOrder
    <3>4. m \in 1 .. Len(sentSoFar[fdOf[t]])
      <4>1. content[fdOf[t]] \in Seq(Values) /\ sentSoFar[fdOf[t]] \in Seq(Senders)
        BY <3>2 DEF HandTypes
      <4>2. Len(content[fdOf[t]]) \in Nat /\ Len(sentSoFar[fdOf[t]]) \in Nat
        BY <4>1
      <4>3. m \in 1 .. Len(sentSoFar[fdOf[t]]) - Len(content[fdOf[t]])
        BY <3>3 DEF Taken
      <4> QED
        BY <4>2, <4>3, Within
    <3>5. fdOf[Head(q)] = fdOf[t] /\ fdOf[Head(q)] = o
      <4>1. Head(q) \in Elements(sent)
        BY <2>2 DEF Elements
      <4>2. Head(q) \in Elements(sentSoFar[fdOf[t]])
        BY <3>3, <3>4 DEF Elements
      <4> QED
        BY <1>2, <3>2, <4>1, <4>2 DEF SentInv
    <3>6. m = n + 1
      <4>1. m \in 1 .. Len(sent) /\ sent[m] = Head(q)
        BY <3>3, <3>4, <3>5
      <4>2. \A l, j \in 1 .. Len(sent) : sent[l] = sent[j] => l = j
        BY <1>3 DEF Holds
      <4> HIDE DEF n
      <4> QED
        BY <2>2, <4>1, <4>2
    <3>7. m \in 1 .. n
      BY <3>3, <3>5 DEF Taken
    <3> HIDE DEF n
    <3> QED
      BY <2>2, <3>6, <3>7
  <2>14. \A t, u \in Receivers : \A k \in 1 .. Len(printed'[t]), l \in 1 .. Len(printed'[u]) :
           printed'[t][k] = printed'[u][l] => t = u /\ k = l
    <3> DEFINE Old(t, k) == k \in 1 .. Len(printed[t]) /\ printed'[t][k] = printed[t][k]
               New(t, k) == t = r /\ k = Len(printed[r]) + 1 /\ printed'[t][k] = Head(q)
    <3>1. \A t \in Receivers : \A k \in 1 .. Len(printed'[t]) : Old(t, k) \/ New(t, k)
      <4>1. \A k \in 1 .. Len(printed[r]) + 1 : k \in 1 .. Len(printed[r]) \/ k = Len(printed[r]) + 1
        BY <2>3
      <4> QED
        BY <2>3, <2>5, <4>1
    <3>2. \A t, u \in Receivers : \A k \in 1 .. Len(printed[t]), l \in 1 .. Len(printed[u]) :
            printed[t][k] = printed[u][l] => t = u /\ k = l
      BY <1>1 DEF QueueInv
    <3>3. \A t \in Receivers : \A k \in 1 .. Len(printed[t]) : printed[t][k] # Head(q)
      BY <2>13 DEF Elements
    <3>4. TAKE t \in Receivers, u \in Receivers
    <3>5. TAKE k \in 1 .. Len(printed'[t]), l \in 1 .. Len(printed'[u])
    <3>6. (Old(t, k) \/ New(t, k)) /\ (Old(u, l) \/ New(u, l))
      BY <3>1
    <3> QED
      BY <3>2, <3>3, <3>6
  <2>15. QueueInv'
    <3> HIDE DEF o
    <3>1. \A x \in Objects : Taken(x)' = Len(sentSoFar[x]) - Len(content'[x])
      BY <1>1 DEF Taken
    <3>2. \A t \in Receivers : InOrder(printed[t], sentSoFar[fdOf[t]], Taken(fdOf[t]))'
      BY <1>1, <2>12 DEF Taken
    <3>3. \A t \in Receivers : receiver[t] = "remove" /\ object = fdOf[t] => sentBefore[t] \subseteq AllPrinted'
      BY <1>5, <2>9
    <3>4. \A x \in Objects : \A m \in 1 .. Taken(x)' : sentSoFar[x][m] \in AllPrinted'
      BY <2>11, <3>1
    <3> QED
      BY <1>1, <2>4, <2>10, <2>14, <3>2, <3>3, <3>4 DEF QueueInv
  <2> QED
    BY <1>4, <2>6, <2>7, <2>8, <2>15
<1> QED
  BY <1>6, <1>7 DEF Msgrcv, ReceiverGoes, WhileAny

\* A receiver removes what has the name, or the queue it opened.
LEMMA RemoveObjectStep ==
  ASSUME HandAssumption, HandInv, NEW r \in Receivers, RemoveObject(r)
  PROVE  HandInv'
<1> USE DEF HandInv
<1>1. /\ receiver[r] = "remove" /\ receiver' = [receiver EXCEPT ![r] = "ended"]
      /\ object' \in {0, object}
      /\ UNCHANGED <<medium, sender, content, fdOf, printed, sentSoFar, sentBefore>>
  BY DEF RemoveObject, ReceiverGoes
<1>2. HandTypes'
  BY <1>1 DEF HandTypes
<1>3. receiver'[r] = "ended" /\ \A t \in Receivers : t # r => receiver'[t] = receiver[t]
  BY <1>1 DEF HandTypes
<1>4. \A x : (OpenedBySome(x)' <=> OpenedBySome(x)) /\ Taken(x)' = Taken(x)
  BY <1>1 DEF OpenedBySome, Taken
<1>5. NameInv'
  <2>1. \A t \in Receivers : receiver'[t] \in {"open", "failed"} <=> fdOf[t] = 0
    BY <1>1, <1>3 DEF NameInv
  <2> QED
    BY <1>1, <1>3, <1>4, <2>1 DEF NameInv
<1>6. SentInv'
  BY <1>1, <1>4 DEF SentInv
<1>7. ShmInv'
  <2>1. medium = "shm" => \A t \in Receivers :
          /\ receiver'[t] = "get" => printed[t] = <<>>
          /\ sentBefore[t] # {} => receiver'[t] # "killed" /\ Unwritten \notin Elements(printed[t])
    BY <1>3 DEF ShmInv
  <2> QED
    BY <1>1, <2>1 DEF ShmInv
<1>8. QueueInv'
  <2>1. AllPrinted' = AllPrinted
    BY <1>1 DEF AllPrinted
  <2>2. SUFFICES ASSUME medium = "queue"
                 PROVE  QueueInv'
    BY <1>1 DEF QueueInv
  <2>3. \A t \in Receivers : receiver'[t] = "remove" /\ object' = fdOf[t] => sentBefore[t] \subseteq AllPrinted
    <3>1. TAKE t \in Receivers
    <3>2. HAVE receiver'[t] = "remove" /\ object' = fdOf[t]
    <3>3. receiver[t] = "remove" /\ fdOf[t] # 0
      BY <1>3, <3>2 DEF NameInv
    <3>4. object = fdOf[t]
      BY <1>1, <3>2, <3>3
    <3> QED
      BY <2>2, <3>3, <3>4 DEF QueueInv
  <2>4. \A t \in Receivers : InOrder(printed[t], sentSoFar[fdOf[t]], Taken(fdOf[t]))'
    <3>1. TAKE t \in Receivers
    <3>2. Taken(fdOf[t])' = Taken(fdOf[t])
      BY <1>1, <1>4
    <3> QED
      BY <1>1, <2>2, <3>2 DEF QueueInv
  <2> QED
    BY <1>1, <1>4, <2>1, <2>2, <2>3, <2>4 DEF QueueInv
<1> QED
  BY <1>2, <1>5, <1>6, <1>7, <1>8

\* The invariant says what was promised.
LEMMA InvHandedOver ==
  ASSUME HandAssumption, HandInv
  PROVE  HandedOver
<1> USE DEF HandInv
<1>1. ValueWaits
  <2>1. SUFFICES ASSUME medium = "shm", NEW s \in Senders, sender[s] = "ended",
                        \A r \in Receivers : receiver[r] # "ended"
                 PROVE  object # 0 /\ content[object] \notin {<<>>, <<Unwritten>>}
    BY DEF ValueWaits
  <2>2. fdOf[s] # 0 /\ fdOf[s] \in {0, object}
    BY <2>1 DEF NameInv
  <2> QED
    BY <2>1, <2>2 DEF ShmInv
<1>2. NoneMissed
  <2>1. SUFFICES ASSUME NEW r \in Receivers, sentBefore[r] # {}
                 PROVE  /\ receiver[r] # "killed"
                        /\ medium = "shm" => Unwritten \notin Elements(printed[r])
                        /\ medium = "queue" /\ receiver[r] = "remove" /\ object = fdOf[r] =>
                             sentBefore[r] \subseteq AllPrinted
    BY DEF NoneMissed, Elements, AllPrinted
  <2>2. fdOf[r] # 0
    BY <2>1 DEF SentInv
  <2>3. medium # "none"
    BY <2>2 DEF NameInv
  <2> QED
    BY <2>1, <2>3 DEF ShmInv, QueueInv, NameInv, HandTypes
<1>3. PrintedInOrder
  <2>1. SUFFICES ASSUME medium = "queue", NEW r \in Receivers, NEW t \in Receivers,
                        NEW k \in 1 .. Len(printed[r]), NEW l \in 1 .. Len(printed[t])
                 PROVE  /\ printed[r][k] = printed[t][l] => r = t /\ k = l
                        /\ r = t /\ k < l => \E m, n \in 1 .. Len(sentSoFar[fdOf[r]]) :
                             m < n /\ sentSoFar[fdOf[r]][m] = printed[r][k] /\ sentSoFar[fdOf[r]][n] = printed[r][l]
    BY DEF PrintedInOrder
  <2>2. printed[r][k] = printed[t][l] => r = t /\ k = l
    BY <2>1 DEF QueueInv
  <2>3. ASSUME r = t, k < l
        PROVE  \E m, n \in 1 .. Len(sentSoFar[fdOf[r]]) :
                 m < n /\ sentSoFar[fdOf[r]][m] = printed[r][k] /\ sentSoFar[fdOf[r]][n] = printed[r][l]
    <3>1. fdOf[r] \in Objects
      <4>1. printed[r] # <<>>
        BY <2>1
      <4> QED
        BY <4>1 DEF SentInv, HandTypes
    <3>2. InOrder(printed[r], sentSoFar[fdOf[r]], Taken(fdOf[r]))
      BY <2>1 DEF QueueInv
    <3>3. PICK m \in 1 .. Taken(fdOf[r]), n \in 1 .. Taken(fdOf[r]) :
            m < n /\ sentSoFar[fdOf[r]][m] = printed[r][k] /\ sentSoFar[fdOf[r]][n] = printed[r][l]
      <4>1. l \in 1 .. Len(printed[r]) /\ k < l
        BY <2>3
      <4>2. \E i, j \in 1 .. Taken(fdOf[r]) :
              i < j /\ sentSoFar[fdOf[r]][i] = printed[r][k] /\ sentSoFar[fdOf[r]][j] = printed[r][l]
        BY <3>2, <4>1 DEF InOrder
      <4> QED
        BY <4>2
    <3>4. Len(content[fdOf[r]]) \in Nat /\ Len(sentSoFar[fdOf[r]]) \in Nat
      <4>1. content[fdOf[r]] \in Seq(Values) /\ sentSoFar[fdOf[r]] \in Seq(Senders)
        BY <3>1 DEF HandTypes
      <4> QED
        BY <4>1
    <3>5. m \in 1 .. Len(sentSoFar[fdOf[r]]) /\ n \in 1 .. Len(sentSoFar[fdOf[r]])
      BY <3>3, <3>4, Within DEF Taken
    <3> QED
      BY <3>3, <3>5
  <2> QED
    BY <2>2, <2>3
<1> QED
  BY <1>1, <1>2, <1>3 DEF HandedOver

\* kolos2 kol1/zad2 and kol2/zad3: what a sender has put under the name is there until a
\* receiver removes it; the receiver that comes after it is not killed, leaves no value of
\* a queue behind, and the values are printed once each, in the order of sending.
THEOREM ValuesHandedOver == HandSpec => []HandedOver
<1> USE HandAssumption
<1>1. HandInit => HandInv
  BY HandInitInv
<1>2. HandInv /\ [HandNext]_handVars => HandInv'
  <2>1. SUFFICES ASSUME HandInv, [HandNext]_handVars
                 PROVE  HandInv'
    OBVIOUS
  <2>2. CASE HandMain
    BY <2>1, <2>2, HandMainStep
  <2>3. ASSUME NEW s \in Senders, SenderOpen(s) \/ Truncate(s) \/ Memcpy(s) \/ Msgsnd(s)
        PROVE  HandInv'
    BY <2>1, <2>3, SenderOpenStep, SenderShmStep, MsgsndStep
  <2>4. ASSUME NEW r \in Receivers, ReceiverOpen(r) \/ ReadShm(r) \/ Msgrcv(r) \/ RemoveObject(r)
        PROVE  HandInv'
    BY <2>1, <2>4, ReceiverOpenStep, ReadShmStep, MsgrcvStep, RemoveObjectStep
  <2>5. CASE UNCHANGED handVars
    <3>1. \A x : OpenedBySome(x)' <=> OpenedBySome(x)
      BY <2>5 DEF handVars, OpenedBySome
    <3> QED
      BY <2>1, <2>5 DEF handVars, HandInv, HandTypes, NameInv, SentInv, ShmInv, QueueInv,
         OpenedBySome, Taken, AllPrinted
  <2> QED
    BY <2>1, <2>2, <2>3, <2>4, <2>5 DEF HandNext
<1>3. HandInv => HandedOver
  BY InvHandedOver
<1> QED
  BY <1>1, <1>2, <1>3, PTL DEF HandSpec
=============================================================================
