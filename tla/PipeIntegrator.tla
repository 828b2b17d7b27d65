--------------------------- MODULE PipeIntegrator ---------------------------
(***************************************************************************)
(* lab05/zad02: the parent makes one pipe for each child before it forks;  *)
(* every child holds all the ends.  What is modelled of a component is     *)
(* whose it is and how many samples it adds up; a sum counts the samples   *)
(* of each child.                                                          *)
(***************************************************************************)
EXTENDS Integers, FiniteSets

CONSTANTS
  MaxChildren,         \* model bound: the largest n_procs
  Points,              \* model bound: the range 0..1 in units of the smallest rect_width
  Rounding             \* model bound: the samples by which rounding puts a segment wrong

ASSUME PipeAssumption ==
  MaxChildren \in Nat \ {0} /\ Points \in Nat \ {0} /\ Rounding \in Nat

VARIABLES
  children,            \* n_procs
  rect_width,
  parent,              \* what the parent does next
  child,               \* what each child does next
  child_result,        \* the samples each child adds up
  fd,                  \* the samples of the component in each pipe
  readFrom,            \* i of the loop of line 71
  writeEnd,            \* the parent's fd[i][1]
  component,           \* what the parent has read last
  integration_result

pipeVars == <<children, rect_width, parent, child, child_result, fd, readFrom, writeEnd,
              component, integration_result>>

Children == 1 .. MaxChildren
NoData == 0

Zero == [c \in Children |-> 0]
Of(c, samples) == [Zero EXCEPT ![c] = samples]
Plus(u, v) == [c \in Children |-> u[c] + v[c]]

PipeInit ==
  /\ children = 1 /\ rect_width = 1
  /\ parent = "main"
  /\ child = [c \in Children |-> "none"]
  /\ child_result = Zero
  /\ fd = [c \in Children |-> NoData]
  /\ readFrom = 1 /\ writeEnd = "open"
  /\ component = Zero /\ integration_result = Zero

\* The numbers of samples the loop of integrate may take.  x += dx adds up rounding errors,
\* so that x may pass b some samples too early or too late; the first one is always taken.
integrate(a, b, dx) ==
  LET exact == (b - a + dx - 1) \div dx IN {n \in 1 .. exact + Rounding : n >= exact - Rounding}

\* In units of a grid of children * Points, on which the ends of all segments lie.
Segment(c) == integrate((c - 1) * Points, c * Points, children * rect_width)

\* A pipe that cannot be made ends the parent before it forks.
PipeMain ==
  /\ parent = "main"
  /\ children' \in Children /\ rect_width' \in 1 .. Points
  /\ parent' \in {"fork", "failed"}
  /\ UNCHANGED <<child, child_result, fd, readFrom, writeEnd, component, integration_result>>

Forked == {c \in Children : child[c] # "none"}

\* A fork that fails ends the parent; the children it has go on.
Fork ==
  /\ parent = "fork"
  /\ LET c == Cardinality(Forked) + 1 IN
     \/ c > children /\ parent' = "sum" /\ UNCHANGED child
     \/ c <= children /\ child' = [child EXCEPT ![c] = "integrate"] /\ UNCHANGED parent
     \/ c <= children /\ parent' = "failed" /\ UNCHANGED child
  /\ UNCHANGED <<children, rect_width, child_result, fd, readFrom, writeEnd, component,
                 integration_result>>

\* Mutant: the parent keeps the write end.
KeepWriteEnd == writeEnd' = "open"
CloseWriteEnd == writeEnd' = "closed"

ParentClose ==
  /\ parent = "sum" /\ readFrom <= children
  /\ parent' = "read" /\ CloseWriteEnd
  /\ UNCHANGED <<children, rect_width, child, child_result, fd, readFrom, component,
                 integration_result>>

\* A pipe without data is at its end only when no process has its write end: each child
\* holds the ends of all the pipes until it exits.
AtEnd(i) == writeEnd = "closed" /\ \A c \in Forked : child[c] \in {"ended", "killed"}

\* Mutant: a pipe without data is not waited for.
DataOrNothing == TRUE
DataOrEnd == fd[readFrom] # NoData \/ AtEnd(readFrom)

\* Mutant: component keeps what was read before.
ComponentLeft == component
ComponentCleared == Zero

\* A read that finds the end leaves the 0.0 of line 73.
ParentRead ==
  /\ parent = "read" /\ DataOrEnd
  /\ component' = IF fd[readFrom] = NoData THEN ComponentCleared ELSE Of(readFrom, fd[readFrom])
  /\ integration_result' = Plus(integration_result, component')
  /\ fd' = [fd EXCEPT ![readFrom] = NoData]
  /\ readFrom' = readFrom + 1 /\ writeEnd' = "open"
  /\ parent' = "sum"
  /\ UNCHANGED <<children, rect_width, child, child_result>>

ParentEnds ==
  /\ parent = "sum" /\ readFrom > children /\ parent' = "ended"
  /\ UNCHANGED <<children, rect_width, child, child_result, fd, readFrom, writeEnd, component,
                 integration_result>>

ChildBecomes(c, from, to) == child[c] = from /\ child' = [child EXCEPT ![c] = to]

ChildIntegrate(c) ==
  /\ ChildBecomes(c, "integrate", "write")
  /\ \E n \in Segment(c) : child_result' = [child_result EXCEPT ![c] = n]
  /\ UNCHANGED <<children, rect_width, parent, fd, readFrom, writeEnd, component, integration_result>>

\* With the parent and every other child gone SIGPIPE ends the child here: nobody is left
\* to tell that from a write.
ChildWrite(c) ==
  /\ ChildBecomes(c, "write", "exit")
  /\ fd' = [fd EXCEPT ![c] = child_result[c]]
  /\ UNCHANGED <<children, rect_width, parent, child_result, readFrom, writeEnd, component,
                 integration_result>>

ChildExit(c) ==
  /\ ChildBecomes(c, "exit", "ended")
  /\ UNCHANGED <<children, rect_width, parent, child_result, fd, readFrom, writeEnd, component,
                 integration_result>>

\* A signal from outside; after the write it does what the exit does.  The parent does
\* not look how its children ended.
ChildKilled(c) ==
  /\ ChildBecomes(c, "integrate", "killed") \/ ChildBecomes(c, "write", "killed")
  /\ UNCHANGED <<children, rect_width, parent, child_result, fd, readFrom, writeEnd, component,
                 integration_result>>

ParentStep == Fork \/ ParentClose \/ ParentRead \/ ParentEnds
ChildStep(c) == ChildIntegrate(c) \/ ChildWrite(c) \/ ChildExit(c)
PipeNext == PipeMain \/ ParentStep \/ \E c \in Children : ChildStep(c) \/ ChildKilled(c)

PipeSpec == PipeInit /\ [][PipeNext]_pipeVars

\* The parent and the children that live go on.
PipeFairness == WF_pipeVars(ParentStep) /\ \A c \in Children : WF_pipeVars(ChildStep(c))

-----------------------------------------------------------------------------
(* Properties *)

\* The parent adds up, once, what every child has computed that was not killed, and nothing
\* else: no component is missed because its pipe was read too early, none is added again
\* for a child that was killed.
ComponentsKept ==
  parent = "ended" =>
    integration_result =
      [c \in Children |-> IF c \in Forked /\ child[c] # "killed" THEN child_result[c] ELSE 0]

\* The parent ends, whichever children are killed: the write ends are all closed in the end.
ParentDone == parent = "fork" ~> parent \in {"ended", "failed"}
=============================================================================
