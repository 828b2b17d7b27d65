---------------------------- MODULE ProcessTree -----------------------------
(***************************************************************************)
(* lab03/zad03: every directory below the first is searched by a process   *)
(* of its own, for files that begin with a phrase.  A child starts with a  *)
(* copy of its parent's calls of process_directory, and with them of the   *)
(* entries readdir has not given yet.                                      *)
(***************************************************************************)
EXTENDS Integers, Sequences, FiniteSets

CONSTANTS
  Root,                \* the directory on the command line
  Subdirectories,      \* the other directories that do not begin with a dot
  Hidden,              \* the directories that do
  Files,
  Parent,              \* the directory of each file and directory
  Starts,              \* the files that begin with the phrase
  PartOf,              \* the files that are shorter, and begin as the phrase does
  MaxProcesses         \* model bound: fork fails beyond it

Directories == {Root} \union Subdirectories \union Hidden
Below == Subdirectories \union Hidden \union Files

\* The entries are of one kind each and form a tree: no set of them holds the directories
\* of all its members.  A file shorter than the phrase does not begin with it.
ASSUME TreeAssumption ==
  /\ MaxProcesses \in Nat \ {0}
  /\ Root \notin Below
  /\ Subdirectories \intersect Hidden = {} /\ Files \intersect Directories = {}
  /\ Parent \in [Below -> Directories]
  /\ \A S \in SUBSET Below : (\A e \in S : Parent[e] \in S) => S = {}
  /\ Starts \subseteq Files /\ PartOf \subseteq Files /\ Starts \intersect PartOf = {}

VARIABLES
  processes,           \* the number of processes there have been
  todo,                \* the stack of each process: the entries left in each call
  checked,             \* how often process_file has read each file
  found,               \* the files printed
  skipped              \* what was given up: no fork, no opendir, no stat, no fopen

treeVars == <<processes, todo, checked, found, skipped>>

TreeProcesses == 1 .. MaxProcesses
Entries(d) == {e \in Below : Parent[e] = d}

TreeInit ==
  /\ processes = 1
  /\ todo = [p \in TreeProcesses |-> IF p = 1 THEN <<{Root}>> ELSE <<>>]
  /\ checked = [f \in Files |-> 0]
  /\ found = {} /\ skipped = {}

Active(p) == todo[p] # <<>>
Top(p) == todo[p][Len(todo[p])]
Pop(s) == SubSeq(s, 1, Len(s) - 1)
Without(s, e) == [s EXCEPT ![Len(s)] = @ \ {e}]

\* main calls process_directory; a directory that cannot be opened is left at once.
ProcessRoot ==
  /\ todo[1] = <<{Root}>>
  /\ \/ todo' = [todo EXCEPT ![1] = <<Entries(Root)>>] /\ UNCHANGED skipped
     \/ todo' = [todo EXCEPT ![1] = <<{}>>] /\ skipped' = skipped \union {Root}
  /\ UNCHANGED <<processes, checked, found>>

\* An entry without a stat, or a file that cannot be opened, is passed over with a message.
PassUnreadable(p) ==
  /\ Active(p)
  /\ \E e \in Top(p) \ {Root} : todo' = [todo EXCEPT ![p] = Without(@, e)] /\ skipped' = skipped \union {e}
  /\ UNCHANGED <<processes, checked, found>>

\* Line 59 compares one character, so it passes over more than the "." and ".." it names.
Passed(d) == d \in Hidden

PassHidden(p) ==
  /\ Active(p)
  /\ \E d \in Top(p) \intersect (Subdirectories \union Hidden) :
       Passed(d) /\ todo' = [todo EXCEPT ![p] = Without(@, d)]
  /\ UNCHANGED <<processes, checked, found, skipped>>

\* Mutant: a fork that fails ends the loop over the entries.
BreakOff(s, d) == [s EXCEPT ![Len(s)] = {}]
Continue(s, d) == Without(s, d)

\* The child searches the directory with a call on top of those it has copied.
ForkDirectory(p) ==
  /\ Active(p)
  /\ \E d \in Top(p) \intersect (Subdirectories \union Hidden) :
       /\ ~Passed(d)
       /\ \/ \E opened \in BOOLEAN :
               /\ processes < MaxProcesses /\ processes' = processes + 1
               /\ LET left == Without(todo[p], d) IN todo' = [todo EXCEPT ![p] = left,
                    ![processes + 1] = Append(left, IF opened THEN Entries(d) ELSE {})]
               /\ skipped' = IF opened THEN skipped ELSE skipped \union {d}
          \/ /\ todo' = [todo EXCEPT ![p] = Continue(@, d)] /\ skipped' = skipped \union {d}
             /\ UNCHANGED processes
  /\ UNCHANGED <<checked, found>>

\* The buffer is compared over the length of the phrase, beyond what a shorter file has
\* put into it: the bytes that were there decide.
Matches(f) == IF f \in PartOf THEN BOOLEAN ELSE {f \in Starts}

process_file(p) ==
  /\ Active(p)
  /\ \E f \in Top(p) \intersect Files : \E m \in Matches(f) :
       /\ todo' = [todo EXCEPT ![p] = Without(@, f)]
       /\ checked' = [checked EXCEPT ![f] = @ + 1]
       /\ found' = IF m THEN found \union {f} ELSE found
  /\ UNCHANGED <<processes, skipped>>

\* Mutant: a child that has searched its directory goes on in its parent's loop.
GoOn(p) == Pop(todo[p])
Exit(p) == <<>>

Return(p) ==
  /\ Active(p) /\ Top(p) = {}
  /\ todo' = [todo EXCEPT ![p] = Exit(p)]
  /\ UNCHANGED <<processes, checked, found, skipped>>

TreeNext ==
  \/ ProcessRoot
  \/ \E p \in TreeProcesses : \/ PassUnreadable(p) \/ PassHidden(p) \/ ForkDirectory(p)
                              \/ process_file(p) \/ Return(p)

TreeSpec == TreeInit /\ [][TreeNext]_treeVars

-----------------------------------------------------------------------------
(* Properties *)

\* No file is read by two processes, or twice by one.
ReadOnce == \A f \in Files : checked[f] <= 1

\* Nothing falls between two processes: when all have ended, the files read are those of the
\* directories reached, whichever a process passed over and whatever failed.  Those printed
\* are the ones that begin with the phrase, with some of those that are shorter than it.
PassedOver == {d \in Subdirectories \union Hidden : Passed(d)}
Reached[e \in {Root} \union Below] ==
  e \notin skipped \union PassedOver /\ (e = Root \/ Reached[Parent[e]])
SearchComplete ==
  (\A p \in TreeProcesses : ~Active(p)) =>
    /\ {f \in Files : checked[f] > 0} = {f \in Files : Reached[f]}
    /\ {f \in Starts : Reached[f]} \subseteq found
    /\ found \subseteq {f \in Starts \union PartOf : Reached[f]}
=============================================================================
