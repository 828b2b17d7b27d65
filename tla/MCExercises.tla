---------------------------- MODULE MCExercises -----------------------------
(* The small programs of the lessons in one instance for TLC.  A behaviour   *)
(* chooses one of the modules and runs it; the others stay as they start.    *)
EXTENDS FifoIntegrator, PipeIntegrator, CriticalSection, ValueHandover, SignalInheritance,
        ProcessTree, FileTools, BlockLibrary

VARIABLE program

\* Three levels of directories, one hidden; a file that is shorter than the phrase.
TreeParent == [d1 |-> "root", d2 |-> "root", d3 |-> "d1", h |-> "root", f1 |-> "root",
               f2 |-> "d1", f3 |-> "d2", f4 |-> "d3", f5 |-> "h"]

allVars == <<program, fifoVars, pipeVars, semVars, handVars, sigVars, treeVars, fileVars, libVars>>

AllInit == /\ program = "none" /\ FifoInit /\ PipeInit /\ SemInit /\ HandInit /\ SigInit
           /\ TreeInit /\ FilesInit /\ LibInit

Choose ==
  /\ program = "none"
  /\ program' \in {"fifo", "pipe", "sem", "hand", "sig", "tree", "files", "lib"}
  /\ UNCHANGED <<fifoVars, pipeVars, semVars, handVars, sigVars, treeVars, fileVars, libVars>>

RunFifo == /\ program = "fifo" /\ FifoNext
           /\ UNCHANGED <<program, pipeVars, semVars, handVars, sigVars, treeVars, fileVars, libVars>>
RunPipe == /\ program = "pipe" /\ PipeNext
           /\ UNCHANGED <<program, fifoVars, semVars, handVars, sigVars, treeVars, fileVars, libVars>>
RunSem  == /\ program = "sem" /\ SemNext
           /\ UNCHANGED <<program, fifoVars, pipeVars, handVars, sigVars, treeVars, fileVars, libVars>>
RunHand == /\ program = "hand" /\ HandNext
           /\ UNCHANGED <<program, fifoVars, pipeVars, semVars, sigVars, treeVars, fileVars, libVars>>
RunSig  == /\ program = "sig" /\ SigNext
           /\ UNCHANGED <<program, fifoVars, pipeVars, semVars, handVars, treeVars, fileVars, libVars>>
RunTree == /\ program = "tree" /\ TreeNext
           /\ UNCHANGED <<program, fifoVars, pipeVars, semVars, handVars, sigVars, fileVars, libVars>>
RunFile == /\ program = "files" /\ FilesNext
           /\ UNCHANGED <<program, fifoVars, pipeVars, semVars, handVars, sigVars, treeVars, libVars>>
RunLib  == /\ program = "lib" /\ LibNext
           /\ UNCHANGED <<program, fifoVars, pipeVars, semVars, handVars, sigVars, treeVars, fileVars>>

AllNext == Choose \/ RunFifo \/ RunPipe \/ RunSem \/ RunHand \/ RunSig \/ RunTree \/ RunFile \/ RunLib

\* The fairness of the modules whose liveness is stated.
AllSpec == AllInit /\ [][AllNext]_allVars /\ FifoFairness /\ PipeFairness /\ SemFairness
=============================================================================
