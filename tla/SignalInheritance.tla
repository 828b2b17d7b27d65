------------------------- MODULE SignalInheritance --------------------------
(***************************************************************************)
(* lab04/zad01: a process sets what SIGUSR1 does to it, raises it, and     *)
(* forks a child that raises it or looks for it again (zad01_fork), or     *)
(* becomes ls (zad01_exec).                                                *)
(***************************************************************************)
EXTENDS Sequences

VARIABLES
  sigProgram, action,  \* "fork" or "exec", and the word on the command line
  sigpc,               \* what the ancestor and the child do next
  sa_handler, blocked, pending,   \* of SIGUSR1, for each process
  reported             \* what each process has printed of the signal

sigVars == <<sigProgram, action, sigpc, sa_handler, blocked, pending, reported>>

SigProcesses == {"ancestor", "descendant"}
Actions == {"ignore", "handler", "mask", "pending", "unknown"}

SigInit ==
  /\ sigProgram = "fork" /\ action = "unknown"
  /\ sigpc = [p \in SigProcesses |-> IF p = "ancestor" THEN "main" ELSE "none"]
  /\ sa_handler = [p \in SigProcesses |-> "default"]
  /\ blocked = [p \in SigProcesses |-> FALSE] /\ pending = [p \in SigProcesses |-> FALSE]
  /\ reported = [p \in SigProcesses |-> <<>>]

\* zad01_exec does not know the word "handler".
SigMain ==
  /\ sigpc["ancestor"] = "main" /\ sigpc' = [sigpc EXCEPT !["ancestor"] = "set"]
  /\ \/ sigProgram' = "fork" /\ action' \in Actions
     \/ sigProgram' = "exec" /\ action' \in Actions \ {"handler"}
  /\ UNCHANGED <<sa_handler, blocked, pending, reported>>

SetSignal ==
  /\ sigpc["ancestor"] = "set"
  /\ sigpc' = [sigpc EXCEPT !["ancestor"] = IF action = "unknown" THEN "next" ELSE "raise"]
  /\ sa_handler' = [sa_handler EXCEPT !["ancestor"] = IF action \in {"ignore", "handler"} THEN action ELSE @]
  /\ blocked' = [blocked EXCEPT !["ancestor"] = action \in {"mask", "pending"}]
  /\ UNCHANGED <<sigProgram, action, pending, reported>>

\* A blocked signal waits, an ignored one is gone, one nobody handles ends the process.
Killed(p) == sa_handler[p] = "default" /\ ~blocked[p]
Raise(p, then) ==
  /\ sigpc[p] = "raise" /\ sigpc' = [sigpc EXCEPT ![p] = IF Killed(p) THEN "killed" ELSE then]
  /\ pending' = [pending EXCEPT ![p] = @ \/ (blocked[p] /\ sa_handler[p] # "ignore")]
  /\ reported' = IF sa_handler[p] = "handler" /\ ~blocked[p]
                 THEN [reported EXCEPT ![p] = Append(@, "received")] ELSE reported
  /\ UNCHANGED <<sigProgram, action, sa_handler, blocked>>

check_pending(p, then) ==
  /\ sigpc[p] = "check" /\ sigpc' = [sigpc EXCEPT ![p] = then]
  /\ reported' = [reported EXCEPT ![p] = Append(@, IF pending[p] THEN "pending" ELSE "not pending")]
  /\ UNCHANGED <<sigProgram, action, sa_handler, blocked, pending>>

RaiseAndCheck ==
  Raise("ancestor", IF action = "pending" THEN "check" ELSE "next") \/ check_pending("ancestor", "next")

\* Mutants: the child inherits the waiting signal; it does not inherit mask and handler.
InheritPending(of) == pending[of]
NothingPending(of) == FALSE
DefaultHandler(of) == "default"
InheritHandler(of) == sa_handler[of]

\* A fork that fails leaves an ancestor whose wait fails at once.
ForkDescendant ==
  /\ sigProgram = "fork" /\ sigpc["ancestor"] = "next"
  /\ \/ sigpc' = [ancestor |-> "wait", descendant |-> IF action = "pending" THEN "check" ELSE "raise"]
     \/ sigpc' = [ancestor |-> "ended", descendant |-> "none"]
  /\ sa_handler' = [sa_handler EXCEPT !["descendant"] = InheritHandler("ancestor")]
  /\ blocked' = [blocked EXCEPT !["descendant"] = blocked["ancestor"]]
  /\ pending' = [pending EXCEPT !["descendant"] = NothingPending("ancestor")]
  /\ UNCHANGED <<sigProgram, action, reported>>

DescendantAct == Raise("descendant", "ended") \/ check_pending("descendant", "ended")

WaitForDescendant ==
  /\ sigpc["ancestor"] = "wait" /\ sigpc["descendant"] \in {"ended", "killed"}
  /\ sigpc' = [sigpc EXCEPT !["ancestor"] = "ended"]
  /\ UNCHANGED <<sigProgram, action, sa_handler, blocked, pending, reported>>

\* A handler cannot survive the new image; what is ignored, blocked or waiting does.  An
\* execl that fails is followed by the end of the program.
ExecLs ==
  /\ sigProgram = "exec" /\ sigpc["ancestor"] = "next"
  /\ \/ /\ sigpc' = [sigpc EXCEPT !["ancestor"] = "ls"]
        /\ sa_handler' = [sa_handler EXCEPT !["ancestor"] = IF @ = "handler" THEN "default" ELSE @]
     \/ sigpc' = [sigpc EXCEPT !["ancestor"] = "ended"] /\ UNCHANGED sa_handler
  /\ UNCHANGED <<sigProgram, action, blocked, pending, reported>>

SigNext == SigMain \/ SetSignal \/ RaiseAndCheck \/ ForkDescendant \/ DescendantAct
           \/ WaitForDescendant \/ ExecLs

SigSpec == SigInit /\ [][SigNext]_sigVars

-----------------------------------------------------------------------------
(* Properties *)

\* What raport2.txt found: both processes receive a handled signal, a waiting signal waits
\* for the ancestor alone, and of an ignored or masked one nobody reports anything.
AsReported ==
  /\ sigpc["ancestor"] \in {"ended", "ls"} => reported["ancestor"] =
       (IF action = "handler" THEN <<"received">> ELSE IF action = "pending" THEN <<"pending">> ELSE <<>>)
  /\ sigpc["descendant"] = "ended" => reported["descendant"] =
       (IF action = "handler" THEN <<"received">> ELSE IF action = "pending" THEN <<"not pending">> ELSE <<>>)

\* The signal ends no process but the child of an ancestor that did not know the word:
\* every word it knows protects both processes, and ls.
OnlyUnknownKills ==
  \A p \in SigProcesses :
    /\ sigpc[p] = "killed" => p = "descendant" /\ action = "unknown"
    /\ sigpc[p] = "ls" => action = "unknown" \/ blocked[p] \/ sa_handler[p] = "ignore"

\* What fork and exec pass on of a signal is what the reports and the survivors show.
SignalInherited == AsReported /\ OnlyUnknownKills
=============================================================================
