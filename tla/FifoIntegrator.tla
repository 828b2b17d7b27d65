--------------------------- MODULE FifoIntegrator ---------------------------
(***************************************************************************)
(* lab05/zad03: the integrator starts n_procs workers and sums what they   *)
(* write, one record "number," each, into a named pipe.  A byte is a pair  *)
(* of its worker and its place in the record; the last one is the comma.   *)
(***************************************************************************)
EXTENDS Integers, Sequences, FiniteSets

CONSTANTS
  MaxWorkers,          \* model bound: the largest n_procs
  RecordLen,           \* bytes of a record, its comma included
  READ_BUFF_SIZE

\* A number has a digit.
ASSUME FifoAssumption ==
  MaxWorkers \in Nat \ {0} /\ RecordLen \in Nat \ {0, 1} /\ READ_BUFF_SIZE \in Nat \ {0}

VARIABLES
  n_procs,
  integrator,          \* what the_grand_integrator does next
  worker,              \* what each worker does next
  stream,              \* the bytes in the named pipe
  summed,              \* the tokens added to integration_result, as sets of bytes
  summed_component_number

fifoVars == <<n_procs, integrator, worker, stream, summed, summed_component_number>>

Workers == 1 .. MaxWorkers
Started == {w \in Workers : w <= n_procs}
Record(w) == [k \in 1 .. RecordLen |-> <<w, k>>]
Comma(byte) == byte[2] = RecordLen
Digits(w) == {<<w, k>> : k \in 1 .. RecordLen - 1}

FifoInit ==
  /\ n_procs = 0 /\ integrator = "main"
  /\ worker = [w \in Workers |-> "none"]
  /\ stream = <<>>
  /\ summed = {} /\ summed_component_number = 0

\* Nobody opens the pipe when n_procs is 0: the open at line 56 then waits for ever.
FifoMain ==
  /\ integrator = "main" /\ integrator' = "fork"
  /\ n_procs' \in Workers
  /\ UNCHANGED <<worker, stream, summed, summed_component_number>>

\* A fork that fails is not noticed.
ForkWorkers ==
  /\ integrator = "fork"
  /\ \/ /\ \A w \in Started : worker[w] # "none"
        /\ integrator' = "open" /\ UNCHANGED worker
     \/ \E w \in Started, s \in {"integrate", "notForked"} :
          /\ worker[w] = "none" /\ \A v \in 1 .. w - 1 : worker[v] # "none"
          /\ worker' = [worker EXCEPT ![w] = s] /\ UNCHANGED integrator
  /\ UNCHANGED <<n_procs, stream, summed, summed_component_number>>

\* An open waits for the other side, which counts as soon as it has called open.
Reading == integrator \in {"opening", "read"}
OpenStream ==
  /\ \/ integrator = "open" /\ integrator' = "opening"
     \/ /\ integrator = "opening" /\ integrator' = "read"
        /\ \E w \in Started : worker[w] \in {"open", "write", "close", "ended"}
  /\ UNCHANGED <<n_procs, worker, stream, summed, summed_component_number>>

\* strtok gives the runs of bytes between commas.
Tokens(chunk) ==
  LET First(k) == ~Comma(chunk[k]) /\ (k = 1 \/ Comma(chunk[k - 1]))
      Run(k) == {chunk[l] : l \in {m \in k .. Len(chunk) : \A j \in k .. m : ~Comma(chunk[j])}}
  IN  {Run(k) : k \in {m \in 1 .. Len(chunk) : First(m)}}

read_size == IF Len(stream) < READ_BUFF_SIZE THEN Len(stream) ELSE READ_BUFF_SIZE

\* Mutant: the terminator is put on the last byte read.
LastByteLost == SubSeq(stream, 1, read_size - 1)
read_buffer == SubSeq(stream, 1, read_size)

\* Mutants: the loop ends one component early, or wants one more than there are.
OneMissing == summed_component_number < n_procs - 1
OneTooMany == summed_component_number <= n_procs
MoreToSum == summed_component_number < n_procs

\* A pipe without data waits while a writer has it open; without a writer it gives 0
\* bytes and the loop turns.
ReadStream ==
  /\ integrator = "read" /\ MoreToSum
  /\ stream # <<>> \/ \A w \in Started : worker[w] \notin {"write", "close"}
  /\ stream' = SubSeq(stream, read_size + 1, Len(stream))
  /\ summed' = summed \union Tokens(read_buffer)
  /\ summed_component_number' = summed_component_number + Cardinality(Tokens(read_buffer))
  /\ UNCHANGED <<n_procs, integrator, worker>>

CloseStream ==
  /\ integrator = "read" /\ ~MoreToSum /\ integrator' = "remove"
  /\ UNCHANGED <<n_procs, worker, stream, summed, summed_component_number>>

RemoveStream ==
  /\ integrator = "remove" /\ integrator' = "ended"
  /\ UNCHANGED <<n_procs, worker, stream, summed, summed_component_number>>

WorkerBecomes(w, s) ==
  /\ worker' = [worker EXCEPT ![w] = s]
  /\ UNCHANGED <<n_procs, integrator, summed, summed_component_number>>

\* The pipe is opened by its name: once it is removed the open, the write and the
\* close fail and the worker ends.
Integrate(w) ==
  /\ worker[w] = "integrate"
  /\ WorkerBecomes(w, IF integrator = "ended" THEN "ended" ELSE "open")
  /\ UNCHANGED stream

\* A worker that opens the pipe after the integrator has closed it waits for ever.
WorkerOpen(w) ==
  /\ worker[w] = "open" /\ Reading
  /\ WorkerBecomes(w, "write") /\ UNCHANGED stream

\* A record is shorter than PIPE_BUF and goes in as a whole; without a reader SIGPIPE
\* ends the worker.
WorkerWrite(w) ==
  /\ worker[w] = "write"
  /\ WorkerBecomes(w, IF Reading THEN "close" ELSE "ended")
  /\ stream' = IF Reading THEN stream \o Record(w) ELSE stream

WorkerClose(w) == worker[w] = "close" /\ WorkerBecomes(w, "ended") /\ UNCHANGED stream

IntegratorStep == ForkWorkers \/ OpenStream \/ ReadStream \/ CloseStream \/ RemoveStream
WorkerStep(w) == Integrate(w) \/ WorkerOpen(w) \/ WorkerWrite(w) \/ WorkerClose(w)
FifoNext == FifoMain \/ IntegratorStep \/ \E w \in Workers : WorkerStep(w)

FifoSpec == FifoInit /\ [][FifoNext]_fifoVars

\* Every process that can go on does.
FifoFairness == WF_fifoVars(IntegratorStep) /\ \A w \in Workers : WF_fifoVars(WorkerStep(w))

-----------------------------------------------------------------------------
(* Properties *)

\* While it reads, every digit a worker has put into the pipe is still there or has been
\* summed, and no number summed joins the digits of two workers.
NoDigitLost ==
  integrator = "read" =>
    /\ (UNION summed) \union {b \in {stream[k] : k \in 1 .. Len(stream)} : ~Comma(b)}
         = UNION {Digits(w) : w \in {v \in Started : worker[v] \in {"close", "ended"}}}
    /\ \A t \in summed : \E w \in Started : t \subseteq Digits(w)

\* Lines 59 and 65: when all the records fit into one read the integrator sums every
\* worker's number, whole and once, before it ends.
Fits == n_procs \in {n \in Workers : n * RecordLen <= READ_BUFF_SIZE}
AllSummed ==
  Fits /\ integrator \in {"remove", "ended"} => summed = {Digits(w) : w \in Started}

\* Every digit written is summed, as far as the integrator reads.
SumKept == NoDigitLost /\ AllSummed

\* Once the integrator forks it ends, and when the records fit no worker is left waiting
\* in its open, unless a fork failed unnoticed.
IntegratorEnds ==
  integrator = "fork" ~>
    \/ \E w \in Started : worker[w] = "notForked"
    \/ integrator = "ended" /\ (Fits => \A w \in Started : worker[w] = "ended")
=============================================================================
