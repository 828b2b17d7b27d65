# A verification development for SysOpy_lab

The repository is a collection of operating-systems programs in C: one
directory per topic, each holding small independent programs. Nothing links the
programs together, so the development is one family of modules per program.
What makes them hard is what the course is about: processes, signals, pipes,
message queues, semaphores, shared memory and threads, each with its own way of
losing an event.

## Inventory

| Part | State | Operations | Interaction | What makes it hard |
| --- | --- | --- | --- | --- |
| Santa workshop, `lab09/zad01` | three counters, the elves queue, four mutexes, two condition variables | thread functions `santa`, `elve`, `reindeer` | shared memory between threads | wait conditions read without the writers' mutex, nested locks, lost broadcasts |
| Barber shop, `lab07/zad1` | four shared-memory arrays, two SysV semaphore sets | `barber`, `client`, `main` | processes over shared memory and semaphores | check-then-set on shared bytes, semaphore counts, one segment used under two names |
| Chat, `lab06/zad01` | server's client table, SysV queues, order threads | `INIT LIST TALL TONE STOP`, SIGINT on both sides | messages between processes, signals inside a process | asynchronous shutdown inside a handler, ids, a second STOP |
| Life, `lab08/zad01`, `lab08/zad02` | two grids, one thread per cell or per block | `is_alive`, block partition, worker loop, SIGUSR1 | main wakes the threads by signals | a signal sent before the thread pauses is lost |
| Catcher and sender, `lab04/zad03` | catcher's mode, sender's `catched` flag | five tasks sent by `sigqueue`, acknowledged by a signal | signals between processes | a standard signal is pending at most once, the acknowledgement precedes the work |
| Signals, `lab04/zad01` | disposition, mask and pending signal of two processes | ignore, handler, mask, pending over `fork` and `exec` | signals | what fork and exec inherit |
| Integrators, `lab05/zad02`, `lab05/zad03` | intervals, pipes or a FIFO, the running sum | workers and a summing parent | pipes held by all processes, a FIFO opened by name | records cut at the end of a read, an open that waits for the other side, ends that stay open |
| Block table, `lab01/cw01..cw03` | an array of blocks, a capacity and a count | init, add, get, delete, free, the command loop | calls | shifting and freeing the wrong block |
| File tools, `lab02` | files, a block buffer | replace a letter, reverse a file, count bytes in a tree | file system | block boundaries, one file under two paths |
| Process tools, `lab03` | the process tree, a copy of the call stack in each process | fork workers, search a tree by forking | fork, wait, exec | every directory must be searched once |
| Semaphore exercises, `kolos2przygotowania` kol1/zad3, kol2/zad1 | a semaphore, a file, the screen | parent and child write both | processes, a semaphore that outlives them | initial values, a missing operation, interrupted runs |
| Shared memory and queue exercises, kol1/zad2, kol2/zad3 | a named object and the values in it | send, receive, remove | processes that do not wait for each other | an object opened before it is filled, removed under another process |
| Datagram pair, `lab10/zad01`; small exercises in `lab*/lab`, `kolos1przygotowania` | little or none | one-shot programs | sockets, pipes, threads | mostly input and output |

`PROJECT.json` lists every part with its status, and the hazards of each at the
line where they bite.

## Modules

Each of the larger programs has a module of its own, an `MC...` module that
instantiates it for TLC, and a `..._proofs` module. Three programs also have an
abstract specification of what they promise. The small programs have a module
each as well; `MCExercises` puts these in one instance, in which a behaviour
chooses a program and runs it, and two modules hold their proofs: those of the
programs that exchange data, and those of the others.

| Program | Specification | Promise | Proofs |
| --- | --- | --- | --- |
| `lab09/zad01` | `SantaWorkshop` | its properties | `SantaWorkshop_proofs` |
| `lab07/zad1` | `BarberShop` | its properties | `BarberShop_proofs` |
| `lab06/zad01` | `ChatServer` | its properties | `ChatServer_proofs` |
| `lab04/zad03` | `CatcherSender` | `Handshake`, one for each sender | `CatcherSender_proofs` |
| `lab08/zad02` (also `zad01`) | `LifeThreads` | `Life`, the game on a bounded board | `LifeThreads_proofs` |
| `lab01/cw02` (also `cw03a`, `cw03b`) | `BlockTable` | `ResultList` | `BlockTable_proofs` |
| kol1/zad3, kol2/zad1 of `kolos2przygotowania` | `CriticalSection` | its properties | `Exchange_proofs` |
| `lab05/zad03`, `lab05/zad02` | `FifoIntegrator`, `PipeIntegrator` | every component in the sum | `Exchange_proofs` |
| kol1/zad2, kol2/zad3 | `ValueHandover` | its properties | `Exchange_proofs` |
| `lab04/zad01` | `SignalInheritance` | what `raport2.txt` reports | `Exercises_proofs` |
| `lab03/zad03` | `ProcessTree` | the files below the directories entered | `Exercises_proofs` |
| `lab02/zad01`, `lab02/zad02` | `FileTools` | the changed text, the reversed file of the byte-wise variant | `Exercises_proofs` |
| `lab01/cw01` | `BlockLibrary` | its properties | `Exercises_proofs` |

A definition with a comment "Mutant" above it is not part of a specification:
it is a plausible mistake in the definition below it, kept to show that the
properties notice it.

### SantaWorkshop (`lab09/zad01/main.c`)

One label of `pc` per line at which a thread can be interrupted with an effect:
every `pthread_mutex_lock`, every access to a counter, `pthread_cond_wait` in
its three parts (release and sleep, wake, acquire again, with spurious wakeups)
and every broadcast. The loops of lines 41 and 113 read counters written under
another mutex, so each of their reads is a step. Printing and the random times
are left out: any thread may take any time. `running` becomes false at `exit`,
which ends every thread at once.

`SectionHoldsMutex` ties each label to the mutex that must be held there.
`NoMissedWakeup` is the reason for `santa_sleep_mutex`: Santa decides to sleep
on counters he reads without their mutexes, so what makes it safe is that a
complete group still has a thread on its way to the broadcast.
`SantaMeetsQueuedElves`, `ElvesAtMostNeeded` (together `QueueSound`) and
`ElvesFirst` are the rules of `polecenie.md`; `FullQueueServed` is the liveness of the elves.

### BarberShop (`lab07/zad1`)

Barbers and clients are processes over byte arrays in shared memory, so every
read and every write of a byte is a step, and so is every `semop`. The kernel
completes a blocked `semop` in the step that makes it possible: the processes
a semaphore wakes move on within the waking action. `move_shm` and
`reserved_shm` are attached under the same name (`barber.c:18-19`,
`main.c:21-22`) and are one variable. `fork` may fail unnoticed, so any subset
of the processes may be missing from the start (`Start`); a failing `execl`,
after which the child would run main's loop, is left out.

The bytes are tested and set in two steps, so two barbers can take the same
seat or client and two clients the same place. The properties say what is true
all the same: no seat byte and no reservation is left behind
(`NoSeatLost` and `NoReservationLost`, together `NothingLost`), a seat's
semaphore counts exactly the barbers who cut there (`SeatSemCountsBarbers`), and every client that leaves
the lobby had a call of its own (`EveryClientCalled`).

### ChatServer (`lab06/zad01`)

A message is a record of type, ids and key. The server's handlers that touch
its table are steps of their own, because `shutdown` may interrupt them between
any two; `handleTall` and `handleList` go through the table one id at a time.
A client has its queue, its id and its two threads' work: orders, received
texts, STOP from the server, STOP of its own. SIGINT may reach the clients in
`Interrupted` at any moment after their queue is made: before they have an id,
and while the first `sendStop` is under way, which sends STOP a second time.
Such a STOP is not owed: it is counted all the same (`chat_no_free_id`), and it
frees an id that may belong to somebody else by then. `ActiveCountsTable` is
therefore stated as long as every STOP was owed (`Orderly`), and `IdOwned` for
every client whose id was not stopped twice (`StoppedTwice`): what one
interrupted client breaks is the count, and the place of those who have had its
id, and nothing more.

Left out: queues never fill up, recipients are ids in the range of the table,
and the keys the clients draw differ (`KeysDiffer`; clients started in the same
second draw the same key and share one queue). A client starts while the server
is up (`Create`), gives no orders while it stops, and the server's `shutdown`
goes through its clients in one step.

### CatcherSender (`lab04/zad03`)

One pending signal per process: sending to a catcher that has one pending
discards the new one. The handler runs in three steps, receive, confirm, work;
the next mode may arrive during the work and stays pending. A sender is in
`send`, `wait` or `reset`, with its flag, its pending confirmation and its
handler; the `sa_flags` it never sets may hold `SA_RESETHAND`, after which the
second confirmation kills it. A mode that arrives before the catcher has
installed its handler kills the catcher. Mode 4 never returns, although
`lab04/polecenia.md:34` wants it to last until the next mode; `SenderEnds`
excepts the senders that come after it.

`PairsShakeHands` says that each pair refines `Handshake` (one mode out at a
time, received in order, confirmed after it was received) although the senders
share the catcher's one pending signal. `NoStaleAck` is about the order of the
wait and the reset of `ack_received`. `ReceivedInOrder` and `DoneMeansReceived`
follow from the refinement; they are proved and need no run of their own.

### LifeThreads (`lab08/zad02`)

`Divide` and `Create` are one turn each of `calculate_block_sizes` and
`init_threads`; then main draws, sleeps, signals every thread and swaps its
arrays, while each thread updates its block cell by cell, pauses and swaps its
own. Only the sleep of half a second orders the two. `Timely = TRUE` assumes
that it is long enough, `Timely = FALSE` assumes nothing. With one thread per
cell this is also the program of `lab08/zad01`.

`BlocksPartition` and `BlocksBalanced` (together `FairBlocks`) are about the
division with a remainder.
`ShowsLife` is the refinement of `Life`, whose rule is stated on distances of
rows and columns and not, as the code does it, on offsets with bounds tests.

### BlockTable (`lab01/cw02`)

`Parse` reads a line: the command by its regular expression, the number by
`sscanf`, which keeps the number of an earlier command when the line does not
start with the word. `Execute` guards every library call as `execute_command`
does. `arr` holds what the array holds, the copies that `delete` leaves behind
the count included; `heap` says which blocks are alive. Blocks that nobody
points to stay alive: `delete` frees nothing and the error paths leak. The
index is a `size_t` (`SIZE_MOD`). `KeepsResults` refines the list of results a
user would expect.

### FifoIntegrator and PipeIntegrator (`lab05/zad03`, `lab05/zad02`)

In `FifoIntegrator` a byte is its worker and its place in the record, so a
token is a set of digits and the model can say whose they are. An open of the
FIFO waits for the other side; a read takes what is there, up to
`READ_BUFF_SIZE`, or nothing when no writer is left; `strtok` makes tokens of
the runs between commas. The loop counts tokens, not workers. `fork` may fail
unnoticed; a failing `execl`, which would leave a second integrator, is left
out.

`SumKept` says that no digit is lost while the integrator reads, and that each
worker's number is summed whole when all the records fit into one read. With
1024 bytes and nine bytes a record that is up to 113 workers; beyond, a record
is cut and its halves are two numbers (`lab05/zad03/report.txt:23` shows it for
1000). `IntegratorEnds` is about the two ways to wait for ever: a worker that
never wrote, and one that opens the pipe after it was closed.

Left out is what `read` does to the bytes next to the buffer: a read of all 1024
bytes is ended by a 0 one place behind it (line 64), and a read that fails by a
0 one place before it.

In `PipeIntegrator` what is modelled of a component is whose it is and how many
samples its child adds up. The loop of `integrate` adds `dx` to `x` in floating
point, so the number of samples of a segment may differ from that of exact
arithmetic by up to `Rounding` either way, and nothing is said about the value
of the sum: it does depend on the number of processes, see below. The parent
closes its write end just before it reads, and every child holds the ends of
all the pipes. `ComponentsKept` says that the parent adds up, once, what each
child computed that was not killed; that needs the read to wait for a child
that is late and `component` to be cleared for one that was killed.
`ParentDone` says that the ends the children inherit never keep the parent
waiting, whichever are killed.

### CriticalSection (kol1/zad3, kol2/zad1) and ValueHandover (kol1/zad2, kol2/zad3)

`CriticalSection` is both programs, which differ in how they set up the
semaphore and in whether the child waits for it: that of kol1/zad3 fills in its
decrement and never passes it to `semop` (`Waits`). Runs follow each other and
may be interrupted by SIGINT; the POSIX semaphore keeps its value, so a run
that was interrupted inside leaves 0 for the next (`LostToken`). `SameOrder`
holds of the POSIX program alone; `RunEnds` of both. That the parent waits for
its child before it removes the semaphore (`ChildAwaited`) is modelled and no
property depends on it: an open POSIX semaphore outlives `sem_unlink`, and the
other program's child does not wait for its own.

`ValueHandover` has several senders and receivers of one name, an object that
may not have been given a size, a queue with little room, and receivers that
remove an object others use. `HandedOver` says what is true all the same: a
value waits for a receiver that comes after it, and a queue gives its values
once and in order. A receiver that comes before the value, and what is sent to
a queue after it was found empty, are in the model and excluded from the
property: the programs go wrong there.

### SignalInheritance (`lab04/zad01`) and ProcessTree (`lab03/zad03`)

`SignalInheritance` is `set_and_raise_signal`, `check_pending`, the fork and
the exec, which may fail, with what each process prints. `SignalInherited` holds
it against the results that `raport2.txt` gives, and says which processes
survive.

In `ProcessTree` a process is a stack of directories that it is reading, with
the entries `readdir` has not given yet; a fork copies the stack. `ReadOnce`
depends on the `exit` of line 73. `SearchComplete` says that nothing falls
between two processes: the files read are those of the directories entered. It
takes the choice of these as the code makes it: `Passed` is the comparison of
line 59, which passes over every directory with a leading dot and not only `.`
and `..`, and what could not be opened or forked for is given up (`skipped`),
after which the search goes on (`Continue`). A file shorter than the phrase is
compared with whatever was in the buffer, so it may be found or not.

### FileTools (`lab02`) and BlockLibrary (`lab01/cw01`)

`FileTools` has the two programs that change a letter, over short texts with and
without a byte 0, a missing file or one file under two paths, and the two that
reverse a file, whose bytes are told apart by their places. The loop of
zad01/lib looks for a byte 0 and not for the end of its buffer: in a text
without one it runs on over whatever lies behind, any bytes in the model,
changes what it finds there (`wild`), and ends at a 0 or is killed. What it
writes, if it comes to that, is still the changed text (`LettersChanged`); in a
text with a 0 it stays inside and stops there. zad01/sys creates no output and
does not empty one, so the property asks for a file that exists and is not
longer than the text. `ReversedByChar` is about the byte-wise reversal. The
block-wise one swaps byte j with byte `BLOCKSIZE - j`, one too far, and writes
`remainder + 1` bytes at the end: `FullBlock` and `Remainder` are its steps, and
there is no property of its output, which is not the reversed file.

`BlockLibrary` is a program that calls the functions of the library in any
legal order. Its `delete` frees a pointer after the shift, which is the right
one for the last result only; `MemoryKept` is about such programs, and the
hazard list names the rest.

## Runs

| Run | Module, configuration | Shows | Bounds |
| --- | --- | --- | --- |
| `santa_safety` | `MCSantaWorkshop` | `TypeOK SectionHoldsMutex NoMissedWakeup QueueSound ElvesFirst FullQueueServed` | groups of two instead of three and nine; an elf works on after queueing, so two already compete for a full queue; the reindeer counter stops at 3, one past the group |
| `santa_sleeps_with_nine` | `MCSantaNine` | a violation, see below | the same |
| `barber_safety` | `MCBarberShop` | `TypeOK SeatSemCountsBarbers EveryClientCalled NothingLost` | three barbers and three clients, at most four of them forked (`SpecFour`), two places, two seats, two empty passes: races need two processes, a full shop needs three barbers |
| `barber_stranded` | `MCBarberStranded` | a violation | two barbers, one client |
| `chat_safety` | `MCChatServer` | `TypeOK ActiveCountsTable IdOwned NoEcho`, SIGINT of the server at any step | three clients, one of which SIGINT may reach at any moment, two ids, one order each: ids are given again and stopped twice, and the server is found full |
| `chat_init_answered` | `MCChatLive` | `InitAnswered` | three clients and two ids, without orders and without SIGINT |
| `chat_no_free_id` | `MCChatFree` | a violation | two of three clients may be interrupted |
| `catcher_pairs` | `MCCatcherSender` | `TypeOK NoStaleAck`, the refinement `PairsShakeHands`, `SenderEnds` | two senders, every list of up to two of the modes 1, 3, 4, 5 and an unknown one |
| `life` | `MCLifeThreads` | `TypeOK FairBlocks ThreadsInStep DrawnAlone` and the refinement `ShowsLife`, with `Timely` | three columns by two rows, every first grid, four threads: blocks of two and of one cell |
| `life_lost_signal` | `MCLifeSteps` | a violation without `Timely` | two by two, two threads |
| `block_table` | `MCBlockTable` | `TypeOK BlocksAlive`, the refinement `KeepsResults` | up to three places, four blocks, five descriptors, numbers from -1 to 3, commands out of place |
| `exercises` | `MCExercises` | `SumKept IntegratorEnds`, `ComponentsKept ParentDone`, `SameOrder RunEnds`, `HandedOver`, `SignalInherited`, `ReadOnce SearchComplete`, `LettersChanged ReversedByChar`, `MemoryKept` | see below |

The bounds of `exercises`, program by program. FIFO: three workers, records of
three bytes, reads of seven: two records fit, the third is cut. Pipes: three
children, a width of one to four units, of which most do not divide a segment,
and one sample too many or too few. Semaphores: two
turns of each process and one interrupted run, enough for a lost token to be
found by the next. Handover: three senders, two receivers, room for two values,
so that a queue is full and one is removed under another receiver. Tree: three
levels, one hidden directory, one short file, four processes, so that a fork
fails. Texts: up to three bytes of three kinds, and as many behind the buffer.
Reversal: blocks of four, files up to eleven bytes, which gives every remainder
with none, one and two whole blocks. Library: four blocks, tables of up to three.

Deadlock is checked for the workshop and for life, which never stop. The other
programs end, wait for a user or a signal, or may really strand a process (the
barber shop, a FIFO opened too late, a lost token), and their runs do not check
it. Symmetry is used for processes, keys and blocks in runs of invariants (and
of the refinement of `block_table`, which is a safety property).

### Where the code disagrees with what it says

- `santa_sleeps_with_nine`: the loop of line 41 tests for equality, a reindeer
  may come back twice before Santa has taken the mutex, and he then sleeps with
  more than nine waiting, which `polecenie.md:37` excludes.
- `barber_stranded`: the shared bytes of `move_shm` and `reserved_shm` let a
  second barber call a client that has gone; he waits for ever, and so does
  main, which waits for every process (`main.c:75`).
- `chat_no_free_id`: a STOP is counted whether or not its id was in the table,
  so `activeClients` falls behind and the search for a free id passes the end.
- `life_lost_signal`: a SIGUSR1 before `pause()` is lost and the thread stays
  one generation behind; a comment in the source remarks on the symptom.

Other disagreements show in the models as an exception a property has to make:

- a record of the FIFO is cut at the end of a read (`Fits`);
- the child of kol1/zad3 does not take the semaphore (`SameOrder` is about the
  other program), and an interrupted run loses the token (`LostToken`);
- a receiver that comes before the value, and the queue removed under another
  receiver (`NoneMissed`);
- `delete` of `lab01/cw01` frees a block that is still in the table (`onlyLast`);
- zad01/lib changes a text with a byte 0 only up to it, and leaves its buffer in
  one without (`LettersChanged`); zad01/sys needs an output that exists and keeps
  the tail of a longer one. `lab02/polecenia.md:15,19` compares both with `tr`.

Three more are in the models without a property, because one could only repeat
the wrong result:

- `lab05/zad02`: the result depends on the number of processes, because the
  samples of each segment accumulate rounding errors and the last rectangle
  reaches beyond the segment's end. `lab05/zad02/report.txt` has 3.1415926687
  for one process (line 3) and 3.1415926832, 3.1415927655, 3.1415928807 and
  3.1415949008 for 10, 50, 100 and 1000 (lines 8, 13, 18, 23).
- `lab03/zad03`: `process_tree.c:59` passes over every directory whose name
  begins with a dot; `lab03/polecenia.md:24` wants only `.` and `..` left out.
- `lab02/zad02/block`: the output has bytes from behind the buffer, one byte
  more or less than the file, and is not "identyczny jak w wariancie 1", as
  `lab02/polecenia.md:29` wants it.

`PROJECT.json` has each under "hazards", with its line.

## Fairness

- `SantaWorkshop`: weak fairness of each thread and strong fairness of its
  lock operations. The scheduler runs every thread, and the mutexes of the C
  library are not starved by a thread that sleeps between its turns. Nothing is
  assumed of the reindeers' holidays beyond that they end.
- `ChatServer`: weak fairness of the server's loop and of each client's work.
  Nobody has to type or to interrupt.
- `CatcherSender`: weak fairness of the catcher and of each sender. A pending
  signal that is not blocked is delivered, which POSIX guarantees.
- `FifoIntegrator`, `PipeIntegrator`, `CriticalSection`: weak fairness of each
  process that is not blocked. Nothing is assumed of forks that fail, of
  children that are killed or of a user's SIGINT; the properties name those
  cases.
- The other modules have no liveness property, and no fairness.

## Proofs

All theorems are for every value of the constants that satisfies the assumption
of the module. The assumptions say that the bounds are natural numbers (positive
where the source's are), that the sets of processes are disjoint and finite, and
that the special values are not members of other sets. Two say more:
`ShopAssumption` asks for two seats, because a reservation is the byte 1 and a
client may read it as its seat (the source has four); `TreeAssumption` says that
the entries form a tree, as those of a file system do: no set of entries holds
the directories of all its members.

- `SantaWorkshop_proofs`: `TypeOK`, mutual exclusion, the bound on the queue,
  the wakeup, whom Santa meets, and `ElvesFirst` as an action property. The
  inductive invariant adds that an elf past its test still has a place
  (`QueueingHasPlace`) and that the counted places hold elves
  (`QueueHoldsElves`): both depend on who holds the elves' mutex, so mutual
  exclusion is proved first and used in every step.
- `BarberShop_proofs`: `TypeOK`, and four invariants that need nothing but
  `TypeOK`: whoever damages a byte by a race owes the step that repairs it, a
  semaphore moves in the step in which the set it counts does, and place by
  place the lobby's semaphore and the calls made add up to the clients that
  came, however many share the place, so that none passes without a call
  (`EveryClientCalled`, the theorem `CallsMatched`). `FinishNeverBlocks`
  follows.
- `CatcherSender_proofs`: the invariant follows one mode of one sender. It is
  outstanding, or it is being confirmed, and then the confirmation is in exactly
  one of three places: owed by the handler, pending, or in the flag. Order,
  `DoneMeansReceived`, `NoStaleAck` and the refinement of `Handshake` follow.
- `LifeThreads_proofs`: the first cell of the n-th block is
  `n * min_block_size` plus the smaller of n and the remainder (`Start`), so the
  blocks are consecutive and cover the cells after the last turn; from that
  `BlocksPartition`, `BlocksBalanced` and `TypeOK`, which says that no thread
  leaves the grid. They hold for any sleep. The other theorems need `Timely`,
  main's sleep being longer than a round; `life_lost_signal` shows that they
  do. Their invariant (`RoundInv`) has one parameter, the array main shows: each
  thread works from that array or the other one by main's step, or pauses with
  its block done, or has a signal pending (`ThreadInv`), and the cells it has
  passed are the next generation (`Progress`). So the threads stay in step,
  nobody draws a grid that is being written, and `Implements` is the refinement
  of `Life`: swapping the arrays is the step of the game.
- `ChatServer_proofs`: what `chat_safety` checks, for any number of clients and
  ids, when the keys differ; SIGINT may reach the server and any of the clients
  at any moment. The invariant follows ids and clients through the messages in
  flight: a STOP in the server's queue that is owed is the only one for its id,
  which still belongs to the client that sent it, and one that is not owed has
  no id, or one that was stopped twice (`StopsOwed`, `NotOwed`); an INIT is the
  only one of a client that has no id (`InitsOwed`), and the first message a
  waiting client finds is the answer (`Answered`). With them the count and the
  table agree, and the search for a free id finds one, as long as every STOP was
  owed; and a client loses its place only to a second STOP for its own id.
  `chat_no_free_id` shows that the first condition is needed.
- `Exchange_proofs`, the exercises in which processes exchange data:
  - `CriticalSection`, for the two processes of the POSIX program (kol1/zad3 is
    excluded): the token is in the semaphore, with the one process inside, or
    lost (`OneToken`), and the file is ahead of the screen only between the two
    writes of a process (`LogsAgree`); mutual exclusion and `SameOrder` follow,
    for any loop counters and any number of interrupted runs.
  - `PipeIntegrator`: the children from 1 to some number have been forked, a
    pipe that was not read has the component of its child or nothing, and the
    result is that of the pipes read (`IntegralInv`). A child's segment has at
    least one sample, so that a pipe with a component is never taken for one
    without data; nothing else depends on how many samples it takes.
  - `FifoIntegrator`: between two bytes of different workers there is a comma
    (`Separated`), whatever a read cuts off; so no number joins two workers, and
    no digit is lost. When the records fit into one read the stream is made of
    whole records at every moment (`WholeRecords`), and a read takes them all;
    the numbers summed are those of the workers that have written and have
    nothing left (`WholeInv`). Then the count reaches the number of workers just
    when every worker has been summed. What a token is, the bytes up to the next
    comma, needs the first comma behind a place: `Least` proves from the library's
    facts about injections that a set of numbers with a bound has a least member,
    which is the induction the backends do not have.
  - `ValueHandover`: an object stands for its name until a receiver is through with
    one, and is not used again (`NameInv`), and a queue holds the last of the values
    sent to it, each once (`Holds`); the values received from it have been
    printed, by each receiver in the order of sending (`InOrder`). The
    distinctness of what two receivers print comes from the first value of a
    queue having a larger place than any that was taken.
- `Exercises_proofs`, the other small programs:
  - `ProcessTree`: every entry of a directory that was opened is on the stack of
    one process or was dealt with (`Searched`, `Disjoint`). Which directories
    were opened is no variable of the module; the invariant says that such a set
    exists, and each step of the proof names it. At the end nothing is left, and
    the tree assumption makes the set of the directories opened that of the
    directories reached, whatever was passed over or given up (`NothingBetween`).
  - `SignalInheritance`: the disposition and the mask of both processes follow
    from the word on the command line once it is set (`SigInv`).
  - `BlockLibrary`: as long as only last results are deleted no block is in the
    table twice (`NoAlias`), and those in the table are not among those given up.
  - `FileTools`: what is written so far is the changed or reversed part of the
    input that has been passed, and nothing is behind it that was not in the
    output before (`SysToolInv`); zad01/lib does all of it in one step, where a
    byte 0 of the text is before every place behind the buffer (`ChangeLibStep`).
    The block-wise reversal has no invariant.
- `BlockTable_proofs`: `BlocksAlive` with the size that `parse_input` has let
  through (`SizeChecked`) is inductive; the refinement of `ResultList` is proved
  one command at a time.

The bundled properties are proved whole: `QueueSound`, `NothingLost` and
`FairBlocks` are the theorems `QueueKept`, `BytesKept` and `FairDivision`.

The invariants of the small programs were model-checked before they were proved.

Every safety invariant that a run checks is a theorem. Only model-checked are
the liveness properties (`FullQueueServed`, `InitAnswered`, `SenderEnds`,
`IntegratorEnds`, `ParentDone`, `RunEnds`): the prover has no liveness under
fairness. The disagreements above are counterexamples and have nothing to prove.

## Not modelled

Files, formatting, logging and times; the contents of texts. Of the programs:

- the sums of file sizes of `lab02/zad03` and `zad04`, which are one loop over
  what the file system says, and `lab03/zad01` and `zad02`, which print and end;
- `lab10`: one message from a client to a server, then both end;
- kol1/zad1 and kol2/zad2 of `kolos2przygotowania`, templates whose work is
  commented out or missing;
- `kolos1przygotowania`: a pipe, a fork and an unfinished program, nothing the
  pipe integrator would not show;
- the demonstrations of the lessons (`lab*/lab`, `lab05/zad01`).

`lab08/zad01` has no module of its own: it is `LifeThreads` with one thread for
each cell. Some hazards are outside every model: a full message queue that
blocks the chat server, two chat clients with the same key, `printf` inside a
signal handler, a failing `execl` after a fork, and the unterminated buffers of
`lab01`.

## Plan

Done, in this order because the programs with the hardest interleavings came
first: the six larger programs, then the integrators, the semaphore and
handover exercises, signals, the tree search, the file tools and the first
library, then the proofs: the larger programs, the rounds of life and its
refinement, and the small programs.

Next:

1. The safety behind the liveness properties, stated without ENABLED: that in
   `FifoIntegrator` a worker that never wrote is the only reason to wait for
   ever, in `CriticalSection` the lost token, in `PipeIntegrator` nothing.
2. What `LifeThreads` promises without `Timely`: a thread is at most one signal
   behind, and stays behind.
