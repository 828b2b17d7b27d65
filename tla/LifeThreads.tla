----------------------------- MODULE LifeThreads -----------------------------
(***************************************************************************)
(* lab08/zad02: the game of life with one thread per block of cells (with  *)
(* a thread for each cell it is lab08/zad01).  Main draws a grid, sleeps,  *)
(* sends every thread SIGUSR1 and swaps its grids; a thread updates its    *)
(* block, pauses and swaps its own.  Nothing but the sleep makes main wait *)
(* for the threads: the constant Timely says whether it is long enough.    *)
(***************************************************************************)
EXTENDS Integers, FiniteSets

CONSTANTS
  Width, Height,             \* grid_width, grid_height
  thread_number,
  Timely                     \* every thread pauses again while main sleeps

VARIABLES
  main,                      \* what main does next
  k,                         \* the loop variable of main's loops over the threads
  sum, block_starts, block_sizes,
  grid,                      \* the two arrays
  foreground,                \* which of them main draws; the other is its background
  screen,
  thread,                    \* what each thread does
  i, src,                    \* its loop variable and which array it reads
  pending,                   \* a SIGUSR1 is pending for the thread
  resetHand,                 \* the unset sa_flags (grid.c:160) hold SA_RESETHAND
  handlerSet

blocks == <<sum, block_starts, block_sizes>>
mainv  == <<main, k, foreground, screen>>
workers == <<thread, i, src>>
signals == <<pending, handlerSet>>
vars   == <<mainv, blocks, grid, workers, signals, resetHand>>

cell_number == Width * Height
Cells == 0 .. cell_number - 1
Threads == 0 .. thread_number - 1

ASSUME LifeAssumption ==
  /\ Width \in Nat \ {0} /\ Height \in Nat \ {0}
  /\ thread_number \in 1 .. cell_number /\ Timely \in BOOLEAN

\* malloc leaves the background with any contents.
Init ==
  /\ main = "divide" /\ k = 0
  /\ sum = 0
  /\ block_starts = [t \in Threads |-> 0] /\ block_sizes = [t \in Threads |-> 0]
  /\ grid \in [{0, 1} -> [Cells -> BOOLEAN]]
  /\ foreground = 0
  /\ screen = grid[0]        \* nothing is shown before the first Draw
  /\ thread = [t \in Threads |-> "none"]
  /\ i = [t \in Threads |-> 0] /\ src = [t \in Threads |-> 0]
  /\ pending = [t \in Threads |-> FALSE]
  /\ resetHand \in BOOLEAN /\ handlerSet = TRUE

-----------------------------------------------------------------------------
(* calculate_block_sizes and init_threads *)

\* One turn of main's loop over the threads, then on to another part of main.
LoopTo(from, to) ==
  /\ main = from
  /\ \/ k + 1 < thread_number /\ k' = k + 1 /\ main' = main
     \/ k + 1 = thread_number /\ k' = 0 /\ main' = to

min_block_size == cell_number \div thread_number
remainder == cell_number % thread_number

\* Mutants: one large block too few or too many; the last thread takes all that is left.
OneLargeBlockLess(t) == min_block_size + (IF t + 1 < remainder THEN 1 ELSE 0)
OneLargeBlockMore(t) == min_block_size + (IF t <= remainder THEN 1 ELSE 0)
LastTakesRest(t) == min_block_size + (IF t + 1 = thread_number THEN remainder ELSE 0)
BlockSize(t) == min_block_size + (IF t < remainder THEN 1 ELSE 0)

Divide ==
  /\ LoopTo("divide", "create")
  /\ block_starts' = [block_starts EXCEPT ![k] = sum]
  /\ block_sizes' = [block_sizes EXCEPT ![k] = BlockSize(k)]
  /\ sum' = sum + block_sizes'[k]
  /\ UNCHANGED <<grid, foreground, screen, workers, signals, resetHand>>

Create ==
  /\ LoopTo("create", "draw")
  /\ thread' = [thread EXCEPT ![k] = "update"]
  /\ UNCHANGED <<blocks, grid, foreground, screen, i, src, signals, resetHand>>

-----------------------------------------------------------------------------
(* Main *)

Draw ==
  /\ main = "draw" /\ main' = "sleep"
  /\ screen' = grid[foreground]
  /\ UNCHANGED <<k, blocks, grid, foreground, workers, signals, resetHand>>

Paused(t) == thread[t] = "pause" /\ ~pending[t]

Awake ==
  /\ main = "sleep" /\ main' = "signal"
  /\ Timely => \A t \in Threads : Paused(t)
  /\ UNCHANGED <<k, foreground, screen, blocks, grid, workers, signals, resetHand>>

\* Mutant: the last thread is not signalled.
AllButLast(t) == t + 1 < thread_number
Signalled(t) == TRUE

\* pthread_kill; a SIGUSR1 that is still pending swallows the new one.
Signal ==
  /\ LoopTo("signal", "swap")
  /\ pending' = [pending EXCEPT ![k] = @ \/ Signalled(k)]
  /\ UNCHANGED <<foreground, screen, blocks, grid, workers, handlerSet, resetHand>>

\* Mutant: main goes on drawing the same array.
SameGrid == foreground
OtherGrid == 1 - foreground

Swap ==
  /\ main = "swap" /\ main' = "draw"
  /\ foreground' = OtherGrid
  /\ UNCHANGED <<k, screen, blocks, grid, workers, signals, resetHand>>

MainStep == Divide \/ Create \/ Draw \/ Awake \/ Signal \/ Swap

-----------------------------------------------------------------------------
(* The threads *)

\* Mutant: the board wraps around at its right and left edges.
WrappedCount(g, row, col) ==
  Cardinality({d \in ((-1 .. 1) \X (-1 .. 1)) \ {<<0, 0>>} :
    /\ row + d[1] \in 0 .. Height - 1
    /\ g[Width * (row + d[1]) + ((col + d[2] + Width) % Width)]})
LivingNeighbours(g, row, col) ==
  Cardinality({d \in ((-1 .. 1) \X (-1 .. 1)) \ {<<0, 0>>} :
    /\ row + d[1] \in 0 .. Height - 1 /\ col + d[2] \in 0 .. Width - 1
    /\ g[Width * (row + d[1]) + col + d[2]]})

is_alive(row, col, g) ==
  LET count == LivingNeighbours(g, row, col) IN
  IF g[row * Width + col] THEN count \in {2, 3} ELSE count = 3

\* One turn of the loop in update_block.
UpdateCell(t) ==
  LET current_cell == block_starts[t] + i[t] IN
  /\ thread[t] = "update" /\ i[t] < block_sizes[t]
  /\ grid' = [grid EXCEPT ![1 - src[t]][current_cell] =
                is_alive(current_cell \div Width, current_cell % Width, grid[src[t]])]
  /\ i' = [i EXCEPT ![t] = @ + 1]
  /\ UNCHANGED <<mainv, blocks, thread, src, signals, resetHand>>

Pause(t) ==
  /\ thread[t] = "update" /\ i[t] >= block_sizes[t]
  /\ thread' = [thread EXCEPT ![t] = "pause"]
  /\ UNCHANGED <<mainv, blocks, grid, i, src, signals, resetHand>>

\* The signal is delivered: pause returns and the thread swaps its arrays; a thread
\* that is still updating runs the empty handler and goes on.
Deliver(t) ==
  /\ pending[t] /\ thread[t] \in {"update", "pause"} /\ handlerSet
  /\ pending' = [pending EXCEPT ![t] = FALSE]
  /\ handlerSet' = ~resetHand
  /\ IF thread[t] = "pause"
     THEN /\ thread' = [thread EXCEPT ![t] = "update"]
          /\ src' = [src EXCEPT ![t] = 1 - @]
          /\ i' = [i EXCEPT ![t] = 0]
     ELSE UNCHANGED workers
  /\ UNCHANGED <<mainv, blocks, grid, resetHand>>

\* The default action of SIGUSR1 ends the process.
Die(t) ==
  /\ pending[t] /\ ~handlerSet /\ main # "dead"
  /\ main' = "dead" /\ thread' = [u \in Threads |-> "dead"]
  /\ UNCHANGED <<k, foreground, screen, blocks, grid, i, src, signals, resetHand>>

ThreadStep(t) == UpdateCell(t) \/ Pause(t) \/ Deliver(t) \/ Die(t)

-----------------------------------------------------------------------------
Next == \/ MainStep
        \/ \E t \in Threads : ThreadStep(t)
        \/ main = "dead" /\ UNCHANGED vars

Spec == Init /\ [][Next]_vars

-----------------------------------------------------------------------------
(* Properties *)

Block(t) == block_starts[t] .. block_starts[t] + block_sizes[t] - 1

\* Every variable has its type; no thread leaves the grid.
TypeOK ==
  /\ main \in {"divide", "create", "draw", "sleep", "signal", "swap", "dead"}
  /\ k \in Threads /\ sum \in 0 .. cell_number
  /\ block_starts \in [Threads -> 0 .. cell_number]
  /\ block_sizes \in [Threads -> 0 .. cell_number]
  /\ grid \in [{0, 1} -> [Cells -> BOOLEAN]] /\ screen \in [Cells -> BOOLEAN]
  /\ foreground \in {0, 1}
  /\ thread \in [Threads -> {"none", "update", "pause", "dead"}]
  /\ i \in [Threads -> 0 .. cell_number] /\ src \in [Threads -> {0, 1}]
  /\ pending \in [Threads -> BOOLEAN]
  /\ resetHand \in BOOLEAN /\ handlerSet \in BOOLEAN

\* Every cell is in the block of exactly one thread, however the cells divide
\* (grid.c:17-41).
BlocksPartition ==
  main # "divide" =>
    /\ Cells = UNION {Block(t) : t \in Threads}
    /\ \A t, u \in Threads : t # u => Block(t) \intersect Block(u) = {}

\* The sizes differ by one at most (grid.c:17).
BlocksBalanced ==
  main # "divide" => \A t, u \in Threads : block_sizes[t] <= block_sizes[u] + 1

\* The division of the board: every cell to one thread, as evenly as it goes.
FairBlocks == BlocksPartition /\ BlocksBalanced

\* The screen shows one whole generation after another.
Board == INSTANCE Life
ShowsLife == Board!Spec

\* No thread writes to an array while main draws it (grid.c:51, 135).
DrawnAlone == [][main = "draw" => grid'[foreground] = grid[foreground]]_vars

\* grid.c:112, 139: a signal wakes every thread from its pause, so when all pause again
\* they have swapped their arrays as often as main.
ThreadsInStep ==
  main = "sleep" /\ (\A t \in Threads : Paused(t)) => \A t \in Threads : src[t] = foreground
=============================================================================
