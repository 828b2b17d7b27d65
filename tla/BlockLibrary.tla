---------------------------- MODULE BlockLibrary ----------------------------
(***************************************************************************)
(* lab01/cw01: the first version of the library, under any order of legal  *)
(* calls of a program.  Its delete frees a block, after it has shifted the *)
(* pointers.                                                               *)
(***************************************************************************)
EXTENDS Integers, FiniteSets

CONSTANTS
  LibBlocks,           \* model bound: the blocks that can be alive at once
  MaxLibSize           \* model bound: the size a table is created with

ASSUME LibAssumption == MaxLibSize \in Nat

VARIABLES
  libArr, libCount, libSize,   \* the LibWCData; libSize is -1 when there is none
  alive,               \* the allocated blocks
  dropped,             \* history: the blocks add gave up without freeing them
  misused,             \* a block has been read or freed that was not allocated
  onlyLast             \* history: every delete so far was of the last result

libVars == <<libArr, libCount, libSize, alive, dropped, misused, onlyLast>>

NULL == 0
Kept == {libArr[n] : n \in 0 .. libCount - 1}

LibInit ==
  /\ libArr = [n \in 0 .. MaxLibSize - 1 |-> NULL] /\ libCount = 0 /\ libSize = -1
  /\ alive = {} /\ dropped = {}
  /\ misused = FALSE /\ onlyLast = TRUE

\* LibWCData_create and LibWCData_init.
LibCreate ==
  /\ libSize = -1 /\ libSize' \in 0 .. MaxLibSize
  /\ libArr' = [n \in 0 .. MaxLibSize - 1 |-> NULL] /\ libCount' = 0
  /\ UNCHANGED <<alive, dropped, misused, onlyLast>>

Room == libCount < libSize

\* The output of wc is allocated before the library knows that it is empty or that there
\* is no room.
LibAdd ==
  /\ libSize # -1
  /\ \E b \in LibBlocks \ alive :
       /\ alive' = alive \union {b}
       /\ \/ /\ Room
             /\ libArr' = [libArr EXCEPT ![libCount] = b] /\ libCount' = libCount + 1
             /\ UNCHANGED dropped
          \/ dropped' = dropped \union {b} /\ UNCHANGED <<libArr, libCount>>
  /\ UNCHANGED <<libSize, misused, onlyLast>>

\* An index out of range gives "" and reads no block.
LibGet(n) ==
  /\ libSize # -1
  /\ misused' = (misused \/ (n < libCount /\ libArr[n] \notin alive))
  /\ UNCHANGED <<libArr, libCount, libSize, alive, dropped, onlyLast>>

\* Mutant: the count stays.
CountUnchanged == libCount
CountDown == libCount - 1

\* free(arr[i - 1]) after the loop: i is then element_count.
LibDelete(n) ==
  LET freed == libArr[libCount - 1] IN
  /\ libSize # -1 /\ n < libCount
  /\ libArr' = [m \in DOMAIN libArr |-> IF m \in n .. libCount - 2 THEN libArr[m + 1] ELSE libArr[m]]
  /\ libCount' = CountDown
  /\ alive' = alive \ {freed} /\ misused' = (misused \/ freed \notin alive)
  /\ onlyLast' = (onlyLast /\ n = libCount - 1)
  /\ UNCHANGED <<libSize, dropped>>

FreesTwice == \/ ~(Kept \subseteq alive)
              \/ \E m, n \in 0 .. libCount - 1 : m # n /\ libArr[m] = libArr[n]

\* LibWCData_clear, and LibWCData_destroy, which also frees the array.
LibClear(size) ==
  /\ libSize # -1 /\ size \in {libSize, -1}
  /\ alive' = alive \ Kept /\ misused' = (misused \/ FreesTwice)
  /\ libCount' = 0 /\ libSize' = size
  /\ UNCHANGED <<libArr, dropped, onlyLast>>

LibNext == LibCreate \/ LibAdd \/ (\E n \in 0 .. MaxLibSize - 1 : LibGet(n) \/ LibDelete(n))
           \/ LibClear(libSize) \/ LibClear(-1)

LibSpec == LibInit /\ [][LibNext]_libVars

-----------------------------------------------------------------------------
(* Properties *)

\* As long as only last results are deleted, no block is read or freed that is not
\* allocated, and every allocated block is in the table or was given up by add.
MemoryKept ==
  onlyLast =>
    /\ ~misused /\ ~FreesTwice
    /\ alive = Kept \union dropped
=============================================================================
