----------------------------- MODULE BlockTable -----------------------------
(***************************************************************************)
(* lab01: a library that keeps the results of wc in a table of allocated   *)
(* blocks (libwc.c), under a loop that reads commands (wc_repl.c).  One    *)
(* thread; what is hard is memory: which blocks are alive, who points to   *)
(* them, and which number a command uses when its line has none.           *)
(***************************************************************************)
EXTENDS Integers, Sequences

CONSTANTS
  Blocks,              \* model bound: the blocks that can be alive at once
  Texts, Empty,        \* what wc may print for a file; what it prints for no file
  None,                \* NULL, and the content of a block that is not allocated
  Numbers,             \* what sscanf("%d") may store, out-of-range digits included
  NotScanned,          \* sscanf fails: the command is not at the start of the line
  SIZE_MOD,            \* SIZE_MAX + 1; an int is no wider than a size_t
  OpenMax              \* descriptors the process may leave open

ASSUME BlockAssumption ==
  /\ None \notin Blocks \union Texts /\ Empty \notin Texts \union {None}
  /\ Numbers \subseteq Int /\ 0 \in Numbers /\ NotScanned \notin Int
  /\ SIZE_MOD \in Nat \ {0} /\ \A n \in Numbers : 2 * n \in -SIZE_MOD .. SIZE_MOD - 1
  /\ OpenMax \in Nat

VARIABLES
  repl,                \* what the loop does next
  command_id, num_input,
  is_initialised,
  arr, element_count, size,
  heap,                \* the content of every block
  open,                \* descriptors left open by mkstemp
  shown                \* what SHOW printed last

table == <<is_initialised, arr, element_count, size>>
vars  == <<repl, command_id, num_input, table, heap, open, shown>>

Commands == {"EXIT", "INVALID", "INIT", "COUNT", "SHOW", "DELETE", "DESTROY"}

Init ==
  /\ repl = "read" /\ command_id = "EXIT" /\ num_input = 0
  /\ is_initialised = FALSE
  /\ arr = [n \in {} |-> None] /\ element_count = 0 /\ size = 0
  /\ heap = [b \in Blocks |-> None]
  /\ open = 0 /\ shown = Empty

-----------------------------------------------------------------------------
(* parse_input: the expressions match anywhere in a line, sscanf only at its *)
(* start, so num_input may keep the number of an earlier command.            *)

Scan(scanned) == IF scanned = NotScanned THEN num_input ELSE scanned

SizeAllowed(n) == n >= 1

Parse(command, scanned) ==
  /\ repl = "read" /\ repl' = "execute"
  /\ num_input' = IF command \in {"INIT", "SHOW", "DELETE"} THEN Scan(scanned) ELSE num_input
  /\ command_id' = IF command = "INIT" /\ ~SizeAllowed(num_input') THEN "INVALID" ELSE command
  /\ UNCHANGED <<table, heap, open, shown>>

-----------------------------------------------------------------------------
(* The library *)

\* The commands after INIT need a table, INIT needs that there is none.
Refused == IF command_id = "INIT" THEN is_initialised
           ELSE command_id \in {"COUNT", "SHOW", "DELETE", "DESTROY"} /\ ~is_initialised

Execute(command) == repl = "execute" /\ command_id = command /\ ~Refused

\* size_t index = num_input.
index == num_input % SIZE_MOD

is_in_range == index < element_count

LibWCData_init ==
  /\ Execute("INIT") /\ repl' = "read"
  /\ arr' = [n \in 0 .. num_input - 1 |-> None]
  /\ element_count' = 0 /\ size' = num_input /\ is_initialised' = TRUE
  /\ UNCHANGED <<command_id, num_input, heap, open, shown>>

\* Mutant: room for one more.
RoomForOneMore == element_count <= size
HasRoom == element_count < size

\* A block whose file has no result, or no place in the table, is never freed.
LibWCData_add(b, text) ==
  /\ Execute("COUNT") /\ repl' = "read" /\ heap[b] = None
  /\ open < OpenMax /\ open' = open + 1
  /\ heap' = [heap EXCEPT ![b] = text]
  /\ IF text # Empty /\ HasRoom
     THEN /\ arr' = [arr EXCEPT ![element_count] = b]
          /\ element_count' = element_count + 1
     ELSE UNCHANGED <<arr, element_count>>
  /\ UNCHANGED <<command_id, num_input, is_initialised, size, shown>>

\* Without a descriptor mkstemp fails and fopen of the empty name gives NULL.
AddWithoutFile ==
  /\ Execute("COUNT") /\ open = OpenMax /\ repl' = "crashed"
  /\ UNCHANGED <<command_id, num_input, table, heap, open, shown>>

LibWCData_get ==
  /\ Execute("SHOW") /\ repl' = "read"
  /\ shown' = IF is_in_range THEN heap[arr[index]] ELSE Empty
  /\ UNCHANGED <<command_id, num_input, table, heap, open>>

\* Mutants: the shift starts one place late; the count stays.
ShiftedLate == [n \in DOMAIN arr |-> IF n \in index + 1 .. element_count - 2 THEN arr[n + 1] ELSE arr[n]]
Shifted == [n \in DOMAIN arr |-> IF n \in index .. element_count - 2 THEN arr[n + 1] ELSE arr[n]]
CountStays == element_count
CountLess == element_count - 1

\* The block itself stays allocated, and the last pointer stays behind the count.
LibWCData_delete ==
  /\ Execute("DELETE") /\ repl' = "read"
  /\ IF is_in_range THEN arr' = Shifted /\ element_count' = CountLess
                    ELSE UNCHANGED <<arr, element_count>>
  /\ UNCHANGED <<command_id, num_input, is_initialised, size, heap, open, shown>>

LibWCData_destroy ==
  /\ Execute("DESTROY") /\ repl' = "read"
  /\ heap' = [b \in Blocks |-> IF \E n \in 0 .. element_count - 1 : arr[n] = b
                               THEN None ELSE heap[b]]
  /\ element_count' = 0 /\ arr' = [n \in {} |-> None] /\ is_initialised' = FALSE
  /\ UNCHANGED <<command_id, num_input, size, open, shown>>

\* The command is refused or invalid: a message is printed.
Complain ==
  /\ (repl = "execute" /\ Refused) \/ Execute("INVALID")
  /\ repl' = "read"
  /\ UNCHANGED <<command_id, num_input, table, heap, open, shown>>

Exit ==
  /\ Execute("EXIT") /\ repl' = "ended"
  /\ UNCHANGED <<command_id, num_input, table, heap, open, shown>>

-----------------------------------------------------------------------------
Next ==
  \/ \E command \in Commands, scanned \in Numbers \union {NotScanned} : Parse(command, scanned)
  \/ LibWCData_init \/ LibWCData_get \/ LibWCData_delete \/ LibWCData_destroy
  \/ \E b \in Blocks, text \in Texts \union {Empty} : LibWCData_add(b, text)
  \/ AddWithoutFile \/ Complain \/ Exit

Spec == Init /\ [][Next]_vars

-----------------------------------------------------------------------------
(* Properties *)

\* Every variable has its type; the pointers within the count lie within the array.
TypeOK ==
  /\ repl \in {"read", "execute", "ended", "crashed"}
  /\ command_id \in Commands /\ num_input \in Numbers
  /\ is_initialised \in BOOLEAN
  /\ arr \in [DOMAIN arr -> Blocks \union {None}]
  /\ DOMAIN arr = IF is_initialised THEN 0 .. size - 1 ELSE {}
  /\ size \in Numbers \intersect Nat /\ element_count \in 0 .. size
  /\ is_initialised \/ element_count = 0
  /\ heap \in [Blocks -> Texts \union {Empty, None}]
  /\ open \in 0 .. OpenMax /\ shown \in Texts \union {Empty}

\* Every pointer within the count is to a block of its own that is alive: SHOW never
\* reads freed memory and DESTROY never frees a block twice, although DELETE leaves
\* copies of pointers behind (libwc.c:54-60).
BlocksAlive ==
  \A n \in 0 .. element_count - 1 :
    /\ arr[n] # None /\ heap[arr[n]] \in Texts
    /\ \A m \in 0 .. element_count - 1 : arr[m] = arr[n] => m = n

\* The table is the list of results its user sees: every command acts on the result of
\* its number, and a negative number is out of range although the index has no sign.
Results == INSTANCE ResultList WITH
  asked <- num_input,
  capacity <- IF is_initialised THEN size ELSE 0,
  list <- [n \in 1 .. element_count |-> heap[arr[n - 1]]]
KeepsResults == Results!Spec
=============================================================================
