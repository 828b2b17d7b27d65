-------------------------- MODULE BlockTable_proofs --------------------------
(***************************************************************************)
(* Proofs about the block table of lab01, for any blocks, texts, numbers   *)
(* and sizes: no block in the table is dead or shared, and the table is    *)
(* the list of results of ResultList.                                      *)
(***************************************************************************)
EXTENDS BlockTable, SequenceTheorems, TLAPS

\* parse_input lets INIT through only with a size.
SizeChecked ==
  /\ repl = "execute" /\ command_id = "INIT" => num_input >= 1
  /\ is_initialised => size >= 1

IInv == TypeOK /\ BlocksAlive /\ SizeChecked

LEMMA Names ==
  ASSUME BlockAssumption
  PROVE  None \notin Blocks \union Texts /\ Empty \notin Texts \union {None} /\ OpenMax \in Nat
BY DEF BlockAssumption

\* A command that needs the table runs only while there is one.
LEMMA TableExists ==
  ASSUME TypeOK, NEW command \in {"COUNT", "SHOW", "DELETE", "DESTROY"}, Execute(command)
  PROVE  /\ repl = "execute" /\ is_initialised = TRUE
         /\ DOMAIN arr = 0 .. size - 1 /\ size \in Nat
         /\ element_count \in 0 .. size
BY DEF TypeOK, Execute, Refused

LEMMA IndexFacts ==
  ASSUME BlockAssumption, TypeOK
  PROVE  /\ index \in Nat /\ (is_in_range => index \in 0 .. element_count - 1)
         /\ is_in_range => index = num_input
         /\ is_in_range <=> num_input \in 0 .. element_count - 1
<1>1. /\ SIZE_MOD \in Nat \ {0} /\ num_input \in Int /\ size \in Nat /\ element_count \in 0 .. size
      /\ 2 * num_input \in -SIZE_MOD .. SIZE_MOD - 1 /\ 2 * size \in -SIZE_MOD .. SIZE_MOD - 1
  BY DEF BlockAssumption, TypeOK
<1>2. CASE num_input >= 0
  <2>1. num_input % SIZE_MOD = num_input
    BY <1>1, <1>2
  <2> QED
    BY <1>1, <1>2, <2>1 DEF index, is_in_range
<1>3. CASE num_input < 0
  <2>1. num_input % SIZE_MOD = num_input + SIZE_MOD
    BY <1>1, <1>3
  <2>2. index \in Nat /\ index > size
    BY <1>1, <1>3, <2>1 DEF index
  <2> QED
    BY <1>1, <1>3, <2>2 DEF is_in_range
<1> QED
  BY <1>1, <1>2, <1>3

LEMMA InitInv ==
  ASSUME BlockAssumption, Init
  PROVE  IInv
<1>1. arr \in [DOMAIN arr -> Blocks \union {None}] /\ DOMAIN arr = {}
  BY DEF Init
<1>2. heap \in [Blocks -> Texts \union {Empty, None}]
  BY DEF Init
<1>3. repl = "read" /\ command_id \in Commands /\ num_input = 0 /\ is_initialised = FALSE
      /\ element_count = 0 /\ size = 0 /\ open = 0 /\ shown = Empty
  BY DEF Init, Commands
<1>4. is_initialised \in BOOLEAN /\ ~is_initialised
      /\ DOMAIN arr = IF is_initialised THEN 0 .. size - 1 ELSE {}
  BY <1>1, <1>3, Zenon
<1>5. TypeOK
  BY <1>1, <1>2, <1>3, <1>4 DEF BlockAssumption, TypeOK
<1> QED
  BY <1>3, <1>5 DEF IInv, BlocksAlive, SizeChecked

LEMMA ParseStep ==
  ASSUME BlockAssumption, IInv,
         NEW command \in Commands, NEW scanned \in Numbers \union {NotScanned},
         Parse(command, scanned)
  PROVE  IInv'
<1>1. UNCHANGED <<is_initialised, arr, element_count, size, heap, open, shown>>
  BY DEF Parse, table
<1>2. repl' = "execute" /\ num_input' \in Numbers /\ command_id' \in Commands
  <2>1. Scan(scanned) \in Numbers
    BY DEF BlockAssumption, Scan, IInv, TypeOK
  <2> QED
    BY <2>1 DEF Parse, Commands, IInv, TypeOK
<1>3. SizeChecked'
  BY <1>1, <1>2 DEF Parse, SizeAllowed, IInv, SizeChecked
<1> QED
  BY <1>1, <1>2, <1>3 DEF IInv, TypeOK, BlocksAlive

LEMMA InitStep ==
  ASSUME BlockAssumption, IInv, LibWCData_init
  PROVE  IInv'
<1>1. num_input \in Numbers \intersect Nat
  BY DEF BlockAssumption, LibWCData_init, Execute, IInv, TypeOK, SizeChecked
<1>2. arr' \in [DOMAIN arr' -> Blocks \union {None}] /\ DOMAIN arr' = 0 .. num_input - 1
  BY DEF LibWCData_init
<1>3. SizeChecked'
  BY DEF LibWCData_init, Execute, IInv, SizeChecked
<1> QED
  BY <1>1, <1>2, <1>3 DEF LibWCData_init, IInv, TypeOK, BlocksAlive

LEMMA AddStep ==
  ASSUME BlockAssumption, IInv, NEW b \in Blocks, NEW text \in Texts \union {Empty},
         LibWCData_add(b, text)
  PROVE  IInv'
<1> USE DEF IInv
<1>1. /\ is_initialised = TRUE /\ DOMAIN arr = 0 .. size - 1 /\ element_count \in 0 .. size
      /\ size \in Nat /\ arr \in [0 .. size - 1 -> Blocks \union {None}]
  BY DEF TypeOK, LibWCData_add, Execute, Refused
<1>2. /\ UNCHANGED <<command_id, num_input, is_initialised, size, shown>>
      /\ repl' = "read" /\ heap[b] = None /\ open' \in 0 .. OpenMax
      /\ heap' = [heap EXCEPT ![b] = text]
  <2>1. open < OpenMax /\ open' = open + 1 /\ open \in 0 .. OpenMax
    BY DEF TypeOK, LibWCData_add
  <2>2. open' \in 0 .. OpenMax
    BY <2>1, Names
  <2> QED
    BY <2>2 DEF LibWCData_add
<1>3. heap' \in [Blocks -> Texts \union {Empty, None}]
  BY <1>2 DEF TypeOK
<1>4. \A n \in 0 .. element_count - 1 : arr[n] # b /\ arr[n] \in Blocks
  BY <1>1, <1>2, Names DEF BlocksAlive
<1>5. \A n \in 0 .. element_count - 1 : heap'[arr[n]] = heap[arr[n]]
  BY <1>2, <1>4 DEF TypeOK
<1>6. CASE text # Empty /\ HasRoom
  <2>1. /\ arr' = [arr EXCEPT ![element_count] = b] /\ element_count' = element_count + 1
        /\ element_count < size
    BY <1>6 DEF LibWCData_add, HasRoom
  <2>2. TypeOK'
    <3>1. arr' \in [DOMAIN arr' -> Blocks \union {None}] /\ DOMAIN arr' = DOMAIN arr
      BY <1>1, <2>1
    <3>2. element_count' \in 0 .. size
      BY <1>1, <2>1
    <3> QED
      BY <1>1, <1>2, <1>3, <3>1, <3>2 DEF TypeOK
  <2>3. \A n \in 0 .. element_count : arr'[n] = IF n = element_count THEN b ELSE arr[n]
    BY <1>1, <2>1
  <2>4. b # None /\ heap'[b] \in Texts
    BY <1>2, <1>6, Names DEF TypeOK
  <2>5. BlocksAlive'
    BY <1>1, <1>4, <1>5, <2>1, <2>3, <2>4 DEF BlocksAlive
  <2> QED
    BY <1>2, <2>2, <2>5 DEF SizeChecked
<1>7. CASE ~(text # Empty /\ HasRoom)
  <2>1. UNCHANGED <<arr, element_count>>
    BY <1>7 DEF LibWCData_add
  <2>2. TypeOK'
    BY <1>2, <1>3, <2>1 DEF TypeOK
  <2>3. BlocksAlive'
    BY <1>1, <1>5, <2>1 DEF BlocksAlive
  <2> QED
    BY <1>2, <2>2, <2>3 DEF SizeChecked
<1> QED
  BY <1>6, <1>7

LEMMA GetStep ==
  ASSUME BlockAssumption, IInv, LibWCData_get
  PROVE  IInv'
<1> USE DEF IInv
<1>1. /\ UNCHANGED <<command_id, num_input, is_initialised, arr, element_count, size, heap, open>>
      /\ repl' = "read"
  BY DEF LibWCData_get, table
<1>2. shown' \in Texts \union {Empty}
  BY IndexFacts DEF LibWCData_get, BlocksAlive
<1> QED
  BY <1>1, <1>2 DEF TypeOK, BlocksAlive, SizeChecked

\* Deleting moves the pointers behind the index one place down.
LEMMA Deleted ==
  ASSUME BlockAssumption, IInv, LibWCData_delete, is_in_range
  PROVE  /\ element_count' = element_count - 1 /\ element_count' \in 0 .. size
         /\ arr' = Shifted
         /\ \A n \in 0 .. element_count' - 1 : arr'[n] = IF n < index THEN arr[n] ELSE arr[n + 1]
<1> USE DEF IInv
<1>1. /\ is_initialised = TRUE /\ DOMAIN arr = 0 .. size - 1 /\ element_count \in 0 .. size
      /\ size \in Nat
  BY DEF TypeOK, LibWCData_delete, Execute, Refused
<1>2. index \in 0 .. element_count - 1
  BY IndexFacts
<1>3. arr' = Shifted /\ element_count' = element_count - 1
  BY DEF LibWCData_delete, CountLess
<1> HIDE DEF IInv
<1>4. \A n \in 0 .. element_count - 2 : arr'[n] = IF n < index THEN arr[n] ELSE arr[n + 1]
  BY <1>1, <1>2, <1>3 DEF Shifted
<1> QED
  BY <1>1, <1>2, <1>3, <1>4

LEMMA DeleteStep ==
  ASSUME BlockAssumption, IInv, LibWCData_delete
  PROVE  IInv'
<1> USE DEF IInv
<1>1. /\ UNCHANGED <<command_id, num_input, is_initialised, size, heap, open, shown>>
      /\ repl' = "read" /\ is_initialised = TRUE
  BY DEF LibWCData_delete, Execute, Refused, TypeOK
<1>2. CASE is_in_range
  <2>1. index \in 0 .. element_count - 1 /\ element_count \in Nat
    BY <1>2, IndexFacts DEF TypeOK
  <2>2. arr' \in [DOMAIN arr -> Blocks \union {None}]
    <3>1. DOMAIN arr = 0 .. size - 1 /\ element_count \in 0 .. size /\ size \in Nat
      BY <1>1 DEF TypeOK
    <3>2. \A n \in DOMAIN arr : n \in index .. element_count - 2 => n + 1 \in DOMAIN arr
      BY <2>1, <3>1
    <3>3. \A n \in DOMAIN arr : arr[n] \in Blocks \union {None}
      BY DEF TypeOK
    <3> QED
      BY <1>2, <3>2, <3>3, Deleted DEF Shifted
  <2>3. TypeOK'
    BY <1>1, <1>2, <2>2, Deleted DEF TypeOK
  <2>4. BlocksAlive'
    <3>1. \A n \in 0 .. element_count' - 1 :
            \E m \in 0 .. element_count - 1 :
              arr'[n] = arr[m] /\ m = IF n < index THEN n ELSE n + 1
      BY <1>2, <2>1, Deleted
    <3>2. \A n, m \in 0 .. element_count' - 1 : arr'[n] = arr'[m] => n = m
      BY <1>2, <2>1, <3>1 DEF BlocksAlive
    <3>3. \A n \in 0 .. element_count' - 1 : arr'[n] # None /\ heap'[arr'[n]] \in Texts
      BY <1>1, <3>1 DEF BlocksAlive
    <3> QED
      BY <3>2, <3>3 DEF BlocksAlive
  <2> QED
    BY <1>1, <2>3, <2>4 DEF SizeChecked
<1>3. CASE ~is_in_range
  BY <1>1, <1>3 DEF LibWCData_delete, TypeOK, BlocksAlive, SizeChecked
<1> QED
  BY <1>2, <1>3

LEMMA DestroyStep ==
  ASSUME BlockAssumption, IInv, LibWCData_destroy
  PROVE  IInv'
<1>1. heap' \in [Blocks -> Texts \union {Empty, None}]
  BY DEF LibWCData_destroy, IInv, TypeOK
<1>2. arr' \in [DOMAIN arr' -> Blocks \union {None}] /\ DOMAIN arr' = {}
  BY DEF LibWCData_destroy
<1>3. /\ repl' = "read" /\ element_count' = 0 /\ is_initialised' = FALSE
      /\ UNCHANGED <<command_id, num_input, size, open, shown>>
  BY DEF LibWCData_destroy
<1>4. is_initialised' \in BOOLEAN /\ ~is_initialised'
      /\ DOMAIN arr' = IF is_initialised' THEN 0 .. size' - 1 ELSE {}
  BY <1>2, <1>3, Zenon
<1>5. TypeOK'
  BY <1>1, <1>2, <1>3, <1>4 DEF IInv, TypeOK
<1> QED
  BY <1>3, <1>5 DEF IInv, BlocksAlive, SizeChecked

LEMMA QuietStep ==
  ASSUME IInv, AddWithoutFile \/ Complain \/ Exit \/ UNCHANGED vars
  PROVE  IInv'
BY DEF AddWithoutFile, Complain, Exit, vars, table, IInv, TypeOK, BlocksAlive, SizeChecked

LEMMA Step ==
  ASSUME BlockAssumption, IInv, [Next]_vars
  PROVE  IInv'
BY ParseStep, InitStep, AddStep, GetStep, DeleteStep, DestroyStep, QuietStep DEF Next

-----------------------------------------------------------------------------
(* The table implements the list of results.                                *)
Capacity == IF is_initialised THEN size ELSE 0
List == [n \in 1 .. element_count |-> heap[arr[n - 1]]]

LEMMA ListFacts ==
  ASSUME IInv
  PROVE  /\ element_count \in Nat /\ List \in Seq(Texts) /\ Len(List) = element_count
         /\ \A n \in 1 .. element_count : List[n] = heap[arr[n - 1]]
<1>1. element_count \in Nat
  BY DEF IInv, TypeOK
<1>2. \A n \in 1 .. element_count : heap[arr[n - 1]] \in Texts
  BY <1>1 DEF IInv, BlocksAlive
<1> QED
  BY <1>1, <1>2 DEF List

\* Steps that touch neither the table nor what is shown.
LEMMA Unseen ==
  ASSUME UNCHANGED <<is_initialised, arr, element_count, size, heap, shown>>
  PROVE  UNCHANGED <<Capacity, List, shown>>
BY DEF Capacity, List

LEMMA AskRefines ==
  ASSUME BlockAssumption, IInv, NEW command \in Commands,
         NEW scanned \in Numbers \union {NotScanned}, Parse(command, scanned)
  PROVE  Results!Ask
<1>1. UNCHANGED <<is_initialised, arr, element_count, size, heap, shown>>
  BY DEF Parse, table
<1>2. num_input' \in Int
  BY DEF BlockAssumption, IInv, TypeOK, Parse, Scan
<1> QED
  BY <1>1, <1>2, Unseen DEF Results!Ask, Capacity, List

LEMMA InitRefines ==
  ASSUME Init
  PROVE  Results!Init
<1>1. element_count = 0 /\ is_initialised = FALSE /\ shown = Empty /\ num_input = 0
  BY DEF Init
<1>2. [n \in 1 .. element_count |-> heap[arr[n - 1]]] = << >>
  BY <1>1
<1>3. (IF is_initialised THEN size ELSE 0) = 0
  BY <1>1, Zenon
<1> QED
  BY <1>1, <1>2, <1>3 DEF Results!Init

LEMMA CreateRefines ==
  ASSUME BlockAssumption, IInv, LibWCData_init
  PROVE  Results!Create
<1>1. ~is_initialised /\ num_input \in Nat \ {0} /\ element_count = 0
  BY DEF BlockAssumption, LibWCData_init, Execute, Refused, IInv, TypeOK, SizeChecked
<1>2. is_initialised' /\ size' = num_input /\ element_count' = 0
      /\ UNCHANGED <<num_input, shown>>
  BY DEF LibWCData_init
<1>3. Capacity = 0 /\ Capacity' = num_input
  BY <1>1, <1>2, Zenon DEF Capacity
<1>4. List = << >> /\ List' = << >>
  BY <1>1, <1>2 DEF List
<1> QED
  BY <1>1, <1>2, <1>3, <1>4 DEF Results!Create, Capacity, List

LEMMA CountRefines ==
  ASSUME BlockAssumption, IInv, NEW b \in Blocks, NEW text \in Texts \union {Empty},
         LibWCData_add(b, text)
  PROVE  Results!Count \/ UNCHANGED <<num_input, Capacity, List, shown>>
<1>1. /\ is_initialised /\ is_initialised' /\ DOMAIN arr = 0 .. size - 1 /\ size \in Nat
      /\ element_count \in 0 .. size /\ arr \in [0 .. size - 1 -> Blocks \union {None}]
      /\ UNCHANGED <<num_input, size, shown>> /\ heap[b] = None /\ heap' = [heap EXCEPT ![b] = text]
  BY DEF IInv, TypeOK, LibWCData_add, Execute, Refused
<1>2. Capacity = size /\ Capacity' = size
  BY <1>1, Zenon DEF Capacity
<1>3. \A n \in 0 .. element_count - 1 : arr[n] # b /\ heap'[arr[n]] = heap[arr[n]]
  <2>1. \A n \in 0 .. element_count - 1 : arr[n] # b /\ arr[n] \in Blocks
    BY <1>1, Names DEF IInv, BlocksAlive
  <2> QED
    BY <1>1, <2>1 DEF IInv, TypeOK
<1>4. CASE text # Empty /\ HasRoom
  <2>1. /\ arr' = [arr EXCEPT ![element_count] = b] /\ element_count' = element_count + 1
        /\ element_count < size /\ text \in Texts
    BY <1>4 DEF LibWCData_add, HasRoom
  <2>2. \A n \in 0 .. element_count : arr'[n] = IF n = element_count THEN b ELSE arr[n]
    BY <1>1, <2>1
  <2>3. heap'[b] = text
    BY <1>1 DEF IInv, TypeOK
  <2>4. \A n \in 1 .. element_count + 1 :
          heap'[arr'[n - 1]] = IF n = element_count + 1 THEN text ELSE heap[arr[n - 1]]
    BY <1>1, <1>3, <2>2, <2>3
  <2>5. List' = [n \in 1 .. element_count + 1 |->
                  IF n = element_count + 1 THEN text ELSE heap[arr[n - 1]]]
    BY <2>1, <2>4 DEF List
  <2>6. List' = Append(List, text)
    <3>1. List \in Seq(Texts) /\ Len(List) = element_count /\ element_count \in Nat
          /\ \A n \in 1 .. element_count : List[n] = heap[arr[n - 1]]
      BY ListFacts
    <3>2. List' \in Seq(Texts) /\ Len(List') = element_count + 1
      <4>1. \A n \in 1 .. element_count + 1 :
              (IF n = element_count + 1 THEN text ELSE heap[arr[n - 1]]) \in Texts
        BY <2>1, <3>1, ElementOfSeq
      <4> QED
        BY <2>5, <3>1, <4>1, IsASeq
    <3>3. \A n \in 1 .. Len(List') : List'[n] = Append(List, text)[n]
      BY <2>1, <2>5, <3>1, <3>2, AppendProperties
    <3> QED
      BY <2>1, <3>1, <3>2, <3>3, AppendProperties, SeqEqual
  <2>7. Len(List) < Capacity
    BY <1>1, <1>2, <2>1, ListFacts
  <2> QED
    BY <1>1, <1>2, <2>1, <2>6, <2>7 DEF Results!Count, Capacity, List
<1>5. CASE ~(text # Empty /\ HasRoom)
  <2>1. UNCHANGED <<arr, element_count>>
    BY <1>5 DEF LibWCData_add
  <2>2. \A n \in 1 .. element_count : heap'[arr'[n - 1]] = heap[arr[n - 1]]
    BY <1>1, <1>3, <2>1
  <2>3. List' = List
    BY <2>1, <2>2 DEF List
  <2> QED
    BY <1>1, <1>2, <2>3
<1> QED
  BY <1>4, <1>5

LEMMA ShowRefines ==
  ASSUME BlockAssumption, IInv, LibWCData_get
  PROVE  Results!Show
<1>1. /\ is_initialised /\ is_initialised' /\ size \in Nat /\ element_count \in 0 .. size
      /\ size > 0 /\ UNCHANGED <<num_input, is_initialised, arr, element_count, size, heap>>
  BY DEF IInv, TypeOK, SizeChecked, LibWCData_get, Execute, Refused, table
<1>2. UNCHANGED <<Capacity, List>>
  BY <1>1 DEF Capacity, List
<1>3. CASE is_in_range
  <2>1. index \in 0 .. element_count - 1 /\ shown' = heap[arr[index]]
    BY <1>3, IndexFacts DEF LibWCData_get, IInv
  <2>2. num_input \in 0 .. Len(List) - 1 /\ shown' = List[num_input + 1]
    BY <1>1, <1>3, <2>1, IndexFacts, ListFacts DEF IInv
  <2>3. Capacity = size
    BY <1>1, Zenon DEF Capacity
  <2> QED
    BY <1>1, <1>2, <2>2, <2>3 DEF Results!Show, Results!Known, Capacity, List
<1>4. CASE ~is_in_range
  <2>1. shown' = Empty /\ Capacity > 0
    <3>1. Capacity = size
      BY <1>1, Zenon DEF Capacity
    <3> QED
      BY <1>1, <1>4, <3>1 DEF LibWCData_get
  <2>2. ~(num_input \in 0 .. Len(List) - 1)
    BY <1>4, IndexFacts, ListFacts DEF IInv
  <2> QED
    BY <1>1, <1>2, <2>1, <2>2 DEF Results!Show, Results!Known, Capacity, List
<1> QED
  BY <1>1, <1>3, <1>4

LEMMA DeleteRefines ==
  ASSUME BlockAssumption, IInv, LibWCData_delete
  PROVE  Results!Delete \/ UNCHANGED <<num_input, Capacity, List, shown>>
<1>1. UNCHANGED <<num_input, is_initialised, size, heap, shown>>
  BY DEF LibWCData_delete
<1>2. UNCHANGED Capacity
  BY <1>1 DEF Capacity
<1>3. CASE is_in_range
  <2>1. index \in 0 .. element_count - 1 /\ element_count \in Nat
    BY <1>3, IndexFacts DEF IInv, TypeOK
  <2>2. /\ element_count' = element_count - 1
        /\ \A n \in 0 .. element_count - 2 : arr'[n] = IF n < index THEN arr[n] ELSE arr[n + 1]
    BY <1>3, <2>1, Deleted
  <2>3. \A n \in 1 .. element_count - 1 :
          heap'[arr'[n - 1]] = IF n <= index THEN List[n] ELSE List[n + 1]
    <3>1. TAKE n \in 1 .. element_count - 1
    <3>2. n - 1 \in 0 .. element_count - 2 /\ n \in 1 .. element_count
          /\ n + 1 \in 1 .. element_count /\ (n - 1 < index <=> n <= index)
          /\ (n - 1) + 1 = n /\ (n + 1) - 1 = n
      BY <2>1
    <3>3. arr'[n - 1] = IF n <= index THEN arr[n - 1] ELSE arr[n]
      BY <2>2, <3>2
    <3>4. List[n] = heap[arr[n - 1]] /\ List[n + 1] = heap[arr[n]]
      BY <3>2, ListFacts
    <3> QED
      BY <1>1, <3>3, <3>4
  <2>4. List' = [n \in 1 .. element_count - 1 |-> IF n <= index THEN List[n] ELSE List[n + 1]]
    BY <2>2, <2>3 DEF List
  <2>5. index = num_input
    BY <1>3, IndexFacts DEF IInv
  <2>6. List' = Results!Without(List, num_input) /\ num_input \in 0 .. Len(List) - 1
    BY <2>1, <2>4, <2>5, ListFacts DEF Results!Without
  <2> QED
    BY <1>1, <1>2, <2>6 DEF Results!Delete, Results!Known, Capacity, List
<1>4. CASE ~is_in_range
  BY <1>1, <1>4, Unseen DEF LibWCData_delete
<1> QED
  BY <1>3, <1>4

LEMMA DestroyRefines ==
  ASSUME BlockAssumption, IInv, LibWCData_destroy
  PROVE  Results!Destroy
<1>1. is_initialised /\ size \in Nat /\ size > 0
  BY DEF IInv, TypeOK, SizeChecked, LibWCData_destroy, Execute, Refused
<1>2. is_initialised' = FALSE /\ element_count' = 0 /\ UNCHANGED <<num_input, shown>>
  BY DEF LibWCData_destroy
<1>3. Capacity = size /\ Capacity' = 0
  BY <1>1, <1>2, Zenon DEF Capacity
<1>4. List' = << >>
  BY <1>2 DEF List
<1> QED
  BY <1>1, <1>2, <1>3, <1>4 DEF Results!Destroy, Capacity, List

LEMMA StepRefines ==
  ASSUME BlockAssumption, IInv, [Next]_vars
  PROVE  [Results!Next]_<<num_input, Capacity, List, shown>>
<1>1. ASSUME NEW command \in Commands, NEW scanned \in Numbers \union {NotScanned},
             Parse(command, scanned)
      PROVE  Results!Next
  BY <1>1, AskRefines DEF Results!Next
<1>2. CASE AddWithoutFile \/ Complain \/ Exit \/ UNCHANGED vars
  <2>1. UNCHANGED <<num_input, is_initialised, arr, element_count, size, heap, shown>>
    BY <1>2 DEF AddWithoutFile, Complain, Exit, vars, table
  <2> QED
    BY <2>1, Unseen
<1>3. CASE LibWCData_init
  BY <1>3, CreateRefines DEF Results!Next
<1>4. ASSUME NEW b \in Blocks, NEW text \in Texts \union {Empty}, LibWCData_add(b, text)
      PROVE  Results!Next \/ UNCHANGED <<num_input, Capacity, List, shown>>
  BY <1>4, CountRefines DEF Results!Next
<1>5. CASE LibWCData_get
  BY <1>5, ShowRefines DEF Results!Next
<1>6. CASE LibWCData_delete
  BY <1>6, DeleteRefines DEF Results!Next
<1>7. CASE LibWCData_destroy
  BY <1>7, DestroyRefines DEF Results!Next
<1> QED
  BY <1>1, <1>2, <1>3, <1>4, <1>5, <1>6, <1>7 DEF Next

-----------------------------------------------------------------------------
THEOREM Inductive == BlockAssumption => (Spec => []IInv)
<1>1. ASSUME BlockAssumption, Init
      PROVE  IInv
  BY <1>1, InitInv
<1>2. ASSUME BlockAssumption, IInv, [Next]_vars
      PROVE  IInv'
  BY <1>2, Step
<1> QED
  BY <1>1, <1>2, BlockAssumption, PTL DEF Spec

\* Every variable keeps its type; a pointer within the count lies within the array.
THEOREM TypeCorrect == BlockAssumption => (Spec => []TypeOK)
<1>1. IInv => TypeOK
  BY DEF IInv
<1> QED
  BY <1>1, Inductive, PTL

\* No block in the table is dead or shared: none is read after it was freed, none freed
\* twice, however often results are deleted and counted again.
THEOREM NoDoubleFree == BlockAssumption => (Spec => []BlocksAlive)
<1>1. IInv => BlocksAlive
  BY DEF IInv
<1> QED
  BY <1>1, Inductive, PTL

\* The table implements the list of results.
THEOREM Implements == BlockAssumption => (Spec => KeepsResults)
<1>1. Init => Results!Init
  BY InitRefines
<1>2. ASSUME BlockAssumption, IInv, [Next]_vars
      PROVE  [Results!Next]_<<num_input, Capacity, List, shown>>
  BY <1>2, StepRefines
<1> QED
  BY <1>1, <1>2, BlockAssumption, Inductive, PTL DEF Spec, KeepsResults, Results!Spec, Capacity, List
=============================================================================
