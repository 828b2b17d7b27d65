------------------------ MODULE LifeThreads_proofs ------------------------
(***************************************************************************)
(* Proofs about lab08/zad02 for every board and every number of threads:   *)
(* the division of the cells into blocks and that no thread leaves the     *)
(* grid, whatever main's sleep is; and, when the sleep is long enough,     *)
(* that the threads keep in step and that the screen shows Life.           *)
(***************************************************************************)
EXTENDS LifeThreads, FiniteSetTheorems, TLAPS

-----------------------------------------------------------------------------
(* Arithmetic of the division: the first cell of the n-th block.            *)
Start(n) == n * min_block_size + (IF n < remainder THEN n ELSE remainder)

LEMMA DivisionFacts ==
  ASSUME LifeAssumption
  PROVE  /\ cell_number \in Nat \ {0} /\ thread_number \in Nat \ {0}
         /\ min_block_size \in Nat /\ remainder \in 0 .. thread_number - 1
         /\ cell_number = thread_number * min_block_size + remainder
<1>1. cell_number \in Nat \ {0}
  BY DEF LifeAssumption, cell_number
<1>2. thread_number \in Nat \ {0}
  BY <1>1 DEF LifeAssumption
<1> QED
  BY <1>1, <1>2 DEF min_block_size, remainder

LEMMA StartFacts ==
  ASSUME LifeAssumption
  PROVE  /\ Start(0) = 0 /\ Start(thread_number) = cell_number
         /\ \A n \in 0 .. thread_number : Start(n) \in 0 .. cell_number
         /\ \A n \in Threads : /\ BlockSize(n) \in Nat
                               /\ n + 1 \in 0 .. thread_number
                               /\ Start(n + 1) = Start(n) + BlockSize(n)
         /\ \A n, m \in 0 .. thread_number : n <= m => Start(n) <= Start(m)
<1> DEFINE N == cell_number
           T == thread_number
           q == min_block_size
           r == remainder
<1>1. N \in Nat /\ T \in Nat \ {0} /\ q \in Nat /\ r \in 0 .. T - 1 /\ N = T * q + r
  BY DivisionFacts
<1> HIDE DEF N, T, q, r
<1>2. \A n, m \in Nat : n <= m => n * q <= m * q
  BY <1>1
<1>3. \A n \in Nat : (n + 1) * q = n * q + q
  BY <1>1
<1>4. \A n, m \in 0 .. T : n <= m => Start(n) <= Start(m)
  BY <1>1, <1>2 DEF Start, r, q
<1>5. Start(0) = 0 /\ Start(T) = N
  BY <1>1 DEF Start, r, q
<1>6. \A n \in 0 .. T : Start(n) \in Nat
  BY <1>1 DEF Start, r, q
<1>7. \A n \in 0 .. T : Start(n) \in 0 .. N
  BY <1>1, <1>4, <1>5, <1>6
<1>8. \A n \in 0 .. T - 1 : BlockSize(n) \in Nat /\ Start(n + 1) = Start(n) + BlockSize(n)
  BY <1>1, <1>3 DEF Start, BlockSize, r, q
<1> QED
  BY <1>1, <1>4, <1>5, <1>7, <1>8 DEF Threads, N, T

-----------------------------------------------------------------------------
(* A cell's place on the board: row and column determine the cell.          *)
LEMMA CellPlace ==
  ASSUME LifeAssumption, NEW c \in Cells
  PROVE  /\ c \div Width \in 0 .. Height - 1 /\ c % Width \in 0 .. Width - 1
         /\ c = Width * (c \div Width) + (c % Width)
<1> DEFINE r == c \div Width
           q == c % Width
<1>1. Width \in Nat \ {0} /\ Height \in Nat \ {0} /\ c \in Nat /\ c < Width * Height
  BY DEF LifeAssumption, Cells, cell_number
<1>2. r \in Nat /\ q \in 0 .. Width - 1 /\ c = Width * r + q
  BY <1>1
<1> HIDE DEF r, q
<1>3. r < Height
  <2>1. SUFFICES ASSUME r >= Height
                 PROVE  FALSE
    BY <1>1, <1>2
  <2>2. Width * r >= Width * Height
    BY <1>1, <1>2, <2>1
  <2>3. Width * r \in Nat /\ Width * Height \in Nat
    BY <1>1, <1>2
  <2> QED
    BY <1>1, <1>2, <2>2, <2>3
<1>4. r \in 0 .. Height - 1
  BY <1>1, <1>2, <1>3
<1> QED
  BY <1>2, <1>4 DEF r, q

\* Conversely a row and a column are those of the cell computed from them.
LEMMA PlaceCell ==
  ASSUME LifeAssumption, NEW r \in 0 .. Height - 1, NEW q \in 0 .. Width - 1
  PROVE  /\ Width * r + q \in Cells
         /\ (Width * r + q) \div Width = r /\ (Width * r + q) % Width = q
<1> DEFINE c == Width * r + q
<1>1. Width \in Nat \ {0} /\ Height \in Nat \ {0} /\ r \in Nat /\ q \in Nat
  BY DEF LifeAssumption
<1>2. Width * r \in Nat /\ Width * Height \in Nat /\ Width * (r + 1) = Width * r + Width
  BY <1>1
<1>3. Width * (r + 1) <= Width * Height
  BY <1>1
<1>4. c \in Cells
  BY <1>1, <1>2, <1>3 DEF Cells, cell_number
<1> DEFINE s == c \div Width
           p == c % Width
<1>5. s \in 0 .. Height - 1 /\ p \in 0 .. Width - 1 /\ c = Width * s + p
  BY <1>4, CellPlace
<1> HIDE DEF s, p
<1>6. Width * s \in Int /\ Width * (s + 1) = Width * s + Width
  BY <1>1, <1>5
<1>7. ~(s < r)
  <2>1. s < r => Width * (s + 1) <= Width * r
    BY <1>1, <1>5
  <2> QED
    BY <1>1, <1>2, <1>5, <1>6, <2>1
<1>8. ~(r < s)
  <2>1. r < s => Width * (r + 1) <= Width * s
    BY <1>1, <1>5
  <2> QED
    BY <1>1, <1>2, <1>5, <1>6, <2>1
<1>9. s = r
  BY <1>5, <1>7, <1>8
<1>10. p = q
  BY <1>1, <1>2, <1>5, <1>9
<1> QED
  BY <1>4, <1>9, <1>10 DEF s, p

\* Life counts as this module does.
LEMMA BoardCardinality == \A S : Board!Cardinality(S) = Cardinality(S)
  BY DEF Cardinality, Board!Cardinality

\* is_alive in grid.c, which looks at the eight offsets that stay on the board, is the
\* rule of the game: the offsets correspond to the neighbouring cells.
LEMMA RuleIsLife ==
  ASSUME LifeAssumption, NEW g \in [Cells -> BOOLEAN], NEW c \in Cells
  PROVE  is_alive(c \div Width, c % Width, g) = Board!Alive(g, c)
<1> DEFINE row == c \div Width
           col == c % Width
           S == {e \in Board!Neighbours(c) : g[e]}
           Offsets == ((-1 .. 1) \X (-1 .. 1)) \ {<<0, 0>>}
           D == {d \in Offsets : /\ row + d[1] \in 0 .. Height - 1
                                 /\ col + d[2] \in 0 .. Width - 1
                                 /\ g[Width * (row + d[1]) + col + d[2]]}
           f == [e \in S |-> <<e \div Width - row, (e % Width) - col>>]
<1> USE DEF Board!Neighbours, Board!Cells, Board!Row, Board!Col, Board!Near
<1>1. row \in 0 .. Height - 1 /\ col \in 0 .. Width - 1 /\ c = Width * row + col
  BY CellPlace
<1>2. Board!Cells = Cells
  BY DEF Cells, cell_number
<1> HIDE DEF row, col
<1>3. \A e \in S : /\ e \in Cells /\ e # c /\ g[e]
                   /\ row - (e \div Width) \in -1 .. 1 /\ col - (e % Width) \in -1 .. 1
  <2>1. TAKE e \in S
  <2>2. e \in Cells /\ e # c /\ g[e]
    BY <1>2
  <2>3. /\ row <= (e \div Width) + 1 /\ (e \div Width) <= row + 1
        /\ col <= (e % Width) + 1 /\ (e % Width) <= col + 1
    BY DEF row, col
  <2>4. e \div Width \in Int /\ e % Width \in Int
    BY <2>2, CellPlace
  <2> QED
    BY <1>1, <2>2, <2>3, <2>4
<1>4. ASSUME NEW e \in S
      PROVE  f[e] \in D
  <2> DEFINE r == e \div Width
             q == e % Width
  <2>1. r \in 0 .. Height - 1 /\ q \in 0 .. Width - 1 /\ e = Width * r + q
    BY <1>3, CellPlace
  <2>2. r - row \in -1 .. 1 /\ q - col \in -1 .. 1 /\ e # c /\ g[e]
    <3>1. row - r \in -1 .. 1 /\ col - q \in -1 .. 1 /\ e # c /\ g[e]
      BY <1>3
    <3> QED
      BY <1>1, <2>1, <3>1
  <2> HIDE DEF r, q
  <2>3. f[e] = <<r - row, q - col>>
    BY DEF r, q
  <2>4. <<r - row, q - col>> # <<0, 0>>
    <3>1. SUFFICES ASSUME r - row = 0, q - col = 0
                   PROVE  FALSE
      OBVIOUS
    <3>2. r = row /\ q = col
      BY <1>1, <2>1, <3>1
    <3> QED
      BY <1>1, <2>1, <2>2, <3>2
  <2>5. row + (r - row) = r /\ col + (q - col) = q
    BY <1>1, <2>1
  <2>6. Width * (row + (r - row)) + col + (q - col) = e
    <3>1. Width * r \in Int
      BY <2>1 DEF LifeAssumption
    <3>2. Width * (row + (r - row)) = Width * r
      BY <2>5
    <3> QED
      BY <1>1, <2>1, <3>1, <3>2
  <2>7. <<r - row, q - col>> \in Offsets
    BY <2>2, <2>4
  <2> QED
    BY <2>1, <2>2, <2>3, <2>5, <2>6, <2>7
<1>5. ASSUME NEW e \in S, NEW h \in S, f[e] = f[h]
      PROVE  e = h
  <2>1. e \div Width - row = h \div Width - row /\ (e % Width) - col = (h % Width) - col
    BY <1>5
  <2>2. e \in Cells /\ h \in Cells
    BY <1>3
  <2>3. e \div Width = h \div Width /\ e % Width = h % Width
    <3>1. e \div Width \in Int /\ h \div Width \in Int /\ e % Width \in Int /\ h % Width \in Int
      BY <2>2, CellPlace
    <3> QED
      BY <1>1, <2>1, <3>1
  <2>4. e = Width * (e \div Width) + (e % Width) /\ h = Width * (h \div Width) + (h % Width)
    BY <2>2, CellPlace
  <2> QED
    BY <2>3, <2>4
<1>6. ASSUME NEW d \in D
      PROVE  \E e \in S : f[e] = d
  <2>1. PICK a \in -1 .. 1, b \in -1 .. 1 : d = <<a, b>> /\ ~(a = 0 /\ b = 0)
    OBVIOUS
  <2>2. /\ row + a \in 0 .. Height - 1 /\ col + b \in 0 .. Width - 1
        /\ g[Width * (row + a) + col + b]
    BY <2>1
  <2> DEFINE e == Width * (row + a) + (col + b)
  <2>3. e \in Cells /\ e \div Width = row + a /\ e % Width = col + b
    BY <2>2, PlaceCell
  <2>4. e = Width * (row + a) + col + b
    <3>1. Width * (row + a) \in Int
      BY <2>2 DEF LifeAssumption
    <3> QED
      BY <1>1, <3>1
  <2> HIDE DEF e
  <2>5. e # c
    <3>1. SUFFICES ASSUME e = c
                   PROVE  FALSE
      OBVIOUS
    <3>2. row + a = row /\ col + b = col
      BY <2>3, <3>1 DEF row, col
    <3> QED
      BY <1>1, <2>1, <3>2
  <2>6. /\ row <= (e \div Width) + 1 /\ (e \div Width) <= row + 1
        /\ col <= (e % Width) + 1 /\ (e % Width) <= col + 1
    BY <1>1, <2>3
  <2>7. e \in Board!Neighbours(c)
    BY <1>2, <2>3, <2>5, <2>6 DEF row, col
  <2>8. e \in S
    BY <2>2, <2>4, <2>7
  <2>9. f[e] = <<a, b>>
    <3>1. (row + a) - row = a /\ (col + b) - col = b
      BY <1>1
    <3> QED
      BY <2>3, <2>8, <3>1
  <2> QED
    BY <2>1, <2>8, <2>9
<1>7. ExistsBijection(S, D)
  <2>1. f \in [S -> D]
    BY <1>4
  <2>2. f \in Bijection(S, D)
    BY <1>5, <1>6, <2>1 DEF Bijection, Injection, Surjection, IsInjective
  <2> QED
    BY <2>2 DEF ExistsBijection
<1>8. IsFiniteSet(S)
  <2>1. S \subseteq Cells
    BY <1>3
  <2>2. IsFiniteSet(Cells)
    BY FS_Interval, DivisionFacts DEF Cells
  <2> QED
    BY <2>1, <2>2, FS_Subset
<1>9. Cardinality(D) = Cardinality(S) /\ Cardinality(S) \in Nat
  <2> HIDE DEF S, D
  <2> QED
    BY <1>7, <1>8, FS_Bijection, FS_CardinalityType
<1>10. LivingNeighbours(g, row, col) = Cardinality(D)
  BY DEF LivingNeighbours
<1>11. g[row * Width + col] = g[c]
  <2>1. row * Width = Width * row
    BY <1>1 DEF LifeAssumption
  <2> QED
    BY <1>1, <2>1
<1>12. Board!Alive(g, c) = (Cardinality(S) = 3 \/ (g[c] /\ Cardinality(S) = 2))
  BY BoardCardinality DEF Board!Alive
<1>13. is_alive(row, col, g) = (Cardinality(S) = 3 \/ (g[c] /\ Cardinality(S) = 2))
  <2> DEFINE n == Cardinality(S)
  <2>1. n = LivingNeighbours(g, row, col)
    BY <1>9, <1>10
  <2> HIDE DEF n
  <2>2. is_alive(row, col, g) = IF g[c] THEN n \in {2, 3} ELSE n = 3
    BY <1>11, <2>1, Zenon DEF is_alive
  <2>3. g[c] \in BOOLEAN
    OBVIOUS
  <2>4. is_alive(row, col, g) = (n = 3 \/ (g[c] /\ n = 2))
    BY <2>2, <2>3
  <2> QED
    BY <2>4 DEF n
<1> QED
  BY <1>12, <1>13 DEF row, col
-----------------------------------------------------------------------------
(* The division of the cells.  Main's loop over the blocks is the induction. *)
Divided(n) ==
  /\ sum = Start(n)
  /\ \A t \in Threads : t < n => block_starts[t] = Start(t) /\ block_sizes[t] = BlockSize(t)
Covered(n) ==
  \A c \in 0 .. Start(n) - 1 : \E t \in Threads : t < n /\ Start(t) <= c /\ c < Start(t + 1)

DivideInv ==
  /\ main = "divide" => Divided(k) /\ Covered(k)
  /\ main # "divide" => Divided(thread_number) /\ Covered(thread_number)

\* The threads are created in order and signalled only when all exist.
CreateInv ==
  /\ main \in {"divide", "create"} => \A t \in Threads : ~pending[t]
  /\ main = "divide" => \A t \in Threads : thread[t] = "none"
  /\ main = "create" => \A t \in Threads : thread[t] = "none" <=> t >= k
  /\ main \notin {"divide", "create"} => \A t \in Threads : thread[t] # "none"

BInv == TypeOK /\ DivideInv /\ CreateInv

LEMMA InitB ==
  ASSUME LifeAssumption, Init
  PROVE  BInv
<1> USE DivisionFacts, StartFacts
<1>1. TypeOK
  BY DEF Init, TypeOK, Threads
<1>2. DivideInv
  BY DEF Init, DivideInv, Divided, Covered, Threads
<1>3. CreateInv
  BY DEF Init, CreateInv
<1> QED
  BY <1>1, <1>2, <1>3 DEF BInv

LEMMA DivideStep ==
  ASSUME LifeAssumption, BInv, Divide
  PROVE  BInv'
<1> USE DEF BInv
<1>1. PICK n \in Threads : n = k
  BY DEF TypeOK
<1>2. /\ Divided(n) /\ Covered(n) /\ main = "divide"
      /\ UNCHANGED <<foreground, grid, screen, thread, i, src, pending, handlerSet, resetHand>>
  BY <1>1 DEF Divide, LoopTo, DivideInv, workers, signals
<1>3. Divided(n + 1)'
  <2>1. /\ sum' = sum + BlockSize(n)
        /\ \A t \in Threads : /\ block_starts'[t] = IF t = n THEN sum ELSE block_starts[t]
                              /\ block_sizes'[t] = IF t = n THEN BlockSize(n) ELSE block_sizes[t]
    BY <1>1 DEF Divide, TypeOK
  <2>2. sum' = Start(n + 1)
    BY <1>2, <2>1, StartFacts DEF Divided
  <2>3. \A t \in Threads : t < n + 1 => block_starts'[t] = Start(t) /\ block_sizes'[t] = BlockSize(t)
    BY <1>2, <2>1 DEF Divided, Threads
  <2> QED
    BY <2>2, <2>3 DEF Divided
<1>4. Covered(n + 1)
  <2>1. SUFFICES ASSUME NEW c \in 0 .. Start(n + 1) - 1
                 PROVE  \E t \in Threads : t < n + 1 /\ Start(t) <= c /\ c < Start(t + 1)
    BY DEF Covered
  <2>2. Start(n) \in Nat /\ n \in Nat /\ c \in Int
    BY StartFacts DEF Threads
  <2>3. CASE c < Start(n)
    BY <1>2, <2>2, <2>3 DEF Covered, Threads
  <2>4. CASE c >= Start(n)
    BY <2>1, <2>2, <2>4, StartFacts DEF Threads
  <2> QED
    BY <2>2, <2>3, <2>4
<1>5. \/ main' = "divide" /\ k' = n + 1 /\ n + 1 \in Threads
      \/ main' = "create" /\ k' = 0 /\ n + 1 = thread_number
  BY <1>1, <1>2, DivisionFacts DEF Divide, LoopTo, Threads
<1>6. DivideInv'
  <2>1. CASE main' = "divide"
    BY <1>3, <1>4, <1>5, <2>1 DEF DivideInv, Divided, Covered
  <2>2. CASE main' = "create"
    BY <1>3, <1>4, <1>5, <2>2 DEF DivideInv, Divided, Covered
  <2> QED
    BY <1>5, <2>1, <2>2
<1>7. TypeOK'
  <2>1. Start(n) \in 0 .. cell_number /\ Start(n + 1) \in 0 .. cell_number
        /\ BlockSize(n) \in Nat /\ Start(n + 1) = Start(n) + BlockSize(n)
    BY StartFacts DEF Threads
  <2>2. sum' \in 0 .. cell_number /\ sum = Start(n) /\ BlockSize(n) \in 0 .. cell_number
    BY <1>2, <1>3, <2>1, DivisionFacts DEF Divided
  <2>3. /\ block_starts' \in [Threads -> 0 .. cell_number]
        /\ block_sizes' \in [Threads -> 0 .. cell_number]
    BY <1>1, <2>1, <2>2 DEF Divide, TypeOK
  <2>4. k' \in Threads
    BY <1>5, DivisionFacts DEF Threads
  <2> QED
    BY <1>2, <1>5, <2>2, <2>3, <2>4 DEF TypeOK
<1>8. CreateInv'
  <2>1. \A t \in Threads : t >= 0
    BY DEF Threads
  <2> QED
    BY <1>2, <1>5, <2>1 DEF CreateInv
<1> QED
  BY <1>6, <1>7, <1>8

\* No other step touches the blocks.
LEMMA DivisionKept ==
  ASSUME DivideInv, UNCHANGED blocks, main # "divide", main' # "divide"
  PROVE  DivideInv'
BY DEF DivideInv, Divided, Covered, blocks

LEMMA LoopType ==
  ASSUME LifeAssumption, TypeOK, NEW from, NEW to, LoopTo(from, to)
  PROVE  /\ k' \in Threads /\ main = from
         /\ \/ k + 1 < thread_number /\ k' = k + 1 /\ main' = from
            \/ k + 1 = thread_number /\ k' = 0 /\ main' = to
<1>1. main = from /\ k \in Threads
  BY DEF LoopTo, TypeOK
<1>2. \/ k + 1 < thread_number /\ k' = k + 1 /\ main' = from
      \/ k + 1 = thread_number /\ k' = 0 /\ main' = to
  BY <1>1, Zenon DEF LoopTo
<1>3. k' \in Threads
  BY <1>1, <1>2, DivisionFacts DEF Threads
<1> QED
  BY <1>1, <1>2, <1>3

LEMMA MainStepB ==
  ASSUME LifeAssumption, BInv, MainStep
  PROVE  BInv'
<1> USE DEF BInv
<1>1. CASE Divide
  BY <1>1, DivideStep
<1>2. CASE Create
  <2>1. LoopTo("create", "draw") /\ UNCHANGED blocks
        /\ UNCHANGED <<grid, foreground, screen, i, src, pending, handlerSet, resetHand>>
    BY <1>2 DEF Create, signals
  <2>2. PICK n \in Threads : n = k
    BY DEF TypeOK
  <2>3. thread' = [thread EXCEPT ![n] = "update"]
    BY <1>2, <2>2 DEF Create
  <2>4. \/ n + 1 < thread_number /\ k' = n + 1 /\ main' = "create"
        \/ n + 1 = thread_number /\ k' = 0 /\ main' = "draw"
    BY <2>1, <2>2, LoopType
  <2>5. TypeOK'
    BY <2>1, <2>3, <2>4, LoopType DEF TypeOK, blocks
  <2>6. DivideInv'
    BY <2>1, <2>4, LoopType, DivisionKept
  <2>7. \A t \in Threads : thread[t] = "none" <=> t >= n
    BY <2>1, <2>2, LoopType DEF CreateInv
  <2>8. CreateInv'
    <3>1. \A t \in Threads : thread'[t] = IF t = n THEN "update" ELSE thread[t]
      BY <2>3 DEF TypeOK
    <3>2. \A t \in Threads : thread'[t] = "none" <=> t >= n + 1
      BY <2>7, <3>1 DEF Threads
    <3>3. \A t \in Threads : ~pending'[t]
      BY <2>1, LoopType DEF CreateInv
    <3>4. CASE main' = "create"
      BY <2>4, <3>2, <3>3, <3>4 DEF CreateInv
    <3>5. CASE main' = "draw" /\ n + 1 = thread_number
      BY <3>2, <3>3, <3>5 DEF CreateInv, Threads
    <3> QED
      BY <2>4, <3>4, <3>5
  <2> QED
    BY <2>5, <2>6, <2>8
<1>3. CASE Draw \/ Awake \/ Swap
  <2>1. /\ UNCHANGED <<k, blocks, grid, thread, i, src, pending, handlerSet, resetHand>>
        /\ main \in {"draw", "sleep", "swap"} /\ main' \in {"draw", "sleep", "signal"}
        /\ foreground' \in {foreground, 1 - foreground}
        /\ screen' = screen \/ screen' = grid[foreground]
    BY <1>3 DEF Draw, Awake, Swap, OtherGrid, workers, signals
  <2>2. TypeOK'
    BY <2>1 DEF TypeOK, blocks
  <2>3. CreateInv'
    BY <2>1 DEF CreateInv
  <2> QED
    BY <2>1, <2>2, <2>3, DivisionKept
<1>4. CASE Signal
  <2>1. LoopTo("signal", "swap") /\ UNCHANGED blocks
        /\ UNCHANGED <<grid, foreground, screen, thread, i, src, handlerSet, resetHand>>
    BY <1>4 DEF Signal, workers
  <2>2. main = "signal" /\ main' \in {"signal", "swap"} /\ k' \in Threads
    BY <2>1, LoopType
  <2>3. pending' \in [Threads -> BOOLEAN]
    BY <1>4 DEF Signal, Signalled, TypeOK
  <2>4. TypeOK'
    BY <2>1, <2>2, <2>3 DEF TypeOK, blocks
  <2>5. CreateInv'
    BY <2>1, <2>2 DEF CreateInv
  <2> QED
    BY <2>1, <2>2, <2>4, <2>5, DivisionKept
<1> QED
  BY <1>1, <1>2, <1>3, <1>4 DEF MainStep

LEMMA RuleIsBoolean == \A row, col, g : is_alive(row, col, g) \in BOOLEAN
<1> TAKE row, col, g
<1>1. CASE g[row * Width + col]
  BY <1>1 DEF is_alive
<1>2. CASE ~g[row * Width + col]
  BY <1>2 DEF is_alive
<1> QED
  BY <1>1, <1>2

LEMMA ThreadStepB ==
  ASSUME LifeAssumption, BInv, NEW t \in Threads, ThreadStep(t)
  PROVE  BInv'
<1> USE DEF BInv
<1>1. CASE UpdateCell(t)
  <2>1. /\ UNCHANGED <<main, k, foreground, screen, blocks, thread, src, pending, handlerSet,
                       resetHand>>
        /\ thread[t] = "update" /\ i[t] < block_sizes[t] /\ i' = [i EXCEPT ![t] = @ + 1]
    BY <1>1 DEF UpdateCell, mainv, signals
  <2>2. PICK c, b : b \in BOOLEAN /\ grid' = [grid EXCEPT ![1 - src[t]][c] = b]
    BY <1>1, RuleIsBoolean DEF UpdateCell
  <2>3. grid' \in [{0, 1} -> [Cells -> BOOLEAN]]
    <3>1. PICK d \in {0, 1} : d = 1 - src[t]
      BY DEF TypeOK
    <3>2. grid' = [grid EXCEPT ![d] = [grid[d] EXCEPT ![c] = b]]
      BY <2>2, <3>1
    <3>3. grid \in [{0, 1} -> [Cells -> BOOLEAN]]
      BY DEF TypeOK
    <3>4. [grid[d] EXCEPT ![c] = b] \in [Cells -> BOOLEAN]
      BY <2>2, <3>3
    <3> QED
      BY <3>2, <3>3, <3>4
  <2>4. i' \in [Threads -> 0 .. cell_number]
    BY <2>1, DivisionFacts DEF TypeOK
  <2>5. TypeOK'
    BY <2>1, <2>3, <2>4 DEF TypeOK, blocks
  <2>6. CreateInv' /\ main # "divide"
    BY <2>1 DEF CreateInv
  <2> QED
    BY <2>1, <2>5, <2>6, DivisionKept
<1>2. CASE Pause(t)
  <2>1. /\ UNCHANGED <<main, k, foreground, screen, blocks, grid, i, src, pending, handlerSet,
                       resetHand>>
        /\ thread[t] = "update" /\ thread' = [thread EXCEPT ![t] = "pause"]
    BY <1>2 DEF Pause, mainv, signals
  <2>2. TypeOK'
    BY <2>1 DEF TypeOK, blocks
  <2>3. CreateInv' /\ main # "divide"
    BY <2>1 DEF CreateInv, TypeOK
  <2> QED
    BY <2>1, <2>2, <2>3, DivisionKept
<1>3. CASE Deliver(t)
  <2>1. /\ UNCHANGED <<main, k, foreground, screen, blocks, grid, resetHand>>
        /\ pending[t] /\ pending' = [pending EXCEPT ![t] = FALSE] /\ handlerSet' = ~resetHand
        /\ thread[t] # "none"
    BY <1>3 DEF Deliver, mainv
  <2>2. \/ thread' = [thread EXCEPT ![t] = "update"] /\ src' = [src EXCEPT ![t] = 1 - @]
           /\ i' = [i EXCEPT ![t] = 0]
        \/ UNCHANGED <<thread, i, src>>
    BY <1>3 DEF Deliver, workers
  <2>3. TypeOK'
    <3>1. CASE UNCHANGED <<thread, i, src>>
      BY <2>1, <3>1 DEF TypeOK, blocks
    <3>2. CASE /\ thread' = [thread EXCEPT ![t] = "update"] /\ src' = [src EXCEPT ![t] = 1 - @]
               /\ i' = [i EXCEPT ![t] = 0]
      <4>1. src' \in [Threads -> {0, 1}]
        BY <3>2 DEF TypeOK
      <4>2. i' \in [Threads -> 0 .. cell_number] /\ thread' \in [Threads -> {"none", "update", "pause", "dead"}]
        BY <3>2, DivisionFacts DEF TypeOK
      <4> QED
        BY <2>1, <4>1, <4>2 DEF TypeOK, blocks
    <3> QED
      BY <2>2, <3>1, <3>2
  <2>4. main \notin {"divide", "create"}
    BY <2>1 DEF CreateInv
  <2>5. CreateInv'
    BY <2>1, <2>2, <2>4 DEF CreateInv, TypeOK
  <2> QED
    BY <2>1, <2>3, <2>4, <2>5, DivisionKept
<1>4. CASE Die(t)
  <2>1. /\ UNCHANGED <<k, foreground, screen, blocks, grid, i, src, pending, handlerSet, resetHand>>
        /\ pending[t] /\ main' = "dead" /\ thread' = [u \in Threads |-> "dead"]
    BY <1>4 DEF Die, signals
  <2>2. main # "divide"
    BY <2>1 DEF CreateInv
  <2>3. TypeOK' /\ CreateInv'
    BY <2>1 DEF TypeOK, CreateInv, blocks
  <2> QED
    BY <2>1, <2>2, <2>3, DivisionKept
<1> QED
  BY <1>1, <1>2, <1>3, <1>4 DEF ThreadStep

LEMMA StepB ==
  ASSUME LifeAssumption, BInv, [Next]_vars
  PROVE  BInv'
<1>1. CASE MainStep
  BY <1>1, MainStepB
<1>2. ASSUME NEW t \in Threads, ThreadStep(t)
      PROVE  BInv'
  BY <1>2, ThreadStepB
<1>3. CASE UNCHANGED vars
  BY <1>3 DEF BInv, TypeOK, DivideInv, Divided, Covered, CreateInv,
              vars, mainv, blocks, workers, signals
<1> QED
  BY <1>1, <1>2, <1>3 DEF Next

\* The invariant of the division, for any sleep of main.
THEOREM Inductive == LifeAssumption => (Spec => []BInv)
<1>1. ASSUME LifeAssumption, Init
      PROVE  BInv
  BY <1>1, InitB
<1>2. ASSUME LifeAssumption, BInv, [Next]_vars
      PROVE  BInv'
  BY <1>2, StepB
<1> QED
  BY <1>1, <1>2, LifeAssumption, PTL DEF Spec

\* Every variable keeps its type: no thread reads or writes outside the arrays.
THEOREM TypeCorrect == LifeAssumption => (Spec => []TypeOK)
<1>1. BInv => TypeOK
  BY DEF BInv
<1> QED
  BY <1>1, Inductive, PTL

\* Every cell is in exactly one block, for every size of the board and every number of
\* threads up to its cells.
THEOREM Partition == LifeAssumption => (Spec => []BlocksPartition)
<1>1. ASSUME LifeAssumption, BInv
      PROVE  BlocksPartition
  <2>1. SUFFICES ASSUME main # "divide"
                 PROVE  /\ Cells = UNION {Block(t) : t \in Threads}
                        /\ \A t, u \in Threads : t # u => Block(t) \intersect Block(u) = {}
    BY DEF BlocksPartition
  <2>2. Divided(thread_number) /\ Covered(thread_number)
    BY <1>1, <2>1 DEF BInv, DivideInv
  <2>3. \A t \in Threads : /\ Block(t) = Start(t) .. Start(t + 1) - 1
                           /\ Start(t) \in 0 .. cell_number /\ Start(t + 1) \in 0 .. cell_number
    <3>1. TAKE t \in Threads
    <3>2. block_starts[t] = Start(t) /\ block_sizes[t] = BlockSize(t)
      BY <1>1, <2>2, DivisionFacts DEF Divided, Threads
    <3>3. Start(t) \in 0 .. cell_number /\ Start(t + 1) \in 0 .. cell_number
          /\ Start(t + 1) = Start(t) + BlockSize(t)
      BY <1>1, StartFacts DEF Threads
    <3>4. Block(t) = Start(t) .. Start(t) + BlockSize(t) - 1
      BY <3>2, Zenon DEF Block
    <3>5. BlockSize(t) \in Nat
      BY <1>1, StartFacts
    <3> QED
      BY <3>3, <3>4, <3>5
  <2>4. \A t \in Threads : Block(t) \subseteq Cells
    BY <1>1, <2>3, DivisionFacts DEF Cells
  <2>5. \A c \in Cells : \E t \in Threads : c \in Block(t)
    <3>1. TAKE c \in Cells
    <3>2. PICK t \in Threads : Start(t) <= c /\ c < Start(t + 1)
      BY <1>1, <2>2, StartFacts DEF Covered, Cells
    <3> QED
      BY <1>1, <2>3, <3>2, DivisionFacts DEF Cells
  <2>6. ASSUME NEW t \in Threads, NEW u \in Threads, t < u
        PROVE  Block(t) \intersect Block(u) = {}
    <3>1. Start(t + 1) <= Start(u)
      BY <1>1, <2>6, StartFacts DEF Threads
    <3> QED
      BY <2>3, <3>1
  <2>7. \A t, u \in Threads : t < u \/ u < t \/ t = u
    BY DEF Threads
  <2>8. \A t, u \in Threads : t # u => Block(t) \intersect Block(u) = {}
    BY <2>6, <2>7
  <2> QED
    BY <2>4, <2>5, <2>8
<1> QED
  BY <1>1, LifeAssumption, Inductive, PTL

\* No thread has two cells more than another.
THEOREM Balanced == LifeAssumption => (Spec => []BlocksBalanced)
<1>1. ASSUME LifeAssumption, BInv
      PROVE  BlocksBalanced
  <2>1. SUFFICES ASSUME main # "divide", NEW t \in Threads, NEW u \in Threads
                 PROVE  block_sizes[t] <= block_sizes[u] + 1
    BY DEF BlocksBalanced
  <2>2. block_sizes[t] = BlockSize(t) /\ block_sizes[u] = BlockSize(u)
    BY <1>1, <2>1, DivisionFacts DEF BInv, DivideInv, Divided, Threads
  <2> QED
    BY <1>1, <2>2, DivisionFacts DEF BlockSize
<1> QED
  BY <1>1, LifeAssumption, Inductive, PTL

\* The division is a partition into blocks of like size, for every board.
THEOREM FairDivision == LifeAssumption => (Spec => []FairBlocks)
<1> QED
  BY Partition, Balanced, PTL DEF FairBlocks
-----------------------------------------------------------------------------
(* The rounds, when main's sleep is long enough.  Every thread either works  *)
(* from the array main shows and writes the other one, or still waits for a  *)
(* signal that has been sent.                                                *)
Generation(g) == [c \in Cells |-> Board!Alive(g, c)]

\* What thread t has written of its block so far is the next generation.
Progress(t) ==
  \A c \in Cells : block_starts[t] <= c /\ c < block_starts[t] + i[t] =>
    grid[1 - src[t]][c] = Board!Alive(grid[src[t]], c)

\* Thread t reads array a and is not signalled; once it pauses its block is done.
Works(t, a) ==
  /\ thread[t] \in {"update", "pause"} /\ ~pending[t] /\ src[t] = a
  /\ thread[t] = "pause" => i[t] >= block_sizes[t]
  /\ Progress(t)

\* Thread t has read array a, pauses and is signalled.
Waits(t, a) == thread[t] = "pause" /\ pending[t] /\ src[t] = a

\* Thread t is not created yet.
Unborn(t) == thread[t] = "none" /\ ~pending[t] /\ src[t] = 0 /\ i[t] = 0

\* What thread t does while main shows array a.
ThreadInv(t, a) ==
  /\ main \in {"divide", "create"} => Unborn(t) \/ Works(t, a)
  /\ main \in {"draw", "sleep"} => Works(t, a) \/ Waits(t, 1 - a)
  /\ main \in {"signal", "swap"} =>
       IF main = "signal" /\ t >= k
       THEN thread[t] = "pause" /\ ~pending[t] /\ src[t] = a
       ELSE Works(t, 1 - a) \/ Waits(t, a)
  /\ main = "dead" => thread[t] = "dead"

MainInv(a) ==
  /\ foreground = a
  /\ main \notin {"divide", "create", "signal", "dead"} => k = 0
  /\ main \in {"divide", "create"} => a = 0 /\ screen = grid[0]
  /\ main = "draw" => grid[a] = screen \/ grid[a] = Generation(screen)
  /\ main = "sleep" => grid[a] = screen
  /\ main \in {"signal", "swap"} => grid[1 - a] = Generation(screen)

RoundInv == \E a \in {0, 1} : MainInv(a) /\ \A t \in Threads : ThreadInv(t, a)

LEMMA InitRound ==
  ASSUME LifeAssumption, Init
  PROVE  RoundInv
<1>1. MainInv(0)
  BY DEF Init, MainInv
<1>2. \A t \in Threads : ThreadInv(t, 0)
  BY DEF Init, ThreadInv, Unborn
<1> QED
  BY <1>1, <1>2 DEF RoundInv

\* A thread nobody touches goes on as it did.
LEMMA Untouched ==
  ASSUME NEW t \in Threads, NEW a, UNCHANGED <<blocks, grid>>,
         thread'[t] = thread[t], i'[t] = i[t], src'[t] = src[t], pending'[t] = pending[t]
  PROVE  /\ Works(t, a)' = Works(t, a) /\ Waits(t, a)' = Waits(t, a)
         /\ Unborn(t)' = Unborn(t)
BY DEF Works, Waits, Unborn, Progress, blocks

\* A turn of a thread's loop leaves the array it reads alone, and what all threads that
\* read it write agrees, whoever writes a cell.
LEMMA UpdateWorks ==
  ASSUME LifeAssumption, TypeOK, NEW t \in Threads, NEW a \in {0, 1}, UpdateCell(t), src[t] = a
  PROVE  /\ grid'[a] = grid[a]
         /\ \A u \in Threads : \A b : /\ Works(u, a) => Works(u, a)'
                                      /\ Waits(u, b) => Waits(u, b)'
                                      /\ Unborn(u) => Unborn(u)'
<1> DEFINE cur == block_starts[t] + i[t]
           new == is_alive(cur \div Width, cur % Width, grid[a])
<1>1. /\ UNCHANGED <<mainv, blocks, thread, src, pending>>
      /\ thread[t] = "update" /\ i' = [i EXCEPT ![t] = @ + 1]
      /\ grid' = [grid EXCEPT ![1 - a][cur] = new]
  BY DEF UpdateCell, signals
<1>2. /\ grid[a] \in [Cells -> BOOLEAN] /\ grid[1 - a] \in [Cells -> BOOLEAN]
      /\ grid \in [{0, 1} -> [Cells -> BOOLEAN]] /\ 1 - a \in {0, 1} /\ 1 - a # a
  BY DEF TypeOK
<1>3. \A c \in Cells : c = cur => new = Board!Alive(grid[a], c)
  BY <1>2, RuleIsLife
<1> HIDE DEF new
<1>4. grid'[a] = grid[a]
  BY <1>1, <1>2
<1>5. \A c \in Cells : grid'[1 - a][c] = IF c = cur THEN Board!Alive(grid[a], c) ELSE grid[1 - a][c]
  BY <1>1, <1>2, <1>3
<1>6. \A u \in Threads : \A b : /\ Waits(u, b) => Waits(u, b)'
                                /\ Unborn(u) => Unborn(u)'
  BY <1>1 DEF Waits, Unborn, TypeOK
<1>7. ASSUME NEW u \in Threads, Works(u, a)
      PROVE  Works(u, a)'
  <2>1. \A c \in Cells : block_starts[u] <= c /\ c < block_starts[u] + i[u] =>
          grid[1 - a][c] = Board!Alive(grid[a], c)
    BY <1>7 DEF Works, Progress
  <2>2. i'[u] = IF u = t THEN i[u] + 1 ELSE i[u]
    BY <1>1 DEF TypeOK
  <2>3. block_starts[u] \in Nat /\ i[u] \in Nat /\ block_sizes[u] \in Nat
    BY DivisionFacts DEF TypeOK
  <2>4. \A c \in Cells : block_starts[u] <= c /\ c < block_starts[u] + i'[u] =>
          grid'[1 - a][c] = Board!Alive(grid[a], c)
    <3>1. TAKE c \in Cells
    <3>2. c \in Int
      BY DivisionFacts DEF Cells
    <3>3. c < block_starts[u] + i'[u] => c < block_starts[u] + i[u] \/ c = cur
      BY <2>2, <2>3, <3>2
    <3> QED
      BY <1>5, <2>1, <3>3
  <2>5. src'[u] = a
    BY <1>1, <1>7 DEF Works
  <2>6. Progress(u)'
    BY <1>1, <1>4, <2>4, <2>5 DEF Progress, blocks
  <2>7. thread'[u] = "pause" => i'[u] >= block_sizes'[u]
    BY <1>1, <1>7, <2>2, <2>3 DEF Works, blocks
  <2> QED
    BY <1>1, <1>7, <2>5, <2>6, <2>7 DEF Works
<1> QED
  BY <1>4, <1>6, <1>7

\* The array a thread that is updating reads, in a round in which main shows array a.
LEMMA Reading ==
  ASSUME RoundInv, BInv, NEW t \in Threads, thread[t] = "update"
  PROVE  \E a \in {0, 1} : /\ MainInv(a) /\ \A u \in Threads : ThreadInv(u, a)
                           /\ \/ main \in {"create", "draw", "sleep"} /\ Works(t, a)
                              \/ main \in {"signal", "swap"} /\ Works(t, 1 - a)
<1>1. PICK a \in {0, 1} : MainInv(a) /\ \A u \in Threads : ThreadInv(u, a)
  BY DEF RoundInv
<1>2. ThreadInv(t, a) /\ ~Unborn(t) /\ ~Waits(t, a) /\ ~Waits(t, 1 - a)
  BY <1>1 DEF Unborn, Waits
<1>3. main \in {"create", "draw", "sleep", "signal", "swap", "dead"}
  BY DEF BInv, TypeOK, CreateInv
<1> QED
  BY <1>1, <1>2, <1>3 DEF ThreadInv

LEMMA UpdateRound ==
  ASSUME LifeAssumption, BInv, RoundInv, NEW t \in Threads, UpdateCell(t)
  PROVE  RoundInv'
<1>1. PICK a \in {0, 1} : /\ MainInv(a) /\ \A u \in Threads : ThreadInv(u, a)
                          /\ \/ main \in {"create", "draw", "sleep"} /\ Works(t, a)
                             \/ main \in {"signal", "swap"} /\ Works(t, 1 - a)
  BY Reading DEF UpdateCell
<1>2. UNCHANGED <<main, k, foreground, screen, thread, src, pending>> /\ TypeOK
  BY DEF UpdateCell, mainv, signals, BInv
<1>3. 1 - a \in {0, 1} /\ 1 - (1 - a) = a
  OBVIOUS
<1>4. CASE main \in {"create", "draw", "sleep"} /\ Works(t, a)
  <2>1. src[t] = a
    BY <1>4 DEF Works
  <2>2. /\ grid'[a] = grid[a]
        /\ \A u \in Threads : /\ Works(u, a) => Works(u, a)'
                              /\ Waits(u, 1 - a) => Waits(u, 1 - a)'
                              /\ Unborn(u) => Unborn(u)'
    BY <1>2, <2>1, UpdateWorks
  <2>3. MainInv(a)'
    BY <1>1, <1>2, <1>4, <2>2 DEF MainInv
  <2>4. \A u \in Threads : ThreadInv(u, a)'
    BY <1>1, <1>2, <1>4, <2>2 DEF ThreadInv
  <2> QED
    BY <2>3, <2>4 DEF RoundInv
<1>5. CASE main \in {"signal", "swap"} /\ Works(t, 1 - a)
  <2>1. src[t] = 1 - a
    BY <1>5 DEF Works
  <2>2. /\ grid'[1 - a] = grid[1 - a]
        /\ \A u \in Threads : /\ Works(u, 1 - a) => Works(u, 1 - a)'
                              /\ Waits(u, a) => Waits(u, a)'
    BY <1>2, <1>3, <2>1, UpdateWorks
  <2>3. MainInv(a)'
    BY <1>1, <1>2, <1>5, <2>2 DEF MainInv
  <2>4. \A u \in Threads : ThreadInv(u, a)'
    BY <1>1, <1>2, <1>5, <2>2 DEF ThreadInv
  <2> QED
    BY <2>3, <2>4 DEF RoundInv
<1> QED
  BY <1>1, <1>4, <1>5

LEMMA PauseRound ==
  ASSUME LifeAssumption, BInv, RoundInv, NEW t \in Threads, Pause(t)
  PROVE  RoundInv'
<1>1. PICK a \in {0, 1} : /\ MainInv(a) /\ \A u \in Threads : ThreadInv(u, a)
                          /\ \/ main \in {"create", "draw", "sleep"} /\ Works(t, a)
                             \/ main \in {"signal", "swap"} /\ Works(t, 1 - a)
  BY Reading DEF Pause
<1>2. /\ UNCHANGED <<main, k, foreground, screen, blocks, grid, i, src, pending>>
      /\ i[t] >= block_sizes[t] /\ thread'[t] = "pause"
      /\ \A u \in Threads \ {t} : thread'[u] = thread[u]
  BY DEF Pause, mainv, signals, BInv, TypeOK
<1>3. \A b : Works(t, b) => Works(t, b)'
  BY <1>2 DEF Works, Progress, blocks
<1>4. \A u \in Threads \ {t} : \A b : /\ Works(u, b)' = Works(u, b) /\ Waits(u, b)' = Waits(u, b)
                                      /\ Unborn(u)' = Unborn(u)
  BY <1>2, Untouched
<1>5. MainInv(a)'
  BY <1>1, <1>2 DEF MainInv
<1>6. ASSUME NEW u \in Threads \ {t}
      PROVE  ThreadInv(u, a)'
  BY <1>1, <1>2, <1>4 DEF ThreadInv
<1>7. ThreadInv(t, a)'
  <2>1. ThreadInv(t, a)
    BY <1>1
  <2>2. CASE main = "signal" /\ t >= k
    BY <1>2, <2>1, <2>2 DEF ThreadInv
  <2>3. CASE ~(main = "signal" /\ t >= k)
    BY <1>1, <1>2, <1>3, <2>3 DEF ThreadInv
  <2> QED
    BY <2>2, <2>3
<1> QED
  BY <1>5, <1>6, <1>7 DEF RoundInv

LEMMA DeliverRound ==
  ASSUME LifeAssumption, BInv, RoundInv, NEW t \in Threads, Deliver(t)
  PROVE  RoundInv'
<1>1. PICK a \in {0, 1} : MainInv(a) /\ \A u \in Threads : ThreadInv(u, a)
  BY DEF RoundInv
<1>2. /\ UNCHANGED <<main, k, foreground, screen, blocks, grid>>
      /\ pending[t] /\ thread[t] \in {"update", "pause"}
      /\ pending' = [pending EXCEPT ![t] = FALSE]
      /\ \/ /\ thread[t] = "pause" /\ thread' = [thread EXCEPT ![t] = "update"]
            /\ src' = [src EXCEPT ![t] = 1 - @] /\ i' = [i EXCEPT ![t] = 0]
         \/ thread[t] # "pause"
  BY DEF Deliver, mainv
<1>3. ThreadInv(t, a) /\ ~Unborn(t) /\ ~Works(t, a) /\ ~Works(t, 1 - a)
  BY <1>1, <1>2 DEF Unborn, Works
<1>4. \/ main \in {"draw", "sleep"} /\ Waits(t, 1 - a)
      \/ main \in {"signal", "swap"} /\ ~(main = "signal" /\ t >= k) /\ Waits(t, a)
  <2>1. main \in {"draw", "sleep", "signal", "swap"}
    BY <1>2, <1>3 DEF ThreadInv, BInv, TypeOK, CreateInv
  <2> QED
    BY <1>2, <1>3, <2>1 DEF ThreadInv
<1>5. /\ thread' = [thread EXCEPT ![t] = "update"]
      /\ src' = [src EXCEPT ![t] = 1 - @] /\ i' = [i EXCEPT ![t] = 0]
  BY <1>2, <1>4 DEF Waits
<1>6. ASSUME NEW b \in {0, 1}, Waits(t, b)
      PROVE  Works(t, 1 - b)'
  <2>1. /\ thread'[t] = "update" /\ ~pending'[t] /\ src'[t] = 1 - b /\ i'[t] = 0
        /\ block_starts'[t] \in Nat
    BY <1>2, <1>5, <1>6, DivisionFacts DEF Waits, BInv, TypeOK, blocks
  <2>2. \A c \in Cells : ~(block_starts'[t] <= c /\ c < block_starts'[t] + i'[t])
    BY <2>1, DivisionFacts DEF Cells
  <2> QED
    BY <2>1, <2>2 DEF Works, Progress
<1>7. \A u \in Threads \ {t} : /\ thread'[u] = thread[u] /\ src'[u] = src[u] /\ i'[u] = i[u]
                               /\ pending'[u] = pending[u]
  BY <1>2, <1>5 DEF BInv, TypeOK
<1>8. \A u \in Threads \ {t} : \A b : /\ Works(u, b)' = Works(u, b) /\ Waits(u, b)' = Waits(u, b)
                                      /\ Unborn(u)' = Unborn(u)
  BY <1>2, <1>7, Untouched
<1>9. MainInv(a)'
  BY <1>1, <1>2 DEF MainInv
<1>10. ASSUME NEW u \in Threads \ {t}
       PROVE  ThreadInv(u, a)'
  BY <1>1, <1>2, <1>7, <1>8 DEF ThreadInv
<1>11. ThreadInv(t, a)'
  <2>1. 1 - a \in {0, 1} /\ 1 - (1 - a) = a
    OBVIOUS
  <2>2. CASE main \in {"draw", "sleep"} /\ Waits(t, 1 - a)
    <3>1. Works(t, a)'
      BY <1>6, <2>1, <2>2
    <3> QED
      BY <1>2, <2>2, <3>1 DEF ThreadInv
  <2>3. CASE main \in {"signal", "swap"} /\ ~(main = "signal" /\ t >= k) /\ Waits(t, a)
    <3>1. Works(t, 1 - a)'
      BY <1>6, <2>3
    <3> QED
      BY <1>2, <2>3, <3>1 DEF ThreadInv
  <2> QED
    BY <1>4, <2>2, <2>3
<1> QED
  BY <1>9, <1>10, <1>11 DEF RoundInv

\* When all threads pause again, the other array holds the next generation.
LEMMA AllDone ==
  ASSUME LifeAssumption, BInv, main = "sleep", NEW a \in {0, 1},
         \A t \in Threads : Works(t, a) /\ thread[t] = "pause"
  PROVE  grid[1 - a] = Generation(grid[a])
<1>1. ASSUME NEW c \in Cells
      PROVE  grid[1 - a][c] = Board!Alive(grid[a], c)
  <2>1. c \in 0 .. Start(thread_number) - 1
    BY StartFacts DEF Cells
  <2>2. PICK t \in Threads : Start(t) <= c /\ c < Start(t + 1)
    BY <2>1 DEF BInv, DivideInv, Covered
  <2>3. block_starts[t] = Start(t) /\ block_sizes[t] = BlockSize(t)
    BY DivisionFacts DEF BInv, DivideInv, Divided, Threads
  <2>4. Start(t) \in Nat /\ BlockSize(t) \in Nat /\ Start(t + 1) = Start(t) + BlockSize(t) /\ c \in Nat
    BY <2>1, StartFacts, DivisionFacts DEF Threads
  <2>5. Works(t, a) /\ i[t] >= block_sizes[t] /\ i[t] \in Nat
    BY DivisionFacts DEF Works, BInv, TypeOK
  <2>6. block_starts[t] <= c /\ c < block_starts[t] + i[t]
    BY <2>2, <2>3, <2>4, <2>5
  <2> QED
    BY <2>5, <2>6 DEF Works, Progress
<1>2. grid[1 - a] \in [Cells -> BOOLEAN]
  BY DEF BInv, TypeOK
<1> QED
  BY <1>1, <1>2 DEF Generation

LEMMA SetUpRound ==
  ASSUME LifeAssumption, BInv, BInv', RoundInv, Divide \/ Create
  PROVE  RoundInv'
<1>1. PICK a \in {0, 1} : MainInv(a) /\ \A u \in Threads : ThreadInv(u, a)
  BY DEF RoundInv
<1>2. CASE Divide
  <2>1. /\ UNCHANGED <<foreground, grid, screen, thread, i, src, pending>> /\ main = "divide"
        /\ \/ main' = "divide"
           \/ main' = "create" /\ k' = 0
    BY <1>2 DEF Divide, LoopTo, workers, signals
  <2>2. \A u \in Threads : Unborn(u)
    BY <1>1, <2>1 DEF BInv, CreateInv, ThreadInv, Works
  <2>3. \A u \in Threads : Unborn(u)'
    BY <2>1, <2>2 DEF Unborn
  <2> QED
    BY <1>1, <2>1, <2>3 DEF RoundInv, MainInv, ThreadInv
<1>3. CASE Create
  <2>1. /\ UNCHANGED <<blocks, foreground, grid, screen, i, src, pending>> /\ main = "create"
        /\ \/ main' = "create"
           \/ main' = "draw" /\ k' = 0
        /\ thread' = [thread EXCEPT ![k] = "update"]
    BY <1>3 DEF Create, LoopTo, signals
  <2>2. PICK n \in Threads : n = k
    BY DEF BInv, TypeOK
  <2>3. Unborn(n) /\ a = 0
    BY <1>1, <2>1, <2>2 DEF BInv, CreateInv, ThreadInv, Works, MainInv, Threads
  <2>4. \A u \in Threads : thread'[u] = IF u = n THEN "update" ELSE thread[u]
    BY <2>1, <2>2 DEF BInv, TypeOK
  <2>5. Works(n, a)'
    <3>1. /\ thread'[n] = "update" /\ ~pending'[n] /\ src'[n] = a /\ i'[n] = 0
          /\ block_starts'[n] \in Nat
      BY <2>1, <2>3, <2>4, DivisionFacts DEF Unborn, BInv, TypeOK, blocks
    <3>2. \A c \in Cells : ~(block_starts'[n] <= c /\ c < block_starts'[n] + i'[n])
      BY <3>1, DivisionFacts DEF Cells
    <3> QED
      BY <3>1, <3>2 DEF Works, Progress
  <2>6. \A u \in Threads \ {n} : Works(u, a)' = Works(u, a) /\ Unborn(u)' = Unborn(u)
    BY <2>1, <2>4, Untouched
  <2>7. \A u \in Threads : Unborn(u)' \/ Works(u, a)'
    BY <1>1, <2>1, <2>5, <2>6 DEF ThreadInv
  <2>8. main' = "draw" => \A u \in Threads : ~Unborn(u)'
    BY DEF BInv, CreateInv, Unborn
  <2>9. \A u \in Threads : ThreadInv(u, a)'
    BY <2>1, <2>7, <2>8 DEF ThreadInv
  <2>10. MainInv(a)'
    BY <1>1, <2>1 DEF MainInv
  <2> QED
    BY <2>9, <2>10 DEF RoundInv
<1> QED
  BY <1>2, <1>3

LEMMA MainRound ==
  ASSUME LifeAssumption, Timely, BInv, BInv', RoundInv, MainStep
  PROVE  RoundInv'
<1>1. PICK a \in {0, 1} : MainInv(a) /\ \A u \in Threads : ThreadInv(u, a)
  BY DEF RoundInv
<1>2. CASE Draw
  <2>1. /\ UNCHANGED <<k, blocks, grid, foreground, thread, i, src, pending>>
        /\ main = "draw" /\ main' = "sleep" /\ screen' = grid[a]
    BY <1>1, <1>2 DEF Draw, MainInv, workers, signals
  <2>2. \A u \in Threads : \A b : Works(u, b)' = Works(u, b) /\ Waits(u, b)' = Waits(u, b)
    BY <2>1, Untouched
  <2>3. MainInv(a)'
    BY <1>1, <2>1 DEF MainInv
  <2>4. \A u \in Threads : ThreadInv(u, a)'
    BY <1>1, <2>1, <2>2 DEF ThreadInv
  <2> QED
    BY <2>3, <2>4 DEF RoundInv
<1>3. CASE Awake
  <2>1. /\ UNCHANGED <<k, blocks, grid, foreground, screen, thread, i, src, pending>>
        /\ main = "sleep" /\ main' = "signal" /\ \A u \in Threads : Paused(u)
    BY <1>3 DEF Awake, workers, signals
  <2>2. \A u \in Threads : Works(u, a) /\ thread[u] = "pause"
    BY <1>1, <2>1 DEF ThreadInv, Waits, Paused
  <2>3. grid[1 - a] = Generation(screen) /\ k = 0
    BY <1>1, <2>1, <2>2, AllDone DEF MainInv
  <2>4. MainInv(a)'
    BY <1>1, <2>1, <2>3 DEF MainInv, Generation
  <2>5. \A u \in Threads : u >= 0
    BY DEF Threads
  <2>6. \A u \in Threads : ThreadInv(u, a)'
    BY <2>1, <2>2, <2>3, <2>5 DEF ThreadInv, Works
  <2> QED
    BY <2>4, <2>6 DEF RoundInv
<1>4. CASE Signal
  <2>1. LoopTo("signal", "swap") /\ BInv /\ TypeOK
        /\ UNCHANGED <<blocks, grid, foreground, screen, thread, i, src>>
    BY <1>4 DEF Signal, workers, BInv
  <2>2. PICK n \in Threads : n = k
    BY <2>1 DEF TypeOK
  <2>3. /\ main = "signal"
        /\ \/ main' = "signal" /\ k' = n + 1
           \/ main' = "swap" /\ k' = 0 /\ n + 1 = thread_number
    BY <2>1, <2>2, LoopType
  <2>4. \A u \in Threads : pending'[u] = IF u = n THEN TRUE ELSE pending[u]
    BY <1>4, <2>1, <2>2 DEF Signal, Signalled, TypeOK
  <2>5. Waits(n, a)'
    <3>1. n >= k
      BY <2>2 DEF Threads
    <3>2. thread[n] = "pause" /\ src[n] = a
      BY <1>1, <2>3, <3>1 DEF ThreadInv
    <3> QED
      BY <2>1, <2>4, <3>2 DEF Waits
  <2>6. \A u \in Threads \ {n} : \A b : Works(u, b)' = Works(u, b) /\ Waits(u, b)' = Waits(u, b)
    BY <2>1, <2>4, Untouched
  <2>7. ASSUME NEW u \in Threads
        PROVE  ThreadInv(u, a)'
    <3>1. CASE u = n
      <4>1. ~(main' = "signal" /\ n >= k')
        BY <2>3 DEF Threads
      <4> QED
        BY <2>3, <2>5, <3>1, <4>1 DEF ThreadInv
    <3>2. CASE u # n /\ u >= n
      <4>1. thread[u] = "pause" /\ ~pending[u] /\ src[u] = a
        BY <1>1, <2>2, <2>3, <3>2 DEF ThreadInv
      <4>2. main' = "signal" /\ u >= k'
        BY <2>3, <3>2 DEF Threads
      <4> QED
        BY <2>1, <2>4, <3>2, <4>1, <4>2 DEF ThreadInv
    <3>3. CASE u < n
      <4>1. Works(u, 1 - a) \/ Waits(u, a)
        BY <1>1, <2>2, <2>3, <3>3 DEF ThreadInv, Threads
      <4>2. ~(main' = "signal" /\ u >= k') /\ u # n
        BY <2>3, <3>3 DEF Threads
      <4> QED
        BY <2>3, <2>6, <4>1, <4>2 DEF ThreadInv
    <3>4. (u # n /\ u >= n) \/ u < n \/ u = n
      BY DEF Threads
    <3> QED
      BY <3>1, <3>2, <3>3, <3>4
  <2>8. MainInv(a)'
    BY <1>1, <2>1, <2>3 DEF MainInv
  <2> QED
    BY <2>7, <2>8 DEF RoundInv
<1>5. CASE Swap
  <2>1. /\ UNCHANGED <<k, blocks, grid, screen, thread, i, src, pending>>
        /\ main = "swap" /\ main' = "draw" /\ foreground' = 1 - a
    BY <1>1, <1>5 DEF Swap, OtherGrid, MainInv, workers, signals
  <2>2. \A u \in Threads : \A b : Works(u, b)' = Works(u, b) /\ Waits(u, b)' = Waits(u, b)
    BY <2>1, Untouched
  <2>3. 1 - a \in {0, 1} /\ 1 - (1 - a) = a
    OBVIOUS
  <2>4. MainInv(1 - a)'
    BY <1>1, <2>1, <2>3 DEF MainInv, Generation
  <2>5. \A u \in Threads : ThreadInv(u, 1 - a)'
    <3>1. TAKE u \in Threads
    <3>2. Works(u, 1 - a) \/ Waits(u, 1 - (1 - a))
      BY <1>1, <2>1, <2>3 DEF ThreadInv
    <3>3. Works(u, 1 - a)' \/ Waits(u, 1 - (1 - a))'
      BY <2>2, <3>2
    <3> QED
      BY <2>1, <3>3 DEF ThreadInv
  <2> QED
    BY <2>3, <2>4, <2>5 DEF RoundInv
<1> QED
  BY <1>2, <1>3, <1>4, <1>5, SetUpRound DEF MainStep

LEMMA RoundStep ==
  ASSUME LifeAssumption, Timely, BInv, BInv', RoundInv, [Next]_vars
  PROVE  RoundInv'
<1>1. ASSUME NEW t \in Threads, Die(t)
      PROVE  RoundInv'
  BY <1>1 DEF Die, RoundInv, MainInv, ThreadInv
<1>2. CASE UNCHANGED vars
  <2>1. UNCHANGED <<main, k, foreground, screen, blocks, grid, thread, i, src, pending>>
    BY <1>2 DEF vars, mainv, workers, signals
  <2>2. PICK a \in {0, 1} : MainInv(a) /\ \A u \in Threads : ThreadInv(u, a)
    BY DEF RoundInv
  <2>3. \A u \in Threads : \A b : /\ Works(u, b)' = Works(u, b) /\ Waits(u, b)' = Waits(u, b)
                                  /\ Unborn(u)' = Unborn(u)
    BY <2>1, Untouched
  <2> QED
    BY <2>1, <2>2, <2>3 DEF RoundInv, MainInv, ThreadInv
<1> QED
  BY <1>1, <1>2, MainRound, UpdateRound, PauseRound, DeliverRound DEF Next, ThreadStep

\* The invariant of the rounds, for any board and number of threads, when every thread
\* pauses again while main sleeps.
THEOREM Rounds == LifeAssumption /\ Timely => (Spec => [](BInv /\ RoundInv))
<1> SUFFICES ASSUME LifeAssumption, Timely
             PROVE  Spec => [](BInv /\ RoundInv)
  OBVIOUS
<1>1. Init => RoundInv
  BY InitRound
<1>2. BInv /\ BInv' /\ RoundInv /\ [Next]_vars => RoundInv'
  BY RoundStep
<1> QED
  BY <1>1, <1>2, Inductive, PTL DEF Spec

\* Threads and main swap their arrays equally often, though a signal may still be under
\* way when main draws.
THEOREM InStep == LifeAssumption /\ Timely => (Spec => []ThreadsInStep)
<1>1. RoundInv => ThreadsInStep
  BY DEF RoundInv, MainInv, ThreadInv, ThreadsInStep, Paused, Works, Waits
<1> QED
  BY <1>1, Rounds, PTL

\* No thread writes to the array main draws.
THEOREM DrawsAlone == LifeAssumption /\ Timely => (Spec => DrawnAlone)
<1>1. ASSUME LifeAssumption, BInv, RoundInv, [Next]_vars, main = "draw"
      PROVE  grid'[foreground] = grid[foreground]
  <2>1. ASSUME NEW t \in Threads, UpdateCell(t)
        PROVE  grid'[foreground] = grid[foreground]
    <3>1. PICK a \in {0, 1} : foreground = a /\ Works(t, a)
      BY <1>1, <2>1, Reading DEF MainInv, UpdateCell
    <3> QED
      BY <1>1, <2>1, <3>1, UpdateWorks DEF BInv, Works
  <2>2. CASE UNCHANGED grid
    BY <2>2
  <2>3. UNCHANGED grid \/ \E t \in Threads : UpdateCell(t)
    BY <1>1 DEF Next, MainStep, ThreadStep, Divide, Create, Draw, Awake, Signal, Swap, Pause,
                Deliver, Die, vars
  <2> QED
    BY <2>1, <2>2, <2>3
<1> QED
  BY <1>1, Rounds, LifeAssumption, PTL DEF Spec, DrawnAlone

\* The program plays the game of life: every picture is the generation after the one
\* before it, for any board, any first grid and any number of threads.
THEOREM Implements == LifeAssumption /\ Timely => (Spec => ShowsLife)
<1>1. ASSUME LifeAssumption, Init
      PROVE  Board!Init
  BY <1>1 DEF Init, Board!Init, Board!Cells, Cells, cell_number
<1>2. ASSUME LifeAssumption, BInv, RoundInv, [Next]_vars
      PROVE  [Board!Next]_screen
  <2>1. CASE Draw
    <3>1. screen' = screen \/ screen' = Generation(screen)
      BY <1>2, <2>1 DEF Draw, RoundInv, MainInv
    <3> QED
      BY <3>1 DEF Board!Next, Generation, Board!Cells, Cells, cell_number
  <2>2. CASE UNCHANGED screen
    BY <2>2
  <2>3. Draw \/ UNCHANGED screen
    BY <1>2 DEF Next, MainStep, ThreadStep, Divide, Create, Awake, Signal, Swap, UpdateCell,
                Pause, Deliver, Die, vars, mainv
  <2> QED
    BY <2>1, <2>2, <2>3
<1> QED
  BY <1>1, <1>2, Rounds, LifeAssumption, PTL DEF Spec, ShowsLife, Board!Spec
=============================================================================
