-------------------------- MODULE Exercises_proofs --------------------------
(***************************************************************************)
(* The small programs of the first lessons: ProcessTree,                   *)
(* SignalInheritance, BlockLibrary and FileTools.  For each: its inductive *)
(* invariant, one lemma for the steps of each operation, and the           *)
(* properties the runs check.                                              *)
(***************************************************************************)
EXTENDS ProcessTree, SignalInheritance, BlockLibrary, FileTools,
        FiniteSetTheorems, TLAPS

\* What a sequence holds.
Elements(s) == {s[k] : k \in 1 .. Len(s)}
-----------------------------------------------------------------------------
(* ProcessTree.  Every entry of a directory that was opened is left to one   *)
(* process or dealt with.  The directories opened are no variable: the       *)
(* invariant says that there is such a set.                                  *)

\* What process p has still to do in the directory it is in.
Left(p) == IF todo[p] = <<>> THEN {} ELSE Top(p)

TreeTypes ==
  /\ processes \in TreeProcesses
  /\ todo \in [TreeProcesses -> Seq(SUBSET ({Root} \union Below))]
  /\ checked \in [Files -> Nat]
  /\ \A p \in TreeProcesses : p > processes => todo[p] = <<>>

\* The directories in opened have been opened; every entry of theirs is left to some
\* process, and to one only, or dealt with.
Searched(opened) ==
  /\ opened \subseteq {Root} \union Subdirectories
  /\ opened \intersect skipped = {}
  /\ Root \in opened \union skipped \union Left(1)
  /\ \A e \in opened \ {Root} : Parent[e] \in opened
  /\ \A e \in skipped \ {Root} : e \in Below /\ Parent[e] \in opened
  /\ \A f \in Files : checked[f] # 0 => checked[f] = 1 /\ Parent[f] \in opened /\ f \notin skipped
  /\ \A e \in Below : Parent[e] \in opened =>
       \/ \E p \in TreeProcesses : e \in Left(p)
       \/ e \in skipped \union Hidden \union opened
       \/ e \in Files /\ checked[e] # 0

Disjoint(opened) ==
  /\ \A p \in TreeProcesses : Root \in Left(p) => p = 1 /\ opened = {} /\ skipped = {}
  /\ \A p \in TreeProcesses : \A e \in Left(p) \ {Root} :
       /\ Parent[e] \in opened /\ e \notin opened \union skipped
       /\ e \in Files => checked[e] = 0
  /\ \A p, q \in TreeProcesses : p # q => Left(p) \intersect Left(q) = {}

FoundInv ==
  /\ \A f \in found : f \in Starts \union PartOf /\ checked[f] # 0
  /\ \A f \in Starts : checked[f] # 0 => f \in found

TreeInv == /\ TreeTypes /\ FoundInv
           /\ \E opened \in SUBSET ({Root} \union Subdirectories) : Searched(opened) /\ Disjoint(opened)

\* An entry that is taken leaves the top of the stack, and the stack keeps its type.
LEMMA TakeLeft ==
  ASSUME TreeTypes, NEW p \in TreeProcesses, Active(p), NEW e
  PROVE  LET s == Without(todo[p], e) IN
         /\ s \in Seq(SUBSET ({Root} \union Below)) /\ s # <<>>
         /\ s[Len(s)] = Left(p) \ {e}
<1> DEFINE t == todo[p]
           n == Len(t)
           s == Without(t, e)
<1>1. t \in Seq(SUBSET ({Root} \union Below)) /\ t # <<>> /\ n \in 1 .. Len(t)
  BY DEF TreeTypes, Active
<1>2. s = [t EXCEPT ![n] = t[n] \ {e}]
  BY DEF Without
<1>3. t[n] \ {e} \in SUBSET ({Root} \union Below)
  BY <1>1
<1>4. Left(p) = t[n]
  BY DEF Left, Top, Active
<1> HIDE DEF t, n, s
<1>5. s \in Seq(SUBSET ({Root} \union Below)) /\ Len(s) = Len(t)
  BY <1>1, <1>2, <1>3
<1>6. s # <<>> /\ s[Len(s)] = t[n] \ {e}
  BY <1>1, <1>2, <1>3, <1>5 DEF n
<1> QED
  BY <1>4, <1>5, <1>6 DEF s, t

\* The entry that is taken is left to nobody else, and nobody's lot changes but p's.
LEMMA TakeStep ==
  ASSUME TreeTypes, NEW p \in TreeProcesses, Active(p), NEW e,
         todo' = [todo EXCEPT ![p] = Without(@, e)]
  PROVE  /\ todo' \in [TreeProcesses -> Seq(SUBSET ({Root} \union Below))]
         /\ \A q \in TreeProcesses : Left(q)' = IF q = p THEN Left(p) \ {e} ELSE Left(q)
         /\ \A q \in TreeProcesses : todo'[q] = <<>> <=> todo[q] = <<>>
<1> DEFINE s == Without(todo[p], e)
<1>1. s \in Seq(SUBSET ({Root} \union Below)) /\ s # <<>> /\ s[Len(s)] = Left(p) \ {e}
  BY TakeLeft
<1>2. todo' = [todo EXCEPT ![p] = s]
  OBVIOUS
<1>3. todo \in [TreeProcesses -> Seq(SUBSET ({Root} \union Below))] /\ todo[p] # <<>>
  BY DEF TreeTypes, Active
<1> HIDE DEF s
<1> QED
  BY <1>1, <1>2, <1>3 DEF Left, Top

\* At the start the root is left to the first process.
LEMMA TreeInitInv ==
  ASSUME TreeAssumption, TreeInit
  PROVE  TreeInv
<1>1. 1 \in TreeProcesses /\ Root \notin Below
  BY DEF TreeAssumption, TreeProcesses
<1>2. TreeTypes
  <2>1. <<{Root}>> \in Seq(SUBSET ({Root} \union Below)) /\ <<>> \in Seq(SUBSET ({Root} \union Below))
    OBVIOUS
  <2>2. \A p \in TreeProcesses : p > 1 => p # 1
    BY DEF TreeProcesses
  <2> QED
    BY <1>1, <2>1, <2>2 DEF TreeTypes, TreeInit
<1>3. FoundInv
  BY DEF TreeAssumption, FoundInv, TreeInit
<1>4. \A p \in TreeProcesses : Left(p) = IF p = 1 THEN {Root} ELSE {}
  BY <1>1 DEF Left, Top, TreeInit
<1>5. Searched({})
  BY <1>1, <1>4 DEF Searched, TreeInit
<1>6. Disjoint({})
  BY <1>4 DEF Disjoint, TreeInit
<1> QED
  BY <1>2, <1>3, <1>5, <1>6 DEF TreeInv

\* The root is opened or skipped; its entries are left to the first process.
LEMMA RootStep ==
  ASSUME TreeAssumption, TreeInv, ProcessRoot
  PROVE  TreeInv'
<1>1. PICK opened \in SUBSET ({Root} \union Subdirectories) : Searched(opened) /\ Disjoint(opened)
  BY DEF TreeInv
<1>2. 1 \in TreeProcesses /\ Root \notin Below /\ Root \in Left(1) /\ Left(1) = {Root}
  BY DEF TreeAssumption, TreeProcesses, ProcessRoot, Left, Top
<1>3. opened = {} /\ skipped = {}
  BY <1>1, <1>2 DEF Disjoint
<1>4. /\ TreeTypes /\ FoundInv /\ UNCHANGED <<processes, checked, found>>
      /\ Entries(Root) \in SUBSET Below /\ todo[1] # <<>>
  BY DEF TreeInv, ProcessRoot, Entries
<1>5. \A q \in TreeProcesses : Left(q) \ {Root} = {}
  BY <1>1, <1>3 DEF Disjoint
<1>6. FoundInv'
  BY <1>4 DEF FoundInv
<1>7. \A f \in Files : checked[f] = 0 /\ f \in Below
  BY <1>1, <1>3 DEF Searched, Below
<1>8. ASSUME NEW top \in SUBSET Below, todo' = [todo EXCEPT ![1] = <<top>>]
      PROVE  TreeTypes' /\ \A q \in TreeProcesses : Left(q)' = IF q = 1 THEN top ELSE {}
  <2>1. <<top>> \in Seq(SUBSET ({Root} \union Below)) /\ <<top>> # <<>>
    OBVIOUS
  <2>2. TreeTypes'
    BY <1>2, <1>4, <1>8, <2>1 DEF TreeTypes
  <2>3. \A q \in TreeProcesses : Left(q)' = IF q = 1 THEN top ELSE Left(q)
    BY <1>2, <1>4, <1>8, <2>1 DEF TreeTypes, Left, Top
  <2>4. \A q \in TreeProcesses : q # 1 => Left(q) = {}
    BY <1>1, <1>5 DEF Disjoint
  <2> QED
    BY <2>2, <2>3, <2>4
<1>9. CASE todo' = [todo EXCEPT ![1] = <<Entries(Root)>>] /\ UNCHANGED skipped
  <2>1. TreeTypes' /\ \A q \in TreeProcesses : Left(q)' = IF q = 1 THEN Entries(Root) ELSE {}
    BY <1>4, <1>8, <1>9
  <2>2. \A e \in Entries(Root) : e \in Below /\ Parent[e] = Root
    BY DEF Entries
  <2>3. Searched({Root})'
    BY <1>2, <1>3, <1>4, <1>7, <1>9, <2>1 DEF Searched, Entries
  <2>4. Disjoint({Root})'
    BY <1>2, <1>3, <1>4, <1>7, <1>9, <2>1, <2>2 DEF Disjoint
  <2> QED
    BY <1>6, <2>1, <2>3, <2>4 DEF TreeInv
<1>10. CASE todo' = [todo EXCEPT ![1] = <<{}>>] /\ skipped' = skipped \union {Root}
  <2>1. TreeTypes' /\ \A q \in TreeProcesses : Left(q)' = {}
    BY <1>8, <1>10
  <2>2. Searched({})'
    BY <1>3, <1>4, <1>7, <1>10, <2>1 DEF Searched
  <2>3. Disjoint({})'
    BY <2>1 DEF Disjoint
  <2> QED
    BY <1>6, <2>1, <2>2, <2>3 DEF TreeInv
<1> QED
  BY <1>9, <1>10 DEF ProcessRoot

\* An entry of a directory that has been opened is taken by the one process it is left to.
LEMMA TakeOne ==
  ASSUME TreeAssumption, TreeTypes, NEW p \in TreeProcesses, Active(p), NEW e \in Left(p) \ {Root},
         todo' = [todo EXCEPT ![p] = Without(@, e)], processes' = processes, checked' \in [Files -> Nat],
         NEW opened \in SUBSET ({Root} \union Subdirectories), Searched(opened), Disjoint(opened),
         \A f \in Files \ {e} : checked'[f] = checked[f],
         \/ skipped' = skipped \union {e} /\ checked' = checked
         \/ e \in Hidden /\ skipped' = skipped /\ checked' = checked
         \/ e \in Files /\ skipped' = skipped /\ checked'[e] = checked[e] + 1
  PROVE  TreeTypes' /\ Searched(opened)' /\ Disjoint(opened)'
<1>1. /\ todo' \in [TreeProcesses -> Seq(SUBSET ({Root} \union Below))]
      /\ \A q \in TreeProcesses : Left(q)' = IF q = p THEN Left(p) \ {e} ELSE Left(q)
      /\ \A q \in TreeProcesses : todo'[q] = <<>> <=> todo[q] = <<>>
  BY TakeStep
<1>2. TreeTypes'
  BY <1>1 DEF TreeTypes
<1>3. /\ e \in Below /\ Parent[e] \in opened /\ e \notin opened \union skipped
      /\ e \in Files => checked[e] = 0
      /\ \A q \in TreeProcesses : q # p => e \notin Left(q)
  <2>1. Left(p) \subseteq {Root} \union Below
    BY DEF TreeTypes, Left, Top, Active
  <2> QED
    BY <2>1 DEF Disjoint
<1>4. Root \notin Left(p) /\ 1 \in TreeProcesses /\ Root \notin Below
  BY <1>3 DEF Disjoint, TreeAssumption, TreeProcesses
<1>5. Searched(opened)'
  <2>1. opened \intersect skipped' = {} /\ Root \in opened \union skipped' \union Left(1)'
    BY <1>1, <1>3, <1>4 DEF Searched
  <2>2. \A d \in skipped' \ {Root} : d \in Below /\ Parent[d] \in opened
    BY <1>3 DEF Searched
  <2>3. \A f \in Files : checked'[f] # 0 => checked'[f] = 1 /\ Parent[f] \in opened /\ f \notin skipped'
    BY <1>3 DEF Searched
  <2>4. ASSUME NEW d \in Below, Parent[d] \in opened
        PROVE  \/ \E q \in TreeProcesses : d \in Left(q)'
               \/ d \in skipped' \union Hidden \union opened
               \/ d \in Files /\ checked'[d] # 0
    <3>1. CASE d = e
      BY <1>3, <3>1
    <3>2. CASE d # e
      <4>1. \A q \in TreeProcesses : d \in Left(q) => d \in Left(q)'
        BY <1>1, <3>2
      <4> QED
        BY <2>4, <3>2, <4>1 DEF Searched
    <3> QED
      BY <3>1, <3>2
  <2> QED
    BY <2>1, <2>2, <2>3, <2>4 DEF Searched
<1>6. Disjoint(opened)'
  <2>1. \A q \in TreeProcesses : Left(q)' \subseteq Left(q) /\ e \notin Left(q)'
    BY <1>1, <1>3
  <2>2. \A q \in TreeProcesses : Root \notin Left(q)
    BY <1>3 DEF Disjoint
  <2>3. \A q \in TreeProcesses : \A d \in Left(q)' : /\ d \notin opened \union skipped'
                                                     /\ Parent[d] \in opened
                                                     /\ d \in Files => checked'[d] = 0
    BY <2>1, <2>2 DEF Disjoint
  <2> QED
    BY <2>1, <2>2, <2>3 DEF Disjoint
<1> QED
  BY <1>2, <1>5, <1>6

\* The entries at hand are those of directories that have been opened.
LEMMA TopEntries ==
  ASSUME TreeAssumption, TreeTypes, NEW p \in TreeProcesses, Active(p)
  PROVE  Top(p) = Left(p) /\ Root \notin Subdirectories \union Hidden \union Files
BY DEF Left, Active, TreeAssumption, Below

\* An entry that is passed over is dealt with: skipped, hidden or read.
LEMMA PassStep ==
  ASSUME TreeAssumption, TreeInv, NEW p \in TreeProcesses,
         PassUnreadable(p) \/ PassHidden(p) \/ process_file(p)
  PROVE  TreeInv'
<1>1. PICK opened \in SUBSET ({Root} \union Subdirectories) : Searched(opened) /\ Disjoint(opened)
  BY DEF TreeInv
<1>2. Active(p) /\ TreeTypes /\ FoundInv /\ processes' = processes
  BY DEF TreeInv, PassUnreadable, PassHidden, process_file
<1>3. CASE PassUnreadable(p) \/ PassHidden(p)
  <2>1. PICK e \in Left(p) \ {Root} :
          /\ todo' = [todo EXCEPT ![p] = Without(@, e)] /\ UNCHANGED <<checked, found>>
          /\ skipped' = skipped \union {e} \/ (e \in Hidden /\ skipped' = skipped)
    BY <1>2, <1>3, TopEntries DEF PassUnreadable, PassHidden, Passed
  <2>2. TreeTypes' /\ Searched(opened)' /\ Disjoint(opened)'
    BY <1>1, <1>2, <2>1, TakeOne DEF TreeTypes
  <2>3. FoundInv'
    BY <1>2, <2>1 DEF FoundInv
  <2> QED
    BY <2>2, <2>3 DEF TreeInv
<1>4. CASE process_file(p)
  <2>1. PICK f \in Left(p) \intersect Files, m \in BOOLEAN :
          /\ m \in Matches(f) /\ todo' = [todo EXCEPT ![p] = Without(@, f)] /\ skipped' = skipped
          /\ checked' = [checked EXCEPT ![f] = @ + 1]
          /\ found' = IF m THEN found \union {f} ELSE found
    BY <1>2, <1>4, TopEntries DEF process_file, Matches
  <2>2. f # Root /\ checked' \in [Files -> Nat] /\ checked'[f] = checked[f] + 1 /\ checked[f] \in Nat
        /\ \A g \in Files \ {f} : checked'[g] = checked[g]
    <3>1. f # Root
      BY <1>2, <2>1, TopEntries
    <3>2. checked \in [Files -> Nat] /\ f \in Files
      BY <1>2, <2>1 DEF TreeTypes
    <3> QED
      BY <2>1, <3>1, <3>2
  <2>3. TreeTypes' /\ Searched(opened)' /\ Disjoint(opened)'
    BY <1>1, <1>2, <2>1, <2>2, TakeOne
  <2>4. f \in Starts => m
    BY <2>1 DEF Matches, TreeAssumption
  <2>5. m => f \in Starts \union PartOf
    BY <2>1 DEF Matches
  <2>6. FoundInv'
    BY <1>2, <2>1, <2>2, <2>4, <2>5 DEF FoundInv, TreeAssumption
  <2> QED
    BY <2>3, <2>6 DEF TreeInv
<1> QED
  BY <1>3, <1>4

\* A process returns from a directory only when nothing of it is left.
LEMMA ReturnStep ==
  ASSUME TreeAssumption, TreeInv, NEW p \in TreeProcesses, Return(p)
  PROVE  TreeInv'
<1>1. PICK opened \in SUBSET ({Root} \union Subdirectories) : Searched(opened) /\ Disjoint(opened)
  BY DEF TreeInv
<1>2. /\ TreeTypes /\ FoundInv /\ UNCHANGED <<processes, checked, found, skipped>>
      /\ todo' = [todo EXCEPT ![p] = <<>>] /\ Active(p) /\ Top(p) = {}
  BY DEF TreeInv, Return, Exit
<1>3. \A q \in TreeProcesses : Left(q)' = Left(q)
  BY <1>2 DEF Left, Top, TreeTypes, Active
<1>4. 1 \in TreeProcesses
  BY DEF TreeAssumption, TreeProcesses
<1>5. TreeTypes' /\ FoundInv'
  BY <1>2 DEF TreeTypes, FoundInv
<1>6. Searched(opened)' /\ Disjoint(opened)'
  BY <1>1, <1>2, <1>3, <1>4 DEF Searched, Disjoint
<1> QED
  BY <1>5, <1>6 DEF TreeInv

\* A child that has opened the directory d is left the entries of d, which nobody had.
LEMMA ForkStep ==
  ASSUME TreeAssumption, TreeInv, NEW p \in TreeProcesses, ForkDirectory(p)
  PROVE  TreeInv'
<1>1. PICK opened \in SUBSET ({Root} \union Subdirectories) : Searched(opened) /\ Disjoint(opened)
  BY DEF TreeInv
<1>2. Active(p) /\ TreeTypes /\ FoundInv /\ UNCHANGED <<checked, found>>
  BY DEF TreeInv, ForkDirectory
<1>3. PICK d \in Left(p) \intersect (Subdirectories \union Hidden) :
        /\ d \notin Hidden
        /\ \/ \E b \in BOOLEAN :
                /\ processes < MaxProcesses /\ processes' = processes + 1
                /\ todo' = [todo EXCEPT ![p] = Without(todo[p], d),
                     ![processes + 1] = Append(Without(todo[p], d), IF b THEN Entries(d) ELSE {})]
                /\ skipped' = IF b THEN skipped ELSE skipped \union {d}
           \/ /\ todo' = [todo EXCEPT ![p] = Without(@, d)] /\ skipped' = skipped \union {d}
              /\ UNCHANGED processes
  <2>1. Top(p) = Left(p)
    BY <1>2, TopEntries
  <2> QED
    BY <2>1, Zenon DEF ForkDirectory, Passed, Continue
<1>4. FoundInv'
  BY <1>2 DEF FoundInv
<1>5. d # Root /\ d \in Below /\ d \in Subdirectories /\ d \notin Files
  BY <1>3 DEF TreeAssumption, Below, Directories
<1>6. CASE /\ todo' = [todo EXCEPT ![p] = Without(@, d)] /\ skipped' = skipped \union {d}
           /\ UNCHANGED processes
  <2>1. TreeTypes' /\ Searched(opened)' /\ Disjoint(opened)'
    BY <1>1, <1>2, <1>3, <1>5, <1>6, TakeOne DEF TreeTypes
  <2> QED
    BY <1>4, <2>1 DEF TreeInv
<1>7. ASSUME NEW b \in BOOLEAN,
             processes < MaxProcesses, processes' = processes + 1,
             todo' = [todo EXCEPT ![p] = Without(todo[p], d),
                ![processes + 1] = Append(Without(todo[p], d), IF b THEN Entries(d) ELSE {})],
             skipped' = IF b THEN skipped ELSE skipped \union {d}
      PROVE  TreeInv'
  <2> DEFINE s == Without(todo[p], d)
             new == IF b THEN Entries(d) ELSE {}
             n == processes + 1
             O == IF b THEN opened \union {d} ELSE opened
  <2>1. n \in TreeProcesses /\ 1 \in TreeProcesses /\ todo[n] = <<>> /\ n # p
    BY <1>2, <1>7 DEF TreeTypes, TreeProcesses, TreeAssumption, Active
  <2>2. /\ s \in Seq(SUBSET ({Root} \union Below)) /\ s # <<>>
        /\ s[Len(s)] = Left(p) \ {d}
    BY <1>2, TakeLeft
  <2>3. new \in SUBSET Below /\ \A e \in new : e \in Below /\ Parent[e] = d
    BY DEF Entries
  <2>4. todo' = [todo EXCEPT ![p] = s, ![n] = Append(s, new)]
    BY <1>7
  <2> HIDE DEF s, new
  <2>5. /\ Append(s, new) \in Seq(SUBSET ({Root} \union Below)) /\ Append(s, new) # <<>>
        /\ Append(s, new)[Len(Append(s, new))] = new
    BY <2>2, <2>3
  <2>6. TreeTypes'
    <3>1. todo' \in [TreeProcesses -> Seq(SUBSET ({Root} \union Below))]
      BY <1>2, <2>1, <2>2, <2>4, <2>5 DEF TreeTypes
    <3>2. \A q \in TreeProcesses : q > n => q # p /\ q # n /\ q > processes
      BY <1>2, <2>1 DEF TreeTypes, TreeProcesses, Active
    <3>3. \A q \in TreeProcesses : q > n => todo'[q] = <<>>
      BY <1>2, <2>4, <3>2 DEF TreeTypes
    <3> QED
      BY <1>2, <1>7, <2>1, <3>1, <3>3 DEF TreeTypes
  <2>7. \A q \in TreeProcesses :
          Left(q)' = IF q = n THEN new ELSE IF q = p THEN Left(p) \ {d} ELSE Left(q)
    BY <1>2, <2>1, <2>2, <2>4, <2>5 DEF TreeTypes, Left, Top
  <2>8. /\ Parent[d] \in opened /\ d \notin opened \union skipped
        /\ \A q \in TreeProcesses : q # p => d \notin Left(q)
        /\ \A q \in TreeProcesses : Root \notin Left(q)
    BY <1>1, <1>3, <1>5 DEF Disjoint
  <2>9. Left(n) = {} /\ opened \subseteq O /\ skipped \subseteq skipped' /\ O \union skipped' = opened \union skipped \union {d}
        /\ O \intersect skipped' = {} /\ O \in SUBSET ({Root} \union Subdirectories)
    BY <1>1, <1>5, <1>7, <2>1, <2>8 DEF Left, Searched
  <2>10. \A e \in new : /\ e \notin O \union skipped' /\ Parent[e] \in O
                        /\ \A q \in TreeProcesses : e \notin Left(q)
                        /\ e \in Files => checked[e] = 0
    <3>1. TAKE e \in new
    <3>2. b /\ Parent[e] = d /\ e \in Below /\ d \in O
      BY <2>3 DEF new
    <3>3. Parent[e] \notin opened /\ e # d /\ e # Root
      BY <2>8, <3>2 DEF TreeAssumption
    <3> QED
      BY <1>1, <2>8, <2>9, <3>2, <3>3 DEF Searched, Disjoint
  <2>11. Searched(O)'
    <3>1. \A e \in O \ {Root} : Parent[e] \in O
      BY <1>1, <2>8, <2>9 DEF Searched
    <3>2. \A e \in skipped' \ {Root} : e \in Below /\ Parent[e] \in O
      BY <1>1, <1>5, <1>7, <2>8, <2>9 DEF Searched
    <3>3. \A f \in Files : checked'[f] # 0 => checked'[f] = 1 /\ Parent[f] \in O /\ f \notin skipped'
      BY <1>1, <1>2, <1>5, <1>7, <2>9 DEF Searched
    <3>4. ASSUME NEW e \in Below, Parent[e] \in O
          PROVE  \/ \E q \in TreeProcesses : e \in Left(q)'
                 \/ e \in skipped' \union Hidden \union O
                 \/ e \in Files /\ checked'[e] # 0
      <4>1. CASE Parent[e] = d
        <5>1. b
          BY <2>8, <3>4, <4>1
        <5>2. e \in new
          BY <4>1, <5>1 DEF new, Entries
        <5> QED
          BY <2>1, <2>7, <5>2
      <4>2. CASE Parent[e] # d /\ e # d
        <5>1. Parent[e] \in opened
          BY <3>4, <4>2
        <5>2. \A q \in TreeProcesses : e \in Left(q) => e \in Left(q)'
          BY <2>7, <2>9, <4>2
        <5> QED
          BY <1>1, <1>2, <2>9, <5>1, <5>2 DEF Searched
      <4>3. CASE e = d
        BY <2>9, <4>3
      <4> QED
        BY <4>1, <4>2, <4>3
    <3>5. Root \in O \union skipped'
      BY <1>1, <2>1, <2>8, <2>9 DEF Searched
    <3> QED
      BY <2>9, <3>1, <3>2, <3>3, <3>4, <3>5 DEF Searched
  <2>12. Disjoint(O)'
    <3>1. \A q \in TreeProcesses : \A e \in Left(q) \ {d} :
             e \notin O \union skipped' /\ Parent[e] \in O /\ (e \in Files => checked[e] = 0)
      BY <1>1, <2>8, <2>9 DEF Disjoint
    <3>2. \A q \in TreeProcesses : \A e \in Left(q)' :
             /\ e # Root /\ e \notin O \union skipped' /\ Parent[e] \in O
             /\ e \in Files => checked[e] = 0
      BY <1>5, <2>3, <2>7, <2>8, <2>10, <3>1 DEF TreeAssumption
    <3>3. \A q, r \in TreeProcesses : q # r => Left(q)' \intersect Left(r)' = {}
      BY <1>1, <2>7, <2>10 DEF Disjoint
    <3> QED
      BY <1>2, <3>2, <3>3 DEF Disjoint
  <2> QED
    BY <1>4, <2>6, <2>9, <2>11, <2>12 DEF TreeInv
<1> QED
  BY <1>3, <1>6, <1>7

\* What is true of an entry's directory and implies it of the entry is true of all entries.
LEMMA TreeInduction ==
  ASSUME TreeAssumption, NEW S \in SUBSET ({Root} \union Below), Root \in S,
         \A e \in Below : Parent[e] \in S => e \in S
  PROVE  S = {Root} \union Below
<1> DEFINE R == Below \ S
<1>1. \A e \in R : Parent[e] \in R
  BY DEF TreeAssumption, Directories, Below
<1>2. R = {}
  BY <1>1 DEF TreeAssumption
<1> QED
  BY <1>2

\* Any set that obeys the equation of Reached is what Reached gives.
LEMMA ReachedIs ==
  ASSUME TreeAssumption, NEW X \in SUBSET ({Root} \union Below),
         \A e \in {Root} \union Below :
           e \in X <=> e \notin skipped \union PassedOver /\ (e = Root \/ Parent[e] \in X)
  PROVE  \A e \in {Root} \union Below : Reached[e] = (e \in X)
<1> DEFINE D == {Root} \union Below
           Eq(f) == f = [e \in D |-> e \notin skipped \union PassedOver /\ (e = Root \/ f[Parent[e]])]
           g == [e \in D |-> e \in X]
<1>1. \A e \in Below : Parent[e] \in D
  BY DEF TreeAssumption, Directories, Below
<1>2. Eq(g)
  <2>1. \A e \in D : e # Root => g[Parent[e]] = (Parent[e] \in X)
    BY <1>1
  <2>2. \A e \in D : (e \in X) = (e \notin skipped \union PassedOver /\ (e = Root \/ g[Parent[e]]))
    <3>1. TAKE e \in D
    <3>2. (e \in X) <=> (e \notin skipped \union PassedOver /\ (e = Root \/ Parent[e] \in X))
      OBVIOUS
    <3>3. CASE e = Root
      BY <3>2, <3>3
    <3>4. CASE e # Root
      <4>1. g[Parent[e]] = (Parent[e] \in X)
        BY <2>1, <3>4
      <4>2. (e \in X) = (e \notin skipped \union PassedOver /\ Parent[e] \in X)
        BY <3>2, <3>4
      <4> HIDE DEF g
      <4> QED
        BY <3>4, <4>1, <4>2
    <3> QED
      BY <3>3, <3>4
  <2> QED
    BY <2>2
<1>3. Eq(CHOOSE f : Eq(f))
  <2> HIDE DEF Eq, g
  <2> QED
    BY <1>2
<1>4. Reached = CHOOSE f : Eq(f)
  BY DEF Reached
<1>5. Eq(Reached)
  BY <1>3, <1>4
<1> DEFINE S == {e \in D : Reached[e] = (e \in X)}
<1>6. \A e \in D : Reached[e] = (e \notin skipped \union PassedOver /\ (e = Root \/ Reached[Parent[e]]))
  BY <1>5
<1>7. Root \in S
  BY <1>6
<1>8. ASSUME NEW e \in Below, Parent[e] \in S
      PROVE  e \in S
  <2>1. Reached[Parent[e]] = (Parent[e] \in X) /\ e # Root
    BY <1>8 DEF TreeAssumption
  <2>2. Reached[e] = (e \notin skipped \union PassedOver /\ Reached[Parent[e]])
    BY <1>6, <2>1, Zenon
  <2>3. (e \in X) = (e \notin skipped \union PassedOver /\ Parent[e] \in X)
    <3>1. (e \in X) <=> (e \notin skipped \union PassedOver /\ Parent[e] \in X)
      BY <2>1
    <3> QED
      BY <3>1
  <2>4. Reached[e] = (e \in X)
    BY <2>1, <2>2, <2>3, Zenon
  <2> QED
    BY <2>4
<1>9. S = D
  <2> HIDE DEF S
  <2>1. S \in SUBSET D
    BY DEF S
  <2> QED
    BY <1>7, <1>8, <2>1, TreeInduction
<1> QED
  BY <1>9

\* When nothing is left to anybody, the files read are those of the directories reached.
LEMMA TreeInvComplete ==
  ASSUME TreeAssumption, TreeInv
  PROVE  ReadOnce /\ SearchComplete
<1>1. PICK opened \in SUBSET ({Root} \union Subdirectories) : Searched(opened) /\ Disjoint(opened)
  BY DEF TreeInv
<1>2. ReadOnce
  BY <1>1 DEF ReadOnce, Searched, TreeInv, TreeTypes
<1>3. ASSUME \A p \in TreeProcesses : ~Active(p)
      PROVE  /\ {f \in Files : checked[f] > 0} = {f \in Files : Reached[f]}
             /\ {f \in Starts : Reached[f]} \subseteq found
             /\ found \subseteq {f \in Starts \union PartOf : Reached[f]}
  <2> DEFINE X == opened \union {f \in Files : checked[f] # 0}
  <2>1. \A p \in TreeProcesses : Left(p) = {}
    BY <1>3 DEF Left, Active
  <2>9. PassedOver = Hidden
    BY DEF PassedOver, Passed
  <2>2. 1 \in TreeProcesses /\ Root \notin Below /\ Files \subseteq Below
        /\ Subdirectories \subseteq Below /\ Starts \subseteq Files /\ PartOf \subseteq Files
        /\ \A e \in Below : Parent[e] \notin Files
    BY DEF TreeAssumption, TreeProcesses, Below
  <2>3. Root \in X <=> Root \notin skipped \union PassedOver
    BY <1>1, <2>1, <2>2, <2>9 DEF Searched, Below, TreeAssumption, Directories
  <2>4. ASSUME NEW e \in Below
        PROVE  e \in X <=> e \notin skipped \union PassedOver /\ Parent[e] \in X
    <3>1. e \in X => e \notin skipped \union PassedOver /\ Parent[e] \in opened
      BY <1>1, <2>2, <2>9 DEF Searched, TreeAssumption, Directories
    <3>2. Parent[e] \in X => Parent[e] \in opened
      BY <2>2
    <3>3. Parent[e] \in opened => e \in skipped \union PassedOver \union X
      BY <1>1, <2>1, <2>9 DEF Searched
    <3> QED
      BY <3>1, <3>2, <3>3
  <2>5. \A e \in {Root} \union Below : Reached[e] = (e \in X)
    <3>1. X \in SUBSET ({Root} \union Below)
      BY <2>2
    <3>2. \A e \in {Root} \union Below :
            e \in X <=> e \notin skipped \union PassedOver /\ (e = Root \/ Parent[e] \in X)
      BY <2>2, <2>3, <2>4
    <3> HIDE DEF X
    <3> QED
      BY <3>1, <3>2, ReachedIs
  <2>6. \A f \in Files : Reached[f] = (checked[f] # 0)
    <3>1. \A f \in Files : f \notin opened
      BY <1>1, <2>2 DEF TreeAssumption, Directories
    <3> QED
      BY <2>2, <2>5, <3>1
  <2>7. \A f \in Files : checked[f] > 0 <=> checked[f] # 0
    BY DEF TreeInv, TreeTypes
  <2>8. FoundInv
    BY DEF TreeInv
  <2> QED
    BY <2>2, <2>6, <2>7, <2>8 DEF FoundInv
<1> QED
  BY <1>2, <1>3 DEF SearchComplete

\* Every step of the search keeps the invariant.
LEMMA TreeStep ==
  ASSUME TreeAssumption, TreeInv, [TreeNext]_treeVars
  PROVE  TreeInv'
<1>1. CASE UNCHANGED treeVars
  BY <1>1 DEF treeVars, TreeInv, TreeTypes, FoundInv, Searched, Disjoint, Left, Top
<1> QED
  BY <1>1, RootStep, PassStep, ForkStep, ReturnStep DEF TreeNext

\* Every search gives each file to one process, for any tree and any failures of fork,
\* opendir, stat and fopen.
THEOREM EachReadOnce == TreeSpec => []ReadOnce
<1>1. TreeInit => TreeInv
  BY TreeAssumption, TreeInitInv
<1>2. TreeInv /\ [TreeNext]_treeVars => TreeInv'
  BY TreeAssumption, TreeStep
<1>3. TreeInv => ReadOnce
  BY TreeAssumption, TreeInvComplete
<1> QED
  BY <1>1, <1>2, <1>3, PTL DEF TreeSpec

\* When every process has ended, nothing has fallen between two of them: the files read are
\* those of the directories that no process gave up or passed over, whichever these are.
THEOREM NothingBetween == TreeSpec => []SearchComplete
<1>1. TreeInit => TreeInv
  BY TreeAssumption, TreeInitInv
<1>2. TreeInv /\ [TreeNext]_treeVars => TreeInv'
  BY TreeAssumption, TreeStep
<1>3. TreeInv => SearchComplete
  BY TreeAssumption, TreeInvComplete
<1> QED
  BY <1>1, <1>2, <1>3, PTL DEF TreeSpec

-----------------------------------------------------------------------------
(* SignalInheritance.  What the words on the command line do, step by step.  *)
Words == {"received", "pending", "not pending"}
HandlerOf(word) == IF word \in {"ignore", "handler"} THEN word ELSE "default"
FirstReport(word) == IF word = "handler" THEN <<"received">>
                     ELSE IF word = "pending" THEN <<"pending">> ELSE <<>>
SecondReport(word) == IF word = "handler" THEN <<"received">>
                      ELSE IF word = "pending" THEN <<"not pending">> ELSE <<>>

SigTypes ==
  /\ sigProgram \in {"fork", "exec"} /\ action \in Actions
  /\ sigpc \in [SigProcesses -> {"none", "main", "set", "raise", "check", "next", "wait", "ended",
                                 "killed", "ls"}]
  /\ sa_handler \in [SigProcesses -> {"default", "ignore", "handler"}]
  /\ blocked \in [SigProcesses -> BOOLEAN] /\ pending \in [SigProcesses -> BOOLEAN]
  /\ reported \in [SigProcesses -> Seq(Words)]

AncestorInv ==
  /\ sigpc["ancestor"] \notin {"none", "killed"}
  /\ sigpc["ancestor"] \in {"main", "set"} => sa_handler["ancestor"] = "default" /\ ~blocked["ancestor"]
  /\ sigpc["ancestor"] \notin {"main", "set"} =>
       /\ sa_handler["ancestor"] = HandlerOf(action)
       /\ blocked["ancestor"] = (action \in {"mask", "pending"})
  /\ sigpc["ancestor"] # "main" /\ sigProgram = "exec" => action # "handler"
  /\ sigpc["ancestor"] = "ls" => sigProgram = "exec"
  /\ sigpc["ancestor"] \in {"main", "set", "raise", "check"} => reported["ancestor"] = <<>>
  /\ sigpc["ancestor"] = "raise" => action # "unknown"
  /\ sigpc["ancestor"] = "check" => action = "pending" /\ pending["ancestor"]
  /\ sigpc["ancestor"] \in {"next", "wait", "ended", "ls"} => reported["ancestor"] = FirstReport(action)

DescendantInv ==
  /\ sigpc["descendant"] \in {"none", "raise", "check", "ended", "killed"}
  /\ sigpc["ancestor"] \notin {"wait", "ended"} => sigpc["descendant"] = "none"
  /\ sigpc["descendant"] # "none" =>
       /\ sa_handler["descendant"] = HandlerOf(action)
       /\ blocked["descendant"] = (action \in {"mask", "pending"})
  /\ sigpc["descendant"] \in {"none", "raise", "check"} => reported["descendant"] = <<>>
  /\ sigpc["descendant"] = "raise" => action # "pending"
  /\ sigpc["descendant"] = "check" => action = "pending" /\ ~pending["descendant"]
  /\ sigpc["descendant"] = "ended" => reported["descendant"] = SecondReport(action)
  /\ sigpc["descendant"] = "killed" => action = "unknown"

SigInv == SigTypes /\ AncestorInv /\ DescendantInv

\* The invariant holds before the word is read.
LEMMA SigInitInv == ASSUME SigInit PROVE SigInv
BY DEF SigInit, SigInv, SigTypes, AncestorInv, DescendantInv, SigProcesses, Actions

\* The word on the command line sets the disposition and the mask.
LEMMA SigStart ==
  ASSUME SigInv, SigMain \/ SetSignal
  PROVE  SigInv'
<1> USE DEF SigInv, SigTypes, AncestorInv, DescendantInv, SigProcesses, Actions, HandlerOf
<1>1. CASE SigMain
  BY <1>1 DEF SigMain
<1>2. CASE SetSignal
  BY <1>2 DEF SetSignal, FirstReport
<1> QED
  BY <1>1, <1>2

\* A process that reports something for the first time.
LEMMA OneReport == \A x \in Words : Append(<<>>, x) = <<x>> /\ <<x>> \in Seq(Words)
OBVIOUS

\* The steps of the process itself: raise and the report.
LEMMA SigAncestor ==
  ASSUME SigInv, RaiseAndCheck
  PROVE  SigInv'
<1> USE DEF SigInv, SigTypes, SigProcesses, Actions
<1>1. CASE Raise("ancestor", IF action = "pending" THEN "check" ELSE "next")
  <2>1. /\ sigpc["ancestor"] = "raise" /\ sigpc["descendant"] = "none" /\ action # "unknown"
        /\ reported["ancestor"] = <<>> /\ reported["descendant"] = <<>>
        /\ sa_handler["ancestor"] = HandlerOf(action)
        /\ blocked["ancestor"] = (action \in {"mask", "pending"})
    BY <1>1 DEF Raise, AncestorInv, DescendantInv
  <2>2. ~Killed("ancestor")
    BY <2>1 DEF Killed, HandlerOf
  <2>3. /\ sigpc' = [sigpc EXCEPT !["ancestor"] = IF action = "pending" THEN "check" ELSE "next"]
        /\ UNCHANGED <<sigProgram, action, sa_handler, blocked>>
        /\ pending' = [pending EXCEPT !["ancestor"] =
                         @ \/ (blocked["ancestor"] /\ sa_handler["ancestor"] # "ignore")]
    BY <1>1, <2>2 DEF Raise
  <2>4. action = "pending" => pending'["ancestor"]
    BY <2>1, <2>3 DEF HandlerOf
  <2>5. CASE action = "handler"
    <3>1. reported' = [reported EXCEPT !["ancestor"] = <<"received">>]
      BY <1>1, <2>1, <2>5, OneReport DEF Raise, HandlerOf, Words
    <3>2. SigTypes'
      BY <2>3, <3>1, OneReport DEF Words
    <3> QED
      BY <2>1, <2>3, <2>5, <3>1, <3>2 DEF AncestorInv, DescendantInv, FirstReport
  <2>6. CASE action # "handler"
    <3>1. reported' = reported
      BY <1>1, <2>1, <2>6 DEF Raise, HandlerOf
    <3>2. SigTypes'
      BY <2>3, <3>1
    <3> QED
      BY <2>1, <2>3, <2>4, <2>6, <3>1, <3>2 DEF AncestorInv, DescendantInv, FirstReport
  <2> QED
    BY <2>5, <2>6
<1>2. CASE check_pending("ancestor", "next")
  <2>1. /\ sigpc["ancestor"] = "check" /\ sigpc["descendant"] = "none" /\ action = "pending"
        /\ reported["ancestor"] = <<>> /\ pending["ancestor"]
        /\ sigpc' = [sigpc EXCEPT !["ancestor"] = "next"]
        /\ UNCHANGED <<sigProgram, action, sa_handler, blocked, pending>>
    BY <1>2 DEF check_pending, AncestorInv, DescendantInv
  <2>2. reported' = [reported EXCEPT !["ancestor"] = <<"pending">>]
    BY <1>2, <2>1, OneReport DEF check_pending, Words
  <2>3. SigTypes'
    BY <2>1, <2>2, OneReport DEF Words
  <2> QED
    BY <2>1, <2>2, <2>3 DEF AncestorInv, DescendantInv, FirstReport
<1> QED
  BY <1>1, <1>2 DEF RaiseAndCheck

\* The steps of the process that was forked or has the new program.
LEMMA SigDescendant ==
  ASSUME SigInv, DescendantAct
  PROVE  SigInv'
<1> USE DEF SigInv, SigTypes, SigProcesses, Actions
<1>1. CASE Raise("descendant", "ended")
  <2>1. /\ sigpc["descendant"] = "raise" /\ action # "pending"
        /\ reported["descendant"] = <<>> /\ sa_handler["descendant"] = HandlerOf(action)
        /\ blocked["descendant"] = (action \in {"mask", "pending"})
    BY <1>1 DEF Raise, DescendantInv
  <2>2. Killed("descendant") <=> action = "unknown"
    BY <2>1 DEF Killed, HandlerOf
  <2>3. /\ sigpc' = [sigpc EXCEPT !["descendant"] = IF action = "unknown" THEN "killed" ELSE "ended"]
        /\ UNCHANGED <<sigProgram, action, sa_handler, blocked>>
        /\ pending' = [pending EXCEPT !["descendant"] =
                         @ \/ (blocked["descendant"] /\ sa_handler["descendant"] # "ignore")]
    BY <1>1, <2>2 DEF Raise
  <2>4. CASE action = "handler"
    <3>1. reported' = [reported EXCEPT !["descendant"] = <<"received">>]
      BY <1>1, <2>1, <2>4, OneReport DEF Raise, HandlerOf, Words
    <3>2. SigTypes'
      BY <2>3, <3>1, OneReport DEF Words
    <3> QED
      BY <2>1, <2>3, <2>4, <3>1, <3>2 DEF AncestorInv, DescendantInv, SecondReport
  <2>5. CASE action # "handler"
    <3>1. reported' = reported
      BY <1>1, <2>1, <2>5 DEF Raise, HandlerOf
    <3>2. SigTypes'
      BY <2>3, <3>1
    <3> QED
      BY <2>1, <2>3, <2>5, <3>1, <3>2 DEF AncestorInv, DescendantInv, SecondReport
  <2> QED
    BY <2>4, <2>5
<1>2. CASE check_pending("descendant", "ended")
  <2>1. /\ sigpc["descendant"] = "check" /\ action = "pending"
        /\ reported["descendant"] = <<>> /\ ~pending["descendant"]
        /\ sigpc' = [sigpc EXCEPT !["descendant"] = "ended"]
        /\ UNCHANGED <<sigProgram, action, sa_handler, blocked, pending>>
    BY <1>2 DEF check_pending, DescendantInv
  <2>2. reported' = [reported EXCEPT !["descendant"] = <<"not pending">>]
    BY <1>2, <2>1, OneReport DEF check_pending, Words
  <2>3. SigTypes'
    BY <2>1, <2>2, OneReport DEF Words
  <2> QED
    BY <2>1, <2>2, <2>3 DEF AncestorInv, DescendantInv, SecondReport
<1> QED
  BY <1>1, <1>2 DEF DescendantAct

\* Fork, the wait and exec hand on what the word asked for.
LEMMA SigFork ==
  ASSUME SigInv, ForkDescendant \/ WaitForDescendant \/ ExecLs
  PROVE  SigInv'
<1> USE DEF SigInv, SigTypes, AncestorInv, DescendantInv, SigProcesses, Actions
<1>1. CASE ForkDescendant
  BY <1>1 DEF ForkDescendant, InheritHandler, NothingPending
<1>2. CASE WaitForDescendant
  BY <1>2 DEF WaitForDescendant
<1>3. CASE ExecLs
  BY <1>3 DEF ExecLs, HandlerOf
<1> QED
  BY <1>1, <1>2, <1>3

\* What the two processes print, and which of them the signal ends, is for every word what
\* the program's report says.
THEOREM Inherited == SigSpec => []SignalInherited
<1>1. SigInit => SigInv
  BY SigInitInv
<1>2. SigInv /\ [SigNext]_sigVars => SigInv'
  <2>1. SigInv /\ UNCHANGED sigVars => SigInv'
    BY DEF sigVars, SigInv, SigTypes, AncestorInv, DescendantInv
  <2> QED
    BY <2>1, SigStart, SigAncestor, SigDescendant, SigFork DEF SigNext
<1>3. SigInv => SignalInherited
  <2>1. SigInv => AsReported
    BY DEF SigInv, AncestorInv, DescendantInv, AsReported, FirstReport, SecondReport
  <2>2. SigInv => OnlyUnknownKills
    <3>1. SUFFICES ASSUME SigInv
                   PROVE  OnlyUnknownKills
      OBVIOUS
    <3>2. sigpc["ancestor"] # "killed" /\ sigpc["descendant"] # "ls" /\ action \in Actions
      BY <3>1 DEF SigInv, SigTypes, AncestorInv, DescendantInv
    <3>3. sigpc["descendant"] = "killed" => action = "unknown"
      BY <3>1 DEF SigInv, DescendantInv
    <3>4. sigpc["ancestor"] = "ls" =>
            sa_handler["ancestor"] = HandlerOf(action) /\ blocked["ancestor"] = (action \in {"mask", "pending"})
      BY <3>1 DEF SigInv, AncestorInv
    <3>5. sigpc["ancestor"] = "ls" => action # "handler"
      BY <3>1 DEF SigInv, SigTypes, AncestorInv
    <3> QED
      BY <3>2, <3>3, <3>4, <3>5 DEF OnlyUnknownKills, SigProcesses, HandlerOf, Actions
  <2> QED
    BY <2>1, <2>2 DEF SignalInherited
<1> QED
  BY <1>1, <1>2, <1>3, PTL DEF SigSpec

-----------------------------------------------------------------------------
(* BlockLibrary.  Every allocated block is in one place of the table or      *)
(* among those given up, as long as deletes are of the last result.          *)
LibTypes ==
  /\ libSize \in -1 .. MaxLibSize /\ libCount \in 0 .. MaxLibSize
  /\ libCount = 0 \/ libCount <= libSize
  /\ DOMAIN libArr = 0 .. MaxLibSize - 1
  /\ \A n \in 0 .. libCount - 1 : libArr[n] \in LibBlocks
  /\ misused \in BOOLEAN /\ onlyLast \in BOOLEAN

NoAlias == \A m, n \in 0 .. libCount - 1 : libArr[m] = libArr[n] => m = n

LibInv ==
  /\ LibTypes
  /\ onlyLast => /\ ~misused /\ NoAlias
                 /\ alive = Kept \union dropped /\ Kept \intersect dropped = {}

\* No table, no block.
LEMMA LibInitInv ==
  ASSUME LibAssumption, LibInit
  PROVE  LibInv
<1>1. libCount = 0 /\ \A n \in 0 .. libCount - 1 : FALSE
  BY DEF LibInit
<1>2. Kept = {} /\ NoAlias
  BY <1>1 DEF Kept, NoAlias
<1>3. LibTypes
  <2>1. libSize \in -1 .. MaxLibSize /\ libCount \in 0 .. MaxLibSize /\ libCount = 0
    BY DEF LibInit, LibAssumption
  <2>2. DOMAIN libArr = 0 .. MaxLibSize - 1 /\ misused \in BOOLEAN /\ onlyLast \in BOOLEAN
    BY DEF LibInit
  <2> QED
    BY <1>1, <2>1, <2>2 DEF LibTypes
<1> QED
  BY <1>2, <1>3 DEF LibInit, LibInv

\* A block that is added is put behind all the others.
LEMMA LibAddStep ==
  ASSUME LibAssumption, LibInv, LibAdd
  PROVE  LibInv'
<1> USE DEF LibAssumption, LibInv, LibTypes
<1>1. PICK b \in LibBlocks \ alive :
        /\ alive' = alive \union {b}
        /\ \/ /\ Room
              /\ libArr' = [libArr EXCEPT ![libCount] = b] /\ libCount' = libCount + 1
              /\ UNCHANGED dropped
           \/ dropped' = dropped \union {b} /\ UNCHANGED <<libArr, libCount>>
  BY DEF LibAdd
<1>2. UNCHANGED <<libSize, misused, onlyLast>>
  BY DEF LibAdd
<1>3. CASE /\ Room
           /\ libArr' = [libArr EXCEPT ![libCount] = b] /\ libCount' = libCount + 1
           /\ UNCHANGED dropped
  <2>1. libCount < libSize /\ libCount' \in 1 .. MaxLibSize /\ libCount' <= libSize
        /\ libCount \in 0 .. MaxLibSize - 1
    BY <1>3 DEF Room
  <2>2. \A n \in 0 .. libCount' - 1 : (n = libCount /\ libArr'[n] = b)
                                      \/ (n \in 0 .. libCount - 1 /\ libArr'[n] = libArr[n])
    BY <1>3, <2>1
  <2>3. libArr'[libCount] = b /\ \A n \in 0 .. libCount - 1 : libArr'[n] = libArr[n] /\ n \in 0 .. libCount' - 1
    BY <1>3, <2>1
  <2>4. LibTypes'
    BY <1>1, <1>2, <1>3, <2>1, <2>2
  <2>5. Kept' = Kept \union {b}
    BY <1>3, <2>1, <2>2, <2>3 DEF Kept
  <2>6. ASSUME onlyLast
        PROVE  NoAlias' /\ alive' = Kept' \union dropped' /\ Kept' \intersect dropped' = {}
    <3>1. b \notin Kept
      BY <1>1, <2>6
    <3>2. \A n \in 0 .. libCount - 1 : libArr[n] \in Kept
      BY DEF Kept
    <3>3. NoAlias'
      BY <2>2, <2>6, <3>1, <3>2 DEF NoAlias
    <3> QED
      BY <1>1, <1>3, <2>5, <2>6, <3>3
  <2> QED
    BY <1>2, <2>4, <2>6
<1>4. CASE dropped' = dropped \union {b} /\ UNCHANGED <<libArr, libCount>>
  <2>1. Kept' = Kept
    BY <1>4 DEF Kept
  <2> QED
    BY <1>1, <1>2, <1>4, <2>1 DEF NoAlias
<1> QED
  BY <1>1, <1>3, <1>4

\* A delete of the last result frees its block; another one leaves onlyLast false.
LEMMA LibDeleteStep ==
  ASSUME LibAssumption, LibInv, NEW n \in 0 .. MaxLibSize - 1, LibDelete(n)
  PROVE  LibInv'
<1> USE DEF LibAssumption, LibInv, LibTypes
<1> DEFINE freed == libArr[libCount - 1]
<1>1. /\ n < libCount /\ libCount' = libCount - 1 /\ UNCHANGED <<libSize, dropped>>
      /\ libArr' = [m \in DOMAIN libArr |-> IF m \in n .. libCount - 2 THEN libArr[m + 1] ELSE libArr[m]]
      /\ alive' = alive \ {freed} /\ misused' = (misused \/ freed \notin alive)
      /\ onlyLast' = (onlyLast /\ n = libCount - 1)
  BY DEF LibDelete, CountDown
<1>2. libCount \in 1 .. MaxLibSize /\ libCount - 1 \in 0 .. libCount - 1
  BY <1>1
<1>3. LibTypes'
  <2>1. \A m \in 0 .. libCount' - 1 : libArr'[m] \in {libArr[m], libArr[m + 1]} /\ m \in 0 .. libCount - 1
                                      /\ m + 1 \in 0 .. libCount - 1
    BY <1>1, <1>2
  <2>2. \A m \in 0 .. libCount' - 1 : libArr'[m] \in LibBlocks
    BY <2>1
  <2> QED
    BY <1>1, <1>2, <2>2
<1>4. ASSUME onlyLast'
      PROVE  /\ ~misused' /\ NoAlias'
             /\ alive' = Kept' \union dropped' /\ Kept' \intersect dropped' = {}
  <2>1. onlyLast /\ n = libCount - 1
    BY <1>1, <1>4
  <2>2. \A m \in 0 .. libCount - 1 : libArr'[m] = libArr[m]
    BY <1>1, <1>2, <2>1
  <2>3. \A m \in 0 .. libCount - 1 : m \in 0 .. libCount' - 1 <=> m # libCount - 1
    BY <1>1, <1>2
  <2>4. 0 .. libCount' - 1 \subseteq 0 .. libCount - 1
    BY <1>1, <1>2
  <2>5. freed \in Kept /\ freed \in alive /\ freed \notin dropped
    BY <1>2, <2>1 DEF Kept
  <2>6. Kept' = Kept \ {freed}
    BY <1>2, <2>1, <2>2, <2>3, <2>4 DEF Kept, NoAlias
  <2>7. NoAlias'
    BY <2>1, <2>2, <2>4 DEF NoAlias
  <2>8. ~misused'
    BY <1>1, <2>1, <2>5
  <2> QED
    BY <1>1, <2>1, <2>5, <2>6, <2>7, <2>8
<1> QED
  BY <1>3, <1>4

\* A table that is cleared is given up, its blocks with it.
LEMMA LibClearStep ==
  ASSUME LibAssumption, LibInv, NEW size, LibClear(size)
  PROVE  LibInv'
<1> USE DEF LibAssumption, LibInv, LibTypes
<1>1. /\ size \in {libSize, -1} /\ libSize' = size /\ libCount' = 0
      /\ UNCHANGED <<libArr, dropped, onlyLast>>
      /\ alive' = alive \ Kept /\ misused' = (misused \/ FreesTwice)
  BY DEF LibClear
<1>2. Kept' = {} /\ NoAlias'
  BY <1>1 DEF Kept, NoAlias
<1>3. onlyLast => ~FreesTwice
  BY DEF FreesTwice, NoAlias
<1> QED
  BY <1>1, <1>2, <1>3

\* Reading a block changes nothing.
LEMMA LibGetStep ==
  ASSUME LibAssumption, LibInv, NEW n \in 0 .. MaxLibSize - 1, LibGet(n)
  PROVE  LibInv'
<1> USE DEF LibAssumption, LibInv, LibTypes
<1>1. /\ misused' = (misused \/ (n < libCount /\ libArr[n] \notin alive))
      /\ UNCHANGED <<libArr, libCount, libSize, alive, dropped, onlyLast>>
  BY DEF LibGet
<1>2. n < libCount => libArr[n] \in Kept
  BY DEF Kept
<1>3. Kept' = Kept /\ (NoAlias' <=> NoAlias)
  BY <1>1 DEF Kept, NoAlias
<1>4. onlyLast => ~misused'
  BY <1>1, <1>2
<1> QED
  BY <1>1, <1>3, <1>4

\* A new table is empty; one that was there is given up.
LEMMA LibCreateStep ==
  ASSUME LibAssumption, LibInv, LibCreate \/ UNCHANGED libVars
  PROVE  LibInv'
<1> USE DEF LibAssumption, LibInv, LibTypes
<1>1. CASE LibCreate
  <2>1. libCount = 0 /\ libCount' = 0 /\ Kept = {} /\ Kept' = {} /\ NoAlias'
    BY <1>1 DEF LibCreate, Kept, NoAlias
  <2> QED
    BY <1>1, <2>1 DEF LibCreate
<1>2. CASE UNCHANGED libVars
  BY <1>2 DEF libVars, Kept, NoAlias
<1> QED
  BY <1>1, <1>2

\* No block is read or freed that is not allocated, and none is lost but those add gives
\* up, in every sequence of calls that deletes only last results.
THEOREM LibraryKeepsMemory == LibSpec => []MemoryKept
<1>1. LibInit => LibInv
  BY LibAssumption, LibInitInv
<1>2. LibInv /\ [LibNext]_libVars => LibInv'
  BY LibAssumption, LibAddStep, LibDeleteStep, LibClearStep, LibGetStep, LibCreateStep
     DEF LibNext
<1>3. LibInv => MemoryKept
  BY DEF LibInv, MemoryKept, FreesTwice, NoAlias
<1> QED
  BY <1>1, <1>2, <1>3, PTL DEF LibSpec

-----------------------------------------------------------------------------
(* FileTools.  What a program has written so far is the changed, or the      *)
(* reversed, part of the input that it has passed.                           *)

Letters == Bytes \union {New}

LibToolInv ==
  /\ tool = "lib" => inFile = given /\ given \in Texts \union {NoFile}
  /\ tool = "libEnded" /\ given # NoFile /\ ~sameFile /\ (\A k \in 1 .. Len(given) : given[k] # Nul)
       => outFile = Changed(given)
  /\ tool \in {"libEnded", "libKilled"} /\ given # NoFile /\ ~sameFile
       /\ (\E k \in 1 .. Len(given) : given[k] = Nul)
       => wild = {} /\ tool = "libEnded"

\* The letters before place are changed and nothing is behind them that was not there before;
\* in a file read and written at once the others are as they were.
SysToolInv ==
  /\ tool = "sys" /\ given # NoFile /\ former # NoFile =>
       /\ given \in Seq(Bytes) /\ outFile \in Seq(Letters) /\ former \in Seq(Letters)
       /\ place \in 1 .. Len(given) + 1 /\ place - 1 <= Len(outFile)
       /\ Len(outFile) <= Len(former) \/ Len(outFile) = place - 1
       /\ \A k \in 1 .. place - 1 : outFile[k] = Change(given[k])
       /\ IF sameFile
          THEN /\ inFile = outFile /\ Len(outFile) = Len(given)
               /\ \A k \in place .. Len(given) : outFile[k] = given[k]
          ELSE inFile = given
  /\ tool = "sys" /\ given = NoFile => inFile = NoFile
  /\ tool = "sysEnded" /\ given # NoFile /\ former # NoFile /\ Len(former) <= Len(given)
       => outFile = Changed(given)

\* Byte i of the output is the i-th from the end of the input.
OneCharInv ==
  /\ tool = "onechar" =>
       /\ inFile = given /\ given \in Seq(Nat) /\ outFile \in Seq(Nat)
       /\ place \in 0 .. Len(given) /\ Len(outFile) = Len(given) - place
       /\ \A i \in 1 .. Len(outFile) : outFile[i] = given[Len(given) - i + 1]
  /\ tool = "onecharEnded" => outFile = Reverse(given)

FilesInv == LibToolInv /\ SysToolInv /\ OneCharInv

\* What a sequence holds, and where, after one more value.
LEMMA AppendOne ==
  ASSUME NEW S, NEW q \in Seq(S), NEW v \in S
  PROVE  /\ Append(q, v) \in Seq(S) /\ Len(Append(q, v)) = Len(q) + 1
         /\ \A k \in 1 .. Len(q) : Append(q, v)[k] = q[k]
         /\ Append(q, v)[Len(q) + 1] = v
         /\ Elements(Append(q, v)) = Elements(q) \union {v}
<1> DEFINE t == Append(q, v)
<1>1. Len(q) \in Nat /\ t \in Seq(S) /\ Len(t) = Len(q) + 1
  OBVIOUS
<1>2. (\A k \in 1 .. Len(q) : t[k] = q[k]) /\ t[Len(q) + 1] = v
  BY <1>1
<1> HIDE DEF t
<1>3. \A k \in 1 .. Len(q) + 1 : k \in 1 .. Len(q) \/ k = Len(q) + 1
  BY <1>1
<1>4. (\A k \in 1 .. Len(q) : k \in 1 .. Len(q) + 1) /\ Len(q) + 1 \in 1 .. Len(q) + 1
  BY <1>1
<1>5. Elements(t) = {t[k] : k \in 1 .. Len(q) + 1}
  BY <1>1 DEF Elements
<1>6. Elements(t) = Elements(q) \union {v}
  BY <1>2, <1>3, <1>4, <1>5 DEF Elements
<1> QED
  BY <1>1, <1>2, <1>6 DEF t

\* A value of a sequence over S is in S.
LEMMA Member ==
  ASSUME NEW S, NEW s \in Seq(S), NEW i \in 1 .. Len(s)
  PROVE  s[i] \in S
  OBVIOUS

\* Sequences of the same length with the same values are the same.
LEMMA SameSequence ==
  ASSUME NEW S, NEW s \in Seq(S), NEW T, NEW t \in Seq(T), Len(s) = Len(t),
         \A i \in 1 .. Len(s) : s[i] = t[i]
  PROVE  s = t
  OBVIOUS

\* Where the values of two sequences are when one is put behind the other.
LEMMA OneBehind ==
  ASSUME NEW S, NEW s \in Seq(S), NEW t \in Seq(S)
  PROVE  /\ s \o t \in Seq(S) /\ Len(s \o t) = Len(s) + Len(t)
         /\ \A i \in 1 .. Len(s) : (s \o t)[i] = s[i]
  OBVIOUS

\* The text is chosen, the files are one or two.
LEMMA ChangeMainStep ==
  ASSUME FilesAssumption, ChangeMain
  PROVE  FilesInv'
<1> USE DEF FilesAssumption
<1>1. /\ tool' \in {"lib", "sys"} /\ inFile' \in Texts \union {NoFile} /\ given' = inFile'
      /\ place' = 1 /\ sameFile' \in BOOLEAN /\ (sameFile' => outFile' = inFile')
      /\ ~sameFile' => outFile' \in {NoFile} \union [1 .. MaxText - 1 -> {New}]
      /\ former' = outFile'
  BY DEF ChangeMain
<1>2. Texts \subseteq Seq(Bytes) /\ Seq(Bytes) \subseteq Seq(Letters)
  <2>1. \A n \in 0 .. MaxText : [1 .. n -> Bytes] \subseteq Seq(Bytes)
    OBVIOUS
  <2>2. Bytes \subseteq Letters
    BY DEF Letters
  <2>3. Texts \subseteq Seq(Bytes)
    BY <2>1 DEF Texts
  <2>4. ASSUME NEW s \in Seq(Bytes)
        PROVE  s \in Seq(Letters)
    <3>1. Len(s) \in Nat /\ s = [k \in 1 .. Len(s) |-> s[k]] /\ \A k \in 1 .. Len(s) : s[k] \in Bytes
      OBVIOUS
    <3>2. \A k \in 1 .. Len(s) : s[k] \in Letters
      BY <2>2, <3>1
    <3> QED
      BY <3>1, <3>2
  <2> QED
    BY <2>3, <2>4
<1>3. \A s \in [1 .. MaxText - 1 -> {New}] : s \in Seq(Letters)
  BY DEF Letters
<1>4. LibToolInv'
  BY <1>1 DEF LibToolInv
<1>5. SysToolInv'
  <2>1. SUFFICES ASSUME given' # NoFile, former' # NoFile
                 PROVE  SysToolInv'
    BY <1>1 DEF SysToolInv
  <2>2. /\ given' \in Seq(Bytes) /\ outFile' \in Seq(Letters)
        /\ Len(given') \in Nat /\ Len(outFile') \in Nat
    <3>1. given' \in Seq(Bytes) /\ outFile' \in Seq(Letters)
      BY <1>1, <1>2, <1>3, <2>1
    <3> QED
      BY <3>1
  <2> QED
    BY <1>1, <2>1, <2>2 DEF SysToolInv
<1>6. OneCharInv'
  BY <1>1 DEF OneCharInv
<1> QED
  BY <1>4, <1>5, <1>6 DEF FilesInv

\* All letters at once, up to the first byte 0 of the text and the memory behind it.
LEMMA ChangeLibStep ==
  ASSUME FilesAssumption, FilesInv, ChangeLib
  PROVE  FilesInv'
<1>1. /\ tool = "lib" /\ tool' \in {"libEnded", "libKilled"} /\ given' = given
      /\ sameFile' = sameFile /\ inFile = given /\ given \in Texts \union {NoFile}
  BY DEF ChangeLib, FilesInv, LibToolInv
<1>2. SUFFICES ASSUME given # NoFile, ~sameFile
               PROVE  /\ tool' = "libEnded" /\ (\A k \in 1 .. Len(given) : given[k] # Nul)
                           => outFile' = Changed(given)
                      /\ (\E k \in 1 .. Len(given) : given[k] = Nul)
                           => wild' = {} /\ tool' = "libEnded"
  <2>1. SysToolInv' /\ OneCharInv'
    BY <1>1 DEF SysToolInv, OneCharInv
  <2>2. LibToolInv'
    BY <1>1, <1>2 DEF LibToolInv
  <2> QED
    BY <2>1, <2>2 DEF FilesInv
<1>3. \A s \in Texts : s \in Seq(Bytes)
  BY DEF Texts, FilesAssumption
<1>4. given \in Seq(Bytes) /\ given \in Texts
  BY <1>1, <1>2, <1>3
<1>5. PICK behind \in Texts :
        LET memory == given \o behind
            killed == \A k \in 1 .. Len(memory) : memory[k] # Nul
        IN /\ wild' = {k \in ScanTo(memory) : k > Len(given) /\ memory[k] = Old}
           /\ \/ /\ ~killed /\ tool' = "libEnded"
                 /\ outFile' = [k \in 1 .. Len(given) |->
                                 IF k \in ScanTo(memory) THEN Change(given[k]) ELSE given[k]]
              \/ (killed \/ wild' # {}) /\ tool' = "libKilled" /\ outFile' = <<>>
  BY <1>1, <1>2 DEF ChangeLib
<1> DEFINE memory == given \o behind
<1>6. /\ Len(memory) \in Nat /\ Len(given) \in Nat /\ Len(given) <= Len(memory)
      /\ \A k \in 1 .. Len(given) : memory[k] = given[k]
  <2>1. behind \in Seq(Bytes) /\ Len(behind) \in Nat /\ Len(given) \in Nat
    BY <1>3, <1>4
  <2>2. memory \in Seq(Bytes) /\ Len(memory) = Len(given) + Len(behind)
        /\ \A k \in 1 .. Len(given) : memory[k] = given[k]
    BY <1>4, <2>1, OneBehind
  <2> QED
    BY <2>1, <2>2
<1>7. /\ wild' = {k \in ScanTo(memory) : k > Len(given) /\ memory[k] = Old}
      /\ \/ /\ ~(\A k \in 1 .. Len(memory) : memory[k] # Nul) /\ tool' = "libEnded"
            /\ outFile' = [k \in 1 .. Len(given) |->
                            IF k \in ScanTo(memory) THEN Change(given[k]) ELSE given[k]]
         \/ /\ (\A k \in 1 .. Len(memory) : memory[k] # Nul) \/ wild' # {}
            /\ tool' = "libKilled" /\ outFile' = <<>>
  BY <1>5
<1> HIDE DEF memory
<1>8. ASSUME tool' = "libEnded", \A k \in 1 .. Len(given) : given[k] # Nul
      PROVE  outFile' = Changed(given)
  <2>1. outFile' = [k \in 1 .. Len(given) |-> IF k \in ScanTo(memory) THEN Change(given[k]) ELSE given[k]]
    BY <1>7, <1>8
  <2>2. ASSUME NEW k \in 1 .. Len(given)
        PROVE  k \in ScanTo(memory)
    <3>1. k \in 1 .. Len(memory) /\ \A l \in 1 .. k : l \in 1 .. Len(given)
      BY <1>6
    <3>2. \A l \in 1 .. k : memory[l] # Nul
      BY <1>6, <1>8, <3>1
    <3> QED
      BY <3>1, <3>2 DEF ScanTo
  <2> QED
    BY <2>1, <2>2 DEF Changed
<1>9. ASSUME NEW m \in 1 .. Len(given), given[m] = Nul
      PROVE  wild' = {} /\ tool' = "libEnded"
  <2>1. m \in 1 .. Len(memory) /\ memory[m] = Nul
    BY <1>6, <1>9
  <2>2. wild' = {}
    <3>1. ASSUME NEW k \in ScanTo(memory), k > Len(given)
          PROVE  FALSE
      <4>1. k \in 1 .. Len(memory) /\ \A l \in 1 .. k : memory[l] # Nul
        BY DEF ScanTo
      <4>2. m \in 1 .. k
        BY <1>6, <3>1, <4>1
      <4> QED
        BY <2>1, <4>1, <4>2
    <3> QED
      BY <1>7, <3>1
  <2> QED
    BY <1>7, <2>1, <2>2
<1> QED
  BY <1>8, <1>9

\* A letter is written at its place, over what is there or behind it.
LEMMA ChangeSysStep ==
  ASSUME FilesAssumption, FilesInv, ChangeSys
  PROVE  FilesInv'
<1> USE DEF FilesAssumption
<1>1. /\ tool = "sys" /\ given' = given /\ former' = former /\ sameFile' = sameFile
      /\ tool' \in {"sys", "sysEnded"}
  BY DEF ChangeSys
<1>2. LibToolInv' /\ OneCharInv'
  BY <1>1 DEF LibToolInv, OneCharInv
<1>3. CASE given = NoFile
  <2>1. inFile = NoFile
    BY <1>1, <1>3 DEF FilesInv, SysToolInv
  <2>2. inFile' = NoFile
    BY <2>1 DEF ChangeSys
  <2> QED
    BY <1>1, <1>2, <1>3, <2>2 DEF SysToolInv, FilesInv
<1>4. CASE given # NoFile /\ former = NoFile
  BY <1>1, <1>2, <1>4 DEF SysToolInv, FilesInv
<1>5. CASE given # NoFile /\ former # NoFile
  <2>1. /\ given \in Seq(Bytes) /\ outFile \in Seq(Letters) /\ former \in Seq(Letters)
        /\ place \in 1 .. Len(given) + 1 /\ place - 1 <= Len(outFile)
        /\ Len(outFile) <= Len(former) \/ Len(outFile) = place - 1
        /\ \A k \in 1 .. place - 1 : outFile[k] = Change(given[k])
        /\ sameFile => /\ inFile = outFile /\ Len(outFile) = Len(given)
                       /\ \A k \in place .. Len(given) : outFile[k] = given[k]
        /\ ~sameFile => inFile = given
    BY <1>1, <1>5 DEF FilesInv, SysToolInv
  <2>2. /\ outFile # NoFile /\ inFile # NoFile
        /\ Len(inFile) = Len(given) /\ Len(given) \in Nat /\ Len(outFile) \in Nat /\ Len(former) \in Nat
    <3>1. \A q \in Seq(Letters) : q # NoFile
      <4>1. Letters \subseteq Nat
        BY DEF Letters, New
      <4>2. NoFile[1] = -1 /\ Len(NoFile) = 1
        BY DEF NoFile
      <4>3. ASSUME NEW q \in Seq(Letters), q = NoFile
            PROVE  FALSE
        <5>1. 1 \in 1 .. Len(q) /\ q[1] = -1
          BY <4>2, <4>3
        <5>2. q[1] \in Letters
          BY <5>1
        <5> QED
          BY <4>1, <5>1, <5>2
      <4> QED
        BY <4>3
    <3> QED
      BY <1>5, <2>1, <3>1
  <2>3. CASE place > Len(inFile)
    <3>1. tool' = "sysEnded" /\ UNCHANGED <<inFile, outFile, place>>
      BY <2>3 DEF ChangeSys
    <3>2. place - 1 = Len(given) /\ Len(given) <= Len(outFile)
      BY <2>1, <2>2, <2>3
    <3>3. \A k \in 1 .. Len(given) : Changed(given)[k] = outFile[k]
      BY <2>1, <3>2 DEF Changed
    <3>4. Len(Changed(given)) = Len(given) /\ Changed(given) \in Seq(Letters)
      BY <2>1, <2>2 DEF Changed, Change, Letters
    <3>5. ASSUME Len(former) <= Len(given)
          PROVE  outFile = Changed(given)
      <4>1. Len(outFile) = Len(given)
        BY <2>1, <2>2, <3>2, <3>5
      <4> QED
        BY <2>1, <2>2, <3>3, <3>4, <4>1
    <3>6. SysToolInv'
      BY <1>1, <1>5, <3>1, <3>5 DEF SysToolInv
    <3> QED
      BY <1>2, <3>6 DEF FilesInv
  <2>4. CASE place <= Len(inFile)
    <3> DEFINE b == Change(inFile[place])
    <3>1. /\ tool' = "sys" /\ place' = place + 1 /\ outFile' = Overwrite(outFile, place, b)
          /\ inFile' = IF sameFile THEN outFile' ELSE inFile
      BY <1>1, <1>5, <2>1, <2>2, <2>4 DEF ChangeSys
    <3>2. place \in 1 .. Len(given) /\ inFile[place] = given[place] /\ given[place] \in Bytes
      BY <2>1, <2>2, <2>4
    <3>3. b = Change(given[place]) /\ b \in Letters
      BY <3>2 DEF Change, Letters
    <3> HIDE DEF b
    <3>4. /\ outFile' \in Seq(Letters) /\ place <= Len(outFile')
          /\ outFile'[place] = b /\ \A k \in 1 .. Len(outFile) : k # place => outFile'[k] = outFile[k]
          /\ place <= Len(outFile) => Len(outFile') = Len(outFile)
          /\ place > Len(outFile) => Len(outFile') = place
      <4>1. CASE place <= Len(outFile)
        <5>1. outFile' = [outFile EXCEPT ![place] = b] /\ place \in 1 .. Len(outFile)
          BY <2>1, <2>2, <3>1, <4>1 DEF Overwrite
        <5> QED
          BY <2>1, <2>2, <3>3, <4>1, <5>1
      <4>2. CASE place > Len(outFile)
        <5>1. outFile' = Append(outFile, b) /\ place = Len(outFile) + 1
          BY <2>1, <2>2, <3>1, <4>2 DEF Overwrite
        <5> QED
          BY <2>1, <2>2, <3>3, <5>1
      <4> QED
        BY <2>1, <2>2, <4>1, <4>2
    <3>5. \A k \in 1 .. place : outFile'[k] = Change(given[k])
      <4>1. TAKE k \in 1 .. place
      <4>2. k = place \/ (k \in 1 .. place - 1 /\ k \in 1 .. Len(outFile) /\ k # place)
        BY <2>1, <2>2
      <4> QED
        BY <2>1, <3>3, <3>4, <4>2
    <3>6. sameFile => /\ inFile' = outFile' /\ Len(outFile') = Len(given)
                      /\ \A k \in place + 1 .. Len(given) : outFile'[k] = given[k]
      <4>1. HAVE sameFile
      <4>2. Len(outFile') = Len(given) /\ inFile' = outFile'
        BY <2>1, <3>1, <3>2, <3>4, <4>1
      <4>3. \A k \in place + 1 .. Len(given) : k \in place .. Len(given) /\ k \in 1 .. Len(outFile) /\ k # place
        BY <2>1, <2>2, <3>2, <4>1
      <4> QED
        BY <2>1, <3>4, <4>1, <4>2, <4>3
    <3>7. place' \in 1 .. Len(given) + 1 /\ place' - 1 = place
      BY <2>2, <3>1, <3>2
    <3>8. Len(outFile') <= Len(former) \/ Len(outFile') = place
      BY <2>1, <2>2, <3>2, <3>4
    <3>9. SysToolInv'
      BY <1>1, <1>5, <2>1, <3>1, <3>4, <3>5, <3>6, <3>7, <3>8 DEF SysToolInv
    <3> QED
      BY <1>2, <3>9 DEF FilesInv
  <2> QED
    BY <2>1, <2>2, <2>3, <2>4
<1> QED
  BY <1>3, <1>4, <1>5

\* Nothing of the output is written before the loops.
LEMMA ReverseMainStep ==
  ASSUME FilesAssumption, FilesInv, ReverseMain \/ ReverseMissing
  PROVE  FilesInv'
<1> USE DEF FilesAssumption
<1>1. tool' \in {"onechar", "block", "notAvailable"} /\ outFile' = <<>>
  BY DEF ReverseMain, ReverseMissing
<1>2. LibToolInv' /\ SysToolInv'
  BY <1>1 DEF LibToolInv, SysToolInv
<1>3. CASE ReverseMissing
  <2>1. tool' = "notAvailable"
    BY <1>3 DEF ReverseMissing
  <2> QED
    BY <1>2, <2>1 DEF FilesInv, OneCharInv
<1>4. CASE ReverseMain
  <2>1. PICK n \in 0 .. MaxSize : inFile' = [k \in 1 .. n |-> k] /\ given' = inFile' /\ place' = n
    BY <1>4 DEF ReverseMain
  <2>2. given' \in Seq(Nat) /\ Len(given') = n /\ n \in Nat
    BY <2>1
  <2>3. OneCharInv'
    BY <1>1, <2>1, <2>2 DEF OneCharInv
  <2> QED
    BY <1>2, <2>3 DEF FilesInv
<1> QED
  BY <1>3, <1>4

\* The bytes are written one by one from the last to the first.
LEMMA OneCharStep ==
  ASSUME FilesAssumption, FilesInv, OneChar
  PROVE  FilesInv'
<1>1. /\ tool = "onechar" /\ tool' \in {"onechar", "onecharEnded"}
      /\ UNCHANGED <<given, former, inFile, sameFile, wild>>
  BY DEF OneChar
<1>2. LibToolInv' /\ SysToolInv'
  BY <1>1 DEF LibToolInv, SysToolInv
<1>3. /\ inFile = given /\ given \in Seq(Nat) /\ outFile \in Seq(Nat)
      /\ place \in 0 .. Len(given) /\ Len(outFile) = Len(given) - place
      /\ \A i \in 1 .. Len(outFile) : outFile[i] = given[Len(given) - i + 1]
  BY <1>1 DEF FilesInv, OneCharInv
<1>4. Len(given) \in Nat
  BY <1>3
<1>5. CASE place > 0
  <2>1. outFile' = Append(outFile, given[place]) /\ place' = place - 1 /\ tool' = "onechar"
    BY <1>1, <1>3, <1>5 DEF OneChar, MoreBytes
  <2>2. given[place] \in Nat /\ place - 1 \in 0 .. Len(given) /\ Len(outFile) + 1 = Len(given) - (place - 1)
    BY <1>3, <1>4, <1>5
  <2>3. /\ outFile' \in Seq(Nat) /\ Len(outFile') = Len(outFile) + 1
        /\ \A i \in 1 .. Len(outFile) : outFile'[i] = outFile[i]
        /\ outFile'[Len(outFile) + 1] = given[place]
    <3>1. outFile \in Seq(Nat) /\ given[place] \in Nat
      BY <1>3, <2>2
    <3>2. /\ Append(outFile, given[place]) \in Seq(Nat) /\ Len(Append(outFile, given[place])) = Len(outFile) + 1
          /\ \A i \in 1 .. Len(outFile) : Append(outFile, given[place])[i] = outFile[i]
          /\ Append(outFile, given[place])[Len(outFile) + 1] = given[place]
      BY <3>1, AppendOne
    <3> QED
      BY <2>1, <3>2
  <2>4. \A i \in 1 .. Len(outFile') : outFile'[i] = given[Len(given) - i + 1]
    <3>1. TAKE i \in 1 .. Len(outFile')
    <3>2. CASE i = Len(outFile) + 1
      <4>1. Len(given) - i + 1 = place
        BY <1>3, <1>4, <3>2
      <4>2. outFile'[i] = given[place]
        BY <2>3, <3>2
      <4> QED
        BY <4>1, <4>2
    <3>3. CASE i # Len(outFile) + 1
      <4>1. i \in 1 .. Len(outFile)
        <5>1. Len(outFile) \in Nat /\ Len(outFile') = Len(outFile) + 1
          BY <1>3, <2>3
        <5> QED
          BY <3>3, <5>1
      <4>2. outFile'[i] = outFile[i]
        BY <2>3, <4>1
      <4> QED
        BY <1>3, <4>1, <4>2
    <3> QED
      BY <3>2, <3>3
  <2>5. OneCharInv'
    BY <1>1, <1>3, <2>1, <2>2, <2>3, <2>4 DEF OneCharInv
  <2> QED
    BY <1>2, <2>5 DEF FilesInv
<1>6. CASE place = 0
  <2>1. outFile' = outFile /\ tool' = "onecharEnded"
    BY <1>1, <1>6 DEF OneChar, MoreBytes
  <2>2. outFile = Reverse(given)
    BY <1>3, <1>4, <1>6 DEF Reverse
  <2>3. OneCharInv'
    BY <1>1, <2>1, <2>2 DEF OneCharInv
  <2> QED
    BY <1>2, <2>3 DEF FilesInv
<1> QED
  BY <1>3, <1>4, <1>5, <1>6

\* Every step of the tools keeps the invariant.
LEMMA FilesInductive ==
  ASSUME FilesAssumption
  PROVE  /\ FilesInit => FilesInv
         /\ FilesInv /\ [FilesNext]_fileVars => FilesInv'
<1>1. FilesInit => FilesInv
  BY DEF FilesInit, FilesInv, LibToolInv, SysToolInv, OneCharInv
<1>2. FilesInv /\ UNCHANGED fileVars => FilesInv'
  BY DEF fileVars, FilesInv, LibToolInv, SysToolInv, OneCharInv
<1>3. FilesInv /\ (FullBlock \/ Remainder) => FilesInv'
  <2>1. SUFFICES ASSUME FullBlock \/ Remainder
                 PROVE  FilesInv'
    OBVIOUS
  <2>2. tool' \in {"block", "blockEnded"}
    BY <2>1 DEF FullBlock, Remainder
  <2> QED
    BY <2>2 DEF FilesInv, LibToolInv, SysToolInv, OneCharInv
<1>4. FilesInv /\ FilesNext => FilesInv'
  BY <1>3, ChangeMainStep, ChangeLibStep, ChangeSysStep, ReverseMainStep, OneCharStep DEF FilesNext
<1> QED
  BY <1>1, <1>2, <1>4

\* lab02/zad01: zad01/lib changes every letter of a text without a byte 0 into another file,
\* if it is not killed, and stays within its buffer for a text with one; zad01/sys changes
\* every letter into a file that is there and not longer, the same file too.
THEOREM EveryLetter == FilesSpec => []LettersChanged
<1>1. FilesInv => LettersChanged
  BY DEF FilesInv, LibToolInv, SysToolInv, LettersChanged
<1> QED
  BY <1>1, FilesInductive, FilesAssumption, PTL DEF FilesSpec

\* lab02/zad02/onechar: the output is the reversed file, whatever its length.
THEOREM FileReversed == FilesSpec => []ReversedByChar
<1>1. FilesInv => ReversedByChar
  BY DEF FilesInv, OneCharInv, ReversedByChar
<1> QED
  BY <1>1, FilesInductive, FilesAssumption, PTL DEF FilesSpec
=============================================================================
