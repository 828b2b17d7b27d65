------------------------- MODULE BarberShop_proofs -------------------------
(***************************************************************************)
(* Proofs about lab07/zad1 for any numbers of barbers, clients, places and *)
(* seats.  The bytes and the semaphores are shared without mutual          *)
(* exclusion, yet each of the statements below is inductive over TypeOK:   *)
(* whatever a racing process does to a byte, it owes the step that repairs *)
(* it, and it is counted as long as it does.                               *)
(***************************************************************************)
EXTENDS BarberShop, FiniteSetTheorems, TLAPS

-----------------------------------------------------------------------------
LEMMA TypeStep ==
  ASSUME ShopAssumption, TypeOK, [Next]_vars
  PROVE  TypeOK'
<1> USE DEF TypeOK, Goto, shared, sems, locals, Processes
<1>a. /\ 0 \in Lobby /\ {0, 1} \subseteq Seats /\ Barbers \intersect Clients = {}
  BY DEF ShopAssumption, Lobby, Seats
<1>b. {"look", "take", "arrive", "waitLobby", "inLobby", "sit", "leaveLobby",
       "waitCut", "inSeat", "served", "left"} \subseteq ClientLabels
  BY DEF ClientLabels
<1>c. {"lookLobby", "lookReserved", "reserve", "lookSeat", "takeSeat", "openSeat", "setMove",
       "call", "calling", "finish", "freeSeat", "unreserve", "rest", "ended"} \subseteq BarberLabels
  BY DEF BarberLabels
<1> USE <1>a, <1>b, <1>c
<1>1. ASSUME NEW c \in Clients, ClientStep(c)
      PROVE  TypeOK'
  <2>1. CASE Look(c)
    BY <2>1 DEF Look
  <2>2. CASE Take(c) \/ LeaveLobby(c)
    BY <2>2 DEF Take, LeaveLobby
  <2>3. CASE Arrive(c)
    BY <2>3 DEF Arrive, Calling
  <2>4. CASE WaitLobby(c) \/ WaitCut(c)
    BY <2>4 DEF WaitLobby, WaitCut
  <2>5. CASE Sit(c)
    BY <2>5 DEF Sit
  <2> QED
    BY <1>1, <2>1, <2>2, <2>3, <2>4, <2>5 DEF ClientStep
<1>2. ASSUME NEW b \in Barbers, BarberStep(b)
      PROVE  TypeOK'
  <2>1. CASE LookLobby(b)
    BY <1>2, <2>1 DEF LookLobby, NextPlace
  <2>2. CASE LookReserved(b)
    BY <1>2, <2>2 DEF LookReserved, NextPlace
  <2>3. CASE Reserve(b)
    BY <2>3 DEF Reserve
  <2>4. CASE LookSeat(b)
    BY <2>4 DEF LookSeat, SeatsToTry
  <2>5. CASE TakeSeat(b) \/ FreeSeat(b)
    BY <2>5 DEF TakeSeat, FreeSeat, FreeByte
  <2>6. CASE OpenSeat(b)
    BY <2>6 DEF OpenSeat
  <2>7. CASE SetMove(b)
    BY <2>7 DEF SetMove
  <2>8. CASE Call(b)
    BY <2>8 DEF Call, GotoAndWake, InLobby
  <2>9. CASE Finish(b)
    BY <2>9 DEF Finish, GotoAndWake, InSeat, SeatToFinish
  <2>10. CASE Unreserve(b)
    BY <2>10 DEF Unreserve, NotReserved, NextPlace
  <2>11. CASE Rest(b)
    <3>1. /\ notFound' \in [Barbers -> Nat]
      BY <2>11 DEF Rest
    <3>2. /\ pc' = [pc EXCEPT ![b] = "ended"] \/ pc' = [pc EXCEPT ![b] = "lookLobby"]
          /\ at' = at \/ at' = [at EXCEPT ![b] = 0]
          /\ found' = found \/ found' = [found EXCEPT ![b] = FALSE]
          /\ UNCHANGED <<shared, sems, seat>>
      BY <2>11 DEF Rest
    <3>3. at' \in [Processes -> Lobby]
      <4>1. CASE at' = at
        BY <4>1
      <4>2. CASE at' = [at EXCEPT ![b] = 0]
        BY <4>2
      <4> QED
        BY <3>2, <4>1, <4>2
    <3>5. found' \in [Barbers -> BOOLEAN]
      <4>1. CASE found' = found
        BY <4>1
      <4>2. CASE found' = [found EXCEPT ![b] = FALSE]
        BY <4>2
      <4> QED
        BY <3>2, <4>1, <4>2
    <3>4. /\ pc' \in [Processes -> ClientLabels \union BarberLabels]
          /\ \A c \in Clients : pc'[c] \in ClientLabels
          /\ \A d \in Barbers : pc'[d] \in BarberLabels
      BY <3>2
    <3> QED
      BY <3>1, <3>2, <3>3, <3>4, <3>5
  <2> QED
    BY <1>2, <2>1, <2>2, <2>3, <2>4, <2>5, <2>6, <2>7, <2>8, <2>9, <2>10, <2>11 DEF BarberStep
<1>3. CASE UNCHANGED vars
  BY <1>3 DEF vars
<1> QED
  BY <1>1, <1>2, <1>3 DEF Next

-----------------------------------------------------------------------------
(* A process that moves on without waking another, and a process that wakes *)
(* others, changes no barber's place or seat but its own.                   *)
BarberFrame(b) == \A d \in Barbers \ {b} :
  /\ pc'[d] = pc[d] \/ (pc[d] = "calling" /\ pc'[d] = "finish")
  /\ at'[d] = at[d] /\ seat'[d] = seat[d]

LEMMA ClientFrame ==
  ASSUME ShopAssumption, TypeOK, NEW c \in Clients, ClientStep(c)
  PROVE  /\ UNCHANGED <<seats, move, seatsSem>>
         /\ \A b \in Barbers : BarberFrame(c) /\ b # c
<1> USE DEF TypeOK, Goto, shared, sems, locals, Processes, ShopAssumption, BarberFrame
<1>1. c \notin Barbers
  OBVIOUS
<1>2. CASE Look(c)
  BY <1>1, <1>2 DEF Look
<1>3. CASE Arrive(c)
  BY <1>1, <1>3 DEF Arrive, Calling
<1>4. CASE Take(c) \/ LeaveLobby(c) \/ WaitLobby(c) \/ WaitCut(c) \/ Sit(c)
  BY <1>1, <1>4 DEF Take, LeaveLobby, WaitLobby, WaitCut, Sit
<1> QED
  BY <1>2, <1>3, <1>4 DEF ClientStep

LEMMA BarberFrames ==
  ASSUME ShopAssumption, TypeOK, NEW b \in Barbers, BarberStep(b)
  PROVE  BarberFrame(b)
<1> USE DEF TypeOK, Goto, shared, sems, locals, Processes, BarberFrame
<1>1. CASE LookLobby(b) \/ LookReserved(b) \/ Unreserve(b)
  BY <1>1 DEF LookLobby, LookReserved, Unreserve, NotReserved, NextPlace
<1>2. CASE Reserve(b) \/ LookSeat(b) \/ TakeSeat(b) \/ OpenSeat(b) \/ SetMove(b) \/ FreeSeat(b)
  BY <1>2 DEF Reserve, LookSeat, TakeSeat, OpenSeat, SetMove, FreeSeat
<1>3. CASE Call(b)
  BY <1>3 DEF Call, GotoAndWake, InLobby, ShopAssumption
<1>4. CASE Finish(b)
  BY <1>4 DEF Finish, GotoAndWake, InSeat, ShopAssumption
<1>5. CASE Rest(b)
  BY <1>5 DEF Rest
<1> QED
  BY <1>1, <1>2, <1>3, <1>4, <1>5, BarberStep(b) DEF BarberStep

-----------------------------------------------------------------------------
(* Seats and reservations: a step that sets a byte is made by a barber who  *)
(* then holds it, and the step that ends his hold clears it.                *)
LEMMA NoSeatLostStep ==
  ASSUME ShopAssumption, TypeOK, NoSeatLost, [Next]_vars
  PROVE  NoSeatLost'
<1> USE DEF NoSeatLost, At
<1>1. ASSUME NEW c \in Clients, ClientStep(c)
      PROVE  NoSeatLost'
  BY <1>1, ClientFrame DEF BarberFrame
<1>2. ASSUME NEW b \in Barbers, BarberStep(b)
      PROVE  NoSeatLost'
  <2> USE BarberFrames, <1>2 DEF BarberFrame, Goto, TypeOK, Processes
  <2>1. CASE LookLobby(b) \/ LookReserved(b) \/ Unreserve(b)
    BY <2>1 DEF LookLobby, LookReserved, Unreserve, NotReserved, NextPlace, shared
  <2>2. CASE Reserve(b) \/ LookSeat(b)
    BY <2>2 DEF Reserve, LookSeat, shared
  <2>3. CASE TakeSeat(b) \/ FreeSeat(b)
    BY <2>3 DEF TakeSeat, FreeSeat, FreeByte, locals
  <2>4. CASE OpenSeat(b) \/ SetMove(b)
    BY <2>4 DEF OpenSeat, SetMove, shared, locals
  <2>5. CASE Call(b) \/ Finish(b)
    BY <2>5 DEF Call, Finish, GotoAndWake, shared, locals
  <2>6. CASE Rest(b)
    BY <2>6 DEF Rest, shared
  <2> QED
    BY <2>1, <2>2, <2>3, <2>4, <2>5, <2>6 DEF BarberStep
<1>3. CASE UNCHANGED vars
  BY <1>3 DEF vars, shared, locals
<1> QED
  BY <1>1, <1>2, <1>3 DEF Next

LEMMA NoReservationLostStep ==
  ASSUME ShopAssumption, TypeOK, NoReservationLost, [Next]_vars
  PROVE  NoReservationLost'
<1> USE DEF NoReservationLost, Serving
<1>1. ASSUME NEW c \in Clients, ClientStep(c)
      PROVE  NoReservationLost'
  BY <1>1, ClientFrame DEF BarberFrame
<1>2. ASSUME NEW b \in Barbers, BarberStep(b)
      PROVE  NoReservationLost'
  <2> USE BarberFrames, <1>2 DEF BarberFrame, Goto, TypeOK, Processes
  <2>1. CASE LookLobby(b) \/ LookReserved(b)
    BY <2>1 DEF LookLobby, LookReserved, NextPlace, shared
  <2>2. CASE Reserve(b) \/ SetMove(b)
    BY <2>2 DEF Reserve, SetMove, locals
  <2>3. CASE LookSeat(b)
    BY <2>3 DEF LookSeat, shared
  <2>4. CASE TakeSeat(b) \/ FreeSeat(b) \/ OpenSeat(b)
    BY <2>4 DEF TakeSeat, FreeSeat, OpenSeat, shared, locals
  <2>5. CASE Call(b) \/ Finish(b)
    BY <2>5 DEF Call, Finish, GotoAndWake, shared, locals
  <2>6. CASE Unreserve(b)
    BY <2>6 DEF Unreserve, NotReserved, NextPlace
  <2>7. CASE Rest(b)
    BY <2>7 DEF Rest, shared
  <2> QED
    BY <2>1, <2>2, <2>3, <2>4, <2>5, <2>6, <2>7 DEF BarberStep
<1>3. CASE UNCHANGED vars
  BY <1>3 DEF vars, shared, locals
<1> QED
  BY <1>1, <1>2, <1>3 DEF Next

-----------------------------------------------------------------------------
(* The seats' semaphores: the barbers counted at a seat are a finite set    *)
(* that OpenSeat adds a barber to, Finish takes him out of, and every other *)
(* step leaves as it is.                                                    *)
LEMMA CuttersFinite ==
  ASSUME ShopAssumption, NEW j
  PROVE  IsFiniteSet(Cutters(j)) /\ Cardinality(Cutters(j)) \in Nat
<1>1. Cutters(j) \subseteq Barbers /\ IsFiniteSet(Barbers)
  BY DEF Cutters, ShopAssumption
<1> QED
  BY <1>1, FS_Subset, FS_CardinalityType

LEMMA SeatSemStep ==
  ASSUME ShopAssumption, TypeOK, SeatSemCountsBarbers, [Next]_vars
  PROVE  SeatSemCountsBarbers'
<1> USE DEF SeatSemCountsBarbers
<1>1. ASSUME seatsSem' = seatsSem, \A j \in Seats : Cutters(j)' = Cutters(j)
      PROVE  SeatSemCountsBarbers'
  BY <1>1
<1>2. ASSUME NEW c \in Clients, ClientStep(c)
      PROVE  SeatSemCountsBarbers'
  <2>1. \A j \in Seats : Cutters(j)' = Cutters(j)
    BY <1>2, ClientFrame DEF BarberFrame, Cutters, At
  <2> QED
    BY <1>1, <1>2, <2>1, ClientFrame
<1>3. ASSUME NEW b \in Barbers, BarberStep(b)
      PROVE  SeatSemCountsBarbers'
  <2> USE BarberFrames, <1>3 DEF BarberFrame, Goto, TypeOK, Processes
  <2>0. PICK j \in Seats : seat[b] = j
    OBVIOUS
  <2>1. CASE OpenSeat(b)
    <3>1. b \notin Cutters(j) /\ Cutters(j)' = Cutters(j) \union {b}
      BY <2>0, <2>1 DEF OpenSeat, Cutters, At, locals
    <3>2. Cardinality(Cutters(j)') = Cardinality(Cutters(j)) + 1
      <4> DEFINE C == Cutters(j)
      <4>1. IsFiniteSet(C)
        BY CuttersFinite
      <4>2. b \notin C => Cardinality(C \union {b}) = Cardinality(C) + 1
        BY <4>1, FS_AddElement
      <4> QED
        BY <3>1, <4>2
    <3>3. \A k \in Seats \ {j} : Cutters(k)' = Cutters(k) /\ seatsSem'[k] = seatsSem[k]
      BY <2>0, <2>1 DEF OpenSeat, Cutters, At, locals
    <3>4. seatsSem'[j] = seatsSem[j] + 1
      BY <2>0, <2>1 DEF OpenSeat
    <3> QED
      BY <3>2, <3>3, <3>4, CuttersFinite
  <2>2. CASE Finish(b)
    <3>1. b \in Cutters(j) /\ Cutters(j)' = Cutters(j) \ {b}
      BY <2>0, <2>2 DEF Finish, GotoAndWake, Cutters, At, locals
    <3>2. Cardinality(Cutters(j)') = Cardinality(Cutters(j)) - 1
      BY <3>1, CuttersFinite, FS_RemoveElement
    <3>3. \A k \in Seats \ {j} : Cutters(k)' = Cutters(k) /\ seatsSem'[k] = seatsSem[k]
      BY <2>0, <2>2 DEF Finish, SeatToFinish, GotoAndWake, Cutters, At, locals
    <3>4. seatsSem'[j] = seatsSem[j] - 1
      BY <2>0, <2>2 DEF Finish, SeatToFinish
    <3> QED
      BY <3>2, <3>3, <3>4, CuttersFinite
  <2>3. CASE LookLobby(b) \/ LookReserved(b) \/ Unreserve(b)
    <3>1. seatsSem' = seatsSem /\ pc[b] \in {"lookLobby", "lookReserved", "unreserve"}
          /\ pc'[b] \in {"lookLobby", "lookReserved", "reserve", "rest"}
      BY <2>3 DEF LookLobby, LookReserved, Unreserve, NotReserved, NextPlace, sems
    <3>2. \A s \in Seats : Cutters(s)' = Cutters(s)
      BY <3>1 DEF Cutters, At
    <3> QED
      BY <1>1, <3>1, <3>2
  <2>4. CASE Reserve(b) \/ LookSeat(b) \/ TakeSeat(b) \/ FreeSeat(b) \/ Rest(b)
    <3>1. seatsSem' = seatsSem
          /\ pc[b] \in {"reserve", "lookSeat", "takeSeat", "freeSeat", "rest"}
          /\ pc'[b] \in {"lookSeat", "takeSeat", "openSeat", "unreserve", "ended", "lookLobby"}
      BY <2>4 DEF Reserve, LookSeat, TakeSeat, FreeSeat, Rest, sems
    <3>2. \A s \in Seats : Cutters(s)' = Cutters(s)
      BY <3>1 DEF Cutters, At
    <3> QED
      BY <1>1, <3>1, <3>2
  <2>5. CASE SetMove(b) \/ Call(b)
    <3>1. /\ seatsSem' = seatsSem /\ seat' = seat
          /\ pc[b] \in {"setMove", "call"} /\ pc'[b] \in {"call", "calling", "finish"}
      BY <2>5 DEF SetMove, Call, GotoAndWake, sems, locals
    <3>2. \A s \in Seats : Cutters(s)' = Cutters(s)
      BY <3>1 DEF Cutters, At
    <3> QED
      BY <1>1, <3>1, <3>2
  <2> QED
    BY <2>1, <2>2, <2>3, <2>4, <2>5 DEF BarberStep
<1>4. CASE UNCHANGED vars
  BY <1>1, <1>4 DEF vars, sems, locals, Cutters, At
<1> QED
  BY <1>2, <1>3, <1>4 DEF Next

-----------------------------------------------------------------------------
(* The semaphores of the lobby: an arrival raises the semaphore or answers  *)
(* a barber who calls already, and a client waits until the semaphore is 0, *)
(* which it is when as many calls have been made as clients have arrived.   *)
LEMMA ArrivedFinite ==
  ASSUME ShopAssumption, NEW i
  PROVE  /\ IsFiniteSet(Arrived(i)) /\ Cardinality(Arrived(i)) \in Nat
         /\ IsFiniteSet(PassedOn(i)) /\ Cardinality(PassedOn(i)) \in Nat
         /\ Cardinality(PassedOn(i)) <= Cardinality(Arrived(i))
<1>1. Arrived(i) \subseteq Clients /\ PassedOn(i) \subseteq Arrived(i) /\ IsFiniteSet(Clients)
  BY DEF Arrived, PassedOn, ShopAssumption
<1>2. IsFiniteSet(Arrived(i))
  BY <1>1, FS_Subset
<1> QED
  BY <1>1, <1>2, FS_Subset, FS_CardinalityType

\* At every place: nothing happens, a client arrives, a barber calls one who has arrived,
\* or a client goes on because every client who has arrived has been called.
PlaceStep(i) ==
  \/ /\ Arrived(i)' = Arrived(i) /\ PassedOn(i)' = PassedOn(i)
     /\ lobbySem'[i] = lobbySem[i] /\ calls'[i] = calls[i]
  \/ /\ \E c : c \notin Arrived(i) /\ Arrived(i)' = Arrived(i) \union {c}
     /\ PassedOn(i)' = PassedOn(i)
     /\ \/ lobbySem'[i] = lobbySem[i] + 1 /\ calls'[i] = calls[i]
        \/ lobbySem'[i] = lobbySem[i] /\ calls'[i] = calls[i] + 1
  \/ /\ Arrived(i)' = Arrived(i)
     /\ PassedOn(i)' = PassedOn(i) \/ lobbySem'[i] = 0
     /\ lobbySem'[i] + calls'[i] = lobbySem[i] + calls[i]
     /\ calls'[i] >= calls[i]

LEMMA ClientPlaceStep ==
  ASSUME ShopAssumption, TypeOK, NEW c \in Clients, ClientStep(c), NEW i \in Lobby
  PROVE  PlaceStep(i)
<1> USE DEF TypeOK, Goto, shared, sems, locals, Processes, ShopAssumption, Arrived, PassedOn
<1>1. CASE Look(c)
  <2>1. c \notin Arrived(i) /\ c \notin Arrived(i)'
    BY <1>1 DEF Look
  <2>2. \A d \in Clients \ {c} : pc'[d] = pc[d] /\ at'[d] = at[d]
    BY <1>1 DEF Look
  <2>3. Arrived(i)' = Arrived(i) /\ PassedOn(i)' = PassedOn(i)
    BY <2>1, <2>2
  <2> QED
    BY <1>1, <2>3, Zenon DEF Look, PlaceStep
<1>2. CASE Take(c) \/ LeaveLobby(c) \/ Sit(c) \/ WaitCut(c)
  <2>1. Arrived(i)' = Arrived(i) /\ PassedOn(i)' = PassedOn(i)
    BY <1>2 DEF Take, LeaveLobby, Sit, WaitCut
  <2> QED
    BY <1>2, <2>1, Zenon DEF Take, LeaveLobby, Sit, WaitCut, PlaceStep
<1>3. CASE WaitLobby(c)
  <2>1. Arrived(i)' = Arrived(i) /\ (PassedOn(i)' = PassedOn(i) \/ lobbySem[i] = 0)
    BY <1>3 DEF WaitLobby
  <2>2. lobbySem' = lobbySem /\ calls' = calls
    BY <1>3 DEF WaitLobby
  <2> QED
    BY <2>1, <2>2 DEF PlaceStep
<1>4. CASE Arrive(c)
  <2>1. /\ \A d \in Clients \ {c} : pc'[d] = pc[d]
        /\ pc[c] = "arrive" /\ pc'[c] = "waitLobby" /\ at' = at
    BY <1>4 DEF Arrive, Calling
  <2>2. PassedOn(i)' = PassedOn(i)
    BY <2>1
  <2>3. CASE at[c] = i
    <3>1. c \notin Arrived(i) /\ Arrived(i)' = Arrived(i) \union {c}
      BY <2>1, <2>3
    <3>2. \/ lobbySem'[i] = lobbySem[i] + 1 /\ calls'[i] = calls[i]
          \/ lobbySem'[i] = lobbySem[i] /\ calls'[i] = calls[i] + 1
      BY <1>4, <2>3 DEF Arrive
    <3> QED
      BY <2>2, <3>1, <3>2, Zenon DEF PlaceStep
  <2>4. CASE at[c] # i
    <3>1. Arrived(i)' = Arrived(i)
      BY <2>1, <2>4
    <3>2. lobbySem'[i] = lobbySem[i] /\ calls'[i] = calls[i]
      BY <1>4, <2>4 DEF Arrive
    <3> QED
      BY <2>2, <3>1, <3>2, Zenon DEF PlaceStep
  <2> QED
    BY <2>3, <2>4
<1> QED
  BY <1>1, <1>2, <1>3, <1>4 DEF ClientStep

LEMMA BarberPlaceStep ==
  ASSUME ShopAssumption, TypeOK, NEW b \in Barbers, BarberStep(b), NEW i \in Lobby
  PROVE  PlaceStep(i)
<1> USE DEF TypeOK, Goto, shared, sems, locals, Processes, ShopAssumption
<1>1. CASE Call(b) /\ lobbySem[at[b]] > 0 /\ at[b] = i
  <2>1. /\ lobbySem'[i] + calls'[i] = lobbySem[i] + calls[i] /\ calls'[i] >= calls[i]
        /\ lobbySem'[i] = lobbySem[i] - 1 /\ at' = at
    BY <1>1 DEF Call
  <2>2. \A c \in Clients :
          pc'[c] = IF lobbySem[i] = 1 /\ pc[c] = "inLobby" /\ at[c] = i THEN "sit" ELSE pc[c]
    BY <1>1 DEF Call, GotoAndWake, InLobby
  <2>3. Arrived(i)' = Arrived(i)
    BY <2>1, <2>2 DEF Arrived
  <2>4. PassedOn(i)' = PassedOn(i) \/ lobbySem'[i] = 0
    BY <2>1, <2>2, <2>3 DEF PassedOn, Arrived
  <2> QED
    BY <2>1, <2>3, <2>4, Zenon DEF PlaceStep
<1>2. CASE Call(b) /\ (lobbySem[at[b]] = 0 \/ at[b] # i)
  <2>1. lobbySem'[i] = lobbySem[i] /\ calls'[i] = calls[i] /\ at' = at
    BY <1>2 DEF Call
  <2>2. \A c \in Clients : at[c] = i => pc'[c] = pc[c]
    BY <1>2 DEF Call, GotoAndWake, InLobby
  <2>3. Arrived(i)' = Arrived(i) /\ PassedOn(i)' = PassedOn(i)
    BY <2>1, <2>2 DEF Arrived, PassedOn
  <2> QED
    BY <2>1, <2>3, Zenon DEF PlaceStep
<1>3. CASE Finish(b)
  <2>1. /\ UNCHANGED <<lobbySem, calls, at>>
        /\ \A c \in Clients : pc'[c] = pc[c] \/ (pc[c] = "inSeat" /\ pc'[c] = "served")
    BY <1>3 DEF Finish, GotoAndWake, InSeat
  <2>2. Arrived(i)' = Arrived(i) /\ PassedOn(i)' = PassedOn(i)
    BY <2>1 DEF Arrived, PassedOn
  <2> QED
    BY <2>1, <2>2, Zenon DEF PlaceStep
<1>4. CASE ~Call(b) /\ ~Finish(b)
  <2>1. /\ UNCHANGED <<lobbySem, calls>>
        /\ \A c \in Clients : pc'[c] = pc[c] /\ at'[c] = at[c]
    <3>1. CASE LookLobby(b) \/ LookReserved(b) \/ Unreserve(b)
      BY <3>1 DEF LookLobby, LookReserved, Unreserve, NextPlace
    <3>2. CASE Reserve(b) \/ LookSeat(b) \/ TakeSeat(b) \/ OpenSeat(b) \/ SetMove(b) \/ FreeSeat(b)
      BY <3>2 DEF Reserve, LookSeat, TakeSeat, OpenSeat, SetMove, FreeSeat
    <3>3. CASE Rest(b)
      BY <3>3 DEF Rest
    <3> QED
      BY <1>4, <3>1, <3>2, <3>3 DEF BarberStep
  <2>2. Arrived(i)' = Arrived(i) /\ PassedOn(i)' = PassedOn(i)
    BY <2>1 DEF Arrived, PassedOn
  <2> QED
    BY <2>1, <2>2, Zenon DEF PlaceStep
<1>5. lobbySem[at[b]] = 0 \/ lobbySem[at[b]] > 0
  OBVIOUS
<1> QED
  BY <1>1, <1>2, <1>3, <1>4, <1>5

LEMMA EveryClientCalledStep ==
  ASSUME ShopAssumption, TypeOK, TypeOK', EveryClientCalled, [Next]_vars
  PROVE  EveryClientCalled'
<1>1. ASSUME NEW i \in Lobby
      PROVE  PlaceStep(i)
  <2>1. CASE UNCHANGED vars
    BY <2>1 DEF vars, sems, locals, Arrived, PassedOn, PlaceStep
  <2> QED
    BY <2>1, ClientPlaceStep, BarberPlaceStep DEF Next
<1>2. ASSUME NEW i \in Lobby
      PROVE  /\ Cardinality(PassedOn(i)') <= calls'[i]
             /\ lobbySem'[i] + calls'[i] = Cardinality(Arrived(i)')
  <2> DEFINE A == Arrived(i)
             P == PassedOn(i)
  <2>0. /\ IsFiniteSet(Clients)
        /\ A' \subseteq Clients /\ P' \subseteq A'
    BY DEF Arrived, PassedOn, ShopAssumption
  <2>a. IsFiniteSet(A')
    BY <2>0, FS_Subset
  <2>1. /\ IsFiniteSet(A) /\ Cardinality(A) \in Nat /\ Cardinality(P) \in Nat
        /\ Cardinality(P') \in Nat /\ Cardinality(P') <= Cardinality(A')
    BY <2>0, <2>a, ArrivedFinite, FS_Subset, FS_CardinalityType
  <2>2. Cardinality(P) <= calls[i] /\ lobbySem[i] + calls[i] = Cardinality(A)
    BY DEF EveryClientCalled
  <2>3. /\ lobbySem[i] \in Nat /\ calls[i] \in Nat /\ lobbySem'[i] \in Nat /\ calls'[i] \in Nat
    BY DEF TypeOK
  <2>4. \A c : c \notin A => Cardinality(A \union {c}) = Cardinality(A) + 1
    BY <2>1, FS_AddElement
  <2>5. PlaceStep(i)
    BY <1>1
  <2> QED
    BY <2>1, <2>2, <2>3, <2>4, <2>5 DEF PlaceStep
<1> QED
  BY <1>2 DEF EveryClientCalled

-----------------------------------------------------------------------------
LEMMA InitShop ==
  ASSUME ShopAssumption, Init
  PROVE  TypeOK /\ SeatSemCountsBarbers /\ NoSeatLost /\ NoReservationLost /\ EveryClientCalled
<1> USE DEF Init, Processes, Lobby, Seats, ShopAssumption
<1>0. PICK forked \in SUBSET Processes : pc = [p \in Processes |-> Start(p, forked)]
  OBVIOUS
<1>1. TypeOK
  BY <1>0 DEF TypeOK, ClientLabels, BarberLabels, Start
<1>2. \A j \in Seats : Cutters(j) = {}
  BY <1>0 DEF Cutters, At, Start
<1>3. SeatSemCountsBarbers
  BY <1>2, FS_EmptySet DEF SeatSemCountsBarbers
<1>4. \A i : Arrived(i) = {} /\ PassedOn(i) = {}
  BY <1>0 DEF Arrived, PassedOn, Start
<1>5. \A i \in Lobby : lobbySem[i] = 0 /\ calls[i] = 0
  OBVIOUS
<1>6. Cardinality({}) = 0
  BY FS_EmptySet
<1>7. EveryClientCalled
  <2> HIDE DEF Init
  <2> QED
    BY <1>4, <1>5, <1>6 DEF EveryClientCalled
<1> QED
  BY <1>1, <1>3, <1>7 DEF NoSeatLost, NoReservationLost

\* Every index stays inside its array, for shops of any size.
THEOREM TypeCorrect == Spec => []TypeOK
<1>1. Init => TypeOK
  BY InitShop, ShopAssumption
<1>2. TypeOK /\ [Next]_vars => TypeOK'
  BY TypeStep, ShopAssumption
<1> QED
  BY <1>1, <1>2, PTL DEF Spec

\* A seat's semaphore is the number of barbers cutting there.
THEOREM SeatSemCorrect == Spec => []SeatSemCountsBarbers
<1>1. Init => SeatSemCountsBarbers
  BY InitShop, ShopAssumption
<1>2. TypeOK /\ SeatSemCountsBarbers /\ [Next]_vars => SeatSemCountsBarbers'
  BY SeatSemStep, ShopAssumption
<1> QED
  BY <1>1, <1>2, TypeCorrect, PTL DEF Spec

\* No race of the barbers loses a seat.
THEOREM SeatsKept == Spec => []NoSeatLost
<1>1. Init => NoSeatLost
  BY InitShop, ShopAssumption
<1>2. TypeOK /\ NoSeatLost /\ [Next]_vars => NoSeatLost'
  BY NoSeatLostStep, ShopAssumption
<1> QED
  BY <1>1, <1>2, TypeCorrect, PTL DEF Spec

\* No race of the barbers leaves a place of the lobby reserved for ever.
THEOREM ReservationsKept == Spec => []NoReservationLost
<1>1. Init => NoReservationLost
  BY InitShop, ShopAssumption
<1>2. TypeOK /\ NoReservationLost /\ [Next]_vars => NoReservationLost'
  BY NoReservationLostStep, ShopAssumption
<1> QED
  BY <1>1, <1>2, TypeCorrect, PTL DEF Spec

\* Both, as the run checks them: whoever damages a byte by a race still repairs it.
THEOREM BytesKept == Spec => []NothingLost
<1> QED
  BY SeatsKept, ReservationsKept, PTL DEF NothingLost

\* No client leaves the lobby without a call of its own, whatever place it shares.
THEOREM CallsMatched == Spec => []EveryClientCalled
<1>1. Init => EveryClientCalled
  BY InitShop, ShopAssumption
<1>2. TypeOK /\ TypeOK' /\ EveryClientCalled /\ [Next]_vars => EveryClientCalled'
  BY EveryClientCalledStep, ShopAssumption
<1> QED
  BY <1>1, <1>2, TypeCorrect, PTL DEF Spec

\* A barber who has cut never blocks in decrement_sem (barber.c:67): the semaphore of
\* his seat counts him.
THEOREM FinishNeverBlocks ==
  Spec => [](\A b \in Barbers : pc[b] = "finish" => seatsSem[seat[b]] > 0)
<1>1. TypeOK /\ SeatSemCountsBarbers => \A b \in Barbers : pc[b] = "finish" => seatsSem[seat[b]] > 0
  <2> SUFFICES ASSUME TypeOK, SeatSemCountsBarbers, NEW b \in Barbers, pc[b] = "finish"
               PROVE  seatsSem[seat[b]] > 0
    OBVIOUS
  <2>1. b \in Cutters(seat[b]) /\ seat[b] \in Seats
    BY DEF Cutters, At, TypeOK, Processes
  <2>2. Cardinality(Cutters(seat[b])) # 0
    BY <2>1, CuttersFinite, ShopAssumption, FS_EmptySet
  <2> QED
    BY <2>1, <2>2, CuttersFinite, ShopAssumption DEF SeatSemCountsBarbers
<1> QED
  BY <1>1, TypeCorrect, SeatSemCorrect, PTL
=============================================================================
