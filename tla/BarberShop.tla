----------------------------- MODULE BarberShop -----------------------------
(***************************************************************************)
(* lab07/zad1: barber and client processes share byte arrays in SysV       *)
(* segments and two sets of SysV semaphores.  Every access to a shared     *)
(* byte and every semop is a step of its own.  barber.c:19 and main.c:22   *)
(* attach reserved_shm under MOVE_QUEUE_NAME, so move and reserved are the *)
(* same bytes: the variable move stands for both.  The random haircut kept *)
(* in lobby_shm is only a non-zero byte and a time to sleep: the client    *)
(* that wrote it takes its place.                                          *)
(***************************************************************************)
EXTENDS Naturals, FiniteSets

CONSTANTS
  Barbers, Clients,                \* the processes main forks
  Nobody,                          \* a zero byte in lobby_shm
  LOBBY_CAPACITY, SEATS_NUMBER,
  PATIENCE                         \* the 5 of barber.c:80

ASSUME ShopAssumption ==
  /\ LOBBY_CAPACITY \in Nat \ {0} /\ SEATS_NUMBER \in Nat \ {0, 1} /\ PATIENCE \in Nat \ {0}
  /\ Barbers \intersect Clients = {} /\ Nobody \notin Clients
  /\ IsFiniteSet(Barbers) /\ IsFiniteSet(Clients)

VARIABLES
  pc,                  \* where each process is
  lobby, seats, move,  \* the shared segments
  lobbySem, seatsSem,  \* the semaphore sets
  at,                  \* i: the place of the lobby a process deals with
  seat,                \* j in the barber, seat_id in the client
  found, notFound,     \* the barber's flag and its count of empty passes
  calls                \* history: decrements of each lobby semaphore

shared == <<lobby, seats, move>>
sems   == <<lobbySem, seatsSem, calls>>
locals == <<at, seat, found, notFound>>
vars   == <<pc, shared, sems, locals>>

Processes == Barbers \union Clients
Lobby == 0 .. LOBBY_CAPACITY - 1
Seats == 0 .. SEATS_NUMBER - 1

ClientLabels == {"look", "take", "arrive", "waitLobby", "inLobby", "sit", "leaveLobby",
                 "waitCut", "inSeat", "served", "left"}
BarberLabels == {"lookLobby", "lookReserved", "reserve", "lookSeat", "takeSeat", "openSeat",
                 "setMove", "call", "calling", "finish", "freeSeat", "unreserve", "rest",
                 "ended"}

\* fork may fail and main does not look (main.c:65, 71): such a process is missing from
\* the start, as if it had ended.
Start(p, forked) == IF p \in Clients
                    THEN IF p \in forked THEN "look" ELSE "left"
                    ELSE IF p \in forked THEN "lookLobby" ELSE "ended"

Init ==
  /\ \E forked \in SUBSET Processes : pc = [p \in Processes |-> Start(p, forked)]
  /\ lobby = [i \in Lobby |-> Nobody]
  /\ seats = [j \in Seats |-> 0]
  /\ move = [i \in Lobby |-> 0]
  /\ lobbySem = [i \in Lobby |-> 0] /\ seatsSem = [j \in Seats |-> 0]
  /\ at = [p \in Processes |-> 0] /\ seat = [p \in Processes |-> 0]
  /\ found = [b \in Barbers |-> FALSE]
  /\ notFound = [b \in Barbers |-> 0]
  /\ calls = [i \in Lobby |-> 0]

Goto(p, from, to) == pc[p] = from /\ pc' = [pc EXCEPT ![p] = to]

-----------------------------------------------------------------------------
(* Semaphores.  The kernel completes a blocked semop in the same step that  *)
(* makes it possible: waking is part of the operation that wakes.           *)

\* Move p on, and with it every process it wakes.
GotoAndWake(p, to, woken, dest) ==
  pc' = [q \in Processes |-> IF q = p THEN to ELSE IF q \in woken THEN dest ELSE pc[q]]

InLobby(i) == {c \in Clients : pc[c] = "inLobby" /\ at[c] = i}
InSeat(j)  == {c \in Clients : pc[c] = "inSeat" /\ seat[c] = j}
Calling(i) == {b \in Barbers : pc[b] = "calling" /\ at[b] = i}

-----------------------------------------------------------------------------
(* Clients *)

Look(c) ==
  /\ pc[c] = "look"
  /\ \/ lobby[at[c]] = Nobody /\ Goto(c, "look", "take") /\ UNCHANGED at
     \/ lobby[at[c]] # Nobody /\ at[c] + 1 \in Lobby
        /\ at' = [at EXCEPT ![c] = @ + 1] /\ UNCHANGED pc
     \/ lobby[at[c]] # Nobody /\ at[c] + 1 \notin Lobby
        /\ Goto(c, "look", "left") /\ UNCHANGED at
  /\ UNCHANGED <<shared, sems, seat, found, notFound>>

Take(c) ==
  /\ Goto(c, "take", "arrive")
  /\ lobby' = [lobby EXCEPT ![at[c]] = c]
  /\ UNCHANGED <<seats, move, sems, locals>>

\* increment_sem(lobby_sem, i): a barber already blocked on it goes on at once.
Arrive(c) ==
  /\ pc[c] = "arrive"
  /\ \/ /\ Calling(at[c]) = {}
        /\ Goto(c, "arrive", "waitLobby")
        /\ lobbySem' = [lobbySem EXCEPT ![at[c]] = @ + 1]
        /\ UNCHANGED calls
     \/ /\ \E b \in Calling(at[c]) : pc' = [pc EXCEPT ![c] = "waitLobby", ![b] = "finish"]
        /\ calls' = [calls EXCEPT ![at[c]] = @ + 1]
        /\ UNCHANGED lobbySem
  /\ UNCHANGED <<shared, seatsSem, locals>>

\* Mutant: the client does not wait for the barber.
WaitLobbyReturns(c) ==
  Goto(c, "waitLobby", "sit") /\ UNCHANGED <<shared, sems, locals>>

WaitLobby(c) ==
  /\ Goto(c, "waitLobby", IF lobbySem[at[c]] = 0 THEN "sit" ELSE "inLobby")
  /\ UNCHANGED <<shared, sems, locals>>

Sit(c) ==
  /\ Goto(c, "sit", "leaveLobby")
  /\ seat' = [seat EXCEPT ![c] = move[at[c]]]
  /\ UNCHANGED <<shared, sems, at, found, notFound>>

LeaveLobby(c) ==
  /\ Goto(c, "leaveLobby", "waitCut")
  /\ lobby' = [lobby EXCEPT ![at[c]] = Nobody]
  /\ UNCHANGED <<seats, move, sems, locals>>

WaitCut(c) ==
  /\ Goto(c, "waitCut", IF seatsSem[seat[c]] = 0 THEN "served" ELSE "inSeat")
  /\ UNCHANGED <<shared, sems, locals>>

ClientStep(c) == \/ Look(c) \/ Take(c) \/ Arrive(c) \/ WaitLobby(c)
                 \/ Sit(c) \/ LeaveLobby(c) \/ WaitCut(c)

-----------------------------------------------------------------------------
(* Barbers *)

\* i++ in the pass over the lobby; the last place ends the pass.
NextPlace(b, from) ==
  /\ pc[b] = from
  /\ \/ at[b] + 1 \in Lobby /\ Goto(b, from, "lookLobby") /\ at' = [at EXCEPT ![b] = @ + 1]
     \/ at[b] + 1 \notin Lobby /\ Goto(b, from, "rest") /\ UNCHANGED at

LookLobby(b) ==
  /\ \/ lobby[at[b]] # Nobody /\ Goto(b, "lookLobby", "lookReserved") /\ UNCHANGED at
     \/ lobby[at[b]] = Nobody /\ NextPlace(b, "lookLobby")
  /\ UNCHANGED <<shared, sems, seat, found, notFound>>

LookReserved(b) ==
  /\ \/ move[at[b]] = 0 /\ Goto(b, "lookReserved", "reserve") /\ UNCHANGED at
     \/ move[at[b]] # 0 /\ NextPlace(b, "lookReserved")
  /\ UNCHANGED <<shared, sems, seat, found, notFound>>

Reserve(b) ==
  /\ Goto(b, "reserve", "lookSeat")
  /\ move' = [move EXCEPT ![at[b]] = 1]
  /\ found' = [found EXCEPT ![b] = TRUE]
  /\ seat' = [seat EXCEPT ![b] = 0]
  /\ UNCHANGED <<lobby, seats, sems, at, notFound>>

\* Mutant: j runs one seat too far.
SeatsAndOneMore == 0 .. SEATS_NUMBER
SeatsToTry == Seats

LookSeat(b) ==
  /\ pc[b] = "lookSeat"
  /\ \/ seats[seat[b]] = 0 /\ Goto(b, "lookSeat", "takeSeat") /\ UNCHANGED seat
     \/ seats[seat[b]] # 0 /\ seat[b] + 1 \in SeatsToTry
        /\ seat' = [seat EXCEPT ![b] = @ + 1] /\ UNCHANGED pc
     \/ seats[seat[b]] # 0 /\ seat[b] + 1 \notin SeatsToTry
        /\ Goto(b, "lookSeat", "unreserve") /\ UNCHANGED seat
  /\ UNCHANGED <<shared, sems, at, found, notFound>>

TakeSeat(b) ==
  /\ Goto(b, "takeSeat", "openSeat")
  /\ seats' = [seats EXCEPT ![seat[b]] = 1]
  /\ UNCHANGED <<lobby, move, sems, locals>>

OpenSeat(b) ==
  /\ Goto(b, "openSeat", "setMove")
  /\ seatsSem' = [seatsSem EXCEPT ![seat[b]] = @ + 1]
  /\ UNCHANGED <<shared, lobbySem, calls, locals>>

SetMove(b) ==
  /\ Goto(b, "setMove", "call")
  /\ move' = [move EXCEPT ![at[b]] = seat[b]]
  /\ UNCHANGED <<lobby, seats, sems, locals>>

\* decrement_sem(lobby_sem, i); reaching 0 lets every client waiting for 0 go on.
Call(b) ==
  /\ pc[b] = "call"
  /\ \/ /\ lobbySem[at[b]] = 0
        /\ Goto(b, "call", "calling")
        /\ UNCHANGED <<lobbySem, calls>>
     \/ /\ lobbySem[at[b]] > 0
        /\ lobbySem' = [lobbySem EXCEPT ![at[b]] = @ - 1]
        /\ calls' = [calls EXCEPT ![at[b]] = @ + 1]
        /\ GotoAndWake(b, "finish", IF lobbySem[at[b]] = 1 THEN InLobby(at[b]) ELSE {}, "sit")
  /\ UNCHANGED <<shared, seatsSem, locals>>

\* Mutant: the seat's semaphore is taken down with the place's index.
PlaceInsteadOfSeat(b) == at[b] % SEATS_NUMBER
SeatToFinish(b) == seat[b]

Finish(b) ==
  LET j == SeatToFinish(b) IN
  /\ pc[b] = "finish" /\ seatsSem[j] > 0
  /\ seatsSem' = [seatsSem EXCEPT ![j] = @ - 1]
  /\ GotoAndWake(b, "freeSeat", IF seatsSem[j] = 1 THEN InSeat(j) ELSE {}, "served")
  /\ UNCHANGED <<shared, lobbySem, calls, locals>>

\* Mutant: the seat stays marked as taken.
SeatStaysTaken == 1
FreeByte == 0

FreeSeat(b) ==
  /\ Goto(b, "freeSeat", "unreserve")
  /\ seats' = [seats EXCEPT ![seat[b]] = FreeByte]
  /\ UNCHANGED <<lobby, move, sems, locals>>

\* Mutant: the place stays reserved.
StaysReserved == 1
NotReserved == 0

Unreserve(b) ==
  /\ NextPlace(b, "unreserve")
  /\ move' = [move EXCEPT ![at[b]] = NotReserved]
  /\ UNCHANGED <<lobby, seats, sems, seat, found, notFound>>

\* The end of a pass: count it if it found nobody, and give up or start over.
Rest(b) ==
  LET missed == IF found[b] THEN 0 ELSE 1 IN
  /\ notFound' = [notFound EXCEPT ![b] = @ + missed]
  /\ \/ notFound[b] + missed >= PATIENCE /\ Goto(b, "rest", "ended") /\ UNCHANGED <<at, found>>
     \/ /\ notFound[b] + missed < PATIENCE /\ Goto(b, "rest", "lookLobby")
        /\ at' = [at EXCEPT ![b] = 0] /\ found' = [found EXCEPT ![b] = FALSE]
  /\ UNCHANGED <<shared, sems, seat>>

BarberStep(b) ==
  \/ LookLobby(b) \/ LookReserved(b) \/ Reserve(b) \/ LookSeat(b) \/ TakeSeat(b)
  \/ OpenSeat(b) \/ SetMove(b) \/ Call(b) \/ Finish(b) \/ FreeSeat(b) \/ Unreserve(b)
  \/ Rest(b)

-----------------------------------------------------------------------------
\* main waits for every child and then ends (main.c:76).
AllDone == /\ \A c \in Clients : pc[c] \in {"served", "left"}
           /\ \A b \in Barbers : pc[b] = "ended"

Next == \/ \E c \in Clients : ClientStep(c)
        \/ \E b \in Barbers : BarberStep(b)
        \/ AllDone /\ UNCHANGED vars

Spec == Init /\ [][Next]_vars

-----------------------------------------------------------------------------
(* Properties *)

\* Every variable has its type; no process indexes an array outside its bounds.
TypeOK ==
  /\ pc \in [Processes -> ClientLabels \union BarberLabels]
  /\ \A c \in Clients : pc[c] \in ClientLabels
  /\ \A b \in Barbers : pc[b] \in BarberLabels
  /\ lobby \in [Lobby -> Clients \union {Nobody}]
  /\ seats \in [Seats -> {0, 1}] /\ move \in [Lobby -> Seats]
  /\ lobbySem \in [Lobby -> Nat] /\ seatsSem \in [Seats -> Nat]
  /\ at \in [Processes -> Lobby] /\ seat \in [Processes -> Seats]
  /\ found \in [Barbers -> BOOLEAN]
  /\ notFound \in [Barbers -> Nat]
  /\ calls \in [Lobby -> Nat]

At(b, labels, j) == pc[b] \in labels /\ seat[b] = j

\* A seat's semaphore counts the barbers who cut there, also when a race on seats_shm
\* (barber.c:56-57) has put several at one seat: taking it down (line 67) never blocks.
Cutters(j) == {b \in Barbers : At(b, {"setMove", "call", "calling", "finish"}, j)}
SeatSemCountsBarbers == \A j \in Seats : seatsSem[j] = Cardinality(Cutters(j))

Arrived(i) == {c \in Clients : at[c] = i /\ pc[c] \notin {"look", "take", "arrive", "left"}}
PassedOn(i) == {c \in Arrived(i) : pc[c] \notin {"waitLobby", "inLobby"}}

\* However many clients end up at one place of the lobby, each leaves it only after a
\* barber has called for it, and no call is made without an arrival (client.c:50-51,
\* barber.c:64).
EveryClientCalled ==
  \A i \in Lobby : /\ Cardinality(PassedOn(i)) <= calls[i]
                   /\ lobbySem[i] + calls[i] = Cardinality(Arrived(i))

\* A byte in seats_shm marks a seat some barber holds: no seat is lost, whatever the
\* order in which racing barbers mark and free it (barber.c:57, 69).
NoSeatLost ==
  \A j \in Seats : seats[j] # 0 =>
    \E b \in Barbers : At(b, {"openSeat", "setMove", "call", "calling", "finish", "freeSeat"}, j)

Serving == {"lookSeat", "takeSeat", "openSeat", "setMove", "call", "calling", "finish",
            "freeSeat", "unreserve"}

\* A reservation belongs to some barber at that place: no place of the lobby stays
\* reserved once its barber has moved on (barber.c:49, 62, 74).
NoReservationLost ==
  \A i \in Lobby : move[i] # 0 => \E b \in Barbers : at[b] = i /\ pc[b] \in Serving

\* No byte of the shared memory stays set for good by a race of the barbers.
NothingLost == NoSeatLost /\ NoReservationLost

\* main.c:75: every process finishes its job, so no barber is left waiting to call a
\* client when all of them have gone.
NoBarberStranded ==
  (\A c \in Clients : pc[c] \in {"served", "left"}) => \A b \in Barbers : pc[b] # "calling"
=============================================================================
