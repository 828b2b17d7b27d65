----------------------------- MODULE ChatServer -----------------------------
(***************************************************************************)
(* lab06/zad01: a chat server and its clients exchange messages over SysV  *)
(* queues.  The server is sequential but SIGINT interrupts it anywhere; a  *)
(* client runs two threads and may be interrupted too.  A queue is named   *)
(* by the client that created it; texts, times and the log are left out,   *)
(* and a queue is taken to have room for every message.                    *)
(***************************************************************************)
EXTENDS Integers, Sequences, FiniteSets

CONSTANTS
  Clients,             \* the client processes
  Keys,                \* the System V keys rand() % 255 + 1 can give (client.c:114)
  Free,                \* the -1 of clients[] and of a failed msgget
  MAX_CLIENT_NUMBER,
  ServerInterrupted,   \* TRUE if SIGINT may reach the server
  Interrupted,         \* the clients SIGINT may reach
  MaxOrders            \* model bound: LIST, 2ALL and 2ONE orders a client gives

ASSUME ChatAssumption ==
  /\ Free \notin Clients /\ MAX_CLIENT_NUMBER \in Nat \ {0} /\ MaxOrders \in Nat
  /\ ServerInterrupted \in BOOLEAN /\ Interrupted \subseteq Clients

VARIABLES
  srv,                 \* what the server does next
  msgBuffer, i,        \* the message in hand, the loop variable of handleTall
  clients,             \* clients[]: the queue of each id
  activeClients,
  serverQ,             \* the messages in the server's queue
  queueOf,             \* the queue each key opens
  inbox,               \* the messages in each client queue
  cpc, key, clientQ, clientID,   \* the clients: state, drawn key, queue and id
  orders, stops        \* the orders a client has given, the times it ran sendStop

server  == <<srv, msgBuffer, i, clients, activeClients>>
clientv == <<cpc, key, clientQ, clientID, orders, stops>>
vars    == <<server, serverQ, queueOf, inbox, clientv>>

Ids == 0 .. MAX_CLIENT_NUMBER - 1
NoId == -1
Msg(type, id, to, k) == [type |-> type, clientID |-> id, recipientID |-> to, clientKey |-> k]

Init ==
  /\ srv = "receive" /\ msgBuffer = Msg("LIST", NoId, NoId, Free) /\ i = 0
  /\ clients = [id \in Ids |-> Free]
  /\ activeClients = 0
  /\ serverQ = <<>>
  /\ queueOf = [k \in Keys |-> Free]
  /\ inbox = [c \in Clients |-> <<>>]
  /\ cpc = [c \in Clients |-> "start"]
  /\ key \in [Clients -> Keys]
  /\ clientQ = [c \in Clients |-> Free]
  /\ clientID = [c \in Clients |-> NoId]
  /\ orders = [c \in Clients |-> 0] /\ stops = [c \in Clients |-> 0]

-----------------------------------------------------------------------------
(* System V queues.  A send to a removed queue fails and nobody looks.      *)

Exists(q) == \E k \in Keys : queueOf[k] = q /\ q # Free
ToServer(m) == serverQ' = IF srv = "down" THEN serverQ ELSE Append(serverQ, m)
ToClient(box, q, m) == IF Exists(q) THEN [box EXCEPT ![q] = Append(@, m)] ELSE box
RemoveQueue(q) ==
  /\ queueOf' = [k \in Keys |-> IF queueOf[k] = q THEN Free ELSE queueOf[k]]
  /\ inbox' = [c \in Clients |-> IF c = q THEN <<>> ELSE inbox[c]]

-----------------------------------------------------------------------------
(* The server *)

Receive ==
  /\ srv = "receive" /\ serverQ # <<>>
  /\ msgBuffer' = Head(serverQ)
  /\ serverQ' = Tail(serverQ)
  /\ srv' = msgBuffer'.type
  /\ i' = 0
  /\ UNCHANGED <<clients, activeClients, queueOf, inbox, clientv>>

FreeIds == {id \in Ids : clients[id] = Free}

\* Mutants: the count, already increased, is taken for the id; every client is given id 0.
PlaceAfterLast == activeClients + 1
FirstPlace == 0
FirstFreeId == CHOOSE id \in FreeIds : \A d \in FreeIds : id <= d

InitFull ==
  /\ srv = "INIT" /\ activeClients >= MAX_CLIENT_NUMBER
  /\ srv' = "receive"
  /\ UNCHANGED <<msgBuffer, i, clients, activeClients, serverQ, queueOf, inbox, clientv>>

\* A table without a free id would be searched past its end: no step here.
InitEnter ==
  /\ srv = "INIT" /\ activeClients < MAX_CLIENT_NUMBER /\ FreeIds # {}
  /\ i' = FirstFreeId
  /\ clients' = [clients EXCEPT ![FirstFreeId] = queueOf[msgBuffer.clientKey]]
  /\ activeClients' = activeClients + 1
  /\ srv' = "reply"
  /\ UNCHANGED <<msgBuffer, serverQ, queueOf, inbox, clientv>>

\* newClientQ is a local of the handler: the queue found when the id was taken.
Reply ==
  /\ srv = "reply"
  /\ inbox' = ToClient(inbox, clients[i], Msg("INIT", i, NoId, Free))
  /\ srv' = "receive"
  /\ UNCHANGED <<msgBuffer, i, clients, activeClients, serverQ, queueOf, clientv>>

\* Mutants: the client stays in the table; it is not counted out.
KeepClient(id) == clients
RemoveClient(id) == [clients EXCEPT ![id] = Free]
CountKept == activeClients
OneClientLess == activeClients - 1

\* clients[-1], written for a client without an id, lies outside the table: in the builds of
\* the Makefile it is padding.
HandleStop ==
  /\ srv = "STOP"
  /\ clients' = RemoveClient(msgBuffer.clientID)
  /\ activeClients' = OneClientLess
  /\ srv' = "receive"
  /\ UNCHANGED <<msgBuffer, i, serverQ, queueOf, inbox, clientv>>

HandleList ==
  /\ srv = "LIST" /\ srv' = "receive"
  /\ UNCHANGED <<msgBuffer, i, clients, activeClients, serverQ, queueOf, inbox, clientv>>

\* Mutant: the sender is not left out.
ToEveryone(id) == clients[id] # Free
ToOthers(id) == clients[id] # Free /\ id # msgBuffer.clientID

HandleTall ==
  /\ srv = "TALL"
  /\ inbox' = IF ToOthers(i) THEN ToClient(inbox, clients[i], msgBuffer) ELSE inbox
  /\ IF i + 1 \in Ids THEN i' = i + 1 /\ UNCHANGED srv ELSE srv' = "receive" /\ UNCHANGED i
  /\ UNCHANGED <<msgBuffer, clients, activeClients, serverQ, queueOf, clientv>>

HandleTone ==
  /\ srv = "TONE"
  /\ inbox' = ToClient(inbox, clients[msgBuffer.recipientID], msgBuffer)
  /\ srv' = "receive"
  /\ UNCHANGED <<msgBuffer, i, clients, activeClients, serverQ, queueOf, clientv>>

\* The SIGINT handler runs to exit(0) wherever the main loop was interrupted.  A queue
\* entered under two ids is sent two STOPs, of which the first removes it.
Shutdown ==
  /\ ServerInterrupted /\ srv # "down"
  /\ inbox' = [c \in Clients |->
       LET Told == {id \in Ids : clients[id] = c /\ Exists(c)} IN
       IF Told = {} THEN inbox[c]
       ELSE Append(inbox[c], Msg("STOP", CHOOSE id \in Told : TRUE, NoId, Free))]
  /\ clients' = [id \in Ids |-> Free]
  /\ serverQ' = <<>>
  /\ srv' = "down"
  /\ UNCHANGED <<msgBuffer, i, activeClients, queueOf, clientv>>

ServerStep == \/ Receive \/ InitFull \/ InitEnter \/ Reply \/ HandleStop \/ HandleList
              \/ HandleTall \/ HandleTone

-----------------------------------------------------------------------------
(* Clients *)

Become(c, from, to) == cpc[c] = from /\ cpc' = [cpc EXCEPT ![c] = to]

\* msgget with IPC_CREAT opens the queue that already has the key.
Create(c) ==
  LET k == key[c] q == IF queueOf[k] = Free THEN c ELSE queueOf[k] IN
  /\ srv # "down" /\ Become(c, "start", "created")
  /\ queueOf' = [queueOf EXCEPT ![k] = q]
  /\ clientQ' = [clientQ EXCEPT ![c] = q]
  /\ UNCHANGED <<server, serverQ, inbox, key, clientID, orders, stops>>

SendInit(c) ==
  /\ Become(c, "created", "waitInit")
  /\ ToServer(Msg("INIT", NoId, NoId, key[c]))
  /\ UNCHANGED <<server, queueOf, inbox, key, clientQ, clientID, orders, stops>>

\* Whatever comes first is taken for the reply; if the queue has been removed the
\* buffer on the stack holds any id.
Pending(q) == IF ~Exists(q) THEN {Msg("INIT", id, NoId, Free) : id \in Ids}
              ELSE IF inbox[q] = <<>> THEN {} ELSE {Head(inbox[q])}

ReceiveInit(c) ==
  /\ Become(c, "waitInit", "running")
  /\ \E m \in Pending(clientQ[c]) : clientID' = [clientID EXCEPT ![c] = m.clientID]
  /\ inbox' = IF Exists(clientQ[c]) THEN [inbox EXCEPT ![clientQ[c]] = Tail(@)] ELSE inbox
  /\ UNCHANGED <<server, serverQ, queueOf, key, clientQ, orders, stops>>

\* The thread that reads orders: LIST, 2ALL or 2ONE.
Order(c) ==
  /\ cpc[c] = "running" /\ orders[c] < MaxOrders
  /\ orders' = [orders EXCEPT ![c] = @ + 1]
  /\ \/ \E type \in {"LIST", "TALL"} : ToServer(Msg(type, clientID[c], NoId, Free))
     \/ \E to \in Ids : ToServer(Msg("TONE", clientID[c], to, Free))
  /\ UNCHANGED <<server, queueOf, inbox, cpc, key, clientQ, clientID, stops>>

\* sendStop runs for the order STOP and as the SIGINT handler, which may find the
\* client without an id, or already in sendStop.
SendStop(c) ==
  /\ \/ cpc[c] = "running"
     \/ c \in Interrupted /\ cpc[c] \in {"created", "waitInit", "stopping"}
  /\ stops[c] < (IF c \in Interrupted THEN 2 ELSE 1)
  /\ cpc' = [cpc EXCEPT ![c] = "stopping"]
  /\ stops' = [stops EXCEPT ![c] = @ + 1]
  /\ ToServer(Msg("STOP", clientID[c], NoId, Free))
  /\ UNCHANGED <<server, queueOf, inbox, key, clientQ, clientID, orders>>

Exit(c) ==
  /\ Become(c, "stopping", "gone")
  /\ RemoveQueue(clientQ[c])
  /\ UNCHANGED <<server, serverQ, key, clientQ, clientID, orders, stops>>

\* The thread that reads messages prints a text and ends the client on STOP.
ReceiveText(c) ==
  /\ cpc[c] \in {"running", "stopping"}
  /\ Exists(clientQ[c]) /\ inbox[clientQ[c]] # <<>> /\ Head(inbox[clientQ[c]]).type # "STOP"
  /\ inbox' = [inbox EXCEPT ![clientQ[c]] = Tail(@)]
  /\ UNCHANGED <<server, serverQ, queueOf, clientv>>

ReceiveStop(c) ==
  /\ cpc[c] \in {"running", "stopping"} /\ cpc' = [cpc EXCEPT ![c] = "gone"]
  /\ Exists(clientQ[c]) /\ inbox[clientQ[c]] # <<>> /\ Head(inbox[clientQ[c]]).type = "STOP"
  /\ RemoveQueue(clientQ[c])
  /\ UNCHANGED <<server, serverQ, key, clientQ, clientID, orders, stops>>

\* What a client does without anyone typing or interrupting it.
ClientWork(c) == \/ Create(c) \/ SendInit(c) \/ ReceiveInit(c) \/ Exit(c)
                 \/ ReceiveText(c) \/ ReceiveStop(c)

-----------------------------------------------------------------------------
Next == \/ ServerStep
        \/ Shutdown
        \/ \E c \in Clients : ClientWork(c)
        \/ \E c \in Clients : Order(c)
        \/ \E c \in Clients : SendStop(c)

Spec == Init /\ [][Next]_vars

\* Clients that draw keys of their own: clients started in the same second would share
\* one queue.
KeysDiffer == \A c, d \in Clients : c # d => key[c] # key[d]
InitKeysDiffer == Init /\ KeysDiffer
SpecKeysDiffer == InitKeysDiffer /\ [][Next]_vars

\* The server and the clients keep working; nobody has to type or to interrupt.
Fairness == WF_vars(ServerStep) /\ \A c \in Clients : WF_vars(ClientWork(c))

-----------------------------------------------------------------------------
(* Properties *)

\* Every variable has its type.
TypeOK ==
  /\ srv \in {"receive", "INIT", "reply", "STOP", "LIST", "TALL", "TONE", "down"}
  /\ i \in Ids /\ clients \in [Ids -> Clients \union {Free}] /\ activeClients \in Int
  /\ queueOf \in [Keys -> Clients \union {Free}]
  /\ cpc \in [Clients -> {"start", "created", "waitInit", "running", "stopping", "gone"}]
  /\ key \in [Clients -> Keys] /\ clientQ \in [Clients -> Clients \union {Free}]
  /\ clientID \in [Clients -> Ids \union {NoId}]

\* A client that has been interrupted sends STOP without an id, or a second time; only
\* such a STOP is not owed.
Orderly(c) == stops[c] = 0 \/ (stops[c] = 1 /\ clientID[c] # NoId)

\* Between two messages activeClients is the number of ids taken, so the test at
\* server.c:49 means that a free id exists, until a client sends a STOP it does not owe.
ActiveCountsTable ==
  (\A c \in Clients : Orderly(c)) /\ srv = "receive" => activeClients = Cardinality(Ids \ FreeIds)

\* A running client owns the place of its id in the table: a text for that id reaches
\* it, and no other running client has the id.  A second STOP takes nothing from anyone
\* but those who have had the id it carries.
StoppedTwice(id) == \E c \in Clients : clientID[c] = id /\ stops[c] > 1
IdOwned ==
  \A c \in Clients : cpc[c] = "running" /\ srv # "down" =>
    clients[clientID[c]] = clientQ[c] \/ StoppedTwice(clientID[c])

\* A client is never sent its own 2ALL, although ids are given again after a STOP.
NoEcho ==
  \A c \in Clients : cpc[c] = "running" =>
    \A n \in 1 .. Len(inbox[clientQ[c]]) :
      inbox[clientQ[c]][n].type = "TALL" => inbox[clientQ[c]][n].clientID # clientID[c]

\* A client whose INIT is queued gets an id, unless the server is found full when it
\* comes to the message.
InitAnswered ==
  \A c \in Clients :
    (\E n \in 1 .. Len(serverQ) : serverQ[n].type = "INIT" /\ serverQ[n].clientKey = key[c])
    ~> \/ cpc[c] = "running"
       \/ /\ srv = "INIT" /\ msgBuffer.clientKey = key[c]
          /\ activeClients >= MAX_CLIENT_NUMBER

\* server.c:54: there is a free id to be found.
FreeIdFound == srv = "INIT" /\ activeClients < MAX_CLIENT_NUMBER => FreeIds # {}
=============================================================================
