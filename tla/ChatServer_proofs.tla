------------------------- MODULE ChatServer_proofs --------------------------
(***************************************************************************)
(* The server's table and the ids of its clients agree, when every client  *)
(* draws a key of its own; whichever are interrupted, the STOPs they do    *)
(* not owe hurt nobody but those who have had the ids they carry.          *)
(***************************************************************************)
EXTENDS ChatServer, FiniteSetTheorems, WellFoundedInduction, TLAPS

Types == {"INIT", "STOP", "LIST", "TALL", "TONE"}
Messages ==
  {m \in [type : Types, clientID : Ids \union {NoId}, recipientID : Ids \union {NoId},
          clientKey : Keys \union {Free}] : m.type = "TONE" => m.recipientID \in Ids}
Places(q) == 1 .. Len(q)
Grown(s, t, m) ==
  /\ t # <<>> /\ t[1] = IF s = <<>> THEN m ELSE s[1]
  /\ \A n \in Places(t) : \/ n \in Places(s) /\ s # <<>> /\ t[n] = s[n]
                          \/ n = Len(t) /\ t[n] = m
Shrunk(s, t) ==
  /\ 1 \in Places(s)
  /\ \A n \in Places(t) : n \in Int /\ n + 1 \in Places(s) /\ t[n] = s[n + 1]

MessagesOK ==
  /\ msgBuffer \in Messages /\ serverQ \in Seq(Messages) /\ inbox \in [Clients -> Seq(Messages)]
  /\ srv \in Types => srv = msgBuffer.type

\* A client has its own queue, under its key, from Create to its end.  Nobody knows of
\* it before SendInit.
Alive(c) == cpc[c] \in {"created", "waitInit", "running", "stopping"}
QueuesKept ==
  /\ \A c \in Clients : Alive(c) => queueOf[key[c]] = c /\ clientQ[c] = c
  /\ \A c \in Clients : cpc[c] \in {"start", "created"} => inbox[c] = <<>>
  /\ \A k \in Keys : queueOf[k] # Free => \E c \in Clients : key[c] = k /\ queueOf[k] = c /\ Alive(c)

\* A client learns its id when it is answered and sends STOP at its end.
StopsKept ==
  /\ stops \in [Clients -> Nat]
  /\ \A c \in Clients :
       /\ stops[c] > 0 => cpc[c] \in {"stopping", "gone"}
       /\ cpc[c] = "stopping" => stops[c] > 0
       /\ cpc[c] \in {"start", "created", "waitInit"} => clientID[c] = NoId

\* No two ids lead to one queue.  As long as every STOP is owed activeClients counts the
\* ids taken.
AllOrderly == \A c \in Clients : Orderly(c)
Distinct == \A d, e \in Ids : clients[d] = clients[e] /\ clients[d] # Free => d = e
Counted == AllOrderly => activeClients = Cardinality(Ids \ FreeIds)

\* A STOP that is owed is the only one for its id, which still belongs to a client that has
\* stopped; the others have no id, or one that was stopped twice.
NotOwed(m) == (m.clientID = NoId /\ ~AllOrderly) \/ StoppedTwice(m.clientID)
StopOwed(m) == m.clientID \in Ids /\ clients[m.clientID] \in Clients
               /\ cpc[clients[m.clientID]] \in {"stopping", "gone"}
StopsOwed ==
  /\ \A n \in Places(serverQ) : serverQ[n].type = "STOP" => NotOwed(serverQ[n]) \/
       /\ StopOwed(serverQ[n])
       /\ \A o \in Places(serverQ) : serverQ[o].type = "STOP" /\ serverQ[o].clientID = serverQ[n].clientID => n = o
       /\ srv = "STOP" => serverQ[n].clientID # msgBuffer.clientID
  /\ srv = "STOP" => NotOwed(msgBuffer) \/ StopOwed(msgBuffer)

\* Every INIT is the only one of a client that has no id, and that waits for the answer or
\* was interrupted.
InTable(c) == \E d \in Ids : clients[d] = c
Waits(c) == (cpc[c] = "waitInit" /\ inbox[c] = <<>>) \/ (cpc[c] \in {"stopping", "gone"} /\ ~Orderly(c))
InitOwed(m) ==
  /\ \E c \in Clients : key[c] = m.clientKey
  /\ \A c \in Clients : key[c] = m.clientKey => Waits(c) /\ ~InTable(c)
InitsOwed ==
  /\ \A n \in Places(serverQ) : serverQ[n].type = "INIT" =>
       /\ InitOwed(serverQ[n])
       /\ \A o \in Places(serverQ) : serverQ[o].type = "INIT" /\ serverQ[o].clientKey = serverQ[n].clientKey => n = o
       /\ srv = "INIT" => serverQ[n].clientKey # msgBuffer.clientKey
  /\ srv = "INIT" => InitOwed(msgBuffer)

\* A client that has not asked is not in the table; one that has been answered reads the id
\* it was entered under first.
Answered ==
  \A c \in Clients :
    /\ cpc[c] \in {"start", "created"} => ~InTable(c)
    /\ cpc[c] = "waitInit" /\ inbox[c] # <<>> =>
         inbox[c][1].clientID \in Ids
         /\ (clients[inbox[c][1].clientID] = c \/ StoppedTwice(inbox[c][1].clientID))
    /\ cpc[c] = "waitInit" => \A d \in Ids : clients[d] = c =>
         \/ srv = "reply" /\ i = d /\ inbox[c] = <<>>
         \/ inbox[c] # <<>> /\ inbox[c][1].clientID = d

Owned ==
  \A c \in Clients : cpc[c] = "running" =>
    /\ clientID[c] \in Ids
    /\ clients[clientID[c]] = c \/ StoppedTwice(clientID[c])
    /\ \A d \in Ids : clients[d] = c => clientID[c] = d

TableInv == Distinct /\ Counted /\ StopsOwed /\ InitsOwed /\ Answered /\ Owned

\* No 2ALL is put into the queue of the id it comes from; a client learns its id from
\* the first message.
NoEchoYet ==
  \A c \in Clients : \A n \in Places(inbox[c]) : inbox[c][n].type = "TALL" =>
    /\ cpc[c] = "waitInit" => inbox[c][n].clientID # inbox[c][1].clientID
    /\ cpc[c] = "running" => inbox[c][n].clientID # clientID[c]

ChatInv == TypeOK /\ MessagesOK /\ KeysDiffer /\ QueuesKept /\ StopsKept /\ NoEchoYet
           /\ (srv # "down" => TableInv)
-----------------------------------------------------------------------------
(* Facts about the queues *)

\* A queue that gets a message grows by it.
LEMMA Appended ==
  ASSUME NEW S, NEW s \in Seq(S), NEW e \in S
  PROVE  Append(s, e) \in Seq(S) /\ Grown(s, Append(s, e), e)
<1>1. /\ Append(s, e) \in Seq(S) /\ Len(Append(s, e)) = Len(s) + 1 /\ Len(s) \in Nat
      /\ \A n \in 1 .. Len(s) : Append(s, e)[n] = s[n]
      /\ Append(s, e)[Len(s) + 1] = e
  OBVIOUS
<1>2. /\ Append(s, e) # <<>>
      /\ s = <<>> => Len(s) = 0
      /\ s # <<>> => Len(s) >= 1
  BY <1>1
<1>4. Append(s, e)[1] = IF s = <<>> THEN e ELSE s[1]
  BY <1>1, <1>2
<1>3. ASSUME NEW n \in Places(Append(s, e))
      PROVE  \/ n \in Places(s) /\ s # <<>> /\ Append(s, e)[n] = s[n]
             \/ n = Len(Append(s, e)) /\ Append(s, e)[n] = e
  BY <1>1, <1>2, <1>3 DEF Places
<1> QED
  BY <1>1, <1>2, <1>3, <1>4 DEF Grown

\* A queue read loses its first message.
LEMMA Received ==
  ASSUME NEW S, NEW s \in Seq(S), s # <<>>
  PROVE  Tail(s) \in Seq(S) /\ Head(s) \in S /\ Head(s) = s[1] /\ Shrunk(s, Tail(s))
BY DEF Shrunk, Places

\* A message goes to the end of one queue, or is lost.
LEMMA Sent ==
  ASSUME TypeOK, MessagesOK, NEW q, NEW m \in Messages, inbox' = ToClient(inbox, q, m)
  PROVE  /\ inbox' \in [Clients -> Seq(Messages)]
         /\ \A c \in Clients : inbox'[c] # inbox[c] => q = c /\ Grown(inbox[c], inbox'[c], m)
         /\ Exists(q) => Grown(inbox[q], inbox'[q], m)
<1>1. CASE Exists(q)
  <2>1. q \in Clients
    BY <1>1 DEF Exists, TypeOK
  <2>2. Append(inbox[q], m) \in Seq(Messages) /\ Grown(inbox[q], Append(inbox[q], m), m)
    BY <2>1, Appended DEF MessagesOK
  <2>3. inbox' = [inbox EXCEPT ![q] = Append(inbox[q], m)]
    BY <1>1 DEF ToClient
  <2>4. inbox \in [Clients -> Seq(Messages)]
    BY DEF MessagesOK
  <2>5. inbox'[q] = Append(inbox[q], m) /\ \A c \in Clients : q # c => inbox'[c] = inbox[c]
    BY <2>1, <2>3, <2>4
  <2>6. inbox' \in [Clients -> Seq(Messages)]
    BY <2>1, <2>2, <2>3, <2>4
  <2> QED
    BY <1>1, <2>2, <2>5, <2>6
<1>2. CASE ~Exists(q)
  <2>1. inbox' = inbox
    BY <1>2 DEF ToClient
  <2> QED
    BY <1>2, <2>1, Zenon DEF MessagesOK
<1> QED
  BY <1>1, <1>2

\* A message to the server follows those that wait.
LEMMA SentToServer ==
  ASSUME MessagesOK, NEW m \in Messages, ToServer(m)
  PROVE  serverQ' \in Seq(Messages) /\ (srv # "down" => Grown(serverQ, serverQ', m))
<1>1. CASE srv = "down"
  BY <1>1 DEF ToServer, MessagesOK
<1>2. CASE srv # "down"
  BY <1>2, Appended DEF ToServer, MessagesOK
<1> QED
  BY <1>1, <1>2

\* The messages the program writes.
LEMMA Written ==
  /\ \A type \in Types, id \in Ids \union {NoId}, to \in Ids \union {NoId}, k \in Keys \union {Free} :
       (type = "TONE" => to \in Ids) => Msg(type, id, to, k) \in Messages
  /\ 0 \in Ids /\ Ids \subseteq Int
BY ChatAssumption DEF Msg, Messages, Ids

\* What a STOP owes depends on the ids and on the STOPs sent.
LEMMA StopsRemembered ==
  ASSUME UNCHANGED <<clientID, stops>>
  PROVE  /\ AllOrderly' <=> AllOrderly
         /\ \A c : Orderly(c)' <=> Orderly(c)
         /\ \A d : StoppedTwice(d)' <=> StoppedTwice(d)
         /\ \A m : NotOwed(m)' <=> NotOwed(m)
BY DEF AllOrderly, Orderly, StoppedTwice, NotOwed

\* What a STOP no longer owes, it never owes again.
LEMMA StopsAdvance ==
  ASSUME StopsKept,
         \A c \in Clients : /\ stops'[c] \in Nat /\ stops'[c] >= stops[c]
                            /\ clientID'[c] = clientID[c] \/ stops[c] = 0
  PROVE  /\ \A c \in Clients : ~Orderly(c) => ~Orderly(c)'
         /\ AllOrderly' => AllOrderly
         /\ \A d : StoppedTwice(d) => StoppedTwice(d)'
         /\ \A m : NotOwed(m) => NotOwed(m)'
<1>1. \A c \in Clients : ~Orderly(c) => ~Orderly(c)'
  BY DEF Orderly, StopsKept
<1>2. AllOrderly' => AllOrderly
  BY <1>1 DEF AllOrderly
<1>3. ASSUME NEW d, StoppedTwice(d)  PROVE StoppedTwice(d)'
  <2>1. PICK c \in Clients : clientID[c] = d /\ stops[c] > 1
    BY <1>3 DEF StoppedTwice
  <2>2. clientID'[c] = d /\ stops'[c] > 1
    BY <2>1 DEF StopsKept
  <2> QED
    BY <2>2 DEF StoppedTwice
<1> QED
  BY <1>1, <1>2, <1>3 DEF NotOwed

\* There are finitely many ids.
LEMMA FiniteIds == \A S : IsFiniteSet(Ids \ S)
<1>1. IsFiniteSet(Ids)
  BY ChatAssumption, FS_Interval DEF Ids
<1> QED
  BY <1>1, FS_Subset

\* The id given is a free one.
LEMMA FreeIdTaken ==
  ASSUME FreeIds # {}
  PROVE  FirstFreeId \in FreeIds
<1> DEFINE before == {0 .. id - 1 : id \in FreeIds}
           shorter == StrictSubsetOrdering(Nat)
<1>1. FreeIds \subseteq Nat
  BY ChatAssumption DEF FreeIds, Ids
<1>2. before \subseteq FiniteSubsetsOf(Nat) /\ before # {}
  <2>1. ASSUME NEW id \in FreeIds  PROVE 0 .. id - 1 \in FiniteSubsetsOf(Nat)
    BY <1>1, FS_Interval DEF FiniteSubsetsOf
  <2> QED
    BY <2>1
<1>3. PICK b \in before : \A c \in before : <<c, b>> \notin shorter
  <2>1. IsWellFoundedOn(shorter, FiniteSubsetsOf(Nat))
    BY FS_StrictSubsetOrderingWellFounded
  <2> HIDE DEF before, shorter
  <2> QED
    BY <1>2, <2>1, WFMin
<1>4. PICK id \in FreeIds : b = 0 .. id - 1
  OBVIOUS
<1>5. ASSUME NEW d \in FreeIds, d < id  PROVE FALSE
  <2>1. 0 .. d - 1 \subseteq b /\ d \in b /\ d \notin 0 .. d - 1
    BY <1>1, <1>4, <1>5
  <2>2. 0 .. d - 1 \subseteq Nat /\ b \subseteq Nat
    BY <1>1, <1>4
  <2> QED
    BY <1>3, <2>1, <2>2 DEF StrictSubsetOrdering
<1>6. \A d \in FreeIds : id <= d
  BY <1>1, <1>5
<1> QED
  BY <1>6 DEF FirstFreeId

\* The message received was the first one owed.
LEMMA ReceiveStep ==
  ASSUME ChatInv, Receive
  PROVE  ChatInv'
<1> USE DEF ChatInv, TableInv, Receive, server, clientv
<1>1. /\ serverQ' \in Seq(Messages) /\ msgBuffer' \in Messages /\ msgBuffer' = serverQ[1]
      /\ Shrunk(serverQ, serverQ')
  BY Received DEF MessagesOK
<1>2. TypeOK'
  BY <1>1, Written DEF TypeOK, Messages, Types
<1>3. /\ MessagesOK' /\ QueuesKept' /\ NoEchoYet' /\ KeysDiffer' /\ StopsKept'
      /\ srv' # "down" => Distinct' /\ Answered' /\ Owned' /\ Counted'
  BY DEF MessagesOK, QueuesKept, Alive, NoEchoYet, Distinct, Answered, InTable, Owned,
     Counted, FreeIds, KeysDiffer, AllOrderly, Orderly, StoppedTwice, StopsKept
<1>4. srv' # "down" => StopsOwed'
  <2> SUFFICES ASSUME srv' # "down"  PROVE StopsOwed'
    OBVIOUS
  <2>1. \A n \in Places(serverQ') : n + 1 \in Places(serverQ) /\ serverQ'[n] = serverQ[n + 1]
    BY <1>1 DEF Shrunk
  <2>2. \A n \in Places(serverQ') : n \in Int /\ n + 1 # 1
    BY <1>1 DEF Places
  <2>3. srv' = "STOP" => msgBuffer'.type = "STOP"
    OBVIOUS
  <2>4. 1 \in Places(serverQ)
    BY <1>1 DEF Shrunk
  <2>5. ASSUME NEW n \in Places(serverQ'), serverQ'[n].type = "STOP", ~NotOwed(serverQ'[n])
        PROVE  /\ StopOwed(serverQ[n + 1])
               /\ \A o \in Places(serverQ') : serverQ'[o].type = "STOP" /\ serverQ'[o].clientID = serverQ'[n].clientID => n = o
               /\ srv' = "STOP" => serverQ'[n].clientID # msgBuffer'.clientID
    <3>1. n + 1 \in Places(serverQ) /\ n + 1 # 1 /\ serverQ[n + 1].type = "STOP" /\ serverQ'[n] = serverQ[n + 1]
      BY <2>1, <2>2, <2>5
    <3>2. /\ StopOwed(serverQ[n + 1])
          /\ \A o \in Places(serverQ) : serverQ[o].type = "STOP" /\ serverQ[o].clientID = serverQ[n + 1].clientID => n + 1 = o
      BY <2>5, <3>1 DEF StopsOwed
    <3>3. ASSUME NEW o \in Places(serverQ'), serverQ'[o].type = "STOP", serverQ'[o].clientID = serverQ'[n].clientID
          PROVE  n = o
      <4>1. o + 1 \in Places(serverQ) /\ serverQ'[o] = serverQ[o + 1]
        BY <2>1
      <4>2. n + 1 = o + 1
        BY <3>1, <3>2, <3>3, <4>1
      <4> QED
        BY <2>2, <4>2
    <3> QED
      BY <1>1, <2>3, <2>4, <3>1, <3>2, <3>3
  <2>6. srv' = "STOP" => NotOwed(msgBuffer') \/ StopOwed(msgBuffer')
    BY <1>1, <2>3, <2>4 DEF StopsOwed
  <2>7. \A m : (NotOwed(m)' <=> NotOwed(m)) /\ (StopOwed(m)' <=> StopOwed(m))
    BY StopsRemembered DEF StopOwed
  <2>8. \A n \in Places(serverQ') : StopOwed(serverQ'[n]) <=> StopOwed(serverQ[n + 1])
    BY <2>1
  <2> QED
    BY <2>5, <2>6, <2>7, <2>8 DEF StopsOwed
<1>5. srv' # "down" => InitsOwed'
  <2> SUFFICES ASSUME srv' # "down"  PROVE InitsOwed'
    OBVIOUS
  <2>1. \A n \in Places(serverQ') : n + 1 \in Places(serverQ) /\ serverQ'[n] = serverQ[n + 1]
    BY <1>1 DEF Shrunk
  <2>2. \A n \in Places(serverQ') : n \in Int /\ n + 1 # 1
    BY <1>1 DEF Places
  <2>3. srv' = "INIT" => msgBuffer'.type = "INIT"
    OBVIOUS
  <2>4. 1 \in Places(serverQ)
    BY <1>1 DEF Shrunk
  <2>5. ASSUME NEW n \in Places(serverQ'), serverQ'[n].type = "INIT"
        PROVE  /\ InitOwed(serverQ[n + 1])
               /\ \A o \in Places(serverQ') : serverQ'[o].type = "INIT" /\ serverQ'[o].clientKey = serverQ'[n].clientKey => n = o
               /\ srv' = "INIT" => serverQ'[n].clientKey # msgBuffer'.clientKey
    <3>1. n + 1 \in Places(serverQ) /\ n + 1 # 1 /\ serverQ[n + 1].type = "INIT" /\ serverQ'[n] = serverQ[n + 1]
      BY <2>1, <2>2, <2>5
    <3>2. \A o \in Places(serverQ) : serverQ[o].type = "INIT" /\ serverQ[o].clientKey = serverQ[n + 1].clientKey => n + 1 = o
      BY <3>1 DEF InitsOwed
    <3>3. ASSUME NEW o \in Places(serverQ'), serverQ'[o].type = "INIT", serverQ'[o].clientKey = serverQ'[n].clientKey
          PROVE  n = o
      <4>1. o + 1 \in Places(serverQ) /\ serverQ'[o] = serverQ[o + 1]
        BY <2>1
      <4>2. n + 1 = o + 1
        BY <3>1, <3>2, <3>3, <4>1
      <4> QED
        BY <2>2, <4>2
    <3> QED
      BY <1>1, <2>3, <2>4, <3>1, <3>2, <3>3 DEF InitsOwed
  <2>6. srv' = "INIT" => InitOwed(msgBuffer')
    BY <1>1, <2>3, <2>4 DEF InitsOwed
  <2>7. \A m : InitOwed(m)' <=> InitOwed(m)
    BY StopsRemembered DEF InitOwed, InTable, Waits
  <2>8. \A n \in Places(serverQ') : InitOwed(serverQ'[n]) <=> InitOwed(serverQ[n + 1])
    BY <2>1
  <2> QED
    BY <2>5, <2>6, <2>7, <2>8 DEF InitsOwed
<1> QED
  BY <1>2, <1>3, <1>4, <1>5

\* A full server leaves the table alone.
LEMMA InitFullStep ==
  ASSUME ChatInv, InitFull
  PROVE  ChatInv'
<1> USE DEF ChatInv, TableInv, InitFull, server, clientv
<1>1. /\ TypeOK' /\ MessagesOK' /\ QueuesKept' /\ NoEchoYet' /\ KeysDiffer' /\ StopsKept'
      /\ srv' # "down" => Distinct' /\ StopsOwed' /\ InitsOwed' /\ Answered' /\ Owned' /\ Counted'
  BY DEF TypeOK, MessagesOK, Types, QueuesKept, Alive, NoEchoYet, Distinct, StopsOwed,
     StopOwed, InitsOwed, InitOwed, InTable, Answered, Owned, Counted, FreeIds, KeysDiffer,
     NotOwed, StoppedTwice, AllOrderly, Orderly, Waits, StopsKept
<1> QED
  BY <1>1

\* The client entered under a free id has none yet.
LEMMA InitEnterStep ==
  ASSUME ChatInv, InitEnter
  PROVE  ChatInv'
<1> USE DEF ChatInv, TableInv, InitEnter, FreeIds, FirstFreeId, server, clientv
<1>1. FirstFreeId \in Ids /\ clients[FirstFreeId] = Free
  BY FreeIdTaken DEF FreeIds
<1>2. PICK c \in Clients : key[c] = msgBuffer.clientKey /\ Waits(c) /\ ~InTable(c)
  BY DEF InitsOwed, InitOwed
<1> DEFINE q == queueOf[msgBuffer.clientKey]
<1>3. (q = c \/ q = Free) /\ (q = Free => ~Orderly(c))
  BY <1>2, ChatAssumption DEF Waits, QueuesKept, Alive, KeysDiffer, TypeOK
<1>4. /\ i' \in Ids /\ clients[i'] = Free /\ srv' = "reply" /\ srv = "INIT" /\ activeClients' = activeClients + 1
      /\ clients' = [clients EXCEPT ![i'] = q]
      /\ UNCHANGED <<msgBuffer, serverQ, queueOf, inbox, clientv>>
  BY <1>1
<1>5. \A d \in Ids : clients'[d] = IF d = i' THEN q ELSE clients[d]
  BY <1>4 DEF TypeOK
<1> HIDE DEF InitEnter, FirstFreeId, q
<1>6. /\ TypeOK' /\ MessagesOK' /\ QueuesKept' /\ StopsKept' /\ NoEchoYet' /\ KeysDiffer'
      /\ srv' # "down" => Distinct'
  BY <1>2, <1>3, <1>4, <1>5, ChatAssumption DEF TypeOK, MessagesOK, Types, QueuesKept, Alive,
     StopsKept, NoEchoYet, KeysDiffer, Distinct, InTable
<1>7. \A d : StoppedTwice(d)' <=> StoppedTwice(d)
  BY <1>4, StopsRemembered
<1>8. srv' # "down" => Answered' /\ Owned'
  BY <1>2, <1>3, <1>4, <1>5, <1>7, ChatAssumption DEF Answered, Owned, Waits, InTable
<1>9. srv' # "down" => StopsOwed'
  <2>1. \A m : (NotOwed(m)' <=> NotOwed(m)) /\ (StopOwed(m) => StopOwed(m)')
    BY <1>4, <1>5, StopsRemembered, ChatAssumption DEF StopOwed
  <2> QED
    BY <1>4, <2>1 DEF StopsOwed
<1>10. srv' # "down" => InitsOwed'
  <2>1. \A m : InitOwed(m) /\ m.clientKey # key[c] => InitOwed(m)'
    BY <1>2, <1>3, <1>4, <1>5, StopsRemembered, ChatAssumption DEF InitOwed, InTable, Waits
  <2> QED
    BY <1>2, <1>4, <2>1 DEF InitsOwed
<1>11. srv' # "down" => Counted'
  <2> SUFFICES ASSUME AllOrderly  PROVE activeClients' = Cardinality(Ids \ FreeIds')
    BY <1>4, StopsRemembered DEF Counted
  <2>1. Ids \ FreeIds' = (Ids \ FreeIds) \union {i'} /\ i' \notin Ids \ FreeIds
    BY <1>2, <1>3, <1>4, <1>5, ChatAssumption DEF FreeIds, AllOrderly
  <2>2. IsFiniteSet(Ids \ FreeIds)
    BY FiniteIds
  <2>3. Cardinality(Ids \ FreeIds') = Cardinality(Ids \ FreeIds) + 1
    BY <2>1, <2>2, FS_AddElement
  <2> QED
    BY <1>4, <2>3 DEF Counted
<1> QED
  BY <1>6, <1>8, <1>9, <1>10, <1>11

\* The reply is the first message of its client.
LEMMA ReplyStep ==
  ASSUME ChatInv, Reply
  PROVE  ChatInv'
<1> USE DEF ChatInv, TableInv, Reply, server, clientv
<1>1. Msg("INIT", i, NoId, Free) \in Messages
  BY Written DEF TypeOK, Types
<1>2. /\ inbox' \in [Clients -> Seq(Messages)]
      /\ \A c \in Clients : inbox'[c] # inbox[c] => clients[i] = c /\ Grown(inbox[c], inbox'[c], Msg("INIT", i, NoId, Free))
  BY Sent, <1>1
<1>3. Exists(clients[i]) => Grown(inbox[clients[i]], inbox'[clients[i]], Msg("INIT", i, NoId, Free))
  BY <1>1, Sent
<1>4. /\ TypeOK' /\ KeysDiffer' /\ StopsKept'
      /\ srv' # "down" => Distinct' /\ StopsOwed' /\ Owned' /\ Counted'
  BY StopsRemembered DEF TypeOK, Distinct, StopsOwed, StopOwed, Owned, Counted, FreeIds, KeysDiffer,
     StopsKept
<1>5. MessagesOK' /\ QueuesKept'
  BY <1>2 DEF MessagesOK, Types, TypeOK, KeysDiffer, QueuesKept, Alive, Answered, InTable,
     Messages, StoppedTwice, StopsKept
<1>6. NoEchoYet'
  <2> SUFFICES ASSUME NEW c \in Clients, NEW n \in Places(inbox'[c]), inbox'[c][n].type = "TALL"
               PROVE  /\ cpc[c] = "waitInit" => inbox'[c][n].clientID # inbox'[c][1].clientID
                      /\ cpc[c] = "running" => inbox'[c][n].clientID # clientID[c]
    BY DEF NoEchoYet
  <2>1. CASE inbox'[c] = inbox[c]
    BY <2>1 DEF NoEchoYet
  <2>2. CASE inbox'[c] # inbox[c]
    <3>1. n \in Places(inbox[c]) /\ inbox[c] # <<>> /\ inbox'[c][n] = inbox[c][n] /\ inbox'[c][1] = inbox[c][1]
      BY <1>2, <2>2 DEF Grown, Msg
    <3> QED
      BY <3>1 DEF NoEchoYet
  <2> QED
    BY <2>1, <2>2
<1>7. srv' # "down" => Answered'
  <2> SUFFICES ASSUME NEW c \in Clients
               PROVE  /\ cpc[c] \in {"start", "created"} => ~InTable(c)
                      /\ cpc[c] = "waitInit" /\ inbox'[c] # <<>> =>
                           inbox'[c][1].clientID \in Ids
                           /\ (clients[inbox'[c][1].clientID] = c \/ StoppedTwice(inbox'[c][1].clientID))
                      /\ cpc[c] = "waitInit" => \A d \in Ids : clients[d] = c =>
                           inbox'[c] # <<>> /\ inbox'[c][1].clientID = d
    BY StopsRemembered DEF Answered, InTable
  <2>1. CASE inbox'[c] = inbox[c]
    <3>1. ASSUME cpc[c] = "waitInit", clients[i] = c, i \in Ids  PROVE inbox[c] # <<>>
      <4>1. queueOf[key[c]] = c /\ key[c] \in Keys /\ c # Free
        BY <3>1, ChatAssumption DEF QueuesKept, Alive, TypeOK
      <4> QED
        BY <3>1, <4>1, <1>3, <2>1 DEF Exists, Grown
    <3> QED
      BY <2>1, <3>1 DEF Answered
  <2>2. CASE inbox'[c] # inbox[c]
    <3>1. clients[i] = c /\ Grown(inbox[c], inbox'[c], Msg("INIT", i, NoId, Free)) /\ i \in Ids
      BY <1>2, <2>2 DEF TypeOK
    <3>2. InTable(c) /\ \A d \in Ids : clients[d] = c => d = i
      BY <3>1, ChatAssumption DEF InTable, Distinct
    <3> QED
      BY <3>1, <3>2 DEF Answered, Grown, Msg
  <2> QED
    BY <2>1, <2>2
<1>8. srv' # "down" => InitsOwed'
  <2>1. \A m : InitOwed(m) => InitOwed(m)'
    BY <1>2, StopsRemembered DEF InitOwed, Waits, InTable, TypeOK
  <2> QED
    BY <2>1 DEF InitsOwed
<1> QED
  BY <1>4, <1>5, <1>6, <1>7, <1>8

\* The id taken back belongs to a client that has stopped.
LEMMA HandleStopStep ==
  ASSUME ChatInv, HandleStop
  PROVE  ChatInv'
<1> USE DEF ChatInv, TableInv, HandleStop, RemoveClient, OneClientLess, server, clientv
<1> DEFINE id == msgBuffer.clientID
<1>1. NotOwed(msgBuffer) \/ StopOwed(msgBuffer)
  BY DEF StopsOwed
<1>2. clients' \in [Ids -> Clients \union {Free}] /\ \A d \in Ids : clients'[d] = IF d = id THEN Free ELSE clients[d]
  BY DEF TypeOK
<1>3. ASSUME NEW d \in Ids, clients[d] \in Clients, cpc[clients[d]] \notin {"stopping", "gone"}
      PROVE  clients'[d] = clients[d] \/ StoppedTwice(d)
  BY <1>1, <1>2, <1>3 DEF NotOwed, StopOwed, Ids, NoId
<1>4. (\A d : StoppedTwice(d)' <=> StoppedTwice(d)) /\ (AllOrderly' <=> AllOrderly)
  BY StopsRemembered
<1>5. TypeOK' /\ MessagesOK' /\ QueuesKept' /\ StopsKept' /\ NoEchoYet' /\ KeysDiffer'
  BY <1>2 DEF TypeOK, MessagesOK, Types, QueuesKept, Alive, StopsKept, NoEchoYet, KeysDiffer
<1>6. srv' # "down" => Distinct' /\ Owned'
  BY <1>2, <1>3, <1>4, ChatAssumption DEF Distinct, Owned
<1>7. srv' # "down" => Answered'
  BY <1>2, <1>3, <1>4, ChatAssumption DEF Answered, InTable
<1>8. srv' # "down" => InitsOwed'
  <2>1. \A m : InitOwed(m) => InitOwed(m)'
    BY <1>2, StopsRemembered, ChatAssumption DEF InitOwed, Waits, InTable
  <2> QED
    BY <2>1 DEF InitsOwed
<1>9. srv' # "down" => StopsOwed'
  <2>1. \A m : NotOwed(m)' <=> NotOwed(m)
    BY StopsRemembered
  <2>2. \A m : StopOwed(m) /\ m.clientID # id => StopOwed(m)'
    BY <1>2 DEF StopOwed
  <2> QED
    BY <2>1, <2>2 DEF StopsOwed
<1>10. srv' # "down" => Counted'
  <2> SUFFICES ASSUME AllOrderly  PROVE activeClients' = Cardinality(Ids \ FreeIds')
    BY <1>4 DEF Counted
  <2>1. id \in Ids /\ clients[id] \in Clients
    BY <1>1 DEF NotOwed, StoppedTwice, AllOrderly, Orderly, StopOwed
  <2>2. Ids \ FreeIds' = (Ids \ FreeIds) \ {id} /\ id \in Ids \ FreeIds
    BY <1>2, <2>1, ChatAssumption DEF FreeIds
  <2>3. IsFiniteSet(Ids \ FreeIds)
    BY FiniteIds
  <2>4. Cardinality(Ids \ FreeIds') = Cardinality(Ids \ FreeIds) - 1
    BY <2>2, <2>3, FS_RemoveElement
  <2> QED
    BY <2>4 DEF Counted
<1> QED
  BY <1>5, <1>6, <1>7, <1>8, <1>9, <1>10

\* LIST changes nothing.
LEMMA HandleListStep ==
  ASSUME ChatInv, HandleList
  PROVE  ChatInv'
<1> USE DEF ChatInv, TableInv, HandleList, server, clientv
<1>1. /\ TypeOK' /\ MessagesOK' /\ QueuesKept' /\ NoEchoYet' /\ KeysDiffer' /\ StopsKept'
      /\ srv' # "down" => Distinct' /\ StopsOwed' /\ InitsOwed' /\ Answered' /\ Owned' /\ Counted'
  BY DEF TypeOK, MessagesOK, Types, QueuesKept, Alive, NoEchoYet, Distinct, StopsOwed,
     StopOwed, InitsOwed, InitOwed, InTable, Answered, Owned, Counted, FreeIds, KeysDiffer,
     NotOwed, StoppedTwice, AllOrderly, Orderly, Waits, StopsKept
<1> QED
  BY <1>1

\* A text goes to the queue of another id than its sender's.
LEMMA HandleTallStep ==
  ASSUME ChatInv, HandleTall
  PROVE  ChatInv'
<1> USE DEF ChatInv, TableInv, HandleTall, server, clientv
<1>1. msgBuffer \in Messages
  BY DEF MessagesOK
<1>2. /\ inbox' \in [Clients -> Seq(Messages)]
      /\ \A c \in Clients : inbox'[c] # inbox[c] => clients[i] = c /\ Grown(inbox[c], inbox'[c], msgBuffer)
  <2>1. CASE ToOthers(i)
    <3>1. inbox' = ToClient(inbox, clients[i], msgBuffer)
      BY <2>1
    <3> QED
      BY <1>1, <3>1, Sent
  <2>2. CASE ~ToOthers(i)
    <3>1. inbox' = inbox
      BY <2>2
    <3> QED
      BY <3>1 DEF MessagesOK
  <2> QED
    BY <2>1, <2>2
<1>3. /\ TypeOK' /\ KeysDiffer' /\ StopsKept'
      /\ srv' # "down" => Distinct' /\ StopsOwed' /\ Owned' /\ Counted'
  BY StopsRemembered DEF TypeOK, Distinct, StopsOwed, StopOwed, Owned, Counted, FreeIds, KeysDiffer,
     StopsKept
<1>4. MessagesOK' /\ QueuesKept'
  BY <1>2 DEF MessagesOK, Types, TypeOK, KeysDiffer, QueuesKept, Alive, Answered, InTable,
     Messages, StoppedTwice, StopsKept
<1>5. NoEchoYet'
  <2> SUFFICES ASSUME NEW c \in Clients, NEW n \in Places(inbox'[c]), inbox'[c][n].type = "TALL"
               PROVE  /\ cpc[c] = "waitInit" => inbox'[c][n].clientID # inbox'[c][1].clientID
                      /\ cpc[c] = "running" => inbox'[c][n].clientID # clientID[c]
    BY DEF NoEchoYet
  <2>1. CASE inbox'[c] = inbox[c]
    BY <2>1 DEF NoEchoYet
  <2>2. CASE inbox'[c] # inbox[c]
    <3>1. clients[i] = c /\ Grown(inbox[c], inbox'[c], msgBuffer) /\ i # msgBuffer.clientID /\ i \in Ids
      BY <1>2, <2>2 DEF ToOthers, TypeOK
    <3>2. /\ cpc[c] = "waitInit" => inbox[c] # <<>> /\ inbox[c][1].clientID = i
          /\ cpc[c] = "running" => clientID[c] = i
      BY <3>1, ChatAssumption DEF Answered, Owned
    <3>3. CASE n \in Places(inbox[c]) /\ inbox[c] # <<>> /\ inbox'[c][n] = inbox[c][n]
      BY <3>1, <3>3 DEF NoEchoYet, Grown
    <3>4. CASE inbox'[c][n] = msgBuffer
      BY <3>1, <3>2, <3>4 DEF Grown
    <3> QED
      BY <3>1, <3>3, <3>4 DEF Grown
  <2> QED
    BY <2>1, <2>2
<1>6. srv' # "down" => Answered'
  <2> SUFFICES ASSUME NEW c \in Clients
               PROVE  /\ cpc[c] \in {"start", "created"} => ~InTable(c)
                      /\ cpc[c] = "waitInit" /\ inbox'[c] # <<>> =>
                           inbox'[c][1].clientID \in Ids
                           /\ (clients[inbox'[c][1].clientID] = c \/ StoppedTwice(inbox'[c][1].clientID))
                      /\ cpc[c] = "waitInit" => \A d \in Ids : clients[d] = c =>
                           inbox'[c] # <<>> /\ inbox'[c][1].clientID = d
    BY StopsRemembered DEF Answered, InTable
  <2>1. CASE inbox'[c] = inbox[c]
    BY <2>1 DEF Answered
  <2>2. CASE inbox'[c] # inbox[c]
    <3>1. Grown(inbox[c], inbox'[c], msgBuffer) /\ InTable(c)
      BY <1>2, <2>2 DEF InTable, TypeOK
    <3>2. cpc[c] = "waitInit" => inbox[c] # <<>>
      BY <3>1 DEF Answered, InTable
    <3>3. inbox[c] # <<>> => inbox'[c] # <<>> /\ inbox'[c][1] = inbox[c][1]
      BY <3>1 DEF Grown
    <3> QED
      BY <3>1, <3>2, <3>3 DEF Answered
  <2> QED
    BY <2>1, <2>2
<1>7. srv' # "down" => InitsOwed'
  <2>1. \A m : InitOwed(m) => InitOwed(m)'
    BY <1>2, StopsRemembered DEF InitOwed, Waits, InTable, TypeOK
  <2> QED
    BY <2>1 DEF InitsOwed
<1> QED
  BY <1>3, <1>4, <1>5, <1>6, <1>7

\* A text to one id is put behind the first message of its queue.
LEMMA HandleToneStep ==
  ASSUME ChatInv, HandleTone
  PROVE  ChatInv'
<1> USE DEF ChatInv, TableInv, HandleTone, server, clientv
<1>1. msgBuffer \in Messages
  BY DEF MessagesOK
<1>2. /\ inbox' \in [Clients -> Seq(Messages)]
      /\ \A c \in Clients : inbox'[c] # inbox[c] => clients[msgBuffer.recipientID] = c /\ Grown(inbox[c], inbox'[c], msgBuffer)
  BY Sent, <1>1
<1>3. msgBuffer.recipientID \in Ids
  BY <1>1 DEF MessagesOK, Messages, Types
<1>4. /\ TypeOK' /\ KeysDiffer' /\ StopsKept'
      /\ srv' # "down" => Distinct' /\ StopsOwed' /\ Owned' /\ Counted'
  BY StopsRemembered DEF TypeOK, Distinct, StopsOwed, StopOwed, Owned, Counted, FreeIds, KeysDiffer,
     StopsKept
<1>5. MessagesOK' /\ QueuesKept'
  BY <1>2 DEF MessagesOK, Types, TypeOK, KeysDiffer, QueuesKept, Alive, Answered, InTable,
     Messages, StoppedTwice, StopsKept
<1>6. NoEchoYet'
  <2> SUFFICES ASSUME NEW c \in Clients, NEW n \in Places(inbox'[c]), inbox'[c][n].type = "TALL"
               PROVE  /\ cpc[c] = "waitInit" => inbox'[c][n].clientID # inbox'[c][1].clientID
                      /\ cpc[c] = "running" => inbox'[c][n].clientID # clientID[c]
    BY DEF NoEchoYet
  <2>1. CASE inbox'[c] = inbox[c]
    BY <2>1 DEF NoEchoYet
  <2>2. CASE inbox'[c] # inbox[c]
    <3>1. n \in Places(inbox[c]) /\ inbox[c] # <<>> /\ inbox'[c][n] = inbox[c][n] /\ inbox'[c][1] = inbox[c][1]
      BY <1>2, <2>2 DEF Grown, MessagesOK, Types
    <3> QED
      BY <3>1 DEF NoEchoYet
  <2> QED
    BY <2>1, <2>2
<1>7. srv' # "down" => Answered'
  <2> SUFFICES ASSUME NEW c \in Clients
               PROVE  /\ cpc[c] \in {"start", "created"} => ~InTable(c)
                      /\ cpc[c] = "waitInit" /\ inbox'[c] # <<>> =>
                           inbox'[c][1].clientID \in Ids
                           /\ (clients[inbox'[c][1].clientID] = c \/ StoppedTwice(inbox'[c][1].clientID))
                      /\ cpc[c] = "waitInit" => \A d \in Ids : clients[d] = c =>
                           inbox'[c] # <<>> /\ inbox'[c][1].clientID = d
    BY StopsRemembered DEF Answered, InTable
  <2>1. CASE inbox'[c] = inbox[c]
    BY <2>1 DEF Answered
  <2>2. CASE inbox'[c] # inbox[c]
    <3>1. Grown(inbox[c], inbox'[c], msgBuffer) /\ InTable(c)
      BY <1>2, <1>3, <2>2 DEF InTable
    <3>2. cpc[c] = "waitInit" => inbox[c] # <<>>
      BY <3>1 DEF Answered, InTable
    <3>3. inbox[c] # <<>> => inbox'[c] # <<>> /\ inbox'[c][1] = inbox[c][1]
      BY <3>1 DEF Grown
    <3> QED
      BY <3>1, <3>2, <3>3 DEF Answered
  <2> QED
    BY <2>1, <2>2
<1>8. srv' # "down" => InitsOwed'
  <2>1. \A m : InitOwed(m) => InitOwed(m)'
    <3>1. \A c \in Clients : ~InTable(c) => inbox'[c] = inbox[c]
      BY <1>2, <1>3 DEF InTable
    <3> QED
      BY <3>1, StopsRemembered DEF InitOwed, Waits, InTable
  <2> QED
    BY <2>1 DEF InitsOwed
<1> QED
  BY <1>4, <1>5, <1>6, <1>7, <1>8

\* A key of its own opens a queue of its own.
LEMMA CreateStep ==
  ASSUME ChatInv, NEW c \in Clients, Create(c)
  PROVE  ChatInv'
<1> USE DEF ChatInv, TableInv, Create, Become, server, clientv
<1>1. TypeOK' /\ MessagesOK' /\ QueuesKept' /\ NoEchoYet' /\ KeysDiffer'
  BY DEF TypeOK, MessagesOK, KeysDiffer, QueuesKept, Alive, NoEchoYet
<1>2. StopsKept'
  BY DEF StopsKept
<1>3. srv' # "down" => Distinct' /\ StopsOwed' /\ InitsOwed' /\ Answered' /\ Owned' /\ Counted'
  BY StopsRemembered DEF TypeOK, QueuesKept, Distinct, StopsOwed, StopOwed, InitsOwed, InitOwed,
     InTable, Answered, Owned, Counted, FreeIds, Waits
<1> QED
  BY <1>1, <1>2, <1>3

\* The first INIT of a client.
LEMMA SendInitStep ==
  ASSUME ChatInv, NEW c \in Clients, SendInit(c)
  PROVE  ChatInv'
<1> USE DEF ChatInv, TableInv, SendInit, Become, server, clientv
<1>1. PICK m \in Messages : ToServer(m) /\ m.type = "INIT" /\ m.clientKey = key[c]
  <2>1. Msg("INIT", NoId, NoId, key[c]) \in Messages
    BY Written DEF Types, TypeOK
  <2>2. Msg("INIT", NoId, NoId, key[c]).type = "INIT" /\ Msg("INIT", NoId, NoId, key[c]).clientKey = key[c]
    BY DEF Msg
  <2> QED
    BY <2>1, <2>2
<1>2. serverQ' \in Seq(Messages) /\ (srv # "down" => Grown(serverQ, serverQ', m))
  BY <1>1, SentToServer
<1>3. /\ TypeOK' /\ QueuesKept' /\ KeysDiffer' /\ StopsKept'
      /\ srv' # "down" => Distinct' /\ Answered' /\ Owned' /\ Counted'
  BY DEF TypeOK, QueuesKept, Alive, Distinct, Answered, InTable, Owned, Counted, FreeIds,
     KeysDiffer, AllOrderly, Orderly, StoppedTwice, StopsKept
<1>4. MessagesOK'
  BY <1>2 DEF MessagesOK
<1>5. NoEchoYet'
  <2>1. inbox[c] = <<>>
    BY DEF QueuesKept
  <2> QED
    BY <2>1 DEF NoEchoYet, Places, TypeOK
<1>6. srv' # "down" => StopsOwed'
  <2> SUFFICES ASSUME srv # "down"  PROVE StopsOwed'
    OBVIOUS
  <2>1. \A n \in Places(serverQ') : serverQ'[n].type = "STOP" => n \in Places(serverQ) /\ serverQ'[n] = serverQ[n]
    BY <1>1, <1>2 DEF Grown
  <2> QED
    BY <2>1 DEF StopsOwed, StopOwed, NotOwed, StoppedTwice, AllOrderly, Orderly
<1>7. srv' # "down" => InitsOwed'
  <2> SUFFICES ASSUME srv # "down"  PROVE InitsOwed'
    OBVIOUS
  <2>1. \A n \in Places(serverQ') :
          \/ n \in Places(serverQ) /\ serverQ'[n] = serverQ[n]
          \/ n = Len(serverQ') /\ serverQ'[n] = m
    BY <1>2 DEF Grown
  <2>2. InitOwed(m)'
    BY <1>1 DEF InitOwed, InTable, KeysDiffer, QueuesKept, Answered, TypeOK, Waits
  <2>3. \A o : InitOwed(o) => InitOwed(o)' /\ o.clientKey # m.clientKey
    BY <1>1, StopsRemembered DEF InitOwed, InTable, TypeOK, Waits
  <2> QED
    BY <2>1, <2>2, <2>3 DEF InitsOwed
<1> QED
  BY <1>3, <1>4, <1>5, <1>6, <1>7

\* The first message a client reads tells the id it is entered under.
LEMMA ReceiveInitStep ==
  ASSUME ChatInv, NEW c \in Clients, ReceiveInit(c)
  PROVE  ChatInv'
<1> USE DEF ChatInv, TableInv, ReceiveInit, Become, server, clientv
<1>1. Exists(c) /\ clientQ[c] = c /\ inbox[c] # <<>>
  <2>1. queueOf[key[c]] = c /\ clientQ[c] = c /\ key[c] \in Keys /\ c # Free
    BY ChatAssumption DEF QueuesKept, Alive, TypeOK
  <2>2. Exists(c)
    BY <2>1 DEF Exists
  <2>3. Pending(c) # {}
    BY <2>1
  <2> QED
    BY <2>1, <2>2, <2>3 DEF Pending
<1>2. /\ Tail(inbox[c]) \in Seq(Messages) /\ inbox[c][1] \in Messages /\ inbox[c][1] = Head(inbox[c])
      /\ Shrunk(inbox[c], Tail(inbox[c]))
  BY <1>1, Received DEF MessagesOK
<1>3. clientID' = [clientID EXCEPT ![c] = inbox[c][1].clientID] /\ inbox' = [inbox EXCEPT ![c] = Tail(inbox[c])]
  BY <1>2, <1>1 DEF Pending
<1>4. TypeOK' /\ MessagesOK'
  BY <1>2, <1>1, <1>3 DEF TypeOK, MessagesOK, Ids, NoId, Messages, Types, Shrunk
<1>5. /\ cpc[c] = "waitInit" /\ stops[c] = 0 /\ UNCHANGED stops
      /\ \A d \in Clients \ {c} : cpc'[d] = cpc[d] /\ clientID'[d] = clientID[d] /\ inbox'[d] = inbox[d]
  <2>1. cpc[c] = "waitInit" /\ stops[c] = 0
    BY DEF StopsKept
  <2>2. \A d \in Clients \ {c} : cpc'[d] = cpc[d] /\ clientID'[d] = clientID[d] /\ inbox'[d] = inbox[d]
    BY <1>3 DEF TypeOK, MessagesOK
  <2> QED
    BY <2>1, <2>2
<1>6. /\ \A d \in Clients : ~Orderly(d) => ~Orderly(d)'
      /\ AllOrderly' => AllOrderly
      /\ \A d : StoppedTwice(d) => StoppedTwice(d)'
      /\ \A m : NotOwed(m) => NotOwed(m)'
  <2>1. \A d \in Clients : /\ stops'[d] \in Nat /\ stops'[d] >= stops[d]
                           /\ clientID'[d] = clientID[d] \/ stops[d] = 0
    BY <1>5 DEF StopsKept
  <2> QED
    BY <2>1, StopsAdvance
<1>7. srv' # "down" => InitsOwed' /\ Answered'
  <2>1. \A m : InitOwed(m) => InitOwed(m)'
    BY <1>1, <1>5, <1>6 DEF InitOwed, InTable, Waits
  <2>2. srv # "down" => InitsOwed'
    BY <2>1 DEF InitsOwed
  <2>3. ASSUME srv # "down", NEW d \in Clients
        PROVE  /\ cpc'[d] \in {"start", "created"} => ~InTable(d)
               /\ cpc'[d] = "waitInit" /\ inbox'[d] # <<>> => inbox'[d] = inbox[d]
                    /\ inbox[d][1].clientID \in Ids
                    /\ (clients[inbox[d][1].clientID] = d \/ StoppedTwice(inbox[d][1].clientID))
               /\ cpc'[d] = "waitInit" => \A e \in Ids : clients[e] = d =>
                    \/ srv = "reply" /\ i = e /\ inbox'[d] = <<>>
                    \/ inbox'[d] # <<>> /\ inbox'[d][1].clientID = e
    <3>1. CASE d = c
      BY <3>1 DEF TypeOK
    <3>2. CASE d # c
      <4>1. cpc'[d] = cpc[d] /\ inbox'[d] = inbox[d]
        BY <1>5, <3>2
      <4>2. Answered
        BY <2>3
      <4> QED
        BY <4>1, <4>2 DEF Answered
    <3> QED
      BY <3>1, <3>2
  <2>4. ASSUME srv # "down", NEW d \in Clients, cpc'[d] = "waitInit", inbox'[d] # <<>>
        PROVE  /\ inbox'[d][1].clientID \in Ids
               /\ \/ clients[inbox'[d][1].clientID] = d
                  \/ \E e \in Clients : clientID'[e] = inbox'[d][1].clientID /\ stops'[e] > 1
    <3>1. PICK x : x = inbox[d][1].clientID
      OBVIOUS
    <3>2. inbox'[d] = inbox[d] /\ x \in Ids /\ (clients[x] = d \/ StoppedTwice(x))
      BY <2>3, <2>4, <3>1
    <3>3. StoppedTwice(x) => StoppedTwice(x)'
      BY <1>6
    <3>4. StoppedTwice(x)' => \E e \in Clients : clientID'[e] = x /\ stops'[e] > 1
      BY DEF StoppedTwice
    <3> QED
      BY <3>1, <3>2, <3>3, <3>4
  <2>5. UNCHANGED <<srv, i, clients>> /\ \A d : InTable(d)' <=> InTable(d)
    BY DEF InTable
  <2>6. srv # "down" => Answered'
    BY <2>3, <2>4, <2>5 DEF Answered, StoppedTwice
  <2> QED
    BY <2>2, <2>6
<1>9. srv' # "down" => Owned'
  <2>1. ASSUME srv # "down", NEW d \in Clients, cpc'[d] = "running"
        PROVE  /\ clientID'[d] \in Ids
               /\ clients[clientID'[d]] = d \/ StoppedTwice(clientID'[d])
               /\ \A e \in Ids : clients[e] = d => clientID'[d] = e
    <3>1. CASE d # c
      BY <1>5, <2>1, <3>1 DEF Owned
    <3>2. CASE d = c
      BY <1>1, <1>3, <1>5, <2>1, <3>2 DEF Answered, TypeOK
    <3> QED
      BY <3>1, <3>2
  <2> QED
    BY <1>6, <2>1 DEF Owned
<1>10. QueuesKept' /\ KeysDiffer' /\ (srv' # "down" => Distinct' /\ Counted')
  BY <1>5, <1>6 DEF QueuesKept, Alive, Distinct, Counted, FreeIds, KeysDiffer
<1>12. StopsKept'
  <2>1. cpc'[c] = "running"
    BY DEF TypeOK
  <2> QED
    BY <1>5, <2>1 DEF StopsKept
<1>11. srv' # "down" => StopsOwed'
  <2>1. \A m : StopOwed(m) => StopOwed(m)'
    BY <1>5 DEF StopOwed
  <2> QED
    BY <1>6, <2>1 DEF StopsOwed
<1>8. NoEchoYet'
  <2> SUFFICES ASSUME NEW d \in Clients, NEW n \in Places(inbox'[d]), inbox'[d][n].type = "TALL"
               PROVE  /\ cpc'[d] = "waitInit" => inbox'[d][n].clientID # inbox'[d][1].clientID
                      /\ cpc'[d] = "running" => inbox'[d][n].clientID # clientID'[d]
    BY DEF NoEchoYet
  <2>1. CASE d # c
    BY <1>1, <1>3, <2>1 DEF NoEchoYet, MessagesOK, TypeOK
  <2>2. CASE d = c
    <3>1. n + 1 \in Places(inbox[c]) /\ inbox'[c][n] = inbox[c][n + 1]
      BY <1>2, <1>3, <2>2 DEF Shrunk, MessagesOK
    <3>2. cpc[c] = "waitInit" /\ cpc'[c] = "running" /\ clientID'[c] = inbox[c][1].clientID
      BY <1>3 DEF TypeOK
    <3>3. inbox[c][n + 1].clientID # inbox[c][1].clientID
      <4>1. inbox[c][n + 1].type = "TALL"
        BY <2>2, <3>1
      <4> QED
        BY <3>1, <3>2, <4>1 DEF NoEchoYet
    <3> QED
      BY <2>2, <3>1, <3>2, <3>3
  <2> QED
    BY <2>1, <2>2
<1> QED
  BY <1>4, <1>7, <1>8, <1>9, <1>10, <1>11, <1>12

\* Orders are neither INIT nor STOP.
LEMMA OrderStep ==
  ASSUME ChatInv, NEW c \in Clients, Order(c)
  PROVE  ChatInv'
<1> USE DEF ChatInv, TableInv, Order, server, clientv
<1>1. PICK m \in Messages : ToServer(m) /\ m.type \notin {"INIT", "STOP"}
  <2>1. PICK type \in {"LIST", "TALL", "TONE"}, to \in Ids \union {NoId} :
          (type = "TONE" => to \in Ids) /\ ToServer(Msg(type, clientID[c], to, Free))
    OBVIOUS
  <2>2. Msg(type, clientID[c], to, Free) \in Messages
    BY <2>1, Written DEF Types, TypeOK
  <2>3. Msg(type, clientID[c], to, Free).type \notin {"INIT", "STOP"}
    BY <2>1 DEF Msg
  <2> QED
    BY <2>1, <2>2, <2>3
<1>2. serverQ' \in Seq(Messages) /\ (srv # "down" => Grown(serverQ, serverQ', m))
  BY <1>1, SentToServer
<1>3. /\ TypeOK' /\ QueuesKept' /\ NoEchoYet' /\ KeysDiffer' /\ StopsKept'
      /\ srv' # "down" => Distinct' /\ Answered' /\ Owned' /\ Counted'
  BY DEF TypeOK, QueuesKept, Alive, NoEchoYet, Distinct, Answered, InTable, Owned, Counted,
     FreeIds, KeysDiffer, AllOrderly, Orderly, StoppedTwice, StopsKept
<1>4. MessagesOK'
  BY <1>2 DEF MessagesOK
<1>5. srv' # "down" => StopsOwed'
  <2> SUFFICES ASSUME srv # "down"  PROVE StopsOwed'
    OBVIOUS
  <2>1. \A n \in Places(serverQ') : serverQ'[n].type = "STOP" => n \in Places(serverQ) /\ serverQ'[n] = serverQ[n]
    BY <1>1, <1>2 DEF Grown
  <2> QED
    BY <2>1 DEF StopsOwed, StopOwed, NotOwed, StoppedTwice, AllOrderly, Orderly
<1>6. srv' # "down" => InitsOwed'
  <2> SUFFICES ASSUME srv # "down"  PROVE InitsOwed'
    OBVIOUS
  <2>1. \A n \in Places(serverQ') : serverQ'[n].type = "INIT" => n \in Places(serverQ) /\ serverQ'[n] = serverQ[n]
    BY <1>1, <1>2 DEF Grown
  <2> QED
    BY <2>1 DEF InitsOwed, InitOwed, InTable, Waits, Orderly
<1> QED
  BY <1>3, <1>4, <1>5, <1>6

\* The first STOP of a running client carries the id it owns; every other is not owed.
LEMMA SendStopStep ==
  ASSUME ChatInv, NEW c \in Clients, SendStop(c)
  PROVE  ChatInv'
<1> USE DEF ChatInv, TableInv, SendStop, server, clientv
<1>1. PICK m \in Messages : ToServer(m) /\ m.type = "STOP" /\ m.clientID = clientID[c]
  <2>1. Msg("STOP", clientID[c], NoId, Free) \in Messages
    BY Written DEF Types, TypeOK
  <2>2. Msg("STOP", clientID[c], NoId, Free).type = "STOP" /\ Msg("STOP", clientID[c], NoId, Free).clientID = clientID[c]
    BY DEF Msg
  <2> QED
    BY <2>1, <2>2
<1>2. serverQ' \in Seq(Messages) /\ (srv # "down" => Grown(serverQ, serverQ', m))
  BY <1>1, SentToServer
<1>3. /\ \A d \in Clients : cpc'[d] = IF d = c THEN "stopping" ELSE cpc[d]
      /\ \A d \in Clients : stops'[d] = IF d = c THEN stops[c] + 1 ELSE stops[d]
      /\ stops[c] \in Nat /\ UNCHANGED clientID /\ StopsKept'
  BY DEF StopsKept, TypeOK
<1>4. /\ \A d \in Clients : ~Orderly(d) => ~Orderly(d)'
      /\ AllOrderly' => AllOrderly
      /\ \A d : StoppedTwice(d) => StoppedTwice(d)'
      /\ \A o : NotOwed(o) => NotOwed(o)'
  <2>1. \A d \in Clients : /\ stops'[d] \in Nat /\ stops'[d] >= stops[d]
                           /\ clientID'[d] = clientID[d] \/ stops[d] = 0
    BY <1>3 DEF StopsKept
  <2> QED
    BY <2>1, StopsAdvance
<1>5. cpc[c] \in {"created", "waitInit"} => clientID[c] = NoId /\ ~Orderly(c)'
  BY <1>3 DEF StopsKept, Orderly
<1>6. /\ TypeOK' /\ QueuesKept' /\ NoEchoYet' /\ KeysDiffer'
      /\ srv' # "down" => Distinct' /\ Counted'
  BY <1>3, <1>4 DEF TypeOK, QueuesKept, Alive, NoEchoYet, Distinct, Counted, FreeIds, KeysDiffer
<1>7. srv' # "down" => Answered' /\ Owned'
  BY <1>3, <1>4 DEF Answered, InTable, Owned
<1>8. MessagesOK'
  BY <1>2 DEF MessagesOK
<1>9. srv' # "down" => StopsOwed'
  <2> SUFFICES ASSUME srv # "down"  PROVE StopsOwed'
    OBVIOUS
  <2>1. \A n \in Places(serverQ') :
          \/ n \in Places(serverQ) /\ serverQ'[n] = serverQ[n]
          \/ n = Len(serverQ') /\ serverQ'[n] = m
    BY <1>2 DEF Grown
  <2>2. NotOwed(m)' \/ (StopOwed(m)' /\ clients[m.clientID] = c /\ cpc[c] = "running")
    <3>1. CASE cpc[c] = "running"
      BY <1>1, <1>3, <1>4, <3>1 DEF Owned, StopOwed, NotOwed, TypeOK
    <3>2. CASE cpc[c] \in {"created", "waitInit"}
      BY <1>1, <1>5, <3>2 DEF NotOwed, AllOrderly
    <3>3. CASE cpc[c] = "stopping"
      BY <1>1, <1>3, <3>3 DEF NotOwed, StoppedTwice, StopsKept
    <3> QED
      BY <3>1, <3>2, <3>3
  <2>3. \A o : StopOwed(o) => StopOwed(o)'
    BY <1>3 DEF StopOwed
  <2>4. \A o : ~NotOwed(o)' /\ StopOwed(o) => o.clientID # m.clientID
    BY <2>2 DEF NotOwed, StopOwed
  <2>5. ASSUME NEW n \in Places(serverQ'), NEW x, x = serverQ'[n], x.type = "STOP", ~NotOwed(x)'
        PROVE  /\ StopOwed(x)'
               /\ \A o \in Places(serverQ') : serverQ'[o].type = "STOP" /\ serverQ'[o].clientID = x.clientID => n = o
               /\ srv = "STOP" => x.clientID # msgBuffer.clientID
    <3>1. \A y : y.clientID = x.clientID => ~NotOwed(y)' /\ ~NotOwed(y)
      BY <1>4, <2>5 DEF NotOwed
    <3>2. \A o \in Places(serverQ) : serverQ[o].type = "STOP" /\ serverQ[o].clientID = x.clientID =>
            /\ x.clientID # m.clientID
            /\ StopOwed(serverQ[o])
            /\ \A p \in Places(serverQ) : serverQ[p].type = "STOP" /\ serverQ[p].clientID = x.clientID => o = p
            /\ srv = "STOP" => x.clientID # msgBuffer.clientID
      BY <2>4, <3>1 DEF StopsOwed
    <3>3. srv = "STOP" /\ x.clientID = msgBuffer.clientID => x.clientID # m.clientID
      BY <2>4, <3>1 DEF StopsOwed
    <3>4. CASE n \in Places(serverQ) /\ x = serverQ[n]
      BY <2>1, <2>3, <2>5, <3>2, <3>4
    <3>5. CASE n = Len(serverQ') /\ x = m
      <4>1. StopOwed(m)'
        BY <2>2, <2>5, <3>5
      <4> QED
        BY <2>1, <3>2, <3>3, <3>5, <4>1
    <3> QED
      BY <2>1, <2>5, <3>4, <3>5
  <2>6. srv = "STOP" => NotOwed(msgBuffer)' \/ StopOwed(msgBuffer)'
    BY <1>4, <2>3 DEF StopsOwed
  <2> QED
    BY <2>5, <2>6 DEF StopsOwed
<1>10. srv' # "down" => InitsOwed'
  <2> SUFFICES ASSUME srv # "down"  PROVE InitsOwed'
    OBVIOUS
  <2>1. \A n \in Places(serverQ') : serverQ'[n].type = "INIT" => n \in Places(serverQ) /\ serverQ'[n] = serverQ[n]
    BY <1>1, <1>2 DEF Grown
  <2>2. \A o : InitOwed(o) => InitOwed(o)'
    BY <1>3, <1>4, <1>5 DEF InitOwed, InTable, Waits
  <2> QED
    BY <2>1, <2>2 DEF InitsOwed
<1> QED
  BY <1>3, <1>6, <1>7, <1>8, <1>9, <1>10

\* A client ends with its queue.
LEMMA ExitStep ==
  ASSUME ChatInv, NEW c \in Clients, Exit(c)
  PROVE  ChatInv'
<1> USE DEF ChatInv, TableInv, Exit, Become, RemoveQueue, server, clientv
<1>1. clientQ[c] = c
  BY DEF QueuesKept, Alive
<1>2. /\ TypeOK' /\ KeysDiffer' /\ StopsKept'
      /\ srv' # "down" => Distinct' /\ StopsOwed' /\ InitsOwed' /\ Owned' /\ Counted'
  BY DEF TypeOK, Distinct, StopsOwed, StopOwed, InitsOwed, InitOwed, InTable, Owned, Counted,
     FreeIds, KeysDiffer, NotOwed, StoppedTwice, AllOrderly, Orderly, Waits, StopsKept
<1>3. MessagesOK'
  <2>1. <<>> \in Seq(Messages)
    OBVIOUS
  <2>2. inbox' \in [Clients -> Seq(Messages)]
    BY <2>1 DEF MessagesOK
  <2> QED
    BY <2>2 DEF MessagesOK, Types
<1>4. QueuesKept' /\ NoEchoYet' /\ (srv' # "down" => Answered')
  BY <1>1 DEF QueuesKept, Alive, TypeOK, NoEchoYet, Answered, InTable, StoppedTwice
<1> QED
  BY <1>2, <1>3, <1>4

\* A running client reads its own queue.
LEMMA ReceiveTextStep ==
  ASSUME ChatInv, NEW c \in Clients, ReceiveText(c)
  PROVE  ChatInv'
<1> USE DEF ChatInv, TableInv, ReceiveText, Exists, server, clientv
<1>1. clientQ[c] = c /\ c \in Clients
  BY DEF QueuesKept, Alive
<1>2. /\ Tail(inbox[c]) \in Seq(Messages)
      /\ Shrunk(inbox[c], Tail(inbox[c]))
  BY <1>1, Received DEF MessagesOK
<1>3. TypeOK' /\ QueuesKept' /\ KeysDiffer' /\ StopsKept'
  BY <1>1 DEF TypeOK, QueuesKept, Alive, MessagesOK, KeysDiffer, StopsKept
<1>6. srv' # "down" => Distinct' /\ StopsOwed' /\ InitsOwed' /\ Owned' /\ Counted'
  BY <1>1, StopsRemembered DEF Distinct, StopsOwed, StopOwed, InitsOwed, InitOwed, InTable,
     Owned, Counted, FreeIds, Waits, MessagesOK
<1>7. srv' # "down" => Answered'
  BY <1>1, StopsRemembered DEF Answered, InTable, MessagesOK
<1>4. MessagesOK'
  BY <1>2, <1>1 DEF MessagesOK
<1>5. NoEchoYet'
  <2> SUFFICES ASSUME NEW d \in Clients, NEW n \in Places(inbox'[d]), inbox'[d][n].type = "TALL"
               PROVE  /\ cpc'[d] = "waitInit" => inbox'[d][n].clientID # inbox'[d][1].clientID
                      /\ cpc'[d] = "running" => inbox'[d][n].clientID # clientID'[d]
    BY DEF NoEchoYet
  <2>1. CASE d # c
    BY <1>1, <2>1 DEF NoEchoYet, MessagesOK, TypeOK
  <2>2. CASE d = c
    <3>1. n + 1 \in Places(inbox[c]) /\ inbox'[c][n] = inbox[c][n + 1]
      BY <1>2, <1>1, <2>2 DEF Shrunk, MessagesOK
    <3> QED
      BY <1>1, <2>2, <3>1 DEF NoEchoYet, TypeOK
  <2> QED
    BY <2>1, <2>2
<1> QED
  BY <1>3, <1>4, <1>5, <1>6, <1>7

\* A client that is told to stop ends with its queue.
LEMMA ReceiveStopStep ==
  ASSUME ChatInv, NEW c \in Clients, ReceiveStop(c)
  PROVE  ChatInv'
<1> USE DEF ChatInv, TableInv, ReceiveStop, RemoveQueue, Exists, server, clientv
<1>1. clientQ[c] = c
  BY DEF QueuesKept, Alive
<1>2. /\ TypeOK' /\ KeysDiffer' /\ StopsKept'
      /\ srv' # "down" => Distinct' /\ StopsOwed' /\ InitsOwed' /\ Owned' /\ Counted'
  BY DEF TypeOK, Distinct, StopsOwed, StopOwed, InitsOwed, InitOwed, InTable, Owned, Counted,
     FreeIds, KeysDiffer, NotOwed, StoppedTwice, AllOrderly, Orderly, Waits, StopsKept
<1>3. MessagesOK'
  <2>1. <<>> \in Seq(Messages)
    OBVIOUS
  <2>2. inbox' \in [Clients -> Seq(Messages)]
    BY <2>1 DEF MessagesOK
  <2> QED
    BY <2>2 DEF MessagesOK, Types
<1>4. QueuesKept' /\ NoEchoYet' /\ (srv' # "down" => Answered')
  BY <1>1 DEF QueuesKept, Alive, TypeOK, NoEchoYet, Answered, InTable, StoppedTwice
<1> QED
  BY <1>2, <1>3, <1>4

\* Every client in the table is sent STOP, the others nothing.
LEMMA ShutdownStep ==
  ASSUME ChatInv, Shutdown
  PROVE  ChatInv'
<1> USE DEF ChatInv, TableInv, Shutdown, server, clientv
<1>1. ASSUME NEW c \in Clients
      PROVE  \/ inbox'[c] = inbox[c]
             \/ InTable(c) /\ \E m \in Messages : m.type = "STOP" /\ inbox'[c] = Append(inbox[c], m)
  <2> DEFINE Told == {id \in Ids : clients[id] = c /\ Exists(c)}
  <2>1. inbox'[c] = IF Told = {} THEN inbox[c]
                    ELSE Append(inbox[c], Msg("STOP", CHOOSE id \in Told : TRUE, NoId, Free))
    OBVIOUS
  <2>2. CASE Told # {}
    <3>1. PICK id : id = (CHOOSE d \in Told : TRUE) /\ id \in Told
      BY <2>2
    <3>2. Msg("STOP", id, NoId, Free) \in Messages
      BY <3>1, Written DEF Types
    <3>3. Msg("STOP", id, NoId, Free).type = "STOP" /\ InTable(c)
      BY <3>1 DEF Msg, InTable
    <3> QED
      BY <2>1, <2>2, <3>1, <3>2, <3>3
  <2> QED
    BY <2>1, <2>2
<1>2. ASSUME NEW c \in Clients
      PROVE  /\ inbox'[c] \in Seq(Messages)
             /\ inbox'[c] # inbox[c] => InTable(c) /\ \E m \in Messages : m.type = "STOP" /\ Grown(inbox[c], inbox'[c], m)
  <2>1. inbox[c] \in Seq(Messages)
    BY DEF MessagesOK
  <2>2. CASE inbox'[c] = inbox[c]
    BY <2>1, <2>2
  <2>3. CASE inbox'[c] # inbox[c]
    <3>1. PICK m \in Messages : m.type = "STOP" /\ inbox'[c] = Append(inbox[c], m)
      BY <1>1, <2>3
    <3> QED
      BY <1>1, <2>1, <2>3, <3>1, Appended
  <2> QED
    BY <2>2, <2>3
<1>3. TypeOK' /\ KeysDiffer' /\ StopsKept'
  BY ChatAssumption DEF TypeOK, KeysDiffer, StopsKept
<1>4. MessagesOK' /\ QueuesKept'
  BY <1>2 DEF MessagesOK, Types, QueuesKept, Alive, Answered, StoppedTwice
<1>5. NoEchoYet'
  <2> SUFFICES ASSUME NEW c \in Clients, NEW n \in Places(inbox'[c]), inbox'[c][n].type = "TALL"
               PROVE  /\ cpc[c] = "waitInit" => inbox'[c][n].clientID # inbox'[c][1].clientID
                      /\ cpc[c] = "running" => inbox'[c][n].clientID # clientID[c]
    BY DEF NoEchoYet
  <2>1. CASE inbox'[c] = inbox[c]
    BY <2>1 DEF NoEchoYet
  <2>2. CASE inbox'[c] # inbox[c]
    <3>1. n \in Places(inbox[c]) /\ inbox'[c][n] = inbox[c][n] /\ inbox'[c][1] = inbox[c][1]
      BY <1>2, <2>2 DEF Grown
    <3> QED
      BY <3>1 DEF NoEchoYet
  <2> QED
    BY <2>1, <2>2
<1> QED
  BY <1>3, <1>4, <1>5

\* There is no message and no id in use.
LEMMA InitHolds == InitKeysDiffer => ChatInv
<1> SUFFICES ASSUME Init, KeysDiffer PROVE ChatInv
  BY DEF InitKeysDiffer
<1> USE DEF Init
<1>1. TypeOK /\ MessagesOK /\ QueuesKept /\ NoEchoYet
  <2>1. Msg("LIST", NoId, NoId, Free) \in Messages /\ 0 \in Ids
    BY Written DEF Types
  <2>2. <<>> \in Seq(Messages) /\ Places(<<>>) = {}
    BY DEF Places
  <2> QED
    BY <2>1, <2>2 DEF TypeOK, MessagesOK, QueuesKept, Alive, NoEchoYet, Types
<1>2. StopsOwed /\ InitsOwed
  BY DEF StopsOwed, InitsOwed, Places, NotOwed, StoppedTwice, AllOrderly, Orderly
<1>3. Distinct /\ Answered /\ Owned
  BY ChatAssumption DEF Distinct, Answered, InTable, Owned, StoppedTwice
<1>5. StopsKept
  BY DEF StopsKept
<1>4. Counted
  <2>1. Ids \ FreeIds = {}
    BY DEF FreeIds
  <2> QED
    BY <2>1, FS_EmptySet DEF Counted, AllOrderly, Orderly
<1> QED
  BY <1>1, <1>2, <1>3, <1>4, <1>5 DEF ChatInv, TableInv

\* Every step keeps the invariant.
LEMMA ChatInductive == SpecKeysDiffer => []ChatInv
<1>1. ASSUME ChatInv, [Next]_vars
      PROVE  ChatInv'
  <2>1. CASE ServerStep
    BY <1>1, <2>1, ReceiveStep, InitFullStep, InitEnterStep, ReplyStep, HandleStopStep,
       HandleListStep, HandleTallStep, HandleToneStep DEF ServerStep
  <2>2. CASE Shutdown
    BY <1>1, <2>2, ShutdownStep
  <2>3. CASE \E c \in Clients : ClientWork(c)
    BY <1>1, <2>3, CreateStep, SendInitStep, ReceiveInitStep, ExitStep, ReceiveTextStep,
       ReceiveStopStep DEF ClientWork
  <2>4. CASE \E c \in Clients : Order(c) \/ SendStop(c)
    BY <1>1, <2>4, OrderStep, SendStopStep
  <2>5. CASE UNCHANGED vars
    BY <1>1, <2>5 DEF vars, server, clientv, ChatInv, TypeOK, MessagesOK, KeysDiffer, QueuesKept,
       Alive, NoEchoYet, TableInv, Distinct, Counted, FreeIds, StopsOwed, StopOwed, InitsOwed,
       InitOwed, InTable, Answered, Owned, NotOwed, StoppedTwice, AllOrderly, Orderly, Waits, StopsKept
  <2> QED
    BY <1>1, <2>1, <2>2, <2>3, <2>4, <2>5 DEF Next
<1> QED
  BY <1>1, InitHolds, PTL DEF SpecKeysDiffer

\* The types of the server's and the clients' variables.
THEOREM TypesKept == SpecKeysDiffer => []TypeOK
<1>1. ChatInv => TypeOK
  BY DEF ChatInv
<1> QED
  BY <1>1, ChatInductive, PTL

\* Between two messages activeClients counts the ids taken (server.c:49, 65, 78), and the
\* search for a free id finds one.
THEOREM TableCounted == SpecKeysDiffer => [](ActiveCountsTable /\ (AllOrderly => FreeIdFound))
<1>1. ChatInv => ActiveCountsTable
  BY DEF ChatInv, TableInv, Counted, ActiveCountsTable, AllOrderly, Orderly
<1>2. ChatInv /\ AllOrderly => FreeIdFound
  <2> SUFFICES ASSUME ChatInv, AllOrderly, srv = "INIT", activeClients < MAX_CLIENT_NUMBER, FreeIds = {}
               PROVE  FALSE
    BY DEF FreeIdFound
  <2>1. activeClients = Cardinality(0 .. MAX_CLIENT_NUMBER - 1)
    BY DEF ChatInv, TableInv, Counted, Ids, AllOrderly, Orderly
  <2> QED
    BY <2>1, ChatAssumption, FS_Interval
<1> QED
  BY <1>1, <1>2, ChatInductive, PTL

\* A running client owns the place of its id in the table, so no other has the id.
THEOREM IdsOwned == SpecKeysDiffer => []IdOwned
<1>1. ChatInv => IdOwned
  BY DEF ChatInv, TableInv, Owned, QueuesKept, Alive, IdOwned, StoppedTwice
<1> QED
  BY <1>1, ChatInductive, PTL

\* No running client is sent its own 2ALL, whatever ids have been given again.
THEOREM NoOwnText == SpecKeysDiffer => []NoEcho
<1>1. ChatInv => NoEcho
  BY DEF ChatInv, NoEchoYet, QueuesKept, Alive, NoEcho, Places
<1> QED
  BY <1>1, ChatInductive, PTL
=============================================================================
