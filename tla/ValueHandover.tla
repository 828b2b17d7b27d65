--------------------------- MODULE ValueHandover ----------------------------
(***************************************************************************)
(* kolos2 kol1/zad2 (POSIX shared memory) and kol2/zad3 (a System V        *)
(* queue): senders leave a value under a name, receivers print it and      *)
(* remove the object.  Nothing makes one wait for the other.  A sender's   *)
(* value is its identity; an object that is created gets the next number.  *)
(***************************************************************************)
EXTENDS Integers, Sequences, FiniteSets

CONSTANTS
  MaxSenders,          \* model bound: runs of the sender
  MaxReceivers,        \* model bound: runs of the receiver
  QueueRoom            \* the values the queue has room for

ASSUME HandAssumption ==
  MaxSenders \in Nat \ {0} /\ MaxReceivers \in Nat /\ QueueRoom \in Nat

VARIABLES
  medium,              \* "shm" or "queue": which pair of programs runs
  sender, receiver,    \* what each does next
  object,              \* the object the name stands for, 0 if there is none
  content,             \* the values in each object
  fdOf,                \* the object each process has opened
  printed,             \* the values each receiver has printed
  sentSoFar,           \* history: the values put into the object, in order
  sentBefore           \* history: those in it when a receiver opened it

handVars == <<medium, sender, receiver, object, content, fdOf, printed, sentSoFar, sentBefore>>

Senders == 1 .. MaxSenders
Receivers == MaxSenders + 1 .. MaxSenders + MaxReceivers
Objects == Senders
Unwritten == 0

HandInit ==
  /\ medium = "none"
  /\ sender = [s \in Senders |-> "open"]
  /\ receiver = [r \in Receivers |-> "open"]
  /\ object = 0
  /\ content = [o \in Objects |-> <<>>]
  /\ fdOf = [p \in Senders \union Receivers |-> 0]
  /\ printed = [r \in Receivers |-> <<>>]
  /\ sentSoFar = [o \in Objects |-> <<>>]
  /\ sentBefore = [r \in Receivers |-> {}]

HandMain ==
  /\ medium = "none" /\ medium' \in {"shm", "queue"}
  /\ UNCHANGED <<sender, receiver, object, content, fdOf, printed, sentSoFar, sentBefore>>

SenderGoes(s, from, to) == sender[s] = from /\ sender' = [sender EXCEPT ![s] = to]
ReceiverGoes(r, from, to) == receiver[r] = from /\ receiver' = [receiver EXCEPT ![r] = to]

\* shm_open with O_CREAT, msgget with IPC_CREAT.
SenderOpen(s) ==
  LET new == CHOOSE o \in Objects : \A p \in Senders : fdOf[p] # o
      o == IF object = 0 THEN new ELSE object IN
  /\ medium # "none" /\ SenderGoes(s, "open", IF medium = "shm" THEN "truncate" ELSE "put")
  /\ object' = o /\ fdOf' = [fdOf EXCEPT ![s] = o]
  /\ UNCHANGED <<medium, receiver, content, printed, sentSoFar, sentBefore>>

\* ftruncate to the size the object has already changes nothing.
Truncate(s) ==
  /\ SenderGoes(s, "truncate", "put")
  /\ content' = IF content[fdOf[s]] = <<>> THEN [content EXCEPT ![fdOf[s]] = <<Unwritten>>]
                ELSE content
  /\ UNCHANGED <<medium, receiver, object, fdOf, printed, sentSoFar, sentBefore>>

\* Mutant: the sender removes the name, as the comment in line 52 warns.
NameRemoved == 0
NameKept == object

Memcpy(s) ==
  /\ medium = "shm" /\ SenderGoes(s, "put", "ended")
  /\ content' = [content EXCEPT ![fdOf[s]] = <<s>>]
  /\ sentSoFar' = [sentSoFar EXCEPT ![fdOf[s]] = Append(@, s)]
  /\ object' = NameKept
  /\ UNCHANGED <<medium, receiver, fdOf, printed, sentBefore>>

\* Mutant: the value is put in front of the others.
PutFirst(q, v) == <<v>> \o q
PutLast(q, v) == Append(q, v)

\* IPC_NOWAIT: a full queue, like one that was removed, gives an error and ends the sender.
Msgsnd(s) ==
  /\ medium = "queue"
  /\ \/ /\ SenderGoes(s, "put", "ended")
        /\ object = fdOf[s] /\ Len(content[fdOf[s]]) < QueueRoom
        /\ content' = [content EXCEPT ![fdOf[s]] = PutLast(@, s)]
        /\ sentSoFar' = [sentSoFar EXCEPT ![fdOf[s]] = Append(@, s)]
     \/ /\ SenderGoes(s, "put", "failed")
        /\ object # fdOf[s] \/ Len(content[fdOf[s]]) >= QueueRoom
        /\ UNCHANGED <<content, sentSoFar>>
  /\ UNCHANGED <<medium, receiver, object, fdOf, printed, sentBefore>>

\* The receivers sleep a second and open what is there.
ReceiverOpen(r) ==
  /\ medium # "none" /\ ReceiverGoes(r, "open", IF object = 0 THEN "failed" ELSE "get")
  /\ fdOf' = [fdOf EXCEPT ![r] = object]
  /\ sentBefore' = IF object = 0 THEN sentBefore
       ELSE [sentBefore EXCEPT ![r] = {sentSoFar[object][k] : k \in 1 .. Len(sentSoFar[object])}]
  /\ UNCHANGED <<medium, sender, object, content, printed, sentSoFar>>

\* Memory that has no size yet is mapped without complaint and kills who reads it.
ReadShm(r) ==
  /\ medium = "shm"
  /\ \/ /\ ReceiverGoes(r, "get", "killed") /\ content[fdOf[r]] = <<>>
        /\ UNCHANGED printed
     \/ /\ ReceiverGoes(r, "get", "remove") /\ content[fdOf[r]] # <<>>
        /\ printed' = [printed EXCEPT ![r] = content[fdOf[r]]]
  /\ UNCHANGED <<medium, sender, object, content, fdOf, sentSoFar, sentBefore>>

\* Mutant: one value is taken as all there is.
OnlyOne(r) == printed[r] = <<>>
WhileAny(r) == TRUE

\* msgrcv fails on an empty queue, and on one that another receiver has removed.
Msgrcv(r) ==
  LET q == content[fdOf[r]]
      more == object = fdOf[r] /\ q # <<>> /\ WhileAny(r) IN
  /\ medium = "queue"
  /\ ReceiverGoes(r, "get", IF more THEN "get" ELSE "remove")
  /\ printed' = IF more THEN [printed EXCEPT ![r] = Append(@, Head(q))] ELSE printed
  /\ content' = IF more THEN [content EXCEPT ![fdOf[r]] = Tail(@)] ELSE content
  /\ UNCHANGED <<medium, sender, object, fdOf, sentSoFar, sentBefore>>

\* shm_unlink removes whatever has the name by now, IPC_RMID the queue that was opened.
RemoveObject(r) ==
  /\ ReceiverGoes(r, "remove", "ended")
  /\ object' = IF medium = "shm" \/ object = fdOf[r] THEN 0 ELSE object
  /\ UNCHANGED <<medium, sender, content, fdOf, printed, sentSoFar, sentBefore>>

HandNext ==
  \/ HandMain
  \/ \E s \in Senders : SenderOpen(s) \/ Truncate(s) \/ Memcpy(s) \/ Msgsnd(s)
  \/ \E r \in Receivers : ReceiverOpen(r) \/ ReadShm(r) \/ Msgrcv(r) \/ RemoveObject(r)

HandSpec == HandInit /\ [][HandNext]_handVars

-----------------------------------------------------------------------------
(* Properties *)

\* kol1/zad2/sender.c:52: a value in the memory stays there when its sender ends, until a
\* receiver that has read some value removes the name.
ValueWaits ==
  medium = "shm" /\ (\E s \in Senders : sender[s] = "ended")
    /\ (\A r \in Receivers : receiver[r] # "ended")
  => object # 0 /\ content[object] \notin {<<>>, <<Unwritten>>}

\* A receiver that opened the memory after a value was written is not killed and prints a
\* sent value; a receiver of the queue that found values in it leaves its loop only when
\* they have all been printed, or another receiver has removed the queue.
NoneMissed ==
  \A r \in Receivers : sentBefore[r] # {} =>
    /\ receiver[r] # "killed"
    /\ medium = "shm" => Unwritten \notin {printed[r][k] : k \in 1 .. Len(printed[r])}
    /\ medium = "queue" /\ receiver[r] = "remove" /\ object = fdOf[r] =>
         sentBefore[r] \subseteq UNION {{printed[t][k] : k \in 1 .. Len(printed[t])} : t \in Receivers}

\* Receivers of the queue print every value once, and each of them in the order of sending.
PrintedInOrder ==
  medium = "queue" =>
    \A r, t \in Receivers : \A k \in 1 .. Len(printed[r]), l \in 1 .. Len(printed[t]) :
      /\ printed[r][k] = printed[t][l] => r = t /\ k = l
      /\ r = t /\ k < l => \E m, n \in 1 .. Len(sentSoFar[fdOf[r]]) :
           m < n /\ sentSoFar[fdOf[r]][m] = printed[r][k] /\ sentSoFar[fdOf[r]][n] = printed[r][l]

\* A value that was sent reaches a receiver that comes after it, once and in order.
HandedOver == ValueWaits /\ NoneMissed /\ PrintedInOrder
=============================================================================
