---------------------------- MODULE RemoteProofs ----------------------------
(***************************************************************************)
(* A data handle reads the chunks of its own field, in order, and an       *)
(* iterator gives the elements of its own call, in order and all of them:  *)
(* for any number of requests and of elements, and any size of the queues, *)
(* whatever fails and whenever the connection goes down.  All messages     *)
(* come on one connection; those of the calls are sorted out by their      *)
(* request, those of the handles go, in the order of their coming, into    *)
(* one queue all of them read (RemoteFDB.cc).                              *)
(*                                                                         *)
(*   1. The messages of one source are a path along which places in the    *)
(*      stream follow one another (Passes, Along).  A message less at the  *)
(*      front or one more at the end moves an end of the path (AlongHead,  *)
(*      AlongAppend); messages of others do not (AlongOthers).             *)
(*   2. RInv: the path from what an iterator has taken (IterStreams), or   *)
(*      from what the handles have read (HandleStream), along the queue    *)
(*      and the connection, leads to what the server has left to send.     *)
(*   3. Every step preserves RInv, one conjunct after the other            *)
(*      (NextRTypes, NextRBounds, NextRequestKinds, NextDataKinds,         *)
(*      NextUserShape, NextDeadIsSilent, NextIterators, NextIterStreams,   *)
(*      NextHandleStream).                                                 *)
(*                                                                         *)
(* ReadsAgain and LateErrors are excluded: a handle read after its end     *)
(* takes the messages of another handle, and an error that comes after the *)
(* end of a call is given to no one, or to someone else.                   *)
(*                                                                         *)
(* Sessions stay paired: for any number of clients, ports and services,    *)
(* whoever crashes and whatever connections the network mixes up while     *)
(* they are being set up, a handler serves the client it was started for,  *)
(* and no two live handlers share a data port.                             *)
(*                                                                         *)
(*   1. FreePort lists ports that are no service's, none twice             *)
(*      (FreePortsDiffer).                                                 *)
(*   2. SInv relates the list of ports to the handlers that own its        *)
(*      entries, and the session IDs each side has checked to its peer.    *)
(*   3. Every step preserves SInv, one conjunct after the other (NextList, *)
(*      NextOwned, NextOwners, NextChecked).                               *)
(***************************************************************************)
EXTENDS Remote, Lemmas

-------------------------------------------------------------------------------
(* The stream of messages, and the inductive invariant. *)

(***************************************************************************)
(* The messages of one source arrive in one stream: the requests `own` are *)
(* answered one after the other, each with elements 1..size and Complete,  *)
(* or with an Error somewhere before.  A place in the stream is the        *)
(* position in own of the request that is being answered and the number of *)
(* its elements so far; messages of other requests are passed over.        *)
(***************************************************************************)
Places == [request : Nat, count : Nat]
Place(i, n) == [request |-> i, count |-> n]

Passes(own, size, p, m, q) ==
    IF \E i \in 1..Len(own) : own[i] = m.id
    THEN /\ p.request \in 1..Len(own) /\ m.id = own[p.request]
         /\ \/ m.type = "Blob" /\ m.n = p.count + 1 /\ q = Place(p.request, p.count + 1)
            \/ m.type = "Complete" /\ p.count = size /\ q = Place(p.request + 1, 0)
            \/ m.type = "Error" /\ q = Place(p.request + 1, 0)
    ELSE q = p

(* The messages ms lead from one place to another. *)
Along(own, size, ms, from, to) ==
    \E f \in [1..Len(ms) + 1 -> Places] :
        /\ f[1] = from /\ f[Len(ms) + 1] = to
        /\ \A i \in 1..Len(ms) : Passes(own, size, f[i], ms[i], f[i + 1])

(* Requests. *)
Handles == {handles[i] : i \in 1..Len(handles)}
Messages == [type : {"Blob", "Complete", "Error", "Exit"}, id : 0..MaxRequests, n : Nat]
QueueType == [elems : Seq(Messages), closed : BOOLEAN, interrupted : BOOLEAN]
Blob(id, n) == Message("Blob", id, n)
(* The elements n + 1, n + 2, ... of a request. *)
Blobs(ms, id, n) == \A j \in 1..Len(ms) : ms[j] = Blob(id, n + j)

RTypes ==
    /\ nextId \in 1..MaxRequests + 1
    /\ user \in [op : {"idle", "next", "drop", "read", "disconnect"}, id : 0..MaxRequests]
    /\ handles \in Seq(Ids)
    /\ got \in [Ids -> Seq(Messages)]
    /\ over \in [Ids -> {"none", "open", "ended", "failed", "dropped", "archive"}]
    /\ archiveId \in 0..MaxRequests
    /\ registered \subseteq Ids
    /\ queue \in [Ids -> QueueType] /\ retrieveQueue \in QueueType
    /\ pump \in [Ids -> {"none", "run", "ended"}]
    /\ hand \in [Ids -> Seq(Messages)]
    /\ iter \in [Ids -> QueueType]
    /\ listener \in {"run", "ended"}
    /\ session \in {"up", "ending", "closed", "dead"}
    /\ left \in [Ids -> Nat]
    /\ readQueue \in Seq(Ids)
    /\ data \in Seq(Messages)
RBounds ==
    /\ \A id \in Ids : Len(queue[id].elems) <= QueueCap /\ Len(iter[id].elems) <= IterCap
    /\ Len(retrieveQueue.elems) <= RetrieveCap /\ Len(data) <= DataCap
    /\ \A id \in Ids : left[id] <= IF IsIterator(id) THEN Elements + 1 ELSE Chunks + 1
    /\ \A i \in 1..Len(readQueue) : readQueue[i] \in Handles

(* A request is made once, and of one kind; nothing is there of those to come. *)
Numbers ==
    /\ \A i \in 1..Len(handles) : handles[i] < nextId
    /\ \A i, j \in 1..Len(handles) : i < j => handles[i] < handles[j]
    /\ \A id \in Ids : IsIterator(id) => id < nextId /\ id \notin Handles
    /\ \A id \in registered : id < nextId /\ id \notin Handles /\ ~queue[id].closed /\ ~queue[id].interrupted
    /\ archiveId # 0 => /\ archiveId < nextId /\ archiveId \notin registered \cup Handles
                        /\ ~IsIterator(archiveId)
    /\ \A id \in Ids : over[id] = "archive" => id < nextId /\ id \notin Handles /\ ~IsIterator(id)
Fresh ==
    \A id \in Ids : id >= nextId =>
        /\ queue[id] = NewQueue /\ iter[id] = NewQueue /\ got[id] = << >> /\ hand[id] = << >>
        /\ over[id] = "none" /\ left[id] = 0
Owed == \A id \in Ids : left[id] # 0 => id \in Handles \/ (IsIterator(id) /\ id \in registered)
RequestKinds == Numbers /\ Fresh /\ Owed

(* What is on the data connection. *)
OnData(m) ==
    \/ m.type = "Exit" /\ m.id = 0
    \/ m.type = "Error" /\ m.id = archiveId /\ archiveId # 0
    \/ m.type # "Exit" /\ m.id \in registered /\ IsIterator(m.id)
    \/ m.type # "Exit" /\ m.id \in Handles
DataKinds == \A i \in 1..Len(data) : OnData(data[i])

(* What the user is doing. *)
UserShape ==
    /\ user.op = "next" => user.id \in Ids /\ IsIterator(user.id) /\ over[user.id] = "open"
    /\ user.op = "drop" => user.id \in Ids /\ IsIterator(user.id)
    /\ user.op = "read" =>
          \E r \in 1..Len(handles) :
              /\ handles[r] = user.id /\ over[user.id] = "open"
              /\ \A j \in 1..Len(handles) : j < r => over[handles[j]] # "open"

(* When the server has died nothing comes any more. *)
DeadIsSilent ==
    /\ session = "dead" => readQueue = << >> /\ \A id \in Ids : left[id] = 0
    /\ retrieveQueue.interrupted => session = "dead" /\ data = << >> /\ listener = "ended"

(* What has been taken from the message queue of an iterator, or is in it. *)
Passed(id) == Len(got[id]) + Len(iter[id].elems)
Taken(id) == Passed(id) + Len(hand[id]) + Len(queue[id].elems)
IterShape(id) ==
    /\ Blobs(got[id], id, 0) /\ Blobs(iter[id].elems, id, Len(got[id]))
    /\ hand[id] # << >> => pump[id] = "run" /\ Len(hand[id]) = 1
    /\ pump[id] = "run" =>
          /\ Blobs(hand[id], id, Passed(id))
          /\ Blobs(queue[id].elems, id, Passed(id) + Len(hand[id]))
          /\ queue[id].closed /\ ~queue[id].interrupted => Taken(id) = Elements
    /\ iter[id].closed /\ ~iter[id].interrupted => Passed(id) = Elements
    /\ over[id] = "ended" => Len(got[id]) = Elements
Iterators == \A id \in Ids : IsIterator(id) => IterShape(id)

IterStreamFrom(id, b) ==
    \E to \in Places :
        /\ Along(<<id>>, Elements, data, Place(1, b), to)
        /\ left[id] # 0 => left[id] \in 1..Elements + 1 /\ to = Place(1, Elements + 1 - left[id])
IterStream(id) == \E b \in Nat : IterStreamFrom(id, b) /\ (pump[id] = "run" => b = Taken(id))
IterStreams == \A id \in registered : IsIterator(id) => IterStream(id)

(* The handles, of which the first r - 1 are over. *)
HandleShape(r) ==
    /\ \A j \in 1..Len(handles) :
          /\ j < r <=> over[handles[j]] # "open"
          /\ j > r => got[handles[j]] = << >>
          /\ Blobs(got[handles[j]], handles[j], 0)
          /\ over[handles[j]] = "ended" => Len(got[handles[j]]) = Chunks
    /\ \A i \in 1..Len(retrieveQueue.elems) : retrieveQueue.elems[i].id \in Handles
ReadTo(r) == Place(r, IF r <= Len(handles) THEN Len(got[handles[r]]) ELSE 0)
Served(to) ==
    session # "dead" =>
        /\ to.request \in 1..Len(handles) + 1
        /\ Len(readQueue) = Len(handles) + 1 - to.request
        /\ \A j \in 1..Len(readQueue) : readQueue[j] = handles[to.request + j - 1]
        /\ to.count = IF to.request <= Len(handles) THEN Chunks + 1 - left[handles[to.request]] ELSE 0
        /\ \A j \in 1..Len(handles) :
              IF j < to.request THEN left[handles[j]] = 0
              ELSE IF j = to.request THEN left[handles[j]] \in 1..Chunks + 1
              ELSE left[handles[j]] = Chunks + 1
HandleStream ==
    \E r \in 1..Len(handles) + 1, mid \in Places, to \in Places :
        /\ HandleShape(r)
        /\ Along(handles, Chunks, retrieveQueue.elems, ReadTo(r), mid)
        /\ Along(handles, Chunks, data, mid, to)
        /\ Served(to)

RInv ==
    /\ RTypes /\ RBounds /\ RequestKinds /\ DataKinds /\ UserShape /\ DeadIsSilent
    /\ Iterators /\ IterStreams /\ HandleStream

-------------------------------------------------------------------------------
(* Paths, and queues. *)

(* Where no message is there is nowhere to go. *)
LEMMA AlongNothing ==
    ASSUME NEW own, NEW size, NEW from \in Places, NEW to
    PROVE  Along(own, size, << >>, from, to) <=> from = to
<1>1. ASSUME Along(own, size, << >>, from, to) PROVE from = to
    BY <1>1 DEF Along
<1>2. ASSUME from = to PROVE Along(own, size, << >>, from, to)
  <2>1. PICK f : f = [i \in 1..1 |-> from]
    OBVIOUS
  <2>2. f \in [1..Len(<< >>) + 1 -> Places] /\ f[1] = from /\ f[Len(<< >>) + 1] = to
    BY <2>1, <1>2
  <2> QED
    BY <2>2 DEF Along
<1> QED
    BY <1>1, <1>2

(* The first message leads somewhere, and the others on from there. *)
LEMMA AlongHead ==
    ASSUME NEW own, NEW size, NEW ms \in Seq(Messages), ms # << >>, NEW from, NEW to,
           Along(own, size, ms, from, to)
    PROVE  \E q \in Places : Passes(own, size, from, Head(ms), q) /\ Along(own, size, Tail(ms), q, to)
<1>1. PICK f \in [1..Len(ms) + 1 -> Places] :
          /\ f[1] = from /\ f[Len(ms) + 1] = to
          /\ \A i \in 1..Len(ms) : Passes(own, size, f[i], ms[i], f[i + 1])
    BY DEF Along
<1>2. Len(ms) \in Nat \ {0} /\ Len(Tail(ms)) = Len(ms) - 1 /\ Head(ms) = ms[1]
      /\ \A i \in 1..Len(Tail(ms)) : Tail(ms)[i] = ms[i + 1]
    OBVIOUS
<1>3. Passes(own, size, from, Head(ms), f[2]) /\ f[2] \in Places
  <2>1. 1 \in 1..Len(ms) /\ 2 \in 1..Len(ms) + 1 /\ 1 + 1 = 2
    BY <1>2
  <2> QED
    BY <2>1, <1>1, <1>2
<1>4. PICK g : g = [i \in 1..Len(Tail(ms)) + 1 |-> f[i + 1]]
    OBVIOUS
<1>5. g \in [1..Len(Tail(ms)) + 1 -> Places] /\ g[1] = f[2] /\ g[Len(Tail(ms)) + 1] = to
    BY <1>1, <1>2, <1>4
<1>6. ASSUME NEW i \in 1..Len(Tail(ms)) PROVE Passes(own, size, g[i], Tail(ms)[i], g[i + 1])
  <2>1. i + 1 \in 1..Len(ms) /\ Tail(ms)[i] = ms[i + 1] /\ g[i] = f[i + 1] /\ g[i + 1] = f[(i + 1) + 1]
    BY <1>2, <1>4
  <2> QED
    BY <2>1, <1>1
<1>7. Along(own, size, Tail(ms), f[2], to)
    BY <1>5, <1>6 DEF Along
<1> QED
    BY <1>3, <1>7

(* One message more leads one step further. *)
LEMMA AlongAppend ==
    ASSUME NEW own, NEW size, NEW ms \in Seq(Messages), NEW m, NEW from, NEW mid, NEW to \in Places,
           Along(own, size, ms, from, mid), Passes(own, size, mid, m, to)
    PROVE  Along(own, size, Append(ms, m), from, to)
<1>1. PICK f \in [1..Len(ms) + 1 -> Places] :
          /\ f[1] = from /\ f[Len(ms) + 1] = mid
          /\ \A i \in 1..Len(ms) : Passes(own, size, f[i], ms[i], f[i + 1])
    BY DEF Along
<1>2. PICK n \in Nat : n = Len(ms)
    OBVIOUS
<1>3. Len(Append(ms, m)) = n + 1 /\ Append(ms, m)[n + 1] = m
      /\ \A i \in 1..n : Append(ms, m)[i] = ms[i]
    BY <1>2
<1>4. PICK g : g = [i \in 1..(n + 1) + 1 |-> IF i = n + 2 THEN to ELSE f[i]]
    OBVIOUS
<1>5. g \in [1..Len(Append(ms, m)) + 1 -> Places] /\ g[1] = from /\ g[Len(Append(ms, m)) + 1] = to
    BY <1>1, <1>2, <1>3, <1>4
<1>6. ASSUME NEW i \in 1..n + 1 PROVE Passes(own, size, g[i], Append(ms, m)[i], g[i + 1])
  <2>1. CASE i = n + 1
    <3>1. g[i] = mid /\ g[i + 1] = to /\ Append(ms, m)[i] = m
        BY <2>1, <1>1, <1>2, <1>3, <1>4
    <3> QED
        BY <3>1
  <2>2. CASE i \in 1..n
    <3>1. g[i] = f[i] /\ g[i + 1] = f[i + 1] /\ Append(ms, m)[i] = ms[i]
        BY <2>2, <1>3, <1>4
    <3> QED
        BY <3>1, <2>2, <1>1, <1>2
  <2> QED
    BY <2>1, <2>2, <1>2
<1> QED
    BY <1>3, <1>5, <1>6 DEF Along

(* A request made now is not one of those the messages belong to. *)
LEMMA AlongMore ==
    ASSUME NEW own \in Seq(Ids), NEW size, NEW ms \in Seq(Messages), NEW from, NEW to, NEW n,
           Along(own, size, ms, from, to), \A i \in 1..Len(ms) : ms[i].id # n
    PROVE  Along(Append(own, n), size, ms, from, to)
<1>1. PICK f \in [1..Len(ms) + 1 -> Places] :
          /\ f[1] = from /\ f[Len(ms) + 1] = to
          /\ \A i \in 1..Len(ms) : Passes(own, size, f[i], ms[i], f[i + 1])
    BY DEF Along
<1>2. ASSUME NEW i \in 1..Len(ms) PROVE Passes(Append(own, n), size, f[i], ms[i], f[i + 1])
  <2> DEFINE more == Append(own, n)
  <2>1. Len(more) = Len(own) + 1 /\ more[Len(own) + 1] = n /\ \A j \in 1..Len(own) : more[j] = own[j]
    OBVIOUS
  <2>2. (\E j \in 1..Len(more) : more[j] = ms[i].id) <=> \E j \in 1..Len(own) : own[j] = ms[i].id
    BY <2>1
  <2>3. f[i].request \in 1..Len(own) => f[i].request \in 1..Len(more) /\ more[f[i].request] = own[f[i].request]
    BY <2>1
  <2>4. Passes(own, size, f[i], ms[i], f[i + 1])
    BY <1>1
  <2> HIDE DEF more
  <2>5. Passes(more, size, f[i], ms[i], f[i + 1])
    BY <2>2, <2>3, <2>4 DEF Passes
  <2> QED
    BY <2>5 DEF more
<1> QED
    BY <1>1, <1>2 DEF Along

(* Messages of other requests lead nowhere. *)
LEMMA AlongOthers ==
    ASSUME NEW own, NEW size, NEW ms \in Seq(Messages), NEW p \in Places,
           \A i \in 1..Len(ms) : \A j \in 1..Len(own) : own[j] # ms[i].id
    PROVE  Along(own, size, ms, p, p)
<1>1. PICK f : f = [i \in 1..Len(ms) + 1 |-> p]
    OBVIOUS
<1>2. f \in [1..Len(ms) + 1 -> Places] /\ f[1] = p /\ f[Len(ms) + 1] = p
    BY <1>1
<1>3. ASSUME NEW i \in 1..Len(ms) PROVE Passes(own, size, f[i], ms[i], f[i + 1])
    BY <1>1 DEF Passes
<1> QED
    BY <1>2, <1>3 DEF Along

(* Past the last request there are only messages of others. *)
LEMMA AlongPast ==
    ASSUME NEW id, NEW size, NEW ms \in Seq(Messages), NEW to, Along(<<id>>, size, ms, Place(2, 0), to)
    PROVE  to = Place(2, 0) /\ \A i \in 1..Len(ms) : ms[i].id # id
<1>1. PICK f \in [1..Len(ms) + 1 -> Places] :
          /\ f[1] = Place(2, 0) /\ f[Len(ms) + 1] = to
          /\ \A i \in 1..Len(ms) : Passes(<<id>>, size, f[i], ms[i], f[i + 1])
    BY DEF Along
<1>2. ASSUME NEW i \in 1..Len(ms), f[i] = Place(2, 0) PROVE f[i + 1] = Place(2, 0) /\ ms[i].id # id
  <2>1. Len(<<id>>) = 1 /\ <<id>>[1] = id /\ f[i].request = 2
    BY <1>2 DEF Place
  <2>2. ms[i].id # id
    BY <2>1, <1>1 DEF Passes
  <2> QED
    BY <2>1, <2>2, <1>1, <1>2 DEF Passes
<1>3. ASSUME NEW i \in 1..Len(ms) + 1, f[i] # Place(2, 0) PROVE FALSE
  <2> DEFINE T == {k \in 1..Len(ms) + 1 : f[k] # Place(2, 0)}
  <2>1. T \in SUBSET Nat /\ T # {}
    BY <1>3
  <2> HIDE DEF T
  <2>2. PICK k \in T : \A j \in T : k <= j
    BY <2>1, LeastNat
  <2> USE DEF T
  <2>3. k # 1 /\ k - 1 \in 1..Len(ms) /\ (k - 1) + 1 = k
    BY <1>1, <2>2
  <2>4. k - 1 \notin T
    BY <2>2, <2>3
  <2> QED
    BY SMTT(30), <2>2, <2>3, <2>4, <1>2
<1>4. Len(ms) + 1 \in 1..Len(ms) + 1
    OBVIOUS
<1> QED
    BY <1>1, <1>2, <1>3, <1>4

(* The operations of a queue. *)
LEMMA QueueOperations ==
    ASSUME NEW q \in QueueType, NEW m \in Messages
    PROVE  /\ Emplace(q, m) \in QueueType /\ Emplace(q, m).elems = Append(q.elems, m)
           /\ Emplace(q, m).closed = q.closed /\ Emplace(q, m).interrupted = q.interrupted
           /\ Shut(q) \in QueueType /\ Shut(q).elems = q.elems
           /\ Shut(q).closed /\ Shut(q).interrupted = q.interrupted
           /\ Interrupt(q) \in QueueType /\ Interrupt(q).elems = q.elems
           /\ Interrupt(q).closed /\ Interrupt(q).interrupted
<1>1. q \in [elems : Seq(Messages), closed : BOOLEAN, interrupted : BOOLEAN]
    BY DEF QueueType
<1>2. Append(q.elems, m) \in Seq(Messages)
    BY <1>1
<1>3. Emplace(q, m) \in QueueType /\ Emplace(q, m).elems = Append(q.elems, m)
      /\ Emplace(q, m).closed = q.closed /\ Emplace(q, m).interrupted = q.interrupted
    BY <1>1, <1>2 DEF Emplace, QueueType
<1>4. Shut(q) \in QueueType /\ Shut(q).elems = q.elems
      /\ Shut(q).closed /\ Shut(q).interrupted = q.interrupted
    BY <1>1 DEF Shut, QueueType
<1>5. Interrupt(q) \in QueueType /\ Interrupt(q).elems = q.elems
      /\ Interrupt(q).closed /\ Interrupt(q).interrupted
    BY <1>1 DEF Interrupt, QueueType
<1> QED
    BY <1>3, <1>4, <1>5

(* Popping takes the first element, and no other. *)
LEMMA QueuePops ==
    ASSUME NEW q \in QueueType, q.elems # << >>
    PROVE  /\ Popped(q) \in QueueType /\ Popped(q).elems = Tail(q.elems)
           /\ Popped(q).closed = q.closed /\ Popped(q).interrupted = q.interrupted
           /\ Head(q.elems) \in Messages
BY DEF QueueType, Popped

(* An interrupted queue keeps its elements. *)
LEMMA QueueInterrupts ==
    ASSUME NEW q \in QueueType, NEW p \in Interrupts(q)
    PROVE  p \in QueueType /\ p.elems \in {q.elems, << >>} /\ p.closed /\ p.interrupted
<1>1. q \in [elems : Seq(Messages), closed : BOOLEAN, interrupted : BOOLEAN] /\ << >> \in Seq(Messages)
    BY DEF QueueType
<1>2. CASE p = Interrupt(q)
    BY <1>1, <1>2 DEF Interrupt, QueueType
<1>3. CASE p = [Interrupt(q) EXCEPT !.elems = << >>]
    BY <1>1, <1>3 DEF Interrupt, QueueType
<1> QED
    BY <1>2, <1>3 DEF Interrupts

-------------------------------------------------------------------------------
(* Types: the user. *)

(* The constants are numbers. *)
LEMMA Sizes ==
    ASSUME SizeAssumption
    PROVE  /\ MaxRequests \in Nat /\ MaxRequests > 0 /\ Elements \in Nat /\ Elements > 0
           /\ Chunks \in Nat /\ Chunks > 0
           /\ QueueCap \in Nat /\ IterCap \in Nat /\ RetrieveCap \in Nat /\ DataCap \in Nat
BY DEF SizeAssumption

(* What an answer of the server does: the next element, Complete, or an Error instead. *)
LEMMA AnswerSends ==
    ASSUME SizeAssumption, RTypes, NEW id \in Ids, NEW size \in Nat, NEW rest, Answer(id, size, rest),
           left[id] <= size + 1
    PROVE  /\ left[id] \in 1..size + 1 /\ Len(data) < DataCap
           /\ \E m \in Messages :
                 /\ data' = Append(data, m) /\ m.id = id
                 /\ \/ /\ m.type = "Blob" /\ m.n = size + 2 - left[id] /\ left[id] > 1
                       /\ left' = [left EXCEPT ![id] = left[id] - 1] /\ readQueue' = readQueue
                    \/ /\ m.type = "Complete" /\ left[id] = 1
                       /\ left' = [left EXCEPT ![id] = 0] /\ readQueue' = rest
                    \/ /\ m.type = "Error" /\ MayFail
                       /\ left' = [left EXCEPT ![id] = 0] /\ readQueue' = rest
<1>0. left \in [Ids -> Nat] /\ left[id] # 0
    BY DEF RTypes, Answer
<1>1. left[id] \in 1..size + 1 /\ left \in [Ids -> Nat] /\ id \in 0..MaxRequests
    BY <1>0, Sizes DEF Ids
<1>2. Len(data) < DataCap
    BY DEF Answer, Sends
<1>3. CASE left[id] = 1 /\ data' = Append(data, Message("Complete", id, 0))
           /\ left' = [left EXCEPT ![id] = left[id] - 1]
  <2>1. PICK m : m = Message("Complete", id, 0)
    OBVIOUS
  <2>2. m \in Messages /\ m.id = id /\ m.type = "Complete"
    BY <2>1, <1>1 DEF Message, Messages
  <2>3. left'[id] = 0 /\ left' = [left EXCEPT ![id] = 0]
    BY <1>1, <1>3
  <2>4. readQueue' = rest
    BY <2>3 DEF Answer
  <2> QED
    BY <1>1, <1>2, <1>3, <2>1, <2>2, <2>3, <2>4
<1>4. CASE left[id] # 1 /\ data' = Append(data, Message("Blob", id, size + 2 - left[id]))
           /\ left' = [left EXCEPT ![id] = left[id] - 1]
  <2>1. PICK m : m = Message("Blob", id, size + 2 - left[id])
    OBVIOUS
  <2>2. m \in Messages /\ m.id = id /\ m.type = "Blob" /\ m.n = size + 2 - left[id]
    BY <2>1, <1>1 DEF Message, Messages
  <2>3. left'[id] # 0
    BY <1>1, <1>4
  <2>4. readQueue' = readQueue
    BY <2>3 DEF Answer
  <2> QED
    BY SMTT(30), <1>1, <1>2, <1>4, <2>1, <2>2, <2>3, <2>4
<1>5. CASE MayFail /\ data' = Append(data, Message("Error", id, 0)) /\ left' = [left EXCEPT ![id] = 0]
  <2>1. PICK m : m = Message("Error", id, 0)
    OBVIOUS
  <2>2. m \in Messages /\ m.id = id /\ m.type = "Error"
    BY <2>1, <1>1 DEF Message, Messages
  <2>3. left'[id] = 0
    BY <1>1, <1>5
  <2>4. readQueue' = rest
    BY <2>3 DEF Answer
  <2> QED
    BY <1>1, <1>2, <1>5, <2>1, <2>2, <2>3, <2>4
<1> QED
    BY <1>3, <1>4, <1>5 DEF Answer, Sends

(* What is not listed in a request keeps the types. *)
UserTypes ==
    /\ nextId \in 1..MaxRequests + 1
    /\ user \in [op : {"idle", "next", "drop", "read", "disconnect"}, id : 0..MaxRequests]
    /\ handles \in Seq(Ids)
    /\ got \in [Ids -> Seq(Messages)]
    /\ over \in [Ids -> {"none", "open", "ended", "failed", "dropped", "archive"}]
    /\ archiveId \in 0..MaxRequests
OtherTypes ==
    /\ registered \subseteq Ids
    /\ queue \in [Ids -> QueueType] /\ retrieveQueue \in QueueType
    /\ pump \in [Ids -> {"none", "run", "ended"}]
    /\ hand \in [Ids -> Seq(Messages)]
    /\ iter \in [Ids -> QueueType]
    /\ listener \in {"run", "ended"}
    /\ session \in {"up", "ending", "closed", "dead"}
    /\ left \in [Ids -> Nat]
    /\ readQueue \in Seq(Ids)
    /\ data \in Seq(Messages)

(* The next request number, when one may still be made. *)
LEMMA NextNumber ==
    ASSUME SizeAssumption, RTypes, Free
    PROVE  nextId \in Ids /\ nextId + 1 \in 1..MaxRequests + 1 /\ nextId \in 0..MaxRequests
BY Sizes DEF RTypes, Free, Ids

(* Every step keeps the types of what the user sees. *)
LEMMA NextUserTypes ==
    ASSUME SizeAssumption, RTypes, Next
    PROVE  UserTypes'
<1> USE DEF client, queues, iterators, server
<1>0. UserTypes
    BY DEF RTypes, UserTypes
<1>s. MaxRequests \in Nat /\ MaxRequests > 0 /\ 0 \in 0..MaxRequests /\ \A id \in Ids : id \in 0..MaxRequests
    BY Sizes DEF Ids
<1>1. ASSUME NEW id \in Ids, NextReturns(id) PROVE UserTypes'
  <2>1. user' = Idle /\ Idle \in [op : {"idle", "next", "drop", "read", "disconnect"}, id : 0..MaxRequests]
    BY <1>1, <1>s DEF NextReturns, Returns, Idle
  <2>2. ASSUME iter[id].elems # << >> PROVE Append(got[id], Head(iter[id].elems)) \in Seq(Messages)
    BY SMTT(30), <2>2, QueuePops DEF RTypes
  <2>3. got' \in [Ids -> Seq(Messages)]
    BY <1>0, <1>1, <2>2 DEF NextReturns, UserTypes
  <2>4. over' \in [Ids -> {"none", "open", "ended", "failed", "dropped", "archive"}]
    BY <1>0, <1>1 DEF NextReturns, UserTypes
  <2> QED
    BY <1>0, <1>1, <2>1, <2>3, <2>4 DEF NextReturns, UserTypes
<1>2. ASSUME NEW id \in Ids, DropReturns(id) PROVE UserTypes'
    BY <1>0, <1>2, <1>s DEF DropReturns, Returns, Idle, UserTypes
<1>3. ASSUME NEW id \in Ids, ReadReturns(id) PROVE UserTypes'
  <2>1. user' = Idle /\ Idle \in [op : {"idle", "next", "drop", "read", "disconnect"}, id : 0..MaxRequests]
    BY <1>3, <1>s DEF ReadReturns, Returns, Idle
  <2>2. CASE retrieveQueue.elems # << >>
    <3>1. PICK m \in Messages : m = Head(retrieveQueue.elems)
        BY <2>2, QueuePops DEF RTypes
    <3>2. got' \in [Ids -> Seq(Messages)]
      <4>1. got \in [Ids -> Seq(Messages)] /\ Append(got[id], m) \in Seq(Messages)
        BY <1>0 DEF UserTypes
      <4>2. got' = got \/ got' = [got EXCEPT ![id] = Append(got[id], m)]
        BY <1>3, <2>2, <3>1 DEF ReadReturns, Broken
      <4> QED
        BY <4>1, <4>2
    <3>3. over' \in [Ids -> {"none", "open", "ended", "failed", "dropped", "archive"}]
        BY <1>0, <1>3, <2>2, <3>1 DEF ReadReturns, Broken, UserTypes
    <3> QED
        BY <1>0, <1>3, <2>1, <3>2, <3>3 DEF ReadReturns, UserTypes
  <2>3. CASE Broken(retrieveQueue)
    BY <1>0, <1>3, <2>1, <2>3 DEF ReadReturns, Broken, UserTypes
  <2> QED
    BY <1>3, <2>2, <2>3 DEF ReadReturns
<1>4. CASE Disconnected
    BY <1>0, <1>4, <1>s DEF Disconnected, Returns, Idle, UserTypes
<1>5. ASSUME NEW id \in Ids,
             PumpPop(id) \/ PumpPush(id) \/ PumpEnds(id) \/ WorkerSends(id) PROVE UserTypes'
    BY <1>0, <1>5 DEF PumpPop, PumpPush, PumpEnds, WorkerSends, UserTypes
<1>6. CASE ListenerRead \/ ListenerFails \/ ReaderSends \/ HandlerEnds \/ ServerDies
    BY <1>0, <1>6 DEF ListenerRead, ListenerFails, ReaderSends, HandlerEnds, ServerDies, UserTypes
<1>7. ASSUME NEW kind, Forward(kind) \/ ForwardThrows(kind) PROVE UserTypes'
  <2>1. nextId \in Ids /\ nextId' \in 1..MaxRequests + 1
    BY <1>7, NextNumber DEF Forward, ForwardThrows
  <2> QED
    BY <1>0, <1>7, <2>1 DEF Forward, ForwardThrows, UserTypes
<1>8. CASE DataHandle \/ DataHandleThrows
  <2>1. nextId \in Ids /\ nextId' \in 1..MaxRequests + 1
    BY <1>8, NextNumber DEF DataHandle, DataHandleThrows
  <2>2. Append(handles, nextId) \in Seq(Ids)
    BY <1>0, <2>1 DEF UserTypes
  <2> QED
    BY <1>0, <1>8, <2>1, <2>2 DEF DataHandle, DataHandleThrows, UserTypes
<1>9. CASE Disconnect
    BY <1>0, <1>9, <1>s DEF Disconnect, UserTypes
<1>10. ASSUME NEW id \in Ids, Next_(id) \/ Drop(id) \/ Read(id) PROVE UserTypes'
  <2>1. \E op \in {"next", "drop", "read"} : Begin(op, id)
    BY <1>10 DEF Next_, Drop, Read
  <2> QED
    BY <1>0, <2>1, <1>s DEF Begin, UserTypes
<1>11. CASE StartArchive
  <2>1. nextId \in Ids /\ nextId' \in 1..MaxRequests + 1 /\ nextId \in 0..MaxRequests
    BY <1>11, NextNumber DEF StartArchive
  <2> QED
    BY <1>0, <1>11, <2>1 DEF StartArchive, UserTypes
<1>12. CASE ResetArchive \/ ArchiveError
    BY <1>0, <1>12, <1>s DEF ResetArchive, ArchiveError, UserTypes
<1> QED
    BY <1>1, <1>2, <1>3, <1>4, <1>5, <1>6, <1>7, <1>8, <1>9, <1>10, <1>11, <1>12
       DEF Next, UserReturns, Threads

-------------------------------------------------------------------------------
(* Types: the threads of the client, and the server. *)

(***************************************************************************)
(* The ways of the listening thread with the message m at the head of the  *)
(* connection: it is the last one, an element of a call, its end, an error *)
(* of the archive, or one for the handles.                                 *)
(***************************************************************************)
ReadsExit(m) ==
    m.type = "Exit" /\ listener' = "ended" /\ UNCHANGED <<registered, queue, retrieveQueue>>
ReadsElement(m) ==
    /\ m.id \in registered /\ m.type = "Blob" /\ CanEmplace(queue[m.id], QueueCap)
    /\ queue' = [queue EXCEPT ![m.id] = Emplace(queue[m.id], m)]
    /\ UNCHANGED <<registered, retrieveQueue, listener>>
ReadsEnd(m) ==
    /\ m.id \in registered /\ m.type \in {"Complete", "Error"}
    /\ registered' = registered \ {m.id} /\ UNCHANGED <<retrieveQueue, listener>>
    /\ \E q \in QueueType :
          /\ queue' = [queue EXCEPT ![m.id] = q]
          /\ q.elems \in {queue[m.id].elems, << >>} /\ q.closed
          /\ ~q.interrupted => m.type = "Complete" /\ q.elems = queue[m.id].elems
ReadsArchiveError(m) ==
    /\ m.type = "Error" /\ m.id = archiveId /\ m.id \notin registered
    /\ UNCHANGED <<registered, queue, retrieveQueue, listener>>
ReadsForHandle(m) ==
    /\ m.type # "Exit" /\ m.id \notin registered /\ ~(m.type = "Error" /\ m.id = archiveId)
    /\ CanEmplace(retrieveQueue, RetrieveCap)
    /\ retrieveQueue' = Emplace(retrieveQueue, m) /\ UNCHANGED <<registered, queue, listener>>

(* It goes one of these ways. *)
LEMMA ListenerMoves ==
    ASSUME SizeAssumption, RTypes, RequestKinds, DataKinds, ListenerRead
    PROVE  /\ data # << >> /\ data' = Tail(data) /\ listener = "run"
           /\ UNCHANGED <<client, iterators, server>>
           /\ \E m \in Messages :
                 /\ m = Head(data) /\ m = data[1]
                 /\ \/ ReadsExit(m) \/ ReadsElement(m) \/ ReadsEnd(m)
                    \/ ReadsArchiveError(m) \/ ReadsForHandle(m)
<1>1. data # << >> /\ data' = Tail(data) /\ listener = "run" /\ UNCHANGED <<client, iterators, server>>
    BY DEF ListenerRead
<1> DEFINE m == Head(data)
<1>2. m \in Messages /\ m = data[1]
    BY <1>1 DEF RTypes
<1>3. m.type \in {"Blob", "Complete", "Error", "Exit"}
    BY <1>2 DEF Messages
<1>9. m.id \in registered => m.type # "Exit" /\ m.id # archiveId
  <2>1. OnData(m) /\ registered \subseteq 1..MaxRequests /\ 0 \notin 1..MaxRequests
    BY SMTT(30), <1>1, <1>2, Sizes DEF RTypes, DataKinds, Ids
  <2> QED
    BY <2>1 DEF OnData, RequestKinds, Numbers
<1> SUFFICES ReadsExit(m) \/ ReadsElement(m) \/ ReadsEnd(m) \/ ReadsArchiveError(m) \/ ReadsForHandle(m)
    BY <1>1, <1>2
<1>4. CASE m.type = "Exit"
    BY <1>2, <1>4, <1>9 DEF ListenerRead, ReadsExit
<1>5. CASE m.type = "Blob" /\ m.id \in registered
    BY <1>2, <1>5 DEF ListenerRead, ReadsElement
<1>6. CASE m.type \in {"Complete", "Error"} /\ m.id \in registered
  <2>0. m.type # "Exit" /\ m.type # "Blob"
    BY <1>6
  <2>1. registered' = registered \ {m.id} /\ UNCHANGED <<retrieveQueue, listener>>
    BY <1>2, <1>6, <1>9, <2>0 DEF ListenerRead
  <2>2. PICK q \in IF m.type = "Error" THEN Interrupts(queue[m.id]) ELSE {Shut(queue[m.id])} :
            queue' = [queue EXCEPT ![m.id] = q]
    BY <1>2, <1>6, <1>9, <2>0 DEF ListenerRead
  <2>3. queue[m.id] \in QueueType
    BY <1>6 DEF RTypes
  <2>4. CASE m.type = "Error"
    <3>1. q \in QueueType /\ q.elems \in {queue[m.id].elems, << >>} /\ q.closed /\ q.interrupted
        BY <2>2, <2>3, <2>4, QueueInterrupts
    <3> QED
        BY <1>2, <1>6, <2>1, <2>2, <3>1 DEF ReadsEnd
  <2>5. CASE m.type = "Complete"
    <3>1. q = Shut(queue[m.id])
        BY <2>2, <2>5
    <3>2. q \in QueueType /\ q.elems = queue[m.id].elems /\ q.closed
        BY <2>3, <3>1, <1>2, QueueOperations
    <3> QED
        BY <1>2, <1>6, <2>1, <2>2, <2>5, <3>2 DEF ReadsEnd
  <2> QED
    BY <1>6, <2>4, <2>5
<1>7. CASE m.type = "Error" /\ m.id = archiveId /\ m.id \notin registered
    BY <1>2, <1>7 DEF ListenerRead, ReadsArchiveError
<1>8. CASE m.type # "Exit" /\ m.id \notin registered /\ ~(m.type = "Error" /\ m.id = archiveId)
    BY <1>2, <1>8 DEF ListenerRead, ReadsForHandle
<1> QED
    BY <1>3, <1>4, <1>5, <1>6, <1>7, <1>8

(* What the server sends: by a worker, or by the read thread for the handle at the head of its queue. *)
LEMMA ServerSends ==
    ASSUME SizeAssumption, RTypes, RBounds, RequestKinds
    PROVE  /\ \A id \in Ids : WorkerSends(id) =>
                  Answer(id, Elements, readQueue) /\ left[id] <= Elements + 1 /\ id \notin Handles
           /\ ReaderSends =>
                  /\ readQueue # << >> /\ Head(readQueue) \in Handles /\ Head(readQueue) \in Ids
                  /\ ~IsIterator(Head(readQueue)) /\ left[Head(readQueue)] <= Chunks + 1
                  /\ Answer(Head(readQueue), Chunks, Tail(readQueue)) /\ Tail(readQueue) \in Seq(Ids)
<1>1. ASSUME NEW id \in Ids, WorkerSends(id)
      PROVE  Answer(id, Elements, readQueue) /\ left[id] <= Elements + 1 /\ id \notin Handles
    BY <1>1 DEF WorkerSends, RBounds, RequestKinds, Numbers
<1>2. ASSUME ReaderSends
      PROVE  /\ readQueue # << >> /\ Head(readQueue) \in Handles /\ Head(readQueue) \in Ids
             /\ ~IsIterator(Head(readQueue)) /\ left[Head(readQueue)] <= Chunks + 1
             /\ Answer(Head(readQueue), Chunks, Tail(readQueue)) /\ Tail(readQueue) \in Seq(Ids)
  <2>1. readQueue # << >> /\ Answer(Head(readQueue), Chunks, Tail(readQueue))
    BY <1>2 DEF ReaderSends
  <2>2. readQueue \in Seq(Ids)
    BY DEF RTypes
  <2>3. Head(readQueue) = readQueue[1] /\ Head(readQueue) \in Ids /\ 1 \in 1..Len(readQueue)
        /\ Tail(readQueue) \in Seq(Ids)
    BY <2>1, <2>2
  <2>4. Head(readQueue) \in Handles
    BY <2>3 DEF RBounds
  <2>5. ~IsIterator(Head(readQueue))
    BY <2>3, <2>4 DEF RequestKinds, Numbers
  <2> QED
    BY <2>1, <2>3, <2>4, <2>5 DEF RBounds
<1> QED
    BY <1>1, <1>2

(* Every step keeps the types of the threads, the queues and the server. *)
LEMMA NextOtherTypes ==
    ASSUME SizeAssumption, RTypes, RBounds, RequestKinds, DataKinds, Next
    PROVE  OtherTypes'
<1> USE DEF client, queues, iterators, server
<1>0. OtherTypes
    BY DEF RTypes, OtherTypes
<1>s. /\ MaxRequests \in Nat /\ MaxRequests > 0 /\ 0 \in 0..MaxRequests
      /\ Elements + 1 \in Nat /\ Chunks + 1 \in Nat /\ \A id \in Ids : id \in 0..MaxRequests
    BY Sizes DEF Ids
<1>1. ASSUME NEW id \in Ids, NextReturns(id) PROVE OtherTypes'
  <2>1. ASSUME iter[id].elems # << >> PROVE Popped(iter[id]) \in QueueType
    BY <2>1, QueuePops DEF RTypes
  <2> QED
    BY <1>0, <1>1, <2>1 DEF NextReturns, OtherTypes
<1>2. ASSUME NEW id \in Ids, ReadReturns(id) PROVE OtherTypes'
  <2>1. ASSUME retrieveQueue.elems # << >> PROVE Popped(retrieveQueue) \in QueueType
    BY <2>1, QueuePops DEF RTypes
  <2>2. retrieveQueue' \in QueueType
    BY <1>0, <1>2, <2>1 DEF ReadReturns, OtherTypes
  <2> QED
    BY <1>0, <1>2, <2>2 DEF ReadReturns, OtherTypes
<1>3. ASSUME NEW id \in Ids, DropReturns(id) PROVE OtherTypes'
    BY <1>0, <1>3 DEF DropReturns, OtherTypes
<1>4. CASE Disconnected \/ Disconnect \/ DataHandleThrows \/ StartArchive \/ ResetArchive
    BY <1>0, <1>4 DEF Disconnected, Disconnect, DataHandleThrows, StartArchive, ResetArchive, OtherTypes
<1>5. ASSUME NEW id \in Ids, PumpPop(id) PROVE OtherTypes'
  <2>1. Popped(queue[id]) \in QueueType /\ Head(queue[id].elems) \in Messages
    BY <1>5, QueuePops DEF RTypes, PumpPop
  <2>2. << Head(queue[id].elems) >> \in Seq(Messages)
    BY <2>1
  <2> QED
    BY <1>0, <1>5, <2>1, <2>2 DEF PumpPop, OtherTypes
<1>6. ASSUME NEW id \in Ids, PumpPush(id) PROVE OtherTypes'
  <2>1. hand[id][1] \in Messages
    BY SMTT(30), <1>6 DEF RTypes, PumpPush
  <2>2. Emplace(iter[id], hand[id][1]) \in QueueType
    BY <2>1, QueueOperations DEF RTypes
  <2>3. iter' \in [Ids -> QueueType]
    BY <1>0, <1>6, <2>2 DEF PumpPush, OtherTypes
  <2>4. pump' \in [Ids -> {"none", "run", "ended"}]
    BY <1>0, <1>6 DEF PumpPush, OtherTypes
  <2> QED
    BY <1>0, <1>6, <2>3, <2>4 DEF PumpPush, OtherTypes
<1>7. ASSUME NEW id \in Ids, PumpEnds(id) PROVE OtherTypes'
  <2>1. PICK q \in IF queue[id].interrupted THEN Interrupts(iter[id]) ELSE {Shut(iter[id])} :
            iter' = [iter EXCEPT ![id] = q]
    BY <1>7 DEF PumpEnds
  <2>2. iter[id] \in QueueType /\ queue[id] \in QueueType
    BY DEF RTypes
  <2>3. q \in QueueType
    <3>1. CASE queue[id].interrupted
        BY <2>1, <2>2, <3>1, QueueInterrupts
    <3>2. CASE ~queue[id].interrupted
      <4>1. q = Shut(iter[id])
        BY <2>1, <3>2
      <4>2. PICK m : m = Message("Exit", 0, 0)
        OBVIOUS
      <4>3. m \in Messages
        BY <4>2, <1>s DEF Message, Messages
      <4> QED
        BY <2>2, <4>1, <4>3, QueueOperations
    <3> QED
        BY <3>1, <3>2
  <2> QED
    BY <1>0, <1>7, <2>1, <2>3 DEF PumpEnds, OtherTypes
<1>8. ASSUME NEW id \in Ids, NEW size \in Nat, NEW rest \in Seq(Ids), Answer(id, size, rest),
             left[id] <= size + 1, UNCHANGED <<client, queues, iterators, session>>
      PROVE  OtherTypes'
  <2>1. PICK m \in Messages :
            /\ data' = Append(data, m)
            /\ \/ left[id] > 1 /\ left' = [left EXCEPT ![id] = left[id] - 1] /\ readQueue' = readQueue
               \/ left' = [left EXCEPT ![id] = 0] /\ readQueue' = rest
    BY <1>8, AnswerSends
  <2>2. data' \in Seq(Messages) /\ readQueue' \in Seq(Ids)
    BY <1>0, <2>1 DEF OtherTypes
  <2>3. left' \in [Ids -> Nat]
    <3>1. left \in [Ids -> Nat] /\ (left[id] > 1 => left[id] - 1 \in Nat)
        BY <1>0 DEF OtherTypes
    <3>2. CASE left[id] > 1 /\ left' = [left EXCEPT ![id] = left[id] - 1]
        BY <3>1, <3>2
    <3>3. CASE left' = [left EXCEPT ![id] = 0]
        BY <3>1, <3>3
    <3> QED
        BY <2>1, <3>2, <3>3
  <2> QED
    BY <1>0, <1>8, <2>2, <2>3 DEF OtherTypes
<1>9. ASSUME NEW id \in Ids, WorkerSends(id) PROVE OtherTypes'
  <2>1. Answer(id, Elements, readQueue) /\ left[id] <= Elements + 1 /\ readQueue \in Seq(Ids)
    BY <1>0, <1>9, ServerSends DEF OtherTypes
  <2> QED
    BY <1>8, <1>9, <2>1, Sizes DEF WorkerSends
<1>10. CASE ReaderSends
  <2>1. Head(readQueue) \in Ids /\ Tail(readQueue) \in Seq(Ids) /\ left[Head(readQueue)] <= Chunks + 1
        /\ Answer(Head(readQueue), Chunks, Tail(readQueue))
    BY <1>10, ServerSends
  <2> QED
    BY <1>8, <1>10, <2>1, Sizes DEF ReaderSends
<1>11. CASE ListenerRead
  <2>1. PICK m \in Messages :
            /\ data' = Tail(data) /\ data # << >>
            /\ UNCHANGED <<client, iterators, server>>
            /\ \/ ReadsExit(m) \/ ReadsElement(m) \/ ReadsEnd(m)
               \/ ReadsArchiveError(m) \/ ReadsForHandle(m)
    BY <1>11, ListenerMoves
  <2>2. data' \in Seq(Messages)
    BY <1>0, <2>1 DEF OtherTypes
  <2>3. CASE ReadsExit(m) \/ ReadsArchiveError(m)
    BY <1>0, <2>1, <2>2, <2>3 DEF ReadsExit, ReadsArchiveError, OtherTypes
  <2>4. CASE ReadsElement(m)
    <3>1. Emplace(queue[m.id], m) \in QueueType
        BY <1>0, <2>1, <2>4, QueueOperations DEF ReadsElement, OtherTypes
    <3> QED
        BY <1>0, <2>1, <2>2, <2>4, <3>1 DEF ReadsElement, OtherTypes
  <2>5. CASE ReadsEnd(m)
    <3>1. queue' \in [Ids -> QueueType]
        BY <1>0, <2>5 DEF ReadsEnd, OtherTypes
    <3> QED
        BY <1>0, <2>1, <2>2, <2>5, <3>1 DEF ReadsEnd, OtherTypes
  <2>6. CASE ReadsForHandle(m)
    <3>1. Emplace(retrieveQueue, m) \in QueueType
        BY <1>0, <2>1, QueueOperations DEF OtherTypes
    <3> QED
        BY <1>0, <2>1, <2>2, <2>6, <3>1 DEF ReadsForHandle, OtherTypes
  <2> QED
    BY <2>1, <2>3, <2>4, <2>5, <2>6
<1>12. CASE ListenerFails
  <2>1. PICK m : m = Message("Exit", 0, 0)
    OBVIOUS
  <2>2. m \in Messages
    BY <2>1, <1>s DEF Message, Messages
  <2>3. \A id \in Ids : Interrupt(queue[id]) \in QueueType
    BY <1>0, <2>2, QueueOperations DEF OtherTypes
  <2>4. retrieveQueue' \in QueueType
    BY <1>0, <1>12, QueueInterrupts DEF ListenerFails, OtherTypes
  <2>5. queue' \in [Ids -> QueueType]
    BY <1>0, <1>12, <2>3 DEF ListenerFails, OtherTypes
  <2> QED
    BY <1>0, <1>12, <2>4, <2>5 DEF ListenerFails, OtherTypes
<1>13. CASE HandlerEnds \/ ArchiveError
  <2>1. \E m \in Messages : data' = Append(data, m)
    <3>1. CASE HandlerEnds
      <4>1. Message("Exit", 0, 0) \in Messages
        BY <1>s DEF Message, Messages
      <4> QED
        BY <3>1, <4>1 DEF HandlerEnds, Sends
    <3>2. CASE ArchiveError
      <4>1. PICK id \in Ids : Sends(Message("Error", id, 0))
        BY <3>2 DEF ArchiveError
      <4>2. Message("Error", id, 0) \in Messages
        BY <1>s DEF Message, Messages
      <4> QED
        BY <4>1, <4>2 DEF Sends
    <3> QED
        BY <1>13, <3>1, <3>2
  <2>2. data' \in Seq(Messages)
    BY <1>0, <2>1 DEF OtherTypes
  <2> QED
    BY <1>0, <1>13, <2>2 DEF HandlerEnds, ArchiveError, OtherTypes
<1>14. CASE ServerDies
  <2>1. << >> \in Seq(Ids)
    OBVIOUS
  <2> QED
    BY <1>0, <1>14, <2>1 DEF ServerDies, OtherTypes
<1>15. ASSUME NEW kind, Forward(kind) PROVE OtherTypes'
  <2>1. nextId \in Ids
    BY <1>15, NextNumber DEF Forward
  <2> QED
    BY <1>0, <1>15, <2>1, <1>s DEF Forward, OtherTypes
<1>16. ASSUME NEW kind, ForwardThrows(kind) PROVE OtherTypes'
  <2>1. nextId \in Ids
    BY <1>16, NextNumber DEF ForwardThrows
  <2> QED
    BY <1>0, <1>16, <2>1 DEF ForwardThrows, OtherTypes
<1>17. CASE DataHandle
  <2>1. nextId \in Ids
    BY <1>17, NextNumber DEF DataHandle
  <2>2. readQueue' \in Seq(Ids)
    BY <1>0, <1>17, <2>1 DEF DataHandle, OtherTypes
  <2> QED
    BY <1>0, <1>17, <2>1, <2>2, <1>s DEF DataHandle, OtherTypes
<1>18. ASSUME NEW id \in Ids, Next_(id) \/ Drop(id) \/ Read(id) PROVE OtherTypes'
  <2>1. PICK m : m = Message("Exit", 0, 0)
    OBVIOUS
  <2>2. m \in Messages
    BY <2>1, <1>s DEF Message, Messages
  <2>3. Interrupt(iter[id]) \in QueueType
    BY <1>0, <2>2, QueueOperations DEF OtherTypes
  <2>4. CASE Next_(id) \/ Read(id)
    BY <1>0, <2>4 DEF Next_, Read, Begin, OtherTypes
  <2>5. CASE Drop(id)
    <3>1. iter' \in [Ids -> QueueType]
        BY <1>0, <2>3, <2>5 DEF Drop, OtherTypes
    <3> QED
        BY <1>0, <2>5, <3>1 DEF Drop, Begin, OtherTypes
  <2> QED
    BY <1>18, <2>4, <2>5
<1> QED
    BY <1>1, <1>2, <1>3, <1>4, <1>5, <1>6, <1>7, <1>9, <1>10, <1>11, <1>12, <1>13, <1>14, <1>15, <1>16,
       <1>17, <1>18 DEF Next, UserReturns, Threads

(* Every step keeps the types. *)
LEMMA NextRTypes ==
    ASSUME SizeAssumption, RTypes, RBounds, RequestKinds, DataKinds, Next
    PROVE  RTypes'
BY NextUserTypes, NextOtherTypes DEF UserTypes, OtherTypes, RTypes

-------------------------------------------------------------------------------
(* Request numbers. *)

RTyped == RTypes /\ RBounds /\ RequestKinds /\ DataKinds /\ UserShape /\ DeadIsSilent

(* A handle more. *)
LEMMA MoreHandles ==
    ASSUME handles \in Seq(Ids), DataHandle
    PROVE  /\ Len(handles') = Len(handles) + 1 /\ handles'[Len(handles) + 1] = nextId
           /\ \A i \in 1..Len(handles) : handles'[i] = handles[i]
           /\ Handles' = Handles \cup {nextId}
<1>1. handles' = Append(handles, nextId) /\ Len(handles) \in Nat
    BY DEF DataHandle
<1>2. /\ Len(handles') = Len(handles) + 1 /\ handles'[Len(handles) + 1] = nextId
      /\ \A i \in 1..Len(handles) : handles'[i] = handles[i]
    BY <1>1
<1>3. Handles' = {handles'[i] : i \in 1..Len(handles')}
    BY DEF Handles
<1> QED
    BY <1>1, <1>2, <1>3 DEF Handles

(* The steps that make a request. *)
Makes ==
    \/ \E kind \in Kinds \ {"archive"} : Forward(kind) \/ ForwardThrows(kind)
    \/ DataHandle \/ DataHandleThrows \/ StartArchive

(* The others keep what the requests are; the queue of a call in progress is as open as it was. *)
KeepsRequests ==
    /\ handles' = handles /\ nextId <= nextId' /\ archiveId' \in {archiveId, 0}
    /\ \A id \in Ids : IsIterator(id)' <=> IsIterator(id)
    /\ \A id \in registered' :
          /\ id \in registered /\ queue'[id].closed = queue[id].closed
          /\ queue'[id].interrupted = queue[id].interrupted
    /\ \A id \in Ids : over'[id] = "archive" => over[id] = "archive"

(* The others keep what the requests are. *)
LEMMA OthersKeepRequests ==
    ASSUME SizeAssumption, RTyped, Next, ~Makes
    PROVE  KeepsRequests
<1> USE DEF client, queues, iterators, server
<1>0. RTypes
    BY DEF RTyped
<1>s. nextId \in Nat /\ nextId <= MaxRequests + 1 /\ nextId <= nextId /\ MaxRequests + 1 \in Nat
      /\ registered \subseteq Ids
    BY <1>0, Sizes DEF RTypes
<1>1. ASSUME NEW id \in Ids, NextReturns(id) \/ DropReturns(id) \/ ReadReturns(id) PROVE KeepsRequests
  <2>1. \A i \in Ids : over'[i] = "archive" => over[i] = "archive"
    <3>1. CASE over' = over
        BY <3>1
    <3>2. ASSUME NEW v \in {"ended", "failed", "dropped"}, over' = [over EXCEPT ![id] = v]
          PROVE  \A i \in Ids : over'[i] = "archive" => over[i] = "archive"
        BY <1>0, <3>2 DEF RTypes
    <3>3. over' = over \/ \E v \in {"ended", "failed", "dropped"} : over' = [over EXCEPT ![id] = v]
      <4>1. CASE NextReturns(id)
        BY <4>1 DEF NextReturns
      <4>2. CASE DropReturns(id)
        BY <4>2 DEF DropReturns
      <4>3. CASE ReadReturns(id)
        BY <4>3 DEF ReadReturns
      <4> QED
        BY <1>1, <4>1, <4>2, <4>3
    <3> QED
        BY <3>1, <3>2, <3>3
  <2> QED
    BY <1>1, <1>s, <2>1 DEF NextReturns, DropReturns, ReadReturns, KeepsRequests, IsIterator
<1>2. CASE Disconnected \/ Disconnect \/ ResetArchive \/ ReaderSends \/ HandlerEnds \/ ServerDies
    BY <1>2, <1>s DEF Disconnected, Disconnect, ResetArchive, ReaderSends, HandlerEnds, ServerDies,
       KeepsRequests, IsIterator
<1>3. CASE ArchiveError
  <2>1. \A i \in Ids : over'[i] = "archive" => over[i] = "archive"
    BY <1>0, <1>3 DEF ArchiveError, RTypes
  <2> QED
    BY <1>3, <1>s, <2>1 DEF ArchiveError, KeepsRequests, IsIterator
<1>4. ASSUME NEW id \in Ids, PumpPop(id) PROVE KeepsRequests
  <2>1. Popped(queue[id]).closed = queue[id].closed /\ Popped(queue[id]).interrupted = queue[id].interrupted
    BY <1>0, <1>4, QueuePops DEF PumpPop, RTypes
  <2>2. \A i \in Ids : queue'[i].closed = queue[i].closed /\ queue'[i].interrupted = queue[i].interrupted
    BY <1>0, <1>4, <2>1 DEF PumpPop, RTypes
  <2> QED
    BY <1>4, <1>s, <2>2 DEF PumpPop, KeepsRequests, IsIterator
<1>5. ASSUME NEW id \in Ids, PumpPush(id) \/ PumpEnds(id) PROVE KeepsRequests
  <2>1. \A i \in Ids : IsIterator(i)' <=> IsIterator(i)
    BY <1>0, <1>5 DEF PumpPush, PumpEnds, IsIterator, RTypes
  <2> QED
    BY <1>5, <1>s, <2>1 DEF PumpPush, PumpEnds, KeepsRequests
<1>6. ASSUME NEW id \in Ids, WorkerSends(id) \/ Next_(id) \/ Drop(id) \/ Read(id) PROVE KeepsRequests
    BY <1>6, <1>s DEF WorkerSends, Next_, Drop, Read, Begin, KeepsRequests, IsIterator
<1>7. CASE ListenerRead
  <2>1. PICK m \in Messages :
            /\ UNCHANGED <<client, iterators, server>>
            /\ \/ ReadsExit(m) \/ ReadsElement(m) \/ ReadsEnd(m)
               \/ ReadsArchiveError(m) \/ ReadsForHandle(m)
    BY <1>7, ListenerMoves DEF RTyped
  <2>2. \A id \in registered' :
          /\ id \in registered /\ queue'[id].closed = queue[id].closed
          /\ queue'[id].interrupted = queue[id].interrupted
    <3>1. CASE ReadsExit(m) \/ ReadsArchiveError(m) \/ ReadsForHandle(m)
        BY <3>1 DEF ReadsExit, ReadsArchiveError, ReadsForHandle
    <3>2. CASE ReadsElement(m)
      <4>1. m.id \in Ids /\ Emplace(queue[m.id], m).closed = queue[m.id].closed
            /\ Emplace(queue[m.id], m).interrupted = queue[m.id].interrupted
        BY <1>0, <3>2, QueueOperations DEF ReadsElement, RTypes
      <4> QED
        BY <1>0, <3>2, <4>1 DEF ReadsElement, RTypes
    <3>3. CASE ReadsEnd(m)
        BY <1>0, <3>3 DEF ReadsEnd, RTypes
    <3> QED
        BY <2>1, <3>1, <3>2, <3>3
  <2> QED
    BY <1>s, <2>1, <2>2 DEF KeepsRequests, IsIterator
<1>8. CASE ListenerFails
    BY <1>8, <1>s DEF ListenerFails, KeepsRequests, IsIterator
<1> QED
    BY <1>1, <1>2, <1>3, <1>4, <1>5, <1>6, <1>7, <1>8 DEF Next, UserReturns, Threads, Makes

(* Each request has a number of its own. *)
LEMMA NextNumbers ==
    ASSUME SizeAssumption, RTyped, Next
    PROVE  Numbers'
<1> USE DEF client, queues, iterators, server
<1>a. RTypes /\ Numbers /\ Fresh
    BY DEF RTyped, RequestKinds
<1>b. RTypes'
    BY NextRTypes DEF RTyped
<1>c. registered \subseteq Ids /\ handles \in Seq(Ids) /\ nextId \in 1..MaxRequests + 1
      /\ nextId' \in 1..MaxRequests + 1 /\ archiveId \in 0..MaxRequests
    BY <1>a, <1>b DEF RTypes
<1>d. Ids \subseteq Nat /\ 0 \notin Ids /\ nextId \in Nat /\ nextId' \in Nat
      /\ (archiveId # 0 => archiveId \in Ids)
    BY <1>c, Sizes DEF Ids
<1>0. RTypes /\ Numbers /\ Fresh /\ nextId \in Nat /\ nextId' \in Nat /\ registered \subseteq Ids
      /\ handles \in Seq(Ids) /\ Ids \subseteq Nat /\ 0 \notin Ids /\ (archiveId # 0 => archiveId \in Ids)
    BY <1>a, <1>c, <1>d
<1>l. Len(handles) \in Nat /\ \A i \in 1..Len(handles) : handles[i] \in Ids
    BY <1>c
<1>m. \A i \in 1..Len(handles) : handles[i] \in Nat
    BY <1>l, <1>d
<1>n. /\ \A i \in 1..Len(handles) : handles[i] < nextId
      /\ \A i, j \in 1..Len(handles) : i < j => handles[i] < handles[j]
    BY <1>a DEF Numbers
<1>o. \A id \in registered : id < nextId /\ id \notin Handles /\ ~queue[id].closed /\ ~queue[id].interrupted
    BY <1>a DEF Numbers
<1>p. archiveId # 0 => /\ archiveId < nextId /\ archiveId \notin registered /\ archiveId \notin Handles
                       /\ pump[archiveId] = "none" /\ archiveId \in Nat
    BY <1>a, <1>d DEF Numbers, IsIterator
<1>q. \A id \in Ids : over[id] = "archive" => id < nextId /\ id \notin Handles /\ pump[id] = "none" /\ id \in Nat
    BY <1>a, <1>d DEF Numbers, IsIterator
<1>h. Handles \subseteq Ids /\ \A h \in Handles : h < nextId
    BY <1>0 DEF Handles, Numbers
<1>1. CASE ~Makes
  <2>1. KeepsRequests
    BY <1>1, OthersKeepRequests
  <2>2. Handles' = Handles /\ Len(handles') = Len(handles)
    BY <2>1 DEF KeepsRequests, Handles
  <2>3. /\ \A i \in 1..Len(handles) : handles[i] < nextId'
        /\ \A i, j \in 1..Len(handles) : i < j => handles[i] < handles[j]
    BY SMTT(30), <1>d, <1>l, <1>m, <1>n, <2>1 DEF KeepsRequests
  <2>4. \A id \in Ids : IsIterator(id)' => id < nextId' /\ id \notin Handles
    BY <1>0, <2>1, <2>2 DEF Numbers, KeepsRequests
  <2>5. \A id \in registered' : id < nextId' /\ id \notin Handles /\ ~queue'[id].closed /\ ~queue'[id].interrupted
    <3> SUFFICES ASSUME NEW id \in registered'
                 PROVE  id < nextId' /\ id \notin Handles /\ ~queue'[id].closed /\ ~queue'[id].interrupted
        OBVIOUS
    <3>1. /\ id \in registered /\ queue'[id].closed = queue[id].closed
          /\ queue'[id].interrupted = queue[id].interrupted /\ nextId <= nextId'
        BY <2>1 DEF KeepsRequests
    <3>2. id < nextId /\ id \notin Handles /\ ~queue[id].closed /\ ~queue[id].interrupted /\ id \in Nat
        BY <3>1, <1>c, <1>d, <1>o
    <3>3. id < nextId'
        BY <3>1, <3>2, <1>d
    <3> QED
        BY <3>1, <3>2, <3>3
  <2>6. archiveId' # 0 => /\ archiveId' < nextId' /\ archiveId' \notin registered' \cup Handles
                          /\ archiveId' = archiveId /\ pump[archiveId] = "none"
    BY <1>d, <1>p, <2>1 DEF KeepsRequests
  <2>7. \A id \in Ids : pump[id] = "none" => pump'[id] = "none"
    BY <2>1 DEF KeepsRequests, IsIterator
  <2>9. archiveId' # 0 => pump'[archiveId'] = "none"
    BY <1>0, <2>6, <2>7
  <2>10. \A id \in Ids : over'[id] = "archive" => id < nextId' /\ id \notin Handles /\ ~IsIterator(id)'
    BY <1>0, <2>1, <2>2 DEF Numbers, KeepsRequests
  <2> QED
    BY <2>1, <2>2, <2>3, <2>4, <2>5, <2>6, <2>9, <2>10 DEF Numbers, IsIterator, KeepsRequests
<1>2. CASE DataHandle
  <2>1. nextId \in Ids /\ nextId' = nextId + 1
    BY <1>0, <1>2, NextNumber DEF DataHandle
  <2>2. /\ Len(handles') = Len(handles) + 1 /\ handles'[Len(handles) + 1] = nextId
        /\ \A i \in 1..Len(handles) : handles'[i] = handles[i]
        /\ Handles' = Handles \cup {nextId}
    BY <1>0, <1>2, MoreHandles
  <2>3. \A i \in 1..Len(handles') : handles'[i] < nextId'
    <3> SUFFICES ASSUME NEW i \in 1..Len(handles) + 1 PROVE handles'[i] < nextId'
        BY <2>2
    <3>1. CASE i = Len(handles) + 1
        BY <1>d, <2>1, <2>2, <3>1
    <3>2. CASE i \in 1..Len(handles)
        BY SMTT(30), <1>d, <1>m, <1>n, <2>1, <2>2, <3>2
    <3> QED
        BY <1>l, <3>1, <3>2
  <2>4. \A i, j \in 1..Len(handles') : i < j => handles'[i] < handles'[j]
    <3> SUFFICES ASSUME NEW i \in 1..Len(handles) + 1, NEW j \in 1..Len(handles) + 1, i < j
                 PROVE  handles'[i] < handles'[j]
        BY <2>2
    <3>1. i \in 1..Len(handles)
        BY <1>l
    <3>2. CASE j = Len(handles) + 1
        BY <1>n, <2>2, <3>1, <3>2
    <3>3. CASE j \in 1..Len(handles)
        BY <1>n, <2>2, <3>1, <3>3
    <3> QED
        BY <1>l, <3>2, <3>3
  <2>5. over' = [over EXCEPT ![nextId] = "open"] /\ UNCHANGED <<archiveId, registered, queue, pump>>
    BY <1>2 DEF DataHandle
  <2>6. \A id \in Ids : over'[id] = "archive" => over[id] = "archive" /\ id # nextId
    BY <1>0, <2>1, <2>5 DEF RTypes
  <2>7. nextId < nextId' /\ nextId \notin registered /\ (archiveId # 0 => archiveId # nextId) /\ ~IsIterator(nextId)
    BY <1>0, <2>1 DEF Numbers
  <2>8. \A id \in Ids : IsIterator(id) => id < nextId' /\ id \notin Handles'
    BY <1>0, <2>1, <2>2, <2>7 DEF Numbers
  <2>9. \A id \in registered : id < nextId' /\ id \notin Handles' /\ ~queue[id].closed /\ ~queue[id].interrupted
    BY <1>0, <2>1, <2>2, <2>7 DEF Numbers
  <2>10. archiveId # 0 => archiveId < nextId' /\ archiveId \notin registered \cup Handles' /\ ~IsIterator(archiveId)
    BY <1>0, <2>1, <2>2, <2>7 DEF Numbers, RTypes
  <2>11. \A id \in Ids : over'[id] = "archive" => id < nextId' /\ id \notin Handles' /\ ~IsIterator(id)
    BY <1>0, <2>1, <2>2, <2>6, <2>7 DEF Numbers
  <2> QED
    BY <2>3, <2>4, <2>5, <2>8, <2>9, <2>10, <2>11 DEF Numbers, IsIterator
<1>3. ASSUME NEW kind, Forward(kind) \/ ForwardThrows(kind) \/ DataHandleThrows \/ StartArchive PROVE Numbers'
  <2>1. nextId \in Ids /\ nextId' = nextId + 1 /\ handles' = handles
    BY <1>0, <1>3, NextNumber DEF Forward, ForwardThrows, DataHandleThrows, StartArchive
  <2>2. Handles' = Handles /\ nextId \notin Handles /\ ~IsIterator(nextId) /\ nextId \notin registered
        /\ nextId # archiveId /\ queue[nextId] = NewQueue /\ nextId < nextId' /\ nextId # 0
    BY <1>0, <1>h, <2>1 DEF Numbers, Fresh, Handles
  <2>3. /\ registered' \in {registered, registered \cup {nextId}} /\ UNCHANGED queue
        /\ pump' = pump \/ (pump' = [pump EXCEPT ![nextId] = "run"] /\ archiveId' = archiveId)
        /\ archiveId' = archiveId
              \/ (archiveId' = nextId /\ over' = [over EXCEPT ![nextId] = "archive"] /\ pump' = pump
                  /\ registered' = registered)
    BY <1>3 DEF Forward, ForwardThrows, DataHandleThrows, StartArchive
  <2>4. \E v \in {"open", "failed", "archive"} :
            over' = [over EXCEPT ![nextId] = v] /\ (v = "archive" => pump' = pump)
    BY <1>3 DEF Forward, ForwardThrows, DataHandleThrows, StartArchive
  <2>5. \A id \in Ids : IsIterator(id)' => IsIterator(id) \/ (id = nextId /\ pump' # pump)
    BY <1>0, <2>1, <2>3 DEF IsIterator, RTypes
  <2>6. \A id \in Ids : over'[id] = "archive" => over[id] = "archive" \/ (id = nextId /\ pump' = pump)
    BY <1>0, <2>1, <2>4 DEF RTypes
  <2>7. \A id \in Ids : IsIterator(id)' => id < nextId' /\ id \notin Handles
    BY <1>0, <2>1, <2>2, <2>5 DEF Numbers
  <2>8. \A id \in registered' : id < nextId' /\ id \notin Handles /\ ~queue[id].closed /\ ~queue[id].interrupted
    BY <1>0, <2>1, <2>2, <2>3 DEF Numbers, NewQueue
  <2>9. archiveId' # 0 => /\ archiveId' < nextId' /\ archiveId' \notin registered' \cup Handles
                          /\ pump'[archiveId'] = "none"
    <3>1. CASE archiveId' = archiveId
      <4>2. archiveId # 0 => pump'[archiveId] = "none"
        BY <1>d, <1>p, <2>2, <2>5 DEF IsIterator
      <4> QED
        BY <1>d, <1>p, <2>1, <2>2, <2>3, <3>1, <4>2
    <3>2. CASE archiveId' = nextId /\ pump' = pump /\ registered' = registered
        BY <2>2, <3>2 DEF IsIterator
    <3> QED
        BY <2>3, <3>1, <3>2
  <2>10. \A id \in Ids : over'[id] = "archive" => id < nextId' /\ id \notin Handles /\ ~IsIterator(id)'
    <3> SUFFICES ASSUME NEW id \in Ids, over'[id] = "archive"
                 PROVE  id < nextId' /\ id \notin Handles /\ ~IsIterator(id)'
        OBVIOUS
    <3>1. CASE over[id] = "archive"
      <4>1. id < nextId /\ id \notin Handles /\ pump[id] = "none" /\ id \in Nat /\ id # nextId
        BY <1>d, <1>q, <3>1
      <4>2. ~IsIterator(id)
        BY <4>1 DEF IsIterator
      <4> QED
        BY <1>q, <2>1, <2>2, <2>5, <3>1, <4>1, <4>2
    <3>2. CASE id = nextId /\ pump' = pump
        BY <2>1, <2>2, <3>2 DEF IsIterator
    <3> QED
        BY <2>6, <3>1, <3>2
  <2>11. \A i \in 1..Len(handles) : handles[i] < nextId'
    BY <1>d, <1>l, <1>m, <1>n, <2>1
  <2> QED
    BY <1>n, <2>1, <2>2, <2>3, <2>7, <2>8, <2>9, <2>10, <2>11 DEF Numbers, IsIterator
<1> QED
    BY <1>1, <1>2, <1>3 DEF Makes

-------------------------------------------------------------------------------
(* Requests that are not made yet. *)

(* What is known of the numbers. *)
LEMMA NumberTypes ==
    ASSUME SizeAssumption, RTyped, Next
    PROVE  /\ RTypes /\ RTypes' /\ Numbers /\ Numbers' /\ registered \subseteq Ids /\ handles \in Seq(Ids)
           /\ Handles \subseteq Ids /\ Ids \subseteq Nat /\ 0 \notin Ids
           /\ nextId \in Nat /\ nextId' \in Nat /\ nextId <= nextId'
<1>1. RTypes /\ RTypes' /\ Numbers /\ Numbers'
    BY NextRTypes, NextNumbers DEF RTyped, RequestKinds
<1>2. registered \subseteq Ids /\ handles \in Seq(Ids) /\ nextId \in 1..MaxRequests + 1
      /\ nextId' \in 1..MaxRequests + 1
    BY <1>1 DEF RTypes
<1>3. Ids \subseteq Nat /\ 0 \notin Ids /\ nextId \in Nat /\ nextId' \in Nat
    BY <1>2, Sizes DEF Ids
<1>4. Handles \subseteq Ids
    BY <1>2 DEF Handles
<1>5. nextId <= nextId'
  <2>1. CASE ~Makes
    BY <2>1, OthersKeepRequests DEF KeepsRequests
  <2>2. CASE Makes
    <3>1. nextId' = nextId + 1
        BY <2>2 DEF Makes, Forward, ForwardThrows, DataHandle, DataHandleThrows, StartArchive
    <3> QED
        BY <1>3, <3>1
  <2> QED
    BY <2>1, <2>2
<1> QED
    BY <1>1, <1>2, <1>3, <1>4, <1>5

(* What is there of one request stays as it is. *)
Same(id) ==
    /\ queue'[id] = queue[id] /\ iter'[id] = iter[id] /\ got'[id] = got[id]
    /\ hand'[id] = hand[id] /\ over'[id] = over[id] /\ left'[id] = left[id]

(* A request that is not made yet is not touched. *)
LEMMA NextSame ==
    ASSUME SizeAssumption, RTyped, Next, NEW id \in Ids, id >= nextId'
    PROVE  Same(id) \/ (ServerDies /\ left'[id] = 0 /\ left[id] = 0)
<1> USE DEF client, queues, iterators, server
<1>0. RTypes
    BY DEF RTyped
<1>1. id >= nextId /\ id \in Nat /\ \A k \in Ids : k < nextId => k # id
    BY NumberTypes
<1>2. /\ \A k \in Handles : k < nextId /\ k \in Ids
      /\ \A k \in Ids : IsIterator(k) => k < nextId
      /\ \A k \in Ids : over[k] = "archive" => k < nextId
      /\ \A k \in registered : k < nextId /\ k \in Ids
  <2>1. Numbers /\ registered \subseteq Ids /\ Handles \subseteq Ids
    BY NumberTypes
  <2> QED
    BY <2>1 DEF Numbers, Handles
<1>3. ASSUME NEW k \in Ids, NextReturns(k) \/ DropReturns(k) \/ ReadReturns(k) PROVE Same(id)
  <2>1. k < nextId
    <3>1. CASE NextReturns(k) \/ DropReturns(k)
      <4>1. IsIterator(k)
        BY <3>1 DEF NextReturns, DropReturns, Returns, RTyped, UserShape
      <4> QED
        BY <4>1, <1>2
    <3>2. CASE ReadReturns(k)
      <4>1. k \in Handles
        BY <3>2 DEF ReadReturns, Returns, RTyped, UserShape, Handles
      <4> QED
        BY <4>1, <1>2
    <3> QED
        BY <1>3, <3>1, <3>2
  <2>2. k # id
    BY <1>1, <2>1
  <2>3. CASE NextReturns(k)
    BY <1>0, <2>2, <2>3 DEF NextReturns, Same, RTypes
  <2>4. CASE DropReturns(k)
    BY <1>0, <2>2, <2>4 DEF DropReturns, Same, RTypes
  <2>5. CASE ReadReturns(k)
    <3>1. over' = over \/ \E v \in {"ended", "failed"} : over' = [over EXCEPT ![k] = v]
        BY <2>5 DEF ReadReturns
    <3>2. over'[id] = over[id]
        BY <1>0, <2>2, <3>1 DEF RTypes
    <3>3. got'[id] = got[id]
        BY <1>0, <2>2, <2>5 DEF ReadReturns, RTypes
    <3> QED
        BY <2>5, <3>2, <3>3 DEF ReadReturns, Same
  <2> QED
    BY <1>3, <2>3, <2>4, <2>5
<1>4. ASSUME NEW k \in Ids, PumpPop(k) \/ PumpPush(k) \/ PumpEnds(k) PROVE Same(id)
  <2>1. k # id
    BY <1>1, <1>2, <1>4 DEF PumpPop, PumpPush, PumpEnds, IsIterator
  <2> QED
    BY <1>0, <1>4, <2>1 DEF PumpPop, PumpPush, PumpEnds, Same, RTypes
<1>5. ASSUME NEW k \in Ids, NEW size, NEW rest, Answer(k, size, rest), k # id,
             UNCHANGED <<client, queues, iterators, session>>
      PROVE  Same(id)
  <2>1. left'[id] = left[id]
    BY <1>0, <1>5 DEF Answer, RTypes
  <2> QED
    BY <1>5, <2>1 DEF Same
<1>6. ASSUME NEW k \in Ids, WorkerSends(k) PROVE Same(id)
    BY <1>1, <1>2, <1>5, <1>6 DEF WorkerSends
<1>7. CASE ReaderSends
  <2>1. Head(readQueue) \in Handles
    BY <1>7, ServerSends DEF RTyped
  <2> QED
    BY <1>1, <1>2, <1>5, <1>7, <2>1 DEF ReaderSends
<1>8. CASE ListenerRead
  <2>1. PICK m \in Messages :
            /\ UNCHANGED <<client, iterators, server>>
            /\ \/ ReadsExit(m) \/ ReadsElement(m) \/ ReadsEnd(m)
               \/ ReadsArchiveError(m) \/ ReadsForHandle(m)
    BY <1>8, ListenerMoves DEF RTyped
  <2>2. m.id \in registered => m.id # id
    BY <1>1, <1>2
  <2>3. queue'[id] = queue[id]
    BY <1>0, <2>1, <2>2 DEF ReadsExit, ReadsElement, ReadsEnd, ReadsArchiveError, ReadsForHandle, RTypes
  <2> QED
    BY <2>1, <2>3 DEF Same
<1>9. CASE ListenerFails
    BY <1>0, <1>1, <1>2, <1>9 DEF ListenerFails, Same, RTypes
<1>10. CASE HandlerEnds \/ Disconnected \/ Disconnect \/ ResetArchive
    BY <1>10 DEF HandlerEnds, Disconnected, Disconnect, ResetArchive, Same
<1>11. CASE ServerDies
    BY <1>1, <1>11 DEF ServerDies, RTyped, RequestKinds, Fresh
<1>12. CASE ArchiveError
  <2>1. PICK k \in Ids : over[k] = "archive" /\ over' = [over EXCEPT ![k] = "failed"]
    BY <1>12 DEF ArchiveError
  <2>2. k # id
    BY <1>1, <1>2, <2>1
  <2> QED
    BY <1>0, <1>12, <2>1, <2>2 DEF ArchiveError, Same, RTypes
<1>13. ASSUME NEW k \in Ids, Next_(k) \/ Drop(k) \/ Read(k) PROVE Same(id)
  <2>1. CASE Drop(k)
    <3>1. k # id
        BY <1>1, <1>2, <2>1 DEF Drop
    <3> QED
        BY <1>0, <2>1, <3>1 DEF Drop, Begin, Same, RTypes
  <2>2. CASE Next_(k) \/ Read(k)
    BY <2>2 DEF Next_, Read, Begin, Same
  <2> QED
    BY <1>13, <2>1, <2>2
<1>14. ASSUME NEW kind, Forward(kind) \/ ForwardThrows(kind) \/ DataHandle \/ DataHandleThrows \/ StartArchive
       PROVE  Same(id)
  <2>1. nextId' = nextId + 1
    BY <1>14 DEF Forward, ForwardThrows, DataHandle, DataHandleThrows, StartArchive
  <2>2. id # nextId
    BY <2>1, NumberTypes
  <2>3. over'[id] = over[id]
    BY <1>0, <1>14, <2>2 DEF Forward, ForwardThrows, DataHandle, DataHandleThrows, StartArchive, RTypes
  <2>4. left'[id] = left[id]
    BY <1>0, <1>14, <2>2 DEF Forward, ForwardThrows, DataHandle, DataHandleThrows, StartArchive, RTypes
  <2> QED
    BY <1>14, <2>3, <2>4 DEF Forward, ForwardThrows, DataHandle, DataHandleThrows, StartArchive, Same
<1> QED
    BY <1>3, <1>4, <1>6, <1>7, <1>8, <1>9, <1>10, <1>11, <1>12, <1>13, <1>14 DEF Next, UserReturns, Threads

(* Nothing is there of a request that is not made yet. *)
LEMMA NextFresh ==
    ASSUME SizeAssumption, RTyped, Next
    PROVE  Fresh'
<1> SUFFICES ASSUME NEW id \in Ids, id >= nextId'
             PROVE  /\ queue'[id] = NewQueue /\ iter'[id] = NewQueue /\ got'[id] = << >>
                    /\ hand'[id] = << >> /\ over'[id] = "none" /\ left'[id] = 0
    BY DEF Fresh
<1>1. id >= nextId
    BY NumberTypes
<1>2. /\ queue[id] = NewQueue /\ iter[id] = NewQueue /\ got[id] = << >> /\ hand[id] = << >>
      /\ over[id] = "none" /\ left[id] = 0
    BY <1>1 DEF RTyped, RequestKinds, Fresh
<1>3. CASE Same(id)
    BY <1>2, <1>3 DEF Same
<1>4. CASE ServerDies /\ left'[id] = 0
    BY <1>2, <1>4 DEF ServerDies, client, queues, iterators
<1> QED
    BY <1>3, <1>4, NextSame

-------------------------------------------------------------------------------
(* What is on the connection. *)

(* What the path of a call says of a message of it: its place in the call. *)
LEMMA Counted ==
    ASSUME RTypes, NEW id \in Ids
    PROVE  /\ Len(got[id]) \in Nat /\ Len(iter[id].elems) \in Nat /\ Len(hand[id]) \in Nat
           /\ Len(queue[id].elems) \in Nat /\ Passed(id) \in Nat /\ Taken(id) \in Nat
           /\ queue[id].elems \in Seq(Messages) /\ iter[id].elems \in Seq(Messages)
<1>1. got[id] \in Seq(Messages) /\ hand[id] \in Seq(Messages)
      /\ iter[id] \in QueueType /\ queue[id] \in QueueType
    BY DEF RTypes
<1>2. queue[id].elems \in Seq(Messages) /\ iter[id].elems \in Seq(Messages)
    BY <1>1 DEF QueueType
<1>3. /\ Len(got[id]) \in Nat /\ Len(iter[id].elems) \in Nat /\ Len(hand[id]) \in Nat
      /\ Len(queue[id].elems) \in Nat
    BY <1>1, <1>2
<1>4. \A a, b \in Nat : a + b \in Nat
    OBVIOUS
<1>5. Passed(id) \in Nat
    BY <1>3, <1>4, Zenon DEF Passed
<1>6. Taken(id) \in Nat
    BY <1>3, <1>4, <1>5, Zenon DEF Taken
<1> QED
    BY <1>2, <1>3, <1>5, <1>6

(* What the head of the connection is to the call it belongs to. *)
LEMMA StreamHead ==
    ASSUME SizeAssumption, RTypes, NEW m \in Messages, m = Head(data), data # << >>,
           m.id \in registered, IterStream(m.id)
    PROVE  /\ m.type = "Blob" =>
                 \E b \in Nat : /\ m.n = b + 1
                                /\ pump[m.id] = "run" => b = Taken(m.id)
                                /\ \E to \in Places :
                                      /\ Along(<<m.id>>, Elements, Tail(data), Place(1, b + 1), to)
                                      /\ left[m.id] # 0 => /\ left[m.id] \in 1..Elements + 1
                                                           /\ to = Place(1, Elements + 1 - left[m.id])
           /\ m.type # "Blob" => /\ left[m.id] = 0 /\ \A i \in 1..Len(Tail(data)) : Tail(data)[i].id # m.id
                                 /\ m.type = "Complete" /\ pump[m.id] = "run" => Taken(m.id) = Elements
           /\ m.type # "Exit"
<1>1. PICK b \in Nat : IterStreamFrom(m.id, b) /\ (pump[m.id] = "run" => b = Taken(m.id))
    BY DEF IterStream
<1>2. PICK to \in Places :
          /\ Along(<<m.id>>, Elements, data, Place(1, b), to)
          /\ left[m.id] # 0 => left[m.id] \in 1..Elements + 1 /\ to = Place(1, Elements + 1 - left[m.id])
    BY <1>1 DEF IterStreamFrom
<1>3. data \in Seq(Messages) /\ Tail(data) \in Seq(Messages)
    BY DEF RTypes
<1>4. PICK q \in Places : /\ Passes(<<m.id>>, Elements, Place(1, b), m, q)
                          /\ Along(<<m.id>>, Elements, Tail(data), q, to)
    BY <1>2, <1>3, AlongHead
<1>5. \/ m.type = "Blob" /\ m.n = b + 1 /\ q = Place(1, b + 1)
      \/ m.type = "Complete" /\ b = Elements /\ q = Place(2, 0)
      \/ m.type = "Error" /\ q = Place(2, 0)
  <2>1. Len(<<m.id>>) = 1 /\ <<m.id>>[1] = m.id /\ 1 \in 1..Len(<<m.id>>)
    OBVIOUS
  <2>2. Place(1, b).request = 1 /\ Place(1, b).count = b
    BY DEF Place
  <2> QED
    BY <1>4, <2>1, <2>2 DEF Passes
<1>6. CASE m.type = "Blob"
    BY <1>1, <1>2, <1>4, <1>5, <1>6
<1>7. CASE m.type # "Blob"
  <2>1. q = Place(2, 0)
    BY <1>5, <1>7
  <2>a. Along(<<m.id>>, Elements, Tail(data), Place(2, 0), to)
    BY <1>4, <2>1
  <2>b. PICK ms \in Seq(Messages) : ms = Tail(data)
    BY <1>3
  <2>e. PICK id : id = m.id
    OBVIOUS
  <2>c. Along(<<id>>, Elements, ms, Place(2, 0), to)
    BY <2>a, <2>b, <2>e
  <2>d. to = Place(2, 0) /\ \A i \in 1..Len(ms) : ms[i].id # id
    <3>1. ms \in Seq(Messages)
        BY <1>3, <2>b
    <3> QED
        BY <2>c, <3>1, AlongPast
  <2>2. to = Place(2, 0) /\ \A i \in 1..Len(Tail(data)) : Tail(data)[i].id # m.id
    BY <2>b, <2>d, <2>e
  <2>3. left[m.id] = 0
    BY <1>2, <2>2 DEF Place
  <2> QED
    BY <1>1, <1>5, <1>7, <2>2, <2>3
<1> QED
    BY <1>6, <1>7

(* What is on the connection after a step is of its kinds. *)
LEMMA KindsOfData ==
    ASSUME \A i \in 1..Len(data') : \E m : m = data'[i] /\ OnData(m)'
    PROVE  DataKinds'
BY DEF DataKinds, OnData, IsIterator

(* A step that sends m, or nothing. *)
LEMMA KindsKept ==
    ASSUME RTypes, RTypes', DataKinds, Handles \subseteq Handles', registered \subseteq registered',
           \A id \in Ids : IsIterator(id) => IsIterator(id)',
           archiveId = 0 \/ archiveId' = archiveId,
           \/ data' = data
           \/ \E m \in Messages : data' = Append(data, m) /\ OnData(m)
    PROVE  DataKinds'
<1>1. data \in Seq(Messages) /\ data' \in Seq(Messages)
    BY DEF RTypes
<1> SUFFICES ASSUME NEW i \in 1..Len(data') PROVE \E m : m = data'[i] /\ OnData(m)'
    BY KindsOfData
<1>2. PICK m \in Messages : m = data'[i]
    BY <1>1
<1>3. OnData(m)
  <2>1. CASE data' = data
    BY <1>2, <2>1 DEF DataKinds
  <2>2. ASSUME NEW x \in Messages, data' = Append(data, x), OnData(x) PROVE OnData(m)
    <3>1. m = x \/ (i \in 1..Len(data) /\ m = data[i])
        BY <1>1, <1>2, <2>2
    <3> QED
        BY <2>2, <3>1 DEF DataKinds
  <2> QED
    BY <2>1, <2>2
<1>4. OnData(m)'
  <2>1. m.type # "Exit" /\ m.id \in registered => m.id \in Ids
    BY DEF RTypes
  <2>3. m.id \in registered => (IsIterator(m.id) => IsIterator(m.id)')
    BY DEF RTypes
  <2> QED
    BY <1>3, <2>3 DEF OnData, IsIterator
<1> QED
    BY <1>2, <1>4

(* What a server sends is its own. *)
LEMMA NextDataKinds ==
    ASSUME SizeAssumption, ~LateErrors, RTyped, IterStreams, Next
    PROVE  DataKinds'
<1> USE DEF client, queues, iterators, server
<1>0. RTypes /\ RTypes' /\ DataKinds /\ Numbers /\ data \in Seq(Messages) /\ data' \in Seq(Messages)
      /\ 0 \notin Ids /\ registered \subseteq Ids /\ handles \in Seq(Ids) /\ Handles \subseteq Ids
    BY NumberTypes DEF RTyped, RTypes
<1>1. ASSUME UNCHANGED <<handles, registered, pump, archiveId>>,
             \/ data' = data
             \/ \E m \in Messages : data' = Append(data, m) /\ OnData(m)
      PROVE  DataKinds'
    BY <1>0, <1>1, KindsKept DEF Handles, IsIterator
<1>2. ASSUME NEW id \in Ids, NextReturns(id) \/ DropReturns(id) \/ ReadReturns(id) \/ PumpPop(id)
                             \/ Next_(id) \/ Drop(id) \/ Read(id) PROVE DataKinds'
    BY <1>1, <1>2 DEF NextReturns, DropReturns, ReadReturns, PumpPop, Next_, Drop, Read, Begin
<1>3. CASE Disconnected \/ Disconnect \/ ServerDies
    BY <1>1, <1>3 DEF Disconnected, Disconnect, ServerDies
<1>4. ASSUME NEW id \in Ids, PumpPush(id) \/ PumpEnds(id) PROVE DataKinds'
  <2>1. UNCHANGED <<handles, registered, archiveId, data>>
    BY <1>4 DEF PumpPush, PumpEnds
  <2>2. pump' = pump \/ pump' = [pump EXCEPT ![id] = "ended"]
    BY <1>4 DEF PumpPush, PumpEnds
  <2>3. \A i \in Ids : IsIterator(i) => IsIterator(i)'
    BY <1>0, <2>2 DEF IsIterator, RTypes
  <2> QED
    BY <1>0, <2>1, <2>3, KindsKept DEF Handles
<1>5. ASSUME NEW id \in Ids, WorkerSends(id) PROVE DataKinds'
  <2>1. Answer(id, Elements, readQueue) /\ left[id] <= Elements + 1 /\ IsIterator(id)
    BY <1>5, ServerSends DEF WorkerSends, RTyped
  <2>2. PICK m \in Messages : data' = Append(data, m) /\ m.id = id /\ m.type # "Exit" /\ left[id] # 0
    BY SMTT(30), <1>0, <2>1, AnswerSends, Sizes
  <2>3. id \in registered
    BY <2>1, <2>2, ServerSends, <1>5 DEF RTyped, RequestKinds, Owed
  <2>4. OnData(m)
    BY <2>1, <2>2, <2>3 DEF OnData
  <2> QED
    BY <1>1, <1>5, <2>2, <2>4 DEF WorkerSends
<1>6. CASE ReaderSends
  <2>1. /\ Head(readQueue) \in Handles /\ Head(readQueue) \in Ids /\ left[Head(readQueue)] <= Chunks + 1
        /\ Answer(Head(readQueue), Chunks, Tail(readQueue))
    BY <1>6, ServerSends DEF RTyped
  <2>2. PICK m \in Messages : data' = Append(data, m) /\ m.id = Head(readQueue) /\ m.type # "Exit"
    BY <1>0, <2>1, AnswerSends, Sizes
  <2>4. OnData(m)
    BY <2>1, <2>2 DEF OnData
  <2> QED
    BY <1>1, <1>6, <2>2, <2>4 DEF ReaderSends
<1>7. CASE HandlerEnds
  <2>1. PICK m : m = Message("Exit", 0, 0)
    OBVIOUS
  <2>2. m \in Messages /\ OnData(m)
    BY <2>1, Sizes DEF Message, Messages, OnData
  <2> QED
    BY <1>1, <1>7, <2>1, <2>2 DEF HandlerEnds, Sends
<1>8. CASE ArchiveError
  <2>1. PICK id \in Ids : over[id] = "archive" /\ archiveId = id /\ Sends(Message("Error", id, 0))
    BY <1>8 DEF ArchiveError
  <2>2. PICK m : m = Message("Error", id, 0)
    OBVIOUS
  <2>3. m \in Messages /\ OnData(m)
    BY <1>0, <2>1, <2>2, Sizes DEF Message, Messages, OnData, Ids
  <2> QED
    BY <1>1, <1>8, <2>1, <2>2, <2>3 DEF ArchiveError, Sends
<1>9. CASE ListenerRead
  <2>1. PICK m \in Messages :
            /\ data # << >> /\ data' = Tail(data) /\ m = Head(data) /\ m = data[1]
            /\ UNCHANGED <<client, iterators, server>>
            /\ \/ ReadsExit(m) \/ ReadsElement(m) \/ ReadsEnd(m)
               \/ ReadsArchiveError(m) \/ ReadsForHandle(m)
    BY <1>9, ListenerMoves DEF RTyped
  <2> SUFFICES ASSUME NEW i \in 1..Len(data') PROVE \E x : x = data'[i] /\ OnData(x)'
    BY KindsOfData
  <2>2. i + 1 \in 1..Len(data) /\ data'[i] = data[i + 1]
    BY <1>0, <2>1
  <2>3. PICK x : x = data'[i]
    OBVIOUS
  <2>4. OnData(x)
    BY <1>0, <2>2, <2>3 DEF DataKinds
  <2>5. x.id \in registered => x.id \in registered'
    <3>1. CASE ReadsEnd(m)
      <4>1. registered' = registered \ {m.id} /\ m.id \in registered /\ m.type # "Exit" /\ m.type # "Blob"
        BY <3>1 DEF ReadsEnd
      <4>2. IsIterator(m.id)
        <5>1. OnData(m)
            BY <1>0, <2>1 DEF DataKinds
        <5> QED
            BY <1>0, <4>1, <5>1 DEF OnData, Numbers
      <4>3. IterStream(m.id)
        BY <4>1, <4>2 DEF IterStreams
      <4>4. \A j \in 1..Len(Tail(data)) : Tail(data)[j].id # m.id
        BY <1>0, <2>1, <4>1, <4>3, StreamHead
      <4> QED
        BY <2>1, <2>3, <4>1, <4>4
    <3>2. CASE ~ReadsEnd(m)
        BY <2>1, <3>2 DEF ReadsExit, ReadsElement, ReadsArchiveError, ReadsForHandle
    <3> QED
        BY <3>1, <3>2
  <2>6. Handles' = Handles /\ archiveId' = archiveId /\ pump' = pump
    BY <2>1 DEF Handles
  <2>7. OnData(x)'
    BY <2>4, <2>5, <2>6 DEF OnData, IsIterator
  <2> QED
    BY <2>3, <2>7
<1>10. CASE ListenerFails
  <2>1. data' = << >>
    BY <1>10 DEF ListenerFails
  <2> QED
    BY <2>1 DEF DataKinds
<1>11. ASSUME NEW kind, Forward(kind) \/ ForwardThrows(kind) \/ DataHandleThrows \/ StartArchive PROVE DataKinds'
  <2>1. nextId \in Ids
    BY <1>0, <1>11, NextNumber DEF Forward, ForwardThrows, DataHandleThrows, StartArchive
  <2>2. /\ handles' = handles /\ registered \subseteq registered' /\ data' = data
        /\ pump' = pump \/ pump' = [pump EXCEPT ![nextId] = "run"]
        /\ archiveId = 0 \/ archiveId' = archiveId
    BY <1>11 DEF Forward, ForwardThrows, DataHandleThrows, StartArchive
  <2>3. \A i \in Ids : IsIterator(i) => IsIterator(i)'
    BY <1>0, <2>1, <2>2 DEF IsIterator, RTypes
  <2> QED
    BY <1>0, <2>2, <2>3, KindsKept DEF Handles
<1>12. CASE DataHandle
  <2>1. Handles \subseteq Handles'
    BY <1>0, <1>12, MoreHandles
  <2>2. UNCHANGED <<registered, archiveId, pump, data>>
    BY <1>12 DEF DataHandle
  <2> QED
    BY <1>0, <2>1, <2>2, KindsKept DEF IsIterator
<1>13. CASE ResetArchive
  <2>1. /\ UNCHANGED <<registered, handles, pump, data>>
        /\ \A i \in 1..Len(data) : data[i].id # archiveId
    BY <1>0, <1>13 DEF ResetArchive
  <2> SUFFICES ASSUME NEW i \in 1..Len(data) PROVE \E x : x = data'[i] /\ OnData(x)'
    BY <2>1, KindsOfData
  <2>2. PICK x : x = data[i]
    OBVIOUS
  <2>3. OnData(x) /\ x.id # archiveId
    BY <2>1, <2>2, <1>0 DEF DataKinds
  <2>4. OnData(x)'
    BY <2>1, <2>3 DEF OnData, IsIterator, Handles
  <2> QED
    BY <2>1, <2>2, <2>4
<1> QED
    BY <1>2, <1>3, <1>4, <1>5, <1>6, <1>7, <1>8, <1>9, <1>10, <1>11, <1>12, <1>13
       DEF Next, UserReturns, Threads

-------------------------------------------------------------------------------
(* What the server owes. *)

(* Steps that leave the server's work alone, or do some of it. *)
LEMMA LeftChanges ==
    ASSUME SizeAssumption, RTyped, Next, NEW id \in Ids
    PROVE  \/ left'[id] = left[id]
           \/ left'[id] < left[id]
           \/ id = nextId /\ DataHandle /\ left'[id] = Chunks + 1
           \/ id = nextId /\ left'[id] = Elements + 1 /\ \E kind \in Kinds : Forward(kind)
<1> USE DEF client, queues, iterators, server
<1>0. left \in [Ids -> Nat] /\ left' \in [Ids -> Nat]
  <2>1. RTypes /\ RTypes'
    BY NumberTypes
  <2> QED
    BY <2>1 DEF RTypes
<1>1. ASSUME NEW k \in Ids, NEW size, NEW rest, Answer(k, size, rest)
      PROVE  left'[id] = left[id] \/ left'[id] < left[id]
  <2>1. left[k] # 0 /\ (left' = [left EXCEPT ![k] = left[k] - 1] \/ left' = [left EXCEPT ![k] = 0])
    BY <1>1 DEF Answer
  <2>2. CASE left' = [left EXCEPT ![k] = left[k] - 1]
    BY <1>0, <2>1, <2>2
  <2>3. CASE left' = [left EXCEPT ![k] = 0]
    BY <1>0, <2>1, <2>3
  <2> QED
    BY <2>1, <2>2, <2>3
<1>2. ASSUME NEW k \in Ids, WorkerSends(k) PROVE left'[id] = left[id] \/ left'[id] < left[id]
    BY <1>1, <1>2 DEF WorkerSends
<1>3. CASE ReaderSends
  <2>1. Head(readQueue) \in Ids
    BY <1>3, ServerSends DEF RTyped
  <2> QED
    BY <1>1, <1>3, <2>1 DEF ReaderSends
<1>4. CASE ServerDies
    BY <1>0, <1>4 DEF ServerDies
<1>5. CASE DataHandle
  <2>1. nextId \in Ids /\ Chunks + 1 \in Nat /\ left' = [left EXCEPT ![nextId] = Chunks + 1]
    BY <1>5, NextNumber, Sizes DEF DataHandle, RTyped
  <2> QED
    BY <1>0, <1>5, <2>1
<1>6. ASSUME NEW kind \in Kinds, Forward(kind)
      PROVE  left'[id] = left[id] \/ (id = nextId /\ left'[id] = Elements + 1)
  <2>1. nextId \in Ids /\ Elements + 1 \in Nat /\ left' = [left EXCEPT ![nextId] = Elements + 1]
    BY <1>6, NextNumber, Sizes DEF Forward, RTyped
  <2> QED
    BY <1>0, <1>6, <2>1
<1>7. ASSUME NEW k \in Ids, NextReturns(k) \/ DropReturns(k) \/ ReadReturns(k) \/ PumpPop(k) \/ PumpPush(k)
                            \/ PumpEnds(k) \/ Next_(k) \/ Drop(k) \/ Read(k)
      PROVE  left' = left
    BY <1>7 DEF NextReturns, DropReturns, ReadReturns, PumpPop, PumpPush, PumpEnds, Next_, Drop, Read, Begin
<1>8. ASSUME \/ Disconnected \/ Disconnect \/ ResetArchive \/ HandlerEnds \/ ListenerRead \/ ListenerFails
             \/ DataHandleThrows \/ StartArchive \/ ArchiveError \/ \E kind \in Kinds : ForwardThrows(kind)
      PROVE  left' = left
    BY <1>8 DEF Disconnected, Disconnect, ResetArchive, HandlerEnds, ListenerRead, ListenerFails,
       DataHandleThrows, StartArchive, ArchiveError, ForwardThrows
<1> QED
    BY <1>2, <1>3, <1>4, <1>5, <1>6, <1>7, <1>8 DEF Next, UserReturns, Threads

(* Who is registered, and for how long. *)
LEMMA RegisteredChanges ==
    ASSUME SizeAssumption, RTyped, IterStreams, Next, NEW id \in registered
    PROVE  id \in registered' \/ left[id] = 0
<1> USE DEF client, queues, iterators, server
<1>1. CASE ListenerRead
  <2>1. PICK m \in Messages :
            /\ data # << >> /\ m = Head(data) /\ m = data[1]
            /\ \/ ReadsExit(m) \/ ReadsElement(m) \/ ReadsEnd(m)
               \/ ReadsArchiveError(m) \/ ReadsForHandle(m)
    BY <1>1, ListenerMoves DEF RTyped
  <2>2. CASE ReadsEnd(m) /\ id = m.id
    <3>1. OnData(m)
        BY <2>1, NumberTypes DEF RTyped, DataKinds, RTypes
    <3>2. m.type # "Blob" /\ m.type # "Exit" /\ IsIterator(m.id)
        BY <2>2, <3>1, NumberTypes DEF ReadsEnd, OnData, Numbers
    <3>3. IterStream(m.id)
        BY <2>2, <3>2 DEF IterStreams
    <3> QED
        BY <2>1, <2>2, <3>2, <3>3, StreamHead DEF RTyped
  <2>3. CASE ReadsEnd(m) /\ id # m.id
    BY <2>3 DEF ReadsEnd
  <2>4. CASE ~ReadsEnd(m)
    BY <2>1, <2>4 DEF ReadsExit, ReadsElement, ReadsArchiveError, ReadsForHandle
  <2> QED
    BY <2>2, <2>3, <2>4
<1>2. CASE ListenerFails
    BY <1>2, NumberTypes DEF ListenerFails, RTyped, DeadIsSilent
<1>3. ASSUME NEW k \in Ids, NextReturns(k) \/ DropReturns(k) \/ ReadReturns(k) \/ PumpPop(k) \/ PumpPush(k)
                            \/ PumpEnds(k) \/ Next_(k) \/ Drop(k) \/ Read(k) \/ WorkerSends(k)
      PROVE  registered' = registered
    BY <1>3 DEF NextReturns, DropReturns, ReadReturns, PumpPop, PumpPush, PumpEnds, Next_, Drop, Read, Begin,
       WorkerSends
<1>4. ASSUME \/ Disconnected \/ Disconnect \/ ResetArchive \/ HandlerEnds \/ DataHandle \/ ReaderSends
             \/ ServerDies \/ DataHandleThrows \/ StartArchive \/ ArchiveError
             \/ \E kind \in Kinds : Forward(kind) \/ ForwardThrows(kind)
      PROVE  registered \subseteq registered'
    BY <1>4 DEF Disconnected, Disconnect, ResetArchive, HandlerEnds, DataHandle, ReaderSends, ServerDies,
       DataHandleThrows, StartArchive, ArchiveError, Forward, ForwardThrows
<1> QED
    BY <1>1, <1>2, <1>3, <1>4 DEF Next, UserReturns, Threads

(* What never goes back. *)
LEMMA Grows ==
    ASSUME SizeAssumption, RTyped, Next
    PROVE  Handles \subseteq Handles' /\ \A id \in Ids : IsIterator(id) => IsIterator(id)'
<1>0. RTypes /\ handles \in Seq(Ids)
    BY NumberTypes
<1>1. CASE ~Makes
  <2>1. KeepsRequests
    BY <1>1, OthersKeepRequests
  <2> QED
    BY <2>1 DEF KeepsRequests, Handles
<1>2. CASE DataHandle
  <2>1. Handles \subseteq Handles' /\ pump' = pump
    BY <1>0, <1>2, MoreHandles DEF DataHandle, iterators
  <2> QED
    BY <2>1 DEF IsIterator
<1>3. ASSUME NEW kind, Forward(kind) \/ ForwardThrows(kind) \/ DataHandleThrows \/ StartArchive
      PROVE  Handles \subseteq Handles' /\ \A id \in Ids : IsIterator(id) => IsIterator(id)'
  <2>1. handles' = handles /\ (pump' = pump \/ pump' = [pump EXCEPT ![nextId] = "run"])
    BY <1>3 DEF Forward, ForwardThrows, DataHandleThrows, StartArchive, iterators
  <2>2. \A id \in Ids : IsIterator(id) => IsIterator(id)'
    BY <1>0, <2>1 DEF RTypes, IsIterator
  <2> QED
    BY <2>1, <2>2 DEF Handles
<1> QED
    BY <1>1, <1>2, <1>3 DEF Makes

(* The server works for handles and for calls that are registered. *)
LEMMA NextOwed ==
    ASSUME SizeAssumption, RTyped, IterStreams, Next
    PROVE  Owed'
<1> SUFFICES ASSUME NEW id \in Ids, left'[id] # 0
             PROVE  id \in Handles' \/ (IsIterator(id)' /\ id \in registered')
    BY DEF Owed, IsIterator
<1>1. CASE left'[id] = left[id] \/ left'[id] < left[id]
  <2>1. left[id] # 0
    <3>1. left \in [Ids -> Nat] /\ left' \in [Ids -> Nat]
      <4>1. RTypes /\ RTypes'
        BY NumberTypes
      <4> QED
        BY <4>1 DEF RTypes
    <3> QED
        BY <1>1, <3>1
  <2>2. id \in Handles \/ (IsIterator(id) /\ id \in registered)
    BY <2>1 DEF RTyped, RequestKinds, Owed
  <2> QED
    BY <2>1, <2>2, Grows, RegisteredChanges
<1>2. CASE id = nextId /\ DataHandle
    BY <1>2, NumberTypes, MoreHandles
<1>3. ASSUME NEW kind, id = nextId, Forward(kind) PROVE IsIterator(id)' /\ id \in registered'
  <2>1. pump \in [Ids -> {"none", "run", "ended"}]
    BY NumberTypes DEF RTypes
  <2> QED
    BY <1>3, <2>1 DEF Forward, IsIterator
<1> QED
    BY <1>1, <1>2, <1>3, LeftChanges

(* Every step keeps the requests apart. *)
LEMMA NextRequestKinds ==
    ASSUME SizeAssumption, RTyped, IterStreams, Next
    PROVE  RequestKinds'
BY NextNumbers, NextFresh, NextOwed DEF RequestKinds

-------------------------------------------------------------------------------
(* Bounds of the queues. *)

(* The queues hold no more than they may. *)
LEMMA NextQueueBounds ==
    ASSUME SizeAssumption, RTyped, Next
    PROVE  /\ \A id \in Ids : Len(queue'[id].elems) <= QueueCap /\ Len(iter'[id].elems) <= IterCap
           /\ Len(retrieveQueue'.elems) <= RetrieveCap /\ Len(data') <= DataCap
<1> USE DEF client, queues, iterators, server
<1>0. RTypes
    BY DEF RTyped
<1>s. QueueCap \in Nat /\ IterCap \in Nat /\ RetrieveCap \in Nat /\ DataCap \in Nat
    BY Sizes
<1>t. /\ queue \in [Ids -> QueueType] /\ iter \in [Ids -> QueueType] /\ retrieveQueue \in QueueType
      /\ data \in Seq(Messages)
    BY <1>0 DEF RTypes
<1>b. /\ \A id \in Ids : Len(queue[id].elems) <= QueueCap /\ Len(iter[id].elems) <= IterCap
      /\ Len(retrieveQueue.elems) <= RetrieveCap /\ Len(data) <= DataCap
    BY DEF RTyped, RBounds
<1>p. ASSUME NEW q \in QueueType, NEW cap \in Nat, Len(q.elems) <= cap
      PROVE  q.elems # << >> => Len(Popped(q).elems) <= cap
  <2> SUFFICES ASSUME q.elems # << >> PROVE Len(Popped(q).elems) <= cap
    OBVIOUS
  <2>1. Popped(q).elems = Tail(q.elems)
    BY QueuePops
  <2>2. q.elems \in Seq(Messages)
    BY DEF QueueType
  <2>3. Len(Tail(q.elems)) = Len(q.elems) - 1 /\ Len(q.elems) \in Nat
    BY <2>2
  <2> QED
    BY <1>p, <2>1, <2>3
<1>e. ASSUME NEW q \in QueueType, NEW cap \in Nat, NEW m \in Messages, CanEmplace(q, cap)
      PROVE  Len(Emplace(q, m).elems) <= cap
  <2>1. Emplace(q, m).elems = Append(q.elems, m) /\ q.elems \in Seq(Messages) /\ Len(q.elems) < cap
    BY ZenonT(30), <1>e, QueueOperations DEF QueueType, CanEmplace
  <2> QED
    BY <2>1
<1>i. ASSUME NEW q \in QueueType, NEW cap \in Nat, Len(q.elems) <= cap
      PROVE  Len(Interrupt(q).elems) <= cap /\ Len(Shut(q).elems) <= cap
             /\ \A p \in Interrupts(q) : Len(p.elems) <= cap
  <2>1. Interrupt(q).elems = q.elems /\ Shut(q).elems = q.elems
    BY DEF QueueType, Interrupt, Shut
  <2>2. \A p \in Interrupts(q) : p.elems = q.elems \/ p.elems = << >>
    BY QueueInterrupts
  <2> QED
    BY <1>i, <2>1, <2>2
<1>1. ASSUME NEW id \in Ids, NextReturns(id)
      PROVE  (\A i \in Ids : Len(iter'[i].elems) <= IterCap) /\ UNCHANGED <<queue, retrieveQueue, data>>
  <2>1. iter' = iter \/ (iter[id].elems # << >> /\ iter' = [iter EXCEPT ![id] = Popped(iter[id])])
    BY <1>1 DEF NextReturns
  <2> QED
    BY <1>1, <1>s, <1>t, <1>b, <1>p, <2>1 DEF NextReturns
<1>2. ASSUME NEW id \in Ids, ReadReturns(id)
      PROVE  Len(retrieveQueue'.elems) <= RetrieveCap /\ UNCHANGED <<queue, iter, data>>
  <2>1. retrieveQueue' = retrieveQueue
        \/ (retrieveQueue.elems # << >> /\ retrieveQueue' = Popped(retrieveQueue))
    BY <1>2 DEF ReadReturns
  <2> QED
    BY <1>2, <1>s, <1>t, <1>b, <1>p, <2>1 DEF ReadReturns
<1>3. ASSUME NEW id \in Ids, PumpPop(id)
      PROVE  (\A i \in Ids : Len(queue'[i].elems) <= QueueCap) /\ UNCHANGED <<iter, retrieveQueue, data>>
  <2>1. queue[id].elems # << >> /\ queue' = [queue EXCEPT ![id] = Popped(queue[id])]
    BY <1>3 DEF PumpPop
  <2> QED
    BY <1>3, <1>s, <1>t, <1>b, <1>p, <2>1 DEF PumpPop
<1>4. ASSUME NEW id \in Ids, PumpPush(id)
      PROVE  (\A i \in Ids : Len(iter'[i].elems) <= IterCap) /\ UNCHANGED <<queue, retrieveQueue, data>>
  <2>1. hand[id][1] \in Messages
    BY SMTT(30), <1>0, <1>4 DEF RTypes, PumpPush
  <2>2. iter' = iter \/ (CanEmplace(iter[id], IterCap) /\ iter' = [iter EXCEPT ![id] = Emplace(iter[id], hand[id][1])])
    BY <1>4 DEF PumpPush
  <2> QED
    BY <1>4, <1>s, <1>t, <1>b, <1>e, <2>1, <2>2 DEF PumpPush
<1>5. ASSUME NEW id \in Ids, PumpEnds(id)
      PROVE  (\A i \in Ids : Len(iter'[i].elems) <= IterCap) /\ UNCHANGED <<queue, retrieveQueue, data>>
  <2>1. PICK q \in IF queue[id].interrupted THEN Interrupts(iter[id]) ELSE {Shut(iter[id])} :
            iter' = [iter EXCEPT ![id] = q]
    BY <1>5 DEF PumpEnds
  <2>2. Len(q.elems) <= IterCap
    BY <1>s, <1>t, <1>b, <1>i, <2>1
  <2> QED
    BY <1>5, <1>t, <1>b, <2>1, <2>2 DEF PumpEnds
<1>6. ASSUME NEW id \in Ids, Drop(id)
      PROVE  (\A i \in Ids : Len(iter'[i].elems) <= IterCap) /\ UNCHANGED <<queue, retrieveQueue, data>>
  <2>1. iter' = [iter EXCEPT ![id] = IF iter[id].closed THEN iter[id] ELSE Interrupt(iter[id])]
    BY <1>6 DEF Drop
  <2>2. Len(Interrupt(iter[id]).elems) <= IterCap
    BY <1>s, <1>t, <1>b, <1>i
  <2> QED
    BY <1>6, <1>t, <1>b, <2>1, <2>2 DEF Drop, Begin
<1>7. CASE ListenerRead
  <2>1. PICK m \in Messages :
            /\ data # << >> /\ data' = Tail(data)
            /\ UNCHANGED <<client, iterators, server>>
            /\ \/ ReadsExit(m) \/ ReadsElement(m) \/ ReadsEnd(m)
               \/ ReadsArchiveError(m) \/ ReadsForHandle(m)
    BY <1>7, ListenerMoves DEF RTyped
  <2>2. Len(data') <= DataCap
    BY <1>s, <1>t, <1>b, <2>1
  <2>3. CASE ReadsExit(m) \/ ReadsArchiveError(m)
    BY <1>b, <2>1, <2>2, <2>3 DEF ReadsExit, ReadsArchiveError
  <2>4. CASE ReadsElement(m)
    <3>1. m.id \in Ids /\ Len(Emplace(queue[m.id], m).elems) <= QueueCap
        BY <1>0, <1>s, <1>t, <1>e, <2>4 DEF ReadsElement, RTypes
    <3> QED
        BY <1>t, <1>b, <2>1, <2>2, <2>4, <3>1 DEF ReadsElement
  <2>5. CASE ReadsEnd(m)
    <3>1. PICK q \in QueueType : queue' = [queue EXCEPT ![m.id] = q] /\ q.elems \in {queue[m.id].elems, << >>}
        BY <2>5 DEF ReadsEnd
    <3>2. m.id \in Ids /\ Len(q.elems) <= QueueCap
        BY SMTT(30), <1>0, <1>s, <1>b, <2>5, <3>1 DEF ReadsEnd, RTypes
    <3> QED
        BY <1>t, <1>b, <2>1, <2>2, <2>5, <3>1, <3>2 DEF ReadsEnd
  <2>6. CASE ReadsForHandle(m)
    <3>1. Len(retrieveQueue'.elems) <= RetrieveCap
        BY <1>s, <1>t, <1>e, <2>6 DEF ReadsForHandle
    <3> QED
        BY <1>b, <2>1, <2>2, <2>6, <3>1 DEF ReadsForHandle
  <2> QED
    BY <2>1, <2>3, <2>4, <2>5, <2>6
<1>8. CASE ListenerFails
  <2>1. \A i \in Ids : queue'[i] = queue[i] \/ queue'[i] = Interrupt(queue[i])
    BY <1>8 DEF ListenerFails
  <2>2. retrieveQueue' \in Interrupts(retrieveQueue) /\ UNCHANGED <<iter, data>>
    BY <1>8 DEF ListenerFails
  <2>3. \A i \in Ids : Len(queue'[i].elems) <= QueueCap
    BY <1>s, <1>t, <1>b, <1>i, <2>1
  <2> QED
    BY <1>s, <1>t, <1>b, <1>i, <2>2, <2>3
<1>9. ASSUME Len(data) < DataCap, NEW m, data' = Append(data, m), UNCHANGED <<queue, iter, retrieveQueue>>
      PROVE  Len(data') <= DataCap
    BY <1>9, <1>s, <1>t
<1>10. ASSUME NEW id \in Ids, WorkerSends(id) \/ ReaderSends \/ HandlerEnds \/ ArchiveError
       PROVE  Len(data') <= DataCap /\ UNCHANGED <<queue, iter, retrieveQueue>>
  <2>1. UNCHANGED <<queue, iter, retrieveQueue>>
    BY <1>10 DEF WorkerSends, ReaderSends, HandlerEnds, ArchiveError
  <2>2. Len(data) < DataCap /\ \E m : data' = Append(data, m)
    BY <1>10 DEF WorkerSends, ReaderSends, HandlerEnds, ArchiveError, Answer, Sends
  <2> QED
    BY <1>9, <2>1, <2>2
<1>11. ASSUME NEW id \in Ids, DropReturns(id) \/ Next_(id) \/ Read(id)
       PROVE  UNCHANGED <<queue, iter, retrieveQueue, data>>
    BY <1>11 DEF DropReturns, Next_, Read, Begin
<1>12. ASSUME \/ Disconnected \/ Disconnect \/ ResetArchive \/ DataHandle \/ ServerDies \/ DataHandleThrows
              \/ StartArchive \/ \E kind \in Kinds : Forward(kind) \/ ForwardThrows(kind)
       PROVE  UNCHANGED <<queue, iter, retrieveQueue, data>>
    BY <1>12 DEF Disconnected, Disconnect, ResetArchive, DataHandle, ServerDies, DataHandleThrows,
       StartArchive, Forward, ForwardThrows
<1>13. 1 \in Ids
    BY Sizes DEF Ids
<1> QED
    BY <1>b, <1>1, <1>2, <1>3, <1>4, <1>5, <1>6, <1>7, <1>8, <1>10, <1>11, <1>12, <1>13
       DEF Next, UserReturns, Threads

(* No more is owed than a request asks for, and the read thread has handles only. *)
LEMMA NextRBounds ==
    ASSUME SizeAssumption, RTyped, IterStreams, Next
    PROVE  RBounds'
<1> USE DEF client, queues, iterators, server
<1>0. RTypes /\ RTypes' /\ Handles \subseteq Handles' /\ readQueue \in Seq(Ids) /\ handles \in Seq(Ids)
      /\ left \in [Ids -> Nat] /\ left' \in [Ids -> Nat] /\ readQueue' \in Seq(Ids)
  <2>1. RTypes /\ RTypes' /\ Handles \subseteq Handles'
    BY NumberTypes, Grows
  <2> QED
    BY <2>1 DEF RTypes
<1>1. ASSUME NEW id \in Ids PROVE left'[id] <= IF IsIterator(id)' THEN Elements + 1 ELSE Chunks + 1
  <2>1. left[id] <= IF IsIterator(id) THEN Elements + 1 ELSE Chunks + 1
    BY DEF RTyped, RBounds
  <2>n. left[id] \in Nat /\ left'[id] \in Nat /\ Elements + 1 \in Nat /\ Chunks + 1 \in Nat
    BY <1>0, Sizes
  <2>l. left'[id] <= left[id] \/ (id = nextId /\ DataHandle /\ left'[id] = Chunks + 1)
        \/ (id = nextId /\ left'[id] = Elements + 1 /\ \E kind \in Kinds : Forward(kind))
    BY <2>n, LeftChanges
  <2>2. CASE ~IsIterator(id) /\ IsIterator(id)'
    <3>1. id = nextId
      <4>1. Makes
        BY <2>2, OthersKeepRequests DEF KeepsRequests
      <4>2. pump' = pump \/ pump' = [pump EXCEPT ![nextId] = "run"]
        BY <4>1 DEF Makes, Forward, ForwardThrows, DataHandle, DataHandleThrows, StartArchive
      <4> QED
        BY <1>0, <2>2, <4>2 DEF IsIterator, RTypes
    <3>2. left[id] = 0
        BY <3>1, NumberTypes DEF RTyped, RequestKinds, Fresh
    <3>3. ~DataHandle
        BY <2>2 DEF DataHandle, IsIterator
    <3> QED
        BY <2>n, <2>l, <2>2, <3>2, <3>3
  <2>3. CASE IsIterator(id) <=> IsIterator(id)'
    <3>1. CASE id = nextId
      <4>1. ~IsIterator(id)
        BY <3>1, NumberTypes DEF Numbers
      <4>2. ASSUME NEW kind, Forward(kind) PROVE IsIterator(id)'
        BY <1>0, <3>1, <4>2 DEF Forward, IsIterator, RTypes
      <4> QED
        BY <2>n, <2>l, <2>1, <2>3, <4>1, <4>2
    <3>2. CASE id # nextId
      <4>1. left'[id] <= left[id]
        BY <2>l, <3>2
      <4> QED
        BY <2>n, <2>1, <2>3, <4>1
    <3> QED
        BY <3>1, <3>2
  <2> QED
    BY <2>2, <2>3, Grows
<1>2. \A i \in 1..Len(readQueue') : readQueue'[i] \in Handles'
  <2>1. \A i \in 1..Len(readQueue) : readQueue[i] \in Handles'
    BY <1>0 DEF RTyped, RBounds
  <2>2. CASE DataHandle
    <3>1. readQueue' = Append(readQueue, nextId) /\ nextId \in Handles'
        BY <1>0, <2>2, MoreHandles DEF DataHandle
    <3> QED
        BY <1>0, <2>1, <3>1
  <2>3. CASE ServerDies
    BY <2>3 DEF ServerDies
  <2>4. CASE ReaderSends
    <3>1. readQueue' = readQueue \/ (readQueue # << >> /\ readQueue' = Tail(readQueue))
        BY <2>4 DEF ReaderSends, Answer
    <3>2. ASSUME readQueue # << >>, readQueue' = Tail(readQueue), NEW i \in 1..Len(readQueue')
          PROVE  readQueue'[i] \in Handles'
      <4>1. i + 1 \in 1..Len(readQueue) /\ readQueue'[i] = readQueue[i + 1]
        BY <1>0, <3>2
      <4> QED
        BY <2>1, <4>1
    <3> QED
        BY <2>1, <3>1, <3>2
  <2>5. ASSUME NEW id \in Ids, WorkerSends(id) PROVE readQueue' = readQueue
    BY <2>5 DEF WorkerSends, Answer
  <2>6. ASSUME NEW k \in Ids, NextReturns(k) \/ DropReturns(k) \/ ReadReturns(k) \/ PumpPop(k) \/ PumpPush(k)
                              \/ PumpEnds(k) \/ Next_(k) \/ Drop(k) \/ Read(k)
        PROVE  readQueue' = readQueue
    BY <2>6 DEF NextReturns, DropReturns, ReadReturns, PumpPop, PumpPush, PumpEnds, Next_, Drop, Read, Begin
  <2>7. ASSUME \/ Disconnected \/ Disconnect \/ ResetArchive \/ HandlerEnds \/ ListenerRead \/ ListenerFails
               \/ DataHandleThrows \/ StartArchive \/ ArchiveError
               \/ \E kind \in Kinds : Forward(kind) \/ ForwardThrows(kind)
        PROVE  readQueue' = readQueue
    BY <2>7 DEF Disconnected, Disconnect, ResetArchive, HandlerEnds, ListenerRead, ListenerFails,
       DataHandleThrows, StartArchive, ArchiveError, Forward, ForwardThrows
  <2> QED
    BY <2>1, <2>2, <2>3, <2>4, <2>5, <2>6, <2>7 DEF Next, UserReturns, Threads
<1> QED
    BY <1>1, <1>2, NextQueueBounds DEF RBounds, IsIterator, Handles

-------------------------------------------------------------------------------
(* The user's call, and the death of the server. *)

(* While the user waits in a call, what the call is about stays. *)
LEMMA CallStays ==
    ASSUME SizeAssumption, RTyped, Next, user' = user, user # Idle
    PROVE  UserShape'
<1> USE DEF client, queues, iterators, server
<1>0. RTypes /\ UserShape
    BY DEF RTyped
<1>1. handles' = handles /\ \A id \in Ids : over'[id] = over[id] \/ (over[id] = "archive" /\ over'[id] = "failed")
  <2>1. CASE ArchiveError
    BY <1>0, <2>1 DEF ArchiveError, RTypes
  <2>2. CASE over' = over /\ handles' = handles
    BY <2>2
  <2>3. ASSUME NEW id \in Ids, NextReturns(id) \/ DropReturns(id) \/ ReadReturns(id) \/ Disconnected PROVE FALSE
    BY <2>3 DEF NextReturns, DropReturns, ReadReturns, Disconnected, Returns
  <2>4. ASSUME NEW id \in Ids, Next_(id) \/ Drop(id) \/ Read(id) PROVE FALSE
    BY <2>4 DEF Next_, Drop, Read, Begin
  <2>5. ASSUME NEW kind, Forward(kind) \/ ForwardThrows(kind) \/ DataHandle \/ DataHandleThrows \/ StartArchive
               \/ Disconnect \/ ResetArchive PROVE FALSE
    BY <2>5 DEF Forward, ForwardThrows, DataHandle, DataHandleThrows, StartArchive, Disconnect, ResetArchive, Free
  <2>6. ASSUME NEW id \in Ids, PumpPop(id) \/ PumpPush(id) \/ PumpEnds(id) \/ WorkerSends(id)
        PROVE  over' = over /\ handles' = handles
    BY <2>6 DEF PumpPop, PumpPush, PumpEnds, WorkerSends
  <2>7. ASSUME ListenerRead \/ ListenerFails \/ ReaderSends \/ HandlerEnds \/ ServerDies
        PROVE  over' = over /\ handles' = handles
    BY <2>7 DEF ListenerRead, ListenerFails, ReaderSends, HandlerEnds, ServerDies
  <2>8. 1 \in Ids
    BY Sizes DEF Ids
  <2> QED
    BY <2>1, <2>2, <2>3, <2>4, <2>5, <2>6, <2>7, <2>8 DEF Next, UserReturns, Threads
<1>2. \A id \in Ids : IsIterator(id) => IsIterator(id)'
    BY Grows
<1>3. user.op = "next" => user.id \in Ids /\ IsIterator(user.id) /\ over[user.id] = "open"
    BY <1>0 DEF UserShape
<1>4. user.op = "drop" => user.id \in Ids /\ IsIterator(user.id)
    BY <1>0 DEF UserShape
<1>5. ASSUME user.op = "read"
      PROVE  \E r \in 1..Len(handles) :
                 /\ handles[r] = user.id /\ over'[user.id] = "open"
                 /\ \A j \in 1..Len(handles) : j < r => over'[handles[j]] # "open"
  <2>1. PICK r \in 1..Len(handles) :
            /\ handles[r] = user.id /\ over[user.id] = "open"
            /\ \A j \in 1..Len(handles) : j < r => over[handles[j]] # "open"
    BY <1>0, <1>5 DEF UserShape
  <2>2. \A j \in 1..Len(handles) : handles[j] \in Ids
    BY SMTT(30), <1>0 DEF RTypes
  <2> QED
    BY SMTT(30), <1>1, <2>1, <2>2
<1>6. user.op = "next" \/ user.op = "drop" => pump'[user.id] # "none"
    BY <1>2, <1>3, <1>4 DEF IsIterator
<1> QED
    BY <1>1, <1>3, <1>4, <1>5, <1>6 DEF UserShape, IsIterator

(* Every step keeps what the user waits for. *)
LEMMA NextUserShape ==
    ASSUME SizeAssumption, ~ReadsAgain, RTyped, Next
    PROVE  UserShape'
<1> USE DEF client, queues, iterators, server
<1>0. RTypes
    BY DEF RTyped
<1>1. CASE user' = user /\ user # Idle
    BY <1>1, CallStays
<1>2. CASE user' = Idle
    BY <1>2 DEF UserShape, Idle
<1>3. CASE Disconnect
    BY <1>3 DEF Disconnect, UserShape
<1>4. ASSUME NEW id \in Ids, Next_(id) PROVE UserShape'
    BY <1>4 DEF Next_, Begin, UserShape, IsIterator
<1>5. ASSUME NEW id \in Ids, Drop(id) PROVE UserShape'
    BY <1>5 DEF Drop, Begin, UserShape, IsIterator
<1>6. ASSUME NEW id \in Ids, Read(id) PROVE UserShape'
  <2>1. PICK i \in 1..Len(handles) :
            handles[i] = id /\ over[id] = "open" /\ \A j \in 1..i - 1 : over[handles[j]] # "open"
    <3>1. DOMAIN handles = 1..Len(handles)
        BY <1>0 DEF RTypes
    <3> QED
        BY <1>6, <3>1 DEF Read
  <2>2. user' = [op |-> "read", id |-> id] /\ UNCHANGED <<handles, over>>
    BY <1>6 DEF Read, Begin
  <2>3. \A j \in 1..Len(handles) : j < i => over[handles[j]] # "open"
    BY <2>1
  <2> QED
    BY <2>1, <2>2, <2>3 DEF UserShape
<1>7. user' = user \/ user' = Idle \/ Disconnect \/ \E id \in Ids : Next_(id) \/ Drop(id) \/ Read(id)
  <2>1. ASSUME NEW id \in Ids, NextReturns(id) \/ DropReturns(id) \/ ReadReturns(id) \/ Disconnected
        PROVE  user' = Idle
    BY <2>1 DEF NextReturns, DropReturns, ReadReturns, Disconnected, Returns
  <2>2. ASSUME NEW id \in Ids, PumpPop(id) \/ PumpPush(id) \/ PumpEnds(id) \/ WorkerSends(id) PROVE user' = user
    BY <2>2 DEF PumpPop, PumpPush, PumpEnds, WorkerSends
  <2>3. ASSUME \/ ListenerRead \/ ListenerFails \/ ReaderSends \/ HandlerEnds \/ ServerDies
               \/ DataHandle \/ DataHandleThrows \/ StartArchive \/ ResetArchive \/ ArchiveError
               \/ \E kind \in Kinds : Forward(kind) \/ ForwardThrows(kind)
        PROVE  user' = user
    BY <2>3 DEF ListenerRead, ListenerFails, ReaderSends, HandlerEnds, ServerDies, DataHandle,
       DataHandleThrows, StartArchive, ResetArchive, ArchiveError, Forward, ForwardThrows
  <2>8. 1 \in Ids
    BY Sizes DEF Ids
  <2> QED
    BY <2>1, <2>2, <2>3, <2>8 DEF Next, UserReturns, Threads
<1> QED
    BY <1>1, <1>2, <1>3, <1>4, <1>5, <1>6, <1>7

(* The queue of the handles is read and filled, and otherwise left alone. *)
LEMMA RetrieveQueueChanges ==
    ASSUME SizeAssumption, RTyped, Next, ~ListenerFails
    PROVE  \/ retrieveQueue' = retrieveQueue
           \/ \E id \in Ids : /\ ReadReturns(id) /\ retrieveQueue.elems # << >>
                             /\ retrieveQueue' = Popped(retrieveQueue)
           \/ ListenerRead /\ \E m \in Messages : retrieveQueue' = Emplace(retrieveQueue, m)
<1> USE DEF client, queues, iterators, server
<1>1. CASE ListenerRead
  <2>1. PICK m \in Messages :
            \/ ReadsExit(m) \/ ReadsElement(m) \/ ReadsEnd(m) \/ ReadsArchiveError(m) \/ ReadsForHandle(m)
    BY <1>1, ListenerMoves DEF RTyped
  <2> QED
    BY <1>1, <2>1 DEF ReadsExit, ReadsElement, ReadsEnd, ReadsArchiveError, ReadsForHandle
<1>2. ASSUME NEW id \in Ids, ReadReturns(id)
      PROVE  retrieveQueue' = retrieveQueue
             \/ (retrieveQueue.elems # << >> /\ retrieveQueue' = Popped(retrieveQueue))
    BY <1>2 DEF ReadReturns
<1>3. ASSUME NEW k \in Ids, NextReturns(k) \/ DropReturns(k) \/ WorkerSends(k) \/ PumpPop(k)
                            \/ PumpPush(k) \/ PumpEnds(k) \/ Next_(k) \/ Drop(k) \/ Read(k)
      PROVE  retrieveQueue' = retrieveQueue
    BY <1>3 DEF NextReturns, DropReturns, WorkerSends, PumpPop, PumpPush, PumpEnds, Next_, Drop, Read, Begin
<1>4. ASSUME \/ Disconnected \/ ResetArchive \/ ArchiveError \/ StartArchive \/ Disconnect
             \/ DataHandleThrows \/ ReaderSends \/ ServerDies \/ HandlerEnds \/ DataHandle
             \/ \E kind \in Kinds : Forward(kind) \/ ForwardThrows(kind)
      PROVE  retrieveQueue' = retrieveQueue
    BY <1>4 DEF Disconnected, ResetArchive, ArchiveError, StartArchive, Disconnect, DataHandleThrows,
       ReaderSends, ServerDies, HandlerEnds, DataHandle, Forward, ForwardThrows
<1> QED
    BY <1>1, <1>2, <1>3, <1>4 DEF Next, UserReturns, Threads

(* A server that has died sends nothing more, and the queue is interrupted for no other reason. *)
LEMMA NextDeadIsSilent ==
    ASSUME SizeAssumption, RTyped, Next
    PROVE  DeadIsSilent'
<1> USE DEF client, queues, iterators, server
<1>0. RTypes /\ RTypes' /\ DeadIsSilent
    BY NumberTypes DEF RTyped
<1>l. left \in [Ids -> Nat] /\ left' \in [Ids -> Nat] /\ readQueue \in Seq(Ids)
      /\ retrieveQueue \in QueueType /\ retrieveQueue' \in QueueType
    BY <1>0 DEF RTypes
<1>1. CASE session = "dead" /\ ~ListenerFails
  <2>1. session' = "dead" /\ readQueue' = readQueue
    <3>1. ASSUME NEW id \in Ids, WorkerSends(id) PROVE FALSE
        BY <1>0, <1>1, <3>1 DEF WorkerSends, Answer, DeadIsSilent
    <3>2. ASSUME ReaderSends \/ ServerDies \/ HandlerEnds \/ DataHandle PROVE FALSE
        BY <1>0, <1>1, <3>2 DEF ReaderSends, ServerDies, HandlerEnds, DataHandle, DeadIsSilent
    <3>3. ASSUME NEW k \in Ids, NextReturns(k) \/ DropReturns(k) \/ ReadReturns(k) \/ PumpPop(k)
                                \/ PumpPush(k) \/ PumpEnds(k) \/ Next_(k) \/ Drop(k) \/ Read(k)
          PROVE  UNCHANGED <<session, readQueue>>
        BY <3>3 DEF NextReturns, DropReturns, ReadReturns, PumpPop, PumpPush, PumpEnds, Next_, Drop, Read, Begin
    <3>4. ASSUME \/ Disconnected \/ ResetArchive \/ ListenerRead \/ ArchiveError \/ StartArchive
                 \/ \E kind \in Kinds : Forward(kind)
          PROVE  UNCHANGED <<session, readQueue>>
        BY <3>4 DEF Disconnected, ResetArchive, ListenerRead, ArchiveError, StartArchive, Forward
    <3>5. ASSUME Disconnect \/ DataHandleThrows \/ \E kind \in Kinds : ForwardThrows(kind)
          PROVE  session' = "dead" /\ readQueue' = readQueue
        BY <1>1, <3>5 DEF Disconnect, DataHandleThrows, ForwardThrows
    <3> QED
        BY <1>1, <3>1, <3>2, <3>3, <3>4, <3>5 DEF Next, UserReturns, Threads
  <2>2. \A id \in Ids : left'[id] = 0
    <3>1. \A id \in Ids : left[id] = 0
        BY <1>0, <1>1 DEF DeadIsSilent
    <3>2. ~DataHandle /\ \A kind : ~Forward(kind)
        BY <1>1 DEF DataHandle, Forward
    <3> QED
        BY <1>l, <3>1, <3>2, LeftChanges
  <2>3. retrieveQueue'.interrupted => retrieveQueue.interrupted
    <3>1. CASE retrieveQueue' = retrieveQueue
        BY <3>1
    <3>2. ASSUME NEW id \in Ids, ReadReturns(id), retrieveQueue.elems # << >>, retrieveQueue' = Popped(retrieveQueue)
          PROVE  retrieveQueue'.interrupted = retrieveQueue.interrupted
        BY <1>l, <3>2, QueuePops
    <3>3. ASSUME ListenerRead, NEW m \in Messages, retrieveQueue' = Emplace(retrieveQueue, m)
          PROVE  retrieveQueue'.interrupted = retrieveQueue.interrupted
        BY <1>l, <3>3, QueueOperations
    <3> QED
        BY <1>1, <3>1, <3>2, <3>3, RetrieveQueueChanges
  <2>4. data = << >> /\ listener = "ended" => data' = << >> /\ listener' = "ended"
    <3>0. ASSUME NEW id \in Ids, WorkerSends(id) PROVE FALSE
        BY <1>0, <1>1, <3>0 DEF WorkerSends, Answer, DeadIsSilent
    <3>2. ASSUME ReaderSends \/ ServerDies \/ HandlerEnds \/ DataHandle \/ ArchiveError PROVE FALSE
        BY <1>0, <1>1, <3>2 DEF ReaderSends, ServerDies, HandlerEnds, DataHandle, ArchiveError, DeadIsSilent
    <3>3. ASSUME NEW k \in Ids, NextReturns(k) \/ DropReturns(k) \/ ReadReturns(k) \/ PumpPop(k)
                                \/ PumpPush(k) \/ PumpEnds(k) \/ Next_(k) \/ Drop(k) \/ Read(k)
          PROVE  UNCHANGED <<data, listener>>
        BY <3>3 DEF NextReturns, DropReturns, ReadReturns, PumpPop, PumpPush, PumpEnds, Next_, Drop, Read, Begin
    <3>4. ASSUME \/ Disconnected \/ ResetArchive \/ StartArchive \/ Disconnect \/ DataHandleThrows
                 \/ \E kind \in Kinds : Forward(kind) \/ ForwardThrows(kind)
          PROVE  UNCHANGED <<data, listener>>
        BY <3>4 DEF Disconnected, ResetArchive, StartArchive, Forward, Disconnect, DataHandleThrows, ForwardThrows
    <3>5. ListenerRead => listener = "run"
        BY DEF ListenerRead
    <3> QED
        BY <1>1, <3>0, <3>2, <3>3, <3>4, <3>5 DEF Next, UserReturns, Threads
  <2> QED
    BY <1>0, <1>1, <2>1, <2>2, <2>3, <2>4 DEF DeadIsSilent
<1>2. CASE ListenerFails
  <2>1. /\ session = "dead" /\ data' = << >> /\ listener' = "ended" /\ UNCHANGED <<session, left, readQueue>>
    BY <1>2 DEF ListenerFails
  <2> QED
    BY <1>0, <2>1 DEF DeadIsSilent
<1>3. CASE session # "dead" /\ ~ListenerFails
  <2>1. ~retrieveQueue'.interrupted
    <3>0. ~retrieveQueue.interrupted
        BY <1>0, <1>3 DEF DeadIsSilent
    <3>2. retrieveQueue.elems # << >> => Popped(retrieveQueue).interrupted = retrieveQueue.interrupted
        BY <1>l, QueuePops
    <3>3. \A m \in Messages : Emplace(retrieveQueue, m).interrupted = retrieveQueue.interrupted
        BY <1>l, QueueOperations
    <3> QED
        BY <1>3, <3>0, <3>2, <3>3, RetrieveQueueChanges
  <2>2. session' = "dead" => ServerDies
    <3>1. ASSUME NEW k \in Ids, NextReturns(k) \/ DropReturns(k) \/ ReadReturns(k) \/ PumpPop(k) \/ WorkerSends(k)
                                \/ PumpPush(k) \/ PumpEnds(k) \/ Next_(k) \/ Drop(k) \/ Read(k)
          PROVE  session' = session
        BY <3>1 DEF NextReturns, DropReturns, ReadReturns, PumpPop, PumpPush, PumpEnds, Next_, Drop, Read, Begin,
           WorkerSends
    <3>2. ASSUME \/ Disconnected \/ ResetArchive \/ ListenerRead \/ ArchiveError \/ StartArchive \/ ReaderSends
                 \/ DataHandle \/ \E kind \in Kinds : Forward(kind)
          PROVE  session' = session
        BY <3>2 DEF Disconnected, ResetArchive, ListenerRead, ArchiveError, StartArchive, Forward, ReaderSends,
           DataHandle
    <3>3. ASSUME Disconnect \/ DataHandleThrows \/ HandlerEnds \/ \E kind \in Kinds : ForwardThrows(kind)
          PROVE  session' # "dead"
        BY <1>3, <3>3 DEF Disconnect, DataHandleThrows, HandlerEnds, ForwardThrows
    <3> QED
        BY <1>3, <3>1, <3>2, <3>3 DEF Next, UserReturns, Threads
  <2>3. ServerDies => readQueue' = << >> /\ \A id \in Ids : left'[id] = 0
    BY DEF ServerDies
  <2> QED
    BY <2>1, <2>2, <2>3 DEF DeadIsSilent
<1> QED
    BY <1>1, <1>2, <1>3

-------------------------------------------------------------------------------
(* An iterator and its thread. *)

(* One element more at the end, and one less at the front. *)
LEMMA BlobsAppend ==
    ASSUME NEW ms \in Seq(Messages), NEW id, NEW n \in Nat, Blobs(ms, id, n),
           NEW m, m = Blob(id, n + Len(ms) + 1)
    PROVE  Blobs(Append(ms, m), id, n) /\ Len(Append(ms, m)) = Len(ms) + 1
<1>1. PICK k \in Nat : k = Len(ms)
    OBVIOUS
<1>2. /\ Len(Append(ms, m)) = k + 1 /\ Append(ms, m)[k + 1] = m
      /\ \A j \in 1..k : Append(ms, m)[j] = ms[j]
    BY <1>1
<1>3. ASSUME NEW j \in 1..k + 1 PROVE Append(ms, m)[j] = Blob(id, n + j)
  <2>1. CASE j = k + 1
    <3>1. n + j = n + Len(ms) + 1
        BY <1>1, <2>1
    <3> QED
        BY <1>2, <2>1, <3>1
  <2>2. CASE j \in 1..k
    BY <1>1, <1>2, <2>2 DEF Blobs
  <2> QED
    BY <1>1, <2>1, <2>2
<1> QED
    BY <1>1, <1>2, <1>3 DEF Blobs

(* Without their first one they are the elements from the next one on. *)
LEMMA BlobsTail ==
    ASSUME NEW ms \in Seq(Messages), ms # << >>, NEW id, NEW n \in Nat, Blobs(ms, id, n)
    PROVE  /\ Head(ms) = Blob(id, n + 1) /\ Blobs(Tail(ms), id, n + 1)
           /\ Len(ms) = Len(Tail(ms)) + 1 /\ Len(Tail(ms)) \in Nat
<1>1. PICK k \in Nat : Len(ms) = k + 1
  <2>1. Len(ms) \in Nat /\ Len(ms) # 0
    OBVIOUS
  <2> QED
    BY <2>1
<1>2. Len(Tail(ms)) = k /\ Head(ms) = ms[1] /\ \A j \in 1..k : Tail(ms)[j] = ms[j + 1]
    BY <1>1
<1>3. 1 \in 1..Len(ms)
    BY <1>1
<1>4. ASSUME NEW j \in 1..k PROVE Tail(ms)[j] = Blob(id, (n + 1) + j)
  <2>1. j + 1 \in 1..Len(ms) /\ n + (j + 1) = (n + 1) + j
    BY <1>1
  <2> QED
    BY <1>2, <2>1 DEF Blobs
<1> QED
    BY <1>1, <1>2, <1>3, <1>4 DEF Blobs

(* Sums of lengths. *)
LEMMA Sums ==
    ASSUME NEW a \in Nat, NEW b \in Nat
    PROVE  /\ (a + 1) + b = a + (b + 1) /\ (a + b) + 1 = a + (b + 1) /\ a + 0 = a
           /\ a + b \in Nat /\ a + 1 \in Nat
OBVIOUS

(* A step that leaves an iterator alone. *)
Unmoved(id) ==
    /\ got'[id] = got[id] /\ iter'[id] = iter[id] /\ hand'[id] = hand[id] /\ pump'[id] = pump[id]
    /\ queue'[id] = queue[id] /\ (over'[id] = "ended" => over[id] = "ended")

(* Its elements are as they were. *)
LEMMA UnmovedShape ==
    ASSUME NEW id \in Ids, IterShape(id), Unmoved(id)
    PROVE  IterShape(id)' /\ Passed(id)' = Passed(id) /\ Taken(id)' = Taken(id)
<1>1. Passed(id)' = Passed(id) /\ Taken(id)' = Taken(id)
    BY DEF Unmoved, Passed, Taken
<1> QED
    BY <1>1 DEF Unmoved, IterShape

(* next() gives the first element of the iterator's queue. *)
LEMMA NextGives ==
    ASSUME RTypes, NEW id \in Ids, IterShape(id), over[id] = "open", NextReturns(id)
    PROVE  IterShape(id)' /\ Passed(id)' = Passed(id)
<1> USE DEF client, queues, iterators, server
<1>0. /\ got \in [Ids -> Seq(Messages)] /\ iter \in [Ids -> QueueType] /\ over[id] = "open"
      /\ over \in [Ids -> {"none", "open", "ended", "failed", "dropped", "archive"}]
      /\ UNCHANGED <<queue, pump, hand>>
    BY DEF RTypes, NextReturns
<1>n. /\ Len(got[id]) \in Nat /\ Len(iter[id].elems) \in Nat /\ got[id] \in Seq(Messages)
      /\ iter[id].elems \in Seq(Messages)
    BY <1>0, Counted DEF RTypes
<1>1. CASE /\ iter[id].elems # << >> /\ UNCHANGED over
           /\ got' = [got EXCEPT ![id] = Append(@, Head(iter[id].elems))]
           /\ iter' = [iter EXCEPT ![id] = Popped(@)]
  <2>1. /\ got'[id] = Append(got[id], iter[id].elems[1]) /\ iter'[id].elems = Tail(iter[id].elems)
        /\ iter'[id].closed = iter[id].closed /\ iter'[id].interrupted = iter[id].interrupted
    BY <1>0, <1>1, <1>n, QueuePops
  <2>2. /\ iter[id].elems[1] = Blob(id, Len(got[id]) + 1) /\ Blobs(iter'[id].elems, id, Len(got[id]) + 1)
        /\ Len(iter[id].elems) = Len(iter'[id].elems) + 1 /\ Len(iter'[id].elems) \in Nat
    <3>1. Blobs(iter[id].elems, id, Len(got[id]))
        BY DEF IterShape
    <3>2. Head(iter[id].elems) = iter[id].elems[1]
        BY <1>1, <1>n
    <3> QED
        BY <1>1, <1>n, <2>1, <3>1, <3>2, BlobsTail
  <2>3. Blobs(got'[id], id, 0) /\ Len(got'[id]) = Len(got[id]) + 1
    <3>1. Blobs(got[id], id, 0)
        BY DEF IterShape
    <3>2. 0 + Len(got[id]) + 1 = Len(got[id]) + 1 /\ 0 \in Nat
        BY <1>n
    <3> QED
        BY <1>n, <2>1, <2>2, <3>1, <3>2, BlobsAppend
  <2>4. Passed(id)' = Passed(id)
    <3>1. (Len(got[id]) + 1) + Len(iter'[id].elems) = Len(got[id]) + (Len(iter'[id].elems) + 1)
        BY <1>n, <2>2, Sums
    <3> QED
        BY <2>2, <2>3, <3>1 DEF Passed
  <2>5. Taken(id)' = Taken(id)
    BY <1>0, <2>4 DEF Taken
  <2>8. over'[id] # "ended"
    BY <1>0, <1>1
  <2> QED
    BY <1>0, <2>1, <2>2, <2>3, <2>4, <2>5, <2>8 DEF IterShape
<1>2. CASE AtEnd(iter[id]) /\ over' = [over EXCEPT ![id] = "ended"] /\ UNCHANGED <<got, iter>>
  <2>1. Len(got[id]) = Elements
    BY <1>2, <1>n DEF AtEnd, IterShape, Passed
  <2>2. Passed(id)' = Passed(id) /\ Taken(id)' = Taken(id)
    BY <1>0, <1>2 DEF Passed, Taken
  <2> QED
    BY <1>0, <1>2, <2>1, <2>2 DEF IterShape
<1>3. CASE over' = [over EXCEPT ![id] = "failed"] /\ UNCHANGED <<got, iter>>
  <2>1. Unmoved(id)
    BY <1>0, <1>3 DEF Unmoved
  <2> QED
    BY <2>1, UnmovedShape
<1> QED
    BY <1>1, <1>2, <1>3 DEF NextReturns

(* The iterator is interrupted, by its destruction. *)
LEMMA DropInterrupts ==
    ASSUME RTypes, NEW id \in Ids, IterShape(id), Drop(id)
    PROVE  IterShape(id)' /\ Passed(id)' = Passed(id) /\ Taken(id)' = Taken(id)
<1> USE DEF client, queues, iterators, server
<1>0. iter \in [Ids -> QueueType] /\ UNCHANGED <<got, over, queue, pump, hand>>
    BY DEF RTypes, Drop, Begin
<1>1. /\ iter'[id].elems = iter[id].elems
      /\ iter'[id].closed /\ ~iter'[id].interrupted => iter[id].closed /\ ~iter[id].interrupted
    <2>1. CASE iter[id].closed
        BY <1>0, <2>1 DEF Drop
    <2>2. CASE ~iter[id].closed
        BY <1>0, <2>2 DEF Drop, Interrupt, QueueType
    <2> QED
        BY <2>1, <2>2
<1>2. Passed(id)' = Passed(id) /\ Taken(id)' = Taken(id)
    BY <1>0, <1>1 DEF Passed, Taken
<1> QED
    BY <1>0, <1>1, <1>2 DEF IterShape

(* The iterator's thread takes an element, passes it on, and ends. *)
LEMMA PumpTakes ==
    ASSUME RTypes, NEW id \in Ids, IterShape(id), PumpPop(id)
    PROVE  IterShape(id)' /\ Taken(id)' = Taken(id)
<1> USE DEF client, queues, iterators, server
<1>0. /\ queue \in [Ids -> QueueType] /\ hand \in [Ids -> Seq(Messages)] /\ UNCHANGED <<got, over, iter, pump>>
      /\ pump[id] = "run" /\ hand[id] = << >> /\ queue[id].elems # << >>
      /\ hand'[id] = << Head(queue[id].elems) >> /\ queue'[id] = Popped(queue[id])
    BY DEF RTypes, PumpPop
<1>n. Len(queue[id].elems) \in Nat /\ queue[id].elems \in Seq(Messages) /\ Passed(id) \in Nat
    BY Counted
<1>1. /\ queue'[id].elems = Tail(queue[id].elems)
      /\ queue'[id].closed = queue[id].closed /\ queue'[id].interrupted = queue[id].interrupted
    BY <1>0, QueuePops
<1>2. Passed(id)' = Passed(id)
    BY <1>0 DEF Passed
<1>3. /\ Len(hand[id]) = 0 /\ Len(hand'[id]) = 1 /\ hand'[id][1] = Head(queue[id].elems)
    BY <1>0
<1>4. /\ Head(queue[id].elems) = Blob(id, Passed(id) + 1) /\ Blobs(queue'[id].elems, id, Passed(id) + 1)
      /\ Len(queue[id].elems) = Len(queue'[id].elems) + 1 /\ Len(queue'[id].elems) \in Nat
  <2>1. Passed(id) + Len(hand[id]) = Passed(id)
    BY <1>n, <1>3
  <2>2. Blobs(queue[id].elems, id, Passed(id))
    BY <1>0, <2>1 DEF IterShape
  <2> QED
    BY <1>0, <1>1, <1>n, <2>2, BlobsTail
<1>5. Blobs(hand'[id], id, Passed(id))
    BY <1>3, <1>4 DEF Blobs
<1>6. Taken(id)' = Taken(id)
  <2>1. (Passed(id) + 1) + Len(queue'[id].elems) = Passed(id) + (Len(queue'[id].elems) + 1)
        /\ Passed(id) + 0 = Passed(id)
    BY <1>n, <1>4, Sums
  <2> QED
    BY <1>2, <1>3, <1>4, <2>1 DEF Taken
<1> QED
    BY <1>0, <1>1, <1>2, <1>3, <1>4, <1>5, <1>6 DEF IterShape

(* The element in hand goes to the queue of the iterator. *)
LEMMA PumpPasses ==
    ASSUME RTypes, NEW id \in Ids, IterShape(id), PumpPush(id)
    PROVE  IterShape(id)' /\ (pump'[id] = "run" => Taken(id)' = Taken(id))
<1> USE DEF client, queues, iterators, server
<1>0. /\ iter \in [Ids -> QueueType] /\ hand \in [Ids -> Seq(Messages)] /\ UNCHANGED <<got, over, queue>>
      /\ pump \in [Ids -> {"none", "run", "ended"}]
      /\ pump[id] = "run" /\ hand[id] # << >> /\ hand'[id] = << >>
    BY DEF RTypes, PumpPush
<1>n. /\ Len(iter[id].elems) \in Nat /\ iter[id].elems \in Seq(Messages) /\ Len(got[id]) \in Nat
      /\ Passed(id) \in Nat /\ Len(queue[id].elems) \in Nat
    BY Counted
<1>h. Len(hand[id]) = 1 /\ hand[id][1] = Blob(id, Passed(id) + 1) /\ hand[id][1] \in Messages
  <2>1. Len(hand[id]) = 1 /\ Blobs(hand[id], id, Passed(id))
    BY <1>0 DEF IterShape
  <2>2. 1 \in 1..Len(hand[id]) /\ hand[id] \in Seq(Messages)
    BY <1>0, <2>1
  <2> QED
    BY <2>1, <2>2 DEF Blobs
<1>l. Len(hand'[id]) = 0
    BY <1>0
<1>1. CASE CanEmplace(iter[id], IterCap) /\ iter' = [iter EXCEPT ![id] = Emplace(@, hand[id][1])] /\ UNCHANGED pump
  <2>1. iter'[id].elems = Append(iter[id].elems, hand[id][1]) /\ ~iter'[id].closed
    BY <1>0, <1>1, <1>h, QueueOperations DEF CanEmplace
  <2>2. Blobs(iter'[id].elems, id, Len(got[id])) /\ Len(iter'[id].elems) = Len(iter[id].elems) + 1
    <3>1. Blobs(iter[id].elems, id, Len(got[id]))
        BY DEF IterShape
    <3>2. hand[id][1] = Blob(id, Len(got[id]) + Len(iter[id].elems) + 1)
        BY <1>h DEF Passed
    <3>3. /\ Blobs(Append(iter[id].elems, hand[id][1]), id, Len(got[id]))
          /\ Len(Append(iter[id].elems, hand[id][1])) = Len(iter[id].elems) + 1
      <4>1. PICK ms \in Seq(Messages) : ms = iter[id].elems
        BY <1>n
      <4>2. PICK n \in Nat : n = Len(got[id])
        BY <1>n
      <4>3. PICK m : m = hand[id][1]
        OBVIOUS
      <4>4. ms \in Seq(Messages) /\ n \in Nat /\ Blobs(ms, id, n) /\ m = Blob(id, n + Len(ms) + 1)
        BY <3>1, <3>2, <4>1, <4>2, <4>3
      <4>5. Blobs(Append(ms, m), id, n) /\ Len(Append(ms, m)) = Len(ms) + 1
        BY <4>4, BlobsAppend
      <4> QED
        BY <4>1, <4>2, <4>3, <4>5
    <3> QED
        BY <2>1, <3>3
  <2>3. Passed(id)' = Passed(id) + 1
    <3>1. (Len(got[id]) + Len(iter[id].elems)) + 1 = Len(got[id]) + (Len(iter[id].elems) + 1)
        BY <1>n, Sums
    <3> QED
        BY <1>0, <2>2, <3>1 DEF Passed
  <2>4. Passed(id)' + Len(hand'[id]) = Passed(id) + Len(hand[id]) /\ Taken(id)' = Taken(id)
    BY <1>0, <1>n, <1>h, <1>l, <2>3 DEF Taken
  <2>5. Blobs(hand'[id], id, Passed(id)')
    BY <1>l DEF Blobs
  <2> QED
    BY <1>0, <1>1, <2>1, <2>2, <2>4, <2>5 DEF IterShape
<1>2. CASE pump' = [pump EXCEPT ![id] = "ended"] /\ UNCHANGED iter
  <2>1. Passed(id)' = Passed(id) /\ pump'[id] = "ended"
    BY <1>0, <1>2 DEF Passed
  <2> QED
    BY <1>0, <1>2, <2>1 DEF IterShape
<1> QED
    BY <1>1, <1>2 DEF PumpPush

(* Its queue is closed, and the iterator is: all elements have been passed on. *)
LEMMA PumpFinishes ==
    ASSUME RTypes, NEW id \in Ids, IterShape(id), PumpEnds(id)
    PROVE  IterShape(id)' /\ pump'[id] = "ended"
<1> USE DEF client, queues, iterators, server
<1>0. /\ iter \in [Ids -> QueueType] /\ UNCHANGED <<got, over, queue, hand>>
      /\ pump \in [Ids -> {"none", "run", "ended"}] /\ pump'[id] = "ended"
      /\ pump[id] = "run" /\ hand[id] = << >> /\ queue[id].closed /\ queue[id].elems = << >>
    BY DEF RTypes, PumpEnds
<1>n. /\ Len(got[id]) \in Nat /\ Passed(id) \in Nat
    BY Counted
<1>1. PICK q \in IF queue[id].interrupted THEN Interrupts(iter[id]) ELSE {Shut(iter[id])} :
          iter' = [iter EXCEPT ![id] = q]
    BY DEF PumpEnds
<1>2. iter'[id] = q
    BY <1>0, <1>1
<1>3. CASE queue[id].interrupted
  <2>1. q.elems \in {iter[id].elems, << >>} /\ q.interrupted
    BY <1>0, <1>1, <1>3, QueueInterrupts
  <2>2. Blobs(q.elems, id, Len(got[id]))
    <3>1. Blobs(iter[id].elems, id, Len(got[id])) /\ Blobs(<< >>, id, Len(got[id]))
        BY DEF IterShape, Blobs
    <3> QED
        BY <2>1, <3>1
  <2> QED
    BY <1>0, <1>2, <2>1, <2>2 DEF IterShape
<1>4. CASE ~queue[id].interrupted
  <2>1. q.elems = iter[id].elems /\ q.interrupted = iter[id].interrupted
    BY <1>0, <1>1, <1>4 DEF Shut, QueueType
  <2>2. Passed(id)' = Passed(id)
    BY <1>0, <1>2, <2>1 DEF Passed
  <2>3. Taken(id) = Elements
    BY <1>0, <1>4 DEF IterShape
  <2>4. Passed(id) = Elements
    BY <1>0, <1>n, <2>3 DEF Taken
  <2> QED
    BY <1>0, <1>2, <2>1, <2>2, <2>4 DEF IterShape
<1> QED
    BY <1>3, <1>4

-------------------------------------------------------------------------------
(* Iterators and the listening thread. *)

(* The listening thread gives a call its next element, or its end. *)
LEMMA ListenerAdds ==
    ASSUME RTypes, NEW m \in Messages, m.id \in Ids, IterShape(m.id), ReadsElement(m),
           UNCHANGED <<client, iterators>>, pump[m.id] = "run" => m.n = Taken(m.id) + 1
    PROVE  IterShape(m.id)' /\ (pump[m.id] = "run" => Taken(m.id)' = Taken(m.id) + 1)
<1> USE DEF client, queues, iterators, server
<1> DEFINE id == m.id
<1>0. queue \in [Ids -> QueueType] /\ UNCHANGED <<got, over, iter, pump, hand>> /\ id \in Ids
    BY DEF RTypes
<1>n. /\ Len(queue[id].elems) \in Nat /\ queue[id].elems \in Seq(Messages) /\ Passed(id) \in Nat
      /\ Len(hand[id]) \in Nat
    BY <1>0, Counted
<1>1. queue'[id].elems = Append(queue[id].elems, m) /\ ~queue'[id].closed
    BY <1>0, QueueOperations DEF ReadsElement, CanEmplace
<1>2. Passed(id)' = Passed(id)
    BY <1>0 DEF Passed
<1>3. CASE pump[id] = "run"
  <2>1. PICK ms \in Seq(Messages) : ms = queue[id].elems
    BY <1>n
  <2>2. PICK n \in Nat : n = Passed(id) + Len(hand[id])
    BY <1>n
  <2>3. m = Blob(id, n + Len(ms) + 1)
    BY <1>3, <2>1, <2>2 DEF Messages, Blob, Message, Taken, ReadsElement
  <2>4. Blobs(ms, id, n)
    BY <1>3, <2>1, <2>2 DEF IterShape
  <2>5. ms \in Seq(Messages) /\ n \in Nat
    BY <2>1, <2>2
  <2>6. Blobs(Append(ms, m), id, n) /\ Len(Append(ms, m)) = Len(ms) + 1
    BY <2>3, <2>4, <2>5, BlobsAppend
  <2>7. (n + Len(ms)) + 1 = n + (Len(ms) + 1)
    BY <2>5, <1>n, <2>1, Sums
  <2>8. Taken(id)' = Taken(id) + 1
    BY <1>0, <1>1, <1>2, <2>1, <2>2, <2>6, <2>7 DEF Taken
  <2> QED
    BY <1>0, <1>1, <1>2, <1>3, <2>1, <2>2, <2>6, <2>8 DEF IterShape
<1>4. CASE pump[id] # "run"
    BY <1>0, <1>2, <1>4 DEF IterShape
<1> QED
    BY <1>3, <1>4

(* The end of a call closes its queue, and an error interrupts it. *)
LEMMA ListenerShuts ==
    ASSUME RTypes, NEW m \in Messages, m.id \in Ids, IterShape(m.id), ReadsEnd(m),
           UNCHANGED <<client, iterators>>, m.type = "Complete" /\ pump[m.id] = "run" => Taken(m.id) = Elements
    PROVE  IterShape(m.id)'
<1> USE DEF client, queues, iterators, server
<1> DEFINE id == m.id
<1>0. queue \in [Ids -> QueueType] /\ UNCHANGED <<got, over, iter, pump, hand>> /\ id \in Ids
    BY DEF RTypes
<1>1. PICK q \in QueueType :
          /\ queue' = [queue EXCEPT ![id] = q] /\ q.elems \in {queue[id].elems, << >>}
          /\ ~q.interrupted => m.type = "Complete" /\ q.elems = queue[id].elems
    BY DEF ReadsEnd
<1>2. queue'[id] = q /\ Passed(id)' = Passed(id)
    BY <1>0, <1>1 DEF Passed
<1>3. pump[id] = "run" => Blobs(q.elems, id, Passed(id) + Len(hand[id]))
  <2>1. pump[id] = "run" => Blobs(queue[id].elems, id, Passed(id) + Len(hand[id]))
    BY DEF IterShape
  <2>2. Blobs(<< >>, id, Passed(id) + Len(hand[id]))
    BY DEF Blobs
  <2> QED
    BY <1>1, <2>1, <2>2
<1>4. pump[id] = "run" /\ ~q.interrupted => Taken(id)' = Elements
  <2>1. ~q.interrupted => Taken(id)' = Taken(id)
    BY <1>0, <1>1, <1>2 DEF Taken
  <2> QED
    BY <1>1, <2>1
<1> QED
    BY <1>0, <1>2, <1>3, <1>4 DEF IterShape

(* The connection is gone. *)
LEMMA FailureInterrupts ==
    ASSUME RTypes, NEW id \in Ids, IterShape(id), ListenerFails
    PROVE  IterShape(id)'
<1> USE DEF client, queues, iterators, server
<1>0. queue \in [Ids -> QueueType] /\ UNCHANGED <<got, over, iter, pump, hand>>
    BY DEF RTypes, ListenerFails
<1>1. queue'[id] = queue[id] \/ (queue'[id].elems = queue[id].elems /\ queue'[id].interrupted)
    BY <1>0 DEF ListenerFails, Interrupt, QueueType
<1>2. Passed(id)' = Passed(id) /\ Taken(id)' = Taken(id)
    BY <1>0, <1>1 DEF Passed, Taken
<1> QED
    BY <1>0, <1>1, <1>2 DEF IterShape

(* A call that has just been made has an iterator with nothing in it. *)
LEMMA ForwardShape ==
    ASSUME SizeAssumption, RTypes, Fresh, NEW kind, Forward(kind), NEW id, id = nextId
    PROVE  IterShape(id)' /\ Taken(id)' = 0 /\ pump'[id] = "run"
<1> USE DEF client, queues, iterators, server
<1>0. nextId \in Ids /\ id = nextId /\ id \in Ids /\ id >= nextId
  <2>1. nextId \in Ids
    BY NextNumber DEF Forward
  <2> QED
    BY <2>1, Sizes DEF Ids
<1>1. /\ queue'[id] = NewQueue /\ iter'[id] = NewQueue /\ got'[id] = << >>
      /\ hand'[id] = << >>
    BY <1>0 DEF Fresh, Forward
<1>2. over'[id] = "open" /\ pump'[id] = "run"
    BY <1>0 DEF Forward, RTypes
<1>3. Len(NewQueue.elems) = 0 /\ ~NewQueue.closed /\ Len(<< >>) = 0
    BY DEF NewQueue
<1>4. Passed(id)' = 0 /\ Taken(id)' = 0
    BY <1>1, <1>3 DEF Passed, Taken
<1>5. \A n : Blobs(<< >>, id, n) /\ Blobs(NewQueue.elems, id, n)
    BY <1>3 DEF Blobs
<1> QED
    BY <1>1, <1>2, <1>3, <1>4, <1>5 DEF IterShape

(* Each iterator holds the elements of its call, in order. *)
LEMMA NextIterators ==
    ASSUME SizeAssumption, RTyped, Iterators, IterStreams, Next
    PROVE  Iterators'
<1> USE DEF client, queues, iterators, server
<1>0. RTypes /\ Numbers /\ Fresh /\ UserShape /\ 0 \notin Ids /\ handles \in Seq(Ids)
    BY NumberTypes DEF RTyped, RequestKinds
<1> SUFFICES ASSUME NEW id \in Ids, IsIterator(id)' PROVE IterShape(id)'
    BY DEF Iterators, IsIterator
<1>t. /\ got \in [Ids -> Seq(Messages)] /\ iter \in [Ids -> QueueType] /\ queue \in [Ids -> QueueType]
      /\ pump \in [Ids -> {"none", "run", "ended"}] /\ hand \in [Ids -> Seq(Messages)]
      /\ over \in [Ids -> {"none", "open", "ended", "failed", "dropped", "archive"}]
      /\ registered \subseteq Ids /\ data \in Seq(Messages)
    BY <1>0 DEF RTypes
<1>n. IsIterator(id) => id < nextId /\ id \notin Handles /\ id # nextId
    BY <1>0, NumberTypes DEF Numbers
<1>i. IsIterator(id) => IterShape(id)
    BY DEF Iterators
<1>u. ASSUME IsIterator(id), Unmoved(id) PROVE IterShape(id)'
    BY <1>i, <1>u, UnmovedShape
<1>1. ASSUME NEW k \in Ids, NextReturns(k) PROVE IterShape(id)'
  <2>1. over[k] = "open" /\ IsIterator(k)
    BY <1>0, <1>1 DEF NextReturns, Returns, UserShape
  <2>2. IsIterator(id)
    BY <1>1 DEF NextReturns, IsIterator
  <2>3. CASE k = id
    BY <1>0, <1>1, <1>i, <2>1, <2>3, NextGives
  <2>4. CASE k # id
    BY <1>1, <1>t, <1>u, <2>2, <2>4 DEF NextReturns, Unmoved
  <2> QED
    BY <2>3, <2>4
<1>2. ASSUME NEW k \in Ids, DropReturns(k) PROVE IterShape(id)'
  <2>1. IsIterator(id)
    BY <1>2 DEF DropReturns, IsIterator
  <2> QED
    BY <1>2, <1>t, <1>u, <2>1 DEF DropReturns, Unmoved
<1>3. ASSUME NEW k \in Ids, ReadReturns(k) PROVE IterShape(id)'
  <2>1. IsIterator(id)
    BY <1>3 DEF ReadReturns, IsIterator
  <2>2. k \in Handles
    BY <1>0, <1>3 DEF ReadReturns, Returns, UserShape, Handles
  <2>3. k # id
    BY <1>n, <2>1, <2>2
  <2>4. /\ over' = over \/ \E v \in {"ended", "failed"} : over' = [over EXCEPT ![k] = v]
        /\ got' = got \/ \E v : got' = [got EXCEPT ![k] = v]
        /\ UNCHANGED <<iter, hand, pump, queue>>
    BY <1>3 DEF ReadReturns
  <2> QED
    BY <1>t, <1>u, <2>1, <2>3, <2>4 DEF Unmoved
<1>4. ASSUME NEW k \in Ids, Drop(k) PROVE IterShape(id)'
  <2>1. IsIterator(id)
    BY <1>4 DEF Drop, Begin, IsIterator
  <2>2. CASE k = id
    BY <1>0, <1>4, <1>i, <2>1, <2>2, DropInterrupts
  <2>3. CASE k # id
    BY <1>4, <1>t, <1>u, <2>1, <2>3 DEF Drop, Begin, Unmoved
  <2> QED
    BY <2>2, <2>3
<1>5. ASSUME NEW k \in Ids, PumpPop(k) \/ PumpPush(k) \/ PumpEnds(k) PROVE IterShape(id)'
  <2>1. CASE k = id
    <3>1. IsIterator(id)
        BY <1>5, <2>1 DEF PumpPop, PumpPush, PumpEnds, IsIterator
    <3> QED
        BY <1>0, <1>5, <1>i, <2>1, <3>1, PumpTakes, PumpPasses, PumpFinishes
  <2>2. CASE k # id
    <3>1. Unmoved(id) /\ pump'[id] = pump[id]
        BY <1>5, <1>t, <2>2 DEF PumpPop, PumpPush, PumpEnds, Unmoved
    <3>2. IsIterator(id)
        BY <3>1 DEF IsIterator
    <3> QED
        BY <1>u, <3>1, <3>2
  <2> QED
    BY <2>1, <2>2
<1>6. CASE ListenerRead
  <2>1. PICK m \in Messages :
            /\ data # << >> /\ m = Head(data) /\ UNCHANGED <<client, iterators, server>>
            /\ \/ ReadsExit(m) \/ ReadsElement(m) \/ ReadsEnd(m)
               \/ ReadsArchiveError(m) \/ ReadsForHandle(m)
    BY <1>6, ListenerMoves DEF RTyped
  <2>2. IsIterator(id) /\ IterShape(id)
    BY <1>i, <2>1 DEF IsIterator
  <2>3. CASE queue'[id] = queue[id]
    BY <1>u, <2>1, <2>2, <2>3 DEF Unmoved
  <2>4. CASE queue'[id] # queue[id]
    <3>1. m.id = id /\ m.id \in registered /\ (ReadsElement(m) \/ ReadsEnd(m))
        BY <1>t, <2>1, <2>4 DEF ReadsExit, ReadsElement, ReadsEnd, ReadsArchiveError, ReadsForHandle
    <3>2. IterStream(m.id) /\ m.id \in Ids /\ IterShape(m.id)
        BY <2>2, <3>1 DEF IterStreams
    <3>3. CASE ReadsElement(m)
      <4>1. pump[m.id] = "run" => m.n = Taken(m.id) + 1
        BY <1>0, <2>1, <3>1, <3>2, <3>3, StreamHead DEF ReadsElement
      <4> QED
        BY <1>0, <2>1, <3>1, <3>2, <3>3, <4>1, ListenerAdds
    <3>4. CASE ReadsEnd(m)
      <4>1. m.type # "Blob"
        BY <3>4 DEF ReadsEnd
      <4>2. m.type = "Complete" /\ pump[m.id] = "run" => Taken(m.id) = Elements
        BY <1>0, <2>1, <3>1, <3>2, <4>1, StreamHead
      <4> QED
        BY <1>0, <2>1, <3>1, <3>2, <3>4, <4>2, ListenerShuts
    <3> QED
        BY <3>1, <3>3, <3>4
  <2> QED
    BY <2>3, <2>4
<1>7. CASE ListenerFails
  <2>1. IsIterator(id)
    BY <1>7 DEF ListenerFails, IsIterator
  <2> QED
    BY <1>0, <1>7, <1>i, <2>1, FailureInterrupts
<1>8. ASSUME NEW k \in Ids, WorkerSends(k) \/ Next_(k) \/ Read(k) PROVE IterShape(id)'
  <2>1. Unmoved(id) /\ pump'[id] = pump[id]
    BY <1>8 DEF WorkerSends, Next_, Read, Begin, Unmoved
  <2> QED
    BY <1>u, <2>1 DEF IsIterator
<1>9. CASE Disconnected \/ Disconnect \/ ResetArchive \/ ReaderSends \/ HandlerEnds \/ ServerDies
  <2>1. Unmoved(id) /\ pump'[id] = pump[id]
    BY <1>9 DEF Disconnected, Disconnect, ResetArchive, ReaderSends, HandlerEnds, ServerDies, Unmoved
  <2> QED
    BY <1>u, <2>1 DEF IsIterator
<1>10. CASE ArchiveError
  <2>1. Unmoved(id) /\ pump'[id] = pump[id]
    BY <1>10, <1>t DEF ArchiveError, Unmoved
  <2> QED
    BY <1>u, <2>1 DEF IsIterator
<1>11. ASSUME NEW kind, ForwardThrows(kind) \/ DataHandle \/ DataHandleThrows \/ StartArchive PROVE IterShape(id)'
  <2>1. Unmoved(id) /\ pump'[id] = pump[id]
    BY <1>11, <1>t DEF ForwardThrows, DataHandle, DataHandleThrows, StartArchive, Unmoved
  <2> QED
    BY <1>u, <2>1 DEF IsIterator
<1>12. ASSUME NEW kind, Forward(kind) PROVE IterShape(id)'
  <2>1. CASE id = nextId
    BY <1>0, <1>12, <2>1, ForwardShape
  <2>2. CASE id # nextId
    <3>1. Unmoved(id) /\ pump'[id] = pump[id]
        BY <1>12, <1>t, <2>2 DEF Forward, Unmoved
    <3> QED
        BY <1>u, <3>1 DEF IsIterator
  <2> QED
    BY <2>1, <2>2
<1> QED
    BY <1>1, <1>2, <1>3, <1>4, <1>5, <1>6, <1>7, <1>8, <1>9, <1>10, <1>11, <1>12
       DEF Next, UserReturns, Threads

-------------------------------------------------------------------------------
(* The stream of one call. *)

(* The stream of a call goes on when others send or are served. *)
LEMMA StreamKept ==
    ASSUME RTypes, NEW id \in Ids, IterStream(id),
           data' = data \/ \E m \in Messages : data' = Append(data, m) /\ m.id # id,
           left'[id] = left[id] \/ left'[id] = 0,
           pump'[id] = "run" => pump[id] = "run" /\ Taken(id)' = Taken(id)
    PROVE  IterStream(id)'
<1>0. data \in Seq(Messages)
    BY DEF RTypes
<1>1. PICK b \in Nat : IterStreamFrom(id, b) /\ (pump[id] = "run" => b = Taken(id))
    BY DEF IterStream
<1>2. PICK to \in Places :
          /\ Along(<<id>>, Elements, data, Place(1, b), to)
          /\ left[id] # 0 => left[id] \in 1..Elements + 1 /\ to = Place(1, Elements + 1 - left[id])
    BY <1>1 DEF IterStreamFrom
<1>3. Along(<<id>>, Elements, data', Place(1, b), to)
  <2>1. ASSUME NEW m \in Messages, data' = Append(data, m), m.id # id
        PROVE  Along(<<id>>, Elements, data', Place(1, b), to)
    <3>1. Passes(<<id>>, Elements, to, m, to)
      <4>1. \A i \in 1..Len(<<id>>) : <<id>>[i] = id
        OBVIOUS
      <4> QED
        BY <2>1, <4>1 DEF Passes
    <3>2. to \in Places
        BY <1>2
    <3>3. Along(<<id>>, Elements, Append(data, m), Place(1, b), to)
        BY <1>0, <1>2, <3>1, <3>2, AlongAppend
    <3> QED
        BY <2>1, <3>3
  <2> QED
    BY <1>2, <2>1
<1>4. IterStreamFrom(id, b)'
    BY <1>2, <1>3 DEF IterStreamFrom
<1> QED
    BY <1>1, <1>4 DEF IterStream

(* A message of another is taken off the connection. *)
LEMMA StreamPassed ==
    ASSUME RTypes, NEW id \in Ids, IterStream(id), data # << >>, Head(data).id # id, data' = Tail(data),
           left' = left, pump'[id] = "run" => pump[id] = "run" /\ Taken(id)' = Taken(id)
    PROVE  IterStream(id)'
<1>0. data \in Seq(Messages)
    BY DEF RTypes
<1>1. PICK b \in Nat : IterStreamFrom(id, b) /\ (pump[id] = "run" => b = Taken(id))
    BY DEF IterStream
<1>2. PICK to \in Places :
          /\ Along(<<id>>, Elements, data, Place(1, b), to)
          /\ left[id] # 0 => left[id] \in 1..Elements + 1 /\ to = Place(1, Elements + 1 - left[id])
    BY <1>1 DEF IterStreamFrom
<1>3. PICK q \in Places : /\ Passes(<<id>>, Elements, Place(1, b), Head(data), q)
                          /\ Along(<<id>>, Elements, Tail(data), q, to)
    BY <1>0, <1>2, AlongHead
<1>4. q = Place(1, b)
  <2>1. \A i \in 1..Len(<<id>>) : <<id>>[i] = id
    OBVIOUS
  <2> QED
    BY <1>3, <2>1 DEF Passes
<1>5. IterStreamFrom(id, b)'
    BY <1>2, <1>3, <1>4 DEF IterStreamFrom
<1> QED
    BY <1>1, <1>5 DEF IterStream

(* The first element on the connection goes to its call. *)
LEMMA StreamTaken ==
    ASSUME SizeAssumption, RTypes, NEW m \in Messages, m = Head(data), data # << >>, m.type = "Blob",
           m.id \in registered, IterStream(m.id), data' = Tail(data), left' = left,
           pump'[m.id] = "run" => pump[m.id] = "run" /\ Taken(m.id)' = Taken(m.id) + 1
    PROVE  IterStream(m.id)'
<1>1. PICK b \in Nat :
          /\ m.n = b + 1
          /\ pump[m.id] = "run" => b = Taken(m.id)
          /\ \E to \in Places :
                /\ Along(<<m.id>>, Elements, Tail(data), Place(1, b + 1), to)
                /\ left[m.id] # 0 => left[m.id] \in 1..Elements + 1 /\ to = Place(1, Elements + 1 - left[m.id])
    BY StreamHead
<1>2. IterStreamFrom(m.id, b + 1)'
    BY <1>1 DEF IterStreamFrom
<1>3. b + 1 \in Nat
    BY <1>1
<1> QED
    BY <1>1, <1>2, <1>3 DEF IterStream

(* The worker of a call sends its next element, Complete, or an Error. *)
LEMMA StreamSent ==
    ASSUME SizeAssumption, RTypes, NEW id \in Ids, IterStream(id), Answer(id, Elements, readQueue),
           left[id] <= Elements + 1, pump'[id] = "run" => pump[id] = "run" /\ Taken(id)' = Taken(id)
    PROVE  IterStream(id)'
<1>0. data \in Seq(Messages) /\ left \in [Ids -> Nat] /\ Elements \in Nat
    BY Sizes DEF RTypes
<1>1. PICK b \in Nat : IterStreamFrom(id, b) /\ (pump[id] = "run" => b = Taken(id))
    BY DEF IterStream
<1>2. left[id] \in 1..Elements + 1
    BY <1>0, AnswerSends
<1>3. PICK to \in Places :
          Along(<<id>>, Elements, data, Place(1, b), to) /\ to = Place(1, Elements + 1 - left[id])
    BY <1>1, <1>2 DEF IterStreamFrom
<1>4. PICK m \in Messages :
          /\ data' = Append(data, m) /\ m.id = id
          /\ \/ m.type = "Blob" /\ m.n = Elements + 2 - left[id] /\ left[id] > 1
                /\ left' = [left EXCEPT ![id] = left[id] - 1]
             \/ m.type = "Complete" /\ left[id] = 1 /\ left' = [left EXCEPT ![id] = 0]
             \/ m.type = "Error" /\ left' = [left EXCEPT ![id] = 0]
    BY <1>0, AnswerSends
<1>5. PICK n \in Nat : n = Elements + 1 - left[id]
    BY <1>0, <1>2
<1>6. to.request = 1 /\ to.count = n /\ Len(<<id>>) = 1 /\ <<id>>[1] = id /\ 1 \in 1..Len(<<id>>)
    BY <1>3, <1>5 DEF Place
<1>7. \A q \in Places : Along(<<id>>, Elements, data, Place(1, b), to) /\ Passes(<<id>>, Elements, to, m, q)
                        => Along(<<id>>, Elements, data', Place(1, b), q)
    BY <1>0, <1>4, AlongAppend
<1>8. CASE m.type = "Blob" /\ m.n = Elements + 2 - left[id] /\ left[id] > 1
           /\ left' = [left EXCEPT ![id] = left[id] - 1]
  <2>1. m.n = n + 1 /\ left'[id] \in 1..Elements + 1 /\ n + 1 = Elements + 1 - left'[id]
    BY SMTT(30), <1>0, <1>2, <1>5, <1>8
  <2>2. Place(1, n + 1) \in Places
    BY <1>5 DEF Place, Places
  <2>3. Passes(<<id>>, Elements, to, m, Place(1, n + 1))
    BY <1>4, <1>6, <1>8, <2>1 DEF Passes
  <2>4. IterStreamFrom(id, b)'
    BY <1>3, <1>7, <2>1, <2>2, <2>3 DEF IterStreamFrom
  <2> QED
    BY <1>1, <2>4 DEF IterStream
<1>9. CASE /\ (m.type = "Complete" /\ left[id] = 1) \/ m.type = "Error"
           /\ left' = [left EXCEPT ![id] = 0]
  <2>1. Place(2, 0) \in Places /\ left'[id] = 0
    BY <1>0, <1>9 DEF Place, Places
  <2>2. left[id] = 1 => n = Elements
    BY <1>0, <1>5
  <2>3. Passes(<<id>>, Elements, to, m, Place(2, 0))
    BY <1>4, <1>6, <1>9, <2>2 DEF Passes
  <2>4. IterStreamFrom(id, b)'
    BY <1>3, <1>7, <2>1, <2>3 DEF IterStreamFrom
  <2> QED
    BY <1>1, <2>4 DEF IterStream
<1> QED
    BY <1>4, <1>8, <1>9

(* The stream of a new call. *)
LEMMA StreamBegins ==
    ASSUME SizeAssumption, RTyped, NEW kind, Forward(kind), NEW id, id = nextId
    PROVE  IterStream(id)'
<1>0. RTypes /\ Numbers /\ Fresh /\ data \in Seq(Messages) /\ 0 \notin Ids /\ nextId \in Ids /\ id \in Ids
  <2>1. RTypes /\ Numbers /\ Fresh /\ nextId \in Ids
    BY NextNumber DEF RTyped, RequestKinds, Forward
  <2>2. data \in Seq(Messages)
    BY <2>1 DEF RTypes
  <2>3. 0 \notin Ids
    BY Sizes DEF Ids
  <2> QED
    BY <2>1, <2>2, <2>3
<1>1. \A i \in 1..Len(data) : data[i].id # id
  <2>1. \A h \in Handles : h < nextId
    BY <1>0 DEF Numbers, Handles
  <2>2. /\ id \notin registered /\ id \notin Handles /\ (archiveId # 0 => archiveId # id) /\ id # 0
        /\ id \in Nat
    BY <1>0, <2>1, Sizes DEF Numbers, Ids
  <2> SUFFICES ASSUME NEW i \in 1..Len(data) PROVE data[i].id # id
    OBVIOUS
  <2>3. OnData(data[i])
    BY DEF RTyped, DataKinds
  <2> QED
    BY <2>2, <2>3 DEF OnData
<1>2. data' = data /\ left'[id] = Elements + 1 /\ Elements \in Nat
    BY <1>0, Sizes DEF Forward, RTypes, server
<1>3. Place(1, 0) \in Places /\ Elements + 1 \in 1..Elements + 1 /\ Elements + 1 - (Elements + 1) = 0
    BY <1>2 DEF Place, Places
<1>4. Along(<<id>>, Elements, data, Place(1, 0), Place(1, 0))
  <2>1. \A i \in 1..Len(data) : \A j \in 1..Len(<<id>>) : <<id>>[j] # data[i].id
    BY <1>1
  <2> QED
    BY <1>0, <1>3, <2>1, AlongOthers
<1>5. IterStreamFrom(id, 0)'
    BY <1>2, <1>3, <1>4 DEF IterStreamFrom
<1>6. Taken(id)' = 0
    BY <1>0, ForwardShape
<1> QED
    BY <1>5, <1>6 DEF IterStream

-------------------------------------------------------------------------------
(* The streams of all calls. *)

(* What an iterator has taken is not lost or given twice by a step that takes nothing from the connection. *)
LEMMA TakenKept ==
    ASSUME SizeAssumption, RTyped, Iterators, Next, ~ListenerRead, ~ListenerFails,
           NEW id \in Ids, IsIterator(id), pump'[id] = "run"
    PROVE  pump[id] = "run" /\ Taken(id)' = Taken(id)
<1> USE DEF client, queues, iterators, server
<1>0. RTypes /\ Numbers /\ UserShape /\ IterShape(id)
    BY NumberTypes DEF RTyped, Iterators
<1>t. /\ got \in [Ids -> Seq(Messages)] /\ iter \in [Ids -> QueueType] /\ queue \in [Ids -> QueueType]
      /\ pump \in [Ids -> {"none", "run", "ended"}] /\ hand \in [Ids -> Seq(Messages)]
    BY <1>0 DEF RTypes
<1>n. id < nextId /\ id \notin Handles /\ id # nextId
    BY <1>0, NumberTypes DEF Numbers
<1>u. ASSUME UNCHANGED <<got, iter, hand, queue>>, pump'[id] = pump[id]
      PROVE  pump[id] = "run" /\ Taken(id)' = Taken(id)
    BY <1>u DEF Taken, Passed
<1>v. ASSUME got'[id] = got[id], iter'[id] = iter[id], hand'[id] = hand[id], queue'[id] = queue[id], pump'[id] = pump[id]
      PROVE  pump[id] = "run" /\ Taken(id)' = Taken(id)
    BY <1>v DEF Taken, Passed
<1>1. ASSUME NEW k \in Ids, NextReturns(k) PROVE pump[id] = "run" /\ Taken(id)' = Taken(id)
  <2>1. over[k] = "open" /\ UNCHANGED <<hand, queue, pump>>
    BY <1>0, <1>1 DEF NextReturns, Returns, UserShape
  <2>2. CASE k = id
    <3>1. Passed(id)' = Passed(id)
        BY <1>0, <1>1, <2>1, <2>2, NextGives
    <3> QED
        BY <2>1, <3>1 DEF Taken
  <2>3. CASE k # id
    BY <1>1, <1>t, <1>v, <2>1, <2>3 DEF NextReturns
  <2> QED
    BY <2>2, <2>3
<1>2. ASSUME NEW k \in Ids, ReadReturns(k) PROVE pump[id] = "run" /\ Taken(id)' = Taken(id)
  <2>1. k \in Handles
    BY <1>0, <1>2 DEF ReadReturns, Returns, UserShape, Handles
  <2>2. k # id
    BY <1>n, <2>1
  <2>3. got' = got \/ \E v : got' = [got EXCEPT ![k] = v]
    BY <1>2 DEF ReadReturns
  <2>4. got'[id] = got[id] /\ UNCHANGED <<iter, hand, pump, queue>>
    BY <1>2, <1>t, <2>2, <2>3 DEF ReadReturns
  <2> QED
    BY <1>v, <2>4
<1>3. ASSUME NEW k \in Ids, Drop(k) PROVE pump[id] = "run" /\ Taken(id)' = Taken(id)
  <2>1. pump' = pump
    BY <1>3 DEF Drop
  <2>2. CASE k = id
    BY <1>0, <1>3, <2>1, <2>2, DropInterrupts
  <2>3. CASE k # id
    BY <1>3, <1>t, <1>v, <2>3 DEF Drop, Begin
  <2> QED
    BY <2>2, <2>3
<1>4. ASSUME NEW k \in Ids, PumpPop(k) \/ PumpPush(k) \/ PumpEnds(k)
      PROVE  pump[id] = "run" /\ Taken(id)' = Taken(id)
  <2>1. CASE k = id
    <3>1. pump[id] = "run"
        BY <1>4, <2>1 DEF PumpPop, PumpPush, PumpEnds
    <3> QED
        BY <1>0, <1>4, <2>1, <3>1, PumpTakes, PumpPasses, PumpFinishes
  <2>2. CASE k # id
    BY <1>4, <1>t, <1>v, <2>2 DEF PumpPop, PumpPush, PumpEnds
  <2> QED
    BY <2>1, <2>2
<1>5. ASSUME NEW k \in Ids, DropReturns(k) \/ WorkerSends(k) \/ Next_(k) \/ Read(k)
      PROVE  pump[id] = "run" /\ Taken(id)' = Taken(id)
    BY <1>5, <1>u DEF DropReturns, WorkerSends, Next_, Read, Begin
<1>6. ASSUME \/ Disconnected \/ Disconnect \/ ResetArchive \/ ReaderSends \/ HandlerEnds \/ ServerDies
             \/ ArchiveError \/ DataHandle \/ DataHandleThrows \/ StartArchive
             \/ \E kind \in Kinds : ForwardThrows(kind)
      PROVE  pump[id] = "run" /\ Taken(id)' = Taken(id)
    BY <1>6, <1>u DEF Disconnected, Disconnect, ResetArchive, ReaderSends, HandlerEnds, ServerDies, ArchiveError,
       DataHandle, DataHandleThrows, StartArchive, ForwardThrows
<1>7. ASSUME NEW kind \in Kinds, Forward(kind) PROVE pump[id] = "run" /\ Taken(id)' = Taken(id)
    BY <1>7, <1>n, <1>t, <1>v DEF Forward
<1> QED
    BY <1>1, <1>2, <1>3, <1>4, <1>5, <1>6, <1>7 DEF Next, UserReturns, Threads

(* What happens on the server and the connection that is not the work of one call. *)
LEMMA OthersSend ==
    ASSUME SizeAssumption, RTyped, Next, ~ListenerRead, ~ListenerFails,
           NEW id \in Ids, id \notin Handles, over[id] # "archive", id # nextId, ~WorkerSends(id)
    PROVE  /\ left'[id] = left[id] \/ left'[id] = 0
           /\ data' = data \/ \E m \in Messages : data' = Append(data, m) /\ m.id # id
<1> USE DEF client, queues, iterators, server
<1>0. RTypes /\ left \in [Ids -> Nat] /\ 0 \notin Ids /\ RBounds
  <2>1. RTypes /\ RBounds
    BY DEF RTyped
  <2> QED
    BY <2>1, NumberTypes DEF RTypes
<1> DEFINE Goal == /\ left'[id] = left[id] \/ left'[id] = 0
                   /\ data' = data \/ \E m \in Messages : data' = Append(data, m) /\ m.id # id
<1>a. ASSUME NEW k \in Ids, NEW size \in Nat, NEW rest, Answer(k, size, rest), left[k] <= size + 1, k # id PROVE Goal
  <2>1. PICK m \in Messages :
            data' = Append(data, m) /\ m.id = k /\ \E n \in Nat : left' = [left EXCEPT ![k] = n]
    <3>1. left[k] > 1 => left[k] - 1 \in Nat
        BY <1>0
    <3> QED
        BY <1>0, <1>a, <3>1, AnswerSends
  <2> QED
    BY <1>0, <1>a, <2>1
<1>1. ASSUME NEW k \in Ids, WorkerSends(k) PROVE Goal
  <2>1. Answer(k, Elements, readQueue) /\ left[k] <= Elements + 1 /\ k # id
    BY <1>1, ServerSends DEF RTyped
  <2> QED
    BY <1>a, <2>1, Sizes
<1>2. CASE ReaderSends
  <2>1. /\ Head(readQueue) \in Handles /\ Head(readQueue) \in Ids /\ left[Head(readQueue)] <= Chunks + 1
        /\ Answer(Head(readQueue), Chunks, Tail(readQueue))
    BY <1>2, ServerSends DEF RTyped
  <2> QED
    BY <1>a, <2>1, Sizes
<1>3. CASE HandlerEnds
  <2>1. PICK m : m = Message("Exit", 0, 0)
    OBVIOUS
  <2>2. m \in Messages /\ m.id # id
    BY <1>0, <2>1, Sizes DEF Message, Messages
  <2> QED
    BY <1>3, <2>1, <2>2 DEF HandlerEnds, Sends
<1>4. CASE ArchiveError
  <2>1. PICK k \in Ids : over[k] = "archive" /\ Sends(Message("Error", k, 0))
    BY <1>4 DEF ArchiveError
  <2>2. PICK m : m = Message("Error", k, 0)
    OBVIOUS
  <2>3. m \in Messages /\ m.id # id
    BY <2>1, <2>2, Sizes DEF Message, Messages, Ids
  <2> QED
    BY <1>4, <2>1, <2>2, <2>3 DEF ArchiveError, Sends
<1>5. CASE ServerDies
    BY <1>5 DEF ServerDies
<1>6. ASSUME NEW kind \in Kinds, DataHandle \/ Forward(kind) PROVE Goal
    BY <1>0, <1>6 DEF DataHandle, Forward
<1>7. ASSUME NEW k \in Ids, NextReturns(k) \/ DropReturns(k) \/ ReadReturns(k) \/ PumpPop(k)
                            \/ PumpPush(k) \/ PumpEnds(k) \/ Next_(k) \/ Drop(k) \/ Read(k)
      PROVE  Goal
    BY <1>7 DEF NextReturns, DropReturns, ReadReturns, PumpPop, PumpPush, PumpEnds, Next_, Drop, Read, Begin
<1>8. ASSUME \/ Disconnected \/ Disconnect \/ ResetArchive \/ DataHandleThrows \/ StartArchive
             \/ \E kind \in Kinds : ForwardThrows(kind)
      PROVE  Goal
    BY <1>8 DEF Disconnected, Disconnect, ResetArchive, DataHandleThrows, StartArchive, ForwardThrows
<1>9. CASE DataHandle
    BY <1>0, <1>9 DEF DataHandle
<1> QED
    BY <1>1, <1>2, <1>3, <1>4, <1>5, <1>6, <1>7, <1>8, <1>9 DEF Next, UserReturns, Threads

(* The stream of each call is in order. *)
LEMMA NextIterStreams ==
    ASSUME SizeAssumption, RTyped, Iterators, IterStreams, Next
    PROVE  IterStreams'
<1> USE DEF client, queues, iterators, server
<1>0. RTypes /\ Numbers /\ data \in Seq(Messages) /\ registered \subseteq Ids /\ registered' \subseteq Ids
  <2>1. RTypes /\ RTypes' /\ Numbers
    BY NumberTypes
  <2> QED
    BY <2>1 DEF RTypes
<1> SUFFICES ASSUME NEW id \in registered', IsIterator(id)' PROVE IterStream(id)'
    BY DEF IterStreams, IsIterator
<1>i. id \in Ids
    BY <1>0
<1>1. ASSUME NEW kind, Forward(kind), id = nextId PROVE IterStream(id)'
    BY <1>1, StreamBegins
<1>2. \/ id \in registered /\ IsIterator(id)
      \/ id = nextId /\ \E kind : Forward(kind)
  <2>1. CASE ~Makes
    BY <1>i, <2>1, OthersKeepRequests DEF KeepsRequests
  <2>2. CASE DataHandle \/ DataHandleThrows \/ StartArchive
    BY <2>2 DEF DataHandle, DataHandleThrows, StartArchive, IsIterator
  <2>3. ASSUME NEW kind, ForwardThrows(kind) PROVE id \in registered /\ IsIterator(id)
    <3>1. IsIterator(id)
        BY <2>3 DEF ForwardThrows, IsIterator
    <3>2. id # nextId
        BY <1>0, <1>i, <3>1, NumberTypes DEF Numbers
    <3> QED
        BY <2>3, <3>1, <3>2 DEF ForwardThrows
  <2>4. ASSUME NEW kind, Forward(kind), id # nextId PROVE id \in registered /\ IsIterator(id)
    <3>1. pump \in [Ids -> {"none", "run", "ended"}]
        BY <1>0 DEF RTypes
    <3> QED
        BY <1>i, <2>4, <3>1 DEF Forward, IsIterator
  <2> QED
    BY <2>1, <2>2, <2>3, <2>4 DEF Makes
<1>3. CASE id \in registered /\ IsIterator(id)
  <2>0. IterStream(id) /\ id \notin Handles /\ over[id] # "archive" /\ id # nextId
    BY <1>0, <1>i, <1>3, NumberTypes DEF IterStreams, Numbers
  <2>1. CASE ListenerRead
    <3>1. PICK m \in Messages :
              /\ data # << >> /\ m = Head(data) /\ data' = Tail(data) /\ UNCHANGED <<client, iterators, server>>
              /\ \/ ReadsExit(m) \/ ReadsElement(m) \/ ReadsEnd(m)
                 \/ ReadsArchiveError(m) \/ ReadsForHandle(m)
        BY <2>1, ListenerMoves DEF RTyped
    <3>2. CASE m.id # id
      <4>1. queue'[id] = queue[id]
        BY <1>0, <1>i, <3>1, <3>2
           DEF ReadsExit, ReadsElement, ReadsEnd, ReadsArchiveError, ReadsForHandle, RTypes
      <4>2. Taken(id)' = Taken(id)
        BY <3>1, <4>1 DEF Taken, Passed
      <4> QED
        BY <1>0, <1>i, <2>0, <3>1, <3>2, <4>2, StreamPassed
    <3>3. CASE m.id = id
      <4>1. m.type # "Exit"
        BY <1>0, <1>3, <2>0, <3>1, <3>3, StreamHead
      <4>2. ReadsElement(m)
        BY <1>3, <3>1, <3>3, <4>1 DEF ReadsExit, ReadsElement, ReadsEnd, ReadsArchiveError, ReadsForHandle
      <4>3. pump[m.id] = "run" => m.n = Taken(m.id) + 1
        BY <1>0, <1>3, <2>0, <3>1, <3>3, <4>2, StreamHead DEF ReadsElement
      <4>4. IterShape(m.id)
        BY <1>i, <1>3, <3>3 DEF Iterators
      <4>5. pump[m.id] = "run" => Taken(m.id)' = Taken(m.id) + 1
        BY <1>0, <1>i, <3>1, <3>3, <4>2, <4>3, <4>4, ListenerAdds
      <4>6. m.type = "Blob"
        BY <4>2 DEF ReadsElement
      <4>7. IterStream(m.id)'
        BY <1>0, <1>3, <2>0, <3>1, <3>3, <4>5, <4>6, StreamTaken
      <4> QED
        BY <3>3, <4>7
    <3> QED
        BY <3>2, <3>3
  <2>2. CASE ListenerFails
    BY <2>2 DEF ListenerFails
  <2>3. CASE ~ListenerRead /\ ~ListenerFails
    <3>1. pump'[id] = "run" => pump[id] = "run" /\ Taken(id)' = Taken(id)
        BY <1>i, <1>3, <2>3, TakenKept
    <3>2. CASE WorkerSends(id)
      <4>1. Answer(id, Elements, readQueue) /\ left[id] <= Elements + 1
        BY <1>i, <3>2, ServerSends DEF RTyped
      <4> QED
        BY <1>0, <1>i, <2>0, <3>1, <4>1, StreamSent
    <3>3. CASE ~WorkerSends(id)
      <4>1. /\ left'[id] = left[id] \/ left'[id] = 0
            /\ data' = data \/ \E m \in Messages : data' = Append(data, m) /\ m.id # id
        BY <1>i, <2>0, <2>3, <3>3, OthersSend
      <4> QED
        BY <1>0, <1>i, <2>0, <3>1, <4>1, StreamKept
    <3> QED
        BY <3>2, <3>3
  <2> QED
    BY <2>1, <2>2, <2>3
<1> QED
    BY <1>1, <1>2, <1>3

-------------------------------------------------------------------------------
(* The handles: steps of others. *)

(* No two handles are the same request. *)
LEMMA HandlesDiffer ==
    ASSUME SizeAssumption, RTypes, Numbers
    PROVE  /\ handles \in Seq(Ids) /\ Len(handles) \in Nat
           /\ \A i \in 1..Len(handles) : handles[i] \in Ids /\ handles[i] \in Handles
           /\ \A i, j \in 1..Len(handles) : handles[i] = handles[j] => i = j
<1>1. handles \in Seq(Ids) /\ Len(handles) \in Nat
    BY DEF RTypes
<1>2. \A i \in 1..Len(handles) : handles[i] \in Ids /\ handles[i] \in Handles
    BY <1>1 DEF Handles
<1>3. \A i \in 1..Len(handles) : handles[i] \in Nat
    BY <1>2, Sizes DEF Ids
<1>4. ASSUME NEW i \in 1..Len(handles), NEW j \in 1..Len(handles), handles[i] = handles[j] PROVE i = j
  <2>1. ~(i < j) /\ ~(j < i)
    <3>1. \A k, l \in 1..Len(handles) : k < l => handles[k] < handles[l]
        BY DEF Numbers
    <3>2. /\ i < j => handles[i] < handles[j]
          /\ j < i => handles[j] < handles[i]
        BY <1>4, <3>1
    <3>3. handles[i] = handles[j] /\ handles[i] \in Nat
        BY <1>3, <1>4
    <3> QED
        BY <3>2, <3>3
  <2> QED
    BY <1>1, <2>1
<1> QED
    BY <1>1, <1>2, <1>4

(* What has been read is a place in the stream. *)
LEMMA ReadToIsPlace ==
    ASSUME RTypes, NEW r \in 1..Len(handles) + 1
    PROVE  ReadTo(r) \in Places
<1>0. handles \in Seq(Ids) /\ Len(handles) \in Nat /\ got \in [Ids -> Seq(Messages)]
    BY DEF RTypes
<1>1. CASE r <= Len(handles)
  <2>1. handles[r] \in Ids
    BY <1>0, <1>1
  <2>2. Len(got[handles[r]]) \in Nat
    BY <1>0, <2>1
  <2> QED
    BY <1>0, <1>1, <2>2 DEF ReadTo, Place, Places
<1>2. CASE ~(r <= Len(handles))
    BY <1>0, <1>2 DEF ReadTo, Place, Places
<1> QED
    BY <1>1, <1>2

(* The handles are as before, and what has been given of them. *)
SameHandles ==
    /\ handles' = handles
    /\ \A h \in Handles : /\ got'[h] = got[h] /\ (over'[h] = "open" <=> over[h] = "open")
                          /\ over'[h] = "ended" => over[h] = "ended"
(* So is what the server has still to do for them, if it can. *)
SameWork ==
    session' # "dead" => /\ session # "dead" /\ readQueue' = readQueue
                         /\ \A h \in Handles : left'[h] = left[h]

(* The first handle that is open is the same. *)
LEMMA SameShape ==
    ASSUME SizeAssumption, RTypes, Numbers, SameHandles, NEW r \in 1..Len(handles) + 1, HandleShape(r),
           \A i \in 1..Len(retrieveQueue'.elems) : retrieveQueue'.elems[i].id \in Handles
    PROVE  HandleShape(r)' /\ ReadTo(r)' = ReadTo(r)
<1>1. /\ handles' = handles /\ Handles' = Handles /\ Len(handles) \in Nat
      /\ \A j \in 1..Len(handles) :
            /\ got'[handles[j]] = got[handles[j]]
            /\ over'[handles[j]] = "open" <=> over[handles[j]] = "open"
            /\ over'[handles[j]] = "ended" => over[handles[j]] = "ended"
    BY HandlesDiffer DEF SameHandles, Handles
<1>2. ReadTo(r)' = ReadTo(r)
    BY <1>1 DEF ReadTo
<1> QED
    BY <1>1, <1>2 DEF HandleShape

(* What is left to send is the same. *)
LEMMA SameServed ==
    ASSUME SizeAssumption, RTypes, Numbers, SameHandles, SameWork, NEW to \in Places, Served(to)
    PROVE  Served(to)'
<1>1. handles' = handles /\ \A j \in 1..Len(handles) : handles[j] \in Handles
    BY HandlesDiffer DEF SameHandles
<1> SUFFICES ASSUME session' # "dead" PROVE Served(to)'
    BY DEF Served
<1>2. session # "dead" /\ readQueue' = readQueue /\ \A j \in 1..Len(handles) : left'[handles[j]] = left[handles[j]]
    BY <1>1 DEF SameWork
<1>3. to.request \in 1..Len(handles) + 1
    BY <1>2 DEF Served
<1>4. to.request <= Len(handles) => left'[handles[to.request]] = left[handles[to.request]]
    BY <1>2, <1>3
<1> QED
    BY <1>1, <1>2, <1>4 DEF Served

(* Steps that are not about the handles; messages of others may be sent. *)
LEMMA HandlesQuiet ==
    ASSUME SizeAssumption, RTypes, Numbers, HandleStream, SameHandles, SameWork, retrieveQueue' = retrieveQueue,
           data' = data \/ \E m \in Messages : data' = Append(data, m) /\ m.id \notin Handles
    PROVE  HandleStream'
<1>1. PICK r \in 1..Len(handles) + 1, mid \in Places, to \in Places :
          /\ HandleShape(r)
          /\ Along(handles, Chunks, retrieveQueue.elems, ReadTo(r), mid)
          /\ Along(handles, Chunks, data, mid, to)
          /\ Served(to)
    BY DEF HandleStream
<1>2. HandleShape(r)' /\ ReadTo(r)' = ReadTo(r)
  <2>1. \A i \in 1..Len(retrieveQueue'.elems) : retrieveQueue'.elems[i].id \in Handles
    BY <1>1 DEF HandleShape
  <2> QED
    BY <1>1, <2>1, SameShape
<1>3. Served(to)'
    BY <1>1, SameServed
<1>4. Along(handles, Chunks, data', mid, to)
  <2>1. ASSUME NEW m \in Messages, data' = Append(data, m), m.id \notin Handles
        PROVE  Along(handles, Chunks, data', mid, to)
    <3>1. Passes(handles, Chunks, to, m, to)
        BY <2>1 DEF Passes, Handles
    <3>2. to \in Places /\ data \in Seq(Messages)
        BY <1>1 DEF RTypes
    <3>3. Along(handles, Chunks, Append(data, m), mid, to)
        BY <1>1, <3>1, <3>2, AlongAppend
    <3> QED
        BY <2>1, <3>3
  <2> QED
    BY <1>1, <2>1
<1>5. handles' = handles
    BY DEF SameHandles
<1> QED
    BY <1>1, <1>2, <1>3, <1>4, <1>5 DEF HandleStream

(* The first message on the connection is one of others. *)
LEMMA HandlesPassed ==
    ASSUME SizeAssumption, RTypes, Numbers, HandleStream, SameHandles, SameWork, retrieveQueue' = retrieveQueue,
           data # << >>, data' = Tail(data), Head(data).id \notin Handles
    PROVE  HandleStream'
<1>1. PICK r \in 1..Len(handles) + 1, mid \in Places, to \in Places :
          /\ HandleShape(r)
          /\ Along(handles, Chunks, retrieveQueue.elems, ReadTo(r), mid)
          /\ Along(handles, Chunks, data, mid, to)
          /\ Served(to)
    BY DEF HandleStream
<1>2. HandleShape(r)' /\ ReadTo(r)' = ReadTo(r)
  <2>1. \A i \in 1..Len(retrieveQueue'.elems) : retrieveQueue'.elems[i].id \in Handles
    BY <1>1 DEF HandleShape
  <2> QED
    BY <1>1, <2>1, SameShape
<1>3. Served(to)'
    BY <1>1, SameServed
<1>4. Along(handles, Chunks, data', mid, to)
  <2>1. data \in Seq(Messages)
    BY DEF RTypes
  <2>2. PICK q \in Places : Passes(handles, Chunks, mid, Head(data), q) /\ Along(handles, Chunks, Tail(data), q, to)
    BY <1>1, <2>1, AlongHead
  <2>3. q = mid
    BY <2>2 DEF Passes, Handles
  <2> QED
    BY <2>2, <2>3
<1>5. handles' = handles
    BY DEF SameHandles
<1> QED
    BY <1>1, <1>2, <1>3, <1>4, <1>5 DEF HandleStream

(* It is one of a handle's, and goes to the queue of the handles. *)
LEMMA HandlesForwarded ==
    ASSUME SizeAssumption, RTypes, Numbers, HandleStream, SameHandles, SameWork,
           data # << >>, data' = Tail(data), Head(data).id \in Handles,
           retrieveQueue' = Emplace(retrieveQueue, Head(data))
    PROVE  HandleStream'
<1>1. PICK r \in 1..Len(handles) + 1, mid \in Places, to \in Places :
          /\ HandleShape(r)
          /\ Along(handles, Chunks, retrieveQueue.elems, ReadTo(r), mid)
          /\ Along(handles, Chunks, data, mid, to)
          /\ Served(to)
    BY DEF HandleStream
<1>2. data \in Seq(Messages) /\ retrieveQueue \in QueueType /\ Head(data) \in Messages
    BY SMTT(30) DEF RTypes
<1>3. retrieveQueue.elems \in Seq(Messages) /\ retrieveQueue'.elems = Append(retrieveQueue.elems, Head(data))
    BY <1>2, QueueOperations DEF QueueType
<1>4. HandleShape(r)' /\ ReadTo(r)' = ReadTo(r)
  <2>1. \A i \in 1..Len(retrieveQueue.elems) : retrieveQueue.elems[i].id \in Handles
    BY <1>1 DEF HandleShape
  <2>2. \A i \in 1..Len(retrieveQueue'.elems) : retrieveQueue'.elems[i].id \in Handles
    <3> SUFFICES ASSUME NEW i \in 1..Len(retrieveQueue'.elems) PROVE retrieveQueue'.elems[i].id \in Handles
        OBVIOUS
    <3>1. \/ i \in 1..Len(retrieveQueue.elems) /\ retrieveQueue'.elems[i] = retrieveQueue.elems[i]
          \/ retrieveQueue'.elems[i] = Head(data)
      <4>1. PICK ms \in Seq(Messages) : ms = retrieveQueue.elems
        BY <1>3
      <4>2. PICK m \in Messages : m = Head(data)
        BY <1>2
      <4>3. i \in 1..Len(Append(ms, m)) /\ ms \in Seq(Messages)
        BY <1>3, <4>1, <4>2
      <4>4. (i \in 1..Len(ms) /\ Append(ms, m)[i] = ms[i]) \/ Append(ms, m)[i] = m
        BY <4>3
      <4> QED
        BY <1>3, <4>1, <4>2, <4>4
    <3> QED
        BY <2>1, <3>1
  <2> QED
    BY <1>1, <2>2, SameShape
<1>5. Served(to)'
    BY <1>1, SameServed
<1>6. PICK q \in Places : Passes(handles, Chunks, mid, Head(data), q) /\ Along(handles, Chunks, Tail(data), q, to)
    BY <1>1, <1>2, AlongHead
<1>7. Along(handles, Chunks, retrieveQueue'.elems, ReadTo(r), q)
  <2>1. PICK m \in Messages : m = Head(data)
    BY <1>2
  <2>2. PICK ms \in Seq(Messages) : ms = retrieveQueue.elems
    BY <1>3
  <2>3. ms \in Seq(Messages) /\ q \in Places
    BY <2>2, <1>6
  <2>4. Along(handles, Chunks, ms, ReadTo(r), mid) /\ Passes(handles, Chunks, mid, m, q)
    BY <1>1, <1>6, <2>1, <2>2
  <2>5. Along(handles, Chunks, Append(ms, m), ReadTo(r), q)
    BY <2>3, <2>4, AlongAppend
  <2> QED
    BY <1>3, <2>1, <2>2, <2>5
<1>8. handles' = handles
    BY DEF SameHandles
<1>9. q \in Places /\ Along(handles, Chunks, data', q, to)
    BY <1>6
<1> QED
    BY <1>1, <1>4, <1>5, <1>7, <1>8, <1>9 DEF HandleStream

-------------------------------------------------------------------------------
(* The handles: the server sends. *)

(* One message less is left, one more has been sent. *)
LEMMA Countdown ==
    ASSUME NEW z \in Nat, NEW n \in 1..z + 1, n > 1
    PROVE  /\ n - 1 \in 1..z + 1 /\ z + 2 - n = (z + 1 - n) + 1
           /\ (z + 1 - n) + 1 = z + 1 - (n - 1) /\ (z + 1 - n) + 1 \in Nat
OBVIOUS

(* The read thread sends for the handle at the head of its queue. *)
LEMMA HandleSent ==
    ASSUME SizeAssumption, RTyped, HandleStream, ReaderSends
    PROVE  HandleStream'
<1> USE DEF client, queues, iterators, server
<1>0. RTypes /\ Numbers /\ data \in Seq(Messages) /\ left \in [Ids -> Nat] /\ readQueue \in Seq(Ids)
      /\ Chunks \in Nat /\ Chunks > 0
  <2>1. RTypes /\ Numbers
    BY DEF RTyped, RequestKinds
  <2> QED
    BY <2>1, Sizes DEF RTypes
<1>h. /\ handles \in Seq(Ids) /\ Len(handles) \in Nat
      /\ \A i \in 1..Len(handles) : handles[i] \in Ids /\ handles[i] \in Handles
      /\ \A i, j \in 1..Len(handles) : handles[i] = handles[j] => i = j
    BY <1>0, HandlesDiffer
<1>1. PICK r \in 1..Len(handles) + 1, mid \in Places, to \in Places :
          /\ HandleShape(r)
          /\ Along(handles, Chunks, retrieveQueue.elems, ReadTo(r), mid)
          /\ Along(handles, Chunks, data, mid, to)
          /\ Served(to)
    BY DEF HandleStream
<1>2. /\ UNCHANGED <<handles, got, over, retrieveQueue, session>> /\ readQueue # << >>
      /\ Answer(Head(readQueue), Chunks, Tail(readQueue)) /\ left[Head(readQueue)] <= Chunks + 1
      /\ Head(readQueue) \in Ids
    BY ServerSends DEF ReaderSends, RTyped
<1>3. SameHandles /\ HandleShape(r)' /\ ReadTo(r)' = ReadTo(r)
  <2>1. SameHandles
    BY <1>2 DEF SameHandles
  <2>2. \A i \in 1..Len(retrieveQueue'.elems) : retrieveQueue'.elems[i].id \in Handles
    BY <1>1, <1>2 DEF HandleShape
  <2> QED
    BY <1>0, <1>1, <2>1, <2>2, SameShape
<1>4. session # "dead"
    BY <1>2 DEF RTyped, DeadIsSilent
<1>5. PICK k \in Nat, c \in Nat : k = to.request /\ c = to.count /\ to = Place(k, c)
    BY <1>1 DEF Places, Place
<1>n. PICK N \in Nat : N = Len(handles)
    BY <1>h
<1>f. PICK f : f = [j \in 1..N |-> left[handles[j]]]
    OBVIOUS
<1>g. PICK g : g = [j \in 1..N |-> left'[handles[j]]]
    OBVIOUS
<1>k. N \in Nat /\ k \in Nat /\ c \in Nat /\ f \in [1..N -> Nat]
  <2>1. \A j \in 1..N : left[handles[j]] \in Nat
    BY <1>0, <1>h, <1>n
  <2> QED
    BY <1>5, <1>n, <1>f, <2>1
<1>6. /\ Len(readQueue) \in Nat \ {0} /\ Head(readQueue) = readQueue[1] /\ 1 \in 1..Len(readQueue)
      /\ Len(Tail(readQueue)) = Len(readQueue) - 1
      /\ \A j \in 1..Len(Tail(readQueue)) : Tail(readQueue)[j] = readQueue[j + 1]
    BY <1>0, <1>2
<1>s. /\ to.request \in 1..Len(handles) + 1 /\ Len(readQueue) = Len(handles) + 1 - to.request
      /\ \A j \in 1..Len(readQueue) : readQueue[j] = handles[to.request + j - 1]
      /\ to.count = IF to.request <= Len(handles) THEN Chunks + 1 - left[handles[to.request]] ELSE 0
      /\ \A j \in 1..Len(handles) :
            IF j < to.request THEN left[handles[j]] = 0
            ELSE IF j = to.request THEN left[handles[j]] \in 1..Chunks + 1
            ELSE left[handles[j]] = Chunks + 1
    BY <1>1, <1>4 DEF Served
<1>7. /\ Len(readQueue) = N + 1 - k /\ k \in 1..N
      /\ \A j \in 1..Len(readQueue) : readQueue[j] = handles[k + j - 1]
  <2>1. k \in 1..N + 1 /\ Len(readQueue) = N + 1 - k
        /\ \A j \in 1..Len(readQueue) : readQueue[j] = handles[k + j - 1]
    BY <1>5, <1>n, <1>s
  <2> QED
    BY <1>6, <1>k, <2>1
<1>8. Head(readQueue) = handles[k]
  <2>1. k + 1 - 1 = k
    BY <1>k
  <2> QED
    BY <1>6, <1>7, <2>1
<1>9. /\ c = Chunks + 1 - f[k] /\ f[k] \in 1..Chunks + 1
      /\ \A j \in 1..N : j < k => f[j] = 0
      /\ \A j \in 1..N : j > k => f[j] = Chunks + 1
  <2>1. c = Chunks + 1 - left[handles[k]]
    <3>1. to.request <= Len(handles)
        BY <1>5, <1>7, <1>n, <1>k
    <3> QED
        BY <1>5, <1>s, <3>1
  <2>2. \A j \in 1..N : IF j < k THEN left[handles[j]] = 0
                       ELSE IF j = k THEN left[handles[j]] \in 1..Chunks + 1
                       ELSE left[handles[j]] = Chunks + 1
    BY <1>5, <1>n, <1>s
  <2>3. f[k] = left[handles[k]] /\ \A j \in 1..N : f[j] = left[handles[j]]
    BY <1>7, <1>f
  <2>4. c = Chunks + 1 - f[k]
    BY <2>1, <2>3
  <2>5. ~(k < k) /\ k \in 1..N
    BY <1>7, <1>k
  <2>6. f[k] \in 1..Chunks + 1
    BY <2>2, <2>3, <2>5
  <2>7. ASSUME NEW j \in 1..N, j < k PROVE f[j] = 0
    BY <2>2, <2>3, <2>7
  <2>8. ASSUME NEW j \in 1..N, j > k PROVE f[j] = Chunks + 1
    <3>1. ~(j < k) /\ j # k
        BY <1>k, <2>8
    <3> QED
        BY <2>2, <2>3, <3>1
  <2> QED
    BY <2>4, <2>6, <2>7, <2>8
<1>a. k \in 1..N /\ N \in Nat /\ k \in Nat /\ Chunks + 1 \in Nat /\ Chunks + 1 \in 1..Chunks + 1 /\ Chunks \in Nat
    BY <1>0, <1>7, <1>k
<1>i. handles[k] \in Ids /\ left[handles[k]] = f[k] /\ left[handles[k]] <= Chunks + 1
      /\ Answer(handles[k], Chunks, Tail(readQueue))
    BY <1>2, <1>7, <1>8, <1>f
<1>10. PICK m \in Messages :
          /\ data' = Append(data, m) /\ m.id = handles[k]
          /\ \/ /\ m.type = "Blob" /\ m.n = Chunks + 2 - left[handles[k]] /\ left[handles[k]] > 1
                /\ left' = [left EXCEPT ![handles[k]] = left[handles[k]] - 1] /\ readQueue' = readQueue
             \/ /\ (m.type = "Complete" /\ left[handles[k]] = 1) \/ m.type = "Error"
                /\ left' = [left EXCEPT ![handles[k]] = 0] /\ readQueue' = Tail(readQueue)
  <2>1. Chunks \in Nat
    BY <1>0
  <2>2. PICK id \in Ids : id = handles[k]
    BY <1>i
  <2>3. id \in Ids /\ left[id] <= Chunks + 1 /\ Answer(id, Chunks, Tail(readQueue))
    BY <1>i, <2>2
  <2>4. \E m \in Messages :
          /\ data' = Append(data, m) /\ m.id = id
          /\ \/ /\ m.type = "Blob" /\ m.n = Chunks + 2 - left[id] /\ left[id] > 1
                /\ left' = [left EXCEPT ![id] = left[id] - 1] /\ readQueue' = readQueue
             \/ /\ m.type = "Complete" /\ left[id] = 1
                /\ left' = [left EXCEPT ![id] = 0] /\ readQueue' = Tail(readQueue)
             \/ /\ m.type = "Error" /\ MayFail
                /\ left' = [left EXCEPT ![id] = 0] /\ readQueue' = Tail(readQueue)
    BY <1>0, <2>1, <2>3, AnswerSends
  <2> QED
    BY <2>2, <2>4
<1>11. /\ \A j \in 1..N : j # k => g[j] = f[j]
       /\ g[k] = left'[handles[k]] /\ left'[handles[k]] \in {f[k] - 1, 0}
  <2>1. \A j \in 1..N : j # k => handles[j] \in Ids /\ handles[j] # handles[k]
    BY <1>7, <1>h, <1>n
  <2>2. \A j \in 1..N : j # k => left'[handles[j]] = left[handles[j]]
    BY <1>0, <1>10, <2>1
  <2>3. left'[handles[k]] \in {left[handles[k]] - 1, 0}
    BY <1>0, <1>i, <1>10
  <2> QED
    BY <1>7, <1>f, <1>g, <1>i, <2>2, <2>3
<1>12. \A q \in Places : Passes(handles, Chunks, to, m, q) => Along(handles, Chunks, data', mid, q)
    BY <1>0, <1>1, <1>10, AlongAppend
<1>13. \A q \in Places : Passes(handles, Chunks, to, m, q) /\ Served(q)' => HandleStream'
    BY <1>1, <1>2, <1>3, <1>12 DEF HandleStream
<1>14. /\ \E i \in 1..Len(handles) : handles[i] = m.id
       /\ to.request \in 1..Len(handles) /\ m.id = handles[to.request] /\ to.count = c /\ to.request = k
    BY <1>5, <1>7, <1>n, <1>10
<1>c. ASSUME NEW i \in 1..N + 1, NEW d \in Nat, Len(readQueue') = N + 1 - i,
             \A j \in 1..Len(readQueue') : readQueue'[j] = handles[i + j - 1],
             d = IF i <= N THEN Chunks + 1 - g[i] ELSE 0,
             \A j \in 1..N : IF j < i THEN g[j] = 0 ELSE IF j = i THEN g[j] \in 1..Chunks + 1 ELSE g[j] = Chunks + 1
      PROVE  Served(Place(i, d))'
  <2>1. Place(i, d).request = i /\ Place(i, d).count = d
    BY DEF Place
  <2>2. i <= N => g[i] = left'[handles[i]]
    BY <1>g, <1>k
  <2>3. \A j \in 1..N : g[j] = left'[handles[j]]
    BY <1>g
  <2>4. d = IF i <= N THEN Chunks + 1 - left'[handles[i]] ELSE 0
    BY <1>c, <2>2
  <2>5. \A j \in 1..N : IF j < i THEN left'[handles[j]] = 0
                       ELSE IF j = i THEN left'[handles[j]] \in 1..Chunks + 1
                       ELSE left'[handles[j]] = Chunks + 1
    BY <1>c, <2>3
  <2> QED
    BY ZenonT(30), <1>2, <1>c, <1>n, <2>1, <2>4, <2>5 DEF Served
<1>15. CASE /\ m.type = "Blob" /\ m.n = Chunks + 2 - left[handles[k]] /\ left[handles[k]] > 1
            /\ left' = [left EXCEPT ![handles[k]] = left[handles[k]] - 1] /\ readQueue' = readQueue
  <2>0. g[k] = f[k] - 1
    BY <1>0, <1>11, <1>15, <1>i
  <2>1. m.n = c + 1 /\ g[k] \in 1..Chunks + 1 /\ c + 1 = Chunks + 1 - g[k] /\ c + 1 \in Nat
    <3>1. PICK n \in Nat : n = f[k]
        BY <1>a, <1>k
    <3>2. n \in 1..Chunks + 1 /\ n > 1 /\ c = Chunks + 1 - n /\ g[k] = n - 1 /\ m.n = Chunks + 2 - n /\ n \in Nat
        BY <1>9, <1>15, <1>i, <2>0, <3>1
    <3>3. n - 1 \in 1..Chunks + 1 /\ Chunks + 2 - n = (Chunks + 1 - n) + 1 /\ (Chunks + 1 - n) + 1 = Chunks + 1 - (n - 1)
          /\ (Chunks + 1 - n) + 1 \in Nat
        BY <1>a, <3>2, Countdown
    <3> QED
        BY <3>2, <3>3
  <2>2. Place(k, c + 1) \in Places
    BY <1>k, <2>1 DEF Place, Places
  <2>3. Passes(handles, Chunks, to, m, Place(k, c + 1))
    BY <1>14, <1>15, <2>1 DEF Passes
  <2>4. \A j \in 1..N : IF j < k THEN g[j] = 0 ELSE IF j = k THEN g[j] \in 1..Chunks + 1 ELSE g[j] = Chunks + 1
    <3> SUFFICES ASSUME NEW j \in 1..N
                 PROVE  IF j < k THEN g[j] = 0 ELSE IF j = k THEN g[j] \in 1..Chunks + 1 ELSE g[j] = Chunks + 1
        OBVIOUS
    <3>1. j < k => j # k /\ f[j] = 0
        BY <1>a, <1>9
    <3>2. j # k => g[j] = f[j]
        BY <1>11
    <3>3. ~(j < k) /\ j # k => f[j] = Chunks + 1
      <4>1. ~(j < k) /\ j # k => j > k
        BY <1>a
      <4> QED
        BY <1>9, <4>1
    <3> QED
        BY <2>1, <3>1, <3>2, <3>3
  <2>5. Served(Place(k, c + 1))'
    <3>1. k \in 1..N + 1 /\ k <= N
        BY <1>7, <1>k
    <3> QED
        BY <1>7, <1>15, <1>c, <2>1, <2>4, <3>1
  <2> QED
    BY <1>13, <2>2, <2>3, <2>5
<1>16. CASE /\ (m.type = "Complete" /\ left[handles[k]] = 1) \/ m.type = "Error"
            /\ left' = [left EXCEPT ![handles[k]] = 0] /\ readQueue' = Tail(readQueue)
  <2>1. g[k] = 0 /\ (m.type = "Complete" => c = Chunks)
    <3>1. g[k] = 0
        BY <1>0, <1>11, <1>16, <1>i
    <3>2. m.type = "Complete" => c = Chunks + 1 - 1
        BY <1>9, <1>16, <1>i
    <3> QED
        BY <1>a, <3>1, <3>2
  <2>2. Place(k + 1, 0) \in Places /\ k + 1 \in 1..N + 1
    <3>1. k + 1 \in Nat /\ k + 1 \in 1..N + 1 /\ 0 \in Nat
        BY <1>a
    <3> QED
        BY <3>1 DEF Place, Places
  <2>3. Passes(handles, Chunks, to, m, Place(k + 1, 0))
    BY <1>14, <1>16, <2>1 DEF Passes
  <2>4. \A j \in 1..N : IF j < k + 1 THEN g[j] = 0
                       ELSE IF j = k + 1 THEN g[j] \in 1..Chunks + 1 ELSE g[j] = Chunks + 1
    <3> SUFFICES ASSUME NEW j \in 1..N
                 PROVE  IF j < k + 1 THEN g[j] = 0
                        ELSE IF j = k + 1 THEN g[j] \in 1..Chunks + 1 ELSE g[j] = Chunks + 1
        OBVIOUS
    <3>1. j < k + 1 => g[j] = 0
      <4>1. j < k + 1 => j = k \/ (j < k /\ j # k)
        BY <1>a
      <4> QED
        BY <1>9, <1>11, <2>1, <4>1
    <3>2. ~(j < k + 1) => g[j] = Chunks + 1
      <4>1. ~(j < k + 1) => j > k /\ j # k
        BY <1>a
      <4> QED
        BY <1>9, <1>11, <4>1
    <3> QED
        BY <1>a, <3>1, <3>2
  <2>5. 0 = IF k + 1 <= N THEN Chunks + 1 - g[k + 1] ELSE 0
    <3>1. k + 1 <= N => k + 1 \in 1..N /\ k + 1 # k /\ k + 1 > k
        BY <1>k
    <3> QED
        BY <1>0, <1>9, <1>11, <3>1
  <2>6. Len(readQueue') = N + 1 - (k + 1)
    <3>1. Len(readQueue') = Len(readQueue) - 1
        BY <1>6, <1>16
    <3>2. Len(readQueue') = (N + 1 - k) - 1
      <4>1. Len(readQueue) = N + 1 - k
        BY <1>7
      <4> QED
        BY <3>1, <4>1
    <3>3. (N + 1 - k) - 1 = N + 1 - (k + 1)
        BY <1>k
    <3> QED
        BY <3>2, <3>3
  <2>7. \A j \in 1..Len(readQueue') : readQueue'[j] = handles[(k + 1) + j - 1]
    <3> SUFFICES ASSUME NEW j \in 1..Len(Tail(readQueue)) PROVE Tail(readQueue)[j] = handles[(k + 1) + j - 1]
        BY <1>16
    <3>1. j + 1 \in 1..Len(readQueue) /\ k + (j + 1) - 1 = (k + 1) + j - 1
      <4>1. Len(readQueue) \in Nat /\ Len(Tail(readQueue)) = Len(readQueue) - 1 /\ k \in Nat /\ j \in Nat
        BY <1>6, <1>k
      <4> QED
        BY <4>1
    <3> QED
        BY <1>6, <1>7, <3>1
  <2>8. Served(Place(k + 1, 0))'
    BY <1>c, <2>2, <2>4, <2>5, <2>6, <2>7
  <2> QED
    BY <1>13, <2>2, <2>3, <2>8
<1> QED
    BY <1>10, <1>15, <1>16

-------------------------------------------------------------------------------
(* The handles: the user reads. *)

(* The first handle that is open is told its end: the next one is the first. *)
LEMMA HandleOver ==
    ASSUME SizeAssumption, RTypes, Numbers, NEW r \in 1..Len(handles), HandleShape(r),
           NEW v \in {"ended", "failed"}, over' = [over EXCEPT ![handles[r]] = v],
           v = "ended" => Len(got[handles[r]]) = Chunks, got' = got, handles' = handles,
           \A i \in 1..Len(retrieveQueue'.elems) : retrieveQueue'.elems[i].id \in Handles
    PROVE  HandleShape(r + 1)' /\ ReadTo(r + 1)' = Place(r + 1, 0)
<1>h. /\ Len(handles) \in Nat /\ r \in Nat
      /\ \A i \in 1..Len(handles) : handles[i] \in Ids /\ handles[i] \in Handles
      /\ \A i, j \in 1..Len(handles) : handles[i] = handles[j] => i = j
    BY HandlesDiffer, SMTT(30)
<1>o. over \in [Ids -> {"none", "open", "ended", "failed", "dropped", "archive"}]
    BY DEF RTypes
<1>1. /\ \A j \in 1..Len(handles) : j # r => over'[handles[j]] = over[handles[j]]
      /\ over'[handles[r]] = v
    BY <1>h, <1>o
<1>2. \A j \in 1..Len(handles) :
          /\ j < r <=> over[handles[j]] # "open"
          /\ j > r => got[handles[j]] = << >>
          /\ Blobs(got[handles[j]], handles[j], 0)
          /\ over[handles[j]] = "ended" => Len(got[handles[j]]) = Chunks
    BY DEF HandleShape
<1>3. ASSUME NEW j \in 1..Len(handles)
      PROVE  /\ j < r + 1 <=> over'[handles[j]] # "open"
             /\ j > r + 1 => got[handles[j]] = << >>
             /\ over'[handles[j]] = "ended" => Len(got[handles[j]]) = Chunks
  <2>1. CASE j = r
    BY <1>h, <1>1, <2>1
  <2>2. CASE j # r
    <3>1. (j < r + 1 <=> j < r) /\ (j > r + 1 => j > r)
        BY <1>h, <2>2
    <3> QED
        BY <1>1, <1>2, <2>2, <3>1
  <2> QED
    BY <2>1, <2>2
<1>4. Handles' = Handles
    BY DEF Handles
<1>5. HandleShape(r + 1)'
    BY <1>2, <1>3, <1>4 DEF HandleShape
<1>6. r + 1 <= Len(handles) => Len(got[handles[r + 1]]) = 0
  <2>1. r + 1 <= Len(handles) => r + 1 \in 1..Len(handles) /\ r + 1 > r
    BY <1>h
  <2>2. Len(<< >>) = 0
    OBVIOUS
  <2> QED
    BY <1>2, <2>1, <2>2
<1>7. ReadTo(r + 1)' = Place(r + 1, 0)
    BY <1>6 DEF ReadTo
<1> QED
    BY <1>5, <1>7

(* read() is given the next message of the queue, or finds it interrupted. *)
LEMMA HandleRead ==
    ASSUME SizeAssumption, RTyped, HandleStream, NEW id \in Ids, ReadReturns(id)
    PROVE  HandleStream'
<1> USE DEF client, queues, iterators, server
<1>0. RTypes /\ Numbers /\ UserShape /\ DeadIsSilent
    BY DEF RTyped, RequestKinds
<1>t. /\ data \in Seq(Messages) /\ retrieveQueue \in QueueType /\ got \in [Ids -> Seq(Messages)]
      /\ over \in [Ids -> {"none", "open", "ended", "failed", "dropped", "archive"}]
    BY <1>0 DEF RTypes
<1>q. retrieveQueue.elems \in Seq(Messages)
    BY <1>t DEF QueueType
<1>h. /\ handles \in Seq(Ids) /\ Len(handles) \in Nat
      /\ \A i \in 1..Len(handles) : handles[i] \in Ids /\ handles[i] \in Handles
      /\ \A i, j \in 1..Len(handles) : handles[i] = handles[j] => i = j
    BY <1>0, HandlesDiffer
<1>1. PICK r \in 1..Len(handles) + 1, mid \in Places, to \in Places :
          /\ HandleShape(r)
          /\ Along(handles, Chunks, retrieveQueue.elems, ReadTo(r), mid)
          /\ Along(handles, Chunks, data, mid, to)
          /\ Served(to)
    BY DEF HandleStream
<1>2. /\ \A j \in 1..Len(handles) :
            /\ j < r <=> over[handles[j]] # "open"
            /\ j > r => got[handles[j]] = << >>
            /\ Blobs(got[handles[j]], handles[j], 0)
            /\ over[handles[j]] = "ended" => Len(got[handles[j]]) = Chunks
      /\ \A i \in 1..Len(retrieveQueue.elems) : retrieveQueue.elems[i].id \in Handles
    BY <1>1 DEF HandleShape
<1>3. PICK s \in 1..Len(handles) :
          handles[s] = id /\ over[id] = "open" /\ \A j \in 1..Len(handles) : j < s => over[handles[j]] # "open"
    BY <1>0 DEF ReadReturns, Returns, UserShape
<1>4. r \in 1..Len(handles) /\ handles[r] = id /\ r \in Nat
  <2>1. ~(s < r)
    BY <1>2, <1>3
  <2>2. r \in Nat /\ s \in Nat /\ r <= s /\ r \in 1..Len(handles)
    BY <1>h, <1>1, <1>3, <2>1
  <2>3. ~(r < s)
    <3>1. ~(r < r)
        BY <2>2
    <3> QED
        BY <1>2, <1>3, <2>2, <3>1
  <2> QED
    BY <1>3, <2>2, <2>3
<1>5. UNCHANGED <<handles, data, session, left, readQueue>> /\ Handles' = Handles
    BY DEF ReadReturns, Handles
<1>6. Served(to)'
    BY <1>1, <1>5 DEF Served
<1>p. Len(got[id]) \in Nat /\ got[id] \in Seq(Messages) /\ ReadTo(r) = Place(r, Len(got[id]))
      /\ ReadTo(r).request = r /\ ReadTo(r).count = Len(got[id])
    BY <1>t, <1>h, <1>4 DEF ReadTo, Place
<1>7. CASE retrieveQueue.elems # << >> /\ retrieveQueue' = Popped(retrieveQueue)
  <2>1. /\ retrieveQueue'.elems = Tail(retrieveQueue.elems) /\ Head(retrieveQueue.elems) \in Messages
        /\ Head(retrieveQueue.elems) = retrieveQueue.elems[1] /\ 1 \in 1..Len(retrieveQueue.elems)
        /\ \A i \in 1..Len(retrieveQueue'.elems) :
              i + 1 \in 1..Len(retrieveQueue.elems) /\ retrieveQueue'.elems[i] = retrieveQueue.elems[i + 1]
    <3>1. retrieveQueue'.elems = Tail(retrieveQueue.elems)
        BY <1>t, <1>7, QueuePops
    <3>2. PICK ms \in Seq(Messages) : ms = retrieveQueue.elems
        BY <1>q
    <3>3. ms # << >> /\ ms \in Seq(Messages)
        BY <1>7, <3>2
    <3>4. /\ Head(ms) \in Messages /\ Head(ms) = ms[1] /\ 1 \in 1..Len(ms)
          /\ \A i \in 1..Len(Tail(ms)) : i + 1 \in 1..Len(ms) /\ Tail(ms)[i] = ms[i + 1]
        BY <3>3
    <3> QED
        BY <3>1, <3>2, <3>4
  <2>2. \A i \in 1..Len(retrieveQueue'.elems) : retrieveQueue'.elems[i].id \in Handles
    BY <1>2, <2>1
  <2>3. PICK m \in Messages : m = Head(retrieveQueue.elems)
    BY <2>1
  <2>4. PICK q \in Places : /\ Passes(handles, Chunks, ReadTo(r), m, q)
                            /\ Along(handles, Chunks, retrieveQueue'.elems, q, mid)
    BY <1>1, <1>7, <1>q, <2>1, <2>3, AlongHead
  <2>5. \E i \in 1..Len(handles) : handles[i] = m.id
    <3>1. retrieveQueue.elems[1].id \in Handles
        BY <1>2, <2>1
    <3>2. m.id \in Handles
        BY <2>1, <2>3, <3>1
    <3> QED
        BY <3>2 DEF Handles
  <2>6. /\ m.id = id
        /\ \/ m.type = "Blob" /\ m.n = Len(got[id]) + 1 /\ q = Place(r, Len(got[id]) + 1)
           \/ m.type = "Complete" /\ Len(got[id]) = Chunks /\ q = Place(r + 1, 0)
           \/ m.type = "Error" /\ q = Place(r + 1, 0)
    BY <1>4, <1>p, <2>4, <2>5 DEF Passes
  <2>7. CASE m.type = "Blob"
    <3>1. over' = over /\ got' = [got EXCEPT ![id] = Append(got[id], m)]
        BY <1>7, <2>3, <2>7 DEF ReadReturns, Broken
    <3>2. m = Blob(id, 0 + Len(got[id]) + 1) /\ m.n = Len(got[id]) + 1
        BY <1>p, <2>6, <2>7 DEF Blob, Message, Messages
    <3>3. Blobs(got[id], id, 0)
        BY <1>2, <1>4
    <3>4. 0 \in Nat
        OBVIOUS
    <3>5. Blobs(Append(got[id], m), id, 0) /\ Len(Append(got[id], m)) = Len(got[id]) + 1
        BY <1>p, <3>2, <3>3, <3>4, BlobsAppend
    <3>6. got'[id] = Append(got[id], m) /\ \A j \in 1..Len(handles) : j # r => got'[handles[j]] = got[handles[j]]
        BY <1>t, <1>h, <1>4, <3>1
    <3>7. ASSUME NEW j \in 1..Len(handles)
          PROVE  /\ j > r => got'[handles[j]] = << >>
                 /\ Blobs(got'[handles[j]], handles[j], 0)
                 /\ over'[handles[j]] = "ended" => Len(got'[handles[j]]) = Chunks
      <4>1. CASE j = r
        <5>1. ~(j > r) /\ over'[handles[j]] = "open"
            BY <1>3, <1>4, <3>1, <4>1
        <5> QED
            BY <1>4, <3>5, <3>6, <4>1, <5>1
      <4>2. CASE j # r
        BY <1>2, <3>1, <3>6, <4>2
      <4> QED
        BY <4>1, <4>2
    <3>8. HandleShape(r)'
        BY <1>2, <1>5, <2>2, <3>1, <3>7 DEF HandleShape
    <3>9. ReadTo(r)' = q
      <4>1. q = Place(r, Len(got[id]) + 1)
        BY <2>6, <2>7
      <4>2. r <= Len(handles) /\ Len(got'[handles[r]]) = Len(got[id]) + 1
        BY <1>h, <1>4, <3>5, <3>6
      <4> QED
        BY <1>5, <4>1, <4>2 DEF ReadTo
    <3> QED
        BY <1>1, <1>5, <1>6, <2>4, <3>8, <3>9 DEF HandleStream
  <2>8. CASE m.type # "Blob"
    <3>1. PICK v \in {"ended", "failed"} :
              over' = [over EXCEPT ![id] = v] /\ (v = "ended" => m.type = "Complete")
      <4>1. CASE m.type = "Complete"
        BY <1>7, <2>3, <4>1 DEF ReadReturns, Broken
      <4>2. CASE m.type = "Error"
        BY <1>7, <2>3, <4>2 DEF ReadReturns, Broken
      <4> QED
        BY <2>6, <2>8, <4>1, <4>2
    <3>2. got' = got
        BY <1>7, <2>3, <2>8 DEF ReadReturns, Broken
    <3>3. q = Place(r + 1, 0) /\ (v = "ended" => Len(got[id]) = Chunks)
        BY <2>6, <2>8, <3>1
    <3>4. HandleShape(r + 1)' /\ ReadTo(r + 1)' = Place(r + 1, 0)
        BY <1>0, <1>1, <1>4, <1>5, <2>2, <3>1, <3>2, <3>3, HandleOver
    <3>5. r + 1 \in 1..Len(handles) + 1
        BY <1>h, <1>4
    <3> QED
        BY <1>1, <1>5, <1>6, <2>4, <3>3, <3>4, <3>5 DEF HandleStream
  <2> QED
    BY <2>7, <2>8
<1>8. CASE Broken(retrieveQueue) /\ over' = [over EXCEPT ![id] = "failed"] /\ UNCHANGED <<retrieveQueue, got>>
  <2>1. session = "dead" /\ data = << >> /\ retrieveQueue.elems = << >>
    BY <1>0, <1>8 DEF Broken, DeadIsSilent
  <2>2. HandleShape(r + 1)' /\ ReadTo(r + 1)' = Place(r + 1, 0)
    <3>1. \A i \in 1..Len(retrieveQueue'.elems) : retrieveQueue'.elems[i].id \in Handles
        BY <1>2, <1>8
    <3>2. "failed" \in {"ended", "failed"} /\ "failed" # "ended"
        OBVIOUS
    <3> QED
        BY <1>0, <1>1, <1>4, <1>5, <1>8, <3>1, <3>2, HandleOver
  <2>3. Place(r + 1, 0) \in Places /\ r + 1 \in 1..Len(handles) + 1
    <3>1. r + 1 \in Nat /\ r + 1 \in 1..Len(handles) + 1
        BY <1>h, <1>4
    <3> QED
        BY <3>1 DEF Place, Places
  <2>4. Along(handles, Chunks, << >>, Place(r + 1, 0), Place(r + 1, 0))
    BY <2>3, AlongNothing
  <2>5. Served(Place(r + 1, 0))'
    BY <1>5, <2>1 DEF Served
  <2> QED
    BY <1>5, <1>8, <2>1, <2>2, <2>3, <2>4, <2>5 DEF HandleStream
<1> QED
    BY <1>7, <1>8 DEF ReadReturns

-------------------------------------------------------------------------------
(* The handles: a handle more, and the end of the connection. *)

(* Positions at and before the end. *)
LEMMA Positions ==
    ASSUME NEW N \in Nat, NEW k \in 1..N + 1, NEW j \in Nat
    PROVE  /\ (N + 1 - k) + 1 = (N + 1) + 1 - k
           /\ j = (N + 1 - k) + 1 => k + j - 1 = N + 1
           /\ j \in 1..(N + 1 - k) => k + j - 1 \in 1..N
OBVIOUS

(* A handle more: it is read, and served, after those that were made before. *)
LEMMA HandleMore ==
    ASSUME SizeAssumption, RTyped, HandleStream, DataHandle
    PROVE  HandleStream'
<1> USE DEF client, queues, iterators, server
<1>0. RTypes /\ Numbers /\ Fresh /\ DataKinds /\ 0 \notin Ids /\ nextId \in Nat
  <2>1. RTypes /\ Numbers /\ Fresh /\ DataKinds
    BY DEF RTyped, RequestKinds
  <2>2. 0 \notin Ids
    BY Sizes DEF Ids
  <2>3. nextId \in Nat
    BY <2>1, Sizes DEF RTypes
  <2> QED
    BY <2>1, <2>2, <2>3
<1>t. /\ data \in Seq(Messages) /\ retrieveQueue \in QueueType /\ got \in [Ids -> Seq(Messages)]
      /\ over \in [Ids -> {"none", "open", "ended", "failed", "dropped", "archive"}] /\ left \in [Ids -> Nat]
      /\ readQueue \in Seq(Ids) /\ registered \subseteq Ids
    BY <1>0 DEF RTypes
<1>q. retrieveQueue.elems \in Seq(Messages)
    BY <1>t DEF QueueType
<1>h. /\ handles \in Seq(Ids) /\ Len(handles) \in Nat
      /\ \A i \in 1..Len(handles) : handles[i] \in Ids /\ handles[i] \in Handles
    BY <1>0, HandlesDiffer
<1>1. PICK r \in 1..Len(handles) + 1, mid \in Places, to \in Places :
          /\ HandleShape(r)
          /\ Along(handles, Chunks, retrieveQueue.elems, ReadTo(r), mid)
          /\ Along(handles, Chunks, data, mid, to)
          /\ Served(to)
    BY DEF HandleStream
<1>2. /\ nextId \in Ids /\ UNCHANGED <<got, retrieveQueue, data, session>> /\ session = "up"
      /\ handles' = Append(handles, nextId) /\ over' = [over EXCEPT ![nextId] = "open"]
      /\ left' = [left EXCEPT ![nextId] = Chunks + 1] /\ readQueue' = Append(readQueue, nextId)
    BY <1>0, NextNumber DEF DataHandle
<1>n. PICK N \in Nat : N = Len(handles)
    BY <1>h
<1>3. /\ Len(handles') = N + 1 /\ handles'[N + 1] = nextId
      /\ \A i \in 1..N : handles'[i] = handles[i]
      /\ Handles' = Handles \cup {nextId}
    BY <1>h, <1>n, MoreHandles
<1>4. \A h \in Handles : h \in Ids /\ h < nextId /\ h # nextId
    BY <1>0, <1>h, NumberTypes DEF Numbers, Handles
<1>5. /\ \A i \in 1..Len(retrieveQueue.elems) : retrieveQueue.elems[i].id # nextId
      /\ \A i \in 1..Len(data) : data[i].id # nextId
  <2>1. \A i \in 1..Len(retrieveQueue.elems) : retrieveQueue.elems[i].id \in Handles
    BY <1>1 DEF HandleShape
  <2>2. nextId \notin registered /\ (archiveId # 0 => archiveId # nextId) /\ nextId # 0
    BY <1>0, <1>2 DEF Numbers
  <2> QED
    BY <1>0, <1>4, <2>1, <2>2 DEF DataKinds, OnData
<1>6. got[nextId] = << >> /\ over'[nextId] = "open" /\ left'[nextId] = Chunks + 1
      /\ \A h \in Handles : over'[h] = over[h] /\ left'[h] = left[h]
  <2>1. nextId >= nextId
    BY <1>0
  <2>2. got[nextId] = << >>
    BY <1>0, <1>2, <2>1 DEF Fresh
  <2>3. Chunks + 1 \in Nat
    BY Sizes
  <2> QED
    BY <1>t, <1>2, <1>4, <2>2, <2>3
<1>7. HandleShape(r)'
  <2>1. r \in 1..N + 1
    BY <1>1, <1>n
  <2>2. ASSUME NEW j \in 1..N + 1
        PROVE  /\ j < r <=> over'[handles'[j]] # "open"
               /\ j > r => got[handles'[j]] = << >>
               /\ Blobs(got[handles'[j]], handles'[j], 0)
               /\ over'[handles'[j]] = "ended" => Len(got[handles'[j]]) = Chunks
    <3>1. CASE j = N + 1
      <4>1. handles'[j] = nextId /\ ~(j < r)
        BY <1>3, <2>1, <3>1
      <4>2. Blobs(<< >>, nextId, 0)
        BY DEF Blobs
      <4> QED
        BY <1>6, <4>1, <4>2
    <3>2. CASE j \in 1..N
      <4>1. handles'[j] = handles[j] /\ over'[handles[j]] = over[handles[j]] /\ j \in 1..Len(handles)
        BY <1>3, <1>6, <1>h, <1>n, <3>2
      <4> QED
        BY <1>1, <4>1 DEF HandleShape
    <3> QED
        BY <1>n, <3>1, <3>2
  <2>3. \A i \in 1..Len(retrieveQueue.elems) : retrieveQueue.elems[i].id \in Handles'
    BY <1>1, <1>3 DEF HandleShape
  <2> QED
    BY <1>2, <1>3, <2>2, <2>3 DEF HandleShape
<1>8. ReadTo(r)' = ReadTo(r)
  <2>1. CASE r = N + 1
    <3>1. ReadTo(r) = Place(r, 0)
        BY <1>n, <2>1 DEF ReadTo
    <3>2. r <= N + 1 /\ handles'[r] = nextId /\ Len(got[nextId]) = 0
        BY <1>3, <1>6, <1>n, <2>1
    <3>3. ReadTo(r)' = Place(r, 0)
        BY <1>2, <1>3, <3>2 DEF ReadTo
    <3> QED
        BY <3>1, <3>3
  <2>2. CASE r \in 1..N
    <3>1. r <= N /\ r <= N + 1 /\ handles'[r] = handles[r]
        BY <1>3, <1>n, <2>2
    <3> QED
        BY <1>2, <1>3, <1>n, <3>1 DEF ReadTo
  <2> QED
    BY <1>1, <1>n, <2>1, <2>2
<1>9. /\ Along(handles', Chunks, retrieveQueue'.elems, ReadTo(r), mid)
      /\ Along(handles', Chunks, data', mid, to)
  <2>1. Along(Append(handles, nextId), Chunks, retrieveQueue.elems, ReadTo(r), mid)
    <3>1. PICK ms \in Seq(Messages) : ms = retrieveQueue.elems
        BY <1>q
    <3>2. ms \in Seq(Messages) /\ Along(handles, Chunks, ms, ReadTo(r), mid) /\ \A i \in 1..Len(ms) : ms[i].id # nextId
        BY <1>1, <1>5, <3>1
    <3>3. Along(Append(handles, nextId), Chunks, ms, ReadTo(r), mid)
        BY <1>h, <3>2, AlongMore
    <3> QED
        BY <3>1, <3>3
  <2>2. Along(Append(handles, nextId), Chunks, data, mid, to)
    BY <1>h, <1>t, <1>1, <1>5, AlongMore
  <2> QED
    BY <1>2, <2>1, <2>2
<1>10. Served(to)'
  <2>1. PICK k \in Nat : k = to.request
    BY <1>1 DEF Places
  <2>s. /\ k \in 1..N + 1 /\ Len(readQueue) = N + 1 - k
        /\ \A j \in 1..Len(readQueue) : readQueue[j] = handles[k + j - 1]
        /\ to.count = IF k <= N THEN Chunks + 1 - left[handles[k]] ELSE 0
        /\ \A j \in 1..N :
              IF j < k THEN left[handles[j]] = 0
              ELSE IF j = k THEN left[handles[j]] \in 1..Chunks + 1
              ELSE left[handles[j]] = Chunks + 1
    <3>1. session # "dead"
        BY <1>2
    <3> QED
        BY <1>1, <1>n, <2>1, <3>1 DEF Served
  <2>i. \A j \in Nat : /\ (N + 1 - k) + 1 = (N + 1) + 1 - k
                       /\ j = (N + 1 - k) + 1 => k + j - 1 = N + 1
                       /\ j \in 1..(N + 1 - k) => k + j - 1 \in 1..N
    <3>1. N \in Nat /\ k \in 1..N + 1
        BY <1>n, <2>s
    <3> QED
        BY <3>1, Positions
  <2>2. k \in 1..(N + 1) + 1
    BY <1>n, <2>s
  <2>3. /\ Len(readQueue') = Len(readQueue) + 1 /\ Len(readQueue) \in Nat
        /\ readQueue'[Len(readQueue) + 1] = nextId
        /\ \A j \in 1..Len(readQueue) : readQueue'[j] = readQueue[j]
    BY <1>t, <1>2, SMTT(30)
  <2>4. Len(readQueue') = (N + 1) + 1 - k
    <3>1. Len(readQueue') = (N + 1 - k) + 1
        BY <2>s, <2>3
    <3>2. (N + 1 - k) + 1 = (N + 1) + 1 - k
      <4>1. 0 \in Nat
        OBVIOUS
      <4> QED
        BY <2>i, <4>1
    <3> QED
        BY <3>1, <3>2
  <2>5. ASSUME NEW j \in 1..Len(readQueue') PROVE readQueue'[j] = handles'[k + j - 1]
    <3>1. CASE j = Len(readQueue) + 1
      <4>0. j \in Nat
        BY <2>3
      <4>1. j = (N + 1 - k) + 1
        BY <2>s, <3>1
      <4>2. k + j - 1 = N + 1
        BY <2>i, <4>1, <4>0
      <4> QED
        BY <1>3, <2>3, <3>1, <4>2
    <3>2. CASE j \in 1..Len(readQueue)
      <4>0. j \in Nat
        BY <2>3
      <4>1. j \in 1..(N + 1 - k)
        BY <2>s, <3>2
      <4>2. k + j - 1 \in 1..N
        BY <2>i, <4>1, <4>0
      <4> QED
        BY <1>3, <2>s, <2>3, <3>2, <4>2
    <3> QED
        BY <2>3, <3>1, <3>2
  <2>c. Chunks + 1 \in 1..Chunks + 1 /\ Chunks + 1 - (Chunks + 1) = 0
    BY Sizes
  <2>6. ASSUME NEW j \in 1..N + 1
        PROVE  IF j < k THEN left'[handles'[j]] = 0
               ELSE IF j = k THEN left'[handles'[j]] \in 1..Chunks + 1
               ELSE left'[handles'[j]] = Chunks + 1
    <3>1. CASE j = N + 1
      <4>0. k <= N + 1 /\ N + 1 \in Nat
        BY <2>s
      <4>1. ~(j < k)
        BY <3>1, <4>0
      <4>2. left'[handles'[j]] = Chunks + 1
        BY <1>3, <1>6, <3>1
      <4> QED
        BY <2>c, <4>1, <4>2
    <3>2. CASE j \in 1..N
      <4>1. left'[handles'[j]] = left[handles[j]]
        BY <1>3, <1>6, <1>h, <1>n, <3>2
      <4> QED
        BY <2>s, <3>2, <4>1
    <3> QED
        BY SMTT(30), <1>n, <3>1, <3>2
  <2>7. to.count = IF k <= N + 1 THEN Chunks + 1 - left'[handles'[k]] ELSE 0
    <3>1. CASE k = N + 1
      <4>1. left'[handles'[k]] = Chunks + 1 /\ ~(k <= N) /\ k <= N + 1
        BY <1>3, <1>6, <1>n, <3>1
      <4> QED
        BY <2>s, <2>c, <4>1
    <3>2. CASE k \in 1..N
      <4>1. left'[handles'[k]] = left[handles[k]] /\ k <= N /\ k <= N + 1
        BY <1>3, <1>6, <1>h, <1>n, <3>2
      <4> QED
        BY <2>s, <4>1
    <3> QED
        BY SMTT(30), <1>n, <2>s, <3>1, <3>2
  <2> QED
    BY <1>3, <2>1, <2>2, <2>4, <2>5, <2>6, <2>7 DEF Served
<1>11. r \in 1..Len(handles') + 1
    BY <1>1, <1>3, <1>n
<1> QED
    BY <1>1, <1>7, <1>8, <1>9, <1>10, <1>11 DEF HandleStream

(* The connection is gone: what the queue holds may be lost, or read. *)
LEMMA HandleFails ==
    ASSUME SizeAssumption, RTyped, HandleStream, ListenerFails
    PROVE  HandleStream'
<1> USE DEF client, queues, iterators, server
<1>0. RTypes /\ Numbers /\ data = << >> /\ session = "dead" /\ retrieveQueue \in QueueType
  <2>1. RTypes /\ Numbers
    BY DEF RTyped, RequestKinds
  <2> QED
    BY <2>1 DEF ListenerFails, RTypes
<1>1. PICK r \in 1..Len(handles) + 1, mid \in Places, to \in Places :
          /\ HandleShape(r)
          /\ Along(handles, Chunks, retrieveQueue.elems, ReadTo(r), mid)
          /\ Along(handles, Chunks, data, mid, to)
          /\ Served(to)
    BY DEF HandleStream
<1>2. UNCHANGED <<handles, got, over, data, session>> /\ retrieveQueue'.elems \in {retrieveQueue.elems, << >>}
    BY <1>0, QueueInterrupts DEF ListenerFails
<1>3. HandleShape(r)' /\ ReadTo(r)' = ReadTo(r)
  <2>1. SameHandles
    BY <1>2 DEF SameHandles
  <2>2. \A i \in 1..Len(retrieveQueue'.elems) : retrieveQueue'.elems[i].id \in Handles
    <3>1. \A i \in 1..Len(retrieveQueue.elems) : retrieveQueue.elems[i].id \in Handles
        BY <1>1 DEF HandleShape
    <3>2. \A i \in 1..Len(<< >>) : << >>[i].id \in Handles
        OBVIOUS
    <3> QED
        BY <1>2, <3>1, <3>2
  <2> QED
    BY <1>0, <1>1, <2>1, <2>2, SameShape
<1>4. \A q : Served(q)'
    BY <1>0, <1>2 DEF Served
<1>5. CASE retrieveQueue'.elems = retrieveQueue.elems
    BY <1>1, <1>2, <1>3, <1>4, <1>5 DEF HandleStream
<1>6. CASE retrieveQueue'.elems = << >>
  <2>1. ReadTo(r) \in Places
    BY <1>0, <1>1, ReadToIsPlace
  <2>2. Along(handles, Chunks, << >>, ReadTo(r), ReadTo(r))
    BY <2>1, AlongNothing
  <2> QED
    BY <1>0, <1>1, <1>2, <1>3, <1>4, <1>6, <2>1, <2>2 DEF HandleStream
<1> QED
    BY <1>2, <1>5, <1>6

-------------------------------------------------------------------------------
(* The invariant holds, and the theorems. *)

(* The messages for the handles are in order, in the queue and on the connection. *)
LEMMA NextHandleStream ==
    ASSUME SizeAssumption, RTyped, HandleStream, Next
    PROVE  HandleStream'
<1> USE DEF client, queues, iterators, server
<1>0. RTypes /\ Numbers /\ UserShape /\ DataKinds /\ 0 \notin Ids /\ Handles \subseteq Ids /\ 0 \notin Handles
  <2>1. RTypes /\ Numbers /\ Handles \subseteq Ids /\ 0 \notin Ids
    BY NumberTypes
  <2> QED
    BY <2>1 DEF RTyped
<1>t. /\ got \in [Ids -> Seq(Messages)] /\ left \in [Ids -> Nat] /\ data \in Seq(Messages)
      /\ over \in [Ids -> {"none", "open", "ended", "failed", "dropped", "archive"}]
      /\ pump \in [Ids -> {"none", "run", "ended"}]
    BY <1>0 DEF RTypes
<1>i. \A k \in Ids : IsIterator(k) => k \notin Handles
    BY <1>0 DEF Numbers
<1>n. nextId \notin Handles
  <2>1. \A h \in Handles : h < nextId
    BY <1>0 DEF Numbers, Handles
  <2>2. ~(nextId < nextId)
    BY NumberTypes
  <2> QED
    BY <2>1, <2>2
<1>q. ASSUME SameHandles, SameWork, retrieveQueue' = retrieveQueue,
             data' = data \/ \E m \in Messages : data' = Append(data, m) /\ m.id \notin Handles
      PROVE  HandleStream'
    BY <1>0, <1>q, HandlesQuiet
<1>1. ASSUME NEW k \in Ids, ReadReturns(k) PROVE HandleStream'
    BY <1>1, HandleRead
<1>2. CASE DataHandle
    BY <1>2, HandleMore
<1>3. CASE ListenerFails
    BY <1>3, HandleFails
<1>4. CASE ReaderSends
    BY <1>4, HandleSent
<1>5. CASE ListenerRead
  <2>1. PICK m \in Messages :
            /\ data # << >> /\ data' = Tail(data) /\ m = Head(data) /\ m = data[1]
            /\ UNCHANGED <<client, iterators, server>>
            /\ \/ ReadsExit(m) \/ ReadsElement(m) \/ ReadsEnd(m)
               \/ ReadsArchiveError(m) \/ ReadsForHandle(m)
    BY <1>5, ListenerMoves DEF RTyped
  <2>2. SameHandles /\ SameWork
    BY <2>1 DEF SameHandles, SameWork
  <2>3. OnData(m)
    BY <1>0, <1>t, <2>1 DEF DataKinds
  <2>4. CASE ReadsForHandle(m)
    <3>1. m.id \in Handles
        BY <2>3, <2>4 DEF ReadsForHandle, OnData
    <3> QED
        BY <1>0, <2>1, <2>2, <2>4, <3>1, HandlesForwarded DEF ReadsForHandle
  <2>5. CASE ReadsExit(m) \/ ReadsElement(m) \/ ReadsEnd(m) \/ ReadsArchiveError(m)
    <3>1. m.id \notin Handles
      <4>1. CASE ReadsExit(m)
        BY <1>0, <2>3, <4>1 DEF ReadsExit, OnData
      <4>2. CASE ReadsElement(m) \/ ReadsEnd(m)
        BY <1>0, <4>2 DEF ReadsElement, ReadsEnd, Numbers
      <4>3. CASE ReadsArchiveError(m)
        BY <1>0, <4>3 DEF ReadsArchiveError, Numbers
      <4> QED
        BY <2>5, <4>1, <4>2, <4>3
    <3>2. retrieveQueue' = retrieveQueue
        BY <2>5 DEF ReadsExit, ReadsElement, ReadsEnd, ReadsArchiveError
    <3> QED
        BY <1>0, <2>1, <2>2, <3>1, <3>2, HandlesPassed
  <2> QED
    BY <2>1, <2>4, <2>5
<1>6. ASSUME NEW k \in Ids, NextReturns(k) \/ DropReturns(k) PROVE HandleStream'
  <2>1. k \notin Handles
    BY <1>0, <1>6, <1>i DEF NextReturns, DropReturns, Returns, UserShape
  <2>2. \A h \in Handles : got'[h] = got[h] /\ over'[h] = over[h]
    <3>1. \A h \in Handles : h \in Ids /\ h # k
        BY <1>0, <2>1
    <3>2. CASE NextReturns(k)
        BY <1>t, <3>1, <3>2 DEF NextReturns
    <3>3. CASE DropReturns(k)
        BY <1>t, <3>1, <3>3 DEF DropReturns
    <3> QED
        BY <1>6, <3>2, <3>3
  <2>3. UNCHANGED <<handles, session, left, readQueue, retrieveQueue, data>>
    BY <1>6 DEF NextReturns, DropReturns
  <2> QED
    BY <1>q, <2>2, <2>3 DEF SameHandles, SameWork
<1>7. ASSUME NEW k \in Ids, PumpPop(k) \/ PumpPush(k) \/ PumpEnds(k) \/ Next_(k) \/ Drop(k) \/ Read(k)
      PROVE  HandleStream'
  <2>1. UNCHANGED <<handles, got, over, session, left, readQueue, retrieveQueue, data>>
    BY <1>7 DEF PumpPop, PumpPush, PumpEnds, Next_, Drop, Read, Begin
  <2> QED
    BY <1>q, <2>1 DEF SameHandles, SameWork
<1>8. CASE Disconnected \/ Disconnect \/ ResetArchive
  <2>1. UNCHANGED <<handles, got, over, left, readQueue, retrieveQueue, data>>
        /\ (session' # "dead" => session # "dead")
    BY <1>8 DEF Disconnected, Disconnect, ResetArchive
  <2> QED
    BY <1>q, <2>1 DEF SameHandles, SameWork
<1>9. ASSUME NEW k \in Ids, WorkerSends(k) PROVE HandleStream'
  <2>1. Answer(k, Elements, readQueue) /\ left[k] <= Elements + 1 /\ k \notin Handles
    BY <1>9, ServerSends DEF RTyped
  <2>2. PICK m \in Messages :
            /\ data' = Append(data, m) /\ m.id = k /\ readQueue' = readQueue
            /\ left' = [left EXCEPT ![k] = left[k] - 1] \/ left' = [left EXCEPT ![k] = 0]
    BY <1>0, <2>1, Sizes, AnswerSends
  <2>3. \A h \in Handles : left'[h] = left[h]
    <3>1. \A h \in Handles : h \in Ids /\ h # k
        BY <1>0, <2>1
    <3> QED
        BY <1>t, <2>2, <3>1
  <2>4. UNCHANGED <<handles, got, over, session, retrieveQueue>>
    BY <1>9 DEF WorkerSends
  <2> QED
    BY <1>q, <2>1, <2>2, <2>3, <2>4 DEF SameHandles, SameWork
<1>10. CASE HandlerEnds
  <2>1. PICK m : m = Message("Exit", 0, 0)
    OBVIOUS
  <2>2. m \in Messages /\ m.id \notin Handles
    BY <1>0, <2>1, Sizes DEF Message, Messages
  <2>3. UNCHANGED <<handles, got, over, left, readQueue, retrieveQueue>> /\ session # "dead"
        /\ data' = Append(data, m)
    BY <1>10, <2>1 DEF HandlerEnds, Sends
  <2> QED
    BY <1>q, <2>2, <2>3 DEF SameHandles, SameWork
<1>11. CASE ArchiveError
  <2>1. PICK k \in Ids : over[k] = "archive" /\ Sends(Message("Error", k, 0)) /\ over' = [over EXCEPT ![k] = "failed"]
    BY <1>11 DEF ArchiveError
  <2>2. PICK m : m = Message("Error", k, 0)
    OBVIOUS
  <2>3. m \in Messages /\ m.id \notin Handles /\ k \notin Handles
    BY <1>0, <2>1, <2>2, Sizes DEF Message, Messages, Ids, Numbers
  <2>4. \A h \in Handles : over'[h] = over[h]
    BY <1>0, <1>t, <2>1, <2>3
  <2>5. UNCHANGED <<handles, got, session, left, readQueue, retrieveQueue>> /\ data' = Append(data, m)
    BY <1>11, <2>1, <2>2 DEF ArchiveError, Sends
  <2> QED
    BY <1>q, <2>3, <2>4, <2>5 DEF SameHandles, SameWork
<1>12. CASE ServerDies
  <2>1. UNCHANGED <<handles, got, over, retrieveQueue, data>> /\ session' = "dead"
    BY <1>12 DEF ServerDies
  <2> QED
    BY <1>q, <2>1 DEF SameHandles, SameWork
<1>13. ASSUME NEW kind, Forward(kind) \/ ForwardThrows(kind) \/ DataHandleThrows \/ StartArchive PROVE HandleStream'
  <2>1. /\ UNCHANGED <<handles, got, readQueue, retrieveQueue, data>> /\ (session' # "dead" => session # "dead")
        /\ \E v : over' = [over EXCEPT ![nextId] = v]
        /\ left' = left \/ \E v : left' = [left EXCEPT ![nextId] = v]
    BY <1>13 DEF Forward, ForwardThrows, DataHandleThrows, StartArchive
  <2>2. \A h \in Handles : h \in Ids /\ h # nextId
    BY <1>0, <1>n
  <2>3. \A h \in Handles : over'[h] = over[h] /\ left'[h] = left[h]
    BY <1>t, <2>1, <2>2
  <2> QED
    BY <1>q, <2>1, <2>3 DEF SameHandles, SameWork
<1> QED
    BY <1>1, <1>2, <1>3, <1>4, <1>5, <1>6, <1>7, <1>8, <1>9, <1>10, <1>11, <1>12, <1>13
       DEF Next, UserReturns, Threads

(* The invariant holds of the first state. *)
LEMMA InitRInv ==
    ASSUME SizeAssumption, Init
    PROVE  RInv
<1> USE DEF Init
<1>s. /\ MaxRequests \in Nat /\ MaxRequests > 0 /\ Elements \in Nat /\ Chunks \in Nat
      /\ QueueCap \in Nat /\ IterCap \in Nat /\ RetrieveCap \in Nat /\ DataCap \in Nat
    BY Sizes
<1>e. /\ << >> \in Seq(Messages) /\ << >> \in Seq(Ids) /\ Len(<< >>) = 0
      /\ NewQueue \in QueueType /\ NewQueue.elems = << >> /\ ~NewQueue.closed /\ ~NewQueue.interrupted
    BY DEF NewQueue, QueueType
<1>h. Handles = {}
    BY <1>e DEF Handles
<1>p. \A id \in Ids : ~IsIterator(id)
    BY DEF IsIterator
<1>1. RTypes
  <2>1. UserTypes
    BY <1>s, <1>e DEF UserTypes, Idle
  <2>2. OtherTypes
    BY <1>s, <1>e DEF OtherTypes
  <2> QED
    BY <2>1, <2>2 DEF UserTypes, OtherTypes, RTypes
<1>2. RBounds
    BY <1>s, <1>e, <1>p DEF RBounds
<1>3. RequestKinds
    BY <1>e, <1>h, <1>p DEF RequestKinds, Numbers, Fresh, Owed
<1>4. DataKinds /\ UserShape /\ DeadIsSilent
    BY <1>e DEF DataKinds, UserShape, DeadIsSilent, Idle
<1>5. Iterators /\ IterStreams
    BY <1>p DEF Iterators, IterStreams
<1>6. HandleStream
  <2>1. HandleShape(1)
    BY <1>e DEF HandleShape
  <2>2. ReadTo(1) = Place(1, 0) /\ Place(1, 0) \in Places /\ Place(1, 0).request = 1 /\ Place(1, 0).count = 0
    BY <1>e DEF ReadTo, Place, Places
  <2>3. Served(Place(1, 0))
    <3>1. PICK to \in Places : to = Place(1, 0) /\ to.request = 1 /\ to.count = 0
        BY <2>2
    <3>2. /\ Len(handles) = 0 /\ Len(readQueue) = 0
          /\ \A j \in 1..Len(readQueue) : FALSE
          /\ \A j \in 1..Len(handles) : FALSE
        BY <1>e
    <3>3. 1 \in 1..Len(handles) + 1 /\ Len(readQueue) = Len(handles) + 1 - 1 /\ ~(1 <= Len(handles))
        BY <3>2
    <3>4. /\ to.request \in 1..Len(handles) + 1 /\ Len(readQueue) = Len(handles) + 1 - to.request
          /\ to.count = IF to.request <= Len(handles) THEN Chunks + 1 - left[handles[to.request]] ELSE 0
        BY <3>1, <3>3
    <3>5. Served(to)
        BY <3>2, <3>4 DEF Served
    <3> QED
        BY <3>1, <3>5
  <2>4. Along(handles, Chunks, << >>, Place(1, 0), Place(1, 0))
    BY <2>2, AlongNothing
  <2>5. 1 \in 1..Len(handles) + 1
    BY <1>e
  <2> QED
    BY <1>e, <2>1, <2>2, <2>3, <2>4, <2>5 DEF HandleStream
<1> QED
    BY <1>1, <1>2, <1>3, <1>4, <1>5, <1>6 DEF RInv

(* A stuttering step changes nothing of it. *)
LEMMA StutterRInv ==
    ASSUME RInv, UNCHANGED vars
    PROVE  RInv'
<1>1. /\ UNCHANGED <<nextId, user, handles, got, over, archiveId>>
      /\ UNCHANGED <<registered, queue, retrieveQueue, listener, pump, hand, iter>>
      /\ UNCHANGED <<session, left, readQueue, data>>
    BY DEF vars, client, queues, iterators, server
<1>2. Handles' = Handles /\ \A id \in Ids : IsIterator(id)' <=> IsIterator(id)
    BY <1>1 DEF Handles, IsIterator
<1>3. RTypes' /\ RBounds'
    BY <1>1, <1>2 DEF RInv, RTypes, RBounds, Handles, IsIterator
<1>4. RequestKinds' /\ DataKinds'
    BY <1>1, <1>2 DEF RInv, RequestKinds, Numbers, Fresh, Owed, DataKinds, OnData, Handles, IsIterator
<1>5. UserShape' /\ DeadIsSilent'
    BY <1>1 DEF RInv, UserShape, DeadIsSilent, IsIterator
<1>6. Iterators' /\ IterStreams'
    BY <1>1 DEF RInv, Iterators, IterStreams, IterShape, IterStream, IterStreamFrom, Taken, Passed, IsIterator
<1>7. HandleStream'
    BY <1>1 DEF RInv, HandleStream, HandleShape, ReadTo, Served, Handles
<1> QED
    BY <1>3, <1>4, <1>5, <1>6, <1>7 DEF RInv

(* Every step keeps the invariant. *)
LEMMA NextRInv ==
    ASSUME SizeAssumption, ~ReadsAgain, ~LateErrors, RInv, Next
    PROVE  RInv'
<1>1. RTyped /\ Iterators /\ IterStreams /\ HandleStream
    BY DEF RInv, RTyped
<1>2. RTypes' /\ RBounds' /\ RequestKinds'
    BY <1>1, NextRTypes, NextRBounds, NextRequestKinds DEF RTyped
<1>3. DataKinds' /\ UserShape' /\ DeadIsSilent'
    BY <1>1, NextDataKinds, NextUserShape, NextDeadIsSilent
<1>4. Iterators' /\ IterStreams' /\ HandleStream'
    BY <1>1, NextIterators, NextIterStreams, NextHandleStream
<1> QED
    BY <1>2, <1>3, <1>4 DEF RInv

(* The invariant holds in every state. *)
LEMMA RInvHolds == ~ReadsAgain /\ ~LateErrors => (Spec => []RInv)
<1> SUFFICES ASSUME ~ReadsAgain, ~LateErrors
             PROVE  Spec => []RInv
    OBVIOUS
<1>1. Init => RInv
    BY SizeAssumption, InitRInv
<1>2. RInv /\ [Next]_vars => RInv'
    BY SizeAssumption, StutterRInv, NextRInv
<1> QED
    BY <1>1, <1>2, PTL DEF Spec

(***************************************************************************)
(* What the invariant says of the handles, and of the iterators.           *)
(***************************************************************************)
LEMMA RInvGivesFields ==
    ASSUME SizeAssumption, RInv
    PROVE  HandleGetsItsField
<1>0. RTypes /\ RBounds /\ Numbers /\ HandleStream
    BY DEF RInv, RequestKinds
<1>h. /\ handles \in Seq(Ids) /\ Len(handles) \in Nat /\ DOMAIN handles = 1..Len(handles)
      /\ \A i \in 1..Len(handles) : handles[i] \in Ids
    BY <1>0, HandlesDiffer
<1>1. TypeOK
  <2>1. ToSet(handles) \subseteq Ids
    BY <1>h DEF ToSet
  <2> QED
    BY <1>0, <2>1 DEF TypeOK, RTypes, RBounds
<1>2. ASSUME NEW i \in DOMAIN handles PROVE InOrder(handles[i], Chunks)
  <2>1. PICK r \in 1..Len(handles) + 1 : HandleShape(r)
    BY <1>0 DEF HandleStream
  <2>2. /\ Blobs(got[handles[i]], handles[i], 0)
        /\ over[handles[i]] = "ended" => Len(got[handles[i]]) = Chunks
    BY <1>h, <1>2, <2>1 DEF HandleShape
  <2>3. got[handles[i]] \in Seq(Messages)
    BY <1>0, <1>h, <1>2 DEF RTypes
  <2>4. \A j \in DOMAIN got[handles[i]] : got[handles[i]][j] = Message("Blob", handles[i], j)
    <3>1. \A j \in 1..Len(got[handles[i]]) : 0 + j = j
        BY <2>3
    <3>2. DOMAIN got[handles[i]] = 1..Len(got[handles[i]])
        BY <2>3
    <3>3. \A j \in 1..Len(got[handles[i]]) : got[handles[i]][j] = Message("Blob", handles[i], 0 + j)
        BY <2>2 DEF Blobs, Blob
    <3> QED
        BY <3>1, <3>2, <3>3
  <2> QED
    BY <2>2, <2>4 DEF InOrder
<1> QED
    BY <1>1, <1>2 DEF HandleGetsItsField

(* An iterator has been given the elements of its call, and at its end all of them. *)
LEMMA RInvCompletes ==
    ASSUME RInv
    PROVE  IteratorIsComplete
<1> SUFFICES ASSUME NEW id \in Ids, IsIterator(id) PROVE InOrder(id, Elements)
    BY DEF IteratorIsComplete
<1>1. /\ Blobs(got[id], id, 0) /\ (over[id] = "ended" => Len(got[id]) = Elements)
    BY DEF RInv, Iterators, IterShape
<1>2. got[id] \in Seq(Messages)
    BY DEF RInv, RTypes
<1>3. \A j \in DOMAIN got[id] : got[id][j] = Message("Blob", id, j)
  <2>1. \A j \in 1..Len(got[id]) : 0 + j = j
    BY <1>2
  <2> QED
    BY <1>1, <1>2, <2>1 DEF Blobs, Blob
<1> QED
    BY <1>1, <1>3 DEF InOrder

(***************************************************************************)
(* A data handle of a retrieval is given the chunks of its own field, in   *)
(* order, and all of them before it says it is at its end, though the      *)
(* messages of all handles go through one queue (RemoteFDB.cc,             *)
(* FDBRemoteDataHandle and retrieveMessageQueue_), if no handle is read    *)
(* after its end.                                                          *)
(***************************************************************************)
THEOREM HandlesGetTheirFields == ~ReadsAgain /\ ~LateErrors => (Spec => []HandleGetsItsField)
<1>1. RInv => HandleGetsItsField
    BY SizeAssumption, RInvGivesFields
<1> QED
    BY <1>1, RInvHolds, PTL

(***************************************************************************)
(* The iterator of a call gives the elements the server found, in order,   *)
(* and ends without an error only after the last one, whichever of the     *)
(* listening thread, the iterator's thread and the user is ahead           *)
(* (RemoteFDB.cc, forwardApiCall and listeningThreadLoop;                  *)
(* APIIterator.h, APIAsyncIterator).                                       *)
(***************************************************************************)
THEOREM IteratorsAreComplete == ~ReadsAgain /\ ~LateErrors => (Spec => []IteratorIsComplete)
<1>1. RInv => IteratorIsComplete
    BY RInvCompletes
<1> QED
    BY <1>1, RInvHolds, PTL

-----------------------------------------------------------------------------
(* The ports FreePort lists. *)

(* The ports up to n that are no service's. *)
LastPort == PortCount + Cardinality(Services)
FreeUpTo(n) == {p \in 1..n : p \notin Services}
Above(c) == {p \in 1..LastPort : p > c /\ p \notin Services}

(* The list of the first n of them, from which FreePort takes its definition. *)
PortList(n, f) == f = [i \in 0..n |-> IF i = 0 THEN 0 ELSE Min(Above(f[i - 1]))]

(* There is such a list, of any length. *)
LEMMA PortListsExist ==
    ASSUME NEW n \in Nat
    PROVE  \E f : PortList(n, f)
<1> DEFINE bad == {m \in Nat : ~ \E f : PortList(m, f)}
<1> SUFFICES ASSUME bad # {} PROVE FALSE
    OBVIOUS
<1>1. PICK m \in bad : \A k \in bad : m <= k
    BY LeastNat
<1>2. m # 0
  <2>1. PortList(0, [i \in 0..0 |-> 0])
    BY DEF PortList
  <2> QED
    BY <2>1
<1>3. PICK f : PortList(m - 1, f)
  <2>1. m - 1 \in Nat /\ ~(m <= m - 1)
    BY <1>1, <1>2
  <2> QED
    BY <1>1, <2>1
<1> DEFINE g == [i \in 0..m |-> IF i < m THEN f[i] ELSE Min(Above(f[m - 1]))]
<1>4. ASSUME NEW i \in 0..m PROVE g[i] = IF i = 0 THEN 0 ELSE Min(Above(g[i - 1]))
  <2>1. CASE i < m
    <3>1. i \in 0..m - 1 /\ g[i] = f[i]
        BY <2>1
    <3>2. f[i] = IF i = 0 THEN 0 ELSE Min(Above(f[i - 1]))
        BY <1>3, <3>1 DEF PortList
    <3>3. i # 0 => i - 1 \in 0..m /\ i - 1 < m
        BY <2>1
    <3>4. i # 0 => g[i - 1] = f[i - 1]
        BY <3>3
    <3> QED
        BY <3>1, <3>2, <3>4
  <2>2. CASE i = m
    <3>1. m - 1 \in 0..m /\ m - 1 < m
        BY <1>2
    <3>2. g[m - 1] = f[m - 1] /\ g[m] = Min(Above(f[m - 1]))
        BY <3>1
    <3> QED
        BY <1>2, <2>2, <3>2
  <2> QED
    BY <2>1, <2>2
<1>5. PortList(m, g)
  <2> HIDE DEF g
  <2>1. g = [i \in 0..m |-> g[i]]
    BY DEF g
  <2> QED
    BY <1>4, <2>1 DEF PortList
<1> QED
    BY <1>5

(* So FreePort is one. *)
LEMMA FreePortIsList == ASSUME SessionAssumption PROVE PortList(PortCount, FreePort)
<1>1. PortCount \in Nat
    BY DEF SessionAssumption
<1>2. \E f : PortList(PortCount, f)
    BY <1>1, PortListsExist
<1>3. FreePort = CHOOSE f : PortList(PortCount, f)
    BY DEF FreePort, PortList, Above, LastPort
<1> QED
    BY <1>2, <1>3

(* The services leave as many ports as the list needs. *)
LEMMA EnoughPorts ==
    ASSUME SessionAssumption
    PROVE  /\ LastPort \in Nat
           /\ \A n \in Nat : IsFiniteSet(FreeUpTo(n)) /\ Cardinality(FreeUpTo(n)) \in Nat
           /\ PortCount <= Cardinality(FreeUpTo(LastPort))
<1>1. PortCount \in Nat /\ IsFiniteSet(Services) /\ Cardinality(Services) \in Nat
    BY FS_CardinalityType DEF SessionAssumption
<1>2. LastPort \in Nat /\ LastPort = PortCount + Cardinality(Services)
    BY <1>1 DEF LastPort
<1>3. ASSUME NEW n \in Nat PROVE IsFiniteSet(FreeUpTo(n)) /\ Cardinality(FreeUpTo(n)) \in Nat
  <2>1. IsFiniteSet(1..n)
    BY FS_Interval
  <2>2. FreeUpTo(n) \in SUBSET (1..n)
    BY DEF FreeUpTo
  <2>3. IsFiniteSet(FreeUpTo(n))
    BY <2>1, <2>2, FS_Subset
  <2> QED
    BY <2>3, FS_CardinalityType
<1>4. PortCount <= Cardinality(FreeUpTo(LastPort))
  <2>1. IsFiniteSet(1..LastPort) /\ Cardinality(1..LastPort) = LastPort
    BY <1>2, FS_Interval
  <2>2. FreeUpTo(LastPort) = (1..LastPort) \ Services
    BY DEF FreeUpTo
  <2>3. Cardinality((1..LastPort) \ Services)
            = Cardinality(1..LastPort) - Cardinality((1..LastPort) \cap Services)
    BY <2>1, FS_Difference
  <2>4. (1..LastPort) \cap Services \in SUBSET Services
    OBVIOUS
  <2>5. IsFiniteSet((1..LastPort) \cap Services)
        /\ Cardinality((1..LastPort) \cap Services) <= Cardinality(Services)
    BY <1>1, <2>4, FS_Subset
  <2>6. Cardinality((1..LastPort) \cap Services) \in Nat
    BY <2>5, FS_CardinalityType
  <2>7. PICK c \in Nat : c = Cardinality((1..LastPort) \cap Services)
    BY <2>6
  <2>8. PICK s \in Nat : s = Cardinality(Services)
    BY <1>1
  <2>9. Cardinality(FreeUpTo(LastPort)) = LastPort - c /\ c <= s /\ LastPort = PortCount + s
    BY ONLY <1>2, <2>1, <2>2, <2>3, <2>5, <2>7, <2>8
  <2> QED
    BY ONLY <1>1, <2>7, <2>8, <2>9
<1> QED
    BY <1>2, <1>3, <1>4

(***************************************************************************)
(* Port number i of the list is the i-th port that is no service's: it is  *)
(* one, and no other of the list is.                                       *)
(***************************************************************************)
LEMMA FreePortCounts ==
    ASSUME SessionAssumption, NEW i \in 0..PortCount
    PROVE  /\ FreePort[i] \in Nat
           /\ Cardinality(FreeUpTo(FreePort[i])) = i
           /\ i # 0 => FreePort[i] # 0 /\ FreePort[i] \notin Services
<1>0. PortCount \in Nat
    BY DEF SessionAssumption
<1> DEFINE good(k) == /\ FreePort[k] \in Nat
                      /\ Cardinality(FreeUpTo(FreePort[k])) = k
                      /\ k # 0 => FreePort[k] # 0 /\ FreePort[k] \notin Services
           bad == {k \in 0..PortCount : ~good(k)}
<1> SUFFICES ASSUME bad # {} PROVE FALSE
    OBVIOUS
<1>1. PICK m \in bad : \A k \in bad : m <= k
  <2>1. bad \in SUBSET Nat
    BY <1>0
  <2> HIDE DEF bad
  <2> QED
    BY <2>1, LeastNat
<1>2. \A k \in 0..PortCount : FreePort[k] = IF k = 0 THEN 0 ELSE Min(Above(FreePort[k - 1]))
    BY FreePortIsList DEF PortList
<1>3. m # 0
  <2>1. FreePort[0] = 0
    BY <1>0, <1>2
  <2>2. FreeUpTo(0) = {}
    BY DEF FreeUpTo
  <2>3. good(0)
    BY <2>1, <2>2, FS_EmptySet
  <2> QED
    BY <1>1, <2>3
<1>4. PICK c : c = FreePort[m - 1]
    OBVIOUS
<1>5. c \in Nat /\ Cardinality(FreeUpTo(c)) = m - 1 /\ FreePort[m] = Min(Above(c))
  <2>1. m \in 1..PortCount /\ m - 1 \in 0..PortCount /\ ~(m <= m - 1)
    BY <1>0, <1>1, <1>3
  <2>2. good(m - 1)
    BY <1>1, <2>1
  <2> QED
    BY <1>2, <1>4, <2>1, <2>2
<1>6. Above(c) # {}
  <2> SUFFICES ASSUME Above(c) = {} PROVE FALSE
    OBVIOUS
  <2>1. FreeUpTo(LastPort) \in SUBSET FreeUpTo(c)
    BY <1>5, EnoughPorts DEF Above, FreeUpTo
  <2>2. Cardinality(FreeUpTo(LastPort)) <= Cardinality(FreeUpTo(c))
    BY <1>5, <2>1, EnoughPorts, FS_Subset
  <2>3. Cardinality(FreeUpTo(LastPort)) \in Nat
    BY EnoughPorts
  <2> QED
    BY <1>0, <1>1, <1>5, <2>2, <2>3, EnoughPorts
<1>7. PICK p : p = Min(Above(c))
    OBVIOUS
<1>8. p \in Above(c) /\ \A q \in Above(c) : p <= q
  <2>1. Above(c) \in SUBSET Nat
    BY EnoughPorts DEF Above
  <2>2. \E q \in Above(c) : \A r \in Above(c) : q <= r
    BY <1>6, <2>1, LeastNat
  <2> QED
    BY <1>7, <2>2 DEF Min
<1>9. p \in Nat /\ p > c /\ p \in 1..LastPort /\ p \notin Services
    BY <1>8, EnoughPorts DEF Above
<1>10. FreeUpTo(p) = FreeUpTo(c) \cup {p}
  <2>1. ASSUME NEW q \in FreeUpTo(p) PROVE q \in FreeUpTo(c) \cup {p}
    <3>1. q \in 1..p /\ q \notin Services
        BY <2>1 DEF FreeUpTo
    <3>2. CASE q > c
        <4>1. q \in Above(c)
            BY <1>9, <3>1, <3>2, EnoughPorts DEF Above
        <4> QED
            BY <1>8, <1>9, <3>1, <4>1
    <3>3. CASE ~(q > c)
        BY <1>5, <3>1, <3>3 DEF FreeUpTo
    <3> QED
        BY <3>2, <3>3
  <2>2. ASSUME NEW q \in FreeUpTo(c) PROVE q \in FreeUpTo(p)
    BY <1>5, <1>9, <2>2 DEF FreeUpTo
  <2>3. p \in FreeUpTo(p)
    BY <1>9 DEF FreeUpTo
  <2> QED
    BY <2>1, <2>2, <2>3
<1>11. p \notin FreeUpTo(c)
    BY <1>5, <1>9 DEF FreeUpTo
<1>12. Cardinality(FreeUpTo(p)) = m
  <2>1. Cardinality(FreeUpTo(c) \cup {p}) = Cardinality(FreeUpTo(c)) + 1
    BY <1>5, <1>11, EnoughPorts, FS_AddElement
  <2> QED
    BY <1>0, <1>1, <1>5, <1>10, <2>1
<1>13. good(m)
    BY <1>5, <1>7, <1>9, <1>12
<1> QED
    BY <1>1, <1>13

(* No port is in the list twice. *)
LEMMA FreePortsDiffer ==
    ASSUME SessionAssumption, NEW i \in 1..PortCount, NEW j \in 1..PortCount, FreePort[i] = FreePort[j]
    PROVE  i = j
<1>1. i \in 0..PortCount /\ j \in 0..PortCount
    BY DEF SessionAssumption
<1> QED
    BY <1>1, FreePortCounts

-----------------------------------------------------------------------------
(* The inductive invariant of the sessions. *)

PortEntries == [port : Nat, pid : Nat, deadTime : Nat]
Startups == [client : Clients, server : Clients]
Counts == [starts : Nat, faults : Nat]
SessionTypeOK ==
    /\ serverPid \in Nat /\ now \in Nat \ {0}
    /\ ports \in [1..PortCount -> PortEntries]
    /\ peer \in [Clients -> Clients]
    /\ clientPc \in [Clients -> {"new", "sent", "data", "connected", "gone"}]
    /\ dataPort \in [Clients -> Nat]
    /\ handlerPc \in [Clients -> {"none", "queued", "select", "ready", "accept", "main", "ended"}]
    /\ handlerPid \in [Clients -> Nat] /\ handlerPort \in [Clients -> Nat]
    /\ replied \subseteq Clients
    /\ backlog \in [Clients -> Seq(Startups)]
    /\ dataFrom \in [Clients -> Clients \cup {"none"}]
    /\ count \in Counts

(* The list of ports is made before there is a server or a handler, and never made again. *)
ListMade == \A i \in 1..PortCount : ports[i].port = FreePort[i]
ListWhenNeeded ==
    \/ ListMade
    \/ serverPid = 0 /\ Live = {} /\ \A i \in 1..PortCount : ports[i].port = 0

(* The entry of the list by which a handler has its port. *)
Owns(h, i) ==
    /\ ports[i].port = handlerPort[h] /\ ports[i].pid = handlerPid[h] /\ ports[i].deadTime = 0
    /\ handlerPort[h] \notin LateServices
PortsOwned ==
    /\ \A h \in Clients :
          /\ clientPc[h] = "new" => handlerPc[h] = "none"
          /\ handlerPc[h] \in {"none", "queued", "select"} => handlerPort[h] = 0
          /\ h \in Live =>
                /\ handlerPid[h] # 0
                /\ handlerPc[h] # "select" => \E i \in 1..PortCount : Owns(h, i)
    /\ \A h, g \in Live : h # g /\ handlerPort[h] # 0 => handlerPort[h] # handlerPort[g]

(* A client that has read its reply has its own handler, and the network no longer mispairs it. *)
Met(c) == peer[c] = c /\ clientPc[c] \in {"connected", "gone"}
IdsChecked ==
    /\ \A c \in Clients : clientPc[c] \in {"data", "connected"} => peer[c] = c
    /\ \A h \in Clients :
          /\ \A i \in 1..Len(backlog[h]) :
                backlog[h][i].server = backlog[h][i].client /\ Met(backlog[h][i].client)
          /\ handlerPc[h] = "main" /\ ~Refused(h) => dataFrom[h] = h /\ Met(h)

SInv == SessionTypeOK /\ ListWhenNeeded /\ PortsOwned /\ IdsChecked

-----------------------------------------------------------------------------
(* Types. *)

(* Ending handlers keeps the types of what it changes. *)
LEMMA EndAllTypes ==
    ASSUME SessionTypeOK, NEW H, EndAll(H)
    PROVE  /\ handlerPc' \in [Clients -> {"none", "queued", "select", "ready", "accept", "main", "ended"}]
           /\ handlerPid' \in [Clients -> Nat]
           /\ backlog' \in [Clients -> Seq(Startups)]
           /\ dataFrom' \in [Clients -> Clients \cup {"none"}]
BY DEF SessionTypeOK, EndAll

(* A process number is never zero. *)
LEMMA FreshPidType == ASSUME SessionAssumption PROVE FreshPids \subseteq Nat \ {0}
BY DEF FreshPids, SessionAssumption

(* What reaping does to one entry of the list. *)
LEMMA ReapedEntry ==
    ASSUME SessionTypeOK, NEW i \in 1..PortCount
    PROVE  /\ Reaped(ports[i]) \in PortEntries
           /\ Reaped(ports[i]).port = ports[i].port
           /\ ports[i].deadTime = 0 /\ isRunning(ports[i].pid) => Reaped(ports[i]) = ports[i]
<1>1. ports[i] \in PortEntries /\ now \in Nat
    BY DEF SessionTypeOK
<1> QED
    BY <1>1 DEF Reaped, PortEntries

(* The types of the list, after any step that changes it. *)
LEMMA InitialisedType ==
    ASSUME SessionAssumption, SessionTypeOK
    PROVE  Initialised \in [1..PortCount -> PortEntries]
<1>1. \A i \in 1..PortCount : FreePort[i] \in Nat
    BY FreePortCounts DEF SessionAssumption
<1> QED
    BY <1>1 DEF Initialised, SessionTypeOK, PortEntries

(* Every step of a session keeps the types. *)
LEMMA NextSessionType ==
    ASSUME SessionAssumption, SessionTypeOK, SessionNext
    PROVE  SessionTypeOK'
<1> USE DEF handler, network
<1>0. PortCount \in Nat
    BY DEF SessionAssumption
<1>c. [count EXCEPT !.starts = @ + 1] \in Counts /\ [count EXCEPT !.faults = @ + 1] \in Counts
    BY DEF SessionTypeOK, Counts
<1>1. CASE StartServer
  <2>2. count' \in Counts /\ ports' \in [1..PortCount -> PortEntries]
    BY <1>1, <1>c, InitialisedType DEF StartServer
  <2>1. serverPid' \in Nat
    BY <1>1, FreshPidType DEF StartServer
  <2> QED
    BY <1>1, <2>1, <2>2 DEF StartServer, SessionTypeOK
<1>2. CASE Reap
  <2>1. ports' \in [1..PortCount -> PortEntries]
    <3>1. \A i \in 1..PortCount : Reaped(ports[i]) \in PortEntries /\ ports[i] \in PortEntries
        BY ReapedEntry DEF SessionTypeOK
    <3> QED
        BY <1>2, <3>1 DEF Reap
  <2>2. \/ UNCHANGED <<serverPid, handler>>
        \/ serverPid' = 0 /\ (\E H : EndAll(H)) /\ UNCHANGED <<handlerPort, replied>>
    BY <1>2 DEF Reap, ServerGone
  <2>3. UNCHANGED <<mode, now, network, count>>
    BY <1>2 DEF Reap
  <2>4. CASE UNCHANGED <<serverPid, handler>>
    BY <2>1, <2>3, <2>4 DEF SessionTypeOK
  <2>5. ASSUME NEW H, EndAll(H), serverPid' = 0, UNCHANGED <<handlerPort, replied>> PROVE SessionTypeOK'
    BY <2>1, <2>3, <2>5, EndAllTypes DEF SessionTypeOK
  <2> QED
    BY <2>2, <2>4, <2>5
<1>3. CASE Tick
    BY <1>3 DEF Tick, SessionTypeOK
<1>4. CASE ServerCrash
  <2>1. serverPid' = 0 /\ \E H : EndAll(H)
    BY <1>4 DEF ServerCrash, ServerGone
  <2> QED
    BY <1>4, <2>1, EndAllTypes DEF ServerCrash, SessionTypeOK
<1>5. ASSUME NEW c \in Clients, ConnectControl(c) PROVE SessionTypeOK'
    BY <1>5 DEF ConnectControl, Becomes, SessionTypeOK
<1>6. ASSUME NEW c \in Clients, ConnectData(c) PROVE SessionTypeOK'
  <2>2. ASSUME NEW h \in Clients, backlog' = [backlog EXCEPT ![h] = Append(@, [client |-> c, server |-> c])]
        PROVE  backlog' \in [Clients -> Seq(Startups)]
    <3>1. [client |-> c, server |-> c] \in Startups
        BY DEF Startups
    <3> QED
        BY <2>2, <3>1 DEF SessionTypeOK
  <2>3. backlog' \in [Clients -> Seq(Startups)]
    BY <1>6, <2>2 DEF ConnectData, SessionTypeOK
  <2>4. count' \in Counts
    BY <1>6, <1>c DEF ConnectData, SessionTypeOK
  <2>5. clientPc' \in [Clients -> {"new", "sent", "data", "connected", "gone"}]
    BY <1>6 DEF ConnectData, Becomes, SessionTypeOK
  <2> QED
    BY <1>6, <2>3, <2>4, <2>5 DEF ConnectData, SessionTypeOK
<1>7. ASSUME NEW c \in Clients, ClientGone(c) PROVE SessionTypeOK'
    BY <1>7 DEF ClientGone, Becomes, SessionTypeOK
<1>8. ASSUME NEW h \in Clients, StartHandler(h) PROVE SessionTypeOK'
    BY <1>8, FreshPidType DEF StartHandler, SessionTypeOK
<1>9. ASSUME NEW h \in Clients, SelectDataPort(h) PROVE SessionTypeOK'
  <2>1. ports' \in [1..PortCount -> PortEntries]
    <3>1. \A i \in 1..PortCount : ports[i] \in PortEntries /\ handlerPid[h] \in Nat
        BY DEF SessionTypeOK
    <3>2. \A i \in 1..PortCount :
              ports[i] \in PortEntries /\ [ports[i] EXCEPT !.pid = handlerPid[h], !.deadTime = 0] \in PortEntries
        BY <3>1 DEF PortEntries
    <3> HIDE DEF PortEntries
    <3> QED
        BY <1>9, <3>2 DEF SelectDataPort
  <2>2. \/ EndAll({h}) /\ UNCHANGED handlerPort
        \/ /\ handlerPc' = [handlerPc EXCEPT ![h] = "ready"]
           /\ \E i \in 1..PortCount : handlerPort' = [handlerPort EXCEPT ![h] = ports[i].port]
           /\ UNCHANGED <<handlerPid, backlog, dataFrom>>
    <3>1. Usable # {} => Min(Usable) \in 1..PortCount
      <4>1. Usable \in SUBSET Nat
        BY DEF Usable, Unowned
      <4>2. Usable # {} => \E q \in Usable : \A r \in Usable : q <= r
        BY <4>1, LeastNat
      <4>3. Usable # {} => Min(Usable) \in Usable
        BY <4>2 DEF Min
      <4> QED
        BY <4>3 DEF Usable, Unowned
    <3> QED
        BY <1>9, <3>1 DEF SelectDataPort
  <2>3. UNCHANGED <<mode, serverPid, now, network, replied, count>>
    BY <1>9 DEF SelectDataPort
  <2>4. handlerPort' \in [Clients -> Nat]
    <3>1. \A i \in 1..PortCount : ports[i].port \in Nat
        BY DEF SessionTypeOK, PortEntries
    <3> QED
        BY <2>2, <3>1 DEF SessionTypeOK
  <2>5. CASE EndAll({h})
    BY <2>1, <2>3, <2>4, <2>5, EndAllTypes DEF SessionTypeOK
  <2>6. CASE handlerPc' = [handlerPc EXCEPT ![h] = "ready"] /\ UNCHANGED <<handlerPid, backlog, dataFrom>>
    BY <2>1, <2>3, <2>4, <2>6 DEF SessionTypeOK
  <2> QED
    BY <2>2, <2>5, <2>6
<1>10. ASSUME NEW h \in Clients, Reply(h) PROVE SessionTypeOK'
    BY <1>10 DEF Reply, SessionTypeOK
<1>11. ASSUME NEW h \in Clients, ReadReply(h) PROVE SessionTypeOK'
    BY <1>11 DEF ReadReply, Becomes, SessionTypeOK
<1>12. ASSUME NEW h \in Clients, AcceptData(h) PROVE SessionTypeOK'
  <2>1. CASE EndAll({h})
    BY <1>12, <2>1, EndAllTypes DEF AcceptData, SessionTypeOK
  <2>2. CASE /\ handlerPc' = [handlerPc EXCEPT ![h] = "main"]
             /\ dataFrom' = [dataFrom EXCEPT ![h] = backlog[h][1].client]
             /\ backlog' = [backlog EXCEPT ![h] = << >>]
             /\ UNCHANGED handlerPid
    <3>1. backlog[h] \in Seq(Startups) /\ backlog[h] # << >>
        BY <1>12 DEF AcceptData, SessionTypeOK
    <3>2. backlog[h][1] \in Startups
        BY <3>1
    <3>3. backlog[h][1].client \in Clients
        BY <3>2 DEF Startups
    <3>4. backlog' \in [Clients -> Seq(Startups)]
        BY <2>2 DEF SessionTypeOK
    <3>5. handlerPc' \in [Clients -> {"none", "queued", "select", "ready", "accept", "main", "ended"}]
          /\ dataFrom' \in [Clients -> Clients \cup {"none"}]
        BY <2>2, <3>3 DEF SessionTypeOK
    <3> QED
        BY <1>12, <2>2, <3>4, <3>5 DEF AcceptData, SessionTypeOK
  <2> QED
    BY <1>12, <2>1, <2>2 DEF AcceptData
<1>13. ASSUME NEW h \in Clients, HandlerEnded(h) \/ HandlerCrash(h) PROVE SessionTypeOK'
    BY <1>13, EndAllTypes DEF HandlerEnded, HandlerCrash, SessionTypeOK
<1>14. ASSUME NEW h \in Clients, NEW g \in Clients, Mispair(h, g) PROVE SessionTypeOK'
  <2>1. count' \in Counts
    BY <1>14, <1>c DEF Mispair
  <2>2. peer' \in [Clients -> Clients]
    BY <1>14 DEF Mispair, SessionTypeOK
  <2> QED
    BY <1>14, <2>1, <2>2 DEF Mispair, SessionTypeOK
<1> QED
    BY <1>1, <1>2, <1>3, <1>4, <1>5, <1>6, <1>7, <1>8, <1>9, <1>10, <1>11, <1>12, <1>13, <1>14
       DEF SessionNext

-----------------------------------------------------------------------------
(* The list of ports. *)

(* The list changes in three ways only: it is made, it is reaped, a handler takes from it. *)
LEMMA WhoChangesPorts ==
    ASSUME SessionNext
    PROVE  \/ ports' = ports \/ StartServer \/ Reap \/ \E h \in Clients : SelectDataPort(h)
BY DEF SessionNext, Tick, ServerCrash, ConnectControl, ConnectData, ClientGone, StartHandler, Reply,
       ReadReply, AcceptData, HandlerEnded, HandlerCrash, Mispair

(* Handlers are started by a server that runs; otherwise none comes to life. *)
LEMMA WhoLives ==
    ASSUME SessionTypeOK, SessionNext, NEW h \in Clients, h \in Live'
    PROVE  h \in Live \/ (StartHandler(h) /\ serverPid # 0)
<1> USE DEF Live, handler
<1>1. CASE StartServer
    BY <1>1 DEF StartServer
<1>2. CASE Reap \/ ServerCrash
    BY <1>2 DEF Reap, ServerCrash, ServerGone, EndAll
<1>3. CASE Tick
    BY <1>3 DEF Tick
<1>4. ASSUME NEW c \in Clients, ConnectControl(c) \/ ConnectData(c) \/ ClientGone(c) PROVE h \in Live
    BY <1>4 DEF ConnectControl, ConnectData, ClientGone, SessionTypeOK
<1>5. ASSUME NEW g \in Clients, StartHandler(g) PROVE h \in Live \/ (StartHandler(h) /\ serverPid # 0)
    BY <1>5 DEF StartHandler, SessionTypeOK
<1>6. ASSUME NEW g \in Clients,
             SelectDataPort(g) \/ Reply(g) \/ ReadReply(g) \/ AcceptData(g) \/ HandlerEnded(g) \/ HandlerCrash(g)
      PROVE  h \in Live
  <2>1. CASE SelectDataPort(g)
    <3>1. handlerPc[g] = "select" /\ (h # g => handlerPc'[h] = handlerPc[h])
        BY <2>1 DEF SelectDataPort, EndAll, SessionTypeOK
    <3> QED
        BY <3>1
  <2>2. CASE AcceptData(g)
    BY <2>2 DEF AcceptData, EndAll, SessionTypeOK
  <2>3. CASE Reply(g) \/ ReadReply(g) \/ HandlerEnded(g) \/ HandlerCrash(g)
    BY <2>3 DEF Reply, ReadReply, HandlerEnded, HandlerCrash, EndAll, SessionTypeOK
  <2> QED
    BY <1>6, <2>1, <2>2, <2>3
<1>7. ASSUME NEW f \in Clients, NEW g \in Clients, Mispair(f, g) PROVE h \in Live
    BY <1>7 DEF Mispair
<1> QED
    BY <1>1, <1>2, <1>3, <1>4, <1>5, <1>6, <1>7 DEF SessionNext

(* No step but the first start of a server changes a port number of the list. *)
LEMMA PortsKeepNumbers ==
    ASSUME SessionAssumption, SessionTypeOK, ListWhenNeeded, SessionNext, ~StartServer,
           NEW i \in 1..PortCount
    PROVE  ports'[i].port = ports[i].port
<1>1. ports[i] \in PortEntries
    BY DEF SessionTypeOK
<1>2. CASE Reap
    BY <1>1, <1>2, ReapedEntry DEF Reap
<1>3. ASSUME NEW h \in Clients, SelectDataPort(h) PROVE ports'[i].port = ports[i].port
    BY <1>1, <1>3 DEF SelectDataPort, PortEntries
<1> QED
    BY <1>2, <1>3, WhoChangesPorts

(* The list is there when it is needed. *)
LEMMA NextList ==
    ASSUME SessionAssumption, SessionTypeOK, ListWhenNeeded, SessionNext
    PROVE  ListWhenNeeded'
<1>0. PortCount \in Nat \ {0}
    BY DEF SessionAssumption
<1>1. CASE StartServer
  <2>1. ports' = Initialised
    BY <1>1 DEF StartServer
  <2>2. \A i \in 1..PortCount : FreePort[i] # 0
    BY <1>0, FreePortCounts
  <2>3. CASE ListMade
    BY <2>1, <2>2, <2>3 DEF ListMade, Initialised, ListWhenNeeded
  <2>4. CASE \A i \in 1..PortCount : ports[i].port = 0
    <3>1. ports' = [i \in 1..PortCount |-> [port |-> FreePort[i], pid |-> 0, deadTime |-> 0]]
        BY <1>0, <2>1, <2>4 DEF Initialised
    <3> QED
        BY <3>1 DEF ListMade, ListWhenNeeded
  <2> QED
    BY <2>3, <2>4 DEF ListWhenNeeded
<1>2. CASE ~StartServer
  <2>1. \A i \in 1..PortCount : ports'[i].port = ports[i].port
    BY <1>2, PortsKeepNumbers
  <2>2. CASE ListMade
    BY <2>1, <2>2 DEF ListMade, ListWhenNeeded
  <2>3. CASE serverPid = 0 /\ Live = {} /\ \A i \in 1..PortCount : ports[i].port = 0
    <3>1. serverPid' = 0
      <4>1. serverPid' = serverPid \/ serverPid' = 0
        BY <1>2 DEF SessionNext, Reap, Tick, ServerCrash, ServerGone, ConnectControl, ConnectData,
            ClientGone, StartHandler, SelectDataPort, Reply, ReadReply, AcceptData, HandlerEnded,
            HandlerCrash, Mispair
      <4> QED
        BY <2>3, <4>1, SMTT(30)
    <3>2. Live' = {}
      <4>1. ASSUME NEW h \in Live' PROVE FALSE
        BY <2>3, WhoLives DEF Live
      <4> QED
        BY <4>1
    <3> QED
        BY <2>1, <2>3, <3>1, <3>2 DEF ListWhenNeeded
  <2> QED
    BY <2>2, <2>3 DEF ListWhenNeeded
<1> QED
    BY <1>1, <1>2

-----------------------------------------------------------------------------
(* Handlers and their entries. *)

(* What a handler that takes no port does with the one it has, or has not. *)
HandlerGoesOn(h) ==
    /\ clientPc'[h] = "new" /\ handlerPc[h] = "none" => handlerPc'[h] = "none"
    /\ handlerPc'[h] \in {"none", "queued", "select"} => handlerPc[h] \in {"none", "queued", "select"}
    /\ h \in Live' =>
          \/ /\ h \in Live /\ handlerPid'[h] = handlerPid[h]
             /\ handlerPc'[h] # "select" => handlerPc[h] # "select"
          \/ /\ handlerPc[h] = "queued" /\ handlerPc'[h] = "select" /\ handlerPid'[h] # 0

(* Every handler goes on like that, but the one that selects its port. *)
LEMMA HandlersGoOn ==
    ASSUME SessionAssumption, SessionTypeOK, PortsOwned, SessionNext, NEW h \in Clients,
           ~SelectDataPort(h)
    PROVE  /\ HandlerGoesOn(h)
           /\ handlerPort'[h] = handlerPort[h]
<1> USE DEF handler
<1>0. handlerPc \in [Clients -> {"none", "queued", "select", "ready", "accept", "main", "ended"}]
      /\ handlerPid \in [Clients -> Nat] /\ handlerPort \in [Clients -> Nat]
    BY DEF SessionTypeOK
<1>1. CASE UNCHANGED handler
    BY <1>1 DEF HandlerGoesOn, Live
<1>2. ASSUME NEW H, EndAll(H), handlerPort' = handlerPort, \A g \in H : handlerPc[g] # "none" PROVE HandlerGoesOn(h)
    BY <1>0, <1>2 DEF EndAll, HandlerGoesOn, Live
<1>3. CASE StartServer \/ Tick
    BY <1>1, <1>3 DEF StartServer, Tick
<1>4. CASE Reap \/ ServerCrash
  <2>1. \/ UNCHANGED handler
        \/ handlerPort' = handlerPort /\ \E H : EndAll(H) /\ \A g \in H : handlerPc[g] # "none"
    BY <1>4 DEF Reap, ServerCrash, ServerGone, Live
  <2> QED
    BY <1>1, <1>2, <2>1
<1>5. ASSUME NEW c \in Clients, ConnectControl(c) \/ ConnectData(c) \/ ClientGone(c)
      PROVE  HandlerGoesOn(h) /\ handlerPort'[h] = handlerPort[h]
  <2>1. ASSUME ConnectControl(c) PROVE HandlerGoesOn(h) /\ handlerPort'[h] = handlerPort[h]
    <3>1. clientPc \in [Clients -> {"new", "sent", "data", "connected", "gone"}]
        BY DEF SessionTypeOK
    <3>2. clientPc[c] = "new" /\ handlerPc[c] = "none" /\ clientPc'[c] # "new"
        BY <2>1, <3>1 DEF ConnectControl, Becomes, PortsOwned
    <3>3. \/ handlerPc' = [handlerPc EXCEPT ![c] = "queued"]
          \/ handlerPc' = handlerPc
        BY <2>1 DEF ConnectControl
    <3>4. handlerPid' = handlerPid /\ handlerPort' = handlerPort
        BY <2>1 DEF ConnectControl
    <3> QED
        BY <1>0, <3>2, <3>3, <3>4 DEF HandlerGoesOn, Live
  <2>2. ASSUME ConnectData(c) \/ ClientGone(c) PROVE HandlerGoesOn(h) /\ handlerPort'[h] = handlerPort[h]
    BY <2>2 DEF ConnectData, ClientGone, HandlerGoesOn, Live
  <2> QED
    BY <1>5, <2>1, <2>2
<1>6. ASSUME NEW g \in Clients, StartHandler(g)
      PROVE  HandlerGoesOn(h) /\ handlerPort'[h] = handlerPort[h]
  <2>1. PICK pid : handlerPid' = [handlerPid EXCEPT ![g] = pid] /\ pid # 0
    BY <1>6, FreshPidType DEF StartHandler
  <2> QED
    BY <1>0, <1>6, <2>1 DEF StartHandler, HandlerGoesOn, Live
<1>7. ASSUME NEW g \in Clients, SelectDataPort(g)
      PROVE  HandlerGoesOn(h) /\ handlerPort'[h] = handlerPort[h]
    BY <1>0, <1>7 DEF SelectDataPort, EndAll, HandlerGoesOn, Live
<1>8. ASSUME NEW g \in Clients, Reply(g) \/ ReadReply(g) \/ AcceptData(g)
      PROVE  HandlerGoesOn(h) /\ handlerPort'[h] = handlerPort[h]
  <2>1. CASE Reply(g)
    BY <1>0, <2>1 DEF Reply, HandlerGoesOn, Live
  <2>2. CASE ReadReply(g)
    BY <1>1, <2>2 DEF ReadReply
  <2>3. CASE AcceptData(g)
    <3>1. handlerPc[g] = "accept" /\ handlerPort' = handlerPort
        BY <2>3 DEF AcceptData
    <3>2. CASE EndAll({g})
        BY <1>2, <3>1, <3>2
    <3>3. CASE handlerPc' = [handlerPc EXCEPT ![g] = "main"] /\ UNCHANGED handlerPid
        BY <1>0, <3>1, <3>3 DEF HandlerGoesOn, Live
    <3> QED
        BY <2>3, <3>1, <3>2, <3>3 DEF AcceptData
  <2> QED
    BY <1>8, <2>1, <2>2, <2>3
<1>9. ASSUME NEW g \in Clients, HandlerEnded(g) \/ HandlerCrash(g)
      PROVE  HandlerGoesOn(h) /\ handlerPort'[h] = handlerPort[h]
  <2>1. EndAll({g}) /\ handlerPort' = handlerPort /\ handlerPc[g] # "none"
    BY <1>9 DEF HandlerEnded, HandlerCrash, Live
  <2> QED
    BY <1>2, <2>1
<1>10. ASSUME NEW f \in Clients, NEW g \in Clients, Mispair(f, g)
       PROVE  HandlerGoesOn(h) /\ handlerPort'[h] = handlerPort[h]
    BY <1>1, <1>10 DEF Mispair
<1>11. (Reap \/ ServerCrash \/ StartServer \/ Tick) => handlerPort' = handlerPort
    BY DEF Reap, ServerCrash, StartServer, Tick
<1> QED
    BY <1>3, <1>4, <1>5, <1>6, <1>7, <1>8, <1>9, <1>10, <1>11 DEF SessionNext

(* The entry of a handler that lives on stays its own. *)
LEMMA EntryStays ==
    ASSUME SessionAssumption, SInv, SessionNext, NEW h \in Clients, ~SelectDataPort(h),
           h \in Live, h \in Live', handlerPc[h] # "select", NEW i \in 1..PortCount, Owns(h, i)
    PROVE  Owns(h, i)'
<1>1. handlerPort'[h] = handlerPort[h] /\ handlerPid'[h] = handlerPid[h]
    BY HandlersGoOn DEF SInv, HandlerGoesOn, Live
<1>2. handlerPid[h] # 0 /\ ListMade
    BY DEF SInv, PortsOwned, ListWhenNeeded
<1>3. ports'[i] = ports[i]
  <2>1. CASE StartServer
    <3>1. \A k \in 1..PortCount : FreePort[k] # 0
        BY FreePortCounts DEF SessionAssumption
    <3> QED
        BY <1>2, <2>1, <3>1 DEF StartServer, Initialised, ListMade
  <2>2. CASE Reap
    <3>1. isRunning(ports[i].pid) /\ ports[i].deadTime = 0
        BY DEF isRunning, Owns
    <3>2. Reaped(ports[i]) = ports[i]
        BY <3>1, ReapedEntry, SMTT(30) DEF SInv
    <3> QED
        BY <2>2, <3>2 DEF Reap
  <2>3. ASSUME NEW g \in Clients, SelectDataPort(g) PROVE ports'[i] = ports[i]
    <3>1. i \notin Unowned \cup Usable
        BY <1>2 DEF Unowned, Usable, Owns
    <3> QED
        BY <2>3, <3>1 DEF SelectDataPort
  <2> QED
    BY <2>1, <2>2, <2>3, WhoChangesPorts
<1> QED
    BY <1>1, <1>3 DEF Owns

-----------------------------------------------------------------------------
(* A handler selects a port. *)

(* What a handler takes when it selects a port: an entry without an owner becomes its own. *)
LEMMA Selection ==
    ASSUME SessionAssumption, SInv, NEW h \in Clients, SelectDataPort(h)
    PROVE  \/ EndAll({h}) /\ handlerPort' = handlerPort
           \/ /\ handlerPc' = [handlerPc EXCEPT ![h] = "ready"] /\ handlerPid' = handlerPid
              /\ \E i \in 1..PortCount :
                    /\ handlerPort' = [handlerPort EXCEPT ![h] = ports[i].port]
                    /\ ports[i].pid = 0 /\ Owns(h, i)'
<1>1. CASE Usable = {}
    BY <1>1 DEF SelectDataPort
<1>2. CASE Usable # {}
  <2>1. PICK i : i = Min(Usable)
    OBVIOUS
  <2>2. i \in Usable
    <3>1. Usable \in SUBSET Nat
        BY DEF Usable, Unowned
    <3>2. \E q \in Usable : \A r \in Usable : q <= r
        BY <1>2, <3>1, LeastNat
    <3> QED
        BY <2>1, <3>2 DEF Min
  <2>3. i \in 1..PortCount /\ ports[i].pid = 0 /\ ports[i].port \notin LateServices
    BY <2>2 DEF Usable, Unowned
  <2>4. ports[i] \in PortEntries /\ handlerPid[h] \in Nat
    BY <2>3 DEF SInv, SessionTypeOK
  <2>5. /\ handlerPc' = [handlerPc EXCEPT ![h] = "ready"] /\ handlerPid' = handlerPid
        /\ handlerPort' = [handlerPort EXCEPT ![h] = ports[i].port]
        /\ ports'[i] = [ports[i] EXCEPT !.pid = handlerPid[h], !.deadTime = 0]
    <3>1. i \in Unowned \cup Usable /\ i <= i /\ ~(Usable = {})
        BY <1>2, <2>2, <2>3
    <3>2. ports' = [k \in 1..PortCount |->
                       IF k \in {j \in Unowned \cup Usable : j <= i}
                       THEN [ports[k] EXCEPT !.pid = handlerPid[h], !.deadTime = 0] ELSE ports[k]]
        BY <1>2, <2>1 DEF SelectDataPort
    <3>3. ports'[i] = [ports[i] EXCEPT !.pid = handlerPid[h], !.deadTime = 0]
        BY <2>3, <3>1, <3>2
    <3>4. /\ handlerPc' = [handlerPc EXCEPT ![h] = "ready"] /\ handlerPid' = handlerPid
          /\ handlerPort' = [handlerPort EXCEPT ![h] = ports[i].port]
        BY <1>2, <2>1 DEF SelectDataPort
    <3> QED
        BY <3>3, <3>4
  <2>6. ports'[i].pid = handlerPid[h] /\ ports'[i].deadTime = 0 /\ ports'[i].port = ports[i].port
    BY <2>4, <2>5 DEF PortEntries
  <2>7. handlerPort'[h] = ports[i].port /\ handlerPid'[h] = handlerPid[h]
    BY <2>5 DEF SInv, SessionTypeOK
  <2>8. Owns(h, i)'
    BY <2>3, <2>6, <2>7 DEF Owns
  <2> QED
    BY <2>3, <2>5, <2>8
<1> QED
    BY <1>1, <1>2

(* A client never becomes new again. *)
LEMMA NeverNewAgain ==
    ASSUME SessionTypeOK, SessionNext, NEW c \in Clients, clientPc'[c] = "new"
    PROVE  clientPc[c] = "new"
<1> USE DEF network, Becomes
<1>0. clientPc \in [Clients -> {"new", "sent", "data", "connected", "gone"}]
      /\ peer \in [Clients -> Clients]
    BY DEF SessionTypeOK
<1>1. ASSUME NEW b \in Clients, ConnectControl(b) \/ ConnectData(b) \/ ClientGone(b)
      PROVE  clientPc[c] = "new"
    BY <1>0, <1>1 DEF ConnectControl, ConnectData, ClientGone
<1>2. ASSUME NEW h \in Clients, ReadReply(h) PROVE clientPc[c] = "new"
    BY <1>0, <1>2 DEF ReadReply
<1>3. CASE clientPc' = clientPc
    BY <1>3
<1> QED
    BY <1>1, <1>2, <1>3 DEF SessionNext, StartServer, Reap, Tick, ServerCrash, StartHandler,
       SelectDataPort, Reply, AcceptData, HandlerEnded, HandlerCrash, Mispair

(* Each handler that lives has an entry of its own, or none yet. *)
LEMMA NextOwned ==
    ASSUME SessionAssumption, SInv, SessionNext, NEW h \in Clients
    PROVE  /\ clientPc'[h] = "new" => handlerPc'[h] = "none"
           /\ handlerPc'[h] \in {"none", "queued", "select"} => handlerPort'[h] = 0
           /\ h \in Live' =>
                 /\ handlerPid'[h] # 0
                 /\ handlerPc'[h] # "select" => \E i \in 1..PortCount : Owns(h, i)'
<1>0. /\ SessionTypeOK /\ PortsOwned
      /\ handlerPc \in [Clients -> {"none", "queued", "select", "ready", "accept", "main", "ended"}]
      /\ handlerPid \in [Clients -> Nat]
    BY DEF SInv, SessionTypeOK
<1>1. CASE SelectDataPort(h)
  <2>1. handlerPc[h] = "select" /\ h \in Live
    BY <1>1 DEF SelectDataPort, Live
  <2>2. clientPc[h] # "new" /\ handlerPid[h] # 0
    BY <1>0, <2>1 DEF PortsOwned
  <2>3. clientPc'[h] # "new"
    BY <1>0, <2>2, NeverNewAgain
  <2>4. CASE EndAll({h})
    BY <1>0, <2>3, <2>4 DEF EndAll, Live
  <2>5. ASSUME handlerPc' = [handlerPc EXCEPT ![h] = "ready"], handlerPid' = handlerPid,
               NEW i \in 1..PortCount, Owns(h, i)'
        PROVE  handlerPc'[h] = "ready" /\ handlerPid'[h] # 0 /\ \E k \in 1..PortCount : Owns(h, k)'
    BY <1>0, <2>2, <2>5
  <2> QED
    BY <1>1, <2>3, <2>4, <2>5, Selection
<1>2. CASE ~SelectDataPort(h)
  <2>1. HandlerGoesOn(h) /\ handlerPort'[h] = handlerPort[h]
    BY <1>0, <1>2, HandlersGoOn
  <2>2. clientPc'[h] = "new" => handlerPc'[h] = "none"
    BY <1>0, <2>1, NeverNewAgain DEF HandlerGoesOn, PortsOwned
  <2>3. handlerPc'[h] \in {"none", "queued", "select"} => handlerPort'[h] = 0
    BY <1>0, <2>1 DEF HandlerGoesOn, PortsOwned
  <2>4. ASSUME h \in Live' PROVE handlerPid'[h] # 0
    BY <1>0, <2>1, <2>4 DEF HandlerGoesOn, PortsOwned
  <2>5. ASSUME h \in Live', handlerPc'[h] # "select" PROVE \E i \in 1..PortCount : Owns(h, i)'
    <3>1. h \in Live /\ handlerPc[h] # "select"
        BY <2>1, <2>5 DEF HandlerGoesOn
    <3>2. PICK i \in 1..PortCount : Owns(h, i)
        BY <1>0, <3>1 DEF PortsOwned
    <3>3. Owns(h, i)'
        BY <1>2, <2>5, <3>1, <3>2, EntryStays
    <3> QED
        BY <3>3
  <2> QED
    BY <2>2, <2>3, <2>4, <2>5
<1> QED
    BY <1>1, <1>2

(* A handler that goes on and one that has just taken an entry have different ports. *)
LEMMA TakenDiffers ==
    ASSUME SessionAssumption, SInv, SessionNext, NEW h \in Clients, SelectDataPort(h),
           NEW g \in Clients, g # h, h \in Live', g \in Live', handlerPort'[h] # 0
    PROVE  handlerPort'[h] # handlerPort'[g]
<1>0. SessionTypeOK /\ PortsOwned /\ handlerPort \in [Clients -> Nat]
    BY DEF SInv, SessionTypeOK
<1>1. ~EndAll({h})
    BY DEF EndAll, Live
<1>2. PICK i \in 1..PortCount :
          /\ handlerPort' = [handlerPort EXCEPT ![h] = ports[i].port]
          /\ ports[i].pid = 0
    BY <1>1, Selection
<1>3. handlerPort'[h] = ports[i].port /\ handlerPort'[g] = handlerPort[g]
    BY <1>0, <1>2
<1>4. g \in Live
  <2>1. handlerPc' = [handlerPc EXCEPT ![h] = "ready"]
    BY <1>1, Selection
  <2> QED
    BY <1>0, <2>1 DEF Live, SessionTypeOK
<1>5. CASE handlerPort[g] = 0
    BY <1>3, <1>5
<1>6. CASE handlerPort[g] # 0
  <2>1. PICK j \in 1..PortCount : Owns(g, j)
    BY <1>0, <1>4, <1>6 DEF PortsOwned
  <2>2. ports[j].pid # 0 /\ ports[j].port = handlerPort[g]
    BY <1>0, <1>4, <2>1 DEF Owns, PortsOwned
  <2>3. i # j /\ ListMade
    BY <1>2, <1>4, <2>2 DEF SInv, ListWhenNeeded
  <2>4. ports[i].port # ports[j].port
    BY <2>3, FreePortsDiffer DEF ListMade
  <2> QED
    BY <1>3, <2>2, <2>4
<1> QED
    BY <1>5, <1>6

(* No entry is owned by two handlers. *)
LEMMA NextOwners ==
    ASSUME SessionAssumption, SInv, SessionNext
    PROVE  PortsOwned'
<1>0. SessionTypeOK /\ PortsOwned
    BY DEF SInv
<1>1. ASSUME NEW h \in Live', NEW g \in Live', h # g, handlerPort'[h] # 0
      PROVE  handlerPort'[h] # handlerPort'[g]
  <2>0. h \in Clients /\ g \in Clients
    BY DEF Live
  <2>1. CASE SelectDataPort(h)
    BY <1>1, <2>0, <2>1, TakenDiffers
  <2>2. CASE SelectDataPort(g)
    <3>1. CASE handlerPort'[g] = 0
        BY <1>1, <3>1
    <3>2. CASE handlerPort'[g] # 0
        BY <1>1, <2>0, <2>2, <3>2, TakenDiffers
    <3> QED
        BY <3>1, <3>2
  <2>3. CASE ~SelectDataPort(h) /\ ~SelectDataPort(g)
    <3>1. /\ HandlerGoesOn(h) /\ handlerPort'[h] = handlerPort[h]
          /\ HandlerGoesOn(g) /\ handlerPort'[g] = handlerPort[g]
        BY <1>0, <2>0, <2>3, HandlersGoOn
    <3>2. h \in Live
        BY <1>0, <1>1, <2>0, <3>1 DEF HandlerGoesOn, PortsOwned
    <3>3. CASE g \in Live
        BY <1>0, <1>1, <3>1, <3>2, <3>3 DEF PortsOwned
    <3>4. CASE handlerPc[g] = "queued"
        BY <1>0, <1>1, <2>0, <3>1, <3>4 DEF PortsOwned
    <3> QED
        BY <1>1, <3>1, <3>3, <3>4 DEF HandlerGoesOn
  <2> QED
    BY <2>1, <2>2, <2>3
<1> QED
    BY <1>1, NextOwned DEF PortsOwned

-----------------------------------------------------------------------------
(* The session IDs, and the theorem. *)

(* Whom a client has met, it has met for good: the network mispairs only what is being set up. *)
LEMMA MetForGood ==
    ASSUME SessionTypeOK, SessionNext, NEW c \in Clients
    PROVE  /\ peer[c] = c /\ clientPc[c] # "sent" => peer'[c] = c
           /\ Met(c) => Met(c)'
<1> USE DEF network, Becomes
<1>0. clientPc \in [Clients -> {"new", "sent", "data", "connected", "gone"}]
      /\ peer \in [Clients -> Clients]
    BY DEF SessionTypeOK
<1>1. ASSUME NEW h \in Clients, NEW g \in Clients, Mispair(h, g)
      PROVE  clientPc' = clientPc /\ (peer[c] = c /\ clientPc[c] # "sent" => peer'[c] = c)
    BY <1>0, <1>1 DEF Mispair
<1>2. ASSUME NEW b \in Clients, ConnectControl(b) \/ ConnectData(b) \/ ClientGone(b)
      PROVE  peer' = peer /\ (clientPc[c] \in {"connected", "gone"} => clientPc'[c] \in {"connected", "gone"})
    BY <1>0, <1>2 DEF ConnectControl, ConnectData, ClientGone
<1>3. ASSUME NEW h \in Clients, ReadReply(h)
      PROVE  peer' = peer /\ (clientPc[c] \in {"connected", "gone"} => clientPc'[c] \in {"connected", "gone"})
    BY <1>0, <1>3 DEF ReadReply
<1>4. \/ \E h, g \in Clients : Mispair(h, g)
      \/ \E b \in Clients : ConnectControl(b) \/ ConnectData(b) \/ ClientGone(b)
      \/ \E h \in Clients : ReadReply(h)
      \/ UNCHANGED <<peer, clientPc>>
    BY DEF SessionNext, StartServer, Reap, Tick, ServerCrash, StartHandler,
       SelectDataPort, Reply, AcceptData, HandlerEnded, HandlerCrash
<1> QED
    BY <1>1, <1>2, <1>3, <1>4 DEF Met

(* Only a client that has read the reply of its own handler goes on to the data connection. *)
LEMMA NextCalls ==
    ASSUME SessionTypeOK, IdsChecked, SessionNext, NEW c \in Clients,
           clientPc'[c] \in {"data", "connected"}
    PROVE  peer'[c] = c
<1> USE DEF network, Becomes
<1>0. clientPc \in [Clients -> {"new", "sent", "data", "connected", "gone"}]
      /\ peer \in [Clients -> Clients]
    BY DEF SessionTypeOK
<1>1. CASE clientPc[c] \in {"data", "connected"}
    BY <1>1, MetForGood, SMTT(30) DEF IdsChecked
<1>2. CASE clientPc[c] \notin {"data", "connected"}
  <2>1. ASSUME NEW b \in Clients, ConnectControl(b) \/ ConnectData(b) \/ ClientGone(b) PROVE FALSE
    BY <1>0, <1>2, <2>1 DEF ConnectControl, ConnectData, ClientGone
  <2>2. ASSUME NEW h \in Clients, ReadReply(h) PROVE peer'[c] = c
    BY <1>0, <1>2, <2>2 DEF ReadReply
  <2>3. clientPc' # clientPc
    BY <1>2
  <2> QED
    BY <2>1, <2>2, <2>3 DEF SessionNext, StartServer, Reap, Tick, ServerCrash, StartHandler,
       SelectDataPort, Reply, AcceptData, HandlerEnded, HandlerCrash, Mispair
<1> QED
    BY <1>1, <1>2

(* Every data connection that waits comes from a client that has met its handler. *)
BacklogChecked(h) ==
    \A i \in 1..Len(backlog[h]) :
        backlog[h][i].server = backlog[h][i].client /\ Met(backlog[h][i].client)

(* Every startup message that waits for a handler is that of the client it names. *)
LEMMA NextBacklog ==
    ASSUME SessionTypeOK, IdsChecked, SessionNext, NEW h \in Clients
    PROVE  BacklogChecked(h)'
<1> USE DEF handler
<1>0. /\ backlog \in [Clients -> Seq(Startups)] /\ backlog[h] \in Seq(Startups)
      /\ clientPc \in [Clients -> {"new", "sent", "data", "connected", "gone"}]
      /\ BacklogChecked(h)
    BY DEF SessionTypeOK, IdsChecked, BacklogChecked
<1>1. CASE backlog'[h] = backlog[h]
  <2>1. \A i \in 1..Len(backlog[h]) : backlog[h][i].client \in Clients
    <3>1. \A i \in 1..Len(backlog[h]) : backlog[h][i] \in Startups
        BY <1>0
    <3> QED
        BY <3>1 DEF Startups
  <2> QED
    BY <1>0, <1>1, <2>1, MetForGood DEF BacklogChecked
<1>2. CASE backlog'[h] = << >>
    BY <1>2 DEF BacklogChecked
<1>3. ASSUME NEW c \in Clients, ConnectData(c), backlog' # backlog PROVE BacklogChecked(h)'
  <2>1. PICK g \in Clients : backlog' = [backlog EXCEPT ![g] = Append(@, [client |-> c, server |-> c])]
    BY <1>3 DEF ConnectData
  <2>2. clientPc[c] = "data" /\ clientPc' = [clientPc EXCEPT ![c] = "connected"] /\ peer' = peer
    BY <1>3 DEF ConnectData, Becomes
  <2>3. Met(c)'
    BY <1>0, <2>2 DEF Met, IdsChecked
  <2>4. CASE g # h
    BY <1>0, <1>1, <2>1, <2>4
  <2>5. CASE g = h
    <3>1. PICK one : one = [client |-> c, server |-> c]
        OBVIOUS
    <3>2. backlog'[h] = Append(backlog[h], one) /\ one \in Startups /\ one.client = c /\ one.server = c
        BY <1>0, <2>1, <2>5, <3>1 DEF Startups
    <3>3. /\ Len(backlog'[h]) = Len(backlog[h]) + 1 /\ Len(backlog[h]) \in Nat
          /\ \A i \in 1..Len(backlog[h]) : backlog'[h][i] = backlog[h][i]
          /\ backlog'[h][Len(backlog[h]) + 1] = one
        BY <1>0, <3>2
    <3>4. ASSUME NEW i \in 1..Len(backlog[h])
          PROVE  backlog'[h][i].server = backlog'[h][i].client /\ Met(backlog[h][i].client)'
      <4>1. backlog[h][i].client \in Clients
        <5>1. backlog[h][i] \in Startups
            BY <1>0, <3>4
        <5> QED
            BY <5>1 DEF Startups
      <4> QED
        BY <1>0, <3>3, <4>1, MetForGood DEF BacklogChecked
    <3>5. ASSUME NEW i \in 1..Len(backlog'[h])
          PROVE  backlog'[h][i].server = backlog'[h][i].client /\ Met(backlog[h][i].client)'
      <4>1. CASE i \in 1..Len(backlog[h])
        BY <3>4, <4>1
      <4>2. CASE i = Len(backlog[h]) + 1
        <5>1. backlog'[h][i].server = c /\ backlog'[h][i].client = c
            BY <3>2, <3>3, <4>2
        <5> QED
            BY <2>3, <5>1 DEF Met
      <4> QED
        BY <3>3, <4>1, <4>2
    <3> QED
        BY <3>5 DEF BacklogChecked
  <2> QED
    BY <2>4, <2>5
<1>4. ASSUME NEW H, EndAll(H) PROVE backlog'[h] = backlog[h] \/ backlog'[h] = << >>
    BY <1>4 DEF EndAll
<1>5. ASSUME NEW g \in Clients, AcceptData(g) PROVE backlog'[h] = backlog[h] \/ backlog'[h] = << >>
  <2>1. EndAll({g}) \/ backlog' = [backlog EXCEPT ![g] = << >>]
    BY <1>5 DEF AcceptData
  <2> QED
    BY <1>0, <1>4, <2>1
<1>6. ASSUME Reap \/ ServerCrash PROVE backlog' = backlog \/ \E H : EndAll(H)
    BY <1>6 DEF Reap, ServerCrash, ServerGone
<1>7. ASSUME NEW g \in Clients, SelectDataPort(g) \/ HandlerEnded(g) \/ HandlerCrash(g)
      PROVE  backlog' = backlog \/ EndAll({g})
    BY <1>7 DEF SelectDataPort, HandlerEnded, HandlerCrash
<1>8. \/ backlog' = backlog
      \/ \E c \in Clients : ConnectData(c)
      \/ \E g \in Clients : AcceptData(g) \/ SelectDataPort(g) \/ HandlerEnded(g) \/ HandlerCrash(g)
      \/ Reap \/ ServerCrash
    BY DEF SessionNext, StartServer, Tick, StartHandler, Reply, Mispair, ConnectControl, ClientGone,
       ReadReply
<1>9. CASE backlog' = backlog
    BY <1>1, <1>9
<1> QED
    BY <1>1, <1>2, <1>3, <1>4, <1>5, <1>6, <1>7, <1>8, <1>9

(* A handler that serves has looked at the session IDs of its data connection. *)
LEMMA NextServes ==
    ASSUME SessionTypeOK, IdsChecked, SessionNext, NEW h \in Clients,
           handlerPc'[h] = "main", ~Refused(h)
    PROVE  dataFrom'[h] = h /\ Met(h)'
<1> USE DEF handler
<1>0. /\ handlerPc \in [Clients -> {"none", "queued", "select", "ready", "accept", "main", "ended"}]
      /\ dataFrom \in [Clients -> Clients \cup {"none"}] /\ backlog[h] \in Seq(Startups)
    BY DEF SessionTypeOK
<1>1. CASE handlerPc[h] = "main" /\ dataFrom'[h] = dataFrom[h]
    BY <1>1, MetForGood DEF IdsChecked
<1>2. CASE handlerPc'[h] = handlerPc[h] /\ dataFrom'[h] = dataFrom[h]
    BY <1>1, <1>2
<1>3. ASSUME NEW H, EndAll(H) PROVE handlerPc[h] = "main" /\ dataFrom'[h] = dataFrom[h]
    BY <1>3 DEF EndAll
<1>4. CASE AcceptData(h) /\ ~EndAll({h})
  <2>1. /\ backlog[h] # << >> /\ backlog[h][1].client = h
        /\ dataFrom' = [dataFrom EXCEPT ![h] = backlog[h][1].client]
    BY <1>4 DEF AcceptData
  <2>2. 1 \in 1..Len(backlog[h])
    BY <1>0, <2>1
  <2>3. Met(h)
    BY <2>1, <2>2 DEF IdsChecked
  <2> QED
    BY <1>0, <2>1, <2>3, MetForGood
<1>5. ASSUME NEW g \in Clients, g # h, AcceptData(g) PROVE handlerPc[h] = "main" /\ dataFrom'[h] = dataFrom[h]
  <2>1. EndAll({g}) \/ (/\ handlerPc' = [handlerPc EXCEPT ![g] = "main"]
                        /\ dataFrom' = [dataFrom EXCEPT ![g] = backlog[g][1].client])
    BY <1>5 DEF AcceptData
  <2> QED
    BY <1>0, <1>3, <1>5, <2>1
<1>6. ASSUME NEW g \in Clients, SelectDataPort(g)
      PROVE  handlerPc[h] = "main" /\ dataFrom'[h] = dataFrom[h]
  <2>1. EndAll({g}) \/ (handlerPc' = [handlerPc EXCEPT ![g] = "ready"] /\ dataFrom' = dataFrom)
    BY <1>6 DEF SelectDataPort
  <2> QED
    BY <1>0, <1>3, <2>1
<1>7. ASSUME NEW g \in Clients, StartHandler(g) \/ Reply(g) \/ ConnectControl(g)
      PROVE  handlerPc[h] = "main" /\ dataFrom'[h] = dataFrom[h]
    BY <1>0, <1>7 DEF StartHandler, Reply, ConnectControl
<1>8. ASSUME NEW g \in Clients, HandlerEnded(g) \/ HandlerCrash(g)
      PROVE  handlerPc[h] = "main" /\ dataFrom'[h] = dataFrom[h]
    BY <1>3, <1>8 DEF HandlerEnded, HandlerCrash
<1>9. ASSUME Reap \/ ServerCrash
      PROVE  \/ handlerPc'[h] = handlerPc[h] /\ dataFrom'[h] = dataFrom[h]
             \/ \E H : EndAll(H)
    BY <1>9 DEF Reap, ServerCrash, ServerGone
<1>10. \/ handlerPc'[h] = handlerPc[h] /\ dataFrom'[h] = dataFrom[h]
       \/ Reap \/ ServerCrash
       \/ \E g \in Clients : \/ AcceptData(g) \/ SelectDataPort(g) \/ StartHandler(g) \/ Reply(g)
                             \/ ConnectControl(g) \/ HandlerEnded(g) \/ HandlerCrash(g)
    BY DEF SessionNext, StartServer, Tick, Mispair, ConnectData, ClientGone, ReadReply
<1> QED
    BY <1>1, <1>2, <1>3, <1>4, <1>5, <1>6, <1>7, <1>8, <1>9, <1>10

(* Each side has looked at the IDs of the other before it goes on. *)
LEMMA NextChecked ==
    ASSUME SessionTypeOK, IdsChecked, SessionNext
    PROVE  IdsChecked'
BY NextCalls, NextBacklog, NextServes DEF IdsChecked, BacklogChecked

(* SInv holds at first. *)
LEMMA InitSession == ASSUME SessionAssumption, SessionInit PROVE SInv
<1> USE DEF SessionInit
<1>1. SessionTypeOK
  <2>1. ports \in [1..PortCount -> PortEntries] /\ count \in Counts
    BY DEF PortEntries, Counts
  <2> QED
    BY <2>1 DEF SessionTypeOK
<1>2. ListWhenNeeded
  <2>1. Live = {} /\ \A i \in 1..PortCount : ports[i].port = 0
    BY DEF Live
  <2> QED
    BY <2>1 DEF ListWhenNeeded
<1>3. PortsOwned
    BY DEF PortsOwned, Live
<1>4. IdsChecked
    BY DEF IdsChecked
<1> QED
    BY <1>1, <1>2, <1>3, <1>4 DEF SInv

(* Every step of a session, and every step that is none, preserves SInv. *)
LEMMA NextSInv == ASSUME SessionAssumption, SInv, [SessionNext]_svars PROVE SInv'
<1>1. CASE SessionNext
    BY <1>1, NextSessionType, NextList, NextOwners, NextChecked DEF SInv
<1>2. CASE UNCHANGED svars
    BY <1>2 DEF svars, SInv, SessionTypeOK, ListWhenNeeded, ListMade, PortsOwned, Owns, Live,
       IdsChecked, Met
<1> QED
    BY <1>1, <1>2

(***************************************************************************)
(* Sessions are paired (RemoteHandler::initialiseConnections, RemoteFDB::  *)
(* connect, AvailablePortList): for any number of clients and ports, with  *)
(* mispaired connections, restarts of the server and process numbers that  *)
(* are used again, both connections of a handler that serves lead to the   *)
(* client it serves, and no two live handlers have the same port.          *)
(***************************************************************************)
THEOREM SessionsStayPaired == RSpec => []SessionsPaired
<1>1. RInit => SInv
    BY SessionAssumption, InitSession DEF RInit
<1>2. SInv /\ [RNext]_<<vars, svars>> => SInv'
  <2>1. [RNext]_<<vars, svars>> => [SessionNext]_svars
    BY DEF RNext, vars, svars
  <2> QED
    BY <2>1, SessionAssumption, NextSInv
<1>3. SInv => SessionsPaired
  <2> SUFFICES ASSUME SInv PROVE SessionsPaired
    OBVIOUS
  <2>1. ASSUME NEW h \in Live, handlerPc[h] = "main", ~Refused(h) PROVE dataFrom[h] = h /\ peer[h] = h
    BY <2>1 DEF SInv, IdsChecked, Met, Live
  <2>2. ASSUME NEW h \in Live PROVE handlerPort[h] \notin Services \cup LateServices
    <3>1. CASE handlerPc[h] = "select"
        BY <3>1, SessionAssumption DEF SInv, PortsOwned, Live, SessionAssumption
    <3>2. CASE handlerPc[h] # "select"
      <4>1. PICK i \in 1..PortCount : Owns(h, i)
        BY <3>2 DEF SInv, PortsOwned, Live
      <4>2. ListMade
        BY <2>2 DEF SInv, ListWhenNeeded
      <4>3. FreePort[i] \notin Services
        BY SessionAssumption, FreePortCounts DEF SessionAssumption
      <4> QED
        BY <4>1, <4>2, <4>3 DEF Owns, ListMade
    <3> QED
        BY <3>1, <3>2
  <2> QED
    BY <2>1, <2>2 DEF SessionsPaired, SInv, PortsOwned
<1> QED
    BY <1>1, <1>2, <1>3, PTL DEF RSpec

-----------------------------------------------------------------------------
(* The sessions and what goes on in one of them, together. *)

(* What the sessions do is no step of the handles and iterators, and the other way round. *)
LEMMA RemoteReads == RSpec => Init /\ [][Next]_vars
<1>1. RInit => Init
    BY DEF RInit
<1>2. [RNext]_<<vars, svars>> => [Next]_vars
    BY DEF RNext
<1> QED
    BY <1>1, <1>2, PTL DEF RSpec

(***************************************************************************)
(* In the composition, too, a data handle is given its own field           *)
(* (RemoteFDB.cc, retrieveMessageQueue_), and an iterator the elements of  *)
(* its own call (RemoteFDB.cc, listeningThreadLoop).                       *)
(***************************************************************************)
THEOREM RemoteHandsOverItsOwn ==
    ~ReadsAgain /\ ~LateErrors => (RSpec => [](HandleGetsItsField /\ IteratorIsComplete))
<1> SUFFICES ASSUME ~ReadsAgain, ~LateErrors
             PROVE  RSpec => [](HandleGetsItsField /\ IteratorIsComplete)
    OBVIOUS
<1>1. Init /\ [][Next]_vars => []RInv
  <2>1. Init => RInv
    BY SizeAssumption, InitRInv
  <2>2. RInv /\ [Next]_vars => RInv'
    BY SizeAssumption, StutterRInv, NextRInv
  <2> QED
    BY <2>1, <2>2, PTL
<1>2. RInv => HandleGetsItsField /\ IteratorIsComplete
    BY SizeAssumption, RInvGivesFields, RInvCompletes
<1> QED
    BY <1>1, <1>2, RemoteReads, PTL
=============================================================================
