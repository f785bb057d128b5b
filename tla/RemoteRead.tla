----------------------------- MODULE RemoteRead -----------------------------
(***************************************************************************)
(* Forwarded API calls and retrieval over the network: one session of      *)
(* RemoteFDB and its RemoteHandler, after the connections have been made   *)
(* (RemoteFDB.cc, Handler.cc, RemoteFieldLocation.cc, APIIterator.h).      *)
(*                                                                         *)
(* A request is identified by its number.  An API call has a worker on the *)
(* server that streams elements, a message queue on the client, and an     *)
(* iterator with a thread and a queue of its own.  The data handles of     *)
(* fields are served one after another by one thread of the server and all *)
(* read from one queue.  One listening thread sorts what arrives on the    *)
(* data connection into these queues, and waits when one is full.          *)
(*                                                                         *)
(* The control connection carries one request and its reply at a time: an  *)
(* exchange is one step.                                                   *)
(***************************************************************************)
EXTENDS Queues, SequencesExt, FiniteSets, FiniteSetsExt

CONSTANTS
    MaxRequests,   \* bound: requests of the session
    MaxCalls,      \* bound: API calls among them
    Elements,      \* elements of the answer to an API call
    Chunks,        \* Blob messages of a field
    QueueCap,      \* the queue of an API call (BaseAPIHelper::queueSize)
    IterCap,       \* the queue of an iterator (APIAsyncIterator)
    RetrieveCap,   \* fdbRemoteRetrieveQueueLength
    DataCap,       \* messages the data connection holds
    Kinds,         \* the API calls that are made, and "archive"
    AnyDrop,       \* BOOLEAN: an iterator may be destroyed whatever is still to come
    ReadsAgain,    \* BOOLEAN: a handle may be read again after its end
    LateErrors,    \* BOOLEAN: an error of an archive may be read after archiveID_ was reset
    MayFail        \* BOOLEAN: a field cannot be opened or read, the server dies

ASSUME SizeAssumption ==
    /\ {MaxRequests, Elements, Chunks} \subseteq Nat \ {0}
    /\ MaxCalls \in Nat
    /\ {QueueCap, IterCap, RetrieveCap, DataCap} \subseteq Nat \ {0}

Ids == 1..MaxRequests

(* The requests that handle() knows; RemoteFDB also sends "move". *)
Handled == {"list", "inspect", "dump", "purge", "stats", "status", "wipe", "control"}

Message(type, id, n) == [type |-> type, id |-> id, n |-> n]
Idle == [op |-> "idle", id |-> 0]

VARIABLES
    (* client *)
    nextId,       \* generateRequestID
    user,         \* the call the user's thread is in
    handles,      \* the data handles, in the order they were made
    got,          \* per request: what the user has been given
    over,         \* per request: how the user saw it end
    archiveId,    \* archiveID_ of an archive that is under way
    registered,   \* the keys of messageQueues_
    queue,        \* messageQueues_
    retrieveQueue, \* retrieveMessageQueue_
    pump, hand,   \* the iterator's thread, and the message it holds
    iter,         \* the iterator's queue
    listener,     \* the listening thread
    (* server and connection *)
    session,      \* the handler: "up", "ending", "closed" or "dead"
    left,         \* per request: messages that its worker has still to send
    readQueue,    \* readLocationQueue_, its head being served
    data          \* the data connection to the client

client == <<nextId, user, handles, got, over, archiveId>>
queues == <<registered, queue, retrieveQueue, listener>>
iterators == <<pump, hand, iter>>
server == <<session, left, readQueue>>
vars == <<client, queues, iterators, server, data>>

Init ==
    /\ nextId = 1 /\ user = Idle /\ handles = << >>
    /\ got = [id \in Ids |-> << >>]
    /\ over = [id \in Ids |-> "none"]
    /\ archiveId = 0
    /\ registered = {} /\ queue = [id \in Ids |-> NewQueue]
    /\ retrieveQueue = NewQueue
    /\ pump = [id \in Ids |-> "none"] /\ hand = [id \in Ids |-> << >>]
    /\ iter = [id \in Ids |-> NewQueue]
    /\ listener = "run"
    /\ session = "up" /\ left = [id \in Ids |-> 0] /\ readQueue = << >>
    /\ data = << >>

IsIterator(id) == pump[id] # "none"
(* An interrupted eckit::Queue throws at once, or when what it holds has been popped: what it
   holds can be got or is lost. *)
Interrupts(q) == { Interrupt(q), [Interrupt(q) EXCEPT !.elems = << >>] }
Broken(q) == q.interrupted /\ q.elems = << >>
Free == user = Idle /\ nextId <= MaxRequests

----------------------------------------------------------------------------
(***************************************************************************)
(* forwardApiCall: the queue is registered before the request is sent; the *)
(* server answers when its worker has been started.                        *)
(***************************************************************************)
Forward(kind) ==
    /\ Free /\ session = "up" /\ kind \in Handled
    /\ Cardinality({id \in Ids : IsIterator(id)}) < MaxCalls
    /\ nextId' = nextId + 1
    /\ over' = [over EXCEPT ![nextId] = "open"]
    /\ registered' = registered \cup {nextId}
    /\ left' = [left EXCEPT ![nextId] = Elements + 1]
    /\ pump' = [pump EXCEPT ![nextId] = "run"]
    /\ UNCHANGED <<user, handles, got, archiveId, queue, retrieveQueue, listener, hand, iter,
                   session, readQueue, data>>

(* The request is refused or cannot be sent.  The handler does not read what is left of a
   request it has refused, so it cannot understand the next one either, and ends. *)
ForwardThrows(kind) ==
    /\ Free /\ (session # "up" \/ kind \notin Handled)
    /\ nextId' = nextId + 1
    /\ over' = [over EXCEPT ![nextId] = "failed"]
    /\ registered' = registered \cup {nextId}
    /\ session' = IF session = "up" THEN "ending" ELSE session
    /\ UNCHANGED <<user, handles, got, archiveId, queue, retrieveQueue, listener, iterators,
                   left, readQueue, data>>

(* FDB::read asks for the data handle of each element as it comes: the server opens the field
   and queues it. *)
DataHandle ==
    /\ Free /\ session = "up"
    /\ \E id \in Ids : got[id] # << >> /\ IsIterator(id)
    /\ nextId' = nextId + 1
    /\ handles' = Append(handles, nextId)
    /\ over' = [over EXCEPT ![nextId] = "open"]
    /\ left' = [left EXCEPT ![nextId] = Chunks + 1]
    /\ readQueue' = Append(readQueue, nextId)
    /\ UNCHANGED <<user, got, archiveId, queues, iterators, session, data>>

(* The field cannot be opened: as for ForwardThrows. *)
DataHandleThrows ==
    /\ Free /\ (session # "up" \/ MayFail)
    /\ \E id \in Ids : got[id] # << >> /\ IsIterator(id)
    /\ nextId' = nextId + 1
    /\ over' = [over EXCEPT ![nextId] = "failed"]
    /\ session' = IF session = "up" THEN "ending" ELSE session
    /\ UNCHANGED <<user, handles, got, archiveId, queues, iterators, left, readQueue, data>>

----------------------------------------------------------------------------
(* The user's calls that may wait.  One call at a time. *)
Begin(op, id) ==
    /\ user = Idle
    /\ user' = [op |-> op, id |-> id]
    /\ UNCHANGED <<nextId, handles, got, over, archiveId, queues, server, data>>

Next_(id) == over[id] = "open" /\ IsIterator(id) /\ Begin("next", id) /\ UNCHANGED iterators

(* What is still to come for an iterator does not fit its message queue: destroying the
   iterator leaves the queue registered and nobody to empty it. *)
Leaves(id) == Elements - Len(got[id]) > QueueCap

(* ~APIAsyncIterator *)
Drop(id) ==
    /\ over[id] \in {"open", "ended", "failed"} /\ IsIterator(id)
    /\ AnyDrop \/ ~Leaves(id)
    /\ Begin("drop", id)
    /\ iter' = [iter EXCEPT ![id] = IF @.closed THEN @ ELSE Interrupt(@)]
    /\ UNCHANGED <<pump, hand>>

(* Handles are read strictly in the order they were made. *)
Read(id) ==
    /\ \E i \in DOMAIN handles :
          /\ handles[i] = id
          /\ over[id] \in {"open"} \cup (IF ReadsAgain THEN {"ended"} ELSE {})
          /\ \A j \in 1..i - 1 : over[handles[j]] # "open"
    /\ Begin("read", id)
    /\ UNCHANGED iterators

Returns(op, id) == user = [op |-> op, id |-> id] /\ user' = Idle

NextReturns(id) ==
    /\ Returns("next", id)
    /\ \/ /\ iter[id].elems # << >>
          /\ got' = [got EXCEPT ![id] = Append(@, Head(iter[id].elems))]
          /\ iter' = [iter EXCEPT ![id] = Popped(@)]
          /\ UNCHANGED over
       \/ /\ AtEnd(iter[id])
          /\ over' = [over EXCEPT ![id] = "ended"]
          /\ UNCHANGED <<got, iter>>
       \/ /\ Broken(iter[id])
          /\ over' = [over EXCEPT ![id] = "failed"]
          /\ UNCHANGED <<got, iter>>
    /\ UNCHANGED <<nextId, handles, archiveId, queues, pump, hand, server, data>>

DropReturns(id) ==
    /\ Returns("drop", id)
    /\ pump[id] = "ended"
    /\ over' = [over EXCEPT ![id] = "dropped"]
    /\ UNCHANGED <<nextId, handles, got, archiveId, queues, iterators, server, data>>

(* FDBRemoteDataHandle::read takes whatever message is next; only Complete and Error end it
   (complete_ is assigned 0, so a handle that has ended can be read again). *)
ReadReturns(id) ==
    /\ Returns("read", id)
    /\ \/ /\ retrieveQueue.elems # << >>
          /\ LET m == Head(retrieveQueue.elems) IN
             /\ retrieveQueue' = Popped(retrieveQueue)
             /\ over' = CASE m.type = "Error" -> [over EXCEPT ![id] = "failed"]
                          [] m.type = "Complete" -> [over EXCEPT ![id] = "ended"]
                          [] OTHER -> over
             /\ got' = IF m.type = "Blob" THEN [got EXCEPT ![id] = Append(@, m)] ELSE got
       \/ /\ Broken(retrieveQueue)
          /\ over' = [over EXCEPT ![id] = "failed"]
          /\ UNCHANGED <<retrieveQueue, got>>
    /\ UNCHANGED <<nextId, handles, archiveId, registered, queue, listener, iterators, server, data>>

(* disconnect: the Exit message, then the listening thread is joined. *)
Disconnect ==
    /\ user = Idle
    /\ \A id \in Ids : over[id] # "open" \/ ~IsIterator(id)
    /\ user' = [op |-> "disconnect", id |-> 0]
    /\ nextId' = MaxRequests + 1
    /\ session' = IF session = "up" THEN "ending" ELSE session
    /\ UNCHANGED <<handles, got, over, archiveId, queues, iterators, left, readQueue, data>>

Disconnected ==
    /\ Returns("disconnect", 0)
    /\ listener = "ended"
    /\ UNCHANGED <<nextId, handles, got, over, archiveId, queues, iterators, server, data>>

(***************************************************************************)
(* An archive beside the retrievals, of which only archiveID_ and an error *)
(* of the server's archive loop matter here (RemoteArchive has the rest):  *)
(* the client resets archiveID_ when it has sent its last field.           *)
(***************************************************************************)
StartArchive ==
    /\ "archive" \in Kinds /\ Free /\ session = "up" /\ archiveId = 0
    /\ nextId' = nextId + 1
    /\ archiveId' = nextId
    /\ over' = [over EXCEPT ![nextId] = "archive"]
    /\ UNCHANGED <<user, handles, got, queues, iterators, server, data>>

ResetArchive ==
    /\ user = Idle /\ archiveId # 0
    /\ ~LateErrors => \A i \in DOMAIN data : data[i].id # archiveId
    /\ archiveId' = 0
    /\ UNCHANGED <<nextId, user, handles, got, over, queues, iterators, server, data>>

----------------------------------------------------------------------------
(* The iterator's thread. *)
PumpPop(id) ==
    /\ pump[id] = "run" /\ hand[id] = << >> /\ queue[id].elems # << >>
    /\ hand' = [hand EXCEPT ![id] = << Head(queue[id].elems) >>]
    /\ queue' = [queue EXCEPT ![id] = Popped(@)]
    /\ UNCHANGED <<client, registered, retrieveQueue, listener, pump, iter, server, data>>

PumpPush(id) ==
    /\ pump[id] = "run" /\ hand[id] # << >>
    /\ \/ /\ CanEmplace(iter[id], IterCap)
          /\ iter' = [iter EXCEPT ![id] = Emplace(@, hand[id][1])]
          /\ UNCHANGED pump
       \/ /\ iter[id].interrupted
          /\ pump' = [pump EXCEPT ![id] = "ended"]
          /\ UNCHANGED iter
    /\ hand' = [hand EXCEPT ![id] = << >>]
    /\ UNCHANGED <<client, queues, server, data>>

(* Mutant: an exception of the message queue is taken for its end. *)
PumpEnds_Closes(id) ==
    /\ pump[id] = "run" /\ hand[id] = << >>
    /\ queue[id].closed /\ queue[id].elems = << >>
    /\ iter' = [iter EXCEPT ![id] = Shut(@)]
    /\ pump' = [pump EXCEPT ![id] = "ended"]
    /\ UNCHANGED <<client, queues, hand, server, data>>

(* The message queue has ended: so does the iterator, in the same way. *)
PumpEnds(id) ==
    /\ pump[id] = "run" /\ hand[id] = << >>
    /\ queue[id].closed /\ queue[id].elems = << >>
    /\ \E q \in IF queue[id].interrupted THEN Interrupts(iter[id]) ELSE {Shut(iter[id])} :
          iter' = [iter EXCEPT ![id] = q]
    /\ pump' = [pump EXCEPT ![id] = "ended"]
    /\ UNCHANGED <<client, queues, hand, server, data>>

----------------------------------------------------------------------------
(***************************************************************************)
(* The listening thread: a message of a registered call goes to its queue, *)
(* an error of the archive to the archive, all else to the retrieve queue. *)
(***************************************************************************)
ListenerRead ==
    LET m == Head(data) IN
    /\ listener = "run" /\ data # << >>
    /\ data' = Tail(data)
    /\ CASE m.type = "Exit" -> listener' = "ended" /\ UNCHANGED <<registered, queue, retrieveQueue>>
         [] m.id \in registered /\ m.type = "Blob" ->
              /\ CanEmplace(queue[m.id], QueueCap)
              /\ queue' = [queue EXCEPT ![m.id] = Emplace(@, m)]
              /\ UNCHANGED <<registered, retrieveQueue, listener>>
         [] m.id \in registered /\ m.type # "Blob" ->
              /\ \E q \in IF m.type = "Error" THEN Interrupts(queue[m.id]) ELSE {Shut(queue[m.id])} :
                    queue' = [queue EXCEPT ![m.id] = q]
              /\ registered' = registered \ {m.id}
              /\ UNCHANGED <<retrieveQueue, listener>>
         [] m.type = "Error" /\ m.id = archiveId ->
              UNCHANGED <<registered, queue, retrieveQueue, listener>>
         [] OTHER ->
              /\ CanEmplace(retrieveQueue, RetrieveCap)
              /\ retrieveQueue' = Emplace(retrieveQueue, m)
              /\ UNCHANGED <<registered, queue, listener>>
    /\ UNCHANGED <<client, iterators, server>>

(* Mutant: the queues are left as they are. *)
ListenerFails_Silent ==
    /\ listener = "run" /\ data = << >> /\ session = "dead"
    /\ listener' = "ended"
    /\ UNCHANGED <<client, registered, queue, retrieveQueue, iterators, server, data>>

(* The connection is gone: every queue is interrupted. *)
ListenerFails ==
    /\ listener = "run" /\ data = << >> /\ session = "dead"
    /\ listener' = "ended"
    /\ queue' = [id \in Ids |-> IF id \in registered THEN Interrupt(queue[id]) ELSE queue[id]]
    /\ registered' = {}
    /\ retrieveQueue' \in Interrupts(retrieveQueue)
    /\ UNCHANGED <<client, iterators, server, data>>

----------------------------------------------------------------------------
(***************************************************************************)
(* The server.  A worker sends its elements and Complete, or an Error; the *)
(* read thread does the same for the head of its queue.                    *)
(***************************************************************************)
Sends(m) == Len(data) < DataCap /\ data' = Append(data, m)
Answer(id, size, rest) ==
    /\ left[id] # 0
    /\ \/ /\ Sends(IF left[id] = 1 THEN Message("Complete", id, 0)
                   ELSE Message("Blob", id, size + 2 - left[id]))
          /\ left' = [left EXCEPT ![id] = @ - 1]
       \/ /\ MayFail
          /\ Sends(Message("Error", id, 0))
          /\ left' = [left EXCEPT ![id] = 0]
    /\ readQueue' = IF left'[id] = 0 THEN rest ELSE readQueue

WorkerSends(id) ==
    /\ IsIterator(id)
    /\ Answer(id, Elements, readQueue)
    /\ UNCHANGED <<client, queues, iterators, session>>

(* Mutant: each field is served by a thread of its own. *)
ReaderSends_AnyOrder ==
    /\ \E id \in Ids : ~IsIterator(id) /\ Answer(id, Chunks, readQueue)
    /\ UNCHANGED <<client, queues, iterators, session>>

ReaderSends ==
    /\ readQueue # << >>
    /\ Answer(Head(readQueue), Chunks, Tail(readQueue))
    /\ UNCHANGED <<client, queues, iterators, session>>

ArchiveError ==
    /\ \E id \in Ids :
          /\ over[id] = "archive"
          /\ (~LateErrors => archiveId = id)
          /\ Sends(Message("Error", id, 0))
          /\ over' = [over EXCEPT ![id] = "failed"]
    /\ session = "up"
    /\ UNCHANGED <<nextId, user, handles, got, archiveId, queues, iterators, session, left, readQueue>>

(* ~RemoteHandler: all workers are waited for before the client is told. *)
HandlerEnds ==
    /\ session = "ending"
    /\ \A id \in Ids : left[id] = 0
    /\ Sends(Message("Exit", 0, 0))
    /\ session' = "closed"
    /\ UNCHANGED <<client, queues, iterators, left, readQueue>>

ServerDies ==
    /\ MayFail /\ session \in {"up", "ending"}
    /\ session' = "dead"
    /\ left' = [id \in Ids |-> 0] /\ readQueue' = << >>
    /\ UNCHANGED <<client, queues, iterators, data>>

UserReturns ==
    \/ \E id \in Ids : NextReturns(id) \/ DropReturns(id) \/ ReadReturns(id)
    \/ Disconnected

Threads ==
    \/ \E id \in Ids : PumpPop(id) \/ PumpPush(id) \/ PumpEnds(id) \/ WorkerSends(id)
    \/ ListenerRead \/ ListenerFails \/ ReaderSends \/ HandlerEnds

Next ==
    \/ UserReturns \/ Threads
    \/ \E kind \in Kinds \ {"archive"} : Forward(kind) \/ ForwardThrows(kind)
    \/ DataHandle \/ DataHandleThrows \/ Disconnect
    \/ \E id \in Ids : Next_(id) \/ Drop(id) \/ Read(id)
    \/ StartArchive \/ ResetArchive \/ ArchiveError \/ ServerDies

(* Every thread runs, and every call returns when it can. *)
Fairness ==
    /\ WF_vars(UserReturns)
    /\ \A id \in Ids : WF_vars(PumpPop(id) \/ PumpPush(id) \/ PumpEnds(id)) /\ WF_vars(WorkerSends(id))
    /\ WF_vars(ListenerRead \/ ListenerFails) /\ WF_vars(ReaderSends) /\ WF_vars(HandlerEnds)

Spec == Init /\ [][Next]_vars /\ Fairness

----------------------------------------------------------------------------
(* The bounds of the queues, and who may stand in them. *)
TypeOK ==
    /\ nextId \in 1..MaxRequests + 1 /\ registered \subseteq Ids
    /\ \A id \in Ids :
          /\ Len(queue[id].elems) <= QueueCap /\ Len(iter[id].elems) <= IterCap
          /\ over[id] \in {"none", "open", "ended", "failed", "dropped", "archive"}
    /\ Len(retrieveQueue.elems) <= RetrieveCap /\ Len(data) <= DataCap
    /\ ToSet(handles) \subseteq Ids

InOrder(id, size) ==
    /\ \A i \in DOMAIN got[id] : got[id][i] = Message("Blob", id, i)
    /\ over[id] = "ended" => Len(got[id]) = size

(***************************************************************************)
(* The data handles share one queue and none of them looks at the number   *)
(* of the request a message belongs to: still each is given its own field, *)
(* from the beginning, and the whole of it when it is told that it ended   *)
(* ("the DataHandles ... MUST STRICTLY be read in order", RemoteFDB.cc).   *)
(***************************************************************************)
HandleGetsItsField == TypeOK /\ \A i \in DOMAIN handles : InOrder(handles[i], Chunks)

(***************************************************************************)
(* An iterator gives the elements of its own call in order, and ends       *)
(* normally only when it has given all of them: an error on either side    *)
(* is never taken for the end, though Complete and Exit overtake nothing.  *)
(***************************************************************************)
IteratorIsComplete == \A id \in Ids : IsIterator(id) => InOrder(id, Elements)

(***************************************************************************)
(* No call of the user waits for ever: next(), the destruction of an       *)
(* iterator, read() and disconnect() return, whatever threads wait for     *)
(* room in a queue, and when the server dies.                              *)
(***************************************************************************)
CallsReturn == (user # Idle) ~> (user = Idle)
=============================================================================
