---------------------------- MODULE RemoteArchive ----------------------------
(***************************************************************************)
(* Archiving over the network: one client session of RemoteFDB and its     *)
(* RemoteHandler on the server (RemoteFDB.cc, Handler.cc).                 *)
(*                                                                         *)
(* Client: the calling thread queues fields, the archive thread sends them *)
(* in batches over the data connection, the listening thread receives      *)
(* errors.  Server: the control loop answers blocking requests, the        *)
(* archive loop reads the data connection and queues, a worker archives.   *)
(* The control connection carries one request and its reply at a time; the *)
(* data connection to the server holds at most SocketCap messages before a *)
(* write blocks.  The session is connected from the start.  Either process *)
(* may die at any time.                                                    *)
(***************************************************************************)
EXTENDS Queues, SequencesExt, FiniteSets

CONSTANTS
    MaxFields,      \* bound: fields archived in a session
    QueueCap,       \* fdbRemoteArchiveQueueLength
    MaxBatch,       \* maxBatchSize
    SocketCap,      \* messages the data connection holds
    ServerQueueCap, \* fdbServerMaxQueueSize
    MaxRefused,     \* bound: fields the server's FDB refuses
    NoQueue         \* a null archiveQueue_

ASSUME CapAssumption ==
    /\ MaxFields \in Nat /\ MaxRefused \in Nat
    /\ QueueCap \in Nat \ {0} /\ MaxBatch \in Nat \ {0}
    /\ SocketCap \in Nat \ {0} /\ ServerQueueCap \in Nat \ {0}
    /\ NoQueue \notin [elems : Seq(1..MaxFields), closed : BOOLEAN, interrupted : BOOLEAN]

Fields == 1..MaxFields   \* in the order of the calls of archive()

(* Messages on the data connection, and the two ends of a control exchange. *)
Blob(fs) == [type |-> "Blob", fields |-> fs]
FlushMarker == [type |-> "Flush", fields |-> << >>]
Request(type, n) == [type |-> type, n |-> n]
Idle == Request("none", 0)

VARIABLES
    (* client *)
    call,          \* where the calling thread is
    calls,         \* fields for which archive() has been called
    nextID,        \* generateRequestID
    archiveID,     \* archiveID_
    archiveQueue,  \* archiveQueue_
    archiveFuture, \* archiveFuture_: "none" is an invalid future
    sender,        \* where the archive thread is
    hand,          \* the elements it has popped
    sent,          \* localStats.numArchive of the archive thread
    listener,      \* where the listening thread is
    retrieveQueue, \* errors put into retrieveMessageQueue_, by request id
    (* connections *)
    request, reply,   \* control connection
    toServer, toClient, \* data connection
    (* server *)
    handler,       \* "up", "ending" in its destructor, or "ended"
    unread,        \* the end marker of a failed request is still in the control socket
    future,        \* archiveFuture_ of the handler: state, number archived, request id
    loop,          \* where archiveThreadLoop is
    queue,         \* its queue
    worker,        \* where its worker is
    archived,      \* fields archived into the server's FDB, in order
    flushed,       \* fields the server's FDB has flushed
    (* environment and history *)
    refused,       \* the fields the server's FDB refuses
    accepted,      \* fields whose archive() returned since flush() last returned or threw
    acked          \* fields whose flush() has returned

client == <<call, calls, nextID, archiveID, archiveQueue, archiveFuture>>
threads == <<sender, hand, sent, listener, retrieveQueue>>
server == <<handler, unread, future, loop, queue, worker, archived, flushed>>
history == <<refused, accepted, acked>>
vars == <<client, threads, request, reply, toServer, toClient, server, history>>

----------------------------------------------------------------------------
NoFuture == [state |-> "none", n |-> 0, id |-> 0]

Init ==
    /\ call = "idle" /\ calls = 0 /\ nextID = 1
    /\ archiveID = 0 /\ archiveQueue = NoQueue /\ archiveFuture = "none"
    /\ sender = "none" /\ hand = << >> /\ sent = 0
    /\ listener = "read" /\ retrieveQueue = << >>
    /\ request = Idle /\ reply = "none"
    /\ toServer = << >> /\ toClient = << >>
    /\ handler = "up" /\ unread = FALSE /\ future = NoFuture
    /\ loop = "none" /\ queue = NewQueue /\ worker = "none"
    /\ archived = << >> /\ flushed = {}
    /\ refused \in {r \in SUBSET Fields : Cardinality(r) <= MaxRefused}
    /\ accepted = {} /\ acked = {}

----------------------------------------------------------------------------
(***************************************************************************)
(* The calling thread.  archive() starts a session on the server if none   *)
(* is active.  It asserts archiveID_ = 0 before: a call for which that     *)
(* fails throws and changes nothing.                                       *)
(***************************************************************************)
StartArchive ==
    /\ call = "idle" /\ calls < MaxFields
    /\ archiveFuture = "none" /\ archiveID = 0
    /\ calls' = calls + 1
    /\ nextID' = nextID + 1
    /\ request' = Request("Archive", nextID)
    /\ call' = "awaitArchive"
    /\ UNCHANGED <<archiveID, archiveQueue, archiveFuture, threads, reply, toServer, toClient,
                   server, history>>

(* The server has started its archive loop: make a new queue, launch the archive thread. *)
ArchiveStarted ==
    /\ call = "awaitArchive" /\ reply = "Received"
    /\ reply' = "none"
    /\ archiveID' = nextID - 1
    /\ archiveQueue' = NewQueue
    /\ archiveFuture' = "running"
    /\ sender' = "pop" /\ sent' = 0
    /\ call' = "enqueue"
    /\ UNCHANGED <<calls, nextID, hand, listener, retrieveQueue, request, toServer, toClient,
                   server, history>>

(* archive() with a session active takes the mutex of the queue and keeps it in emplace. *)
Archive ==
    /\ call = "idle" /\ calls < MaxFields
    /\ archiveFuture # "none" /\ archiveID # 0
    /\ calls' = calls + 1
    /\ call' = "enqueue"
    /\ UNCHANGED <<nextID, archiveID, archiveQueue, archiveFuture, threads, request, reply,
                   toServer, toClient, server, history>>

Enqueue ==
    /\ call = "enqueue"
    /\ CanEmplace(archiveQueue, QueueCap)
    /\ archiveQueue' = Emplace(archiveQueue, calls)
    /\ accepted' = accepted \cup {calls}
    /\ call' = "idle"
    /\ UNCHANGED <<calls, nextID, archiveID, archiveFuture, threads, request, reply, toServer,
                   toClient, server, refused, acked>>

EnqueueThrows ==
    /\ call = "enqueue"
    /\ archiveQueue.interrupted
    /\ call' = "idle"
    /\ UNCHANGED <<calls, nextID, archiveID, archiveQueue, archiveFuture, threads, request, reply,
                   toServer, toClient, server, history>>

(* Mutant: flush() waits for the archive thread without closing the queue. *)
Flush_LeavesOpen ==
    /\ call = "idle" /\ archiveFuture # "none"
    /\ call' = "join"
    /\ UNCHANGED <<calls, nextID, archiveID, archiveQueue, archiveFuture, threads, request, reply,
                   toServer, toClient, server, history>>

(* flush() with a session active closes the queue and waits for the archive thread. *)
Flush ==
    /\ call = "idle" /\ archiveFuture # "none"
    /\ archiveQueue' = [archiveQueue EXCEPT !.closed = TRUE]
    /\ call' = "join"
    /\ UNCHANGED <<calls, nextID, archiveID, archiveFuture, threads, request, reply, toServer,
                   toClient, server, history>>

(* archiveFuture_.get() returns: tell the server how many fields to expect. *)
Joined ==
    /\ call = "join" /\ archiveFuture = "done"
    /\ archiveFuture' = "none"
    /\ archiveID' = 0
    /\ nextID' = nextID + 1
    /\ request' = Request("Flush", sent)
    /\ call' = "awaitFlush"
    /\ UNCHANGED <<calls, archiveQueue, threads, reply, toServer, toClient, server, history>>

(* It rethrows: flush() leaves archiveID_ and the queue as they are. *)
JoinThrows ==
    /\ call = "join" /\ archiveFuture = "error"
    /\ archiveFuture' = "none"
    /\ accepted' = {}
    /\ call' = "idle"
    /\ UNCHANGED <<calls, nextID, archiveID, archiveQueue, threads, request, reply, toServer,
                   toClient, server, refused, acked>>

FlushReturns ==
    /\ call = "awaitFlush" /\ reply = "Received"
    /\ reply' = "none"
    /\ acked' = acked \cup accepted
    /\ accepted' = {}
    /\ call' = "idle"
    /\ UNCHANGED <<calls, nextID, archiveID, archiveQueue, archiveFuture, threads, request,
                   toServer, toClient, server, refused>>

(* handleError, or the connection is closed: archive() or flush() throws. *)
RequestThrows ==
    /\ call \in {"awaitArchive", "awaitFlush"}
    /\ reply = "Error" \/ (handler = "ended" /\ reply = "none")
    /\ reply' = "none"
    /\ request' = Idle
    /\ accepted' = {}
    /\ call' = "idle"
    /\ UNCHANGED <<calls, nextID, archiveID, archiveQueue, archiveFuture, threads, toServer,
                   toClient, server, refused, acked>>

(* ~RemoteFDB: disconnect() sends Exit and joins the listening thread. *)
Disconnect ==
    /\ call = "idle" /\ archiveFuture = "none"
    /\ request' = IF handler = "ended" THEN Idle ELSE Request("Exit", 0)
    /\ call' = "disconnect"
    /\ UNCHANGED <<calls, nextID, archiveID, archiveQueue, archiveFuture, threads, reply,
                   toServer, toClient, server, history>>

Disconnected ==
    /\ call = "disconnect" /\ listener \in {"ended", "dead"}
    /\ call' = "closed"
    /\ UNCHANGED <<calls, nextID, archiveID, archiveQueue, archiveFuture, threads, request, reply,
                   toServer, toClient, server, history>>

(***************************************************************************)
(* The client is killed, or ~RemoteFDB finds an archive thread active and  *)
(* terminates the process.  What is in the sockets still arrives.          *)
(***************************************************************************)
ClientDies ==
    /\ call # "closed"
    /\ call' = "closed"
    /\ archiveID' = 0 /\ archiveQueue' = NoQueue /\ archiveFuture' = "none"
    /\ sender' = "none" /\ hand' = << >> /\ listener' = "dead"
    /\ UNCHANGED <<calls, nextID, sent, retrieveQueue, request, reply, toServer, toClient, server,
                   history>>

----------------------------------------------------------------------------
(***************************************************************************)
(* A write to the data connection blocks while it is full.  Once the       *)
(* server has closed it a write may still succeed and its data is lost.    *)
(***************************************************************************)
DataWrite(m) ==
    \/ handler # "ended" /\ Len(toServer) < SocketCap /\ toServer' = Append(toServer, m)
    \/ handler = "ended" /\ UNCHANGED toServer

(* archiveThreadLoop of the client: pop as many elements as are there, up to a batch. *)
SenderPop ==
    LET n == IF Len(archiveQueue.elems) < MaxBatch THEN Len(archiveQueue.elems) ELSE MaxBatch IN
    /\ sender = "pop"
    /\ archiveQueue.elems # << >>
    /\ hand' = SubSeq(archiveQueue.elems, 1, n)
    /\ archiveQueue' = [archiveQueue EXCEPT !.elems = SubSeq(@, n + 1, Len(@))]
    /\ sender' = "send"
    /\ UNCHANGED <<call, calls, nextID, archiveID, archiveFuture, sent, listener, retrieveQueue,
                   request, reply, toServer, toClient, server, history>>

(* sendArchiveData: one message for the batch. *)
SenderSend ==
    /\ sender = "send"
    /\ DataWrite(Blob(hand))
    /\ sent' = sent + Len(hand)
    /\ hand' = << >>
    /\ sender' = "pop"
    /\ UNCHANGED <<client, listener, retrieveQueue, request, reply, toClient, server, history>>

(* pop reports the end; then the server is told that this was all. *)
SenderEnd ==
    /\ sender = "pop"
    /\ AtEnd(archiveQueue)
    /\ sender' = "marker"
    /\ UNCHANGED <<client, hand, sent, listener, retrieveQueue, request, reply, toServer, toClient,
                   server, history>>

SenderMarker ==
    /\ sender = "marker"
    /\ DataWrite(FlushMarker)
    /\ sender' = "reset"
    /\ UNCHANGED <<client, hand, sent, listener, retrieveQueue, request, reply, toClient, server,
                   history>>

(* archiveID_ is reset, and then the queue, without the mutex. *)
SenderResetID ==
    /\ sender = "reset"
    /\ archiveID' = 0
    /\ sender' = "resetQueue"
    /\ UNCHANGED <<call, calls, nextID, archiveQueue, archiveFuture, hand, sent, listener,
                   retrieveQueue, request, reply, toServer, toClient, server, history>>

SenderResetQueue ==
    /\ sender = "resetQueue"
    /\ archiveQueue' = NoQueue
    /\ archiveFuture' = "done"
    /\ sender' = "none"
    /\ UNCHANGED <<call, calls, nextID, archiveID, hand, sent, listener, retrieveQueue, request,
                   reply, toServer, toClient, server, history>>

(* The queue was interrupted or the connection is closed: the exception waits for flush(). *)
SenderThrows ==
    /\ \/ sender = "pop" /\ archiveQueue.interrupted
       \/ sender \in {"send", "marker"} /\ handler = "ended"
    /\ archiveQueue' = Interrupt(archiveQueue)
    /\ archiveFuture' = "error"
    /\ hand' = << >>
    /\ sender' = "none"
    /\ UNCHANGED <<call, calls, nextID, archiveID, sent, listener, retrieveQueue, request, reply,
                   toServer, toClient, server, history>>

(***************************************************************************)
(* listeningThreadLoop.  An error of the current archive request is for    *)
(* the archive queue; any other error goes to the retrieve queue.          *)
(***************************************************************************)
ListenerRead ==
    LET m == Head(toClient) IN
    /\ listener = "read" /\ toClient # << >>
    /\ toClient' = Tail(toClient)
    /\ \/ m = 0 /\ listener' = "ended" /\ UNCHANGED retrieveQueue     \* Exit
       \/ m # 0 /\ m = archiveID /\ listener' = "lock" /\ UNCHANGED retrieveQueue
       \/ m # 0 /\ m # archiveID /\ retrieveQueue' = Append(retrieveQueue, m) /\ UNCHANGED listener
    /\ UNCHANGED <<client, sender, hand, sent, request, reply, toServer, server, history>>

(***************************************************************************)
(* Waits for the mutex, which archive() holds while it waits for room.  If *)
(* the queue is gone the error's text is left in the socket and the next   *)
(* assertion fails.                                                        *)
(***************************************************************************)
ListenerInterrupt ==
    /\ listener = "lock" /\ call # "enqueue"
    /\ IF archiveQueue = NoQueue
       THEN listener' = "fail" /\ UNCHANGED archiveQueue
       ELSE listener' = "read" /\ archiveQueue' = Interrupt(archiveQueue)
    /\ UNCHANGED <<call, calls, nextID, archiveID, archiveFuture, sender, hand, sent,
                   retrieveQueue, request, reply, toServer, toClient, server, history>>

(* The server has closed the data connection. *)
ListenerClosed ==
    /\ listener = "read" /\ toClient = << >> /\ handler = "ended"
    /\ listener' = "fail"
    /\ UNCHANGED <<client, sender, hand, sent, retrieveQueue, request, reply, toServer, toClient,
                   server, history>>

(* The exception ends the thread; it interrupts the archive queue, under the mutex. *)
ListenerFails ==
    /\ listener = "fail" /\ call # "enqueue"
    /\ listener' = "dead"
    /\ archiveQueue' = IF archiveQueue = NoQueue THEN NoQueue ELSE Interrupt(archiveQueue)
    /\ UNCHANGED <<call, calls, nextID, archiveID, archiveFuture, sender, hand, sent,
                   retrieveQueue, request, reply, toServer, toClient, server, history>>

----------------------------------------------------------------------------
(***************************************************************************)
(* The control loop of the handler.  When a request throws, its end marker *)
(* is not read and the next header is misaligned, which ends the loop.     *)
(***************************************************************************)
Replies(r) ==
    /\ request' = Idle
    /\ reply' = r
    /\ unread' = (r = "Error")

(***************************************************************************)
(* ~RemoteHandler sends Exit, then waits for the archive loop, flushes its *)
(* FDB and closes the connections (HandlerEnds).                           *)
(***************************************************************************)
Destruct ==
    /\ handler' = "ending"
    /\ request' = Idle
    /\ toClient' = Append(toClient, 0)
    /\ UNCHANGED <<client, threads, reply, toServer, unread, future, loop, queue, worker,
                   archived, flushed, history>>

Misaligned ==
    /\ handler = "up" /\ unread /\ request # Idle
    /\ Destruct

ControlClosed ==
    /\ handler = "up" /\ call = "closed" /\ request = Idle
    /\ Destruct

HandleExit ==
    /\ handler = "up" /\ ~unread /\ request.type = "Exit"
    /\ Destruct

HandlerEnds ==
    /\ handler = "ending" /\ loop = "none"
    /\ handler' = "ended"
    /\ flushed' = flushed \cup ToSet(archived)
    /\ UNCHANGED <<client, threads, request, reply, toServer, toClient, unread, future, loop,
                   queue, worker, archived, history>>

(* archive(): start the archive loop.  It asserts that none is active. *)
HandleArchive ==
    /\ handler = "up" /\ ~unread /\ request.type = "Archive"
    /\ future.state = "none"
    /\ Replies("Received")
    /\ future' = [state |-> "running", n |-> 0, id |-> request.n]
    /\ loop' = "read" /\ worker' = "pop" /\ queue' = NewQueue
    /\ UNCHANGED <<client, threads, toServer, toClient, handler, archived, flushed, history>>

(* Mutant: flush() does not wait for the archive loop. *)
HandleFlush_NoWait ==
    /\ handler = "up" /\ ~unread /\ request.type = "Flush"
    /\ future' = NoFuture
    /\ Replies("Received")
    /\ flushed' = flushed \cup ToSet(archived)
    /\ UNCHANGED <<client, threads, toServer, toClient, handler, loop, queue, worker, archived,
                   history>>

(***************************************************************************)
(* flush(): wait for the archive loop, check the number of fields, flush   *)
(* the FDB, which may fail with some databases flushed.                    *)
(***************************************************************************)
HandleFlush ==
    LET complete == future.state = "done" /\ future.n = request.n IN
    /\ handler = "up" /\ ~unread /\ request.type = "Flush"
    /\ future.state \in {"done", "error"}
    /\ future' = NoFuture
    /\ \/ ~complete /\ Replies("Error") /\ UNCHANGED flushed
       \/ complete /\ Replies("Received") /\ flushed' = flushed \cup ToSet(archived)
       \/ /\ complete /\ Replies("Error")
          /\ \E fs \in SUBSET ToSet(archived) : flushed' = flushed \cup fs
    /\ UNCHANGED <<client, threads, toServer, toClient, handler, loop, queue, worker, archived,
                   history>>

(* The server process is killed. *)
ServerDies ==
    /\ handler # "ended"
    /\ handler' = "ended"
    /\ toServer' = << >>
    /\ loop' = "none" /\ worker' = "none" /\ queue' = NewQueue /\ future' = NoFuture
    /\ UNCHANGED <<client, threads, request, reply, toClient, unread, archived, flushed, history>>

----------------------------------------------------------------------------
(* archiveThreadLoop of the server: queue what the data connection brings. *)
LoopRead ==
    /\ loop = "read" /\ toServer # << >>
    /\ toServer' = Tail(toServer)
    /\ \/ /\ Head(toServer) = FlushMarker
          /\ queue' = [queue EXCEPT !.closed = TRUE]
          /\ loop' = "join"
       \/ /\ Head(toServer) # FlushMarker
          /\ CanEmplace(queue, ServerQueueCap)
          /\ queue' = Emplace(queue, Head(toServer).fields)
          /\ UNCHANGED loop
       \/ /\ Head(toServer) # FlushMarker
          /\ queue.interrupted
          /\ loop' = "throw"
          /\ UNCHANGED queue
    /\ UNCHANGED <<client, threads, request, reply, toClient, handler, unread, future, worker,
                   archived, flushed, history>>

(* worker.get(), after the last message. *)
LoopJoin ==
    /\ loop = "join" /\ worker \in {"done", "error"}
    /\ IF worker = "done"
       THEN /\ loop' = "none"
            /\ future' = [future EXCEPT !.state = "done"]
       ELSE /\ loop' = "throw"
            /\ UNCHANGED future
    /\ UNCHANGED <<client, threads, request, reply, toServer, toClient, handler, unread, queue,
                   worker, archived, flushed, history>>

(* The client has closed the data connection. *)
LoopDisconnected ==
    /\ loop = "read" /\ toServer = << >> /\ call = "closed"
    /\ loop' = "throw"
    /\ UNCHANGED <<client, threads, request, reply, toServer, toClient, handler, unread, future,
                   queue, worker, archived, flushed, history>>

(***************************************************************************)
(* The exception: tell the client and interrupt the worker.  Nobody reads  *)
(* the data connection any more.  If the client is gone the write may      *)
(* throw, and then the worker's queue stays open.                          *)
(***************************************************************************)
LoopThrows ==
    /\ loop = "throw"
    /\ \/ toClient' = Append(toClient, future.id) /\ queue' = Interrupt(queue)
       \/ call = "closed" /\ UNCHANGED <<toClient, queue>>
    /\ loop' = "unwind"
    /\ UNCHANGED <<client, threads, request, reply, toServer, handler, unread, future, worker,
                   archived, flushed, history>>

LoopUnwound ==
    /\ loop = "unwind" /\ worker \in {"done", "error"}
    /\ loop' = "none"
    /\ future' = [future EXCEPT !.state = "error"]
    /\ UNCHANGED <<client, threads, request, reply, toServer, toClient, handler, unread, queue,
                   worker, archived, flushed, history>>

(* Mutant: the worker goes on after a field that could not be archived. *)
WorkerArchive_GoesOn ==
    LET fs == SelectSeq(Head(queue.elems), LAMBDA f : f \notin refused) IN
    /\ worker = "pop" /\ queue.elems # << >>
    /\ archived' = archived \o fs
    /\ future' = [future EXCEPT !.n = @ + Len(Head(queue.elems))]
    /\ queue' = [queue EXCEPT !.elems = Tail(@)]
    /\ UNCHANGED <<client, threads, request, reply, toServer, toClient, handler, unread, loop,
                   worker, flushed, history>>

(***************************************************************************)
(* The worker archives the fields of one message.  The first one that the  *)
(* FDB refuses ends it and interrupts the queue.                           *)
(***************************************************************************)
WorkerArchive ==
    LET fs == Head(queue.elems)
        bad == {i \in DOMAIN fs : fs[i] \in refused}
        good == IF bad = {} THEN Len(fs) ELSE (CHOOSE i \in bad : \A j \in bad : i <= j) - 1
    IN
    /\ worker = "pop" /\ queue.elems # << >>
    /\ archived' = archived \o SubSeq(fs, 1, good)
    /\ future' = [future EXCEPT !.n = @ + good]
    /\ IF bad = {}
       THEN queue' = [queue EXCEPT !.elems = Tail(@)] /\ UNCHANGED worker
       ELSE queue' = Interrupt([queue EXCEPT !.elems = Tail(@)]) /\ worker' = "error"
    /\ UNCHANGED <<client, threads, request, reply, toServer, toClient, handler, unread, loop,
                   flushed, history>>

WorkerEnds ==
    /\ worker = "pop"
    /\ \/ AtEnd(queue) /\ worker' = "done"
       \/ queue.interrupted /\ worker' = "error"
    /\ UNCHANGED <<client, threads, request, reply, toServer, toClient, handler, unread, future,
                   loop, queue, archived, flushed, history>>

----------------------------------------------------------------------------
Caller == ArchiveStarted \/ Enqueue \/ EnqueueThrows \/ Joined \/ JoinThrows
          \/ FlushReturns \/ RequestThrows \/ Disconnected
Sender == SenderPop \/ SenderSend \/ SenderEnd \/ SenderMarker \/ SenderResetID \/ SenderResetQueue
          \/ SenderThrows
Listener == ListenerRead \/ ListenerInterrupt \/ ListenerClosed \/ ListenerFails
Control == Misaligned \/ ControlClosed \/ HandleArchive \/ HandleFlush \/ HandleExit \/ HandlerEnds
Loop == LoopRead \/ LoopJoin \/ LoopDisconnected \/ LoopThrows \/ LoopUnwound
Worker == WorkerArchive \/ WorkerEnds

Terminated == call = "closed" /\ handler = "ended" /\ UNCHANGED vars

Next ==
    \/ StartArchive \/ Archive \/ Flush \/ Disconnect
    \/ Caller \/ Sender \/ Listener \/ Control \/ Loop \/ Worker
    \/ ClientDies \/ ServerDies
    \/ Terminated

Spec == Init /\ [][Next]_vars

(* Every thread keeps running; the application may stop calling, and nobody has to die. *)
FairSpec ==
    /\ Spec
    /\ WF_vars(Caller) /\ WF_vars(Sender) /\ WF_vars(Listener)
    /\ WF_vars(Control) /\ WF_vars(Loop) /\ WF_vars(Worker)

----------------------------------------------------------------------------
QueueOf(S) == [elems : Seq(S), closed : BOOLEAN, interrupted : BOOLEAN]

TypeOK ==
    /\ call \in {"idle", "awaitArchive", "enqueue", "join", "awaitFlush", "disconnect", "closed"}
    /\ calls \in 0..MaxFields /\ nextID \in Nat /\ archiveID \in Nat
    /\ archiveQueue \in QueueOf(Fields) \cup {NoQueue}
    /\ archiveQueue # NoQueue => Len(archiveQueue.elems) <= QueueCap
    /\ archiveFuture \in {"none", "running", "done", "error"}
    /\ sender \in {"none", "pop", "send", "marker", "reset", "resetQueue"}
    /\ hand \in Seq(Fields) /\ sent \in Nat
    /\ listener \in {"read", "lock", "fail", "ended", "dead"} /\ retrieveQueue \in Seq(Nat)
    /\ request \in [type : {"none", "Archive", "Flush", "Exit"}, n : Nat]
    /\ reply \in {"none", "Received", "Error"}
    /\ toServer \in Seq([type : {"Blob", "Flush"}, fields : Seq(Fields)])
    /\ Len(toServer) <= SocketCap
    /\ toClient \in Seq(Nat)
    /\ handler \in {"up", "ending", "ended"} /\ unread \in BOOLEAN
    /\ future \in [state : {"none", "running", "done", "error"}, n : Nat, id : Nat]
    /\ loop \in {"none", "read", "join", "throw", "unwind"}
    /\ queue \in QueueOf(Seq(Fields)) /\ Len(queue.elems) <= ServerQueueCap
    /\ worker \in {"none", "pop", "done", "error"}
    /\ archived \in Seq(Fields) /\ flushed \subseteq Fields
    /\ refused \subseteq Fields /\ accepted \subseteq Fields /\ acked \subseteq Fields

(***************************************************************************)
(* When flush() has returned on the client, the server's FDB has archived  *)
(* and flushed every field of the session (RemoteFDB::flush, "The flush    *)
(* call is blocking"), whatever was batched, queued or in flight.          *)
(***************************************************************************)
FlushedOnServer == TypeOK /\ acked \subseteq flushed

(***************************************************************************)
(* The server archives the fields in the order of the calls and none       *)
(* twice, and nothing after a field it could not archive: later fields     *)
(* with the same key replace earlier ones, so order matters.               *)
(***************************************************************************)
ArchivedInOrder ==
    /\ \A i \in DOMAIN archived : \A j \in 1..(i - 1) : archived[j] < archived[i]
    /\ \A f \in refused : \A i \in DOMAIN archived : archived[i] < f

(***************************************************************************)
(* Every call of archive(), flush() and the destructor returns or throws:  *)
(* errors of the archive thread "will be released when flush() is called"  *)
(* (RemoteFDB::archiveThreadLoop).                                         *)
(***************************************************************************)
CallsReturn == call \notin {"idle", "closed"} ~> call \in {"idle", "closed"}
=============================================================================
