------------------------- MODULE RemoteArchiveProofs -------------------------
(***************************************************************************)
(* Theorems about archiving over the network, for any number of fields,    *)
(* any capacities of the queues and the connection, any batch size and any *)
(* refused fields, with errors and the death of either side.               *)
(***************************************************************************)
EXTENDS RemoteArchive, Lemmas

(***************************************************************************)
(* Fields are numbered in the order of the calls, so what is on its way is *)
(* a run of consecutive numbers, cut into pieces by the batches.  The      *)
(* sequence fs holds what follows a; the sequences ss hold a+1..b between  *)
(* them, piece after piece: g tells where each one starts.                 *)
(***************************************************************************)
Run(fs, a) == \A j \in 1..Len(fs) : fs[j] = a + j

Follows(ss, a, b) ==
    \E g \in [1..Len(ss) + 1 -> 0..MaxFields] :
        /\ g[1] = a /\ g[Len(ss) + 1] = b
        /\ \A i \in 1..Len(ss) : Run(ss[i], g[i]) /\ g[i + 1] = g[i] + Len(ss[i])

Pieces(ms) == [i \in 1..Len(ms) |-> ms[i].fields]

(* What the server has archived, has queued and has still to read are the fields 1..c. *)
Carried(c) ==
    \E b \in 0..MaxFields : Follows(queue.elems, Len(archived), b) /\ Follows(Pieces(toServer), b, c)

(* What is archived is a prefix of the session; a refused field is not in it. *)
ArchivedIsPrefix ==
    \A i \in 1..Len(archived) : archived[i] = i /\ archived[i] \notin refused

(* What the worker, and the loop that feeds it, will archive comes next. *)
QueueFollows ==
    /\ worker = "pop" => \E b \in 0..MaxFields : Follows(queue.elems, Len(archived), b)
    /\ loop = "read" /\ ~queue.interrupted => \E c \in 0..MaxFields : Carried(c)

(* The threads of the handler. *)
ServerShape ==
    /\ future.state = "running" <=> loop # "none"
    /\ loop = "none" => worker # "pop"
    /\ loop = "read" =>
          IF queue.interrupted THEN worker = "error" ELSE ~queue.closed /\ worker = "pop"
    /\ loop = "join" =>
          /\ queue.closed
          /\ queue.interrupted <=> worker = "error"
          /\ worker = "done" => queue.elems = << >>
    /\ handler = "ended" => loop = "none"
    /\ unread => future.state = "none"
    /\ loop = "read" /\ call # "closed" => handler = "up"

(* The threads of the client, and the control connection between a call and its reply. *)
ClientShape ==
    /\ archiveFuture = "running" <=> sender # "none"
    /\ sender # "none" \/ archiveFuture = "error" => archiveQueue # NoQueue
    /\ archiveFuture # "none" => call \in {"idle", "enqueue", "join"}
    /\ call \in {"enqueue", "join"} => archiveFuture # "none"
    /\ sender \in {"marker", "reset", "resetQueue"} \/ archiveFuture = "done" => call = "join"
    /\ sender \in {"pop", "send"} /\ archiveQueue.closed /\ ~archiveQueue.interrupted => call = "join"
    /\ sender # "send" => hand = << >>
    /\ call \in {"idle", "enqueue", "join"} => request = Idle /\ reply = "none"
    /\ call = "awaitArchive" => request = Idle \/ (request.type = "Archive" /\ reply = "none")
    /\ call = "awaitFlush" => request = Idle \/ (request.type = "Flush" /\ reply = "none")
    /\ call = "disconnect" => request.type \in {"none", "Exit"} /\ reply = "none"
    /\ call \in {"awaitArchive", "enqueue"} => calls # 0
    /\ nextID # 0
    /\ accepted \subseteq 1..calls

(***************************************************************************)
(* Nothing has gone wrong that an end of the session would have to know:   *)
(* once lost this does not come back.                                      *)
(***************************************************************************)
Sound == handler = "up" /\ ~unread /\ future.state # "error" /\ loop \notin {"throw", "unwind"}
Healthy == Sound /\ call # "closed"

(* Nothing is left of the session before when the next one is asked for. *)
AskedAfresh == Sound /\ request.type = "Archive" => future.state = "none" /\ toServer = << >>

NoError ==
    /\ toClient = << >> /\ listener = "read" /\ reply # "Error"
    /\ archiveQueue # NoQueue => ~archiveQueue.interrupted
    /\ archiveFuture # "error"

(* The server has everything. *)
AllArchived == future.state = "none" /\ toServer = << >> /\ Len(archived) = calls

(* A session has been asked for, and perhaps been opened. *)
Starting ==
    /\ toServer = << >> /\ Len(archived) = calls - 1
    /\ IF reply = "Received" THEN loop = "read" /\ ~queue.interrupted /\ queue.elems = << >>
       ELSE future.state = "none"

NoMarker(n) == \A i \in 1..n : toServer[i] # FlushMarker

(* The archive thread is at work: nothing is missing between the caller and the server. *)
Sending ==
    /\ loop = "read" /\ NoMarker(Len(toServer))
    /\ sender = "marker" => archiveQueue.elems = << >>
    /\ \/ queue.interrupted
       \/ \E c \in 0..MaxFields :
             /\ Carried(c)
             /\ Run(hand, c) /\ Run(archiveQueue.elems, c + Len(hand))
             /\ c + Len(hand) + Len(archiveQueue.elems) = IF call = "enqueue" THEN calls - 1 ELSE calls

(* All has been sent: the marker is the last of it. *)
Sent ==
    \/ /\ loop = "read" /\ toServer # << >>
       /\ toServer[Len(toServer)] = FlushMarker /\ NoMarker(Len(toServer) - 1)
       /\ queue.interrupted \/ Carried(calls)
    \/ /\ loop = "join" /\ toServer = << >>
       /\ queue.interrupted \/ Follows(queue.elems, Len(archived), calls)
    \/ loop = "none" /\ future.state = "done" /\ toServer = << >> /\ Len(archived) = calls

IdleHasArchived == archiveFuture = "none" /\ call \in {"idle", "disconnect"} => AllArchived
AskedIsStarting == call = "awaitArchive" => Starting
OpenIsSending == sender \in {"pop", "send", "marker"} => Sending
EndedHasSent ==
    \/ sender \in {"reset", "resetQueue"} \/ archiveFuture = "done"
    \/ call = "awaitFlush" /\ reply = "none"
    => Sent
AnsweredHasArchived == call = "awaitFlush" /\ reply = "Received" => AllArchived

NothingMissing ==
    Healthy => /\ NoError /\ IdleHasArchived /\ AskedIsStarting
               /\ OpenIsSending /\ EndedHasSent /\ AnsweredHasArchived

(* The reply to flush() is only sent when the server has flushed. *)
ReplyMeansFlushed == call = "awaitFlush" /\ reply = "Received" => accepted \subseteq flushed

IInv ==
    /\ TypeOK
    /\ ArchivedIsPrefix
    /\ QueueFollows
    /\ ServerShape
    /\ ClientShape
    /\ AskedAfresh
    /\ NothingMissing
    /\ ReplyMeansFlushed
    /\ acked \subseteq flushed

----------------------------------------------------------------------------
(* A run of fields ends with a field. *)
LEMMA RunEnds ==
    ASSUME CapAssumption, NEW fs \in Seq(Fields), NEW a \in 0..MaxFields, Run(fs, a)
    PROVE  a + Len(fs) \in 0..MaxFields
<1>1. CASE Len(fs) = 0
    BY <1>1 DEF CapAssumption
<1>2. CASE Len(fs) # 0
  <2>1. fs[Len(fs)] = a + Len(fs) /\ fs[Len(fs)] \in Fields
    BY <1>2 DEF Run
  <2> QED
    BY <2>1 DEF Fields, CapAssumption
<1> QED
    BY <1>1, <1>2

(* No piece holds what lies between a and a. *)
LEMMA FollowsNothing ==
    ASSUME CapAssumption, NEW a \in 0..MaxFields
    PROVE  /\ Follows(<< >>, a, a)
           /\ \A b : Follows(<< >>, a, b) => b = a
<1>1. Follows(<< >>, a, a)
  <2> DEFINE g == [i \in 1..1 |-> a]
  <2>1. g \in [1..Len(<< >>) + 1 -> 0..MaxFields] /\ g[1] = a
    OBVIOUS
  <2> HIDE DEF g
  <2> QED
    BY <2>1 DEF Follows
<1>2. \A b : Follows(<< >>, a, b) => b = a
    BY DEF Follows
<1> QED
    BY <1>1, <1>2

(* A piece that comes next may be appended. *)
LEMMA FollowsAppend ==
    ASSUME CapAssumption, NEW ss \in Seq(Seq(Fields)), NEW f \in Seq(Fields),
           NEW a \in 0..MaxFields, NEW b \in 0..MaxFields, Follows(ss, a, b), Run(f, b)
    PROVE  Follows(Append(ss, f), a, b + Len(f)) /\ b + Len(f) \in 0..MaxFields
<1>1. b + Len(f) \in 0..MaxFields
    BY RunEnds
<1>2. PICK g \in [1..Len(ss) + 1 -> 0..MaxFields] :
          /\ g[1] = a /\ g[Len(ss) + 1] = b
          /\ \A i \in 1..Len(ss) : Run(ss[i], g[i]) /\ g[i + 1] = g[i] + Len(ss[i])
    BY DEF Follows
<1> DEFINE tt == Append(ss, f)
           h == [i \in 1..Len(ss) + 2 |-> IF i = Len(ss) + 2 THEN b + Len(f) ELSE g[i]]
<1>3. Len(tt) = Len(ss) + 1 /\ Len(ss) \in Nat /\ tt[Len(ss) + 1] = f
    OBVIOUS
<1>4. \A i \in 1..Len(ss) : tt[i] = ss[i]
    OBVIOUS
<1>5. h \in [1..Len(tt) + 1 -> 0..MaxFields]
    BY <1>1, <1>3
<1>6. h[1] = a /\ h[Len(tt) + 1] = b + Len(f)
    BY <1>2, <1>3
<1>7. ASSUME NEW i \in 1..Len(tt) PROVE Run(tt[i], h[i]) /\ h[i + 1] = h[i] + Len(tt[i])
  <2>1. CASE i = Len(ss) + 1
    <3>1. h[i] = b /\ h[i + 1] = b + Len(f) /\ tt[i] = f
        BY <1>2, <1>3, <2>1
    <3> QED
        BY <3>1
  <2>2. CASE i # Len(ss) + 1
    <3>1. i \in 1..Len(ss) /\ tt[i] = ss[i]
        BY <1>3, <1>4, <2>2
    <3>2. h[i] = g[i] /\ h[i + 1] = g[i + 1]
        BY <1>3, <3>1
    <3> QED
        BY <1>2, <3>1, <3>2
  <2> QED
    BY <2>1, <2>2
<1> HIDE DEF tt, h
<1>8. Follows(tt, a, b + Len(f))
    BY <1>5, <1>6, <1>7 DEF Follows
<1> QED
    BY <1>1, <1>8 DEF tt

(* The first piece comes next, and the rest follows it. *)
LEMMA FollowsTail ==
    ASSUME CapAssumption, NEW ss \in Seq(Seq(Fields)), ss # << >>,
           NEW a \in 0..MaxFields, NEW b \in 0..MaxFields, Follows(ss, a, b)
    PROVE  /\ Run(Head(ss), a) /\ a + Len(Head(ss)) \in 0..MaxFields
           /\ Follows(Tail(ss), a + Len(Head(ss)), b)
<1>1. PICK g \in [1..Len(ss) + 1 -> 0..MaxFields] :
          /\ g[1] = a /\ g[Len(ss) + 1] = b
          /\ \A i \in 1..Len(ss) : Run(ss[i], g[i]) /\ g[i + 1] = g[i] + Len(ss[i])
    BY DEF Follows
<1>2. Len(ss) \in Nat \ {0} /\ Head(ss) = ss[1] /\ Head(ss) \in Seq(Fields)
    OBVIOUS
<1>3. Run(Head(ss), a) /\ g[2] = a + Len(Head(ss)) /\ g[2] \in 0..MaxFields
  <2>1. 1 \in 1..Len(ss) /\ 2 \in 1..Len(ss) + 1
    BY <1>2
  <2>2. Run(ss[1], g[1]) /\ g[1 + 1] = g[1] + Len(ss[1])
    BY <1>1, <2>1
  <2>3. g[2] = g[1] + Len(ss[1])
    BY <2>2
  <2> QED
    BY <1>1, <1>2, <2>1, <2>2, <2>3
<1> DEFINE tt == Tail(ss)
           h == [i \in 1..Len(ss) |-> g[i + 1]]
<1>4. Len(tt) = Len(ss) - 1 /\ \A i \in 1..Len(tt) : tt[i] = ss[i + 1]
    BY <1>2
<1>5. h \in [1..Len(tt) + 1 -> 0..MaxFields] /\ h[1] = g[2] /\ h[Len(tt) + 1] = b
    BY <1>1, <1>2, <1>4
<1>6. ASSUME NEW i \in 1..Len(tt) PROVE Run(tt[i], h[i]) /\ h[i + 1] = h[i] + Len(tt[i])
  <2>1. i + 1 \in 1..Len(ss) /\ h[i] = g[i + 1] /\ h[i + 1] = g[i + 2] /\ tt[i] = ss[i + 1]
    BY <1>2, <1>4
  <2>2. Run(ss[i + 1], g[i + 1]) /\ g[(i + 1) + 1] = g[i + 1] + Len(ss[i + 1])
    BY <1>1, <2>1
  <2> QED
    BY <2>1, <2>2
<1> HIDE DEF tt, h
<1>7. Follows(tt, g[2], b)
    BY <1>5, <1>6 DEF Follows
<1> QED
    BY <1>3, <1>7 DEF tt

Message == [type : {"Blob", "Flush"}, fields : Seq(Fields)]

(* The pieces of a sequence of messages are taken and appended as the messages are. *)
LEMMA PiecesOf ==
    /\ Pieces(<< >>) = << >>
    /\ \A ms \in Seq(Message) : Pieces(ms) \in Seq(Seq(Fields))
    /\ \A ms \in Seq(Message), m \in Message : Pieces(Append(ms, m)) = Append(Pieces(ms), m.fields)
    /\ \A ms \in Seq(Message) : ms # << >> =>
           /\ Pieces(ms) # << >>
           /\ Pieces(Tail(ms)) = Tail(Pieces(ms))
           /\ Head(Pieces(ms)) = Head(ms).fields
<1>1. Pieces(<< >>) = << >>
    BY DEF Pieces
<1>2. ASSUME NEW ms \in Seq(Message) PROVE Pieces(ms) \in Seq(Seq(Fields)) /\ Len(Pieces(ms)) = Len(ms)
  <2>1. Len(ms) \in Nat /\ \A i \in 1..Len(ms) : ms[i].fields \in Seq(Fields)
  <3>1. Len(ms) \in Nat
    BY LenProperties
  <3>2. ASSUME NEW i \in 1..Len(ms) PROVE ms[i].fields \in Seq(Fields)
    <4>1. ms[i] \in Message
        BY ElementOfSeq
    <4> QED
        BY <4>1 DEF Message
  <3> QED
    BY <3>1, <3>2
  <2>2. Pieces(ms) \in [1..Len(ms) -> Seq(Fields)]
    BY <2>1 DEF Pieces
  <2> QED
    BY <2>1, <2>2
<1>3. ASSUME NEW ms \in Seq(Message), NEW m \in Message
      PROVE  Pieces(Append(ms, m)) = Append(Pieces(ms), m.fields)
  <2> DEFINE mm == Append(ms, m)
             pp == Append(Pieces(ms), m.fields)
  <2>1. mm \in Seq(Message) /\ Len(mm) = Len(ms) + 1 /\ mm[Len(ms) + 1] = m
        /\ \A i \in 1..Len(ms) : mm[i] = ms[i]
    BY <1>3
  <2>2. m.fields \in Seq(Fields)
    BY <1>3 DEF Message
  <2>3. pp \in Seq(Seq(Fields)) /\ Len(pp) = Len(ms) + 1 /\ pp[Len(ms) + 1] = m.fields
        /\ \A i \in 1..Len(ms) : pp[i] = Pieces(ms)[i]
    BY <1>2, <1>3, <2>2
  <2> HIDE DEF mm, pp
  <2>4. Pieces(mm) \in Seq(Seq(Fields)) /\ Len(Pieces(mm)) = Len(ms) + 1
    BY <1>2, <2>1
  <2>5. ASSUME NEW i \in 1..Len(pp) PROVE Pieces(mm)[i] = pp[i]
    <3>1. Len(ms) \in Nat /\ i \in 1..Len(mm)
        BY <1>3, <2>1, <2>3
    <3>2. Pieces(mm)[i] = mm[i].fields
        BY <3>1 DEF Pieces
    <3>3. CASE i = Len(ms) + 1
        BY <2>1, <2>3, <3>2, <3>3
    <3>4. CASE i # Len(ms) + 1
      <4>1. i \in 1..Len(ms)
        BY <2>1, <3>1, <3>4
      <4>2. Pieces(ms)[i] = ms[i].fields
        BY <4>1 DEF Pieces
      <4> QED
        BY <2>1, <2>3, <3>2, <4>1, <4>2
    <3> QED
        BY <3>3, <3>4
  <2>6. Pieces(mm) = pp
    BY <2>3, <2>4, <2>5, SeqEqual
  <2> QED
    BY <2>6 DEF mm, pp
<1>4. ASSUME NEW ms \in Seq(Message), ms # << >>
      PROVE  /\ Pieces(ms) # << >>
             /\ Pieces(Tail(ms)) = Tail(Pieces(ms))
             /\ Head(Pieces(ms)) = Head(ms).fields
  <2>0. Len(ms) \in Nat \ {0}
    BY <1>4, EmptySeq
  <2>1. Tail(ms) \in Seq(Message) /\ Len(Tail(ms)) = Len(ms) - 1 /\ Len(ms) \in Nat \ {0}
    BY <1>4, <2>0, HeadTailProperties
  <2>2. Pieces(ms) # << >> /\ Head(Pieces(ms)) = Head(ms).fields
    BY <1>2, <2>1 DEF Pieces
  <2>3. Tail(Pieces(ms)) \in Seq(Seq(Fields)) /\ Len(Tail(Pieces(ms))) = Len(ms) - 1
    BY <1>2, <2>1, <2>2
  <2>4. \A i \in 1..Len(ms) - 1 : Pieces(Tail(ms))[i] = Tail(Pieces(ms))[i]
    <3> SUFFICES ASSUME NEW i \in 1..Len(ms) - 1 PROVE Pieces(Tail(ms))[i] = Tail(Pieces(ms))[i]
        OBVIOUS
    <3>1. Tail(Pieces(ms))[i] = Pieces(ms)[i + 1]
        BY <1>2, <2>1, <2>2
    <3>2. Pieces(Tail(ms))[i] = ms[i + 1].fields /\ Pieces(ms)[i + 1] = ms[i + 1].fields
        BY <2>1 DEF Pieces
    <3> QED
        BY <3>1, <3>2
  <2> QED
    BY <1>2, <2>1, <2>2, <2>3, <2>4, SeqEqual
<1> QED
    BY <1>1, <1>2, <1>3, <1>4

----------------------------------------------------------------------------
(* What the operations on a queue do to it. *)
LEMMA QueueTypes ==
    ASSUME NEW S, NEW q \in QueueOf(S)
    PROVE  /\ q.elems \in Seq(S) /\ q.closed \in BOOLEAN /\ q.interrupted \in BOOLEAN
           /\ Interrupt(q) \in QueueOf(S) /\ Interrupt(q).elems = q.elems
           /\ Interrupt(q).closed /\ Interrupt(q).interrupted
<1>1. q.elems \in Seq(S) /\ q.closed \in BOOLEAN /\ q.interrupted \in BOOLEAN
    BY DEF QueueOf
<1>2. Interrupt(q) \in QueueOf(S)
    BY DEF QueueOf, Interrupt
<1>3. Interrupt(q).elems = q.elems /\ Interrupt(q).closed /\ Interrupt(q).interrupted
    BY DEF QueueOf, Interrupt
<1> QED
    BY <1>1, <1>2, <1>3

(* What emplace leaves of a queue. *)
LEMMA EmplaceTypes ==
    ASSUME NEW S, NEW q \in QueueOf(S), NEW e \in S
    PROVE  /\ Emplace(q, e) \in QueueOf(S) /\ Emplace(q, e).elems = Append(q.elems, e)
           /\ Emplace(q, e).closed = q.closed /\ Emplace(q, e).interrupted = q.interrupted
<1>1. Emplace(q, e) \in QueueOf(S)
    BY DEF QueueOf, Emplace
<1>2. /\ Emplace(q, e).elems = Append(q.elems, e)
      /\ Emplace(q, e).closed = q.closed /\ Emplace(q, e).interrupted = q.interrupted
    BY DEF QueueOf, Emplace
<1> QED
    BY <1>1, <1>2

(* What closing leaves of a queue. *)
LEMMA CloseTypes ==
    ASSUME NEW S, NEW q \in QueueOf(S), NEW r, r = [q EXCEPT !.closed = TRUE]
    PROVE  r \in QueueOf(S) /\ r.elems = q.elems /\ r.closed /\ r.interrupted = q.interrupted
<1>1. r \in QueueOf(S)
    BY DEF QueueOf
<1>2. r.elems = q.elems /\ r.closed /\ r.interrupted = q.interrupted
    BY DEF QueueOf
<1> QED
    BY <1>1, <1>2

(* A queue with other elements. *)
LEMMA ElemsTypes ==
    ASSUME NEW S, NEW q \in QueueOf(S), NEW es \in Seq(S), NEW r, r = [q EXCEPT !.elems = es]
    PROVE  r \in QueueOf(S) /\ r.elems = es /\ r.closed = q.closed /\ r.interrupted = q.interrupted
<1>1. r \in QueueOf(S)
    BY DEF QueueOf
<1>2. r.elems = es /\ r.closed = q.closed /\ r.interrupted = q.interrupted
    BY DEF QueueOf
<1> QED
    BY <1>1, <1>2

(* A new queue is a queue. *)
LEMMA NewQueueType ==
    /\ \A S : NewQueue \in QueueOf(S)
    /\ NewQueue.elems = << >> /\ ~NewQueue.closed /\ ~NewQueue.interrupted
BY DEF QueueOf, NewQueue

(* The null pointer is not a queue. *)
LEMMA NoQueueIsNone == CapAssumption => NoQueue \notin QueueOf(Fields)
BY DEF CapAssumption, QueueOf, Fields

(* The parts of the state, for one at a time. *)
CallType ==
    /\ call \in {"idle", "awaitArchive", "enqueue", "join", "awaitFlush", "disconnect", "closed"}
    /\ calls \in 0..MaxFields /\ nextID \in Nat /\ archiveID \in Nat
    /\ archiveFuture \in {"none", "running", "done", "error"}
    /\ request \in [type : {"none", "Archive", "Flush", "Exit"}, n : Nat]
    /\ reply \in {"none", "Received", "Error"}
    /\ sent \in Nat

ArchiveQueueType ==
    /\ archiveQueue \in QueueOf(Fields) \cup {NoQueue}
    /\ archiveQueue # NoQueue => Len(archiveQueue.elems) <= QueueCap

ThreadsType ==
    /\ sender \in {"none", "pop", "send", "marker", "reset", "resetQueue"}
    /\ hand \in Seq(Fields)
    /\ listener \in {"read", "lock", "fail", "ended", "dead"} /\ retrieveQueue \in Seq(Nat)
    /\ toServer \in Seq(Message) /\ Len(toServer) <= SocketCap
    /\ toClient \in Seq(Nat)

HandlerType ==
    /\ handler \in {"up", "ending", "ended"} /\ unread \in BOOLEAN
    /\ future \in [state : {"none", "running", "done", "error"}, n : Nat, id : Nat]
    /\ loop \in {"none", "read", "join", "throw", "unwind"}
    /\ worker \in {"none", "pop", "done", "error"}

QueueType == queue \in QueueOf(Seq(Fields)) /\ Len(queue.elems) <= ServerQueueCap

FieldsType ==
    /\ archived \in Seq(Fields) /\ flushed \subseteq Fields
    /\ refused \subseteq Fields /\ accepted \subseteq Fields /\ acked \subseteq Fields

(* TypeOK, part by part. *)
LEMMA TypeParts ==
    TypeOK <=> /\ CallType /\ ArchiveQueueType /\ ThreadsType
               /\ HandlerType /\ QueueType /\ FieldsType
BY DEF TypeOK, CallType, ArchiveQueueType, ThreadsType, HandlerType, QueueType, FieldsType,
   Message

(* The types at the start. *)
LEMMA InitType == CapAssumption /\ Init => TypeOK
<1> SUFFICES ASSUME CapAssumption, Init PROVE TypeOK
    OBVIOUS
<1>1. CallType
    BY DEF CapAssumption, Init, CallType, Idle, Request
<1>2. ArchiveQueueType
    BY DEF Init, ArchiveQueueType
<1>3. ThreadsType
    BY DEF CapAssumption, Init, ThreadsType
<1>4. HandlerType
    BY DEF Init, HandlerType, NoFuture
<1>5. QueueType
    BY NewQueueType DEF CapAssumption, Init, QueueType
<1>6. FieldsType
    BY DEF Init, FieldsType
<1> QED
    BY <1>1, <1>2, <1>3, <1>4, <1>5, <1>6, TypeParts

(* Whoever uses the archive queue has one. *)
LEMMA HasQueue ==
    ASSUME CapAssumption, TypeOK, ClientShape, sender # "none" \/ call \in {"enqueue", "join"} \/ archiveFuture # "none"
    PROVE  \/ archiveQueue \in QueueOf(Fields) /\ Len(archiveQueue.elems) <= QueueCap
           \/ call = "join" /\ archiveFuture = "done"
<1>1. sender # "none" \/ archiveFuture # "none"
    BY DEF ClientShape
<1>2. archiveFuture \in {"none", "running", "done", "error"}
    BY TypeParts DEF CallType
<1>3. archiveQueue # NoQueue \/ (call = "join" /\ archiveFuture = "done")
    BY <1>1, <1>2 DEF ClientShape
<1> QED
    BY <1>3, TypeParts DEF ArchiveQueueType

(* The archive thread takes the first elements and leaves the others. *)
LEMMA SenderPops ==
    ASSUME CapAssumption, TypeOK, ClientShape, SenderPop
    PROVE  \E n \in 0..Len(archiveQueue.elems) :
              /\ archiveQueue \in QueueOf(Fields) /\ archiveQueue' \in QueueOf(Fields)
              /\ hand' \in Seq(Fields) /\ Len(hand') = n
              /\ \A i \in 1..n : hand'[i] = archiveQueue.elems[i]
              /\ Len(archiveQueue'.elems) = Len(archiveQueue.elems) - n
              /\ \A i \in 1..Len(archiveQueue.elems) - n : archiveQueue'.elems[i] = archiveQueue.elems[n + i]
              /\ archiveQueue'.closed = archiveQueue.closed
              /\ archiveQueue'.interrupted = archiveQueue.interrupted
<1> DEFINE es == archiveQueue.elems
           n == IF Len(es) < MaxBatch THEN Len(es) ELSE MaxBatch
           rest == SubSeq(es, n + 1, Len(es))
<1>1. archiveQueue \in QueueOf(Fields)
    BY HasQueue DEF SenderPop, ClientShape
<1>2. es \in Seq(Fields) /\ Len(es) \in Nat
    BY <1>1, QueueTypes
<1>3. n \in 0..Len(es)
    BY <1>2 DEF CapAssumption
<1>4. hand' = SubSeq(es, 1, n) /\ archiveQueue' = [archiveQueue EXCEPT !.elems = rest]
    BY DEF SenderPop
<1> HIDE DEF n
<1>5. hand' \in Seq(Fields) /\ Len(hand') = n /\ \A i \in 1..n : hand'[i] = es[i]
    <2> HIDE DEF es
    <2> QED  BY <1>2, <1>3, <1>4, FirstPart
<1>6. rest \in Seq(Fields) /\ Len(rest) = Len(es) - n /\ \A i \in 1..Len(es) - n : rest[i] = es[n + i]
    <2> HIDE DEF es
    <2> QED  BY <1>2, <1>3, OtherPart
<1> HIDE DEF rest
<1>7. /\ archiveQueue' \in QueueOf(Fields)
      /\ archiveQueue'.elems = rest /\ archiveQueue'.closed = archiveQueue.closed
      /\ archiveQueue'.interrupted = archiveQueue.interrupted
    BY <1>1, <1>4, <1>6, ElemsTypes
<1> QED
    BY <1>1, <1>3, <1>5, <1>6, <1>7

(* The worker archives fields up to one that is refused. *)
LEMMA WorkerArchives ==
    ASSUME CapAssumption, TypeOK, WorkerArchive
    PROVE  /\ queue.elems \in Seq(Seq(Fields)) /\ queue.elems # << >>
           /\ Head(queue.elems) \in Seq(Fields)
           /\ queue' \in QueueOf(Seq(Fields)) /\ queue'.elems = Tail(queue.elems)
           /\ \E good \in 0..Len(Head(queue.elems)) :
                 /\ \A i \in 1..good : Head(queue.elems)[i] \notin refused
                 /\ archived' \in Seq(Fields) /\ Len(archived') = Len(archived) + good
                 /\ \A i \in 1..Len(archived) : archived'[i] = archived[i]
                 /\ \A i \in 1..good : archived'[Len(archived) + i] = Head(queue.elems)[i]
                 /\ future' = [future EXCEPT !.n = @ + good]
                 /\ \/ /\ good = Len(Head(queue.elems)) /\ worker' = worker
                       /\ queue'.closed = queue.closed /\ queue'.interrupted = queue.interrupted
                    \/ worker' = "error" /\ queue'.closed /\ queue'.interrupted
<1> DEFINE fs == Head(queue.elems)
           bad == {i \in DOMAIN fs : fs[i] \in refused}
           least == CHOOSE i \in bad : \A j \in bad : i <= j
           good == IF bad = {} THEN Len(fs) ELSE least - 1
           popped == [queue EXCEPT !.elems = Tail(@)]
<1>1. queue \in QueueOf(Seq(Fields)) /\ queue.elems \in Seq(Seq(Fields)) /\ queue.elems # << >>
    BY TypeParts, QueueTypes DEF QueueType, WorkerArchive
<1>2. fs \in Seq(Fields) /\ DOMAIN fs = 1..Len(fs) /\ Len(fs) \in Nat /\ Tail(queue.elems) \in Seq(Seq(Fields))
    BY <1>1
<1>3. bad # {} => least \in bad /\ \A j \in bad : least <= j
  <2> SUFFICES ASSUME bad # {} PROVE least \in bad /\ \A j \in bad : least <= j
    OBVIOUS
  <2>1. bad \in SUBSET Nat
    BY <1>2
  <2>2. \E i \in bad : \A j \in bad : i <= j
    BY <2>1, LeastNat
  <2> QED
    BY <2>2
<1>4. good \in 0..Len(fs) /\ \A i \in 1..good : fs[i] \notin refused
  <2>1. CASE bad = {}
    BY <1>2, <2>1
  <2>2. CASE bad # {}
    <3>1. least \in 1..Len(fs) /\ good = least - 1
        BY <1>2, <1>3, <2>2
    <3>2. \A i \in 1..Len(fs) : fs[i] \in refused => least <= i
        BY <1>2, <1>3, <2>2
    <3> HIDE DEF least, good
    <3> QED
        BY <1>2, <3>1, <3>2
  <2> QED
    BY <2>1, <2>2
<1>5. popped \in QueueOf(Seq(Fields)) /\ popped.elems = Tail(queue.elems)
      /\ popped.closed = queue.closed /\ popped.interrupted = queue.interrupted
  <2>1. popped \in QueueOf(Seq(Fields))
    BY <1>1, <1>2 DEF QueueOf
  <2>2. popped.elems = Tail(queue.elems) /\ popped.closed = queue.closed /\ popped.interrupted = queue.interrupted
    BY <1>1 DEF QueueOf
  <2> QED
    BY <2>1, <2>2
<1>6. /\ archived' = archived \o SubSeq(fs, 1, good)
      /\ future' = [future EXCEPT !.n = @ + good]
      /\ \/ bad = {} /\ queue' = popped /\ worker' = worker
         \/ queue' = Interrupt(popped) /\ worker' = "error"
    BY DEF WorkerArchive
<1>7. bad = {} => good = Len(fs)
    OBVIOUS
<1> HIDE DEF good, bad, popped
<1>8. /\ archived' \in Seq(Fields) /\ Len(archived') = Len(archived) + good
      /\ \A i \in 1..Len(archived) : archived'[i] = archived[i]
      /\ \A i \in 1..good : archived'[Len(archived) + i] = fs[i]
  <2>1. archived \in Seq(Fields)
    BY TypeParts DEF FieldsType
  <2>2. SubSeq(fs, 1, good) \in Seq(Fields) /\ Len(SubSeq(fs, 1, good)) = good
        /\ \A i \in 1..good : SubSeq(fs, 1, good)[i] = fs[i]
    <3> HIDE DEF fs
    <3> QED  BY <1>2, <1>4, FirstPart
  <2>3. archived' = archived \o SubSeq(fs, 1, good)
    BY <1>6
  <2> HIDE DEF fs
  <2> QED
    BY <1>4, <2>1, <2>2, <2>3
<1>9. queue' \in QueueOf(Seq(Fields)) /\ queue'.elems = Tail(queue.elems)
    BY <1>5, <1>6, QueueTypes, SMTT(30)
<1>10. popped \in QueueOf(Seq(Fields)) => Interrupt(popped).closed /\ Interrupt(popped).interrupted
    BY QueueTypes
<1>11. \/ good = Len(fs) /\ worker' = worker
          /\ queue'.closed = queue.closed /\ queue'.interrupted = queue.interrupted
       \/ worker' = "error" /\ queue'.closed /\ queue'.interrupted
    BY <1>5, <1>6, <1>7, <1>10
<1> QED
    BY <1>1, <1>2, <1>4, <1>6, <1>8, <1>9, <1>11

(***************************************************************************)
(* Every action keeps the types.                                           *)
(***************************************************************************)
LEMMA NextCallType ==
    ASSUME CapAssumption, TypeOK, ClientShape, Next
    PROVE  CallType'
<1>1. CASE StartArchive
    BY <1>1, TypeParts DEF CallType, StartArchive, Request, threads, server, history,
       CapAssumption
<1>2. CASE ArchiveStarted
    BY <1>2, TypeParts DEF CallType, ArchiveStarted, ClientShape, server, history
<1>3. CASE Archive
    BY <1>3, TypeParts DEF CallType, Archive, threads, server, history, CapAssumption
<1>4. CASE Enqueue
    BY <1>4, TypeParts DEF CallType, Enqueue, CanEmplace, Emplace, threads, server, CapAssumption
<1>5. CASE EnqueueThrows
    BY <1>5, TypeParts DEF CallType, EnqueueThrows, threads, server, history, CapAssumption
<1>6. CASE Flush
    BY <1>6, TypeParts DEF CallType, Flush, threads, server, history, CapAssumption
<1>7. CASE Joined
    BY <1>7, TypeParts DEF CallType, Joined, Request, threads, server, history, CapAssumption
<1>8. CASE JoinThrows
    BY <1>8, TypeParts DEF CallType, JoinThrows, threads, server, CapAssumption
<1>9. CASE FlushReturns
    BY <1>9, TypeParts DEF CallType, FlushReturns, threads, server, CapAssumption
<1>10. CASE RequestThrows
    BY <1>10, TypeParts DEF CallType, RequestThrows, Idle, Request, threads, server, CapAssumption
<1>11. CASE Disconnect
    BY <1>11, TypeParts DEF CallType, Disconnect, Idle, Request, threads, server, history,
       CapAssumption
<1>12. CASE Disconnected
    BY <1>12, TypeParts DEF CallType, Disconnected, threads, server, history, CapAssumption
<1>13. CASE ClientDies
    BY <1>13, TypeParts DEF CallType, ClientDies, server, history, CapAssumption
<1>14. CASE SenderSend
    BY <1>14, TypeParts DEF CallType, SenderSend, DataWrite, Blob, client, server, history,
       CapAssumption
<1>15. CASE SenderResetID
    BY <1>15, TypeParts DEF CallType, SenderResetID, server, history, CapAssumption
<1>16. CASE SenderResetQueue
    BY <1>16, TypeParts DEF CallType, SenderResetQueue, server, history, CapAssumption
<1>17. CASE SenderThrows
    BY <1>17, TypeParts DEF CallType, SenderThrows, Interrupt, server, history, CapAssumption
<1>18. CASE Misaligned
    BY <1>18, TypeParts DEF CallType, Misaligned, Destruct, Idle, Request, client, threads,
       history, CapAssumption, server
<1>19. CASE ControlClosed
    BY <1>19, TypeParts DEF CallType, ControlClosed, Destruct, Idle, Request, client, threads,
       history, CapAssumption, server
<1>20. CASE HandleExit
    BY <1>20, TypeParts DEF CallType, HandleExit, Destruct, Idle, Request, client, threads,
       history, CapAssumption, server
<1>21. CASE HandleArchive
    BY <1>21, TypeParts DEF CallType, HandleArchive, Replies, NewQueue, Idle, Request, client,
       threads, history, CapAssumption
<1>22. CASE HandleFlush
    BY <1>22, TypeParts DEF CallType, HandleFlush, Replies, NoFuture, Idle, Request, client,
       threads, history, CapAssumption
<1>23. CASE SenderPop \/ SenderEnd \/ SenderMarker \/ ListenerRead \/ ListenerInterrupt
         \/ ListenerClosed \/ ListenerFails \/ HandlerEnds \/ ServerDies \/ LoopRead \/ LoopJoin
         \/ LoopDisconnected \/ LoopThrows \/ LoopUnwound \/ WorkerArchive \/ WorkerEnds
         \/ Terminated
  <2>1. UNCHANGED <<call, calls, nextID, archiveID, archiveFuture, request, reply, sent>>
    BY <1>23 DEF SenderPop, SenderEnd, SenderMarker, ListenerRead, ListenerInterrupt,
       ListenerClosed, ListenerFails, HandlerEnds, ServerDies, LoopRead, LoopJoin,
       LoopDisconnected, LoopThrows, LoopUnwound, WorkerArchive, WorkerEnds, Terminated,
       DataWrite, client, threads, server, history, vars
  <2> QED
    BY <2>1, TypeParts DEF CallType
<1> QED
    BY <1>1, <1>2, <1>3, <1>4, <1>5, <1>6, <1>7, <1>8, <1>9, <1>10, <1>11, <1>12, <1>13, <1>14,
       <1>15, <1>16, <1>17, <1>18, <1>19, <1>20, <1>21, <1>22, <1>23 DEF Next, Caller, Sender,
       Listener, Control, Loop, Worker

(* Every step keeps the type of the client's queue. *)
LEMMA NextArchiveQueueType ==
    ASSUME CapAssumption, TypeOK, ClientShape, Next
    PROVE  ArchiveQueueType'
<1>1. CASE ArchiveStarted
    BY <1>1, TypeParts, QueueTypes, NewQueueType, NoQueueIsNone DEF ArchiveQueueType,
       ArchiveStarted, NewQueue, server, history, CapAssumption
<1>2. CASE Enqueue
  <2>1. archiveQueue \in QueueOf(Fields)
    BY <1>2, HasQueue DEF ClientShape, Enqueue
  <2>2. calls \in Fields
    BY <1>2, TypeParts DEF CallType, ClientShape, Enqueue, Fields
  <2>3. archiveQueue' \in QueueOf(Fields) /\ archiveQueue'.elems = Append(archiveQueue.elems, calls)
    BY <1>2, <2>1, <2>2, EmplaceTypes DEF Enqueue
  <2>4. Len(archiveQueue.elems) < QueueCap /\ archiveQueue.elems \in Seq(Fields)
    BY <1>2, <2>1, QueueTypes DEF Enqueue, CanEmplace
  <2> QED
    BY <2>3, <2>4 DEF ArchiveQueueType, CapAssumption
<1>3. CASE Flush
  <2>1. archiveQueue \in QueueOf(Fields) /\ Len(archiveQueue.elems) <= QueueCap
    BY <1>3, HasQueue DEF ClientShape, Flush
  <2>2. archiveQueue' \in QueueOf(Fields) /\ archiveQueue'.elems = archiveQueue.elems
    BY <1>3, <2>1, CloseTypes DEF Flush
  <2> QED
    BY <2>1, <2>2 DEF ArchiveQueueType
<1>4. CASE ClientDies
    BY <1>4, TypeParts, QueueTypes, NewQueueType, NoQueueIsNone DEF ArchiveQueueType, ClientDies,
       server, history, CapAssumption
<1>5. CASE SenderPop
  <2>1. archiveQueue \in QueueOf(Fields) /\ Len(archiveQueue.elems) <= QueueCap
    BY <1>5, HasQueue DEF ClientShape, SenderPop
  <2>2. archiveQueue.elems \in Seq(Fields) /\ Len(archiveQueue.elems) \in Nat
    BY <2>1, QueueTypes
  <2>3. PICK n \in 0..Len(archiveQueue.elems) :
            archiveQueue' \in QueueOf(Fields) /\ Len(archiveQueue'.elems) = Len(archiveQueue.elems) - n
    BY <1>5, SenderPops
  <2> QED
    BY <2>1, <2>2, <2>3 DEF ArchiveQueueType, CapAssumption
<1>6. CASE SenderResetQueue
    BY <1>6, TypeParts, QueueTypes, NewQueueType, NoQueueIsNone DEF ArchiveQueueType,
       SenderResetQueue, server, history, CapAssumption
<1>7. CASE SenderThrows
  <2>1. archiveQueue \in QueueOf(Fields) /\ Len(archiveQueue.elems) <= QueueCap
    BY <1>7, HasQueue DEF ClientShape, SenderThrows
  <2> QED
    BY <1>7, <2>1, QueueTypes DEF ArchiveQueueType, SenderThrows
<1>8. CASE ListenerInterrupt
    BY <1>8, TypeParts, QueueTypes DEF ArchiveQueueType, ListenerInterrupt
<1>9. CASE ListenerFails
    BY <1>9, TypeParts, QueueTypes DEF ArchiveQueueType, ListenerFails
<1>10. CASE StartArchive \/ Archive \/ EnqueueThrows \/ Joined \/ JoinThrows \/ FlushReturns
         \/ RequestThrows \/ Disconnect \/ Disconnected \/ SenderSend \/ SenderEnd \/ SenderMarker
         \/ SenderResetID \/ ListenerRead \/ ListenerClosed \/ Misaligned \/ ControlClosed
         \/ HandleExit \/ HandlerEnds \/ HandleArchive \/ HandleFlush \/ ServerDies \/ LoopRead
         \/ LoopJoin \/ LoopDisconnected \/ LoopThrows \/ LoopUnwound \/ WorkerArchive
         \/ WorkerEnds \/ Terminated
  <2>1. UNCHANGED <<archiveQueue>>
    BY <1>10 DEF StartArchive, Archive, EnqueueThrows, Joined, JoinThrows, FlushReturns,
       RequestThrows, Disconnect, Disconnected, SenderSend, SenderEnd, SenderMarker,
       SenderResetID, ListenerRead, ListenerClosed, Misaligned, ControlClosed, HandleExit,
       HandlerEnds, HandleArchive, HandleFlush, ServerDies, LoopRead, LoopJoin, LoopDisconnected,
       LoopThrows, LoopUnwound, WorkerArchive, WorkerEnds, Terminated, DataWrite, Destruct,
       Replies, NewQueue, client, threads, server, history, vars
  <2> QED
    BY <2>1, TypeParts, QueueTypes, NewQueueType, NoQueueIsNone, SMTT(30) DEF ArchiveQueueType
<1> QED
    BY <1>1, <1>2, <1>3, <1>4, <1>5, <1>6, <1>7, <1>8, <1>9, <1>10 DEF Next, Caller, Sender,
       Listener, Control, Loop, Worker

(* Every step keeps the types of the client's threads. *)
LEMMA NextThreadsType ==
    ASSUME CapAssumption, TypeOK, ClientShape, Next
    PROVE  ThreadsType'
<1>1. CASE ArchiveStarted
    BY <1>1, TypeParts DEF ThreadsType, ArchiveStarted, NewQueue, server, history, CapAssumption
<1>2. CASE ClientDies
    BY <1>2, TypeParts DEF ThreadsType, ClientDies, server, history, CapAssumption
<1>3. CASE SenderPop
    BY <1>3, SenderPops, TypeParts DEF ThreadsType, SenderPop
<1>4. CASE SenderSend
  <2>1. Blob(hand) \in Message
    BY TypeParts DEF ThreadsType, Message, Blob, FlushMarker
  <2>2. toServer \in Seq(Message) /\ Len(toServer) <= SocketCap
    BY TypeParts DEF ThreadsType
  <2>3. toServer' = toServer \/ (toServer' = Append(toServer,
     Blob(hand)) /\ Len(toServer) < SocketCap)
    BY <1>4 DEF SenderSend, DataWrite
  <2>4. toServer' \in Seq(Message) /\ Len(toServer') <= SocketCap
    BY <2>1, <2>2, <2>3 DEF CapAssumption
  <2> QED
    BY <1>4, <2>4, TypeParts DEF ThreadsType, SenderSend
<1>5. CASE SenderEnd
    BY <1>5, TypeParts DEF ThreadsType, SenderEnd, AtEnd, client, server, history, CapAssumption
<1>6. CASE SenderMarker
  <2>1. FlushMarker \in Message
    BY TypeParts DEF ThreadsType, Message, Blob, FlushMarker
  <2>2. toServer \in Seq(Message) /\ Len(toServer) <= SocketCap
    BY TypeParts DEF ThreadsType
  <2>3. toServer' = toServer \/ (toServer' = Append(toServer,
     FlushMarker) /\ Len(toServer) < SocketCap)
    BY <1>6 DEF SenderMarker, DataWrite
  <2>4. toServer' \in Seq(Message) /\ Len(toServer') <= SocketCap
    BY <2>1, <2>2, <2>3 DEF CapAssumption
  <2> QED
    BY <1>6, <2>4, TypeParts DEF ThreadsType, SenderMarker
<1>7. CASE SenderResetID
    BY <1>7, TypeParts DEF ThreadsType, SenderResetID, server, history, CapAssumption
<1>8. CASE SenderResetQueue
    BY <1>8, TypeParts DEF ThreadsType, SenderResetQueue, server, history, CapAssumption
<1>9. CASE SenderThrows
    BY <1>9, TypeParts DEF ThreadsType, SenderThrows, Interrupt, server, history, CapAssumption
<1>10. CASE ListenerRead
  <2>1. Head(toClient) \in Nat /\ Tail(toClient) \in Seq(Nat)
    BY <1>10, TypeParts DEF ThreadsType, ListenerRead
  <2>2. toClient' \in Seq(Nat) /\ listener' \in {"read", "lock", "ended"}
    BY <1>10, <2>1 DEF ListenerRead
  <2>3. retrieveQueue \in Seq(Nat)
    BY TypeParts DEF ThreadsType
  <2>4. retrieveQueue' = retrieveQueue \/ retrieveQueue' = Append(retrieveQueue, Head(toClient))
    BY <1>10 DEF ListenerRead
  <2>5. retrieveQueue' \in Seq(Nat)
    BY <2>1, <2>3, <2>4, SMTT(30)
  <2> QED
    BY <1>10, <2>2, <2>5, TypeParts DEF ThreadsType, ListenerRead
<1>11. CASE ListenerInterrupt
    BY <1>11, TypeParts DEF ThreadsType, ListenerInterrupt, Interrupt, server, history,
       CapAssumption
<1>12. CASE ListenerClosed
    BY <1>12, TypeParts DEF ThreadsType, ListenerClosed, client, server, history, CapAssumption
<1>13. CASE ListenerFails
    BY <1>13, TypeParts DEF ThreadsType, ListenerFails, Interrupt, server, history, CapAssumption
<1>14. CASE Misaligned
    BY <1>14, TypeParts DEF ThreadsType, Misaligned, Destruct, Idle, Request, client, threads,
       history, CapAssumption, server
<1>15. CASE ControlClosed
    BY <1>15, TypeParts DEF ThreadsType, ControlClosed, Destruct, Idle, Request, client, threads,
       history, CapAssumption, server
<1>16. CASE HandleExit
    BY <1>16, TypeParts DEF ThreadsType, HandleExit, Destruct, Idle, Request, client, threads,
       history, CapAssumption, server
<1>17. CASE ServerDies
    BY <1>17, TypeParts DEF ThreadsType, ServerDies, NewQueue, NoFuture, client, threads, history,
       CapAssumption
<1>18. CASE LoopRead
    BY <1>18, TypeParts DEF ThreadsType, LoopRead, FlushMarker, CanEmplace, Emplace, client,
       threads, history, CapAssumption
<1>19. CASE LoopThrows
  <2>1. future.id \in Nat
    BY TypeParts DEF HandlerType
  <2>2. toClient \in Seq(Nat)
    BY TypeParts DEF ThreadsType
  <2>3. toClient' = toClient \/ toClient' = Append(toClient, future.id)
    BY <1>19 DEF LoopThrows
  <2>4. toClient' \in Seq(Nat)
    BY <2>1, <2>2, <2>3, SMTT(30)
  <2> QED
    BY <1>19, <2>4, TypeParts DEF ThreadsType, LoopThrows, threads
<1>20. CASE StartArchive \/ Archive \/ Enqueue \/ EnqueueThrows \/ Flush \/ Joined \/ JoinThrows
         \/ FlushReturns \/ RequestThrows \/ Disconnect \/ Disconnected \/ HandlerEnds
         \/ HandleArchive \/ HandleFlush \/ LoopJoin \/ LoopDisconnected \/ LoopUnwound
         \/ WorkerArchive \/ WorkerEnds \/ Terminated
  <2>1. UNCHANGED <<sender, hand, listener, retrieveQueue, toServer, toClient>>
    BY <1>20 DEF StartArchive, Archive, Enqueue, EnqueueThrows, Flush, Joined, JoinThrows,
       FlushReturns, RequestThrows, Disconnect, Disconnected, HandlerEnds, HandleArchive,
       HandleFlush, LoopJoin, LoopDisconnected, LoopUnwound, WorkerArchive, WorkerEnds,
       Terminated, Replies, NewQueue, client, threads, server, history, vars
  <2> QED
    BY <2>1, TypeParts DEF ThreadsType
<1> QED
    BY <1>1, <1>2, <1>3, <1>4, <1>5, <1>6, <1>7, <1>8, <1>9, <1>10, <1>11, <1>12, <1>13, <1>14,
       <1>15, <1>16, <1>17, <1>18, <1>19, <1>20 DEF Next, Caller, Sender, Listener, Control, Loop,
       Worker

(* Every step keeps the types of the handler. *)
LEMMA NextHandlerType ==
    ASSUME CapAssumption, TypeOK, ClientShape, Next
    PROVE  HandlerType'
<1>1. CASE Misaligned
    BY <1>1, TypeParts DEF HandlerType, Misaligned, Destruct, Idle, Request, client, threads,
       history, CapAssumption, server
<1>2. CASE ControlClosed
    BY <1>2, TypeParts DEF HandlerType, ControlClosed, Destruct, Idle, Request, client, threads,
       history, CapAssumption, server
<1>3. CASE HandleExit
    BY <1>3, TypeParts DEF HandlerType, HandleExit, Destruct, Idle, Request, client, threads,
       history, CapAssumption, server
<1>4. CASE HandlerEnds
    BY <1>4, TypeParts DEF HandlerType, HandlerEnds, client, threads, history, CapAssumption
<1>5. CASE HandleArchive
  <2>1. request.n \in Nat
    BY TypeParts DEF CallType
  <2> QED
    BY <1>5, <2>1, TypeParts DEF HandlerType, HandleArchive, Replies
<1>6. CASE HandleFlush
    BY <1>6, TypeParts DEF HandlerType, HandleFlush, Replies, NoFuture, Idle, Request, client,
       threads, history, CapAssumption
<1>7. CASE ServerDies
    BY <1>7, TypeParts DEF HandlerType, ServerDies, NewQueue, NoFuture, client, threads, history,
       CapAssumption
<1>8. CASE LoopRead
    BY <1>8, TypeParts DEF HandlerType, LoopRead, FlushMarker, CanEmplace, Emplace, client,
       threads, history, CapAssumption
<1>9. CASE LoopJoin
    BY <1>9, TypeParts DEF HandlerType, LoopJoin, client, threads, history, CapAssumption
<1>10. CASE LoopDisconnected
    BY <1>10, TypeParts DEF HandlerType, LoopDisconnected, client, threads, history, CapAssumption
<1>11. CASE LoopThrows
    BY <1>11, TypeParts DEF HandlerType, LoopThrows, Interrupt, client, threads, history,
       CapAssumption
<1>12. CASE LoopUnwound
    BY <1>12, TypeParts, SMTT(30) DEF HandlerType, LoopUnwound, client, threads, history, CapAssumption
<1>13. CASE WorkerArchive
  <2>1. worker' \in {"none", "pop", "done",
     "error"} /\ \E good \in Nat : future' = [future EXCEPT !.n = @ + good]
    BY <1>13, WorkerArchives, TypeParts, SMTT(30) DEF HandlerType
  <2>2. future' \in [state : {"none", "running", "done", "error"}, n : Nat, id : Nat]
    BY <2>1, TypeParts DEF HandlerType
  <2> QED
    BY <1>13, <2>1, <2>2, TypeParts DEF HandlerType, WorkerArchive
<1>14. CASE WorkerEnds
    BY <1>14, TypeParts DEF HandlerType, WorkerEnds, AtEnd, client, threads, history,
       CapAssumption
<1>15. CASE StartArchive \/ ArchiveStarted \/ Archive \/ Enqueue \/ EnqueueThrows \/ Flush
         \/ Joined \/ JoinThrows \/ FlushReturns \/ RequestThrows \/ Disconnect \/ Disconnected
         \/ ClientDies \/ SenderPop \/ SenderSend \/ SenderEnd \/ SenderMarker \/ SenderResetID
         \/ SenderResetQueue \/ SenderThrows \/ ListenerRead \/ ListenerInterrupt
         \/ ListenerClosed \/ ListenerFails \/ Terminated
  <2>1. UNCHANGED <<handler, unread, future, loop, worker>>
    BY <1>15 DEF StartArchive, ArchiveStarted, Archive, Enqueue, EnqueueThrows, Flush, Joined,
       JoinThrows, FlushReturns, RequestThrows, Disconnect, Disconnected, ClientDies, SenderPop,
       SenderSend, SenderEnd, SenderMarker, SenderResetID, SenderResetQueue, SenderThrows,
       ListenerRead, ListenerInterrupt, ListenerClosed, ListenerFails, Terminated, DataWrite,
       client, threads, server, history, vars
  <2> QED
    BY <2>1, TypeParts DEF HandlerType
<1> QED
    BY <1>1, <1>2, <1>3, <1>4, <1>5, <1>6, <1>7, <1>8, <1>9, <1>10, <1>11, <1>12, <1>13, <1>14,
       <1>15 DEF Next, Caller, Sender, Listener, Control, Loop, Worker

(* Every step keeps the type of the server's queue. *)
LEMMA NextQueueType ==
    ASSUME CapAssumption, TypeOK, ClientShape, Next
    PROVE  QueueType'
<1>1. CASE HandleArchive
    BY <1>1, TypeParts, NewQueueType DEF QueueType, HandleArchive, Replies, NewQueue, Idle,
       Request, client, threads, history, CapAssumption
<1>2. CASE ServerDies
    BY <1>2, TypeParts, NewQueueType DEF QueueType, ServerDies, NewQueue, NoFuture, client,
       threads, history, CapAssumption
<1>3. CASE LoopRead
  <2>1. CASE Head(toServer) = FlushMarker
    <3>1. queue' = [queue EXCEPT !.closed = TRUE]
        BY <1>3, <2>1 DEF LoopRead
    <3>2. queue' \in QueueOf(Seq(Fields)) /\ queue'.elems = queue.elems
        BY <3>1, TypeParts, CloseTypes DEF QueueType
    <3> QED
        BY <3>2, TypeParts DEF QueueType
  <2>2. CASE Head(toServer) # FlushMarker /\ queue' = queue
    BY <2>2, TypeParts DEF QueueType
  <2>3. CASE CanEmplace(queue, ServerQueueCap) /\ queue' = Emplace(queue, Head(toServer).fields)
    <3>1. Head(toServer) \in Message
        BY <1>3, TypeParts DEF LoopRead, ThreadsType
    <3>2. Head(toServer).fields \in Seq(Fields)
        BY <3>1 DEF Message
    <3>3. queue' \in QueueOf(Seq(Fields)) /\ queue'.elems = Append(queue.elems,
       Head(toServer).fields)
        BY <2>3, <3>2, TypeParts, EmplaceTypes DEF QueueType
    <3>4. queue.elems \in Seq(Seq(Fields))
        BY TypeParts, QueueTypes DEF QueueType
    <3>5. Len(queue'.elems) <= ServerQueueCap
        BY <2>3, <3>2, <3>3, <3>4 DEF CanEmplace, CapAssumption
    <3> QED
        BY <3>3, <3>5 DEF QueueType
  <2> QED
    BY <1>3, <2>1, <2>2, <2>3 DEF LoopRead
<1>4. CASE LoopThrows
    BY <1>4, TypeParts, QueueTypes DEF QueueType, LoopThrows
<1>5. CASE WorkerArchive
  <2>1. queue' \in QueueOf(Seq(Fields)) /\ queue'.elems = Tail(queue.elems)
        /\ queue.elems \in Seq(Seq(Fields)) /\ queue.elems # << >>
    BY <1>5, WorkerArchives
  <2>2. Len(queue'.elems) = Len(queue.elems) - 1 /\ Len(queue.elems) \in Nat
    BY <2>1
  <2> QED
    BY <2>1, <2>2, TypeParts DEF QueueType, CapAssumption
<1>6. CASE StartArchive \/ ArchiveStarted \/ Archive \/ Enqueue \/ EnqueueThrows \/ Flush
        \/ Joined \/ JoinThrows \/ FlushReturns \/ RequestThrows \/ Disconnect \/ Disconnected
        \/ ClientDies \/ SenderPop \/ SenderSend \/ SenderEnd \/ SenderMarker \/ SenderResetID
        \/ SenderResetQueue \/ SenderThrows \/ ListenerRead \/ ListenerInterrupt \/ ListenerClosed
        \/ ListenerFails \/ Misaligned \/ ControlClosed \/ HandleExit \/ HandlerEnds
        \/ HandleFlush \/ LoopJoin \/ LoopDisconnected \/ LoopUnwound \/ WorkerEnds \/ Terminated
  <2>1. UNCHANGED <<queue>>
    BY <1>6 DEF StartArchive, ArchiveStarted, Archive, Enqueue, EnqueueThrows, Flush, Joined,
       JoinThrows, FlushReturns, RequestThrows, Disconnect, Disconnected, ClientDies, SenderPop,
       SenderSend, SenderEnd, SenderMarker, SenderResetID, SenderResetQueue, SenderThrows,
       ListenerRead, ListenerInterrupt, ListenerClosed, ListenerFails, Misaligned, ControlClosed,
       HandleExit, HandlerEnds, HandleFlush, LoopJoin, LoopDisconnected, LoopUnwound, WorkerEnds,
       Terminated, DataWrite, Destruct, Replies, client, threads, server, history, vars
  <2> QED
    BY <2>1, TypeParts, NewQueueType DEF QueueType
<1> QED
    BY <1>1, <1>2, <1>3, <1>4, <1>5, <1>6 DEF Next, Caller, Sender, Listener, Control, Loop,
       Worker

(* What is archived are fields. *)
LEMMA ArchivedFields == TypeOK => ToSet(archived) \subseteq Fields
BY TypeParts DEF FieldsType, ToSet

(* Every step keeps the types of what the server has taken. *)
LEMMA NextFieldsType ==
    ASSUME CapAssumption, TypeOK, ClientShape, Next
    PROVE  FieldsType'
<1>1. CASE Enqueue
  <2>1. calls \in Fields
    BY <1>1, TypeParts DEF CallType, ClientShape, Enqueue, Fields
  <2> QED
    BY <1>1, <2>1, TypeParts DEF FieldsType, Enqueue, server
<1>2. CASE JoinThrows
    BY <1>2, TypeParts DEF FieldsType, JoinThrows, threads, server, CapAssumption
<1>3. CASE FlushReturns
    BY <1>3, TypeParts DEF FieldsType, FlushReturns, threads, server, CapAssumption
<1>4. CASE RequestThrows
    BY <1>4, TypeParts DEF FieldsType, RequestThrows, Idle, Request, threads, server,
       CapAssumption
<1>5. CASE HandlerEnds
    BY <1>5, ArchivedFields, TypeParts DEF FieldsType, HandlerEnds, history
<1>6. CASE HandleFlush
    BY <1>6, ArchivedFields, TypeParts, SMTT(30) DEF FieldsType, HandleFlush, history
<1>7. CASE WorkerArchive
    BY <1>7, WorkerArchives, TypeParts DEF FieldsType, WorkerArchive, history
<1>8. CASE StartArchive \/ ArchiveStarted \/ Archive \/ EnqueueThrows \/ Flush \/ Joined
        \/ Disconnect \/ Disconnected \/ ClientDies \/ SenderPop \/ SenderSend \/ SenderEnd
        \/ SenderMarker \/ SenderResetID \/ SenderResetQueue \/ SenderThrows \/ ListenerRead
        \/ ListenerInterrupt \/ ListenerClosed \/ ListenerFails \/ Misaligned \/ ControlClosed
        \/ HandleExit \/ HandleArchive \/ ServerDies \/ LoopRead \/ LoopJoin \/ LoopDisconnected
        \/ LoopThrows \/ LoopUnwound \/ WorkerEnds \/ Terminated
  <2>1. UNCHANGED <<archived, flushed, refused, accepted, acked>>
    BY <1>8 DEF StartArchive, ArchiveStarted, Archive, EnqueueThrows, Flush, Joined, Disconnect,
       Disconnected, ClientDies, SenderPop, SenderSend, SenderEnd, SenderMarker, SenderResetID,
       SenderResetQueue, SenderThrows, ListenerRead, ListenerInterrupt, ListenerClosed,
       ListenerFails, Misaligned, ControlClosed, HandleExit, HandleArchive, ServerDies, LoopRead,
       LoopJoin, LoopDisconnected, LoopThrows, LoopUnwound, WorkerEnds, Terminated, DataWrite,
       Destruct, Replies, NewQueue, client, threads, server, history, vars
  <2> QED
    BY <2>1, TypeParts DEF FieldsType
<1> QED
    BY <1>1, <1>2, <1>3, <1>4, <1>5, <1>6, <1>7, <1>8 DEF Next, Caller, Sender, Listener, Control,
       Loop, Worker

(* Every step keeps the types. *)
LEMMA NextType ==
    ASSUME CapAssumption, TypeOK, ClientShape, [Next]_vars
    PROVE  TypeOK'
<1>1. CASE Next
    BY <1>1, TypeParts, NextCallType, NextArchiveQueueType, NextThreadsType, NextHandlerType,
       NextQueueType, NextFieldsType DEF CallType, ArchiveQueueType, ThreadsType, HandlerType,
       QueueType, FieldsType, TypeOK, Message
<1>2. CASE UNCHANGED vars
    BY <1>2 DEF TypeOK, vars, client, threads, server, history
<1> QED
    BY <1>1, <1>2

----------------------------------------------------------------------------
(* What is sent comes after what has been sent. *)
LEMMA SentFollows ==
    ASSUME CapAssumption, NEW ms \in Seq(Message), NEW m \in Message,
           NEW b \in 0..MaxFields, NEW c \in 0..MaxFields,
           Follows(Pieces(ms), b, c), Run(m.fields, c)
    PROVE  Follows(Pieces(Append(ms, m)), b, c + Len(m.fields)) /\ c + Len(m.fields) \in 0..MaxFields
<1>1. Pieces(ms) \in Seq(Seq(Fields)) /\ m.fields \in Seq(Fields)
    BY PiecesOf DEF Message
<1>2. Follows(Append(Pieces(ms), m.fields), b, c + Len(m.fields)) /\ c + Len(m.fields) \in 0..MaxFields
    BY <1>1, FollowsAppend
<1> QED
    BY <1>2, PiecesOf

(* The loop moves the first piece of what is in flight to the end of the queue. *)
LEMMA ReadFollows ==
    ASSUME CapAssumption, NEW es \in Seq(Seq(Fields)), NEW ms \in Seq(Message), ms # << >>,
           NEW n \in 0..MaxFields, NEW b \in 0..MaxFields, NEW c \in 0..MaxFields,
           Follows(es, n, b), Follows(Pieces(ms), b, c)
    PROVE  /\ Head(ms).fields \in Seq(Fields)
           /\ b + Len(Head(ms).fields) \in 0..MaxFields
           /\ Follows(Append(es, Head(ms).fields), n, b + Len(Head(ms).fields))
           /\ Follows(Pieces(Tail(ms)), b + Len(Head(ms).fields), c)
<1>1. Pieces(ms) \in Seq(Seq(Fields)) /\ Pieces(ms) # << >>
      /\ Head(Pieces(ms)) = Head(ms).fields /\ Tail(Pieces(ms)) = Pieces(Tail(ms))
    BY PiecesOf
<1>2. Head(ms) \in Message
    OBVIOUS
<1>3. Head(ms).fields \in Seq(Fields)
    BY <1>2 DEF Message
<1>4. /\ Run(Head(ms).fields, b) /\ b + Len(Head(ms).fields) \in 0..MaxFields
      /\ Follows(Pieces(Tail(ms)), b + Len(Head(ms).fields), c)
    BY <1>1, FollowsTail
<1>5. Follows(Append(es, Head(ms).fields), n, b + Len(Head(ms).fields))
    BY <1>3, <1>4, FollowsAppend
<1> QED
    BY <1>3, <1>4, <1>5

(* No more is archived than there are fields. *)
LEMMA ArchivedLength == ASSUME CapAssumption, TypeOK, ArchivedIsPrefix PROVE Len(archived) \in 0..MaxFields
<1>1. archived \in Seq(Fields) /\ Len(archived) \in Nat
    BY TypeParts DEF FieldsType
<1>2. CASE Len(archived) # 0
  <2>1. Len(archived) \in 1..Len(archived)
    BY <1>1, <1>2
  <2>2. archived[Len(archived)] = Len(archived) /\ archived[Len(archived)] \in Fields
    BY <1>1, <2>1 DEF ArchivedIsPrefix
  <2> QED
    BY <1>1, <2>2 DEF Fields
<1> QED
    BY <1>1, <1>2 DEF CapAssumption

(* What has been archived was next, and the rest still follows it, or the worker gave up. *)
LEMMA WorkerFollows ==
    ASSUME CapAssumption, TypeOK, ArchivedIsPrefix, WorkerArchive,
           NEW b \in 0..MaxFields, Follows(queue.elems, Len(archived), b)
    PROVE  /\ ArchivedIsPrefix'
           /\ \/ worker' = "error" /\ queue'.closed /\ queue'.interrupted
              \/ /\ worker' = worker
                 /\ queue'.closed = queue.closed /\ queue'.interrupted = queue.interrupted
                 /\ Follows(queue'.elems, Len(archived'), b)
<1> DEFINE fs == Head(queue.elems)
           n == Len(archived)
<1>1. n \in 0..MaxFields
    BY ArchivedLength
<1>2. queue.elems \in Seq(Seq(Fields)) /\ queue.elems # << >> /\ queue'.elems = Tail(queue.elems)
      /\ fs \in Seq(Fields)
    BY WorkerArchives
<1>3. Run(fs, n) /\ n + Len(fs) \in 0..MaxFields /\ Follows(queue'.elems, n + Len(fs), b)
    BY <1>1, <1>2, FollowsTail
<1>4. PICK good \in 0..Len(fs) :
          /\ \A i \in 1..good : fs[i] \notin refused
          /\ archived' \in Seq(Fields) /\ Len(archived') = n + good
          /\ \A i \in 1..n : archived'[i] = archived[i]
          /\ \A i \in 1..good : archived'[n + i] = fs[i]
          /\ \/ /\ good = Len(fs) /\ worker' = worker
                /\ queue'.closed = queue.closed /\ queue'.interrupted = queue.interrupted
             \/ worker' = "error" /\ queue'.closed /\ queue'.interrupted
    BY WorkerArchives
<1>5. ASSUME NEW i \in 1..Len(archived') PROVE archived'[i] = i /\ archived'[i] \notin refused
  <2>1. CASE i <= n
    <3>1. i \in 1..n
        BY <1>1, <1>4, <2>1
    <3> QED
        BY <1>4, <3>1 DEF ArchivedIsPrefix
  <2>2. CASE i > n
    <3>1. i - n \in 1..good /\ i - n \in 1..Len(fs) /\ i = n + (i - n)
        BY <1>1, <1>2, <1>4, <2>2
    <3>2. archived'[n + (i - n)] = fs[i - n] /\ fs[i - n] \notin refused
        BY <1>4, <3>1
    <3>3. fs[i - n] = n + (i - n)
        BY <1>3, <3>1 DEF Run
    <3> QED
        BY <3>1, <3>2, <3>3
  <2> QED
    BY <1>1, <2>1, <2>2
<1>6. ArchivedIsPrefix'
    BY <1>5 DEF ArchivedIsPrefix, WorkerArchive, history
<1> QED
    BY <1>3, <1>4, <1>6

(***************************************************************************)
(* The server archives what comes next, and only that.                     *)
(***************************************************************************)
LEMMA NextArchivedIsPrefix ==
    ASSUME CapAssumption, IInv, Next
    PROVE  ArchivedIsPrefix'
<1>1. CASE WorkerArchive
  <2>1. PICK b \in 0..MaxFields : Follows(queue.elems, Len(archived), b)
    BY <1>1 DEF IInv, QueueFollows, WorkerArchive
  <2> QED
    BY <1>1, <2>1, WorkerFollows DEF IInv
<1>2. CASE StartArchive \/ ArchiveStarted \/ Archive \/ Enqueue \/ EnqueueThrows \/ Flush
        \/ Joined \/ JoinThrows \/ FlushReturns \/ RequestThrows \/ Disconnect \/ Disconnected
        \/ ClientDies \/ SenderPop \/ SenderSend \/ SenderEnd \/ SenderMarker \/ SenderResetID
        \/ SenderResetQueue \/ SenderThrows \/ ListenerRead \/ ListenerInterrupt \/ ListenerClosed
        \/ ListenerFails \/ Misaligned \/ ControlClosed \/ HandleExit \/ HandlerEnds
        \/ HandleArchive \/ HandleFlush \/ ServerDies \/ LoopRead \/ LoopJoin \/ LoopDisconnected
        \/ LoopThrows \/ LoopUnwound \/ WorkerEnds \/ Terminated
  <2>1. UNCHANGED <<archived, refused>>
    BY <1>2 DEF StartArchive, ArchiveStarted, Archive, Enqueue, EnqueueThrows, Flush, Joined,
       JoinThrows, FlushReturns, RequestThrows, Disconnect, Disconnected, ClientDies, SenderPop,
       SenderSend, SenderEnd, SenderMarker, SenderResetID, SenderResetQueue, SenderThrows,
       ListenerRead, ListenerInterrupt, ListenerClosed, ListenerFails, Misaligned, ControlClosed,
       HandleExit, HandlerEnds, HandleArchive, HandleFlush, ServerDies, LoopRead, LoopJoin,
       LoopDisconnected, LoopThrows, LoopUnwound, WorkerEnds, Terminated, DataWrite, Destruct,
       Replies, NewQueue, client, threads, server, history, vars
  <2> QED
    BY <2>1 DEF ArchivedIsPrefix, IInv
<1> QED
    BY <1>1, <1>2 DEF Next, Caller, Sender, Listener, Control, Loop, Worker

(* The loop only runs while nothing has gone wrong. *)
LEMMA ReadIsHealthy == IInv /\ loop = "read" /\ call # "closed" => Healthy
BY DEF IInv, ServerShape, Healthy, Sound

(* Every step keeps the threads of the handler in step with each other. *)
LEMMA NextServerShape ==
    ASSUME CapAssumption, IInv, Next
    PROVE  ServerShape'
<1>1. CASE StartArchive
    BY <1>1 DEF ServerShape, IInv, ClientShape, StartArchive, Request, threads, server, history,
       CapAssumption
<1>2. CASE ArchiveStarted
    BY <1>2 DEF ServerShape, IInv, ClientShape, ArchiveStarted, NewQueue, server, history,
       CapAssumption
<1>3. CASE Archive
    BY <1>3 DEF ServerShape, IInv, ClientShape, Archive, threads, server, history, CapAssumption
<1>4. CASE Enqueue
    BY <1>4 DEF ServerShape, IInv, ClientShape, Enqueue, CanEmplace, Emplace, threads, server,
       CapAssumption
<1>5. CASE EnqueueThrows
    BY <1>5 DEF ServerShape, IInv, ClientShape, EnqueueThrows, threads, server, history,
       CapAssumption
<1>6. CASE Flush
    BY <1>6 DEF ServerShape, IInv, ClientShape, Flush, threads, server, history, CapAssumption
<1>7. CASE Joined
    BY <1>7 DEF ServerShape, IInv, ClientShape, Joined, Request, threads, server, history,
       CapAssumption
<1>8. CASE JoinThrows
    BY <1>8 DEF ServerShape, IInv, ClientShape, JoinThrows, threads, server, CapAssumption
<1>9. CASE FlushReturns
    BY <1>9 DEF ServerShape, IInv, ClientShape, FlushReturns, threads, server, CapAssumption
<1>10. CASE RequestThrows
    BY <1>10 DEF ServerShape, IInv, ClientShape, RequestThrows, Idle, Request, threads, server,
       CapAssumption
<1>11. CASE Disconnect
    BY <1>11 DEF ServerShape, IInv, ClientShape, Disconnect, Idle, Request, threads, server,
       history, CapAssumption
<1>12. CASE Disconnected
    BY <1>12 DEF ServerShape, IInv, ClientShape, Disconnected, threads, server, history,
       CapAssumption
<1>13. CASE ClientDies
    BY <1>13 DEF ServerShape, IInv, ClientShape, ClientDies, server, history, CapAssumption
<1>14. CASE Misaligned
    BY <1>14 DEF ServerShape, IInv, ClientShape, Misaligned, Destruct, Idle, Request, client,
       threads, history, CapAssumption, server
<1>15. CASE ControlClosed
    BY <1>15 DEF ServerShape, IInv, ClientShape, ControlClosed, Destruct, Idle, Request, client,
       threads, history, CapAssumption, server
<1>16. CASE HandleExit
  <2>1. loop = "read" /\ call # "closed" => FALSE
    <3> SUFFICES ASSUME loop = "read", call # "closed" PROVE FALSE
        OBVIOUS
    <3>1. call = "disconnect"
        BY <1>16, TypeParts DEF IInv, ClientShape, HandleExit, Idle, Request, CallType
    <3>2. AllArchived
        BY <3>1, ReadIsHealthy DEF IInv, NothingMissing, IdleHasArchived, ClientShape
    <3> QED
        BY <3>2 DEF IInv, AllArchived, ServerShape
  <2> QED
    BY <1>16, <2>1 DEF IInv, ServerShape, HandleExit, Destruct, client
<1>17. CASE HandlerEnds
    BY <1>17 DEF ServerShape, IInv, ClientShape, HandlerEnds, client, threads, history,
       CapAssumption
<1>18. CASE HandleArchive
    BY <1>18, NewQueueType DEF IInv, ServerShape, HandleArchive, Replies
<1>19. CASE HandleFlush
    BY <1>19 DEF ServerShape, IInv, ClientShape, HandleFlush, Replies, NoFuture, Idle, Request,
       client, threads, history, CapAssumption
<1>20. CASE ServerDies
    BY <1>20 DEF ServerShape, IInv, ClientShape, ServerDies, NewQueue, NoFuture, client, threads,
       history, CapAssumption
<1>21. CASE LoopRead
  <2>1. queue \in QueueOf(Seq(Fields)) /\ Head(toServer) \in Message
    BY <1>21, TypeParts DEF IInv, QueueType, ThreadsType, LoopRead
  <2>2. Head(toServer).fields \in Seq(Fields)
    BY <2>1 DEF Message
  <2>3. /\ \/ loop' = "join" /\ queue'.closed /\ queue'.elems = queue.elems /\ queue'.interrupted = queue.interrupted
           \/ loop' = "read" /\ queue'.closed = queue.closed /\ queue'.interrupted = queue.interrupted
           \/ loop' = "throw"
        /\ worker' = worker /\ future' = future /\ handler' = handler /\ unread' = unread /\ call' = call
    BY <1>21, <2>1, <2>2, CloseTypes, EmplaceTypes DEF LoopRead, client
  <2>4. worker = "done" => loop # "read"
    BY DEF IInv, ServerShape
  <2> QED
    BY <1>21, <2>3, <2>4 DEF IInv, ServerShape, LoopRead
<1>22. CASE LoopJoin
  <2>1. future \in [state : {"none", "running", "done", "error"}, n : Nat, id : Nat]
    BY TypeParts DEF IInv, HandlerType
  <2> QED
    BY <1>22, <2>1 DEF IInv, ServerShape, LoopJoin, client
<1>23. CASE LoopDisconnected
    BY <1>23 DEF ServerShape, IInv, ClientShape, LoopDisconnected, client, threads, history,
       CapAssumption
<1>24. CASE LoopThrows
  <2>1. queue \in QueueOf(Seq(Fields))
    BY TypeParts DEF IInv, QueueType
  <2> QED
    BY <1>24, <2>1, QueueTypes DEF IInv, ServerShape, LoopThrows, client
<1>25. CASE LoopUnwound
    BY <1>25, SMTT(30) DEF ServerShape, IInv, ClientShape, LoopUnwound, client, threads, history,
       CapAssumption
<1>26. CASE WorkerArchive
    BY <1>26, WorkerArchives, TypeParts DEF IInv, ServerShape, WorkerArchive, client, HandlerType
<1>27. CASE WorkerEnds
    BY <1>27 DEF ServerShape, IInv, ClientShape, WorkerEnds, AtEnd, client, threads, history,
       CapAssumption
<1>28. CASE SenderPop \/ SenderSend \/ SenderEnd \/ SenderMarker \/ SenderResetID
         \/ SenderResetQueue \/ SenderThrows \/ ListenerRead \/ ListenerInterrupt
         \/ ListenerClosed \/ ListenerFails \/ Terminated
  <2>1. UNCHANGED <<handler, unread, future, loop, queue, worker, call>>
    BY <1>28 DEF SenderPop, SenderSend, SenderEnd, SenderMarker, SenderResetID, SenderResetQueue,
       SenderThrows, ListenerRead, ListenerInterrupt, ListenerClosed, ListenerFails, Terminated,
       DataWrite, client, threads, server, history, vars
  <2> QED
    BY <2>1 DEF ServerShape, IInv, ClientShape
<1> QED
    BY <1>1, <1>2, <1>3, <1>4, <1>5, <1>6, <1>7, <1>8, <1>9, <1>10, <1>11, <1>12, <1>13, <1>14,
       <1>15, <1>16, <1>17, <1>18, <1>19, <1>20, <1>21, <1>22, <1>23, <1>24, <1>25, <1>26, <1>27,
       <1>28 DEF Next, Caller, Sender, Listener, Control, Loop, Worker

(* Every step keeps the threads of the client in step with each other. *)
LEMMA NextClientShape ==
    ASSUME CapAssumption, IInv, Next
    PROVE  ClientShape'
<1>1. CASE StartArchive
    BY <1>1, TypeParts DEF IInv, ClientShape, StartArchive, Request, threads, history, CallType
<1>2. CASE ArchiveStarted
  <2>1. archiveQueue' # NoQueue
    BY <1>2, NewQueueType, NoQueueIsNone DEF ArchiveStarted
  <2>2. sender = "none"
    BY <1>2 DEF IInv, ClientShape, ArchiveStarted
  <2> QED
    BY <1>2, <2>1, <2>2, NewQueueType DEF IInv, ClientShape, ArchiveStarted, history
<1>3. CASE Archive
    BY <1>3, TypeParts DEF IInv, ClientShape, Archive, threads, history, CallType
<1>4. CASE Enqueue
  <2>1. archiveQueue \in QueueOf(Fields) /\ calls \in Fields
    BY <1>4, HasQueue, TypeParts DEF IInv, ClientShape, Enqueue, CallType, Fields
  <2>2. archiveQueue' \in QueueOf(Fields) /\ ~archiveQueue'.closed
    BY <1>4, <2>1, EmplaceTypes DEF Enqueue, CanEmplace
  <2>3. archiveQueue' # NoQueue
    BY <2>2, NoQueueIsNone
  <2>4. accepted' \subseteq 1..calls
    <3>1. accepted \subseteq 1..calls /\ accepted' = accepted \cup {calls}
        BY <1>4 DEF IInv, ClientShape, Enqueue
    <3>2. calls \in 1..calls
        BY <2>1 DEF Fields, CapAssumption
    <3> QED
        BY <3>1, <3>2
  <2> QED
    BY <1>4, <2>2, <2>3, <2>4 DEF IInv, ClientShape, Enqueue, CanEmplace, threads
<1>5. CASE EnqueueThrows
    BY <1>5 DEF ClientShape, IInv, EnqueueThrows, threads, server, history, CapAssumption
<1>6. CASE Flush
  <2>1. archiveQueue \in QueueOf(Fields)
    BY <1>6, HasQueue DEF IInv, ClientShape, Flush
  <2>2. archiveQueue' # NoQueue
    BY <1>6, <2>1, CloseTypes, NoQueueIsNone DEF Flush
  <2> QED
    BY <1>6, <2>2 DEF IInv, ClientShape, Flush, threads, history
<1>7. CASE Joined
    BY <1>7, TypeParts DEF IInv, ClientShape, Joined, Request, threads, history, CallType
<1>8. CASE JoinThrows
    BY <1>8 DEF ClientShape, IInv, JoinThrows, threads, server, CapAssumption
<1>9. CASE FlushReturns
    BY <1>9 DEF ClientShape, IInv, FlushReturns, threads, server, CapAssumption
<1>10. CASE RequestThrows
    BY <1>10 DEF ClientShape, IInv, RequestThrows, Idle, Request, threads, server, CapAssumption
<1>11. CASE Disconnect
    BY <1>11 DEF ClientShape, IInv, Disconnect, Idle, Request, threads, server, history,
       CapAssumption
<1>12. CASE Disconnected
    BY <1>12 DEF ClientShape, IInv, Disconnected, threads, server, history, CapAssumption
<1>13. CASE ClientDies
    BY <1>13 DEF ClientShape, IInv, ClientDies, server, history, CapAssumption
<1>14. CASE SenderPop
  <2>1. archiveQueue' \in QueueOf(Fields) /\ archiveQueue'.closed = archiveQueue.closed
        /\ archiveQueue'.interrupted = archiveQueue.interrupted
    BY <1>14, SenderPops DEF IInv
  <2>2. archiveQueue' # NoQueue
    BY <2>1, NoQueueIsNone
  <2> QED
    BY <1>14, <2>1, <2>2 DEF IInv, ClientShape, SenderPop, history
<1>15. CASE SenderSend
    BY <1>15 DEF ClientShape, IInv, SenderSend, DataWrite, Blob, client, server, history,
       CapAssumption
<1>16. CASE SenderEnd
    BY <1>16 DEF ClientShape, IInv, SenderEnd, AtEnd, client, server, history, CapAssumption
<1>17. CASE SenderMarker
    BY <1>17 DEF ClientShape, IInv, SenderMarker, DataWrite, FlushMarker, client, server, history,
       CapAssumption
<1>18. CASE SenderResetID
    BY <1>18 DEF ClientShape, IInv, SenderResetID, server, history, CapAssumption
<1>19. CASE SenderResetQueue
    BY <1>19 DEF ClientShape, IInv, SenderResetQueue, server, history, CapAssumption
<1>20. CASE SenderThrows
  <2>1. archiveQueue \in QueueOf(Fields)
    BY <1>20, HasQueue DEF IInv, ClientShape, SenderThrows
  <2>2. archiveQueue' # NoQueue
    BY <1>20, <2>1, QueueTypes, NoQueueIsNone DEF SenderThrows
  <2> QED
    BY <1>20, <2>2 DEF IInv, ClientShape, SenderThrows, history
<1>21. CASE ListenerInterrupt
  <2>1. archiveQueue # NoQueue =>
            archiveQueue' \in QueueOf(Fields) /\ archiveQueue' # NoQueue /\ archiveQueue'.interrupted
    BY <1>21, TypeParts, QueueTypes, NoQueueIsNone DEF IInv, ListenerInterrupt, ArchiveQueueType
  <2> QED
    BY <1>21, <2>1 DEF IInv, ClientShape, ListenerInterrupt, history
<1>22. CASE ListenerFails
  <2>1. archiveQueue # NoQueue =>
            archiveQueue' \in QueueOf(Fields) /\ archiveQueue' # NoQueue /\ archiveQueue'.interrupted
    BY <1>22, TypeParts, QueueTypes, NoQueueIsNone DEF IInv, ListenerFails, ArchiveQueueType
  <2> QED
    BY <1>22, <2>1 DEF IInv, ClientShape, ListenerFails, history
<1>23. CASE Misaligned
    BY <1>23 DEF ClientShape, IInv, Misaligned, Destruct, Idle, Request, client, threads, history,
       CapAssumption, server
<1>24. CASE ControlClosed
    BY <1>24 DEF ClientShape, IInv, ControlClosed, Destruct, Idle, Request, client, threads,
       history, CapAssumption, server
<1>25. CASE HandleExit
    BY <1>25 DEF ClientShape, IInv, HandleExit, Destruct, Idle, Request, client, threads, history,
       CapAssumption, server
<1>26. CASE HandleArchive
    BY <1>26 DEF ClientShape, IInv, HandleArchive, Replies, NewQueue, Idle, Request, client,
       threads, history, CapAssumption
<1>27. CASE HandleFlush
    BY <1>27 DEF ClientShape, IInv, HandleFlush, Replies, NoFuture, Idle, Request, client,
       threads, history, CapAssumption
<1>28. CASE ListenerRead \/ ListenerClosed \/ HandlerEnds \/ ServerDies \/ LoopRead \/ LoopJoin
         \/ LoopDisconnected \/ LoopThrows \/ LoopUnwound \/ WorkerArchive \/ WorkerEnds
         \/ Terminated
  <2>1. UNCHANGED <<call, calls, nextID, archiveQueue, archiveFuture, sender, hand, request, reply, accepted>>
    BY <1>28 DEF ListenerRead, ListenerClosed, HandlerEnds, ServerDies, LoopRead, LoopJoin,
       LoopDisconnected, LoopThrows, LoopUnwound, WorkerArchive, WorkerEnds, Terminated, client,
       threads, server, history, vars
  <2> QED
    BY <2>1 DEF ClientShape, IInv
<1> QED
    BY <1>1, <1>2, <1>3, <1>4, <1>5, <1>6, <1>7, <1>8, <1>9, <1>10, <1>11, <1>12, <1>13, <1>14,
       <1>15, <1>16, <1>17, <1>18, <1>19, <1>20, <1>21, <1>22, <1>23, <1>24, <1>25, <1>26, <1>27,
       <1>28 DEF Next, Caller, Sender, Listener, Control, Loop, Worker

(* Once something has gone wrong it stays so. *)
LEMMA SoundBefore == ASSUME CapAssumption, IInv, Next, Sound' PROVE Sound
<1>1. CASE Misaligned
    BY <1>1 DEF Sound, Misaligned, Destruct, server
<1>2. CASE ControlClosed
    BY <1>2 DEF Sound, ControlClosed, Destruct, server
<1>3. CASE HandleExit
    BY <1>3 DEF Sound, HandleExit, Destruct, server
<1>4. CASE HandlerEnds
    BY <1>4 DEF Sound, HandlerEnds
<1>5. CASE HandleArchive
    BY <1>5 DEF Sound, HandleArchive, Replies, IInv, ServerShape
<1>6. CASE HandleFlush
    BY <1>6, TypeParts DEF IInv, Sound, HandleFlush, Replies, HandlerType, NoFuture
<1>7. CASE ServerDies
    BY <1>7 DEF Sound, ServerDies
<1>8. CASE LoopRead
    BY <1>8 DEF Sound, LoopRead, IInv, ServerShape
<1>9. CASE LoopJoin
    BY <1>9, TypeParts DEF IInv, ServerShape, Sound, LoopJoin, HandlerType
<1>10. CASE LoopDisconnected
    BY <1>10 DEF Sound, LoopDisconnected
<1>11. CASE LoopThrows
    BY <1>11 DEF Sound, LoopThrows
<1>12. CASE LoopUnwound
  <2>1. future \in [state : {"none", "running", "done", "error"}, n : Nat, id : Nat]
    BY TypeParts, SMTT(30) DEF IInv, HandlerType
  <2> QED
    BY <1>12, <2>1 DEF Sound, LoopUnwound
<1>13. CASE WorkerArchive
  <2>1. future'.state = future.state
    BY <1>13, WorkerArchives, TypeParts DEF IInv, HandlerType
  <2> QED
    BY <1>13, <2>1 DEF Sound, WorkerArchive
<1>14. CASE StartArchive \/ ArchiveStarted \/ Archive \/ Enqueue \/ EnqueueThrows \/ Flush
         \/ Joined \/ JoinThrows \/ FlushReturns \/ RequestThrows \/ Disconnect \/ Disconnected
         \/ ClientDies \/ SenderPop \/ SenderSend \/ SenderEnd \/ SenderMarker \/ SenderResetID
         \/ SenderResetQueue \/ SenderThrows \/ ListenerRead \/ ListenerInterrupt
         \/ ListenerClosed \/ ListenerFails \/ WorkerEnds \/ Terminated
  <2>1. UNCHANGED <<handler, unread, future, loop>>
    BY <1>14 DEF StartArchive, ArchiveStarted, Archive, Enqueue, EnqueueThrows, Flush, Joined,
       JoinThrows, FlushReturns, RequestThrows, Disconnect, Disconnected, ClientDies, SenderPop,
       SenderSend, SenderEnd, SenderMarker, SenderResetID, SenderResetQueue, SenderThrows,
       ListenerRead, ListenerInterrupt, ListenerClosed, ListenerFails, WorkerEnds, Terminated,
       DataWrite, client, threads, server, history, vars
  <2> QED
    BY <2>1 DEF Sound
<1> QED
    BY <1>1, <1>2, <1>3, <1>4, <1>5, <1>6, <1>7, <1>8, <1>9, <1>10, <1>11, <1>12, <1>13, <1>14 DEF
       Next, Caller, Sender, Listener, Control, Loop, Worker

(* What has gone wrong stays wrong. *)
LEMMA HealthyBefore == ASSUME CapAssumption, IInv, Next, Healthy' PROVE Healthy
<1>1. Sound
    BY SoundBefore DEF Healthy
<1>2. call = "closed" => call' = "closed"
  <2>1. CASE StartArchive \/ ArchiveStarted \/ Archive \/ Enqueue \/ EnqueueThrows \/ Flush
          \/ Joined \/ JoinThrows \/ FlushReturns \/ RequestThrows \/ Disconnect \/ Disconnected
          \/ ClientDies
    BY <2>1, SMTT(30) DEF StartArchive, ArchiveStarted, Archive, Enqueue, EnqueueThrows, Flush, Joined,
       JoinThrows, FlushReturns, RequestThrows, Disconnect, Disconnected, ClientDies
  <2>2. CASE SenderPop \/ SenderSend \/ SenderEnd \/ SenderMarker \/ SenderResetID
          \/ SenderResetQueue \/ SenderThrows \/ ListenerRead \/ ListenerInterrupt
          \/ ListenerClosed \/ ListenerFails \/ Misaligned \/ ControlClosed \/ HandleExit
          \/ HandlerEnds \/ HandleArchive \/ HandleFlush \/ ServerDies \/ LoopRead \/ LoopJoin
          \/ LoopDisconnected \/ LoopThrows \/ LoopUnwound \/ WorkerArchive \/ WorkerEnds
          \/ Terminated
    BY <2>2 DEF SenderPop, SenderSend, SenderEnd, SenderMarker, SenderResetID, SenderResetQueue,
       SenderThrows, ListenerRead, ListenerInterrupt, ListenerClosed, ListenerFails, Misaligned,
       ControlClosed, HandleExit, HandlerEnds, HandleArchive, HandleFlush, ServerDies, LoopRead,
       LoopJoin, LoopDisconnected, LoopThrows, LoopUnwound, WorkerArchive, WorkerEnds, Terminated,
       Destruct, client, vars
  <2> QED
    BY <2>1, <2>2 DEF Next, Caller, Sender, Listener, Control, Loop, Worker
<1> QED
    BY <1>1, <1>2 DEF Healthy

(* Nothing is in flight when a session is asked for. *)
LEMMA NextAskedAfresh ==
    ASSUME CapAssumption, IInv, Next
    PROVE  AskedAfresh'
<1>1. CASE StartArchive
  <2>1. Sound => AllArchived
    BY <1>1 DEF IInv, NothingMissing, Healthy, IdleHasArchived, StartArchive
  <2> QED
    BY <1>1, <2>1, SoundBefore DEF AskedAfresh, AllArchived, StartArchive, server
<1>2. CASE Joined
    BY <1>2, SoundBefore DEF AskedAfresh, Sound, IInv, Joined, Request, threads, server, history,
       CapAssumption
<1>3. CASE RequestThrows
    BY <1>3, SoundBefore DEF AskedAfresh, Sound, IInv, RequestThrows, Idle, Request, threads,
       server, CapAssumption
<1>4. CASE Disconnect
    BY <1>4, SoundBefore DEF AskedAfresh, Sound, IInv, Disconnect, Idle, Request, threads, server,
       history, CapAssumption
<1>5. CASE SenderSend
    BY <1>5 DEF IInv, ClientShape, AskedAfresh, SenderSend, Idle, Request
<1>6. CASE SenderMarker
    BY <1>6 DEF IInv, ClientShape, AskedAfresh, SenderMarker, Idle, Request
<1>7. CASE Misaligned
    BY <1>7, SoundBefore DEF AskedAfresh, Sound, IInv, Misaligned, Destruct, Idle, Request,
       client, threads, history, CapAssumption, server
<1>8. CASE ControlClosed
    BY <1>8, SoundBefore DEF AskedAfresh, Sound, IInv, ControlClosed, Destruct, Idle, Request,
       client, threads, history, CapAssumption, server
<1>9. CASE HandleExit
    BY <1>9, SoundBefore DEF AskedAfresh, Sound, IInv, HandleExit, Destruct, Idle, Request,
       client, threads, history, CapAssumption, server
<1>10. CASE HandlerEnds
    BY <1>10, SoundBefore DEF AskedAfresh, Sound, IInv, HandlerEnds, client, threads, history,
       CapAssumption
<1>11. CASE HandleArchive
    BY <1>11, SoundBefore DEF AskedAfresh, Sound, IInv, HandleArchive, Replies, NewQueue, Idle,
       Request, client, threads, history, CapAssumption
<1>12. CASE HandleFlush
    BY <1>12, SoundBefore DEF AskedAfresh, Sound, IInv, HandleFlush, Replies, NoFuture, Idle,
       Request, client, threads, history, CapAssumption
<1>13. CASE ServerDies
    BY <1>13, SoundBefore DEF AskedAfresh, Sound, IInv, ServerDies, NewQueue, NoFuture, client,
       threads, history, CapAssumption
<1>14. CASE LoopRead
    BY <1>14 DEF IInv, ServerShape, AskedAfresh, Sound, LoopRead
<1>15. CASE LoopJoin
    BY <1>15 DEF IInv, ServerShape, AskedAfresh, Sound, LoopJoin
<1>16. CASE LoopDisconnected
    BY <1>16, SoundBefore DEF AskedAfresh, Sound, IInv, LoopDisconnected, client, threads,
       history, CapAssumption
<1>17. CASE LoopThrows
    BY <1>17, SoundBefore DEF AskedAfresh, Sound, IInv, LoopThrows, Interrupt, client, threads,
       history, CapAssumption
<1>18. CASE LoopUnwound
    BY <1>18, SoundBefore, SMTT(30) DEF AskedAfresh, Sound, IInv, LoopUnwound, client, threads, history,
       CapAssumption
<1>19. CASE WorkerArchive
  <2>1. future'.state = future.state
    BY <1>19, WorkerArchives, TypeParts DEF IInv, HandlerType
  <2> QED
    BY <1>19, <2>1, SoundBefore DEF IInv, AskedAfresh, WorkerArchive
<1>20. CASE ArchiveStarted \/ Archive \/ Enqueue \/ EnqueueThrows \/ Flush \/ JoinThrows
         \/ FlushReturns \/ Disconnected \/ ClientDies \/ SenderPop \/ SenderEnd \/ SenderResetID
         \/ SenderResetQueue \/ SenderThrows \/ ListenerRead \/ ListenerInterrupt
         \/ ListenerClosed \/ ListenerFails \/ WorkerEnds \/ Terminated
  <2>1. UNCHANGED <<request, handler, unread, future, loop, toServer>>
    BY <1>20 DEF ArchiveStarted, Archive, Enqueue, EnqueueThrows, Flush, JoinThrows, FlushReturns,
       Disconnected, ClientDies, SenderPop, SenderEnd, SenderResetID, SenderResetQueue,
       SenderThrows, ListenerRead, ListenerInterrupt, ListenerClosed, ListenerFails, WorkerEnds,
       Terminated, client, threads, server, history, vars
  <2> QED
    BY <2>1, SoundBefore DEF AskedAfresh, Sound, IInv
<1> QED
    BY <1>1, <1>2, <1>3, <1>4, <1>5, <1>6, <1>7, <1>8, <1>9, <1>10, <1>11, <1>12, <1>13, <1>14,
       <1>15, <1>16, <1>17, <1>18, <1>19, <1>20 DEF Next, Caller, Sender, Listener, Control, Loop,
       Worker

(* While the archive thread is at work the queues and what is in flight are in a row. *)
LEMMA SendingCarries ==
    ASSUME CapAssumption, IInv, loop = "read", ~queue.interrupted, sender \in {"pop", "send", "marker"}
    PROVE  \E c \in 0..MaxFields :
              /\ Carried(c)
              /\ Run(hand, c) /\ Run(archiveQueue.elems, c + Len(hand))
              /\ c + Len(hand) + Len(archiveQueue.elems) = IF call = "enqueue" THEN calls - 1 ELSE calls
<1>1. call # "closed"
    BY DEF IInv, ClientShape
<1> QED
    BY <1>1, ReadIsHealthy DEF IInv, NothingMissing, OpenIsSending, Sending

(* The messages that are sent. *)
LEMMA MessageTypes ==
    /\ FlushMarker \in Message
    /\ TypeOK => Blob(hand) \in Message /\ Blob(hand) # FlushMarker /\ Blob(hand).fields = hand
    /\ TypeOK => toServer \in Seq(Message) /\ queue.elems \in Seq(Seq(Fields)) /\ queue \in QueueOf(Seq(Fields))
<1>1. FlushMarker \in Message
    BY DEF FlushMarker, Message
<1>2. TypeOK => Blob(hand) \in Message /\ Blob(hand).fields = hand
    BY TypeParts DEF ThreadsType, Message, Blob
<1>3. Blob(hand) # FlushMarker
    BY DEF Blob, FlushMarker
<1>4. TypeOK => toServer \in Seq(Message)
    BY TypeParts DEF ThreadsType
<1>5. TypeOK => queue.elems \in Seq(Seq(Fields)) /\ queue \in QueueOf(Seq(Fields))
    BY TypeParts, QueueTypes DEF QueueType
<1> QED
    BY <1>1, <1>2, <1>3, <1>4, <1>5

(* Sending a batch, or the marker, keeps the row and makes it longer. *)
LEMMA SendCarries ==
    ASSUME CapAssumption, IInv, NEW c \in 0..MaxFields, Carried(c),
           NEW m \in Message, Run(m.fields, c), toServer' = Append(toServer, m),
           UNCHANGED <<queue, archived>>
    PROVE  Carried(c + Len(m.fields))' /\ c + Len(m.fields) \in 0..MaxFields
<1>1. PICK b \in 0..MaxFields : Follows(queue.elems, Len(archived), b) /\ Follows(Pieces(toServer), b, c)
    BY DEF Carried
<1>2. Follows(Pieces(Append(toServer, m)), b, c + Len(m.fields)) /\ c + Len(m.fields) \in 0..MaxFields
    BY <1>1, MessageTypes, SentFollows DEF IInv
<1> QED
    BY <1>1, <1>2 DEF Carried

(* Reading a message keeps the row as it is, unless the loop throws. *)
LEMMA ReadCarries ==
    ASSUME CapAssumption, IInv, LoopRead, NEW c \in 0..MaxFields, Carried(c)
    PROVE  /\ \/ Head(toServer) = FlushMarker /\ loop' = "join" /\ queue'.closed
                 /\ queue'.elems = queue.elems /\ queue'.interrupted = queue.interrupted
              \/ Head(toServer) # FlushMarker /\ loop' = "read" /\ ~queue'.closed
                 /\ ~queue.interrupted /\ ~queue'.interrupted
              \/ loop' = "throw" /\ queue.interrupted
           /\ loop' # "throw" => Carried(c)'
<1>1. PICK b \in 0..MaxFields : Follows(queue.elems, Len(archived), b) /\ Follows(Pieces(toServer), b, c)
    BY DEF Carried
<1> DEFINE f == Head(toServer).fields
<1>2. Len(archived) \in 0..MaxFields /\ toServer # << >>
    BY ArchivedLength DEF IInv, LoopRead
<1>3. /\ f \in Seq(Fields) /\ b + Len(f) \in 0..MaxFields
      /\ Follows(Append(queue.elems, f), Len(archived), b + Len(f))
      /\ Follows(Pieces(Tail(toServer)), b + Len(f), c)
    BY <1>1, <1>2, MessageTypes, ReadFollows DEF IInv
<1>4. toServer' = Tail(toServer) /\ archived' = archived
    BY DEF LoopRead
<1>5. CASE Head(toServer) = FlushMarker /\ queue' = [queue EXCEPT !.closed = TRUE] /\ loop' = "join"
  <2>1. queue'.elems = queue.elems /\ queue'.closed /\ queue'.interrupted = queue.interrupted
    BY <1>5, CloseTypes, MessageTypes DEF IInv
  <2>2. f = << >> /\ b + Len(f) = b
    BY <1>5 DEF FlushMarker
  <2> QED
    BY <1>1, <1>3, <1>4, <1>5, <2>1, <2>2 DEF Carried
<1>6. CASE Head(toServer) # FlushMarker /\ CanEmplace(queue,
   ServerQueueCap) /\ queue' = Emplace(queue, f) /\ loop' = loop
  <2>1. queue'.elems = Append(queue.elems, f) /\ queue'.closed = queue.closed
        /\ queue'.interrupted = queue.interrupted
    <3>1. queue \in QueueOf(Seq(Fields)) /\ queue' = Emplace(queue, f)
        BY <1>6, MessageTypes DEF IInv
    <3> HIDE DEF f
    <3> QED
        BY <1>3, <3>1, EmplaceTypes
  <2>2. ~queue.closed /\ ~queue.interrupted /\ loop' = "read"
    BY <1>6 DEF CanEmplace, LoopRead
  <2> QED
    BY <1>3, <1>4, <1>6, <2>1, <2>2 DEF Carried
<1>7. CASE loop' = "throw" /\ queue.interrupted
    BY <1>7
<1> QED
    BY <1>5, <1>6, <1>7 DEF LoopRead

(* Every step keeps what the worker will archive in order. *)
LEMMA NextQueueFollows ==
    ASSUME CapAssumption, IInv, Next
    PROVE  QueueFollows'
<1>1. CASE SenderSend
  <2>1. CASE loop = "read" /\ ~queue.interrupted
    <3>1. PICK c \in 0..MaxFields : Carried(c) /\ Run(hand, c)
        BY <1>1, <2>1, SendingCarries DEF SenderSend
    <3>2. PICK m \in Message : m = Blob(hand) /\ m.fields = hand
        BY MessageTypes DEF IInv
    <3>3. toServer' = Append(toServer, m) /\ UNCHANGED <<queue, archived>>
        BY <1>1, <2>1, <3>2 DEF IInv, ServerShape, SenderSend, DataWrite, server
    <3>4. Run(m.fields, c)
        BY <3>1, <3>2
    <3>5. Carried(c + Len(m.fields))' /\ c + Len(m.fields) \in 0..MaxFields
        BY <3>1, <3>3, <3>4, SendCarries
    <3> QED
        BY <1>1, <3>5 DEF IInv, QueueFollows, Carried, SenderSend, server
  <2>2. CASE ~(loop = "read" /\ ~queue.interrupted)
    BY <1>1, <2>2 DEF IInv, QueueFollows, SenderSend, server
  <2> QED
    BY <2>1, <2>2
<1>2. CASE SenderMarker
  <2>1. CASE loop = "read" /\ ~queue.interrupted
    <3>1. PICK c \in 0..MaxFields : Carried(c)
        BY <2>1 DEF IInv, QueueFollows
    <3>2. toServer' = Append(toServer, FlushMarker) /\ UNCHANGED <<queue, archived>>
        BY <1>2, <2>1 DEF IInv, ServerShape, SenderMarker, DataWrite, server
    <3>3. FlushMarker \in Message /\ FlushMarker.fields = << >> /\ Run(<< >>, c)
        BY MessageTypes DEF FlushMarker, Run
    <3>4. Carried(c + Len(<< >>))' /\ c + Len(<< >>) \in 0..MaxFields
        BY <3>1, <3>2, <3>3, SendCarries
    <3> QED
        BY <1>2, <3>4 DEF IInv, QueueFollows, SenderMarker, server
  <2>2. CASE ~(loop = "read" /\ ~queue.interrupted)
    BY <1>2, <2>2 DEF IInv, QueueFollows, SenderMarker, server
  <2> QED
    BY <2>1, <2>2
<1>3. CASE HandleArchive
  <2>1. toServer = << >>
    BY <1>3 DEF IInv, ServerShape, AskedAfresh, Sound, HandleArchive
  <2>2. Follows(<< >>, Len(archived), Len(archived)) /\ Len(archived) \in 0..MaxFields
    BY ArchivedLength, FollowsNothing DEF IInv
  <2>3. queue'.elems = << >> /\ Pieces(toServer') = << >> /\ archived' = archived
    BY <1>3, <2>1, NewQueueType, PiecesOf DEF HandleArchive
  <2> QED
    BY <2>2, <2>3 DEF QueueFollows, Carried
<1>4. CASE ServerDies
    BY <1>4 DEF QueueFollows, ServerDies
<1>5. CASE LoopRead
  <2>1. CASE queue.interrupted
    <3>1. loop' # "read" /\ worker' # "pop"
        BY <1>5, <2>1 DEF IInv, ServerShape, LoopRead, CanEmplace
    <3> QED
        BY <3>1 DEF QueueFollows
  <2>2. CASE ~queue.interrupted
    <3>1. PICK c \in 0..MaxFields : Carried(c)
        BY <1>5, <2>2 DEF IInv, QueueFollows, LoopRead
    <3>2. Carried(c)'
        BY <1>5, <2>2, <3>1, ReadCarries
    <3> QED
        BY <3>2 DEF QueueFollows, Carried
  <2> QED
    BY <2>1, <2>2
<1>6. CASE LoopJoin
    BY <1>6 DEF QueueFollows, IInv, Carried, LoopJoin, client, threads, history, CapAssumption
<1>7. CASE LoopDisconnected
    BY <1>7 DEF QueueFollows, IInv, Carried, LoopDisconnected, client, threads, history,
       CapAssumption
<1>8. CASE LoopThrows
  <2>1. queue'.elems = queue.elems
    BY <1>8, MessageTypes, QueueTypes DEF IInv, LoopThrows
  <2> QED
    BY <1>8, <2>1 DEF IInv, QueueFollows, LoopThrows
<1>9. CASE LoopUnwound
    BY <1>9 DEF QueueFollows, IInv, Carried, LoopUnwound, client, threads, history, CapAssumption
<1>10. CASE WorkerArchive
  <2>1. PICK b \in 0..MaxFields :
            /\ Follows(queue.elems, Len(archived), b)
            /\ loop = "read" /\ ~queue.interrupted =>
                  \E c \in 0..MaxFields : Follows(Pieces(toServer), b, c)
    BY <1>10 DEF IInv, QueueFollows, Carried, WorkerArchive
  <2>2. \/ worker' = "error" /\ queue'.interrupted
        \/ queue'.interrupted = queue.interrupted /\ Follows(queue'.elems, Len(archived'), b)
    BY <1>10, <2>1, WorkerFollows DEF IInv
  <2> QED
    BY <1>10, <2>1, <2>2 DEF QueueFollows, Carried, WorkerArchive
<1>11. CASE WorkerEnds
    BY <1>11 DEF IInv, QueueFollows, Carried, WorkerEnds
<1>12. CASE StartArchive \/ ArchiveStarted \/ Archive \/ Enqueue \/ EnqueueThrows \/ Flush
         \/ Joined \/ JoinThrows \/ FlushReturns \/ RequestThrows \/ Disconnect \/ Disconnected
         \/ ClientDies \/ SenderPop \/ SenderEnd \/ SenderResetID \/ SenderResetQueue
         \/ SenderThrows \/ ListenerRead \/ ListenerInterrupt \/ ListenerClosed \/ ListenerFails
         \/ Misaligned \/ ControlClosed \/ HandleExit \/ HandlerEnds \/ HandleFlush \/ Terminated
  <2>1. UNCHANGED <<worker, queue, archived, loop, toServer>>
    BY <1>12 DEF StartArchive, ArchiveStarted, Archive, Enqueue, EnqueueThrows, Flush, Joined,
       JoinThrows, FlushReturns, RequestThrows, Disconnect, Disconnected, ClientDies, SenderPop,
       SenderEnd, SenderResetID, SenderResetQueue, SenderThrows, ListenerRead, ListenerInterrupt,
       ListenerClosed, ListenerFails, Misaligned, ControlClosed, HandleExit, HandlerEnds,
       HandleFlush, Terminated, Destruct, Replies, client, threads, server, history, vars
  <2> QED
    BY <2>1 DEF QueueFollows, IInv, Carried
<1> QED
    BY <1>1, <1>2, <1>3, <1>4, <1>5, <1>6, <1>7, <1>8, <1>9, <1>10, <1>11, <1>12 DEF Next, Caller,
       Sender, Listener, Control, Loop, Worker

(***************************************************************************)
(* Nothing goes missing while nothing has gone wrong.                      *)
(***************************************************************************)
LEMMA NextNoError ==
    ASSUME CapAssumption, IInv, Healthy, Healthy', Next
    PROVE  NoError'
<1>1. CASE ArchiveStarted
    BY <1>1, NewQueueType DEF IInv, NothingMissing, NoError, ArchiveStarted
<1>2. CASE Enqueue
  <2>1. archiveQueue \in QueueOf(Fields)
    BY <1>2, HasQueue, TypeParts DEF IInv, ClientShape, Enqueue
  <2>2. calls \in Fields
    BY <1>2, TypeParts DEF IInv, ClientShape, Enqueue, CallType, Fields
  <2>3. ~archiveQueue'.interrupted
    BY <1>2, <2>1, <2>2, EmplaceTypes DEF Enqueue, CanEmplace
  <2> QED
    BY <1>2, <2>3 DEF IInv, NothingMissing, NoError, Enqueue, threads
<1>3. CASE Flush
  <2>1. archiveQueue \in QueueOf(Fields) /\ archiveQueue # NoQueue
    BY <1>3, HasQueue, NoQueueIsNone DEF IInv, ClientShape, Flush
  <2>2. archiveQueue'.interrupted = archiveQueue.interrupted
    BY <1>3, <2>1, CloseTypes DEF Flush
  <2> QED
    BY <1>3, <2>1, <2>2 DEF IInv, NothingMissing, NoError, Flush, threads
<1>4. CASE Joined
    BY <1>4 DEF NoError, IInv, NothingMissing, Healthy, Sound, ClientShape, ServerShape, Joined,
       Request, threads, server, history, CapAssumption
<1>5. CASE JoinThrows
    BY <1>5 DEF NoError, IInv, NothingMissing, Healthy, Sound, ClientShape, ServerShape,
       JoinThrows, threads, server, CapAssumption
<1>6. CASE FlushReturns
    BY <1>6 DEF NoError, IInv, NothingMissing, Healthy, Sound, ClientShape, ServerShape,
       FlushReturns, threads, server, CapAssumption
<1>7. CASE RequestThrows
    BY <1>7 DEF NoError, IInv, NothingMissing, Healthy, Sound, ClientShape, ServerShape,
       RequestThrows, Idle, Request, threads, server, CapAssumption
<1>8. CASE ClientDies
    BY <1>8 DEF NoError, IInv, NothingMissing, Healthy, Sound, ClientShape, ServerShape,
       ClientDies, server, history, CapAssumption
<1>9. CASE SenderPop
  <2>1. archiveQueue'.interrupted = archiveQueue.interrupted /\ archiveQueue # NoQueue
    BY <1>9, SenderPops, NoQueueIsNone DEF IInv
  <2> QED
    BY <1>9, <2>1 DEF IInv, NothingMissing, NoError, SenderPop
<1>10. CASE SenderResetQueue
    BY <1>10 DEF NoError, IInv, NothingMissing, Healthy, Sound, ClientShape, ServerShape,
       SenderResetQueue, server, history, CapAssumption
<1>11. CASE SenderThrows
  <2>1. archiveQueue # NoQueue
    BY <1>11 DEF IInv, ClientShape, SenderThrows
  <2> QED
    BY <1>11, <2>1 DEF IInv, NothingMissing, NoError, SenderThrows, Healthy, Sound
<1>12. CASE ListenerRead
    BY <1>12 DEF NoError, IInv, NothingMissing, Healthy, Sound, ClientShape, ServerShape,
       ListenerRead, client, server, history, CapAssumption
<1>13. CASE ListenerInterrupt
    BY <1>13 DEF NoError, IInv, NothingMissing, Healthy, Sound, ClientShape, ServerShape,
       ListenerInterrupt, Interrupt, server, history, CapAssumption
<1>14. CASE ListenerClosed
    BY <1>14 DEF NoError, IInv, NothingMissing, Healthy, Sound, ClientShape, ServerShape,
       ListenerClosed, client, server, history, CapAssumption
<1>15. CASE ListenerFails
    BY <1>15 DEF NoError, IInv, NothingMissing, Healthy, Sound, ClientShape, ServerShape,
       ListenerFails, Interrupt, server, history, CapAssumption
<1>16. CASE Misaligned
    BY <1>16 DEF NoError, IInv, NothingMissing, Healthy, Sound, ClientShape, ServerShape,
       Misaligned, Destruct, Idle, Request, client, threads, history, CapAssumption, server
<1>17. CASE ControlClosed
    BY <1>17 DEF NoError, IInv, NothingMissing, Healthy, Sound, ClientShape, ServerShape,
       ControlClosed, Destruct, Idle, Request, client, threads, history, CapAssumption, server
<1>18. CASE HandleExit
    BY <1>18 DEF NoError, IInv, NothingMissing, Healthy, Sound, ClientShape, ServerShape,
       HandleExit, Destruct, Idle, Request, client, threads, history, CapAssumption, server
<1>19. CASE HandleArchive
    BY <1>19 DEF IInv, NothingMissing, NoError, HandleArchive, Replies, client, threads
<1>20. CASE HandleFlush
    BY <1>20 DEF IInv, NothingMissing, NoError, HandleFlush, Replies, client, threads, Healthy,
       Sound
<1>21. CASE LoopThrows
    BY <1>21 DEF NoError, IInv, NothingMissing, Healthy, Sound, ClientShape, ServerShape,
       LoopThrows, Interrupt, client, threads, history, CapAssumption
<1>22. CASE StartArchive \/ Archive \/ EnqueueThrows \/ Disconnect \/ Disconnected \/ SenderSend
         \/ SenderEnd \/ SenderMarker \/ SenderResetID \/ HandlerEnds \/ ServerDies \/ LoopRead
         \/ LoopJoin \/ LoopDisconnected \/ LoopUnwound \/ WorkerArchive \/ WorkerEnds
         \/ Terminated
  <2>1. UNCHANGED <<toClient, listener, reply, archiveQueue, archiveFuture>>
    BY <1>22 DEF StartArchive, Archive, EnqueueThrows, Disconnect, Disconnected, SenderSend,
       SenderEnd, SenderMarker, SenderResetID, HandlerEnds, ServerDies, LoopRead, LoopJoin,
       LoopDisconnected, LoopUnwound, WorkerArchive, WorkerEnds, Terminated, DataWrite, client,
       threads, server, history, vars
  <2> QED
    BY <2>1 DEF NoError, IInv, NothingMissing, Healthy, Sound, ClientShape, ServerShape
<1> QED
    BY <1>1, <1>2, <1>3, <1>4, <1>5, <1>6, <1>7, <1>8, <1>9, <1>10, <1>11, <1>12, <1>13, <1>14,
       <1>15, <1>16, <1>17, <1>18, <1>19, <1>20, <1>21, <1>22 DEF Next, Caller, Sender, Listener,
       Control, Loop, Worker

(* Nothing is missing when the client comes back to rest. *)
LEMMA NextIdleHasArchived ==
    ASSUME CapAssumption, IInv, Healthy, Healthy', Next
    PROVE  IdleHasArchived'
<1>1. CASE StartArchive
    BY <1>1 DEF IdleHasArchived, IInv, NothingMissing, Healthy, Sound, ClientShape, ServerShape,
       NoError, AllArchived, AnsweredHasArchived, StartArchive, Request, threads, server, history,
       CapAssumption
<1>2. CASE ArchiveStarted
    BY <1>2 DEF IdleHasArchived, IInv, NothingMissing, Healthy, Sound, ClientShape, ServerShape,
       NoError, AllArchived, AnsweredHasArchived, ArchiveStarted, NewQueue, server, history,
       CapAssumption
<1>3. CASE Archive
    BY <1>3 DEF IdleHasArchived, IInv, NothingMissing, Healthy, Sound, ClientShape, ServerShape,
       NoError, AllArchived, AnsweredHasArchived, Archive, threads, server, history, CapAssumption
<1>4. CASE Enqueue
    BY <1>4 DEF IdleHasArchived, IInv, NothingMissing, Healthy, Sound, ClientShape, ServerShape,
       NoError, AllArchived, AnsweredHasArchived, Enqueue, CanEmplace, Emplace, threads, server,
       CapAssumption
<1>5. CASE EnqueueThrows
    BY <1>5 DEF IdleHasArchived, IInv, NothingMissing, Healthy, Sound, ClientShape, ServerShape,
       NoError, AllArchived, AnsweredHasArchived, EnqueueThrows, threads, server, history,
       CapAssumption
<1>6. CASE Flush
    BY <1>6 DEF IdleHasArchived, IInv, NothingMissing, Healthy, Sound, ClientShape, ServerShape,
       NoError, AllArchived, AnsweredHasArchived, Flush, threads, server, history, CapAssumption
<1>7. CASE Joined
    BY <1>7 DEF IdleHasArchived, IInv, NothingMissing, Healthy, Sound, ClientShape, ServerShape,
       NoError, AllArchived, AnsweredHasArchived, Joined, Request, threads, server, history,
       CapAssumption
<1>8. CASE JoinThrows
    BY <1>8 DEF IdleHasArchived, IInv, NothingMissing, Healthy, Sound, ClientShape, ServerShape,
       NoError, AllArchived, AnsweredHasArchived, JoinThrows, threads, server, CapAssumption
<1>9. CASE FlushReturns
    BY <1>9 DEF IdleHasArchived, IInv, NothingMissing, Healthy, Sound, ClientShape, ServerShape,
       NoError, AllArchived, AnsweredHasArchived, FlushReturns, threads, server, CapAssumption
<1>10. CASE RequestThrows
    BY <1>10 DEF IdleHasArchived, IInv, NothingMissing, Healthy, Sound, ClientShape, ServerShape,
       NoError, AllArchived, AnsweredHasArchived, RequestThrows, Idle, Request, threads, server,
       CapAssumption
<1>11. CASE Disconnect
    BY <1>11 DEF IdleHasArchived, IInv, NothingMissing, Healthy, Sound, ClientShape, ServerShape,
       NoError, AllArchived, AnsweredHasArchived, Disconnect, Idle, Request, threads, server,
       history, CapAssumption
<1>12. CASE Disconnected
    BY <1>12 DEF IdleHasArchived, IInv, NothingMissing, Healthy, Sound, ClientShape, ServerShape,
       NoError, AllArchived, AnsweredHasArchived, Disconnected, threads, server, history,
       CapAssumption
<1>13. CASE ClientDies
    BY <1>13 DEF Healthy, ClientDies
<1>14. CASE SenderSend
    BY <1>14 DEF IInv, IdleHasArchived, ClientShape, SenderSend, client
<1>15. CASE SenderMarker
    BY <1>15 DEF IInv, IdleHasArchived, ClientShape, SenderMarker, client
<1>16. CASE SenderResetQueue
    BY <1>16 DEF IdleHasArchived, SenderResetQueue
<1>17. CASE SenderThrows
    BY <1>17 DEF IdleHasArchived, SenderThrows
<1>18. CASE HandleArchive
    BY <1>18 DEF IdleHasArchived, IInv, NothingMissing, Healthy, Sound, ClientShape, ServerShape,
       NoError, AllArchived, AnsweredHasArchived, HandleArchive, Replies, NewQueue, Idle, Request,
       client, threads, history, CapAssumption
<1>19. CASE HandleFlush
    BY <1>19 DEF IdleHasArchived, IInv, NothingMissing, Healthy, Sound, ClientShape, ServerShape,
       NoError, AllArchived, AnsweredHasArchived, HandleFlush, Replies, NoFuture, Idle, Request,
       client, threads, history, CapAssumption
<1>20. CASE ServerDies
    BY <1>20 DEF Healthy, Sound, ServerDies
<1>21. CASE LoopRead
    BY <1>21 DEF IdleHasArchived, IInv, NothingMissing, Healthy, Sound, ClientShape, ServerShape,
       NoError, AllArchived, AnsweredHasArchived, LoopRead, FlushMarker, CanEmplace, Emplace,
       client, threads, history, CapAssumption
<1>22. CASE LoopJoin
    BY <1>22 DEF IdleHasArchived, IInv, NothingMissing, Healthy, Sound, ClientShape, ServerShape,
       NoError, AllArchived, AnsweredHasArchived, LoopJoin, client, threads, history,
       CapAssumption
<1>23. CASE LoopUnwound
    BY <1>23, SMTT(30) DEF IdleHasArchived, IInv, NothingMissing, Healthy, Sound, ClientShape, ServerShape,
       NoError, AllArchived, AnsweredHasArchived, LoopUnwound, client, threads, history,
       CapAssumption
<1>24. CASE WorkerArchive
  <2>1. loop # "none"
    BY <1>24 DEF IInv, ServerShape, WorkerArchive
  <2> QED
    BY <1>24, <2>1, SMTT(30) DEF IInv, NothingMissing, IdleHasArchived, AllArchived, ServerShape,
       WorkerArchive, client
<1>25. CASE SenderPop \/ SenderEnd \/ SenderResetID \/ ListenerRead \/ ListenerInterrupt
         \/ ListenerClosed \/ ListenerFails \/ Misaligned \/ ControlClosed \/ HandleExit
         \/ HandlerEnds \/ LoopDisconnected \/ LoopThrows \/ WorkerEnds \/ Terminated
  <2>1. UNCHANGED <<archiveFuture, call, future, toServer, archived, calls>>
    BY <1>25 DEF SenderPop, SenderEnd, SenderResetID, ListenerRead, ListenerInterrupt,
       ListenerClosed, ListenerFails, Misaligned, ControlClosed, HandleExit, HandlerEnds,
       LoopDisconnected, LoopThrows, WorkerEnds, Terminated, Destruct, client, threads, server,
       history, vars
  <2> QED
    BY <2>1 DEF IdleHasArchived, IInv, NothingMissing, Healthy, Sound, ClientShape, ServerShape,
       NoError, AllArchived, AnsweredHasArchived
<1> QED
    BY <1>1, <1>2, <1>3, <1>4, <1>5, <1>6, <1>7, <1>8, <1>9, <1>10, <1>11, <1>12, <1>13, <1>14,
       <1>15, <1>16, <1>17, <1>18, <1>19, <1>20, <1>21, <1>22, <1>23, <1>24, <1>25 DEF Next,
       Caller, Sender, Listener, Control, Loop, Worker

(* Nothing is missing when a session is asked for. *)
LEMMA NextAskedIsStarting ==
    ASSUME CapAssumption, IInv, Healthy, Healthy', Next
    PROVE  AskedIsStarting'
<1>1. CASE StartArchive
  <2>1. AllArchived
    BY <1>1 DEF IInv, NothingMissing, IdleHasArchived, StartArchive
  <2>2. calls' - 1 = calls
    BY <1>1, TypeParts DEF IInv, CallType, StartArchive
  <2>3. reply' = "none"
    BY <1>1 DEF IInv, ClientShape, StartArchive
  <2> QED
    BY <1>1, <2>1, <2>2, <2>3 DEF AskedIsStarting, Starting, AllArchived, StartArchive, server
<1>2. CASE ArchiveStarted
    BY <1>2 DEF AskedIsStarting, IInv, NothingMissing, Healthy, Sound, ClientShape, ServerShape,
       NoError, Starting, AllArchived, IdleHasArchived, ArchiveStarted, NewQueue, server, history,
       CapAssumption
<1>3. CASE Archive
    BY <1>3 DEF AskedIsStarting, IInv, NothingMissing, Healthy, Sound, ClientShape, ServerShape,
       NoError, Starting, AllArchived, IdleHasArchived, Archive, threads, server, history,
       CapAssumption
<1>4. CASE Enqueue
    BY <1>4 DEF AskedIsStarting, IInv, NothingMissing, Healthy, Sound, ClientShape, ServerShape,
       NoError, Starting, AllArchived, IdleHasArchived, Enqueue, CanEmplace, Emplace, threads,
       server, CapAssumption
<1>5. CASE EnqueueThrows
    BY <1>5 DEF AskedIsStarting, IInv, NothingMissing, Healthy, Sound, ClientShape, ServerShape,
       NoError, Starting, AllArchived, IdleHasArchived, EnqueueThrows, threads, server, history,
       CapAssumption
<1>6. CASE Flush
    BY <1>6 DEF AskedIsStarting, IInv, NothingMissing, Healthy, Sound, ClientShape, ServerShape,
       NoError, Starting, AllArchived, IdleHasArchived, Flush, threads, server, history,
       CapAssumption
<1>7. CASE Joined
    BY <1>7 DEF AskedIsStarting, IInv, NothingMissing, Healthy, Sound, ClientShape, ServerShape,
       NoError, Starting, AllArchived, IdleHasArchived, Joined, Request, threads, server, history,
       CapAssumption
<1>8. CASE JoinThrows
    BY <1>8 DEF AskedIsStarting, IInv, NothingMissing, Healthy, Sound, ClientShape, ServerShape,
       NoError, Starting, AllArchived, IdleHasArchived, JoinThrows, threads, server, CapAssumption
<1>9. CASE FlushReturns
    BY <1>9 DEF AskedIsStarting, IInv, NothingMissing, Healthy, Sound, ClientShape, ServerShape,
       NoError, Starting, AllArchived, IdleHasArchived, FlushReturns, threads, server,
       CapAssumption
<1>10. CASE RequestThrows
    BY <1>10 DEF AskedIsStarting, IInv, NothingMissing, Healthy, Sound, ClientShape, ServerShape,
       NoError, Starting, AllArchived, IdleHasArchived, RequestThrows, Idle, Request, threads,
       server, CapAssumption
<1>11. CASE Disconnect
    BY <1>11 DEF AskedIsStarting, IInv, NothingMissing, Healthy, Sound, ClientShape, ServerShape,
       NoError, Starting, AllArchived, IdleHasArchived, Disconnect, Idle, Request, threads,
       server, history, CapAssumption
<1>12. CASE Disconnected
    BY <1>12 DEF AskedIsStarting, IInv, NothingMissing, Healthy, Sound, ClientShape, ServerShape,
       NoError, Starting, AllArchived, IdleHasArchived, Disconnected, threads, server, history,
       CapAssumption
<1>13. CASE ClientDies
    BY <1>13 DEF Healthy, ClientDies
<1>14. CASE SenderSend
    BY <1>14 DEF IInv, AskedIsStarting, ClientShape, SenderSend, client
<1>15. CASE SenderMarker
    BY <1>15 DEF IInv, AskedIsStarting, ClientShape, SenderMarker, client
<1>16. CASE HandleArchive
  <2>1. call = "awaitArchive" => reply = "none" /\ Starting
    BY <1>16 DEF IInv, NothingMissing, AskedIsStarting, ClientShape, HandleArchive, Idle, Request
  <2> QED
    BY <1>16, <2>1, NewQueueType DEF AskedIsStarting, Starting, HandleArchive, Replies, client
<1>17. CASE HandleFlush
    BY <1>17 DEF IInv, AskedIsStarting, ClientShape, HandleFlush, client, Idle, Request
<1>18. CASE ServerDies
    BY <1>18 DEF Healthy, Sound, ServerDies
<1>19. CASE LoopRead
    BY <1>19 DEF IInv, NothingMissing, AskedIsStarting, Starting, ServerShape, LoopRead, client
<1>20. CASE LoopJoin
    BY <1>20 DEF IInv, NothingMissing, AskedIsStarting, Starting, ServerShape, LoopJoin, client
<1>21. CASE LoopDisconnected
    BY <1>21 DEF Healthy, Sound, LoopDisconnected
<1>22. CASE LoopThrows
    BY <1>22 DEF Healthy, Sound, LoopThrows
<1>23. CASE LoopUnwound
    BY <1>23, TypeParts, SMTT(30) DEF IInv, HandlerType, Healthy, Sound, LoopUnwound
<1>24. CASE WorkerArchive
  <2>1. call = "awaitArchive" => FALSE
    <3> SUFFICES ASSUME call = "awaitArchive" PROVE FALSE
        OBVIOUS
    <3>1. Starting /\ loop # "none"
        BY <1>24 DEF IInv, NothingMissing, AskedIsStarting, ServerShape, WorkerArchive
    <3> QED
        BY <1>24, <3>1, SMTT(30) DEF IInv, Starting, ServerShape, WorkerArchive
  <2> QED
    BY <1>24, <2>1 DEF AskedIsStarting, WorkerArchive, client
<1>25. CASE SenderPop \/ SenderEnd \/ SenderResetID \/ SenderResetQueue \/ SenderThrows
         \/ ListenerRead \/ ListenerInterrupt \/ ListenerClosed \/ ListenerFails \/ Misaligned
         \/ ControlClosed \/ HandleExit \/ HandlerEnds \/ WorkerEnds \/ Terminated
  <2>1. UNCHANGED <<call, toServer, archived, calls, reply, loop, queue, future>>
    BY <1>25 DEF SenderPop, SenderEnd, SenderResetID, SenderResetQueue, SenderThrows,
       ListenerRead, ListenerInterrupt, ListenerClosed, ListenerFails, Misaligned, ControlClosed,
       HandleExit, HandlerEnds, WorkerEnds, Terminated, Destruct, client, threads, server,
       history, vars
  <2> QED
    BY <2>1 DEF AskedIsStarting, IInv, NothingMissing, Healthy, Sound, ClientShape, ServerShape,
       NoError, Starting, AllArchived, IdleHasArchived
<1> QED
    BY <1>1, <1>2, <1>3, <1>4, <1>5, <1>6, <1>7, <1>8, <1>9, <1>10, <1>11, <1>12, <1>13, <1>14,
       <1>15, <1>16, <1>17, <1>18, <1>19, <1>20, <1>21, <1>22, <1>23, <1>24, <1>25 DEF Next,
       Caller, Sender, Listener, Control, Loop, Worker

(* The row that is on its way, with what it is made of. *)
LEMMA SendingRow ==
    ASSUME CapAssumption, IInv, Healthy, sender \in {"pop", "send", "marker"}
    PROVE  /\ loop = "read" /\ NoMarker(Len(toServer)) /\ handler = "up"
           /\ sender = "marker" => archiveQueue.elems = << >>
           /\ archiveQueue \in QueueOf(Fields) /\ archiveQueue.elems \in Seq(Fields) /\ hand \in Seq(Fields)
           /\ ~archiveQueue.interrupted
           /\ toServer \in Seq(Message)
<1>1. loop = "read" /\ NoMarker(Len(toServer)) /\ handler = "up" /\ (sender = "marker" => archiveQueue.elems = << >>)
    BY DEF IInv, NothingMissing, OpenIsSending, Sending, Healthy, Sound
<1>2. archiveQueue \in QueueOf(Fields)
    BY HasQueue DEF IInv, ClientShape
<1>3. archiveQueue # NoQueue
    BY <1>2, NoQueueIsNone
<1>4. ~archiveQueue.interrupted
    BY <1>3 DEF IInv, NothingMissing, NoError
<1>5. archiveQueue.elems \in Seq(Fields)
    BY <1>2, QueueTypes
<1>6. hand \in Seq(Fields) /\ toServer \in Seq(Message)
    BY TypeParts DEF IInv, ThreadsType
<1> QED
    BY <1>1, <1>2, <1>4, <1>5, <1>6

(* Nothing is missing while the archive thread sends. *)
LEMMA NextOpenIsSending ==
    ASSUME CapAssumption, IInv, Healthy, Healthy', Next
    PROVE  OpenIsSending'
<1>1. CASE StartArchive
    BY <1>1 DEF IInv, ClientShape, OpenIsSending, StartArchive, threads
<1>2. CASE ArchiveStarted
  <2>1. /\ loop = "read" /\ ~queue.interrupted /\ queue.elems = << >>
        /\ toServer = << >> /\ Len(archived) = calls - 1 /\ hand = << >> /\ calls # 0
    BY <1>2 DEF IInv, NothingMissing, AskedIsStarting, Starting, ClientShape, ArchiveStarted
  <2>2. calls - 1 \in 0..MaxFields
    BY <2>1, ArchivedLength DEF IInv
  <2>3. Carried(calls - 1)
    BY <2>1, <2>2, FollowsNothing, PiecesOf DEF Carried
  <2>4. archiveQueue'.elems = << >>
    BY <1>2, NewQueueType DEF ArchiveStarted
  <2>5. Run(<< >>, calls - 1) /\ Run(<< >>, calls - 1 + Len(<< >>))
        /\ calls - 1 + Len(<< >>) + Len(<< >>) = calls - 1
    BY <2>2 DEF Run
  <2>6. UNCHANGED <<toServer, loop, hand, calls, queue, archived>> /\ call' = "enqueue"
    BY <1>2 DEF ArchiveStarted, server
  <2>7. \E c \in 0..MaxFields :
           /\ Carried(c)'
           /\ Run(hand', c) /\ Run(archiveQueue'.elems, c + Len(hand'))
           /\ c + Len(hand') + Len(archiveQueue'.elems) = calls' - 1
    BY <2>1, <2>2, <2>3, <2>4, <2>5, <2>6 DEF Carried
  <2> QED
    BY <2>1, <2>4, <2>6, <2>7 DEF OpenIsSending, Sending, NoMarker
<1>3. CASE Archive
  <2> SUFFICES ASSUME sender \in {"pop", "send", "marker"} PROVE Sending'
    BY <1>3 DEF OpenIsSending, Archive, threads
  <2>1. UNCHANGED <<toServer, loop, hand, queue, archived, archiveQueue, sender>>
        /\ call = "idle" /\ call' = "enqueue" /\ calls' - 1 = calls
    BY <1>3, TypeParts DEF IInv, CallType, Archive, threads, server
  <2> QED
    BY <1>3, <2>1 DEF IInv, NothingMissing, OpenIsSending, Sending, NoMarker, Carried
<1>4. CASE Enqueue
  <2> SUFFICES ASSUME sender \in {"pop", "send", "marker"} PROVE Sending'
    BY <1>4 DEF OpenIsSending, Enqueue, threads
  <2>1. UNCHANGED <<toServer, loop, hand, queue, archived, sender, calls>> /\ call = "enqueue" /\ call' = "idle"
    BY <1>4 DEF Enqueue, threads, server
  <2>2. calls \in Fields /\ sender # "marker"
    BY <1>4, TypeParts DEF IInv, CallType, ClientShape, Enqueue, Fields
  <2>3. archiveQueue'.elems = Append(archiveQueue.elems, calls)
    BY <1>4, <2>2, SendingRow, EmplaceTypes, ZenonT(60) DEF Enqueue
  <2>4. CASE ~queue.interrupted
    <3>1. PICK c \in 0..MaxFields :
              /\ Carried(c)
              /\ Run(hand, c) /\ Run(archiveQueue.elems, c + Len(hand))
              /\ c + Len(hand) + Len(archiveQueue.elems) = calls - 1
        BY <2>1, <2>4, SendingRow, SendingCarries
    <3> DEFINE es == archiveQueue.elems
               fs == Append(es, calls)
    <3>2. es \in Seq(Fields) /\ hand \in Seq(Fields)
        BY SendingRow
    <3>3. Len(fs) = Len(es) + 1 /\ fs[Len(es) + 1] = calls /\ \A j \in 1..Len(es) : fs[j] = es[j]
        BY <2>2, <3>2
    <3>4. Run(es, c + Len(hand)) /\ Len(es) \in Nat /\ Len(hand) \in Nat /\ c \in Nat /\ calls \in Nat
          /\ c + Len(hand) + Len(es) = calls - 1
      <4>1. Len(es) \in Nat /\ Len(hand) \in Nat /\ c \in Nat
        BY <3>2
      <4>2. calls \in Nat
        BY <2>2 DEF Fields
      <4> QED
        BY <3>1, <4>1, <4>2
    <3> HIDE DEF es, fs
    <3>5. Run(fs, c + Len(hand)) /\ c + Len(hand) + Len(fs) = calls
        BY <3>3, <3>4 DEF Run
    <3>6. Carried(c)'
        BY <2>1, <3>1 DEF Carried
    <3>7. archiveQueue'.elems = fs
        BY <2>3 DEF fs, es
    <3> QED
        BY <2>1, <2>2, <3>1, <3>5, <3>6, <3>7, SendingRow DEF Sending, NoMarker
  <2>5. CASE queue.interrupted
    BY <2>1, <2>2, <2>5, SendingRow DEF Sending, NoMarker
  <2> QED
    BY <2>4, <2>5
<1>5. CASE EnqueueThrows
    BY <1>5, SendingRow DEF OpenIsSending, EnqueueThrows, threads
<1>6. CASE Flush
  <2> SUFFICES ASSUME sender \in {"pop", "send", "marker"} PROVE Sending'
    BY <1>6 DEF OpenIsSending, Flush, threads
  <2>1. UNCHANGED <<toServer, loop, hand, queue, archived, sender, calls>> /\ call = "idle" /\ call' = "join"
    BY <1>6 DEF Flush, threads, server
  <2>2. archiveQueue'.elems = archiveQueue.elems
    BY <1>6, SendingRow, CloseTypes DEF Flush
  <2> QED
    BY <2>1, <2>2 DEF IInv, NothingMissing, OpenIsSending, Sending, NoMarker, Carried
<1>7. CASE Joined
    BY <1>7 DEF IInv, ClientShape, OpenIsSending, Joined, threads
<1>8. CASE JoinThrows
    BY <1>8 DEF IInv, ClientShape, OpenIsSending, JoinThrows, threads
<1>9. CASE FlushReturns
    BY <1>9 DEF IInv, ClientShape, OpenIsSending, FlushReturns, threads
<1>10. CASE RequestThrows
    BY <1>10 DEF IInv, ClientShape, OpenIsSending, RequestThrows, threads
<1>11. CASE Disconnect
    BY <1>11 DEF IInv, ClientShape, OpenIsSending, Disconnect, threads
<1>12. CASE Disconnected
    BY <1>12 DEF Healthy, Disconnected
<1>13. CASE ClientDies
    BY <1>13 DEF Healthy, ClientDies
<1>14. CASE SenderPop
  <2>1. UNCHANGED <<toServer, loop, queue, archived, call, calls>> /\ sender = "pop" /\ sender' = "send"
        /\ hand = << >>
    BY <1>14 DEF IInv, ClientShape, SenderPop, server
  <2>2. CASE ~queue.interrupted
    <3>1. PICK c \in 0..MaxFields :
              /\ Carried(c)
              /\ Run(hand, c) /\ Run(archiveQueue.elems, c + Len(hand))
              /\ c + Len(hand) + Len(archiveQueue.elems) = IF call = "enqueue" THEN calls - 1 ELSE calls
        BY <2>1, <2>2, SendingRow, SendingCarries
    <3> DEFINE es == archiveQueue.elems
               fs == archiveQueue'.elems
    <3>2. PICK n \in 0..Len(es) :
              /\ hand' \in Seq(Fields) /\ Len(hand') = n
              /\ \A j \in 1..n : hand'[j] = es[j]
              /\ Len(fs) = Len(es) - n
              /\ \A j \in 1..Len(es) - n : fs[j] = es[n + j]
        BY <1>14, SenderPops DEF IInv
    <3>3. Run(es, c) /\ Len(es) \in Nat /\ c \in Nat /\ Len(hand) = 0 /\ c + Len(hand) = c
      <4>1. Len(hand) = 0 /\ c + Len(hand) = c
        BY <2>1
      <4>2. Len(es) \in Nat
        BY SendingRow
      <4> QED
        BY <3>1, <4>1, <4>2
    <3> HIDE DEF es, fs
    <3>4. c + Len(hand') + Len(fs) = c + Len(es)
        BY <3>2, <3>3
    <3>5. Run(hand', c)
        BY <3>2, <3>3 DEF Run
    <3>6. Run(fs, c + Len(hand'))
      <4> SUFFICES ASSUME NEW j \in 1..Len(fs) PROVE fs[j] = c + Len(hand') + j
        BY DEF Run
      <4>1. j \in 1..Len(es) - n /\ n + j \in 1..Len(es)
        BY <3>2, <3>3
      <4>2. fs[j] = es[n + j] /\ es[n + j] = c + (n + j)
        BY <3>2, <3>3, <4>1 DEF Run
      <4> QED
        BY <3>2, <3>3, <4>1, <4>2
    <3>7. Carried(c)'
        BY <2>1, <3>1 DEF Carried
    <3>8. c + Len(hand') + Len(fs) = IF call' = "enqueue" THEN calls' - 1 ELSE calls'
        BY <2>1, <3>1, <3>3, <3>4 DEF es
    <3> QED
        BY <2>1, <3>1, <3>5, <3>6, <3>7, <3>8, SendingRow DEF OpenIsSending, Sending, NoMarker, fs
  <2>3. CASE queue.interrupted
    BY <2>1, <2>3, SendingRow DEF OpenIsSending, Sending, NoMarker
  <2> QED
    BY <2>2, <2>3
<1>15. CASE SenderSend
  <2>1. UNCHANGED <<loop, queue, archived, call, calls, archiveQueue>> /\ sender = "send" /\ sender' = "pop"
        /\ hand' = << >>
    BY <1>15 DEF SenderSend, client, server
  <2>2. PICK m \in Message : m = Blob(hand) /\ m.fields = hand /\ m # FlushMarker
    BY MessageTypes DEF IInv
  <2>3. toServer' = Append(toServer, m)
    BY <1>15, <2>1, <2>2, SendingRow DEF SenderSend, DataWrite
  <2>4. NoMarker(Len(toServer))'
    BY <2>1, <2>2, <2>3, SendingRow DEF NoMarker
  <2>5. CASE ~queue.interrupted
    <3>1. PICK c \in 0..MaxFields :
              /\ Carried(c)
              /\ Run(hand, c) /\ Run(archiveQueue.elems, c + Len(hand))
              /\ c + Len(hand) + Len(archiveQueue.elems) = IF call = "enqueue" THEN calls - 1 ELSE calls
        BY <2>1, <2>5, SendingRow, SendingCarries
    <3>2. Carried(c + Len(m.fields))' /\ c + Len(m.fields) \in 0..MaxFields
        BY <2>1, <2>2, <2>3, <3>1, SendCarries
    <3>3. PICK d \in 0..MaxFields : d = c + Len(m.fields) /\ Carried(d)'
        BY <3>2
    <3>4. d = c + Len(hand) /\ d + Len(hand') = d /\ Run(hand', d)
        BY <2>1, <2>2, <3>3 DEF Run
    <3> QED
        BY <2>1, <2>4, <3>1, <3>3, <3>4, SendingRow DEF OpenIsSending, Sending
  <2>6. CASE queue.interrupted
    BY <2>1, <2>4, <2>6, SendingRow DEF OpenIsSending, Sending
  <2> QED
    BY <2>5, <2>6
<1>16. CASE SenderEnd
  <2>1. UNCHANGED <<loop, queue, archived, call, calls, archiveQueue, toServer, hand>>
        /\ sender = "pop" /\ archiveQueue.elems = << >>
    BY <1>16 DEF SenderEnd, AtEnd, client, server
  <2> QED
    BY <1>16, <2>1 DEF IInv, NothingMissing, OpenIsSending, Sending, NoMarker, Carried
<1>17. CASE SenderMarker
    BY <1>17 DEF OpenIsSending, SenderMarker
<1>18. CASE SenderResetID
    BY <1>18 DEF OpenIsSending, SenderResetID
<1>19. CASE SenderResetQueue
    BY <1>19 DEF OpenIsSending, SenderResetQueue
<1>20. CASE SenderThrows
    BY <1>20 DEF OpenIsSending, SenderThrows
<1>21. CASE ListenerInterrupt
    BY <1>21 DEF IInv, NothingMissing, NoError, ListenerInterrupt
<1>22. CASE ListenerFails
    BY <1>22 DEF IInv, NothingMissing, NoError, ListenerFails
<1>23. CASE HandleArchive
  <2>1. sender = "none"
    BY <1>23 DEF IInv, ClientShape, Healthy, HandleArchive, Idle, Request
  <2> QED
    BY <1>23, <2>1 DEF OpenIsSending, HandleArchive, threads
<1>24. CASE ServerDies
    BY <1>24 DEF Healthy, Sound, ServerDies
<1>25. CASE LoopRead
  <2> SUFFICES ASSUME sender \in {"pop", "send", "marker"} PROVE Sending'
    BY <1>25 DEF OpenIsSending, LoopRead, threads
  <2>1. UNCHANGED <<hand, archived, sender, calls, call, archiveQueue>>
        /\ toServer # << >> /\ toServer' = Tail(toServer) /\ loop' # "throw"
    BY <1>25 DEF LoopRead, client, threads, Healthy, Sound
  <2>2. Head(toServer) # FlushMarker
    BY <2>1, SendingRow DEF NoMarker
  <2>3. NoMarker(Len(toServer))'
    BY <2>1, SendingRow DEF NoMarker
  <2>4. loop' = "read" /\ ~queue.interrupted
    BY <1>25, <2>1, <2>2, SendingRow DEF LoopRead, CanEmplace
  <2>5. PICK c \in 0..MaxFields :
            /\ Carried(c)
            /\ Run(hand, c) /\ Run(archiveQueue.elems, c + Len(hand))
            /\ c + Len(hand) + Len(archiveQueue.elems) = IF call = "enqueue" THEN calls - 1 ELSE calls
    BY <2>4, SendingRow, SendingCarries
  <2>6. Carried(c)'
    BY <1>25, <2>1, <2>5, ReadCarries
  <2> QED
    BY <2>1, <2>3, <2>4, <2>5, <2>6, SendingRow DEF Sending
<1>26. CASE LoopJoin
    BY <1>26, SendingRow DEF OpenIsSending, LoopJoin, threads
<1>27. CASE LoopDisconnected
    BY <1>27 DEF Healthy, LoopDisconnected
<1>28. CASE LoopThrows
    BY <1>28 DEF Healthy, Sound, LoopThrows
<1>29. CASE LoopUnwound
    BY <1>29 DEF Healthy, Sound, LoopUnwound
<1>30. CASE WorkerArchive
  <2> SUFFICES ASSUME sender \in {"pop", "send", "marker"} PROVE Sending'
    BY <1>30 DEF OpenIsSending, WorkerArchive, threads
  <2>1. UNCHANGED <<hand, sender, calls, call, archiveQueue, toServer, loop>>
    BY <1>30, WorkerArchives DEF IInv, WorkerArchive, client, threads
  <2>2. ~queue.interrupted
    BY <1>30, SendingRow DEF IInv, ServerShape, WorkerArchive
  <2>3. PICK c \in 0..MaxFields :
            /\ Carried(c)
            /\ Run(hand, c) /\ Run(archiveQueue.elems, c + Len(hand))
            /\ c + Len(hand) + Len(archiveQueue.elems) = IF call = "enqueue" THEN calls - 1 ELSE calls
    BY <2>2, SendingRow, SendingCarries
  <2>4. queue'.interrupted \/ Carried(c)'
    BY <1>30, <2>1, <2>3, WorkerFollows DEF IInv, Carried
  <2> QED
    BY <2>1, <2>3, <2>4, SendingRow DEF Sending, NoMarker
<1>31. CASE ListenerRead \/ ListenerClosed \/ Misaligned \/ ControlClosed \/ HandleExit
         \/ HandlerEnds \/ HandleFlush \/ WorkerEnds \/ Terminated
  <2>1. UNCHANGED <<loop, toServer, sender, archiveQueue, queue, archived, hand, call, calls>>
    BY <1>31 DEF ListenerRead, ListenerClosed, Misaligned, ControlClosed, HandleExit, HandlerEnds,
       HandleFlush, WorkerEnds, Terminated, Destruct, Replies, client, threads, server, history,
       vars
  <2> QED
    BY <2>1 DEF OpenIsSending, IInv, NothingMissing, Sending, NoMarker, Carried
<1> QED
    BY <1>1, <1>2, <1>3, <1>4, <1>5, <1>6, <1>7, <1>8, <1>9, <1>10, <1>11, <1>12, <1>13, <1>14,
       <1>15, <1>16, <1>17, <1>18, <1>19, <1>20, <1>21, <1>22, <1>23, <1>24, <1>25, <1>26, <1>27,
       <1>28, <1>29, <1>30, <1>31 DEF Next, Caller, Sender, Listener, Control, Loop, Worker

Ended ==
    \/ sender \in {"reset", "resetQueue"} \/ archiveFuture = "done"
    \/ call = "awaitFlush" /\ reply = "none"

(* When all has been sent, neither the archive thread nor a reply stands in the way. *)
LEMMA EndedShape ==
    ASSUME CapAssumption, IInv, Healthy, Ended
    PROVE  /\ Sent /\ sender \notin {"pop", "send", "marker"}
           /\ call \in {"join", "awaitFlush"} /\ request.type # "Archive" /\ request.type # "Exit"
           /\ call = "join" => request = Idle
BY DEF IInv, NothingMissing, EndedHasSent, Ended, ClientShape, Idle, Request

(* Nothing is missing when the archive thread has ended. *)
LEMMA NextEndedHasSent ==
    ASSUME CapAssumption, IInv, Healthy, Healthy', Next
    PROVE  EndedHasSent'
<1>1. CASE StartArchive
  <2>1. ~Ended'
    BY <1>1 DEF IInv, ClientShape, Ended, StartArchive, threads
  <2> QED
    BY <2>1 DEF EndedHasSent, Ended
<1>2. CASE ArchiveStarted
  <2>1. ~Ended'
    BY <1>2 DEF IInv, ClientShape, Ended, ArchiveStarted
  <2> QED
    BY <2>1 DEF EndedHasSent, Ended
<1>3. CASE Archive
  <2>1. ~Ended'
    BY <1>3 DEF IInv, ClientShape, Ended, Archive, threads
  <2> QED
    BY <2>1 DEF EndedHasSent, Ended
<1>4. CASE Enqueue
  <2>1. ~Ended'
    BY <1>4 DEF IInv, ClientShape, Ended, Enqueue, threads
  <2> QED
    BY <2>1 DEF EndedHasSent, Ended
<1>5. CASE EnqueueThrows
  <2>1. ~Ended'
    BY <1>5 DEF IInv, ClientShape, Ended, EnqueueThrows, threads
  <2> QED
    BY <2>1 DEF EndedHasSent, Ended
<1>6. CASE Flush
  <2>1. ~Ended'
    BY <1>6 DEF IInv, ClientShape, Ended, Flush, threads
  <2> QED
    BY <2>1 DEF EndedHasSent, Ended
<1>7. CASE Joined
  <2> SUFFICES ASSUME Ended' PROVE Sent'
    BY DEF EndedHasSent, Ended
  <2>1. Ended /\ UNCHANGED <<loop, toServer, queue, archived, future, calls>>
    BY <1>7 DEF IInv, ClientShape, Ended, Joined, threads, server
  <2> QED
    BY <2>1, EndedShape DEF Sent, NoMarker, Carried
<1>8. CASE JoinThrows
  <2>1. ~Ended'
    BY <1>8 DEF IInv, ClientShape, Ended, JoinThrows, threads
  <2> QED
    BY <2>1 DEF EndedHasSent, Ended
<1>9. CASE FlushReturns
  <2>1. ~Ended'
    BY <1>9 DEF IInv, ClientShape, Ended, FlushReturns, threads
  <2> QED
    BY <2>1 DEF EndedHasSent, Ended
<1>10. CASE RequestThrows
  <2>1. ~Ended'
    BY <1>10 DEF IInv, ClientShape, Ended, RequestThrows, threads
  <2> QED
    BY <2>1 DEF EndedHasSent, Ended
<1>11. CASE Disconnect
  <2>1. ~Ended'
    BY <1>11 DEF IInv, ClientShape, Ended, Disconnect, threads
  <2> QED
    BY <2>1 DEF EndedHasSent, Ended
<1>12. CASE Disconnected
  <2>1. ~Ended'
    BY <1>12 DEF IInv, ClientShape, Ended, Disconnected, threads
  <2> QED
    BY <2>1 DEF EndedHasSent, Ended
<1>13. CASE ClientDies
    BY <1>13 DEF Healthy, ClientDies
<1>14. CASE SenderPop
  <2>1. ~Ended'
    BY <1>14 DEF IInv, ClientShape, Ended, SenderPop
  <2> QED
    BY <2>1 DEF EndedHasSent, Ended
<1>15. CASE SenderSend
  <2>1. ~Ended'
    BY <1>15 DEF IInv, ClientShape, Ended, SenderSend, client
  <2> QED
    BY <2>1 DEF EndedHasSent, Ended
<1>16. CASE SenderEnd
  <2>1. ~Ended'
    BY <1>16 DEF IInv, ClientShape, Ended, SenderEnd, client
  <2> QED
    BY <2>1 DEF EndedHasSent, Ended
<1>17. CASE SenderMarker
  <2>1. UNCHANGED <<loop, queue, archived, call, calls, archiveQueue>> /\ sender = "marker"
        /\ hand = << >> /\ call = "join"
    BY <1>17 DEF IInv, ClientShape, SenderMarker, client, server
  <2>2. toServer' = Append(toServer, FlushMarker) /\ loop = "read" /\ NoMarker(Len(toServer))
        /\ toServer \in Seq(Message) /\ archiveQueue.elems = << >>
    BY <1>17, <2>1, SendingRow DEF SenderMarker, DataWrite
  <2>3. toServer' # << >> /\ toServer'[Len(toServer')] = FlushMarker
        /\ Len(toServer') - 1 = Len(toServer) /\ \A i \in 1..Len(toServer) : toServer'[i] = toServer[i]
    BY <2>2, MessageTypes
  <2>4. NoMarker(Len(toServer) - 1)'
    BY <2>2, <2>3 DEF NoMarker
  <2>5. queue.interrupted \/ Carried(calls)'
    <3> SUFFICES ASSUME ~queue.interrupted PROVE Carried(calls)'
        OBVIOUS
    <3>1. PICK c \in 0..MaxFields :
              /\ Carried(c)
              /\ c + Len(hand) + Len(archiveQueue.elems) = IF call = "enqueue" THEN calls - 1 ELSE calls
        BY <2>1, <2>2, SendingCarries
    <3>2. c = calls
        BY <2>1, <2>2, <3>1
    <3>3. FlushMarker.fields = << >> /\ Run(<< >>, c) /\ c + Len(<< >>) = c
        BY DEF FlushMarker, Run
    <3>4. Carried(c + Len(FlushMarker.fields))'
        BY <2>1, <2>2, <3>1, <3>3, MessageTypes, SendCarries
    <3> QED
        BY <2>1, <3>2, <3>3, <3>4
  <2> QED
    BY <2>1, <2>2, <2>3, <2>4, <2>5 DEF EndedHasSent, Sent
<1>18. CASE SenderResetID
  <2> SUFFICES ASSUME Ended' PROVE Sent'
    BY DEF EndedHasSent, Ended
  <2>1. Ended /\ UNCHANGED <<loop, toServer, queue, archived, future, calls>>
    BY <1>18 DEF IInv, ClientShape, Ended, SenderResetID, server
  <2> QED
    BY <2>1, EndedShape DEF Sent, NoMarker, Carried
<1>19. CASE SenderResetQueue
  <2> SUFFICES ASSUME Ended' PROVE Sent'
    BY DEF EndedHasSent, Ended
  <2>1. Ended /\ UNCHANGED <<loop, toServer, queue, archived, future, calls>>
    BY <1>19 DEF IInv, ClientShape, Ended, SenderResetQueue, server
  <2> QED
    BY <2>1, EndedShape DEF Sent, NoMarker, Carried
<1>20. CASE SenderThrows
  <2>1. ~Ended'
    BY <1>20 DEF IInv, ClientShape, Ended, SenderThrows
  <2> QED
    BY <2>1 DEF EndedHasSent, Ended
<1>21. CASE HandleArchive
  <2>1. ~Ended'
    BY <1>21 DEF IInv, ClientShape, Ended, HandleArchive, client, threads, Idle, Request, Healthy
  <2> QED
    BY <2>1 DEF EndedHasSent, Ended
<1>22. CASE HandleFlush
  <2>1. ~Ended'
    BY <1>22 DEF IInv, ClientShape, Ended, HandleFlush, Replies, client, threads, Idle, Request,
       Healthy
  <2> QED
    BY <2>1 DEF EndedHasSent, Ended
<1>23. CASE ServerDies
    BY <1>23 DEF Healthy, Sound, ServerDies
<1>24. CASE LoopRead
  <2> SUFFICES ASSUME Ended' PROVE Sent'
    BY DEF EndedHasSent, Ended
  <2>1. UNCHANGED <<archived, calls>> /\ toServer # << >> /\ toServer' = Tail(toServer) /\ loop = "read" /\ Ended
        /\ loop' # "throw"
    BY <1>24 DEF LoopRead, client, threads, Ended, Healthy, Sound
  <2>2. /\ toServer \in Seq(Message)
        /\ toServer[Len(toServer)] = FlushMarker /\ NoMarker(Len(toServer) - 1)
        /\ queue.interrupted \/ Carried(calls)
    BY <2>1, EndedShape, MessageTypes DEF IInv, Sent
  <2>3. calls \in 0..MaxFields
    BY TypeParts DEF IInv, CallType
  <2>4. CASE Head(toServer) = FlushMarker
    <3>1. Len(toServer) = 1 /\ toServer' = << >>
      <4>1. Len(toServer) \in Nat \ {0} /\ Head(toServer) = toServer[1]
        BY <2>1, <2>2
      <4>2. ~(Len(toServer) > 1)
        BY <2>2, <2>4, <4>1 DEF NoMarker
      <4> DEFINE n == Len(toServer)
      <4>a. n \in Nat /\ n # 0 /\ ~(n > 1)
        BY <4>1, <4>2
      <4> HIDE DEF n
      <4>b. n = 1
        BY <4>a
      <4>3. Len(toServer) = 1
        BY <4>b DEF n
      <4>4. toServer' \in Seq(Message) /\ Len(toServer') = 0
        BY <2>1, <2>2, <4>3
      <4> QED
        BY <4>3, <4>4
    <3>2. loop' = "join" /\ queue' = [queue EXCEPT !.closed = TRUE]
        BY <1>24, <2>4 DEF LoopRead
    <3>3. queue'.elems = queue.elems /\ queue'.interrupted = queue.interrupted
        BY <3>2, CloseTypes, MessageTypes DEF IInv
    <3>4. CASE Carried(calls)
      <4>1. PICK b \in 0..MaxFields :
                Follows(queue'.elems, Len(archived'), b) /\ Follows(Pieces(toServer'), b, calls)
        BY <1>24, <2>1, <2>3, <3>4, ReadCarries DEF Carried
      <4>2. b = calls
        BY <3>1, <4>1, FollowsNothing, PiecesOf
      <4> QED
        BY <2>1, <3>1, <3>2, <4>1, <4>2 DEF Sent
    <3> QED
        BY <2>2, <3>1, <3>2, <3>3, <3>4 DEF Sent
  <2>5. CASE Head(toServer) # FlushMarker
    <3>1. loop' = "read" /\ ~queue.interrupted
        BY <1>24, <2>1, <2>5 DEF LoopRead, CanEmplace
    <3>2. Carried(calls)'
        BY <1>24, <2>1, <2>2, <2>3, <3>1, ReadCarries
    <3>3. Len(toServer) > 1 /\ Len(toServer') = Len(toServer) - 1
          /\ \A i \in 1..Len(toServer') : toServer'[i] = toServer[i + 1]
        BY <2>1, <2>2, <2>5
    <3>4. toServer' # << >> /\ toServer'[Len(toServer')] = FlushMarker
        BY <2>1, <2>2, <3>3
    <3>5. NoMarker(Len(toServer) - 1)'
        BY <2>1, <2>2, <3>3 DEF NoMarker
    <3> QED
        BY <2>1, <3>1, <3>2, <3>4, <3>5 DEF Sent
  <2> QED
    BY <2>4, <2>5
<1>25. CASE LoopJoin
  <2> SUFFICES ASSUME Ended' PROVE Sent'
    BY DEF EndedHasSent, Ended
  <2>1. UNCHANGED <<archived, calls, toServer, queue>> /\ loop = "join" /\ Ended
    BY <1>25 DEF LoopJoin, client, threads, Ended
  <2>2. toServer = << >> /\ (queue.interrupted \/ Follows(queue.elems, Len(archived), calls))
    BY <2>1, EndedShape DEF Sent
  <2>3. loop' = "none" /\ future' = [future EXCEPT !.state = "done"] /\ worker = "done"
    BY <1>25 DEF LoopJoin, Healthy, Sound
  <2>4. future'.state = "done"
    BY <2>3, TypeParts DEF IInv, HandlerType
  <2>5. queue.elems = << >> /\ ~queue.interrupted
    BY <2>1, <2>3 DEF IInv, ServerShape
  <2>6. Len(archived) = calls
    BY <2>2, <2>5, ArchivedLength, FollowsNothing DEF IInv
  <2> QED
    BY <2>1, <2>2, <2>3, <2>4, <2>6 DEF Sent
<1>26. CASE LoopDisconnected
    BY <1>26 DEF Healthy, LoopDisconnected
<1>27. CASE LoopThrows
    BY <1>27 DEF Healthy, Sound, LoopThrows
<1>28. CASE LoopUnwound
    BY <1>28 DEF Healthy, Sound, LoopUnwound
<1>29. CASE WorkerArchive
  <2> SUFFICES ASSUME Ended' PROVE Sent'
    BY DEF EndedHasSent, Ended
  <2>1. UNCHANGED <<calls, toServer, loop>> /\ Ended
    BY <1>29, SMTT(30) DEF WorkerArchive, client, threads, Ended
  <2>2. calls \in 0..MaxFields /\ loop # "none" /\ ~queue.interrupted /\ worker = "pop"
    BY <1>29, <2>1, TypeParts, EndedShape DEF IInv, CallType, ServerShape, WorkerArchive, Sent
  <2>3. CASE loop = "read"
    <3>1. /\ toServer # << >>
          /\ toServer[Len(toServer)] = FlushMarker /\ NoMarker(Len(toServer) - 1)
          /\ Carried(calls)
        BY <2>1, <2>2, <2>3, EndedShape DEF Sent
    <3>2. queue'.interrupted \/ Carried(calls)'
        BY <1>29, <2>1, <3>1, WorkerFollows DEF IInv, Carried
    <3> QED
        BY <2>1, <2>3, <3>1, <3>2 DEF Sent, NoMarker
  <2>4. CASE loop = "join"
    <3>1. toServer = << >> /\ Follows(queue.elems, Len(archived), calls)
        BY <2>1, <2>2, <2>4, EndedShape DEF Sent
    <3>2. queue'.interrupted \/ Follows(queue'.elems, Len(archived'), calls)
        BY <1>29, <2>2, <3>1, WorkerFollows DEF IInv
    <3> QED
        BY <2>1, <2>4, <3>1, <3>2 DEF Sent
  <2> QED
    BY <2>1, <2>2, <2>3, <2>4, EndedShape, SMTT(30) DEF Sent
<1>30. CASE ListenerRead \/ ListenerInterrupt \/ ListenerClosed \/ ListenerFails \/ Misaligned
         \/ ControlClosed \/ HandleExit \/ HandlerEnds \/ WorkerEnds \/ Terminated
  <2>1. UNCHANGED <<sender, archiveFuture, call, reply, loop, toServer, queue, archived, future, calls>>
    BY <1>30 DEF ListenerRead, ListenerInterrupt, ListenerClosed, ListenerFails, Misaligned,
       ControlClosed, HandleExit, HandlerEnds, WorkerEnds, Terminated, Destruct, client, threads,
       server, history, vars
  <2> QED
    BY <2>1 DEF IInv, NothingMissing, EndedHasSent, Sent, NoMarker, Carried
<1> QED
    BY <1>1, <1>2, <1>3, <1>4, <1>5, <1>6, <1>7, <1>8, <1>9, <1>10, <1>11, <1>12, <1>13, <1>14,
       <1>15, <1>16, <1>17, <1>18, <1>19, <1>20, <1>21, <1>22, <1>23, <1>24, <1>25, <1>26, <1>27,
       <1>28, <1>29, <1>30 DEF Next, Caller, Sender, Listener, Control, Loop, Worker

(* Nothing is missing when flush has been answered. *)
LEMMA NextAnsweredHasArchived ==
    ASSUME CapAssumption, IInv, Healthy, Healthy', Next
    PROVE  AnsweredHasArchived'
<1>1. CASE StartArchive
    BY <1>1 DEF IInv, ClientShape, AnsweredHasArchived, StartArchive, threads, server, Replies,
       Idle, Request
<1>2. CASE ArchiveStarted
    BY <1>2 DEF IInv, ClientShape, AnsweredHasArchived, ArchiveStarted, threads, server, Replies,
       Idle, Request
<1>3. CASE Archive
    BY <1>3 DEF IInv, ClientShape, AnsweredHasArchived, Archive, threads, server, Replies, Idle,
       Request
<1>4. CASE Enqueue
    BY <1>4 DEF IInv, ClientShape, AnsweredHasArchived, Enqueue, threads, server, Replies, Idle,
       Request
<1>5. CASE EnqueueThrows
    BY <1>5 DEF IInv, ClientShape, AnsweredHasArchived, EnqueueThrows, threads, server, Replies,
       Idle, Request
<1>6. CASE Flush
    BY <1>6 DEF IInv, ClientShape, AnsweredHasArchived, Flush, threads, server, Replies, Idle,
       Request
<1>7. CASE Joined
    BY <1>7 DEF IInv, ClientShape, AnsweredHasArchived, Joined, threads, server, Replies, Idle,
       Request
<1>8. CASE JoinThrows
    BY <1>8 DEF IInv, ClientShape, AnsweredHasArchived, JoinThrows, threads, server, Replies,
       Idle, Request
<1>9. CASE FlushReturns
    BY <1>9 DEF IInv, ClientShape, AnsweredHasArchived, FlushReturns, threads, server, Replies,
       Idle, Request
<1>10. CASE RequestThrows
    BY <1>10 DEF IInv, ClientShape, AnsweredHasArchived, RequestThrows, threads, server, Replies,
       Idle, Request
<1>11. CASE Disconnect
    BY <1>11 DEF IInv, ClientShape, AnsweredHasArchived, Disconnect, threads, server, Replies,
       Idle, Request
<1>12. CASE Disconnected
    BY <1>12 DEF IInv, ClientShape, AnsweredHasArchived, Disconnected, threads, server, Replies,
       Idle, Request
<1>13. CASE ClientDies
    BY <1>13 DEF Healthy, ClientDies
<1>14. CASE SenderSend
    BY <1>14 DEF IInv, ClientShape, AnsweredHasArchived, SenderSend, client
<1>15. CASE SenderMarker
    BY <1>15 DEF IInv, ClientShape, AnsweredHasArchived, SenderMarker, client
<1>16. CASE HandleArchive
    BY <1>16 DEF IInv, ClientShape, AnsweredHasArchived, HandleArchive, client, Idle, Request
<1>17. CASE HandleFlush
  <2> SUFFICES ASSUME call = "awaitFlush", reply' = "Received" PROVE AllArchived'
    BY <1>17 DEF AnsweredHasArchived, HandleFlush, client
  <2>1. reply = "none" /\ future.state = "done"
    BY <1>17 DEF IInv, ClientShape, HandleFlush, Replies, Idle, Request
  <2>2. loop = "none"
    BY <2>1, TypeParts DEF IInv, ServerShape, HandlerType
  <2>3. toServer = << >> /\ Len(archived) = calls
    BY <2>1, <2>2, EndedShape DEF Ended, Sent
  <2> QED
    BY <1>17, <2>3 DEF AllArchived, HandleFlush, NoFuture, client
<1>18. CASE ServerDies
    BY <1>18 DEF Healthy, Sound, ServerDies
<1>19. CASE LoopRead
    BY <1>19 DEF IInv, NothingMissing, AnsweredHasArchived, AllArchived, LoopRead, client
<1>20. CASE LoopJoin
    BY <1>20 DEF IInv, NothingMissing, AnsweredHasArchived, AllArchived, ServerShape, LoopJoin,
       client
<1>21. CASE LoopUnwound
    BY <1>21, SMTT(30) DEF IInv, NothingMissing, AnsweredHasArchived, AllArchived, ServerShape, LoopUnwound,
       client
<1>22. CASE WorkerArchive
  <2>1. loop # "none"
    BY <1>22 DEF IInv, ServerShape, WorkerArchive
  <2> QED
    BY <1>22, <2>1 DEF IInv, NothingMissing, AnsweredHasArchived, AllArchived, ServerShape,
       WorkerArchive, client
<1>23. CASE SenderPop \/ SenderEnd \/ SenderResetID \/ SenderResetQueue \/ SenderThrows
         \/ ListenerRead \/ ListenerInterrupt \/ ListenerClosed \/ ListenerFails \/ Misaligned
         \/ ControlClosed \/ HandleExit \/ HandlerEnds \/ LoopDisconnected \/ LoopThrows
         \/ WorkerEnds \/ Terminated
  <2>1. UNCHANGED <<call, reply, future, toServer, archived, calls>>
    BY <1>23 DEF SenderPop, SenderEnd, SenderResetID, SenderResetQueue, SenderThrows,
       ListenerRead, ListenerInterrupt, ListenerClosed, ListenerFails, Misaligned, ControlClosed,
       HandleExit, HandlerEnds, LoopDisconnected, LoopThrows, WorkerEnds, Terminated, Destruct,
       client, threads, server, history, vars
  <2> QED
    BY <2>1 DEF IInv, NothingMissing, AnsweredHasArchived, AllArchived
<1> QED
    BY <1>1, <1>2, <1>3, <1>4, <1>5, <1>6, <1>7, <1>8, <1>9, <1>10, <1>11, <1>12, <1>13, <1>14,
       <1>15, <1>16, <1>17, <1>18, <1>19, <1>20, <1>21, <1>22, <1>23 DEF Next, Caller, Sender,
       Listener, Control, Loop, Worker

(* The server answers flush only when it has flushed. *)
LEMMA NextReplyMeansFlushed ==
    ASSUME CapAssumption, IInv, Next
    PROVE  ReplyMeansFlushed'
<1>1. CASE StartArchive
    BY <1>1 DEF ReplyMeansFlushed, IInv, ClientShape, StartArchive, Request, threads, server,
       history, CapAssumption
<1>2. CASE ArchiveStarted
    BY <1>2 DEF ReplyMeansFlushed, IInv, ClientShape, ArchiveStarted, NewQueue, server, history,
       CapAssumption
<1>3. CASE Archive
    BY <1>3 DEF ReplyMeansFlushed, IInv, ClientShape, Archive, threads, server, history,
       CapAssumption
<1>4. CASE Enqueue
    BY <1>4 DEF ReplyMeansFlushed, IInv, ClientShape, Enqueue, CanEmplace, Emplace, threads,
       server, CapAssumption
<1>5. CASE EnqueueThrows
    BY <1>5 DEF ReplyMeansFlushed, IInv, ClientShape, EnqueueThrows, threads, server, history,
       CapAssumption
<1>6. CASE Flush
    BY <1>6 DEF ReplyMeansFlushed, IInv, ClientShape, Flush, threads, server, history,
       CapAssumption
<1>7. CASE Joined
    BY <1>7 DEF ReplyMeansFlushed, IInv, ClientShape, Joined, Request, threads, server, history,
       CapAssumption
<1>8. CASE JoinThrows
    BY <1>8 DEF ReplyMeansFlushed, IInv, ClientShape, JoinThrows, threads, server, CapAssumption
<1>9. CASE FlushReturns
    BY <1>9 DEF ReplyMeansFlushed, IInv, ClientShape, FlushReturns, threads, server, CapAssumption
<1>10. CASE RequestThrows
    BY <1>10 DEF ReplyMeansFlushed, IInv, ClientShape, RequestThrows, Idle, Request, threads,
       server, CapAssumption
<1>11. CASE Disconnect
    BY <1>11 DEF ReplyMeansFlushed, IInv, ClientShape, Disconnect, Idle, Request, threads, server,
       history, CapAssumption
<1>12. CASE Disconnected
    BY <1>12 DEF ReplyMeansFlushed, IInv, ClientShape, Disconnected, threads, server, history,
       CapAssumption
<1>13. CASE ClientDies
    BY <1>13 DEF ReplyMeansFlushed, IInv, ClientShape, ClientDies, server, history, CapAssumption
<1>14. CASE HandlerEnds
    BY <1>14 DEF IInv, ReplyMeansFlushed, HandlerEnds, client, history
<1>15. CASE HandleArchive
    BY <1>15 DEF IInv, ClientShape, ReplyMeansFlushed, HandleArchive, client, Idle, Request
<1>16. CASE HandleFlush
  <2> SUFFICES ASSUME call = "awaitFlush", reply' = "Received" PROVE accepted \subseteq flushed'
    BY <1>16 DEF ReplyMeansFlushed, HandleFlush, client, history
  <2>1. reply = "none" /\ future.state = "done" /\ flushed' = flushed \cup ToSet(archived)
    BY <1>16 DEF IInv, ClientShape, HandleFlush, Replies, Idle, Request
  <2>2. loop = "none"
    BY <2>1, TypeParts DEF IInv, ServerShape, HandlerType
  <2>3. Len(archived) = calls
    BY <1>16, <2>1, <2>2, EndedShape DEF Ended, Sent, Healthy, Sound, HandleFlush
  <2>4. ASSUME NEW f \in accepted PROVE f \in ToSet(archived)
    <3>1. f \in 1..Len(archived)
        BY <2>3 DEF IInv, ClientShape
    <3>2. archived[f] = f /\ DOMAIN archived = 1..Len(archived)
        BY <3>1, TypeParts DEF IInv, ArchivedIsPrefix, FieldsType
    <3> QED
        BY <3>1, <3>2 DEF ToSet
  <2> QED
    BY <2>1, <2>4
<1>17. CASE SenderPop \/ SenderSend \/ SenderEnd \/ SenderMarker \/ SenderResetID
         \/ SenderResetQueue \/ SenderThrows \/ ListenerRead \/ ListenerInterrupt
         \/ ListenerClosed \/ ListenerFails \/ Misaligned \/ ControlClosed \/ HandleExit
         \/ ServerDies \/ LoopRead \/ LoopJoin \/ LoopDisconnected \/ LoopThrows \/ LoopUnwound
         \/ WorkerArchive \/ WorkerEnds \/ Terminated
  <2>1. UNCHANGED <<call, reply, accepted, flushed>>
    BY <1>17 DEF SenderPop, SenderSend, SenderEnd, SenderMarker, SenderResetID, SenderResetQueue,
       SenderThrows, ListenerRead, ListenerInterrupt, ListenerClosed, ListenerFails, Misaligned,
       ControlClosed, HandleExit, ServerDies, LoopRead, LoopJoin, LoopDisconnected, LoopThrows,
       LoopUnwound, WorkerArchive, WorkerEnds, Terminated, DataWrite, Destruct, client, threads,
       server, history, vars
  <2> QED
    BY <2>1 DEF ReplyMeansFlushed, IInv, ClientShape
<1> QED
    BY <1>1, <1>2, <1>3, <1>4, <1>5, <1>6, <1>7, <1>8, <1>9, <1>10, <1>11, <1>12, <1>13, <1>14,
       <1>15, <1>16, <1>17 DEF Next, Caller, Sender, Listener, Control, Loop, Worker


(***************************************************************************)
(* The invariant, and what it says of the code.                            *)
(***************************************************************************)
LEMMA InitIInv == CapAssumption /\ Init => IInv
<1> SUFFICES ASSUME CapAssumption, Init PROVE IInv
    OBVIOUS
<1>1. TypeOK
    BY InitType
<1>2. ArchivedIsPrefix /\ QueueFollows
    BY DEF Init, ArchivedIsPrefix, QueueFollows
<1>3. ServerShape /\ ClientShape
    BY DEF Init, ServerShape, ClientShape, NoFuture, Idle, Request
<1>4. AskedAfresh
    BY DEF Init, AskedAfresh, Idle, Request
<1>5. NoError /\ IdleHasArchived /\ AskedIsStarting /\ OpenIsSending /\ EndedHasSent /\ AnsweredHasArchived
    BY DEF Init, NoError, IdleHasArchived, AllArchived, NoFuture, AskedIsStarting, OpenIsSending,
       EndedHasSent, AnsweredHasArchived
<1>6. ReplyMeansFlushed /\ acked \subseteq flushed
    BY DEF Init, ReplyMeansFlushed
<1> QED
    BY <1>1, <1>2, <1>3, <1>4, <1>5, <1>6 DEF IInv, NothingMissing

(* Nothing is missing after any step. *)
LEMMA NextNothingMissing == ASSUME CapAssumption, IInv, Next PROVE NothingMissing'
<1> SUFFICES ASSUME Healthy'
             PROVE  /\ NoError' /\ IdleHasArchived' /\ AskedIsStarting'
                    /\ OpenIsSending' /\ EndedHasSent' /\ AnsweredHasArchived'
    BY DEF NothingMissing
<1>1. Healthy
    BY HealthyBefore
<1> QED
    BY <1>1, NextNoError, NextIdleHasArchived, NextAskedIsStarting, NextOpenIsSending,
       NextEndedHasSent, NextAnsweredHasArchived

(* What flush has returned for is flushed. *)
LEMMA NextAcked ==
    ASSUME CapAssumption, IInv, Next
    PROVE  (acked \subseteq flushed)'
<1>1. CASE FlushReturns
    BY <1>1 DEF IInv, ReplyMeansFlushed, FlushReturns, server
<1>2. CASE HandlerEnds
    BY <1>2 DEF IInv, HandlerEnds, history
<1>3. CASE HandleFlush
    BY <1>3 DEF IInv, HandleFlush, history
<1>4. CASE StartArchive \/ ArchiveStarted \/ Archive \/ Enqueue \/ EnqueueThrows \/ Flush
        \/ Joined \/ JoinThrows \/ RequestThrows \/ Disconnect \/ Disconnected \/ ClientDies
        \/ SenderPop \/ SenderSend \/ SenderEnd \/ SenderMarker \/ SenderResetID
        \/ SenderResetQueue \/ SenderThrows \/ ListenerRead \/ ListenerInterrupt \/ ListenerClosed
        \/ ListenerFails \/ Misaligned \/ ControlClosed \/ HandleExit \/ HandleArchive
        \/ ServerDies \/ LoopRead \/ LoopJoin \/ LoopDisconnected \/ LoopThrows \/ LoopUnwound
        \/ WorkerArchive \/ WorkerEnds \/ Terminated
  <2>1. UNCHANGED <<acked, flushed>>
    BY <1>4 DEF StartArchive, ArchiveStarted, Archive, Enqueue, EnqueueThrows, Flush, Joined,
       JoinThrows, RequestThrows, Disconnect, Disconnected, ClientDies, SenderPop, SenderSend,
       SenderEnd, SenderMarker, SenderResetID, SenderResetQueue, SenderThrows, ListenerRead,
       ListenerInterrupt, ListenerClosed, ListenerFails, Misaligned, ControlClosed, HandleExit,
       HandleArchive, ServerDies, LoopRead, LoopJoin, LoopDisconnected, LoopThrows, LoopUnwound,
       WorkerArchive, WorkerEnds, Terminated, DataWrite, Destruct, Replies, NewQueue, client,
       threads, server, history, vars
  <2> QED
    BY <2>1, SMTT(30) DEF IInv
<1> QED
    BY <1>1, <1>2, <1>3, <1>4 DEF Next, Caller, Sender, Listener, Control, Loop, Worker

(* The invariant is inductive. *)
LEMMA NextIInv == ASSUME CapAssumption, IInv, [Next]_vars PROVE IInv'
<1>1. CASE Next
  <2>1. TypeOK'
    BY <1>1, NextType DEF IInv
  <2>2. ArchivedIsPrefix' /\ QueueFollows' /\ ServerShape' /\ ClientShape' /\ AskedAfresh'
    BY <1>1, NextArchivedIsPrefix, NextQueueFollows, NextServerShape, NextClientShape,
       NextAskedAfresh
  <2>3. NothingMissing'
    BY <1>1, NextNothingMissing
  <2>4. ReplyMeansFlushed' /\ (acked \subseteq flushed)'
    BY <1>1, NextReplyMeansFlushed, NextAcked
  <2> QED
    BY <2>1, <2>2, <2>3, <2>4 DEF IInv
<1>2. CASE UNCHANGED vars
  <2>1. UNCHANGED <<client, threads, server, history, request, reply, toServer, toClient>>
    BY <1>2 DEF vars
  <2>2. TypeOK'
    BY <1>2, NextType DEF IInv
  <2>3. ArchivedIsPrefix' /\ QueueFollows'
    BY <2>1 DEF IInv, ArchivedIsPrefix, QueueFollows, Carried, client, threads, server, history
  <2>4. ServerShape' /\ ClientShape' /\ AskedAfresh' /\ ReplyMeansFlushed'
    BY <2>1 DEF IInv, ServerShape, ClientShape, AskedAfresh, Sound, ReplyMeansFlushed, client,
       threads, server, history
  <2>5. Healthy' => Healthy
    BY <2>1 DEF Healthy, Sound, client, server
  <2>6. Healthy' => NoError' /\ IdleHasArchived' /\ AskedIsStarting' /\ AnsweredHasArchived'
    BY <2>1, <2>5 DEF IInv, NothingMissing, NoError, IdleHasArchived, AskedIsStarting, Starting,
       AllArchived, AnsweredHasArchived, client, threads, server
  <2>7. Healthy' => OpenIsSending' /\ EndedHasSent'
    BY <2>1, <2>5 DEF IInv, NothingMissing, OpenIsSending, Sending, EndedHasSent, Sent, NoMarker,
       Carried, client, threads, server
  <2>8. (acked \subseteq flushed)'
    BY <2>1 DEF IInv, server, history
  <2> QED
    BY <2>2, <2>3, <2>4, <2>6, <2>7, <2>8 DEF IInv, NothingMissing
<1> QED
    BY <1>1, <1>2

(* IInv holds of every state the client, the connection and the server reach. *)
LEMMA Invariance == Spec => []IInv
<1>1. Init => IInv
    BY CapAssumption, InitIInv
<1>2. IInv /\ [Next]_vars => IInv'
    BY CapAssumption, NextIInv
<1> QED
    BY <1>1, <1>2, PTL DEF Spec

(* The variables of both sides of the connection have their types. *)
THEOREM RemoteArchiveTypeCorrect == Spec => []TypeOK
<1>1. IInv => TypeOK
    BY DEF IInv
<1> QED
    BY <1>1, Invariance, PTL

(***************************************************************************)
(* When RemoteFDB::flush() has returned the server's FDB has archived and  *)
(* flushed every field of the session, whatever was batched, queued or in  *)
(* flight and whoever died meanwhile (FlushedOnServer).                    *)
(***************************************************************************)
THEOREM FlushedOnServerAlways == Spec => []FlushedOnServer
<1>1. IInv => FlushedOnServer
    BY DEF IInv, FlushedOnServer
<1> QED
    BY <1>1, Invariance, PTL

(***************************************************************************)
(* The worker of RemoteHandler::archiveThreadLoop archives the fields in   *)
(* the order of the calls of archive(), none twice, and nothing after one  *)
(* that it could not archive (ArchivedInOrder).                            *)
(***************************************************************************)
THEOREM ArchivedInOrderAlways == Spec => []ArchivedInOrder
<1>1. IInv => ArchivedInOrder
  <2> SUFFICES ASSUME IInv PROVE ArchivedInOrder
    OBVIOUS
  <2>1. DOMAIN archived = 1..Len(archived) /\ Len(archived) \in Nat /\ archived \in Seq(Fields)
        /\ refused \subseteq Fields
    BY TypeParts DEF IInv, FieldsType
  <2>2. \A i \in 1..Len(archived) : archived[i] = i /\ archived[i] \notin refused
    BY DEF IInv, ArchivedIsPrefix
  <2>3. ASSUME NEW i \in DOMAIN archived, NEW j \in 1..(i - 1) PROVE archived[j] < archived[i]
    BY <2>1, <2>2, <2>3
  <2>4. ASSUME NEW f \in refused, NEW i \in DOMAIN archived PROVE archived[i] < f
    <3>1. f \in Nat /\ f >= 1 /\ archived[i] = i /\ i \in 1..Len(archived)
        BY <2>1, <2>2, <2>4 DEF Fields, CapAssumption
    <3>2. f \notin 1..Len(archived)
        BY <2>2, <2>4
    <3> QED
        BY <2>1, <3>1, <3>2
  <2> QED
    BY <2>3, <2>4 DEF ArchivedInOrder
<1> QED
    BY <1>1, Invariance, PTL

=============================================================================
