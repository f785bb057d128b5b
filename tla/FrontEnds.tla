----------------------------- MODULE FrontEnds ------------------------------
(***************************************************************************)
(* The handle FDB (FDB.cc) and the front ends behind it: a distributor     *)
(* over lanes (DistFDB.cc), a selector by key (SelectFDB.cc), one drawn at *)
(* random (RandomFDB.cc) and the local front end, each lane a handle with  *)
(* a dirty flag of its own.  The stores behind the leaves are those of the *)
(* other modules; here they buffer, publish at a flush, and fail.          *)
(***************************************************************************)
EXTENDS Integers, FiniteSets, SequencesExt

CONSTANTS
    Fdbs,      \* the handles of the configuration
    Root,      \* the one the program holds
    Configs,   \* [Fdbs -> [type, subs, select, flags]]
    Keys,      \* the keys of the fields: keyword -> value
    Requests,  \* [all, values], values: keyword -> set of values
    Streams,   \* [checked, values, msgs]: calls that archive several messages
    Order,     \* [Keys -> order of lanes given by the rendezvous hash]
    Failures,  \* <<leaf, how>>: the ways that the stores may fail
    MaxCalls   \* bound: calls of the program and faults

ASSUME FrontEndsAssumption ==
    /\ Root \in Fdbs /\ MaxCalls \in Nat
    /\ \A n \in Fdbs : ToSet(Configs[n].subs) \subseteq Fdbs \ {Root}

----------------------------------------------------------------------------
VARIABLES
    impl,    \* [Fdbs -> the configuration the handle was built from]
    fdb,     \* [dirty, disabled, buffer, disk, calls, flushes, ok]
    fault,   \* [Fdbs -> how a leaf fails]: none, refuses, late or flush
    acked,   \* history: the entries whose archive returned
    open     \* open, closed, or terminated by a throw of a destructor

vars == <<impl, fdb, fault, acked, open>>

(* FDBFactory::build; a random front end is one of those it may choose. *)
RECURSIVE Build(_)
Build(n) ==
    IF Configs[n].type # "random" THEN {n}
    ELSE UNION {Build(m) : m \in ToSet(Configs[n].subs)}

Conf(n) == Configs[impl[n]]
IsLeaf(n) == Conf(n).type = "local"

(* FDBBase::FDBBase: "list" and "retrieve" default to "visitable", itself  *)
(* TRUE, and "archive" and "wipe" to "writable".                           *)
GetBool(c, name, default) == IF name \in DOMAIN c.flags THEN c.flags[name] ELSE default
Controls(c) ==
    LET visitable == GetBool(c, "visitable", TRUE)
        writable == GetBool(c, "writable", TRUE)
        off(name, default) == IF GetBool(c, name, default) THEN {} ELSE {name}
    IN  off("list", visitable) \cup off("retrieve", visitable)
            \cup off("archive", writable) \cup off("wipe", writable)
Enabled(n, id) == id \notin Controls(Conf(n))

Init ==
    /\ \E drawn \in [{n \in Fdbs : Configs[n].type = "random"} -> Fdbs] :
           /\ \A n \in DOMAIN drawn : drawn[n] \in Build(n)
           /\ impl = drawn @@ [n \in Fdbs |-> n]
    /\ fdb = [dirty |-> [n \in Fdbs |-> FALSE], disabled |-> [n \in Fdbs |-> FALSE],
              buffer |-> [n \in Fdbs |-> <<>>], disk |-> [n \in Fdbs |-> <<>>],
              calls |-> 0, flushes |-> 0, ok |-> TRUE]
    /\ fault = [n \in Fdbs |-> "none"]
    /\ acked = {} /\ open = "open"

Done(s) == [st |-> s, ok |-> TRUE]
Throws(s) == [st |-> s, ok |-> FALSE]

----------------------------------------------------------------------------
(* Archiving. *)

(* SelectFDB::matches of a request; a key is a request with one value each.*)
Matches(values, select, requireMissing) ==
    \A kw \in DOMAIN select :
        IF kw \in DOMAIN values THEN values[kw] \cap select[kw] # {} ELSE ~requireMissing
AsRequest(k) == [kw \in DOMAIN k |-> {k[kw]}]

(* FDB::archive drops the unit of the step; the step it computed with the  *)
(* unit is not used.                                                       *)
KeyInternal(k) == Restrict(k, DOMAIN k \ {"stepunits"})

(* A leaf refuses a field, or throws when it has the field already, and    *)
(* keeps it.                                                               *)
LeafArchive(n, e, s) ==
    LET with == [s EXCEPT !.buffer[n] = Append(@, e @@ [at |-> n, late |-> fault[n] = "late"])]
    IN  IF fault[n] = "refuses" THEN Throws(s)
        ELSE IF fault[n] = "late" THEN Throws(with) ELSE Done(with)

(* DistFDB: an error is only passed over while nothing of the lane is      *)
(* waiting for a flush.                                                    *)
Fatal_Never(lane, s) == FALSE   \* mutant
Fatal(lane, s) == s.dirty[lane]
Usable(lane, s) == Enabled(lane, "archive") /\ ~s.disabled[lane]

RECURSIVE FdbArchive(_, _, _), TryLanes(_, _, _)

TryLanes(lanes, e, s) ==
    IF lanes = <<>> THEN Throws(s)
    ELSE IF ~Usable(Head(lanes), s) THEN TryLanes(Tail(lanes), e, s)
    ELSE LET r == FdbArchive(Head(lanes), e, s)
         IN  IF r.ok \/ Fatal(Head(lanes), r.st) THEN r
             ELSE TryLanes(Tail(lanes), e, [r.st EXCEPT !.disabled[Head(lanes)] = TRUE])

(* The first of the selected front ends takes the field. *)
SelectArchive(n, e, s) ==
    LET i == SelectInSeq(Conf(n).select, LAMBDA m : Matches(AsRequest(e.key), m, TRUE))
    IN  IF i = 0 THEN Throws(s) ELSE FdbArchive(Conf(n).subs[i], e, s)

LanesInOrder(n, k) == [i \in DOMAIN Order[k] |-> Conf(n).subs[Order[k][i]]]

(* FDB::archive. *)
FdbArchive(n, e, s) ==
    LET r == IF Conf(n).type = "dist" THEN TryLanes(LanesInOrder(n, e.key), e, s)
             ELSE IF Conf(n).type = "select" THEN SelectArchive(n, e, s)
             ELSE LeafArchive(n, e, s)
    IN  IF r.ok THEN [r EXCEPT !.st.dirty[n] = TRUE] ELSE r

----------------------------------------------------------------------------
(* Flushing. *)

RECURSIVE FdbFlush(_, _)

(* A leaf publishes its buffer, of a key archived twice the last. *)
LeafFlush(n, s) ==
    LET b == s.buffer[n]
        last == SelectSeq([i \in DOMAIN b |-> [e |-> b[i], i |-> i]],
                    LAMBDA x : \A j \in DOMAIN b : j > x.i => b[j].key # x.e.key)
        new == [i \in DOMAIN last |-> last[i].e @@ [time |-> s.flushes]]
    IN  IF fault[n] = "flush" /\ b # <<>> THEN Throws(s)
        ELSE Done([s EXCEPT !.disk[n] = @ \o new, !.buffer[n] = <<>>])

(* SelectFDB::flush stops at the first that throws. *)
SelectFlush(n, s) ==
    FoldLeft(LAMBDA r, m : IF r.ok THEN FdbFlush(m, r.st) ELSE r, Done(s), Conf(n).subs)

(* DistFDB::flush waits for the lanes and looks at none of their results.  *)
DistFlush(n, s) == FoldLeft(LAMBDA r, m : Done(FdbFlush(m, r.st).st), Done(s), Conf(n).subs)

Flushed_Always(n, r) == [r EXCEPT !.st.dirty[n] = FALSE]   \* mutant
Flushed(n, r) == IF r.ok THEN [r EXCEPT !.st.dirty[n] = FALSE] ELSE r

FdbFlush(n, s) ==
    IF ~s.dirty[n] THEN Done(s)
    ELSE Flushed(n, IF Conf(n).type = "dist" THEN DistFlush(n, s)
                    ELSE IF Conf(n).type = "select" THEN SelectFlush(n, s)
                    ELSE LeafFlush(n, s))

----------------------------------------------------------------------------
(* Reading. *)

Answers(e, values) == \A kw \in DOMAIN values \cap DOMAIN e.key : e.key[kw] \in values[kw]

(* Of a leaf, list() gives the newest index first and inspect() only the   *)
(* newest entry of a key.                                                  *)
FirstOfEach(seq) ==
    LET firsts == {i \in DOMAIN seq : \A j \in 1..(i - 1) : seq[j].key # seq[i].key}
    IN  [i \in 1..Cardinality(firsts) |->
            seq[CHOOSE j \in firsts : Cardinality({h \in firsts : h <= j}) = i]]

LeafQuery(n, values, inspecting) ==
    LET found == SelectSeq(Reverse(fdb.disk[n]), LAMBDA e : Answers(e, values))
    IN  IF inspecting THEN FirstOfEach(found) ELSE found

(* queryInternal: every lane that may be read, disabled for archiving or   *)
(* not; of a selector those that match.                                    *)
Asked(n, rq, inspecting) ==
    {i \in DOMAIN Conf(n).subs :
        IF Conf(n).type = "dist" THEN Enabled(Conf(n).subs[i], "retrieve")
        ELSE Matches(rq.values, Conf(n).select[i], inspecting) \/ (rq.all /\ ~inspecting)}

(* The iterators one after the other (APIAggregateIterator). *)
RECURSIVE Query(_, _, _)
Query(n, rq, inspecting) ==
    IF IsLeaf(n) THEN LeafQuery(n, rq.values, inspecting)
    ELSE FlattenSeq([i \in DOMAIN Conf(n).subs |->
            IF i \in Asked(n, rq, inspecting) THEN Query(Conf(n).subs[i], rq, inspecting) ELSE <<>>])

(* ListIterator with deduplication: the first of a key. *)
ListOf(rq, deduplicate) ==
    IF deduplicate THEN FirstOfEach(Query(Root, rq, FALSE)) ELSE Query(Root, rq, FALSE)

(* FDB::read of an iterator, with FDB_DEDUPLICATE_FIELDS: the entry with   *)
(* the latest time, of equal times the first.                              *)
Deduplicated(seq) ==
    SelectSeq(seq, LAMBDA e : \A f \in ToSet(seq) : f.key = e.key => f.time <= e.time)

(* HandleGatherer: a field joins a handle of the same store, the last one  *)
(* or, when the order does not matter, any; sorted parts are read in order.*)
Gather(seq, sorted) ==
    FoldLeft(LAMBDA hs, e :
        LET i == IF sorted THEN SelectInSeq(hs, LAMBDA h : h[1].at = e.at)
                 ELSE IF hs # <<>> /\ Last(hs)[1].at = e.at THEN Len(hs) ELSE 0
        IN  IF i = 0 THEN Append(hs, <<e>>) ELSE [hs EXCEPT ![i] = Append(@, e)],
        <<>>, seq)

----------------------------------------------------------------------------
(* The program. *)

Called(r) == [r.st EXCEPT !.calls = @ + 1, !.ok = r.ok]
Ready == open = "open" /\ fdb.calls < MaxCalls

Entry(k, s) == [key |-> KeyInternal(k), ver |-> s.calls + 1]

Archive(k) ==
    /\ Ready
    /\ LET e == Entry(k, fdb)
           r == FdbArchive(Root, e, fdb)
       IN  /\ fdb' = Called(r)
           /\ acked' = IF r.ok THEN acked \cup {e} ELSE acked
    /\ UNCHANGED <<impl, fault, open>>

(* Several messages: the first that the request does not ask for, or asked *)
(* for and had, is refused, with those before it archived.                 *)
Vacant(values) == {k \in Keys : Answers([key |-> k], values)}

ArchiveStream(c) ==
    /\ Ready
    /\ LET each(r, k) ==
               LET e == Entry(k, r.st)
                   a == FdbArchive(Root, e, r.st)
               IN  IF ~r.ok THEN r
                   ELSE IF c.checked /\ k \notin r.vacant THEN [r EXCEPT !.ok = FALSE]
                   ELSE [st |-> a.st, ok |-> a.ok, vacant |-> r.vacant \ {k},
                         acked |-> IF a.ok THEN r.acked \cup {e} ELSE r.acked]
           all == FoldLeft(each, [st |-> fdb, ok |-> TRUE, vacant |-> Vacant(c.values),
                                  acked |-> acked], c.msgs)
           missing == c.checked /\ all.vacant # {}
       IN  fdb' = Called([st |-> all.st, ok |-> all.ok /\ ~missing]) /\ acked' = all.acked
    /\ UNCHANGED <<impl, fault, open>>

Flush ==
    /\ Ready
    /\ fdb' = Called(FdbFlush(Root, [fdb EXCEPT !.flushes = @ + 1]))
    /\ UNCHANGED <<impl, fault, acked, open>>

(* ~FDB flushes, and so does, after it, that of every handle inside; the   *)
(* archiver of a leaf flushes as it goes, whatever its handle knows        *)
(* (Archiver.cc:34).  What one of them throws ends the process.            *)
RECURSIVE DepthFirst(_)
DepthFirst(n) ==
    <<n>> \o (IF IsLeaf(n) THEN <<>>
              ELSE FlattenSeq([i \in DOMAIN Conf(n).subs |-> DepthFirst(Conf(n).subs[i])]))

Destroyed_Outer(n) == <<n>>   \* mutant
Destroyed(n) == DepthFirst(n)

DestroyOne(n, s) ==
    LET r == FdbFlush(n, s)
    IN  IF r.ok /\ IsLeaf(n) THEN LeafFlush(n, r.st) ELSE r

Destroy ==
    /\ LET r == FoldLeft(LAMBDA q, n : IF q.ok THEN DestroyOne(n, q.st) ELSE q,
                         Done([fdb EXCEPT !.flushes = @ + 1]), Destroyed(Root))
       IN  /\ fdb' = Called(r)
           /\ open' = IF r.ok THEN "closed" ELSE "terminated"
    /\ UNCHANGED <<impl, fault, acked>>

Close == Ready /\ Destroy

(* The store behind a leaf begins or ceases to fail. *)
SetFault(n, f) ==
    /\ Ready /\ n \in ToSet(DepthFirst(Root)) /\ IsLeaf(n)
    /\ fault[n] # f /\ (f = "none" \/ <<n, f>> \in Failures)
    /\ fault' = [fault EXCEPT ![n] = f]
    /\ fdb' = Called(Done(fdb))
    /\ UNCHANGED <<impl, acked, open>>

Next ==
    \/ \E k \in Keys : Archive(k)
    \/ \E c \in Streams : ArchiveStream(c)
    \/ Flush
    \/ Close
    \/ \E n \in Fdbs, f \in {"none", "refuses", "late", "flush"} : SetFault(n, f)

Spec == Init /\ [][Next]_vars
----------------------------------------------------------------------------
Leaves == {n \in Fdbs : IsLeaf(n)}   \* those that are no handle hold nothing
Holder(n) == CHOOSE m \in Fdbs : n \in ToSet(Conf(m).subs)

(* An entry, or one that was archived after it with the same key.          *)
Same(x, e) == x.key = e.key /\ x.ver >= e.ver
Holds(seq, e) == \E x \in ToSet(seq) : Same(x, e)
Stored == UNION {ToSet(fdb.disk[l]) : l \in Leaves}
Durable == LET stored == Stored IN {e \in acked : \E x \in stored : Same(x, e)}

TypeOK ==
    /\ \A n \in Fdbs : impl[n] \in Fdbs /\ Conf(n).type \in {"local", "dist", "select"}
    /\ \A n \in Fdbs \ Leaves : fdb.buffer[n] = <<>> /\ fdb.disk[n] = <<>>
    /\ fault \in [Fdbs -> {"none", "refuses", "late", "flush"}]
    /\ fdb.calls \in Nat
    /\ open \in {"open", "closed", "terminated"}

(* A field that was accepted and is not published yet is known to its      *)
(* handle, and to those around it up to the first distributor: the lane is *)
(* dirty even when DistFDB::flush passed over its failure, so the next     *)
(* flush of the lane, or its destructor, tries again (DistFDB.cc:262).     *)
RECURSIVE Aware(_)
Aware(n) ==
    fdb.dirty[n] /\ (n = Root \/ Conf(Holder(n)).type = "dist" \/ Aware(Holder(n)))

UnflushedIsKnown ==
    /\ TypeOK
    /\ open = "open" =>
        \A e \in acked \ Durable : \E l \in Leaves : Holds(fdb.buffer[l], e) /\ Aware(l)

(* A handle that closed without ending the process lost nothing that it    *)
(* accepted, however many flushes of lanes failed before and were not seen.*)
CloseLosesNothing == open = "closed" => acked = Durable

(* What was accepted and published is found through the same handle, by    *)
(* list() and inspect(), disabled lanes included, and with deduplication   *)
(* what is read is the latest: a lane is left for another only when        *)
(* nothing accepted is waiting in it, so an older value has an earlier     *)
(* time.  Not so a value whose archive threw after the lane had it: the    *)
(* lane is left all the same, and its archiver publishes the value when    *)
(* the handle is closed, over those that other lanes accepted since.       *)
ReaderFinds ==
    LET durable == Durable
    IN  \A e \in {x \in durable : \A y \in durable : y.key = x.key => y.ver <= x.ver} :
            LET rq == [all |-> FALSE, values |-> AsRequest(e.key)]
                listed == ListOf(rq, FALSE)
                found == Query(Root, rq, TRUE)
                read == Deduplicated(found)
            IN  /\ \E x \in ToSet(listed) : Same(x, e)
                /\ Len(FirstOfEach(listed)) = 1
                /\ read # <<>> /\ \A x \in ToSet(read) : x.ver >= e.ver \/ x.late
                /\ FlattenSeq(Gather(listed, FALSE)) = listed
                /\ ToSet(FlattenSeq(Gather(listed, TRUE))) = ToSet(listed)
=============================================================================
