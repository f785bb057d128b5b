-------------------------------- MODULE PMem --------------------------------
(***************************************************************************)
(* A database in persistent memory (src/fdb5/pmem): a master pool with a   *)
(* tree of branching nodes, and data pools with the fields.  A path of     *)
(* keyword:value pairs leads from the root to the node of an index and     *)
(* from there to the field.  There is no flush: each step is on the medium *)
(* when it returns.  Writers are processes that share the pools, and the   *)
(* mutexes of the nodes are in the pools; a mutex is free again when its   *)
(* holder has died (external: libpmemobj).                                 *)
(*                                                                         *)
(* A node is named by its position in `nodes`; 1 is the root of the tree.  *)
(***************************************************************************)
EXTENDS Pools

CONSTANTS
    Writers, Reader,
    Fields,          \* index key and datum key, sequences of keyword:value pairs
    Lengths,         \* of the fields
    PoolSize,        \* room in a data pool
    MaxArchives, MaxCrashes, MaxReads   \* bounds

Pairs == UNION {ToSet(f[1]) \cup ToSet(f[2]) : f \in Fields}

ASSUME PMemAssumption ==
    /\ Reader \notin Writers
    /\ PoolSize \in Nat /\ Lengths \subseteq 1..PoolSize
    /\ Fields \subseteq Seq(Pairs) \X Seq(Pairs)
    /\ \A f \in Fields : f[1] # <<>> /\ f[2] # <<>>

VARIABLES
    master,      \* the file "master": "none", "made" (no index root yet) or "built"
    nodes,       \* what was allocated in the pools
    files,       \* the files data-0, data-1, ...
    uuids,       \* dataPoolUUIDs_: the positions in `files` the master lists
    proc,        \* what each process keeps in memory
    acked,       \* the fields whose archive() has returned
    clash,       \* the indexes two live writers had, or a writer died over
    count        \* what is left of the bounds

vars == <<master, nodes, files, uuids, proc, acked, clash, count>>
disk == <<master, nodes, files, uuids>>

Procs == Writers \cup {Reader}
RootMutex == 0
NoIndex == <<>>
NoIndexes == [x \in {} |-> 0]

(* A process that has not opened the database.                             *)
Closed(read) ==
    [pc |-> "closed", read |-> read, pool |-> 0, idx |-> NoIndexes, i |-> NoIndex, d |-> <<>>,
     size |-> 0, at |-> 0, rest |-> <<>>, goal |-> "", ptr |-> 0, holds |-> {},
     must |-> {}, stack |-> <<>>, found |-> <<>>, indexes |-> {}]

Branch(kv) == [kind |-> "branch", kv |-> kv, kids |-> <<>>, axis |-> {}, pool |-> 0]
NewDataPool == [used |-> 0, finalised |-> FALSE]
DataNode(kv, pool) == [kind |-> "data", kv |-> kv, kids |-> <<>>, axis |-> {}, pool |-> pool]

Init ==
    /\ master = "none"
    /\ nodes = <<>> /\ files = <<>> /\ uuids = <<>>
    /\ proc = [p \in Procs |-> Closed(FALSE)]
    /\ acked = {} /\ clash = {}
    /\ count = [archives |-> 0, crashes |-> 0, reads |-> 0]

(* A pool is valid when its root has been built: valid() of the roots is     *)
(* asserted each time one is opened.                                       *)
Valid == master = "built"

Free(m) == \A p \in Procs : m \notin proc[p].holds
Set(p, s) == proc' = [proc EXCEPT ![p] = s]
Count(c) == count' = [count EXCEPT ![c] = @ + 1]

(* Outside of a call.                                                      *)
Outside(s) == [s EXCEPT !.pc = "idle", !.i = NoIndex, !.d = <<>>, !.size = 0, !.at = 0,
                        !.rest = <<>>, !.goal = "", !.ptr = 0, !.holds = {}]

(* The process goes on without the field: an exception left archive().     *)
Fails(w) == Set(w, Outside(proc[w]))

-----------------------------------------------------------------------------
(* The master pool.                                                        *)

Masters == IF master = "none" THEN {} ELSE {Pool(PoolGroups)}

(* Pool::obtain looks for the file first.  To open it is to check its root: *)
(* a pool whose root was never built is refused.                           *)
Obtain(w) ==
    LET s == [proc[w] EXCEPT !.read = TRUE] IN
    /\ proc[w].pc = "closed" /\ count.archives < MaxArchives
    /\ \/ /\ TableThrows(proc[w].read)
          /\ Set(w, s) /\ UNCHANGED count
       \/ /\ ~TableThrows(proc[w].read) /\ (Pool(PoolGroups) = "throws" \/ (master # "none" /\ ~Valid))
          /\ Set(w, s) /\ Count("archives")
       \/ /\ ~TableThrows(proc[w].read) /\ Pool(PoolGroups) # "throws" /\ (master = "none" \/ Valid)
          /\ Set(w, [s EXCEPT !.pc = IF Pool(PoolGroups) \in Masters THEN "idle" ELSE "make"])
          /\ UNCHANGED count
    /\ UNCHANGED <<disk, acked, clash>>

(* The creation of the pool fails if another process was faster.           *)
MakeMaster(w) ==
    /\ proc[w].pc = "make"
    /\ IF master = "none"
       THEN master' = "made" /\ Set(w, [proc[w] EXCEPT !.pc = "build"]) /\ UNCHANGED count
       ELSE Set(w, [proc[w] EXCEPT !.pc = "closed"]) /\ Count("archives") /\ UNCHANGED master
    /\ UNCHANGED <<nodes, files, uuids, acked, clash>>

(* PIndexRoot::build: the pointer to the index root is set last.           *)
BuildRoot(w) ==
    /\ proc[w].pc = "build"
    /\ master' = "built"
    /\ nodes' = <<Branch("")>>
    /\ Set(w, [proc[w] EXCEPT !.pc = "idle"])
    /\ UNCHANGED <<files, uuids, acked, clash, count>>

(* close(): the indexes are forgotten; there is nothing to write.          *)
Close(p) ==
    /\ proc[p].pc = "idle"
    /\ Set(p, Closed(TRUE))
    /\ UNCHANGED <<disk, acked, clash, count>>

-----------------------------------------------------------------------------
(* The tree.                                                               *)

Kids(n) == ToSet(nodes[n].kids)

(* Programming error: an older field masks a newer one.                    *)
OldestNode(n, kv) ==
    LET kids == nodes[n].kids
        at == {k \in DOMAIN kids : nodes[kids[k]].kv = kv}
    IN  IF at = {} THEN 0 ELSE kids[CHOOSE k \in at : \A j \in at : j >= k]

(* The nodes are searched from the last to the first: newer ones mask.     *)
SubNode(n, kv) ==
    LET kids == nodes[n].kids
        at == {k \in DOMAIN kids : nodes[kids[k]].kv = kv}
    IN  IF at = {} THEN 0 ELSE kids[CHOOSE k \in at : \A j \in at : j <= k]

(* The pool of each node that is looked at must be in the list of pools.   *)
EnsurePoolLoaded(n) == \A k \in Kids(n) : nodes[k].pool \in {0} \cup ToSet(uuids)

(* A reader that is at the end of the path of a field has found it.        *)
Reached(s, k) ==
    LET t == [s EXCEPT !.at = k, !.rest = Tail(@)] IN
    IF s.goal = "data" /\ Len(s.rest) = 1 THEN [t EXCEPT !.pc = "answer", !.ptr = k] ELSE t

(* Programming error: the search and the creation are not one critical     *)
(* section.                                                                *)
DescendUnlocked(p) ==
    LET s == proc[p]
        k == SubNode(s.at, Head(s.rest))
    IN  /\ s.pc = "walk" /\ s.rest # <<>> /\ Free(s.at)
        /\ \/ k # 0 /\ Set(p, Reached(s, k))
           \/ k = 0 /\ p # Reader /\ Set(p, [s EXCEPT !.pc = "grow"])
           \/ k = 0 /\ p = Reader /\ Set(p, [s EXCEPT !.pc = "answer", !.ptr = 0])
        /\ UNCHANGED <<disk, acked, clash, count>>

(* One turn of the loops of getCreateBranchingNode, getBranchingNode and   *)
(* getDataNode, under the mutex of the node.  A writer that does not find  *)
(* the next node keeps the mutex and creates the rest.                     *)
Descend(p) ==
    LET s == proc[p]
        k == SubNode(s.at, Head(s.rest))
    IN  /\ s.pc = "walk" /\ s.rest # <<>> /\ Free(s.at)
        /\ \/ /\ k # 0
              /\ Set(p, Reached(s, k))
           \/ /\ k = 0 /\ p # Reader
              /\ Set(p, [s EXCEPT !.pc = "grow", !.holds = {s.at}])
           \/ /\ k = 0 /\ p = Reader
              /\ Set(p, [s EXCEPT !.pc = "answer", !.ptr = 0])
        /\ UNCHANGED <<disk, acked, clash, count>>

(* The creation of the missing branching nodes, one after the other; only  *)
(* the mutex of the first is held.                                         *)
Grow(w) ==
    LET s == proc[w]
        new == Len(nodes) + 1
    IN  /\ s.pc = "grow"
        /\ nodes' = [Append(nodes, Branch(Head(s.rest))) EXCEPT ![s.at].kids = Append(@, new)]
        /\ Set(w, [s EXCEPT !.at = new, !.rest = Tail(@),
                            !.pc = IF Len(s.rest) = 1 THEN "walk" ELSE "grow",
                            !.holds = IF Len(s.rest) = 1 THEN {} ELSE @])
        /\ UNCHANGED <<master, files, uuids, acked, clash, count>>

-----------------------------------------------------------------------------
(* The indexes.                                                            *)

Walk(s, from, path, goal) == [s EXCEPT !.pc = "walk", !.at = from, !.rest = path, !.goal = goal]

(* archive() of a field: Archiver selects the index and archives.          *)
Archive(w, i, d, size) ==
    LET s == [proc[w] EXCEPT !.i = i, !.d = d, !.size = size] IN
    /\ proc[w].pc = "idle" /\ count.archives < MaxArchives
    /\ Set(w, IF i \in DOMAIN s.idx THEN [s EXCEPT !.pc = "alloc"] ELSE Walk(s, 1, i, "index"))
    /\ Count("archives")
    /\ UNCHANGED <<disk, acked, clash>>

(* The PMemIndex of the node: its axes are read here and never again.  For *)
(* a reader `known` remembers what had been archived by then.              *)
PMemIndex(p, n, i) ==
    [node |-> n, axes |-> nodes[n].axis,
     known |-> {f \in acked : p = Reader /\ f.i = i}]
WithIndex(s, ix) ==
    [s EXCEPT !.idx = [x \in DOMAIN @ \cup {s.i} |-> IF x = s.i THEN ix ELSE @[x]]]

(* A reader goes on to the field, unless it has a value that is not in     *)
(* axis(): those are left out of the request (MultiRetrieveVisitor::values). *)
Filter(s, ix) ==
    IF ToSet(s.d) \subseteq ix.axes THEN Walk(s, ix.node, s.d, "data") ELSE [s EXCEPT !.pc = "answer"]

SelectIndex(p) ==
    LET s == proc[p]
        ix == PMemIndex(p, s.at, s.i)
        t == WithIndex(s, ix)
    IN  /\ s.pc = "walk" /\ s.rest = <<>> /\ s.goal = "index"
        /\ Set(p, IF p = Reader THEN Filter(t, ix) ELSE [t EXCEPT !.pc = "alloc", !.at = 0, !.goal = ""])
        /\ clash' = IF \E v \in Writers \ {p} : p # Reader /\ s.i \in DOMAIN proc[v].idx
                    THEN clash \cup {s.i} ELSE clash
        /\ UNCHANGED <<disk, acked, count>>

(* IndexBase::put adds the values to the axes of the process, and then     *)
(* add() inserts the node of the field below all but the last pair.  The   *)
(* axes are dirty now, whether a value is new or not (IndexAxis.cc:274).   *)
Put(s, n) ==
    LET ix == s.idx[s.i]
        put == [ix EXCEPT !.axes = @ \cup ToSet(s.d)]
    IN  Walk([s EXCEPT !.ptr = n, !.idx[s.i] = put], ix.node, Front(s.d), "parent")

InsertDataNode(w) ==
    LET s == proc[w]
        kv == Last(s.d)
    IN  /\ s.pc = "walk" /\ s.rest = <<>> /\ s.goal = "parent" /\ Free(s.at)
        /\ IF EnsurePoolLoaded(s.at)
              /\ \A k \in Kids(s.at) : nodes[k].kv = kv => nodes[k].kind = "data"
           THEN /\ nodes' = [nodes EXCEPT ![s.at].kids = Append(@, s.ptr)]
                /\ Set(w, [s EXCEPT !.pc = "axes"])
           ELSE Fails(w) /\ UNCHANGED nodes
        /\ UNCHANGED <<master, files, uuids, acked, clash, count>>

(* PMemIndex::add replaces the axes of the node with those of the process, *)
(* without a mutex, and archive() returns.                                 *)
SaveAxes(w) ==
    LET s == proc[w]
        ix == s.idx[s.i]
    IN  /\ s.pc = "axes"
        /\ nodes' = [nodes EXCEPT ![ix.node].axis = ix.axes]
        /\ acked' = acked \cup {[n |-> s.ptr, i |-> s.i, d |-> s.d]}
        /\ Set(w, Outside(s))
        /\ UNCHANGED <<master, files, uuids, clash, count>>

-----------------------------------------------------------------------------
(* The data pools.                                                         *)

(* currentWritePool(): the last pool of the list unless it is finalised.   *)
PickPool(w) ==
    LET last == uuids[Len(uuids)] IN
    /\ proc[w].pc = "alloc" /\ proc[w].pool = 0 /\ Free(RootMutex)
    /\ IF uuids # <<>> /\ ~files[last].finalised
       THEN Set(w, [proc[w] EXCEPT !.pool = last])
       ELSE Set(w, [proc[w] EXCEPT !.pc = "newpool", !.holds = {RootMutex}])
    /\ UNCHANGED <<disk, acked, clash, count>>

(* The file is named by the length of the list, and must not exist.        *)
MakePool(w) ==
    /\ proc[w].pc = "newpool"
    /\ IF Len(files) = Len(uuids)
       THEN /\ files' = Append(files, NewDataPool)
            /\ Set(w, [proc[w] EXCEPT !.pc = "addpool"])
       ELSE Fails(w) /\ UNCHANGED files
    /\ UNCHANGED <<master, nodes, uuids, acked, clash, count>>

(* The root of the pool is built and the pool is put into the list.        *)
AddPool(w) ==
    /\ proc[w].pc = "addpool"
    /\ uuids' = Append(uuids, Len(files))
    /\ Set(w, [proc[w] EXCEPT !.pc = "alloc", !.pool = Len(files), !.holds = {}])
    /\ UNCHANGED <<master, nodes, files, acked, clash, count>>

(* Programming error: the full pool stays the current one.                 *)
AllocateStuck(w) ==
    LET s == proc[w] IN
    /\ s.pc = "alloc" /\ s.pool # 0
    /\ IF files[s.pool].used + s.size <= PoolSize
       THEN /\ files' = [files EXCEPT ![s.pool].used = @ + s.size]
            /\ nodes' = Append(nodes, DataNode(Last(s.d), s.pool))
            /\ Set(w, Put(s, Len(nodes) + 1))
       ELSE files' = [files EXCEPT ![s.pool].finalised = TRUE] /\ UNCHANGED <<nodes, proc>>
    /\ UNCHANGED <<master, uuids, acked, clash, count>>

(* DataPoolManager::allocate: without room the pool is finalised and the   *)
(* loop turns again.                                                       *)
Allocate(w) ==
    LET s == proc[w] IN
    /\ s.pc = "alloc" /\ s.pool # 0
    /\ IF files[s.pool].used + s.size <= PoolSize
       THEN /\ files' = [files EXCEPT ![s.pool].used = @ + s.size]
            /\ nodes' = Append(nodes, DataNode(Last(s.d), s.pool))
            /\ Set(w, Put(s, Len(nodes) + 1))
       ELSE /\ files' = [files EXCEPT ![s.pool].finalised = TRUE]
            /\ Set(w, [s EXCEPT !.pool = 0])
            /\ UNCHANGED nodes
    /\ UNCHANGED <<master, uuids, acked, clash, count>>

-----------------------------------------------------------------------------
(* The reader.                                                             *)

(* A database is visited if its pool is; one that cannot be opened is      *)
(* reported and left out.                                                  *)
Visited == RequestedDatabases(VisitablePools(PoolGroups), Masters, IF Valid THEN Masters ELSE {})

OpenReader ==
    LET s == proc[Reader] IN
    /\ s.pc = "closed" /\ count.reads < MaxReads
    /\ \/ /\ TableThrows(s.read)
          /\ Set(Reader, [s EXCEPT !.read = TRUE]) /\ UNCHANGED count
       \/ /\ ~TableThrows(s.read)
          /\ Visited # {}
          /\ Set(Reader, [s EXCEPT !.pc = "idle"]) /\ UNCHANGED count
       \/ /\ ~TableThrows(s.read)
          /\ Visited = {}
          /\ Count("reads") /\ UNCHANGED proc
    /\ UNCHANGED <<disk, acked, clash>>

(* A question, and what was answered until then, which may have been all.  *)
Ask(s, all) == [s EXCEPT !.must = all, !.found = <<>>, !.indexes = {}, !.ptr = 0]

Retrieve(i, d) ==
    LET s == [Ask(proc[Reader], acked) EXCEPT !.i = i, !.d = d] IN
    /\ proc[Reader].pc = "idle" /\ count.reads < MaxReads
    /\ Set(Reader, IF i \in DOMAIN s.idx THEN Filter(s, s.idx[i]) ELSE Walk(s, 1, i, "index"))
    /\ Count("reads")
    /\ UNCHANGED <<disk, acked, clash>>

(* visitLeaves, from the root, for a visitor that wants the entries.       *)
List ==
    /\ proc[Reader].pc = "idle" /\ count.reads < MaxReads
    /\ Set(Reader, [Ask(proc[Reader], acked) EXCEPT
                       !.pc = "visit", !.i = NoIndex, !.d = <<>>, !.goal = "entries",
                       !.stack = <<[n |-> 1, path |-> <<>>, ix |-> NoIndex, test |-> TRUE]>>])
    /\ Count("reads")
    /\ UNCHANGED <<disk, acked, clash>>

(* The listing goes on with these nodes, or has ended.                     *)
Visit(s, stack) == [s EXCEPT !.stack = stack, !.pc = IF stack = <<>> THEN "answer" ELSE "visit"]

(* The pair of the node is pushed.  A node that has axes is an index, its  *)
(* key what was pushed so far; the key of a field starts below it.         *)
VisitNode ==
    LET s == proc[Reader]
        top == Head(s.stack)
        path == IF top.n = 1 THEN <<>> ELSE Append(top.path, nodes[top.n].kv)
        isIndex == nodes[top.n].axis # {}
        down == [n |-> top.n, test |-> FALSE, path |-> IF isIndex THEN <<>> ELSE path,
                 ix |-> IF isIndex THEN path ELSE top.ix]
    IN  /\ s.pc = "visit" /\ s.stack # <<>> /\ top.test
        /\ Set(Reader, Visit([s EXCEPT !.indexes = IF isIndex THEN @ \cup {path} ELSE @],
                             <<down>> \o Tail(s.stack)))
        /\ UNCHANGED <<disk, acked, clash, count>>

(* Programming error: the masking that is commented out in visitLeaves.    *)
VisitKidsMasked ==
    LET s == proc[Reader]
        top == Head(s.stack)
        kids == Reverse(nodes[top.n].kids)
        leaves == SelectSeq(kids, LAMBDA k : nodes[k].kind = "data" /\ SubNode(top.n, nodes[k].kv) = k)
        trees == SelectSeq(kids, LAMBDA k : nodes[k].kind = "branch")
    IN  /\ s.pc = "visit" /\ s.stack # <<>> /\ ~top.test /\ Free(top.n)
        /\ Set(Reader, Visit([s EXCEPT !.found = @ \o [k \in DOMAIN leaves |->
                                 [n |-> leaves[k], i |-> top.ix,
                                  d |-> Append(top.path, nodes[leaves[k]].kv)]]],
                             [k \in DOMAIN trees |->
                                 [n |-> trees[k], path |-> top.path, ix |-> top.ix, test |-> TRUE]]
                                 \o Tail(s.stack)))
        /\ UNCHANGED <<disk, acked, clash, count>>

(* The nodes below it are taken under its mutex, the newest first; fields  *)
(* are visited and must have an index, then the subtrees.                  *)
VisitKids ==
    LET s == proc[Reader]
        top == Head(s.stack)
        kids == Reverse(nodes[top.n].kids)
        leaves == SelectSeq(kids, LAMBDA k : nodes[k].kind = "data")
        trees == SelectSeq(kids, LAMBDA k : nodes[k].kind = "branch")
    IN  /\ s.pc = "visit" /\ s.stack # <<>> /\ ~top.test /\ Free(top.n)
        /\ IF EnsurePoolLoaded(top.n) /\ (leaves = <<>> \/ top.ix # NoIndex)
           THEN Set(Reader, Visit([s EXCEPT !.found = @ \o [k \in DOMAIN leaves |->
                                      [n |-> leaves[k], i |-> top.ix,
                                       d |-> Append(top.path, nodes[leaves[k]].kv)]]],
                                  [k \in DOMAIN trees |->
                                      [n |-> trees[k], path |-> top.path, ix |-> top.ix, test |-> TRUE]]
                                      \o Tail(s.stack)))
           ELSE Set(Reader, [s EXCEPT !.pc = "answer", !.goal = "throws", !.stack = <<>>])
        /\ UNCHANGED <<disk, acked, clash, count>>

(* PMemStatsReportVisitor::visitDatum: a field is a duplicate if one with  *)
(* its index key and its fingerprint was visited before.                   *)
Stats(found) ==
    LET again(k) == \E j \in 1..(k - 1) : found[j].i = found[k].i /\ found[j].d = found[k].d IN
    [fields |-> Len(found), duplicates |-> Cardinality({k \in DOMAIN found : again(k)})]

(* PMemDB::statistics: what the master lists, whether it is used or not.   *)
DbStats == [dataPoolsCount |-> Len(uuids), dataPoolsSize |-> PoolSize * Len(uuids)]

(* The user has the answer, and leaves after the last.                     *)
Answer ==
    /\ proc[Reader].pc = "answer"
    /\ Set(Reader, IF count.reads < MaxReads THEN Outside(Ask(proc[Reader], {})) ELSE Closed(TRUE))
    /\ UNCHANGED <<disk, acked, clash, count>>

-----------------------------------------------------------------------------
(* A writer dies inside a call (outside it is a Close).  What it had in the *)
(* pools stays there.                                                      *)
Crash(w) ==
    /\ proc[w].pc \notin {"closed", "idle"} /\ count.crashes < MaxCrashes
    /\ Set(w, Closed(FALSE))
    /\ clash' = IF proc[w].pc = "axes" THEN clash \cup {proc[w].i} ELSE clash
    /\ Count("crashes")
    /\ UNCHANGED <<disk, acked>>

Step(w) ==
    \/ MakeMaster(w) \/ BuildRoot(w)
    \/ Descend(w) \/ Grow(w) \/ SelectIndex(w) \/ InsertDataNode(w) \/ SaveAxes(w)
    \/ PickPool(w) \/ MakePool(w) \/ AddPool(w) \/ Allocate(w)

ReaderStep ==
    \/ Descend(Reader) \/ SelectIndex(Reader)
    \/ VisitNode \/ VisitKids \/ Answer

Next ==
    \/ \E w \in Writers :
        \/ Obtain(w) \/ Step(w) \/ Close(w) \/ Crash(w)
        \/ \E f \in Fields, size \in Lengths : Archive(w, f[1], f[2], size)
    \/ OpenReader \/ ReaderStep \/ Close(Reader)
    \/ \E f \in Fields : Retrieve(f[1], f[2])
    \/ List

(* A writer that is inside a call goes on with it.                         *)
Spec == Init /\ [][Next]_vars /\ \A w \in Writers : WF_vars(Step(w))

-----------------------------------------------------------------------------
(* The types, and what the mutexes of the nodes are for (PBranchingNode.cc, *)
(* "We don't want two processes to simultaneously create two same-named     *)
(* branches"): siblings have different pairs unless both are fields, each   *)
(* field is in a pool the master lists, and no pool is overfull.            *)
TreeSound ==
    /\ master \in {"none", "made", "built"}
    /\ uuids = [k \in DOMAIN uuids |-> k] /\ Len(files) - Len(uuids) \in {0, 1}
    /\ \A f \in ToSet(files) : f.used <= PoolSize
    /\ \A n \in DOMAIN nodes : \A a, b \in Kids(n) :
        /\ a # b /\ nodes[a].kv = nodes[b].kv => nodes[a].kind = "data" /\ nodes[b].kind = "data"
        /\ EnsurePoolLoaded(n)

Position(kids, n) == CHOOSE k \in DOMAIN kids : kids[k] = n

(* A field whose archive() had returned when a reader read the axes of its *)
(* index is found by that reader, and what a retrieve returns is never     *)
(* older than a field that was archived when it began: "newly written      *)
(* fields mask existing ones" (PBranchingNode.cc).  An index that two live *)
(* writers have at once, or that a writer died over before it stored the   *)
(* axes, is left out: its axes may lack values for good.                   *)
RetrieveFinds ==
    LET s == proc[Reader]
        mine == {f \in s.must : f.i = s.i /\ f.d = s.d}
    IN  s.pc = "answer" /\ s.d # <<>> =>
        /\ s.i \notin DOMAIN s.idx => mine = {}
        /\ s.i \in DOMAIN s.idx \ clash /\ (mine \cap s.idx[s.i].known) # {} => s.ptr # 0
        /\ s.ptr # 0 => \E n \in DOMAIN nodes :
            LET kids == nodes[n].kids IN
            /\ s.ptr \in ToSet(kids) /\ nodes[s.ptr].kv = Last(s.d)
            /\ \A f \in mine : f.n \in ToSet(kids) /\ Position(kids, f.n) <= Position(kids, s.ptr)

(* A listing that returns has every field whose archive() had returned     *)
(* when it began, under its own keys, masked ones too ("visitLeaves should *)
(* NOT skip out masked data"), none twice, and every index of them.        *)
ListFinds ==
    LET s == proc[Reader] IN
    s.pc = "answer" /\ s.goal = "entries" =>
        /\ {f.i : f \in s.must} \subseteq s.indexes
        /\ s.must \subseteq ToSet(s.found)
        /\ IsInjective([k \in DOMAIN s.found |-> s.found[k].n])
        /\ Stats(s.found).fields - Stats(s.found).duplicates
             >= Cardinality({<<f.i, f.d>> : f \in s.must})
        /\ Cardinality({nodes[f.n].pool : f \in ToSet(s.found)}) <= DbStats.dataPoolsCount

(* A call of a writer ends, with the field or with an exception, whatever   *)
(* mutexes the others hold and however often the pool is full.              *)
ArchiveReturns ==
    \A w \in Writers : proc[w].pc \notin {"idle", "closed"} ~> proc[w].pc \in {"idle", "closed"}
=============================================================================
