---------------------------- MODULE Maintenance ----------------------------
(***************************************************************************)
(* The tools that change a database as a whole, beside its writers: wipe,  *)
(* purge, move, hide, overlay, reconsolidate and lock (TocWipeVisitor.cc,  *)
(* TocPurgeVisitor.cc, TocMoveVisitor.cc, TocCatalogueWriter.cc, the       *)
(* visitors under api/local).                                              *)
(*                                                                         *)
(* Main is the database under maintenance, Other a database that can be    *)
(* mounted on it, Dest the directory it is moved to.  A tool first looks,  *)
(* then changes the files one by one: `plan` is what is left of the        *)
(* changes it decided on.  Between any two of them a writer may write and  *)
(* the tool may die; later tools find what it left.  The steps inside a    *)
(* flush are TocWriter's subject; here a flush is one step.                *)
(***************************************************************************)
EXTENDS TocFiles

CONSTANTS
    Writers,     \* the writing processes
    SubWriters,  \* those configured with useSubToc
    IndexKeys,   \* one field under each
    MayArchive,  \* Writers -> the keys it archives to
    Tools,       \* the operations that may be run
    MaxArchives, \* bound: fields archived
    LivePurges,  \* BOOLEAN: a purge may be started while writers have files
    UnsafeWipes, \* the values of --unsafe-wipe-all
    MaxTools,    \* bound: tools started
    NoField,     \* a retrieve that finds nothing
    Error,       \* a retrieve that throws
    Crashes      \* BOOLEAN: writers and tools may die

ASSUME SubWriters \subseteq Writers /\ UnsafeWipes \subseteq BOOLEAN

Main == "main"
Other == "other"
Dest == "dest"
Unset == 0

LockPath(dir, id) == <<dir, "lock", id>>
DataPath(p, ik) == <<Main, "data", p, ik>>
IndexPath(p, ik) == <<Main, "index", p, ik>>
FullPath(p, ik) == <<Main, "full", p, ik>>
SubToc(w) == <<Main, "toc.", w>>

VARIABLES
    disk,      \* the files that exist, and their contents
    writers,   \* Writers -> handle: pc, fields not yet flushed, fields for compaction
    job,       \* the running tool
    archived,  \* the number of fields archived so far
    started,   \* the number of tools started so far
    acked,     \* history: the numbers whose flush returned, by key
    hidden     \* history: the numbers that were hidden

vars == <<disk, writers, job, archived, started, acked, hidden>>

NoFields == [ik \in IndexKeys |-> Unset]
Closed == [pc |-> "closed", pend |-> NoFields, full |-> NoFields, sub |-> FALSE]
Dead == [Closed EXCEPT !.pc = "dead"]
NoLists == [mask |-> << >>, index |-> {}, data |-> {}, sub |-> {}, toc |-> {}, safe |-> {}]
NoJob == [op |-> "none", request |-> {}, lists |-> NoLists, plan |-> << >>,
          state |-> "done", before |-> NoFields, since |-> 0,
          quiet |-> TRUE, plain |-> TRUE, intact |-> TRUE]

Loc(ref, n) == [data |-> ref, n |-> n]

(* The other database holds one field, numbered 100, under one of the keys. *)
OtherKey == CHOOSE ik \in IndexKeys : TRUE
OtherData == <<Other, "data", "o", OtherKey>>
OtherIndex == <<Other, "index", "o", OtherKey>>
OtherFiles ==
    (TocPath(Other) :>
        << InitRecord, IndexEntry(Base(OtherIndex), 1, OtherKey, {Relative(Other, OtherData)}) >>)
    @@ (SchemaPath(Other) :> << >>)
    @@ (OtherData :> {100})
    @@ (OtherIndex :> << Loc(Relative(Other, OtherData), 100) >>)

Init ==
    /\ disk = OtherFiles @@ (TocPath(Main) :> << InitRecord >>) @@ (SchemaPath(Main) :> << >>)
    /\ writers = [w \in Writers |-> Closed]
    /\ job = NoJob
    /\ archived = 0 /\ started = 0
    /\ acked = [ik \in IndexKeys |-> {}]
    /\ hidden = {}

(* enabled, lockfilePaths (which does not know duplicates.allow). *)
enabled(dir, id) == LockPath(dir, id) \notin DOMAIN disk
lockfilePaths(dir) ==
    {LockPath(dir, id) : id \in {"retrieve", "archive", "list", "wipe"}} \cap DOMAIN disk

Lookup(dir, ik) == retrieve(disk, dir, ik, NoField, Error)
Openable(dir) == TocPath(dir) \in DOMAIN disk /\ SchemaPath(dir) \in DOMAIN disk
FilesOf(dir) == {p \in DOMAIN disk : Dir(p) = dir}

Without(paths) == [p \in DOMAIN disk \ paths |-> disk[p]]
Appended(toc, records) == [disk EXCEPT ![toc] = @ \o records]

(* The members of a std::set in some fixed order. *)
InOrder(set) == FoldSet(LAMBDA x, s : Append(s, x), << >>, set)

Live(w) == writers[w].pc = "open"
Used(w) == Live(w) /\ writers[w].full # NoFields
Quiet == \A w \in Writers : ~Live(w)

----------------------------------------------------------------------------
(***************************************************************************)
(* Writers.  A handle is opened when the database may be archived to; the  *)
(* toc and the schema are there, or the constructor throws.                *)
(***************************************************************************)
OpenForArchive(w) ==
    /\ writers[w].pc = "closed"
    /\ Openable(Main)
    /\ enabled(Main, "archive")
    /\ writers' = [writers EXCEPT ![w].pc = "open"]
    /\ UNCHANGED <<disk, job, archived, started, acked, hidden>>

(* The index files that the mover holds with flock. *)
Flocked == IF job.op = "move" /\ job.state = "running" THEN job.lists.index ELSE {}

(***************************************************************************)
(* selectIndex and archive.  The files of a key are created when the       *)
(* handle first needs them; selectIndex blocks while the mover has them.   *)
(***************************************************************************)
Archive(w, ik) ==
    LET created == {DataPath(w, ik), IndexPath(w, ik)}
                     \cup (IF w \in SubWriters THEN {FullPath(w, ik)} ELSE {})
        n == archived + 1
        new == writers[w].full[ik] = Unset
    IN
    /\ Live(w)
    /\ archived < MaxArchives
    /\ ik \in MayArchive[w]
    /\ {IndexPath(w, ik), FullPath(w, ik)} \cap Flocked = {}
    /\ FilesOf(Main) # {}
    /\ disk' = IF new
               THEN disk @@ [p \in created |-> IF p = DataPath(w, ik) THEN {} ELSE << >>]
               ELSE disk
    /\ writers' = [writers EXCEPT ![w].pend[ik] = n, ![w].full[ik] = n]
    /\ archived' = n
    /\ UNCHANGED <<job, started, acked, hidden>>

(* The disk after the section of `ik` has been written to an index file and recorded. *)
WithSection(d, index, toc, w, ik, n) ==
    LET ref == Relative(Main, DataPath(w, ik))
        offset == IF index \in DOMAIN d THEN Len(d[index]) + 1 ELSE 1
        put == [p \in DOMAIN d |->
                  CASE p = DataPath(w, ik) -> d[p] \cup {n}
                    [] p = index -> Append(d[p], Loc(ref, n))
                    [] p = toc -> Append(d[p], IndexEntry(Base(index), offset, ik, {ref}))
                    [] OTHER -> d[p]]
    IN  put

(* The toc a writer appends to, made and mounted when a sub-toc is first needed. *)
WithSubToc(w) ==
    IF w \in SubWriters /\ ~writers[w].sub
    THEN Appended(TocPath(Main), << MountRecord(Main, SubToc(w)) >>)
           @@ (SubToc(w) :> << InitRecord >>)
    ELSE disk
WriterToc(w) == IF w \in SubWriters THEN SubToc(w) ELSE TocPath(Main)

Dirty(w) == {ik \in IndexKeys : writers[w].pend[ik] # Unset}

(***************************************************************************)
(* flush: the data, then section and record of each dirty index.  When the *)
(* toc is gone nothing is recorded; when an index file is gone its record  *)
(* is still written, and reopen throws on the missing file.                *)
(***************************************************************************)
Flush(w) ==
    LET order == InOrder(Dirty(w))
        gone == {i \in DOMAIN order : IndexPath(w, order[i]) \notin DOMAIN disk}
        last == IF gone = {} THEN Len(order) ELSE CHOOSE i \in gone : \A j \in gone : i <= j
        write(d, ik) == WithSection(d, IndexPath(w, ik), WriterToc(w), w, ik, writers[w].pend[ik])
        recorded == FoldLeft(write, WithSubToc(w), SubSeq(order, 1, last))
        hasToc == (IF writers[w].sub THEN SubToc(w) ELSE TocPath(Main)) \in DOMAIN disk
    IN
    /\ Live(w)
    /\ Dirty(w) # {}
    /\ {IndexPath(w, ik) : ik \in Dirty(w)} \cap Flocked = {}
    /\ disk' = IF hasToc THEN recorded ELSE disk
    /\ IF hasToc /\ gone = {}
       THEN /\ writers' = [writers EXCEPT ![w].pend = NoFields, ![w].sub = w \in SubWriters]
            /\ acked' = [ik \in IndexKeys |-> acked[ik] \cup ({writers[w].pend[ik]} \ {Unset})]
       ELSE /\ writers' = [writers EXCEPT ![w] = Dead]
            /\ UNCHANGED acked
    /\ UNCHANGED <<job, archived, started, hidden>>

(***************************************************************************)
(* clean and close, when nothing is left to flush (a handle that was never *)
(* used is left open: closing it changes nothing): the indexes of a        *)
(* sub-toc are compacted into the master toc and the sub-toc is masked.    *)
(***************************************************************************)
Close(w) ==
    LET keys == InOrder({ik \in IndexKeys : writers[w].full[ik] # Unset})
        write(d, ik) ==
            WithSection(d, FullPath(w, ik), TocPath(Main), w, ik, writers[w].full[ik])
    IN
    /\ Used(w)
    /\ Dirty(w) = {}
    /\ disk' = IF writers[w].sub /\ TocPath(Main) \in DOMAIN disk
               THEN [FoldLeft(write, disk, keys) EXCEPT ![TocPath(Main)] =
                       Append(@, SubTocMaskRecord(Base(SubToc(w))))]
               ELSE disk
    /\ writers' = [writers EXCEPT ![w] = Dead]
    /\ UNCHANGED <<job, archived, started, acked, hidden>>

WriterDies(w) ==
    /\ Crashes
    /\ Used(w)
    /\ writers' = [writers EXCEPT ![w] = Dead]
    /\ UNCHANGED <<disk, job, archived, started, acked, hidden>>

----------------------------------------------------------------------------
(***************************************************************************)
(* The tools.  A plan is a sequence of these changes.                      *)
(***************************************************************************)
Unlink(path) == [do |-> "unlink", path |-> path]
Copy(paths) == [do |-> "copy", paths |-> paths]   \* by worker threads, side by side
Record(records) == [do |-> "append", records |-> records]
Lock(ids) == [do |-> "lock", ids |-> ids]
Index(index, loc, record) == [do |-> "index", path |-> index, loc |-> loc, records |-> <<record>>]

Each(Op(_), set) == LET s == InOrder(set) IN [i \in DOMAIN s |-> Op(s[i])]

AllIndexes == indexes(disk, TocPath(Main))

(***************************************************************************)
(* The masks and sub-tocs for which base names and master-only masks mean  *)
(* what the tools take them to mean: the toc itself is not masked by name, *)
(* and every visible index is recorded in the master toc.                  *)
(***************************************************************************)
Plain ==
    TocPath(Main) \in DOMAIN disk =>
        /\ <<TocName, 0>> \notin maskedEntries(disk[TocPath(Main)])
        /\ \A i \in DOMAIN AllIndexes : AllIndexes[i].toc = TocPath(Main)

(* The data that the visible indexes refer to is there (no wipe died half-way). *)
Intact == \A i \in DOMAIN AllIndexes : dataPaths(AllIndexes[i]) \subseteq DOMAIN disk

Starts(op, request) ==
    /\ op \in Tools
    /\ job.state = "done"
    /\ started < MaxTools
    /\ Openable(Main) /\ ~IsBroken(AllIndexes)
    /\ started' = started + 1

Ended == [job EXCEPT !.state = "done", !.plan = << >>, !.lists = NoLists]

NewJob(op, request, lists, plan, state) ==
    [op |-> op, request |-> request, lists |-> lists, plan |-> plan,
     state |-> IF state = "running" /\ plan = << >> THEN "done" ELSE state,
     before |-> [ik \in IndexKeys |-> Lookup(Main, ik)],
     since |-> archived, quiet |-> Quiet, plain |-> Plain, intact |-> Intact]

(***************************************************************************)
(* visitDatabase and visitIndex of a wipe: each index that matches the     *)
(* request and lies in this directory is to go, with its data here; all    *)
(* else that an index refers to is safe.                                   *)
(***************************************************************************)
StartWipe(request) ==
    LET ours(e) == e.ik \in request /\ Dir(e.path) = Main
        mine == SelectSeq(AllIndexes, ours)
        others == SelectSeq(AllIndexes, LAMBDA e : ~ours(e))
        data(s) == UNION {dataPaths(s[i]) : i \in DOMAIN s}
        paths(s) == {s[i].path : i \in DOMAIN s}
        here(set) == {p \in set : Dir(p) = Main}
        masked == enumerateMasked(disk, TocPath(Main))
        safe == paths(others) \cup data(others) \cup (data(mine) \ here(data(mine)))
        all == safe = {}
        \* addMaskedPaths, addMetadataPaths
        subs == IF all THEN {p \in here(masked.metadata) : IsSubToc(p)}
                              \cup subTocPaths(disk, TocPath(Main)) ELSE {}
        lists ==
          [mask |-> [i \in DOMAIN mine |-> ClearRecord(Base(mine[i].path), mine[i].offset)],
           index |-> (paths(mine) \cup (IF all THEN {p \in here(masked.metadata) : ~IsSubToc(p)} ELSE {})) \ safe,
           data |-> (here(data(mine)) \cup (IF all THEN here(masked.data) ELSE {})) \ safe,
           sub |-> subs \ safe,
           toc |-> IF all THEN {TocPath(Main)} ELSE {},
           safe |-> safe]
    IN
    /\ Starts("wipe", request)
    /\ enabled(Main, "wipe")
    /\ Broken \notin subs
    /\ job' = NewJob("wipe", request, lists, << >>, "visited")
    /\ UNCHANGED <<disk, writers, archived, acked, hidden>>

(* Mutant: what the safe paths hold is no reason to spare a file. *)
CompleteWipe_IgnoreSafe(unsafe) ==
    /\ job.op = "wipe" /\ job.state = "visited"
    /\ job' = [job EXCEPT !.state = "running", !.plan = Each(Unlink, FilesOf(Main))]
    /\ UNCHANGED <<disk, writers, archived, started, acked, hidden>>

(* Nothing is protected: the whole database goes. *)
WipesAll == job.lists.safe = {}

(* calculateResidualPaths: what is listed and still there, and what else is there. *)
deletePaths ==
    LET l == job.lists IN
    ((l.index \cup l.data \cup l.sub \cup l.toc) \cap DOMAIN disk)
      \cup (IF WipesAll THEN ({SchemaPath(Main)} \cap DOMAIN disk) \cup lockfilePaths(Main) ELSE {})
residualPaths == IF WipesAll THEN FilesOf(Main) \ deletePaths ELSE {}

(***************************************************************************)
(* wipe: a partial wipe first masks its indexes, a full one locks the      *)
(* database and removes the residual files too.                            *)
(***************************************************************************)
WipePlan ==
    LET l == job.lists
        wiping == {"list", "retrieve", "archive"}
        whole(set) == IF WipesAll THEN set ELSE {}
    IN  (IF WipesAll THEN << Lock(wiping) >>
         ELSE [i \in DOMAIN l.mask |-> Record(<<l.mask[i]>>)])
        \o Each(Unlink, residualPaths) \o Each(Unlink, l.data) \o Each(Unlink, l.index)
        \o Each(Unlink, whole({SchemaPath(Main)} \cap DOMAIN disk))
        \o Each(Unlink, l.sub) \o Each(Unlink, l.toc)
        \o Each(Unlink, whole(lockfilePaths(Main) \cup {LockPath(Main, id) : id \in wiping}))

(***************************************************************************)
(* catalogueComplete: a full wipe stops when it would remove a file that   *)
(* is not in the directory, or when the directory holds a file that none   *)
(* of its lists name, unless it is told not to (unsafeWipeAll).            *)
(***************************************************************************)
CompleteWipe(unsafe) ==
    LET anything == deletePaths # {} \/ job.lists.mask # << >>
        fails == WipesAll /\ (~ deletePaths \subseteq FilesOf(Main) \/ (residualPaths # {} /\ ~unsafe))
    IN
    /\ job.op = "wipe" /\ job.state = "visited"
    /\ job' = IF fails \/ ~anything THEN Ended
              ELSE [job EXCEPT !.state = "running", !.plan = WipePlan]
    /\ UNCHANGED <<disk, writers, archived, started, acked, hidden>>

(* The data file of the field of the i-th index. *)
DataFile(all, i) == Resolve(Dir(all[i].path), disk[all[i].path][all[i].offset].data)

(***************************************************************************)
(* TocStatsReportVisitor::visitDatum, for indexes from the newest to the   *)
(* oldest: those of this database, with data in it, ...                    *)
(***************************************************************************)
Owned(all) == {i \in DOMAIN all : Dir(all[i].path) = Main /\ Dir(DataFile(all, i)) = Main}

(* Mutant: the oldest field of a key is the one in use. *)
Duplicates_Newest(all) == {i \in Owned(all) : \E j \in Owned(all) : j > i /\ all[j].ik = all[i].ik}

(* ... of which a field met again is a duplicate. *)
Duplicates(all) == {i \in Owned(all) : \E j \in Owned(all) : j < i /\ all[j].ik = all[i].ik}

(***************************************************************************)
(* A purge.  Indexes of duplicates only are masked in the master toc;      *)
(* files of this directory that no active field uses, masked ones with     *)
(* them, are removed, in the order of their names: index files begin with  *)
(* the values of their key, and "an:pl" and the like sort before "toc".    *)
(* Nothing stops the writers.                                              *)
(***************************************************************************)
StartPurge ==
    LET all == AllIndexes
        duplicates == Duplicates(all)
        active == Owned(all) \ duplicates
        masked == enumerateMasked(disk, TocPath(Main))
        here(set) == {p \in set : Dir(p) = Main}
        unused(known, path(_)) ==
          here(known \cup {path(i) : i \in duplicates}) \ {path(i) : i \in active}
        files == unused(masked.metadata, LAMBDA i : all[i].path)
        plan ==
          Each(LAMBDA i : Record(<<ClearRecord(Base(all[i].path), all[i].offset)>>), duplicates)
          \o Each(Unlink, unused(masked.data, LAMBDA i : DataFile(all, i)))
          \o Each(Unlink, {p \in files : ~IsToc(p)}) \o Each(Unlink, {p \in files : IsToc(p)})
    IN
    /\ Starts("purge", IndexKeys)
    /\ enabled(Main, "wipe")
    /\ LivePurges \/ \A w \in Writers : ~Used(w)
    /\ canList(disk, Main)
    /\ Broken \notin subTocPaths(disk, TocPath(Main))
    /\ job' = NewJob("purge", IndexKeys, NoLists, plan, "running")
    /\ UNCHANGED <<disk, writers, archived, acked, hidden>>

(***************************************************************************)
(* A move locks the source first (MoveVisitor::visitDatabase) ...          *)
(***************************************************************************)
StartMove ==
    /\ Starts("move", IndexKeys)
    /\ job' = NewJob("move", IndexKeys, NoLists,
                     << Lock({"archive", "wipe", "duplicates"}) >>, "visited")
    /\ disk' = disk @@ [p \in {LockPath(Main, id) : id \in {"archive", "wipe", "duplicates"}} |-> << >>]
    /\ UNCHANGED <<writers, archived, acked, hidden>>

(* Mutant: the toc is copied with the other files and the first to go. *)
ScanForMove_TocFirst(keep) ==
    LET files == FilesOf(Main) \ {TocPath(Main)} IN
    /\ job.op = "move" /\ job.state = "visited"
    /\ FilesOf(Dest) = {}
    /\ job' = [job EXCEPT !.state = "running", !.plan =
                 << Unlink(TocPath(Main)), Copy(files), Copy({TocPath(Main)}) >>]
    /\ UNCHANGED <<disk, writers, archived, started, acked, hidden>>

(***************************************************************************)
(* What is queued (TocStore::moveTo, TocMoveVisitor::move) and done about  *)
(* it: data, indexes, sub-tocs and schema are copied, the toc last; unless *)
(* the source is kept its toc goes first, then the files, then the locks,  *)
(* which are never copied.                                                 *)
(***************************************************************************)
OfKind(kinds) == {p \in FilesOf(Main) : p[2] \in kinds}
MovePlan(keep) ==
    LET data == OfKind({"data"})
        metadata == OfKind({"index", "full", "toc.", "schema"})
    IN  << Copy(data), Copy(metadata), Copy({TocPath(Main)}) >>
        \o (IF keep THEN << >>
            ELSE << Unlink(TocPath(Main)) >> \o Each(Unlink, data)
                 \o Each(Unlink, metadata) \o Each(Unlink, OfKind({"lock"})))

(***************************************************************************)
(* ... then takes every index file with flock, which waits for the writers *)
(* that have fields in it, and refuses a destination that exists.          *)
(***************************************************************************)
ScanForMove(keep) ==
    LET index == OfKind({"index", "full"}) IN
    /\ job.op = "move" /\ job.state = "visited"
    /\ \A w \in Writers : Live(w) => \A ik \in Dirty(w) : IndexPath(w, ik) \notin index
    /\ job' = IF FilesOf(Dest) # {} THEN Ended
              ELSE [job EXCEPT !.state = "running", !.lists.index = index, !.plan = MovePlan(keep)]
    /\ UNCHANGED <<disk, writers, archived, started, acked, hidden>>

(* hideContents: everything recorded so far is masked. *)
Hide ==
    /\ Starts("hide", {})
    /\ disk' = Appended(TocPath(Main), << ClearAllRecord >>)
    /\ hidden' = IF \E w \in SubWriters : Used(w) THEN hidden
                 ELSE hidden \cup UNION {acked[ik] : ik \in IndexKeys}
    /\ job' = [NoJob EXCEPT !.op = "hide"]
    /\ UNCHANGED <<writers, archived, acked>>

(* overlayDB: Other is mounted on Main, with the whole path of its toc. *)
Mount ==
    /\ Starts("overlay", {})
    /\ disk' = Appended(TocPath(Main), << MountRecord(Main, TocPath(Other)) >>)
    /\ job' = [NoJob EXCEPT !.op = "overlay"]
    /\ UNCHANGED <<writers, archived, acked, hidden>>

(* overlayDB with unmount: the sub-toc is masked by its base name. *)
Unmount ==
    /\ Starts("overlay", {})
    /\ \E i \in DOMAIN AllIndexes : AllIndexes[i].toc = TocPath(Other)
    /\ disk' = Appended(TocPath(Main), << SubTocMaskRecord(TocName) >>)
    /\ job' = [NoJob EXCEPT !.op = "overlay"]
    /\ UNCHANGED <<writers, archived, acked, hidden>>

(* Mutant: the old indexes are masked and no new ones are made. *)
StartReconsolidate_MaskFirst ==
    /\ Starts("reconsolidate", IndexKeys)
    /\ canList(disk, Main)
    /\ job' = NewJob("reconsolidate", IndexKeys, NoLists,
          << Record([i \in DOMAIN AllIndexes |->
                       ClearRecord(Base(AllIndexes[i].path), AllIndexes[i].offset)]) >>, "running")
    /\ UNCHANGED <<disk, writers, archived, acked, hidden>>

(***************************************************************************)
(* reconsolidateIndexesAndTocs: every field is put into a new index of its *)
(* key, from the newest index to the oldest, so that the oldest value      *)
(* stays.  The new indexes are flushed before the old ones, and the        *)
(* sub-tocs (mounted ones too), are masked in one block.                   *)
(***************************************************************************)
StartReconsolidate ==
    LET all == AllIndexes
        of(ik) == SelectSeq(all, LAMBDA e : e.ik = ik)
        tool == ToString(started)
        new(ik) ==
          LET e == of(ik)[Len(of(ik))]
              ref == Relative(Main, Resolve(Dir(e.path), disk[e.path][e.offset].data))
          IN  Index(IndexPath(tool, ik), Loc(ref, disk[e.path][e.offset].n),
                    IndexEntry(Base(IndexPath(tool, ik)), 1, ik, {ref}))
        inMaster == SelectSeq(all, LAMBDA e : e.toc = TocPath(Main))
        subtocs == InOrder({e.toc : e \in ToSet(all)} \ {TocPath(Main)})
        masks == [i \in DOMAIN inMaster |-> ClearRecord(Base(inMaster[i].path), inMaster[i].offset)]
                 \o [i \in DOMAIN subtocs |-> SubTocMaskRecord(Base(subtocs[i]))]
    IN
    /\ Starts("reconsolidate", IndexKeys)
    /\ canList(disk, Main)
    /\ job' = NewJob("reconsolidate", IndexKeys, NoLists,
          Each(new, {ik \in IndexKeys : of(ik) # << >>}) \o << Record(masks) >>, "running")
    /\ UNCHANGED <<disk, writers, archived, acked, hidden>>

(***************************************************************************)
(* fdb-lock: control with Enable removes a lock file, with Disable makes   *)
(* it.  Of the four locks it offers, the two that the actions here heed.   *)
(***************************************************************************)
Control(id) ==
    /\ Starts("lock", {})
    /\ disk' = IF enabled(Main, id) THEN disk @@ (LockPath(Main, id) :> << >>)
               ELSE Without({LockPath(Main, id)})
    /\ job' = [NoJob EXCEPT !.op = "lock"]
    /\ UNCHANGED <<writers, archived, acked, hidden>>

(***************************************************************************)
(* One change of the plan.  A record cannot be appended to a toc, nor a    *)
(* file copied, that is gone: the tool throws and ends.                    *)
(***************************************************************************)
Change(step) ==
    CASE step.do = "unlink" -> Without({step.path})
      [] step.do = "lock" -> disk @@ [p \in {LockPath(Main, id) : id \in step.ids} |-> << >>]
      [] step.do = "copy" -> [p \in {At(Dest, Base(q)) : q \in step.paths} |-> disk[At(Main, Base(p))]] @@ disk
      [] step.do = "append" -> Appended(TocPath(Main), step.records)
      [] step.do = "index" -> Appended(TocPath(Main), step.records) @@ (step.path :> <<step.loc>>)

CanChange(step) ==
    CASE step.do = "copy" -> step.paths \subseteq DOMAIN disk
      [] step.do \in {"append", "index"} -> TocPath(Main) \in DOMAIN disk
      [] OTHER -> TRUE

ToolStep ==
    /\ job.state = "running"
    /\ job.plan # << >>
    /\ IF CanChange(Head(job.plan))
       THEN /\ disk' = Change(Head(job.plan))
            /\ job' = IF Len(job.plan) = 1 THEN Ended ELSE [job EXCEPT !.plan = Tail(@)]
       ELSE /\ job' = Ended
            /\ UNCHANGED disk
    /\ UNCHANGED <<writers, archived, started, acked, hidden>>

(* After the last tool a death cannot be told from a tool that stands still. *)
ToolDies ==
    /\ Crashes
    /\ started < MaxTools
    /\ job.state # "done"
    /\ job' = Ended
    /\ UNCHANGED <<disk, writers, archived, started, acked, hidden>>

Next ==
    \/ \E w \in Writers : OpenForArchive(w) \/ Flush(w) \/ Close(w) \/ WriterDies(w)
    \/ \E w \in Writers, ik \in IndexKeys : Archive(w, ik)
    \/ \E request \in (SUBSET IndexKeys) \ {{}} : StartWipe(request)
    \/ \E unsafe \in UnsafeWipes : CompleteWipe(unsafe)
    \/ StartPurge \/ StartMove \/ Hide \/ Mount \/ Unmount \/ StartReconsolidate
    \/ \E keep \in BOOLEAN : ScanForMove(keep)
    \/ \E id \in {"archive", "wipe"} : Control(id)
    \/ ToolStep \/ ToolDies

Spec == Init /\ [][Next]_vars

----------------------------------------------------------------------------
(* The values of the state variables. *)
TypeOK ==
    /\ \A w \in Writers :
          /\ writers[w].pc \in {"closed", "open", "dead"}
          /\ \A ik \in IndexKeys : writers[w].pend[ik] \in 0..archived
          /\ writers[w].sub => w \in SubWriters
    /\ job.op \in Tools \cup {"none"} /\ job.state \in {"visited", "running", "done"}
    /\ \A p \in DOMAIN disk : Dir(p) \in {Main, Other, Dest}
    /\ hidden \subseteq UNION {acked[ik] : ik \in IndexKeys}

(***************************************************************************)
(* A wipe leaves nothing behind that a later wipe would not know: as long  *)
(* as the database can be opened, every file that a flush recorded in it   *)
(* is found again through the visible entries or through the masked ones,  *)
(* whichever tool died after whichever of its changes (TocWipeVisitor.cc,  *)
(* addMaskedPaths and calculateResidualPaths: such a file would be         *)
(* residual and stop every full wipe).                                     *)
(***************************************************************************)
NothingOrphaned ==
    /\ TypeOK
    /\ Openable(Main) =>
        LET masked == enumerateMasked(disk, TocPath(Main))
            visible == ToSet(AllIndexes)
            known == masked.metadata \cup masked.data \cup {e.path : e \in visible}
                       \cup UNION {dataPaths(e) : e \in visible}
        IN  Broken \in visible \/ \A p \in FilesOf(Main) :
                (p[2] = "data" /\ disk[p] # {}) \/ (p[2] \in {"index", "full"} /\ disk[p] # << >>)
                    => p \in known

(***************************************************************************)
(* Whatever is mounted, reconsolidated, wiped or purged on Main, the files *)
(* of the other database are never changed ("ensure we can't delete        *)
(* another DBs data", TocWipeVisitor::visitIndex); and after a wipe of     *)
(* some keys every field of another key that could be retrieved when the   *)
(* wipe looked can still be retrieved, at every step of the wipe, after it *)
(* died, and beside writers (safePaths_).                                  *)
(***************************************************************************)
WipeKeepsOthers ==
    /\ \A p \in DOMAIN OtherFiles : p \in DOMAIN disk /\ disk[p] = OtherFiles[p]
    /\ job.op = "wipe" =>
        \A ik \in IndexKeys \ job.request :
            job.before[ik] \notin {NoField, Error} => Lookup(Main, ik) \notin {NoField, Error}

(***************************************************************************)
(* "Purge duplicate entries from the database" (purge.rst): at every step  *)
(* of a purge every field is found with the value it had, or a newer one,  *)
(* and the database can be listed.                                         *)
(***************************************************************************)
PurgeIsInvisible ==
    job.op = "purge" =>
        /\ canList(disk, Main)
        /\ \A ik \in IndexKeys :
              job.before[ik] \notin {NoField, Error} =>
                  Lookup(Main, ik) \in {job.before[ik]} \cup (job.since + 1 .. MaxArchives)

(***************************************************************************)
(* The same where the code can keep it: no writer had files when the purge *)
(* started (LivePurges is FALSE), every visible index is recorded in the   *)
(* master toc, and nothing that was mounted has been unmounted.            *)
(***************************************************************************)
PlainPurgeIsInvisible == job.plain => PurgeIsInvisible

(***************************************************************************)
(* A move beside which no writer was open: at every step, and wherever the *)
(* mover dies, every field is found with its value in the source or in the *)
(* destination (the toc is copied last and removed first).                 *)
(***************************************************************************)
MoveKeepsFields ==
    job.op = "move" /\ job.quiet =>
        \A ik \in IndexKeys :
            job.before[ik] \notin {NoField, Error} =>
                job.before[ik] \in {Lookup(Main, ik), Lookup(Dest, ik)}

(***************************************************************************)
(* "This masks all existing entries in the database such that they are     *)
(* permanently inaccessible" (hide.rst): a field that was flushed before a *)
(* hide is never found again, whatever is flushed, compacted, mounted or   *)
(* reconsolidated later (no sub-toc writer having fields at the hide).        *)
(***************************************************************************)
HiddenStaysHidden == hidden = {} \/ \A ik \in IndexKeys : Lookup(Main, ik) \notin hidden

(***************************************************************************)
(* A reconsolidation loses no field at any step: the new indexes are       *)
(* recorded before the old ones are masked, beside writers and when it     *)
(* dies in between (the data of every visible index being there: the value *)
(* it keeps is the oldest).                                                *)
(***************************************************************************)
ReconsolidateKeepsFields ==
    job.op = "reconsolidate" /\ job.intact =>
        \A ik \in IndexKeys :
            job.before[ik] \notin {NoField, Error} => Lookup(Main, ik) \notin {NoField, Error}

=============================================================================
