------------------------------ MODULE TocWriter ------------------------------
(***************************************************************************)
(* Processes that archive into one FDB database of type "toc" and flush,   *)
(* at the granularity of the system calls other processes can observe      *)
(* (DB.cc, TocStore.cc, FDBFileHandle.cc, TocCatalogueWriter.cc,           *)
(* TocIndex.cc, TocHandler.cc).                                            *)
(*                                                                         *)
(* A process is one writing DB object: it lives from the construction of   *)
(* the TocCatalogueWriter to its destructor or its crash.  For every       *)
(* index key it owns one data file and one index file ("part"), which      *)
(* gets a new section (a B-tree) at each flush; with sub-tocs it also      *)
(* owns a "full" index file that holds everything the process ever         *)
(* archived and is published once, when the writer is cleaned up.          *)
(*                                                                         *)
(* Files are never removed here (wipe, purge and move are other            *)
(* components).  A write either happens or, when IOErrors allows it, fails *)
(* as a whole and throws; torn writes and the loss of the machine's page   *)
(* cache are not modelled.                                                 *)
(***************************************************************************)
EXTENDS Naturals, Sequences, FiniteSets, Toc

CONSTANTS
    Procs,        \* writing DB objects, one per process
    SubTocProcs,  \* the processes configured with useSubToc
    IndexKeys,    \* second-level keys: one index, one data file each
    FieldKeys,    \* third-level keys: the fields of an index
    MayArchive,   \* [Procs -> SUBSET (IndexKeys \X FieldKeys)]
    Master,       \* the name of the database's toc
    NoField,      \* an absent entry
    MaxArchives,  \* bound: fields archived in a behaviour
    Crashes,      \* BOOLEAN: processes may crash
    IOErrors      \* BOOLEAN: a write may fail and throw

ASSUME ProcAssumption == SubTocProcs \subseteq Procs /\ Master \notin Procs
ASSUME ArchiveAssumption ==
    /\ MayArchive \in [Procs -> SUBSET (IndexKeys \X FieldKeys)]
    /\ MaxArchives \in Nat
    /\ Crashes \in BOOLEAN /\ IOErrors \in BOOLEAN

(* Names: a process's sub-toc is named by the process. *)
TocFiles == {Master} \cup Procs
DataFiles == Procs \X IndexKeys
IndexFiles == Procs \X IndexKeys \X {"part", "full"}
Part(p, ik) == <<p, ik, "part">>
Full(p, ik) == <<p, ik, "full">>
DataOf(x) == <<x[1], x[2]>>

(* A field as archived: who archived it, its key, and the when of it. *)
Values == [proc : Procs, ik : IndexKeys, fk : FieldKeys, n : 1..MaxArchives]

(* TocFieldLocation: a data file and a position in it. *)
Locations == [file : DataFiles, pos : Nat]
ASSUME NoFieldAssumption == NoField \notin Locations /\ NoField \notin Values

(* The entries of a B-tree. *)
Entries == [FieldKeys -> Locations \cup {NoField}]
EmptyTree == [fk \in FieldKeys |-> NoField]

TocRecords ==
    {InitRecord}
    \cup [tag : {"TOC_INDEX"}, path : IndexFiles, offset : Nat]
    \cup [tag : {"TOC_SUB_TOC", "TOC_CLEAR"}, path : Procs, offset : {0}]

PCs == {"start", "schema", "init", "idle", "flushData", "flushIndexes",
        "newSubToc", "linkSubToc", "writeIndex", "compact", "closed", "crashed"}

VARIABLES
    (* files *)
    exists,    \* toc files that have been created
    schema,    \* BOOLEAN: the database has its copy of the schema
    tocs,      \* [TocFiles -> Seq(record)]
    sections,  \* [IndexFiles -> Seq(Entries)]: flushed B-trees, by offset
    data,      \* [DataFiles -> Seq(Values)]: what has reached the file
    (* memory of the processes *)
    pc,        \* [Procs -> PCs]
    closing,   \* [Procs -> BOOLEAN]: the destructors are running
    current,   \* [Procs -> IndexKeys]: the index whose record is being written
    buf,       \* [DataFiles -> Seq(Values)]: stdio buffer of the data handle
    btree,     \* [IndexFiles -> Entries]: the open B-tree
    ixDirty,   \* [IndexFiles -> BOOLEAN]: TocIndex::dirty_
    ixOffset,  \* [IndexFiles -> Nat]: TocIndex::location_.offset_ (section number)
    dirty,     \* [Procs -> [fdb, store, catalogue : BOOLEAN]]
    subToc,    \* [Procs -> BOOLEAN]: subTocWrite_ is set
    toPublish, \* [Procs -> SUBSET IndexFiles]: full indexes in compaction's buffer
    (* history *)
    count,     \* fields archived so far
    unacked,   \* [Procs -> SUBSET Values]: archived since the last flush returned
    acked      \* fields whose flush has returned

files == <<exists, schema, tocs, sections, data>>
memory == <<pc, closing, current, buf, btree, ixDirty, ixOffset, dirty, subToc, toPublish>>
history == <<count, unacked, acked>>
vars == <<files, memory, history>>

----------------------------------------------------------------------------
Init ==
    /\ exists = {}
    /\ schema = FALSE
    /\ tocs = [t \in TocFiles |-> << >>]
    /\ sections = [x \in IndexFiles |-> << >>]
    /\ data = [d \in DataFiles |-> << >>]
    /\ pc = [p \in Procs |-> "start"]
    /\ closing = [p \in Procs |-> FALSE]
    /\ current = [p \in Procs |-> NoField]
    /\ buf = [d \in DataFiles |-> << >>]
    /\ btree = [x \in IndexFiles |-> EmptyTree]
    /\ ixDirty = [x \in IndexFiles |-> FALSE]
    /\ ixOffset = [x \in IndexFiles |-> 1]
    /\ dirty = [p \in Procs |-> [fdb |-> FALSE, store |-> FALSE, catalogue |-> FALSE]]
    /\ subToc = [p \in Procs |-> FALSE]
    /\ toPublish = [p \in Procs |-> {}]
    /\ count = 0
    /\ unacked = [p \in Procs |-> {}]
    /\ acked = {}

Goto(p, label) == pc' = [pc EXCEPT ![p] = label]
AppendToc(t, recs) == tocs' = [tocs EXCEPT ![t] = @ \o recs]

----------------------------------------------------------------------------
(***************************************************************************)
(* Construction of the TocCatalogueWriter: writeInitRecord in three steps  *)
(* that another process may interleave.  The only lock is a mutex inside   *)
(* the process.  OpenToc creates the directory and the toc (O_CREAT, not   *)
(* O_EXCL) and reads the first record.                                     *)
(***************************************************************************)
OpenToc(p) ==
    /\ pc[p] = "start"
    /\ exists' = exists \cup {Master}
    /\ Goto(p, IF tocs[Master] = << >> THEN "schema" ELSE "idle")
    /\ UNCHANGED <<schema, tocs, sections, data, closing, current, buf, btree, ixDirty,
                   ixOffset, dirty, subToc, toPublish, history>>

(* The schema is copied to a temporary file and renamed into place. *)
CopySchema(p) ==
    /\ pc[p] = "schema"
    /\ schema' = TRUE
    /\ Goto(p, "init")
    /\ UNCHANGED <<exists, tocs, sections, data, closing, current, buf, btree, ixDirty,
                   ixOffset, dirty, subToc, toPublish, history>>

(***************************************************************************)
(* The INIT record goes to the position at which the toc was found empty,  *)
(* offset zero: the file is not open for append.  A process that lost the  *)
(* race overwrites the winner's INIT record with its own, of the same      *)
(* size, and leaves what follows it alone.                                 *)
(***************************************************************************)
WriteInit(p) ==
    /\ pc[p] = "init"
    /\ tocs' = [tocs EXCEPT ![Master] = <<InitRecord>> \o Tail(IF @ = << >> THEN <<InitRecord>> ELSE @)]
    /\ Goto(p, "idle")
    /\ UNCHANGED <<exists, schema, sections, data, closing, current, buf, btree, ixDirty,
                   ixOffset, dirty, subToc, toPublish, history>>

----------------------------------------------------------------------------
(* The trees an archived field is put into: the index and, with sub-tocs, the full index. *)
PutInto_NoFull(p, ik) == {Part(p, ik)}   \* mutant
PutInto(p, ik) == {Part(p, ik)} \cup (IF p \in SubTocProcs THEN {Full(p, ik)} ELSE {})

(***************************************************************************)
(* FDB::archive -> DB::archive: the store appends the field to the         *)
(* buffered data handle and returns the position before the write; the     *)
(* catalogue puts the location into the current index and, with sub-tocs,  *)
(* into the full one.  Nothing is visible to other processes yet.          *)
(***************************************************************************)
Archive(p, ik, fk) ==
    LET d == <<p, ik>>
        v == [proc |-> p, ik |-> ik, fk |-> fk, n |-> count + 1]
        loc == [file |-> d, pos |-> Len(data[d]) + Len(buf[d]) + 1]
        put == PutInto(p, ik)
    IN
    /\ pc[p] = "idle"
    /\ count < MaxArchives
    /\ <<ik, fk>> \in MayArchive[p]
    /\ buf' = [buf EXCEPT ![d] = Append(@, v)]
    /\ btree' = [x \in IndexFiles |-> IF x \in put THEN [btree[x] EXCEPT ![fk] = loc] ELSE btree[x]]
    /\ ixDirty' = [x \in IndexFiles |-> ixDirty[x] \/ x \in put]
    /\ dirty' = [dirty EXCEPT ![p] = [fdb |-> TRUE, store |-> TRUE, catalogue |-> TRUE]]
    /\ count' = count + 1
    /\ unacked' = [unacked EXCEPT ![p] = @ \cup {v}]
    /\ UNCHANGED <<files, pc, closing, current, ixOffset, subToc, toPublish, acked>>

(* stdio writes a full buffer out whenever it likes. *)
Spill(p, ik) ==
    LET d == <<p, ik>> IN
    /\ buf[d] # << >>
    /\ data' = [data EXCEPT ![d] = Append(@, Head(buf[d]))]
    /\ buf' = [buf EXCEPT ![d] = Tail(@)]
    /\ UNCHANGED <<exists, schema, tocs, sections, pc, closing, current, btree, ixDirty,
                   ixOffset, dirty, subToc, toPublish, history>>

----------------------------------------------------------------------------
(***************************************************************************)
(* FDB::flush returns at once unless something was archived; otherwise     *)
(* DB::flush flushes the store, then the catalogue.                        *)
(***************************************************************************)
Flush(p) ==
    /\ pc[p] = "idle"
    /\ dirty[p].fdb
    /\ Goto(p, "flushData")
    /\ UNCHANGED <<files, closing, current, buf, btree, ixDirty, ixOffset, dirty, subToc,
                   toPublish, history>>

(* ~Archiver: flush, then destroy the DB; the TocCatalogueWriter's destructor cleans up. *)
Close(p) ==
    /\ pc[p] = "idle"
    /\ closing' = [closing EXCEPT ![p] = TRUE]
    /\ Goto(p, "flushData")
    /\ UNCHANGED <<files, current, buf, btree, ixDirty, ixOffset, dirty, subToc, toPublish,
                   history>>

(* TocStore::flushDataHandles, one handle: FDBFileHandle::flush writes the buffer out. *)
FlushHandle(p, ik) ==
    LET d == <<p, ik>> IN
    /\ pc[p] = "flushData"
    /\ dirty[p].store
    /\ buf[d] # << >>
    /\ data' = [data EXCEPT ![d] = @ \o buf[d]]
    /\ buf' = [buf EXCEPT ![d] = << >>]
    /\ UNCHANGED <<exists, schema, tocs, sections, pc, closing, current, btree, ixDirty,
                   ixOffset, dirty, subToc, toPublish, history>>

(* Mutant: the data handles are not flushed. *)
StoreFlushed_Skips(p) ==
    /\ pc[p] = "flushData"
    /\ dirty' = [dirty EXCEPT ![p].store = FALSE]
    /\ Goto(p, "flushIndexes")
    /\ UNCHANGED <<files, closing, current, buf, btree, ixDirty, ixOffset, subToc, toPublish,
                   history>>

(* TocStore::flush has nothing (more) to do. *)
StoreFlushed(p) ==
    /\ pc[p] = "flushData"
    /\ dirty[p].store => \A ik \in IndexKeys : buf[<<p, ik>>] = << >>
    /\ dirty' = [dirty EXCEPT ![p].store = FALSE]
    /\ Goto(p, "flushIndexes")
    /\ UNCHANGED <<files, closing, current, buf, btree, ixDirty, ixOffset, subToc, toPublish,
                   history>>

(***************************************************************************)
(* TocIndex::flush: the B-tree's pages are written and synced, at the      *)
(* index's offset.  A tree whose record could not be written earlier is    *)
(* still open at the same offset and is written over its older self.       *)
(***************************************************************************)
WriteTree(x) ==
    sections' = [sections EXCEPT ![x] =
                    IF ixOffset[x] <= Len(@) THEN [@ EXCEPT ![ixOffset[x]] = btree[x]]
                                             ELSE Append(@, btree[x])]

(* Mutant: the sub-toc is linked and never created. *)
FlushIndex_LinksFirst(p, ik) ==
    LET x == Part(p, ik) IN
    /\ pc[p] = "flushIndexes"
    /\ dirty[p].catalogue
    /\ ixDirty[x]
    /\ WriteTree(x)
    /\ ixDirty' = [ixDirty EXCEPT ![x] = FALSE]
    /\ current' = [current EXCEPT ![p] = ik]
    /\ Goto(p, IF p \in SubTocProcs /\ ~subToc[p] THEN "linkSubToc" ELSE "writeIndex")
    /\ UNCHANGED <<exists, schema, tocs, data, closing, buf, btree, ixOffset, dirty, subToc,
                   toPublish, history>>

(***************************************************************************)
(* TocCatalogueWriter::flushIndexes, one dirty index: flush the tree, then *)
(* (next steps) write its record, creating the sub-toc if this is the      *)
(* first record of a process that uses one.                                *)
(***************************************************************************)
FlushIndex(p, ik) ==
    LET x == Part(p, ik) IN
    /\ pc[p] = "flushIndexes"
    /\ dirty[p].catalogue
    /\ ixDirty[x]
    /\ WriteTree(x)
    /\ ixDirty' = [ixDirty EXCEPT ![x] = FALSE]
    /\ current' = [current EXCEPT ![p] = ik]
    /\ Goto(p, IF p \in SubTocProcs /\ ~subToc[p] THEN "newSubToc" ELSE "writeIndex")
    /\ UNCHANGED <<exists, schema, tocs, data, closing, buf, btree, ixOffset, dirty, subToc,
                   toPublish, history>>

(* writeIndexRecord: a new sub-toc, under a unique name, with its INIT record. *)
NewSubToc(p) ==
    /\ pc[p] = "newSubToc"
    /\ exists' = exists \cup {p}
    /\ AppendToc(p, <<InitRecord>>)
    /\ subToc' = [subToc EXCEPT ![p] = TRUE]
    /\ Goto(p, "linkSubToc")
    /\ UNCHANGED <<schema, sections, data, closing, current, buf, btree, ixDirty, ixOffset,
                   dirty, toPublish, history>>

(* writeSubTocRecord: the redirection record in the master toc. *)
LinkSubToc(p) ==
    /\ pc[p] = "linkSubToc"
    /\ AppendToc(Master, <<SubTocRecord(p)>>)
    /\ Goto(p, "writeIndex")
    /\ UNCHANGED <<exists, schema, sections, data, closing, current, buf, btree, ixDirty,
                   ixOffset, dirty, subToc, toPublish, history>>

(***************************************************************************)
(* The INDEX record is appended to the process's sub-toc or to the master  *)
(* toc with one write; then TocIndex::reopen starts an empty tree at the   *)
(* end of the index file.  A sub-toc without an INIT record cannot be      *)
(* appended to: checkUID finds no owner and throws.                        *)
(***************************************************************************)
WriteIndex(p) ==
    LET x == Part(p, current[p])
        t == IF subToc[p] THEN p ELSE Master
    IN
    /\ pc[p] = "writeIndex"
    /\ tocs[t] # << >>
    /\ AppendToc(t, <<IndexRecord(x, ixOffset[x])>>)
    /\ btree' = [btree EXCEPT ![x] = EmptyTree]
    /\ ixOffset' = [ixOffset EXCEPT ![x] = Len(sections[x]) + 1]
    /\ current' = [current EXCEPT ![p] = NoField]
    /\ Goto(p, "flushIndexes")
    /\ UNCHANGED <<exists, schema, sections, data, closing, buf, ixDirty, dirty, subToc,
                   toPublish, history>>

(* TocCatalogueWriter::flush returns, and with it FDB::flush: the fields are acknowledged. *)
CatalogueFlushed(p) ==
    /\ pc[p] = "flushIndexes"
    /\ dirty[p].catalogue => \A ik \in IndexKeys : ~ixDirty[Part(p, ik)]
    /\ dirty' = [dirty EXCEPT ![p] = [@ EXCEPT !.catalogue = FALSE, !.fdb = FALSE]]
    /\ acked' = acked \cup unacked[p]
    /\ unacked' = [unacked EXCEPT ![p] = {}]
    /\ Goto(p, IF closing[p] THEN "compact" ELSE "idle")
    /\ UNCHANGED <<files, closing, current, buf, btree, ixDirty, ixOffset, subToc, toPublish,
                   count>>

----------------------------------------------------------------------------
(***************************************************************************)
(* compactSubTocIndexes, called by clean() when something was written to a *)
(* sub-toc.  FlushFull writes one full index and adds its record to the    *)
(* block; Compact appends the block - the full indexes and the mask of the *)
(* sub-toc - to the master toc with one write.                             *)
(***************************************************************************)
FlushFull(p, ik) ==
    LET x == Full(p, ik) IN
    /\ pc[p] = "compact"
    /\ subToc[p]
    /\ ixDirty[x]
    /\ WriteTree(x)
    /\ ixDirty' = [ixDirty EXCEPT ![x] = FALSE]
    /\ toPublish' = [toPublish EXCEPT ![p] = @ \cup {x}]
    /\ UNCHANGED <<exists, schema, tocs, data, pc, closing, current, buf, btree, ixOffset,
                   dirty, subToc, history>>

(* Mutants: the full indexes are left out; the sub-toc is not masked. *)
CompactionBlock_MaskOnly(p) == <<SubTocMaskRecord(p)>>
CompactionBlock_NoMask(p) ==
    [i \in 1..Cardinality(toPublish[p]) |->
        LET x == SetToSeq(toPublish[p])[i] IN IndexRecord(x, ixOffset[x])]

(* The records of the block: the full indexes written, then the mask. *)
CompactionBlock(p) ==
    [i \in 1..Cardinality(toPublish[p]) |->
        LET x == SetToSeq(toPublish[p])[i] IN IndexRecord(x, ixOffset[x])]
    \o <<SubTocMaskRecord(p)>>

Compact(p) ==
    /\ pc[p] = "compact"
    /\ subToc[p]
    /\ \A ik \in IndexKeys : ~ixDirty[Full(p, ik)]
    /\ AppendToc(Master, CompactionBlock(p))
    /\ Goto(p, "closed")
    /\ UNCHANGED <<exists, schema, sections, data, closing, current, buf, btree, ixDirty,
                   ixOffset, dirty, subToc, toPublish, history>>

(* No sub-toc was written: nothing to compact. *)
NothingToCompact(p) ==
    /\ pc[p] = "compact"
    /\ ~subToc[p]
    /\ Goto(p, "closed")
    /\ UNCHANGED <<files, closing, current, buf, btree, ixDirty, ixOffset, dirty, subToc,
                   toPublish, history>>

----------------------------------------------------------------------------
(* Mutant: TocStore::flush clears dirty_ before it flushes the handles. *)
WriteFails_StoreClean(p) ==
    /\ IOErrors
    /\ pc[p] \in {"flushData", "flushIndexes", "newSubToc", "linkSubToc", "writeIndex"}
    /\ ~closing[p]
    /\ exists' = IF pc[p] = "newSubToc" THEN exists \cup {p} ELSE exists
    /\ subToc' = [subToc EXCEPT ![p] = @ \/ pc[p] = "newSubToc"]
    /\ current' = [current EXCEPT ![p] = NoField]
    /\ dirty' = [dirty EXCEPT ![p].store = FALSE]
    /\ Goto(p, "idle")
    /\ UNCHANGED <<schema, tocs, sections, data, closing, buf, btree, ixDirty, ixOffset,
                   toPublish, history>>

(***************************************************************************)
(* A write fails and throws.  flush() is left as it is and the caller may  *)
(* call it again; in a destructor the exception ends the process, which is *)
(* Crash.  The sub-toc handler is already in place when its INIT fails.    *)
(***************************************************************************)
WriteFails(p) ==
    /\ IOErrors
    /\ pc[p] \in {"flushData", "flushIndexes", "newSubToc", "linkSubToc", "writeIndex"}
    /\ ~closing[p]
    /\ exists' = IF pc[p] = "newSubToc" THEN exists \cup {p} ELSE exists
    /\ subToc' = [subToc EXCEPT ![p] = @ \/ pc[p] = "newSubToc"]
    /\ current' = [current EXCEPT ![p] = NoField]
    /\ Goto(p, "idle")
    /\ UNCHANGED <<schema, tocs, sections, data, closing, buf, btree, ixDirty, ixOffset, dirty,
                   toPublish, history>>

(* The process ends without its destructors: what it had not written is gone. *)
Crash(p) ==
    /\ Crashes
    /\ pc[p] \notin {"start", "closed", "crashed"}
    /\ Goto(p, "crashed")
    /\ buf' = [d \in DataFiles |-> IF d[1] = p THEN << >> ELSE buf[d]]
    /\ btree' = [x \in IndexFiles |-> IF x[1] = p THEN EmptyTree ELSE btree[x]]
    /\ ixDirty' = [x \in IndexFiles |-> IF x[1] = p THEN FALSE ELSE ixDirty[x]]
    /\ current' = [current EXCEPT ![p] = NoField]
    /\ unacked' = [unacked EXCEPT ![p] = {}]
    /\ UNCHANGED <<files, closing, ixOffset, dirty, subToc, toPublish, count, acked>>

----------------------------------------------------------------------------
(* The steps a process takes by itself once it has started one of its operations. *)
Step(p) ==
    \/ CopySchema(p) \/ WriteInit(p)
    \/ StoreFlushed(p)
    \/ NewSubToc(p) \/ LinkSubToc(p) \/ WriteIndex(p)
    \/ CatalogueFlushed(p)
    \/ Compact(p) \/ NothingToCompact(p)
    \/ \E ik \in IndexKeys : FlushHandle(p, ik) \/ FlushIndex(p, ik) \/ FlushFull(p, ik)

(* The calls of the application, and what happens to the process. *)
Call(p) ==
    \/ OpenToc(p) \/ Flush(p) \/ Close(p)
    \/ \E ik \in IndexKeys, fk \in FieldKeys : Archive(p, ik, fk)
    \/ \E ik \in IndexKeys : Spill(p, ik)
    \/ WriteFails(p) \/ Crash(p)

(* Every process has ended. *)
Terminated ==
    /\ \A p \in Procs : pc[p] \in {"closed", "crashed"}
    /\ UNCHANGED vars

Next == Terminated \/ \E p \in Procs : Step(p) \/ Call(p)

Spec == Init /\ [][Next]_vars

(* A process that has started an operation keeps running unless it crashes. *)
FairSpec == Spec /\ \A p \in Procs : WF_vars(Step(p))

----------------------------------------------------------------------------
(***************************************************************************)
(* Retrieving.  TocCatalogueReader loads the indexes once, keeps those of  *)
(* the index key, and takes the first one that has the field; TocIndex::get *)
(* turns its reference into a location, which is then read from the data   *)
(* file.  A location past the end of its file reads as Torn.               *)
(***************************************************************************)
Torn == "torn"

Visible == loadIndexes(tocs, Master, 1)

selectIndex(indexes, ik) == {i \in DOMAIN indexes : indexes[i].path[2] = ik}

Has(x, fk) ==
    /\ x.offset \in DOMAIN sections[x.path]
    /\ sections[x.path][x.offset][fk] # NoField

ReadAt(loc) == IF loc.pos \in DOMAIN data[loc.file] THEN data[loc.file][loc.pos] ELSE Torn

RetrieveFrom(indexes, ik, fk) ==
    LET hits == {i \in selectIndex(indexes, ik) : Has(indexes[i], fk)}
        first == CHOOSE i \in hits : \A j \in hits : i <= j
    IN  IF hits = {} THEN NoField
        ELSE ReadAt(sections[indexes[first].path][indexes[first].offset][fk])

Retrieve(ik, fk) == RetrieveFrom(Visible, ik, fk)

----------------------------------------------------------------------------
TypeOK ==
    /\ exists \subseteq TocFiles
    /\ schema \in BOOLEAN
    /\ tocs \in [TocFiles -> Seq(TocRecords)]
    /\ sections \in [IndexFiles -> Seq(Entries)]
    /\ data \in [DataFiles -> Seq(Values)]
    /\ pc \in [Procs -> PCs]
    /\ closing \in [Procs -> BOOLEAN]
    /\ current \in [Procs -> IndexKeys \cup {NoField}]
    /\ buf \in [DataFiles -> Seq(Values)]
    /\ btree \in [IndexFiles -> Entries]
    /\ ixDirty \in [IndexFiles -> BOOLEAN]
    /\ ixOffset \in [IndexFiles -> Nat]
    /\ dirty \in [Procs -> [fdb : BOOLEAN, store : BOOLEAN, catalogue : BOOLEAN]]
    /\ subToc \in [Procs -> BOOLEAN]
    /\ toPublish \in [Procs -> SUBSET IndexFiles]
    /\ count \in 0..MaxArchives
    /\ unacked \in [Procs -> SUBSET Values]
    /\ acked \subseteq Values

(* A location is durable for a key when the data file holds that field there. *)
Durable(loc, ik, fk) ==
    /\ loc.pos \in 1..Len(data[loc.file])
    /\ data[loc.file][loc.pos].ik = ik
    /\ data[loc.file][loc.pos].fk = fk

(***************************************************************************)
(* Whatever a toc record leads to is on disk: the section of every INDEX   *)
(* record of every toc file, masked or not, linked or not, has been        *)
(* written, and every entry of that section names a complete field with    *)
(* that key in its data file.  This is what "ensure consistent state       *)
(* before writing Toc entry" (TocStore::flush) and the order of DB::flush  *)
(* are for, whatever the other processes do and wherever a process dies.   *)
(***************************************************************************)
IndexedIsDurable ==
    \A t \in TocFiles : \A i \in 1..Len(tocs[t]) :
        LET r == tocs[t][i] IN
        r.tag = "TOC_INDEX" =>
            /\ r.offset \in 1..Len(sections[r.path])
            /\ \A fk \in FieldKeys :
                  LET loc == sections[r.path][r.offset][fk] IN
                  loc # NoField => Durable(loc, r.path[2], fk)

(***************************************************************************)
(* A reader can follow every link: a toc that has any record starts with   *)
(* INIT and only after the schema is in place; a linked sub-toc exists and *)
(* starts with INIT, as readNext asserts.  Processes race to initialise    *)
(* the same toc.                                                           *)
(***************************************************************************)
TocsWellFormed ==
    /\ \A t \in TocFiles : tocs[t] # << >> => /\ t \in exists
                                             /\ schema
                                             /\ tocs[t][1] = InitRecord
    /\ \A t \in TocFiles : \A i \in 2..Len(tocs[t]) : tocs[t][i] # InitRecord
    /\ \A i \in 1..Len(tocs[Master]) :
          tocs[Master][i].tag = "TOC_SUB_TOC" => tocs[tocs[Master][i].path] # << >>

(***************************************************************************)
(* Once flush() has returned, its fields can be retrieved: a retrieve of   *)
(* the key finds the field, or one that replaced it - never an older one   *)
(* of the same process, and never nothing (FDB::flush, FDB.h:80).          *)
(***************************************************************************)
FlushedIsRetrievable ==
    \A v \in acked :
        LET r == Retrieve(v.ik, v.fk) IN
        /\ r \in Values
        /\ r.ik = v.ik /\ r.fk = v.fk
        /\ r.proc = v.proc => r.n >= v.n

(***************************************************************************)
(* A writer that is closed ends up, unless it dies, with everything it     *)
(* published reachable from the master toc directly: sub-tocs do not       *)
(* accumulate for readers to walk (compactSubTocIndexes).                  *)
(***************************************************************************)
Compacted(p) ==
    /\ pc[p] = "closed"
    /\ \A i \in DOMAIN Visible : Visible[i].toc # p
    /\ \A v \in acked : v.proc = p => Retrieve(v.ik, v.fk) \in Values
ClosedIsCompacted ==
    \A p \in Procs : closing[p] ~> ([]Compacted(p) \/ pc[p] = "crashed")

----------------------------------------------------------------------------
(***************************************************************************)
(* Why IndexedIsDurable holds: an inductive invariant, in parts.           *)
(***************************************************************************)

(* Everything archived into a data file so far, in the file or still in the buffer. *)
Written(d) == data[d] \o buf[d]

(* Every section of an index file leads to fields of its own data file that are on disk. *)
SectionsDurable ==
    \A x \in IndexFiles : \A s \in 1..Len(sections[x]) : \A fk \in FieldKeys :
        LET loc == sections[x][s][fk] IN
        loc # NoField => loc.file = DataOf(x) /\ Durable(loc, x[2], fk)

(* Every entry of an open tree leads to a field of its own data file, perhaps still buffered. *)
TreesWritten ==
    \A x \in IndexFiles, fk \in FieldKeys :
        LET loc == btree[x][fk] IN
        loc # NoField =>
            /\ loc.file = DataOf(x)
            /\ loc.pos \in 1..Len(Written(DataOf(x)))
            /\ Written(DataOf(x))[loc.pos].ik = x[2]
            /\ Written(DataOf(x))[loc.pos].fk = fk

(* Past the flush of the store nothing is left in a buffer. *)
PublishingPCs == {"flushIndexes", "newSubToc", "linkSubToc", "writeIndex", "compact"}
BuffersFlushed ==
    /\ \A p \in Procs : pc[p] \in PublishingPCs => ~dirty[p].store
    /\ \A p \in Procs, ik \in IndexKeys : ~dirty[p].store => buf[<<p, ik>>] = << >>

(* The tree whose record is about to be written has its section; so have the full indexes. *)
OffsetsWritten ==
    /\ \A x \in IndexFiles : ixOffset[x] \in 1..Len(sections[x]) + 1
    /\ \A p \in Procs : pc[p] \in {"newSubToc", "linkSubToc", "writeIndex"} =>
          /\ current[p] \in IndexKeys
          /\ ixOffset[Part(p, current[p])] <= Len(sections[Part(p, current[p])])
    /\ \A p \in Procs : IsFiniteSet(toPublish[p])
    /\ \A p \in Procs : \A x \in toPublish[p] :
          x[3] = "full" /\ ixOffset[x] <= Len(sections[x])

(* Every INDEX record points at a section that has been written. *)
RecordsWritten ==
    \A t \in TocFiles : \A i \in 1..Len(tocs[t]) :
        tocs[t][i].tag = "TOC_INDEX" =>
            tocs[t][i].offset \in 1..Len(sections[tocs[t][i].path])

(***************************************************************************)
(* Data before index before record, for every file of every process at     *)
(* every step: what makes IndexedIsDurable inductive.                      *)
(***************************************************************************)
WriteOrder ==
    /\ SectionsDurable
    /\ TreesWritten
    /\ BuffersFlushed
    /\ OffsetsWritten
    /\ RecordsWritten

----------------------------------------------------------------------------
(***************************************************************************)
(* Refinement: the files implement FieldStore.  A field is stored when a   *)
(* retrieve finds it; a writer's pending values are those of its open      *)
(* B-trees, in the data file or still in the buffer.                       *)
(***************************************************************************)
WrittenAt(loc) == (data[loc.file] \o buf[loc.file])[loc.pos]

storedFields ==   \* the indexes are loaded once and searched for every field
    CHOOSE m \in {[f \in IndexKeys \X FieldKeys |-> RetrieveFrom(indexes, f[1], f[2])] :
                    indexes \in {Visible}} : TRUE
pendingFields ==
    [p \in Procs |-> [f \in IndexKeys \X FieldKeys |->
        LET loc == btree[Part(p, f[1])][f[2]] IN
        IF loc = NoField THEN NoField ELSE WrittenAt(loc)]]

Fields == INSTANCE FieldStore WITH
    Writers <- Procs, stored <- storedFields, pending <- pendingFields

(***************************************************************************)
(* Every step of the writers is a step of FieldStore or leaves it alone:   *)
(* a field becomes retrievable exactly when the INDEX record of its flush  *)
(* is appended, whole indexes at a time, nothing that was retrievable goes *)
(* away or goes back to an older value, and compaction, races and crashes  *)
(* do not show.                                                            *)
(***************************************************************************)
ImplementsFieldStore == Fields!Spec

=============================================================================
