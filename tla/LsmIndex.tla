------------------------------ MODULE LsmIndex ------------------------------
(***************************************************************************)
(* One index of a toc database kept in one of the two stores behind        *)
(* BTreeIndexFactory: the B-tree of eckit, with a section of the index     *)
(* file for each flush, or Parallax (LSMIndex.cc), with one database for   *)
(* the whole index file, found by the path of the file alone: the offset   *)
(* is not used, and the file itself stays empty.                           *)
(*                                                                         *)
(* Processes follow one another.  Each archives into an index file and a   *)
(* data file of its own, flushes, may die, and serves reads and purges     *)
(* (TocIndex.cc, TocCatalogueWriter.cc, TocPurgeVisitor.cc, TocStats.cc).  *)
(***************************************************************************)
EXTENDS Naturals, Sequences, FiniteSets, FiniteSetsExt, SequencesExt

CONSTANTS
    Keys,          \* datum keys: sequences of values, all of one length
    IndexTypes,    \* what the index may be: "BTreeIndex", "LSMIndex", or "PMemIndex" (not of a toc)
    MaxFields, MaxProcesses   \* bounds

ASSUME LsmAssumption ==
    /\ IndexTypes \subseteq {"BTreeIndex", "LSMIndex", "PMemIndex"}
    /\ {MaxFields, MaxProcesses} \subseteq Nat

VARIABLES
    indexType,  \* type_
    step,       \* where the process is: "none", "idle", "sync", "record", "return", "dead"
    run,        \* the number of the process, also of its index and its data file
    section,    \* location_.offset_ of the index that is written
    stored,     \* per index file and offset: the entries par_sync has made safe
    log,        \* the entries set since: a sequence of <<key, field>>
    axes_, dirty_,
    toc,        \* the records of the toc
    fields,     \* history: key and file of each field, in the order of archive()
    durable,    \* the fields whose data is in its file
    flushed,    \* history: the fields flush() has returned for
    purged      \* history: a purge has found duplicates

lsmvars == <<indexType, step, run, section, stored, log, axes_, dirty_, toc, fields, durable,
             flushed, purged>>

Files == 1..MaxProcesses
Sections == 0..MaxFields
NoField == 0
Empty == [k \in Keys |-> NoField]

LsmInit ==
    /\ indexType \in IndexTypes
    /\ step = "none" /\ run = 0 /\ section = 0
    /\ stored = [f \in Files |-> [s \in Sections |-> Empty]]
    /\ log = <<>> /\ axes_ = {} /\ dirty_ = FALSE
    /\ toc = <<>> /\ fields = <<>> /\ durable = {} /\ flushed = {} /\ purged = FALSE

----------------------------------------------------------------------------
(* What is read.                                                            *)

(* set() replaces the entry of the key. *)
Applied(entries, puts) ==
    [k \in Keys |->
        LET those == {i \in DOMAIN puts : puts[i][1] = k}
        IN  IF those = {} THEN entries[k] ELSE puts[Max(those)][2]]

(* What get() and visit() of the index at an offset of a file read.  All the *)
(* LSMIndex objects of a process with the same path share one handle, so     *)
(* they read what was put a moment ago; a section of a B-tree that is in the *)
(* toc does not change any more.                                             *)
Entries(file, offset) ==
    IF file = run /\ offset = section THEN Applied(stored[file][offset], log) ELSE stored[file][offset]

(* location_.path_.size(), at reopen: the file of an LSMIndex is a dummy.  *)
FileSize(file) == IF indexType = "LSMIndex" THEN 0 ELSE section + 1

Masked_(r) == \E c \in ToSet(toc) : c.tag = "TOC_CLEAR" /\ c.path = r.path /\ c.offset = r.offset

(* The indexes of the catalogue, by where they are in the toc: the last is *)
(* the first to be asked.                                                  *)
Indexes_ == {i \in DOMAIN toc : toc[i].tag = "TOC_INDEX" /\ ~Masked_(toc[i])}

Entry(i, k) == Entries(toc[i].path, toc[i].offset)[k]
HasEntry(i, k) == Entry(i, k) # NoField

(* IndexBase::mayContain: each value of the key is in its axis. *)
MayContain(axes, k) == \A i \in DOMAIN k : \E other \in axes : other[i] = k[i]

(* TocCatalogueReader::retrieve: the first index that has the key. *)
Lookup(k) ==
    LET hits == {i \in Indexes_ : MayContain(toc[i].axes, k) /\ HasEntry(i, k)}
    IN  IF hits = {} THEN NoField ELSE Entry(Max(hits), k)

----------------------------------------------------------------------------
(* The writing process.                                                     *)

(* A new process makes an index file and a data file of its own: the name   *)
(* of both has the time, the host and the process in it.                    *)
LsmOpen ==
    /\ step \in {"none", "dead"} /\ run < MaxProcesses
    /\ step' = "idle" /\ run' = run + 1 /\ section' = 0
    /\ log' = <<>> /\ axes_' = {} /\ dirty_' = FALSE
    /\ UNCHANGED <<indexType, stored, toc, fields, durable, flushed, purged>>

(* Store::archive into the buffer of the data file, then IndexBase::put and  *)
(* TocIndex::add: the axes and the entry.                                    *)
LsmArchive(k) ==
    /\ step = "idle" /\ Len(fields) < MaxFields
    /\ fields' = Append(fields, [key |-> k, path |-> run])
    /\ axes_' = axes_ \cup {k}
    /\ log' = Append(log, <<k, Len(fields) + 1>>)
    /\ dirty_' = TRUE
    /\ UNCHANGED <<indexType, step, run, section, stored, toc, durable, flushed, purged>>

(* flush(): the store first. *)
LsmFlush ==
    /\ step = "idle" /\ dirty_
    /\ durable' = durable \cup {n \in DOMAIN fields : fields[n].path = run}
    /\ step' = "sync"
    /\ UNCHANGED <<indexType, run, section, stored, log, axes_, dirty_, toc, fields, flushed, purged>>

SyncIndex_Forgotten ==   \* mutant: the index is not synchronised
    /\ step = "sync" /\ step' = "record" /\ dirty_' = FALSE
    /\ UNCHANGED <<indexType, run, section, stored, log, axes_, toc, fields, durable, flushed, purged>>

(* TocIndex::flush: par_sync, twice. *)
SyncIndex ==
    /\ step = "sync" /\ step' = "record" /\ dirty_' = FALSE
    /\ stored' = [stored EXCEPT ![run][section] = Applied(@, log)]
    /\ log' = <<>>
    /\ UNCHANGED <<indexType, run, section, axes_, toc, fields, durable, flushed, purged>>

(* writeIndexRecord and TocIndex::reopen, at the end of the file: the axes  *)
(* are those of the fields since the flush before.                          *)
WriteRecord ==
    /\ step = "record" /\ step' = "return"
    /\ toc' = Append(toc, [tag |-> "TOC_INDEX", path |-> run, offset |-> section, axes |-> axes_])
    /\ section' = FileSize(run)
    /\ axes_' = {}
    /\ UNCHANGED <<indexType, run, stored, log, dirty_, fields, durable, flushed, purged>>

LsmFlushReturns ==
    /\ step = "return" /\ step' = "idle"
    /\ flushed' = flushed \cup {n \in DOMAIN fields : fields[n].path = run}
    /\ UNCHANGED <<indexType, run, section, stored, log, axes_, dirty_, toc, fields, durable, purged>>

(* The process dies (or ends: par_close is never called).  Of the entries    *)
(* since the last par_sync the store has kept the first few, of the fields   *)
(* in the buffer the file has the first few.                                 *)
LsmCrash ==
    /\ step \notin {"none", "dead"}
    /\ \E kept \in 0..Len(log) :
          stored' = [stored EXCEPT ![run][section] = Applied(@, SubSeq(log, 1, kept))]
    /\ \E last \in 0..Len(fields) :
          durable' = durable \cup {n \in 1..last : fields[n].path = run}
    /\ step' = "dead" /\ log' = <<>>
    /\ UNCHANGED <<indexType, run, section, axes_, dirty_, toc, fields, flushed, purged>>

----------------------------------------------------------------------------
(* Purge, in one step (Maintenance has its steps).                          *)

(* TocStatsReportVisitor::visitDatum: the first to give an entry is the one  *)
(* that is reached; an index is a duplicate when it gives no first entry.    *)
FirstGivenBy(i, k) == HasEntry(i, k) /\ \A j \in Indexes_ : j > i => ~HasEntry(j, k)
WhollyDuplicate(i) ==
    (\E k \in Keys : HasEntry(i, k)) /\ \A k \in Keys : ~FirstGivenBy(i, k)
Used(file) == \E i \in Indexes_, k \in Keys : toc[i].path = file /\ FirstGivenBy(i, k)

(* TocPurgeVisitor::purge: a record for each index that is a duplicate, and  *)
(* the files no field is reached in go.                                      *)
LsmPurge ==
    LET duplicates == {i \in Indexes_ : WhollyDuplicate(i)}
        clears == {[tag |-> "TOC_CLEAR", path |-> toc[i].path, offset |-> toc[i].offset] : i \in duplicates}
        unused == {r.path : r \in {q \in ToSet(toc) : ~Used(q.path)}}
    IN
    /\ step \in {"idle", "dead"} /\ duplicates # {}
    /\ toc' = toc \o SetToSeq(clears)
    /\ durable' = {n \in durable : fields[n].path \notin unused}
    /\ purged' = TRUE
    /\ UNCHANGED <<indexType, step, run, section, stored, log, axes_, dirty_, fields, flushed>>

LsmNext ==
    \/ LsmOpen \/ LsmFlush \/ SyncIndex \/ WriteRecord \/ LsmFlushReturns \/ LsmCrash \/ LsmPurge
    \/ \E k \in Keys : LsmArchive(k)

LsmSpec == LsmInit /\ [][LsmNext]_lsmvars

----------------------------------------------------------------------------
Newest(k) == Max({n \in flushed : fields[n].key = k} \cup {NoField})

(***************************************************************************)
(* The last field of a key that a flush returned for is found, with its    *)
(* data, or one that was archived later, in both stores, across restarts.  *)
(* What is found in a B-tree has its data, and a purge changes nothing;    *)
(* an LSMIndex may give a later field that was neither written nor         *)
(* flushed, and after a purge it promises nothing.                         *)
(***************************************************************************)
IndexFinds ==
    \A k \in Keys :
        LET n == Newest(k)  found == Lookup(k)  btree == indexType = "BTreeIndex" IN
        /\ n # NoField /\ (btree \/ ~purged) =>
              found >= n /\ fields[found].key = k /\ (found = n => n \in durable)
        /\ btree /\ found # NoField => found \in durable

(***************************************************************************)
(* "Purge duplicate entries from the database" (purge.rst): what can be    *)
(* retrieved is what could be retrieved before.                            *)
(***************************************************************************)
PurgeKeepsFields == [][LsmPurge => \A k \in Keys : Lookup(k)' = Lookup(k)]_lsmvars
=============================================================================
