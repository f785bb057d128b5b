------------------------------ MODULE Archiver ------------------------------
(***************************************************************************)
(* The archiving side of one process over several databases: LocalFDB,     *)
(* Archiver, (Base)ArchiveVisitor and the part of Rule::expand that        *)
(* decides what to select (FDB.cc, Archiver.cc, BaseArchiveVisitor.cc,     *)
(* ArchiveVisitor.cc, Rule.cc, DB.cc).                                     *)
(*                                                                         *)
(* The Archiver keeps at most fdbMaxNbDBsOpen databases open and evicts    *)
(* the least recently selected one.  The selection of the previous field   *)
(* is remembered (prev_) so that a run of fields with the same keys skips  *)
(* it.  A DB is seen here only through what of a field it still holds in   *)
(* memory: the data in the store's buffer, the entry in an open index.     *)
(* TocWriter has the files.                                                *)
(***************************************************************************)
EXTENDS Integers, FiniteSets, FiniteSetsExt

CONSTANTS
    NumDBs,       \* database keys are 1..NumDBs, in the order of Key
    IndexKeys,    \* second-level keys
    None,         \* no database, no index key
    MaxNbDBsOpen, \* fdbMaxNbDBsOpen
    Lockable,     \* the databases that may be locked against archiving
    Failures,     \* BOOLEAN: a flush of one database may throw
    MaxArchives,  \* bound: fields archived
    MaxTime       \* bound: seconds of the clock

ASSUME ArchiverAssumption ==
    /\ NumDBs \in Nat \ {0} /\ MaxNbDBsOpen \in Nat \ {0}
    /\ MaxArchives \in Nat /\ MaxTime \in Nat
    /\ Lockable \subseteq 1..NumDBs /\ Failures \in BOOLEAN
    /\ None \notin (1..NumDBs) \cup IndexKeys

DBs == 1..NumDBs

(* A field as archived: its keys and a number of its own. *)
Fields == [db : DBs, ik : IndexKeys, n : 1..MaxArchives]

VARIABLES
    open,       \* keys of databases_
    last,       \* [DBs -> time]: when the database was last selected
    indexKey,   \* [DBs -> IndexKeys \cup {None}]: currentIndexKey_
    buffered,   \* [DBs -> SUBSET Fields]: data in the store's handles
    entries,    \* [DBs -> [IndexKeys -> SUBSET Fields]]: in the open indexes
    dirty,      \* [DBs -> SUBSET IndexKeys]: the indexes whose dirty_ is set
    current,    \* current_
    prev,       \* <<prev_[0], prev_[1]>>
    fdbDirty,   \* FDB::dirty_
    leaked,     \* data in handles of a destroyed TocStore: open, owned by nobody
    durable,    \* data that has reached the data file
    published,  \* [DBs -> [IndexKeys -> SUBSET Fields]]: in the database's toc
    locked,     \* databases locked against archiving
    now,        \* time(0)
    status,     \* of the process: "running", "exited" or "dead"
    count,      \* fields archived so far
    unacked,    \* history: fields archived since flush last returned
    acked,      \* history: fields whose flush has returned
    lost,       \* history: fields archived through a pointer to a destroyed database
    unrecorded  \* history: fields in an index when it was marked clean and its
                \* record in the toc failed

session == <<open, last, indexKey, buffered, entries, dirty, current, prev, fdbDirty>>
disk == <<leaked, durable, published>>
history == <<unacked, acked, lost, unrecorded>>
vars == <<session, disk, locked, now, status, count, history>>

NoEntries == [ik \in IndexKeys |-> {}]

Init ==
    /\ open = {}
    /\ last = [d \in DBs |-> 0]
    /\ indexKey = [d \in DBs |-> None]
    /\ buffered = [d \in DBs |-> {}]
    /\ entries = [d \in DBs |-> NoEntries]
    /\ dirty = [d \in DBs |-> {}]
    /\ current = None
    /\ prev = <<None, None>>
    /\ fdbDirty = FALSE
    /\ leaked = {} /\ durable = {}
    /\ published = [d \in DBs |-> NoEntries]
    /\ locked = {}
    /\ now = 0
    /\ status = "running"
    /\ count = 0
    /\ unacked = {} /\ acked = {} /\ lost = {} /\ unrecorded = {}

(* The dirty indexes of the databases in ds: the ones their flush visits. *)
Dirty(ds) == [d \in DBs |-> IF d \in ds THEN dirty[d] ELSE {}]

(* The toc of each database d gets a record of the indexes ixs[d]. *)
WriteRecords(ixs) ==
    published' = [d \in DBs |-> [ik \in IndexKeys |->
                     IF ik \in ixs[d] THEN published[d][ik] \cup entries[d][ik] ELSE published[d][ik]]]

----------------------------------------------------------------------------
(***************************************************************************)
(* Archiver::database makes room: the scan keeps the last database, in key *)
(* order, whose time is at most the oldest seen.                           *)
(***************************************************************************)
Victim ==
    LET oldest == {d \in open : \A e \in open : last[d] <= last[e]}
    IN  Max(oldest)

Evicted(db) ==
    IF db \notin open /\ Cardinality(open) >= MaxNbDBsOpen THEN {Victim} ELSE {}

(* Mutant: the catalogue is destroyed without clean(). *)
EvictDisk_NoClean(gone) ==
    /\ leaked' = leaked \cup UNION {buffered[d] : d \in gone}
    /\ UNCHANGED <<durable, published>>

(***************************************************************************)
(* databases_.erase: ~DB destroys the store, then the catalogue.  TocStore *)
(* has an empty destructor, so its buffered handles stay open and          *)
(* unflushed; the TocCatalogueWriter's clean() writes its dirty indexes    *)
(* and their toc records.                                                  *)
(***************************************************************************)
EvictDisk(gone) ==
    /\ leaked' = leaked \cup UNION {buffered[d] : d \in gone}
    /\ WriteRecords(Dirty(gone))
    /\ UNCHANGED durable

(* What is left of f, a function over the databases, when those in gone become x. *)
Without(f, gone, x) == [d \in DBs |-> IF d \in gone THEN x ELSE f[d]]

(***************************************************************************)
(* Rule::expand skips selectDatabase when the database key is the previous *)
(* one, and selectIndex when both keys are.                                *)
(***************************************************************************)
SkipsDatabase(db) == prev[1] = db
SkipsIndex_SameDatabase(db, ik) == SkipsDatabase(db)   \* mutant
SkipsIndex(db, ik) == SkipsDatabase(db) /\ prev[2] = ik

(* The database is selected or remembered, and can be used. *)
Opened(db) == SkipsDatabase(db) \/ db \in open \/ db \notin locked

(***************************************************************************)
(* How a call of archive() on a usable database ends.  No rule matches     *)
(* below the database; the field lacks keys of the rule (checkMissingKeys, *)
(* after the index was selected); its values are not canonical             *)
(* (Rule::check, after the field was archived); or it returns.             *)
(***************************************************************************)
Outcomes == {"noRule", "missingKeys", "notCanonical", "archived"}

(***************************************************************************)
(* FDB::archive, the database is usable.  selectDatabase makes room and    *)
(* opens it; a newly selected database has no index selected.  The data    *)
(* goes to the store's buffer, the entry to the index the catalogue has    *)
(* selected, both of the current database.                                 *)
(***************************************************************************)
Archive(db, ik, outcome) ==
    LET f == [db |-> db, ik |-> ik, n |-> count + 1]
        gone == IF SkipsDatabase(db) THEN {} ELSE Evicted(db)
        to == IF SkipsDatabase(db) THEN current ELSE db
        selected == IF SkipsDatabase(db) THEN indexKey[to] ELSE None
        ix == IF SkipsIndex(db, ik) \/ outcome = "noRule" THEN selected ELSE ik
        filed == IF outcome \in {"notCanonical", "archived"} THEN {f} ELSE {}
        returned == IF outcome = "archived" THEN {f} ELSE {}
    IN
    /\ status = "running" /\ (filed # {} => count < MaxArchives)
    /\ Opened(db)
    /\ SkipsDatabase(db) => current \in open
    /\ EvictDisk(gone)
    /\ open' = (open \ gone) \cup {to}
    /\ last' = IF SkipsDatabase(db) THEN last ELSE [Without(last, gone, 0) EXCEPT ![db] = now]
    /\ current' = to
    /\ prev' = IF outcome # "noRule" THEN <<db, ik>>
               ELSE IF SkipsDatabase(db) THEN prev ELSE <<db, None>>
    /\ indexKey' = [Without(indexKey, gone, None) EXCEPT ![to] = ix]
    /\ buffered' = [Without(buffered, gone, {}) EXCEPT ![to] = @ \cup filed]
    /\ entries' = IF filed = {} THEN Without(entries, gone, NoEntries)
                  ELSE [Without(entries, gone, NoEntries) EXCEPT ![to][ix] = @ \cup filed]
    /\ dirty' = IF filed = {} THEN Without(dirty, gone, {})
                ELSE [Without(dirty, gone, {}) EXCEPT ![to] = @ \cup {ix}]
    /\ fdbDirty' = (fdbDirty \/ returned # {})
    /\ unacked' = unacked \cup returned
    /\ count' = count + Cardinality(filed)
    /\ UNCHANGED <<locked, now, status, acked, lost, unrecorded>>

(***************************************************************************)
(* The database is locked against archiving: database() throws after it    *)
(* has made room.  current_ and prev_ stay as they were.                   *)
(***************************************************************************)
ArchiveLocked(db) ==
    LET gone == Evicted(db) IN
    /\ status = "running"
    /\ ~Opened(db)
    /\ EvictDisk(gone)
    /\ open' = open \ gone
    /\ buffered' = Without(buffered, gone, {})
    /\ entries' = Without(entries, gone, NoEntries)
    /\ dirty' = Without(dirty, gone, {})
    /\ last' = Without(last, gone, 0)
    /\ indexKey' = Without(indexKey, gone, None)
    /\ UNCHANGED <<current, prev, fdbDirty, locked, now, status, count, history>>

(***************************************************************************)
(* The remembered database has been destroyed: current_ dangles and the    *)
(* field is archived into freed memory.  Either the process dies or the    *)
(* call returns with the field nowhere.                                    *)
(***************************************************************************)
ArchiveDangling(db, ik) ==
    LET f == [db |-> db, ik |-> ik, n |-> count + 1] IN
    /\ status = "running" /\ count < MaxArchives
    /\ SkipsDatabase(db) /\ current \notin open
    /\ \/ /\ status' = "dead"
          /\ UNCHANGED <<unacked, fdbDirty, lost>>
       \/ /\ unacked' = unacked \cup {f}
          /\ lost' = lost \cup {f}
          /\ fdbDirty' = TRUE
          /\ UNCHANGED status
    /\ prev' = <<db, ik>>
    /\ count' = count + 1
    /\ UNCHANGED <<open, last, indexKey, buffered, entries, dirty, current, disk, locked, now,
                   acked, unrecorded>>

----------------------------------------------------------------------------
(* DB::flush of the databases in ds: first the stores' buffers, ... *)
FlushStores(ds) ==
    /\ durable' = durable \cup UNION {buffered[d] : d \in ds}
    /\ buffered' = [d \in DBs |-> IF d \in ds THEN {} ELSE buffered[d]]
    /\ UNCHANGED leaked

(***************************************************************************)
(* ... then the indexes: of database d those in cleaned[d] are marked      *)
(* clean, and those in recorded[d] get their record and a new, empty tree. *)
(***************************************************************************)
FlushIndexes(cleaned, recorded) ==
    /\ dirty' = [d \in DBs |-> dirty[d] \ cleaned[d]]
    /\ WriteRecords(recorded)
    /\ entries' = [d \in DBs |-> [ik \in IndexKeys |-> IF ik \in recorded[d] THEN {} ELSE entries[d][ik]]]

FlushCatalogues(ds) == FlushIndexes(Dirty(ds), Dirty(ds))

(* Mutant: only the current database is flushed. *)
Flush_CurrentOnly ==
    /\ status = "running" /\ fdbDirty
    /\ FlushStores({current}) /\ FlushCatalogues({current})
    /\ fdbDirty' = FALSE
    /\ acked' = acked \cup unacked
    /\ unacked' = {}
    /\ UNCHANGED <<open, last, indexKey, current, prev, locked, now, status, count, lost, unrecorded>>

(* FDB::flush -> Archiver::flush, over the open databases in key order. *)
Flush ==
    /\ status = "running" /\ fdbDirty
    /\ FlushStores(open) /\ FlushCatalogues(open)
    /\ fdbDirty' = FALSE
    /\ acked' = acked \cup unacked
    /\ unacked' = {}
    /\ UNCHANGED <<open, last, indexKey, current, prev, locked, now, status, count, lost, unrecorded>>

(* Mutant: a catalogue is flushed before its store. *)
StoreThrows_CatalogueFirst(before, db) ==
    /\ buffered[db] # {}
    /\ FlushStores(before) /\ FlushCatalogues(before \cup {db})
    /\ UNCHANGED unrecorded

(* The store of database db throws, those of the databases before it are flushed. *)
StoreThrows(before, db) ==
    /\ buffered[db] # {}
    /\ FlushStores(before) /\ FlushCatalogues(before)
    /\ UNCHANGED unrecorded

(* Mutant: all indexes are marked clean before their records are written. *)
CatalogueThrows_AllCleaned(before, db) ==
    /\ dirty[db] # {}
    /\ FlushStores(before \cup {db})
    /\ \E ik \in dirty[db] :
          /\ FlushIndexes(Dirty(before \cup {db}), Dirty(before))
          /\ unrecorded' = unrecorded \cup entries[db][ik]

(***************************************************************************)
(* The catalogue of db throws in flushIndexes, after its store was         *)
(* flushed.  The indexes done before are in the toc.  At the index where   *)
(* it throws, TocIndex::flush either has not got as far as its dirty_ =    *)
(* false or, when the record fails, has: that index is clean, keeps its    *)
(* entries, and no flush visits it before something is archived to it      *)
(* again.                                                                  *)
(***************************************************************************)
CatalogueThrows(before, db) ==
    /\ dirty[db] # {}
    /\ FlushStores(before \cup {db})
    /\ \E done, failed \in SUBSET dirty[db] :
          /\ Cardinality(failed) <= 1 /\ done \cap failed = {}
          /\ FlushIndexes([Dirty(before) EXCEPT ![db] = done \cup failed],
                          [Dirty(before) EXCEPT ![db] = done])
          /\ unrecorded' = unrecorded \cup UNION {entries[db][ik] : ik \in failed}

(* FDB::flush does not return: it throws at database db. *)
FlushThrows(db) ==
    LET before == {d \in open : d < db} IN
    /\ Failures
    /\ status = "running" /\ fdbDirty /\ db \in open
    /\ StoreThrows(before, db) \/ CatalogueThrows(before, db)
    /\ UNCHANGED <<open, last, indexKey, current, prev, fdbDirty, locked, now, status, count,
                   unacked, acked, lost>>

(***************************************************************************)
(* The end of the process: ~FDB flushes, ~Archiver flushes again and       *)
(* destroys the databases; exit() writes out the stdio streams still open. *)
(***************************************************************************)
Exit ==
    /\ status = "running"
    /\ status' = "exited"
    /\ durable' = durable \cup leaked \cup UNION {buffered[d] : d \in open}
    /\ leaked' = {}
    /\ WriteRecords(Dirty(open))
    /\ buffered' = [d \in DBs |-> {}]
    /\ entries' = [d \in DBs |-> NoEntries]
    /\ dirty' = [d \in DBs |-> {}]
    /\ open' = {}
    /\ acked' = acked \cup unacked
    /\ unacked' = {}
    /\ fdbDirty' = FALSE
    /\ last' = [d \in DBs |-> 0]
    /\ indexKey' = [d \in DBs |-> None]
    /\ current' = None
    /\ prev' = <<None, None>>
    /\ UNCHANGED <<locked, now, count, lost, unrecorded>>

(* fdb-lock, from another process: the archive control file of a database. *)
Control(db) ==
    /\ db \in Lockable
    /\ status = "running"
    /\ locked' = IF db \in locked THEN locked \ {db} ELSE locked \cup {db}
    /\ UNCHANGED <<session, disk, now, status, count, history>>

Tick ==
    /\ status = "running"
    /\ now < MaxTime
    /\ now' = now + 1
    /\ UNCHANGED <<session, disk, locked, status, count, history>>

Terminated == status # "running" /\ UNCHANGED vars

Next ==
    \/ \E db \in DBs, ik \in IndexKeys : (\E outcome \in Outcomes : Archive(db, ik, outcome))
                                         \/ ArchiveDangling(db, ik)
    \/ \E db \in DBs : ArchiveLocked(db) \/ FlushThrows(db) \/ Control(db)
    \/ Flush \/ Exit \/ Tick \/ Terminated

Spec == Init /\ [][Next]_vars
----------------------------------------------------------------------------
TypeOK ==
    /\ open \subseteq DBs /\ Cardinality(open) <= MaxNbDBsOpen
    /\ last \in [DBs -> Nat]
    /\ indexKey \in [DBs -> IndexKeys \cup {None}]
    /\ buffered \in [DBs -> SUBSET Fields]
    /\ entries \in [DBs -> [IndexKeys -> SUBSET Fields]]
    /\ dirty \in [DBs -> SUBSET IndexKeys]
    /\ current \in DBs \cup {None}
    /\ prev \in (DBs \cup {None}) \X (IndexKeys \cup {None})
    /\ leaked \subseteq Fields /\ durable \subseteq Fields
    /\ published \in [DBs -> [IndexKeys -> SUBSET Fields]]
    /\ locked \subseteq DBs
    /\ now \in 0..MaxTime /\ count \in 0..MaxArchives
    /\ status \in {"running", "exited", "dead"} /\ fdbDirty \in BOOLEAN
    /\ unacked \subseteq Fields /\ acked \subseteq Fields
    /\ lost \subseteq Fields /\ unrecorded \subseteq Fields

(* The toc of the field's database leads to it, unless a record failed that would have. *)
Indexed(f) == f \in published[f.db][f.ik] \/ f \in unrecorded

(***************************************************************************)
(* What a returned flush() does cover ("Flushes all buffers and closes all *)
(* data handles into a consistent DB state", FDB.h:80), with eviction,     *)
(* locks, refused fields and flushes that failed halfway: every field has  *)
(* its entry in the toc, and its data in the file unless its database was  *)
(* evicted with the data in the buffer.  Excepted are the fields of an     *)
(* index that a failed flush marked clean without its record; a clean      *)
(* index holds nothing else.  And no toc ever leads to data in the buffer  *)
(* of an open database: DB::flush flushes the store before the catalogue,  *)
(* also when it fails halfway and is called again.                         *)
(***************************************************************************)
FlushIsExact ==
    /\ TypeOK
    /\ \A f \in acked \ lost : f \in durable \cup leaked /\ Indexed(f)
    /\ \A d \in DBs : \A ik \in IndexKeys \ dirty[d] : entries[d][ik] \subseteq unrecorded
    /\ \A d \in DBs, ik \in IndexKeys : published[d][ik] \cap buffered[d] = {}

(***************************************************************************)
(* A field is filed under its own keys: the shortcut over prev_ never      *)
(* leaves the database or the index of an earlier field selected, whatever *)
(* was refused, evicted, flushed or reopened in between.                   *)
(***************************************************************************)
FiledUnderItsKeys ==
    \A d \in DBs :
        /\ \A f \in buffered[d] : f.db = d
        /\ \A ik \in IndexKeys : \A f \in entries[d][ik] \cup published[d][ik] :
              f.db = d /\ f.ik = ik

(***************************************************************************)
(* After a normal exit every field archived without an error is on disk    *)
(* and indexed, also those of evicted databases: exit() writes out what    *)
(* eviction left in buffers.  Fields archived through a dangling current_  *)
(* are excepted, and from the index those of a tree whose record failed.   *)
(***************************************************************************)
ExitLosesNothing ==
    status = "exited" => \A f \in acked \ lost : f \in durable /\ Indexed(f)

=============================================================================
