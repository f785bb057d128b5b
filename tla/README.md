# TLA+ models of FDB (fdb-kv)

FDB is a domain-specific object store for meteorological fields. This directory models how fields get
from `archive()` into files that other processes read while they are being written, how they are found
again, how the tools change a database beside its writers, how the same is done over the network, and
the back ends and front ends that can take the place of the ordinary ones. All paths below
are relative to `src/fdb5/` of the repository unless they begin with `doc`.

## 1. The system

A field has a three-level key. The first level names a *database* (a directory), the second an
*index* inside it, the third the field in that index. In the default back end ("toc") a database is:

* one **master toc** (`toc`), an append-only file of records: INIT, INDEX (an index file and an
  offset), SUB_TOC (another toc file), CLEAR (masks an earlier entry);
* **data files**, one per process and index key, appended through buffered handles;
* **index files**, one or two per process and index key, holding a B-tree at each offset;
* with `useSubToc`, one **sub-toc** per process, linked from the master toc.

There is no lock between processes. Everything rests on the order of the writes and on `O_APPEND`.

### Components

| Component | State | Operations | Interacts with |
|---|---|---|---|
| Toc format and walk (`toc/TocHandler.cc`, `toc/TocRecord.h`) | records in files; masks and position of a walk | append a record, walk master and sub-tocs, collect masks | files shared with every process |
| Toc catalogue writer (`toc/TocCatalogueWriter.cc`, `toc/TocIndex.cc`) | open B-trees, `dirty_`, offsets, full indexes | select index, archive, flush, compact, clean | Toc, Toc store |
| Toc store (`toc/TocStore.cc`, `io/FDBFileHandle.cc`) | open data handles and their buffers, `dirty_` | archive, flush | data files |
| Toc catalogue reader (`toc/TocCatalogueReader.cc`) | list of indexes loaded once, those that match | open, select, retrieve | Toc |
| Archiver (`database/Archiver.cc`, `*ArchiveVisitor.cc`) | open databases, last use, `prev_`, `current_` | archive, evict, flush, exit | the writers of several databases |
| Schema, rules, types (`rules/`, `types/`), keys and axes (`database/Key.cc`, `IndexAxis.cc`) | values | parse, expand, match, canonical forms | all that files or finds |
| Inspector (`database/Inspector.cc`), visits (`database/EntryVisitMechanism.cc`, `api/local/`) | cache of reading databases | inspect, list, axes, stats, control, status | readers |
| Maintenance (`toc/TocWipeVisitor.cc`, `TocPurgeVisitor.cc`, `TocMoveVisitor.cc`, overlay, hide, reconsolidate) | lists of files to delete or keep | wipe, purge, move, mount, hide, reconsolidate, lock | files shared with writers and readers |
| Roots and file spaces (`toc/RootManager.cc`, `FileSpace.cc`, handlers) | configuration tables, the expver file | choose a root, find roots to visit | directories shared with every process |
| Remote client (`api/RemoteFDB.cc`) | queues, `archiveID_`, archive thread, listening thread | archive, flush, retrieve, API calls, disconnect | two TCP connections |
| Remote handler and server (`remote/`) | archive future, workers, queues; the list of data ports | accept, control loop, archive loop, read, flush | its own FDB |
| Asynchronous iterators (`api/helpers/APIIterator.h`) | bounded queue | worker pushes, consumer pops | API calls |
| Front ends (`api/FDB.cc`, `DistFDB.cc`, `SelectFDB.cc`, `fdb_c.cc`) | `dirty_`, lanes | archive to one lane, flush all, query all | several FDBs |
| Message tools (`message/`, `tools/`) | one program | write, read, copy, patch, hammer | a front end |
| Persistent memory (`pmem/`) | tree of nodes in shared pools | archive, retrieve, list | other writers, through mutexes in the pools |
| LSM index (`toc/LSMIndex.cc`) | a Parallax database per index file | put, sync, get, visit | Toc, purge |

`PROJECT.json` lists every part with its status.

### What is hard, and what makes each part correct

* **Interleaving on shared files**: two processes initialise one toc; a reader walks while a writer
  flushes and compacts; a tool deletes what it listed before. Correct: a reader follows no link to
  nothing and finds everything flushed before it opened; a tool touches nothing but what it may.
* **Order and crashes**: data, index and record are three writes to three files; a wipe and a move
  are many. Correct: whatever a record leads to is on disk, wherever a process dies, and what a tool
  leaves can be dealt with by the next.
* **Precedence without clocks**: which of two values of a field is retrieved follows from the
  position in the walk. Correct: publishing takes effect and compaction changes nothing (neither
  holds with two sub-tocs; section 6).
* **Errors half way and retries**: a write throws with some flags already cleared; a lane fails.
  Correct: what was accepted is published or known not to be.
* **Cached selections**: `prev_` and `current_`, the matching indexes of a reader, the Inspector's
  readers and shared axes outlive what they were made for. Correct: a field is filed under its own
  keys, and what is found is what was asked for.
* **Threads and bounded queues**: six threads, two connections and several queues per remote session.
  Correct: `flush()` returns only when the server has flushed, order is kept, each handle gets its own
  field, every call returns.
* **Identity over time**: ports, process numbers, roots and experiments are looked up, decided on and
  used in steps. Correct: no two sessions are mixed up, and a database is in one root.

`PROJECT.json` "hazards" names each at its line, with the properties that cover it.

## 2. Modules

| Module | Models | Role |
|---|---|---|
| `Toc` | `TocHandler`: records, masks, the walk, precedence | operators, no state |
| `TocWriter` (EXTENDS `Toc`) | N writing processes on one database, step by system call | core |
| `FieldStore` | the promise of archive, flush, retrieve | abstract specification; `TocWriter!ImplementsFieldStore` instantiates it |
| `TocReader` (EXTENDS `TocWriter`) | one reading process beside the writers | composition |
| `TocWriterProofs` | theorems about `TocWriter` | TLAPS |
| `TocReaderProofs` | theorems about `TocReader` | TLAPS |
| `TocFiles` (EXTENDS `Toc`) | several databases as files with directories, base names, files that are missing | operators |
| `Maintenance` (EXTENDS `TocFiles`) | every tool that changes a database, beside writers | component |
| `Archiver` | one process over several databases | component |
| `ArchiverProofs` | theorems about `Archiver` | TLAPS |
| `Rules`, `Axes` | types, keys, predicates, rules, schemas; streams of an index and axes | operators |
| `Retrieval` (EXTENDS `Axes`) | archive and flush over the schema, the Inspector | composition |
| `Listing` (EXTENDS `Retrieval`) | visits and the tools that make them | composition |
| `Roots` | roots, file spaces, names, engines; writers, an administrator, a reader | component |
| `RootsProofs` | theorems about `Roots` | TLAPS |
| `Queues` | `eckit::Queue` as the code uses it (external) | operators |
| `RemoteArchive` | archive and flush of one client session and its handler | component |
| `RemoteArchiveProofs` | theorems about `RemoteArchive` | TLAPS |
| `RemoteRead` | API calls and retrieval of one session | component |
| `Session` | the server, its data ports and the set-up of connections | component |
| `Remote` (EXTENDS both) | `Session` or `RemoteRead` | instance for one run |
| `RemoteProofs` | theorems about `RemoteRead`, `Session` and `Remote` | TLAPS |
| `Lemmas` | lemmas about numbers, sequences and finite sets that several proofs use | TLAPS |
| `FrontEnds` | a tree of FDB, selecting, distributing and random front ends | component |
| `CApi`, `Messages` (EXTEND `FrontEnds`) | the C interface; the message tools | programs over `FrontEnds` |
| `Pools`, `PMem` | pools and their tables; a database in persistent memory | component |
| `LsmIndex` | an index in Parallax or a B-tree, of processes one after the other | component |
| `Backends` (EXTENDS `PMem`, `LsmIndex`) | one back end or the other | instance for one run |
| `BackendsProofs` | theorems about `LsmIndex`, `PMem` and `Backends` | TLAPS |
| `MC*` | constants, symmetry, who archives what; `MCFrontEnds` also joins `CApi` and `Messages` | instances for TLC |

**TocWriter.** The variables are the files (`tocs`, `sections` of index files, `data`, `exists`,
`schema`) and, per process, what the objects keep in memory (`buf` of the stdio handle, the open `btree`,
`ixDirty`, `ixOffset`, the three `dirty` flags, `subToc`, compaction's buffer `toPublish`). A control
point `pc` separates the steps that other processes can observe:
`OpenToc`, `CopySchema`, `WriteInit` (the constructor); `Archive`, `Spill` (a full stdio buffer);
`Flush`, `FlushHandle`, `StoreFlushed`, `FlushIndex`, `NewSubToc`, `LinkSubToc`, `WriteIndex`,
`CatalogueFlushed` (`FDB::flush` down to the appends); `Close`, `FlushFull`, `Compact`,
`NothingToCompact` (the destructor); `WriteFails` (a write throws, flags as the code leaves them) and
`Crash`. `WriteInit` writes at offset zero, as the code does because the toc is not opened with
`O_EXCL` or `O_APPEND` there. `Retrieve` is the reader's algorithm over the current files.

**TocReader.** `OpenForRead` takes the masks (and a copy of the toc if `fdbCacheTocsOnRead`),
`ReadNext` reads one record and opens a sub-toc when it meets one, `IndexesLoaded` reverses the list,
which then serves every retrieve. Writers step in between.

**Maintenance.** `disk` is a function from paths to contents, of a database (Main), one that is mounted
on it (Other) and one it is moved to (Dest). A tool looks in one step, as far as the code does before it
changes anything, and keeps the list of its changes in `plan`; each change is a step of its own, and so is
the tool's death. Flushes are one step here: their inside is `TocWriter`'s subject.

**Archiver.** A database is reduced to what of a field is in its buffer, in its open indexes (with `dirty_` of
each), in the data file and in the toc. `Archive(db, ik, outcome)` is a call of `archive()` with the shortcut of
`Rule::expand` over `prev_`, eviction, and the points where a field can be refused; `ArchiveLocked` throws after
eviction; `ArchiveDangling` uses a destroyed database (undefined behaviour: the process dies or the field is
lost); `FlushThrows` fails in the store of one database (`StoreThrows`) or in its catalogue (`CatalogueThrows`),
where the index is marked clean before its record is written: when the record fails, no later flush, eviction or
exit visits that index until something is archived to it. The history variable `unrecorded` has the fields this
has happened to. `Exit` runs the destructors and writes out the streams they leave open.

**Rules, Axes, Retrieval, Listing.** A text is abstracted to what the types tell apart (a number with its
width, a date, a range, ...); schemas are token sequences that `Parse` turns into rules. `Archive` expands a field
over the master schema and that of the database it selects, `Flush` writes the pending indexes with the
version the configuration asks for, `Inspect` expands a request and goes through cached readers. The environment
replaces the schema, changes the version and locks databases through the tools themselves. In `Listing` each
tool is one action from its command line to its answer. The visit takes databases in one fixed order.

**Roots.** Files of configuration are sequences of lines. A writer's search (`Begin`, `ExistsAt` per
root, `Exists`, `Select*`, `AppendRead`, `AppendWrite`, `Create`) shares nothing but the file system with
others; `Wipe`, `MoveToc` and `MoveDone` are the administrator's, `Visit`, `Scan`, `MatchAll` a reader's. A keyword that a
request does not give is the value `Missing`, which a namer's expression takes or refuses as it does `""`; a visit of
all passes over it.

**RemoteArchive.** The calling thread (`StartArchive` ... `Disconnected`), the archive thread
(`Sender*`), the listening thread (`Listener*`); on the server the control loop (`Handle*`,
`Misaligned`, `ControlClosed`, `HandlerEnds`), the archive loop (`Loop*`) and its worker (`Worker*`).
The mutex of the queue is held by `archive()` while `call = "enqueue"`, which is why the
`Listener*` steps that need it wait for that. `eckit::Queue` is not in the repository; its operators
are modelled from their use, and where an interrupted queue may or may not hand out queued elements
first both are allowed. `ClientDies` and `ServerDies` end a process at any point. Two states of the
code are one here: that the archive loop holds a message while it waits for room in its queue (the
message counts as still in the socket), and the bytes of a message (a message arrives whole).

**RemoteRead, Session.** `RemoteRead` has the user, the listening thread, an iterator thread per API call, and
on the server a worker per call and the one read thread. `Session` has clients, the server, handlers and the
shared port list; `Mispair`, `ServerCrash`, `HandlerCrash`, `Tick` and the reuse of process numbers are its
faults.

**FrontEnds, CApi, Messages.** A front end is a record with its lanes, built from the configuration (a random
one is drawn once per behaviour). A leaf buffers, publishes at a flush, and fails in one of three ways: it
refuses a field, throws after taking it, or throws at a flush. A field that was kept by a lane that threw is
marked `late`. `Destroy` flushes each handle that is dirty and each leaf whether it is or not, as `~Archiver`
does. A call is one step (all of it runs in one thread). `Messages` runs programs one after the other, a step
per call of theirs, with faults that begin and end in between.

**PMem, LsmIndex.** In `PMem` every read or write of the pools under its mutex is a step; a mutex is free again
when its holder has died. Each archive writes the axes again, whether a value is new or not. `LsmIndex` keeps
for each index file and offset what Parallax has made safe, and the log of what was put since; after a crash any
prefix of the log survives.

## 3. Runs

All passing runs explore the whole state space of their instance. One run, `LsmPurge`, shows a violated
promise, which is a finding of section 6.

| Run | Instance | Checks |
|---|---|---|
| `TocWriterSub` | 2 processes with sub-tocs, a field each, 3 archives, crashes, fairness | `IndexedIsDurable`, `FlushedIsRetrievable`, `ImplementsFieldStore`, `ClosedIsCompacted` |
| `TocWriterErrors` | 2 processes (one with a sub-toc), 2 indexes, 3 archives, crashes, write errors | `WriteOrder`, `TocsWellFormed` |
| `TocReader` | a reader, cached or not, beside 2 processes with sub-tocs, 2 archives, crashes | `ReaderNeverDangles`, `ReaderSeesFlushed` |
| `ArchiverEvict` | 3 databases of which 2 may be open, 2 index keys, 2 fields filed and any number refused; one database may be locked, or flushes throw in any store or catalogue | `FiledUnderItsKeys`, `FlushIsExact`, `ExitLosesNothing` |
| `RemoteArchive` | 4 fields, batches of up to 2, queues of 1, a socket of 3, one field refused, either side dies | `FlushedOnServer`, `ArchivedInOrder`, `CallsReturn` |
| `Remote` | 3 requests with short queues, errors, the server's death; or 2 clients, 3 ports, 3 process numbers, 2 starts of the server, a mispairing | `HandleGetsItsField`, `IteratorIsComplete`, `CallsReturn`, `SessionsPaired` |
| `Maintenance` | 2 writers, one with a sub-toc, a field each, 2 archives, 2 tools of any kind, deaths | `NothingOrphaned`, `WipeKeepsOthers`, `PlainPurgeIsInvisible`, `MoveKeepsFields`, `HiddenStaysHidden`, `ReconsolidateKeepsFields` |
| `Retrieval` | 3 databases, 2 schemas, 4 fields spelled in several ways, 2 archives, 2 calls, every tool of `Listing` | `InspectFinds`, `ListFindsAll` |
| `Roots` | 2 processes, 4 keys of 2 experiments, 4 roots in 3 file spaces, 2 namers, 3 searches or visits | `OneRoot`, `ExpverInOneRoot`, `FollowsExisting`, `ReaderFinds` |
| `FrontEnds` | a selector over a leaf and a distributor of three lanes, one read-only and one random, 5 calls and faults; or 2 programs with 2 faults | `UnflushedIsKnown`, `CloseLosesNothing`, `ReaderFinds`, `MetadataInOrder`, `MessagesFiled` |
| `Backends` | 2 writers and a reader of a persistent-memory database, 2 archives, a crash; or a toc index of either type, 3 fields, 2 processes | `TreeSound`, `RetrieveFinds`, `ListFinds`, `ArchiveReturns`, `IndexFinds` |
| `LsmPurge` | the second half of `Backends`, Parallax only | violates `PurgeKeepsFields` (section 6, item 19) |

What they show:

* **FlushedIsRetrievable / ReaderSeesFlushed** relate a history of acknowledged fields to what the walk
  over masters, sub-tocs and masks finds, at once and through a reader's stale list.
* **ImplementsFieldStore** maps the files to a map of published values (what `Retrieve` returns) and the
  unpublished trees to pending values; every step of a writer is an archive, the publication of one
  index, the loss of a dead writer's fields, or nothing that can be seen. Initialisation
  races, sub-toc creation and compaction are all of the last kind.
* **WriteOrder, IndexedIsDurable, TocsWellFormed** hold also with failing writes, retried flushes and
  crashes. `WriteOrder` is the inductive invariant of its proof.
* **FiledUnderItsKeys, FlushIsExact, ExitLosesNothing** say which of the Archiver's guarantees survive
  eviction, locks and errors. That a `flush()` makes everything durable does not (section 6), nor that a retried flush
  publishes what the first one did not: `FlushIsExact` and `ExitLosesNothing` except the fields of an index whose record
  failed after it was marked clean, and say that nothing else is left out and that a clean index holds nothing else.
* **The properties of `Maintenance`** say what each tool keeps, at every one of its steps. They have the
  preconditions under which the code keeps it (no writer beside a purge or a move; no unmounted database
  before a purge; every visible index readable before a reconsolidation); without them they are violated.
* **InspectFinds, ListFindsAll** compare what is found with a definition over the history of archived
  fields that knows nothing of rules, indexes, axes or caches.
* **OneRoot, ExpverInOneRoot, FollowsExisting** need no lock for what is decided by the configuration alone, and
  the lock of the expver file for the rest; drawn roots and moved databases are excepted. `ReaderFinds` asks of
  a request that it gives the keywords the file spaces look at, and those for which the namer of the directory
  refuses an empty value.
* **HandleGetsItsField, IteratorIsComplete, SessionsPaired, FlushedOnServer, ArchivedInOrder** hold
  whatever dies or is refused; **CallsReturn** (both) holds as long as what is sent fits into the queues and sockets.
* **UnflushedIsKnown, CloseLosesNothing** say that a discarded error of a lane is made up for by its own dirty
  flag; `ReaderFinds` that the latest value is read, but for values of lanes that threw late; **MessagesFiled**
  that each message is filed under the key it was to have.
* **TreeSound, RetrieveFinds, ListFinds** show what the mutexes of persistent memory are enough for, and which
  fields they lose; **IndexFinds** what each index type gives back; **ArchiveReturns** that no writer waits for
  ever.

**Bounds.** Two processes are enough for every race in the writers: no step reads the memory of another
process, and precedence compares two values of one field. Three archives allow two values of one
process around one of another, or a second flush into an existing sub-toc, or two indexes in a flush.
`ArchiverEvict` needs three databases to evict a database that is not the one left and to come back to
it; calls that are refused open, evict and select databases too and are not counted. In `RemoteArchive`
the refused field can be in every position of a batch; four fields and queues of
one fill every queue; the socket of three is the smallest with which a session of four fields cannot
hang (with two, `CallsReturn` is violated). In `Remote` the retrieve queue holds all messages of the retrievals;
smaller ones hang. In `ArchiverEvict` a behaviour has either locks, and a time that passes, or flushes that throw,
because all together have too many states; the theorems have them together.
`MaxTools = 2` lets every tool follow a complete or a dead run of every other; a wipe that is run again
after a crash is two tools. `MaxCalls = 2` in `Retrieval` lets a cached reader answer after something
changed; `InTurn` lets a tool other than a lock follow only lock tools or `inspect()`, which are the ones
that leave something behind. `MaxJobs = 3` lets two writers search while a reader visits. In
`FrontEnds` five calls are an archive, a fault, a flush, another archive or read, and the close;
`MaxPrograms = 2` runs a copy after a write. `MaxArchives = 2`, `PoolSize = 1` in `Backends` fill a pool with each field.
The constants named `Max*`, `PoolSize` and the queue lengths are the only bounds on unbounded
quantities, with `Nesting` in `TocFiles` (mounts are followed two deep).
`IndexKeySymmetry` permutes index keys, which are only compared for equality, in a run without
liveness.

**Fairness.** `TocWriter!FairSpec`: a process in the middle of an operation keeps running
(`WF_vars(Step(p))`); the application need not call anything and errors and crashes are never
forced. `RemoteArchive!FairSpec`, `RemoteRead!Fairness`: each thread runs when it can; a thread that waits for a
mutex, room or data is not enabled. `PMem`: a writer inside a call goes on with it. The operating system's
scheduler gives no less. No strong fairness is used.

Deadlock is checked in the runs of `TocWriter`, `TocReader`, `Archiver` and `RemoteArchive`; an explicit
`Terminated` step marks the proper end. The other systems really stop: tools, programs, calls and searches
are bounded and need not be followed by anything.

## 4. Proofs

The theorems hold for all values of the constants that satisfy the assumptions: any number of processes, keys,
fields, databases, clients, ports and requests, any size of buffers, queues and connections, with every
crash, error and race of the modules. The bounds `Max*` are constants there as well.

| Theorem | Module | Says |
|---|---|---|
| `TypeCorrect`, `WriteOrderHolds`, `IndexedIsAlwaysDurable`, `TocsAlwaysWellFormed` | `TocWriterProofs` | `Spec => []` of `TypeOK`, `WriteOrder`, `IndexedIsDurable`, `TocsWellFormed` |
| `FlushedStaysRetrievable` | `TocWriterProofs` | `Spec => []FlushedIsRetrievable`, if no write fails |
| `StoreImplements` | `TocWriterProofs` | `Spec => ImplementsFieldStore`, if no write fails and no two processes may archive the same field |
| `ReaderNeverDanglesEver` | `TocReaderProofs` | `RSpec => []ReaderNeverDangles` |
| `ReaderAlwaysSeesFlushed` | `TocReaderProofs` | `RSpec => []ReaderSeesFlushed`, if no write fails |
| `ArchiverTypeCorrect`, `FiledUnderItsKeysAlways`, `FlushIsExactAlways`, `ExitLosesNothingEver` | `ArchiverProofs` | `Spec => []` of `TypeOK`, `FiledUnderItsKeys`, `FlushIsExact`, `ExitLosesNothing`, flushes that throw and are retried included |
| `RemoteArchiveTypeCorrect`, `FlushedOnServerAlways`, `ArchivedInOrderAlways` | `RemoteArchiveProofs` | `Spec => []` of `TypeOK`, `FlushedOnServer`, `ArchivedInOrder` |
| `HandlesGetTheirFields`, `IteratorsAreComplete` | `RemoteProofs` | `Spec => []` of `HandleGetsItsField`, `IteratorIsComplete`, without the two cases of section 6, item 14 |
| `SessionsStayPaired`, `RemoteHandsOverItsOwn` | `RemoteProofs` | `RSpec => []` of `SessionsPaired`, and of the two properties above in the composition |
| `OneRootHolds`, `ExpverInOneRootHolds`, `FollowsExistingHolds` | `RootsProofs` | `Spec => []` of `OneRoot`, `ExpverInOneRoot`, `FollowsExisting` |
| `ReaderFindsHolds` | `RootsProofs` | `Spec => []ReaderFinds`, if the file spaces that go by experiment have the same roots; the property has its own preconditions on the request |
| `IndexFindsHolds` | `BackendsProofs` | `BSpec => []IndexFinds` (`LsmIndexFinds`: `LsmSpec` alone) |
| `TreeSoundHolds` | `BackendsProofs` | `BSpec => []TreeSound` (`PMemTreeSound`: `PMem` alone) |

**Assumptions.** Each is named in the module that declares the constants, and TLC evaluates it in the runs.
`ProcAssumption`, `ArchiveAssumption`, `NoFieldAssumption` (`TocWriter`): sub-toc processes are processes,
the master toc is not named like one, an absent entry is neither a location nor a value.
`ArchiverAssumption`: at least one database may be open, `None` is no key. `CapAssumption` (`RemoteArchive`),
`SizeAssumption` (`RemoteRead`): queues and connections hold at least one message, a null pointer is no queue.
`SessionAssumption`: port and process numbers are not zero (zero is the code's mark of an entry without a
port), and `/etc/services` is finite.
`RootsAssumption`, `SpacesAssumption`, `NoneAssumption` (`Roots`): a mounted root has a name, a file space has
roots, nobody is no process. `NamesAssumption`: what a format of a name puts in is matched by its regular expression,
and two keys never have the same path (`toc/RootManager.cc:170`, `toc/TocHandler.cc:777`); a configuration
that breaks the second puts two databases into one directory. `LsmAssumption`: the index types the code
knows. `PMemAssumption`: fields fit into an empty pool (`allocate` makes one pool after the other otherwise), their
keys have a pair on each level, and the reader is no writer.

**Hypotheses.** Seven theorems have one, six of them an alternative the code has and the property does not
survive. `FlushedStaysRetrievable` and `ReaderAlwaysSeesFlushed` assume `~IOErrors`: after a failed write the
next flush returns without having published (section 6, item 3), so the promise is false with them.
`StoreImplements` assumes that too, and `OneWriter`: where two processes with sub-tocs write one field, what is
retrieved depends on the order in which the sub-tocs were linked and changes when a writer is closed (items 1
and 2), which `FieldStore` does not allow. Processes may share index keys, and for a field with several writers
`FlushedStaysRetrievable` still holds. `OneWriter` is more than is needed for writers without sub-tocs.
`HandlesGetTheirFields`, `IteratorsAreComplete` and `RemoteHandsOverItsOwn` assume `~ReadsAgain` and
`~LateErrors`: a handle that is read again after its end takes the first message of another, and an archive
error that is read after the reset of `archiveID_` goes to a handle (item 14). `ReaderFindsHolds` assumes
`SharedRoots`: one expver file serves every file space whose roots are chosen by experiment
(`toc/ExpverFileSpaceHandler.cc`), so that with different roots a database may be put where the readers of its
own file space do not look. The runs have the same values.

**Arguments.** None of the properties is inductive. Of each inductive invariant TLC checked the instance of a run
before it was proved.

*Writers.* `IndexedIsDurable` speaks of records: a step that appends a record needs
the section to be there, the step that writes the section needs the data of the tree to be in the
file, and that needs the buffers to be empty from the flush of the store on. `WriteOrder` says this
in five parts (`SectionsDurable`, `TreesWritten`, `BuffersFlushed`, `OffsetsWritten`, `RecordsWritten`), each
preserved by a lemma of its own (`NextSections` ... `NextRecords`). Files only grow (`DataGrows`), moving the head of
a buffer to the end of its file changes no position (`MoveHead`), and overwriting the first record of a toc, the race
of `WriteInit`, keeps the rest (`OverwriteFirst`). `TocShape` adds to `TocsWellFormed` how far each
process is with the INIT records it has to write.

*Flush.* What a retrieve returns is a walk over master and sub-tocs with their masks. `ReadAllIsWalk` shows that
the recursion of `readAll` is a concatenation of the walks of the sub-tocs, `FlattenLast` and
`RetrieveReadsLast` that a retrieve reads what the *last* entry for the field leads to. `FlushInv` then says
where each record may stand (`RecordsPlaced`: the indexes of a process in its own toc, in the order of their
sections; full indexes and the mask of a sub-toc only when its process has closed), how far each index is on its
way to its record (`PartProgress`, `FullProgress`), that positions in the data file grow with the sections
(`ValuesOrdered`, `TreesOrdered`), and that each field archived is in a published section or in an open tree, or
a later one of the same process is (`Accounted`). So the last entry for a key of process p is never older than
what p was told is flushed, and when its sub-toc is masked its full index stands in the master toc
(`FlushInvImpliesRetrievable`). TLC: 86,904 states.

*Refinement.* `FlushInv` bounds what a retrieve returns from below; `FieldStore` asks for the very value. `StoreInv` adds
that every section of a part index has its record but for the one being published or lost in a crash (`PartRecorded`), and
that a full index leads, for each field, to an entry of a section or of the open tree and to none older (`FullLast`). So a
retrieve returns the entry of the published sections that was archived last, whichever toc it is found in and whether
the sub-toc is masked by then (`StoreInvExact`). From there the steps are compared without the walk: only the record of
an index adds a published section (`HitSteps`), and it adds the tree whose fields were pending, which is
`Publish` (`PublishMaps`); `Archive` and `Crash` are `Archive` and `Lose` (`ArchiveMaps`, `CrashMaps`), and whatever else
is done leaves both maps as they are (`StoreStep`). TLC: 30,804 and 87,220 states, the second with a process that has
a sub-toc beside one that has none.

*Reader.* `ReaderInv` says of the copy of the toc, and of the list of indexes, that all they name is in the files;
the writers keep it because no section and no toc ever goes away (`FilesGrow`), the reader because what the walk of a
sub-toc finds is written (`SubWalkWritten`). That it sees what was flushed needs more: every flushed field is promised
by a record of the master toc, an index or the link of a sub-toc (`TocPromises`), and `SeesInv` says that for each
field flushed when the toc was opened either that record is still ahead of the walk, or the indexes found so far lead
to the field, itself or a later one (`PromisesKept`). A sub-toc that is compacted and masked while it is being read is
no exception: an index that has its place in the tocs never changes again (`PlacedStays`), and the copy that was read
before the mask is as good as the full index after it. TLC: 178,375 states.

*Archiver.* An index no flush visits holds nothing but fields whose record has failed (`CleanIsUnrecorded`), so
that what a flush, an eviction or the exit passes over is in the exception and nothing else is. `Remembered`
ties `prev_` to `current_` and to the index the open database has selected, so the shortcut of `Rule::expand`
takes a field where the full selection would; `UnackedIsHeld` and `AckedIsOut` say where the data and the entry
of every field are, in memory, in a stream that `exit()` will write, or in the files. TLC: 306,919 states
with errors and 198,576 with locks.

*Remote archive.* Fields are numbered in the order of the calls. `Carried` says that the archived fields, the
server's queue and the messages on the connection are, one after the other, consecutive pieces of the session
(`Follows`); `NothingMissing` says for each phase of the call that the archive thread's batch and queue continue them
up to the last call, *as long as nothing has gone wrong* (`Healthy`), which an error on either side ends for good.

*Remote retrieval.* Messages of one source are a path of places in the stream (`Passes`, `Along`), each place a
request and the number of its elements so far; messages of others leave the place. A message taken off the front or
put on the end moves one end of the path. `RInv` says that the path from what an iterator has taken, or from what
the handles have read through their one queue, along that queue and the connection, leads to what the server has
left to send (`IterStreams`, `HandleStream`). TLC: 168,350 states with two elements and one chunk, 120,500
with one element and two chunks.

*Sessions.* `SInv` says that each entry of the port list belongs to the one live handler that has its port and
process number (`PortsOwned`), and that whoever has looked at the session IDs has the peer it expects, which the
network no longer changes (`IdsChecked`). `FreePortsDiffer` is about the search for ports that are no service's: a
choice over all enumerations of an infinite set. TLC: 304,131 states.

*Roots.* A search takes a step per root, and others create, move and wipe meanwhile. `PlaceInv` says of a search
that every database that was there when it began still is, unless an administrator has touched its key since
(`MovedAreLoose`), and that the roots it has passed hold none that it has not counted (`Seen`); and of where it
may end (`Belongs`) that this is the root of a database with that key, or the only one the configuration gives,
or the one line of the expver file for the experiment (`OneLine`), which no two processes write because each
reads it again under the lock (`Stages`). A reader's answer needs, besides, that each database is in a root of a
file space for its key (`AllHeld`), hence among the roots a visit lists (`VisitInv`). TLC: 1,111,949 states.

*Indexes in Parallax and B-trees.* `LsmInv` says that the records of the toc, the sections and the entries in
them are all in the order of the fields they are about (`TocInOrder`, `LaterIsNewer`), so that the last visible
index that has a key has its newest field (`LaterEntry`), although after a crash any prefix of the log of puts
may be what is left of a section; and that each field that was flushed, or a newer one of its key, is in a
visible index whose axes have the key (`FlushedAreCovered`). A purge hides an index only if each of its keys is
in a later one (`LastHitStays`). That is the end of the promise for Parallax, whose sections are one file (item
19): there the theorem speaks of what happens until a purge finds duplicates (`Promised`). TLC: 439,744 states.

*Persistent memory.* A writer that creates a path of branches keeps only the mutex of the node above the first one,
so the mutexes alone do not keep others out of the new nodes. `TreeInv` has the reason (`Grown`): what
a writer has created since it took its mutex is reached from the node of that mutex only, no other
writer is there or has an index there, and none gets there while the mutex is held. Hence nobody adds a branch of the
same name, and when the writer dies half way the nodes it leaves are ordinary ones. `PoolsListed` and `OneHolder` say the
same of the pools and of the mutex of their list. TLC: 372,018 states.

**Only model-checked.** Liveness (`ClosedIsCompacted`, `CallsReturn`, `ArchiveReturns`): fairness and
ENABLED are outside the prover. `FrontEnds`, `CApi`, `Messages`, `Rules`, `Axes`, `Retrieval` and `Listing` use RECURSIVE
operators (trees of front ends, nested rules) or extend modules that do, and stay with TLC. So do the
properties of `Maintenance`, whose tools are folds over the entries of a toc and the files of a directory: what a fold
computes for every input is an induction over data. `ListFinds` of `PMem` lists with `SelectSeq`, for which the provers
have no facts. `RetrieveFinds` of `PMem` is within their reach and not proved: it needs, beside `TreeInv`, the path of
each node and that no field's path is a proper prefix of another's, or a walk could end in a data node.

## 5. Not modelled

* Torn or partial writes and the loss of the page cache (the code does not sync the directory either);
  the bytes of records and messages; remapped keys of mounted databases.
* Rados (one call into a library, not built by default); Parallax's volume and threads; `ParallaxSerDes.h`,
  which nothing uses.
* marsDisks, the EnvVar file space handler, a store with roots of its own; the expansion of configuration
  (`config/Config.cc`); GRIB decoding; dump, information and benchmark tools; printing and streams of values.
* A data race in the remote client that the model makes atomic: `archiveQueue_.reset()` in the archive
  thread beside the listening thread's use of the pointer (`api/RemoteFDB.cc:866`). The race of
  `IndexAxis::merge` with readers in other threads (section 6) is modelled by its sequential effect only.
* A handler whose client dies before it connects to the data port waits in `accept()` for ever and keeps its
  port (`remote/Handler.cc:316`): the states are there, and no property says they are not.

## 6. Where the code and what is said of it differ

The run `LsmPurge` shows item 19. The others were found with the modules here, in instances or
without the exceptions that the present runs have, some of which are given here; each is a finding in `PROJECT.json`.

*Toc and Archiver.*

1. **A flush into an older sub-toc is shadowed.** p1 links its sub-toc, p2 links
   its own and publishes the field, p1 publishes a newer value into the sub-toc linked first: p2's older
   value is still retrieved, because precedence is by the position of the link.
2. **Closing a writer changes what is retrieved.** The full indexes appended at the
   end take precedence over what others published since.
3. **A retried flush returns without publishing.** The index is marked clean before its record is written; when
   that write throws the next flush skips it (`TocWriter` with
   `IOErrors` violates `FlushedIsRetrievable`). So do eviction and the flush in the destructor:
   without a sub-toc the fields are lost at a normal exit.
4. **Eviction puts data out of reach of flush().** The store of an evicted database
   is destroyed with its handles open; `flush()` returns while the data is in a stdio buffer until `exit()`.
5. **A locked database leaves a dangling current database.** Eviction comes before
   the check of the lock.
6. **A step in other units is archived as if in hours** (`api/FDB.cc:115`).

*Maintenance and Roots.*

7. **A purge after an unmount removes the database's own toc** (masks by base name; `Maintenance`
   with `MaxTools = 3` violates `PurgeIsInvisible`).
8. **A wipe that dies after the schema cannot be completed**, and a wipe does not know `duplicates.allow`.
9. **A table of file spaces that could not be read is used in part** by the next call; **a namer may refuse a
   request** that does not give each keyword, because its expression is matched against `""` (`toc/TocEngine.cc:230`).

*Retrieval and tools.*

10. **axes() changes what inspect() finds**: merged sets of values are shared with cached readers.
11. **fdb_list's `duplicates`** is handed on as `deduplicate`; **fdb-stats** overlooks an empty request after another.
12. **fdb-patch archives the unpatched message**; fdb-copy and fdb-patch may bring an older value back.

*Remote.*

13. **A failed remote archive can hang flush()**: after its error the server reads no
    more data and the client's archive thread blocks in a write that no interrupt reaches
    (`RemoteArchive` with `SocketCap = 2` violates `CallsReturn`).
14. **A late archive error and a second read at the end of a handle shift the messages of all later handles**
    (`RemoteRead` with `LateErrors`, or `ReadsAgain`, violates `HandleGetsItsField`).
15. **The one listening thread** can wait for room for ever: a retrieve larger than the queues
    (`RemoteRead` with `RetrieveCap = 1` violates `CallsReturn`), a destroyed iterator (with `AnyDrop` and
    four elements, the same).
16. **Move is sent but not handled; a refused client takes itself to be connected.**
17. **reap() asserts on a process number that may be another's; with threads no port is given back.**

*Back ends.*

18. **An axis of persistent memory is overwritten** by the next writer (`RetrieveFinds` without `clash`);
    **a dead writer's `data-<n>` stops every later one.**
19. **A purge of a Parallax index loses every field** (`LsmPurge`); it gives fields that were never flushed; its
    keys carry their terminating NUL.

*Front ends.*

20. **A skipped lane hides a newer value** (`ReaderFinds` without `late`): a lane that throws after it has the
    field is not dirty, so it is passed over; its Archiver publishes the field when the handle is closed, later than
    what other lanes took since.

Not stated as findings: a flush over several indexes is not atomic although `doc/write.rst` says of
`fdb-write` "This process is atomic"; after a failed remote flush a second `flush()` returns at once
having done nothing, and `archive()` fails an assertion for the rest of the session; when a client dies
during an archive the server's archive loop may wait forever for its worker (`LoopThrows`).

## 7. Plan

Done: every module of section 2 and the proofs of section 4. Left, in this order:

1. Proofs: the refinement of `FieldStore` for several writers of a field that have no sub-tocs; `RetrieveFinds` of
   `PMem` from `TreeInv`.
2. An abstract specification of the remote session that `RemoteArchive` and `RemoteRead` implement.
3. Roots of the store, remapped keys of mounted databases, the configuration's expansion.
