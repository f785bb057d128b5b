------------------------------- MODULE Roots --------------------------------
(***************************************************************************)
(* Where a database is: the engine for its key (Manager.cc), the name of   *)
(* its directory and the root that holds it (RootManager.cc, FileSpace.cc, *)
(* FileSpaceHandler.cc, ExpverFileSpaceHandler.cc), and how readers find   *)
(* it again (TocEngine.cc).  Writers are processes that look for a         *)
(* database and create it with nothing but the file system in common.      *)
(*                                                                         *)
(* A configuration file is a sequence of lines, a line a sequence of       *)
(* tokens.  A regular expression over keys is a function from keywords to  *)
(* the values it accepts.  A directory name is [by, key]: the namer, or 0, *)
(* and the keywords it spells.                                             *)
(***************************************************************************)
EXTENDS Integers, FiniteSets, SequencesExt

CONSTANTS
    Procs,          \* writing processes
    Keys,           \* the database keys
    Requests,       \* [all, key]: Missing for a keyword that is not given
    RootsFile,      \* lines: root, file space, writable, visit
    SpacesFile,     \* lines: regular expression, file space, handler
    NamesFile,      \* lines: regular expression, set of keywords of the format
    EnginesFile,    \* lines: regular expression, engine
    Registered,     \* the engines of this build
    ExplicitEngine, \* "engine" of the configuration, or ""
    FixedRoot,      \* FDB_ROOT_DIRECTORY, or ""
    Override,       \* [Procs -> FDB5_ROOT, or ""]
    Mounted,        \* the roots that exist
    ValidExpvers,   \* the experiments expver_is_valid accepts
    MaxJobs         \* bound: searches of the writers and visits of the reader

Missing == ""
Empty == [x \in {} |-> x]   \* the function with no arguments

ASSUME RootsAssumption ==
    /\ MaxJobs \in Nat
    /\ Len(RootsFile) \in Nat /\ Len(SpacesFile) \in Nat /\ Len(NamesFile) \in Nat
    /\ "" \notin Mounted
    /\ FixedRoot \in Mounted \cup {""}
    /\ \A k \in Keys : \A kw \in DOMAIN k : k[kw] # Missing
    /\ \A k \in Keys, rq \in Requests : DOMAIN rq.key = DOMAIN k
    /\ \A rq \in Requests : rq.all => \A kw \in DOMAIN rq.key : rq.key[kw] = Missing

----------------------------------------------------------------------------
(* Configuration files: lines that do not have the right number of tokens  *)
(* are skipped, and so are comments, written <<"#">> here.                 *)

(* The elements of s at the places in at, in their order. *)
Kept(s, at) ==
    [j \in 1..Cardinality(at) |-> s[CHOOSE i \in at : Cardinality({h \in at : h <= i}) = j]]

Lines(file, n) == Kept(file, {i \in 1..Len(file) : Len(file[i]) = n})

Accepts(re, k) == \A kw \in DOMAIN re : kw \in DOMAIN k /\ k[kw] \in re[kw]

AllRoots ==
    LET line == Lines(RootsFile, 4)
    IN  [i \in DOMAIN line |->
            [path |-> line[i][1], space |-> line[i][2],
             archive |-> line[i][3], list |-> line[i][4]]]

SpaceRoots(name) == Kept(AllRoots, {i \in DOMAIN AllRoots : AllRoots[i].space = name})

Spaces ==
    LET line == Lines(SpacesFile, 3)
    IN  IF FixedRoot # ""
        THEN <<[re |-> Empty, handler |-> "Default",
                roots |-> <<[path |-> FixedRoot, archive |-> TRUE, list |-> TRUE]>>]>>
        ELSE [i \in DOMAIN line |->
                 [re |-> line[i][1], handler |-> line[i][3], roots |-> SpaceRoots(line[i][2])]]

(* A file space without roots is refused as the configuration is read      *)
(* (UserError, RootManager.cc:457).                                        *)
ASSUME SpacesAssumption == \A i \in DOMAIN Spaces : Spaces[i].roots # <<>>

Namers ==
    LET line == Lines(NamesFile, 2)
    IN  [i \in DOMAIN line |-> [re |-> line[i][1], vars |-> line[i][2]]]

Engines ==
    LET line == Lines(EnginesFile, 2)
    IN  IF line = <<>> THEN <<[re |-> Empty, engine |-> "toc"]>>
        ELSE [i \in DOMAIN line |-> [re |-> line[i][1], engine |-> line[i][2]]]

(* Manager::engine of a key: the first that matches and is registered.     *)
Engine(k) ==
    LET i == SelectInSeq(Engines, LAMBDA e : Accepts(e.re, k) /\ e.engine \in Registered)
    IN  IF ExplicitEngine # "" THEN ExplicitEngine
        ELSE IF i = 0 THEN "none" ELSE Engines[i].engine

(* Manager::engines of a request: all that match, registered or not. *)
EnginesOf(rqs) ==
    IF ExplicitEngine # "" THEN {ExplicitEngine}
    ELSE {e.engine : e \in {e \in ToSet(Engines) : \E k \in rqs : Accepts(e.re, k)}}

----------------------------------------------------------------------------
(* Directory names. *)

(* DbPathNamer::match: every keyword is known and every value fits, or is in skipped. *)
Names(n, k, skipped) ==
    /\ DOMAIN n.re = DOMAIN k
    /\ \A kw \in DOMAIN k : k[kw] \in n.re[kw] \cup skipped

Default(k) == [by |-> 0, key |-> k]
Name(i, k) == [by |-> i, key |-> [kw \in Namers[i].vars |-> k[kw]]]

(* RootManager::dbPathName: the first namer that matches, or the key. *)
DbPathName(k) ==
    LET i == SelectInSeq(Namers, LAMBDA n : Names(n, k, {}))
    IN  IF i = 0 THEN Default(k) ELSE Name(i, k)

(***************************************************************************)
(* possibleDbPathNames: every namer that may have named the database.  For *)
(* the keywords that are not given, a visit of all puts the expression     *)
(* "[^:/]*", which match passes over (TocEngine.cc:192); a request puts "",*)
(* which a namer may refuse (TocEngine.cc:230).                            *)
(***************************************************************************)
Skipped(rq) == IF rq.all THEN {Missing} ELSE {}
PossibleNames_First(rq) == {DbPathName(rq.key)}   \* mutant
PossibleNames(rq) ==
    {Default(rq.key)}
    \cup {Name(i, rq.key) : i \in {i \in DOMAIN Namers : Names(Namers[i], rq.key, Skipped(rq))}}

(* A format spells keywords of its regular expression (UserError,          *)
(* RootManager.cc:170), and the names of two databases differ: a key that  *)
(* is not the one in the toc is refused (TocHandler.cc:777).               *)
ASSUME NamesAssumption ==
    /\ \A i \in DOMAIN Namers : Namers[i].vars \subseteq DOMAIN Namers[i].re
    /\ \A k, l \in Keys : DbPathName(k) = DbPathName(l) => k = l

(* The regular expression of a name with missing values matches a path. *)
Fits(name, path) ==
    /\ name.by = path.by /\ DOMAIN name.key = DOMAIN path.key
    /\ \A kw \in DOMAIN name.key :
           \/ name.key[kw] = path.key[kw]
           \/ name.key[kw] = Missing /\ (name.by # 0 => path.key[kw] \in Namers[name.by].re[kw])

----------------------------------------------------------------------------
VARIABLES
    toc,     \* [<<root, path>> -> key]: the databases on disk
    allow,   \* directories with the control file duplicates.allow
    expvers, \* lines of the expver file: <<expver, root>>
    flock,   \* the process that holds the lock of the expver file, or None
    table,   \* [Procs -> [expver -> root]]: the handler's memory
    proc,    \* [Procs -> where its search is]
    moving,  \* databases being moved: <<from, to>>
    reader,  \* a visit of the roots
    jobs,    \* searches and visits begun so far
    loose    \* history: keys whose database was moved or wiped

disk == <<toc, allow, moving, loose>>
handler == <<expvers, flock, table>>
vars == <<disk, handler, proc, reader, jobs>>

None == "none"
ASSUME NoneAssumption == None \notin Procs
Idle == [pc |-> "idle"]
NoVisit == [pc |-> "none"]

Init ==
    /\ toc = Empty /\ allow = {}
    /\ expvers = <<>> /\ flock = None
    /\ table = [p \in Procs |-> Empty]
    /\ proc = [p \in Procs |-> Idle]
    /\ moving = {} /\ reader = NoVisit
    /\ jobs = 0 /\ loose = {}

----------------------------------------------------------------------------
(* RootManager::directory. *)

SpaceOf(k) == SelectInSeq(Spaces, LAMBDA s : Accepts(s.re, k))
RootsOf(k) == Spaces[SpaceOf(k)].roots

(* FileSpace::enabled. *)
Archives(r) == r.archive /\ r.path \in Mounted
Lists(r) == r.list /\ r.path \in Mounted
ArchiveRoots(k) == {r.path : r \in {r \in ToSet(RootsOf(k)) : Archives(r)}}
ListRoots(k) == {r.path : r \in {r \in ToSet(RootsOf(k)) : Lists(r)}}

Dirs(k) == {d \in DOMAIN toc : d[2] = DbPathName(k) /\ d[1] \in ListRoots(k)}

Go(p, to) == proc' = [proc EXCEPT ![p] = to]
Refuse(p) == Go(p, Idle)
Chosen(p, root) ==
    Go(p, [proc[p] EXCEPT !.pc = "chosen", !.root = root, !.i = 1, !.count = 0])

(* A search begins; a key without an engine or a file space is refused. *)
Begin(p, k) ==
    /\ proc[p] = Idle /\ jobs < MaxJobs
    /\ jobs' = jobs + 1
    /\ IF Engine(k) # "toc" \/ (FixedRoot = "" /\ SpaceOf(k) = 0) THEN Refuse(p)
       ELSE Go(p, [pc |-> IF FixedRoot # "" THEN "chosen" ELSE "exists", key |-> k,
                   before |-> Dirs(k), i |-> 1, count |-> 0, root |-> FixedRoot])
    /\ UNCHANGED <<disk, handler, reader>>

(* FileSpace::existsDB, one root at a time: of several, those that may be  *)
(* duplicated do not count and the last of them wins.                      *)
Takes_OnlyMarked(count, many) == many   \* mutant
Takes(count, many) == count = 0 \/ many

ExistsAt(p) ==
    LET s == proc[p]
        r == RootsOf(s.key)[s.i]
        dir == <<r.path, DbPathName(s.key)>>
        there == Lists(r) /\ dir \in DOMAIN toc
        many == dir \in allow
    IN  /\ s.pc = "exists" /\ s.i <= Len(RootsOf(s.key))
        /\ Go(p, [s EXCEPT
                     !.i = @ + 1,
                     !.root = IF there /\ Takes(s.count, many) THEN r.path ELSE @,
                     !.count = IF there /\ ~many THEN @ + 1 ELSE @])
        /\ UNCHANGED <<disk, handler, reader, jobs>>

Exists(p) ==
    /\ proc[p].pc = "exists" /\ proc[p].i > Len(RootsOf(proc[p].key))
    /\ IF proc[p].count > 1 THEN Refuse(p)
       ELSE IF proc[p].root # "" THEN Chosen(p, proc[p].root)
       ELSE Go(p, [proc[p] EXCEPT !.pc = "select"])
    /\ UNCHANGED <<disk, handler, reader, jobs>>

Handler(p) == Spaces[SpaceOf(proc[p].key)].handler
Selects(p, h) == proc[p].pc = "select" /\ Handler(p) = h

First_LeastUsed(k) == ArchiveRoots(k)   \* mutant
First(k) == {RootsOf(k)[SelectInSeq(RootsOf(k), LAMBDA r : Archives(r))].path}

SelectFirst(p) ==
    /\ Selects(p, "Default")
    /\ IF ArchiveRoots(proc[p].key) = {} THEN Refuse(p)
       ELSE \E r \in First(proc[p].key) : Chosen(p, r)
    /\ UNCHANGED <<disk, handler, reader, jobs>>

(* Random, RoundRobin and by space left: any root may be the one. *)
SelectAny(p) ==
    /\ Selects(p, "Random")
    /\ \E r \in ArchiveRoots(proc[p].key) : Chosen(p, r)
    /\ UNCHANGED <<disk, handler, reader, jobs>>

(* ExpverFileSpaceHandler::load: of two lines the last counts. *)
Loaded ==
    [e \in {l[1] : l \in ToSet(expvers)} |->
        expvers[SelectLastInSeq(expvers, LAMBDA l : l[1] = e)][2]]

(* The root the handler remembers for the experiment, or one to propose:   *)
(* FDB5_ROOT, when it may be archived to, or any.                          *)
SelectExpver(p) ==
    LET known == IF table[p] = Empty THEN Loaded ELSE table[p]
        expver == proc[p].key["expver"]
        open == ArchiveRoots(proc[p].key)
        maybe == IF Override[p] = "" THEN open ELSE open \cap {Override[p]}
    IN  /\ Selects(p, "expver")
        /\ table' = [table EXCEPT ![p] = known]
        /\ IF expver \notin ValidExpvers THEN Refuse(p)
           ELSE IF expver \in DOMAIN known THEN Chosen(p, known[expver])
           ELSE IF maybe = {} THEN Refuse(p)
           ELSE \E r \in maybe : Go(p, [proc[p] EXCEPT !.pc = "append", !.root = r])
        /\ UNCHANGED <<disk, expvers, flock, reader, jobs>>

(* append: under the lock of the file, another process may have been first.*)
Recorded_Never(expver) == 0   \* mutant: the file is not read again
Recorded(expver) == SelectInSeq(expvers, LAMBDA l : l[1] = expver)

Put(f, a, b) == [x \in DOMAIN f \cup {a} |-> IF x = a THEN b ELSE f[x]]
Remember(p, root) == table' = [table EXCEPT ![p] = Put(@, proc[p].key["expver"], root)]

AppendRead(p) ==
    LET i == Recorded(proc[p].key["expver"])
    IN  /\ proc[p].pc = "append" /\ flock = None
        /\ IF i # 0
           THEN Remember(p, expvers[i][2]) /\ Chosen(p, expvers[i][2]) /\ UNCHANGED flock
           ELSE flock' = p /\ Go(p, [proc[p] EXCEPT !.pc = "write"]) /\ UNCHANGED table
        /\ UNCHANGED <<disk, expvers, reader, jobs>>

AppendWrite(p) ==
    /\ proc[p].pc = "write"
    /\ expvers' = Append(expvers, <<proc[p].key["expver"], proc[p].root>>)
    /\ flock' = None
    /\ Remember(p, proc[p].root) /\ Chosen(p, proc[p].root)
    /\ UNCHANGED <<disk, reader, jobs>>

(* The catalogue writer opens the database, or makes it. *)
Create(p) ==
    LET dir == <<proc[p].root, DbPathName(proc[p].key)>>
    IN
    /\ proc[p].pc = "chosen"
    /\ toc' = IF dir \in DOMAIN toc THEN toc ELSE Put(toc, dir, proc[p].key)
    /\ Go(p, Idle)
    /\ UNCHANGED <<allow, moving, loose, handler, reader, jobs>>

Released(p) == IF flock = p THEN None ELSE flock

(* A process ends; the system releases its lock. *)
Crash(p) ==
    /\ proc[p].pc \in {"append", "write"}
    /\ Go(p, Idle)
    /\ table' = [table EXCEPT ![p] = Empty]
    /\ flock' = Released(p)
    /\ UNCHANGED <<disk, expvers, reader, jobs>>

----------------------------------------------------------------------------
(* The administrator. *)

Still(gone) ==
    reader' = IF reader.pc = "scan" THEN [reader EXCEPT !.always = @ \ gone] ELSE reader

Wipe(d) ==
    /\ \A m \in moving : d \notin {m[1], m[2]}
    /\ toc' = Restrict(toc, DOMAIN toc \ {d})
    /\ allow' = allow \ {d} /\ loose' = loose \cup {toc[d]}
    /\ Still({d})
    /\ UNCHANGED <<moving, handler, proc, jobs>>

(* RootManager::canMoveToRoots: of every file space that matches, not only *)
(* the first.  A root may be wiped when it may be archived to.             *)
CanMoveToRoots(k) ==
    {r.path : r \in {r \in UNION {ToSet(s.roots) : s \in {s \in ToSet(Spaces) : Accepts(s.re, k)}} :
                        r.archive}} \cap Mounted

(* The target that the two visitors accept. *)
CanMoveTo(d, r) == r \in CanMoveToRoots(toc[d]) /\ <<r, d[2]>> \notin DOMAIN toc

(* The source is opened to duplicates, its toc is copied, then its control *)
(* files, and the source removed (MoveVisitor.cc, TocMoveVisitor.cc).      *)
MoveToc(d, r) ==
    LET to == <<r, d[2]>>
    IN  /\ moving = {} /\ CanMoveTo(d, r)
        /\ allow' = allow \cup {d}
        /\ toc' = Put(toc, to, toc[d])
        /\ moving' = {<<d, to>>} /\ loose' = loose \cup {toc[d]}
        /\ UNCHANGED <<handler, proc, reader, jobs>>

MoveDone ==
    \E m \in moving :
        /\ toc' = Restrict(toc, DOMAIN toc \ {m[1]})
        /\ allow' = (allow \ {m[1]}) \cup {m[2]}
        /\ moving' = {} /\ Still({m[1]})
        /\ UNCHANGED <<loose, handler, proc, jobs>>

----------------------------------------------------------------------------
(* The reader: TocEngine::visitableLocations. *)

(* RootManager::visitableRoots of a request. *)
VisitableRoots(rq) ==
    {r.path : r \in UNION {ToSet(s.roots) :
        s \in {s \in ToSet(Spaces) : rq.all \/ Accepts(s.re, rq.key)}}}
ListedRoots ==
    {r.path : r \in {r \in UNION {ToSet(s.roots) : s \in ToSet(Spaces)} : r.list}} \cap Mounted

Visit(rq) ==
    LET engines == EnginesOf(IF rq.all THEN Keys ELSE {rq.key})
    IN  /\ reader.pc # "scan" /\ jobs < MaxJobs
        /\ jobs' = jobs + 1
        /\ reader' = IF engines = {} \/ ~(engines \subseteq Registered)
                     THEN [pc |-> "throws"]
                     ELSE [pc |-> "scan", rq |-> rq, found |-> {}, always |-> DOMAIN toc,
                           todo |-> VisitableRoots(rq) \cap ListedRoots]
        /\ UNCHANGED <<disk, handler, proc>>

(* scan_dbs of one root. *)
Scan(r) ==
    /\ reader.pc = "scan" /\ r \in reader.todo
    /\ reader' = [reader EXCEPT !.todo = @ \ {r},
                      !.found = @ \cup {d \in DOMAIN toc : d[1] = r}]
    /\ UNCHANGED <<disk, handler, proc, jobs>>

Answers(k, rq) == \A kw \in DOMAIN rq.key : rq.key[kw] \in {Missing, k[kw]}

(* databases: a directory that is gone by now is passed over. *)
MatchAll ==
    /\ reader.pc = "scan" /\ reader.todo = {}
    /\ reader' = [reader EXCEPT !.pc = "done",
           !.found = {d \in @ \cap DOMAIN toc :
                         /\ \E n \in PossibleNames(reader.rq) : Fits(n, d[2])
                         /\ Answers(toc[d], reader.rq)}]
    /\ UNCHANGED <<disk, handler, proc, jobs>>

Next ==
    \/ \E p \in Procs, k \in Keys : Begin(p, k)
    \/ \E p \in Procs :
           \/ ExistsAt(p) \/ Exists(p)
           \/ SelectFirst(p) \/ SelectAny(p) \/ SelectExpver(p)
           \/ AppendRead(p) \/ AppendWrite(p)
           \/ Create(p) \/ Crash(p)
    \/ \E d \in DOMAIN toc : Wipe(d) \/ \E r \in Mounted : MoveToc(d, r)
    \/ MoveDone
    \/ \E rq \in Requests : Visit(rq)
    \/ \E r \in Mounted : Scan(r)
    \/ MatchAll

Spec == Init /\ [][Next]_vars

----------------------------------------------------------------------------
TypeOK ==
    /\ \A d \in DOMAIN toc : d[1] \in Mounted /\ toc[d] \in Keys
    /\ allow \subseteq DOMAIN toc
    /\ flock \in Procs \cup {None}
    /\ \A p \in Procs : proc[p].pc = "write" <=> flock = p
    /\ jobs \in 0..MaxJobs

HandlerOf(k) == IF FixedRoot # "" THEN "Default" ELSE Spaces[SpaceOf(k)].handler

(* A database is not in two roots, however many processes look for it at   *)
(* once, unless its roots are drawn at random or it was moved: existsDB    *)
(* answers "Found multiple FDB roots" when it is (FileSpace.cc:85).        *)
OneRoot ==
    /\ TypeOK
    /\ \A k \in Keys \ loose :
        Dirs(k) # {} /\ HandlerOf(k) # "Random" => Cardinality(Dirs(k)) = 1

(* The databases of an experiment are all in the root that was written     *)
(* down for it, though several processes propose one at the same time and  *)
(* may end while they do (ExpverFileSpaceHandler.cc:90).                   *)
ExpverInOneRoot ==
    \A c, d \in DOMAIN toc :
        LET k == toc[c]  l == toc[d]
        IN  /\ HandlerOf(k) = "expver" /\ HandlerOf(l) = "expver"
            /\ k["expver"] = l["expver"] /\ k \notin loose /\ l \notin loose
            => c[1] = d[1]

(* A writer that finds a database in a root uses that root.                *)
FollowsExisting ==
    \A p \in Procs : \A d \in DOMAIN toc :
        proc[p].pc = "chosen" /\ proc[p].key \notin loose /\ proc[p].before = {d}
            => proc[p].root = d[1]

(* The namer of the directory, if one named it, takes "" for each keyword that is not given. *)
TakesMissing(rq, name) ==
    rq.all \/ name.by = 0
    \/ \A kw \in DOMAIN rq.key : rq.key[kw] = Missing => Missing \in Namers[name.by].re[kw]

(* A visit answers with every database that was there all the time, in a   *)
(* root that may be listed, and answers the request, whichever namer named *)
(* its directory and whatever is created, moved or wiped meanwhile.  A     *)
(* request must give the keywords that the file spaces ask about, and      *)
(* those for which the namer of the directory refuses an empty value       *)
(* (TocEngine.cc:223).                                                     *)
ReaderFinds ==
    reader.pc = "done" =>
        /\ \A d \in reader.found \cap DOMAIN toc : Answers(toc[d], reader.rq)
        /\ \A d \in reader.always \cap DOMAIN toc :
               /\ d[1] \in ListedRoots /\ Answers(toc[d], reader.rq)
               /\ reader.rq.all \/ \A s \in ToSet(Spaces) :
                      \A kw \in DOMAIN s.re : reader.rq.key[kw] # Missing
               /\ TakesMissing(reader.rq, d[2])
               => d \in reader.found
=============================================================================
