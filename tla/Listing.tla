------------------------------ MODULE Listing -------------------------------
(***************************************************************************)
(* The calls that visit databases and the tools that make them: list(),    *)
(* axes(), stats(), control() and status() (EntryVisitMechanism.cc,        *)
(* ListVisitor.h, ControlVisitor.cc, StatusVisitor.h, ControlIterator.cc,  *)
(* ListIterator.h, AxesVisitor.cc, StatsVisitor.cc, TocStats.cc,           *)
(* FDBVisitTool.cc, FDBToolRequest.cc, fdb-list.cc, fdb-axes.cc,           *)
(* fdb-stats.cc, FDBLock.cc, fdb-status.cc).                               *)
(*                                                                         *)
(* The tools run in the process of the Inspector, one call after another.  *)
(* A visit takes the databases in one order, which the model chooses.      *)
(***************************************************************************)
EXTENDS Retrieval

CONSTANT CommandLines   \* the command lines of the tools, as records of their options

----------------------------------------------------------------------------
(* The options and requests of a tool.  A request is written as given; the *)
(* MARS language expands it unless the tool is told to take it raw.        *)

(* FDBLock::init. *)
NothingToLock(c) == c.tool \in {"lock", "unlock"} /\ c.ids = {}

(* FDBVisitTool::init, FDBList::init. *)
Misused(c) ==
    \/ c.all /\ (c.minimum # {} \/ c.requests # <<>>)
    \/ c.location /\ (c.json \/ c.compact)
    \/ c.compact /\ (c.full \/ c.porcelain \/ c.json)
    \/ NothingToLock(c)

(* FDBToolRequest::checkMinimumKeys, before and after the expansion. *)
Sparse(c, r) == \E kw \in c.minimum : ~Has(r.given, kw) \/ ~Has(r.expanded, kw)

(* FDBVisitTool::requests: every request is checked before the first call. *)
ToolRequests(c) ==
    IF c.all THEN <<<<>>>>
    ELSE MapSeq(LAMBDA r : IF c.raw THEN r.given ELSE r.expanded, c.requests)

(* EntryVisitMechanism::visit: only --all makes an empty request. *)
Runs(c) ==
    /\ ~Misused(c)
    /\ \A i \in DOMAIN c.requests : ~Sparse(c, c.requests[i])
    /\ c.all \/ \A i \in DOMAIN c.requests : ToolRequests(c)[i] # <<>>

----------------------------------------------------------------------------
(* The databases a request may name: by path, then by the key in the toc.  *)

(* TocEngine::databases of a request. *)
RequestedDatabases(rq) ==
    {d \in DOMAIN dbs :
        /\ \E k \in MatchFirstLevel(Rule[master], rq, Empty) :
               DOMAIN k = DOMAIN d /\ \A kw \in DOMAIN k : k[kw] \in {Empty, d[kw]}
        /\ KeyPartialMatch(d, rq)}

(* TocEngine::databases of a key. *)
KeyDatabases(key) ==
    {d \in DOMAIN dbs :
        /\ \E k \in MatchFirstLevelKey(Rule[master], key, Anything) :
               DOMAIN k = DOMAIN d /\ \A kw \in DOMAIN k : k[kw] \in {Anything, Empty, d[kw]}
        /\ KeyMatch(d, key)}

Visited(rq) == IF rq = <<>> THEN KeyDatabases(<<>>) ELSE RequestedDatabases(rq)

----------------------------------------------------------------------------
(* list(): each index that may match, each entry under the key its         *)
(* fingerprint stands for.                                                 *)

IndexPartialMatch(idx, rq) == KeyPartialMatch(idx.key, rq) /\ AxisPartialMatch(idx.axes, rq)

Without(rq, k) == [kw \in DOMAIN rq \ DOMAIN k |-> rq[kw]]

(* EntryVisitor::visitDatum, for every fingerprint of an index. *)
Entries(d, idx) ==
    LET r == RuleFor(Rule[dbs[d].schema], d, idx.key)
    IN  MapSeq(LAMBDA print : [db |-> d, ix |-> idx.key, datum |-> Fill(r, print),
                               loc |-> Location(idx, idx.tree[print])],
               SetToSeq(DOMAIN idx.tree))

ListEntries_AnyDatum(d, idx, rq) == Entries(d, idx)   \* mutant: the datum request is not applied
ListEntries(d, idx, rq) ==
    SelectSeq(Entries(d, idx),
              LAMBDA e : KeyMatchRequest(e.datum, Without(Without(rq, d), idx.key)))

ListDatabase(d, rq) ==
    IF "list" \in dbs[d].locks THEN <<>>
    ELSE FlattenSeq(MapSeq(LAMBDA idx : ListEntries(d, idx, rq),
             SelectSeq(dbs[d].indexes, LAMBDA idx : IndexPartialMatch(idx, rq))))

List(rq) == FlattenSeq(MapSeq(LAMBDA d : ListDatabase(d, rq), SetToSeq(Visited(rq))))

(* ListElement::combinedKey, ListIterator::next. *)
CombinedKey(e) == e.datum @@ e.ix @@ e.db
Deduplicated(es) ==
    SelectSeq([i \in DOMAIN es |-> [e |-> es[i], i |-> i]],
              LAMBDA x : \A j \in 1..(x.i - 1) : CombinedKey(es[j]) # CombinedKey(x.e))

(* fdb-list --compact: a request for the entries of an index that have the *)
(* same keywords, when they are all it names, or else (metkit's HyperCube) *)
(* requests that name just those entries.                                  *)
Merged(datums) == [kw \in UNION {DOMAIN k : k \in datums} |-> {k[kw] : k \in datums}]
CubeSize(m) == FoldLeft(LAMBDA n, kw : n * Cardinality(m[kw]), 1, SetToSeq(DOMAIN m))
CompactLeaf(datums) ==
    IF CubeSize(Merged(datums)) = Cardinality(datums) THEN {Merged(datums)}
    ELSE {Merged({k}) : k \in datums}

Compact(es) ==
    LET Tree(e) == [db |-> e.db, ix |-> e.ix]
        Leaf(e) == {x.datum : x \in {x \in ToSet(es) :
                        Tree(x) = Tree(e) /\ DOMAIN x.datum = DOMAIN e.datum}}
    IN  UNION {{[tree |-> Tree(e), rq |-> m] : m \in CompactLeaf(Leaf(e))} : e \in ToSet(es)}

(* FDBList::execute. *)
Listed(c, rq) ==
    IF c.compact THEN Compact(List(rq))
    ELSE IF c.full THEN List(rq)
    ELSE MapSeq(LAMBDA x : x.e, Deduplicated(List(rq)))

FdbList(c) ==
    /\ answer' = [call |-> "list", c |-> c, out |-> MapSeq(LAMBDA rq : Listed(c, rq), ToolRequests(c))]
    /\ UNCHANGED <<master, dbs, pending, readers, calls, log>>

----------------------------------------------------------------------------
(* axes(): the values of the keys and, at level 3, of the axes of the      *)
(* indexes that may match, merged over the indexes of a database           *)
(* (AxesVisitor) and over databases (FDB::axes).  The databases are opened *)
(* for the visit one by one, sharing their sets with the cached readers.   *)

WidenedIndex(idx, old, new) == [idx EXCEPT !.axes = Grown(@, old, new)]
WidenedReader(r, old, new) ==
    LET indexes == MapSeq(LAMBDA i : WidenedIndex(i, old, new), r.indexes)
    IN  [r EXCEPT !.indexes = indexes, !.wide = @ \/ indexes # r.indexes,
                  !.matching = MapSeq(LAMBDA i : WidenedIndex(i, old, new), @)]

(* v.axes takes in other, and whoever shares a set of v.axes sees it grow. *)
MergeInto(v, axes, other) ==
    LET new == AxisMerge(axes, other)
    IN  [v EXCEPT !.axes = new,
                  !.indexes = MapSeq(LAMBDA i : WidenedIndex(i, axes, new), @),
                  !.readers = MapSeq(LAMBDA r : WidenedReader(r, axes, new), @)]

VisitAxes(v, at, rq, level) ==
    LET idx == v.indexes[at]
        own == AxisInsert(<<>>, idx.key)
    IN  IF ~IndexPartialMatch(idx, rq) THEN v
        ELSE MergeInto(v, v.axes, IF level > 2 THEN AxisMerge(own, idx.axes) ELSE own)

DatabaseAxes(d, rq, level, rs) ==
    LET v == [axes |-> AxisInsert(<<>>, d), indexes |-> dbs[d].indexes, readers |-> rs]
    IN  IF level > 1
        THEN FoldLeft(LAMBDA w, at : VisitAxes(w, at, rq, level), v, [at \in DOMAIN v.indexes |-> at])
        ELSE v

(* FDB::axes. *)
AllAxes(rq, level, rs) ==
    LET Take(v, d) ==
            LET e == DatabaseAxes(d, rq, level, v.readers)
            IN  MergeInto([v EXCEPT !.readers = e.readers], v.axes, e.axes)
    IN  FoldLeft(Take, [axes |-> <<>>, indexes |-> <<>>, readers |-> rs], SetToSeq(Visited(rq)))

FdbAxes(c) ==
    LET Call(acc, rq) ==
            LET v == AllAxes(rq, c.level, acc.readers)
            IN  [readers |-> v.readers, out |-> Append(acc.out, v.axes)]
        done == FoldLeft(Call, [readers |-> readers, out |-> <<>>], ToolRequests(c))
    IN  /\ readers' = done.readers
        /\ answer' = [call |-> "axes", c |-> c, out |-> done.out]
        /\ UNCHANGED <<master, dbs, pending, calls, log>>

----------------------------------------------------------------------------
(* stats(): every entry of the databases, whatever else the request says.  *)
(* An entry whose key has been seen before, in a newer index, is counted   *)
(* as a duplicate; a data file elsewhere than the database is adopted.     *)

NoDbStats == [dbs |-> 0, owned |-> 0, adopted |-> 0]
AddDbStats(a, b) ==
    [dbs |-> a.dbs + b.dbs, owned |-> a.owned + b.owned, adopted |-> a.adopted + b.adopted]
NoIndexStats == [fields |-> 0, duplicates |-> 0]
AddIndexStats(a, b) ==
    [fields |-> a.fields + b.fields, duplicates |-> a.duplicates + b.duplicates]

(* TocStatsReportVisitor::visitDatum. *)
CountDatum(v, e) ==
    LET file == e.loc.file
        owned == IF file.root = 1 THEN "owned" ELSE "adopted"
        datum == <<e.ix, e.datum>>
    IN  [db |-> IF file \in v.files THEN v.db ELSE [v.db EXCEPT ![owned] = @ + 1],
         index |-> AddIndexStats(v.index,
                       [fields |-> 1, duplicates |-> IF datum \in v.active THEN 1 ELSE 0]),
         files |-> v.files \cup {file}, active |-> v.active \cup {datum}]

(* TocHandler::stats. *)
OwnStats == [NoDbStats EXCEPT !.dbs = 1]

(* What a database adds: itself, its files and its entries. *)
DatabaseStats(d) ==
    LET start == [db |-> OwnStats, index |-> NoIndexStats,
                  files |-> {}, active |-> {}]
    IN  FoldLeft(CountDatum, start, FlattenSeq(MapSeq(LAMBDA idx : Entries(d, idx), dbs[d].indexes)))

RequestStats(total, rq) ==
    FoldLeft(LAMBDA t, v : [db |-> AddDbStats(t.db, v.db), index |-> AddIndexStats(t.index, v.index)],
             total, MapSeq(DatabaseStats, SetToSeq(Visited(rq))))

(* FDBStats::execute: without --ignore-errors it fails at a request before *)
(* which nothing has been found.                                           *)
FdbStats(c) ==
    LET rqs == ToolRequests(c)
        Upto(n) == FoldLeft(RequestStats, [db |-> NoDbStats, index |-> NoIndexStats],
                            SubSeq(rqs, 1, n))
        failed == ~c.ignore /\ \E n \in DOMAIN rqs : Upto(n).db.dbs = 0
    IN  /\ answer' = IF failed THEN [call |-> "refused"]
                     ELSE [call |-> "stats", c |-> c, out |-> Upto(Len(rqs))]
        /\ UNCHANGED <<master, dbs, pending, readers, calls, log>>

----------------------------------------------------------------------------
(* control() and status(): the control files of databases.  A set of       *)
(* identifiers is a number with a bit for each of them.                    *)

Bit == "list" :> 1 @@ "retrieve" :> 2 @@ "archive" :> 4 @@ "wipe" :> 8 @@ "uniqueroot" :> 16
HasBit(value, b) == (value \div b) % 2 = 1
AddIdentifier(value, id) == IF HasBit(value, Bit[id]) THEN value ELSE value + Bit[id]
ToBits(ids) == FoldLeft(AddIdentifier, 0, SetToSeq(ids))

(* ControlIdentifierIterator::nextValue, and a loop over the identifiers.  *)
NextBit(value, remaining) ==
    Min({b \in {Bit[id] : id \in Identifiers} : b >= value /\ HasBit(remaining, b)})
EachIdentifier(bits) ==
    LET upto(s) == IF s.remaining = 0 THEN s
                   ELSE LET b == NextBit(s.value, s.remaining)
                        IN  [value |-> b, remaining |-> s.remaining - b, seen |-> Append(s.seen, b)]
        all == FoldLeft(LAMBDA s, n : upto(s), [value |-> 1, remaining |-> bits, seen |-> <<>>],
                        [n \in 1..Cardinality(Identifiers) |-> n])
    IN  all.seen

(* TocHandler::control. *)
ControlFiles(locks, action, bits) ==
    FoldLeft(LAMBDA ls, b : LET id == CHOOSE i \in Identifiers : Bit[i] = b
                            IN  IF action = "disable" THEN ls \cup {id} ELSE ls \ {id},
             locks, EachIdentifier(bits))

(* What is said of a database: its key and the identifiers not enabled.    *)
ControlElement(ds, d) ==
    [db |-> d, bits |-> FoldLeft(AddIdentifier, 0,
        SelectSeq(SetToSeq(Identifiers), LAMBDA id : id \in ds[d].locks))]
Disabled(e) == {id \in Identifiers : HasBit(e.bits, Bit[id])}

(* ControlVisitor::visitDatabase: only the databases that the request      *)
(* names exactly, not those it may have entries in.                        *)
Controlled(v, d, rq, action, bits) ==
    IF ~KeyMatchRequest(d, rq) THEN v
    ELSE LET ds == [v.dbs EXCEPT ![d].locks = ControlFiles(@, action, bits)]
         IN  [v EXCEPT !.dbs = ds, !.out = Append(@, ControlElement(ds, d))]

(* FDBLock::init, FDBLock::execute: a request that names no database ends  *)
(* the tool, after those before it.                                        *)
Unlocks(c) == c.tool = "unlock"
LockRequests(c) ==
    LET one(v, rq) ==
            LET w == FoldLeft(LAMBDA x, d : Controlled(x, d, rq,
                                  IF Unlocks(c) THEN "enable" ELSE "disable", ToBits(c.ids)),
                              [v EXCEPT !.out = <<>>], SetToSeq(Visited(rq)))
            IN  IF ~v.ok THEN v
                ELSE [w EXCEPT !.ok = w.out # <<>> \/ c.ignore, !.all = Append(@, w.out)]
    IN  FoldLeft(one, [dbs |-> dbs, out |-> <<>>, all |-> <<>>, ok |-> TRUE], ToolRequests(c))

FdbLock(c) ==
    LET v == LockRequests(c)
    IN  /\ dbs' = v.dbs
        /\ answer' = [call |-> "lock", c |-> c, ok |-> v.ok, out |-> v.all, before |-> dbs]
        /\ UNCHANGED <<master, pending, readers, calls, log>>

(* fdb-status: every database that may have entries. *)
StatusOf(rq) == MapSeq(LAMBDA d : ControlElement(dbs, d), SetToSeq(Visited(rq)))
FdbStatus(c) ==
    LET rqs == ToolRequests(c)
        failed == ~c.ignore /\ \E n \in DOMAIN rqs : StatusOf(rqs[n]) = <<>>
    IN  /\ answer' = IF failed THEN [call |-> "refused"]
                     ELSE [call |-> "status", c |-> c, out |-> MapSeq(StatusOf, rqs)]
        /\ UNCHANGED <<master, dbs, pending, readers, calls, log>>

----------------------------------------------------------------------------
Tool(c) ==
    \/ /\ ~Runs(c)
       /\ answer' = [call |-> "refused"]
       /\ UNCHANGED <<master, dbs, pending, readers, calls, log>>
    \/ Runs(c) /\ c.tool = "list" /\ FdbList(c)
    \/ Runs(c) /\ c.tool = "axes" /\ FdbAxes(c)
    \/ Runs(c) /\ c.tool = "stats" /\ FdbStats(c)
    \/ Runs(c) /\ c.tool \in {"lock", "unlock"} /\ FdbLock(c)
    \/ Runs(c) /\ c.tool = "status" /\ FdbStatus(c)

(* Bound: the tools that neither use nor change what the Inspector keeps   *)
(* run before its first call, and no tool right after one of its kind.     *)
InTurn(c) ==
    IF c.tool \in {"lock", "unlock"} \/ (c.tool = "axes" /\ c.level > 2)
    THEN calls < MaxCalls /\ answer.call \in {"none", "inspect"}
    ELSE calls = 0 /\ answer.call \in {"none", "lock"}

ToolNext == Next \/ \E c \in CommandLines : InTurn(c) /\ Tool(c)

ToolSpec == Init /\ [][ToolNext]_vars

----------------------------------------------------------------------------
(***************************************************************************)
(* Properties.                                                             *)
(***************************************************************************)

Visible == {i \in DOMAIN log : log[i].flushed # 0}

(* A request of a tool leaves out the keywords it does not care about. *)
Asked(e, rq) ==
    /\ DOMAIN rq \subseteq Keywords(e)
    /\ \A kw \in DOMAIN rq : FiledAs(e, kw) \in ToSet(rq[kw])

(* The keys list() gives an entry: a blank optional keyword is left out. *)
KeysOf(i) ==
    LET blank == {p.kw : p \in {p \in ToSet(log[i].rules[3].preds) :
                                  p.kind = "optional" /\ log[i].keys[3][p.kw] = Empty}}
    IN  [db |-> log[i].keys[1], ix |-> log[i].keys[2],
         datum |-> [kw \in DOMAIN log[i].keys[3] \ blank |-> log[i].keys[3][kw]]]

(* An entry stays in its section of the index until the next one of that   *)
(* section; without --full only the newest of all sections is listed.      *)
SameSection(i, j) == log[i].flushed = log[j].flushed
AnySection(i, j) == TRUE

Named(line) ==
    {[db |-> line.tree.db, ix |-> line.tree.ix, datum |-> k] :
        k \in {k \in [DOMAIN line.rq -> UNION {line.rq[kw] : kw \in DOMAIN line.rq}] :
                  \A kw \in DOMAIN k : k[kw] \in line.rq[kw]}}

ListIs(c, rq, out) ==
    LET asked == {i \in Visible : "list" \notin dbs[log[i].keys[1]].locks /\ Asked(log[i], rq)}
        kept == IF c.full THEN Newest(asked, SameSection) ELSE Newest(asked, AnySection)
    IN  IF c.compact THEN UNION {Named(line) : line \in out} = {KeysOf(i) : i \in asked}
        ELSE /\ ToSet(out) = {KeysOf(i) @@ [loc |-> log[i].loc] : i \in kept}
             /\ Len(out) = Cardinality(kept)

(* What a key says of a request, and whether some entry of the index that  *)
(* holds entry i has a value the request asks for, keyword by keyword.     *)
Compatible(k, rq) == \A kw \in DOMAIN k \cap DOMAIN rq : k[kw] \in ToSet(rq[kw])
InMatchingIndex(i, rq) ==
    LET same == {j \in Visible : SameSection(i, j) /\ log[j].keys[1] = log[i].keys[1]
                                    /\ log[j].keys[2] = log[i].keys[2]}
    IN  \A kw \in DOMAIN log[i].keys[3] \cap DOMAIN rq :
            \E j \in same : FiledAs(log[j], kw) \in ToSet(rq[kw])

AxesAre(level, rq, out) ==
    LET Holds(i, kw) == kw \in Keywords(log[i]) /\ Level(log[i], kw) <= level
        inside == {i \in Visible : /\ Compatible(log[i].keys[1], rq)
                                   /\ Compatible(log[i].keys[2], rq)
                                   /\ InMatchingIndex(i, rq)}
    IN  /\ \A i \in Visible : Asked(log[i], rq) => \A kw \in Keywords(log[i]) :
               Holds(i, kw) => kw \in DOMAIN out /\ FiledAs(log[i], kw) \in out[kw]
        /\ \A kw \in DOMAIN out : \A v \in out[kw] :
               \/ \E i \in inside : Holds(i, kw) /\ FiledAs(log[i], kw) = v
               \/ \E d \in DOMAIN dbs : Compatible(d, rq) /\ Has(d, kw) /\ d[kw] = v

StatsAre(rqs, out) ==
    LET In(n) == {i \in Visible : Compatible(log[i].keys[1], rqs[n])}
        Total(F(_)) == FoldLeft(LAMBDA t, n : t + F(n), 0, [n \in DOMAIN rqs |-> n])
        FilesAt(n) == {<<log[i].keys[1], log[i].loc.file>> : i \in Newest(In(n), SameSection)}
        index == out.index
    IN  /\ index.fields = Total(LAMBDA n : Cardinality(Newest(In(n), SameSection)))
        /\ index.fields - index.duplicates = Total(LAMBDA n : Cardinality(Newest(In(n), AnySection)))
        /\ out.db.owned + out.db.adopted = Total(LAMBDA n : Cardinality(FilesAt(n)))

(* Whatever the requests have in common, each database that one of them    *)
(* names by values of its key alone, and no other, has its locks set or    *)
(* cleared; a request that names none leaves those after it undone.        *)
Exactly(d, rq) == DOMAIN rq \subseteq DOMAIN d /\ Compatible(d, rq)
LocksAre(c, rqs, out) ==
    /\ \A d \in DOMAIN dbs :
           LET was == answer.before[d].locks
           IN  dbs[d].locks =
                   IF \E n \in DOMAIN out : Exactly(d, rqs[n])
                   THEN IF Unlocks(c) THEN was \ c.ids ELSE was \cup c.ids
                   ELSE was
    /\ \A n \in DOMAIN out :
           {e.db : e \in ToSet(out[n])} = {d \in DOMAIN dbs : Exactly(d, rqs[n])}
    /\ IF answer.ok THEN Len(out) = Len(rqs)
       ELSE \A n \in DOMAIN out : (out[n] = <<>>) = (n = Len(out))

StatusIs(rq, out) ==
    /\ \A e \in ToSet(out) : Disabled(e) = dbs[e.db].locks
    /\ {e.db : e \in ToSet(out)} = {d \in DOMAIN dbs : Compatible(d, rq)}

(* list() answers with the entries of the indexes the request selects,     *)
(* each under the keys its field was archived with (the datum rule found   *)
(* again from the index key reads the fingerprint back: Schema.cc:40,      *)
(* Rule.cc:397, ListVisitor.h:66), the newest under each key once, all     *)
(* that are reachable with --full, and in requests that name just them     *)
(* with --compact (fdb-list.cc:173).  axes() answers with every value of   *)
(* the entries it is asked about and with none that the databases and      *)
(* indexes the request selects do not hold (AxesVisitor.cc:60), and the    *)
(* statistics count as reachable what list() answers (TocStats.cc:286).    *)
(* fdb-lock and fdb-unlock change the databases that a request names       *)
(* exactly (ControlVisitor.cc:38), in the very identifiers they were given *)
(* (ControlIterator.cc:53), and fdb-status says which are locked.          *)
ListFindsAll ==
    LET c == answer.c
        rqs == ToolRequests(c)
    IN  CASE answer.call = "list" -> \A n \in DOMAIN rqs : ListIs(c, rqs[n], answer.out[n])
          [] answer.call = "axes" -> \A n \in DOMAIN rqs : AxesAre(c.level, rqs[n], answer.out[n])
          [] answer.call = "stats" -> StatsAre(rqs, answer.out)
          [] answer.call = "lock" -> LocksAre(c, rqs, answer.out)
          [] answer.call = "status" -> \A n \in DOMAIN rqs : StatusIs(rqs[n], answer.out[n])
          [] OTHER -> TRUE
=============================================================================
