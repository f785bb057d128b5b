----------------------------- MODULE Retrieval ------------------------------
(***************************************************************************)
(* Fields from the call that archives them to the calls that find them:    *)
(* the schema files a field under a database key, an index key and a datum *)
(* key, the index keeps it with its axes, and inspect() expands a request  *)
(* back to it (Schema.cc, Rule.cc, Index.cc, UriStore.cc, TocIndex.cc,     *)
(* TocCatalogueReader.cc, MultiRetrieveVisitor.cc, Inspector.cc).  Listing *)
(* has the calls that visit databases.                                     *)
(*                                                                         *)
(* Writing is one process, whose flush makes an index visible in a step;   *)
(* Archiver and TocWriter have what happens inside.  Reading is one        *)
(* LocalFDB: its Inspector keeps the databases it has opened.              *)
(***************************************************************************)
EXTENDS Axes

CONSTANTS
    Schemas,           \* sequence of schema texts: the master schema and its successors
    Versions,          \* [env, config]: the toc version asked for while each is master
    Fields,            \* what clients archive: <<key of a field, file its data is in>>
    Requests,          \* the requests of inspect()
    MaxOpenDatabases,  \* fdbMaxOpenDatabases
    MaxArchives,       \* bound: calls of archive
    MaxCalls           \* bound: calls of inspect

ASSUME RetrievalAssumption ==
    /\ MaxOpenDatabases \in Nat \ {0} /\ MaxArchives \in Nat /\ MaxCalls \in Nat
    /\ \A s \in DOMAIN Schemas :
           WellFormed(Parse(Schemas[s])) /\ UsedVersion(Versions[s]) \in Supported

VARIABLES
    master,   \* the schema configured now
    dbs,      \* [database key -> [schema, indexes, locks]]: newest index first
    pending,  \* [<<database key, index key as written>> -> index]: not yet flushed
    readers,  \* the Inspector's databases_, most recently used first
    calls,    \* calls of inspect and list so far
    log,      \* history: the fields archived, in order
    answer    \* of the last call, or None

vars == <<master, dbs, pending, readers, calls, log, answer>>

Identifiers == {"list", "retrieve", "archive", "wipe", "uniqueroot"}   \* of control files

None == [call |-> "none"]

Rule == [s \in DOMAIN Schemas |-> Parse(Schemas[s])]
NewIndex(k) == [key |-> k, axes |-> <<>>, uris |-> <<>>, tree |-> <<>>]

Init ==
    /\ master = 1
    /\ dbs = <<>> /\ pending = <<>> /\ readers = <<>>
    /\ calls = 0 /\ log = <<>> /\ answer = None

----------------------------------------------------------------------------
(* Writing. *)

(* UriStore::insert: a file keeps the number it was first given. *)
UriInsert(uris, file) == IF Contains(uris, file) THEN uris ELSE Append(uris, file)
UriId(uris, file) == SelectInSeq(uris, LAMBDA f : f = file)

(* IndexBase::put and TocIndex::add. *)
Put(idx, r, datum, loc) ==
    LET uris == UriInsert(idx.uris, loc.file)
    IN  [idx EXCEPT
            !.axes = AxisInsert(@, CanonicalKey(r.types, datum)),
            !.uris = uris,
            !.tree = (Fingerprint(r, datum) :>
                         [uri |-> UriId(uris, loc.file), offset |-> loc.offset]) @@ @]

(* TocIndex::get: the reference through the index's own file numbers. *)
Location(idx, ref) == [file |-> idx.uris[ref.uri], offset |-> ref.offset]

SchemasOf == [d \in DOMAIN dbs |-> Rule[dbs[d].schema]]

(* The databases a call has selected exist from then on. *)
Created(keys) ==
    [d \in keys |-> [schema |-> master, indexes |-> <<>>, locks |-> {}]]

(* A field is refused, after its databases have been selected, when        *)
(* nothing matches, a keyword is not used, or a value is not tidy; in the  *)
(* last case it has been archived all the same.                            *)
Filed(x, field) == x.st = "ok" /\ KeysUsed(field, x.keys[1] @@ x.keys[2] @@ x.keys[3])
IsTidy(x) == \A l \in 1..3 : CheckKey(x.rules[l].types, x.keys[l])

File(x, field, loc) ==
    LET k == [l \in 1..3 |-> CanonicalKey(x.rules[l].types, x.keys[l])]
        at == <<k[1], x.keys[2]>>
        idx == IF at \in DOMAIN pending THEN pending[at] ELSE NewIndex(k[2])
    IN  /\ pending' = (at :> Put(idx, x.rules[3], x.keys[3], loc)) @@ pending
        /\ log' = Append(log, [field |-> field, keys |-> k, rules |-> x.rules,
                              loc |-> loc, flushed |-> 0])

Archive(field, file) ==
    /\ Len(log) < MaxArchives
    /\ \E x \in {WriteExpand(Rule[master], field, SchemasOf)},
          touched \in {Selected(Rule[master], field, SchemasOf)} :
          /\ \A d \in touched \cap DOMAIN dbs : "archive" \notin dbs[d].locks
          /\ dbs' = dbs @@ Created(touched)
          /\ IF Filed(x, field) THEN File(x, field, [file |-> file, offset |-> Len(log)])
             ELSE UNCHANGED <<pending, log>>
          /\ answer' = IF Filed(x, field) /\ IsTidy(x) THEN None ELSE [call |-> "refused"]
    /\ UNCHANGED <<master, readers, calls>>

(* The number of flushes that have published something. *)
Epoch == Max({0} \cup {log[i].flushed : i \in DOMAIN log})

(* Flush: each index of the session goes in front of those of its          *)
(* database, as readers decode it.                                         *)
Recorded(idx) ==
    LET version == UsedVersion(Versions[master])
    IN  DecodeIndex(EncodeIndex(idx, version), version, idx.tree)
Session(d) == {Recorded(pending[at]) : at \in {a \in DOMAIN pending : a[1] = d}}
Flush ==
    /\ pending # <<>>
    /\ dbs' = [d \in DOMAIN dbs |-> [dbs[d] EXCEPT !.indexes = SetToSeq(Session(d)) \o @]]
    /\ pending' = <<>>
    /\ log' = [i \in DOMAIN log |->
                  IF log[i].flushed = 0 THEN [log[i] EXCEPT !.flushed = Epoch + 1] ELSE log[i]]
    /\ answer' = None
    /\ UNCHANGED <<master, readers, calls>>

(* The master schema is replaced; databases keep the copy they were        *)
(* created with.                                                           *)
NewSchema ==
    /\ master < Len(Schemas)
    /\ master' = master + 1
    /\ answer' = None
    /\ UNCHANGED <<dbs, pending, readers, calls, log>>

----------------------------------------------------------------------------
(***************************************************************************)
(* inspect().  The state of a visit: readers is databases_, db says        *)
(* whether db_ (the first of readers) is set, out is what has been found.  *)
(***************************************************************************)

Reader(v) == v.readers[1]

(* TocCatalogueReader::axis, of the indexes selected last. *)
ReaderAxis(v, kw) ==
    UNION {m.axes[kw] : m \in {m \in ToSet(Reader(v).matching) : Has(m.axes, kw)}}
ToFilter(v, kw) ==
    v.db /\ \E m \in ToSet(Reader(v).matching) : Has(m.axes, kw)

(* MultiRetrieveVisitor::values. *)
ValuesOf(v, rq, kw, types) ==
    LET t == TypeOf(types, kw)
        list == GetValues(t, IF Has(rq, kw) THEN rq[kw] ELSE <<>>, v.db,
                          IF v.db THEN ReaderAxis(v, kw) ELSE {})
    IN  SelectSeq(list, LAMBDA l : ToFilter(v, kw) => ToKey(t, l) \in ReaderAxis(v, kw))

Cached(rs) == SubSeq(rs, 1, Min({MaxOpenDatabases, Len(rs)}))

(* selectDatabase: the current database, one of the open ones, or one to   *)
(* open, which a lock or its absence hides.                                *)
SelectDatabase(v, k, d) ==
    LET at == SelectInSeq(v.readers, LAMBDA r : r.key = k)
        found == [key |-> k, db |-> d, indexes |-> dbs[d].indexes, schema |-> dbs[d].schema,
                  cur |-> <<>>, matching |-> <<>>, asof |-> Epoch, wide |-> FALSE]
    IN  IF at # 0 THEN [v EXCEPT !.db = TRUE, !.ok = TRUE,
                            !.asof = (d :> v.readers[at].asof) @@ @,
                            !.readers = <<v.readers[at]>> \o RemoveAt(@, at)]
        ELSE IF d \notin DOMAIN dbs \/ "retrieve" \in dbs[d].locks THEN [v EXCEPT !.ok = FALSE]
        ELSE [v EXCEPT !.db = TRUE, !.ok = TRUE, !.asof = (d :> Epoch) @@ @,
                  !.readers = Cached(<<found>> \o @)]

(* TocCatalogueReader::selectIndex. *)
SelectIndex_Stale(v, ix) ==   \* mutant: the matches of the last index are kept
    LET r == Reader(v)
        m == r.matching \o SelectSeq(r.indexes, LAMBDA i : i.key = ix)
    IN  IF r.cur = ix THEN [v EXCEPT !.ok = TRUE]
        ELSE [v EXCEPT !.ok = m # <<>>, !.readers[1] = [r EXCEPT !.cur = ix, !.matching = m]]
SelectIndex(v, ix) ==
    LET r == Reader(v)
        m == SelectSeq(r.indexes, LAMBDA i : i.key = ix)
    IN  IF r.cur = ix THEN [v EXCEPT !.ok = TRUE]
        ELSE [v EXCEPT !.ok = m # <<>>, !.readers[1] = [r EXCEPT !.cur = ix, !.matching = m]]

(* selectDatum, TocCatalogueReader::retrieve: the first index that may     *)
(* contain the key and does.                                               *)
SelectDatum(v, r, datum) ==
    LET print == Fingerprint(r, datum)
        hits == SelectSeq(Reader(v).matching, LAMBDA i :
                    AxisContains(i.axes, r.types, datum) /\ print \in DOMAIN i.tree)
    IN  IF hits = <<>> THEN v
        ELSE [v EXCEPT !.out = Append(@, [db |-> Reader(v).key, ix |-> Reader(v).cur,
                 datum |-> [kw \in {k \in DOMAIN datum : datum[k] # Empty} |-> datum[kw]],
                 loc |-> Location(hits[1], hits[1].tree[print])])]

(***************************************************************************)
(* The read side of Rule::expand: predicate i of rule r at the given depth.*)
(* The values of a keyword are asked for with whatever database and index  *)
(* the visit selected last.                                                *)
(***************************************************************************)
RECURSIVE ReadExpand(_, _, _, _, _, _)
ReadRules(rules, depth, k, rq, v) ==
    FoldLeft(LAMBDA acc, r : ReadExpand(r, 1, depth, k, rq, acc), v, rules)

ReadExpand(r, i, depth, k, rq, v) ==
    IF i <= Len(r.preds)
    THEN LET p == r.preds[i]
             asked == ValuesOf(v, rq, p.kw, r.types)
             vals == IF asked = <<>> /\ IsOptional(p) THEN <<p.default>> ELSE asked
         IN  FoldLeft(LAMBDA acc, val :
                 LET pushed == Pushed(k, p.kw, val)
                 IN  IF PredMatch(p, pushed)
                     THEN ReadExpand(r, i + 1, depth, pushed, rq, acc) ELSE acc,
                 v, vals)
    ELSE CASE depth = 0 ->
                LET s == SelectDatabase(v, k, CanonicalKey(r.types, k))
                    rules == Rule[Reader(s).schema]
                IN  IF s.ok THEN ReadRules(rules[DbRule(rules, k)].rules, 1, <<>>, rq, s) ELSE s
           [] depth = 1 ->
                LET s == SelectIndex(v, k)
                IN  IF s.ok THEN ReadRules(r.rules, 2, <<>>, rq, s) ELSE s
           [] depth = 2 -> SelectDatum(v, r, k)

Inspect(rq) ==
    LET v == ReadRules(Rule[master], 0, <<>>, rq,
                 [readers |-> readers, db |-> FALSE, ok |-> TRUE, out |-> <<>>, asof |-> <<>>])
    IN  /\ calls < MaxCalls
        /\ calls' = calls + 1
        /\ readers' = v.readers
        /\ answer' = [call |-> "inspect", rq |-> rq, out |-> v.out, asof |-> v.asof,
                        wide |-> {r.db : r \in {r \in ToSet(readers) : r.wide}}]
        /\ UNCHANGED <<master, dbs, pending, log>>

Next ==
    \/ \E f \in Fields : Archive(f[1], f[2])
    \/ Flush
    \/ NewSchema
    \/ \E rq \in Requests : Inspect(rq)

Spec == Init /\ [][Next]_vars

----------------------------------------------------------------------------
(***************************************************************************)
(* Properties.  What a call should answer is stated on the history of what *)
(* was archived, by comparing values in canonical form.                    *)
(***************************************************************************)

TypeOK ==
    /\ master \in DOMAIN Schemas
    /\ \A d \in DOMAIN dbs :
           dbs[d].schema \in 1..master /\ dbs[d].locks \subseteq Identifiers
    /\ \A at \in DOMAIN pending : at[1] \in DOMAIN dbs
    /\ Len(readers) <= MaxOpenDatabases
    /\ calls \in 0..MaxCalls /\ Len(log) <= MaxArchives

(* The level of a keyword in the rules that filed an entry, its type and   *)
(* the value it is filed under.                                            *)
Level(e, kw) == CHOOSE l \in 1..3 : kw \in DOMAIN e.keys[l]
TypeAt(e, kw) == TypeOf(e.rules[Level(e, kw)].types, kw)
FiledAs(e, kw) == e.keys[Level(e, kw)][kw]
Keywords(e) == UNION {DOMAIN e.keys[l] : l \in 1..3}

Loosely(type, v, filed) ==
    \/ type = "Ignore"
    \/ type = "Step" /\ v.from = v.to /\ filed = [from |-> 0, to |-> v.to]
    \/ type = "Param" /\ ParamMatch(v, filed)

(* A value that is only loosely the filed one asks for it when no field    *)
(* seen at the same place has the very value.                              *)
SameValue(e, kw, v, seen) ==
    \/ Canonical(TypeAt(e, kw), v) = FiledAs(e, kw)
    \/ /\ Loosely(TypeAt(e, kw), v, FiledAs(e, kw))
       /\ \A i \in seen : log[i].keys[1] = e.keys[1] /\ log[i].keys[2] = e.keys[2]
                               => FiledAs(log[i], kw) # v

(* A request for fields names every keyword they were archived with. *)
Requested(e, rq, seen) ==
    \A kw \in Keywords(e) :
        IF kw \in DOMAIN rq
        THEN \E i \in DOMAIN rq[kw] : SameValue(e, kw, rq[kw][i], seen)
        ELSE kw \notin DOMAIN e.field \/ TypeAt(e, kw) = "Ignore"

Newest(es, Together(_, _)) ==
    {i \in es : ~\E j \in es : j > i /\ log[j].keys = log[i].keys /\ Together(i, j)}

(* The reader of a database whose axes have grown (Listing) may take a     *)
(* value that is only loosely the filed one for one of another database.   *)
Shadowed(e, rq) ==
    \E kw \in DOMAIN rq, i \in DOMAIN log : \E at \in DOMAIN rq[kw] :
        /\ kw \in Keywords(e) /\ kw \in Keywords(log[i]) /\ log[i].flushed # 0
        /\ Canonical(TypeAt(e, kw), rq[kw][at]) # FiledAs(e, kw)
        /\ FiledAs(log[i], kw) # FiledAs(e, kw)
        /\ rq[kw][at] = FiledAs(log[i], kw) \/ Loosely(TypeAt(e, kw), rq[kw][at], FiledAs(log[i], kw))

(* inspect() answers with the newest field under each key the request      *)
(* names, once, as of the moment its reader opened the database, and with  *)
(* nothing else, however the values are spelled and whatever was asked of  *)
(* the same Inspector before (Rule.cc:51, MultiRetrieveVisitor.cc:46,      *)
(* TocCatalogueReader.cc:49).  After axes() has made the sets of values of *)
(* a cached reader grow (IndexAxis.cc:370) it may miss a field asked for   *)
(* by a loose value, and no other.                                         *)
InspectFinds ==
    /\ TypeOK
    /\ answer.call = "inspect" =>
        LET AsOf(d) == IF d \in DOMAIN answer.asof THEN answer.asof[d]
                       ELSE IF "retrieve" \in dbs[d].locks THEN 0 ELSE Epoch
            seen == {i \in DOMAIN log : log[i].flushed \in 1..AsOf(log[i].keys[1])}
            wanted == Newest({i \in seen : Requested(log[i], answer.rq, seen)},
                             LAMBDA i, j : TRUE)
            certain == {i \in wanted : log[i].keys[1] \in answer.wide
                                           => ~Shadowed(log[i], answer.rq)}
            found == {o.loc : o \in ToSet(answer.out)}
        IN  /\ found \subseteq {log[i].loc : i \in wanted}
            /\ {log[i].loc : i \in certain} \subseteq found
            /\ Len(answer.out) = Cardinality(found)
=============================================================================
