--------------------------- MODULE ArchiverProofs ---------------------------
(***************************************************************************)
(* Theorems about the Archiver, for any number of databases and index      *)
(* keys, any limit on the databases open, any locks and failed flushes.    *)
(***************************************************************************)
EXTENDS Archiver, Lemmas

(***************************************************************************)
(* The inductive invariant, in parts.  What is remembered of the previous  *)
(* field is the database that is current and, while that is open, the      *)
(* index its catalogue has selected: so the shortcut of Rule::expand takes *)
(* a field where the full selection would have taken it.                   *)
(***************************************************************************)
Remembered ==
    prev[1] # None =>
        /\ current = prev[1]
        /\ prev[2] # None /\ current \in open => indexKey[current] = prev[2]

(* Nothing is held in memory for a database that is not open. *)
ClosedIsEmpty == \A d \in DBs \ open : buffered[d] = {} /\ entries[d] = NoEntries

(* Fields are numbered as they are archived: the next one is in no index and no toc. *)
Numbered ==
    \A d \in DBs, ik \in IndexKeys : \A f \in entries[d][ik] \cup published[d][ik] : f.n <= count

(* The data of a field is somewhere, and so is its entry. *)
HasData(f) == f \in durable \cup leaked \cup buffered[f.db]
HasEntry(f) == f \in published[f.db][f.ik] \cup entries[f.db][f.ik] \cup unrecorded
UnackedIsHeld == \A f \in unacked \ lost : HasData(f) /\ HasEntry(f)

AckedIsOut == \A f \in acked \ lost : f \in durable \cup leaked /\ Indexed(f)

(***************************************************************************)
(* An index no flush would visit holds only what a failed record left in   *)
(* it: so what a flush or an eviction passes over is in the history.       *)
(***************************************************************************)
CleanIsUnrecorded ==
    \A d \in DBs, ik \in IndexKeys : ik \in dirty[d] \/ entries[d][ik] \subseteq unrecorded

(* No toc leads to data that is still buffered by an open database. *)
PublishedIsFlushed == \A d \in DBs, ik \in IndexKeys : published[d][ik] \cap buffered[d] = {}

(* exit() writes out what evicted databases left in their streams. *)
ExitWritesAll == status = "exited" => leaked = {}

IInv ==
    /\ TypeOK
    /\ Remembered
    /\ ClosedIsEmpty
    /\ Numbered
    /\ FiledUnderItsKeys
    /\ UnackedIsHeld
    /\ AckedIsOut
    /\ CleanIsUnrecorded
    /\ PublishedIsFlushed
    /\ ExitWritesAll

----------------------------------------------------------------------------
(* The eviction makes room for one database: what it evicts was open. *)
LEMMA VictimIsOpen ==
    ASSUME TypeOK, open # {}
    PROVE  Victim \in open
<1> DEFINE times == {last[d] : d \in open}
           oldest == {d \in open : \A e \in open : last[d] <= last[e]}
<1>1. open \subseteq DBs /\ last \in [DBs -> Nat] /\ NumDBs \in Nat
    BY ArchiverAssumption DEF TypeOK
<1>2. times \in SUBSET Nat /\ times # {}
  <2>1. \A d \in open : last[d] \in Nat
    BY <1>1
  <2>2. PICK d \in open : TRUE
    OBVIOUS
  <2>3. last[d] \in times
    BY <2>2
  <2> QED
    BY <2>1, <2>3
<1>3. PICK t \in times : \A u \in times : t <= u
    BY <1>2, LeastNat
<1>4. PICK d \in open : t = last[d]
    BY <1>3
<1>5. d \in oldest
    BY <1>3, <1>4
<1>6. oldest \in SUBSET (0..NumDBs)
  <2>1. DBs \subseteq 0..NumDBs
    BY <1>1 DEF DBs
  <2>2. oldest \subseteq open
    OBVIOUS
  <2> QED
    BY <1>1, <2>1, <2>2
<1>7. PICK m \in oldest : \A k \in oldest : k <= m
    BY <1>1, <1>5, <1>6, GreatestNat
<1>8. m \in oldest /\ \A k \in oldest : m >= k
    BY <1>1, <1>6, <1>7
<1>9. Max(oldest) \in oldest
    BY <1>8 DEF Max
<1> QED
    BY <1>9 DEF Victim

(* After the eviction there is room for the database. *)
LEMMA EvictionMakesRoom ==
    ASSUME TypeOK, NEW db \in DBs
    PROVE  /\ Evicted(db) \subseteq open \ {db}
           /\ Cardinality((open \ Evicted(db)) \cup {db}) <= MaxNbDBsOpen
           /\ Cardinality(open \ Evicted(db)) <= MaxNbDBsOpen
<1>1. open \subseteq DBs /\ Cardinality(open) <= MaxNbDBsOpen /\ NumDBs \in Nat /\ MaxNbDBsOpen \in Nat \ {0}
    BY ArchiverAssumption DEF TypeOK
<1>2. IsFiniteSet(open) /\ Cardinality(open) \in Nat
  <2>1. IsFiniteSet(DBs)
    BY <1>1, FS_Interval DEF DBs
  <2> QED
    BY <1>1, <2>1, FS_Subset, FS_CardinalityType
<1>3. CASE db \in open
  <2>1. Evicted(db) = {} /\ (open \ {}) \cup {db} = open /\ open \ {} = open
    BY <1>3 DEF Evicted
  <2> QED
    BY <1>1, <2>1
<1>4. CASE db \notin open /\ Cardinality(open) < MaxNbDBsOpen
  <2>1. Evicted(db) = {}
    BY <1>1, <1>2, <1>4 DEF Evicted
  <2>2. open \ {} = open
    OBVIOUS
  <2>3. Cardinality(open \cup {db}) = Cardinality(open) + 1
    BY <1>2, <1>4, FS_AddElement
  <2> QED
    BY <1>1, <1>2, <1>4, <2>1, <2>2, <2>3
<1>5. CASE db \notin open /\ Cardinality(open) >= MaxNbDBsOpen
  <2>1. open # {}
    BY <1>1, <1>5, FS_EmptySet
  <2>2. Victim \in open /\ Evicted(db) = {Victim}
    BY <1>5, <2>1, VictimIsOpen DEF Evicted
  <2>3. /\ IsFiniteSet(open \ {Victim})
        /\ Cardinality(open \ {Victim}) = Cardinality(open) - 1
    BY <1>2, <2>2, FS_RemoveElement
  <2>4. Cardinality((open \ {Victim}) \cup {db}) = Cardinality(open)
    <3>1. db \notin open \ {Victim}
        BY <1>5
    <3>2. Cardinality((open \ {Victim}) \cup {db}) = Cardinality(open \ {Victim}) + 1
        BY <2>3, <3>1, FS_AddElement
    <3> QED
        BY <1>2, <2>3, <3>2
  <2> QED
    BY <1>1, <1>2, <1>5, <2>2, <2>3, <2>4
<1> QED
    BY <1>1, <1>2, <1>3, <1>4, <1>5

(* The tocs after records of the indexes ixs. *)
LEMMA RecordsWritten ==
    ASSUME TypeOK, NEW ixs, WriteRecords(ixs)
    PROVE  /\ published' \in [DBs -> [IndexKeys -> SUBSET Fields]]
           /\ \A d \in DBs, k \in IndexKeys :
                 published'[d][k] = IF k \in ixs[d] THEN published[d][k] \cup entries[d][k]
                                                    ELSE published[d][k]
<1>1. \A d \in DBs, k \in IndexKeys :
         published'[d][k] = IF k \in ixs[d] THEN published[d][k] \cup entries[d][k] ELSE published[d][k]
    BY DEF WriteRecords
<1>2. ASSUME NEW d \in DBs, NEW k \in IndexKeys
      PROVE  published[d][k] \subseteq Fields /\ entries[d][k] \subseteq Fields
    BY DEF TypeOK
<1>3. ASSUME NEW d \in DBs, NEW k \in IndexKeys
      PROVE  published'[d][k] \in SUBSET Fields
  <2>1. published'[d][k] = IF k \in ixs[d] THEN published[d][k] \cup entries[d][k] ELSE published[d][k]
    BY <1>1
  <2> QED
    BY <1>2, <2>1
<1>4. published' = [d \in DBs |-> [k \in IndexKeys |-> published'[d][k]]]
    BY DEF WriteRecords
<1> QED
    BY <1>1, <1>3, <1>4

LEMMA DirtyOf ==
    ASSUME NEW ds, NEW d \in DBs
    PROVE  Dirty(ds)[d] = IF d \in ds THEN dirty[d] ELSE {}
    BY DEF Dirty

(* The tocs after an eviction or an exit: records of the dirty indexes of the databases that go. *)
LEMMA DirtyRecorded ==
    ASSUME TypeOK, NEW ds, WriteRecords(Dirty(ds))
    PROVE  /\ published' \in [DBs -> [IndexKeys -> SUBSET Fields]]
           /\ \A d \in DBs, k \in IndexKeys :
                 published'[d][k] = IF d \in ds /\ k \in dirty[d] THEN published[d][k] \cup entries[d][k]
                                                               ELSE published[d][k]
<1> DEFINE ixs == Dirty(ds)
<1>1. \A d \in DBs : ixs[d] = IF d \in ds THEN dirty[d] ELSE {}
    BY DirtyOf
<1> HIDE DEF ixs
<1>2. WriteRecords(ixs)
    BY DEF ixs
<1>3. /\ published' \in [DBs -> [IndexKeys -> SUBSET Fields]]
      /\ \A d \in DBs, k \in IndexKeys :
            published'[d][k] = IF k \in ixs[d] THEN published[d][k] \cup entries[d][k] ELSE published[d][k]
    BY <1>2, RecordsWritten
<1>4. ASSUME NEW d \in DBs, NEW k \in IndexKeys
      PROVE  published'[d][k] = IF d \in ds /\ k \in dirty[d] THEN published[d][k] \cup entries[d][k]
                                                            ELSE published[d][k]
  <2>1. published'[d][k] = IF k \in ixs[d] THEN published[d][k] \cup entries[d][k] ELSE published[d][k]
    BY <1>3
  <2>2. ixs[d] = IF d \in ds THEN dirty[d] ELSE {}
    BY <1>1
  <2> QED
    BY <2>1, <2>2
<1> QED
    BY <1>3, <1>4

----------------------------------------------------------------------------
(***************************************************************************)
(* FDB::archive on a usable database: the field goes to its own database   *)
(* and, when it is filed, into the index of its own key.                   *)
(***************************************************************************)
LEMMA ArchiveInv ==
    ASSUME IInv, NEW db \in DBs, NEW ik \in IndexKeys, NEW outcome \in Outcomes,
           Archive(db, ik, outcome)
    PROVE  IInv'
<1> DEFINE f == [db |-> db, ik |-> ik, n |-> count + 1]
           gone == IF SkipsDatabase(db) THEN {} ELSE Evicted(db)
           to == IF SkipsDatabase(db) THEN current ELSE db
           selected == IF SkipsDatabase(db) THEN indexKey[to] ELSE None
           ix == IF SkipsIndex(db, ik) \/ outcome = "noRule" THEN selected ELSE ik
           filed == IF outcome \in {"notCanonical", "archived"} THEN {f} ELSE {}
           returned == IF outcome = "archived" THEN {f} ELSE {}
<1>1. TypeOK /\ None \notin DBs /\ None \notin IndexKeys
    BY ArchiverAssumption DEF IInv, DBs
<1>2. to = db /\ (SkipsDatabase(db) => db \in open /\ prev[1] # None)
    BY <1>1 DEF IInv, Remembered, SkipsDatabase, Archive
<1>3. gone \subseteq open \ {db} /\ gone \subseteq DBs
    BY <1>1, EvictionMakesRoom DEF TypeOK
<1>4. ix \in IndexKeys \cup {None} /\ (outcome # "noRule" => ix = ik)
  <2>1. indexKey[db] \in IndexKeys \cup {None}
    BY <1>1 DEF TypeOK
  <2>2. SkipsIndex(db, ik) => indexKey[db] = ik
    BY <1>1, <1>2 DEF IInv, Remembered, SkipsIndex, SkipsDatabase
  <2> QED
    BY <1>2, <2>1, <2>2 DEF SkipsIndex
<1>5. /\ filed = {} \/ (filed = {f} /\ f \in Fields /\ outcome # "noRule")
      /\ returned \subseteq filed
      /\ count' \in 0..MaxArchives /\ count' = count + Cardinality(filed)
      /\ count <= count' /\ (filed # {} => count' = count + 1)
  <2>1. count \in 0..MaxArchives /\ MaxArchives \in Nat
    BY <1>1, ArchiverAssumption DEF TypeOK
  <2>2. (filed # {} => count < MaxArchives) /\ count' = count + Cardinality(filed)
    BY DEF Archive
  <2>3. filed = {} \/ (filed = {f} /\ outcome # "noRule")
    OBVIOUS
  <2>4. returned \subseteq filed
    OBVIOUS
  <2>5. Cardinality({}) = 0 /\ Cardinality({f}) = 1
    BY FS_EmptySet, FS_Singleton
  <2>6. filed # {} => count + 1 \in 1..MaxArchives
    BY <2>1, <2>2
  <2>7. filed # {} => f \in Fields
    BY <2>6 DEF Fields
  <2> QED
    BY <2>1, <2>2, <2>3, <2>4, <2>5, <2>6, <2>7
<1>6. /\ status = "running" /\ status' = "running"
      /\ open' = (open \ gone) \cup {db} /\ current' = db
      /\ last' = IF SkipsDatabase(db) THEN last ELSE [Without(last, gone, 0) EXCEPT ![db] = now]
      /\ prev' = IF outcome # "noRule" THEN <<db, ik>>
                 ELSE IF SkipsDatabase(db) THEN prev ELSE <<db, None>>
      /\ indexKey' = [Without(indexKey, gone, None) EXCEPT ![db] = ix]
      /\ buffered' = [Without(buffered, gone, {}) EXCEPT ![db] = @ \cup filed]
      /\ entries' = IF filed = {} THEN Without(entries, gone, NoEntries)
                    ELSE [Without(entries, gone, NoEntries) EXCEPT ![db][ix] = @ \cup filed]
      /\ dirty' = IF filed = {} THEN Without(dirty, gone, {})
                  ELSE [Without(dirty, gone, {}) EXCEPT ![db] = @ \cup {ix}]
      /\ fdbDirty' = (fdbDirty \/ returned # {})
      /\ unacked' = unacked \cup returned
      /\ leaked' = leaked \cup UNION {buffered[d] : d \in gone}
      /\ WriteRecords(Dirty(gone))
      /\ UNCHANGED <<durable, locked, now, acked, lost, unrecorded>>
    BY <1>2 DEF Archive, EvictDisk
<1>7. /\ f.db = db /\ f.ik = ik /\ f.n = count + 1
      /\ count \in Nat
    BY <1>1, ArchiverAssumption DEF TypeOK
<1>8. /\ published' \in [DBs -> [IndexKeys -> SUBSET Fields]]
      /\ \A d \in DBs, k \in IndexKeys :
            published'[d][k] = IF d \in gone /\ k \in dirty[d] THEN published[d][k] \cup entries[d][k]
                                                             ELSE published[d][k]
  <2> HIDE DEF gone
  <2>1. WriteRecords(Dirty(gone))
    BY <1>6
  <2> QED
    BY <1>1, <2>1, DirtyRecorded
<1> HIDE DEF gone, to, selected, ix, filed, returned
<1>9. \A d \in DBs :
         /\ buffered'[d] = IF d = db THEN buffered[db] \cup filed ELSE IF d \in gone THEN {} ELSE buffered[d]
         /\ indexKey'[d] = IF d = db THEN ix ELSE IF d \in gone THEN None ELSE indexKey[d]
         /\ dirty'[d] = IF d = db THEN IF filed = {} THEN dirty[db] ELSE dirty[db] \cup {ix}
                        ELSE IF d \in gone THEN {} ELSE dirty[d]
    BY <1>3, <1>6 DEF Without
<1>10. \A d \in DBs, k \in IndexKeys :
         entries'[d][k] = IF d = db /\ k = ik THEN entries[db][ik] \cup filed
                          ELSE IF d \in gone THEN {} ELSE entries[d][k]
  <2>1. CASE filed = {}
    BY <1>3, <1>6, <2>1 DEF Without, NoEntries
  <2>2. CASE filed # {}
    <3>1. ix = ik
        BY <1>4, <1>5, <2>2
    <3>2. Without(entries, gone, NoEntries)[db] = entries[db]
        BY <1>3 DEF Without
    <3>3. entries[db] \in [IndexKeys -> SUBSET Fields]
        BY <1>1 DEF TypeOK
    <3>4. entries' = [Without(entries, gone, NoEntries) EXCEPT ![db][ik] = @ \cup filed]
        BY <1>6, <2>2, <3>1
    <3> QED
        BY <3>2, <3>3, <3>4 DEF Without, NoEntries
  <2> QED
    BY <2>1, <2>2
<1>11. TypeOK'
  <2>1. open' \subseteq DBs /\ Cardinality(open') <= MaxNbDBsOpen
    <3>1. CASE SkipsDatabase(db)
        <4>1. gone = {} /\ open' = open
            BY <1>2, <1>6, <3>1 DEF gone
        <4> QED
            BY <1>1, <4>1 DEF TypeOK
    <3>2. CASE ~SkipsDatabase(db)
        <4>1. gone = Evicted(db)
            BY <3>2 DEF gone
        <4> QED
            BY <1>1, <1>6, <4>1, EvictionMakesRoom DEF TypeOK
    <3> QED
        BY <3>1, <3>2
  <2>2. last' \in [DBs -> Nat] /\ indexKey' \in [DBs -> IndexKeys \cup {None}]
    <3>1. Without(last, gone, 0) \in [DBs -> Nat] /\ last \in [DBs -> Nat] /\ now \in Nat
        BY <1>1, ArchiverAssumption DEF TypeOK, Without
    <3>2. Without(indexKey, gone, None) \in [DBs -> IndexKeys \cup {None}]
        BY <1>1 DEF TypeOK, Without
    <3>3. last' \in [DBs -> Nat]
        BY <1>6, <3>1
    <3> QED
        BY <1>4, <1>6, <3>2, <3>3
  <2>3. buffered' \in [DBs -> SUBSET Fields]
    BY <1>1, <1>5, <1>6 DEF TypeOK, Without
  <2>4. entries' \in [DBs -> [IndexKeys -> SUBSET Fields]]
    <3>1. Without(entries, gone, NoEntries) \in [DBs -> [IndexKeys -> SUBSET Fields]]
        BY <1>1 DEF TypeOK, Without, NoEntries
    <3>2. \A g \in [DBs -> [IndexKeys -> SUBSET Fields]] :
             filed \subseteq Fields => [g EXCEPT ![db][ix] = @ \cup filed] \in [DBs -> [IndexKeys -> SUBSET Fields]]
        OBVIOUS
    <3> QED
        BY <1>5, <1>6, <3>1, <3>2
  <2>5. current' \in DBs \cup {None} /\ prev' \in (DBs \cup {None}) \X (IndexKeys \cup {None})
    BY <1>1, <1>6 DEF TypeOK
  <2>6. leaked' \subseteq Fields /\ durable' \subseteq Fields
    BY <1>1, <1>3, <1>6 DEF TypeOK
  <2>7. published' \in [DBs -> [IndexKeys -> SUBSET Fields]] /\ dirty' \in [DBs -> SUBSET IndexKeys]
    <3>1. Without(dirty, gone, {}) \in [DBs -> SUBSET IndexKeys]
        BY <1>1 DEF TypeOK, Without
    <3>2. filed # {} => ix \in IndexKeys
        BY <1>4, <1>5
    <3> QED
        BY <1>6, <1>8, <3>1, <3>2
  <2>8. unacked' \subseteq Fields
    BY <1>1, <1>5, <1>6 DEF TypeOK
  <2>9. fdbDirty' \in BOOLEAN
    BY <1>1, <1>6 DEF TypeOK
  <2> QED
    BY <1>1, <1>5, <1>6, <2>1, <2>2, <2>3, <2>4, <2>5, <2>6, <2>7, <2>8, <2>9 DEF TypeOK
<1>12. Remembered'
  <2>1. indexKey'[db] = ix
    BY <1>9
  <2>2. CASE outcome # "noRule"
    BY <1>4, <1>6, <2>1, <2>2 DEF Remembered
  <2>3. CASE outcome = "noRule" /\ ~SkipsDatabase(db)
    BY <1>6, <2>3 DEF Remembered
  <2>4. CASE outcome = "noRule" /\ SkipsDatabase(db)
    <3>1. prev' = prev /\ prev[1] = db /\ current = db /\ current \in open
        BY <1>1, <1>2, <1>6, <2>4 DEF IInv, Remembered, SkipsDatabase
    <3>2. ix = indexKey[db]
        BY <1>2, <2>4 DEF ix, selected
    <3> QED
        BY <1>2, <1>6, <2>1, <2>4, <3>1, <3>2 DEF IInv, Remembered
  <2> QED
    BY <2>2, <2>3, <2>4
<1>13. ClosedIsEmpty'
  <2> SUFFICES ASSUME NEW d \in DBs, d \notin open'
               PROVE  buffered'[d] = {} /\ entries'[d] = NoEntries
    BY DEF ClosedIsEmpty
  <2>1. d # db /\ (d \in gone \/ d \notin open)
    BY <1>6
  <2>2. d \notin open => buffered[d] = {} /\ entries[d] = NoEntries
    BY DEF IInv, ClosedIsEmpty
  <2>3. buffered'[d] = {}
    BY <1>9, <2>1, <2>2
  <2>4. \A k \in IndexKeys : entries'[d][k] = {}
    BY <1>10, <2>1, <2>2 DEF NoEntries
  <2>5. entries'[d] \in [IndexKeys -> SUBSET Fields]
    BY <1>11 DEF TypeOK
  <2>6. entries'[d] = [k \in IndexKeys |-> entries'[d][k]]
    BY <2>5
  <2> QED
    BY <2>3, <2>4, <2>6 DEF NoEntries
<1>14. Numbered'
  <2> SUFFICES ASSUME NEW d \in DBs, NEW k \in IndexKeys, NEW g \in entries'[d][k] \cup published'[d][k]
               PROVE  g.n <= count'
    BY DEF Numbered
  <2>1. g \in entries[d][k] \cup published[d][k] \/ g \in filed
    BY <1>8, <1>10
  <2>2. g \in filed => g.n <= count'
    BY <1>5, <1>7
  <2>3. g \in entries[d][k] \cup published[d][k] => g.n <= count /\ g.n \in Nat
    BY <1>1, ArchiverAssumption DEF IInv, Numbered, TypeOK, Fields
  <2> QED
    BY <1>5, <1>7, <2>1, <2>2, <2>3
<1>15. FiledUnderItsKeys'
  <2> SUFFICES ASSUME NEW d \in DBs
               PROVE  /\ \A g \in buffered'[d] : g.db = d
                      /\ \A k \in IndexKeys : \A g \in entries'[d][k] \cup published'[d][k] :
                            g.db = d /\ g.ik = k
    BY DEF FiledUnderItsKeys
  <2>1. \A g \in buffered'[d] : g.db = d
    BY <1>5, <1>7, <1>9 DEF IInv, FiledUnderItsKeys
  <2>2. ASSUME NEW k \in IndexKeys, NEW g \in entries'[d][k] \cup published'[d][k]
        PROVE  g.db = d /\ g.ik = k
    <3>1. g \in entries[d][k] \cup published[d][k] \/ (g \in filed /\ d = db /\ k = ik)
        BY <1>8, <1>10
    <3> QED
        BY <1>5, <1>7, <3>1 DEF IInv, FiledUnderItsKeys
  <2> QED
    BY <2>1, <2>2
<1>16. \A g \in Fields : HasData(g) => HasData(g)'
  <2> SUFFICES ASSUME NEW g \in Fields, HasData(g) PROVE HasData(g)'
    OBVIOUS
  <2>1. g.db \in DBs
    BY DEF Fields
  <2>2. durable' = durable /\ leaked \subseteq leaked'
    BY <1>6
  <2>3. g \in buffered[g.db] => g \in buffered'[g.db] \cup leaked'
    BY <1>6, <1>9, <2>1
  <2> QED
    BY <2>2, <2>3 DEF HasData
<1>17. \A g \in Fields : HasEntry(g) => HasEntry(g)'
  <2> SUFFICES ASSUME NEW g \in Fields, HasEntry(g) PROVE HasEntry(g)'
    OBVIOUS
  <2>1. g.db \in DBs /\ g.ik \in IndexKeys
    BY DEF Fields
  <2>2. g \in entries[g.db][g.ik] => g.ik \in dirty[g.db] \/ g \in unrecorded
    BY <2>1 DEF IInv, CleanIsUnrecorded
  <2>3. published'[g.db][g.ik] = IF g.db \in gone /\ g.ik \in dirty[g.db]
                                  THEN published[g.db][g.ik] \cup entries[g.db][g.ik]
                                  ELSE published[g.db][g.ik]
    BY <1>8, <2>1
  <2>4. g.db \notin gone => entries[g.db][g.ik] \subseteq entries'[g.db][g.ik]
    BY <1>10, <2>1
  <2> QED
    BY <1>6, <2>2, <2>3, <2>4 DEF HasEntry
<1>18. UnackedIsHeld'
  <2> SUFFICES ASSUME NEW g \in unacked' \ lost' PROVE HasData(g)' /\ HasEntry(g)'
    BY DEF UnackedIsHeld
  <2>1. CASE g \in unacked \ lost
    BY <1>1, <1>16, <1>17, <2>1 DEF IInv, UnackedIsHeld, TypeOK
  <2>2. CASE g \in filed
    <3>1. g.db = db /\ g.ik = ik
        BY <1>5, <1>7, <2>2
    <3>2. g \in buffered'[db] /\ g \in entries'[db][ik]
        BY <1>9, <1>10, <2>2
    <3> QED
        BY <3>1, <3>2 DEF HasData, HasEntry
  <2> QED
    BY <1>5, <1>6, <2>1, <2>2
<1>19. AckedIsOut'
  <2> SUFFICES ASSUME NEW g \in acked \ lost
               PROVE  g \in durable' \cup leaked' /\ Indexed(g)'
    BY <1>6 DEF AckedIsOut
  <2>1. g.db \in DBs /\ g.ik \in IndexKeys
    BY <1>1 DEF TypeOK, Fields
  <2>2. g \in durable \cup leaked /\ Indexed(g)
    BY DEF IInv, AckedIsOut
  <2>3. published[g.db][g.ik] \subseteq published'[g.db][g.ik]
    <3>1. published'[g.db][g.ik] = IF g.db \in gone /\ g.ik \in dirty[g.db]
                                       THEN published[g.db][g.ik] \cup entries[g.db][g.ik]
                                       ELSE published[g.db][g.ik]
        BY <1>8, <2>1
    <3> QED
        BY <3>1
  <2> QED
    BY <1>6, <2>2, <2>3 DEF Indexed
<1>20. PublishedIsFlushed'
  <2> SUFFICES ASSUME NEW d \in DBs, NEW k \in IndexKeys, NEW g \in published'[d][k], g \in buffered'[d]
               PROVE  FALSE
    BY DEF PublishedIsFlushed
  <2>1. CASE d \in gone
    BY <1>3, <1>9, <2>1
  <2>2. CASE d \notin gone
    <3>1. g \in published[d][k]
        BY <1>8, <2>2
    <3>2. g \notin filed
        <4>1. g.n <= count
            BY <3>1 DEF IInv, Numbered
        <4> QED
            BY <1>5, <1>7, <4>1
    <3> QED
        BY <1>9, <2>2, <3>1, <3>2 DEF IInv, PublishedIsFlushed
  <2> QED
    BY <2>1, <2>2
<1>21. ExitWritesAll'
    BY <1>6 DEF ExitWritesAll
<1>22. CleanIsUnrecorded'
  <2> SUFFICES ASSUME NEW d \in DBs, NEW k \in IndexKeys
               PROVE  k \in dirty'[d] \/ entries'[d][k] \subseteq unrecorded
    BY <1>6 DEF CleanIsUnrecorded
  <2>1. k \in dirty[d] \/ entries[d][k] \subseteq unrecorded
    BY DEF IInv, CleanIsUnrecorded
  <2>2. CASE d = db /\ k = ik
    BY <1>4, <1>5, <1>9, <1>10, <2>1, <2>2
  <2>3. CASE ~(d = db /\ k = ik)
    BY <1>3, <1>9, <1>10, <2>1, <2>3
  <2> QED
    BY <2>2, <2>3
<1> QED
    BY <1>11, <1>12, <1>13, <1>14, <1>15, <1>18, <1>19, <1>20, <1>21, <1>22 DEF IInv

(* The database is locked: only the eviction happened.  What was remembered may be gone. *)
LEMMA ArchiveLockedInv ==
    ASSUME IInv, NEW db \in DBs, ArchiveLocked(db)
    PROVE  IInv'
<1> DEFINE gone == Evicted(db)
<1>1. TypeOK
    BY DEF IInv
<1>2. gone \subseteq open /\ gone \subseteq DBs /\ Cardinality(open \ gone) <= MaxNbDBsOpen
    BY <1>1, EvictionMakesRoom DEF TypeOK
<1>3. /\ open' = open \ gone
      /\ buffered' = Without(buffered, gone, {})
      /\ entries' = Without(entries, gone, NoEntries)
      /\ last' = Without(last, gone, 0)
      /\ indexKey' = Without(indexKey, gone, None)
      /\ leaked' = leaked \cup UNION {buffered[d] : d \in gone}
      /\ dirty' = Without(dirty, gone, {})
      /\ WriteRecords(Dirty(gone))
      /\ UNCHANGED <<durable, current, prev, fdbDirty, locked, now, status, count,
                     unacked, acked, lost, unrecorded>>
      /\ status = "running"
    BY DEF ArchiveLocked, EvictDisk, history
<1>4. /\ published' \in [DBs -> [IndexKeys -> SUBSET Fields]]
      /\ \A d \in DBs, k \in IndexKeys :
            published'[d][k] = IF d \in gone /\ k \in dirty[d] THEN published[d][k] \cup entries[d][k]
                                                             ELSE published[d][k]
  <2> HIDE DEF gone
  <2>1. WriteRecords(Dirty(gone))
    BY <1>3
  <2> QED
    BY <1>1, <2>1, DirtyRecorded
<1> HIDE DEF gone
<1>5. \A d \in DBs :
         /\ buffered'[d] = IF d \in gone THEN {} ELSE buffered[d]
         /\ indexKey'[d] = IF d \in gone THEN None ELSE indexKey[d]
         /\ entries'[d] = IF d \in gone THEN NoEntries ELSE entries[d]
         /\ dirty'[d] = IF d \in gone THEN {} ELSE dirty[d]
    BY <1>3 DEF Without
<1>6. TypeOK'
  <2>1. last' \in [DBs -> Nat] /\ indexKey' \in [DBs -> IndexKeys \cup {None}]
    BY <1>1, <1>3 DEF TypeOK, Without
  <2>2. buffered' \in [DBs -> SUBSET Fields]
    BY <1>1, <1>3 DEF TypeOK, Without
  <2>3. entries' \in [DBs -> [IndexKeys -> SUBSET Fields]]
    BY <1>1, <1>3 DEF TypeOK, Without, NoEntries
  <2>4. dirty' \in [DBs -> SUBSET IndexKeys]
    BY <1>1, <1>3 DEF TypeOK, Without
  <2>5. leaked' \subseteq Fields
    BY <1>1, <1>2, <1>3 DEF TypeOK
  <2> QED
    BY <1>1, <1>2, <1>3, <1>4, <2>1, <2>2, <2>3, <2>4, <2>5 DEF TypeOK
<1>7. Remembered'
    BY <1>1, <1>3, <1>5 DEF IInv, Remembered, TypeOK
<1>8. ClosedIsEmpty'
    BY <1>3, <1>5 DEF IInv, ClosedIsEmpty
<1>9. \A d \in DBs, k \in IndexKeys :
         entries'[d][k] \cup published'[d][k] \subseteq entries[d][k] \cup published[d][k]
    BY <1>4, <1>5 DEF NoEntries
<1>10. Numbered' /\ FiledUnderItsKeys'
    BY <1>3, <1>5, <1>9 DEF IInv, Numbered, FiledUnderItsKeys
<1>11. UnackedIsHeld'
  <2> SUFFICES ASSUME NEW g \in unacked \ lost PROVE HasData(g)' /\ HasEntry(g)'
    BY <1>3 DEF UnackedIsHeld
  <2>1. g.db \in DBs /\ g.ik \in IndexKeys
    BY <1>1 DEF TypeOK, Fields
  <2>2. HasData(g) /\ HasEntry(g)
    BY DEF IInv, UnackedIsHeld
  <2>3. HasData(g)'
    BY <1>3, <1>5, <2>1, <2>2 DEF HasData
  <2>4. g \in entries[g.db][g.ik] => g.ik \in dirty[g.db] \/ g \in unrecorded
    BY <2>1 DEF IInv, CleanIsUnrecorded
  <2>5. HasEntry(g)'
    BY <1>3, <1>4, <1>5, <2>1, <2>2, <2>4 DEF HasEntry
  <2> QED
    BY <2>3, <2>5
<1>12. AckedIsOut'
  <2> SUFFICES ASSUME NEW g \in acked \ lost
               PROVE  g \in durable' \cup leaked' /\ Indexed(g)'
    BY <1>3 DEF AckedIsOut
  <2>1. g.db \in DBs /\ g.ik \in IndexKeys
    BY <1>1 DEF TypeOK, Fields
  <2>2. g \in durable \cup leaked /\ Indexed(g)
    BY DEF IInv, AckedIsOut
  <2>3. published[g.db][g.ik] \subseteq published'[g.db][g.ik]
    <3>1. published'[g.db][g.ik] = IF g.db \in gone /\ g.ik \in dirty[g.db]
                                       THEN published[g.db][g.ik] \cup entries[g.db][g.ik]
                                       ELSE published[g.db][g.ik]
        BY <1>4, <2>1
    <3> QED
        BY <3>1
  <2> QED
    BY <1>3, <2>2, <2>3 DEF Indexed
<1>13. PublishedIsFlushed'
    BY <1>4, <1>5 DEF IInv, PublishedIsFlushed
<1>14. ExitWritesAll'
    BY <1>3 DEF ExitWritesAll
<1>15. CleanIsUnrecorded'
    BY <1>3, <1>5 DEF IInv, CleanIsUnrecorded, NoEntries
<1> QED
    BY <1>6, <1>7, <1>8, <1>10, <1>11, <1>12, <1>13, <1>14, <1>15 DEF IInv

(* The remembered database is gone: the field reaches nothing, and the history says so. *)
LEMMA ArchiveDanglingInv ==
    ASSUME IInv, NEW db \in DBs, NEW ik \in IndexKeys, ArchiveDangling(db, ik)
    PROVE  IInv'
<1> DEFINE f == [db |-> db, ik |-> ik, n |-> count + 1]
<1>1. TypeOK /\ None \notin DBs
    BY ArchiverAssumption DEF IInv, DBs
<1>2. /\ prev' = <<db, ik>> /\ count' = count + 1 /\ count < MaxArchives
      /\ prev[1] = db /\ current \notin open
      /\ UNCHANGED <<open, last, indexKey, buffered, entries, dirty, current, leaked, durable, published,
                     locked, now, acked, unrecorded>>
      /\ \/ /\ status' = "dead"
            /\ UNCHANGED <<unacked, fdbDirty, lost>>
         \/ /\ unacked' = unacked \cup {f}
            /\ lost' = lost \cup {f}
            /\ fdbDirty' = TRUE
            /\ UNCHANGED status
    BY DEF ArchiveDangling, disk, SkipsDatabase
<1>3. count \in 0..MaxArchives /\ MaxArchives \in Nat /\ f \in Fields
  <2>1. count \in 0..MaxArchives /\ MaxArchives \in Nat
    BY <1>1, ArchiverAssumption DEF TypeOK
  <2> QED
    BY <1>2, <2>1 DEF Fields
<1>4. unacked' \ lost' \subseteq unacked \ lost /\ acked' \ lost' \subseteq acked \ lost
    BY <1>2
<1>5. TypeOK'
  <2>1. count' \in 0..MaxArchives
    BY <1>2, <1>3
  <2>2. /\ status' \in {"running", "exited", "dead"} /\ fdbDirty' \in BOOLEAN
        /\ unacked' \subseteq Fields /\ lost' \subseteq Fields
    BY <1>1, <1>2, <1>3 DEF TypeOK
  <2>3. prev' \in (DBs \cup {None}) \X (IndexKeys \cup {None})
    BY <1>2
  <2> QED
    BY <1>1, <1>2, <2>1, <2>2, <2>3 DEF TypeOK
<1>6. Remembered'
    BY <1>1, <1>2 DEF IInv, Remembered
<1>7. ClosedIsEmpty' /\ FiledUnderItsKeys' /\ PublishedIsFlushed' /\ CleanIsUnrecorded'
    BY <1>2 DEF IInv, ClosedIsEmpty, FiledUnderItsKeys, PublishedIsFlushed, CleanIsUnrecorded
<1>8. Numbered'
  <2> SUFFICES ASSUME NEW d \in DBs, NEW k \in IndexKeys, NEW g \in entries[d][k] \cup published[d][k]
               PROVE  g.n <= count + 1
    BY <1>2 DEF Numbered
  <2>1. g.n <= count /\ g.n \in Nat
    BY <1>1, <1>3 DEF IInv, Numbered, TypeOK, Fields
  <2> QED
    BY <1>3, <2>1
<1>9. UnackedIsHeld' /\ AckedIsOut'
    BY <1>2, <1>4 DEF IInv, UnackedIsHeld, AckedIsOut, HasData, HasEntry, Indexed
<1>10. ExitWritesAll'
    BY <1>2 DEF IInv, ExitWritesAll
<1> QED
    BY <1>5, <1>6, <1>7, <1>8, <1>9, <1>10 DEF IInv

----------------------------------------------------------------------------
(***************************************************************************)
(* Flushes.  A flush of the stores in ss that cleans the indexes cleaned   *)
(* and records the indexes recorded keeps the invariant when none is       *)
(* recorded before its store is flushed, and what is cleaned and not       *)
(* recorded is in the history.                                             *)
(***************************************************************************)
LEMMA FlushStep ==
    ASSUME IInv, status = "running",
           NEW ss \in SUBSET DBs, NEW cleaned, NEW recorded,
           FlushStores(ss), FlushIndexes(cleaned, recorded),
           \A d \in DBs : recorded[d] # {} => d \in ss,
           unrecorded \subseteq unrecorded', unrecorded' \subseteq Fields,
           \A d \in DBs, k \in IndexKeys :
              k \in cleaned[d] => k \in recorded[d] \/ entries[d][k] \subseteq unrecorded',
           UNCHANGED <<open, last, indexKey, current, prev, locked, now, status, count, lost>>,
           fdbDirty' \in BOOLEAN,
           \/ UNCHANGED <<unacked, acked>>
           \/ /\ open \subseteq ss /\ \A d \in open : recorded[d] = dirty[d]
              /\ acked' = acked \cup unacked /\ unacked' = {}
    PROVE  IInv'
<1>1. TypeOK
    BY DEF IInv
<1>2. /\ durable' = durable \cup UNION {buffered[d] : d \in ss}
      /\ leaked' = leaked
      /\ \A d \in DBs : buffered'[d] = IF d \in ss THEN {} ELSE buffered[d]
    BY DEF FlushStores
<1>3. /\ WriteRecords(recorded)
      /\ \A d \in DBs : dirty'[d] = dirty[d] \ cleaned[d]
      /\ \A d \in DBs, k \in IndexKeys : entries'[d][k] = IF k \in recorded[d] THEN {} ELSE entries[d][k]
      /\ dirty' = [d \in DBs |-> dirty'[d]]
      /\ entries' = [d \in DBs |-> [k \in IndexKeys |-> entries'[d][k]]]
    BY DEF FlushIndexes
<1>4. /\ published' \in [DBs -> [IndexKeys -> SUBSET Fields]]
      /\ \A d \in DBs, k \in IndexKeys :
            published'[d][k] = IF k \in recorded[d] THEN published[d][k] \cup entries[d][k]
                                                    ELSE published[d][k]
    BY <1>1, <1>3, RecordsWritten
<1>5. \A d \in DBs, k \in IndexKeys :
         entries'[d][k] \cup published'[d][k] \subseteq entries[d][k] \cup published[d][k]
  <2> SUFFICES ASSUME NEW d \in DBs, NEW k \in IndexKeys
               PROVE  entries'[d][k] \cup published'[d][k] \subseteq entries[d][k] \cup published[d][k]
    OBVIOUS
  <2>1. entries'[d][k] = IF k \in recorded[d] THEN {} ELSE entries[d][k]
    BY <1>3
  <2>2. published'[d][k] = IF k \in recorded[d] THEN published[d][k] \cup entries[d][k] ELSE published[d][k]
    BY <1>4
  <2> QED
    BY <2>1, <2>2
<1>6. TypeOK'
  <2>1. buffered' \in [DBs -> SUBSET Fields] /\ durable' \subseteq Fields
    BY <1>1, <1>2 DEF TypeOK, FlushStores
  <2>2. ASSUME NEW d \in DBs, NEW k \in IndexKeys PROVE entries'[d][k] \in SUBSET Fields
    <3>1. entries'[d][k] = IF k \in recorded[d] THEN {} ELSE entries[d][k]
        BY <1>3
    <3>2. entries[d][k] \subseteq Fields
        BY <1>1 DEF TypeOK
    <3> QED
        BY <3>1, <3>2
  <2>3. entries' \in [DBs -> [IndexKeys -> SUBSET Fields]]
    BY <1>3, <2>2
  <2>4. dirty' \in [DBs -> SUBSET IndexKeys]
    BY <1>1, <1>3 DEF TypeOK
  <2>5. unacked' \subseteq Fields /\ acked' \subseteq Fields
    BY <1>1 DEF TypeOK
  <2> QED
    BY <1>1, <1>2, <1>4, <2>1, <2>3, <2>4, <2>5 DEF TypeOK
<1>7. Remembered'
    BY DEF IInv, Remembered
<1>8. ClosedIsEmpty'
  <2> SUFFICES ASSUME NEW d \in DBs, d \notin open
               PROVE  buffered'[d] = {} /\ entries'[d] = NoEntries
    BY DEF ClosedIsEmpty
  <2>1. buffered[d] = {} /\ \A k \in IndexKeys : entries[d][k] = {}
    BY DEF IInv, ClosedIsEmpty, NoEntries
  <2>2. \A k \in IndexKeys : entries'[d][k] = {}
    BY <1>3, <2>1
  <2>3. entries'[d] = [k \in IndexKeys |-> entries'[d][k]]
    BY <1>6 DEF TypeOK
  <2> QED
    BY <1>2, <2>1, <2>2, <2>3 DEF NoEntries
<1>9. Numbered' /\ FiledUnderItsKeys'
  <2>1. Numbered'
    BY <1>5 DEF IInv, Numbered
  <2>2. \A d \in DBs : \A f \in buffered'[d] : f.db = d
    BY <1>2 DEF IInv, FiledUnderItsKeys
  <2>3. \A d \in DBs, ik \in IndexKeys : \A f \in entries'[d][ik] \cup published'[d][ik] :
           f.db = d /\ f.ik = ik
    <3> SUFFICES ASSUME NEW d \in DBs, NEW ik \in IndexKeys,
                        NEW f \in entries'[d][ik] \cup published'[d][ik]
                 PROVE  f.db = d /\ f.ik = ik
        OBVIOUS
    <3>1. entries'[d][ik] \cup published'[d][ik] \subseteq entries[d][ik] \cup published[d][ik]
        BY <1>5
    <3> QED
        BY <3>1 DEF IInv, FiledUnderItsKeys
  <2> QED
    BY <2>1, <2>2, <2>3 DEF FiledUnderItsKeys
<1>10. ASSUME NEW g \in Fields PROVE (HasData(g) => HasData(g)') /\ (HasEntry(g) => HasEntry(g)')
  <2>1. g.db \in DBs /\ g.ik \in IndexKeys
    BY DEF Fields
  <2>2. HasData(g) => HasData(g)'
    BY <1>2, <2>1 DEF HasData
  <2>3. entries'[g.db][g.ik] = IF g.ik \in recorded[g.db] THEN {} ELSE entries[g.db][g.ik]
    BY <1>3, <2>1
  <2>4. published'[g.db][g.ik] = IF g.ik \in recorded[g.db]
                                  THEN published[g.db][g.ik] \cup entries[g.db][g.ik]
                                  ELSE published[g.db][g.ik]
    BY <1>4, <2>1
  <2>5. HasEntry(g) => HasEntry(g)'
    BY <2>3, <2>4 DEF HasEntry
  <2> QED
    BY <2>2, <2>5
<1>11. UnackedIsHeld'
    BY <1>1, <1>10 DEF IInv, UnackedIsHeld, TypeOK
<1>12. AckedIsOut'
  <2> SUFFICES ASSUME NEW g \in acked' \ lost
               PROVE  g \in durable' \cup leaked' /\ Indexed(g)'
    BY DEF AckedIsOut
  <2>1. g \in Fields /\ g.db \in DBs /\ g.ik \in IndexKeys
    BY <1>6 DEF TypeOK, Fields
  <2>2. CASE g \in acked
    <3>1. g \in durable \cup leaked /\ Indexed(g)
        BY <2>2 DEF IInv, AckedIsOut
    <3>2. published[g.db][g.ik] \subseteq published'[g.db][g.ik]
        <4>1. published'[g.db][g.ik] = IF g.ik \in recorded[g.db]
                                           THEN published[g.db][g.ik] \cup entries[g.db][g.ik]
                                           ELSE published[g.db][g.ik]
            BY <1>4, <2>1
        <4> QED
            BY <4>1
    <3> QED
        BY <1>2, <3>1, <3>2 DEF Indexed
  <2>3. CASE g \in unacked /\ open \subseteq ss /\ \A d \in open : recorded[d] = dirty[d]
    <3>1. HasData(g)' /\ HasEntry(g)'
        BY <1>10, <2>1, <2>3 DEF IInv, UnackedIsHeld
    <3>2. buffered'[g.db] = {}
        BY <1>2, <2>1, <2>3 DEF IInv, ClosedIsEmpty
    <3>3. entries'[g.db][g.ik] \subseteq unrecorded
        BY <1>3, <2>1, <2>3 DEF IInv, ClosedIsEmpty, CleanIsUnrecorded, NoEntries
    <3> QED
        BY <2>1, <3>1, <3>2, <3>3 DEF HasData, HasEntry, Indexed
  <2> QED
    BY <2>2, <2>3
<1>13. CleanIsUnrecorded'
    BY <1>3 DEF IInv, CleanIsUnrecorded
<1>14. PublishedIsFlushed'
    BY <1>2, <1>4 DEF IInv, PublishedIsFlushed
<1>15. ExitWritesAll'
    BY DEF ExitWritesAll
<1> QED
    BY <1>6, <1>7, <1>8, <1>9, <1>11, <1>12, <1>13, <1>14, <1>15 DEF IInv

(* flush() returns: every open database was flushed. *)
LEMMA FlushInv ==
    ASSUME IInv, Flush
    PROVE  IInv'
<1>1. open \in SUBSET DBs /\ unrecorded' = unrecorded /\ unrecorded \subseteq Fields
    BY DEF IInv, TypeOK, Flush
<1>2. fdbDirty' \in BOOLEAN
    BY DEF Flush
<1>3. \A d \in DBs : Dirty(open)[d] # {} => d \in open
    BY DirtyOf
<1>4. \A d \in open : Dirty(open)[d] = dirty[d]
    BY <1>1, DirtyOf
<1>5. FlushStores(open) /\ FlushIndexes(Dirty(open), Dirty(open))
    BY DEF Flush, FlushCatalogues
<1> QED
    BY <1>1, <1>2, <1>3, <1>4, <1>5, FlushStep DEF Flush

(* The store of a database throws: the databases before it were flushed. *)
LEMMA StoreThrowsInv ==
    ASSUME IInv, status = "running", NEW before \in SUBSET DBs, NEW db \in DBs, StoreThrows(before, db),
           UNCHANGED <<open, last, indexKey, current, prev, fdbDirty, locked, now, status, count,
                       unacked, acked, lost>>
    PROVE  IInv'
<1>1. fdbDirty' \in BOOLEAN /\ unrecorded' = unrecorded /\ unrecorded \subseteq Fields
    BY DEF IInv, TypeOK, StoreThrows
<1>2. \A d \in DBs : Dirty(before)[d] # {} => d \in before
    BY DirtyOf
<1>3. FlushStores(before) /\ FlushIndexes(Dirty(before), Dirty(before))
    BY DEF StoreThrows, FlushCatalogues
<1> QED
    BY <1>1, <1>2, <1>3, FlushStep

(* Its catalogue throws: it has cleaned one index more than it has recorded, or none. *)
LEMMA CatalogueThrowsInv ==
    ASSUME IInv, status = "running", NEW before \in SUBSET DBs, NEW db \in DBs,
           CatalogueThrows(before, db),
           UNCHANGED <<open, last, indexKey, current, prev, fdbDirty, locked, now, status, count,
                       unacked, acked, lost>>
    PROVE  IInv'
<1>1. PICK done \in SUBSET dirty[db], failed \in SUBSET dirty[db] :
         /\ FlushIndexes([Dirty(before) EXCEPT ![db] = done \cup failed],
                         [Dirty(before) EXCEPT ![db] = done])
         /\ unrecorded' = unrecorded \cup UNION {entries[db][ik] : ik \in failed}
    BY DEF CatalogueThrows
<1> DEFINE ss == before \cup {db}
           cleaned == [Dirty(before) EXCEPT ![db] = done \cup failed]
           recorded == [Dirty(before) EXCEPT ![db] = done]
<1>2. \A d \in DBs : /\ cleaned[d] = IF d = db THEN done \cup failed ELSE Dirty(before)[d]
                     /\ recorded[d] = IF d = db THEN done ELSE Dirty(before)[d]
    BY DEF Dirty
<1>3. fdbDirty' \in BOOLEAN /\ ss \in SUBSET DBs /\ FlushStores(ss)
    BY DEF IInv, TypeOK, CatalogueThrows
<1>4. \A d \in DBs : recorded[d] # {} => d \in ss
  <2> HIDE DEF recorded, cleaned
  <2> QED
    BY <1>2, DirtyOf
<1>5. failed \subseteq IndexKeys
    BY <1>1 DEF IInv, TypeOK
<1>6. unrecorded \subseteq unrecorded' /\ unrecorded' \subseteq Fields
  <2>1. \A ik \in failed : entries[db][ik] \subseteq Fields
    BY <1>5 DEF IInv, TypeOK
  <2>2. unrecorded \subseteq Fields
    BY DEF IInv, TypeOK
  <2> QED
    BY <1>1, <2>1, <2>2
<1>7. \A d \in DBs, k \in IndexKeys :
         k \in cleaned[d] => k \in recorded[d] \/ entries[d][k] \subseteq unrecorded'
  <2> HIDE DEF recorded, cleaned
  <2>1. \A k \in failed : entries[db][k] \subseteq unrecorded'
    BY <1>1
  <2> QED
    BY <1>2, <2>1
<1>8. FlushIndexes(cleaned, recorded)
    BY <1>1
<1> HIDE DEF ss, cleaned, recorded
<1> QED
    BY <1>3, <1>4, <1>6, <1>7, <1>8, FlushStep

(* flush() throws at a database. *)
LEMMA FlushThrowsInv ==
    ASSUME IInv, NEW db \in DBs, FlushThrows(db)
    PROVE  IInv'
<1> DEFINE before == {d \in open : d < db}
<1>1. before \in SUBSET DBs
    BY DEF IInv, TypeOK
<1>2. /\ status = "running" /\ (StoreThrows(before, db) \/ CatalogueThrows(before, db))
      /\ UNCHANGED <<open, last, indexKey, current, prev, fdbDirty, locked, now, status, count,
                     unacked, acked, lost>>
    BY DEF FlushThrows
<1> HIDE DEF before
<1> QED
    BY <1>1, <1>2, StoreThrowsInv, CatalogueThrowsInv

(* The process exits: the destructors flush, exit() writes out the streams. *)
LEMMA ExitInv ==
    ASSUME IInv, Exit
    PROVE  IInv'
<1>1. TypeOK
    BY DEF IInv
<1>2. /\ published' \in [DBs -> [IndexKeys -> SUBSET Fields]]
      /\ \A d \in DBs, k \in IndexKeys :
            published'[d][k] = IF d \in open /\ k \in dirty[d] THEN published[d][k] \cup entries[d][k]
                                                             ELSE published[d][k]
  <2>1. WriteRecords(Dirty(open))
    BY DEF Exit
  <2> QED
    BY <1>1, <2>1, DirtyRecorded
<1>3. TypeOK'
  <2>1. Cardinality({}) = 0 /\ MaxNbDBsOpen \in Nat
    BY FS_EmptySet, ArchiverAssumption
  <2>3. durable' \subseteq Fields
    BY <1>1 DEF TypeOK, Exit
  <2>4. /\ buffered' \in [DBs -> SUBSET Fields]
        /\ entries' \in [DBs -> [IndexKeys -> SUBSET Fields]] /\ dirty' \in [DBs -> SUBSET IndexKeys]
        /\ last' \in [DBs -> Nat] /\ indexKey' \in [DBs -> IndexKeys \cup {None}]
    BY DEF Exit, NoEntries
  <2>5. open' \subseteq DBs /\ Cardinality(open') <= MaxNbDBsOpen
    BY <2>1, ArchiverAssumption DEF Exit
  <2>6. prev' \in (DBs \cup {None}) \X (IndexKeys \cup {None}) /\ current' \in DBs \cup {None}
    BY DEF Exit
  <2>7. unacked' \subseteq Fields /\ acked' \subseteq Fields /\ leaked' \subseteq Fields
    BY <1>1 DEF TypeOK, Exit
  <2>8. fdbDirty' \in BOOLEAN /\ status' \in {"running", "exited", "dead"}
    BY DEF Exit
  <2> QED
    BY <1>1, <1>2, <2>3, <2>4, <2>5, <2>6, <2>7, <2>8 DEF TypeOK, Exit
<1>4. /\ Remembered' /\ ClosedIsEmpty' /\ PublishedIsFlushed' /\ ExitWritesAll' /\ UnackedIsHeld'
      /\ CleanIsUnrecorded'
    BY DEF Exit, Remembered, ClosedIsEmpty, PublishedIsFlushed, ExitWritesAll, UnackedIsHeld,
           CleanIsUnrecorded, NoEntries
<1>5. Numbered' /\ FiledUnderItsKeys'
  <2>1. \A d \in DBs, k \in IndexKeys :
           entries'[d][k] \cup published'[d][k] \subseteq entries[d][k] \cup published[d][k]
    BY <1>2 DEF Exit, NoEntries
  <2>2. count' = count /\ \A d \in DBs : buffered'[d] = {}
    BY DEF Exit
  <2>3. Numbered'
    BY <2>1, <2>2 DEF IInv, Numbered
  <2>4. FiledUnderItsKeys'
    BY <2>1, <2>2 DEF IInv, FiledUnderItsKeys
  <2> QED
    BY <2>3, <2>4
<1>6. AckedIsOut'
  <2> SUFFICES ASSUME NEW g \in (acked \cup unacked) \ lost
               PROVE  g \in durable' \cup leaked' /\ Indexed(g)'
    BY DEF AckedIsOut, Exit
  <2>1. g \in Fields /\ g.db \in DBs /\ g.ik \in IndexKeys
    BY <1>1 DEF TypeOK, Fields
  <2>2. durable' = durable \cup leaked \cup UNION {buffered[d] : d \in open} /\ unrecorded' = unrecorded
    BY DEF Exit
  <2>3. CASE g \in acked
    <3>1. g \in durable \cup leaked /\ Indexed(g)
        BY <2>3 DEF IInv, AckedIsOut
    <3>2. published[g.db][g.ik] \subseteq published'[g.db][g.ik]
        <4>1. published'[g.db][g.ik] = IF g.db \in open /\ g.ik \in dirty[g.db]
                                           THEN published[g.db][g.ik] \cup entries[g.db][g.ik]
                                           ELSE published[g.db][g.ik]
            BY <1>2, <2>1
        <4> QED
            BY <4>1
    <3> QED
        BY <2>2, <3>1, <3>2 DEF Indexed
  <2>4. CASE g \in unacked
    <3>1. HasData(g) /\ HasEntry(g)
        BY <2>4 DEF IInv, UnackedIsHeld
    <3>2. g.db \notin open => buffered[g.db] = {} /\ entries[g.db] = NoEntries
        BY <2>1 DEF IInv, ClosedIsEmpty
    <3>3. g \in durable'
        BY <2>1, <2>2, <3>1, <3>2 DEF HasData
    <3>4. g \in entries[g.db][g.ik] => (g.db \in open /\ g.ik \in dirty[g.db]) \/ g \in unrecorded
        BY <2>1, <3>2 DEF IInv, CleanIsUnrecorded, NoEntries
    <3>5. Indexed(g)'
        BY <1>2, <2>1, <2>2, <3>1, <3>4 DEF HasEntry, Indexed
    <3> QED
        BY <3>3, <3>5
  <2> QED
    BY <2>3, <2>4
<1> QED
    BY <1>3, <1>4, <1>5, <1>6 DEF IInv

----------------------------------------------------------------------------
(* The invariant holds at the start. *)
LEMMA InitIInv == Init => IInv
<1> SUFFICES ASSUME Init PROVE IInv
    OBVIOUS
<1>1. TypeOK
  <2>1. Cardinality({}) = 0 /\ MaxNbDBsOpen \in Nat /\ MaxArchives \in Nat /\ MaxTime \in Nat
    BY FS_EmptySet, ArchiverAssumption
  <2>2. /\ last \in [DBs -> Nat] /\ indexKey \in [DBs -> IndexKeys \cup {None}]
        /\ buffered \in [DBs -> SUBSET Fields]
        /\ entries \in [DBs -> [IndexKeys -> SUBSET Fields]] /\ dirty \in [DBs -> SUBSET IndexKeys]
        /\ published \in [DBs -> [IndexKeys -> SUBSET Fields]]
    BY DEF Init, NoEntries
  <2>3. prev \in (DBs \cup {None}) \X (IndexKeys \cup {None}) /\ current \in DBs \cup {None}
    BY DEF Init
  <2>4. open \subseteq DBs /\ Cardinality(open) <= MaxNbDBsOpen /\ now \in 0..MaxTime /\ count \in 0..MaxArchives
    BY <2>1, ArchiverAssumption DEF Init
  <2> QED
    BY <2>2, <2>3, <2>4 DEF Init, TypeOK
<1>2. Numbered /\ FiledUnderItsKeys /\ PublishedIsFlushed
    BY DEF Init, Numbered, FiledUnderItsKeys, PublishedIsFlushed, NoEntries
<1>3. Remembered /\ ClosedIsEmpty /\ UnackedIsHeld /\ AckedIsOut /\ CleanIsUnrecorded /\ ExitWritesAll
    BY DEF Init, Remembered, ClosedIsEmpty, UnackedIsHeld, AckedIsOut, CleanIsUnrecorded, ExitWritesAll,
           NoEntries
<1> QED
    BY <1>1, <1>2, <1>3 DEF IInv

(* Locks, the clock and stuttering touch nothing the invariant is about. *)
LEMMA OtherInv ==
    ASSUME IInv, UNCHANGED <<session, disk, status, count, history>>,
           locked' \subseteq DBs, now' \in 0..MaxTime
    PROVE  IInv'
<1>1. TypeOK'
    BY DEF IInv, TypeOK, session, disk, history
<1>2. Remembered' /\ ClosedIsEmpty' /\ Numbered' /\ FiledUnderItsKeys'
    BY DEF IInv, Remembered, ClosedIsEmpty, Numbered, FiledUnderItsKeys, session, disk
<1>3. UnackedIsHeld' /\ AckedIsOut' /\ PublishedIsFlushed' /\ ExitWritesAll' /\ CleanIsUnrecorded'
    BY DEF IInv, UnackedIsHeld, HasData, HasEntry, AckedIsOut, Indexed, PublishedIsFlushed, ExitWritesAll,
           CleanIsUnrecorded, session, disk, history
<1> QED
    BY <1>1, <1>2, <1>3 DEF IInv

(* The invariant is inductive. *)
LEMMA NextIInv == IInv /\ [Next]_vars => IInv'
<1> SUFFICES ASSUME IInv, [Next]_vars PROVE IInv'
    OBVIOUS
<1>0. locked \subseteq DBs /\ now \in 0..MaxTime /\ MaxTime \in Nat
    BY ArchiverAssumption DEF IInv, TypeOK
<1>1. ASSUME NEW db \in DBs, NEW ik \in IndexKeys, NEW outcome \in Outcomes, Archive(db, ik, outcome)
      PROVE  IInv'
    BY <1>1, ArchiveInv
<1>2. ASSUME NEW db \in DBs, NEW ik \in IndexKeys, ArchiveDangling(db, ik)
      PROVE  IInv'
    BY <1>2, ArchiveDanglingInv
<1>3. ASSUME NEW db \in DBs, ArchiveLocked(db) PROVE IInv'
    BY <1>3, ArchiveLockedInv
<1>4. ASSUME NEW db \in DBs, FlushThrows(db) PROVE IInv'
    BY <1>4, FlushThrowsInv
<1>5. ASSUME NEW db \in DBs, Control(db) PROVE IInv'
  <2>1. locked' \subseteq DBs
    BY <1>0, <1>5 DEF Control
  <2> QED
    BY <1>0, <1>5, <2>1, OtherInv DEF Control
<1>6. CASE Flush
    BY <1>6, FlushInv
<1>7. CASE Exit
    BY <1>7, ExitInv
<1>8. CASE Tick
  <2>1. now' \in 0..MaxTime
    BY <1>0, <1>8 DEF Tick
  <2> QED
    BY <1>0, <1>8, <2>1, OtherInv DEF Tick
<1>9. CASE Terminated \/ UNCHANGED vars
  <2>1. UNCHANGED vars
    BY <1>9 DEF Terminated
  <2> QED
    BY <1>0, <2>1, OtherInv DEF vars
<1> QED
    BY <1>1, <1>2, <1>3, <1>4, <1>5, <1>6, <1>7, <1>8, <1>9 DEF Next

(* The archiver is type correct, and IInv holds of every state it reaches. *)
LEMMA Invariance == Spec => []IInv
    BY InitIInv, NextIInv, PTL DEF Spec

(***************************************************************************)
(* Type correctness: among the rest never more than fdbMaxNbDBsOpen        *)
(* databases are open, however archiving evicts and reopens them.          *)
(***************************************************************************)
THEOREM ArchiverTypeCorrect == Spec => []TypeOK
<1>1. IInv => TypeOK
    BY DEF IInv
<1> QED
    BY <1>1, Invariance, PTL

(***************************************************************************)
(* A field is filed under its own keys: the shortcut over prev_ never      *)
(* leaves the database or the index of an earlier field selected.          *)
(***************************************************************************)
THEOREM FiledUnderItsKeysAlways == Spec => []FiledUnderItsKeys
<1>1. IInv => FiledUnderItsKeys
    BY DEF IInv
<1> QED
    BY <1>1, Invariance, PTL

(***************************************************************************)
(* What a returned flush() covers, with evictions, locks, refused fields   *)
(* and flushes that failed halfway: all but the fields of an index that a  *)
(* failed flush marked clean without its record, and a clean index holds   *)
(* nothing else; and no toc leads to buffered data.                        *)
(***************************************************************************)
THEOREM FlushIsExactAlways == Spec => []FlushIsExact
<1>1. IInv => FlushIsExact
    BY DEF IInv, FlushIsExact, AckedIsOut, CleanIsUnrecorded, PublishedIsFlushed
<1> QED
    BY <1>1, Invariance, PTL

(***************************************************************************)
(* After a normal exit every field archived without an error is on disk,   *)
(* and indexed unless a failed flush left its index clean without a        *)
(* record; also those of evicted databases.                                *)
(***************************************************************************)
THEOREM ExitLosesNothingEver == Spec => []ExitLosesNothing
<1>1. IInv => ExitLosesNothing
    BY DEF IInv, ExitLosesNothing, AckedIsOut, ExitWritesAll
<1> QED
    BY <1>1, Invariance, PTL

=============================================================================
