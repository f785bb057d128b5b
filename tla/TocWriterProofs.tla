-------------------------- MODULE TocWriterProofs --------------------------
(***************************************************************************)
(* Theorems about the writers of a toc database, for any number of         *)
(* processes, index keys and fields, with and without sub-tocs, crashes    *)
(* and write errors: types, locks, and the shape of the tocs.              *)
(*                                                                         *)
(* And what flush() promises: a field whose flush has returned is          *)
(* retrieved from then on, as long as no write fails.                      *)
(*                                                                         *)
(*   1. The walk of the tocs is a concatenation, and a retrieve reads the  *)
(*      last of its entries that leads to the field (RetrieveReadsLast).   *)
(*   2. FlushInv says where the records of the tocs stand, how far each    *)
(*      flush is and where each archived field is; it implies that what is *)
(*      acknowledged is retrieved (FlushInvImpliesRetrievable).            *)
(*   3. Every step without a write error preserves FlushInv, one conjunct  *)
(*      after the other (NextValues ... NextAccounted).                    *)
(*                                                                         *)
(* And that the files implement FieldStore, where each field has one       *)
(* process that may archive it and no write fails:                         *)
(*   4. StoreInv says that every section but the one being published has   *)
(*      its record, and that a full index leads to the last field any      *)
(*      section of its process leads to.  A retrieve therefore returns the *)
(*      entry of the published sections that was archived last             *)
(*      (StoreInvExact), the walk of the tocs aside.                       *)
(*   5. Only the record of an index adds a published section, with the     *)
(*      tree of that index: FieldStore's Publish (PublishMaps).  Archive   *)
(*      and Crash are its Archive and Lose; nothing else shows there.      *)
(***************************************************************************)
EXTENDS TocWriter, SequenceTheorems, FiniteSetTheorems, Lemmas, TLAPS

(* Every element of a concatenation is an element of one of its parts, the first one's in place. *)
LEMMA ConcatElements ==
    ASSUME NEW S, NEW s \in Seq(S), NEW t \in Seq(S)
    PROVE  /\ s \o t \in Seq(S)
           /\ Len(s \o t) = Len(s) + Len(t)
           /\ \A i \in 1..Len(s) : (s \o t)[i] = s[i]
           /\ \A i \in 1..Len(s \o t) : i \notin 1..Len(s) =>
                 i - Len(s) \in 1..Len(t) /\ (s \o t)[i] = t[i - Len(s)]
<1>1. Len(s) \in Nat /\ Len(t) \in Nat
    OBVIOUS
<1>2. s \o t \in Seq(S) /\ Len(s \o t) = Len(s) + Len(t)
    OBVIOUS
<1>3. ASSUME NEW i \in 1..Len(s) PROVE (s \o t)[i] = s[i]
    BY <1>1
<1>4. ASSUME NEW i \in 1..Len(s \o t), i \notin 1..Len(s)
      PROVE  i - Len(s) \in 1..Len(t) /\ (s \o t)[i] = t[i - Len(s)]
    BY <1>1, <1>2, <1>4
<1> QED
    BY <1>2, <1>3, <1>4

(* A concatenation extends its first part. *)
LEMMA ConcatExtends ==
    ASSUME NEW S, NEW s \in Seq(S), NEW t \in Seq(S)
    PROVE  /\ s \o t \in Seq(S)
           /\ Len(s) <= Len(s \o t)
           /\ \A i \in 1..Len(s) : (s \o t)[i] = s[i]
<1>1. Len(s) \in Nat /\ Len(t) \in Nat /\ Len(s \o t) = Len(s) + Len(t)
    OBVIOUS
<1>2. Len(s) <= Len(s \o t)
    BY <1>1
<1> QED
    BY <1>2, ConcatElements

(* The records of a compaction: indexes of the set, then the mask. *)
LEMMA CompactionBlockType ==
    ASSUME TypeOK, NEW p \in Procs, IsFiniteSet(toPublish[p])
    PROVE  /\ CompactionBlock(p) \in Seq(TocRecords)
           /\ \A i \in 1..Len(CompactionBlock(p)) :
                 \/ \E x \in toPublish[p] : CompactionBlock(p)[i] = IndexRecord(x, ixOffset[x])
                 \/ CompactionBlock(p)[i] = SubTocMaskRecord(p)
<1> DEFINE n == Cardinality(toPublish[p])
           s == SetToSeq(toPublish[p])
           recs == [i \in 1..n |-> IndexRecord(s[i], ixOffset[s[i]])]
           mask == <<SubTocMaskRecord(p)>>
<1>1. n \in Nat /\ s \in [1..n -> toPublish[p]]
    BY SetToSeqType
<1>2. toPublish[p] \subseteq IndexFiles
    BY DEF TypeOK
<1>3. \A x \in IndexFiles : IndexRecord(x, ixOffset[x]) \in TocRecords
    BY DEF TypeOK, IndexRecord, TocRecords
<1>4. SubTocMaskRecord(p) \in TocRecords
    BY DEF SubTocMaskRecord, ClearRecord, TocRecords
<1>5. recs \in Seq(TocRecords) /\ Len(recs) = n
  <2> HIDE DEF n, s
  <2>1. recs \in [1..n -> TocRecords]
    BY <1>1, <1>2, <1>3
  <2> QED
    BY <1>1, <2>1, IsASeq
<1>6. mask \in Seq(TocRecords) /\ Len(mask) = 1 /\ mask[1] = SubTocMaskRecord(p)
    BY <1>4
<1>7. CompactionBlock(p) = recs \o mask
    BY DEF CompactionBlock
<1> HIDE DEF mask
<1>8. \A i \in 1..n : recs[i] = IndexRecord(s[i], ixOffset[s[i]]) /\ s[i] \in toPublish[p]
    BY <1>1
<1> HIDE DEF recs, n, s
<1>9. /\ recs \o mask \in Seq(TocRecords)
      /\ Len(recs \o mask) = n + 1
      /\ \A i \in 1..n : (recs \o mask)[i] = recs[i]
      /\ \A i \in 1..n + 1 : i \notin 1..n => (recs \o mask)[i] = mask[1]
  <2>1. /\ recs \o mask \in Seq(TocRecords)
        /\ Len(recs \o mask) = Len(recs) + Len(mask)
        /\ \A i \in 1..Len(recs) : (recs \o mask)[i] = recs[i]
        /\ \A i \in 1..Len(recs \o mask) : i \notin 1..Len(recs) =>
              i - Len(recs) \in 1..Len(mask) /\ (recs \o mask)[i] = mask[i - Len(recs)]
    <3>1. recs \in Seq(TocRecords) /\ mask \in Seq(TocRecords)
        BY <1>5, <1>6
    <3> QED
        BY ONLY <3>1, ConcatElements
  <2>2. \A i \in 1..n + 1 : i - n \in 1..1 => i - n = 1
    BY <1>1
  <2> QED
    BY <1>5, <1>6, <2>1, <2>2
<1>10. ASSUME NEW i \in 1..n + 1
       PROVE  \/ \E x \in toPublish[p] : (recs \o mask)[i] = IndexRecord(x, ixOffset[x])
              \/ (recs \o mask)[i] = SubTocMaskRecord(p)
    BY <1>6, <1>8, <1>9
<1> QED
    BY <1>1, <1>7, <1>9, <1>10

(* Overwriting the first element of a sequence, which may be missing, with r. *)
LEMMA OverwriteFirst ==
    ASSUME NEW S, NEW r \in S, NEW s \in Seq(S)
    PROVE  LET t == <<r>> \o Tail(IF s = << >> THEN <<r>> ELSE s) IN
           /\ t \in Seq(S)
           /\ t[1] = r
           /\ \A i \in 2..Len(t) : i \in 1..Len(s) /\ t[i] = s[i]
<1> DEFINE u == Tail(IF s = << >> THEN <<r>> ELSE s)
           one == <<r>>
<1>1. one \in Seq(S) /\ Len(one) = 1 /\ one[1] = r
    OBVIOUS
<1>2. /\ u \in Seq(S)
      /\ \A j \in 1..Len(u) : j + 1 \in 1..Len(s) /\ u[j] = s[j + 1]
  <2>1. CASE s = << >>
    <3>1. u = << >>
        BY <2>1
    <3> QED
        BY <3>1
  <2>2. CASE s # << >>
    <3>1. u = Tail(s)
        BY <2>2
    <3>2. Tail(s) \in Seq(S) /\ Len(Tail(s)) = Len(s) - 1 /\ Len(s) \in Nat
        BY <2>2, HeadTailProperties
    <3>3. \A j \in 1..Len(Tail(s)) : Tail(s)[j] = s[j + 1]
        BY <2>2, HeadTailProperties
    <3> QED
        BY <3>1, <3>2, <3>3
  <2> QED
    BY <2>1, <2>2
<1> HIDE DEF u, one
<1>3. /\ one \o u \in Seq(S)
      /\ Len(one \o u) = Len(one) + Len(u)
      /\ \A i \in 1..Len(one) : (one \o u)[i] = one[i]
      /\ \A i \in 1..Len(one \o u) : i \notin 1..Len(one) =>
            i - Len(one) \in 1..Len(u) /\ (one \o u)[i] = u[i - Len(one)]
  <2>1. one \in Seq(S) /\ u \in Seq(S)
    BY <1>1, <1>2
  <2> QED
    BY ONLY <2>1, ConcatElements
<1>4. (one \o u)[1] = r
    BY <1>1, <1>3
<1>5. ASSUME NEW i \in 2..Len(one \o u)
      PROVE  i \in 1..Len(s) /\ (one \o u)[i] = s[i]
  <2>1. i - 1 \in 1..Len(u) /\ (one \o u)[i] = u[i - 1]
    BY <1>1, <1>3
  <2>2. (i - 1) + 1 = i
    BY <1>3
  <2> QED
    BY <1>2, <2>1, <2>2
<1> QED
    BY <1>3, <1>4, <1>5 DEF u, one

(* The names of files, and the records and trees the writers use, have their types. *)
LEMMA Names ==
    ASSUME NEW p \in Procs
    PROVE  /\ p \in TocFiles /\ Master \in TocFiles
           /\ \A ik \in IndexKeys : /\ Part(p, ik) \in IndexFiles /\ Full(p, ik) \in IndexFiles
                                    /\ Part(p, ik)[1] = p /\ Part(p, ik)[2] = ik
                                    /\ Part(p, ik)[3] = "part"
                                    /\ Full(p, ik)[1] = p /\ Full(p, ik)[2] = ik
                                    /\ Full(p, ik)[3] = "full"
                                    /\ <<p, ik>> \in DataFiles
           /\ SubTocRecord(p) \in TocRecords
BY DEF TocFiles, IndexFiles, DataFiles, Part, Full, SubTocRecord, TocRecords

(* The records written to a toc are toc records, with the tags and paths they are given. *)
LEMMA RecordTypes ==
    /\ InitRecord \in TocRecords
    /\ \A x \in IndexFiles, n \in Nat : IndexRecord(x, n) \in TocRecords
    /\ EmptyTree \in Entries
BY DEF IndexRecord, TocRecords, EmptyTree, Entries

(* Appending to a toc keeps every record of every toc in its place. *)
LEMMA AppendTocProperties ==
    ASSUME tocs \in [TocFiles -> Seq(TocRecords)],
           NEW t \in TocFiles, NEW recs \in Seq(TocRecords), AppendToc(t, recs)
    PROVE  /\ tocs' \in [TocFiles -> Seq(TocRecords)]
           /\ \A u \in TocFiles : \A i \in 1..Len(tocs'[u]) :
                 \/ i \in 1..Len(tocs[u]) /\ tocs'[u][i] = tocs[u][i]
                 \/ \E j \in 1..Len(recs) : tocs'[u][i] = recs[j]
<1>1. /\ tocs[t] \o recs \in Seq(TocRecords)
      /\ Len(tocs[t] \o recs) = Len(tocs[t]) + Len(recs)
      /\ \A i \in 1..Len(tocs[t]) : (tocs[t] \o recs)[i] = tocs[t][i]
      /\ \A i \in 1..Len(tocs[t] \o recs) : i \notin 1..Len(tocs[t]) =>
            i - Len(tocs[t]) \in 1..Len(recs) /\ (tocs[t] \o recs)[i] = recs[i - Len(tocs[t])]
  <2>1. tocs[t] \in Seq(TocRecords) /\ recs \in Seq(TocRecords)
    OBVIOUS
  <2> QED
    BY ONLY <2>1, ConcatElements
<1>2. tocs' = [tocs EXCEPT ![t] = tocs[t] \o recs]
    BY DEF AppendToc
<1>3. tocs' \in [TocFiles -> Seq(TocRecords)]
    BY <1>1, <1>2
<1>4. tocs'[t] = tocs[t] \o recs /\ \A u \in TocFiles : u # t => tocs'[u] = tocs[u]
    BY <1>2
<1>5. ASSUME NEW u \in TocFiles, NEW i \in 1..Len(tocs'[u])
      PROVE  \/ i \in 1..Len(tocs[u]) /\ tocs'[u][i] = tocs[u][i]
             \/ \E j \in 1..Len(recs) : tocs'[u][i] = recs[j]
  <2>1. CASE u # t
    BY <2>1, <1>4
  <2>2. CASE u = t
    BY <2>2, <1>1, <1>4
  <2> QED
    BY <2>1, <2>2
<1> QED
    BY <1>3, <1>5

(* Writing a tree replaces or adds one section of one file, the one at the index's offset. *)
LEMMA WriteTreeProperties ==
    ASSUME TypeOK, NEW x \in IndexFiles, WriteTree(x),
           ixOffset[x] \in 1..Len(sections[x]) + 1
    PROVE  /\ sections' \in [IndexFiles -> Seq(Entries)]
           /\ \A y \in IndexFiles : y # x => sections'[y] = sections[y]
           /\ Len(sections[x]) <= Len(sections'[x])
           /\ ixOffset[x] <= Len(sections'[x])
           /\ \A s \in 1..Len(sections'[x]) :
                 \/ sections'[x][s] = btree[x]
                 \/ s \in 1..Len(sections[x]) /\ sections'[x][s] = sections[x][s]
<1> DEFINE old == sections[x]
           new == IF ixOffset[x] <= Len(old) THEN [old EXCEPT ![ixOffset[x]] = btree[x]]
                                             ELSE Append(old, btree[x])
<1>1. old \in Seq(Entries) /\ btree[x] \in Entries /\ ixOffset[x] \in Nat /\ Len(old) \in Nat
    BY DEF TypeOK
<1>2. sections' = [sections EXCEPT ![x] = new] /\ sections \in [IndexFiles -> Seq(Entries)]
    BY DEF WriteTree, TypeOK
<1>3. /\ new \in Seq(Entries) /\ Len(old) <= Len(new) /\ ixOffset[x] <= Len(new)
      /\ \A s \in 1..Len(new) : \/ new[s] = btree[x]
                                \/ s \in 1..Len(old) /\ new[s] = old[s]
  <2> HIDE DEF old
  <2>1. CASE ixOffset[x] <= Len(old)
    <3>1. new = [old EXCEPT ![ixOffset[x]] = btree[x]]
        BY <2>1
    <3>2. [old EXCEPT ![ixOffset[x]] = btree[x]] \in Seq(Entries)
          /\ Len([old EXCEPT ![ixOffset[x]] = btree[x]]) = Len(old)
        BY <1>1, <2>1, ExceptSeq
    <3>3. \A s \in 1..Len(old) : [old EXCEPT ![ixOffset[x]] = btree[x]][s] =
              IF s = ixOffset[x] THEN btree[x] ELSE old[s]
        BY <1>1, <2>1
    <3> QED
        BY <1>1, <2>1, <3>1, <3>2, <3>3
  <2>2. CASE ~(ixOffset[x] <= Len(old))
    <3>1. new = Append(old, btree[x]) /\ ixOffset[x] = Len(old) + 1
        BY <1>1, <2>2 DEF old
    <3> QED
        BY <1>1, <3>1, AppendProperties
  <2> QED
    BY <2>1, <2>2
<1> HIDE DEF new
<1>4. sections'[x] = new /\ \A y \in IndexFiles : y # x => sections'[y] = sections[y]
    BY <1>2
<1>5. sections' \in [IndexFiles -> Seq(Entries)]
    BY <1>2, <1>3
<1> QED
    BY <1>3, <1>4, <1>5

----------------------------------------------------------------------------
(* The invariant that is inductive. *)
Inv == TypeOK /\ WriteOrder

(* Every step of the system is a step of one action, or changes nothing. *)
LEMMA NextCases ==
    ASSUME [Next]_vars
    PROVE  \/ UNCHANGED vars
           \/ \E p \in Procs : \/ OpenToc(p) \/ CopySchema(p) \/ WriteInit(p)
                                \/ Flush(p) \/ Close(p) \/ StoreFlushed(p)
                                \/ NewSubToc(p) \/ LinkSubToc(p) \/ WriteIndex(p)
                                \/ CatalogueFlushed(p) \/ Compact(p) \/ NothingToCompact(p)
                                \/ WriteFails(p) \/ Crash(p)
           \/ \E p \in Procs, ik \in IndexKeys :
                \/ Spill(p, ik) \/ FlushHandle(p, ik) \/ FlushIndex(p, ik) \/ FlushFull(p, ik)
                \/ \E fk \in FieldKeys : Archive(p, ik, fk)
BY DEF Next, Step, Call, Terminated

(* Every step of the writers preserves the types. *)
LEMMA NextTypeOK == Inv /\ [Next]_vars => TypeOK'
<1> SUFFICES ASSUME Inv, [Next]_vars PROVE TypeOK'
    OBVIOUS
<1> USE ProcAssumption, ArchiveAssumption DEF TypeOK
<1>0. TypeOK
    BY DEF Inv
<1>1. ASSUME NEW p \in Procs, OpenToc(p) PROVE TypeOK'
    BY <1>0, <1>1 DEF OpenToc, Goto, AppendToc, PCs, TocFiles, files, history
<1>2. ASSUME NEW p \in Procs, CopySchema(p) PROVE TypeOK'
    BY <1>0, <1>2 DEF CopySchema, Goto, AppendToc, PCs, TocFiles, files, history
<1>3. ASSUME NEW p \in Procs, WriteInit(p) PROVE TypeOK'
  <2>1. tocs' \in [TocFiles -> Seq(TocRecords)]
    BY <1>0, <1>3, RecordTypes, OverwriteFirst DEF WriteInit, TocFiles
  <2> QED
    BY <1>0, <2>1, <1>3 DEF WriteInit, Goto, PCs, TocFiles, files, history
<1>4. ASSUME NEW p \in Procs, NEW ik \in IndexKeys, NEW fk \in FieldKeys, Archive(p, ik, fk) PROVE TypeOK'
  <2>1. /\ [proc |-> p, ik |-> ik, fk |-> fk, n |-> count + 1] \in Values
        /\ <<p, ik>> \in DataFiles
        /\ count' \in 0..MaxArchives
    BY <1>0, <1>4, Names DEF Archive, Values
  <2>2. buf' \in [DataFiles -> Seq(Values)] /\ unacked' \in [Procs -> SUBSET Values]
    BY <1>0, <1>4, <2>1 DEF Archive
  <2>3. [file |-> <<p, ik>>, pos |-> Len(data[<<p, ik>>]) + Len(buf[<<p, ik>>]) + 1] \in Locations
    BY <1>0, <2>1 DEF Locations
  <2>4. btree' \in [IndexFiles -> Entries]
    BY <1>0, <1>4, <2>3 DEF Archive, PutInto, Entries
  <2>5. ixDirty' \in [IndexFiles -> BOOLEAN]
    BY <1>0, <1>4 DEF Archive
  <2>6. dirty' \in [Procs -> [fdb : BOOLEAN, store : BOOLEAN, catalogue : BOOLEAN]]
    BY <1>0, <1>4 DEF Archive
  <2> QED
    BY <1>0, <2>1, <2>2, <2>3, <2>4, <2>5, <2>6, <1>4 DEF Archive, Goto, PCs, TocFiles, files, history
<1>5. ASSUME NEW p \in Procs, NEW ik \in IndexKeys, Spill(p, ik) PROVE TypeOK'
  <2>1. buf[<<p, ik>>] \in Seq(Values) /\ data[<<p, ik>>] \in Seq(Values) /\ <<p, ik>> \in DataFiles
    BY <1>0, Names
  <2>2. data' \in [DataFiles -> Seq(Values)] /\ buf' \in [DataFiles -> Seq(Values)]
    BY <1>0, <1>5, <2>1, HeadTailProperties, AppendProperties DEF Spill
  <2> QED
    BY <1>0, <2>1, <2>2, <1>5 DEF Spill, Goto, PCs, TocFiles, files, history
<1>6. ASSUME NEW p \in Procs, Flush(p) PROVE TypeOK'
    BY <1>0, <1>6 DEF Flush, Goto, AppendToc, PCs, TocFiles, files, history
<1>7. ASSUME NEW p \in Procs, Close(p) PROVE TypeOK'
    BY <1>0, <1>7 DEF Close, Goto, AppendToc, PCs, TocFiles, files, history
<1>8. ASSUME NEW p \in Procs, NEW ik \in IndexKeys, FlushHandle(p, ik) PROVE TypeOK'
  <2>1. buf[<<p, ik>>] \in Seq(Values) /\ data[<<p, ik>>] \in Seq(Values) /\ <<p, ik>> \in DataFiles
    BY <1>0, Names
  <2>2. data' \in [DataFiles -> Seq(Values)] /\ buf' \in [DataFiles -> Seq(Values)]
    BY <1>0, <1>8, <2>1, ConcatProperties DEF FlushHandle
  <2> QED
    BY <1>0, <2>1, <2>2, <1>8 DEF FlushHandle, Goto, PCs, TocFiles, files, history
<1>9. ASSUME NEW p \in Procs, StoreFlushed(p) PROVE TypeOK'
    BY <1>0, <1>9, ZenonT(60) DEF StoreFlushed, Goto, AppendToc, PCs, TocFiles, files, history
<1>10. ASSUME NEW p \in Procs, NEW ik \in IndexKeys, FlushIndex(p, ik) PROVE TypeOK'
  <2>1. Part(p, ik) \in IndexFiles /\ ixOffset[Part(p, ik)] \in 1..Len(sections[Part(p, ik)]) + 1
    BY Names DEF Inv, WriteOrder, OffsetsWritten
  <2>2. sections' \in [IndexFiles -> Seq(Entries)]
    BY <1>0, <1>10, <2>1, WriteTreeProperties DEF FlushIndex
  <2>3. ixDirty' \in [IndexFiles -> BOOLEAN]
    BY <1>0, <1>10 DEF FlushIndex
  <2> QED
    BY <1>0, <2>1, <2>2, <2>3, <1>10 DEF FlushIndex, Goto, PCs, TocFiles, files, history
<1>11. ASSUME NEW p \in Procs, NewSubToc(p) PROVE TypeOK'
  <2>1. <<InitRecord>> \in Seq(TocRecords) /\ p \in TocFiles
    BY RecordTypes, Names
  <2>2. tocs' \in [TocFiles -> Seq(TocRecords)]
    BY <1>0, <1>11, <2>1, AppendTocProperties DEF NewSubToc
  <2> QED
    BY <1>0, <2>1, <2>2, <1>11 DEF NewSubToc, Goto, PCs, TocFiles, files, history
<1>12. ASSUME NEW p \in Procs, LinkSubToc(p) PROVE TypeOK'
  <2>1. <<SubTocRecord(p)>> \in Seq(TocRecords) /\ Master \in TocFiles
    BY Names
  <2>2. tocs' \in [TocFiles -> Seq(TocRecords)]
    BY <1>0, <1>12, <2>1, AppendTocProperties DEF LinkSubToc
  <2> QED
    BY <1>0, <2>1, <2>2, <1>12 DEF LinkSubToc, Goto, PCs, TocFiles, files, history
<1>13. ASSUME NEW p \in Procs, WriteIndex(p) PROVE TypeOK'
  <2>1. Part(p, current[p]) \in IndexFiles /\ (IF subToc[p] THEN p ELSE Master) \in TocFiles
    BY <1>13, Names DEF WriteIndex, Inv, WriteOrder, OffsetsWritten
  <2>2. <<IndexRecord(Part(p, current[p]), ixOffset[Part(p, current[p])])>> \in Seq(TocRecords)
    BY <1>0, <2>1, RecordTypes
  <2>3. tocs' \in [TocFiles -> Seq(TocRecords)]
    BY <1>0, <1>13, <2>1, <2>2, AppendTocProperties DEF WriteIndex
  <2>4. btree' \in [IndexFiles -> Entries] /\ ixOffset' \in [IndexFiles -> Nat]
    BY <1>0, <1>13, <2>1, RecordTypes DEF WriteIndex
  <2> QED
    BY <1>0, <2>1, <2>2, <2>3, <2>4, <1>13 DEF WriteIndex, Goto, PCs, TocFiles, files, history
<1>14. ASSUME NEW p \in Procs, CatalogueFlushed(p) PROVE TypeOK'
  <2>1. dirty' \in [Procs -> [fdb : BOOLEAN, store : BOOLEAN, catalogue : BOOLEAN]]
    BY <1>0, <1>14, ZenonT(60) DEF CatalogueFlushed
  <2>2. acked' \subseteq Values /\ unacked' \in [Procs -> SUBSET Values]
    BY <1>0, <1>14 DEF CatalogueFlushed
  <2> QED
    BY <1>0, <2>1, <2>2, <1>14 DEF CatalogueFlushed, Goto, PCs, TocFiles, files, history
<1>15. ASSUME NEW p \in Procs, NEW ik \in IndexKeys, FlushFull(p, ik) PROVE TypeOK'
  <2>1. Full(p, ik) \in IndexFiles /\ ixOffset[Full(p, ik)] \in 1..Len(sections[Full(p, ik)]) + 1
    BY Names DEF Inv, WriteOrder, OffsetsWritten
  <2>2. sections' \in [IndexFiles -> Seq(Entries)]
    BY <1>0, <1>15, <2>1, WriteTreeProperties DEF FlushFull
  <2>3. ixDirty' \in [IndexFiles -> BOOLEAN]
    BY <1>0, <1>15 DEF FlushFull
  <2>4. toPublish' \in [Procs -> SUBSET IndexFiles]
    BY <1>0, <1>15, <2>1 DEF FlushFull
  <2> QED
    BY <1>0, <2>1, <2>2, <2>3, <2>4, <1>15 DEF FlushFull, Goto, PCs, TocFiles, files, history
<1>16. ASSUME NEW p \in Procs, Compact(p) PROVE TypeOK'
  <2>1. CompactionBlock(p) \in Seq(TocRecords) /\ Master \in TocFiles
    BY <1>0, Names, CompactionBlockType DEF Inv, WriteOrder, OffsetsWritten
  <2>2. tocs' \in [TocFiles -> Seq(TocRecords)]
    BY <1>0, <1>16, <2>1, AppendTocProperties DEF Compact
  <2> QED
    BY <1>0, <2>1, <2>2, <1>16 DEF Compact, Goto, PCs, TocFiles, files, history
<1>17. ASSUME NEW p \in Procs, NothingToCompact(p) PROVE TypeOK'
    BY <1>0, <1>17 DEF NothingToCompact, Goto, AppendToc, PCs, TocFiles, files, history
<1>18. ASSUME NEW p \in Procs, WriteFails(p) PROVE TypeOK'
    BY <1>0, <1>18 DEF WriteFails, Goto, AppendToc, PCs, TocFiles, files, history
<1>19. ASSUME NEW p \in Procs, Crash(p) PROVE TypeOK'
  <2>1. buf' \in [DataFiles -> Seq(Values)] /\ unacked' \in [Procs -> SUBSET Values]
    BY <1>0, <1>19 DEF Crash
  <2>2. btree' \in [IndexFiles -> Entries]
    BY <1>0, <1>19, RecordTypes DEF Crash
  <2>3. ixDirty' \in [IndexFiles -> BOOLEAN]
    BY <1>0, <1>19 DEF Crash
  <2> QED
    BY <1>0, <2>1, <2>2, <2>3, <1>19 DEF Crash, Goto, PCs, TocFiles, files, history
<1>20. CASE UNCHANGED vars
    BY <1>0, <1>20 DEF vars, files, memory, history
<1> QED
    BY NextCases, <1>1, <1>2, <1>3, <1>4, <1>5, <1>6, <1>7, <1>8, <1>9, <1>10, <1>11, <1>12, <1>13, <1>14, <1>15, <1>16, <1>17, <1>18, <1>19, <1>20

----------------------------------------------------------------------------
(* Which actions write data files and index files. *)
LEMMA WhoWritesFiles ==
    ASSUME [Next]_vars
    PROVE  \/ UNCHANGED <<sections, data>>
           \/ \E p \in Procs, ik \in IndexKeys :
                \/ Spill(p, ik) \/ FlushHandle(p, ik) \/ FlushIndex(p, ik) \/ FlushFull(p, ik)
<1>1. ASSUME NEW p \in Procs,
             \/ OpenToc(p) \/ CopySchema(p) \/ WriteInit(p) \/ Flush(p) \/ Close(p)
             \/ StoreFlushed(p) \/ NewSubToc(p) \/ LinkSubToc(p)
      PROVE  UNCHANGED <<sections, data>>
    BY <1>1 DEF files, OpenToc, CopySchema, WriteInit, Flush, Close, StoreFlushed, NewSubToc, LinkSubToc
<1>2. ASSUME NEW p \in Procs,
             \/ WriteIndex(p) \/ CatalogueFlushed(p) \/ Compact(p) \/ NothingToCompact(p)
             \/ WriteFails(p) \/ Crash(p)
      PROVE  UNCHANGED <<sections, data>>
    BY <1>2 DEF files, WriteIndex, CatalogueFlushed, Compact, NothingToCompact, WriteFails, Crash
<1>3. ASSUME NEW p \in Procs, NEW ik \in IndexKeys, NEW fk \in FieldKeys, Archive(p, ik, fk)
      PROVE  UNCHANGED <<sections, data>>
    BY <1>3 DEF files, Archive
<1>4. CASE UNCHANGED vars
    BY <1>4 DEF vars, files
<1> QED
    BY NextCases, <1>1, <1>2, <1>3, <1>4

(* Which actions write trees in memory, and what they refer to. *)
LEMMA WhoWritesTrees ==
    ASSUME [Next]_vars
    PROVE  \/ UNCHANGED <<btree, data, buf>>
           \/ \E p \in Procs : WriteIndex(p) \/ Crash(p)
           \/ \E p \in Procs, ik \in IndexKeys :
                Spill(p, ik) \/ FlushHandle(p, ik) \/ \E fk \in FieldKeys : Archive(p, ik, fk)
BY NextCases, ZenonT(60) DEF vars, files, memory, history, OpenToc, CopySchema, WriteInit, Flush, Close,
    StoreFlushed, FlushIndex, NewSubToc, LinkSubToc, CatalogueFlushed, FlushFull, Compact,
    NothingToCompact, WriteFails

(* Which actions write tocs and index files. *)
LEMMA WhoWritesTocs ==
    ASSUME [Next]_vars
    PROVE  \/ UNCHANGED <<tocs, sections>>
           \/ \E p \in Procs : \/ WriteInit(p) \/ NewSubToc(p) \/ LinkSubToc(p) \/ WriteIndex(p)
                                \/ Compact(p)
           \/ \E p \in Procs, ik \in IndexKeys : FlushIndex(p, ik) \/ FlushFull(p, ik)
<1>1. ASSUME NEW p \in Procs,
             \/ OpenToc(p) \/ CopySchema(p) \/ Flush(p) \/ Close(p) \/ StoreFlushed(p)
             \/ CatalogueFlushed(p) \/ NothingToCompact(p) \/ WriteFails(p) \/ Crash(p)
      PROVE  UNCHANGED <<tocs, sections>>
    BY <1>1 DEF files, OpenToc, CopySchema, Flush, Close, StoreFlushed, CatalogueFlushed,
        NothingToCompact, WriteFails, Crash
<1>2. ASSUME NEW p \in Procs, NEW ik \in IndexKeys,
             Spill(p, ik) \/ FlushHandle(p, ik) \/ \E fk \in FieldKeys : Archive(p, ik, fk)
      PROVE  UNCHANGED <<tocs, sections>>
    BY <1>2 DEF files, Spill, FlushHandle, Archive
<1>3. CASE UNCHANGED vars
    BY <1>3 DEF vars, files
<1> QED
    BY NextCases, <1>1, <1>2, <1>3

----------------------------------------------------------------------------
(* Moving the first element of t to the end of s does not change their concatenation. *)
LEMMA MoveHead ==
    ASSUME NEW S, NEW s \in Seq(S), NEW t \in Seq(S), t # << >>
    PROVE  Append(s, Head(t)) \o Tail(t) = s \o t
<1>1. /\ Head(t) \in S /\ Tail(t) \in Seq(S) /\ Len(t) \in Nat /\ Len(s) \in Nat
      /\ Len(Tail(t)) = Len(t) - 1 /\ Len(t) >= 1 /\ Head(t) = t[1]
      /\ \A i \in 1..Len(Tail(t)) : Tail(t)[i] = t[i + 1]
    BY HeadTailProperties
<1> DEFINE a == Append(s, Head(t))
<1>2. /\ a \in Seq(S) /\ Len(a) = Len(s) + 1 /\ a[Len(s) + 1] = t[1]
      /\ \A i \in 1..Len(s) : a[i] = s[i]
    BY <1>1, AppendProperties
<1> HIDE DEF a
<1>3. /\ a \o Tail(t) \in Seq(S) /\ Len(a \o Tail(t)) = Len(s) + Len(t)
      /\ s \o t \in Seq(S) /\ Len(s \o t) = Len(s) + Len(t)
    BY <1>1, <1>2
<1>4. ASSUME NEW i \in 1..Len(s) + Len(t)
      PROVE  (a \o Tail(t))[i] = (s \o t)[i]
  <2>1. CASE i \in 1..Len(s)
    BY <1>1, <1>2, <2>1
  <2>2. CASE i = Len(s) + 1
    BY <1>1, <1>2, <2>2
  <2>3. CASE i > Len(s) + 1
    <3>1. (a \o Tail(t))[i] = Tail(t)[i - (Len(s) + 1)] /\ i - (Len(s) + 1) \in 1..Len(Tail(t))
      <4>1. i \in 1..Len(a \o Tail(t)) /\ i \notin 1..Len(a)
            /\ a \in Seq(S) /\ Tail(t) \in Seq(S)
        BY <1>1, <1>2, <1>3, <2>3
      <4>2. i - Len(a) \in 1..Len(Tail(t)) /\ (a \o Tail(t))[i] = Tail(t)[i - Len(a)]
        BY ONLY <4>1, ConcatElements
      <4> QED
        BY <1>2, <4>2
    <3>2. (s \o t)[i] = t[i - Len(s)]
        BY <1>1, <2>3
    <3>3. (i - (Len(s) + 1)) + 1 = i - Len(s)
        BY <1>1
    <3> QED
        BY <1>1, <3>1, <3>2, <3>3
  <2>4. i \in 1..Len(s) \/ i = Len(s) + 1 \/ i > Len(s) + 1
    BY <1>1
  <2> QED
    BY <2>1, <2>2, <2>3, <2>4
<1>5. a \o Tail(t) = s \o t
    BY <1>3, <1>4, SeqEqual
<1> QED
    BY <1>5 DEF a

(* Writing a buffer out, in part or as a whole, only extends the data file and loses nothing. *)
LEMMA DataGrows ==
    ASSUME TypeOK, NEW p \in Procs, NEW ik \in IndexKeys, Spill(p, ik) \/ FlushHandle(p, ik)
    PROVE  /\ \A d \in DataFiles : Len(data[d]) <= Len(data'[d])
           /\ \A d \in DataFiles : \A i \in 1..Len(data[d]) : data'[d][i] = data[d][i]
           /\ \A d \in DataFiles : data'[d] \o buf'[d] = data[d] \o buf[d]
<1> DEFINE e == <<p, ik>>
<1>1. e \in DataFiles /\ data[e] \in Seq(Values) /\ buf[e] \in Seq(Values)
    BY Names DEF TypeOK
<1>2. data \in [DataFiles -> Seq(Values)] /\ buf \in [DataFiles -> Seq(Values)]
    BY DEF TypeOK
<1> HIDE DEF e
<1>3. CASE Spill(p, ik)
  <2>1. /\ data' = [data EXCEPT ![e] = Append(data[e], Head(buf[e]))]
        /\ buf' = [buf EXCEPT ![e] = Tail(buf[e])]
        /\ buf[e] # << >>
    BY <1>3 DEF Spill, e
  <2>2. /\ data'[e] = Append(data[e], Head(buf[e])) /\ buf'[e] = Tail(buf[e])
        /\ \A d \in DataFiles : d # e => data'[d] = data[d] /\ buf'[d] = buf[d]
    BY <1>1, <1>2, <2>1
  <2>3. Head(buf[e]) \in Values
    BY <1>1, <2>1, HeadTailProperties
  <2>4. /\ Len(data[e]) <= Len(data'[e])
        /\ \A i \in 1..Len(data[e]) : data'[e][i] = data[e][i]
    BY <1>1, <2>2, <2>3, AppendProperties
  <2>5. data'[e] \o buf'[e] = data[e] \o buf[e]
    BY <1>1, <2>1, <2>2, MoveHead, ZenonT(60)
  <2>6. \A d \in DataFiles : Len(data[d]) <= Len(data[d])
    BY <1>2
  <2> QED
    BY <2>2, <2>4, <2>5, <2>6
<1>4. CASE FlushHandle(p, ik)
  <2>1. /\ data' = [data EXCEPT ![e] = data[e] \o buf[e]]
        /\ buf' = [buf EXCEPT ![e] = << >>]
    BY <1>4 DEF FlushHandle, e
  <2>2. /\ data'[e] = data[e] \o buf[e] /\ buf'[e] = << >>
        /\ \A d \in DataFiles : d # e => data'[d] = data[d] /\ buf'[d] = buf[d]
    BY <1>1, <1>2, <2>1
  <2>3. /\ data[e] \o buf[e] \in Seq(Values)
        /\ Len(data[e]) <= Len(data[e] \o buf[e])
        /\ \A i \in 1..Len(data[e]) : (data[e] \o buf[e])[i] = data[e][i]
    <3>1. data[e] \in Seq(Values) /\ buf[e] \in Seq(Values)
        BY <1>1
    <3> QED
        BY ONLY <3>1, ConcatExtends
  <2>4. (data[e] \o buf[e]) \o << >> = data[e] \o buf[e]
    BY <2>3, ConcatEmptySeq
  <2>5. \A d \in DataFiles : Len(data[d]) <= Len(data[d])
    BY <1>2
  <2> QED
    BY <2>2, <2>3, <2>4, <2>5
<1> QED
    BY <1>3, <1>4

(* Appending to the second part of a concatenation appends to the whole. *)
LEMMA AppendToConcat ==
    ASSUME NEW S, NEW s \in Seq(S), NEW t \in Seq(S), NEW v \in S
    PROVE  s \o t \in Seq(S) /\ s \o Append(t, v) = Append(s \o t, v)
<1>1. Append(t, v) = t \o <<v>>
    BY AppendIsConcat
<1>2. <<v>> \in Seq(S) /\ s \o t \in Seq(S)
    OBVIOUS
<1>3. s \o (t \o <<v>>) = (s \o t) \o <<v>>
    BY <1>2, ConcatAssociative
<1>4. Append(s \o t, v) = (s \o t) \o <<v>>
    BY <1>2, AppendIsConcat
<1> QED
    BY <1>1, <1>2, <1>3, <1>4

(* Archiving a field puts it at the end of what was archived into its data file. *)
LEMMA ArchiveAppends ==
    ASSUME TypeOK, NEW d \in DataFiles, NEW v \in Values,
           data' = data, buf' = [buf EXCEPT ![d] = Append(buf[d], v)]
    PROVE  \A e \in DataFiles :
              /\ Len(Written(e)) \in Nat /\ Len(Written(e)') \in Nat
              /\ Len(Written(e)) <= Len(Written(e)')
              /\ \A i \in 1..Len(Written(e)) : Written(e)'[i] = Written(e)[i]
              /\ e = d => /\ Len(data[e]) + Len(buf[e]) + 1 \in 1..Len(Written(e)')
                         /\ Written(e)'[Len(data[e]) + Len(buf[e]) + 1] = v
<1> SUFFICES ASSUME NEW e \in DataFiles
             PROVE  /\ Len(Written(e)) \in Nat /\ Len(Written(e)') \in Nat
                    /\ Len(Written(e)) <= Len(Written(e)')
                    /\ \A i \in 1..Len(Written(e)) : Written(e)'[i] = Written(e)[i]
                    /\ e = d => /\ Len(data[e]) + Len(buf[e]) + 1 \in 1..Len(Written(e)')
                               /\ Written(e)'[Len(data[e]) + Len(buf[e]) + 1] = v
    OBVIOUS
<1>1. PICK s \in Seq(Values) : s = data[e]
    BY DEF TypeOK
<1>2. PICK t \in Seq(Values) : t = buf[e]
    BY DEF TypeOK
<1>3. PICK w \in Seq(Values) : w = s \o t /\ Len(w) = Len(s) + Len(t)
  <2>1. s \o t \in Seq(Values) /\ Len(s \o t) = Len(s) + Len(t)
    BY ConcatProperties
  <2> QED
    BY <2>1
<1>4. Written(e) = w /\ Len(w) \in Nat
  <2>1. Written(e) = w
    BY <1>1, <1>2, <1>3 DEF Written
  <2>2. Len(w) \in Nat
    OBVIOUS
  <2> QED
    BY <2>1, <2>2
<1>5. Len(data[e]) + Len(buf[e]) = Len(w)
    BY <1>1, <1>2, <1>3
<1>6. CASE e # d
  <2>1. Written(e)' = w
    BY <1>1, <1>2, <1>3, <1>6 DEF TypeOK, Written
  <2>2. Len(w) <= Len(w)
    BY <1>4
  <2> QED
    BY ONLY <1>4, <1>6, <2>1, <2>2
<1>7. CASE e = d
  <2>1. buf'[e] = Append(t, v)
    BY <1>2, <1>7 DEF TypeOK
  <2>2. s \o Append(t, v) = Append(w, v)
    BY <1>3, AppendToConcat
  <2>3. Written(e)' = Append(w, v)
    BY <1>1, <2>1, <2>2 DEF Written
  <2>4. PICK a \in Seq(Values) : a = Append(w, v) /\ Len(a) = Len(w) + 1
    <3>1. Append(w, v) \in Seq(Values) /\ Len(Append(w, v)) = Len(w) + 1
        BY AppendProperties
    <3> QED
        BY <3>1
  <2>5. /\ \A i \in 1..Len(w) : a[i] = w[i]
        /\ a[Len(w) + 1] = v
        /\ Len(a) \in Nat /\ Len(w) <= Len(a) /\ Len(w) + 1 \in 1..Len(a)
    BY <1>4, <2>4, AppendProperties
  <2> QED
    BY ONLY <1>4, <1>5, <2>3, <2>4, <2>5
<1> QED
    BY <1>6, <1>7

(* Past the flush of the store, a tree leads to what is in the data file. *)
LEMMA FlushedTreeDurable ==
    ASSUME Inv, NEW x \in IndexFiles, pc[x[1]] \in PublishingPCs, NEW fk \in FieldKeys,
           btree[x][fk] # NoField
    PROVE  btree[x][fk].file = DataOf(x) /\ Durable(btree[x][fk], x[2], fk)
<1>1. x[1] \in Procs /\ x[2] \in IndexKeys /\ DataOf(x) = <<x[1], x[2]>> /\ DataOf(x) \in DataFiles
    BY DEF IndexFiles, DataFiles, DataOf
<1>2. buf[DataOf(x)] = << >>
    BY <1>1 DEF Inv, WriteOrder, BuffersFlushed
<1>3. data[DataOf(x)] \in Seq(Values)
    BY <1>1 DEF Inv, TypeOK
<1>4. Written(DataOf(x)) = data[DataOf(x)]
    BY <1>2, <1>3, ConcatEmptySeq DEF Written
<1> QED
    BY <1>4 DEF Inv, WriteOrder, TreesWritten, Durable

----------------------------------------------------------------------------
(* What is durable stays durable when data files grow. *)
LEMMA DurableGrows ==
    ASSUME NEW loc, NEW ik, NEW fk, loc.file \in DataFiles, Durable(loc, ik, fk), TypeOK, TypeOK',
           Len(data[loc.file]) <= Len(data'[loc.file]),
           \A i \in 1..Len(data[loc.file]) : data'[loc.file][i] = data[loc.file][i]
    PROVE  Durable(loc, ik, fk)'
BY DEF Durable, TypeOK

(* No step writes a section of an index file that leads past the end of a data file. *)
LEMMA NextSections == Inv /\ [Next]_vars => SectionsDurable'
<1> SUFFICES ASSUME Inv, [Next]_vars PROVE SectionsDurable'
    OBVIOUS
<1>0. TypeOK /\ TypeOK' /\ SectionsDurable
    BY NextTypeOK DEF Inv, WriteOrder
<1>1. CASE UNCHANGED <<sections, data>>
  <2>1. \A loc, ik, fk : Durable(loc, ik, fk)' <=> Durable(loc, ik, fk)
    BY <1>1 DEF Durable
  <2>2. sections' = sections
    BY <1>1
  <2> QED
    BY <1>0, <2>1, <2>2 DEF SectionsDurable
<1>2. ASSUME NEW p \in Procs, NEW ik \in IndexKeys, Spill(p, ik) \/ FlushHandle(p, ik)
      PROVE  SectionsDurable'
  <2>1. sections' = sections
    BY <1>2 DEF Spill, FlushHandle
  <2>2. SUFFICES ASSUME NEW x \in IndexFiles, NEW s \in 1..Len(sections[x]), NEW fk \in FieldKeys,
                        sections[x][s][fk] # NoField
                 PROVE  /\ sections[x][s][fk].file = DataOf(x)
                        /\ Durable(sections[x][s][fk], x[2], fk)'
    BY <2>1, ZenonT(60) DEF SectionsDurable, Durable
  <2>3. sections[x][s][fk].file = DataOf(x) /\ Durable(sections[x][s][fk], x[2], fk)
    BY <1>0, <2>2 DEF SectionsDurable
  <2>4. DataOf(x) \in DataFiles
    BY DEF DataOf, DataFiles, IndexFiles
  <2> QED
    BY <1>0, <1>2, <2>1, <2>3, <2>4, DataGrows, DurableGrows
<1>3. ASSUME NEW p \in Procs, NEW y \in IndexFiles, y[1] = p, pc[p] \in PublishingPCs,
             WriteTree(y), UNCHANGED data
      PROVE  SectionsDurable'
  <2>1. SUFFICES ASSUME NEW x \in IndexFiles, NEW s \in 1..Len(sections'[x]), NEW fk \in FieldKeys,
                        sections'[x][s][fk] # NoField
                 PROVE  /\ sections'[x][s][fk].file = DataOf(x)
                        /\ Durable(sections'[x][s][fk], x[2], fk)
    BY <1>3 DEF SectionsDurable, Durable
  <2>2. \/ x = y /\ sections'[x][s] = btree[y]
        \/ s \in 1..Len(sections[x]) /\ sections'[x][s] = sections[x][s]
    BY <1>0, <1>3, WriteTreeProperties DEF Inv, WriteOrder, OffsetsWritten
  <2>3. CASE x = y /\ sections'[x][s] = btree[y]
    BY <1>3, <2>1, <2>3, FlushedTreeDurable
  <2>4. CASE s \in 1..Len(sections[x]) /\ sections'[x][s] = sections[x][s]
    BY <1>0, <2>1, <2>4 DEF SectionsDurable
  <2> QED
    BY <2>2, <2>3, <2>4
<1>4. ASSUME NEW p \in Procs, NEW ik \in IndexKeys, FlushIndex(p, ik) PROVE SectionsDurable'
  <2>1. Part(p, ik) \in IndexFiles /\ Part(p, ik)[1] = p
    BY Names
  <2>2. pc[p] \in PublishingPCs
    BY <1>4 DEF FlushIndex, PublishingPCs
  <2>3. WriteTree(Part(p, ik))
    BY <1>4 DEF FlushIndex
  <2>4. UNCHANGED data
    BY <1>4 DEF FlushIndex
  <2> QED
    BY <1>3, <2>1, <2>2, <2>3, <2>4
<1>5. ASSUME NEW p \in Procs, NEW ik \in IndexKeys, FlushFull(p, ik) PROVE SectionsDurable'
  <2>1. Full(p, ik) \in IndexFiles /\ Full(p, ik)[1] = p
    BY Names
  <2>2. pc[p] \in PublishingPCs
    BY <1>5 DEF FlushFull, PublishingPCs
  <2>3. WriteTree(Full(p, ik))
    BY <1>5 DEF FlushFull
  <2>4. UNCHANGED data
    BY <1>5 DEF FlushFull
  <2> QED
    BY <1>3, <2>1, <2>2, <2>3, <2>4
<1> QED
    BY WhoWritesFiles, <1>1, <1>2, <1>4, <1>5

(* Every step keeps what an open tree refers to, in the data file or in its buffer. *)
LEMMA NextTrees == Inv /\ [Next]_vars => TreesWritten'
<1> SUFFICES ASSUME Inv, [Next]_vars PROVE TreesWritten'
    OBVIOUS
<1>0. TypeOK /\ TreesWritten
    BY DEF Inv, WriteOrder
<1>1. \A x \in IndexFiles : DataOf(x) \in DataFiles /\ DataOf(x) = <<x[1], x[2]>>
    BY DEF DataOf, DataFiles, IndexFiles
<1>2. CASE UNCHANGED <<btree, data, buf>>
    BY <1>0, <1>2 DEF TreesWritten, Written
<1>3. ASSUME NEW p \in Procs, NEW ik \in IndexKeys, Spill(p, ik) \/ FlushHandle(p, ik)
      PROVE  TreesWritten'
  <2>1. btree' = btree
    BY <1>3 DEF Spill, FlushHandle
  <2>2. \A d \in DataFiles : Written(d)' = Written(d)
    BY <1>0, <1>3, DataGrows DEF Written
  <2> QED
    BY <1>0, <1>1, <2>1, <2>2 DEF TreesWritten
<1>4. ASSUME NEW p \in Procs, WriteIndex(p) PROVE TreesWritten'
  <2>1. data' = data /\ buf' = buf /\ btree' = [btree EXCEPT ![Part(p, current[p])] = EmptyTree]
    BY <1>4 DEF WriteIndex
  <2>2. \A x \in IndexFiles : btree'[x] = btree[x] \/ btree'[x] = EmptyTree
    BY <1>0, <2>1 DEF TypeOK
  <2>3. \A d : Written(d)' = Written(d)
    BY <2>1 DEF Written
  <2>4. \A fk \in FieldKeys : EmptyTree[fk] = NoField
    BY DEF EmptyTree
  <2> QED
    BY <1>0, <2>2, <2>3, <2>4 DEF TreesWritten
<1>5. ASSUME NEW p \in Procs, Crash(p) PROVE TreesWritten'
  <2>1. \A x \in IndexFiles : \/ btree'[x] = EmptyTree
                              \/ btree'[x] = btree[x] /\ buf'[DataOf(x)] = buf[DataOf(x)]
    BY <1>1, <1>5 DEF Crash
  <2>2. \A x \in IndexFiles : \/ btree'[x] = EmptyTree
                              \/ btree'[x] = btree[x] /\ Written(DataOf(x))' = Written(DataOf(x))
    BY <1>5, <2>1 DEF Crash, files, Written
  <2>3. \A fk \in FieldKeys : EmptyTree[fk] = NoField
    BY DEF EmptyTree
  <2> QED
    BY <1>0, <2>2, <2>3 DEF TreesWritten
<1>6. ASSUME NEW p \in Procs, NEW ik \in IndexKeys, NEW fk \in FieldKeys, Archive(p, ik, fk)
      PROVE  TreesWritten'
  <2> DEFINE d == <<p, ik>>
             v == [proc |-> p, ik |-> ik, fk |-> fk, n |-> count + 1]
             loc == [file |-> d, pos |-> Len(data[d]) + Len(buf[d]) + 1]
  <2>1. /\ data' = data /\ buf' = [buf EXCEPT ![d] = Append(buf[d], v)]
        /\ \A x \in IndexFiles : \/ btree'[x] = btree[x]
                                 \/ /\ x \in {Part(p, ik), Full(p, ik)}
                                    /\ btree'[x] = [btree[x] EXCEPT ![fk] = loc]
    BY <1>6 DEF Archive, PutInto, files
  <2>2. d \in DataFiles /\ v \in Values
    <3>1. count + 1 \in 1..MaxArchives
        BY <1>0, <1>6, ArchiveAssumption DEF TypeOK, Archive
    <3> QED
        BY <3>1, Names DEF Values
  <2>3. v.ik = ik /\ v.fk = fk /\ loc.file = d /\ loc.pos = Len(data[d]) + Len(buf[d]) + 1
    OBVIOUS
  <2>4. \A e \in DataFiles :
           /\ Len(Written(e)) \in Nat /\ Len(Written(e)') \in Nat
           /\ Len(Written(e)) <= Len(Written(e)')
           /\ \A i \in 1..Len(Written(e)) : Written(e)'[i] = Written(e)[i]
           /\ e = d => /\ Len(data[e]) + Len(buf[e]) + 1 \in 1..Len(Written(e)')
                      /\ Written(e)'[Len(data[e]) + Len(buf[e]) + 1] = v
    BY <1>0, <2>1, <2>2, ArchiveAppends
  <2>5. SUFFICES ASSUME NEW x \in IndexFiles, NEW g \in FieldKeys, btree'[x][g] # NoField
                 PROVE  /\ btree'[x][g].file = DataOf(x)
                        /\ btree'[x][g].pos \in 1..Len(Written(DataOf(x))')
                        /\ Written(DataOf(x))'[btree'[x][g].pos].ik = x[2]
                        /\ Written(DataOf(x))'[btree'[x][g].pos].fk = g
    BY DEF TreesWritten
  <2>7. CASE btree'[x][g] = btree[x][g]
    <3>1. /\ btree[x][g].file = DataOf(x)
          /\ btree[x][g].pos \in 1..Len(Written(DataOf(x)))
          /\ Written(DataOf(x))[btree[x][g].pos].ik = x[2]
          /\ Written(DataOf(x))[btree[x][g].pos].fk = g
        BY <1>0, <2>5, <2>7 DEF TreesWritten
    <3>2. /\ Len(Written(DataOf(x))) \in Nat /\ Len(Written(DataOf(x))') \in Nat
          /\ Len(Written(DataOf(x))) <= Len(Written(DataOf(x))')
          /\ \A i \in 1..Len(Written(DataOf(x))) : Written(DataOf(x))'[i] = Written(DataOf(x))[i]
        BY <1>1, <2>4
    <3>3. btree'[x][g].pos \in 1..Len(Written(DataOf(x)))
        BY <2>7, <3>1
    <3>4. \A m, n \in Nat : m <= n => 1..m \subseteq 1..n
        OBVIOUS
    <3> QED
        BY <2>7, <3>1, <3>2, <3>3, <3>4
  <2>8. CASE btree'[x][g] = loc /\ g = fk /\ x \in {Part(p, ik), Full(p, ik)}
    <3>1. DataOf(x) = d /\ x[2] = ik
        BY <1>1, <2>8, Names
    <3>2. loc.pos \in 1..Len(Written(DataOf(x))') /\ Written(DataOf(x))'[loc.pos] = v
        BY <1>1, <2>3, <2>4, <3>1
    <3> QED
        BY <2>3, <2>8, <3>1, <3>2
  <2>9. btree[x] \in [FieldKeys -> Locations \cup {NoField}]
    BY <1>0 DEF TypeOK, Entries
  <2> QED
    BY <2>1, <2>7, <2>8, <2>9
<1> QED
    BY WhoWritesTrees, <1>2, <1>3, <1>4, <1>5, <1>6

(* DB::flush: no index or toc is written while data of the process is in a buffer. *)
LEMMA NextBuffers == Inv /\ [Next]_vars => BuffersFlushed'
<1> SUFFICES ASSUME Inv, [Next]_vars PROVE BuffersFlushed'
    OBVIOUS
<1>0. TypeOK /\ BuffersFlushed
    BY DEF Inv, WriteOrder
<1>1. ASSUME NEW p \in Procs, OpenToc(p) PROVE BuffersFlushed'
    BY <1>0, <1>1 DEF BuffersFlushed, OpenToc, TypeOK, Goto, PublishingPCs, DataFiles, files, history
<1>2. ASSUME NEW p \in Procs, CopySchema(p) PROVE BuffersFlushed'
    BY <1>0, <1>2 DEF BuffersFlushed, CopySchema, TypeOK, Goto, PublishingPCs, DataFiles, files, history
<1>3. ASSUME NEW p \in Procs, WriteInit(p) PROVE BuffersFlushed'
    BY <1>0, <1>3 DEF BuffersFlushed, WriteInit, TypeOK, Goto, PublishingPCs, DataFiles, files, history
<1>4. ASSUME NEW p \in Procs, Flush(p) PROVE BuffersFlushed'
    BY <1>0, <1>4 DEF BuffersFlushed, Flush, TypeOK, Goto, PublishingPCs, DataFiles, files, history
<1>5. ASSUME NEW p \in Procs, Close(p) PROVE BuffersFlushed'
    BY <1>0, <1>5 DEF BuffersFlushed, Close, TypeOK, Goto, PublishingPCs, DataFiles, files, history
<1>6. ASSUME NEW p \in Procs, StoreFlushed(p) PROVE BuffersFlushed'
    BY <1>0, <1>6 DEF BuffersFlushed, StoreFlushed, TypeOK, Goto, PublishingPCs, DataFiles, files, history
<1>7. ASSUME NEW p \in Procs, NewSubToc(p) PROVE BuffersFlushed'
    BY <1>0, <1>7 DEF BuffersFlushed, NewSubToc, TypeOK, Goto, PublishingPCs, DataFiles, files, history
<1>8. ASSUME NEW p \in Procs, LinkSubToc(p) PROVE BuffersFlushed'
    BY <1>0, <1>8 DEF BuffersFlushed, LinkSubToc, TypeOK, Goto, PublishingPCs, DataFiles, files, history
<1>9. ASSUME NEW p \in Procs, WriteIndex(p) PROVE BuffersFlushed'
    BY <1>0, <1>9 DEF BuffersFlushed, WriteIndex, TypeOK, Goto, PublishingPCs, DataFiles, files, history
<1>10. ASSUME NEW p \in Procs, CatalogueFlushed(p) PROVE BuffersFlushed'
    BY <1>0, <1>10 DEF BuffersFlushed, CatalogueFlushed, TypeOK, Goto, PublishingPCs, DataFiles, files, history
<1>11. ASSUME NEW p \in Procs, Compact(p) PROVE BuffersFlushed'
    BY <1>0, <1>11 DEF BuffersFlushed, Compact, TypeOK, Goto, PublishingPCs, DataFiles, files, history
<1>12. ASSUME NEW p \in Procs, NothingToCompact(p) PROVE BuffersFlushed'
    BY <1>0, <1>12 DEF BuffersFlushed, NothingToCompact, TypeOK, Goto, PublishingPCs, DataFiles, files, history
<1>13. ASSUME NEW p \in Procs, WriteFails(p) PROVE BuffersFlushed'
    BY <1>0, <1>13 DEF BuffersFlushed, WriteFails, TypeOK, Goto, PublishingPCs, DataFiles, files, history
<1>14. ASSUME NEW p \in Procs, Crash(p) PROVE BuffersFlushed'
    BY <1>0, <1>14 DEF BuffersFlushed, Crash, TypeOK, Goto, PublishingPCs, DataFiles, files, history
<1>15. ASSUME NEW p \in Procs, NEW ik \in IndexKeys, Spill(p, ik) PROVE BuffersFlushed'
    BY <1>0, <1>15 DEF BuffersFlushed, Spill, TypeOK, Goto, PublishingPCs, DataFiles, files, history
<1>16. ASSUME NEW p \in Procs, NEW ik \in IndexKeys, FlushHandle(p, ik) PROVE BuffersFlushed'
    BY <1>0, <1>16 DEF BuffersFlushed, FlushHandle, TypeOK, Goto, PublishingPCs, DataFiles, files, history
<1>17. ASSUME NEW p \in Procs, NEW ik \in IndexKeys, FlushIndex(p, ik) PROVE BuffersFlushed'
    BY <1>0, <1>17 DEF BuffersFlushed, FlushIndex, TypeOK, Goto, PublishingPCs, DataFiles, files, history
<1>18. ASSUME NEW p \in Procs, NEW ik \in IndexKeys, FlushFull(p, ik) PROVE BuffersFlushed'
    BY <1>0, <1>18 DEF BuffersFlushed, FlushFull, TypeOK, Goto, PublishingPCs, DataFiles, files, history
<1>19. ASSUME NEW p \in Procs, NEW ik \in IndexKeys, NEW fk \in FieldKeys, Archive(p, ik, fk) PROVE BuffersFlushed'
    BY <1>0, <1>19 DEF BuffersFlushed, Archive, TypeOK, Goto, PublishingPCs, DataFiles, files, history
<1>20. CASE UNCHANGED vars
    BY <1>0, <1>20 DEF BuffersFlushed, vars, files, memory, history
<1> QED
    BY NextCases, <1>1, <1>2, <1>3, <1>4, <1>5, <1>6, <1>7, <1>8, <1>9, <1>10, <1>11, <1>12, <1>13, <1>14, <1>15, <1>16, <1>17, <1>18, <1>19, <1>20

(* TocIndex::flush and reopen: an index record is written after the section it names. *)
LEMMA NextOffsets == Inv /\ [Next]_vars => OffsetsWritten'
<1> SUFFICES ASSUME Inv, [Next]_vars PROVE OffsetsWritten'
    OBVIOUS
<1>0. TypeOK /\ OffsetsWritten
    BY DEF Inv, WriteOrder
<1>1. ASSUME NEW p \in Procs, OpenToc(p) PROVE OffsetsWritten'
    BY <1>0, <1>1 DEF OffsetsWritten, OpenToc, TypeOK, Goto, files, history
<1>2. ASSUME NEW p \in Procs, CopySchema(p) PROVE OffsetsWritten'
    BY <1>0, <1>2 DEF OffsetsWritten, CopySchema, TypeOK, Goto, files, history
<1>3. ASSUME NEW p \in Procs, WriteInit(p) PROVE OffsetsWritten'
    BY <1>0, <1>3 DEF OffsetsWritten, WriteInit, TypeOK, Goto, files, history
<1>4. ASSUME NEW p \in Procs, Flush(p) PROVE OffsetsWritten'
    BY <1>0, <1>4 DEF OffsetsWritten, Flush, TypeOK, Goto, files, history
<1>5. ASSUME NEW p \in Procs, Close(p) PROVE OffsetsWritten'
    BY <1>0, <1>5 DEF OffsetsWritten, Close, TypeOK, Goto, files, history
<1>6. ASSUME NEW p \in Procs, StoreFlushed(p) PROVE OffsetsWritten'
    BY <1>0, <1>6 DEF OffsetsWritten, StoreFlushed, TypeOK, Goto, files, history
<1>7. ASSUME NEW p \in Procs, NewSubToc(p) PROVE OffsetsWritten'
    BY <1>0, <1>7 DEF OffsetsWritten, NewSubToc, TypeOK, Goto, files, history
<1>8. ASSUME NEW p \in Procs, LinkSubToc(p) PROVE OffsetsWritten'
    BY <1>0, <1>8 DEF OffsetsWritten, LinkSubToc, TypeOK, Goto, files, history
<1>9. ASSUME NEW p \in Procs, WriteIndex(p) PROVE OffsetsWritten'
  <2>1. PICK x \in IndexFiles : x = Part(p, current[p]) /\ x[1] = p /\ x[3] = "part"
    <3>1. current[p] \in IndexKeys
        BY <1>0, <1>9 DEF OffsetsWritten, WriteIndex
    <3>2. Part(p, current[p]) \in IndexFiles /\ Part(p, current[p])[1] = p /\ Part(p, current[p])[3] = "part"
        BY <3>1 DEF Part, IndexFiles
    <3> QED
        BY <3>2
  <2>2. /\ ixOffset' = [ixOffset EXCEPT ![x] = Len(sections[x]) + 1]
        /\ pc' = [pc EXCEPT ![p] = "flushIndexes"] /\ current' = [current EXCEPT ![p] = NoField]
        /\ sections' = sections /\ toPublish' = toPublish
    BY <1>9, <2>1 DEF WriteIndex, Goto
  <2>3. \A y \in IndexFiles : Len(sections[y]) \in Nat /\ ixOffset[y] \in Nat
    BY <1>0 DEF TypeOK
  <2>4. \A y \in IndexFiles : y # x => ixOffset'[y] = ixOffset[y]
    BY <1>0, <2>2 DEF TypeOK
  <2>5. \A y \in IndexFiles : ixOffset'[y] \in 1..Len(sections'[y]) + 1
    BY <1>0, <2>1, <2>2, <2>3 DEF OffsetsWritten, TypeOK
  <2>6. ASSUME NEW q \in Procs, pc'[q] \in {"newSubToc", "linkSubToc", "writeIndex"}
        PROVE  /\ current'[q] \in IndexKeys
               /\ ixOffset'[Part(q, current'[q])] <= Len(sections'[Part(q, current'[q])])
    <3>1. q # p /\ pc'[q] = pc[q] /\ current'[q] = current[q]
        BY <1>0, <2>2, <2>6 DEF TypeOK
    <3>2. current[q] \in IndexKeys /\ ixOffset[Part(q, current[q])] <= Len(sections[Part(q, current[q])])
        BY <1>0, <2>6, <3>1 DEF OffsetsWritten
    <3>3. Part(q, current[q]) \in IndexFiles /\ Part(q, current[q]) # x
      <4>1. Part(q, current[q]) \in IndexFiles /\ Part(q, current[q])[1] = q
        BY <3>2, Names
      <4> QED
        BY <2>1, <3>1, <4>1
    <3> QED
        BY <2>2, <2>4, <3>1, <3>2, <3>3
  <2>7. ASSUME NEW q \in Procs, NEW y \in toPublish[q]
        PROVE  y[3] = "full" /\ ixOffset'[y] <= Len(sections'[y])
    BY <1>0, <2>1, <2>2, <2>4 DEF OffsetsWritten, TypeOK
  <2> QED
    BY <1>0, <2>2, <2>5, <2>6, <2>7 DEF OffsetsWritten
<1>10. ASSUME NEW p \in Procs, CatalogueFlushed(p) PROVE OffsetsWritten'
    BY <1>0, <1>10 DEF OffsetsWritten, CatalogueFlushed, TypeOK, Goto, files, history
<1>11. ASSUME NEW p \in Procs, Compact(p) PROVE OffsetsWritten'
    BY <1>0, <1>11 DEF OffsetsWritten, Compact, TypeOK, Goto, files, history
<1>12. ASSUME NEW p \in Procs, NothingToCompact(p) PROVE OffsetsWritten'
    BY <1>0, <1>12 DEF OffsetsWritten, NothingToCompact, TypeOK, Goto, files, history
<1>13. ASSUME NEW p \in Procs, WriteFails(p) PROVE OffsetsWritten'
    BY <1>0, <1>13 DEF OffsetsWritten, WriteFails, TypeOK, Goto, files, history
<1>14. ASSUME NEW p \in Procs, Crash(p) PROVE OffsetsWritten'
    BY <1>0, <1>14 DEF OffsetsWritten, Crash, TypeOK, Goto, files, history
<1>15. ASSUME NEW p \in Procs, NEW ik \in IndexKeys, Spill(p, ik) PROVE OffsetsWritten'
    BY <1>0, <1>15 DEF OffsetsWritten, Spill, TypeOK, Goto, files, history
<1>16. ASSUME NEW p \in Procs, NEW ik \in IndexKeys, FlushHandle(p, ik) PROVE OffsetsWritten'
    BY <1>0, <1>16 DEF OffsetsWritten, FlushHandle, TypeOK, Goto, files, history
<1>17. ASSUME NEW p \in Procs, NEW ik \in IndexKeys, FlushIndex(p, ik) PROVE OffsetsWritten'
  <2>1. PICK x \in IndexFiles : x = Part(p, ik) /\ x[3] = "part"
    <3>1. Part(p, ik) \in IndexFiles /\ Part(p, ik)[3] = "part"
        BY DEF Part, IndexFiles
    <3> QED
        BY <3>1
  <2>2. toPublish' = toPublish /\ ixOffset' = ixOffset
    BY <1>17 DEF FlushIndex
  <2>3. WriteTree(x)
    BY <1>17, <2>1 DEF FlushIndex
  <2>4. /\ ixOffset[x] <= Len(sections'[x])
        /\ \A y \in IndexFiles : /\ Len(sections[y]) \in Nat /\ Len(sections'[y]) \in Nat
                                 /\ Len(sections[y]) <= Len(sections'[y])
    <3>1. /\ sections' \in [IndexFiles -> Seq(Entries)]
          /\ \A y \in IndexFiles : y # x => sections'[y] = sections[y]
          /\ Len(sections[x]) <= Len(sections'[x])
          /\ ixOffset[x] <= Len(sections'[x])
        BY <1>0, <2>3, WriteTreeProperties DEF OffsetsWritten
    <3>2. \A y \in IndexFiles : Len(sections[y]) \in Nat /\ Len(sections'[y]) \in Nat
        BY <1>0, <3>1 DEF TypeOK
    <3> QED
        BY <3>1, <3>2
  <2>5. \A y \in IndexFiles : ixOffset[y] \in Nat /\ ixOffset[y] \in 1..Len(sections[y]) + 1
    BY <1>0 DEF OffsetsWritten, TypeOK
  <2>6. \A y \in IndexFiles : ixOffset[y] \in 1..Len(sections'[y]) + 1
    BY <2>4, <2>5
  <2>7. \A y \in IndexFiles : ixOffset[y] <= Len(sections[y]) => ixOffset[y] <= Len(sections'[y])
    BY <2>4, <2>5
  <2>8. ASSUME NEW q \in Procs, pc'[q] \in {"newSubToc", "linkSubToc", "writeIndex"}
        PROVE  /\ current'[q] \in IndexKeys
               /\ ixOffset[Part(q, current'[q])] <= Len(sections'[Part(q, current'[q])])
    <3>1. CASE q = p
      <4>1. current'[q] = ik
        BY <1>0, <1>17, <3>1 DEF FlushIndex, TypeOK
      <4> QED
        BY <2>1, <2>4, <3>1, <4>1
    <3>2. CASE q # p
      <4>1. current'[q] = current[q] /\ pc'[q] = pc[q]
        BY <1>0, <1>17, <3>2 DEF FlushIndex, Goto, TypeOK
      <4>2. current[q] \in IndexKeys /\ ixOffset[Part(q, current[q])] <= Len(sections[Part(q, current[q])])
        BY <1>0, <2>8, <4>1 DEF OffsetsWritten
      <4>3. Part(q, current[q]) \in IndexFiles
        BY <4>2, Names
      <4> QED
        BY <2>7, <4>1, <4>2, <4>3
    <3> QED
        BY <3>1, <3>2
  <2>9. \A q \in Procs : \A y \in toPublish[q] : y[3] = "full" /\ ixOffset[y] <= Len(sections'[y])
    BY <1>0, <2>7 DEF OffsetsWritten, TypeOK
  <2> QED
    BY <1>0, <2>2, <2>6, <2>8, <2>9 DEF OffsetsWritten
<1>18. ASSUME NEW p \in Procs, NEW ik \in IndexKeys, FlushFull(p, ik) PROVE OffsetsWritten'
  <2>1. PICK x \in IndexFiles : x = Full(p, ik) /\ x[3] = "full"
    <3>1. Full(p, ik) \in IndexFiles /\ Full(p, ik)[3] = "full"
        BY DEF Full, IndexFiles
    <3> QED
        BY <3>1
  <2>2. pc' = pc /\ current' = current /\ ixOffset' = ixOffset
    BY <1>18 DEF FlushFull
  <2>3. WriteTree(x)
    BY <1>18, <2>1 DEF FlushFull
  <2>4. /\ ixOffset[x] <= Len(sections'[x])
        /\ \A y \in IndexFiles : /\ Len(sections[y]) \in Nat /\ Len(sections'[y]) \in Nat
                                 /\ Len(sections[y]) <= Len(sections'[y])
    <3>1. /\ sections' \in [IndexFiles -> Seq(Entries)]
          /\ \A y \in IndexFiles : y # x => sections'[y] = sections[y]
          /\ Len(sections[x]) <= Len(sections'[x])
          /\ ixOffset[x] <= Len(sections'[x])
        BY <1>0, <2>3, WriteTreeProperties DEF OffsetsWritten
    <3>2. \A y \in IndexFiles : Len(sections[y]) \in Nat /\ Len(sections'[y]) \in Nat
        BY <1>0, <3>1 DEF TypeOK
    <3> QED
        BY <3>1, <3>2
  <2>5. \A y \in IndexFiles : ixOffset[y] \in Nat /\ ixOffset[y] \in 1..Len(sections[y]) + 1
    BY <1>0 DEF OffsetsWritten, TypeOK
  <2>6. \A y \in IndexFiles : ixOffset[y] \in 1..Len(sections'[y]) + 1
    BY <2>4, <2>5
  <2>7. \A y \in IndexFiles : ixOffset[y] <= Len(sections[y]) => ixOffset[y] <= Len(sections'[y])
    BY <2>4, <2>5
  <2>8. ASSUME NEW q \in Procs, pc[q] \in {"newSubToc", "linkSubToc", "writeIndex"}
        PROVE  /\ current[q] \in IndexKeys
               /\ ixOffset[Part(q, current[q])] <= Len(sections'[Part(q, current[q])])
    <3>1. current[q] \in IndexKeys /\ ixOffset[Part(q, current[q])] <= Len(sections[Part(q, current[q])])
        BY <1>0, <2>8 DEF OffsetsWritten
    <3>2. Part(q, current[q]) \in IndexFiles
        BY <3>1, Names
    <3> QED
        BY <2>7, <3>1, <3>2
  <2>9. \A q \in Procs : toPublish'[q] = toPublish[q] \/ toPublish'[q] = toPublish[q] \cup {x}
    BY <1>0, <1>18, <2>1 DEF FlushFull, TypeOK
  <2>10. \A q \in Procs : IsFiniteSet(toPublish'[q])
    <3>1. \A q \in Procs : IsFiniteSet(toPublish[q])
        BY <1>0 DEF OffsetsWritten
    <3>2. \A q \in Procs : IsFiniteSet(toPublish[q] \cup {x})
        BY <3>1, FS_AddElement
    <3> QED
        BY <2>9, <3>1, <3>2
  <2>11. \A q \in Procs : \A y \in toPublish[q] : y[3] = "full" /\ ixOffset[y] <= Len(sections'[y])
    BY <1>0, <2>7 DEF OffsetsWritten, TypeOK
  <2>12. \A q \in Procs : \A y \in toPublish'[q] : y[3] = "full" /\ ixOffset[y] <= Len(sections'[y])
    BY <2>1, <2>4, <2>9, <2>11
  <2> QED
    BY <1>0, <2>2, <2>6, <2>8, <2>10, <2>12 DEF OffsetsWritten
<1>19. ASSUME NEW p \in Procs, NEW ik \in IndexKeys, NEW fk \in FieldKeys, Archive(p, ik, fk) PROVE OffsetsWritten'
    BY <1>0, <1>19 DEF OffsetsWritten, Archive, TypeOK, Goto, files, history
<1>20. CASE UNCHANGED vars
    BY <1>0, <1>20 DEF OffsetsWritten, vars, files, memory, history
<1> QED
    BY NextCases, <1>1, <1>2, <1>3, <1>4, <1>5, <1>6, <1>7, <1>8, <1>9, <1>10, <1>11, <1>12, <1>13, <1>14, <1>15, <1>16, <1>17, <1>18, <1>19, <1>20

(* Records stay in range when index files grow. *)
LEMMA NextRecords == Inv /\ [Next]_vars => RecordsWritten'
<1> SUFFICES ASSUME Inv, [Next]_vars PROVE RecordsWritten'
    OBVIOUS
<1>0. TypeOK /\ TypeOK' /\ RecordsWritten /\ OffsetsWritten
    BY NextTypeOK DEF Inv, WriteOrder
<1>1. CASE UNCHANGED <<tocs, sections>>
    BY <1>0, <1>1 DEF RecordsWritten
<1>2. ASSUME NEW t \in TocFiles, NEW recs \in Seq(TocRecords), AppendToc(t, recs),
             UNCHANGED sections,
             \A j \in 1..Len(recs) : recs[j].tag = "TOC_INDEX" =>
                 recs[j].offset \in 1..Len(sections[recs[j].path])
      PROVE  RecordsWritten'
  <2>1. \A u \in TocFiles : \A i \in 1..Len(tocs'[u]) :
            \/ i \in 1..Len(tocs[u]) /\ tocs'[u][i] = tocs[u][i]
            \/ \E j \in 1..Len(recs) : tocs'[u][i] = recs[j]
    BY <1>0, <1>2, AppendTocProperties DEF TypeOK
  <2>2. SUFFICES ASSUME NEW u \in TocFiles, NEW i \in 1..Len(tocs'[u]), tocs'[u][i].tag = "TOC_INDEX"
                 PROVE  tocs'[u][i].offset \in 1..Len(sections[tocs'[u][i].path])
    BY <1>2 DEF RecordsWritten
  <2>3. CASE i \in 1..Len(tocs[u]) /\ tocs'[u][i] = tocs[u][i]
    BY <1>0, <2>2, <2>3 DEF RecordsWritten
  <2>4. CASE \E j \in 1..Len(recs) : tocs'[u][i] = recs[j]
    BY <1>2, <2>2, <2>4
  <2> QED
    BY <2>1, <2>3, <2>4
<1>3. ASSUME NEW p \in Procs, WriteInit(p) PROVE RecordsWritten'
  <2>1. PICK old \in Seq(TocRecords) : old = tocs[Master]
    BY <1>0 DEF TypeOK, TocFiles
  <2>2. PICK new : new = <<InitRecord>> \o Tail(IF old = << >> THEN <<InitRecord>> ELSE old)
    OBVIOUS
  <2>3. new[1] = InitRecord /\ \A i \in 2..Len(new) : i \in 1..Len(old) /\ new[i] = old[i]
    BY <2>2, RecordTypes, OverwriteFirst
  <2>4. tocs'[Master] = new /\ (\A t \in TocFiles : t # Master => tocs'[t] = tocs[t])
    BY <1>0, <1>3, <2>1, <2>2 DEF WriteInit, TypeOK, TocFiles
  <2>5. sections' = sections
    BY <1>3 DEF WriteInit
  <2>6. InitRecord.tag # "TOC_INDEX"
    BY DEF InitRecord
  <2>7. new \in Seq(TocRecords)
    BY <2>2, RecordTypes, OverwriteFirst
  <2>8. \A i \in 1..Len(new) : new[i] = InitRecord \/ (i \in 1..Len(old) /\ new[i] = old[i])
    BY <2>3, <2>7
  <2> QED
    BY <1>0, <2>1, <2>4, <2>5, <2>6, <2>8, SMTT(30) DEF RecordsWritten
<1>11. ASSUME NEW t \in TocFiles, NEW r \in TocRecords, AppendToc(t, <<r>>), UNCHANGED sections,
              r.tag = "TOC_INDEX" => r.offset \in 1..Len(sections[r.path])
       PROVE  RecordsWritten'
  <2>1. <<r>> \in Seq(TocRecords) /\ Len(<<r>>) = 1 /\ <<r>>[1] = r
    OBVIOUS
  <2>2. PICK recs \in Seq(TocRecords) : recs = <<r>> /\ Len(recs) = 1 /\ recs[1] = r
    BY <2>1
  <2>3. \A j \in 1..Len(recs) : recs[j] = r
    BY <2>2
  <2>4. AppendToc(t, recs)
    BY <1>11, <2>2
  <2>5. \A j \in 1..Len(recs) : recs[j].tag = "TOC_INDEX" =>
            recs[j].offset \in 1..Len(sections[recs[j].path])
    BY <1>11, <2>3
  <2> QED
    BY <1>2, <1>11, <2>4, <2>5
<1>4. ASSUME NEW p \in Procs, NewSubToc(p) PROVE RecordsWritten'
  <2>1. p \in TocFiles /\ InitRecord \in TocRecords
    BY Names, RecordTypes
  <2>2. AppendToc(p, <<InitRecord>>) /\ UNCHANGED sections
    BY <1>4 DEF NewSubToc
  <2>3. InitRecord.tag # "TOC_INDEX"
    BY DEF InitRecord
  <2> QED
    BY <1>11, <2>1, <2>2, <2>3
<1>5. ASSUME NEW p \in Procs, LinkSubToc(p) PROVE RecordsWritten'
  <2>1. Master \in TocFiles /\ SubTocRecord(p) \in TocRecords
    BY Names
  <2>2. AppendToc(Master, <<SubTocRecord(p)>>) /\ UNCHANGED sections
    BY <1>5 DEF LinkSubToc
  <2>3. SubTocRecord(p).tag # "TOC_INDEX"
    BY DEF SubTocRecord
  <2> QED
    BY <1>11, <2>1, <2>2, <2>3
<1>6. ASSUME NEW p \in Procs, WriteIndex(p) PROVE RecordsWritten'
  <2>1. /\ Part(p, current[p]) \in IndexFiles
        /\ ixOffset[Part(p, current[p])] \in 1..Len(sections[Part(p, current[p])])
    BY <1>0, <1>6, Names DEF OffsetsWritten, WriteIndex, TypeOK
  <2>2. PICK x \in IndexFiles : x = Part(p, current[p]) /\ ixOffset[x] \in 1..Len(sections[x])
    BY <2>1
  <2>3. PICK t \in TocFiles : t = IF subToc[p] THEN p ELSE Master
    BY Names
  <2>4. IndexRecord(x, ixOffset[x]) \in TocRecords
    BY <1>0, RecordTypes DEF TypeOK
  <2>5. AppendToc(t, <<IndexRecord(x, ixOffset[x])>>) /\ UNCHANGED sections
    BY <1>6, <2>2, <2>3 DEF WriteIndex
  <2>6. IndexRecord(x, ixOffset[x]).path = x /\ IndexRecord(x, ixOffset[x]).offset = ixOffset[x]
    BY DEF IndexRecord
  <2> QED
    BY <1>11, <2>2, <2>4, <2>5, <2>6
<1>7. ASSUME NEW p \in Procs, Compact(p) PROVE RecordsWritten'
  <2>1. /\ CompactionBlock(p) \in Seq(TocRecords)
        /\ \A i \in 1..Len(CompactionBlock(p)) :
              \/ \E x \in toPublish[p] : CompactionBlock(p)[i] = IndexRecord(x, ixOffset[x])
              \/ CompactionBlock(p)[i] = SubTocMaskRecord(p)
    <3>1. IsFiniteSet(toPublish[p])
        BY <1>0 DEF OffsetsWritten
    <3> QED
        BY <1>0, <3>1, CompactionBlockType
  <2>2. SubTocMaskRecord(p).tag # "TOC_INDEX"
    BY DEF SubTocMaskRecord, ClearRecord
  <2>3. \A x \in toPublish[p] : /\ IndexRecord(x, ixOffset[x]).path = x
                                /\ IndexRecord(x, ixOffset[x]).offset \in 1..Len(sections[x])
    BY <1>0 DEF IndexRecord, OffsetsWritten, TypeOK
  <2>4. AppendToc(Master, CompactionBlock(p)) /\ UNCHANGED sections /\ Master \in TocFiles
    BY <1>7, Names DEF Compact
  <2>5. \A j \in 1..Len(CompactionBlock(p)) : CompactionBlock(p)[j].tag = "TOC_INDEX" =>
            CompactionBlock(p)[j].offset \in 1..Len(sections[CompactionBlock(p)[j].path])
    BY <2>1, <2>2, <2>3
  <2> QED
    BY <1>2, <2>1, <2>4, <2>5
<1>8. ASSUME NEW y \in IndexFiles, WriteTree(y), UNCHANGED tocs PROVE RecordsWritten'
  <2>1. /\ sections' \in [IndexFiles -> Seq(Entries)]
        /\ \A x \in IndexFiles : x # y => sections'[x] = sections[x]
        /\ Len(sections[y]) <= Len(sections'[y])
    BY <1>0, <1>8, WriteTreeProperties DEF OffsetsWritten
  <2>2. \A x \in IndexFiles : 1..Len(sections[x]) \subseteq 1..Len(sections'[x])
    <3>1. \A x \in IndexFiles : Len(sections[x]) \in Nat /\ Len(sections'[x]) \in Nat
        BY <1>0, <2>1 DEF TypeOK
    <3>2. \A x \in IndexFiles : Len(sections[x]) <= Len(sections'[x])
        BY <2>1, <3>1
    <3>3. \A m, n \in Nat : m <= n => 1..m \subseteq 1..n
        OBVIOUS
    <3> QED
        BY <3>1, <3>2, <3>3
  <2>3. \A t \in TocFiles : \A i \in 1..Len(tocs[t]) :
            tocs[t][i].tag = "TOC_INDEX" => tocs[t][i].path \in IndexFiles
    <3>1. \A r \in TocRecords : r.tag = "TOC_INDEX" => r.path \in IndexFiles
        BY DEF TocRecords, InitRecord
    <3>2. \A t \in TocFiles : \A i \in 1..Len(tocs[t]) : tocs[t][i] \in TocRecords
        BY <1>0 DEF TypeOK
    <3> QED
        BY <3>1, <3>2
  <2> QED
    BY <1>0, <1>8, <2>2, <2>3 DEF RecordsWritten
<1>9. ASSUME NEW p \in Procs, NEW ik \in IndexKeys, FlushIndex(p, ik) PROVE RecordsWritten'
    BY <1>8, <1>9, Names DEF FlushIndex
<1>10. ASSUME NEW p \in Procs, NEW ik \in IndexKeys, FlushFull(p, ik) PROVE RecordsWritten'
    BY <1>8, <1>10, Names DEF FlushFull
<1> QED
    BY WhoWritesTocs, <1>1, <1>3, <1>4, <1>5, <1>6, <1>7, <1>9, <1>10

----------------------------------------------------------------------------
(* The initial state satisfies the invariant. *)
LEMMA InitInv == Init => Inv
<1> SUFFICES ASSUME Init PROVE Inv
    OBVIOUS
<1>1. TypeOK
  <2>1. /\ tocs \in [TocFiles -> Seq(TocRecords)] /\ sections \in [IndexFiles -> Seq(Entries)]
        /\ data \in [DataFiles -> Seq(Values)] /\ buf \in [DataFiles -> Seq(Values)]
    BY DEF Init
  <2>2. btree \in [IndexFiles -> Entries]
    BY RecordTypes DEF Init
  <2>3. dirty \in [Procs -> [fdb : BOOLEAN, store : BOOLEAN, catalogue : BOOLEAN]]
    BY DEF Init
  <2>4. count \in 0..MaxArchives /\ ixOffset \in [IndexFiles -> Nat]
    BY ArchiveAssumption DEF Init
  <2> QED
    BY <2>1, <2>2, <2>3, <2>4 DEF Init, TypeOK, PCs
<1>2. SectionsDurable /\ BuffersFlushed /\ RecordsWritten
    BY DEF Init, SectionsDurable, BuffersFlushed, RecordsWritten, PublishingPCs, DataFiles
<1>3. TreesWritten
    BY DEF Init, TreesWritten, EmptyTree
<1>4. OffsetsWritten
    BY FS_EmptySet DEF Init, OffsetsWritten
<1> QED
    BY <1>1, <1>2, <1>3, <1>4 DEF Inv, WriteOrder

(***************************************************************************)
(* The inductive argument: every behaviour of the writers keeps Inv.       *)
(***************************************************************************)
LEMMA InductiveInvariant == Spec => []Inv
<1>1. Init => Inv
    BY InitInv
<1>2. Inv /\ [Next]_vars => Inv'
    BY NextTypeOK, NextSections, NextTrees, NextBuffers, NextOffsets, NextRecords DEF Inv, WriteOrder
<1> QED
    BY <1>1, <1>2, PTL DEF Spec

(***************************************************************************)
(* Data before index before record, in every file, at every step of every  *)
(* process, through write errors, retries and crashes (DB::flush).         *)
(***************************************************************************)
THEOREM WriteOrderHolds == Spec => []WriteOrder
<1>1. Inv => WriteOrder
    BY DEF Inv
<1> QED
    BY <1>1, InductiveInvariant, PTL

(***************************************************************************)
(* Type correctness, for every number of processes, keys and fields.       *)
(***************************************************************************)
THEOREM TypeCorrect == Spec => []TypeOK
<1>1. Inv => TypeOK
    BY DEF Inv
<1> QED
    BY <1>1, InductiveInvariant, PTL

(***************************************************************************)
(* No toc record of any process ever leads to an index section or to field *)
(* data that is not on disk, whatever the others do and wherever a process *)
(* crashes or a write fails (DB::flush, TocCatalogueWriter::flushIndexes   *)
(* and compactSubTocIndexes).                                              *)
(***************************************************************************)
THEOREM IndexedIsAlwaysDurable == Spec => []IndexedIsDurable
<1>1. Inv => IndexedIsDurable
  <2> SUFFICES ASSUME Inv, NEW t \in TocFiles, NEW i \in 1..Len(tocs[t]), tocs[t][i].tag = "TOC_INDEX"
               PROVE  /\ tocs[t][i].offset \in 1..Len(sections[tocs[t][i].path])
                      /\ \A fk \in FieldKeys :
                            sections[tocs[t][i].path][tocs[t][i].offset][fk] # NoField =>
                                Durable(sections[tocs[t][i].path][tocs[t][i].offset][fk],
                                        tocs[t][i].path[2], fk)
    BY DEF IndexedIsDurable
  <2>1. tocs[t][i].path \in IndexFiles
    <3>1. \A r \in TocRecords : r.tag = "TOC_INDEX" => r.path \in IndexFiles
        BY DEF TocRecords, InitRecord
    <3>2. tocs[t][i] \in TocRecords
        BY DEF Inv, TypeOK
    <3> QED
        BY <3>1, <3>2
  <2>2. tocs[t][i].offset \in 1..Len(sections[tocs[t][i].path])
    BY DEF Inv, WriteOrder, RecordsWritten
  <2> QED
    BY <2>1, <2>2 DEF Inv, WriteOrder, SectionsDurable
<1> QED
    BY <1>1, InductiveInvariant, PTL

----------------------------------------------------------------------------
(***************************************************************************)
(* What makes TocsWellFormed inductive: how far a process has come with    *)
(* the initialisation of the master toc and of its sub-toc says what these *)
(* files hold by then, whatever the other processes do to them.            *)
(***************************************************************************)
InitProgress ==
    \A p \in Procs :
        /\ pc[p] = "init" => schema
        /\ pc[p] # "start" => Master \in exists
        /\ pc[p] \notin {"start", "schema", "init", "crashed"} => tocs[Master] # << >>
SubTocProgress ==
    \A p \in Procs :
        /\ pc[p] = "linkSubToc" => tocs[p] # << >>
        /\ pc[p] = "newSubToc" => ~subToc[p]
        /\ ~subToc[p] => tocs[p] = << >>
TocShape == TocsWellFormed /\ InitProgress /\ SubTocProgress

(* Appending to a toc that has records: no INIT, and links only to sub-tocs that have records. *)
LEMMA AppendKeepsShape ==
    ASSUME TypeOK, TocsWellFormed, NEW t \in TocFiles, NEW recs \in Seq(TocRecords),
           tocs[t] # << >>, AppendToc(t, recs), UNCHANGED <<exists, schema>>,
           \A j \in 1..Len(recs) :
               /\ recs[j] # InitRecord
               /\ recs[j].tag = "TOC_SUB_TOC" => tocs[recs[j].path] # << >>
    PROVE  /\ TocsWellFormed'
           /\ \A u \in TocFiles : tocs[u] = << >> <=> tocs'[u] = << >>
           /\ \A u \in TocFiles : u # t => tocs'[u] = tocs[u]
<1> DEFINE old == tocs[t]
           new == tocs[t] \o recs
<1>1. /\ old \in Seq(TocRecords) /\ Len(old) \in Nat /\ Len(old) # 0
      /\ tocs \in [TocFiles -> Seq(TocRecords)]
    BY EmptySeq DEF TypeOK
<1>2. tocs' = [tocs EXCEPT ![t] = new]
    BY DEF AppendToc
<1>3. tocs'[t] = new /\ \A u \in TocFiles : u # t => tocs'[u] = tocs[u]
    BY <1>1, <1>2
<1>4. /\ new \in Seq(TocRecords)
      /\ Len(new) = Len(old) + Len(recs)
      /\ \A i \in 1..Len(old) : new[i] = old[i]
      /\ \A i \in 1..Len(new) : i \notin 1..Len(old) =>
             i - Len(old) \in 1..Len(recs) /\ new[i] = recs[i - Len(old)]
    BY <1>1, ConcatElements
<1>5. new # << >> /\ new[1] = old[1] /\ Len(new) \in Nat
    BY <1>1, <1>4, EmptySeq
<1> HIDE DEF new
<1>6. \A u \in TocFiles : tocs[u] = << >> <=> tocs'[u] = << >>
    BY <1>3, <1>5
<1>7. \A u \in TocFiles : tocs'[u] # << >> => u \in exists' /\ schema' /\ tocs'[u][1] = InitRecord
    BY <1>3, <1>5, <1>6 DEF TocsWellFormed
<1>8. \A u \in TocFiles : \A i \in 2..Len(tocs'[u]) : tocs'[u][i] # InitRecord
  <2>1. \A i \in 2..Len(new) : new[i] # InitRecord
    BY <1>1, <1>4 DEF TocsWellFormed
  <2> QED
    BY <1>3, <2>1 DEF TocsWellFormed
<1>9. \A i \in 1..Len(tocs'[Master]) :
          tocs'[Master][i].tag = "TOC_SUB_TOC" => tocs[tocs'[Master][i].path] # << >>
  <2>1. CASE t = Master
    <3>1. \A i \in 1..Len(new) : new[i].tag = "TOC_SUB_TOC" => tocs[new[i].path] # << >>
      <4> TAKE i \in 1..Len(new)
      <4>1. CASE i \in 1..Len(old)
        BY <1>4, <2>1, <4>1 DEF TocsWellFormed
      <4>2. CASE i \notin 1..Len(old)
        BY <1>4, <4>2
      <4> QED
        BY <4>1, <4>2
    <3> QED
        BY <1>3, <2>1, <3>1
  <2>2. CASE t # Master
    BY <2>2, <1>3 DEF TocsWellFormed, TocFiles
  <2> QED
    BY <2>1, <2>2
<1>10. \A i \in 1..Len(tocs'[Master]) :
          tocs'[Master][i].tag = "TOC_SUB_TOC" => tocs'[Master][i].path \in TocFiles
  <2>1. \A r \in TocRecords : r.tag = "TOC_SUB_TOC" => r.path \in TocFiles
    BY DEF TocRecords, InitRecord, TocFiles
  <2>2. tocs'[Master] \in Seq(TocRecords)
    BY <1>1, <1>2, <1>4 DEF TocFiles
  <2> QED
    BY <2>1, <2>2
<1>11. \A i \in 1..Len(tocs'[Master]) :
          tocs'[Master][i].tag = "TOC_SUB_TOC" => tocs'[tocs'[Master][i].path] # << >>
    BY <1>6, <1>9, <1>10
<1> QED
    BY <1>3, <1>6, <1>7, <1>8, <1>11 DEF TocsWellFormed

(* The same, for one record. *)
LEMMA AppendOneKeepsShape ==
    ASSUME TypeOK, TocsWellFormed, NEW t \in TocFiles, NEW r \in TocRecords,
           tocs[t] # << >>, AppendToc(t, <<r>>), UNCHANGED <<exists, schema>>,
           r # InitRecord, r.tag = "TOC_SUB_TOC" => tocs[r.path] # << >>
    PROVE  /\ TocsWellFormed'
           /\ \A u \in TocFiles : tocs[u] = << >> <=> tocs'[u] = << >>
           /\ \A u \in TocFiles : u # t => tocs'[u] = tocs[u]
<1>1. PICK recs : recs = <<r>>
    OBVIOUS
<1>2. recs \in Seq(TocRecords) /\ Len(recs) = 1 /\ recs[1] = r /\ AppendToc(t, recs)
    BY <1>1
<1>3. \A j \in 1..Len(recs) :
         /\ recs[j] # InitRecord
         /\ recs[j].tag = "TOC_SUB_TOC" => tocs[recs[j].path] # << >>
    BY <1>2
<1> QED
    BY <1>2, <1>3, AppendKeepsShape

(* The tags of the records the writers append. *)
LEMMA RecordTags ==
    /\ InitRecord.tag = "TOC_INIT"
    /\ \A x, n : IndexRecord(x, n).tag = "TOC_INDEX"
    /\ \A p : SubTocRecord(p).tag = "TOC_SUB_TOC" /\ SubTocRecord(p).path = p
    /\ \A p : SubTocMaskRecord(p).tag = "TOC_CLEAR"
BY DEF InitRecord, IndexRecord, SubTocRecord, SubTocMaskRecord, ClearRecord

(* Every step of the writers keeps the shape of the tocs. *)
LEMMA NextShape == Inv /\ TocShape /\ [Next]_vars => TocShape'
<1> SUFFICES ASSUME Inv, TocShape, [Next]_vars PROVE TocShape'
    OBVIOUS
<1>0. /\ TypeOK /\ TocsWellFormed /\ InitProgress /\ SubTocProgress /\ OffsetsWritten
      /\ pc \in [Procs -> PCs] /\ subToc \in [Procs -> BOOLEAN]
      /\ tocs \in [TocFiles -> Seq(TocRecords)]
      /\ Procs \subseteq TocFiles /\ Master \in TocFiles /\ Master \notin Procs
    BY ProcAssumption DEF Inv, WriteOrder, TocShape, TypeOK, TocFiles
<1>1. CASE UNCHANGED <<exists, schema, tocs, subToc, pc>>
    BY <1>0, <1>1 DEF TocShape, TocsWellFormed, InitProgress, SubTocProgress
<1>2. ASSUME NEW p \in Procs, OpenToc(p) PROVE TocShape'
  <2>1. TocsWellFormed'
    BY <1>0, <1>2 DEF OpenToc, TocsWellFormed
  <2>2. InitProgress'
    BY <1>0, <1>2 DEF OpenToc, InitProgress, Goto
  <2>3. SubTocProgress'
    BY <1>0, <1>2 DEF OpenToc, SubTocProgress, Goto
  <2> QED
    BY <2>1, <2>2, <2>3 DEF TocShape
<1>3. ASSUME NEW p \in Procs, CopySchema(p) PROVE TocShape'
  <2>1. TocsWellFormed'
    BY <1>0, <1>3 DEF CopySchema, TocsWellFormed
  <2>2. InitProgress'
    BY <1>0, <1>3 DEF CopySchema, InitProgress, Goto
  <2>3. SubTocProgress'
    BY <1>0, <1>3 DEF CopySchema, SubTocProgress, Goto
  <2> QED
    BY <2>1, <2>2, <2>3 DEF TocShape
<1>4. ASSUME NEW p \in Procs, WriteInit(p) PROVE TocShape'
  <2>1. PICK old \in Seq(TocRecords) : old = tocs[Master]
    BY <1>0
  <2>2. PICK new : new = <<InitRecord>> \o Tail(IF old = << >> THEN <<InitRecord>> ELSE old)
    OBVIOUS
  <2>3. /\ new \in Seq(TocRecords) /\ new[1] = InitRecord
        /\ \A i \in 2..Len(new) : i \in 1..Len(old) /\ new[i] = old[i]
    BY <2>2, RecordTypes, OverwriteFirst
  <2>4. new # << >>
    <3>1. <<InitRecord>> \in Seq(TocRecords) /\ Len(<<InitRecord>>) = 1
        BY RecordTypes
    <3>2. Tail(IF old = << >> THEN <<InitRecord>> ELSE old) \in Seq(TocRecords)
        BY <3>1, HeadTailProperties
    <3>3. Len(new) = 1 + Len(Tail(IF old = << >> THEN <<InitRecord>> ELSE old))
        BY <2>2, <3>1, <3>2
    <3> QED
        BY <3>2, <3>3
  <2>5. /\ tocs'[Master] = new /\ (\A t \in TocFiles : t # Master => tocs'[t] = tocs[t])
        /\ exists' = exists /\ schema' = schema /\ subToc' = subToc
        /\ schema /\ Master \in exists
    BY <1>0, <1>4, <2>1, <2>2 DEF WriteInit, InitProgress
  <2>6. TocsWellFormed'
    <3>1. \A t \in TocFiles : tocs'[t] # << >> => t \in exists' /\ schema' /\ tocs'[t][1] = InitRecord
        BY <1>0, <2>3, <2>5 DEF TocsWellFormed
    <3>2. \A t \in TocFiles : \A i \in 2..Len(tocs'[t]) : tocs'[t][i] # InitRecord
      <4>1. \A i \in 2..Len(new) : i \in 2..Len(old)
        BY <2>3
      <4> QED
        BY <1>0, <2>1, <2>3, <2>5, <4>1 DEF TocsWellFormed
    <3>3. ASSUME NEW i \in 1..Len(tocs'[Master]), tocs'[Master][i].tag = "TOC_SUB_TOC"
          PROVE  tocs'[tocs'[Master][i].path] # << >>
      <4>1. i # 1
        BY <2>3, <2>5, <3>3, RecordTags
      <4>2. i \in 1..Len(old) /\ tocs'[Master][i] = tocs[Master][i]
        BY <2>1, <2>3, <2>5, <4>1
      <4>3. tocs[Master][i].path \in TocFiles
        <5>1. \A r \in TocRecords : r.tag = "TOC_SUB_TOC" => r.path \in TocFiles
            BY DEF TocRecords, InitRecord, TocFiles
        <5> QED
            BY <2>1, <3>3, <4>2, <5>1
      <4>4. tocs[tocs[Master][i].path] # << >>
        BY <1>0, <2>1, <3>3, <4>2 DEF TocsWellFormed
      <4> QED
        BY <2>4, <2>5, <4>2, <4>3, <4>4
    <3> QED
        BY <3>1, <3>2, <3>3 DEF TocsWellFormed
  <2>7. InitProgress'
    BY <1>0, <1>4, <2>4, <2>5 DEF WriteInit, InitProgress, Goto
  <2>8. SubTocProgress'
    BY <1>0, <1>4, <2>5 DEF WriteInit, SubTocProgress, Goto
  <2> QED
    BY <2>6, <2>7, <2>8 DEF TocShape
<1>5. ASSUME NEW p \in Procs, Flush(p) \/ Close(p) \/ StoreFlushed(p) PROVE TocShape'
  <2>1. /\ exists' = exists /\ schema' = schema /\ tocs' = tocs /\ subToc' = subToc
        /\ pc[p] \in {"idle", "flushData"} /\ pc' \in {[pc EXCEPT ![p] = "flushData"], [pc EXCEPT ![p] = "flushIndexes"]}
    BY <1>5 DEF Flush, Close, StoreFlushed, Goto, files
  <2>2. TocsWellFormed'
    BY <1>0, <2>1 DEF TocsWellFormed
  <2>3. InitProgress'
    BY <1>0, <2>1 DEF InitProgress
  <2>4. SubTocProgress'
    BY <1>0, <2>1 DEF SubTocProgress
  <2> QED
    BY <2>2, <2>3, <2>4 DEF TocShape
<1>6. ASSUME NEW p \in Procs, NEW ik \in IndexKeys, FlushIndex(p, ik) PROVE TocShape'
  <2>1. /\ exists' = exists /\ schema' = schema /\ tocs' = tocs /\ subToc' = subToc
        /\ pc[p] = "flushIndexes"
        /\ pc' = [pc EXCEPT ![p] = IF p \in SubTocProcs /\ ~subToc[p] THEN "newSubToc" ELSE "writeIndex"]
    BY <1>6 DEF FlushIndex, Goto
  <2>2. TocsWellFormed'
    BY <1>0, <2>1 DEF TocsWellFormed
  <2>3. InitProgress'
    BY <1>0, <2>1 DEF InitProgress
  <2>4. SubTocProgress'
    BY <1>0, <2>1 DEF SubTocProgress
  <2> QED
    BY <2>2, <2>3, <2>4 DEF TocShape
<1>7. ASSUME NEW p \in Procs, NewSubToc(p) PROVE TocShape'
  <2>1. tocs[p] = << >> /\ tocs[Master] # << >> /\ Master \in exists
    BY <1>0, <1>7 DEF NewSubToc, SubTocProgress, InitProgress
  <2>2. PICK one : one = <<InitRecord>>
    OBVIOUS
  <2>3. one \in Seq(TocRecords) /\ Len(one) = 1 /\ one[1] = InitRecord /\ << >> \o one = one
    BY <2>2, RecordTypes
  <2>4. /\ tocs'[p] = one /\ (\A t \in TocFiles : t # p => tocs'[t] = tocs[t])
        /\ exists' = exists \cup {p} /\ schema' = schema
    BY <1>0, <1>7, <2>1, <2>2, <2>3 DEF NewSubToc, AppendToc
  <2>5. one # << >>
    BY <2>3
  <2>6. TocsWellFormed'
    <3>1. schema
        BY <1>0, <2>1 DEF TocsWellFormed
    <3>2. \A t \in TocFiles : tocs'[t] # << >> => t \in exists' /\ schema' /\ tocs'[t][1] = InitRecord
        BY <1>0, <2>3, <2>4, <3>1 DEF TocsWellFormed
    <3>3. \A t \in TocFiles : \A i \in 2..Len(tocs'[t]) : tocs'[t][i] # InitRecord
        BY <1>0, <2>3, <2>4 DEF TocsWellFormed
    <3>4. tocs'[Master] = tocs[Master]
        BY <1>0, <2>4
    <3>5. \A i \in 1..Len(tocs'[Master]) :
              tocs'[Master][i].tag = "TOC_SUB_TOC" => tocs'[tocs'[Master][i].path] # << >>
      <4>1. \A r \in TocRecords : r.tag = "TOC_SUB_TOC" => r.path \in TocFiles
        BY DEF TocRecords, InitRecord, TocFiles
      <4>2. \A t \in TocFiles : tocs[t] # << >> => tocs'[t] # << >>
        BY <2>1, <2>4
      <4>3. \A i \in 1..Len(tocs[Master]) : tocs[Master][i] \in TocRecords
        BY <1>0
      <4> QED
        BY <1>0, <3>4, <4>1, <4>2, <4>3 DEF TocsWellFormed
    <3> QED
        BY <3>2, <3>3, <3>5 DEF TocsWellFormed
  <2>7. InitProgress'
    BY <1>0, <1>7, <2>1, <2>4 DEF NewSubToc, InitProgress, Goto
  <2>8. SubTocProgress'
    <3>1. subToc' = [subToc EXCEPT ![p] = TRUE] /\ pc' = [pc EXCEPT ![p] = "linkSubToc"]
        BY <1>7 DEF NewSubToc, Goto
    <3> QED
        BY <1>0, <2>4, <2>5, <3>1 DEF SubTocProgress
  <2> QED
    BY <2>6, <2>7, <2>8 DEF TocShape
<1>8. ASSUME NEW p \in Procs, LinkSubToc(p) PROVE TocShape'
  <2>1. tocs[p] # << >> /\ tocs[Master] # << >>
    BY <1>0, <1>8 DEF LinkSubToc, SubTocProgress, InitProgress
  <2>2. SubTocRecord(p) \in TocRecords /\ SubTocRecord(p) # InitRecord
    BY Names, RecordTags
  <2>3. AppendToc(Master, <<SubTocRecord(p)>>) /\ UNCHANGED <<exists, schema>>
    BY <1>8 DEF LinkSubToc
  <2>4. /\ TocsWellFormed'
        /\ \A u \in TocFiles : tocs[u] = << >> <=> tocs'[u] = << >>
    BY <1>0, <2>1, <2>2, <2>3, AppendOneKeepsShape, RecordTags
  <2>5. pc[p] = "linkSubToc" /\ pc' = [pc EXCEPT ![p] = "writeIndex"] /\ subToc' = subToc
    BY <1>8 DEF LinkSubToc, Goto
  <2>6. InitProgress'
    BY <1>0, <2>3, <2>4, <2>5 DEF InitProgress
  <2>7. SubTocProgress'
    BY <1>0, <2>4, <2>5 DEF SubTocProgress
  <2> QED
    BY <2>4, <2>6, <2>7 DEF TocShape
<1>9. ASSUME NEW p \in Procs, WriteIndex(p) PROVE TocShape'
  <2>1. PICK t \in TocFiles : t = IF subToc[p] THEN p ELSE Master
    BY <1>0
  <2>2. /\ Part(p, current[p]) \in IndexFiles
        /\ ixOffset[Part(p, current[p])] \in Nat
    <3>1. current[p] \in IndexKeys
        BY <1>0, <1>9 DEF OffsetsWritten, WriteIndex
    <3> QED
        BY <1>0, <3>1, Names DEF TypeOK
  <2>3. PICK r \in TocRecords : r = IndexRecord(Part(p, current[p]), ixOffset[Part(p, current[p])])
    BY <2>2, RecordTypes
  <2>4. /\ AppendToc(t, <<r>>) /\ tocs[t] # << >> /\ UNCHANGED <<exists, schema>>
        /\ pc[p] = "writeIndex" /\ pc' = [pc EXCEPT ![p] = "flushIndexes"] /\ subToc' = subToc
    BY <1>9, <2>1, <2>3 DEF WriteIndex, Goto
  <2>5. /\ TocsWellFormed'
        /\ \A u \in TocFiles : tocs[u] = << >> <=> tocs'[u] = << >>
    <3>1. r.tag = "TOC_INDEX" /\ r # InitRecord
        BY <2>3, RecordTags
    <3> QED
        BY <1>0, <2>4, <3>1, AppendOneKeepsShape
  <2>6. InitProgress'
    BY <1>0, <2>4, <2>5 DEF InitProgress
  <2>7. SubTocProgress'
    BY <1>0, <2>4, <2>5 DEF SubTocProgress
  <2> QED
    BY <2>5, <2>6, <2>7 DEF TocShape
<1>10. ASSUME NEW p \in Procs, Compact(p) PROVE TocShape'
  <2>1. PICK recs : recs = CompactionBlock(p)
    OBVIOUS
  <2>2. /\ recs \in Seq(TocRecords)
        /\ \A i \in 1..Len(recs) : \/ \E x \in toPublish[p] : recs[i] = IndexRecord(x, ixOffset[x])
                                   \/ recs[i] = SubTocMaskRecord(p)
    <3>1. IsFiniteSet(toPublish[p])
        BY <1>0 DEF OffsetsWritten
    <3> QED
        BY <1>0, <2>1, <3>1, CompactionBlockType
  <2>3. \A i \in 1..Len(recs) : recs[i] # InitRecord /\ recs[i].tag # "TOC_SUB_TOC"
    BY <2>2, RecordTags
  <2>4. /\ AppendToc(Master, recs) /\ UNCHANGED <<exists, schema>>
        /\ pc[p] = "compact" /\ pc' = [pc EXCEPT ![p] = "closed"] /\ subToc' = subToc
    BY <1>10, <2>1 DEF Compact, Goto
  <2>5. tocs[Master] # << >>
    BY <1>0, <2>4 DEF InitProgress
  <2>6. /\ TocsWellFormed'
        /\ \A u \in TocFiles : tocs[u] = << >> <=> tocs'[u] = << >>
    BY <1>0, <2>2, <2>3, <2>4, <2>5, AppendKeepsShape
  <2>7. InitProgress'
    BY <1>0, <2>4, <2>6 DEF InitProgress
  <2>8. SubTocProgress'
    BY <1>0, <2>4, <2>6 DEF SubTocProgress
  <2> QED
    BY <2>6, <2>7, <2>8 DEF TocShape
<1>11. ASSUME NEW p \in Procs, CatalogueFlushed(p) \/ NothingToCompact(p) \/ Crash(p) PROVE TocShape'
  <2>1. /\ exists' = exists /\ schema' = schema /\ tocs' = tocs /\ subToc' = subToc
        /\ \/ pc[p] = "flushIndexes" /\ (pc' = [pc EXCEPT ![p] = "compact"] \/ pc' = [pc EXCEPT ![p] = "idle"])
           \/ pc[p] = "compact" /\ pc' = [pc EXCEPT ![p] = "closed"]
           \/ pc[p] # "start" /\ pc' = [pc EXCEPT ![p] = "crashed"]
    BY <1>11 DEF CatalogueFlushed, NothingToCompact, Crash, Goto, files
  <2>2. TocsWellFormed'
    BY <1>0, <2>1 DEF TocsWellFormed
  <2>3. InitProgress'
    BY <1>0, <2>1 DEF InitProgress
  <2>4. SubTocProgress'
    BY <1>0, <2>1 DEF SubTocProgress
  <2> QED
    BY <2>2, <2>3, <2>4 DEF TocShape
<1>12. ASSUME NEW p \in Procs, WriteFails(p) PROVE TocShape'
  <2>1. /\ exists \subseteq exists' /\ schema' = schema /\ tocs' = tocs
        /\ \A q \in Procs : subToc[q] => subToc'[q]
        /\ \A q \in Procs : q # p => subToc'[q] = subToc[q]
        /\ pc[p] \in {"flushData", "flushIndexes", "newSubToc", "linkSubToc", "writeIndex"}
        /\ pc' = [pc EXCEPT ![p] = "idle"]
    BY <1>0, <1>12 DEF WriteFails, Goto
  <2>2. TocsWellFormed'
    BY <1>0, <2>1 DEF TocsWellFormed
  <2>3. InitProgress'
    BY <1>0, <2>1 DEF InitProgress
  <2>4. SubTocProgress'
    BY <1>0, <2>1 DEF SubTocProgress
  <2> QED
    BY <2>2, <2>3, <2>4 DEF TocShape
<1>13. ASSUME NEW p \in Procs, NEW ik \in IndexKeys,
              \/ Spill(p, ik) \/ FlushHandle(p, ik) \/ FlushFull(p, ik)
              \/ \E fk \in FieldKeys : Archive(p, ik, fk)
       PROVE  TocShape'
    BY <1>1, <1>13 DEF Spill, FlushHandle, FlushFull, Archive, files
<1>14. CASE UNCHANGED vars
    BY <1>1, <1>14 DEF vars, files, memory
<1> QED
    BY NextCases, <1>2, <1>3, <1>4, <1>5, <1>6, <1>7, <1>8, <1>9, <1>10, <1>11, <1>12, <1>13, <1>14

(***************************************************************************)
(* A reader can follow every link: the master toc and every sub-toc start  *)
(* with the one INIT record, after the schema is in place, and a linked    *)
(* sub-toc has its own, however many processes race to initialise the same *)
(* toc (TocHandler::writeInitRecord and writeSubTocRecord), crash or fail  *)
(* to write.                                                               *)
(***************************************************************************)
THEOREM TocsAlwaysWellFormed == Spec => []TocsWellFormed
<1>1. Init => TocShape
    BY DEF Init, TocShape, TocsWellFormed, InitProgress, SubTocProgress, TocFiles
<1>2. Inv /\ TocShape /\ [Next]_vars => TocShape'
    BY NextShape
<1>3. TocShape => TocsWellFormed
    BY DEF TocShape
<1> QED
    BY <1>1, <1>2, <1>3, InductiveInvariant, PTL DEF Spec

-----------------------------------------------------------------------------
(* The last element of a flattened sequence that is in a set. *)

(* No element of s is in H; the last element of s that is in H is e. *)
NoneIn(s, H) == \A i \in 1..Len(s) : s[i] \notin H
LastIn(s, H, e) ==
    \E i \in 1..Len(s) : s[i] = e /\ e \in H /\ \A j \in 1..Len(s) : i < j => s[j] \notin H

(* The last element of a concatenation that is in H is that of its second part, if there is one. *)
LEMMA ConcatLast ==
    ASSUME NEW S, NEW s \in Seq(S), NEW t \in Seq(S), NEW H
    PROVE  /\ s \o t \in Seq(S)
           /\ NoneIn(s \o t, H) <=> NoneIn(s, H) /\ NoneIn(t, H)
           /\ \A e : LastIn(s \o t, H, e) => LastIn(t, H, e) \/ (LastIn(s, H, e) /\ NoneIn(t, H))
<1> DEFINE u == s \o t
<1>1. Len(s) \in Nat /\ Len(t) \in Nat
    OBVIOUS
<1>2. /\ u \in Seq(S)
      /\ Len(u) = Len(s) + Len(t)
      /\ \A i \in 1..Len(s) : u[i] = s[i]
      /\ \A i \in 1..Len(u) : i \notin 1..Len(s) =>
             i - Len(s) \in 1..Len(t) /\ u[i] = t[i - Len(s)]
    BY ConcatElements
<1>3. \A j \in 1..Len(t) : Len(s) + j \in 1..Len(u) /\ u[Len(s) + j] = t[j]
    OBVIOUS
<1> HIDE DEF u
<1>4. NoneIn(u, H) <=> NoneIn(s, H) /\ NoneIn(t, H)
  <2>1. ASSUME NoneIn(u, H) PROVE NoneIn(s, H)
    BY <2>1, <1>1, <1>2 DEF NoneIn
  <2>2. ASSUME NoneIn(u, H) PROVE NoneIn(t, H)
    BY <2>2, <1>3 DEF NoneIn
  <2>3. ASSUME NoneIn(s, H), NoneIn(t, H) PROVE NoneIn(u, H)
    BY <2>3, <1>2 DEF NoneIn
  <2> QED
    BY <2>1, <2>2, <2>3
<1>5. ASSUME NEW e, LastIn(u, H, e)
      PROVE  LastIn(t, H, e) \/ (LastIn(s, H, e) /\ NoneIn(t, H))
  <2>1. PICK i \in 1..Len(u) : u[i] = e /\ e \in H /\ \A j \in 1..Len(u) : i < j => u[j] \notin H
    BY <1>5 DEF LastIn
  <2>2. CASE i \in 1..Len(s)
    <3>1. s[i] = e
        BY <1>2, <2>1, <2>2
    <3>2. ASSUME NEW j \in 1..Len(s), i < j PROVE s[j] \notin H
      <4>1. j \in 1..Len(u) /\ u[j] = s[j]
        BY <1>1, <1>2
      <4> QED
        BY <2>1, <3>2, <4>1
    <3>3. ASSUME NEW j \in 1..Len(t) PROVE t[j] \notin H
      <4>1. i < Len(s) + j
        BY <1>1, <2>2
      <4> QED
        BY <1>3, <2>1, <4>1
    <3> QED
        BY <2>1, <2>2, <3>1, <3>2, <3>3 DEF LastIn, NoneIn
  <2>3. CASE i \notin 1..Len(s)
    <3>1. PICK k \in 1..Len(t) : k = i - Len(s) /\ t[k] = e
        BY <1>2, <2>1, <2>3
    <3>2. ASSUME NEW j \in 1..Len(t), k < j PROVE t[j] \notin H
      <4>1. i < Len(s) + j
        BY <1>1, <1>2, <3>1, <3>2
      <4> QED
        BY <1>3, <2>1, <4>1
    <3> QED
        BY <2>1, <3>1, <3>2 DEF LastIn
  <2> QED
    BY <2>2, <2>3
<1> QED
    BY <1>2, <1>4, <1>5 DEF u

(* The function by which FlattenSeq is defined exists, and gives the flattening of every prefix. *)
FlattenPrefixes(seqs, n, f) ==
    f = [i \in 1..n |-> IF i = 1 THEN seqs[i] ELSE f[i - 1] \o seqs[i]]

(* There is such a function, for any length. *)
LEMMA FlattenPrefixesExist ==
    ASSUME NEW seqs, NEW n \in Nat
    PROVE  \E f : FlattenPrefixes(seqs, n, f)
<1> DEFINE bad == {m \in Nat : ~ \E f : FlattenPrefixes(seqs, m, f)}
<1> SUFFICES ASSUME bad # {} PROVE FALSE
    OBVIOUS
<1>1. PICK m \in bad : \A k \in bad : m <= k
    BY LeastNat
<1>2. m # 0
  <2>1. FlattenPrefixes(seqs, 0, [i \in 1..0 |-> seqs])
    BY DEF FlattenPrefixes
  <2> QED
    BY <2>1
<1>3. PICK f : FlattenPrefixes(seqs, m - 1, f)
  <2>1. m - 1 \in Nat /\ ~(m <= m - 1)
    BY <1>1, <1>2
  <2> QED
    BY <1>1, <2>1
<1> DEFINE g == [i \in 1..m |-> IF i = 1 THEN seqs[i]
                                ELSE IF i < m THEN f[i] ELSE f[m - 1] \o seqs[m]]
<1>4. FlattenPrefixes(seqs, m, g)
  <2>1. g = [i \in 1..m |-> IF i = 1 THEN seqs[i] ELSE g[i - 1] \o seqs[i]]
    <3>1. ASSUME NEW i \in 1..m, i # 1 PROVE g[i] = g[i - 1] \o seqs[i]
      <4>1. i - 1 \in 1..m - 1 /\ i - 1 \in 1..m /\ i - 1 < m
        BY <3>1, <1>1
      <4>2. f[i - 1] = g[i - 1]
        <5>1. CASE i - 1 = 1
            BY <1>3, <4>1, <5>1 DEF FlattenPrefixes
        <5>2. CASE i - 1 # 1
            BY <4>1, <5>2
        <5> QED
            BY <5>1, <5>2
      <4>5. m \in Nat
        BY ONLY <1>1
      <4>3. CASE i < m
        <5>1. g[i] = f[i]
            BY <3>1, <4>3
        <5>2. i \in 1..m - 1
            BY <1>1, <4>3
        <5>3. f[i] = f[i - 1] \o seqs[i]
            BY <1>3, <3>1, <5>2 DEF FlattenPrefixes
        <5> QED
            BY <4>2, <5>1, <5>3
      <4>4. CASE i = m
        <5>1. g[i] = f[m - 1] \o seqs[m]
          <6>1. ~(i < m) /\ i = m
            BY <4>4, <4>5
          <6> QED
            BY <3>1, <6>1
        <5> HIDE DEF g
        <5> QED
            BY <4>2, <4>4, <5>1
      <4>6. i < m \/ i = m
        BY <4>5
      <4> HIDE DEF g
      <4> QED
        BY <4>3, <4>4, <4>6
    <3> QED
        BY <3>1
  <2> HIDE DEF g
  <2> QED
    BY <2>1 DEF FlattenPrefixes
<1> QED
    BY <1>1, <1>4

(* FlattenSeq is the last of the prefixes. *)
LEMMA FlattenSeqIsPrefix ==
    ASSUME NEW S, NEW seqs \in Seq(Seq(S))
    PROVE  \/ Len(seqs) = 0 /\ FlattenSeq(seqs) = << >>
           \/ /\ Len(seqs) # 0
              /\ \E f : FlattenPrefixes(seqs, Len(seqs), f) /\ FlattenSeq(seqs) = f[Len(seqs)]
<1>1. CASE Len(seqs) = 0
    BY <1>1, EmptySeq DEF FlattenSeq
<1>2. CASE Len(seqs) # 0
  <2> DEFINE f == CHOOSE f : f = [i \in 1..Len(seqs) |-> IF i = 1 THEN seqs[i] ELSE f[i - 1] \o seqs[i]]
  <2>1. \E g : g = [i \in 1..Len(seqs) |-> IF i = 1 THEN seqs[i] ELSE g[i - 1] \o seqs[i]]
    <3>1. Len(seqs) \in Nat
        OBVIOUS
    <3>2. PICK g : FlattenPrefixes(seqs, Len(seqs), g)
        BY <3>1, FlattenPrefixesExist
    <3> QED
        BY <3>2 DEF FlattenPrefixes
  <2>2. f = [i \in 1..Len(seqs) |-> IF i = 1 THEN seqs[i] ELSE f[i - 1] \o seqs[i]]
    BY <2>1
  <2>3. FlattenSeq(seqs) = f[Len(seqs)]
    BY <1>2 DEF FlattenSeq
  <2> HIDE DEF f
  <2> QED
    BY <1>2, <2>2, <2>3 DEF FlattenPrefixes
<1> QED
    BY <1>1, <1>2

(***************************************************************************)
(* What a walk over a sequence of sequences finds last is what the last of *)
(* them that has any such element has last.                                *)
(***************************************************************************)
LEMMA FlattenLast ==
    ASSUME NEW S, NEW seqs \in Seq(Seq(S)), NEW H
    PROVE  /\ FlattenSeq(seqs) \in Seq(S)
           /\ NoneIn(FlattenSeq(seqs), H) <=> \A k \in 1..Len(seqs) : NoneIn(seqs[k], H)
           /\ \A e : LastIn(FlattenSeq(seqs), H, e) =>
                 \E k \in 1..Len(seqs) : /\ LastIn(seqs[k], H, e)
                                         /\ \A j \in 1..Len(seqs) : k < j => NoneIn(seqs[j], H)
<1> DEFINE n == Len(seqs)
           Good(m, f) ==
              /\ f[m] \in Seq(S)
              /\ NoneIn(f[m], H) <=> \A k \in 1..m : NoneIn(seqs[k], H)
              /\ \A e : LastIn(f[m], H, e) =>
                    \E k \in 1..m : /\ LastIn(seqs[k], H, e)
                                    /\ \A j \in 1..m : k < j => NoneIn(seqs[j], H)
<1>0. n \in Nat /\ \A k \in 1..n : seqs[k] \in Seq(S)
    OBVIOUS
<1>1. CASE n = 0
  <2>1. FlattenSeq(seqs) = << >>
    BY <1>1, FlattenSeqIsPrefix
  <2> QED
    BY <1>1, <2>1 DEF NoneIn, LastIn
<1>2. CASE n # 0
  <2>1. PICK f : FlattenPrefixes(seqs, n, f) /\ FlattenSeq(seqs) = f[n]
    BY <1>2, FlattenSeqIsPrefix
  <2> DEFINE bad == {m \in 1..n : ~Good(m, f)}
  <2>2. bad = {}
    <3> SUFFICES ASSUME bad # {} PROVE FALSE
        OBVIOUS
    <3>1. bad \in SUBSET Nat
        BY <1>0
    <3>2. PICK m \in bad : \A k \in bad : m <= k
      <4> HIDE DEF bad
      <4> QED
        BY <3>1, LeastNat
    <3>3. m \in 1..n /\ ~Good(m, f)
        OBVIOUS
    <3>4. m # 1
      <4>1. f[1] = seqs[1]
        BY <1>0, <1>2, <2>1 DEF FlattenPrefixes
      <4>2. Good(1, f)
        BY <1>0, <1>2, <4>1
      <4> QED
        BY <3>3, <4>2
    <3>5. m - 1 \in 1..n /\ m - 1 \notin bad
      <4>1. m - 1 \in 1..n /\ ~(m <= m - 1)
        BY <1>0, <3>3, <3>4
      <4> HIDE DEF bad
      <4> QED
        BY <3>2, <4>1
    <3>6. Good(m - 1, f)
        BY <3>5
    <3>7. f[m] = f[m - 1] \o seqs[m]
        BY <2>1, <3>3, <3>4 DEF FlattenPrefixes
    <3>8. /\ f[m] \in Seq(S)
          /\ NoneIn(f[m], H) <=> NoneIn(f[m - 1], H) /\ NoneIn(seqs[m], H)
          /\ \A e : LastIn(f[m], H, e) =>
                LastIn(seqs[m], H, e) \/ (LastIn(f[m - 1], H, e) /\ NoneIn(seqs[m], H))
        BY <1>0, <3>3, <3>6, <3>7, ConcatLast
    <3>9. \A k \in 1..m : k = m \/ k \in 1..m - 1
        BY <1>0, <3>3
    <3>10. 1..m - 1 \subseteq 1..m /\ m \in 1..m
        BY <1>0, <3>3
    <3>11. NoneIn(f[m], H) <=> \A k \in 1..m : NoneIn(seqs[k], H)
        BY <3>6, <3>8, <3>9, <3>10
    <3>12. ASSUME NEW e, LastIn(f[m], H, e)
           PROVE  \E k \in 1..m : /\ LastIn(seqs[k], H, e)
                                  /\ \A j \in 1..m : k < j => NoneIn(seqs[j], H)
      <4>1. CASE LastIn(seqs[m], H, e)
        <5>1. \A j \in 1..m : ~(m < j)
            BY <1>0, <3>3
        <5> QED
            BY <3>10, <4>1, <5>1
      <4>2. CASE LastIn(f[m - 1], H, e) /\ NoneIn(seqs[m], H)
        <5>1. PICK k \in 1..m - 1 : /\ LastIn(seqs[k], H, e)
                                    /\ \A j \in 1..m - 1 : k < j => NoneIn(seqs[j], H)
            BY <3>6, <4>2
        <5>2. \A j \in 1..m : k < j => NoneIn(seqs[j], H)
            BY <3>9, <4>2, <5>1
        <5> QED
            BY <3>10, <5>1, <5>2
      <4> QED
        BY <3>8, <3>12, <4>1, <4>2
    <3>13. Good(m, f)
        BY <3>8, <3>11, <3>12
    <3> QED
        BY <3>3, <3>13
  <2>3. Good(n, f)
    <3>1. n \in 1..n /\ n \notin bad
      <4>1. n \in 1..n
        BY <1>0, <1>2
      <4> HIDE DEF bad, n
      <4> QED
        BY <4>1, <2>2
    <3> HIDE DEF Good
    <3> QED
        BY <3>1
  <2> QED
    BY <2>1, <2>3
<1> QED
    BY <1>1, <1>2

-----------------------------------------------------------------------------
(* The walk of the tocs. *)

(* What a walk finds for one record of toc t: an entry, or what `sub` says of a sub-toc. *)
EntriesOf(t, r, sub) ==
    IF r.tag \notin {"TOC_INDEX", "TOC_SUB_TOC"} THEN << >>
    ELSE IF <<r.path, r.offset>> \in maskedEntries(tocs[t]) THEN << >>
    ELSE IF r.tag = "TOC_INDEX" THEN << [path |-> r.path, offset |-> r.offset, toc |-> t] >>
    ELSE sub

(* The walk of a sub-toc, and that of the master toc. *)
SubWalk(t) == FlattenSeq([i \in 1..Len(tocs[t]) |-> EntriesOf(t, tocs[t][i], << >>)])
MasterWalk ==
    FlattenSeq([i \in 1..Len(tocs[Master]) |->
                    EntriesOf(Master, tocs[Master][i], SubWalk(tocs[Master][i].path))])

(* What readAll returns (TocHandler::loadIndexes, two levels deep) is the walk of the master toc. *)
LEMMA ReadAllIsWalk ==
    ASSUME TypeOK
    PROVE  readAll(tocs, Master, 1) = MasterWalk
<1>1. /\ DOMAIN tocs = TocFiles /\ Master \in TocFiles
      /\ \A t \in TocFiles : \A i \in 1..Len(tocs[t]) :
            tocs[t][i].tag = "TOC_SUB_TOC" => tocs[t][i].path \in TocFiles
  <2>1. \A r \in TocRecords : r.tag = "TOC_SUB_TOC" => r.path \in TocFiles
    BY DEF TocRecords, InitRecord, TocFiles
  <2>2. \A t \in TocFiles : \A i \in 1..Len(tocs[t]) : tocs[t][i] \in TocRecords
    BY DEF TypeOK
  <2> QED
    BY <2>1, <2>2 DEF TypeOK, TocFiles
<1> DEFINE deep(t) == FlattenSeq([i \in 1..Len(tocs[t]) |->
                                     EntriesOf(t, tocs[t][i], SubWalk(tocs[t][i].path))])
           body(w, d) == [f \in TocFiles |->
              FlattenSeq([i \in 1..Len(tocs[f]) |->
                  EntriesOf(f, tocs[f][i], IF d > 0 THEN w[d - 1][tocs[f][i].path] ELSE << >>)])]
           subs == [f \in TocFiles |-> SubWalk(f)]
           deeps == [f \in TocFiles |-> deep(f)]
           w0 == [d \in 0..1 |-> IF d = 0 THEN subs ELSE deeps]
<1>2. ASSUME NEW w PROVE body(w, 0) = subs
  <2>1. ASSUME NEW f \in TocFiles, NEW i \in 1..Len(tocs[f])
        PROVE  EntriesOf(f, tocs[f][i], IF 0 > 0 THEN w[0 - 1][tocs[f][i].path] ELSE << >>)
                 = EntriesOf(f, tocs[f][i], << >>)
    BY DEF EntriesOf
  <2> QED
    BY <2>1 DEF SubWalk
<1>3. ASSUME NEW w, w[0] = subs
      PROVE  body(w, 1) = deeps
  <2>1. ASSUME NEW f \in TocFiles, NEW i \in 1..Len(tocs[f])
        PROVE  EntriesOf(f, tocs[f][i], IF 1 > 0 THEN w[1 - 1][tocs[f][i].path] ELSE << >>)
                 = EntriesOf(f, tocs[f][i], SubWalk(tocs[f][i].path))
    <3>1. tocs[f][i].tag = "TOC_SUB_TOC" => w[0][tocs[f][i].path] = SubWalk(tocs[f][i].path)
        BY <1>1, <1>3
    <3> HIDE DEF subs
    <3> QED
        BY <3>1 DEF EntriesOf
  <2> QED
    BY <2>1
<1>4. \E w : w = [d \in 0..1 |-> body(w, d)]
  <2>1. w0[0] = subs /\ w0[1] = deeps
    OBVIOUS
  <2>2. \A d \in 0..1 : d = 0 \/ d = 1
    OBVIOUS
  <2>3. \A d \in 0..1 : w0[d] = body(w0, d)
    <3> HIDE DEF w0, body, subs, deeps
    <3> QED
        BY <1>2, <1>3, <2>1, <2>2
  <2>4. w0 = [d \in 0..1 |-> w0[d]]
    OBVIOUS
  <2>5. w0 = [d \in 0..1 |-> body(w0, d)]
    <3> HIDE DEF w0, body
    <3> QED
        BY <2>3, <2>4, SMTT(30)
  <2> HIDE DEF w0
  <2> QED
    BY <2>5
<1> DEFINE walk == CHOOSE w : w = [d \in 0..1 |-> body(w, d)]
<1>5. walk = [d \in 0..1 |-> body(walk, d)]
    BY <1>4
<1>6. readAll(tocs, Master, 1) = walk[1][Master]
    BY <1>1 DEF readAll, EntriesOf
<1> HIDE DEF walk
<1>7. walk[0] = body(walk, 0) /\ walk[1] = body(walk, 1)
  <2> HIDE DEF body
  <2> QED
    BY <1>5
<1>8. walk[1] = deeps
  <2> HIDE DEF body, subs, deeps
  <2> QED
    BY <1>2, <1>3, <1>7
<1>9. walk[1][Master] = MasterWalk
    BY <1>1, <1>8 DEF MasterWalk
<1> QED
    BY <1>6, <1>9

(* The toc a process records its indexes in, the sections recorded there, and the links. *)
HomeToc(p) == IF p \in SubTocProcs THEN p ELSE Master
Recorded(x, s) ==
    \E i \in 1..Len(tocs[HomeToc(x[1])]) : tocs[HomeToc(x[1])][i] = IndexRecord(x, s)
Linked(p) == \E i \in 1..Len(tocs[Master]) : tocs[Master][i] = SubTocRecord(p)

(* What a walk finds, and what of it a retrieve of a field looks at. *)
FoundEntries == [path : IndexFiles, offset : Nat, toc : TocFiles]
Hits(ik, fk) == {x \in FoundEntries : x.path[2] = ik /\ Has(x, fk)}

(* The records a toc may hold, by their tags. *)
LEMMA RecordKinds ==
    ASSUME NEW r \in TocRecords
    PROVE  \/ r.tag = "TOC_INIT"
           \/ r.tag = "TOC_INDEX" /\ r.path \in IndexFiles /\ r.offset \in Nat
                  /\ r = IndexRecord(r.path, r.offset)
           \/ r.tag = "TOC_SUB_TOC" /\ r.path \in Procs /\ r.offset = 0 /\ r = SubTocRecord(r.path)
           \/ r.tag = "TOC_CLEAR" /\ r.path \in Procs /\ r.offset = 0
BY DEF TocRecords, InitRecord, IndexRecord, SubTocRecord

(* Only sub-tocs are masked, and only by a CLEAR record of their own. *)
LEMMA MasksAreOfSubTocs ==
    ASSUME TypeOK, NEW t \in TocFiles, NEW a, NEW n, <<a, n>> \in maskedEntries(tocs[t])
    PROVE  n = 0 /\ \E i \in 1..Len(tocs[t]) : tocs[t][i].tag = "TOC_CLEAR" /\ tocs[t][i].path = a
<1>1. \A i \in 1..Len(tocs[t]) : tocs[t][i] \in TocRecords
    BY DEF TypeOK
<1>2. \A i \in 1..Len(tocs[t]) : tocs[t][i].tag # "TOC_CLEAR_ALL"
    BY <1>1, RecordKinds
<1>3. PICK i \in 1..Len(tocs[t]) :
          tocs[t][i].tag = "TOC_CLEAR" /\ tocs[t][i].path = a /\ tocs[t][i].offset = n
    BY <1>2 DEF maskedEntries
<1> QED
    BY <1>1, <1>3, RecordKinds

(* Both walks are sequences of entries. *)
LEMMA WalkTypes ==
    ASSUME TypeOK
    PROVE  /\ \A t \in TocFiles : SubWalk(t) \in Seq(FoundEntries)
           /\ MasterWalk \in Seq(FoundEntries)
<1>1. \A t \in TocFiles : Len(tocs[t]) \in Nat /\ \A i \in 1..Len(tocs[t]) : tocs[t][i] \in TocRecords
    BY DEF TypeOK
<1>0. \A t \in TocFiles : \A r \in TocRecords : r.tag = "TOC_INDEX" =>
          [path |-> r.path, offset |-> r.offset, toc |-> t] \in FoundEntries
    BY RecordKinds DEF FoundEntries
<1>2. ASSUME NEW t \in TocFiles PROVE SubWalk(t) \in Seq(FoundEntries)
  <2> DEFINE parts == [i \in 1..Len(tocs[t]) |-> EntriesOf(t, tocs[t][i], << >>)]
  <2>1. parts \in [1..Len(tocs[t]) -> Seq(FoundEntries)]
    <3>1. \A i \in 1..Len(tocs[t]) : EntriesOf(t, tocs[t][i], << >>) \in Seq(FoundEntries)
        BY <1>0, <1>1 DEF EntriesOf
    <3> QED
        BY <3>1
  <2>2. parts \in Seq(Seq(FoundEntries))
    <3> HIDE DEF parts
    <3> QED
        BY <1>1, <2>1, IsASeq
  <2> QED
    BY <2>2, FlattenLast DEF SubWalk
<1>3. MasterWalk \in Seq(FoundEntries)
  <2> DEFINE parts == [i \in 1..Len(tocs[Master]) |->
                      EntriesOf(Master, tocs[Master][i], SubWalk(tocs[Master][i].path))]
  <2>0. Master \in TocFiles /\ Procs \subseteq TocFiles
    BY DEF TocFiles
  <2>1. parts \in [1..Len(tocs[Master]) -> Seq(FoundEntries)]
    <3>1. ASSUME NEW i \in 1..Len(tocs[Master])
          PROVE  EntriesOf(Master, tocs[Master][i], SubWalk(tocs[Master][i].path)) \in Seq(FoundEntries)
      <4>1. tocs[Master][i] \in TocRecords
        BY <1>1, <2>0
      <4>2. tocs[Master][i].tag = "TOC_SUB_TOC" => SubWalk(tocs[Master][i].path) \in Seq(FoundEntries)
        BY <1>2, <2>0, <4>1, RecordKinds
      <4> QED
        BY <1>0, <2>0, <4>1, <4>2 DEF EntriesOf
    <3> QED
        BY <3>1
  <2>2. parts \in Seq(Seq(FoundEntries))
    <3> HIDE DEF parts
    <3> QED
        BY <1>1, <2>0, <2>1, IsASeq
  <2> QED
    BY <2>2, FlattenLast DEF MasterWalk
<1> QED
    BY <1>2, <1>3

(***************************************************************************)
(* Retrieving from the indexes of a walk, the last one first, reads what   *)
(* the last of the hits of the walk leads to.                              *)
(***************************************************************************)
LEMMA ReversedReadsLast ==
    ASSUME NEW w \in Seq(FoundEntries), NEW ik \in IndexKeys, NEW fk \in FieldKeys
    PROVE  \/ NoneIn(w, Hits(ik, fk)) /\ RetrieveFrom(Reverse(w), ik, fk) = NoField
           \/ \E x \in FoundEntries :
                 /\ LastIn(w, Hits(ik, fk), x)
                 /\ RetrieveFrom(Reverse(w), ik, fk) = ReadAt(sections[x.path][x.offset][fk])
<1> DEFINE n == Len(w)
           rev == Reverse(w)
           hits == {i \in selectIndex(rev, ik) : Has(rev[i], fk)}
           first == CHOOSE i \in hits : \A j \in hits : i <= j
<1>1. w \in Seq(FoundEntries) /\ n \in Nat
    OBVIOUS
<1>3. DOMAIN rev = 1..n /\ \A i \in 1..n : rev[i] = w[(n - i) + 1] /\ (n - i) + 1 \in 1..n
    BY <1>1 DEF Reverse
<1>4. RetrieveFrom(rev, ik, fk) = IF hits = {} THEN NoField
                                  ELSE ReadAt(sections[rev[first].path][rev[first].offset][fk])
    BY DEF RetrieveFrom
<1> HIDE DEF rev, n
<1>5. hits = {i \in 1..n : rev[i] \in Hits(ik, fk)}
    BY <1>1, <1>3 DEF selectIndex, Hits, n
<1>6. CASE hits = {}
  <2>1. ASSUME NEW i \in 1..n PROVE w[i] \notin Hits(ik, fk)
    <3>1. (n - i) + 1 \in 1..n /\ (n - ((n - i) + 1)) + 1 = i
        BY <1>1
    <3> QED
        BY <1>3, <1>5, <1>6, <3>1
  <2> QED
    BY <1>4, <1>6, <2>1 DEF NoneIn, n, rev
<1>7. CASE hits # {}
  <2>1. \E i \in hits : \A j \in hits : i <= j
    <3>1. hits \in SUBSET Nat
        BY <1>1, <1>5
    <3> HIDE DEF hits
    <3> QED
        BY <1>7, <3>1, LeastNat
  <2>2. first \in hits /\ \A j \in hits : first <= j
    <3> HIDE DEF hits
    <3> QED
        BY <2>1
  <2> HIDE DEF first
  <2>3. PICK k \in 1..n : k = (n - first) + 1 /\ rev[first] = w[k]
                         /\ first \in 1..n /\ w[k] \in Hits(ik, fk)
    BY <1>3, <1>5, <2>2
  <2>4. ASSUME NEW j \in 1..n, k < j PROVE w[j] \notin Hits(ik, fk)
    <3>0. \A m \in Nat : \A a, b, c \in 1..m : b = (m - a) + 1 /\ b < c =>
              (m - c) + 1 \in 1..m /\ (m - ((m - c) + 1)) + 1 = c /\ ~(a <= (m - c) + 1)
        OBVIOUS
    <3>1. (n - j) + 1 \in 1..n /\ (n - ((n - j) + 1)) + 1 = j /\ ~(first <= (n - j) + 1)
        BY <1>1, <2>3, <2>4, <3>0
    <3>2. (n - j) + 1 \notin hits
        BY <2>2, <3>1
    <3> QED
        BY <1>3, <1>5, <3>1, <3>2
  <2>5. LastIn(w, Hits(ik, fk), w[k]) /\ w[k] \in FoundEntries
    BY <1>1, <2>3, <2>4 DEF LastIn, n
  <2>6. RetrieveFrom(rev, ik, fk) = ReadAt(sections[w[k].path][w[k].offset][fk])
    BY <1>4, <1>7, <2>3
  <2> QED
    BY <2>5, <2>6 DEF rev
<1> QED
    BY <1>6, <1>7

(* So does a retrieve that loads the indexes now. *)
LEMMA RetrieveReadsLast ==
    ASSUME TypeOK, NEW ik \in IndexKeys, NEW fk \in FieldKeys
    PROVE  \/ NoneIn(MasterWalk, Hits(ik, fk)) /\ Retrieve(ik, fk) = NoField
           \/ \E x \in FoundEntries :
                 /\ LastIn(MasterWalk, Hits(ik, fk), x)
                 /\ Retrieve(ik, fk) = ReadAt(sections[x.path][x.offset][fk])
<1>1. PICK w \in Seq(FoundEntries) : w = MasterWalk
    BY WalkTypes
<1>2. Retrieve(ik, fk) = RetrieveFrom(Reverse(w), ik, fk)
    BY <1>1, ReadAllIsWalk DEF Retrieve, Visible, loadIndexes
<1> QED
    BY <1>1, <1>2, ReversedReadsLast

-----------------------------------------------------------------------------
(* The inductive invariant. *)

(* The fields of a data file are archived one after the other, by its owner and under its key. *)
ValuesOrdered ==
    \A d \in DataFiles : \A i \in 1..Len(Written(d)) :
        /\ Written(d)[i].proc = d[1] /\ Written(d)[i].ik = d[2] /\ Written(d)[i].n <= count
        /\ \A j \in 1..Len(Written(d)) : i < j => Written(d)[i].n < Written(d)[j].n

(* Later sections of an index, and then its open tree, lead to later fields. *)
TreesOrdered ==
    \A x \in IndexFiles :
        /\ Len(sections[x]) <= ixOffset[x]
        /\ \A fk \in FieldKeys : \A s \in 1..Len(sections[x]) : sections[x][s][fk] # NoField =>
              /\ btree[x][fk] # NoField => sections[x][s][fk].pos <= btree[x][fk].pos
              /\ \A u \in 1..Len(sections[x]) : s < u /\ sections[x][u][fk] # NoField =>
                     sections[x][s][fk].pos <= sections[x][u][fk].pos

(***************************************************************************)
(* Which records stand where: the indexes of a process in its sub-toc or,  *)
(* without one, in the master toc, in the order of their sections; its     *)
(* full indexes, and the mask of its sub-toc, in the master toc once it    *)
(* has closed; all links in the master toc.                                *)
(***************************************************************************)
IndexRecordPlaced(t, i) ==
    LET r == tocs[t][i] IN
    /\ r.path[3] = "part" =>
          /\ t = HomeToc(r.path[1])
          /\ r.offset < ixOffset[r.path]
          /\ \A j \in 1..Len(tocs[t]) :
                i < j /\ tocs[t][j].tag = "TOC_INDEX" /\ tocs[t][j].path = r.path =>
                    r.offset < tocs[t][j].offset
    /\ r.path[3] = "full" =>
          /\ t = Master /\ r.offset = 1
          /\ pc[r.path[1]] = "closed" /\ subToc[r.path[1]] /\ r.path \in toPublish[r.path[1]]
RecordsPlaced ==
    \A t \in TocFiles : \A i \in 1..Len(tocs[t]) :
        /\ tocs[t][i].tag = "TOC_INDEX" => IndexRecordPlaced(t, i)
        /\ tocs[t][i].tag = "TOC_SUB_TOC" => t = Master
        /\ tocs[t][i].tag = "TOC_CLEAR" =>
              t = Master /\ pc[tocs[t][i].path] = "closed" /\ subToc[tocs[t][i].path]

(***************************************************************************)
(* How far the flush of a process is.  A tree that holds something is      *)
(* dirty or is the one being published, and the section being published is *)
(* the tree.                                                               *)
(***************************************************************************)
WritingPCs == {"newSubToc", "linkSubToc", "writeIndex"}
SubTocLinked ==
    \A p \in Procs :
        /\ pc[p] \in {"newSubToc", "linkSubToc"} \/ subToc[p] => p \in SubTocProcs
        /\ pc[p] = "writeIndex" /\ p \in SubTocProcs => subToc[p]
        /\ subToc[p] /\ pc[p] \notin {"linkSubToc", "crashed"} => Linked(p)
        /\ \A ik \in IndexKeys, s \in Nat :
              p \in SubTocProcs /\ Recorded(Part(p, ik), s) => Linked(p)
PartOf(p, ik) ==
    LET x == Part(p, ik) IN
    /\ btree[x] # EmptyTree => ixDirty[x] \/ (pc[p] \in WritingPCs /\ current[p] = ik)
    /\ ixDirty[x] => dirty[p].catalogue
    /\ pc[p] \in WritingPCs /\ current[p] = ik =>
          ixOffset[x] \in 1..Len(sections[x]) /\ sections[x][ixOffset[x]] = btree[x]
PartProgress == \A p \in Procs, ik \in IndexKeys : PartOf(p, ik)

(* How far the full index of a process is: one section, published when the writer closes. *)
BlockOf(p) ==
    /\ \A x \in toPublish[p] : x[1] = p
    /\ pc[p] \notin {"compact", "closed", "crashed"} => toPublish[p] = {}
FullOf(p, ik) ==
    LET x == Full(p, ik) IN
    /\ ixOffset[x] = 1
    /\ btree[x] # EmptyTree /\ ~ixDirty[x] => x \in toPublish[p]
    /\ x \in toPublish[p] /\ pc[p] # "crashed" =>
          sections[x] # << >> /\ sections[x][1] = btree[x]
    /\ pc[p] = "closed" /\ subToc[p] =>
          /\ ~ixDirty[x]
          /\ x \in toPublish[p] =>
                \E i \in 1..Len(tocs[Master]) : tocs[Master][i] = IndexRecord(x, 1)
FullProgress == \A p \in Procs : BlockOf(p) /\ \A ik \in IndexKeys : FullOf(p, ik)

(* A tree has the field v or a later one; so has a published section of the index of v. *)
Covers(tree, v) == tree[v.fk] # NoField /\ Written(<<v.proc, v.ik>>)[tree[v.fk].pos].n >= v.n
Published(v) ==
    \E s \in 1..Len(sections[Part(v.proc, v.ik)]) :
        Recorded(Part(v.proc, v.ik), s) /\ Covers(sections[Part(v.proc, v.ik)][s], v)

(* Where the fields a process has archived are. *)
Accounted ==
    /\ \A v \in acked : Published(v)
    /\ \A p \in Procs : \A v \in unacked[p] :
          v.proc = p /\ (Published(v) \/ Covers(btree[Part(p, v.ik)], v))
    /\ \A p \in SubTocProcs : pc[p] # "crashed" =>
          \A v \in acked \cup unacked[p] : v.proc = p => Covers(btree[Full(p, v.ik)], v)

FlushInv ==
    /\ ValuesOrdered
    /\ TreesOrdered
    /\ RecordsPlaced
    /\ SubTocLinked
    /\ PartProgress
    /\ FullProgress
    /\ Accounted

-----------------------------------------------------------------------------
(* What the walk finds. *)

(* Where the last hit of a walk comes from. *)
LEMMA SubWalkLast ==
    ASSUME TypeOK, NEW t \in TocFiles, NEW H
    PROVE  /\ NoneIn(SubWalk(t), H) <=>
                  \A k \in 1..Len(tocs[t]) : NoneIn(EntriesOf(t, tocs[t][k], << >>), H)
           /\ \A e : LastIn(SubWalk(t), H, e) =>
                 \E k \in 1..Len(tocs[t]) :
                    /\ LastIn(EntriesOf(t, tocs[t][k], << >>), H, e)
                    /\ \A j \in 1..Len(tocs[t]) : k < j =>
                          NoneIn(EntriesOf(t, tocs[t][j], << >>), H)
<1> DEFINE parts == [i \in 1..Len(tocs[t]) |-> EntriesOf(t, tocs[t][i], << >>)]
<1>1. Len(tocs[t]) \in Nat /\ \A i \in 1..Len(tocs[t]) : tocs[t][i] \in TocRecords
    BY DEF TypeOK
<1>2. \A i \in 1..Len(tocs[t]) : EntriesOf(t, tocs[t][i], << >>) \in Seq(FoundEntries)
  <2>1. \A r \in TocRecords : r.tag = "TOC_INDEX" =>
            [path |-> r.path, offset |-> r.offset, toc |-> t] \in FoundEntries
    BY RecordKinds DEF FoundEntries
  <2> QED
    BY <1>1, <2>1 DEF EntriesOf
<1>3. parts \in Seq(Seq(FoundEntries)) /\ Len(parts) = Len(tocs[t])
  <2>1. parts \in [1..Len(tocs[t]) -> Seq(FoundEntries)]
    BY <1>2
  <2> HIDE DEF parts
  <2> QED
    BY <1>1, <2>1, IsASeq
<1>4. SubWalk(t) = FlattenSeq(parts)
    BY DEF SubWalk
<1>5. \A i \in 1..Len(tocs[t]) : parts[i] = EntriesOf(t, tocs[t][i], << >>)
    OBVIOUS
<1> HIDE DEF parts
<1>6. NoneIn(SubWalk(t), H) <=> \A k \in 1..Len(tocs[t]) : NoneIn(parts[k], H)
    BY ONLY <1>3, <1>4, FlattenLast
<1>7. ASSUME NEW e, LastIn(SubWalk(t), H, e)
      PROVE  \E k \in 1..Len(tocs[t]) :
                /\ LastIn(parts[k], H, e)
                /\ \A j \in 1..Len(tocs[t]) : k < j => NoneIn(parts[j], H)
    BY ONLY <1>3, <1>4, <1>7, FlattenLast
<1>8. (\A k \in 1..Len(tocs[t]) : NoneIn(parts[k], H)) <=>
          \A k \in 1..Len(tocs[t]) : NoneIn(EntriesOf(t, tocs[t][k], << >>), H)
    BY ONLY <1>5
<1>9. ASSUME NEW e, LastIn(SubWalk(t), H, e)
      PROVE  \E k \in 1..Len(tocs[t]) :
                /\ LastIn(EntriesOf(t, tocs[t][k], << >>), H, e)
                /\ \A j \in 1..Len(tocs[t]) : k < j => NoneIn(EntriesOf(t, tocs[t][j], << >>), H)
    BY ONLY <1>5, <1>7, <1>9
<1> QED
    BY ONLY <1>6, <1>8, <1>9

(* The same of the walk of the master toc, whose links lead to the walks of the sub-tocs. *)
LEMMA MasterWalkLast ==
    ASSUME TypeOK, NEW H
    PROVE  /\ NoneIn(MasterWalk, H) <=>
                  \A k \in 1..Len(tocs[Master]) :
                      NoneIn(EntriesOf(Master, tocs[Master][k], SubWalk(tocs[Master][k].path)), H)
           /\ \A e : LastIn(MasterWalk, H, e) =>
                 \E k \in 1..Len(tocs[Master]) :
                    /\ LastIn(EntriesOf(Master, tocs[Master][k], SubWalk(tocs[Master][k].path)), H, e)
                    /\ \A j \in 1..Len(tocs[Master]) : k < j =>
                          NoneIn(EntriesOf(Master, tocs[Master][j], SubWalk(tocs[Master][j].path)), H)
<1> DEFINE parts == [i \in 1..Len(tocs[Master]) |->
                      EntriesOf(Master, tocs[Master][i], SubWalk(tocs[Master][i].path))]
<1>1. /\ Master \in TocFiles /\ Procs \subseteq TocFiles
      /\ Len(tocs[Master]) \in Nat /\ \A i \in 1..Len(tocs[Master]) : tocs[Master][i] \in TocRecords
    BY DEF TypeOK, TocFiles
<1>2. ASSUME NEW i \in 1..Len(tocs[Master])
      PROVE  EntriesOf(Master, tocs[Master][i], SubWalk(tocs[Master][i].path)) \in Seq(FoundEntries)
  <2>1. tocs[Master][i].tag = "TOC_SUB_TOC" => SubWalk(tocs[Master][i].path) \in Seq(FoundEntries)
    BY <1>1, WalkTypes, RecordKinds
  <2>2. tocs[Master][i].tag = "TOC_INDEX" =>
            [path |-> tocs[Master][i].path, offset |-> tocs[Master][i].offset, toc |-> Master] \in FoundEntries
    BY <1>1, RecordKinds DEF FoundEntries
  <2> QED
    BY <1>1, <2>1, <2>2 DEF EntriesOf
<1>3. parts \in Seq(Seq(FoundEntries)) /\ Len(parts) = Len(tocs[Master])
  <2>1. parts \in [1..Len(tocs[Master]) -> Seq(FoundEntries)]
    BY <1>2
  <2> HIDE DEF parts
  <2> QED
    BY <1>1, <2>1, IsASeq
<1>4. MasterWalk = FlattenSeq(parts)
    BY DEF MasterWalk
<1>5. \A i \in 1..Len(tocs[Master]) :
          parts[i] = EntriesOf(Master, tocs[Master][i], SubWalk(tocs[Master][i].path))
    OBVIOUS
<1> HIDE DEF parts
<1>6. NoneIn(MasterWalk, H) <=> \A k \in 1..Len(tocs[Master]) : NoneIn(parts[k], H)
    BY ONLY <1>3, <1>4, FlattenLast
<1>7. ASSUME NEW e, LastIn(MasterWalk, H, e)
      PROVE  \E k \in 1..Len(tocs[Master]) :
                /\ LastIn(parts[k], H, e)
                /\ \A j \in 1..Len(tocs[Master]) : k < j => NoneIn(parts[j], H)
    BY ONLY <1>3, <1>4, <1>7, FlattenLast
<1>8. (\A k \in 1..Len(tocs[Master]) : NoneIn(parts[k], H)) <=>
          \A k \in 1..Len(tocs[Master]) :
              NoneIn(EntriesOf(Master, tocs[Master][k], SubWalk(tocs[Master][k].path)), H)
    BY ONLY <1>5
<1>9. ASSUME NEW e, LastIn(MasterWalk, H, e)
      PROVE  \E k \in 1..Len(tocs[Master]) :
                /\ LastIn(EntriesOf(Master, tocs[Master][k], SubWalk(tocs[Master][k].path)), H, e)
                /\ \A j \in 1..Len(tocs[Master]) : k < j =>
                       NoneIn(EntriesOf(Master, tocs[Master][j], SubWalk(tocs[Master][j].path)), H)
    BY ONLY <1>5, <1>7, <1>9
<1> QED
    BY ONLY <1>6, <1>8, <1>9

(* One entry of a walk. *)
(* The entry of section n of index x in toc t. *)
Entry(x, n, t) == [path |-> x, offset |-> n, toc |-> t]

(* An INDEX record is never masked here, as sections are counted from one. *)
LEMMA IndexEntries ==
    ASSUME TypeOK, NEW t \in TocFiles, NEW i \in 1..Len(tocs[t]),
           tocs[t][i].tag = "TOC_INDEX", tocs[t][i].offset # 0
    PROVE  /\ EntriesOf(t, tocs[t][i], << >>) = <<Entry(tocs[t][i].path, tocs[t][i].offset, t)>>
           /\ EntriesOf(t, tocs[t][i], SubWalk(tocs[t][i].path)) =
                 <<Entry(tocs[t][i].path, tocs[t][i].offset, t)>>
<1>1. <<tocs[t][i].path, tocs[t][i].offset>> \notin maskedEntries(tocs[t])
    BY MasksAreOfSubTocs
<1> QED
    BY <1>1 DEF EntriesOf, Entry

(* Another record gives nothing in a sub-toc; nor does it in the master toc, if it is not a link. *)
LEMMA OtherEntries ==
    ASSUME TypeOK, NEW t \in TocFiles, NEW i \in 1..Len(tocs[t]), tocs[t][i].tag # "TOC_INDEX"
    PROVE  /\ EntriesOf(t, tocs[t][i], << >>) = << >>
           /\ EntriesOf(t, tocs[t][i], SubWalk(tocs[t][i].path)) =
                 IF tocs[t][i].tag = "TOC_SUB_TOC" /\ <<tocs[t][i].path, 0>> \notin maskedEntries(tocs[t])
                 THEN SubWalk(tocs[t][i].path) ELSE << >>
<1>1. tocs[t][i] \in TocRecords
    BY DEF TypeOK
<1> QED
    BY <1>1, RecordKinds DEF EntriesOf

(* The last hit of one entry is that entry. *)
LEMMA LastOfOne ==
    ASSUME NEW e, NEW H
    PROVE  /\ NoneIn(<<e>>, H) <=> e \notin H
           /\ \A f : LastIn(<<e>>, H, f) => f = e /\ e \in H
BY DEF NoneIn, LastIn

(* A sequence with a hit has an element. *)
LEMMA LastOfNone ==
    ASSUME NEW s, NEW H, NEW f, LastIn(s, H, f)
    PROVE  s # << >>
BY DEF LastIn

(***************************************************************************)
(* A record of an index, in the master toc or in a sub-toc that is linked  *)
(* and not masked, is found by the walk.                                   *)
(***************************************************************************)
LEMMA EntryFound ==
    ASSUME TypeOK, NEW H, NEW t \in TocFiles, NEW x \in IndexFiles, NEW n \in Nat \ {0},
           NEW i \in 1..Len(tocs[t]), tocs[t][i] = IndexRecord(x, n), Entry(x, n, t) \in H,
           t # Master => Linked(t) /\ <<t, 0>> \notin maskedEntries(tocs[Master])
    PROVE  ~NoneIn(MasterWalk, H)
<1>1. tocs[t][i].tag = "TOC_INDEX" /\ tocs[t][i].offset = n /\ tocs[t][i].path = x
    BY RecordTags DEF IndexRecord
<1>2. /\ EntriesOf(t, tocs[t][i], << >>) = <<Entry(x, n, t)>>
      /\ EntriesOf(t, tocs[t][i], SubWalk(tocs[t][i].path)) = <<Entry(x, n, t)>>
    BY <1>1, IndexEntries
<1>3. ~NoneIn(<<Entry(x, n, t)>>, H)
    BY LastOfOne
<1>4. CASE t = Master
    BY <1>2, <1>3, <1>4, MasterWalkLast
<1>5. CASE t # Master
  <2>1. ~NoneIn(SubWalk(t), H)
    BY <1>2, <1>3, SubWalkLast
  <2>2. PICK k \in 1..Len(tocs[Master]) : tocs[Master][k] = SubTocRecord(t)
    BY <1>5 DEF Linked
  <2>3. tocs[Master][k].tag = "TOC_SUB_TOC" /\ tocs[Master][k].path = t
    BY <2>2, RecordTags
  <2>4. EntriesOf(Master, tocs[Master][k], SubWalk(tocs[Master][k].path)) = SubWalk(t)
    BY <1>5, <2>3, OtherEntries DEF TocFiles
  <2> QED
    BY <2>1, <2>4, MasterWalkLast
<1> QED
    BY <1>4, <1>5

(* The last hit of the walk of a sub-toc is a record after which the sub-toc has no other. *)
LEMMA SubWalkOrigin ==
    ASSUME TypeOK, RecordsWritten, NEW t \in TocFiles, NEW H, NEW e, LastIn(SubWalk(t), H, e)
    PROVE  /\ e \in H
           /\ \E i \in 1..Len(tocs[t]) :
                 /\ tocs[t][i] = IndexRecord(e.path, e.offset)
                 /\ \A j \in 1..Len(tocs[t]) : i < j /\ tocs[t][j].tag = "TOC_INDEX" =>
                        Entry(tocs[t][j].path, tocs[t][j].offset, t) \notin H
<1>1. \A i \in 1..Len(tocs[t]) : tocs[t][i] \in TocRecords
    BY DEF TypeOK
<1>2. \A i \in 1..Len(tocs[t]) : tocs[t][i].tag = "TOC_INDEX" => tocs[t][i].offset # 0
  <2>1. \A n : 0 \notin 1..n
    OBVIOUS
  <2> QED
    BY <2>1 DEF RecordsWritten
<1>3. PICK i \in 1..Len(tocs[t]) :
         /\ LastIn(EntriesOf(t, tocs[t][i], << >>), H, e)
         /\ \A j \in 1..Len(tocs[t]) : i < j =>
               NoneIn(EntriesOf(t, tocs[t][j], << >>), H)
    BY SubWalkLast
<1>4. tocs[t][i].tag = "TOC_INDEX"
    BY <1>3, OtherEntries, LastOfNone
<1>5. EntriesOf(t, tocs[t][i], << >>) = <<Entry(tocs[t][i].path, tocs[t][i].offset, t)>>
    BY <1>2, <1>4, IndexEntries
<1>6. e = Entry(tocs[t][i].path, tocs[t][i].offset, t) /\ e \in H
  <2>1. PICK x : x = Entry(tocs[t][i].path, tocs[t][i].offset, t)
    OBVIOUS
  <2>2. LastIn(<<x>>, H, e)
    BY <1>3, <1>5, <2>1
  <2>3. e = x /\ x \in H
    BY ONLY <2>2, LastOfOne
  <2> QED
    BY <2>1, <2>3
<1>7. tocs[t][i] = IndexRecord(e.path, e.offset)
    BY <1>1, <1>4, <1>6, RecordKinds DEF Entry
<1>8. ASSUME NEW j \in 1..Len(tocs[t]), i < j, tocs[t][j].tag = "TOC_INDEX"
      PROVE  Entry(tocs[t][j].path, tocs[t][j].offset, t) \notin H
  <2>1. EntriesOf(t, tocs[t][j], << >>) = <<Entry(tocs[t][j].path, tocs[t][j].offset, t)>>
    BY <1>2, <1>8, IndexEntries
  <2> QED
    BY <1>3, <1>8, <2>1, LastOfOne
<1>9. \A j \in 1..Len(tocs[t]) : i < j /\ tocs[t][j].tag = "TOC_INDEX" =>
          Entry(tocs[t][j].path, tocs[t][j].offset, t) \notin H
    BY <1>8
<1>10. e \in H
    BY <1>6
<1> QED
    BY ONLY i \in 1..Len(tocs[t]), <1>7, <1>9, <1>10

(***************************************************************************)
(* The last hit of the walk is a record after which its toc has no other.  *)
(***************************************************************************)
LEMMA LastHasOrigin ==
    ASSUME TypeOK, RecordsWritten, NEW H, NEW e, LastIn(MasterWalk, H, e)
    PROVE  /\ e \in H
           /\ \E t \in TocFiles : \E k \in 1..Len(tocs[t]) :
                 /\ tocs[t][k] = IndexRecord(e.path, e.offset)
                 /\ \A j \in 1..Len(tocs[t]) : k < j /\ tocs[t][j].tag = "TOC_INDEX" =>
                        Entry(tocs[t][j].path, tocs[t][j].offset, t) \notin H
<1>1. \A t \in TocFiles : \A i \in 1..Len(tocs[t]) : tocs[t][i] \in TocRecords
    BY DEF TypeOK
<1>2. \A t \in TocFiles : \A i \in 1..Len(tocs[t]) :
          tocs[t][i].tag = "TOC_INDEX" => tocs[t][i].offset # 0
  <2>1. \A n : 0 \notin 1..n
    OBVIOUS
  <2> QED
    BY <2>1 DEF RecordsWritten
<1>3. Master \in TocFiles /\ Procs \subseteq TocFiles
    BY DEF TocFiles
<1>4. PICK k \in 1..Len(tocs[Master]) :
          /\ LastIn(EntriesOf(Master, tocs[Master][k], SubWalk(tocs[Master][k].path)), H, e)
          /\ \A j \in 1..Len(tocs[Master]) : k < j =>
                NoneIn(EntriesOf(Master, tocs[Master][j], SubWalk(tocs[Master][j].path)), H)
    BY MasterWalkLast
<1>5. CASE tocs[Master][k].tag = "TOC_INDEX"
  <2>1. EntriesOf(Master, tocs[Master][k], SubWalk(tocs[Master][k].path))
          = <<Entry(tocs[Master][k].path, tocs[Master][k].offset, Master)>>
    BY <1>2, <1>3, <1>5, IndexEntries
  <2>2. e = Entry(tocs[Master][k].path, tocs[Master][k].offset, Master) /\ e \in H
    <3>1. LastIn(<<Entry(tocs[Master][k].path, tocs[Master][k].offset, Master)>>, H, e)
        BY <1>4, <2>1
    <3> QED
        BY ONLY <3>1, LastOfOne
  <2>3. tocs[Master][k] = IndexRecord(e.path, e.offset)
    BY <1>1, <1>3, <1>5, <2>2, RecordKinds DEF Entry
  <2>4. ASSUME NEW j \in 1..Len(tocs[Master]), k < j, tocs[Master][j].tag = "TOC_INDEX"
        PROVE  Entry(tocs[Master][j].path, tocs[Master][j].offset, Master) \notin H
    <3>1. EntriesOf(Master, tocs[Master][j], SubWalk(tocs[Master][j].path))
            = <<Entry(tocs[Master][j].path, tocs[Master][j].offset, Master)>>
        BY <1>2, <1>3, <2>4, IndexEntries
    <3> QED
        BY <1>4, <2>4, <3>1, LastOfOne
  <2> QED
    BY <1>3, <2>2, <2>3, <2>4
<1>6. CASE tocs[Master][k].tag # "TOC_INDEX"
  <2> DEFINE t == tocs[Master][k].path
  <2>1. EntriesOf(Master, tocs[Master][k], SubWalk(tocs[Master][k].path)) # << >>
    BY <1>4, LastOfNone
  <2>2. t \in TocFiles /\ LastIn(SubWalk(t), H, e)
    BY <1>1, <1>3, <1>4, <1>6, <2>1, OtherEntries, RecordKinds
  <2> HIDE DEF t
  <2> QED
    BY <2>2, SubWalkOrigin
<1> QED
    BY <1>5, <1>6

-----------------------------------------------------------------------------
(* What the invariant implies. *)

(* A location on disk holds what was written there. *)
LEMMA DurableIsWritten ==
    ASSUME TypeOK, NEW d \in DataFiles, NEW k \in 1..Len(data[d])
    PROVE  /\ Written(d) \in Seq(Values)
           /\ k \in 1..Len(Written(d)) /\ Written(d)[k] = data[d][k]
           /\ data[d][k] \in Values
<1>1. data[d] \in Seq(Values) /\ buf[d] \in Seq(Values)
    BY DEF TypeOK
<1>3. PICK s \in Seq(Values), t \in Seq(Values) : s = data[d] /\ t = buf[d]
    BY <1>1
<1>5. Written(d) = s \o t
    BY <1>3 DEF Written
<1>6. /\ s \o t \in Seq(Values)
      /\ Len(s) <= Len(s \o t)
      /\ \A i \in 1..Len(s) : (s \o t)[i] = s[i]
    BY ConcatExtends
<1>4. /\ Written(d) \in Seq(Values)
      /\ Len(data[d]) <= Len(Written(d))
      /\ \A i \in 1..Len(data[d]) : Written(d)[i] = data[d][i]
    BY <1>3, <1>5, <1>6
<1> QED
    BY <1>1, <1>4

(* The index files of a process and a key. *)
LEMMA IndexFileNames ==
    ASSUME NEW x \in IndexFiles
    PROVE  /\ x[1] \in Procs /\ x[2] \in IndexKeys /\ DataOf(x) \in DataFiles
           /\ DataOf(x) = <<x[1], x[2]>>
           /\ \/ x[3] = "part" /\ x = Part(x[1], x[2])
              \/ x[3] = "full" /\ x = Full(x[1], x[2])
BY DEF IndexFiles, DataFiles, DataOf, Part, Full

(***************************************************************************)
(* The invariants say that a flushed field can be retrieved.               *)
(***************************************************************************)
LEMMA FlushInvImpliesRetrievable ==
    ASSUME Inv, FlushInv
    PROVE  FlushedIsRetrievable
<1> SUFFICES ASSUME NEW v \in acked
             PROVE  /\ Retrieve(v.ik, v.fk) \in Values
                    /\ Retrieve(v.ik, v.fk).ik = v.ik /\ Retrieve(v.ik, v.fk).fk = v.fk
                    /\ Retrieve(v.ik, v.fk).proc = v.proc => Retrieve(v.ik, v.fk).n >= v.n
    BY DEF FlushedIsRetrievable
<1>0. /\ TypeOK /\ SectionsDurable /\ RecordsWritten
      /\ ValuesOrdered /\ TreesOrdered /\ RecordsPlaced /\ SubTocLinked /\ FullProgress /\ Accounted
    BY DEF Inv, WriteOrder, FlushInv
<1>1. /\ v \in Values /\ v.proc \in Procs /\ v.ik \in IndexKeys /\ v.fk \in FieldKeys /\ v.n \in Nat
    BY <1>0 DEF TypeOK, Values
<1> DEFINE p == v.proc
           ik == v.ik
           fk == v.fk
           H == Hits(ik, fk)
<1>2. PICK x : x = Part(p, ik)
    OBVIOUS
<1>3. x \in IndexFiles /\ x[1] = p /\ x[2] = ik /\ x[3] = "part" /\ DataOf(x) = <<p, ik>>
  <2>1. \A q \in Procs, k \in IndexKeys :
            /\ Part(q, k) \in IndexFiles /\ Part(q, k)[1] = q /\ Part(q, k)[2] = k
            /\ Part(q, k)[3] = "part" /\ DataOf(Part(q, k)) = <<q, k>>
    BY DEF IndexFiles, Part, DataOf
  <2> QED
    BY <1>1, <1>2, <2>1
<1>4. PICK s \in 1..Len(sections[x]) : Recorded(x, s) /\ Covers(sections[x][s], v)
    BY <1>0, <1>2 DEF Accounted, Published
<1>5. PICK t : t = HomeToc(p) /\ t \in TocFiles
    BY <1>1, Names DEF HomeToc
<1>6. PICK i \in 1..Len(tocs[t]) : tocs[t][i] = IndexRecord(x, s)
    BY <1>3, <1>4, <1>5 DEF Recorded
<1>7. s \in Nat \ {0} /\ Entry(x, s, t) \in H
    BY <1>1, <1>3, <1>4, <1>5 DEF Hits, FoundEntries, Entry, Has, Covers
<1>8. ~NoneIn(MasterWalk, H)
  <2>1. CASE p \notin SubTocProcs
    <3>1. t = Master
        BY <1>5, <2>1 DEF HomeToc
    <3> QED
        BY <1>0, <1>3, <1>6, <1>7, <3>1, EntryFound, <1>5
  <2>2. CASE p \in SubTocProcs /\ <<p, 0>> \notin maskedEntries(tocs[Master])
    <3>1. t = p
        BY <1>5, <2>2 DEF HomeToc
    <3>2. Linked(p)
        BY <1>0, <1>1, <1>2, <1>4, <2>2 DEF SubTocLinked
    <3> QED
        BY <1>0, <1>3, <1>5, <1>6, <1>7, <2>2, <3>1, <3>2, EntryFound
  <2>3. CASE p \in SubTocProcs /\ <<p, 0>> \in maskedEntries(tocs[Master])
    <3>0. Master \in TocFiles
        BY DEF TocFiles
    <3>1. pc[p] = "closed" /\ subToc[p]
      <4>1. PICK j \in 1..Len(tocs[Master]) : tocs[Master][j].tag = "TOC_CLEAR" /\ tocs[Master][j].path = p
        BY <1>0, <2>3, <3>0, MasksAreOfSubTocs
      <4> QED
        BY <1>0, <3>0, <4>1 DEF RecordsPlaced
    <3>2. PICK y : y = Full(p, ik)
        OBVIOUS
    <3>3. y \in IndexFiles /\ y[1] = p /\ y[2] = ik
      <4>1. \A q \in Procs, k \in IndexKeys :
                Full(q, k) \in IndexFiles /\ Full(q, k)[1] = q /\ Full(q, k)[2] = k
        BY DEF IndexFiles, Full
      <4> QED
        BY <1>1, <3>2, <4>1
    <3>4. btree[y][fk] # NoField
        BY <1>0, <1>1, <2>3, <3>1, <3>2 DEF Accounted, Covers
    <3>5. btree[y] # EmptyTree
        BY <1>1, <3>4 DEF EmptyTree
    <3>6. ~ixDirty[y] /\ y \in toPublish[p]
        BY <1>0, <1>1, <3>1, <3>2, <3>5 DEF FullProgress, BlockOf, FullOf
    <3>7. sections[y] # << >> /\ sections[y][1] = btree[y]
        BY <1>0, <1>1, <3>1, <3>2, <3>6 DEF FullProgress, BlockOf, FullOf
    <3>8. PICK j \in 1..Len(tocs[Master]) : tocs[Master][j] = IndexRecord(y, 1)
        BY <1>0, <1>1, <3>1, <3>2, <3>6 DEF FullProgress, BlockOf, FullOf
    <3>9. Entry(y, 1, Master) \in H
      <4>1. sections[y] \in Seq(Entries) /\ 1 \in DOMAIN sections[y]
        BY <1>0, <3>3, <3>7 DEF TypeOK
      <4> QED
        BY <1>1, <3>0, <3>3, <3>4, <3>7, <4>1 DEF Hits, FoundEntries, Entry, Has
    <3>10. 1 \in Nat \ {0}
        OBVIOUS
    <3> HIDE DEF H
    <3> QED
        BY ONLY <1>0, <3>0, <3>3, <3>8, <3>9, <3>10, EntryFound
  <2> QED
    BY <2>1, <2>2, <2>3
<1>9. PICK e \in FoundEntries :
          LastIn(MasterWalk, H, e) /\ Retrieve(ik, fk) = ReadAt(sections[e.path][e.offset][fk])
    BY <1>0, <1>1, <1>8, RetrieveReadsLast
<1>10. /\ e \in H
       /\ \E u \in TocFiles : \E k \in 1..Len(tocs[u]) :
             /\ tocs[u][k] = IndexRecord(e.path, e.offset)
             /\ \A j \in 1..Len(tocs[u]) : k < j /\ tocs[u][j].tag = "TOC_INDEX" =>
                    Entry(tocs[u][j].path, tocs[u][j].offset, u) \notin H
  <2> HIDE DEF H
  <2> QED
    BY <1>0, <1>9, LastHasOrigin
<1>23. PICK u \in TocFiles : \E k \in 1..Len(tocs[u]) :
             /\ tocs[u][k] = IndexRecord(e.path, e.offset)
             /\ \A j \in 1..Len(tocs[u]) : k < j /\ tocs[u][j].tag = "TOC_INDEX" =>
                    Entry(tocs[u][j].path, tocs[u][j].offset, u) \notin H
    BY <1>10
<1>11. PICK k \in 1..Len(tocs[u]) :
             /\ tocs[u][k] = IndexRecord(e.path, e.offset)
             /\ \A j \in 1..Len(tocs[u]) : k < j /\ tocs[u][j].tag = "TOC_INDEX" =>
                    Entry(tocs[u][j].path, tocs[u][j].offset, u) \notin H
    BY <1>23
<1>12. PICK y \in IndexFiles, n \in Nat : y = e.path /\ n = e.offset
    BY DEF FoundEntries
<1>13. /\ y[2] = ik /\ n \in 1..Len(sections[y]) /\ sections[y][n][fk] # NoField
       /\ tocs[u][k].tag = "TOC_INDEX" /\ tocs[u][k].path = y /\ tocs[u][k].offset = n
  <2>1. sections[y] \in Seq(Entries)
    BY <1>0 DEF TypeOK
  <2>2. y[2] = ik /\ Has(e, fk)
    BY <1>10, <1>12 DEF Hits
  <2> QED
    BY <1>11, <1>12, <2>1, <2>2 DEF Has, IndexRecord
<1>14. PICK loc : loc = sections[y][n][fk]
    OBVIOUS
<1>15. /\ loc.file = <<y[1], ik>> /\ <<y[1], ik>> \in DataFiles /\ y[1] \in Procs
       /\ loc.pos \in 1..Len(data[<<y[1], ik>>])
       /\ data[<<y[1], ik>>][loc.pos].ik = ik /\ data[<<y[1], ik>>][loc.pos].fk = fk
  <2>1. loc.file = DataOf(y) /\ Durable(loc, y[2], fk)
    BY <1>0, <1>1, <1>13, <1>14 DEF SectionsDurable
  <2>2. DataOf(y) = <<y[1], ik>> /\ DataOf(y) \in DataFiles /\ y[1] \in Procs
    BY <1>13, IndexFileNames
  <2> QED
    BY <2>1, <2>2, <1>13 DEF Durable
<1>16. PICK d \in DataFiles : d = <<y[1], ik>>
    BY <1>15
<1>17. PICK r : r = data[d][loc.pos]
    OBVIOUS
<1>18. Retrieve(ik, fk) = r /\ r \in Values /\ r.ik = ik /\ r.fk = fk
  <2>1. data[d] \in Seq(Values)
    BY <1>0 DEF TypeOK
  <2>2. Retrieve(ik, fk) = ReadAt(loc)
    BY <1>9, <1>12, <1>14
  <2> QED
    BY <1>15, <1>16, <1>17, <2>1, <2>2 DEF ReadAt
<1>19. ASSUME r.proc = p PROVE r.n >= v.n
  <2>1. /\ loc.pos \in 1..Len(Written(d)) /\ Written(d)[loc.pos] = r
        /\ Written(d) \in Seq(Values)
    <3>1. loc.pos \in 1..Len(data[d])
        BY <1>15, <1>16
    <3> QED
        BY ONLY <1>0, <1>17, <3>1, d \in DataFiles, DurableIsWritten
  <2>2. r.proc = y[1]
    BY <1>0, <1>16, <2>1 DEF ValuesOrdered
  <2>3. y[1] = p /\ d = <<p, ik>>
    BY <1>16, <1>19, <2>2
  <2>4. CASE y[3] = "part"
    <3>1. y = x
        BY <1>2, <1>13, <2>3, <2>4, IndexFileNames
    <3>2. u = t
        BY <1>0, <1>5, <1>13, <2>3, <2>4 DEF RecordsPlaced, IndexRecordPlaced
    <3>3. s <= n
      <4>1. tocs[t][i].tag = "TOC_INDEX" /\ tocs[t][i].path = x /\ tocs[t][i].offset = s
        BY <1>6 DEF IndexRecord
      <4>2. ~(k < i)
        BY <1>7, <1>11, <3>2, <4>1
      <4>3. i < k => s < n
        BY <1>0, <1>3, <1>5, <1>13, <3>1, <3>2, <4>1 DEF RecordsPlaced, IndexRecordPlaced
      <4>4. i = k => s = n
        BY <1>13, <3>2, <4>1
      <4>5. Len(tocs[t]) \in Nat
        BY <1>0, <1>5 DEF TypeOK
      <4> QED
        BY <1>7, <3>2, <4>2, <4>3, <4>4, <4>5
    <3>4. PICK old : old = sections[x][s][fk]
        OBVIOUS
    <3>5. /\ old # NoField /\ Written(d)[old.pos].n >= v.n
        BY <1>4, <2>3, <3>4 DEF Covers
    <3>6. old.pos \in 1..Len(data[d])
      <4>1. Durable(old, x[2], fk) /\ old.file = DataOf(x)
        BY <1>0, <1>1, <1>3, <1>4, <3>4, <3>5 DEF SectionsDurable
      <4> QED
        BY <1>3, <2>3, <4>1 DEF Durable
    <3>7. old.pos <= loc.pos
      <4>1. s < n => sections[x][s][fk].pos <= sections[x][n][fk].pos
        BY <1>0, <1>1, <1>3, <1>4, <1>13, <3>1, <3>4, <3>5 DEF TreesOrdered
      <4>2. s = n => old = loc
        BY <1>14, <3>1, <3>4
      <4> QED
        BY <1>7, <1>14, <3>1, <3>3, <3>4, <3>6, <4>1, <4>2
    <3>8. old.pos \in 1..Len(Written(d)) /\ Written(d)[old.pos] \in Values
        BY <1>0, <2>1, <3>6, DurableIsWritten
    <3>9. Written(d)[old.pos].n <= Written(d)[loc.pos].n
      <4>1. old.pos < loc.pos \/ old.pos = loc.pos
        BY <2>1, <3>7, <3>8
      <4>2. old.pos < loc.pos => Written(d)[old.pos].n < Written(d)[loc.pos].n
        BY <1>0, <2>1, <3>8 DEF ValuesOrdered
      <4>3. \A w \in Values : w.n \in Nat
        BY DEF Values
      <4> QED
        BY <1>18, <2>1, <3>8, <4>1, <4>2, <4>3
    <3>10. \A w \in Values : w.n \in Nat
        BY DEF Values
    <3> QED
        BY <1>1, <1>18, <2>1, <3>5, <3>8, <3>9, <3>10, SMTT(30)
  <2>5. CASE y[3] = "full"
    <3>1. y = Full(p, ik)
        BY <1>13, <2>3, <2>5, IndexFileNames
    <3>2. n = 1 /\ pc[p] = "closed" /\ subToc[p] /\ y \in toPublish[p]
        BY <1>0, <1>13, <2>3, <2>5 DEF RecordsPlaced, IndexRecordPlaced
    <3>3. sections[y][1] = btree[y]
        BY <1>0, <1>1, <3>1, <3>2 DEF FullProgress, BlockOf, FullOf
    <3>4. p \in SubTocProcs
        BY <1>0, <1>1, <3>2 DEF SubTocLinked
    <3>5. Covers(btree[y], v)
        BY <1>0, <3>1, <3>2, <3>4 DEF Accounted
    <3> QED
        BY <1>14, <2>1, <2>3, <3>2, <3>3, <3>5 DEF Covers
  <2> QED
    BY <2>4, <2>5, IndexFileNames
<1> QED
    BY <1>18, <1>19

-----------------------------------------------------------------------------
(* Steps without a write error: what never goes back, and the fields in the data files. *)

(* The actions when no write fails. *)
LEMMA NextNoErrors ==
    ASSUME [Next]_vars, ~IOErrors
    PROVE  \/ UNCHANGED vars
           \/ \E p \in Procs : \/ OpenToc(p) \/ CopySchema(p) \/ WriteInit(p)
                                \/ Flush(p) \/ Close(p) \/ StoreFlushed(p)
                                \/ NewSubToc(p) \/ LinkSubToc(p) \/ WriteIndex(p)
                                \/ CatalogueFlushed(p) \/ Compact(p) \/ NothingToCompact(p)
                                \/ Crash(p)
           \/ \E p \in Procs, ik \in IndexKeys :
                \/ Spill(p, ik) \/ FlushHandle(p, ik) \/ FlushIndex(p, ik) \/ FlushFull(p, ik)
                \/ \E fk \in FieldKeys : Archive(p, ik, fk)
BY NextCases DEF WriteFails

(***************************************************************************)
(* What never goes back: a closed process stays closed, a sub-toc stays in *)
(* place, the block of a compaction only grows, sections are left behind.  *)
(***************************************************************************)
Forward ==
    /\ \A p \in Procs : /\ pc[p] = "closed" => pc'[p] = "closed"
                        /\ subToc[p] => subToc'[p]
                        /\ toPublish[p] \subseteq toPublish'[p]
    /\ \A x \in IndexFiles : ixOffset[x] <= ixOffset'[x]
    /\ count <= count'

(* Every step goes forward. *)
LEMMA NextForward ==
    ASSUME Inv, [Next]_vars, ~IOErrors
    PROVE  Forward
<1>0. TypeOK /\ OffsetsWritten
    BY DEF Inv, WriteOrder
<1>1. /\ pc \in [Procs -> PCs] /\ subToc \in [Procs -> BOOLEAN]
      /\ toPublish \in [Procs -> SUBSET IndexFiles] /\ ixOffset \in [IndexFiles -> Nat]
      /\ count \in Nat
    BY <1>0, ArchiveAssumption DEF TypeOK
<1>2. \A n \in Nat : n <= n /\ n <= n + 1
    OBVIOUS
<1>3. CASE UNCHANGED vars
    BY <1>1, <1>2, <1>3 DEF Forward, vars, memory, history
<1>4. ASSUME NEW p \in Procs,
             \/ OpenToc(p) \/ CopySchema(p) \/ WriteInit(p) \/ Flush(p) \/ Close(p)
             \/ StoreFlushed(p) \/ LinkSubToc(p) \/ CatalogueFlushed(p) \/ Compact(p)
             \/ NothingToCompact(p) \/ Crash(p)
      PROVE  Forward
  <2>1. /\ UNCHANGED <<subToc, toPublish, ixOffset, count>>
        /\ pc[p] # "closed" /\ \E l \in PCs : pc' = [pc EXCEPT ![p] = l]
    BY <1>4 DEF OpenToc, CopySchema, WriteInit, Flush, Close, StoreFlushed, LinkSubToc,
        CatalogueFlushed, Compact, NothingToCompact, Crash, Goto, PCs, history
  <2> QED
    BY <1>1, <1>2, <2>1 DEF Forward
<1>5. ASSUME NEW p \in Procs, NewSubToc(p) PROVE Forward
    BY <1>1, <1>2, <1>5 DEF Forward, NewSubToc, Goto, history
<1>6. ASSUME NEW p \in Procs, WriteIndex(p) PROVE Forward
  <2>1. PICK x \in IndexFiles : x = Part(p, current[p])
    BY <1>0, <1>6, Names DEF WriteIndex, OffsetsWritten
  <2>2. /\ ixOffset' = [ixOffset EXCEPT ![x] = Len(sections[x]) + 1]
        /\ ixOffset[x] <= Len(sections[x]) /\ Len(sections[x]) \in Nat
    BY <1>0, <1>6, <2>1 DEF WriteIndex, OffsetsWritten, TypeOK
  <2>3. /\ UNCHANGED <<subToc, toPublish, count>>
        /\ pc[p] # "closed" /\ pc' = [pc EXCEPT ![p] = "flushIndexes"]
    BY <1>6 DEF WriteIndex, Goto, history
  <2> QED
    BY <1>1, <1>2, <2>2, <2>3 DEF Forward
<1>7. ASSUME NEW p \in Procs, NEW ik \in IndexKeys,
             \/ Spill(p, ik) \/ FlushHandle(p, ik) \/ FlushIndex(p, ik) \/ FlushFull(p, ik)
             \/ \E fk \in FieldKeys : Archive(p, ik, fk)
      PROVE  Forward
  <2>1. /\ UNCHANGED <<subToc, ixOffset>> /\ (count' = count \/ count' = count + 1)
        /\ toPublish' = toPublish
           \/ \E x : toPublish' = [toPublish EXCEPT ![p] = toPublish[p] \cup {x}]
        /\ pc' = pc \/ (pc[p] # "closed" /\ \E l \in PCs : pc' = [pc EXCEPT ![p] = l])
    BY <1>7 DEF Spill, FlushHandle, FlushIndex, FlushFull, Archive, Goto, PCs, files, history
  <2> QED
    BY <1>1, <1>2, <2>1 DEF Forward
<1> QED
    BY <1>3, <1>4, <1>5, <1>6, <1>7, NextNoErrors

(* Which actions write data and what else the owners of buffers do. *)
LEMMA WhoWritesData ==
    ASSUME [Next]_vars, ~IOErrors
    PROVE  \/ UNCHANGED <<data, buf, count>>
           \/ \E p \in Procs : Crash(p)
           \/ \E p \in Procs, ik \in IndexKeys :
                Spill(p, ik) \/ FlushHandle(p, ik) \/ \E fk \in FieldKeys : Archive(p, ik, fk)
<1>1. ASSUME NEW p \in Procs,
             \/ OpenToc(p) \/ CopySchema(p) \/ WriteInit(p) \/ Flush(p) \/ Close(p)
             \/ StoreFlushed(p) \/ NewSubToc(p) \/ LinkSubToc(p) \/ WriteIndex(p)
             \/ CatalogueFlushed(p) \/ Compact(p) \/ NothingToCompact(p)
      PROVE  UNCHANGED <<data, buf, count>>
    BY <1>1 DEF files, history, OpenToc, CopySchema, WriteInit, Flush, Close, StoreFlushed,
        NewSubToc, LinkSubToc, WriteIndex, CatalogueFlushed, Compact, NothingToCompact
<1>2. ASSUME NEW p \in Procs, NEW ik \in IndexKeys, FlushIndex(p, ik) \/ FlushFull(p, ik)
      PROVE  UNCHANGED <<data, buf, count>>
    BY <1>2 DEF history, FlushIndex, FlushFull
<1>3. UNCHANGED vars => UNCHANGED <<data, buf, count>>
    BY DEF vars, files, memory, history
<1> QED
    BY <1>1, <1>2, <1>3, NextNoErrors

(***************************************************************************)
(* How what has been archived into a data file changes in a step: by one   *)
(* field at its end, or down to what is on disk when its owner crashes.    *)
(***************************************************************************)
WrittenStep(d) ==
    /\ \A i \in 1..Len(Written(d)') :
          \/ i \in 1..Len(Written(d)) /\ Written(d)'[i] = Written(d)[i]
          \/ /\ i = Len(Written(d)) + 1 /\ i = Len(Written(d)') /\ count' = count + 1
             /\ Written(d)'[i].proc = d[1] /\ Written(d)'[i].ik = d[2] /\ Written(d)'[i].n = count'
    /\ \A i \in 1..Len(Written(d)) :
          i \in 1..Len(data[d]) \/ pc'[d[1]] # "crashed" \/ pc[d[1]] = "crashed" =>
              i \in 1..Len(Written(d)') /\ Written(d)'[i] = Written(d)[i]

(* Every step does that to the fields of a data file. *)
LEMMA NextWritten ==
    ASSUME Inv, [Next]_vars, ~IOErrors, NEW d \in DataFiles
    PROVE  WrittenStep(d)
<1>0. TypeOK /\ TypeOK'
    BY NextTypeOK DEF Inv
<1>1. CASE Written(d)' = Written(d)
    BY <1>1 DEF WrittenStep
<1>2. CASE UNCHANGED <<data, buf, count>>
    BY <1>1, <1>2 DEF Written
<1>3. ASSUME NEW p \in Procs, NEW ik \in IndexKeys, Spill(p, ik) \/ FlushHandle(p, ik)
      PROVE  WrittenStep(d)
    BY <1>0, <1>1, <1>3, DataGrows DEF Written
<1>4. ASSUME NEW p \in Procs, Crash(p) PROVE WrittenStep(d)
  <2>1. data' = data /\ buf'[d] = (IF d[1] = p THEN << >> ELSE buf[d])
    BY <1>4 DEF Crash, files
  <2>2. CASE d[1] # p
    BY <1>1, <2>1, <2>2 DEF Written
  <2>3. CASE d[1] = p
    <3>1. PICK s \in Seq(Values) : s = data[d]
        BY <1>0 DEF TypeOK
    <3>2. PICK w : w = Written(d)
        OBVIOUS
    <3>3. Len(w) \in Nat /\ Len(s) \in Nat /\ \A i \in 1..Len(s) : i \in 1..Len(w) /\ w[i] = s[i]
        BY <1>0, <3>1, <3>2, DurableIsWritten
    <3>4. Written(d)' = s
        BY <2>1, <2>3, <3>1, ConcatEmptySeq DEF Written
    <3>5. pc'[d[1]] = "crashed" /\ pc[d[1]] # "crashed"
        BY <1>0, <1>4, <2>3 DEF Crash, Goto, TypeOK
    <3> QED
        BY <3>1, <3>2, <3>3, <3>4, <3>5 DEF WrittenStep
  <2> QED
    BY <2>2, <2>3
<1>5. ASSUME NEW p \in Procs, NEW ik \in IndexKeys, NEW fk \in FieldKeys, Archive(p, ik, fk)
      PROVE  WrittenStep(d)
  <2> DEFINE e == <<p, ik>>
             v == [proc |-> p, ik |-> ik, fk |-> fk, n |-> count + 1]
  <2>1. data' = data /\ buf' = [buf EXCEPT ![e] = Append(buf[e], v)] /\ count' = count + 1
    BY <1>5 DEF Archive, files
  <2>2. e \in DataFiles /\ v \in Values
    <3>1. count + 1 \in 1..MaxArchives
        BY <1>0, <1>5, ArchiveAssumption DEF TypeOK, Archive
    <3> QED
        BY <3>1, Names DEF Values
  <2>3. CASE d # e
    BY <1>0, <1>1, <2>1, <2>3 DEF Written, TypeOK
  <2>4. CASE d = e
    <3>1. PICK s \in Seq(Values) : s = data[d]
        BY <1>0 DEF TypeOK
    <3>2. PICK t \in Seq(Values) : t = buf[d]
        BY <1>0 DEF TypeOK
    <3>3. s \o t \in Seq(Values) /\ s \o Append(t, v) = Append(s \o t, v)
        BY <2>2, AppendToConcat
    <3>4. PICK w \in Seq(Values) : w = s \o t
        BY <3>3
    <3>5. Written(d) = w /\ Written(d)' = Append(w, v)
      <4>1. buf'[d] = Append(t, v)
        BY <1>0, <2>1, <2>4, <3>2 DEF TypeOK
      <4> QED
        BY <2>1, <3>1, <3>2, <3>3, <3>4, <4>1 DEF Written
    <3>6. /\ Len(Append(w, v)) = Len(w) + 1 /\ Len(w) \in Nat
          /\ \A i \in 1..Len(w) : Append(w, v)[i] = w[i]
          /\ Append(w, v)[Len(w) + 1] = v
        BY <2>2, AppendProperties
    <3>7. v.proc = d[1] /\ v.ik = d[2] /\ v.n = count'
        BY <2>1, <2>4
    <3> HIDE DEF v, e
    <3> QED
        BY <2>1, <3>5, <3>6, <3>7 DEF WrittenStep
  <2> QED
    BY <2>3, <2>4
<1> QED
    BY <1>2, <1>3, <1>4, <1>5, WhoWritesData

(* The fields of a data file stay in the order in which they were archived. *)
LEMMA NextValues ==
    ASSUME Inv, ValuesOrdered, [Next]_vars, ~IOErrors
    PROVE  ValuesOrdered'
<1> SUFFICES ASSUME NEW d \in DataFiles, NEW i \in 1..Len(Written(d)')
             PROVE  /\ Written(d)'[i].proc = d[1] /\ Written(d)'[i].ik = d[2]
                    /\ Written(d)'[i].n <= count'
                    /\ \A j \in 1..Len(Written(d)') : i < j => Written(d)'[i].n < Written(d)'[j].n
    BY DEF ValuesOrdered
<1>1. WrittenStep(d) /\ count <= count' /\ count \in Nat /\ count' \in Nat
    BY NextWritten, NextForward, NextTypeOK, ArchiveAssumption, SMTT(30) DEF Forward, Inv, TypeOK
<1>2. /\ Written(d) \in Seq(Values) /\ Len(Written(d)) \in Nat
      /\ \A k \in 1..Len(Written(d)) : Written(d)[k].n \in Nat
  <2>1. TypeOK
    BY DEF Inv
  <2>2. data[d] \in Seq(Values) /\ buf[d] \in Seq(Values)
    BY <2>1 DEF TypeOK
  <2>3. PICK w \in Seq(Values) : w = Written(d)
    BY <2>2, ConcatProperties DEF Written
  <2>4. \A u \in Values : u.n \in Nat
    BY DEF Values
  <2> QED
    BY <2>3, <2>4
<1>3. ASSUME NEW k \in 1..Len(Written(d))
      PROVE  /\ Written(d)[k].proc = d[1] /\ Written(d)[k].ik = d[2] /\ Written(d)[k].n <= count
             /\ \A j \in 1..Len(Written(d)) : k < j => Written(d)[k].n < Written(d)[j].n
    BY DEF ValuesOrdered
<1> QED
    BY <1>1, <1>2, <1>3, SMTT(30) DEF WrittenStep

-----------------------------------------------------------------------------
(* Steps of the indexes. *)

(* A tree is written at the end of its index file, over its older self if it has one. *)
LEMMA WriteTreeAtEnd ==
    ASSUME TypeOK, NEW x \in IndexFiles, WriteTree(x),
           ixOffset[x] \in 1..Len(sections[x]) + 1, Len(sections[x]) <= ixOffset[x]
    PROVE  /\ Len(sections'[x]) = ixOffset[x] /\ ixOffset[x] \in Nat \ {0}
           /\ sections'[x][ixOffset[x]] = btree[x]
           /\ \A s \in 1..ixOffset[x] : s # ixOffset[x] =>
                 s \in 1..Len(sections[x]) /\ sections'[x][s] = sections[x][s]
           /\ \A s \in 1..Len(sections[x]) : s # ixOffset[x] => s \in 1..ixOffset[x]
           /\ \A y \in IndexFiles : y # x => sections'[y] = sections[y]
<1>1. PICK old \in Seq(Entries) : old = sections[x]
    BY DEF TypeOK
<1>2. PICK n \in Nat : n = ixOffset[x]
    BY DEF TypeOK
<1>3. PICK b \in Entries : b = btree[x]
    BY DEF TypeOK
<1>4. n \in 1..Len(old) + 1 /\ Len(old) <= n /\ Len(old) \in Nat
    BY <1>1, <1>2
<1>5. /\ sections'[x] = IF n <= Len(old) THEN [old EXCEPT ![n] = b] ELSE Append(old, b)
      /\ \A y \in IndexFiles : y # x => sections'[y] = sections[y]
    BY <1>1, <1>2, <1>3 DEF WriteTree, TypeOK
<1>6. CASE n = Len(old)
  <2>1. sections'[x] = [old EXCEPT ![n] = b]
    BY <1>4, <1>5, <1>6
  <2>2. /\ Len([old EXCEPT ![n] = b]) = Len(old) /\ [old EXCEPT ![n] = b][n] = b
        /\ \A s \in 1..n : s # n => [old EXCEPT ![n] = b][s] = old[s]
    BY <1>4, <1>6
  <2> QED
    BY <1>1, <1>2, <1>3, <1>4, <1>5, <1>6, <2>1, <2>2
<1>7. CASE n = Len(old) + 1
  <2>1. sections'[x] = Append(old, b)
    BY <1>4, <1>5, <1>7
  <2>2. /\ Len(Append(old, b)) = n /\ Append(old, b)[n] = b
        /\ \A s \in 1..Len(old) : Append(old, b)[s] = old[s]
    BY <1>7, AppendProperties
  <2> QED
    BY <1>1, <1>2, <1>3, <1>4, <1>5, <1>7, <2>1, <2>2
<1> QED
    BY <1>4, <1>6, <1>7

(* What writes the trees, their sections and the places of these. *)
LEMMA WhoWritesIndexes ==
    ASSUME [Next]_vars, ~IOErrors
    PROVE  \/ UNCHANGED <<btree, sections, ixOffset>>
           \/ \E p \in Procs : WriteIndex(p) \/ Crash(p)
           \/ \E p \in Procs, ik \in IndexKeys :
                FlushIndex(p, ik) \/ FlushFull(p, ik) \/ \E fk \in FieldKeys : Archive(p, ik, fk)
<1>1. ASSUME NEW p \in Procs,
             \/ OpenToc(p) \/ CopySchema(p) \/ WriteInit(p) \/ Flush(p) \/ Close(p)
             \/ StoreFlushed(p) \/ NewSubToc(p) \/ LinkSubToc(p)
             \/ CatalogueFlushed(p) \/ Compact(p) \/ NothingToCompact(p)
      PROVE  UNCHANGED <<btree, sections, ixOffset>>
    BY <1>1 DEF files, history, OpenToc, CopySchema, WriteInit, Flush, Close, StoreFlushed,
        NewSubToc, LinkSubToc, CatalogueFlushed, Compact, NothingToCompact
<1>2. ASSUME NEW p \in Procs, NEW ik \in IndexKeys, Spill(p, ik) \/ FlushHandle(p, ik)
      PROVE  UNCHANGED <<btree, sections, ixOffset>>
    BY <1>2 DEF Spill, FlushHandle
<1>3. UNCHANGED vars => UNCHANGED <<btree, sections, ixOffset>>
    BY DEF vars, files, memory, history
<1> QED
    BY <1>1, <1>2, <1>3, NextNoErrors

(* What archiving a field does to the data file and to the trees. *)
LEMMA ArchiveWritten ==
    ASSUME TypeOK, NEW p \in Procs, NEW ik \in IndexKeys, NEW fk \in FieldKeys, Archive(p, ik, fk),
           NEW d \in DataFiles, d = <<p, ik>>
    PROVE  /\ Len(Written(d)') = Len(Written(d)) + 1
           /\ Len(Written(d)) \in Nat /\ Len(Written(d)) = Len(data[d]) + Len(buf[d])
           /\ Written(d)'[Len(Written(d)) + 1] =
                  [proc |-> p, ik |-> ik, fk |-> fk, n |-> count + 1]
           /\ \A e \in DataFiles : e # d => Written(e)' = Written(e)
<1> DEFINE v == [proc |-> p, ik |-> ik, fk |-> fk, n |-> count + 1]
<1>1. data' = data /\ buf' = [buf EXCEPT ![d] = Append(buf[d], v)]
    BY DEF Archive, files
<1>2. v \in Values
  <2>1. count + 1 \in 1..MaxArchives
    BY ArchiveAssumption DEF TypeOK, Archive
  <2> QED
    BY <2>1 DEF Values
<1>3. PICK s \in Seq(Values) : s = data[d]
    BY DEF TypeOK
<1>4. PICK t \in Seq(Values) : t = buf[d]
    BY DEF TypeOK
<1>5. s \o t \in Seq(Values) /\ s \o Append(t, v) = Append(s \o t, v) /\ Len(s \o t) = Len(s) + Len(t)
    BY <1>2, AppendToConcat, ConcatProperties
<1>6. PICK w \in Seq(Values) : w = s \o t /\ Len(w) = Len(s) + Len(t)
    BY <1>5
<1>7. Written(d) = w /\ Written(d)' = Append(w, v)
  <2>1. buf'[d] = Append(t, v)
    BY <1>1, <1>4 DEF TypeOK
  <2> QED
    BY <1>1, <1>3, <1>4, <1>5, <1>6, <2>1 DEF Written
<1>8. Len(Append(w, v)) = Len(w) + 1 /\ Len(w) \in Nat /\ Append(w, v)[Len(w) + 1] = v
    BY <1>2, AppendProperties
<1>9. \A e \in DataFiles : e # d => Written(e)' = Written(e)
    BY <1>1 DEF Written, TypeOK
<1>10. Len(Written(d)) = Len(data[d]) + Len(buf[d])
    BY <1>3, <1>4, <1>6, <1>7
<1> QED
    BY <1>7, <1>8, <1>9, <1>10

(* Archive points the trees of its index, and no other, at the field it has just written. *)
LEMMA ArchivePuts ==
    ASSUME TypeOK, NEW p \in Procs, NEW ik \in IndexKeys, NEW fk \in FieldKeys, Archive(p, ik, fk),
           NEW d \in DataFiles, d = <<p, ik>>, NEW x \in IndexFiles
    PROVE  /\ x \notin PutInto(p, ik) => btree'[x] = btree[x]
           /\ x \in PutInto(p, ik) =>
                  /\ DataOf(x) = d /\ x[1] = p /\ x[2] = ik /\ btree'[x] # EmptyTree
                  /\ btree'[x][fk].pos = Len(Written(d)) + 1 /\ btree'[x][fk] # NoField
                  /\ \A g \in FieldKeys : g # fk => btree'[x][g] = btree[x][g]
           /\ ixDirty'[x] <=> (ixDirty[x] \/ x \in PutInto(p, ik))
<1> DEFINE loc == [file |-> d, pos |-> Len(data[d]) + Len(buf[d]) + 1]
<1>1. /\ btree'[x] = IF x \in PutInto(p, ik) THEN [btree[x] EXCEPT ![fk] = loc] ELSE btree[x]
      /\ ixDirty'[x] <=> (ixDirty[x] \/ x \in PutInto(p, ik))
    BY DEF Archive
<1>2. PICK n \in Nat : n = Len(Written(d)) /\ n = Len(data[d]) + Len(buf[d])
    BY ArchiveWritten
<1>3. loc = [file |-> d, pos |-> n + 1]
    BY <1>2
<1> HIDE DEF loc
<1>4. loc \in Locations /\ loc # NoField /\ loc.pos = n + 1
    BY <1>3, NoFieldAssumption DEF Locations
<1>5. ASSUME x \in PutInto(p, ik)
      PROVE  /\ DataOf(x) = d /\ x[1] = p /\ x[2] = ik /\ btree'[x] # EmptyTree
             /\ btree'[x][fk] = loc
             /\ \A g \in FieldKeys : g # fk => btree'[x][g] = btree[x][g]
  <2>1. x = Part(p, ik) \/ x = Full(p, ik)
    BY <1>5 DEF PutInto
  <2>2. DataOf(x) = d /\ x[1] = p /\ x[2] = ik
    BY <2>1 DEF Part, Full, DataOf
  <2>3. btree[x] \in [FieldKeys -> Locations \cup {NoField}]
    BY DEF TypeOK, Entries
  <2>4. btree'[x][fk] = loc /\ \A g \in FieldKeys : g # fk => btree'[x][g] = btree[x][g]
    BY <1>1, <1>5, <2>3
  <2>5. btree'[x] # EmptyTree
    BY <1>4, <2>4 DEF EmptyTree
  <2> QED
    BY <2>2, <2>4, <2>5
<1> QED
    BY <1>1, <1>2, <1>4, <1>5

(* The sections of an index, and its open tree, stay in the order of their fields. *)
LEMMA NextTreesOrdered ==
    ASSUME Inv, TreesOrdered, [Next]_vars, ~IOErrors
    PROVE  TreesOrdered'
<1>0. TypeOK /\ OffsetsWritten /\ SectionsDurable
    BY DEF Inv, WriteOrder
<1>1. CASE UNCHANGED <<btree, sections, ixOffset>>
    BY <1>1 DEF TreesOrdered
<1>e. \A fk \in FieldKeys : EmptyTree[fk] = NoField
    BY DEF EmptyTree
<1>2. ASSUME NEW p \in Procs, WriteIndex(p) PROVE TreesOrdered'
  <2>1. PICK x \in IndexFiles : x = Part(p, current[p])
    BY <1>0, <1>2, Names DEF WriteIndex, OffsetsWritten
  <2>2. /\ ixOffset' = [ixOffset EXCEPT ![x] = Len(sections[x]) + 1]
        /\ btree' = [btree EXCEPT ![x] = EmptyTree] /\ sections' = sections
        /\ Len(sections[x]) \in Nat
    BY <1>0, <1>2, <2>1 DEF WriteIndex, TypeOK
  <2>3. \A y \in IndexFiles : /\ y # x => ixOffset'[y] = ixOffset[y] /\ btree'[y] = btree[y]
                              /\ y = x => ixOffset'[y] = Len(sections[y]) + 1 /\ btree'[y] = EmptyTree
    BY <1>0, <2>2 DEF TypeOK
  <2>4. Len(sections[x]) <= Len(sections[x]) + 1
    BY <2>2
  <2> QED
    BY <1>e, <2>2, <2>3, <2>4 DEF TreesOrdered
<1>3. ASSUME NEW p \in Procs, Crash(p) PROVE TreesOrdered'
  <2>1. /\ UNCHANGED <<sections, ixOffset>>
        /\ \A x \in IndexFiles : btree'[x] = btree[x] \/ btree'[x] = EmptyTree
    BY <1>3 DEF Crash, files
  <2> QED
    BY <1>e, <2>1 DEF TreesOrdered
<1>4. ASSUME NEW x \in IndexFiles, WriteTree(x), UNCHANGED <<btree, ixOffset>> PROVE TreesOrdered'
  <2>0. PICK n \in Nat \ {0} : n = ixOffset[x]
    BY <1>0 DEF OffsetsWritten, TypeOK
  <2>1. /\ Len(sections'[x]) = n
        /\ sections'[x][n] = btree[x]
        /\ \A s \in 1..n : s # n => s \in 1..Len(sections[x]) /\ sections'[x][s] = sections[x][s]
        /\ \A y \in IndexFiles : y # x => sections'[y] = sections[y]
    BY <1>0, <1>4, <2>0, WriteTreeAtEnd DEF OffsetsWritten, TreesOrdered
  <2>2. ASSUME NEW fk \in FieldKeys, btree[x][fk] # NoField PROVE btree[x][fk].pos \in Nat
    BY <1>0, <2>2 DEF TypeOK, Entries, Locations
  <2>3. ASSUME NEW fk \in FieldKeys, NEW s \in 1..n, sections'[x][s][fk] # NoField
        PROVE  /\ btree[x][fk] # NoField => sections'[x][s][fk].pos <= btree[x][fk].pos
               /\ \A u \in 1..n : s < u /\ sections'[x][u][fk] # NoField =>
                     sections'[x][s][fk].pos <= sections'[x][u][fk].pos
    <3>1. CASE s = n
        BY <2>1, <2>2, <3>1
    <3>2. CASE s # n
      <4>1. s \in 1..Len(sections[x]) /\ sections'[x][s] = sections[x][s]
        BY <2>1, <3>2
      <4>2. /\ btree[x][fk] # NoField => sections[x][s][fk].pos <= btree[x][fk].pos
            /\ \A u \in 1..Len(sections[x]) : s < u /\ sections[x][u][fk] # NoField =>
                     sections[x][s][fk].pos <= sections[x][u][fk].pos
        BY <2>3, <4>1 DEF TreesOrdered
      <4> QED
        BY <2>1, <4>1, <4>2
    <3> QED
        BY <3>1, <3>2
  <2>4. n <= n
    OBVIOUS
  <2>5. ASSUME NEW y \in IndexFiles
        PROVE  /\ Len(sections'[y]) <= ixOffset'[y]
               /\ \A fk \in FieldKeys : \A s \in 1..Len(sections'[y]) : sections'[y][s][fk] # NoField =>
                     /\ btree'[y][fk] # NoField => sections'[y][s][fk].pos <= btree'[y][fk].pos
                     /\ \A u \in 1..Len(sections'[y]) : s < u /\ sections'[y][u][fk] # NoField =>
                            sections'[y][s][fk].pos <= sections'[y][u][fk].pos
    <3>1. CASE y = x
        BY <1>4, <2>0, <2>1, <2>3, <2>4, <3>1
    <3>2. CASE y # x
        BY <1>4, <2>1, <3>2 DEF TreesOrdered
    <3> QED
        BY <3>1, <3>2
  <2> QED
    BY <2>5 DEF TreesOrdered
<1>5. ASSUME NEW p \in Procs, NEW ik \in IndexKeys, FlushIndex(p, ik) PROVE TreesOrdered'
    BY <1>4, <1>5, Names DEF FlushIndex
<1>6. ASSUME NEW p \in Procs, NEW ik \in IndexKeys, FlushFull(p, ik) PROVE TreesOrdered'
    BY <1>4, <1>6, Names DEF FlushFull
<1>7. ASSUME NEW p \in Procs, NEW ik \in IndexKeys, NEW fk \in FieldKeys, Archive(p, ik, fk)
      PROVE  TreesOrdered'
  <2>1. UNCHANGED <<sections, ixOffset>>
    BY <1>7 DEF Archive, files
  <2>0. PICK d \in DataFiles : d = <<p, ik>>
    BY Names
  <2>2. Len(Written(d)) \in Nat
    BY <1>0, <1>7, <2>0, ArchiveWritten
  <2>5. \A x \in IndexFiles :
           /\ x \notin PutInto(p, ik) => btree'[x] = btree[x]
           /\ x \in PutInto(p, ik) =>
                  /\ DataOf(x) = d
                  /\ btree'[x][fk].pos = Len(Written(d)) + 1
                  /\ \A g \in FieldKeys : g # fk => btree'[x][g] = btree[x][g]
    BY <1>0, <1>7, <2>0, ArchivePuts
  <2>3. ASSUME NEW x \in IndexFiles, NEW s \in 1..Len(sections[x]), x \in PutInto(p, ik),
               sections[x][s][fk] # NoField
        PROVE  sections[x][s][fk].pos <= btree'[x][fk].pos
    <3>1. sections[x][s][fk].pos \in 1..Len(data[DataOf(x)])
        BY <1>0, <2>3 DEF SectionsDurable, Durable
    <3>2. sections[x][s][fk].pos \in 1..Len(Written(d))
        BY <1>0, <2>5, <2>3, <3>1, DurableIsWritten
    <3>3. PICK m \in Nat : m = Len(Written(d))
        BY <2>2
    <3> QED
        BY <2>5, <2>3, <3>2, <3>3
  <2>4. ASSUME NEW x \in IndexFiles, NEW g \in FieldKeys, NEW s \in 1..Len(sections[x]),
               sections[x][s][g] # NoField, btree'[x][g] # NoField
        PROVE  sections[x][s][g].pos <= btree'[x][g].pos
    <3>1. CASE btree'[x][g] = btree[x][g]
        BY <2>4, <3>1 DEF TreesOrdered
    <3>2. CASE x \in PutInto(p, ik) /\ g = fk
        BY <2>3, <2>4, <3>2
    <3> QED
        BY <2>5, <3>1, <3>2
  <2> QED
    BY <2>1, <2>4 DEF TreesOrdered
<1> QED
    BY <1>1, <1>2, <1>3, <1>5, <1>6, <1>7, WhoWritesIndexes

-----------------------------------------------------------------------------
(* Steps of the tocs. *)

(* The block of a compaction has a record of every full index that was written. *)
LEMMA CompactionBlockFull ==
    ASSUME TypeOK, NEW p \in Procs, IsFiniteSet(toPublish[p]), NEW x \in toPublish[p]
    PROVE  \E i \in 1..Len(CompactionBlock(p)) : CompactionBlock(p)[i] = IndexRecord(x, ixOffset[x])
<1> DEFINE n == Cardinality(toPublish[p])
           s == SetToSeq(toPublish[p])
           recs == [i \in 1..n |-> IndexRecord(s[i], ixOffset[s[i]])]
           mask == <<SubTocMaskRecord(p)>>
<1>1. n \in Nat /\ s \in [1..n -> toPublish[p]]
    BY SetToSeqType
<1>2. PICK i \in 1..n : s[i] = x
    BY SetToSeqOnto
<1>3. recs[i] = IndexRecord(x, ixOffset[x])
    BY <1>2
<1>4. \A y \in IndexFiles : IndexRecord(y, ixOffset[y]) \in TocRecords
    BY DEF TypeOK, IndexRecord, TocRecords
<1>5. recs \in Seq(TocRecords) /\ Len(recs) = n
  <2>0. toPublish[p] \subseteq IndexFiles
    BY DEF TypeOK
  <2> HIDE DEF n, s
  <2>1. recs \in [1..n -> TocRecords]
    BY <1>1, <1>4, <2>0
  <2> QED
    BY <1>1, <2>1, IsASeq
<1>6. mask \in Seq(TocRecords)
    BY DEF SubTocMaskRecord, ClearRecord, TocRecords
<1>7. CompactionBlock(p) = recs \o mask
    BY DEF CompactionBlock
<1> HIDE DEF recs, mask, n, s
<1>8. /\ Len(recs) <= Len(recs \o mask) /\ Len(recs \o mask) \in Nat
      /\ \A j \in 1..Len(recs) : (recs \o mask)[j] = recs[j]
  <2>1. recs \o mask \in Seq(TocRecords)
    BY <1>5, <1>6, ConcatExtends
  <2> QED
    BY <1>5, <1>6, <2>1, ConcatExtends
<1>9. i \in 1..Len(recs \o mask)
    BY <1>1, <1>5, <1>8
<1> QED
    BY <1>3, <1>5, <1>7, <1>8, <1>9

(* Appending to a toc leaves every record in its place; the new ones follow. *)
LEMMA AppendAtEnd ==
    ASSUME tocs \in [TocFiles -> Seq(TocRecords)],
           NEW t \in TocFiles, NEW recs \in Seq(TocRecords), AppendToc(t, recs)
    PROVE  /\ \A u \in TocFiles : u # t => tocs'[u] = tocs[u]
           /\ Len(tocs[t]) \in Nat /\ Len(tocs'[t]) = Len(tocs[t]) + Len(recs)
           /\ \A i \in 1..Len(tocs[t]) : i \in 1..Len(tocs'[t]) /\ tocs'[t][i] = tocs[t][i]
           /\ \A i \in 1..Len(tocs'[t]) : i \notin 1..Len(tocs[t]) =>
                 i - Len(tocs[t]) \in 1..Len(recs) /\ tocs'[t][i] = recs[i - Len(tocs[t])]
           /\ \A j \in 1..Len(recs) :
                 Len(tocs[t]) + j \in 1..Len(tocs'[t]) /\ tocs'[t][Len(tocs[t]) + j] = recs[j]
<1>1. PICK old \in Seq(TocRecords) : old = tocs[t]
    OBVIOUS
<1>2. PICK new : new = old \o recs
    OBVIOUS
<1>3. /\ Len(new) = Len(old) + Len(recs)
      /\ \A i \in 1..Len(old) : new[i] = old[i]
      /\ \A i \in 1..Len(new) : i \notin 1..Len(old) =>
            i - Len(old) \in 1..Len(recs) /\ new[i] = recs[i - Len(old)]
    BY <1>2, ConcatElements
<1>4. Len(old) \in Nat /\ Len(recs) \in Nat
    OBVIOUS
<1>5. ASSUME NEW j \in 1..Len(recs)
      PROVE  Len(old) + j \in 1..Len(new) /\ new[Len(old) + j] = recs[j]
  <2>1. Len(old) + j \in 1..Len(new) /\ Len(old) + j \notin 1..Len(old) /\ (Len(old) + j) - Len(old) = j
    BY <1>3, <1>4
  <2> QED
    BY <1>3, <2>1
<1>6. \A i \in 1..Len(old) : i \in 1..Len(new)
    BY <1>3, <1>4
<1>7. tocs'[t] = new /\ \A u \in TocFiles : u # t => tocs'[u] = tocs[u]
    BY <1>1, <1>2 DEF AppendToc
<1> QED
    BY <1>1, <1>3, <1>4, <1>5, <1>6, <1>7

(* Writing INIT once more changes nothing else. *)
LEMMA OverwriteKeeps ==
    ASSUME NEW S, NEW r \in S, NEW s \in Seq(S), s # << >>
    PROVE  LET t == <<r>> \o Tail(IF s = << >> THEN <<r>> ELSE s) IN
           Len(t) = Len(s) /\ \A i \in 2..Len(s) : t[i] = s[i]
<1> DEFINE one == <<r>>
           u == Tail(s)
<1>1. one \in Seq(S) /\ Len(one) = 1
    OBVIOUS
<1>2. u \in Seq(S) /\ Len(u) = Len(s) - 1 /\ Len(s) \in Nat /\ \A j \in 1..Len(u) : u[j] = s[j + 1]
    BY HeadTailProperties
<1>3. <<r>> \o Tail(IF s = << >> THEN <<r>> ELSE s) = one \o u
    OBVIOUS
<1> HIDE DEF one, u
<1>4. /\ Len(one \o u) = Len(one) + Len(u)
      /\ \A i \in 1..Len(one \o u) : i \notin 1..Len(one) =>
            i - Len(one) \in 1..Len(u) /\ (one \o u)[i] = u[i - Len(one)]
  <2>1. one \in Seq(S) /\ u \in Seq(S)
    BY <1>1, <1>2
  <2> QED
    BY ONLY <2>1, ConcatElements
<1>5. Len(one \o u) = Len(s)
    BY <1>1, <1>2, <1>4
<1>6. ASSUME NEW i \in 2..Len(s) PROVE (one \o u)[i] = s[i]
  <2>1. i \in 1..Len(one \o u) /\ i \notin 1..Len(one) /\ i - Len(one) = i - 1
    BY <1>1, <1>2, <1>5
  <2>2. i - 1 \in 1..Len(u) /\ (one \o u)[i] = u[i - 1] /\ (i - 1) + 1 = i
    BY <1>1, <1>2, <1>4, <2>1
  <2> QED
    BY <1>2, <2>2
<1> QED
    BY <1>3, <1>5, <1>6

(* The actions that write tocs. *)
LEMMA WhoWritesRecords ==
    ASSUME [Next]_vars, ~IOErrors
    PROVE  \/ UNCHANGED tocs
           \/ \E p \in Procs : \/ WriteInit(p) \/ NewSubToc(p) \/ LinkSubToc(p) \/ WriteIndex(p)
                                \/ Compact(p)
<1>1. ASSUME NEW p \in Procs, NEW ik \in IndexKeys, FlushIndex(p, ik) \/ FlushFull(p, ik)
      PROVE  UNCHANGED tocs
    BY <1>1 DEF FlushIndex, FlushFull
<1> QED
    BY <1>1, WhoWritesTocs

(***************************************************************************)
(* What a step writes where: a record stays in its place, is an INIT, a    *)
(* link, the record of the section its process has just written, or one of *)
(* the block of a compaction.                                              *)
(***************************************************************************)
Kept(t, i) == i \in 1..Len(tocs[t]) /\ tocs'[t][i] = tocs[t][i]
NewIndex(t, i, p, ik) ==
    /\ WriteIndex(p) /\ current[p] = ik /\ ik \in IndexKeys /\ t = HomeToc(p)
    /\ i = Len(tocs[t]) + 1 /\ i = Len(tocs'[t])
    /\ tocs'[t][i] = IndexRecord(Part(p, ik), ixOffset[Part(p, ik)])
NewBlock(t, i, p) ==
    /\ Compact(p) /\ t = Master
    /\ \/ \E x \in toPublish[p] : tocs'[t][i] = IndexRecord(x, ixOffset[x])
       \/ tocs'[t][i] = SubTocMaskRecord(p)
RecordStep(t, i) ==
    \/ Kept(t, i)
    \/ tocs'[t][i] = InitRecord
    \/ t = Master /\ \E p \in Procs : tocs'[t][i] = SubTocRecord(p)
    \/ \E p \in Procs, ik \in IndexKeys : NewIndex(t, i, p, ik)
    \/ \E p \in Procs : NewBlock(t, i, p)
RecordsKept ==
    \A t \in TocFiles : \A i \in 1..Len(tocs[t]) :
        tocs[t][i] # InitRecord => i \in 1..Len(tocs'[t]) /\ tocs'[t][i] = tocs[t][i]

(* Every record of a toc came about in one of these ways, and only an INIT record may go. *)
LEMMA NextRecordSteps ==
    ASSUME Inv, TocShape, SubTocLinked, [Next]_vars, ~IOErrors
    PROVE  /\ \A t \in TocFiles : \A i \in 1..Len(tocs'[t]) : RecordStep(t, i)
           /\ RecordsKept
<1>0. /\ TypeOK /\ OffsetsWritten /\ TocsWellFormed
      /\ tocs \in [TocFiles -> Seq(TocRecords)]
      /\ Procs \subseteq TocFiles /\ Master \in TocFiles
    BY DEF Inv, WriteOrder, TocShape, TypeOK, TocFiles
<1>1. CASE UNCHANGED tocs
    BY <1>1 DEF RecordStep, RecordsKept, Kept
<1>2. ASSUME NEW p \in Procs, WriteInit(p)
      PROVE  /\ \A t \in TocFiles : \A i \in 1..Len(tocs'[t]) : RecordStep(t, i)
             /\ RecordsKept
  <2>1. PICK old \in Seq(TocRecords) : old = tocs[Master]
    BY <1>0
  <2>2. PICK new : new = <<InitRecord>> \o Tail(IF old = << >> THEN <<InitRecord>> ELSE old)
    OBVIOUS
  <2>3. /\ new[1] = InitRecord /\ \A i \in 2..Len(new) : i \in 1..Len(old) /\ new[i] = old[i]
        /\ new \in Seq(TocRecords)
    BY <2>2, RecordTypes, OverwriteFirst
  <2>4. old # << >> => Len(new) = Len(old) /\ \A i \in 2..Len(old) : new[i] = old[i]
    BY <2>2, RecordTypes, OverwriteKeeps
  <2>5. tocs'[Master] = new /\ \A t \in TocFiles : t # Master => tocs'[t] = tocs[t]
    BY <1>0, <1>2, <2>1, <2>2 DEF WriteInit
  <2>6. ASSUME NEW i \in 1..Len(new) PROVE RecordStep(Master, i)
    <3>1. i = 1 \/ i \in 2..Len(new)
        BY <2>3
    <3> QED
        BY <2>1, <2>3, <2>5, <3>1 DEF RecordStep, Kept
  <2>7. ASSUME NEW i \in 1..Len(old), old[i] # InitRecord
        PROVE  i \in 1..Len(new) /\ new[i] = old[i]
    <3>1. old # << >> /\ Len(old) \in Nat
        OBVIOUS
    <3>2. i # 1
        BY <1>0, <2>1, <2>7, <3>1 DEF TocsWellFormed
    <3> QED
        BY <2>4, <3>1, <3>2
  <2> QED
    BY <2>1, <2>5, <2>6, <2>7 DEF RecordStep, RecordsKept, Kept
<1>3. ASSUME NEW t \in TocFiles, NEW recs \in Seq(TocRecords), AppendToc(t, recs),
             \A i \in 1..Len(tocs'[t]) : i \notin 1..Len(tocs[t]) => RecordStep(t, i)
      PROVE  /\ \A u \in TocFiles : \A i \in 1..Len(tocs'[u]) : RecordStep(u, i)
             /\ RecordsKept
  <2>1. /\ \A u \in TocFiles : u # t => tocs'[u] = tocs[u]
        /\ \A i \in 1..Len(tocs[t]) : i \in 1..Len(tocs'[t]) /\ tocs'[t][i] = tocs[t][i]
    BY <1>0, <1>3, AppendAtEnd
  <2> QED
    BY <1>3, <2>1 DEF RecordStep, RecordsKept, Kept
<1>4. ASSUME NEW t \in TocFiles, NEW r \in TocRecords, AppendToc(t, <<r>>)
      PROVE  /\ \A i \in 1..Len(tocs'[t]) : i \notin 1..Len(tocs[t]) =>
                    i = Len(tocs[t]) + 1 /\ i = Len(tocs'[t]) /\ tocs'[t][i] = r
             /\ <<r>> \in Seq(TocRecords)
  <2>1. PICK one : one = <<r>>
    OBVIOUS
  <2>2. one \in Seq(TocRecords) /\ Len(one) = 1 /\ one[1] = r
    BY <2>1
  <2>3. /\ Len(tocs[t]) \in Nat /\ Len(tocs'[t]) = Len(tocs[t]) + 1
        /\ \A i \in 1..Len(tocs'[t]) : i \notin 1..Len(tocs[t]) =>
                 i - Len(tocs[t]) \in 1..1 /\ tocs'[t][i] = one[i - Len(tocs[t])]
    <3>1. AppendToc(t, one)
        BY <1>4, <2>1
    <3>2. /\ Len(tocs[t]) \in Nat /\ Len(tocs'[t]) = Len(tocs[t]) + Len(one)
          /\ \A i \in 1..Len(tocs'[t]) : i \notin 1..Len(tocs[t]) =>
                i - Len(tocs[t]) \in 1..Len(one) /\ tocs'[t][i] = one[i - Len(tocs[t])]
        BY ONLY <1>0, <2>2, <3>1, t \in TocFiles, AppendAtEnd
    <3> QED
        BY ONLY <2>2, <3>2
  <2>4. ASSUME NEW i \in 1..Len(tocs'[t]), i \notin 1..Len(tocs[t])
        PROVE  i = Len(tocs[t]) + 1 /\ tocs'[t][i] = r
    <3>1. i - Len(tocs[t]) = 1 /\ tocs'[t][i] = one[i - Len(tocs[t])]
        BY <2>3, <2>4
    <3> QED
        BY <2>2, <2>3, <3>1
  <2> QED
    BY <2>1, <2>2, <2>3, <2>4
<1>5. ASSUME NEW p \in Procs, NewSubToc(p)
      PROVE  /\ \A t \in TocFiles : \A i \in 1..Len(tocs'[t]) : RecordStep(t, i)
             /\ RecordsKept
  <2>1. AppendToc(p, <<InitRecord>>) /\ InitRecord \in TocRecords /\ p \in TocFiles
    BY <1>0, <1>5, RecordTypes DEF NewSubToc
  <2>2. \A i \in 1..Len(tocs'[p]) : i \notin 1..Len(tocs[p]) => RecordStep(p, i)
    BY <1>4, <2>1 DEF RecordStep
  <2> QED
    BY <1>3, <1>4, <2>1, <2>2
<1>6. ASSUME NEW p \in Procs, LinkSubToc(p)
      PROVE  /\ \A t \in TocFiles : \A i \in 1..Len(tocs'[t]) : RecordStep(t, i)
             /\ RecordsKept
  <2>1. AppendToc(Master, <<SubTocRecord(p)>>) /\ SubTocRecord(p) \in TocRecords
    BY <1>6, Names DEF LinkSubToc
  <2>2. \A i \in 1..Len(tocs'[Master]) : i \notin 1..Len(tocs[Master]) => RecordStep(Master, i)
    BY <1>0, <1>4, <2>1 DEF RecordStep
  <2> QED
    BY <1>0, <1>3, <1>4, <2>1, <2>2
<1>7. ASSUME NEW p \in Procs, WriteIndex(p)
      PROVE  /\ \A t \in TocFiles : \A i \in 1..Len(tocs'[t]) : RecordStep(t, i)
             /\ RecordsKept
  <2>1. PICK ik \in IndexKeys : ik = current[p]
    BY <1>0, <1>7 DEF WriteIndex, OffsetsWritten
  <2>2. PICK t \in TocFiles : t = HomeToc(p)
    BY <1>0 DEF HomeToc
  <2>3. subToc[p] <=> p \in SubTocProcs
    BY <1>7 DEF WriteIndex, SubTocLinked
  <2>4. PICK r \in TocRecords : r = IndexRecord(Part(p, ik), ixOffset[Part(p, ik)])
    <3>1. Part(p, ik) \in IndexFiles
        BY Names
    <3>2. ixOffset[Part(p, ik)] \in Nat
        BY <1>0, <3>1 DEF TypeOK
    <3> QED
        BY <3>1, <3>2, RecordTypes
  <2>5. AppendToc(t, <<r>>)
    BY <1>7, <2>1, <2>2, <2>3, <2>4 DEF WriteIndex, HomeToc
  <2>6. ASSUME NEW i \in 1..Len(tocs'[t]), i \notin 1..Len(tocs[t]) PROVE RecordStep(t, i)
    <3>1. i = Len(tocs[t]) + 1 /\ i = Len(tocs'[t]) /\ tocs'[t][i] = r
        BY <1>4, <2>5, <2>6
    <3>2. NewIndex(t, i, p, ik)
        BY <1>7, <2>1, <2>2, <2>4, <3>1 DEF NewIndex
    <3> QED
        BY <3>2 DEF RecordStep
  <2> QED
    BY <1>3, <1>4, <2>5, <2>6
<1>8. ASSUME NEW p \in Procs, Compact(p)
      PROVE  /\ \A t \in TocFiles : \A i \in 1..Len(tocs'[t]) : RecordStep(t, i)
             /\ RecordsKept
  <2>1. PICK recs : recs = CompactionBlock(p)
    OBVIOUS
  <2>2. /\ recs \in Seq(TocRecords)
        /\ \A i \in 1..Len(recs) : \/ \E x \in toPublish[p] : recs[i] = IndexRecord(x, ixOffset[x])
                                   \/ recs[i] = SubTocMaskRecord(p)
    <3>1. IsFiniteSet(toPublish[p])
        BY <1>0 DEF OffsetsWritten
    <3> QED
        BY <1>0, <2>1, <3>1, CompactionBlockType
  <2>3. AppendToc(Master, recs)
    BY <1>8, <2>1 DEF Compact
  <2>4. ASSUME NEW i \in 1..Len(tocs'[Master]), i \notin 1..Len(tocs[Master])
        PROVE  RecordStep(Master, i)
    <3>1. PICK j \in 1..Len(recs) : tocs'[Master][i] = recs[j]
        BY <1>0, <2>2, <2>3, <2>4, AppendAtEnd
    <3>2. NewBlock(Master, i, p)
        BY <1>8, <2>2, <3>1 DEF NewBlock
    <3> QED
        BY <3>2 DEF RecordStep
  <2> QED
    BY <1>0, <1>3, <2>2, <2>3, <2>4
<1> QED
    BY <1>1, <1>2, <1>5, <1>6, <1>7, <1>8, WhoWritesRecords

(* Records of different kinds differ, and a record determines its file and its section. *)
LEMMA RecordsDiffer ==
    /\ \A x, n : IndexRecord(x, n).path = x /\ IndexRecord(x, n).offset = n
                     /\ IndexRecord(x, n).tag = "TOC_INDEX"
    /\ \A x, n, y, m : IndexRecord(x, n) = IndexRecord(y, m) => x = y /\ n = m
    /\ \A p : SubTocMaskRecord(p).path = p /\ SubTocMaskRecord(p).tag = "TOC_CLEAR"
    /\ \A p : SubTocRecord(p).path = p /\ SubTocRecord(p).tag = "TOC_SUB_TOC"
    /\ InitRecord.tag = "TOC_INIT"
<1>1. \A x, n : IndexRecord(x, n).path = x /\ IndexRecord(x, n).offset = n
                     /\ IndexRecord(x, n).tag = "TOC_INDEX"
    BY DEF IndexRecord
<1>2. \A p : SubTocMaskRecord(p).path = p /\ SubTocMaskRecord(p).tag = "TOC_CLEAR"
    BY DEF SubTocMaskRecord, ClearRecord
<1> QED
    BY <1>1, <1>2, RecordTags

(* Every record a step writes stands where it should. *)
LEMMA NextPlaced ==
    ASSUME Inv, TocShape, FlushInv, [Next]_vars, ~IOErrors
    PROVE  RecordsPlaced'
<1>0. /\ TypeOK /\ TypeOK' /\ OffsetsWritten /\ RecordsPlaced /\ SubTocLinked /\ FullProgress
      /\ Forward
      /\ Master \in TocFiles /\ Procs \subseteq TocFiles
    BY NextTypeOK, NextForward DEF Inv, WriteOrder, FlushInv, TocFiles
<1>1. \A t \in TocFiles : \A i \in 1..Len(tocs'[t]) : RecordStep(t, i)
    BY <1>0, NextRecordSteps
<1>2. ASSUME NEW t \in TocFiles, NEW i \in 1..Len(tocs[t])
      PROVE  tocs[t][i] \in TocRecords
    BY <1>0 DEF TypeOK
<1>3. ASSUME NEW t \in TocFiles, NEW i \in 1..Len(tocs'[t])
      PROVE  \/ Kept(t, i)
             \/ tocs'[t][i].tag = "TOC_INIT"
             \/ tocs'[t][i].tag = "TOC_SUB_TOC" /\ t = Master
             \/ /\ tocs'[t][i].tag = "TOC_INDEX" /\ tocs'[t][i].path \in IndexFiles
                /\ tocs'[t][i].path[3] = "part"
                /\ t = HomeToc(tocs'[t][i].path[1]) /\ i = Len(tocs'[t])
                /\ tocs'[t][i].offset = ixOffset[tocs'[t][i].path]
                /\ ixOffset[tocs'[t][i].path] < ixOffset'[tocs'[t][i].path]
             \/ /\ tocs'[t][i].tag = "TOC_INDEX" /\ t = Master
                /\ tocs'[t][i].path[3] = "full" /\ tocs'[t][i].offset = 1
                /\ pc'[tocs'[t][i].path[1]] = "closed" /\ subToc'[tocs'[t][i].path[1]]
                /\ tocs'[t][i].path \in toPublish'[tocs'[t][i].path[1]]
             \/ /\ tocs'[t][i].tag = "TOC_CLEAR" /\ t = Master
                /\ pc'[tocs'[t][i].path] = "closed" /\ subToc'[tocs'[t][i].path]
  <2>1. CASE Kept(t, i)
    BY <2>1
  <2>2. CASE tocs'[t][i] = InitRecord
    BY <2>2, RecordsDiffer
  <2>3. CASE t = Master /\ \E p \in Procs : tocs'[t][i] = SubTocRecord(p)
    BY <2>3, RecordsDiffer
  <2>4. ASSUME NEW p \in Procs, NEW ik \in IndexKeys, NewIndex(t, i, p, ik)
        PROVE  /\ tocs'[t][i].tag = "TOC_INDEX" /\ tocs'[t][i].path \in IndexFiles
               /\ tocs'[t][i].path[3] = "part"
               /\ t = HomeToc(tocs'[t][i].path[1]) /\ i = Len(tocs'[t])
               /\ tocs'[t][i].offset = ixOffset[tocs'[t][i].path]
               /\ ixOffset[tocs'[t][i].path] < ixOffset'[tocs'[t][i].path]
    <3>1. PICK x : x = Part(p, ik)
        OBVIOUS
    <3>2. x \in IndexFiles /\ x[1] = p /\ x[3] = "part"
      <4>1. /\ Part(p, ik) \in IndexFiles /\ Part(p, ik)[1] = p
            /\ Part(p, ik)[3] = "part"
        BY DEF IndexFiles, Part
      <4> QED
        BY ONLY <3>1, <4>1
    <3>3. tocs'[t][i] = IndexRecord(x, ixOffset[x]) /\ t = HomeToc(p) /\ i = Len(tocs'[t])
        BY <2>4, <3>1 DEF NewIndex
    <3>4. ixOffset[x] < ixOffset'[x]
      <4>1. ixOffset' = [ixOffset EXCEPT ![x] = Len(sections[x]) + 1] /\ pc[p] = "writeIndex"
        BY <2>4, <3>1 DEF NewIndex, WriteIndex
      <4>2. ixOffset[x] <= Len(sections[x])
        BY <1>0, <2>4, <3>1, <4>1 DEF OffsetsWritten, NewIndex
      <4>3. ixOffset'[x] = Len(sections[x]) + 1 /\ ixOffset[x] \in Nat /\ Len(sections[x]) \in Nat
        BY <1>0, <3>2, <4>1 DEF TypeOK
      <4> QED
        BY <4>2, <4>3
    <3>5. tocs'[t][i].tag = "TOC_INDEX" /\ tocs'[t][i].path = x /\ tocs'[t][i].offset = ixOffset[x]
        BY <3>3, RecordsDiffer
    <3> QED
        BY <3>2, <3>3, <3>4, <3>5
  <2>5. ASSUME NEW p \in Procs, NewBlock(t, i, p)
        PROVE  /\ t = Master
               /\ \/ /\ tocs'[t][i].tag = "TOC_INDEX"
                     /\ tocs'[t][i].path[3] = "full" /\ tocs'[t][i].offset = 1
                     /\ pc'[tocs'[t][i].path[1]] = "closed" /\ subToc'[tocs'[t][i].path[1]]
                     /\ tocs'[t][i].path \in toPublish'[tocs'[t][i].path[1]]
                  \/ /\ tocs'[t][i].tag = "TOC_CLEAR"
                     /\ pc'[tocs'[t][i].path] = "closed" /\ subToc'[tocs'[t][i].path]
    <3>1. pc'[p] = "closed" /\ subToc'[p] /\ toPublish' = toPublish
        BY <1>0, <2>5 DEF NewBlock, Compact, Goto, TypeOK
    <3>2. CASE tocs'[t][i] = SubTocMaskRecord(p)
        BY <2>5, <3>1, <3>2, RecordsDiffer DEF NewBlock
    <3>3. ASSUME NEW x \in toPublish[p], tocs'[t][i] = IndexRecord(x, ixOffset[x])
          PROVE  /\ tocs'[t][i].tag = "TOC_INDEX"
                 /\ tocs'[t][i].path[3] = "full" /\ tocs'[t][i].offset = 1
                 /\ pc'[tocs'[t][i].path[1]] = "closed" /\ subToc'[tocs'[t][i].path[1]]
                 /\ tocs'[t][i].path \in toPublish'[tocs'[t][i].path[1]]
      <4>1. x \in IndexFiles /\ x[1] = p /\ x[3] = "full"
        BY <1>0 DEF OffsetsWritten, FullProgress, BlockOf, FullOf, TypeOK
      <4>2. x[2] \in IndexKeys /\ x = Full(p, x[2])
        BY <4>1, IndexFileNames
      <4>3. ixOffset[x] = 1
        BY <1>0, <4>2 DEF FullProgress, BlockOf, FullOf
      <4>4. tocs'[t][i].tag = "TOC_INDEX" /\ tocs'[t][i].path = x /\ tocs'[t][i].offset = 1
        BY <3>3, <4>3, RecordsDiffer
      <4> QED
        BY <3>1, <4>1, <4>4
    <3> QED
        BY <2>5, <3>2, <3>3 DEF NewBlock
  <2> QED
    BY <1>1, <2>1, <2>2, <2>3, <2>4, <2>5 DEF RecordStep
<1>4. ASSUME NEW t \in TocFiles, NEW i \in 1..Len(tocs'[t])
      PROVE  /\ tocs'[t][i].tag = "TOC_SUB_TOC" => t = Master
             /\ tocs'[t][i].tag = "TOC_CLEAR" =>
                   t = Master /\ pc'[tocs'[t][i].path] = "closed" /\ subToc'[tocs'[t][i].path]
  <2>1. ASSUME Kept(t, i)
        PROVE  /\ tocs'[t][i].tag = "TOC_SUB_TOC" => t = Master
               /\ tocs'[t][i].tag = "TOC_CLEAR" =>
                    t = Master /\ pc'[tocs'[t][i].path] = "closed" /\ subToc'[tocs'[t][i].path]
    <3>1. i \in 1..Len(tocs[t]) /\ tocs'[t][i] = tocs[t][i]
        BY <2>1 DEF Kept
    <3>2. tocs[t][i].tag = "TOC_CLEAR" => tocs[t][i].path \in Procs
        BY <1>2, <3>1, RecordKinds
    <3>3. /\ tocs[t][i].tag = "TOC_SUB_TOC" => t = Master
          /\ tocs[t][i].tag = "TOC_CLEAR" =>
                t = Master /\ pc[tocs[t][i].path] = "closed" /\ subToc[tocs[t][i].path]
        BY <1>0, <3>1 DEF RecordsPlaced
    <3> QED
        BY <1>0, <3>1, <3>2, <3>3 DEF Forward
  <2> QED
    BY <1>3, <2>1
<1>5. ASSUME NEW t \in TocFiles, NEW i \in 1..Len(tocs'[t]), tocs'[t][i].tag = "TOC_INDEX"
      PROVE  IndexRecordPlaced(t, i)'
  <2>1. PICK r : r = tocs'[t][i]
    OBVIOUS
  <2>2. CASE Kept(t, i)
    <3>1. i \in 1..Len(tocs[t]) /\ r = tocs[t][i]
        BY <2>1, <2>2 DEF Kept
    <3>2. r.path \in IndexFiles /\ r.path[1] \in Procs /\ r.offset \in Nat /\ r.tag = "TOC_INDEX"
        BY <1>2, <1>5, <2>1, <3>1, RecordKinds, IndexFileNames
    <3>3. /\ r.path[3] = "part" =>
                /\ t = HomeToc(r.path[1]) /\ r.offset < ixOffset[r.path]
                /\ \A j \in 1..Len(tocs[t]) :
                      i < j /\ tocs[t][j].tag = "TOC_INDEX" /\ tocs[t][j].path = r.path =>
                          r.offset < tocs[t][j].offset
          /\ r.path[3] = "full" =>
                /\ t = Master /\ r.offset = 1
                /\ pc[r.path[1]] = "closed" /\ subToc[r.path[1]] /\ r.path \in toPublish[r.path[1]]
        BY <1>0, <3>1, <3>2 DEF RecordsPlaced, IndexRecordPlaced
    <3>4. CASE r.path[3] = "full"
        BY <1>0, <2>1, <3>2, <3>3, <3>4 DEF IndexRecordPlaced, Forward
    <3>5. CASE r.path[3] = "part"
      <4>1. r.offset < ixOffset'[r.path]
        BY <1>0, <3>2, <3>3, <3>5, SMTT(30) DEF Forward, TypeOK
      <4>2. ASSUME NEW j \in 1..Len(tocs'[t]), i < j, tocs'[t][j].tag = "TOC_INDEX",
                   tocs'[t][j].path = r.path
            PROVE  r.offset < tocs'[t][j].offset
        <5>1. CASE Kept(t, j)
            BY <3>3, <3>5, <4>2, <5>1 DEF Kept
        <5>2. CASE tocs'[t][j].offset = ixOffset[tocs'[t][j].path]
            BY <3>3, <3>5, <4>2, <5>2, SMTT(30)
        <5> QED
            BY <1>3, <3>5, <4>2, <5>1, <5>2
      <4> QED
        BY <2>1, <3>3, <3>5, <4>1, <4>2 DEF IndexRecordPlaced
    <3> QED
        BY <3>2, <3>4, <3>5, IndexFileNames
  <2>3. CASE /\ r.path \in IndexFiles /\ r.path[3] = "part"
             /\ t = HomeToc(r.path[1]) /\ i = Len(tocs'[t])
             /\ r.offset = ixOffset[r.path] /\ ixOffset[r.path] < ixOffset'[r.path]
    <3>1. Len(tocs'[t]) \in Nat /\ \A j \in 1..Len(tocs'[t]) : ~(i < j)
        BY <1>0, <2>3 DEF TypeOK
    <3> QED
        BY <2>1, <2>3, <3>1 DEF IndexRecordPlaced
  <2>4. CASE /\ t = Master /\ r.path[3] = "full" /\ r.offset = 1
             /\ pc'[r.path[1]] = "closed" /\ subToc'[r.path[1]]
             /\ r.path \in toPublish'[r.path[1]]
    BY <2>1, <2>4 DEF IndexRecordPlaced
  <2> QED
    BY <1>3, <1>5, <2>1, <2>2, <2>3, <2>4
<1> QED
    BY <1>4, <1>5 DEF RecordsPlaced

(* Links and records of sections stay; a new record is that of the section just written. *)
LEMMA RecordedSteps ==
    ASSUME Inv, TocShape, SubTocLinked, [Next]_vars, ~IOErrors, NEW p \in Procs
    PROVE  /\ Linked(p) => Linked(p)'
           /\ \A x \in IndexFiles, s \in Nat : Recorded(x, s) => Recorded(x, s)'
           /\ \A ik \in IndexKeys, s \in Nat :
                 Recorded(Part(p, ik), s)' =>
                    \/ Recorded(Part(p, ik), s)
                    \/ WriteIndex(p) /\ current[p] = ik
<1>0. /\ RecordsKept /\ \A t \in TocFiles : \A i \in 1..Len(tocs'[t]) : RecordStep(t, i)
      /\ Master \in TocFiles /\ Procs \subseteq TocFiles /\ OffsetsWritten
    BY NextRecordSteps DEF TocFiles, Inv, WriteOrder
<1>1. Linked(p) => Linked(p)'
    BY <1>0, RecordTags DEF Linked, RecordsKept
<1>2. ASSUME NEW x \in IndexFiles, NEW s \in Nat, Recorded(x, s) PROVE Recorded(x, s)'
  <2>1. PICK t \in TocFiles : t = HomeToc(x[1])
    BY <1>0, IndexFileNames DEF HomeToc
  <2>2. PICK i \in 1..Len(tocs[t]) : tocs[t][i] = IndexRecord(x, s)
    BY <1>2, <2>1 DEF Recorded
  <2>3. i \in 1..Len(tocs'[t]) /\ tocs'[t][i] = IndexRecord(x, s)
    BY <1>0, <2>2, RecordTags DEF RecordsKept
  <2> QED
    BY <2>1, <2>3 DEF Recorded
<1>3. ASSUME NEW ik \in IndexKeys, NEW s \in Nat, Recorded(Part(p, ik), s)',
             ~(WriteIndex(p) /\ current[p] = ik)
      PROVE  Recorded(Part(p, ik), s)
  <2>1. PICK x : x = Part(p, ik)
    OBVIOUS
  <2>2. x \in IndexFiles /\ x[1] = p /\ x[3] = "part"
    <3>1. Part(p, ik) \in IndexFiles /\ Part(p, ik)[1] = p /\ Part(p, ik)[3] = "part"
        BY DEF IndexFiles, Part
    <3> QED
        BY ONLY <2>1, <3>1
  <2>3. PICK t \in TocFiles : t = HomeToc(x[1])
    BY <1>0, <2>2 DEF HomeToc
  <2>4. PICK i \in 1..Len(tocs'[t]) : tocs'[t][i] = IndexRecord(x, s)
    BY <1>3, <2>1, <2>3 DEF Recorded
  <2>5. CASE Kept(t, i)
    BY <2>1, <2>3, <2>4, <2>5 DEF Kept, Recorded
  <2>6. ASSUME NEW q \in Procs, NEW k \in IndexKeys, NewIndex(t, i, q, k) PROVE FALSE
    <3>1. Part(q, k) = x
        BY <2>4, <2>6, RecordsDiffer DEF NewIndex
    <3>2. q = p /\ k = ik
        BY <2>1, <3>1 DEF Part
    <3> QED
        BY <1>3, <2>6, <3>2 DEF NewIndex
  <2>7. ASSUME NEW q \in Procs, NewBlock(t, i, q) PROVE FALSE
    <3>1. \A y \in toPublish[q] : y # x
        BY <1>0, <2>2 DEF OffsetsWritten
    <3> QED
        BY <2>4, <2>7, <3>1, RecordsDiffer DEF NewBlock
  <2> QED
    BY <1>0, <2>4, <2>5, <2>6, <2>7, RecordsDiffer DEF RecordStep
<1> QED
    BY <1>1, <1>2, <1>3

(* How a process moves, seen from its sub-toc. *)
LEMMA SubTocSteps ==
    ASSUME TypeOK, [Next]_vars, ~IOErrors, NEW p \in Procs
    PROVE  \/ pc'[p] = pc[p] /\ subToc'[p] = subToc[p]
           \/ /\ pc[p] \notin {"linkSubToc", "crashed"} /\ subToc'[p] = subToc[p]
              /\ pc'[p] \notin {"newSubToc", "linkSubToc", "writeIndex"}
           \/ pc'[p] = "crashed" /\ subToc'[p] = subToc[p]
           \/ NewSubToc(p) \/ LinkSubToc(p) \/ \E ik \in IndexKeys : FlushIndex(p, ik)
<1>0. pc \in [Procs -> PCs] /\ subToc \in [Procs -> BOOLEAN]
    BY DEF TypeOK
<1>1. ASSUME NEW q \in Procs,
             \/ OpenToc(q) \/ CopySchema(q) \/ WriteInit(q) \/ Flush(q) \/ Close(q)
             \/ StoreFlushed(q) \/ WriteIndex(q) \/ CatalogueFlushed(q) \/ Compact(q)
             \/ NothingToCompact(q)
      PROVE  /\ subToc' = subToc /\ pc[q] \notin {"linkSubToc", "crashed"}
             /\ \E l \in PCs \ {"newSubToc", "linkSubToc", "writeIndex"} : pc' = [pc EXCEPT ![q] = l]
    BY <1>1 DEF OpenToc, CopySchema, WriteInit, Flush, Close, StoreFlushed, WriteIndex,
        CatalogueFlushed, Compact, NothingToCompact, Goto, PCs
<1>2. ASSUME NEW q \in Procs, Crash(q)
      PROVE  subToc' = subToc /\ pc' = [pc EXCEPT ![q] = "crashed"]
    BY <1>2 DEF Crash, Goto
<1>3. ASSUME NEW q \in Procs, NEW ik \in IndexKeys,
             \/ Spill(q, ik) \/ FlushHandle(q, ik) \/ FlushFull(q, ik)
             \/ \E fk \in FieldKeys : Archive(q, ik, fk)
      PROVE  pc' = pc /\ subToc' = subToc
    BY <1>3 DEF Spill, FlushHandle, FlushFull, Archive
<1>4. UNCHANGED vars => pc' = pc /\ subToc' = subToc
    BY DEF vars, memory
<1>5. ASSUME NEW q \in Procs, NEW ik \in IndexKeys, FlushIndex(q, ik)
      PROVE  q # p => pc'[p] = pc[p] /\ subToc'[p] = subToc[p]
    BY <1>0, <1>5 DEF FlushIndex, Goto
<1>6. ASSUME NEW q \in Procs, NewSubToc(q) \/ LinkSubToc(q)
      PROVE  q # p => pc'[p] = pc[p] /\ subToc'[p] = subToc[p]
    BY <1>0, <1>6 DEF NewSubToc, LinkSubToc, Goto
<1>7. ASSUME NEW q \in Procs, NEW l \in PCs, subToc' = subToc, pc' = [pc EXCEPT ![q] = l]
      PROVE  /\ subToc'[p] = subToc[p] /\ (q # p => pc'[p] = pc[p])
             /\ q = p => pc'[p] = l
    BY <1>0, <1>7
<1>8. "crashed" \in PCs
    BY DEF PCs
<1> QED
    BY <1>1, <1>2, <1>3, <1>4, <1>5, <1>6, <1>7, <1>8, NextNoErrors

(* A sub-toc is linked before anything is recorded in it. *)
LEMMA NextLinked ==
    ASSUME Inv, TocShape, FlushInv, [Next]_vars, ~IOErrors
    PROVE  SubTocLinked'
<1>0. /\ TypeOK /\ SubTocLinked /\ SubTocProgress
      /\ pc \in [Procs -> PCs] /\ subToc \in [Procs -> BOOLEAN]
    BY DEF Inv, FlushInv, TocShape, TypeOK
<1>1. SUFFICES ASSUME NEW p \in Procs
               PROVE  /\ pc'[p] \in {"newSubToc", "linkSubToc"} \/ subToc'[p] => p \in SubTocProcs
                      /\ pc'[p] = "writeIndex" /\ p \in SubTocProcs => subToc'[p]
                      /\ subToc'[p] /\ pc'[p] \notin {"linkSubToc", "crashed"} => Linked(p)'
                      /\ \A ik \in IndexKeys, s \in Nat :
                            p \in SubTocProcs /\ Recorded(Part(p, ik), s)' => Linked(p)'
    BY DEF SubTocLinked
<1>2. /\ pc[p] \in {"newSubToc", "linkSubToc"} \/ subToc[p] => p \in SubTocProcs
      /\ pc[p] = "writeIndex" /\ p \in SubTocProcs => subToc[p]
      /\ subToc[p] /\ pc[p] \notin {"linkSubToc", "crashed"} => Linked(p)
      /\ \A ik \in IndexKeys, s \in Nat :
            p \in SubTocProcs /\ Recorded(Part(p, ik), s) => Linked(p)
    BY <1>0 DEF SubTocLinked
<1>3. /\ Linked(p) => Linked(p)'
      /\ \A ik \in IndexKeys, s \in Nat :
            Recorded(Part(p, ik), s)' => Recorded(Part(p, ik), s) \/ (WriteIndex(p) /\ current[p] = ik)
    BY <1>0, RecordedSteps
<1>4. ASSUME NEW ik \in IndexKeys, NEW s \in Nat, p \in SubTocProcs, Recorded(Part(p, ik), s)'
      PROVE  Linked(p)'
  <2>1. CASE Recorded(Part(p, ik), s)
    BY <1>2, <1>3, <1>4, <2>1
  <2>2. CASE WriteIndex(p)
    BY <1>2, <1>3, <1>4, <2>2 DEF WriteIndex
  <2> QED
    BY <1>3, <1>4, <2>1, <2>2
<1>5. CASE NewSubToc(p)
  <2>1. pc[p] = "newSubToc" /\ pc'[p] = "linkSubToc"
    BY <1>0, <1>5 DEF NewSubToc, Goto
  <2> QED
    BY <1>2, <1>4, <2>1
<1>6. CASE LinkSubToc(p)
  <2>1. pc[p] = "linkSubToc" /\ pc'[p] = "writeIndex" /\ subToc'[p] = subToc[p] /\ subToc[p]
    BY <1>0, <1>6 DEF LinkSubToc, Goto, SubTocProgress
  <2>2. Linked(p)'
    <3>1. /\ AppendToc(Master, <<SubTocRecord(p)>>) /\ Master \in TocFiles
          /\ tocs \in [TocFiles -> Seq(TocRecords)] /\ SubTocRecord(p) \in TocRecords
        BY <1>0, <1>6, Names DEF LinkSubToc, TypeOK
    <3>6. PICK recs : recs = <<SubTocRecord(p)>>
        OBVIOUS
    <3>2. recs \in Seq(TocRecords) /\ Len(recs) = 1 /\ recs[1] = SubTocRecord(p)
        BY <3>1, <3>6
    <3>3. AppendToc(Master, recs)
        BY <3>1, <3>6
    <3>4. 1 \in 1..Len(recs)
        BY <3>2
    <3>5. /\ Len(tocs[Master]) + 1 \in 1..Len(tocs'[Master])
          /\ tocs'[Master][Len(tocs[Master]) + 1] = recs[1]
        BY ONLY <3>1, <3>2, <3>3, <3>4, AppendAtEnd
    <3> QED
        BY <3>2, <3>5 DEF Linked
  <2> QED
    BY <1>2, <1>4, <2>1, <2>2
<1>7. ASSUME NEW ik \in IndexKeys, FlushIndex(p, ik)
      PROVE  /\ pc'[p] \in {"newSubToc", "linkSubToc"} \/ subToc'[p] => p \in SubTocProcs
             /\ pc'[p] = "writeIndex" /\ p \in SubTocProcs => subToc'[p]
             /\ subToc'[p] /\ pc'[p] \notin {"linkSubToc", "crashed"} => Linked(p)'
  <2>1. /\ pc[p] = "flushIndexes" /\ subToc'[p] = subToc[p]
        /\ pc'[p] = IF p \in SubTocProcs /\ ~subToc[p] THEN "newSubToc" ELSE "writeIndex"
    BY <1>0, <1>7 DEF FlushIndex, Goto
  <2> QED
    BY <1>2, <1>3, <2>1
<1>8. CASE pc'[p] = pc[p] /\ subToc'[p] = subToc[p]
    BY <1>2, <1>3, <1>4, <1>8
<1>9. CASE /\ pc[p] \notin {"linkSubToc", "crashed"} /\ subToc'[p] = subToc[p]
           /\ pc'[p] \notin {"newSubToc", "linkSubToc", "writeIndex"}
    BY <1>2, <1>3, <1>4, <1>9
<1>10. CASE pc'[p] = "crashed" /\ subToc'[p] = subToc[p]
    BY <1>2, <1>4, <1>10
<1> QED
    BY <1>0, <1>4, <1>5, <1>6, <1>7, <1>8, <1>9, <1>10, SubTocSteps

-----------------------------------------------------------------------------
(* Steps of a flush and of the full indexes. *)

(* A step that leaves an index, and what its process does with it, alone. *)
IndexQuiet(x) ==
    btree'[x] = btree[x] /\ (ixDirty'[x] <=> ixDirty[x]) /\ sections'[x] = sections[x]
        /\ ixOffset'[x] = ixOffset[x]

(* Such a step keeps what is known of the flush of the index. *)
LEMMA QuietPart ==
    ASSUME NEW p \in Procs, NEW ik \in IndexKeys, PartOf(p, ik), IndexQuiet(Part(p, ik)),
           dirty[p].catalogue => dirty'[p].catalogue,
           pc'[p] \in WritingPCs /\ current'[p] = ik <=> pc[p] \in WritingPCs /\ current[p] = ik
    PROVE  PartOf(p, ik)'
BY DEF PartOf, IndexQuiet

(* Every tree is dirty, being published or empty, and the section being published is the tree. *)
LEMMA NextPart ==
    ASSUME Inv, FlushInv, [Next]_vars, ~IOErrors
    PROVE  PartProgress'
<1> SUFFICES ASSUME NEW p \in Procs, NEW ik \in IndexKeys PROVE PartOf(p, ik)'
    BY DEF PartProgress
<1>0. /\ TypeOK /\ OffsetsWritten /\ TreesOrdered /\ PartOf(p, ik)
    BY DEF Inv, WriteOrder, FlushInv, PartProgress
<1>1. /\ pc \in [Procs -> PCs] /\ current \in [Procs -> IndexKeys \cup {NoField}]
      /\ dirty \in [Procs -> [fdb : BOOLEAN, store : BOOLEAN, catalogue : BOOLEAN]]
      /\ ixDirty \in [IndexFiles -> BOOLEAN] /\ btree \in [IndexFiles -> Entries]
      /\ sections \in [IndexFiles -> Seq(Entries)] /\ ixOffset \in [IndexFiles -> Nat]
    BY <1>0 DEF TypeOK
<1>14. PICK x : x = Part(p, ik)
    OBVIOUS
<1>2. x \in IndexFiles /\ x = Part(p, ik) /\ x[1] = p /\ x[2] = ik /\ x[3] = "part"
    BY <1>14 DEF IndexFiles, Part
<1>3. \A q \in Procs, k \in IndexKeys :
          /\ Part(q, k) \in IndexFiles /\ Full(q, k) \in IndexFiles
          /\ Full(q, k) # x /\ (Part(q, k) = x => q = p /\ k = ik)
          /\ x \in PutInto(q, k) => q = p /\ k = ik
    BY <1>2 DEF IndexFiles, Part, Full, PutInto
<1>4. CASE UNCHANGED <<btree, ixDirty, sections, ixOffset, dirty, pc, current>>
    BY <1>0, <1>4, QuietPart DEF IndexQuiet
<1>5. ASSUME NEW q \in Procs,
             \/ OpenToc(q) \/ CopySchema(q) \/ WriteInit(q) \/ Flush(q) \/ Close(q)
             \/ StoreFlushed(q) \/ NewSubToc(q) \/ LinkSubToc(q) \/ Compact(q)
             \/ NothingToCompact(q)
      PROVE  PartOf(p, ik)'
  <2>1. /\ UNCHANGED <<btree, ixDirty, sections, ixOffset, current>>
        /\ dirty' = dirty \/ dirty' = [dirty EXCEPT ![q] = [dirty[q] EXCEPT !.store = FALSE]]
        /\ \E l \in PCs : /\ pc' = [pc EXCEPT ![q] = l]
                          /\ pc[q] \in WritingPCs <=> l \in WritingPCs
    BY <1>5 DEF OpenToc, CopySchema, WriteInit, Flush, Close, StoreFlushed, NewSubToc,
        LinkSubToc, Compact, NothingToCompact, Goto, PCs, WritingPCs, files
  <2>2. dirty[p].catalogue => dirty'[p].catalogue
    <3>1. dirty[q] \in [fdb : BOOLEAN, store : BOOLEAN, catalogue : BOOLEAN]
        BY <1>1
    <3>2. [dirty[q] EXCEPT !.store = FALSE].catalogue = dirty[q].catalogue
        BY ONLY <3>1
    <3> QED
        BY <1>1, <2>1, <3>2
  <2>3. pc'[p] \in WritingPCs <=> pc[p] \in WritingPCs
    BY <1>1, <2>1
  <2> QED
    BY <1>0, <2>1, <2>2, <2>3, QuietPart DEF IndexQuiet
<1>6. ASSUME NEW q \in Procs, NEW k \in IndexKeys, Spill(q, k) \/ FlushHandle(q, k)
      PROVE  PartOf(p, ik)'
    BY <1>4, <1>6 DEF Spill, FlushHandle
<1>7. ASSUME NEW q \in Procs, NEW k \in IndexKeys, FlushFull(q, k) PROVE PartOf(p, ik)'
  <2>1. /\ UNCHANGED <<btree, ixOffset, dirty, pc, current>>
        /\ sections'[x] = sections[x] /\ ixDirty'[x] = ixDirty[x]
    BY <1>1, <1>2, <1>3, <1>7 DEF FlushFull, WriteTree
  <2> QED
    BY <1>0, <1>2, <2>1, QuietPart DEF IndexQuiet
<1>8. ASSUME NEW q \in Procs, NEW k \in IndexKeys, NEW fk \in FieldKeys, Archive(q, k, fk)
      PROVE  PartOf(p, ik)'
  <2>1. /\ UNCHANGED <<sections, ixOffset, pc, current>> /\ pc[q] = "idle"
        /\ btree'[x] # btree[x] => x \in PutInto(q, k)
        /\ ixDirty'[x] <=> (ixDirty[x] \/ x \in PutInto(q, k))
        /\ dirty' = [dirty EXCEPT ![q] = [fdb |-> TRUE, store |-> TRUE, catalogue |-> TRUE]]
    BY <1>2, <1>8 DEF Archive, files
  <2>2. (q = p => dirty'[p].catalogue) /\ (q # p => dirty'[p] = dirty[p])
    BY <1>1, <2>1
  <2>3. CASE q = p /\ k = ik
    <3>1. x \in PutInto(q, k)
        BY <1>2, <2>3 DEF PutInto
    <3> QED
        BY <1>2, <2>1, <2>2, <2>3, <3>1 DEF PartOf, WritingPCs
  <2>4. CASE ~(q = p /\ k = ik)
    <3>1. dirty[p].catalogue => dirty'[p].catalogue
        BY <2>2
    <3>2. IndexQuiet(Part(p, ik))
        BY <1>2, <1>3, <2>1, <2>4 DEF IndexQuiet
    <3> QED
        BY <1>0, <2>1, <3>1, <3>2, QuietPart
  <2> QED
    BY <2>3, <2>4
<1>9. ASSUME NEW q \in Procs, NEW k \in IndexKeys, FlushIndex(q, k) PROVE PartOf(p, ik)'
  <2>1. /\ UNCHANGED <<btree, ixOffset, dirty>> /\ WriteTree(Part(q, k))
        /\ ixDirty' = [ixDirty EXCEPT ![Part(q, k)] = FALSE]
        /\ current' = [current EXCEPT ![q] = k]
        /\ pc[q] = "flushIndexes"
        /\ \E l \in WritingPCs : pc' = [pc EXCEPT ![q] = l]
    BY <1>9 DEF FlushIndex, Goto, WritingPCs
  <2>2. CASE q = p /\ k = ik
    <3>1. pc'[p] \in WritingPCs /\ current'[p] = ik /\ ~ixDirty'[x]
        BY <1>1, <1>2, <2>1, <2>2
    <3>2. /\ ixOffset'[x] \in 1..Len(sections'[x]) /\ sections'[x][ixOffset'[x]] = btree'[x]
      <4>1. /\ Len(sections'[x]) = ixOffset[x] /\ ixOffset[x] \in Nat \ {0}
            /\ sections'[x][ixOffset[x]] = btree[x]
        BY <1>0, <1>2, <2>1, <2>2, WriteTreeAtEnd DEF OffsetsWritten, TreesOrdered
      <4> QED
        BY <2>1, <4>1
    <3> QED
        BY <1>2, <3>1, <3>2 DEF PartOf
  <2>3. CASE ~(q = p /\ k = ik)
    <3>1. Part(q, k) # x
        BY <1>3, <2>3
    <3>2. IndexQuiet(Part(p, ik))
        BY <1>1, <1>2, <1>3, <2>1, <3>1 DEF IndexQuiet, WriteTree
    <3>3. pc'[p] \in WritingPCs /\ current'[p] = ik <=> pc[p] \in WritingPCs /\ current[p] = ik
        BY <1>1, <2>1, <2>3 DEF WritingPCs
    <3> QED
        BY <1>0, <2>1, <3>2, <3>3, QuietPart
  <2> QED
    BY <2>2, <2>3
<1>10. ASSUME NEW q \in Procs, WriteIndex(q) PROVE PartOf(p, ik)'
  <2>1. PICK k \in IndexKeys : k = current[q]
    BY <1>0, <1>10 DEF WriteIndex, OffsetsWritten
  <2>2. /\ UNCHANGED <<sections, ixDirty, dirty>>
        /\ btree' = [btree EXCEPT ![Part(q, k)] = EmptyTree]
        /\ \E n : ixOffset' = [ixOffset EXCEPT ![Part(q, k)] = n]
        /\ current' = [current EXCEPT ![q] = NoField]
        /\ pc[q] = "writeIndex" /\ pc' = [pc EXCEPT ![q] = "flushIndexes"]
    BY <1>10, <2>1 DEF WriteIndex, Goto
  <2>3. CASE q = p /\ k = ik
    <3>1. btree'[x] = EmptyTree /\ pc'[p] = "flushIndexes"
        BY <1>1, <1>2, <2>2, <2>3
    <3> QED
        BY <1>0, <1>2, <2>2, <3>1 DEF PartOf, WritingPCs
  <2>4. CASE ~(q = p /\ k = ik)
    <3>1. Part(q, k) # x
        BY <1>3, <2>4
    <3>2. IndexQuiet(Part(p, ik))
        BY <1>1, <1>2, <1>3, <2>2, <3>1 DEF IndexQuiet
    <3>3. pc'[p] \in WritingPCs /\ current'[p] = ik <=> pc[p] \in WritingPCs /\ current[p] = ik
        BY <1>1, <2>1, <2>2, <2>4 DEF WritingPCs
    <3> QED
        BY <1>0, <2>2, <3>2, <3>3, QuietPart
  <2> QED
    BY <2>3, <2>4
<1>11. ASSUME NEW q \in Procs, CatalogueFlushed(q) PROVE PartOf(p, ik)'
  <2>1. /\ UNCHANGED <<btree, ixDirty, sections, ixOffset, current>>
        /\ dirty' = [dirty EXCEPT ![q] = [dirty[q] EXCEPT !.catalogue = FALSE, !.fdb = FALSE]]
        /\ dirty[q].catalogue => \A k \in IndexKeys : ~ixDirty[Part(q, k)]
        /\ pc[q] = "flushIndexes" /\ \E l \in {"compact", "idle"} : pc' = [pc EXCEPT ![q] = l]
    BY <1>11 DEF CatalogueFlushed, Goto, files
  <2>2. pc'[p] \in WritingPCs <=> pc[p] \in WritingPCs
    BY <1>1, <2>1 DEF WritingPCs
  <2>3. CASE q = p
    <3>1. ~ixDirty[x] /\ IndexQuiet(x)
        BY <1>0, <1>2, <2>1, <2>3 DEF PartOf, IndexQuiet
    <3> QED
        BY <1>0, <1>2, <2>1, <2>2, <3>1 DEF PartOf
  <2>4. CASE q # p
    <3>1. dirty'[p] = dirty[p]
        BY <1>1, <2>1, <2>4
    <3> QED
        BY <1>0, <2>1, <2>2, <3>1, QuietPart DEF IndexQuiet
  <2> QED
    BY <2>3, <2>4
<1>12. ASSUME NEW q \in Procs, Crash(q) PROVE PartOf(p, ik)'
  <2>1. /\ UNCHANGED <<sections, ixOffset, dirty>>
        /\ btree'[x] = (IF x[1] = q THEN EmptyTree ELSE btree[x])
        /\ ixDirty'[x] = (IF x[1] = q THEN FALSE ELSE ixDirty[x])
        /\ current' = [current EXCEPT ![q] = NoField]
        /\ pc' = [pc EXCEPT ![q] = "crashed"]
    BY <1>2, <1>12 DEF Crash, Goto, files
  <2>2. CASE q = p
    <3>1. btree'[x] = EmptyTree /\ ~ixDirty'[x] /\ pc'[p] \notin WritingPCs
        BY <1>1, <1>2, <2>1, <2>2 DEF WritingPCs
    <3> QED
        BY <1>2, <3>1 DEF PartOf
  <2>3. CASE q # p
    <3>1. pc'[p] = pc[p] /\ current'[p] = current[p] /\ IndexQuiet(x)
        BY <1>1, <1>2, <2>1, <2>3 DEF IndexQuiet
    <3> QED
        BY <1>0, <1>2, <2>1, <3>1, QuietPart
  <2> QED
    BY <2>2, <2>3
<1>13. CASE UNCHANGED vars
    BY <1>4, <1>13 DEF vars, files, memory
<1> QED
    BY <1>5, <1>6, <1>7, <1>8, <1>9, <1>10, <1>11, <1>12, <1>13, NextNoErrors

(* A step that leaves the compaction of a process alone; a tree of its own may be emptied. *)
LEMMA QuietFull ==
    ASSUME NEW p \in Procs, NEW ik \in IndexKeys, FullOf(p, ik), RecordsKept,
           IndexQuiet(Full(p, ik)), toPublish'[p] = toPublish[p],
           pc'[p] # "crashed" => pc[p] # "crashed",
           pc'[p] = "closed" /\ subToc'[p] => pc[p] = "closed" /\ subToc[p]
    PROVE  FullOf(p, ik)'
<1>1. PICK x : x = Full(p, ik)
    OBVIOUS
<1>2. (\E i \in 1..Len(tocs[Master]) : tocs[Master][i] = IndexRecord(x, 1)) =>
          \E i \in 1..Len(tocs'[Master]) : tocs'[Master][i] = IndexRecord(x, 1)
  <2>1. Master \in TocFiles
    BY DEF TocFiles
  <2>2. IndexRecord(x, 1) # InitRecord
    BY RecordTags
  <2> QED
    BY <2>1, <2>2 DEF RecordsKept
<1> QED
    BY <1>1, <1>2 DEF FullOf, IndexQuiet

(* How a process comes to compact and to close, and what it may have in its block. *)
LEMMA BlockSteps ==
    ASSUME TypeOK, [Next]_vars, ~IOErrors, NEW p \in Procs
    PROVE  \/ /\ toPublish'[p] = toPublish[p]
              /\ \/ pc'[p] = pc[p]
                 \/ pc'[p] = "crashed"
                 \/ pc[p] \notin {"compact", "closed", "crashed"} /\ pc'[p] # "closed"
                 \/ pc[p] = "compact" /\ pc'[p] = "closed" /\ ~subToc[p]
              /\ subToc'[p] = subToc[p] \/ NewSubToc(p)
           \/ Compact(p)
           \/ \E ik \in IndexKeys : FlushFull(p, ik)
<1>0. /\ pc \in [Procs -> PCs] /\ subToc \in [Procs -> BOOLEAN]
      /\ toPublish \in [Procs -> SUBSET IndexFiles]
    BY DEF TypeOK
<1>1. ASSUME NEW q \in Procs,
             \/ OpenToc(q) \/ CopySchema(q) \/ WriteInit(q) \/ Flush(q) \/ Close(q)
             \/ StoreFlushed(q) \/ NewSubToc(q) \/ LinkSubToc(q) \/ WriteIndex(q)
             \/ CatalogueFlushed(q) \/ NothingToCompact(q) \/ Crash(q)
      PROVE  /\ toPublish' = toPublish
             /\ subToc' = subToc \/ (NewSubToc(q) /\ subToc' = [subToc EXCEPT ![q] = TRUE])
             /\ \E l \in PCs : /\ pc' = [pc EXCEPT ![q] = l]
                               /\ \/ l = "crashed"
                                  \/ pc[q] \notin {"compact", "closed", "crashed"} /\ l # "closed"
                                  \/ pc[q] = "compact" /\ l = "closed" /\ ~subToc[q]
    BY <1>1 DEF OpenToc, CopySchema, WriteInit, Flush, Close, StoreFlushed, NewSubToc,
        LinkSubToc, WriteIndex, CatalogueFlushed, NothingToCompact, Crash, Goto, PCs
<1>2. ASSUME NEW q \in Procs, NEW k \in IndexKeys,
             \/ Spill(q, k) \/ FlushHandle(q, k) \/ \E fk \in FieldKeys : Archive(q, k, fk)
      PROVE  UNCHANGED <<pc, subToc, toPublish>>
    BY <1>2 DEF Spill, FlushHandle, Archive
<1>3. ASSUME NEW q \in Procs, NEW k \in IndexKeys, FlushIndex(q, k)
      PROVE  /\ UNCHANGED <<subToc, toPublish>> /\ pc[q] = "flushIndexes"
             /\ \E l \in {"newSubToc", "writeIndex"} : pc' = [pc EXCEPT ![q] = l]
    BY <1>3 DEF FlushIndex, Goto
<1>4. ASSUME NEW q \in Procs, Compact(q)
      PROVE  q # p => toPublish'[p] = toPublish[p] /\ subToc'[p] = subToc[p] /\ pc'[p] = pc[p]
    BY <1>0, <1>4 DEF Compact, Goto
<1>5. ASSUME NEW q \in Procs, NEW k \in IndexKeys, FlushFull(q, k)
      PROVE  q # p => toPublish'[p] = toPublish[p] /\ subToc'[p] = subToc[p] /\ pc'[p] = pc[p]
    BY <1>0, <1>5 DEF FlushFull
<1>6. UNCHANGED vars => UNCHANGED <<pc, subToc, toPublish>>
    BY DEF vars, memory
<1>7. ASSUME NEW q \in Procs, NEW l \in PCs, pc' = [pc EXCEPT ![q] = l]
      PROVE  (q # p => pc'[p] = pc[p]) /\ (q = p => pc'[p] = l)
    BY <1>0, <1>7
<1>8. ASSUME NEW q \in Procs, subToc' = [subToc EXCEPT ![q] = TRUE]
      PROVE  q # p => subToc'[p] = subToc[p]
    BY <1>0, <1>8
<1>9. {"newSubToc", "writeIndex"} \subseteq PCs
    BY DEF PCs
<1>10. ASSUME NEW q \in Procs,
             \/ OpenToc(q) \/ CopySchema(q) \/ WriteInit(q) \/ Flush(q) \/ Close(q)
             \/ StoreFlushed(q) \/ NewSubToc(q) \/ LinkSubToc(q) \/ WriteIndex(q)
             \/ CatalogueFlushed(q) \/ NothingToCompact(q) \/ Crash(q)
      PROVE  /\ toPublish'[p] = toPublish[p]
             /\ \/ pc'[p] = pc[p]
                \/ pc'[p] = "crashed"
                \/ pc[p] \notin {"compact", "closed", "crashed"} /\ pc'[p] # "closed"
                \/ pc[p] = "compact" /\ pc'[p] = "closed" /\ ~subToc[p]
             /\ subToc'[p] = subToc[p] \/ NewSubToc(p)
  <2>1. PICK l \in PCs : /\ pc' = [pc EXCEPT ![q] = l]
                         /\ \/ l = "crashed"
                            \/ pc[q] \notin {"compact", "closed", "crashed"} /\ l # "closed"
                            \/ pc[q] = "compact" /\ l = "closed" /\ ~subToc[q]
    BY <1>1, <1>10
  <2>2. /\ toPublish' = toPublish
        /\ subToc' = subToc \/ (NewSubToc(q) /\ subToc' = [subToc EXCEPT ![q] = TRUE])
    BY <1>1, <1>10
  <2> QED
    BY <1>7, <1>8, <2>1, <2>2
<1>11. ASSUME NEW q \in Procs, NEW k \in IndexKeys, FlushIndex(q, k)
       PROVE  /\ toPublish'[p] = toPublish[p] /\ subToc'[p] = subToc[p]
              /\ \/ pc'[p] = pc[p]
                 \/ pc[p] \notin {"compact", "closed", "crashed"} /\ pc'[p] # "closed"
    BY <1>3, <1>7, <1>9, <1>11
<1> QED
    BY <1>2, <1>4, <1>5, <1>6, <1>10, <1>11, NextNoErrors

(* What touches a full index. *)
LEMMA FullSteps ==
    ASSUME TypeOK, OffsetsWritten, [Next]_vars, ~IOErrors, NEW p \in Procs, NEW ik \in IndexKeys
    PROVE  \/ IndexQuiet(Full(p, ik))
           \/ \E fk \in FieldKeys : Archive(p, ik, fk)
           \/ FlushFull(p, ik)
           \/ Crash(p)
<1>1. /\ ixDirty \in [IndexFiles -> BOOLEAN] /\ btree \in [IndexFiles -> Entries]
      /\ sections \in [IndexFiles -> Seq(Entries)] /\ ixOffset \in [IndexFiles -> Nat]
    BY DEF TypeOK
<1>2. PICK x : x = Full(p, ik)
    OBVIOUS
<1>3. x \in IndexFiles /\ x[1] = p
    BY <1>2 DEF IndexFiles, Full
<1>4. \A q \in Procs, k \in IndexKeys :
          /\ Part(q, k) # x /\ (Full(q, k) = x => q = p /\ k = ik)
          /\ x \in PutInto(q, k) => q = p /\ k = ik
    BY <1>2 DEF Part, Full, PutInto
<1>5. ASSUME UNCHANGED <<btree, ixDirty, sections, ixOffset>> PROVE IndexQuiet(x)
    BY <1>5 DEF IndexQuiet
<1>6. ASSUME NEW q \in Procs,
             \/ OpenToc(q) \/ CopySchema(q) \/ WriteInit(q) \/ Flush(q) \/ Close(q)
             \/ StoreFlushed(q) \/ NewSubToc(q) \/ LinkSubToc(q) \/ Compact(q)
             \/ NothingToCompact(q) \/ CatalogueFlushed(q)
      PROVE  IndexQuiet(x)
    BY <1>5, <1>6 DEF OpenToc, CopySchema, WriteInit, Flush, Close, StoreFlushed, NewSubToc,
        LinkSubToc, Compact, NothingToCompact, CatalogueFlushed, files
<1>7. ASSUME NEW q \in Procs, NEW k \in IndexKeys, Spill(q, k) \/ FlushHandle(q, k)
      PROVE  IndexQuiet(x)
    BY <1>5, <1>7 DEF Spill, FlushHandle
<1>8. ASSUME NEW q \in Procs, NEW k \in IndexKeys, FlushIndex(q, k) PROVE IndexQuiet(x)
    BY <1>1, <1>3, <1>4, <1>8 DEF IndexQuiet, FlushIndex, WriteTree
<1>9. ASSUME NEW q \in Procs, WriteIndex(q) PROVE IndexQuiet(x)
  <2>1. current[q] \in IndexKeys
    BY <1>9 DEF WriteIndex, OffsetsWritten
  <2> QED
    BY <1>1, <1>3, <1>4, <1>9, <2>1 DEF IndexQuiet, WriteIndex
<1>10. ASSUME NEW q \in Procs, NEW k \in IndexKeys, FlushFull(q, k), ~(q = p /\ k = ik)
       PROVE  IndexQuiet(x)
    BY <1>1, <1>3, <1>4, <1>10 DEF IndexQuiet, FlushFull, WriteTree
<1>11. ASSUME NEW q \in Procs, NEW k \in IndexKeys, NEW fk \in FieldKeys, Archive(q, k, fk),
              ~(q = p /\ k = ik)
       PROVE  IndexQuiet(x)
  <2>1. x \notin PutInto(q, k)
    BY <1>4, <1>11
  <2> QED
    BY <1>3, <1>11, <2>1 DEF IndexQuiet, Archive, files
<1>12. ASSUME NEW q \in Procs, Crash(q), q # p PROVE IndexQuiet(x)
    BY <1>3, <1>12 DEF IndexQuiet, Crash, files
<1>13. UNCHANGED vars => UNCHANGED <<btree, ixDirty, sections, ixOffset>>
    BY DEF vars, files, memory
<1> QED
    BY <1>2, <1>5, <1>6, <1>7, <1>8, <1>9, <1>10, <1>11, <1>12, <1>13, NextNoErrors

(* A full index has one section, which is its tree once it is in the block. *)
LEMMA NextFull ==
    ASSUME Inv, TocShape, FlushInv, [Next]_vars, ~IOErrors
    PROVE  FullProgress'
<1> SUFFICES ASSUME NEW p \in Procs PROVE BlockOf(p)' /\ \A ik \in IndexKeys : FullOf(p, ik)'
    BY DEF FullProgress
<1>0. /\ TypeOK /\ OffsetsWritten /\ TreesOrdered /\ SubTocLinked /\ RecordsKept
      /\ BlockOf(p) /\ \A ik \in IndexKeys : FullOf(p, ik)
    BY NextRecordSteps DEF Inv, WriteOrder, FlushInv, FullProgress
<1>1. /\ pc \in [Procs -> PCs] /\ subToc \in [Procs -> BOOLEAN]
      /\ ixDirty \in [IndexFiles -> BOOLEAN] /\ btree \in [IndexFiles -> Entries]
      /\ toPublish \in [Procs -> SUBSET IndexFiles]
      /\ sections \in [IndexFiles -> Seq(Entries)] /\ ixOffset \in [IndexFiles -> Nat]
    BY <1>0 DEF TypeOK
<1>2. \A k \in IndexKeys : /\ Full(p, k) \in IndexFiles /\ Full(p, k)[1] = p
                           /\ \A l \in IndexKeys : Full(p, k) = Full(p, l) => k = l
    BY DEF IndexFiles, Full
<1>3. ASSUME Compact(p)
      PROVE  /\ toPublish' = toPublish /\ subToc' = subToc /\ pc'[p] = "closed" /\ pc[p] = "compact"
             /\ UNCHANGED <<btree, ixDirty, sections, ixOffset>>
             /\ subToc[p] /\ \A ik \in IndexKeys : ~ixDirty[Full(p, ik)]
             /\ AppendToc(Master, CompactionBlock(p))
    BY <1>1, <1>3 DEF Compact, Goto
<1>4. ASSUME NEW k \in IndexKeys, FlushFull(p, k)
      PROVE  /\ toPublish'[p] = toPublish[p] \cup {Full(p, k)} /\ pc' = pc /\ pc[p] = "compact"
             /\ subToc' = subToc /\ btree' = btree /\ ixOffset' = ixOffset
             /\ WriteTree(Full(p, k))
             /\ ixDirty' = [ixDirty EXCEPT ![Full(p, k)] = FALSE]
    BY <1>1, <1>4 DEF FlushFull
<1>5. BlockOf(p)'
  <2>1. CASE Compact(p)
    BY <1>0, <1>3, <2>1 DEF BlockOf
  <2>2. CASE \E k \in IndexKeys : FlushFull(p, k)
    BY <1>0, <1>2, <1>4, <2>2 DEF BlockOf
  <2>3. CASE /\ toPublish'[p] = toPublish[p]
             /\ \/ pc'[p] = pc[p]
                \/ pc'[p] = "crashed"
                \/ pc[p] \notin {"compact", "closed", "crashed"} /\ pc'[p] # "closed"
                \/ pc[p] = "compact" /\ pc'[p] = "closed" /\ ~subToc[p]
    BY <1>0, <2>3 DEF BlockOf
  <2> QED
    BY <1>0, <2>1, <2>2, <2>3, BlockSteps
<1>6. ASSUME NEW ik \in IndexKeys PROVE FullOf(p, ik)'
  <2>0. PICK x \in IndexFiles : x = Full(p, ik)
    BY <1>2
  <2>1. FullOf(p, ik)
    BY <1>0
  <2>2. CASE Compact(p)
    <3>1. IndexQuiet(Full(p, ik))
        BY <1>3, <2>2 DEF IndexQuiet
    <3>2. ASSUME x \in toPublish[p]
          PROVE  \E i \in 1..Len(tocs'[Master]) : tocs'[Master][i] = IndexRecord(x, 1)
      <4>1. PICK recs : recs = CompactionBlock(p)
        OBVIOUS
      <4>2. IsFiniteSet(toPublish[p]) /\ ixOffset[x] = 1
        BY <1>0, <2>0 DEF OffsetsWritten, FullOf
      <4>3. recs \in Seq(TocRecords)
        BY <1>0, <4>1, <4>2, CompactionBlockType
      <4>4. PICK j \in 1..Len(recs) : recs[j] = IndexRecord(x, 1)
        BY <1>0, <3>2, <4>1, <4>2, CompactionBlockFull
      <4>5. AppendToc(Master, recs) /\ Master \in TocFiles /\ tocs \in [TocFiles -> Seq(TocRecords)]
        BY <1>0, <1>3, <2>2, <4>1 DEF TocFiles, TypeOK
      <4>6. /\ Len(tocs[Master]) + j \in 1..Len(tocs'[Master])
            /\ tocs'[Master][Len(tocs[Master]) + j] = recs[j]
        BY <4>3, <4>5, AppendAtEnd
      <4> QED
        BY <4>4, <4>6
    <3> QED
        BY <1>3, <2>0, <2>1, <2>2, <3>1, <3>2 DEF FullOf, IndexQuiet
  <2>3. ASSUME NEW k \in IndexKeys, FlushFull(p, k) PROVE FullOf(p, ik)'
    <3>1. CASE k = ik
      <4>1. /\ Len(sections'[x]) = 1 /\ sections'[x][1] = btree[x]
        <5>1. ixOffset[x] = 1
            BY <2>0, <2>1 DEF FullOf
        <5>2. ixOffset[x] \in 1..Len(sections[x]) + 1 /\ Len(sections[x]) <= ixOffset[x]
            BY <1>0 DEF OffsetsWritten, TreesOrdered
        <5>3. WriteTree(x)
            BY <1>4, <2>0, <2>3, <3>1
        <5>4. Len(sections'[x]) = ixOffset[x] /\ sections'[x][ixOffset[x]] = btree[x]
            BY <1>0, <5>2, <5>3, WriteTreeAtEnd
        <5> QED
            BY <5>1, <5>4
      <4>2. sections'[x] # << >>
        BY <4>1
      <4>3. x \in toPublish'[p] /\ ~ixDirty'[x] /\ pc'[p] = "compact" /\ btree' = btree
            /\ ixOffset'[x] = 1
        BY <1>1, <1>4, <2>0, <2>1, <2>3, <3>1 DEF FullOf
      <4> QED
        BY <2>0, <4>1, <4>2, <4>3 DEF FullOf
    <3>2. CASE k # ik
      <4>1. x # Full(p, k) /\ Full(p, k) \in IndexFiles
        BY <1>2, <2>0, <3>2
      <4>2. IndexQuiet(x) /\ (x \in toPublish'[p] <=> x \in toPublish[p])
        BY <1>1, <1>4, <2>0, <2>3, <4>1 DEF IndexQuiet, WriteTree
      <4> QED
        BY <1>4, <2>0, <2>1, <2>3, <4>2 DEF FullOf, IndexQuiet
    <3> QED
        BY <3>1, <3>2
  <2>4. ASSUME /\ toPublish'[p] = toPublish[p]
               /\ \/ pc'[p] = pc[p]
                  \/ pc'[p] = "crashed"
                  \/ pc[p] \notin {"compact", "closed", "crashed"} /\ pc'[p] # "closed"
                  \/ pc[p] = "compact" /\ pc'[p] = "closed" /\ ~subToc[p]
               /\ subToc'[p] = subToc[p] \/ NewSubToc(p)
        PROVE  FullOf(p, ik)'
    <3>0. NewSubToc(p) => pc[p] = "newSubToc"
        BY DEF NewSubToc
    <3>1. CASE IndexQuiet(Full(p, ik))
      <4>1. pc'[p] # "crashed" => pc[p] # "crashed"
        BY <2>4
      <4>2. pc'[p] = "closed" /\ subToc'[p] => pc[p] = "closed" /\ subToc[p]
        BY <2>4, <3>0
      <4> QED
        BY <1>0, <2>1, <2>4, <3>1, <4>1, <4>2, QuietFull
    <3>2. ASSUME NEW fk \in FieldKeys, Archive(p, ik, fk) PROVE FullOf(p, ik)'
      <4>1. /\ pc[p] = "idle" /\ pc' = pc /\ toPublish' = toPublish /\ ixOffset' = ixOffset
            /\ btree'[x] # btree[x] => x \in PutInto(p, ik)
            /\ ixDirty'[x] <=> (ixDirty[x] \/ x \in PutInto(p, ik))
        BY <3>2 DEF Archive
      <4>2. x \notin toPublish[p]
        BY <1>0, <4>1 DEF BlockOf
      <4> QED
        BY <2>0, <2>1, <4>1, <4>2 DEF FullOf
    <3>3. CASE Crash(p)
      <4>1. /\ btree'[x] = EmptyTree /\ ixOffset' = ixOffset /\ pc'[p] = "crashed"
        BY <1>1, <1>2, <2>0, <3>3 DEF Crash, Goto
      <4> QED
        BY <2>0, <2>1, <4>1 DEF FullOf
    <3>4. CASE FlushFull(p, ik)
        BY <2>3, <3>4
    <3> QED
        BY <1>0, <3>1, <3>2, <3>3, <3>4, FullSteps
  <2> QED
    BY <1>0, <2>2, <2>3, <2>4, BlockSteps
<1> QED
    BY <1>5, <1>6

-----------------------------------------------------------------------------
(* Steps of the history: where the archived fields are. *)

(* Nobody but Crash makes a process crashed, and nothing brings it back. *)
LEMMA CrashOnly ==
    ASSUME TypeOK, [Next]_vars, ~IOErrors, NEW p \in Procs
    PROVE  /\ pc'[p] = "crashed" => pc[p] = "crashed" \/ Crash(p)
           /\ pc[p] = "crashed" => pc'[p] = "crashed"
<1>0. pc \in [Procs -> PCs]
    BY DEF TypeOK
<1>1. ASSUME NEW q \in Procs,
             \/ OpenToc(q) \/ CopySchema(q) \/ WriteInit(q) \/ Flush(q) \/ Close(q)
             \/ StoreFlushed(q) \/ NewSubToc(q) \/ LinkSubToc(q) \/ WriteIndex(q)
             \/ CatalogueFlushed(q) \/ Compact(q) \/ NothingToCompact(q)
      PROVE  pc[q] # "crashed" /\ \E l \in PCs \ {"crashed"} : pc' = [pc EXCEPT ![q] = l]
    BY <1>1 DEF OpenToc, CopySchema, WriteInit, Flush, Close, StoreFlushed, NewSubToc,
        LinkSubToc, WriteIndex, CatalogueFlushed, Compact, NothingToCompact, Goto, PCs
<1>2. ASSUME NEW q \in Procs, NEW k \in IndexKeys, FlushIndex(q, k)
      PROVE  pc[q] # "crashed" /\ \E l \in PCs \ {"crashed"} : pc' = [pc EXCEPT ![q] = l]
    BY <1>2 DEF FlushIndex, Goto, PCs
<1>3. ASSUME NEW q \in Procs, NEW k \in IndexKeys,
             \/ Spill(q, k) \/ FlushHandle(q, k) \/ FlushFull(q, k)
             \/ \E fk \in FieldKeys : Archive(q, k, fk)
      PROVE  pc' = pc
    BY <1>3 DEF Spill, FlushHandle, FlushFull, Archive
<1>4. ASSUME NEW q \in Procs, Crash(q)
      PROVE  pc[q] # "crashed" /\ pc' = [pc EXCEPT ![q] = "crashed"]
    BY <1>4 DEF Crash, Goto
<1>5. UNCHANGED vars => pc' = pc
    BY DEF vars, memory
<1> QED
    BY <1>0, <1>1, <1>2, <1>3, <1>4, <1>5, NextNoErrors

(* A location of an index that covers a field lies in what was archived into its data file. *)
LEMMA CoveredField ==
    ASSUME NEW v \in Values
    PROVE  /\ v.proc \in Procs /\ v.ik \in IndexKeys /\ v.fk \in FieldKeys /\ v.n \in Nat
           /\ <<v.proc, v.ik>> \in DataFiles
           /\ Part(v.proc, v.ik) \in IndexFiles /\ Full(v.proc, v.ik) \in IndexFiles
           /\ DataOf(Part(v.proc, v.ik)) = <<v.proc, v.ik>>
           /\ DataOf(Full(v.proc, v.ik)) = <<v.proc, v.ik>>
           /\ Part(v.proc, v.ik)[1] = v.proc /\ Full(v.proc, v.ik)[1] = v.proc
           /\ Part(v.proc, v.ik)[2] = v.ik /\ Full(v.proc, v.ik)[2] = v.ik
BY DEF Values, DataFiles, IndexFiles, DataOf, Part, Full

(* What a tree covers it goes on covering while it is left alone and its process does not crash. *)
LEMMA TreeGoesOnCovering ==
    ASSUME Inv, [Next]_vars, ~IOErrors, NEW v \in Values, NEW x \in IndexFiles,
           DataOf(x) = <<v.proc, v.ik>>, Covers(btree[x], v), btree'[x] = btree[x],
           pc'[v.proc] = "crashed" => pc[v.proc] = "crashed"
    PROVE  Covers(btree[x], v)'
<1>1. PICK d : d = <<v.proc, v.ik>>
    OBVIOUS
<1>2. d \in DataFiles /\ d[1] = v.proc /\ v.fk \in FieldKeys
    BY <1>1 DEF Values, DataFiles
<1>3. PICK k : k = btree[x][v.fk].pos
    OBVIOUS
<1>4. k \in 1..Len(Written(d)) /\ Written(d)[k].n >= v.n /\ btree[x][v.fk] # NoField
    BY <1>1, <1>2, <1>3 DEF Covers, Inv, WriteOrder, TreesWritten
<1>5. WrittenStep(d)
    BY <1>2, NextWritten
<1>6. Written(d)'[k] = Written(d)[k]
    BY <1>2, <1>4, <1>5 DEF WrittenStep
<1>7. Written(<<v.proc, v.ik>>)' = Written(d)'
    BY <1>1 DEF Written
<1> QED
    BY <1>3, <1>4, <1>6, <1>7 DEF Covers

(* A section whose record has been written stays as it is. *)
LEMMA RecordedSectionStays ==
    ASSUME Inv, TocShape, FlushInv, [Next]_vars, ~IOErrors, NEW p \in Procs, NEW ik \in IndexKeys,
           NEW s \in 1..Len(sections[Part(p, ik)]), Recorded(Part(p, ik), s)
    PROVE  /\ s \in 1..Len(sections'[Part(p, ik)])
           /\ sections'[Part(p, ik)][s] = sections[Part(p, ik)][s]
           /\ Recorded(Part(p, ik), s)'
<1>0. /\ TypeOK /\ OffsetsWritten /\ TreesOrdered /\ RecordsPlaced /\ SubTocLinked
    BY DEF Inv, WriteOrder, FlushInv
<1>1. PICK x : x = Part(p, ik)
    OBVIOUS
<1>2. x \in IndexFiles /\ x[1] = p /\ x[3] = "part"
    BY <1>1 DEF IndexFiles, Part
<1>3. PICK n \in Nat : n = Len(sections[x])
    BY <1>0, <1>2 DEF TypeOK
<1>4. s \in Nat /\ s \in 1..n
    BY <1>1, <1>3
<1>5. s < ixOffset[x]
  <2>1. PICK t \in TocFiles : t = HomeToc(p)
    BY DEF HomeToc, TocFiles
  <2>2. PICK i \in 1..Len(tocs[t]) : tocs[t][i] = IndexRecord(x, s)
    BY <1>1, <1>2, <2>1 DEF Recorded
  <2>3. tocs[t][i].tag = "TOC_INDEX" /\ tocs[t][i].path = x /\ tocs[t][i].offset = s
    BY <2>2, RecordsDiffer
  <2> QED
    BY <1>0, <1>2, <2>3 DEF RecordsPlaced, IndexRecordPlaced
<1>6. ASSUME NEW y \in IndexFiles, WriteTree(y)
      PROVE  s \in 1..Len(sections'[x]) /\ sections'[x][s] = sections[x][s]
  <2>1. CASE y # x
    BY <1>0, <1>2, <1>3, <1>4, <1>6, <2>1 DEF WriteTree, TypeOK
  <2>2. CASE y = x
    <3>0. PICK m \in Nat \ {0} : m = ixOffset[x]
        BY <1>0, <1>2 DEF OffsetsWritten, TypeOK
    <3>1. /\ Len(sections'[x]) = m
          /\ \A k \in 1..m : k # m => k \in 1..Len(sections[x]) /\ sections'[x][k] = sections[x][k]
        BY <1>0, <1>2, <1>6, <2>2, <3>0, WriteTreeAtEnd DEF OffsetsWritten, TreesOrdered
    <3>2. s \in 1..m /\ s # m
        BY <1>4, <1>5, <3>0
    <3> QED
        BY <3>1, <3>2
  <2> QED
    BY <2>1, <2>2
<1>7. ASSUME sections' = sections
      PROVE  s \in 1..Len(sections'[x]) /\ sections'[x][s] = sections[x][s]
    BY <1>3, <1>4, <1>7
<1>8. s \in 1..Len(sections'[x]) /\ sections'[x][s] = sections[x][s]
  <2>1. ASSUME NEW q \in Procs, NEW k \in IndexKeys, FlushIndex(q, k) \/ FlushFull(q, k)
        PROVE  \E y \in IndexFiles : WriteTree(y)
    <3>1. Part(q, k) \in IndexFiles /\ Full(q, k) \in IndexFiles
        BY DEF IndexFiles, Part, Full
    <3> QED
        BY <2>1, <3>1 DEF FlushIndex, FlushFull
  <2>2. ASSUME NEW q \in Procs, NEW k \in IndexKeys, NEW fk \in FieldKeys, Archive(q, k, fk)
        PROVE  sections' = sections
    BY <2>2 DEF Archive, files
  <2>3. ASSUME NEW q \in Procs, WriteIndex(q) \/ Crash(q) PROVE sections' = sections
    BY <2>3 DEF WriteIndex, Crash, files
  <2> QED
    BY <1>6, <1>7, <2>1, <2>2, <2>3, WhoWritesIndexes
<1>9. Recorded(x, s)'
    BY <1>0, <1>1, <1>2, <1>4, RecordedSteps
<1> QED
    BY <1>1, <1>8, <1>9

(* What is published stays published. *)
LEMMA PublishedStays ==
    ASSUME Inv, TocShape, FlushInv, [Next]_vars, ~IOErrors, NEW v \in Values, Published(v)
    PROVE  Published(v)'
<1>0. TypeOK /\ SectionsDurable /\ ValuesOrdered
    BY DEF Inv, WriteOrder, FlushInv
<1>1. PICK d : d = <<v.proc, v.ik>>
    OBVIOUS
<1>2. PICK x : x = Part(v.proc, v.ik)
    OBVIOUS
<1>3. /\ d \in DataFiles /\ x \in IndexFiles /\ DataOf(x) = d /\ v.fk \in FieldKeys
      /\ v.proc \in Procs /\ v.ik \in IndexKeys
    BY <1>1, <1>2, CoveredField
<1>4. PICK s \in 1..Len(sections[x]) : Recorded(x, s) /\ Covers(sections[x][s], v)
    BY <1>2 DEF Published
<1>5. /\ s \in 1..Len(sections'[x]) /\ sections'[x][s] = sections[x][s] /\ Recorded(x, s)'
    BY <1>2, <1>3, <1>4, RecordedSectionStays
<1>6. PICK k : k = sections[x][s][v.fk].pos
    OBVIOUS
<1>7. sections[x][s][v.fk] # NoField /\ Written(d)[k].n >= v.n
    BY <1>1, <1>4, <1>6 DEF Covers
<1>8. k \in 1..Len(data[d]) /\ k \in 1..Len(Written(d))
  <2>1. k \in 1..Len(data[d])
    BY <1>0, <1>3, <1>4, <1>6, <1>7 DEF SectionsDurable, Durable
  <2> QED
    BY <1>0, <1>3, <2>1, DurableIsWritten, SMTT(30)
<1>9. Written(d)'[k] = Written(d)[k]
    BY <1>3, <1>8, NextWritten DEF WrittenStep
<1>10. Written(<<v.proc, v.ik>>)' = Written(d)'
    BY <1>1 DEF Written
<1>11. Covers(sections[x][s], v)'
    BY <1>5, <1>6, <1>7, <1>9, <1>10 DEF Covers
<1> QED
    BY <1>2, <1>5, <1>11 DEF Published

(* Archiving a field leaves a tree it is put into covering what it covered, and the field. *)
LEMMA ArchivedIsCovered ==
    ASSUME Inv, FlushInv, [Next]_vars, ~IOErrors, NEW p \in Procs, NEW ik \in IndexKeys,
           NEW fk \in FieldKeys, Archive(p, ik, fk), NEW x \in PutInto(p, ik), NEW v \in Values,
           v.proc = p, v.ik = ik,
           Covers(btree[x], v) \/ v = [proc |-> p, ik |-> ik, fk |-> fk, n |-> count + 1]
    PROVE  Covers(btree[x], v)'
<1>0. TypeOK /\ ValuesOrdered /\ TreesWritten
    BY DEF Inv, WriteOrder, FlushInv
<1>1. PICK d \in DataFiles : d = <<p, ik>>
    BY DEF DataFiles
<1>2. x \in IndexFiles /\ DataOf(x) = d
    BY <1>1 DEF PutInto, Part, Full, IndexFiles, DataOf
<1>3. PICK m \in Nat : m = Len(Written(d))
    BY <1>0, <1>1, ArchiveWritten
<1>4. /\ Written(d)'[m + 1] = [proc |-> p, ik |-> ik, fk |-> fk, n |-> count + 1]
    BY <1>0, <1>1, <1>3, ArchiveWritten
<1>5. /\ btree'[x][fk].pos = m + 1 /\ btree'[x][fk] # NoField
      /\ \A g \in FieldKeys : g # fk => btree'[x][g] = btree[x][g]
    BY <1>0, <1>1, <1>2, <1>3, ArchivePuts
<1>6. Written(<<v.proc, v.ik>>)' = Written(d)' /\ Written(<<v.proc, v.ik>>) = Written(d)
    BY <1>1 DEF Written
<1>7. count \in Nat /\ v.n \in Nat /\ v.fk \in FieldKeys
    BY <1>0, ArchiveAssumption DEF TypeOK, Values
<1>8. CASE v = [proc |-> p, ik |-> ik, fk |-> fk, n |-> count + 1]
  <2>1. v.fk = fk /\ v.n = count + 1
    BY <1>8
  <2>2. Written(d)'[m + 1].n = count + 1
    BY <1>4
  <2> QED
    BY <1>5, <1>6, <1>7, <2>1, <2>2 DEF Covers
<1>9. CASE Covers(btree[x], v)
  <2>1. PICK k : k = btree[x][v.fk].pos
    OBVIOUS
  <2>2. k \in 1..Len(Written(d)) /\ Written(d)[k].n >= v.n /\ btree[x][v.fk] # NoField
    BY <1>0, <1>2, <1>6, <1>7, <1>9, <2>1 DEF Covers, TreesWritten
  <2>3. CASE v.fk = fk
    <3>1. Written(d)[k].n <= count
        BY <1>0, <2>2 DEF ValuesOrdered
    <3>2. Written(d)[k].n \in Nat
      <4>1. Written(d) \in Seq(Values)
        <5>1. data[d] \in Seq(Values) /\ buf[d] \in Seq(Values)
            BY <1>0 DEF TypeOK
        <5> QED
            BY <5>1, ConcatProperties DEF Written
      <4>2. \A w \in Values : w.n \in Nat
        BY DEF Values
      <4> QED
        BY <2>2, <4>1, <4>2
    <3>3. v.n <= count + 1
        BY <1>7, <2>2, <3>1, <3>2
    <3>4. Written(d)'[m + 1].n = count + 1
        BY <1>4
    <3> QED
        BY <1>5, <1>6, <1>7, <2>3, <3>3, <3>4 DEF Covers
  <2>4. CASE v.fk # fk
    <3>1. btree'[x][v.fk] = btree[x][v.fk]
        BY <1>5, <1>7, <2>4
    <3>2. pc' = pc /\ d[1] = p
        BY <1>1 DEF Archive
    <3>3. Written(d)'[k] = Written(d)[k]
        BY <2>2, <3>2, NextWritten DEF WrittenStep
    <3> QED
        BY <1>6, <2>1, <2>2, <3>1, <3>3 DEF Covers
  <2> QED
    BY <2>3, <2>4
<1> QED
    BY <1>8, <1>9

(* A tree that covers something is not empty. *)
LEMMA CoversSomething ==
    ASSUME NEW v \in Values, NEW tree, Covers(tree, v)
    PROVE  tree # EmptyTree
<1>1. v.fk \in FieldKeys
    BY DEF Values
<1> QED
    BY <1>1 DEF Covers, EmptyTree

(* What happens to the histories of what was archived and flushed. *)
LEMMA HistorySteps ==
    ASSUME [Next]_vars, ~IOErrors
    PROVE  \/ UNCHANGED <<unacked, acked>>
           \/ \E p \in Procs : CatalogueFlushed(p) \/ Crash(p)
           \/ \E p \in Procs, ik \in IndexKeys, fk \in FieldKeys : Archive(p, ik, fk)
<1>1. ASSUME NEW p \in Procs,
             \/ OpenToc(p) \/ CopySchema(p) \/ WriteInit(p) \/ Flush(p) \/ Close(p)
             \/ StoreFlushed(p) \/ NewSubToc(p) \/ LinkSubToc(p) \/ WriteIndex(p)
             \/ Compact(p) \/ NothingToCompact(p)
      PROVE  UNCHANGED <<unacked, acked>>
    BY <1>1 DEF history, OpenToc, CopySchema, WriteInit, Flush, Close, StoreFlushed,
        NewSubToc, LinkSubToc, WriteIndex, Compact, NothingToCompact
<1>2. ASSUME NEW p \in Procs, NEW ik \in IndexKeys,
             Spill(p, ik) \/ FlushHandle(p, ik) \/ FlushIndex(p, ik) \/ FlushFull(p, ik)
      PROVE  UNCHANGED <<unacked, acked>>
    BY <1>2 DEF history, Spill, FlushHandle, FlushIndex, FlushFull
<1>3. UNCHANGED vars => UNCHANGED <<unacked, acked>>
    BY DEF vars, history
<1> QED
    BY <1>1, <1>2, <1>3, NextNoErrors

(* When flush returns, everything its process archived is published. *)
LEMMA FlushPublishes ==
    ASSUME Inv, FlushInv, NEW p \in Procs, CatalogueFlushed(p), NEW v \in unacked[p]
    PROVE  Published(v)
<1>0. TypeOK /\ ValuesOrdered /\ PartProgress /\ Accounted
    BY DEF Inv, FlushInv
<1>1. v \in Values /\ v.proc = p /\ (Published(v) \/ Covers(btree[Part(p, v.ik)], v))
    BY <1>0 DEF TypeOK, Accounted
<1>2. CASE Covers(btree[Part(p, v.ik)], v)
  <2>1. PICK ik \in IndexKeys : ik = v.ik
    BY <1>1 DEF Values
  <2>2. btree[Part(p, ik)] # EmptyTree
    BY <1>1, <1>2, <2>1, CoversSomething
  <2>3. pc[p] = "flushIndexes" /\ (dirty[p].catalogue => ~ixDirty[Part(p, ik)])
    BY DEF CatalogueFlushed
  <2> QED
    BY <1>0, <2>2, <2>3 DEF PartProgress, PartOf, WritingPCs
<1> QED
    BY <1>1, <1>2

(* Every field that was archived stays accounted for. *)
LEMMA NextAccounted ==
    ASSUME Inv, TocShape, FlushInv, [Next]_vars, ~IOErrors
    PROVE  Accounted'
<1>0. /\ TypeOK /\ TypeOK' /\ OffsetsWritten /\ ValuesOrdered /\ Accounted /\ PartProgress
      /\ SubTocLinked
      /\ pc \in [Procs -> PCs] /\ unacked \in [Procs -> SUBSET Values]
      /\ btree \in [IndexFiles -> Entries] /\ acked \subseteq Values
    BY NextTypeOK DEF Inv, WriteOrder, FlushInv, TypeOK
<1>1. ASSUME NEW v \in acked' PROVE Published(v)'
  <2>1. Published(v) /\ v \in Values
    <3>1. CASE v \in acked
        BY <1>0, <3>1 DEF Accounted
    <3>2. ASSUME NEW p \in Procs, CatalogueFlushed(p), v \in unacked[p] PROVE Published(v) /\ v \in Values
        BY <1>0, <3>2, FlushPublishes
    <3>3. v \in acked \/ \E p \in Procs : CatalogueFlushed(p) /\ v \in unacked[p]
        BY HistorySteps DEF CatalogueFlushed, Crash, Archive
    <3> QED
        BY <3>1, <3>2, <3>3
  <2> QED
    BY <2>1, PublishedStays
<1>2. ASSUME NEW p \in Procs, NEW v \in unacked'[p]
      PROVE  \/ v \in unacked[p]
             \/ \E ik \in IndexKeys, fk \in FieldKeys :
                  /\ Archive(p, ik, fk)
                  /\ v = [proc |-> p, ik |-> ik, fk |-> fk, n |-> count + 1]
  <2>1. ASSUME NEW q \in Procs, CatalogueFlushed(q) \/ Crash(q) PROVE v \in unacked[p]
    BY <1>0, <1>2, <2>1 DEF CatalogueFlushed, Crash
  <2>2. ASSUME NEW q \in Procs, NEW ik \in IndexKeys, NEW fk \in FieldKeys, Archive(q, ik, fk)
        PROVE  \/ v \in unacked[p]
               \/ q = p /\ v = [proc |-> p, ik |-> ik, fk |-> fk, n |-> count + 1]
    BY <1>0, <1>2, <2>2 DEF Archive
  <2> QED
    BY <1>2, <2>1, <2>2, HistorySteps
<1>3. ASSUME NEW p \in Procs, NEW v \in unacked'[p]
      PROVE  v.proc = p /\ (Published(v)' \/ Covers(btree[Part(p, v.ik)], v)')
  <2>0. v \in Values
    BY <1>0, <1>3 DEF TypeOK
  <2>1. ASSUME NEW ik \in IndexKeys, NEW fk \in FieldKeys, Archive(p, ik, fk),
               v = [proc |-> p, ik |-> ik, fk |-> fk, n |-> count + 1]
        PROVE  v.proc = p /\ Covers(btree[Part(p, v.ik)], v)'
    <3>1. v.proc = p /\ v.ik = ik /\ Part(p, ik) \in PutInto(p, ik)
        BY <2>1 DEF PutInto
    <3>2. Covers(btree[Part(p, ik)], v)'
        BY <2>0, <2>1, <3>1, ArchivedIsCovered
    <3> QED
        BY <3>1, <3>2
  <2>2. ASSUME v \in unacked[p]
        PROVE  v.proc = p /\ (Published(v)' \/ Covers(btree[Part(p, v.ik)], v)')
    <3>1. v.proc = p /\ (Published(v) \/ Covers(btree[Part(p, v.ik)], v))
        BY <1>0, <2>2 DEF Accounted
    <3>2. CASE Published(v)
        BY <2>0, <3>1, <3>2, PublishedStays
    <3>3. PICK ik \in IndexKeys : ik = v.ik
        BY <2>0 DEF Values
    <3>4. PICK x \in IndexFiles : x = Part(p, ik)
        BY DEF IndexFiles, Part
    <3>5. DataOf(x) = <<v.proc, v.ik>> /\ x[1] = p
        BY <3>1, <3>3, <3>4 DEF DataOf, Part
    <3>6. ASSUME Covers(btree[x], v) PROVE Published(v)' \/ Covers(btree[x], v)'
      <4>1. CASE btree'[x] = btree[x] /\ (pc'[p] = "crashed" => pc[p] = "crashed")
        BY <2>0, <3>1, <3>5, <3>6, <4>1, TreeGoesOnCovering
      <4>2. ASSUME NEW k \in IndexKeys, NEW fk \in FieldKeys, Archive(p, k, fk), x \in PutInto(p, k)
            PROVE  Covers(btree[x], v)'
        <5>1. k = ik
            BY <3>4, <4>2 DEF PutInto, Part, Full
        <5> QED
            BY <2>0, <3>1, <3>3, <3>6, <4>2, <5>1, ArchivedIsCovered
      <4>3. CASE Crash(p)
        BY <1>0, <1>3, <4>3 DEF Crash
      <4>4. ASSUME WriteIndex(p), current[p] = ik PROVE Published(v)'
        <5>1. PICK s : s = ixOffset[x]
            OBVIOUS
        <5>2. s \in 1..Len(sections[x]) /\ sections[x][s] = btree[x]
            BY <1>0, <3>4, <4>4, <5>1 DEF PartProgress, PartOf, WriteIndex, WritingPCs
        <5>3. sections' = sections /\ data' = data /\ buf' = buf
            BY <4>4 DEF WriteIndex
        <5>4. Recorded(x, s)'
          <6>1. PICK t \in TocFiles : t = HomeToc(p)
            BY DEF HomeToc, TocFiles
          <6>2. subToc[p] <=> p \in SubTocProcs
            BY <1>0, <4>4 DEF WriteIndex, SubTocLinked
          <6>3. PICK r : r = IndexRecord(x, s)
            OBVIOUS
          <6>4. r \in TocRecords
            BY <1>0, <5>1, <6>3, RecordTypes DEF TypeOK
          <6>5. PICK recs : recs = <<r>>
            OBVIOUS
          <6>6. recs \in Seq(TocRecords) /\ Len(recs) = 1 /\ recs[1] = r
            BY <6>4, <6>5
          <6>7. AppendToc(t, recs) /\ tocs \in [TocFiles -> Seq(TocRecords)]
            BY <1>0, <3>4, <4>4, <5>1, <6>1, <6>2, <6>3, <6>5 DEF WriteIndex, HomeToc, TypeOK
          <6>8. 1 \in 1..Len(recs)
            BY <6>6
          <6>9. /\ Len(tocs[t]) + 1 \in 1..Len(tocs'[t])
                /\ tocs'[t][Len(tocs[t]) + 1] = recs[1]
            BY <6>6, <6>7, <6>8, AppendAtEnd
          <6> QED
            BY <3>5, <6>1, <6>3, <6>6, <6>9 DEF Recorded
        <5>5. Covers(sections[x][s], v)'
            BY <3>6, <5>2, <5>3 DEF Covers, Written
        <5> QED
            BY <3>1, <3>3, <3>4, <5>2, <5>3, <5>4, <5>5 DEF Published
      <4>5. \/ btree'[x] = btree[x]
            \/ Crash(p)
            \/ WriteIndex(p) /\ current[p] = ik
            \/ \E k \in IndexKeys, fk \in FieldKeys : Archive(p, k, fk) /\ x \in PutInto(p, k)
        <5>1. ASSUME NEW q \in Procs, Crash(q), q # p PROVE btree'[x] = btree[x]
            BY <3>5, <5>1 DEF Crash
        <5>2. ASSUME NEW q \in Procs, WriteIndex(q), ~(q = p /\ current[p] = ik)
              PROVE  btree'[x] = btree[x]
          <6>1. current[q] \in IndexKeys
            BY <1>0, <5>2 DEF WriteIndex, OffsetsWritten
          <6>2. Part(q, current[q]) # x
            BY <3>4, <5>2, <6>1 DEF Part
          <6> QED
            BY <1>0, <5>2, <6>2 DEF WriteIndex
        <5>3. ASSUME NEW q \in Procs, NEW k \in IndexKeys, NEW fk \in FieldKeys, Archive(q, k, fk)
              PROVE  btree'[x] = btree[x] \/ (q = p /\ x \in PutInto(q, k))
          <6>1. x \in PutInto(q, k) => q = p
            BY <3>4 DEF PutInto, Part, Full
          <6> QED
            BY <5>3, <6>1 DEF Archive
        <5>4. ASSUME NEW q \in Procs, NEW k \in IndexKeys, FlushIndex(q, k) \/ FlushFull(q, k)
              PROVE  btree'[x] = btree[x]
            BY <5>4 DEF FlushIndex, FlushFull
        <5> QED
            BY <5>1, <5>2, <5>3, <5>4, WhoWritesIndexes
      <4>6. pc'[p] = "crashed" => pc[p] = "crashed" \/ Crash(p)
        BY <1>0, CrashOnly
      <4> QED
        BY <4>1, <4>2, <4>3, <4>4, <4>5, <4>6
    <3> QED
        BY <3>1, <3>2, <3>3, <3>4, <3>6
  <2> QED
    BY <1>2, <2>1, <2>2
<1>4. ASSUME NEW p \in SubTocProcs, pc'[p] # "crashed",
             NEW v \in acked' \cup unacked'[p], v.proc = p
      PROVE  Covers(btree[Full(p, v.ik)], v)'
  <2>0. v \in Values /\ p \in Procs
    BY <1>0, <1>4, ProcAssumption DEF TypeOK
  <2>3. PICK ik \in IndexKeys : ik = v.ik
    BY <2>0 DEF Values
  <2>4. PICK x \in IndexFiles : x = Full(p, ik)
    BY <2>0 DEF IndexFiles, Full
  <2>5. DataOf(x) = <<v.proc, v.ik>> /\ x[1] = p
    BY <1>4, <2>3, <2>4 DEF DataOf, Full
  <2>1. ASSUME NEW fk \in FieldKeys, Archive(p, ik, fk),
               v = [proc |-> p, ik |-> ik, fk |-> fk, n |-> count + 1]
        PROVE  Covers(btree[x], v)'
    <3>1. x \in PutInto(p, ik)
        BY <2>4 DEF PutInto
    <3> QED
        BY <1>4, <2>0, <2>1, <2>3, <3>1, ArchivedIsCovered
  <2>2. ASSUME v \in acked \cup unacked[p] PROVE Covers(btree[x], v)'
    <3>1. pc[p] # "crashed"
        BY <1>0, <1>4, <2>0, CrashOnly
    <3>2. Covers(btree[x], v)
        BY <1>0, <1>4, <2>2, <2>3, <2>4, <3>1 DEF Accounted
    <3>3. CASE btree'[x] = btree[x]
        BY <1>4, <2>0, <2>5, <3>2, <3>3, TreeGoesOnCovering
    <3>4. ASSUME NEW fk \in FieldKeys, Archive(p, ik, fk) PROVE Covers(btree[x], v)'
      <4>1. x \in PutInto(p, ik)
        BY <1>4, <2>4 DEF PutInto
      <4> QED
        BY <1>4, <2>0, <2>3, <3>2, <3>4, <4>1, ArchivedIsCovered
    <3>5. ~Crash(p)
        BY <1>0, <1>4, <2>0 DEF Crash, Goto
    <3>6. FlushFull(p, ik) => btree' = btree
        BY DEF FlushFull
    <3> QED
        BY <1>0, <2>0, <2>4, <3>3, <3>4, <3>5, <3>6, FullSteps DEF IndexQuiet
  <2>6. \/ v \in acked \cup unacked[p]
        \/ \E fk \in FieldKeys : /\ Archive(p, ik, fk)
                                 /\ v = [proc |-> p, ik |-> ik, fk |-> fk, n |-> count + 1]
    <3>1. CASE v \in unacked'[p]
        BY <1>2, <2>0, <2>3, <3>1
    <3>2. CASE v \in acked'
      <4>1. v \in acked \/ \E q \in Procs : CatalogueFlushed(q) /\ v \in unacked[q]
        BY <3>2, HistorySteps DEF CatalogueFlushed, Crash, Archive
      <4>2. \A q \in Procs : v \in unacked[q] => q = p
        BY <1>0, <1>4 DEF Accounted
      <4> QED
        BY <4>1, <4>2
    <3> QED
        BY <1>4, <3>1, <3>2
  <2> QED
    BY <2>1, <2>2, <2>3, <2>4, <2>6
<1> QED
    BY <1>1, <1>3, <1>4 DEF Accounted

-----------------------------------------------------------------------------
(* The theorem. *)

(* At the start nothing is archived, indexed or published. *)
LEMMA InitFlush == Init => FlushInv
<1> SUFFICES ASSUME Init PROVE FlushInv
    OBVIOUS
<1> USE DEF Init
<1>1. ValuesOrdered
    BY DEF ValuesOrdered, Written, DataFiles
<1>2. TreesOrdered
    BY DEF TreesOrdered
<1>3. RecordsPlaced
    BY DEF RecordsPlaced
<1>4. SubTocLinked
  <2>1. ASSUME NEW p \in Procs, NEW ik \in IndexKeys, NEW s \in Nat
        PROVE  ~Recorded(Part(p, ik), s)
    <3>1. p \in TocFiles /\ Master \in TocFiles /\ Part(p, ik)[1] = p
        BY DEF TocFiles, Part
    <3>2. tocs[HomeToc(p)] = << >>
        BY <3>1 DEF HomeToc
    <3> QED
        BY <3>1, <3>2 DEF Recorded
  <2> QED
    BY <2>1 DEF SubTocLinked
<1>5. PartProgress
  <2> SUFFICES ASSUME NEW p \in Procs, NEW ik \in IndexKeys PROVE PartOf(p, ik)
    BY DEF PartProgress
  <2>1. Part(p, ik) \in IndexFiles
    BY DEF IndexFiles, Part
  <2> QED
    BY <2>1 DEF PartOf, WritingPCs
<1>6. FullProgress
  <2> SUFFICES ASSUME NEW p \in Procs PROVE BlockOf(p) /\ \A ik \in IndexKeys : FullOf(p, ik)
    BY DEF FullProgress
  <2>1. \A ik \in IndexKeys : Full(p, ik) \in IndexFiles
    BY DEF IndexFiles, Full
  <2> QED
    BY <2>1 DEF BlockOf, FullOf
<1>7. Accounted
  <2>1. acked = {} /\ \A p \in Procs : unacked[p] = {}
    OBVIOUS
  <2>2. SubTocProcs \subseteq Procs
    BY ProcAssumption
  <2> QED
    BY ONLY <2>1, <2>2 DEF Accounted
<1> QED
    BY <1>1, <1>2, <1>3, <1>4, <1>5, <1>6, <1>7 DEF FlushInv

(* The invariant is inductive where no write fails. *)
LEMMA NextFlush ==
    ASSUME Inv, TocShape, FlushInv, [Next]_vars, ~IOErrors
    PROVE  FlushInv'
<1>1. ValuesOrdered /\ TreesOrdered
    BY DEF FlushInv
<1> QED
    BY <1>1, NextValues, NextTreesOrdered, NextPlaced, NextLinked, NextPart, NextFull, NextAccounted
       DEF FlushInv

(***************************************************************************)
(* What flush() has returned for can be retrieved from then on, whatever   *)
(* the other processes archive, publish, compact or crash on the way:      *)
(* the walk of the tocs (TocHandler::readAll, loadIndexes and the sub-toc  *)
(* masking) meets an index that leads to the field or to a later one of    *)
(* the same key (TocCatalogueWriter::flush, flushIndexes, compactSubToc-   *)
(* Indexes).  Where a write can fail this is false of the code: see        *)
(* section 6 of README.md.                                                 *)
(***************************************************************************)
THEOREM FlushedStaysRetrievable ==
    ASSUME ~IOErrors
    PROVE  Spec => []FlushedIsRetrievable
<1>1. Init => TocShape /\ FlushInv
    BY InitFlush DEF Init, TocShape, TocsWellFormed, InitProgress, SubTocProgress, TocFiles
<1>2. Inv /\ TocShape /\ FlushInv /\ [Next]_vars => TocShape' /\ FlushInv'
    BY NextShape, NextFlush
<1>3. Inv /\ FlushInv => FlushedIsRetrievable
    BY FlushInvImpliesRetrievable
<1> QED
    BY <1>1, <1>2, <1>3, InductiveInvariant, PTL DEF Spec

-----------------------------------------------------------------------------
(* What the refinement of FieldStore needs besides. *)

(* What is in the data files of a process is what it may archive. *)
OwnFields ==
    \A d \in DataFiles : \A i \in 1..Len(Written(d)) :
        <<d[2], Written(d)[i].fk>> \in MayArchive[d[1]]

(* Every section has its record, but for the one being published or lost in a crash. *)
PartRecorded(p, ik) ==
    \A s \in 1..Len(sections[Part(p, ik)]) :
        \/ Recorded(Part(p, ik), s)
        \/ /\ s = ixOffset[Part(p, ik)]
           /\ pc[p] = "crashed" \/ (pc[p] \in WritingPCs /\ current[p] = ik)

(* A writer that is cleaning up has flushed its indexes. *)
CleanWhenClosed(p, ik) == pc[p] \in {"compact", "closed"} => ~ixDirty[Part(p, ik)]

(* The full index of a process leads to the last of the fields its other index leads to. *)
Below(loc, full) == loc # NoField => full # NoField /\ loc.pos <= full.pos
FullLast(p, ik) ==
    p \in SubTocProcs /\ pc[p] # "crashed" => \A fk \in FieldKeys :
        /\ \/ btree[Full(p, ik)][fk] = NoField
           \/ btree[Full(p, ik)][fk] = btree[Part(p, ik)][fk]
           \/ \E s \in 1..Len(sections[Part(p, ik)]) :
                 btree[Full(p, ik)][fk] = sections[Part(p, ik)][s][fk]
        /\ Below(btree[Part(p, ik)][fk], btree[Full(p, ik)][fk])
        /\ \A s \in 1..Len(sections[Part(p, ik)]) :
              Below(sections[Part(p, ik)][s][fk], btree[Full(p, ik)][fk])

StoreInv ==
    /\ OwnFields
    /\ \A p \in Procs, ik \in IndexKeys :
          PartRecorded(p, ik) /\ CleanWhenClosed(p, ik) /\ FullLast(p, ik)

(* At the start there is nothing. *)
LEMMA InitStore == Init => StoreInv
<1> SUFFICES ASSUME Init PROVE StoreInv
    OBVIOUS
<1>1. ASSUME NEW d \in DataFiles PROVE 1..Len(Written(d)) = {}
  <2>1. data[d] = << >> /\ buf[d] = << >>
    BY DEF Init
  <2>2. << >> \o << >> = << >>
    BY ConcatEmptySeq, EmptySeq
  <2> QED
    BY <2>1, <2>2 DEF Written
<1>2. ASSUME NEW p \in Procs, NEW ik \in IndexKeys
      PROVE  PartRecorded(p, ik) /\ CleanWhenClosed(p, ik) /\ FullLast(p, ik)
  <2>1. Part(p, ik) \in IndexFiles /\ Full(p, ik) \in IndexFiles
    BY Names
  <2>2. sections[Part(p, ik)] = << >> /\ pc[p] = "start"
    BY <2>1 DEF Init
  <2>3. btree[Part(p, ik)] = EmptyTree /\ btree[Full(p, ik)] = EmptyTree
    BY <2>1 DEF Init
  <2>4. 1..Len(sections[Part(p, ik)]) = {}
    BY <2>2
  <2> QED
    BY <2>2, <2>3, <2>4 DEF PartRecorded, CleanWhenClosed, FullLast, Below, EmptyTree
<1> QED
    BY <1>1, <1>2 DEF StoreInv, OwnFields

(* Only Archive writes into a data file, and only what its process may archive. *)
LEMMA NextOwn ==
    ASSUME Inv, OwnFields, [Next]_vars, ~IOErrors
    PROVE  OwnFields'
<1> SUFFICES ASSUME NEW d \in DataFiles, NEW i \in 1..Len(Written(d)')
             PROVE  <<d[2], Written(d)'[i].fk>> \in MayArchive[d[1]]
    BY DEF OwnFields
<1>0. TypeOK /\ TypeOK' /\ count \in Nat /\ count' \in Nat
    BY NextTypeOK, ArchiveAssumption, SMTT(30) DEF Inv, TypeOK
<1>1. CASE i \in 1..Len(Written(d)) /\ Written(d)'[i] = Written(d)[i]
    BY <1>1 DEF OwnFields
<1>2. CASE count' = count
    BY <1>0, <1>1, <1>2, NextWritten DEF WrittenStep
<1>3. ASSUME NEW p \in Procs, NEW ik \in IndexKeys, NEW fk \in FieldKeys, Archive(p, ik, fk)
      PROVE  <<d[2], Written(d)'[i].fk>> \in MayArchive[d[1]]
  <2>1. PICK e \in DataFiles : e = <<p, ik>>
    BY DEF DataFiles
  <2>2. /\ Len(Written(e)') = Len(Written(e)) + 1
        /\ Len(Written(e)) \in Nat
        /\ Written(e)'[Len(Written(e)) + 1] = [proc |-> p, ik |-> ik, fk |-> fk, n |-> count + 1]
        /\ \A f \in DataFiles : f # e => Written(f)' = Written(f)
    BY <1>0, <1>3, <2>1, ArchiveWritten, ZenonT(60)
  <2>3. CASE d # e
    BY <1>1, <2>2, <2>3
  <2>4. CASE d = e
    <3>1. <<ik, fk>> \in MayArchive[p]
        BY <1>3 DEF Archive
    <3>2. \/ i \in 1..Len(Written(d)) /\ Written(d)'[i] = Written(d)[i]
          \/ i = Len(Written(d)) + 1
        BY NextWritten DEF WrittenStep
    <3>3. CASE i = Len(Written(d)) + 1
        BY <2>1, <2>2, <2>4, <3>1, <3>3
    <3> QED
        BY <1>1, <3>2, <3>3
  <2> QED
    BY <2>3, <2>4
<1>4. ASSUME NEW p \in Procs, NEW ik \in IndexKeys, Spill(p, ik) \/ FlushHandle(p, ik)
      PROVE  count' = count
    BY <1>4 DEF Spill, FlushHandle, history
<1>5. ASSUME NEW p \in Procs, Crash(p) PROVE count' = count
    BY <1>5 DEF Crash
<1> QED
    BY <1>2, <1>3, <1>4, <1>5, WhoWritesData

(* How a process moves, seen from the index it is publishing. *)
LEMMA WritingSteps ==
    ASSUME TypeOK, [Next]_vars, ~IOErrors, NEW p \in Procs
    PROVE  \/ pc'[p] = pc[p] /\ current'[p] = current[p]
           \/ WriteIndex(p) \/ Crash(p) \/ CatalogueFlushed(p)
           \/ \E ik \in IndexKeys : FlushIndex(p, ik)
           \/ pc[p] \in WritingPCs /\ pc'[p] \in WritingPCs /\ current'[p] = current[p]
           \/ /\ pc[p] \notin WritingPCs \cup {"crashed", "closed"}
              /\ pc'[p] \notin WritingPCs \cup {"crashed", "compact"}
              /\ pc'[p] = "closed" => pc[p] = "compact"
<1>0. pc \in [Procs -> PCs] /\ current \in [Procs -> IndexKeys \cup {NoField}]
    BY DEF TypeOK
<1>1. ASSUME NEW q \in Procs, NEW l \in PCs, pc' = [pc EXCEPT ![q] = l]
      PROVE  (q # p => pc'[p] = pc[p]) /\ (q = p => pc'[p] = l)
    BY <1>0, <1>1
<1>2. ASSUME NEW q \in Procs,
             \/ OpenToc(q) \/ CopySchema(q) \/ WriteInit(q) \/ Flush(q) \/ Close(q)
             \/ StoreFlushed(q) \/ Compact(q) \/ NothingToCompact(q)
      PROVE  /\ current' = current
             /\ \E l \in PCs : /\ pc' = [pc EXCEPT ![q] = l]
                               /\ pc[q] \notin WritingPCs \cup {"crashed", "closed"}
                               /\ l \notin WritingPCs \cup {"crashed", "compact"}
                               /\ l = "closed" => pc[q] = "compact"
    BY <1>2 DEF OpenToc, CopySchema, WriteInit, Flush, Close, StoreFlushed, Compact,
        NothingToCompact, Goto, PCs, WritingPCs, files
<1>3. ASSUME NEW q \in Procs, NewSubToc(q) \/ LinkSubToc(q)
      PROVE  /\ current' = current
             /\ \E l \in PCs : /\ pc' = [pc EXCEPT ![q] = l]
                               /\ pc[q] \in WritingPCs /\ l \in WritingPCs
    BY <1>3 DEF NewSubToc, LinkSubToc, Goto, PCs, WritingPCs
<1>4. ASSUME NEW q \in Procs, q # p, WriteIndex(q) \/ Crash(q) \/ CatalogueFlushed(q)
      PROVE  pc'[p] = pc[p] /\ current'[p] = current[p]
    BY <1>0, <1>4 DEF WriteIndex, Crash, CatalogueFlushed, Goto
<1>5. ASSUME NEW q \in Procs, NEW k \in IndexKeys, q # p, FlushIndex(q, k)
      PROVE  pc'[p] = pc[p] /\ current'[p] = current[p]
    BY <1>0, <1>5 DEF FlushIndex, Goto
<1>6. ASSUME NEW q \in Procs, NEW k \in IndexKeys,
             Spill(q, k) \/ FlushHandle(q, k) \/ FlushFull(q, k) \/ \E fk \in FieldKeys : Archive(q, k, fk)
      PROVE  UNCHANGED <<pc, current>>
    BY <1>6 DEF Spill, FlushHandle, FlushFull, Archive
<1>7. UNCHANGED vars => UNCHANGED <<pc, current>>
    BY DEF vars, memory
<1>8. ASSUME NEW q \in Procs,
             \/ OpenToc(q) \/ CopySchema(q) \/ WriteInit(q) \/ Flush(q) \/ Close(q)
             \/ StoreFlushed(q) \/ Compact(q) \/ NothingToCompact(q)
      PROVE  \/ pc'[p] = pc[p] /\ current'[p] = current[p]
             \/ /\ pc[p] \notin WritingPCs \cup {"crashed", "closed"}
                /\ pc'[p] \notin WritingPCs \cup {"crashed", "compact"}
                /\ pc'[p] = "closed" => pc[p] = "compact"
  <2>1. PICK l \in PCs : /\ pc' = [pc EXCEPT ![q] = l]
                         /\ pc[q] \notin WritingPCs \cup {"crashed", "closed"}
                         /\ l \notin WritingPCs \cup {"crashed", "compact"}
                         /\ l = "closed" => pc[q] = "compact"
    BY <1>2, <1>8
  <2>2. current' = current
    BY <1>2, <1>8
  <2> QED
    BY <1>1, <2>1, <2>2
<1>9. ASSUME NEW q \in Procs, NewSubToc(q) \/ LinkSubToc(q)
      PROVE  \/ pc'[p] = pc[p] /\ current'[p] = current[p]
             \/ pc[p] \in WritingPCs /\ pc'[p] \in WritingPCs /\ current'[p] = current[p]
    BY <1>1, <1>3, <1>9
<1> QED
    BY <1>4, <1>5, <1>6, <1>7, <1>8, <1>9, NextNoErrors

(* What touches the index of a key. *)
LEMMA PartSteps ==
    ASSUME TypeOK, OffsetsWritten, [Next]_vars, ~IOErrors, NEW p \in Procs, NEW ik \in IndexKeys
    PROVE  \/ IndexQuiet(Part(p, ik))
           \/ \E fk \in FieldKeys : Archive(p, ik, fk)
           \/ FlushIndex(p, ik)
           \/ WriteIndex(p) /\ current[p] = ik
           \/ Crash(p)
<1>1. /\ ixDirty \in [IndexFiles -> BOOLEAN] /\ btree \in [IndexFiles -> Entries]
      /\ sections \in [IndexFiles -> Seq(Entries)] /\ ixOffset \in [IndexFiles -> Nat]
    BY DEF TypeOK
<1>2. PICK x : x = Part(p, ik)
    OBVIOUS
<1>3. x \in IndexFiles /\ x[1] = p
    BY <1>2 DEF IndexFiles, Part
<1>4. \A q \in Procs, k \in IndexKeys :
          /\ Full(q, k) # x /\ (Part(q, k) = x => q = p /\ k = ik)
          /\ x \in PutInto(q, k) => q = p /\ k = ik
    BY <1>2 DEF Part, Full, PutInto
<1>5. ASSUME UNCHANGED <<btree, ixDirty, sections, ixOffset>> PROVE IndexQuiet(x)
    BY <1>5 DEF IndexQuiet
<1>6. ASSUME NEW q \in Procs,
             \/ OpenToc(q) \/ CopySchema(q) \/ WriteInit(q) \/ Flush(q) \/ Close(q)
             \/ StoreFlushed(q) \/ NewSubToc(q) \/ LinkSubToc(q) \/ Compact(q)
             \/ NothingToCompact(q) \/ CatalogueFlushed(q)
      PROVE  IndexQuiet(x)
    BY <1>5, <1>6 DEF OpenToc, CopySchema, WriteInit, Flush, Close, StoreFlushed, NewSubToc,
        LinkSubToc, Compact, NothingToCompact, CatalogueFlushed, files
<1>7. ASSUME NEW q \in Procs, NEW k \in IndexKeys, Spill(q, k) \/ FlushHandle(q, k)
      PROVE  IndexQuiet(x)
    BY <1>5, <1>7 DEF Spill, FlushHandle
<1>8. ASSUME NEW q \in Procs, NEW k \in IndexKeys, FlushFull(q, k) PROVE IndexQuiet(x)
    BY <1>1, <1>3, <1>4, <1>8 DEF IndexQuiet, FlushFull, WriteTree
<1>9. ASSUME NEW q \in Procs, WriteIndex(q), ~(q = p /\ current[p] = ik) PROVE IndexQuiet(x)
  <2>1. current[q] \in IndexKeys
    BY <1>9 DEF WriteIndex, OffsetsWritten
  <2>2. Part(q, current[q]) # x
    BY <1>4, <1>9, <2>1
  <2> QED
    BY <1>1, <1>3, <1>9, <2>2 DEF IndexQuiet, WriteIndex
<1>10. ASSUME NEW q \in Procs, NEW k \in IndexKeys, FlushIndex(q, k), ~(q = p /\ k = ik)
       PROVE  IndexQuiet(x)
    BY <1>1, <1>3, <1>4, <1>10 DEF IndexQuiet, FlushIndex, WriteTree
<1>11. ASSUME NEW q \in Procs, NEW k \in IndexKeys, NEW fk \in FieldKeys, Archive(q, k, fk),
              ~(q = p /\ k = ik)
       PROVE  IndexQuiet(x)
  <2>1. x \notin PutInto(q, k)
    BY <1>4, <1>11
  <2> QED
    BY <1>3, <1>11, <2>1 DEF IndexQuiet, Archive, files
<1>12. ASSUME NEW q \in Procs, Crash(q), q # p PROVE IndexQuiet(x)
    BY <1>3, <1>12 DEF IndexQuiet, Crash, files
<1>13. UNCHANGED vars => UNCHANGED <<btree, ixDirty, sections, ixOffset>>
    BY DEF vars, files, memory
<1> QED
    BY <1>2, <1>5, <1>6, <1>7, <1>8, <1>9, <1>10, <1>11, <1>12, <1>13, NextNoErrors

(* A recorded section is in its index file, and before the place of the next. *)
LEMMA RecordedBelow ==
    ASSUME Inv, FlushInv, NEW p \in Procs, NEW ik \in IndexKeys, NEW s \in Nat,
           Recorded(Part(p, ik), s)
    PROVE  s \in 1..Len(sections[Part(p, ik)]) /\ s < ixOffset[Part(p, ik)]
<1>0. RecordsPlaced /\ RecordsWritten
    BY DEF Inv, WriteOrder, FlushInv
<1>1. PICK x : x = Part(p, ik)
    OBVIOUS
<1>2. x \in IndexFiles /\ x[1] = p /\ x[3] = "part"
    BY <1>1 DEF IndexFiles, Part
<1>3. PICK t \in TocFiles : t = HomeToc(p)
    BY DEF HomeToc, TocFiles
<1>4. PICK i \in 1..Len(tocs[t]) : tocs[t][i] = IndexRecord(x, s)
    BY <1>1, <1>2, <1>3 DEF Recorded
<1>5. tocs[t][i].tag = "TOC_INDEX" /\ tocs[t][i].path = x /\ tocs[t][i].offset = s
    BY <1>4, RecordsDiffer
<1>6. s < ixOffset[x]
    BY <1>0, <1>2, <1>5 DEF RecordsPlaced, IndexRecordPlaced
<1>7. s \in 1..Len(sections[x])
    BY <1>0, <1>5 DEF RecordsWritten
<1> QED
    BY <1>1, <1>6, <1>7

(* WriteIndex records the section of the index that was being published. *)
LEMMA WriteIndexRecords ==
    ASSUME Inv, FlushInv, NEW p \in Procs, NEW ik \in IndexKeys, WriteIndex(p), current[p] = ik
    PROVE  /\ ixOffset[Part(p, ik)] \in 1..Len(sections[Part(p, ik)])
           /\ sections[Part(p, ik)][ixOffset[Part(p, ik)]] = btree[Part(p, ik)]
           /\ \A s : s = ixOffset[Part(p, ik)] => Recorded(Part(p, ik), s)'
           /\ sections' = sections /\ data' = data /\ buf' = buf
           /\ btree'[Part(p, ik)] = EmptyTree
           /\ pc[p] = "writeIndex" /\ pc'[p] = "flushIndexes" /\ ixDirty' = ixDirty
<1>0. TypeOK /\ PartOf(p, ik) /\ SubTocLinked
    BY DEF Inv, WriteOrder, FlushInv, PartProgress
<1>1. PICK x : x = Part(p, ik)
    OBVIOUS
<1>2. x \in IndexFiles /\ x[1] = p
    BY <1>1, Names
<1>3. PICK s : s = ixOffset[x]
    OBVIOUS
<1>4. /\ sections' = sections /\ data' = data /\ buf' = buf /\ ixDirty' = ixDirty
      /\ btree' = [btree EXCEPT ![x] = EmptyTree]
      /\ pc[p] = "writeIndex" /\ pc' = [pc EXCEPT ![p] = "flushIndexes"]
    BY <1>1 DEF WriteIndex, Goto
<1>5. btree'[x] = EmptyTree /\ pc'[p] = "flushIndexes"
    BY <1>0, <1>2, <1>4 DEF TypeOK
<1>6. s \in 1..Len(sections[x]) /\ sections[x][s] = btree[x]
    BY <1>0, <1>1, <1>3, <1>4 DEF PartOf, WritingPCs
<1>7. s \in Nat
    BY <1>0, <1>2, <1>3 DEF TypeOK
<1>8. Recorded(x, s)'
  <2>1. PICK t \in TocFiles : t = HomeToc(p)
    BY DEF HomeToc, TocFiles
  <2>2. subToc[p] <=> p \in SubTocProcs
    BY <1>0, <1>4 DEF SubTocLinked
  <2>3. PICK r : r = IndexRecord(x, s)
    OBVIOUS
  <2>4. r \in TocRecords
    BY <1>2, <1>7, <2>3, RecordTypes
  <2>5. PICK recs : recs = <<r>>
    OBVIOUS
  <2>6. recs \in Seq(TocRecords) /\ Len(recs) = 1 /\ recs[1] = r
    BY <2>4, <2>5
  <2>7. AppendToc(t, recs) /\ tocs \in [TocFiles -> Seq(TocRecords)]
    BY <1>0, <1>1, <1>3, <2>1, <2>2, <2>3, <2>5 DEF WriteIndex, HomeToc, TypeOK
  <2>8. 1 \in 1..Len(recs)
    BY <2>6
  <2>9. /\ Len(tocs[t]) + 1 \in 1..Len(tocs'[t])
        /\ tocs'[t][Len(tocs[t]) + 1] = recs[1]
    BY <2>6, <2>7, <2>8, AppendAtEnd
  <2> QED
    BY <1>2, <2>1, <2>3, <2>6, <2>9 DEF Recorded
<1>9. \A n : n = ixOffset[Part(p, ik)] => Recorded(Part(p, ik), n)'
    BY <1>1, <1>3, <1>8
<1> QED
    BY <1>1, <1>3, <1>4, <1>5, <1>6, <1>9

(* What FlushIndex does to its index: the tree becomes a new last section. *)
LEMMA FlushIndexAppends ==
    ASSUME Inv, FlushInv, NEW p \in Procs, NEW ik \in IndexKeys, PartRecorded(p, ik),
           FlushIndex(p, ik), NEW x, x = Part(p, ik)
    PROVE  /\ Len(sections'[x]) = ixOffset[x] /\ ixOffset[x] \in Nat \ {0}
           /\ ixOffset'[x] = ixOffset[x] /\ btree' = btree
           /\ sections'[x][ixOffset[x]] = btree[x]
           /\ \A s \in 1..Len(sections'[x]) : s # ixOffset[x] =>
                 s \in 1..Len(sections[x]) /\ sections'[x][s] = sections[x][s]
           /\ \A s \in 1..Len(sections[x]) :
                 s \in 1..Len(sections'[x]) /\ sections'[x][s] = sections[x][s] /\ Recorded(x, s)
           /\ pc'[p] \in WritingPCs /\ current'[p] = ik
<1>0. TypeOK /\ OffsetsWritten /\ TreesOrdered
    BY DEF Inv, WriteOrder, FlushInv
<1>1. x \in IndexFiles
    BY DEF IndexFiles, Part
<1>2. /\ WriteTree(x) /\ ixOffset' = ixOffset /\ btree' = btree /\ pc[p] = "flushIndexes"
      /\ pc' = [pc EXCEPT ![p] = pc'[p]] /\ pc'[p] \in WritingPCs /\ current'[p] = ik
    BY <1>0 DEF FlushIndex, Goto, TypeOK, WritingPCs
<1>3. PICK m \in Nat \ {0} : m = ixOffset[x]
    BY <1>0, <1>1 DEF OffsetsWritten, TypeOK
<1>4. /\ Len(sections'[x]) = m
      /\ sections'[x][m] = btree[x]
      /\ \A s \in 1..m : s # m => s \in 1..Len(sections[x]) /\ sections'[x][s] = sections[x][s]
      /\ \A s \in 1..Len(sections[x]) : s # m => s \in 1..m
    BY <1>0, <1>1, <1>2, <1>3, WriteTreeAtEnd DEF OffsetsWritten, TreesOrdered
<1>5. Len(sections[x]) \in Nat
    BY <1>0, <1>1 DEF TypeOK
<1>6. ASSUME NEW s \in 1..Len(sections[x]) PROVE Recorded(x, s) /\ s # m
  <2>1. Recorded(x, s)
    BY <1>2 DEF PartRecorded, WritingPCs
  <2>2. s \in Nat
    BY <1>5
  <2>3. s < ixOffset[x]
    BY <2>1, <2>2, RecordedBelow
  <2> QED
    BY <1>3, <2>1, <2>2, <2>3
<1> QED
    BY <1>2, <1>3, <1>4, <1>6

(* Every section is recorded, lost in a crash or being published. *)
LEMMA NextPartRecorded ==
    ASSUME Inv, TocShape, FlushInv, [Next]_vars, ~IOErrors, NEW p \in Procs, NEW ik \in IndexKeys,
           PartRecorded(p, ik)
    PROVE  PartRecorded(p, ik)'
<1>0. TypeOK /\ OffsetsWritten /\ SubTocLinked
    BY DEF Inv, WriteOrder, FlushInv
<1>1. PICK x : x = Part(p, ik)
    OBVIOUS
<1>2. x \in IndexFiles
    BY <1>1 DEF IndexFiles, Part
<1>3. \A s \in Nat : Recorded(x, s) => Recorded(x, s)'
    BY <1>0, <1>2, RecordedSteps
<1>4. Len(sections[x]) \in Nat
    BY <1>0, <1>2 DEF TypeOK
<1>5. SUFFICES ASSUME NEW s \in 1..Len(sections'[x])
               PROVE  \/ Recorded(x, s)'
                      \/ /\ s = ixOffset'[x]
                         /\ pc'[p] = "crashed" \/ (pc'[p] \in WritingPCs /\ current'[p] = ik)
    BY <1>1 DEF PartRecorded
<1>6. ASSUME s \in 1..Len(sections[x])
      PROVE  \/ Recorded(x, s)'
             \/ s = ixOffset[x] /\ pc[p] = "crashed"
             \/ s = ixOffset[x] /\ pc[p] \in WritingPCs /\ current[p] = ik
    BY <1>1, <1>3, <1>4, <1>6 DEF PartRecorded
<1>7. CASE FlushIndex(p, ik)
  <2>1. CASE s = ixOffset[x]
    BY <1>1, <1>7, <2>1, FlushIndexAppends
  <2>2. CASE s # ixOffset[x]
    <3>1. s \in 1..Len(sections[x]) /\ Recorded(x, s)
        BY <1>1, <1>7, <2>2, FlushIndexAppends
    <3> QED
        BY <1>3, <1>4, <3>1
  <2> QED
    BY <2>1, <2>2
<1>8. CASE WriteIndex(p) /\ current[p] = ik
  <2>1. sections' = sections /\ \A n : n = ixOffset[x] => Recorded(x, n)'
    BY <1>1, <1>8, WriteIndexRecords
  <2>2. pc[p] = "writeIndex"
    BY <1>8 DEF WriteIndex
  <2> QED
    BY <1>6, <2>1, <2>2
<1>9. CASE Crash(p)
  <2>1. sections' = sections /\ ixOffset' = ixOffset /\ pc'[p] = "crashed"
    BY <1>0, <1>9 DEF Crash, Goto, files, TypeOK
  <2> QED
    BY <1>6, <2>1
<1>10. CASE /\ sections'[x] = sections[x] /\ ixOffset'[x] = ixOffset[x]
            /\ ~FlushIndex(p, ik) /\ ~(WriteIndex(p) /\ current[p] = ik) /\ ~Crash(p)
  <2>1. CASE pc[p] = "crashed"
    <3>1. pc'[p] = "crashed"
        BY <1>0, <2>1, CrashOnly
    <3> QED
        BY <1>6, <1>10, <2>1, <3>1 DEF WritingPCs
  <2>2. CASE pc[p] \in WritingPCs /\ current[p] = ik
    <3>1. ~CatalogueFlushed(p)
        BY <2>2 DEF CatalogueFlushed, WritingPCs
    <3>2. \A k \in IndexKeys : ~FlushIndex(p, k)
        BY <2>2 DEF FlushIndex, WritingPCs
    <3>3. pc'[p] \in WritingPCs /\ current'[p] = current[p]
        BY <1>0, <1>10, <2>2, <3>1, <3>2, WritingSteps
    <3> QED
        BY <1>6, <1>10, <2>2, <3>3
  <2>3. CASE pc[p] # "crashed" /\ ~(pc[p] \in WritingPCs /\ current[p] = ik)
    BY <1>6, <1>10, <2>3
  <2> QED
    BY <2>1, <2>2, <2>3
<1>11. ASSUME NEW fk \in FieldKeys, Archive(p, ik, fk)
       PROVE  /\ sections' = sections /\ ixOffset' = ixOffset
              /\ ~FlushIndex(p, ik) /\ ~WriteIndex(p)
    BY <1>11 DEF Archive, files, FlushIndex, WriteIndex
<1>12. \/ sections'[x] = sections[x] /\ ixOffset'[x] = ixOffset[x]
       \/ FlushIndex(p, ik)
       \/ WriteIndex(p) /\ current[p] = ik
       \/ Crash(p)
    BY <1>0, <1>1, <1>11, PartSteps DEF IndexQuiet
<1> QED
    BY <1>7, <1>8, <1>9, <1>10, <1>12

(* CatalogueFlushed waits for the indexes; nothing is archived after it. *)
LEMMA NextClean ==
    ASSUME Inv, FlushInv, [Next]_vars, ~IOErrors, NEW p \in Procs, NEW ik \in IndexKeys,
           CleanWhenClosed(p, ik)
    PROVE  CleanWhenClosed(p, ik)'
<1>0. TypeOK /\ OffsetsWritten /\ PartOf(p, ik)
    BY DEF Inv, WriteOrder, FlushInv, PartProgress
<1>1. SUFFICES ASSUME pc'[p] \in {"compact", "closed"} PROVE ~ixDirty'[Part(p, ik)]
    BY DEF CleanWhenClosed
<1>2. pc \in [Procs -> PCs]
    BY <1>0 DEF TypeOK
<1>3. ~ixDirty[Part(p, ik)]
  <2>1. CASE CatalogueFlushed(p)
    BY <1>0, <2>1 DEF CatalogueFlushed, PartOf
  <2>2. CASE pc[p] \in {"compact", "closed"}
    BY <2>2 DEF CleanWhenClosed
  <2>3. ~WriteIndex(p) /\ ~Crash(p)
    BY <1>1, <1>2 DEF WriteIndex, Crash, Goto
  <2>4. ASSUME NEW k \in IndexKeys, FlushIndex(p, k) PROVE FALSE
    BY <1>1, <1>2, <2>4 DEF FlushIndex, Goto
  <2>5. pc'[p] \notin WritingPCs
    BY <1>1 DEF WritingPCs
  <2> QED
    BY <1>0, <1>1, <2>1, <2>2, <2>3, <2>4, <2>5, WritingSteps
<1>4. ASSUME NEW fk \in FieldKeys, Archive(p, ik, fk) PROVE FALSE
    BY <1>1, <1>4 DEF Archive
<1>5. ~Crash(p) /\ ~WriteIndex(p)
    BY <1>1, <1>2 DEF WriteIndex, Crash, Goto
<1>6. ~FlushIndex(p, ik)
    BY <1>1, <1>2 DEF FlushIndex, Goto
<1> QED
    BY <1>0, <1>3, <1>4, <1>5, <1>6, PartSteps DEF IndexQuiet

(* The full index keeps up with the other. *)
LEMMA NextFullLast ==
    ASSUME Inv, FlushInv, [Next]_vars, ~IOErrors, NEW p \in Procs, NEW ik \in IndexKeys,
           PartRecorded(p, ik), FullLast(p, ik)
    PROVE  FullLast(p, ik)'
<1>0. TypeOK /\ OffsetsWritten /\ SectionsDurable
    BY DEF Inv, WriteOrder
<1>1. PICK x : x = Part(p, ik)
    OBVIOUS
<1>2. PICK y : y = Full(p, ik)
    OBVIOUS
<1>3. x \in IndexFiles /\ y \in IndexFiles /\ x[2] = ik /\ DataOf(x) = <<p, ik>>
    BY <1>1, <1>2 DEF IndexFiles, Part, Full, DataOf
<1>4. SUFFICES ASSUME p \in SubTocProcs, pc'[p] # "crashed", NEW fk \in FieldKeys
               PROVE  /\ \/ btree'[y][fk] = NoField
                         \/ btree'[y][fk] = btree'[x][fk]
                         \/ \E s \in 1..Len(sections'[x]) : btree'[y][fk] = sections'[x][s][fk]
                      /\ Below(btree'[x][fk], btree'[y][fk])
                      /\ \A s \in 1..Len(sections'[x]) : Below(sections'[x][s][fk], btree'[y][fk])
  <2>1. \A s, t : Below(s, t)' <=> Below(s, t)
    BY DEF Below
  <2> QED
    BY <1>1, <1>2 DEF FullLast, Below
<1>5. /\ \/ btree[y][fk] = NoField
         \/ btree[y][fk] = btree[x][fk]
         \/ \E s \in 1..Len(sections[x]) : btree[y][fk] = sections[x][s][fk]
      /\ Below(btree[x][fk], btree[y][fk])
      /\ \A s \in 1..Len(sections[x]) : Below(sections[x][s][fk], btree[y][fk])
  <2>1. pc[p] # "crashed"
    BY <1>0, <1>4, CrashOnly
  <2> QED
    BY <1>1, <1>2, <1>4, <2>1 DEF FullLast
<1>6. ~Crash(p)
    BY <1>0, <1>4 DEF Crash, Goto, TypeOK
<1>7. ASSUME NEW g \in FieldKeys, Archive(p, ik, g)
      PROVE  /\ \/ btree'[y][fk] = btree'[x][fk]
                \/ btree'[y][fk] = btree[y][fk] /\ btree'[x][fk] = btree[x][fk]
             /\ Below(btree'[x][fk], btree'[y][fk])
             /\ sections' = sections
             /\ \A s \in 1..Len(sections[x]) : Below(sections[x][s][fk], btree'[y][fk])
  <2>1. PICK d \in DataFiles : d = <<p, ik>>
    BY DEF DataFiles
  <2>2. x \in PutInto(p, ik) /\ y \in PutInto(p, ik)
    BY <1>1, <1>2, <1>4 DEF PutInto
  <2>3. sections' = sections
    BY <1>7 DEF Archive, files
  <2>4. /\ btree'[x][g].pos = Len(Written(d)) + 1 /\ btree'[x][g] # NoField
        /\ btree'[y][g].pos = Len(Written(d)) + 1 /\ btree'[y][g] # NoField
        /\ \A h \in FieldKeys : h # g => btree'[x][h] = btree[x][h] /\ btree'[y][h] = btree[y][h]
    BY <1>0, <1>3, <1>7, <2>1, <2>2, ArchivePuts
  <2>5. btree'[x][g] = btree'[y][g]
    <3>1. PICK loc : /\ btree'[x] = [btree[x] EXCEPT ![g] = loc]
                     /\ btree'[y] = [btree[y] EXCEPT ![g] = loc]
        BY <1>3, <1>7, <2>2 DEF Archive
    <3>2. btree[x] \in [FieldKeys -> Locations \cup {NoField}]
        BY <1>0, <1>3 DEF TypeOK, Entries
    <3>3. btree[y] \in [FieldKeys -> Locations \cup {NoField}]
        BY <1>0, <1>3 DEF TypeOK, Entries
    <3> QED
        BY <3>1, <3>2, <3>3
  <2>6. PICK n \in Nat : n = Len(Written(d))
    BY <1>0, <1>7, <2>1, ArchiveWritten
  <2>7. CASE fk # g
    BY <1>5, <2>3, <2>4, <2>7
  <2>8. CASE fk = g
    <3>1. ASSUME NEW s \in 1..Len(sections[x]), sections[x][s][fk] # NoField
          PROVE  sections[x][s][fk].pos <= n + 1
      <4>1. PICK k : k = sections[x][s][fk].pos
        BY SMTT(30)
      <4>2. k \in 1..Len(data[d])
        BY <1>0, <1>3, <2>1, <3>1, <4>1 DEF SectionsDurable, Durable
      <4>3. k \in 1..n
        BY <1>0, <2>6, <4>2, DurableIsWritten
      <4> QED
        BY <4>1, <4>3
    <3> QED
        BY <2>3, <2>4, <2>5, <2>6, <2>8, <3>1 DEF Below
  <2> QED
    BY <2>7, <2>8
<1>8. CASE \E g \in FieldKeys : Archive(p, ik, g)
  <2>1. PICK g \in FieldKeys : Archive(p, ik, g)
    BY <1>8
  <2> QED
    BY <1>5, <1>7, <2>1
<1>9. btree'[y] = btree[y] \/ \E g \in FieldKeys : Archive(p, ik, g)
  <2>1. FlushFull(p, ik) => btree' = btree
    BY DEF FlushFull
  <2> QED
    BY <1>0, <1>2, <1>6, <2>1, FullSteps DEF IndexQuiet
<1>10. CASE btree'[y] = btree[y] /\ FlushIndex(p, ik)
  <2>1. PICK m \in Nat \ {0} : m = ixOffset[x]
    BY <1>1, <1>10, FlushIndexAppends
  <2>2. /\ Len(sections'[x]) = m /\ btree' = btree /\ sections'[x][m] = btree[x]
        /\ \A s \in 1..Len(sections'[x]) : s # m =>
              s \in 1..Len(sections[x]) /\ sections'[x][s] = sections[x][s]
        /\ \A s \in 1..Len(sections[x]) :
              s \in 1..Len(sections'[x]) /\ sections'[x][s] = sections[x][s]
    BY <1>1, <1>10, <2>1, FlushIndexAppends
  <2> QED
    BY <1>5, <2>2
<1>11. CASE btree'[y] = btree[y] /\ WriteIndex(p) /\ current[p] = ik
  <2>1. /\ ixOffset[x] \in 1..Len(sections[x]) /\ sections[x][ixOffset[x]] = btree[x]
        /\ sections' = sections /\ btree'[x] = EmptyTree
    BY <1>1, <1>11, WriteIndexRecords
  <2>2. btree'[x][fk] = NoField
    BY <1>4, <2>1 DEF EmptyTree
  <2>3. Below(btree'[x][fk], btree'[y][fk])
    BY <2>2 DEF Below
  <2> QED
    BY <1>5, <1>11, <2>1, <2>3
<1>12. CASE btree'[y] = btree[y] /\ IndexQuiet(x)
    BY <1>5, <1>12 DEF IndexQuiet
<1> QED
    BY <1>0, <1>1, <1>6, <1>8, <1>9, <1>10, <1>11, <1>12, PartSteps

(* StoreInv is inductive, with the other invariants. *)
LEMMA NextStore ==
    ASSUME Inv, TocShape, FlushInv, StoreInv, [Next]_vars, ~IOErrors
    PROVE  StoreInv'
<1>1. OwnFields'
    BY NextOwn DEF StoreInv
<1>2. ASSUME NEW p \in Procs, NEW ik \in IndexKeys
      PROVE  PartRecorded(p, ik)' /\ CleanWhenClosed(p, ik)' /\ FullLast(p, ik)'
  <2>1. PartRecorded(p, ik) /\ CleanWhenClosed(p, ik) /\ FullLast(p, ik)
    BY DEF StoreInv
  <2>2. PartRecorded(p, ik)'
    BY <2>1, NextPartRecorded
  <2>3. CleanWhenClosed(p, ik)'
    BY <2>1, NextClean
  <2>4. FullLast(p, ik)'
    BY <2>1, NextFullLast
  <2> QED
    BY <2>2, <2>3, <2>4
<1> QED
    BY <1>1, <1>2 DEF StoreInv

(* Every field has at most one process that may archive it. *)
OneWriter == \A p, q \in Procs : p # q => MayArchive[p] \cap MayArchive[q] = {}

(* A published section of an index that has the field, and one that has it last. *)
RecordedHit(p, ik, fk, s) ==
    /\ s \in 1..Len(sections[Part(p, ik)])
    /\ Recorded(Part(p, ik), s)
    /\ sections[Part(p, ik)][s][fk] # NoField
LatestHit(p, ik, fk, s) ==
    /\ RecordedHit(p, ik, fk, s)
    /\ \A u : RecordedHit(p, ik, fk, u) =>
          sections[Part(p, ik)][u][fk].pos <= sections[Part(p, ik)][s][fk].pos

(* The entries of a section lead to fields on disk, of its process and its key. *)
LEMMA HitOwner ==
    ASSUME Inv, OwnFields, NEW y \in IndexFiles, NEW n \in 1..Len(sections[y]), NEW fk \in FieldKeys,
           sections[y][n][fk] # NoField
    PROVE  /\ <<y[2], fk>> \in MayArchive[y[1]]
           /\ sections[y][n][fk].file = <<y[1], y[2]>> /\ <<y[1], y[2]>> \in DataFiles
           /\ sections[y][n][fk].pos \in 1..Len(data[<<y[1], y[2]>>])
<1>0. TypeOK /\ SectionsDurable
    BY DEF Inv, WriteOrder
<1>1. PICK d \in DataFiles : d = DataOf(y) /\ d = <<y[1], y[2]>> /\ d[1] = y[1] /\ d[2] = y[2]
    BY IndexFileNames DEF DataOf
<1>2. PICK loc : loc = sections[y][n][fk]
    OBVIOUS
<1>3. loc.file = d /\ loc.pos \in 1..Len(data[d]) /\ data[d][loc.pos].fk = fk
  <2>1. loc.file = DataOf(y) /\ Durable(loc, y[2], fk)
    BY <1>0, <1>2 DEF SectionsDurable
  <2> QED
    BY <1>1, <2>1 DEF Durable
<1>4. loc.pos \in 1..Len(Written(d)) /\ Written(d)[loc.pos] = data[d][loc.pos]
    BY <1>0, <1>3, DurableIsWritten
<1>5. <<d[2], fk>> \in MayArchive[d[1]]
    BY <1>3, <1>4 DEF OwnFields
<1> QED
    BY <1>1, <1>2, <1>3, <1>5

(***************************************************************************)
(* What a retrieve returns is what the last record of the walk that has    *)
(* the field leads to, in the data file of the process that wrote it.      *)
(***************************************************************************)
LEMMA RetrieveHit ==
    ASSUME Inv, OwnFields, NEW ik \in IndexKeys, NEW fk \in FieldKeys
    PROVE  \/ NoneIn(MasterWalk, Hits(ik, fk)) /\ Retrieve(ik, fk) = NoField
           \/ \E y \in IndexFiles, n \in Nat, t \in TocFiles : \E k \in 1..Len(tocs[t]) :
                 /\ y[2] = ik /\ n \in 1..Len(sections[y]) /\ sections[y][n][fk] # NoField
                 /\ Retrieve(ik, fk) = data[<<y[1], ik>>][sections[y][n][fk].pos]
                 /\ tocs[t][k] = IndexRecord(y, n)
                 /\ \A j \in 1..Len(tocs[t]) : k < j /\ tocs[t][j].tag = "TOC_INDEX" =>
                        Entry(tocs[t][j].path, tocs[t][j].offset, t) \notin Hits(ik, fk)
<1>0. TypeOK /\ SectionsDurable /\ RecordsWritten
    BY DEF Inv, WriteOrder
<1>1. SUFFICES ASSUME ~(NoneIn(MasterWalk, Hits(ik, fk)) /\ Retrieve(ik, fk) = NoField)
      PROVE  \E y \in IndexFiles, n \in Nat, t \in TocFiles : \E k \in 1..Len(tocs[t]) :
                 /\ y[2] = ik /\ n \in 1..Len(sections[y]) /\ sections[y][n][fk] # NoField
                 /\ Retrieve(ik, fk) = data[<<y[1], ik>>][sections[y][n][fk].pos]
                 /\ tocs[t][k] = IndexRecord(y, n)
                 /\ \A j \in 1..Len(tocs[t]) : k < j /\ tocs[t][j].tag = "TOC_INDEX" =>
                        Entry(tocs[t][j].path, tocs[t][j].offset, t) \notin Hits(ik, fk)
    OBVIOUS
<1>2. PICK H : H = Hits(ik, fk)
    OBVIOUS
<1>3. PICK e \in FoundEntries :
          LastIn(MasterWalk, H, e) /\ Retrieve(ik, fk) = ReadAt(sections[e.path][e.offset][fk])
    BY <1>0, <1>1, <1>2, RetrieveReadsLast
<1>4. /\ e \in H
      /\ \E u \in TocFiles : \E k \in 1..Len(tocs[u]) :
             /\ tocs[u][k] = IndexRecord(e.path, e.offset)
             /\ \A j \in 1..Len(tocs[u]) : k < j /\ tocs[u][j].tag = "TOC_INDEX" =>
                    Entry(tocs[u][j].path, tocs[u][j].offset, u) \notin H
    BY <1>0, <1>3, LastHasOrigin
<1>5. PICK t \in TocFiles : \E k \in 1..Len(tocs[t]) :
             /\ tocs[t][k] = IndexRecord(e.path, e.offset)
             /\ \A j \in 1..Len(tocs[t]) : k < j /\ tocs[t][j].tag = "TOC_INDEX" =>
                    Entry(tocs[t][j].path, tocs[t][j].offset, t) \notin H
    BY <1>4
<1>6. PICK k \in 1..Len(tocs[t]) :
             /\ tocs[t][k] = IndexRecord(e.path, e.offset)
             /\ \A j \in 1..Len(tocs[t]) : k < j /\ tocs[t][j].tag = "TOC_INDEX" =>
                    Entry(tocs[t][j].path, tocs[t][j].offset, t) \notin H
    BY <1>5
<1>7. PICK y \in IndexFiles, n \in Nat : y = e.path /\ n = e.offset
    BY DEF FoundEntries
<1>8. y[2] = ik /\ n \in 1..Len(sections[y]) /\ sections[y][n][fk] # NoField
  <2>1. sections[y] \in Seq(Entries)
    BY <1>0 DEF TypeOK
  <2>2. y[2] = ik /\ Has(e, fk)
    BY <1>2, <1>4, <1>7 DEF Hits
  <2> QED
    BY <1>7, <2>1, <2>2 DEF Has
<1>9. Retrieve(ik, fk) = data[<<y[1], ik>>][sections[y][n][fk].pos]
  <2>1. PICK loc : loc = sections[y][n][fk]
    OBVIOUS
  <2>2. PICK d \in DataFiles : d = <<y[1], ik>>
    BY <1>8, IndexFileNames DEF DataFiles
  <2>3. loc.file = d /\ loc.pos \in 1..Len(data[d])
    BY <1>8, <2>1, <2>2, HitOwner
  <2>4. data[d] \in Seq(Values)
    BY <1>0 DEF TypeOK
  <2>5. Retrieve(ik, fk) = ReadAt(loc)
    BY <1>3, <1>7, <2>1
  <2>6. ReadAt(loc) = data[d][loc.pos]
    BY <2>3, <2>4 DEF ReadAt
  <2> QED
    BY <2>1, <2>2, <2>5, <2>6
<1>10. tocs[t][k] = IndexRecord(y, n)
    BY <1>6, <1>7
<1>11. \A j \in 1..Len(tocs[t]) : k < j /\ tocs[t][j].tag = "TOC_INDEX" =>
           Entry(tocs[t][j].path, tocs[t][j].offset, t) \notin Hits(ik, fk)
    BY <1>2, <1>6
<1> QED
    BY <1>8, <1>9, <1>10, <1>11

(* A published section that has a field is found, or the full index of its process is. *)
LEMMA RecordedFound ==
    ASSUME Inv, FlushInv, StoreInv, NEW p \in Procs, NEW ik \in IndexKeys, NEW fk \in FieldKeys,
           NEW s, RecordedHit(p, ik, fk, s)
    PROVE  ~NoneIn(MasterWalk, Hits(ik, fk))
<1>0. /\ TypeOK /\ RecordsPlaced /\ SubTocLinked /\ FullProgress
    BY DEF Inv, WriteOrder, FlushInv
<1>1. PICK H : H = Hits(ik, fk)
    OBVIOUS
<1>2. PICK x : x = Part(p, ik)
    OBVIOUS
<1>3. x \in IndexFiles /\ x[1] = p /\ x[2] = ik
    BY <1>2 DEF IndexFiles, Part
<1>4. s \in 1..Len(sections[x]) /\ Recorded(x, s) /\ sections[x][s][fk] # NoField
    BY <1>2 DEF RecordedHit
<1>5. PICK t : t = HomeToc(p) /\ t \in TocFiles
    BY Names DEF HomeToc
<1>6. PICK i \in 1..Len(tocs[t]) : tocs[t][i] = IndexRecord(x, s)
    BY <1>3, <1>4, <1>5 DEF Recorded
<1>7. s \in Nat \ {0}
  <2>1. Len(sections[x]) \in Nat
    BY <1>0, <1>3 DEF TypeOK
  <2> QED
    BY <1>4, <2>1
<1>8. Entry(x, s, t) \in H
  <2>1. sections[x] \in Seq(Entries)
    BY <1>0, <1>3 DEF TypeOK
  <2>2. s \in DOMAIN sections[x]
    BY <1>4, <2>1
  <2> QED
    BY <1>1, <1>3, <1>4, <1>5, <1>7, <2>2 DEF Hits, FoundEntries, Entry, Has
<1>9. CASE p \notin SubTocProcs
  <2>1. t = Master
    BY <1>5, <1>9 DEF HomeToc
  <2>2. ~NoneIn(MasterWalk, H)
    BY <1>0, <1>3, <1>5, <1>6, <1>7, <1>8, <2>1, EntryFound
  <2> QED
    BY <1>1, <2>2
<1>10. CASE p \in SubTocProcs /\ <<p, 0>> \notin maskedEntries(tocs[Master])
  <2>1. t = p
    BY <1>5, <1>10 DEF HomeToc
  <2>2. Linked(p)
    BY <1>0, <1>2, <1>4, <1>7, <1>10 DEF SubTocLinked
  <2>3. ~NoneIn(MasterWalk, H)
    BY <1>0, <1>3, <1>5, <1>6, <1>7, <1>8, <1>10, <2>1, <2>2, EntryFound
  <2> QED
    BY <1>1, <2>3
<1>11. CASE p \in SubTocProcs /\ <<p, 0>> \in maskedEntries(tocs[Master])
  <2>0. Master \in TocFiles
    BY DEF TocFiles
  <2>1. pc[p] = "closed" /\ subToc[p]
    <3>1. PICK j \in 1..Len(tocs[Master]) : tocs[Master][j].tag = "TOC_CLEAR" /\ tocs[Master][j].path = p
        BY <1>0, <1>11, <2>0, MasksAreOfSubTocs
    <3> QED
        BY <1>0, <2>0, <3>1 DEF RecordsPlaced
  <2>2. PICK y : y = Full(p, ik)
    OBVIOUS
  <2>3. y \in IndexFiles /\ y[1] = p /\ y[2] = ik
    BY <2>2 DEF IndexFiles, Full
  <2>4. btree[y][fk] # NoField
    <3>1. FullLast(p, ik)
        BY DEF StoreInv
    <3>2. Below(sections[x][s][fk], btree[y][fk])
        BY <1>2, <1>4, <1>11, <2>1, <2>2, <3>1 DEF FullLast
    <3> QED
        BY <1>4, <3>2 DEF Below
  <2>5. btree[y] # EmptyTree
    BY <2>4 DEF EmptyTree
  <2>6. ~ixDirty[y] /\ y \in toPublish[p]
    BY <1>0, <2>1, <2>2, <2>5 DEF FullProgress, BlockOf, FullOf
  <2>7. sections[y] # << >> /\ sections[y][1] = btree[y]
    BY <1>0, <2>1, <2>2, <2>6 DEF FullProgress, BlockOf, FullOf
  <2>8. PICK j \in 1..Len(tocs[Master]) : tocs[Master][j] = IndexRecord(y, 1)
    BY <1>0, <2>1, <2>2, <2>6 DEF FullProgress, BlockOf, FullOf
  <2>9. Entry(y, 1, Master) \in H
    <3>1. sections[y] \in Seq(Entries) /\ 1 \in DOMAIN sections[y]
        BY <1>0, <2>3, <2>7 DEF TypeOK
    <3> QED
        BY <1>1, <2>0, <2>3, <2>4, <2>7, <3>1 DEF Hits, FoundEntries, Entry, Has
  <2>10. 1 \in Nat \ {0}
    OBVIOUS
  <2>11. ~NoneIn(MasterWalk, H)
    BY ONLY <1>0, <2>0, <2>3, <2>8, <2>9, <2>10, EntryFound
  <2> QED
    BY <1>1, <2>11
<1> QED
    BY <1>9, <1>10, <1>11

(***************************************************************************)
(* What a retrieve returns for a field of process p: the field the latest  *)
(* published section that has it leads to, and nothing if there is none.   *)
(***************************************************************************)
LEMMA RetrieveExact ==
    ASSUME Inv, FlushInv, StoreInv, OneWriter,
           NEW p \in Procs, NEW ik \in IndexKeys, NEW fk \in FieldKeys, <<ik, fk>> \in MayArchive[p]
    PROVE  \/ Retrieve(ik, fk) = NoField /\ \A s : ~RecordedHit(p, ik, fk, s)
           \/ \E s : /\ LatestHit(p, ik, fk, s)
                     /\ Retrieve(ik, fk) = data[<<p, ik>>][sections[Part(p, ik)][s][fk].pos]
<1>0. /\ TypeOK /\ RecordsPlaced /\ SubTocLinked /\ FullProgress /\ TreesOrdered /\ OwnFields
      /\ PartRecorded(p, ik) /\ CleanWhenClosed(p, ik) /\ FullLast(p, ik) /\ PartOf(p, ik)
      /\ SectionsDurable
    BY DEF Inv, WriteOrder, FlushInv, StoreInv, PartProgress
<1>1. CASE NoneIn(MasterWalk, Hits(ik, fk)) /\ Retrieve(ik, fk) = NoField
    BY <1>1, RecordedFound
<1>2. ASSUME NEW y \in IndexFiles, NEW n \in Nat, NEW t \in TocFiles, NEW k \in 1..Len(tocs[t]),
             y[2] = ik, n \in 1..Len(sections[y]), sections[y][n][fk] # NoField,
             Retrieve(ik, fk) = data[<<y[1], ik>>][sections[y][n][fk].pos],
             tocs[t][k] = IndexRecord(y, n),
             \A j \in 1..Len(tocs[t]) : k < j /\ tocs[t][j].tag = "TOC_INDEX" =>
                    Entry(tocs[t][j].path, tocs[t][j].offset, t) \notin Hits(ik, fk)
      PROVE  \E s : /\ LatestHit(p, ik, fk, s)
                    /\ Retrieve(ik, fk) = data[<<p, ik>>][sections[Part(p, ik)][s][fk].pos]
  <2>1. y[1] = p
    <3>1. <<ik, fk>> \in MayArchive[y[1]] /\ y[1] \in Procs
        BY <1>0, <1>2, HitOwner, IndexFileNames
    <3> QED
        BY <3>1 DEF OneWriter
  <2>2. PICK x : x = Part(p, ik)
    OBVIOUS
  <2>3. x \in IndexFiles /\ x[1] = p /\ x[2] = ik /\ x[3] = "part" /\ DataOf(x) = <<p, ik>>
    BY <2>2 DEF IndexFiles, Part, DataOf
  <2>4. tocs[t][k].tag = "TOC_INDEX" /\ tocs[t][k].path = y /\ tocs[t][k].offset = n
    BY <1>2, RecordsDiffer
  <2>5. Len(sections[x]) \in Nat /\ sections[x] \in Seq(Entries) /\ Len(tocs[t]) \in Nat
    BY <1>0, <2>3 DEF TypeOK
  <2>6. \A s \in 1..Len(sections[x]) : sections[x][s][fk] # NoField => sections[x][s][fk].pos \in Nat
    <3>1. \A d \in DataFiles : Len(data[d]) \in Nat
        BY <1>0 DEF TypeOK
    <3>2. ASSUME NEW s \in 1..Len(sections[x]), sections[x][s][fk] # NoField
          PROVE  sections[x][s][fk].pos \in Nat
      <4>1. <<x[1], x[2]>> \in DataFiles /\ sections[x][s][fk].pos \in 1..Len(data[<<x[1], x[2]>>])
        BY <1>0, <2>3, <3>2, HitOwner
      <4> QED
        BY <3>1, <4>1
    <3> QED
        BY <3>2
  <2>7. CASE y[3] = "part"
    <3>1. y = x
        BY <1>2, <2>1, <2>2, <2>7, IndexFileNames
    <3>2. t = HomeToc(p)
        BY <1>0, <1>2, <2>1, <2>4, <2>7 DEF RecordsPlaced, IndexRecordPlaced
    <3>3. Recorded(x, n)
        BY <1>2, <2>3, <3>1, <3>2 DEF Recorded
    <3>4. ASSUME NEW u, RecordedHit(p, ik, fk, u)
          PROVE  sections[x][u][fk].pos <= sections[x][n][fk].pos
      <4>1. u \in 1..Len(sections[x]) /\ Recorded(x, u) /\ sections[x][u][fk] # NoField
        BY <2>2, <3>4 DEF RecordedHit
      <4>2. PICK i \in 1..Len(tocs[t]) : tocs[t][i] = IndexRecord(x, u)
        BY <2>3, <3>2, <4>1 DEF Recorded
      <4>3. tocs[t][i].tag = "TOC_INDEX" /\ tocs[t][i].path = x /\ tocs[t][i].offset = u
        BY <4>2, RecordsDiffer
      <4>4. Entry(x, u, t) \in Hits(ik, fk)
        <5>1. u \in DOMAIN sections[x] /\ u \in Nat
            BY <2>5, <4>1
        <5> QED
            BY <2>3, <4>1, <5>1 DEF Hits, FoundEntries, Entry, Has
      <4>5. ~(k < i)
        BY <1>2, <4>3, <4>4
      <4>6. i < k => u < n
        <5>1. IndexRecordPlaced(t, i)
            BY <1>0, <4>3 DEF RecordsPlaced
        <5>2. \A j \in 1..Len(tocs[t]) :
                  i < j /\ tocs[t][j].tag = "TOC_INDEX" /\ tocs[t][j].path = x => u < tocs[t][j].offset
            BY <2>3, <4>3, <5>1 DEF IndexRecordPlaced
        <5> QED
            BY <2>4, <3>1, <5>2
      <4>7. i = k => u = n
        BY <2>4, <4>3
      <4>8. u < n \/ u = n
        BY <1>2, <2>5, <4>2, <4>5, <4>6, <4>7
      <4>9. CASE u < n
        BY <1>0, <1>2, <2>3, <3>1, <4>1, <4>9 DEF TreesOrdered
      <4>10. CASE u = n
        <5>1. sections[x][n][fk].pos \in Nat
            BY <2>6, <4>1, <4>10
        <5> QED
            BY <4>10, <5>1
      <4> QED
        BY <4>8, <4>9, <4>10
    <3>5. RecordedHit(p, ik, fk, n)
        BY <1>2, <2>2, <3>1, <3>3 DEF RecordedHit
    <3>6. LatestHit(p, ik, fk, n)
        BY <2>2, <3>4, <3>5 DEF LatestHit
    <3>7. Retrieve(ik, fk) = data[<<p, ik>>][sections[Part(p, ik)][n][fk].pos]
        BY <1>2, <2>1, <2>2, <3>1
    <3> QED
        BY <3>6, <3>7
  <2>8. CASE y[3] = "full"
    <3>1. y = Full(p, ik)
        BY <1>2, <2>1, <2>8, IndexFileNames
    <3>2. n = 1 /\ pc[p] = "closed" /\ subToc[p] /\ y \in toPublish[p]
        BY <1>0, <1>2, <2>1, <2>4, <2>8 DEF RecordsPlaced, IndexRecordPlaced
    <3>3. sections[y][1] = btree[y]
        BY <1>0, <3>1, <3>2 DEF FullProgress, BlockOf, FullOf
    <3>4. p \in SubTocProcs
        BY <1>0, <3>2 DEF SubTocLinked
    <3>5. btree[x] = EmptyTree
      <4>1. ~ixDirty[x] /\ pc[p] \notin WritingPCs
        BY <1>0, <2>2, <3>2 DEF CleanWhenClosed, WritingPCs
      <4> QED
        BY <1>0, <2>2, <4>1 DEF PartOf
    <3>6. /\ \/ btree[y][fk] = NoField
             \/ btree[y][fk] = btree[x][fk]
             \/ \E s \in 1..Len(sections[x]) : btree[y][fk] = sections[x][s][fk]
          /\ \A s \in 1..Len(sections[x]) : Below(sections[x][s][fk], btree[y][fk])
        BY <1>0, <2>2, <3>1, <3>2, <3>4 DEF FullLast
    <3>7. btree[y][fk] # NoField /\ btree[x][fk] = NoField
        BY <1>2, <3>2, <3>3, <3>5 DEF EmptyTree
    <3>8. PICK s \in 1..Len(sections[x]) : btree[y][fk] = sections[x][s][fk]
        BY <3>6, <3>7
    <3>9. \A u \in 1..Len(sections[x]) : Recorded(x, u)
        BY <1>0, <2>2, <3>2 DEF PartRecorded, WritingPCs
    <3>10. LatestHit(p, ik, fk, s)
        BY <2>2, <3>6, <3>7, <3>8, <3>9 DEF LatestHit, RecordedHit, Below
    <3>11. Retrieve(ik, fk) = data[<<p, ik>>][sections[Part(p, ik)][s][fk].pos]
        BY <1>2, <2>1, <2>2, <3>2, <3>3, <3>8, SMTT(30)
    <3> QED
        BY <3>10, <3>11
  <2> QED
    BY <1>2, <2>7, <2>8, IndexFileNames
<1>3. CASE \E y \in IndexFiles, n \in Nat, t \in TocFiles : \E k \in 1..Len(tocs[t]) :
                 /\ y[2] = ik /\ n \in 1..Len(sections[y]) /\ sections[y][n][fk] # NoField
                 /\ Retrieve(ik, fk) = data[<<y[1], ik>>][sections[y][n][fk].pos]
                 /\ tocs[t][k] = IndexRecord(y, n)
                 /\ \A j \in 1..Len(tocs[t]) : k < j /\ tocs[t][j].tag = "TOC_INDEX" =>
                        Entry(tocs[t][j].path, tocs[t][j].offset, t) \notin Hits(ik, fk)
    BY <1>2, <1>3
<1> QED
    BY <1>0, <1>1, <1>3, RetrieveHit

(* A field that nobody may archive is never found. *)
LEMMA RetrieveNone ==
    ASSUME Inv, StoreInv, NEW ik \in IndexKeys, NEW fk \in FieldKeys,
           \A p \in Procs : <<ik, fk>> \notin MayArchive[p]
    PROVE  Retrieve(ik, fk) = NoField
<1>1. OwnFields
    BY DEF StoreInv
<1>2. ASSUME NEW y \in IndexFiles, NEW n \in 1..Len(sections[y]), y[2] = ik,
             sections[y][n][fk] # NoField
      PROVE  FALSE
    BY <1>1, <1>2, HitOwner, IndexFileNames
<1> QED
  <2>1. ~\E y \in IndexFiles, n \in Nat, t \in TocFiles : \E k \in 1..Len(tocs[t]) :
             /\ y[2] = ik /\ n \in 1..Len(sections[y]) /\ sections[y][n][fk] # NoField
             /\ Retrieve(ik, fk) = data[<<y[1], ik>>][sections[y][n][fk].pos]
             /\ tocs[t][k] = IndexRecord(y, n)
             /\ \A j \in 1..Len(tocs[t]) : k < j /\ tocs[t][j].tag = "TOC_INDEX" =>
                    Entry(tocs[t][j].path, tocs[t][j].offset, t) \notin Hits(ik, fk)
    BY <1>2
  <2> QED
    BY <1>1, <2>1, RetrieveHit

(* What RetrieveExact says of every field. *)
Exact(p, ik, fk) ==
    \/ Retrieve(ik, fk) = NoField /\ \A s : ~RecordedHit(p, ik, fk, s)
    \/ \E s : /\ LatestHit(p, ik, fk, s)
              /\ Retrieve(ik, fk) = data[<<p, ik>>][sections[Part(p, ik)][s][fk].pos]
StoreExact ==
    \A ik \in IndexKeys, fk \in FieldKeys :
        /\ \A p \in Procs : <<ik, fk>> \in MayArchive[p] => Exact(p, ik, fk)
        /\ (\A p \in Procs : <<ik, fk>> \notin MayArchive[p]) => Retrieve(ik, fk) = NoField

(* The invariants say what a retrieve of each field returns. *)
LEMMA StoreInvExact ==
    ASSUME OneWriter
    PROVE  Inv /\ FlushInv /\ StoreInv => StoreExact
BY RetrieveExact, RetrieveNone DEF StoreExact, Exact

(* What is in a data file stays there. *)
LEMMA DataStays ==
    ASSUME Inv, [Next]_vars, ~IOErrors, NEW d \in DataFiles, NEW k \in 1..Len(data[d])
    PROVE  data'[d][k] = data[d][k]
<1>0. TypeOK
    BY DEF Inv
<1>1. ASSUME NEW p \in Procs, Crash(p) PROVE data' = data
    BY <1>1 DEF Crash, files
<1>2. ASSUME NEW p \in Procs, NEW ik \in IndexKeys, NEW fk \in FieldKeys, Archive(p, ik, fk)
      PROVE  data' = data
    BY <1>2 DEF Archive, files
<1>3. ASSUME NEW p \in Procs, NEW ik \in IndexKeys, Spill(p, ik) \/ FlushHandle(p, ik)
      PROVE  data'[d][k] = data[d][k]
    BY <1>0, <1>3, DataGrows
<1> QED
    BY <1>1, <1>2, <1>3, WhoWritesData

(* Published sections stay, and the one being published joins them with its record. *)
LEMMA HitSteps ==
    ASSUME Inv, TocShape, FlushInv, StoreInv, [Next]_vars, ~IOErrors,
           NEW p \in Procs, NEW ik \in IndexKeys, NEW fk \in FieldKeys, NEW x, x = Part(p, ik)
    PROVE  /\ \A s : RecordedHit(p, ik, fk, s) =>
                  RecordedHit(p, ik, fk, s)' /\ sections'[x][s] = sections[x][s]
           /\ \A s : RecordedHit(p, ik, fk, s)' =>
                  \/ RecordedHit(p, ik, fk, s)
                  \/ WriteIndex(p) /\ current[p] = ik /\ s = ixOffset[x]
<1>0. TypeOK /\ PartRecorded(p, ik) /\ SubTocLinked
    BY DEF Inv, FlushInv, StoreInv
<1>1. x \in IndexFiles
    BY DEF IndexFiles, Part
<1>2. ASSUME NEW s, RecordedHit(p, ik, fk, s)
      PROVE  RecordedHit(p, ik, fk, s)' /\ sections'[x][s] = sections[x][s]
  <2>1. /\ s \in 1..Len(sections'[x]) /\ sections'[x][s] = sections[x][s] /\ Recorded(x, s)'
    BY <1>2, RecordedSectionStays DEF RecordedHit
  <2> QED
    BY <1>2, <2>1 DEF RecordedHit
<1>3. ASSUME NEW s, RecordedHit(p, ik, fk, s)'
      PROVE  \/ RecordedHit(p, ik, fk, s)
             \/ WriteIndex(p) /\ current[p] = ik /\ s = ixOffset[x]
  <2>1. s \in 1..Len(sections'[x]) /\ Recorded(x, s)' /\ sections'[x][s][fk] # NoField
    BY <1>3 DEF RecordedHit
  <2>2. s \in Nat
    <3>1. TypeOK'
        BY NextTypeOK
    <3>2. Len(sections'[x]) \in Nat
        BY <1>1, <3>1 DEF TypeOK
    <3> QED
        BY <2>1, <3>2
  <2>3. ASSUME Recorded(x, s) PROVE RecordedHit(p, ik, fk, s)
    <3>1. s \in 1..Len(sections[x])
        BY <2>2, <2>3, RecordedBelow
    <3>2. sections'[x][s] = sections[x][s]
        BY <2>3, <3>1, RecordedSectionStays
    <3> QED
        BY <2>1, <2>3, <3>1, <3>2 DEF RecordedHit
  <2>4. ASSUME WriteIndex(p), current[p] = ik PROVE Recorded(x, s) \/ s = ixOffset[x]
    <3>1. sections' = sections
        BY <2>4 DEF WriteIndex
    <3> QED
        BY <1>0, <2>1, <3>1 DEF PartRecorded
  <2>5. \/ Recorded(x, s)
        \/ WriteIndex(p) /\ current[p] = ik
    BY <1>0, <2>1, <2>2, RecordedSteps
  <2> QED
    BY <2>3, <2>4, <2>5
<1> QED
    BY <1>2, <1>3

(* The entries of a published section are positions of the data file. *)
LEMMA HitPosition ==
    ASSUME Inv, OwnFields, NEW p \in Procs, NEW ik \in IndexKeys, NEW fk \in FieldKeys, NEW s,
           RecordedHit(p, ik, fk, s)
    PROVE  /\ <<p, ik>> \in DataFiles
           /\ sections[Part(p, ik)][s][fk].pos \in Nat
           /\ sections[Part(p, ik)][s][fk].pos \in 1..Len(data[<<p, ik>>])
<1>0. TypeOK
    BY DEF Inv
<1>1. PICK x : x = Part(p, ik)
    OBVIOUS
<1>2. x \in IndexFiles /\ x[1] = p /\ x[2] = ik
    BY <1>1 DEF IndexFiles, Part
<1>3. s \in 1..Len(sections[x]) /\ sections[x][s][fk] # NoField
    BY <1>1 DEF RecordedHit
<1>4. <<p, ik>> \in DataFiles /\ sections[x][s][fk].pos \in 1..Len(data[<<p, ik>>])
    BY <1>2, <1>3, HitOwner
<1>5. Len(data[<<p, ik>>]) \in Nat
    BY <1>0, <1>4 DEF TypeOK
<1> QED
    BY <1>1, <1>4, <1>5

(* Nothing but the record of an index changes what is retrieved, and only for its own fields. *)
LEMMA RetrieveStays ==
    ASSUME Inv, TocShape, FlushInv, StoreInv, StoreExact, StoreExact', [Next]_vars, ~IOErrors,
           NEW ik \in IndexKeys, NEW fk \in FieldKeys,
           \A p \in Procs : WriteIndex(p) /\ current[p] = ik => btree[Part(p, ik)][fk] = NoField
    PROVE  Retrieve(ik, fk)' = Retrieve(ik, fk)
<1>0. OwnFields
    BY DEF StoreInv
<1>1. CASE \A p \in Procs : <<ik, fk>> \notin MayArchive[p]
    BY <1>1, SMTT(30) DEF StoreExact
<1>2. ASSUME NEW p \in Procs, <<ik, fk>> \in MayArchive[p]
      PROVE  Retrieve(ik, fk)' = Retrieve(ik, fk)
  <2>1. PICK x : x = Part(p, ik)
    OBVIOUS
  <2>2. Exact(p, ik, fk) /\ Exact(p, ik, fk)'
    BY <1>2 DEF StoreExact
  <2>3. \A s : RecordedHit(p, ik, fk, s) =>
            RecordedHit(p, ik, fk, s)' /\ sections'[x][s] = sections[x][s]
    BY <2>1, HitSteps
  <2>4. ASSUME NEW s, RecordedHit(p, ik, fk, s)' PROVE RecordedHit(p, ik, fk, s)
    <3>1. ASSUME WriteIndex(p), current[p] = ik, s = ixOffset[x] PROVE FALSE
      <4>1. sections' = sections /\ sections[x][s] = btree[x]
        BY <2>1, <3>1, WriteIndexRecords
      <4>2. sections'[x][s][fk] # NoField
        BY <2>1, <2>4 DEF RecordedHit
      <4> QED
        BY <2>1, <3>1, <4>1, <4>2
    <3>2. \/ RecordedHit(p, ik, fk, s)
          \/ WriteIndex(p) /\ current[p] = ik /\ s = ixOffset[x]
        BY <2>1, <2>4, HitSteps
    <3> QED
        BY <3>1, <3>2
  <2>5. CASE Retrieve(ik, fk) = NoField /\ \A s : ~RecordedHit(p, ik, fk, s)
    <3>1. \A s : ~RecordedHit(p, ik, fk, s)'
        BY <2>4, <2>5
    <3>2. Retrieve(ik, fk)' = NoField
        BY <2>2, <3>1 DEF Exact, LatestHit
    <3> QED
        BY <2>5, <3>2
  <2>6. ASSUME NEW s, LatestHit(p, ik, fk, s),
               Retrieve(ik, fk) = data[<<p, ik>>][sections[x][s][fk].pos]
        PROVE  Retrieve(ik, fk)' = Retrieve(ik, fk)
    <3>1. RecordedHit(p, ik, fk, s)
        BY <2>6 DEF LatestHit
    <3>2. PICK u : /\ LatestHit(p, ik, fk, u)'
                   /\ Retrieve(ik, fk)' = data'[<<p, ik>>][sections'[x][u][fk].pos]
        BY <2>1, <2>2, <2>3, <3>1 DEF Exact
    <3>3. RecordedHit(p, ik, fk, u) /\ sections'[x][u] = sections[x][u] /\ sections'[x][s] = sections[x][s]
        BY <2>3, <2>4, <3>1, <3>2 DEF LatestHit
    <3>4. sections[x][u][fk].pos <= sections[x][s][fk].pos
        BY <2>1, <2>6, <3>3 DEF LatestHit
    <3>5. sections[x][s][fk].pos <= sections[x][u][fk].pos
      <4>1. sections'[x][s][fk].pos <= sections'[x][u][fk].pos
        BY <2>1, <2>3, <3>1, <3>2 DEF LatestHit
      <4> QED
        BY <3>3, <4>1
    <3>6. PICK a : a = sections[x][s][fk].pos
        OBVIOUS
    <3>7. PICK b : b = sections[x][u][fk].pos
        OBVIOUS
    <3>8. a \in Nat /\ a \in 1..Len(data[<<p, ik>>]) /\ <<p, ik>> \in DataFiles
        BY <1>0, <2>1, <3>1, <3>6, HitPosition
    <3>9. b \in Nat
        BY <1>0, <2>1, <3>3, <3>7, HitPosition
    <3>10. a = b
        BY <3>4, <3>5, <3>6, <3>7, <3>8, <3>9
    <3>11. data'[<<p, ik>>][a] = data[<<p, ik>>][a]
        BY <3>8, DataStays
    <3> QED
        BY <2>6, <3>2, <3>3, <3>6, <3>7, <3>10, <3>11
  <2> QED
    BY <2>1, <2>2, <2>5, <2>6 DEF Exact
<1> QED
    BY <1>1, <1>2

(* What an open tree has is what its process may archive, and is written. *)
LEMMA TreeOwner ==
    ASSUME Inv, OwnFields, NEW p \in Procs, NEW ik \in IndexKeys, NEW fk \in FieldKeys,
           btree[Part(p, ik)][fk] # NoField
    PROVE  /\ <<ik, fk>> \in MayArchive[p]
           /\ <<p, ik>> \in DataFiles
           /\ btree[Part(p, ik)][fk].file = <<p, ik>>
           /\ btree[Part(p, ik)][fk].pos \in Nat
           /\ btree[Part(p, ik)][fk].pos \in 1..Len(Written(<<p, ik>>))
           /\ Written(<<p, ik>>)[btree[Part(p, ik)][fk].pos] \in Values
<1>0. TypeOK /\ TreesWritten
    BY DEF Inv, WriteOrder
<1>1. PICK x : x = Part(p, ik)
    OBVIOUS
<1>2. x \in IndexFiles /\ DataOf(x) = <<p, ik>> /\ x[2] = ik
    BY <1>1 DEF IndexFiles, Part, DataOf
<1>3. PICK d \in DataFiles : d = <<p, ik>>
    BY DEF DataFiles
<1>4. PICK loc : loc = btree[x][fk]
    OBVIOUS
<1>5. loc.file = d /\ loc.pos \in 1..Len(Written(d)) /\ Written(d)[loc.pos].fk = fk
    BY <1>0, <1>1, <1>2, <1>3, <1>4 DEF TreesWritten
<1>6. Written(d) \in Seq(Values)
  <2>1. data[d] \in Seq(Values) /\ buf[d] \in Seq(Values)
    BY <1>0 DEF TypeOK
  <2> QED
    BY <2>1, ConcatProperties DEF Written
<1>7. loc.pos \in Nat /\ Written(d)[loc.pos] \in Values
    BY <1>5, <1>6
<1>8. <<ik, Written(d)[loc.pos].fk>> \in MayArchive[p]
  <2>1. d[1] = p /\ d[2] = ik
    BY <1>3
  <2> QED
    BY <1>0, <1>5, <2>1 DEF OwnFields
<1> QED
    BY <1>1, <1>3, <1>4, <1>5, <1>7, <1>8

(* The record of an index makes the fields of its tree the ones retrieved. *)
LEMMA RetrievePublishes ==
    ASSUME Inv, TocShape, FlushInv, StoreInv, StoreExact, StoreExact', [Next]_vars, ~IOErrors,
           NEW p \in Procs, NEW ik \in IndexKeys, NEW fk \in FieldKeys,
           WriteIndex(p), current[p] = ik, btree[Part(p, ik)][fk] # NoField
    PROVE  Retrieve(ik, fk)' = Written(<<p, ik>>)[btree[Part(p, ik)][fk].pos]
<1>0. OwnFields /\ TypeOK /\ TreesOrdered
    BY DEF StoreInv, Inv, FlushInv
<1>1. PICK x : x = Part(p, ik)
    OBVIOUS
<1>2. x \in IndexFiles /\ x[1] = p /\ x[2] = ik /\ DataOf(x) = <<p, ik>>
    BY <1>1 DEF IndexFiles, Part, DataOf
<1>3. PICK d \in DataFiles : d = <<p, ik>>
    BY DEF DataFiles
<1>4. PICK m : m = ixOffset[x]
    OBVIOUS
<1>5. /\ m \in 1..Len(sections[x]) /\ sections[x][m] = btree[x] /\ Recorded(x, m)'
      /\ sections' = sections /\ data' = data /\ pc[p] = "writeIndex"
    BY <1>1, <1>4, WriteIndexRecords
<1>6. PICK b : b = btree[x][fk].pos
    OBVIOUS
<1>7. <<ik, fk>> \in MayArchive[p] /\ b \in Nat
    BY <1>0, <1>1, <1>6, TreeOwner
<1>8. RecordedHit(p, ik, fk, m)'
    BY <1>1, <1>5 DEF RecordedHit
<1>9. Exact(p, ik, fk)'
    BY <1>7 DEF StoreExact
<1>10. PICK s : /\ LatestHit(p, ik, fk, s)'
                /\ Retrieve(ik, fk)' = data'[<<p, ik>>][sections'[x][s][fk].pos]
    BY <1>1, <1>8, <1>9 DEF Exact
<1>11. PICK a : a = sections[x][s][fk].pos
    OBVIOUS
<1>12. s \in 1..Len(sections[x]) /\ sections[x][s][fk] # NoField
    BY <1>1, <1>5, <1>10 DEF LatestHit, RecordedHit
<1>13. b <= a
  <2>1. sections'[x][m][fk].pos <= sections'[x][s][fk].pos
    BY <1>1, <1>8, <1>10 DEF LatestHit
  <2> QED
    BY <1>5, <1>6, <1>11, <2>1
<1>14. a <= b
    BY <1>0, <1>1, <1>2, <1>6, <1>11, <1>12 DEF TreesOrdered
<1>15. a \in 1..Len(data[d]) /\ a \in Nat
  <2>1. a \in 1..Len(data[d])
    BY <1>0, <1>2, <1>3, <1>11, <1>12, HitOwner
  <2>2. Len(data[d]) \in Nat
    BY <1>0 DEF TypeOK
  <2> QED
    BY <2>1, <2>2
<1>16. a = b
    BY <1>7, <1>13, <1>14, <1>15
<1>17. Written(d)[a] = data[d][a]
    BY <1>0, <1>15, DurableIsWritten
<1>18. Written(<<p, ik>>)[btree[Part(p, ik)][fk].pos] = Written(d)[a]
    BY <1>1, <1>3, <1>6, <1>16
<1>19. Retrieve(ik, fk)' = data[d][a]
    BY <1>3, <1>5, <1>10, <1>11
<1> QED
    BY <1>17, <1>18, <1>19

(* What the refinement mapping says of one field. *)
PendingOf(p, ik, fk) ==
    IF btree[Part(p, ik)][fk] = NoField THEN NoField
    ELSE Written(<<p, ik>>)[btree[Part(p, ik)][fk].pos]

(* The stored fields are what a retrieve of each returns. *)
LEMMA StoredIsRetrieved ==
    storedFields = [f \in IndexKeys \X FieldKeys |-> Retrieve(f[1], f[2])]
<1> DEFINE of(indexes) == [f \in IndexKeys \X FieldKeys |-> RetrieveFrom(indexes, f[1], f[2])]
<1>1. {of(indexes) : indexes \in {Visible}} = {of(Visible)}
    OBVIOUS
<1>2. storedFields = CHOOSE m \in {of(indexes) : indexes \in {Visible}} : TRUE
    BY DEF storedFields
<1>3. storedFields = CHOOSE m \in {of(Visible)} : TRUE
    BY <1>1, <1>2
<1>4. \A c : (CHOOSE m \in {c} : TRUE) = c
    OBVIOUS
<1>5. storedFields = of(Visible)
    BY <1>3, <1>4
<1>6. of(Visible) = [f \in IndexKeys \X FieldKeys |-> Retrieve(f[1], f[2])]
    BY DEF Retrieve
<1> QED
    BY <1>5, <1>6

(* The pending fields are those of the open trees, on disk or in the buffer. *)
LEMMA PendingIsWritten ==
    Inv => pendingFields =
        [p \in Procs |-> [f \in IndexKeys \X FieldKeys |-> PendingOf(p, f[1], f[2])]]
<1> SUFFICES ASSUME Inv
             PROVE  pendingFields =
                 [p \in Procs |-> [f \in IndexKeys \X FieldKeys |-> PendingOf(p, f[1], f[2])]]
    OBVIOUS
<1> DEFINE At(p, f) == LET loc == btree[Part(p, f[1])][f[2]] IN
                       IF loc = NoField THEN NoField ELSE WrittenAt(loc)
<1>1. ASSUME NEW p \in Procs, NEW f \in IndexKeys \X FieldKeys PROVE At(p, f) = PendingOf(p, f[1], f[2])
  <2>1. PICK ik \in IndexKeys, fk \in FieldKeys : ik = f[1] /\ fk = f[2]
    OBVIOUS
  <2>2. PICK x : x = Part(p, ik)
    OBVIOUS
  <2>3. x \in IndexFiles /\ DataOf(x) = <<p, ik>>
    BY <2>2 DEF IndexFiles, Part, DataOf
  <2>4. ASSUME btree[x][fk] # NoField PROVE btree[x][fk].file = <<p, ik>>
    BY <2>3, <2>4 DEF Inv, WriteOrder, TreesWritten
  <2>5. PICK loc : loc = btree[x][fk]
    OBVIOUS
  <2>6. loc # NoField => WrittenAt(loc) = Written(<<p, ik>>)[loc.pos]
    BY <2>4, <2>5 DEF WrittenAt, Written
  <2> QED
    BY <2>1, <2>2, <2>5, <2>6 DEF PendingOf
<1>2. pendingFields = [p \in Procs |-> [f \in IndexKeys \X FieldKeys |-> At(p, f)]]
    BY DEF pendingFields
<1> HIDE DEF At
<1>3. ASSUME NEW p \in Procs
      PROVE  [f \in IndexKeys \X FieldKeys |-> At(p, f)] =
             [f \in IndexKeys \X FieldKeys |-> PendingOf(p, f[1], f[2])]
    BY <1>1
<1> QED
    BY <1>2, <1>3

(* A pending field stays while its tree entry does and its process does not crash. *)
LEMMA PendingStays ==
    ASSUME Inv, OwnFields, [Next]_vars, ~IOErrors, NEW p \in Procs, NEW ik \in IndexKeys,
           NEW fk \in FieldKeys, btree'[Part(p, ik)][fk] = btree[Part(p, ik)][fk], ~Crash(p)
    PROVE  PendingOf(p, ik, fk)' = PendingOf(p, ik, fk)
<1>0. TypeOK
    BY DEF Inv
<1>1. CASE btree[Part(p, ik)][fk] = NoField
    BY <1>1 DEF PendingOf
<1>2. CASE btree[Part(p, ik)][fk] # NoField
  <2>1. PICK d \in DataFiles : d = <<p, ik>>
    BY DEF DataFiles
  <2>2. PICK k : k = btree[Part(p, ik)][fk].pos
    OBVIOUS
  <2>3. k \in 1..Len(Written(d))
    BY <1>2, <2>1, <2>2, TreeOwner
  <2>4. pc'[d[1]] # "crashed" \/ pc[d[1]] = "crashed"
    BY <1>0, <2>1, CrashOnly
  <2>5. Written(d)'[k] = Written(d)[k]
    BY <2>3, <2>4, NextWritten DEF WrittenStep
  <2>6. Written(<<p, ik>>)' = Written(d)'
    BY <2>1 DEF Written
  <2> QED
    BY <1>2, <2>1, <2>2, <2>5, <2>6 DEF PendingOf
<1> QED
    BY <1>1, <1>2

(* Archive makes its field pending. *)
LEMMA ArchivePending ==
    ASSUME TypeOK, NEW p \in Procs, NEW ik \in IndexKeys, NEW fk \in FieldKeys, Archive(p, ik, fk)
    PROVE  PendingOf(p, ik, fk)' \in Values
<1>1. PICK x : x = Part(p, ik)
    OBVIOUS
<1>2. x \in IndexFiles
    BY <1>1 DEF IndexFiles, Part
<1>3. PICK d \in DataFiles : d = <<p, ik>>
    BY DEF DataFiles
<1>4. x \in PutInto(p, ik)
    BY <1>1 DEF PutInto
<1>5. PICK n : n = Len(Written(d)) + 1
    OBVIOUS
<1>6. btree'[x][fk].pos = n /\ btree'[x][fk] # NoField
    BY <1>2, <1>3, <1>4, <1>5, ArchivePuts
<1>7. Written(d)'[n] = [proc |-> p, ik |-> ik, fk |-> fk, n |-> count + 1]
    BY <1>3, <1>5, ArchiveWritten
<1>8. count + 1 \in 1..MaxArchives
    BY ArchiveAssumption DEF TypeOK, Archive
<1>9. [proc |-> p, ik |-> ik, fk |-> fk, n |-> count + 1] \in Values
    BY <1>8 DEF Values
<1>10. Written(<<p, ik>>)' = Written(d)'
    BY <1>3 DEF Written
<1>11. PendingOf(p, ik, fk)' = Written(d)'[n]
    BY <1>1, <1>6, <1>10 DEF PendingOf
<1> QED
    BY <1>7, <1>9, <1>11

(* Archive makes no other field pending, and takes none away. *)
LEMMA ArchiveOthers ==
    ASSUME Inv, OwnFields, [Next]_vars, ~IOErrors,
           NEW p \in Procs, NEW ik \in IndexKeys, NEW fk \in FieldKeys, Archive(p, ik, fk),
           NEW q \in Procs, NEW jk \in IndexKeys, NEW gk \in FieldKeys, <<q, jk, gk>> # <<p, ik, fk>>
    PROVE  PendingOf(q, jk, gk)' = PendingOf(q, jk, gk)
<1>0. TypeOK
    BY DEF Inv
<1>1. PICK x : x = Part(q, jk)
    OBVIOUS
<1>2. x \in IndexFiles
    BY <1>1 DEF IndexFiles, Part
<1>3. PICK d \in DataFiles : d = <<p, ik>>
    BY DEF DataFiles
<1>4. ~Crash(q)
    BY <1>0 DEF Crash, Archive, Goto, TypeOK
<1>5. CASE x \notin PutInto(p, ik)
  <2>1. btree'[x] = btree[x]
    BY <1>0, <1>2, <1>3, <1>5, ArchivePuts
  <2> QED
    BY <1>1, <1>4, <2>1, PendingStays
<1>6. CASE x \in PutInto(p, ik)
  <2>1. q = p /\ jk = ik
    BY <1>1, <1>6 DEF PutInto, Part, Full
  <2>2. gk # fk
    BY <2>1
  <2>3. btree'[x][gk] = btree[x][gk]
    BY <1>0, <1>2, <1>3, <1>6, <2>2, ArchivePuts
  <2> QED
    BY <1>1, <1>4, <2>3, PendingStays
<1> QED
    BY <1>5, <1>6

(* Which steps change the tree of an index. *)
LEMMA PendingSteps ==
    ASSUME Inv, FlushInv, OwnFields, [Next]_vars, ~IOErrors, NEW p \in Procs, NEW ik \in IndexKeys,
           NEW fk \in FieldKeys
    PROVE  \/ PendingOf(p, ik, fk)' = PendingOf(p, ik, fk)
           \/ Archive(p, ik, fk) /\ PendingOf(p, ik, fk)' \in Values
           \/ WriteIndex(p) /\ current[p] = ik /\ PendingOf(p, ik, fk)' = NoField
           \/ Crash(p) /\ PendingOf(p, ik, fk)' = NoField
<1>0. TypeOK /\ OffsetsWritten
    BY DEF Inv, WriteOrder
<1>1. PICK x : x = Part(p, ik)
    OBVIOUS
<1>2. x \in IndexFiles /\ x[1] = p
    BY <1>1 DEF IndexFiles, Part
<1>3. CASE Crash(p)
  <2>1. btree'[x] = EmptyTree
    BY <1>2, <1>3 DEF Crash
  <2> QED
    BY <1>1, <1>3, <2>1 DEF PendingOf, EmptyTree
<1>4. CASE btree'[x][fk] = btree[x][fk] /\ ~Crash(p)
    BY <1>1, <1>4, PendingStays
<1>5. CASE WriteIndex(p) /\ current[p] = ik
  <2>1. btree'[x] = EmptyTree
    BY <1>1, <1>5, WriteIndexRecords
  <2> QED
    BY <1>1, <1>5, <2>1 DEF PendingOf, EmptyTree
<1>6. ASSUME NEW g \in FieldKeys, Archive(p, ik, g)
      PROVE  \/ PendingOf(p, ik, fk)' = PendingOf(p, ik, fk)
             \/ Archive(p, ik, fk) /\ PendingOf(p, ik, fk)' \in Values
  <2>1. PICK d \in DataFiles : d = <<p, ik>>
    BY DEF DataFiles
  <2>2. x \in PutInto(p, ik)
    BY <1>1 DEF PutInto
  <2>3. /\ btree'[x][g].pos = Len(Written(d)) + 1 /\ btree'[x][g] # NoField
        /\ \A h \in FieldKeys : h # g => btree'[x][h] = btree[x][h]
    BY <1>0, <1>2, <1>6, <2>1, <2>2, ArchivePuts
  <2>4. CASE fk # g
    <3>1. ~Crash(p)
        BY <1>0, <1>6 DEF Crash, Archive, Goto, TypeOK
    <3>2. btree'[x][fk] = btree[x][fk]
        BY <2>3, <2>4
    <3> QED
        BY <1>1, <3>1, <3>2, PendingStays
  <2>5. CASE fk = g
    BY <1>0, <1>6, <2>5, ArchivePending
  <2> QED
    BY <2>4, <2>5
<1>7. FlushIndex(p, ik) => btree' = btree
    BY DEF FlushIndex
<1> QED
    BY <1>0, <1>1, <1>3, <1>4, <1>5, <1>6, <1>7, PartSteps DEF IndexQuiet

(* A function that differs from another in one place. *)
LEMMA OneRow ==
    ASSUME NEW S, NEW f, NEW g, f = [s \in S |-> f[s]], g = [s \in S |-> g[s]],
           NEW w \in S, \A s \in S : s # w => g[s] = f[s]
    PROVE  g = [f EXCEPT ![w] = g[w]]
OBVIOUS

(* The state of FieldStore, field by field. *)
Mapped ==
    /\ storedFields = [f \in IndexKeys \X FieldKeys |-> storedFields[f]]
    /\ \A ik \in IndexKeys, fk \in FieldKeys : storedFields[<<ik, fk>>] = Retrieve(ik, fk)
    /\ pendingFields = [p \in Procs |-> pendingFields[p]]
    /\ \A p \in Procs : pendingFields[p] = [f \in IndexKeys \X FieldKeys |-> pendingFields[p][f]]
    /\ \A p \in Procs, ik \in IndexKeys, fk \in FieldKeys :
          pendingFields[p][<<ik, fk>>] = PendingOf(p, ik, fk)

LEMMA InvMapped == Inv => Mapped
<1> SUFFICES ASSUME Inv PROVE Mapped
    OBVIOUS
<1>1. PICK sf : sf = storedFields
    OBVIOUS
<1>2. PICK pf : pf = pendingFields
    OBVIOUS
<1>3. sf = [f \in IndexKeys \X FieldKeys |-> Retrieve(f[1], f[2])]
    BY <1>1, StoredIsRetrieved
<1>4. pf = [p \in Procs |-> [f \in IndexKeys \X FieldKeys |-> PendingOf(p, f[1], f[2])]]
    BY <1>2, PendingIsWritten
<1>5. ASSUME NEW p \in Procs
      PROVE  pf[p] = [f \in IndexKeys \X FieldKeys |-> PendingOf(p, f[1], f[2])]
    BY <1>4
<1>6. ASSUME NEW p \in Procs, NEW ik \in IndexKeys, NEW fk \in FieldKeys
      PROVE  pf[p][<<ik, fk>>] = PendingOf(p, ik, fk)
  <2>1. <<ik, fk>> \in IndexKeys \X FieldKeys /\ <<ik, fk>>[1] = ik /\ <<ik, fk>>[2] = fk
    OBVIOUS
  <2> QED
    BY <1>5, <2>1
<1>7. ASSUME NEW ik \in IndexKeys, NEW fk \in FieldKeys PROVE sf[<<ik, fk>>] = Retrieve(ik, fk)
  <2>1. <<ik, fk>> \in IndexKeys \X FieldKeys /\ <<ik, fk>>[1] = ik /\ <<ik, fk>>[2] = fk
    OBVIOUS
  <2> QED
    BY <1>3, <2>1
<1>8. sf = [f \in IndexKeys \X FieldKeys |-> sf[f]]
    BY <1>3
<1>9. pf = [p \in Procs |-> pf[p]]
    BY <1>4
<1>10. ASSUME NEW p \in Procs PROVE pf[p] = [f \in IndexKeys \X FieldKeys |-> pf[p][f]]
    BY <1>5
<1> QED
    BY <1>1, <1>2, <1>6, <1>7, <1>8, <1>9, <1>10 DEF Mapped

(* Fields whose retrieval does not change are stored as before. *)
LEMMA StoredSame ==
    ASSUME Mapped, Mapped',
           \A ik \in IndexKeys, fk \in FieldKeys : Retrieve(ik, fk)' = Retrieve(ik, fk)
    PROVE  storedFields' = storedFields
<1>1. PICK s : s = storedFields
    OBVIOUS
<1>2. PICK t : t = storedFields'
    OBVIOUS
<1>3. s = [f \in IndexKeys \X FieldKeys |-> s[f]] /\ t = [f \in IndexKeys \X FieldKeys |-> t[f]]
    BY <1>1, <1>2 DEF Mapped
<1>4. ASSUME NEW ik \in IndexKeys, NEW fk \in FieldKeys PROVE s[<<ik, fk>>] = t[<<ik, fk>>]
  <2>1. s[<<ik, fk>>] = Retrieve(ik, fk)
    BY <1>1 DEF Mapped
  <2>2. t[<<ik, fk>>] = Retrieve(ik, fk)'
    BY <1>2 DEF Mapped
  <2> QED
    BY <2>1, <2>2
<1>5. ASSUME NEW x \in IndexKeys \X FieldKeys PROVE s[x] = t[x]
  <2>1. PICK ik \in IndexKeys, fk \in FieldKeys : x = <<ik, fk>>
    OBVIOUS
  <2> QED
    BY <1>4, <2>1
<1>6. s = t
    BY ONLY <1>3, <1>5
<1> QED
    BY <1>1, <1>2, <1>6

(* A process whose trees lead to the same fields has the same fields pending. *)
LEMMA RowSame ==
    ASSUME Mapped, Mapped', NEW p \in Procs,
           \A ik \in IndexKeys, fk \in FieldKeys : PendingOf(p, ik, fk)' = PendingOf(p, ik, fk)
    PROVE  pendingFields'[p] = pendingFields[p]
<1>1. PICK s : s = pendingFields[p]
    OBVIOUS
<1>2. PICK t : t = pendingFields'[p]
    OBVIOUS
<1>3. s = [f \in IndexKeys \X FieldKeys |-> s[f]] /\ t = [f \in IndexKeys \X FieldKeys |-> t[f]]
    BY <1>1, <1>2 DEF Mapped
<1>4. ASSUME NEW ik \in IndexKeys, NEW fk \in FieldKeys PROVE s[<<ik, fk>>] = t[<<ik, fk>>]
    BY <1>1, <1>2 DEF Mapped
<1>5. ASSUME NEW x \in IndexKeys \X FieldKeys PROVE s[x] = t[x]
  <2>1. PICK ik \in IndexKeys, fk \in FieldKeys : x = <<ik, fk>>
    OBVIOUS
  <2> QED
    BY <1>4, <2>1
<1>6. s = t
    BY ONLY <1>3, <1>5
<1> QED
    BY <1>1, <1>2, <1>6

(* A step of one process changes its own pending fields only. *)
LEMMA OnlyRow ==
    ASSUME Mapped, Mapped', NEW w \in Procs,
           \A p \in Procs, ik \in IndexKeys, fk \in FieldKeys :
              p # w => PendingOf(p, ik, fk)' = PendingOf(p, ik, fk)
    PROVE  pendingFields' = [pendingFields EXCEPT ![w] = pendingFields'[w]]
<1>1. PICK s : s = pendingFields
    OBVIOUS
<1>2. PICK t : t = pendingFields'
    OBVIOUS
<1>3. s = [p \in Procs |-> s[p]] /\ t = [p \in Procs |-> t[p]]
    BY <1>1, <1>2 DEF Mapped
<1>4. ASSUME NEW p \in Procs, p # w PROVE t[p] = s[p]
    BY <1>1, <1>2, <1>4, RowSame
<1>5. t = [s EXCEPT ![w] = t[w]]
    BY <1>3, <1>4, OneRow
<1> QED
    BY <1>1, <1>2, <1>5

(* Archiving a field makes it pending. *)
LEMMA ArchiveMaps ==
    ASSUME Inv, TocShape, FlushInv, StoreInv, StoreExact, StoreExact', Mapped, Mapped',
           [Next]_vars, ~IOErrors,
           NEW p \in Procs, NEW ik \in IndexKeys, NEW fk \in FieldKeys, Archive(p, ik, fk)
    PROVE  Fields!Archive(p, <<ik, fk>>)
<1>0. OwnFields /\ TypeOK
    BY DEF StoreInv, Inv
<1>1. \A q \in Procs, jk \in IndexKeys, gk \in FieldKeys :
          <<q, jk, gk>> # <<p, ik, fk>> => PendingOf(q, jk, gk)' = PendingOf(q, jk, gk)
    BY <1>0, ArchiveOthers
<1>2. ASSUME NEW q \in Procs PROVE ~WriteIndex(q)
  <2>1. pc[q] = "writeIndex" => q # p /\ pc'[q] = pc[q]
    BY DEF Archive
  <2> QED
    BY <1>0, <2>1 DEF WriteIndex, Goto, TypeOK
<1>3. storedFields' = storedFields
    BY <1>2, RetrieveStays, StoredSame
<1>4. pendingFields' = [pendingFields EXCEPT ![p] = pendingFields'[p]]
  <2>1. \A q \in Procs, jk \in IndexKeys, gk \in FieldKeys :
            q # p => PendingOf(q, jk, gk)' = PendingOf(q, jk, gk)
    BY <1>1
  <2> QED
    BY <2>1, OnlyRow
<1>5. pendingFields'[p][<<ik, fk>>] \in Values
  <2>1. PendingOf(p, ik, fk)' \in Values
    BY <1>0, ArchivePending
  <2> QED
    BY <2>1 DEF Mapped
<1>6. pendingFields'[p] =
          [pendingFields[p] EXCEPT ![<<ik, fk>>] = pendingFields'[p][<<ik, fk>>]]
  <2>1. PICK s : s = pendingFields[p]
    OBVIOUS
  <2>2. PICK t : t = pendingFields'[p]
    OBVIOUS
  <2>3. s = [f \in IndexKeys \X FieldKeys |-> s[f]] /\ t = [f \in IndexKeys \X FieldKeys |-> t[f]]
    BY <2>1, <2>2 DEF Mapped
  <2>4. ASSUME NEW f \in IndexKeys \X FieldKeys, f # <<ik, fk>> PROVE t[f] = s[f]
    <3>1. PICK jk \in IndexKeys, gk \in FieldKeys : f = <<jk, gk>>
        OBVIOUS
    <3>2. PendingOf(p, jk, gk)' = PendingOf(p, jk, gk)
        BY <1>1, <2>4, <3>1
    <3> QED
        BY <2>1, <2>2, <3>1, <3>2 DEF Mapped
  <2>5. <<ik, fk>> \in IndexKeys \X FieldKeys
    OBVIOUS
  <2>6. t = [s EXCEPT ![<<ik, fk>>] = t[<<ik, fk>>]]
    BY <2>3, <2>4, <2>5, OneRow
  <2> QED
    BY <2>1, <2>2, <2>6
<1>7. pendingFields' = [pendingFields EXCEPT ![p] =
          [pendingFields[p] EXCEPT ![<<ik, fk>>] = pendingFields'[p][<<ik, fk>>]]]
    BY <1>4, <1>6
<1> QED
    BY <1>3, <1>5, <1>7 DEF Fields!Archive

(* A writer that dies loses what it has pending. *)
LEMMA CrashMaps ==
    ASSUME Inv, TocShape, FlushInv, StoreInv, StoreExact, StoreExact', Mapped, Mapped',
           [Next]_vars, ~IOErrors, NEW p \in Procs, Crash(p)
    PROVE  Fields!Lose(p)
<1>0. OwnFields /\ TypeOK
    BY DEF StoreInv, Inv
<1>1. ASSUME NEW q \in Procs PROVE ~WriteIndex(q)
    BY <1>0 DEF WriteIndex, Goto, TypeOK, Crash, PCs
<1>2. storedFields' = storedFields
    BY <1>1, RetrieveStays, StoredSame
<1>3. ASSUME NEW ik \in IndexKeys, NEW fk \in FieldKeys PROVE PendingOf(p, ik, fk)' = NoField
  <2>1. PICK x : x = Part(p, ik)
    OBVIOUS
  <2>2. x \in IndexFiles /\ x[1] = p
    BY <2>1 DEF IndexFiles, Part
  <2>3. btree'[x] = EmptyTree
    BY <2>2 DEF Crash
  <2> QED
    BY <2>1, <2>3 DEF PendingOf, EmptyTree
<1>4. ASSUME NEW q \in Procs, NEW ik \in IndexKeys, NEW fk \in FieldKeys, q # p
      PROVE  PendingOf(q, ik, fk)' = PendingOf(q, ik, fk)
  <2>1. PICK x : x = Part(q, ik)
    OBVIOUS
  <2>2. x \in IndexFiles /\ x[1] # p
    BY <1>4, <2>1 DEF IndexFiles, Part
  <2>3. btree'[x] = btree[x]
    BY <2>2 DEF Crash
  <2>4. ~Crash(q)
    BY <1>0, <1>4 DEF Crash, Goto, TypeOK
  <2> QED
    BY <1>0, <2>1, <2>3, <2>4, PendingStays
<1>5. pendingFields' = [pendingFields EXCEPT ![p] = pendingFields'[p]]
    BY <1>4, OnlyRow
<1>6. pendingFields'[p] = Fields!Nothing
  <2>1. PICK t : t = pendingFields'[p]
    OBVIOUS
  <2>2. t = [f \in IndexKeys \X FieldKeys |-> t[f]]
    BY <2>1 DEF Mapped
  <2>3. ASSUME NEW f \in IndexKeys \X FieldKeys PROVE t[f] = NoField
    <3>1. PICK jk \in IndexKeys, gk \in FieldKeys : f = <<jk, gk>>
        OBVIOUS
    <3> QED
        BY <1>3, <2>1, <3>1 DEF Mapped
  <2>4. t = [f \in IndexKeys \X FieldKeys |-> NoField]
    BY <2>2, <2>3
  <2> QED
    BY <2>1, <2>4 DEF Fields!Nothing, Fields!Fields
<1>7. pendingFields' = [pendingFields EXCEPT ![p] = Fields!Nothing]
    BY <1>5, <1>6
<1> QED
    BY <1>2, <1>7 DEF Fields!Lose

(* What the record of an index does to each field: retrieved instead of pending. *)
LEMMA PublishFields ==
    ASSUME Inv, TocShape, FlushInv, StoreInv, StoreExact, StoreExact', [Next]_vars, ~IOErrors,
           NEW p \in Procs, NEW ik \in IndexKeys, WriteIndex(p), current[p] = ik
    PROVE  /\ \A fk \in FieldKeys :
                 /\ PendingOf(p, ik, fk)' = NoField
                 /\ Retrieve(ik, fk)' = IF PendingOf(p, ik, fk) # NoField THEN PendingOf(p, ik, fk)
                                        ELSE Retrieve(ik, fk)
           /\ \A jk \in IndexKeys, gk \in FieldKeys : jk # ik =>
                 /\ PendingOf(p, jk, gk)' = PendingOf(p, jk, gk)
                 /\ Retrieve(jk, gk)' = Retrieve(jk, gk)
           /\ \A q \in Procs, jk \in IndexKeys, gk \in FieldKeys : q # p =>
                 PendingOf(q, jk, gk)' = PendingOf(q, jk, gk)
<1>0. OwnFields /\ TypeOK
    BY DEF StoreInv, Inv
<1>1. ASSUME NEW q \in Procs, q # p PROVE ~WriteIndex(q)
    BY <1>0, <1>1 DEF WriteIndex, Goto, TypeOK
<1>2. ASSUME NEW q \in Procs PROVE ~Crash(q)
    BY <1>0 DEF WriteIndex, Crash, Goto, TypeOK
<1>3. btree'[Part(p, ik)] = EmptyTree
    BY WriteIndexRecords
<1>4. ASSUME NEW q \in Procs, NEW jk \in IndexKeys, NEW gk \in FieldKeys, q # p \/ jk # ik
      PROVE  PendingOf(q, jk, gk)' = PendingOf(q, jk, gk)
  <2>1. PICK x : x = Part(q, jk)
    OBVIOUS
  <2>2. x \in IndexFiles /\ x # Part(p, ik)
    BY <1>4, <2>1 DEF IndexFiles, Part
  <2>3. btree'[x] = btree[x]
    BY <1>0, <2>2 DEF WriteIndex, TypeOK
  <2> QED
    BY <1>0, <1>2, <2>1, <2>3, PendingStays
<1>5. ASSUME NEW jk \in IndexKeys, NEW gk \in FieldKeys, jk # ik
      PROVE  Retrieve(jk, gk)' = Retrieve(jk, gk)
  <2>1. \A q \in Procs : WriteIndex(q) /\ current[q] = jk => btree[Part(q, jk)][gk] = NoField
    BY <1>1, <1>5
  <2> QED
    BY <2>1, RetrieveStays
<1>6. ASSUME NEW fk \in FieldKeys
      PROVE  /\ PendingOf(p, ik, fk)' = NoField
             /\ Retrieve(ik, fk)' = IF PendingOf(p, ik, fk) # NoField THEN PendingOf(p, ik, fk)
                                    ELSE Retrieve(ik, fk)
  <2>1. PendingOf(p, ik, fk)' = NoField
    <3>1. btree'[Part(p, ik)][fk] = NoField
        BY <1>3 DEF EmptyTree
    <3> QED
        BY <3>1 DEF PendingOf
  <2>2. CASE btree[Part(p, ik)][fk] # NoField
    <3>1. PendingOf(p, ik, fk) = Written(<<p, ik>>)[btree[Part(p, ik)][fk].pos]
        BY <2>2 DEF PendingOf
    <3>2. PendingOf(p, ik, fk) \in Values
        BY <1>0, <2>2, <3>1, TreeOwner
    <3>3. PendingOf(p, ik, fk) # NoField
        BY <3>2, NoFieldAssumption
    <3>4. Retrieve(ik, fk)' = PendingOf(p, ik, fk)
        BY <2>2, <3>1, RetrievePublishes
    <3> QED
        BY <2>1, <3>3, <3>4
  <2>3. CASE btree[Part(p, ik)][fk] = NoField
    <3>1. PendingOf(p, ik, fk) = NoField
        BY <2>3 DEF PendingOf
    <3>2. \A q \in Procs : WriteIndex(q) /\ current[q] = ik => btree[Part(q, ik)][fk] = NoField
        BY <1>1, <2>3
    <3>3. Retrieve(ik, fk)' = Retrieve(ik, fk)
        BY <3>2, RetrieveStays
    <3> QED
        BY <2>1, <3>1, <3>3
  <2> QED
    BY <2>2, <2>3
<1> QED
    BY <1>4, <1>5, <1>6

(* The record of an index publishes the pending fields of the index. *)
LEMMA PublishMaps ==
    ASSUME Inv, TocShape, FlushInv, StoreInv, StoreExact, StoreExact', Mapped, Mapped',
           [Next]_vars, ~IOErrors,
           NEW p \in Procs, NEW ik \in IndexKeys, WriteIndex(p), current[p] = ik
    PROVE  Fields!Publish(p, ik)
<1>1. /\ \A fk \in FieldKeys :
            /\ PendingOf(p, ik, fk)' = NoField
            /\ Retrieve(ik, fk)' = IF PendingOf(p, ik, fk) # NoField THEN PendingOf(p, ik, fk)
                                   ELSE Retrieve(ik, fk)
      /\ \A jk \in IndexKeys, gk \in FieldKeys : jk # ik =>
            /\ PendingOf(p, jk, gk)' = PendingOf(p, jk, gk)
            /\ Retrieve(jk, gk)' = Retrieve(jk, gk)
      /\ \A q \in Procs, jk \in IndexKeys, gk \in FieldKeys : q # p =>
            PendingOf(q, jk, gk)' = PendingOf(q, jk, gk)
    BY PublishFields
<1>2. PICK s : s = storedFields
    OBVIOUS
<1>3. PICK t : t = storedFields'
    OBVIOUS
<1>4. PICK u : u = pendingFields[p]
    OBVIOUS
<1>5. PICK v : v = pendingFields'[p]
    OBVIOUS
<1>6. /\ t = [f \in IndexKeys \X FieldKeys |-> t[f]]
      /\ v = [f \in IndexKeys \X FieldKeys |-> v[f]]
    BY <1>3, <1>5 DEF Mapped
<1>7. ASSUME NEW f \in IndexKeys \X FieldKeys
      PROVE  /\ t[f] = IF f[1] = ik /\ u[f] # NoField THEN u[f] ELSE s[f]
             /\ v[f] = IF f[1] = ik /\ u[f] # NoField THEN NoField ELSE u[f]
  <2>1. PICK jk \in IndexKeys, gk \in FieldKeys : f = <<jk, gk>> /\ f[1] = jk
    OBVIOUS
  <2>2. s[f] = Retrieve(jk, gk) /\ u[f] = PendingOf(p, jk, gk)
    BY <1>2, <1>4, <2>1 DEF Mapped
  <2>3. t[f] = Retrieve(jk, gk)' /\ v[f] = PendingOf(p, jk, gk)'
    BY <1>3, <1>5, <2>1 DEF Mapped
  <2>4. CASE jk = ik
    <3>1. PendingOf(p, jk, gk)' = NoField
        BY <1>1, <2>4
    <3>2. Retrieve(jk, gk)' = IF PendingOf(p, jk, gk) # NoField THEN PendingOf(p, jk, gk)
                              ELSE Retrieve(jk, gk)
        BY <1>1, <2>4
    <3> QED
        BY <2>1, <2>2, <2>3, <2>4, <3>1, <3>2
  <2>5. CASE jk # ik
    <3>1. PendingOf(p, jk, gk)' = PendingOf(p, jk, gk) /\ Retrieve(jk, gk)' = Retrieve(jk, gk)
        BY <1>1, <2>5
    <3> QED
        BY <2>1, <2>2, <2>3, <2>5, <3>1
  <2> QED
    BY <2>4, <2>5
<1>8. t = [f \in IndexKeys \X FieldKeys |-> IF f[1] = ik /\ u[f] # NoField THEN u[f] ELSE s[f]]
    BY ONLY <1>6, <1>7
<1>9. v = [f \in IndexKeys \X FieldKeys |-> IF f[1] = ik /\ u[f] # NoField THEN NoField ELSE u[f]]
    BY ONLY <1>6, <1>7
<1>10. pendingFields' = [pendingFields EXCEPT ![p] = v]
    BY <1>1, <1>5, OnlyRow
<1>11. /\ storedFields' = [f \in IndexKeys \X FieldKeys |->
                IF f[1] = ik /\ pendingFields[p][f] # NoField THEN pendingFields[p][f]
                ELSE storedFields[f]]
    BY <1>2, <1>3, <1>4, <1>8
<1>12. v = [f \in IndexKeys \X FieldKeys |->
                IF f[1] = ik /\ pendingFields[p][f] # NoField THEN NoField
                ELSE pendingFields[p][f]]
    BY <1>4, <1>9
<1>13. p \in DOMAIN pendingFields
    BY DEF Mapped
<1> QED
    BY <1>10, <1>11, <1>12, <1>13 DEF Fields!Publish, Fields!Fields

(* Every step of the writers is one of FieldStore, or changes nothing there. *)
LEMMA StoreStep ==
    ASSUME Inv, TocShape, FlushInv, StoreInv, StoreExact, StoreExact', Mapped, Mapped',
           [Next]_vars, ~IOErrors
    PROVE  [Fields!Next]_(Fields!vars)
<1>0. OwnFields /\ OffsetsWritten
    BY DEF StoreInv, Inv, WriteOrder
<1>1. ASSUME NEW p \in Procs, WriteIndex(p) PROVE Fields!Next
  <2>1. current[p] \in IndexKeys
    BY <1>0, <1>1 DEF WriteIndex, OffsetsWritten
  <2>2. Fields!Publish(p, current[p])
    BY <1>1, <2>1, PublishMaps
  <2> QED
    BY <2>1, <2>2 DEF Fields!Next
<1>2. ASSUME NEW p \in Procs, NEW ik \in IndexKeys, NEW fk \in FieldKeys, Archive(p, ik, fk)
      PROVE  Fields!Next
  <2>1. Fields!Archive(p, <<ik, fk>>)
    BY <1>2, ArchiveMaps
  <2>2. <<ik, fk>> \in Fields!Fields
    BY DEF Fields!Fields
  <2> QED
    BY <2>1, <2>2 DEF Fields!Next
<1>3. ASSUME NEW p \in Procs, Crash(p) PROVE Fields!Next
  <2>1. Fields!Lose(p)
    BY <1>3, CrashMaps
  <2> QED
    BY <2>1 DEF Fields!Next
<1>4. ASSUME \A p \in Procs : /\ ~WriteIndex(p) /\ ~Crash(p)
                              /\ \A ik \in IndexKeys, fk \in FieldKeys : ~Archive(p, ik, fk)
      PROVE  UNCHANGED Fields!vars
  <2>1. ASSUME NEW ik \in IndexKeys, NEW fk \in FieldKeys
        PROVE  Retrieve(ik, fk)' = Retrieve(ik, fk)
    BY <1>4, RetrieveStays
  <2>2. storedFields' = storedFields
    BY <2>1, StoredSame
  <2>3. ASSUME NEW p \in Procs, NEW ik \in IndexKeys, NEW fk \in FieldKeys
        PROVE  PendingOf(p, ik, fk)' = PendingOf(p, ik, fk)
    BY <1>0, <1>4, PendingSteps
  <2>4. ASSUME NEW p \in Procs PROVE pendingFields'[p] = pendingFields[p]
    BY <2>3, RowSame
  <2>5. PICK s : s = pendingFields
    OBVIOUS
  <2>6. PICK t : t = pendingFields'
    OBVIOUS
  <2>7. s = [p \in Procs |-> s[p]] /\ t = [p \in Procs |-> t[p]]
    BY <2>5, <2>6 DEF Mapped
  <2>8. \A p \in Procs : t[p] = s[p]
    BY <2>4, <2>5, <2>6
  <2>9. t = s
    BY ONLY <2>7, <2>8
  <2> QED
    BY <2>2, <2>5, <2>6, <2>9 DEF Fields!vars
<1> QED
    BY <1>1, <1>2, <1>3, <1>4

(* At the start no field is stored and none pending. *)
LEMMA StoreStart ==
    ASSUME Init, Mapped, StoreExact
    PROVE  Fields!Init
<1>1. ASSUME NEW p \in Procs, NEW ik \in IndexKeys
      PROVE  btree[Part(p, ik)] = EmptyTree /\ sections[Part(p, ik)] = << >>
  <2>1. Part(p, ik) \in IndexFiles
    BY Names
  <2> QED
    BY <2>1 DEF Init
<1>2. ASSUME NEW p \in Procs, NEW ik \in IndexKeys, NEW fk \in FieldKeys
      PROVE  PendingOf(p, ik, fk) = NoField
    BY <1>1 DEF PendingOf, EmptyTree
<1>3. ASSUME NEW ik \in IndexKeys, NEW fk \in FieldKeys PROVE Retrieve(ik, fk) = NoField
  <2>1. CASE \A p \in Procs : <<ik, fk>> \notin MayArchive[p]
    BY <2>1 DEF StoreExact
  <2>2. ASSUME NEW p \in Procs, <<ik, fk>> \in MayArchive[p] PROVE Retrieve(ik, fk) = NoField
    <3>1. Exact(p, ik, fk)
        BY <2>2 DEF StoreExact
    <3>2. 1..Len(sections[Part(p, ik)]) = {}
        BY <1>1
    <3>3. \A s : ~LatestHit(p, ik, fk, s)
        BY <3>2 DEF LatestHit, RecordedHit
    <3> QED
        BY <3>1, <3>3 DEF Exact
  <2> QED
    BY <2>1, <2>2
<1>4. PICK s : s = storedFields
    OBVIOUS
<1>5. PICK t : t = pendingFields
    OBVIOUS
<1>6. /\ s = [f \in IndexKeys \X FieldKeys |-> s[f]] /\ t = [p \in Procs |-> t[p]]
      /\ \A p \in Procs : t[p] = [f \in IndexKeys \X FieldKeys |-> t[p][f]]
    BY <1>4, <1>5 DEF Mapped
<1>7. ASSUME NEW f \in IndexKeys \X FieldKeys
      PROVE  s[f] = NoField /\ \A p \in Procs : t[p][f] = NoField
  <2>1. PICK jk \in IndexKeys, gk \in FieldKeys : f = <<jk, gk>>
    OBVIOUS
  <2>2. s[f] = NoField
    BY <1>3, <1>4, <2>1, ZenonT(60) DEF Mapped
  <2>3. ASSUME NEW p \in Procs PROVE t[p][f] = NoField
    BY <1>2, <1>5, <2>1 DEF Mapped
  <2> QED
    BY <2>2, <2>3
<1>8. s = [f \in IndexKeys \X FieldKeys |-> NoField]
    BY ONLY <1>6, <1>7
<1>9. ASSUME NEW p \in Procs PROVE t[p] = [f \in IndexKeys \X FieldKeys |-> NoField]
    BY ONLY <1>6, <1>7, p \in Procs
<1>10. t = [p \in Procs |-> [f \in IndexKeys \X FieldKeys |-> NoField]]
    BY ONLY <1>6, <1>9
<1> QED
    BY <1>4, <1>5, <1>8, <1>10 DEF Fields!Init, Fields!Nothing, Fields!Fields

(***************************************************************************)
(* The files implement FieldStore, for every number of processes, keys and *)
(* fields: a field becomes retrievable exactly when the INDEX record of    *)
(* its flush is appended, whole indexes at a time; what was retrievable is *)
(* replaced by a newer value only; and compaction, races to initialise the *)
(* toc and crashes do not show (DB::flush, TocCatalogueWriter,             *)
(* TocHandler::loadIndexes).  No field has two processes that may archive  *)
(* it, and writes do not fail.                                             *)
(***************************************************************************)
THEOREM StoreImplements ==
    ASSUME ~IOErrors, OneWriter
    PROVE  Spec => ImplementsFieldStore
<1>1. Init => TocShape /\ FlushInv /\ StoreInv
    BY InitFlush, InitStore DEF Init, TocShape, TocsWellFormed, InitProgress, SubTocProgress, TocFiles
<1>2. Inv /\ TocShape /\ FlushInv /\ StoreInv /\ [Next]_vars => TocShape' /\ FlushInv' /\ StoreInv'
    BY NextShape, NextFlush, NextStore
<1>3. Inv /\ FlushInv /\ StoreInv => StoreExact /\ Mapped
    BY StoreInvExact, InvMapped
<1>4. /\ Inv /\ TocShape /\ FlushInv /\ StoreInv /\ StoreExact /\ Mapped
      /\ StoreExact' /\ Mapped' /\ [Next]_vars
      => [Fields!Next]_(Fields!vars)
    BY StoreStep
<1>5. Init /\ StoreExact /\ Mapped => Fields!Init
    BY StoreStart
<1> QED
    BY <1>1, <1>2, <1>3, <1>4, <1>5, InductiveInvariant, PTL DEF Spec, ImplementsFieldStore, Fields!Spec
=============================================================================
