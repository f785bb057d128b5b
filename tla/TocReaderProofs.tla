--------------------------- MODULE TocReaderProofs ---------------------------
(***************************************************************************)
(* A reader beside the writers never follows a record to nothing: for any  *)
(* number of processes, index keys and fields, whether it reads the toc as *)
(* it goes or a copy, whoever crashes and whatever write fails.            *)
(*                                                                         *)
(*   1. What the master toc links is there (MasterLeads), and what the     *)
(*      walk of a sub-toc finds is written (SubWalkWritten).               *)
(*   2. ReaderInv says so of what the reader has copied and of what it     *)
(*      has found; files only grow (FilesGrow), so the writers keep it.    *)
(*                                                                         *)
(* And, as long as no write fails, it sees what was flushed when it opened *)
(* the toc:                                                                *)
(*   3. Every flushed field is promised to the reader by a record of the   *)
(*      master toc (TocPromises), and an index that has its place in the   *)
(*      tocs never changes again (PlacedStays).                            *)
(*   4. SeesInv: a promise is still ahead of the walk, or the indexes      *)
(*      found so far lead to the field (ReadKeepsPromises).                *)
(***************************************************************************)
EXTENDS TocReader, TocWriterProofs

(* What a record of the master toc names is in the files. *)
Leads(r) ==
    /\ r.tag = "TOC_INDEX" => r.path \in IndexFiles /\ r.offset \in 1..Len(sections[r.path])
    /\ r.tag = "TOC_SUB_TOC" => r.path \in Procs /\ tocs[r.path] # << >>

ReaderTypes ==
    /\ cacheTocs \in BOOLEAN
    /\ rpc \in {"closed", "walking", "open"}
    /\ position \in Nat \ {0}
    /\ snapshot \in Seq(TocRecords)
    /\ indexes_ \in Seq(FoundEntries)
FoundWritten == \A i \in 1..Len(indexes_) : indexes_[i].offset \in 1..Len(sections[indexes_[i].path])
ReaderInv == ReaderTypes /\ FoundWritten /\ \A i \in 1..Len(snapshot) : Leads(snapshot[i])

(* Whatever the master toc names is there. *)
LEMMA MasterLeads ==
    ASSUME Inv, TocsWellFormed
    PROVE  /\ tocs[Master] \in Seq(TocRecords)
           /\ \A i \in 1..Len(tocs[Master]) : Leads(tocs[Master][i])
<1>1. Master \in TocFiles /\ TypeOK /\ RecordsWritten
    BY DEF TocFiles, Inv, WriteOrder
<1>2. tocs[Master] \in Seq(TocRecords)
    BY <1>1 DEF TypeOK
<1>3. ASSUME NEW i \in 1..Len(tocs[Master]) PROVE Leads(tocs[Master][i])
  <2>1. tocs[Master][i] \in TocRecords
    BY <1>2
  <2>2. tocs[Master][i].tag = "TOC_INDEX" =>
            tocs[Master][i].path \in IndexFiles
            /\ tocs[Master][i].offset \in 1..Len(sections[tocs[Master][i].path])
    BY <1>1, <2>1, RecordKinds DEF RecordsWritten
  <2>3. tocs[Master][i].tag = "TOC_SUB_TOC" =>
            tocs[Master][i].path \in Procs /\ tocs[tocs[Master][i].path] # << >>
    BY <2>1, RecordKinds DEF TocsWellFormed
  <2> QED
    BY <2>2, <2>3 DEF Leads
<1> QED
    BY <1>2, <1>3

(* A sub-toc is walked alone: no sub-toc is opened from there (readNext, at the last depth). *)
LEMMA ReadAllOfSub ==
    ASSUME TypeOK, NEW t \in TocFiles
    PROVE  readAll(tocs, t, 0) = SubWalk(t)
<1> DEFINE body(w, d) == [f \in TocFiles |->
              FlattenSeq([i \in 1..Len(tocs[f]) |->
                  EntriesOf(f, tocs[f][i], IF d > 0 THEN w[d - 1][tocs[f][i].path] ELSE << >>)])]
           subs == [f \in TocFiles |-> SubWalk(f)]
           w0 == [d \in 0..0 |-> subs]
<1>1. DOMAIN tocs = TocFiles
    BY DEF TypeOK
<1>2. ASSUME NEW w PROVE body(w, 0) = subs
  <2>1. ASSUME NEW f \in TocFiles, NEW i \in 1..Len(tocs[f])
        PROVE  EntriesOf(f, tocs[f][i], IF 0 > 0 THEN w[0 - 1][tocs[f][i].path] ELSE << >>)
                 = EntriesOf(f, tocs[f][i], << >>)
    BY DEF EntriesOf
  <2> QED
    BY <2>1 DEF SubWalk
<1>3. \E w : w = [d \in 0..0 |-> body(w, d)]
  <2>1. \A d \in 0..0 : d = 0
    OBVIOUS
  <2>2. \A d \in 0..0 : w0[d] = body(w0, d)
    <3>1. w0[0] = subs
        OBVIOUS
    <3> HIDE DEF w0, body, subs
    <3> QED
        BY <1>2, <2>1, <3>1
  <2>3. w0 = [d \in 0..0 |-> w0[d]]
    OBVIOUS
  <2>4. w0 = [d \in 0..0 |-> body(w0, d)]
    <3> HIDE DEF w0, body
    <3> QED
        BY <2>2, <2>3
  <2> HIDE DEF w0
  <2> QED
    BY <2>4
<1> DEFINE walk == CHOOSE w : w = [d \in 0..0 |-> body(w, d)]
<1>4. walk = [d \in 0..0 |-> body(walk, d)]
    BY <1>3
<1>5. readAll(tocs, t, 0) = walk[0][t]
    BY <1>1 DEF readAll, EntriesOf
<1> HIDE DEF walk
<1>6. walk[0] = body(walk, 0)
  <2> HIDE DEF body
  <2> QED
    BY <1>4
<1>7. walk[0] = subs
  <2> HIDE DEF body, subs
  <2> QED
    BY <1>2, <1>6
<1> QED
    BY <1>5, <1>7

(* What the walk of a sub-toc finds has its section in the file. *)
LEMMA SubWalkWritten ==
    ASSUME Inv, NEW t \in TocFiles
    PROVE  /\ SubWalk(t) \in Seq(FoundEntries)
           /\ \A k \in 1..Len(SubWalk(t)) : SubWalk(t)[k].offset \in 1..Len(sections[SubWalk(t)[k].path])
<1> DEFINE missing == {x \in FoundEntries : x.offset \notin 1..Len(sections[x.path])}
           parts == [i \in 1..Len(tocs[t]) |-> EntriesOf(t, tocs[t][i], << >>)]
<1>1. TypeOK /\ RecordsWritten
    BY DEF Inv, WriteOrder
<1>2. SubWalk(t) \in Seq(FoundEntries)
    BY <1>1, WalkTypes
<1>3. Len(tocs[t]) \in Nat /\ \A i \in 1..Len(tocs[t]) : tocs[t][i] \in TocRecords
    BY <1>1 DEF TypeOK
<1>4. ASSUME NEW i \in 1..Len(tocs[t])
      PROVE  parts[i] \in Seq(FoundEntries) /\ NoneIn(parts[i], missing)
  <2>1. parts[i] = EntriesOf(t, tocs[t][i], << >>)
    OBVIOUS
  <2>2. tocs[t][i] \in TocRecords
    BY <1>3
  <2>3. CASE tocs[t][i].tag = "TOC_INDEX"
    <3> DEFINE x == [path |-> tocs[t][i].path, offset |-> tocs[t][i].offset, toc |-> t]
    <3>1. x \in FoundEntries /\ x \notin missing
        BY <1>1, <2>2, <2>3, RecordKinds DEF FoundEntries, RecordsWritten
    <3>2. parts[i] = << >> \/ parts[i] = <<x>>
        BY <2>1, <2>3 DEF EntriesOf
    <3>3. PICK y \in FoundEntries : y = x /\ y \notin missing
        BY <3>1
    <3>4. << >> \in Seq(FoundEntries) /\ NoneIn(<< >>, missing)
        BY DEF NoneIn
    <3>5. <<y>> \in Seq(FoundEntries) /\ NoneIn(<<y>>, missing)
      <4> HIDE DEF missing
      <4>1. Len(<<y>>) = 1 /\ <<y>>[1] = y /\ <<y>> \in Seq(FoundEntries)
        OBVIOUS
      <4>2. \A j \in 1..1 : j = 1
        OBVIOUS
      <4> QED
        BY <3>3, <4>1, <4>2 DEF NoneIn
    <3> HIDE DEF x, missing, parts
    <3> QED
        BY <3>2, <3>3, <3>4, <3>5
  <2>4. CASE tocs[t][i].tag # "TOC_INDEX"
    <3>1. parts[i] = << >>
        BY <2>1, <2>4 DEF EntriesOf
    <3>2. << >> \in Seq(FoundEntries) /\ NoneIn(<< >>, missing)
        BY DEF NoneIn
    <3> HIDE DEF parts, missing
    <3> QED
        BY <3>1, <3>2
  <2> QED
    BY <2>3, <2>4
<1>5. parts \in Seq(Seq(FoundEntries)) /\ Len(parts) = Len(tocs[t])
  <2>1. parts \in [1..Len(tocs[t]) -> Seq(FoundEntries)]
    BY <1>4
  <2> HIDE DEF parts
  <2> QED
    BY <1>3, <2>1, IsASeq
<1>6. NoneIn(SubWalk(t), missing)
  <2>1. \A k \in 1..Len(parts) : NoneIn(parts[k], missing)
    BY <1>4, <1>5
  <2>2. SubWalk(t) = FlattenSeq(parts)
    BY DEF SubWalk
  <2> HIDE DEF parts, missing
  <2> QED
    BY <1>5, <2>1, <2>2, FlattenLast
<1>7. ASSUME NEW k \in 1..Len(SubWalk(t)) PROVE SubWalk(t)[k].offset \in 1..Len(sections[SubWalk(t)[k].path])
  <2>1. SubWalk(t)[k] \in FoundEntries
    BY <1>2
  <2>2. SubWalk(t)[k] \notin missing
    BY <1>6 DEF NoneIn
  <2> QED
    BY <2>1, <2>2
<1> QED
    BY <1>2, <1>7
(* A step of the writers takes no section out of an index file and no toc away. *)
LEMMA FilesGrow ==
    ASSUME Inv, [Next]_vars
    PROVE  /\ \A x \in IndexFiles : 1..Len(sections[x]) \subseteq 1..Len(sections'[x])
           /\ \A t \in TocFiles : tocs[t] # << >> => tocs'[t] # << >>
<1> DEFINE Goal == /\ \A x \in IndexFiles : 1..Len(sections[x]) \subseteq 1..Len(sections'[x])
                   /\ \A t \in TocFiles : tocs[t] # << >> => tocs'[t] # << >>
<1>0. TypeOK /\ TypeOK' /\ OffsetsWritten
    BY NextTypeOK DEF Inv, WriteOrder
<1>1. ASSUME UNCHANGED <<tocs, sections>> PROVE Goal
    BY <1>1
<1>2. ASSUME NEW t \in TocFiles, NEW recs, AppendToc(t, recs), UNCHANGED sections,
             tocs[t] \o recs \in Seq(TocRecords),
             Len(tocs[t] \o recs) >= Len(tocs[t])
      PROVE  Goal
  <2>1. tocs'[t] = tocs[t] \o recs /\ \A u \in TocFiles : u # t => tocs'[u] = tocs[u]
    BY <1>0, <1>2 DEF AppendToc, TypeOK
  <2>2. tocs[t] # << >> => tocs'[t] # << >>
    <3>1. tocs[t] # << >> => Len(tocs[t]) \in Nat /\ Len(tocs[t]) # 0
        BY <1>0 DEF TypeOK
    <3>2. tocs[t] # << >> => Len(tocs[t] \o recs) # 0
        BY <1>2, <3>1
    <3> QED
        BY <2>1, <3>2
  <2> QED
    BY <1>2, <2>1, <2>2
<1>3. ASSUME NEW t \in TocFiles, NEW recs \in Seq(TocRecords), AppendToc(t, recs), UNCHANGED sections PROVE Goal
  <2>1. PICK s \in Seq(TocRecords) : s = tocs[t]
    BY <1>0 DEF TypeOK
  <2>2. s \o recs \in Seq(TocRecords) /\ Len(s \o recs) >= Len(s)
    OBVIOUS
  <2> HIDE DEF Goal
  <2> QED
    BY <1>2, <1>3, <2>1, <2>2
<1>4. ASSUME NEW p \in Procs, WriteInit(p) PROVE Goal
  <2>1. PICK new : new = <<InitRecord>> \o Tail(IF tocs[Master] = << >> THEN <<InitRecord>> ELSE tocs[Master])
    OBVIOUS
  <2>2. new # << >>
    <3>1. PICK tail \in Seq(TocRecords) :
              tail = Tail(IF tocs[Master] = << >> THEN <<InitRecord>> ELSE tocs[Master])
      <4>1. tocs[Master] \in Seq(TocRecords) /\ <<InitRecord>> \in Seq(TocRecords)
        BY <1>0, RecordTypes DEF TypeOK, TocFiles
      <4>2. Tail(<<InitRecord>>) \in Seq(TocRecords)
        BY <4>1
      <4>3. tocs[Master] # << >> => Tail(tocs[Master]) \in Seq(TocRecords)
        BY <4>1
      <4> QED
        BY <4>2, <4>3
    <3>2. InitRecord \in TocRecords
        BY RecordTypes
    <3>3. \A r \in TocRecords : <<r>> \o tail # << >>
        BY <3>1
    <3> QED
        BY <2>1, <3>1, <3>2, <3>3
  <2>3. tocs'[Master] = new /\ \A t \in TocFiles : t # Master => tocs'[t] = tocs[t]
    BY <1>0, <1>4, <2>1 DEF WriteInit, TypeOK, TocFiles
  <2>4. sections' = sections
    BY <1>4 DEF WriteInit
  <2> QED
    BY <2>2, <2>3, <2>4
<1>5. ASSUME NEW p \in Procs, NewSubToc(p) \/ LinkSubToc(p) \/ WriteIndex(p) PROVE Goal
  <2>1. PICK t \in TocFiles, r \in TocRecords : AppendToc(t, <<r>>)
    <3>1. Part(p, current[p]) \in IndexFiles => ixOffset[Part(p, current[p])] \in Nat
        BY <1>0 DEF TypeOK
    <3>2. WriteIndex(p) => Part(p, current[p]) \in IndexFiles
        BY <1>0, Names DEF OffsetsWritten, WriteIndex, TypeOK
    <3> QED
        BY <1>5, <3>1, <3>2, Names, RecordTypes DEF NewSubToc, LinkSubToc, WriteIndex
  <2>2. UNCHANGED sections
    BY <1>5 DEF NewSubToc, LinkSubToc, WriteIndex
  <2>3. <<r>> \in Seq(TocRecords)
    OBVIOUS
  <2> HIDE DEF Goal
  <2> QED
    BY <1>3, <2>1, <2>2, <2>3
<1>6. ASSUME NEW p \in Procs, Compact(p) PROVE Goal
  <2>1. CompactionBlock(p) \in Seq(TocRecords)
    <3>1. IsFiniteSet(toPublish[p])
        BY <1>0 DEF OffsetsWritten
    <3> QED
        BY <1>0, <3>1, CompactionBlockType
  <2>2. AppendToc(Master, CompactionBlock(p)) /\ UNCHANGED sections /\ Master \in TocFiles
    BY <1>6, Names DEF Compact
  <2> HIDE DEF Goal
  <2> QED
    BY <1>3, <2>1, <2>2
<1>7. ASSUME NEW y \in IndexFiles, WriteTree(y), UNCHANGED tocs PROVE Goal
  <2>1. /\ sections' \in [IndexFiles -> Seq(Entries)]
        /\ \A x \in IndexFiles : x # y => sections'[x] = sections[x]
        /\ Len(sections[y]) <= Len(sections'[y])
    BY <1>0, <1>7, WriteTreeProperties DEF OffsetsWritten
  <2>2. \A x \in IndexFiles : Len(sections[x]) \in Nat /\ Len(sections'[x]) \in Nat
    BY <1>0, <2>1 DEF TypeOK
  <2>3. \A x \in IndexFiles : Len(sections[x]) <= Len(sections'[x])
    BY <2>1, <2>2
  <2>4. \A m, n \in Nat : m <= n => 1..m \subseteq 1..n
    OBVIOUS
  <2> QED
    BY <1>7, <2>2, <2>3, <2>4
<1>8. ASSUME NEW p \in Procs, NEW ik \in IndexKeys, FlushIndex(p, ik) \/ FlushFull(p, ik) PROVE Goal
    BY <1>7, <1>8, Names DEF FlushIndex, FlushFull
<1> HIDE DEF Goal
<1>9. Goal
  <2>1. CASE \E p \in Procs : \/ WriteInit(p) \/ NewSubToc(p) \/ LinkSubToc(p) \/ WriteIndex(p)
                               \/ Compact(p)
    BY <1>4, <1>5, <1>6, <2>1
  <2>2. CASE \E p \in Procs, ik \in IndexKeys : FlushIndex(p, ik) \/ FlushFull(p, ik)
    BY <1>8, <2>2
  <2> QED
    BY WhoWritesTocs, <1>1, <2>1, <2>2
<1> QED
    BY <1>9 DEF Goal

-----------------------------------------------------------------------------
(* The reader holds on to what is there. *)

(* What a record leads to stays there. *)
LEMMA StaysWritten ==
    ASSUME Inv, [Next]_vars
    PROVE  /\ \A r : Leads(r) => Leads(r)'
           /\ indexes_ \in Seq(FoundEntries) /\ indexes_' = indexes_ /\ FoundWritten => FoundWritten'
<1>1. /\ \A x \in IndexFiles : 1..Len(sections[x]) \subseteq 1..Len(sections'[x])
      /\ \A t \in TocFiles : tocs[t] # << >> => tocs'[t] # << >>
    BY FilesGrow
<1>2. \A r : Leads(r) => Leads(r)'
    BY <1>1 DEF Leads, TocFiles
<1>3. ASSUME indexes_ \in Seq(FoundEntries), indexes_' = indexes_, FoundWritten PROVE FoundWritten'
  <2>1. \A i \in 1..Len(indexes_) : indexes_[i] \in FoundEntries
    BY <1>3
  <2>2. \A i \in 1..Len(indexes_) : indexes_[i].path \in IndexFiles
    BY <2>1 DEF FoundEntries
  <2> QED
    BY <1>1, <1>3, <2>2 DEF FoundWritten
<1> QED
    BY <1>2, <1>3

(* Steps of the writers keep what the reader has. *)
LEMMA WritersKeepReader ==
    ASSUME Inv, [Next]_vars, ReaderInv, UNCHANGED rvars
    PROVE  ReaderInv'
<1>1. ReaderTypes /\ FoundWritten /\ \A i \in 1..Len(snapshot) : Leads(snapshot[i])
    BY DEF ReaderInv
<1>2. UNCHANGED <<cacheTocs, rpc, snapshot, position, indexes_>>
    BY DEF rvars
<1>3. ReaderTypes'
    BY <1>1, <1>2 DEF ReaderTypes
<1>4. FoundWritten'
    BY <1>1, <1>2, StaysWritten DEF ReaderTypes
<1>5. ASSUME NEW i \in 1..Len(snapshot)' PROVE Leads(snapshot[i])'
  <2>1. PICK r : r = snapshot[i] /\ Leads(r)
    BY <1>1, <1>2
  <2>2. Leads(r)' /\ r = snapshot[i]'
    BY <1>2, <2>1, StaysWritten
  <2> QED
    BY <2>2 DEF Leads
<1> QED
    BY <1>3, <1>4, <1>5 DEF ReaderInv

(* What is in two sequences of entries is in their concatenation, and nothing else. *)
LEMMA ConcatWritten ==
    ASSUME NEW s \in Seq(FoundEntries), NEW t \in Seq(FoundEntries),
           \A i \in 1..Len(s) : s[i].offset \in 1..Len(sections[s[i].path]),
           \A i \in 1..Len(t) : t[i].offset \in 1..Len(sections[t[i].path])
    PROVE  /\ s \o t \in Seq(FoundEntries)
           /\ \A i \in 1..Len(s \o t) : (s \o t)[i].offset \in 1..Len(sections[(s \o t)[i].path])
<1>1. /\ s \o t \in Seq(FoundEntries)
      /\ \A i \in 1..Len(s) : (s \o t)[i] = s[i]
      /\ \A i \in 1..Len(s \o t) : i \notin 1..Len(s) =>
             i - Len(s) \in 1..Len(t) /\ (s \o t)[i] = t[i - Len(s)]
    BY ConcatElements
<1>2. ASSUME NEW i \in 1..Len(s \o t)
      PROVE  (s \o t)[i].offset \in 1..Len(sections[(s \o t)[i].path])
  <2>1. CASE i \in 1..Len(s)
    BY <1>1, <2>1
  <2>2. CASE i \notin 1..Len(s)
    <3>1. PICK j \in 1..Len(t) : (s \o t)[i] = t[j]
        BY <1>1, <2>2
    <3> QED
        BY <3>1
  <2> QED
    BY <2>1, <2>2
<1> QED
    BY <1>1, <1>2

(* One record read: it leads to an index, to those of a sub-toc, or to nothing. *)
LEMMA ReadKeepsReader ==
    ASSUME Inv, TocsWellFormed, ReaderInv, ReadNext
    PROVE  ReaderInv'
<1>0. ReaderTypes /\ FoundWritten /\ TypeOK
    BY DEF ReaderInv, Inv
<1>1. PICK r : r = Records[position]
    OBVIOUS
<1>2. /\ Leads(r) /\ r \in TocRecords
      /\ position \in 1..Len(Records)
  <2>1. /\ Records \in Seq(TocRecords)
        /\ \A i \in 1..Len(Records) : Leads(Records[i])
    BY <1>0, MasterLeads DEF Records, ReaderInv, ReaderTypes
  <2>2. position \in 1..Len(Records)
    <3>1. position <= Len(Records) /\ position \in Nat /\ position # 0 /\ Len(Records) \in Nat
        BY <1>0, <2>1 DEF ReadNext, ReaderTypes
    <3> QED
        BY <3>1
  <2> QED
    BY <1>1, <2>1, <2>2
<1>3. \/ indexes_' = indexes_ \o << >>
      \/ r.tag = "TOC_INDEX" /\ indexes_' = indexes_ \o <<[path |-> r.path, offset |-> r.offset, toc |-> Master]>>
      \/ r.tag = "TOC_SUB_TOC" /\ indexes_' = indexes_ \o readAll(tocs, r.path, 0)
    BY <1>1 DEF ReadNext
<1>4. UNCHANGED <<vars, cacheTocs, rpc, snapshot>> /\ position' = position + 1
    BY DEF ReadNext
<1>5. UNCHANGED <<tocs, sections>>
    BY <1>4 DEF vars, files
<1>6. \E found \in Seq(FoundEntries) :
          /\ indexes_' = indexes_ \o found
          /\ \A i \in 1..Len(found) : found[i].offset \in 1..Len(sections[found[i].path])
  <2>1. CASE indexes_' = indexes_ \o << >>
    <3>1. << >> \in Seq(FoundEntries) /\ \A i \in 1..Len(<< >>) : FALSE
        OBVIOUS
    <3> QED
        BY <2>1, <3>1
  <2>2. ASSUME r.tag = "TOC_INDEX",
               indexes_' = indexes_ \o <<[path |-> r.path, offset |-> r.offset, toc |-> Master]>>
        PROVE  \E found \in Seq(FoundEntries) :
                  /\ indexes_' = indexes_ \o found
                  /\ \A i \in 1..Len(found) : found[i].offset \in 1..Len(sections[found[i].path])
    <3>1. PICK x \in FoundEntries : /\ x = [path |-> r.path, offset |-> r.offset, toc |-> Master]
                                    /\ x.offset \in 1..Len(sections[x.path])
        BY <1>2, <2>2, RecordKinds DEF FoundEntries, Leads, TocFiles
    <3>2. <<x>> \in Seq(FoundEntries) /\ Len(<<x>>) = 1 /\ <<x>>[1] = x /\ \A j \in 1..1 : j = 1
        OBVIOUS
    <3>3. \A i \in 1..Len(<<x>>) : <<x>>[i] = x
        BY <3>2
    <3> QED
        BY <2>2, <3>1, <3>2, <3>3
  <2>3. ASSUME r.tag = "TOC_SUB_TOC", indexes_' = indexes_ \o readAll(tocs, r.path, 0)
        PROVE  \E found \in Seq(FoundEntries) :
                  /\ indexes_' = indexes_ \o found
                  /\ \A i \in 1..Len(found) : found[i].offset \in 1..Len(sections[found[i].path])
    <3>1. r.path \in TocFiles
        BY <1>2, <2>3 DEF Leads, TocFiles
    <3>2. readAll(tocs, r.path, 0) = SubWalk(r.path)
        BY <1>0, <3>1, ReadAllOfSub
    <3> QED
        BY <2>3, <3>1, <3>2, SubWalkWritten
  <2> QED
    BY <1>3, <2>1, <2>2, <2>3
<1>7. indexes_' \in Seq(FoundEntries)
      /\ \A i \in 1..Len(indexes_') : indexes_'[i].offset \in 1..Len(sections[indexes_'[i].path])
    BY <1>0, <1>6, ConcatWritten DEF ReaderTypes, FoundWritten
<1>8. FoundWritten'
    BY <1>5, <1>7 DEF FoundWritten
<1>9. ReaderTypes'
    BY <1>0, <1>4, <1>7 DEF ReaderTypes
<1>10. (\A i \in 1..Len(snapshot) : Leads(snapshot[i]))'
    BY <1>4, <1>5 DEF ReaderInv, Leads
<1> QED
    BY <1>8, <1>9, <1>10 DEF ReaderInv

(* Reversed, it is the same entries. *)
LEMMA LoadedKeepsReader ==
    ASSUME ReaderInv, IndexesLoaded
    PROVE  ReaderInv'
<1>1. ReaderTypes /\ FoundWritten
    BY DEF ReaderInv
<1>2. UNCHANGED <<vars, cacheTocs, snapshot, position>> /\ rpc' = "open" /\ indexes_' = Reverse(indexes_)
    BY DEF IndexesLoaded
<1>3. UNCHANGED <<tocs, sections>>
    BY <1>2 DEF vars, files
<1>4. PICK s \in Seq(FoundEntries) : s = indexes_
    BY <1>1 DEF ReaderTypes
<1>5. Reverse(s) \in Seq(FoundEntries)
      /\ \A i \in 1..Len(Reverse(s)) : \E j \in 1..Len(s) : Reverse(s)[i] = s[j]
  <2>1. PICK n \in Nat : n = Len(s)
    OBVIOUS
  <2>2. \A i \in 1..n : (n - i) + 1 \in 1..n
    OBVIOUS
  <2>3. Reverse(s) = [i \in 1..n |-> s[(n - i) + 1]]
    BY <2>1 DEF Reverse
  <2>4. Reverse(s) \in Seq(FoundEntries) /\ Len(Reverse(s)) = n
    BY <2>1, <2>2, <2>3
  <2> QED
    BY <2>1, <2>2, <2>3, <2>4
<1>6. FoundWritten'
    BY <1>1, <1>2, <1>3, <1>4, <1>5 DEF FoundWritten
<1>7. ReaderTypes'
    BY <1>1, <1>2, <1>4, <1>5 DEF ReaderTypes
<1>8. (\A i \in 1..Len(snapshot) : Leads(snapshot[i]))'
    BY <1>2, <1>3 DEF ReaderInv, Leads
<1> QED
    BY <1>6, <1>7, <1>8 DEF ReaderInv

(* What is copied when the reader opens the toc is there. *)
LEMMA OpenKeepsReader ==
    ASSUME Inv, TocsWellFormed, ReaderInv, OpenForRead
    PROVE  ReaderInv'
<1>1. ReaderTypes /\ FoundWritten
    BY DEF ReaderInv
<1>2. /\ UNCHANGED <<vars, cacheTocs, position, indexes_>> /\ rpc' = "walking"
      /\ snapshot' = IF cacheTocs THEN tocs[Master] ELSE << >>
    BY DEF OpenForRead
<1>3. UNCHANGED <<tocs, sections>>
    BY <1>2 DEF vars, files
<1>4. snapshot' \in Seq(TocRecords) /\ \A i \in 1..Len(snapshot') : Leads(snapshot'[i])
    BY <1>2, MasterLeads
<1>5. (\A i \in 1..Len(snapshot) : Leads(snapshot[i]))'
    BY <1>3, <1>4 DEF Leads
<1>6. ReaderTypes' /\ FoundWritten'
    BY <1>1, <1>2, <1>3, <1>4 DEF ReaderTypes, FoundWritten
<1> QED
    BY <1>5, <1>6 DEF ReaderInv

(***************************************************************************)
(* A reader never follows a record to nothing (TocHandler::readNext,       *)
(* TocCatalogueReader::loadIndexesAndRemapKeys): the sub-toc it opens has  *)
(* its INIT record, the indexes it holds have their sections, and every    *)
(* location in them can be read in full, whatever the writers do after.    *)
(***************************************************************************)
THEOREM ReaderNeverDanglesEver == RSpec => []ReaderNeverDangles
<1> DEFINE J == Inv /\ TocShape /\ ReaderInv
<1>1. RInit => J
  <2> SUFFICES ASSUME RInit PROVE J
    OBVIOUS
  <2>1. Inv
    BY InitInv DEF RInit
  <2>2. TocShape
    BY DEF RInit, Init, TocShape, TocsWellFormed, InitProgress, SubTocProgress, TocFiles
  <2>3. ReaderInv
    BY DEF RInit, ReaderInv, ReaderTypes, FoundWritten
  <2> QED
    BY <2>1, <2>2, <2>3
<1>2. J /\ [RNext]_<<vars, rvars>> => J'
  <2> SUFFICES ASSUME J, [RNext]_<<vars, rvars>> PROVE J'
    OBVIOUS
  <2>1. [Next]_vars
    BY DEF RNext, OpenForRead, ReadNext, IndexesLoaded
  <2>2. Inv' /\ TocShape'
    BY <2>1, NextShape, NextTypeOK, NextSections, NextTrees, NextBuffers, NextOffsets, NextRecords
       DEF Inv, WriteOrder
  <2>3. TocsWellFormed
    BY DEF TocShape
  <2>4. ReaderInv'
    BY <2>1, <2>3, OpenKeepsReader, ReadKeepsReader, LoadedKeepsReader, WritersKeepReader DEF RNext
  <2> QED
    BY <2>2, <2>4
<1>3. J => ReaderNeverDangles
  <2> SUFFICES ASSUME J PROVE ReaderNeverDangles
    OBVIOUS
  <2>1. ReaderTypes /\ FoundWritten /\ SectionsDurable /\ TocsWellFormed
    BY DEF ReaderInv, Inv, WriteOrder, TocShape
  <2>2. \A i \in 1..Len(Records) : Leads(Records[i])
    BY MasterLeads, <2>1 DEF Records, ReaderInv
  <2>3. rpc = "walking" /\ position <= Len(Records) =>
            (Records[position].tag = "TOC_SUB_TOC" => tocs[Records[position].path] # << >>)
    <3>1. Len(Records) \in Nat /\ position \in Nat /\ position # 0
        BY MasterLeads, <2>1 DEF Records, ReaderTypes
    <3>2. position <= Len(Records) => position \in 1..Len(Records)
        BY <3>1
    <3> QED
        BY <2>2, <3>2 DEF Leads
  <2>4. ASSUME NEW i \in DOMAIN indexes_
        PROVE  /\ indexes_[i].offset \in DOMAIN sections[indexes_[i].path]
               /\ \A fk \in FieldKeys :
                     LET loc == sections[indexes_[i].path][indexes_[i].offset][fk] IN
                     loc # NoField => Durable(loc, indexes_[i].path[2], fk)
    <3>1. i \in 1..Len(indexes_) /\ indexes_[i] \in FoundEntries
        BY <2>1, <2>4 DEF ReaderTypes
    <3>2. PICK x \in IndexFiles : x = indexes_[i].path /\ indexes_[i].offset \in 1..Len(sections[x])
        BY <2>1, <3>1 DEF FoundWritten, FoundEntries
    <3>3. DOMAIN sections[x] = 1..Len(sections[x])
        BY DEF Inv, TypeOK
    <3> QED
        BY <2>1, <3>2, <3>3 DEF SectionsDurable
  <2> QED
    BY <2>3, <2>4 DEF ReaderNeverDangles
<1> QED
    BY <1>1, <1>2, <1>3, PTL DEF RSpec

-----------------------------------------------------------------------------
(* Facts about the last element in a set. *)
LEMMA HasLast ==
    ASSUME NEW S, NEW s \in Seq(S), NEW H, ~NoneIn(s, H)
    PROVE  \E e \in S : LastIn(s, H, e)
<1> DEFINE T == {i \in 1..Len(s) : s[i] \in H}
<1>1. T \in SUBSET (0..Len(s)) /\ T # {} /\ Len(s) \in Nat
    BY DEF NoneIn
<1>2. PICK m \in T : \A k \in T : k <= m
    BY <1>1, GreatestNat
<1>3. m \in 1..Len(s) /\ s[m] \in S /\ s[m] \in H
    OBVIOUS
<1>4. \A j \in 1..Len(s) : m < j => s[j] \notin H
    BY <1>2, <1>3
<1> QED
    BY <1>3, <1>4 DEF LastIn

(* There is only one. *)
LEMMA OneLast ==
    ASSUME NEW S, NEW s \in Seq(S), NEW H, NEW e, NEW f, LastIn(s, H, e), LastIn(s, H, f)
    PROVE  e = f
<1>1. PICK i \in 1..Len(s) : s[i] = e /\ e \in H /\ \A j \in 1..Len(s) : i < j => s[j] \notin H
    BY DEF LastIn
<1>2. PICK k \in 1..Len(s) : s[k] = f /\ f \in H /\ \A j \in 1..Len(s) : k < j => s[j] \notin H
    BY DEF LastIn
<1>3. ~(i < k) /\ ~(k < i)
    BY <1>1, <1>2
<1> QED
    BY <1>1, <1>2, <1>3

(* Reversing twice gives the sequence back. *)
LEMMA ReverseTwice ==
    ASSUME NEW S, NEW s \in Seq(S)
    PROVE  /\ Reverse(s) \in Seq(S) /\ Reverse(Reverse(s)) = s
           /\ \A i \in 1..Len(Reverse(s)) : \E j \in 1..Len(s) : Reverse(s)[i] = s[j]
<1>1. PICK n \in Nat : n = Len(s)
    OBVIOUS
<1>2. \A i \in 1..n : (n - i) + 1 \in 1..n /\ (n - ((n - i) + 1)) + 1 = i
    OBVIOUS
<1>3. PICK t : t = Reverse(s)
    OBVIOUS
<1>4. t = [i \in 1..n |-> s[(n - i) + 1]]
    BY <1>1, <1>3 DEF Reverse
<1>5. t \in Seq(S) /\ Len(t) = n
    BY <1>1, <1>2, <1>4
<1>6. Reverse(t) = [i \in 1..n |-> t[(n - i) + 1]]
    BY <1>5 DEF Reverse
<1>7. \A i \in 1..n : t[(n - i) + 1] = s[i]
    BY <1>2, <1>4
<1>8. Reverse(t) = [i \in 1..n |-> s[i]]
    BY <1>6, <1>7
<1>9. \A i \in 1..Len(t) : \E j \in 1..Len(s) : t[i] = s[j]
    BY <1>1, <1>2, <1>4, <1>5
<1> QED
    BY <1>1, <1>3, <1>5, <1>8, <1>9

-----------------------------------------------------------------------------
(* An index section whose place in the tocs makes it final. *)
Placed(x, n) ==
    /\ x[3] = "part" => Recorded(x, n)
    /\ x[3] = "full" => n = 1 /\ pc[x[1]] = "closed" /\ subToc[x[1]] /\ x \in toPublish[x[1]]

(* It leads to the field v or to a later one of the same process. *)
Covering(x, n, v) == x[1] = v.proc /\ x[2] = v.ik /\ Covers(sections[x][n], v)

(* A record of the master toc that will lead the reader to v: an index, or a sub-toc it does not skip. *)
Promising(r, v, m) ==
    \/ r.tag = "TOC_SUB_TOC" /\ r.path = v.proc /\ v.proc \in SubTocProcs /\ <<v.proc, 0>> \notin m
    \/ r.tag = "TOC_INDEX" /\ Covering(r.path, r.offset, v)

(* The walk so far, and that a retrieve from it finds v or a later field. *)
Walked == IF rpc = "open" THEN Reverse(indexes_) ELSE indexes_
Finds(w, v) ==
    \E e \in FoundEntries : /\ LastIn(w, Hits(v.ik, v.fk), e)
                            /\ e.path[1] = v.proc => Covering(e.path, e.offset, v)

Promises ==
    /\ promised \subseteq acked
    /\ \A m \in masks : m[2] = 0
    /\ \A i \in 1..Len(snapshot) : i \in 1..Len(tocs[Master]) /\ tocs[Master][i] = snapshot[i]
    /\ rpc = "closed" => indexes_ = << >> /\ position = 1 /\ promised = {}
WalkPlaced == \A i \in 1..Len(Walked) : Placed(Walked[i].path, Walked[i].offset)
PromisesKept ==
    \A v \in promised :
        /\ rpc = "walking" => \E i \in 1..Len(Records) : Promising(Records[i], v, masks)
        /\ \/ rpc = "walking" /\ \E i \in 1..Len(Records) : position <= i /\ Promising(Records[i], v, masks)
           \/ Finds(Walked, v)
SeesInv == Promises /\ WalkPlaced /\ PromisesKept

(* A section that has its place stays as it is. *)
LEMMA PlacedStays ==
    ASSUME Inv, TocShape, FlushInv, [Next]_vars, ~IOErrors,
           NEW x \in IndexFiles, NEW n \in 1..Len(sections[x]), Placed(x, n)
    PROVE  /\ n \in 1..Len(sections'[x]) /\ sections'[x][n] = sections[x][n]
           /\ Placed(x, n)'
<1>0. TypeOK
    BY DEF Inv
<1>1. x[1] \in Procs /\ x[2] \in IndexKeys
    BY IndexFileNames
<1>2. CASE x[3] = "part"
  <2>1. x = Part(x[1], x[2]) /\ Recorded(Part(x[1], x[2]), n)
    BY <1>2, IndexFileNames DEF Placed
  <2>2. PICK p \in Procs, ik \in IndexKeys : p = x[1] /\ ik = x[2]
    BY <1>1
  <2>3. x = Part(p, ik) /\ Recorded(Part(p, ik), n)
    BY <2>1, <2>2
  <2>4. /\ n \in 1..Len(sections'[x]) /\ sections'[x][n] = sections[x][n] /\ Recorded(x, n)'
    BY <2>3, RecordedSectionStays
  <2> QED
    BY <1>2, <2>4 DEF Placed
<1>3. CASE x[3] = "full"
  <2>1. n = 1 /\ pc[x[1]] = "closed" /\ subToc[x[1]] /\ x \in toPublish[x[1]]
    BY <1>3 DEF Placed
  <2>2. pc'[x[1]] = "closed" /\ subToc'[x[1]] /\ x \in toPublish'[x[1]]
    BY <1>1, <2>1, NextForward DEF Forward
  <2>3. ASSUME NEW y \in IndexFiles, y # x, WriteTree(y) PROVE sections'[x] = sections[x]
    BY <1>0, <2>3 DEF WriteTree, TypeOK
  <2>4. ASSUME NEW q \in Procs, NEW k \in IndexKeys, FlushIndex(q, k)
        PROVE  sections'[x] = sections[x]
    <3>1. Part(q, k) \in IndexFiles /\ Part(q, k)[3] = "part" /\ WriteTree(Part(q, k))
        BY <2>4, Names, ZenonT(60) DEF FlushIndex
    <3>2. Part(q, k) # x
        BY <1>3, <3>1
    <3> QED
        BY <2>3, <3>1, <3>2
  <2>5. ASSUME NEW q \in Procs, NEW k \in IndexKeys, FlushFull(q, k)
        PROVE  sections'[x] = sections[x]
    <3>3. WriteTree(Full(q, k)) /\ pc[q] = "compact"
        BY <2>5 DEF FlushFull
    <3>1. Full(q, k) \in IndexFiles /\ Full(q, k)[1] = q /\ WriteTree(Full(q, k)) /\ pc[q] = "compact"
        BY <3>3, Names
    <3>2. Full(q, k) # x
        BY <2>1, <3>1
    <3> QED
        BY <2>3, <3>1, <3>2
  <2>6. ASSUME NEW q \in Procs, NEW k \in IndexKeys, NEW fk \in FieldKeys, Archive(q, k, fk)
        PROVE  sections' = sections
    BY <2>6 DEF Archive, files
  <2>7. ASSUME NEW q \in Procs, WriteIndex(q) \/ Crash(q) PROVE sections' = sections
    BY <2>7 DEF WriteIndex, Crash, files
  <2>8. sections'[x] = sections[x]
    BY <2>4, <2>5, <2>6, <2>7, WhoWritesIndexes
  <2> QED
    BY <1>3, <2>1, <2>2, <2>8 DEF Placed
<1> QED
    BY <1>2, <1>3, IndexFileNames

(* What such a section covers it goes on covering. *)
LEMMA CoveringStays ==
    ASSUME Inv, TocShape, FlushInv, [Next]_vars, ~IOErrors, NEW v \in Values,
           NEW x \in IndexFiles, NEW n \in 1..Len(sections[x]), Placed(x, n), Covering(x, n, v)
    PROVE  Covering(x, n, v)'
<1>0. TypeOK /\ SectionsDurable
    BY DEF Inv, WriteOrder
<1>1. PICK d \in DataFiles : d = <<v.proc, v.ik>>
    BY CoveredField
<1>2. x[1] = v.proc /\ x[2] = v.ik /\ DataOf(x) = d /\ v.fk \in FieldKeys
    BY <1>1, CoveredField DEF Covering, DataOf
<1>3. PICK k : k = sections[x][n][v.fk].pos
    OBVIOUS
<1>4. sections[x][n][v.fk] # NoField /\ Written(d)[k].n >= v.n
    BY <1>1, <1>3 DEF Covering, Covers
<1>5. k \in 1..Len(data[d]) /\ k \in 1..Len(Written(d))
  <2>1. k \in 1..Len(data[d])
    BY <1>0, <1>2, <1>3, <1>4 DEF SectionsDurable, Durable
  <2> QED
    BY <1>0, <2>1, DurableIsWritten, SMTT(30)
<1>6. Written(d)'[k] = Written(d)[k]
    BY <1>5, NextWritten DEF WrittenStep
<1>7. Written(<<v.proc, v.ik>>)' = Written(d)'
    BY <1>1 DEF Written
<1>8. sections'[x][n] = sections[x][n]
    BY PlacedStays
<1> QED
    BY <1>2, <1>3, <1>4, <1>6, <1>7, <1>8 DEF Covering, Covers

(* A retrieve from what was found goes on finding the field. *)
LEMMA FindsStays ==
    ASSUME Inv, TocShape, FlushInv, [Next]_vars, ~IOErrors, NEW v \in Values,
           NEW w \in Seq(FoundEntries),
           \A i \in 1..Len(w) : w[i].offset \in 1..Len(sections[w[i].path]),
           \A i \in 1..Len(w) : Placed(w[i].path, w[i].offset)
    PROVE  /\ \A i \in 1..Len(w) : Placed(w[i].path, w[i].offset)'
           /\ Finds(w, v) => Finds(w, v)'
<1>0. TypeOK /\ TypeOK'
    BY NextTypeOK DEF Inv
<1>1. ASSUME NEW i \in 1..Len(w)
      PROVE  /\ Placed(w[i].path, w[i].offset)'
             /\ w[i] \in Hits(v.ik, v.fk) <=> w[i] \in Hits(v.ik, v.fk)'
             /\ Covering(w[i].path, w[i].offset, v) => Covering(w[i].path, w[i].offset, v)'
  <2>1. PICK e \in FoundEntries : e = w[i]
    OBVIOUS
  <2>2. PICK x \in IndexFiles, n \in Nat : x = e.path /\ n = e.offset
    BY DEF FoundEntries
  <2>3. n \in 1..Len(sections[x]) /\ Placed(x, n)
    BY <2>1, <2>2
  <2>4. n \in 1..Len(sections'[x]) /\ sections'[x][n] = sections[x][n] /\ Placed(x, n)'
    BY <2>3, PlacedStays
  <2>5. DOMAIN sections[x] = 1..Len(sections[x]) /\ DOMAIN sections'[x] = 1..Len(sections'[x])
    BY <1>0 DEF TypeOK
  <2>6. Has(e, v.fk) <=> Has(e, v.fk)'
    BY <2>2, <2>3, <2>4, <2>5 DEF Has
  <2>7. e \in Hits(v.ik, v.fk) <=> e \in Hits(v.ik, v.fk)'
    BY <2>6 DEF Hits
  <2>8. Covering(x, n, v) => Covering(x, n, v)'
    BY <2>3, CoveringStays
  <2> QED
    BY <2>1, <2>2, <2>4, <2>7, <2>8
<1>2. ASSUME Finds(w, v) PROVE Finds(w, v)'
  <2>1. PICK e \in FoundEntries :
            /\ LastIn(w, Hits(v.ik, v.fk), e)
            /\ e.path[1] = v.proc => Covering(e.path, e.offset, v)
    BY <1>2 DEF Finds
  <2>5. LastIn(w, Hits(v.ik, v.fk), e)
    BY <2>1
  <2>2. PICK i \in 1..Len(w) :
            /\ w[i] = e /\ e \in Hits(v.ik, v.fk)
            /\ \A j \in 1..Len(w) : i < j => w[j] \notin Hits(v.ik, v.fk)
    BY ONLY <2>5 DEF LastIn
  <2>3. LastIn(w, Hits(v.ik, v.fk)', e)
    BY <1>1, <2>2 DEF LastIn
  <2>4. e.path[1] = v.proc => Covering(e.path, e.offset, v)'
    <3>1. PICK x, n : x = e.path /\ n = e.offset
        OBVIOUS
    <3>2. x = w[i].path /\ n = w[i].offset
        BY <2>2, <3>1
    <3>3. Covering(x, n, v) => Covering(x, n, v)'
        BY <1>1, <3>2
    <3> QED
        BY <2>1, <3>1, <3>3
  <2> QED
    BY <2>3, <2>4 DEF Finds
<1> QED
    BY <1>1, <1>2

(* A later section of the same index leads to the field or to a later one too. *)
LEMMA LaterCovers ==
    ASSUME TypeOK, SectionsDurable, ValuesOrdered, TreesOrdered, NEW v \in Values,
           NEW x \in IndexFiles, NEW s \in 1..Len(sections[x]), NEW n \in 1..Len(sections[x]), s <= n,
           Covering(x, s, v), sections[x][n][v.fk] # NoField
    PROVE  Covering(x, n, v)
<1>1. PICK d \in DataFiles : d = <<v.proc, v.ik>>
    BY CoveredField
<1>2. x[1] = v.proc /\ x[2] = v.ik /\ DataOf(x) = d /\ v.fk \in FieldKeys
    BY <1>1, CoveredField DEF Covering, DataOf
<1>3. PICK old : old = sections[x][s][v.fk]
    OBVIOUS
<1>4. PICK new : new = sections[x][n][v.fk]
    OBVIOUS
<1>5. old # NoField /\ new # NoField /\ Written(d)[old.pos].n >= v.n
    BY <1>1, <1>3, <1>4, SMTT(30) DEF Covering, Covers
<1>6. old.pos \in 1..Len(data[d]) /\ new.pos \in 1..Len(data[d])
    BY <1>2, <1>3, <1>4, <1>5 DEF SectionsDurable, Durable
<1>7. /\ old.pos \in 1..Len(Written(d)) /\ new.pos \in 1..Len(Written(d))
      /\ Written(d)[old.pos] \in Values /\ Written(d)[new.pos] \in Values
    BY <1>6, DurableIsWritten
<1>8. old.pos <= new.pos
  <2>1. s < n => old.pos <= new.pos
    BY <1>2, <1>3, <1>4, <1>5 DEF TreesOrdered
  <2>2. s = n => old.pos = new.pos
    BY <1>3, <1>4
  <2>3. s < n \/ s = n
    <3>1. s \in Nat /\ n \in Nat
        BY DEF TypeOK
    <3> QED
        BY <3>1
  <2> QED
    BY <1>6, <2>1, <2>2, <2>3
<1>9. Written(d)[old.pos].n <= Written(d)[new.pos].n
  <2>1. old.pos < new.pos \/ old.pos = new.pos
    BY <1>6, <1>8
  <2>2. old.pos < new.pos => Written(d)[old.pos].n < Written(d)[new.pos].n
    BY <1>7 DEF ValuesOrdered
  <2>3. \A u \in Values : u.n \in Nat
    BY DEF Values
  <2> QED
    BY <1>7, <2>1, <2>2, <2>3
<1>10. Written(d)[new.pos].n >= v.n
  <2>1. \A u \in Values : u.n \in Nat
    BY DEF Values
  <2> QED
    BY <1>5, <1>7, <1>9, <2>1
<1> QED
    BY <1>1, <1>2, <1>4, <1>5, <1>10 DEF Covering, Covers

(* The full index of a closed process leads to everything the process has flushed. *)
LEMMA FullCovers ==
    ASSUME FlushInv, NEW v \in Values, v \in acked, NEW x \in IndexFiles,
           x[1] = v.proc, x[2] = v.ik, x[3] = "full", Placed(x, 1)
    PROVE  Covering(x, 1, v)
<1>0. SubTocLinked /\ FullProgress /\ Accounted
    BY DEF FlushInv
<1>1. x = Full(v.proc, v.ik) /\ v.proc \in Procs /\ v.ik \in IndexKeys
    BY CoveredField, IndexFileNames
<1>2. pc[v.proc] = "closed" /\ subToc[v.proc] /\ x \in toPublish[v.proc]
    BY DEF Placed
<1>3. sections[x][1] = btree[x]
    BY <1>0, <1>1, <1>2 DEF FullProgress, FullOf
<1>4. v.proc \in SubTocProcs
    BY <1>0, <1>1, <1>2 DEF SubTocLinked
<1>5. Covers(btree[x], v)
    BY <1>0, <1>1, <1>2, <1>4 DEF Accounted
<1> QED
    BY <1>3, <1>5 DEF Covering

(* An index with a record has its place. *)
LEMMA RecordedPlaced ==
    ASSUME TypeOK, RecordsPlaced, NEW t \in TocFiles, NEW i \in 1..Len(tocs[t]), tocs[t][i].tag = "TOC_INDEX"
    PROVE  Placed(tocs[t][i].path, tocs[t][i].offset)
<1>1. PICK r \in TocRecords : r = tocs[t][i]
    BY DEF TypeOK
<1>2. r.path \in IndexFiles /\ r = IndexRecord(r.path, r.offset)
    BY <1>1, RecordKinds
<1>3. IndexRecordPlaced(t, i)
    BY DEF RecordsPlaced
<1>4. r.path[3] = "part" => Recorded(r.path, r.offset)
    BY <1>1, <1>2, <1>3 DEF IndexRecordPlaced, Recorded
<1> QED
    BY <1>1, <1>3, <1>4 DEF IndexRecordPlaced, Placed

-----------------------------------------------------------------------------
(* What one record of the master toc leads to. *)

(* What readNext finds for the record r. *)
ReadOf(r) ==
    IF r.tag \notin {"TOC_INDEX", "TOC_SUB_TOC"} THEN << >>
    ELSE IF <<r.path, r.offset>> \in masks THEN << >>
    ELSE IF r.tag = "TOC_INDEX" THEN <<Entry(r.path, r.offset, Master)>>
    ELSE readAll(tocs, r.path, 0)

(* The masks of the reader are of sub-tocs, so no index is masked. *)
LEMMA RecordFindings ==
    ASSUME TypeOK, RecordsWritten, \A m \in masks : m[2] = 0,
           NEW k \in 1..Len(tocs[Master]), NEW r, r = tocs[Master][k]
    PROVE  /\ r \in TocRecords
           /\ r.tag = "TOC_INDEX" => ReadOf(r) = <<Entry(r.path, r.offset, Master)>>
           /\ r.tag = "TOC_SUB_TOC" =>
                 /\ r.path \in Procs /\ r.path # Master
                 /\ ReadOf(r) = IF <<r.path, 0>> \in masks THEN << >> ELSE SubWalk(r.path)
           /\ r.tag \notin {"TOC_INDEX", "TOC_SUB_TOC"} => ReadOf(r) = << >>
<1>1. Master \in TocFiles /\ Procs \subseteq TocFiles /\ Master \notin Procs
    BY ProcAssumption DEF TocFiles
<1>2. r \in TocRecords
    BY <1>1 DEF TypeOK
<1>3. CASE r.tag = "TOC_INDEX"
  <2>1. r.offset # 0
    <3>1. \A n : 0 \notin 1..n
        OBVIOUS
    <3> QED
        BY <1>1, <1>3, <3>1 DEF RecordsWritten
  <2>2. <<r.path, r.offset>> \notin masks
    <3>1. <<r.path, r.offset>>[2] = r.offset
        OBVIOUS
    <3> QED
        BY <2>1, <3>1
  <2> QED
    BY <1>2, <1>3, <2>2 DEF ReadOf
<1>4. CASE r.tag = "TOC_SUB_TOC"
  <2>1. r.path \in Procs /\ r.offset = 0
    BY <1>2, <1>4, RecordKinds
  <2>2. readAll(tocs, r.path, 0) = SubWalk(r.path)
    BY <1>1, <2>1, ReadAllOfSub
  <2> QED
    BY <1>1, <1>2, <1>4, <2>1, <2>2 DEF ReadOf
<1>5. r.tag \notin {"TOC_INDEX", "TOC_SUB_TOC"} => ReadOf(r) = << >>
    BY DEF ReadOf
<1> QED
    BY <1>2, <1>3, <1>4, <1>5

(* Every index that the walk of a sub-toc finds has its place. *)
LEMMA SubWalkPlaced ==
    ASSUME TypeOK, RecordsWritten, RecordsPlaced, NEW t \in TocFiles
    PROVE  \A i \in 1..Len(SubWalk(t)) : Placed(SubWalk(t)[i].path, SubWalk(t)[i].offset)
<1> DEFINE H == {e \in FoundEntries : ~Placed(e.path, e.offset)}
<1>1. SubWalk(t) \in Seq(FoundEntries)
    BY WalkTypes
<1>2. ASSUME NEW e, LastIn(SubWalk(t), H, e) PROVE FALSE
  <2>1. e \in H /\ \E i \in 1..Len(tocs[t]) : tocs[t][i] = IndexRecord(e.path, e.offset)
    <3> HIDE DEF H
    <3> QED
        BY <1>2, SubWalkOrigin
  <2>2. PICK i \in 1..Len(tocs[t]) : tocs[t][i] = IndexRecord(e.path, e.offset)
    BY <2>1
  <2>3. tocs[t][i].tag = "TOC_INDEX" /\ tocs[t][i].path = e.path /\ tocs[t][i].offset = e.offset
    BY <2>2, RecordsDiffer
  <2> QED
    BY <2>1, <2>3, RecordedPlaced
<1>3. NoneIn(SubWalk(t), H)
  <2> HIDE DEF H
  <2> QED
    BY <1>1, <1>2, HasLast
<1> QED
    BY <1>1, <1>3 DEF NoneIn

(* What is found for a record are indexes that have their places. *)
LEMMA FindingsPlaced ==
    ASSUME TypeOK, RecordsWritten, RecordsPlaced, \A m \in masks : m[2] = 0,
           NEW k \in 1..Len(tocs[Master]), NEW r, r = tocs[Master][k]
    PROVE  /\ ReadOf(r) \in Seq(FoundEntries)
           /\ \A i \in 1..Len(ReadOf(r)) : Placed(ReadOf(r)[i].path, ReadOf(r)[i].offset)
<1>1. Master \in TocFiles /\ Procs \subseteq TocFiles
    BY DEF TocFiles
<1>2. CASE ReadOf(r) = << >>
    BY <1>2
<1>3. CASE r.tag = "TOC_INDEX"
  <2>1. PICK e : e = Entry(r.path, r.offset, Master)
    OBVIOUS
  <2>2. e \in FoundEntries /\ ReadOf(r) = <<e>>
    BY <1>1, <1>3, <2>1, RecordFindings, RecordKinds DEF FoundEntries, Entry
  <2>3. Placed(e.path, e.offset)
    BY <1>1, <1>3, <2>1, RecordedPlaced DEF Entry
  <2>4. <<e>> \in Seq(FoundEntries) /\ Len(<<e>>) = 1 /\ <<e>>[1] = e /\ \A j \in 1..1 : j = 1
    BY <2>2
  <2> QED
    BY <2>2, <2>3, <2>4
<1>4. CASE r.tag = "TOC_SUB_TOC" /\ ReadOf(r) # << >>
  <2>1. PICK t \in TocFiles : ReadOf(r) = SubWalk(t)
    BY <1>1, <1>4, RecordFindings
  <2> QED
    BY <2>1, SubWalkPlaced, WalkTypes
<1> QED
    BY <1>2, <1>3, <1>4, RecordFindings

(* A record that promises a field leads to it. *)
LEMMA PromiseFound ==
    ASSUME Inv, FlushInv, \A m \in masks : m[2] = 0, NEW v \in Values, v \in acked,
           NEW k \in 1..Len(tocs[Master]), NEW r, r = tocs[Master][k], Promising(r, v, masks)
    PROVE  ~NoneIn(ReadOf(r), Hits(v.ik, v.fk))
<1>0. TypeOK /\ RecordsWritten /\ Accounted
    BY DEF Inv, WriteOrder, FlushInv
<1>1. Master \in TocFiles /\ Procs \subseteq TocFiles /\ v.proc \in Procs
    BY CoveredField DEF TocFiles
<1>2. ASSUME NEW t \in TocFiles, NEW x \in IndexFiles, NEW n \in 1..Len(sections[x]), Covering(x, n, v)
      PROVE  Entry(x, n, t) \in Hits(v.ik, v.fk) /\ n \in Nat
  <2>1. sections[x] \in Seq(Entries)
    BY <1>0 DEF TypeOK
  <2> QED
    BY <1>2, <2>1 DEF Hits, FoundEntries, Entry, Has, Covering, Covers
<1>3. CASE r.tag = "TOC_INDEX"
  <2>1. Covering(r.path, r.offset, v)
    BY <1>3 DEF Promising
  <2>2. r.path \in IndexFiles /\ r.offset \in 1..Len(sections[r.path])
    BY <1>0, <1>1, <1>3, RecordFindings, RecordKinds DEF RecordsWritten
  <2>3. Entry(r.path, r.offset, Master) \in Hits(v.ik, v.fk)
    BY <1>1, <1>2, <2>1, <2>2
  <2>4. ReadOf(r) = <<Entry(r.path, r.offset, Master)>>
    BY <1>0, <1>3, RecordFindings
  <2> QED
    BY <2>3, <2>4, LastOfOne
<1>4. CASE r.tag # "TOC_INDEX"
  <2>1. r.tag = "TOC_SUB_TOC" /\ r.path = v.proc /\ v.proc \in SubTocProcs /\ <<v.proc, 0>> \notin masks
    BY <1>4 DEF Promising
  <2>2. ReadOf(r) = SubWalk(v.proc)
    BY <1>0, <2>1, RecordFindings
  <2>3. PICK x \in IndexFiles : x = Part(v.proc, v.ik) /\ x[1] = v.proc /\ x[2] = v.ik
    BY CoveredField
  <2>4. PICK s \in 1..Len(sections[x]) : Recorded(x, s) /\ Covers(sections[x][s], v)
    BY <1>0, <2>3 DEF Accounted, Published
  <2>5. PICK i \in 1..Len(tocs[v.proc]) : tocs[v.proc][i] = IndexRecord(x, s)
    BY <2>1, <2>3, <2>4 DEF Recorded, HomeToc
  <2>6. /\ tocs[v.proc][i].tag = "TOC_INDEX" /\ tocs[v.proc][i].path = x /\ tocs[v.proc][i].offset = s
        /\ s # 0
    <3>1. \A n : 0 \notin 1..n
        OBVIOUS
    <3> QED
        BY <2>4, <2>5, <3>1, RecordsDiffer
  <2>7. EntriesOf(v.proc, tocs[v.proc][i], << >>) = <<Entry(x, s, v.proc)>>
    BY <1>0, <1>1, <2>6, IndexEntries
  <2>8. Entry(x, s, v.proc) \in Hits(v.ik, v.fk)
    BY <1>1, <1>2, <2>3, <2>4 DEF Covering
  <2>9. ~NoneIn(<<Entry(x, s, v.proc)>>, Hits(v.ik, v.fk))
    BY <2>8, LastOfOne
  <2> QED
    BY <1>0, <1>1, <2>2, <2>7, <2>9, SubWalkLast
<1> QED
    BY <1>3, <1>4

(***************************************************************************)
(* Once the walk has come to a record that promises v, an index of the     *)
(* process of v that it then finds last does not lead to an older field.   *)
(***************************************************************************)
LEMMA FindingCovers ==
    ASSUME Inv, FlushInv, \A m \in masks : m[2] = 0, NEW v \in Values, v \in acked,
           NEW k \in 1..Len(tocs[Master]), NEW r, r = tocs[Master][k],
           NEW i \in 1..Len(tocs[Master]), i <= k, Promising(tocs[Master][i], v, masks),
           NEW e \in FoundEntries, LastIn(ReadOf(r), Hits(v.ik, v.fk), e), e.path[1] = v.proc
    PROVE  Covering(e.path, e.offset, v)
<1>0. /\ TypeOK /\ SectionsDurable /\ RecordsWritten
      /\ ValuesOrdered /\ TreesOrdered /\ RecordsPlaced /\ SubTocLinked /\ Accounted
    BY DEF Inv, WriteOrder, FlushInv
<1>1. /\ Master \in TocFiles /\ Procs \subseteq TocFiles /\ Master \notin Procs
      /\ v.proc \in Procs /\ v.ik \in IndexKeys /\ v.fk \in FieldKeys
    BY CoveredField, ProcAssumption DEF TocFiles
<1>2. PICK y \in IndexFiles, n \in Nat : y = e.path /\ n = e.offset
    BY DEF FoundEntries
<1>3. /\ y[1] = v.proc /\ y[2] = v.ik /\ n \in 1..Len(sections[y]) /\ sections[y][n][v.fk] # NoField
      /\ Placed(y, n)
  <2>1. PICK j \in 1..Len(ReadOf(r)) : ReadOf(r)[j] = e /\ e \in Hits(v.ik, v.fk)
    BY DEF LastIn
  <2>2. Placed(y, n)
    BY <1>0, <1>2, <2>1, FindingsPlaced
  <2>3. DOMAIN sections[y] = 1..Len(sections[y])
    BY <1>0 DEF TypeOK
  <2> QED
    BY <1>2, <2>1, <2>2, <2>3 DEF Hits, Has
<1>4. CASE y[3] = "full"
  <2>1. n = 1
    BY <1>3, <1>4 DEF Placed
  <2> QED
    BY <1>2, <1>3, <1>4, <2>1, FullCovers
<1>5. ASSUME y[3] = "part", NEW s \in 1..Len(sections[y]), Covering(y, s, v), s <= n
      PROVE  Covering(y, n, v)
    BY <1>0, <1>3, <1>5, LaterCovers
<1>6. CASE y[3] = "part" /\ r.tag = "TOC_INDEX"
  <2>1. ReadOf(r) = <<Entry(r.path, r.offset, Master)>>
    BY <1>0, <1>6, RecordFindings
  <2>2. r.path = y /\ r.offset = n
    <3>1. PICK x : x = Entry(r.path, r.offset, Master)
        OBVIOUS
    <3>2. PICK H : H = Hits(v.ik, v.fk)
        OBVIOUS
    <3>3. LastIn(<<x>>, H, e)
        BY <2>1, <3>1, <3>2
    <3>4. e = x
        BY ONLY <3>3, LastOfOne
    <3> QED
        BY <1>2, <3>1, <3>4 DEF Entry
  <2>3. v.proc \notin SubTocProcs
    BY <1>0, <1>1, <1>3, <1>6, <2>2 DEF RecordsPlaced, IndexRecordPlaced, HomeToc
  <2>4. PICK q \in TocRecords : q = tocs[Master][i]
    BY <1>0, <1>1 DEF TypeOK
  <2>5. q.tag = "TOC_INDEX" /\ Covering(q.path, q.offset, v) /\ q.path \in IndexFiles
    BY <2>3, <2>4, RecordKinds DEF Promising
  <2>6. q.offset \in 1..Len(sections[q.path])
    BY <1>0, <1>1, <2>4, <2>5 DEF RecordsWritten
  <2>7. q.path = y
    <3>1. q.path[1] = v.proc /\ q.path[2] = v.ik
        BY <2>5 DEF Covering
    <3>2. q.path[3] = "full" => subToc[v.proc]
        BY <1>0, <1>1, <2>4, <2>5, <3>1 DEF RecordsPlaced, IndexRecordPlaced
    <3>3. q.path[3] = "part"
        BY <1>0, <1>1, <2>3, <2>5, <3>2, IndexFileNames DEF SubTocLinked
    <3>4. q.path = Part(v.proc, v.ik) /\ y = Part(v.proc, v.ik)
        BY <1>3, <1>6, <2>5, <3>1, <3>3, IndexFileNames
    <3> QED
        BY <3>4
  <2>8. q.offset <= n
    <3>1. i < k => q.offset < n
        BY <1>0, <1>1, <1>6, <2>2, <2>4, <2>5, <2>7 DEF RecordsPlaced, IndexRecordPlaced
    <3>2. i = k => q.offset = n
        BY <2>2, <2>4
    <3>3. i < k \/ i = k
        OBVIOUS
    <3>4. q.offset \in Nat
        BY <2>6
    <3> QED
        BY <3>1, <3>2, <3>3, <3>4
  <2> QED
    BY <1>2, <1>5, <1>6, <2>5, <2>6, <2>7, <2>8
<1>7. CASE y[3] = "part" /\ r.tag # "TOC_INDEX"
  <2>1. PICK t \in TocFiles : t # Master /\ t = r.path /\ ReadOf(r) = SubWalk(t)
    BY <1>0, <1>1, <1>7, LastOfNone, RecordFindings
  <2>2. PICK j \in 1..Len(tocs[t]) :
            /\ tocs[t][j] = IndexRecord(y, n)
            /\ \A u \in 1..Len(tocs[t]) : j < u /\ tocs[t][u].tag = "TOC_INDEX" =>
                  Entry(tocs[t][u].path, tocs[t][u].offset, t) \notin Hits(v.ik, v.fk)
    <3>1. PICK H : H = Hits(v.ik, v.fk)
        OBVIOUS
    <3>2. LastIn(SubWalk(t), H, e)
        BY <2>1, <3>1
    <3>3. \E j \in 1..Len(tocs[t]) :
            /\ tocs[t][j] = IndexRecord(e.path, e.offset)
            /\ \A u \in 1..Len(tocs[t]) : j < u /\ tocs[t][u].tag = "TOC_INDEX" =>
                  Entry(tocs[t][u].path, tocs[t][u].offset, t) \notin H
        BY ONLY <1>0, <3>2, t \in TocFiles, SubWalkOrigin
    <3> QED
        BY <1>2, <3>1, <3>3
  <2>3. tocs[t][j].tag = "TOC_INDEX" /\ tocs[t][j].path = y /\ tocs[t][j].offset = n
    BY <2>2, RecordsDiffer
  <2>4. t = v.proc /\ t \in SubTocProcs
    BY <1>0, <1>3, <1>7, <2>1, <2>3 DEF RecordsPlaced, IndexRecordPlaced, HomeToc
  <2>5. y = Part(v.proc, v.ik)
    BY <1>3, <1>7, IndexFileNames
  <2>6. PICK s \in 1..Len(sections[y]) : Recorded(y, s) /\ Covers(sections[y][s], v)
    BY <1>0, <2>5 DEF Accounted, Published
  <2>7. PICK u \in 1..Len(tocs[t]) : tocs[t][u] = IndexRecord(y, s)
    BY <1>3, <2>4, <2>6 DEF Recorded, HomeToc
  <2>8. tocs[t][u].tag = "TOC_INDEX" /\ tocs[t][u].path = y /\ tocs[t][u].offset = s
    BY <2>7, RecordsDiffer
  <2>9. Entry(y, s, t) \in Hits(v.ik, v.fk) /\ s \in Nat
    <3>1. sections[y] \in Seq(Entries)
        BY <1>0 DEF TypeOK
    <3> QED
        BY <1>3, <2>6, <3>1 DEF Hits, FoundEntries, Entry, Has, Covers
  <2>10. s <= n
    <3>1. ~(j < u)
        BY <2>2, <2>8, <2>9
    <3>2. u < j => s < n
        BY <1>0, <1>7, <2>3, <2>8 DEF RecordsPlaced, IndexRecordPlaced
    <3>3. u = j => s = n
        BY <2>3, <2>8
    <3>4. u < j \/ u = j
        BY <3>1
    <3> QED
        BY <2>9, <3>2, <3>3, <3>4
  <2> QED
    BY <1>2, <1>3, <1>5, <1>7, <2>6, <2>10 DEF Covering
<1> QED
    BY <1>3, <1>4, <1>6, <1>7, IndexFileNames

(* When the reader opens the toc, it has a record that promises each flushed field. *)
LEMMA TocPromises ==
    ASSUME Inv, FlushInv, NEW v \in acked
    PROVE  \E i \in 1..Len(tocs[Master]) : Promising(tocs[Master][i], v, maskedEntries(tocs[Master]))
<1>0. /\ TypeOK /\ RecordsPlaced /\ SubTocLinked /\ FullProgress /\ Accounted
    BY DEF Inv, FlushInv
<1>1. v \in Values /\ v.proc \in Procs /\ v.ik \in IndexKeys /\ v.fk \in FieldKeys /\ Master \in TocFiles
    BY <1>0, CoveredField DEF TypeOK, TocFiles
<1>2. PICK s \in 1..Len(sections[Part(v.proc, v.ik)]) :
          Recorded(Part(v.proc, v.ik), s) /\ Covers(sections[Part(v.proc, v.ik)][s], v)
    BY <1>0 DEF Accounted, Published
<1>3. CASE v.proc \notin SubTocProcs
  <2>1. PICK i \in 1..Len(tocs[Master]) : tocs[Master][i] = IndexRecord(Part(v.proc, v.ik), s)
    BY <1>1, <1>2, <1>3, CoveredField DEF Recorded, HomeToc
  <2>2. /\ tocs[Master][i].tag = "TOC_INDEX" /\ tocs[Master][i].path = Part(v.proc, v.ik)
        /\ tocs[Master][i].offset = s
    BY <2>1, RecordsDiffer
  <2>3. Covering(Part(v.proc, v.ik), s, v)
    BY <1>1, <1>2, CoveredField DEF Covering
  <2> QED
    BY <2>2, <2>3 DEF Promising
<1>4. CASE v.proc \in SubTocProcs /\ <<v.proc, 0>> \notin maskedEntries(tocs[Master])
  <2>1. Linked(v.proc)
    BY <1>0, <1>1, <1>2, <1>4 DEF SubTocLinked
  <2>2. PICK i \in 1..Len(tocs[Master]) : tocs[Master][i] = SubTocRecord(v.proc)
    BY <2>1 DEF Linked
  <2>3. tocs[Master][i].tag = "TOC_SUB_TOC" /\ tocs[Master][i].path = v.proc
    BY <2>2, RecordsDiffer
  <2> QED
    BY <1>4, <2>3 DEF Promising
<1>5. CASE v.proc \in SubTocProcs /\ <<v.proc, 0>> \in maskedEntries(tocs[Master])
  <2>1. pc[v.proc] = "closed" /\ subToc[v.proc]
    <3>1. PICK j \in 1..Len(tocs[Master]) :
              tocs[Master][j].tag = "TOC_CLEAR" /\ tocs[Master][j].path = v.proc
        BY <1>0, <1>1, <1>5, MasksAreOfSubTocs
    <3> QED
        BY <1>0, <1>1, <3>1 DEF RecordsPlaced
  <2>2. PICK y \in IndexFiles : y = Full(v.proc, v.ik) /\ y[1] = v.proc /\ y[2] = v.ik
    BY <1>1, CoveredField
  <2>3. Covers(btree[y], v) /\ btree[y] # EmptyTree
    <3>1. Covers(btree[y], v)
        BY <1>0, <1>5, <2>1, <2>2 DEF Accounted
    <3> QED
        BY <1>1, <3>1, CoversSomething
  <2>4. ~ixDirty[y] /\ y \in toPublish[v.proc]
    BY <1>0, <1>1, <2>1, <2>2, <2>3 DEF FullProgress, FullOf
  <2>5. /\ sections[y][1] = btree[y]
        /\ \E i \in 1..Len(tocs[Master]) : tocs[Master][i] = IndexRecord(y, 1)
    BY <1>0, <1>1, <2>1, <2>2, <2>4 DEF FullProgress, FullOf
  <2>6. PICK i \in 1..Len(tocs[Master]) : tocs[Master][i] = IndexRecord(y, 1)
    BY <2>5
  <2>7. tocs[Master][i].tag = "TOC_INDEX" /\ tocs[Master][i].path = y /\ tocs[Master][i].offset = 1
    BY <2>6, RecordsDiffer
  <2>8. Covering(y, 1, v)
    BY <2>2, <2>3, <2>5 DEF Covering
  <2> QED
    BY <2>7, <2>8 DEF Promising
<1> QED
    BY <1>3, <1>4, <1>5

-----------------------------------------------------------------------------
(* Every step keeps the promises. *)

(* No record of the master toc moves or goes; an INIT record is written over itself. *)
LEMMA MasterKeeps ==
    ASSUME Inv, TocShape, FlushInv, [Next]_vars, ~IOErrors
    PROVE  \A i \in 1..Len(tocs[Master]) : i \in 1..Len(tocs'[Master]) /\ tocs'[Master][i] = tocs[Master][i]
<1> SUFFICES ASSUME NEW i \in 1..Len(tocs[Master])
             PROVE  i \in 1..Len(tocs'[Master]) /\ tocs'[Master][i] = tocs[Master][i]
    OBVIOUS
<1>1. TypeOK /\ TypeOK' /\ TocsWellFormed /\ TocsWellFormed' /\ Master \in TocFiles
    BY NextTypeOK, NextShape DEF Inv, TocShape, TocFiles
<1>2. tocs[Master] \in Seq(TocRecords) /\ tocs'[Master] \in Seq(TocRecords)
    BY <1>1 DEF TypeOK
<1>3. RecordsKept
    BY NextRecordSteps DEF FlushInv
<1>4. CASE tocs[Master][i] # InitRecord
    BY <1>1, <1>3, <1>4 DEF RecordsKept
<1>5. CASE tocs[Master][i] = InitRecord
  <2>1. i = 1
    <3>1. i \in 2..Len(tocs[Master]) \/ i = 1
        BY <1>2
    <3> QED
        BY <1>1, <1>5, <3>1 DEF TocsWellFormed
  <2>2. tocs'[Master] # << >>
    <3>1. tocs[Master] # << >>
        BY <1>2
    <3> QED
        BY <1>1, <3>1, FilesGrow
  <2>3. tocs'[Master][1] = InitRecord
    BY <1>1, <2>2 DEF TocsWellFormed
  <2>4. 1 \in 1..Len(tocs'[Master])
    BY <1>2, <2>2
  <2> QED
    BY <1>5, <2>1, <2>3, <2>4
<1> QED
    BY <1>4, <1>5

(* A record that promises a field goes on promising it. *)
LEMMA PromisingStays ==
    ASSUME Inv, TocShape, FlushInv, [Next]_vars, ~IOErrors, NEW v \in Values, NEW m,
           NEW i \in 1..Len(tocs[Master]), NEW r, r = tocs[Master][i], Promising(r, v, m)
    PROVE  Promising(r, v, m)'
<1>1. TypeOK /\ RecordsWritten /\ RecordsPlaced /\ Master \in TocFiles
    BY DEF Inv, WriteOrder, FlushInv, TocFiles
<1>2. CASE r.tag = "TOC_INDEX"
  <2>1. r \in TocRecords /\ r.path \in IndexFiles
    <3>1. r \in TocRecords
        BY <1>1 DEF TypeOK
    <3> QED
        BY <1>2, <3>1, RecordKinds
  <2>2. r.offset \in 1..Len(sections[r.path]) /\ Placed(r.path, r.offset)
    BY <1>1, <1>2, RecordedPlaced DEF RecordsWritten
  <2>3. Covering(r.path, r.offset, v)
    BY <1>2 DEF Promising
  <2>4. Covering(r.path, r.offset, v)'
    BY <2>1, <2>2, <2>3, CoveringStays
  <2> QED
    BY <1>2, <2>4 DEF Promising
<1>3. CASE r.tag # "TOC_INDEX"
    BY <1>3 DEF Promising
<1> QED
    BY <1>2, <1>3

(* The records the reader goes through are those of the master toc. *)
LEMMA RecordsOfMaster ==
    ASSUME Promises
    PROVE  \A i \in 1..Len(Records) : i \in 1..Len(tocs[Master]) /\ tocs[Master][i] = Records[i]
BY DEF Promises, Records

(* The entries of the walk so far have their sections. *)
LEMMA WalkedWritten ==
    ASSUME ReaderInv
    PROVE  /\ Walked \in Seq(FoundEntries)
           /\ \A i \in 1..Len(Walked) : Walked[i].offset \in 1..Len(sections[Walked[i].path])
<1>1. PICK s \in Seq(FoundEntries) : s = indexes_
    BY DEF ReaderInv, ReaderTypes
<1>2. \A i \in 1..Len(s) : s[i].offset \in 1..Len(sections[s[i].path])
    BY <1>1 DEF ReaderInv, FoundWritten
<1>3. Reverse(s) \in Seq(FoundEntries)
      /\ \A i \in 1..Len(Reverse(s)) : \E j \in 1..Len(s) : Reverse(s)[i] = s[j]
    BY ReverseTwice
<1>4. Walked = s \/ Walked = Reverse(s)
    BY <1>1 DEF Walked
<1> QED
    BY <1>2, <1>3, <1>4

(* Steps of the writers. *)
LEMMA WritersKeepPromises ==
    ASSUME Inv, TocShape, FlushInv, ReaderInv, SeesInv, [Next]_vars, ~IOErrors, UNCHANGED rvars
    PROVE  SeesInv'
<1>0. UNCHANGED <<cacheTocs, rpc, snapshot, masks, position, indexes_, promised>>
    BY DEF rvars
<1>1. Promises /\ WalkPlaced /\ PromisesKept /\ acked \subseteq Values
    BY DEF SeesInv, Inv, TypeOK
<1>2. Promises'
  <2>1. acked \subseteq acked'
    BY HistorySteps DEF CatalogueFlushed, Crash, Archive
  <2>2. \A i \in 1..Len(snapshot) : i \in 1..Len(tocs'[Master]) /\ tocs'[Master][i] = snapshot[i]
    BY <1>1, MasterKeeps DEF Promises
  <2> QED
    BY <1>0, <1>1, <2>1, <2>2 DEF Promises
<1>3. PICK w \in Seq(FoundEntries) : w = Walked /\ \A i \in 1..Len(w) : w[i].offset \in 1..Len(sections[w[i].path])
    BY WalkedWritten
<1>4. Walked' = w
    BY <1>0, <1>3 DEF Walked
<1>5. \A i \in 1..Len(w) : Placed(w[i].path, w[i].offset)
    BY <1>1, <1>3 DEF WalkPlaced
<1>6. WalkPlaced'
  <2>1. ASSUME NEW i \in 1..Len(w) PROVE Placed(w[i].path, w[i].offset)'
    <3>3. w[i] \in FoundEntries
        OBVIOUS
    <3>1. PICK x \in IndexFiles, n \in Nat : x = w[i].path /\ n = w[i].offset
        BY <3>3 DEF FoundEntries
    <3>2. Placed(x, n)'
        BY <1>3, <1>5, <3>1, PlacedStays
    <3> QED
        BY <3>1, <3>2
  <2> QED
    BY <1>4, <2>1 DEF WalkPlaced
<1>7. ASSUME NEW v \in promised
      PROVE  /\ Finds(Walked, v) => Finds(Walked, v)'
             /\ \A i \in 1..Len(Records) : Promising(Records[i], v, masks) =>
                   i \in 1..Len(Records)' /\ Promising(Records[i], v, masks)'
  <2>1. v \in Values
    BY <1>1 DEF Promises
  <2>2. Finds(w, v) => Finds(w, v)'
    BY <1>3, <1>5, <2>1, FindsStays
  <2>3. Finds(Walked, v) => Finds(Walked, v)'
    BY <1>3, <1>4, <2>2 DEF Finds
  <2>4. ASSUME NEW i \in 1..Len(Records), Promising(Records[i], v, masks)
        PROVE  i \in 1..Len(Records)' /\ Promising(Records[i], v, masks)'
    <3>1. PICK r, m : r = Records[i] /\ m = masks
        OBVIOUS
    <3>2. i \in 1..Len(tocs[Master]) /\ r = tocs[Master][i]
        BY <1>1, <3>1, RecordsOfMaster
    <3>3. Promising(r, v, m)'
        BY <2>1, <2>4, <3>1, <3>2, PromisingStays
    <3>4. i \in 1..Len(Records)' /\ Records'[i] = r
        BY <1>0, <3>1, <3>2, MasterKeeps DEF Records
    <3> QED
        BY <1>0, <3>1, <3>3, <3>4 DEF Promising
  <2> QED
    BY <2>3, <2>4
<1>8. PromisesKept'
    BY <1>0, <1>1, <1>7 DEF PromisesKept
<1> QED
    BY <1>2, <1>6, <1>8 DEF SeesInv

(* Steps of the reader leave what the files say alone. *)
LEMMA FilesSayTheSame ==
    ASSUME UNCHANGED vars
    PROVE  /\ \A x, n : Placed(x, n) <=> Placed(x, n)'
           /\ \A w, v : Finds(w, v) <=> Finds(w, v)'
           /\ \A r, v, m : Promising(r, v, m) <=> Promising(r, v, m)'
<1>1. UNCHANGED <<tocs, sections, data, buf, pc, subToc, toPublish>>
    BY DEF vars, files, memory
<1>2. \A x, n, v : Covering(x, n, v) <=> Covering(x, n, v)'
    BY <1>1 DEF Covering, Covers, Written
<1>3. \A x, n : Placed(x, n) <=> Placed(x, n)'
    BY <1>1 DEF Placed, Recorded
<1>4. \A ik, fk : Hits(ik, fk) = Hits(ik, fk)'
    BY <1>1 DEF Hits, Has
<1>5. \A w, v : Finds(w, v) <=> Finds(w, v)'
    BY <1>2, <1>4 DEF Finds
<1>6. \A r, v, m : Promising(r, v, m) <=> Promising(r, v, m)'
    BY <1>2 DEF Promising
<1> QED
    BY <1>3, <1>5, <1>6

(* Opening the toc: what was flushed by then is promised. *)
LEMMA OpenKeepsPromises ==
    ASSUME Inv, FlushInv, ReaderInv, SeesInv, OpenForRead
    PROVE  SeesInv'
<1>1. Promises /\ TypeOK /\ Master \in TocFiles
    BY DEF SeesInv, Inv, TocFiles
<1>2. /\ rpc = "closed" /\ rpc' = "walking" /\ UNCHANGED <<vars, cacheTocs, position, indexes_>>
      /\ snapshot' = IF cacheTocs THEN tocs[Master] ELSE << >>
      /\ masks' = maskedEntries(tocs[Master]) /\ promised' = acked
    BY DEF OpenForRead
<1>3. UNCHANGED <<tocs, acked>>
    BY <1>2 DEF vars, files, history
<1>4. indexes_ = << >> /\ position = 1
    BY <1>1, <1>2 DEF Promises
<1>5. \A m \in masks' : m[2] = 0
  <2>1. ASSUME NEW m \in maskedEntries(tocs[Master]) PROVE m[2] = 0
    <3>1. PICK a, n : m = <<a, n>>
        BY DEF maskedEntries, allMaskableEntries
    <3>2. n = 0
        BY <1>1, <3>1, MasksAreOfSubTocs
    <3> QED
        BY <3>1, <3>2
  <2> QED
    BY <1>2, <2>1
<1>6. Promises'
    BY <1>2, <1>3, <1>5 DEF Promises
<1>7. WalkPlaced'
    BY <1>2, <1>4 DEF WalkPlaced, Walked
<1>8. Records' = tocs[Master]
    BY <1>2, <1>3 DEF Records
<1>9. ASSUME NEW v \in promised'
      PROVE  \E i \in 1..Len(Records') : position' <= i /\ Promising(Records[i], v, masks)'
  <2>1. PICK m : m = maskedEntries(tocs[Master])
    OBVIOUS
  <2>2. PICK i \in 1..Len(tocs[Master]) : Promising(tocs[Master][i], v, m)
    BY <1>2, <2>1, TocPromises
  <2>3. PICK r : r = tocs[Master][i] /\ Promising(r, v, m)
    BY <2>2
  <2>4. Promising(r, v, m)'
    BY <1>2, <2>3, FilesSayTheSame
  <2>5. Promising(Records[i], v, masks)'
    BY <1>2, <1>8, <2>1, <2>3, <2>4 DEF Promising
  <2> QED
    BY <1>2, <1>4, <1>8, <2>5
<1>10. PromisesKept'
    BY <1>2, <1>9 DEF PromisesKept
<1> QED
    BY <1>6, <1>7, <1>10 DEF SeesInv

(* The end of the walk: no promise is left open. *)
LEMMA LoadedKeepsPromises ==
    ASSUME Inv, ReaderInv, SeesInv, IndexesLoaded
    PROVE  SeesInv'
<1>1. Promises /\ WalkPlaced /\ PromisesKept
    BY DEF SeesInv
<1>2. /\ rpc = "walking" /\ position > Len(Records) /\ rpc' = "open" /\ indexes_' = Reverse(indexes_)
      /\ UNCHANGED <<vars, cacheTocs, snapshot, masks, position, promised>>
    BY DEF IndexesLoaded
<1>3. UNCHANGED <<tocs, acked>>
    BY <1>2 DEF vars, files, history
<1>4. PICK w \in Seq(FoundEntries) : w = indexes_ /\ Reverse(Reverse(w)) = w
    BY ReverseTwice DEF ReaderInv, ReaderTypes
<1>5. Walked = w /\ Walked' = w
    BY <1>2, <1>4 DEF Walked
<1>6. Promises'
    BY <1>1, <1>2, <1>3 DEF Promises
<1>7. WalkPlaced'
  <2>1. ASSUME NEW i \in 1..Len(w) PROVE Placed(w[i].path, w[i].offset)'
    BY <1>1, <1>2, <1>5, FilesSayTheSame DEF WalkPlaced
  <2> QED
    BY <1>5, <2>1 DEF WalkPlaced
<1>8. ASSUME NEW v \in promised PROVE Finds(Walked, v)'
  <2>1. ~ \E i \in 1..Len(Records) : position <= i /\ Promising(Records[i], v, masks)
    <3>1. position \in Nat /\ Len(Records) \in Nat
      <4>1. Records \in Seq(TocRecords)
        BY DEF Records, ReaderInv, ReaderTypes, Inv, TypeOK, TocFiles
      <4> QED
        BY <4>1 DEF ReaderInv, ReaderTypes
    <3>2. \A i \in 1..Len(Records) : ~(position <= i)
        BY <1>2, <3>1
    <3> QED
        BY <3>2
  <2>2. Finds(w, v)
    BY <1>1, <1>5, <2>1 DEF PromisesKept
  <2>3. Finds(w, v)'
    BY <1>2, <2>2, FilesSayTheSame
  <2> QED
    BY <1>5, <2>3 DEF Finds
<1>9. PromisesKept'
    BY <1>2, <1>8 DEF PromisesKept
<1> QED
    BY <1>6, <1>7, <1>9 DEF SeesInv

(* A retrieve from the walk and the findings of the next record finds what either does. *)
LEMMA FindsWithNext ==
    ASSUME NEW w \in Seq(FoundEntries), NEW f \in Seq(FoundEntries), NEW v,
           NoneIn(f, Hits(v.ik, v.fk)) => Finds(w, v),
           \A e \in FoundEntries :
               LastIn(f, Hits(v.ik, v.fk), e) /\ e.path[1] = v.proc => Covering(e.path, e.offset, v)
    PROVE  Finds(w \o f, v)
<1>1. PICK H : H = Hits(v.ik, v.fk)
    OBVIOUS
<1>2. /\ w \o f \in Seq(FoundEntries)
      /\ NoneIn(w \o f, H) <=> NoneIn(w, H) /\ NoneIn(f, H)
      /\ \A e : LastIn(w \o f, H, e) => LastIn(f, H, e) \/ (LastIn(w, H, e) /\ NoneIn(f, H))
    BY ConcatLast
<1>3. NoneIn(f, H) => Finds(w, v)
    BY <1>1
<1>4. \A e \in FoundEntries : LastIn(f, H, e) /\ e.path[1] = v.proc => Covering(e.path, e.offset, v)
    BY <1>1
<1>5. ~NoneIn(w \o f, H)
  <2>1. ASSUME Finds(w, v) PROVE ~NoneIn(w, H)
    <3>1. PICK e : LastIn(w, H, e)
        BY <1>1, <2>1 DEF Finds
    <3> QED
        BY ONLY <3>1 DEF LastIn, NoneIn
  <2> QED
    BY <1>2, <1>3, <2>1
<1>6. PICK e \in FoundEntries : LastIn(w \o f, H, e)
    BY <1>2, <1>5, HasLast
<1>7. CASE LastIn(f, H, e)
    BY <1>1, <1>4, <1>6, <1>7 DEF Finds
<1>8. CASE LastIn(w, H, e) /\ NoneIn(f, H)
  <2>1. PICK g \in FoundEntries :
            /\ LastIn(w, H, g)
            /\ g.path[1] = v.proc => Covering(g.path, g.offset, v)
    BY <1>1, <1>3, <1>8 DEF Finds
  <2>2. e = g
    BY <1>8, <2>1, OneLast
  <2> QED
    BY <1>1, <1>6, <2>1, <2>2 DEF Finds
<1> QED
    BY <1>2, <1>6, <1>7, <1>8

(* One record of the walk. *)
LEMMA ReadKeepsPromises ==
    ASSUME Inv, FlushInv, ReaderInv, SeesInv, ReadNext
    PROVE  SeesInv'
<1>1. /\ Promises /\ WalkPlaced /\ PromisesKept /\ ReaderTypes
      /\ TypeOK /\ RecordsWritten /\ RecordsPlaced /\ acked \subseteq Values
    BY DEF SeesInv, ReaderInv, Inv, WriteOrder, FlushInv, TypeOK
<1>2. /\ rpc = "walking" /\ position <= Len(Records) /\ position' = position + 1
      /\ UNCHANGED <<vars, cacheTocs, rpc, snapshot, masks, promised>>
    BY DEF ReadNext
<1>3. UNCHANGED <<tocs, acked>>
    BY <1>2 DEF vars, files, history
<1>4. PICK r : r = Records[position]
    OBVIOUS
<1>5. PICK k \in 1..Len(tocs[Master]) : k = position /\ r = tocs[Master][k] /\ k \in 1..Len(Records)
  <2>1. position \in 1..Len(Records)
    <3>1. position \in Nat /\ position # 0 /\ Len(Records) \in Nat
        BY <1>1 DEF ReaderTypes, Records, TypeOK, TocFiles
    <3> QED
        BY <1>2, <3>1
  <2> QED
    BY <1>1, <1>4, <2>1, RecordsOfMaster
<1>6. \A m \in masks : m[2] = 0
    BY <1>1 DEF Promises
<1>7. PICK f \in Seq(FoundEntries) : f = ReadOf(r) /\ \A i \in 1..Len(f) : Placed(f[i].path, f[i].offset)
    BY <1>1, <1>5, <1>6, FindingsPlaced
<1>8. PICK w \in Seq(FoundEntries) : w = indexes_
    BY <1>1 DEF ReaderTypes
<1>9. indexes_' = w \o f
    BY <1>4, <1>7, <1>8 DEF ReadNext, ReadOf, Entry
<1>10. Walked = w /\ Walked' = w \o f
    BY <1>2, <1>8, <1>9 DEF Walked
<1>11. Promises'
    BY <1>1, <1>2, <1>3 DEF Promises
<1>12. WalkPlaced'
  <2>1. /\ w \o f \in Seq(FoundEntries)
        /\ \A i \in 1..Len(w) : (w \o f)[i] = w[i]
        /\ \A i \in 1..Len(w \o f) : i \notin 1..Len(w) =>
               i - Len(w) \in 1..Len(f) /\ (w \o f)[i] = f[i - Len(w)]
    BY ConcatElements
  <2>2. ASSUME NEW i \in 1..Len(w \o f) PROVE Placed((w \o f)[i].path, (w \o f)[i].offset)
    <3>1. CASE i \in 1..Len(w)
        BY <1>1, <1>10, <2>1, <3>1 DEF WalkPlaced
    <3>2. CASE i \notin 1..Len(w)
      <4>1. PICK j \in 1..Len(f) : (w \o f)[i] = f[j]
        BY <2>1, <3>2
      <4> QED
        BY <1>7, <4>1
    <3> QED
        BY <3>1, <3>2
  <2>3. ASSUME NEW i \in 1..Len(w \o f) PROVE Placed((w \o f)[i].path, (w \o f)[i].offset)'
    BY <1>2, <2>2, FilesSayTheSame
  <2> QED
    BY <1>10, <2>3 DEF WalkPlaced
<1>13. Records' = Records
    BY <1>2, <1>3 DEF Records
<1>14. ASSUME NEW v \in promised
       PROVE  /\ \E i \in 1..Len(Records') : Promising(Records[i], v, masks)'
              /\ \/ \E i \in 1..Len(Records') : position' <= i /\ Promising(Records[i], v, masks)'
                 \/ Finds(Walked, v)'
  <2>1. v \in acked /\ v \in Values
    BY <1>1 DEF Promises
  <2>2. \A i \in 1..Len(Records) : Promising(Records[i], v, masks) => Promising(Records[i], v, masks)'
    <3>1. ASSUME NEW i \in 1..Len(Records), Promising(Records[i], v, masks)
          PROVE  Promising(Records[i], v, masks)'
      <4>1. PICK q, m : q = Records[i] /\ m = masks
        OBVIOUS
      <4>2. Promising(q, v, m)'
        BY <1>2, <3>1, <4>1, FilesSayTheSame
      <4> QED
        BY <1>2, <1>13, <4>1, <4>2 DEF Promising
    <3> QED
        BY <3>1
  <2>3. PICK i \in 1..Len(Records) : Promising(Records[i], v, masks)
    BY <1>1, <1>2 DEF PromisesKept
  <2>4. CASE \E j \in 1..Len(Records) : position + 1 <= j /\ Promising(Records[j], v, masks)
    BY <1>2, <1>13, <2>2, <2>4
  <2>5. CASE ~ \E j \in 1..Len(Records) : position + 1 <= j /\ Promising(Records[j], v, masks)
    <3>1. \A j \in 1..Len(Records) : Promising(Records[j], v, masks) => j <= k
      <4>1. \A j \in 1..Len(Records) : position + 1 <= j \/ j <= k
        BY <1>1, <1>5 DEF ReaderTypes
      <4> QED
        BY <2>5, <4>1
    <3>2. i <= k /\ i \in 1..Len(tocs[Master]) /\ Promising(tocs[Master][i], v, masks)
        BY <1>1, <2>3, <3>1, RecordsOfMaster
    <3>3. \A e \in FoundEntries :
              LastIn(f, Hits(v.ik, v.fk), e) /\ e.path[1] = v.proc => Covering(e.path, e.offset, v)
        BY <1>5, <1>6, <1>7, <2>1, <3>2, FindingCovers
    <3>4. ASSUME NoneIn(f, Hits(v.ik, v.fk)) PROVE Finds(w, v)
      <4>1. ~Promising(r, v, masks)
        BY <1>5, <1>6, <1>7, <2>1, <3>4, PromiseFound
      <4>2. ~ \E j \in 1..Len(Records) : position <= j /\ Promising(Records[j], v, masks)
        <5>1. ASSUME NEW j \in 1..Len(Records), position <= j, Promising(Records[j], v, masks) PROVE FALSE
          <6>1. j = position
            BY <1>1, <1>5, <3>1, <5>1
          <6> QED
            BY <1>4, <4>1, <5>1, <6>1
        <5> QED
          BY <5>1
      <4> QED
        BY <1>1, <1>10, <4>2 DEF PromisesKept
    <3>5. Finds(w \o f, v)
        BY <3>3, <3>4, FindsWithNext
    <3>6. PICK u : u = w \o f
        OBVIOUS
    <3>7. Finds(u, v)'
        BY <1>2, <3>5, <3>6, FilesSayTheSame
    <3>8. Finds(Walked, v)'
        BY <1>10, <3>6, <3>7 DEF Finds
    <3> QED
        BY <1>13, <2>2, <2>3, <3>8
  <2> QED
    BY <2>4, <2>5
<1>15. PromisesKept'
    BY <1>2, <1>14 DEF PromisesKept
<1> QED
    BY <1>11, <1>12, <1>15 DEF SeesInv

(* What the reader has kept of its walk leads to what was promised. *)
LEMMA PromisesAreSeen ==
    ASSUME Inv, FlushInv, ReaderInv, SeesInv
    PROVE  ReaderSeesFlushed
<1> SUFFICES ASSUME rpc = "open", NEW v \in promised
             PROVE  LET r == RetrieveFrom(indexes_, v.ik, v.fk) IN
                    /\ r \in Values
                    /\ r.ik = v.ik /\ r.fk = v.fk
                    /\ r.proc = v.proc => r.n >= v.n
    BY DEF ReaderSeesFlushed
<1>0. TypeOK /\ SectionsDurable /\ ValuesOrdered /\ Promises /\ PromisesKept
    BY DEF Inv, WriteOrder, FlushInv, SeesInv
<1>1. v \in Values /\ v.ik \in IndexKeys /\ v.fk \in FieldKeys
    BY <1>0, CoveredField DEF TypeOK, Promises
<1>2. PICK s \in Seq(FoundEntries) : s = indexes_ /\ Reverse(s) \in Seq(FoundEntries) /\ Reverse(Reverse(s)) = s
    BY ReverseTwice DEF ReaderInv, ReaderTypes
<1>3. PICK w \in Seq(FoundEntries) : w = Walked /\ Reverse(w) = s
    BY <1>2 DEF Walked
<1>4. Finds(w, v)
    BY <1>0, <1>3 DEF PromisesKept
<1>5. PICK H : H = Hits(v.ik, v.fk)
    OBVIOUS
<1>6. PICK e \in FoundEntries :
          /\ LastIn(w, H, e)
          /\ e.path[1] = v.proc => Covering(e.path, e.offset, v)
    BY <1>4, <1>5 DEF Finds
<1>7. RetrieveFrom(s, v.ik, v.fk) = ReadAt(sections[e.path][e.offset][v.fk])
  <2>1. ~NoneIn(w, H)
    BY ONLY <1>6 DEF LastIn, NoneIn
  <2>2. PICK g \in FoundEntries :
            LastIn(w, H, g) /\ RetrieveFrom(Reverse(w), v.ik, v.fk) = ReadAt(sections[g.path][g.offset][v.fk])
    BY <1>1, <1>5, <2>1, ReversedReadsLast
  <2>3. g = e
    BY <1>6, <2>2, OneLast
  <2> QED
    BY <1>3, <2>2, <2>3
<1>8. PICK x \in IndexFiles, n \in Nat : x = e.path /\ n = e.offset
    BY DEF FoundEntries
<1>9. x[2] = v.ik /\ n \in 1..Len(sections[x]) /\ sections[x][n][v.fk] # NoField
  <2>1. e \in H
    BY ONLY <1>6 DEF LastIn
  <2>2. DOMAIN sections[x] = 1..Len(sections[x])
    BY <1>0 DEF TypeOK
  <2> QED
    BY <1>5, <1>8, <2>1, <2>2 DEF Hits, Has
<1>10. PICK loc : loc = sections[x][n][v.fk]
    OBVIOUS
<1>11. PICK d \in DataFiles : d = <<x[1], x[2]>> /\ d = DataOf(x) /\ d[1] = x[1]
    BY IndexFileNames
<1>12. /\ loc.file = d /\ loc.pos \in 1..Len(data[d])
       /\ data[d][loc.pos].ik = v.ik /\ data[d][loc.pos].fk = v.fk
  <2>1. loc.file = DataOf(x) /\ Durable(loc, x[2], v.fk)
    BY <1>0, <1>1, <1>9, <1>10 DEF SectionsDurable
  <2> QED
    BY <1>9, <1>11, <2>1 DEF Durable
<1>13. PICK r : r = data[d][loc.pos]
    OBVIOUS
<1>14. /\ r \in Values /\ loc.pos \in 1..Len(Written(d)) /\ Written(d)[loc.pos] = r
    BY <1>0, <1>12, <1>13, DurableIsWritten, SMTT(30)
<1>15. RetrieveFrom(indexes_, v.ik, v.fk) = r
  <2>1. DOMAIN data[d] = 1..Len(data[d])
    BY <1>0 DEF TypeOK
  <2> QED
    BY <1>2, <1>7, <1>8, <1>10, <1>12, <1>13, <2>1 DEF ReadAt
<1>16. ASSUME r.proc = v.proc PROVE r.n >= v.n
  <2>1. x[1] = v.proc
    BY <1>0, <1>11, <1>14, <1>16 DEF ValuesOrdered
  <2>2. d = <<v.proc, v.ik>>
    BY <1>9, <1>11, <2>1
  <2>3. Covers(sections[x][n], v)
    BY <1>6, <1>8, <2>1 DEF Covering
  <2> QED
    BY <1>10, <1>14, <2>2, <2>3 DEF Covers
<1> QED
    BY <1>12, <1>13, <1>14, <1>15, <1>16

(***************************************************************************)
(* A reader opened after a flush returned finds its fields, or newer ones  *)
(* of the same writer, in the indexes it loaded (TocHandler::readNext and  *)
(* loadIndexes, TocCatalogueReader), however its walk interleaves with the *)
(* flushes, compactions and crashes of the writers, as long as no write    *)
(* fails.                                                                  *)
(***************************************************************************)
THEOREM ReaderAlwaysSeesFlushed ==
    ASSUME ~IOErrors
    PROVE  RSpec => []ReaderSeesFlushed
<1> DEFINE J == Inv /\ TocShape /\ FlushInv /\ ReaderInv /\ SeesInv
<1>1. RInit => J
  <2> SUFFICES ASSUME RInit PROVE J
    OBVIOUS
  <2>1. Inv /\ FlushInv
    BY InitInv, InitFlush DEF RInit
  <2>2. TocShape /\ ReaderInv
    BY DEF RInit, Init, TocShape, TocsWellFormed, InitProgress, SubTocProgress, TocFiles,
        ReaderInv, ReaderTypes, FoundWritten
  <2>3. SeesInv
    BY DEF RInit, Init, SeesInv, Promises, WalkPlaced, Walked, PromisesKept
  <2> QED
    BY <2>1, <2>2, <2>3
<1>2. J /\ [RNext]_<<vars, rvars>> => J'
  <2> SUFFICES ASSUME J, [RNext]_<<vars, rvars>> PROVE J'
    OBVIOUS
  <2>1. [Next]_vars
    BY DEF RNext, OpenForRead, ReadNext, IndexesLoaded
  <2>2. Inv' /\ TocShape'
    BY <2>1, NextShape, NextTypeOK, NextSections, NextTrees, NextBuffers, NextOffsets, NextRecords
       DEF Inv, WriteOrder
  <2>3. FlushInv'
    BY <2>1, NextFlush
  <2>4. ReaderInv'
    BY <2>1, OpenKeepsReader, ReadKeepsReader, LoadedKeepsReader, WritersKeepReader DEF RNext, TocShape
  <2>5. SeesInv'
    BY <2>1, OpenKeepsPromises, ReadKeepsPromises, LoadedKeepsPromises, WritersKeepPromises DEF RNext
  <2> QED
    BY <2>2, <2>3, <2>4, <2>5
<1>3. J => ReaderSeesFlushed
    BY PromisesAreSeen
<1> QED
    BY <1>1, <1>2, <1>3, PTL DEF RSpec
=============================================================================
