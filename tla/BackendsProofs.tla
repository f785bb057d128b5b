---------------------------- MODULE BackendsProofs ----------------------------
(***************************************************************************)
(* Proofs about Backends: that in a toc database with an index of either   *)
(* type, what flush() returned for is found with its data, whatever        *)
(* processes died before and, in a B-tree, whatever was purged; and, in    *)
(* the second half, that the tree and the pools of a database in           *)
(* persistent memory stay sound.                                           *)
(*                                                                         *)
(* LsmInv is the inductive invariant of the first.  Entries and records    *)
(* are in the order of the fields they are about (EntriesAreFields,        *)
(* LaterIsNewer, TocInOrder), so that the last visible index with a key    *)
(* has its newest field (LaterEntry); and each field that was flushed is,  *)
(* or a newer one of its key, in a visible index whose axes have the key   *)
(* (FlushedAreCovered), which a purge does not hide because it hides none  *)
(* that is the last one with some key (LastHitStays).                      *)
(*                                                                         *)
(* TreeInv is that of the second.  A writer that creates branches holds    *)
(* only the mutex of the node above the first of them.  What it created    *)
(* since it took that mutex can be reached from that node alone, and no    *)
(* other writer is in there or keeps an index there (Grown), so none adds  *)
(* a branch of the same name beside one of them, although their own        *)
(* mutexes are free.                                                       *)
(***************************************************************************)
EXTENDS Backends, Lemmas

(* Every toc but an LSMIndex's has a place of its own for each flush.  What *)
(* is promised: everything, of the latter until a purge found duplicates.   *)
Sectioned == indexType # "LSMIndex"
Promised == Sectioned \/ ~purged

FieldAt(n, k, f) == n \in DOMAIN fields /\ fields[n].key = k /\ fields[n].path = f
OfRun == {n \in DOMAIN fields : fields[n].path = run}

IndexRecords == [tag : {"TOC_INDEX"}, path : Files, offset : Sections, axes : SUBSET Keys]
ClearRecords == [tag : {"TOC_CLEAR"}, path : Files, offset : Sections]

LsmTypes ==
    /\ step \in {"none", "idle", "sync", "record", "return", "dead"}
    /\ run \in Nat /\ run <= MaxProcesses /\ (step # "none" => run \in Files)
    /\ section \in Nat /\ section <= Len(fields)
    /\ dirty_ \in BOOLEAN /\ purged \in BOOLEAN
    /\ dirty_ \/ step \in {"sync", "record"} => section < Len(fields)
    /\ step \in {"record", "return"} => ~dirty_
    /\ ~Sectioned => section = 0
    /\ stored \in [Files -> [Sections -> [Keys -> Nat]]]
    /\ log \in Seq(Keys \X Nat) /\ axes_ \subseteq Keys
    /\ step \notin {"idle", "sync"} => log = <<>>
    /\ toc \in Seq(IndexRecords \cup ClearRecords)
    /\ fields \in Seq([key : Keys, path : Files]) /\ Len(fields) <= MaxFields
    /\ durable \subseteq DOMAIN fields /\ flushed \subseteq DOMAIN fields

(* An entry is a field of the key in the data file of the same process; the *)
(* processes' fields follow one another.                                    *)
EntriesAreFields ==
    /\ \A f \in Files, s \in Sections, k \in Keys :
          stored[f][s][k] # 0 => FieldAt(stored[f][s][k], k, f)
    /\ \A i \in DOMAIN log : FieldAt(log[i][2], log[i][1], run)
    /\ \A m, n \in DOMAIN fields : m <= n => fields[m].path <= fields[n].path
    /\ \A n \in DOMAIN fields : fields[n].path <= run

(* What is set later is newer: in the log, in the log than in the sections, *)
(* and in a section than in those before it.  Nothing is ahead.             *)
LaterIsNewer ==
    /\ \A i, j \in DOMAIN log : i < j => log[i][2] < log[j][2]
    /\ \A i \in DOMAIN log, s \in Sections, k \in Keys : stored[run][s][k] < log[i][2]
    /\ \A f \in Files, s, t \in Sections, k \in Keys :
          s < t /\ stored[f][t][k] # 0 => stored[f][s][k] < stored[f][t][k]
    /\ \A f \in Files, s \in Sections, k \in Keys :
          f > run \/ (f = run /\ s > section) => stored[f][s][k] = 0

(* The records of the toc name places in the order they were written in,   *)
(* none that is still written to.                                           *)
Behind(r) == r.path < run \/ (r.path = run /\ (Sectioned => r.offset < section))
Before(r, q) == r.path < q.path \/ (r.path = q.path /\ (Sectioned => r.offset < q.offset))
TocInOrder ==
    /\ \A i \in DOMAIN toc : Behind(toc[i]) /\ (~Sectioned => toc[i].offset = 0)
    /\ \A i, j \in DOMAIN toc :
          i < j /\ toc[i].tag = "TOC_INDEX" /\ toc[j].tag = "TOC_INDEX" => Before(toc[i], toc[j])
    /\ ~purged => \A i \in DOMAIN toc : toc[i].tag = "TOC_INDEX"

(* The axes of a section have all that is in it.                            *)
AxesHold ==
    Sectioned =>
        /\ \A i \in DOMAIN log : log[i][1] \in axes_
        /\ run \in Files => \A k \in Keys : stored[run][section][k] # 0 => k \in axes_
        /\ \A i \in DOMAIN toc, k \in Keys :
              toc[i].tag = "TOC_INDEX" /\ stored[toc[i].path][toc[i].offset][k] # 0 => k \in toc[i].axes

(* The data of what can be reached in sections, and of what flush returned  *)
(* for, is in its file.                                                     *)
DataFirst ==
    /\ step \in {"sync", "record", "return"} => OfRun \subseteq durable
    /\ Sectioned => \A i \in Indexes_, k \in Keys :
          stored[toc[i].path][toc[i].offset][k] # 0 => stored[toc[i].path][toc[i].offset][k] \in durable
    /\ ~purged => flushed \subseteq durable

(* A visible index has the field, or a newer one of its key, for good; or   *)
(* the process has, and will write the record.                              *)
Covered(n) ==
    \E i \in Indexes_ : fields[n].key \in toc[i].axes /\ stored[toc[i].path][toc[i].offset][fields[n].key] >= n
Pending(n) == fields[n].key \in axes_ /\ Entries(run, section)[fields[n].key] >= n
FlushedAreCovered ==
    Promised =>
        /\ \A n \in flushed : Covered(n)
        /\ step \notin {"none", "dead"} => \A n \in OfRun : Covered(n) \/ Pending(n)
        /\ step = "return" => \A n \in OfRun : Covered(n)

LsmInv ==
    /\ LsmTypes /\ EntriesAreFields /\ LaterIsNewer /\ TocInOrder
    /\ AxesHold /\ DataFirst /\ FlushedAreCovered

----------------------------------------------------------------------------
(* The entries of a section, and the visible indexes. *)

(* A set of positions that is not empty has a last one, and Max is it. *)
LEMMA MaxIsLast ==
    ASSUME NEW b \in Nat, NEW T \in SUBSET (1..b), T # {}
    PROVE  Max(T) \in T /\ \A k \in T : k <= Max(T)
<1>1. PICK m \in T : \A k \in T : k <= m
  <2>1. T \in SUBSET (0..b)
    OBVIOUS
  <2> QED
    BY <2>1, GreatestNat
<1>2. m \in T /\ \A y \in T : m >= y
    BY <1>1
<1>3. Max(T) \in T /\ \A y \in T : Max(T) >= y
  <2> HIDE DEF Max
  <2>1. Max(T) = CHOOSE x \in T : \A y \in T : x >= y
    BY DEF Max
  <2> QED
    BY <1>2, <2>1
<1> QED
    BY <1>3

(* The entry of a key is the one from before, or the last that was set. *)
LEMMA AppliedMiss ==
    ASSUME NEW entries \in [Keys -> Nat], NEW puts \in Seq(Keys \X Nat), NEW k \in Keys,
           \A i \in DOMAIN puts : puts[i][1] # k
    PROVE  Applied(entries, puts)[k] = entries[k]
<1>1. {i \in DOMAIN puts : puts[i][1] = k} = {}
    OBVIOUS
<1> QED
    BY <1>1 DEF Applied

LEMMA AppliedSome ==
    ASSUME NEW entries \in [Keys -> Nat], NEW puts \in Seq(Keys \X Nat), NEW k \in Keys,
           NEW h \in DOMAIN puts, puts[h][1] = k
    PROVE  \E i \in DOMAIN puts :
              /\ puts[i][1] = k /\ \A j \in DOMAIN puts : puts[j][1] = k => j <= i
              /\ Applied(entries, puts)[k] = puts[i][2]
<1> DEFINE those == {i \in DOMAIN puts : puts[i][1] = k}
<1>1. Applied(entries, puts)[k] = IF those = {} THEN entries[k] ELSE puts[Max(those)][2]
    BY DEF Applied
<1>2. /\ Len(puts) \in Nat /\ those \in SUBSET (1..Len(puts)) /\ DOMAIN puts = 1..Len(puts)
      /\ those # {}
    OBVIOUS
<1> HIDE DEF those
<1>3. Max(those) \in those /\ \A j \in those : j <= Max(those)
    BY <1>2, MaxIsLast
<1>4. Applied(entries, puts)[k] = puts[Max(those)][2]
    BY <1>1, <1>2
<1> DEFINE m == Max(those)
<1>5. m \in DOMAIN puts /\ puts[m][1] = k /\ \A j \in DOMAIN puts : puts[j][1] = k => j <= m
    BY <1>3 DEF those
<1> HIDE DEF m
<1> QED
    BY <1>4, <1>5 DEF m

LEMMA AppliedHit ==
    ASSUME NEW entries \in [Keys -> Nat], NEW puts \in Seq(Keys \X Nat), NEW k \in Keys, NEW i \in DOMAIN puts,
           puts[i][1] = k, \A j \in DOMAIN puts : puts[j][1] = k => j <= i
    PROVE  Applied(entries, puts)[k] = puts[i][2]
<1>1. PICK h \in DOMAIN puts :
          /\ puts[h][1] = k /\ \A j \in DOMAIN puts : puts[j][1] = k => j <= h
          /\ Applied(entries, puts)[k] = puts[h][2]
    BY AppliedSome
<1>2. h <= i /\ i <= h
    BY <1>1
<1>3. h \in Nat /\ i \in Nat
    OBVIOUS
<1>4. h = i
    BY <1>2, <1>3
<1> QED
    BY <1>1, <1>4

LEMMA AppliedType ==
    ASSUME NEW entries \in [Keys -> Nat], NEW puts \in Seq(Keys \X Nat)
    PROVE  Applied(entries, puts) \in [Keys -> Nat]
<1>1. ASSUME NEW k \in Keys PROVE Applied(entries, puts)[k] \in Nat
  <2>1. \A i \in DOMAIN puts : puts[i][2] \in Nat
    OBVIOUS
  <2>2. CASE \A i \in DOMAIN puts : puts[i][1] # k
    BY <2>2, AppliedMiss
  <2>3. CASE \E i \in DOMAIN puts : puts[i][1] = k
    <3>1. PICK h \in DOMAIN puts : puts[h][1] = k
      BY <2>3
    <3>2. PICK i \in DOMAIN puts : Applied(entries, puts)[k] = puts[i][2]
      BY <3>1, AppliedSome
    <3> QED
      BY <2>1, <3>2
  <2> QED
    BY <2>2, <2>3
<1>2. \E f : Applied(entries, puts) = [k \in Keys |-> f[k]]
  <2> DEFINE g == [k \in Keys |-> LET those == {i \in DOMAIN puts : puts[i][1] = k}
                                  IN  IF those = {} THEN entries[k] ELSE puts[Max(those)][2]]
  <2>1. Applied(entries, puts) = g
    BY DEF Applied
  <2>2. g = [k \in Keys |-> g[k]]
    OBVIOUS
  <2> QED
    BY <2>1, <2>2
<1> QED
    BY <1>1, <1>2

(* Nothing set, nothing changed. *)
LEMMA AppliedNothing ==
    ASSUME NEW entries \in [Keys -> Nat]
    PROVE  Applied(entries, <<>>) = entries
<1> DEFINE e == <<>>
<1>1. e \in Seq(Keys \X Nat) /\ Len(e) = 0
    OBVIOUS
<1> HIDE DEF e
<1>2. ASSUME NEW k \in Keys PROVE Applied(entries, e)[k] = entries[k]
  <2>1. \A i \in DOMAIN e : FALSE
    BY <1>1
  <2> QED
    BY <1>1, <2>1, AppliedMiss
<1>3. Applied(entries, e) \in [Keys -> Nat]
    BY <1>1, AppliedType
<1> QED
    BY <1>2, <1>3 DEF e

(* What is set next is what is read of its key, and of no other key. *)
LEMMA AppliedNext ==
    ASSUME NEW entries \in [Keys -> Nat], NEW puts \in Seq(Keys \X Nat), NEW k \in Keys, NEW n \in Nat
    PROVE  /\ Applied(entries, Append(puts, <<k, n>>))[k] = n
           /\ \A q \in Keys \ {k} : Applied(entries, Append(puts, <<k, n>>))[q] = Applied(entries, puts)[q]
<1> DEFINE new == Append(puts, <<k, n>>)
           last == Len(puts) + 1
<1>1. /\ new \in Seq(Keys \X Nat) /\ DOMAIN new = 1..last /\ last \in DOMAIN new
      /\ new[last] = <<k, n>> /\ \A i \in DOMAIN puts : new[i] = puts[i]
      /\ DOMAIN puts = 1..Len(puts) /\ Len(puts) \in Nat
    OBVIOUS
<1> HIDE DEF new
<1>2. Applied(entries, new)[k] = n
  <2>1. new[last][1] = k /\ new[last][2] = n
    BY <1>1
  <2>2. \A j \in DOMAIN new : j <= last
    BY <1>1
  <2>3. \A j \in DOMAIN new : new[j][1] = k => j <= last
    BY <2>2
  <2>4. Applied(entries, new)[k] = new[last][2]
    BY <1>1, <2>1, <2>3, AppliedHit
  <2> QED
    BY <2>1, <2>4
<1>3. ASSUME NEW q \in Keys, q # k PROVE Applied(entries, new)[q] = Applied(entries, puts)[q]
  <2>1. ASSUME NEW i \in DOMAIN new, new[i][1] = q PROVE i \in DOMAIN puts /\ puts[i] = new[i]
    <3>1. i # last
      BY <1>1, <1>3, <2>1
    <3>2. i \in 1..Len(puts)
      BY <1>1, <2>1, <3>1
    <3> QED
      BY <1>1, <3>2
  <2>2. \A i \in DOMAIN puts : i \in DOMAIN new
    BY <1>1
  <2>3. CASE \A i \in DOMAIN puts : puts[i][1] # q
    <3>1. \A i \in DOMAIN new : new[i][1] # q
      BY <2>1, <2>3
    <3>2. Applied(entries, new)[q] = entries[q]
      BY <1>1, <3>1, AppliedMiss
    <3>3. Applied(entries, puts)[q] = entries[q]
      BY <2>3, AppliedMiss
    <3> QED
      BY <3>2, <3>3
  <2>4. CASE \E i \in DOMAIN puts : puts[i][1] = q
    <3>1. PICK i \in DOMAIN puts :
              /\ puts[i][1] = q /\ \A j \in DOMAIN puts : puts[j][1] = q => j <= i
              /\ Applied(entries, puts)[q] = puts[i][2]
      <4>1. PICK h \in DOMAIN puts : puts[h][1] = q
        BY <2>4
      <4> QED
        BY <4>1, AppliedSome
    <3>2. i \in DOMAIN new /\ new[i] = puts[i]
      BY <1>1, <2>2, <3>1
    <3>3. \A j \in DOMAIN new : new[j][1] = q => j <= i
      BY <2>1, <3>1
    <3>4. Applied(entries, new)[q] = new[i][2]
      BY <1>1, <3>1, <3>2, <3>3, AppliedHit
    <3> QED
      BY <3>1, <3>2, <3>4
  <2> QED
    BY <2>3, <2>4
<1> QED
    BY <1>2, <1>3 DEF new

(* Where the process writes to is one of the places. *)
LEMMA Current ==
    ASSUME LsmTypes, run \in Files
    PROVE  section \in Sections /\ stored[run][section] \in [Keys -> Nat] /\ MaxProcesses \in Nat
<1>1. MaxFields \in Nat /\ MaxProcesses \in Nat
    BY LsmAssumption
<1>2. section \in Sections
  <2>1. section \in Nat /\ section <= Len(fields) /\ Len(fields) <= MaxFields /\ Len(fields) \in Nat
    BY DEF LsmTypes
  <2> QED
    BY <1>1, <2>1 DEF Sections
<1> QED
    BY <1>1, <1>2 DEF LsmTypes

(***************************************************************************)
(* The first of the log's entries are made safe, all of them by par_sync,  *)
(* some of them when the process dies: what is stored only gets newer, and *)
(* only in the section that is written.                                     *)
(***************************************************************************)
Saved(puts) == [stored EXCEPT ![run][section] = Applied(@, puts)]

LEMMA SavedIs ==
    ASSUME LsmTypes, EntriesAreFields, LaterIsNewer, run \in Files,
           NEW puts \in Seq(Keys \X Nat), DOMAIN puts \subseteq DOMAIN log,
           \A i \in DOMAIN puts : puts[i] = log[i]
    PROVE  /\ Saved(puts) \in [Files -> [Sections -> [Keys -> Nat]]]
           /\ Saved(puts)[run][section] = Applied(stored[run][section], puts)
           /\ \A f \in Files, s \in Sections :
                 f # run \/ s # section => Saved(puts)[f][s] = stored[f][s]
           /\ \A f \in Files, s \in Sections, k \in Keys : stored[f][s][k] <= Saved(puts)[f][s][k]
           /\ \A k \in Keys :
                 \/ Saved(puts)[run][section][k] = stored[run][section][k]
                 \/ \E i \in DOMAIN puts : puts[i][1] = k /\ Saved(puts)[run][section][k] = puts[i][2]
<1>1. section \in Sections /\ stored[run][section] \in [Keys -> Nat]
    BY Current
<1> DEFINE a == Applied(stored[run][section], puts)
<1>2. a \in [Keys -> Nat]
    BY <1>1, AppliedType
<1>3. stored \in [Files -> [Sections -> [Keys -> Nat]]]
    BY DEF LsmTypes
<1>4. Saved(puts) = [stored EXCEPT ![run] = [stored[run] EXCEPT ![section] = a]]
    BY <1>1, <1>3 DEF Saved
<1> HIDE DEF a
<1>5. [stored[run] EXCEPT ![section] = a] \in [Sections -> [Keys -> Nat]]
    BY <1>2, <1>3
<1>6. Saved(puts) \in [Files -> [Sections -> [Keys -> Nat]]]
    BY <1>3, <1>4, <1>5
<1>7. Saved(puts)[run][section] = a
    BY <1>1, <1>3, <1>4
<1>8. \A f \in Files, s \in Sections : f # run \/ s # section => Saved(puts)[f][s] = stored[f][s]
    BY <1>1, <1>3, <1>4
<1>9. \A k \in Keys :
          \/ a[k] = stored[run][section][k]
          \/ \E i \in DOMAIN puts : puts[i][1] = k /\ a[k] = puts[i][2]
  <2> TAKE k \in Keys
  <2>1. CASE \A i \in DOMAIN puts : puts[i][1] # k
    <3>1. a[k] = stored[run][section][k]
      BY <1>1, <2>1, AppliedMiss DEF a
    <3> QED
      BY <3>1
  <2>2. CASE \E i \in DOMAIN puts : puts[i][1] = k
    <3>1. PICK h \in DOMAIN puts : puts[h][1] = k
      BY <2>2
    <3>2. PICK i \in DOMAIN puts : puts[i][1] = k /\ a[k] = puts[i][2]
      BY <1>1, <3>1, AppliedSome DEF a
    <3> QED
      BY <3>2
  <2> QED
    BY <2>1, <2>2
<1>10. \A f \in Files, s \in Sections, k \in Keys : stored[f][s][k] <= Saved(puts)[f][s][k]
  <2> TAKE f \in Files, s \in Sections, k \in Keys
  <2>1. CASE f # run \/ s # section
    <3>1. Saved(puts)[f][s][k] = stored[f][s][k] /\ stored[f][s][k] \in Nat
      BY <1>3, <1>8, <2>1
    <3> QED
      BY <3>1
  <2>2. CASE f = run /\ s = section
    <3>1. CASE a[k] = stored[run][section][k]
      BY <1>1, <1>7, <2>2, <3>1
    <3>2. CASE \E i \in DOMAIN puts : puts[i][1] = k /\ a[k] = puts[i][2]
      <4>1. PICK i \in DOMAIN puts : puts[i][1] = k /\ a[k] = puts[i][2]
        BY <3>2
      <4>2. i \in DOMAIN log /\ log[i][2] = puts[i][2] /\ log[i][2] \in Nat
        BY <4>1, SMTT(30) DEF LsmTypes
      <4>3. stored[run][section][k] < log[i][2]
        BY <1>1, <4>2 DEF LaterIsNewer
      <4>4. stored[run][section][k] \in Nat
        BY <1>1
      <4>5. stored[run][section][k] <= a[k]
        BY <4>1, <4>2, <4>3, <4>4
      <4> QED
        BY <1>7, <2>2, <4>5
    <3> QED
      BY <1>9, <3>1, <3>2
  <2> QED
    BY <2>1, <2>2
<1> QED
    BY <1>6, <1>7, <1>8, <1>9, <1>10 DEF a

(* An entry that has been made safe is a field, newer than those in the    *)
(* sections before.                                                        *)
LEMMA SavedAreFields ==
    ASSUME LsmTypes, EntriesAreFields, LaterIsNewer, run \in Files,
           NEW puts \in Seq(Keys \X Nat), DOMAIN puts \subseteq DOMAIN log,
           \A i \in DOMAIN puts : puts[i] = log[i]
    PROVE  /\ \A f \in Files, s \in Sections, k \in Keys :
                 Saved(puts)[f][s][k] # 0 => FieldAt(Saved(puts)[f][s][k], k, f)
           /\ \A f \in Files, s, t \in Sections, k \in Keys :
                 s < t /\ Saved(puts)[f][t][k] # 0 => Saved(puts)[f][s][k] < Saved(puts)[f][t][k]
           /\ \A f \in Files, s \in Sections, k \in Keys :
                 f > run \/ (f = run /\ s > section) => Saved(puts)[f][s][k] = 0
<1> DEFINE st == Saved(puts)
<1>1. /\ st \in [Files -> [Sections -> [Keys -> Nat]]]
      /\ \A f \in Files, s \in Sections : f # run \/ s # section => st[f][s] = stored[f][s]
      /\ \A f \in Files, s \in Sections, k \in Keys : stored[f][s][k] <= st[f][s][k]
      /\ \A k \in Keys :
            \/ st[run][section][k] = stored[run][section][k]
            \/ \E i \in DOMAIN puts : puts[i][1] = k /\ st[run][section][k] = puts[i][2]
    BY SavedIs
<1>2. section \in Sections /\ MaxProcesses \in Nat /\ MaxFields \in Nat
    BY Current, LsmAssumption
<1>3. stored \in [Files -> [Sections -> [Keys -> Nat]]]
    BY DEF LsmTypes
<1> HIDE DEF st
<1>4. ASSUME NEW f \in Files, NEW s \in Sections, NEW k \in Keys, st[f][s][k] # 0
      PROVE  FieldAt(st[f][s][k], k, f)
  <2>1. CASE st[f][s][k] = stored[f][s][k]
    BY <1>4, <2>1 DEF EntriesAreFields
  <2>2. CASE st[f][s][k] # stored[f][s][k]
    <3>1. f = run /\ s = section
      BY <1>1, <2>2
    <3>2. PICK i \in DOMAIN puts : puts[i][1] = k /\ st[run][section][k] = puts[i][2]
      BY <1>1, <2>2, <3>1
    <3>3. i \in DOMAIN log /\ log[i] = puts[i]
      BY <3>2
    <3>4. FieldAt(log[i][2], log[i][1], run)
      BY <3>3 DEF EntriesAreFields
    <3> QED
      BY <3>1, <3>2, <3>3, <3>4
  <2> QED
    BY <2>1, <2>2
<1>5. ASSUME NEW f \in Files, NEW s \in Sections, NEW k \in Keys, f > run \/ (f = run /\ s > section)
      PROVE  st[f][s][k] = 0
  <2>1. f # run \/ s # section
    BY <1>2, <1>5 DEF Files, Sections
  <2>2. stored[f][s][k] = 0
    BY <1>5 DEF LaterIsNewer
  <2>3. st[f][s] = stored[f][s]
    BY <1>1, <2>1
  <2> QED
    BY <2>2, <2>3
<1>6. ASSUME NEW f \in Files, NEW s \in Sections, NEW t \in Sections, NEW k \in Keys,
             s < t, st[f][t][k] # 0
      PROVE  st[f][s][k] < st[f][t][k]
  <2>1. s \in Nat /\ t \in Nat /\ section \in Nat
    BY <1>2 DEF Sections
  <2>2. stored[f][s][k] \in Nat /\ stored[f][t][k] \in Nat /\ st[f][s][k] \in Nat /\ st[f][t][k] \in Nat
    BY <1>1, <1>3
  <2>3. CASE f = run /\ s = section
    <3>1. st[f][t][k] = 0
      BY <1>5, <1>6, <2>1, <2>3
    <3> QED
      BY <1>6, <3>1
  <2>4. CASE ~(f = run /\ s = section)
    <3>1. st[f][s][k] = stored[f][s][k]
      BY <1>1, <2>4
    <3>2. CASE st[f][t][k] = stored[f][t][k]
      BY <1>6, <3>1, <3>2 DEF LaterIsNewer
    <3>3. CASE st[f][t][k] # stored[f][t][k]
      <4>1. f = run /\ t = section
        BY <1>1, <3>3
      <4>2. PICK i \in DOMAIN puts : puts[i][1] = k /\ st[run][section][k] = puts[i][2]
        BY <1>1, <3>3, <4>1
      <4>3. i \in DOMAIN log /\ log[i] = puts[i]
        BY <4>2
      <4>4. stored[run][s][k] < log[i][2]
        BY <4>3 DEF LaterIsNewer
      <4> QED
        BY <3>1, <4>1, <4>2, <4>3, <4>4
    <3> QED
      BY <3>2, <3>3
  <2> QED
    BY <2>3, <2>4
<1> QED
    BY <1>4, <1>5, <1>6 DEF st

(* A field has a key, and its file is that of a process that has begun.     *)
LEMMA FieldIs ==
    ASSUME LsmTypes, EntriesAreFields
    PROVE  \A n \in DOMAIN fields :
              /\ fields[n].key \in Keys /\ fields[n].path \in Files /\ fields[n].path \in Nat
              /\ fields[n].path <= run /\ n \in Nat
<1> TAKE n \in DOMAIN fields
<1>1. fields[n] \in [key : Keys, path : Files] /\ n \in Nat
  <2>1. fields \in Seq([key : Keys, path : Files])
    BY DEF LsmTypes
  <2>2. Len(fields) \in Nat /\ fields \in [1..Len(fields) -> [key : Keys, path : Files]]
    BY <2>1, LenProperties
  <2>3. n \in 1..Len(fields)
    BY <2>2
  <2> QED
    BY <2>2, <2>3
<1>2. fields[n].path <= run
    BY DEF EntriesAreFields
<1> QED
    BY <1>1, <1>2 DEF Files

----------------------------------------------------------------------------
(* The visible indexes: after a record is written, and after a purge.       *)

LEMMA VisibleIs ==
    ASSUME LsmTypes, TocInOrder, NEW i \in Indexes_
    PROVE  /\ i \in DOMAIN toc /\ i \in Nat /\ toc[i] \in IndexRecords
           /\ toc[i].path \in Files /\ toc[i].offset \in Sections /\ toc[i].axes \subseteq Keys
           /\ Behind(toc[i]) /\ (~Sectioned => toc[i].offset = 0)
<1>1. i \in DOMAIN toc /\ toc[i].tag = "TOC_INDEX" /\ i \in Nat
    BY DEF Indexes_, LsmTypes
<1>2. toc[i] \in IndexRecords \cup ClearRecords
    BY <1>1 DEF LsmTypes
<1>3. toc[i] \in IndexRecords
    BY <1>1, <1>2 DEF ClearRecords
<1> QED
    BY <1>1, <1>3 DEF IndexRecords, TocInOrder

(* In sections a visible index does not change any more; in the database of *)
(* an LSMIndex what was made safe may have been replaced.                   *)
LEMMA EntryIs ==
    ASSUME LsmTypes, EntriesAreFields, LaterIsNewer, TocInOrder, NEW i \in Indexes_, NEW k \in Keys
    PROVE  /\ Entry(i, k) \in Nat
           /\ stored[toc[i].path][toc[i].offset][k] \in Nat
           /\ stored[toc[i].path][toc[i].offset][k] <= Entry(i, k)
           /\ Sectioned => Entry(i, k) = stored[toc[i].path][toc[i].offset][k]
           /\ Entry(i, k) # 0 => FieldAt(Entry(i, k), k, toc[i].path)
<1> DEFINE f == toc[i].path
           s == toc[i].offset
<1>1. f \in Files /\ s \in Sections /\ Behind(toc[i]) /\ (~Sectioned => s = 0)
    BY VisibleIs
<1>2. stored[f][s] \in [Keys -> Nat]
    BY <1>1 DEF LsmTypes
<1>3. stored[f][s][k] # 0 => FieldAt(stored[f][s][k], k, f)
    BY <1>1 DEF EntriesAreFields
<1>4. CASE ~(f = run /\ s = section)
  <2>1. Entry(i, k) = stored[f][s][k]
    BY <1>4 DEF Entry, Entries
  <2> QED
    BY <1>2, <1>3, <2>1
<1>5. CASE f = run /\ s = section
  <2>1. Entry(i, k) = Applied(stored[run][section], log)[k]
    BY <1>5 DEF Entry, Entries
  <2>2. ~Sectioned
    <3>1. run \in Nat /\ section \in Nat
      BY DEF LsmTypes
    <3> QED
      BY <1>1, <1>5, <3>1 DEF Behind
  <2>3. log \in Seq(Keys \X Nat) /\ DOMAIN log \subseteq DOMAIN log /\ \A j \in DOMAIN log : log[j] = log[j]
    BY DEF LsmTypes
  <2>4. /\ Saved(log)[run][section] = Applied(stored[run][section], log)
        /\ Saved(log) \in [Files -> [Sections -> [Keys -> Nat]]]
        /\ stored[f][s][k] <= Saved(log)[f][s][k]
    BY <1>1, <1>5, <2>3, SavedIs
  <2>5. Saved(log)[f][s][k] # 0 => FieldAt(Saved(log)[f][s][k], k, f)
    BY <1>1, <1>5, <2>3, SavedAreFields
  <2>6. Entry(i, k) = Saved(log)[f][s][k]
    BY <1>5, <2>1, <2>4
  <2> QED
    BY <1>1, <1>2, <2>2, <2>4, <2>5, <2>6
<1> QED
    BY <1>4, <1>5

(* A later index that has the key has the newer field of it, or the same.  *)
LEMMA LaterEntry ==
    ASSUME LsmTypes, EntriesAreFields, LaterIsNewer, TocInOrder,
           NEW i \in Indexes_, NEW j \in Indexes_, i <= j, NEW k \in Keys, HasEntry(j, k)
    PROVE  Entry(i, k) <= Entry(j, k)
<1>1. /\ i \in DOMAIN toc /\ j \in DOMAIN toc /\ i \in Nat /\ j \in Nat
      /\ toc[i].path \in Files /\ toc[j].path \in Files
      /\ toc[i].offset \in Sections /\ toc[j].offset \in Sections
      /\ toc[i].tag = "TOC_INDEX" /\ toc[j].tag = "TOC_INDEX"
    BY VisibleIs DEF IndexRecords
<1>2. Entry(i, k) \in Nat /\ Entry(j, k) \in Nat /\ Entry(j, k) # 0
    BY EntryIs DEF HasEntry, NoField
<1>3. CASE i = j
    BY <1>2, <1>3
<1>4. CASE i < j /\ toc[i].path < toc[j].path
  <2>1. CASE Entry(i, k) = 0
    BY <1>2, <2>1
  <2>2. CASE Entry(i, k) # 0
    <3>1. FieldAt(Entry(i, k), k, toc[i].path) /\ FieldAt(Entry(j, k), k, toc[j].path)
      BY <1>2, <2>2, EntryIs
    <3>2. ~(Entry(j, k) <= Entry(i, k))
      <4>1. SUFFICES ASSUME Entry(j, k) <= Entry(i, k) PROVE FALSE
        OBVIOUS
      <4>2. toc[j].path <= toc[i].path
        BY <3>1, <4>1 DEF EntriesAreFields, FieldAt
      <4>3. toc[i].path \in Nat /\ toc[j].path \in Nat
        BY <1>1 DEF Files
      <4> QED
        BY <1>4, <4>2, <4>3
    <3> QED
      BY <1>2, <3>2
  <2> QED
    BY <2>1, <2>2
<1>5. CASE i < j /\ ~(toc[i].path < toc[j].path)
  <2>1. Before(toc[i], toc[j])
    BY <1>1, <1>5 DEF TocInOrder
  <2>2. toc[i].path = toc[j].path /\ (Sectioned => toc[i].offset < toc[j].offset)
    BY <1>5, <2>1 DEF Before
  <2>3. CASE Sectioned
    <3>1. /\ Entry(i, k) = stored[toc[i].path][toc[i].offset][k]
          /\ Entry(j, k) = stored[toc[j].path][toc[j].offset][k]
      BY <2>3, EntryIs
    <3>2. Entry(i, k) < Entry(j, k)
      BY <1>1, <1>2, <2>2, <2>3, <3>1 DEF LaterIsNewer
    <3> QED
      BY <1>2, <3>2
  <2>4. CASE ~Sectioned
    <3>1. toc[i].offset = 0 /\ toc[j].offset = 0
      BY <2>4, VisibleIs
    <3>2. Entry(i, k) = Entry(j, k)
      BY <2>2, <3>1 DEF Entry
    <3> QED
      BY <1>2, <3>2
  <2> QED
    BY <2>3, <2>4
<1> QED
  <2>1. i < j \/ i = j
    BY <1>1
  <2> QED
    BY <1>3, <1>4, <1>5, <2>1

(* An index that the key is in its axes for, and its entry, will do.        *)
LEMMA LookupFinds ==
    ASSUME LsmTypes, EntriesAreFields, LaterIsNewer, TocInOrder,
           NEW k \in Keys, NEW i \in Indexes_, k \in toc[i].axes, HasEntry(i, k)
    PROVE  \E j \in Indexes_ : Lookup(k) = Entry(j, k) /\ Entry(i, k) <= Entry(j, k) /\ HasEntry(j, k)
<1> DEFINE hits == {h \in Indexes_ : MayContain(toc[h].axes, k) /\ HasEntry(h, k)}
<1>1. MayContain(toc[i].axes, k)
    BY DEF MayContain
<1>2. i \in hits
    BY <1>1
<1>3. Lookup(k) = Entry(Max(hits), k)
    BY <1>2 DEF Lookup
<1>4. Len(toc) \in Nat /\ hits \in SUBSET (1..Len(toc))
    BY DEF LsmTypes, Indexes_
<1>5. Max(hits) \in hits /\ \A h \in hits : h <= Max(hits)
  <2> HIDE DEF hits
  <2> QED
    BY <1>2, <1>4, MaxIsLast
<1>6. i <= Max(hits)
    BY <1>2, <1>5
<1> DEFINE j == Max(hits)
<1>7. j \in Indexes_ /\ HasEntry(j, k) /\ i <= j
    BY <1>5, <1>6
<1>8. Lookup(k) = Entry(j, k)
    BY <1>3
<1> HIDE DEF j
<1> QED
    BY <1>7, <1>8, LaterEntry

(* Without a hit there is no field. *)
LEMMA LookupIs ==
    ASSUME LsmTypes, NEW k \in Keys, Lookup(k) # 0
    PROVE  \E j \in Indexes_ : Lookup(k) = Entry(j, k)
<1> DEFINE hits == {h \in Indexes_ : MayContain(toc[h].axes, k) /\ HasEntry(h, k)}
<1>1. Lookup(k) = IF hits = {} THEN NoField ELSE Entry(Max(hits), k)
    BY DEF Lookup
<1>2. Len(toc) \in Nat /\ hits \in SUBSET (1..Len(toc))
    BY DEF LsmTypes, Indexes_
<1>3. hits # {}
    BY <1>1 DEF NoField
<1>4. Max(hits) \in hits
  <2> HIDE DEF hits
  <2> QED
    BY <1>2, <1>3, MaxIsLast
<1>5. Max(hits) \in Indexes_
    BY <1>4
<1>6. Lookup(k) = Entry(Max(hits), k)
    BY <1>1, <1>3
<1> QED
    BY <1>5, <1>6

----------------------------------------------------------------------------
(* Every step preserves LsmInv. *)

LEMMA InitInv ==
    ASSUME LsmInit
    PROVE  LsmInv
<1> USE DEF LsmInit
<1>1. MaxFields \in Nat /\ MaxProcesses \in Nat
    BY LsmAssumption
<1>2. \A f \in Files, s \in Sections, k \in Keys : stored[f][s][k] = 0
    BY DEF Empty, NoField
<1> DEFINE e == <<>>
<1>3. /\ e \in Seq(Keys \X Nat) /\ e \in Seq(IndexRecords \cup ClearRecords)
      /\ e \in Seq([key : Keys, path : Files]) /\ Len(e) = 0
    OBVIOUS
<1>4. log = e /\ toc = e /\ fields = e
    OBVIOUS
<1> HIDE DEF e
<1>5. \A i \in DOMAIN e : FALSE
    BY <1>3
<1>6. LsmTypes
  <2>1. stored \in [Files -> [Sections -> [Keys -> Nat]]]
    BY DEF Empty, NoField
  <2>2. run \in Nat /\ run <= MaxProcesses /\ section \in Nat /\ section <= Len(fields) /\ Len(fields) <= MaxFields
    BY <1>1, <1>3, <1>4
  <2> QED
    BY <1>3, <1>4, <2>1, <2>2 DEF LsmTypes
<1>7. EntriesAreFields
    BY <1>2, <1>4, <1>5 DEF EntriesAreFields
<1>8. LaterIsNewer
    BY <1>2, <1>4, <1>5 DEF LaterIsNewer
<1>9. TocInOrder
    BY <1>4, <1>5 DEF TocInOrder
<1>10. AxesHold
  <2>1. run \notin Files
    BY DEF Files
  <2> QED
    BY <1>4, <1>5, <2>1 DEF AxesHold
<1>11. DataFirst
  <2>1. \A i \in Indexes_ : FALSE
    BY <1>4, <1>5 DEF Indexes_
  <2> QED
    BY <2>1 DEF DataFirst
<1>12. FlushedAreCovered
    BY DEF FlushedAreCovered
<1> QED
    BY <1>6, <1>7, <1>8, <1>9, <1>10, <1>11, <1>12 DEF LsmInv

LEMMA OpenInv ==
    ASSUME LsmInv, LsmOpen
    PROVE  LsmInv'
<1> USE DEF LsmInv
<1>1. MaxFields \in Nat /\ MaxProcesses \in Nat
    BY LsmAssumption
<1>2. /\ step \in {"none", "dead"} /\ step' = "idle" /\ run' = run + 1 /\ run \in Nat /\ run < MaxProcesses
      /\ section' = 0 /\ axes_' = {} /\ dirty_' = FALSE
      /\ indexType' = indexType /\ stored' = stored /\ toc' = toc /\ fields' = fields
      /\ durable' = durable /\ flushed' = flushed /\ purged' = purged
    BY DEF LsmOpen, LsmTypes
<1> DEFINE e == <<>>
<1>3. e \in Seq(Keys \X Nat) /\ Len(e) = 0
    OBVIOUS
<1>4. log' = e
    BY DEF LsmOpen
<1> HIDE DEF e
<1>5. \A i \in DOMAIN e : FALSE
    BY <1>3
<1>6. run' \in Files /\ run' \in Nat /\ run < run'
    BY <1>1, <1>2 DEF Files
<1>7. Sectioned' = Sectioned
    BY <1>2 DEF Sectioned
<1>8. LsmTypes'
  <2>1. run' <= MaxProcesses /\ 0 <= Len(fields)
    BY <1>1, <1>2 DEF LsmTypes
  <2> QED
    BY <1>2, <1>3, <1>4, <1>6, <2>1 DEF LsmTypes, IndexRecords, ClearRecords
<1>9. EntriesAreFields'
  <2>1. \A n \in DOMAIN fields : fields[n].path \in Nat /\ fields[n].path <= run
    BY FieldIs
  <2>2. \A n \in DOMAIN fields : fields[n].path <= run'
    BY <1>2, <2>1
  <2> QED
    BY <1>2, <1>4, <1>5, <2>2 DEF EntriesAreFields, FieldAt
<1>10. LaterIsNewer'
  <2>1. ASSUME NEW f \in Files, NEW s \in Sections, NEW k \in Keys, f > run' \/ (f = run' /\ s > section')
        PROVE  stored[f][s][k] = 0
    <3>1. f > run
      BY <1>2, <1>6, <2>1 DEF Files
    <3> QED
      BY <3>1 DEF LaterIsNewer
  <2> QED
    BY <1>2, <1>4, <1>5, <2>1 DEF LaterIsNewer
<1>11. TocInOrder'
  <2>1. ASSUME NEW i \in DOMAIN toc PROVE toc[i].path < run'
    <3>1. toc[i].path \in Nat
      <4>1. toc[i] \in IndexRecords \cup ClearRecords
        BY DEF LsmTypes
      <4> QED
        BY <4>1 DEF IndexRecords, ClearRecords, Files
    <3>2. toc[i].path <= run
      BY <1>2, <3>1 DEF TocInOrder, Behind
    <3> QED
      BY <1>2, <3>1, <3>2
  <2> QED
    BY <1>2, <1>7, <2>1 DEF TocInOrder, Behind, Before
<1>12. AxesHold'
  <2>1. ASSUME NEW k \in Keys PROVE stored[run'][section'][k] = 0
    <3>1. run' > run /\ section' \in Sections
      BY <1>1, <1>2 DEF Sections
    <3> QED
      BY <1>6, <3>1 DEF LaterIsNewer
  <2> QED
    BY <1>2, <1>4, <1>5, <1>7, <2>1 DEF AxesHold
<1>13. Indexes_' = Indexes_
    BY <1>2 DEF Indexes_, Masked_
<1>14. DataFirst'
    BY <1>2, <1>7, <1>13 DEF DataFirst
<1>15. FlushedAreCovered'
  <2>1. \A n : Covered(n)' <=> Covered(n)
    BY <1>2, <1>13 DEF Covered
  <2>2. OfRun' = {}
    <3>1. \A n \in DOMAIN fields : fields[n].path # run'
      <4>1. \A n \in DOMAIN fields : fields[n].path \in Nat /\ fields[n].path <= run
        BY FieldIs
      <4> QED
        BY <1>2, <4>1
    <3> QED
      BY <1>2, <3>1 DEF OfRun
  <2> QED
    BY <1>2, <1>7, <2>1, <2>2 DEF FlushedAreCovered, Promised
<1> QED
    BY <1>8, <1>9, <1>10, <1>11, <1>12, <1>14, <1>15

LEMMA ArchiveInv ==
    ASSUME LsmInv, NEW k \in Keys, LsmArchive(k)
    PROVE  LsmInv'
<1> USE DEF LsmInv
<1>0. PICK n : n = Len(fields) + 1
    OBVIOUS
<1> DEFINE last == Len(log) + 1
           field == [key |-> k, path |-> run]
<1>1. /\ step = "idle" /\ step' = step /\ run \in Files /\ run' = run
      /\ Len(fields) < MaxFields /\ fields' = Append(fields, field)
      /\ axes_' = axes_ \cup {k} /\ log' = Append(log, <<k, n>>) /\ dirty_' = TRUE
      /\ indexType' = indexType /\ section' = section /\ stored' = stored /\ toc' = toc
      /\ durable' = durable /\ flushed' = flushed /\ purged' = purged
    BY <1>0 DEF LsmArchive, LsmTypes
<1>2. /\ MaxFields \in Nat /\ Len(fields) \in Nat /\ n = Len(fields) + 1 /\ n \in Nat /\ Len(log) \in Nat
      /\ fields \in Seq([key : Keys, path : Files]) /\ log \in Seq(Keys \X Nat)
      /\ DOMAIN fields = 1..Len(fields) /\ DOMAIN log = 1..Len(log)
    BY <1>0, LsmAssumption DEF LsmTypes
<1>3. field \in [key : Keys, path : Files]
    BY <1>1
<1>4. /\ fields' \in Seq([key : Keys, path : Files]) /\ Len(fields') = n
      /\ DOMAIN fields' = 1..n /\ fields'[n] = field
      /\ \A m \in DOMAIN fields : m \in DOMAIN fields' /\ fields'[m] = fields[m]
    BY <1>1, <1>2, <1>3
<1>5. /\ log' \in Seq(Keys \X Nat) /\ DOMAIN log' = 1..last /\ log'[last] = <<k, n>>
      /\ \A i \in DOMAIN log : log'[i] = log[i]
    BY <1>1, <1>2
<1>6. /\ \A m \in DOMAIN fields' : m \in DOMAIN fields \/ m = n
      /\ \A i \in DOMAIN log' : i \in DOMAIN log \/ i = last
      /\ \A m \in DOMAIN fields : m < n /\ m \in Nat
      /\ \A i \in DOMAIN log : i < last /\ i \in Nat
    BY <1>2, <1>4, <1>5, SMTT(30)
<1> HIDE DEF last, field
<1>7. \A m \in DOMAIN fields, q \in Keys, f \in Files : FieldAt(m, q, f) => FieldAt(m, q, f)'
    BY <1>4 DEF FieldAt
<1>8. Sectioned' = Sectioned /\ Indexes_' = Indexes_
    BY <1>1 DEF Sectioned, Indexes_, Masked_
<1>9. LsmTypes'
  <2>1. /\ run' \in Nat /\ run' <= MaxProcesses /\ run' \in Files
        /\ section' \in Nat /\ section' <= Len(fields') /\ section' < Len(fields')
        /\ (~Sectioned' => section' = 0) /\ Len(fields') <= MaxFields
    BY <1>1, <1>2, <1>4, <1>8 DEF LsmTypes
  <2>2. durable' \subseteq DOMAIN fields' /\ flushed' \subseteq DOMAIN fields' /\ axes_' \subseteq Keys
    BY <1>1, <1>4 DEF LsmTypes
  <2>3. stored' \in [Files -> [Sections -> [Keys -> Nat]]]' /\ toc' \in Seq(IndexRecords \cup ClearRecords)
    BY <1>1 DEF LsmTypes
  <2> QED
    BY <1>1, <1>4, <1>5, <2>1, <2>2, <2>3 DEF LsmTypes, IndexRecords, ClearRecords
<1>10. EntriesAreFields'
  <2>1. \A f \in Files, s \in Sections, q \in Keys :
            stored'[f][s][q] # 0 => FieldAt(stored[f][s][q], q, f)'
    <3>1. \A f \in Files, s \in Sections, q \in Keys :
            stored[f][s][q] # 0 => FieldAt(stored[f][s][q], q, f) /\ stored[f][s][q] \in DOMAIN fields
      BY DEF EntriesAreFields, FieldAt
    <3> QED
      BY <1>1, <3>1, <1>4 DEF FieldAt
  <2>2. ASSUME NEW i \in DOMAIN log' PROVE FieldAt(log[i][2], log[i][1], run)'
    <3>1. CASE i \in DOMAIN log
      <4>1. FieldAt(log[i][2], log[i][1], run)
        BY <3>1 DEF EntriesAreFields
      <4> QED
        BY <1>1, <1>4, <1>5, <3>1, <4>1 DEF FieldAt
    <3>2. CASE i = last
      BY <1>1, <1>4, <1>5, <1>2, <3>2 DEF FieldAt, field
    <3> QED
      BY <1>6, <3>1, <3>2
  <2>3. \A m \in DOMAIN fields' : fields'[m].path <= run'
    <3>1. run \in Nat /\ \A m \in DOMAIN fields : fields[m].path <= run
      BY FieldIs DEF LsmTypes
    <3>2. fields'[n].path = run
      BY <1>4 DEF field
    <3> QED
      BY <1>1, <1>4, <1>6, <3>1, <3>2
  <2>4. ASSUME NEW a \in DOMAIN fields', NEW b \in DOMAIN fields', a <= b
        PROVE  fields'[a].path <= fields'[b].path
    <3>1. CASE b = n
      BY <1>1, <1>4, <2>3, <3>1 DEF field
    <3>2. CASE b \in DOMAIN fields
      <4>1. a \in DOMAIN fields
        BY <1>2, <1>4, <2>4, <3>2
      <4> QED
        BY <1>4, <2>4, <3>2, <4>1 DEF EntriesAreFields
    <3> QED
      BY <1>6, <3>1, <3>2
  <2> QED
    BY <2>1, <2>2, <2>3, <2>4 DEF EntriesAreFields
<1>11. LaterIsNewer'
  <2>1. \A i \in DOMAIN log : log[i][2] < n
    BY <1>6 DEF EntriesAreFields, FieldAt
  <2>2. log'[last][2] = n
    BY <1>5
  <2>3. \A i, j \in DOMAIN log' : i < j => log'[i][2] < log'[j][2]
    <3> TAKE i, j \in DOMAIN log'
    <3>1. CASE i \in DOMAIN log /\ j \in DOMAIN log
      BY <1>5, <3>1 DEF LaterIsNewer
    <3>2. CASE i \in DOMAIN log /\ j = last
      BY <1>5, <2>1, <2>2, <3>2
    <3>3. CASE i = last
      BY <1>2, <1>5, <3>3 DEF last
    <3> QED
      BY <1>6, <3>1, <3>2, <3>3
  <2>4. ASSUME NEW s \in Sections, NEW q \in Keys PROVE stored[run][s][q] < n
    <3>1. CASE stored[run][s][q] = 0
      BY <1>2, <3>1
    <3>2. CASE stored[run][s][q] # 0
      <4>1. stored[run][s][q] \in DOMAIN fields
        BY <1>1, <3>2 DEF EntriesAreFields, FieldAt
      <4> QED
        BY <1>6, <4>1
    <3> QED
      BY <3>1, <3>2
  <2>5. \A i \in DOMAIN log', s \in Sections, q \in Keys : stored[run][s][q] < log'[i][2]
    <3> TAKE i \in DOMAIN log', s \in Sections, q \in Keys
    <3>1. CASE i \in DOMAIN log
      BY <1>5, <3>1 DEF LaterIsNewer
    <3>2. CASE i = last
      BY <2>2, <2>4, <3>2
    <3> QED
      BY <1>6, <3>1, <3>2
  <2> QED
    BY <1>1, <2>3, <2>5 DEF LaterIsNewer
<1>12. TocInOrder'
    BY <1>1, <1>8 DEF TocInOrder, Behind, Before
<1>13. AxesHold'
  <2>1. Sectioned => \A i \in DOMAIN log' : log'[i][1] \in axes_'
    <3>1. log'[last][1] = k
      BY <1>5
    <3> QED
      BY <1>1, <1>5, <1>6, <3>1 DEF AxesHold
  <2> QED
    BY <1>1, <1>8, <2>1 DEF AxesHold
<1>14. DataFirst'
    BY <1>1, <1>8 DEF DataFirst
<1>15. FlushedAreCovered'
  <2> SUFFICES ASSUME Promised PROVE FlushedAreCovered'
    BY <1>1, <1>8 DEF FlushedAreCovered, Promised
  <2>1. ASSUME NEW m \in DOMAIN fields, Covered(m) PROVE Covered(m)'
    BY <1>1, <1>4, <1>8, <2>1 DEF Covered
  <2>2. /\ section \in Sections /\ stored[run][section] \in [Keys -> Nat]
    BY <1>1, Current
  <2>3. /\ Entries(run, section)' = Applied(stored[run][section], Append(log, <<k, n>>))
        /\ Entries(run, section) = Applied(stored[run][section], log)
    BY <1>1 DEF Entries
  <2>4. /\ Entries(run, section)'[k] = n
        /\ \A q \in Keys \ {k} : Entries(run, section)'[q] = Entries(run, section)[q]
    <3>1. /\ Applied(stored[run][section], Append(log, <<k, n>>))[k] = n
          /\ \A q \in Keys \ {k} :
                Applied(stored[run][section], Append(log, <<k, n>>))[q] = Applied(stored[run][section], log)[q]
      <4>1. n \in Nat /\ log \in Seq(Keys \X Nat)
        BY <1>2
      <4>2. PICK ent \in [Keys -> Nat] : ent = stored[run][section]
        BY <2>2
      <4>3. Applied(ent, Append(log, <<k, n>>))[k] = n
        BY <4>1, AppliedNext, ZenonT(60)
      <4>4. ASSUME NEW q \in Keys \ {k}
            PROVE  Applied(ent, Append(log, <<k, n>>))[q] = Applied(ent, log)[q]
        BY <4>1, AppliedNext
      <4> QED
        BY <4>2, <4>3, <4>4
    <3> QED
      BY <2>3, <3>1
  <2>5. ASSUME NEW m \in DOMAIN fields, Pending(m) PROVE Pending(m)'
    <3>1. fields'[m] = fields[m] /\ fields[m].key \in Keys
      BY <1>4, FieldIs
    <3>2. CASE fields[m].key = k
      BY <1>1, <1>6, <2>4, <3>1, <3>2 DEF Pending
    <3>3. CASE fields[m].key # k
      BY <1>1, <2>4, <2>5, <3>1, <3>3 DEF Pending
    <3> QED
      BY <3>2, <3>3
  <2>6. Pending(n)'
    <3>1. fields'[n].key = k /\ n \in Nat
      BY <1>2, <1>4 DEF field
    <3> QED
      BY <1>1, <3>1, <2>4 DEF Pending
  <2>7. \A m \in OfRun' : m \in OfRun \/ m = n
    BY <1>1, <1>4, <1>6 DEF OfRun
  <2>8. \A m \in OfRun' : Covered(m)' \/ Pending(m)'
    <3> TAKE m \in OfRun'
    <3>1. CASE m \in OfRun
      <4>1. m \in DOMAIN fields /\ (Covered(m) \/ Pending(m))
        BY <1>1, <3>1 DEF FlushedAreCovered, OfRun
      <4> QED
        BY <2>1, <2>5, <4>1
    <3>2. CASE m = n
      BY <2>6, <3>2
    <3> QED
      BY <2>7, <3>1, <3>2
  <2>9. \A m \in flushed : Covered(m)'
    BY <2>1 DEF FlushedAreCovered, LsmTypes
  <2> QED
    BY <1>1, <2>8, <2>9 DEF FlushedAreCovered
<1> QED
    BY <1>9, <1>10, <1>11, <1>12, <1>13, <1>14, <1>15

LEMMA FlushInv ==
    ASSUME LsmInv, LsmFlush
    PROVE  LsmInv'
<1> USE DEF LsmInv
<1>1. /\ step = "idle" /\ dirty_ /\ step' = "sync" /\ durable' = durable \cup OfRun
      /\ indexType' = indexType /\ run' = run /\ section' = section /\ stored' = stored /\ log' = log
      /\ axes_' = axes_ /\ dirty_' = dirty_ /\ toc' = toc /\ fields' = fields
      /\ flushed' = flushed /\ purged' = purged
    BY DEF LsmFlush, OfRun
<1>2. Sectioned' = Sectioned /\ Indexes_' = Indexes_ /\ OfRun' = OfRun /\ OfRun \subseteq DOMAIN fields
    BY <1>1 DEF Sectioned, Indexes_, Masked_, OfRun
<1>3. LsmTypes'
    BY <1>1, <1>2 DEF LsmTypes, IndexRecords, ClearRecords
<1>4. EntriesAreFields'
    BY <1>1 DEF EntriesAreFields, FieldAt
<1>5. LaterIsNewer'
    BY <1>1 DEF LaterIsNewer
<1>6. TocInOrder'
    BY <1>1, <1>2 DEF TocInOrder, Behind, Before
<1>7. AxesHold'
    BY <1>1, <1>2 DEF AxesHold
<1>8. DataFirst'
    BY <1>1, <1>2 DEF DataFirst
<1>9. FlushedAreCovered'
  <2>1. \A n : Covered(n)' <=> Covered(n)
    BY <1>1, <1>2 DEF Covered
  <2>2. \A n : Pending(n)' <=> Pending(n)
    BY <1>1 DEF Pending, Entries
  <2> QED
    BY <1>1, <1>2, <2>1, <2>2 DEF FlushedAreCovered, Promised
<1> QED
    BY <1>3, <1>4, <1>5, <1>6, <1>7, <1>8, <1>9

LEMMA ReturnsInv ==
    ASSUME LsmInv, LsmFlushReturns
    PROVE  LsmInv'
<1> USE DEF LsmInv
<1>1. /\ step = "return" /\ step' = "idle" /\ flushed' = flushed \cup OfRun
      /\ indexType' = indexType /\ run' = run /\ section' = section /\ stored' = stored /\ log' = log
      /\ axes_' = axes_ /\ dirty_' = dirty_ /\ toc' = toc /\ fields' = fields
      /\ durable' = durable /\ purged' = purged
    BY DEF LsmFlushReturns, OfRun
<1>2. Sectioned' = Sectioned /\ Indexes_' = Indexes_ /\ OfRun' = OfRun /\ OfRun \subseteq DOMAIN fields
    BY <1>1 DEF Sectioned, Indexes_, Masked_, OfRun
<1>3. LsmTypes'
    BY <1>1, <1>2 DEF LsmTypes, IndexRecords, ClearRecords
<1>4. EntriesAreFields'
    BY <1>1 DEF EntriesAreFields, FieldAt
<1>5. LaterIsNewer'
    BY <1>1 DEF LaterIsNewer
<1>6. TocInOrder'
    BY <1>1, <1>2 DEF TocInOrder, Behind, Before
<1>7. AxesHold'
    BY <1>1, <1>2 DEF AxesHold
<1>8. DataFirst'
    BY <1>1, <1>2 DEF DataFirst
<1>9. FlushedAreCovered'
  <2>1. \A n : Covered(n)' <=> Covered(n)
    BY <1>1, <1>2 DEF Covered
  <2> QED
    BY <1>1, <1>2, <2>1 DEF FlushedAreCovered, Promised
<1> QED
    BY <1>3, <1>4, <1>5, <1>6, <1>7, <1>8, <1>9

(* par_sync and the death of the process save some of the log and empty it. *)
LEMMA SavingInv ==
    ASSUME LsmInv, run \in Files, step # "none",
           NEW puts \in Seq(Keys \X Nat), DOMAIN puts \subseteq DOMAIN log,
           \A i \in DOMAIN puts : puts[i] = log[i],
           stored' = Saved(puts), log' = <<>>, indexType' = indexType, run' = run, section' = section,
           axes_' = axes_, toc' = toc, fields' = fields, flushed' = flushed, purged' = purged
    PROVE  /\ stored' \in [Files -> [Sections -> [Keys -> Nat]]] /\ log' \in Seq(Keys \X Nat)
           /\ EntriesAreFields' /\ LaterIsNewer' /\ TocInOrder' /\ AxesHold'
           /\ \A n \in DOMAIN fields : Covered(n) => Covered(n)'
           /\ Sectioned => \A i \in Indexes_ :
                  stored'[toc[i].path][toc[i].offset] = stored[toc[i].path][toc[i].offset]
           /\ Indexes_' = Indexes_
<1> USE DEF LsmInv
<1>1. /\ stored' \in [Files -> [Sections -> [Keys -> Nat]]]
      /\ \A f \in Files, s \in Sections : f # run \/ s # section => stored'[f][s] = stored[f][s]
      /\ \A f \in Files, s \in Sections, k \in Keys : stored[f][s][k] <= stored'[f][s][k]
      /\ \A k \in Keys :
            \/ stored'[run][section][k] = stored[run][section][k]
            \/ \E i \in DOMAIN puts : puts[i][1] = k /\ stored'[run][section][k] = puts[i][2]
  <2>1. PICK st : st = Saved(puts)
    OBVIOUS
  <2>2. /\ st \in [Files -> [Sections -> [Keys -> Nat]]]
        /\ \A f \in Files, s \in Sections : f # run \/ s # section => st[f][s] = stored[f][s]
        /\ \A f \in Files, s \in Sections, k \in Keys : stored[f][s][k] <= st[f][s][k]
        /\ \A k \in Keys :
              \/ st[run][section][k] = stored[run][section][k]
              \/ \E i \in DOMAIN puts : puts[i][1] = k /\ st[run][section][k] = puts[i][2]
    <3>1. LsmTypes /\ EntriesAreFields /\ LaterIsNewer /\ run \in Files /\ puts \in Seq(Keys \X Nat)
          /\ DOMAIN puts \subseteq DOMAIN log /\ \A i \in DOMAIN puts : puts[i] = log[i]
      OBVIOUS
    <3>2. /\ Saved(puts) \in [Files -> [Sections -> [Keys -> Nat]]]
          /\ \A f \in Files, s \in Sections : f # run \/ s # section => Saved(puts)[f][s] = stored[f][s]
          /\ \A f \in Files, s \in Sections, k \in Keys : stored[f][s][k] <= Saved(puts)[f][s][k]
          /\ \A k \in Keys :
                \/ Saved(puts)[run][section][k] = stored[run][section][k]
                \/ \E i \in DOMAIN puts : puts[i][1] = k /\ Saved(puts)[run][section][k] = puts[i][2]
      BY <3>1, SavedIs, Zenon
    <3> QED
      BY <2>1, <3>2, Zenon
  <2>3. stored' = st
    BY <2>1
  <2> QED
    BY ONLY <2>2, <2>3
<1>2. /\ \A f \in Files, s \in Sections, k \in Keys :
            stored'[f][s][k] # 0 => FieldAt(stored[f][s][k]', k, f)
      /\ \A f \in Files, s, t \in Sections, k \in Keys :
            s < t /\ stored'[f][t][k] # 0 => stored'[f][s][k] < stored'[f][t][k]
      /\ \A f \in Files, s \in Sections, k \in Keys :
            f > run \/ (f = run /\ s > section) => stored'[f][s][k] = 0
    BY SavedAreFields
<1> DEFINE e == <<>>
<1>3. e \in Seq(Keys \X Nat) /\ Len(e) = 0 /\ log' = e
    OBVIOUS
<1> HIDE DEF e
<1>4. \A i \in DOMAIN log' : FALSE
    BY <1>3
<1>5. Sectioned' = Sectioned /\ Indexes_' = Indexes_
    BY DEF Sectioned, Indexes_, Masked_
<1>6. stored \in [Files -> [Sections -> [Keys -> Nat]]] /\ section \in Sections
    BY Current DEF LsmTypes
<1>7. EntriesAreFields'
  <2>1. \A f \in Files, s \in Sections, k \in Keys :
            stored'[f][s][k] # 0 => FieldAt(stored[f][s][k], k, f)'
    BY <1>2 DEF FieldAt
  <2> QED
    BY <1>4, <2>1 DEF EntriesAreFields
<1>8. LaterIsNewer'
    BY <1>2, <1>4 DEF LaterIsNewer
<1>9. TocInOrder'
    BY <1>5 DEF TocInOrder, Behind, Before
<1>10. ASSUME Sectioned, NEW i \in DOMAIN toc
       PROVE  stored'[toc[i].path][toc[i].offset] = stored[toc[i].path][toc[i].offset]
  <2>1. toc[i].path \in Files /\ toc[i].offset \in Sections
    <3>1. toc[i] \in IndexRecords \cup ClearRecords
      BY DEF LsmTypes
    <3> QED
      BY <3>1 DEF IndexRecords, ClearRecords
  <2>2. toc[i].path # run \/ toc[i].offset # section
    <3>1. toc[i].path < run \/ toc[i].offset < section
      BY <1>10 DEF TocInOrder, Behind
    <3>2. toc[i].path \in Nat /\ run \in Nat /\ toc[i].offset \in Nat /\ section \in Nat
      BY <2>1, <1>6 DEF Files, Sections
    <3> QED
      BY <3>1, <3>2
  <2> QED
    BY <1>1, <2>1, <2>2
<1>11. AxesHold'
  <2> SUFFICES ASSUME Sectioned PROVE AxesHold'
    BY <1>5 DEF AxesHold
  <2>1. ASSUME NEW k \in Keys, stored'[run][section][k] # 0 PROVE k \in axes_
    <3>1. CASE stored'[run][section][k] = stored[run][section][k]
      BY <2>1, <3>1 DEF AxesHold
    <3>2. CASE \E i \in DOMAIN puts : puts[i][1] = k
      BY <3>2 DEF AxesHold
    <3> QED
      BY <1>1, <3>1, <3>2
  <2>2. ASSUME NEW i \in DOMAIN toc, NEW k \in Keys,
               toc[i].tag = "TOC_INDEX", stored'[toc[i].path][toc[i].offset][k] # 0
        PROVE  k \in toc[i].axes
    <3>1. stored[toc[i].path][toc[i].offset][k] # 0
      BY <1>10, <2>2
    <3> QED
      BY <2>2, <3>1 DEF AxesHold
  <2> QED
    BY <1>4, <2>1, <2>2 DEF AxesHold
<1>12. ASSUME NEW n \in DOMAIN fields, Covered(n) PROVE Covered(n)'
  <2>1. PICK i \in Indexes_ :
            /\ fields[n].key \in toc[i].axes
            /\ stored[toc[i].path][toc[i].offset][fields[n].key] >= n
    BY <1>12 DEF Covered
  <2>0. PICK k, f, s : k = fields[n].key /\ f = toc[i].path /\ s = toc[i].offset
    OBVIOUS
  <2>2. k \in Keys /\ n \in Nat /\ f \in Files /\ s \in Sections
    BY <2>0, FieldIs, VisibleIs
  <2>3. stored[f][s][k] <= stored'[f][s][k] /\ stored[f][s][k] \in Nat /\ stored'[f][s][k] \in Nat
    BY <1>1, <1>6, <2>2
  <2>4. stored'[f][s][k] >= n
    BY <2>0, <2>1, <2>2, <2>3
  <2> QED
    BY <1>5, <2>0, <2>1, <2>4 DEF Covered
<1> QED
    BY <1>1, <1>3, <1>5, <1>7, <1>8, <1>9, <1>10, <1>11, <1>12, VisibleIs

LEMMA SyncInv ==
    ASSUME LsmInv, SyncIndex
    PROVE  LsmInv'
<1> USE DEF LsmInv
<1>1. /\ step = "sync" /\ step' = "record" /\ dirty_' = FALSE /\ run \in Files
      /\ stored' = Saved(log) /\ log' = <<>>
      /\ indexType' = indexType /\ run' = run /\ section' = section
      /\ axes_' = axes_ /\ toc' = toc /\ fields' = fields
      /\ durable' = durable /\ flushed' = flushed /\ purged' = purged
    BY DEF SyncIndex, Saved, LsmTypes
<1>2. log \in Seq(Keys \X Nat) /\ DOMAIN log \subseteq DOMAIN log /\ \A i \in DOMAIN log : log[i] = log[i]
    BY DEF LsmTypes
<1>3. step # "none"
    BY <1>1
<1>4. /\ stored' \in [Files -> [Sections -> [Keys -> Nat]]] /\ log' \in Seq(Keys \X Nat)
      /\ EntriesAreFields' /\ LaterIsNewer' /\ TocInOrder' /\ AxesHold'
      /\ \A n \in DOMAIN fields : Covered(n) => Covered(n)'
      /\ Sectioned => \A i \in Indexes_ :
             stored'[toc[i].path][toc[i].offset] = stored[toc[i].path][toc[i].offset]
      /\ Indexes_' = Indexes_
    BY <1>1, <1>2, <1>3, SavingInv
<1>5. Sectioned' = Sectioned /\ OfRun' = OfRun /\ OfRun \subseteq DOMAIN fields
    BY <1>1 DEF Sectioned, OfRun
<1>6. LsmTypes'
    BY <1>1, <1>4, <1>5 DEF LsmTypes, IndexRecords, ClearRecords
<1>7. DataFirst'
    BY <1>1, <1>4, <1>5 DEF DataFirst
<1>8. FlushedAreCovered'
  <2>1. Entries(run, section)' = Entries(run, section)
    <3>1. section \in Sections /\ stored[run][section] \in [Keys -> Nat]
      BY <1>1, Current
    <3>2. Entries(run, section) = Applied(stored[run][section], log)
      BY DEF Entries
    <3>3. Entries(run, section)' = Applied(stored'[run][section], <<>>)
      BY <1>1 DEF Entries
    <3>4. stored'[run][section] = Applied(stored[run][section], log)
      BY <1>1, <1>2, SavedIs
    <3>5. stored'[run][section] \in [Keys -> Nat]
      BY <1>1, <1>4, <3>1
    <3> QED
      BY <3>2, <3>3, <3>4, <3>5, AppliedNothing
  <2>2. \A n : Pending(n)' <=> Pending(n)
    BY <1>1, <2>1 DEF Pending
  <2>3. Promised' <=> Promised
    BY <1>1, <1>5 DEF Promised
  <2>4. flushed \subseteq DOMAIN fields
    BY DEF LsmTypes
  <2> QED
    BY <1>1, <1>4, <1>5, <2>2, <2>3, <2>4 DEF FlushedAreCovered
<1> QED
    BY <1>4, <1>6, <1>7, <1>8

LEMMA CrashInv ==
    ASSUME LsmInv, LsmCrash
    PROVE  LsmInv'
<1> USE DEF LsmInv
<1>1. PICK kept \in 0..Len(log) :
          stored' = [stored EXCEPT ![run][section] = Applied(@, SubSeq(log, 1, kept))]
    BY DEF LsmCrash
<1>2. PICK last \in 0..Len(fields) : durable' = durable \cup {n \in 1..last : fields[n].path = run}
    BY DEF LsmCrash
<1>3. /\ step \notin {"none", "dead"} /\ step' = "dead" /\ dirty_' = dirty_ /\ run \in Files
      /\ log' = <<>>
      /\ indexType' = indexType /\ run' = run /\ section' = section
      /\ axes_' = axes_ /\ toc' = toc /\ fields' = fields
      /\ flushed' = flushed /\ purged' = purged
    BY DEF LsmCrash, LsmTypes
<1>4. PICK puts : puts = SubSeq(log, 1, kept)
    OBVIOUS
<1>5. log \in Seq(Keys \X Nat) /\ DOMAIN log = 1..Len(log) /\ Len(log) \in Nat
    BY DEF LsmTypes
<1>6. /\ puts \in Seq(Keys \X Nat) /\ DOMAIN puts = 1..kept
      /\ \A i \in DOMAIN puts : puts[i] = log[i]
    BY <1>4, <1>5
<1>7. DOMAIN puts \subseteq DOMAIN log
    BY <1>5, <1>6
<1>8. stored' = Saved(puts) /\ step # "none"
    BY <1>1, <1>3, <1>4 DEF Saved
<1>9. /\ stored' \in [Files -> [Sections -> [Keys -> Nat]]] /\ log' \in Seq(Keys \X Nat)
      /\ EntriesAreFields' /\ LaterIsNewer' /\ TocInOrder' /\ AxesHold'
      /\ \A n \in DOMAIN fields : Covered(n) => Covered(n)'
      /\ Sectioned => \A i \in Indexes_ :
             stored'[toc[i].path][toc[i].offset] = stored[toc[i].path][toc[i].offset]
      /\ Indexes_' = Indexes_
    BY <1>3, <1>6, <1>7, <1>8, SavingInv
<1>10. Sectioned' = Sectioned
    BY <1>3 DEF Sectioned
<1>11. durable \subseteq durable' /\ durable' \subseteq DOMAIN fields
  <2>1. fields \in Seq([key : Keys, path : Files])
    BY DEF LsmTypes
  <2>2. DOMAIN fields = 1..Len(fields) /\ Len(fields) \in Nat
    BY <2>1
  <2>3. 1..last \subseteq DOMAIN fields
    BY <2>2
  <2> QED
    BY <1>2, <2>3 DEF LsmTypes
<1>12. LsmTypes'
    BY <1>3, <1>9, <1>10, <1>11 DEF LsmTypes, IndexRecords, ClearRecords
<1>13. DataFirst'
    BY <1>3, <1>9, <1>10, <1>11 DEF DataFirst
<1>14. FlushedAreCovered'
  <2>1. Promised' <=> Promised
    BY <1>3, <1>10 DEF Promised
  <2>2. flushed \subseteq DOMAIN fields
    BY DEF LsmTypes
  <2> QED
    BY <1>3, <1>9, <2>1, <2>2 DEF FlushedAreCovered
<1> QED
    BY <1>9, <1>12, <1>13, <1>14

(* A record of a place that was never in the toc hides nothing and is not   *)
(* masked.                                                                  *)
LEMMA RecordVisible ==
    ASSUME LsmTypes, TocInOrder, WriteRecord
    PROVE  /\ toc' \in Seq(IndexRecords \cup ClearRecords)
           /\ Len(toc') = Len(toc) + 1 /\ DOMAIN toc' = DOMAIN toc \cup {Len(toc) + 1}
           /\ \A i \in DOMAIN toc : toc'[i] = toc[i] /\ i < Len(toc) + 1
           /\ toc'[Len(toc) + 1] = [tag |-> "TOC_INDEX", path |-> run, offset |-> section, axes |-> axes_]
           /\ Promised => Indexes_' = Indexes_ \cup {Len(toc) + 1}
<1> DEFINE r == [tag |-> "TOC_INDEX", path |-> run, offset |-> section, axes |-> axes_]
<1>0. PICK l : l = Len(toc) + 1
    OBVIOUS
<1>1. toc \in Seq(IndexRecords \cup ClearRecords) /\ run \in Files
    BY DEF LsmTypes, WriteRecord
<1>2. Len(toc) \in Nat /\ l \in Nat /\ l = Len(toc) + 1 /\ DOMAIN toc = 1..Len(toc)
    BY <1>0, <1>1, LenProperties
<1>3. r \in IndexRecords
  <2>1. section \in Sections /\ axes_ \subseteq Keys
    BY <1>1, Current DEF LsmTypes
  <2> QED
    BY <1>1, <2>1 DEF IndexRecords
<1>4. toc' = Append(toc, r)
    BY DEF WriteRecord
<1>5. /\ toc' \in Seq(IndexRecords \cup ClearRecords) /\ Len(toc') = l
      /\ DOMAIN toc' = DOMAIN toc \cup {l} /\ toc'[l] = r
      /\ \A i \in DOMAIN toc : toc'[i] = toc[i] /\ i < l
  <2> HIDE DEF r
  <2>1. PICK R : R = IndexRecords \cup ClearRecords
    OBVIOUS
  <2>2. toc \in Seq(R) /\ r \in R
    BY <1>1, <1>3, <2>1
  <2>3. toc' \in Seq(R) /\ Len(toc') = Len(toc) + 1 /\ toc'[l] = r /\ \A i \in 1..Len(toc) : toc'[i] = toc[i]
    BY <1>2, <1>4, <2>2, AppendProperties
  <2>4. DOMAIN toc' = 1..l
    BY <1>2, <2>3, LenProperties
  <2> QED
    BY <1>2, <2>1, <2>3, <2>4
<1>6. ASSUME Promised PROVE Indexes_' = Indexes_ \cup {l}
  <2>0. r.tag = "TOC_INDEX" /\ r.path = run /\ r.offset = section
    OBVIOUS
  <2>1. ToSet(toc') = ToSet(toc) \cup {r}
    <3> HIDE DEF r
    <3> QED
      BY <1>5 DEF ToSet
  <2> HIDE DEF r
  <2>2. \A q : Masked_(q)' <=> Masked_(q)
    BY <2>0, <2>1 DEF Masked_
  <2>3. ~Masked_(r)
    <3>1. SUFFICES ASSUME NEW i \in DOMAIN toc, toc[i].tag = "TOC_CLEAR",
                          toc[i].path = run, toc[i].offset = section
                   PROVE  FALSE
      BY <2>0 DEF Masked_, ToSet
    <3>2. purged
      BY <3>1 DEF TocInOrder, LsmTypes
    <3>3. Sectioned
      BY <1>6, <3>2 DEF Promised
    <3>4. toc[i].path < run \/ toc[i].offset < section
      BY <3>3 DEF TocInOrder, Behind
    <3>5. run \in Nat /\ section \in Nat
      BY DEF LsmTypes
    <3> QED
      BY <3>1, <3>4, <3>5
  <2> QED
    BY <1>5, <2>0, <2>2, <2>3 DEF Indexes_
<1> QED
    BY <1>0, <1>5, <1>6

LEMMA RecordInv ==
    ASSUME LsmInv, WriteRecord
    PROVE  LsmInv'
<1> USE DEF LsmInv
<1>0. PICK l, new : l = Len(toc) + 1 /\ new = [tag |-> "TOC_INDEX", path |-> run, offset |-> section, axes |-> axes_]
    OBVIOUS
<1>1. /\ step = "record" /\ step' = "return" /\ run \in Files /\ section' = FileSize(run) /\ axes_' = {}
      /\ indexType' = indexType /\ run' = run /\ stored' = stored /\ log' = log
      /\ dirty_' = dirty_ /\ fields' = fields
      /\ durable' = durable /\ flushed' = flushed /\ purged' = purged
    BY DEF WriteRecord, LsmTypes
<1>2. /\ toc' \in Seq(IndexRecords \cup ClearRecords)
      /\ DOMAIN toc' = DOMAIN toc \cup {l}
      /\ \A i \in DOMAIN toc : toc'[i] = toc[i] /\ i < l
      /\ toc'[l] = new
      /\ Promised => Indexes_' = Indexes_ \cup {l}
    BY <1>0, RecordVisible
<1>3. Sectioned' = Sectioned /\ OfRun' = OfRun /\ OfRun \subseteq DOMAIN fields /\ (Promised' <=> Promised)
    BY <1>1 DEF Sectioned, OfRun, Promised
<1>4. /\ section \in Nat /\ (Sectioned => section' = section + 1) /\ (~Sectioned => section = 0 /\ section' = 0)
      /\ section' \in Nat /\ section' >= section /\ section \in Sections /\ section < Len(fields) /\ Len(fields) \in Nat
      /\ run \in Nat
  <2>1. section \in Nat /\ run \in Nat /\ section < Len(fields) /\ (~Sectioned => section = 0)
    BY <1>1 DEF LsmTypes
  <2>2. (Sectioned => section' = section + 1) /\ (~Sectioned => section' = 0)
    BY <1>1 DEF FileSize, Sectioned
  <2>3. Len(fields) \in Nat
    BY DEF LsmTypes
  <2> QED
    BY <1>1, <2>1, <2>2, <2>3, Current
<1>5. new.tag = "TOC_INDEX" /\ new.path = run /\ new.offset = section /\ new.axes = axes_
    BY <1>0
<1>6. log = <<>> /\ \A i \in DOMAIN log : FALSE
  <2>1. log = <<>> /\ log \in Seq(Keys \X Nat)
    BY <1>1 DEF LsmTypes
  <2>2. Len(log) = 0 /\ DOMAIN log = 1..Len(log)
    BY <2>1
  <2> QED
    BY <2>1, <2>2
<1>7. LsmTypes'
  <2>1. section' <= Len(fields)
    BY <1>4
  <2>2. run' \in Nat /\ run' <= MaxProcesses /\ run' \in Files /\ stored' \in [Files -> [Sections -> [Keys -> Nat]]]
    BY <1>1 DEF LsmTypes
  <2>3. /\ dirty_' \in BOOLEAN /\ purged' \in BOOLEAN /\ axes_' \subseteq Keys
        /\ durable' \subseteq DOMAIN fields /\ flushed' \subseteq DOMAIN fields
        /\ fields' \in Seq([key : Keys, path : Files]) /\ Len(fields) <= MaxFields
    BY <1>1 DEF LsmTypes
  <2>4. log' \in Seq(Keys \X Nat) /\ log' = <<>>
    BY <1>1, <1>6 DEF LsmTypes
  <2>5. dirty_' = FALSE
    BY <1>1 DEF LsmTypes
  <2> QED
    BY <1>1, <1>2, <1>3, <1>4, <2>1, <2>2, <2>3, <2>4, <2>5 DEF LsmTypes, IndexRecords, ClearRecords
<1>8. EntriesAreFields'
    BY <1>1 DEF EntriesAreFields, FieldAt
<1>9. LaterIsNewer'
  <2>1. \A f \in Files, s \in Sections, k \in Keys :
            f > run \/ (f = run /\ s > section') => stored[f][s][k] = 0
    <3>1. \A s \in Sections : s > section' => s > section
      BY <1>4 DEF Sections
    <3> QED
      BY <3>1 DEF LaterIsNewer
  <2> QED
    BY <1>1, <1>6, <2>1 DEF LaterIsNewer
<1>10. TocInOrder'
  <2>1. ASSUME NEW i \in DOMAIN toc
        PROVE  Behind(toc[i])' /\ (toc[i].path < run \/ (toc[i].path = run /\ (Sectioned => toc[i].offset < section)))
    <3>1. toc[i].path < run \/ (toc[i].path = run /\ (Sectioned => toc[i].offset < section))
      BY DEF TocInOrder, Behind
    <3>2. toc[i].offset \in Nat
      <4>1. toc[i] \in IndexRecords \cup ClearRecords
        BY DEF LsmTypes
      <4> QED
        BY <4>1 DEF IndexRecords, ClearRecords, Sections
    <3>3. Sectioned /\ toc[i].offset < section => toc[i].offset < section'
      BY <1>4, <3>2
    <3>4. toc'[i] = toc[i]
      BY <1>2
    <3> QED
      BY <1>1, <1>3, <3>1, <3>3, <3>4 DEF Behind
  <2>2. ASSUME NEW i \in DOMAIN toc' PROVE Behind(toc[i])'
    <3>1. CASE i \in DOMAIN toc
      BY <2>1, <3>1
    <3>2. CASE i = l
      <4>1. toc'[i].path = run /\ toc'[i].offset = section /\ (Sectioned => section < section')
        BY <1>2, <1>4, <1>5, <3>2
      <4> QED
        BY <1>1, <1>3, <4>1 DEF Behind
    <3> QED
      BY <1>2, <3>1, <3>2
  <2>3. \A i \in DOMAIN toc' : ~Sectioned => toc'[i].offset = 0
    BY <1>2, <1>4, <1>5 DEF TocInOrder
  <2>4. \A i, j \in DOMAIN toc' :
            i < j /\ toc'[i].tag = "TOC_INDEX" /\ toc'[j].tag = "TOC_INDEX" => Before(toc[i], toc[j])'
    <3> SUFFICES ASSUME NEW i \in DOMAIN toc', NEW j \in DOMAIN toc', i < j,
                        toc'[i].tag = "TOC_INDEX", toc'[j].tag = "TOC_INDEX"
                 PROVE  Before(toc[i], toc[j])'
      OBVIOUS
    <3>1. i \in DOMAIN toc
      <4>1. i # l
        <5>1. l \in Nat /\ DOMAIN toc \subseteq Nat
          <6>1. toc \in Seq(IndexRecords \cup ClearRecords)
            BY DEF LsmTypes
          <6>2. Len(toc) \in Nat /\ DOMAIN toc = 1..Len(toc)
            BY <6>1, LenProperties
          <6> QED
            BY <1>0, <6>2
        <5>2. j = l \/ j < l
          BY <1>2
        <5> QED
          BY <1>2, <5>1, <5>2
      <4> QED
        BY <1>2, <4>1
    <3>2. toc'[i] = toc[i]
      BY <1>2, <3>1
    <3>3. CASE j \in DOMAIN toc
      <4>1. Before(toc[i], toc[j]) /\ toc'[j] = toc[j]
        BY <1>2, <3>1, <3>2, <3>3 DEF TocInOrder
      <4> QED
        BY <1>3, <3>2, <4>1 DEF Before
    <3>4. CASE j = l
      <4>1. toc[i].path < run \/ (toc[i].path = run /\ (Sectioned => toc[i].offset < section))
        BY <2>1, <3>1
      <4>2. toc'[j].path = run /\ toc'[j].offset = section
        BY <1>2, <1>5, <3>4
      <4> QED
        BY <1>3, <3>2, <4>1, <4>2 DEF Before
    <3> QED
      BY <1>2, <3>3, <3>4
  <2>5. ~purged => \A i \in DOMAIN toc' : toc'[i].tag = "TOC_INDEX"
    BY <1>2, <1>5 DEF TocInOrder
  <2> QED
    BY <1>1, <1>3, <2>2, <2>3, <2>4, <2>5 DEF TocInOrder
<1>11. AxesHold'
  <2> SUFFICES ASSUME Sectioned PROVE AxesHold'
    BY <1>3 DEF AxesHold
  <2>1. ASSUME NEW k \in Keys PROVE stored[run][section'][k] = 0
    <3>1. section' > section /\ section' \in Sections
      <4>1. section' \in Nat /\ section' <= Len(fields) /\ Len(fields) <= MaxFields /\ MaxFields \in Nat
        BY <1>4, LsmAssumption DEF LsmTypes
      <4> QED
        BY <1>4, <4>1 DEF Sections
    <3> QED
      BY <1>1, <3>1 DEF LaterIsNewer
  <2>2. ASSUME NEW i \in DOMAIN toc', NEW k \in Keys, toc'[i].tag = "TOC_INDEX",
               stored[toc'[i].path][toc'[i].offset][k] # 0
        PROVE  k \in toc'[i].axes
    <3>1. CASE i \in DOMAIN toc
      BY <1>2, <2>2, <3>1 DEF AxesHold
    <3>2. CASE i = l
      BY <1>1, <1>2, <1>5, <2>2, <3>2 DEF AxesHold
    <3> QED
      BY <1>2, <3>1, <3>2
  <2> QED
    BY <1>1, <1>3, <1>6, <2>1, <2>2 DEF AxesHold
<1>12. DataFirst'
  <2>1. ASSUME Sectioned, NEW i \in Indexes_', NEW k \in Keys, stored[toc'[i].path][toc'[i].offset][k] # 0
        PROVE  stored[toc'[i].path][toc'[i].offset][k] \in durable
    <3>1. i \in Indexes_ \/ i = l
      BY <1>2, <2>1 DEF Promised
    <3>2. CASE i \in Indexes_
      <4>1. toc'[i] = toc[i]
        BY <1>2, <3>2, VisibleIs
      <4> QED
        BY <2>1, <3>2, <4>1 DEF DataFirst
    <3>3. CASE i = l
      <4>1. FieldAt(stored[run][section][k], k, run)
        BY <1>1, <1>2, <1>4, <1>5, <2>1, <3>3 DEF EntriesAreFields
      <4>2. stored[run][section][k] \in OfRun
        BY <4>1 DEF FieldAt, OfRun
      <4> QED
        BY <1>1, <1>2, <1>5, <3>3, <4>2 DEF DataFirst
    <3> QED
      BY <3>1, <3>2, <3>3
  <2> QED
    BY <1>1, <1>3, <2>1 DEF DataFirst
<1>13. FlushedAreCovered'
  <2> SUFFICES ASSUME Promised PROVE FlushedAreCovered'
    BY <1>3 DEF FlushedAreCovered
  <2>1. Indexes_' = Indexes_ \cup {l}
    BY <1>2
  <2>2. ASSUME NEW n \in DOMAIN fields, Covered(n) PROVE Covered(n)'
    <3>1. PICK i \in Indexes_ :
              /\ fields[n].key \in toc[i].axes
              /\ stored[toc[i].path][toc[i].offset][fields[n].key] >= n
      BY <2>2 DEF Covered
    <3>2. i \in Indexes_' /\ toc'[i] = toc[i]
      BY <1>2, <2>1, VisibleIs
    <3> QED
      BY <1>1, <3>1, <3>2 DEF Covered
  <2>3. ASSUME NEW n \in DOMAIN fields, Pending(n) PROVE Covered(n)'
    <3>1. Entries(run, section) = stored[run][section]
      <4>1. Entries(run, section) = Applied(stored[run][section], <<>>)
        BY <1>6 DEF Entries
      <4>2. stored[run][section] \in [Keys -> Nat]
        BY <1>1, Current
      <4> QED
        BY <4>1, <4>2, AppliedNothing
    <3>2. fields[n].key \in axes_ /\ stored[run][section][fields[n].key] >= n
      BY <2>3, <3>1 DEF Pending
    <3>3. l \in Indexes_' /\ toc'[l].path = run /\ toc'[l].offset = section /\ toc'[l].axes = axes_
      BY <1>2, <1>5, <2>1
    <3> QED
      BY <1>1, <3>2, <3>3 DEF Covered
  <2>4. \A n \in flushed : Covered(n)'
    BY <2>2 DEF FlushedAreCovered, LsmTypes
  <2>5. \A n \in OfRun : Covered(n)'
    BY <1>1, <1>3, <2>2, <2>3 DEF FlushedAreCovered
  <2> QED
    BY <1>1, <1>3, <2>4, <2>5 DEF FlushedAreCovered
<1> QED
    BY <1>7, <1>8, <1>9, <1>10, <1>11, <1>12, <1>13

----------------------------------------------------------------------------
(* A purge. *)

Duplicates == {i \in Indexes_ : WhollyDuplicate(i)}
Clear(i) == [tag |-> "TOC_CLEAR", path |-> toc[i].path, offset |-> toc[i].offset]
Clears == {Clear(i) : i \in Duplicates}

(* The records of a purge are the clears, all of them. *)
LEMMA PurgeToc ==
    ASSUME LsmTypes, TocInOrder, LsmPurge
    PROVE  /\ toc' \in Seq(IndexRecords \cup ClearRecords) /\ DOMAIN toc \subseteq DOMAIN toc'
           /\ \A i \in DOMAIN toc : toc'[i] = toc[i]
           /\ \A i \in DOMAIN toc' \ DOMAIN toc : toc'[i] \in Clears
           /\ \A c \in Clears : \E i \in DOMAIN toc' : toc'[i] = c
           /\ Clears \subseteq ClearRecords
<1>1. toc' = toc \o SetToSeq(Clears)
    BY DEF LsmPurge, Clears, Clear, Duplicates
<1>2. PICK R : R = IndexRecords \cup ClearRecords
    OBVIOUS
<1>3. toc \in Seq(R) /\ Len(toc) \in Nat /\ DOMAIN toc = 1..Len(toc)
    BY <1>2, LenProperties DEF LsmTypes
<1>4. \A i \in Duplicates : i \in Indexes_ /\ i \in DOMAIN toc
    BY <1>3 DEF Duplicates, Indexes_
<1>5. Clears \subseteq ClearRecords
    BY <1>4, VisibleIs DEF Clears, Clear, ClearRecords
<1>6. IsFiniteSet(Clears)
  <2>1. IsFiniteSet(1..Len(toc))
    BY <1>3, FS_Interval
  <2>2. IsFiniteSet(Duplicates)
    BY <1>3, <1>4, <2>1, FS_Subset
  <2> DEFINE f == [i \in Duplicates |-> Clear(i)]
  <2>3. f \in Surjection(Duplicates, Clears)
    BY DEF Surjection, Clears
  <2> QED
    BY <2>2, <2>3, FS_Surjection
<1> DEFINE c == SetToSeq(Clears)
           m == Cardinality(Clears)
<1>7. m \in Nat /\ c \in [1..m -> Clears]
    BY <1>6, SetToSeqType
<1>8. \A x \in Clears : \E i \in 1..m : c[i] = x
    BY <1>6, SetToSeqOnto
<1> HIDE DEF c, m
<1>9. c \in Seq(R) /\ Len(c) = m
  <2>1. c \in [1..m -> R]
    BY <1>2, <1>5, <1>7
  <2> QED
    BY <1>7, <2>1
<1>10. /\ toc' \in Seq(R) /\ Len(toc') = Len(toc) + m
       /\ \A i \in 1..(Len(toc) + m) : toc'[i] = IF i <= Len(toc) THEN toc[i] ELSE c[i - Len(toc)]
  <2>1. toc' = toc \o c
    BY <1>1 DEF c
  <2> QED
    BY <1>3, <1>9, <2>1, ConcatProperties
<1>11. DOMAIN toc' = 1..(Len(toc) + m)
    BY <1>10, LenProperties
<1>12. DOMAIN toc \subseteq DOMAIN toc' /\ \A i \in DOMAIN toc : toc'[i] = toc[i]
    BY <1>3, <1>7, <1>10, <1>11
<1>13. ASSUME NEW i \in DOMAIN toc' \ DOMAIN toc PROVE toc'[i] \in Clears
  <2>1. i - Len(toc) \in 1..m /\ toc'[i] = c[i - Len(toc)]
    BY <1>3, <1>7, <1>10, <1>11
  <2> QED
    BY <1>7, <2>1
<1>14. ASSUME NEW x \in Clears PROVE \E i \in DOMAIN toc' : toc'[i] = x
  <2>1. PICK j \in 1..m : c[j] = x
    BY <1>8
  <2>2. Len(toc) + j \in DOMAIN toc' /\ toc'[Len(toc) + j] = c[(Len(toc) + j) - Len(toc)]
    BY <1>3, <1>7, <1>10, <1>11
  <2>3. (Len(toc) + j) - Len(toc) = j
    BY <1>3
  <2> QED
    BY <2>1, <2>2, <2>3
<1> QED
    BY <1>2, <1>5, <1>10, <1>12, <1>13, <1>14

(* In sections a purge hides the duplicates and nothing else: two visible   *)
(* indexes never are in one place.                                          *)
LEMMA PurgeVisible ==
    ASSUME LsmTypes, TocInOrder, LsmPurge, Sectioned
    PROVE  Indexes_' = {i \in Indexes_ : ~WhollyDuplicate(i)}
<1>1. /\ DOMAIN toc \subseteq DOMAIN toc' /\ \A i \in DOMAIN toc : toc'[i] = toc[i]
      /\ \A i \in DOMAIN toc' \ DOMAIN toc : toc'[i] \in Clears
      /\ \A c \in Clears : \E i \in DOMAIN toc' : toc'[i] = c
    BY PurgeToc
<1>2. \A c \in Clears : c.tag = "TOC_CLEAR"
    BY DEF Clears, Clear
<1>3. ASSUME NEW i \in Indexes_' PROVE i \in Indexes_ /\ ~WhollyDuplicate(i)
  <2>1. i \in DOMAIN toc' /\ toc'[i].tag = "TOC_INDEX" /\ ~Masked_(toc[i])'
    BY <1>3 DEF Indexes_
  <2>2. i \in DOMAIN toc /\ toc'[i] = toc[i]
    BY <1>1, <1>2, <2>1
  <2>3. \A j \in DOMAIN toc' : ~(toc'[j].tag = "TOC_CLEAR" /\ toc'[j].path = toc[i].path /\ toc'[j].offset = toc[i].offset)
    BY <2>1, <2>2 DEF Masked_, ToSet
  <2>4. ~Masked_(toc[i])
    BY <1>1, <2>3 DEF Masked_, ToSet
  <2>5. i \in Indexes_
    BY <2>1, <2>2, <2>4 DEF Indexes_
  <2>6. ASSUME WhollyDuplicate(i) PROVE FALSE
    <3>1. Clear(i) \in Clears
      BY <2>5, <2>6 DEF Clears, Duplicates
    <3>2. PICK j \in DOMAIN toc' : toc'[j] = Clear(i)
      BY <1>1, <3>1
    <3>3. toc'[j].tag = "TOC_CLEAR" /\ toc'[j].path = toc[i].path /\ toc'[j].offset = toc[i].offset
      BY <3>2 DEF Clear
    <3> QED
      BY <2>3, <3>3
  <2> QED
    BY <2>5, <2>6
<1>4. ASSUME NEW i \in Indexes_, ~WhollyDuplicate(i) PROVE i \in Indexes_'
  <2>1. i \in DOMAIN toc /\ toc[i].tag = "TOC_INDEX" /\ ~Masked_(toc[i]) /\ i \in DOMAIN toc' /\ toc'[i] = toc[i]
    BY <1>1 DEF Indexes_
  <2>2. ASSUME NEW j \in DOMAIN toc', toc'[j].tag = "TOC_CLEAR",
               toc'[j].path = toc[i].path, toc'[j].offset = toc[i].offset
        PROVE  FALSE
    <3>1. CASE j \in DOMAIN toc
      BY <1>1, <2>1, <2>2, <3>1 DEF Masked_, ToSet
    <3>2. CASE j \notin DOMAIN toc
      <4>1. PICK d \in Duplicates : toc'[j] = Clear(d)
        BY <1>1, <3>2 DEF Clears
      <4>2. d \in Indexes_ /\ WhollyDuplicate(d) /\ d # i
        BY <1>4, <4>1 DEF Duplicates
      <4>3. toc[d].path = toc[i].path /\ toc[d].offset = toc[i].offset
        BY <2>2, <4>1 DEF Clear
      <4>4. /\ i \in DOMAIN toc /\ d \in DOMAIN toc /\ i \in Nat /\ d \in Nat
            /\ toc[i].tag = "TOC_INDEX" /\ toc[d].tag = "TOC_INDEX"
            /\ toc[i].path \in Nat /\ toc[i].offset \in Nat
        BY <4>2, VisibleIs DEF IndexRecords, Files, Sections
      <4>5. Before(toc[i], toc[d]) \/ Before(toc[d], toc[i])
        <5>1. i < d \/ d < i
          BY <4>2, <4>4
        <5> QED
          BY <4>4, <5>1 DEF TocInOrder
      <4> QED
        BY <4>3, <4>4, <4>5 DEF Before
    <3> QED
      BY <3>1, <3>2
  <2>3. ~Masked_(toc[i])'
    BY <2>1, <2>2 DEF Masked_, ToSet
  <2> QED
    BY <2>1, <2>3 DEF Indexes_
<1> QED
    BY <1>3, <1>4

(* The last visible index that has a key stays. *)
LEMMA LastHitStays ==
    ASSUME LsmTypes, NEW k \in Keys, NEW i \in Indexes_, HasEntry(i, k)
    PROVE  \E j \in Indexes_ : i <= j /\ FirstGivenBy(j, k) /\ ~WhollyDuplicate(j)
<1> DEFINE hits == {h \in Indexes_ : HasEntry(h, k)}
<1>1. Len(toc) \in Nat /\ hits \in SUBSET (1..Len(toc)) /\ i \in hits
    BY DEF LsmTypes, Indexes_
<1>2. PICK j \in hits : \A h \in hits : h <= j
  <2> HIDE DEF hits
  <2>1. Max(hits) \in hits /\ \A h \in hits : h <= Max(hits)
    BY <1>1, MaxIsLast
  <2> QED
    BY <2>1
<1>3. FirstGivenBy(j, k)
  <2>1. ASSUME NEW h \in Indexes_, h > j PROVE ~HasEntry(h, k)
    <3>1. h \notin hits
      <4>1. j \in Nat /\ h \in Nat
        BY <1>1 DEF Indexes_, LsmTypes
      <4> QED
        BY <1>2, <2>1, <4>1
    <3> QED
      BY <3>1
  <2> QED
    BY <1>2, <2>1 DEF FirstGivenBy
<1>4. ~WhollyDuplicate(j)
    BY <1>3 DEF WhollyDuplicate
<1> QED
    BY <1>1, <1>2, <1>3, <1>4

LEMMA PurgeInv ==
    ASSUME LsmInv, LsmPurge
    PROVE  LsmInv'
<1> USE DEF LsmInv
<1> DEFINE unused == {r.path : r \in {q \in ToSet(toc) : ~Used(q.path)}}
<1>1. /\ step \in {"idle", "dead"} /\ step' = step /\ purged' = TRUE
      /\ indexType' = indexType /\ run' = run /\ section' = section /\ stored' = stored /\ log' = log
      /\ axes_' = axes_ /\ dirty_' = dirty_ /\ fields' = fields /\ flushed' = flushed
      /\ durable' = {n \in durable : fields[n].path \notin unused}
    BY DEF LsmPurge
<1> HIDE DEF unused
<1>2. /\ toc' \in Seq(IndexRecords \cup ClearRecords) /\ DOMAIN toc \subseteq DOMAIN toc'
      /\ \A i \in DOMAIN toc : toc'[i] = toc[i]
      /\ \A i \in DOMAIN toc' \ DOMAIN toc : toc'[i] \in Clears
      /\ Clears \subseteq ClearRecords
    BY PurgeToc
<1>3. Sectioned' = Sectioned /\ OfRun' = OfRun /\ OfRun \subseteq DOMAIN fields
    BY <1>1 DEF Sectioned, OfRun
<1>4. Sectioned => Indexes_' = {i \in Indexes_ : ~WhollyDuplicate(i)}
    BY PurgeVisible
<1>5. \A c \in Clears : \E i \in Indexes_ : c.path = toc[i].path /\ c.offset = toc[i].offset /\ c.tag = "TOC_CLEAR"
    BY DEF Clears, Clear, Duplicates
<1>6. LsmTypes'
  <2>1. durable' \subseteq DOMAIN fields
    BY <1>1 DEF LsmTypes
  <2> QED
    BY <1>1, <1>2, <1>3, <2>1 DEF LsmTypes, IndexRecords, ClearRecords
<1>7. EntriesAreFields'
    BY <1>1 DEF EntriesAreFields, FieldAt
<1>8. LaterIsNewer'
    BY <1>1 DEF LaterIsNewer
<1>9. TocInOrder'
  <2>1. ASSUME NEW i \in DOMAIN toc' PROVE Behind(toc[i])' /\ (~Sectioned => toc'[i].offset = 0)
    <3>1. CASE i \in DOMAIN toc
      BY <1>1, <1>2, <1>3, <3>1 DEF TocInOrder, Behind
    <3>2. CASE i \notin DOMAIN toc
      <4>1. PICK j \in Indexes_ : toc'[i].path = toc[j].path /\ toc'[i].offset = toc[j].offset
        BY <1>2, <1>5, <3>2
      <4>2. Behind(toc[j]) /\ (~Sectioned => toc[j].offset = 0)
        BY VisibleIs
      <4> QED
        BY <1>1, <1>3, <4>1, <4>2 DEF Behind
    <3> QED
      BY <3>1, <3>2
  <2>2. \A i \in DOMAIN toc' : toc'[i].tag = "TOC_INDEX" => i \in DOMAIN toc /\ toc'[i] = toc[i]
    BY <1>2, <1>5
  <2>3. ASSUME NEW i \in DOMAIN toc', NEW j \in DOMAIN toc', i < j,
               toc'[i].tag = "TOC_INDEX", toc'[j].tag = "TOC_INDEX"
        PROVE  Before(toc[i], toc[j])'
    <3>1. Before(toc[i], toc[j])
      BY <2>2, <2>3 DEF TocInOrder
    <3> QED
      BY <1>3, <2>2, <2>3, <3>1 DEF Before
  <2> QED
    BY <1>1, <1>3, <2>1, <2>3 DEF TocInOrder
<1>10. AxesHold'
  <2>1. \A i \in DOMAIN toc' : toc'[i].tag = "TOC_INDEX" => i \in DOMAIN toc /\ toc'[i] = toc[i]
    BY <1>2, <1>5
  <2> QED
    BY <1>1, <1>3, <2>1, SMTT(30) DEF AxesHold
<1>11. DataFirst'
  <2>1. ASSUME Sectioned, NEW i \in Indexes_', NEW k \in Keys, stored[toc'[i].path][toc'[i].offset][k] # 0
        PROVE  stored[toc'[i].path][toc'[i].offset][k] \in durable'
    <3>1. i \in Indexes_ /\ ~WhollyDuplicate(i)
      BY <1>4, <2>1
    <3>2. i \in DOMAIN toc /\ toc'[i] = toc[i] /\ toc[i].path \in Files /\ toc[i].offset \in Sections
      BY <1>2, <3>1, VisibleIs
    <3>3. PICK n : n = stored[toc[i].path][toc[i].offset][k]
      OBVIOUS
    <3>4. n \in durable /\ n # 0
      BY <2>1, <3>1, <3>2, <3>3 DEF DataFirst
    <3>5. FieldAt(n, k, toc[i].path)
      BY <3>2, <3>3, <3>4 DEF EntriesAreFields
    <3>6. HasEntry(i, k)
      <4>1. Entry(i, k) = n
        BY <2>1, <3>1, <3>3, EntryIs
      <4> QED
        BY <3>4, <4>1 DEF HasEntry, NoField
    <3>7. Used(toc[i].path)
      <4>1. PICK q \in Keys : FirstGivenBy(i, q)
        BY <3>1, <3>6 DEF WhollyDuplicate
      <4> QED
        BY <3>1, <4>1 DEF Used
    <3>8. toc[i].path \notin unused
      BY <3>7 DEF unused
    <3> QED
      BY <1>1, <3>2, <3>3, <3>4, <3>5, <3>8 DEF FieldAt
  <2> QED
    BY <1>1, <1>3, <2>1 DEF DataFirst
<1>12. FlushedAreCovered'
  <2> SUFFICES ASSUME Sectioned PROVE FlushedAreCovered'
    BY <1>1, <1>3 DEF FlushedAreCovered, Promised
  <2>0. Promised
    BY DEF Promised
  <2>1. ASSUME NEW n \in DOMAIN fields, Covered(n) PROVE Covered(n)'
    <3>1. PICK i \in Indexes_ :
              /\ fields[n].key \in toc[i].axes
              /\ stored[toc[i].path][toc[i].offset][fields[n].key] >= n
      BY <2>1 DEF Covered
    <3>2. PICK k \in Keys : k = fields[n].key
      BY FieldIs
    <3>3. n \in Nat /\ n # 0
      <4>1. fields \in Seq([key : Keys, path : Files])
        BY DEF LsmTypes
      <4>2. Len(fields) \in Nat /\ DOMAIN fields = 1..Len(fields)
        BY <4>1, LenProperties
      <4> QED
        BY <4>2
    <3>4. Entry(i, k) = stored[toc[i].path][toc[i].offset][k] /\ Entry(i, k) \in Nat
      BY EntryIs
    <3>5. Entry(i, k) >= n /\ HasEntry(i, k)
      BY <3>1, <3>2, <3>3, <3>4 DEF HasEntry, NoField
    <3>6. PICK j \in Indexes_ : i <= j /\ FirstGivenBy(j, k) /\ ~WhollyDuplicate(j)
      BY <3>5, LastHitStays
    <3>7. HasEntry(j, k)
      BY <3>6 DEF FirstGivenBy
    <3>8. Entry(i, k) <= Entry(j, k) /\ Entry(j, k) \in Nat /\ Entry(j, k) = stored[toc[j].path][toc[j].offset][k]
      BY <3>6, <3>7, EntryIs, LaterEntry
    <3>9. j \in Indexes_' /\ toc'[j] = toc[j] /\ j \in DOMAIN toc /\ toc[j].tag = "TOC_INDEX"
      BY <1>2, <1>4, <3>6, VisibleIs DEF Indexes_
    <3>10. k \in toc[j].axes
      BY <3>7, <3>8, <3>9 DEF AxesHold, HasEntry, NoField
    <3>11. stored[toc[j].path][toc[j].offset][k] >= n
      BY <3>3, <3>4, <3>5, <3>8
    <3> QED
      BY <1>1, <3>2, <3>9, <3>10, <3>11 DEF Covered
  <2>2. \A n : Pending(n)' <=> Pending(n)
    BY <1>1 DEF Pending, Entries
  <2>3. flushed \subseteq DOMAIN fields
    BY DEF LsmTypes
  <2> QED
    BY <1>1, <1>3, <2>0, <2>1, <2>2, <2>3 DEF FlushedAreCovered
<1> QED
    BY <1>6, <1>7, <1>8, <1>9, <1>10, <1>11, <1>12

----------------------------------------------------------------------------
(* The invariant implies what is promised, in every behaviour.              *)

LEMMA UnchangedInv ==
    ASSUME LsmInv, UNCHANGED lsmvars
    PROVE  LsmInv'
<1> USE DEF lsmvars
<1>1. Sectioned' = Sectioned /\ Indexes_' = Indexes_ /\ OfRun' = OfRun
    BY DEF Sectioned, Indexes_, Masked_, OfRun
<1>2. LsmTypes' /\ EntriesAreFields' /\ LaterIsNewer' /\ TocInOrder' /\ AxesHold'
    BY <1>1 DEF LsmInv, LsmTypes, EntriesAreFields, FieldAt, LaterIsNewer, TocInOrder, Behind, Before,
                AxesHold, IndexRecords, ClearRecords
<1>3. DataFirst'
    BY <1>1 DEF LsmInv, DataFirst
<1>4. FlushedAreCovered'
  <2>1. \A n : (Covered(n)' <=> Covered(n)) /\ (Pending(n)' <=> Pending(n))
    BY <1>1 DEF Covered, Pending, Entries
  <2> QED
    BY <1>1, <2>1 DEF LsmInv, FlushedAreCovered, Promised
<1> QED
    BY <1>2, <1>3, <1>4 DEF LsmInv

LEMMA LsmStep ==
    ASSUME LsmInv, [LsmNext]_lsmvars
    PROVE  LsmInv'
<1>1. CASE LsmOpen
    BY <1>1, OpenInv
<1>2. CASE LsmFlush
    BY <1>2, FlushInv
<1>3. CASE SyncIndex
    BY <1>3, SyncInv
<1>4. CASE WriteRecord
    BY <1>4, RecordInv
<1>5. CASE LsmFlushReturns
    BY <1>5, ReturnsInv
<1>6. CASE LsmCrash
    BY <1>6, CrashInv
<1>7. CASE LsmPurge
    BY <1>7, PurgeInv
<1>8. CASE \E k \in Keys : LsmArchive(k)
    BY <1>8, ArchiveInv
<1>9. CASE UNCHANGED lsmvars
    BY <1>9, UnchangedInv
<1> QED
    BY <1>1, <1>2, <1>3, <1>4, <1>5, <1>6, <1>7, <1>8, <1>9 DEF LsmNext

(***************************************************************************)
(* The newest field of a key that flush returned for is covered by some    *)
(* index; the one that is asked last of those with the key is no older.    *)
(***************************************************************************)
LEMMA InvFinds ==
    ASSUME LsmInv
    PROVE  IndexFinds
<1> USE DEF LsmInv
<1> SUFFICES ASSUME NEW k \in Keys
             PROVE  /\ Newest(k) # NoField /\ (indexType = "BTreeIndex" \/ ~purged) =>
                          /\ Lookup(k) >= Newest(k) /\ fields[Lookup(k)].key = k
                          /\ Lookup(k) = Newest(k) => Newest(k) \in durable
                    /\ indexType = "BTreeIndex" /\ Lookup(k) # NoField => Lookup(k) \in durable
    BY DEF IndexFinds
<1>1. ASSUME indexType = "BTreeIndex", Lookup(k) # NoField PROVE Lookup(k) \in durable
  <2>1. Sectioned /\ Lookup(k) # 0
    BY <1>1 DEF Sectioned, NoField
  <2>2. PICK j \in Indexes_ : Lookup(k) = Entry(j, k)
    BY <2>1, LookupIs
  <2>3. Entry(j, k) = stored[toc[j].path][toc[j].offset][k]
    BY <2>1, EntryIs
  <2> QED
    BY <2>1, <2>2, <2>3 DEF DataFirst
<1>2. ASSUME Newest(k) # NoField, indexType = "BTreeIndex" \/ ~purged
      PROVE  /\ Lookup(k) >= Newest(k) /\ fields[Lookup(k)].key = k
             /\ Lookup(k) = Newest(k) => Newest(k) \in durable
  <2>1. Promised
    BY <1>2 DEF Promised, Sectioned
  <2>2. PICK n \in flushed : n = Newest(k) /\ fields[n].key = k /\ n \in DOMAIN fields /\ n \in Nat /\ n # 0
    <3> DEFINE those == {n \in flushed : fields[n].key = k} \cup {NoField}
    <3>1. fields \in Seq([key : Keys, path : Files]) /\ flushed \subseteq DOMAIN fields
      BY DEF LsmTypes
    <3>2. Len(fields) \in Nat /\ DOMAIN fields = 1..Len(fields)
      BY <3>1, LenProperties
    <3>3. those \in SUBSET (0..Len(fields)) /\ those # {}
      BY <3>1, <3>2 DEF NoField
    <3>4. PICK m \in those : \A q \in those : q <= m
      <4> HIDE DEF those
      <4> QED
        BY <3>2, <3>3, GreatestNat
    <3>5. Max(those) \in those
      <4>1. m \in those /\ \A q \in those : m >= q
        BY <3>4
      <4> HIDE DEF those
      <4> QED
        BY <4>1 DEF Max
    <3>6. Newest(k) = Max(those)
      BY DEF Newest
    <3>7. Newest(k) \in flushed /\ fields[Newest(k)].key = k
      BY <1>2, <3>5, <3>6
    <3> QED
      BY <1>2, <3>1, <3>2, <3>7 DEF NoField
  <2>3. Covered(n)
    BY <2>1, <2>2 DEF FlushedAreCovered
  <2>4. PICK i \in Indexes_ : k \in toc[i].axes /\ stored[toc[i].path][toc[i].offset][k] >= n
    BY <2>2, <2>3 DEF Covered
  <2>5. /\ Entry(i, k) \in Nat /\ stored[toc[i].path][toc[i].offset][k] \in Nat
        /\ stored[toc[i].path][toc[i].offset][k] <= Entry(i, k)
    BY EntryIs
  <2>6. Entry(i, k) >= n
    BY <2>2, <2>4, <2>5
  <2>7. HasEntry(i, k)
    BY <2>2, <2>5, <2>6 DEF HasEntry, NoField
  <2>8. PICK j \in Indexes_ : Lookup(k) = Entry(j, k) /\ Entry(i, k) <= Entry(j, k) /\ HasEntry(j, k)
    BY <2>4, <2>7, LookupFinds
  <2>9. Entry(j, k) \in Nat /\ FieldAt(Entry(j, k), k, toc[j].path)
    BY <2>8, EntryIs DEF HasEntry, NoField
  <2>10. Lookup(k) >= n /\ fields[Lookup(k)].key = k
    BY <2>2, <2>5, <2>6, <2>8, <2>9 DEF FieldAt
  <2>11. ASSUME Lookup(k) = n PROVE n \in durable
    <3>1. CASE ~purged
      BY <2>2, <3>1 DEF DataFirst
    <3>2. CASE indexType = "BTreeIndex"
      BY <1>1, <2>2, <2>11, <3>2 DEF NoField
    <3> QED
      BY <1>2, <3>1, <3>2
  <2> QED
    BY <2>2, <2>10, <2>11
<1> QED
    BY <1>1, <1>2

(***************************************************************************)
(* What flush() returned for is found, with its data, in both stores, when *)
(* processes follow one another, die and are followed by others, and, in   *)
(* sections, after any purge.                                              *)
(***************************************************************************)
THEOREM LsmIndexFinds == LsmSpec => []IndexFinds
<1>1. LsmInit => LsmInv
    BY InitInv
<1>2. LsmInv /\ [LsmNext]_lsmvars => LsmInv'
    BY LsmStep
<1>3. LsmInv => IndexFinds
    BY InvFinds
<1> QED
    BY <1>1, <1>2, <1>3, PTL DEF LsmSpec

(* The same of a database of any store: the steps of a database in          *)
(* persistent memory leave the toc alone.                                   *)
THEOREM IndexFindsHolds == BSpec => []IndexFinds
<1>1. BInit => LsmInv
    BY InitInv DEF BInit
<1>2. LsmInv /\ [BNext]_<<vars, lsmvars>> => LsmInv'
  <2> SUFFICES ASSUME LsmInv, [BNext]_<<vars, lsmvars>> PROVE LsmInv'
    OBVIOUS
  <2>1. [LsmNext]_lsmvars
    BY DEF BNext
  <2> QED
    BY <2>1, LsmStep
<1>3. LsmInv => IndexFinds
    BY InvFinds
<1> QED
    BY <1>1, <1>2, <1>3, PTL DEF BSpec
-----------------------------------------------------------------------------
(***************************************************************************)
(* Persistent memory: what a writer keeps, and how the operators that make *)
(* its next state change it.                                               *)
(***************************************************************************)
ProcNames == {"pc", "read", "pool", "idx", "i", "d", "size", "at", "rest", "goal", "ptr", "holds",
              "must", "stack", "found", "indexes"}
IndexNames == {"node", "axes", "known"}
Paths == Seq(Pairs)

IndexesType(ixs) ==
    \A i \in DOMAIN ixs :
        /\ DOMAIN ixs[i] = IndexNames
        /\ ixs[i].node \in Nat /\ ixs[i].axes \subseteq Pairs

NumbersType(s) == s.pool \in Nat /\ s.at \in Nat /\ s.ptr \in Nat /\ s.holds \subseteq Nat

WriterType(s) ==
    /\ DOMAIN s = ProcNames /\ NumbersType(s) /\ IndexesType(s.idx)
    /\ s.rest \in Paths /\ s.i \in Paths /\ s.d \in Paths

LEMMA ClosedFields ==
    ASSUME NEW b \in BOOLEAN
    PROVE  /\ WriterType(Closed(b)) /\ Closed(b).pc = "closed" /\ Closed(b).pool = 0 /\ Closed(b).at = 0
           /\ Closed(b).holds = {} /\ Closed(b).goal = "" /\ DOMAIN Closed(b).idx = {}
<1> DEFINE t == Closed(b)
<1>1. DOMAIN t = ProcNames /\ t.pc = "closed" /\ t.goal = "" /\ t.holds = {} /\ t.idx = NoIndexes
    BY DEF Closed, ProcNames
<1>2. t.pool = 0 /\ t.at = 0 /\ t.ptr = 0
    BY DEF Closed
<1>3. t.i = << >> /\ t.d = << >> /\ t.rest = << >>
    BY DEF Closed, NoIndex
<1>4. DOMAIN t.idx = {}
    BY <1>1 DEF NoIndexes
<1>5. t.i \in Paths /\ t.d \in Paths /\ t.rest \in Paths
  <2>1. << >> \in Paths
    BY DEF Paths
  <2> QED
    BY <1>3, <2>1, Zenon
<1> HIDE DEF t
<1>6. NumbersType(t)
  <2>1. t.pool \in Nat /\ t.at \in Nat /\ t.ptr \in Nat
    BY <1>2
  <2>2. t.holds \subseteq Nat
    BY <1>1
  <2> QED
    BY <2>1, <2>2 DEF NumbersType
<1>7. IndexesType(t.idx)
    BY <1>4 DEF IndexesType
<1>8. WriterType(t)
    BY <1>1, <1>5, <1>6, <1>7 DEF WriterType
<1> QED
    BY <1>1, <1>2, <1>4, <1>8 DEF t

LEMMA OutsideFields ==
    ASSUME NEW s, WriterType(s)
    PROVE  /\ WriterType(Outside(s)) /\ Outside(s).pc = "idle" /\ Outside(s).pool = s.pool
           /\ Outside(s).at = 0 /\ Outside(s).holds = {} /\ Outside(s).goal = "" /\ Outside(s).idx = s.idx
<1> DEFINE t == Outside(s)
<1>1. DOMAIN t = ProcNames /\ t.pc = "idle" /\ t.goal = "" /\ t.holds = {} /\ t.idx = s.idx
    BY DEF Outside, WriterType, ProcNames
<1>2. t.pool = s.pool /\ t.at = 0 /\ t.ptr = 0
    BY DEF Outside, WriterType, ProcNames
<1>3. t.i = << >> /\ t.d = << >> /\ t.rest = << >>
    BY DEF Outside, WriterType, ProcNames, NoIndex
<1>4. t.i \in Paths /\ t.d \in Paths /\ t.rest \in Paths
  <2>1. << >> \in Paths
    BY DEF Paths
  <2> QED
    BY <1>3, <2>1, Zenon
<1> HIDE DEF t
<1>5. NumbersType(t)
  <2>1. t.pool \in Nat /\ t.at \in Nat /\ t.ptr \in Nat
    BY <1>2 DEF WriterType, NumbersType
  <2>2. t.holds \subseteq Nat
    BY <1>1
  <2> QED
    BY <2>1, <2>2 DEF NumbersType
<1>6. WriterType(t)
    BY <1>1, <1>4, <1>5 DEF WriterType
<1> QED
    BY <1>1, <1>2, <1>6 DEF t

LEMMA WalkFields ==
    ASSUME NEW s, WriterType(s), NEW from \in Nat, NEW path \in Paths, NEW goal
    PROVE  LET t == Walk(s, from, path, goal) IN
           /\ WriterType(t) /\ t.pc = "walk" /\ t.at = from /\ t.rest = path /\ t.goal = goal
           /\ t.pool = s.pool /\ t.idx = s.idx /\ t.holds = s.holds /\ t.ptr = s.ptr
           /\ t.i = s.i /\ t.d = s.d /\ t.size = s.size
<1> DEFINE t == Walk(s, from, path, goal)
<1>1. DOMAIN t = ProcNames /\ t.pc = "walk" /\ t.at = from /\ t.rest = path /\ t.goal = goal
    BY DEF Walk, WriterType, ProcNames
<1>2. t.pool = s.pool /\ t.idx = s.idx /\ t.holds = s.holds /\ t.ptr = s.ptr /\ t.i = s.i /\ t.d = s.d
      /\ t.size = s.size
    BY DEF Walk, WriterType, ProcNames
<1> HIDE DEF t
<1>3. NumbersType(t)
    BY <1>1, <1>2 DEF WriterType, NumbersType
<1>4. WriterType(t)
    BY <1>1, <1>2, <1>3 DEF WriterType
<1> QED
    BY <1>1, <1>2, <1>4 DEF t

(* An index that the process selects. *)
LEMMA WithIndexFields ==
    ASSUME NEW s, WriterType(s), NEW ix, DOMAIN ix = IndexNames, ix.node \in Nat, ix.axes \subseteq Pairs
    PROVE  LET t == WithIndex(s, ix) IN
           /\ WriterType(t) /\ DOMAIN t.idx = DOMAIN s.idx \cup {s.i} /\ t.idx[s.i] = ix
           /\ \A x \in DOMAIN s.idx : x # s.i => t.idx[x] = s.idx[x]
           /\ t.pc = s.pc /\ t.at = s.at /\ t.rest = s.rest /\ t.goal = s.goal
           /\ t.pool = s.pool /\ t.holds = s.holds /\ t.ptr = s.ptr
           /\ t.i = s.i /\ t.d = s.d /\ t.size = s.size
<1> DEFINE t == WithIndex(s, ix)
           ixs == [x \in DOMAIN s.idx \cup {s.i} |-> IF x = s.i THEN ix ELSE s.idx[x]]
<1>1. DOMAIN t = ProcNames /\ t.pc = s.pc /\ t.at = s.at /\ t.rest = s.rest /\ t.goal = s.goal /\ t.idx = ixs
    BY DEF WithIndex, WriterType, ProcNames
<1>2. t.pool = s.pool /\ t.holds = s.holds /\ t.ptr = s.ptr /\ t.i = s.i /\ t.d = s.d /\ t.size = s.size
    BY DEF WithIndex, WriterType, ProcNames
<1>3. /\ DOMAIN ixs = DOMAIN s.idx \cup {s.i} /\ ixs[s.i] = ix
      /\ \A x \in DOMAIN s.idx : x # s.i => ixs[x] = s.idx[x]
    OBVIOUS
<1> HIDE DEF t, ixs
<1>4. NumbersType(t)
    BY <1>1, <1>2 DEF WriterType, NumbersType
<1>5. IndexesType(ixs)
  <2> SUFFICES ASSUME NEW x \in DOMAIN ixs
               PROVE  DOMAIN ixs[x] = IndexNames /\ ixs[x].node \in Nat /\ ixs[x].axes \subseteq Pairs
    BY DEF IndexesType
  <2>1. CASE x = s.i
    BY <1>3, <2>1
  <2>2. CASE x # s.i
    <3>1. x \in DOMAIN s.idx /\ ixs[x] = s.idx[x]
      BY <1>3, <2>2
    <3> QED
      BY <3>1 DEF WriterType, IndexesType
  <2> QED
    BY <2>1, <2>2
<1>6. WriterType(t)
    BY <1>1, <1>2, <1>4, <1>5 DEF WriterType
<1> QED
    BY <1>1, <1>2, <1>3, <1>6 DEF t

LEMMA SetIndexFields ==
    ASSUME NEW s, WriterType(s), s.i \in DOMAIN s.idx,
           NEW ix, DOMAIN ix = IndexNames, ix.node \in Nat, ix.axes \subseteq Pairs
    PROVE  LET t == [s EXCEPT !.idx[s.i] = ix] IN
           /\ WriterType(t) /\ DOMAIN t.idx = DOMAIN s.idx /\ t.idx[s.i] = ix
           /\ \A x \in DOMAIN s.idx : x # s.i => t.idx[x] = s.idx[x]
           /\ t.pc = s.pc /\ t.at = s.at /\ t.rest = s.rest /\ t.goal = s.goal
           /\ t.pool = s.pool /\ t.holds = s.holds /\ t.ptr = s.ptr
           /\ t.i = s.i /\ t.d = s.d /\ t.size = s.size
<1> DEFINE t == [s EXCEPT !.idx[s.i] = ix]
           ixs == [s.idx EXCEPT ![s.i] = ix]
<1>1. DOMAIN t = ProcNames /\ t.pc = s.pc /\ t.at = s.at /\ t.rest = s.rest /\ t.goal = s.goal /\ t.idx = ixs
    BY DEF WriterType, ProcNames
<1>2. t.pool = s.pool /\ t.holds = s.holds /\ t.ptr = s.ptr /\ t.i = s.i /\ t.d = s.d /\ t.size = s.size
    BY DEF WriterType, ProcNames
<1>3. /\ DOMAIN ixs = DOMAIN s.idx /\ ixs[s.i] = ix
      /\ \A x \in DOMAIN s.idx : x # s.i => ixs[x] = s.idx[x]
    OBVIOUS
<1> HIDE DEF t, ixs
<1>4. NumbersType(t)
    BY <1>1, <1>2 DEF WriterType, NumbersType
<1>5. IndexesType(ixs)
  <2> SUFFICES ASSUME NEW x \in DOMAIN ixs
               PROVE  DOMAIN ixs[x] = IndexNames /\ ixs[x].node \in Nat /\ ixs[x].axes \subseteq Pairs
    BY DEF IndexesType
  <2>1. CASE x = s.i
    BY <1>3, <2>1
  <2>2. CASE x # s.i
    <3>1. x \in DOMAIN s.idx /\ ixs[x] = s.idx[x]
      BY <1>3, <2>2
    <3> QED
      BY <3>1 DEF WriterType, IndexesType
  <2> QED
    BY <2>1, <2>2
<1>6. WriterType(t)
    BY <1>1, <1>2, <1>4, <1>5 DEF WriterType
<1> QED
    BY <1>1, <1>2, <1>3, <1>6 DEF t

(* What Allocate leaves to do: the node n is to be put below the path. *)
LEMMA PutFields ==
    ASSUME NEW s, WriterType(s), s.i \in DOMAIN s.idx, s.d # << >>, NEW n \in Nat
    PROVE  LET t == Put(s, n) IN
           /\ WriterType(t) /\ t.pc = "walk" /\ t.goal = "parent" /\ t.at = s.idx[s.i].node
           /\ t.ptr = n /\ t.pool = s.pool /\ t.holds = s.holds /\ t.i = s.i /\ t.d = s.d
           /\ DOMAIN t.idx = DOMAIN s.idx
           /\ \A x \in DOMAIN s.idx : t.idx[x].node = s.idx[x].node
<1> DEFINE ix == s.idx[s.i]
           kvs == ToSet(s.d)
           put == [ix EXCEPT !.axes = @ \cup kvs]
           s1 == [s EXCEPT !.ptr = n]
           s2 == [s1 EXCEPT !.idx[s1.i] = put]
           t == Put(s, n)
<1>1. DOMAIN ix = IndexNames /\ ix.node \in Nat /\ ix.axes \subseteq Pairs
    BY DEF WriterType, IndexesType
<1>2. kvs \subseteq Pairs
    BY DEF WriterType, Paths, ToSet
<1>3. DOMAIN put = IndexNames /\ put.node = ix.node /\ put.axes = ix.axes \cup kvs
    BY <1>1 DEF IndexNames
<1>4. /\ DOMAIN s1 = ProcNames /\ s1.pc = s.pc /\ s1.at = s.at /\ s1.rest = s.rest /\ s1.goal = s.goal
      /\ s1.idx = s.idx /\ s1.ptr = n
    BY DEF WriterType, ProcNames
<1>5. s1.pool = s.pool /\ s1.holds = s.holds /\ s1.i = s.i /\ s1.d = s.d
    BY DEF WriterType, ProcNames
<1>6. WriterType(s1)
  <2> HIDE DEF s1
  <2>1. NumbersType(s1)
    BY <1>4, <1>5 DEF WriterType, NumbersType
  <2> QED
    BY <1>4, <1>5, <2>1 DEF WriterType
<1>7. [s EXCEPT !.ptr = n, !.idx[s.i] = put] = s2
    BY <1>5
<1>8. Front(s.d) \in Paths
  <2>1. s.d \in Seq(Pairs)
    BY DEF WriterType, Paths
  <2> QED
    BY <2>1, FrontOf DEF Paths
<1>9. t = Walk(s2, ix.node, Front(s.d), "parent")
    BY <1>7 DEF Put
<1> HIDE DEF s1, put, kvs, ix
<1>10. /\ WriterType(s2) /\ DOMAIN s2.idx = DOMAIN s.idx /\ s2.idx[s.i] = put
       /\ \A x \in DOMAIN s.idx : x # s.i => s2.idx[x] = s.idx[x]
       /\ s2.ptr = n /\ s2.pool = s.pool /\ s2.holds = s.holds /\ s2.i = s.i /\ s2.d = s.d
    BY <1>1, <1>2, <1>3, <1>4, <1>5, <1>6, SetIndexFields
<1> HIDE DEF s2, t
<1>11. \A x \in DOMAIN s.idx : s2.idx[x].node = s.idx[x].node
    BY <1>3, <1>10 DEF ix
<1>12. ix.node \in Nat
    BY <1>1
<1>13. /\ WriterType(t) /\ t.pc = "walk" /\ t.goal = "parent" /\ t.at = ix.node /\ t.idx = s2.idx
       /\ t.ptr = n /\ t.pool = s.pool /\ t.holds = s.holds /\ t.i = s.i /\ t.d = s.d
    BY <1>8, <1>9, <1>10, <1>12, WalkFields
<1> QED
    BY <1>10, <1>11, <1>13 DEF t, ix

(* The writer is now at the next node of its path. *)
LEMMA ReachedFields ==
    ASSUME NEW s, WriterType(s), NEW k \in Nat, s.goal # "data", s.rest # << >>
    PROVE  LET t == Reached(s, k) IN
           /\ WriterType(t) /\ t.pc = s.pc /\ t.at = k /\ t.goal = s.goal /\ t.pool = s.pool
           /\ t.idx = s.idx /\ t.holds = s.holds /\ t.ptr = s.ptr /\ t.i = s.i /\ t.d = s.d
           /\ t.size = s.size
<1> DEFINE t == [s EXCEPT !.at = k, !.rest = Tail(@)]
<1>1. Reached(s, k) = t
    BY DEF Reached
<1>2. DOMAIN t = ProcNames /\ t.pc = s.pc /\ t.at = k /\ t.rest = Tail(s.rest) /\ t.goal = s.goal
    BY DEF WriterType, ProcNames
<1>3. t.pool = s.pool /\ t.idx = s.idx /\ t.holds = s.holds /\ t.ptr = s.ptr /\ t.i = s.i /\ t.d = s.d
      /\ t.size = s.size
    BY DEF WriterType, ProcNames
<1>4. Tail(s.rest) \in Paths
  <2>1. s.rest \in Seq(Pairs)
    BY DEF WriterType, Paths
  <2> QED
    BY <2>1, HeadTailProperties DEF Paths
<1> HIDE DEF t
<1>5. NumbersType(t)
    BY <1>2, <1>3 DEF WriterType, NumbersType
<1>6. WriterType(t)
    BY <1>2, <1>3, <1>4, <1>5 DEF WriterType
<1> QED
    BY <1>1, <1>2, <1>3, <1>6

-----------------------------------------------------------------------------
(* The tree and the pools.                                                 *)

KeyValues == Pairs \cup {""}
NodeRecords ==
    [kind : {"branch", "data"}, kv : KeyValues, kids : Seq(Nat), axis : SUBSET Pairs, pool : Nat]
PoolRecords == [used : 0..PoolSize, finalised : BOOLEAN]

KidsOf(N, n) == ToSet(N[n].kids)

Tree(N) ==
    /\ N \in Seq(NodeRecords)
    /\ \A n \in DOMAIN N : KidsOf(N, n) \subseteq DOMAIN N
    /\ \A n \in DOMAIN N : \A a, b \in KidsOf(N, n) :
          a # b /\ N[a].kv = N[b].kv => N[a].kind = "data" /\ N[b].kind = "data"

PMemTypes ==
    /\ DOMAIN proc = Procs /\ master \in {"none", "made", "built"}
    /\ files \in Seq(PoolRecords) /\ uuids \in Seq(Nat)

(* One process builds the root, and no other goes on before.               *)
OneBuilder ==
    /\ \A w \in Writers : proc[w].pc = "build" => master = "made"
    /\ \A v, w \in Writers : proc[v].pc = "build" /\ proc[w].pc = "build" => v = w
    /\ \A w \in Writers : proc[w].pc \notin {"closed", "make", "build"} => master = "built"
    /\ master = "built" <=> Len(nodes) > 0

(* The pools are listed as they were made, and a field is in one of them.   *)
PoolsListed ==
    /\ \A k \in DOMAIN uuids : uuids[k] = k
    /\ Len(files) \in {Len(uuids), Len(uuids) + 1}
    /\ \A n \in DOMAIN nodes : nodes[n].pool <= Len(uuids)
    /\ \A w \in Writers : proc[w].pc = "addpool" => Len(files) = Len(uuids) + 1

(* What a writer has in memory fits the nodes N and the first u pools.      *)
InCall(s) == s.pc \in {"walk", "grow", "alloc", "newpool", "addpool", "axes"}
Fits(s, N, u) ==
    /\ WriterType(s) /\ s.pool <= u /\ s.at <= Len(N) /\ s.holds \subseteq 0..Len(N)
    /\ \A i \in DOMAIN s.idx : s.idx[i].node \in DOMAIN N
    /\ InCall(s) => s.d # <<>> /\ s.size \in Lengths
    /\ s.pc \in {"alloc", "newpool", "addpool", "axes"} => s.i \in DOMAIN s.idx
    /\ s.pc \in {"newpool", "addpool"} => s.holds = {RootMutex}
    /\ s.pc \in {"walk", "grow"} =>
        /\ s.at # 0 /\ s.goal \in {"index", "parent"}
        /\ s.goal = "parent" => /\ s.i \in DOMAIN s.idx /\ s.ptr \in DOMAIN N
                                /\ N[s.ptr].kind = "data" /\ N[s.ptr].kv = Last(s.d)
    /\ s.pc = "grow" => s.rest # <<>>

AllFit == \A w \in Writers : Fits(proc[w], nodes, Len(uuids))

(* A mutex has one holder.                                                 *)
OneHolder == \A v, w \in Writers : v # w => proc[v].holds \cap proc[w].holds = {}

(* The branches C that a writer has created since it took a mutex can be    *)
(* reached from the node of the mutex only, and nobody else is there.      *)
Away(s, C) ==
    /\ s.at \notin C /\ s.holds \cap C = {}
    /\ \A i \in DOMAIN s.idx : s.idx[i].node \notin C

Owns(s, C, N) ==
    /\ C \subseteq DOMAIN N \ {1}
    /\ \A c \in C : N[c].kind = "branch"
    /\ s.at \in C \cup s.holds
    /\ \A n \in DOMAIN N : KidsOf(N, n) \cap C # {} => n \in C \cup s.holds
    /\ \A k \in KidsOf(N, s.at) : N[k].kv # Head(s.rest)

Grown ==
    \A w \in Writers : proc[w].pc = "grow" =>
        \E C \in SUBSET DOMAIN nodes :
            /\ Owns(proc[w], C, nodes)
            /\ \A v \in Writers \ {w} : Away(proc[v], C)

TreeInv ==
    /\ PMemTypes /\ OneBuilder /\ PoolsListed /\ Tree(nodes) /\ AllFit /\ OneHolder /\ Grown

LEMMA TreeInvSound ==
    ASSUME TreeInv
    PROVE  TreeSound
<1>1. uuids \in Seq(Nat) /\ Len(uuids) \in Nat /\ DOMAIN uuids = 1..Len(uuids)
    BY LenProperties DEF TreeInv, PMemTypes
<1>2. uuids = [k \in DOMAIN uuids |-> k]
  <2>1. \A k \in DOMAIN uuids : uuids[k] = k
    BY DEF TreeInv, PoolsListed
  <2>2. uuids = [k \in DOMAIN uuids |-> uuids[k]]
    BY <1>1
  <2> QED
    BY <2>1, <2>2
<1>3. Len(files) - Len(uuids) \in {0, 1}
    BY <1>1 DEF TreeInv, PoolsListed
<1>4. \A f \in ToSet(files) : f.used <= PoolSize
  <2>1. \A f \in ToSet(files) : f \in PoolRecords
    BY DEF TreeInv, PMemTypes, ToSet
  <2> QED
    BY <2>1, PMemAssumption DEF PoolRecords, PMemAssumption
<1>5. \A n \in DOMAIN nodes : nodes[n].pool \in Nat
  <2>1. \A n \in DOMAIN nodes : nodes[n] \in NodeRecords
    BY DEF TreeInv, Tree
  <2> QED
    BY <2>1 DEF NodeRecords
<1>6. \A n \in DOMAIN nodes : nodes[n].pool \in {0} \cup ToSet(uuids)
  <2> SUFFICES ASSUME NEW n \in DOMAIN nodes, nodes[n].pool # 0 PROVE nodes[n].pool \in ToSet(uuids)
    OBVIOUS
  <2>1. nodes[n].pool \in DOMAIN uuids
    BY <1>1, <1>5 DEF TreeInv, PoolsListed
  <2>2. uuids[nodes[n].pool] = nodes[n].pool
    BY <2>1 DEF TreeInv, PoolsListed
  <2> QED
    BY <2>1, <2>2 DEF ToSet
<1>7. \A n \in DOMAIN nodes : EnsurePoolLoaded(n)
    BY <1>6 DEF TreeInv, Tree, EnsurePoolLoaded, Kids, KidsOf
<1>8. master \in {"none", "made", "built"}
    BY DEF TreeInv, PMemTypes
<1>9. \A n \in DOMAIN nodes : \A a, b \in Kids(n) :
          a # b /\ nodes[a].kv = nodes[b].kv => nodes[a].kind = "data" /\ nodes[b].kind = "data"
    BY DEF TreeInv, Tree, Kids, KidsOf
<1> QED
    BY <1>2, <1>3, <1>4, <1>7, <1>8, <1>9 DEF TreeSound

LEMMA TreeInvInit ==
    ASSUME Init
    PROVE  TreeInv
<1>1. \A w \in Writers : proc[w] = Closed(FALSE)
    BY DEF Init, Procs
<1>2. /\ nodes \in Seq(NodeRecords) /\ Len(nodes) = 0 /\ DOMAIN nodes = {}
      /\ files \in Seq(PoolRecords) /\ Len(files) = 0
      /\ uuids \in Seq(Nat) /\ Len(uuids) = 0 /\ DOMAIN uuids = {}
  <2> DEFINE e == << >>
  <2>1. e \in Seq(NodeRecords) /\ e \in Seq(PoolRecords) /\ e \in Seq(Nat) /\ Len(e) = 0 /\ DOMAIN e = {}
    OBVIOUS
  <2>2. nodes = e /\ files = e /\ uuids = e
    BY DEF Init
  <2> HIDE DEF e
  <2> QED
    BY <2>1, <2>2
<1> DEFINE s == Closed(FALSE)
<1>3. /\ WriterType(s) /\ s.pc = "closed" /\ s.pool = 0 /\ s.at = 0 /\ s.holds = {} /\ DOMAIN s.idx = {}
    BY ClosedFields
<1>4. \A w \in Writers : proc[w] = s
    BY <1>1
<1> HIDE DEF s
<1>5. PMemTypes
    BY <1>2 DEF Init, PMemTypes
<1>6. master = "none"
    BY DEF Init
<1>7. OneBuilder
    BY <1>2, <1>3, <1>4, <1>6 DEF OneBuilder
<1>8. PoolsListed
    BY <1>2, <1>3, <1>4 DEF PoolsListed
<1>9. Tree(nodes)
    BY <1>2 DEF Tree
<1>10. Fits(s, nodes, Len(uuids))
    BY <1>2, <1>3 DEF Fits, InCall
<1>11. AllFit
    BY <1>4, <1>10 DEF AllFit
<1>12. OneHolder
    BY <1>3, <1>4 DEF OneHolder
<1>13. Grown
    BY <1>3, <1>4 DEF Grown
<1> QED
    BY <1>5, <1>7, <1>8, <1>9, <1>11, <1>12, <1>13 DEF TreeInv

-----------------------------------------------------------------------------
(***************************************************************************)
(* What each part of the invariant needs from a step of one process.       *)
(***************************************************************************)
Extends(N, N2) ==
    /\ N2 \in Seq(NodeRecords) /\ Len(N) <= Len(N2)
    /\ \A n \in DOMAIN N : N2[n].kind = N[n].kind /\ N2[n].kv = N[n].kv

LEMMA FitsGrows ==
    ASSUME NEW s, NEW N \in Seq(NodeRecords), NEW N2, NEW u \in Nat, NEW u2 \in Nat,
           Fits(s, N, u), Extends(N, N2), u <= u2
    PROVE  Fits(s, N2, u2)
<1>1. Len(N) \in Nat /\ DOMAIN N = 1..Len(N) /\ Len(N2) \in Nat /\ DOMAIN N2 = 1..Len(N2)
    BY LenProperties DEF Extends
<1>2. DOMAIN N \subseteq DOMAIN N2
    BY <1>1 DEF Extends
<1>3. s.pool \in Nat /\ s.at \in Nat
    BY DEF Fits, WriterType, NumbersType
<1>4. s.pool <= u2 /\ s.at <= Len(N2) /\ s.holds \subseteq 0..Len(N2)
    BY <1>1, <1>3 DEF Fits, Extends
<1>5. \A i \in DOMAIN s.idx : s.idx[i].node \in DOMAIN N2
    BY <1>2 DEF Fits
<1>6. s.pc \in {"walk", "grow"} =>
        /\ s.at # 0 /\ s.goal \in {"index", "parent"}
        /\ s.goal = "parent" => /\ s.i \in DOMAIN s.idx /\ s.ptr \in DOMAIN N2
                                /\ N2[s.ptr].kind = "data" /\ N2[s.ptr].kv = Last(s.d)
    BY <1>2 DEF Fits, Extends
<1> QED
    BY <1>4, <1>5, <1>6 DEF Fits

(* A writer moves to a node it knows, to the root, or to a node below the   *)
(* one it is at, if no other (which holds H) has the mutex of that.         *)
Near(t, s, N, H) ==
    /\ \/ t.at \in {0, 1, s.at}
       \/ \E i \in DOMAIN s.idx : t.at = s.idx[i].node
       \/ s.at \in DOMAIN N \ H /\ t.at \in KidsOf(N, s.at)
    /\ t.holds \subseteq s.holds \cup {0, s.at}
    /\ \A i \in DOMAIN t.idx :
        \/ t.idx[i].node = s.at
        \/ \E j \in DOMAIN s.idx : t.idx[i].node = s.idx[j].node

LEMMA NearAway ==
    ASSUME NEW r, NEW s, NEW t, NEW C, NEW N, N \in Seq(NodeRecords),
           Owns(r, C, N), Away(s, C), Near(t, s, N, r.holds)
    PROVE  Away(t, C)
<1>1. 0 \notin C /\ 1 \notin C
  <2>1. Len(N) \in Nat /\ DOMAIN N = 1..Len(N)
    BY LenProperties
  <2> QED
    BY <2>1 DEF Owns
<1>2. t.at \notin C
  <2>1. CASE t.at \in {0, 1, s.at}
    BY <1>1, <2>1 DEF Away
  <2>2. CASE \E i \in DOMAIN s.idx : t.at = s.idx[i].node
    BY <2>2 DEF Away
  <2>3. CASE s.at \in DOMAIN N \ r.holds /\ t.at \in KidsOf(N, s.at)
    BY <2>3 DEF Away, Owns
  <2> QED
    BY <2>1, <2>2, <2>3 DEF Near
<1>3. t.holds \cap C = {}
    BY <1>1 DEF Near, Away
<1>4. \A i \in DOMAIN t.idx : t.idx[i].node \notin C
    BY DEF Near, Away
<1> QED
    BY <1>2, <1>3, <1>4 DEF Away

(* Nothing of C gets a new parent, and the node that is filled no new kid.  *)
LEMMA OwnsKept ==
    ASSUME NEW r, NEW C, NEW N, NEW N2, Tree(N), Owns(r, C, N), Extends(N, N2), r.at \in DOMAIN N,
           \A n \in DOMAIN N2 : \A k \in KidsOf(N2, n) \cap C : n \in DOMAIN N /\ k \in KidsOf(N, n),
           KidsOf(N2, r.at) \subseteq KidsOf(N, r.at)
    PROVE  Owns(r, C, N2)
<1>1. Len(N) \in Nat /\ DOMAIN N = 1..Len(N) /\ Len(N2) \in Nat /\ DOMAIN N2 = 1..Len(N2)
    BY LenProperties DEF Extends, Tree
<1>2. DOMAIN N \subseteq DOMAIN N2
    BY <1>1 DEF Extends
<1>3. C \subseteq DOMAIN N2 \ {1} /\ \A c \in C : N2[c].kind = "branch"
    BY <1>2 DEF Owns, Extends
<1>4. \A n \in DOMAIN N2 : KidsOf(N2, n) \cap C # {} => n \in C \cup r.holds
  <2> SUFFICES ASSUME NEW n \in DOMAIN N2, NEW k \in KidsOf(N2, n) \cap C PROVE n \in C \cup r.holds
    OBVIOUS
  <2>1. n \in DOMAIN N /\ k \in KidsOf(N, n)
    OBVIOUS
  <2> QED
    BY <2>1 DEF Owns
<1>5. \A k \in KidsOf(N2, r.at) : N2[k].kv # Head(r.rest)
  <2> SUFFICES ASSUME NEW k \in KidsOf(N2, r.at) PROVE N2[k].kv # Head(r.rest)
    OBVIOUS
  <2>1. k \in KidsOf(N, r.at) /\ k \in DOMAIN N
    BY DEF Tree
  <2>2. N2[k].kv = N[k].kv /\ N[k].kv # Head(r.rest)
    BY <2>1 DEF Extends, Owns
  <2> QED
    BY <2>2
<1>6. r.at \in C \cup r.holds
    BY DEF Owns
<1> QED
    BY <1>3, <1>4, <1>5, <1>6 DEF Owns

ProcStep(w) == DOMAIN proc' = Procs /\ \A v \in Writers \ {w} : proc'[v] = proc[v]

LEMMA SetStep ==
    ASSUME PMemTypes, NEW w \in Procs, NEW t, Set(w, t)
    PROVE  ProcStep(w) /\ proc'[w] = t
BY DEF PMemTypes, Set, ProcStep, Procs

LEMMA SizesOfTree ==
    ASSUME TreeInv
    PROVE  /\ nodes \in Seq(NodeRecords) /\ Len(nodes) \in Nat /\ DOMAIN nodes = 1..Len(nodes)
           /\ uuids \in Seq(Nat) /\ Len(uuids) \in Nat /\ DOMAIN uuids = 1..Len(uuids)
           /\ files \in Seq(PoolRecords) /\ Len(files) \in Nat /\ DOMAIN files = 1..Len(files)
BY LenProperties DEF TreeInv, Tree, PMemTypes

OwnedBy(v, C) ==
    /\ v \in Writers /\ proc[v].pc = "grow" /\ C \subseteq DOMAIN nodes /\ Owns(proc[v], C, nodes)
    /\ \A x \in Writers \ {v} : Away(proc[x], C)

LEMMA WriterStep ==
    ASSUME TreeInv, NEW w \in Writers, ProcStep(w),
           PMemTypes', OneBuilder', PoolsListed', Tree(nodes)', Extends(nodes, nodes'), Len(uuids) <= Len(uuids'),
           Fits(proc'[w], nodes', Len(uuids')),
           \/ proc'[w].holds \subseteq proc[w].holds
           \/ \E m : proc'[w].holds = {m} /\ \A v \in Writers \ {w} : m \notin proc[v].holds,
           \A v \in Writers \ {w} : \A C : OwnedBy(v, C) => Owns(proc[v], C, nodes') /\ Away(proc'[w], C),
           proc'[w].pc = "grow" =>
              \E C : Owns(proc'[w], C, nodes') /\ \A v \in Writers \ {w} : Away(proc[v], C)
    PROVE  TreeInv'
<1>1. \A v \in Writers \ {w} : proc'[v] = proc[v]
    BY DEF ProcStep
<1>2. uuids' \in Seq(Nat) /\ Len(uuids') \in Nat
    BY LenProperties DEF PMemTypes
<1>3. AllFit'
  <2> SUFFICES ASSUME NEW v \in Writers PROVE Fits(proc'[v], nodes', Len(uuids'))
    BY DEF AllFit
  <2>1. CASE v # w
    <3>1. Fits(proc[v], nodes, Len(uuids))
      BY DEF TreeInv, AllFit
    <3>2. Fits(proc[v], nodes', Len(uuids'))
      BY <1>2, <3>1, SizesOfTree, FitsGrows
    <3> QED
      BY <1>1, <2>1, <3>2
  <2> QED
    BY <2>1
<1>4. OneHolder'
  <2> SUFFICES ASSUME NEW v \in Writers, NEW x \in Writers, v # x PROVE proc'[v].holds \cap proc'[x].holds = {}
    BY DEF OneHolder
  <2>1. proc[v].holds \cap proc[x].holds = {}
    BY DEF TreeInv, OneHolder
  <2>2. \A y \in Writers \ {w} : proc'[w].holds \cap proc[y].holds = {}
    BY DEF TreeInv, OneHolder
  <2>3. CASE v = w
    BY <1>1, <2>2, <2>3
  <2>4. CASE x = w
    BY <1>1, <2>2, <2>4
  <2>5. CASE v # w /\ x # w
    BY <1>1, <2>1, <2>5
  <2> QED
    BY <2>3, <2>4, <2>5
<1>5. Grown'
  <2> SUFFICES ASSUME NEW v \in Writers, proc'[v].pc = "grow"
               PROVE  \E C \in SUBSET DOMAIN nodes' :
                        Owns(proc'[v], C, nodes') /\ \A x \in Writers \ {v} : Away(proc'[x], C)
    BY DEF Grown
  <2>1. CASE v # w
    <3>1. PICK C \in SUBSET DOMAIN nodes : Owns(proc[v], C, nodes) /\ \A x \in Writers \ {v} : Away(proc[x], C)
      BY <1>1, <2>1 DEF TreeInv, Grown
    <3>2. OwnedBy(v, C)
      BY <1>1, <2>1, <3>1 DEF OwnedBy
    <3>3. Owns(proc[v], C, nodes') /\ Away(proc'[w], C)
      BY <2>1, <3>2
    <3>4. \A x \in Writers \ {v} : Away(proc'[x], C)
      BY <1>1, <3>1, <3>3
    <3>5. C \in SUBSET DOMAIN nodes'
      BY <3>3 DEF Owns
    <3> QED
      BY <1>1, <2>1, <3>3, <3>4, <3>5
  <2>2. CASE v = w
    <3>1. PICK C : Owns(proc'[w], C, nodes') /\ \A x \in Writers \ {w} : Away(proc[x], C)
      BY <2>2
    <3>2. C \in SUBSET DOMAIN nodes'
      BY <3>1 DEF Owns
    <3> QED
      BY <1>1, <2>2, <3>1, <3>2
  <2> QED
    BY <2>1, <2>2
<1> QED
    BY <1>3, <1>4, <1>5 DEF TreeInv

(* The nodes stay as they are.                                             *)
LEMMA QuietStep ==
    ASSUME TreeInv, NEW w \in Writers, ProcStep(w),
           PMemTypes', OneBuilder', PoolsListed', nodes' = nodes, Len(uuids) <= Len(uuids'),
           Fits(proc'[w], nodes', Len(uuids')),
           \/ proc'[w].holds \subseteq proc[w].holds
           \/ \E m : proc'[w].holds = {m} /\ \A v \in Writers \ {w} : m \notin proc[v].holds,
           proc'[w].pc # "grow",
           \A v \in Writers \ {w} : Near(proc'[w], proc[w], nodes, proc[v].holds)
    PROVE  TreeInv'
<1>1. Tree(nodes)' /\ Extends(nodes, nodes')
    BY SizesOfTree DEF TreeInv, Tree, KidsOf, Extends
<1>2. ASSUME NEW v \in Writers \ {w}, NEW C, OwnedBy(v, C)
      PROVE  Owns(proc[v], C, nodes') /\ Away(proc'[w], C)
  <2>1. Owns(proc[v], C, nodes) /\ Away(proc[w], C)
    BY <1>2 DEF OwnedBy
  <2>2. Near(proc'[w], proc[w], nodes, proc[v].holds)
    OBVIOUS
  <2>3. Away(proc'[w], C)
    BY <2>1, <2>2, SizesOfTree, NearAway
  <2> QED
    BY <2>1, <2>3
<1> QED
    BY <1>1, <1>2, WriterStep

LEMMA BuiltStep ==
    ASSUME TreeInv, NEW w \in Writers, ProcStep(w), master' = master, Len(nodes') \in Nat,
           Len(nodes) > 0 <=> Len(nodes') > 0,
           proc'[w].pc # "build", master = "built" \/ proc'[w].pc \in {"closed", "make"}
    PROVE  OneBuilder'
<1>1. \A v \in Writers \ {w} : proc'[v] = proc[v]
    BY DEF ProcStep
<1>2. \A v \in Writers : proc'[v].pc = "build" => v # w /\ proc[v].pc = "build"
    BY <1>1
<1>3. OneBuilder
    BY DEF TreeInv
<1>4. \A v \in Writers : proc'[v].pc \notin {"closed", "make", "build"} => master = "built"
  <2> SUFFICES ASSUME NEW v \in Writers, proc'[v].pc \notin {"closed", "make", "build"} PROVE master = "built"
    OBVIOUS
  <2>1. CASE v = w
    BY <2>1
  <2>2. CASE v # w
    BY <1>1, <1>3, <2>2 DEF OneBuilder
  <2> QED
    BY <2>1, <2>2
<1>5. master' = "built" <=> Len(nodes') > 0
    BY <1>3 DEF OneBuilder
<1>6. \A v \in Writers : proc'[v].pc = "build" => master' = "made"
    BY <1>2, <1>3 DEF OneBuilder
<1>7. \A v, x \in Writers : proc'[v].pc = "build" /\ proc'[x].pc = "build" => v = x
    BY <1>2, <1>3 DEF OneBuilder
<1> QED
    BY <1>4, <1>5, <1>6, <1>7 DEF OneBuilder

LEMMA ListedStep ==
    ASSUME TreeInv, NEW w \in Writers, ProcStep(w), uuids' = uuids, Len(files') = Len(files),
           \A n \in DOMAIN nodes' : nodes'[n].pool <= Len(uuids),
           proc'[w].pc = "addpool" => Len(files) = Len(uuids) + 1
    PROVE  PoolsListed'
<1>1. \A v \in Writers \ {w} : proc'[v] = proc[v]
    BY DEF ProcStep
<1>2. PoolsListed
    BY DEF TreeInv
<1>3. \A v \in Writers : proc'[v].pc = "addpool" => Len(files) = Len(uuids) + 1
    BY <1>1, <1>2 DEF PoolsListed
<1> QED
    BY <1>2, <1>3 DEF PoolsListed

LEMMA WriterFits ==
    ASSUME TreeInv, NEW w \in Writers
    PROVE  /\ Fits(proc[w], nodes, Len(uuids)) /\ WriterType(proc[w]) /\ w \in Procs /\ PMemTypes
           /\ (proc[w].pc \notin {"closed", "make", "build"} => master = "built" /\ Len(nodes) > 0)
BY DEF TreeInv, AllFit, Fits, Procs, OneBuilder

(* A step that leaves the pools as they are.                               *)
LEMMA MemoryStep ==
    ASSUME TreeInv, NEW w \in Writers, ProcStep(w), UNCHANGED disk,
           proc'[w].pc \notin {"build", "grow", "addpool"},
           master = "built" \/ proc'[w].pc \in {"closed", "make"},
           Fits(proc'[w], nodes, Len(uuids)),
           \/ proc'[w].holds \subseteq proc[w].holds
           \/ \E m : proc'[w].holds = {m} /\ \A v \in Writers \ {w} : m \notin proc[v].holds,
           \A v \in Writers \ {w} : Near(proc'[w], proc[w], nodes, proc[v].holds)
    PROVE  TreeInv'
<1>1. master' = master /\ nodes' = nodes /\ files' = files /\ uuids' = uuids
    BY DEF disk
<1>2. PMemTypes'
    BY <1>1 DEF TreeInv, PMemTypes, ProcStep
<1>3. OneBuilder'
    BY <1>1, SizesOfTree, BuiltStep
<1>4. PoolsListed'
  <2>1. \A n \in DOMAIN nodes' : nodes'[n].pool <= Len(uuids)
    BY <1>1 DEF TreeInv, PoolsListed
  <2> QED
    BY <1>1, <2>1, ListedStep
<1>5. Len(uuids) <= Len(uuids') /\ Fits(proc'[w], nodes', Len(uuids'))
    BY <1>1, SizesOfTree
<1> QED
    BY <1>1, <1>2, <1>3, <1>4, <1>5, QuietStep

(* Outside of a call nothing needs to fit but what is kept.                *)
LEMMA RestingStep ==
    ASSUME TreeInv, NEW w \in Writers, ProcStep(w), UNCHANGED disk,
           WriterType(proc'[w]), proc'[w].pc \in {"closed", "make", "idle"},
           proc'[w].pc = "idle" => master = "built",
           proc'[w].pool \in {0, proc[w].pool}, proc'[w].at \in {0, proc[w].at},
           proc'[w].holds \subseteq proc[w].holds,
           proc'[w].idx = proc[w].idx \/ DOMAIN proc'[w].idx = {}
    PROVE  TreeInv'
<1>1. Fits(proc[w], nodes, Len(uuids)) /\ WriterType(proc[w])
    BY WriterFits
<1>2. Fits(proc'[w], nodes, Len(uuids))
  <2>1. proc'[w].pool <= Len(uuids) /\ proc'[w].at <= Len(nodes) /\ proc'[w].holds \subseteq 0..Len(nodes)
    BY <1>1, SizesOfTree DEF Fits
  <2>2. \A i \in DOMAIN proc'[w].idx : proc'[w].idx[i].node \in DOMAIN nodes
    BY <1>1 DEF Fits
  <2> QED
    BY <2>1, <2>2 DEF Fits, InCall
<1>3. \A v \in Writers \ {w} : Near(proc'[w], proc[w], nodes, proc[v].holds)
    BY DEF Near
<1> QED
    BY <1>2, <1>3, MemoryStep

LEMMA ObtainStep ==
    ASSUME TreeInv, NEW w \in Writers, Obtain(w)
    PROVE  TreeInv'
<1>1. PICK t : /\ Set(w, t) /\ UNCHANGED disk
               /\ \/ t = [proc[w] EXCEPT !.read = TRUE]
                  \/ /\ \E pc : t = [proc[w] EXCEPT !.read = TRUE, !.pc = pc]
                     /\ t.pc = "make" \/ (t.pc = "idle" /\ master = "built")
  <2>1. CASE \E t : Set(w, t) /\ t = [proc[w] EXCEPT !.read = TRUE] /\ UNCHANGED disk
    BY <2>1
  <2>2. CASE /\ Set(w, [proc[w] EXCEPT !.read = TRUE, !.pc = IF Pool(PoolGroups) \in Masters THEN "idle" ELSE "make"])
             /\ UNCHANGED disk /\ (master = "none" \/ Valid)
    <3> DEFINE pc == IF Pool(PoolGroups) \in Masters THEN "idle" ELSE "make"
               t == [proc[w] EXCEPT !.read = TRUE, !.pc = pc]
    <3>1. t.pc = pc
      BY WriterFits DEF WriterType, ProcNames
    <3>2. pc = "make" \/ (pc = "idle" /\ master = "built")
      BY <2>2 DEF Masters, Valid
    <3> QED
      BY <2>2, <3>1, <3>2
  <2> QED
    BY <2>1, <2>2 DEF Obtain
<1>2. WriterType(proc[w]) /\ w \in Procs /\ PMemTypes /\ proc[w].pc = "closed"
    BY WriterFits DEF Obtain
<1>3. ProcStep(w) /\ proc'[w] = t
    BY <1>1, <1>2, SetStep
<1>4. /\ DOMAIN t = ProcNames /\ t.pool = proc[w].pool /\ t.at = proc[w].at /\ t.holds = proc[w].holds
      /\ t.idx = proc[w].idx /\ t.ptr = proc[w].ptr /\ t.rest = proc[w].rest /\ t.i = proc[w].i /\ t.d = proc[w].d
    BY <1>1, <1>2 DEF WriterType, ProcNames
<1>5. t.pc = "closed" \/ t.pc = "make" \/ (t.pc = "idle" /\ master = "built")
    BY <1>1, <1>2 DEF WriterType, ProcNames
<1>6. WriterType(t)
  <2>1. NumbersType(t)
    BY <1>2, <1>4 DEF WriterType, NumbersType
  <2> QED
    BY <1>2, <1>4, <2>1 DEF WriterType
<1> QED
    BY <1>1, <1>3, <1>4, <1>5, <1>6, RestingStep

LEMMA CloseStep ==
    ASSUME TreeInv, NEW w \in Writers, Close(w) \/ Crash(w)
    PROVE  TreeInv'
<1>1. PICK b \in BOOLEAN : Set(w, Closed(b)) /\ UNCHANGED disk
    BY DEF Close, Crash
<1>2. ProcStep(w) /\ proc'[w] = Closed(b)
    BY <1>1, WriterFits, SetStep
<1> QED
    BY <1>1, <1>2, ClosedFields, RestingStep

(* An exception ends the call.                                             *)
LEMMA FailsStep ==
    ASSUME TreeInv, NEW w \in Writers, Fails(w), UNCHANGED disk, proc[w].pc \notin {"closed", "make", "build"}
    PROVE  TreeInv'
<1>1. ProcStep(w) /\ proc'[w] = Outside(proc[w])
    BY WriterFits, SetStep DEF Fails
<1>2. master = "built" /\ WriterType(proc[w])
    BY WriterFits
<1> QED
    BY <1>1, <1>2, OutsideFields, RestingStep

LEMMA MakeMasterStep ==
    ASSUME TreeInv, NEW w \in Writers, MakeMaster(w)
    PROVE  TreeInv'
<1>1. PICK pc : /\ Set(w, [proc[w] EXCEPT !.pc = pc])
                /\ \/ pc = "build" /\ master = "none" /\ master' = "made"
                   \/ pc = "closed" /\ master' = master
    BY DEF MakeMaster
<1>2. Fits(proc[w], nodes, Len(uuids)) /\ WriterType(proc[w]) /\ w \in Procs /\ PMemTypes
    BY WriterFits
<1> DEFINE t == [proc[w] EXCEPT !.pc = pc]
<1>3. ProcStep(w) /\ proc'[w] = t
    BY <1>1, <1>2, SetStep
<1>4. /\ DOMAIN t = ProcNames /\ t.pool = proc[w].pool /\ t.at = proc[w].at /\ t.holds = proc[w].holds
      /\ t.idx = proc[w].idx /\ t.ptr = proc[w].ptr /\ t.rest = proc[w].rest /\ t.i = proc[w].i /\ t.d = proc[w].d
      /\ t.pc = pc
    BY <1>2 DEF WriterType, ProcNames
<1> HIDE DEF t
<1>5. WriterType(t)
  <2>1. NumbersType(t)
    BY <1>2, <1>4 DEF WriterType, NumbersType
  <2> QED
    BY <1>2, <1>4, <2>1 DEF WriterType
<1>6. nodes' = nodes /\ files' = files /\ uuids' = uuids
    BY DEF MakeMaster
<1>7. CASE pc = "closed" /\ master' = master
    BY <1>3, <1>4, <1>5, <1>6, <1>7, RestingStep DEF disk
<1>8. CASE pc = "build" /\ master = "none" /\ master' = "made"
  <2>1. \A v \in Writers \ {w} : proc'[v] = proc[v]
    BY <1>3 DEF ProcStep
  <2>2. OneBuilder
    BY DEF TreeInv
  <2>3. \A v \in Writers : proc[v].pc \in {"closed", "make"}
    BY <1>8, <2>2 DEF OneBuilder
  <2>4. \A v \in Writers \ {w} : proc'[v].pc \in {"closed", "make"}
    BY <2>1, <2>3
  <2>5. proc'[w].pc = "build"
    BY <1>3, <1>4, <1>8
  <2>6. OneBuilder'
    <3>1. \A v \in Writers : proc'[v].pc = "build" => v = w
      BY <2>4
    <3>2. \A v \in Writers : proc'[v].pc \in {"closed", "make", "build"}
      BY <2>4, <2>5
    <3>3. ~(Len(nodes') > 0)
      BY <1>6, <1>8, <2>2 DEF OneBuilder
    <3> QED
      BY <1>8, <3>1, <3>2, <3>3 DEF OneBuilder
  <2>7. PMemTypes'
    BY <1>2, <1>3, <1>6, <1>8 DEF PMemTypes, ProcStep
  <2>8. PoolsListed'
    <3>1. \A n \in DOMAIN nodes' : nodes'[n].pool <= Len(uuids)
      BY <1>6 DEF TreeInv, PoolsListed
    <3> QED
      BY <1>3, <1>6, <2>5, <3>1, ListedStep
  <2>9. Fits(t, nodes, Len(uuids))
    BY <1>2, <1>4, <1>5, <1>8 DEF Fits, InCall
  <2>10. \A v \in Writers \ {w} : Near(t, proc[w], nodes, proc[v].holds)
    BY <1>4 DEF Near
  <2>11. Len(uuids) <= Len(uuids')
    BY <1>6, SizesOfTree
  <2> QED
    BY <1>3, <1>4, <1>6, <2>5, <2>6, <2>7, <2>8, <2>9, <2>10, <2>11, QuietStep
<1> QED
    BY <1>1, <1>7, <1>8

LEMMA ArchiveStep ==
    ASSUME TreeInv, NEW w \in Writers, NEW f \in Fields, NEW size \in Lengths, Archive(w, f[1], f[2], size)
    PROVE  TreeInv'
<1>1. f[1] \in Paths /\ f[2] \in Paths /\ f[2] # << >>
  <2>1. f \in Seq(Pairs) \X Seq(Pairs) /\ f[2] # << >>
    BY PMemAssumption DEF PMemAssumption
  <2> QED
    BY <2>1 DEF Paths
<1>2. Fits(proc[w], nodes, Len(uuids)) /\ WriterType(proc[w]) /\ w \in Procs /\ PMemTypes
    BY WriterFits
<1>3. master = "built" /\ Len(nodes) > 0
    BY WriterFits DEF Archive
<1> DEFINE s == [proc[w] EXCEPT !.i = f[1], !.d = f[2], !.size = size]
<1>4. /\ DOMAIN s = ProcNames /\ s.pool = proc[w].pool /\ s.at = proc[w].at /\ s.holds = proc[w].holds
      /\ s.idx = proc[w].idx /\ s.ptr = proc[w].ptr /\ s.rest = proc[w].rest
      /\ s.i = f[1] /\ s.d = f[2] /\ s.size = size
    BY <1>2 DEF WriterType, ProcNames
<1>5. PICK t : /\ Set(w, t)
               /\ \/ f[1] \in DOMAIN s.idx /\ t = [s EXCEPT !.pc = "alloc"]
                  \/ t = Walk(s, 1, f[1], "index")
    BY DEF Archive
<1> HIDE DEF s
<1>6. WriterType(s)
  <2>1. NumbersType(s)
    BY <1>2, <1>4 DEF WriterType, NumbersType
  <2> QED
    BY <1>1, <1>2, <1>4, <2>1 DEF WriterType
<1>7. ProcStep(w) /\ proc'[w] = t
    BY <1>2, <1>5, SetStep
<1>8. UNCHANGED disk
    BY DEF Archive
<1>9. CASE f[1] \in DOMAIN s.idx /\ t = [s EXCEPT !.pc = "alloc"]
  <2>1. /\ DOMAIN t = ProcNames /\ t.pool = s.pool /\ t.at = s.at /\ t.holds = s.holds
        /\ t.idx = s.idx /\ t.ptr = s.ptr /\ t.rest = s.rest /\ t.i = s.i /\ t.d = s.d /\ t.size = s.size
        /\ t.pc = "alloc"
    BY <1>6, <1>9 DEF WriterType, ProcNames
  <2>2. WriterType(t)
    <3>1. NumbersType(t)
      BY <1>6, <2>1 DEF WriterType, NumbersType
    <3> QED
      BY <1>6, <2>1, <3>1 DEF WriterType
  <2>3. Fits(t, nodes, Len(uuids))
    BY <1>1, <1>2, <1>4, <1>9, <2>1, <2>2 DEF Fits
  <2>4. \A v \in Writers \ {w} : Near(t, proc[w], nodes, proc[v].holds)
    BY <1>4, <2>1 DEF Near
  <2> QED
    BY <1>3, <1>4, <1>7, <1>8, <2>1, <2>3, <2>4, MemoryStep
<1>10. CASE t = Walk(s, 1, f[1], "index")
  <2>1. /\ WriterType(t) /\ t.pc = "walk" /\ t.at = 1 /\ t.goal = "index" /\ t.pool = s.pool /\ t.idx = s.idx
        /\ t.holds = s.holds /\ t.d = s.d /\ t.size = s.size
    BY <1>1, <1>6, <1>10, WalkFields
  <2>2. 1 <= Len(nodes)
    BY <1>3, SizesOfTree
  <2>3. Fits(t, nodes, Len(uuids))
    BY <1>1, <1>2, <1>4, <2>1, <2>2 DEF Fits
  <2>4. \A v \in Writers \ {w} : Near(t, proc[w], nodes, proc[v].holds)
    BY <1>4, <2>1 DEF Near
  <2> QED
    BY <1>3, <1>4, <1>7, <1>8, <2>1, <2>3, <2>4, MemoryStep
<1> QED
    BY <1>5, <1>9, <1>10

LEMMA NodeTypes ==
    ASSUME Tree(nodes), NEW n \in DOMAIN nodes
    PROVE  /\ nodes[n].kind \in {"branch", "data"} /\ nodes[n].kids \in Seq(Nat)
           /\ nodes[n].axis \subseteq Pairs /\ nodes[n].pool \in Nat
<1>1. nodes[n] \in NodeRecords
    BY DEF Tree
<1> QED
    BY <1>1 DEF NodeRecords

LEMMA SubNodeIsKid ==
    ASSUME Tree(nodes), NEW n \in DOMAIN nodes, NEW kv
    PROVE  \/ SubNode(n, kv) \in Kids(n) /\ SubNode(n, kv) \in DOMAIN nodes /\ SubNode(n, kv) # 0
           \/ SubNode(n, kv) = 0 /\ \A k \in Kids(n) : nodes[k].kv # kv
<1> DEFINE kids == nodes[n].kids
           at == {k \in DOMAIN kids : nodes[kids[k]].kv = kv}
<1>1. kids \in Seq(Nat)
    BY NodeTypes
<1>2. Len(kids) \in Nat /\ DOMAIN kids = 1..Len(kids)
    BY <1>1, LenProperties
<1>3. \A k \in DOMAIN kids : kids[k] \in Kids(n)
    BY DEF Kids, ToSet
<1>4. Kids(n) \subseteq DOMAIN nodes /\ 0 \notin DOMAIN nodes
  <2>1. nodes \in Seq(NodeRecords)
    BY DEF Tree
  <2>2. DOMAIN nodes = 1..Len(nodes) /\ Len(nodes) \in Nat
    BY <2>1, LenProperties
  <2> QED
    BY <2>2 DEF Tree, KidsOf, Kids
<1>5. CASE at = {}
  <2>1. \A k \in Kids(n) : nodes[k].kv # kv
    BY <1>5 DEF Kids, ToSet
  <2> QED
    BY <1>5, <2>1 DEF SubNode
<1>6. CASE at # {}
  <2>1. at \in SUBSET (0..Len(kids))
    BY <1>2
  <2> HIDE DEF at
  <2>2. \E k \in at : \A j \in at : j <= k
    BY <1>2, <1>6, <2>1, GreatestNat
  <2> DEFINE top == CHOOSE k \in at : \A j \in at : j <= k
  <2>3. top \in at
    BY <2>2
  <2>4. SubNode(n, kv) = kids[top]
    BY <1>6 DEF SubNode, at
  <2> HIDE DEF top
  <2>5. top \in DOMAIN kids
    BY <2>3 DEF at
  <2> QED
    BY <1>3, <1>4, <2>4, <2>5
<1> QED
    BY <1>5, <1>6

LEMMA SelectIndexStep ==
    ASSUME TreeInv, NEW w \in Writers, SelectIndex(w)
    PROVE  TreeInv'
<1> DEFINE s == proc[w]
           ix == PMemIndex(w, s.at, s.i)
           u == WithIndex(s, ix)
           t == [u EXCEPT !.pc = "alloc", !.at = 0, !.goal = ""]
<1>1. Fits(s, nodes, Len(uuids)) /\ WriterType(s) /\ w \in Procs /\ PMemTypes
    BY WriterFits
<1>2. s.pc = "walk" /\ s.at \in DOMAIN nodes
  <2>1. s.pc = "walk"
    BY DEF SelectIndex
  <2>2. s.at \in Nat /\ s.at # 0 /\ s.at <= Len(nodes)
    BY <1>1, <2>1 DEF Fits, WriterType, NumbersType
  <2> QED
    BY <2>1, <2>2, SizesOfTree
<1>3. DOMAIN ix = IndexNames /\ ix.node = s.at /\ ix.axes = nodes[s.at].axis
    BY DEF PMemIndex, IndexNames
<1>4. ix.node \in Nat /\ ix.axes \subseteq Pairs
  <2>1. nodes[s.at] \in NodeRecords
    BY <1>2 DEF TreeInv, Tree
  <2>2. nodes[s.at].axis \subseteq Pairs
    BY <2>1 DEF NodeRecords
  <2>3. s.at \in Nat
    BY <1>1 DEF WriterType, NumbersType
  <2> QED
    BY <1>3, <2>2, <2>3
<1>5. Set(w, t)
    BY PMemAssumption DEF SelectIndex, PMemAssumption
<1>6. ProcStep(w) /\ proc'[w] = t
    BY <1>1, <1>5, SetStep
<1>7. UNCHANGED disk
    BY DEF SelectIndex
<1>8. master = "built"
    BY <1>2, WriterFits
<1> HIDE DEF ix, s
<1>9. /\ WriterType(u) /\ DOMAIN u.idx = DOMAIN s.idx \cup {s.i} /\ u.idx[s.i] = ix
      /\ \A x \in DOMAIN s.idx : x # s.i => u.idx[x] = s.idx[x]
      /\ u.pool = s.pool /\ u.holds = s.holds /\ u.i = s.i /\ u.d = s.d /\ u.size = s.size
    BY <1>1, <1>3, <1>4, WithIndexFields
<1> HIDE DEF u
<1>10. /\ DOMAIN t = ProcNames /\ t.pool = u.pool /\ t.at = 0 /\ t.holds = u.holds
       /\ t.idx = u.idx /\ t.ptr = u.ptr /\ t.rest = u.rest /\ t.i = u.i /\ t.d = u.d /\ t.size = u.size
       /\ t.pc = "alloc"
    BY <1>9 DEF WriterType, ProcNames
<1> HIDE DEF t
<1>11. WriterType(t)
  <2>1. NumbersType(t)
    BY <1>9, <1>10 DEF WriterType, NumbersType
  <2> QED
    BY <1>9, <1>10, <2>1 DEF WriterType
<1>12. \A x \in DOMAIN t.idx : t.idx[x].node = s.at \/ \E j \in DOMAIN s.idx : t.idx[x].node = s.idx[j].node
  <2> SUFFICES ASSUME NEW x \in DOMAIN t.idx
               PROVE  t.idx[x].node = s.at \/ \E j \in DOMAIN s.idx : t.idx[x].node = s.idx[j].node
    OBVIOUS
  <2>1. CASE x = s.i
    BY <1>3, <1>9, <1>10, <2>1
  <2>2. CASE x # s.i
    BY <1>9, <1>10, <2>2
  <2> QED
    BY <2>1, <2>2
<1>13. \A x \in DOMAIN t.idx : t.idx[x].node \in DOMAIN nodes
    BY <1>1, <1>2, <1>12 DEF Fits
<1>14. Fits(t, nodes, Len(uuids))
  <2>1. t.at <= Len(nodes)
    BY <1>10, SizesOfTree
  <2>2. s.d # << >> /\ s.size \in Lengths
    BY <1>1, <1>2 DEF Fits, InCall
  <2>3. t.i \in DOMAIN t.idx
    BY <1>9, <1>10
  <2>4. t.pool <= Len(uuids) /\ t.holds \subseteq 0..Len(nodes)
    BY <1>1, <1>9, <1>10 DEF Fits
  <2> QED
    BY <1>9, <1>10, <1>11, <1>13, <2>1, <2>2, <2>3, <2>4 DEF Fits
<1>15. \A v \in Writers \ {w} : Near(t, s, nodes, proc[v].holds)
    BY <1>9, <1>10, <1>12 DEF Near
<1> QED
    BY <1>6, <1>7, <1>8, <1>9, <1>10, <1>14, <1>15, MemoryStep DEF s

(* The record of a writer that goes on with another pc, pool and mutex.     *)
Pooled(s, pc, pool, holds) == [s EXCEPT !.pc = pc, !.pool = pool, !.holds = holds]

LEMMA PoolFields ==
    ASSUME NEW s, WriterType(s), NEW pc, NEW pool \in Nat, NEW holds \in SUBSET Nat
    PROVE  LET t == Pooled(s, pc, pool, holds) IN
           /\ WriterType(t) /\ t.pc = pc /\ t.pool = pool /\ t.holds = holds /\ t.at = s.at /\ t.rest = s.rest
           /\ t.goal = s.goal /\ t.idx = s.idx /\ t.ptr = s.ptr /\ t.i = s.i /\ t.d = s.d /\ t.size = s.size
<1> DEFINE t == Pooled(s, pc, pool, holds)
<1>1. /\ DOMAIN t = ProcNames /\ t.pc = pc /\ t.pool = pool /\ t.holds = holds /\ t.at = s.at /\ t.rest = s.rest
      /\ t.goal = s.goal /\ t.idx = s.idx /\ t.ptr = s.ptr /\ t.i = s.i /\ t.d = s.d /\ t.size = s.size
    BY DEF Pooled, WriterType, ProcNames
<1> HIDE DEF t
<1>2. NumbersType(t)
    BY <1>1 DEF WriterType, NumbersType
<1>3. WriterType(t)
    BY <1>1, <1>2 DEF WriterType
<1> QED
    BY <1>1, <1>3 DEF t

LEMMA PoolFits ==
    ASSUME NEW s, NEW N, NEW u, Fits(s, N, u), s.pc \in {"alloc", "newpool", "addpool"},
           NEW pc \in {"alloc", "newpool", "addpool"}, NEW pool \in Nat, pool <= u, NEW holds \in SUBSET Nat,
           holds \subseteq 0..Len(N), pc # "alloc" => holds = {RootMutex}
    PROVE  Fits(Pooled(s, pc, pool, holds), N, u)
<1> DEFINE t == Pooled(s, pc, pool, holds)
<1>1. WriterType(s)
    BY DEF Fits
<1>2. /\ WriterType(t) /\ t.pc = pc /\ t.pool = pool /\ t.holds = holds /\ t.at = s.at /\ t.rest = s.rest
      /\ t.goal = s.goal /\ t.idx = s.idx /\ t.ptr = s.ptr /\ t.i = s.i /\ t.d = s.d /\ t.size = s.size
    BY <1>1, PoolFields
<1> HIDE DEF t
<1>3. Fits(t, N, u)
    BY <1>2 DEF Fits, InCall
<1> QED
    BY <1>3 DEF t

LEMMA PickPoolStep ==
    ASSUME TreeInv, NEW w \in Writers, PickPool(w)
    PROVE  TreeInv'
<1> DEFINE s == proc[w]
<1>1. Fits(s, nodes, Len(uuids)) /\ WriterType(s) /\ w \in Procs /\ PMemTypes
    BY WriterFits
<1>2. UNCHANGED disk /\ s.pc = "alloc" /\ Free(RootMutex)
    BY DEF PickPool
<1>3. master = "built"
    BY <1>2, WriterFits
<1>4. PICK pc \in {"alloc", "newpool"}, pool \in Nat, holds \in SUBSET Nat :
          /\ Set(w, Pooled(s, pc, pool, holds)) /\ pool <= Len(uuids) /\ holds \subseteq 0..Len(nodes)
          /\ holds = s.holds \/ holds = {RootMutex}
          /\ pc = "newpool" => holds = {RootMutex}
  <2>1. CASE uuids # << >> /\ Set(w, [s EXCEPT !.pool = uuids[Len(uuids)]])
    <3> DEFINE last == uuids[Len(uuids)]
    <3>1. Len(uuids) # 0
      BY <2>1, SizesOfTree, EmptySeq
    <3>2. last = Len(uuids)
      BY <3>1, SizesOfTree DEF TreeInv, PoolsListed
    <3>3. [s EXCEPT !.pool = last] = Pooled(s, "alloc", last, s.holds)
      BY <1>1, <1>2 DEF Pooled, WriterType, ProcNames
    <3>4. s.holds \in SUBSET Nat /\ s.holds \subseteq 0..Len(nodes)
      BY <1>1 DEF Fits, WriterType, NumbersType
    <3>5. last \in Nat /\ last <= Len(uuids)
      BY <3>2, SizesOfTree
    <3>6. Set(w, Pooled(s, "alloc", last, s.holds))
      BY <2>1, <3>3
    <3> QED
      BY <3>4, <3>5, <3>6
  <2>2. CASE Set(w, [s EXCEPT !.pc = "newpool", !.holds = {RootMutex}])
    <3>1. [s EXCEPT !.pc = "newpool", !.holds = {RootMutex}]
             = Pooled(s, "newpool", s.pool, {RootMutex})
      BY <1>1 DEF Pooled, WriterType, ProcNames
    <3>2. s.pool \in Nat /\ s.pool <= Len(uuids)
      BY <1>1 DEF Fits, WriterType, NumbersType
    <3>3. {RootMutex} \in SUBSET Nat /\ {RootMutex} \subseteq 0..Len(nodes)
      BY SizesOfTree DEF RootMutex
    <3>4. Set(w, Pooled(s, "newpool", s.pool, {RootMutex}))
      BY <2>2, <3>1
    <3> QED
      BY <3>2, <3>3, <3>4
  <2> QED
    BY <2>1, <2>2 DEF PickPool
<1> DEFINE t == Pooled(s, pc, pool, holds)
<1>5. ProcStep(w) /\ proc'[w] = t
    BY <1>1, <1>4, SetStep
<1>6. Fits(t, nodes, Len(uuids))
    BY <1>1, <1>2, <1>4, PoolFits
<1>7. t.pc = pc /\ t.holds = holds /\ t.at = s.at /\ t.idx = s.idx
    BY <1>1, <1>4, PoolFields
<1> HIDE DEF t
<1>8. \/ t.holds \subseteq s.holds
      \/ \E m : t.holds = {m} /\ \A v \in Writers \ {w} : m \notin proc[v].holds
    BY <1>2, <1>4, <1>7 DEF Free, Procs
<1>9. \A v \in Writers \ {w} : Near(t, s, nodes, proc[v].holds)
    BY <1>4, <1>7 DEF Near, RootMutex
<1> QED
    BY <1>2, <1>3, <1>4, <1>5, <1>6, <1>7, <1>8, <1>9, MemoryStep

LEMMA MakePoolStep ==
    ASSUME TreeInv, NEW w \in Writers, MakePool(w)
    PROVE  TreeInv'
<1> DEFINE s == proc[w]
           t == [s EXCEPT !.pc = "addpool"]
<1>1. Fits(s, nodes, Len(uuids)) /\ WriterType(s) /\ w \in Procs /\ PMemTypes
    BY WriterFits
<1>2. s.pc = "newpool" /\ master' = master /\ nodes' = nodes /\ uuids' = uuids
    BY DEF MakePool
<1>3. master = "built"
    BY <1>2, WriterFits
<1>4. CASE Fails(w) /\ UNCHANGED files
    BY <1>2, <1>4, FailsStep DEF disk
<1>5. CASE Len(files) = Len(uuids) /\ files' = Append(files, NewDataPool) /\ Set(w, t)
  <2>1. t = Pooled(s, "addpool", s.pool, s.holds)
    BY <1>1 DEF Pooled, WriterType, ProcNames
  <2>2. s.pool \in Nat /\ s.pool <= Len(uuids) /\ s.holds \in SUBSET Nat /\ s.holds = {RootMutex}
        /\ s.holds \subseteq 0..Len(nodes)
    BY <1>1, <1>2 DEF Fits, WriterType, NumbersType
  <2>3. ProcStep(w) /\ proc'[w] = t
    BY <1>1, <1>5, SetStep
  <2>4. Fits(t, nodes, Len(uuids))
    BY <1>1, <1>2, <2>1, <2>2, PoolFits
  <2>5. t.pc = "addpool" /\ t.holds = s.holds /\ t.at = s.at /\ t.idx = s.idx
    BY <1>1, <2>1, <2>2, PoolFields
  <2> HIDE DEF t
  <2>6. files' \in Seq(PoolRecords) /\ Len(files') = Len(files) + 1
    <3>1. NewDataPool \in PoolRecords
      BY PMemAssumption DEF NewDataPool, PoolRecords, PMemAssumption
    <3> QED
      BY <1>5, <3>1, SizesOfTree, AppendProperties
  <2>7. PMemTypes'
    BY <1>1, <1>2, <2>3, <2>6 DEF PMemTypes, ProcStep
  <2>8. OneBuilder'
    BY <1>2, <1>3, <2>3, <2>5, SizesOfTree, BuiltStep
  <2>9. PoolsListed'
    <3>1. Len(files') = Len(uuids') + 1
      BY <1>2, <1>5, <2>6
    <3>2. \A k \in DOMAIN uuids' : uuids'[k] = k
      BY <1>2 DEF TreeInv, PoolsListed
    <3>3. \A n \in DOMAIN nodes' : nodes'[n].pool <= Len(uuids')
      BY <1>2 DEF TreeInv, PoolsListed
    <3> QED
      BY <3>1, <3>2, <3>3 DEF PoolsListed
  <2>10. \A v \in Writers \ {w} : Near(t, s, nodes, proc[v].holds)
    BY <2>5 DEF Near
  <2>11. Len(uuids) <= Len(uuids') /\ Fits(t, nodes', Len(uuids'))
    BY <1>2, <2>4, SizesOfTree
  <2> QED
    BY <1>2, <2>3, <2>5, <2>7, <2>8, <2>9, <2>10, <2>11, QuietStep
<1> QED
    BY <1>4, <1>5 DEF MakePool

LEMMA AddPoolStep ==
    ASSUME TreeInv, NEW w \in Writers, AddPool(w)
    PROVE  TreeInv'
<1> DEFINE s == proc[w]
           t == Pooled(s, "alloc", Len(files), {})
<1>1. Fits(s, nodes, Len(uuids)) /\ WriterType(s) /\ w \in Procs /\ PMemTypes
    BY WriterFits
<1>2. s.pc = "addpool" /\ master' = master /\ nodes' = nodes /\ files' = files
      /\ uuids' = Append(uuids, Len(files)) /\ Set(w, t)
    BY DEF AddPool, Pooled
<1>3. master = "built"
    BY <1>2, WriterFits
<1>4. Len(files) = Len(uuids) + 1 /\ s.holds = {RootMutex}
    BY <1>1, <1>2 DEF TreeInv, PoolsListed, Fits
<1>5. ProcStep(w) /\ proc'[w] = t
    BY <1>1, <1>2, SetStep
<1>6. /\ uuids' \in Seq(Nat) /\ Len(uuids') = Len(uuids) + 1 /\ uuids'[Len(uuids) + 1] = Len(files)
      /\ \A k \in 1..Len(uuids) : uuids'[k] = uuids[k]
    BY <1>2, SizesOfTree, AppendProperties
<1>7. Len(uuids) \in Nat /\ Len(files) \in Nat /\ Len(uuids) <= Len(uuids') /\ Len(uuids') \in Nat
    BY <1>6, SizesOfTree
<1>8. Extends(nodes, nodes')
    BY <1>2, SizesOfTree DEF Extends
<1>9. Fits(s, nodes, Len(uuids'))
    BY <1>1, <1>2, <1>7, <1>8, SizesOfTree, FitsGrows
<1>10. Fits(t, nodes, Len(uuids'))
  <2>1. Len(files) <= Len(uuids')
    BY <1>4, <1>6, <1>7
  <2> QED
    BY <1>2, <1>7, <1>9, <2>1, PoolFits
<1>11. t.pc = "alloc" /\ t.holds = {} /\ t.at = s.at /\ t.idx = s.idx
    BY <1>1, <1>7, PoolFields
<1> HIDE DEF t
<1>12. PMemTypes'
    BY <1>1, <1>2, <1>5, <1>6 DEF PMemTypes, ProcStep
<1>13. OneBuilder'
    BY <1>2, <1>3, <1>5, <1>11, SizesOfTree, BuiltStep
<1>14. PoolsListed'
  <2>1. Len(files') = Len(uuids')
    BY <1>2, <1>4, <1>6
  <2>2. \A k \in DOMAIN uuids' : uuids'[k] = k
    <3>1. DOMAIN uuids' = 1..(Len(uuids) + 1)
      BY <1>6, LenProperties
    <3>2. \A k \in 1..Len(uuids) : uuids[k] = k
      BY SizesOfTree DEF TreeInv, PoolsListed
    <3> QED
      BY <1>4, <1>6, <1>7, <3>1, <3>2
  <2>3. \A n \in DOMAIN nodes' : nodes'[n].pool <= Len(uuids')
    <3>1. \A n \in DOMAIN nodes : nodes[n].pool \in Nat /\ nodes[n].pool <= Len(uuids)
      BY NodeTypes DEF TreeInv, PoolsListed
    <3> QED
      BY <1>2, <1>7, <3>1
  <2>4. \A v \in Writers : proc'[v].pc # "addpool"
    <3> SUFFICES ASSUME NEW v \in Writers, proc'[v].pc = "addpool" PROVE FALSE
      OBVIOUS
    <3>1. v # w /\ proc[v].pc = "addpool"
      BY <1>5, <1>11 DEF ProcStep
    <3>2. proc[v].holds = {RootMutex}
      BY <3>1, WriterFits DEF Fits
    <3>3. proc[v].holds \cap proc[w].holds = {}
      BY <3>1 DEF TreeInv, OneHolder
    <3> QED
      BY <1>4, <3>2, <3>3
  <2> QED
    BY <2>1, <2>2, <2>3, <2>4 DEF PoolsListed
<1>15. \A v \in Writers \ {w} : Near(t, s, nodes, proc[v].holds)
    BY <1>11 DEF Near
<1>16. Fits(t, nodes', Len(uuids'))
    BY <1>2, <1>10
<1> QED
    BY <1>2, <1>5, <1>7, <1>11, <1>12, <1>13, <1>14, <1>15, <1>16, QuietStep

(* The nodes that are created.                                             *)
LEMMA NodeRecordOf ==
    ASSUME NEW kind \in {"branch", "data"}, NEW kv \in KeyValues, NEW kids \in Seq(Nat),
           NEW axis \in SUBSET Pairs, NEW pool \in Nat
    PROVE  [kind |-> kind, kv |-> kv, kids |-> kids, axis |-> axis, pool |-> pool] \in NodeRecords
BY DEF NodeRecords

LEMMA NoKids ==
    ASSUME NEW N, NEW n, N[n].kids = << >>
    PROVE  KidsOf(N, n) = {}
BY DEF KidsOf, ToSet

LEMMA EmptyPath == << >> \in Seq(Nat)
OBVIOUS

LEMMA BranchType ==
    ASSUME NEW kv \in KeyValues
    PROVE  Branch(kv) \in NodeRecords /\ Branch(kv).kind = "branch" /\ Branch(kv).kv = kv
           /\ Branch(kv).pool = 0 /\ Branch(kv).kids = << >>
<1> DEFINE e == << >>
<1>1. e \in Seq(Nat)
    BY EmptyPath
<1>2. Branch(kv) = [kind |-> "branch", kv |-> kv, kids |-> e, axis |-> {}, pool |-> 0]
    BY DEF Branch
<1> HIDE DEF e
<1>3. Branch(kv) \in NodeRecords
    BY <1>1, <1>2, NodeRecordOf
<1>4. Branch(kv).kids = e
    BY <1>2
<1>5. Branch(kv).kids = << >>
    BY <1>4, Zenon DEF e
<1> QED
    BY <1>2, <1>3, <1>5

LEMMA DataNodeType ==
    ASSUME NEW kv \in Pairs, NEW pool \in Nat
    PROVE  DataNode(kv, pool) \in NodeRecords /\ DataNode(kv, pool).kind = "data" /\ DataNode(kv, pool).kv = kv
           /\ DataNode(kv, pool).pool = pool /\ DataNode(kv, pool).kids = << >>
<1> DEFINE e == << >>
<1>1. e \in Seq(Nat)
    BY EmptyPath
<1>2. DataNode(kv, pool) = [kind |-> "data", kv |-> kv, kids |-> e, axis |-> {}, pool |-> pool]
    BY DEF DataNode
<1> HIDE DEF e
<1>6. kv \in KeyValues
    BY DEF KeyValues
<1>3. DataNode(kv, pool) \in NodeRecords
    BY <1>1, <1>2, <1>6, NodeRecordOf
<1>4. DataNode(kv, pool).kids = e
    BY <1>2
<1>5. DataNode(kv, pool).kids = << >>
    BY <1>4, Zenon DEF e
<1> QED
    BY <1>2, <1>3, <1>5

LEMMA OneElement ==
    ASSUME NEW S, NEW b \in S
    PROVE  << b >> \in Seq(S) /\ Len(<< b >>) = 1 /\ << b >>[1] = b
OBVIOUS

LEMMA DescendStep ==
    ASSUME TreeInv, NEW w \in Writers, Descend(w)
    PROVE  TreeInv'
<1> DEFINE s == proc[w]
           k == SubNode(s.at, Head(s.rest))
<1>1. Fits(s, nodes, Len(uuids)) /\ WriterType(s) /\ w \in Procs /\ PMemTypes
    BY WriterFits
<1>2. s.pc = "walk" /\ s.rest # << >> /\ Free(s.at) /\ UNCHANGED disk
    BY DEF Descend
<1>3. s.at \in Nat /\ s.at \in DOMAIN nodes /\ s.goal \in {"index", "parent"} /\ Tree(nodes)
  <2>1. s.at \in Nat /\ s.at # 0 /\ s.at <= Len(nodes)
    BY <1>1, <1>2 DEF Fits, WriterType, NumbersType
  <2> QED
    BY <1>1, <1>2, <2>1, SizesOfTree DEF Fits, TreeInv
<1>4. master = "built"
    BY <1>2, WriterFits
<1>5. \A v \in Writers \ {w} : s.at \notin proc[v].holds
    BY <1>2 DEF Free, Procs
<1>6. w # Reader
    BY PMemAssumption DEF PMemAssumption
<1>7. \/ k \in Kids(s.at) /\ k \in DOMAIN nodes /\ k # 0
      \/ k = 0 /\ \A x \in Kids(s.at) : nodes[x].kv # Head(s.rest)
    BY <1>3, SubNodeIsKid
<1>8. \/ k # 0 /\ Set(w, Reached(s, k))
      \/ k = 0 /\ Set(w, [s EXCEPT !.pc = "grow", !.holds = {s.at}])
    BY <1>6 DEF Descend
<1> HIDE DEF k
<1>9. CASE k # 0 /\ Set(w, Reached(s, k))
  <2> DEFINE t == Reached(s, k)
  <2>1. k \in Kids(s.at) /\ k \in DOMAIN nodes /\ k \in Nat /\ k <= Len(nodes)
    BY <1>7, <1>9, SizesOfTree
  <2>2. ProcStep(w) /\ proc'[w] = t
    BY <1>1, <1>9, SetStep
  <2>3. s.goal # "data"
    BY <1>3
  <2>4. /\ WriterType(t) /\ t.pc = "walk" /\ t.at = k /\ t.goal = s.goal /\ t.pool = s.pool
        /\ t.idx = s.idx /\ t.holds = s.holds /\ t.ptr = s.ptr /\ t.i = s.i /\ t.d = s.d /\ t.size = s.size
    BY <1>1, <1>2, <2>1, <2>3, ReachedFields
  <2> HIDE DEF t
  <2>5. Fits(t, nodes, Len(uuids))
    BY <1>1, <1>2, <1>9, <2>1, <2>4 DEF Fits, InCall
  <2>6. \A v \in Writers \ {w} : Near(t, s, nodes, proc[v].holds)
    BY <1>3, <1>5, <2>1, <2>4 DEF Near, Kids, KidsOf
  <2> QED
    BY <1>2, <1>4, <2>2, <2>4, <2>5, <2>6, MemoryStep
<1>10. CASE k = 0 /\ Set(w, [s EXCEPT !.pc = "grow", !.holds = {s.at}])
  <2> DEFINE t == Pooled(s, "grow", s.pool, {s.at})
  <2>1. [s EXCEPT !.pc = "grow", !.holds = {s.at}] = t
    BY <1>1 DEF Pooled, WriterType, ProcNames
  <2>2. Set(w, t)
    BY <1>10, <2>1
  <2>3. ProcStep(w) /\ proc'[w] = t
    BY <1>1, <2>2, SetStep
  <2>4. s.pool \in Nat /\ {s.at} \in SUBSET Nat
    BY <1>1 DEF WriterType, NumbersType
  <2>5. /\ WriterType(t) /\ t.pc = "grow" /\ t.at = s.at /\ t.goal = s.goal /\ t.pool = s.pool /\ t.rest = s.rest
        /\ t.idx = s.idx /\ t.holds = {s.at} /\ t.ptr = s.ptr /\ t.i = s.i /\ t.d = s.d /\ t.size = s.size
    BY <1>1, <2>4, PoolFields
  <2> HIDE DEF t
  <2>6. Fits(t, nodes, Len(uuids))
    <3>1. t.holds \subseteq 0..Len(nodes)
      BY <1>3, <2>5, SizesOfTree
    <3> QED
      BY <1>1, <1>2, <2>5, <3>1 DEF Fits, InCall
  <2>7. master' = master /\ nodes' = nodes /\ files' = files /\ uuids' = uuids
    BY <1>2 DEF disk
  <2>8. PMemTypes'
    BY <1>1, <2>3, <2>7 DEF PMemTypes, ProcStep
  <2>9. OneBuilder'
    BY <1>4, <2>3, <2>5, <2>7, SizesOfTree, BuiltStep
  <2>10. PoolsListed'
    <3>1. \A n \in DOMAIN nodes' : nodes'[n].pool <= Len(uuids)
      BY <2>7 DEF TreeInv, PoolsListed
    <3> QED
      BY <2>3, <2>5, <2>7, <3>1, ListedStep
  <2>11. Tree(nodes)' /\ Extends(nodes, nodes')
    BY <2>7, SizesOfTree DEF TreeInv, Tree, KidsOf, Extends
  <2>12. Len(uuids) <= Len(uuids') /\ Fits(t, nodes', Len(uuids'))
    BY <2>6, <2>7, SizesOfTree
  <2>13. ASSUME NEW v \in Writers \ {w}, NEW C, OwnedBy(v, C)
         PROVE  Owns(proc[v], C, nodes') /\ Away(t, C)
    <3>1. Owns(proc[v], C, nodes) /\ Away(s, C)
      BY <2>13 DEF OwnedBy
    <3>2. Near(t, s, nodes, proc[v].holds)
      BY <2>5 DEF Near
    <3>3. Away(t, C)
      BY <3>1, <3>2, SizesOfTree, NearAway
    <3> QED
      BY <2>7, <3>1, <3>3
  <2>14. Owns(t, {}, nodes') /\ \A v \in Writers \ {w} : Away(proc[v], {})
    <3>1. \A x \in KidsOf(nodes, s.at) : nodes[x].kv # Head(s.rest)
      BY <1>7, <1>10 DEF Kids, KidsOf
    <3>2. Owns(t, {}, nodes)
      BY <2>5, <3>1 DEF Owns
    <3> QED
      BY <2>7, <3>2 DEF Away
  <2>15. \E C : Owns(t, C, nodes') /\ \A v \in Writers \ {w} : Away(proc[v], C)
    BY <2>14
  <2>16. t.holds = {s.at} /\ \A v \in Writers \ {w} : s.at \notin proc[v].holds
    BY <1>5, <2>5
  <2> QED
    BY <2>3, <2>8, <2>9, <2>10, <2>11, <2>12, <2>13, <2>15, <2>16, WriterStep
<1> QED
    BY <1>8, <1>9, <1>10

LEMMA BuildRootStep ==
    ASSUME TreeInv, NEW w \in Writers, BuildRoot(w)
    PROVE  TreeInv'
<1> DEFINE s == proc[w]
           t == [s EXCEPT !.pc = "idle"]
<1>1. Fits(s, nodes, Len(uuids)) /\ WriterType(s) /\ w \in Procs /\ PMemTypes
    BY WriterFits
<1>2. s.pc = "build" /\ master' = "built" /\ files' = files /\ uuids' = uuids /\ Set(w, t)
    BY DEF BuildRoot
<1>3. OneBuilder
    BY DEF TreeInv
<1>4. master = "made" /\ Len(nodes) = 0
  <2>1. master = "made"
    BY <1>2, <1>3 DEF OneBuilder
  <2> QED
    BY <1>3, <2>1, SizesOfTree DEF OneBuilder
<1>5. ProcStep(w) /\ proc'[w] = t
    BY <1>1, <1>2, SetStep
<1>6. /\ DOMAIN t = ProcNames /\ t.pool = s.pool /\ t.at = s.at /\ t.holds = s.holds
      /\ t.idx = s.idx /\ t.ptr = s.ptr /\ t.rest = s.rest /\ t.i = s.i /\ t.d = s.d /\ t.pc = "idle"
    BY <1>1 DEF WriterType, ProcNames
<1> HIDE DEF t
<1>7. WriterType(t)
  <2>1. NumbersType(t)
    BY <1>1, <1>6 DEF WriterType, NumbersType
  <2> QED
    BY <1>1, <1>6, <2>1 DEF WriterType
<1>8. \A v \in Writers \ {w} : proc'[v].pc \in {"closed", "make"}
  <2> SUFFICES ASSUME NEW v \in Writers \ {w} PROVE proc[v].pc \in {"closed", "make"}
    BY <1>5 DEF ProcStep
  <2>1. proc[v].pc # "build"
    BY <1>2, <1>3 DEF OneBuilder
  <2>2. proc[v].pc \in {"closed", "make", "build"}
    BY <1>3, <1>4 DEF OneBuilder
  <2> QED
    BY <2>1, <2>2
<1>20. /\ nodes' \in Seq(NodeRecords) /\ Len(nodes') = 1 /\ DOMAIN nodes' = 1..1
       /\ nodes'[1].kids = << >> /\ nodes'[1].pool = 0
  <2> DEFINE b == Branch("")
  <2>1. b \in NodeRecords /\ b.kids = << >> /\ b.pool = 0
    BY BranchType DEF KeyValues
  <2>2. nodes' = << b >>
    BY DEF BuildRoot
  <2> HIDE DEF b
  <2>3. nodes' \in Seq(NodeRecords) /\ Len(nodes') = 1 /\ nodes'[1] = b
    BY <2>1, <2>2, OneElement
  <2>4. DOMAIN nodes' = 1..1
    BY <2>3, LenProperties
  <2> QED
    BY <2>1, <2>3, <2>4
<1>9. nodes' \in Seq(NodeRecords) /\ Len(nodes') = 1 /\ DOMAIN nodes' = 1..1
    BY <1>20
<1>10. KidsOf(nodes', 1) = {} /\ nodes'[1].pool = 0
    BY <1>20, NoKids
<1>11. PMemTypes'
    BY <1>1, <1>2, <1>5 DEF PMemTypes, ProcStep
<1>12. OneBuilder'
  <2>1. \A v \in Writers : proc'[v].pc # "build"
    BY <1>5, <1>6, <1>8
  <2> QED
    BY <1>2, <1>9, <2>1 DEF OneBuilder
<1>13. PoolsListed'
  <2>1. \A n \in DOMAIN nodes' : nodes'[n].pool <= Len(uuids)
    BY <1>9, <1>10, SizesOfTree
  <2> QED
    BY <1>2, <1>5, <1>6, <2>1, ListedStep
<1>14. Tree(nodes')
    BY <1>9, <1>10 DEF Tree
<1>15. Extends(nodes, nodes')
    BY <1>4, <1>9, SizesOfTree DEF Extends
<1>16. Fits(t, nodes', Len(uuids'))
  <2>1. Fits(s, nodes', Len(uuids'))
    BY <1>1, <1>2, <1>15, SizesOfTree, FitsGrows
  <2> QED
    BY <1>6, <1>7, <2>1 DEF Fits, InCall
<1>17. \A v \in Writers \ {w} : \A C : ~OwnedBy(v, C)
    BY <1>3, <1>4 DEF OwnedBy, OneBuilder
<1>18. Len(uuids) <= Len(uuids')
    BY <1>2, SizesOfTree
<1>19. Tree(nodes)'
    BY <1>14 DEF Tree, KidsOf
<1> QED
    BY <1>5, <1>6, <1>11, <1>12, <1>13, <1>15, <1>16, <1>17, <1>18, <1>19, WriterStep

(* A kid more; other axes; a node more.                                    *)
AddKid(N, at, k) == [N EXCEPT ![at].kids = Append(@, k)]
SetAxis(N, at, axis) == [N EXCEPT ![at].axis = axis]

LEMMA NodeFields ==
    ASSUME NEW N \in Seq(NodeRecords), NEW n \in DOMAIN N
    PROVE  /\ N[n].kind \in {"branch", "data"} /\ N[n].kv \in KeyValues /\ N[n].kids \in Seq(Nat)
           /\ N[n].axis \in SUBSET Pairs /\ N[n].pool \in Nat
           /\ DOMAIN N[n] = {"kind", "kv", "kids", "axis", "pool"}
           /\ N[n] = [kind |-> N[n].kind, kv |-> N[n].kv, kids |-> N[n].kids, axis |-> N[n].axis, pool |-> N[n].pool]
<1>1. N[n] \in NodeRecords
    OBVIOUS
<1> QED
    BY <1>1 DEF NodeRecords

LEMMA SameLength ==
    ASSUME NEW N \in Seq(NodeRecords), NEW N2, DOMAIN N2 = DOMAIN N, N2 = [n \in DOMAIN N |-> N2[n]],
           \A n \in DOMAIN N : N2[n] \in NodeRecords
    PROVE  N2 \in Seq(NodeRecords) /\ Len(N2) = Len(N)
<1>1. Len(N) \in Nat /\ DOMAIN N = 1..Len(N)
    BY LenProperties
<1>2. N2 \in [1..Len(N) -> NodeRecords]
    BY <1>1
<1>3. N2 \in Seq(NodeRecords)
    BY <1>1, <1>2
<1>4. Len(N2) \in Nat /\ DOMAIN N2 = 1..Len(N2)
    BY <1>3, LenProperties
<1> QED
    BY <1>1, <1>3, <1>4

LEMMA KidAdded ==
    ASSUME NEW N \in Seq(NodeRecords), NEW at \in DOMAIN N, NEW k \in Nat
    PROVE  LET N2 == AddKid(N, at, k) IN
           /\ N2 \in Seq(NodeRecords) /\ Len(N2) = Len(N) /\ DOMAIN N2 = DOMAIN N
           /\ \A n \in DOMAIN N : N2[n].kind = N[n].kind /\ N2[n].kv = N[n].kv /\ N2[n].pool = N[n].pool
           /\ \A n \in DOMAIN N : n # at => KidsOf(N2, n) = KidsOf(N, n)
           /\ KidsOf(N2, at) = KidsOf(N, at) \cup {k}
<1> DEFINE N2 == AddKid(N, at, k)
           kids == N[at].kids
           more == Append(kids, k)
<1>1. kids \in Seq(Nat)
    BY NodeFields
<1>2. more \in Seq(Nat) /\ Len(more) = Len(kids) + 1 /\ more[Len(kids) + 1] = k
      /\ \A i \in 1..Len(kids) : more[i] = kids[i]
    BY <1>1, AppendProperties
<1>3. Len(kids) \in Nat /\ DOMAIN kids = 1..Len(kids) /\ DOMAIN more = 1..(Len(kids) + 1)
    BY <1>1, <1>2, LenProperties
<1>4. DOMAIN N2 = DOMAIN N /\ N2 = [n \in DOMAIN N |-> N2[n]] /\ \A n \in DOMAIN N : n # at => N2[n] = N[n]
    BY DEF AddKid
<1>5. N2[at] = [N[at] EXCEPT !.kids = more]
    BY DEF AddKid
<1> HIDE DEF N2, more, kids
<1>6. N2[at] = [kind |-> N[at].kind, kv |-> N[at].kv, kids |-> more, axis |-> N[at].axis, pool |-> N[at].pool]
    BY <1>5, NodeFields
<1>7. /\ N2[at].kind = N[at].kind /\ N2[at].kv = N[at].kv /\ N2[at].kids = more /\ N2[at].pool = N[at].pool
    BY <1>6
<1>8. N2[at] \in NodeRecords
  <2>1. N[at].kind \in {"branch", "data"} /\ N[at].kv \in KeyValues /\ N[at].axis \in SUBSET Pairs /\ N[at].pool \in Nat
    BY NodeFields
  <2> QED
    BY <1>2, <1>6, <2>1 DEF NodeRecords
<1>9. \A n \in DOMAIN N : N2[n] \in NodeRecords
    BY <1>4, <1>8
<1>10. N2 \in Seq(NodeRecords) /\ Len(N2) = Len(N)
    BY <1>4, <1>9, SameLength
<1>11. \A n \in DOMAIN N : N2[n].kind = N[n].kind /\ N2[n].kv = N[n].kv /\ N2[n].pool = N[n].pool
    BY <1>4, <1>7
<1>12. \A n \in DOMAIN N : n # at => KidsOf(N2, n) = KidsOf(N, n)
    BY <1>4 DEF KidsOf
<1>13. KidsOf(N2, at) = KidsOf(N, at) \cup {k}
  <2>1. ToSet(more) = ToSet(kids) \cup {k}
    <3>1. ASSUME NEW x \in ToSet(more) PROVE x \in ToSet(kids) \cup {k}
      <4>1. PICK i \in 1..(Len(kids) + 1) : x = more[i]
        BY <1>3 DEF ToSet
      <4>2. CASE i = Len(kids) + 1
        BY <1>2, <4>1, <4>2
      <4>3. CASE i \in 1..Len(kids)
        BY <1>2, <1>3, <4>1, <4>3 DEF ToSet
      <4> QED
        BY <1>3, <4>2, <4>3
    <3>2. ASSUME NEW x \in ToSet(kids) PROVE x \in ToSet(more)
      <4>1. PICK i \in 1..Len(kids) : x = kids[i]
        BY <1>3 DEF ToSet
      <4>2. i \in DOMAIN more /\ x = more[i]
        BY <1>2, <1>3, <4>1
      <4> QED
        BY <4>2 DEF ToSet
    <3>3. k \in ToSet(more)
      <4>1. Len(kids) + 1 \in DOMAIN more
        BY <1>3
      <4> QED
        BY <1>2, <4>1 DEF ToSet
    <3> QED
      BY <3>1, <3>2, <3>3
  <2> QED
    BY <1>7, <2>1 DEF KidsOf, kids
<1> QED
    BY <1>4, <1>10, <1>11, <1>12, <1>13 DEF N2

LEMMA AxisSet ==
    ASSUME NEW N \in Seq(NodeRecords), NEW at \in DOMAIN N, NEW axis \in SUBSET Pairs
    PROVE  LET N2 == SetAxis(N, at, axis) IN
           /\ N2 \in Seq(NodeRecords) /\ Len(N2) = Len(N) /\ DOMAIN N2 = DOMAIN N
           /\ \A n \in DOMAIN N : N2[n].kind = N[n].kind /\ N2[n].kv = N[n].kv /\ N2[n].pool = N[n].pool
           /\ \A n \in DOMAIN N : KidsOf(N2, n) = KidsOf(N, n)
<1> DEFINE N2 == SetAxis(N, at, axis)
<1>1. DOMAIN N2 = DOMAIN N /\ N2 = [n \in DOMAIN N |-> N2[n]] /\ \A n \in DOMAIN N : n # at => N2[n] = N[n]
    BY DEF SetAxis
<1>2. N2[at] = [N[at] EXCEPT !.axis = axis]
    BY DEF SetAxis
<1> HIDE DEF N2
<1>3. N2[at] = [kind |-> N[at].kind, kv |-> N[at].kv, kids |-> N[at].kids, axis |-> axis, pool |-> N[at].pool]
  <2>1. DOMAIN N[at] = {"kind", "kv", "kids", "axis", "pool"}
    BY NodeFields
  <2>2. DOMAIN N2[at] = {"kind", "kv", "kids", "axis", "pool"} /\ N2[at] = [x \in DOMAIN N2[at] |-> N2[at][x]]
    BY <1>2, <2>1
  <2>3. /\ N2[at].kind = N[at].kind /\ N2[at].kv = N[at].kv /\ N2[at].kids = N[at].kids
        /\ N2[at].axis = axis /\ N2[at].pool = N[at].pool
    BY <1>2, <2>1
  <2> QED
    BY <2>2, <2>3
<1>4. /\ N2[at].kind = N[at].kind /\ N2[at].kv = N[at].kv /\ N2[at].kids = N[at].kids /\ N2[at].pool = N[at].pool
    BY <1>3
<1>5. N2[at] \in NodeRecords
  <2>1. N[at].kind \in {"branch", "data"} /\ N[at].kv \in KeyValues /\ N[at].kids \in Seq(Nat) /\ N[at].pool \in Nat
    BY NodeFields
  <2> QED
    BY <1>3, <2>1 DEF NodeRecords
<1>6. \A n \in DOMAIN N : N2[n] \in NodeRecords
    BY <1>1, <1>5
<1>7. N2 \in Seq(NodeRecords) /\ Len(N2) = Len(N)
    BY <1>1, <1>6, SameLength
<1>8. \A n \in DOMAIN N : N2[n].kind = N[n].kind /\ N2[n].kv = N[n].kv /\ N2[n].pool = N[n].pool
                          /\ N2[n].kids = N[n].kids
    BY <1>1, <1>4
<1>9. \A n \in DOMAIN N : KidsOf(N2, n) = KidsOf(N, n)
    BY <1>8 DEF KidsOf
<1> QED
    BY <1>1, <1>7, <1>8, <1>9 DEF N2

LEMMA NodeAppended ==
    ASSUME NEW N \in Seq(NodeRecords), NEW b \in NodeRecords, b.kids = << >>
    PROVE  LET N2 == Append(N, b) IN
           /\ N2 \in Seq(NodeRecords) /\ Len(N) \in Nat /\ Len(N2) = Len(N) + 1
           /\ DOMAIN N = 1..Len(N) /\ DOMAIN N2 = 1..(Len(N) + 1)
           /\ \A n \in DOMAIN N : N2[n] = N[n] /\ KidsOf(N2, n) = KidsOf(N, n)
           /\ N2[Len(N) + 1] = b /\ KidsOf(N2, Len(N) + 1) = {}
<1> DEFINE N2 == Append(N, b)
<1>1. /\ N2 \in Seq(NodeRecords) /\ Len(N2) = Len(N) + 1 /\ N2[Len(N) + 1] = b
      /\ \A n \in 1..Len(N) : N2[n] = N[n]
    BY AppendProperties
<1> HIDE DEF N2
<1>2. Len(N) \in Nat /\ DOMAIN N = 1..Len(N) /\ DOMAIN N2 = 1..(Len(N) + 1)
    BY <1>1, LenProperties
<1>3. KidsOf(N2, Len(N) + 1) = {}
    BY <1>1, NoKids
<1>4. \A n \in DOMAIN N : N2[n] = N[n] /\ KidsOf(N2, n) = KidsOf(N, n)
    BY <1>1, <1>2 DEF KidsOf
<1> QED
    BY <1>1, <1>2, <1>3, <1>4 DEF N2

-----------------------------------------------------------------------------
(* The steps that change the tree.                                         *)

LEMMA BranchGrown ==
    ASSUME NEW N, Tree(N), NEW at \in DOMAIN N, NEW kv \in Pairs,
           \A k \in KidsOf(N, at) : N[k].kv # kv
    PROVE  LET new == Len(N) + 1
               N2 == AddKid(Append(N, Branch(kv)), at, new) IN
           /\ Tree(N2) /\ Extends(N, N2) /\ Len(N) \in Nat /\ Len(N2) = new
           /\ DOMAIN N = 1..Len(N) /\ DOMAIN N2 = DOMAIN N \cup {new}
           /\ N2[new].kind = "branch" /\ N2[new].pool = 0 /\ KidsOf(N2, new) = {}
           /\ \A n \in DOMAIN N : N2[n].pool = N[n].pool
           /\ \A n \in DOMAIN N : n # at => KidsOf(N2, n) = KidsOf(N, n)
           /\ KidsOf(N2, at) = KidsOf(N, at) \cup {new}
<1> DEFINE new == Len(N) + 1
           M == Append(N, Branch(kv))
           N2 == AddKid(M, at, new)
<1>1. N \in Seq(NodeRecords) /\ kv \in KeyValues
    BY DEF Tree, KeyValues
<1>2. /\ M \in Seq(NodeRecords) /\ Len(N) \in Nat /\ Len(M) = new
      /\ DOMAIN N = 1..Len(N) /\ DOMAIN M = 1..new
      /\ \A n \in DOMAIN N : M[n] = N[n] /\ KidsOf(M, n) = KidsOf(N, n)
      /\ M[new] = Branch(kv) /\ KidsOf(M, new) = {}
    BY <1>1, BranchType, NodeAppended
<1> HIDE DEF M
<1>3. at \in DOMAIN M /\ new \in Nat /\ at # new
    BY <1>2
<1> HIDE DEF new
<1>4. /\ N2 \in Seq(NodeRecords) /\ Len(N2) = Len(M) /\ DOMAIN N2 = DOMAIN M
      /\ \A n \in DOMAIN M : N2[n].kind = M[n].kind /\ N2[n].kv = M[n].kv /\ N2[n].pool = M[n].pool
      /\ \A n \in DOMAIN M : n # at => KidsOf(N2, n) = KidsOf(M, n)
      /\ KidsOf(N2, at) = KidsOf(M, at) \cup {new}
    BY <1>2, <1>3, KidAdded
<1> HIDE DEF N2
<1>5. DOMAIN M = DOMAIN N \cup {new} /\ new \notin DOMAIN N /\ Len(N) <= new
    BY <1>2 DEF new
<1>6. \A n \in DOMAIN N : N2[n].kind = N[n].kind /\ N2[n].kv = N[n].kv /\ N2[n].pool = N[n].pool
    BY <1>2, <1>4, <1>5
<1>7. N2[new].kind = "branch" /\ N2[new].kv = kv /\ N2[new].pool = 0
    BY <1>1, <1>2, <1>4, <1>5, BranchType
<1>8. KidsOf(N2, new) = {} /\ KidsOf(N2, at) = KidsOf(N, at) \cup {new}
    BY <1>2, <1>3, <1>4, <1>5
<1>9. \A n \in DOMAIN N : n # at => KidsOf(N2, n) = KidsOf(N, n)
    BY <1>2, <1>4, <1>5
<1>10. Extends(N, N2)
    BY <1>2, <1>4, <1>5, <1>6 DEF Extends
<1>11. \A n \in DOMAIN N : KidsOf(N, n) \subseteq DOMAIN N
    BY DEF Tree
<1>12. \A n \in DOMAIN N2 : KidsOf(N2, n) \subseteq DOMAIN N2
    BY <1>4, <1>5, <1>8, <1>9, <1>11
<1>13. ASSUME NEW n \in DOMAIN N2, NEW a \in KidsOf(N2, n), NEW b \in KidsOf(N2, n), a # b, N2[a].kv = N2[b].kv
       PROVE  N2[a].kind = "data" /\ N2[b].kind = "data"
  <2>1. n \in DOMAIN N
    BY <1>4, <1>5, <1>8, <1>13
  <2>2. CASE a \in KidsOf(N, n) /\ b \in KidsOf(N, n)
    <3>1. a \in DOMAIN N /\ b \in DOMAIN N
      BY <1>11, <2>1, <2>2
    <3>2. N[a].kv = N[b].kv
      BY <1>6, <1>13, <3>1
    <3>3. N[a].kind = "data" /\ N[b].kind = "data"
      BY <1>13, <2>1, <2>2, <3>2 DEF Tree
    <3> QED
      BY <1>6, <3>1, <3>3
  <2>3. CASE a = new \/ b = new
    <3>1. PICK c \in {a, b} : c # new
      BY <1>13, <2>3
    <3>2. n = at
      BY <1>5, <1>9, <1>11, <2>1, <2>3
    <3>3. c \in KidsOf(N, at) /\ c \in DOMAIN N
      BY <1>8, <1>11, <1>13, <3>1, <3>2
    <3>4. N2[c].kv # kv
      BY <1>6, <3>3
    <3> QED
      BY <1>7, <1>13, <2>3, <3>1, <3>4
  <2> QED
    BY <1>8, <1>9, <1>13, <2>1, <2>2, <2>3
<1>14. Tree(N2)
    BY <1>4, <1>12, <1>13 DEF Tree
<1> QED
    BY <1>2, <1>4, <1>5, <1>6, <1>7, <1>8, <1>9, <1>10, <1>14 DEF N2, M, new

LEMMA FieldInserted ==
    ASSUME NEW N, Tree(N), NEW at \in DOMAIN N, NEW x \in DOMAIN N, N[x].kind = "data",
           \A k \in KidsOf(N, at) : N[k].kv = N[x].kv => N[k].kind = "data"
    PROVE  LET N2 == AddKid(N, at, x) IN
           /\ Tree(N2) /\ Extends(N, N2) /\ Len(N2) = Len(N) /\ DOMAIN N2 = DOMAIN N
           /\ \A n \in DOMAIN N : N2[n].pool = N[n].pool
           /\ \A n \in DOMAIN N : n # at => KidsOf(N2, n) = KidsOf(N, n)
           /\ KidsOf(N2, at) = KidsOf(N, at) \cup {x}
<1> DEFINE N2 == AddKid(N, at, x)
<1>1. N \in Seq(NodeRecords) /\ Len(N) \in Nat /\ DOMAIN N = 1..Len(N)
    BY LenProperties DEF Tree
<1>2. x \in Nat
    BY <1>1
<1>3. /\ N2 \in Seq(NodeRecords) /\ Len(N2) = Len(N) /\ DOMAIN N2 = DOMAIN N
      /\ \A n \in DOMAIN N : N2[n].kind = N[n].kind /\ N2[n].kv = N[n].kv /\ N2[n].pool = N[n].pool
      /\ \A n \in DOMAIN N : n # at => KidsOf(N2, n) = KidsOf(N, n)
      /\ KidsOf(N2, at) = KidsOf(N, at) \cup {x}
    BY <1>1, <1>2, KidAdded
<1> HIDE DEF N2
<1>4. \A n \in DOMAIN N : KidsOf(N, n) \subseteq DOMAIN N
    BY DEF Tree
<1>5. \A n \in DOMAIN N2 : KidsOf(N2, n) \subseteq DOMAIN N2
    BY <1>3, <1>4
<1>6. Extends(N, N2)
    BY <1>1, <1>3 DEF Extends
<1>7. ASSUME NEW n \in DOMAIN N2, NEW a \in KidsOf(N2, n), NEW b \in KidsOf(N2, n), a # b, N2[a].kv = N2[b].kv
      PROVE  N2[a].kind = "data" /\ N2[b].kind = "data"
  <2>1. n \in DOMAIN N /\ a \in DOMAIN N /\ b \in DOMAIN N
    BY <1>3, <1>5
  <2>2. N[a].kv = N[b].kv
    BY <1>3, <1>7, <2>1
  <2>3. CASE a \in KidsOf(N, n) /\ b \in KidsOf(N, n)
    <3>1. N[a].kind = "data" /\ N[b].kind = "data"
      BY <1>7, <2>1, <2>2, <2>3 DEF Tree
    <3> QED
      BY <1>3, <2>1, <3>1
  <2>4. CASE ~(a \in KidsOf(N, n) /\ b \in KidsOf(N, n))
    <3>1. n = at /\ (a = x \/ b = x)
      BY <1>3, <1>7, <2>1, <2>4
    <3>2. \A c \in {a, b} : c = x \/ c \in KidsOf(N, at)
      BY <1>3, <1>7, <3>1
    <3>3. N[a].kv = N[x].kv /\ N[b].kv = N[x].kv
      BY <2>2, <3>1
    <3>4. N[a].kind = "data" /\ N[b].kind = "data"
      BY <3>2, <3>3
    <3> QED
      BY <1>3, <2>1, <3>4
  <2> QED
    BY <2>3, <2>4
<1>8. Tree(N2)
    BY <1>3, <1>5, <1>7 DEF Tree
<1> QED
    BY <1>3, <1>6, <1>8 DEF N2

(* Another writer that fills a node of its own does not notice.            *)
LEMMA OwnsBeside ==
    ASSUME NEW r, NEW C, NEW N, NEW N2, Tree(N), Owns(r, C, N), Extends(N, N2), r.at \in DOMAIN N,
           NEW at, at \notin C, at \notin r.holds, NEW x, x \notin C,
           \A n \in DOMAIN N2 : n \in DOMAIN N \/ KidsOf(N2, n) = {},
           \A n \in DOMAIN N : n # at => KidsOf(N2, n) = KidsOf(N, n),
           at \in DOMAIN N => KidsOf(N2, at) \subseteq KidsOf(N, at) \cup {x}
    PROVE  Owns(r, C, N2)
<1>1. r.at # at
    BY DEF Owns
<1>2. KidsOf(N2, r.at) \subseteq KidsOf(N, r.at)
    BY <1>1
<1>3. \A n \in DOMAIN N2 : \A k \in KidsOf(N2, n) \cap C : n \in DOMAIN N /\ k \in KidsOf(N, n)
    OBVIOUS
<1> QED
    BY <1>2, <1>3, OwnsKept

(* Where the nodes and mutexes of two writers differ.                      *)
LEMMA OwnedApart ==
    ASSUME TreeInv, NEW v \in Writers, NEW C, OwnedBy(v, C)
    PROVE  /\ Owns(proc[v], C, nodes) /\ proc[v].at \in DOMAIN nodes /\ C \subseteq DOMAIN nodes
           /\ \A w \in Writers \ {v} : Away(proc[w], C) /\ proc[w].at \notin C
<1>1. Owns(proc[v], C, nodes) /\ proc[v].pc = "grow" /\ C \subseteq DOMAIN nodes
      /\ \A w \in Writers \ {v} : Away(proc[w], C)
    BY DEF OwnedBy
<1>2. Fits(proc[v], nodes, Len(uuids)) /\ WriterType(proc[v])
    BY WriterFits
<1>3. proc[v].at \in Nat /\ proc[v].at # 0 /\ proc[v].at <= Len(nodes)
    BY <1>1, <1>2 DEF Fits, WriterType, NumbersType
<1>4. proc[v].at \in DOMAIN nodes
    BY <1>3, SizesOfTree
<1> QED
    BY <1>1, <1>4 DEF Away

LEMMA GrowStep ==
    ASSUME TreeInv, NEW w \in Writers, Grow(w)
    PROVE  TreeInv'
<1> DEFINE s == proc[w]
           new == Len(nodes) + 1
           t == [s EXCEPT !.at = new, !.rest = Tail(@), !.pc = IF Len(s.rest) = 1 THEN "walk" ELSE "grow",
                          !.holds = IF Len(s.rest) = 1 THEN {} ELSE @]
<1>1. Fits(s, nodes, Len(uuids)) /\ WriterType(s) /\ w \in Procs /\ PMemTypes
    BY WriterFits
<1>2. s.pc = "grow" /\ master' = master /\ files' = files /\ uuids' = uuids /\ Set(w, t)
    BY DEF Grow
<1>3. nodes' = AddKid(Append(nodes, Branch(Head(s.rest))), s.at, new)
    BY DEF Grow, AddKid
<1>4. master = "built" /\ Tree(nodes)
    BY <1>2, WriterFits DEF TreeInv
<1>5. s.rest # << >> /\ s.rest \in Seq(Pairs) /\ s.at \in Nat /\ s.at # 0 /\ s.at <= Len(nodes)
    BY <1>1, <1>2 DEF Fits, WriterType, NumbersType, Paths
<1>6. s.at \in DOMAIN nodes
    BY <1>5, SizesOfTree
<1>7. Head(s.rest) \in Pairs /\ Tail(s.rest) \in Paths /\ Len(s.rest) \in Nat
      /\ (Len(s.rest) # 1 => Tail(s.rest) # << >>)
  <2>1. Head(s.rest) \in Pairs /\ Tail(s.rest) \in Seq(Pairs) /\ Len(Tail(s.rest)) = Len(s.rest) - 1
    BY <1>5, HeadTailProperties
  <2>2. Len(s.rest) \in Nat
    BY <1>5, LenProperties
  <2>3. Len(s.rest) # 1 => Tail(s.rest) # << >>
    <3>1. Len(s.rest) # 1 => Len(Tail(s.rest)) # 0
      BY <2>1, <2>2
    <3> QED
      BY <2>1, <3>1, EmptySeq
  <2> QED
    BY <2>1, <2>2, <2>3 DEF Paths
<1>8. PICK C \in SUBSET DOMAIN nodes : Owns(s, C, nodes) /\ \A v \in Writers \ {w} : Away(proc[v], C)
    BY <1>2 DEF TreeInv, Grown
<1>9. \A k \in KidsOf(nodes, s.at) : nodes[k].kv # Head(s.rest)
    BY <1>8 DEF Owns
<1>10. ProcStep(w) /\ proc'[w] = t
    BY <1>1, <1>2, SetStep
<1>11. /\ DOMAIN t = ProcNames /\ t.at = new /\ t.rest = Tail(s.rest) /\ t.goal = s.goal
       /\ t.pool = s.pool /\ t.idx = s.idx /\ t.ptr = s.ptr /\ t.i = s.i /\ t.d = s.d /\ t.size = s.size
    BY <1>1 DEF WriterType, ProcNames
<1>12. \/ t.pc = "walk" /\ t.holds = {}
       \/ t.pc = "grow" /\ t.holds = s.holds /\ Len(s.rest) # 1
    BY <1>1 DEF WriterType, ProcNames
<1> DEFINE T == AddKid(Append(nodes, Branch(Head(s.rest))), s.at, new)
<1>13. /\ Tree(T) /\ Extends(nodes, T) /\ Len(nodes) \in Nat /\ Len(T) = new
       /\ DOMAIN nodes = 1..Len(nodes) /\ DOMAIN T = DOMAIN nodes \cup {new}
       /\ T[new].kind = "branch" /\ T[new].pool = 0 /\ KidsOf(T, new) = {}
       /\ \A n \in DOMAIN nodes : T[n].pool = nodes[n].pool
       /\ \A n \in DOMAIN nodes : n # s.at => KidsOf(T, n) = KidsOf(nodes, n)
       /\ KidsOf(T, s.at) = KidsOf(nodes, s.at) \cup {new}
    BY <1>4, <1>6, <1>7, <1>9, BranchGrown
<1>14. nodes' = T
    BY <1>3
<1>15. new \in Nat /\ new > 0 /\ new \notin DOMAIN nodes /\ new # 1
    BY <1>5, <1>13
<1> HIDE DEF t, T, new, s
<1>16. WriterType(t)
  <2>1. NumbersType(t)
    BY <1>1, <1>11, <1>12, <1>15 DEF WriterType, NumbersType
  <2> QED
    BY <1>1, <1>7, <1>11, <2>1 DEF WriterType
<1>17. Len(uuids) \in Nat /\ Len(uuids) <= Len(uuids')
    BY <1>2, SizesOfTree
<1>18. Fits(s, T, Len(uuids))
    BY <1>1, <1>13, <1>17, SizesOfTree, FitsGrows
<1>19. Fits(t, T, Len(uuids))
  <2>1. t.at <= Len(T) /\ t.at # 0
    BY <1>11, <1>13, <1>15
  <2>2. t.holds \subseteq 0..Len(T) /\ t.pool <= Len(uuids)
    BY <1>11, <1>12, <1>18 DEF Fits
  <2>3. t.pc = "grow" => t.rest # << >>
    BY <1>7, <1>11, <1>12
  <2>4. \A i \in DOMAIN t.idx : t.idx[i].node \in DOMAIN T
    BY <1>11, <1>18 DEF Fits
  <2>5. t.d # << >> /\ t.size \in Lengths
    BY <1>2, <1>11, <1>18 DEF Fits, InCall
  <2>6. /\ t.goal \in {"index", "parent"}
        /\ t.goal = "parent" => /\ t.i \in DOMAIN t.idx /\ t.ptr \in DOMAIN T
                                /\ T[t.ptr].kind = "data" /\ T[t.ptr].kv = Last(t.d)
    BY <1>2, <1>11, <1>18 DEF Fits
  <2> QED
    BY <1>12, <1>16, <2>1, <2>2, <2>3, <2>4, <2>5, <2>6 DEF Fits
<1>20. PMemTypes'
    BY <1>1, <1>2, <1>10 DEF PMemTypes, ProcStep
<1>21. OneBuilder'
  <2>1. Len(nodes) > 0 /\ Len(nodes') > 0 /\ Len(nodes') \in Nat
    BY <1>4, <1>13, <1>14, <1>15, WriterFits DEF TreeInv, OneBuilder
  <2>2. proc'[w].pc # "build"
    BY <1>10, <1>12
  <2> QED
    BY <1>2, <1>4, <1>10, <2>1, <2>2, BuiltStep
<1>22. PoolsListed'
  <2>1. \A n \in DOMAIN nodes : nodes[n].pool <= Len(uuids)
    BY DEF TreeInv, PoolsListed
  <2>2. \A n \in DOMAIN nodes' : nodes'[n].pool <= Len(uuids)
    <3> SUFFICES ASSUME NEW n \in DOMAIN T PROVE T[n].pool <= Len(uuids)
      BY <1>14
    <3>1. CASE n = new
      BY <1>13, <1>17, <3>1
    <3>2. CASE n \in DOMAIN nodes
      BY <1>13, <2>1, <3>2
    <3> QED
      BY <1>13, <3>1, <3>2
  <2>3. proc'[w].pc # "addpool"
    BY <1>10, <1>12
  <2> QED
    BY <1>2, <1>10, <2>2, <2>3, ListedStep
<1>23. Tree(nodes)'
  <2>1. Tree(nodes')
    BY <1>13, <1>14
  <2> QED
    BY <2>1 DEF Tree, KidsOf
<1>24. ASSUME NEW v \in Writers \ {w}, NEW D, OwnedBy(v, D)
       PROVE  Owns(proc[v], D, nodes') /\ Away(t, D)
  <2>1. Owns(proc[v], D, nodes) /\ proc[v].at \in DOMAIN nodes /\ D \subseteq DOMAIN nodes /\ Away(s, D)
    BY <1>24, OwnedApart DEF s
  <2>2. new \notin D /\ s.at \notin D
    BY <1>15, <2>1 DEF Away
  <2>3. proc[v].at \notin C /\ proc[v].holds \cap C = {}
    BY <1>8 DEF Away
  <2>4. proc[v].holds \cap s.holds = {}
    BY DEF TreeInv, OneHolder, s
  <2>5. s.at \notin proc[v].holds
    BY <1>8, <2>3, <2>4 DEF Owns
  <2>6. Owns(proc[v], D, T)
    <3>1. \A n \in DOMAIN T : n \in DOMAIN nodes \/ KidsOf(T, n) = {}
      BY <1>13
    <3>2. \A n \in DOMAIN nodes : n # s.at => KidsOf(T, n) = KidsOf(nodes, n)
      BY <1>13
    <3>3. KidsOf(T, s.at) \subseteq KidsOf(nodes, s.at) \cup {new}
      BY <1>13
    <3> QED
      BY <1>4, <1>13, <2>1, <2>2, <2>5, <3>1, <3>2, <3>3, OwnsBeside
  <2>7. Away(t, D)
    BY <1>11, <1>12, <2>1, <2>2 DEF Away
  <2> QED
    BY <1>14, <2>6, <2>7
<1>25. t.pc = "grow" => \E D : Owns(t, D, nodes') /\ \A v \in Writers \ {w} : Away(proc[v], D)
  <2> SUFFICES ASSUME t.pc = "grow"
               PROVE  \E D : Owns(t, D, T) /\ \A v \in Writers \ {w} : Away(proc[v], D)
    BY <1>14
  <2> DEFINE D == C \cup {new}
  <2>1. t.holds = s.holds
    BY <1>12
  <2>2. D \subseteq DOMAIN T \ {1}
    BY <1>8, <1>13, <1>15 DEF Owns
  <2>3. \A c \in D : T[c].kind = "branch"
    BY <1>8, <1>13 DEF Owns, Extends
  <2>4. ASSUME NEW n \in DOMAIN T, KidsOf(T, n) \cap D # {} PROVE n \in D \cup t.holds
    <3>1. CASE n = new
      BY <3>1
    <3>2. CASE n = s.at
      BY <1>8, <2>1, <3>2 DEF Owns
    <3>3. CASE n \in DOMAIN nodes /\ n # s.at
      <4>1. KidsOf(nodes, n) \cap D # {}
        BY <1>13, <2>4, <3>3
      <4>2. KidsOf(nodes, n) \subseteq DOMAIN nodes
        BY <1>4, <3>3 DEF Tree
      <4>3. KidsOf(nodes, n) \cap C # {}
        BY <1>15, <4>1, <4>2
      <4> QED
        BY <1>8, <2>1, <3>3, <4>3 DEF Owns
    <3> QED
      BY <1>13, <3>1, <3>2, <3>3
  <2>5. \A k \in KidsOf(T, t.at) : T[k].kv # Head(t.rest)
    BY <1>11, <1>13
  <2>6. Owns(t, D, T)
    BY <1>11, <2>2, <2>3, <2>4, <2>5 DEF Owns
  <2>7. ASSUME NEW v \in Writers \ {w} PROVE Away(proc[v], D)
    <3>1. Fits(proc[v], nodes, Len(uuids)) /\ WriterType(proc[v])
      BY WriterFits
    <3>2. proc[v].at \in Nat /\ proc[v].at <= Len(nodes) /\ proc[v].holds \subseteq 0..Len(nodes)
      BY <3>1 DEF Fits, WriterType, NumbersType
    <3>3. proc[v].at # new /\ new \notin proc[v].holds
      BY <1>13, <3>2 DEF new
    <3>4. \A i \in DOMAIN proc[v].idx : proc[v].idx[i].node # new
      BY <1>15, <3>1 DEF Fits
    <3>5. Away(proc[v], C)
      BY <1>8
    <3> QED
      BY <3>3, <3>4, <3>5 DEF Away
  <2> HIDE DEF D
  <2> QED
    BY <2>6, <2>7
<1>26. Fits(t, nodes', Len(uuids'))
    BY <1>2, <1>14, <1>19
<1>27. Extends(nodes, nodes')
    BY <1>13, <1>14
<1>28. t.holds \subseteq proc[w].holds
    BY <1>12 DEF s
<1> QED
    BY <1>10, <1>17, <1>20, <1>21, <1>22, <1>23, <1>24, <1>25, <1>26, <1>27, <1>28, WriterStep

LEMMA InsertDataNodeStep ==
    ASSUME TreeInv, NEW w \in Writers, InsertDataNode(w)
    PROVE  TreeInv'
<1> DEFINE s == proc[w]
           T == AddKid(nodes, s.at, s.ptr)
<1>1. Fits(s, nodes, Len(uuids)) /\ WriterType(s) /\ w \in Procs /\ PMemTypes
    BY WriterFits
<1>2. s.pc = "walk" /\ s.goal = "parent" /\ Free(s.at)
      /\ master' = master /\ files' = files /\ uuids' = uuids
    BY DEF InsertDataNode
<1>3. master = "built" /\ Tree(nodes)
    BY <1>2, WriterFits DEF TreeInv
<1>4. CASE Fails(w) /\ UNCHANGED nodes
    BY <1>2, <1>4, FailsStep DEF disk
<1>5. CASE /\ \A k \in Kids(s.at) : nodes[k].kv = Last(s.d) => nodes[k].kind = "data"
           /\ nodes' = T /\ Set(w, [s EXCEPT !.pc = "axes"])
  <2> DEFINE t == [s EXCEPT !.pc = "axes"]
  <2>1. /\ s.at \in DOMAIN nodes /\ s.ptr \in DOMAIN nodes
        /\ nodes[s.ptr].kind = "data" /\ nodes[s.ptr].kv = Last(s.d)
    <3>1. s.at \in Nat /\ s.at # 0 /\ s.at <= Len(nodes)
      BY <1>1, <1>2 DEF Fits, WriterType, NumbersType
    <3> QED
      BY <1>1, <1>2, <3>1, SizesOfTree DEF Fits
  <2>2. \A k \in KidsOf(nodes, s.at) : nodes[k].kv = nodes[s.ptr].kv => nodes[k].kind = "data"
    BY <1>5, <2>1 DEF Kids, KidsOf
  <2>3. /\ Tree(T) /\ Extends(nodes, T) /\ Len(T) = Len(nodes) /\ DOMAIN T = DOMAIN nodes
        /\ \A n \in DOMAIN nodes : T[n].pool = nodes[n].pool
        /\ \A n \in DOMAIN nodes : n # s.at => KidsOf(T, n) = KidsOf(nodes, n)
        /\ KidsOf(T, s.at) = KidsOf(nodes, s.at) \cup {s.ptr}
    BY <1>3, <2>1, <2>2, FieldInserted
  <2>4. ProcStep(w) /\ proc'[w] = t
    BY <1>1, <1>5, SetStep
  <2>5. nodes' = T
    BY <1>5
  <2> HIDE DEF T, s
  <2>6. Fits(s, T, Len(uuids))
    BY <1>1, <2>3, SizesOfTree, FitsGrows
  <2>7. /\ Fits(t, T, Len(uuids)) /\ t.pc = "axes" /\ t.at = s.at
        /\ t.holds = s.holds /\ t.idx = s.idx
    <3>1. t = Pooled(s, "axes", s.pool, s.holds)
      BY <1>1 DEF Pooled, WriterType, ProcNames
    <3>2. s.pool \in Nat /\ s.holds \in SUBSET Nat
      BY <1>1 DEF WriterType, NumbersType
    <3>3. /\ WriterType(t) /\ t.pc = "axes" /\ t.pool = s.pool /\ t.holds = s.holds /\ t.at = s.at
          /\ t.idx = s.idx /\ t.i = s.i /\ t.d = s.d /\ t.size = s.size
      BY <1>1, <3>1, <3>2, PoolFields
    <3> HIDE DEF t
    <3>4. Fits(t, T, Len(uuids))
      BY <1>2, <2>6, <3>3 DEF Fits, InCall
    <3> QED
      BY <3>3, <3>4
  <2> HIDE DEF t
  <2>8. PMemTypes'
    BY <1>1, <1>2, <2>4 DEF PMemTypes, ProcStep
  <2>9. OneBuilder'
    BY <1>2, <1>3, <2>3, <2>4, <2>5, <2>7, SizesOfTree, BuiltStep
  <2>10. PoolsListed'
    <3>1. \A n \in DOMAIN nodes' : nodes'[n].pool <= Len(uuids)
      BY <2>3, <2>5 DEF TreeInv, PoolsListed
    <3>2. proc'[w].pc # "addpool"
      BY <2>4, <2>7
    <3> QED
      BY <1>2, <2>4, <3>1, <3>2, ListedStep
  <2>11. Tree(nodes)'
    <3>1. Tree(nodes')
      BY <2>3, <2>5
    <3> QED
      BY <3>1 DEF Tree, KidsOf
  <2>12. ASSUME NEW v \in Writers \ {w}, NEW D, OwnedBy(v, D)
         PROVE  Owns(proc[v], D, nodes') /\ Away(t, D)
    <3>1. Owns(proc[v], D, nodes) /\ proc[v].at \in DOMAIN nodes /\ D \subseteq DOMAIN nodes
          /\ Away(s, D) /\ s.at \notin D
      BY <2>12, OwnedApart DEF s
    <3>2. s.at \notin proc[v].holds
      BY <1>2 DEF Free, Procs
    <3>3. s.ptr \notin D
      BY <2>1, <3>1 DEF Owns
    <3>4. Owns(proc[v], D, T)
      <4>1. \A n \in DOMAIN T : n \in DOMAIN nodes \/ KidsOf(T, n) = {}
        BY <2>3
      <4>2. \A n \in DOMAIN nodes : n # s.at => KidsOf(T, n) = KidsOf(nodes, n)
        BY <2>3
      <4>3. KidsOf(T, s.at) \subseteq KidsOf(nodes, s.at) \cup {s.ptr}
        BY <2>3
      <4> QED
        BY <1>3, <2>3, <3>1, <3>2, <3>3, <4>1, <4>2, <4>3, OwnsBeside
    <3>5. 0 \notin D
      BY <3>1, SizesOfTree
    <3>6. Away(t, D)
      BY <2>7, <3>1, <3>5 DEF Away
    <3> QED
      BY <2>5, <3>4, <3>6
  <2>13. Len(uuids) <= Len(uuids') /\ Fits(t, nodes', Len(uuids'))
    BY <1>2, <2>5, <2>7, SizesOfTree
  <2>14. Extends(nodes, nodes') /\ t.holds \subseteq proc[w].holds /\ t.pc # "grow"
    BY <2>3, <2>5, <2>7 DEF s
  <2> QED
    BY <2>4, <2>8, <2>9, <2>10, <2>11, <2>12, <2>13, <2>14, WriterStep
<1> QED
    BY <1>4, <1>5 DEF InsertDataNode, AddKid

LEMMA SaveAxesStep ==
    ASSUME TreeInv, NEW w \in Writers, SaveAxes(w)
    PROVE  TreeInv'
<1> DEFINE s == proc[w]
           ix == s.idx[s.i]
           t == Outside(s)
           T == SetAxis(nodes, ix.node, ix.axes)
<1>1. Fits(s, nodes, Len(uuids)) /\ WriterType(s) /\ w \in Procs /\ PMemTypes
    BY WriterFits
<1>2. s.pc = "axes" /\ master' = master /\ files' = files /\ uuids' = uuids /\ Set(w, t) /\ nodes' = T
    BY DEF SaveAxes, SetAxis
<1>3. master = "built" /\ Tree(nodes)
    BY <1>2, WriterFits DEF TreeInv
<1>4. s.i \in DOMAIN s.idx /\ ix.node \in DOMAIN nodes
    BY <1>1, <1>2 DEF Fits
<1>5. DOMAIN ix = IndexNames /\ ix.node \in Nat /\ ix.axes \subseteq Pairs
    BY <1>1, <1>4 DEF WriterType, IndexesType
<1>6. ProcStep(w) /\ proc'[w] = t
    BY <1>1, <1>2, SetStep
<1> HIDE DEF ix, s
<1>7. /\ WriterType(t) /\ t.pc = "idle" /\ t.pool = s.pool
      /\ t.at = 0 /\ t.holds = {} /\ t.goal = "" /\ t.idx = s.idx
    BY <1>1, OutsideFields
<1> HIDE DEF t
<1>8. /\ T \in Seq(NodeRecords) /\ Len(T) = Len(nodes) /\ DOMAIN T = DOMAIN nodes
      /\ \A n \in DOMAIN nodes : T[n].kind = nodes[n].kind /\ T[n].kv = nodes[n].kv /\ T[n].pool = nodes[n].pool
      /\ \A n \in DOMAIN nodes : KidsOf(T, n) = KidsOf(nodes, n)
    BY <1>4, <1>5, SizesOfTree, AxisSet, ZenonT(90)
<1> HIDE DEF T
<1>9. Extends(nodes, T)
    BY <1>8, SizesOfTree DEF Extends
<1>10. Tree(T)
  <2>1. \A n \in DOMAIN T : KidsOf(T, n) \subseteq DOMAIN T
    BY <1>3, <1>8 DEF Tree
  <2>2. ASSUME NEW n \in DOMAIN T, NEW a \in KidsOf(T, n), NEW b \in KidsOf(T, n), a # b, T[a].kv = T[b].kv
        PROVE  T[a].kind = "data" /\ T[b].kind = "data"
    <3>1. n \in DOMAIN nodes /\ a \in DOMAIN nodes /\ b \in DOMAIN nodes
          /\ a \in KidsOf(nodes, n) /\ b \in KidsOf(nodes, n)
      BY <1>8, <2>1
    <3>2. nodes[a].kv = nodes[b].kv
      BY <1>8, <2>2, <3>1
    <3>3. nodes[a].kind = "data" /\ nodes[b].kind = "data"
      BY <1>3, <2>2, <3>1, <3>2 DEF Tree
    <3> QED
      BY <1>8, <3>1, <3>3
  <2> QED
    BY <1>8, <2>1, <2>2 DEF Tree
<1>11. Fits(t, T, Len(uuids))
  <2>1. Fits(s, T, Len(uuids))
    BY <1>1, <1>9, SizesOfTree, FitsGrows
  <2>2. \A x \in DOMAIN t.idx : t.idx[x].node \in DOMAIN T
    BY <1>7, <2>1 DEF Fits
  <2>3. t.at <= Len(T) /\ t.holds \subseteq 0..Len(T) /\ t.pool <= Len(uuids)
    <3>1. Len(T) \in Nat
      BY <1>8, SizesOfTree
    <3>2. t.pool <= Len(uuids)
      BY <1>7, <2>1 DEF Fits
    <3>3. t.holds \subseteq 0..Len(T)
      BY <1>7
    <3>4. t.at <= Len(T)
      <4>1. t.at = 0
        BY <1>7
      <4> QED
        BY <3>1, <4>1
    <3> QED
      BY <3>2, <3>3, <3>4
  <2> QED
    BY <1>7, <2>2, <2>3 DEF Fits, InCall
<1>12. PMemTypes'
    BY <1>1, <1>2, <1>6 DEF PMemTypes, ProcStep
<1>13. OneBuilder'
    BY <1>2, <1>3, <1>6, <1>7, <1>8, SizesOfTree, BuiltStep
<1>14. PoolsListed'
  <2>1. \A n \in DOMAIN nodes' : nodes'[n].pool <= Len(uuids)
    BY <1>2, <1>8 DEF TreeInv, PoolsListed
  <2>2. proc'[w].pc # "addpool"
    BY <1>6, <1>7
  <2> QED
    BY <1>2, <1>6, <2>1, <2>2, ListedStep
<1>15. Tree(nodes)'
  <2>1. Tree(nodes')
    BY <1>2, <1>10
  <2> QED
    BY <2>1 DEF Tree, KidsOf
<1>16. ASSUME NEW v \in Writers \ {w}, NEW D, OwnedBy(v, D)
       PROVE  Owns(proc[v], D, nodes') /\ Away(t, D)
  <2>1. Owns(proc[v], D, nodes) /\ proc[v].at \in DOMAIN nodes /\ D \subseteq DOMAIN nodes /\ Away(s, D)
    BY <1>16, OwnedApart DEF s
  <2>2. Owns(proc[v], D, T)
    <3>1. \A n \in DOMAIN T : \A k \in KidsOf(T, n) \cap D : n \in DOMAIN nodes /\ k \in KidsOf(nodes, n)
      BY <1>8
    <3>2. KidsOf(T, proc[v].at) \subseteq KidsOf(nodes, proc[v].at)
      BY <1>8, <2>1
    <3> QED
      BY <1>3, <1>9, <2>1, <3>1, <3>2, OwnsKept
  <2>3. 0 \notin D
    BY <2>1, SizesOfTree
  <2>4. Away(t, D)
    BY <1>7, <2>1, <2>3 DEF Away
  <2> QED
    BY <1>2, <2>2, <2>4
<1>17. Len(uuids) <= Len(uuids') /\ Fits(t, nodes', Len(uuids'))
    BY <1>2, <1>11, SizesOfTree
<1>18. Extends(nodes, nodes') /\ t.holds \subseteq proc[w].holds /\ t.pc # "grow"
    BY <1>2, <1>7, <1>9
<1> QED
    BY <1>6, <1>12, <1>13, <1>14, <1>15, <1>16, <1>17, <1>18, WriterStep, SMTT(30)

(* What happens to the file of a data pool.                                *)
LEMMA FileChanged ==
    ASSUME NEW F \in Seq(PoolRecords), NEW p \in DOMAIN F, NEW r \in PoolRecords
    PROVE  [F EXCEPT ![p] = r] \in Seq(PoolRecords) /\ Len([F EXCEPT ![p] = r]) = Len(F)
<1>1. Len(F) \in Nat /\ DOMAIN F = 1..Len(F)
    BY LenProperties
<1> QED
    BY <1>1, ExceptSeq

LEMMA PoolFilled ==
    ASSUME NEW F \in Seq(PoolRecords), NEW p \in DOMAIN F, NEW size \in Nat, F[p].used + size <= PoolSize
    PROVE  LET F2 == [F EXCEPT ![p].used = @ + size] IN
           F2 \in Seq(PoolRecords) /\ Len(F2) = Len(F)
<1> DEFINE r == [F[p] EXCEPT !.used = @ + size]
<1>1. F[p] \in PoolRecords
    OBVIOUS
<1>2. F[p].used + size \in 0..PoolSize
    BY <1>1, PMemAssumption DEF PoolRecords, PMemAssumption
<1>3. r \in PoolRecords
    BY <1>1, <1>2 DEF PoolRecords
<1>4. [F EXCEPT ![p].used = @ + size] = [F EXCEPT ![p] = r]
    OBVIOUS
<1> HIDE DEF r
<1> QED
    BY <1>3, <1>4, FileChanged

LEMMA PoolFinalised ==
    ASSUME NEW F \in Seq(PoolRecords), NEW p \in DOMAIN F
    PROVE  LET F2 == [F EXCEPT ![p].finalised = TRUE] IN
           F2 \in Seq(PoolRecords) /\ Len(F2) = Len(F)
<1> DEFINE r == [F[p] EXCEPT !.finalised = TRUE]
<1>1. F[p] \in PoolRecords
    OBVIOUS
<1>2. r \in PoolRecords
    BY <1>1 DEF PoolRecords
<1>3. [F EXCEPT ![p].finalised = TRUE] = [F EXCEPT ![p] = r]
    OBVIOUS
<1> HIDE DEF r
<1> QED
    BY <1>2, <1>3, FileChanged

LEMMA PutSize ==
    ASSUME NEW s, WriterType(s), NEW n
    PROVE  Put(s, n).size = s.size
BY DEF Put, Walk, WriterType, ProcNames

LEMMA AllocateStep ==
    ASSUME TreeInv, NEW w \in Writers, Allocate(w)
    PROVE  TreeInv'
<1> DEFINE s == proc[w]
           new == Len(nodes) + 1
           file == files[s.pool]
<1>1. Fits(s, nodes, Len(uuids)) /\ WriterType(s) /\ w \in Procs /\ PMemTypes
    BY WriterFits
<1>2. s.pc = "alloc" /\ s.pool # 0 /\ master' = master /\ uuids' = uuids
    BY DEF Allocate
<1>3. master = "built" /\ Len(nodes) > 0 /\ Tree(nodes)
    BY <1>2, WriterFits DEF TreeInv
<1>4. s.pool \in Nat /\ s.pool <= Len(uuids) /\ s.holds \in SUBSET Nat /\ s.holds \subseteq 0..Len(nodes)
    BY <1>1 DEF Fits, WriterType, NumbersType
<1>5. s.d # << >> /\ s.size \in Nat /\ s.i \in DOMAIN s.idx
  <2>1. s.d # << >> /\ s.size \in Lengths /\ s.i \in DOMAIN s.idx
    BY <1>1, <1>2 DEF Fits, InCall
  <2>2. s.size \in Nat
    <3>1. Lengths \subseteq 1..PoolSize /\ PoolSize \in Nat
      BY PMemAssumption DEF PMemAssumption
    <3>2. Lengths \subseteq Nat
      BY <3>1
    <3> HIDE DEF s
    <3> QED
      BY <2>1, <3>2
  <2> QED
    BY <2>1, <2>2
<1>6. s.pool \in DOMAIN files
  <2>1. Len(uuids) <= Len(files)
    BY SizesOfTree DEF TreeInv, PoolsListed
  <2> QED
    BY <1>2, <1>4, <2>1, SizesOfTree
<1>7. file.used \in 0..PoolSize /\ file.finalised \in BOOLEAN
      /\ file = [used |-> file.used, finalised |-> file.finalised]
  <2>1. file \in PoolRecords
    BY <1>6, SizesOfTree
  <2> QED
    BY <2>1 DEF PoolRecords
<1>8. CASE /\ file.used + s.size <= PoolSize
           /\ files' = [files EXCEPT ![s.pool].used = @ + s.size]
           /\ nodes' = Append(nodes, DataNode(Last(s.d), s.pool)) /\ Set(w, Put(s, new))
  <2> DEFINE b == DataNode(Last(s.d), s.pool)
             T == Append(nodes, b)
             t == Put(s, new)
  <2>1. Last(s.d) \in Pairs
    <3>1. s.d \in Seq(Pairs) /\ Len(s.d) \in Nat /\ Len(s.d) # 0 /\ DOMAIN s.d = 1..Len(s.d)
      BY <1>1, <1>5, LenProperties, EmptySeq DEF WriterType, Paths
    <3> QED
      BY <3>1 DEF Last
  <2>2. b \in NodeRecords /\ b.kind = "data" /\ b.kv = Last(s.d) /\ b.pool = s.pool /\ b.kids = << >>
    BY <1>4, <2>1, DataNodeType
  <2>3. new \in Nat
    BY SizesOfTree
  <2>4. ProcStep(w) /\ proc'[w] = t
    BY <1>1, <1>8, SetStep
  <2>5. nodes' = T
    BY <1>8
  <2>6. files' \in Seq(PoolRecords) /\ Len(files') = Len(files)
    BY <1>5, <1>6, <1>8, SizesOfTree, PoolFilled
  <2> HIDE DEF b, s
  <2>7. /\ WriterType(t) /\ t.pc = "walk" /\ t.goal = "parent" /\ t.at = s.idx[s.i].node
        /\ t.ptr = new /\ t.pool = s.pool /\ t.holds = s.holds /\ t.i = s.i /\ t.d = s.d
        /\ DOMAIN t.idx = DOMAIN s.idx
        /\ \A x \in DOMAIN s.idx : t.idx[x].node = s.idx[x].node
    BY <1>1, <1>5, <2>3, PutFields
  <2>8. t.size = s.size
    BY <1>1, PutSize
  <2>9. /\ T \in Seq(NodeRecords) /\ Len(nodes) \in Nat /\ Len(T) = Len(nodes) + 1
        /\ DOMAIN nodes = 1..Len(nodes) /\ DOMAIN T = 1..(Len(nodes) + 1)
        /\ \A n \in DOMAIN nodes : T[n] = nodes[n] /\ KidsOf(T, n) = KidsOf(nodes, n)
        /\ T[new] = b /\ KidsOf(T, new) = {}
    BY <2>2, SizesOfTree, NodeAppended
  <2> HIDE DEF T, t
  <2>10. Extends(nodes, T) /\ new \in DOMAIN T /\ DOMAIN nodes \subseteq DOMAIN T
         /\ DOMAIN T = DOMAIN nodes \cup {new}
    BY <2>9 DEF Extends
  <2>11. Fits(s, T, Len(uuids))
    BY <1>1, <2>10, SizesOfTree, FitsGrows
  <2>12. s.idx[s.i].node \in DOMAIN nodes
    BY <1>1, <1>5 DEF Fits
  <2>13. Fits(t, T, Len(uuids))
    <3>1. t.at # 0 /\ t.at <= Len(T)
      BY <2>7, <2>9, <2>12
    <3>2. t.ptr \in DOMAIN T /\ T[t.ptr].kind = "data" /\ T[t.ptr].kv = Last(t.d)
      BY <2>2, <2>7, <2>9, <2>10
    <3>3. \A x \in DOMAIN t.idx : t.idx[x].node \in DOMAIN T
      BY <2>7, <2>11 DEF Fits
    <3>4. t.d # << >> /\ t.size \in Lengths
      BY <1>1, <1>2, <2>7, <2>8 DEF Fits, InCall
    <3>5. t.pool <= Len(uuids) /\ t.holds \subseteq 0..Len(T)
      BY <2>7, <2>11 DEF Fits
    <3>6. t.i \in DOMAIN t.idx
      BY <1>5, <2>7
    <3> QED
      BY <2>7, <3>1, <3>2, <3>3, <3>4, <3>5, <3>6 DEF Fits
  <2>14. PMemTypes'
    BY <1>1, <1>2, <2>4, <2>6 DEF PMemTypes, ProcStep
  <2>15. OneBuilder'
    <3>1. Len(nodes') \in Nat /\ Len(nodes') > 0
      BY <2>5, <2>9
    <3>2. proc'[w].pc # "build"
      BY <2>4, <2>7
    <3> QED
      BY <1>2, <1>3, <2>4, <3>1, <3>2, BuiltStep
  <2>16. PoolsListed'
    <3>1. \A n \in DOMAIN nodes : T[n].pool <= Len(uuids)
      BY <2>9 DEF TreeInv, PoolsListed
    <3>2. T[new].pool <= Len(uuids)
      BY <1>4, <2>2, <2>9
    <3>3. \A n \in DOMAIN nodes' : nodes'[n].pool <= Len(uuids)
      BY <2>5, <2>10, <3>1, <3>2
    <3>4. proc'[w].pc # "addpool"
      BY <2>4, <2>7
    <3> QED
      BY <1>2, <2>4, <2>6, <3>3, <3>4, ListedStep
  <2>17. Tree(T)
    <3>1. \A n \in DOMAIN T : KidsOf(T, n) \subseteq DOMAIN nodes
      BY <1>3, <2>9, <2>10 DEF Tree
    <3>2. ASSUME NEW n \in DOMAIN T, NEW a \in KidsOf(T, n), NEW c \in KidsOf(T, n), a # c, T[a].kv = T[c].kv
          PROVE  T[a].kind = "data" /\ T[c].kind = "data"
      <4>1. n \in DOMAIN nodes
        BY <2>9, <2>10, <3>2
      <4>2. a \in KidsOf(nodes, n) /\ c \in KidsOf(nodes, n) /\ a \in DOMAIN nodes /\ c \in DOMAIN nodes
        BY <2>9, <3>1, <4>1
      <4>3. T[a] = nodes[a] /\ T[c] = nodes[c]
        BY <2>9, <4>2
      <4> QED
        BY <1>3, <3>2, <4>1, <4>2, <4>3 DEF Tree
    <3>3. \A n \in DOMAIN T : KidsOf(T, n) \subseteq DOMAIN T
      BY <2>10, <3>1
    <3> QED
      BY <2>9, <3>2, <3>3 DEF Tree
  <2>18. Tree(nodes)'
    <3>1. Tree(nodes')
      BY <2>5, <2>17
    <3> QED
      BY <3>1 DEF Tree, KidsOf
  <2>19. ASSUME NEW v \in Writers \ {w}, NEW D, OwnedBy(v, D)
         PROVE  Owns(proc[v], D, nodes') /\ Away(t, D)
    <3>1. Owns(proc[v], D, nodes) /\ proc[v].at \in DOMAIN nodes /\ D \subseteq DOMAIN nodes /\ Away(s, D)
      BY <2>19, OwnedApart DEF s
    <3>2. Owns(proc[v], D, T)
      <4>1. \A n \in DOMAIN T : \A k \in KidsOf(T, n) \cap D : n \in DOMAIN nodes /\ k \in KidsOf(nodes, n)
        BY <2>9, <2>10
      <4>2. KidsOf(T, proc[v].at) \subseteq KidsOf(nodes, proc[v].at)
        BY <2>9, <3>1
      <4> QED
        BY <1>3, <2>10, <3>1, <4>1, <4>2, OwnsKept
    <3>3. Away(t, D)
      BY <1>5, <2>7, <3>1 DEF Away
    <3> QED
      BY <2>5, <3>2, <3>3
  <2>20. Len(uuids) <= Len(uuids') /\ Fits(t, nodes', Len(uuids'))
    BY <1>2, <2>5, <2>13, SizesOfTree
  <2>21. Extends(nodes, nodes') /\ t.holds \subseteq proc[w].holds /\ t.pc # "grow"
    BY <2>5, <2>7, <2>10 DEF s
  <2> QED
    BY <2>4, <2>14, <2>15, <2>16, <2>18, <2>19, <2>20, <2>21, WriterStep
<1>9. CASE /\ files' = [files EXCEPT ![s.pool].finalised = TRUE]
           /\ Set(w, [s EXCEPT !.pool = 0]) /\ UNCHANGED nodes
  <2> DEFINE t == Pooled(s, "alloc", 0, s.holds)
  <2>1. [s EXCEPT !.pool = 0] = t
    BY <1>1, <1>2 DEF Pooled, WriterType, ProcNames
  <2>2. ProcStep(w) /\ proc'[w] = t
    BY <1>1, <1>9, <2>1, SetStep
  <2>3. Fits(t, nodes, Len(uuids))
    <3>1. 0 \in Nat /\ 0 <= Len(uuids)
      BY SizesOfTree
    <3> QED
      BY <1>1, <1>2, <1>4, <3>1, PoolFits
  <2>4. t.pc = "alloc" /\ t.holds = s.holds /\ t.at = s.at /\ t.idx = s.idx
    BY <1>1, <1>4, PoolFields
  <2> HIDE DEF t
  <2>5. files' \in Seq(PoolRecords) /\ Len(files') = Len(files)
    BY <1>6, <1>9, SizesOfTree, PoolFinalised
  <2>6. PMemTypes'
    BY <1>1, <1>2, <2>2, <2>5 DEF PMemTypes, ProcStep
  <2>7. nodes' = nodes
    BY <1>9
  <2>8. OneBuilder'
    BY <1>2, <1>3, <2>2, <2>4, <2>7, SizesOfTree, BuiltStep
  <2>9. PoolsListed'
    <3>1. \A n \in DOMAIN nodes' : nodes'[n].pool <= Len(uuids)
      BY <2>7 DEF TreeInv, PoolsListed
    <3> QED
      BY <1>2, <2>2, <2>4, <2>5, <3>1, ListedStep
  <2>10. \A v \in Writers \ {w} : Near(t, s, nodes, proc[v].holds)
    BY <2>4 DEF Near
  <2>11. Len(uuids) <= Len(uuids') /\ Fits(t, nodes', Len(uuids'))
    BY <1>2, <2>3, <2>7, SizesOfTree
  <2> QED
    BY <2>2, <2>4, <2>6, <2>7, <2>8, <2>9, <2>10, <2>11, QuietStep
<1> QED
    BY <1>8, <1>9 DEF Allocate

(* The reader writes nothing, and no writer depends on what it keeps.      *)
LEMMA ReaderKeeps ==
    ASSUME TreeInv, UNCHANGED disk, DOMAIN proc' = Procs, \A w \in Writers : proc'[w] = proc[w]
    PROVE  TreeInv'
<1>1. master' = master /\ nodes' = nodes /\ files' = files /\ uuids' = uuids
    BY DEF disk
<1>2. PMemTypes'
    BY <1>1 DEF TreeInv, PMemTypes
<1>3. OneBuilder'
    BY <1>1 DEF TreeInv, OneBuilder
<1>4. PoolsListed'
    BY <1>1 DEF TreeInv, PoolsListed
<1>5. Tree(nodes)'
    BY <1>1 DEF TreeInv, Tree, KidsOf
<1>6. AllFit'
    BY <1>1 DEF TreeInv, AllFit
<1>7. OneHolder'
    BY DEF TreeInv, OneHolder
<1>8. Grown'
  <2> SUFFICES ASSUME NEW w \in Writers, proc'[w].pc = "grow"
               PROVE  \E C \in SUBSET DOMAIN nodes' :
                        Owns(proc'[w], C, nodes') /\ \A v \in Writers \ {w} : Away(proc'[v], C)
    BY DEF Grown
  <2>1. PICK C \in SUBSET DOMAIN nodes : Owns(proc[w], C, nodes) /\ \A v \in Writers \ {w} : Away(proc[v], C)
    BY DEF TreeInv, Grown
  <2> QED
    BY <1>1, <2>1
<1> QED
    BY <1>2, <1>3, <1>4, <1>5, <1>6, <1>7, <1>8 DEF TreeInv

LEMMA ReaderStepKeeps ==
    ASSUME TreeInv,
           \/ OpenReader \/ ReaderStep \/ Close(Reader)
           \/ \E f \in Fields : Retrieve(f[1], f[2])
           \/ List
    PROVE  TreeInv'
<1>1. UNCHANGED disk /\ (UNCHANGED proc \/ \E t : Set(Reader, t))
  <2>1. CASE OpenReader
    BY <2>1 DEF OpenReader
  <2>2. CASE Descend(Reader)
    BY <2>2 DEF Descend
  <2>3. CASE SelectIndex(Reader)
    BY <2>3, SMTT(30) DEF SelectIndex
  <2>4. CASE VisitNode
    BY <2>4, ZenonT(60) DEF VisitNode
  <2>5. CASE VisitKids
    BY <2>5 DEF VisitKids
  <2>6. CASE Answer
    BY <2>6 DEF Answer
  <2>7. CASE Close(Reader)
    BY <2>7 DEF Close
  <2>8. CASE \E f \in Fields : Retrieve(f[1], f[2])
    BY <2>8 DEF Retrieve
  <2>9. CASE List
    BY <2>9 DEF List
  <2> QED
    BY <2>1, <2>2, <2>3, <2>4, <2>5, <2>6, <2>7, <2>8, <2>9 DEF ReaderStep
<1>2. DOMAIN proc = Procs /\ Reader \notin Writers
    BY PMemAssumption DEF TreeInv, PMemTypes, PMemAssumption
<1>3. DOMAIN proc' = Procs /\ \A w \in Writers : proc'[w] = proc[w]
    BY <1>1, <1>2 DEF Set, Procs
<1> QED
    BY <1>1, <1>3, ReaderKeeps

(***************************************************************************)
(* Each step keeps the invariant.                                          *)
(***************************************************************************)
LEMMA TreeInvNext ==
    ASSUME TreeInv, [Next]_vars
    PROVE  TreeInv'
<1>1. ASSUME NEW w \in Writers, Obtain(w) \/ Step(w) \/ Close(w) \/ Crash(w)
      PROVE  TreeInv'
    BY <1>1, ObtainStep, CloseStep, MakeMasterStep, BuildRootStep, DescendStep, GrowStep,
       SelectIndexStep, InsertDataNodeStep, SaveAxesStep, PickPoolStep, MakePoolStep, AddPoolStep,
       AllocateStep DEF Step
<1>2. ASSUME NEW w \in Writers, NEW f \in Fields, NEW size \in Lengths, Archive(w, f[1], f[2], size)
      PROVE  TreeInv'
    BY <1>2, ArchiveStep
<1>3. CASE OpenReader \/ ReaderStep \/ Close(Reader) \/ (\E f \in Fields : Retrieve(f[1], f[2])) \/ List
    BY <1>3, ReaderStepKeeps
<1>4. CASE UNCHANGED vars
  <2>1. UNCHANGED disk /\ UNCHANGED proc
    BY <1>4 DEF vars, disk
  <2>2. DOMAIN proc' = Procs
    BY <2>1 DEF TreeInv, PMemTypes
  <2> QED
    BY <2>1, <2>2, ReaderKeeps
<1> QED
    BY <1>1, <1>2, <1>3, <1>4 DEF Next

(* Persistent memory alone: whatever the interleaving of the writers and    *)
(* wherever they die, two branches below one node never have the same pair  *)
(* (PBranchingNode.cc, the mutexes of the nodes), every field is in a pool  *)
(* that the master lists, and no pool is overfull.                         *)
THEOREM PMemTreeSound == Spec => []TreeSound
<1>1. Init => TreeInv
    BY TreeInvInit
<1>2. TreeInv /\ [Next]_vars => TreeInv'
    BY TreeInvNext
<1>3. TreeInv => TreeSound
    BY TreeInvSound
<1> QED
    BY <1>1, <1>2, <1>3, PTL DEF Spec

(* The same of a database of any store: the steps of a toc leave the pools  *)
(* alone.                                                                   *)
THEOREM TreeSoundHolds == BSpec => []TreeSound
<1>1. BInit => TreeInv
    BY TreeInvInit DEF BInit
<1>2. TreeInv /\ [BNext]_<<vars, lsmvars>> => TreeInv'
  <2> SUFFICES ASSUME TreeInv, [BNext]_<<vars, lsmvars>> PROVE TreeInv'
    OBVIOUS
  <2>1. [Next]_vars
    BY DEF BNext
  <2> QED
    BY <2>1, TreeInvNext
<1>3. TreeInv => TreeSound
    BY TreeInvSound
<1> QED
    BY <1>1, <1>2, <1>3, PTL DEF BSpec
===============================================================================
