----------------------------- MODULE RootsProofs -----------------------------
(***************************************************************************)
(* Proofs about Roots: that the databases of a key, and those of an        *)
(* experiment, are in one root however many writers look for them at once, *)
(* that a writer uses the root where it found its database, and that a     *)
(* visit finds every database that answers it.                             *)
(*                                                                         *)
(* PlaceInv is the inductive invariant.  A search that is under way is     *)
(* described by Seen: the databases that were there as it began still are, *)
(* and the roots it has passed do not hold any it has not counted.  Where  *)
(* a search may end is described by Belongs: the configuration, or the     *)
(* expver file, has one root for a key.  Moves and wipes break both, for   *)
(* the keys in loose only (MovedAreLoose).                                 *)
(***************************************************************************)
EXTENDS Roots, Lemmas

(* The names of directories, and where they may be. *)
Paths == {DbPathName(k) : k \in Keys}
Places == Mounted \X Paths
Expvers == {k["expver"] : k \in Keys}
SpacePaths(s) == {r.path : r \in ToSet(s.roots)}

Tables == UNION {[E -> Mounted] : E \in SUBSET Expvers}

Searches ==
    [pc : {"exists", "select", "append", "write", "chosen"}, key : Keys,
     before : SUBSET Places, i : Nat \ {0}, count : Nat, root : Mounted \cup {""}]

DiskTypes ==
    /\ DOMAIN toc \subseteq Places /\ toc \in [DOMAIN toc -> Keys]
    /\ \A d \in DOMAIN toc : d[2] = DbPathName(toc[d])
    /\ allow \subseteq DOMAIN toc /\ loose \subseteq Keys

RootTypes ==
    /\ expvers \in Seq(Expvers \X Mounted)
    /\ flock \in Procs \cup {None}
    /\ table \in [Procs -> Tables]
    /\ proc \in [Procs -> Searches \cup {Idle}]
    /\ jobs \in 0..MaxJobs

(* What may be duplicated, or is being moved, has been moved. *)
MovedAreLoose ==
    /\ \A d \in allow : toc[d] \in loose
    /\ \A m \in moving : /\ moving = {m} /\ m[1] # m[2]
                         /\ m[1] \in DOMAIN toc /\ m[2] \in DOMAIN toc
                         /\ toc[m[1]] \in loose /\ toc[m[2]] \in loose

(* The lock of the expver file, and what is known of the key that is looked for. *)
Stage(p, s, lock) ==
    /\ s.pc = "write" <=> lock = p
    /\ s.pc # "idle" => IF FixedRoot # "" THEN s.pc = "chosen" ELSE SpaceOf(s.key) # 0
    /\ s.pc \in {"append", "write"} =>
           Spaces[SpaceOf(s.key)].handler = "expver" /\ s.root \in ArchiveRoots(s.key)
    /\ s.pc = "chosen" => s.root # ""
    /\ s.pc = "select" => s.root = ""

Stages == \A p \in Procs : Stage(p, proc[p], flock)

(* The databases that were there when the search began are found by it. *)
Seen(s, t) ==
    /\ \A d \in s.before : d \in DOMAIN t /\ t[d] = s.key /\ d[1] \in ListRoots(s.key)
    /\ s.pc = "exists" =>
           /\ s.count = 0 <=> s.root = ""
           /\ \A d \in s.before, j \in 1..Len(RootsOf(s.key)) :
                  j < s.i /\ RootsOf(s.key)[j].path = d[1] /\ Lists(RootsOf(s.key)[j])
                      => s.count > 0 /\ (s.count = 1 => s.root = d[1])
    /\ s.pc \in {"select", "append", "write"} => s.before = {}
    /\ s.pc = "chosen" => \A d \in s.before : s.root = d[1]

AllSeen ==
    \A p \in Procs : proc[p].pc # "idle" /\ proc[p].key \notin loose => Seen(proc[p], toc)

(* The root that the configuration, or the expver file, has for the databases of k. *)
Belongs(k, r, lines) ==
    /\ HandlerOf(k) \in {"Default", "Random", "expver"}
    /\ HandlerOf(k) = "Default" => IF FixedRoot # "" THEN r = FixedRoot ELSE r \in First(k)
    /\ HandlerOf(k) = "expver" => <<k["expver"], r>> \in lines

TocBelongs ==
    \A d \in DOMAIN toc : toc[d] \notin loose => Belongs(toc[d], d[1], ToSet(expvers))
ProcBelongs ==
    \A p \in Procs :
        proc[p].pc \in {"exists", "chosen"} /\ proc[p].key \notin loose /\ proc[p].root # ""
            => Belongs(proc[p].key, proc[p].root, ToSet(expvers))

(* An experiment is written down once, and nothing else is remembered. *)
OneLine ==
    /\ \A l, m \in ToSet(expvers) : l[1] = m[1] => l = m
    /\ \A p \in Procs : \A e \in DOMAIN table[p] : <<e, table[p][e]>> \in ToSet(expvers)
    /\ \A p \in Procs : proc[p].pc = "write" =>
           \A l \in ToSet(expvers) : l[1] # proc[p].key["expver"]

PlaceInv ==
    DiskTypes /\ RootTypes /\ MovedAreLoose /\ Stages /\ AllSeen /\ TocBelongs /\ ProcBelongs /\ OneLine

(* Whatever is created is in a root of a file space for its key. *)
Held(k, r) == \E s \in ToSet(Spaces) : Accepts(s.re, k) /\ r \in SpacePaths(s)
AllHeld ==
    /\ \A d \in DOMAIN toc : Held(toc[d], d[1])
    /\ \A p \in Procs : proc[p].pc # "idle" /\ proc[p].root # "" => Held(proc[p].key, proc[p].root)
    /\ \A l \in ToSet(expvers) :
           \E s \in ToSet(Spaces) : s.handler = "expver" /\ l[2] \in SpacePaths(s)

(* The request gives the keywords that the file spaces ask about. *)
Clear(rq) == rq.all \/ \A s \in ToSet(Spaces) : \A kw \in DOMAIN s.re : rq.key[kw] # Missing

Visits ==
    [pc : {"scan", "done"}, rq : Requests, found : SUBSET Places, always : SUBSET Places,
     todo : SUBSET Mounted]

VisitInv ==
    /\ reader.pc \in {"none", "throws"} \/ reader \in Visits
    /\ reader.pc = "scan" =>
           /\ reader.always \subseteq DOMAIN toc
           /\ \A d \in reader.always :
                  d[1] \in VisitableRoots(reader.rq) \cap ListedRoots
                      => d[1] \in reader.todo \/ d \in reader.found
    /\ reader.pc = "done" =>
           \A k \in Keys, r \in Mounted :
               /\ <<r, DbPathName(k)>> \in reader.found => Answers(k, reader.rq)
               /\ /\ <<r, DbPathName(k)>> \in reader.always /\ r \in ListedRoots
                  /\ Answers(k, reader.rq) /\ Clear(reader.rq)
                  /\ TakesMissing(reader.rq, DbPathName(k))
                  => <<r, DbPathName(k)>> \in reader.found

----------------------------------------------------------------------------
(* Configuration files and what is looked up in them. *)

(* The least element of a set of naturals is in it. *)
LEMMA MinIsIn ==
    ASSUME NEW T \in SUBSET Nat, T # {}
    PROVE  Min(T) \in T
<1>1. PICK m \in T : \A k \in T : m <= k
    BY LeastNat
<1> QED
    BY <1>1 DEF Min

LEMMA MinOfOne ==
    ASSUME NEW n \in Nat, NEW T, T = {n}
    PROVE  Min(T) = n
<1>1. T \in SUBSET Nat /\ T # {}
    OBVIOUS
<1>2. Min(T) \in T
    BY <1>1, MinIsIn
<1> QED
    BY <1>2

(* A function on 1..n is a sequence of length n. *)
LEMMA LenOf ==
    ASSUME NEW n \in Nat, NEW f, f = [i \in 1..n |-> f[i]]
    PROVE  Len(f) = n /\ DOMAIN f = 1..Len(f) /\ f \in Seq({f[i] : i \in 1..n})
<1>1. f \in [1..n -> {f[i] : i \in 1..n}]
    OBVIOUS
<1>2. f \in Seq({f[i] : i \in 1..n})
    BY <1>1
<1>3. DOMAIN f = 1..n
    BY <1>1
<1> QED
    BY <1>2, <1>3

LEMMA OneElement ==
    ASSUME NEW x
    PROVE  Len(<<x>>) = 1 /\ DOMAIN <<x>> = {1} /\ <<x>>[1] = x
OBVIOUS

(* What is kept of a sequence is a sequence. *)
LEMMA KeptIsSeq ==
    ASSUME NEW s, NEW n \in Nat, NEW at \in SUBSET (1..n)
    PROVE  /\ Len(Kept(s, at)) \in Nat
           /\ DOMAIN Kept(s, at) = 1..Len(Kept(s, at))
<1>1. Cardinality(at) \in Nat
  <2>1. IsFiniteSet(1..n)
    BY FS_Interval
  <2>2. IsFiniteSet(at)
    BY <2>1, FS_Subset
  <2> QED
    BY <2>2, FS_CardinalityType
<1>2. PICK f : f = Kept(s, at)
    OBVIOUS
<1>3. f = [j \in 1..Cardinality(at) |-> f[j]]
    BY <1>2 DEF Kept
<1>4. Len(f) = Cardinality(at) /\ DOMAIN f = 1..Len(f)
    BY <1>1, <1>3, LenOf
<1> QED
    BY <1>1, <1>2, <1>4

LEMMA ConfigurationShape ==
    /\ Len(Spaces) \in Nat /\ DOMAIN Spaces = 1..Len(Spaces)
    /\ \A i \in DOMAIN Spaces :
           Len(Spaces[i].roots) \in Nat /\ DOMAIN Spaces[i].roots = 1..Len(Spaces[i].roots)
    /\ Len(Namers) \in Nat /\ DOMAIN Namers = 1..Len(Namers)
<1>1. /\ Len(Lines(RootsFile, 4)) \in Nat
      /\ DOMAIN Lines(RootsFile, 4) = 1..Len(Lines(RootsFile, 4))
    BY RootsAssumption, KeptIsSeq DEF Lines
<1>2. /\ Len(Lines(SpacesFile, 3)) \in Nat
      /\ DOMAIN Lines(SpacesFile, 3) = 1..Len(Lines(SpacesFile, 3))
    BY RootsAssumption, KeptIsSeq DEF Lines
<1>3. /\ Len(Lines(NamesFile, 2)) \in Nat
      /\ DOMAIN Lines(NamesFile, 2) = 1..Len(Lines(NamesFile, 2))
    BY RootsAssumption, KeptIsSeq DEF Lines
<1>4. Len(Namers) \in Nat /\ DOMAIN Namers = 1..Len(Namers)
  <2>1. PICK f : f = Namers
    OBVIOUS
  <2>2. f = [i \in 1..Len(Lines(NamesFile, 2)) |-> f[i]]
    BY <1>3, <2>1 DEF Namers
  <2>3. Len(f) = Len(Lines(NamesFile, 2)) /\ DOMAIN f = 1..Len(f)
    BY <1>3, <2>2, LenOf
  <2> QED
    BY <1>3, <2>1, <2>3
<1>5. \A name : /\ Len(SpaceRoots(name)) \in Nat
                /\ DOMAIN SpaceRoots(name) = 1..Len(SpaceRoots(name))
  <2>1. DOMAIN AllRoots = 1..Len(Lines(RootsFile, 4))
    BY <1>1 DEF AllRoots
  <2> QED
    BY <1>1, <2>1, KeptIsSeq DEF SpaceRoots
<1>6. CASE FixedRoot # ""
  <2>1. PICK f : f = Spaces
    OBVIOUS
  <2>2. PICK r : r = [path |-> FixedRoot, archive |-> TRUE, list |-> TRUE]
    OBVIOUS
  <2>3. f = <<[re |-> Empty, handler |-> "Default", roots |-> <<r>>]>>
    BY <1>6, <2>1, <2>2 DEF Spaces
  <2>4. Len(f) = 1 /\ DOMAIN f = 1..1 /\ f[1].roots = <<r>>
    BY <2>3
  <2> QED
    BY <1>4, <2>1, <2>4
<1>7. CASE FixedRoot = ""
  <2>1. PICK f : f = Spaces
    OBVIOUS
  <2>2. PICK line : line = Lines(SpacesFile, 3)
    OBVIOUS
  <2>3. f = [i \in 1..Len(line) |-> [re |-> line[i][1], handler |-> line[i][3],
                                     roots |-> SpaceRoots(line[i][2])]]
    BY <1>2, <1>7, <2>1, <2>2 DEF Spaces
  <2>4. Len(line) \in Nat
    BY <1>2, <2>2
  <2>5. f = [i \in 1..Len(line) |-> f[i]]
    BY <2>3
  <2>6. Len(f) = Len(line) /\ DOMAIN f = 1..Len(f)
    BY <2>4, <2>5, LenOf
  <2>7. \A i \in DOMAIN f : f[i].roots = SpaceRoots(line[i][2])
    BY <2>3, <2>4, <2>6
  <2> QED
    BY <1>4, <1>5, <2>1, <2>4, <2>6, <2>7
<1> QED
    BY <1>6, <1>7

(* The file space of a key is one that matches it. *)
LEMMA SpaceOfFits ==
    ASSUME NEW k, SpaceOf(k) # 0
    PROVE  SpaceOf(k) \in DOMAIN Spaces /\ Accepts(Spaces[SpaceOf(k)].re, k)
<1> DEFINE I == {i \in 1..Len(Spaces) : Accepts(Spaces[i].re, k)}
<1>1. SpaceOf(k) = IF I # {} THEN Min(I) ELSE 0
    BY DEF SpaceOf, SelectInSeq
<1>2. I # {} /\ I \in SUBSET Nat
    BY <1>1, ConfigurationShape
<1>3. Min(I) \in I
    BY <1>2, MinIsIn
<1> QED
    BY <1>1, <1>2, <1>3, ConfigurationShape

(* FDB_ROOT_DIRECTORY is the only root of the only file space. *)
LEMMA FixedSpace ==
    ASSUME FixedRoot # "", NEW k
    PROVE  /\ SpaceOf(k) = 1 /\ 1 \in DOMAIN Spaces
           /\ ArchiveRoots(k) \subseteq {FixedRoot} /\ ListRoots(k) \subseteq {FixedRoot}
           /\ Held(k, FixedRoot)
           /\ \A i \in DOMAIN Spaces : Spaces[i].handler = "Default"
<1>2. PICK r : r = [path |-> FixedRoot, archive |-> TRUE, list |-> TRUE]
    OBVIOUS
<1>3. PICK s : s = [re |-> Empty, handler |-> "Default", roots |-> <<r>>]
    OBVIOUS
<1>s. s.re = Empty /\ s.handler = "Default" /\ s.roots = <<r>>
    BY ONLY <1>3
<1>4. Len(Spaces) = 1 /\ DOMAIN Spaces = {1} /\ Spaces[1] = s
  <2>1. Spaces = <<s>>
    BY <1>2, <1>3 DEF Spaces
  <2>2. Len(<<s>>) = 1 /\ DOMAIN <<s>> = {1} /\ <<s>>[1] = s
    BY OneElement
  <2> QED
    BY ONLY <2>1, <2>2
<1>5. Accepts(Spaces[1].re, k)
  <2>1. Spaces[1].re = Empty
    BY ONLY <1>s, <1>4
  <2>2. DOMAIN Empty = {}
    BY DEF Empty
  <2> QED
    BY <2>1, <2>2 DEF Accepts
<1>6. SpaceOf(k) = 1
  <2> DEFINE I == {i \in 1..Len(Spaces) : Accepts(Spaces[i].re, k)}
  <2>1. SpaceOf(k) = IF I # {} THEN Min(I) ELSE 0
    BY DEF SpaceOf, SelectInSeq
  <2>2. 1..Len(Spaces) = {1}
    BY ONLY <1>4
  <2>3. I = {1}
    BY <1>5, <2>2
  <2>4. I = {1} => Min(I) = 1
    BY MinOfOne
  <2> QED
    BY <2>1, <2>3, <2>4
<1>7. ToSet(Spaces[1].roots) = {r} /\ Spaces[1] \in ToSet(Spaces)
  <2>1. Spaces[1].roots = <<r>>
    BY ONLY <1>s, <1>4
  <2>2. DOMAIN <<r>> = {1} /\ <<r>>[1] = r
    BY OneElement
  <2>3. ToSet(Spaces[1].roots) = {r}
    BY <2>1, <2>2 DEF ToSet
  <2> QED
    BY <1>4, <2>3 DEF ToSet
<1>8. r.path = FixedRoot
    BY <1>2
<1>9. ArchiveRoots(k) \subseteq {FixedRoot} /\ ListRoots(k) \subseteq {FixedRoot}
  <2>1. ToSet(RootsOf(k)) = {r}
    BY <1>6, <1>7 DEF RootsOf
  <2> QED
    BY <1>8, <2>1 DEF ArchiveRoots, ListRoots
<1>10. Held(k, FixedRoot)
    BY <1>5, <1>7, <1>8 DEF Held, SpacePaths
<1> QED
    BY <1>s, <1>4, <1>6, <1>9, <1>10

(* The first root that may be archived to is one of them. *)
LEMMA FirstArchives ==
    ASSUME NEW k, SpaceOf(k) \in DOMAIN Spaces, ArchiveRoots(k) # {}
    PROVE  First(k) \subseteq ArchiveRoots(k)
<1> DEFINE rs == RootsOf(k)
           I == {i \in 1..Len(rs) : Archives(rs[i])}
<1>1. Len(rs) \in Nat /\ DOMAIN rs = 1..Len(rs)
    BY ConfigurationShape DEF RootsOf
<1>2. I # {} /\ I \in SUBSET Nat
    BY <1>1 DEF ArchiveRoots, ToSet
<1>3. SelectInSeq(rs, LAMBDA r : Archives(r)) = Min(I)
    BY <1>2 DEF SelectInSeq
<1>4. Min(I) \in I
    BY <1>2, MinIsIn
<1>5. First(k) = {rs[Min(I)].path}
    BY <1>3 DEF First
<1> QED
    BY <1>1, <1>4, <1>5 DEF ArchiveRoots, ToSet

(* Roots of the file space of a key hold its databases, and are mounted. *)
LEMMA RootsHold ==
    ASSUME NEW k, SpaceOf(k) # 0
    PROVE  /\ ArchiveRoots(k) \subseteq Mounted /\ ListRoots(k) \subseteq Mounted
           /\ \A r \in ArchiveRoots(k) : Held(k, r)
           /\ \A r \in ListRoots(k) : Held(k, r)
           /\ Spaces[SpaceOf(k)] \in ToSet(Spaces)
           /\ SpacePaths(Spaces[SpaceOf(k)]) = {r.path : r \in ToSet(RootsOf(k))}
<1>1. SpaceOf(k) \in DOMAIN Spaces /\ Accepts(Spaces[SpaceOf(k)].re, k)
    BY SpaceOfFits
<1> QED
    BY <1>1 DEF ArchiveRoots, ListRoots, Held, SpacePaths, RootsOf, ToSet, Archives, Lists

(* The line of an experiment, if there is one. *)
LEMMA RecordedLine ==
    ASSUME NEW S, expvers \in Seq(S), NEW e
    PROVE  /\ Recorded(e) # 0 => /\ Recorded(e) \in 1..Len(expvers)
                                 /\ expvers[Recorded(e)] \in ToSet(expvers)
                                 /\ expvers[Recorded(e)][1] = e
           /\ Recorded(e) = 0 => \A l \in ToSet(expvers) : l[1] # e
<1> DEFINE I == {i \in 1..Len(expvers) : expvers[i][1] = e}
<1>1. Recorded(e) = IF I # {} THEN Min(I) ELSE 0
    BY DEF Recorded, SelectInSeq
<1>2. Len(expvers) \in Nat /\ DOMAIN expvers = 1..Len(expvers) /\ I \in SUBSET Nat
    OBVIOUS
<1>3. I # {} => Min(I) \in I
    BY <1>2, MinIsIn
<1>4. CASE I = {}
  <2>1. \A l \in ToSet(expvers) : l[1] # e
    BY <1>2, <1>4 DEF ToSet
  <2> QED
    BY <1>1, <1>4, <2>1
<1>5. CASE I # {}
  <2>1. Recorded(e) \in I
    BY <1>1, <1>3, <1>5
  <2> QED
    BY <1>2, <2>1 DEF ToSet
<1> QED
    BY <1>4, <1>5

(* What is loaded was written down. *)
LEMMA LoadedLines ==
    ASSUME NEW S, expvers \in Seq(S), NEW e \in DOMAIN Loaded
    PROVE  \E l \in ToSet(expvers) : l[1] = e /\ Loaded[e] = l[2]
<1> DEFINE I == {i \in 1..Len(expvers) : expvers[i][1] = e}
           last == SelectLastInSeq(expvers, LAMBDA l : l[1] = e)
<1>1. Len(expvers) \in Nat /\ DOMAIN expvers = 1..Len(expvers)
    OBVIOUS
<1>2. I # {} /\ I \in SUBSET (0..Len(expvers))
    BY <1>1 DEF Loaded, ToSet
<1>3. last = Max(I)
    BY <1>2 DEF SelectLastInSeq
<1>4. Max(I) \in I
  <2>1. PICK m \in I : \A j \in I : j <= m
    BY <1>1, <1>2, GreatestNat
  <2>2. \A j \in I : m >= j
    BY <1>2, <2>1
  <2> QED
    BY <2>2 DEF Max
<1>5. Loaded[e] = expvers[last][2]
    BY DEF Loaded
<1> QED
    BY <1>1, <1>3, <1>4, <1>5 DEF ToSet
----------------------------------------------------------------------------
(* The steps, by what they may change. *)

SearchStep ==
    \/ \E p \in Procs, k \in Keys : Begin(p, k)
    \/ \E p \in Procs :
           \/ ExistsAt(p) \/ Exists(p) \/ SelectFirst(p) \/ SelectAny(p) \/ SelectExpver(p)
           \/ AppendRead(p) \/ AppendWrite(p) \/ Crash(p)
VisitStep == (\E rq \in Requests : Visit(rq)) \/ (\E r \in Mounted : Scan(r)) \/ MatchAll

LEMMA NextSteps ==
    ASSUME Next
    PROVE  \/ SearchStep \/ VisitStep
           \/ \E p \in Procs : Create(p)
           \/ \E d \in DOMAIN toc : Wipe(d)
           \/ \E d \in DOMAIN toc, r \in Mounted : MoveToc(d, r)
           \/ MoveDone
BY SMTT(30) DEF Next, SearchStep, VisitStep

LEMMA SearchKeepsDisk ==
    ASSUME SearchStep
    PROVE  UNCHANGED <<toc, allow, moving, loose, reader>>
BY DEF SearchStep, Begin, ExistsAt, Exists, SelectFirst, SelectAny, SelectExpver, AppendRead,
       AppendWrite, Crash, disk

LEMMA VisitKeepsAll ==
    ASSUME VisitStep
    PROVE  UNCHANGED <<toc, allow, moving, loose, expvers, flock, table, proc>>
BY DEF VisitStep, Visit, Scan, MatchAll, disk, handler

(* A process that searches has a record of its search. *)
LEMMA SearchRecord ==
    ASSUME RootTypes, NEW p \in Procs, proc[p].pc # "idle"
    PROVE  proc[p] \in Searches
BY DEF RootTypes, Idle

LEMMA OtherProcs ==
    ASSUME RootTypes, NEW p \in Procs, NEW t, Go(p, t)
    PROVE  proc'[p] = t /\ \A q \in Procs : q # p => proc'[q] = proc[q]
BY DEF RootTypes, Go

LEMMA GoTyped ==
    ASSUME RootTypes, NEW p \in Procs, NEW t \in Searches \cup {Idle}, Go(p, t)
    PROVE  proc' \in [Procs -> Searches \cup {Idle}]
BY DEF RootTypes, Go

LEMMA ChosenTyped ==
    ASSUME RootTypes, NEW p \in Procs, proc[p].pc # "idle", NEW r \in Mounted, Chosen(p, r)
    PROVE  /\ proc' \in [Procs -> Searches \cup {Idle}]
           /\ proc'[p] = [proc[p] EXCEPT !.pc = "chosen", !.root = r, !.i = 1, !.count = 0]
           /\ \A q \in Procs : q # p => proc'[q] = proc[q]
<1> DEFINE t == [proc[p] EXCEPT !.pc = "chosen", !.root = r, !.i = 1, !.count = 0]
<1>1. t \in Searches
  <2>1. proc[p] \in Searches
    BY SearchRecord
  <2>2. 1 \in Nat \ {0} /\ 0 \in Nat
    OBVIOUS
  <2> QED
    BY <2>1, <2>2 DEF Searches
<1>2. Go(p, t)
    BY DEF Chosen
<1> QED
    BY <1>1, <1>2, GoTyped, OtherProcs

LEMMA IdleTyped ==
    ASSUME RootTypes, NEW p \in Procs, Refuse(p)
    PROVE  /\ proc' \in [Procs -> Searches \cup {Idle}]
           /\ proc'[p] = Idle
           /\ \A q \in Procs : q # p => proc'[q] = proc[q]
BY GoTyped, OtherProcs DEF Refuse

(* What is written down is an experiment and a mounted root, and so is what is loaded. *)
LEMMA LineTypes ==
    ASSUME RootTypes
    PROVE  /\ \A l \in ToSet(expvers) : l[1] \in Expvers /\ l[2] \in Mounted /\ l = <<l[1], l[2]>>
           /\ Loaded \in Tables
<1>1. expvers \in Seq(Expvers \X Mounted)
    BY DEF RootTypes
<1>2. \A l \in ToSet(expvers) : l \in Expvers \X Mounted
    BY <1>1 DEF ToSet
<1>3. \A l \in ToSet(expvers) : l[1] \in Expvers /\ l[2] \in Mounted /\ l = <<l[1], l[2]>>
    BY <1>2
<1>4. \A e \in DOMAIN Loaded : e \in Expvers /\ Loaded[e] \in Mounted
    BY <1>1, <1>3, LoadedLines
<1>5. Loaded = [e \in DOMAIN Loaded |-> Loaded[e]]
    BY DEF Loaded
<1>6. Loaded \in [DOMAIN Loaded -> Mounted] /\ DOMAIN Loaded \in SUBSET Expvers
    BY <1>4, <1>5
<1> QED
    BY <1>3, <1>6 DEF Tables

(* The experiment of a search is one of a key. *)
LEMMA PutTyped ==
    \A f \in Tables, e \in Expvers, r \in Mounted :
        /\ Put(f, e, r) \in Tables
        /\ DOMAIN Put(f, e, r) = DOMAIN f \cup {e}
        /\ \A x \in DOMAIN Put(f, e, r) : Put(f, e, r)[x] = IF x = e THEN r ELSE f[x]
<1> SUFFICES ASSUME NEW f \in Tables, NEW e \in Expvers, NEW r \in Mounted
             PROVE  /\ Put(f, e, r) \in Tables
                    /\ DOMAIN Put(f, e, r) = DOMAIN f \cup {e}
                    /\ \A x \in DOMAIN Put(f, e, r) : Put(f, e, r)[x] = IF x = e THEN r ELSE f[x]
    OBVIOUS
<1>1. PICK E \in SUBSET Expvers : f \in [E -> Mounted]
    BY DEF Tables
<1>2. Put(f, e, r) \in [E \cup {e} -> Mounted] /\ E \cup {e} \in SUBSET Expvers
    BY <1>1 DEF Put
<1>3. DOMAIN f = E
    BY <1>1
<1> QED
    BY <1>2, <1>3 DEF Put, Tables

----------------------------------------------------------------------------
(* Types. *)

LEMMA BeginTyped ==
    ASSUME DiskTypes, RootTypes, NEW p \in Procs, NEW k \in Keys, Begin(p, k)
    PROVE  /\ proc' \in [Procs -> Searches \cup {Idle}]
           /\ \A q \in Procs : q # p => proc'[q] = proc[q]
           /\ proc'[p] # Idle =>
                  /\ FixedRoot # "" \/ SpaceOf(k) # 0
                  /\ FixedRoot # "" => proc'[p].pc = "chosen"
                  /\ FixedRoot = "" => proc'[p].pc = "exists"
                  /\ proc'[p].key = k /\ proc'[p].before = Dirs(k)
                  /\ proc'[p].i = 1 /\ proc'[p].count = 0 /\ proc'[p].root = FixedRoot
           /\ jobs' \in 0..MaxJobs
<1> DEFINE t == [pc |-> IF FixedRoot # "" THEN "chosen" ELSE "exists", key |-> k,
                 before |-> Dirs(k), i |-> 1, count |-> 0, root |-> FixedRoot]
<1>1. Dirs(k) \in SUBSET Places
    BY DEF Dirs, DiskTypes
<1>2. t \in Searches
  <2>1. FixedRoot \in Mounted \cup {""}
    BY RootsAssumption
  <2>2. 1 \in Nat \ {0} /\ 0 \in Nat
    OBVIOUS
  <2>3. t.pc \in {"exists", "select", "append", "write", "chosen"}
    OBVIOUS
  <2> QED
    BY <1>1, <2>1, <2>2, <2>3 DEF Searches
<1>3. jobs' \in 0..MaxJobs
  <2>1. jobs' = jobs + 1 /\ jobs < MaxJobs
    BY DEF Begin
  <2>2. jobs \in 0..MaxJobs /\ MaxJobs \in Nat
    BY RootsAssumption DEF RootTypes
  <2> QED
    BY ONLY <2>1, <2>2
<1>4. CASE Engine(k) # "toc" \/ (FixedRoot = "" /\ SpaceOf(k) = 0)
  <2>1. Refuse(p)
    BY <1>4 DEF Begin
  <2> QED
    BY <1>3, <2>1, IdleTyped
<1>5. CASE ~(Engine(k) # "toc" \/ (FixedRoot = "" /\ SpaceOf(k) = 0))
  <2>1. Go(p, t)
    BY <1>5 DEF Begin
  <2>2. /\ FixedRoot # "" => t.pc = "chosen"
        /\ FixedRoot = "" => t.pc = "exists"
        /\ t.key = k /\ t.before = Dirs(k) /\ t.i = 1 /\ t.count = 0 /\ t.root = FixedRoot
    OBVIOUS
  <2>3. proc' \in [Procs -> Searches \cup {Idle}]
    BY <1>2, <2>1, GoTyped
  <2>4. proc'[p] = t /\ \A q \in Procs : q # p => proc'[q] = proc[q]
    BY <2>1, OtherProcs, ZenonT(60)
  <2> HIDE DEF t
  <2> QED
    BY <1>3, <1>5, <2>2, <2>3, <2>4
<1> QED
    BY <1>4, <1>5

LEMMA ExistsAtTyped ==
    ASSUME RootTypes, NEW p \in Procs, ExistsAt(p)
    PROVE  /\ proc' \in [Procs -> Searches \cup {Idle}]
           /\ \A q \in Procs : q # p => proc'[q] = proc[q]
           /\ proc'[p] \in Searches
           /\ proc'[p].pc = "exists" /\ proc'[p].key = proc[p].key
           /\ proc'[p].before = proc[p].before /\ proc'[p].i = proc[p].i + 1
           /\ LET r == RootsOf(proc[p].key)[proc[p].i]
                  dir == <<r.path, DbPathName(proc[p].key)>>
                  there == Lists(r) /\ dir \in DOMAIN toc
              IN  /\ proc'[p].root = IF there /\ Takes(proc[p].count, dir \in allow)
                                     THEN r.path ELSE proc[p].root
                  /\ proc'[p].count = IF there /\ dir \notin allow
                                      THEN proc[p].count + 1 ELSE proc[p].count
<1> DEFINE r == RootsOf(proc[p].key)[proc[p].i]
           dir == <<r.path, DbPathName(proc[p].key)>>
           there == Lists(r) /\ dir \in DOMAIN toc
           root == IF there /\ Takes(proc[p].count, dir \in allow) THEN r.path ELSE proc[p].root
           count == IF there /\ dir \notin allow THEN proc[p].count + 1 ELSE proc[p].count
           t == [proc[p] EXCEPT !.i = proc[p].i + 1, !.root = root, !.count = count]
<1>1. proc[p].pc = "exists" /\ Go(p, t)
    BY DEF ExistsAt
<1>2. proc[p] \in Searches
    BY <1>1, SearchRecord
<1>3. root \in Mounted \cup {""}
    BY <1>2 DEF Lists, Searches
<1>4. count \in Nat /\ proc[p].i + 1 \in Nat \ {0}
  <2>1. proc[p].count \in Nat /\ proc[p].i \in Nat
    BY <1>2 DEF Searches
  <2> QED
    BY <2>1
<1> HIDE DEF root, count
<1>5. t \in Searches
    BY <1>2, <1>3, <1>4 DEF Searches
<1>6. /\ t.pc = proc[p].pc /\ t.key = proc[p].key /\ t.before = proc[p].before
      /\ t.i = proc[p].i + 1 /\ t.root = root /\ t.count = count
    BY <1>2 DEF Searches
<1>7. /\ proc' \in [Procs -> Searches \cup {Idle}] /\ proc'[p] = t
      /\ \A q \in Procs : q # p => proc'[q] = proc[q]
    BY <1>1, <1>5, GoTyped, OtherProcs
<1> QED
    BY <1>1, <1>5, <1>6, <1>7 DEF root, count

(* Where a root is chosen. *)
LEMMA ChosenFields ==
    ASSUME RootTypes, NEW p \in Procs, proc[p].pc # "idle", NEW r \in Mounted, Chosen(p, r)
    PROVE  /\ proc' \in [Procs -> Searches \cup {Idle}]
           /\ \A q \in Procs : q # p => proc'[q] = proc[q]
           /\ proc'[p].pc = "chosen" /\ proc'[p].root = r
           /\ proc'[p].key = proc[p].key /\ proc'[p].before = proc[p].before
<1>1. proc'[p] = [proc[p] EXCEPT !.pc = "chosen", !.root = r, !.i = 1, !.count = 0]
    BY ChosenTyped
<1>2. proc[p] \in Searches
    BY SearchRecord
<1>3. /\ proc'[p].pc = "chosen" /\ proc'[p].root = r
      /\ proc'[p].key = proc[p].key /\ proc'[p].before = proc[p].before
    BY <1>1, <1>2 DEF Searches
<1> QED
    BY <1>3, ChosenTyped

LEMMA ExistsTyped ==
    ASSUME RootTypes, NEW p \in Procs, Exists(p)
    PROVE  /\ proc' \in [Procs -> Searches \cup {Idle}]
           /\ \A q \in Procs : q # p => proc'[q] = proc[q]
           /\ proc[p].pc = "exists" /\ proc[p].i > Len(RootsOf(proc[p].key))
           /\ proc'[p] # Idle =>
                  /\ proc[p].count <= 1
                  /\ proc'[p].key = proc[p].key /\ proc'[p].before = proc[p].before
                  /\ proc'[p].root = proc[p].root
                  /\ proc'[p].pc = IF proc[p].root # "" THEN "chosen" ELSE "select"
<1>1. proc[p].pc = "exists" /\ proc[p].i > Len(RootsOf(proc[p].key))
    BY DEF Exists
<1>2. proc[p] \in Searches
    BY <1>1, SearchRecord
<1>3. CASE proc[p].count > 1
  <2>1. Refuse(p)
    BY <1>3 DEF Exists
  <2> QED
    BY <1>1, <2>1, IdleTyped
<1>3a. ~(proc[p].count > 1) => proc[p].count <= 1
  <2>1. PICK c \in Nat : c = proc[p].count
    BY <1>2 DEF Searches
  <2>2. ~(c > 1) => c <= 1
    OBVIOUS
  <2> QED
    BY ONLY <2>1, <2>2
<1>4. CASE ~(proc[p].count > 1) /\ proc[p].root # ""
  <2>1. Chosen(p, proc[p].root) /\ proc[p].root \in Mounted
    BY <1>2, <1>4 DEF Exists, Searches
  <2>2. proc[p].count <= 1
    BY <1>3a, <1>4
  <2>3. PICK r \in Mounted : r = proc[p].root /\ Chosen(p, r)
    BY <2>1
  <2>4. /\ proc' \in [Procs -> Searches \cup {Idle}]
        /\ \A q \in Procs : q # p => proc'[q] = proc[q]
        /\ proc'[p].pc = "chosen" /\ proc'[p].root = r
        /\ proc'[p].key = proc[p].key /\ proc'[p].before = proc[p].before
    BY <1>1, <2>3, ChosenFields
  <2> QED
    BY <1>1, <1>4, <2>2, <2>3, <2>4
<1>5. CASE ~(proc[p].count > 1) /\ proc[p].root = ""
  <2> DEFINE t == [proc[p] EXCEPT !.pc = "select"]
  <2>1. Go(p, t)
    BY <1>5 DEF Exists
  <2>2. t \in Searches
    BY <1>2 DEF Searches
  <2>3. t.key = proc[p].key /\ t.before = proc[p].before /\ t.pc = "select" /\ t.root = proc[p].root
    BY <1>2 DEF Searches
  <2>4. proc[p].count <= 1
    BY <1>3a, <1>5
  <2> QED
    BY <1>1, <1>5, <2>1, <2>2, <2>3, <2>4, GoTyped, OtherProcs
<1> QED
    BY <1>3, <1>4, <1>5

(* A selection without the expver file. *)
LEMMA SelectTyped ==
    ASSUME RootTypes, Stages, NEW p \in Procs, SelectFirst(p) \/ SelectAny(p)
    PROVE  /\ proc' \in [Procs -> Searches \cup {Idle}]
           /\ \A q \in Procs : q # p => proc'[q] = proc[q]
           /\ proc[p].pc = "select" /\ SpaceOf(proc[p].key) # 0 /\ Handler(p) \in {"Default", "Random"}
           /\ UNCHANGED <<expvers, flock, table, jobs>>
           /\ proc'[p] # Idle =>
                  /\ proc'[p].pc = "chosen"
                  /\ proc'[p].key = proc[p].key /\ proc'[p].before = proc[p].before
                  /\ proc'[p].root \in ArchiveRoots(proc[p].key)
                  /\ Handler(p) = "Default" => proc'[p].root \in First(proc[p].key)
<1>1. /\ proc[p].pc = "select" /\ Handler(p) \in {"Default", "Random"}
      /\ UNCHANGED <<expvers, flock, table, jobs>>
    BY DEF SelectFirst, SelectAny, Selects, handler
<1>2. SpaceOf(proc[p].key) # 0
    BY <1>1 DEF Stages, Stage, Handler
<1>3. ArchiveRoots(proc[p].key) \subseteq Mounted
    BY <1>2, RootsHold
<1>4. CASE SelectFirst(p)
  <2>1. CASE ArchiveRoots(proc[p].key) = {}
    <3>1. Refuse(p)
        BY <1>4, <2>1 DEF SelectFirst
    <3> QED
        BY <1>1, <1>2, <3>1, IdleTyped
  <2>2. CASE ArchiveRoots(proc[p].key) # {}
    <3>1. PICK r \in First(proc[p].key) : Chosen(p, r)
        BY <1>4, <2>2 DEF SelectFirst
    <3>2. r \in ArchiveRoots(proc[p].key)
        BY <1>2, <2>2, <3>1, FirstArchives, SpaceOfFits
    <3> QED
        BY <1>1, <1>2, <1>3, <3>1, <3>2, ChosenFields
  <2> QED
    BY <2>1, <2>2
<1>5. CASE SelectAny(p)
  <2>1. PICK r \in ArchiveRoots(proc[p].key) : Chosen(p, r)
    BY <1>5 DEF SelectAny
  <2>2. Handler(p) = "Random"
    BY <1>5 DEF SelectAny, Selects
  <2> QED
    BY <1>1, <1>2, <1>3, <2>1, <2>2, ChosenFields
<1> QED
    BY <1>4, <1>5

(* A selection with what the process knows of the expver file. *)
LEMMA SelectExpverTyped ==
    ASSUME RootTypes, Stages, OneLine, NEW p \in Procs, SelectExpver(p)
    PROVE  /\ proc' \in [Procs -> Searches \cup {Idle}]
           /\ \A q \in Procs : q # p => proc'[q] = proc[q]
           /\ proc[p].pc = "select" /\ SpaceOf(proc[p].key) # 0 /\ Handler(p) = "expver"
           /\ UNCHANGED <<expvers, flock, jobs>>
           /\ table' \in [Procs -> Tables]
           /\ \A q \in Procs : \A e \in DOMAIN table'[q] : <<e, table'[q][e]>> \in ToSet(expvers)
           /\ proc'[p] # Idle =>
                  /\ proc'[p].key = proc[p].key /\ proc'[p].before = proc[p].before
                  /\ \/ /\ proc'[p].pc = "chosen"
                        /\ <<proc[p].key["expver"], proc'[p].root>> \in ToSet(expvers)
                     \/ /\ proc'[p].pc = "append"
                        /\ proc'[p].root \in ArchiveRoots(proc[p].key)
<1> DEFINE known == IF table[p] = Empty THEN Loaded ELSE table[p]
           expver == proc[p].key["expver"]
           open == ArchiveRoots(proc[p].key)
           maybe == IF Override[p] = "" THEN open ELSE open \cap {Override[p]}
<1>1. /\ proc[p].pc = "select" /\ Handler(p) = "expver"
      /\ UNCHANGED <<expvers, flock, jobs>> /\ table' = [table EXCEPT ![p] = known]
    BY DEF SelectExpver, Selects
<1>2. SpaceOf(proc[p].key) # 0
    BY <1>1 DEF Stages, Stage, Handler
<1>3. open \subseteq Mounted
    BY <1>2, RootsHold
<1>4. known \in Tables
    BY LineTypes DEF RootTypes
<1>5. \A e \in DOMAIN known : <<e, known[e]>> \in ToSet(expvers) /\ known[e] \in Mounted
  <2> SUFFICES ASSUME NEW e \in DOMAIN known
               PROVE  <<e, known[e]>> \in ToSet(expvers) /\ known[e] \in Mounted
    OBVIOUS
  <2>1. CASE table[p] = Empty
    <3>1. known = Loaded
        BY <2>1
    <3>2. PICK l \in ToSet(expvers) : l[1] = e /\ Loaded[e] = l[2]
        BY <3>1, LoadedLines DEF RootTypes
    <3> QED
        BY <3>1, <3>2, LineTypes
  <2>2. CASE table[p] # Empty
    <3>1. known = table[p]
        BY <2>2
    <3>2. <<e, known[e]>> \in ToSet(expvers)
        BY <3>1 DEF OneLine
    <3>3. <<e, known[e]>>[2] \in Mounted
        BY <3>2, LineTypes
    <3> QED
        BY <3>2, <3>3
  <2> QED
    BY <2>1, <2>2
<1>6. /\ table' \in [Procs -> Tables]
      /\ \A q \in Procs : table'[q] = IF q = p THEN known ELSE table[q]
    BY <1>1, <1>4 DEF RootTypes
<1>7. \A q \in Procs : \A e \in DOMAIN table'[q] : <<e, table'[q][e]>> \in ToSet(expvers)
    BY <1>5, <1>6 DEF OneLine
<1>8. \/ Refuse(p)
      \/ expver \in DOMAIN known /\ Chosen(p, known[expver])
      \/ \E r \in maybe : Go(p, [proc[p] EXCEPT !.pc = "append", !.root = r])
    BY DEF SelectExpver
<1>9. CASE Refuse(p)
    BY <1>1, <1>2, <1>6, <1>7, <1>9, IdleTyped
<1>10. CASE expver \in DOMAIN known /\ Chosen(p, known[expver])
  <2>1. known[expver] \in Mounted /\ <<expver, known[expver]>> \in ToSet(expvers)
    BY <1>5, <1>10
  <2>2. PICK r \in Mounted : r = known[expver]
    BY <2>1
  <2> HIDE DEF known
  <2>3. /\ proc' \in [Procs -> Searches \cup {Idle}]
        /\ \A q \in Procs : q # p => proc'[q] = proc[q]
        /\ proc'[p].pc = "chosen" /\ proc'[p].root = r
        /\ proc'[p].key = proc[p].key /\ proc'[p].before = proc[p].before
    BY <1>1, <1>10, <2>2, ChosenFields
  <2> QED
    BY <1>1, <1>2, <1>6, <1>7, <2>1, <2>2, <2>3
<1>11. CASE \E r \in maybe : Go(p, [proc[p] EXCEPT !.pc = "append", !.root = r])
  <2>1. PICK r \in open : Go(p, [proc[p] EXCEPT !.pc = "append", !.root = r])
    BY <1>11
  <2> DEFINE t == [proc[p] EXCEPT !.pc = "append", !.root = r]
  <2>2. proc[p] \in Searches
    BY <1>1, SearchRecord
  <2>3. t \in Searches /\ t.key = proc[p].key /\ t.before = proc[p].before /\ t.pc = "append" /\ t.root = r
    BY <1>3, <2>2 DEF Searches
  <2>4. /\ proc' \in [Procs -> Searches \cup {Idle}] /\ proc'[p] = t
        /\ \A q \in Procs : q # p => proc'[q] = proc[q]
    BY <2>1, <2>3, GoTyped, OtherProcs
  <2> QED
    BY <1>1, <1>2, <1>6, <1>7, <2>3, <2>4
<1> QED
    BY <1>8, <1>9, <1>10, <1>11
(* Under the lock of the expver file. *)
LEMMA AppendReadTyped ==
    ASSUME RootTypes, Stages, OneLine, NEW p \in Procs, AppendRead(p)
    PROVE  /\ proc' \in [Procs -> Searches \cup {Idle}]
           /\ \A q \in Procs : q # p => proc'[q] = proc[q]
           /\ proc[p].pc = "append" /\ flock = None
           /\ UNCHANGED <<expvers, jobs>>
           /\ table' \in [Procs -> Tables]
           /\ \A q \in Procs : \A e \in DOMAIN table'[q] : <<e, table'[q][e]>> \in ToSet(expvers)
           /\ proc'[p].key = proc[p].key /\ proc'[p].before = proc[p].before
           /\ \/ /\ proc'[p].pc = "chosen" /\ flock' = flock
                 /\ <<proc[p].key["expver"], proc'[p].root>> \in ToSet(expvers)
              \/ /\ proc'[p].pc = "write" /\ flock' = p /\ proc'[p].root = proc[p].root
                 /\ \A l \in ToSet(expvers) : l[1] # proc[p].key["expver"]
<1> DEFINE expver == proc[p].key["expver"]
           i == Recorded(expver)
<1>1. proc[p].pc = "append" /\ flock = None /\ UNCHANGED <<expvers, jobs>>
    BY DEF AppendRead
<1>2. proc[p] \in Searches
    BY <1>1, SearchRecord
<1>3. expver \in Expvers
    BY <1>2 DEF Searches, Expvers
<1>4. expvers \in Seq(Expvers \X Mounted)
    BY DEF RootTypes
<1>5. CASE i # 0
  <2>1. PICK r : r = expvers[i][2]
    OBVIOUS
  <2>2. expvers[i] \in ToSet(expvers) /\ expvers[i][1] = expver
    BY <1>4, <1>5, RecordedLine
  <2>3. r \in Mounted /\ <<expver, r>> \in ToSet(expvers)
    BY <2>1, <2>2, LineTypes
  <2>4. Chosen(p, r) /\ flock' = flock /\ table' = [table EXCEPT ![p] = Put(table[p], expver, r)]
    BY <1>5, <2>1 DEF AppendRead, Remember
  <2>5. table[p] \in Tables
    BY DEF RootTypes
  <2>6. /\ Put(table[p], expver, r) \in Tables
        /\ DOMAIN Put(table[p], expver, r) = DOMAIN table[p] \cup {expver}
        /\ \A x \in DOMAIN Put(table[p], expver, r) :
               Put(table[p], expver, r)[x] = IF x = expver THEN r ELSE table[p][x]
    <3>1. PICK f \in Tables : f = table[p]
        BY <2>5
    <3>2. PICK e \in Expvers : e = expver
        BY <1>3
    <3>3. /\ Put(f, e, r) \in Tables
          /\ DOMAIN Put(f, e, r) = DOMAIN f \cup {e}
          /\ \A x \in DOMAIN Put(f, e, r) : Put(f, e, r)[x] = IF x = e THEN r ELSE f[x]
      <4>1. Put(f, e, r) \in Tables
        BY <2>3, PutTyped
      <4>2. DOMAIN Put(f, e, r) = DOMAIN f \cup {e}
        BY DEF Put
      <4>3. \A x \in DOMAIN Put(f, e, r) : Put(f, e, r)[x] = IF x = e THEN r ELSE f[x]
        BY DEF Put
      <4> QED
        BY ONLY <4>1, <4>2, <4>3
    <3> QED
        BY ONLY <3>1, <3>2, <3>3
  <2>7. /\ table' \in [Procs -> Tables]
        /\ \A q \in Procs : table'[q] = IF q = p THEN Put(table[p], expver, r) ELSE table[q]
    BY <2>4, <2>6 DEF RootTypes
  <2>8. \A q \in Procs : \A e \in DOMAIN table'[q] : <<e, table'[q][e]>> \in ToSet(expvers)
    BY <2>3, <2>6, <2>7 DEF OneLine
  <2>9. /\ proc' \in [Procs -> Searches \cup {Idle}]
        /\ \A q \in Procs : q # p => proc'[q] = proc[q]
        /\ proc'[p].pc = "chosen" /\ proc'[p].root = r
        /\ proc'[p].key = proc[p].key /\ proc'[p].before = proc[p].before
    BY <1>1, <2>3, <2>4, ChosenFields
  <2> QED
    BY <1>1, <2>3, <2>4, <2>7, <2>8, <2>9
<1>6. CASE i = 0
  <2> DEFINE t == [proc[p] EXCEPT !.pc = "write"]
  <2>1. Go(p, t) /\ flock' = p /\ table' = table
    BY <1>6 DEF AppendRead
  <2>2. t \in Searches /\ t.pc = "write" /\ t.key = proc[p].key /\ t.before = proc[p].before
        /\ t.root = proc[p].root
    BY <1>2 DEF Searches
  <2>3. \A l \in ToSet(expvers) : l[1] # expver
    BY <1>4, <1>6, RecordedLine
  <2>4. /\ proc' \in [Procs -> Searches \cup {Idle}] /\ proc'[p] = t
        /\ \A q \in Procs : q # p => proc'[q] = proc[q]
    BY <2>1, <2>2, GoTyped, OtherProcs
  <2>5. /\ table' \in [Procs -> Tables]
        /\ \A q \in Procs : \A e \in DOMAIN table'[q] : <<e, table'[q][e]>> \in ToSet(expvers)
    BY <2>1 DEF RootTypes, OneLine
  <2> QED
    BY <1>1, <2>1, <2>2, <2>3, <2>4, <2>5
<1> QED
    BY <1>5, <1>6

LEMMA AppendWriteTyped ==
    ASSUME RootTypes, Stages, OneLine, NEW p \in Procs, AppendWrite(p)
    PROVE  LET line == <<proc[p].key["expver"], proc[p].root>> IN
           /\ proc' \in [Procs -> Searches \cup {Idle}]
           /\ \A q \in Procs : q # p => proc'[q] = proc[q]
           /\ proc[p].pc = "write" /\ flock = p /\ flock' = None /\ UNCHANGED jobs
           /\ expvers' \in Seq(Expvers \X Mounted) /\ ToSet(expvers') = ToSet(expvers) \cup {line}
           /\ table' \in [Procs -> Tables]
           /\ \A q \in Procs : \A e \in DOMAIN table'[q] : <<e, table'[q][e]>> \in ToSet(expvers')
           /\ proc'[p].key = proc[p].key /\ proc'[p].before = proc[p].before
           /\ proc'[p].pc = "chosen" /\ proc'[p].root = proc[p].root
           /\ proc[p].root \in ArchiveRoots(proc[p].key) /\ Handler(p) = "expver"
           /\ SpaceOf(proc[p].key) # 0
<1> DEFINE expver == proc[p].key["expver"]
           r == proc[p].root
           line == <<expver, r>>
<1>1. /\ proc[p].pc = "write" /\ flock' = None /\ UNCHANGED jobs
      /\ expvers' = Append(expvers, line)
      /\ table' = [table EXCEPT ![p] = Put(table[p], expver, r)] /\ Chosen(p, r)
    BY DEF AppendWrite, Remember
<1>2. proc[p] \in Searches
    BY <1>1, SearchRecord
<1>3. expver \in Expvers
    BY <1>2 DEF Searches, Expvers
<1>4. flock = p /\ r \in ArchiveRoots(proc[p].key) /\ SpaceOf(proc[p].key) # 0 /\ Handler(p) = "expver"
    BY <1>1 DEF Stages, Stage, Handler
<1>5. r \in Mounted
    BY <1>4, RootsHold
<1>6. expvers \in Seq(Expvers \X Mounted) /\ line \in Expvers \X Mounted
    BY <1>3, <1>5 DEF RootTypes
<1>7. expvers' \in Seq(Expvers \X Mounted) /\ ToSet(expvers') = ToSet(expvers) \cup {line}
  <2>1. PICK l \in Expvers \X Mounted : l = line
    BY <1>6
  <2>2. expvers' = Append(expvers, l)
    BY <1>1, <2>1
  <2> HIDE DEF line
  <2>3. /\ expvers' \in Seq(Expvers \X Mounted) /\ Len(expvers') = Len(expvers) + 1
        /\ DOMAIN expvers = 1..Len(expvers) /\ DOMAIN expvers' = 1..(Len(expvers) + 1)
        /\ Len(expvers) \in Nat
        /\ expvers'[Len(expvers) + 1] = l
        /\ \A i \in 1..Len(expvers) : expvers'[i] = expvers[i]
    BY <1>6, <2>2
  <2>4. ToSet(expvers') \subseteq ToSet(expvers) \cup {l}
    BY <2>3 DEF ToSet
  <2>5. \A i \in DOMAIN expvers : i \in DOMAIN expvers' /\ expvers'[i] = expvers[i]
    BY <2>3
  <2>6. Len(expvers) + 1 \in DOMAIN expvers'
    BY <2>3
  <2>7. ToSet(expvers) \cup {l} \subseteq ToSet(expvers')
    BY <2>3, <2>5, <2>6 DEF ToSet
  <2> QED
    BY <2>1, <2>3, <2>4, <2>7
<1>8. table[p] \in Tables
    BY DEF RootTypes
<1>9. /\ Put(table[p], expver, r) \in Tables
      /\ DOMAIN Put(table[p], expver, r) = DOMAIN table[p] \cup {expver}
      /\ \A x \in DOMAIN Put(table[p], expver, r) :
             Put(table[p], expver, r)[x] = IF x = expver THEN r ELSE table[p][x]
  <2>1. PICK f \in Tables : f = table[p]
    BY <1>8
  <2>2. PICK e \in Expvers : e = expver
    BY <1>3
  <2>3. PICK m \in Mounted : m = r
    BY <1>5
  <2>4. /\ Put(f, e, m) \in Tables
        /\ DOMAIN Put(f, e, m) = DOMAIN f \cup {e}
        /\ \A x \in DOMAIN Put(f, e, m) : Put(f, e, m)[x] = IF x = e THEN m ELSE f[x]
    <3>1. Put(f, e, m) \in Tables
      BY PutTyped
    <3>2. DOMAIN Put(f, e, m) = DOMAIN f \cup {e}
      BY DEF Put
    <3>3. \A x \in DOMAIN Put(f, e, m) : Put(f, e, m)[x] = IF x = e THEN m ELSE f[x]
      BY DEF Put
    <3> QED
      BY ONLY <3>1, <3>2, <3>3
  <2> QED
    BY ONLY <2>1, <2>2, <2>3, <2>4
<1>10. /\ table' \in [Procs -> Tables]
       /\ \A q \in Procs : table'[q] = IF q = p THEN Put(table[p], expver, r) ELSE table[q]
    BY <1>1, <1>9 DEF RootTypes
<1>11. \A q \in Procs : \A e \in DOMAIN table'[q] : <<e, table'[q][e]>> \in ToSet(expvers')
  <2> SUFFICES ASSUME NEW q \in Procs, NEW e \in DOMAIN table'[q]
               PROVE  <<e, table'[q][e]>> \in ToSet(expvers')
    OBVIOUS
  <2>1. CASE q = p /\ e = expver
    BY <1>7, <1>9, <1>10, <2>1
  <2>2. CASE ~(q = p /\ e = expver)
    <3>1. e \in DOMAIN table[q] /\ table'[q][e] = table[q][e]
        BY <1>9, <1>10, <2>2
    <3>2. <<e, table[q][e]>> \in ToSet(expvers)
        BY <3>1 DEF OneLine
    <3> QED
        BY <1>7, <3>1, <3>2
  <2> QED
    BY <2>1, <2>2
<1>12. /\ proc' \in [Procs -> Searches \cup {Idle}]
       /\ \A q \in Procs : q # p => proc'[q] = proc[q]
       /\ proc'[p].pc = "chosen" /\ proc'[p].root = r
       /\ proc'[p].key = proc[p].key /\ proc'[p].before = proc[p].before
    BY <1>1, <1>5, ChosenFields
<1> QED
    BY <1>1, <1>4, <1>7, <1>10, <1>11, <1>12

LEMMA CrashTyped ==
    ASSUME RootTypes, OneLine, NEW p \in Procs, Crash(p)
    PROVE  /\ proc' \in [Procs -> Searches \cup {Idle}]
           /\ proc'[p] = Idle /\ \A q \in Procs : q # p => proc'[q] = proc[q]
           /\ UNCHANGED <<expvers, jobs>>
           /\ flock' = IF flock = p THEN None ELSE flock
           /\ table' \in [Procs -> Tables]
           /\ \A q \in Procs : \A e \in DOMAIN table'[q] : <<e, table'[q][e]>> \in ToSet(expvers)
<1>1. /\ Refuse(p) /\ table' = [table EXCEPT ![p] = Empty] /\ UNCHANGED <<expvers, jobs>>
      /\ flock' = IF flock = p THEN None ELSE flock
    BY DEF Crash, Refuse, Released
<1>2. Empty \in [{} -> Mounted] /\ {} \in SUBSET Expvers
    BY DEF Empty
<1>3. Empty \in Tables /\ DOMAIN Empty = {}
    BY <1>2 DEF Tables
<1>4. /\ table' \in [Procs -> Tables]
      /\ \A q \in Procs : table'[q] = IF q = p THEN Empty ELSE table[q]
    BY <1>1, <1>3 DEF RootTypes
<1>5. \A q \in Procs : \A e \in DOMAIN table'[q] : <<e, table'[q][e]>> \in ToSet(expvers)
    BY <1>3, <1>4 DEF OneLine
<1> QED
    BY <1>1, <1>4, <1>5, IdleTyped
LEMMA NextRootTypes ==
    ASSUME DiskTypes, RootTypes, Stages, OneLine, Next
    PROVE  RootTypes'
<1>1. CASE SearchStep
  <2>1. ASSUME NEW p \in Procs, NEW k \in Keys, Begin(p, k) PROVE RootTypes'
    <3>1. UNCHANGED <<expvers, flock, table>>
        BY <2>1 DEF Begin, handler
    <3> QED
        BY <2>1, <3>1, BeginTyped DEF RootTypes
  <2>2. ASSUME NEW p \in Procs, ExistsAt(p) PROVE RootTypes'
    <3>1. UNCHANGED <<expvers, flock, table, jobs>>
        BY <2>2 DEF ExistsAt, handler
    <3> QED
        BY <2>2, <3>1, ExistsAtTyped DEF RootTypes
  <2>3. ASSUME NEW p \in Procs, Exists(p) PROVE RootTypes'
    <3>1. UNCHANGED <<expvers, flock, table, jobs>>
        BY <2>3 DEF Exists, handler
    <3> QED
        BY <2>3, <3>1, ExistsTyped DEF RootTypes
  <2>4. ASSUME NEW p \in Procs, SelectFirst(p) \/ SelectAny(p) PROVE RootTypes'
    BY <2>4, SelectTyped DEF RootTypes
  <2>5. ASSUME NEW p \in Procs, SelectExpver(p) PROVE RootTypes'
    BY <2>5, SelectExpverTyped DEF RootTypes
  <2>6. ASSUME NEW p \in Procs, AppendRead(p) PROVE RootTypes'
    BY <2>6, AppendReadTyped DEF RootTypes
  <2>7. ASSUME NEW p \in Procs, AppendWrite(p) PROVE RootTypes'
    BY <2>7, AppendWriteTyped DEF RootTypes
  <2>8. ASSUME NEW p \in Procs, Crash(p) PROVE RootTypes'
    BY <2>8, CrashTyped DEF RootTypes
  <2> QED
    BY <1>1, <2>1, <2>2, <2>3, <2>4, <2>5, <2>6, <2>7, <2>8 DEF SearchStep
<1>2. CASE VisitStep
  <2>1. UNCHANGED <<expvers, flock, table, proc>>
    BY <1>2, VisitKeepsAll
  <2>2. jobs' = jobs \/ (jobs < MaxJobs /\ jobs' = jobs + 1)
    BY <1>2 DEF VisitStep, Visit, Scan, MatchAll
  <2>3. jobs' \in 0..MaxJobs
    <3>1. jobs \in 0..MaxJobs /\ MaxJobs \in Nat
        BY RootsAssumption DEF RootTypes
    <3> QED
        BY ONLY <2>2, <3>1
  <2> QED
    BY <2>1, <2>3 DEF RootTypes
<1>3. ASSUME NEW p \in Procs, Create(p) PROVE RootTypes'
  <2>1. UNCHANGED <<expvers, flock, table, jobs>> /\ Refuse(p)
    BY <1>3 DEF Create, handler, Refuse
  <2> QED
    BY <2>1, IdleTyped DEF RootTypes
<1>4. CASE (\E d \in DOMAIN toc : Wipe(d)) \/ (\E d \in DOMAIN toc, r \in Mounted : MoveToc(d, r)) \/ MoveDone
  <2>1. UNCHANGED <<expvers, flock, table, proc, jobs>>
    BY <1>4 DEF Wipe, MoveToc, MoveDone, handler
  <2> QED
    BY <2>1 DEF RootTypes
<1> QED
    BY <1>1, <1>2, <1>3, <1>4, NextSteps

----------------------------------------------------------------------------
(* The databases on disk. *)

(* What a step does to them: who is loose stays so; any other database that goes away or      *)
(* changes becomes so, and what is new is a writer's, or becomes so.                           *)
LEMMA DiskSteps ==
    ASSUME DiskTypes, RootTypes, MovedAreLoose, Stages, Next
    PROVE  /\ DiskTypes' /\ MovedAreLoose'
           /\ loose \subseteq loose'
           /\ \A d \in DOMAIN toc : d \in DOMAIN toc' => toc'[d] = toc[d]
           /\ \A d \in DOMAIN toc : d \notin DOMAIN toc' => toc[d] \in loose'
           /\ \A d \in DOMAIN toc' : d \notin DOMAIN toc =>
                  \/ \E e \in DOMAIN toc : toc'[d] = toc[e] /\ toc[e] \in loose' /\ CanMoveTo(e, d[1])
                  \/ \E p \in Procs : /\ Create(p) /\ proc[p].pc = "chosen"
                                      /\ toc'[d] = proc[p].key /\ d[1] = proc[p].root
<1>1. CASE UNCHANGED <<toc, allow, moving, loose>>
    BY <1>1 DEF DiskTypes, MovedAreLoose
<1>2. ASSUME NEW p \in Procs, Create(p)
      PROVE  /\ DiskTypes' /\ MovedAreLoose'
             /\ loose \subseteq loose'
             /\ \A d \in DOMAIN toc : d \in DOMAIN toc' /\ toc'[d] = toc[d]
             /\ \A d \in DOMAIN toc' : d \notin DOMAIN toc =>
                    /\ Create(p) /\ proc[p].pc = "chosen"
                    /\ toc'[d] = proc[p].key /\ d[1] = proc[p].root
  <2> DEFINE k == proc[p].key
             dir == <<proc[p].root, DbPathName(k)>>
  <2>1. proc[p].pc = "chosen" /\ UNCHANGED <<allow, moving, loose>>
    BY <1>2 DEF Create
  <2>2. proc[p] \in Searches /\ proc[p].root # ""
    BY <2>1, SearchRecord DEF Stages, Stage, Handler
  <2>3. k \in Keys /\ dir \in Places /\ dir[2] = DbPathName(k) /\ dir[1] = proc[p].root
    BY <2>2 DEF Searches, Places, Paths
  <2>4. CASE dir \in DOMAIN toc
    <3>1. toc' = toc
        BY <1>2, <2>4 DEF Create
    <3> QED
        BY <2>1, <3>1 DEF DiskTypes, MovedAreLoose
  <2>5. CASE dir \notin DOMAIN toc
    <3>1. toc' = Put(toc, dir, k)
        BY <1>2, <2>5 DEF Create
    <3> HIDE DEF dir, k
    <3>2. /\ DOMAIN toc' = DOMAIN toc \cup {dir}
          /\ \A d \in DOMAIN toc' : toc'[d] = IF d = dir THEN k ELSE toc[d]
        BY <3>1 DEF Put
    <3>3. toc' \in [DOMAIN toc' -> Keys]
        BY <2>3, <3>1, <3>2 DEF Put, DiskTypes
    <3>4. DiskTypes'
        BY <2>1, <2>3, <3>2, <3>3 DEF DiskTypes
    <3>5. \A d \in DOMAIN toc : d \in DOMAIN toc' /\ toc'[d] = toc[d]
        BY <2>5, <3>2
    <3>6. MovedAreLoose'
        BY <2>1, <3>5 DEF MovedAreLoose, DiskTypes
    <3>7. \A d \in DOMAIN toc' : d \notin DOMAIN toc => toc'[d] = k /\ d[1] = proc[p].root
        BY <2>3, <3>2
    <3> QED
        BY <1>2, <2>1, <3>4, <3>5, <3>6, <3>7 DEF k
  <2> QED
    BY <2>4, <2>5
<1>3. ASSUME NEW d \in DOMAIN toc, Wipe(d)
      PROVE  /\ DiskTypes' /\ MovedAreLoose'
             /\ loose \subseteq loose' /\ DOMAIN toc' = DOMAIN toc \ {d} /\ toc[d] \in loose'
             /\ \A e \in DOMAIN toc' : toc'[e] = toc[e]
  <2>1. /\ toc' = [e \in DOMAIN toc \ {d} |-> toc[e]]
        /\ allow' = allow \ {d} /\ loose' = loose \cup {toc[d]} /\ moving' = moving
        /\ \A m \in moving : d \notin {m[1], m[2]}
    BY <1>3 DEF Wipe, Restrict
  <2>2. DiskTypes'
    BY <2>1 DEF DiskTypes
  <2>3. MovedAreLoose'
    BY <2>1 DEF MovedAreLoose, DiskTypes
  <2> QED
    BY <2>1, <2>2, <2>3
<1>4. ASSUME NEW d \in DOMAIN toc, NEW r \in Mounted, MoveToc(d, r)
      PROVE  /\ DiskTypes' /\ MovedAreLoose'
             /\ loose \subseteq loose' /\ toc[d] \in loose'
             /\ \A e \in DOMAIN toc : e \in DOMAIN toc' /\ toc'[e] = toc[e]
             /\ \A e \in DOMAIN toc' : e \notin DOMAIN toc => toc'[e] = toc[d] /\ CanMoveTo(d, e[1])
  <2> DEFINE to == <<r, d[2]>>
  <2>1. /\ CanMoveTo(d, r) /\ allow' = allow \cup {d} /\ toc' = Put(toc, to, toc[d])
        /\ moving' = {<<d, to>>} /\ loose' = loose \cup {toc[d]}
    BY <1>4 DEF MoveToc
  <2>2. to \notin DOMAIN toc
    BY <2>1 DEF CanMoveTo
  <2>3. d[2] = DbPathName(toc[d]) /\ toc[d] \in Keys
    BY DEF DiskTypes
  <2>4. to \in Places /\ to[2] = DbPathName(toc[d]) /\ to[1] = r
    BY <2>3 DEF Places, Paths
  <2> HIDE DEF to
  <2>5. /\ DOMAIN toc' = DOMAIN toc \cup {to}
        /\ \A e \in DOMAIN toc' : toc'[e] = IF e = to THEN toc[d] ELSE toc[e]
    BY <2>1 DEF Put
  <2>6. toc' \in [DOMAIN toc' -> Keys]
    BY <2>1, <2>3, <2>5 DEF Put, DiskTypes
  <2>7. DiskTypes'
    BY <2>1, <2>3, <2>4, <2>5, <2>6 DEF DiskTypes
  <2>8. \A e \in DOMAIN toc : e \in DOMAIN toc' /\ toc'[e] = toc[e]
    BY <2>2, <2>5
  <2>9. MovedAreLoose'
    <3>1. \A e \in allow' : toc'[e] \in loose'
        BY <2>1, <2>8 DEF MovedAreLoose, DiskTypes
    <3>2. \A m \in moving' : m = <<d, to>> /\ m[1] = d /\ m[2] = to
        BY <2>1
    <3>3. d # to /\ d \in DOMAIN toc' /\ to \in DOMAIN toc' /\ toc'[d] \in loose' /\ toc'[to] \in loose'
        BY <2>1, <2>2, <2>5, <2>8
    <3> QED
        BY <2>1, <3>1, <3>2, <3>3 DEF MovedAreLoose
  <2>10. \A e \in DOMAIN toc' : e \notin DOMAIN toc => toc'[e] = toc[d] /\ CanMoveTo(d, e[1])
    BY <2>1, <2>4, <2>5
  <2> QED
    BY <2>1, <2>7, <2>8, <2>9, <2>10
<1>5. ASSUME MoveDone
      PROVE  /\ DiskTypes' /\ MovedAreLoose'
             /\ loose = loose' /\ DOMAIN toc' \subseteq DOMAIN toc
             /\ \A e \in DOMAIN toc' : toc'[e] = toc[e]
             /\ \A e \in DOMAIN toc : e \notin DOMAIN toc' => toc[e] \in loose
  <2>1. PICK m \in moving :
            /\ toc' = [e \in DOMAIN toc \ {m[1]} |-> toc[e]]
            /\ allow' = (allow \ {m[1]}) \cup {m[2]} /\ moving' = {} /\ loose' = loose
    BY <1>5 DEF MoveDone, Restrict
  <2>2. /\ m[1] # m[2] /\ m[1] \in DOMAIN toc /\ m[2] \in DOMAIN toc
        /\ toc[m[1]] \in loose /\ toc[m[2]] \in loose
    BY <2>1 DEF MovedAreLoose
  <2>3. DiskTypes'
    BY <2>1, <2>2 DEF DiskTypes
  <2>4. MovedAreLoose'
    BY <2>1, <2>2 DEF MovedAreLoose, DiskTypes
  <2> QED
    BY <2>1, <2>2, <2>3, <2>4
<1>6. CASE SearchStep \/ VisitStep
  <2>1. UNCHANGED <<toc, allow, moving, loose>>
    BY <1>6, SearchKeepsDisk, VisitKeepsAll
  <2> QED
    BY <1>1, <2>1
<1> QED
    BY <1>2, <1>3, <1>4, <1>5, <1>6, NextSteps
----------------------------------------------------------------------------
(* The searches. *)

(* The stages of the others stay, if the lock is not theirs. *)
LEMMA StagesBut ==
    ASSUME Stages, NEW p \in Procs, \A q \in Procs : q # p => proc'[q] = proc[q],
           Stage(p, proc'[p], flock'), \A q \in Procs : q # p => (flock' = q <=> flock = q)
    PROVE  Stages'
<1> SUFFICES ASSUME NEW q \in Procs PROVE Stage(q, proc'[q], flock')
    BY DEF Stages
<1>1. CASE q # p
    BY <1>1 DEF Stages, Stage
<1> QED
    BY <1>1

LEMMA IdlePc == Idle.pc = "idle"
BY DEF Idle

LEMMA IdleStage ==
    ASSUME NEW p, NEW lock, lock # p
    PROVE  Stage(p, Idle, lock)
BY IdlePc DEF Stage

LEMMA NextStages ==
    ASSUME DiskTypes, RootTypes, Stages, OneLine, Next
    PROVE  Stages'
<1>0. None \notin Procs /\ "" \notin Mounted
    BY NoneAssumption, RootsAssumption
<1>1. CASE SearchStep
  <2>1. ASSUME NEW p \in Procs, NEW k \in Keys, Begin(p, k) PROVE Stages'
    <3>1. flock' = flock /\ proc[p] = Idle /\ flock # p
      <4>1. flock' = flock /\ proc[p] = Idle
        BY <2>1 DEF Begin, handler
      <4> QED
        BY <4>1, IdlePc DEF Stages, Stage
    <3>2. Stage(p, proc'[p], flock')
      <4>1. CASE proc'[p] = Idle
        BY <3>1, <4>1, IdleStage
      <4>2. CASE proc'[p] # Idle
        <5>1. /\ FixedRoot # "" \/ SpaceOf(k) # 0
              /\ FixedRoot # "" => proc'[p].pc = "chosen"
              /\ FixedRoot = "" => proc'[p].pc = "exists"
              /\ proc'[p].key = k /\ proc'[p].root = FixedRoot
            BY <2>1, <4>2, BeginTyped
        <5> QED
            BY <3>1, <5>1 DEF Stage
      <4> QED
        BY <4>1, <4>2
    <3> QED
        BY <2>1, <3>1, <3>2, BeginTyped, StagesBut
  <2>2. ASSUME NEW p \in Procs, ExistsAt(p) PROVE Stages'
    <3>1. flock' = flock /\ proc[p].pc = "exists"
        BY <2>2 DEF ExistsAt, handler
    <3>2. proc'[p].pc = "exists" /\ proc'[p].key = proc[p].key
        BY <2>2, ExistsAtTyped
    <3>3. Stage(p, proc'[p], flock')
        BY <3>1, <3>2 DEF Stages, Stage
    <3> QED
        BY <2>2, <3>1, <3>3, ExistsAtTyped, StagesBut
  <2>3. ASSUME NEW p \in Procs, Exists(p) PROVE Stages'
    <3>1. flock' = flock /\ proc[p].pc = "exists"
        BY <2>3 DEF Exists, handler
    <3>2. Stage(p, proc'[p], flock')
      <4>1. CASE proc'[p] = Idle
        BY <3>1, <4>1, IdleStage DEF Stages, Stage
      <4>2. CASE proc'[p] # Idle
        BY <2>3, <3>1, <4>2, ExistsTyped DEF Stages, Stage
      <4> QED
        BY <4>1, <4>2
    <3> QED
        BY <2>3, <3>1, <3>2, ExistsTyped, StagesBut
  <2>4. ASSUME NEW p \in Procs, SelectFirst(p) \/ SelectAny(p) PROVE Stages'
    <3>1. flock' = flock /\ proc[p].pc = "select"
        BY <2>4, SelectTyped
    <3>2. Stage(p, proc'[p], flock')
      <4>1. CASE proc'[p] = Idle
        BY <3>1, <4>1, IdleStage DEF Stages, Stage
      <4>2. CASE proc'[p] # Idle
        <5>1. /\ proc'[p].pc = "chosen" /\ proc'[p].key = proc[p].key
              /\ proc'[p].root \in ArchiveRoots(proc[p].key) /\ SpaceOf(proc[p].key) # 0
            BY <2>4, <4>2, SelectTyped
        <5>2. proc'[p].root # ""
            BY <1>0, <5>1, RootsHold
        <5> QED
            BY <3>1, <5>1, <5>2 DEF Stages, Stage
      <4> QED
        BY <4>1, <4>2
    <3> QED
        BY <2>4, <3>1, <3>2, SelectTyped, StagesBut
  <2>5. ASSUME NEW p \in Procs, SelectExpver(p) PROVE Stages'
    <3>1. flock' = flock /\ proc[p].pc = "select" /\ SpaceOf(proc[p].key) # 0 /\ Handler(p) = "expver"
        BY <2>5, SelectExpverTyped
    <3>2. Stage(p, proc'[p], flock')
      <4>1. CASE proc'[p] = Idle
        BY <3>1, <4>1, IdleStage DEF Stages, Stage
      <4>2. CASE proc'[p] # Idle
        <5>1. /\ proc'[p].key = proc[p].key
              /\ \/ /\ proc'[p].pc = "chosen"
                    /\ <<proc[p].key["expver"], proc'[p].root>> \in ToSet(expvers)
                 \/ /\ proc'[p].pc = "append"
                    /\ proc'[p].root \in ArchiveRoots(proc[p].key)
            BY <2>5, <4>2, SelectExpverTyped
        <5>2. CASE proc'[p].pc = "chosen"
          <6>1. <<proc[p].key["expver"], proc'[p].root>>[2] \in Mounted
            BY <5>1, <5>2, LineTypes
          <6>2. proc'[p].root # ""
            BY <1>0, <6>1
          <6> QED
            BY <3>1, <5>1, <5>2, <6>2 DEF Stages, Stage
        <5>3. CASE proc'[p].pc = "append"
            BY <3>1, <5>1, <5>3 DEF Stages, Stage, Handler
        <5> QED
            BY <5>1, <5>2, <5>3
      <4> QED
        BY <4>1, <4>2
    <3> QED
        BY <2>5, <3>1, <3>2, SelectExpverTyped, StagesBut
  <2>6. ASSUME NEW p \in Procs, AppendRead(p) PROVE Stages'
    <3>1. /\ proc[p].pc = "append" /\ flock = None /\ proc'[p].key = proc[p].key
          /\ \A q \in Procs : q # p => proc'[q] = proc[q]
          /\ \/ /\ proc'[p].pc = "chosen" /\ flock' = flock
                /\ <<proc[p].key["expver"], proc'[p].root>> \in ToSet(expvers)
             \/ proc'[p].pc = "write" /\ flock' = p /\ proc'[p].root = proc[p].root
        BY <2>6, AppendReadTyped
    <3>2. Stage(p, proc'[p], flock') /\ \A q \in Procs : q # p => (flock' = q <=> flock = q)
      <4>1. CASE proc'[p].pc = "chosen"
        <5>1. <<proc[p].key["expver"], proc'[p].root>>[2] \in Mounted
            BY <3>1, <4>1, LineTypes
        <5>2. proc'[p].root # ""
            BY <1>0, <5>1
        <5> QED
            BY <3>1, <4>1, <5>2 DEF Stages, Stage
      <4>2. CASE proc'[p].pc = "write"
        BY <1>0, <3>1, <4>2 DEF Stages, Stage
      <4> QED
        BY <3>1, <4>1, <4>2
    <3> QED
        BY <3>1, <3>2, StagesBut
  <2>7. ASSUME NEW p \in Procs, AppendWrite(p) PROVE Stages'
    <3>1. /\ proc[p].pc = "write" /\ flock = p /\ flock' = None /\ proc'[p].key = proc[p].key
          /\ \A q \in Procs : q # p => proc'[q] = proc[q]
          /\ proc'[p].pc = "chosen" /\ proc'[p].root \in ArchiveRoots(proc[p].key)
          /\ SpaceOf(proc[p].key) # 0
        BY <2>7, AppendWriteTyped
    <3>2. proc'[p].root # ""
        BY <1>0, <3>1, RootsHold
    <3>3. Stage(p, proc'[p], flock') /\ \A q \in Procs : q # p => (flock' = q <=> flock = q)
        BY <1>0, <3>1, <3>2 DEF Stages, Stage
    <3> QED
        BY <3>1, <3>3, StagesBut
  <2>8. ASSUME NEW p \in Procs, Crash(p) PROVE Stages'
    <3>1. /\ proc'[p] = Idle /\ flock' = IF flock = p THEN None ELSE flock
          /\ \A q \in Procs : q # p => proc'[q] = proc[q]
        BY <2>8, CrashTyped
    <3>2. Stage(p, proc'[p], flock') /\ \A q \in Procs : q # p => (flock' = q <=> flock = q)
        BY <1>0, <3>1, IdleStage
    <3> QED
        BY <3>1, <3>2, StagesBut
  <2> QED
    BY <1>1, <2>1, <2>2, <2>3, <2>4, <2>5, <2>6, <2>7, <2>8 DEF SearchStep
<1>2. ASSUME NEW p \in Procs, Create(p) PROVE Stages'
  <2>1. flock' = flock /\ Refuse(p) /\ proc[p].pc = "chosen"
    BY <1>2 DEF Create, handler, Refuse
  <2>2. proc'[p] = Idle /\ \A q \in Procs : q # p => proc'[q] = proc[q]
    BY <2>1, IdleTyped
  <2>3. Stage(p, proc'[p], flock')
    BY <2>1, <2>2, IdleStage DEF Stages, Stage
  <2> QED
    BY <2>1, <2>2, <2>3, StagesBut
<1>3. CASE VisitStep \/ (\E d \in DOMAIN toc : Wipe(d)) \/ (\E d \in DOMAIN toc, r \in Mounted : MoveToc(d, r)) \/ MoveDone
  <2>1. UNCHANGED <<flock, proc>>
    BY <1>3, VisitKeepsAll DEF Wipe, MoveToc, MoveDone, handler
  <2> QED
    BY <2>1 DEF Stages
<1> QED
    BY <1>1, <1>2, <1>3, NextSteps

(* The expver file. *)
LEMMA NextOneLine ==
    ASSUME DiskTypes, RootTypes, Stages, OneLine, Next
    PROVE  OneLine' /\ ToSet(expvers) \subseteq ToSet(expvers')
<1>1. ASSUME expvers' = expvers, table' = table, NEW p \in Procs,
             \A q \in Procs : q # p => proc'[q] = proc[q], proc'[p].pc # "write"
      PROVE  OneLine'
    BY <1>1 DEF OneLine
<1>2. CASE SearchStep
  <2>1. ASSUME NEW p \in Procs, NEW k \in Keys, Begin(p, k)
        PROVE  OneLine' /\ ToSet(expvers) \subseteq ToSet(expvers')
    <3>1. UNCHANGED <<expvers, table>>
        BY <2>1 DEF Begin, handler
    <3>2. proc'[p].pc # "write" /\ \A q \in Procs : q # p => proc'[q] = proc[q]
      <4>1. CASE proc'[p] # Idle
        <5>1. proc'[p].pc \in {"chosen", "exists"}
            BY <2>1, <4>1, BeginTyped
        <5> QED
            BY <2>1, <5>1, BeginTyped
      <4> QED
        BY <2>1, <4>1, BeginTyped, IdlePc
    <3> QED
        BY <1>1, <3>1, <3>2
  <2>2. ASSUME NEW p \in Procs, ExistsAt(p)
        PROVE  OneLine' /\ ToSet(expvers) \subseteq ToSet(expvers')
    <3>1. UNCHANGED <<expvers, table>>
        BY <2>2 DEF ExistsAt, handler
    <3>2. proc'[p].pc # "write" /\ \A q \in Procs : q # p => proc'[q] = proc[q]
        BY <2>2, ExistsAtTyped
    <3> QED
        BY <1>1, <3>1, <3>2
  <2>3. ASSUME NEW p \in Procs, Exists(p)
        PROVE  OneLine' /\ ToSet(expvers) \subseteq ToSet(expvers')
    <3>1. UNCHANGED <<expvers, table>>
        BY <2>3 DEF Exists, handler
    <3>2. proc'[p].pc # "write" /\ \A q \in Procs : q # p => proc'[q] = proc[q]
        BY <2>3, ExistsTyped, IdlePc
    <3> QED
        BY <1>1, <3>1, <3>2
  <2>4. ASSUME NEW p \in Procs, SelectFirst(p) \/ SelectAny(p)
        PROVE  OneLine' /\ ToSet(expvers) \subseteq ToSet(expvers')
    <3>1. /\ UNCHANGED <<expvers, table>>
          /\ proc'[p].pc # "write" /\ \A q \in Procs : q # p => proc'[q] = proc[q]
        BY <2>4, SelectTyped, IdlePc
    <3> QED
        BY <1>1, <3>1
  <2>5. ASSUME NEW p \in Procs, SelectExpver(p)
        PROVE  OneLine' /\ ToSet(expvers) \subseteq ToSet(expvers')
    <3>1. /\ expvers' = expvers
          /\ proc'[p].pc # "write" /\ \A q \in Procs : q # p => proc'[q] = proc[q]
          /\ \A q \in Procs : \A e \in DOMAIN table'[q] : <<e, table'[q][e]>> \in ToSet(expvers)
        BY <2>5, SelectExpverTyped, IdlePc
    <3> QED
        BY <3>1 DEF OneLine
  <2>6. ASSUME NEW p \in Procs, AppendRead(p)
        PROVE  OneLine' /\ ToSet(expvers) \subseteq ToSet(expvers')
    <3>1. /\ expvers' = expvers /\ proc'[p].key = proc[p].key
          /\ \A q \in Procs : q # p => proc'[q] = proc[q]
          /\ \A q \in Procs : \A e \in DOMAIN table'[q] : <<e, table'[q][e]>> \in ToSet(expvers)
          /\ proc'[p].pc = "write" => \A l \in ToSet(expvers) : l[1] # proc[p].key["expver"]
        BY <2>6, AppendReadTyped
    <3> QED
        BY <3>1 DEF OneLine
  <2>7. ASSUME NEW p \in Procs, AppendWrite(p)
        PROVE  OneLine' /\ ToSet(expvers) \subseteq ToSet(expvers')
    <3> DEFINE line == <<proc[p].key["expver"], proc[p].root>>
    <3>1. /\ ToSet(expvers') = ToSet(expvers) \cup {line} /\ proc[p].pc = "write" /\ flock = p
          /\ proc'[p].pc = "chosen" /\ \A q \in Procs : q # p => proc'[q] = proc[q]
          /\ \A q \in Procs : \A e \in DOMAIN table'[q] : <<e, table'[q][e]>> \in ToSet(expvers')
        BY <2>7, AppendWriteTyped
    <3>2. \A l \in ToSet(expvers) : l[1] # line[1]
        BY <3>1 DEF OneLine
    <3>3. \A l, m \in ToSet(expvers') : l[1] = m[1] => l = m
        BY <3>1, <3>2 DEF OneLine
    <3>4. \A q \in Procs : proc'[q].pc # "write"
        BY <3>1 DEF Stages, Stage
    <3> QED
        BY <3>1, <3>3, <3>4 DEF OneLine
  <2>8. ASSUME NEW p \in Procs, Crash(p)
        PROVE  OneLine' /\ ToSet(expvers) \subseteq ToSet(expvers')
    <3>1. /\ expvers' = expvers /\ proc'[p] = Idle
          /\ \A q \in Procs : q # p => proc'[q] = proc[q]
          /\ \A q \in Procs : \A e \in DOMAIN table'[q] : <<e, table'[q][e]>> \in ToSet(expvers)
        BY <2>8, CrashTyped
    <3> QED
        BY <3>1, IdlePc DEF OneLine
  <2> QED
    BY <1>2, <2>1, <2>2, <2>3, <2>4, <2>5, <2>6, <2>7, <2>8 DEF SearchStep
<1>3. ASSUME NEW p \in Procs, Create(p) PROVE OneLine' /\ ToSet(expvers) \subseteq ToSet(expvers')
  <2>1. UNCHANGED <<expvers, table>> /\ Refuse(p)
    BY <1>3 DEF Create, handler, Refuse
  <2>2. proc'[p].pc # "write" /\ \A q \in Procs : q # p => proc'[q] = proc[q]
    BY <2>1, IdleTyped, IdlePc
  <2> QED
    BY <1>1, <2>1, <2>2
<1>4. CASE VisitStep \/ (\E d \in DOMAIN toc : Wipe(d)) \/ (\E d \in DOMAIN toc, r \in Mounted : MoveToc(d, r)) \/ MoveDone
  <2>1. UNCHANGED <<expvers, table, proc>>
    BY <1>4, VisitKeepsAll DEF Wipe, MoveToc, MoveDone, handler
  <2> QED
    BY <2>1 DEF OneLine
<1> QED
    BY <1>2, <1>3, <1>4, NextSteps

(* What a search has seen stays where it is, unless its key becomes loose. *)
LEMMA SeenStays ==
    ASSUME DiskTypes, RootTypes, MovedAreLoose, Stages, Next,
           NEW s, Seen(s, toc), s.key \notin loose'
    PROVE  Seen(s, toc')
<1>1. /\ \A d \in DOMAIN toc : d \in DOMAIN toc' => toc'[d] = toc[d]
      /\ \A d \in DOMAIN toc : d \notin DOMAIN toc' => toc[d] \in loose'
    BY DiskSteps
<1> QED
    BY <1>1 DEF Seen

LEMMA NothingSeen ==
    ASSUME NEW s, NEW t, s.before = {}, s.pc # "exists"
    PROVE  Seen(s, t)
BY DEF Seen

LEMMA SeenBut ==
    ASSUME AllSeen, toc' = toc, loose' = loose, NEW p \in Procs,
           \A q \in Procs : q # p => proc'[q] = proc[q],
           proc'[p].pc # "idle" /\ proc'[p].key \notin loose => Seen(proc'[p], toc)
    PROVE  AllSeen'
<1> SUFFICES ASSUME NEW q \in Procs, proc'[q].pc # "idle", proc'[q].key \notin loose
             PROVE  Seen(proc'[q], toc)
    BY DEF AllSeen
<1>1. CASE q # p
    BY <1>1 DEF AllSeen
<1> QED
    BY <1>1

(* A database of the name of a key has that key. *)
LEMMA NamedIsKey ==
    ASSUME DiskTypes, NEW d \in DOMAIN toc, NEW k \in Keys, d[2] = DbPathName(k)
    PROVE  toc[d] = k
BY NamesAssumption DEF DiskTypes

LEMMA RootsLen ==
    ASSUME NEW k, SpaceOf(k) # 0
    PROVE  Len(RootsOf(k)) \in Nat /\ DOMAIN RootsOf(k) = 1..Len(RootsOf(k))
BY SpaceOfFits, ConfigurationShape DEF RootsOf

LEMMA BeginSeen ==
    ASSUME DiskTypes, RootTypes, NEW p \in Procs, NEW k \in Keys, Begin(p, k), proc'[p] # Idle
    PROVE  Seen(proc'[p], toc)
<1> DEFINE s == proc'[p]
<1>1. /\ FixedRoot # "" => s.pc = "chosen"
      /\ FixedRoot = "" => s.pc = "exists"
      /\ s.key = k /\ s.before = Dirs(k) /\ s.i = 1 /\ s.count = 0 /\ s.root = FixedRoot
    BY BeginTyped
<1>2. \A d \in s.before : d \in DOMAIN toc /\ toc[d] = s.key /\ d[1] \in ListRoots(s.key)
    BY <1>1, NamedIsKey DEF Dirs
<1>3. s.pc = "exists" => s.root = ""
    BY <1>1
<1>4. s.pc = "chosen" => \A d \in s.before : s.root = d[1]
  <2>1. CASE FixedRoot # ""
    <3>1. ListRoots(k) \subseteq {FixedRoot}
        BY <2>1, FixedSpace
    <3> QED
        BY <1>1, <1>2, <3>1
  <2> QED
    BY <1>1, <2>1
<1>5. \A j \in 1..Len(RootsOf(s.key)) : ~(j < s.i)
  <2>1. SpaceOf(k) # 0
    <3>1. CASE FixedRoot # ""
      <4>1. SpaceOf(k) = 1
        BY <3>1, FixedSpace
      <4> QED
        BY <4>1
    <3> QED
        BY <3>1, BeginTyped
  <2>2. Len(RootsOf(k)) \in Nat
    BY <2>1, RootsLen
  <2>3. \A j \in 1..Len(RootsOf(k)) : ~(j < 1)
    BY ONLY <2>2
  <2>4. s.key = k /\ s.i = 1
    BY <1>1
  <2> HIDE DEF s
  <2> QED
    BY ONLY <2>3, <2>4
<1>6. s.pc \notin {"select", "append", "write"}
    BY <1>1
<1> HIDE DEF s
<1>7. Seen(s, toc)
    BY <1>1, <1>2, <1>3, <1>4, <1>5, <1>6 DEF Seen
<1> QED
    BY <1>7 DEF s

LEMMA ExistsAtSeen ==
    ASSUME DiskTypes, RootTypes, MovedAreLoose, Stages, NEW p \in Procs, ExistsAt(p),
           proc[p].key \notin loose, Seen(proc[p], toc)
    PROVE  Seen(proc'[p], toc)
<1> DEFINE s == proc[p]
           t == proc'[p]
           r == RootsOf(s.key)[s.i]
           dir == <<r.path, DbPathName(s.key)>>
           there == Lists(r) /\ dir \in DOMAIN toc
<1>1. s.pc = "exists" /\ s \in Searches
    BY SearchRecord DEF ExistsAt
<1>2. s.key \in Keys /\ s.count \in Nat /\ s.i \in Nat
    BY <1>1 DEF Searches
<1>3. /\ t.pc = "exists" /\ t.key = s.key /\ t.before = s.before /\ t.i = s.i + 1
      /\ t.root = IF there /\ Takes(s.count, dir \in allow) THEN r.path ELSE s.root
      /\ t.count = IF there /\ dir \notin allow THEN s.count + 1 ELSE s.count
    BY ExistsAtTyped
<1>4. there => dir \notin allow
  <2> SUFFICES ASSUME there, dir \in allow PROVE FALSE
    OBVIOUS
  <2>1. toc[dir] = s.key
    BY <1>2, NamedIsKey
  <2> QED
    BY <2>1 DEF MovedAreLoose
<1>5. there => r.path # ""
    BY RootsAssumption DEF Lists
<1> HIDE DEF there, dir, r
<1>6. there => t.root = (IF s.count = 0 THEN r.path ELSE s.root) /\ t.count = s.count + 1
    BY <1>3, <1>4 DEF Takes
<1>7. ~there => t.root = s.root /\ t.count = s.count
    BY <1>3
<1>8. s.count = 0 <=> s.root = ""
    BY <1>1 DEF Seen
<1>9. t.count = 0 <=> t.root = ""
  <2>1. CASE there
    <3>1. t.count # 0
        BY <1>2, <1>6, <2>1
    <3>2. t.root # ""
        BY <1>5, <1>6, <1>8, <2>1
    <3> QED
        BY <3>1, <3>2
  <2> QED
    BY <1>7, <1>8, <2>1
<1>10. \A d \in s.before : d \in DOMAIN toc /\ toc[d] = s.key /\ d[1] \in ListRoots(s.key)
    BY DEF Seen
<1>11. Len(RootsOf(s.key)) \in Nat
    BY <1>1, RootsLen DEF Stages, Stage
<1>12. ASSUME NEW d \in s.before, NEW j \in 1..Len(RootsOf(s.key)), j < t.i,
              RootsOf(s.key)[j].path = d[1], Lists(RootsOf(s.key)[j])
       PROVE  t.count > 0 /\ (t.count = 1 => t.root = d[1])
  <2>1. CASE j = s.i
    <3>1. d = <<d[1], d[2]>> /\ d[2] = DbPathName(s.key) /\ d \in DOMAIN toc
        BY <1>10 DEF DiskTypes, Places
    <3>2. r.path = d[1] /\ Lists(r)
        BY <1>12, <2>1 DEF r
    <3>3. dir = d
        BY <3>1, <3>2 DEF dir
    <3>4. there
        BY <3>1, <3>2, <3>3 DEF there
    <3> QED
        BY <1>2, <1>6, <3>2, <3>4
  <2>2. CASE j # s.i
    <3>1. j < s.i
        BY <1>2, <1>3, <1>11, <1>12, <2>2
    <3>2. s.count > 0 /\ (s.count = 1 => s.root = d[1])
        BY <1>1, <1>12, <3>1 DEF Seen
    <3> QED
        BY <1>2, <1>6, <1>7, <3>2
  <2> QED
    BY <2>1, <2>2
<1> HIDE DEF s, t
<1> QED
    BY <1>3, <1>9, <1>10, <1>12 DEF Seen, s, t

LEMMA ExistsSeen ==
    ASSUME RootTypes, Stages, NEW p \in Procs, Exists(p), proc'[p] # Idle, Seen(proc[p], toc)
    PROVE  Seen(proc'[p], toc)
<1> DEFINE s == proc[p]
           t == proc'[p]
<1>1. /\ s.pc = "exists" /\ s.i > Len(RootsOf(s.key)) /\ s.count <= 1
      /\ t.key = s.key /\ t.before = s.before /\ t.root = s.root
      /\ t.pc = IF s.root # "" THEN "chosen" ELSE "select"
    BY ExistsTyped
<1>2. s.count \in Nat /\ s.i \in Nat
    BY <1>1, SearchRecord DEF Searches
<1>3. Len(RootsOf(s.key)) \in Nat /\ DOMAIN RootsOf(s.key) = 1..Len(RootsOf(s.key))
    BY <1>1, RootsLen DEF Stages, Stage
<1>4. s.count = 0 <=> s.root = ""
    BY <1>1 DEF Seen
<1>5. ASSUME NEW d \in s.before
      PROVE  s.count > 0 /\ (s.count = 1 => s.root = d[1])
  <2>1. d[1] \in ListRoots(s.key)
    BY DEF Seen
  <2>2. PICK j \in 1..Len(RootsOf(s.key)) : RootsOf(s.key)[j].path = d[1] /\ Lists(RootsOf(s.key)[j])
    BY <1>3, <2>1 DEF ListRoots, ToSet
  <2>3. j < s.i
    <3>1. s.i > Len(RootsOf(s.key)) /\ s.i \in Nat /\ Len(RootsOf(s.key)) \in Nat
        BY <1>1, <1>2, <1>3
    <3>2. j \in 1..Len(RootsOf(s.key))
        BY <2>2
    <3> HIDE DEF s
    <3> QED
        BY ONLY <3>1, <3>2
  <2> QED
    BY <1>1, <2>2, <2>3 DEF Seen
<1>6. \A d \in t.before : d \in DOMAIN toc /\ toc[d] = t.key /\ d[1] \in ListRoots(t.key)
    BY <1>1 DEF Seen
<1>7. t.pc = "select" => t.before = {}
  <2>1. t.pc = "select" => s.count = 0
    BY <1>1, <1>4
  <2>2. t.pc = "select" => \A d \in s.before : FALSE
    BY <1>5, <2>1
  <2> QED
    BY <1>1, <2>2
<1>8. t.pc = "chosen" => \A d \in t.before : t.root = d[1]
  <2>1. s.count > 0 => s.count = 1
    <3>1. s.count <= 1 /\ s.count \in Nat
        BY <1>1, <1>2
    <3> HIDE DEF s
    <3> QED
        BY ONLY <3>1
  <2> QED
    BY <1>1, <1>5, <2>1
<1>9. t.pc \in {"select", "chosen"}
    BY <1>1
<1> HIDE DEF s, t
<1> QED
    BY <1>6, <1>7, <1>8, <1>9 DEF Seen, t

(* No other step moves a search, but for one that ends. *)
LEMMA OtherSteps ==
    ASSUME RootTypes, Next, ~SearchStep
    PROVE  \A p \in Procs : proc'[p].pc # "idle" => proc'[p] = proc[p]
<1>1. ASSUME NEW q \in Procs, Create(q)
      PROVE  \A p \in Procs : proc'[p].pc # "idle" => proc'[p] = proc[p]
  <2>1. Refuse(q)
    BY <1>1 DEF Create, Refuse
  <2> QED
    BY <2>1, IdleTyped, IdlePc
<1>2. CASE \/ VisitStep \/ MoveDone
           \/ (\E d \in DOMAIN toc : Wipe(d)) \/ (\E d \in DOMAIN toc, r \in Mounted : MoveToc(d, r))
  <2>1. proc' = proc
    BY <1>2, VisitKeepsAll DEF Wipe, MoveToc, MoveDone
  <2> QED
    BY <2>1
<1> QED
    BY <1>1, <1>2, NextSteps

LEMMA NextSeen ==
    ASSUME DiskTypes, RootTypes, MovedAreLoose, Stages, OneLine, AllSeen, Next
    PROVE  AllSeen'
<1>1. CASE SearchStep
  <2>0. toc' = toc /\ loose' = loose
    BY <1>1, SearchKeepsDisk
  <2>1. ASSUME NEW p \in Procs, NEW k \in Keys, Begin(p, k) PROVE AllSeen'
    <3>1. proc'[p] # Idle => Seen(proc'[p], toc)
        BY <2>1, BeginSeen
    <3>2. \A q \in Procs : q # p => proc'[q] = proc[q]
        BY <2>1, BeginTyped
    <3> QED
        BY <2>0, <3>1, <3>2, SeenBut, IdlePc
  <2>2. ASSUME NEW p \in Procs, ExistsAt(p) PROVE AllSeen'
    <3>1. proc'[p].key = proc[p].key /\ \A q \in Procs : q # p => proc'[q] = proc[q]
        BY <2>2, ExistsAtTyped
    <3>2. proc[p].pc # "idle"
        BY <2>2 DEF ExistsAt
    <3>3. ASSUME proc'[p].key \notin loose PROVE Seen(proc'[p], toc)
      <4>1. proc[p].key \notin loose /\ Seen(proc[p], toc)
        BY <3>1, <3>2, <3>3 DEF AllSeen
      <4> QED
        BY <2>2, <4>1, ExistsAtSeen
    <3> QED
        BY <2>0, <3>1, <3>3, SeenBut
  <2>3. ASSUME NEW p \in Procs, Exists(p) PROVE AllSeen'
    <3>1. /\ proc[p].pc # "idle" /\ \A q \in Procs : q # p => proc'[q] = proc[q]
          /\ proc'[p] # Idle => proc'[p].key = proc[p].key
        BY <2>3, ExistsTyped
    <3>2. ASSUME proc'[p] # Idle, proc'[p].key \notin loose PROVE Seen(proc'[p], toc)
      <4>1. Seen(proc[p], toc)
        BY <3>1, <3>2 DEF AllSeen
      <4> QED
        BY <2>3, <3>2, <4>1, ExistsSeen
    <3> QED
        BY <2>0, <3>1, <3>2, SeenBut, IdlePc
  <2>4. ASSUME NEW p \in Procs, \A q \in Procs : q # p => proc'[q] = proc[q],
               proc[p].pc \in {"select", "append", "write"},
               proc'[p] # Idle => /\ proc'[p].key = proc[p].key /\ proc'[p].before = proc[p].before
                                  /\ proc'[p].pc \in {"chosen", "append", "write"}
        PROVE  AllSeen'
    <3>1. ASSUME proc'[p] # Idle, proc'[p].key \notin loose PROVE Seen(proc'[p], toc)
      <4>1. Seen(proc[p], toc)
        BY <2>4, <3>1 DEF AllSeen
      <4>2. proc'[p].before = {} /\ proc'[p].pc # "exists"
        BY <2>4, <3>1, <4>1 DEF Seen
      <4> QED
        BY <4>2, NothingSeen
    <3> QED
        BY <2>0, <2>4, <3>1, SeenBut, IdlePc
  <2>5. ASSUME NEW p \in Procs, SelectFirst(p) \/ SelectAny(p) PROVE AllSeen'
    BY <2>4, <2>5, SelectTyped
  <2>6. ASSUME NEW p \in Procs, SelectExpver(p) PROVE AllSeen'
    BY <2>4, <2>6, SelectExpverTyped
  <2>7. ASSUME NEW p \in Procs, AppendRead(p) PROVE AllSeen'
    BY <2>4, <2>7, AppendReadTyped
  <2>8. ASSUME NEW p \in Procs, AppendWrite(p) PROVE AllSeen'
    BY <2>4, <2>8, AppendWriteTyped
  <2>9. ASSUME NEW p \in Procs, Crash(p) PROVE AllSeen'
    <3>1. proc'[p].pc = "idle" /\ \A q \in Procs : q # p => proc'[q] = proc[q]
        BY <2>9, CrashTyped, IdlePc
    <3> QED
        BY <2>0, <3>1, SeenBut
  <2> QED
    BY <1>1, <2>1, <2>2, <2>3, <2>5, <2>6, <2>7, <2>8, <2>9 DEF SearchStep
<1>2. CASE ~SearchStep
  <2>1. \A p \in Procs : proc'[p].pc # "idle" => proc'[p] = proc[p]
    BY <1>2, OtherSteps
  <2> SUFFICES ASSUME NEW p \in Procs, proc'[p].pc # "idle", proc'[p].key \notin loose'
               PROVE  Seen(proc'[p], toc')
    BY DEF AllSeen
  <2>2. proc'[p] = proc[p] /\ loose \subseteq loose'
    BY <2>1, DiskSteps
  <2>3. Seen(proc[p], toc)
    BY <2>2 DEF AllSeen
  <2> QED
    BY <2>2, <2>3, SeenStays
<1> QED
    BY <1>1, <1>2

----------------------------------------------------------------------------
(* The roots that databases belong to. *)

LEMMA BelongsStays ==
    ASSUME NEW k, NEW r, NEW S, NEW T, S \subseteq T, Belongs(k, r, S)
    PROVE  Belongs(k, r, T)
BY DEF Belongs

LEMMA NextTocBelongs ==
    ASSUME DiskTypes, RootTypes, MovedAreLoose, Stages, OneLine, TocBelongs, ProcBelongs, Next
    PROVE  TocBelongs'
<1> SUFFICES ASSUME NEW d \in DOMAIN toc', toc'[d] \notin loose'
             PROVE  Belongs(toc'[d], d[1], ToSet(expvers'))
    BY DEF TocBelongs
<1>1. ToSet(expvers) \subseteq ToSet(expvers') /\ loose \subseteq loose'
    BY NextOneLine, DiskSteps
<1>2. CASE d \in DOMAIN toc
  <2>1. toc'[d] = toc[d] /\ toc[d] \notin loose
    BY <1>1, <1>2, DiskSteps
  <2>2. Belongs(toc[d], d[1], ToSet(expvers))
    BY <1>2, <2>1 DEF TocBelongs
  <2> QED
    BY <1>1, <2>1, <2>2, BelongsStays
<1>3. CASE d \notin DOMAIN toc
  <2>1. PICK p \in Procs : proc[p].pc = "chosen" /\ toc'[d] = proc[p].key /\ d[1] = proc[p].root
    BY <1>3, DiskSteps
  <2>2. proc[p].root # "" /\ proc[p].key \notin loose
    BY <1>1, <2>1 DEF Stages, Stage
  <2>3. Belongs(proc[p].key, proc[p].root, ToSet(expvers))
    BY <2>1, <2>2 DEF ProcBelongs
  <2> QED
    BY <1>1, <2>1, <2>3, BelongsStays
<1> QED
    BY <1>2, <1>3

LEMMA BelongsBut ==
    ASSUME ProcBelongs, ToSet(expvers) \subseteq ToSet(expvers'), loose' = loose,
           NEW p \in Procs, \A q \in Procs : q # p => proc'[q] = proc[q],
           proc'[p].pc \in {"exists", "chosen"} /\ proc'[p].key \notin loose /\ proc'[p].root # ""
               => Belongs(proc'[p].key, proc'[p].root, ToSet(expvers'))
    PROVE  ProcBelongs'
<1> SUFFICES ASSUME NEW q \in Procs, proc'[q].pc \in {"exists", "chosen"},
                    proc'[q].key \notin loose, proc'[q].root # ""
             PROVE  Belongs(proc'[q].key, proc'[q].root, ToSet(expvers'))
    BY DEF ProcBelongs
<1>1. CASE q # p
  <2>1. Belongs(proc[q].key, proc[q].root, ToSet(expvers))
    BY <1>1 DEF ProcBelongs
  <2> QED
    BY <1>1, <2>1, BelongsStays
<1> QED
    BY <1>1

(* A line of the expver file places the databases of its experiment. *)
LEMMA LineBelongs ==
    ASSUME NEW k, NEW r, NEW S, <<k["expver"], r>> \in S,
           SpaceOf(k) # 0, FixedRoot = "", Spaces[SpaceOf(k)].handler = "expver"
    PROVE  Belongs(k, r, S)
BY DEF Belongs, HandlerOf

LEMMA BeginBelongs ==
    ASSUME DiskTypes, RootTypes, NEW p \in Procs, NEW k \in Keys, Begin(p, k),
           proc'[p] # Idle, proc'[p].root # "", NEW S
    PROVE  Belongs(proc'[p].key, proc'[p].root, S)
<1>1. proc'[p].root = FixedRoot
    BY BeginTyped
<1>2. HandlerOf(proc'[p].key) = "Default"
    BY <1>1 DEF HandlerOf
<1> QED
    BY <1>1, <1>2 DEF Belongs

LEMMA ExistsAtBelongs ==
    ASSUME DiskTypes, RootTypes, NEW p \in Procs, ExistsAt(p), TocBelongs, ProcBelongs,
           proc[p].key \notin loose, proc'[p].root # ""
    PROVE  Belongs(proc[p].key, proc'[p].root, ToSet(expvers))
<1> DEFINE s == proc[p]
           r == RootsOf(s.key)[s.i]
           dir == <<r.path, DbPathName(s.key)>>
           there == Lists(r) /\ dir \in DOMAIN toc
<1>1. s.pc = "exists" /\ s.key \in Keys
    BY SearchRecord DEF ExistsAt, Searches
<1>2. CASE there /\ proc'[p].root = r.path
  <2>1. toc[dir] = s.key /\ dir[1] = r.path
    BY <1>1, <1>2, NamedIsKey
  <2> QED
    BY <1>2, <2>1 DEF TocBelongs
<1>3. CASE proc'[p].root = s.root
    BY <1>1, <1>3 DEF ProcBelongs
<1>4. proc'[p].root = IF there /\ Takes(s.count, dir \in allow) THEN r.path ELSE s.root
    BY ExistsAtTyped
<1> HIDE DEF s, r, dir, there
<1> QED
    BY <1>2, <1>3, <1>4

LEMMA SelectBelongs ==
    ASSUME RootTypes, Stages, NEW p \in Procs, SelectFirst(p) \/ SelectAny(p),
           proc'[p] # Idle, NEW S
    PROVE  Belongs(proc'[p].key, proc'[p].root, S)
<1>1. /\ proc[p].pc = "select" /\ Handler(p) \in {"Default", "Random"}
      /\ proc'[p].key = proc[p].key
      /\ Handler(p) = "Default" => proc'[p].root \in First(proc[p].key)
    BY SelectTyped
<1>2. FixedRoot = ""
    BY <1>1 DEF Stages, Stage
<1>3. HandlerOf(proc[p].key) = Handler(p)
    BY <1>2 DEF HandlerOf, Handler
<1> QED
    BY <1>1, <1>2, <1>3 DEF Belongs

LEMMA NextProcBelongs ==
    ASSUME DiskTypes, RootTypes, MovedAreLoose, Stages, OneLine, TocBelongs, ProcBelongs, Next
    PROVE  ProcBelongs'
<1>0. ToSet(expvers) \subseteq ToSet(expvers') /\ loose \subseteq loose'
    BY NextOneLine, DiskSteps
<1>1. CASE SearchStep
  <2>0. toc' = toc /\ loose' = loose
    BY <1>1, SearchKeepsDisk
  <2>1. ASSUME NEW p \in Procs, NEW k \in Keys, Begin(p, k) PROVE ProcBelongs'
    <3>1. \A q \in Procs : q # p => proc'[q] = proc[q]
        BY <2>1, BeginTyped
    <3>2. proc'[p] # Idle /\ proc'[p].root # "" => Belongs(proc'[p].key, proc'[p].root, ToSet(expvers'))
        BY <2>1, BeginBelongs
    <3> QED
        BY <1>0, <2>0, <3>1, <3>2, BelongsBut, IdlePc
  <2>2. ASSUME NEW p \in Procs, ExistsAt(p) PROVE ProcBelongs'
    <3>1. proc'[p].key = proc[p].key /\ \A q \in Procs : q # p => proc'[q] = proc[q]
        BY <2>2, ExistsAtTyped
    <3>2. ASSUME proc'[p].root # "", proc'[p].key \notin loose
          PROVE  Belongs(proc'[p].key, proc'[p].root, ToSet(expvers'))
      <4>1. Belongs(proc[p].key, proc'[p].root, ToSet(expvers))
        BY <2>2, <3>1, <3>2, ExistsAtBelongs
      <4> QED
        BY <1>0, <3>1, <4>1, BelongsStays
    <3> QED
        BY <1>0, <2>0, <3>1, <3>2, BelongsBut
  <2>3. ASSUME NEW p \in Procs, Exists(p) PROVE ProcBelongs'
    <3>1. /\ proc[p].pc = "exists" /\ \A q \in Procs : q # p => proc'[q] = proc[q]
          /\ proc'[p] # Idle => proc'[p].key = proc[p].key /\ proc'[p].root = proc[p].root
        BY <2>3, ExistsTyped
    <3>2. ASSUME proc'[p] # Idle, proc'[p].root # "", proc'[p].key \notin loose
          PROVE  Belongs(proc'[p].key, proc'[p].root, ToSet(expvers'))
      <4>1. Belongs(proc[p].key, proc[p].root, ToSet(expvers))
        BY <3>1, <3>2 DEF ProcBelongs
      <4> QED
        BY <1>0, <3>1, <3>2, <4>1, BelongsStays
    <3> QED
        BY <1>0, <2>0, <3>1, <3>2, BelongsBut, IdlePc
  <2>4. ASSUME NEW p \in Procs, SelectFirst(p) \/ SelectAny(p) PROVE ProcBelongs'
    <3>1. \A q \in Procs : q # p => proc'[q] = proc[q]
        BY <2>4, SelectTyped
    <3>2. proc'[p] # Idle => Belongs(proc'[p].key, proc'[p].root, ToSet(expvers'))
        BY <2>4, SelectBelongs
    <3> QED
        BY <1>0, <2>0, <3>1, <3>2, BelongsBut, IdlePc
  <2>5. ASSUME NEW p \in Procs, \A q \in Procs : q # p => proc'[q] = proc[q],
               proc[p].pc \in {"select", "append", "write"}, SpaceOf(proc[p].key) # 0,
               Spaces[SpaceOf(proc[p].key)].handler = "expver",
               proc'[p].pc = "chosen" =>
                   /\ proc'[p].key = proc[p].key
                   /\ <<proc[p].key["expver"], proc'[p].root>> \in ToSet(expvers'),
               proc'[p].pc # "exists"
        PROVE  ProcBelongs'
    <3>1. FixedRoot = ""
        BY <2>5 DEF Stages, Stage
    <3>2. proc'[p].pc = "chosen" => Belongs(proc'[p].key, proc'[p].root, ToSet(expvers'))
        BY <2>5, <3>1, LineBelongs
    <3> QED
        BY <1>0, <2>0, <2>5, <3>2, BelongsBut
  <2>6. ASSUME NEW p \in Procs, SelectExpver(p) PROVE ProcBelongs'
    <3>1. /\ \A q \in Procs : q # p => proc'[q] = proc[q]
          /\ proc[p].pc = "select" /\ SpaceOf(proc[p].key) # 0 /\ Handler(p) = "expver"
          /\ expvers' = expvers
          /\ proc'[p] # Idle =>
                 /\ proc'[p].key = proc[p].key
                 /\ \/ /\ proc'[p].pc = "chosen"
                       /\ <<proc[p].key["expver"], proc'[p].root>> \in ToSet(expvers)
                    \/ proc'[p].pc = "append"
        BY <2>6, SelectExpverTyped
    <3> QED
        BY <2>5, <3>1, IdlePc DEF Handler
  <2>7. ASSUME NEW p \in Procs, AppendRead(p) PROVE ProcBelongs'
    <3>1. /\ \A q \in Procs : q # p => proc'[q] = proc[q]
          /\ proc[p].pc = "append" /\ expvers' = expvers /\ proc'[p].key = proc[p].key
          /\ \/ /\ proc'[p].pc = "chosen"
                /\ <<proc[p].key["expver"], proc'[p].root>> \in ToSet(expvers)
             \/ proc'[p].pc = "write"
        BY <2>7, AppendReadTyped
    <3>2. SpaceOf(proc[p].key) # 0 /\ Spaces[SpaceOf(proc[p].key)].handler = "expver"
        BY <3>1 DEF Stages, Stage
    <3> QED
        BY <2>5, <3>1, <3>2
  <2>8. ASSUME NEW p \in Procs, AppendWrite(p) PROVE ProcBelongs'
    <3>1. /\ \A q \in Procs : q # p => proc'[q] = proc[q]
          /\ proc[p].pc = "write" /\ proc'[p].key = proc[p].key
          /\ ToSet(expvers') = ToSet(expvers) \cup {<<proc[p].key["expver"], proc[p].root>>}
          /\ proc'[p].pc = "chosen" /\ proc'[p].root = proc[p].root
          /\ SpaceOf(proc[p].key) # 0 /\ Handler(p) = "expver"
        BY <2>8, AppendWriteTyped
    <3> QED
        BY <2>5, <3>1 DEF Handler
  <2>9. ASSUME NEW p \in Procs, Crash(p) PROVE ProcBelongs'
    <3>1. proc'[p].pc = "idle" /\ \A q \in Procs : q # p => proc'[q] = proc[q]
        BY <2>9, CrashTyped, IdlePc
    <3> QED
        BY <1>0, <2>0, <3>1, BelongsBut
  <2> QED
    BY <1>1, <2>1, <2>2, <2>3, <2>4, <2>6, <2>7, <2>8, <2>9 DEF SearchStep
<1>2. CASE ~SearchStep
  <2> SUFFICES ASSUME NEW p \in Procs, proc'[p].pc \in {"exists", "chosen"},
                      proc'[p].key \notin loose', proc'[p].root # ""
               PROVE  Belongs(proc'[p].key, proc'[p].root, ToSet(expvers'))
    BY DEF ProcBelongs
  <2>1. proc'[p] = proc[p]
    BY <1>2, OtherSteps
  <2>2. Belongs(proc[p].key, proc[p].root, ToSet(expvers))
    BY <1>0, <2>1 DEF ProcBelongs
  <2> QED
    BY <1>0, <2>1, <2>2, BelongsStays
<1> QED
    BY <1>1, <1>2

----------------------------------------------------------------------------
(* Where databases are: the theorems. *)

LEMMA InitPlaceInv == Init => PlaceInv
<1> SUFFICES ASSUME Init PROVE PlaceInv
    OBVIOUS
<1>1. DOMAIN toc = {} /\ toc \in [DOMAIN toc -> Keys] /\ allow = {} /\ loose = {} /\ moving = {}
    BY DEF Init, Empty
<1>2. expvers \in Seq(Expvers \X Mounted) /\ ToSet(expvers) = {}
    BY DEF Init, ToSet
<1>3. table \in [Procs -> Tables] /\ \A p \in Procs : DOMAIN table[p] = {}
  <2>1. Empty \in [{} -> Mounted] /\ {} \in SUBSET Expvers /\ DOMAIN Empty = {}
    BY DEF Empty
  <2>2. Empty \in Tables
    BY <2>1 DEF Tables
  <2> QED
    BY <2>1, <2>2 DEF Init
<1>4. proc \in [Procs -> Searches \cup {Idle}] /\ \A p \in Procs : proc[p] = Idle
    BY DEF Init
<1>5. flock = None /\ jobs \in 0..MaxJobs
  <2>1. MaxJobs \in Nat
    BY RootsAssumption
  <2>2. 0 \in 0..MaxJobs
    BY ONLY <2>1
  <2> QED
    BY <2>2 DEF Init
<1>6. \A p \in Procs : proc[p].pc = "idle" /\ flock # p
    BY <1>4, <1>5, IdlePc, NoneAssumption
<1>7. DiskTypes /\ MovedAreLoose /\ TocBelongs
    BY <1>1 DEF DiskTypes, MovedAreLoose, TocBelongs
<1>8. RootTypes
    BY <1>2, <1>3, <1>4, <1>5 DEF RootTypes
<1>9. Stages
    BY <1>4, <1>6, IdleStage DEF Stages
<1>10. AllSeen /\ ProcBelongs
    BY <1>6 DEF AllSeen, ProcBelongs
<1>11. OneLine
    BY <1>2, <1>3, <1>6 DEF OneLine
<1> QED
    BY <1>7, <1>8, <1>9, <1>10, <1>11 DEF PlaceInv

LEMMA NextPlaceInv == PlaceInv /\ [Next]_vars => PlaceInv'
<1> SUFFICES ASSUME PlaceInv, [Next]_vars PROVE PlaceInv'
    OBVIOUS
<1>1. CASE Next
  <2>1. DiskTypes' /\ MovedAreLoose'
    BY <1>1, DiskSteps DEF PlaceInv
  <2>2. RootTypes'
    BY <1>1, NextRootTypes DEF PlaceInv
  <2>3. Stages'
    BY <1>1, NextStages DEF PlaceInv
  <2>4. AllSeen'
    BY <1>1, NextSeen DEF PlaceInv
  <2>5. TocBelongs' /\ ProcBelongs'
    BY <1>1, NextTocBelongs, NextProcBelongs DEF PlaceInv
  <2>6. OneLine'
    BY <1>1, NextOneLine DEF PlaceInv
  <2> QED
    BY <2>1, <2>2, <2>3, <2>4, <2>5, <2>6 DEF PlaceInv
<1>2. CASE UNCHANGED vars
  <2>1. UNCHANGED <<toc, allow, moving, loose, expvers, flock, table, proc, jobs>>
    BY <1>2 DEF vars, disk, handler
  <2> QED
    BY <2>1 DEF PlaceInv, DiskTypes, RootTypes, MovedAreLoose, Stages, AllSeen, TocBelongs,
                ProcBelongs, OneLine, Searches, Tables, Places, Paths, Expvers
<1> QED
    BY <1>1, <1>2

LEMMA PlaceInvHolds == Spec => []PlaceInv
<1> QED
    BY InitPlaceInv, NextPlaceInv, PTL DEF Spec

(* The root of a database follows from its key, unless it is drawn at random. *)
LEMMA BelongsToOne ==
    ASSUME OneLine, NEW k, NEW q, NEW r, HandlerOf(k) # "Random",
           Belongs(k, q, ToSet(expvers)), Belongs(k, r, ToSet(expvers))
    PROVE  q = r
<1>1. CASE HandlerOf(k) = "Default"
  <2>1. CASE FixedRoot # ""
    BY <1>1, <2>1 DEF Belongs
  <2>2. CASE FixedRoot = ""
    <3>1. q \in First(k) /\ r \in First(k)
        BY <1>1, <2>2 DEF Belongs
    <3> QED
        BY <3>1 DEF First
  <2> QED
    BY <2>1, <2>2
<1>2. CASE HandlerOf(k) = "expver"
  <2> DEFINE l == <<k["expver"], q>>
             m == <<k["expver"], r>>
  <2>1. l \in ToSet(expvers) /\ m \in ToSet(expvers)
    BY <1>2 DEF Belongs
  <2>2. l[1] = m[1] /\ l[2] = q /\ m[2] = r
    OBVIOUS
  <2> HIDE DEF l, m
  <2>3. l = m
    BY <2>1, <2>2 DEF OneLine
  <2> QED
    BY <2>2, <2>3
<1> QED
    BY <1>1, <1>2 DEF Belongs

LEMMA PlaceInvTypes == PlaceInv => TypeOK
<1> SUFFICES ASSUME PlaceInv PROVE TypeOK
    OBVIOUS
<1>1. \A d \in DOMAIN toc : d[1] \in Mounted /\ toc[d] \in Keys
    BY DEF PlaceInv, DiskTypes, Places
<1>2. allow \subseteq DOMAIN toc /\ flock \in Procs \cup {None} /\ jobs \in 0..MaxJobs
    BY DEF PlaceInv, DiskTypes, RootTypes
<1>3. \A p \in Procs : proc[p].pc = "write" <=> flock = p
    BY DEF PlaceInv, Stages, Stage
<1> QED
    BY <1>1, <1>2, <1>3 DEF TypeOK

LEMMA PlaceInvOneRoot == PlaceInv => OneRoot
<1> SUFFICES ASSUME PlaceInv PROVE OneRoot
    OBVIOUS
<1>1. ASSUME NEW k \in Keys \ loose, Dirs(k) # {}, HandlerOf(k) # "Random"
      PROVE  Cardinality(Dirs(k)) = 1
  <2>1. \A d \in Dirs(k) : /\ d \in DOMAIN toc /\ toc[d] = k
                           /\ d = <<d[1], DbPathName(k)>>
    <3>1. DiskTypes
        BY DEF PlaceInv
    <3>2. \A d \in Dirs(k) : d \in DOMAIN toc /\ d[2] = DbPathName(k)
        BY DEF Dirs
    <3>3. \A d \in DOMAIN toc : d = <<d[1], d[2]>>
        BY <3>1 DEF DiskTypes, Places
    <3> QED
        BY <3>1, <3>2, <3>3, NamedIsKey
  <2>2. \A d \in Dirs(k) : Belongs(k, d[1], ToSet(expvers))
    BY <2>1 DEF PlaceInv, TocBelongs
  <2>3. PICK c \in Dirs(k) : TRUE
    BY <1>1
  <2>4. \A d \in Dirs(k) : d[1] = c[1]
    BY <1>1, <2>2, <2>3, BelongsToOne DEF PlaceInv
  <2>5. Dirs(k) = {c}
    BY <2>1, <2>3, <2>4
  <2> QED
    BY <2>5, FS_Singleton
<1> QED
    BY <1>1, PlaceInvTypes DEF OneRoot

(* A key's databases stay in one root: several writers that look for it at once create it in  *)
(* the same root, whatever the others do between their looking and their creating, unless its *)
(* roots are drawn at random or it was moved or wiped (FileSpace.cc:85).                       *)
THEOREM OneRootHolds == Spec => []OneRoot
<1> QED
    BY PlaceInvHolds, PlaceInvOneRoot, PTL

(* The databases of an experiment are in the root that was written down for it, however the   *)
(* writers that propose one interleave and wherever they end (ExpverFileSpaceHandler.cc:90).   *)
THEOREM ExpverInOneRootHolds == Spec => []ExpverInOneRoot
<1>1. ASSUME PlaceInv PROVE ExpverInOneRoot
  <2> SUFFICES ASSUME NEW c \in DOMAIN toc, NEW d \in DOMAIN toc,
                      HandlerOf(toc[c]) = "expver", HandlerOf(toc[d]) = "expver",
                      toc[c]["expver"] = toc[d]["expver"], toc[c] \notin loose, toc[d] \notin loose
               PROVE  c[1] = d[1]
    BY DEF ExpverInOneRoot
  <2> DEFINE l == <<toc[c]["expver"], c[1]>>
             m == <<toc[d]["expver"], d[1]>>
  <2>1. l \in ToSet(expvers) /\ m \in ToSet(expvers)
    BY <1>1 DEF PlaceInv, TocBelongs, Belongs
  <2>2. l[1] = m[1] /\ l[2] = c[1] /\ m[2] = d[1]
    OBVIOUS
  <2> HIDE DEF l, m
  <2>3. l = m
    BY <1>1, <2>1, <2>2 DEF PlaceInv, OneLine
  <2> QED
    BY <2>2, <2>3
<1> QED
    BY <1>1, PlaceInvHolds, PTL

(* A writer that found a database when it began creates nothing beside it (FileSpace.cc:55).  *)
THEOREM FollowsExistingHolds == Spec => []FollowsExisting
<1>1. ASSUME PlaceInv PROVE FollowsExisting
  <2> SUFFICES ASSUME NEW p \in Procs, NEW d \in DOMAIN toc, proc[p].pc = "chosen",
                      proc[p].key \notin loose, proc[p].before = {d}
               PROVE  proc[p].root = d[1]
    BY DEF FollowsExisting
  <2>1. Seen(proc[p], toc)
    BY <1>1 DEF PlaceInv, AllSeen
  <2> QED
    BY <2>1 DEF Seen
<1> QED
    BY <1>1, PlaceInvHolds, PTL

----------------------------------------------------------------------------
(* What a visit finds. *)

(* One expver file serves every file space whose roots are chosen by experiment. *)
SharedRoots ==
    \A s, t \in ToSet(Spaces) : s.handler = "expver" /\ t.handler = "expver" => SpacePaths(s) = SpacePaths(t)

LEMMA LineHeld ==
    ASSUME SharedRoots, AllHeld, NEW k, SpaceOf(k) # 0, Spaces[SpaceOf(k)].handler = "expver",
           NEW l \in ToSet(expvers)
    PROVE  Held(k, l[2])
<1>1. Spaces[SpaceOf(k)] \in ToSet(Spaces) /\ Accepts(Spaces[SpaceOf(k)].re, k)
    BY SpaceOfFits, RootsHold
<1>2. PICK s \in ToSet(Spaces) : s.handler = "expver" /\ l[2] \in SpacePaths(s)
    BY DEF AllHeld
<1>3. SpacePaths(s) = SpacePaths(Spaces[SpaceOf(k)])
    BY <1>1, <1>2 DEF SharedRoots
<1> QED
    BY <1>1, <1>2, <1>3 DEF Held

LEMMA HeldBut ==
    ASSUME AllHeld, toc' = toc, expvers' = expvers,
           NEW p \in Procs, \A q \in Procs : q # p => proc'[q] = proc[q],
           proc'[p].pc # "idle" /\ proc'[p].root # "" => Held(proc'[p].key, proc'[p].root)
    PROVE  AllHeld'
<1>1. \A d \in DOMAIN toc' : Held(toc'[d], d[1])
    BY DEF AllHeld
<1>2. \A q \in Procs : proc'[q].pc # "idle" /\ proc'[q].root # "" => Held(proc'[q].key, proc'[q].root)
  <2> SUFFICES ASSUME NEW q \in Procs, proc'[q].pc # "idle", proc'[q].root # ""
               PROVE  Held(proc'[q].key, proc'[q].root)
    OBVIOUS
  <2>1. CASE q # p
    BY <2>1 DEF AllHeld
  <2> QED
    BY <2>1
<1> QED
    BY <1>1, <1>2 DEF AllHeld

LEMMA NextHeld ==
    ASSUME SharedRoots, PlaceInv, AllHeld, Next
    PROVE  AllHeld'
<1>0. DiskTypes /\ RootTypes /\ MovedAreLoose /\ Stages /\ OneLine
    BY DEF PlaceInv
<1>1. CASE SearchStep
  <2>0. toc' = toc
    BY <1>1, SearchKeepsDisk
  <2>1. ASSUME NEW p \in Procs, NEW k \in Keys, Begin(p, k) PROVE AllHeld'
    <3>1. expvers' = expvers /\ \A q \in Procs : q # p => proc'[q] = proc[q]
        BY <1>0, <2>1, BeginTyped DEF Begin, handler
    <3>2. proc'[p] # Idle => proc'[p].key = k /\ proc'[p].root = FixedRoot
        BY <1>0, <2>1, BeginTyped
    <3>3. FixedRoot # "" => Held(k, FixedRoot)
        BY FixedSpace
    <3> QED
        BY <2>0, <3>1, <3>2, <3>3, HeldBut, IdlePc
  <2>2. ASSUME NEW p \in Procs, ExistsAt(p) PROVE AllHeld'
    <3> DEFINE s == proc[p]
               r == RootsOf(s.key)[s.i]
    <3>1. expvers' = expvers /\ s.pc = "exists" /\ s.i <= Len(RootsOf(s.key))
        BY <2>2 DEF ExistsAt, handler
    <3>2. /\ \A q \in Procs : q # p => proc'[q] = proc[q]
          /\ proc'[p].key = s.key
          /\ proc'[p].root = s.root \/ (Lists(r) /\ proc'[p].root = r.path)
        BY <1>0, <2>2, ExistsAtTyped
    <3>3. SpaceOf(s.key) # 0 /\ s.i \in Nat \ {0}
        BY <1>0, <3>1, SearchRecord DEF Stages, Stage, Searches
    <3>4. r \in ToSet(RootsOf(s.key))
      <4>1. Len(RootsOf(s.key)) \in Nat /\ DOMAIN RootsOf(s.key) = 1..Len(RootsOf(s.key))
        BY <3>3, RootsLen
      <4>2. s.i \in 1..Len(RootsOf(s.key))
        BY <3>1, <3>3, <4>1
      <4> QED
        BY <4>1, <4>2 DEF ToSet
    <3>5. Lists(r) => Held(s.key, r.path)
        BY <3>3, <3>4, RootsHold DEF ListRoots
    <3>6. s.root # "" => Held(s.key, s.root)
        BY <3>1 DEF AllHeld
    <3> QED
        BY <2>0, <3>1, <3>2, <3>5, <3>6, HeldBut
  <2>3. ASSUME NEW p \in Procs, Exists(p) PROVE AllHeld'
    <3>1. expvers' = expvers
        BY <2>3 DEF Exists, handler
    <3>2. /\ proc[p].pc = "exists" /\ \A q \in Procs : q # p => proc'[q] = proc[q]
          /\ proc'[p] # Idle => proc'[p].key = proc[p].key /\ proc'[p].root = proc[p].root
        BY <1>0, <2>3, ExistsTyped
    <3>3. proc[p].root # "" => Held(proc[p].key, proc[p].root)
        BY <3>2 DEF AllHeld
    <3> QED
        BY <2>0, <3>1, <3>2, <3>3, HeldBut, IdlePc
  <2>4. ASSUME NEW p \in Procs, SelectFirst(p) \/ SelectAny(p) PROVE AllHeld'
    <3>1. /\ expvers' = expvers /\ SpaceOf(proc[p].key) # 0
          /\ \A q \in Procs : q # p => proc'[q] = proc[q]
          /\ proc'[p] # Idle => /\ proc'[p].key = proc[p].key
                                /\ proc'[p].root \in ArchiveRoots(proc[p].key)
        BY <1>0, <2>4, SelectTyped
    <3>2. \A r \in ArchiveRoots(proc[p].key) : Held(proc[p].key, r)
        BY <3>1, RootsHold
    <3> QED
        BY <2>0, <3>1, <3>2, HeldBut, IdlePc
  <2>5. ASSUME NEW p \in Procs, NEW k, NEW r, SpaceOf(k) # 0, Spaces[SpaceOf(k)].handler = "expver",
               <<k["expver"], r>> \in ToSet(expvers)
        PROVE  Held(k, r)
    <3>1. Held(k, <<k["expver"], r>>[2])
        BY <2>5, LineHeld
    <3> QED
        BY <3>1
  <2>6. ASSUME NEW p \in Procs, SelectExpver(p) PROVE AllHeld'
    <3>1. /\ \A q \in Procs : q # p => proc'[q] = proc[q]
          /\ SpaceOf(proc[p].key) # 0 /\ Handler(p) = "expver" /\ expvers' = expvers
          /\ proc'[p] # Idle =>
                 /\ proc'[p].key = proc[p].key
                 /\ \/ <<proc[p].key["expver"], proc'[p].root>> \in ToSet(expvers)
                    \/ proc'[p].root \in ArchiveRoots(proc[p].key)
        BY <1>0, <2>6, SelectExpverTyped
    <3>2. \A r \in ArchiveRoots(proc[p].key) : Held(proc[p].key, r)
        BY <3>1, RootsHold
    <3>3. <<proc[p].key["expver"], proc'[p].root>> \in ToSet(expvers) => Held(proc[p].key, proc'[p].root)
        BY <2>5, <3>1 DEF Handler
    <3> QED
        BY <2>0, <3>1, <3>2, <3>3, HeldBut, IdlePc
  <2>7. ASSUME NEW p \in Procs, AppendRead(p) PROVE AllHeld'
    <3>1. /\ \A q \in Procs : q # p => proc'[q] = proc[q]
          /\ proc[p].pc = "append" /\ expvers' = expvers /\ proc'[p].key = proc[p].key
          /\ \/ <<proc[p].key["expver"], proc'[p].root>> \in ToSet(expvers)
             \/ proc'[p].root = proc[p].root
        BY <1>0, <2>7, AppendReadTyped
    <3>2. SpaceOf(proc[p].key) # 0 /\ Spaces[SpaceOf(proc[p].key)].handler = "expver"
        BY <1>0, <3>1 DEF Stages, Stage
    <3>3. <<proc[p].key["expver"], proc'[p].root>> \in ToSet(expvers) => Held(proc[p].key, proc'[p].root)
        BY <2>5, <3>2
    <3>4. proc[p].root # "" => Held(proc[p].key, proc[p].root)
        BY <3>1 DEF AllHeld
    <3> QED
        BY <2>0, <3>1, <3>3, <3>4, HeldBut
  <2>8. ASSUME NEW p \in Procs, AppendWrite(p) PROVE AllHeld'
    <3> DEFINE line == <<proc[p].key["expver"], proc[p].root>>
    <3>1. /\ \A q \in Procs : q # p => proc'[q] = proc[q]
          /\ proc[p].pc = "write" /\ proc'[p].key = proc[p].key /\ proc'[p].root = proc[p].root
          /\ ToSet(expvers') = ToSet(expvers) \cup {line}
          /\ proc[p].root \in ArchiveRoots(proc[p].key)
          /\ SpaceOf(proc[p].key) # 0 /\ Handler(p) = "expver"
        BY <1>0, <2>8, AppendWriteTyped
    <3>2. Held(proc[p].key, proc[p].root)
        BY <3>1, RootsHold
    <3>3. Spaces[SpaceOf(proc[p].key)] \in ToSet(Spaces)
        BY <3>1, RootsHold
    <3>4. line[2] \in SpacePaths(Spaces[SpaceOf(proc[p].key)])
        BY <3>1, RootsHold DEF ArchiveRoots
    <3>5. \A l \in ToSet(expvers') : \E s \in ToSet(Spaces) : s.handler = "expver" /\ l[2] \in SpacePaths(s)
      <4>1. \A l \in ToSet(expvers) : \E s \in ToSet(Spaces) : s.handler = "expver" /\ l[2] \in SpacePaths(s)
        BY DEF AllHeld
      <4> HIDE DEF line
      <4> QED
        BY <3>1, <3>3, <3>4, <4>1 DEF Handler
    <3>6. \A q \in Procs : proc'[q].pc # "idle" /\ proc'[q].root # "" => Held(proc'[q].key, proc'[q].root)
        BY <3>1, <3>2 DEF AllHeld
    <3>7. \A d \in DOMAIN toc' : Held(toc'[d], d[1])
        BY <2>0 DEF AllHeld
    <3> QED
        BY <3>5, <3>6, <3>7 DEF AllHeld
  <2>9. ASSUME NEW p \in Procs, Crash(p) PROVE AllHeld'
    <3>1. proc'[p].pc = "idle" /\ expvers' = expvers /\ \A q \in Procs : q # p => proc'[q] = proc[q]
        BY <1>0, <2>9, CrashTyped, IdlePc
    <3> QED
        BY <2>0, <3>1, HeldBut
  <2> QED
    BY <1>1, <2>1, <2>2, <2>3, <2>4, <2>6, <2>7, <2>8, <2>9 DEF SearchStep
<1>2. CASE ~SearchStep
  <2>1. \A p \in Procs : proc'[p].pc # "idle" => proc'[p] = proc[p]
    BY <1>0, <1>2, OtherSteps
  <2>2. expvers' = expvers
    BY <1>2, NextSteps, VisitKeepsAll DEF Create, Wipe, MoveToc, MoveDone, handler
  <2>3. ASSUME NEW d \in DOMAIN toc' PROVE Held(toc'[d], d[1])
    <3>1. CASE d \in DOMAIN toc
      <4>1. toc'[d] = toc[d]
        BY <1>0, <3>1, DiskSteps
      <4> QED
        BY <3>1, <4>1 DEF AllHeld
    <3>2. ASSUME NEW e \in DOMAIN toc, toc'[d] = toc[e], CanMoveTo(e, d[1]) PROVE Held(toc'[d], d[1])
        BY <3>2 DEF CanMoveTo, CanMoveToRoots, Held, SpacePaths
    <3>3. ASSUME NEW p \in Procs, proc[p].pc = "chosen", toc'[d] = proc[p].key, d[1] = proc[p].root
          PROVE  Held(toc'[d], d[1])
      <4>1. proc[p].root # ""
        BY <1>0, <3>3 DEF Stages, Stage
      <4> QED
        BY <3>3, <4>1 DEF AllHeld
    <3> QED
        BY <1>0, <3>1, <3>2, <3>3, DiskSteps
  <2>4. \A p \in Procs : proc'[p].pc # "idle" /\ proc'[p].root # "" => Held(proc'[p].key, proc'[p].root)
    BY <2>1 DEF AllHeld
  <2> QED
    BY <2>2, <2>3, <2>4 DEF AllHeld
<1> QED
    BY <1>1, <1>2

(* A request that gives the keywords the file spaces ask about visits the roots of its databases. *)
LEMMA AskedIsVisited ==
    ASSUME NEW rq \in Requests, NEW k \in Keys, NEW r, Clear(rq), Answers(k, rq), Held(k, r)
    PROVE  r \in VisitableRoots(rq)
<1>1. PICK s \in ToSet(Spaces) : Accepts(s.re, k) /\ r \in SpacePaths(s)
    BY DEF Held
<1>2. rq.all \/ Accepts(s.re, rq.key)
  <2> SUFFICES ASSUME ~rq.all, NEW kw \in DOMAIN s.re
               PROVE  kw \in DOMAIN rq.key /\ rq.key[kw] \in s.re[kw]
    BY DEF Accepts
  <2>1. kw \in DOMAIN k /\ k[kw] \in s.re[kw]
    BY <1>1 DEF Accepts
  <2>2. kw \in DOMAIN rq.key
    BY <2>1, RootsAssumption
  <2>3. rq.key[kw] # Missing /\ rq.key[kw] \in {Missing, k[kw]}
    BY <2>2, <1>1 DEF Clear, Answers
  <2> QED
    BY <2>1, <2>2, <2>3
<1> QED
    BY <1>1, <1>2 DEF VisitableRoots, SpacePaths

(* One of the names that a request may have fits the directory of a database that answers it, *)
(* when the namer of the directory takes the values that the request does not give.           *)
LEMMA AskedIsNamed ==
    ASSUME NEW rq \in Requests, NEW k \in Keys, Answers(k, rq), TakesMissing(rq, DbPathName(k))
    PROVE  \E n \in PossibleNames(rq) : Fits(n, DbPathName(k))
<1> DEFINE i == SelectInSeq(Namers, LAMBDA n : Names(n, k, {}))
           I == {j \in 1..Len(Namers) : Names(Namers[j], k, {})}
<1>0. DOMAIN rq.key = DOMAIN k /\ \A kw \in DOMAIN k : k[kw] # Missing /\ rq.key[kw] \in {Missing, k[kw]}
    BY RootsAssumption DEF Answers
<1>1. DbPathName(k) = IF i = 0 THEN Default(k) ELSE Name(i, k)
    BY DEF DbPathName
<1>2. i = IF I # {} THEN Min(I) ELSE 0
    BY DEF SelectInSeq
<1>3. CASE i = 0
  <2>1. Default(rq.key) \in PossibleNames(rq)
    BY DEF PossibleNames
  <2>2. Fits(Default(rq.key), Default(k))
    BY <1>0 DEF Fits, Default
  <2> QED
    BY <1>1, <1>3, <2>1, <2>2
<1>4. CASE i # 0
  <2>1. Len(Namers) \in Nat /\ DOMAIN Namers = 1..Len(Namers)
    BY ConfigurationShape
  <2>2. i \in I
    <3>1. I # {} /\ I \in SUBSET Nat
        BY <1>2, <1>4, <2>1
    <3> QED
        BY <1>2, <3>1, MinIsIn
  <2>3. i \in DOMAIN Namers /\ Names(Namers[i], k, {})
    BY <2>1, <2>2
  <2> HIDE DEF i, I
  <2>4. Names(Namers[i], rq.key, Skipped(rq))
    <3>1. DbPathName(k).by = i
        BY <1>1, <1>4 DEF Name
    <3>2. ASSUME NEW kw \in DOMAIN k
          PROVE  rq.key[kw] \in Namers[i].re[kw] \cup Skipped(rq)
        <4>1. CASE rq.key[kw] = k[kw]
            BY <2>3, <4>1 DEF Names
        <4>2. CASE rq.key[kw] = Missing
            BY <1>0, <1>4, <3>1, <4>2 DEF TakesMissing, Skipped
        <4> QED
            BY <1>0, <4>1, <4>2
    <3> QED
        BY <1>0, <2>3, <3>2 DEF Names
  <2>5. Name(i, rq.key) \in PossibleNames(rq)
    BY <2>3, <2>4 DEF PossibleNames
  <2>6. Namers[i].vars \subseteq DOMAIN k
    BY <2>3, NamesAssumption DEF Names
  <2>7. \A kw \in Namers[i].vars :
            rq.key[kw] = k[kw] \/ (rq.key[kw] = Missing /\ k[kw] \in Namers[i].re[kw])
    BY <1>0, <2>3, <2>6 DEF Names
  <2>8. Fits(Name(i, rq.key), Name(i, k))
    BY <2>7 DEF Fits, Name
  <2> QED
    BY <1>1, <1>4, <2>5, <2>8
<1> QED
    BY <1>3, <1>4

(* The databases of a visit are those that a step leaves. *)
LEMMA VisitStays ==
    ASSUME VisitInv, reader.pc = "scan", NEW gone, Still(gone), DOMAIN toc \ gone \subseteq DOMAIN toc'
    PROVE  VisitInv'
<1>1. reader \in Visits
    BY DEF VisitInv
<1>2. reader' = [reader EXCEPT !.always = @ \ gone]
    BY DEF Still
<1>3. /\ reader' \in Visits
      /\ reader'.pc = "scan" /\ reader'.rq = reader.rq /\ reader'.todo = reader.todo
      /\ reader'.found = reader.found /\ reader'.always = reader.always \ gone
    BY <1>1, <1>2 DEF Visits
<1> QED
    BY <1>3 DEF VisitInv

LEMMA VisitInvSame ==
    ASSUME VisitInv, reader' = reader, DOMAIN toc \subseteq DOMAIN toc'
    PROVE  VisitInv'
BY DEF VisitInv

LEMMA MatchAllInv ==
    ASSUME PlaceInv, AllHeld, VisitInv, MatchAll
    PROVE  VisitInv'
<1>1. reader.pc = "scan" /\ reader.todo = {} /\ reader \in Visits /\ toc' = toc
    BY DEF MatchAll, VisitInv, disk
<1>2. reader.rq \in Requests
    BY <1>1 DEF Visits
<1> DEFINE F == {d \in reader.found \cap DOMAIN toc :
                    /\ \E n \in PossibleNames(reader.rq) : Fits(n, d[2])
                    /\ Answers(toc[d], reader.rq)}
<1>3. /\ reader' \in Visits /\ reader'.pc = "done" /\ reader'.rq = reader.rq
      /\ reader'.always = reader.always /\ reader'.found = F
    BY <1>1 DEF MatchAll, Visits
<1>4. ASSUME NEW k \in Keys, NEW r \in Mounted, <<r, DbPathName(k)>> \in F
      PROVE  Answers(k, reader.rq)
  <2>1. toc[<<r, DbPathName(k)>>] = k
    BY <1>4, NamedIsKey DEF PlaceInv
  <2> QED
    BY <1>4, <2>1
<1>5. ASSUME NEW k \in Keys, NEW r \in Mounted, <<r, DbPathName(k)>> \in reader.always, r \in ListedRoots,
             Answers(k, reader.rq), Clear(reader.rq), TakesMissing(reader.rq, DbPathName(k))
      PROVE  <<r, DbPathName(k)>> \in F
  <2> DEFINE d == <<r, DbPathName(k)>>
  <2>1. d \in DOMAIN toc
    BY <1>1, <1>5 DEF VisitInv
  <2>2. toc[d] = k
    BY <2>1, NamedIsKey DEF PlaceInv
  <2>3. Held(k, r)
    BY <2>1, <2>2 DEF AllHeld
  <2>4. r \in VisitableRoots(reader.rq)
    BY <1>2, <1>5, <2>3, AskedIsVisited
  <2>5. d \in reader.found
    BY <1>1, <1>5, <2>4 DEF VisitInv
  <2>6. \E n \in PossibleNames(reader.rq) : Fits(n, d[2])
    BY <1>2, <1>5, AskedIsNamed
  <2> QED
    BY <1>5, <2>1, <2>2, <2>5, <2>6
<1> HIDE DEF F
<1> QED
    BY <1>3, <1>4, <1>5 DEF VisitInv

LEMMA VisitBeginInv ==
    ASSUME DiskTypes, VisitInv, NEW rq \in Requests, Visit(rq)
    PROVE  VisitInv'
<1> DEFINE v == [pc |-> "scan", rq |-> rq, found |-> {}, always |-> DOMAIN toc,
                 todo |-> VisitableRoots(rq) \cap ListedRoots]
<1>1. toc' = toc
    BY DEF Visit, disk
<1>2. CASE reader' = [pc |-> "throws"]
    BY <1>2 DEF VisitInv
<1>3. CASE reader' = v
  <2>1. /\ v.pc = "scan" /\ v.rq = rq /\ v.found = {} /\ v.always = DOMAIN toc
        /\ v.todo = VisitableRoots(rq) \cap ListedRoots
    OBVIOUS
  <2>2. ListedRoots \subseteq Mounted
    BY DEF ListedRoots
  <2>3. v \in Visits
    BY <2>2 DEF Visits, DiskTypes
  <2> HIDE DEF v
  <2> QED
    BY <1>1, <1>3, <2>1, <2>3 DEF VisitInv
<1>4. reader' = [pc |-> "throws"] \/ reader' = v
    BY DEF Visit
<1> QED
    BY <1>2, <1>3, <1>4

LEMMA ScanInv ==
    ASSUME DiskTypes, VisitInv, NEW r \in Mounted, Scan(r)
    PROVE  VisitInv'
<1>1. reader.pc = "scan" /\ reader \in Visits /\ toc' = toc
    BY DEF Scan, VisitInv, disk
<1>2. /\ reader' \in Visits /\ reader'.pc = "scan" /\ reader'.rq = reader.rq
      /\ reader'.always = reader.always /\ reader'.todo = reader.todo \ {r}
      /\ reader'.found = reader.found \cup {d \in DOMAIN toc : d[1] = r}
    BY <1>1 DEF Scan, Visits, DiskTypes
<1> QED
    BY <1>1, <1>2 DEF VisitInv

LEMMA NextVisitInv ==
    ASSUME PlaceInv, AllHeld, VisitInv, Next
    PROVE  VisitInv'
<1>0. DiskTypes /\ RootTypes /\ MovedAreLoose /\ Stages
    BY DEF PlaceInv
<1>1. CASE SearchStep
    BY <1>1, SearchKeepsDisk, VisitInvSame
<1>2. CASE VisitStep
    BY <1>0, <1>2, VisitBeginInv, ScanInv, MatchAllInv DEF VisitStep
<1>3. ASSUME NEW p \in Procs, Create(p) PROVE VisitInv'
  <2>1. reader' = reader /\ DOMAIN toc \subseteq DOMAIN toc'
    BY <1>3 DEF Create, Put
  <2> QED
    BY <2>1, VisitInvSame
<1>4. ASSUME NEW d \in DOMAIN toc, NEW r \in Mounted, MoveToc(d, r) PROVE VisitInv'
  <2>1. reader' = reader /\ DOMAIN toc \subseteq DOMAIN toc'
    BY <1>4 DEF MoveToc, Put
  <2> QED
    BY <2>1, VisitInvSame
<1>5. ASSUME NEW d, Still({d}), toc' = Restrict(toc, DOMAIN toc \ {d}) PROVE VisitInv'
  <2>1. DOMAIN toc' = DOMAIN toc \ {d}
    BY <1>5 DEF Restrict
  <2>2. CASE reader.pc = "scan"
    BY <1>5, <2>1, <2>2, VisitStays
  <2>3. CASE reader.pc # "scan"
    <3>1. reader' = reader
        BY <1>5, <2>3 DEF Still
    <3> QED
        BY <2>3, <3>1 DEF VisitInv
  <2> QED
    BY <2>2, <2>3
<1>6. ASSUME NEW d \in DOMAIN toc, Wipe(d) PROVE VisitInv'
    BY <1>5, <1>6 DEF Wipe
<1>7. CASE MoveDone
    BY <1>5, <1>7 DEF MoveDone
<1> QED
    BY <1>1, <1>2, <1>3, <1>4, <1>6, <1>7, NextSteps

FoundInv == PlaceInv /\ AllHeld /\ VisitInv

(* A visit answers with every database that was in place all the time, is in a root that may   *)
(* be listed and answers the request, and with no other that is still there, when the file      *)
(* spaces that go by experiment have the roots of the expver file in common.  The request gives *)
(* what the file spaces ask about, and the namer of the directory takes the empty value for     *)
(* what it does not give (TocEngine.cc:223, RootManager.cc:68).                                 *)
THEOREM ReaderFindsHolds == SharedRoots => (Spec => []ReaderFinds)
<1> SUFFICES ASSUME SharedRoots PROVE Spec => []ReaderFinds
    OBVIOUS
<1>1. Init => FoundInv
  <2> SUFFICES ASSUME Init PROVE AllHeld /\ VisitInv
    BY InitPlaceInv DEF FoundInv
  <2>1. DOMAIN toc = {} /\ ToSet(expvers) = {} /\ \A p \in Procs : proc[p].pc = "idle"
    BY IdlePc DEF Init, Empty, ToSet
  <2>2. reader.pc = "none"
    BY DEF Init, NoVisit
  <2> QED
    BY <2>1, <2>2 DEF AllHeld, VisitInv
<1>2. FoundInv /\ [Next]_vars => FoundInv'
  <2> SUFFICES ASSUME FoundInv, [Next]_vars PROVE FoundInv'
    OBVIOUS
  <2>1. PlaceInv'
    BY NextPlaceInv DEF FoundInv
  <2>2. CASE Next
    BY <2>1, <2>2, NextHeld, NextVisitInv DEF FoundInv
  <2>3. CASE UNCHANGED vars
    <3>1. UNCHANGED <<toc, expvers, proc, reader>>
        BY <2>3 DEF vars, disk, handler
    <3>2. AllHeld'
        BY <3>1 DEF FoundInv, AllHeld
    <3>3. VisitInv'
        BY <3>1, VisitInvSame DEF FoundInv
    <3> QED
        BY <2>1, <3>2, <3>3 DEF FoundInv
  <2> QED
    BY <2>2, <2>3
<1>3. FoundInv => ReaderFinds
  <2> SUFFICES ASSUME FoundInv, reader.pc = "done"
               PROVE  /\ \A d \in reader.found \cap DOMAIN toc : Answers(toc[d], reader.rq)
                      /\ \A d \in reader.always \cap DOMAIN toc :
                             /\ d[1] \in ListedRoots /\ Answers(toc[d], reader.rq) /\ Clear(reader.rq)
                             /\ TakesMissing(reader.rq, d[2])
                             => d \in reader.found
    BY DEF ReaderFinds, Clear
  <2>1. \A d \in DOMAIN toc : /\ toc[d] \in Keys /\ d[1] \in Mounted
                              /\ d = <<d[1], DbPathName(toc[d])>>
    BY DEF FoundInv, PlaceInv, DiskTypes, Places
  <2> QED
    BY <2>1 DEF FoundInv, VisitInv
<1> QED
    BY <1>1, <1>2, <1>3, PTL DEF Spec
=============================================================================
