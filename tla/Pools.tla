------------------------------- MODULE Pools --------------------------------
(***************************************************************************)
(* Which directory the persistent-memory engine puts a database in and     *)
(* which it visits (PoolManager, PoolGroup, PMemEngine).  One database key  *)
(* is modelled: what a regular expression of the table decides about it is  *)
(* a Boolean of the line.  A file is the sequence of its lines, a line the  *)
(* sequence of its words.                                                  *)
(***************************************************************************)
EXTENDS Naturals, Sequences, FiniteSets, SequencesExt

CONSTANTS
    Inline,          \* the configuration has "groups": a sequence of them, or <<>>
    PoolsFile,       \* lines <<path, group, writable, visit>>
    PoolGroupsFile   \* lines <<matches the key, group, handler>>

(* A comment, an empty line or one with another number of words is passed over. *)
Lines(file, words) == SelectSeq(file, LAMBDA l : Len(l) = words)

ReadPools ==
    LET line == Lines(PoolsFile, 4) IN
    [k \in DOMAIN line |-> [path |-> line[k][1], group |-> line[k][2],
                            writable |-> line[k][3], visit |-> line[k][4]]]

PoolsInGroup(g) == SelectSeq(ReadPools, LAMBDA e : e.group = g)

(* The lines before the first group that has no pool: the table that is    *)
(* memoised before the exception leaves the loop.                          *)
GoodLines ==
    LET line == Lines(PoolGroupsFile, 3)
        empty == {k \in DOMAIN line : PoolsInGroup(line[k][2]) = <<>>}
    IN  IF empty = {} THEN line
        ELSE SubSeq(line, 1, (CHOOSE k \in empty : \A j \in empty : k <= j) - 1)

(* The first reading throws where a group is empty; the table of a process *)
(* that asks again is what had been read by then.                          *)
ReadThrows == Len(GoodLines) < Len(Lines(PoolGroupsFile, 3))
ReadPoolGroups ==
    [k \in DOMAIN GoodLines |->
        [match |-> GoodLines[k][1], pools |-> PoolsInGroup(GoodLines[k][2])]]

(* The table a process works with; `read` says that it has asked before.   *)
PoolGroups == IF Inline # <<>> THEN Inline ELSE ReadPoolGroups
TableThrows(read) == Inline = <<>> /\ ~read /\ ReadThrows

Matching(tab) == SelectSeq(tab, LAMBDA g : g.match)

(* PoolGroup::pool takes the first entry, whatever the handler and whether *)
(* the entry is writable; PoolManager::pool the first group that matches.  *)
PoolFirst(g) == IF g.pools = <<>> THEN "throws" ELSE g.pools[1].path
Pool(tab) == IF Matching(tab) = <<>> THEN "throws" ELSE PoolFirst(Matching(tab)[1])

VisitableIn(g) == {g.pools[k].path : k \in {j \in DOMAIN g.pools : g.pools[j].visit}}
VisitablePools(tab) == UNION {VisitableIn(g) : g \in ToSet(Matching(tab))}

(* PMemEngine::databases: the directories of the key under these that have *)
(* a master pool; for a request, those of them that can be opened.         *)
Databases(paths, masters) == paths \cap masters
RequestedDatabases(paths, masters, valid) == Databases(paths, masters) \cap valid
=============================================================================
