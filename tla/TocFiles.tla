------------------------------ MODULE TocFiles ------------------------------
(***************************************************************************)
(* The files of several FDB databases, and what the walks of TocHandler    *)
(* see of them: the general form of Toc, with directories, base names and  *)
(* files that may be missing (TocHandler.cc, UriStore.cc).                 *)
(*                                                                         *)
(* `disk` is a function from the paths that exist to their contents: the   *)
(* records of a toc, the sections of an index file, the values in a data   *)
(* file.  A path is <<directory, kind, ...>>; what follows the directory   *)
(* is its base name.  A database has its toc at <<dir, "toc">>; a sub-toc  *)
(* has the kind "toc.".                                                    *)
(***************************************************************************)
EXTENDS Toc, FiniteSets, TLC

CONSTANTS
    Own    \* the directory part of a relative path

Nesting == 2     \* bound: how deep sub-tocs are followed

At(dir, name) == <<dir>> \o name
Dir(path) == path[1]
Base(path) == Tail(path)
TocName == <<"toc">>
TocPath(dir) == At(dir, TocName)
SchemaPath(dir) == <<dir, "schema">>
IsToc(path) == path[2] \in {"toc", "toc."}
IsSubToc(path) == path[2] = "toc."

(***************************************************************************)
(* UriStore and writeSubTocRecord keep the base name of a file that is in  *)
(* the directory of the database, and the whole path of any other file.    *)
(***************************************************************************)
Relative(dir, path) == IF Dir(path) = dir THEN At(Own, Base(path)) ELSE path
Resolve(dir, ref) == IF Dir(ref) = Own THEN At(dir, Base(ref)) ELSE ref

(***************************************************************************)
(* Records: an INDEX record also keeps its key and the data files of its   *)
(* index (files_ is encoded in the toc), a SUB_TOC record the directory    *)
(* part of the path.                                                       *)
(***************************************************************************)
IndexEntry(name, offset, ik, data) ==
    IndexRecord(name, offset) @@ [ik |-> ik, data |-> data]
MountRecord(dir, path) ==
    SubTocRecord(Base(path)) @@ [dir |-> Dir(Relative(dir, path))]

(* Mutant: a sub-toc is never masked. *)
Masked_IndexOnly(toc, recs, i) ==
    recs[i].tag = "TOC_INDEX" /\ <<recs[i].path, recs[i].offset>> \in maskedEntries(recs)

Masked(toc, recs, i) == <<recs[i].path, recs[i].offset>> \in maskedEntries(recs)

Tagged(recs, tag) == { i \in 1..Len(recs) : recs[i].tag = tag }

(***************************************************************************)
(* The file a SUB_TOC record leads to.  An absolute path that does not     *)
(* exist is replaced by its base name in the current directory.            *)
(***************************************************************************)
SubTocPath(disk, toc, r) ==
    LET abs == Resolve(Dir(toc), At(r.dir, r.path))
    IN  IF abs \in DOMAIN disk THEN abs ELSE At(Dir(toc), r.path)

(* What a walk returns in the place of an entry at which it throws. *)
Broken == [path |-> << >>]
IsBroken(entries) == Broken \in ToSet(entries)

(***************************************************************************)
(* readNext to the end of the toc: the unmasked indexes, each with the toc *)
(* it was found in.  The walk throws at a sub-toc that does not exist, and *)
(* never ends when a toc leads to itself.                                  *)
(***************************************************************************)
readToc(disk, toc) ==
    LET walk[depth \in 0..Nesting, f \in {p \in DOMAIN disk : IsToc(p)}] ==
          LET recs == disk[f]
              entry(i) ==
                CASE recs[i].tag \notin {"TOC_INDEX", "TOC_SUB_TOC"} -> << >>
                  [] Masked(f, recs, i) -> << >>
                  [] recs[i].tag = "TOC_INDEX" ->
                       << [path |-> At(Dir(f), recs[i].path), offset |-> recs[i].offset,
                           ik |-> recs[i].ik, data |-> recs[i].data, toc |-> f] >>
                  [] OTHER ->
                       LET sub == SubTocPath(disk, f, recs[i]) IN
                       IF depth = 0 \/ sub \notin DOMAIN disk \/ disk[sub] = << >>
                       THEN << Broken >> ELSE walk[depth - 1, sub]
          IN  FlattenSeq([i \in 1..Len(recs) |-> entry(i)])
    IN  walk[Nesting, toc]

(* TocCatalogue::indexes: the newest first. *)
indexes(disk, toc) ==
    IF toc \in DOMAIN disk THEN Reverse(readToc(disk, toc)) ELSE << >>

(* The index can be opened: its file is there and reaches as far as its offset. *)
HasSection(disk, e) == e.path \in DOMAIN disk /\ e.offset \in DOMAIN disk[e.path]

dataPaths(e) == { Resolve(Dir(e.path), ref) : ref \in e.data }

(***************************************************************************)
(* subTocPaths shows the sub-toc records it follows, and so asserts that   *)
(* no sub-toc has a sub-toc of its own.                                    *)
(***************************************************************************)
subTocPaths(disk, toc) ==
    LET recs(f) == disk[f]
        subs(f) == { SubTocPath(disk, f, recs(f)[i]) :
                       i \in {j \in Tagged(recs(f), "TOC_SUB_TOC") : ~Masked(f, recs(f), j)} }
    IN  IF \E s \in subs(toc) : s \notin DOMAIN disk \/ subs(s) # {}
        THEN {Broken} ELSE subs(toc)

(* Mutant: the files below a masked sub-toc are forgotten. *)
enumerateMasked_Flat(disk, toc) ==
    LET recs == disk[toc]
    IN  [metadata |-> { At(Dir(toc), m[1]) : m \in maskedEntries(recs) } \cap DOMAIN disk,
         data |-> UNION { {Resolve(Dir(toc), ref) : ref \in recs[i].data} :
                            i \in {j \in Tagged(recs, "TOC_INDEX") :
                                     Masked(toc, recs, j)
                                     /\ At(Dir(toc), recs[j].path) \in DOMAIN disk} }]

(***************************************************************************)
(* enumerateMasked: the files that masked entries refer to and that exist, *)
(* looked up by base name in the directory of the toc; for a masked        *)
(* sub-toc also what it holds.                                             *)
(***************************************************************************)
enumerateMasked(disk, toc) ==
    LET visit[depth \in 0..Nesting, f \in {p \in DOMAIN disk : IsToc(p)}] ==
          LET recs == disk[f]
              here == { At(Dir(f), m[1]) : m \in maskedEntries(recs) } \cap DOMAIN disk
              own == { i \in Tagged(recs, "TOC_INDEX") :
                         Masked(f, recs, i) /\ At(Dir(f), recs[i].path) \in DOMAIN disk }
              below == IF depth = 0 THEN {} ELSE {p \in here : IsSubToc(p)}
              entries == UNION { ToSet(readToc(disk, s)) \ {Broken} : s \in below }
          IN  [metadata |-> here \cup {e.path : e \in entries}
                              \cup UNION {visit[depth - 1, s].metadata : s \in below},
               data |-> UNION { {Resolve(Dir(f), ref) : ref \in recs[i].data} : i \in own }
                          \cup UNION {dataPaths(e) : e \in entries}
                          \cup UNION {visit[depth - 1, s].data : s \in below}]
    IN  visit[Nesting, toc]

(***************************************************************************)
(* A reader that is opened now and retrieves the field of index key `ik`:  *)
(* its number, `none`, or `error` when a file it is led to is not there.   *)
(***************************************************************************)
retrieve(disk, dir, ik, none, error) ==
    LET all == indexes(disk, TocPath(dir))
        matching == SelectSeq(all, LAMBDA e : e.ik = ik)
    IN  IF TocPath(dir) \notin DOMAIN disk THEN none
        ELSE IF SchemaPath(dir) \notin DOMAIN disk \/ IsBroken(all) THEN error
        ELSE IF matching = << >> THEN none
        ELSE LET e == Head(matching) IN
             IF ~HasSection(disk, e) THEN error
             ELSE LET loc == disk[e.path][e.offset]
                      data == Resolve(Dir(e.path), loc.data)
                  IN  IF data \in DOMAIN disk /\ loc.n \in disk[data] THEN loc.n ELSE error

(***************************************************************************)
(* A listing visits every index: it throws when one of them is missing.    *)
(***************************************************************************)
canList(disk, dir) ==
    LET all == indexes(disk, TocPath(dir)) IN
    TocPath(dir) \in DOMAIN disk =>
        /\ SchemaPath(dir) \in DOMAIN disk
        /\ ~IsBroken(all)
        /\ \A i \in DOMAIN all : HasSection(disk, all[i])
=============================================================================
