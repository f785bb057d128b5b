-------------------------------- MODULE Toc --------------------------------
(***************************************************************************)
(* The table of contents of an FDB database and how it is read             *)
(* (TocRecord.h, TocHandler.cc).                                           *)
(*                                                                         *)
(* A toc file is an append-only sequence of fixed-layout records.  A       *)
(* database has one master toc; a process that is configured with          *)
(* useSubToc writes its index records to a toc file of its own, which the  *)
(* master toc links with a TOC_SUB_TOC record.  TOC_CLEAR records mask     *)
(* indexes and sub-tocs; nothing is ever taken out of a toc file.          *)
(*                                                                         *)
(* This module has no state: it defines what a reader of a family of toc   *)
(* files sees.  `tocs` is a function from the names of the toc files that  *)
(* exist to the sequences of their records.                                *)
(***************************************************************************)
EXTENDS Naturals, Sequences, SequencesExt

----------------------------------------------------------------------------
(***************************************************************************)
(* Records.  The payload keeps what the walk looks at: the base name of a  *)
(* file and an offset in it.  A CLEAR of the path "*" is a tag of its own. *)
(***************************************************************************)
InitRecord == [tag |-> "TOC_INIT"]
IndexRecord_NoOffset(path, offset) == [tag |-> "TOC_INDEX", path |-> path] \* mutant
IndexRecord(path, offset) == [tag |-> "TOC_INDEX", path |-> path, offset |-> offset]
SubTocRecord(path) == [tag |-> "TOC_SUB_TOC", path |-> path, offset |-> 0]
ClearRecord(path, offset) == [tag |-> "TOC_CLEAR", path |-> path, offset |-> offset]
ClearAllRecord == [tag |-> "TOC_CLEAR_ALL"]

(* buildSubTocMaskRecord: a sub-toc is masked with offset zero. *)
SubTocMaskRecord(path) == ClearRecord(path, 0)

----------------------------------------------------------------------------
(***************************************************************************)
(* allMaskableEntries: what a "*" record masks - every index and sub-toc   *)
(* record between the start of the file and that record.                   *)
(***************************************************************************)
allMaskableEntries(recs, upTo) ==
    { <<recs[i].path, recs[i].offset>> :
        i \in {j \in 1..upTo : recs[j].tag \in {"TOC_INDEX", "TOC_SUB_TOC"}} }

(***************************************************************************)
(* populateMaskedEntriesList: the (name, offset) pairs masked in one toc   *)
(* file.  It is a set for the whole file: a mask hides its entry wherever  *)
(* the entry stands, also after the mask, and only in this file.           *)
(***************************************************************************)
maskedEntries(recs) ==
    { <<recs[i].path, recs[i].offset>> :
        i \in {j \in 1..Len(recs) : recs[j].tag = "TOC_CLEAR"} }
    \cup UNION { allMaskableEntries(recs, i) :
        i \in {j \in 1..Len(recs) : recs[j].tag = "TOC_CLEAR_ALL"} }

(***************************************************************************)
(* readNext with walkSubTocs, iterated to the end of the file: the index   *)
(* records met on the way, in order, each with the toc file it was found   *)
(* in.  A masked record is skipped; a sub-toc is opened with masks of its  *)
(* own.  `depth` bounds the nesting of sub-tocs (an overlaid database may  *)
(* have sub-tocs itself).                                                  *)
(***************************************************************************)
readAll(tocs, toc, depth) ==
    LET walk[d \in 0..depth] == [f \in DOMAIN tocs |->
          LET masked == maskedEntries(tocs[f])
              entries(r) ==
                IF r.tag \notin {"TOC_INDEX", "TOC_SUB_TOC"} THEN << >>
                ELSE IF <<r.path, r.offset>> \in masked THEN << >>
                ELSE IF r.tag = "TOC_INDEX"
                     THEN << [path |-> r.path, offset |-> r.offset, toc |-> f] >>
                ELSE IF d > 0 THEN walk[d - 1][r.path] ELSE << >>
          IN  FlattenSeq([i \in 1..Len(tocs[f]) |-> entries(tocs[f][i])])]
    IN  walk[depth][toc]

(***************************************************************************)
(* loadIndexes, not sorted: the indexes of a database in the order in      *)
(* which a retrieve tries them - "The last index takes precedence".        *)
(***************************************************************************)
loadIndexes(tocs, toc, depth) == Reverse(readAll(tocs, toc, depth))

=============================================================================
