------------------------------ MODULE TocReader ------------------------------
(***************************************************************************)
(* One reading process beside the writers of TocWriter                     *)
(* (TocCatalogueReader.cc, TocHandler::openForRead and readNext).          *)
(*                                                                         *)
(* The reader copies the master toc (fdbCacheTocsOnRead) or reads it as it *)
(* goes, takes its masks from the state of the toc when the walk starts,   *)
(* opens each sub-toc when it meets its record, and then keeps the list of *)
(* indexes it found for as long as it lives: every later retrieve uses     *)
(* that list, while writers flush, compact, close and crash.               *)
(***************************************************************************)
EXTENDS TocWriter

VARIABLES
    cacheTocs, \* BOOLEAN: fdbCacheTocsOnRead, as the process is configured
    rpc,       \* "closed", "walking", "open"
    snapshot,  \* the master toc when it was opened (cachedToc_)
    masks,     \* maskedEntries_
    position,  \* the next record to read
    indexes_,  \* the indexes found so far, in the order of the walk
    promised   \* history: the fields acknowledged when the walk started

rvars == <<cacheTocs, rpc, snapshot, masks, position, indexes_, promised>>

RInit ==
    /\ Init
    /\ cacheTocs \in BOOLEAN
    /\ rpc = "closed" /\ snapshot = << >> /\ masks = {} /\ position = 1
    /\ indexes_ = << >> /\ promised = {}

(* openForRead and populateMaskedEntriesList. *)
OpenForRead ==
    /\ rpc = "closed"
    /\ Master \in exists
    /\ rpc' = "walking"
    /\ snapshot' = IF cacheTocs THEN tocs[Master] ELSE << >>
    /\ masks' = maskedEntries(tocs[Master])
    /\ promised' = acked
    /\ UNCHANGED <<vars, cacheTocs, position, indexes_>>

Records == IF cacheTocs THEN snapshot ELSE tocs[Master]

(* Mutant: the masks are looked up in the toc as it is now. *)
ReadNext_LiveMasks ==
    LET r == Records[position]
        found ==
          IF r.tag \notin {"TOC_INDEX", "TOC_SUB_TOC"} THEN << >>
          ELSE IF <<r.path, r.offset>> \in maskedEntries(tocs[Master]) THEN << >>
          ELSE IF r.tag = "TOC_INDEX"
               THEN << [path |-> r.path, offset |-> r.offset, toc |-> Master] >>
          ELSE readAll(tocs, r.path, 0)
    IN
    /\ rpc = "walking"
    /\ position <= Len(Records)
    /\ indexes_' = indexes_ \o found
    /\ position' = position + 1
    /\ UNCHANGED <<vars, cacheTocs, rpc, snapshot, masks, promised>>

(***************************************************************************)
(* readNext, one record of the master toc.  A sub-toc is opened, with its  *)
(* own masks, at the moment its record is met.                             *)
(***************************************************************************)
ReadNext ==
    LET r == Records[position]
        found ==
          IF r.tag \notin {"TOC_INDEX", "TOC_SUB_TOC"} THEN << >>
          ELSE IF <<r.path, r.offset>> \in masks THEN << >>
          ELSE IF r.tag = "TOC_INDEX"
               THEN << [path |-> r.path, offset |-> r.offset, toc |-> Master] >>
          ELSE readAll(tocs, r.path, 0)
    IN
    /\ rpc = "walking"
    /\ position <= Len(Records)
    /\ indexes_' = indexes_ \o found
    /\ position' = position + 1
    /\ UNCHANGED <<vars, cacheTocs, rpc, snapshot, masks, promised>>

(* End of file: the indexes are reversed and kept. *)
IndexesLoaded ==
    /\ rpc = "walking"
    /\ position > Len(Records)
    /\ rpc' = "open"
    /\ indexes_' = Reverse(indexes_)
    /\ UNCHANGED <<vars, cacheTocs, snapshot, masks, position, promised>>

RNext ==
    \/ OpenForRead \/ ReadNext \/ IndexesLoaded
    \/ Next /\ UNCHANGED rvars

RSpec == RInit /\ [][RNext]_<<vars, rvars>>

----------------------------------------------------------------------------
(***************************************************************************)
(* A reader never follows a record to nothing: every sub-toc it opens      *)
(* starts with INIT (the ASSERT of readNext), every index it holds has its *)
(* section in the file, and every location in it can be read in full, at   *)
(* any later time.                                                         *)
(***************************************************************************)
ReaderNeverDangles ==
    /\ (rpc = "walking" /\ position <= Len(Records)) =>
          (Records[position].tag = "TOC_SUB_TOC" => tocs[Records[position].path] # << >>)
    /\ \A i \in DOMAIN indexes_ :
          /\ indexes_[i].offset \in DOMAIN sections[indexes_[i].path]
          /\ \A fk \in FieldKeys :
                LET loc == sections[indexes_[i].path][indexes_[i].offset][fk] IN
                loc # NoField => Durable(loc, indexes_[i].path[2], fk)

(***************************************************************************)
(* A reader opened after a flush returned finds its fields (or newer ones  *)
(* of the same writer), however the walk interleaves with other flushes    *)
(* and with the compaction that masks the sub-toc being walked.            *)
(***************************************************************************)
ReaderSeesFlushed ==
    rpc = "open" =>
        \A v \in promised :
            LET r == RetrieveFrom(indexes_, v.ik, v.fk) IN
            /\ r \in Values
            /\ r.ik = v.ik /\ r.fk = v.fk
            /\ r.proc = v.proc => r.n >= v.n
=============================================================================
