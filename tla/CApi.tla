-------------------------------- MODULE CApi --------------------------------
(***************************************************************************)
(* The C interface (fdb_c.cc) over a handle: calls that return codes, a    *)
(* list iterator that owns its current element, and a split key that       *)
(* points into that element.                                               *)
(***************************************************************************)
EXTENDS FrontEnds

CONSTANT Levels   \* the keywords of the three levels of a key

VARIABLES
    it,     \* fdb_listiterator_t: [left, el, valid], or None
    split,  \* fdb_split_key_t: [parts, level, pos, fresh]
    given,  \* history: the pairs the split key gave for its element
    code    \* what the last call returned

None == [none |-> TRUE]
cvars == <<it, split, given, code>>
allvars == <<vars, cvars>>

Success == "FDB_SUCCESS"
Complete == "FDB_ITERATION_COMPLETE"
Failure == "FDB_ERROR_GENERAL_EXCEPTION"

(* wrapApiFunction: whatever is thrown becomes a code. *)
Code(ok) == IF ok THEN Success ELSE Failure

NoKey == [parts |-> <<>>, level |-> -1, pos |-> 0, fresh |-> FALSE]

CInit == Init /\ it = None /\ split = NoKey /\ given = <<>> /\ code = Success

(* ListElement: the key in three parts, each sorted by keyword. *)
Parts(k) ==
    [l \in DOMAIN Levels |->
        LET here == SelectSeq(Levels[l], LAMBDA kw : kw \in DOMAIN k)
        IN  [i \in DOMAIN here |-> <<here[i], k[here[i]]>>]]

Outdated == [split EXCEPT !.fresh = FALSE]

(* fdb_list; the last argument is handed on as "deduplicate". *)
List(rq, duplicates) ==
    /\ Ready /\ it = None
    /\ it' = [left |-> ListOf(rq, duplicates), el |-> None, valid |-> FALSE]
    /\ fdb' = Called(Done(fdb))
    /\ code' = Success
    /\ UNCHANGED <<impl, fault, acked, open, split, given>>

(* fdb_listiterator_next; at the end the element stays as it was. *)
NextElement ==
    /\ it # None
    /\ IF it.left = <<>>
       THEN it' = [it EXCEPT !.valid = FALSE] /\ code' = Complete /\ UNCHANGED split
       ELSE /\ it' = [left |-> Tail(it.left), el |-> Head(it.left), valid |-> TRUE]
            /\ code' = Success /\ split' = Outdated
    /\ UNCHANGED <<vars, given>>

(* fdb_listiterator_splitkey keeps a pointer to the key of the element.    *)
SplitKey ==
    /\ it # None
    /\ IF ~it.valid THEN code' = Failure /\ UNCHANGED <<split, given>>
       ELSE /\ split' = [parts |-> Parts(it.el.key), level |-> -1, pos |-> 1, fresh |-> TRUE]
            /\ code' = Success /\ given' = <<>>
    /\ UNCHANGED <<vars, it>>

(* Past the end of one level is the beginning of the next, which may be    *)
(* empty too.                                                              *)
Advance_Once(parts, level, pos) ==   \* mutant
    IF level < Len(parts) /\ pos > Len(parts[level]) THEN <<level + 1, 1>> ELSE <<level, pos>>
RECURSIVE Advance(_, _, _)
Advance(parts, level, pos) ==
    IF level < Len(parts) /\ pos > Len(parts[level]) THEN Advance(parts, level + 1, 1)
    ELSE <<level, pos>>

(* fdb_splitkey_next_metadata.  Once the element changed the iterator      *)
(* points to what was freed: any pair, or the end, may come out.           *)
NextMetadata ==
    /\ IF split.parts = <<>> THEN code' = Failure /\ UNCHANGED <<split, given>>
       ELSE IF ~split.fresh
       THEN /\ code' \in {Success, Complete}
            /\ UNCHANGED <<split, given>>
       ELSE LET start == IF split.level = -1 THEN 1 ELSE split.level
                to == Advance(split.parts, start, split.pos)
            IN  IF to[2] > Len(split.parts[to[1]])
                THEN /\ code' = Complete /\ UNCHANGED given
                     /\ split' = [split EXCEPT !.level = to[1], !.pos = to[2]]
                ELSE /\ code' = Success
                     /\ given' = Append(given, split.parts[to[1]][to[2]])
                     /\ split' = [split EXCEPT !.level = to[1], !.pos = to[2] + 1]
    /\ UNCHANGED <<vars, it>>

DeleteIterator ==
    /\ it # None
    /\ it' = None /\ split' = Outdated /\ code' = Success
    /\ UNCHANGED <<vars, given>>

(* fdb_archive, fdb_archive_multiple, fdb_flush and fdb_delete_handle.     *)
Call ==
    /\ Next
    /\ code' = Code(fdb'.ok)
    /\ UNCHANGED <<it, split, given>>

CNext ==
    \/ Call
    \/ \E rq \in Requests, d \in BOOLEAN : List(rq, d)
    \/ NextElement
    \/ SplitKey
    \/ NextMetadata
    \/ DeleteIterator

CSpec == CInit /\ [][CNext]_allvars

(* The pairs that a split key gives for an element are those of its key,   *)
(* level after level, none twice and none left out when the end is         *)
(* reported, levels without a keyword included, as long as the iterator    *)
(* stays where it is (fdb_c.cc:96).                                        *)
MetadataInOrder ==
    split.fresh =>
        LET flat == FlattenSeq(split.parts)
        IN  /\ IsPrefix(given, flat)
            /\ code = Complete /\ it # None /\ it.valid => given = flat
=============================================================================
