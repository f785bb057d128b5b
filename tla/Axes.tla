-------------------------------- MODULE Axes --------------------------------
(***************************************************************************)
(* The index as a toc record carries it: its files, its axes and its key,  *)
(* in the current or in the legacy stream format (Index.cc, IndexAxis.cc,  *)
(* UriStore.cc, TocSerialisationVersion.cc), and the merging of axes       *)
(* (IndexAxis::merge, AxisRegistry.cc).                                    *)
(*                                                                         *)
(* A stream is a sequence of tokens.  A file is [root, name]: the root its *)
(* database directory is under, root 1 being the one the catalogue is in.  *)
(* The type of an index and its timestamp, which a legacy stream does not  *)
(* carry, are left out.                                                    *)
(***************************************************************************)
EXTENDS Rules

(* TocSerialisationVersion: the environment, the configuration, or 2. *)
Supported == {1, 2, 3}
UsedVersion(v) ==
    IF v.env # 0 THEN v.env ELSE IF v.config # 0 THEN v.config ELSE 2

----------------------------------------------------------------------------
(* UriStore::encode: a file of the index's own directory by its name only. *)

UriToken(f) == IF f.root = 1 THEN [base |-> f.name] ELSE f
UriOfToken(x) == IF "base" \in DOMAIN x THEN [root |-> 1, name |-> x.base] ELSE x

EncodeUris(uris) ==
    <<Len(uris)>> \o FlattenSeq([i \in DOMAIN uris |-> <<i, UriToken(uris[i])>>])

(* Decoders return what they have read and where the rest begins. *)
DecodeUris(s, at) ==
    LET n == s[at]
        AtId(id) == CHOOSE i \in 1..n : s[at + 2 * i - 1] = id
    IN  [uris |-> [id \in 1..n |-> UriOfToken(s[at + 2 * AtId(id)])], at |-> at + 2 * n + 1]

----------------------------------------------------------------------------
(* IndexAxis::encode and decode. *)

EncodeAxes(axes, version) ==
    LET kws == SetToSeq(DOMAIN axes)
        body == FlattenSeq(MapSeq(LAMBDA kw :
                    <<kw, Cardinality(axes[kw])>> \o SetToSeq(axes[kw]), kws))
    IN  IF version >= 3
        THEN <<"object", "size", Len(kws), "axes">> \o body \o <<"end">>
        ELSE <<Len(kws)>> \o body

DecodeValues(s, from, n) ==
    LET Read(acc, i) ==
            LET m == s[acc.at + 1]
            IN  [axes |-> (s[acc.at] :> {s[j] : j \in (acc.at + 2)..(acc.at + 1 + m)}) @@ acc.axes,
                 at |-> acc.at + 2 + m]
    IN  FoldLeft(Read, [axes |-> <<>>, at |-> from], [i \in 1..n |-> i])

DecodeAxes(s, at, version) ==
    IF version < 3 THEN DecodeValues(s, at + 1, s[at])
    ELSE LET size == CHOOSE i \in {at + 1, at + 2} : s[i] = "size"
             read == DecodeValues(s, size + 3, s[size + 1])
         IN  [read EXCEPT !.at = @ + 1]

(* TocIndex::encode and IndexBase::encode. *)
EncodeIndex(idx, version) ==
    EncodeUris(idx.uris) \o EncodeAxes(idx.axes, version) \o
        IF version >= 3 THEN <<"object", "key", idx.key, "end">> ELSE <<idx.key>>

(* The index a reader makes of the record, with the tree the record is for.*)
DecodeIndex(s, version, tree) ==
    LET u == DecodeUris(s, 1)
        a == DecodeAxes(s, u.at, version)
    IN  [uris |-> u.uris, axes |-> a.axes, tree |-> tree,
         key |-> s[IF version >= 3 THEN a.at + 2 ELSE a.at]]

----------------------------------------------------------------------------
(* IndexAxis::merge.  A keyword that is new takes over the set of values   *)
(* of the other axes; the values of one it has are added to its own set.   *)
(* Sets read from a toc are shared by whoever has read the same values of  *)
(* the keyword (AxisRegistry::deduplicate), so they grow for all of them.  *)

ValuesAt(axes, kw) == IF Has(axes, kw) THEN axes[kw] ELSE {}

AxisMerge(axes, other) ==
    [kw \in DOMAIN axes \cup DOMAIN other |-> ValuesAt(axes, kw) \cup ValuesAt(other, kw)]

(* Axes that share sets with old, once old has become new. *)
Grown(axes, old, new) ==
    [kw \in DOMAIN axes |->
        IF Has(old, kw) /\ old[kw] = axes[kw] THEN new[kw] ELSE axes[kw]]
=============================================================================
