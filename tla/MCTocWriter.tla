---------------------------- MODULE MCTocWriter ----------------------------
(* Instances of TocWriter for TLC. *)
EXTENDS TocWriter

CONSTANTS p1, p2, k1, k2, f1, f2

(* One process per field. *)
Disjoint == (p1 :> {<<k1, f1>>}) @@ (p2 :> {<<k1, f2>>})

(* Both indexes for one process, one for the other. *)
Mixed == (p1 :> {<<k1, f1>>, <<k2, f1>>}) @@ (p2 :> {<<k1, f1>>})
=============================================================================
