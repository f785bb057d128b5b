---------------------------- MODULE MCTocReader ----------------------------
(* Instances of TocReader for TLC. *)
EXTENDS TocReader

CONSTANTS p1, p2, k1, f1, f2

(* One process per field. *)
Disjoint == (p1 :> {<<k1, f1>>}) @@ (p2 :> {<<k1, f2>>})
=============================================================================
