--------------------------- MODULE MCMaintenance ---------------------------
(* Instances of Maintenance for TLC. *)
EXTENDS Maintenance

CONSTANTS w1, w2, k1, k2

KeysOf == (w1 :> {k1, k2}) @@ (w2 :> {k1})
=============================================================================
