----------------------------- MODULE FieldStore -----------------------------
(***************************************************************************)
(* What archive, flush and retrieve promise (FDB.h), without files: a map  *)
(* from fields to the last value published for them, and for each writer   *)
(* the values it has archived and not yet published.                       *)
(*                                                                         *)
(* A flush publishes the pending values of one index key at a time: the    *)
(* fields of one index become retrievable together, several indexes of a   *)
(* flush one after the other.  Publishing replaces older values ("The last *)
(* index takes precedence", TocHandler::loadIndexes).  A writer that dies  *)
(* loses its pending values and nothing else.                              *)
(***************************************************************************)
CONSTANTS Writers, IndexKeys, FieldKeys, Values, NoField

Fields == IndexKeys \X FieldKeys

VARIABLES
    stored,   \* [Fields -> Values \cup {NoField}]: what a retrieve returns
    pending   \* [Writers -> [Fields -> Values \cup {NoField}]]

vars == <<stored, pending>>

Nothing == [f \in Fields |-> NoField]

Init ==
    /\ stored = Nothing
    /\ pending = [w \in Writers |-> Nothing]

(* FDB::archive: some value becomes the pending one of the field. *)
Archive(w, f) ==
    /\ pending'[w][f] \in Values
    /\ pending' = [pending EXCEPT ![w][f] = pending'[w][f]]
    /\ UNCHANGED stored

(* One index of FDB::flush. *)
Publish(w, ik) ==
    LET new(f) == f[1] = ik /\ pending[w][f] # NoField IN
    /\ stored' = [f \in Fields |-> IF new(f) THEN pending[w][f] ELSE stored[f]]
    /\ pending' = [pending EXCEPT ![w] = [f \in Fields |-> IF new(f) THEN NoField ELSE @[f]]]

(* The writer dies. *)
Lose(w) ==
    /\ pending' = [pending EXCEPT ![w] = Nothing]
    /\ UNCHANGED stored

Next == \E w \in Writers :
    \/ \E f \in Fields : Archive(w, f)
    \/ \E ik \in IndexKeys : Publish(w, ik)
    \/ Lose(w)

Spec == Init /\ [][Next]_vars
=============================================================================
