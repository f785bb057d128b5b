------------------------------ MODULE Backends ------------------------------
(***************************************************************************)
(* The stores an index of a database can be kept in besides the ordinary   *)
(* one, and the ordinary one for comparison: persistent memory (PMem), or  *)
(* a toc whose indexes are B-trees or in Parallax (LsmIndex).  A database  *)
(* has one of them for good: the two parts share nothing.                  *)
(***************************************************************************)
EXTENDS PMem, LsmIndex

BInit == Init /\ LsmInit

BNext ==
    \/ indexType = "PMemIndex" /\ Next /\ UNCHANGED lsmvars
    \/ indexType # "PMemIndex" /\ LsmNext /\ UNCHANGED vars

(* As in PMem: a writer that is inside a call goes on with it. *)
BSpec == BInit /\ [][BNext]_<<vars, lsmvars>> /\ \A w \in Writers : WF_vars(Step(w))
=============================================================================
