----------------------------- MODULE MCArchiver -----------------------------
(* Instances of Archiver for TLC: the index keys are interchangeable.  In a *)
(* behaviour either databases get locked, and the time of their last use    *)
(* differs, or flushes throw; the two together have too many states.        *)
EXTENDS Archiver, TLC

VARIABLE trouble    \* "locks" or "errors"

IndexKeySymmetry == Permutations(IndexKeys)

MCInit == Init /\ trouble \in {"locks", "errors"}

MCNext ==
    /\ Next
    /\ trouble = "errors" => UNCHANGED <<locked, now>>
    /\ trouble = "locks" => ~ \E db \in DBs : FlushThrows(db)
    /\ UNCHANGED trouble

MCSpec == MCInit /\ [][MCNext]_<<vars, trouble>>
=============================================================================
