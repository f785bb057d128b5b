----------------------------- MODULE MCBackends -----------------------------
(* An instance of Backends for TLC.  Persistent memory: two writers and a   *)
(* reader, two indexes that share a branch and have one field each, data    *)
(* pools with room for one.  Toc: three keys, whose axes hold a fourth.     *)
EXTENDS Backends

TwoFields == {<<<<"a1", "b1">>, <<"x1", "y1">>>>, <<<<"a1", "b2">>, <<"y2">>>>}
Poolfile == <<<<"#">>, <<"p1", "g", FALSE, TRUE>>, <<"p2", "g", TRUE, FALSE>>, <<"p3", "h", TRUE, FALSE>>>>
Groupfile == <<<<FALSE, "h", "Default">>, <<TRUE, "g", "Default">>, <<TRUE, "none", "Default">>>>
NoGroups == <<>>
ThreeKeys == {<<"a", "x">>, <<"a", "y">>, <<"b", "x">>}
=============================================================================
