------------------------------ MODULE MCRoots -------------------------------
(* An instance of Roots for TLC: two experiments, three roots, a namer that *)
(* fits one class and stream only and wants both given, one that fits all.  *)
EXTENDS Roots

K(class, expver, stream) ==
    ("class" :> class) @@ ("expver" :> expver) @@ ("stream" :> stream)

Anything == {"od", "rd", "rm", "e1", "e2", "a", "b", ""}

FourKeys == {K("od", "e1", "a"), K("od", "e1", "b"), K("rd", "e2", "a"), K("rm", "e2", "a")}

Ask(all, class, expver, stream) == [all |-> all, key |-> K(class, expver, stream)]
SomeRequests ==
    {Ask(TRUE, "", "", ""), Ask(FALSE, "od", "e1", ""), Ask(FALSE, "", "", "a")}

(* The root r3 may not be archived to, and r4 is not mounted. *)
Rootfile ==
    <<<<"#">>,
      <<"r4", "od", TRUE, TRUE>>, <<"r1", "od", TRUE, TRUE>>, <<"r2", "od", TRUE, TRUE>>,
      <<"r3", "rd", FALSE, TRUE>>, <<"r2", "rd", TRUE, TRUE>>, <<"r1", "rd", TRUE, TRUE>>>>
Spacefile ==
    <<<<"class" :> {"od"}, "od", "expver">>, <<"class" :> {"rd"}, "rd", "Default">>,
      <<"class" :> {"rm", ""}, "od", "Random">>>>
Namefile ==
    <<<<[kw \in {"class", "expver", "stream"} |->
            CASE kw = "class" -> {"od"} [] kw = "expver" -> Anything [] kw = "stream" -> {"a"}],
        {"class", "expver", "stream"}>>,
      <<[kw \in {"class", "expver", "stream"} |-> Anything], {"class", "expver", "stream"}>>>>
Enginefile == <<<<"#">>, <<[kw \in {} |-> {}], "toc">>>>
Overrides == [p \in Procs |-> IF p = "p2" THEN "r2" ELSE ""]
=============================================================================
