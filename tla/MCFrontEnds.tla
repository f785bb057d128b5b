---------------------------- MODULE MCFrontEnds -----------------------------
(* An instance of FrontEnds for TLC: a selector over a distributor of three *)
(* lanes, one closed for archiving, one drawn at random, and a local front  *)
(* end; called through the C interface or by the tools that archive         *)
(* messages.                                                                *)
EXTENDS CApi, Messages

Conf4(type, subs, select, flags) ==
    [type |-> type, subs |-> subs, select |-> select, flags |-> flags]
Local(flags) == Conf4("local", <<>>, <<>>, flags)
NoFlags == <<>>

Tree ==
    [n \in {"top", "dist", "old", "a", "b", "b1", "b2", "c"} |->
        CASE n = "top" -> Conf4("select", <<"dist", "c">>,
                                <<"class" :> {"od"}, "class" :> {"rd"}>>, NoFlags)
          [] n = "dist" -> Conf4("dist", <<"old", "a", "b">>, <<>>, NoFlags)
          [] n = "old" -> Local("writable" :> FALSE)
          [] n = "b" -> Conf4("random", <<"b1", "b2">>, <<>>, NoFlags)
          [] n = "b2" -> Local("writable" :> FALSE @@ "archive" :> FALSE @@ "list" :> FALSE)
          [] OTHER -> Local(NoFlags)]

Od(p) == "class" :> "od" @@ "param" :> p
Minutes == Od("1") @@ "stepunits" :> "m"
Rd == "class" :> "rd" @@ "param" :> "1"

AllKeys == {Od("1"), Od("2"), Minutes}
AllRequests ==
    {[all |-> TRUE, values |-> <<>>], [all |-> FALSE, values |-> "param" :> {"1"}]}
AllStreams ==
    {[checked |-> TRUE, values |-> "class" :> {"od"} @@ "param" :> {"2"},
      msgs |-> <<Od("2"), Od("2")>>],
     [checked |-> FALSE, values |-> <<>>, msgs |-> <<Rd, Od("1")>>]}
SomeFailures == {<<"a", "refuses">>, <<"a", "flush">>, <<"a", "late">>, <<"c", "flush">>}
HammerKeys ==
    {Od(p) @@ "step" :> s @@ "levelist" :> "1" : p \in {"1", "2", "3"}, s \in {"0", "1"}}
HashOrder == [k \in AllKeys \cup HammerKeys |-> IF k["param"] = "1" THEN <<1, 2, 3>> ELSE <<3, 1, 2>>]

(* Messages.  The unit of the step is decoded too, and a number does not    *)
(* replace a string.                                                        *)
Message(class, param, n) ==
    <<<<"class", "string", class>>, <<"param", "string", param>>, <<"param", "number", n>>,
      <<"step", "string", "0">>, <<"levelist", "number", "1">>, <<"stepunits", "string", "h">>>>
SomeFiles ==
    "mixed" :> <<Message("od", "1", "0"), Message("rd", "1", "0"), Message("od", "2", "0")>>
    @@ "two" :> <<Message("od", "2", "1"), Message("od", "2", "2")>>
    @@ "template" :> <<Message("xx", "0", "0")>>
MarsDefaults == "class" :> {"od"} @@ "param" :> {"1", "2"}
SomeRequests == <<[all |-> FALSE, values |-> "class" :> {"od"}]>>

WriteLine(include, exclude, modifiers, paths) ==
    [tool |-> "fdb-write", include |-> include, exclude |-> exclude,
     modifiers |-> modifiers, paths |-> paths]
SomePrograms ==
    {WriteLine(<<>>, <<>>, <<>>, <<"mixed", "two">>),
     WriteLine("param" :> {"1"}, <<>>, "class" :> "od" @@ "param" :> "2", <<"mixed">>),
     WriteLine(<<>>, "class" :> {"rd"}, <<>>, <<"mixed">>),
     [tool |-> "grib2fdb5", args |-> <<"-d", "x", "-c", "od", "-1", "-f", "two", "-f", "mixed", "-e">>],
     [tool |-> "fdb-copy", requests |-> SomeRequests, sort |-> TRUE],
     [tool |-> "fdb-read", extract |-> TRUE, path |-> "two"],
     [tool |-> "fdb-read", extract |-> FALSE, raw |-> FALSE, requests |->
          <<[all |-> FALSE, values |-> "param" :> {"2"} @@ "optimise" :> {"on"}],
            [all |-> FALSE, values |-> "class" :> {"rd"}]>>],
     [tool |-> "fdb-patch", requests |-> SomeRequests, to |-> "class" :> "rd", fail |-> TRUE],
     [tool |-> "fdb-hammer", path |-> "template", class |-> "od", nensembles |-> 0, number |-> 1,
      nsteps |-> 2, nlevels |-> 1, level |-> 1, nparams |-> 2]}

KeyLevels == <<<<"class">>, <<>>, <<"param">>>>

VARIABLE caller   \* who calls: a C program, or the tools

PInit == MInit /\ CInit /\ caller \in {"c", "tools"}
PNext ==
    /\ \/ caller = "c" /\ CNext /\ UNCHANGED mvars
       \/ caller = "tools" /\ MNext /\ UNCHANGED cvars
    /\ UNCHANGED caller
PSpec == PInit /\ [][PNext]_<<allvars, mvars, caller>>
=============================================================================
