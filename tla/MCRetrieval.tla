---------------------------- MODULE MCRetrieval -----------------------------
(***************************************************************************)
(* Instances of Listing for TLC: schemas cut from the shipped one        *)
(* (tests/fdb/etc/fdb/schema), with the types, defaults and suffixes that  *)
(* it uses.                                                                *)
(***************************************************************************)
EXTENDS Listing

P(kw) == [kw |-> kw, type |-> "", suffix |-> "", vals |-> <<>>]
T(kw, type) == [P(kw) EXCEPT !.type = type]
Opt(kw, default) == [P(kw) EXCEPT !.suffix = "?", !.vals = default]
Hid(kw) == [P(kw) EXCEPT !.suffix = "-"]
Eq(kw, vals) == [P(kw) EXCEPT !.suffix = "=", !.vals = vals]
R(preds, rules) == [preds |-> preds, rules |-> rules]
D(preds) == R(preds, <<>>)

oper == Txt("ope", "r")
mnth == Txt("mnt", "h")
an == Txt("an", "")
cl == Txt("cl", "")
t == [table |-> 0, value |-> 130]
t128 == [table |-> 128, value |-> 130]

Globals == ("time" :> "Time") @@ ("step" :> "Step") @@ ("param" :> "Param")
               @@ ("levelist" :> "Double")

OperRule ==
    R(<<Eq("stream", <<oper>>), P("time"), Opt("domain", <<>>)>>,
      <<R(<<Eq("type", <<an>>), T("icmodel", "First3")>>,
          <<D(<<P("step"), Opt("levelist", <<>>), P("param")>>)>>),
        R(<<P("type")>>, <<D(<<P("step"), Hid("grid"), P("param")>>)>>)>>)
MnthRule ==
    R(<<Eq("stream", <<mnth>>), Opt("domain", <<>>)>>,
      <<R(<<P("type")>>, <<D(<<T("date", "ClimateMonthly"), P("param")>>)>>)>>)
(* The successor files the levels of a new kind of field. *)
OperRule2 ==
    R(<<Eq("stream", <<oper>>), P("time"), Opt("domain", <<>>)>>,
      <<R(<<P("type")>>, <<D(<<P("param"), P("step")>>)>>)>>)

TwoSchemas ==
    <<[types |-> Globals, rules |-> <<OperRule, MnthRule>>],
      [types |-> Globals, rules |-> <<OperRule2, MnthRule>>]>>

Op(time, type, step, param) ==
    ("stream" :> oper) @@ ("time" :> time) @@ ("type" :> type) @@ ("step" :> step)
        @@ ("param" :> param)
S(f, to) == [from |-> f, to |-> to]

Lev(lev) == "icmodel" :> Txt("abc", "d") @@ ("levelist" :> lev)
Versions2 == <<[env |-> 0, config |-> 0], [env |-> 3, config |-> 2]>>

Own == [root |-> 1, name |-> "data"]
Elsewhere == [root |-> 2, name |-> "data"]
FourFields ==
    {<<Op(Num(600, 4), an, S(0, 24), t128) @@ Lev([tenths |-> 8500]), Own>>,
     <<Op(Num(6, 1), an, S(24, 24), t128) @@ Lev(Num(500, 3)), Elsewhere>>,
     <<Op(Num(1200, 4), cl, S(6, 6), t) @@ ("grid" :> Txt("gg", "")), Own>>,
     <<("stream" :> mnth) @@ ("type" :> cl) @@ ("param" :> t)
           @@ ("date" :> Num(20200501, 8)), Own>>}

All(f) == [kw \in DOMAIN f |-> <<f[kw]>>]
TwoRequests ==
    {All(Op(Num(6, 2), an, S(24, 24), t)) @@ All(Lev(Num(500, 3))),
     ("stream" :> <<oper, mnth>>) @@ ("time" :> <<Num(600, 4), Num(1200, 4)>>)
        @@ ("type" :> <<an, cl>>) @@ ("icmodel" :> <<Txt("abc", "")>>)
        @@ ("step" :> <<S(6, 6), S(24, 24)>>) @@ ("levelist" :> <<[tenths |-> 8500]>>)
        @@ ("param" :> <<t>>) @@ ("date" :> <<[mon |-> 5, day |-> 0]>>)}

(* Command lines: their requests as written and as expanded. *)
Req(given, expanded) == [given |-> given, expanded |-> expanded]
OperCl == ("stream" :> <<oper>>) @@ ("type" :> <<cl>>)
At6(six) == ("stream" :> <<oper>>) @@ ("time" :> <<six>>) @@ ("levelist" :> <<Num(500, 3)>>)
Line(tool, rqs) ==
    [tool |-> tool, requests |-> rqs, all |-> FALSE, raw |-> FALSE, minimum |-> {"stream"},
     full |-> FALSE, compact |-> FALSE, location |-> FALSE, porcelain |-> FALSE,
     json |-> FALSE, ignore |-> FALSE, level |-> 3, ids |-> {"retrieve", "list"}]
AllOf(tool) == [Line(tool, <<>>) EXCEPT !.all = TRUE, !.minimum = {}]
Oper == Req("stream" :> <<oper>>, "stream" :> <<oper>>)
Mnth == Req("stream" :> <<mnth>>, "stream" :> <<mnth>>)
Six == Req(At6(Num(6, 1)), At6(Num(600, 4)))

TheLines ==
    {Line("list", <<Req(OperCl, OperCl), Six>>),
     [AllOf("list") EXCEPT !.full = TRUE],
     [AllOf("list") EXCEPT !.compact = TRUE],
     [Line("list", <<Six>>) EXCEPT !.raw = TRUE, !.minimum = {"date"}],
     Line("axes", <<Oper>>), [Line("axes", <<Six>>) EXCEPT !.level = 2],
     AllOf("stats"), Line("status", <<Oper>>),
     Line("lock", <<Oper, Req(OperCl, OperCl), Mnth>>), AllOf("unlock")}

=============================================================================
