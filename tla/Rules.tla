------------------------------- MODULE Rules --------------------------------
(***************************************************************************)
(* The pure part of keys and schemas: values and the types that put them   *)
(* in canonical form (types/), predicates, rules and schemas (rules/), the *)
(* key operations (Key.cc) and the axes of an index (IndexAxis.cc).        *)
(*                                                                         *)
(* A text is abstracted to what the types tell apart.  A value is one of   *)
(*     [n, w]         a number written with w digits                       *)
(*     [tenths]       a number written with a decimal point                *)
(*     [mon, day]     a day written "jan-5", or a month, "jan", with day 0 *)
(*     [from, to]     a step range                                         *)
(*     [table, value] a parameter                                          *)
(*     [sep, parts]   a grid, its parts joined by sep                      *)
(*     [pre, rest]    any other text: its first three letters and the rest *)
(* A key is a function from keywords to values; the order of its names is  *)
(* the order of the predicates of the rule that built it.  A request is a  *)
(* function from keywords to sequences of values.                          *)
(***************************************************************************)
EXTENDS Integers, FiniteSets, SequencesExt

CONSTANT Today   \* the date of relative dates, as yyyymmdd

----------------------------------------------------------------------------
(* Values. *)

Txt(p, r) == [pre |-> p, rest |-> r]
Num(n, w) == [n |-> n, w |-> w]
Empty == Txt("", "")

IsNum(v) == "n" \in DOMAIN v

(* The digits of a number written without leading zeros. *)
Digits(n) == CHOOSE d \in 1..9 : n < 10^d /\ (d = 1 \/ n >= 10^(d - 1))
Plain(n) == Num(n, Digits(n))

AtLeast(w, v) == Num(v.n, IF v.w < w THEN w ELSE v.w)

----------------------------------------------------------------------------
(* Types: tidy, toKey, match and getValues of each. *)

(* eckit::Time reads hh, hhmm or hhmmss; toKey writes hhmm. *)
TimeKey(v) ==
    Num(CASE v.w <= 2 -> v.n * 100 [] v.w = 4 -> v.n [] OTHER -> v.n \div 100, 4)
TimeTidy(v) == AtLeast(4, Plain(IF v.n < 100 THEN v.n * 100 ELSE v.n))

DateTidy(v) == IF IsNum(v) /\ v.n <= 0 THEN Num(Today + v.n, 8) ELSE v
ExpverTidy(v) == IF IsNum(v) THEN AtLeast(4, v) ELSE v

MonthKey(v) == Plain(v.n \div 100)

(* "20200105" and "jan-5" are the same day of any year. *)
DayOfYear(v) == IF IsNum(v) THEN v.n % 10000 ELSE v.mon * 100 + v.day
ClimateMonth(v) == Plain(DayOfYear(v) \div 100)

DoubleKey(v) ==
    IF IsNum(v) THEN Plain(v.n)
    ELSE IF v.tenths % 10 = 0 THEN Plain(v.tenths \div 10) ELSE v

First3(v) == [v EXCEPT !.rest = ""]

Tidy(type, v) ==
    CASE type = "Time" -> TimeTidy(v)
      [] type = "Date" -> DateTidy(v)
      [] type = "Expver" -> ExpverTidy(v)
      [] OTHER -> v

ToKey(type, v) ==
    CASE type = "Time" -> TimeKey(v)
      [] type = "Month" -> MonthKey(v)
      [] type = "ClimateDaily" -> Num(DayOfYear(v), 4)
      [] type = "ClimateMonthly" -> ClimateMonth(v)
      [] type = "Double" -> DoubleKey(v)
      [] type = "Grid" -> [v EXCEPT !.sep = "+"]
      [] type = "First3" -> First3(v)
      [] type = "Ignore" -> Empty
      [] OTHER -> v

(* Key::canonicalise: an empty value stays empty. *)
Canonical(type, v) == IF v = Empty THEN v ELSE ToKey(type, v)

ParamMatch(p, q) ==
    \/ p = q
    \/ p.value = q.value /\ (p.table = 0 \/ q.table = 0)
    \/ p.table * 1000 + p.value = q.value
    \/ q.table * 1000 + q.value = p.value

(* StepRangeNormalise (metkit): a step asks for the range from 0 that ends *)
(* there when the axis has only that.                                      *)
NormaliseStep(axis, v) ==
    IF v \notin axis /\ v.from = v.to /\ [from |-> 0, to |-> v.to] \in axis
    THEN [from |-> 0, to |-> v.to] ELSE v

(* ParamID::normalise (metkit): the parameter of the axis that matches. *)
NormaliseParam(axis, v) ==
    IF v \notin axis /\ \E q \in axis : ParamMatch(v, q)
    THEN CHOOSE q \in axis : ParamMatch(v, q) ELSE v

MapSeq(f(_), s) == [i \in DOMAIN s |-> f(s[i])]

StepValues(vals, db, axis) ==
    IF db THEN MapSeq(LAMBDA v : NormaliseStep(axis \ {Empty}, v), vals) ELSE vals
ParamValues(vals, axis) ==
    SelectSeq(MapSeq(LAMBDA v : NormaliseParam(axis, v), vals), LAMBDA v : v \in axis)
GridValues(vals) == <<[sep |-> "+", parts |-> vals]>>

(* getValues: the values a request gives for a keyword.  db says whether   *)
(* a database is open, axis what its matching indexes hold of the keyword. *)
GetValues(type, vals, db, axis) ==
    CASE type = "Ignore" -> <<>>
      [] type = "Date" -> MapSeq(DateTidy, vals)
      [] type = "Integer" -> MapSeq(LAMBDA v : Plain(v.n), vals)
      [] type = "Double" -> MapSeq(DoubleKey, vals)
      [] type = "ClimateMonthly" ->
            MapSeq(LAMBDA v : [mon |-> ClimateMonth(v).n, day |-> 0], vals)
      [] type = "First3" -> MapSeq(First3, vals)
      [] type = "Grid" -> GridValues(vals)
      [] type = "Step" -> StepValues(vals, db, axis)
      [] type = "Param" -> ParamValues(vals, axis)
      [] OTHER -> vals

----------------------------------------------------------------------------
(***************************************************************************)
(* Schemas.  The text of a predicate is [kw, type, suffix, vals]: the type *)
(* after ':' or "", the suffix "?", "-", "=" or "", the values after it.   *)
(* The text of a rule is [preds, rules], of a schema [types, rules].       *)
(***************************************************************************)

(* parsePredicate: the matcher, and the type the rule registers. *)
Matcher(p) ==
    CASE p.suffix = "?" -> "optional"
      [] p.suffix = "-" -> "hidden"
      [] p.suffix = "=" -> "any"
      [] OTHER -> "always"

ParsePredicate(p) ==
    [kw |-> p.kw, kind |-> Matcher(p), vals |-> p.vals,
     default |-> IF p.vals = <<>> THEN Empty ELSE p.vals[1]]

RegisteredTypes(preds) ==
    LET typed == {i \in DOMAIN preds : preds[i].type # "" \/ preds[i].suffix = "-"}
        TypeOf(p) == IF p.type # "" THEN p.type ELSE "Ignore"
    IN  [kw \in {preds[i].kw : i \in typed} |->
            TypeOf(preds[CHOOSE i \in typed : preds[i].kw = kw])]

(* parseRule and updateParent: a rule's registry falls back on its parent's. *)
RECURSIVE ParseRule(_, _)
ParseRule(r, parent) ==
    LET reg == RegisteredTypes(r.preds) @@ parent
    IN  [preds |-> MapSeq(ParsePredicate, r.preds), types |-> reg,
         rules |-> MapSeq(LAMBDA s : ParseRule(s, reg), r.rules)]

Parse(schema) == MapSeq(LAMBDA r : ParseRule(r, schema.types), schema.rules)

RECURSIVE Depth(_)
Depth(r) ==
    1 + FoldLeft(LAMBDA d, s : IF Depth(s) > d THEN Depth(s) ELSE d, 0, r.rules)

(* Schema::check. *)
WellFormed(rules) == \A i \in DOMAIN rules : Depth(rules[i]) = 3

TypeOf(types, kw) == IF kw \in DOMAIN types THEN types[kw] ELSE "Default"

CanonicalKey(types, k) == [kw \in DOMAIN k |-> Canonical(TypeOf(types, kw), k[kw])]

Has(k, kw) == kw \in DOMAIN k
IsOptional(p) == p.kind \in {"optional", "hidden"}
Pushed(k, kw, v) == (kw :> v) @@ k

(* Predicate::match, on a key that holds what has been pushed so far. *)
PredMatch(p, k) ==
    p.kind = "any" => Has(k, p.kw) /\ \E i \in DOMAIN p.vals : p.vals[i] = k[p.kw]

(* Rule::match. *)
RuleMatch(r, k) == \A i \in DOMAIN r.preds : PredMatch(r.preds[i], k)

(* Predicate::value of a key: Key::get throws on a missing keyword. *)
NeedsKeyword(p, k) == ~IsOptional(p) /\ ~Has(k, p.kw)
PredValue(p, k) ==
    IF p.kind = "hidden" \/ (p.kind = "optional" /\ ~Has(k, p.kw)) THEN p.default ELSE k[p.kw]

(* Key::match of a key: an empty value matches any. *)
KeyMatch(k, other) ==
    \A kw \in DOMAIN other : Has(k, kw) /\ (other[kw] = Empty \/ k[kw] = other[kw])

(* Key::match(MarsRequest) and Key::partialMatch: the values as they stand. *)
KeyMatchRequest(k, rq) == \A kw \in DOMAIN rq : Has(k, kw) /\ k[kw] \in ToSet(rq[kw])
KeyPartialMatch(k, rq) ==
    \A kw \in DOMAIN k \cap DOMAIN rq : rq[kw] # <<>> => k[kw] \in ToSet(rq[kw])

(* Key::valuesToString: the canonical values in the order of the names. *)
Fingerprint(r, k) ==
    MapSeq(LAMBDA p : Canonical(TypeOf(r.types, p.kw), k[p.kw]), r.preds)

(* Rule::fill: an optional keyword with an empty value is left out. *)
Fill(r, values) ==
    LET kept == {i \in DOMAIN values : r.preds[i].kind = "optional" => values[i] # Empty}
    IN  [kw \in {r.preds[i].kw : i \in kept} |->
            values[CHOOSE i \in kept : r.preds[i].kw = kw]]

(* Schema::ruleFor: the first datum rule of the first rules that match. *)
RuleFor(rules, dbKey, idxKey) ==
    LET Mine(i) == {j \in DOMAIN rules[i].rules : RuleMatch(rules[i].rules[j], idxKey)
                                                    /\ rules[i].rules[j].rules # <<>>}
        r == Min({i \in DOMAIN rules : RuleMatch(rules[i], dbKey) /\ Mine(i) # {}})
    IN  rules[r].rules[Min(Mine(r))].rules[1]

(* The database rule expandSecond takes: the first that matches. *)
DbRule(rules, dbKey) ==
    SelectInSeq(rules, LAMBDA r : RuleMatch(r, dbKey))

----------------------------------------------------------------------------
(***************************************************************************)
(* Expansion of a field (the write side of Rule::expand).  A result is     *)
(* [st, ...] with st one of "no" (nothing matches), "throws" and "ok".     *)
(***************************************************************************)

No == [st |-> "no"]
Throws == [st |-> "throws"]

(* One level of a rule: pushes each keyword until one does not match. *)
LevelKey(r, field) ==
    LET Push(acc, p) ==
            IF acc.st # "ok" THEN acc
            ELSE IF NeedsKeyword(p, field) THEN Throws
            ELSE LET k == Pushed(acc.key, p.kw, PredValue(p, field))
                 IN  IF PredMatch(p, k) THEN [acc EXCEPT !.key = k] ELSE No
    IN  FoldLeft(Push, [st |-> "ok", key |-> <<>>], r.preds)

(* matchFirstFdbRule: once a datum rule is found the rest is skipped; an   *)
(* exception ends the expansion.                                           *)
FirstOf(results) ==
    FoldLeft(LAMBDA found, r : IF found.st = "no" THEN r ELSE found, No, results)

Then(k, next(_)) == IF k.st = "ok" THEN next(k.key) ELSE k

DatumLevel(rules, field, dbKey, ixKey) ==
    FirstOf(MapSeq(LAMBDA r3 : Then(LevelKey(r3, field), LAMBDA datum :
        [st |-> "ok", keys |-> <<dbKey, ixKey, datum>>, rules |-> Append(rules, r3)]),
        rules[2].rules))

(* Schema::expandSecond, on the schema of the database r1 has selected. *)
ExpandSecond(rules, r1, field, dbKey) ==
    LET r == DbRule(rules, dbKey)
    IN  IF r = 0 THEN Throws
        ELSE FirstOf(MapSeq(LAMBDA r2 : Then(LevelKey(r2, field), LAMBDA ix :
                DatumLevel(<<r1, r2>>, field, dbKey, ix)), rules[r].rules))

(* Schema::expand; the databases there are have schemas of their own.      *)
ExpandRule(rules, r1, field, schemas) ==
    Then(LevelKey(r1, field), LAMBDA dbKey :
        LET d == CanonicalKey(r1.types, dbKey)
        IN  ExpandSecond(IF d \in DOMAIN schemas THEN schemas[d] ELSE rules, r1, field, dbKey))
WriteExpand(rules, field, schemas) ==
    FirstOf(MapSeq(LAMBDA r1 : ExpandRule(rules, r1, field, schemas), rules))

(* The database keys selected on the way: each database is opened, and     *)
(* created, even when no datum rule of its schema matches.                 *)
Selected(rules, field, schemas) ==
    LET reached == {i \in DOMAIN rules :
                       \A j \in 1..(i - 1) : ExpandRule(rules, rules[j], field, schemas).st = "no"}
    IN  {CanonicalKey(rules[i].types, LevelKey(rules[i], field).key) :
            i \in {j \in reached : LevelKey(rules[j], field).st = "ok"}}

(* Rule::check, up the parents of the rule: the values must be tidy. *)
CheckKey(types, k) == \A kw \in DOMAIN k : Tidy(TypeOf(types, kw), k[kw]) = k[kw]

(* Key::validateKeysOf: every keyword of the field is used. *)
KeysUsed(field, full) == DOMAIN field \subseteq DOMAIN full

(* Rule::matchFirstLevel of a request: the database keys it may name, with *)
(* missing for a keyword it does not give.                                 *)
MatchFirstLevel(rules, rq, missing) ==
    LET Options(p) == IF ~Has(rq, p.kw) THEN {missing}
                      ELSE IF p.kind = "hidden" THEN {p.default} ELSE ToSet(rq[p.kw])
        Extend(keys, p) ==
            {k \in {Pushed(k, p.kw, v) : k \in keys, v \in Options(p)} :
                Has(rq, p.kw) => PredMatch(p, k)}
    IN  UNION {FoldLeft(Extend, {<<>>}, rules[i].preds) : i \in DOMAIN rules}

(* Rule::matchFirstLevel of a key: the same, of one value per keyword. *)
Anything == Txt("any", "thing")
MatchFirstLevelKey(rules, key, missing) ==
    LET Extend(keys, p) ==
            {k \in {Pushed(k, p.kw, IF Has(key, p.kw) THEN PredValue(p, key) ELSE missing) : k \in keys} :
                Has(key, p.kw) => PredMatch(p, k)}
        Keys(i) == FoldLeft(Extend, {<<>>}, rules[i].preds)
    IN  {k \in UNION {Keys(i) : i \in DOMAIN rules} : KeyMatch(k, key)}

----------------------------------------------------------------------------
(* Axes: [keyword -> set of canonical values]. *)

(* IndexAxis::insert. *)
AxisInsert(axes, k) ==
    [kw \in DOMAIN k |-> {k[kw]} \cup IF Has(axes, kw) THEN axes[kw] ELSE {}] @@ axes

(* IndexAxis::contains. *)
AxisContains(axes, types, k) ==
    \A kw \in DOMAIN axes :
        Has(k, kw) /\ (k[kw] \in axes[kw] \/ Canonical(TypeOf(types, kw), k[kw]) \in axes[kw])

(* IndexAxis::partialMatch. *)
AxisPartialMatch(axes, rq) ==
    \A kw \in DOMAIN axes \cap DOMAIN rq : \E i \in DOMAIN rq[kw] : rq[kw][i] \in axes[kw]
=============================================================================
