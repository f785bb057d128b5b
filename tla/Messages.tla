------------------------------ MODULE Messages ------------------------------
(***************************************************************************)
(* Programs that archive messages through a handle or read them: the       *)
(* archiver of messages (MessageArchiver.cc, MessageDecoder.cc), the tools *)
(* built on it, fdb-write, grib2fdb5, fdb-copy, fdb-patch and fdb-hammer,  *)
(* and fdb-read, run one after the other.  A message is the sequence of    *)
(* values that its decoder gives, <<keyword, type, value>>.                *)
(***************************************************************************)
EXTENDS FrontEnds

CONSTANTS
    Programs,     \* the command lines: records of a tool and its arguments
    Files,        \* [paths -> the messages in them]
    Expand,       \* [filters -> what the language adds to them]
    Awkward,      \* numbers that are no parameter
    MaxPrograms,  \* bound: processes one after the other
    MaxFaults     \* bound: faults that begin or end while they run

VARIABLES
    prog,    \* [line, todo, ok, running, out, started, base, faults]: the last program
    asked    \* history: [arch, msg] of the messages of calls that returned

mvars == <<prog, asked>>
NoProgram == [tool |-> "none"]

----------------------------------------------------------------------------
(* Decoding. *)

(* KeySetter: a string replaces what there is, a number does not. *)
SetValue(k, x) ==
    IF x[2] = "string" \/ x[1] \notin DOMAIN k THEN (x[1] :> x[3]) @@ k ELSE k

(* MessageDecoder::msgToKey. *)
MsgToKey(m) == LET k == FoldLeft(SetValue, <<>>, m) IN Restrict(k, DOMAIN k \ {"stepunits"})

(* Message::transform, and grib_set_string. *)
Transform(m, values) ==
    [i \in DOMAIN m |-> IF m[i][1] \in DOMAIN values
                        THEN <<m[i][1], "string", values[m[i][1]]>> ELSE m[i]]
    \o SetToSeq({<<kw, "string", values[kw]>> : kw \in
                    {w \in DOMAIN values : \A i \in DOMAIN m : m[i][1] # w}})

(* PatchArchiver::patch changes the message that the key is taken from; of *)
(* the others nothing is changed.                                          *)
Patch(a, m) == Transform(m, a.patch)
MessageToKey(a, m) == MsgToKey(Patch(a, m))

(* messageToRequests: a request with the values of each message. *)
MessageToRequests(msgs) ==
    [i \in DOMAIN msgs |-> [all |-> FALSE, values |-> AsRequest(MsgToKey(msgs[i]))]]

----------------------------------------------------------------------------
(* MessageArchiver. *)

(* make_filter_requests: the expansion of the text, with the keywords that *)
(* the text names.                                                         *)
MakeFilter(text) ==
    IF text = <<>> THEN {} ELSE {Restrict(text @@ Expand, DOMAIN text)}

Archiver(key, include, exclude, modifiers, patch) ==
    [key |-> key, include |-> MakeFilter(include), exclude |-> MakeFilter(exclude),
     modifiers |-> modifiers, patch |-> patch]
PlainArchiver == Archiver(<<>>, <<>>, <<>>, <<>>, <<>>)

MatchAny(k, rqs) == \E rq \in rqs : Matches(AsRequest(k), rq, TRUE)

FilterOut(a, k) ==
    \/ a.include # {} /\ ~MatchAny(k, a.include)
    \/ a.exclude # {} /\ MatchAny(k, a.exclude)

KeyMatch(k, other) == \A kw \in DOMAIN other : kw \in DOMAIN k /\ k[kw] = other[kw]

(* What is archived for a message that passed the filters: its key, built  *)
(* again once it was modified, and its data, which a patch does not reach. *)
Archived_OldKey(a, m) == [key |-> MessageToKey(a, m), data |-> Transform(m, a.modifiers)] \* mutant
Archived(a, m) ==
    LET t == IF a.modifiers = <<>> THEN m ELSE Transform(m, a.modifiers)
    IN  [key |-> MessageToKey(a, t), data |-> t]

(* MessageArchiver::archive: the first message with a key that is not      *)
(* expected or that the handle refuses ends the call.                      *)
ArchiveMessages(a, msgs, s) ==
    LET each(r, m) ==
            LET k == MessageToKey(a, m)
                x == Archived(a, m)
                e == Entry(x.key, r.st) @@ [data |-> x.data]
                t == FdbArchive(Root, e, [r.st EXCEPT !.calls = @ + 1])
            IN  IF ~r.ok THEN r
                ELSE IF ~KeyMatch(k, a.key) THEN [r EXCEPT !.ok = FALSE]
                ELSE IF FilterOut(a, k) THEN r
                ELSE [st |-> t.st, ok |-> t.ok,
                      acked |-> IF t.ok THEN r.acked \cup {e} ELSE r.acked]
    IN  FoldLeft(each, [st |-> s, ok |-> TRUE, acked |-> acked], msgs)

----------------------------------------------------------------------------
(* The tools.  A step of a program is a call of an archiver, with messages *)
(* that may come from the store, or a flush.                               *)

Step(a, from, requests, arg) ==
    [op |-> "archive", arch |-> a, from |-> from, requests |-> requests, arg |-> arg]
Write(a, msgs) == Step(a, "file", <<>>, msgs)
FlushStep == [op |-> "flush"]

(* fdb-write: one path after the other, flushed by the destructor. *)
WriteSteps(c) ==
    LET a == Archiver(<<>>, c.include, c.exclude, c.modifiers, <<>>)
    IN  [i \in DOMAIN c.paths |-> Write(a, Files[c.paths[i]])]

(* grib2fdb5: options with a value, and "-1" without one; a last argument  *)
(* without a value is not looked at, and nothing is done after a wrong one.*)
Checks == "-e" :> "expver" @@ "-c" :> "class" @@ "-s" :> "stream" @@ "-T" :> "type"
RECURSIVE ParseArgs(_, _)
ParseArgs(args, r) ==
    IF Len(args) < 2 THEN r
    ELSE LET rest == SubSeq(args, 3, Len(args))
             opt == args[1]
         IN  IF opt = "-f" THEN ParseArgs(rest, [r EXCEPT !.paths = Append(@, args[2])])
             ELSE IF opt = "-d" THEN ParseArgs(rest, r)
             ELSE IF opt = "-1" THEN ParseArgs(Tail(args), r)
             ELSE IF opt \in DOMAIN Checks
             THEN ParseArgs(rest, [r EXCEPT !.key = (Checks[opt] :> args[2]) @@ @])
             ELSE [r EXCEPT !.paths = <<>>]

Grib2FdbSteps(c) ==
    LET r == ParseArgs(c.args, [key |-> <<>>, paths |-> <<>>])
    IN  [i \in DOMAIN r.paths |-> Write(Archiver(r.key, <<>>, <<>>, <<>>, <<>>), Files[r.paths[i]])]

(* fdb-read: a request for each message of a file, or those of a file of   *)
(* requests, raw or with what the language adds.                           *)
ReadRequests(c) ==
    IF c.extract THEN MessageToRequests(Files[c.path])
    ELSE [i \in DOMAIN c.requests |->
             IF c.raw THEN c.requests[i] ELSE [c.requests[i] EXCEPT !.values = @ @@ Expand]]
ReadSteps(c) == <<[op |-> "read", requests |-> ReadRequests(c)]>>

CopySteps(c) == <<Step(PlainArchiver, "retrieve", c.requests, c.sort)>>
PatchSteps(c) == <<Step(Archiver(<<>>, <<>>, <<>>, <<>>, c.to), "list", c.requests, c.fail)>>

(* fdb-hammer.  The numbers of the first n parameters. *)
Params(n) ==
    LET next(p) == CHOOSE q \in (p + 1)..(p + Cardinality(Awkward) + 1) :
                        q \notin Awkward /\ \A h \in (p + 1)..(q - 1) : h \in Awkward
    IN  Tail(FoldLeft(LAMBDA s, i : Append(s, next(Last(s))), <<0>>, [i \in 1..n |-> i]))

(* The values set in the message for each member and step, level and       *)
(* parameter.                                                              *)
HammerValues(c, member, step, lev, param) ==
    (IF c.nensembles = 0 THEN <<>> ELSE "number" :> ToString(member + c.number - 1))
    @@ "step" :> ToString(step) @@ "levelist" :> ToString(lev + c.level - 1)
    @@ "param" :> ToString(param) @@ "class" :> c.class

Members(c) == IF c.nensembles = 0 THEN 1 ELSE c.nensembles
HammerLoop(c) ==
    [i \in 1..(Members(c) * c.nsteps) |->
        [j \in 1..(c.nlevels * c.nparams) |->
            HammerValues(c, (i - 1) \div c.nsteps + 1, (i - 1) % c.nsteps,
                (j - 1) \div c.nparams + 1, Params(c.nparams)[((j - 1) % c.nparams) + 1])]]

(* executeWrite: one call for each message and a flush after each step. *)
HammerSteps(c) ==
    LET writes(v) == Write(PlainArchiver, <<Transform(Files[c.path][1], v)>>)
        step(vs) == [j \in DOMAIN vs |-> writes(vs[j])] \o <<FlushStep>>
        loop == HammerLoop(c)
    IN  FlattenSeq([i \in DOMAIN loop |-> step(loop[i])])

(* executeRead: a request for each. *)
HammerRequests(c) ==
    LET rq == MessageToRequests(<<Files[c.path][1]>>)[1]
        values == FlattenSeq(HammerLoop(c))
    IN  [i \in DOMAIN values |-> [rq EXCEPT !.values = AsRequest(values[i]) @@ @]]

(* executeList: a request for each step, with all the other values; the    *)
(* numbers are there even when no member was asked for.                    *)
HammerLists(c) ==
    LET rq == MessageToRequests(<<Files[c.path][1]>>)[1].values
        range(from, n) == {ToString(from + i) : i \in 0..(n - 1)}
    IN  [i \in 1..c.nsteps |-> [all |-> FALSE, values |->
            "step" :> {ToString(i - 1)} @@ "class" :> {c.class}
            @@ "number" :> range(c.number, Members(c)) @@ "levelist" :> range(c.level, c.nlevels)
            @@ "param" :> {ToString(p) : p \in ToSet(Params(c.nparams))} @@ rq]]

Steps(c) ==
    CASE c.tool = "fdb-write" -> WriteSteps(c)
      [] c.tool = "grib2fdb5" -> Grib2FdbSteps(c)
      [] c.tool = "fdb-copy" -> CopySteps(c)
      [] c.tool = "fdb-patch" -> PatchSteps(c)
      [] c.tool = "fdb-hammer" -> HammerSteps(c)
      [] c.tool = "fdb-read" -> ReadSteps(c)

(* What the handle of a retrieve reads: all that inspect() gives for each  *)
(* request.                                                                *)
Retrieved(requests, sort) ==
    LET all == FlattenSeq([i \in DOMAIN requests |-> Query(Root, requests[i], TRUE)])
        read == FlattenSeq(Gather(all, sort))
    IN  [i \in DOMAIN read |-> read[i].data]

(* FDB::retrieve of one request, and the handles of all in turn.           *)
Sorted(rq) == "optimise" \in DOMAIN rq.values /\ rq.values["optimise"] = {"on"}
ReadAll(requests) ==
    FlattenSeq([i \in DOMAIN requests |-> Retrieved(<<requests[i]>>, Sorted(requests[i]))])

(* fdb-patch lists the keys first, each once, and retrieves them one by    *)
(* one; without any for a request it fails.                                *)
Listed(rq) == ListOf(rq, FALSE)
KeyRequests(requests) ==
    LET keys == SetToSeq({e.key : e \in UNION {ToSet(Listed(requests[i])) : i \in DOMAIN requests}})
    IN  [i \in DOMAIN keys |-> [all |-> FALSE, values |-> AsRequest(keys[i])]]

MayRun(s) == s.from # "list" \/ ~s.arg \/ \A i \in DOMAIN s.requests : Listed(s.requests[i]) # <<>>
Source(s) ==
    CASE s.from = "file" -> s.arg
      [] s.from = "retrieve" -> Retrieved(s.requests, s.arg)
      [] s.from = "list" -> Retrieved(KeyRequests(s.requests), FALSE)

----------------------------------------------------------------------------
(* The processes, one after the other over the same stores; the draw of a  *)
(* random front end is the same for all of them.                           *)

MInit ==
    /\ Init /\ asked = <<>>
    /\ prog = [line |-> NoProgram, todo |-> <<>>, ok |-> TRUE, running |-> FALSE, out |-> <<>>,
               started |-> 0, base |-> 0, faults |-> 0]

Fresh(value) == [n \in Fdbs |-> value]
Start(c) ==
    /\ ~prog.running /\ prog.started < MaxPrograms
    /\ prog' = [prog EXCEPT !.line = c, !.todo = Steps(c), !.ok = TRUE, !.running = TRUE, !.out = <<>>,
                            !.started = @ + 1, !.base = fdb.calls]
    /\ fdb' = [fdb EXCEPT !.dirty = Fresh(FALSE), !.disabled = Fresh(FALSE),
                          !.buffer = Fresh(<<>>), !.ok = TRUE]
    /\ open' = "open" /\ acked' = Durable /\ asked' = <<>>
    /\ UNCHANGED <<impl, fault>>

Advanced(ok) == [prog EXCEPT !.todo = IF ok THEN Tail(@) ELSE <<>>, !.ok = ok]

ArchiveStep ==
    /\ prog.running /\ prog.todo # <<>> /\ Head(prog.todo).op = "archive"
    /\ LET s == Head(prog.todo)
           msgs == Source(s)
           r == IF MayRun(s) THEN ArchiveMessages(s.arch, msgs, fdb)
                ELSE [st |-> fdb, ok |-> FALSE, acked |-> acked]
       IN  /\ fdb' = [r.st EXCEPT !.ok = r.ok]
           /\ acked' = r.acked
           /\ prog' = Advanced(r.ok)
           /\ asked' = IF r.ok
                       THEN asked \o [i \in DOMAIN msgs |-> [arch |-> s.arch, msg |-> msgs[i]]]
                       ELSE asked
    /\ UNCHANGED <<impl, fault, open>>

FlushProgram ==
    /\ prog.running /\ prog.todo # <<>> /\ Head(prog.todo).op = "flush"
    /\ LET r == FdbFlush(Root, [fdb EXCEPT !.flushes = @ + 1])
       IN  fdb' = [r.st EXCEPT !.ok = r.ok] /\ prog' = Advanced(r.ok)
    /\ UNCHANGED <<impl, fault, acked, open, asked>>

ReadProgram ==
    /\ prog.running /\ prog.todo # <<>> /\ Head(prog.todo).op = "read"
    /\ prog' = [Advanced(TRUE) EXCEPT !.out = ReadAll(Head(prog.todo).requests)]
    /\ UNCHANGED <<vars, asked>>

(* execute() returned or threw: the destructor of the archiver. *)
End ==
    /\ prog.running /\ prog.todo = <<>>
    /\ Destroy
    /\ prog' = [prog EXCEPT !.running = FALSE]
    /\ UNCHANGED asked

FaultWhileRunning(n, f) ==
    /\ prog.running /\ prog.faults < MaxFaults
    /\ n \in ToSet(DepthFirst(Root)) /\ IsLeaf(n) /\ fault[n] # f /\ (f = "none" \/ <<n, f>> \in Failures)
    /\ fault' = [fault EXCEPT ![n] = f]
    /\ prog' = [prog EXCEPT !.faults = @ + 1]
    /\ UNCHANGED <<impl, fdb, acked, open, asked>>

MNext ==
    \/ \E c \in Programs : Start(c)
    \/ ArchiveStep
    \/ FlushProgram
    \/ ReadProgram
    \/ End
    \/ \E n \in Fdbs, f \in {"none", "refuses", "late", "flush"} : FaultWhileRunning(n, f)

----------------------------------------------------------------------------
(* The key that a message is to be filed under: its own, and over it what  *)
(* the program was told to change, and its data.                           *)
Target(x) == x.arch.modifiers @@ x.arch.patch @@ MsgToKey(x.msg)
Data(x) == Transform(x.msg, x.arch.modifiers)
Wanted(x) ==
    LET k == x.arch.patch @@ MsgToKey(x.msg)
        within(rqs) == \E rq \in rqs : \A kw \in DOMAIN rq : kw \in DOMAIN k /\ k[kw] \in rq[kw]
    IN  (x.arch.include = {} \/ within(x.arch.include)) /\ ~within(x.arch.exclude)

WantedOnes == {i \in DOMAIN asked : Wanted(asked[i])}
FoundOf(i) ==
    \E e \in ToSet(Query(Root, [all |-> FALSE, values |-> AsRequest(Target(asked[i]))], TRUE)) :
        \E j \in WantedOnes : /\ j >= i /\ Target(asked[j]) = Target(asked[i])
                              /\ e.data = Data(asked[j])
AllTaken ==
    \A e \in Stored : \A r \in ToSet(prog.line.requests) :
        e.ver <= prog.base /\ Answers(e, r.values) =>
            \E i \in DOMAIN asked : Target(asked[i]) = asked[i].arch.patch @@ e.key

ReadIs(requests, out) ==
    /\ \A e \in Stored : \A r \in ToSet(requests) :
           Answers(e, r.values) /\ (\A x \in Stored : x.key = e.key => x.ver <= e.ver /\ ~x.late)
               => \E i \in DOMAIN out : out[i] = e.data
    /\ \A i \in DOMAIN out : \E e \in Stored, r \in ToSet(requests) :
           Answers(e, r.values) /\ e.data = out[i]

(* Of a program that ended well every message that its filters let through *)
(* is found under the key that it was to have, with its own data or that   *)
(* of a later message with this key, and no other was filed; a copy and a  *)
(* patch have taken every field that was asked for, of whatever lane;      *)
(* fdb-read saves the newest of every field asked for and no other, but of *)
(* a key whose archive threw late perhaps an older one; and                *)
(* fdb-hammer reads and lists all that it wrote.  The filters see the key  *)
(* before the modifiers change it, and the key is built again after        *)
(* (MessageArchiver.cc:195-202).                                           *)
MessagesFiled ==
    open = "closed" /\ prog.started > 0 /\ prog.ok =>
        /\ \A i \in WantedOnes : FoundOf(i)
        /\ \A e \in acked : e.ver > prog.base =>
               \E i \in WantedOnes : Target(asked[i]) = e.key /\ Data(asked[i]) = e.data
        /\ prog.line.tool \in {"fdb-copy", "fdb-patch"} => AllTaken
        /\ prog.line.tool = "fdb-read" => ReadIs(ReadRequests(prog.line), prog.out)
        /\ prog.line.tool = "fdb-hammer" =>
               /\ \A rq \in ToSet(HammerRequests(prog.line)) : Query(Root, rq, TRUE) # <<>>
               /\ \A rq \in ToSet(HammerLists(prog.line)) :
                      {e.key : e \in ToSet(ListOf(rq, FALSE))} =
                      {Target(asked[i]) : i \in {j \in DOMAIN asked :
                            Answers([key |-> Target(asked[j])], rq.values)}}
=============================================================================
