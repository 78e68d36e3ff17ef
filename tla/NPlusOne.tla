------------------------------ MODULE NPlusOne ------------------------------
(***************************************************************************)
(* The N+1 detector (nplus1.rs), which reads the source before the         *)
(* optimizer does, and what it and request fusion promise together.        *)
(***************************************************************************)
EXTENDS Fusion

CONSTANT Declaring \* the endpoints with any `batch:` setting, well-formed or not

ASSUME RulesAssumption == Batching \subseteq Declaring

\* Flow: what came from the network, and what varies with a loop element.
NoTaint == [network |-> {}, loop |-> {}]

With(set, x, there) == IF there THEN set \cup {x} ELSE set \ {x}
Meets(set, other)   == set \cap other # {}

\* Detector::assign
Assign(flow, x, from) ==
    [network |-> With(flow.network, x, Meets(from, flow.network)),
     loop    |-> With(flow.loop, x, Meets(from, flow.loop))]

\* auto_fusable: the shapes the detector leaves to the optimizer.
Bug_AnyLiteralPrefix(s, var) ==
    /\ s.ep \in Declaring /\ s.bind # NoBind /\ s.id # NoExpr
    /\ var \in FreeVars(s.id)
AutoFusable(s, var) ==
    /\ s.ep \in Declaring /\ s.bind # NoBind /\ s.id # NoExpr
    /\ FreeVars(s.pre) = {} /\ FreeVars(s.id) = {var}

DependsOnLoop(s, flow, loops) == Meets(FreeVars(s.pre) \cup FreeVars(s.id), flow.loop)

Verdict(s, flow, loops) ==
    IF loops = <<>> THEN {}
    ELSE {[site |-> s.site,
           kind |-> IF ~DependsOnLoop(s, flow, loops) THEN "invariant"
                    ELSE IF AutoFusable(s, Last(loops)) THEN "silent" ELSE "n+1"]}
FetchFlow(s, flow, loops) ==
    IF s.bind = NoBind THEN flow
    ELSE [network |-> flow.network \cup {s.bind},
          loop    |-> With(flow.loop, s.bind, DependsOnLoop(s, flow, loops))]

\* visit_for: the element varies, and is network data iff its collection is.
LoopFlow(s, flow) ==
    [network |-> With(flow.network, s.var, Meets(FreeVars(s.over), flow.network)),
     loop    |-> flow.loop \cup {s.var}]

\* visit_match: a pattern variable inherits what the scrutinee is.
ArmFlow(s, flow) ==
    [network |-> flow.network \cup (IF Meets(FreeVars(s.on), flow.network) THEN {s.var} ELSE {}),
     loop    |-> flow.loop \cup (IF Meets(FreeVars(s.on), flow.loop) THEN {s.var} ELSE {})]

\* walk: loops and arms get a copy of the flow, so nothing leaks out of them.
RECURSIVE Walk(_, _, _)
WalkStmt(s, acc, loops) ==
    LET verdicts(set) == [acc EXCEPT !.verdicts = @ \cup set]
    IN  CASE s.op = "get"   -> [flow |-> FetchFlow(s, acc.flow, loops),
                                verdicts |-> acc.verdicts \cup Verdict(s, acc.flow, loops)]
          [] s.op = "let"   -> [acc EXCEPT !.flow = Assign(@, s.bind, FreeVars(s.value))]
          [] s.op = "log"   -> acc
          [] s.op = "for"   -> verdicts(Walk(s.body, LoopFlow(s, acc.flow), Append(loops, s.var)))
          [] s.op = "match" -> verdicts(Walk(s.body, ArmFlow(s, acc.flow), loops))
Walk(stmts, flow, loops) ==
    FoldLeft(LAMBDA acc, s : WalkStmt(s, acc, loops), [flow |-> flow, verdicts |-> {}], stmts).verdicts

Detected(kind) == {v.site : v \in {w \in Walk(source, NoTaint, <<>>) : w.kind = kind}}

-----------------------------------------------------------------------------
(***************************************************************************)
(* The shapes the properties are restricted to, and why.                   *)
(***************************************************************************)
\* The statements of a program, with the loops around them and whether they
\* are in an arm of their innermost loop.
RECURSIVE Places(_, _, _)
Places(stmts, depth, inArm) ==
    UNION {{[st |-> s, depth |-> depth, inArm |-> inArm]}
           \cup (CASE s.op = "for"   -> Places(s.body, depth + 1, FALSE)
                   [] s.op = "match" -> Places(s.body, depth, depth > 0)
                   [] OTHER -> {}) : s \in ToSet(stmts)}
All == Places(source, 0, FALSE)
Gets == {p \in All : p.st.op = "get"}

\* The names a program binds, one entry per place.
RECURSIVE Binders(_)
Binders(stmts) ==
    FlattenSeq([i \in DOMAIN stmts |->
        <<stmts[i].bind>> \o (IF Nested(stmts[i]) THEN <<stmts[i].var>> \o Binders(stmts[i].body)
                              ELSE <<>>)])
Bound == SelectSeq(Binders(source), LAMBDA x : x # NoBind)

\* Rebinding is a hazard of the schedule, not of fusion (Executor.tla).
BindsOnce == \A i, j \in DOMAIN Bound : Bound[i] = Bound[j] => i = j
\* A batched fetch does not list its prefix variables among its reads, so
\* nothing makes it wait for a statement that binds one.
PrefixesAreGiven == \A p \in Gets, q \in All : q.st.bind \notin FreeVars(p.st.pre)
\* Batching a `Result` binding loses the wrapping.
NoResults == \A p \in Gets : p.st.ep \in Batching => ~p.st.result

\* Static groups are numbered per body, but all bodies share one environment.
RECURSIVE Generated(_)
Generated(nodes) ==
    FlattenSeq([i \in DOMAIN nodes |->
        (IF nodes[i].st.op = "get" /\ nodes[i].st.ids # <<>> THEN <<nodes[i].st>> ELSE <<>>)
        \o (IF Nested(nodes[i].st) THEN Generated(nodes[i].st.body.nodes) ELSE <<>>)])
NamesDiffer == \A i, j \in DOMAIN Generated(body.nodes) :
                   Generated(body.nodes)[i].bind = Generated(body.nodes)[j].bind => i = j

\* A static batch takes over the contract of its first member, and an array has
\* none of the fields that a contract requires.
NothingRequired == \A i \in DOMAIN Generated(body.nodes) :
                       Generated(body.nodes)[i].contract # "required"

\* An id is looked up with the type the program has for it, whatever the type
\* the service writes it in.
KeysAsWritten ==
    \A p \in Gets, r \in ToSet(plain.sent) :
        p.st.ep \in Batching /\ r.site = p.st.site /\ r.id # Absent /\ IsKnown(r.id)
            => r.key = Keyed(r.coll, r.id)

\* Prefixes are grouped by their rendering, which drops parentheses.
PrefixesRenderApart ==
    \A p, q \in Gets : Rendered(p.st.pre) = Rendered(q.st.pre) => p.st.pre = q.st.pre

\* A fused loop asks before it knows whether an iteration would have: a result
\* the loop does not use, or a second fetch of the same element, costs a
\* request of its own.
UsedVars == UNION {CASE p.st.op = "get" -> FreeVars(p.st.pre) \cup FreeVars(p.st.id)
                     [] p.st.op \in {"log", "let"} -> FreeVars(p.st.value)
                     [] p.st.op = "for" -> FreeVars(p.st.over)
                     [] p.st.op = "match" -> FreeVars(p.st.on) : p \in All}
LoopFetchesCount ==
    /\ \A p \in Gets : p.depth > 0 => p.st.bind \in UsedVars
    /\ \A p, q \in Gets : p.depth > 0 /\ q.depth > 0 /\ p # q => p.st.id # q.st.id

Ended == phase = "done"
-----------------------------------------------------------------------------



\* A per-element fetch the detector says nothing about is sent batched or not
\* at all, unless an arm hides it from the optimizer.
SilentIsBatched ==
    Ended => \A p \in Gets :
        p.st.site \in Detected("silent") /\ ~p.inArm /\ p.st.ep \in Batching =>
            \A r \in ToSet(run.sent) : r.site = p.st.site => r.ids # <<>>
=============================================================================
