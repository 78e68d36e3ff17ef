------------------------------- MODULE Fusion -------------------------------
(***************************************************************************)
(* optimize_body on nested bodies whose endpoints do declare `batch:`      *)
(* rules.  The passes over the outermost body are actions, in the code's   *)
(* order: loop fusion, deduplication, request fusion, then liveness and    *)
(* waves and the recursion into loops and arms.  The optimized program     *)
(* then runs wave by wave next to `plain`, the outcome of the same program *)
(* compiled without any batch rule: declaring one is meant to change       *)
(* nothing but the requests on the wire.                                   *)
(***************************************************************************)
EXTENDS NestedIR

CONSTANTS
    Programs, \* the statement lists to compile
    Batching  \* the endpoints with a batch rule

VARIABLES
    source, \* the statements being compiled
    plain,  \* the run of the program compiled without batch rules
    body,   \* the outermost body
    seq,    \* the next number for a `__loopbatch_` name, program-wide
    phase,  \* the pass, or "run", or "done"
    wave,   \* the wave to run next
    run     \* the run of the optimized program

fusionVars == <<source, plain, body, seq, phase, wave, run>>

-----------------------------------------------------------------------------
\* A GET with a last segment to vary on, a binding, and no batch of its own.
Candidate(st) ==
    /\ st.op = "get" /\ st.batch /\ st.ids = <<>> /\ st.mapped = NoMap
    /\ st.bind # NoBind /\ st.id # NoExpr

LoopFusable(st, loop) ==
    /\ Candidate(st) /\ loop.var \in FreeVars(st.id)
    /\ (FreeVars(st.id) \ {loop.var}) \cap Binds(loop.body.nodes) = {}
    /\ FreeVars(st.pre) \cap (Binds(loop.body.nodes) \cup {loop.var}) = {}

LoopPlans(st) == IF st.op # "for" THEN <<>>
                 ELSE SelectSeq([i \in DOMAIN st.body.nodes |-> i],
                                LAMBDA i : LoopFusable(st.body.nodes[i].st, st))

LoopName(n) == "__loopbatch_" \o ToString(n)

\* The batched fetch put before the loop.
LoopBatch(st, loop, name) ==
    NodeOf([st EXCEPT !.id = NoExpr, !.bind = name, !.result = FALSE, !.contract = "none",
                      !.mapped = [over |-> loop.over, var |-> loop.var, key |-> st.id]],
           FreeVars(loop.over) \cup (FreeVars(st.id) \ {loop.var}))

\* What replaces a fused fetch.
ScatterOf(st, name) ==
    NodeOf([op |-> "scatter", from |-> name, value |-> st.id, bind |-> st.bind],
           {name} \cup FreeVars(st.id))

\* fuse_loops, one loop whose fetches at `plans` are batched, numbered from n.
FusedLoop(st, plans, n) ==
    LET number(i) == n + Cardinality({k \in DOMAIN plans : plans[k] < i})
        inner == [i \in DOMAIN st.body.nodes |->
                     IF Contains(plans, i)
                     THEN ScatterOf(st.body.nodes[i].st, LoopName(number(i)))
                     ELSE st.body.nodes[i]]
        loop  == [st EXCEPT !.body.nodes = WireDeps(inner)]
    IN  Append([k \in DOMAIN plans |->
                   LoopBatch(st.body.nodes[plans[k]].st, st, LoopName(n + k - 1))],
               NodeOf(loop, Reads(loop)))

\* fuse_loops, the whole body: the new nodes and the next free number.
FuseLoops(nodes, n) ==
    LET Step(acc, node) ==
            LET plans == LoopPlans(node.st)
            IN  IF plans = <<>> THEN [acc EXCEPT !.nodes = Append(@, node)]
                ELSE [nodes |-> acc.nodes \o FusedLoop(node.st, plans, acc.seq),
                      seq   |-> acc.seq + Len(plans)]
        all == FoldLeft(Step, [nodes |-> <<>>, seq |-> n], nodes)
    IN  IF \A i \in DOMAIN nodes : LoopPlans(nodes[i].st) = <<>>
        THEN [nodes |-> nodes, seq |-> n]
        ELSE [all EXCEPT !.nodes = WireDeps(@)]

-----------------------------------------------------------------------------
\* dedup_requests: a bound GET whose request, as it is rendered, and producers
\* were seen before copies the first one; a mapped batch never does.
Request(st) == [st EXCEPT !.bind = NoBind, !.result = FALSE, !.site = "", !.contract = "none",
                          !.pre = Rendered(@), !.id = Rendered(@)]
Repeats(nodes, i, j) ==
    /\ \A k \in {i, j} : nodes[k].st.op = "get" /\ nodes[k].st.bind # NoBind
                         /\ nodes[k].st.mapped = NoMap
    /\ Request(nodes[i].st) = Request(nodes[j].st)
    /\ nodes[i].deps = nodes[j].deps
Dedup(nodes) ==
    [i \in DOMAIN nodes |->
        LET firsts == {j \in 1..(i - 1) : Repeats(nodes, i, j)}
        IN  IF firsts = {} THEN nodes[i]
            ELSE LET first == nodes[Min(firsts)].st.bind
                 IN  [st |-> LetIs(nodes[i].st.bind, V(first)), reads |-> {first},
                      deps |-> {Min(firsts)}]]

-----------------------------------------------------------------------------
\* fuse_requests: the candidates by endpoint and prefix, as it is rendered.
SameGroup(a, b) ==
    /\ Candidate(a) /\ Candidate(b) /\ a.ep = b.ep /\ a.coll = b.coll
    /\ Rendered(a.pre) = Rendered(b.pre)
Group(nodes, i) == {j \in DOMAIN nodes : SameGroup(nodes[i].st, nodes[j].st)}
LeaderOf(nodes, i) == Min(Group(nodes, i))

\* Sound placement: no member's id is bound at or after the first member.
SoundPlacement(nodes, first) ==
    \A i \in Group(nodes, first) :
        FreeVars(nodes[i].st.id) \cap Binds(SubSeq(nodes, first, Len(nodes))) = {}

Leaders(nodes) == {i \in DOMAIN nodes :
    Cardinality(Group(nodes, i)) >= 2 /\ LeaderOf(nodes, i) = i /\ SoundPlacement(nodes, i)}

\* Groups are numbered within the body.
GroupName(nodes, i) ==
    "__batch_" \o ToString(Cardinality({j \in Leaders(nodes) : j < LeaderOf(nodes, i)}))

GroupBatch(nodes, i) ==
    LET members == SetToSortSeq(Group(nodes, i), <)
        ids     == [k \in DOMAIN members |-> nodes[members[k]].st.id]
    IN  NodeOf([nodes[i].st EXCEPT !.id = NoExpr, !.ids = ids, !.bind = GroupName(nodes, i)],
               UNION {FreeVars(ids[k]) : k \in DOMAIN ids})

FuseRequests(nodes) ==
    LET fused(i)   == Group(nodes, i) # {} /\ LeaderOf(nodes, i) \in Leaders(nodes)
        scatter(i) == ScatterOf(nodes[i].st, GroupName(nodes, i))
        expand(i)  == IF ~fused(i) THEN <<nodes[i]>>
                      ELSE IF i \in Leaders(nodes) THEN <<GroupBatch(nodes, i), scatter(i)>>
                      ELSE <<scatter(i)>>
    IN  IF Leaders(nodes) = {} THEN nodes
        ELSE WireDeps(FlattenSeq([i \in DOMAIN nodes |-> expand(i)]))

-----------------------------------------------------------------------------
\* liveness: what some effect needs.
Live(nodes) ==
    LET grow[n \in 0..Len(nodes)] ==
            IF n = 0 THEN {i \in DOMAIN nodes : IsEffect(nodes[i].st)}
            ELSE grow[n - 1] \cup UNION {nodes[i].deps : i \in grow[n - 1]}
    IN  grow[Len(nodes)]

\* schedule_waves: the live nodes by level.
Waves(nodes) ==
    LET live == Live(nodes)
        level[i \in DOMAIN nodes] ==
            IF nodes[i].deps \cap live = {} THEN 0
            ELSE 1 + Max({level[d] : d \in nodes[i].deps \cap live})
        levels == {level[i] : i \in live}
    IN  [k \in 1..Cardinality(levels) |-> SetToSortSeq({i \in live : level[i] = k - 1}, <)]

\* optimize_body: the passes, then the bodies inside loops and arms.
RECURSIVE Optimize(_, _)
Schedule(nodes, n) ==
    LET Inner(acc, node) ==
            IF ~Nested(node.st) THEN [acc EXCEPT !.nodes = Append(@, node)]
            ELSE LET o == Optimize(node.st.body.nodes, acc.seq)
                 IN  [nodes |-> Append(acc.nodes, [node EXCEPT !.st.body = o.body]), seq |-> o.seq]
        done == FoldLeft(Inner, [nodes |-> <<>>, seq |-> n], nodes)
    IN  [body |-> [nodes |-> done.nodes, waves |-> Waves(nodes)], seq |-> done.seq]
Optimize(nodes, n) ==
    LET loops == FuseLoops(nodes, n)
    IN  Schedule(FuseRequests(Dedup(loops.nodes)), loops.seq)

Plain(stmts) == RunBody(Optimize(LowerBody(stmts, {}).nodes, 0).body, Start)

-----------------------------------------------------------------------------
FusionInit ==
    /\ source \in Programs
    /\ plain = Plain(source)
    /\ body = LowerBody(source, Batching)
    /\ seq = 0 /\ phase = "loops" /\ wave = 1 /\ run = Start

LoopsPass ==
    /\ phase = "loops" /\ phase' = "dedup"
    /\ LET fused == FuseLoops(body.nodes, seq)
       IN  body' = [body EXCEPT !.nodes = fused.nodes] /\ seq' = fused.seq
    /\ UNCHANGED <<source, plain, wave, run>>

DedupPass ==
    /\ phase = "dedup" /\ phase' = "requests"
    /\ body' = [body EXCEPT !.nodes = Dedup(@)]
    /\ UNCHANGED <<source, plain, seq, wave, run>>

RequestsPass ==
    /\ phase = "requests" /\ phase' = "schedule"
    /\ body' = [body EXCEPT !.nodes = FuseRequests(@)]
    /\ UNCHANGED <<source, plain, seq, wave, run>>

SchedulePass ==
    /\ phase = "schedule" /\ phase' = "run"
    /\ LET optimized == Schedule(body.nodes, seq)
       IN  body' = optimized.body /\ seq' = optimized.seq
    /\ UNCHANGED <<source, plain, wave, run>>

RunNextWave ==
    /\ phase = "run" /\ run.ok /\ wave <= Len(body.waves)
    /\ run' = RunWave(body, body.waves[wave], run)
    /\ wave' = wave + 1
    /\ UNCHANGED <<source, plain, body, seq, phase>>

EndRun ==
    /\ phase = "run" /\ (~run.ok \/ wave > Len(body.waves))
    /\ phase' = "done"
    /\ UNCHANGED <<source, plain, body, seq, wave, run>>

FusionNext == LoopsPass \/ DedupPass \/ RequestsPass \/ SchedulePass \/ RunNextWave \/ EndRun

FusionSpec == FusionInit /\ [][FusionNext]_fusionVars
=============================================================================
