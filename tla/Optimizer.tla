----------------------------- MODULE Optimizer ------------------------------
(***************************************************************************)
(* optimize_body on one body whose endpoints declare no `batch:` rule, so  *)
(* that fuse_loops and fuse_requests return at once.  The passes run in    *)
(* the code's order, one action per iteration of their loops:              *)
(*                                                                         *)
(*   wire     compute_deps: a node depends on the latest earlier writer of *)
(*            each variable it reads, an effect also on the last effect    *)
(*   scan     dedup_requests, first loop: collect the GETs whose signature *)
(*            was seen before                                              *)
(*   rewrite  dedup_requests, second loop: turn each into `let b = a`      *)
(*   roots    liveness: every effect is live                               *)
(*   mark     liveness: propagate to dependencies through a worklist       *)
(*   level    schedule_waves: one pass that levels the live nodes          *)
(*   done     level and depth are the wave schedule                        *)
(***************************************************************************)
EXTENDS Straightline

VARIABLES
    src,        \* the statements being compiled
    nodes,      \* Body::nodes
    phase,      \* the pass that is running
    cursor,     \* the loop index of that pass
    deps,       \* Node::deps
    lastWriter, \* variable -> the node that bound it last
    lastEffect, \* the last effect wired, 0 for None
    seen,       \* signature -> the first node that issued that request
    rewrites,   \* the pairs <<duplicate, first>> still to be rewritten
    live,       \* Node::live
    worklist,   \* the stack of liveness
    level,      \* schedule_waves: level[i]
    lvl,        \* ... the level of the node at the cursor so far
    todo,       \* ... its dependencies not looked at yet
    depth       \* Body::waves.len()

optVars == <<src, nodes, phase, cursor, deps, lastWriter, lastEffect, seen,
             rewrites, live, worklist, level, lvl, todo, depth>>

Ids == 1..Len(src)

OptInit ==
    /\ src \in Sources
    /\ nodes = LowerStmts(src)
    /\ phase = "wire"
    /\ cursor = 1
    /\ deps = [i \in Ids |-> {}]
    /\ lastWriter = Nothing
    /\ lastEffect = 0
    /\ seen = [s \in {} |-> 0]
    /\ rewrites = {}
    /\ live = {}
    /\ worklist = {}
    /\ level = [i \in Ids |-> 0]
    /\ lvl = 0
    /\ todo = {}
    /\ depth = 0

-----------------------------------------------------------------------------
\* The latest earlier writers of what a node reads.
Writers(n) == {lastWriter[r] : r \in n.reads \cap DOMAIN lastWriter}

\* An effect also depends on the previous effect.
Bug_NoEffectChain(n) == {}
EffectChain(n) == IF n.effect /\ lastEffect # 0 THEN {lastEffect} ELSE {}

\* compute_deps, one node.
WireNode ==
    /\ phase = "wire" /\ cursor \in Ids
    /\ LET n == nodes[cursor]
       IN  /\ deps' = [deps EXCEPT ![cursor] = Writers(n) \cup EffectChain(n)]
           /\ lastEffect' = IF n.effect THEN cursor ELSE lastEffect
           /\ lastWriter' = Insert(lastWriter, n.bind, cursor)
    /\ cursor' = cursor + 1
    /\ UNCHANGED <<src, nodes, phase, seen, rewrites, live, worklist, level,
                   lvl, todo, depth>>

WireDone ==
    /\ phase = "wire" /\ cursor \notin Ids
    /\ phase' = "scan" /\ cursor' = 1
    /\ UNCHANGED <<src, nodes, deps, lastWriter, lastEffect, seen, rewrites,
                   live, worklist, level, lvl, todo, depth>>

\* fetch_sig: equal for two GETs with the same rendering and the same producers.
Bug_SignatureWithoutProducers(i) == <<Rendering[nodes[i].text], nodes[i].reads>>
Bug_SignatureWithBinding(i) == <<Rendering[nodes[i].text], nodes[i].reads, deps[i], nodes[i].bind>>
Signature(i) == <<Rendering[nodes[i].text], nodes[i].reads, deps[i]>>

\* Only a GET is safe to deduplicate, and only with a binding is it remembered
\* (as the first of its signature) or rewritten (as a later one).
Bug_MutationsToo(n) == IsFetch(n) /\ n.bind # NoVar
Dedupable(n) == IsFetch(n) /\ n.method = "GET" /\ n.bind # NoVar

\* dedup_requests, one node.
ScanNode ==
    /\ phase = "scan" /\ cursor \in Ids
    /\ LET sig == Signature(cursor)
       IN  IF Dedupable(nodes[cursor])
           THEN IF sig \in DOMAIN seen
                THEN /\ rewrites' = rewrites \cup {<<cursor, seen[sig]>>}
                     /\ UNCHANGED seen
                ELSE /\ seen' = [s \in DOMAIN seen \cup {sig} |->
                                    IF s = sig THEN cursor ELSE seen[s]]
                     /\ UNCHANGED rewrites
           ELSE UNCHANGED <<seen, rewrites>>
    /\ cursor' = cursor + 1
    /\ UNCHANGED <<src, nodes, phase, deps, lastWriter, lastEffect, live,
                   worklist, level, lvl, todo, depth>>

ScanDone ==
    /\ phase = "scan" /\ cursor \notin Ids
    /\ phase' = "rewrite"
    /\ UNCHANGED <<src, nodes, cursor, deps, lastWriter, lastEffect, seen,
                   rewrites, live, worklist, level, lvl, todo, depth>>

\* The duplicate becomes `let b = first_bind`, depending on the first alone.
Alias(n, first) == [kind |-> "alias", method |-> "none", text |-> n.text, reads |-> {first},
                    bind |-> n.bind, result |-> n.result, effect |-> n.effect]

RewriteOne ==
    /\ phase = "rewrite"
    /\ \E r \in rewrites :
          /\ nodes' = [nodes EXCEPT ![r[1]] = Alias(nodes[r[1]], nodes[r[2]].bind)]
          /\ deps' = [deps EXCEPT ![r[1]] = {r[2]}]
          /\ rewrites' = rewrites \ {r}
    /\ UNCHANGED <<src, phase, cursor, lastWriter, lastEffect, seen, live,
                   worklist, level, lvl, todo, depth>>

RewriteDone ==
    /\ phase = "rewrite" /\ rewrites = {}
    /\ phase' = "roots"
    /\ UNCHANGED <<src, nodes, cursor, deps, lastWriter, lastEffect, seen,
                   rewrites, live, worklist, level, lvl, todo, depth>>

\* The observable nodes.
Bug_EveryFetchIsARoot == {i \in Ids : nodes[i].effect \/ IsFetch(nodes[i])}
Roots == {i \in Ids : nodes[i].effect}

\* liveness, first loop.
MarkRoots ==
    /\ phase = "roots"
    /\ live' = Roots
    /\ worklist' = live'
    /\ phase' = "mark"
    /\ UNCHANGED <<src, nodes, cursor, deps, lastWriter, lastEffect, seen,
                   rewrites, level, lvl, todo, depth>>

\* What a popped node makes live.
Bug_OneLevelOnly(i) == {}
NewlyLive(i) == deps[i] \ live

\* liveness, one pop.  The code pops a stack; the result does not depend on
\* the order, so any member may be next.
MarkDeps ==
    /\ phase = "mark"
    /\ \E i \in worklist :
          /\ live' = live \cup deps[i]
          /\ worklist' = (worklist \ {i}) \cup NewlyLive(i)
    /\ UNCHANGED <<src, nodes, phase, cursor, deps, lastWriter, lastEffect,
                   seen, rewrites, level, lvl, todo, depth>>

\* schedule_waves starts its forward pass.
MarkDone ==
    /\ phase = "mark" /\ worklist = {}
    /\ phase' = "level" /\ cursor' = 1
    /\ lvl' = 0
    /\ todo' = IF 1 \in Ids THEN deps[1] ELSE {}
    /\ UNCHANGED <<src, nodes, deps, lastWriter, lastEffect, seen, rewrites,
                   live, worklist, level, depth>>

\* lvl.max(level[d] + 1), for a live dependency.
Bug_SameLevel(d) == IF d \in live /\ level[d] > lvl THEN level[d] ELSE lvl
RaisedLevel(d) == IF d \in live /\ level[d] + 1 > lvl THEN level[d] + 1 ELSE lvl

\* schedule_waves, inner loop.
RaiseLevel ==
    /\ phase = "level" /\ cursor \in Ids /\ cursor \in live
    /\ \E d \in todo :
          /\ lvl' = RaisedLevel(d)
          /\ todo' = todo \ {d}
    /\ UNCHANGED <<src, nodes, phase, cursor, deps, lastWriter, lastEffect,
                   seen, rewrites, live, worklist, level, depth>>

Bug_SkipsANode == cursor + 2
Bug_StuckOnDead == IF cursor \in live THEN cursor + 1 ELSE cursor
NextNode == cursor + 1

\* schedule_waves, end of one outer iteration; a dead node is skipped.  The
\* number of waves is one more than the largest level, and an empty body has
\* none (waves.retain drops its only, empty, wave).
LevelNode ==
    /\ phase = "level" /\ cursor \in Ids
    /\ \/ /\ cursor \in live /\ todo = {}
          /\ level' = [level EXCEPT ![cursor] = lvl]
          /\ depth' = IF lvl + 1 > depth THEN lvl + 1 ELSE depth
       \/ /\ cursor \notin live
          /\ UNCHANGED <<level, depth>>
    /\ cursor' = NextNode
    /\ lvl' = 0
    /\ todo' = IF NextNode \in Ids THEN deps[NextNode] ELSE {}
    /\ UNCHANGED <<src, nodes, phase, deps, lastWriter, lastEffect, seen,
                   rewrites, live, worklist>>

LevelDone ==
    /\ phase = "level" /\ cursor \notin Ids
    /\ phase' = "done"
    /\ UNCHANGED <<src, nodes, cursor, deps, lastWriter, lastEffect, seen,
                   rewrites, live, worklist, level, lvl, todo, depth>>

OptNext ==
    \/ WireNode \/ WireDone
    \/ ScanNode \/ ScanDone
    \/ RewriteOne \/ RewriteDone
    \/ MarkRoots \/ MarkDeps \/ MarkDone
    \/ RaiseLevel \/ LevelNode \/ LevelDone

\* The passes are plain loops: nothing can stop them between two iterations.
OptSpec == OptInit /\ [][OptNext]_optVars /\ WF_optVars(OptNext)

\* Wave w of the schedule, 0-based; its nodes run in id order.
Wave(w) == {i \in live : level[i] = w}

-----------------------------------------------------------------------------
Done == phase = "done"

OptTypeOK ==
    /\ src \in Sources
    /\ nodes \in [Ids -> Node]
    /\ phase \in {"wire", "scan", "rewrite", "roots", "mark", "level", "done"}
    /\ cursor \in 1..(Len(src) + 1)
    /\ deps \in [Ids -> SUBSET Ids]
    /\ DOMAIN lastWriter \subseteq Var /\ \A r \in DOMAIN lastWriter : lastWriter[r] \in Ids
    /\ lastEffect \in 0..Len(src)
    /\ \A s \in DOMAIN seen : seen[s] \in Ids
    /\ rewrites \subseteq Ids \X Ids
    /\ live \subseteq Ids /\ worklist \subseteq Ids
    /\ level \in [Ids -> Nat] /\ lvl \in Nat /\ depth \in Nat
    /\ todo \subseteq Ids

\* Effects never share a wave and their waves follow the program: the order of
\* logs, assertions, mutations and the return survives the reordering of pure
\* computations around them.
EffectsSerialized ==
    Done => \A a, b \in Ids :
        IsEffect(src[a]) /\ IsEffect(src[b]) /\ a < b
            => level[a] < level[b]

\* A scheduled node runs in a later wave than the statement that produced each
\* variable it reads, and that producer is scheduled; a deduplicated fetch, in
\* a later wave than the fetch it copies.
ProducersRunEarlier ==
    Done => \A i \in live :
        IF nodes[i].kind = "alias"
        THEN \E f \in live : /\ WrittenAlike(src, i, f) /\ deps[i] = {f}
                              /\ level[f] < level[i]
        ELSE \A d \in Needs(src, i) : d \in live /\ level[d] < level[i]

\* Nothing an effect needs is eliminated, not even through the inputs of a
\* fetch that deduplication rewrote.
NothingObservableDropped == Done => Observed(src) \subseteq live

\* No request is sent that nobody asked for: a scheduled fetch is observed, or
\* stands for one that is written alike and is.
NoUnobservedRequest ==
    Done => \A i \in live : IsFetch(nodes[i]) =>
        i \in Observed(src) \/ \E j \in Observed(src) : WrittenAlike(src, i, j)

\* Deduplication only reuses the result of an earlier request that is written
\* alike and whose inputs come from the same producers.  Where the rendering
\* tells the body's requests apart, that is the very same request.
DedupKeepsInputs ==
    Done => \A i \in Ids : nodes[i].kind = "alias" =>
        \E f \in deps[i] : /\ f < i /\ IsFetch(nodes[f]) /\ WrittenAlike(src, f, i)
                           /\ RenderedApart(src) => SameRequest(src, f, i)

\* "Equal iff two fetches would issue the exact same request with the exact
\* same inputs" (fetch_sig): what is reused is the answer to that request.
ReusedIsIdentical ==
    Done => \A i \in Ids : nodes[i].kind = "alias" =>
        \E f \in deps[i] : SameRequest(src, f, i)

\* "The same URL is never hit twice": no two scheduled GETs are the same
\* request with the same inputs.
NoDuplicateRequest ==
    Done => \A i, j \in live :
        i # j /\ IsFetch(nodes[i]) /\ IsFetch(nodes[j]) => ~SameRequest(src, i, j)

\* A mutation is never deduplicated and never eliminated.
MutationsSurvive ==
    Done => \A i \in Ids : src[i].kind = "fetch" /\ src[i].method # "GET"
        => IsFetch(nodes[i]) /\ i \in live

\* The passes end on every body.
OptTerminates == <>Done
=============================================================================
