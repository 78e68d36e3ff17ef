------------------------------ MODULE Budgets -------------------------------
(***************************************************************************)
(* What an accepted budget says of the executions (cost.rs with exec.rs).  *)
(***************************************************************************)
EXTENDS Interpreter, RequestCost

Cost == RequestCostOf(program)

CostOf(b) == BodyCost(program)[<<b, {}>>]
EffectOf(w) == EffectCost(program, BodyCost(program), w.effect, {})

\* What running b can run: the bodies nested in it and the flows it calls.
Runs(b) ==
    Inside(b) \cup {program.flows[n] : n \in
        {n \in DOMAIN program.flows :
            \E i \in DOMAIN b : b[i].effect.kind = "call" /\ b[i].effect.flow = n}}

RunsAll(S) == \A b \in S : Runs(b) \subseteq S

\* No flow calls itself, directly or through others: the analysis counts such a
\* call as free.
FlowsDoNotRecur ==
    \A n \in DOMAIN program.flows :
        \E S \in SUBSET program.bodies :
            /\ Runs(program.flows[n]) \subseteq S /\ RunsAll(S)
            /\ program.flows[n] \notin S

\* No wave fetches next to a call, match or loop that fetches too.
NoMixedWave == \A w \in Waves : w.fetches = <<>> \/ EffectOf(w).requests = 0

\* A match that can run its fetch again does little else.
RetriesAlone ==
    \A w \in Waves : w.effect.kind = "match" /\ w.effect.fetched =>
        LET arms == {w.effect.arms[k] : k \in DOMAIN w.effect.arms}
        IN  (\E a \in arms : a.kind = "retry") =>
                \A a \in arms : a.kind = "body" => CostOf(a.body).requests <= 1

Declared(field, n) == [NoBudget EXCEPT ![field] = n]

\* A budget on requests that the compiler accepts is kept by every execution,
\* whichever arms it takes and also when it fails halfway.
RequestsKept ==
    \A n \in 0..sent : 
        Accepts(Cost, Declared("requests", n)) /\ FlowsDoNotRecur /\ RetriesAlone => sent <= n

\* There are never more requests on the wire than an accepted budget on
\* parallel requests allows.
ParallelKept == \A n \in 0..open : Accepts(Cost, Declared("parallel", n)) => open <= n

\* An execution never waits for more rounds of requests than an accepted budget
\* on hops allows.
HopsKept ==
    \A n \in 0..rounds :
        Accepts(Cost, Declared("hops", n)) /\ FlowsDoNotRecur /\ NoMixedWave /\ RetriesAlone
            => rounds <= n

\* An accepted p99 bounds the declared latencies along an execution.
LatencyKept ==
    \A n \in 0..busy :
        Accepts(Cost, Declared("p99", n)) /\ FlowsDoNotRecur /\ NoMixedWave => busy <= n

\* The promise of RequestsKept for every program: cost.rs calls max_requests "an
\* upper bound on how many network requests any execution path can issue".
RequestsKeptAlways == \A n \in 0..sent : Accepts(Cost, Declared("requests", n)) => sent <= n
=============================================================================
