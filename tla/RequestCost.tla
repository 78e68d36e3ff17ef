---------------------------- MODULE RequestCost -----------------------------
(***************************************************************************)
(* The static cost analysis (cost.rs) on optimized programs, and the       *)
(* budgets checked against it.                                             *)
(***************************************************************************)
EXTENDS Schedules

LatMax(m, n) == IF Undeclared \in {m, n} THEN Undeclared ELSE Larger(m, n)

Bug_SlowestWaveOnly(m, n) == LatMax(m, n)
LatAdd(m, n) == IF Undeclared \in {m, n} THEN Undeclared ELSE m + n

\* Cost::default
NoCost == [requests |-> 0, parallel |-> 0, depth |-> 0, latency |-> 0, unbounded |-> FALSE]

\* Cost::join_alt: only one of the two runs.
JoinAlt(c, d) ==
    [requests  |-> Larger(c.requests, d.requests),
     parallel  |-> Larger(c.parallel, d.parallel),
     depth     |-> Larger(c.depth, d.depth),
     latency   |-> LatMax(c.latency, d.latency),
     unbounded |-> c.unbounded \/ d.unbounded]

\* The waves of a body run one after the other.
Bug_DepthsDoNotAdd(c, d) == [JoinAlt(c, d) EXCEPT !.requests = c.requests + d.requests,
                                                  !.latency = LatAdd(c.latency, d.latency)]
InSequence(c, d) ==
    [requests  |-> c.requests + d.requests,
     parallel  |-> Larger(c.parallel, d.parallel),
     depth     |-> c.depth + d.depth,
     latency   |-> LatAdd(c.latency, d.latency),
     unbounded |-> c.unbounded \/ d.unbounded]

RetryCost == [requests |-> MaxRetries, parallel |-> 1, depth |-> MaxRetries,
              latency |-> 0, unbounded |-> FALSE]

\* One iteration's cost; any request in it makes the total unbounded.
LoopCost(inner) ==
    LET asks == inner.requests > 0 \/ inner.unbounded
    IN  [inner EXCEPT !.latency = IF asks THEN Undeclared ELSE @, !.unbounded = asks]

\* The fetches of a wave: as many requests, one hop, as slow as the slowest.
FetchesCost(lats) ==
    [requests  |-> Len(lats),
     parallel  |-> Len(lats),
     depth     |-> IF lats = <<>> THEN 0 ELSE 1,
     latency   |-> IF Undeclared \in Range(lats) THEN Undeclared ELSE Slowest(lats),
     unbounded |-> FALSE]

\* What a wave adds up to: its members are taken to run at the same time, so
\* only their requests are summed.
Together(c, d) == [JoinAlt(c, d) EXCEPT !.requests = c.requests + d.requests]

Bug_MatchIsItsLastArm(c, d) == d
Alternatives(c, d) == JoinAlt(c, d)

\* The cost of waves that run one after the other.
Total(costs) ==
    LET upTo[n \in 0..Len(costs)] ==
            IF n = 0 THEN NoCost ELSE InSequence(upTo[n - 1], costs[n])
    IN  upTo[Len(costs)]

\* The cost of a match, by its arms.
Dearest(costs) ==
    LET upTo[n \in 0..Len(costs)] ==
            IF n = 0 THEN NoCost ELSE Alternatives(upTo[n - 1], costs[n])
    IN  upTo[Len(costs)]

\* What follows is told by cost what each body costs, by the flows being
\* visited on the way to it.
ArmCost(cost, a, visiting) ==
    CASE a.kind = "value" -> NoCost
      [] a.kind = "body"  -> cost[<<a.body, visiting>>]
      [] a.kind = "retry" -> RetryCost

\* A flow being visited is not entered again.
EffectCost(p, cost, e, visiting) ==
    CASE e.kind = "call" ->
            IF e.flow \in visiting \/ e.flow \notin DOMAIN p.flows THEN NoCost
            ELSE cost[<<p.flows[e.flow], visiting \cup {e.flow}>>]
      [] e.kind = "match" ->
            Dearest([k \in DOMAIN e.arms |-> ArmCost(cost, e.arms[k], visiting)])
      [] e.kind = "for" -> LoopCost(cost[<<e.body, visiting>>])
      [] OTHER -> NoCost

WaveCosts(p, cost, b, visiting) ==
    [i \in DOMAIN b |->
        Together(FetchesCost(b[i].fetches), EffectCost(p, cost, b[i].effect, visiting))]

\* body_cost
BodyCost(p) ==
    LET cost[x \in p.bodies \X SUBSET DOMAIN p.flows] == Total(WaveCosts(p, cost, x[1], x[2]))
    IN  cost

RequestCostOf(p) == BodyCost(p)[<<p.main, {}>>]

-----------------------------------------------------------------------------
\* check_one: what a `budget(..)` clause declares is accepted.
NoBudget == [requests |-> Undeclared, parallel |-> Undeclared, hops |-> Undeclared,
             p99 |-> Undeclared]

Within(n, bound) == bound # Undeclared => n <= bound

Accepts(cost, budget) ==
    /\ budget # NoBudget => ~cost.unbounded
    /\ Within(cost.requests, budget.requests)
    /\ Within(cost.parallel, budget.parallel)
    /\ Within(cost.depth, budget.hops)
    /\ budget.p99 # Undeclared => cost.latency # Undeclared /\ cost.latency <= budget.p99
=============================================================================
