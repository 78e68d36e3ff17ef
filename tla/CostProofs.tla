----------------------------- MODULE CostProofs -----------------------------
(***************************************************************************)
(* The static cost analysis computes what its equations say, for every     *)
(* program: it ends, on recursive flows too, and the cost of a body is the *)
(* sum of its waves, each the fetches and the effect in it.                *)
(***************************************************************************)
EXTENDS RequestCost, FiniteSetTheorems, WellFoundedInduction, TLAPS

\* Every set of naturals that is not empty has a least member.
LEMMA LeastNatural ==
    ASSUME NEW T, T \subseteq Nat, T # {}
    PROVE  \E n \in T : \A m \in T : n <= m
<1> DEFINE Less == OpToRel(<, Nat)
<1>1. IsWellFoundedOn(Less, Nat)
    BY NatLessThanWellFounded
<1>2. PICK n \in T : \A m \in T : <<m, n>> \notin Less
    <2> HIDE DEF Less
    <2> QED BY <1>1, WFMin
<1>3. \A m \in T : ~(m < n)
    BY <1>2 DEF OpToRel
<1> QED BY <1>3

\* Induction, with a set in the place of the predicate.
LEMMA SetInduction ==
    ASSUME NEW S, 0 \in S, \A n \in Nat : n \in S => n + 1 \in S
    PROVE  Nat \subseteq S
<1> SUFFICES ASSUME Nat \ S # {} PROVE FALSE
    OBVIOUS
<1>1. PICK n \in Nat \ S : \A m \in Nat \ S : n <= m
    BY LeastNatural
<1>2. n # 0 /\ n - 1 \in Nat /\ n - 1 \in S
    BY <1>1
<1> QED BY <1>1, <1>2

-----------------------------------------------------------------------------
(* What one cost is made of.                                               *)

\* A hop takes a request, and what asks nothing takes no time.
Costs ==
    {c \in [requests : Nat, parallel : Nat, depth : Nat, latency : Nat \cup {Undeclared},
            unbounded : BOOLEAN] :
        c.depth <= c.requests /\ (c.requests = 0 => c.latency = 0 /\ ~c.unbounded)}

\* Every way to combine two costs gives a cost.
LEMMA CombinedCosts ==
    ASSUME NEW c \in Costs, NEW d \in Costs
    PROVE  /\ JoinAlt(c, d) \in Costs /\ Alternatives(c, d) \in Costs
           /\ InSequence(c, d) \in Costs /\ Together(c, d) \in Costs /\ LoopCost(c) \in Costs
<1> USE DEF Undeclared
<1>1. /\ c.requests \in Nat /\ c.parallel \in Nat /\ c.depth \in Nat
      /\ c.latency \in Nat \cup {-1} /\ c.unbounded \in BOOLEAN
      /\ c.depth <= c.requests /\ (c.requests = 0 => c.latency = 0 /\ ~c.unbounded)
    BY DEF Costs
<1>2. /\ d.requests \in Nat /\ d.parallel \in Nat /\ d.depth \in Nat
      /\ d.latency \in Nat \cup {-1} /\ d.unbounded \in BOOLEAN
      /\ d.depth <= d.requests /\ (d.requests = 0 => d.latency = 0 /\ ~d.unbounded)
    BY DEF Costs
<1>3. LatMax(c.latency, d.latency) \in Nat \cup {-1} /\ LatAdd(c.latency, d.latency) \in Nat \cup {-1}
    BY <1>1, <1>2 DEF LatMax, LatAdd, Larger
<1>4. /\ Larger(c.requests, d.requests) \in Nat /\ Larger(c.parallel, d.parallel) \in Nat
      /\ Larger(c.depth, d.depth) \in Nat /\ (c.unbounded \/ d.unbounded) \in BOOLEAN
    BY <1>1, <1>2 DEF Larger
<1>5. c.requests = 0 /\ d.requests = 0 =>
          LatMax(c.latency, d.latency) = 0 /\ LatAdd(c.latency, d.latency) = 0
    BY <1>1, <1>2 DEF LatMax, LatAdd, Larger
<1>6. JoinAlt(c, d) \in Costs
    <2>1. /\ Larger(c.depth, d.depth) <= Larger(c.requests, d.requests)
          /\ Larger(c.requests, d.requests) = 0 => c.requests = 0 /\ d.requests = 0
        BY <1>1, <1>2 DEF Larger
    <2> QED BY <1>1, <1>2, <1>3, <1>4, <1>5, <2>1 DEF JoinAlt, Costs
<1>7. Together(c, d) \in Costs
    <2>1. /\ Larger(c.depth, d.depth) <= c.requests + d.requests /\ c.requests + d.requests \in Nat
          /\ c.requests + d.requests = 0 => c.requests = 0 /\ d.requests = 0
        BY <1>1, <1>2 DEF Larger
    <2> QED BY <1>1, <1>2, <1>3, <1>4, <1>5, <2>1 DEF Together, JoinAlt, Costs
<1>8. InSequence(c, d) \in Costs
    <2>1. /\ c.depth + d.depth <= c.requests + d.requests /\ c.requests + d.requests \in Nat
          /\ c.depth + d.depth \in Nat
          /\ c.requests + d.requests = 0 => c.requests = 0 /\ d.requests = 0
        BY <1>1, <1>2
    <2> QED BY <1>1, <1>2, <1>3, <1>4, <1>5, <2>1 DEF InSequence, Costs
<1>9. LoopCost(c) \in Costs
    <2> DEFINE asks == c.requests > 0 \/ c.unbounded
               inner == [c EXCEPT !.latency = IF asks THEN Undeclared ELSE @, !.unbounded = asks]
    <2>1. c \in [requests : Nat, parallel : Nat, depth : Nat, latency : Nat \cup {-1},
                 unbounded : BOOLEAN]
        BY DEF Costs
    <2>2. asks \in BOOLEAN /\ (c.requests = 0 => ~asks)
        BY <1>1
    <2> HIDE DEF asks
    <2>3. /\ inner \in [requests : Nat, parallel : Nat, depth : Nat, latency : Nat \cup {-1},
                         unbounded : BOOLEAN]
          /\ inner.requests = c.requests /\ inner.depth = c.depth /\ inner.unbounded = asks
          /\ inner.latency = IF asks THEN -1 ELSE c.latency
        BY <2>1, <2>2
    <2> HIDE DEF inner
    <2>4. inner \in Costs
        BY <1>1, <2>2, <2>3 DEF Costs
    <2> QED BY <2>4 DEF LoopCost, inner, asks
<1> QED BY <1>6, <1>7, <1>8, <1>9 DEF Alternatives

\* No cost and the cost of a retry chain are costs.
LEMMA BasicCosts == NoCost \in Costs /\ RetryCost \in Costs
PROOF BY RetryAssumption DEF NoCost, RetryCost, Costs

\* The slowest of the fetches of a wave is there.
LEMMA SlowestOf ==
    ASSUME NEW lats \in Seq(Nat \cup {Undeclared})
    PROVE  /\ Slowest(lats) \in Nat /\ \A i \in DOMAIN lats : lats[i] <= Slowest(lats)
           /\ lats = <<>> => Slowest(lats) = 0
<1> USE DEF Undeclared
<1>1. Len(lats) \in Nat /\ DOMAIN lats = 1..Len(lats)
      /\ \A i \in 1..Len(lats) : lats[i] \in Nat \cup {-1}
    OBVIOUS
<1> DEFINE upTo(n) == {0} \cup {lats[i] : i \in 1..n}
           Good == {n \in Nat : n <= Len(lats) => \E x \in upTo(n) : \A m \in upTo(n) : m <= x}
<1>2. 0 \in Good
    <2>1. upTo(0) = {0}
        OBVIOUS
    <2> QED BY <2>1
<1>3. ASSUME NEW n \in Nat, n \in Good PROVE n + 1 \in Good
    <2> SUFFICES ASSUME n + 1 <= Len(lats)
                 PROVE  \E x \in upTo(n + 1) : \A m \in upTo(n + 1) : m <= x
        OBVIOUS
    <2>1. PICK x \in upTo(n) : \A m \in upTo(n) : m <= x
        BY <1>1, <1>3
    <2>2. upTo(n + 1) = upTo(n) \cup {lats[n + 1]}
        OBVIOUS
    <2>3. lats[n + 1] \in Nat \cup {-1}
        BY <1>1
    <2>4. x \in Nat \cup {-1} /\ \A m \in upTo(n) : m \in Nat \cup {-1}
        BY <1>1
    <2> HIDE DEF upTo
    <2>5. CASE lats[n + 1] <= x
        BY <2>1, <2>2, <2>5
    <2>6. CASE ~(lats[n + 1] <= x)
        <3>1. \A m \in upTo(n + 1) : m <= lats[n + 1]
            BY <2>1, <2>2, <2>3, <2>4, <2>6
        <3> QED BY <2>2, <3>1
    <2> QED BY <2>5, <2>6
<1>4. Nat \subseteq Good
    <2> HIDE DEF Good
    <2> QED BY <1>2, <1>3, SetInduction
<1>5. {0} \cup Range(lats) = upTo(Len(lats))
    BY <1>1 DEF Range
<1>6. \E x \in {0} \cup Range(lats) : \A m \in {0} \cup Range(lats) : m <= x
    <2> HIDE DEF upTo
    <2>1. \E x \in upTo(Len(lats)) : \A m \in upTo(Len(lats)) : m <= x
        <3>1. Len(lats) \in Good /\ Len(lats) <= Len(lats)
            BY <1>1, <1>4
        <3> QED BY <3>1
    <2> QED BY <1>5, <2>1
<1>7. /\ Slowest(lats) \in {0} \cup Range(lats)
      /\ \A m \in {0} \cup Range(lats) : m <= Slowest(lats)
    BY <1>6 DEF Slowest
<1>8. Range(lats) \subseteq Nat \cup {-1}
    BY <1>1 DEF Range
<1>9. Slowest(lats) \in Nat
    BY <1>7, <1>8
<1>10. \A i \in DOMAIN lats : lats[i] \in Range(lats)
    BY DEF Range
<1>11. lats = <<>> => Range(lats) = {}
    BY DEF Range
<1> QED BY <1>7, <1>9, <1>10, <1>11

\* So is what the fetches of a wave cost.
LEMMA FetchesCosts ==
    ASSUME NEW lats \in Seq(Nat \cup {Undeclared})
    PROVE  FetchesCost(lats) \in Costs
<1>1. Len(lats) \in Nat /\ (lats = <<>> <=> Len(lats) = 0)
    OBVIOUS
<1>2. Slowest(lats) \in Nat /\ (lats = <<>> => Slowest(lats) = 0 /\ Undeclared \notin Range(lats))
    BY SlowestOf DEF Range
<1>3. /\ FetchesCost(lats).requests = Len(lats) /\ FetchesCost(lats).parallel = Len(lats)
      /\ FetchesCost(lats).depth = IF lats = <<>> THEN 0 ELSE 1
      /\ FetchesCost(lats).latency \in Nat \cup {Undeclared}
      /\ lats = <<>> => FetchesCost(lats).latency = 0
      /\ FetchesCost(lats).unbounded = FALSE
    BY <1>2 DEF FetchesCost
<1>4. FetchesCost(lats) \in [requests : Nat, parallel : Nat, depth : Nat,
                             latency : Nat \cup {Undeclared}, unbounded : BOOLEAN]
    BY <1>1, <1>2 DEF FetchesCost
<1> HIDE DEF FetchesCost
<1>5. FetchesCost(lats).depth <= FetchesCost(lats).requests
    BY <1>1, <1>3
<1> QED BY <1>1, <1>3, <1>4, <1>5 DEF Costs

-----------------------------------------------------------------------------
(* The two recursions along a sequence.                                    *)

\* f starts at base and takes the N steps one after the other.
Follows(f, C, base, N, step) ==
    /\ f \in [0..N -> C] /\ f[0] = base
    /\ \A n \in 1..N : f[n] = step[n][f[n - 1]]

\* A value can be carried along a sequence of steps.
LEMMA AlongASequence ==
    ASSUME NEW C, NEW base \in C, NEW N \in Nat, NEW step \in [1..N -> [C -> C]]
    PROVE  \E f : Follows(f, C, base, N, step)
<1> DEFINE starts(f, k) == /\ f \in [0..k -> C] /\ f[0] = base
                           /\ \A n \in 1..k : f[n] = step[n][f[n - 1]]
           Good == {k \in Nat : k <= N => \E f : starts(f, k)}
<1>1. 0 \in Good
    <2>1. starts([n \in 0..0 |-> base], 0)
        OBVIOUS
    <2> QED BY <2>1
<1>2. ASSUME NEW k \in Nat, k \in Good PROVE k + 1 \in Good
    <2> SUFFICES ASSUME k + 1 <= N PROVE \E f : starts(f, k + 1)
        OBVIOUS
    <2>1. PICK f : starts(f, k)
        BY <1>2
    <2> DEFINE g == [n \in 0..(k + 1) |-> IF n <= k THEN f[n] ELSE step[k + 1][f[k]]]
    <2>2. step[k + 1][f[k]] \in C
        BY <2>1
    <2>3. g \in [0..(k + 1) -> C] /\ g[0] = base
        BY <2>1, <2>2
    <2>4. ASSUME NEW n \in 1..(k + 1) PROVE g[n] = step[n][g[n - 1]]
        <3>1. CASE n = k + 1
            BY <3>1
        <3>2. CASE n # k + 1
            <4>1. n \in 1..k /\ n \in 0..(k + 1) /\ n - 1 \in 0..(k + 1) /\ n <= k /\ n - 1 <= k
                BY <3>2
            <4> QED BY <2>1, <4>1
        <3> QED BY <3>1, <3>2
    <2> HIDE DEF g
    <2> QED BY <2>3, <2>4
<1>3. Nat \subseteq Good
    <2> HIDE DEF Good
    <2> QED BY <1>1, <1>2, SetInduction
<1>4. N \in Good
    <2> HIDE DEF Good
    <2> QED BY <1>3
<1>5. PICK f : starts(f, N)
    <2>1. N <= N
        OBVIOUS
    <2> QED BY <1>4, <2>1
<1> QED BY <1>5 DEF Follows

\* Total adds the waves one by one.
LEMMA TotalSteps ==
    ASSUME NEW costs \in Seq(Costs)
    PROVE  \E upTo \in [0..Len(costs) -> Costs] :
              /\ upTo[0] = NoCost /\ Total(costs) = upTo[Len(costs)]
              /\ \A n \in 1..Len(costs) : upTo[n] = InSequence(upTo[n - 1], costs[n])
<1> DEFINE N == Len(costs)
           step == [n \in 1..N |-> [c \in Costs |-> InSequence(c, costs[n])]]
           rhs(f) == [n \in 0..N |-> IF n = 0 THEN NoCost ELSE InSequence(f[n - 1], costs[n])]
           upTo == CHOOSE f : f = rhs(f)
<1>1. N \in Nat /\ \A n \in 1..N : costs[n] \in Costs
    OBVIOUS
<1>2. Total(costs) = upTo[N]
    BY DEF Total
<1> HIDE DEF N
<1>3. step \in [1..N -> [Costs -> Costs]]
    BY <1>1, CombinedCosts
<1>4. \A c \in Costs : \A n \in 1..N : step[n][c] = InSequence(c, costs[n])
    OBVIOUS
<1> HIDE DEF step
<1>5. PICK f : Follows(f, Costs, NoCost, N, step)
    <2> HIDE DEF rhs, upTo
    <2>1. NoCost \in Costs
        BY BasicCosts
    <2> QED BY <1>1, <1>3, <2>1, AlongASequence
<1>6. \A n \in 0..N : n # 0 => n \in 1..N /\ n - 1 \in 0..N
    BY <1>1
<1>7. f = rhs(f)
    BY <1>4, <1>5, <1>6 DEF Follows
<1>8. upTo = rhs(upTo)
    BY <1>7
<1> HIDE DEF upTo
<1>9. /\ upTo[0] = NoCost
      /\ \A n \in 1..N : upTo[n] = InSequence(upTo[n - 1], costs[n])
    BY <1>1, <1>8
<1>10. \A n \in 0..N : upTo[n] \in Costs
    <2> DEFINE Good == {n \in Nat : n <= N => upTo[n] \in Costs}
    <2>1. 0 \in Good
        BY <1>9, BasicCosts
    <2>2. ASSUME NEW n \in Nat, n \in Good PROVE n + 1 \in Good
        <3> SUFFICES ASSUME n + 1 <= N PROVE upTo[n + 1] \in Costs
            OBVIOUS
        <3>1. n + 1 \in 1..N /\ (n + 1) - 1 = n /\ n <= N
            BY <1>1
        <3> QED BY <1>1, <1>9, <2>2, <3>1, CombinedCosts
    <2>3. Nat \subseteq Good
        <3> HIDE DEF Good
        <3> QED BY <2>1, <2>2, SetInduction
    <2> QED BY <1>1, <2>3
<1>11. upTo \in [0..N -> Costs]
    BY <1>8, <1>10
<1> QED BY <1>2, <1>9, <1>11 DEF N

\* No arm costs more than the match.
LEMMA DearestSteps ==
    ASSUME NEW costs \in Seq(Costs)
    PROVE  \E upTo \in [0..Len(costs) -> Costs] :
              /\ upTo[0] = NoCost /\ Dearest(costs) = upTo[Len(costs)]
              /\ \A n \in 1..Len(costs) : upTo[n] = Alternatives(upTo[n - 1], costs[n])
<1> DEFINE N == Len(costs)
           step == [n \in 1..N |-> [c \in Costs |-> Alternatives(c, costs[n])]]
           rhs(f) == [n \in 0..N |-> IF n = 0 THEN NoCost ELSE Alternatives(f[n - 1], costs[n])]
           upTo == CHOOSE f : f = rhs(f)
<1>1. N \in Nat /\ \A n \in 1..N : costs[n] \in Costs
    OBVIOUS
<1>2. Dearest(costs) = upTo[N]
    BY DEF Dearest
<1> HIDE DEF N
<1>3. step \in [1..N -> [Costs -> Costs]]
    BY <1>1, CombinedCosts
<1>4. \A c \in Costs : \A n \in 1..N : step[n][c] = Alternatives(c, costs[n])
    OBVIOUS
<1> HIDE DEF step
<1>5. PICK f : Follows(f, Costs, NoCost, N, step)
    <2> HIDE DEF rhs, upTo
    <2>1. NoCost \in Costs
        BY BasicCosts
    <2> QED BY <1>1, <1>3, <2>1, AlongASequence
<1>6. \A n \in 0..N : n # 0 => n \in 1..N /\ n - 1 \in 0..N
    BY <1>1
<1>7. f = rhs(f)
    BY <1>4, <1>5, <1>6 DEF Follows
<1>8. upTo = rhs(upTo)
    BY <1>7
<1> HIDE DEF upTo
<1>9. /\ upTo[0] = NoCost
      /\ \A n \in 1..N : upTo[n] = Alternatives(upTo[n - 1], costs[n])
    BY <1>1, <1>8
<1>10. \A n \in 0..N : upTo[n] \in Costs
    <2> DEFINE Good == {n \in Nat : n <= N => upTo[n] \in Costs}
    <2>1. 0 \in Good
        BY <1>9, BasicCosts
    <2>2. ASSUME NEW n \in Nat, n \in Good PROVE n + 1 \in Good
        <3> SUFFICES ASSUME n + 1 <= N PROVE upTo[n + 1] \in Costs
            OBVIOUS
        <3>1. n + 1 \in 1..N /\ (n + 1) - 1 = n /\ n <= N
            BY <1>1
        <3> QED BY <1>1, <1>9, <2>2, <3>1, CombinedCosts
    <2>3. Nat \subseteq Good
        <3> HIDE DEF Good
        <3> QED BY <2>1, <2>2, SetInduction
    <2> QED BY <1>1, <2>3
<1>11. upTo \in [0..N -> Costs]
    BY <1>8, <1>10
<1> QED BY <1>2, <1>9, <1>11 DEF N

-----------------------------------------------------------------------------
(* The recursion through the bodies.                                       *)

\* A body with the flows being visited: what body_cost is called with.
Pairs(p) == p.bodies \X SUBSET DOMAIN p.flows

\* What the cost of a body is computed from, by the flows being visited.
Needs(p, x) ==
    {<<c, x[2]>> : c \in Inside(x[1])}
    \cup {<<p.flows[n], x[2] \cup {n}>> : n \in
            {n \in DOMAIN p.flows \ x[2] :
                \E i \in DOMAIN x[1] : x[1][i].effect.kind = "call" /\ x[1][i].effect.flow = n}}

\* What a pair needs are pairs, and a pair's body is a sequence of waves.
LEMMA NeedsArePairs ==
    ASSUME NEW p \in Programs, NEW x \in Pairs(p)
    PROVE  /\ Needs(p, x) \subseteq Pairs(p)
           /\ x[1] \in p.bodies /\ x[2] \subseteq DOMAIN p.flows
           /\ DOMAIN x[1] = 1..Len(x[1]) /\ Len(x[1]) \in Nat
           /\ \A i \in DOMAIN x[1] : WaveOk(x[1][i]) /\ Nested(x[1][i].effect) \subseteq Inside(x[1])
<1>1. x[1] \in p.bodies /\ x[2] \in SUBSET DOMAIN p.flows
    BY DEF Pairs
<1>2. Inside(x[1]) \subseteq p.bodies /\ x[1] \in Seq(Range(x[1]))
    BY <1>1, ProgramsAssumption
<1>3. \A n \in DOMAIN p.flows : p.flows[n] \in p.bodies
    BY ProgramsAssumption
<1>4. \A c \in Inside(x[1]) : <<c, x[2]>> \in Pairs(p)
    BY <1>1, <1>2 DEF Pairs
<1>5. \A n \in DOMAIN p.flows : <<p.flows[n], x[2] \cup {n}>> \in Pairs(p)
    BY <1>1, <1>3 DEF Pairs
<1>6. Needs(p, x) \subseteq Pairs(p)
    BY <1>4, <1>5 DEF Needs
<1>7. \A i \in DOMAIN x[1] : WaveOk(x[1][i])
    BY <1>1, ProgramsAssumption
<1> QED BY <1>1, <1>2, <1>6, <1>7 DEF Inside

\* Every set of pairs has one that needs no other of them: nesting ends, and a
\* call adds to the flows being visited.
LEMMA InnermostPair ==
    ASSUME NEW p \in Programs, NEW S \in SUBSET Pairs(p), S # {}
    PROVE  \E x \in S : Needs(p, x) \cap S = {}
<1> DEFINE F == DOMAIN p.flows
           Left == {Cardinality(F \ x[2]) : x \in S}
<1>1. IsFiniteSet(F)
    BY ProgramsAssumption
<1>2. \A x \in S : x[1] \in p.bodies /\ x[2] \subseteq F /\ x = <<x[1], x[2]>>
    BY DEF Pairs
<1>3. \A v : IsFiniteSet(F \ v) /\ Cardinality(F \ v) \in Nat
    <2> SUFFICES ASSUME NEW v PROVE IsFiniteSet(F \ v) /\ Cardinality(F \ v) \in Nat
        OBVIOUS
    <2>1. F \ v \in SUBSET F
        OBVIOUS
    <2>2. IsFiniteSet(F \ v)
        BY <1>1, <2>1, FS_Subset
    <2> QED BY <2>2, FS_CardinalityType
<1>4. PICK x \in S : \A y \in S : Cardinality(F \ x[2]) <= Cardinality(F \ y[2])
    <2>1. Left \subseteq Nat /\ Left # {}
        BY <1>3
    <2>2. \E n \in Left : \A m \in Left : n <= m
        <3> HIDE DEF Left
        <3> QED BY <2>1, LeastNatural
    <2> QED BY <2>2
<1> DEFINE v == x[2]
           T == {b \in p.bodies : <<b, v>> \in S}
<1>5. T # {} /\ T \subseteq p.bodies
    BY <1>2, <1>4
<1>6. PICK b \in T : Inside(b) \cap T = {}
    <2> HIDE DEF T, F, Left, v
    <2>1. T \in (SUBSET p.bodies) \ {{}}
        BY <1>5
    <2> QED BY <2>1, ProgramsAssumption
<1>7. \A n \in F \ v : \A c : <<c, v \cup {n}>> \notin S
    <2> SUFFICES ASSUME NEW n \in F \ v, NEW c, <<c, v \cup {n}>> \in S PROVE FALSE
        OBVIOUS
    <2> DEFINE G == F \ v
    <2>1. Cardinality(F \ v) <= Cardinality(F \ (v \cup {n}))
        BY <1>4
    <2>2. F \ (v \cup {n}) = G \ {n} /\ n \in G
        OBVIOUS
    <2>3. IsFiniteSet(G) /\ Cardinality(G) \in Nat
        BY <1>3
    <2>4. Cardinality(G) <= Cardinality(G \ {n})
        BY <2>1, <2>2
    <2> HIDE DEF G, F, v, T, Left
    <2>5. Cardinality(G \ {n}) = Cardinality(G) - 1
        BY <2>2, <2>3, FS_RemoveElement
    <2> QED BY <2>3, <2>4, <2>5
<1>8. Needs(p, <<b, v>>) \cap S = {}
    <2>1. \A c \in Inside(b) : <<c, v>> \notin S
        <3>1. Inside(b) \subseteq p.bodies
            BY ProgramsAssumption
        <3> QED BY <1>6, <3>1
    <2> QED BY <1>7, <2>1 DEF Needs
<1> QED BY <1>6, <1>8

\* The cost of a wave depends on what the body needs only.
LEMMA SameNeeds ==
    ASSUME NEW p \in Programs, NEW x \in Pairs(p), NEW f, NEW g,
           \A y \in Needs(p, x) : f[y] = g[y]
    PROVE  WaveCosts(p, f, x[1], x[2]) = WaveCosts(p, g, x[1], x[2])
<1> DEFINE b == x[1]
           v == x[2]
<1>1. ASSUME NEW i \in DOMAIN b
      PROVE  EffectCost(p, f, b[i].effect, v) = EffectCost(p, g, b[i].effect, v)
    <2> DEFINE e == b[i].effect
    <2>1. \A c \in Nested(e) : f[<<c, v>>] = g[<<c, v>>]
        BY <1>1, NeedsArePairs DEF Needs
    <2>2. CASE e.kind = "call"
        <3>1. e.flow \in DOMAIN p.flows \ v => <<p.flows[e.flow], v \cup {e.flow}>> \in Needs(p, x)
            BY <1>1, <2>2 DEF Needs
        <3> QED BY <2>2, <3>1 DEF EffectCost
    <2>3. CASE e.kind = "match"
        <3>1. \A k \in DOMAIN e.arms : ArmCost(f, e.arms[k], v) = ArmCost(g, e.arms[k], v)
            <4> SUFFICES ASSUME NEW k \in DOMAIN e.arms
                         PROVE  ArmCost(f, e.arms[k], v) = ArmCost(g, e.arms[k], v)
                OBVIOUS
            <4>1. e.arms[k].kind = "body" => e.arms[k].body \in Nested(e)
                BY <2>3 DEF Nested, ArmBodies
            <4> QED BY <2>1, <4>1 DEF ArmCost
        <3>2. [k \in DOMAIN e.arms |-> ArmCost(f, e.arms[k], v)]
                  = [k \in DOMAIN e.arms |-> ArmCost(g, e.arms[k], v)]
            BY <3>1
        <3> HIDE DEF e, v
        <3>3. EffectCost(p, f, e, v) = EffectCost(p, g, e, v)
            BY <2>3, <3>2 DEF EffectCost
        <3> QED BY <3>3 DEF e
    <2>4. CASE e.kind = "for"
        <3>1. e.body \in Nested(e)
            BY <2>4 DEF Nested
        <3> QED BY <2>1, <2>4, <3>1 DEF EffectCost
    <2> QED BY <2>2, <2>3, <2>4 DEF EffectCost
<1> QED BY <1>1 DEF WaveCosts

\* If what a pair needs has costs, the pair's effects and the pair have.
LEMMA CostsOfNeeds ==
    ASSUME NEW p \in Programs, NEW x \in Pairs(p), NEW f, \A y \in Needs(p, x) : f[y] \in Costs
    PROVE  /\ \A i \in DOMAIN x[1] : EffectCost(p, f, x[1][i].effect, x[2]) \in Costs
           /\ WaveCosts(p, f, x[1], x[2]) \in Seq(Costs)
           /\ Total(WaveCosts(p, f, x[1], x[2])) \in Costs
<1> DEFINE b == x[1]
           v == x[2]
<1>1. ASSUME NEW i \in DOMAIN b
      PROVE  /\ EffectCost(p, f, b[i].effect, v) \in Costs
             /\ FetchesCost(b[i].fetches) \in Costs
    <2> DEFINE e == b[i].effect
    <2>1. WaveOk(b[i])
        BY <1>1, NeedsArePairs
    <2>2. \A c \in Nested(e) : f[<<c, v>>] \in Costs
        BY <1>1, NeedsArePairs DEF Needs
    <2>3. FetchesCost(b[i].fetches) \in Costs
        BY <2>1, FetchesCosts DEF WaveOk
    <2>4. CASE e.kind = "call"
        <3>1. e.flow \in DOMAIN p.flows \ v => <<p.flows[e.flow], v \cup {e.flow}>> \in Needs(p, x)
            BY <1>1, <2>4 DEF Needs
        <3> QED BY <2>3, <2>4, <3>1, BasicCosts DEF EffectCost
    <2>5. CASE e.kind = "match"
        <3>1. e.arms \in Seq(Range(e.arms)) /\ \A a \in Range(e.arms) : a.kind \in {"value", "body", "retry"}
            BY <2>1, <2>5 DEF WaveOk
        <3>2. DOMAIN e.arms = 1..Len(e.arms) /\ Len(e.arms) \in Nat
            BY <3>1
        <3>3. \A k \in DOMAIN e.arms : ArmCost(f, e.arms[k], v) \in Costs
            <4> SUFFICES ASSUME NEW k \in DOMAIN e.arms PROVE ArmCost(f, e.arms[k], v) \in Costs
                OBVIOUS
            <4>1. e.arms[k].kind \in {"value", "body", "retry"}
                BY <3>1 DEF Range
            <4>2. e.arms[k].kind = "body" => e.arms[k].body \in Nested(e)
                BY <2>5 DEF Nested, ArmBodies
            <4> QED BY <2>2, <4>1, <4>2, BasicCosts DEF ArmCost
        <3> DEFINE costs == [k \in DOMAIN e.arms |-> ArmCost(f, e.arms[k], v)]
        <3>4. costs \in Seq(Costs)
            <4> HIDE DEF e
            <4> QED BY <3>2, <3>3
        <3>5. Dearest(costs) \in Costs
            <4> HIDE DEF costs
            <4>1. Len(costs) \in 0..Len(costs)
                BY <3>4
            <4> QED BY <3>4, <4>1, DearestSteps
        <3> QED BY <2>3, <2>5, <3>5 DEF EffectCost
    <2>6. CASE e.kind = "for"
        <3>1. e.body \in Nested(e)
            BY <2>6 DEF Nested
        <3>2. LoopCost(f[<<e.body, v>>]) \in Costs
            BY <2>2, <3>1, CombinedCosts
        <3> QED BY <2>3, <2>6, <3>2 DEF EffectCost
    <2> QED BY <2>3, <2>4, <2>5, <2>6, BasicCosts DEF EffectCost
<1> DEFINE costs == WaveCosts(p, f, b, v)
<1>2. costs \in Seq(Costs)
    <2>1. DOMAIN b = 1..Len(b) /\ Len(b) \in Nat
        BY NeedsArePairs
    <2>2. \A i \in DOMAIN b :
              Together(FetchesCost(b[i].fetches), EffectCost(p, f, b[i].effect, v)) \in Costs
        BY <1>1, CombinedCosts
    <2> HIDE DEF b, v
    <2> QED BY <2>1, <2>2 DEF WaveCosts
<1>3. Total(costs) \in Costs
    <2> HIDE DEF costs
    <2>1. Len(costs) \in 0..Len(costs)
        BY <1>2
    <2> QED BY <1>2, <2>1, TotalSteps
<1> QED BY <1>1, <1>2, <1>3

\* What the recursion has to satisfy on the pairs it has reached.
Solves(p, D, f) ==
    /\ D \in SUBSET Pairs(p) /\ f = [x \in D |-> f[x]]
    /\ \A x \in D : Needs(p, x) \subseteq D /\ f[x] = Total(WaveCosts(p, f, x[1], x[2]))

\* Two solutions agree where both are defined.
LEMMA SolutionsAgree ==
    ASSUME NEW p \in Programs, NEW D, NEW f, NEW E, NEW g, Solves(p, D, f), Solves(p, E, g)
    PROVE  \A x \in D \cap E : f[x] = g[x]
<1> DEFINE S == {x \in D \cap E : f[x] # g[x]}
<1> SUFFICES ASSUME S # {} PROVE FALSE
    OBVIOUS
<1>1. S \in SUBSET Pairs(p)
    BY DEF Solves
<1>2. PICK x \in S : Needs(p, x) \cap S = {}
    <2> HIDE DEF S
    <2> QED BY <1>1, InnermostPair
<1>3. Needs(p, x) \subseteq D \cap E /\ x \in Pairs(p)
    BY <1>1, <1>2 DEF Solves
<1>4. \A y \in Needs(p, x) : f[y] = g[y]
    BY <1>2, <1>3
<1>5. WaveCosts(p, f, x[1], x[2]) = WaveCosts(p, g, x[1], x[2])
    BY <1>3, <1>4, SameNeeds
<1> QED BY <1>2, <1>5 DEF Solves

\* body_cost returns for every body and every list of visited flows.
LEMMA RecursionEnds ==
    ASSUME NEW p \in Programs
    PROVE  \E f : Solves(p, Pairs(p), f)
<1> DEFINE Known(x, c) == \E D : \E f : Solves(p, D, f) /\ x \in D /\ c = f[x]
           W == {x \in Pairs(p) : \E c : Known(x, c)}
           u == [x \in W |-> CHOOSE c : Known(x, c)]
<1>1. ASSUME NEW D, NEW f, Solves(p, D, f)
      PROVE  \A x \in D : x \in W /\ u[x] = f[x]
    <2> SUFFICES ASSUME NEW x \in D PROVE x \in W /\ u[x] = f[x]
        OBVIOUS
    <2>1. Known(x, f[x]) /\ x \in Pairs(p)
        BY <1>1 DEF Solves
    <2>2. \A c : Known(x, c) => c = f[x]
        BY <1>1, SolutionsAgree
    <2> HIDE DEF Known
    <2> QED BY <2>1, <2>2
<1>2. Solves(p, W, u)
    <2>1. ASSUME NEW x \in W
          PROVE  Needs(p, x) \subseteq W /\ u[x] = Total(WaveCosts(p, u, x[1], x[2]))
        <3>1. PICK D, f : Solves(p, D, f) /\ x \in D
            BY <2>1
        <3>2. Needs(p, x) \subseteq D /\ x \in Pairs(p) /\ f[x] = Total(WaveCosts(p, f, x[1], x[2]))
            BY <3>1 DEF Solves
        <3>3. \A y \in D : y \in W /\ u[y] = f[y]
            BY <1>1, <3>1
        <3> HIDE DEF W, u
        <3>4. WaveCosts(p, f, x[1], x[2]) = WaveCosts(p, u, x[1], x[2])
            BY <3>2, <3>3, SameNeeds
        <3> QED BY <3>1, <3>2, <3>3, <3>4
    <2>2. W \in SUBSET Pairs(p) /\ u = [x \in W |-> u[x]]
        OBVIOUS
    <2> HIDE DEF W, u
    <2> QED BY <2>1, <2>2 DEF Solves
<1>3. Pairs(p) \ W = {}
    <2> SUFFICES ASSUME Pairs(p) \ W # {} PROVE FALSE
        OBVIOUS
    <2> HIDE DEF W, u
    <2>1. PICK x \in Pairs(p) \ W : Needs(p, x) \cap (Pairs(p) \ W) = {}
        BY InnermostPair
    <2>2. Needs(p, x) \subseteq W
        BY <2>1, NeedsArePairs
    <2> DEFINE V == W \cup {x}
               g == [y \in V |-> IF y \in W THEN u[y] ELSE Total(WaveCosts(p, u, x[1], x[2]))]
    <2>3. \A y \in W : g[y] = u[y]
        OBVIOUS
    <2>4. \A y \in V : y \in Pairs(p) /\ Needs(p, y) \subseteq W
        BY <1>2, <2>1, <2>2 DEF Solves
    <2>5. \A y \in V : g[y] = Total(WaveCosts(p, u, y[1], y[2]))
        BY <1>2 DEF Solves
    <2>6. g = [y \in V |-> g[y]] /\ W \subseteq V /\ x \in V
        OBVIOUS
    <2> HIDE DEF V, g
    <2>7. \A y \in V : WaveCosts(p, u, y[1], y[2]) = WaveCosts(p, g, y[1], y[2])
        <3> SUFFICES ASSUME NEW y \in V
                     PROVE  WaveCosts(p, u, y[1], y[2]) = WaveCosts(p, g, y[1], y[2])
            OBVIOUS
        <3>1. y \in Pairs(p) /\ \A z \in Needs(p, y) : u[z] = g[z]
            BY <2>3, <2>4
        <3> QED BY <3>1, SameNeeds
    <2>8. Solves(p, V, g)
        BY <2>4, <2>5, <2>6, <2>7 DEF Solves
    <2>9. x \in W
        BY <1>1, <2>6, <2>8
    <2> QED BY <2>1, <2>9
<1>4. W = Pairs(p)
    BY <1>3
<1> HIDE DEF W, u
<1> QED BY <1>2, <1>4

\* body_cost computes the cost of every body, whichever flows are visited.
LEMMA BodyCostSolves ==
    ASSUME NEW p \in Programs
    PROVE  Solves(p, Pairs(p), BodyCost(p))
<1> DEFINE rhs(f) == [x \in Pairs(p) |-> Total(WaveCosts(p, f, x[1], x[2]))]
<1>1. BodyCost(p) = CHOOSE f : f = rhs(f)
    BY DEF BodyCost, Pairs
<1>2. PICK f : Solves(p, Pairs(p), f)
    BY RecursionEnds
<1>3. f = rhs(f)
    <2>1. f = [x \in Pairs(p) |-> f[x]]
        BY <1>2 DEF Solves
    <2> QED BY <1>2, <2>1 DEF Solves
<1>4. BodyCost(p) = rhs(BodyCost(p))
    <2> HIDE DEF rhs
    <2> QED BY <1>1, <1>3
<1>5. \A x \in Pairs(p) : Needs(p, x) \subseteq Pairs(p)
    BY NeedsArePairs
<1> QED BY <1>4, <1>5 DEF Solves

\* What it returns is a cost.
LEMMA BodyCosts ==
    ASSUME NEW p \in Programs
    PROVE  \A x \in Pairs(p) : BodyCost(p)[x] \in Costs
<1> DEFINE S == {x \in Pairs(p) : BodyCost(p)[x] \notin Costs}
<1> SUFFICES ASSUME S # {} PROVE FALSE
    OBVIOUS
<1>1. PICK x \in S : Needs(p, x) \cap S = {}
    <2>1. S \in SUBSET Pairs(p)
        OBVIOUS
    <2> HIDE DEF S
    <2> QED BY <2>1, InnermostPair
<1>2. \A y \in Needs(p, x) : BodyCost(p)[y] \in Costs
    BY <1>1, NeedsArePairs
<1>3. Total(WaveCosts(p, BodyCost(p), x[1], x[2])) \in Costs
    BY <1>1, <1>2, CostsOfNeeds
<1> QED BY <1>1, <1>3, BodyCostSolves DEF Solves

-----------------------------------------------------------------------------
(* Smaller and larger costs.                                               *)

\* No figure of c is above that of d; an undeclared latency is above any other.
AtMost(c, d) ==
    /\ c.requests <= d.requests /\ c.parallel <= d.parallel /\ c.depth <= d.depth
    /\ d.latency # Undeclared => c.latency # Undeclared /\ c.latency <= d.latency
    /\ c.unbounded => d.unbounded

\* AtMost is reflexive and transitive.
LEMMA AtMostOrder ==
    ASSUME NEW c \in Costs, NEW d \in Costs
    PROVE  AtMost(c, c) /\ \A e \in Costs : AtMost(c, d) /\ AtMost(d, e) => AtMost(c, e)
<1>1. \A e \in Costs : /\ e.requests \in Nat /\ e.parallel \in Nat /\ e.depth \in Nat
                       /\ e.latency \in Nat \cup {-1}
    BY DEF Costs, Undeclared
<1>2. AtMost(c, c)
    BY <1>1 DEF AtMost, Undeclared
<1>3. ASSUME NEW e \in Costs, AtMost(c, d), AtMost(d, e) PROVE AtMost(c, e)
    BY <1>1, <1>3 DEF AtMost, Undeclared
<1> QED BY <1>2, <1>3

\* Costs that are combined do not shrink.
LEMMA CombinedAtMost ==
    ASSUME NEW c \in Costs, NEW d \in Costs
    PROVE  /\ AtMost(c, Alternatives(c, d)) /\ AtMost(d, Alternatives(c, d))
           /\ AtMost(c, InSequence(c, d)) /\ AtMost(d, InSequence(c, d))
           /\ AtMost(c, Together(c, d)) /\ AtMost(d, Together(c, d))
           /\ AtMost(c, LoopCost(c))
<1> USE DEF Undeclared
<1>1. \A e \in {c, d} : /\ e.requests \in Nat /\ e.parallel \in Nat /\ e.depth \in Nat
                        /\ e.latency \in Nat \cup {-1} /\ e.unbounded \in BOOLEAN
    BY DEF Costs
<1>2. /\ c.requests <= Larger(c.requests, d.requests) /\ d.requests <= Larger(c.requests, d.requests)
      /\ c.parallel <= Larger(c.parallel, d.parallel) /\ d.parallel <= Larger(c.parallel, d.parallel)
      /\ c.depth <= Larger(c.depth, d.depth) /\ d.depth <= Larger(c.depth, d.depth)
      /\ c.requests <= c.requests + d.requests /\ d.requests <= c.requests + d.requests
      /\ c.depth <= c.depth + d.depth /\ d.depth <= c.depth + d.depth
    BY <1>1 DEF Larger
<1>3. /\ LatMax(c.latency, d.latency) # -1 =>
             /\ c.latency # -1 /\ c.latency <= LatMax(c.latency, d.latency)
             /\ d.latency # -1 /\ d.latency <= LatMax(c.latency, d.latency)
      /\ LatAdd(c.latency, d.latency) # -1 =>
             /\ c.latency # -1 /\ c.latency <= LatAdd(c.latency, d.latency)
             /\ d.latency # -1 /\ d.latency <= LatAdd(c.latency, d.latency)
    BY <1>1 DEF LatMax, LatAdd, Larger
<1>4. AtMost(c, Alternatives(c, d)) /\ AtMost(d, Alternatives(c, d))
    BY <1>2, <1>3 DEF AtMost, Alternatives, JoinAlt
<1>5. AtMost(c, InSequence(c, d)) /\ AtMost(d, InSequence(c, d))
    BY <1>2, <1>3 DEF AtMost, InSequence
<1>6. AtMost(c, Together(c, d)) /\ AtMost(d, Together(c, d))
    BY <1>2, <1>3 DEF AtMost, Together, JoinAlt
<1>7. AtMost(c, LoopCost(c))
    <2> DEFINE asks == c.requests > 0 \/ c.unbounded
               inner == [c EXCEPT !.latency = IF asks THEN Undeclared ELSE @, !.unbounded = asks]
    <2>1. c \in [requests : Nat, parallel : Nat, depth : Nat, latency : Nat \cup {-1},
                 unbounded : BOOLEAN]
        BY DEF Costs
    <2>2. asks \in BOOLEAN /\ (c.unbounded => asks)
        BY <1>1
    <2> HIDE DEF asks
    <2>3. /\ inner.requests = c.requests /\ inner.depth = c.depth /\ inner.parallel = c.parallel
          /\ inner.unbounded = asks /\ inner.latency = IF asks THEN -1 ELSE c.latency
        BY <2>1, <2>2
    <2> HIDE DEF inner
    <2>4. AtMost(c, inner)
        BY <1>1, <2>2, <2>3 DEF AtMost
    <2> QED BY <2>4 DEF LoopCost, inner, asks
<1> QED BY <1>4, <1>5, <1>6, <1>7

\* A sequence that grows at each step grows from any place to any later one.
LEMMA GrowingCosts ==
    ASSUME NEW N \in Nat, NEW f \in [0..N -> Costs], \A n \in 1..N : AtMost(f[n - 1], f[n])
    PROVE  \A j \in 0..N : \A i \in 0..j : AtMost(f[i], f[j])
<1> DEFINE Good == {j \in Nat : j <= N => \A i \in 0..j : AtMost(f[i], f[j])}
<1>1. 0 \in Good
    <2>1. 0 \in 0..N /\ \A i \in 0..0 : i = 0
        OBVIOUS
    <2> QED BY <2>1, AtMostOrder
<1>2. ASSUME NEW j \in Nat, j \in Good PROVE j + 1 \in Good
    <2> SUFFICES ASSUME j + 1 <= N, NEW i \in 0..(j + 1) PROVE AtMost(f[i], f[j + 1])
        OBVIOUS
    <2>1. /\ j \in 0..N /\ j + 1 \in 0..N /\ i \in 0..N /\ j <= N
          /\ j + 1 \in 1..N /\ (j + 1) - 1 = j
        OBVIOUS
    <2>2. AtMost(f[j], f[j + 1]) /\ f[i] \in Costs /\ f[j] \in Costs /\ f[j + 1] \in Costs
        BY <2>1
    <2>3. CASE i = j + 1
        BY <2>2, <2>3, AtMostOrder
    <2>4. CASE i # j + 1
        <3>1. i \in 0..j
            BY <2>4
        <3>2. AtMost(f[i], f[j])
            BY <1>2, <2>1, <3>1
        <3> QED BY <2>2, <3>2, AtMostOrder
    <2> QED BY <2>3, <2>4
<1>3. Nat \subseteq Good
    <2> HIDE DEF Good
    <2> QED BY <1>1, <1>2, SetInduction
<1> QED BY <1>3

\* A match costs at least what each of its arms costs.
LEMMA ArmsAtMost ==
    ASSUME NEW costs \in Seq(Costs)
    PROVE  \A k \in DOMAIN costs : AtMost(costs[k], Dearest(costs))
<1> DEFINE N == Len(costs)
<1>1. N \in Nat /\ DOMAIN costs = 1..N /\ \A k \in 1..N : costs[k] \in Costs
    OBVIOUS
<1>2. PICK upTo \in [0..N -> Costs] :
          /\ upTo[0] = NoCost /\ Dearest(costs) = upTo[N]
          /\ \A n \in 1..N : upTo[n] = Alternatives(upTo[n - 1], costs[n])
    BY DearestSteps
<1> HIDE DEF N
<1>3. \A n \in 1..N : n - 1 \in 0..N /\ n \in 0..N /\ upTo[n - 1] \in Costs /\ upTo[n] \in Costs
    BY <1>1
<1>4. \A n \in 1..N : AtMost(upTo[n - 1], upTo[n]) /\ AtMost(costs[n], upTo[n])
    BY <1>1, <1>2, <1>3, CombinedAtMost
<1>5. \A n \in 1..N : AtMost(upTo[n], upTo[N])
    <2>1. N \in 0..N /\ \A n \in 1..N : n \in 0..N
        BY <1>1
    <2> QED BY <1>1, <1>4, <2>1, GrowingCosts
<1>6. N \in 0..N
    BY <1>1
<1> QED BY <1>1, <1>2, <1>3, <1>4, <1>5, <1>6, AtMostOrder

-----------------------------------------------------------------------------
(* The account of a body: what it costs up to each wave.                   *)

\* What the fetches and the effect of the i-th wave cost, and the running
\* account of the waves: it grows from nothing to the body's cost.
FetchesAt(x, i) == FetchesCost(x[1][i].fetches)
EffectAt(p, x, i) == EffectCost(p, BodyCost(p), x[1][i].effect, x[2])

IsAccount(p, x, upTo) ==
    /\ upTo \in [0..Len(x[1]) -> Costs]
    /\ upTo[0] = NoCost /\ upTo[Len(x[1])] = BodyCost(p)[x]
    /\ \A i \in 1..Len(x[1]) :
           /\ upTo[i] = InSequence(upTo[i - 1], Together(FetchesAt(x, i), EffectAt(p, x, i)))
           /\ upTo[i - 1] \in Costs /\ FetchesAt(x, i) \in Costs /\ EffectAt(p, x, i) \in Costs
           /\ AtMost(upTo[i - 1], upTo[i]) /\ AtMost(upTo[i], BodyCost(p)[x])
           /\ AtMost(FetchesAt(x, i), BodyCost(p)[x]) /\ AtMost(EffectAt(p, x, i), BodyCost(p)[x])

\* Every body has such an account.
LEMMA Accounts ==
    ASSUME NEW p \in Programs, NEW x \in Pairs(p)
    PROVE  \E upTo : IsAccount(p, x, upTo)
<1> DEFINE cost == BodyCost(p)
           costs == WaveCosts(p, cost, x[1], x[2])
           N == Len(x[1])
<1>1. N \in Nat /\ DOMAIN x[1] = 1..N
    BY NeedsArePairs
<1>2. \A y \in Needs(p, x) : cost[y] \in Costs
    BY BodyCosts, NeedsArePairs
<1>3. costs \in Seq(Costs) /\ \A i \in DOMAIN x[1] : EffectAt(p, x, i) \in Costs
    <2> HIDE DEF cost
    <2> QED BY <1>2, CostsOfNeeds DEF cost, EffectAt
<1>4. cost[x] = Total(costs)
    BY BodyCostSolves DEF Solves
<1>5. \A i \in 1..N : FetchesAt(x, i) \in Costs
    BY <1>1, NeedsArePairs, FetchesCosts DEF FetchesAt, WaveOk
<1>6. /\ DOMAIN costs = 1..N
      /\ \A i \in 1..N : costs[i] = Together(FetchesAt(x, i), EffectAt(p, x, i))
    BY <1>1 DEF WaveCosts, FetchesAt, EffectAt
<1> HIDE DEF cost, costs
<1>7. Len(costs) = N
    BY <1>1, <1>3, <1>6
<1>8. PICK upTo \in [0..N -> Costs] :
          /\ upTo[0] = NoCost /\ Total(costs) = upTo[N]
          /\ \A i \in 1..N : upTo[i] = InSequence(upTo[i - 1], costs[i])
    BY <1>3, <1>7, TotalSteps
<1> HIDE DEF N
<1>9. \A i \in 1..N : i - 1 \in 0..N /\ i \in 0..N /\ upTo[i - 1] \in Costs /\ upTo[i] \in Costs
    BY <1>1
<1>10. \A i \in 1..N : costs[i] \in Costs /\ AtMost(FetchesAt(x, i), costs[i])
                       /\ AtMost(EffectAt(p, x, i), costs[i])
    BY <1>1, <1>3, <1>5, <1>6, CombinedCosts, CombinedAtMost
<1>11. \A i \in 1..N : AtMost(upTo[i - 1], upTo[i]) /\ AtMost(costs[i], upTo[i])
    BY <1>8, <1>9, <1>10, CombinedAtMost
<1>12. N \in 0..N /\ upTo[N] \in Costs
    BY <1>1
<1>13. \A i \in 0..N : AtMost(upTo[i], upTo[N])
    BY <1>1, <1>11, <1>12, GrowingCosts
<1>14. \A i \in 1..N : AtMost(costs[i], upTo[N])
    BY <1>9, <1>10, <1>11, <1>12, <1>13, AtMostOrder
<1>15. \A i \in 1..N : AtMost(FetchesAt(x, i), upTo[N]) /\ AtMost(EffectAt(p, x, i), upTo[N])
    BY <1>1, <1>3, <1>5, <1>10, <1>12, <1>14, AtMostOrder
<1>16. IsAccount(p, x, upTo)
    BY <1>1, <1>3, <1>4, <1>5, <1>6, <1>8, <1>9, <1>11, <1>12, <1>13, <1>15 DEF IsAccount, N, cost
<1> QED BY <1>16

\* An effect costs at least what it may run.
LEMMA EffectCosts ==
    ASSUME NEW p \in Programs, NEW x \in Pairs(p), NEW i \in DOMAIN x[1], NEW e,
           e = x[1][i].effect
    PROVE  /\ \A c \in Nested(e) : /\ BodyCost(p)[<<c, x[2]>>] \in Costs
                                   /\ AtMost(BodyCost(p)[<<c, x[2]>>], EffectAt(p, x, i))
           /\ e.kind = "for" => EffectAt(p, x, i) = LoopCost(BodyCost(p)[<<e.body, x[2]>>])
           /\ e.kind = "match" => \A k \in DOMAIN e.arms :
                  e.arms[k].kind = "retry" => AtMost(RetryCost, EffectAt(p, x, i))
           /\ e.kind = "call" /\ e.flow \in DOMAIN p.flows \ x[2] =>
                  EffectAt(p, x, i) = BodyCost(p)[<<p.flows[e.flow], x[2] \cup {e.flow}>>]
<1> DEFINE cost == BodyCost(p)
           v == x[2]
           Cost == EffectAt(p, x, i)
<1>1. \A c \in Nested(e) : cost[<<c, v>>] \in Costs
    BY NeedsArePairs, BodyCosts DEF Needs
<1>2. Cost = EffectCost(p, cost, e, v)
    BY DEF EffectAt
<1>3. WaveOk(x[1][i])
    BY NeedsArePairs
<1> HIDE DEF cost, v, Cost
<1>4. CASE e.kind = "match"
    <2>1. e.arms \in Seq(Range(e.arms)) /\ \A a \in Range(e.arms) : a.kind \in {"value", "body", "retry"}
        BY <1>3, <1>4 DEF WaveOk
    <2>2. DOMAIN e.arms = 1..Len(e.arms) /\ Len(e.arms) \in Nat
        BY <2>1
    <2>3. \A k \in DOMAIN e.arms : e.arms[k].kind = "body" => e.arms[k].body \in Nested(e)
        BY <1>4 DEF Nested, ArmBodies
    <2>4. \A k \in DOMAIN e.arms : ArmCost(cost, e.arms[k], v) \in Costs
        <3> SUFFICES ASSUME NEW k \in DOMAIN e.arms PROVE ArmCost(cost, e.arms[k], v) \in Costs
            OBVIOUS
        <3>1. e.arms[k].kind \in {"value", "body", "retry"}
            BY <2>1 DEF Range
        <3> QED BY <1>1, <2>3, <3>1, BasicCosts DEF ArmCost
    <2> DEFINE costs == [k \in DOMAIN e.arms |-> ArmCost(cost, e.arms[k], v)]
    <2>5. costs \in Seq(Costs) /\ DOMAIN costs = DOMAIN e.arms
        BY <2>2, <2>4
    <2>6. Cost = Dearest(costs)
        BY <1>2, <1>4 DEF EffectCost
    <2>7. \A k \in DOMAIN e.arms : costs[k] = ArmCost(cost, e.arms[k], v)
        OBVIOUS
    <2> HIDE DEF costs
    <2>8. \A k \in DOMAIN e.arms : AtMost(ArmCost(cost, e.arms[k], v), Cost)
        BY <2>5, <2>6, <2>7, ArmsAtMost
    <2>9. \A c \in Nested(e) : AtMost(cost[<<c, v>>], Cost)
        <3> SUFFICES ASSUME NEW c \in Nested(e) PROVE AtMost(cost[<<c, v>>], Cost)
            OBVIOUS
        <3>1. PICK k \in DOMAIN e.arms : e.arms[k].kind = "body" /\ c = e.arms[k].body
            BY <1>4 DEF Nested, ArmBodies
        <3>2. ArmCost(cost, e.arms[k], v) = cost[<<c, v>>]
            BY <3>1 DEF ArmCost
        <3> QED BY <2>8, <3>2
    <2>10. \A k \in DOMAIN e.arms : e.arms[k].kind = "retry" => ArmCost(cost, e.arms[k], v) = RetryCost
        BY DEF ArmCost
    <2> QED BY <1>1, <1>4, <2>8, <2>9, <2>10 DEF cost, v, Cost
<1>5. CASE e.kind = "for"
    <2>1. Nested(e) = {e.body}
        BY <1>5 DEF Nested
    <2>2. Cost = LoopCost(cost[<<e.body, v>>])
        BY <1>2, <1>5 DEF EffectCost
    <2>3. AtMost(cost[<<e.body, v>>], Cost)
        BY <1>1, <2>1, <2>2, CombinedAtMost
    <2> QED BY <1>1, <1>5, <2>1, <2>2, <2>3 DEF cost, v, Cost
<1>6. CASE e.kind \notin {"match", "for"}
    <2>1. Nested(e) = {}
        BY <1>6 DEF Nested
    <2>2. e.kind = "call" /\ e.flow \in DOMAIN p.flows \ v =>
              Cost = cost[<<p.flows[e.flow], v \cup {e.flow}>>]
        BY <1>2 DEF EffectCost
    <2> QED BY <1>6, <2>1, <2>2 DEF cost, v, Cost
<1> QED BY <1>4, <1>5, <1>6

\* A body costs at least what each body costs that it runs.
LEMMA NeedsAtMost ==
    ASSUME NEW p \in Programs, NEW x \in Pairs(p)
    PROVE  \A y \in Needs(p, x) : AtMost(BodyCost(p)[y], BodyCost(p)[x])
<1> SUFFICES ASSUME NEW y \in Needs(p, x) PROVE AtMost(BodyCost(p)[y], BodyCost(p)[x])
    OBVIOUS
<1>1. PICK i \in DOMAIN x[1] : AtMost(BodyCost(p)[y], EffectAt(p, x, i))
    <2>1. CASE \E c \in Inside(x[1]) : y = <<c, x[2]>>
        <3>1. PICK c \in Inside(x[1]) : y = <<c, x[2]>>
            BY <2>1
        <3>2. PICK i \in DOMAIN x[1] : c \in Nested(x[1][i].effect)
            BY DEF Inside
        <3> DEFINE e == x[1][i].effect
        <3>3. c \in Nested(e) /\ e = x[1][i].effect
            BY <3>2
        <3> HIDE DEF e
        <3>4. AtMost(BodyCost(p)[<<c, x[2]>>], EffectAt(p, x, i))
            BY <3>3, EffectCosts
        <3> QED BY <3>1, <3>4
    <2>2. CASE \E n \in DOMAIN p.flows \ x[2] : \E i \in DOMAIN x[1] :
                   /\ y = <<p.flows[n], x[2] \cup {n}>>
                   /\ x[1][i].effect.kind = "call" /\ x[1][i].effect.flow = n
        <3>1. \E i \in DOMAIN x[1] : EffectAt(p, x, i) = BodyCost(p)[y]
            <4>1. PICK n \in DOMAIN p.flows \ x[2], i \in DOMAIN x[1] :
                      /\ y = <<p.flows[n], x[2] \cup {n}>>
                      /\ x[1][i].effect.kind = "call" /\ x[1][i].effect.flow = n
                BY <2>2
            <4>2. EffectAt(p, x, i) = BodyCost(p)[<<p.flows[n], x[2] \cup {n}>>]
                BY <4>1 DEF EffectAt, EffectCost
            <4> QED BY <4>1, <4>2
        <3>2. BodyCost(p)[y] \in Costs
            BY BodyCosts, NeedsArePairs
        <3> QED BY <3>1, <3>2, AtMostOrder
    <2> QED BY <2>1, <2>2 DEF Needs
<1>2. PICK upTo : IsAccount(p, x, upTo)
    BY Accounts
<1>3. EffectAt(p, x, i) \in Costs /\ AtMost(EffectAt(p, x, i), BodyCost(p)[x])
    BY <1>2, NeedsArePairs DEF IsAccount
<1>4. BodyCost(p)[y] \in Costs /\ BodyCost(p)[x] \in Costs
    BY BodyCosts, NeedsArePairs
<1> QED BY <1>1, <1>3, <1>4, AtMostOrder
=============================================================================
