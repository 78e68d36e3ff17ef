----------------------------- MODULE Schedules ------------------------------
(***************************************************************************)
(* Optimized programs, as cost.rs and exec.rs see them.                    *)
(*                                                                         *)
(* A body is its wave schedule.  The effect chain leaves at most one       *)
(* effect in a wave, so a wave is the latencies its fetches declare and    *)
(* one effect:                                                             *)
(*   "none"                no other effect (a mutation is a fetch)         *)
(*   "plain"               log, assert                                     *)
(*   "return"                                                              *)
(*   "call"  .flow         a flow call                                     *)
(*   "match" .arms .fetched  fetched: its scrutinee names a fetch of the   *)
(*                         same body, which `retry` runs again             *)
(*   "for"   .body         a loop                                          *)
(* An arm is a "value", a "body" or a "retry" chain.                       *)
(***************************************************************************)
EXTENDS Integers, FiniteSets, Functions, Sequences, SequencesExt

CONSTANTS
    Programs,   \* each [main : body, flows : flow name -> body, bodies : all of them]
    MaxRetries  \* MAX_RETRIES of exec.rs, which RETRY_BUDGET mirrors

ASSUME RetryAssumption == MaxRetries \in Nat

\* The bodies that an effect can run.
ArmBodies(e) == {e.arms[k].body : k \in {k \in DOMAIN e.arms : e.arms[k].kind = "body"}}
Nested(e) == CASE e.kind = "for" -> {e.body}
               [] e.kind = "match" -> ArmBodies(e)
               [] OTHER -> {}

Inside(b) == UNION {Nested(b[i].effect) : i \in DOMAIN b}

Undeclared == -1   \* a latency that is not known, a bound that is not declared

WaveOk(w) ==
    /\ w.fetches \in Seq(Nat \cup {Undeclared})
    /\ w.effect.kind = "match" =>
          /\ w.effect.arms \in Seq(Range(w.effect.arms))
          /\ \A a \in Range(w.effect.arms) : a.kind \in {"value", "body", "retry"}

\* A program's bodies: main, the flows, and what is nested in them.  Nesting is
\* that of a syntax tree, so every set of bodies has an innermost one.
ASSUME ProgramsAssumption ==
    \A p \in Programs :
        /\ p.main \in p.bodies
        /\ IsFiniteSet(DOMAIN p.flows)
        /\ \A n \in DOMAIN p.flows : p.flows[n] \in p.bodies
        /\ \A b \in p.bodies : b \in Seq(Range(b))
        /\ \A b \in p.bodies : \A i \in DOMAIN b : WaveOk(b[i])
        /\ \A b \in p.bodies : Inside(b) \subseteq p.bodies
        /\ \A S \in (SUBSET p.bodies) \ {{}} : \E b \in S : Inside(b) \cap S = {}

Larger(m, n) == IF m > n THEN m ELSE n

\* The largest declared latency.
Slowest(lats) ==
    CHOOSE n \in {0} \cup Range(lats) : \A m \in {0} \cup Range(lats) : m <= n
=============================================================================
