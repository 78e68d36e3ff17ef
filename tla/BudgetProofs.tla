---------------------------- MODULE BudgetProofs ----------------------------
(***************************************************************************)
(* An accepted budget is kept by every execution of every program.         *)
(***************************************************************************)
EXTENDS Budgets, CostProofs, InterpreterProofs

(* The bodies that the analysis descends into: all that an execution runs, *)
(* also where a recursive flow is counted once only.                       *)

\* The pairs that the analysis comes to, from main, and their bodies.
Start(p) == <<p.main, {}>>
Closed(p, A) == Start(p) \in A /\ \A x \in A : Needs(p, x) \subseteq A
Visited(p) == {x \in Pairs(p) : \A A \in SUBSET Pairs(p) : Closed(p, A) => x \in A}
Entered(p, b) == \E v : <<b, v>> \in Visited(p)

\* The analysis comes to what its pairs need.
LEMMA VisitedClosed == ASSUME NEW p \in Programs PROVE Closed(p, Visited(p))
<1>1. Start(p) \in Pairs(p)
    BY ProgramsAssumption DEF Start, Pairs
<1>2. Start(p) \in Visited(p)
    BY <1>1 DEF Visited, Closed
<1>3. ASSUME NEW x \in Visited(p) PROVE Needs(p, x) \subseteq Visited(p)
    <2> SUFFICES ASSUME NEW y \in Needs(p, x), NEW A \in SUBSET Pairs(p), Closed(p, A)
                 PROVE  y \in A
        BY <1>3, NeedsArePairs DEF Visited
    <2>1. x \in A
        BY <1>3 DEF Visited
    <2> QED BY <2>1 DEF Closed
<1> QED BY <1>2, <1>3 DEF Closed

\* What holds of the start, and of what is needed by what it holds of.
LEMMA VisitedLeast ==
    ASSUME NEW p \in Programs, NEW A \in SUBSET Pairs(p), Closed(p, A)
    PROVE  Visited(p) \subseteq A
PROOF BY DEF Visited

\* Nothing it comes to costs more than the program.
LEMMA VisitedCost ==
    ASSUME NEW p \in Programs, NEW x \in Visited(p)
    PROVE  AtMost(BodyCost(p)[x], RequestCostOf(p))
<1> DEFINE A == {y \in Pairs(p) : AtMost(BodyCost(p)[y], RequestCostOf(p))}
<1>1. Start(p) \in Pairs(p) /\ RequestCostOf(p) = BodyCost(p)[Start(p)]
    BY VisitedClosed DEF Start, RequestCostOf, Closed, Visited
<1>2. RequestCostOf(p) \in Costs
    BY <1>1, BodyCosts
<1>3. Start(p) \in A
    BY <1>1, <1>2, AtMostOrder
<1>4. ASSUME NEW y \in A, NEW z \in Needs(p, y) PROVE z \in A
    <2>1. z \in Pairs(p) /\ BodyCost(p)[z] \in Costs /\ BodyCost(p)[y] \in Costs
        BY <1>4, NeedsArePairs, BodyCosts
    <2>2. AtMost(BodyCost(p)[z], BodyCost(p)[y])
        BY <1>4, NeedsAtMost
    <2> QED BY <1>2, <1>4, <2>1, <2>2, AtMostOrder
<1>5. A \in SUBSET Pairs(p) /\ Closed(p, A)
    BY <1>3, <1>4 DEF Closed
<1> HIDE DEF A
<1>6. x \in A
    BY <1>5, VisitedLeast
<1> QED BY <1>6 DEF A

\* A flow that is being visited was entered before.
LEMMA VisitedFlows ==
    ASSUME NEW p \in Programs, NEW x \in Visited(p), NEW n \in x[2]
    PROVE  Entered(p, p.flows[n])
<1> DEFINE A == {y \in Visited(p) : \A m \in y[2] : Entered(p, p.flows[m])}
<1>1. Start(p) \in A
    BY VisitedClosed DEF Start, Closed
<1>2. ASSUME NEW y \in A, NEW z \in Needs(p, y) PROVE z \in A
    <2>1. z \in Visited(p)
        BY <1>2, VisitedClosed DEF Closed
    <2>2. CASE z[2] = y[2]
        BY <1>2, <2>1, <2>2
    <2>3. CASE \E m \in DOMAIN p.flows : z = <<p.flows[m], y[2] \cup {m}>>
        <3>1. PICK m \in DOMAIN p.flows : z = <<p.flows[m], y[2] \cup {m}>>
            BY <2>3
        <3>2. z[2] = y[2] \cup {m} /\ Entered(p, p.flows[m])
            BY <2>1, <3>1 DEF Entered
        <3>3. \A k \in z[2] : Entered(p, p.flows[k])
            BY <1>2, <3>2
        <3> QED BY <2>1, <3>3
    <2> QED BY <2>2, <2>3 DEF Needs
<1>3. A \in SUBSET Pairs(p) /\ Closed(p, A)
    BY <1>1, <1>2 DEF Closed, Visited
<1> HIDE DEF A
<1>4. x \in A
    BY <1>3, VisitedLeast
<1> QED BY <1>4 DEF A

\* A wave of b calls the flow n.
Calls(b, n) == \E i \in DOMAIN b : b[i].effect.kind = "call" /\ b[i].effect.flow = n

\* A body that is entered has all it can run entered: a call that is not
\* followed is to a flow that was entered before.
LEMMA EnteredBodies ==
    ASSUME NEW p \in Programs, NEW b, Entered(p, b)
    PROVE  /\ b \in p.bodies
           /\ \A c \in Inside(b) : Entered(p, c)
           /\ \A n \in DOMAIN p.flows : Calls(b, n) => Entered(p, p.flows[n])
<1>1. PICK v : <<b, v>> \in Visited(p)
    BY DEF Entered
<1>2. <<b, v>> \in Pairs(p) /\ Needs(p, <<b, v>>) \subseteq Visited(p)
    BY <1>1, VisitedClosed DEF Visited, Closed
<1>3. b \in p.bodies
    BY <1>2 DEF Pairs
<1>4. \A c \in Inside(b) : Entered(p, c)
    BY <1>2 DEF Needs, Entered
<1>5. ASSUME NEW n \in DOMAIN p.flows, Calls(b, n) PROVE Entered(p, p.flows[n])
    <2>1. CASE n \in v
        <3>1. n \in <<b, v>>[2]
            BY <2>1
        <3> QED BY <1>1, <3>1, VisitedFlows
    <2>2. CASE n \notin v
        <3>1. <<p.flows[n], v \cup {n}>> \in Needs(p, <<b, v>>)
            BY <1>5, <2>2 DEF Needs, Calls
        <3> QED BY <1>2, <3>1 DEF Entered
    <2> QED BY <2>1, <2>2
<1> QED BY <1>3, <1>4, <1>5

\* No wave of an entered body is wider than the program.
LEMMA EnteredWidth ==
    ASSUME NEW p \in Programs, NEW b, Entered(p, b), NEW i \in DOMAIN b
    PROVE  /\ Len(b[i].fetches) <= RequestCostOf(p).parallel
           /\ b[i].effect.kind = "match" /\ (\E k \in DOMAIN b[i].effect.arms :
                  b[i].effect.arms[k].kind = "retry") => 1 <= RequestCostOf(p).parallel
           /\ RequestCostOf(p).parallel \in Nat
<1>1. PICK v : <<b, v>> \in Visited(p)
    BY DEF Entered
<1> DEFINE x == <<b, v>>
           e == b[i].effect
<1>2. x \in Visited(p) /\ x \in Pairs(p) /\ x[1] = b
    BY <1>1 DEF Visited
<1>3. AtMost(BodyCost(p)[x], RequestCostOf(p)) /\ BodyCost(p)[x] \in Costs
    BY <1>2, VisitedCost, BodyCosts
<1>4. RequestCostOf(p) \in Costs
    BY VisitedClosed, BodyCosts DEF Closed, Start, RequestCostOf, Visited
<1> HIDE DEF x
<1>5. PICK upTo : IsAccount(p, x, upTo)
    BY <1>2, Accounts
<1>6. i \in 1..Len(x[1])
    BY <1>2, NeedsArePairs
<1>7. /\ FetchesAt(x, i) \in Costs /\ EffectAt(p, x, i) \in Costs
      /\ AtMost(FetchesAt(x, i), BodyCost(p)[x]) /\ AtMost(EffectAt(p, x, i), BodyCost(p)[x])
    BY <1>5, <1>6 DEF IsAccount
<1>8. AtMost(FetchesAt(x, i), RequestCostOf(p)) /\ AtMost(EffectAt(p, x, i), RequestCostOf(p))
    BY <1>3, <1>4, <1>7, AtMostOrder
<1>9. Len(b[i].fetches) <= RequestCostOf(p).parallel
    BY <1>2, <1>8 DEF AtMost, FetchesAt, FetchesCost
<1>10. ASSUME e.kind = "match", NEW k \in DOMAIN e.arms, e.arms[k].kind = "retry"
       PROVE  1 <= RequestCostOf(p).parallel
    <2>1. e = x[1][i].effect /\ i \in DOMAIN x[1]
        BY <1>2
    <2> HIDE DEF e
    <2>2. AtMost(RetryCost, EffectAt(p, x, i))
        BY <1>2, <1>10, <2>1, EffectCosts
    <2>3. AtMost(RetryCost, RequestCostOf(p))
        BY <1>4, <1>7, <1>8, <2>2, AtMostOrder, BasicCosts
    <2> QED BY <2>3 DEF AtMost, RetryCost
<1>11. RequestCostOf(p).parallel \in Nat
    BY <1>4 DEF Costs
<1> QED BY <1>9, <1>10, <1>11

-----------------------------------------------------------------------------
(* The bodies on the stack.                                                *)

\* All that b can run is in S.
RunsIn(p, b, S) ==
    Inside(b) \subseteq S /\ \A n \in DOMAIN p.flows : Calls(b, n) => p.flows[n] \in S

\* All that the bodies of B can run is in B.
ClosedBodies(p, B) == \A b \in B : RunsIn(p, b, B)

\* The bodies of a stack's activations are in B.
BodiesIn(B, s) == \A k \in DOMAIN s : s[k].body \in B

\* So is the innermost one's.
LEMMA LastBody ==
    ASSUME NEW B, NEW s, StackOk(s), s # <<>>, BodiesIn(B, s)
    PROVE  Last(s).body \in B
<1>1. s \in Seq(FrameSet) /\ Last(s) = s[Len(s)] /\ Len(s) \in DOMAIN s
    BY StackUnder, Replaced DEF Last
<1> QED BY <1>1 DEF BodiesIn

\* They stay there when the innermost activation takes a step,
LEMMA BodiesBecome ==
    ASSUME NEW B, NEW s, StackOk(s), s # <<>>, BodiesIn(B, s), NEW x, x.body \in B
    PROVE  BodiesIn(B, Front(s) \o <<x>>)
<1> DEFINE S == FrameSet \cup {x}
           t == Front(s) \o <<x>>
<1>1. s \in Seq(S) /\ x \in S
    BY StackUnder
<1>2. t \in Seq(S) /\ Len(t) = Len(s) /\ \A k \in 1..Len(s) : t[k] = IF k = Len(s) THEN x ELSE s[k]
    <2> HIDE DEF S
    <2> QED BY <1>1, Replaced
<1>3. DOMAIN t = 1..Len(s) /\ DOMAIN s = 1..Len(s)
    BY <1>1, <1>2
<1> HIDE DEF t
<1>4. BodiesIn(B, t)
    BY <1>2, <1>3 DEF BodiesIn
<1> QED BY <1>4 DEF t

\* when it enters a body of B,
LEMMA BodiesEnter ==
    ASSUME NEW B, NEW s, StackOk(s), s # <<>>, BodiesIn(B, s),
           NEW x, x.body \in B, NEW b \in B
    PROVE  BodiesIn(B, Front(s) \o <<x, Frame(b)>>)
<1> DEFINE S == FrameSet \cup {x, Frame(b)}
           y == Frame(b)
           t == Front(s) \o <<x, y>>
<1>1. s \in Seq(S) /\ x \in S /\ y \in S /\ Len(s) \in Nat
    BY StackUnder
<1>2. y.body = b
    BY DEF Frame
<1> HIDE DEF S, y
<1>3. /\ t \in Seq(S) /\ Len(t) = Len(s) + 1
      /\ \A k \in 1..(Len(s) + 1) : t[k] = IF k < Len(s) THEN s[k] ELSE IF k = Len(s) THEN x ELSE y
    BY <1>1, Pushed
<1>4. DOMAIN t = 1..(Len(s) + 1) /\ DOMAIN s = 1..Len(s)
    BY <1>1, <1>3
<1> HIDE DEF t
<1>5. \A k \in 1..(Len(s) + 1) : k < Len(s) => k \in 1..Len(s)
    BY <1>1
<1>6. BodiesIn(B, t)
    BY <1>2, <1>3, <1>4, <1>5 DEF BodiesIn
<1> QED BY <1>6 DEF t, y

\* and when it is left.
LEMMA BodiesPop ==
    ASSUME NEW B, NEW s, StackOk(s), Len(s) > 1, BodiesIn(B, s),
           NEW x, x.body = Last(Front(s)).body
    PROVE  BodiesIn(B, Front(Front(s)) \o <<x>>) /\ Last(Front(s)) = s[Len(s) - 1]
<1> DEFINE S == FrameSet \cup {x}
           t == Front(Front(s)) \o <<x>>
<1>1. s \in Seq(S) /\ x \in S /\ Len(s) \in Nat
    BY StackUnder
<1> HIDE DEF S
<1>2. /\ t \in Seq(S) /\ Len(t) = Len(s) - 1 /\ Last(Front(s)) = s[Len(s) - 1]
      /\ \A k \in 1..(Len(s) - 1) : t[k] = IF k = Len(s) - 1 THEN x ELSE s[k]
    BY <1>1, Popped
<1>3. /\ DOMAIN t = 1..(Len(s) - 1) /\ DOMAIN s = 1..Len(s)
      /\ \A k \in 1..(Len(s) - 1) : k \in 1..Len(s)
    BY <1>1, <1>2
<1> HIDE DEF t
<1>4. BodiesIn(B, t)
    BY <1>2, <1>3 DEF BodiesIn
<1> QED BY <1>2, <1>4 DEF t

\* Hence an execution stays among bodies that contain what they run.
LEMMA BodiesStay ==
    ASSUME ReturnInv, Next, NEW B, ClosedBodies(program, B), BodiesIn(B, stack)
    PROVE  BodiesIn(B, stack')
<1>1. CASE stack' = <<>>
    BY <1>1 DEF BodiesIn
<1>2. CASE stack' = stack
    BY <1>2
<1>3. CASE stack' # <<>> /\ stack' # stack
    <2>1. stack # <<>>
        BY <1>3 DEF Next, Run, Fail, Tasks, Launch, Join, Plain, Return, CallFlow, BeginMatch, ValueArm,
           BodyArm, RetryArm, Refetched, GiveUp, BeginLoop, NextItem, EndBody, Unwind, Send, Answer,
           At, AtEffect
    <2>2. /\ StackOk(stack) /\ program \in Programs /\ Top = Last(stack) /\ Top \in FrameSet
          /\ FrameOk(Top) /\ Top.body \in B
        BY <2>1, TopOk, LastBody DEF ReturnInv, Top
    <2>3. ASSUME NEW x, x.body = Top.body, Become(x) PROVE BodiesIn(B, stack')
        BY <2>1, <2>2, <2>3, BodiesBecome DEF Become
    <2>4. ASSUME NEW x, x.body = Top.body, NEW b \in B, Enter(x, b) PROVE BodiesIn(B, stack')
        BY <2>1, <2>2, <2>4, BodiesEnter DEF Enter
    <2>5. Following(Top).body = Top.body /\ Valued(Top).body = Top.body
        BY <2>2 DEF Following, Valued, FrameSet
    <2>6. Top.at \notin {"launch", "unwind"} =>
             /\ Top.wave \in DOMAIN Top.body /\ Nested(Effect) \subseteq B
             /\ \A n \in DOMAIN program.flows :
                    Effect.kind = "call" /\ Effect.flow = n => program.flows[n] \in B
        <3>1. Top.at \notin {"launch", "unwind"} => Top.wave \in DOMAIN Top.body
            BY <2>2 DEF FrameOk, WellPlaced
        <3>2. \A i \in DOMAIN Top.body : Nested(Top.body[i].effect) \subseteq Inside(Top.body)
            BY DEF Inside
        <3> QED BY <2>2, <3>1, <3>2 DEF ClosedBodies, RunsIn, Calls, Effect, Wave
    <2>7. CASE \/ Launch \/ Join \/ Return \/ BeginMatch \/ RetryArm \/ Refetched \/ BeginLoop \/ EndBody
        <3>1. \E x : x.body = Top.body /\ Become(x)
            BY <2>2, <2>7 DEF Launch, Join, Return, BeginMatch, RetryArm, Refetched, BeginLoop,
               EndBody, FrameSet
        <3> QED BY <2>3, <3>1
    <2>8. CASE Plain \/ ValueArm \/ GiveUp
        <3>1. Become(Following(Top)) \/ Become(Valued(Top))
            BY <2>8 DEF Plain, ValueArm, GiveUp
        <3> QED BY <2>3, <2>5, <3>1
    <2>9. CASE CallFlow
        <3>1. CASE Effect.flow \in DOMAIN program.flows
            <4>1. /\ Enter([Top EXCEPT !.at = "inner"], program.flows[Effect.flow])
                  /\ Top.at = "effect" /\ Effect.kind = "call"
                BY <2>9, <3>1 DEF CallFlow, AtEffect, At
            <4>2. [Top EXCEPT !.at = "inner"].body = Top.body
                BY <2>2 DEF FrameSet
            <4> QED BY <2>4, <2>6, <3>1, <4>1, <4>2
        <3>2. CASE Effect.flow \notin DOMAIN program.flows
            <4>1. Become(Valued(Top))
                BY <2>9, <3>2 DEF CallFlow
            <4> QED BY <2>3, <2>5, <4>1
        <3> QED BY <3>1, <3>2
    <2>10. CASE BodyArm
        <3>1. PICK k \in DOMAIN Effect.arms :
                 Effect.arms[k].kind = "body" /\ Enter([Top EXCEPT !.at = "inner"], Effect.arms[k].body)
            BY <2>10 DEF BodyArm, Arms
        <3>2. Top.at = "match" /\ Effect.kind = "match"
            BY <2>2, <2>10 DEF BodyArm, At, FrameOk, WellPlaced, EffectIn, Effect, Wave
        <3>3. Effect.arms[k].body \in B
            BY <2>6, <3>1, <3>2 DEF Nested, ArmBodies
        <3>4. [Top EXCEPT !.at = "inner"].body = Top.body
            BY <2>2 DEF FrameSet
        <3> QED BY <2>4, <3>1, <3>3, <3>4
    <2>11. CASE NextItem
        <3>1. CASE Top.left = 0
            <4>1. Become(Following(Top))
                BY <2>11, <3>1 DEF NextItem
            <4> QED BY <2>3, <2>5, <4>1
        <3>2. CASE Top.left # 0
            <4> DEFINE x == [Top EXCEPT !.at = "inner", !.left = @ - 1]
            <4>1. Enter(x, Effect.body)
                BY <2>11, <3>2 DEF NextItem
            <4>2. x.body = Top.body
                BY <2>2 DEF FrameSet
            <4>3. Top.at = "loop" /\ Effect.kind = "for"
                BY <2>2, <2>11 DEF NextItem, At, FrameOk, WellPlaced, EffectIn, Effect, Wave
            <4>4. Effect.body \in B
                BY <2>6, <4>3 DEF Nested
            <4> HIDE DEF x
            <4> QED BY <2>4, <4>1, <4>2, <4>4
        <3> QED BY <3>1, <3>2
    <2>12. CASE Unwind
        <3> DEFINE fr == Last(Front(stack))
                   x == Resume(fr, Top)
                   n == Len(stack)
        <3>1. stack' = Front(Front(stack)) \o <<x>> /\ n # 1
            BY <1>3, <2>12 DEF Unwind
        <3>2. n \in Nat /\ n > 1 /\ fr = stack[n - 1]
            <4>1. stack \in Seq(FrameSet)
                BY <2>2, StackUnder
            <4>2. n \in Nat /\ n > 1
                BY <2>1, <3>1, <4>1
            <4> QED BY <2>2, <4>1, <4>2, Popped
        <3>3. fr \in FrameSet
            <4>1. n - 1 \in 1..n
                BY <3>2
            <4> QED BY <2>2, <3>2, <4>1, StackUnder
        <3> HIDE DEF n, fr
        <3>4. x.body = fr.body
            BY <3>3 DEF Resume, Valued, Following, FrameSet
        <3> HIDE DEF x
        <3> QED BY <2>2, <3>1, <3>2, <3>4, BodiesPop DEF fr, n
    <2> QED BY <1>3, <2>7, <2>8, <2>9, <2>10, <2>11, <2>12
            DEF Next, Run, Fail, Tasks, Send, Answer
<1> QED BY <1>1, <1>2, <1>3

-----------------------------------------------------------------------------
(* The wire is as wide as the wave, or the retry, that is waited for.      *)

\* How many requests the innermost activation can be waiting for.
Room(p, s) ==
    IF s = <<>> THEN RequestCostOf(p).parallel
    ELSE CASE Last(s).at = "join"    -> Len(Last(s).body[Last(s).wave].fetches)
           [] Last(s).at = "refetch" -> 1
           [] OTHER -> 0

\* The requests not yet sent and those not yet answered fit in there.
WireOk(p, s, waiting, asked) ==
    /\ waiting \in Nat /\ asked \in Nat /\ waiting + asked <= Room(p, s)
    /\ BodiesIn({b \in p.bodies : Entered(p, b)}, s)

WireInv == ReturnInv /\ WireOk(program, stack, queued, open)

\* The figure that bounds parallel requests is a number.
LEMMA WidthInNat ==
    ASSUME NEW p \in Programs
    PROVE  RequestCostOf(p).parallel \in Nat
BY VisitedClosed, BodyCosts DEF Closed, Start, RequestCostOf, Visited, Costs

\* The bodies the analysis enters contain what they run.
LEMMA EnteredClosed ==
    ASSUME NEW p \in Programs
    PROVE  ClosedBodies(p, {b \in p.bodies : Entered(p, b)})
BY EnteredBodies, ProgramsAssumption DEF ClosedBodies, RunsIn

\* No activation waits for more requests than the program's figure.
LEMMA RoomFits ==
    ASSUME program \in Programs, NEW s, StackOk(s),
           BodiesIn({b \in program.bodies : Entered(program, b)}, s)
    PROVE  Room(program, s) \in Nat /\ Room(program, s) <= RequestCostOf(program).parallel
<1> DEFINE wide == RequestCostOf(program).parallel
           fr == Last(s)
<1>1. wide \in Nat
    BY WidthInNat
<1>2. CASE s = <<>>
    BY <1>1, <1>2 DEF Room
<1>3. CASE s # <<>>
    <2> DEFINE B == {b \in program.bodies : Entered(program, b)}
    <2>1. fr \in FrameSet /\ FrameOk(fr) /\ fr.body \in program.bodies
        <3>1. s \in Seq(FrameSet) /\ fr = s[Len(s)] /\ Len(s) \in 1..Len(s)
            BY <1>3, StackUnder, Replaced DEF Last
        <3>2. fr \in FrameSet /\ FrameOk(fr)
            <4> HIDE DEF fr
            <4> QED BY <3>1, StackUnder
        <3> QED BY <3>2 DEF FrameSet
    <2>2. fr.body \in B
        <3> HIDE DEF B
        <3> QED BY <1>3, LastBody DEF B
    <2> HIDE DEF fr
    <2>3. CASE fr.at = "join"
        <3>1. fr.wave \in DOMAIN fr.body
            BY <2>1, <2>3 DEF FrameOk, WellPlaced
        <3>2. Len(fr.body[fr.wave].fetches) <= wide
            BY <2>2, <3>1, EnteredWidth
        <3>3. WaveOk(fr.body[fr.wave])
            BY <2>1, <3>1, ProgramsAssumption
        <3>4. Len(fr.body[fr.wave].fetches) \in Nat
            BY <3>3 DEF WaveOk
        <3> QED BY <1>3, <2>1, <2>3, <3>2, <3>4 DEF Room, fr
    <2>4. CASE fr.at = "refetch"
        <3>1. /\ fr.wave \in DOMAIN fr.body /\ EffectIn(fr).kind = "match"
              /\ Retries(EffectIn(fr))
            BY <2>1, <2>4 DEF FrameOk, WellPlaced
        <3>2. 1 <= wide
            BY <2>2, <3>1, EnteredWidth DEF Retries, EffectIn
        <3> QED BY <1>3, <2>1, <2>4, <3>2 DEF Room, fr
    <2>5. CASE fr.at \notin {"join", "refetch"}
        BY <1>1, <1>3, <2>1, <2>5 DEF Room, fr
    <2> QED BY <2>3, <2>4, <2>5
<1> QED BY <1>2, <1>3

\* The wire is empty at the start.
LEMMA InitWire == Init => WireInv
<1> SUFFICES ASSUME Init PROVE WireInv
    OBVIOUS
<1>1. ReturnInv /\ program \in Programs /\ queued = 0 /\ open = 0 /\ stack = <<Frame(program.main)>>
    BY InitReturn DEF Init, ReturnInv
<1>2. BodiesIn({b \in program.bodies : Entered(program, b)}, stack)
    <2>1. Entered(program, program.main) /\ program.main \in program.bodies
        BY <1>1, VisitedClosed, ProgramsAssumption DEF Entered, Closed, Start
    <2>2. stack = <<Frame(program.main)>> /\ DOMAIN stack = {1} /\ stack[1].body = program.main
        BY <1>1 DEF Frame
    <2> QED BY <2>1, <2>2 DEF BodiesIn
<1>3. Room(program, stack) \in Nat
    BY <1>1, <1>2, RoomFits DEF ReturnInv
<1> QED BY <1>1, <1>2, <1>3 DEF WireInv, WireOk

\* Every step keeps the requests on the wire within the room.
LEMMA StepWire == WireInv /\ [Next]_vars => WireInv'
<1>1. ASSUME WireInv, UNCHANGED vars PROVE WireInv'
    BY <1>1, StepReturn DEF WireInv, vars, WireOk, BodiesIn
<1>2. ASSUME WireInv, Next PROVE WireInv'
    <2> DEFINE B == {b \in program.bodies : Entered(program, b)}
    <2>1. /\ ReturnInv /\ ReturnInv' /\ BodiesIn(B, stack) /\ program \in Programs
          /\ queued \in Nat /\ open \in Nat /\ queued + open <= Room(program, stack)
        BY <1>2, StepReturn DEF WireInv, WireOk, ReturnInv
    <2>2. program' = program
        BY <1>2 DEF Next, Run, Fail, Tasks, Launch, Join, Plain, Return, CallFlow, BeginMatch, ValueArm,
           BodyArm, RetryArm, Refetched, GiveUp, BeginLoop, NextItem, EndBody, Unwind, Send, Answer
    <2>3. BodiesIn(B, stack')
        <3>1. ClosedBodies(program, B)
            BY <2>1, EnteredClosed
        <3> HIDE DEF B
        <3> QED BY <1>2, <2>1, <3>1, BodiesStay
    <2>4. Room(program, stack') \in Nat /\ Room(program, stack) \in Nat
        <3>1. StackOk(stack') /\ StackOk(stack)
            BY <2>1, <2>2, SameProgram DEF ReturnInv
        <3> QED BY <2>1, <2>3, <3>1, RoomFits
    <2>5. /\ stack # <<>> => /\ Top \in FrameSet /\ FrameOk(Top) /\ Top = Last(stack)
                             /\ Effect = EffectIn(Top)
          /\ stack \in Seq(FrameSet)
        BY <2>1, TopOk, StackUnder DEF ReturnInv, Top, Effect, Wave, EffectIn
    <2> HIDE DEF B
    <2>6. ASSUME NEW x, x \in FrameSet, stack # <<>>, Become(x)
          PROVE  stack' # <<>> /\ Last(stack') = x
        <3> DEFINE t == Front(stack) \o <<x>>
        <3>1. /\ t \in Seq(FrameSet) /\ Len(t) = Len(stack) /\ Len(stack) \in DOMAIN stack
              /\ \A k \in 1..Len(stack) : t[k] = IF k = Len(stack) THEN x ELSE stack[k]
            BY <2>5, <2>6, Replaced
        <3>2. stack' = t /\ Len(stack) \in 1..Len(stack)
            BY <2>5, <2>6, <3>1 DEF Become
        <3> HIDE DEF t
        <3> QED BY <3>1, <3>2 DEF Last
    <2>7. /\ queued' \in Nat /\ open' \in Nat /\ queued' + open' <= Room(program, stack')
        <3>1. CASE Tasks
            <4>1. stack' = stack /\ Room(program, stack') = Room(program, stack)
                BY <3>1 DEF Tasks, Send, Answer
            <4>2. CASE Send
                BY <2>1, <2>4, <4>1, <4>2 DEF Send
            <4>3. CASE Answer
                BY <2>1, <2>4, <4>1, <4>3 DEF Answer
            <4> QED BY <3>1, <4>2, <4>3 DEF Tasks
        <3>2. CASE Fail
            <4>1. Room(program, stack) <= Room(program, stack')
                BY <2>1, <3>2, RoomFits DEF Fail, Room, ReturnInv, B
            <4>2. queued' = queued /\ open' = open
                BY <3>2 DEF Fail
            <4> QED BY <2>1, <2>4, <4>1, <4>2
        <3>3. CASE Launch
            <4> DEFINE x == [Top EXCEPT !.at = "join"]
            <4>1. stack # <<>> /\ Top.at = "launch" /\ Become(x)
                BY <3>3 DEF Launch, At
            <4>2. /\ x \in FrameSet /\ x.at = "join" /\ x.body = Top.body /\ x.wave = Top.wave
                BY <2>5, <4>1 DEF FrameSet, Places
            <4> HIDE DEF x
            <4>3. Room(program, stack) = 0 /\ Room(program, stack') = Len(Wave.fetches)
                BY <2>5, <2>6, <4>1, <4>2 DEF Room, Wave
            <4> QED BY <2>1, <2>4, <3>3, <4>3 DEF Launch
        <3>4. CASE RetryArm
            <4>1. stack # <<>> /\ Top.at = "match"
                BY <3>4 DEF RetryArm, At
            <4>2. Room(program, stack) = 0
                BY <2>5, <4>1 DEF Room
            <4>3. CASE Effect.fetched
                <5> DEFINE x == [Top EXCEPT !.at = "refetch", !.attempt = Top.attempt + 1]
                <5>1. Become(x)
                    BY <3>4, <4>3 DEF RetryArm
                <5>2. x \in FrameSet /\ x.at = "refetch"
                    <6>1. Top.attempt + 1 \in Nat /\ "refetch" \in Places
                        BY <2>5, <4>1 DEF FrameSet, Places
                    <6> QED BY <2>5, <4>1, <6>1 DEF FrameSet
                <5> HIDE DEF x
                <5>3. Room(program, stack') = 1
                    BY <2>6, <4>1, <5>1, <5>2 DEF Room
                <5>4. queued' = queued + 1 /\ open' = open
                    BY <3>4, <4>3 DEF RetryArm
                <5>5. queued + open <= 0
                    BY <2>1, <4>2
                <5> QED BY <2>1, <2>4, <5>3, <5>4, <5>5
            <4>4. CASE ~Effect.fetched
                BY <2>1, <2>4, <3>4, <4>2, <4>4 DEF RetryArm
            <4> QED BY <4>3, <4>4
        <3>5. CASE Join \/ Refetched
            <4>1. queued = 0 /\ open = 0 /\ queued' = 0 /\ open' = 0
                BY <3>5 DEF Join, Refetched, AllJoined
            <4> QED BY <2>4, <4>1
        <3>6. CASE \/ Plain \/ Return \/ CallFlow \/ BeginMatch \/ ValueArm \/ BodyArm
                   \/ GiveUp \/ BeginLoop \/ NextItem \/ EndBody \/ Unwind
            <4>1. /\ stack # <<>> /\ Top.at \notin {"join", "refetch"}
                  /\ queued' = queued /\ open' = open
                BY <3>6 DEF Plain, Return, CallFlow, BeginMatch, ValueArm, BodyArm, GiveUp, BeginLoop,
                   NextItem, EndBody, Unwind, At, AtEffect
            <4>2. Room(program, stack) = 0
                BY <2>5, <4>1 DEF Room
            <4> QED BY <2>1, <2>4, <4>1, <4>2
        <3> QED BY <1>2, <3>1, <3>2, <3>3, <3>4, <3>5, <3>6 DEF Next, Run
    <2>8. WireOk(program, stack', queued', open')
        BY <2>3, <2>7 DEF WireOk, B
    <2> QED BY <2>1, <2>2, <2>8 DEF WireInv
<1> QED BY <1>1, <1>2

(***************************************************************************)
(* The engine never has more requests on the wire than an accepted budget  *)
(* on parallel requests allows (cost.rs, check_one; exec.rs, run_body), in *)
(* every program: the analysis counts each wave that an execution can come *)
(* to, also where flows call themselves.                                   *)
(***************************************************************************)
THEOREM ParallelBudgetIsKept == Spec => []ParallelKept
<1>1. WireInv => ParallelKept
    <2> SUFFICES ASSUME WireInv, NEW n \in 0..open, Accepts(Cost, Declared("parallel", n))
                 PROVE  open <= n
        BY DEF ParallelKept
    <2>1. /\ queued \in Nat /\ open \in Nat /\ queued + open <= Room(program, stack)
          /\ program \in Programs
        BY DEF WireInv, WireOk, ReturnInv
    <2>2. Room(program, stack) \in Nat /\ Room(program, stack) <= Cost.parallel /\ Cost.parallel \in Nat
        BY <2>1, RoomFits, WidthInNat DEF WireInv, WireOk, ReturnInv, Cost
    <2>3. Cost.parallel <= n
        BY <2>1 DEF Accepts, Declared, NoBudget, Within, Undeclared
    <2> QED BY <2>1, <2>2, <2>3
<1>2. Init => WireInv
    BY InitWire
<1>3. WireInv /\ [Next]_vars => WireInv'
    BY StepWire
<1> QED BY <1>1, <1>2, <1>3, PTL DEF Spec

-----------------------------------------------------------------------------
(* Without recursive flows, a body costs the same wherever it is run.      *)

\* FlowsDoNotRecur of a given program.
NoRecursion(p) ==
    \A n \in DOMAIN p.flows : \E S \in SUBSET p.bodies :
        RunsIn(p, p.flows[n], S) /\ ClosedBodies(p, S) /\ p.flows[n] \notin S

\* Nothing that b runs is a flow being visited.
Free(p, b, v) ==
    \E S \in SUBSET p.bodies :
        RunsIn(p, b, S) /\ ClosedBodies(p, S) /\ \A n \in v : p.flows[n] \notin S

\* It is the condition that the budgets name.
LEMMA NoRecursionThere == program \in Programs => (FlowsDoNotRecur <=> NoRecursion(program))
<1> SUFFICES ASSUME program \in Programs PROVE FlowsDoNotRecur <=> NoRecursion(program)
    OBVIOUS
<1>1. \A b : \A S : Runs(b) \subseteq S <=> RunsIn(program, b, S)
    BY DEF Runs, RunsIn, Calls
<1>2. \A S : RunsAll(S) <=> ClosedBodies(program, S)
    BY <1>1 DEF RunsAll, ClosedBodies
<1> QED BY <1>1, <1>2 DEF FlowsDoNotRecur, NoRecursion

\* What a free body runs is free, of the flow it calls as well.
LEMMA FreeNeeds ==
    ASSUME NEW p \in Programs, NoRecursion(p), NEW b, NEW v, Free(p, b, v)
    PROVE  /\ \A c \in Inside(b) : Free(p, c, v)
           /\ \A n \in DOMAIN p.flows : Calls(b, n) => n \notin v /\ Free(p, p.flows[n], v \cup {n})
<1>1. PICK S \in SUBSET p.bodies :
          RunsIn(p, b, S) /\ ClosedBodies(p, S) /\ \A n \in v : p.flows[n] \notin S
    BY DEF Free
<1>2. \A c \in Inside(b) : Free(p, c, v)
    BY <1>1 DEF RunsIn, ClosedBodies, Free
<1>3. ASSUME NEW n \in DOMAIN p.flows, Calls(b, n)
      PROVE  n \notin v /\ Free(p, p.flows[n], v \cup {n})
    <2>1. p.flows[n] \in S /\ RunsIn(p, p.flows[n], S) /\ n \notin v
        BY <1>1, <1>3 DEF RunsIn, ClosedBodies
    <2>2. PICK T \in SUBSET p.bodies :
              RunsIn(p, p.flows[n], T) /\ ClosedBodies(p, T) /\ p.flows[n] \notin T
        BY DEF NoRecursion
    <2>3. S \cap T \in SUBSET p.bodies /\ RunsIn(p, p.flows[n], S \cap T)
        BY <2>1, <2>2 DEF RunsIn
    <2>4. ClosedBodies(p, S \cap T)
        BY <1>1, <2>2 DEF ClosedBodies, RunsIn
    <2>5. \A k \in v \cup {n} : p.flows[k] \notin S \cap T
        BY <1>1, <2>2
    <2> QED BY <2>1, <2>3, <2>4, <2>5 DEF Free
<1> QED BY <1>2, <1>3

\* The cost of a free body is the same whichever of the two sets is being visited.
LEMMA FreeCosts ==
    ASSUME NEW p \in Programs, NoRecursion(p), NEW b \in p.bodies,
           NEW v \in SUBSET DOMAIN p.flows, NEW w \in SUBSET DOMAIN p.flows,
           Free(p, b, v), Free(p, b, w)
    PROVE  BodyCost(p)[<<b, v>>] = BodyCost(p)[<<b, w>>]
<1> DEFINE cost == BodyCost(p)
           Bad == {x \in Pairs(p) : \E u \in SUBSET DOMAIN p.flows :
                       /\ Free(p, x[1], x[2]) /\ Free(p, x[1], u)
                       /\ cost[x] # cost[<<x[1], u>>]}
<1>1. Bad = {}
    <2> SUFFICES ASSUME Bad # {} PROVE FALSE
        OBVIOUS
    <2>1. PICK x \in Bad : Needs(p, x) \cap Bad = {}
        <3>1. Bad \in SUBSET Pairs(p) /\ Bad # {}
            OBVIOUS
        <3> HIDE DEF Bad
        <3> QED BY <3>1, InnermostPair
    <2>2. PICK u \in SUBSET DOMAIN p.flows :
              Free(p, x[1], x[2]) /\ Free(p, x[1], u) /\ cost[x] # cost[<<x[1], u>>]
        BY <2>1
    <2> DEFINE y == <<x[1], u>>
    <2>3. x \in Pairs(p) /\ y \in Pairs(p) /\ y[1] = x[1] /\ y[2] = u
        BY <2>1 DEF Pairs
    <2>4. ASSUME NEW z \in Needs(p, x), NEW t \in SUBSET DOMAIN p.flows,
                 Free(p, z[1], z[2]), Free(p, z[1], t)
          PROVE  cost[z] = cost[<<z[1], t>>]
        BY <2>1, <2>3, <2>4, NeedsArePairs
    <2>5. \A c \in Inside(x[1]) : cost[<<c, x[2]>>] = cost[<<c, u>>]
        <3> SUFFICES ASSUME NEW c \in Inside(x[1]) PROVE cost[<<c, x[2]>>] = cost[<<c, u>>]
            OBVIOUS
        <3>1. <<c, x[2]>> \in Needs(p, x)
            BY DEF Needs
        <3>2. Free(p, c, x[2]) /\ Free(p, c, u)
            BY <2>2, FreeNeeds
        <3> HIDE DEF Bad, cost
        <3> QED BY <2>4, <3>1, <3>2
    <2>6. \A n \in DOMAIN p.flows : Calls(x[1], n) =>
              /\ n \notin x[2] /\ n \notin u
              /\ cost[<<p.flows[n], x[2] \cup {n}>>] = cost[<<p.flows[n], u \cup {n}>>]
        <3> SUFFICES ASSUME NEW n \in DOMAIN p.flows, Calls(x[1], n)
                     PROVE  /\ n \notin x[2] /\ n \notin u
                            /\ cost[<<p.flows[n], x[2] \cup {n}>>] = cost[<<p.flows[n], u \cup {n}>>]
            OBVIOUS
        <3>1. /\ n \notin x[2] /\ Free(p, p.flows[n], x[2] \cup {n})
              /\ n \notin u /\ Free(p, p.flows[n], u \cup {n})
            BY <2>2, FreeNeeds
        <3>2. <<p.flows[n], x[2] \cup {n}>> \in Needs(p, x) /\ u \cup {n} \in SUBSET DOMAIN p.flows
            BY <3>1 DEF Needs, Calls
        <3> HIDE DEF Bad, cost
        <3> QED BY <2>4, <3>1, <3>2
    <2> HIDE DEF Bad
    <2>7. ASSUME NEW i \in DOMAIN x[1]
          PROVE  EffectCost(p, cost, x[1][i].effect, x[2]) = EffectCost(p, cost, x[1][i].effect, u)
        <3> DEFINE e == x[1][i].effect
        <3>1. \A c \in Nested(e) : cost[<<c, x[2]>>] = cost[<<c, u>>]
            BY <2>5 DEF Inside
        <3>2. e.kind = "call" /\ e.flow \in DOMAIN p.flows =>
                 /\ e.flow \notin x[2] /\ e.flow \notin u
                 /\ cost[<<p.flows[e.flow], x[2] \cup {e.flow}>>] = cost[<<p.flows[e.flow], u \cup {e.flow}>>]
            BY <2>6 DEF Calls
        <3> HIDE DEF e, cost
        <3>3. CASE e.kind = "call"
            BY <3>2, <3>3 DEF EffectCost, e
        <3>4. CASE e.kind = "for"
            BY <3>1, <3>4 DEF EffectCost, Nested, e
        <3>5. CASE e.kind = "match"
            <4>1. \A k \in DOMAIN e.arms : e.arms[k].kind = "body" => e.arms[k].body \in Nested(e)
                BY <3>5 DEF Nested, ArmBodies
            <4>2. \A k \in DOMAIN e.arms : ArmCost(cost, e.arms[k], x[2]) = ArmCost(cost, e.arms[k], u)
                BY <3>1, <4>1 DEF ArmCost
            <4>3. [k \in DOMAIN e.arms |-> ArmCost(cost, e.arms[k], x[2])]
                     = [k \in DOMAIN e.arms |-> ArmCost(cost, e.arms[k], u)]
                BY <4>2
            <4> QED BY <3>5, <4>3 DEF EffectCost, e
        <3>6. CASE e.kind \notin {"call", "for", "match"}
            BY <3>6 DEF EffectCost, e
        <3> QED BY <3>3, <3>4, <3>5, <3>6
    <2>8. WaveCosts(p, cost, x[1], x[2]) = WaveCosts(p, cost, x[1], u)
        BY <2>7 DEF WaveCosts
    <2>9. /\ cost[x] = Total(WaveCosts(p, cost, x[1], x[2]))
          /\ cost[y] = Total(WaveCosts(p, cost, x[1], u))
        BY <2>3, BodyCostSolves DEF Solves
    <2> QED BY <2>2, <2>8, <2>9
<1>2. <<b, v>> \in Pairs(p) /\ <<b, v>>[1] = b /\ <<b, v>>[2] = v
    BY DEF Pairs
<1> QED BY <1>1, <1>2

\* A flow costs the same in a call as on its own.
LEMMA FlowCosts ==
    ASSUME NEW p \in Programs, NoRecursion(p), NEW n \in DOMAIN p.flows
    PROVE  BodyCost(p)[<<p.flows[n], {n}>>] = BodyCost(p)[<<p.flows[n], {}>>]
<1>1. p.flows[n] \in p.bodies /\ {n} \in SUBSET DOMAIN p.flows /\ {} \in SUBSET DOMAIN p.flows
    BY ProgramsAssumption
<1>2. Free(p, p.flows[n], {n}) /\ Free(p, p.flows[n], {})
    BY DEF NoRecursion, Free
<1> QED BY <1>1, <1>2, FreeCosts

-----------------------------------------------------------------------------
(* What an activation may still spend.                                     *)

\* The figures that add up, and those of a body outside any flow: its cost,
\* its account and the cost of a wave's effect.
Measures == {"requests", "depth", "latency"}

Field(c, m) == CASE m = "requests" -> c.requests
                 [] m = "depth"    -> c.depth
                 [] m = "latency"  -> c.latency

Own(p, b) == BodyCost(p)[<<b, {}>>]
UpTo(p, b) == CHOOSE upTo : IsAccount(p, <<b, {}>>, upTo)
EffectIs(p, b, i) == EffectAt(p, <<b, {}>>, i)

\* What launching a wave spends.
Spends(lats, m) == CASE m = "requests" -> Len(lats)
                     [] m = "depth"    -> IF lats = <<>> THEN 0 ELSE 1
                     [] m = "latency"  -> Slowest(lats)

\* NoMixedWave and RetriesAlone of a given program.
Unmixed(p) == \A b \in p.bodies : \A i \in DOMAIN b :
                  b[i].fetches = <<>> \/ EffectIs(p, b, i).requests = 0

Alone(p) == \A b \in p.bodies : \A i \in DOMAIN b :
                b[i].effect.kind = "match" /\ Retries(b[i].effect) =>
                    \A c \in ArmBodies(b[i].effect) : Own(p, c).requests <= 1

\* The programs that a budget on m bounds.
Fine(p, m) ==
    /\ ~RequestCostOf(p).unbounded /\ Field(RequestCostOf(p), m) # Undeclared
    /\ NoRecursion(p)
    /\ m # "requests" => Unmixed(p)
    /\ m # "latency" => Alone(p)

\* The bodies that cost no more than the program.
Cheap(p) == {b \in p.bodies : AtMost(Own(p, b), RequestCostOf(p))}

\* The costs of a program and of its bodies are costs.
LEMMA ProgramCost ==
    ASSUME NEW p \in Programs
    PROVE  RequestCostOf(p) \in Costs /\ \A b \in p.bodies : Own(p, b) \in Costs
BY VisitedClosed, BodyCosts DEF Closed, Start, RequestCostOf, Visited, Own, Pairs

\* A figure that is not undeclared is a number.
LEMMA FieldsNat ==
    ASSUME NEW c \in Costs, NEW m \in Measures, Field(c, m) # Undeclared
    PROVE  Field(c, m) \in Nat
BY DEF Costs, Measures, Field

\* Figures are ordered as their costs are.
LEMMA FieldsAtMost ==
    ASSUME NEW c \in Costs, NEW d \in Costs, AtMost(c, d), NEW m \in Measures, Field(d, m) # Undeclared
    PROVE  Field(c, m) \in Nat /\ Field(d, m) \in Nat /\ Field(c, m) <= Field(d, m)
<1>1. Field(d, m) \in Nat /\ (Field(c, m) # Undeclared => Field(c, m) \in Nat)
    BY FieldsNat
<1>2. Field(c, m) # Undeclared /\ Field(c, m) <= Field(d, m)
    <2>1. CASE m = "requests"
        BY <2>1 DEF Field, AtMost, Costs, Undeclared
    <2>2. CASE m = "depth"
        BY <2>2 DEF Field, AtMost, Costs, Undeclared
    <2>3. CASE m = "latency"
        BY <2>3 DEF Field, AtMost, Costs, Undeclared
    <2> QED BY <2>1, <2>2, <2>3 DEF Measures
<1> QED BY <1>1, <1>2

\* A body that is not unbounded pays for its waves one by one.
LEMMA WaveAccount ==
    ASSUME NEW p \in Programs, NEW m \in Measures, Fine(p, m), NEW b \in Cheap(p)
    PROVE  /\ Field(Own(p, b), m) \in Nat /\ ~Own(p, b).unbounded
           /\ Field(UpTo(p, b)[0], m) = 0
           /\ Field(UpTo(p, b)[Len(b)], m) = Field(Own(p, b), m)
           /\ \A i \in 1..Len(b) :
                  /\ Field(UpTo(p, b)[i - 1], m) \in Nat /\ Field(UpTo(p, b)[i], m) \in Nat
                  /\ EffectIs(p, b, i) \in Costs /\ ~EffectIs(p, b, i).unbounded
                  /\ Field(EffectIs(p, b, i), m) \in Nat /\ Spends(b[i].fetches, m) \in Nat
                  /\ Field(UpTo(p, b)[i - 1], m) + Spends(b[i].fetches, m) + Field(EffectIs(p, b, i), m)
                        <= Field(UpTo(p, b)[i], m)
                  /\ Field(UpTo(p, b)[i], m) <= Field(Own(p, b), m)
<1> DEFINE x == <<b, {}>>
           u == UpTo(p, b)
           c == Own(p, b)
<1>1. x \in Pairs(p) /\ x[1] = b /\ x[2] = {} /\ b \in p.bodies
    BY DEF Pairs, Cheap
<1>2. IsAccount(p, x, u)
    BY <1>1, Accounts DEF UpTo
<1>3. c \in Costs /\ RequestCostOf(p) \in Costs /\ AtMost(c, RequestCostOf(p)) /\ c = BodyCost(p)[x]
    BY <1>1, ProgramCost DEF Cheap, Own
<1>4. Field(c, m) \in Nat /\ Field(c, m) # Undeclared /\ ~c.unbounded
    <2>1. Field(c, m) \in Nat
        BY <1>3, FieldsAtMost DEF Fine
    <2> QED BY <1>3, <2>1 DEF Fine, AtMost, Undeclared
<1>5. u[0] = NoCost /\ u[Len(b)] = c /\ Len(b) \in Nat /\ DOMAIN b = 1..Len(b)
    BY <1>1, <1>2, <1>3, NeedsArePairs DEF IsAccount
<1>6. Field(u[0], m) = 0
    BY <1>5 DEF NoCost, Field, Measures
<1>7. ASSUME NEW i \in 1..Len(b)
      PROVE  /\ Field(u[i - 1], m) \in Nat /\ Field(u[i], m) \in Nat
             /\ EffectIs(p, b, i) \in Costs /\ ~EffectIs(p, b, i).unbounded
             /\ Field(EffectIs(p, b, i), m) \in Nat /\ Spends(b[i].fetches, m) \in Nat
             /\ Field(u[i - 1], m) + Spends(b[i].fetches, m) + Field(EffectIs(p, b, i), m) <= Field(u[i], m)
             /\ Field(u[i], m) <= Field(c, m)
    <2> DEFINE e == EffectIs(p, b, i)
               ft == FetchesCost(b[i].fetches)
               lo == u[i - 1]
               hi == u[i]
    <2>1. /\ hi = InSequence(lo, Together(ft, e))
          /\ lo \in Costs /\ hi \in Costs /\ ft \in Costs /\ e \in Costs
          /\ AtMost(lo, hi) /\ AtMost(hi, c) /\ AtMost(ft, c) /\ AtMost(e, c)
        <3>1. ft = FetchesAt(x, i) /\ e = EffectAt(p, x, i)
            BY <1>1 DEF FetchesAt, EffectIs
        <3>2. i \in 1..Len(x[1]) /\ i \in 0..Len(x[1])
            BY <1>1, <1>5
        <3> HIDE DEF e, ft, c, u, x
        <3> QED BY <1>2, <1>3, <3>1, <3>2 DEF IsAccount
    <2>2. b[i].fetches \in Seq(Nat \cup {Undeclared}) /\ i \in DOMAIN b
        BY <1>1, <1>5, ProgramsAssumption DEF WaveOk
    <2>3. b[i].fetches = <<>> \/ e.requests = 0 \/ m = "requests"
        BY <1>1, <2>2 DEF Fine, Unmixed
    <2>4. /\ Slowest(b[i].fetches) \in Nat /\ Len(b[i].fetches) \in Nat
          /\ b[i].fetches = <<>> => Slowest(b[i].fetches) = 0
        BY <2>2, SlowestOf
    <2> HIDE DEF e, ft, lo, hi, c, u, x
    <2>5. /\ Field(lo, m) \in Nat /\ Field(hi, m) \in Nat /\ Field(ft, m) \in Nat /\ Field(e, m) \in Nat
          /\ Field(hi, m) <= Field(c, m) /\ ~e.unbounded
        <3>1. Field(hi, m) \in Nat /\ Field(hi, m) <= Field(c, m)
            BY <1>3, <1>4, <2>1, FieldsAtMost
        <3>2. Field(hi, m) # Undeclared
            BY <3>1 DEF Undeclared
        <3>3. Field(lo, m) \in Nat
            BY <2>1, <3>2, FieldsAtMost
        <3>4. Field(ft, m) \in Nat /\ Field(e, m) \in Nat
            BY <1>3, <1>4, <2>1, FieldsAtMost
        <3> QED BY <1>4, <2>1, <3>1, <3>3, <3>4 DEF AtMost
    <2>6. Spends(b[i].fetches, m) \in Nat
        BY <2>4 DEF Spends, Measures
    <2>7. Field(lo, m) + Spends(b[i].fetches, m) + Field(e, m) <= Field(hi, m)
        <3>1. CASE m = "requests"
            BY <2>1, <2>4, <2>5, <3>1 DEF Field, Spends, InSequence, Together, JoinAlt, FetchesCost, ft
        <3>2. CASE m = "depth"
            <4>1. ft.depth = Spends(b[i].fetches, m) /\ (b[i].fetches = <<>> => ft.depth = 0)
                BY <3>2 DEF FetchesCost, ft, Spends
            <4>2. e.requests = 0 => e.depth = 0
                BY <2>1 DEF Costs
            <4>3. hi.depth = lo.depth + Larger(ft.depth, e.depth)
                BY <2>1 DEF InSequence, Together, JoinAlt
            <4>4. ft.depth = 0 \/ e.depth = 0
                BY <2>3, <3>2, <4>1, <4>2
            <4>5. lo.depth \in Nat /\ e.depth \in Nat /\ ft.depth \in Nat
                BY <2>5, <3>2 DEF Field
            <4> QED BY <3>2, <4>1, <4>3, <4>4, <4>5 DEF Field, Larger
        <3>3. CASE m = "latency"
            <4>1. /\ lo.latency \in Nat /\ e.latency \in Nat /\ ft.latency \in Nat /\ hi.latency \in Nat
                BY <2>5, <3>3 DEF Field
            <4>2. ft.latency = Spends(b[i].fetches, m)
                BY <3>3, <4>1 DEF FetchesCost, ft, Spends, Undeclared
            <4>3. b[i].fetches = <<>> => ft.latency = 0
                BY <2>4, <3>3, <4>2 DEF Spends
            <4>4. e.requests = 0 => e.latency = 0
                BY <2>1 DEF Costs
            <4>5. hi.latency = lo.latency + Larger(ft.latency, e.latency)
                BY <2>1, <4>1 DEF InSequence, Together, JoinAlt, LatAdd, LatMax, Larger, Undeclared
            <4>6. ft.latency = 0 \/ e.latency = 0
                BY <2>3, <3>3, <4>3, <4>4
            <4> QED BY <3>3, <4>1, <4>2, <4>5, <4>6 DEF Field, Larger
        <3> QED BY <3>1, <3>2, <3>3 DEF Measures
    <2> QED BY <2>1, <2>5, <2>6, <2>7 DEF e, lo, hi
<1> QED BY <1>4, <1>5, <1>6, <1>7 DEF c, u

\* Without recursion, the bodies that cost no more than the program contain
\* main and all they run.
LEMMA CheapClosed ==
    ASSUME NEW p \in Programs, NoRecursion(p)
    PROVE  ClosedBodies(p, Cheap(p)) /\ p.main \in Cheap(p)
<1> DEFINE all == RequestCostOf(p)
<1>1. all \in Costs /\ \A b \in p.bodies : Own(p, b) \in Costs
    BY ProgramCost
<1>2. p.main \in Cheap(p)
    <2>1. p.main \in p.bodies /\ Own(p, p.main) = all
        BY ProgramsAssumption DEF Own, RequestCostOf
    <2> QED BY <1>1, <2>1, AtMostOrder DEF Cheap
<1>3. ASSUME NEW b \in Cheap(p) PROVE RunsIn(p, b, Cheap(p))
    <2> DEFINE x == <<b, {}>>
    <2>1. x \in Pairs(p) /\ x[1] = b /\ x[2] = {} /\ b \in p.bodies /\ AtMost(Own(p, b), all)
        BY DEF Pairs, Cheap
    <2>2. \A y \in Needs(p, x) : AtMost(BodyCost(p)[y], Own(p, b))
        BY <2>1, NeedsAtMost DEF Own
    <2> HIDE DEF x
    <2>3. ASSUME NEW c \in p.bodies, AtMost(Own(p, c), Own(p, b)) PROVE c \in Cheap(p)
        <3>1. AtMost(Own(p, c), all)
            <4> HIDE DEF all
            <4> QED BY <1>1, <2>1, <2>3, AtMostOrder
        <3> QED BY <2>3, <3>1 DEF Cheap
    <2>4. ASSUME NEW c \in Inside(b) PROVE c \in Cheap(p)
        <3>1. <<c, {}>> \in Needs(p, x)
            BY <2>1 DEF Needs
        <3>2. c \in p.bodies
            BY <2>1, ProgramsAssumption
        <3> QED BY <2>2, <2>3, <3>1, <3>2 DEF Own
    <2>5. ASSUME NEW n \in DOMAIN p.flows, Calls(b, n) PROVE p.flows[n] \in Cheap(p)
        <3>1. <<p.flows[n], x[2] \cup {n}>> \in Needs(p, x)
            BY <2>1, <2>5 DEF Needs, Calls
        <3>2. x[2] \cup {n} = {n}
            BY <2>1
        <3>3. AtMost(BodyCost(p)[<<p.flows[n], {n}>>], Own(p, b))
            BY <2>2, <3>1, <3>2
        <3>4. p.flows[n] \in p.bodies /\ BodyCost(p)[<<p.flows[n], {n}>>] = Own(p, p.flows[n])
            BY FlowCosts, ProgramsAssumption DEF Own
        <3> QED BY <2>3, <3>3, <3>4
    <2> QED BY <2>4, <2>5 DEF RunsIn
<1> QED BY <1>2, <1>3 DEF ClosedBodies

\* What an effect runs is paid for by the effect.
LEMMA EffectPays ==
    ASSUME NEW p \in Programs, NEW m \in Measures, Fine(p, m), NEW b \in Cheap(p),
           NEW i \in DOMAIN b, NEW e, e = b[i].effect
    PROVE  /\ e.kind = "call" /\ e.flow \in DOMAIN p.flows =>
                  /\ p.flows[e.flow] \in Cheap(p)
                  /\ Field(Own(p, p.flows[e.flow]), m) <= Field(EffectIs(p, b, i), m)
           /\ e.kind = "for" => e.body \in Cheap(p) /\ Field(Own(p, e.body), m) = 0
           /\ e.kind = "match" => \A c \in ArmBodies(e) :
                  /\ c \in Cheap(p) /\ Field(Own(p, c), m) <= Field(EffectIs(p, b, i), m)
                  /\ m # "latency" /\ Retries(e) => Field(Own(p, c), m) <= 1
           /\ e.kind = "match" /\ m # "latency" /\ Retries(e) =>
                  MaxRetries <= Field(EffectIs(p, b, i), m)
<1> DEFINE x == <<b, {}>>
           E == EffectIs(p, b, i)
<1>1. x \in Pairs(p) /\ x[1] = b /\ x[2] = {} /\ b \in p.bodies /\ i \in DOMAIN x[1] /\ e = x[1][i].effect
    BY DEF Pairs, Cheap
<1>2. RunsIn(p, b, Cheap(p))
    BY CheapClosed DEF Fine, ClosedBodies
<1>3. E \in Costs /\ Field(E, m) \in Nat /\ ~E.unbounded
    <2>1. i \in 1..Len(b)
        BY <1>1, NeedsArePairs
    <2> QED BY <2>1, WaveAccount
<1>4. E = EffectAt(p, x, i)
    BY DEF EffectIs
<1>5. \A c \in Nested(e) : c \in Cheap(p) /\ Own(p, c) \in Costs /\ AtMost(Own(p, c), E)
    <2>1. Nested(e) \subseteq Inside(b)
        BY DEF Inside
    <2> HIDE DEF x, E
    <2>2. \A c \in Nested(e) : Own(p, c) \in Costs /\ AtMost(Own(p, c), E)
        BY <1>1, <1>4, EffectCosts DEF Own
    <2> QED BY <1>2, <2>1, <2>2 DEF RunsIn
<1> HIDE DEF x, E
<1>6. \A c \in Nested(e) : Field(Own(p, c), m) \in Nat /\ Field(Own(p, c), m) <= Field(E, m)
    BY <1>3, <1>5, FieldsAtMost DEF Undeclared
<1>7. CASE e.kind = "call"
    <2> SUFFICES ASSUME e.flow \in DOMAIN p.flows
                 PROVE  /\ p.flows[e.flow] \in Cheap(p)
                        /\ Field(Own(p, p.flows[e.flow]), m) <= Field(E, m)
        BY <1>7 DEF E
    <2>1. p.flows[e.flow] \in Cheap(p)
        BY <1>2, <1>7 DEF RunsIn, Calls
    <2>2. E = BodyCost(p)[<<p.flows[e.flow], x[2] \cup {e.flow}>>]
        BY <1>1, <1>4, <1>7, EffectCosts
    <2>3. x[2] \cup {e.flow} = {e.flow}
        BY <1>1
    <2>4. E = Own(p, p.flows[e.flow])
        BY <2>2, <2>3, FlowCosts DEF Own, Fine
    <2> QED BY <1>3, <2>1, <2>4
<1>8. CASE e.kind = "for"
    <2>1. Nested(e) = {e.body}
        BY <1>8 DEF Nested
    <2>2. e.body \in Cheap(p) /\ Own(p, e.body) \in Costs
        BY <1>5, <2>1
    <2>3. E = LoopCost(Own(p, e.body))
        <3>1. E = LoopCost(BodyCost(p)[<<e.body, x[2]>>])
            BY <1>1, <1>4, <1>8, EffectCosts
        <3> QED BY <1>1, <3>1 DEF Own
    <2>4. Own(p, e.body).requests = 0
        <3> DEFINE c == Own(p, e.body)
        <3> HIDE DEF c
        <3>1. c \in Costs /\ E = LoopCost(c)
            BY <2>2, <2>3 DEF c
        <3>2. E.unbounded = (c.requests > 0 \/ c.unbounded)
            BY <3>1 DEF LoopCost, Costs
        <3> QED BY <1>3, <3>1, <3>2 DEF Costs, c
    <2>5. Field(Own(p, e.body), m) = 0
        BY <2>2, <2>4 DEF Costs, Field, Measures
    <2> QED BY <1>8, <2>2, <2>5
<1>9. CASE e.kind = "match"
    <2>1. Nested(e) = ArmBodies(e)
        BY <1>9 DEF Nested
    <2>2. ASSUME m # "latency", Retries(e), NEW c \in ArmBodies(e) PROVE Field(Own(p, c), m) <= 1
        <3>1. Own(p, c) \in Costs
            BY <1>5, <2>1
        <3>2. Own(p, c).requests <= 1
            BY <1>1, <1>9, <2>2 DEF Fine, Alone
        <3> QED BY <2>2, <3>1, <3>2 DEF Costs, Field, Measures
    <2>3. ASSUME m # "latency", Retries(e) PROVE MaxRetries <= Field(E, m)
        <3>1. AtMost(RetryCost, E)
            BY <1>1, <1>4, <1>9, <2>3, EffectCosts DEF Retries
        <3> QED BY <2>3, <3>1 DEF AtMost, RetryCost, Field, Measures
    <2> QED BY <1>5, <1>6, <1>9, <2>1, <2>2, <2>3 DEF E
<1> QED BY <1>7, <1>8, <1>9

-----------------------------------------------------------------------------
(* The ledger: what was spent and what each activation still owes.         *)

\* What the rest of an activation may spend: the waves behind its own, and of
\* its own wave what it has not spent yet, the retries left among it.
Owed(p, fr, m) ==
    LET cost == Field(Own(p, fr.body), m)
        upTo == UpTo(p, fr.body)
        here == Field(EffectIs(p, fr.body, fr.wave), m)
    IN  CASE fr.at = "launch" -> cost - Field(upTo[fr.wave - 1], m)
          [] fr.at \in {"join", "effect"} -> cost - Field(upTo[fr.wave], m) + here
          [] fr.at \in {"match", "refetch"} ->
                cost - Field(upTo[fr.wave], m)
                + (IF Retries(EffectIn(fr)) /\ m # "latency" THEN MaxRetries - fr.attempt ELSE here)
          [] fr.at \in {"inner", "loop"} -> cost - Field(upTo[fr.wave], m)
          [] fr.at = "unwind" -> 0

\* due[k]: what the activations below the k-th owe.
Covers(p, s, m, due) ==
    /\ due \in [1..(Len(s) + 1) -> Nat]
    /\ \A k \in 1..Len(s) : due[k] + Owed(p, s[k], m) <= due[k + 1]

\* What is spent and what the stack owes stay within the program's figure.
LedgerOk(p, s, spent, m) ==
    /\ spent \in Nat
    /\ BodiesIn(Cheap(p), s)
    /\ \E due : Covers(p, s, m, due)
                 /\ spent + due[Len(s) + 1] <= Field(RequestCostOf(p), m)

\* What an activation owes is a number.
LEMMA OwedNat ==
    ASSUME program \in Programs, NEW m \in Measures, Fine(program, m),
           NEW fr \in FrameSet, FrameOk(fr), fr.body \in Cheap(program)
    PROVE  Owed(program, fr, m) \in Nat
<1> DEFINE b == fr.body
           cost == Field(Own(program, b), m)
           u == UpTo(program, b)
<1>1. /\ cost \in Nat /\ Field(u[0], m) = 0 /\ Field(u[Len(b)], m) = cost
      /\ \A i \in 1..Len(b) :
             /\ Field(u[i], m) \in Nat /\ Field(u[i], m) <= cost
             /\ Field(EffectIs(program, b, i), m) \in Nat
    BY WaveAccount
<1>2. Len(b) \in Nat /\ DOMAIN b = 1..Len(b) /\ fr.wave \in Nat \ {0} /\ fr.attempt \in Nat
      /\ fr.at \in Places
    <2>1. b \in program.bodies
        BY DEF FrameSet
    <2> QED BY <2>1, ProgramsAssumption DEF FrameSet
<1>3. \A i \in 0..Len(b) : Field(u[i], m) \in Nat /\ Field(u[i], m) <= cost
    <2>1. \A i \in 0..Len(b) : i # 0 => i \in 1..Len(b)
        BY <1>2
    <2> QED BY <1>1, <2>1
<1>4. CASE fr.at = "launch"
    <2>1. fr.wave - 1 \in 0..Len(b)
        BY <1>2, <1>4 DEF FrameOk, WellPlaced
    <2> HIDE DEF b, cost, u
    <2>2. cost - Field(u[fr.wave - 1], m) \in Nat
        BY <1>1, <1>3, <2>1
    <2> QED BY <1>4, <2>2 DEF Owed, b, cost, u
<1>5. CASE fr.at \notin {"launch", "unwind"}
    <2> DEFINE i == fr.wave
               here == Field(EffectIs(program, b, i), m)
    <2>1. i \in 1..Len(b) /\ (fr.at \in {"match", "refetch"} => fr.attempt <= MaxRetries)
        BY <1>2, <1>5 DEF FrameOk, WellPlaced
    <2> HIDE DEF b, cost, u
    <2>2. here \in Nat /\ cost - Field(u[i], m) \in Nat
        BY <1>1, <2>1
    <2>3. fr.at \in {"match", "refetch"} => MaxRetries - fr.attempt \in Nat
        BY <1>2, <2>1, RetryAssumption
    <2> DEFINE rest == cost - Field(u[i], m)
    <2>4. \/ Owed(program, fr, m) = rest
          \/ Owed(program, fr, m) = rest + here
          \/ fr.at \in {"match", "refetch"} /\ Owed(program, fr, m) = rest + (MaxRetries - fr.attempt)
        BY <1>2, <1>5 DEF Owed, Places, b, cost, u
    <2> HIDE DEF rest, here
    <2> QED BY <2>2, <2>3, <2>4 DEF rest
<1>6. CASE fr.at = "unwind"
    BY <1>6 DEF Owed
<1> QED BY <1>4, <1>5, <1>6

\* The innermost activation spends some of what it owes.
LEMMA LedgerBecome ==
    ASSUME program \in Programs, NEW m \in Measures, NEW s, StackOk(s), s # <<>>,
           NEW spent, LedgerOk(program, s, spent, m),
           NEW x, x.body = Last(s).body, Owed(program, x, m) \in Nat, Owed(program, Last(s), m) \in Nat,
           NEW more \in Nat, more + Owed(program, x, m) <= Owed(program, Last(s), m),
           Field(RequestCostOf(program), m) \in Nat
    PROVE  LedgerOk(program, Front(s) \o <<x>>, spent + more, m)
<1> DEFINE n == Len(s)
           t == Front(s) \o <<x>>
           S == FrameSet \cup {x}
           all == Field(RequestCostOf(program), m)
           old == Owed(program, Last(s), m)
           new == Owed(program, x, m)
<1>1. s \in Seq(S) /\ x \in S
    BY StackUnder
<1> HIDE DEF S
<1>2. /\ Len(t) = n /\ n \in 1..n /\ n \in Nat /\ Last(s) = s[n]
      /\ \A k \in 1..n : t[k] = IF k = n THEN x ELSE s[k]
    BY <1>1, Replaced
<1>3. BodiesIn(Cheap(program), t)
    <2>1. x.body \in Cheap(program)
        BY LastBody DEF LedgerOk
    <2> QED BY <2>1, BodiesBecome DEF LedgerOk
<1>4. PICK due : Covers(program, s, m, due) /\ spent + due[n + 1] <= all
    BY DEF LedgerOk
<1>5. spent \in Nat
    BY DEF LedgerOk
<1> HIDE DEF t, n, all, old, new
<1>6. /\ due \in [1..(n + 1) -> Nat] /\ \A k \in 1..n : due[k] + Owed(program, s[k], m) <= due[k + 1]
    BY <1>4 DEF Covers, n
<1> DEFINE due2 == [k \in 1..(n + 1) |-> IF k = n + 1 THEN due[n] + new ELSE due[k]]
<1>7. due[n] \in Nat /\ due[n + 1] \in Nat /\ due[n] + old <= due[n + 1] /\ new \in Nat /\ old \in Nat
    BY <1>2, <1>6 DEF old, new
<1>8. /\ due2 \in [1..(n + 1) -> Nat] /\ due2[n + 1] = due[n] + new /\ due2[n] = due[n]
      /\ \A k \in 1..n : k # n => due2[k] = due[k] /\ due2[k + 1] = due[k + 1]
    <2>1. due[n] + new \in Nat /\ \A k \in 1..(n + 1) : due[k] \in Nat
        BY <1>6, <1>7
    <2>2. /\ due2 \in [1..(n + 1) -> Nat]
          /\ \A k \in 1..(n + 1) : due2[k] = IF k = n + 1 THEN due[n] + new ELSE due[k]
        BY <2>1
    <2>3. \A k \in 1..n : /\ k \in 1..(n + 1) /\ k + 1 \in 1..(n + 1)
                         /\ k # n + 1 /\ (k # n => k + 1 # n + 1)
        BY <1>2
    <2> HIDE DEF due2
    <2> QED BY <1>2, <2>2, <2>3
<1> HIDE DEF due2
<1>9. ASSUME NEW k \in 1..n PROVE due2[k] + Owed(program, t[k], m) <= due2[k + 1]
    <2>1. CASE k = n
        BY <1>2, <1>7, <1>8, <2>1 DEF new
    <2>2. CASE k # n
        BY <1>2, <1>6, <1>8, <2>2
    <2> QED BY <2>1, <2>2
<1>10. (spent + more) + due2[n + 1] <= all
    <2>1. more + new <= old /\ all \in Nat
        BY DEF new, old, all
    <2> QED BY <1>4, <1>5, <1>7, <1>8, <2>1
<1>11. Covers(program, t, m, due2) /\ spent + more \in Nat
    BY <1>2, <1>5, <1>8, <1>9 DEF Covers
<1>12. LedgerOk(program, t, spent + more, m)
    BY <1>2, <1>3, <1>10, <1>11 DEF LedgerOk, all
<1> QED BY <1>12 DEF t

\* It passes some of it on to the body it enters.
LEMMA LedgerEnter ==
    ASSUME program \in Programs, NEW m \in Measures, NEW s, StackOk(s), s # <<>>,
           NEW spent, LedgerOk(program, s, spent, m),
           NEW x, x.body = Last(s).body, NEW b \in Cheap(program),
           Owed(program, x, m) \in Nat, Owed(program, Frame(b), m) \in Nat,
           Owed(program, Last(s), m) \in Nat,
           Owed(program, x, m) + Owed(program, Frame(b), m) <= Owed(program, Last(s), m),
           Field(RequestCostOf(program), m) \in Nat
    PROVE  LedgerOk(program, Front(s) \o <<x, Frame(b)>>, spent, m)
<1> DEFINE n == Len(s)
           y == Frame(b)
           t == Front(s) \o <<x, y>>
           S == FrameSet \cup {x, y}
           all == Field(RequestCostOf(program), m)
           old == Owed(program, Last(s), m)
           new == Owed(program, x, m)
           top == Owed(program, y, m)
<1>1. s \in Seq(S) /\ x \in S /\ y \in S
    BY StackUnder
<1> HIDE DEF S, y
<1>2. /\ Len(t) = n + 1
      /\ \A k \in 1..(n + 1) : t[k] = IF k < n THEN s[k] ELSE IF k = n THEN x ELSE y
    BY <1>1, Pushed
<1>3. n \in 1..n /\ n \in Nat /\ Last(s) = s[n]
    BY <1>1 DEF Last
<1>4. BodiesIn(Cheap(program), t)
    <2>1. x.body \in Cheap(program)
        BY LastBody DEF LedgerOk
    <2> QED BY <2>1, BodiesEnter DEF LedgerOk, y
<1>5. PICK due : Covers(program, s, m, due) /\ spent + due[n + 1] <= all
    BY DEF LedgerOk
<1>6. spent \in Nat
    BY DEF LedgerOk
<1> HIDE DEF t, n, all, old, new, top
<1>7. /\ due \in [1..(n + 1) -> Nat] /\ \A k \in 1..n : due[k] + Owed(program, s[k], m) <= due[k + 1]
    BY <1>5 DEF Covers, n
<1> DEFINE due2 == [k \in 1..((n + 1) + 1) |-> IF k <= n THEN due[k] ELSE IF k = n + 1 THEN due[n] + new
                                           ELSE due[n] + new + top]
<1>8. /\ due[n] \in Nat /\ due[n + 1] \in Nat /\ due[n] + old <= due[n + 1]
      /\ new \in Nat /\ old \in Nat /\ top \in Nat
    BY <1>3, <1>7 DEF old, new, top, y
<1>9. /\ due2 \in [1..((n + 1) + 1) -> Nat] /\ due2[n] = due[n] /\ due2[n + 1] = due[n] + new
      /\ due2[(n + 1) + 1] = due[n] + new + top
      /\ \A k \in 1..n : k < n => due2[k] = due[k] /\ due2[k + 1] = due[k + 1]
    <2>1. /\ due[n] + new \in Nat /\ due[n] + new + top \in Nat
          /\ \A k \in 1..(n + 1) : due[k] \in Nat
        <3>1. \A k \in 1..(n + 1) : due[k] \in Nat
            BY <1>7
        <3> DEFINE both == due[n] + new
        <3>2. both \in Nat /\ top \in Nat
            BY <1>8
        <3> HIDE DEF both
        <3>3. both + top \in Nat
            BY <3>2
        <3> QED BY <3>1, <3>2, <3>3 DEF both
    <2>2. /\ due2 \in [1..((n + 1) + 1) -> Nat]
          /\ \A k \in 1..((n + 1) + 1) :
                due2[k] = IF k <= n THEN due[k] ELSE IF k = n + 1 THEN due[n] + new ELSE due[n] + new + top
        BY <1>3, <2>1
    <2>3. /\ n + 1 \in 1..((n + 1) + 1) /\ (n + 1) + 1 \in 1..((n + 1) + 1) /\ n <= n
          /\ ~(n + 1 <= n) /\ ~((n + 1) + 1 <= n) /\ (n + 1) + 1 # n + 1
          /\ \A k \in 1..n : k \in 1..((n + 1) + 1) /\ k + 1 \in 1..((n + 1) + 1)
                            /\ k <= n /\ (k < n => k + 1 <= n)
        BY <1>3
    <2> HIDE DEF due2
    <2> QED BY <1>3, <2>2, <2>3
<1> HIDE DEF due2
<1>10. ASSUME NEW k \in 1..(n + 1) PROVE due2[k] + Owed(program, t[k], m) <= due2[k + 1]
    <2>1. CASE k = n
        BY <1>2, <1>3, <1>8, <1>9, <2>1 DEF new
    <2>2. CASE k = n + 1
        BY <1>2, <1>3, <1>8, <1>9, <2>2 DEF top
    <2>3. CASE k < n
        <3>1. k \in 1..n /\ k # n /\ t[k] = s[k]
            BY <1>2, <1>3, <2>3
        <3> QED BY <1>7, <1>9, <2>3, <3>1
    <2> QED BY <1>3, <2>1, <2>2, <2>3
<1>11. spent + due2[(n + 1) + 1] <= all
    <2>1. new + top <= old /\ all \in Nat
        BY DEF new, old, all, top, y
    <2>2. due2[(n + 1) + 1] <= due[n + 1]
        BY <1>8, <1>9, <2>1
    <2> DEFINE last == due2[(n + 1) + 1]
               before == due[n + 1]
    <2>3. last \in Nat /\ before \in Nat /\ last <= before /\ spent + before <= all
        BY <1>5, <1>8, <1>9, <2>2
    <2>4. spent + last <= all
        <3> HIDE DEF last, before
        <3> QED BY <1>6, <2>1, <2>3
    <2> QED BY <2>4
<1>12. Covers(program, t, m, due2)
    BY <1>2, <1>9, <1>10 DEF Covers
<1>13. LedgerOk(program, t, spent, m)
    BY <1>2, <1>4, <1>6, <1>11, <1>12 DEF LedgerOk, all
<1> QED BY <1>13 DEF t, y

\* It is left, and what it owed is forgotten.
LEMMA LedgerPop ==
    ASSUME program \in Programs, NEW m \in Measures, NEW s, StackOk(s), Len(s) > 1,
           NEW spent, LedgerOk(program, s, spent, m),
           NEW x, x.body = Last(Front(s)).body,
           Owed(program, x, m) \in Nat, Owed(program, Last(Front(s)), m) \in Nat,
           Owed(program, Last(s), m) \in Nat,
           Owed(program, x, m) <= Owed(program, Last(Front(s)), m),
           Field(RequestCostOf(program), m) \in Nat
    PROVE  LedgerOk(program, Front(Front(s)) \o <<x>>, spent, m)
<1> DEFINE n == Len(s)
           t == Front(Front(s)) \o <<x>>
           S == FrameSet \cup {x}
           all == Field(RequestCostOf(program), m)
<1>1. s \in Seq(S) /\ x \in S /\ n \in Nat
    BY StackUnder
<1> HIDE DEF S
<1>2. /\ Len(t) = n - 1 /\ Last(Front(s)) = s[n - 1]
      /\ \A k \in 1..(n - 1) : t[k] = IF k = n - 1 THEN x ELSE s[k]
    BY <1>1, Popped
<1>3. n - 1 \in 1..n /\ n \in 1..n /\ Last(s) = s[n]
    BY <1>1 DEF Last
<1>4. BodiesIn(Cheap(program), t)
    BY BodiesPop DEF LedgerOk
<1>5. PICK due : Covers(program, s, m, due) /\ spent + due[n + 1] <= all
    BY DEF LedgerOk
<1>6. spent \in Nat /\ all \in Nat /\ n > 1
    BY DEF LedgerOk
<1> DEFINE below == Owed(program, s[n - 1], m)
           top == Owed(program, s[n], m)
           new == Owed(program, x, m)
<1>7. below \in Nat /\ top \in Nat /\ new \in Nat /\ new <= below
    BY <1>2, <1>3
<1> HIDE DEF t, n, all
<1>8. /\ due \in [1..(n + 1) -> Nat] /\ \A k \in 1..n : due[k] + Owed(program, s[k], m) <= due[k + 1]
    BY <1>5 DEF Covers, n
<1> DEFINE due2 == [k \in 1..((n - 1) + 1) |-> due[k]]
<1>9. due2 \in [1..((n - 1) + 1) -> Nat] /\ \A k \in 1..n : due2[k] = due[k]
    BY <1>1, <1>8
<1>10. /\ due[n - 1] \in Nat /\ due[n] \in Nat /\ due[n + 1] \in Nat
       /\ due[n - 1] + below <= due[n] /\ due[n] + top <= due[n + 1]
    BY <1>1, <1>3, <1>8
<1> HIDE DEF due2
<1>11. ASSUME NEW k \in 1..(n - 1) PROVE due2[k] + Owed(program, t[k], m) <= due2[k + 1]
    <2>1. k \in 1..n /\ k + 1 \in 1..n
        BY <1>1
    <2>2. CASE k = n - 1
        <3>1. t[k] = x /\ due2[k] = due[n - 1] /\ due2[k + 1] = due[n]
            BY <1>1, <1>2, <1>9, <2>1, <2>2
        <3> HIDE DEF new, below
        <3>2. due[n - 1] + new <= due[n]
            BY <1>7, <1>10
        <3> QED BY <3>1, <3>2 DEF new
    <2>3. CASE k # n - 1
        BY <1>2, <1>8, <1>9, <2>1, <2>3
    <2> QED BY <2>2, <2>3
<1>12. spent + due2[(n - 1) + 1] <= all
    <2>1. due2[(n - 1) + 1] = due[n]
        BY <1>1, <1>3, <1>9
    <2> HIDE DEF top
    <2> QED BY <1>5, <1>6, <1>7, <1>10, <2>1
<1>13. Covers(program, t, m, due2)
    BY <1>2, <1>9, <1>11 DEF Covers
<1>14. LedgerOk(program, t, spent, m)
    BY <1>2, <1>4, <1>6, <1>12, <1>13 DEF LedgerOk, all
<1> QED BY <1>14 DEF t

\* With nothing on the stack only what was spent remains.
LEMMA LedgerEnds ==
    ASSUME program \in Programs, NEW m \in Measures, NEW s, StackOk(s),
           NEW spent, LedgerOk(program, s, spent, m), Field(RequestCostOf(program), m) \in Nat
    PROVE  spent <= Field(RequestCostOf(program), m) /\ LedgerOk(program, <<>>, spent, m)
<1>1. PICK due : Covers(program, s, m, due) /\ spent + due[Len(s) + 1] <= Field(RequestCostOf(program), m)
    BY DEF LedgerOk
<1>2. Len(s) \in Nat /\ spent \in Nat
    BY StackUnder DEF LedgerOk
<1>3. due[Len(s) + 1] \in Nat
    BY <1>1, <1>2 DEF Covers
<1>4. spent <= Field(RequestCostOf(program), m)
    BY <1>1, <1>2, <1>3
<1> DEFINE none == [k \in 1..1 |-> 0]
<1>5. none \in [1..(Len(<<>>) + 1) -> Nat] /\ none[Len(<<>>) + 1] = 0 /\ Len(<<>>) = 0
    OBVIOUS
<1> HIDE DEF none
<1>6. Covers(program, <<>>, m, none) /\ spent + none[Len(<<>>) + 1] <= Field(RequestCostOf(program), m)
    BY <1>2, <1>4, <1>5 DEF Covers
<1> QED BY <1>2, <1>4, <1>6 DEF LedgerOk, BodiesIn

-----------------------------------------------------------------------------
(* Every step pays for what it spends.                                     *)

\* What an execution has spent; a request counts from when it is due.
Spent(m) == CASE m = "requests" -> sent + queued
              [] m = "depth"    -> rounds
              [] m = "latency"  -> busy

\* The counters are numbers.
Counted == sent \in Nat /\ queued \in Nat /\ rounds \in Nat /\ busy \in Nat

\* The inductive invariant: the ledger balances for every figure whose
\* conditions the program meets.
LedgerInv ==
    /\ ReturnInv /\ Counted
    /\ \A m \in Measures : Fine(program, m) => LedgerOk(program, stack, Spent(m), m)

\* A new activation owes its body's cost.
LEMMA FrameOwes ==
    ASSUME NEW p \in Programs, NEW m \in Measures, Fine(p, m), NEW b \in Cheap(p)
    PROVE  Owed(p, Frame(b), m) = Field(Own(p, b), m) /\ Field(Own(p, b), m) \in Nat
<1>1. Field(Own(p, b), m) \in Nat /\ Field(UpTo(p, b)[0], m) = 0
    BY WaveAccount
<1>2. Owed(p, Frame(b), m) = Field(Own(p, b), m) - Field(UpTo(p, b)[1 - 1], m)
    BY DEF Owed, Frame
<1> QED BY <1>1, <1>2

\* The activations that a step puts on the stack are well formed.
LEMMA NewTop ==
    ASSUME NEW s, StackOk(s), s # <<>>, NEW x, StackOk(Front(s) \o <<x>>)
    PROVE  x \in FrameSet /\ FrameOk(x)
<1> DEFINE S == FrameSet \cup {x}
           t == Front(s) \o <<x>>
<1>1. s \in Seq(S) /\ x \in S
    BY StackUnder
<1> HIDE DEF S
<1>2. Len(t) = Len(s) /\ Len(s) \in 1..Len(s) /\ t[Len(s)] = x
    BY <1>1, Replaced
<1> HIDE DEF t
<1> QED BY <1>2, StackUnder DEF t

\* The same for the two that a call, a match or a loop leaves there,
LEMMA NewTwo ==
    ASSUME NEW s, StackOk(s), s # <<>>, NEW x, NEW y, StackOk(Front(s) \o <<x, y>>)
    PROVE  x \in FrameSet /\ FrameOk(x) /\ y \in FrameSet /\ FrameOk(y)
<1> DEFINE S == FrameSet \cup {x, y}
           t == Front(s) \o <<x, y>>
           n == Len(s)
<1>1. s \in Seq(S) /\ x \in S /\ y \in S
    BY StackUnder
<1> HIDE DEF S
<1>2. /\ Len(t) = n + 1 /\ n \in Nat /\ n # 0
      /\ \A k \in 1..(n + 1) : t[k] = IF k < n THEN s[k] ELSE IF k = n THEN x ELSE y
    BY <1>1, Pushed
<1> HIDE DEF t, n
<1>3. n \in 1..(n + 1) /\ n + 1 \in 1..(n + 1) /\ t[n] = x /\ t[n + 1] = y
    BY <1>2
<1> QED BY <1>2, <1>3, StackUnder DEF t

\* and for the one that goes on when another is left.
LEMMA NewUnder ==
    ASSUME NEW s, StackOk(s), Len(s) > 1, NEW x, StackOk(Front(Front(s)) \o <<x>>)
    PROVE  x \in FrameSet /\ FrameOk(x)
<1> DEFINE S == FrameSet \cup {x}
           t == Front(Front(s)) \o <<x>>
           n == Len(s)
<1>1. s \in Seq(S) /\ x \in S /\ n \in Nat
    BY StackUnder
<1> HIDE DEF S
<1>2. /\ Len(t) = n - 1
      /\ \A k \in 1..(n - 1) : t[k] = IF k = n - 1 THEN x ELSE s[k]
    BY <1>1, Popped
<1>3. n - 1 \in 1..(n - 1)
    BY <1>1
<1> HIDE DEF t, n
<1>4. t[n - 1] = x
    BY <1>2, <1>3
<1> QED BY <1>2, <1>3, <1>4, StackUnder DEF t

\* At the start main owes all that the program may cost.
LEMMA InitLedger == Init => LedgerInv
<1> SUFFICES ASSUME Init PROVE LedgerInv
    OBVIOUS
<1>1. ReturnInv /\ program \in Programs /\ Counted
    BY InitReturn DEF Init, ReturnInv, Counted
<1>2. ASSUME NEW m \in Measures, Fine(program, m) PROVE LedgerOk(program, stack, Spent(m), m)
    <2> DEFINE b == program.main
               y == Frame(b)
               all == Field(RequestCostOf(program), m)
               due == [k \in 1..2 |-> IF k = 1 THEN 0 ELSE all]
    <2>1. b \in Cheap(program) /\ Own(program, b) = RequestCostOf(program)
        BY <1>1, <1>2, CheapClosed DEF Fine, Own, RequestCostOf
    <2>2. Owed(program, y, m) = all /\ all \in Nat
        BY <1>1, <1>2, <2>1, FrameOwes
    <2>3. Spent(m) = 0
        BY DEF Init, Spent, Measures
    <2>4. stack = <<y>> /\ Len(<<y>>) = 1 /\ <<y>>[1] = y /\ y.body = b
        BY DEF Init, Frame
    <2> HIDE DEF all, y, b
    <2>5. due \in [1..2 -> Nat] /\ due[1] = 0 /\ due[2] = all
        BY <2>2
    <2> HIDE DEF due
    <2>6. Covers(program, <<y>>, m, due)
        <3>1. \A k \in 1..1 : due[k] + Owed(program, <<y>>[k], m) <= due[k + 1]
            BY <2>2, <2>4, <2>5
        <3> QED BY <2>4, <2>5, <3>1 DEF Covers
    <2>7. BodiesIn(Cheap(program), <<y>>)
        BY <2>1, <2>4 DEF BodiesIn
    <2>8. Spent(m) + due[Len(<<y>>) + 1] <= all
        BY <2>2, <2>3, <2>4, <2>5
    <2> QED BY <2>3, <2>4, <2>6, <2>7, <2>8 DEF LedgerOk, all
<1> QED BY <1>1, <1>2 DEF LedgerInv

\* No counter goes below zero.
LEMMA StepCounted == ReturnInv /\ Counted /\ Next => Counted'
<1> SUFFICES ASSUME ReturnInv, Counted, Next PROVE Counted'
    OBVIOUS
<1>1. CASE Launch
    <2>1. Top \in FrameSet /\ Top.body \in program.bodies /\ DOMAIN Top.body = 1..Len(Top.body)
          /\ Len(Top.body) \in Nat /\ Top.wave <= Len(Top.body)
        BY <1>1, TopOk DEF ReturnInv, Launch, At
    <2>2. Top.wave \in DOMAIN Top.body
        BY <2>1 DEF FrameSet
    <2>3. Wave.fetches \in Seq(Nat \cup {Undeclared})
        BY <2>1, <2>2, ProgramsAssumption DEF ReturnInv, WaveOk, Wave
    <2>4. Slowest(Wave.fetches) \in Nat /\ Len(Wave.fetches) \in Nat
        BY <2>3, SlowestOf
    <2> QED BY <1>1, <2>4 DEF Launch, Counted
<1>2. CASE RetryArm
    BY <1>2 DEF RetryArm, Counted
<1>3. CASE Send
    BY <1>3 DEF Send, Counted
<1>4. CASE \/ Join \/ Plain \/ Return \/ CallFlow \/ BeginMatch \/ ValueArm \/ BodyArm \/ Refetched
           \/ GiveUp \/ BeginLoop \/ NextItem \/ EndBody \/ Unwind \/ Fail \/ Answer
    BY <1>4 DEF Counted, Join, Plain, Return, CallFlow, BeginMatch, ValueArm, BodyArm, Refetched,
       GiveUp, BeginLoop, NextItem, EndBody, Unwind, Fail, Answer
<1> QED BY <1>1, <1>2, <1>3, <1>4 DEF Next, Run, Tasks

\* What the activation at the top owes, by its place.
LEMMA OwedAtTop ==
    ASSUME program \in Programs, NEW m \in Measures, Fine(program, m),
           NEW fr \in FrameSet, FrameOk(fr), fr.body \in Cheap(program), fr.at # "unwind",
           fr.wave \in DOMAIN fr.body
    PROVE  \E rest, here \in Nat :
              /\ here = Field(EffectIs(program, fr.body, fr.wave), m)
              /\ Spends(fr.body[fr.wave].fetches, m) \in Nat
              /\ fr.at = "launch" =>
                    Spends(fr.body[fr.wave].fetches, m) + rest + here <= Owed(program, fr, m)
              /\ \A x : x.body = fr.body /\ x.wave = fr.wave =>
                    /\ x.at \in {"join", "effect"} => Owed(program, x, m) = rest + here
                    /\ x.at \in {"match", "refetch"} =>
                          Owed(program, x, m) =
                              rest + (IF Retries(EffectIn(fr)) /\ m # "latency"
                                      THEN MaxRetries - x.attempt ELSE here)
                    /\ x.at \in {"inner", "loop"} => Owed(program, x, m) = rest
                    /\ x.at = "unwind" => Owed(program, x, m) = 0
              /\ \A x : x.body = fr.body /\ x.wave = fr.wave + 1 /\ x.at = "launch" =>
                    Owed(program, x, m) = rest
<1> DEFINE b == fr.body
           i == fr.wave
           u == UpTo(program, b)
           cost == Field(Own(program, b), m)
           lo == Field(u[i - 1], m)
           hi == Field(u[i], m)
           pays == Spends(b[i].fetches, m)
           rest == cost - hi
           here == Field(EffectIs(program, b, i), m)
<1>1. b \in program.bodies /\ i \in Nat /\ DOMAIN b = 1..Len(b) /\ i \in 1..Len(b) /\ (i + 1) - 1 = i
    BY ProgramsAssumption DEF FrameSet
<1>2. /\ cost \in Nat /\ lo \in Nat /\ hi \in Nat /\ here \in Nat /\ pays \in Nat
      /\ lo + pays + here <= hi /\ hi <= cost
    BY <1>1, WaveAccount
<1>3. \A x : x.body = b /\ x.wave = i =>
         /\ x.at \in {"join", "effect"} => Owed(program, x, m) = rest + here
         /\ x.at \in {"match", "refetch"} =>
               Owed(program, x, m) = rest + (IF Retries(EffectIn(fr)) /\ m # "latency"
                                             THEN MaxRetries - x.attempt ELSE here)
         /\ x.at \in {"inner", "loop"} => Owed(program, x, m) = rest
         /\ x.at = "unwind" => Owed(program, x, m) = 0
    BY DEF Owed, EffectIn
<1>4. \A x : x.body = b /\ x.wave = i + 1 /\ x.at = "launch" => Owed(program, x, m) = rest
    BY <1>1 DEF Owed
<1>5. fr.at = "launch" => Owed(program, fr, m) = cost - lo
    BY DEF Owed
<1> HIDE DEF b, i, u, cost, lo, hi, pays, here
<1>6. rest \in Nat /\ (fr.at = "launch" => pays + rest + here <= Owed(program, fr, m))
    BY <1>2, <1>5
<1> QED BY <1>2, <1>3, <1>4, <1>6 DEF b, i, pays, here

\* Every step keeps the ledger of one figure.
LEMMA LedgerStep ==
    ASSUME ReturnInv, ReturnInv', Counted, Next, NEW m \in Measures, Fine(program, m),
           LedgerOk(program, stack, Spent(m), m)
    PROVE  LedgerOk(program, stack', Spent(m)', m)
<1> DEFINE all == Field(RequestCostOf(program), m)
<1>1. /\ program \in Programs /\ StackOk(stack) /\ StackOk(stack') /\ all \in Nat
    <2>1. program' = program
        BY DEF Next, Run, Fail, Tasks, Launch, Join, Plain, Return, CallFlow, BeginMatch, ValueArm,
           BodyArm, RetryArm, Refetched, GiveUp, BeginLoop, NextItem, EndBody, Unwind, Send, Answer
    <2>2. all \in Nat
        BY ProgramCost, FieldsNat DEF ReturnInv, Fine
    <2> QED BY <2>1, <2>2, SameProgram DEF ReturnInv
<1> HIDE DEF all
<1>2. ASSUME UNCHANGED <<sent, queued, rounds, busy>> PROVE Spent(m)' = Spent(m)
    BY <1>2 DEF Spent
<1>3. CASE stack' = stack /\ Spent(m)' = Spent(m)
    BY <1>3
<1>4. CASE stack' = <<>> /\ Spent(m)' = Spent(m)
    BY <1>1, <1>4, LedgerEnds DEF all
<1>5. CASE stack # <<>> /\ Run
    <2>1. /\ Top = Last(stack) /\ Top \in FrameSet /\ FrameOk(Top) /\ Top.body \in Cheap(program)
          /\ Top.body \in program.bodies /\ Effect = EffectIn(Top) /\ Wave = Top.body[Top.wave]
          /\ DOMAIN Top.body = 1..Len(Top.body) /\ Len(Top.body) \in Nat
        BY <1>1, <1>5, TopOk, LastBody DEF LedgerOk, Top, Effect, Wave, EffectIn
    <2>2. Owed(program, Top, m) \in Nat
        BY <1>1, <2>1, OwedNat
    <2>3. ASSUME NEW x, x.body = Top.body, Become(x), NEW more \in Nat,
                 Spent(m)' = Spent(m) + more, more + Owed(program, x, m) <= Owed(program, Top, m)
          PROVE  LedgerOk(program, stack', Spent(m)', m)
        <3>1. x \in FrameSet /\ FrameOk(x) /\ stack' = Front(stack) \o <<x>>
            BY <1>1, <1>5, <2>3, NewTop DEF Become
        <3>2. Owed(program, x, m) \in Nat
            BY <1>1, <2>1, <2>3, <3>1, OwedNat
        <3>3. LedgerOk(program, Front(stack) \o <<x>>, Spent(m) + more, m)
            BY <1>1, <1>5, <2>1, <2>2, <2>3, <3>2, LedgerBecome DEF all
        <3> QED BY <2>3, <3>1, <3>3
    <2>4. ASSUME NEW x, x.body = Top.body, NEW b \in Cheap(program), Enter(x, b), Spent(m)' = Spent(m),
                 Owed(program, x, m) + Field(Own(program, b), m) <= Owed(program, Top, m)
          PROVE  LedgerOk(program, stack', Spent(m)', m)
        <3>1. x \in FrameSet /\ FrameOk(x) /\ stack' = Front(stack) \o <<x, Frame(b)>>
            BY <1>1, <1>5, <2>4, NewTwo DEF Enter
        <3>2. /\ Owed(program, x, m) \in Nat
              /\ Owed(program, Frame(b), m) = Field(Own(program, b), m) /\ Field(Own(program, b), m) \in Nat
            BY <1>1, <2>1, <2>4, <3>1, OwedNat, FrameOwes
        <3>3. LedgerOk(program, Front(stack) \o <<x, Frame(b)>>, Spent(m), m)
            BY <1>1, <1>5, <2>1, <2>2, <2>4, <3>2, LedgerEnter DEF all
        <3> QED BY <2>4, <3>1, <3>3
    <2>5. CASE EndBody
        <3> DEFINE x == [Top EXCEPT !.at = "unwind"]
        <3>1. x.body = Top.body /\ x.at = "unwind" /\ Become(x) /\ Spent(m)' = Spent(m)
            BY <1>2, <2>1, <2>5 DEF EndBody, FrameSet
        <3> HIDE DEF x
        <3>2. Owed(program, x, m) = 0
            BY <3>1 DEF Owed
        <3>3. Spent(m)' = Spent(m) + 0 /\ 0 + Owed(program, x, m) <= Owed(program, Top, m)
            BY <2>2, <3>1, <3>2 DEF LedgerOk
        <3> QED BY <2>3, <3>1, <3>3
    <2>6. CASE ~EndBody /\ ~Unwind
        <3>1. Top.wave \in DOMAIN Top.body /\ Top.at # "unwind" /\ Top.attempt \in Nat
            <4>1. CASE Launch
                BY <2>1, <4>1 DEF Launch, At, FrameSet
            <4>2. CASE ~Launch
                <5>1. Top.at \notin {"launch", "unwind"}
                    BY <1>5, <2>6, <4>2 DEF Run, Join, Plain, Return, CallFlow, BeginMatch, ValueArm,
                       BodyArm, RetryArm, Refetched, GiveUp, BeginLoop, NextItem, At, AtEffect
                <5> QED BY <2>1, <5>1 DEF FrameOk, WellPlaced, FrameSet
            <4> QED BY <4>1, <4>2
        <3> DEFINE here == Field(EffectIs(program, Top.body, Top.wave), m)
                   pays == Spends(Wave.fetches, m)
        <3>2. PICK rest \in Nat :
                 /\ here \in Nat /\ pays \in Nat
                 /\ Top.at = "launch" => pays + rest + here <= Owed(program, Top, m)
                 /\ \A x : x.body = Top.body /\ x.wave = Top.wave =>
                       /\ x.at \in {"join", "effect"} => Owed(program, x, m) = rest + here
                       /\ x.at \in {"match", "refetch"} =>
                             Owed(program, x, m) = rest + (IF Retries(Effect) /\ m # "latency"
                                                           THEN MaxRetries - x.attempt ELSE here)
                       /\ x.at \in {"inner", "loop"} => Owed(program, x, m) = rest
                       /\ x.at = "unwind" => Owed(program, x, m) = 0
                 /\ \A x : x.body = Top.body /\ x.wave = Top.wave + 1 /\ x.at = "launch" =>
                       Owed(program, x, m) = rest
            <4> DEFINE fr == Top
            <4>1. /\ fr \in FrameSet /\ FrameOk(fr) /\ fr.body \in Cheap(program) /\ fr.at # "unwind"
                  /\ fr.wave \in DOMAIN fr.body
                BY <2>1, <3>1
            <4>2. EffectIn(fr) = Effect /\ fr.body[fr.wave] = Wave
                BY <2>1
            <4> HIDE DEF fr
            <4>3. PICK rest, owes \in Nat :
                     /\ owes = Field(EffectIs(program, fr.body, fr.wave), m)
                     /\ Spends(fr.body[fr.wave].fetches, m) \in Nat
                     /\ fr.at = "launch" =>
                           Spends(fr.body[fr.wave].fetches, m) + rest + owes <= Owed(program, fr, m)
                     /\ \A x : x.body = fr.body /\ x.wave = fr.wave =>
                           /\ x.at \in {"join", "effect"} => Owed(program, x, m) = rest + owes
                           /\ x.at \in {"match", "refetch"} =>
                                 Owed(program, x, m) =
                                     rest + (IF Retries(EffectIn(fr)) /\ m # "latency"
                                             THEN MaxRetries - x.attempt ELSE owes)
                           /\ x.at \in {"inner", "loop"} => Owed(program, x, m) = rest
                           /\ x.at = "unwind" => Owed(program, x, m) = 0
                     /\ \A x : x.body = fr.body /\ x.wave = fr.wave + 1 /\ x.at = "launch" =>
                           Owed(program, x, m) = rest
                BY <1>1, <4>1, OwedAtTop
            <4>4. here = owes /\ pays = Spends(fr.body[fr.wave].fetches, m)
                BY <4>2, <4>3 DEF fr
            <4> HIDE DEF here, pays
            <4>5. fr = Top
                BY DEF fr
            <4> QED BY <4>2, <4>3, <4>4, <4>5
        <3>3. /\ Effect.kind = "call" /\ Effect.flow \in DOMAIN program.flows =>
                    /\ program.flows[Effect.flow] \in Cheap(program)
                    /\ Field(Own(program, program.flows[Effect.flow]), m) <= here
              /\ Effect.kind = "for" =>
                    Effect.body \in Cheap(program) /\ Field(Own(program, Effect.body), m) = 0
              /\ Effect.kind = "match" => \A c \in ArmBodies(Effect) :
                    /\ c \in Cheap(program) /\ Field(Own(program, c), m) <= here
                    /\ m # "latency" /\ Retries(Effect) => Field(Own(program, c), m) <= 1
              /\ Effect.kind = "match" /\ m # "latency" /\ Retries(Effect) => MaxRetries <= here
            BY <1>1, <2>1, <3>1, EffectPays DEF EffectIn
        <3>4. \A c \in Cheap(program) : Field(Own(program, c), m) \in Nat
            BY <1>1, WaveAccount
        <3> HIDE DEF here, pays
        <3>5. /\ Top.at \in {"join", "effect"} => Owed(program, Top, m) = rest + here
              /\ Top.at \in {"match", "refetch"} =>
                    Owed(program, Top, m) = rest + (IF Retries(Effect) /\ m # "latency"
                                                    THEN MaxRetries - Top.attempt ELSE here)
              /\ Top.at \in {"inner", "loop"} => Owed(program, Top, m) = rest
            BY <3>2
        <3>6. ASSUME NEW x, x.body = Top.body, Become(x), Spent(m)' = Spent(m),
                     Owed(program, x, m) \in Nat, Owed(program, x, m) <= Owed(program, Top, m)
              PROVE  LedgerOk(program, stack', Spent(m)', m)
            <4>1. Spent(m)' = Spent(m) + 0 /\ 0 + Owed(program, x, m) <= Owed(program, Top, m)
                BY <2>2, <3>6 DEF LedgerOk
            <4> QED BY <2>3, <3>6, <4>1
        <3>7. ASSUME Become(Following(Top)) \/ Become(Valued(Top)), Spent(m)' = Spent(m),
                     rest <= Owed(program, Top, m)
              PROVE  LedgerOk(program, stack', Spent(m)', m)
            <4>1. PICK x \in {Following(Top), Valued(Top)} : Become(x)
                BY <3>7
            <4>2. x.body = Top.body /\ x.wave = Top.wave + 1 /\ x.at = "launch"
                BY <2>1 DEF Following, Valued, FrameSet
            <4>3. Owed(program, x, m) = rest
                BY <3>2, <4>2
            <4> QED BY <3>6, <3>7, <4>1, <4>2, <4>3
        <3>8. ASSUME NEW x, x.body = Top.body, x.wave = Top.wave, x.at = "inner",
                     NEW b \in Cheap(program), Enter(x, b), Spent(m)' = Spent(m),
                     rest + Field(Own(program, b), m) <= Owed(program, Top, m)
              PROVE  LedgerOk(program, stack', Spent(m)', m)
            <4>1. Owed(program, x, m) = rest
                BY <3>2, <3>8
            <4> QED BY <2>4, <3>8, <4>1
        <3>9. CASE Launch
            <4> DEFINE x == [Top EXCEPT !.at = "join"]
            <4>1. x.body = Top.body /\ x.wave = Top.wave /\ x.at = "join" /\ Become(x) /\ Top.at = "launch"
                BY <2>1, <3>9 DEF Launch, At, FrameSet
            <4> HIDE DEF x
            <4>2. Owed(program, x, m) = rest + here
                BY <3>2, <4>1
            <4>3. pays + Owed(program, x, m) <= Owed(program, Top, m)
                BY <2>2, <3>2, <4>1, <4>2
            <4>4. Spent(m)' = Spent(m) + pays
                <5>1. CASE m = "requests"
                    <6>1. sent' = sent /\ queued' = queued + pays
                        BY <3>9, <5>1 DEF Launch, pays, Spends
                    <6> QED BY <3>2, <5>1, <6>1 DEF Spent, Counted
                <5>2. CASE m = "depth"
                    BY <3>9, <5>2 DEF Launch, Spent, pays, Spends
                <5>3. CASE m = "latency"
                    BY <3>9, <5>3 DEF Launch, Spent, pays, Spends
                <5> QED BY <5>1, <5>2, <5>3 DEF Measures
            <4> QED BY <2>3, <3>2, <4>1, <4>3, <4>4
        <3>10. CASE Join
            <4> DEFINE x == [Top EXCEPT !.at = "effect"]
            <4>1. /\ x.body = Top.body /\ x.wave = Top.wave /\ x.at = "effect" /\ Become(x)
                  /\ Top.at = "join" /\ Spent(m)' = Spent(m)
                BY <1>2, <2>1, <3>10 DEF Join, At, FrameSet
            <4> HIDE DEF x
            <4>2. Owed(program, x, m) = Owed(program, Top, m)
                BY <3>2, <3>5, <4>1
            <4> QED BY <2>2, <3>6, <4>1, <4>2
        <3>11. CASE Plain
            <4>1. Top.at = "effect" /\ Become(Following(Top)) /\ Spent(m)' = Spent(m)
                BY <1>2, <3>11 DEF Plain, AtEffect, At
            <4>2. rest <= Owed(program, Top, m)
                BY <3>2, <3>5, <4>1
            <4> QED BY <3>7, <4>1, <4>2
        <3>12. CASE Return
            <4> DEFINE x == [Top EXCEPT !.at = "unwind", !.last = TRUE, !.returned = TRUE]
            <4>1. x.body = Top.body /\ x.wave = Top.wave /\ x.at = "unwind" /\ Become(x) /\ Spent(m)' = Spent(m)
                BY <1>2, <2>1, <3>12 DEF Return, FrameSet
            <4> HIDE DEF x
            <4>2. Owed(program, x, m) = 0
                BY <3>2, <4>1
            <4> QED BY <2>2, <3>6, <4>1, <4>2
        <3>13. CASE CallFlow
            <4>1. Top.at = "effect" /\ Effect.kind = "call" /\ Spent(m)' = Spent(m)
                BY <1>2, <3>13 DEF CallFlow, AtEffect, At
            <4>2. CASE Effect.flow \in DOMAIN program.flows
                <5> DEFINE x == [Top EXCEPT !.at = "inner"]
                           b == program.flows[Effect.flow]
                <5>1. x.body = Top.body /\ x.wave = Top.wave /\ x.at = "inner"
                    BY <2>1 DEF FrameSet
                <5>2. Enter(x, b)
                    BY <3>13, <4>2 DEF CallFlow
                <5>3. b \in Cheap(program) /\ Field(Own(program, b), m) <= here
                    BY <3>3, <4>1, <4>2
                <5> HIDE DEF x, b
                <5>4. rest + Field(Own(program, b), m) <= Owed(program, Top, m)
                    BY <3>2, <3>4, <3>5, <4>1, <5>3
                <5> QED BY <3>8, <4>1, <5>1, <5>2, <5>3, <5>4
            <4>3. CASE Effect.flow \notin DOMAIN program.flows
                <5>1. Become(Valued(Top))
                    BY <3>13, <4>3 DEF CallFlow
                <5>2. rest <= Owed(program, Top, m)
                    BY <3>2, <3>5, <4>1
                <5> QED BY <3>7, <4>1, <5>1, <5>2
            <4> QED BY <4>2, <4>3
        <3>14. CASE BeginMatch
            <4> DEFINE x == [Top EXCEPT !.at = "match", !.attempt = 0]
            <4>1. /\ x.body = Top.body /\ x.wave = Top.wave /\ x.at = "match" /\ x.attempt = 0 /\ Become(x)
                  /\ Top.at = "effect" /\ Effect.kind = "match" /\ Spent(m)' = Spent(m)
                BY <1>2, <2>1, <3>14 DEF BeginMatch, AtEffect, At, FrameSet
            <4> HIDE DEF x
            <4>2. /\ Owed(program, x, m) = rest + (IF Retries(Effect) /\ m # "latency"
                                                    THEN MaxRetries - 0 ELSE here)
                  /\ Owed(program, Top, m) = rest + here
                BY <3>2, <3>5, <4>1
            <4>3. Owed(program, x, m) \in Nat /\ Owed(program, x, m) <= Owed(program, Top, m)
                BY <3>2, <3>3, <4>1, <4>2, RetryAssumption
            <4> QED BY <3>6, <4>1, <4>3
        <3>15. ASSUME Top.at = "match"
               PROVE  /\ Effect.kind = "match" /\ Top.attempt <= MaxRetries
                      /\ rest <= Owed(program, Top, m)
            <4>1. Effect.kind = "match" /\ Top.attempt <= MaxRetries
                BY <2>1, <3>15 DEF FrameOk, WellPlaced
            <4>2. MaxRetries - Top.attempt \in Nat
                BY <3>1, <4>1, RetryAssumption
            <4> QED BY <3>2, <3>5, <3>15, <4>1, <4>2
        <3>16. CASE ValueArm \/ GiveUp
            <4>1. Top.at = "match" /\ Become(Valued(Top)) /\ Spent(m)' = Spent(m)
                BY <1>2, <3>16 DEF ValueArm, GiveUp, At
            <4> QED BY <3>7, <3>15, <4>1
        <3>17. CASE BodyArm
            <4> DEFINE x == [Top EXCEPT !.at = "inner"]
            <4>1. /\ x.body = Top.body /\ x.wave = Top.wave /\ x.at = "inner" /\ Spent(m)' = Spent(m)
                  /\ Top.at = "match" /\ Top.attempt < MaxRetries
                BY <1>2, <2>1, <3>17 DEF BodyArm, At, MoreAttempts, FrameSet
            <4>2. PICK k \in DOMAIN Effect.arms :
                     Effect.arms[k].kind = "body" /\ Enter(x, Effect.arms[k].body)
                BY <3>17 DEF BodyArm, Arms
            <4> DEFINE b == Effect.arms[k].body
            <4>3. b \in ArmBodies(Effect) /\ Effect.kind = "match"
                BY <3>15, <4>1, <4>2 DEF ArmBodies
            <4>4. Enter(x, b)
                BY <4>2
            <4> HIDE DEF x, b
            <4>5. b \in Cheap(program) /\ Field(Own(program, b), m) <= here /\ Field(Own(program, b), m) \in Nat
                BY <3>3, <3>4, <4>3
            <4>6. CASE Retries(Effect) /\ m # "latency"
                <5>1. Owed(program, Top, m) = rest + (MaxRetries - Top.attempt)
                    BY <3>5, <4>1, <4>6
                <5>2. Field(Own(program, b), m) <= 1 /\ 1 <= MaxRetries - Top.attempt
                    BY <3>1, <3>3, <4>1, <4>3, <4>6, RetryAssumption
                <5>3. rest + Field(Own(program, b), m) <= Owed(program, Top, m)
                    BY <3>1, <3>2, <4>5, <5>1, <5>2, RetryAssumption
                <5> QED BY <3>8, <4>1, <4>4, <4>5, <5>3
            <4>7. CASE ~(Retries(Effect) /\ m # "latency")
                <5>1. Owed(program, Top, m) = rest + here
                    BY <3>5, <4>1, <4>7
                <5>2. rest + Field(Own(program, b), m) <= Owed(program, Top, m)
                    BY <3>2, <4>5, <5>1
                <5> QED BY <3>8, <4>1, <4>4, <4>5, <5>2
            <4> QED BY <4>6, <4>7
        <3>18. CASE RetryArm
            <4>1. /\ Top.at = "match" /\ Top.attempt < MaxRetries /\ Effect.kind = "match"
                  /\ \E k \in DOMAIN Effect.arms : Effect.arms[k].kind = "retry"
                  /\ Top.attempt + 1 \in Nat
                BY <3>1, <3>15, <3>18 DEF RetryArm, At, MoreAttempts, Arms
            <4>2. CASE Effect.fetched
                <5> DEFINE x == [Top EXCEPT !.at = "refetch", !.attempt = Top.attempt + 1]
                <5>1. /\ Become(x) /\ queued' = queued + 1 /\ rounds' = rounds + 1
                      /\ sent' = sent /\ busy' = busy
                    BY <3>18, <4>2 DEF RetryArm
                <5>2. /\ x.body = Top.body /\ x.wave = Top.wave /\ x.at = "refetch"
                      /\ x.attempt = Top.attempt + 1
                    BY <2>1 DEF FrameSet
                <5> HIDE DEF x
                <5>3. Retries(Effect)
                    BY <4>1, <4>2 DEF Retries
                <5>4. CASE m = "latency"
                    <6>1. Owed(program, x, m) = rest + here /\ Owed(program, Top, m) = rest + here
                        BY <3>2, <3>5, <4>1, <5>2, <5>4
                    <6>2. Spent(m)' = Spent(m)
                        BY <5>1, <5>4 DEF Spent
                    <6> QED BY <2>2, <3>6, <5>1, <5>2, <6>1, <6>2
                <5>5. CASE m # "latency"
                    <6>1. /\ Owed(program, x, m) = rest + (MaxRetries - (Top.attempt + 1))
                          /\ Owed(program, Top, m) = rest + (MaxRetries - Top.attempt)
                        BY <3>2, <3>5, <4>1, <5>2, <5>3, <5>5
                    <6>2. 1 + Owed(program, x, m) <= Owed(program, Top, m)
                        BY <3>1, <3>2, <6>1, RetryAssumption
                    <6>3. Spent(m)' = Spent(m) + 1
                        BY <5>1, <5>5 DEF Spent, Counted, Measures
                    <6> QED BY <2>3, <5>1, <5>2, <6>2, <6>3
                <5> QED BY <5>4, <5>5
            <4>3. CASE ~Effect.fetched
                <5> DEFINE x == [Top EXCEPT !.attempt = Top.attempt + 1]
                <5>1. Become(x) /\ Spent(m)' = Spent(m)
                    BY <1>2, <3>18, <4>3 DEF RetryArm
                <5>2. x.body = Top.body /\ x.wave = Top.wave /\ x.at = "match"
                    BY <2>1, <4>1 DEF FrameSet
                <5> HIDE DEF x
                <5>3. ~Retries(Effect)
                    BY <4>3 DEF Retries
                <5>4. Owed(program, x, m) = rest + here /\ Owed(program, Top, m) = rest + here
                    BY <3>2, <3>5, <4>1, <5>2, <5>3
                <5> QED BY <2>2, <3>6, <5>1, <5>2, <5>4
            <4> QED BY <4>2, <4>3
        <3>19. CASE Refetched
            <4> DEFINE x == [Top EXCEPT !.at = "match"]
            <4>1. /\ x.body = Top.body /\ x.wave = Top.wave /\ x.at = "match" /\ x.attempt = Top.attempt
                  /\ Become(x) /\ Top.at = "refetch" /\ Spent(m)' = Spent(m)
                BY <1>2, <2>1, <3>19 DEF Refetched, At, FrameSet
            <4> HIDE DEF x
            <4>2. Owed(program, x, m) = Owed(program, Top, m)
                BY <3>2, <3>5, <4>1
            <4> QED BY <2>2, <3>6, <4>1, <4>2
        <3>20. CASE BeginLoop
            <4>1. PICK n \in 0..MaxItems : Become([Top EXCEPT !.at = "loop", !.left = n])
                BY <3>20 DEF BeginLoop
            <4> DEFINE x == [Top EXCEPT !.at = "loop", !.left = n]
            <4>2. /\ x.body = Top.body /\ x.wave = Top.wave /\ x.at = "loop" /\ Become(x)
                  /\ Top.at = "effect" /\ Spent(m)' = Spent(m)
                BY <1>2, <2>1, <3>20, <4>1 DEF BeginLoop, AtEffect, At, FrameSet
            <4> HIDE DEF x
            <4>3. Owed(program, x, m) = rest /\ rest <= Owed(program, Top, m)
                BY <3>2, <3>5, <4>2
            <4> QED BY <3>6, <4>2, <4>3
        <3>21. CASE NextItem
            <4>1. Top.at = "loop" /\ Effect.kind = "for" /\ Spent(m)' = Spent(m)
                BY <1>2, <2>1, <3>21 DEF NextItem, At, FrameOk, WellPlaced
            <4>2. Owed(program, Top, m) = rest
                BY <3>5, <4>1
            <4>3. CASE Top.left = 0
                <5>1. Become(Following(Top))
                    BY <3>21, <4>3 DEF NextItem
                <5> QED BY <3>7, <4>1, <4>2, <5>1
            <4>4. CASE Top.left # 0
                <5> DEFINE x == [Top EXCEPT !.at = "inner", !.left = @ - 1]
                <5>1. Enter(x, Effect.body)
                    BY <3>21, <4>4 DEF NextItem
                <5>2. x.body = Top.body /\ x.wave = Top.wave /\ x.at = "inner"
                    BY <2>1 DEF FrameSet
                <5> HIDE DEF x
                <5>3. Effect.body \in Cheap(program) /\ Field(Own(program, Effect.body), m) = 0
                    BY <3>3, <4>1
                <5> QED BY <3>8, <4>1, <4>2, <5>1, <5>2, <5>3
            <4> QED BY <4>3, <4>4
        <3> QED BY <1>5, <2>6, <3>9, <3>10, <3>11, <3>12, <3>13, <3>14, <3>16, <3>17, <3>18, <3>19,
                   <3>20, <3>21 DEF Run
    <2>7. CASE Unwind /\ Len(stack) = 1
        <3>1. stack' = <<>> /\ Spent(m)' = Spent(m)
            BY <1>2, <2>7 DEF Unwind
        <3> QED BY <1>4, <3>1
    <2>8. CASE Unwind /\ Len(stack) # 1
        <3> DEFINE fr == Last(Front(stack))
                   x == Resume(fr, Top)
                   n == Len(stack)
        <3>1. stack' = Front(Front(stack)) \o <<x>> /\ n # 1 /\ Spent(m)' = Spent(m)
            BY <1>2, <1>5, <2>8 DEF Unwind
        <3>2. stack \in Seq(FrameSet) /\ n \in Nat /\ n > 1 /\ fr = stack[n - 1]
            <4>1. stack \in Seq(FrameSet)
                BY <1>1, StackUnder
            <4>2. n \in Nat /\ n > 1
                BY <1>5, <3>1, <4>1
            <4> QED BY <2>1, <4>1, <4>2, Popped
        <3>3. fr \in FrameSet /\ FrameOk(fr) /\ fr.at = "inner" /\ fr.body \in Cheap(program)
            <4>1. n - 1 \in 1..n /\ n - 1 \in 1..(n - 1) /\ n - 1 \in DOMAIN stack
                BY <3>2
            <4>2. Above(stack[n - 1], stack[(n - 1) + 1].body)
                BY <1>1, <4>1, StackUnder
            <4> QED BY <1>1, <3>2, <4>1, <4>2, StackUnder DEF LedgerOk, BodiesIn, Above
        <3>4. fr.wave \in DOMAIN fr.body
            BY <3>3 DEF FrameOk, WellPlaced
        <3> HIDE DEF n, fr
        <3>5. Owed(program, fr, m) \in Nat
            BY <1>1, <3>3, OwedNat
        <3>6. /\ x.body = fr.body
              /\ \/ x.wave = fr.wave /\ x.at \in {"loop", "unwind"}
                 \/ x.wave = fr.wave + 1 /\ x.at = "launch"
            BY <3>3 DEF Resume, Valued, Following, FrameSet
        <3> HIDE DEF x
        <3>7. Owed(program, x, m) <= Owed(program, fr, m)
            <4>1. PICK rest \in Nat, here \in Nat :
                     /\ \A y : y.body = fr.body /\ y.wave = fr.wave =>
                            /\ y.at \in {"inner", "loop"} => Owed(program, y, m) = rest
                            /\ y.at = "unwind" => Owed(program, y, m) = 0
                     /\ \A y : y.body = fr.body /\ y.wave = fr.wave + 1 /\ y.at = "launch" =>
                            Owed(program, y, m) = rest
                BY <1>1, <3>3, <3>4, OwedAtTop
            <4>2. Owed(program, fr, m) = rest
                BY <3>3, <4>1
            <4>3. Owed(program, x, m) \in {rest, 0}
                BY <3>6, <4>1
            <4> QED BY <4>2, <4>3
        <3>8. x \in FrameSet /\ FrameOk(x)
            BY <1>1, <3>1, <3>2, NewUnder DEF n
        <3>9. Owed(program, x, m) \in Nat
            BY <1>1, <3>3, <3>6, <3>8, OwedNat
        <3>10. LedgerOk(program, Front(Front(stack)) \o <<x>>, Spent(m), m)
            BY <1>1, <2>1, <2>2, <3>2, <3>5, <3>6, <3>7, <3>9, LedgerPop DEF all, fr, n
        <3> QED BY <3>1, <3>10
    <2> QED BY <1>5, <2>5, <2>6, <2>7, <2>8
<1>6. CASE Fail
    <2>1. stack' = <<>> /\ Spent(m)' = Spent(m)
        BY <1>2, <1>6 DEF Fail
    <2> QED BY <1>4, <2>1
<1>7. CASE Answer
    <2>1. stack' = stack /\ Spent(m)' = Spent(m)
        BY <1>2, <1>7 DEF Answer
    <2> QED BY <1>3, <2>1
<1>8. CASE Send
    <2>1. stack' = stack /\ rounds' = rounds /\ busy' = busy /\ sent' + queued' = sent + queued
        BY <1>8 DEF Send, Counted
    <2>2. Spent(m)' = Spent(m)
        BY <2>1 DEF Spent, Measures
    <2> QED BY <1>3, <2>1, <2>2
<1>9. Run => stack # <<>>
    BY DEF Run, Launch, Join, Plain, Return, CallFlow, BeginMatch, ValueArm, BodyArm, RetryArm, Refetched,
       GiveUp, BeginLoop, NextItem, EndBody, Unwind, At, AtEffect
<1> QED BY <1>5, <1>6, <1>7, <1>8, <1>9 DEF Next, Tasks

\* Every step keeps the invariant.
LEMMA StepLedger == LedgerInv /\ [Next]_vars => LedgerInv'
<1>1. ASSUME LedgerInv, UNCHANGED vars PROVE LedgerInv'
    <2>1. ReturnInv'
        BY <1>1, StepReturn DEF LedgerInv
    <2>2. /\ program' = program /\ stack' = stack /\ sent' = sent /\ queued' = queued
          /\ rounds' = rounds /\ busy' = busy
        BY <1>1 DEF vars
    <2>3. Counted'
        BY <1>1, <2>2 DEF LedgerInv, Counted
    <2>4. \A m \in Measures : Spent(m)' = Spent(m)
        BY <2>2 DEF Spent
    <2> QED BY <1>1, <2>1, <2>2, <2>3, <2>4 DEF LedgerInv
<1>2. ASSUME LedgerInv, Next PROVE LedgerInv'
    <2>1. ReturnInv /\ ReturnInv' /\ Counted /\ Counted'
        BY <1>2, StepReturn, StepCounted DEF LedgerInv
    <2>2. program' = program
        BY <1>2 DEF Next, Run, Fail, Tasks, Launch, Join, Plain, Return, CallFlow, BeginMatch, ValueArm,
           BodyArm, RetryArm, Refetched, GiveUp, BeginLoop, NextItem, EndBody, Unwind, Send, Answer
    <2>3. ASSUME NEW m \in Measures, Fine(program, m)
          PROVE  LedgerOk(program, stack', Spent(m)', m)
        BY <1>2, <2>1, <2>3, LedgerStep DEF LedgerInv
    <2> QED BY <2>1, <2>2, <2>3 DEF LedgerInv
<1> QED BY <1>1, <1>2

\* It holds in every execution.
LEMMA AlwaysLedger == Spec => []LedgerInv
<1>1. Init => LedgerInv
    BY InitLedger
<1>2. LedgerInv /\ [Next]_vars => LedgerInv'
    BY StepLedger
<1> QED BY <1>1, <1>2, PTL DEF Spec

\* What the budget's properties ask of a program is what the ledger asks.
LEMMA ProgramsBounded ==
    ASSUME program \in Programs
    PROVE  (NoMixedWave => Unmixed(program)) /\ (RetriesAlone => Alone(program))
<1>1. ASSUME NEW b \in program.bodies, NEW i \in DOMAIN b
      PROVE  b[i] \in Waves /\ EffectOf(b[i]) = EffectIs(program, b, i)
    BY DEF Waves, EffectOf, EffectIs, EffectAt
<1>2. NoMixedWave => Unmixed(program)
    BY <1>1 DEF NoMixedWave, Unmixed
<1>3. ASSUME RetriesAlone, NEW b \in program.bodies, NEW i \in DOMAIN b,
             b[i].effect.kind = "match", Retries(b[i].effect), NEW c \in ArmBodies(b[i].effect)
      PROVE  Own(program, c).requests <= 1
    <2> DEFINE e == b[i].effect
               arms == {e.arms[k] : k \in DOMAIN e.arms}
    <2>1. \E a \in arms : a.kind = "retry"
        BY <1>3 DEF Retries
    <2>2. PICK a \in arms : a.kind = "body" /\ a.body = c
        BY <1>3 DEF ArmBodies
    <2>3. b[i] \in Waves /\ e.kind = "match" /\ e.fetched
        BY <1>1, <1>3 DEF Retries
    <2>4. CostOf(a.body).requests <= 1
        BY <1>3, <2>1, <2>2, <2>3 DEF RetriesAlone
    <2> QED BY <2>2, <2>4 DEF CostOf, Own
<1> QED BY <1>2, <1>3 DEF Alone

\* What is spent stays within the program's figure.
LEMMA SpentAtMost ==
    ASSUME LedgerInv, NEW m \in Measures, Fine(program, m)
    PROVE  Spent(m) \in Nat /\ Field(Cost, m) \in Nat /\ Spent(m) <= Field(Cost, m)
<1>1. Field(RequestCostOf(program), m) \in Nat
    BY ProgramCost, FieldsNat DEF LedgerInv, ReturnInv, Fine
<1>2. LedgerOk(program, stack, Spent(m), m) /\ StackOk(stack) /\ program \in Programs
    BY DEF LedgerInv, ReturnInv
<1> QED BY <1>1, <1>2, LedgerEnds DEF Cost, LedgerOk

(***************************************************************************)
(* An accepted budget on requests is kept by every execution of a program  *)
(* whose flows do not recur and whose retries come alone, whichever arms   *)
(* it takes and also when it fails halfway (cost.rs, max_requests).        *)
(***************************************************************************)
THEOREM RequestBudgetIsKept == Spec => []RequestsKept
<1>1. LedgerInv => RequestsKept
    <2> SUFFICES ASSUME LedgerInv, NEW n \in 0..sent, Accepts(Cost, Declared("requests", n)),
                        FlowsDoNotRecur, RetriesAlone
                 PROVE  sent <= n
        BY DEF RequestsKept
    <2>1. program \in Programs /\ Counted /\ n \in Int
        BY DEF LedgerInv, ReturnInv
    <2>2. Cost \in Costs
        BY <2>1, ProgramCost DEF Cost
    <2>3. ~Cost.unbounded /\ Cost.requests <= n
        BY <2>1 DEF Accepts, Declared, NoBudget, Within, Undeclared, Counted
    <2>4. Fine(program, "requests")
        BY <2>1, <2>2, <2>3, ProgramsBounded, NoRecursionThere
           DEF Fine, Field, Costs, Cost, Undeclared
    <2>5. sent + queued <= Cost.requests /\ Cost.requests \in Nat
        BY <2>4, SpentAtMost DEF Measures, Spent, Field
    <2> QED BY <2>1, <2>3, <2>5 DEF Counted
<1> QED BY <1>1, AlwaysLedger, PTL

(***************************************************************************)
(* An accepted budget on hops bounds the rounds of requests that an        *)
(* execution waits for (cost.rs, depth; exec.rs, run_body), if no wave     *)
(* also fetches in its effect.                                             *)
(***************************************************************************)
THEOREM HopBudgetIsKept == Spec => []HopsKept
<1>1. LedgerInv => HopsKept
    <2> SUFFICES ASSUME LedgerInv, NEW n \in 0..rounds, Accepts(Cost, Declared("hops", n)),
                        FlowsDoNotRecur, NoMixedWave, RetriesAlone
                 PROVE  rounds <= n
        BY DEF HopsKept
    <2>1. program \in Programs /\ n \in Nat /\ rounds \in Nat
        BY DEF LedgerInv, ReturnInv, Counted
    <2>2. Cost \in Costs
        BY <2>1, ProgramCost DEF Cost
    <2>3. ~Cost.unbounded /\ Cost.depth <= n
        BY <2>1 DEF Accepts, Declared, NoBudget, Within, Undeclared
    <2>4. Fine(program, "depth")
        BY <2>1, <2>2, <2>3, ProgramsBounded, NoRecursionThere
           DEF Fine, Field, Costs, Cost, Undeclared
    <2>5. rounds <= Cost.depth /\ Cost.depth \in Nat
        BY <2>4, SpentAtMost DEF Measures, Spent, Field
    <2> QED BY <2>1, <2>3, <2>5
<1> QED BY <1>1, AlwaysLedger, PTL

(***************************************************************************)
(* An accepted p99 bounds the sum of the declared latencies that an        *)
(* execution waits for (cost.rs, latency; exec.rs, run_body), if no wave   *)
(* also fetches in its effect.                                             *)
(***************************************************************************)
THEOREM LatencyBudgetIsKept == Spec => []LatencyKept
<1>1. LedgerInv => LatencyKept
    <2> SUFFICES ASSUME LedgerInv, NEW n \in 0..busy, Accepts(Cost, Declared("p99", n)),
                        FlowsDoNotRecur, NoMixedWave
                 PROVE  busy <= n
        BY DEF LatencyKept
    <2>1. program \in Programs /\ n \in Nat /\ busy \in Nat
        BY DEF LedgerInv, ReturnInv, Counted
    <2>2. ~Cost.unbounded /\ Cost.latency # Undeclared /\ Cost.latency <= n
        BY <2>1 DEF Accepts, Declared, NoBudget, Within, Undeclared
    <2>3. Fine(program, "latency")
        BY <2>1, <2>2, ProgramsBounded, NoRecursionThere DEF Fine, Field, Cost
    <2>4. busy <= Cost.latency /\ Cost.latency \in Nat
        BY <2>3, SpentAtMost DEF Measures, Spent, Field
    <2> QED BY <2>1, <2>2, <2>4
<1> QED BY <1>1, AlwaysLedger, PTL
=============================================================================
