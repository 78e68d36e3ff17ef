---------------------------- MODULE Interpreter -----------------------------
(***************************************************************************)
(* run_body, run_flow and run_match (exec.rs) on programs with nested      *)
(* bodies: the frames of the recursion, the requests the waves put on the  *)
(* wire, `retry` chains, loops and early returns.  What a variable holds   *)
(* is left out: any arm may match, any evaluation may fail, and a loop may *)
(* run over any number of elements.                                        *)
(***************************************************************************)
EXTENDS Schedules

CONSTANT MaxItems   \* bound on the length of a collection

ASSUME ItemsAssumption == MaxItems \in Nat

VARIABLES
    program, \* the program that runs
    status,  \* running, finished, failed
    stack,   \* the activations of run_body, the innermost last
    queued,  \* spawned fetches that have not sent their request
    open,    \* requests on the wire
    sent,    \* requests sent so far
    rounds,  \* rounds of requests waited for, one after the other
    busy     \* the sum of their declared latencies, `retry` rounds left out

vars == <<program, status, stack, queued, open, sent, rounds, busy>>

\* An activation: the wave it is in, where it stands in it, run_match's loop
\* counter, the elements a loop has left, whether last_value is Some, and, for
\* the properties, whether a `return` statement of it was executed.
Frame(b) == [body |-> b, wave |-> 1, at |-> "launch", attempt |-> 0, left |-> 0,
             last |-> FALSE, returned |-> FALSE]

Init ==
    /\ program \in Programs
    /\ status = "running"
    /\ stack = <<Frame(program.main)>>
    /\ queued = 0 /\ open = 0 /\ sent = 0 /\ rounds = 0 /\ busy = 0

Top == Last(stack)
Wave == Top.body[Top.wave]
Effect == Wave.effect

At(place) == stack # <<>> /\ Top.at = place
AtEffect(kind) == At("effect") /\ Effect.kind = kind

Become(f) == stack' = Front(stack) \o <<f>>
Enter(f, b) == stack' = Front(stack) \o <<f, Frame(b)>>
Following(f) == [f EXCEPT !.wave = @ + 1, !.at = "launch"]
Valued(f) == [Following(f) EXCEPT !.last = TRUE]

-----------------------------------------------------------------------------
\* Spawn the fetches of the wave; a wave without any goes on to its effect.
Launch ==
    /\ At("launch") /\ Top.wave <= Len(Top.body)
    /\ Become([Top EXCEPT !.at = "join"])
    /\ queued' = queued + Len(Wave.fetches)
    /\ rounds' = rounds + (IF Wave.fetches = <<>> THEN 0 ELSE 1)
    /\ busy' = busy + Slowest(Wave.fetches)
    /\ UNCHANGED <<program, status, open, sent>>

\* A task sends its request, also when nobody waits for it any longer.
Send ==
    /\ queued > 0
    /\ queued' = queued - 1 /\ open' = open + 1 /\ sent' = sent + 1
    /\ UNCHANGED <<program, status, stack, rounds, busy>>

Answer ==
    /\ open > 0
    /\ open' = open - 1
    /\ UNCHANGED <<program, status, stack, queued, sent, rounds, busy>>

\* Every handle has been awaited.
Bug_JoinsTheFirst == queued + open < Len(Wave.fetches) \/ Wave.fetches = <<>>
AllJoined == queued = 0 /\ open = 0

Join ==
    /\ At("join") /\ AllJoined
    /\ Become([Top EXCEPT !.at = "effect"])
    /\ UNCHANGED <<program, status, queued, open, sent, rounds, busy>>

\* `?`: a fetch or an evaluation fails.  Every activation ends; tasks already
\* spawned go on.
Fail ==
    /\ \/ At("join") /\ queued + open < Len(Wave.fetches)
       \/ At("refetch") /\ queued + open = 0
       \/ At("effect") \/ At("match")
    /\ status' = "failed" /\ stack' = <<>>
    /\ UNCHANGED <<program, queued, open, sent, rounds, busy>>

\* log and assert leave no value.
Plain ==
    /\ AtEffect("plain") \/ AtEffect("none")
    /\ Become(Following(Top))
    /\ UNCHANGED <<program, status, queued, open, sent, rounds, busy>>

Return ==
    /\ AtEffect("return")
    /\ Become([Top EXCEPT !.at = "unwind", !.last = TRUE, !.returned = TRUE])
    /\ UNCHANGED <<program, status, queued, open, sent, rounds, busy>>

\* run_flow, for a declared flow; any other call is evaluated on the spot.
CallFlow ==
    /\ AtEffect("call")
    /\ IF Effect.flow \in DOMAIN program.flows
       THEN Enter([Top EXCEPT !.at = "inner"], program.flows[Effect.flow])
       ELSE Become(Valued(Top))
    /\ UNCHANGED <<program, status, queued, open, sent, rounds, busy>>

-----------------------------------------------------------------------------
BeginMatch ==
    /\ AtEffect("match")
    /\ Become([Top EXCEPT !.at = "match", !.attempt = 0])
    /\ UNCHANGED <<program, status, queued, open, sent, rounds, busy>>

\* The first arm whose pattern fits, any of them.
Arms == {Effect.arms[i] : i \in DOMAIN Effect.arms}

MoreAttempts == Top.attempt < MaxRetries

Bug_NeverExhausted == Top.attempt > MaxRetries
Exhausted == ~MoreAttempts

ValueArm ==
    /\ At("match") /\ MoreAttempts
    /\ \E a \in Arms : a.kind = "value"
    /\ Become(Valued(Top))
    /\ UNCHANGED <<program, status, queued, open, sent, rounds, busy>>

BodyArm ==
    /\ At("match") /\ MoreAttempts
    /\ \E a \in Arms : a.kind = "body" /\ Enter([Top EXCEPT !.at = "inner"], a.body)
    /\ UNCHANGED <<program, status, queued, open, sent, rounds, busy>>

\* run_effects, then refetch_scrutinee: nothing is fetched unless the scrutinee
\* names a fetch of this very body.
RetryArm ==
    /\ At("match") /\ MoreAttempts
    /\ \E a \in Arms : a.kind = "retry"
    /\ IF Effect.fetched
       THEN /\ Become([Top EXCEPT !.at = "refetch", !.attempt = Top.attempt + 1])
            /\ queued' = queued + 1 /\ rounds' = rounds + 1
       ELSE /\ Become([Top EXCEPT !.attempt = Top.attempt + 1])
            /\ UNCHANGED <<queued, rounds>>
    /\ UNCHANGED <<program, status, open, sent, busy>>

Refetched ==
    /\ At("refetch") /\ queued = 0 /\ open = 0
    /\ Become([Top EXCEPT !.at = "match"])
    /\ UNCHANGED <<program, status, queued, open, sent, rounds, busy>>

\* Retries exhausted: the match is worth its scrutinee, whatever that is now.
GiveUp ==
    /\ At("match") /\ Exhausted
    /\ Become(Valued(Top))
    /\ UNCHANGED <<program, status, queued, open, sent, rounds, busy>>

-----------------------------------------------------------------------------
BeginLoop ==
    /\ AtEffect("for")
    /\ \E n \in 0..MaxItems : Become([Top EXCEPT !.at = "loop", !.left = n])
    /\ UNCHANGED <<program, status, queued, open, sent, rounds, busy>>

NextItem ==
    /\ At("loop")
    /\ IF Top.left = 0 THEN Become(Following(Top))
       ELSE Enter([Top EXCEPT !.at = "inner", !.left = @ - 1], Effect.body)
    /\ UNCHANGED <<program, status, queued, open, sent, rounds, busy>>

\* body_can_return: a `return` of its own, or of a loop or an arm in it.
DirectReturn(b) == \E i \in DOMAIN b : b[i].effect.kind = "return"

CanReturn(b) ==
    \A S \in SUBSET program.bodies :
        (\A c \in program.bodies : DirectReturn(c) \/ Inside(c) \cap S # {} => c \in S) => b \in S

\* ForEachIr::returns
Bug_EveryBodyReturns(b) == TRUE
Bug_DirectReturnsOnly(b) == DirectReturn(b)
Returns(b) == CanReturn(b)

\* The end of the waves: the body is worth its last value, if it has one.
EndBody ==
    /\ At("launch") /\ Top.wave > Len(Top.body)
    /\ Become([Top EXCEPT !.at = "unwind"])
    /\ UNCHANGED <<program, status, queued, open, sent, rounds, busy>>

\* Back in the activation that is waiting: a flow call or an arm gives its
\* effect a value; a loop goes on, or hands an early return to its own body.
Resume(f, child) ==
    LET e == f.body[f.wave].effect
        g == [f EXCEPT !.returned = @ \/ (child.returned /\ e.kind # "call")]
    IN  IF e.kind # "for" THEN Valued(g)
        ELSE IF Returns(e.body) /\ child.last
             THEN [g EXCEPT !.at = "unwind", !.last = TRUE]
             ELSE [g EXCEPT !.at = "loop"]

Unwind ==
    /\ At("unwind")
    /\ IF Len(stack) = 1
       THEN stack' = <<>> /\ status' = "finished"
       ELSE /\ stack' = Front(Front(stack)) \o <<Resume(Last(Front(stack)), Top)>>
            /\ UNCHANGED status
    /\ UNCHANGED <<program, queued, open, sent, rounds, busy>>

Run ==
    \/ Launch \/ Join \/ Plain \/ Return \/ CallFlow
    \/ BeginMatch \/ ValueArm \/ BodyArm \/ RetryArm \/ Refetched \/ GiveUp
    \/ BeginLoop \/ NextItem \/ EndBody \/ Unwind

Tasks == Send \/ Answer

Next == Run \/ Fail \/ Tasks

\* run_body always has something to do or a task to wait for, and the wire
\* answers as long as somebody waits (http.rs: with a timeout declared).
Fairness == WF_vars(Run) /\ WF_vars(status = "running" /\ Tasks)

Spec == Init /\ [][Next]_vars /\ Fairness

-----------------------------------------------------------------------------
Waves == UNION {{b[i] : i \in DOMAIN b} : b \in program.bodies}

\* A `return` written in a match arm.
ArmsDoNotReturn ==
    \A w \in Waves : w.effect.kind = "match" =>
        \A b \in ArmBodies(w.effect) : ~CanReturn(b)

\* A loop body that returns through a loop nested in it only, and that has a
\* value too.
LoopsReturnAlone ==
    \A b \in program.bodies :
        CanReturn(b) => DirectReturn(b) \/ \A i \in DOMAIN b : b[i].effect.kind \notin {"call", "match"}

\* An activation that executed a `return` does nothing more, however many
\* loops the `return` was written in.
ReturnIsLast ==
    ArmsDoNotReturn => \A k \in DOMAIN stack : stack[k].returned => stack[k].at = "unwind"

\* A body is left at its end or by a `return`: in particular a loop visits
\* every element otherwise.
LeftForAReason ==
    ArmsDoNotReturn /\ LoopsReturnAlone => \A k \in DOMAIN stack :
        stack[k].at = "unwind" => stack[k].returned \/ stack[k].wave > Len(stack[k].body)

\* Every program ends, retry chains and loops included.
RunEnds == <>(status # "running")
=============================================================================
