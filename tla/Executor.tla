------------------------------ MODULE Executor ------------------------------
(***************************************************************************)
(* run_body on one optimized body (exec.rs), composed with the optimizer   *)
(* that scheduled it.  A wave is run in two halves: its fetches are        *)
(* spawned together on a snapshot of the environment and joined in launch  *)
(* order, then its other nodes run in program order.  A spawned fetch is a *)
(* tokio task of its own: it sends its request and gets its answer at any  *)
(* time, also after run_body has given up on it (a dropped JoinHandle      *)
(* detaches its task).                                                     *)
(***************************************************************************)
EXTENDS Optimizer

VARIABLES
    reply, \* what comes of each request and expression
    stage, \* where run_body stands
    wave,  \* the wave it is in
    env,   \* the environment
    snap,  \* its clone at the start of the wave
    task,  \* per fetch: idle, spawned, sent, ok, err
    ran,   \* nodes whose effect on the environment has happened
    out,   \* what was printed or returned
    muts   \* mutations in the order the network saw them

execVars == <<reply, stage, wave, env, snap, task, ran, out, muts>>
vars == <<optVars, execVars>>

Stage == {"compile", "launch", "await", "nodes", "returned", "finished", "failed"}

Init ==
    /\ OptInit
    /\ reply \in Replies(src)
    /\ stage = "compile"
    /\ wave = 0
    /\ env = ParamEnv
    /\ snap = ParamEnv
    /\ task = [i \in Ids |-> "idle"]
    /\ ran = {}
    /\ out = <<>>
    /\ muts = <<>>

Fetches == {i \in Wave(wave) : IsFetch(nodes[i])}

\* The fetches spawned together: those of one wave.
Bug_LaunchesEverything == {i \in live : level[i] >= wave /\ IsFetch(nodes[i])}
Launched == Fetches

\* What their tasks are given to evaluate with.
Bug_SnapshotOnce == snap
Snapshot == env

Bug_SkipsAWave == wave + 2
FollowingWave == wave + 1

\* `for wave in &body.waves` has another wave to run.
MoreWaves == wave < depth

\* What is left of the current half of the wave; the least id comes first.
Pending == (IF stage = "await" THEN Fetches ELSE Wave(wave)) \ ran
IsNext(i) == i \in Pending /\ \A j \in Pending : i <= j

Compile == OptNext /\ UNCHANGED execVars

Begin ==
    /\ stage = "compile" /\ Done
    /\ stage' = "launch"
    /\ UNCHANGED <<optVars, reply, wave, env, snap, task, ran, out, muts>>

\* let snapshot = env.clone(); tokio::spawn every fetch of the wave
LaunchWave ==
    /\ stage = "launch" /\ MoreWaves
    /\ snap' = Snapshot
    /\ task' = [i \in Ids |-> IF i \in Launched THEN "spawned" ELSE task[i]]
    /\ stage' = "await"
    /\ UNCHANGED <<optVars, reply, wave, env, ran, out, muts>>

\* do_fetch up to the request: path, query, body and key are evaluated in the
\* snapshot, and nothing is sent if one of them cannot be.
SendRequest(i) ==
    /\ task[i] = "spawned"
    /\ IF Evaluable(nodes[i], snap) /\ reply[nodes[i].text] # "bad"
       THEN /\ task' = [task EXCEPT ![i] = "sent"]
            /\ muts' = IF nodes[i].method = "GET" THEN muts
                       ELSE Append(muts, Term(nodes[i], snap))
       ELSE /\ task' = [task EXCEPT ![i] = "err"]
            /\ UNCHANGED muts
    /\ UNCHANGED <<optVars, reply, stage, wave, env, snap, ran, out>>

\* do_fetch from the answer on: a failure of a plain binding is a RunError, an
\* error in the pipeline of any.
Answer(i) ==
    /\ task[i] = "sent"
    /\ task' = [task EXCEPT ![i] = IF FetchFails(nodes[i], reply) THEN "err" ELSE "ok"]
    /\ UNCHANGED <<optVars, reply, stage, wave, env, snap, ran, out, muts>>

\* handle.await in launch order, then env.insert.
JoinOk(i) ==
    /\ stage = "await" /\ IsNext(i) /\ task[i] = "ok"
    /\ env' = Insert(env, nodes[i].bind, FetchValue(nodes[i], snap, reply))
    /\ ran' = ran \cup {i}
    /\ UNCHANGED <<optVars, reply, stage, wave, snap, task, out, muts>>

\* The first error leaves run_body; the handles not joined yet are dropped.
JoinErr(i) ==
    /\ stage = "await" /\ IsNext(i) /\ task[i] = "err"
    /\ stage' = "failed"
    /\ UNCHANGED <<optVars, reply, wave, env, snap, task, ran, out, muts>>

JoinDone ==
    /\ stage = "await" /\ Pending = {}
    /\ stage' = "nodes"
    /\ UNCHANGED <<optVars, reply, wave, env, snap, task, ran, out, muts>>

\* An undefined variable, an expression that cannot be evaluated, or an
\* assertion that does not hold.
NodeFails(n) == ~Evaluable(n, env) \/ Fails(n, reply)

FailNode(i) ==
    /\ stage = "nodes" /\ IsNext(i) /\ NodeFails(nodes[i])
    /\ stage' = "failed"
    /\ UNCHANGED <<optVars, reply, wave, env, snap, task, ran, out, muts>>

RunLet(i) ==
    /\ stage = "nodes" /\ IsNext(i) /\ ~NodeFails(nodes[i])
    /\ nodes[i].kind \in {"let", "alias"}
    /\ env' = Insert(env, nodes[i].bind, LetValue(nodes[i], env))
    /\ ran' = ran \cup {i}
    /\ UNCHANGED <<optVars, reply, stage, wave, snap, task, out, muts>>

RunLog(i) ==
    /\ stage = "nodes" /\ IsNext(i) /\ ~NodeFails(nodes[i])
    /\ nodes[i].kind = "log"
    /\ out' = Append(out, Term(nodes[i], env))
    /\ ran' = ran \cup {i}
    /\ UNCHANGED <<optVars, reply, stage, wave, env, snap, task, muts>>

RunAssert(i) ==
    /\ stage = "nodes" /\ IsNext(i) /\ ~NodeFails(nodes[i])
    /\ nodes[i].kind = "assert"
    /\ ran' = ran \cup {i}
    /\ UNCHANGED <<optVars, reply, stage, wave, env, snap, task, out, muts>>

RunReturn(i) ==
    /\ stage = "nodes" /\ IsNext(i) /\ ~NodeFails(nodes[i])
    /\ nodes[i].kind = "return"
    /\ out' = Append(out, Term(nodes[i], env))
    /\ ran' = ran \cup {i}
    /\ stage' = "returned"
    /\ UNCHANGED <<optVars, reply, wave, env, snap, task, muts>>

NextWave ==
    /\ stage = "nodes" /\ Pending = {}
    /\ wave' = FollowingWave
    /\ stage' = "launch"
    /\ UNCHANGED <<optVars, reply, env, snap, task, ran, out, muts>>

Finish ==
    /\ stage = "launch" /\ wave = depth
    /\ stage' = "finished"
    /\ UNCHANGED <<optVars, reply, wave, env, snap, task, ran, out, muts>>

\* The steps of run_body itself.
Body ==
    \/ Begin \/ LaunchWave \/ JoinDone \/ NextWave \/ Finish
    \/ \E i \in Ids : \/ JoinOk(i) \/ JoinErr(i) \/ FailNode(i)
                      \/ RunLet(i) \/ RunLog(i) \/ RunAssert(i) \/ RunReturn(i)

\* The steps of the spawned tasks.
Tasks == \E i \in Ids : SendRequest(i) \/ Answer(i)

Next ==
    \/ Compile
    \/ Body
    \/ Tasks

\* Compiling and running need no outside help.  Tokio polls a spawned task, and
\* a sent request is answered sooner or later, if only by the endpoint's
\* timeout.  Once run_body has failed the process may exit, so a detached task
\* has no right to go on.
Fairness ==
    /\ WF_vars(Compile)
    /\ WF_vars(Body)
    /\ WF_vars(stage # "failed" /\ Tasks)

Spec == Init /\ [][Next]_vars /\ Fairness

-----------------------------------------------------------------------------
Ended == stage \in {"returned", "finished", "failed"}

\* A statement has been begun: its task was spawned, or it ran.
Begun(i) == i \in ran \/ task[i] # "idle"

\* No effect begins before every effect written above it has happened: a
\* mutation is not on the wire while an earlier assertion, log line or mutation
\* is still to come, and never at all once one of them failed.
EffectGate ==
    \A a, b \in Ids : IsEffect(src[a]) /\ IsEffect(src[b]) /\ a < b /\ Begun(b)
                        => a \in ran

\* A request is not sent, nor an expression evaluated, before the statements
\* that produce its inputs have stored their results.
DataGate ==
    \A i \in Ids : Begun(i) =>
        IF nodes[i].kind = "alias" THEN deps[i] \subseteq ran ELSE Needs(src, i) \subseteq ran

\* The mutations on the wire are an initial part of those the program sends,
\* in its order, each at most once and with the inputs the program gives it,
\* however the answers of the requests around them interleave.
MutationsMatch ==
    LET expected == StraightRun(src, reply, TRUE).muts
    IN  Len(muts) <= Len(expected) /\ muts = SubSeq(expected, 1, Len(muts))

\* What is printed or returned is an initial part of what the statements print
\* when they run one after the other.
PrintsAsWritten ==
    LET expected == StraightRun(src, reply, FALSE).out
    IN  Len(out) <= Len(expected) /\ out = SubSeq(expected, 1, Len(out))

\* The executor implements the straight-line reading.
Reading == INSTANCE StraightBody WITH
    status <- IF stage = "failed" THEN "failed"
              ELSE IF Ended THEN "done" ELSE "running"
ImplementsStraight == Reading!StraightSpec

\* Every body ends, whatever fails.
BodyEnds == <>Ended
=============================================================================
