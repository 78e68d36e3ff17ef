--------------------------- MODULE ExecutorProofs ---------------------------
(***************************************************************************)
(* No effect overtakes an earlier one, for every set of sources and every  *)
(* combination of answers.  The optimizer puts effects in strictly rising  *)
(* waves (OptimizerProofs); what is added here is that run_body begins     *)
(* nothing of a later wave, and has run all of an earlier one, whenever it *)
(* stands in wave w, also while detached tasks go on after a failure.      *)
(***************************************************************************)
EXTENDS Executor, OptimizerProofs, StraightProofs

\* Nothing runs before the schedule is there.
RunsCompiled ==
    IF stage = "compile" THEN wave = 0 /\ ran = {} /\ \A i \in Ids : task[i] = "idle" ELSE Done

\* What has begun belongs to a wave that was reached.
Reached(i) == level[i] <= wave /\ (stage = "launch" => level[i] < wave)
BegunWasReached == \A i \in Ids : Begun(i) => i \in live /\ Reached(i)

\* Every wave that was left is complete.
PastWavesRan == stage # "compile" => \A i \in live : level[i] < wave => i \in ran

ExecInv ==
    /\ OptInv
    /\ stage \in Stage /\ wave \in Nat /\ ran \subseteq Ids
    /\ task \in [Ids -> {"idle", "spawned", "sent", "ok", "err"}]
    /\ RunsCompiled /\ BegunWasReached /\ PastWavesRan

LEMMA InitExecInv == Init => ExecInv
PROOF BY InitOptInv DEF Init, ExecInv, RunsCompiled, BegunWasReached, PastWavesRan, Begun, Stage

\* A step that leaves the schedule, the wave and the stage alone.
LEMMA SameWave ==
    ASSUME ExecInv, UNCHANGED optVars, wave' = wave, stage' = stage, stage # "compile",
           task' \in [Ids -> {"idle", "spawned", "sent", "ok", "err"}],
           ran \subseteq ran', ran' \subseteq live,
           \A i \in Ids : Begun(i)' => Begun(i) \/ (i \in live /\ Reached(i))
    PROVE  ExecInv'
<1>1. OptInv' /\ Ids' = Ids /\ live' = live /\ level' = level
    BY StutterStep DEF ExecInv, optVars, Ids
<1>2. stage' \in Stage /\ wave' \in Nat /\ ran' \subseteq Ids' /\ RunsCompiled'
    BY <1>1 DEF ExecInv, RunsCompiled, Done, OptInv, OptTypeOK, optVars
<1>3. BegunWasReached'
    BY <1>1 DEF ExecInv, BegunWasReached, Reached
<1>4. PastWavesRan'
    BY <1>1 DEF ExecInv, PastWavesRan
<1> QED BY <1>1, <1>2, <1>3, <1>4 DEF ExecInv

\* A step that only moves the stage, and not to or from the start of a wave.
LEMMA SameProgress ==
    ASSUME ExecInv, UNCHANGED optVars, wave' = wave, stage' \in Stage \ {"compile", "launch"},
           stage # "compile", UNCHANGED <<task, ran>>
    PROVE  ExecInv'
<1>1. OptInv' /\ Ids' = Ids /\ live' = live /\ level' = level /\ Done' = Done
    BY StutterStep DEF ExecInv, optVars, Ids, Done
<1>2. RunsCompiled' /\ PastWavesRan'
    BY <1>1 DEF ExecInv, RunsCompiled, PastWavesRan
<1>3. BegunWasReached'
    BY <1>1 DEF ExecInv, BegunWasReached, Begun, Reached
<1> QED BY <1>1, <1>2, <1>3 DEF ExecInv

-----------------------------------------------------------------------------
LEMMA DoneIsFinal == Done => ~OptNext
PROOF BY DEF Done, OptNext, WireNode, WireDone, ScanNode, ScanDone, RewriteOne, RewriteDone,
             MarkRoots, MarkDeps, MarkDone, RaiseLevel, LevelNode, LevelDone

LEMMA CompileStep == ExecInv /\ Compile => ExecInv'
<1> SUFFICES ASSUME ExecInv, Compile PROVE ExecInv'
    OBVIOUS
<1>1. stage = "compile" /\ stage' = "compile" /\ OptInv'
    BY DoneIsFinal, NextOptInv DEF Compile, execVars, ExecInv, RunsCompiled
<1>2. Ids' = Ids
    BY DEF Compile, OptNext, WireNode, WireDone, ScanNode, ScanDone, RewriteOne, RewriteDone,
           MarkRoots, MarkDeps, MarkDone, RaiseLevel, LevelNode, LevelDone, Ids
<1> QED BY <1>1, <1>2 DEF Compile, execVars, ExecInv, RunsCompiled, BegunWasReached,
           PastWavesRan, Begun

LEMMA BeginStep == ExecInv /\ Begin => ExecInv'
<1> SUFFICES ASSUME ExecInv, Begin PROVE ExecInv'
    OBVIOUS
<1>1. OptInv' /\ Ids' = Ids /\ live' = live /\ level' = level /\ Done'
    BY StutterStep DEF ExecInv, Begin, optVars, Ids, Done
<1>2. wave = 0 /\ \A i \in live : level[i] \in Nat
    BY DEF ExecInv, RunsCompiled, Begin, OptInv, OptTypeOK
<1> QED BY <1>1, <1>2 DEF Begin, ExecInv, RunsCompiled, BegunWasReached, PastWavesRan, Begun,
           Stage

LEMMA LaunchWaveStep == ExecInv /\ LaunchWave => ExecInv'
<1> SUFFICES ASSUME ExecInv, LaunchWave PROVE ExecInv'
    OBVIOUS
<1>1. OptInv' /\ Ids' = Ids /\ live' = live /\ level' = level /\ Done' = Done
    BY StutterStep DEF ExecInv, LaunchWave, optVars, Ids, Done
<1>2. /\ wave' = wave /\ wave \in Nat /\ ran' = ran /\ stage = "launch" /\ stage' = "await"
      /\ task' = [i \in Ids |-> IF i \in Launched THEN "spawned" ELSE task[i]]
    BY DEF LaunchWave, ExecInv
<1>3. \A i \in Launched : i \in live /\ level[i] = wave
    BY DEF Launched, Fetches, Wave
<1>4. RunsCompiled' /\ PastWavesRan'
    BY <1>1, <1>2 DEF ExecInv, RunsCompiled, PastWavesRan
<1>5. BegunWasReached'
    BY <1>1, <1>2, <1>3 DEF ExecInv, BegunWasReached, Begun, Reached
<1> QED BY <1>1, <1>2, <1>4, <1>5 DEF ExecInv, Stage

LEMMA NextWaveStep == ExecInv /\ NextWave => ExecInv'
<1> SUFFICES ASSUME ExecInv, NextWave PROVE ExecInv'
    OBVIOUS
<1>1. OptInv' /\ Ids' = Ids /\ live' = live /\ level' = level /\ Done' = Done
    BY StutterStep DEF ExecInv, NextWave, optVars, Ids, Done
<1>2. /\ wave' = wave + 1 /\ wave \in Nat /\ ran' = ran /\ task' = task
      /\ stage = "nodes" /\ stage' = "launch"
    BY DEF NextWave, FollowingWave, ExecInv
<1>3. \A i \in live : level[i] \in Nat /\ (level[i] = wave => i \in ran)
    BY <1>2 DEF NextWave, Pending, Wave, ExecInv, OptInv, OptTypeOK
<1>4. RunsCompiled' /\ PastWavesRan'
    BY <1>1, <1>2, <1>3 DEF ExecInv, RunsCompiled, PastWavesRan
<1>5. BegunWasReached'
    BY <1>1, <1>2, <1>3 DEF ExecInv, BegunWasReached, Begun, Reached
<1> QED BY <1>1, <1>2, <1>4, <1>5 DEF ExecInv, Stage

LEMMA TaskStep == ExecInv /\ Tasks => ExecInv'
<1> SUFFICES ASSUME ExecInv, NEW i \in Ids, SendRequest(i) \/ Answer(i) PROVE ExecInv'
    BY DEF Tasks
<1>1. /\ UNCHANGED <<optVars, wave, stage, ran>> /\ task[i] # "idle"
      /\ task' \in [Ids -> {"idle", "spawned", "sent", "ok", "err"}]
      /\ \A j \in Ids : j # i => task'[j] = task[j]
    BY DEF SendRequest, Answer, ExecInv, optVars
<1>2. stage # "compile" /\ Ids' = Ids
    BY <1>1 DEF ExecInv, RunsCompiled, Ids, optVars
<1>3. \A j \in Ids : Begun(j)' => Begun(j)
    BY <1>1, <1>2 DEF Begun
<1>4. ran \subseteq live
    BY DEF ExecInv, BegunWasReached, Begun
<1> QED BY <1>1, <1>2, <1>3, <1>4, SameWave

\* Running a node of the wave that is being run.
LEMMA RunStep ==
    ASSUME ExecInv, NEW i \in Ids, IsNext(i), stage \in {"await", "nodes"},
           UNCHANGED <<optVars, wave, task>>, ran' = ran \cup {i},
           stage' = stage \/ stage' = "returned"
    PROVE  ExecInv'
<1>1. OptInv' /\ Ids' = Ids /\ live' = live /\ level' = level /\ Done' = Done
    BY StutterStep DEF ExecInv, optVars, Ids, Done
<1>2. i \in live /\ level[i] = wave /\ wave \in Nat /\ wave' = wave
    BY DEF IsNext, Pending, Fetches, Wave, ExecInv
<1>3. RunsCompiled' /\ PastWavesRan'
    BY <1>1, <1>2 DEF ExecInv, RunsCompiled, PastWavesRan
<1>4. BegunWasReached'
    BY <1>1, <1>2 DEF ExecInv, BegunWasReached, Begun, Reached
<1> QED BY <1>1, <1>2, <1>3, <1>4 DEF ExecInv, Stage

LEMMA BodyStep == ExecInv /\ Body => ExecInv'
<1> SUFFICES ASSUME ExecInv, Body PROVE ExecInv'
    OBVIOUS
<1>1. CASE Begin
    BY <1>1, BeginStep
<1>2. CASE LaunchWave
    BY <1>2, LaunchWaveStep
<1>3. CASE NextWave
    BY <1>3, NextWaveStep
<1>4. CASE JoinDone \/ Finish \/ \E i \in Ids : JoinErr(i) \/ FailNode(i)
    <2>1. /\ UNCHANGED <<optVars, wave, task, ran>> /\ stage # "compile"
          /\ stage' \in Stage \ {"compile", "launch"}
        BY <1>4 DEF JoinDone, Finish, JoinErr, FailNode, Stage
    <2> QED BY <2>1, SameProgress
<1>5. CASE \E i \in Ids : JoinOk(i) \/ RunLet(i) \/ RunLog(i) \/ RunAssert(i) \/ RunReturn(i)
    <2>1. PICK i \in Ids : JoinOk(i) \/ RunLet(i) \/ RunLog(i) \/ RunAssert(i) \/ RunReturn(i)
        BY <1>5
    <2>2. /\ IsNext(i) /\ stage \in {"await", "nodes"} /\ UNCHANGED <<optVars, wave, task>>
          /\ ran' = ran \cup {i} /\ (stage' = stage \/ stage' = "returned")
        BY <2>1 DEF JoinOk, RunLet, RunLog, RunAssert, RunReturn
    <2> QED BY <2>2, RunStep
<1> QED BY <1>1, <1>2, <1>3, <1>4, <1>5 DEF Body

LEMMA StutterExec == ExecInv /\ UNCHANGED vars => ExecInv'
<1> SUFFICES ASSUME ExecInv, UNCHANGED vars PROVE ExecInv'
    OBVIOUS
<1>1. OptInv' /\ Ids' = Ids /\ Done' = Done
    BY StutterStep DEF ExecInv, vars, optVars, Ids, Done
<1> QED BY <1>1 DEF vars, optVars, execVars, ExecInv, RunsCompiled, BegunWasReached, PastWavesRan,
           Begun, Reached

LEMMA NextExecInv == ExecInv /\ [Next]_vars => ExecInv'
PROOF BY CompileStep, BodyStep, TaskStep, StutterExec DEF Next

-----------------------------------------------------------------------------
LEMMA Gate == ExecInv => EffectGate
<1> SUFFICES ASSUME ExecInv, NEW a \in Ids, NEW b \in Ids, Effect(a), Effect(b), a < b,
                    Begun(b)
             PROVE  a \in ran
    BY DEF EffectGate, Effect
<1>1. stage # "compile" /\ Done
    BY DEF ExecInv, RunsCompiled, Begun
<1>2. level[a] < level[b] /\ level[b] <= wave /\ a \in live
    BY <1>1 DEF ExecInv, OptInv, EffectsRise, Levelled, Done, BegunWasReached, Reached,
                EffectsLive
<1>3. level[a] \in Nat /\ level[b] \in Nat /\ wave \in Nat
    BY DEF ExecInv, OptInv, OptTypeOK
<1> QED BY <1>1, <1>2, <1>3 DEF ExecInv, PastWavesRan

LEMMA AlwaysExecInv == Spec => []ExecInv
PROOF BY InitExecInv, NextExecInv, PTL DEF Spec

\* No log line, assertion, mutation or return begins before every effect that
\* is written above it has happened, and none begins once one has failed.
THEOREM EffectsNeverOvertake == Spec => []EffectGate
PROOF BY AlwaysExecInv, Gate, PTL

\* The executor's optimizer steps are the optimizer's.
LEMMA NextIsOptNext == [Next]_vars => [OptNext]_optVars
PROOF BY DEF Next, Compile, Body, Tasks, Begin, LaunchWave, SendRequest, Answer, JoinOk, JoinErr,
             JoinDone, FailNode, RunLet, RunLog, RunAssert, RunReturn, NextWave, Finish, vars

LEMMA AlwaysScheduled == Spec => []DataInv
<1>1. Init => DataInv
    BY InitDataInv DEF Init
<1> QED BY <1>1, NextIsOptNext, NextDataInv, PTL DEF Spec

\* No request is sent and no expression evaluated before the statements that
\* produce its inputs have stored their results.
THEOREM InputsComeFirst == Spec => []DataGate
<1>1. ExecInv /\ DataInv /\ EffectGate => DataGate
    <2> SUFFICES ASSUME ExecInv, DataInv, EffectGate, NEW i \in Ids, Begun(i)
                 PROVE  IF nodes[i].kind = "alias" THEN deps[i] \subseteq ran
                        ELSE Needs(src, i) \subseteq ran
        BY DEF DataGate
    <2>1. stage # "compile" /\ Done /\ i \in live /\ level[i] <= wave
        BY DEF ExecInv, RunsCompiled, BegunWasReached, Reached, Begun
    <2>2. deps[i] \subseteq ran
        <3> SUFFICES ASSUME NEW d \in deps[i] PROVE d \in ran
            OBVIOUS
        <3>1. d \in live /\ level[d] < level[i] /\ level[d] \in Nat /\ level[i] \in Nat /\ wave \in Nat
            BY <2>1 DEF ExecInv, DataInv, OptInv, OptTypeOK, LiveClosed, LevelsRise, Levelled, Done
        <3> QED BY <2>1, <3>1 DEF ExecInv, PastWavesRan
    <2>3. ASSUME nodes[i].kind # "alias", NEW r \in src[i].reads, ReachingDef(src, i, r) # 0
          PROVE  ReachingDef(src, i, r) \in ran
        BY <2>1, <2>2, <2>3, ReachingDefsAreDeps
    <2>4. ASSUME NEW j \in 1..(i - 1), Effect(i), Effect(j)
          PROVE  j \in ran
        <3>1. j \in Ids /\ j < i
            BY LenSource DEF DataInv, OptInv, Ids
        <3> QED BY <2>4, <3>1 DEF EffectGate, Effect
    <2> QED BY <2>2, <2>3, <2>4 DEF Needs, Effect
<1> QED BY <1>1, AlwaysExecInv, AlwaysScheduled, EffectsNeverOvertake, PTL
-----------------------------------------------------------------------------
(***************************************************************************)
(* The executor implements the straight-line reading of a body that binds  *)
(* every variable once, whatever it was given to compile and whatever the  *)
(* requests answer.                                                        *)
(*                                                                         *)
(* Two facts carry the proof.  The environment holds nothing but the value *)
(* the list gives each variable (StraightProofs), whichever request was    *)
(* answered first.  And there is always a cut of the list above which      *)
(* every effect has happened and below which none has, so that what was    *)
(* printed and sent is what the straight-line run has printed and sent at  *)
(* that cut.                                                               *)
(***************************************************************************)

Meant == Meaning(src, reply)
Run   == After(src, reply, TRUE)

-----------------------------------------------------------------------------
(* What is still needed of the optimizer.                                  *)

\* A duplicate reads the variable of the request it stands for.
AliasReads ==
    \A i \in Ids : nodes[i].kind = "alias" =>
        \E f \in Ids : deps[i] = {f} /\ nodes[i].reads = {src[f].bind}

\* The waves reach up to the deepest node.
DepthCovers == \A i \in live : Levelled(i) => level[i] < depth

PlanInv == NeedInv /\ AliasReads /\ DepthCovers

LEMMA InitPlanInv == OptInit => PlanInv
<1> SUFFICES ASSUME OptInit PROVE PlanInv
    OBVIOUS
<1>1. NeedInv /\ Len(src) \in Nat /\ Ids = 1..Len(src)
    BY InitNeedInv, LenSource DEF NeedInv, DataInv, OptInv, Ids
<1>2. \A i \in Ids : nodes[i].kind # "alias"
    BY <1>1, NodeFields, LowerType DEF OptInit, LowerStmts, NeedInv, DataInv, OptInv, Stmt, Kind
<1> QED BY <1>1, <1>2 DEF OptInit, PlanInv, AliasReads, DepthCovers

LEMMA RewriteOnePlan == PlanInv /\ RewriteOne => AliasReads'
<1> SUFFICES ASSUME PlanInv, RewriteOne PROVE AliasReads'
    OBVIOUS
<1>1. OptTypeOK /\ Ids' = Ids /\ src' = src
    BY DEF PlanInv, NeedInv, DataInv, OptInv, RewriteOne, Ids
<1>2. PICK r \in rewrites :
          /\ nodes' = [nodes EXCEPT ![r[1]] = Alias(nodes[r[1]], nodes[r[2]].bind)]
          /\ deps' = [deps EXCEPT ![r[1]] = {r[2]}]
    BY DEF RewriteOne
<1> DEFINE i == r[1]
           f == r[2]
<1>3. i \in Ids /\ f \in Ids
    BY <1>1, <1>2 DEF OptTypeOK
<1>4. nodes[f].bind = src[f].bind
    BY <1>3 DEF PlanInv, NeedInv, DataInv, OptInv, NodesFaithful
<1> HIDE DEF i, f
<1>5. /\ deps'[i] = {f} /\ nodes'[i].reads = {src[f].bind}
      /\ \A j \in Ids : j # i => nodes'[j] = nodes[j] /\ deps'[j] = deps[j]
    BY <1>1, <1>2, <1>3, <1>4 DEF OptTypeOK, Alias, i, f
<1>6. \A j \in Ids : nodes'[j].kind = "alias" =>
          \E g \in Ids : deps'[j] = {g} /\ nodes'[j].reads = {src[g].bind}
    BY <1>3, <1>5 DEF PlanInv, AliasReads
<1> QED BY <1>1, <1>6 DEF AliasReads

LEMMA LevelNodePlan == PlanInv /\ LevelNode => DepthCovers'
<1> SUFFICES ASSUME PlanInv, LevelNode PROVE DepthCovers'
    OBVIOUS
<1>1. OptTypeOK /\ cursor \in Ids /\ Ids = 1..Len(src) /\ Len(src) \in Nat
    BY LenSource DEF PlanInv, NeedInv, DataInv, OptInv, LevelNode, Ids
<1>2. phase = "level" /\ phase' = "level" /\ live' = live /\ cursor' = cursor + 1
    BY DEF LevelNode, NextNode
<1>3. \A i \in live : i \in Ids /\ level[i] \in Nat /\ depth \in Nat /\ lvl \in Nat
    BY <1>1 DEF OptTypeOK
<1>4. \A i \in live : i < cursor => level[i] < depth
    BY <1>2 DEF PlanInv, DepthCovers, Levelled
<1>5. CASE cursor \in live
    <2>1. level' = [level EXCEPT ![cursor] = lvl] /\ depth' = IF lvl + 1 > depth THEN lvl + 1 ELSE depth
        BY <1>5 DEF LevelNode
    <2>2. ASSUME NEW i \in live, i < cursor + 1 PROVE level'[i] < depth'
        <3>1. CASE i = cursor
            BY <1>1, <1>3, <2>1, <3>1 DEF OptTypeOK
        <3>2. CASE i # cursor
            <4>1. i < cursor /\ level'[i] = level[i]
                BY <1>1, <1>3, <2>1, <2>2, <3>2 DEF OptTypeOK
            <4> QED BY <1>3, <1>4, <2>1, <4>1
        <3> QED BY <3>1, <3>2
    <2> QED BY <1>2, <2>2 DEF DepthCovers, Levelled
<1>6. CASE cursor \notin live
    <2>1. level' = level /\ depth' = depth
        BY <1>6 DEF LevelNode
    <2>2. \A i \in live : i < cursor + 1 => i < cursor
        BY <1>1, <1>3, <1>6
    <2> QED BY <1>2, <1>4, <2>1, <2>2 DEF DepthCovers, Levelled
<1> QED BY <1>5, <1>6

LEMMA NextPlanInv == PlanInv /\ [OptNext]_optVars => PlanInv'
<1> SUFFICES ASSUME PlanInv, [OptNext]_optVars PROVE PlanInv'
    OBVIOUS
<1>1. NeedInv'
    BY NextNeedInv DEF PlanInv
<1>2. Ids' = Ids /\ Ids = 1..Len(src) /\ Len(src) \in Nat /\ OptTypeOK
    <2>1. src' = src
        BY DEF OptNext, WireNode, WireDone, ScanNode, ScanDone, RewriteOne, RewriteDone,
               MarkRoots, MarkDeps, MarkDone, RaiseLevel, LevelNode, LevelDone, optVars
    <2> QED BY <2>1, LenSource DEF Ids, PlanInv, NeedInv, DataInv, OptInv
<1>3. \A i \in Ids : phase \in {"wire", "scan"} => nodes[i].kind # "alias"
    BY <1>2, NodeFields, LowerType DEF PlanInv, NeedInv, DataInv, NodesLowered, Stmt, Kind
<1>4. AliasReads'
    <2>1. CASE WireNode
        BY <1>2, <1>3, <2>1 DEF WireNode, AliasReads
    <2>2. CASE RewriteOne
        BY <2>2, RewriteOnePlan
    <2>3. CASE UNCHANGED <<src, nodes, deps>>
        BY <2>3 DEF PlanInv, AliasReads, Ids
    <2> QED BY <2>1, <2>2, <2>3 DEF OptNext, WireDone, ScanNode, ScanDone, RewriteDone,
               MarkRoots, MarkDeps, MarkDone, RaiseLevel, LevelNode, LevelDone, optVars
<1>5. DepthCovers'
    <2>1. CASE phase' \notin {"level", "done"}
        BY <2>1 DEF DepthCovers, Levelled
    <2>2. CASE MarkDone
        <3>1. phase' = "level" /\ cursor' = 1 /\ live' = live
            BY <2>2 DEF MarkDone
        <3>2. \A i \in live : ~(i < 1)
            BY <1>2 DEF OptTypeOK
        <3> QED BY <3>1, <3>2 DEF DepthCovers, Levelled
    <2>3. CASE LevelNode
        BY <2>3, LevelNodePlan
    <2>4. CASE RaiseLevel \/ UNCHANGED optVars
        BY <2>4 DEF RaiseLevel, optVars, PlanInv, DepthCovers, Levelled
    <2>5. CASE LevelDone
        <3>1. phase = "level" /\ cursor \notin Ids /\ phase' = "done" /\ UNCHANGED <<live, level, depth>>
            BY <2>5 DEF LevelDone
        <3>2. \A i \in live : i < cursor
            BY <1>2, <3>1 DEF OptTypeOK
        <3> QED BY <3>1, <3>2 DEF PlanInv, DepthCovers, Levelled
    <2> QED BY <2>1, <2>2, <2>3, <2>4, <2>5 DEF OptNext, WireNode, WireDone, ScanNode, ScanDone,
               RewriteOne, RewriteDone, MarkRoots, MarkDeps
<1> QED BY <1>1, <1>4, <1>5 DEF PlanInv

\* A node is its statement, or the copy of an earlier read.
LEMMA NodeIs ==
    ASSUME PlanInv
    PROVE  /\ src \in Sources /\ Len(src) \in Nat /\ Ids = 1..Len(src) /\ live \subseteq Ids
           /\ \A i \in Ids :
                  /\ src[i] \in Stmt /\ nodes[i].bind = src[i].bind
                  /\ nodes[i].kind # "alias" =>
                         /\ nodes[i].kind = src[i].kind /\ nodes[i].method = src[i].method
                         /\ nodes[i].text = src[i].text /\ nodes[i].reads = src[i].reads
                         /\ nodes[i].result = src[i].result
                  /\ nodes[i].kind = "alias" => src[i].kind = "fetch" /\ ~Effect(i)
<1>1. OptTypeOK /\ NodesFaithful /\ NodesLowered
    BY DEF PlanInv, NeedInv, DataInv, OptInv
<1>2. ASSUME NEW i \in Ids, nodes[i].kind # "alias"
      PROVE  /\ nodes[i].kind = src[i].kind /\ nodes[i].method = src[i].method
             /\ nodes[i].text = src[i].text /\ nodes[i].reads = src[i].reads
             /\ nodes[i].result = src[i].result
    <2>1. nodes[i] = Lower(src[i])
        BY <1>1, <1>2 DEF NodesLowered
    <2> QED BY <2>1 DEF Lower
<1>3. ASSUME NEW i \in Ids, nodes[i].kind = "alias" PROVE src[i].kind = "fetch" /\ ~Effect(i)
    <2>1. Lower(src[i]).kind # "alias"
        BY <1>1, NodeFields, LowerType DEF Stmt, Kind
    <2>2. IsRead(i)
        BY <1>1, <1>3, <2>1 DEF NodesFaithful
    <2> QED BY <2>2, ReadsHaveNoEffect DEF IsRead
<1> QED BY <1>1, <1>2, <1>3, LenSource, NodeFields DEF OptTypeOK, NodesFaithful, Ids

\* A node that is its statement evaluates as the statement does.
LEMMA NodeEvaluates ==
    ASSUME PlanInv, NEW i \in Ids, nodes[i].kind # "alias"
    PROVE  /\ \A e : Term(nodes[i], e) = Term(src[i], e) /\ (Evaluable(nodes[i], e) <=> Evaluable(src[i], e))
           /\ \A e, a : FetchValue(nodes[i], e, a) = FetchValue(src[i], e, a)
           /\ \A a : FetchFails(nodes[i], a) <=> FetchFails(src[i], a)
           /\ \A a : Fails(nodes[i], a) <=> Fails(src[i], a)
<1>1. /\ nodes[i].text = src[i].text /\ nodes[i].reads = src[i].reads
      /\ nodes[i].result = src[i].result /\ nodes[i].kind = src[i].kind
    BY NodeIs
<1>2. \A e : Term(nodes[i], e) = Term(src[i], e)
    BY <1>1 DEF Term
<1>3. \A a : FetchFails(nodes[i], a) <=> FetchFails(src[i], a)
    BY <1>1 DEF FetchFails
<1> QED BY <1>1, <1>2, <1>3 DEF FetchValue, Evaluable, Fails

\* A copy reads one variable: that of a live request that is sent, earlier and
\* with the same meaning.
LEMMA AliasIs ==
    ASSUME PlanInv, SingleAssignment(src), NEW i \in Ids, nodes[i].kind = "alias", NEW a
    PROVE  \E f \in Ids : /\ deps[i] = {f} /\ nodes[i].reads = {src[f].bind} /\ src[f].bind # NoVar
                          /\ nodes[f].kind = "fetch" /\ SameRequest(src, i, f)
                          /\ ValueOf(src[f], Meaning(src, a), a) = ValueOf(src[i], Meaning(src, a), a)
                          /\ FetchFails(src[f], a) <=> FetchFails(src[i], a)
<1>1. PICK f \in Ids : deps[i] = {f} /\ nodes[i].reads = {src[f].bind}
    BY DEF PlanInv, AliasReads
<1>2. First(f) /\ WrittenAlike(src, f, i) /\ IsRead(f)
    BY <1>1 DEF PlanInv, NeedInv, DataInv, DuplicatesMatch, Replaces
<1>3. nodes[f].kind # "alias"
    BY <1>2 DEF PlanInv, NeedInv, DataInv, DuplicatesMatch
<1>4. nodes[f].kind = "fetch" /\ src[f].bind # NoVar
    BY <1>2, <1>3, NodeIs DEF IsRead
<1>5. SameRequest(src, i, f) /\ src[i].result = src[f].result
    <2>1. Ids = 1..Len(src)
        BY DEF Ids
    <2> QED BY <1>2, <2>1, AlikeSymmetric DEF SingleAssignment
<1>6. /\ src[i].kind = "fetch" /\ src[f].kind = "fetch" /\ src[i].text = src[f].text
      /\ src[i].reads = src[f].reads
    BY <1>5 DEF SameRequest
<1>7. Term(src[i], Meaning(src, a)) = Term(src[f], Meaning(src, a))
    BY <1>6 DEF Term
<1>8. ValueOf(src[f], Meaning(src, a), a) = ValueOf(src[i], Meaning(src, a), a)
    BY <1>5, <1>6, <1>7 DEF ValueOf, FetchValue
<1> QED BY <1>1, <1>4, <1>5, <1>6, <1>8 DEF FetchFails

-----------------------------------------------------------------------------
\* The environment and its snapshot hold meant values, and everything that ran
\* is in the environment.
EnvMeant ==
    /\ Agrees(env, Meant) /\ Agrees(snap, Meant)
    /\ Param \subseteq DOMAIN env
    /\ \A i \in ran : src[i].bind # NoVar => src[i].bind \in DOMAIN env

\* A task is a fetch, and its request can be built until it was joined.
TasksReady ==
    /\ \A i \in Ids : task[i] # "idle" => nodes[i].kind = "fetch"
    /\ \A i \in Ids \ ran : task[i] # "idle" => Evaluable(nodes[i], snap)
    /\ \A i \in ran : nodes[i].kind = "fetch" => task[i] = "ok"

\* Outside of a wave's first half no request is out, unless run_body failed.
AllJoined ==
    stage \in {"launch", "nodes", "returned", "finished"} =>
        \A i \in Ids : task[i] # "idle" => i \in ran

\* A task fails only if its request does, and nothing has run that cannot.
Outcomes ==
    /\ \A i \in Ids : /\ task[i] = "ok" => ~FetchFails(nodes[i], reply)
                      /\ task[i] = "err" => FetchFails(nodes[i], reply)
    /\ \A i \in ran : src[i].kind # "fetch" => ~Fails(src[i], reply)

\* An effect is visible from outside.
Happened(i) == IF src[i].kind = "fetch" THEN task[i] \in {"sent", "ok", "err"} ELSE i \in ran

\* The effects that happened are those of the first k statements.
Cut(k) == \A i \in Ids : Effect(i) => (i <= k <=> Happened(i))

\* What was printed and sent is what the straight-line run had printed and
\* sent after k statements; that run is over when a mutation failed.
Broke(i) == i \in Ids /\ Effect(i) /\ Happened(i) /\ Fails(src[i], reply)

ShownUpTo(k) ==
    /\ out = Run[k].out /\ muts = Run[k].muts
    /\ \/ Run[k].status = IF stage = "returned" THEN "returned" ELSE "running"
       \/ stage # "returned" /\ Run[k].status = "failed" /\ \E i \in Ids : Broke(i)

InStep == \E k \in 0..Len(src) : Cut(k) /\ ShownUpTo(k)

\* All but InStep: what the tasks and the environment hold.
HoldsMeaning ==
    SingleAssignment(src) /\ EnvMeant /\ TasksReady /\ AllJoined /\ Outcomes

RefInv == ExecInv /\ PlanInv /\ HoldsMeaning /\ InStep

LEMMA InitRefInv == Init /\ SingleAssignment(src) => RefInv
<1> SUFFICES ASSUME Init, SingleAssignment(src) PROVE RefInv
    OBVIOUS
<1>1. ExecInv /\ PlanInv /\ src \in Sources
    BY InitExecInv, InitPlanInv DEF Init, OptInit
<1>2. Len(src) \in Nat /\ Ids = 1..Len(src)
    BY <1>1, NodeIs
<1>3. Agrees(ParamEnv, Meant) /\ DOMAIN ParamEnv = Param
    BY <1>1, MeaningFacts DEF Meant, ParamEnv
<1>4. HoldsMeaning
    BY <1>3 DEF Init, HoldsMeaning, EnvMeant, TasksReady, AllJoined, Outcomes
<1>5. Run[0].out = <<>> /\ Run[0].muts = <<>> /\ Run[0].status = "running"
    BY <1>1, EachStep DEF Run
<1>6. Cut(0)
    BY <1>2 DEF Init, Cut, Happened
<1>7. ShownUpTo(0)
    BY <1>5 DEF Init, ShownUpTo
<1> QED BY <1>1, <1>2, <1>4, <1>6, <1>7 DEF RefInv, InStep

-----------------------------------------------------------------------------
(* Steps of run_body and of its tasks leave the compiled body alone.       *)
Frame == UNCHANGED <<optVars, reply>>

LEMMA FrameFacts ==
    ASSUME RefInv, Frame
    PROVE  /\ src' = src /\ nodes' = nodes /\ deps' = deps /\ live' = live /\ level' = level
           /\ depth' = depth /\ reply' = reply
           /\ Ids' = Ids /\ Meant' = Meant /\ Run' = Run /\ PlanInv' /\ Done' = Done
<1>1. PlanInv'
    BY NextPlanInv DEF RefInv, Frame
<1> QED BY <1>1 DEF Frame, optVars, Ids, Meant, Run, Done

\* What a live node reads is in the environment when its wave is run.
LEMMA InputsBound ==
    ASSUME RefInv, stage # "compile", NEW i \in live, level[i] = wave
    PROVE  Evaluable(nodes[i], env)
<1>1. /\ i \in Ids /\ Done /\ DataInv /\ OptTypeOK /\ PlanInv /\ src \in Sources
      /\ SingleAssignment(src) /\ Ids = 1..Len(src)
    BY NodeIs DEF RefInv, ExecInv, RunsCompiled, PlanInv, NeedInv, DataInv, OptInv, HoldsMeaning
<1>2. ASSUME NEW d \in deps[i], src[d].bind # NoVar PROVE src[d].bind \in DOMAIN env
    <2>1. d \in live /\ level[d] < wave
        BY <1>1 DEF DataInv, OptInv, LiveClosed, LevelsRise, Levelled, Done
    <2>2. d \in ran
        BY <2>1 DEF RefInv, ExecInv, PastWavesRan
    <2> QED BY <1>2, <2>2 DEF RefInv, HoldsMeaning, EnvMeant
<1>3. CASE nodes[i].kind = "alias"
    <2>1. PICK f \in Ids : deps[i] = {f} /\ nodes[i].reads = {src[f].bind} /\ src[f].bind # NoVar
        BY <1>1, <1>3, AliasIs
    <2> QED BY <1>2, <2>1 DEF Evaluable
<1>4. CASE nodes[i].kind # "alias"
    <2> SUFFICES ASSUME NEW r \in nodes[i].reads, r \notin Param PROVE r \in DOMAIN env
        BY DEF Evaluable, RefInv, HoldsMeaning, EnvMeant
    <2> DEFINE d == ReachingDef(src, i, r)
    <2>1. r \in src[i].reads /\ r # NoVar
        BY <1>1, <1>4, NodeIs, ListFacts
    <2>2. d \in 1..(i - 1) /\ src[d].bind = r
        BY <1>1, <2>1, ReadIsBound
    <2>3. d \in deps[i]
        BY <1>1, <1>4, <2>1, <2>2, ReachingDefsAreDeps
    <2> QED BY <1>2, <2>1, <2>2, <2>3
<1> QED BY <1>3, <1>4

-----------------------------------------------------------------------------
(* The order of what is seen from outside.                                 *)

LEMMA RanHappened ==
    ASSUME RefInv, NEW a \in ran, Effect(a) PROVE Happened(a)
<1>1. a \in Ids /\ nodes[a].kind # "alias" /\ nodes[a].kind = src[a].kind
    BY NodeIs DEF RefInv, ExecInv
<1> QED BY <1>1 DEF RefInv, HoldsMeaning, TasksReady, Happened

LEMMA NothingHappens ==
    ASSUME RefInv, Frame, UNCHANGED <<out, muts>>, stage' = "returned" <=> stage = "returned",
           \A i \in Ids : Effect(i) => (Happened(i)' <=> Happened(i))
    PROVE  InStep'
<1>1. src' = src /\ Ids' = Ids /\ Run' = Run
    BY FrameFacts
<1>2. PICK k \in 0..Len(src) : Cut(k) /\ ShownUpTo(k)
    BY DEF RefInv, InStep
<1>3. Cut(k)'
    BY <1>1, <1>2 DEF Cut, Effect
<1>4. ShownUpTo(k)'
    BY <1>1, <1>2, FrameFacts DEF ShownUpTo, Broke, Effect
<1> QED BY <1>1, <1>3, <1>4 DEF InStep

\* What has run did not fail.
LEMMA RanWell == ASSUME RefInv, NEW i \in ran, Effect(i) PROVE ~Fails(src[i], reply)
<1>1. i \in Ids /\ PlanInv /\ nodes[i].kind # "alias"
    BY NodeIs DEF RefInv, ExecInv
<1>2. CASE src[i].kind # "fetch"
    BY <1>2 DEF RefInv, HoldsMeaning, Outcomes
<1>3. CASE src[i].kind = "fetch"
    <2>1. nodes[i].kind = "fetch" /\ task[i] = "ok"
        BY <1>1, <1>3, NodeIs DEF RefInv, HoldsMeaning, TasksReady
    <2>2. ~Fails(nodes[i], reply)
        BY <1>1, <2>1 DEF RefInv, HoldsMeaning, Outcomes, Fails
    <2> QED BY <1>1, <2>2, NodeEvaluates
<1> QED BY <1>2, <1>3

\* The next effect is that of the straight-line run.
LEMMA EffectHappens ==
    ASSUME RefInv, Frame, EffectGate', stage # "returned", NEW i \in Ids, Effect(i),
           ~Happened(i), Happened(i)', Begun(i)', ran' \subseteq ran \cup {i},
           \A j \in Ids : j # i /\ Effect(j) => (Happened(j)' <=> Happened(j)),
           out' = ShownBy(out, src[i], Meant, reply), muts' = SentBy(muts, src[i], Meant, reply),
           StatusBy(src[i], reply) = IF EffectFails(src[i], reply) THEN "failed"
                                     ELSE IF stage' = "returned" THEN "returned" ELSE "running",
           EffectFails(src[i], reply) => stage' # "returned"
    PROVE  /\ InStep' /\ out' = Run[i].out
           /\ stage' = "returned" => Run[i].status = "returned"
<1>1. /\ src' = src /\ Ids' = Ids /\ Run' = Run
      /\ src \in Sources /\ SingleAssignment(src) /\ Len(src) \in Nat /\ Ids = 1..Len(src)
    BY FrameFacts, NodeIs DEF RefInv, HoldsMeaning
<1>2. PICK k \in 0..Len(src) : Cut(k) /\ ShownUpTo(k)
    BY DEF RefInv, InStep
<1>3. ASSUME NEW a \in Ids, Effect(a), a < i PROVE Happened(a) /\ ~Fails(src[a], reply)
    <2>1. a \in ran'
        BY <1>1, <1>3 DEF EffectGate, Effect
    <2>2. a \in ran
        BY <1>1, <1>3, <2>1
    <2> QED BY <1>3, <2>2, RanHappened, RanWell
<1>4. k <= i - 1
    BY <1>1, <1>2 DEF Cut
<1>5. /\ Run[i - 1].out = out /\ Run[i - 1].muts = muts /\ Run[i - 1].status = "running"
    <2>1. \A j \in 1..Len(src) : k < j /\ j <= i - 1 => ~IsEffect(src[j])
        BY <1>1, <1>2, <1>3 DEF Cut, Effect
    <2>2. i - 1 \in k..Len(src)
        BY <1>1, <1>4
    <2>3. /\ Run[i - 1].out = Run[k].out /\ Run[i - 1].muts = Run[k].muts
          /\ Run[i - 1].status = Run[k].status
        BY <1>1, <2>1, <2>2, Quiet DEF Run
    <2>4. \A a \in Ids : ~Broke(a)
        BY <1>1, <1>2, <1>3, <1>4 DEF Broke, Cut
    <2> QED BY <1>2, <2>3, <2>4 DEF ShownUpTo
<1>6. Continues(src, Run[i - 1], Run[i], Meant, reply, i) /\ i \in Observed(src)
    BY <1>1, EachStep, ObservedFacts DEF Run, Meant, Effect
<1>7. Run[i].out = out' /\ Run[i].muts = muts' /\ Run[i].status = StatusBy(src[i], reply)
    BY <1>5, <1>6 DEF Continues
<1>8. Cut(i)'
    <2>1. ASSUME NEW j \in Ids, Effect(j) PROVE j <= i <=> Happened(j)'
        <3>1. CASE j = i
            BY <1>1, <3>1
        <3>2. CASE j < i
            BY <1>1, <1>3, <2>1, <3>2
        <3>3. CASE j > i
            BY <1>1, <1>2, <1>4, <2>1, <3>3 DEF Cut
        <3> QED BY <1>1, <3>1, <3>2, <3>3
    <2> QED BY <1>1, <2>1 DEF Cut, Effect
<1>9. ShownUpTo(i)'
    <2>1. EffectFails(src[i], reply) => Broke(i)'
        BY <1>1, FrameFacts DEF Broke, EffectFails, Effect
    <2> QED BY <1>1, <1>7, <2>1 DEF ShownUpTo
<1> QED BY <1>1, <1>7, <1>8, <1>9 DEF InStep

-----------------------------------------------------------------------------
(* What each step keeps.                                                   *)

LEMMA CompileKeeps ==
    RefInv /\ Compile => HoldsMeaning' /\ InStep' /\ UNCHANGED <<src, reply, out, stage>>
<1> SUFFICES ASSUME RefInv, Compile
             PROVE  HoldsMeaning' /\ InStep' /\ UNCHANGED <<src, reply, out, stage>>
    OBVIOUS
<1>1. /\ stage = "compile" /\ ran = {} /\ \A i \in Ids : task[i] = "idle"
      /\ UNCHANGED <<reply, stage, env, snap, task, ran, out, muts>>
    BY DoneIsFinal DEF Compile, execVars, RefInv, ExecInv, RunsCompiled
<1>2. src' = src /\ Ids' = Ids
    BY DEF Compile, OptNext, WireNode, WireDone, ScanNode, ScanDone, RewriteOne, RewriteDone,
           MarkRoots, MarkDeps, MarkDone, RaiseLevel, LevelNode, LevelDone, Ids
<1>3. Meant' = Meant /\ Run' = Run
    BY <1>1, <1>2 DEF Meant, Run
<1>4. HoldsMeaning'
    BY <1>1, <1>2, <1>3 DEF RefInv, HoldsMeaning, EnvMeant, TasksReady, AllJoined, Outcomes
<1>5. PICK k \in 0..Len(src) : Cut(k) /\ ShownUpTo(k)
    BY DEF RefInv, InStep
<1>6. Cut(k)' /\ ShownUpTo(k)'
    BY <1>1, <1>2, <1>3, <1>5 DEF Cut, Happened, Effect, ShownUpTo, Broke
<1> QED BY <1>1, <1>2, <1>4, <1>6 DEF InStep

\* A step of run_body from one stage to the next.
LEMMA StageMoves ==
    ASSUME RefInv, Begin \/ JoinDone \/ NextWave \/ Finish \/ \E i \in Ids : JoinErr(i) \/ FailNode(i)
    PROVE  HoldsMeaning' /\ InStep' /\ UNCHANGED <<src, reply, out>> /\ stage # "returned"
<1>1. /\ Frame /\ UNCHANGED <<env, snap, task, ran, out, muts>>
      /\ stage # "returned" /\ stage' # "returned"
    BY DEF Begin, JoinDone, NextWave, Finish, JoinErr, FailNode, Frame
<1>2. /\ src' = src /\ nodes' = nodes /\ reply' = reply /\ Ids' = Ids /\ Meant' = Meant
    BY <1>1, FrameFacts
<1>3. AllJoined'
    <2>1. CASE Begin
        BY <1>1, <1>2, <2>1 DEF Begin, RefInv, ExecInv, RunsCompiled, AllJoined
    <2>2. CASE JoinDone
        <3> SUFFICES ASSUME NEW i \in Ids, task[i] # "idle" PROVE i \in ran
            BY <1>1, <1>2 DEF AllJoined
        <3>1. i \in live /\ level[i] <= wave /\ level[i] \in Nat /\ wave \in Nat
            BY DEF RefInv, ExecInv, BegunWasReached, Begun, Reached, OptInv, OptTypeOK
        <3>2. CASE level[i] < wave
            BY <2>2, <3>1, <3>2 DEF RefInv, ExecInv, PastWavesRan, JoinDone
        <3>3. CASE level[i] = wave
            <4>1. i \in Fetches
                BY <3>1, <3>3 DEF Fetches, Wave, IsFetch, RefInv, HoldsMeaning, TasksReady
            <4> QED BY <2>2, <4>1 DEF JoinDone, Pending
        <3> QED BY <3>1, <3>2, <3>3
    <2>3. CASE NextWave \/ Finish
        BY <1>1, <1>2, <2>3 DEF NextWave, Finish, RefInv, HoldsMeaning, AllJoined
    <2>4. CASE \E i \in Ids : JoinErr(i) \/ FailNode(i)
        BY <2>4 DEF JoinErr, FailNode, AllJoined
    <2> QED BY <2>1, <2>2, <2>3, <2>4
<1>4. HoldsMeaning'
    BY <1>1, <1>2, <1>3 DEF RefInv, HoldsMeaning, EnvMeant, TasksReady, Outcomes
<1>5. InStep'
    <2>1. \A i \in Ids : Happened(i)' <=> Happened(i)
        BY <1>1, <1>2 DEF Happened
    <2> QED BY <1>1, <2>1, NothingHappens
<1> QED BY <1>1, <1>2, <1>4, <1>5

LEMMA LaunchKeeps ==
    RefInv /\ LaunchWave => HoldsMeaning' /\ InStep' /\ UNCHANGED <<src, reply, out>>
<1> SUFFICES ASSUME RefInv, LaunchWave
             PROVE  HoldsMeaning' /\ InStep' /\ UNCHANGED <<src, reply, out>>
    OBVIOUS
<1>1. /\ Frame /\ UNCHANGED <<env, ran, out, muts>> /\ stage = "launch" /\ stage' = "await"
      /\ snap' = env /\ task' = [i \in Ids |-> IF i \in Launched THEN "spawned" ELSE task[i]]
    BY DEF LaunchWave, Frame, Snapshot
<1>2. /\ src' = src /\ nodes' = nodes /\ reply' = reply /\ Ids' = Ids /\ Meant' = Meant
    BY <1>1, FrameFacts
<1>3. \A i \in Launched : /\ i \in live /\ level[i] = wave /\ nodes[i].kind = "fetch"
                          /\ i \in Ids /\ i \notin ran /\ task[i] = "idle"
    <2> SUFFICES ASSUME NEW i \in Launched
                 PROVE  /\ i \in live /\ level[i] = wave /\ nodes[i].kind = "fetch"
                        /\ i \in Ids /\ i \notin ran /\ task[i] = "idle"
        OBVIOUS
    <2>1. i \in live /\ level[i] = wave /\ nodes[i].kind = "fetch" /\ i \in Ids
        BY NodeIs DEF Launched, Fetches, Wave, IsFetch, RefInv
    <2>2. ~Begun(i)
        BY <1>1, <2>1 DEF RefInv, ExecInv, BegunWasReached, Reached, OptInv, OptTypeOK
    <2> QED BY <2>1, <2>2 DEF Begun
<1>4. EnvMeant'
    BY <1>1, <1>2 DEF RefInv, HoldsMeaning, EnvMeant
<1>5. TasksReady'
    <2>1. \A i \in Ids \ ran : task'[i] # "idle" => Evaluable(nodes[i], env)
        <3> SUFFICES ASSUME NEW i \in Ids \ ran, task'[i] # "idle" PROVE Evaluable(nodes[i], env)
            OBVIOUS
        <3>1. task[i] = "idle"
            BY <1>1 DEF RefInv, HoldsMeaning, AllJoined
        <3>2. i \in Launched
            BY <1>1, <3>1
        <3> QED BY <1>1, <1>3, <3>2, InputsBound
    <2>2. \A i \in ran : i \in Ids /\ task'[i] = task[i]
        BY <1>1, <1>3 DEF RefInv, ExecInv
    <2>3. \A i \in Ids : task'[i] # "idle" => nodes[i].kind = "fetch"
        BY <1>1, <1>3 DEF RefInv, HoldsMeaning, TasksReady
    <2> QED BY <1>1, <1>2, <2>1, <2>2, <2>3 DEF RefInv, HoldsMeaning, TasksReady
<1>6. AllJoined' /\ Outcomes'
    BY <1>1, <1>2, <1>3 DEF RefInv, HoldsMeaning, AllJoined, Outcomes
<1>7. HoldsMeaning'
    BY <1>2, <1>4, <1>5, <1>6 DEF RefInv, HoldsMeaning
<1>8. InStep'
    <2>1. \A i \in Ids : Happened(i)' <=> Happened(i)
        BY <1>1, <1>2, <1>3 DEF Happened
    <2> QED BY <1>1, <2>1, NothingHappens
<1> QED BY <1>1, <1>2, <1>7, <1>8

\* A task whose request is not out yet can build it, and has not been joined.
LEMMA TaskIs ==
    ASSUME RefInv, NEW i \in Ids, task[i] \in {"spawned", "sent"}
    PROVE  /\ i \notin ran /\ nodes[i].kind = "fetch" /\ src[i].kind = "fetch"
           /\ Evaluable(nodes[i], snap) /\ stage \in {"await", "failed"}
           /\ Term(nodes[i], snap) = Term(src[i], Meant)
           /\ nodes[i].method = src[i].method
<1>1. /\ nodes[i].kind = "fetch" /\ i \notin ran /\ Begun(i)
    BY DEF RefInv, HoldsMeaning, TasksReady, Begun
<1>2. Evaluable(nodes[i], snap) /\ stage \in {"await", "failed"}
    BY <1>1 DEF RefInv, HoldsMeaning, TasksReady, AllJoined, ExecInv, RunsCompiled, Stage
<1>3. src[i].kind = "fetch" /\ nodes[i].method = src[i].method
    BY <1>1, NodeIs DEF RefInv
<1>4. Term(nodes[i], snap) = Term(src[i], snap) /\ Evaluable(src[i], snap)
    BY <1>1, <1>2, NodeEvaluates DEF RefInv
<1>5. Term(src[i], snap) = Term(src[i], Meant)
    BY <1>4, TermAgrees DEF RefInv, HoldsMeaning, EnvMeant
<1> QED BY <1>1, <1>2, <1>3, <1>4, <1>5

LEMMA SendKeeps ==
    ASSUME RefInv, EffectGate', NEW i \in Ids, SendRequest(i)
    PROVE  HoldsMeaning' /\ InStep' /\ UNCHANGED <<src, reply, out, stage>>
<1>1. /\ Frame /\ UNCHANGED <<stage, env, snap, ran, out>> /\ task[i] = "spawned"
    BY DEF SendRequest, Frame
<1>2. /\ src' = src /\ nodes' = nodes /\ reply' = reply /\ Ids' = Ids /\ Meant' = Meant
    BY <1>1, FrameFacts
<1>3. /\ i \notin ran /\ nodes[i].kind = "fetch" /\ src[i].kind = "fetch"
      /\ Evaluable(nodes[i], snap) /\ stage \in {"await", "failed"}
      /\ Term(nodes[i], snap) = Term(src[i], Meant)
      /\ nodes[i].method = src[i].method
    BY <1>1, TaskIs
<1>4. /\ task' = [task EXCEPT ![i] = IF reply[nodes[i].text] = "bad" THEN "err" ELSE "sent"]
      /\ muts' = IF nodes[i].method = "GET" \/ reply[nodes[i].text] = "bad" THEN muts
                 ELSE Append(muts, Term(nodes[i], snap))
    BY <1>3 DEF SendRequest
<1>5. /\ task'[i] \in {"sent", "err"} /\ (task'[i] = "err" => FetchFails(nodes[i], reply))
      /\ \A j \in Ids : j # i => task'[j] = task[j]
    BY <1>4 DEF RefInv, ExecInv, FetchFails
<1>6. HoldsMeaning'
    <2>1. EnvMeant' /\ AllJoined'
        BY <1>1, <1>2, <1>3 DEF RefInv, HoldsMeaning, EnvMeant, AllJoined
    <2>2. TasksReady'
        BY <1>1, <1>2, <1>3, <1>5 DEF RefInv, HoldsMeaning, TasksReady, ExecInv
    <2>3. Outcomes'
        BY <1>1, <1>2, <1>5 DEF RefInv, HoldsMeaning, Outcomes
    <2> QED BY <1>2, <2>1, <2>2, <2>3 DEF RefInv, HoldsMeaning
<1>7. \A j \in Ids : j # i => (Happened(j)' <=> Happened(j))
    BY <1>1, <1>2, <1>5 DEF Happened
<1>8. ~Happened(i) /\ Happened(i)' /\ Begun(i)'
    BY <1>1, <1>2, <1>3, <1>5 DEF Happened, Begun
<1>9. InStep'
    <2>1. CASE src[i].method = "GET"
        <3>1. ~Effect(i) /\ muts' = muts
            BY <1>3, <1>4, <2>1 DEF Effect, IsEffect
        <3> QED BY <1>1, <1>7, <3>1, NothingHappens
    <2>2. CASE src[i].method # "GET"
        <3>1. /\ Effect(i) /\ out' = ShownBy(out, src[i], Meant, reply)
              /\ muts' = SentBy(muts, src[i], Meant, reply)
            <4>1. nodes[i].text = src[i].text
                BY <1>3, NodeIs DEF RefInv
            <4> QED BY <1>1, <1>3, <1>4, <2>2, <4>1 DEF Effect, IsEffect, ShownBy, SentBy
        <3>2. StatusBy(src[i], reply) = IF EffectFails(src[i], reply) THEN "failed"
                                        ELSE IF stage' = "returned" THEN "returned" ELSE "running"
            BY <1>1, <1>3 DEF StatusBy
        <3> QED BY <1>1, <1>3, <1>7, <1>8, <3>1, <3>2, EffectHappens
    <2> QED BY <2>1, <2>2
<1> QED BY <1>1, <1>2, <1>6, <1>9

LEMMA AnswerKeeps ==
    ASSUME RefInv, NEW i \in Ids, Answer(i)
    PROVE  HoldsMeaning' /\ InStep' /\ UNCHANGED <<src, reply, out, stage>>
<1>1. /\ Frame /\ UNCHANGED <<stage, env, snap, ran, out, muts>> /\ task[i] = "sent"
      /\ task' = [task EXCEPT ![i] = IF FetchFails(nodes[i], reply) THEN "err" ELSE "ok"]
    BY DEF Answer, Frame
<1>2. /\ src' = src /\ nodes' = nodes /\ reply' = reply /\ Ids' = Ids /\ Meant' = Meant
    BY <1>1, FrameFacts
<1>3. i \notin ran /\ nodes[i].kind = "fetch" /\ Evaluable(nodes[i], snap)
      /\ stage \in {"await", "failed"} /\ src[i].kind = "fetch"
    BY <1>1, TaskIs
<1>4. /\ task'[i] = (IF FetchFails(nodes[i], reply) THEN "err" ELSE "ok")
      /\ \A j \in Ids : j # i => task'[j] = task[j]
    BY <1>1 DEF RefInv, ExecInv
<1>5. HoldsMeaning'
    <2>1. EnvMeant' /\ AllJoined'
        BY <1>1, <1>2, <1>3 DEF RefInv, HoldsMeaning, EnvMeant, AllJoined
    <2>2. TasksReady'
        BY <1>1, <1>2, <1>3, <1>4 DEF RefInv, HoldsMeaning, TasksReady, ExecInv
    <2>3. Outcomes'
        BY <1>1, <1>2, <1>4 DEF RefInv, HoldsMeaning, Outcomes
    <2> QED BY <1>2, <2>1, <2>2, <2>3 DEF RefInv, HoldsMeaning
<1>6. InStep'
    <2>1. \A j \in Ids : Happened(j)' <=> Happened(j)
        BY <1>1, <1>2, <1>3, <1>4 DEF Happened
    <2> QED BY <1>1, <2>1, NothingHappens
<1> QED BY <1>1, <1>2, <1>5, <1>6

\* A statement has run: what it binds has the meant value.
LEMMA RanKeeps ==
    ASSUME RefInv, Frame, NEW i \in Ids, IsNext(i), stage \in {"await", "nodes"},
           UNCHANGED <<snap, task>>, ran' = ran \cup {i},
           stage' = stage \/ (stage = "nodes" /\ stage' = "returned"),
           nodes[i].kind = "fetch" => task[i] = "ok",
           src[i].kind # "fetch" => ~Fails(src[i], reply),
           NEW val, env' = Insert(env, src[i].bind, val),
           src[i].bind # NoVar => val = ValueOf(src[i], Meant, reply)
    PROVE  HoldsMeaning'
<1>1. /\ src' = src /\ nodes' = nodes /\ reply' = reply /\ Ids' = Ids /\ Meant' = Meant
      /\ src \in Sources /\ SingleAssignment(src) /\ Len(src) \in Nat /\ Ids = 1..Len(src)
    BY FrameFacts, NodeIs DEF RefInv, HoldsMeaning
<1>2. src[i].bind # NoVar => src[i].bind \in DOMAIN Meant /\ Meant[src[i].bind] = val
    <2>1. src[i].bind # NoVar => src[i].bind \in BoundUpTo(src, Len(src))
        BY <1>1 DEF BoundUpTo
    <2> QED BY <1>1, <2>1, MeaningFacts DEF Meant
<1>3. /\ Agrees(env', Meant) /\ DOMAIN env \subseteq DOMAIN env'
      /\ src[i].bind # NoVar => src[i].bind \in DOMAIN env'
    BY <1>2, InsertAgrees DEF RefInv, HoldsMeaning, EnvMeant
<1>4. EnvMeant'
    BY <1>1, <1>3 DEF RefInv, HoldsMeaning, EnvMeant
<1>5. TasksReady' /\ AllJoined' /\ Outcomes'
    BY <1>1 DEF RefInv, HoldsMeaning, TasksReady, AllJoined, Outcomes
<1> QED BY <1>1, <1>4, <1>5 DEF RefInv, HoldsMeaning

\* A binding: a joined fetch, a `let`, or the copy of an earlier read.
LEMMA BindKeeps ==
    ASSUME RefInv, NEW i \in Ids, JoinOk(i) \/ RunLet(i)
    PROVE  HoldsMeaning' /\ InStep' /\ UNCHANGED <<src, reply, out, stage>>
<1>1. /\ Frame /\ UNCHANGED <<stage, snap, task, out, muts>> /\ IsNext(i)
      /\ ran' = ran \cup {i} /\ stage \in {"await", "nodes"}
    BY DEF JoinOk, RunLet, Frame
<1>2. /\ src' = src /\ reply' = reply /\ Ids' = Ids /\ PlanInv /\ SingleAssignment(src)
      /\ nodes[i].bind = src[i].bind /\ src \in Sources /\ Ids = 1..Len(src)
    BY <1>1, FrameFacts, NodeIs DEF RefInv, HoldsMeaning
<1>3. i \notin ran /\ i \in live /\ level[i] = wave
    BY <1>1 DEF IsNext, Pending, Fetches, Wave
<1>4. PICK val : /\ env' = Insert(env, src[i].bind, val)
                 /\ src[i].bind # NoVar => val = ValueOf(src[i], Meant, reply)
                 /\ nodes[i].kind = "fetch" => task[i] = "ok"
                 /\ src[i].kind # "fetch" => ~Fails(src[i], reply)
    <2>1. CASE JoinOk(i)
        <3>1. task[i] = "ok" /\ nodes[i].kind = "fetch" /\ Evaluable(nodes[i], snap)
            BY <1>3, <2>1 DEF JoinOk, RefInv, HoldsMeaning, TasksReady
        <3>2. /\ FetchValue(nodes[i], snap, reply) = FetchValue(src[i], snap, reply)
              /\ Evaluable(src[i], snap) /\ src[i].kind = "fetch"
            BY <1>2, <3>1, NodeEvaluates, NodeIs
        <3>3. FetchValue(src[i], snap, reply) = ValueOf(src[i], Meant, reply)
            BY <3>2, TermAgrees DEF ValueOf, RefInv, HoldsMeaning, EnvMeant
        <3>4. env' = Insert(env, src[i].bind, FetchValue(nodes[i], snap, reply))
            BY <1>2, <2>1 DEF JoinOk
        <3> QED BY <3>1, <3>2, <3>3, <3>4
    <2>2. CASE RunLet(i)
        <3>1. /\ env' = Insert(env, src[i].bind, LetValue(nodes[i], env))
              /\ nodes[i].kind \in {"let", "alias"} /\ Evaluable(nodes[i], env)
            BY <1>2, <2>2 DEF RunLet, NodeFails
        <3>2. CASE nodes[i].kind = "let"
            <4>1. /\ Term(nodes[i], env) = Term(src[i], env) /\ Evaluable(src[i], env)
                  /\ src[i].kind = "let" /\ ~Fails(src[i], reply)
                BY <1>2, <2>2, <3>1, <3>2, NodeEvaluates, NodeIs DEF RunLet, NodeFails
            <4>2. Term(src[i], env) = Term(src[i], Meant)
                BY <4>1, TermAgrees DEF RefInv, HoldsMeaning, EnvMeant
            <4> QED BY <3>1, <3>2, <4>1, <4>2 DEF LetValue, ValueOf
        <3>3. CASE nodes[i].kind = "alias"
            <4>1. PICK f \in Ids :
                      /\ nodes[i].reads = {src[f].bind} /\ src[f].bind # NoVar
                      /\ ValueOf(src[f], Meant, reply) = ValueOf(src[i], Meant, reply)
                BY <1>2, <3>3, AliasIs DEF Meant
            <4>2. LetValue(nodes[i], env) = env[src[f].bind]
                BY <3>3, <4>1 DEF LetValue
            <4>3. env[src[f].bind] = Meant[src[f].bind]
                BY <3>1, <4>1 DEF Evaluable, RefInv, HoldsMeaning, EnvMeant, Agrees
            <4>4. Meant[src[f].bind] = ValueOf(src[f], Meant, reply)
                BY <1>2, <4>1, MeaningFacts DEF Meant
            <4>5. src[i].kind = "fetch"
                BY <1>2, <3>3, NodeIs
            <4> QED BY <3>1, <3>3, <4>1, <4>2, <4>3, <4>4, <4>5
        <3> QED BY <3>1, <3>2, <3>3
    <2> QED BY <2>1, <2>2
<1>5. nodes[i].kind \in {"fetch", "let", "alias"} /\ (nodes[i].kind = "fetch" => task[i] = "ok")
    BY <1>4 DEF JoinOk, RunLet, RefInv, HoldsMeaning, TasksReady
<1>6. src[i].kind \in {"fetch", "let"}
    BY <1>2, <1>5, NodeIs
<1>7. HoldsMeaning'
    BY <1>1, <1>4, RanKeeps
<1>8. InStep'
    <2>1. \A j \in Ids : Effect(j) => (Happened(j)' <=> Happened(j))
        BY <1>1, <1>2, <1>6 DEF Happened, Effect, IsEffect
    <2> QED BY <1>1, <2>1, NothingHappens
<1> QED BY <1>1, <1>2, <1>7, <1>8

\* A log line, an assertion that holds, or the return.
LEMMA EffectKeeps ==
    ASSUME RefInv, EffectGate', NEW i \in Ids, RunLog(i) \/ RunAssert(i) \/ RunReturn(i)
    PROVE  /\ HoldsMeaning' /\ InStep' /\ UNCHANGED <<src, reply>> /\ stage = "nodes"
           /\ out' = Run[i].out /\ out' = ShownBy(out, src[i], Meant, reply)
           /\ ~Fails(src[i], reply)
           /\ src[i].kind = "assert" <=> RunAssert(i)
           /\ IF RunReturn(i) THEN stage' = "returned" /\ Run[i].status = "returned"
              ELSE stage' = stage
<1>1. /\ Frame /\ UNCHANGED <<env, snap, task, muts>> /\ IsNext(i)
      /\ ran' = ran \cup {i} /\ stage = "nodes" /\ ~NodeFails(nodes[i])
      /\ nodes[i].kind \in {"log", "assert", "return"}
    BY DEF RunLog, RunAssert, RunReturn, Frame
<1>2. /\ src' = src /\ reply' = reply /\ Ids' = Ids /\ PlanInv /\ SingleAssignment(src)
      /\ src \in Sources /\ Ids = 1..Len(src)
    BY <1>1, FrameFacts, NodeIs DEF RefInv, HoldsMeaning
<1>3. /\ i \notin ran /\ src[i].kind = nodes[i].kind /\ src[i].text = nodes[i].text
      /\ src[i].bind = NoVar /\ src[i].text \in Text
    <2>1. i \notin ran
        BY <1>1 DEF IsNext, Pending
    <2>2. src[i].kind = nodes[i].kind /\ src[i].text = nodes[i].text
        BY <1>1, <1>2, NodeIs
    <2> QED BY <1>1, <1>2, <2>1, <2>2, ListFacts
<1>4. Term(nodes[i], env) = Term(src[i], Meant)
    <2>1. Term(nodes[i], env) = Term(src[i], env) /\ Evaluable(src[i], env)
        BY <1>1, <1>2, NodeEvaluates DEF NodeFails
    <2> QED BY <2>1, TermAgrees DEF RefInv, HoldsMeaning, EnvMeant
<1>6. ~Fails(src[i], reply)
    BY <1>1, <1>2, NodeEvaluates DEF NodeFails
<1>5. /\ out' = ShownBy(out, src[i], Meant, reply) /\ muts' = SentBy(muts, src[i], Meant, reply)
      /\ src[i].kind = "return" <=> RunReturn(i)
      /\ src[i].kind = "assert" <=> RunAssert(i)
      /\ stage' = IF RunReturn(i) THEN "returned" ELSE stage
    BY <1>1, <1>3, <1>4, <1>6 DEF RunLog, RunAssert, RunReturn, ShownBy, SentBy
<1>7. HoldsMeaning'
    <2>1. env' = Insert(env, src[i].bind, 0)
        BY <1>1, <1>3 DEF Insert
    <2>2. stage' = stage \/ (stage = "nodes" /\ stage' = "returned")
        BY <1>1, <1>5
    <2> QED BY <1>1, <1>3, <1>6, <2>1, <2>2, RanKeeps
<1>8. /\ Effect(i) /\ ~Happened(i) /\ Happened(i)' /\ Begun(i)'
      /\ \A j \in Ids : j # i => (Happened(j)' <=> Happened(j))
    BY <1>1, <1>2, <1>3 DEF Effect, IsEffect, Happened, Begun
<1>9. /\ StatusBy(src[i], reply) = (IF stage' = "returned" THEN "returned" ELSE "running")
      /\ ~EffectFails(src[i], reply)
    BY <1>1, <1>5, <1>6 DEF StatusBy, EffectFails
<1>10. /\ InStep' /\ out' = Run[i].out
       /\ stage' = "returned" => Run[i].status = "returned"
    BY <1>1, <1>5, <1>8, <1>9, EffectHappens
<1> QED BY <1>1, <1>2, <1>5, <1>6, <1>7, <1>10

LEMMA NextRefInv == RefInv /\ [Next]_vars => RefInv'
<1> SUFFICES ASSUME RefInv, [Next]_vars PROVE RefInv'
    OBVIOUS
<1>1. ExecInv'
    BY NextExecInv DEF RefInv
<1>2. PlanInv'
    BY NextIsOptNext, NextPlanInv DEF RefInv
<1>3. ExecInv' => EffectGate'
    BY Gate, PTL
<1>4. HoldsMeaning' /\ InStep'
    <2>1. CASE Compile
        BY <2>1, CompileKeeps
    <2>2. CASE LaunchWave
        BY <2>2, LaunchKeeps
    <2>3. CASE Begin \/ JoinDone \/ NextWave \/ Finish \/ \E i \in Ids : JoinErr(i) \/ FailNode(i)
        BY <2>3, StageMoves
    <2>4. CASE \E i \in Ids : JoinOk(i) \/ RunLet(i)
        BY <2>4, BindKeeps
    <2>5. CASE \E i \in Ids : RunLog(i) \/ RunAssert(i) \/ RunReturn(i)
        BY <1>1, <1>3, <2>5, EffectKeeps
    <2>6. CASE \E i \in Ids : SendRequest(i)
        BY <1>1, <1>3, <2>6, SendKeeps
    <2>7. CASE \E i \in Ids : Answer(i)
        BY <2>7, AnswerKeeps
    <2>8. CASE UNCHANGED vars
        <3>1. Frame /\ UNCHANGED <<env, snap, task, ran, out, muts, stage>>
            BY <2>8 DEF vars, execVars, Frame
        <3>2. HoldsMeaning'
            BY <3>1, FrameFacts DEF RefInv, HoldsMeaning, EnvMeant, TasksReady, AllJoined, Outcomes
        <3>3. \A i \in Ids : Happened(i)' <=> Happened(i)
            BY <3>1, FrameFacts DEF Happened
        <3> QED BY <3>1, <3>2, <3>3, NothingHappens
    <2> QED BY <2>1, <2>2, <2>3, <2>4, <2>5, <2>6, <2>7, <2>8 DEF Next, Body, Tasks
<1> QED BY <1>1, <1>2, <1>4 DEF RefInv

LEMMA AlwaysRefInv == Spec /\ SingleAssignment(src) => []RefInv
PROOF BY InitRefInv, NextRefInv, PTL DEF Spec

\* The mutations on the wire are at every moment an initial part of those the
\* program sends, in its order and with the inputs it gives them, whichever
\* request of a wave is answered first and whatever fails.  (Of a body that binds
\* a variable twice this is false: see the rebinding run.)
THEOREM MutationsAreSentAsWritten == Spec /\ SingleAssignment(src) => []MutationsMatch
<1>1. RefInv => MutationsMatch
    <2> SUFFICES ASSUME RefInv PROVE MutationsMatch
        OBVIOUS
    <2>1. PICK k \in 0..Len(src) : muts = Run[k].muts
        BY DEF RefInv, InStep, ShownUpTo
    <2>2. src \in Sources /\ SingleAssignment(src) /\ Len(src) \in k..Len(src)
        BY NodeIs DEF RefInv, HoldsMeaning
    <2>3. Starts(muts, Run[Len(src)].muts)
        BY <2>1, <2>2, OnlyAppends DEF Run
    <2> QED BY <2>3 DEF Starts, MutationsMatch, StraightRun, Run
<1> QED BY <1>1, AlwaysRefInv, PTL

-----------------------------------------------------------------------------
(* When the body fails and when it ends.                                   *)

\* A request that is sent and fails is observed, or stands for one that is.
LEMMA FetchFailureSeen ==
    ASSUME PlanInv, SingleAssignment(src), NEW i \in live, nodes[i].kind = "fetch",
           FetchFails(nodes[i], reply)
    PROVE  MayFail(src, reply)
<1>1. i \in Ids /\ src[i].kind = "fetch" /\ FetchFails(src[i], reply) /\ Ids = 1..Len(src)
    BY NodeIs, NodeEvaluates
<1>2. CASE i \in Observed(src)
    BY <1>1, <1>2 DEF Fails, MayFail
<1>3. ASSUME NEW j \in Observed(src), WrittenAlike(src, i, j) PROVE MayFail(src, reply)
    <2>1. j \in 1..Len(src)
        BY ObservedFacts
    <2>2. src[j].kind = "fetch" /\ src[i].text = src[j].text /\ src[i].result = src[j].result
        BY <1>1, <1>3, <2>1 DEF SameRequest, SingleAssignment
    <2> QED BY <1>1, <2>2 DEF FetchFails, Fails, MayFail
<1> QED BY <1>2, <1>3 DEF PlanInv, NeedInv, LiveWanted, Wanted

\* run_body fails only when some observed statement cannot succeed.
LEMMA FailuresAreReal ==
    ASSUME RefInv, NEW i \in Ids, JoinErr(i) \/ FailNode(i)
    PROVE  MayFail(src, reply)
<1>1. /\ PlanInv /\ SingleAssignment(src) /\ i \in live /\ level[i] = wave /\ Ids = 1..Len(src)
      /\ stage \in {"await", "nodes"}
    BY NodeIs DEF RefInv, HoldsMeaning, JoinErr, FailNode, IsNext, Pending, Fetches, Wave
<1>2. CASE JoinErr(i)
    <2>1. FetchFails(nodes[i], reply) /\ nodes[i].kind = "fetch"
        BY <1>2 DEF JoinErr, RefInv, HoldsMeaning, Outcomes, TasksReady
    <2> QED BY <1>1, <2>1, FetchFailureSeen
<1>3. CASE FailNode(i)
    <2>1. Fails(nodes[i], reply)
        BY <1>1, <1>3, InputsBound DEF FailNode, NodeFails
    <2>2. nodes[i].kind # "alias"
        BY <2>1 DEF Fails
    <2>3. CASE nodes[i].kind = "fetch"
        BY <1>1, <2>1, <2>3, FetchFailureSeen DEF Fails
    <2>4. CASE nodes[i].kind # "fetch"
        <3>1. src[i].kind # "fetch" /\ Fails(src[i], reply)
            BY <1>1, <2>1, <2>2, <2>4, NodeIs, NodeEvaluates
        <3>2. i \in Observed(src)
            BY <1>1, <3>1 DEF PlanInv, NeedInv, LiveWanted, Wanted, WrittenAlike
        <3> QED BY <3>1, <3>2 DEF MayFail
    <2> QED BY <2>3, <2>4
<1> QED BY <1>2, <1>3

\* After the last wave everything observed has run.
LEMMA AllObservedRan ==
    ASSUME RefInv, Finish
    PROVE  /\ \A i \in live : i \in ran
           /\ Observed(src) \subseteq live
<1>1. stage # "compile" /\ wave = depth /\ Done
    BY DEF Finish, RefInv, ExecInv, RunsCompiled
<1>2. \A i \in live : level[i] < depth
    BY <1>1 DEF RefInv, PlanInv, DepthCovers, Levelled, Done
<1>3. \A i \in live : i \in ran
    BY <1>1, <1>2 DEF RefInv, ExecInv, PastWavesRan
<1> QED BY <1>1, <1>3, ObservedLive DEF RefInv, PlanInv, NeedInv, NothingObservableDropped

\* A body that comes to its end has had no failure, and shown everything.
LEMMA EndsWell ==
    ASSUME RefInv, Finish
    PROVE  ~MayFail(src, reply) /\ out = Run[Len(src)].out
<1>1. /\ src \in Sources /\ SingleAssignment(src) /\ Len(src) \in Nat /\ Ids = 1..Len(src)
      /\ PlanInv /\ Done
    BY NodeIs DEF RefInv, HoldsMeaning, Finish, ExecInv, RunsCompiled
<1>2. \A i \in Observed(src) : i \in Ids /\ i \in ran /\ i \in live
    BY <1>1, AllObservedRan, ObservedFacts
<1>3. ASSUME NEW i \in Observed(src), src[i].kind = "fetch" PROVE ~FetchFails(src[i], reply)
    <2>1. ASSUME NEW f \in Ids, f \in ran, nodes[f].kind = "fetch" PROVE ~FetchFails(src[f], reply)
        <3>1. ~FetchFails(nodes[f], reply)
            BY <2>1 DEF RefInv, HoldsMeaning, TasksReady, Outcomes
        <3> QED BY <1>1, <2>1, <3>1, NodeEvaluates
    <2>2. CASE nodes[i].kind # "alias"
        <3>1. nodes[i].kind = "fetch"
            BY <1>1, <1>2, <1>3, <2>2, NodeIs
        <3> QED BY <1>2, <2>1, <3>1
    <2>3. CASE nodes[i].kind = "alias"
        <3>1. PICK f \in Ids : /\ deps[i] = {f} /\ nodes[f].kind = "fetch"
                               /\ FetchFails(src[f], reply) <=> FetchFails(src[i], reply)
            BY <1>1, <1>2, <2>3, AliasIs
        <3>2. f \in live
            BY <1>1, <1>2, <3>1 DEF PlanInv, NeedInv, DataInv, LiveClosed, Done
        <3> QED BY <2>1, <3>1, <3>2, AllObservedRan
    <2> QED BY <2>2, <2>3
<1>4. ASSUME NEW i \in Observed(src) PROVE ~Fails(src[i], reply)
    <2>1. CASE src[i].kind = "fetch"
        BY <1>3, <2>1 DEF Fails
    <2>2. CASE src[i].kind # "fetch"
        BY <1>2, <2>2 DEF RefInv, HoldsMeaning, Outcomes
    <2> QED BY <2>1, <2>2
<1>5. ASSUME NEW i \in Observed(src), NEW r \in src[i].reads \ Param
      PROVE  ReachingDef(src, i, r) # 0
    BY <1>1, <1>2 DEF SingleAssignment
<1>6. PICK k \in 0..Len(src) : Cut(k) /\ ShownUpTo(k)
    BY DEF RefInv, InStep
<1>7. \A j \in 1..Len(src) : k < j /\ j <= Len(src) => ~IsEffect(src[j])
    <2> SUFFICES ASSUME NEW j \in Ids, Effect(j) PROVE ~(k < j)
        BY <1>1 DEF Effect
    <2>1. Happened(j)
        BY <1>1, <1>2, ObservedFacts, RanHappened DEF Effect
    <2> QED BY <1>1, <1>6, <2>1 DEF Cut
<1>8. Run[Len(src)].out = Run[k].out
    <2>1. Len(src) \in k..Len(src)
        BY <1>1
    <2> QED BY <1>1, <1>7, <2>1, Quiet DEF Run
<1> QED BY <1>4, <1>5, <1>6, <1>8 DEF MayFail, ShownUpTo

-----------------------------------------------------------------------------
(* The refinement.                                                         *)

\* The abstract specification reads the list as the executor's modules do.
LEMMA SameReading ==
    /\ Reading!Straight = Run[Len(src)]
    /\ Reading!MayFail(src, reply) <=> MayFail(src, reply)
<1>1. Reading!Observed(src) = Observed(src)
    BY DEF Reading!Observed, Observed, Reading!Needs, Needs, Reading!ReachingDef, ReachingDef,
           Reading!IsEffect, IsEffect
<1>2. Reading!MayFail(src, reply) <=> MayFail(src, reply)
    BY <1>1 DEF Reading!MayFail, MayFail, Reading!ReachingDef, ReachingDef,
           Reading!Fails, Fails, Reading!FetchFails, FetchFails
<1>3. Reading!StraightRun(src, reply, TRUE) = StraightRun(src, reply, TRUE)
    BY <1>1 DEF Reading!StraightRun, StraightRun, Reading!After, After, Reading!Started, Started,
           Reading!ParamEnv, ParamEnv, Reading!Nothing, Nothing, Reading!RunStmt, RunStmt,
           Reading!Fail, Fail, Reading!Insert, Insert, Reading!Term, Term,
           Reading!Evaluable, Evaluable, Reading!Fails, Fails, Reading!FetchFails, FetchFails,
           Reading!Sending, Sending, Reading!IsEffect, IsEffect,
           Reading!FetchValue, FetchValue, Reading!LetValue, LetValue
<1> QED BY <1>2, <1>3 DEF Reading!Straight, StraightRun, Run

\* A line or a return value comes out: the next one of the straight-line run.
LEMMA ShowsNext ==
    ASSUME RefInv, NEW i \in Ids, RunLog(i) \/ RunReturn(i), EffectGate'
    PROVE  /\ Len(out) < Len(Run[Len(src)].out)
           /\ out' = SubSeq(Run[Len(src)].out, 1, Len(out) + 1)
           /\ RunReturn(i) => Run[Len(src)].status = "returned" /\ out' = Run[Len(src)].out
<1>1. /\ src \in Sources /\ SingleAssignment(src) /\ Len(src) \in Nat /\ Ids = 1..Len(src)
      /\ PlanInv
    BY NodeIs DEF RefInv, HoldsMeaning
<1>2. /\ out' = Run[i].out /\ out' = ShownBy(out, src[i], Meant, reply) /\ ~Fails(src[i], reply)
      /\ RunReturn(i) => Run[i].status = "returned"
    BY EffectKeeps
<1>3. src[i].kind \in {"log", "return"}
    BY <1>1, NodeIs DEF RunLog, RunReturn
<1>4. out' = Append(out, Term(src[i], Meant))
    BY <1>2, <1>3 DEF ShownBy
<1>5. out \in Seq(Terms(src, Meant)) /\ Term(src[i], Meant) \in Terms(src, Meant)
    <2>1. PICK k \in 0..Len(src) : out = Run[k].out
        BY DEF RefInv, InStep, ShownUpTo
    <2>2. Run[k].out \in Seq(Terms(src, Meant))
        BY <1>1, EachStep DEF Run, Meant
    <2> QED BY <1>1, <2>1, <2>2 DEF Terms
<1>6. Len(out') = Len(out) + 1 /\ Len(out) \in Nat
    <2> DEFINE T == Terms(src, Meant)
               t == Term(src[i], Meant)
    <2>1. out \in Seq(T) /\ t \in T /\ out' = Append(out, t)
        BY <1>4, <1>5
    <2> HIDE DEF T, t
    <2> QED BY <2>1
<1>7. Starts(out', Run[Len(src)].out)
    <2>1. i \in 0..Len(src) /\ Len(src) \in i..Len(src)
        BY <1>1
    <2> QED BY <1>1, <1>2, <2>1, OnlyAppends DEF Run
<1>8. Len(Run[Len(src)].out) \in Nat
    <2>1. Len(src) \in 0..Len(src)
        BY <1>1
    <2>2. Run[Len(src)].out \in Seq(Terms(src, Meant))
        BY <1>1, <2>1, EachStep DEF Run, Meant
    <2> QED BY <2>2
<1>9. RunReturn(i) => Run[Len(src)] = Run[i]
    <2> SUFFICES ASSUME RunReturn(i) PROVE Run[Len(src)] = Run[i]
        OBVIOUS
    <2>1. Run[i].status # "running" /\ i \in 0..Len(src) /\ Len(src) \in i..Len(src)
        BY <1>1, <1>2
    <2> QED BY <1>1, <2>1, Stopped DEF Run
<1>10. /\ Len(out) < Len(Run[Len(src)].out)
       /\ out' = SubSeq(Run[Len(src)].out, 1, Len(out) + 1)
    <2> DEFINE all == Run[Len(src)].out
    <2>1. Len(out') <= Len(all) /\ out' = SubSeq(all, 1, Len(out'))
        BY <1>7 DEF Starts
    <2>2. Len(all) \in Nat
        BY <1>8
    <2> HIDE DEF all
    <2>3. Len(out) < Len(all)
        BY <1>6, <2>1, <2>2
    <2>4. out' = SubSeq(all, 1, Len(out) + 1)
        BY <1>6, <2>1
    <2> QED BY <2>3, <2>4 DEF all
<1> QED BY <1>2, <1>9, <1>10

\* How the body stands, as the refinement maps it.
Standing == IF stage = "failed" THEN "failed" ELSE IF Ended THEN "done" ELSE "running"

LEMMA InitRefines == Init => Reading!StraightInit
PROOF BY DEF Init, OptInit, Reading!StraightInit, Ended, Reading!Replies, Replies, Reading!OutcomesOf,
            OutcomesOf, Reading!Outcome, Outcome

LEMMA StepRefines == RefInv /\ [Next]_vars => [Reading!StraightNext]_(Reading!straightVars)
<1> SUFFICES ASSUME RefInv, [Next]_vars
             PROVE  Reading!StraightNext \/ UNCHANGED <<src, reply, out, Standing>>
    BY DEF Reading!straightVars, Standing
<1>1. ExecInv' => EffectGate'
    BY Gate, PTL
<1>2. EffectGate'
    BY <1>1, NextExecInv DEF RefInv
<1>3. CASE Compile
    BY <1>3, CompileKeeps DEF Standing, Ended
<1>4. CASE LaunchWave
    BY <1>4, LaunchKeeps DEF Standing, Ended, LaunchWave
<1>5. CASE Begin \/ JoinDone \/ NextWave
    BY <1>5, StageMoves DEF Standing, Ended, Begin, JoinDone, NextWave
<1>6. CASE \E i \in Ids : JoinOk(i) \/ RunLet(i)
    BY <1>6, BindKeeps DEF Standing, Ended
<1>7. CASE Tasks
    BY <1>2, <1>7, SendKeeps, AnswerKeeps DEF Standing, Ended, Tasks
<1>8. CASE UNCHANGED vars
    BY <1>8 DEF vars, optVars, execVars, Standing, Ended
<1>9. ASSUME NEW i \in Ids, RunAssert(i)
      PROVE  UNCHANGED <<src, reply, out, Standing>>
    <2>1. UNCHANGED <<src, reply>> /\ stage' = stage /\ out' = out
        BY <1>9 DEF RunAssert, optVars
    <2> QED BY <2>1 DEF Standing, Ended
<1>10. ASSUME NEW i \in Ids, RunLog(i) \/ RunReturn(i) PROVE Reading!StraightNext
    <2>1. /\ UNCHANGED <<src, reply>> /\ stage = "nodes" /\ (stage' = "nodes" \/ stage' = "returned")
          /\ stage' = "returned" => RunReturn(i)
        BY <1>10 DEF RunLog, RunReturn, optVars
    <2>2. /\ Len(out) < Len(Reading!Straight.out)
          /\ out' = SubSeq(Reading!Straight.out, 1, Len(out) + 1)
          /\ RunReturn(i) => Reading!Straight.status = "returned" /\ out' = Reading!Straight.out
        BY <1>2, <1>10, ShowsNext, SameReading
    <2>3. Reading!Show
        BY <2>1, <2>2 DEF Reading!Show, Ended
    <2> QED BY <2>3 DEF Reading!StraightNext
<1>11. CASE Finish
    <2>1. UNCHANGED <<src, reply, out>> /\ stage = "launch" /\ stage' = "finished"
        BY <1>11 DEF Finish, optVars
    <2>2. ~Reading!MayFail(src, reply) /\ out = Reading!Straight.out
        BY <1>11, EndsWell, SameReading
    <2>3. Reading!End
        BY <2>1, <2>2 DEF Reading!End, Ended
    <2> QED BY <2>3 DEF Reading!StraightNext
<1>12. ASSUME NEW i \in Ids, JoinErr(i) \/ FailNode(i) PROVE Reading!StraightNext
    <2>1. UNCHANGED <<src, reply, out>> /\ stage \in {"await", "nodes"} /\ stage' = "failed"
        BY <1>12 DEF JoinErr, FailNode, optVars
    <2>2. Reading!MayFail(src, reply)
        BY <1>12, FailuresAreReal, SameReading
    <2>3. Reading!Abort
        BY <2>1, <2>2 DEF Reading!Abort, Ended
    <2> QED BY <2>3 DEF Reading!StraightNext
<1> QED BY <1>3, <1>4, <1>5, <1>6, <1>7, <1>8, <1>9, <1>10, <1>11, <1>12 DEF Next, Body

\* What run_body shows of a body that binds every variable once is what the
\* statements show when they run one after the other: the same lines and the
\* same return value in the same order.  It comes to the end of the list only
\* when nothing observed failed, and stops early only when something did.
THEOREM ExecutorImplementsStraight == Spec /\ SingleAssignment(src) => ImplementsStraight
PROOF BY AlwaysRefInv, InitRefines, StepRefines, PTL
        DEF Spec, ImplementsStraight, Reading!StraightSpec
-----------------------------------------------------------------------------
(***************************************************************************)
(* run_body waits for nothing that was not spawned, leaves no request in   *)
(* flight when it ends well, and ends after a bounded number of steps.     *)
(***************************************************************************)

InFlight(i) == task[i] \notin {"idle", "ok"}

\* Where a wave stands: what is awaited was spawned, what is past its join has
\* been joined, and only a join that is still to come has anything in flight.
WaveInv ==
    /\ stage = "launch" => wave <= depth
    /\ stage \in {"await", "nodes"} => wave < depth
    /\ stage = "await" => \A i \in Fetches : task[i] # "idle"
    /\ stage \notin {"await", "failed"} => \A i \in Ids : ~InFlight(i)
    /\ stage = "await" => \A i \in Ids : InFlight(i) => i \in Fetches \ ran

LEMMA InitWaveInv == Init => WaveInv
PROOF BY DEF Init, WaveInv, InFlight

\* At the start of a wave none of its fetches has been spawned.
LEMMA LaunchedWereIdle == ExecInv /\ stage = "launch" => \A i \in Launched : i \in Ids /\ task[i] = "idle"
<1> SUFFICES ASSUME ExecInv, stage = "launch", NEW i \in Launched PROVE i \in Ids /\ task[i] = "idle"
    OBVIOUS
<1>1. i \in live /\ level[i] = wave /\ wave \in Nat /\ i \in Ids
    BY DEF Launched, Fetches, Wave, ExecInv, OptInv, OptTypeOK
<1>2. ~Begun(i)
    BY <1>1 DEF ExecInv, BegunWasReached, Reached
<1> QED BY <1>1, <1>2 DEF Begun

LEMMA NextWaveInv == ExecInv /\ WaveInv /\ [Next]_vars => WaveInv'
<1> SUFFICES ASSUME ExecInv, WaveInv, [Next]_vars PROVE WaveInv'
    OBVIOUS
<1>1. CASE UNCHANGED vars
    BY <1>1 DEF vars, optVars, execVars, WaveInv, InFlight, Fetches, Wave, Ids
<1>2. CASE Compile
    <2>1. stage = "compile" /\ stage' = "compile" /\ task' = task /\ Ids' = Ids
        BY <1>2, DoneIsFinal DEF Compile, execVars, ExecInv, RunsCompiled, OptNext, WireNode, WireDone,
               ScanNode, ScanDone, RewriteOne, RewriteDone, MarkRoots, MarkDeps, MarkDone, RaiseLevel,
               LevelNode, LevelDone, Ids
    <2> QED BY <2>1 DEF WaveInv, InFlight
<1>3. CASE Begin
    <2>1. /\ Ids' = Ids /\ task' = task /\ stage = "compile" /\ stage' = "launch" /\ wave' = wave
          /\ depth' = depth /\ wave = 0 /\ depth \in Nat
        BY <1>3 DEF Begin, optVars, Ids, ExecInv, RunsCompiled, OptInv, OptTypeOK
    <2> QED BY <2>1 DEF WaveInv, InFlight
<1>4. CASE LaunchWave
    <2>1. /\ Ids' = Ids /\ stage = "launch" /\ stage' = "await" /\ wave' = wave /\ depth' = depth
          /\ wave < depth /\ ran' = ran /\ Fetches' = Fetches
          /\ task' = [i \in Ids |-> IF i \in Fetches THEN "spawned" ELSE task[i]]
        BY <1>4 DEF LaunchWave, MoreWaves, Launched, optVars, Ids, Fetches, Wave
    <2>2. \A i \in Fetches : i \in Ids /\ i \notin ran
        BY <2>1 DEF Fetches, Wave, ExecInv, OptInv, OptTypeOK, BegunWasReached, Begun, Reached
    <2> QED BY <2>1, <2>2 DEF WaveInv, InFlight
<1>5. CASE JoinDone
    <2>1. /\ Ids' = Ids /\ stage = "await" /\ stage' = "nodes" /\ wave' = wave /\ depth' = depth
          /\ task' = task /\ Fetches \ ran = {}
        BY <1>5 DEF JoinDone, Pending, optVars, Ids
    <2> QED BY <2>1 DEF WaveInv, InFlight
<1>6. CASE NextWave
    <2>1. /\ Ids' = Ids /\ stage = "nodes" /\ stage' = "launch" /\ wave' = wave + 1 /\ depth' = depth
          /\ task' = task /\ wave \in Nat /\ depth \in Nat
        BY <1>6 DEF NextWave, FollowingWave, optVars, Ids, ExecInv, OptInv, OptTypeOK
    <2> QED BY <2>1 DEF WaveInv, InFlight
<1>7. CASE Finish
    <2>1. Ids' = Ids /\ stage = "launch" /\ stage' = "finished" /\ task' = task
        BY <1>7 DEF Finish, optVars, Ids
    <2> QED BY <2>1 DEF WaveInv, InFlight
<1>8. ASSUME NEW i \in Ids, JoinOk(i) PROVE WaveInv'
    <2>1. /\ Ids' = Ids /\ stage = "await" /\ stage' = "await" /\ wave' = wave /\ depth' = depth
          /\ task' = task /\ ran' = ran \cup {i} /\ Fetches' = Fetches /\ task[i] = "ok"
        BY <1>8 DEF JoinOk, optVars, Ids, Fetches, Wave
    <2> QED BY <2>1 DEF WaveInv, InFlight
<1>9. ASSUME NEW i \in Ids, JoinErr(i) \/ FailNode(i) PROVE WaveInv'
    <2>1. stage' = "failed"
        BY <1>9 DEF JoinErr, FailNode
    <2> QED BY <2>1 DEF WaveInv
<1>10. ASSUME NEW i \in Ids, RunLet(i) \/ RunLog(i) \/ RunAssert(i) \/ RunReturn(i) PROVE WaveInv'
    <2>1. /\ Ids' = Ids /\ stage = "nodes" /\ stage' \in {"nodes", "returned"} /\ wave' = wave
          /\ depth' = depth /\ task' = task
        BY <1>10 DEF RunLet, RunLog, RunAssert, RunReturn, optVars, Ids
    <2> QED BY <2>1 DEF WaveInv, InFlight
<1>11. ASSUME NEW i \in Ids, SendRequest(i) \/ Answer(i) PROVE WaveInv'
    <2>1. /\ Ids' = Ids /\ stage' = stage /\ wave' = wave /\ depth' = depth /\ ran' = ran
          /\ Fetches' = Fetches /\ task[i] \in {"spawned", "sent"} /\ task'[i] # "idle"
          /\ \A j \in Ids : j # i => task'[j] = task[j]
        BY <1>11 DEF SendRequest, Answer, optVars, Ids, Fetches, Wave, ExecInv
    <2>2. InFlight(i) /\ stage \in {"await", "failed"}
        BY <2>1 DEF WaveInv, InFlight
    <2>3. Fetches \subseteq Ids
        BY DEF Fetches, Wave, ExecInv, OptInv, OptTypeOK
    <2> QED BY <2>1, <2>2, <2>3 DEF WaveInv, InFlight
<1> QED BY <1>1, <1>2, <1>3, <1>4, <1>5, <1>6, <1>7, <1>8, <1>9, <1>10, <1>11 DEF Next, Body, Tasks

LEMMA AlwaysWaveInv == Spec => [](ExecInv /\ WaveInv)
PROOF BY InitExecInv, InitWaveInv, NextExecInv, NextWaveInv, PTL DEF Spec

\* run_body never awaits a handle it has not spawned, whichever way the waves
\* fall, and a body that returned or ran to its end has no request in flight and
\* none that failed: only one that fails can leave detached tasks behind.
NothingLeftBehind ==
    /\ stage = "await" => \A i \in Pending : task[i] # "idle"
    /\ stage \in {"returned", "finished"} => \A i \in Ids : task[i] \in {"idle", "ok"}

\* The executor leaves nothing behind, for every set of bodies and all answers.
THEOREM GoodEndsLeaveNothing == Spec => []NothingLeftBehind
<1>1. WaveInv => NothingLeftBehind
    BY DEF WaveInv, NothingLeftBehind, Pending, InFlight
<1> QED BY <1>1, AlwaysWaveInv, PTL

-----------------------------------------------------------------------------
(* A scheduled body is run in a bounded number of steps.                   *)

TaskIn(states) == {i \in Ids : task[i] \in states}

\* The halves of waves run_body has before it, the last one counted too.
HalvesLeft ==
    CASE stage = "launch" -> 4 * (depth - wave) + 4
      [] stage = "await"  -> 4 * (depth - wave) + 3
      [] stage = "nodes"  -> 4 * (depth - wave) + 2
      [] OTHER -> 0

\* The statements not run, and the requests not launched, not sent, not answered.
BodyLeft ==
    HalvesLeft + Cardinality(Ids \ ran) + Cardinality(TaskIn({"idle"}))
        + Cardinality(TaskIn({"idle", "spawned"})) + Cardinality(TaskIn({"idle", "spawned", "sent"}))

\* Sets of nodes are finite, and a smaller one counts less.
LEMMA BodySets ==
    ASSUME OptTypeOK
    PROVE  /\ Len(src) \in Nat
           /\ \A S \in SUBSET Ids : Cardinality(S) \in 0..Len(src)
           /\ \A S, T \in SUBSET Ids : S \subseteq T => Cardinality(S) <= Cardinality(T)
           /\ \A S, T \in SUBSET Ids : S \subseteq T /\ S # T => Cardinality(S) < Cardinality(T)
<1>1. \A S \in SUBSET Ids : IsFiniteSet(S) /\ Cardinality(S) \in 0..Len(src)
    BY PassSets
<1>2. \A S, T \in SUBSET Ids : S \subseteq T => Cardinality(S) <= Cardinality(T)
                                /\ (Cardinality(S) = Cardinality(T) => S = T)
    BY <1>1, FS_Subset
<1>3. Len(src) \in Nat
    BY PassSets
<1>4. \A S \in SUBSET Ids : Cardinality(S) \in Int
    BY <1>1, <1>3
<1>5. ASSUME NEW S \in SUBSET Ids, NEW T \in SUBSET Ids, S \subseteq T, S # T
      PROVE  Cardinality(S) < Cardinality(T)
    BY <1>2, <1>4, <1>5
<1> QED BY <1>1, <1>2, <1>3, <1>5

\* The counts of a state are numbers within their bounds.
LEMMA BodyCounts ==
    ASSUME ExecInv, WaveInv
    PROVE  /\ HalvesLeft \in 0..(4 * depth + 4)
           /\ \A s \in SUBSET {"idle", "spawned", "sent"} : TaskIn(s) \in SUBSET Ids
           /\ Ids \ ran \in SUBSET Ids
<1>1. wave \in Nat /\ depth \in Nat
    BY DEF ExecInv, OptInv, OptTypeOK
<1>2. HalvesLeft \in 0..(4 * depth + 4)
    BY <1>1 DEF HalvesLeft, WaveInv
<1> QED BY <1>2 DEF TaskIn

\* A step that makes one count less and none more has less left to do.
LEMMA LessIsLeft ==
    ASSUME ExecInv, WaveInv, ExecInv', WaveInv', UNCHANGED <<src, depth>>,
           HalvesLeft' <= HalvesLeft,
           (Ids \ ran)' \subseteq Ids \ ran,
           \A s \in {{"idle"}, {"idle", "spawned"}, {"idle", "spawned", "sent"}} :
               TaskIn(s)' \subseteq TaskIn(s),
           \/ HalvesLeft' < HalvesLeft
           \/ (Ids \ ran)' # Ids \ ran
           \/ TaskIn({"idle", "spawned"})' # TaskIn({"idle", "spawned"})
           \/ TaskIn({"idle", "spawned", "sent"})' # TaskIn({"idle", "spawned", "sent"})
    PROVE  BodyLeft' < BodyLeft
<1> DEFINE a == {"idle"}
           b == {"idle", "spawned"}
           c == {"idle", "spawned", "sent"}
<1>1. Len(src) \in Nat /\ OptTypeOK /\ depth \in Nat
    BY LenSource DEF ExecInv, OptInv, OptTypeOK
<1>2. HalvesLeft \in Nat /\ HalvesLeft' \in Nat
    <2>1. wave \in Nat /\ depth \in Nat /\ wave' \in Nat /\ depth' \in Nat
        BY DEF ExecInv, OptInv, OptTypeOK
    <2>2. HalvesLeft' \in Nat
        BY <2>1 DEF HalvesLeft, WaveInv
    <2> QED BY <1>1, <2>2, BodyCounts
<1>3. Ids' = Ids /\ ((Ids \ ran)' \in SUBSET Ids) /\ Ids \ ran \in SUBSET Ids
      /\ \A s \in {a, b, c} : TaskIn(s) \in SUBSET Ids /\ TaskIn(s)' \in SUBSET Ids
    BY DEF Ids, TaskIn
<1> DEFINE h == HalvesLeft
           r == Cardinality(Ids \ ran)
           x == Cardinality(TaskIn(a))
           y == Cardinality(TaskIn(b))
           z == Cardinality(TaskIn(c))
           h2 == HalvesLeft'
           r2 == Cardinality((Ids \ ran)')
           x2 == Cardinality(TaskIn(a)')
           y2 == Cardinality(TaskIn(b)')
           z2 == Cardinality(TaskIn(c)')
<1>4. /\ r \in Nat /\ x \in Nat /\ y \in Nat /\ z \in Nat
      /\ r2 \in Nat /\ x2 \in Nat /\ y2 \in Nat /\ z2 \in Nat
    <2>1. \A S \in SUBSET Ids : Cardinality(S) \in Nat
        BY <1>1, BodySets
    <2> QED BY <1>3, <2>1
<1>5. h2 <= h /\ r2 <= r /\ x2 <= x /\ y2 <= y /\ z2 <= z
    <2>1. \A S, T \in SUBSET Ids : S \subseteq T => Cardinality(S) <= Cardinality(T)
        BY <1>1, BodySets
    <2> QED BY <1>3, <2>1
<1>6. h2 < h \/ r2 < r \/ y2 < y \/ z2 < z
    <2>1. \A S, T \in SUBSET Ids : S \subseteq T /\ S # T => Cardinality(S) < Cardinality(T)
        BY <1>1, BodySets
    <2> QED BY <1>3, <2>1
<1>7. BodyLeft = h + r + x + y + z /\ BodyLeft' = h2 + r2 + x2 + y2 + z2
    BY DEF BodyLeft
<1> HIDE DEF h, r, x, y, z, h2, r2, x2, y2, z2
<1>8. h \in Nat /\ h2 \in Nat
    BY <1>2 DEF h, h2
<1> QED BY <1>4, <1>5, <1>6, <1>7, <1>8

-----------------------------------------------------------------------------
\* A schedule has no more waves than the body has statements.
ShallowInv ==
    /\ phase \notin {"level", "done"} => depth = 0
    /\ phase = "level" => lvl < cursor /\ depth < cursor /\ \A d \in todo : d < cursor
    /\ depth <= Len(src)
    /\ \A i \in Ids : level[i] < i

LEMMA InitShallow == OptInit => ShallowInv
<1> SUFFICES ASSUME OptInit PROVE ShallowInv
    OBVIOUS
<1>1. Len(src) \in Nat
    BY LenSource, InitOptInv DEF OptInv
<1> QED BY <1>1 DEF OptInit, ShallowInv, Ids

LEMMA NextShallow == OptInv /\ ShallowInv /\ [OptNext]_optVars => ShallowInv'
<1> SUFFICES ASSUME OptInv, ShallowInv, [OptNext]_optVars PROVE ShallowInv'
    OBVIOUS
<1>1. OptTypeOK /\ Ids = 1..Len(src) /\ Len(src) \in Nat
    BY LenSource DEF OptInv, Ids
<1>2. cursor \in 1..(Len(src) + 1) /\ depth \in Nat /\ lvl \in Nat /\ \A i \in Ids : level[i] \in Nat
    BY <1>1 DEF OptTypeOK
<1>3. CASE UNCHANGED optVars
    BY <1>3 DEF optVars, ShallowInv, Ids
<1>4. CASE WireNode \/ WireDone \/ ScanNode \/ ScanDone \/ RewriteOne \/ RewriteDone \/ MarkRoots \/ MarkDeps
    <2>1. UNCHANGED <<src, level, depth>> /\ phase' \notin {"level", "done"} /\ phase \notin {"level", "done"}
        BY <1>4 DEF WireNode, WireDone, ScanNode, ScanDone, RewriteOne, RewriteDone, MarkRoots, MarkDeps
    <2> QED BY <2>1 DEF ShallowInv, Ids
<1>5. CASE MarkDone
    <2>1. /\ UNCHANGED <<src, level, depth, deps>> /\ phase' = "level" /\ phase = "mark" /\ cursor' = 1 /\ lvl' = 0
          /\ todo' = (IF 1 \in Ids THEN deps[1] ELSE {})
        BY <1>5 DEF MarkDone
    <2>2. \A d \in todo' : d < 1
        BY <2>1 DEF OptInv, DepsPointBack
    <2> QED BY <2>1, <2>2 DEF ShallowInv, Ids
<1>6. CASE RaiseLevel
    <2>1. UNCHANGED <<src, level, depth, cursor, phase>> /\ phase = "level"
        BY <1>6 DEF RaiseLevel
    <2>2. PICK d \in todo : lvl' = RaisedLevel(d) /\ todo' = todo \ {d}
        BY <1>6 DEF RaiseLevel
    <2>3. d \in Ids /\ level[d] \in Nat /\ level[d] < d /\ d < cursor /\ lvl < cursor
        BY <1>1, <2>1, <2>2 DEF ShallowInv, OptTypeOK
    <2>4. lvl' < cursor
        BY <1>1, <1>2, <2>2, <2>3 DEF RaisedLevel
    <2> QED BY <2>1, <2>2, <2>4 DEF ShallowInv, Ids
<1>7. CASE LevelNode
    <2>1. /\ UNCHANGED <<src, phase, deps>> /\ phase = "level" /\ cursor \in Ids /\ cursor' = cursor + 1
          /\ lvl' = 0 /\ todo' = (IF cursor + 1 \in Ids THEN deps[cursor + 1] ELSE {})
        BY <1>7 DEF LevelNode, NextNode
    <2>2. \A d \in todo' : d < cursor'
        BY <2>1 DEF OptInv, DepsPointBack
    <2>3. lvl < cursor /\ depth < cursor /\ depth <= Len(src)
        BY <2>1 DEF ShallowInv
    <2>4. depth' < cursor + 1 /\ depth' <= Len(src) /\ \A i \in Ids : level'[i] < i
        <3>1. CASE UNCHANGED <<level, depth>>
            BY <1>1, <1>2, <2>3, <3>1 DEF ShallowInv
        <3>2. CASE level' = [level EXCEPT ![cursor] = lvl] /\ depth' = IF lvl + 1 > depth THEN lvl + 1 ELSE depth
            <4>1. \A i \in Ids : level'[i] < i
                BY <1>1, <2>1, <2>3, <3>2 DEF ShallowInv, OptTypeOK
            <4>2. depth' < cursor + 1 /\ depth' <= Len(src)
                BY <1>1, <1>2, <2>1, <2>3, <3>2
            <4> QED BY <4>1, <4>2
        <3> QED BY <1>7, <3>1, <3>2 DEF LevelNode
    <2> QED BY <1>1, <1>2, <2>1, <2>2, <2>4 DEF ShallowInv, Ids
<1>8. CASE LevelDone
    <2>1. UNCHANGED <<src, level, depth>> /\ phase' = "done"
        BY <1>8 DEF LevelDone
    <2> QED BY <2>1 DEF ShallowInv, Ids
<1> QED BY <1>3, <1>4, <1>5, <1>6, <1>7, <1>8 DEF OptNext

\* The steps a program has left: those of the passes, then those of its body.
RunMost == 8 * Len(src) + 5
StepsLeft == IF stage = "compile" THEN PassesLeft + RunMost ELSE BodyLeft

\* A scheduled body has less before it than was set aside for it,
LEMMA BodyIsShort == ExecInv /\ WaveInv /\ ShallowInv => BodyLeft \in 0..(RunMost - 1)
<1> SUFFICES ASSUME ExecInv, WaveInv, ShallowInv PROVE BodyLeft \in 0..(RunMost - 1)
    OBVIOUS
<1>1. OptTypeOK /\ depth \in Nat /\ depth <= Len(src) /\ Len(src) \in Nat
    BY LenSource DEF ExecInv, OptInv, OptTypeOK, ShallowInv
<1>2. /\ Cardinality(Ids \ ran) \in 0..Len(src) /\ Cardinality(TaskIn({"idle"})) \in 0..Len(src)
      /\ Cardinality(TaskIn({"idle", "spawned"})) \in 0..Len(src)
      /\ Cardinality(TaskIn({"idle", "spawned", "sent"})) \in 0..Len(src)
    <2>1. \A S \in SUBSET Ids : Cardinality(S) \in 0..Len(src)
        BY <1>1, BodySets
    <2> QED BY <2>1, BodyCounts
<1>3. HalvesLeft \in 0..(4 * depth + 4)
    BY BodyCounts
<1> DEFINE h == HalvesLeft
           r == Cardinality(Ids \ ran)
           x == Cardinality(TaskIn({"idle"}))
           y == Cardinality(TaskIn({"idle", "spawned"}))
           z == Cardinality(TaskIn({"idle", "spawned", "sent"}))
           n == Len(src)
<1>4. BodyLeft = h + r + x + y + z /\ RunMost = 8 * n + 5
    BY DEF BodyLeft, RunMost
<1>5. /\ n \in Nat /\ h \in 0..(4 * depth + 4) /\ r \in 0..n /\ x \in 0..n /\ y \in 0..n /\ z \in 0..n
      /\ depth <= n
    BY <1>1, <1>2, <1>3
<1> HIDE DEF h, r, x, y, z, n
<1> QED BY <1>1, <1>4, <1>5

\* and every step of run_body or of one of its tasks takes from that.
LEMMA BodyCountsDown ==
    ASSUME ExecInv, WaveInv, ExecInv', WaveInv', stage # "compile", Body \/ Tasks
    PROVE  BodyLeft' < BodyLeft
<1>1. UNCHANGED <<src, depth>> /\ Ids' = Ids
    BY DEF Body, Tasks, Begin, LaunchWave, SendRequest, Answer, JoinOk, JoinErr, JoinDone, FailNode,
           RunLet, RunLog, RunAssert, RunReturn, NextWave, Finish, optVars, Ids
<1>2. wave \in Nat /\ depth \in Nat
    BY DEF ExecInv, OptInv, OptTypeOK
<1> DEFINE Sets == {{"idle"}, {"idle", "spawned"}, {"idle", "spawned", "sent"}}
<1>3. UNCHANGED task => \A s \in Sets : TaskIn(s)' = TaskIn(s)
    BY <1>1 DEF TaskIn
<1>4. UNCHANGED ran => (Ids \ ran)' = Ids \ ran
    BY <1>1
<1>5. UNCHANGED <<stage, wave>> => HalvesLeft' = HalvesLeft
    BY <1>1 DEF HalvesLeft
<1>6. CASE LaunchWave
    <2>1. stage = "launch" /\ stage' = "await" /\ wave' = wave /\ ran' = ran /\ wave < depth
        BY <1>6 DEF LaunchWave, MoreWaves
    <2>2. HalvesLeft' < HalvesLeft /\ HalvesLeft' <= HalvesLeft
        BY <1>1, <1>2, <2>1 DEF HalvesLeft
    <2>3. \A s \in Sets : TaskIn(s)' \subseteq TaskIn(s)
        <3>1. \A i \in Ids : task'[i] = IF i \in Launched THEN "spawned" ELSE task[i]
            BY <1>6 DEF LaunchWave
        <3>2. \A i \in Launched : i \in Ids /\ task[i] = "idle"
            BY <2>1, LaunchedWereIdle
        <3> QED BY <1>1, <3>1, <3>2 DEF TaskIn
    <2> QED BY <1>1, <1>4, <2>1, <2>2, <2>3, LessIsLeft
<1>7. CASE JoinDone \/ NextWave \/ Finish \/ \E i \in Ids : JoinErr(i) \/ FailNode(i)
    <2>1. UNCHANGED <<task, ran>>
        BY <1>7 DEF JoinDone, NextWave, Finish, JoinErr, FailNode
    <2>2. HalvesLeft' < HalvesLeft /\ HalvesLeft' <= HalvesLeft
        <3>1. CASE JoinDone
            BY <1>1, <1>2, <3>1 DEF JoinDone, HalvesLeft
        <3>2. CASE NextWave
            BY <1>1, <1>2, <3>2 DEF NextWave, FollowingWave, HalvesLeft
        <3>3. CASE Finish
            BY <1>1, <1>2, <3>3 DEF Finish, HalvesLeft
        <3>4. CASE \E i \in Ids : JoinErr(i) \/ FailNode(i)
            <4>1. stage \in {"await", "nodes"} /\ stage' = "failed"
                BY <3>4 DEF JoinErr, FailNode
            <4>2. wave < depth
                BY <4>1 DEF WaveInv
            <4> QED BY <1>2, <4>1, <4>2 DEF HalvesLeft
        <3> QED BY <1>7, <3>1, <3>2, <3>3, <3>4
    <2> QED BY <1>1, <1>3, <1>4, <2>1, <2>2, LessIsLeft
<1>8. CASE \E i \in Ids : JoinOk(i) \/ RunLet(i) \/ RunLog(i) \/ RunAssert(i) \/ RunReturn(i)
    <2>1. PICK i \in Ids : JoinOk(i) \/ RunLet(i) \/ RunLog(i) \/ RunAssert(i) \/ RunReturn(i)
        BY <1>8
    <2>2. UNCHANGED <<task, wave>> /\ ran' = ran \cup {i} /\ i \notin ran
          /\ stage \in {"await", "nodes"} /\ (stage' = stage \/ stage' = "returned")
        BY <2>1 DEF JoinOk, RunLet, RunLog, RunAssert, RunReturn, IsNext, Pending
    <2>3. HalvesLeft' <= HalvesLeft
        <3>1. wave < depth
            BY <2>2 DEF WaveInv
        <3> QED BY <1>1, <1>2, <2>2, <3>1 DEF HalvesLeft
    <2>4. (Ids \ ran)' \subseteq Ids \ ran /\ (Ids \ ran)' # Ids \ ran
        BY <1>1, <2>2
    <2> QED BY <1>1, <1>3, <2>2, <2>3, <2>4, LessIsLeft
<1>9. CASE Tasks
    <2>1. PICK i \in Ids : SendRequest(i) \/ Answer(i)
        BY <1>9 DEF Tasks
    <2>2. /\ UNCHANGED <<stage, wave, ran>> /\ \A j \in Ids : j # i => task'[j] = task[j]
          /\ \/ task[i] = "spawned" /\ task'[i] \in {"sent", "err"}
             \/ task[i] = "sent" /\ task'[i] \in {"ok", "err"}
        BY <2>1 DEF SendRequest, Answer, ExecInv
    <2>3. HalvesLeft' <= HalvesLeft
        <3>1. HalvesLeft \in Int
            BY <1>2 DEF HalvesLeft
        <3> QED BY <1>5, <2>2, <3>1
    <2>4. \A s \in Sets : TaskIn(s)' \subseteq TaskIn(s)
        BY <1>1, <2>2 DEF TaskIn
    <2>5. \/ TaskIn({"idle", "spawned"})' # TaskIn({"idle", "spawned"})
          \/ TaskIn({"idle", "spawned", "sent"})' # TaskIn({"idle", "spawned", "sent"})
        BY <1>1, <2>2 DEF TaskIn
    <2> QED BY <1>1, <1>4, <2>2, <2>3, <2>4, <2>5, LessIsLeft
<1>10. ~Begin
    BY DEF Begin
<1> QED BY <1>6, <1>7, <1>8, <1>9, <1>10 DEF Body

\* Compiling and running a body of n statements takes at most (n + 3)^2 + 8n + 5
\* steps of run_body and its tasks, the detached ones included, whatever the
\* requests answer and in whatever order: every step counts down.
THEOREM ExecutionIsBounded ==
    Spec => [](StepsLeft \in 0..(Most + RunMost)) /\ [][StepsLeft' < StepsLeft]_vars
<1> DEFINE Inv == ExecInv /\ WaveInv /\ ShallowInv /\ PassesLeft <= Most
<1>1. Init => Inv
    BY InitExecInv, InitWaveInv, InitShallow, PassesLeftFirst DEF Init
<1>2. Inv => StepsLeft \in 0..(Most + RunMost)
    <2> SUFFICES ASSUME Inv PROVE StepsLeft \in 0..(Most + RunMost)
        OBVIOUS
    <2>1. PassesLeft \in Nat /\ Len(src) \in Nat
        BY PassesLeftNat, LenSource DEF ExecInv, OptInv
    <2>2. Most \in Nat /\ RunMost \in Nat
        BY <2>1 DEF Most, RunMost
    <2>3. BodyLeft \in 0..(RunMost - 1)
        BY BodyIsShort
    <2> QED BY <2>1, <2>2, <2>3 DEF StepsLeft
<1>3. Inv /\ [Next]_vars => Inv' /\ [StepsLeft' < StepsLeft]_vars
    <2> SUFFICES ASSUME Inv, [Next]_vars PROVE Inv' /\ [StepsLeft' < StepsLeft]_vars
        OBVIOUS
    <2>1. ExecInv' /\ WaveInv' /\ ShallowInv'
        BY NextExecInv, NextWaveInv, NextShallow, NextIsOptNext DEF ExecInv
    <2>2. /\ PassesLeft \in Nat /\ Len(src) \in Nat /\ PassesLeft' \in Nat /\ Most \in Nat
        <3>1. (OptTypeOK => PassesLeft \in Nat)'
            BY PassesLeftNat, PTL
        <3> QED BY <2>1, <3>1, PassesLeftNat, LenSource DEF ExecInv, OptInv, Most
    <2>3. UNCHANGED optVars => PassesLeft' = PassesLeft /\ Most' = Most /\ RunMost' = RunMost
        BY DEF optVars, PassesLeft, Most, Togo, Row, Marking, Ids, RunMost
    <2>4. CASE UNCHANGED vars
        BY <2>1, <2>3, <2>4 DEF vars
    <2>5. CASE Compile
        <3>1. OptNext /\ stage' = stage /\ stage = "compile"
            BY <2>5, DoneIsFinal DEF Compile, execVars, ExecInv, RunsCompiled
        <3>2. PassesLeft' < PassesLeft
            BY <2>1, <3>1, PassesCountDown DEF ExecInv, OptInv
        <3>3. src' = src
            BY <3>1 DEF OptNext, WireNode, WireDone, ScanNode, ScanDone, RewriteOne, RewriteDone,
                   MarkRoots, MarkDeps, MarkDone, RaiseLevel, LevelNode, LevelDone
        <3>4. Most' = Most /\ RunMost' = RunMost /\ RunMost \in Nat
            BY <2>2, <3>3 DEF Most, RunMost
        <3>5. StepsLeft = PassesLeft + RunMost /\ StepsLeft' = PassesLeft' + RunMost
            BY <3>1, <3>4 DEF StepsLeft
        <3>6. StepsLeft' < StepsLeft
            <4> DEFINE p == PassesLeft
                       q == PassesLeft'
                       m == RunMost
            <4>1. p \in Nat /\ q \in Nat /\ m \in Nat /\ q < p
                BY <2>2, <3>2, <3>4
            <4>2. StepsLeft = p + m /\ StepsLeft' = q + m
                BY <3>5
            <4> HIDE DEF p, q, m
            <4> QED BY <4>1, <4>2
        <3>7. PassesLeft' <= Most'
            BY <2>2, <3>2, <3>4
        <3> QED BY <2>1, <3>6, <3>7
    <2>6. CASE (Body \/ Tasks) /\ stage = "compile"
        <3>1. Begin
            BY <2>6 DEF Body, Tasks, LaunchWave, SendRequest, Answer, JoinOk, JoinErr, JoinDone,
                   FailNode, RunLet, RunLog, RunAssert, RunReturn, NextWave, Finish, ExecInv,
                   RunsCompiled
        <3>2. stage' # "compile" /\ StepsLeft' = BodyLeft' /\ StepsLeft = PassesLeft + RunMost
              /\ UNCHANGED optVars
            BY <2>6, <3>1 DEF Begin, StepsLeft
        <3>3. BodyLeft' \in 0..(RunMost' - 1)
            <4>1. (ExecInv /\ WaveInv /\ ShallowInv => BodyLeft \in 0..(RunMost - 1))'
                BY BodyIsShort, PTL
            <4> QED BY <2>1, <4>1
        <3>4. RunMost \in Nat
            BY <2>2 DEF RunMost
        <3> QED BY <2>1, <2>2, <2>3, <3>2, <3>3, <3>4
    <2>7. CASE (Body \/ Tasks) /\ stage # "compile"
        <3>1. BodyLeft' < BodyLeft
            BY <2>1, <2>7, BodyCountsDown
        <3>2. stage' # "compile" /\ UNCHANGED optVars
            BY <2>7 DEF Body, Tasks, Begin, LaunchWave, SendRequest, Answer, JoinOk, JoinErr,
                   JoinDone, FailNode, RunLet, RunLog, RunAssert, RunReturn, NextWave, Finish
        <3> QED BY <2>1, <2>3, <2>7, <3>1, <3>2 DEF StepsLeft
    <2> QED BY <2>4, <2>5, <2>6, <2>7 DEF Next
<1> HIDE DEF Inv
<1> QED BY <1>1, <1>2, <1>3, PTL DEF Spec
=============================================================================
