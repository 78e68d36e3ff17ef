-------------------------- MODULE RecordingProofs ---------------------------
(***************************************************************************)
(* What record and replay promise for every program, every service and any *)
(* number of runs, failures and kills.  The invariant follows one run (the *)
(* calls sent so far are those its answers call for), the recording it     *)
(* makes, the recording on disk (the whole of one run that succeeded), and *)
(* a replay, which has made exactly the recorded calls of its waves.       *)
(***************************************************************************)
EXTENDS Recording, TLAPS

Endings == {"idle", "running", "finished", "failed", "not recorded", "saving", "saved", "killed"}

RecTypeOK ==
    /\ script \in Scripts
    /\ mode \in {"none", "off", "record", "replay"}
    /\ wave \in Nat /\ flying \subseteq Calls
    /\ DOMAIN seen \subseteq Calls
    /\ ending \in Endings

\* A recording holds outcomes; what a run has seen, too.
OutcomesOnly ==
    /\ \A c \in DOMAIN seen : seen[c] \in Outcome
    /\ \A k \in DOMAIN tape : tape[k] \in Outcome
    /\ file \notin {NoFile, Broken} => \A k \in DOMAIN file : file[k] \in Outcome
    /\ \A c \in DOMAIN filed : filed[c] \in Outcome

\* The calls of a run: those of its waves so far that its answers call for,
\* some of the last wave's still without an answer.  Nothing is written
\* between runs.
Progress ==
    /\ mode = "none" => ending # "saving"
    /\ mode # "none" =>
        /\ wave \in 1..script.waves
        /\ flying \subseteq InWave(wave) /\ flying \cap DOMAIN seen = {}
        /\ DOMAIN seen \cup flying = {c \in Calls : Call(c).wave <= wave /\ Made(Call(c), seen)}
        /\ ending \notin {"idle", "killed"}
        /\ ending \in {"saving", "saved"} => mode = "record"
        /\ ending \in {"finished", "saving", "saved"} =>
               /\ wave = script.waves /\ flying = {}
               /\ \A c \in DOMAIN seen : Tolerates(Call(c), seen[c])

\* A map of recorded outcomes holds the requests of a run and nothing else.
Records(map, got) ==
    /\ DOMAIN map = {RequestKey(Call(c), got) : c \in DOMAIN got}
    /\ \A k \in DOMAIN map : \E c \in DOMAIN got : RequestKey(Call(c), got) = k /\ got[c] = map[k]

Taped == mode = "record" => Records(tape, seen)

\* What is on disk came from a run that made all its calls.
FiledWhole ==
    file \notin {NoFile, Broken} =>
        DOMAIN filed = {c \in Calls : Made(Call(c), filed)}

Loaded == mode = "replay" => loaded = file /\ file \notin {NoFile, Broken}

\* A replay is where the recorded run was after as many waves.
InStep ==
    mode = "replay" /\ KeysAgree /\ NoPayloads =>
        /\ ending \notin {"not recorded", "failed"}
        /\ DOMAIN seen \cup flying = {c \in DOMAIN filed : Call(c).wave <= wave}
        /\ \A c \in DOMAIN seen : Observed(seen[c]) = Observed(filed[c])

RecInv ==
    /\ RecTypeOK /\ OutcomesOnly /\ Progress /\ Taped
    /\ RecordingIsOneRun /\ FiledWhole /\ Loaded /\ InStep

-----------------------------------------------------------------------------
(* Facts about the operators.                                              *)

LEMMA EmptyDomain == DOMAIN Empty = {}
PROOF BY DEF Empty

LEMMA SavedType == ASSUME NEW o \in Outcome PROVE Saved(o) \in Outcome
PROOF BY DEF Saved, Outcome

\* The file loses nothing a program can see of an outcome without a payload,
\* and never whether it succeeded.
LEMMA SavedLooksTheSame ==
    ASSUME NEW o \in Outcome
    PROVE  /\ Saved(o).ok = o.ok
           /\ o.ok \/ o.payload = 0 => Observed(Saved(o)) = Observed(o)
PROOF BY DEF Saved, Observed, Outcome

\* What a program observes tells it whether the call succeeded.
LEMMA ObservedOk ==
    ASSUME NEW o \in Outcome, NEW p \in Outcome, Observed(o) = Observed(p)
    PROVE  o.ok = p.ok
<1>1. Observed(o).ok = o.ok /\ Observed(p).ok = p.ok
    BY DEF Observed, Outcome
<1> QED BY <1>1

LEMMA ScriptShape ==
    ASSUME RecTypeOK
    PROVE  /\ script.waves \in Nat \ {0}
           /\ \A c \in Calls : /\ Call(c).wave \in 1..script.waves /\ Call(c).uses \in BOOLEAN
                               /\ Depends(Call(c)) =>
                                    /\ Call(c).from \in Calls
                                    /\ Call(Call(c).from).wave < Call(c).wave
                                    /\ Call(c).when = "always" => Call(Call(c).from).when = "always"
PROOF BY ScriptsAssumption DEF RecTypeOK, Calls, Call

\* A call that was sent depends only on calls that were answered.
LEMMA InputsSeen ==
    ASSUME RecTypeOK, Progress, mode # "none",
           NEW c \in DOMAIN seen \cup flying, Depends(Call(c))
    PROVE  Call(c).from \in DOMAIN seen
<1>1. c \in Calls /\ Call(c).wave <= wave /\ Made(Call(c), seen) /\ wave \in Nat
    BY DEF Progress, RecTypeOK
<1>2. CASE Call(c).when # "always"
    BY <1>1, <1>2 DEF Made
<1>3. CASE Call(c).when = "always"
    <2> DEFINE d == Call(c).from
    <2>1. /\ d \in Calls /\ Call(d).wave \in Nat /\ Call(c).wave \in Nat
          /\ Call(d).wave < Call(c).wave /\ Call(d).when = "always"
        BY <1>1, <1>3, ScriptShape
    <2>2. d \in DOMAIN seen \cup flying
        BY <1>1, <2>1 DEF Progress, Made
    <2>3. d \notin flying
        BY <1>1, <2>1 DEF Progress, InWave
    <2> QED BY <2>2, <2>3
<1> QED BY <1>2, <1>3
LEMMA InitRecInv == RecInit => RecInv
<1> SUFFICES ASSUME RecInit PROVE RecInv
    OBVIOUS
<1>1. RecTypeOK /\ OutcomesOnly /\ Progress /\ Taped /\ Loaded /\ InStep
    BY EmptyDomain DEF RecInit, RecTypeOK, OutcomesOnly, Progress, Taped, Loaded, InStep, Endings
<1>2. RecordingIsOneRun /\ FiledWhole
    BY DEF RecInit, RecordingIsOneRun, FiledWhole
<1> QED BY <1>1, <1>2 DEF RecInv

\* A step that leaves the disk alone keeps what is said of it.
LEMMA SameDisk ==
    ASSUME RecInv, UNCHANGED <<script, file, filed>>
    PROVE  RecordingIsOneRun' /\ FiledWhole'
PROOF BY DEF RecInv, RecordingIsOneRun, FiledWhole, Call, Calls, RequestKey, Tolerates, Made

-----------------------------------------------------------------------------
(* A run begins.                                                           *)

LEMMA StartStep ==
    ASSUME RecInv, NEW m \in {"off", "record", "replay"}, Start(m),
           m = "replay" => loaded' = file /\ file \notin {NoFile, Broken}
    PROVE  RecInv'
<1>1. /\ script' = script /\ file' = file /\ filed' = filed /\ mode' = m /\ wave' = 1
      /\ flying' = Launched(1, Empty) /\ seen' = Empty /\ tape' = Empty /\ ending' = "running"
      /\ Calls' = Calls /\ \A c : Call(c)' = Call(c)
    BY DEF Start, Calls, Call
<1>2. DOMAIN seen' = {} /\ DOMAIN tape' = {}
    BY <1>1, EmptyDomain
<1>3. RecTypeOK'
    BY <1>1, <1>2 DEF RecInv, RecTypeOK, Launched, InWave, Endings
<1>4. OutcomesOnly'
    BY <1>1, <1>2 DEF RecInv, OutcomesOnly
<1>5. /\ script.waves \in Nat \ {0}
      /\ \A c \in Calls : Call(c).wave \in Nat /\ (Call(c).wave <= 1 <=> Call(c).wave = 1)
    BY ScriptShape DEF RecInv
<1>6. Progress'
    BY <1>1, <1>2, <1>5 DEF Progress, Launched, InWave
<1>7. Taped' /\ Loaded'
    BY <1>1, <1>2 DEF Taped, Records, Loaded
<1>8. InStep'
    <2> SUFFICES ASSUME m = "replay" PROVE flying' = {c \in DOMAIN filed : Call(c).wave <= 1}
        BY <1>1, <1>2 DEF InStep
    <2>1. DOMAIN filed = {c \in Calls : Made(Call(c), filed)}
        BY DEF RecInv, FiledWhole
    <2>2. ASSUME NEW c \in Calls, Call(c).wave = 1
          PROVE  Made(Call(c), filed) <=> Made(Call(c), Empty)
        <3>1. Call(c).when = "always"
            BY <2>2, ScriptShape DEF RecInv, Depends
        <3> QED BY <3>1 DEF Made
    <2> QED BY <1>1, <1>5, <2>1, <2>2 DEF Launched, InWave
<1>9. RecordingIsOneRun' /\ FiledWhole'
    BY <1>1, SameDisk
<1> QED BY <1>3, <1>4, <1>6, <1>7, <1>8, <1>9 DEF RecInv

LEMMA StartLiveStep == RecInv /\ StartLive => RecInv'
PROOF BY StartStep DEF StartLive

LEMMA StartReplayStep == RecInv /\ StartReplay => RecInv'
PROOF BY StartStep DEF StartReplay

-----------------------------------------------------------------------------
(* A call is answered, by the service or by the recording.                 *)

\* The requests made so far stay what they are.
LEMMA KeysStay ==
    ASSUME RecTypeOK, Progress, mode # "none", NEW c \in flying, NEW o,
           seen' = [d \in DOMAIN seen \cup {c} |-> IF d = c THEN o ELSE seen[d]]
    PROVE  \A d \in DOMAIN seen \cup flying :
               RequestKey(Call(d), seen') = RequestKey(Call(d), seen)
<1> SUFFICES ASSUME NEW d \in DOMAIN seen \cup flying, Call(d).uses
             PROVE  seen'[Call(d).from] = seen[Call(d).from]
    BY DEF RequestKey
<1>1. Call(d).from \in DOMAIN seen
    BY InputsSeen DEF Depends
<1>2. c \notin DOMAIN seen
    BY DEF Progress
<1> QED BY <1>1, <1>2

LEMMA AnsweredStep ==
    ASSUME RecInv, mode # "none", ending = "running", NEW c \in flying, NEW o \in Outcome,
           flying' = flying \ {c},
           seen' = [d \in DOMAIN seen \cup {c} |-> IF d = c THEN o ELSE seen[d]],
           UNCHANGED <<script, mode, wave, ending>>
    PROVE  /\ RecTypeOK' /\ Progress'
           /\ \A d \in DOMAIN seen' : seen'[d] \in Outcome
<1>1. Calls' = Calls /\ \A d : Call(d)' = Call(d)
    BY DEF Calls, Call
<1>2. RecTypeOK'
    BY <1>1 DEF RecInv, RecTypeOK
<1>3. /\ wave \in 1..script.waves
      /\ flying \subseteq InWave(wave) /\ flying \cap DOMAIN seen = {}
      /\ DOMAIN seen \cup flying = {d \in Calls : Call(d).wave <= wave /\ Made(Call(d), seen)}
    BY DEF RecInv, Progress
<1>4. ASSUME NEW d \in Calls, Call(d).wave <= wave
      PROVE  Made(Call(d), seen') <=> Made(Call(d), seen)
    <2>1. CASE Call(d).when = "always"
        BY <2>1 DEF Made
    <2>2. CASE Call(d).when # "always"
        <3>1. /\ Call(d).from \in Calls /\ Call(Call(d).from).wave < Call(d).wave
              /\ Call(Call(d).from).wave \in Nat /\ Call(d).wave \in Nat /\ wave \in Nat
            BY <2>2, ScriptShape DEF RecInv, Depends, RecTypeOK
        <3>2. Call(d).from # c
            BY <1>3, <1>4, <3>1 DEF InWave
        <3> QED BY <3>2 DEF Made
    <2> QED BY <2>1, <2>2
<1>5. DOMAIN seen' \cup flying' = {d \in Calls : Call(d).wave <= wave /\ Made(Call(d), seen')}
    BY <1>3, <1>4
<1>6. Progress'
    BY <1>1, <1>3, <1>5 DEF Progress, InWave
<1>7. \A d \in DOMAIN seen' : seen'[d] \in Outcome
    BY DEF RecInv, OutcomesOnly
<1> QED BY <1>2, <1>6, <1>7

\* An answer recorded under its key leaves the other requests' answers alone.
LEMMA StoreStep ==
    ASSUME RecInv, mode = "record", NEW c \in flying, NEW o \in Outcome,
           seen' = [d \in DOMAIN seen \cup {c} |-> IF d = c THEN o ELSE seen[d]],
           tape' = Store(tape, RequestKey(Call(c), seen), o),
           UNCHANGED script
    PROVE  Records(tape', seen')
<1> DEFINE key == RequestKey(Call(c), seen)
<1>1. \A d \in DOMAIN seen \cup {c} : RequestKey(Call(d), seen') = RequestKey(Call(d), seen)
    BY KeysStay DEF RecInv
<1>2. Records(tape, seen) /\ c \notin DOMAIN seen
    BY DEF RecInv, Taped, Progress
<1>3. DOMAIN tape' = DOMAIN tape \cup {key} /\ DOMAIN seen' = DOMAIN seen \cup {c}
    BY DEF Store
<1>4. DOMAIN tape' = {RequestKey(Call(d), seen') : d \in DOMAIN seen'}
    BY <1>1, <1>2, <1>3 DEF Records
<1>5. ASSUME NEW k \in DOMAIN tape'
      PROVE  \E d \in DOMAIN seen' : RequestKey(Call(d), seen') = k /\ seen'[d] = tape'[k]
    <2>1. CASE k = key
        BY <1>1, <1>3, <2>1 DEF Store
    <2>2. CASE k # key
        <3>1. PICK d \in DOMAIN seen : RequestKey(Call(d), seen) = k /\ seen[d] = tape[k]
            BY <1>2, <1>3, <2>2 DEF Records
        <3> QED BY <1>1, <1>2, <1>3, <2>2, <3>1 DEF Store
    <2> QED BY <2>1, <2>2
<1> QED BY <1>4, <1>5 DEF Records

LEMMA AnswerStep == \A c \in flying, o \in Outcomes : RecInv /\ Answer(c, o) => RecInv'
<1> SUFFICES ASSUME NEW c \in flying, NEW o \in Outcomes, RecInv, Answer(c, o) PROVE RecInv'
    OBVIOUS
<1>1. o \in Outcome /\ mode \in {"off", "record"} /\ mode' = mode /\ ending' = ending
    BY OutcomesAssumption DEF Answer
<1>2. RecTypeOK' /\ Progress' /\ \A d \in DOMAIN seen' : seen'[d] \in Outcome
    BY <1>1, AnsweredStep DEF Answer
<1>3. OutcomesOnly'
    <2>1. \A k \in DOMAIN tape' : tape'[k] \in Outcome
        BY <1>1 DEF Answer, Store, RecInv, OutcomesOnly
    <2> QED BY <1>2, <2>1 DEF Answer, RecInv, OutcomesOnly
<1>4. Taped'
    <2> SUFFICES ASSUME mode = "record" PROVE Records(tape, seen)'
        BY <1>1 DEF Taped
    <2>1. Records(tape', seen')
        BY <1>1, StoreStep DEF Answer
    <2>2. \A d : Call(d)' = Call(d)
        BY DEF Answer, Call
    <2> QED BY <2>1, <2>2 DEF Records, RequestKey
<1>5. Loaded' /\ InStep'
    BY <1>1 DEF Loaded, InStep
<1>6. RecordingIsOneRun' /\ FiledWhole'
    BY SameDisk DEF Answer
<1> QED BY <1>2, <1>3, <1>4, <1>5, <1>6 DEF RecInv
\* In a replay of a run whose answers the file could keep, what is served is
\* what the recorded run saw.
LEMMA ServedAsRecorded ==
    ASSUME RecInv, mode = "replay", KeysAgree, NoPayloads, NEW c \in flying
    PROVE  /\ c \in DOMAIN filed
           /\ RequestKey(Call(c), seen) \in DOMAIN loaded
           /\ Observed(loaded[RequestKey(Call(c), seen)]) = Observed(filed[c])
<1> DEFINE key == RequestKey(Call(c), seen)
<1>1. /\ loaded = file /\ file \notin {NoFile, Broken}
      /\ \A d \in DOMAIN filed : filed[d] \in Outcome
    BY DEF RecInv, Loaded, OutcomesOnly
<1>2. /\ c \in DOMAIN filed
      /\ \A d \in DOMAIN seen : Observed(seen[d]) = Observed(filed[d])
    BY DEF RecInv, InStep
<1>3. key = RequestKey(Call(c), filed)
    <2> SUFFICES ASSUME Call(c).uses
                 PROVE  Observed(seen[Call(c).from]) = Observed(filed[Call(c).from])
        BY DEF RequestKey
    <2>1. Call(c).from \in DOMAIN seen
        BY InputsSeen DEF RecInv, Depends
    <2> QED BY <1>2, <2>1
<1>4. key \in DOMAIN file
    BY <1>1, <1>2, <1>3 DEF RecInv, RecordingIsOneRun
<1>5. PICK d \in DOMAIN filed : RequestKey(Call(d), filed) = key /\ Saved(filed[d]) = file[key]
    BY <1>1, <1>4 DEF RecInv, RecordingIsOneRun
<1>6. SameRequest(c, d, filed)
    <2>1. Call(c).uses \in BOOLEAN /\ Call(d).uses \in BOOLEAN
        BY <1>2, <1>5, ScriptShape DEF RecInv, FiledWhole, Loaded
    <2>2. \A v : <<v>> # <<>>
        OBVIOUS
    <2> QED BY <1>3, <1>5, <2>1, <2>2 DEF SameRequest, RequestKey
<1>7. filed[c] = filed[d]
    BY <1>2, <1>6 DEF KeysAgree
<1>8. Observed(Saved(filed[c])) = Observed(filed[c])
    BY <1>1, <1>2, SavedLooksTheSame DEF NoPayloads
<1> QED BY <1>1, <1>2, <1>4, <1>5, <1>7, <1>8

LEMMA ServeStep == \A c \in flying : RecInv /\ Serve(c) => RecInv'
<1> SUFFICES ASSUME NEW c \in flying, RecInv, Serve(c) PROVE RecInv'
    OBVIOUS
<1> DEFINE key == RequestKey(Call(c), seen)
<1>1. /\ mode = "replay" /\ ending = "running"
      /\ UNCHANGED <<script, mode, wave, tape, loaded, file, runs, filed>>
      /\ Calls' = Calls /\ \A d : Call(d)' = Call(d)
    BY DEF Serve, Calls, Call
<1>2. RecordingIsOneRun' /\ FiledWhole' /\ Taped' /\ Loaded'
    BY <1>1, SameDisk DEF Taped, Loaded, RecInv
<1>3. (KeysAgree /\ NoPayloads)' = (KeysAgree /\ NoPayloads)
    BY <1>1 DEF KeysAgree, NoPayloads, SameRequest
<1>4. CASE key \in DOMAIN loaded
    <2>1. /\ flying' = flying \ {c} /\ ending' = ending
          /\ seen' = [d \in DOMAIN seen \cup {c} |-> IF d = c THEN loaded[key] ELSE seen[d]]
        BY <1>4 DEF Serve
    <2>2. loaded[key] \in Outcome
        BY <1>1, <1>4 DEF RecInv, Loaded, OutcomesOnly
    <2>3. RecTypeOK' /\ Progress' /\ \A d \in DOMAIN seen' : seen'[d] \in Outcome
        BY <1>1, <2>1, <2>2, AnsweredStep
    <2>4. OutcomesOnly'
        BY <1>1, <2>3 DEF RecInv, OutcomesOnly
    <2>5. InStep'
        <3> SUFFICES ASSUME KeysAgree, NoPayloads
                     PROVE  /\ DOMAIN seen' \cup flying' = {d \in DOMAIN filed : Call(d).wave <= wave}
                            /\ \A d \in DOMAIN seen' : Observed(seen'[d]) = Observed(filed[d])
            BY <1>1, <1>3, <2>1 DEF InStep
        <3>1. DOMAIN seen' \cup flying' = DOMAIN seen \cup flying
            BY <2>1
        <3>2. Observed(loaded[key]) = Observed(filed[c])
            BY <1>1, ServedAsRecorded
        <3> QED BY <1>1, <2>1, <3>1, <3>2 DEF RecInv, InStep
    <2> QED BY <1>2, <2>3, <2>4, <2>5 DEF RecInv
<1>5. CASE key \notin DOMAIN loaded
    <2>1. ending' = "not recorded" /\ UNCHANGED <<seen, flying>>
        BY <1>5 DEF Serve
    <2>2. RecTypeOK' /\ OutcomesOnly' /\ Progress'
        BY <1>1, <2>1 DEF RecInv, RecTypeOK, OutcomesOnly, Progress, Endings, InWave
    <2>3. InStep'
        BY <1>1, <1>3, <1>5, ServedAsRecorded DEF InStep
    <2> QED BY <1>2, <2>2, <2>3 DEF RecInv
<1> QED BY <1>4, <1>5

-----------------------------------------------------------------------------
(* A wave is joined.                                                       *)

\* Whether a call of the next wave is made is settled by the calls before it.
LEMMA NextWaveInStep ==
    ASSUME RecInv, mode = "replay", KeysAgree, NoPayloads, flying = {}
    PROVE  Launched(wave + 1, seen) = {c \in DOMAIN filed : Call(c).wave = wave + 1}
<1>1. /\ file \notin {NoFile, Broken} /\ wave \in Nat
      /\ DOMAIN filed = {c \in Calls : Made(Call(c), filed)}
      /\ DOMAIN seen = {c \in DOMAIN filed : Call(c).wave <= wave}
      /\ \A c \in DOMAIN seen : Observed(seen[c]) = Observed(filed[c])
      /\ \A c \in DOMAIN seen : seen[c] \in Outcome
      /\ \A c \in DOMAIN filed : filed[c] \in Outcome
    BY DEF RecInv, InStep, FiledWhole, Loaded, OutcomesOnly, RecTypeOK
<1>2. ASSUME NEW c \in Calls, Call(c).wave = wave + 1
      PROVE  Made(Call(c), seen) <=> Made(Call(c), filed)
    <2>1. CASE Call(c).when = "always"
        BY <2>1 DEF Made
    <2>2. CASE Call(c).when # "always"
        <3> DEFINE d == Call(c).from
        <3>1. d \in Calls /\ Call(d).wave < Call(c).wave /\ Call(d).wave \in Nat
            BY <2>2, ScriptShape DEF RecInv, Depends
        <3>2. Call(d).wave <= wave
            BY <1>1, <1>2, <3>1
        <3>3. d \in DOMAIN seen <=> d \in DOMAIN filed
            BY <1>1, <3>2
        <3>4. d \in DOMAIN seen => seen[d].ok = filed[d].ok
            BY <1>1, <3>3, ObservedOk
        <3> QED BY <2>2, <3>3, <3>4 DEF Made
    <2> QED BY <2>1, <2>2
<1> QED BY <1>1, <1>2 DEF Launched, InWave

LEMMA NextWaveStep == RecInv /\ NextWave => RecInv'
<1> SUFFICES ASSUME RecInv, NextWave PROVE RecInv'
    OBVIOUS
<1>1. /\ mode # "none" /\ ending = "running" /\ flying = {}
      /\ UNCHANGED <<script, mode, seen, tape, loaded, file, runs, filed>>
      /\ Calls' = Calls /\ \A c : Call(c)' = Call(c)
    BY DEF NextWave, Joined, Calls, Call
<1>2. RecordingIsOneRun' /\ FiledWhole' /\ Taped' /\ Loaded' /\ OutcomesOnly'
    BY <1>1, SameDisk DEF Taped, Loaded, OutcomesOnly, Records, RequestKey, RecInv
<1>3. (KeysAgree /\ NoPayloads)' = (KeysAgree /\ NoPayloads)
    BY <1>1 DEF KeysAgree, NoPayloads, SameRequest
<1>4. /\ wave \in Nat /\ wave \in 1..script.waves /\ script.waves \in Nat
      /\ DOMAIN seen = {c \in Calls : Call(c).wave <= wave /\ Made(Call(c), seen)}
      /\ \A c \in Calls : Call(c).wave \in Nat
    BY <1>1, ScriptShape DEF RecInv, Progress, RecTypeOK
<1>5. CASE \E c \in DOMAIN seen : ~Tolerates(Call(c), seen[c])
    <2>1. ending' = "failed" /\ UNCHANGED <<wave, flying>>
        BY <1>5 DEF NextWave
    <2>2. RecTypeOK' /\ Progress'
        BY <1>1, <2>1 DEF RecInv, RecTypeOK, Progress, Endings, InWave
    <2>3. ASSUME mode = "replay", KeysAgree, NoPayloads PROVE FALSE
        <3>1. PICK c \in DOMAIN seen : ~Tolerates(Call(c), seen[c])
            BY <1>5
        <3>2. c \in DOMAIN filed /\ Observed(seen[c]) = Observed(filed[c])
            BY <1>1, <2>3, <3>1 DEF RecInv, InStep
        <3>3. seen[c].ok = filed[c].ok
            BY <3>1, <3>2, ObservedOk DEF RecInv, OutcomesOnly
        <3>4. Tolerates(Call(c), filed[c])
            BY <2>3, <3>2 DEF RecInv, Loaded, RecordingIsOneRun
        <3> QED BY <3>1, <3>3, <3>4 DEF Tolerates
    <2>4. InStep'
        BY <1>1, <1>3, <2>3 DEF InStep
    <2> QED BY <1>2, <2>2, <2>4 DEF RecInv
<1>6. CASE ~(\E c \in DOMAIN seen : ~Tolerates(Call(c), seen[c])) /\ wave = script.waves
    <2>1. ending' = "finished" /\ UNCHANGED <<wave, flying>>
        BY <1>6 DEF NextWave
    <2>2. RecTypeOK' /\ Progress'
        BY <1>1, <1>6, <2>1 DEF RecInv, RecTypeOK, Progress, Endings, InWave
    <2>3. InStep'
        BY <1>1, <1>3, <2>1 DEF RecInv, InStep
    <2> QED BY <1>2, <2>2, <2>3 DEF RecInv
<1>7. CASE ~(\E c \in DOMAIN seen : ~Tolerates(Call(c), seen[c])) /\ wave # script.waves
    <2>1. wave' = wave + 1 /\ flying' = Launched(wave + 1, seen) /\ ending' = ending
        BY <1>7 DEF NextWave
    <2>2. RecTypeOK'
        BY <1>1, <1>4, <2>1 DEF RecInv, RecTypeOK, Launched, InWave
    <2>3. /\ flying' \subseteq {c \in Calls : Call(c).wave = wave + 1}
          /\ flying' \cap DOMAIN seen = {}
        BY <1>4, <2>1 DEF Launched, InWave
    <2>4. \A c \in Calls : Call(c).wave <= wave + 1 <=> Call(c).wave <= wave \/ Call(c).wave = wave + 1
        BY <1>4
    <2>5. DOMAIN seen \cup flying' = {c \in Calls : Call(c).wave <= wave + 1 /\ Made(Call(c), seen)}
        BY <1>4, <2>1, <2>4 DEF Launched, InWave
    <2>6. Progress'
        BY <1>1, <1>4, <1>7, <2>1, <2>3, <2>5 DEF Progress, InWave
    <2>7. InStep'
        <3> SUFFICES ASSUME mode = "replay", KeysAgree, NoPayloads
                     PROVE  DOMAIN seen \cup flying' = {c \in DOMAIN filed : Call(c).wave <= wave + 1}
            BY <1>1, <1>3, <2>1 DEF RecInv, InStep
        <3>1. DOMAIN seen = {c \in DOMAIN filed : Call(c).wave <= wave}
            BY <1>1 DEF RecInv, InStep
        <3>2. DOMAIN filed \subseteq Calls
            BY DEF RecInv, FiledWhole, Loaded
        <3> QED BY <1>1, <2>1, <2>4, <3>1, <3>2, NextWaveInStep
    <2> QED BY <1>2, <2>2, <2>6, <2>7 DEF RecInv
<1> QED BY <1>5, <1>6, <1>7

-----------------------------------------------------------------------------
(* The end of a run.                                                       *)

LEMMA BeginSaveStep == RecInv /\ BeginSave => RecInv'
<1> SUFFICES ASSUME RecInv, BeginSave PROVE RecInv'
    OBVIOUS
<1>1. /\ mode = "record" /\ ending = "finished" /\ file' = Broken /\ ending' = "saving"
      /\ UNCHANGED <<script, mode, wave, flying, seen, tape, loaded, runs, filed>>
      /\ Calls' = Calls /\ \A c : Call(c)' = Call(c)
    BY DEF BeginSave, MaySave, Calls, Call
<1>2. RecTypeOK' /\ OutcomesOnly' /\ Progress'
    BY <1>1 DEF RecInv, RecTypeOK, OutcomesOnly, Progress, Endings, InWave
<1>3. Taped' /\ RecordingIsOneRun' /\ FiledWhole' /\ Loaded' /\ InStep'
    BY <1>1 DEF RecInv, Taped, Records, RequestKey, RecordingIsOneRun, FiledWhole, Loaded, InStep
<1> QED BY <1>2, <1>3 DEF RecInv

LEMMA EndSaveStep == RecInv /\ EndSave => RecInv'
<1> SUFFICES ASSUME RecInv, EndSave PROVE RecInv'
    OBVIOUS
<1>1. /\ ending = "saving" /\ ending' = "saved" /\ filed' = seen
      /\ file' = [k \in DOMAIN tape |-> Saved(tape[k])]
      /\ UNCHANGED <<script, mode, wave, flying, seen, tape, loaded, runs>>
      /\ Calls' = Calls /\ \A c : Call(c)' = Call(c)
    BY DEF EndSave, Calls, Call
<1>2. mode # "none"
    BY <1>1 DEF RecInv, Progress
<1>3. QED
    <2>1. /\ mode = "record" /\ Records(tape, seen) /\ flying = {} /\ wave = script.waves
          /\ \A c \in DOMAIN seen : Tolerates(Call(c), seen[c])
          /\ DOMAIN seen = {c \in Calls : Call(c).wave <= wave /\ Made(Call(c), seen)}
        BY <1>1, <1>2 DEF RecInv, Progress, Taped
    <2>2. RecTypeOK' /\ Progress'
        BY <1>1, <2>1 DEF RecInv, RecTypeOK, Progress, Endings, InWave
    <2>3. OutcomesOnly'
        BY <1>1, SavedType DEF RecInv, OutcomesOnly
    <2>4. Taped' /\ Loaded' /\ InStep'
        BY <1>1, <2>1 DEF RecInv, Taped, Records, RequestKey, Loaded, InStep
    <2>5. RecordingIsOneRun'
        <3>1. DOMAIN file' = {RequestKey(Call(c), seen) : c \in DOMAIN seen}
            BY <1>1, <2>1 DEF Records
        <3>2. ASSUME NEW k \in DOMAIN file'
              PROVE  \E c \in DOMAIN seen : RequestKey(Call(c), seen) = k /\ Saved(seen[c]) = file'[k]
            BY <1>1, <2>1, <3>2 DEF Records
        <3> QED BY <1>1, <2>1, <3>1, <3>2 DEF RecordingIsOneRun
    <2>6. FiledWhole'
        <3>1. \A c \in Calls : Call(c).wave <= wave
            BY <2>1, ScriptShape DEF RecInv
        <3> QED BY <1>1, <2>1, <3>1 DEF FiledWhole
    <2> QED BY <2>2, <2>3, <2>4, <2>5, <2>6 DEF RecInv

LEMMA ExitStep == RecInv /\ Exit => RecInv'
<1> SUFFICES ASSUME RecInv, Exit PROVE RecInv'
    OBVIOUS
<1>1. /\ mode' = "none" /\ ending # "saving"
      /\ UNCHANGED <<script, wave, flying, seen, tape, loaded, file, ending, runs, filed>>
    BY DEF Exit, Over
<1>2. RecTypeOK' /\ OutcomesOnly' /\ Progress' /\ Taped' /\ Loaded' /\ InStep'
    BY <1>1 DEF RecInv, RecTypeOK, OutcomesOnly, Progress, Taped, Loaded, InStep, Calls
<1> QED BY <1>1, <1>2, SameDisk DEF RecInv

LEMMA KillStep == RecInv /\ Kill => RecInv'
<1> SUFFICES ASSUME RecInv, Kill PROVE RecInv'
    OBVIOUS
<1>1. /\ mode' = "none" /\ ending' = "killed" /\ flying' = {}
      /\ UNCHANGED <<script, wave, seen, tape, loaded, file, runs, filed>>
    BY DEF Kill
<1>2. RecTypeOK' /\ OutcomesOnly' /\ Progress' /\ Taped' /\ Loaded' /\ InStep'
    BY <1>1 DEF RecInv, RecTypeOK, OutcomesOnly, Progress, Taped, Loaded, InStep, Calls, Endings
<1> QED BY <1>1, <1>2, SameDisk DEF RecInv

LEMMA StutterRec == RecInv /\ UNCHANGED recVars => RecInv'
<1> SUFFICES ASSUME RecInv, UNCHANGED recVars PROVE RecInv'
    OBVIOUS
<1>1. /\ UNCHANGED <<script, mode, wave, flying, seen, tape, loaded, file, ending, runs, filed>>
      /\ Calls' = Calls /\ \A c : Call(c)' = Call(c)
    BY DEF recVars, Calls, Call
<1>2. RecTypeOK' /\ OutcomesOnly' /\ Progress' /\ Taped' /\ Loaded'
    BY <1>1 DEF RecInv, RecTypeOK, OutcomesOnly, Progress, Taped, Records, RequestKey, Loaded,
                InWave
<1>3. InStep'
    BY <1>1 DEF RecInv, InStep, KeysAgree, NoPayloads, SameRequest
<1> QED BY <1>1, <1>2, <1>3, SameDisk DEF RecInv

LEMMA NextRecInv == RecInv /\ [RecNext]_recVars => RecInv'
PROOF BY StartLiveStep, StartReplayStep, AnswerStep, ServeStep, NextWaveStep, BeginSaveStep,
         EndSaveStep, ExitStep, KillStep, StutterRec DEF RecNext

LEMMA AlwaysRecInv == RecSpec => []RecInv
PROOF BY InitRecInv, NextRecInv, PTL DEF RecSpec

-----------------------------------------------------------------------------
\* The recording on disk is always the whole of one run that succeeded, however
\* many runs failed or were killed around it.
THEOREM RecordingsAreWhole == RecSpec => []RecordingIsOneRun
<1>1. RecInv => RecordingIsOneRun
    BY DEF RecInv
<1> QED BY AlwaysRecInv, <1>1, PTL

\* A replay shows the program what the recorded run saw, for every program and
\* whatever order the answers came in.
THEOREM ReplaysAreFaithful == RecSpec => []ReplayRepeats
<1>1. RecInv => ReplayRepeats
    <2> SUFFICES ASSUME RecInv, mode = "replay", KeysAgree, NoPayloads
                 PROVE  /\ ending \notin {"not recorded", "failed"}
                        /\ \A c \in DOMAIN seen :
                               c \in DOMAIN filed /\ Observed(seen[c]) = Observed(filed[c])
                        /\ ending = "finished" => DOMAIN seen = DOMAIN filed
        BY DEF ReplayRepeats
    <2>1. /\ ending \notin {"not recorded", "failed"}
          /\ DOMAIN seen \cup flying = {c \in DOMAIN filed : Call(c).wave <= wave}
          /\ \A c \in DOMAIN seen : Observed(seen[c]) = Observed(filed[c])
        BY DEF RecInv, InStep
    <2>2. ASSUME ending = "finished" PROVE DOMAIN seen = DOMAIN filed
        <3>1. wave = script.waves /\ flying = {}
            BY <2>2 DEF RecInv, Progress
        <3>2. \A c \in DOMAIN filed : Call(c).wave <= wave
            BY <3>1, ScriptShape DEF RecInv, FiledWhole, Loaded
        <3> QED BY <2>1, <3>1, <3>2
    <2> QED BY <2>1, <2>2
<1> QED BY AlwaysRecInv, <1>1, PTL
=============================================================================
