----------------------------- MODULE Recording ------------------------------
(***************************************************************************)
(* Record and replay (record.rs, do_fetch, `hale run` and `hale replay`):  *)
(* a session of runs of one program that may be killed at any time, with   *)
(* the recording file as the only thing that outlives a run.               *)
(*                                                                         *)
(* A program is a sequence of calls, each with the wave it belongs to.     *)
(* What a call asks for may depend on what an earlier one gave (`from`),   *)
(* and so may whether it is made at all (`when`: a match arm, or the       *)
(* refetch of a retry).                                                    *)
(* The service answers each request with any outcome it likes.             *)
(***************************************************************************)
EXTENDS Integers, Sequences, FiniteSets

CONSTANTS
    Scripts,  \* the programs: [calls, waves]
    Outcomes, \* what the service may answer
    MaxRuns,  \* bound: runs of one session
    NoFile,   \* there is no recording
    Broken    \* a recording cut off while it was written

\* A call that depends on another one comes in a later wave, and one that
\* always needs a value needs it from a call that is always made.
Depends(call) == call.uses \/ call.when # "always"
ASSUME ScriptsAssumption ==
    \A s \in Scripts :
        /\ s.waves \in Nat \ {0}
        /\ \A c \in DOMAIN s.calls :
               /\ s.calls[c].wave \in 1..s.waves /\ s.calls[c].uses \in BOOLEAN
               /\ Depends(s.calls[c]) =>
                      /\ s.calls[c].from \in DOMAIN s.calls
                      /\ s.calls[s.calls[c].from].wave < s.calls[c].wave
                      /\ s.calls[c].when = "always" => s.calls[s.calls[c].from].when = "always"

\* A value, or an error's variant, status and payload (0 for none).
Outcome == [ok : BOOLEAN, value : Nat, variant : STRING, status : Nat, payload : Nat]
ASSUME OutcomesAssumption == Outcomes \subseteq Outcome

VARIABLES
    script,   \* the program of the session
    mode,     \* RecordMode, or "none" between runs
    wave,     \* the wave that runs, counted from 1
    flying,   \* calls of that wave sent and not answered yet
    seen,     \* what each call of the run has given, by position
    tape,     \* RecordMode::Record: request key -> last outcome
    loaded,   \* RecordMode::Replay: the recording this run was started with
    file,     \* the recording on disk, NoFile, or Broken
    ending,   \* how the run ended, "running" while it does
    runs,     \* how many were started
    filed     \* ghost: `seen` of the run the recording on disk came from

recVars == <<script, mode, wave, flying, seen, tape, loaded, file, ending, runs, filed>>

Empty  == [k \in {} |-> k]

Calls     == DOMAIN script.calls
Call(c)   == script.calls[c]
InWave(w) == {c \in Calls : Call(c).wave = w}

-----------------------------------------------------------------------------
\* What a program can tell of an outcome: the value, or the variant and what
\* its pattern binds, which is the payload if there is one and else the status.
Observed(o) == IF o.ok THEN [ok |-> TRUE, value |-> o.value]
               ELSE [ok |-> FALSE, variant |-> o.variant,
                     arg |-> IF o.payload = 0 THEN o.status ELSE o.payload]

\* Whether an earlier call's outcome has this call made.
Made(call, got) ==
    \/ call.when = "always"
    \/ call.from \in DOMAIN got /\ (got[call.from].ok <=> call.when = "ok")

\* request_key: method, path and sorted query, not the body.
Bug_KeyWithoutPath(call, got) == <<call.method, 0>>
RequestKey(call, got) ==
    <<call.method, call.path,
      IF call.uses THEN <<Observed(got[call.from])>> ELSE <<>>>>

\* outcome_to_json and back: an error keeps its variant and status.
Saved(o) == IF o.ok THEN o ELSE [o EXCEPT !.payload = 0]

Store(map, key, o) == [k \in DOMAIN map \cup {key} |-> IF k = key THEN o ELSE map[k]]

\* A plain binding has no value for a failure: the run ends.
Tolerates(call, o) == o.ok \/ call.result

-----------------------------------------------------------------------------
RecInit ==
    /\ script \in Scripts
    /\ mode = "none" /\ wave = 0 /\ flying = {} /\ seen = Empty
    /\ tape = Empty /\ loaded = Empty /\ file = NoFile
    /\ ending = "idle" /\ runs = 0 /\ filed = Empty

\* The calls of wave w, sent together against what is known by then.
Launched(w, got) == {c \in InWave(w) : Made(Call(c), got)}

Start(m) ==
    /\ mode = "none" /\ runs < MaxRuns
    /\ mode' = m /\ runs' = runs + 1 /\ ending' = "running"
    /\ wave' = 1 /\ flying' = Launched(1, Empty) /\ seen' = Empty /\ tape' = Empty
    /\ UNCHANGED <<script, file, filed>>

\* hale run, with or without --record
StartLive == (Start("off") \/ Start("record")) /\ UNCHANGED loaded

\* hale replay: a missing or unreadable recording ends the command.
StartReplay ==
    /\ file \notin {NoFile, Broken}
    /\ loaded' = file
    /\ Start("replay")

\* do_fetch outside replay: the engine's answer, stored when recording.
Answer(c, o) ==
    /\ mode \in {"off", "record"} /\ ending = "running" /\ c \in flying
    /\ flying' = flying \ {c}
    /\ seen' = [d \in DOMAIN seen \cup {c} |-> IF d = c THEN o ELSE seen[d]]
    /\ tape' = IF mode = "record" THEN Store(tape, RequestKey(Call(c), seen), o) ELSE tape
    /\ UNCHANGED <<script, mode, wave, loaded, file, ending, runs, filed>>

\* do_fetch in replay: what was recorded, never the network.
Serve(c) ==
    /\ mode = "replay" /\ ending = "running" /\ c \in flying
    /\ LET key == RequestKey(Call(c), seen)
       IN  IF key \in DOMAIN loaded
           THEN /\ seen' = [d \in DOMAIN seen \cup {c} |->
                               IF d = c THEN loaded[key] ELSE seen[d]]
                /\ flying' = flying \ {c}
                /\ UNCHANGED ending
           ELSE ending' = "not recorded" /\ UNCHANGED <<seen, flying>>
    /\ UNCHANGED <<script, mode, wave, tape, loaded, file, runs, filed>>

\* The wave is joined: an error of a plain binding ends the run, else the
\* next wave starts.
Joined == mode # "none" /\ ending = "running" /\ flying = {}
NextWave ==
    /\ Joined
    /\ IF \E c \in DOMAIN seen : ~Tolerates(Call(c), seen[c])
       THEN ending' = "failed" /\ UNCHANGED <<wave, flying>>
       ELSE IF wave = script.waves THEN ending' = "finished" /\ UNCHANGED <<wave, flying>>
       ELSE /\ wave' = wave + 1
            /\ flying' = Launched(wave + 1, seen)
            /\ UNCHANGED ending
    /\ UNCHANGED <<script, mode, seen, tape, loaded, file, runs, filed>>

\* cmd_run: only a run that finished writes its recording; the write is not
\* atomic.
Bug_SaveFailuresToo == mode = "record" /\ ending \in {"finished", "failed"}
MaySave == mode = "record" /\ ending = "finished"
BeginSave ==
    /\ MaySave
    /\ file' = Broken /\ ending' = "saving"
    /\ UNCHANGED <<script, mode, wave, flying, seen, tape, loaded, runs, filed>>
EndSave ==
    /\ ending = "saving"
    /\ file' = [k \in DOMAIN tape |-> Saved(tape[k])]
    /\ filed' = seen
    /\ ending' = "saved"
    /\ UNCHANGED <<script, mode, wave, flying, seen, tape, loaded, runs>>

\* The command exits.
Bug_MissingHangs == ending \in {"failed", "saved"} \/ (ending = "finished" /\ mode # "record")
Over == \/ ending \in {"failed", "not recorded", "saved"}
        \/ (ending = "finished" /\ mode # "record")
Exit ==
    /\ mode # "none" /\ Over
    /\ mode' = "none"
    /\ UNCHANGED <<script, wave, flying, seen, tape, loaded, file, ending, runs, filed>>

\* The process is killed at any point of a run.
Kill ==
    /\ mode # "none" /\ ending \in {"running", "saving"}
    /\ mode' = "none" /\ ending' = "killed" /\ flying' = {}
    /\ UNCHANGED <<script, wave, seen, tape, loaded, file, runs, filed>>

RecNext ==
    \/ StartLive \/ StartReplay
    \/ \E c \in flying : Serve(c) \/ \E o \in Outcomes : Answer(c, o)
    \/ NextWave \/ BeginSave \/ EndSave \/ Exit \/ Kill

\* A started run goes on: calls are answered, waves joined, files written.
RecSpec ==
    /\ RecInit /\ [][RecNext]_recVars
    /\ WF_recVars(\E c \in flying : Serve(c) \/ \E o \in Outcomes : Answer(c, o))
    /\ WF_recVars(NextWave \/ BeginSave \/ EndSave \/ Exit)

-----------------------------------------------------------------------------
(***************************************************************************)
(* Properties.                                                             *)
(***************************************************************************)
\* Calls of the recorded run with the same method, path and inputs saw the
\* same outcome; without it the last one stands for all.
SameRequest(c, d, got) ==
    /\ Call(c).method = Call(d).method /\ Call(c).path = Call(d).path
    /\ Call(c).uses = Call(d).uses
    /\ Call(c).uses => Observed(got[Call(c).from]) = Observed(got[Call(d).from])
KeysAgree ==
    \A c, d \in DOMAIN filed : SameRequest(c, d, filed) => filed[c] = filed[d]
\* No outcome carried a payload, which the file does not keep.
NoPayloads == \A c \in DOMAIN filed : filed[c].ok \/ filed[c].payload = 0

Observations(got) == [c \in DOMAIN got |-> Observed(got[c])]

\* A replay shows the program exactly what the recorded run saw: the same
\* calls are made, every one of them is found, and each gives what it gave
\* then, whatever order the recorded answers came in.
ReplayRepeats ==
    mode = "replay" /\ KeysAgree /\ NoPayloads =>
        /\ ending \notin {"not recorded", "failed"}
        /\ \A c \in DOMAIN seen : c \in DOMAIN filed /\ Observed(seen[c]) = Observed(filed[c])
        /\ ending = "finished" => DOMAIN seen = DOMAIN filed

\* What is on disk is the record of one run that succeeded: every request of
\* that run is in it and nothing else, however many runs failed or were
\* killed before and after.
RecordingIsOneRun ==
    file \notin {NoFile, Broken} =>
        /\ DOMAIN file = {RequestKey(Call(c), filed) : c \in DOMAIN filed}
        /\ \A k \in DOMAIN file : \E c \in DOMAIN filed :
               RequestKey(Call(c), filed) = k /\ Saved(filed[c]) = file[k]
        /\ \A c \in DOMAIN filed : Tolerates(Call(c), filed[c])

\* Every command ends, whatever the service answers.
CommandsEnd == [](mode # "none" => <>(mode = "none"))
=============================================================================
