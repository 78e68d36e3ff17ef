------------------------------- MODULE Checked -------------------------------
(***************************************************************************)
(* A program is checked, declaration by declaration and body by body, and  *)
(* one that is accepted then runs against a service that answers as it     *)
(* likes.  What the checker promises is about that run: nothing leaves     *)
(* above a sink's clearance, and no failure goes unnoticed.                *)
(*                                                                         *)
(* A labelled value keeps its label wherever it goes, and beside it the    *)
(* ways in which the checker lost sight of it on the way there:            *)
(*   "inside"     a record, list or optional, in a string, a record        *)
(*                literal, an operand, a later element, or an arm's value  *)
(*   "derived"    a variable of a value that was computed, not named       *)
(*   "result"     a Result that is sent whole                              *)
(*   "pattern"    a pattern's variable, under neither Ok nor no constructor *)
(*   "item"       the loop variable over what is no list                   *)
(*   "escaped"    a variable used after the loop or arm that bound it      *)
(*   "block"      returned from a block inside an expression               *)
(*   "answer"     a route's last value, where it has no `return`           *)
(*   "key"        an idempotency key                                       *)
(*   "relabelled" a binding, and "argument" a flow's parameter, whose      *)
(*                declared type is not that of the value                   *)
(*                                                                         *)
(* A program is [types, endpoints, clearance, units]: the declarations in  *)
(* the order they are written, and the bodies, the main one first.         *)
(* Bodies run in statement order; the schedule is Executor's subject, and  *)
(* how far a `return` reaches Interpreter's.                               *)
(***************************************************************************)
EXTENDS Checker

CONSTANTS
  Programs,
  ErrorNames,  \* the variants a failure may have, whatever a type lists
  MaxAttempts, \* MAX_RETRIES of run_match
  Depth        \* bound: how deep the values of a recursive type go

VARIABLES
  program,  \* the program being checked
  ck,       \* the Checker struct
  declared, \* declarations done
  checked,  \* bodies done
  phase,    \* "declare", "check", then "refused", or "accepted" and "ran"
  entry,    \* the body that was run
  run       \* how the run went

vars == <<program, ck, declared, checked, phase, entry, run>>

-----------------------------------------------------------------------------
(* Values.  A scalar is the set of its marks: the labels it carries, each   *)
(* with the ways it was lost.  `whole` ones have an optional type.         *)

Mark(label) == [label |-> label, lost |-> {}]
Leaf(label) == [leaf |-> IF label = Public THEN {} ELSE {Mark(label)}, whole |-> FALSE]
Obj(f)      == [fields |-> f]
Lst(s)      == [list |-> s]
OkOf(v)     == [ok |-> v, lost |-> {}]
ErrOf(n)    == [err |-> n, lost |-> {}]
Nil         == [nil |-> TRUE]
Bad(why)    == [bad |-> why]
Has(v, what) == what \in DOMAIN v
KnownResult(v) == (Has(v, "ok") \/ Has(v, "err")) /\ v.lost = {}

RECURSIVE Lose(_, _), Marks(_), ValueOf(_, _), MatchPattern(_, _), Eval(_, _), Sync(_, _)
Lose(v, way) ==
  CASE Has(v, "fields") -> Obj([f \in DOMAIN v.fields |-> Lose(v.fields[f], way)])
    [] Has(v, "list")   -> Lst([i \in DOMAIN v.list |-> Lose(v.list[i], way)])
    [] Has(v, "ok")     -> [ok |-> Lose(v.ok, way), lost |-> v.lost \cup {way}]
    [] Has(v, "err")    -> [v EXCEPT !.lost = @ \cup {way}]
    [] Has(v, "leaf")   -> [v EXCEPT !.leaf = {[m EXCEPT !.lost = @ \cup {way}] : m \in @}]
    [] OTHER            -> v
LoseAll(env, way) == [x \in DOMAIN env |-> Lose(env[x], way)]

\* What a value is displayed with.
Marks(v) ==
  CASE Has(v, "leaf")   -> v.leaf
    [] Has(v, "fields") -> UNION {Marks(v.fields[f]) : f \in DOMAIN v.fields}
    [] Has(v, "list")   -> UNION {Marks(v.list[i]) : i \in DOMAIN v.list}
    [] Has(v, "ok")     -> Marks(Lose(v.ok, "result"))
    [] OTHER            -> {}

\* What the service sends for a declared type.
ValueOf(t, depth) ==
  CASE t.k = "list"     -> LET v == ValueOf(t.of, depth - 1)
                           IN  IF depth = 0 THEN Lst(<<>>) ELSE Lst(<<v, v>>)
    [] t.k = "optional" -> LET v == ValueOf(t.of, depth - 1)
                           IN  IF depth = 0 THEN Nil
                               ELSE IF Has(v, "leaf") THEN [v EXCEPT !.whole = TRUE] ELSE v
    [] t.k = "name" /\ t.name = "Secret" -> Leaf(Secret)
    [] t.k = "name" /\ t.name = "PII"    -> Leaf(PII)
    [] OTHER ->
         LET decls == SelectSeq(program.types, LAMBDA d : t.k = "name" /\ d.name = t.name)
         IN  IF decls = <<>> THEN Leaf(Public)
             ELSE Obj([f \in {d.name : d \in ToSet(decls[1].fields)} |->
                         ValueOf((CHOOSE d \in ToSet(decls[1].fields) : d.name = f).type, depth)])

\* A value under a declared type.
Under(t, v, way) == IF t = NoType \/ v = ValueOf(t, Depth) THEN v ELSE Lose(v, way)

-----------------------------------------------------------------------------
(* Evaluation (eval.rs).                                                   *)

\* get_field: null for what is no record.
Select(v, f) ==
  IF Has(v, "fields") THEN IF f \in DOMAIN v.fields THEN v.fields[f] ELSE Nil
  ELSE IF KnownResult(v) THEN Bad("field of a result") ELSE Nil

Use(parts, v) ==
  LET bad == SelectSeq(parts, LAMBDA w : Has(w, "bad"))
  IN  IF bad = <<>> THEN v ELSE bad[1]

Inside(v) == IF Has(v, "leaf") /\ ~v.whole THEN v ELSE Lose(v, "inside")
Joined(parts) ==
  [leaf |-> UNION {Marks(Inside(parts[i])) : i \in DOMAIN parts}, whole |-> FALSE]

\* match_pattern: [hit, binds].
Miss    == [hit |-> FALSE, binds |-> NoScope]
Hit(b)  == [hit |-> TRUE, binds |-> b]
MatchPattern(pat, v) ==
  LET arg(w) == IF pat.args = <<>> THEN Miss ELSE MatchPattern(pat.args[1], w)
  IN  CASE pat.p = "any" -> Hit(NoScope)
        [] pat.p = "var" -> Hit(pat.name :> v)
        [] pat.name = "Ok"   -> IF Has(v, "ok") THEN arg(v.ok) ELSE Miss
        [] pat.name = "Some" -> IF v = Nil THEN Miss ELSE arg(Lose(v, "pattern"))
        [] pat.name = "None" -> IF v = Nil THEN Hit(NoScope) ELSE Miss
        [] pat.name = "Err"  ->
             CASE ~Has(v, "err") -> Miss
               [] pat.args = <<>> -> Hit(NoScope)
               [] pat.args[1].p # "ctor" -> MatchPattern(pat.args[1], Lose(v, "pattern"))
               [] pat.args[1].name # v.err -> Miss
               [] pat.args[1].args = <<>> -> Hit(NoScope)
               [] OTHER -> MatchPattern(pat.args[1].args[1], Leaf(Public))
        [] OTHER -> Miss
Taken(arms, v) == SelectInSeq(arms, LAMBDA a : MatchPattern(a.pat, v).hit)

\* The arms an exhaustive match is counted by: Ok and an error's payload are
\* taken with whatever they hold.
Simple(arms) ==
  \A a \in ToSet(arms) : a.pat.p = "ctor" =>
    /\ a.pat.name = "Ok" => a.pat.args # <<>> /\ Catches(a.pat.args[1])
    /\ a.pat.name = "Err" /\ a.pat.args # <<>> /\ a.pat.args[1].p = "ctor" =>
         \A q \in ToSet(a.pat.args[1].args) : Catches(q)
NoArm(arms, v) ==
  Bad(IF KnownResult(v) /\ Simple(arms) THEN "no arm" ELSE "no arm, unchecked")

\* eval_match_sync
EvalArm(arm, env) ==
  CASE arm.kind = "value" -> Inside(Eval(arm.body[1], env))
    [] arm.kind = "block" -> Inside(Sync(arm.body, env).val)
    [] arm.kind = "retry" -> Bad("unsupported")
EvalMatch(arms, v, env) ==
  LET k == Taken(arms, v)
  IN  IF Has(v, "bad") THEN v
      ELSE IF k = 0 THEN NoArm(arms, v)
      ELSE EvalArm(arms[k], MatchPattern(arms[k].pat, v).binds @@ env)

Eval(x, env) ==
  LET all(es) == [i \in DOMAIN es |-> Eval(es[i], env)]
  IN  CASE x.e = "const"    -> Leaf(Public)
        [] x.e = "id"       -> IF x.name \in DOMAIN env THEN env[x.name] ELSE Bad("unbound")
        [] x.e = "implicit" -> Nil
        [] x.e = "field"    -> LET b == Eval(x.base, env)
                               IN  IF Has(b, "bad") THEN b ELSE Select(b, x.name)
        [] x.e = "text"     -> Use(all(x.of), Joined(all(x.of)))
        [] x.e = "record"   ->
             LET parts == all([i \in DOMAIN x.fields |-> x.fields[i][2]])
             IN  Use(parts, Obj([f \in {x.fields[i][1] : i \in DOMAIN x.fields} |->
                       Inside(parts[CHOOSE i \in DOMAIN x.fields : x.fields[i][1] = f])]))
        [] x.e = "array"    ->
             Use(all(x.of), Lst([i \in DOMAIN x.of |->
                                   IF i = 1 THEN all(x.of)[i] ELSE Inside(all(x.of)[i])]))
        \* a name that is no built-in, a flow's among them, gives null
        [] x.e = "call"     -> Nil
        [] x.e = "method"   ->
             LET b == Eval(x.base, env)
             IN  CASE Has(b, "bad") -> b
                   [] x.name = "first" -> IF Has(b, "list") /\ b.list # <<>>
                                          THEN Lose(b.list[1], "derived") ELSE Nil
                   [] x.name \in {"all", "any", "none"} -> Leaf(Public)
                   [] OTHER -> Nil
        [] x.e = "bin"      -> Use(all(x.of), IF x.op = "==" THEN Leaf(Public)
                                              ELSE Joined(all(x.of)))
        [] x.e = "lambda"   -> Bad("unsupported")
        [] x.e = "match"    -> EvalMatch(x.arms, Eval(x.on, env), env)

\* What a variable keeps of a value: its type, if it was only named, selected or
\* put alone in a list.
RECURSIVE Plain(_)
Plain(x) == CASE x.e \in {"const", "id"} -> TRUE
              [] x.e = "field" -> Plain(x.base)
              [] x.e = "array" -> Len(x.of) = 1 /\ Plain(x.of[1])
              [] OTHER -> FALSE
Stored(x, v) == IF Plain(x) THEN v ELSE Lose(v, "derived")

\* run_block_sync: [env, val, logged, over], until a `return` or an error.
SyncWith(s, v, b) ==
  CASE Has(v, "bad")   -> [b EXCEPT !.val = v, !.over = TRUE]
    [] s.op = "let"    -> [b EXCEPT !.env = (s.bind :> Stored(s.value, v)) @@ @]
    [] s.op = "log"    -> [b EXCEPT !.logged = @ \cup Marks(v)]
    [] s.op = "return" -> [b EXCEPT !.val = Lose(v, "block"), !.over = TRUE]
    [] s.op = "do"     -> [b EXCEPT !.val = Stored(s.value, v)]
SyncStmt(s, b) ==
  IF s.op \in {"fetch", "for", "parallel"}
  THEN [b EXCEPT !.val = Bad("unsupported"), !.over = TRUE]
  ELSE SyncWith(s, Eval(s.value, b.env), b)
Sync(stmts, env) ==
  FoldLeft(LAMBDA b, s : IF b.over THEN b ELSE SyncStmt(s, b),
           [env |-> env, val |-> Nil, logged |-> {}, over |-> FALSE], stmts)

\* What evaluating an expression logs, in such blocks.
RECURSIVE Logged(_, _)
LoggedArm(arm, env) ==
  CASE arm.kind = "value" -> Logged(arm.body[1], env)
    [] arm.kind = "block" -> Sync(arm.body, env).logged
    [] OTHER -> {}
LoggedArms(arms, v, env) ==
  LET k == Taken(arms, v)
  IN  IF Has(v, "bad") \/ k = 0 THEN {}
      ELSE LoggedArm(arms[k], MatchPattern(arms[k].pat, v).binds @@ env)
Logged(x, env) ==
  LET within(es) == UNION {Logged(es[i], env) : i \in DOMAIN es}
  IN  CASE x.e \in {"text", "array", "bin"} -> within(x.of)
        [] x.e = "record" -> UNION {Logged(x.fields[i][2], env) : i \in DOMAIN x.fields}
        [] x.e \in {"field", "method"} -> Logged(x.base, env)
        [] x.e = "match" -> Logged(x.on, env) \cup LoggedArms(x.arms, Eval(x.on, env), env)
        [] OTHER -> {}

-----------------------------------------------------------------------------
(* Running a body (exec.rs).  `sunk` holds the marks that reached the       *)
(* sinks, each with the sink's clearance.                                  *)

Halted(r)  == r.stop # "" \/ r.over
Stop(r, v) == [r EXCEPT !.stop = v.bad]
Assign(r, x, v) == IF x = "" THEN r ELSE [r EXCEPT !.env = (x :> v) @@ @]
Sunk(r, clearance, marks) == [r EXCEPT !.sunk = @ \cup ({clearance} \X marks)]
Said(r, x) == Sunk(r, Public, Logged(x, r.env))

\* What a statement or an arm comes to, and a statement's binding of it.
Valued(v, r) == IF Has(v, "bad") THEN Stop(r, v) ELSE [r EXCEPT !.val = v]
Bind(s, r) ==
  IF r.stop # "" THEN r
  ELSE Assign(r, s.bind, Under(s.type, Stored(s.value, r.val), "relabelled"))

\* The checker forgets what a loop's or an arm's variables are; they stay bound.
Escaped(before, r) ==
  [r EXCEPT !.env = [x \in DOMAIN @ |-> IF x \in DOMAIN before /\ before[x] = @[x] THEN @[x]
                                        ELSE Lose(@[x], "escaped")]]

\* do_fetch.  A site may be asked twice: a retry fetches again.
EvalAll(xs, env) == [i \in DOMAIN xs |-> Eval(xs[i], env)]
Answer(s, r) == r.answers[s.site][IF s.site \in r.asked THEN Len(r.answers[s.site]) ELSE 1]
Fetched(s, answer) ==
  CASE s.type.k = "result" -> IF answer = "ok" THEN OkOf(ValueOf(s.type.of, Depth))
                              ELSE ErrOf(answer)
    [] answer # "ok"       -> Bad("request failed")
    [] s.type.k = "none"   -> Leaf(Public)
    [] OTHER               -> ValueOf(s.type, Depth)
Answered(s, v, r) ==
  IF Has(v, "bad") THEN Stop(r, v)
  ELSE Assign([r EXCEPT !.asked = @ \cup {s.site}], s.bind, v)
Request(s, given, r) ==
  IF Has(Use(given, Nil), "bad") THEN Stop(r, Use(given, Nil))
  ELSE Answered(s, Fetched(s, Answer(s, r)),
                Sunk(r, Clearance(ck, s.ep), UNION {Marks(v) : v \in ToSet(given)}))
RunFetch(s, r) ==
  Request(s, EvalAll(s.args, r.env) \o EvalAll(s.key, LoseAll(r.env, "key")),
          FoldLeft(Said, r, s.args \o s.key))

\* refetch_scrutinee: the fetch of the same body that binds the name matched.
Refetch(x, stmts, r) ==
  LET fetches == SelectSeq(stmts, LAMBDA s : s.op = "fetch" /\ x.e = "id" /\ s.bind = x.name)
  IN  IF fetches = <<>> THEN r ELSE RunFetch(fetches[1], r)

RECURSIVE RunAll(_, _), RunMatch(_, _, _, _), RunStmt(_, _, _)
Again(x, stmts, r, attempts) ==
  IF r.stop # "" THEN r ELSE RunMatch(x, stmts, r, attempts - 1)
Retry(x, stmts, effects, r, attempts) ==
  IF Has(effects, "bad") THEN Stop(r, effects) ELSE Again(x, stmts, Refetch(x.on, stmts, r), attempts)
\* One arm, `r` with what its pattern binds in the environment, `before` without.
RunArm(x, arm, stmts, before, r, attempts) ==
  CASE arm.kind = "value" -> Escaped(before, Valued(Eval(arm.body[1], r.env), Said(r, arm.body[1])))
    [] arm.kind = "block" ->
         Escaped(before, [RunAll(arm.body, [r EXCEPT !.val = Nil]) EXCEPT !.over = FALSE])
    [] arm.kind = "retry" ->
         Retry(x, stmts, Use(EvalAll(arm.body, r.env), Nil),
               Escaped(before, FoldLeft(Said, r, arm.body)), attempts)
MatchWith(x, v, stmts, r, attempts) ==
  LET k == Taken(x.arms, v)
  IN  IF Has(v, "bad") THEN Stop(r, v)
      ELSE IF attempts = 0 THEN [r EXCEPT !.val = v]
      ELSE IF k = 0 THEN Stop(r, NoArm(x.arms, v))
      ELSE RunArm(x, x.arms[k], stmts, r.env,
                  [r EXCEPT !.env = MatchPattern(x.arms[k].pat, v).binds @@ @], attempts)
RunMatch(x, stmts, r, attempts) ==
  MatchWith(x, Eval(x.on, r.env), stmts, Said(r, x.on), attempts)

\* run_flow: the arguments, as many as there are, under the parameters' types.
FlowNamed(n) == SelectSeq(program.units, LAMBDA u : u.kind = "flow" /\ u.name = n)
Passed(flow, given) ==
  LET passed == 1..Min({Len(given), Len(flow.params)})
  IN  [x \in {flow.params[i].name : i \in passed} |->
         LET i == CHOOSE j \in passed : flow.params[j].name = x
         IN  Under(flow.params[i].type, given[i], "argument")]
FlowWith(flow, given, r) ==
  IF Has(Use(given, Nil), "bad") THEN Stop(r, Use(given, Nil))
  ELSE [RunAll(flow.body, [r EXCEPT !.env = Passed(flow, given), !.val = Nil])
          EXCEPT !.env = r.env, !.over = FALSE]
RunFlow(flow, args, r) == FlowWith(flow, EvalAll(args, r.env), FoldLeft(Said, r, args))

\* run_expr_node: a statement's flow call, or a match, or an expression.
RunDo(s, stmts, r) ==
  LET x     == s.value
      calls == x.e = "call" /\ FlowNamed(x.name) # <<>>
  IN  Bind(s, CASE x.e = "match" -> RunMatch(x, stmts, r, MaxAttempts)
                [] calls         -> RunFlow(FlowNamed(x.name)[1], x.args, r)
                [] OTHER         -> Valued(Eval(x, r.env), Said(r, x)))

\* A statement that uses a value.
Items(v) == CASE Has(v, "list") -> v.list [] v = Nil -> <<>> [] OTHER -> <<Lose(v, "item")>>
RunWith(s, v, r) ==
  CASE Has(v, "bad")     -> Stop(r, v)
    [] s.op = "let"      -> Assign(r, s.bind, Stored(s.value, v))
    [] s.op = "log"      -> Sunk(r, Public, Marks(v))
    [] s.op = "return"   -> [r EXCEPT !.val = v, !.over = TRUE]
    [] s.op = "for"      ->
         FoldLeft(LAMBDA q, w : IF Halted(q) THEN q
                                ELSE Escaped(q.env, RunAll(s.body, Assign(q, s.bind, w))),
                  r, Items(v))
RunStmt(s, stmts, r) ==
  CASE s.op = "fetch"    -> RunFetch(s, r)
    [] s.op = "parallel" -> RunAll(s.body, r)
    [] s.op = "do"       -> RunDo(s, stmts, r)
    [] OTHER             -> RunWith(s, Eval(s.value, r.env), Said(r, s.value))
RunAll(stmts, r) ==
  FoldLeft(LAMBDA q, s : IF Halted(q) THEN q ELSE RunStmt(s, stmts, q), r, stmts)

\* The main body, or a route's handler, whose value is the HTTP response.
RunUnit(unit, r) ==
  LET params == [x \in {p.name : p \in ToSet(unit.params)} |-> Leaf(Public)]
      out == RunAll(unit.body, [r EXCEPT !.env = params])
  IN  IF unit.kind # "route" \/ out.stop # "" THEN out
      ELSE Sunk(out, Public, Marks(IF out.over THEN out.val ELSE Lose(out.val, "answer")))

Begun(answers) ==
  [env |-> NoScope, answers |-> answers, asked |-> {}, sunk |-> {}, stop |-> "",
   over |-> FALSE, val |-> Nil]

-----------------------------------------------------------------------------
(* Actions.                                                                *)

RECURSIVE Nested(_)
Nested(stmts) ==   \* the statements of a body, those inside others too
  ToSet(stmts) \cup
    UNION {CASE s.op \in {"for", "parallel"} -> Nested(s.body)
             [] s.op = "do" /\ s.value.e = "match" ->
                  UNION {Nested(a.body) : a \in {b \in ToSet(s.value.arms) : b.kind = "block"}}
             [] OTHER -> {} : s \in ToSet(stmts)}
Statements == UNION {Nested(u.body) : u \in ToSet(program.units)}
Calls == {s \in Statements : s.op = "fetch"}
Retries ==
  \E s \in Statements : s.op = "do" /\ s.value.e = "match"
                          /\ \E a \in ToSet(s.value.arms) : a.kind = "retry"

\* The answers to each site, a second one where a program fetches again.  Any
\* request may fail in any way, whatever its type lists; the first plain one to
\* fail ends the run.
Outcomes(s) == {"ok"} \cup IF s.type.k = "result" THEN ErrorNames ELSE {"failed"}
AllAnswers ==
  LET rounds == IF Retries THEN 1..2 ELSE 1..1
      any    == {"ok", "failed"} \cup ErrorNames
  IN  {a \in [{s.site : s \in Calls} -> [rounds -> any]] :
         /\ \A s \in Calls, k \in rounds : a[s.site][k] \in Outcomes(s)
         /\ \A p, q \in (DOMAIN a) \X rounds :
              a[p[1]][p[2]] = "failed" /\ a[q[1]][q[2]] = "failed" => p = q}

CheckedInit ==
  /\ program \in Programs
  /\ ck = NewChecker(program)
  /\ declared = 0 /\ checked = 0
  /\ phase = "declare" /\ entry = 0 /\ run = Begun(<<>>)

DeclareType ==
  /\ phase = "declare" /\ declared < Len(program.types)
  /\ declared' = declared + 1
  /\ ck' = Declare(Duplicates(ck, program.types[declared + 1]), program.types[declared + 1])
  /\ UNCHANGED <<program, checked, phase, entry, run>>

EndDeclarations ==
  /\ phase = "declare" /\ declared = Len(program.types)
  /\ phase' = "check"
  /\ UNCHANGED <<program, ck, declared, checked, entry, run>>

CheckBody ==
  /\ phase = "check" /\ checked < Len(program.units)
  /\ checked' = checked + 1
  /\ ck' = CheckUnit(ck, program.units[checked + 1])
  /\ UNCHANGED <<program, declared, phase, entry, run>>

EndChecks ==
  /\ phase = "check" /\ checked = Len(program.units)
  /\ ck' = FinishCheck(ck)
  /\ phase' = IF FinishCheck(ck).faults = {} THEN "accepted" ELSE "refused"
  /\ UNCHANGED <<program, declared, checked, entry, run>>

RunAccepted ==
  /\ phase = "accepted"
  /\ \E k \in DOMAIN program.units, answers \in AllAnswers :
       /\ program.units[k].kind # "flow"
       /\ entry' = k
       /\ run' = RunUnit(program.units[k], Begun(answers))
  /\ phase' = "ran"
  /\ UNCHANGED <<program, ck, declared, checked>>

CheckedNext == DeclareType \/ EndDeclarations \/ CheckBody \/ EndChecks \/ RunAccepted

CheckedSpec == CheckedInit /\ [][CheckedNext]_vars

-----------------------------------------------------------------------------
(* Properties.                                                             *)

\* A type names only types above it: a name from further down, or its own, is
\* Unknown to the checker, and the labels behind it are lost.
RECURSIVE NameIn(_)
NameIn(t) == IF t.k = "name" THEN t.name ELSE NameIn(t.of)
DeclaredInOrder ==
  \A i \in DOMAIN program.types : \A d \in ToSet(program.types[i].fields) :
    \A j \in DOMAIN program.types : program.types[j].name = NameIn(d.type) => j < i


\* The failures are those the types list.
AnswersAsDeclared ==
  \A s \in Calls : s.type.k = "result" /\ s.type.errs # Open =>
    \A k \in DOMAIN run.answers[s.site] : run.answers[s.site][k] \in {"ok"} \cup s.type.errs


\* "A bare expression handler `-> Flow(x)` becomes `{ return Flow(x) }`": the
\* route answers what the flow returns.
BareHandlersAnswer ==
  LET unit == program.units[entry]
      call == unit.body[1].value
      flow == FlowNamed(call.name)
  IN  phase = "ran" /\ unit.kind = "route" /\ Len(unit.body) = 1
        /\ unit.body[1].op = "return" /\ call.e = "call" /\ flow # <<>> /\ run.stop = ""
      => LET params == [x \in {p.name : p \in ToSet(unit.params)} |-> Leaf(Public)]
         IN  run.val = RunFlow(flow[1], call.args,
                               [Begun(run.answers) EXCEPT !.env = params]).val
=============================================================================
