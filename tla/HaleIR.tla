------------------------------- MODULE HaleIR -------------------------------
(***************************************************************************)
(* The intermediate representation of one body: what lower.rs makes of a   *)
(* statement list, and what a straight-line reading of that list means.    *)
(*                                                                         *)
(* A statement is abstracted to what the optimizer and the executor tell   *)
(* apart: its kind, its HTTP method, its request or expression (a model    *)
(* value), the variables it reads and the variable it binds.  A fetch's    *)
(* pipeline is part of its text; what it reads counts as read by the       *)
(* request.  Rendering stands for pretty.rs: it gives, of the requests     *)
(* that fetch_sig writes in the same way, one.  They need not be the same, *)
(* since pretty::expr drops parentheses that matter and fetch_sig leaves   *)
(* out the request body.                                                   *)
(*                                                                         *)
(* Values are symbolic: the value of a statement is the record of its text *)
(* and of the values its free variables had when it was evaluated, so two  *)
(* values are equal exactly when they were computed the same way.          *)
(***************************************************************************)
EXTENDS Integers, Sequences, FiniteSets

CONSTANTS
    Var,     \* variable names
    NoVar,   \* "binds nothing"
    Param,   \* variables bound before the body starts (flow or route parameters)
    Text,    \* requests and expressions
    Rendering, \* how fetch_sig writes a request
    Sources  \* the statement lists to compile

Kind   == {"fetch", "let", "log", "assert", "return"}
Method == {"GET", "POST", "none"}   \* POST stands for every verb but GET

Stmt == [kind : Kind, method : Method, text : Text,
         reads : SUBSET Var, bind : Var \cup {NoVar},
         result : BOOLEAN]          \* bound as `Result<...>`

ASSUME NamesAssumption  == NoVar \notin Var /\ Param \subseteq Var
ASSUME RenderingAssumption == Rendering \in [Text -> Text]
ASSUME SourcesAssumption == Sources \subseteq Seq(Stmt)

\* lower_stmt pushes `log`, `return` and `assert` without a binding.
ASSUME BindersAssumption ==
    \A s \in Sources : \A i \in DOMAIN s : s[i].bind # NoVar => s[i].kind \in {"fetch", "let"}

\* lower_stmt pushes `log`, `return`, `assert` and non-GET fetches as effects;
\* GET fetches and `let`s are scheduled purely by data.
IsEffect(s) ==
    \/ s.kind \in {"log", "return", "assert"}
    \/ s.kind = "fetch" /\ s.method # "GET"

Node == [kind : Kind \cup {"alias"}, method : Method, text : Text,
         reads : SUBSET Var, bind : Var \cup {NoVar}, result : BOOLEAN,
         effect : BOOLEAN]

Lower(s) == [kind |-> s.kind, method |-> s.method, text |-> s.text,
             reads |-> s.reads, bind |-> s.bind, result |-> s.result,
             effect |-> IsEffect(s)]

LowerStmts(stmts) == [i \in 1..Len(stmts) |-> Lower(stmts[i])]

IsFetch(n) == n.kind = "fetch"

-----------------------------------------------------------------------------
(***************************************************************************)
(* Environments and values.                                                *)
(***************************************************************************)
Nothing == [v \in {} |-> v]

\* Env::insert
Insert(env, v, val) ==
    IF v = NoVar THEN env
    ELSE [w \in DOMAIN env \cup {v} |-> IF w = v THEN val ELSE env[w]]

\* eval: every free variable must be bound, or the evaluation is a RunError.
Evaluable(n, env) == n.reads \subseteq DOMAIN env

\* What else may come of a statement.  "bad": evaluating it is a RunError (an
\* operator, a field, a built-in) or, of an assertion, it does not hold; of a
\* request, nothing is sent then.  Of a request alone, "err": it is sent and
\* fails, "torn": it succeeds and its pipeline is a RunError.
Outcome == {"ok", "bad", "err", "torn"}
OutcomesOf(s) == IF s.kind = "fetch" THEN Outcome ELSE {"ok", "bad"}

\* What the statements of a body may come to.
Replies(stmts) ==
    {f \in [Text -> Outcome] : \A t \in Text :
        f[t] = "ok" \/ \E i \in DOMAIN stmts : stmts[i].text = t /\ f[t] \in OutcomesOf(stmts[i])}

\* What a request or an expression evaluates to before its outcome is known.
Term(n, env) == [text |-> n.text, in |-> [v \in n.reads |-> env[v]], tag |-> "plain"]

\* A `let`; an alias `let b = a` copies a's value.
LetValue(n, env) ==
    IF n.kind = "alias" THEN env[CHOOSE v \in n.reads : TRUE] ELSE Term(n, env)

\* do_fetch: a `Result` binding wraps a failed request, a plain one has a value
\* only when the request succeeded; a RunError is one for both.
FetchFails(n, reply) ==
    reply[n.text] \in {"bad", "torn"} \/ (reply[n.text] = "err" /\ ~n.result)

\* Given its variables, the statement is a RunError; an alias cannot be one.
Fails(n, reply) ==
    CASE n.kind = "fetch" -> FetchFails(n, reply)
      [] n.kind = "alias" -> FALSE
      [] OTHER            -> reply[n.text] # "ok"
FetchValue(n, env, reply) ==
    [Term(n, env) EXCEPT !.tag = IF ~n.result THEN "plain"
                                 ELSE IF reply[n.text] = "ok" THEN "Ok" ELSE "Err"]

ParamEnv == [v \in Param |-> [text |-> v, in |-> Nothing, tag |-> "plain"]]
=============================================================================
