------------------------------ MODULE NestedIR ------------------------------
(***************************************************************************)
(* Programs with `for` loops and `match` arms, lowered to the nested       *)
(* bodies of ir.rs, and what a body does when it runs.  HaleIR.tla treats  *)
(* one flat body in depth; this module keeps the nesting, and of a request *)
(* what batching tells apart: the endpoint, the collection prefix and the  *)
(* last path segment.                                                      *)
(*                                                                         *)
(* A source statement is a record with the field `op`: get, let, log, for  *)
(* or match.  Lowering adds to each its reads and its edges; fusion adds   *)
(* the statement scatter and the batched get.                              *)
(***************************************************************************)
EXTENDS Integers, SequencesExt

CONSTANTS
    Listing,     \* the ids a collection lists
    Known,       \* the ids the service has a resource for
    Lawful,      \* those whose resource satisfies its contract
    TextKeys,    \* the collections whose ids are JSON strings
    Environment  \* variables bound before the program starts, with their values

\* Expressions: a literal, a variable, a sum of two variables, a difference of
\* three, x - y - z or, on the right, x - (y - z); or none.
Lit(n)  == [lit |-> n]
V(x)    == [var |-> x]
Plus(x, y) == [plus |-> <<x, y>>]
Minus(x, y, z, right) == [minus |-> <<x, y, z>>, right |-> right]
NoExpr  == [none |-> TRUE]

FreeVars(e) == IF "var" \in DOMAIN e THEN {e.var}
               ELSE IF "plus" \in DOMAIN e THEN ToSet(e.plus)
               ELSE IF "minus" \in DOMAIN e THEN ToSet(e.minus) ELSE {}

\* pretty::expr drops the parentheses of x - (y - z).
Rendered(e) == IF "minus" \in DOMAIN e THEN [e EXCEPT !.right = FALSE] ELSE e

NoBind == ""
NoMap  == [over |-> NoExpr, var |-> NoBind, key |-> NoExpr]

\* FetchIr: GET ep /coll[/pre][/id].  A batched one has no id, and either the
\* fixed list `ids` or the source `mapped` of the ids it asks for.  The binding
\* of an element may carry a contract: "required" constrains a field that must
\* be there, "optional" one that may be missing.
Fetch(site, ep, coll, pre, id, bind, result) ==
    [op |-> "get", site |-> site, ep |-> ep, coll |-> coll, pre |-> pre, id |-> id,
     bind |-> bind, result |-> result, batch |-> FALSE, ids |-> <<>>, mapped |-> NoMap,
     contract |-> "none"]
LetIs(x, e)     == [op |-> "let", value |-> e, bind |-> x]
Log(e)          == [op |-> "log", value |-> e, bind |-> NoBind]
ForIn(x, e, b)  == [op |-> "for", over |-> e, var |-> x, body |-> b, bind |-> NoBind]
\* match e { Ok(x) => { b }  _ => null }, or with ok = FALSE match e { x => { b } }
MatchOn(e, ok, x, b) ==
    [op |-> "match", on |-> e, ok |-> ok, var |-> x, body |-> b, bind |-> NoBind]

Nested(s)   == s.op \in {"for", "match"}
IsEffect(s) == s.op \in {"log", "for", "match"}

-----------------------------------------------------------------------------
\* What a nested body reads from outside, minus what it binds and the variable
\* its loop or pattern binds.
Binds(nodes) == {n.st.bind : n \in ToSet(nodes)} \ {NoBind}
External(st) ==
    UNION {n.reads : n \in ToSet(st.body.nodes)} \ (Binds(st.body.nodes) \cup {st.var})

Reads(st) == CASE st.op = "get"   -> FreeVars(st.pre) \cup FreeVars(st.id)
               [] st.op \in {"let", "log"} -> FreeVars(st.value)
               [] st.op = "for"   -> FreeVars(st.over) \cup External(st)
               [] st.op = "match" -> FreeVars(st.on) \cup External(st)

NodeOf(st, reads) == [st |-> st, reads |-> reads, deps |-> {}]

\* The latest earlier writers of what a node reads, and for an effect the last
\* effect before it.
Before(nodes, i, Test(_)) == LET J == {j \in 1..(i - 1) : Test(nodes[j].st)}
                             IN  IF J = {} THEN {} ELSE {Max(J)}
WireDeps(nodes) ==
    [i \in DOMAIN nodes |-> [nodes[i] EXCEPT !.deps =
        UNION {Before(nodes, i, LAMBDA s : s.bind = r) : r \in nodes[i].reads}
        \cup (IF IsEffect(nodes[i].st) THEN Before(nodes, i, IsEffect) ELSE {})]]

\* lower_stmts, with the endpoints' batch rules stamped on the fetches.
RECURSIVE LowerBody(_, _)
LowerStmt(s, rules) ==
    CASE s.op = "get" -> [s EXCEPT !.batch = s.ep \in rules]
      [] Nested(s)    -> [s EXCEPT !.body = LowerBody(s.body, rules)]
      [] OTHER        -> s
LowerBody(stmts, rules) ==
    LET lowered == [i \in DOMAIN stmts |-> LowerStmt(stmts[i], rules)]
    IN  [nodes |-> WireDeps([i \in DOMAIN stmts |-> NodeOf(lowered[i], Reads(lowered[i]))]),
         waves |-> <<>>]

-----------------------------------------------------------------------------
(***************************************************************************)
(* Running a body.  A run is the environment, what was logged, the         *)
(* requests sent and whether no error stopped it.                          *)
(***************************************************************************)
Num(n)  == [int |-> n]
Str(n)  == [str |-> n]         \* the text of the number n
Arr(s)  == [list |-> s]
Null    == [null |-> TRUE]
Absent  == [absent |-> TRUE]   \* no such path segment

Undefined(e, env) == ~(FreeVars(e) \subseteq DOMAIN env)
Number(v)  == IF "int" \in DOMAIN v THEN v.int ELSE 0
Eval(e, env) ==
    IF "lit" \in DOMAIN e THEN Num(e.lit)
    ELSE IF "var" \in DOMAIN e THEN env[e.var]
    ELSE IF "plus" \in DOMAIN e THEN Num(Number(env[e.plus[1]]) + Number(env[e.plus[2]]))
    ELSE IF "minus" \in DOMAIN e
    THEN LET n(i) == Number(env[e.minus[i]])
         IN  Num(IF e.right THEN n(1) - (n(2) - n(3)) ELSE n(1) - n(2) - n(3))
    ELSE Absent

\* Value::display, what a request carries of a value: a number and its text
\* look the same there, while `==` tells them apart.
Display(v) == IF "str" \in DOMAIN v THEN Num(v.str) ELSE v

Put(env, x, v) ==
    IF x = NoBind THEN env ELSE [y \in DOMAIN env \cup {x} |-> IF y = x THEN v ELSE env[y]]

\* A collection is an array, nothing at all, or a single element.
Items(v) == IF "list" \in DOMAIN v THEN v.list ELSE IF v = Null THEN <<>> ELSE <<v>>

\* The service: a collection lists its ids, an id gives its resource if there
\* is one, and a batched request gives the resources of those ids it knows.  It
\* writes ids in the JSON type it has for them, however it was asked.
Keyed(coll, v) == IF coll \in TextKeys THEN Str(v.int) ELSE v
Resource(coll, pre, v) == [of |-> <<coll, pre>>, id |-> Keyed(coll, v)]
IsKnown(v) == v \in {Num(n) : n \in Known}
Failed == [failed |-> TRUE]
Reply(r) ==
    IF r.ids # <<>>
    THEN Arr([i \in DOMAIN SelectSeq(r.ids, IsKnown) |->
                 Resource(r.coll, r.pre, SelectSeq(r.ids, IsKnown)[i])])
    ELSE IF r.id = Absent THEN Arr([i \in DOMAIN Listing |-> Keyed(r.coll, Num(Listing[i]))])
    ELSE IF IsKnown(r.id) THEN Resource(r.coll, r.pre, r.id) ELSE Failed

\* validate: only an object has the fields that a contract constrains.
Breaches(v, contract) ==
    IF "of" \in DOMAIN v THEN contract # "none" /\ Display(v.id).int \notin Lawful
    ELSE contract = "required"

\* do_fetch: the value and the requests sent for it.
MappedIds(f, env) ==
    [i \in DOMAIN Items(Eval(f.mapped.over, env)) |->
        Eval(f.mapped.key, Put(env, f.mapped.var, Items(Eval(f.mapped.over, env))[i]))]
Unbound(f, env) ==
    \/ Undefined(f.pre, env) \/ Undefined(f.id, env)
    \/ \E i \in DOMAIN f.ids : Undefined(f.ids[i], env)
    \/ f.mapped # NoMap /\ (Undefined(f.mapped.over, env)
                            \/ Undefined(f.mapped.key, Put(env, f.mapped.var, Null)))
NothingToAsk(f, env) == f.mapped # NoMap /\ MappedIds(f, env) = <<>>
DoFetch(f, env) ==
    IF Unbound(f, env) THEN [value |-> Failed, sent |-> <<>>]
    ELSE IF NothingToAsk(f, env) THEN [value |-> Arr(<<>>), sent |-> <<>>]
    ELSE LET asked   == IF f.mapped # NoMap THEN MappedIds(f, env)
                        ELSE [i \in DOMAIN f.ids |-> Eval(f.ids[i], env)]
             request == [site |-> f.site, coll |-> f.coll, pre |-> Display(Eval(f.pre, env)),
                         id |-> Display(Eval(f.id, env)),
                         ids |-> [i \in DOMAIN asked |-> Display(asked[i])],
                         key |-> Eval(f.id, env)]    \* not on the wire: the id before display
             reply   == Reply(request)
             breach  == reply # Failed /\ Breaches(reply, f.contract)
         IN  [value |-> IF ~f.result THEN IF breach THEN Failed ELSE reply
                        ELSE IF breach THEN [err |-> "contract"]
                        ELSE IF reply = Failed THEN [err |-> "status"] ELSE [ok |-> reply],
              sent |-> <<request>>]

\* The fetches of a wave all see the environment the wave started with.
Launch(body, wave, r) ==
    LET f(id)  == body.nodes[id].st
        ids    == SelectSeq(wave, LAMBDA id : f(id).op = "get")
        got    == [i \in DOMAIN ids |-> DoFetch(f(ids[i]), r.env)]
    IN  [r EXCEPT !.env = FoldLeft(LAMBDA e, i : Put(e, f(ids[i]).bind, got[i].value),
                                   @, [i \in DOMAIN ids |-> i]),
                  !.sent = @ \o FlattenSeq([i \in DOMAIN ids |-> got[i].sent]),
                  !.ok = \A i \in DOMAIN ids : got[i].value # Failed]

\* Scatter: the element of the batch whose key equals what is wanted, type
\* included; null without one.
Scatter(s, env) ==
    LET batch == IF s.from \in DOMAIN env THEN env[s.from] ELSE Null
        hits  == IF "list" \in DOMAIN batch
                 THEN SelectSeq(batch.list, LAMBDA el : el.id = Eval(s.value, env)) ELSE <<>>
    IN  IF hits = <<>> THEN Null ELSE Head(hits)

\* run_body: wave by wave, the fetches together, then the rest in order; loops
\* and arms run in the very same environment.
RECURSIVE RunBody(_, _)
RunLoop(s, r) ==
    FoldLeft(LAMBDA q, item : IF q.ok THEN RunBody(s.body, [q EXCEPT !.env = Put(@, s.var, item)])
                              ELSE q,
             r, Items(Eval(s.over, r.env)))
RunMatch(s, r) ==
    LET v == Eval(s.on, r.env)
    IN  IF ~s.ok THEN RunBody(s.body, [r EXCEPT !.env = Put(@, s.var, v)])
        ELSE IF "ok" \in DOMAIN v THEN RunBody(s.body, [r EXCEPT !.env = Put(@, s.var, v.ok)])
        ELSE r
Scrutinised(s) == CASE s.op = "for" -> s.over [] s.op = "match" -> s.on [] OTHER -> s.value
RunNode(s, r) ==
    IF ~r.ok \/ s.op = "get" THEN r
    ELSE IF Undefined(Scrutinised(s), r.env) THEN [r EXCEPT !.ok = FALSE]
    ELSE CASE s.op = "let"     -> [r EXCEPT !.env = Put(@, s.bind, Eval(s.value, r.env))]
           [] s.op = "log"     -> [r EXCEPT !.log = Append(@, Eval(s.value, r.env))]
           [] s.op = "scatter" -> [r EXCEPT !.env = Put(@, s.bind, Scatter(s, r.env))]
           [] s.op = "for"     -> RunLoop(s, r)
           [] s.op = "match"   -> RunMatch(s, r)
RunWave(body, wave, r) ==
    FoldLeft(LAMBDA q, id : RunNode(body.nodes[id].st, q), Launch(body, wave, r), wave)
RunBody(body, r) ==
    FoldLeft(LAMBDA q, wave : IF q.ok THEN RunWave(body, wave, q) ELSE q, r, body.waves)

Start == [env |-> Environment, log |-> <<>>, sent |-> <<>>, ok |-> TRUE]
=============================================================================
