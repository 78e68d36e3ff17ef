----------------------------- MODULE MCExecutor -----------------------------
(***************************************************************************)
(* Bodies that bind every variable once: all those of up to two            *)
(* statements, and longer ones chosen so that several requests of one wave *)
(* race each other, with every combination of answers and failures.  The   *)
(* request r is written like p.                                            *)
(***************************************************************************)
EXTENDS Executor

CONSTANTS x, y, z, p, q, r, w, none

MCVar == {x, y, z}
MCRendering == [t \in {p, q, r, w} |-> IF t = r THEN p ELSE t]

Fetch(m, t, reads, b, res) ==
    [kind |-> "fetch", method |-> m, text |-> t, reads |-> reads, bind |-> b, result |-> res]
Get(t, reads, b)    == Fetch("GET", t, reads, b, FALSE)
GetRes(t, reads, b) == Fetch("GET", t, reads, b, TRUE)
Post(t, reads, b)   == Fetch("POST", t, reads, b, FALSE)
Do(k, t, reads, b)  ==
    [kind |-> k, method |-> "none", text |-> t, reads |-> reads, bind |-> b, result |-> FALSE]
Log(v)              == Do("log", w, {v}, none)

Small ==
    {Fetch(m, p, reads, b, res) : m \in {"GET", "POST"}, reads \in {{}, {x}, {y}},
                                  b \in {y, z, none}, res \in BOOLEAN}
    \cup {Do("let", p, reads, b) : reads \in {{}, {x}}, b \in {y, z}}
    \cup {Do(k, q, reads, none) : k \in {"log", "assert", "return"}, reads \in {{}, {x}, {y}}}

Longer == {
    \* three independent requests, then what they return
    <<Get(p, {x}, y), Get(q, {x}, z), Post(r, {}, none), Log(y), Log(z)>>,
    \* two mutations around a read
    <<Post(p, {x}, y), Get(q, {x}, z), Post(r, {y}, none), Log(z)>>,
    \* an assertion guards a mutation
    <<Get(p, {}, y), Do("assert", q, {y}, none), Post(r, {}, z), Log(z)>>,
    \* a duplicate, and a chain hanging off it
    <<Get(p, {x}, y), Get(p, {x}, z), Log(z), Do("return", q, {y}, none)>>,
    <<GetRes(p, {x}, y), Get(q, {}, z), Log(y), Post(r, {z}, none), Log(z)>>,
    \* a dead request between live ones, and a return before the end
    <<Get(p, {x}, y), Do("return", q, {y}, none), Post(r, {}, z), Log(x)>>,
    \* a line, then a return, written below a request that is sent later
    <<Get(p, {}, y), Get(q, {y}, z), Log(x), Log(z)>>,
    <<Get(p, {}, y), Get(q, {y}, z), Do("return", r, {x}, none), Log(z)>>}

MCSources ==
    {s \in UNION {[1..n -> Small] : n \in 0..2} \cup Longer : SingleAssignment(s)}

\* Bodies that bind a variable twice.
Rebinding == {
    <<Do("let", p, {}, y), Log(y), Do("let", q, {}, y), Log(y)>>,
    <<Get(p, {}, y), Log(y), Get(q, {}, y), Log(y)>>}
=============================================================================
