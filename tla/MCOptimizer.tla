---------------------------- MODULE MCOptimizer -----------------------------
(***************************************************************************)
(* Every body of up to three statements over two variables, one of them a  *)
(* parameter, and the longer bodies of the README and of the optimizer's   *)
(* own tests.  The request r is written like p, as `a - (b - c)` is like   *)
(* `a - b - c` and a GET with a body like the one without.                 *)
(***************************************************************************)
EXTENDS Optimizer

CONSTANTS x, y, p, q, r, none

MCVar == {x, y}
MCRendering == [t \in {p, q, r} |-> IF t = r THEN p ELSE t]

Plain(k, m, t, reads, b) ==
    [kind |-> k, method |-> m, text |-> t, reads |-> reads, bind |-> b, result |-> FALSE]
Get(t, reads, b)  == Plain("fetch", "GET", t, reads, b)
Post(t, reads, b) == Plain("fetch", "POST", t, reads, b)
Do(k, reads, b)   == Plain(k, "none", p, reads, b)

Reads == {{}, {x}, {y}}
Small ==
    {Get(t, reads, b) : t \in {p, q}, reads \in Reads, b \in {x, y}}
    \cup {Get(p, {}, none), Get(r, {}, y), Get(r, {x}, y)}
    \cup {Post(p, reads, x) : reads \in Reads}
    \cup {Do("let", reads, b) : reads \in Reads, b \in {x, y}}
    \cup {Do("log", reads, none) : reads \in Reads}
    \cup {Do("return", {x, y}, none)}

Longer == {
    \* duplicate requests whose results feed two more duplicates
    <<Get(p, {}, x), Get(p, {}, y), Get(q, {x}, x), Get(q, {y}, y), Do("log", {x, y}, none)>>,
    \* a read, a mutation, the same read again
    <<Get(p, {}, x), Post(q, {x}, none), Get(p, {}, y), Do("log", {y}, none)>>,
    \* a chain hanging off a duplicate
    <<Get(p, {}, x), Do("let", {x}, y), Get(q, {y}, x), Get(q, {y}, y), Do("return", {y}, none)>>,
    \* the inputs of a duplicate change in between
    <<Do("let", {}, x), Get(p, {x}, y), Do("let", {}, x), Get(p, {x}, x), Do("log", {x, y}, none)>>,
    \* dead requests behind a live one
    <<Get(p, {}, x), Get(q, {x}, y), Get(q, {y}, x), Do("assert", {y}, none), Post(p, {}, none)>>,
    \* requests that are written alike, and what hangs off them
    <<Get(p, {}, x), Get(r, {}, y), Get(q, {x}, x), Get(q, {y}, y), Do("log", {x, y}, none)>>}

\* Two requests that differ in what is not written.
Alike == {<<Get(p, {}, x), Get(r, {}, y), Do("log", {x, y}, none)>>}

MCSources == UNION {[1..n -> Small] : n \in 0..3} \cup Longer
=============================================================================
