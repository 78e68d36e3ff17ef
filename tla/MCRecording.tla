---------------------------- MODULE MCRecording -----------------------------
(***************************************************************************)
(* Programs of two or three waves: concurrent requests, two with one key,  *)
(* a request built from an earlier answer, the refetch of a retry, and two *)
(* mutations that differ in their bodies only.                             *)
(***************************************************************************)
EXTENDS Recording

CONSTANTS p, q

Always(w, path, res) == [wave |-> w, method |-> "GET", path |-> path, result |-> res, from |-> 0,
                         uses |-> FALSE, when |-> "always"]
Uses(w, path, c)     == [Always(w, path, FALSE) EXCEPT !.from = c, !.uses = TRUE]
If(w, path, c, case) == [Always(w, path, TRUE) EXCEPT !.from = c, !.when = case]
Post(w, path)        == [Always(w, path, FALSE) EXCEPT !.method = "POST"]
Script(calls)        == [calls |-> calls, waves |-> calls[Len(calls)].wave]

MCScripts == {Script(calls) : calls \in {
    <<Always(1, p, FALSE), Always(1, q, TRUE), Uses(2, p, 1)>>,
    <<Always(1, p, TRUE), Always(1, p, TRUE), Uses(2, q, 2)>>,
    <<Always(1, p, TRUE), If(2, p, 1, "err")>>,
    <<Always(1, p, TRUE), If(2, p, 1, "err"), If(2, q, 1, "ok")>>,
    <<Post(1, p), Post(1, p)>>}}

Good(v)     == [ok |-> TRUE, value |-> v, variant |-> "", status |-> 0, payload |-> 0]
Bad(n, s, l) == [ok |-> FALSE, value |-> 0, variant |-> n, status |-> s, payload |-> l]

MCOutcomes == {Good(1), Good(2), Bad("NotFound", 404, 0), Bad("RateLimit", 429, 1000)}
=============================================================================
