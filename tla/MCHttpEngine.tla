---------------------------- MODULE MCHttpEngine ----------------------------
(***************************************************************************)
(* Three calls of one endpoint on a clock of two ticks:  three times the   *)
(* same read, so that two of them may fill the cache for the third; and a  *)
(* read, a plain mutation and one with an idempotency key.                 *)
(***************************************************************************)
EXTENDS HttpEngine

CONSTANTS c1, c2, c3, k1

Ask(m, idem) == [method |-> m, key |-> k1, idem |-> idem]
Read         == Ask("GET", FALSE)

Mixed == [c \in Caller |-> IF c = c1 THEN Read ELSE Ask("POST", c = c3)]
Reads == [c \in Caller |-> Read]

MCWorkload == {Reads, Mixed}
=============================================================================
