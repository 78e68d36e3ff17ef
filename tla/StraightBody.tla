---------------------------- MODULE StraightBody ----------------------------
(***************************************************************************)
(* What running a body promises to whoever watches it: the lines it prints *)
(* and the value it returns appear one by one, in the order and with the   *)
(* values of the straight-line reading; without a return it ends well only *)
(* when nothing observed failed; and it may stop early only when some      *)
(* observed statement cannot succeed.  The executor is shown to implement  *)
(* this.                                                                   *)
(*                                                                         *)
(* The reading is the hopeful one.  Requests are started by need and not   *)
(* by their place in the text, so a line, or even the return, may come out *)
(* although a request written above it fails afterwards.                   *)
(***************************************************************************)
EXTENDS Straightline

VARIABLES src, reply, out, status

straightVars == <<src, reply, out, status>>

Straight == StraightRun(src, reply, TRUE)

StraightInit ==
    /\ src \in Sources
    /\ reply \in Replies(src)
    /\ out = <<>>
    /\ status = "running"

Show ==
    /\ status = "running"
    /\ Len(out) < Len(Straight.out)
    /\ out' = SubSeq(Straight.out, 1, Len(out) + 1)
    /\ status' \in {"running", "done"}
    /\ status' = "done" => Straight.status = "returned" /\ out' = Straight.out
    /\ UNCHANGED <<src, reply>>

End ==
    /\ status = "running"
    /\ ~MayFail(src, reply)
    /\ out = Straight.out
    /\ status' = "done"
    /\ UNCHANGED <<src, reply, out>>

Abort ==
    /\ status = "running"
    /\ MayFail(src, reply)
    /\ status' = "failed"
    /\ UNCHANGED <<src, reply, out>>

StraightNext == Show \/ End \/ Abort

StraightSpec == StraightInit /\ [][StraightNext]_straightVars
=============================================================================
