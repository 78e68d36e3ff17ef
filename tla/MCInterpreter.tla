--------------------------- MODULE MCInterpreter ----------------------------
(***************************************************************************)
(* Programs that nest one or two deep.  A body ends in an effect, because  *)
(* liveness drops a request no effect follows, and MAX_RETRIES is cut down *)
(* from 5 to 2, which still leaves an attempt after the first retry.       *)
(***************************************************************************)
EXTENDS Budgets

CONSTANT f

W(lats, e) == [fetches |-> lats, effect |-> e]
None  == [kind |-> "none"]
Plainly == [kind |-> "plain"]
Ret   == [kind |-> "return"]
Call  == [kind |-> "call", flow |-> f]
For(b) == [kind |-> "for", body |-> b]
Match(arms, fetched) == [kind |-> "match", arms |-> arms, fetched |-> fetched]
Value == [kind |-> "value"]
Block(b) == [kind |-> "body", body |-> b]
Retry == [kind |-> "retry"]

\* log x / return x / POST / GETs, then log or return what they gave
Silent == <<W(<<>>, Plainly)>>
Just   == <<W(<<>>, Ret)>>
Write  == <<W(<<1>>, None)>>
One(e) == <<W(<<1>>, None), W(<<>>, e)>>
Two(e) == <<W(<<2, 1>>, None), W(<<>>, e)>>
Slow(e) == <<W(<<Undeclared>>, None), W(<<>>, e)>>
Chain(e) == <<W(<<1>>, None), W(<<2>>, None), W(<<>>, e)>>

Leaves == {Silent, Just, Write, One(Plainly), Two(Ret), Slow(Plainly), Chain(Ret)}
Quiet  == {Silent, Just, Write, One(Plainly)}

Matches(bodies, fetched) ==
    {Match(<<Block(b), Retry>>, fetched) : b \in bodies}
    \cup {Match(<<Block(b), Value>>, fetched) : b \in bodies}
    \cup {Match(<<Block(b), Block(c)>>, fetched) : b, c \in bodies}

\* GETs, then an effect that reads them, then a mutation or a return
After(lats, e, end) == (IF lats = <<>> THEN <<>> ELSE <<W(lats, None)>>) \o <<W(<<>>, e)>> \o end
\* GETs in the very wave of the effect, read by the log line at the end
Beside(e) == <<W(<<1>>, e), W(<<>>, Plainly)>>

Ends == {Write, Just}

\* Every body under b, wherever it is nested.
RECURSIVE Under(_)
Under(b) == {b} \cup UNION {UNION {Under(c) : c \in Nested(b[i].effect)} : i \in DOMAIN b}

Program(body, flow) == [main |-> body, flows |-> [n \in {f} |-> flow],
                        bodies |-> Under(body) \cup Under(flow)]

Loops == {For(b) : b \in {Silent, Just, Write, One(Plainly),
                          <<W(<<>>, For(Just))>>, <<W(<<>>, For(Silent)), W(<<1>>, None)>>,
                          <<W(<<>>, Call)>>, <<W(<<>>, For(Just)), W(<<>>, Call)>>,
                          <<W(<<>>, For(<<W(<<>>, Call)>>))>>,
                          <<W(<<>>, Match(<<Value, Value>>, FALSE))>>}}

\* The same, one level down: what a flow, an arm or a loop may hold.
Inner == {After(lats, e, end) : lats \in {<<>>, <<1>>}, end \in {Silent, Just},
             e \in {Call, Match(<<Block(One(Plainly)), Value>>, TRUE),
                    Match(<<Block(Silent), Retry>>, TRUE), For(Silent), For(Just)}}

MCPrograms ==
    {Program(After(<<1, 2>>, Call, end), b) : b \in Leaves, end \in Ends}
    \cup {Program(After(<<1>>, m, Write), Silent) : m \in Matches(Leaves \ {Just}, TRUE)}
    \cup {Program(After(<<1>>, m, Just), Silent) : m \in Matches(Quiet \ {Just}, FALSE)}
    \cup {Program(After(<<1>>, l, Write), One(Ret)) : l \in Loops}
    \cup {Program(Beside(e), b) : e \in {Call} \cup Loops, b \in Leaves}
    \cup {Program(After(<<1>>, e, Write), Two(Ret)) :
             e \in UNION {{For(b), Match(<<Block(b), Retry>>, TRUE)} : b \in Inner}}
    \cup {[Program(After(<<>>, Call, Silent), Silent) EXCEPT !.flows = [n \in {} |-> Silent]]}

\* Two requests after a successful match, or a retry before it.
RetryPrograms == {Program(After(<<1>>, Match(<<Block(Chain(Plainly)), Retry>>, TRUE), Silent), Silent)}
=============================================================================
