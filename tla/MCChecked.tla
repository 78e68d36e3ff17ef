------------------------------ MODULE MCChecked ------------------------------
(***************************************************************************)
(* Accounts with labelled fields at every depth, what a program may make   *)
(* of one, and every sink; matches with up to three arms, with and without *)
(* a closed set of errors; flows and handlers.                             *)
(***************************************************************************)
EXTENDS Checked

MCErrorNames == {"NotFound", "RateLimit", "Timeout"}

Field(n, t) == [name |-> n, type |-> t]
Str == Named("String")
Card == [name |-> "Card", fields |-> <<Field("id", Str), Field("number", Named("Secret"))>>]
Account ==
  [name |-> "Account",
   fields |-> <<Field("id", Str), Field("email", Named("PII")), Field("card", Named("Card")),
                Field("phone", Optional(Named("PII"))), Field("old", ListOf(Optional(Named("Card"))))>>]
Node == [name |-> "Node", fields |-> <<Field("next", Optional(Named("Node"))), Field("id", Str)>>]
Twice == [name |-> "Twice", fields |-> <<Field("id", Str), Field("id", Str)>>]

Main(body)      == [kind |-> "main", name |-> "", params |-> <<>>, body |-> body]
Flow(n, body)   == [kind |-> "flow", name |-> n, params |-> <<Field("p", Named("Account"))>>,
                    body |-> body]
Route(body)     == [kind |-> "route", name |-> "", params |-> <<Field("q", Str)>>, body |-> body]
ProgramOf(types, units) ==
  [types |-> types, units |-> units, endpoints |-> {"Api", "Pub", "Pii"},
   clearance |-> [e \in {"Pub", "Pii"} |-> IF e = "Pub" THEN Public ELSE PII]]
Declared == <<Card, Account>>
Bodies(bodies) ==
  {ProgramOf(Declared, <<Main(b)>>) : b \in bodies}
    \cup {ProgramOf(Declared, <<Main(<<>>), Route(b)>>) : b \in bodies}

GetA  == Fetch("a", "Api", <<>>, <<>>, "a", Named("Account"))
GetXs == Fetch("xs", "Api", <<>>, <<Bin("==", Implicit("id"), Const)>>, "xs", ListOf(Named("Account")))
GetR(errs) == Fetch("r", "Api", <<>>, <<>>, "r", Result(Named("Account"), errs))
Two == {"NotFound", "RateLimit"}

-----------------------------------------------------------------------------
(* Where labels go.                                                        *)

Paths(b) == {b, Dot(b, "id"), Dot(b, "email"), Dot(b, "card"), Dot(Dot(b, "card"), "number"),
             Dot(b, "phone"), Dot(b, "old")}
Caught(x) == Match(Id("r"), <<Arm(Ctor("Ok", <<Var("y")>>), "value", <<x>>),
                              Arm(Wild, "value", <<Const>>)>>)
Made(p) == {p, Text(<<Const, p>>), Rec("", <<<<"f", p>>>>), Rec("Card", <<<<"f", p>>>>),
            Arr(<<p>>), Arr(<<Const, p>>), Call("g", <<p>>), Bin("+", Const, p),
            Bin("==", p, Const)}
Exprs == UNION {Made(p) : p \in Paths(Id("a"))} \cup {Caught(p) : p \in Paths(Id("y"))}
           \cup {Method(Id("xs"), "first", <<>>), Id("xs"), Id("r"),
                 Method(Id("xs"), "any", <<Lambda("y", Bin("==", Dot(Id("y"), "email"), Const))>>)}
Sinks(x) == {Log(x), Return(x)} \cup {Fetch("s", e, <<x>>, <<>>, "", NoType) : e \in {"Pub", "Pii", "Api"}}
Given == <<GetA, GetXs, GetR(Open), Do(Caught(Const), "")>>

Direct == {Given \o <<s>> : s \in UNION {Sinks(x) : x \in Exprs}}
Ending == {Given \o <<Do(x, "")>> : x \in Exprs}   \* a route answers its last value
Stepwise == {Given \o <<Let("v", x), s>> : x \in Exprs, s \in Sinks(Id("v"))}
Looped ==
  {Given \o <<For("x", over, <<Parallel(<<s>>)>>)>> :
     over \in {Id("xs"), Id("a"), Arr(<<Id("a")>>)},
     s \in UNION {Sinks(p) : p \in Paths(Id("x"))}}
Matched ==
  {Given \o <<Do(Match(on, <<Arm(pat, "block", <<s>>), Arm(Wild, "value", <<Const>>)>>), "")>> :
     on \in {Id("r"), Id("a"), Dot(Id("a"), "old")},
     pat \in {Ctor("Ok", <<Var("x")>>), Ctor("Some", <<Var("x")>>), Var("x")},
     s \in UNION {Sinks(p) : p \in Paths(Id("x"))}}

\* A variable used after the arm or the loop that bound it, in the same name too.
Escaping ==
  {Given \o <<before, within, s>> :
     before \in {Let("z", Const), Let("x", Const), Let("v", Dot(Id("a"), "email"))},
     within \in {For("x", Id("xs"), <<Let("v", Dot(Id("x"), "email"))>>),
                Do(Match(Id("r"), <<Arm(Ctor("Ok", <<Var("x")>>), "block", <<Let("v", Dot(Id("x"), "id"))>>),
                                    Arm(Wild, "value", <<Const>>)>>), "")},
     s \in UNION {Sinks(x) : x \in {Id("x"), Dot(Id("x"), "email"), Id("v")}}}
Carried ==   \* from one turn of a loop to the next
  {Given \o <<Let("v", Const), For("x", Id("xs"), <<Log(Id("v")), Let("v", p)>>)>> : p \in Paths(Id("x"))}
\* What a binding declares, and the expression it takes it for.
Relabelled ==
  {Given \o <<[Do(p, "v") EXCEPT !.type = t], s>> :
     p \in Paths(Id("a")) \cup {Const, Method(Id("xs"), "first", <<>>)},
     t \in {Str, Named("PII"), Named("Card"), Named("Account"), Optional(Named("PII"))},
     s \in {Log(Id("v")), Return(Id("v")), Log(Dot(Id("v"), "email")), Return(Dot(Id("v"), "email"))}}
Keyed ==   \* idempotency keys
  {Given \o <<[Fetch("s", "Pub", args, <<>>, "", NoType) EXCEPT !.key = <<x>>]>> :
     args \in {<<>>, <<Const>>}, x \in Paths(Id("a")) \cup {Text(<<Const>>), Dot(Id("r"), "id"), Id("z")}}
\* A match inside an expression, its arm a block.
Blocked ==
  {Given \o <<s>> \o <<Log(Const)>> :
     s \in UNION {Sinks(Match(Id("r"), <<Arm(Ctor("Ok", <<Var("y")>>), "block", b), Arm(Wild, "block", <<>>)>>)) :
        b \in {<<Let("v", p), t>> : p \in Paths(Id("y")),
              t \in {Log(Id("v")), Do(Id("v"), "w"), GetA}} \cup {<<Return(p)>> : p \in Paths(Id("y"))}}}

Labels == Bodies(Direct \cup Ending \cup Stepwise \cup Looped \cup Matched \cup Escaping
                   \cup Carried \cup Relabelled \cup Keyed \cup Blocked)

Shapes ==   \* other declarations, and a flow with labelled parameters
  {ProgramOf(types, <<Main(<<Fetch("a", "Api", <<>>, <<>>, "a", Named(n)), s>>)>>) :
     types \in {<<Account, Card>>, <<Node>>, <<Twice>>, <<>>}, n \in {"Account", "Node", "Twice"},
     s \in UNION {Sinks(p) : p \in {Id("a"), Dot(Id("a"), "card"), Dot(Id("a"), "next")}}}
    \cup {ProgramOf(Declared, <<Main(<<Do(Call("f", <<Const>>), "d"), Log(Id("d"))>>), Flow("f", <<s>>)>>) :
           s \in UNION {Sinks(p) : p \in Paths(Id("p"))}}
    \cup {ProgramOf(Declared, <<Main(<<GetA, Do(Call("f", <<x>>), "d"), Log(Id("d"))>>),
                                [Flow("f", <<s>>) EXCEPT !.params[1].type = t]>>) :
           x \in Paths(Id("a")), t \in {Str, Named("Account"), Named("PII")},
           s \in Sinks(Id("p")) \cup Sinks(Dot(Id("p"), "email"))}
    \cup {ProgramOf(Declared, <<Main(<<Log(Dot(Id("f"), "id")), Log(Dot(Id("z"), "id"))>>), Flow("f", <<>>)>>),
          ProgramOf(Declared, <<Main(<<Fetch("a", "Nil", <<>>, <<>>, "a", NoType)>>)>>)}

-----------------------------------------------------------------------------
(* Where failures go.                                                      *)

ErrOf1(n, args) == Ctor("Err", <<Ctor(n, args)>>)
ArmPool ==
  {Arm(Ctor("Ok", <<Var("y")>>), "value", <<Dot(Id("y"), "id")>>),
   Arm(Ctor("Ok", <<>>), "value", <<Const>>),
   Arm(Ctor("Err", <<Var("e")>>), "value", <<Const>>),
   Arm(Ctor("Err", <<Var("e")>>), "value", <<Dot(Id("e"), "id")>>),
   Arm(ErrOf1("NotFound", <<>>), "value", <<Const>>),
   Arm(ErrOf1("NotFound", <<Ctor("Some", <<Ctor("Ok", <<Wild>>)>>)>>), "value", <<Const>>),
   Arm(ErrOf1("RateLimit", <<Var("m")>>), "retry", <<Id("m")>>),
   Arm(Ctor("Err", <<>>), "block", <<Log(Const)>>),
   Arm(Wild, "value", <<Const>>)}
Short == {<<a>> : a \in ArmPool} \cup (ArmPool \X ArmPool)
Taking(errs, arms) ==
  ProgramOf(Declared, <<Main(<<GetR(errs), Do(Match(Id("r"), arms), "v"), Log(Id("v"))>>)>>)
Exhausting ==
  {Taking(Open, arms) : arms \in Short}
    \cup {Taking(Two, arms) : arms \in Short \cup (ArmPool \X ArmPool \X ArmPool)}
Ignoring ==
  Bodies({<<GetR(Two)>> \o rest : rest \in
    {<<>>, <<Return(Id("r"))>>, <<Log(Id("r"))>>, <<Log(Dot(Id("r"), "id"))>>,
     <<Let("v", Id("r")), Log(Dot(Id("v"), "id")), Do(Caught(Const), "")>>,
     <<For("v", Arr(<<Id("r")>>), <<Log(Dot(Id("v"), "id"))>>), Do(Caught(Const), "")>>,
     <<Do(Match(Method(Arr(<<Id("r")>>), "first", <<>>),
                <<Arm(Ctor("Ok", <<Var("y")>>), "value", <<Const>>)>>), ""), Return(Id("r"))>>}})

-----------------------------------------------------------------------------
(* Handlers that call a flow, in a `return` and as a statement.            *)

FlowRoutes ==
  {ProgramOf(Declared, <<Main(<<>>), Flow("f", <<Return(Text(<<Const>>))>>), Route(body)>>) :
     body \in {<<Return(Call("f", <<Id("q")>>))>>,
               <<Do(Call("f", <<Id("q")>>), "d"), Return(Id("d"))>>}}

MCPrograms == Labels \cup Shapes \cup Exhausting \cup Ignoring \cup FlowRoutes
=============================================================================
