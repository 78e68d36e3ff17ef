------------------------------ MODULE MCFusion ------------------------------
(***************************************************************************)
(* Programs that list a collection, loop over it and match, with up to     *)
(* three fetches of the batching endpoint in each body; ids of both JSON   *)
(* types, contracts, and prefixes that render alike.                       *)
(***************************************************************************)
EXTENDS NPlusOne

Users(site, id, bind)      == Fetch(site, "batch", "users", NoExpr, id, bind, FALSE)
Of(site, pre, id, bind)    == Fetch(site, "batch", "users", pre, id, bind, FALSE)
Plainly(site, id, bind)    == Fetch(site, "plain", "posts", NoExpr, id, bind, FALSE)
List(site, bind)           == Fetch(site, "plain", "users", NoExpr, NoExpr, bind, FALSE)
Checked(site, id, bind)    == Fetch(site, "batch", "users", NoExpr, id, bind, TRUE)
Tags(site, id, bind)       == Fetch(site, "batch", "tags", NoExpr, id, bind, FALSE)
ListTags(site, bind)       == Fetch(site, "plain", "tags", NoExpr, NoExpr, bind, FALSE)
Held(f, contract)          == [f EXCEPT !.contract = contract]
Half(site, id, bind)       == Fetch(site, "half", "users", NoExpr, id, bind, FALSE)

MCListing == <<1, 2>>
MCKnown == 1..3
MCLawful == {1, 3}
MCTextKeys == {"tags"}
MCEnvironment == [p |-> Num(1), q |-> Num(2), one |-> Arr(<<Num(2)>>), none |-> Arr(<<>>),
                  s |-> Str(1), t |-> Str(2)]
MCBatching == {"batch"}
MCDeclaring == {"batch", "half"}

\* What a body fetches: ids fixed, given, derived, missing; groups of one to three.
Ids == {Lit(1), Lit(9), V("p")}
Pairs == {<<Users("a", i, "a"), Users("b", j, "b")>> : i, j \in Ids}
Fetches ==
    Pairs
    \cup {<<Users("a", Lit(1), "a"), LetIs("k", V("p")), Users("b", V("k"), "b")>>,
          <<LetIs("k", V("p")), Users("a", Lit(1), "a"), Users("b", V("k"), "b")>>,
          <<Users("a", Lit(1), "a"), Users("b", Lit(1), "b"), Users("c", Lit(2), "c")>>,
          <<Users("a", Lit(1), "a"), Plainly("b", Lit(1), "b"), Users("c", Lit(2), "c")>>,
          <<Of("a", V("p"), Lit(1), "a"), Of("b", V("p"), Lit(2), "b")>>,
          <<Of("a", V("p"), Lit(1), "a"), Users("b", Lit(2), "b")>>,
          <<Checked("a", Lit(1), "a"), Plainly("b", Lit(1), "b")>>}
Show(stmts) == [i \in DOMAIN Binders(stmts) |-> Log(V(Binders(stmts)[i]))]
Shown(stmts) == stmts \o SelectSeq(Show(stmts), LAMBDA s : s.value.var # NoBind)

\* What a loop over element u fetches.
Keys == {V("u"), V("p"), Plus("u", "p"), Lit(1)}
PerElement ==
    {<<Users("l", k, "x")>> : k \in Keys}
    \cup {<<LetIs("k", V("u")), Users("l", V("k"), "x")>>,
          <<LetIs("k", V("p")), Users("l", Plus("u", "k"), "x")>>,
          <<Of("l", V("u"), V("u"), "x")>>, <<Of("l", V("p"), V("u"), "x")>>,
          <<Plainly("l", V("u"), "x")>>,
          <<Plainly("l", V("u"), "k"), Plainly("m", V("p"), "x")>>,
          <<Users("l", V("u"), "x"), Users("m", V("u"), "y")>>,
          <<Users("l", V("u"), "x"), Users("m", Lit(1), "y")>>,
          <<Users("l", V("u"), "x"), Users("m", Lit(1), "y"), Users("n", Lit(2), "z")>>,
          <<MatchOn(V("u"), FALSE, "v", Shown(<<Users("l", V("v"), "x")>>))>>,
          <<Half("l", V("u"), "x")>>}
Overs == {V("us"), V("one"), V("none"), V("p")}
Loop(over, b) == <<List("us", "us"), ForIn("u", over, Shown(b))>>
Loops == {Loop(o, b) : o \in Overs, b \in PerElement}

\* Loops in loops, loops in arms, arms in loops, groups beside nested groups.
Inner == <<Users("l", V("w"), "x"), Log(V("x"))>>
Nests ==
    {<<List("us", "us"), ForIn("u", V("us"), <<ForIn("w", V("us"), Inner)>>)>>,
     <<List("us", "us"), ForIn("u", V("us"), <<Users("m", V("u"), "y"),
                                               ForIn("w", V("one"), Inner), Log(V("y"))>>)>>,
     <<List("us", "us"), ForIn("u", V("us"), <<Plainly("m", V("u"), "y"),
                    ForIn("w", V("one"), <<Users("l", V("y"), "x"), Log(V("x"))>>)>>)>>,
     <<List("us", "us"), MatchOn(V("us"), FALSE, "w", <<ForIn("u", V("w"),
                    <<Users("l", V("u"), "x"), Log(V("x"))>>)>>)>>,
     <<Checked("c", Lit(9), "r"), MatchOn(V("r"), TRUE, "w", Shown(<<Users("a", Lit(1), "a")>>))>>,
     <<Fetch("c", "plain", "users", NoExpr, Lit(1), "r", TRUE),
       MatchOn(V("r"), TRUE, "w", Shown(<<Users("a", Lit(1), "a"), Users("b", Lit(2), "b")>>))>>,
     \* two loops, each with a batch of its own
     Loop(V("us"), <<Users("l", V("u"), "x")>>) \o
        <<ForIn("w", V("one"), <<Users("m", V("w"), "y"), Log(V("y")), Log(V("w"))>>)>>,
     <<List("us", "us"), ForIn("u", V("us"), Shown(<<Users("l", V("u"), "x")>>)
        \o <<ForIn("w", V("one"), <<Users("m", V("w"), "y"), Log(V("y"))>>), Log(V("x"))>>)>>}

\* Two groups side by side, and a group next to one of an arm.
Siblings ==
    {Shown(<<Users("a", Lit(1), "a"), Of("b", Lit(5), Lit(1), "b"),
             Users("c", Lit(2), "c"), Of("d", Lit(5), Lit(2), "d")>>)}

\* What the provisos of the properties are about: an element or an id bound
\* twice, a prefix the program computes, results batched, a group in an arm.
Awkward ==
    {Loop(V("us"), <<LetIs("u", Lit(3)), Users("l", V("u"), "x")>>),
     Loop(V("us"), <<Plainly("m", V("k"), "x"), LetIs("k", V("u"))>>) \o <<Log(V("k"))>>,
     <<LetIs("k", Lit(3)), Log(V("k"))>> \o Loop(V("us"), <<Plainly("m", V("k"), "x"), LetIs("k", V("u"))>>),
     Shown(<<LetIs("k", V("p")), Of("a", V("k"), Lit(1), "a"), Of("b", V("k"), Lit(2), "b")>>),
     <<LetIs("k", V("p"))>> \o Loop(V("us"), <<Of("l", V("k"), V("u"), "x")>>),
     Shown(<<Checked("a", Lit(1), "a"), Checked("b", Lit(9), "b")>>),
     Loop(V("us"), <<Checked("l", V("u"), "x")>>),
     Loop(V("us"), <<Users("l", V("u"), "x"), LetIs("y", V("u"))>>) \o <<Log(V("x"))>>,
     Loop(V("us"), <<LetIs("k", Lit(1)), Of("l", V("k"), V("u"), "x")>>)}

\* Ids that the service writes as text, asked for as text or as numbers.
ByText ==
    {Shown(<<Tags("a", V("s"), "a"), Tags("b", V("t"), "b")>>),
     Shown(<<Tags("a", V("s"), "a"), Tags("b", Lit(2), "b")>>),
     Shown(<<Users("a", V("s"), "a"), Users("b", Lit(2), "b")>>),
     <<ListTags("us", "us"), ForIn("u", V("us"), Shown(<<Tags("l", V("u"), "x")>>))>>,
     Loop(V("us"), <<Tags("l", V("u"), "x")>>),
     <<ListTags("us", "us"), ForIn("u", V("us"), Shown(<<Users("l", V("u"), "x")>>))>>}

\* Contracts on batched and on single elements, and prefixes that render alike.
Contracts == {"required", "optional"}
HeldTo(c) ==
    {Shown(<<Held(Users("a", Lit(i), "a"), c), Users("b", Lit(j), "b")>>) : i, j \in {1, 2, 3}}
    \cup {Shown(<<Held(Users("a", Lit(i), "a"), c)>>) : i \in {1, 2}}
    \cup {Loop(o, <<Held(Users("l", V("u"), "x"), c)>>) : o \in {V("us"), V("one"), V("p")}}
    \cup {Shown(<<Held(Checked("a", Lit(2), "a"), c), Plainly("b", Lit(1), "b")>>)}
Prefixed(r1, r2) ==
    Shown(<<Of("a", Minus("q", "q", "p", r1), Lit(1), "a"), Of("b", Minus("q", "q", "p", r2), Lit(2), "b")>>)
Delicate == ByText \cup UNION {HeldTo(c) : c \in Contracts}
            \cup {Prefixed(r1, r2) : r1, r2 \in BOOLEAN}

\* An arm fetches a group while the group of the body around it is in use.
GroupInArm ==
    {<<Users("a", Lit(1), "a"), Users("b", Lit(2), "b"),
       MatchOn(V("p"), FALSE, "v", Shown(<<Users("c", Lit(2), "c"), Users("d", Lit(3), "d")>>)),
       Log(V("a")), Log(V("b"))>>}

MCPrograms == Awkward \cup Delicate \cup GroupInArm \cup {Shown(f) : f \in Fetches} \cup Loops \cup Nests \cup Siblings
    \cup {Shown(f) \o l : f \in Pairs, l \in {Loop(o, <<Users("l", V("u"), "x")>>) : o \in Overs}}
=============================================================================
