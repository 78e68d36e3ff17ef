------------------------------- MODULE Syntax -------------------------------
(***************************************************************************)
(* The parser (crates/hale-syntax/src/parser.rs).  A source text is a      *)
(* sequence of tokens, a token a string; where a line ends is not a token, *)
(* so nothing separates one statement from the next.  Each parse_*         *)
(* function is a rule: a piece of data that says what it expects, and Run  *)
(* moves a cursor over the tokens as the function does.  A cursor is the   *)
(* Parser struct (tokens, position, no_record) with the nodes of the       *)
(* current rule; no rule looks further ahead than one token.               *)
(***************************************************************************)
EXTENDS Sequences, Integers, SequencesExt

CONSTANTS
  Names,      \* identifiers, the words that are no keyword
  Capitals,   \* those that begin with a capital
  Ints, Durations, Floats, Texts, EnvVars,   \* the literals
  \* What a literal or word stands for, named by its plainest spelling: `007` for
  \* 7, `5s` for 5000ms, a text for what its escapes give (parse_str_parts).
  Denotes(_)

ASSUME CapitalsAreNames == Capitals \subseteq Names

Keywords ==
  {"endpoint", "type", "contract", "flow", "fetch", "parallel", "match",
   "mock", "test", "using", "assert", "let", "log", "return", "params",
   "server", "route", "budget", "idempotent", "where", "retry", "wait",
   "then", "for", "in", "by", "asc", "desc", "and", "or", "not", "true",
   "false", "null"}

Literals ==
  Ints \cup Durations \cup Floats \cup Texts \cup EnvVars
    \cup {"true", "false", "null"}

ASSUME LiteralsSettle ==
  \A t \in Literals : Denotes(t) \in Literals /\ Denotes(Denotes(t)) = Denotes(t)

Verbs == {"GET", "POST", "PUT", "PATCH", "DELETE", "HEAD", "OPTIONS"}
Comparisons == {"==", "!=", "<", "<=", ">", ">="}

-----------------------------------------------------------------------------
(* The vocabulary of the rules.                                            *)

Tok(k)             == [op |-> "tok", token |-> k]
Take(set)          == [op |-> "take", set |-> set]
Name               == Take(Names)
Key                == Take(Names \cup Keywords)
Rule(n)            == [op |-> "rule", name |-> n]
Expr               == Rule("expr")
Node(tag, parts)   == [op |-> "node", tag |-> tag, parts |-> parts]
Maybe(at, parts)   == [op |-> "maybe", at |-> at, parts |-> parts]
Skip               == [op |-> "skip"]
Scope(nr, parts)   == [op |-> "scope", norec |-> nr, parts |-> parts]
While(at, parts)   == [op |-> "while", at |-> at, parts |-> parts]

\* An alternative is taken when the next token is in `first` and, unless it is
\* empty, the one after in `second`; `record` ones not where no_record is set.
Alt(first, second, parts) ==
  [first |-> first, second |-> second, parts |-> parts, record |-> FALSE,
   tag |-> ""]
Choice(alts, otherwise) ==
  [op |-> "choice", alts |-> alts, otherwise |-> otherwise]

\* `while !at(close) && !at_eof()`: separators are "none", "optional" commas,
\* or commas "required" for another round.
Until(close, sep, parts) ==
  [op |-> "until", close |-> {close}, sep |-> sep, parts |-> parts]

\* A base, then as many of the alternatives as apply, each around what is read.
Suffixed(base, alts) == [op |-> "suffixed", base |-> base, alts |-> alts]
Suffix(first, second, tag, parts) ==
  [Alt(first, second, parts) EXCEPT !.tag = tag]

\* A chain of operators that bind at least as tightly as `level`.
Infix(level) == [op |-> "infix", level |-> level]

-----------------------------------------------------------------------------
(* What the functions build from the parts they read.                      *)

LastOf(parts, tag) == SelectSeq(parts, LAMBDA f : f[2] = tag)
BudgetField(parts, key) ==
  LET set == LastOf(parts, key)
  IN  IF set = <<>> THEN <<>> ELSE <<set[Len(set)]>>

Make(tag, v) ==
  CASE tag = "group"     -> v[1]
    [] tag = "qualified" -> IF v[2] = <<>> THEN v[1] ELSE v[2][1]
    [] tag = "key"       -> v[2]
    [] tag \in {"lit", "word"} -> <<tag, Denotes(v[1])>>
    [] tag = "limit"     -> <<tag, v[1], Denotes(v[2])>>
    [] tag = "params"    -> IF v[1] = <<>> THEN <<>> ELSE v[1][1]
    [] tag = "method"    -> IF v = <<>> THEN "GET" ELSE v[1]
    [] tag = "handler"   -> << <<"return", v[1]>> >>
    [] tag = "union"     -> IF v[2] = <<>> THEN v[1]
                            ELSE <<"union", <<v[1]>> \o v[2]>>
    [] tag = "budget"    ->
         <<"budget", BudgetField(v[1], "requests") \o BudgetField(v[1], "parallel")
                       \o BudgetField(v[1], "hops") \o BudgetField(v[1], "p99")>>
    [] tag = "server"    ->
         <<"server", v[1], SelectSeq(v[2], LAMBDA e : e[1] = "setting"),
           SelectSeq(v[2], LAMBDA e : e[1] = "route")>>
    [] tag = "stage"     ->
         <<"stage", CASE v[1] = "pluck" -> "map" [] v[1] = "take" -> "limit"
                      [] OTHER -> v[1]>> \o Tail(v)
    [] tag = "sort"      -> <<"sort", v[1], IF Len(v) = 2 THEN v[2] ELSE "asc">>
    [] tag = "body"      -> IF v[2] = <<>> THEN <<"value", v[1]>>
                            ELSE <<"retrying", <<"then", v[1]>>>> \o v[2]
    [] tag = "pattern"   -> IF v[1] \in Capitals THEN <<"ctor", v[1], <<>>>>
                            ELSE <<"var", v[1]>>
    [] OTHER             -> <<tag>> \o v

-----------------------------------------------------------------------------
(* Declarations.                                                           *)

Braced(item, sep) == <<Tok("{"), Until("}", sep, item), Tok("}")>>

\* Setting values are read until the next `key:`, `}` or `route`.
SettingValues ==
  [op |-> "until", close |-> {"}", "route"}, sep |-> "values", parts |-> <<Expr>>]
Setting == Node("setting", <<Key, Tok(":"), SettingValues>>)

EndpointDecl ==
  Node("endpoint", <<Tok("endpoint"), Name>> \o Braced(<<Setting>>, "none"))

TypeDecl ==
  Node("type", <<Take({"type", "contract"}),
         Node("qualified", <<Name, Maybe({"."}, <<Tok("."), Name>>)>>)>>
       \o Braced(<<Node("typed", <<Key, Tok(":"), Rule("type"),
                    Maybe({"where"}, <<Tok("where"), Tok("("),
                                       Rule("constraint"), Tok(")")>>)>>)>>,
                 "optional"))

Constraint ==
  Node("constraint",
    <<Maybe({"length"}, <<Take({"length"})>>),
      Choice(<<Alt({"in"}, {}, <<Node("range",
                  <<Tok("in"), Expr, Tok(".."), Expr>>)>>)>>,
             <<Node("cmp", <<Take(Comparisons), Expr>>)>>)>>)

\* A budget's values are read as expressions, then refused unless they are
\* counts, or for p99 a duration.
BudgetClause ==
  Node("budget", <<Tok("budget"), Tok("("),
    Until(")", "required",
      <<Choice(<<Alt({"p99"}, {},
                     <<Node("limit", <<Key, Tok(":"), Take(Durations)>>)>>)>>,
               <<Node("limit", <<Take({"requests", "parallel", "hops"}),
                                 Tok(":"), Take(Ints)>>)>>)>>),
    Tok(")")>>)

FlowDecl ==
  Node("flow", <<Tok("flow"), Name, Tok("("),
    Until(")", "required", <<Node("param", <<Name, Tok(":"), Rule("type")>>)>>),
    Tok(")"), Maybe({"->"}, <<Tok("->"), Rule("type")>>),
    Maybe({"budget"}, <<BudgetClause>>), Rule("block")>>)

MockDecl ==
  Node("mock", <<Tok("mock"), Name>>
    \o Braced(<<Node("answer", <<Name, Rule("path"), Tok("->"), Expr>>)>>, "none"))

\* A bare handler `-> Flow(x)` is the block `{ return Flow(x) }`.
Handler == Choice(<<Alt({"{"}, {}, <<Rule("block")>>)>>, <<Node("handler", <<Expr>>)>>)
ServerRoute ==
  Node("route", <<Tok("route"), Name, Rule("path"),
                  Maybe({"budget"}, <<BudgetClause>>), Tok("->"), Handler>>)
ServerDecl ==
  Node("server", <<Tok("server"), Name>>
    \o Braced(<<Choice(<<Alt({"route"}, {}, <<ServerRoute>>)>>, <<Setting>>)>>, "none"))

TestDecl == Node("test", <<Tok("test"), Take(Texts), Rule("block")>>)

Item ==
  Choice(<<Alt({"endpoint"}, {}, <<EndpointDecl>>),
           Alt({"type", "contract"}, {}, <<TypeDecl>>),
           Alt({"flow"}, {}, <<FlowDecl>>), Alt({"mock"}, {}, <<MockDecl>>),
           Alt({"test"}, {}, <<TestDecl>>), Alt({"server"}, {}, <<ServerDecl>>)>>,
         <<Rule("stmt")>>)

-----------------------------------------------------------------------------
(* Types.                                                                  *)

TypeAtom ==
  Suffixed(Node("name", <<Name, Maybe({"<"},
             <<Tok("<"), Until(">", "required", <<Rule("type")>>), Tok(">")>>)>>),
           <<Suffix({"["}, {"]"}, "list", <<Tok("["), Tok("]")>>),
             Suffix({"?"}, {}, "optional", <<Tok("?")>>)>>)
Type == Node("union", <<TypeAtom, While({"|"}, <<Tok("|"), TypeAtom>>)>>)

-----------------------------------------------------------------------------
(* Statements.                                                             *)

Block == <<Tok("{"), Until("}", "none", <<Rule("stmt")>>), Tok("}")>>

Binding == Node("bind", <<Name, Maybe({":"}, <<Tok(":"), Rule("type")>>)>>)
Bound == Maybe({"->"}, <<Tok("->"), Binding>>)

\* After a `/` comes a parameter, a word or a number; anything else ends the
\* path and is left for what follows ("tolerate a trailing slash").
Bug_SkipTheWord ==
  LET more == Choice(<<Alt({"/"}, {}, <<Rule("segments")>>)>>, <<>>)
  IN  <<Tok("/"),
        Choice(<<Alt({"{"}, {}, <<Node("given", <<Tok("{"), Expr, Tok("}")>>), more>>),
                 Alt(Names \cup Ints, {}, <<Node("word", <<Take(Names \cup Ints)>>), more>>),
                 Alt(Keywords, {}, <<Skip, more>>)>>,
               <<>>)>>
Segments ==
  LET more == Choice(<<Alt({"/"}, {}, <<Rule("segments")>>)>>, <<>>)
  IN  <<Tok("/"),
        Choice(<<Alt({"{"}, {}, <<Node("given", <<Tok("{"), Expr, Tok("}")>>), more>>),
                 Alt(Names \cup Ints, {}, <<Node("word", <<Take(Names \cup Ints)>>), more>>)>>,
               <<>>)>>

Staged(names) == <<Node("stage", <<Take(names), Tok("("), Expr, Tok(")")>>)>>
By == Maybe({"by"}, <<Tok("by"), Tok(":"), Expr>>)
PipelineOp ==
  LET unary == {"filter", "map", "limit", "take", "skip", "pluck"}
      plain == {"reverse", "flatten", "count"}
  IN  Choice(<<Alt(unary, {}, Staged(unary)),
               Alt({"sort"}, {}, <<Node("sort",
                 <<Tok("sort"), Tok("("), Tok("by"), Tok(":"), Expr,
                   Choice(<<Alt({"asc", "desc"}, {}, <<Take({"asc", "desc"})>>)>>, <<>>),
                   Tok(")")>>)>>),
               Alt(plain, {}, <<Node("whole", <<Take(plain), Tok("("), Tok(")")>>)>>)>>,
             <<Node("keyed", <<Take({"unique", "sum"}), Tok("("), By, Tok(")")>>)>>)

\* A verb is one only when a name follows: `fetch GET /x` asks the endpoint GET.
Method == Node("method", <<Choice(<<Alt(Verbs, Names, <<Take(Verbs)>>)>>, <<>>)>>)
FetchStmt ==
  Node("fetch",
    <<Tok("fetch"), Method, Name, Rule("path"),
      Maybe({"idempotent"}, <<Tok("idempotent"), Tok("("),
                              Node("key", <<Key, Tok(":"), Expr>>), Tok(")")>>),
      Maybe({"body"}, <<Tok("body"), Expr>>),
      Node("params", <<Maybe({"params"}, <<Tok("params")>> \o
              Braced(<<Node("entry", <<Key, Tok(":"), Expr>>)>>, "optional"))>>),
      While({"|"}, <<Tok("|"), PipelineOp>>), Bound>>)

\* The iterable, like a scrutinee, is read with record literals suppressed: the
\* `{` after it opens the body.
ForEach ==
  Node("for", <<Tok("for"), Name, Tok("in"), Scope(TRUE, <<Expr>>), Rule("block")>>)

Stmt ==
  Choice(
    <<Alt({"fetch"}, {}, <<FetchStmt>>),
      Alt({"let"}, {}, <<Node("let", <<Tok("let"), Name, Tok("="), Expr>>)>>),
      Alt({"log"}, {}, <<Node("log", <<Tok("log"), Expr>>)>>),
      Alt({"parallel"}, {}, <<Node("parallel", <<Tok("parallel"), Rule("block")>>)>>),
      Alt({"for"}, {}, <<ForEach>>),
      Alt({"return"}, {"}", "eof"}, <<Node("return", <<Tok("return")>>)>>),
      Alt({"return"}, {}, <<Node("return", <<Tok("return"), Expr>>)>>),
      Alt({"assert"}, {}, <<Node("assert", <<Tok("assert"), Expr>>)>>),
      Alt({"using"}, {}, <<Node("using", <<Tok("using"), Tok("mock"), Name>>)>>)>>,
    <<Node("do", <<Expr, Bound>>)>>)

-----------------------------------------------------------------------------
(* Expressions.  parse_or down to parse_mul are one function per level of  *)
(* precedence, each a loop over operands of the next level: Infix.         *)

Level(op) ==
  CASE op = "or" -> 1 [] op = "and" -> 2 [] op \in Comparisons -> 3
    [] op \in {"+", "-"} -> 4 [] op = "*" -> 5
Operators == {"or", "and", "+", "-", "*"} \cup Comparisons

Fields ==
  <<Tok("{"),
    Scope(FALSE, <<Until("}", "required", <<Node("entry", <<Key, Tok(":"), Expr>>)>>)>>),
    Tok("}")>>

ArrayLit ==
  Node("array", <<Tok("["),
    Scope(FALSE, <<Until("]", "required",
      <<Choice(<<Alt({"..."}, {}, <<Node("spread", <<Tok("..."), Expr>>)>>)>>,
               <<Expr>>)>>)>>),
    Tok("]")>>)

\* The ambiguity no_record settles: a name before a `{` opens a record, except
\* directly in a scrutinee or an iterable.
NamedRecord ==
  [Alt(Names, {"{"}, <<Node("record", <<Maybe(Names, <<Name>>)>> \o Fields)>>)
     EXCEPT !.record = TRUE]

Primary ==
  Choice(
    <<Alt(Literals, {}, <<Node("lit", <<Take(Literals)>>)>>),
      Alt({"."}, {}, <<Node("implicit", <<Tok("."), Name>>)>>),
      Alt({"match"}, {}, <<Rule("match")>>),
      Alt({"("}, {}, <<Node("group", <<Tok("("), Scope(FALSE, <<Expr>>), Tok(")")>>)>>),
      Alt({"{"}, {}, <<Node("record", <<Maybe({}, <<>>)>> \o Fields)>>),
      Alt({"["}, {}, <<ArrayLit>>),
      Alt(Names, {"=>"}, <<Node("lambda", <<Name, Tok("=>"), Expr>>)>>),
      NamedRecord>>,
    <<Node("id", <<Name>>)>>)

Postfix ==
  Suffixed(Primary,
    <<Suffix({"."}, {}, "field", <<Tok("."), Name>>),
      Suffix({"("}, {}, "call",
        <<Tok("("), Scope(FALSE, <<Until(")", "required", <<Expr>>)>>), Tok(")")>>)>>)

Unary ==
  Choice(<<Alt({"not", "-"}, {}, <<Node("unary", <<Take({"not", "-"}), Rule("unary")>>)>>)>>,
         <<Postfix>>)

Match ==
  Node("match", <<Tok("match"), Scope(TRUE, <<Expr>>), Tok("{"),
    Until("}", "optional",
      <<Node("arm", <<Rule("pattern"), Tok("=>"), Rule("armBody")>>)>>),
    Tok("}")>>)

Pattern ==
  Choice(<<Alt({"_"}, {}, <<Node("any", <<Tok("_")>>)>>),
           Alt(Names, {"("}, <<Node("ctor", <<Name, Tok("("),
                  Until(")", "required", <<Rule("pattern")>>), Tok(")")>>)>>)>>,
         <<Node("pattern", <<Name>>)>>)

\* Effects joined by `then` must end in `retry`; an expression alone is a value.
Wait == <<Node("wait", <<Tok("wait"), Tok("("), Expr, Tok(")"), Tok("then")>>),
          Rule("effects")>>
Effects ==
  Choice(<<Alt({"retry"}, {}, <<Node("retry", <<Tok("retry")>>)>>),
           Alt({"wait"}, {}, Wait)>>,
         <<Node("then", <<Expr, Tok("then")>>), Rule("effects")>>)
ArmBody ==
  Choice(<<Alt({"{"}, {}, <<Node("block", <<Rule("block")>>)>>),
           Alt({"retry", "wait"}, {}, <<Node("retrying", <<Rule("effects")>>)>>)>>,
         <<Node("body", <<Expr, Maybe({"then"}, <<Tok("then"), Rule("effects")>>)>>)>>)

RuleBody(n) ==
  CASE n = "item" -> <<Item>>           [] n = "stmt" -> <<Stmt>>
    [] n = "block" -> Block             [] n = "type" -> <<Type>>
    [] n = "constraint" -> <<Constraint>>
    [] n = "path" -> <<Node("path", Segments)>>
    [] n = "segments" -> Segments
    [] n = "expr" -> <<Infix(1)>>       [] n = "unary" -> <<Unary>>
    [] n = "match" -> <<Match>>         [] n = "pattern" -> <<Pattern>>
    [] n = "effects" -> <<Effects>>     [] n = "armBody" -> <<ArmBody>>

-----------------------------------------------------------------------------
(* The cursor.                                                             *)

At(p) == p.toks[p.pos]
AfterNext(p) == p.toks[IF p.pos < Len(p.toks) THEN p.pos + 1 ELSE p.pos]
Bump(p) == IF p.pos < Len(p.toks) THEN [p EXCEPT !.pos = @ + 1] ELSE p
Give(p, v) == [p EXCEPT !.got = Append(@, v)]
Refuse(p) == [p EXCEPT !.ok = FALSE]

Applies(alt, p) ==
  /\ At(p) \in alt.first
  /\ alt.second = {} \/ AfterNext(p) \in alt.second
  /\ ~(alt.record /\ p.norec)
Chosen(g, p) ==
  LET k == SelectInSeq(g.alts, LAMBDA a : Applies(a, p))
  IN  IF k = 0 THEN g.otherwise ELSE g.alts[k].parts

\* Whether a loop stops before another round.
Closed(g, p, rounds) ==
  IF g.sep = "values"
  THEN /\ rounds > 0
       /\ \/ At(p) \in g.close \cup {"eof"}
          \/ At(p) \in Names \cup Keywords /\ AfterNext(p) = ":"
  ELSE At(p) \in g.close \cup {"eof"}

\* A rule that fails leaves the cursor, and no_record, where it failed.
RECURSIVE Run(_, _), RunAll(_, _), Loop(_, _), Wrap(_, _), Climb(_, _)

Sub(parts, p) == RunAll(parts, [p EXCEPT !.got = <<>>])
Back(p, q, v) == IF q.ok THEN [q EXCEPT !.got = Append(p.got, v)] ELSE q

RunAll(parts, p) ==
  IF parts = <<>> THEN p
  ELSE LET q == Run(Head(parts), p) IN IF q.ok THEN RunAll(Tail(parts), q) ELSE q

Loop(g, p) ==
  IF IF g.op = "while" THEN At(p) \notin g.at ELSE Closed(g, p, Len(p.got)) THEN p
  ELSE LET q == RunAll(g.parts, p)
       IN  CASE ~q.ok -> q
             [] g.op = "while" -> Loop(g, q)
             [] g.sep \in {"optional", "required"} /\ At(q) = "," -> Loop(g, Bump(q))
             [] g.sep = "required" -> q
             [] OTHER -> Loop(g, q)

Wrap(g, p) ==
  LET k == SelectInSeq(g.alts, LAMBDA a : Applies(a, p))
  IN  IF k = 0 THEN p
      ELSE LET q == RunAll(g.alts[k].parts, p)
           IN  IF q.ok THEN Wrap(g, [q EXCEPT !.got = <<Make(g.alts[k].tag, q.got)>>])
               ELSE q

\* What p holds is the left operand of the next operator, if it is one of ours.
Climb(level, p) ==
  IF At(p) \notin Operators \/ Level(At(p)) < level THEN p
  ELSE LET q == Run(Infix(Level(At(p)) + 1), [Bump(p) EXCEPT !.got = <<>>])
       IN  IF q.ok
           THEN Climb(level, [q EXCEPT !.got = <<<<"bin", p.got[1], At(p), q.got[1]>>>>])
           ELSE q

Run(g, p) ==
  CASE g.op = "tok"      -> IF At(p) = g.token THEN Bump(p) ELSE Refuse(p)
    [] g.op = "take"     -> IF At(p) \in g.set THEN Give(Bump(p), At(p)) ELSE Refuse(p)
    [] g.op = "skip"     -> Bump(p)
    [] g.op = "rule"     -> RunAll(RuleBody(g.name), p)
    [] g.op = "choice"   -> RunAll(Chosen(g, p), p)
    [] g.op = "node"     -> LET q == Sub(g.parts, p)
                            IN  IF q.ok THEN Back(p, q, Make(g.tag, q.got)) ELSE q
    [] g.op = "maybe"    -> IF At(p) \notin g.at THEN Give(p, <<>>)
                            ELSE LET q == Sub(g.parts, p) IN Back(p, q, q.got)
    [] g.op = "scope"    -> LET q == RunAll(g.parts, [p EXCEPT !.norec = g.norec])
                            IN  IF q.ok THEN [q EXCEPT !.norec = p.norec] ELSE q
    [] g.op = "infix"    -> LET q == Run(Unary, [p EXCEPT !.got = <<>>])
                                r == IF q.ok THEN Climb(g.level, q) ELSE q
                            IN  IF r.ok THEN Back(p, r, r.got[1]) ELSE r
    [] g.op = "suffixed" -> LET q == Run(g.base, [p EXCEPT !.got = <<>>])
                                r == IF q.ok THEN Wrap(g, q) ELSE q
                            IN  IF r.ok THEN Back(p, r, r.got[1]) ELSE r
    [] OTHER             -> LET q == Loop(g, [p EXCEPT !.got = <<>>])
                            IN  Back(p, q, q.got)

=============================================================================
