------------------------------ MODULE Formatter ------------------------------
(***************************************************************************)
(* The pretty-printer (crates/hale-syntax/src/pretty.rs): from a syntax    *)
(* tree back to tokens.  `hale fmt` prints programs with it; the optimizer *)
(* compares requests by the text it gives their expressions (fetch_sig).   *)
(***************************************************************************)
EXTENDS Syntax

CONSTANTS
  Digits(_),   \* how Rust prints a float: a whole one without its point
  Debugged(_)  \* a text as {:?} prints it: a backslash before each quote and backslash

Between(sep, texts) ==   \* Vec::join
  FoldLeft(LAMBDA acc, t : IF acc = <<>> THEN t ELSE acc \o <<sep>> \o t, <<>>, texts)
Each(Op(_), nodes) == [k \in DOMAIN nodes |-> Op(nodes[k])]
Wrapped(open, text, close) == <<open>> \o text \o <<close>>

Precedence(op) ==
  CASE op = "or"            -> 1
    [] op = "and"           -> 2
    [] op \in Comparisons   -> 3
    [] op \in {"+", "-"}    -> 4
    [] op = "*"             -> 5

RECURSIVE TypeText(_), PatternText(_), Text(_)
Lines(nodes) == FlattenSeq(Each(Text, nodes))   \* each on a line of its own

TypeText(t) ==
  CASE t[1] = "name"     -> <<t[2]>> \o (IF t[3] = <<>> THEN <<>>
                              ELSE Wrapped("<", Between(",", Each(TypeText, t[3][1])), ">"))
    [] t[1] = "list"     -> TypeText(t[2]) \o <<"[", "]">>
    [] t[1] = "optional" -> TypeText(t[2]) \o <<"?">>
    [] t[1] = "union"    -> Between("|", Each(TypeText, t[2]))

PatternText(p) ==
  CASE p[1] = "any"  -> <<"_">>
    [] p[1] = "var"  -> <<p[2]>>
    [] p[1] = "ctor" -> <<p[2]>> \o (IF p[3] = <<>> THEN <<>>
                          ELSE Wrapped("(", Between(",", Each(PatternText, p[3])), ")"))

\* An operand is parenthesised when its operator binds less tightly than its
\* parent's, on whichever side it stands.
Bug_NoParentheses(e, parent) == Text(e)
Operand(e, parent) ==
  IF e[1] = "bin" /\ Precedence(e[3]) < parent
  THEN Wrapped("(", Text(e), ")") ELSE Text(e)

Entry(f) == <<f[2], ":">> \o Text(f[3])

ArmText(arm) ==
  LET body == arm[3]
      effect(f) == CASE f[1] = "wait"  -> Wrapped("wait", Wrapped("(", Text(f[2]), ")"), "then")
                     [] f[1] = "then"  -> Append(Text(f[2]), "then")
                     [] f[1] = "retry" -> <<"retry">>
  IN  Append(PatternText(arm[2]), "=>") \o
        CASE body[1] = "value"    -> Text(body[2])
          [] body[1] = "block"    -> Wrapped("{", Lines(body[2]), "}")
          [] body[1] = "retrying" -> FlattenSeq(Each(effect, Tail(body)))

Expression(e) ==
  LET list(open, parts, close) == Wrapped(open, Between(",", Each(Text, parts)), close)
  IN  CASE e[1] = "lit"      -> <<Digits(e[2])>>
        [] e[1] = "id"       -> <<e[2]>>
        [] e[1] = "implicit" -> <<".", e[2]>>
        [] e[1] = "field"    -> Text(e[2]) \o <<".", e[3]>>
        [] e[1] = "call"     -> Text(e[2]) \o list("(", e[3], ")")
        [] e[1] = "unary"    -> <<e[2]>> \o Text(e[3])
        [] e[1] = "bin"      -> Operand(e[2], Precedence(e[3])) \o <<e[3]>>
                                  \o Operand(e[4], Precedence(e[3]))
        [] e[1] = "record"   -> e[2] \o Wrapped("{", Between(",", Each(Entry, e[3])), "}")
        [] e[1] = "array"    -> list("[", e[2], "]")
        [] e[1] = "spread"   -> <<"...">> \o Text(e[2])
        [] e[1] = "lambda"   -> <<e[2], "=>">> \o Text(e[3])
        [] e[1] = "match"    -> <<"match">> \o Text(e[2])
                                  \o Wrapped("{", FlattenSeq(Each(ArmText, e[3])), "}")

PathText(p) ==
  LET segment(s) == IF s[1] = "word" THEN <<"/", s[2]>>
                    ELSE <<"/">> \o Wrapped("{", Text(s[2]), "}")
  IN  IF Tail(p) = <<>> THEN <<"/">> ELSE FlattenSeq(Each(segment, Tail(p)))

BindText(bind) ==
  IF bind = <<>> THEN <<>>
  ELSE <<"->", bind[1][2]>> \o
         (IF bind[1][3] = <<>> THEN <<>> ELSE <<":">> \o TypeText(bind[1][3][1]))

SortText(s) == <<"sort", "(", "by", ":">> \o Text(s[2]) \o <<s[3], ")">>

StageText(s) ==
  <<"|">> \o
    CASE s[1] = "stage" -> <<s[2]>> \o Wrapped("(", Text(s[3]), ")")
      [] s[1] = "sort"  -> SortText(s)
      [] s[1] = "whole" -> <<s[2], "(", ")">>
      [] s[1] = "keyed" -> <<s[2]>> \o Wrapped("(",
           IF s[3] = <<>> THEN <<>> ELSE <<"by", ":">> \o Text(s[3][1]), ")")

FetchText(s) ==
  LET given(opt, before, after) ==
        IF opt = <<>> THEN <<>> ELSE before \o Text(opt[1]) \o after
  IN  <<"fetch">> \o (IF s[2] = "GET" THEN <<>> ELSE <<s[2]>>) \o <<s[3]>> \o PathText(s[4])
        \o given(s[5], <<"idempotent", "(", "key", ":">>, <<")">>)
        \o given(s[6], <<"body">>, <<>>)
        \o (IF s[7] = <<>> THEN <<>>
            ELSE <<"params">> \o Wrapped("{", Between(",", Each(Entry, s[7])), "}"))
        \o FlattenSeq(Each(StageText, s[8])) \o BindText(s[9])

Statement(s) ==
  CASE s[1] = "fetch"    -> FetchText(s)
    [] s[1] = "let"      -> <<"let", s[2], "=">> \o Text(s[3])
    [] s[1] = "log"      -> <<"log">> \o Text(s[2])
    [] s[1] = "parallel" -> <<"parallel">> \o Wrapped("{", Lines(s[2]), "}")
    [] s[1] = "for"      -> <<"for", s[2], "in">> \o Text(s[3])
                              \o Wrapped("{", Lines(s[4]), "}")
    [] s[1] = "return"   -> <<"return">> \o FlattenSeq(Each(Text, Tail(s)))
    [] s[1] = "assert"   -> <<"assert">> \o Text(s[2])
    [] s[1] = "using"    -> <<"using", "mock", s[2]>>
    [] s[1] = "do"       -> Text(s[2]) \o BindText(s[3])

-----------------------------------------------------------------------------
(* Declarations.                                                           *)

BudgetText(budget) ==
  LET limit(f) == <<f[2], ":", f[3]>>
  IN  IF budget = <<>> \/ budget[1][2] = <<>> THEN <<>>
      ELSE <<"budget">> \o Wrapped("(", Between(",", Each(limit, budget[1][2])), ")")

ConstraintText(c) ==
  LET rel == c[3]
  IN  c[2] \o (IF rel[1] = "cmp" THEN <<rel[2]>> \o Text(rel[3])
               ELSE <<"in">> \o Text(rel[2]) \o <<"..">> \o Text(rel[3]))

SettingText(s) == <<s[2], ":">> \o FlattenSeq(Each(Text, s[3]))
RouteText(r) ==
  <<"route", r[2]>> \o PathText(r[3]) \o BudgetText(r[4]) \o <<"->">>
    \o Wrapped("{", Lines(r[5]), "}")
FieldText(f) ==
  <<f[2], ":">> \o TypeText(f[3]) \o
    (IF f[4] = <<>> THEN <<>>
     ELSE <<"where">> \o Wrapped("(", ConstraintText(f[4][1]), ")"))
AnswerText(a) == <<a[2]>> \o PathText(a[3]) \o <<"->">> \o Text(a[4])
ParamText(p) == <<p[2], ":">> \o TypeText(p[3])

ItemText(d) ==
  LET braced(texts) == Wrapped("{", FlattenSeq(texts), "}")
  IN  CASE d[1] = "endpoint" -> <<"endpoint", d[2]>> \o braced(Each(SettingText, d[3]))
        [] d[1] = "type"     -> <<d[2], d[3]>> \o braced(Each(FieldText, d[4]))
        [] d[1] = "flow"     ->
             <<"flow", d[2]>> \o Wrapped("(", Between(",", Each(ParamText, d[3])), ")")
               \o (IF d[4] = <<>> THEN <<>> ELSE <<"->">> \o TypeText(d[4][1]))
               \o BudgetText(d[5]) \o braced(Each(Text, d[6]))
        [] d[1] = "mock"     -> <<"mock", d[2]>> \o braced(Each(AnswerText, d[3]))
        \* A description is what stood between the quotes, escapes and all.
        [] d[1] = "test"     -> <<"test", Debugged(d[2])>> \o braced(Each(Text, d[3]))
        [] d[1] = "server"   ->
             <<"server", d[2]>> \o braced(Each(SettingText, d[3]) \o Each(RouteText, d[4]))
        [] OTHER             -> Statement(d)

\* A node that has a place of its own: an expression, a statement or an item.
ExpressionTags == {"lit", "id", "implicit", "field", "call", "unary", "bin", "record",
                   "array", "spread", "lambda", "match"}
Text(node) == IF node[1] \in ExpressionTags THEN Expression(node) ELSE ItemText(node)

\* pretty::program
Format(items) == Lines(items)
=============================================================================
