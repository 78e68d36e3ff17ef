------------------------------ MODULE MCReading ------------------------------
(***************************************************************************)
(* Instances of Reading: every expression tree of depth two over one of    *)
(* each kind of node and some of depth three, with all their parentheses;  *)
(* every keyword in a path; statements one after another; one of every     *)
(* declaration and statement; and typos between whole declarations.        *)
(***************************************************************************)
EXTENDS Reading

MCCapitals == {"A", "R", "Ok"}
MCNames == {"x", "f", "_", "GET", "POST", "body", "length", "requests", "p99",
            "key", "sort", "limit", "unique", "count"} \cup MCCapitals
MCInts == {"1", "7", "007"}
MCDurations == {"5s", "5000ms"}
MCFloats == {"1.0", "1.5"}
MCEnvVars == {"$V"}

\* Texts, with ' for the quote: s, s with a needless escape, s's, and the last two
\* with their backslashes and quotes escaped once more.
Escaped == "'\\s'"
Quote == "'s\\'s'"
EscapedTwice == "'\\\\s'"
QuoteTwice == "'s\\\\\\'s'"
MCTexts == {"'s'", Escaped, Quote, EscapedTwice, QuoteTwice}

MCDenotes(t) ==
  CASE t = "007" -> "7" [] t = "5s" -> "5000ms" [] t = Escaped -> "'s'" [] OTHER -> t
MCDigits(t) == IF t = "1.0" THEN "1" ELSE t
MCDebugged(t) ==
  CASE t = Escaped -> EscapedTwice [] t = Quote -> QuoteTwice
    [] t \in {EscapedTwice, QuoteTwice} -> "'..'"   \* longer still
    [] OTHER -> t

Plain(toks) == [lead |-> toks, typo |-> <<>>, rest |-> <<>>, means |-> <<>>, words |-> {}]
Meaning(toks, item) == [Plain(toks) EXCEPT !.means = << <<item>> >>]

-----------------------------------------------------------------------------
(* Expressions, and the text that groups every subexpression.              *)

X == <<"id", "x">>
Leaves == {X}
Shapes(a) ==
  {<<"unary", op, e>> : op \in {"not", "-"}, e \in a}
    \cup {<<"bin", l, op, r>> : l \in a, op \in {"-", "*", "=="}, r \in a}
    \cup {<<"field", e, "f">> : e \in a} \cup {<<"call", e, <<X>>>> : e \in a}
    \cup {<<"lambda", "x", e>> : e \in a}
    \cup {<<"record", n, << <<"entry", "f", e>> >>>> : n \in {<<>>, <<"R">>}, e \in a}
    \cup {<<"array", << <<"spread", e>>, e>>>> : e \in a}
    \cup {<<"match", s, << <<"arm", <<"ctor", "Ok", << <<"var", "x">> >>>>, <<"value", e>>>> >>>>
           : s \in a, e \in a}
Small == Leaves \cup Shapes(Leaves)
Edges ==   \* a lambda at a right edge, a named record in an arm
  LET lambda == <<"lambda", "x", X>>
      record == <<"record", <<"R">>, << <<"entry", "f", X>> >>>>
  IN  {<<"unary", "not", lambda>>, <<"bin", X, "-", lambda>>, <<"bin", X, "*", X>>,
       <<"match", X, << <<"arm", <<"ctor", "Ok", << <<"var", "x">> >>>>, <<"value", record>>>> >>>>}
Trees == Small \cup Shapes(Small) \cup Shapes(Edges)

RECURSIVE Grouped(_)
Group(e) == IF e[1] = "id" THEN <<e[2]>> ELSE Wrapped("(", Grouped(e), ")")
Grouped(e) ==
  CASE e[1] = "id"     -> <<e[2]>>
    [] e[1] = "unary"  -> <<e[2]>> \o Group(e[3])
    [] e[1] = "bin"    -> Group(e[2]) \o <<e[3]>> \o Group(e[4])
    [] e[1] = "field"  -> Group(e[2]) \o <<".", e[3]>>
    [] e[1] = "call"   -> Group(e[2]) \o <<"(", "x", ")">>
    [] e[1] = "lambda" -> <<e[2], "=>">> \o Group(e[3])
    [] e[1] = "record" -> e[2] \o <<"{", e[3][1][2], ":">> \o Group(e[3][1][3]) \o <<"}">>
    [] e[1] = "array"  -> <<"[", "...">> \o Group(e[2][1][2]) \o <<",">> \o Group(e[2][2])
                            \o <<"]">>
    [] e[1] = "match"  -> <<"match">> \o Group(e[2]) \o <<"{", "Ok", "(", "x", ")", "=>">>
                            \o Group(e[3][1][3][2]) \o <<"}">>

Expressions ==
  {Meaning(<<"log">> \o Grouped(e), <<"log", e>>) : e \in Trees}
    \cup {Meaning(<<"for", "x", "in">> \o Group(e) \o <<"{", "}">>, <<"for", "x", e, <<>>>>)
           : e \in Small \cup Edges}

Chains ==   \* chains without parentheses group to the left
  {Meaning(<<"log", "x", "-", "x", op, "x">>,
           <<"log", <<"bin", <<"bin", X, "-", X>>, op, X>>>>) : op \in {"+", "-"}}
    \cup {Plain(<<"log", t>>) : t \in {"1.0", "1.5", "007", "5s"} \cup MCTexts}

\* What the printer takes for needless: parentheses around a right operand.
Parenthesised ==
  {Meaning(<<"log", "x", "-", "(", "x", "-", "x", ")">>,
           <<"log", <<"bin", X, "-", <<"bin", X, "-", X>>>>>>)}

-----------------------------------------------------------------------------
(* One statement after another.                                            *)

Firsts ==
  {<<"log", "(", "x", ")">>, <<"let", "f", "=", "(", "x", ")">>, <<"(", "x", ")">>,
   <<"assert", "1">>, <<"fetch", "A", "/">>, <<"fetch", "A", "/", "x">>,
   <<"fetch", "A", "/", "idempotent", "(", "key", ":", "x", ")">>,
   <<"fetch", "A", "/", "x", "body", "(", "x", ")">>,
   <<"fetch", "A", "/", "->", "x">>, <<"fetch", "A", "/", "->", "x", ":", "R">>,
   <<"x", "->", "x", ":", "R">>, <<"for", "x", "in", "x", "{", "}">>,
   <<"match", "x", "{", "_", "=>", "{", "return", "(", "x", ")", "}", "}">>}
Seconds ==
  {<<"{", "f", ":", "1", "}">>, <<"(", "f", ")">>, <<"(", "7", ")">>,
   <<"(", "{", "f", ":", "1", "}", ")">>, <<"(", "body", ")", "x">>,
   <<"(", "[", "]", ")">>, <<"(", "-", "x", ")">>, <<"(", "x", ")", "-", "x">>,
   <<"log", "x">>}
Neighbours ==
  {Plain(a \o b) : a \in Firsts, b \in Seconds}
    \cup {Plain(<<"parallel", "{">> \o a \o b \o <<"}">>) : a \in Firsts, b \in Seconds}
    \cup {Plain(<<"endpoint", "A", "{", "f", ":", "(", "x", ")", "{", "f", ":", "1", "}", "}">>)}

-----------------------------------------------------------------------------
(* A word at the end of a path.                                            *)

Fetched(words, bind) ==
  <<"fetch", "GET", "A",
    <<"path">> \o [k \in DOMAIN words |-> <<"word", MCDenotes(words[k])>>],
    <<>>, <<>>, <<>>, <<>>, bind>>
Paths ==
  UNION {
    {[Meaning(<<"fetch", "A", "/", "x", "/", w, "->", "f">>,
              Fetched(<<"x", w>>, << <<"bind", "f", <<>>>> >>)) EXCEPT !.words = {w}],
     [Meaning(<<"fetch", "A", "/", w>>, Fetched(<<w>>, <<>>)) EXCEPT !.words = {w}],
     [Meaning(<<"parallel", "{", "fetch", "A", "/", "x", "/", w, "}">>,
              <<"parallel", <<Fetched(<<"x", w>>, <<>>)>>>>) EXCEPT !.words = {w}]}
    : w \in Keywords \cup {"x", "7", "007"}}

-----------------------------------------------------------------------------
(* Declarations, each whole.                                               *)

Endpoint == <<"endpoint", "A", "{", "f", ":", "'s'", "retry", ":", "1", "f", "(", "x", ")",
              "f", ":", "5s", "}">>
Contract == <<"contract", "A", ".", "R", "{", "type", ":", "x", "[", "]", "?",
              "where", "(", "length", "in", "1", "..", "7", ")",
              "f", ":", "R", "<", "x", ",", "A", ">", "|", "x", "where", "(", ">", "1", ")", "}">>
Flow == <<"flow", "f", "(", "x", ":", "R", ")", "->", "R",
          "budget", "(", "p99", ":", "5s", ",", "requests", ":", "1", ",", "requests", ":", "7", ")",
          "{", "fetch", "POST", "A", "/", "x", "/", "{", "x", ".", "f", "}",
               "idempotent", "(", "f", ":", "$V", ")", "body", "{", "f", ":", "x", "}",
               "params", "{", "f", ":", "1", "x", ":", "7", "}",
               "|", "sort", "(", "by", ":", ".", "f", "desc", ")", "|", "limit", "(", "1", ")",
               "|", "unique", "(", "by", ":", ".", "f", ")", "|", "count", "(", ")",
               "->", "x", ":", "R",
               "match", "x", "{", "Ok", "(", "x", ")", "=>", "R", "{", "f", ":", "x", "}", ",",
                  "x", "=>", "f", "(", ")", "then", "wait", "(", "5s", ")", "then", "retry",
                  "_", "=>", "{", "return", "}", "}",
               "return", "x", "}">>
Mock == <<"mock", "A", "{", "GET", "/", "x", "->", "R", "{", "f", ":", "1", "}", "}">>
Server == <<"server", "A", "{", "route", "GET", "/", "{", "x", "}", "->", "f", "(", "x", ")",
            "f", ":", "7", "}">>
Test == <<"test", "'s'", "{", "using", "mock", "A", "let", "x", "=", "f", "(", ")",
          "assert", "x", "==", "1", "}">>
Declarations == {Endpoint, Contract, Flow, Mock, Server, Test}
Descriptions == {<<"test", t, "{", "}">> : t \in MCTexts}

Typos ==
  {<<"flow", "f", "(", "x", ")", "{", "}">>,            \* a parameter without a type
   <<"test", "{", "}">>,                                \* no description
   <<"flow", "f", "(", ")", "{", "let", "x", "1", "}">>,
   <<"flow", "f", "(", ")", "{", "log", "x">>,          \* the block is not closed
   <<"endpoint", "A", "{", "f", ":", "1">>,
   <<"endpoint", "A", "{">>,                            \* a key is expected next
   <<"fetch", "A", "x">>,
   <<"let", "x", "=">>,
   <<")">>,
   <<"for", "x", "in", "{", "}">>,                      \* no iterable
   <<"match", ")", "{", "}">>,                          \* no scrutinee
   <<"flow", "f", "(", ")", "{", "match", "x", ".", "}">>,
   <<"type", "R", "{", "f", ":", "}">>}
Damaged ==
  {[lead |-> lead, typo |-> typo, rest |-> rest, means |-> <<>>, words |-> {}]
     : lead \in {<<>>, Mock}, typo \in Typos, rest \in Declarations}

MCSources ==
  Expressions \cup Chains \cup Parenthesised \cup Neighbours \cup Paths \cup Damaged
    \cup {Plain(d) : d \in Declarations \cup Descriptions}
=============================================================================
