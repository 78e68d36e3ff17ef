------------------------------- MODULE Reading -------------------------------
(***************************************************************************)
(* Reading a program: parse_program with its recovery from errors, and the *)
(* formatter applied to what was read.  One step reads one item, or gives  *)
(* it up and skips to the next token that begins one.                      *)
(***************************************************************************)
EXTENDS Formatter

\* A source is [lead, typo, rest, means, words]: its tokens in three parts; where
\* the instance says so, the items it stands for (<<items>>, else <<>>); and the
\* words its paths end in.
CONSTANT Sources

VARIABLES
  source,  \* the text being read
  pos,     \* Parser.pos
  norec,   \* Parser.no_record
  items,   \* the program so far
  faults   \* where a diagnostic was recorded

vars == <<source, pos, norec, items, faults>>

Tokens(s) == s.lead \o s.typo \o s.rest \o <<"eof">>
Cursor(toks, at, nr) ==
  [toks |-> toks, pos |-> at, norec |-> nr, ok |-> TRUE, got |-> <<>>]

\* Parser::parse_item, at the present token.
ItemHere == Run(Item, Cursor(Tokens(source), pos, norec))
AtEnd == Tokens(source)[pos] = "eof"

Bug_ServersForgotten ==
  {"endpoint", "type", "contract", "flow", "mock", "test", "fetch",
   "let", "log", "parallel", "for"}
ItemStarts ==
  {"endpoint", "type", "contract", "flow", "mock", "test", "server", "fetch",
   "let", "log", "parallel", "for"}

\* recover_to_item: the first token from p on that may begin an item, or eof.
Recovered(toks, p) ==
  CHOOSE q \in p..Len(toks) :
    /\ toks[q] \in ItemStarts \cup {"eof"}
    /\ \A r \in p..(q - 1) : toks[r] \notin ItemStarts \cup {"eof"}

ReadItem ==
  /\ ~AtEnd
  /\ LET p == ItemHere
     IN  /\ p.ok
         /\ items' = items \o p.got
         /\ pos' = p.pos
         /\ norec' = p.norec
  /\ UNCHANGED <<source, faults>>

\* The parser's flags stay as the failing rule left them.
GiveUpItem ==
  /\ ~AtEnd
  /\ LET p == ItemHere
         q == Recovered(p.toks, p.pos)
     IN  /\ ~p.ok
         /\ faults' = Append(faults, p.pos)
         /\ norec' = p.norec
         /\ pos' = IF q = pos /\ p.toks[q] # "eof" THEN q + 1 ELSE q
  /\ UNCHANGED <<source, items>>

ReadingInit ==
  /\ source \in Sources
  /\ pos = 1
  /\ norec = FALSE
  /\ items = <<>>
  /\ faults = <<>>

ReadingNext == ReadItem \/ GiveUpItem

ReadingSpec == ReadingInit /\ [][ReadingNext]_vars

-----------------------------------------------------------------------------
(* A whole text at once, for the properties: [ok, items].                  *)

RECURSIVE ReadFrom(_, _)
ReadFrom(p, done) ==
  IF At(p) = "eof" THEN [ok |-> TRUE, items |-> done]
  ELSE LET q == Run(Item, p)
       IN  IF q.ok THEN ReadFrom([q EXCEPT !.got = <<>>], done \o q.got)
           ELSE [ok |-> FALSE, items |-> done]
Read(text) == ReadFrom(Cursor(text \o <<"eof">>, 1, FALSE), <<>>)

Accepted == AtEnd /\ faults = <<>>

-----------------------------------------------------------------------------
(* What printing keeps.                                                    *)

\* A lambda at the right edge reaches as far right as it can.
RECURSIVE EndsOpen(_), BareRecord(_), Regular(_)
Bare(e, parent) == ~(e[1] = "bin" /\ Precedence(e[3]) < Precedence(parent))
EndsOpen(e) ==
  \/ e[1] = "lambda"
  \/ e[1] = "unary" /\ EndsOpen(e[3])
  \/ e[1] = "bin" /\ Bare(e[4], e[3]) /\ EndsOpen(e[4])

\* A named record outside any bracket of the printed text.
BareRecord(e) ==
  \/ e[1] = "record" /\ e[2] # <<>>
  \/ e[1] \in {"field", "call"} /\ BareRecord(e[2])
  \/ e[1] \in {"unary", "lambda"} /\ BareRecord(e[3])
  \/ e[1] = "bin" /\ \E k \in {2, 4} : Bare(e[k], e[3]) /\ BareRecord(e[k])
  \/ e[1] = "match" /\ \E k \in DOMAIN e[3] :
       LET body == e[3][k][3] IN body[1] # "value" \/ BareRecord(body[2])

\* Nothing printed separates a statement from the next, and the parentheses that
\* did are gone: `log (x)` before `{ f: 1 }` is printed as a record's name, and
\* the `(f)` after `fetch A /` as the word its path lacks.
EndsInExpression(d) ==
  \/ d[1] \in {"let", "log", "assert"}
  \/ d[1] = "return" /\ Len(d) = 2
  \/ d[1] = "do" /\ d[3] = <<>>
  \/ d[1] = "fetch" /\ d[6] # <<>> /\ d[7] = <<>> /\ d[8] = <<>> /\ d[9] = <<>>
Glued(d, last, first) ==
  \/ EndsInExpression(d) /\ first = "{" /\ last \in Names
  \/ /\ d[1] = "fetch" /\ d[6] = <<>> /\ d[7] = <<>> /\ d[8] = <<>> /\ d[9] = <<>>
     /\ \/ d[5] = <<>> /\ Len(d[4]) = 1 /\ first \in Names \cup Ints \cup {"{"}
        \/ first = "body"
  \/ /\ \/ d[1] = "fetch" /\ d[9] # <<>> /\ d[9][1][3] # <<>>
        \/ d[1] = "do" /\ d[3] # <<>> /\ d[3][1][3] # <<>>
     /\ first = "["
RegularLines(nodes) ==
  /\ \A k \in DOMAIN nodes : Regular(nodes[k])
  /\ \A k \in 1..(Len(nodes) - 1) :
       ~Glued(nodes[k], Last(Text(nodes[k])), Head(Text(nodes[k + 1])))

\* The expressions the printer writes unambiguously.
AllRegular(nodes, at) == \A k \in DOMAIN nodes : Regular(nodes[k][at])
RegularArm(body) ==
  CASE body[1] = "value"    -> Regular(body[2]) /\ Head(Text(body[2])) # "{"
    [] body[1] = "block"    -> RegularLines(body[2])
    [] body[1] = "retrying" ->
         \A k \in 2..Len(body) : body[k][1] # "retry" =>
           Regular(body[k][2]) /\ Head(Text(body[k][2])) # "{"
RegularExpression(e) ==
  /\ e[1] = "lit" => Digits(e[2]) = e[2]
  /\ e[1] \in {"field", "call"} =>
       e[2][1] \notin {"bin", "unary", "lambda"} /\ Regular(e[2])
  /\ e[1] = "call" => \A k \in DOMAIN e[3] : Regular(e[3][k])
  /\ e[1] = "unary" => e[3][1] # "bin" /\ Regular(e[3])
  /\ e[1] = "bin" =>
       /\ Regular(e[2]) /\ Regular(e[4])
       /\ Bare(e[2], e[3]) => ~EndsOpen(e[2])
       /\ e[4][1] = "bin" => Precedence(e[4][3]) # Precedence(e[3])
  /\ e[1] = "record" => AllRegular(e[3], 3)
  /\ e[1] = "array" => \A k \in DOMAIN e[2] : Regular(e[2][k])
  /\ e[1] = "spread" => Regular(e[2])
  /\ e[1] = "lambda" => Regular(e[3])
  /\ e[1] = "match" =>
       /\ Regular(e[2]) /\ ~BareRecord(e[2])
       /\ \A k \in DOMAIN e[3] : RegularArm(e[3][k][3])

RegularStatement(d) ==
  /\ d[1] \in {"log", "assert", "do"} => Regular(d[2])
  /\ d[1] = "let" => Regular(d[3])
  /\ d[1] = "return" => \A k \in 2..Len(d) : Regular(d[k])
  /\ d[1] = "parallel" => RegularLines(d[2])
  /\ d[1] = "for" => Regular(d[3]) /\ ~BareRecord(d[3]) /\ RegularLines(d[4])
  /\ d[1] = "fetch" =>
       /\ \A k \in 2..Len(d[4]) : d[4][k][1] = "given" => Regular(d[4][k][2])
       /\ \A k \in {5, 6} : \A n \in DOMAIN d[k] : Regular(d[k][n])
       /\ AllRegular(d[7], 3)
       /\ \A k \in DOMAIN d[8] :
            LET s == d[8][k]
            IN  /\ s[1] = "stage" => Regular(s[3])
                /\ s[1] = "sort" => Regular(s[2])
                /\ s[1] = "keyed" => \A n \in DOMAIN s[3] : Regular(s[3][n])

\* Of a setting's values one may swallow the next, as of statements.
RegularSettings(settings) ==
  \A k \in DOMAIN settings :
    RegularLines([n \in DOMAIN settings[k][3] |-> <<"do", settings[k][3][n], <<>>>>])
\* Of constraints, those on literals.
LiteralBounds(field) ==
  \A k \in DOMAIN field[4] :
    LET rel == field[4][k][3]
    IN  \A n \in {2, 3} : rel[1] = "range" \/ n = 3 =>
          rel[n][1] = "lit" /\ Regular(rel[n])
RegularItem(d) ==
  CASE d[1] = "endpoint" -> RegularSettings(d[3])
    [] d[1] = "type"     -> \A k \in DOMAIN d[4] : LiteralBounds(d[4][k])
    [] d[1] = "flow"     -> RegularLines(d[6])
    [] d[1] = "mock"     -> AllRegular(d[3], 4)
    [] d[1] = "test"     -> RegularLines(d[3])
    [] d[1] = "server"   -> /\ RegularSettings(d[3])
                            /\ \A k \in DOMAIN d[4] : RegularLines(d[4][k][5])
    [] OTHER             -> RegularStatement(d)
Regular(node) ==
  IF node[1] \in ExpressionTags THEN RegularExpression(node) ELSE RegularItem(node)
RegularProgram == RegularLines(items)

\* A description without a quote or a backslash.
PlainDescriptions ==
  \A k \in DOMAIN items : items[k][1] = "test" => Debugged(items[k][2]) = items[k][2]

-----------------------------------------------------------------------------
(* Properties.                                                             *)

\* A text is read as the program it spells: every tree can be written with
\* parentheses, and none is lost between two rules; a keyword in a path may be
\* refused, never dropped.  Excepted are the words which alone are a statement
\* (ValueWord): the path ends before one, which is read as the next statement.
ValueWord == {"true", "false", "null", "return"}
ReadsAsWritten ==
  AtEnd /\ source.means # <<>> /\ source.words \cap ValueWord = {} =>
    /\ source.words \cap Keywords = {} => faults = <<>>
    /\ faults = <<>> => items = source.means[1]

\* Printing a program and reading the text back gives the same program, as long
\* as the printer needs no parentheses it leaves out, within an expression or
\* between two statements, and no description needs an escape.
FormatKeepsMeaning ==
  Accepted /\ RegularProgram /\ PlainDescriptions =>
    Read(Format(items)) = [ok |-> TRUE, items |-> items]


\* A typo costs its own item only: what was read before it stays, and the items
\* from the next declaration on are read as they would be alone.  The typo must
\* be noticed before the next item's name, and not between a `match` or `for`
\* and its `{`, where no_record is left set.
NoticedInTime ==
  faults # <<>> => faults[1] <= Len(source.lead) + Len(source.typo) + 1
OnlyTheTypo ==
  /\ IsPrefix(Read(source.lead).items, items)
  /\ IsSuffix(Read(source.rest).items, items)
RecoveryIsLocal ==
  AtEnd /\ source.typo # <<>> /\ NoticedInTime /\ ~norec => OnlyTheTypo
=============================================================================
