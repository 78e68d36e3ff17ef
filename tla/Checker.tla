------------------------------- MODULE Checker -------------------------------
(***************************************************************************)
(* The checker (check.rs) with the types it works on (types.rs).  Checking *)
(* is a fold over the program: every operator here takes the Checker       *)
(* struct `c` and gives it back, with what it has found out in c.faults    *)
(* and, after an expression, the expression's type in c.ty.                *)
(*                                                                         *)
(* All scalars are one type with a label.  Scopes are one function from    *)
(* names to types: leaving a scope restores the function.                  *)
(***************************************************************************)
EXTENDS Integers, SequencesExt

\* Label, and the top as the floor where nothing is a sink (leak_floor: None).
Public == 0
PII    == 1
Secret == 2

\* Types, and the type expressions they are resolved from.
Unknown         == [k |-> "unknown"]
Scalar(label)   == [k |-> "scalar", label |-> label]
RecordType(n)   == [k |-> "record", name |-> n]
Named(n)        == [k |-> "name", name |-> n]
ListOf(t)       == [k |-> "list", of |-> t]
Optional(t)     == [k |-> "optional", of |-> t]
Result(t, errs) == [k |-> "result", of |-> t, errs |-> errs]
Open            == {}   \* ErrDomain::Open; a union of variants is never empty
NoType          == [k |-> "none"]

\* Expressions, patterns and statements.
Const           == [e |-> "const"]
Id(x)           == [e |-> "id", name |-> x]
Dot(b, f)       == [e |-> "field", base |-> b, name |-> f]
Implicit(f)     == [e |-> "implicit", name |-> f]
Text(es)        == [e |-> "text", of |-> es]
Rec(n, fs)      == [e |-> "record", name |-> n, fields |-> fs]
Arr(es)         == [e |-> "array", of |-> es]
Call(f, es)     == [e |-> "call", name |-> f, args |-> es]
Method(b, m, es) == [e |-> "method", base |-> b, name |-> m, args |-> es]
Lambda(x, b)    == [e |-> "lambda", name |-> x, body |-> b]
Bin(op, l, r)   == [e |-> "bin", op |-> op, of |-> <<l, r>>]
Match(on, arms) == [e |-> "match", on |-> on, arms |-> arms]
\* An arm is a "value", a "block" or a "retry"; its body one expression, the
\* statements, or the effects before the retry.
Arm(p, kind, b) == [pat |-> p, kind |-> kind, body |-> b]
Wild            == [p |-> "any"]
Var(x)          == [p |-> "var", name |-> x]
Ctor(n, args)   == [p |-> "ctor", name |-> n, args |-> args]

\* `key` is the idempotency key, in a sequence of its own.
Fetch(site, ep, args, preds, x, t) ==
  [op |-> "fetch", site |-> site, ep |-> ep, args |-> args, preds |-> preds,
   bind |-> x, type |-> t, key |-> <<>>]
Let(x, e)    == [op |-> "let", bind |-> x, value |-> e]
Log(e)       == [op |-> "log", value |-> e]
Return(e)    == [op |-> "return", value |-> e]
For(x, e, b) == [op |-> "for", bind |-> x, value |-> e, body |-> b]
Parallel(b)  == [op |-> "parallel", body |-> b]
Do(e, x)     == [op |-> "do", value |-> e, bind |-> x, type |-> NoType]

\* The struct, for program p: before anything is declared.
NoScope == [x \in {} |-> Unknown]
NewChecker(p) ==
  [program |-> p, table |-> NoScope, results |-> {}, handled |-> {}, faults |-> {},
   scope |-> NoScope, floor |-> Secret, inRoute |-> FALSE, ty |-> Unknown]

Typed(c, ty)    == [c EXCEPT !.ty = ty]
Fault(c, what)  == [c EXCEPT !.faults = @ \cup {what}]
FaultIf(c, test, what) == IF test THEN Fault(c, what) ELSE c
BindTo(c, x, ty) == IF x = "" THEN c ELSE [c EXCEPT !.scope = (x :> ty) @@ @]

-----------------------------------------------------------------------------
(* Types.                                                                  *)

\* TypeTable::resolve: a name that is not declared, or not yet, is Unknown.
RECURSIVE Resolve(_, _), Element(_), Worst(_, _, _), FieldType(_, _, _), BindPattern(_, _, _)
Resolve(t, table) ==
  CASE t.k = "none" -> Unknown
    [] t.k = "name" ->
         CASE t.name = "Secret" -> Scalar(Secret)
           [] t.name = "PII"    -> Scalar(PII)
           [] t.name = "String" -> Scalar(Public)
           [] OTHER -> IF t.name \in DOMAIN table THEN RecordType(t.name) ELSE Unknown
    [] OTHER -> [t EXCEPT !.of = Resolve(t.of, table)]

\* Checker::new, second pass: one declaration, in the order they are written.
Declare(c, decl) ==
  LET fields == [i \in DOMAIN decl.fields |->
                   [name |-> decl.fields[i].name,
                    type |-> Resolve(decl.fields[i].type, c.table)]]
  IN  [c EXCEPT !.table = (decl.name :> fields) @@ @]

\* check_declarations
Duplicates(c, decl) ==
  FaultIf(c, \E i, j \in DOMAIN decl.fields :
               i # j /\ decl.fields[i].name = decl.fields[j].name, "duplicate field")

\* Type::element, Unknown for None.
Element(ty) ==
  CASE ty.k = "list" -> ty.of [] ty.k = "optional" -> Element(ty.of) [] OTHER -> Unknown
RECURSIVE HasElement(_)
HasElement(ty) == ty.k = "list" \/ (ty.k = "optional" /\ HasElement(ty.of))

Intrinsic(ty) == IF ty.k = "scalar" THEN ty.label ELSE Public

Worst(ty, table, above) ==
  CASE ty.k = "record" ->
         IF ty.name \in above THEN Public
         ELSE Max({Public} \cup {Worst(table[ty.name][i].type, table, above \cup {ty.name})
                                   : i \in DOMAIN table[ty.name]})
    [] ty.k \in {"list", "optional"} -> Worst(ty.of, table, above)
    [] OTHER -> Intrinsic(ty)

FieldType(c, base, f) ==
  CASE base.k = "result"   -> Fault(Typed(c, Unknown), "field of a result")
    [] base.k = "optional" -> FieldType(c, base.of, f)
    [] base.k = "record"   ->
         LET hits == SelectSeq(c.table[base.name], LAMBDA d : d.name = f)
         IN  IF hits = <<>> THEN Fault(Typed(c, Unknown), "no field")
             ELSE Typed(c, hits[1].type)
    [] OTHER -> Typed(c, Unknown)

-----------------------------------------------------------------------------
(* Sinks.                                                                  *)

\* flag_label_value: an identifier or a field whose own label is too high.
FlagValue(c) == FaultIf(c, Intrinsic(c.ty) > c.floor, "label")
\* flag_label_record: a whole value that carries too high a label.
FlagRecord(c) == FaultIf(c, Worst(c.ty, c.table, {}) > c.floor, "label")

\* Endpoints without `clearance:` may be sent anything.
Clearance(c, ep) ==
  IF ep \in DOMAIN c.program.clearance THEN c.program.clearance[ep] ELSE Secret

-----------------------------------------------------------------------------
(* Matches.                                                                *)

\* bind_pattern
BindPattern(c, pat, ty) ==
  CASE pat.p = "any"  -> c
    [] pat.p = "var"  -> BindTo(c, pat.name, ty)
    [] pat.p = "ctor" ->
         LET inner == IF pat.name = "Ok" /\ ty.k = "result" THEN ty.of ELSE Unknown
         IN  FoldLeft(LAMBDA d, q : BindPattern(d, q, inner), c, pat.args)

\* check_exhaustive
Catches(pat) == pat.p \in {"any", "var"}
Exhaustive(arms, errs) ==
  LET ctors(n)  == {a.pat : a \in {b \in ToSet(arms) : b.pat.p = "ctor" /\ b.pat.name = n}}
      anyErr(p) == p.args = <<>> \/ Catches(p.args[1])
  IN  \/ \E a \in ToSet(arms) : Catches(a.pat)
      \/ /\ ctors("Ok") # {}
         /\ \/ \E p \in ctors("Err") : anyErr(p)
            \/ errs # Open /\ errs \subseteq {p.args[1].name : p \in ctors("Err")}

-----------------------------------------------------------------------------
(* Expressions and statements.                                             *)

RECURSIVE Infer(_, _, _), CheckStmt(_, _)
InferAll(es, c, elem) == FoldLeft(LAMBDA d, x : Infer(x, d, elem), c, es)
CheckAll(stmts, c) == FoldLeft(LAMBDA d, s : CheckStmt(s, d), c, stmts)
Sink(x, c) == FlagRecord(Infer(x, c, Unknown))

\* check_lambda_or_pred: the predicate sees one element.
Predicate(x, c, elem) ==
  IF x.e # "lambda" THEN Infer(x, c, elem)
  ELSE [Infer(x.body, BindTo(c, x.name, elem), elem) EXCEPT !.scope = c.scope]

\* resolvable: other names than variables of the scope.
Resolvable(x, c) ==
  x \in DOMAIN c.scope \cup c.program.endpoints \cup {u.name : u \in ToSet(c.program.units)}

Methods == {"all", "any", "map", "filter", "find", "each", "none"}
CheckMethod(x, c, elem) ==
  LET b == Infer(x.base, c, elem)
  IN  IF x.name \in Methods /\ HasElement(b.ty)
      THEN FoldLeft(LAMBDA d, a : Predicate(a, d, Element(b.ty)), b, x.args)
      ELSE InferAll(x.args, b, elem)

\* check_match with check_arm_body
CheckMatch(x, c, elem) ==
  LET on   == Infer(x.on, c, elem)
      seen == IF x.on.e = "id" THEN [on EXCEPT !.handled = @ \cup {x.on.name}] ELSE on
      arm(d, a) ==
        LET inside == BindPattern(d, a.pat, on.ty)
            out    == IF a.kind = "block" THEN CheckAll(a.body, inside)
                      ELSE InferAll(a.body, inside, Unknown)
        IN  [out EXCEPT !.scope = c.scope]
  IN  FaultIf(FoldLeft(arm, seen, x.arms),
              on.ty.k = "result" /\ ~Exhaustive(x.arms, on.ty.errs), "non-exhaustive")

Infer(x, c, elem) ==
  CASE x.e = "const"    -> Typed(c, Scalar(Public))
    [] x.e = "id"       -> FlagValue(Typed(c, IF x.name \in DOMAIN c.scope
                                               THEN c.scope[x.name] ELSE Unknown))
    [] x.e = "implicit" -> FlagValue(FieldType(c, elem, x.name))
    [] x.e = "field"    ->
         LET b == Infer(x.base, c, elem)
             d == FaultIf(b, /\ b.ty = Unknown /\ x.base.e = "id"
                             /\ ~Resolvable(x.base.name, c), "unknown variable")
         IN  FlagValue(FieldType(d, b.ty, x.name))
    [] x.e = "text"     -> Typed(InferAll(x.of, c, elem), Scalar(Public))
    [] x.e = "record"   -> Typed(InferAll([i \in DOMAIN x.fields |-> x.fields[i][2]], c, elem),
                                 IF x.name \in DOMAIN c.table THEN RecordType(x.name) ELSE Unknown)
    [] x.e = "array"    -> Typed(InferAll(x.of, c, elem),
                                 ListOf(IF x.of = <<>> THEN Unknown
                                        ELSE Infer(x.of[1], c, elem).ty))
    [] x.e = "call"     -> Typed(InferAll(x.args, Infer(Id(x.name), c, elem), elem), Unknown)
    [] x.e = "method"   -> Typed(CheckMethod(x, c, elem), Unknown)
    [] x.e = "lambda"   -> Typed(Infer(x.body, c, elem), Unknown)
    [] x.e = "bin"      -> Typed(InferAll(x.of, c, elem),
                                 IF x.op = "==" THEN Scalar(Public)
                                 ELSE Infer(x.of[1], c, elem).ty)
    [] x.e = "match"    -> Typed(CheckMatch(x, c, elem), Unknown)

\* check_fetch: what is sent, then the pipeline's predicates, then the binding.
\* Of the idempotency key, which is sent too, nothing is asked.
CheckFetch(s, c) ==
  LET known == FaultIf(c, s.ep \notin c.program.endpoints, "unknown endpoint")
      sent  == FoldLeft(LAMBDA d, a : Sink(a, d),
                        [known EXCEPT !.floor = Clearance(c, s.ep)], s.args)
      ty    == Resolve(s.type, c.table)
      piped == FoldLeft(LAMBDA d, q : Predicate(q, d, Element(ty)),
                        [sent EXCEPT !.floor = c.floor], s.preds)
      done  == IF s.bind # "" /\ ty.k = "result"
               THEN [piped EXCEPT !.results = @ \cup {s.bind}] ELSE piped
  IN  BindTo(done, s.bind, ty)

\* The value a `return` gives leaves the program in a route only.
CheckReturn(s, c) ==
  LET seen == IF s.value.e = "id" THEN [c EXCEPT !.handled = @ \cup {s.value.name}] ELSE c
  IN  Sink(s.value, [seen EXCEPT !.floor = IF c.inRoute THEN Public ELSE Secret])

CheckStmt(s, c) ==
  CASE s.op = "fetch"    -> CheckFetch(s, c)
    [] s.op = "let"      -> LET d == Infer(s.value, c, Unknown) IN BindTo(d, s.bind, d.ty)
    \* the type a binding declares is taken for what its expression has
    [] s.op = "do"       ->
         LET d == Infer(s.value, c, Unknown)
         IN  BindTo(d, s.bind, IF s.type = NoType THEN d.ty ELSE Resolve(s.type, c.table))
    [] s.op = "log"      -> [Sink(s.value, [c EXCEPT !.floor = Public]) EXCEPT !.floor = c.floor]
    [] s.op = "return"   -> [CheckReturn(s, c) EXCEPT !.floor = c.floor]
    [] s.op = "parallel" -> CheckAll(s.body, c)
    [] s.op = "for"      ->
         LET d == Infer(s.value, c, Unknown)
         IN  [CheckAll(s.body, BindTo(d, s.bind, Element(d.ty))) EXCEPT !.scope = c.scope]

\* run: the main body, a flow or a route handler, each in a scope of its own.
CheckUnit(c, unit) ==
  LET scope == FoldLeft(LAMBDA d, p : BindTo(d, p.name, Resolve(p.type, c.table)),
                        [c EXCEPT !.scope = NoScope], unit.params)
  IN  [CheckAll(unit.body, [scope EXCEPT !.inRoute = unit.kind = "route"])
         EXCEPT !.inRoute = FALSE]

\* finish: every Result-typed binding must be handled, by name.
FinishCheck(c) == FaultIf(c, ~(c.results \subseteq c.handled), "unhandled")
=============================================================================
