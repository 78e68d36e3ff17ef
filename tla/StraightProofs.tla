--------------------------- MODULE StraightProofs ---------------------------
(***************************************************************************)
(* What the straight-line reading of a statement list amounts to when it   *)
(* binds every variable once.  Each variable then has one value, computed  *)
(* from the list alone (Meaning), and the run, whatever it has skipped and *)
(* wherever it stops, shows and sends terms of that valuation: every line  *)
(* and every mutation only appends to what came before.                    *)
(***************************************************************************)
EXTENDS Straightline, WellFoundedInduction, TLAPS

(* Induction on the natural numbers in the form the provers can use: a set *)
(* takes the place of the predicate, and is named when the lemma is cited. *)

\* Every set of naturals that is not empty has a least member.
LEMMA LeastNatural ==
    ASSUME NEW T, T \subseteq Nat, T # {}
    PROVE  \E n \in T : \A m \in T : n <= m
<1> DEFINE Less == OpToRel(<, Nat)
<1>1. IsWellFoundedOn(Less, Nat)
    BY NatLessThanWellFounded
<1>2. PICK n \in T : \A m \in T : <<m, n>> \notin Less
    <2> HIDE DEF Less
    <2> QED BY <1>1, WFMin
<1>3. \A m \in T : ~(m < n)
    BY <1>2 DEF OpToRel
<1> QED BY <1>3

\* A set that holds 0 and the successor of each of its members holds every
\* natural number.
LEMMA SetInduction ==
    ASSUME NEW S, 0 \in S, \A n \in Nat : n \in S => n + 1 \in S
    PROVE  Nat \subseteq S
<1> SUFFICES ASSUME Nat \ S # {} PROVE FALSE
    OBVIOUS
<1>1. PICK n \in Nat \ S : \A m \in Nat \ S : n <= m
    BY LeastNatural
<1>2. n # 0 /\ n - 1 \in Nat /\ n - 1 \in S
    BY <1>1
<1> QED BY <1>1, <1>2

-----------------------------------------------------------------------------
(* The value of each variable.                                             *)

\* What a statement that binds a variable gives it.
ValueOf(st, env, reply) ==
    IF st.kind = "fetch" THEN FetchValue(st, env, reply) ELSE Term(st, env)

\* The values of all variables after each statement, none of them skipped.
Values(s, reply) ==
    LET env[i \in 0..Len(s)] ==
            IF i = 0 THEN ParamEnv
            ELSE Insert(env[i - 1], s[i].bind, ValueOf(s[i], env[i - 1], reply))
    IN  env

Meaning(s, reply) == Values(s, reply)[Len(s)]

\* An environment holds nothing but meant values.
Agrees(env, w) == \A v \in DOMAIN env : v \in DOMAIN w /\ env[v] = w[v]

BoundUpTo(s, i) == {s[j].bind : j \in {k \in 1..i : s[k].bind # NoVar}}

-----------------------------------------------------------------------------
LEMMA ListFacts ==
    ASSUME NEW s \in Sources, SingleAssignment(s)
    PROVE  /\ Len(s) \in Nat /\ DOMAIN s = 1..Len(s)
           /\ \A i \in 1..Len(s) :
                  /\ s[i] \in Stmt /\ s[i].kind \in Kind /\ s[i].text \in Text
                  /\ s[i].reads \subseteq Var /\ NoVar \notin s[i].reads
                  /\ s[i].bind # NoVar => s[i].kind \in {"fetch", "let"} /\ s[i].bind \notin Param
           /\ \A i, j \in 1..Len(s) : i # j /\ s[i].bind # NoVar => s[i].bind # s[j].bind
<1>1. s \in Seq(Stmt) /\ Len(s) \in Nat /\ DOMAIN s = 1..Len(s)
    BY SourcesAssumption
<1>2. ASSUME NEW i \in 1..Len(s)
      PROVE  /\ s[i] \in Stmt /\ s[i].kind \in Kind /\ s[i].text \in Text
             /\ s[i].reads \subseteq Var /\ NoVar \notin s[i].reads
    <2>1. s[i] \in Stmt
        BY <1>1, <1>2
    <2> QED BY <2>1, NamesAssumption DEF Stmt
<1> QED BY <1>1, <1>2, BindersAssumption DEF SingleAssignment

\* A variable that is read is a parameter or bound by one earlier statement.
LEMMA ReadIsBound ==
    ASSUME NEW s \in Sources, SingleAssignment(s), NEW i \in 1..Len(s), NEW r \in s[i].reads,
           r \notin Param
    PROVE  /\ ReachingDef(s, i, r) \in 1..(i - 1)
           /\ s[ReachingDef(s, i, r)].bind = r
<1> DEFINE defs == {j \in 1..(i - 1) : s[j].bind = r}
<1>1. ReachingDef(s, i, r) # 0
    BY DEF SingleAssignment
<1>2. PICK d \in defs : TRUE
    BY <1>1 DEF ReachingDef
<1>3. i \in Nat /\ i <= Len(s) /\ Len(s) \in Nat /\ r # NoVar
    BY ListFacts
<1>4. \A k \in defs : k = d
    BY <1>2, <1>3, ListFacts
<1>5. ReachingDef(s, i, r) = CHOOSE j \in defs : \A k \in defs : k <= j
    BY <1>2 DEF ReachingDef
<1>6. (CHOOSE j \in defs : \A k \in defs : k <= j) \in defs
    BY <1>2, <1>4
<1> QED BY <1>5, <1>6

LEMMA ReadsBoundBefore ==
    ASSUME NEW s \in Sources, SingleAssignment(s), NEW i \in 1..Len(s)
    PROVE  s[i].reads \subseteq Param \cup BoundUpTo(s, i - 1)
<1> SUFFICES ASSUME NEW r \in s[i].reads, r \notin Param PROVE r \in BoundUpTo(s, i - 1)
    OBVIOUS
<1>1. r # NoVar
    BY ListFacts
<1> QED BY <1>1, ReadIsBound DEF BoundUpTo

LEMMA TermAgrees ==
    ASSUME NEW n, NEW env, NEW w, Agrees(env, w), Evaluable(n, env)
    PROVE  /\ Term(n, env) = Term(n, w)
           /\ \A reply : FetchValue(n, env, reply) = FetchValue(n, w, reply)
           /\ \A reply : ValueOf(n, env, reply) = ValueOf(n, w, reply)
           /\ Evaluable(n, w)
<1>1. \A v \in n.reads : env[v] = w[v]
    BY DEF Agrees, Evaluable
<1>2. [v \in n.reads |-> env[v]] = [v \in n.reads |-> w[v]]
    BY <1>1
<1>3. Term(n, env) = Term(n, w)
    BY <1>2 DEF Term
<1>4. \A reply : FetchValue(n, env, reply) = FetchValue(n, w, reply)
    BY <1>3 DEF FetchValue
<1> QED BY <1>3, <1>4 DEF ValueOf, Agrees, Evaluable

LEMMA InsertAgrees ==
    ASSUME NEW env, NEW w, NEW v, NEW val, Agrees(env, w),
           v # NoVar => v \in DOMAIN w /\ w[v] = val
    PROVE  /\ Agrees(Insert(env, v, val), w) /\ DOMAIN env \subseteq DOMAIN Insert(env, v, val)
           /\ v # NoVar => v \in DOMAIN Insert(env, v, val)
PROOF BY DEF Agrees, Insert

-----------------------------------------------------------------------------
(* The valuation.                                                          *)

LEMMA ValuesUnfold ==
    ASSUME NEW s, Len(s) \in Nat, NEW reply
    PROVE  LET env == Values(s, reply)
           IN  /\ env[0] = ParamEnv
               /\ \A i \in 1..Len(s) :
                      env[i] = Insert(env[i - 1], s[i].bind, ValueOf(s[i], env[i - 1], reply))
<1> DEFINE next(e, i) == Insert(e, s[i].bind, ValueOf(s[i], e, reply))
           body(f) == [i \in 0..Len(s) |-> IF i = 0 THEN ParamEnv ELSE next(f[i - 1], i)]
           starts(f, k) == /\ DOMAIN f = 0..k /\ f[0] = ParamEnv
                           /\ \A i \in 1..k : f[i] = next(f[i - 1], i)
           Reach == {k \in Nat : \E f : starts(f, k)}
<1>1. Values(s, reply) = CHOOSE f : f = body(f)
    BY DEF Values
<1>2. \E f : f = body(f)
    <2> HIDE DEF next
    <2>1. 0 \in Reach
        <3>1. starts([i \in 0..0 |-> ParamEnv], 0)
            OBVIOUS
        <3> QED BY <3>1
    <2>2. ASSUME NEW k \in Nat, k \in Reach PROVE k + 1 \in Reach
        <3>1. PICK f : starts(f, k)
            BY <2>2
        <3> DEFINE g == [i \in 0..(k + 1) |-> IF i <= k THEN f[i] ELSE next(f[k], i)]
        <3>2. starts(g, k + 1) /\ k + 1 \in Nat
            BY <3>1
        <3> HIDE DEF g, starts
        <3> QED BY <3>2
    <2>3. Nat \subseteq Reach
        <3> HIDE DEF Reach
        <3> QED BY <2>1, <2>2, SetInduction
    <2>4. PICK f : starts(f, Len(s))
        BY <2>3
    <2>5. \A i \in 0..Len(s) : f[i] = body(f)[i]
        BY <2>4
    <2>6. f = [i \in 0..Len(s) |-> f[i]]
        BY <2>4
    <2> QED BY <2>5, <2>6
<1>3. Values(s, reply) = body(Values(s, reply))
    BY <1>1, <1>2
<1> HIDE DEF next
<1>4. /\ Values(s, reply)[0] = ParamEnv
      /\ \A i \in 1..Len(s) : Values(s, reply)[i] = next(Values(s, reply)[i - 1], i)
    BY <1>3
<1> QED BY <1>4 DEF next

LEMMA ValuesDomain ==
    ASSUME NEW s \in Sources, SingleAssignment(s), NEW reply
    PROVE  \A i \in 0..Len(s) : DOMAIN Values(s, reply)[i] = Param \cup BoundUpTo(s, i)
<1> DEFINE env == Values(s, reply)
           Good == {i \in Nat : i <= Len(s) => DOMAIN env[i] = Param \cup BoundUpTo(s, i)}
<1>1. Len(s) \in Nat /\ env[0] = ParamEnv
      /\ \A i \in 1..Len(s) : env[i] = Insert(env[i - 1], s[i].bind, ValueOf(s[i], env[i - 1], reply))
    BY ListFacts, ValuesUnfold
<1> HIDE DEF env
<1>2. 0 \in Good
    BY <1>1 DEF ParamEnv, BoundUpTo
<1>3. ASSUME NEW i \in Nat, i \in Good PROVE i + 1 \in Good
    <2> SUFFICES ASSUME i + 1 <= Len(s)
                 PROVE  DOMAIN env[i + 1] = Param \cup BoundUpTo(s, i + 1)
        OBVIOUS
    <2>1. i + 1 \in 1..Len(s) /\ (i + 1) - 1 = i /\ DOMAIN env[i] = Param \cup BoundUpTo(s, i)
        BY <1>1, <1>3
    <2> DEFINE e == env[i]
               b == s[i + 1].bind
    <2>2. DOMAIN env[i + 1] = DOMAIN e \cup (IF b = NoVar THEN {} ELSE {b})
        <3>1. env[i + 1] = Insert(e, b, ValueOf(s[i + 1], e, reply))
            BY <1>1, <2>1
        <3> HIDE DEF e, b
        <3> QED BY <3>1 DEF Insert
    <2>3. BoundUpTo(s, i + 1) =
              BoundUpTo(s, i) \cup (IF s[i + 1].bind = NoVar THEN {} ELSE {s[i + 1].bind})
        BY DEF BoundUpTo
    <2> QED BY <2>1, <2>2, <2>3
<1>4. Nat \subseteq Good
    <2> HIDE DEF Good
    <2> QED BY <1>2, <1>3, SetInduction
<1> QED BY <1>1, <1>4 DEF env

\* What was bound once keeps its value.
LEMMA ValuesStable ==
    ASSUME NEW s \in Sources, SingleAssignment(s), NEW reply
    PROVE  \A i \in 0..Len(s) : Agrees(Values(s, reply)[i], Meaning(s, reply))
<1> DEFINE env == Values(s, reply)
           Good == {k \in Nat : k <= Len(s) => \A i \in 0..k : Agrees(env[i], env[k])}
<1>1. Len(s) \in Nat
      /\ \A i \in 1..Len(s) : env[i] = Insert(env[i - 1], s[i].bind, ValueOf(s[i], env[i - 1], reply))
    BY ListFacts, ValuesUnfold
<1>2. \A i \in 0..Len(s) : DOMAIN env[i] = Param \cup BoundUpTo(s, i)
    BY ValuesDomain
<1> HIDE DEF env
<1>3. 0 \in Good
    BY DEF Agrees
<1>4. ASSUME NEW k \in Nat, k \in Good PROVE k + 1 \in Good
    <2> SUFFICES ASSUME k + 1 <= Len(s) PROVE \A i \in 0..(k + 1) : Agrees(env[i], env[k + 1])
        OBVIOUS
    <2>1. k + 1 \in 1..Len(s) /\ (k + 1) - 1 = k /\ \A i \in 0..k : Agrees(env[i], env[k])
        BY <1>1, <1>4
    <2>2. s[k + 1].bind # NoVar => s[k + 1].bind \notin DOMAIN env[k]
        BY <1>1, <1>2, <2>1, ListFacts DEF BoundUpTo
    <2> DEFINE e == env[k]
               f == env[k + 1]
    <2>3. f = Insert(e, s[k + 1].bind, ValueOf(s[k + 1], e, reply))
        BY <1>1, <2>1
    <2> HIDE DEF e, f
    <2>4. Agrees(e, f) /\ Agrees(f, f)
        BY <2>2, <2>3 DEF Agrees, e, Insert
    <2> QED BY <2>1, <2>4 DEF Agrees, e, f
<1>5. Nat \subseteq Good
    <2> HIDE DEF Good
    <2> QED BY <1>3, <1>4, SetInduction
<1> QED BY <1>1, <1>5 DEF env, Meaning

\* The meaning of a list: each variable has the value of the statement that
\* binds it, and every statement can be evaluated.
LEMMA MeaningFacts ==
    ASSUME NEW s \in Sources, SingleAssignment(s), NEW reply
    PROVE  LET w == Meaning(s, reply)
           IN  /\ DOMAIN w = Param \cup BoundUpTo(s, Len(s))
               /\ Agrees(ParamEnv, w)
               /\ \A i \in 1..Len(s) :
                      /\ Evaluable(s[i], w)
                      /\ s[i].bind # NoVar => w[s[i].bind] = ValueOf(s[i], w, reply)
<1> DEFINE env == Values(s, reply)
           w == Meaning(s, reply)
<1>1. Len(s) \in Nat /\ env[0] = ParamEnv
      /\ \A i \in 1..Len(s) : env[i] = Insert(env[i - 1], s[i].bind, ValueOf(s[i], env[i - 1], reply))
    BY ListFacts, ValuesUnfold
<1>2. \A i \in 0..Len(s) : DOMAIN env[i] = Param \cup BoundUpTo(s, i) /\ Agrees(env[i], w)
    BY ValuesDomain, ValuesStable
<1>3. w = env[Len(s)]
    BY DEF Meaning
<1> HIDE DEF env, w
<1>4. ASSUME NEW i \in 1..Len(s)
      PROVE  /\ Evaluable(s[i], w)
             /\ s[i].bind # NoVar => w[s[i].bind] = ValueOf(s[i], w, reply)
    <2>1. i - 1 \in 0..Len(s) /\ i \in 0..Len(s)
        BY <1>1
    <2>2. Evaluable(s[i], env[i - 1])
        BY <1>2, <2>1, ReadsBoundBefore DEF Evaluable
    <2>3. Evaluable(s[i], w) /\ ValueOf(s[i], env[i - 1], reply) = ValueOf(s[i], w, reply)
        BY <1>2, <2>1, <2>2, TermAgrees
    <2>4. s[i].bind # NoVar => /\ s[i].bind \in DOMAIN env[i]
                               /\ env[i][s[i].bind] = ValueOf(s[i], env[i - 1], reply)
        <3> DEFINE e == env[i - 1]
        <3>1. env[i] = Insert(e, s[i].bind, ValueOf(s[i], e, reply))
            BY <1>1
        <3> QED BY <3>1 DEF Insert
    <2> QED BY <1>2, <2>1, <2>3, <2>4 DEF Agrees
<1>5. Agrees(ParamEnv, w) /\ DOMAIN w = Param \cup BoundUpTo(s, Len(s))
    BY <1>1, <1>2, <1>3
<1> QED BY <1>4, <1>5 DEF w
-----------------------------------------------------------------------------
(* The run.                                                                *)

LEMMA RunUnfold ==
    ASSUME NEW s, Len(s) \in Nat, NEW reply
    PROVE  LET R == After(s, reply, TRUE)
           IN  /\ R[0] = Started
               /\ \A i \in 1..Len(s) :
                      R[i] = IF R[i - 1].status = "running" /\ i \in Observed(s)
                             THEN RunStmt(R[i - 1], s[i], reply, TRUE)
                             ELSE R[i - 1]
<1> DEFINE next(e, i) == IF e.status = "running" /\ i \in Observed(s)
                         THEN RunStmt(e, s[i], reply, TRUE)
                         ELSE e
           body(f) == [i \in 0..Len(s) |-> IF i = 0 THEN Started ELSE next(f[i - 1], i)]
           starts(f, k) == /\ DOMAIN f = 0..k /\ f[0] = Started
                           /\ \A i \in 1..k : f[i] = next(f[i - 1], i)
           Reach == {k \in Nat : \E f : starts(f, k)}
<1>1. After(s, reply, TRUE) = CHOOSE f : f = body(f)
    BY DEF After
<1>2. \E f : f = body(f)
    <2> HIDE DEF next
    <2>1. 0 \in Reach
        <3>1. starts([i \in 0..0 |-> Started], 0)
            OBVIOUS
        <3> QED BY <3>1
    <2>2. ASSUME NEW k \in Nat, k \in Reach PROVE k + 1 \in Reach
        <3>1. PICK f : starts(f, k)
            BY <2>2
        <3> DEFINE g == [i \in 0..(k + 1) |-> IF i <= k THEN f[i] ELSE next(f[k], i)]
        <3>2. starts(g, k + 1) /\ k + 1 \in Nat
            BY <3>1
        <3> HIDE DEF g, starts
        <3> QED BY <3>2
    <2>3. Nat \subseteq Reach
        <3> HIDE DEF Reach
        <3> QED BY <2>1, <2>2, SetInduction
    <2>4. PICK f : starts(f, Len(s))
        BY <2>3
    <2>5. \A i \in 0..Len(s) : f[i] = body(f)[i]
        BY <2>4
    <2>6. f = [i \in 0..Len(s) |-> f[i]]
        BY <2>4
    <2> QED BY <2>5, <2>6
<1>3. After(s, reply, TRUE) = body(After(s, reply, TRUE))
    BY <1>1, <1>2
<1> DEFINE R == After(s, reply, TRUE)
<1> HIDE DEF next
<1>4. R[0] = Started /\ \A i \in 1..Len(s) : R[i] = next(R[i - 1], i)
    BY <1>3
<1> QED BY <1>4 DEF next

\* What is observed: every effect, and whatever an observed statement needs.
LEMMA ObservedFacts ==
    ASSUME NEW s
    PROVE  /\ Observed(s) \subseteq 1..Len(s)
           /\ \A i \in 1..Len(s) : IsEffect(s[i]) => i \in Observed(s)
           /\ \A i \in Observed(s), j \in 1..Len(s) : j \in Needs(s, i) => j \in Observed(s)
PROOF BY DEF Observed

\* An effect that cannot succeed ends the run.
EffectFails(st, reply) == IsEffect(st) /\ Fails(st, reply)

\* What one statement adds to a run that is still going.
ShownBy(out, st, w, reply) ==
    IF st.kind \in {"log", "return"} /\ ~Fails(st, reply) THEN Append(out, Term(st, w)) ELSE out
SentBy(muts, st, w, reply) ==
    IF st.kind = "fetch" /\ st.method # "GET" /\ reply[st.text] # "bad"
    THEN Append(muts, Term(st, w)) ELSE muts
StatusBy(st, reply) ==
    IF EffectFails(st, reply) THEN "failed"
    ELSE IF st.kind = "return" THEN "returned" ELSE "running"

\* The environment of a run that is still going after statement i.
Holds(s, env, w, i) ==
    /\ Agrees(env, w) /\ Param \subseteq DOMAIN env
    /\ \A j \in Observed(s) : j <= i /\ s[j].bind # NoVar => s[j].bind \in DOMAIN env

IsRun(run) == run = [env |-> run.env, out |-> run.out, muts |-> run.muts, status |-> run.status]

LEMMA StmtRuns ==
    ASSUME NEW s \in Sources, SingleAssignment(s), NEW reply, NEW i \in Observed(s),
           NEW env, NEW out, NEW muts, Holds(s, env, Meaning(s, reply), i - 1)
    PROVE  LET w == Meaning(s, reply)
               run == [env |-> env, out |-> out, muts |-> muts, status |-> "running"]
               next == RunStmt(run, s[i], reply, TRUE)
           IN  /\ IsRun(next)
               /\ next.out = ShownBy(out, s[i], w, reply) /\ next.muts = SentBy(muts, s[i], w, reply)
               /\ next.status = StatusBy(s[i], reply)
               /\ ~EffectFails(s[i], reply) => Holds(s, next.env, w, i)
<1> DEFINE w == Meaning(s, reply)
           st == s[i]
           run == [env |-> env, out |-> out, muts |-> muts, status |-> "running"]
           stops == EffectFails(st, reply)
           e == IF st.kind \in {"fetch", "let"} /\ ~stops
                THEN Insert(env, st.bind, ValueOf(st, env, reply)) ELSE env
           next == RunStmt(run, st, reply, TRUE)
<1>1. i \in 1..Len(s) /\ Len(s) \in Nat
    BY ObservedFacts, ListFacts
<1>2. Evaluable(st, env)
    <2> SUFFICES ASSUME NEW r \in st.reads, r \notin Param PROVE r \in DOMAIN env
        BY DEF Evaluable, Holds
    <2> DEFINE d == ReachingDef(s, i, r)
    <2>1. d \in 1..(i - 1) /\ s[d].bind = r
        BY <1>1, ReadIsBound
    <2>2. d \in Needs(s, i) /\ d \in 1..Len(s) /\ r # NoVar
        BY <1>1, <2>1, ListFacts DEF Needs
    <2>3. d \in Observed(s)
        BY <2>2, ObservedFacts
    <2> QED BY <1>1, <2>1, <2>2, <2>3 DEF Holds
<1>3. /\ Term(st, env) = Term(st, w) /\ ValueOf(st, env, reply) = ValueOf(st, w, reply)
    BY <1>2, TermAgrees DEF Holds
<1>4. /\ st.kind \in Kind
      /\ st.bind # NoVar => /\ st.kind \in {"fetch", "let"}
                            /\ st.bind \in DOMAIN w /\ w[st.bind] = ValueOf(st, w, reply)
    <2>1. st.bind # NoVar => st.bind \in BoundUpTo(s, Len(s))
        BY <1>1 DEF BoundUpTo
    <2> QED BY <1>1, <2>1, ListFacts, MeaningFacts
<1>5. next = [env |-> e, out |-> ShownBy(out, st, w, reply), muts |-> SentBy(muts, st, w, reply),
              status |-> StatusBy(st, reply)]
    <2> HIDE DEF w, st
    <2>1. Term(st, env) = Term(st, w)
        BY <1>3
    <2>2. CASE stops /\ st.kind = "fetch"
        BY <1>2, <2>1, <2>2 DEF RunStmt, ShownBy, SentBy, StatusBy, Sending, Fail, EffectFails
    <2>3. CASE stops /\ st.kind # "fetch"
        BY <1>2, <2>3 DEF RunStmt, ShownBy, SentBy, StatusBy, Sending, Fail, EffectFails
    <2>4. CASE ~stops /\ st.kind = "fetch"
        BY <1>2, <2>1, <2>4 DEF RunStmt, ShownBy, SentBy, StatusBy, Sending, ValueOf, EffectFails
    <2>5. CASE ~stops /\ st.kind = "let"
        BY <1>2, <2>1, <2>5
           DEF RunStmt, ShownBy, SentBy, StatusBy, Sending, ValueOf, LetValue, EffectFails, IsEffect
    <2>6. CASE ~stops /\ st.kind \in {"log", "return"}
        BY <1>2, <2>1, <2>6 DEF RunStmt, ShownBy, SentBy, StatusBy, Sending, EffectFails, IsEffect
    <2>7. CASE ~stops /\ st.kind = "assert"
        BY <1>2, <2>7 DEF RunStmt, ShownBy, SentBy, StatusBy, Sending, EffectFails, IsEffect
    <2> QED BY <1>4, <2>2, <2>3, <2>4, <2>5, <2>6, <2>7 DEF Kind
<1>6. ~stops => Holds(s, e, w, i)
    <2> SUFFICES ASSUME ~stops PROVE Holds(s, e, w, i)
        OBVIOUS
    <2>1. Agrees(env, w)
        BY DEF Holds
    <2>2. Agrees(e, w) /\ DOMAIN env \subseteq DOMAIN e /\ (st.bind # NoVar => st.bind \in DOMAIN e)
        <3> HIDE DEF w, st
        <3> QED BY <1>3, <1>4, <2>1, InsertAgrees
    <2>3. \A j \in Observed(s) : j <= i => j = i \/ j <= i - 1
        BY <1>1, ObservedFacts
    <2> HIDE DEF e, w
    <2> QED BY <2>2, <2>3 DEF Holds
<1> HIDE DEF e, w, next
<1>7. /\ IsRun(next) /\ next.out = ShownBy(out, st, w, reply) /\ next.muts = SentBy(muts, st, w, reply)
      /\ next.status = StatusBy(st, reply) /\ next.env = e
    BY <1>5 DEF IsRun
<1> QED BY <1>6, <1>7 DEF w, next

\* Every term the list can produce.
Terms(s, w) == {Term(s[j], w) : j \in 1..Len(s)}

\* A run after statement i.
WellRun(s, run, w, i) ==
    /\ IsRun(run) /\ run.out \in Seq(Terms(s, w)) /\ run.muts \in Seq(Terms(s, w))
    /\ run.status = "running" => Holds(s, run.env, w, i)

\* What statement i makes of a run.
Continues(s, run, next, w, reply, i) ==
    IF run.status = "running" /\ i \in Observed(s)
    THEN /\ next.out = ShownBy(run.out, s[i], w, reply)
         /\ next.muts = SentBy(run.muts, s[i], w, reply)
         /\ next.status = StatusBy(s[i], reply)
    ELSE next = run

LEMMA RunGoesOn ==
    ASSUME NEW s \in Sources, SingleAssignment(s), NEW reply, NEW i \in Observed(s),
           NEW run, WellRun(s, run, Meaning(s, reply), i - 1), run.status = "running"
    PROVE  LET next == RunStmt(run, s[i], reply, TRUE)
           IN  /\ WellRun(s, next, Meaning(s, reply), i)
               /\ Continues(s, run, next, Meaning(s, reply), reply, i)
<1> DEFINE w == Meaning(s, reply)
           same == [env |-> run.env, out |-> run.out, muts |-> run.muts, status |-> "running"]
           next == RunStmt(run, s[i], reply, TRUE)
<1>1. Holds(s, run.env, w, i - 1) /\ run = same
    BY DEF WellRun, IsRun
<1>2. LET goes == RunStmt(same, s[i], reply, TRUE)
      IN  /\ IsRun(goes)
          /\ goes.out = ShownBy(run.out, s[i], w, reply) /\ goes.muts = SentBy(run.muts, s[i], w, reply)
          /\ goes.status = StatusBy(s[i], reply)
          /\ ~EffectFails(s[i], reply) => Holds(s, goes.env, w, i)
    BY <1>1, StmtRuns
<1> HIDE DEF same, w
<1>3. /\ IsRun(next)
      /\ next.out = ShownBy(run.out, s[i], w, reply) /\ next.muts = SentBy(run.muts, s[i], w, reply)
      /\ next.status = StatusBy(s[i], reply)
      /\ ~EffectFails(s[i], reply) => Holds(s, next.env, w, i)
    BY <1>1, <1>2
<1>4. Term(s[i], w) \in Terms(s, w)
    BY ObservedFacts DEF Terms
<1>5. next.out \in Seq(Terms(s, w)) /\ next.muts \in Seq(Terms(s, w))
    <2> DEFINE T == Terms(s, w)
               t == Term(s[i], w)
    <2>1. run.out \in Seq(T) /\ run.muts \in Seq(T)
        BY DEF WellRun, w
    <2> HIDE DEF T, t
    <2>2. Append(run.out, t) \in Seq(T) /\ Append(run.muts, t) \in Seq(T)
        BY <1>4, <2>1 DEF T, t
    <2> QED BY <1>3, <2>1, <2>2 DEF ShownBy, SentBy, T, t
<1> HIDE DEF next
<1>6. WellRun(s, next, w, i) /\ Continues(s, run, next, w, reply, i)
    BY <1>3, <1>5 DEF WellRun, Continues, StatusBy
<1> QED BY <1>6 DEF next, w

\* The run statement by statement, in terms of what the list means.
LEMMA EachStep ==
    ASSUME NEW s \in Sources, SingleAssignment(s), NEW reply
    PROVE  LET w == Meaning(s, reply)
               R == After(s, reply, TRUE)
           IN  /\ R[0].out = <<>> /\ R[0].muts = <<>> /\ R[0].status = "running"
               /\ \A i \in 0..Len(s) : R[i].out \in Seq(Terms(s, w)) /\ R[i].muts \in Seq(Terms(s, w))
               /\ \A i \in 1..Len(s) : Continues(s, R[i - 1], R[i], w, reply, i)
<1> DEFINE w == Meaning(s, reply)
           R == After(s, reply, TRUE)
           Good == {i \in Nat : i <= Len(s) => WellRun(s, R[i], w, i)}
<1>1. Len(s) \in Nat
    BY ListFacts
<1>2. /\ R[0] = Started
      /\ \A i \in 1..Len(s) : R[i] = IF R[i - 1].status = "running" /\ i \in Observed(s)
                                     THEN RunStmt(R[i - 1], s[i], reply, TRUE) ELSE R[i - 1]
    BY <1>1, RunUnfold
<1> HIDE DEF R
<1>3. ASSUME NEW i \in 1..Len(s), WellRun(s, R[i - 1], w, i - 1)
      PROVE  WellRun(s, R[i], w, i) /\ Continues(s, R[i - 1], R[i], w, reply, i)
    <2> DEFINE run == R[i - 1]
    <2>1. CASE run.status = "running" /\ i \in Observed(s)
        <3>1. R[i] = RunStmt(run, s[i], reply, TRUE)
            BY <1>2, <2>1
        <3> QED BY <1>3, <2>1, <3>1, RunGoesOn
    <2>2. CASE ~(run.status = "running" /\ i \in Observed(s))
        <3>1. R[i] = run
            BY <1>2, <2>2
        <3>2. i \notin Observed(s) => \A j \in Observed(s) : j <= i => j <= i - 1
            BY <1>1, ObservedFacts
        <3>3. run.status = "running" => Holds(s, run.env, w, i)
            <4> HIDE DEF w, run
            <4> QED BY <1>3, <2>2, <3>2 DEF Holds, WellRun, run
        <3> HIDE DEF w
        <3> QED BY <1>3, <2>2, <3>1, <3>3 DEF WellRun, Continues
    <2> QED BY <2>1, <2>2
<1>4. 0 \in Good
    <2>1. Agrees(ParamEnv, w) /\ DOMAIN ParamEnv = Param
        BY MeaningFacts DEF ParamEnv
    <2>2. Holds(s, ParamEnv, w, 0)
        <3>1. \A j \in Observed(s) : ~(j <= 0)
            BY <1>1, ObservedFacts
        <3> HIDE DEF w
        <3> QED BY <2>1, <3>1 DEF Holds
    <2> HIDE DEF w
    <2>3. WellRun(s, Started, w, 0)
        BY <2>2 DEF WellRun, IsRun, Started
    <2> QED BY <1>2, <2>3
<1>5. ASSUME NEW i \in Nat, i \in Good PROVE i + 1 \in Good
    <2> SUFFICES ASSUME i + 1 <= Len(s) PROVE WellRun(s, R[i + 1], w, i + 1)
        OBVIOUS
    <2>1. i + 1 \in 1..Len(s) /\ (i + 1) - 1 = i /\ WellRun(s, R[i], w, i)
        BY <1>1, <1>5
    <2> HIDE DEF w
    <2> QED BY <1>3, <2>1
<1>6. Nat \subseteq Good
    <2> HIDE DEF Good
    <2> QED BY <1>4, <1>5, SetInduction
<1>7. \A i \in 0..Len(s) : WellRun(s, R[i], w, i)
    <2> HIDE DEF w
    <2> QED BY <1>1, <1>6
<1>8. \A i \in 1..Len(s) : Continues(s, R[i - 1], R[i], w, reply, i)
    <2> HIDE DEF w
    <2> QED BY <1>1, <1>3, <1>7
<1>9. \A i \in 0..Len(s) : R[i].out \in Seq(Terms(s, w)) /\ R[i].muts \in Seq(Terms(s, w))
    <2> HIDE DEF w
    <2> QED BY <1>7 DEF WellRun
<1>10. R[0].out = <<>> /\ R[0].muts = <<>> /\ R[0].status = "running"
    BY <1>2 DEF Started
<1> QED BY <1>8, <1>9, <1>10 DEF R

\* A run that has left the list stays as it is.
LEMMA Stopped ==
    ASSUME NEW s \in Sources, SingleAssignment(s), NEW reply, NEW k \in 0..Len(s),
           After(s, reply, TRUE)[k].status # "running"
    PROVE  \A i \in k..Len(s) : After(s, reply, TRUE)[i] = After(s, reply, TRUE)[k]
<1> DEFINE R == After(s, reply, TRUE)
           Good == {i \in Nat : k <= i /\ i <= Len(s) => R[i] = R[k]}
<1>1. Len(s) \in Nat /\ \A i \in 1..Len(s) : R[i - 1].status # "running" => R[i] = R[i - 1]
    BY ListFacts, EachStep DEF Continues
<1> HIDE DEF R
<1>2. 0 \in Good
    OBVIOUS
<1>3. ASSUME NEW i \in Nat, i \in Good PROVE i + 1 \in Good
    <2> SUFFICES ASSUME k <= i + 1, i + 1 <= Len(s) PROVE R[i + 1] = R[k]
        OBVIOUS
    <2>1. CASE k = i + 1
        BY <2>1
    <2>2. CASE k # i + 1
        <3>1. R[i] = R[k] /\ i + 1 \in 1..Len(s) /\ (i + 1) - 1 = i
            BY <1>1, <1>3, <2>2
        <3> QED BY <1>1, <3>1 DEF R
    <2> QED BY <2>1, <2>2
<1>4. Nat \subseteq Good
    <2> HIDE DEF Good
    <2> QED BY <1>2, <1>3, SetInduction
<1>5. \A i \in k..Len(s) : R[i] = R[k]
    BY <1>1, <1>4
<1> QED BY <1>5 DEF R

\* Statements without an effect leave no trace.
LEMMA Quiet ==
    ASSUME NEW s \in Sources, SingleAssignment(s), NEW reply, NEW k \in 0..Len(s)
    PROVE  LET R == After(s, reply, TRUE)
           IN  \A i \in k..Len(s) : (\A j \in 1..Len(s) : k < j /\ j <= i => ~IsEffect(s[j])) =>
                   R[i].out = R[k].out /\ R[i].muts = R[k].muts /\ R[i].status = R[k].status
<1> DEFINE R == After(s, reply, TRUE)
           w == Meaning(s, reply)
           Same(i) == R[i].out = R[k].out /\ R[i].muts = R[k].muts /\ R[i].status = R[k].status
           Still(i) == \A j \in 1..Len(s) : k < j /\ j <= i => ~IsEffect(s[j])
           Good == {i \in Nat : k <= i /\ i <= Len(s) /\ Still(i) => Same(i)}
<1>1. Len(s) \in Nat /\ \A i \in 1..Len(s) : Continues(s, R[i - 1], R[i], w, reply, i)
    BY ListFacts, EachStep
<1>2. \A i \in 1..Len(s) : s[i].kind \in Kind
    BY ListFacts
<1> HIDE DEF R, w
<1>3. ASSUME NEW i \in 1..Len(s), ~IsEffect(s[i])
      PROVE  R[i].out = R[i - 1].out /\ R[i].muts = R[i - 1].muts /\ R[i].status = R[i - 1].status
    BY <1>1, <1>2, <1>3 DEF Continues, ShownBy, SentBy, StatusBy, EffectFails, IsEffect, Kind
<1>4. 0 \in Good
    OBVIOUS
<1>5. ASSUME NEW i \in Nat, i \in Good PROVE i + 1 \in Good
    <2> SUFFICES ASSUME k <= i + 1, i + 1 <= Len(s), Still(i + 1) PROVE Same(i + 1)
        OBVIOUS
    <2>1. CASE k = i + 1
        BY <2>1
    <2>2. CASE k # i + 1
        <3>1. Still(i) /\ k <= i /\ i <= Len(s)
            BY <1>1, <2>2
        <3>2. Same(i)
            BY <1>5, <3>1
        <3>3. i + 1 \in 1..Len(s) /\ (i + 1) - 1 = i /\ ~IsEffect(s[i + 1])
            BY <1>1, <2>2
        <3> QED BY <1>3, <3>2, <3>3
    <2> QED BY <2>1, <2>2
<1>6. Nat \subseteq Good
    <2> HIDE DEF Good
    <2> QED BY <1>4, <1>5, SetInduction
<1>7. ASSUME NEW i \in k..Len(s), Still(i) PROVE Same(i)
    <2>1. i \in Nat /\ k <= i /\ i <= Len(s)
        BY <1>1, <1>7
    <2> QED BY <1>6, <1>7, <2>1
<1> QED BY <1>7 DEF R

-----------------------------------------------------------------------------
\* a is an initial part of b.
Starts(a, b) == Len(a) <= Len(b) /\ a = SubSeq(b, 1, Len(a))

LEMMA StartsGrow ==
    ASSUME NEW T, NEW a \in Seq(T), NEW b \in Seq(T), NEW t \in T
    PROVE  Starts(a, b) => Starts(a, Append(b, t))
PROOF BY DEF Starts

LEMMA StartsItself ==
    ASSUME NEW T, NEW a \in Seq(T) PROVE Starts(a, a)
PROOF BY DEF Starts

\* What was shown and sent is never taken back.
LEMMA OnlyAppends ==
    ASSUME NEW s \in Sources, SingleAssignment(s), NEW reply, NEW k \in 0..Len(s)
    PROVE  LET R == After(s, reply, TRUE)
           IN  \A i \in k..Len(s) : Starts(R[k].out, R[i].out) /\ Starts(R[k].muts, R[i].muts)
<1> DEFINE R == After(s, reply, TRUE)
           w == Meaning(s, reply)
           T == Terms(s, w)
           Grown(i) == Starts(R[k].out, R[i].out) /\ Starts(R[k].muts, R[i].muts)
           Good == {i \in Nat : k <= i /\ i <= Len(s) => Grown(i)}
<1>1. /\ Len(s) \in Nat /\ \A i \in 1..Len(s) : Continues(s, R[i - 1], R[i], w, reply, i)
      /\ \A i \in 0..Len(s) : R[i].out \in Seq(T) /\ R[i].muts \in Seq(T)
    BY ListFacts, EachStep
<1>2. \A i \in 1..Len(s) : Term(s[i], w) \in T
    BY DEF Terms
<1> HIDE DEF R, T
<1>3. Grown(k)
    BY <1>1, StartsItself
<1>4. ASSUME NEW i \in 0..Len(s), i + 1 <= Len(s), Grown(i) PROVE Grown(i + 1)
    <2> DEFINE t == Term(s[i + 1], w)
               run == R[i]
               next == R[i + 1]
    <2>1. /\ i + 1 \in 1..Len(s) /\ (i + 1) - 1 = i /\ t \in T
          /\ run.out \in Seq(T) /\ run.muts \in Seq(T) /\ R[k].out \in Seq(T) /\ R[k].muts \in Seq(T)
        BY <1>1, <1>2, <1>4
    <2>2. Continues(s, run, next, w, reply, i + 1)
        BY <1>1, <2>1
    <2> HIDE DEF run, next, w, t
    <2>3. (next.out = run.out \/ next.out = Append(run.out, t))
          /\ (next.muts = run.muts \/ next.muts = Append(run.muts, t))
        BY <2>2 DEF Continues, ShownBy, SentBy, t
    <2>4. Starts(R[k].out, run.out) /\ Starts(R[k].muts, run.muts)
        BY <1>4 DEF run
    <2>5. Starts(R[k].out, Append(run.out, t)) /\ Starts(R[k].muts, Append(run.muts, t))
        BY <2>1, <2>4, StartsGrow
    <2> QED BY <2>3, <2>4, <2>5 DEF next
<1>5. 0 \in Good
    BY <1>1, <1>3
<1>6. ASSUME NEW i \in Nat, i \in Good PROVE i + 1 \in Good
    <2> SUFFICES ASSUME k <= i + 1, i + 1 <= Len(s) PROVE Grown(i + 1)
        OBVIOUS
    <2> HIDE DEF Grown
    <2>1. CASE k = i + 1
        BY <1>3, <2>1
    <2>2. CASE k # i + 1
        BY <1>1, <1>4, <1>6, <2>2
    <2> QED BY <2>1, <2>2
<1>7. Nat \subseteq Good
    <2> HIDE DEF Good
    <2> QED BY <1>5, <1>6, SetInduction
<1>8. \A i \in k..Len(s) : Grown(i)
    <2> HIDE DEF Grown
    <2> QED BY <1>1, <1>7
<1> QED BY <1>8 DEF R
=============================================================================
