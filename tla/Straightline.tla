---------------------------- MODULE Straightline ----------------------------
(***************************************************************************)
(* A statement list read as the programmer wrote it: which definition each *)
(* variable refers to, what an observer can see of it, and what it does    *)
(* when its statements run one after the other.  Nothing here models code: *)
(* the compiler passes and the executor are compared with it.              *)
(***************************************************************************)
EXTENDS HaleIR

\* The statement of s that bound r last before statement i; 0 if there is none.
ReachingDef(s, i, r) ==
    LET defs == {j \in 1..(i - 1) : s[j].bind = r}
    IN  IF defs = {} THEN 0 ELSE CHOOSE j \in defs : \A k \in defs : k <= j

\* The statements i needs to have run before it.
Needs(s, i) ==
    ({ReachingDef(s, i, r) : r \in s[i].reads} \ {0})
    \cup {j \in 1..(i - 1) : IsEffect(s[i]) /\ IsEffect(s[j])}

\* The statements an effect needs, directly or not.
Observed(s) ==
    LET ids    == 1..Len(s)
        closed == {S \in SUBSET ids : /\ {i \in ids : IsEffect(s[i])} \subseteq S
                                      /\ \A i \in S : Needs(s, i) \subseteq S}
    IN  {i \in ids : \A S \in closed : i \in S}

\* Two statements send the same request with the same inputs.
SameRequest(s, i, j) ==
    /\ s[i].kind = "fetch" /\ s[j].kind = "fetch"
    /\ s[i].method = "GET" /\ s[j].method = "GET"
    /\ s[i].text = s[j].text /\ s[i].reads = s[j].reads
    /\ \A r \in s[i].reads : ReachingDef(s, i, r) = ReachingDef(s, j, r)

\* ... and two that deduplication takes for the same, by their rendering.
WrittenAlike(s, i, j) ==
    /\ s[i].kind = "fetch" /\ s[j].kind = "fetch"
    /\ s[i].method = "GET" /\ s[j].method = "GET"
    /\ Rendering[s[i].text] = Rendering[s[j].text] /\ s[i].reads = s[j].reads
    /\ \A r \in s[i].reads : ReachingDef(s, i, r) = ReachingDef(s, j, r)

\* No two requests of s differ only in what the rendering leaves out.
RenderedApart(s) ==
    \A i, j \in 1..Len(s) :
        s[i].kind = "fetch" /\ s[j].kind = "fetch" /\ Rendering[s[i].text] = Rendering[s[j].text]
            => s[i].text = s[j].text

\* Every variable has one definition, written before it is read, and requests
\* that are written alike are the same and bound alike.  The checker enforces
\* none of this.
SingleAssignment(s) ==
    LET ids == 1..Len(s)
    IN  /\ \A i, j \in ids : i # j /\ s[i].bind # NoVar => s[i].bind # s[j].bind
        /\ \A i \in ids : /\ s[i].bind \notin Param
                          /\ \A r \in s[i].reads \ Param : ReachingDef(s, i, r) # 0
        /\ \A i, j \in ids : WrittenAlike(s, i, j) =>
               SameRequest(s, i, j) /\ s[i].result = s[j].result

-----------------------------------------------------------------------------
(***************************************************************************)
(* One statement after the other.  A run is what has been printed or       *)
(* returned (out), the mutations sent (muts) and how it stands.  When      *)
(* hopeful, a read or a `let` that fails does not stop the run, which then *)
(* lists every line and every mutation that could ever come out.           *)
(***************************************************************************)
Started == [env |-> ParamEnv, out |-> <<>>, muts |-> <<>>, status |-> "running"]

Fail(run) == [run EXCEPT !.status = "failed"]

\* A mutation is sent unless its request cannot be evaluated.
Sending(run, n, reply) ==
    IF n.kind = "fetch" /\ n.method # "GET" /\ reply[n.text] # "bad"
    THEN [run EXCEPT !.muts = Append(@, Term(n, run.env))]
    ELSE run

RunStmt(run, n, reply, hopeful) ==
    LET sent       == Sending(run, n, reply)
        bound(val) == [sent EXCEPT !.env = Insert(run.env, n.bind, val)]
        shown      == [run EXCEPT !.out = Append(@, Term(n, run.env))]
    IN  IF ~Evaluable(n, run.env) THEN Fail(run)
        ELSE IF Fails(n, reply) /\ (IsEffect(n) \/ ~hopeful) THEN Fail(sent)
        ELSE CASE n.kind = "fetch"  -> bound(FetchValue(n, run.env, reply))
               [] n.kind = "let"    -> bound(LetValue(n, run.env))
               [] n.kind = "log"    -> shown
               [] n.kind = "assert" -> run
               [] n.kind = "return" -> [shown EXCEPT !.status = "returned"]

\* After each statement of the list, unobserved statements skipped.
After(s, reply, hopeful) ==
    LET seen == Observed(s)
        after[i \in 0..Len(s)] ==
            IF i = 0 THEN Started
            ELSE IF after[i - 1].status = "running" /\ i \in seen
                 THEN RunStmt(after[i - 1], s[i], reply, hopeful)
                 ELSE after[i - 1]
    IN  after

StraightRun(s, reply, hopeful) == After(s, reply, hopeful)[Len(s)]

\* Some observed statement cannot succeed.
MayFail(s, reply) ==
    \E i \in Observed(s) :
        \/ Fails(s[i], reply)
        \/ \E r \in s[i].reads \ Param : ReachingDef(s, i, r) = 0
=============================================================================
