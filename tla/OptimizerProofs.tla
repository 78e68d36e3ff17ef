-------------------------- MODULE OptimizerProofs ---------------------------
(***************************************************************************)
(* What the optimizer guarantees for every set of sources, proved from an  *)
(* inductive invariant that follows the passes: nodes are wired to earlier *)
(* nodes only, every effect to the effect before it, only reads are ever   *)
(* rewritten, and the levelling pass has put every node it has passed      *)
(* above its live dependencies and above every earlier effect.             *)
(***************************************************************************)
EXTENDS Optimizer, FiniteSetTheorems, TLAPS

Effect(i) == IsEffect(src[i])

\* A GET with a binding, before or after it was rewritten.
IsRead(i) == src[i].kind = "fetch" /\ src[i].method = "GET" /\ src[i].bind # NoVar

\* A node is its statement or the alias a read was rewritten to.
NodesFaithful ==
    \A i \in Ids :
        /\ nodes[i].bind = src[i].bind
        /\ nodes[i].effect <=> Effect(i)
        /\ nodes[i] # Lower(src[i]) => IsRead(i)

\* What dedup_requests remembers are reads, and it rewrites to an earlier one.
ReadsRemembered ==
    /\ phase = "wire" => DOMAIN seen = {}
    /\ \A s \in DOMAIN seen : IsRead(seen[s]) /\ (phase = "scan" => seen[s] < cursor)
    /\ \A r \in rewrites : IsRead(r[1]) /\ IsRead(r[2]) /\ r[2] < r[1]

\* Dependencies point back.
DepsPointBack ==
    /\ \A i \in Ids : \A d \in deps[i] : d < i
    /\ phase = "wire" => /\ \A r \in DOMAIN lastWriter : lastWriter[r] < cursor
                         /\ lastEffect < cursor

\* compute_deps has reached node i.
Wired(i) == phase = "wire" => i < cursor

\* Every wired effect depends on an effect no earlier than any before it.
EffectsChained ==
    /\ \A a, b \in Ids : Effect(a) /\ Effect(b) /\ a < b /\ Wired(b) =>
           \E e \in deps[b] : Effect(e) /\ a <= e
    /\ phase = "wire" =>
           /\ lastEffect # 0 => Effect(lastEffect)
           /\ \A a \in Ids : Effect(a) /\ a < cursor => a <= lastEffect

\* Effects are live as soon as liveness has looked.
EffectsLive ==
    phase \in {"mark", "level", "done"} => \A i \in Ids : Effect(i) => i \in live

\* schedule_waves has passed node i.
Levelled(i) == phase = "done" \/ (phase = "level" /\ i < cursor)

LevelsRise ==
    /\ \A i \in live : Levelled(i) => \A d \in deps[i] \cap live : level[d] < level[i]
    /\ phase = "level" /\ cursor \in Ids =>
           \A d \in (deps[cursor] \cap live) \ todo : level[d] < lvl

EffectsRise ==
    \A a, b \in Ids : Effect(a) /\ Effect(b) /\ a < b /\ Levelled(b) => level[a] < level[b]

OptInv ==
    /\ OptTypeOK /\ NodesFaithful /\ ReadsRemembered /\ DepsPointBack
    /\ EffectsChained /\ EffectsLive /\ LevelsRise /\ EffectsRise

-----------------------------------------------------------------------------
LEMMA SourceShape ==
    ASSUME src \in Sources
    PROVE  /\ Len(src) \in Nat
           /\ \A i \in Ids : src[i] \in Stmt
PROOF BY SourcesAssumption DEF Ids

LEMMA LowerType ==
    ASSUME NEW s \in Stmt
    PROVE  /\ Lower(s) \in Node
           /\ Lower(s).bind = s.bind
           /\ Lower(s).effect <=> IsEffect(s)
           /\ Lower(s).kind = s.kind
           /\ Lower(s).method = s.method
           /\ Lower(s).text = s.text
           /\ Lower(s).reads = s.reads
PROOF BY DEF Stmt, Node, Lower, IsEffect, Kind, Method

LEMMA InitOptInv == OptInit => OptInv
<1> SUFFICES ASSUME OptInit PROVE OptInv
    OBVIOUS
<1>1. Len(src) \in Nat /\ \A i \in Ids : src[i] \in Stmt
    BY SourceShape DEF OptInit
<1>2. \A i \in Ids : /\ nodes[i] = Lower(src[i])
                     /\ Lower(src[i]) \in Node
                     /\ nodes[i].bind = src[i].bind
                     /\ nodes[i].effect <=> Effect(i)
    BY <1>1, LowerType DEF OptInit, LowerStmts, Ids, Effect
<1>3. OptTypeOK
    <2>1. nodes \in [Ids -> Node]
        BY <1>1, <1>2 DEF OptInit, LowerStmts, Ids
    <2> QED BY <1>1, <2>1 DEF OptInit, OptTypeOK, Ids, Nothing
<1>4. NodesFaithful
    BY <1>2 DEF NodesFaithful
<1>5. ReadsRemembered /\ DepsPointBack
    BY <1>1 DEF OptInit, ReadsRemembered, DepsPointBack, Nothing, Ids
<1>6. EffectsChained
    BY <1>1 DEF OptInit, EffectsChained, Wired, Ids
<1>7. EffectsLive /\ LevelsRise /\ EffectsRise
    BY DEF OptInit, EffectsLive, LevelsRise, EffectsRise, Levelled
<1> QED BY <1>3, <1>4, <1>5, <1>6, <1>7 DEF OptInv

-----------------------------------------------------------------------------
\* What the fields of a statement and of its node can be.
LEMMA LenSource == OptTypeOK => Len(src) \in Nat
PROOF BY SourceShape DEF OptTypeOK

LEMMA NodeFields ==
    ASSUME OptTypeOK, NEW i \in Ids
    PROVE  /\ src[i] \in Stmt
           /\ nodes[i] \in Node
           /\ nodes[i].bind \in Var \cup {NoVar}
           /\ nodes[i].reads \subseteq Var
PROOF BY SourceShape DEF OptTypeOK, Node

LEMMA ReadsHaveNoEffect == ASSUME NEW i, IsRead(i) PROVE ~Effect(i)
PROOF BY DEF IsRead, Effect, IsEffect

LEMMA WireNodeStep == OptInv /\ WireNode => OptInv'
<1> SUFFICES ASSUME OptInv, WireNode PROVE OptInv'
    OBVIOUS
<1> USE DEF OptInv
<1>1. OptTypeOK /\ Len(src) \in Nat /\ cursor \in Ids /\ phase = "wire" /\ Ids' = Ids
    BY LenSource DEF WireNode, Ids
<1>2. nodes[cursor].bind \in Var \cup {NoVar} /\ (nodes[cursor].effect <=> Effect(cursor))
    <2>1. nodes[cursor].bind \in Var \cup {NoVar}
        BY <1>1, NodeFields
    <2>2. nodes[cursor].effect <=> Effect(cursor)
        BY <1>1 DEF NodesFaithful
    <2> QED BY <2>1, <2>2
<1>3. Writers(nodes[cursor]) \subseteq {d \in Ids : d < cursor}
    BY <1>1 DEF Writers, OptTypeOK, DepsPointBack, Ids
<1>4. EffectChain(nodes[cursor]) \subseteq {d \in Ids : d < cursor}
    BY <1>1 DEF EffectChain, OptTypeOK, DepsPointBack, Ids
<1>5. /\ DOMAIN lastWriter' \subseteq Var
      /\ \A r \in DOMAIN lastWriter' : lastWriter'[r] \in Ids /\ lastWriter'[r] <= cursor
    BY <1>1, <1>2 DEF WireNode, Insert, OptTypeOK, DepsPointBack, Ids
<1>6. OptTypeOK'
    <2>1. deps' \in [Ids -> SUBSET Ids]
        BY <1>1, <1>3, <1>4 DEF WireNode, OptTypeOK
    <2> QED BY <1>1, <1>5, <2>1 DEF WireNode, OptTypeOK, Ids
<1>7. NodesFaithful' /\ ReadsRemembered'
    BY <1>1 DEF WireNode, NodesFaithful, ReadsRemembered, Effect, IsRead
<1>8. DepsPointBack'
    BY <1>1, <1>3, <1>4, <1>5 DEF WireNode, DepsPointBack, OptTypeOK, Ids
<1>9. EffectsChained'
    <2>1. ASSUME NEW a \in Ids, NEW b \in Ids, Effect(a), Effect(b), a < b, b < cursor + 1
          PROVE  \E e \in deps'[b] : Effect(e) /\ a <= e
        <3>1. CASE b = cursor
            <4>1. lastEffect # 0 /\ a <= lastEffect /\ Effect(lastEffect)
                BY <1>1, <2>1, <3>1 DEF EffectsChained, Ids, OptTypeOK
            <4>2. lastEffect \in deps'[b]
                BY <1>1, <1>2, <2>1, <3>1, <4>1 DEF WireNode, OptTypeOK, EffectChain
            <4> QED BY <4>1, <4>2
        <3>2. CASE b # cursor
            BY <1>1, <2>1, <3>2 DEF EffectsChained, Wired, WireNode, OptTypeOK, Ids
        <3> QED BY <3>1, <3>2
    <2>2. /\ lastEffect' # 0 => Effect(lastEffect')
          /\ \A a \in Ids : Effect(a) /\ a < cursor + 1 => a <= lastEffect'
        BY <1>1, <1>2 DEF WireNode, EffectsChained, Ids, DepsPointBack, OptTypeOK
    <2> QED BY <1>1, <2>1, <2>2 DEF WireNode, EffectsChained, Effect, Wired
<1>10. EffectsLive' /\ LevelsRise' /\ EffectsRise'
    BY <1>1 DEF WireNode, EffectsLive, LevelsRise, EffectsRise, Levelled
<1> QED BY <1>6, <1>7, <1>8, <1>9, <1>10

LEMMA WireDoneStep == OptInv /\ WireDone => OptInv'
<1> SUFFICES ASSUME OptInv, WireDone PROVE OptInv'
    OBVIOUS
<1> USE DEF OptInv
<1>1. OptTypeOK /\ Len(src) \in Nat /\ Ids' = Ids /\ phase = "wire" /\ phase' = "scan"
    BY LenSource DEF WireDone, Ids
<1>2. OptTypeOK' /\ NodesFaithful' /\ DepsPointBack'
    BY <1>1 DEF WireDone, OptTypeOK, NodesFaithful, DepsPointBack, Effect, IsRead, Ids
<1>3. ReadsRemembered'
    BY <1>1 DEF WireDone, ReadsRemembered, IsRead, OptTypeOK
<1>4. EffectsChained'
    BY <1>1 DEF WireDone, EffectsChained, Wired, Effect, OptTypeOK, Ids
<1>5. EffectsLive' /\ LevelsRise' /\ EffectsRise'
    BY <1>1 DEF WireDone, EffectsLive, LevelsRise, EffectsRise, Levelled
<1> QED BY <1>2, <1>3, <1>4, <1>5

LEMMA ScanNodeStep == OptInv /\ ScanNode => OptInv'
<1> SUFFICES ASSUME OptInv, ScanNode PROVE OptInv'
    OBVIOUS
<1> USE DEF OptInv
<1>1. /\ OptTypeOK /\ Len(src) \in Nat /\ cursor \in Ids /\ Ids' = Ids
      /\ phase = "scan" /\ phase' = "scan" /\ cursor' = cursor + 1
    BY LenSource DEF ScanNode, Ids
<1>2. Dedupable(nodes[cursor]) => IsRead(cursor)
    <2>1. CASE nodes[cursor] = Lower(src[cursor])
        BY <1>1, <2>1, NodeFields, LowerType DEF Dedupable, IsFetch, IsRead
    <2>2. CASE nodes[cursor] # Lower(src[cursor])
        BY <1>1, <2>2 DEF NodesFaithful
    <2> QED BY <2>1, <2>2
<1>3. /\ \A s \in DOMAIN seen' : seen'[s] \in Ids /\ IsRead(seen'[s]) /\ seen'[s] <= cursor
      /\ \A r \in rewrites' : /\ r \in Ids \X Ids
                              /\ IsRead(r[1]) /\ IsRead(r[2]) /\ r[2] < r[1]
    <2>1. CASE ~Dedupable(nodes[cursor])
        BY <1>1, <2>1 DEF ScanNode, ReadsRemembered, OptTypeOK, Ids
    <2>2. CASE Dedupable(nodes[cursor]) /\ Signature(cursor) \in DOMAIN seen
        BY <1>1, <1>2, <2>2 DEF ScanNode, ReadsRemembered, OptTypeOK, Ids
    <2>3. CASE Dedupable(nodes[cursor]) /\ Signature(cursor) \notin DOMAIN seen
        BY <1>1, <1>2, <2>3 DEF ScanNode, ReadsRemembered, OptTypeOK, Ids
    <2> QED BY <2>1, <2>2, <2>3
<1>4. OptTypeOK'
    BY <1>1, <1>3 DEF ScanNode, OptTypeOK, Ids
<1>5. ReadsRemembered'
    BY <1>1, <1>3 DEF ScanNode, ReadsRemembered, IsRead, Ids
<1>6. NodesFaithful' /\ DepsPointBack'
    BY <1>1 DEF ScanNode, NodesFaithful, DepsPointBack, Effect, IsRead
<1>7. EffectsChained'
    BY <1>1 DEF ScanNode, EffectsChained, Wired, Effect
<1>8. EffectsLive' /\ LevelsRise' /\ EffectsRise'
    BY <1>1 DEF ScanNode, EffectsLive, LevelsRise, EffectsRise, Levelled
<1> QED BY <1>4, <1>5, <1>6, <1>7, <1>8

LEMMA ScanDoneStep == OptInv /\ ScanDone => OptInv'
<1> SUFFICES ASSUME OptInv, ScanDone PROVE OptInv'
    OBVIOUS
<1> USE DEF OptInv
<1>1. Ids' = Ids /\ phase = "scan" /\ phase' = "rewrite"
    BY DEF ScanDone, Ids
<1>2. OptTypeOK' /\ NodesFaithful' /\ DepsPointBack' /\ ReadsRemembered'
    BY <1>1 DEF ScanDone, OptTypeOK, NodesFaithful, DepsPointBack, ReadsRemembered,
                Effect, IsRead
<1>3. EffectsChained'
    BY <1>1 DEF ScanDone, EffectsChained, Wired, Effect
<1>4. EffectsLive' /\ LevelsRise' /\ EffectsRise'
    BY <1>1 DEF ScanDone, EffectsLive, LevelsRise, EffectsRise, Levelled
<1> QED BY <1>2, <1>3, <1>4

LEMMA RewriteOneStep == OptInv /\ RewriteOne => OptInv'
<1> SUFFICES ASSUME OptInv, RewriteOne PROVE OptInv'
    OBVIOUS
<1> USE DEF OptInv
<1>1. OptTypeOK /\ Ids' = Ids /\ phase = "rewrite" /\ phase' = "rewrite"
    BY DEF RewriteOne, Ids
<1>2. PICK r \in rewrites :
          /\ nodes' = [nodes EXCEPT ![r[1]] = Alias(nodes[r[1]], nodes[r[2]].bind)]
          /\ deps' = [deps EXCEPT ![r[1]] = {r[2]}]
          /\ rewrites' = rewrites \ {r}
    BY DEF RewriteOne
<1>3. r[1] \in Ids /\ r[2] \in Ids /\ r[2] < r[1] /\ IsRead(r[1]) /\ IsRead(r[2])
    BY <1>1 DEF OptTypeOK, ReadsRemembered
<1> DEFINE alias == Alias(nodes[r[1]], nodes[r[2]].bind)
<1>4. /\ alias \in Node
      /\ alias.bind = nodes[r[1]].bind
      /\ alias.effect = nodes[r[1]].effect
    <2>1. nodes[r[2]].bind \in Var
        BY <1>1, <1>3, NodeFields DEF NodesFaithful, IsRead
    <2>2. nodes[r[1]] \in Node
        BY <1>1, <1>3, NodeFields
    <2> QED BY <2>1, <2>2 DEF Node, Alias, Method
<1>5. OptTypeOK'
    BY <1>1, <1>2, <1>3, <1>4 DEF RewriteOne, OptTypeOK
<1>6. NodesFaithful'
    BY <1>1, <1>2, <1>3, <1>4 DEF RewriteOne, OptTypeOK, NodesFaithful, Effect, IsRead
<1>7. DepsPointBack' /\ ReadsRemembered'
    BY <1>1, <1>2, <1>3 DEF RewriteOne, OptTypeOK, DepsPointBack, ReadsRemembered, IsRead
<1>8. EffectsChained'
    <2>1. \A b \in Ids : Effect(b) => deps'[b] = deps[b]
        BY <1>1, <1>2, <1>3, ReadsHaveNoEffect DEF OptTypeOK
    <2> QED BY <1>1, <2>1 DEF RewriteOne, EffectsChained, Wired, Effect
<1>9. EffectsLive' /\ LevelsRise' /\ EffectsRise'
    BY <1>1 DEF RewriteOne, EffectsLive, LevelsRise, EffectsRise, Levelled
<1> QED BY <1>5, <1>6, <1>7, <1>8, <1>9

LEMMA RewriteDoneStep == OptInv /\ RewriteDone => OptInv'
<1> SUFFICES ASSUME OptInv, RewriteDone PROVE OptInv'
    OBVIOUS
<1> USE DEF OptInv
<1>1. Ids' = Ids /\ phase = "rewrite" /\ phase' = "roots"
    BY DEF RewriteDone, Ids
<1>2. OptTypeOK' /\ NodesFaithful' /\ DepsPointBack' /\ ReadsRemembered'
    BY <1>1 DEF RewriteDone, OptTypeOK, NodesFaithful, DepsPointBack, ReadsRemembered,
                Effect, IsRead
<1>3. EffectsChained' /\ EffectsLive' /\ LevelsRise' /\ EffectsRise'
    BY <1>1 DEF RewriteDone, EffectsChained, Wired, Effect, EffectsLive, LevelsRise,
                EffectsRise, Levelled
<1> QED BY <1>2, <1>3

LEMMA MarkRootsStep == OptInv /\ MarkRoots => OptInv'
<1> SUFFICES ASSUME OptInv, MarkRoots PROVE OptInv'
    OBVIOUS
<1> USE DEF OptInv
<1>1. Ids' = Ids /\ phase = "roots" /\ phase' = "mark" /\ live' = Roots
    BY DEF MarkRoots, Ids
<1>2. OptTypeOK' /\ NodesFaithful' /\ DepsPointBack' /\ ReadsRemembered'
    BY <1>1 DEF MarkRoots, Roots, OptTypeOK, NodesFaithful, DepsPointBack, ReadsRemembered,
                Effect, IsRead
<1>3. EffectsLive'
    BY <1>1 DEF MarkRoots, Roots, NodesFaithful, EffectsLive, Effect
<1>4. EffectsChained' /\ LevelsRise' /\ EffectsRise'
    BY <1>1 DEF MarkRoots, EffectsChained, Wired, Effect, LevelsRise, EffectsRise, Levelled
<1> QED BY <1>2, <1>3, <1>4

LEMMA MarkDepsStep == OptInv /\ MarkDeps => OptInv'
<1> SUFFICES ASSUME OptInv, MarkDeps PROVE OptInv'
    OBVIOUS
<1> USE DEF OptInv
<1>1. Ids' = Ids /\ phase = "mark" /\ phase' = "mark" /\ live \subseteq live'
    BY DEF MarkDeps, Ids
<1>2. OptTypeOK'
    BY <1>1 DEF MarkDeps, NewlyLive, OptTypeOK
<1>3. NodesFaithful' /\ DepsPointBack' /\ ReadsRemembered' /\ EffectsLive'
    BY <1>1 DEF MarkDeps, NodesFaithful, DepsPointBack, ReadsRemembered, EffectsLive,
                Effect, IsRead
<1>4. EffectsChained' /\ LevelsRise' /\ EffectsRise'
    BY <1>1 DEF MarkDeps, EffectsChained, Wired, Effect, LevelsRise, EffectsRise, Levelled
<1> QED BY <1>2, <1>3, <1>4

LEMMA MarkDoneStep == OptInv /\ MarkDone => OptInv'
<1> SUFFICES ASSUME OptInv, MarkDone PROVE OptInv'
    OBVIOUS
<1> USE DEF OptInv
<1>1. /\ Ids' = Ids /\ phase = "mark" /\ phase' = "level" /\ cursor' = 1
      /\ Len(src) \in Nat
    BY LenSource DEF MarkDone, Ids
<1>2. todo' = (IF 1 \in Ids THEN deps[1] ELSE {}) /\ lvl' = 0
    BY DEF MarkDone
<1>3. OptTypeOK'
    BY <1>1, <1>2 DEF MarkDone, OptTypeOK, Ids
<1>4. NodesFaithful' /\ DepsPointBack' /\ ReadsRemembered' /\ EffectsLive'
    BY <1>1 DEF MarkDone, NodesFaithful, DepsPointBack, ReadsRemembered, EffectsLive,
                Effect, IsRead
<1>5. EffectsChained' /\ EffectsRise'
    BY <1>1 DEF MarkDone, EffectsChained, Wired, Effect, EffectsRise, Levelled, Ids
<1>6. LevelsRise'
    BY <1>1, <1>2 DEF MarkDone, LevelsRise, Levelled, OptTypeOK, Ids
<1> QED BY <1>3, <1>4, <1>5, <1>6

LEMMA RaiseLevelStep == OptInv /\ RaiseLevel => OptInv'
<1> SUFFICES ASSUME OptInv, RaiseLevel PROVE OptInv'
    OBVIOUS
<1> USE DEF OptInv
<1>1. Ids' = Ids /\ phase = "level" /\ cursor \in Ids
    BY DEF RaiseLevel, Ids
<1>2. PICK d \in todo : lvl' = RaisedLevel(d) /\ todo' = todo \ {d}
    BY DEF RaiseLevel
<1>3. /\ d \in Ids /\ lvl' \in Nat /\ lvl <= lvl' /\ lvl \in Nat
      /\ d \in live => level[d] < lvl'
    BY <1>2 DEF RaisedLevel, OptTypeOK
<1>4. OptTypeOK'
    BY <1>1, <1>2, <1>3 DEF RaiseLevel, OptTypeOK
<1>5. NodesFaithful' /\ DepsPointBack' /\ ReadsRemembered' /\ EffectsLive'
    BY <1>1 DEF RaiseLevel, NodesFaithful, DepsPointBack, ReadsRemembered, EffectsLive,
                Effect, IsRead
<1>6. EffectsChained' /\ EffectsRise'
    BY <1>1 DEF RaiseLevel, EffectsChained, Wired, Effect, EffectsRise, Levelled
<1>7. LevelsRise'
    <2>1. \A i \in live' : Levelled(i)' => \A e \in deps'[i] \cap live' : level'[e] < level'[i]
        BY <1>1 DEF RaiseLevel, LevelsRise, Levelled
    <2>2. \A e \in (deps[cursor] \cap live) \ todo' : level[e] < lvl'
        BY <1>1, <1>2, <1>3 DEF LevelsRise, OptTypeOK
    <2> QED BY <1>1, <2>1, <2>2 DEF RaiseLevel, LevelsRise
<1> QED BY <1>4, <1>5, <1>6, <1>7

LEMMA LevelNodeStep == OptInv /\ LevelNode => OptInv'
<1> SUFFICES ASSUME OptInv, LevelNode PROVE OptInv'
    OBVIOUS
<1> USE DEF OptInv
<1>1. /\ Ids' = Ids /\ phase = "level" /\ phase' = "level" /\ cursor \in Ids
      /\ cursor' = cursor + 1 /\ lvl' = 0 /\ Len(src) \in Nat /\ OptTypeOK
      /\ todo' = IF cursor + 1 \in Ids THEN deps[cursor + 1] ELSE {}
      /\ live' = live /\ deps' = deps /\ src' = src
    BY LenSource DEF LevelNode, NextNode, Ids
<1>2. \/ cursor \in live /\ todo = {} /\ level' = [level EXCEPT ![cursor] = lvl]
      \/ cursor \notin live /\ level' = level
    BY DEF LevelNode
<1>3. OptTypeOK'
    <2>1. level' \in [Ids -> Nat] /\ depth' \in Nat
        BY <1>1 DEF LevelNode, OptTypeOK
    <2>2. todo' \subseteq Ids
        BY <1>1 DEF OptTypeOK
    <2>3. cursor' \in 1..Len(src) + 1
        BY <1>1 DEF Ids
    <2>4. /\ UNCHANGED <<src, nodes, phase, deps, lastWriter, lastEffect, seen,
                         rewrites, live, worklist>>
          /\ lvl' = 0
        BY DEF LevelNode
    <2> QED BY <1>1, <2>1, <2>2, <2>3, <2>4 DEF OptTypeOK
<1>4. NodesFaithful' /\ DepsPointBack' /\ ReadsRemembered' /\ EffectsLive'
    BY <1>1 DEF LevelNode, NodesFaithful, DepsPointBack, ReadsRemembered, EffectsLive,
                Effect, IsRead
<1>5. EffectsChained'
    BY <1>1 DEF LevelNode, EffectsChained, Wired, Effect
<1>6. \A i \in Ids : i < cursor => level'[i] = level[i]
    BY <1>1, <1>2 DEF OptTypeOK, Ids
<1>7. cursor \in live => /\ level'[cursor] = lvl
                        /\ \A d \in deps[cursor] \cap live : level[d] < lvl
    BY <1>1, <1>2 DEF LevelsRise, OptTypeOK
<1>8. LevelsRise'
    <2>1. ASSUME NEW i \in live, i < cursor + 1, NEW d \in deps[i] \cap live
          PROVE  level'[d] < level'[i]
        <3>1. i \in Ids /\ d \in Ids /\ d < i
            BY <1>1, <2>1 DEF OptTypeOK, DepsPointBack
        <3>2. CASE i = cursor
            BY <1>1, <1>6, <1>7, <2>1, <3>1, <3>2 DEF Ids
        <3>3. CASE i # cursor
            BY <1>1, <1>6, <2>1, <3>1, <3>3 DEF LevelsRise, Levelled, Ids
        <3> QED BY <3>2, <3>3
    <2> QED BY <1>1, <2>1 DEF LevelsRise, Levelled
<1>9. EffectsRise'
    <2>1. ASSUME NEW a \in Ids, NEW b \in Ids, Effect(a), Effect(b), a < b, b < cursor + 1
          PROVE  level'[a] < level'[b]
        <3>1. CASE b = cursor
            <4>1. PICK e \in deps[b] : Effect(e) /\ a <= e
                BY <1>1, <2>1 DEF EffectsChained, Wired
            <4>2. e \in Ids /\ e < b /\ e \in live /\ b \in live
                BY <1>1, <2>1, <4>1 DEF OptTypeOK, DepsPointBack, EffectsLive
            <4>3. level[e] < lvl
                BY <1>7, <3>1, <4>1, <4>2
            <4>4. level[a] <= level[e]
                BY <1>1, <2>1, <3>1, <4>1, <4>2 DEF EffectsRise, Levelled, OptTypeOK, Ids
            <4> QED BY <1>1, <1>6, <1>7, <2>1, <3>1, <4>2, <4>3, <4>4 DEF OptTypeOK, Ids
        <3>2. CASE b # cursor
            BY <1>1, <1>6, <2>1, <3>2 DEF EffectsRise, Levelled, Ids
        <3> QED BY <3>1, <3>2
    <2> QED BY <1>1, <2>1 DEF EffectsRise, Levelled, Effect
<1> QED BY <1>3, <1>4, <1>5, <1>8, <1>9

LEMMA LevelDoneStep == OptInv /\ LevelDone => OptInv'
<1> SUFFICES ASSUME OptInv, LevelDone PROVE OptInv'
    OBVIOUS
<1> USE DEF OptInv
<1>1. /\ Ids' = Ids /\ phase = "level" /\ phase' = "done" /\ Len(src) \in Nat
      /\ \A i \in Ids : i < cursor
    BY LenSource DEF LevelDone, Ids, OptTypeOK
<1>2. OptTypeOK' /\ NodesFaithful' /\ DepsPointBack' /\ ReadsRemembered' /\ EffectsLive'
    BY <1>1 DEF LevelDone, OptTypeOK, NodesFaithful, DepsPointBack, ReadsRemembered,
                EffectsLive, Effect, IsRead
<1>3. EffectsChained'
    BY <1>1 DEF LevelDone, EffectsChained, Wired, Effect
<1>4. LevelsRise' /\ EffectsRise'
    BY <1>1 DEF LevelDone, LevelsRise, EffectsRise, Levelled, Effect, OptTypeOK
<1> QED BY <1>2, <1>3, <1>4

LEMMA StutterStep == OptInv /\ UNCHANGED optVars => OptInv'
<1> SUFFICES ASSUME OptInv, UNCHANGED optVars PROVE OptInv'
    OBVIOUS
<1>1. OptTypeOK' /\ NodesFaithful' /\ ReadsRemembered' /\ DepsPointBack'
    BY DEF optVars, OptInv, OptTypeOK, NodesFaithful, ReadsRemembered, DepsPointBack,
           Effect, IsRead, Ids
<1>2. EffectsChained' /\ EffectsLive' /\ LevelsRise' /\ EffectsRise'
    BY DEF optVars, OptInv, EffectsChained, EffectsLive, LevelsRise, EffectsRise, Effect,
           Wired, Levelled, Ids
<1> QED BY <1>1, <1>2 DEF OptInv

LEMMA NextOptInv == OptInv /\ [OptNext]_optVars => OptInv'
PROOF BY WireNodeStep, WireDoneStep, ScanNodeStep, ScanDoneStep, RewriteOneStep,
         RewriteDoneStep, MarkRootsStep, MarkDepsStep, MarkDoneStep, RaiseLevelStep,
         LevelNodeStep, LevelDoneStep, StutterStep DEF OptNext

\* The passes keep every variable in range: a cursor never leaves the body, a
\* dependency always names one of its nodes.
THEOREM OptTypeCorrect == OptSpec => []OptTypeOK
<1>1. OptInv => OptTypeOK
    BY DEF OptInv
<1> QED BY InitOptInv, NextOptInv, <1>1, PTL DEF OptSpec

\* The schedule puts every effect in a later wave than all effects above it,
\* whatever the body.
THEOREM ScheduleSerializesEffects == OptSpec => []EffectsSerialized
<1>1. OptInv => EffectsSerialized
    BY DEF OptInv, EffectsRise, EffectsSerialized, Effect, Levelled, Done
<1> QED BY InitOptInv, NextOptInv, <1>1, PTL DEF OptSpec
-----------------------------------------------------------------------------
(***************************************************************************)
(* The schedule respects data flow, for every set of sources: what a       *)
(* scheduled node reads was produced in an earlier wave, and a fetch is    *)
(* only ever replaced by an identical one whose inputs have the same       *)
(* producers.  The invariant says that compute_deps finds the definitions  *)
(* that reach a node, that liveness closes the live set over them, and     *)
(* that a signature remembered by dedup_requests is the signature of a     *)
(* node that stays a fetch.                                                *)
(***************************************************************************)

Reaches(d, i, r) ==
    /\ d \in Ids /\ d < i /\ src[d].bind = r
    /\ \A j \in Ids : j < i /\ src[j].bind = r => j <= d

Unbound(i, r) == \A j \in Ids : j < i => src[j].bind # r

\* last_writer holds the latest definition of every variable bound so far.
LastWriterReaches ==
    phase = "wire" =>
        /\ \A r \in DOMAIN lastWriter : Reaches(lastWriter[r], cursor, r)
        /\ \A r \in Var \ DOMAIN lastWriter : Unbound(cursor, r)

\* The dependencies of a node that was not rewritten are the definitions that
\* reach it and, for an effect, others.
DepsReach ==
    \A i \in Ids : Wired(i) /\ nodes[i].kind # "alias" =>
        /\ \A r \in src[i].reads : Unbound(i, r) \/ \E d \in deps[i] : Reaches(d, i, r)
        /\ ~Effect(i) => \A d \in deps[i] : \E r \in src[i].reads : Reaches(d, i, r)

\* Only the rewriting pass changes nodes.
NodesLowered ==
    \A i \in Ids : /\ nodes[i] = Lower(src[i]) \/ nodes[i].kind = "alias"
                   /\ phase \in {"wire", "scan"} => nodes[i] = Lower(src[i])

\* The first of each signature stays; the others are replaced by it.
Replaces(f, i) == WrittenAlike(src, f, i) /\ f < i /\ IsRead(f)
First(f) == \E s \in DOMAIN seen : seen[s] = f
DuplicatesMatch ==
    /\ phase \in {"wire", "scan"} => \A s \in DOMAIN seen : s = Signature(seen[s])
    /\ phase = "wire" => rewrites = {}
    /\ \A r \in rewrites : /\ First(r[2]) /\ ~First(r[1]) /\ Replaces(r[2], r[1])
                           /\ phase = "scan" => r[1] < cursor
    /\ \A i \in Ids : nodes[i].kind = "alias" =>
           /\ ~First(i)
           /\ \E f \in Ids : deps[i] = {f} /\ First(f) /\ Replaces(f, i)

\* Liveness is closed over dependencies once the worklist is empty.
LiveClosed ==
    /\ phase = "mark" => \A i \in live : i \in worklist \/ deps[i] \subseteq live
    /\ phase \in {"level", "done"} => \A i \in live : deps[i] \subseteq live

DataInv ==
    /\ OptInv /\ LastWriterReaches /\ DepsReach /\ NodesLowered /\ DuplicatesMatch /\ LiveClosed

-----------------------------------------------------------------------------
LEMMA ReachingDefIs ==
    ASSUME OptTypeOK, NEW i \in Ids, NEW r, NEW d, Reaches(d, i, r)
    PROVE  ReachingDef(src, i, r) = d
<1> DEFINE defs == {j \in 1..(i - 1) : src[j].bind = r}
<1>1. Len(src) \in Nat /\ i \in Nat /\ i <= Len(src) /\ d \in Nat
    BY LenSource DEF Ids, Reaches
<1>2. d \in defs /\ \A k \in defs : k <= d
    BY <1>1 DEF Reaches, Ids
<1>3. \A e \in defs : (\A k \in defs : k <= e) => e = d
    BY <1>1, <1>2
<1>4. (CHOOSE j \in defs : \A k \in defs : k <= j) = d
    BY <1>2, <1>3
<1> QED BY <1>2, <1>4 DEF ReachingDef

LEMMA ReachingDefUnbound ==
    ASSUME OptTypeOK, NEW i \in Ids, NEW r, Unbound(i, r)
    PROVE  ReachingDef(src, i, r) = 0
<1>1. Len(src) \in Nat /\ i \in Nat /\ i <= Len(src)
    BY LenSource DEF Ids
<1>2. {j \in 1..(i - 1) : src[j].bind = r} = {}
    BY <1>1 DEF Unbound, Ids
<1> QED BY <1>2 DEF ReachingDef

\* Two wired reads with the same rendering and the same dependencies have the
\* same inputs: a dependency binds one variable only.
LEMMA SameSignature ==
    ASSUME OptTypeOK, DepsReach, NEW i \in Ids, NEW j \in Ids, Wired(i), Wired(j),
           nodes[i].kind # "alias", nodes[j].kind # "alias", IsRead(i), IsRead(j),
           Rendering[src[i].text] = Rendering[src[j].text], src[i].reads = src[j].reads,
           deps[i] = deps[j]
    PROVE  WrittenAlike(src, i, j)
<1>1. ASSUME NEW r \in src[i].reads
      PROVE  ReachingDef(src, i, r) = ReachingDef(src, j, r)
    <2>1. ~Effect(i) /\ ~Effect(j)
        BY ReadsHaveNoEffect
    <2>2. CASE \E d \in deps[i] : Reaches(d, i, r)
        <3>1. PICK d \in deps[i] : Reaches(d, i, r)
            BY <2>2
        <3>2. Reaches(d, j, r)
            BY <2>1, <3>1 DEF DepsReach, Reaches
        <3> QED BY <3>1, <3>2, ReachingDefIs
    <2>3. CASE \E d \in deps[j] : Reaches(d, j, r)
        <3>1. PICK d \in deps[j] : Reaches(d, j, r)
            BY <2>3
        <3>2. Reaches(d, i, r)
            BY <2>1, <3>1 DEF DepsReach, Reaches
        <3> QED BY <3>1, <3>2, ReachingDefIs
    <2>4. CASE Unbound(i, r) /\ Unbound(j, r)
        BY <2>4, ReachingDefUnbound
    <2> QED BY <2>2, <2>3, <2>4 DEF DepsReach
<1> QED BY <1>1 DEF WrittenAlike, IsRead

LEMMA InitDataInv == OptInit => DataInv
<1> SUFFICES ASSUME OptInit PROVE DataInv
    OBVIOUS
<1>1. OptInv /\ Len(src) \in Nat /\ Ids = 1..Len(src)
    BY InitOptInv, LenSource DEF OptInv, Ids
<1>2. \A i \in Ids : nodes[i] = Lower(src[i]) /\ Lower(src[i]).kind # "alias"
    BY <1>1, NodeFields, LowerType DEF OptInit, LowerStmts, OptInv, Stmt, Kind
<1>3. LastWriterReaches /\ DepsReach
    BY <1>1 DEF OptInit, LastWriterReaches, DepsReach, Unbound, Nothing, Wired
<1>4. NodesLowered /\ DuplicatesMatch /\ LiveClosed
    BY <1>2 DEF OptInit, NodesLowered, DuplicatesMatch, LiveClosed
<1> QED BY <1>1, <1>3, <1>4 DEF DataInv

-----------------------------------------------------------------------------
LEMMA WireNodeData == DataInv /\ WireNode => DataInv'
<1> SUFFICES ASSUME DataInv, WireNode PROVE DataInv'
    OBVIOUS
<1> USE DEF DataInv
<1>1. /\ OptInv /\ OptInv' /\ OptTypeOK /\ Len(src) \in Nat /\ Ids = 1..Len(src)
      /\ Ids' = Ids /\ src' = src /\ nodes' = nodes /\ phase = "wire" /\ phase' = "wire"
      /\ cursor \in Ids /\ cursor' = cursor + 1
    BY WireNodeStep, LenSource DEF WireNode, OptInv, Ids
<1> DEFINE b == src[cursor].bind
<1>2. /\ nodes[cursor] = Lower(src[cursor])
      /\ nodes[cursor].bind = b /\ nodes[cursor].reads = src[cursor].reads
      /\ b \in Var \cup {NoVar} /\ src[cursor].reads \subseteq Var
      /\ nodes[cursor].effect <=> Effect(cursor)
    <2>1. nodes[cursor] = Lower(src[cursor]) /\ src[cursor] \in Stmt
        BY <1>1, NodeFields DEF NodesLowered
    <2> QED BY <2>1, LowerType DEF Lower, Stmt, Effect
<1>3. /\ DOMAIN lastWriter' = IF b = NoVar THEN DOMAIN lastWriter ELSE DOMAIN lastWriter \cup {b}
      /\ b # NoVar => lastWriter'[b] = cursor
      /\ \A r \in DOMAIN lastWriter : r # b => lastWriter'[r] = lastWriter[r]
    BY <1>2 DEF WireNode, Insert
<1>4. LastWriterReaches'
    <2>1. ASSUME NEW r \in DOMAIN lastWriter'
          PROVE  Reaches(lastWriter'[r], cursor + 1, r)
        <3>1. CASE r = b
            BY <1>1, <1>2, <1>3, <2>1, <3>1, NamesAssumption DEF Reaches, OptTypeOK
        <3>2. CASE r # b
            BY <1>1, <1>3, <2>1, <3>2 DEF LastWriterReaches, Reaches
        <3> QED BY <3>1, <3>2
    <2>2. ASSUME NEW r \in Var, r \notin DOMAIN lastWriter'
          PROVE  Unbound(cursor + 1, r)
        BY <1>1, <1>2, <1>3, <2>2, NamesAssumption DEF LastWriterReaches, Unbound
    <2> QED BY <1>1, <2>1, <2>2 DEF LastWriterReaches, Reaches, Unbound
<1>5. DepsReach'
    <2>1. /\ deps'[cursor] = Writers(nodes[cursor]) \cup EffectChain(nodes[cursor])
          /\ \A i \in Ids : i # cursor => deps'[i] = deps[i]
        BY <1>1 DEF WireNode, OptTypeOK
    <2>2. ASSUME NEW r \in src[cursor].reads
          PROVE  Unbound(cursor, r) \/ \E d \in deps'[cursor] : Reaches(d, cursor, r)
        BY <1>1, <1>2, <2>1, <2>2 DEF Writers, LastWriterReaches
    <2>3. ASSUME ~Effect(cursor), NEW d \in deps'[cursor]
          PROVE  \E r \in src[cursor].reads : Reaches(d, cursor, r)
        <3>1. d \in Writers(nodes[cursor])
            BY <1>2, <2>1, <2>3 DEF EffectChain
        <3> QED BY <1>1, <1>2, <3>1 DEF Writers, LastWriterReaches
    <2>4. ASSUME NEW i \in Ids, i < cursor, nodes[i].kind # "alias"
          PROVE  /\ \A r \in src[i].reads : Unbound(i, r) \/ \E d \in deps'[i] : Reaches(d, i, r)
                 /\ ~Effect(i) => \A d \in deps'[i] : \E r \in src[i].reads : Reaches(d, i, r)
        BY <1>1, <2>1, <2>4 DEF DepsReach, Wired
    <2> QED BY <1>1, <2>2, <2>3, <2>4 DEF DepsReach, Wired, Unbound, Reaches, Effect
<1>6. NodesLowered' /\ LiveClosed'
    BY <1>1 DEF NodesLowered, LiveClosed
<1>7. DuplicatesMatch'
    <2>1. seen' = seen /\ rewrites' = rewrites /\ DOMAIN seen = {} /\ rewrites = {}
        BY <1>1 DEF WireNode, OptInv, ReadsRemembered, DuplicatesMatch
    <2>2. \A i \in Ids : nodes[i].kind # "alias"
        BY <1>1 DEF DuplicatesMatch, First, OptInv, ReadsRemembered
    <2> QED BY <1>1, <2>1, <2>2 DEF DuplicatesMatch
<1> QED BY <1>1, <1>4, <1>5, <1>6, <1>7

\* The passes that change neither nodes nor dependencies.
LEMMA SameGraph ==
    ASSUME DataInv, UNCHANGED <<src, nodes, deps>>, OptInv',
           phase # "wire", phase' # "wire"
    PROVE  DepsReach' /\ (phase' # "scan" => NodesLowered')
<1>1. Ids' = Ids
    BY DEF Ids
<1> QED BY <1>1 DEF DataInv, DepsReach, NodesLowered, Wired, Unbound, Reaches, Effect

LEMMA WireDoneData == DataInv /\ WireDone => DataInv'
<1> SUFFICES ASSUME DataInv, WireDone PROVE DataInv'
    OBVIOUS
<1> USE DEF DataInv
<1>1. /\ OptInv /\ OptInv' /\ Len(src) \in Nat /\ Ids = 1..Len(src) /\ Ids' = Ids
      /\ UNCHANGED <<src, nodes, deps, seen, rewrites>> /\ phase = "wire" /\ phase' = "scan"
      /\ cursor \in 1..(Len(src) + 1) /\ cursor \notin Ids
    BY WireDoneStep, LenSource DEF WireDone, OptInv, Ids, OptTypeOK
<1>2. DepsReach' /\ LastWriterReaches' /\ NodesLowered' /\ LiveClosed'
    BY <1>1 DEF DepsReach, LastWriterReaches, NodesLowered, LiveClosed, Wired, Unbound,
                Reaches, Effect
<1>3. DuplicatesMatch'
    <2>1. DOMAIN seen = {} /\ rewrites = {}
        BY <1>1 DEF OptInv, ReadsRemembered, DuplicatesMatch
    <2>2. \A i \in Ids : nodes[i].kind # "alias"
        BY <1>1, <2>1 DEF DuplicatesMatch, First
    <2> QED BY <1>1, <2>1, <2>2 DEF DuplicatesMatch
<1> QED BY <1>1, <1>2, <1>3

LEMMA ScanNodeData == DataInv /\ ScanNode => DataInv'
<1> SUFFICES ASSUME DataInv, ScanNode PROVE DataInv'
    OBVIOUS
<1> USE DEF DataInv
<1>1. /\ OptInv /\ OptInv' /\ OptTypeOK /\ Len(src) \in Nat /\ Ids = 1..Len(src)
      /\ Ids' = Ids /\ UNCHANGED <<src, nodes, deps>> /\ phase = "scan" /\ phase' = "scan"
      /\ cursor \in Ids /\ cursor' = cursor + 1
    BY ScanNodeStep, LenSource DEF ScanNode, OptInv, Ids
<1>2. \A i \in Ids : nodes[i] = Lower(src[i]) /\ nodes[i].kind # "alias" /\ src[i] \in Stmt
    BY <1>1, NodeFields, LowerType DEF NodesLowered, Stmt, Kind
<1>3. DepsReach' /\ NodesLowered' /\ LastWriterReaches' /\ LiveClosed'
    BY <1>1, SameGraph DEF NodesLowered, LastWriterReaches, LiveClosed
<1>4. \A s \in DOMAIN seen : seen[s] \in Ids /\ seen[s] < cursor /\ IsRead(seen[s])
    BY <1>1 DEF OptInv, ReadsRemembered, OptTypeOK
<1>5. \A r \in rewrites : r[1] \in Ids /\ r[2] \in Ids /\ r[1] < cursor /\ r[1] < cursor + 1
    BY <1>1 DEF OptTypeOK, DuplicatesMatch
<1>6. DuplicatesMatch'
    <2>1. CASE ~Dedupable(nodes[cursor])
        <3>1. UNCHANGED <<seen, rewrites>>
            BY <2>1 DEF ScanNode
        <3> QED BY <1>1, <1>2, <1>5, <3>1 DEF DuplicatesMatch, First, Replaces, IsRead, Signature
    <2>2. CASE Dedupable(nodes[cursor]) /\ Signature(cursor) \in DOMAIN seen
        <3> DEFINE f == seen[Signature(cursor)]
        <3>1. seen' = seen /\ rewrites' = rewrites \cup {<<cursor, f>>}
            BY <2>2 DEF ScanNode
        <3>2. f \in Ids /\ f < cursor /\ IsRead(f) /\ IsRead(cursor)
            BY <1>1, <1>2, <1>4, <2>2, LowerType DEF Dedupable, IsFetch, IsRead
        <3>3. WrittenAlike(src, f, cursor)
            <4>1. Signature(cursor) = Signature(f)
                BY <1>1, <2>2 DEF DuplicatesMatch
            <4>2. /\ Rendering[src[f].text] = Rendering[src[cursor].text]
                  /\ src[f].reads = src[cursor].reads /\ deps[f] = deps[cursor]
                <5>1. /\ Rendering[nodes[f].text] = Rendering[nodes[cursor].text]
                      /\ nodes[f].reads = nodes[cursor].reads /\ deps[f] = deps[cursor]
                    BY <4>1 DEF Signature
                <5>2. /\ nodes[f].text = src[f].text /\ nodes[f].reads = src[f].reads
                      /\ nodes[cursor].text = src[cursor].text
                      /\ nodes[cursor].reads = src[cursor].reads
                    BY <1>1, <1>2, <3>2, LowerType
                <5> QED BY <5>1, <5>2
            <4> QED BY <1>1, <1>2, <3>2, <4>2, SameSignature DEF Wired
        <3>4. First(f) /\ ~First(cursor) /\ Replaces(f, cursor)
            BY <1>1, <1>4, <2>2, <3>2, <3>3 DEF First, Replaces
        <3>5. \A r \in rewrites' : /\ First(r[2]) /\ ~First(r[1]) /\ Replaces(r[2], r[1])
                                 /\ r[1] < cursor + 1
            BY <1>1, <1>5, <3>1, <3>4 DEF DuplicatesMatch
        <3> QED BY <1>1, <1>2, <3>1, <3>5 DEF DuplicatesMatch, First, Replaces, IsRead, Signature
    <2>3. CASE Dedupable(nodes[cursor]) /\ Signature(cursor) \notin DOMAIN seen
        <3>1. /\ DOMAIN seen' = DOMAIN seen \cup {Signature(cursor)}
              /\ seen'[Signature(cursor)] = cursor
              /\ \A s \in DOMAIN seen : seen'[s] = seen[s]
              /\ rewrites' = rewrites
            BY <2>3 DEF ScanNode
        <3>2. \A i \in Ids : First(i)' <=> First(i) \/ i = cursor
            BY <2>3, <3>1 DEF First
        <3>3. \A s \in DOMAIN seen' : s = Signature(seen'[s])
            BY <1>1, <3>1 DEF DuplicatesMatch
        <3>4. (\A s \in DOMAIN seen : s = Signature(seen[s]))'
            BY <1>1, <3>3 DEF Signature
        <3>5. (\A r \in rewrites : /\ First(r[2]) /\ ~First(r[1]) /\ Replaces(r[2], r[1])
                                 /\ r[1] < cursor)'
            BY <1>1, <1>5, <3>1, <3>2 DEF DuplicatesMatch, Replaces, IsRead
        <3> QED BY <1>1, <1>2, <3>4, <3>5 DEF DuplicatesMatch
    <2> QED BY <2>1, <2>2, <2>3
<1> QED BY <1>1, <1>3, <1>6

LEMMA RewriteOneData == DataInv /\ RewriteOne => DataInv'
<1> SUFFICES ASSUME DataInv, RewriteOne PROVE DataInv'
    OBVIOUS
<1> USE DEF DataInv
<1>1. /\ OptInv /\ OptInv' /\ OptTypeOK /\ Ids' = Ids
      /\ UNCHANGED <<src, seen, live, worklist>> /\ phase = "rewrite" /\ phase' = "rewrite"
    BY RewriteOneStep DEF RewriteOne, OptInv, Ids
<1>2. PICK r \in rewrites :
          /\ nodes' = [nodes EXCEPT ![r[1]] = Alias(nodes[r[1]], nodes[r[2]].bind)]
          /\ deps' = [deps EXCEPT ![r[1]] = {r[2]}]
          /\ rewrites' = rewrites \ {r}
    BY DEF RewriteOne
<1>3. /\ r[1] \in Ids /\ r[2] \in Ids
      /\ First(r[2]) /\ ~First(r[1]) /\ Replaces(r[2], r[1])
    BY <1>1 DEF OptTypeOK, DuplicatesMatch
<1>4. /\ nodes'[r[1]].kind = "alias" /\ deps'[r[1]] = {r[2]}
      /\ \A i \in Ids : i # r[1] => nodes'[i] = nodes[i] /\ deps'[i] = deps[i]
    BY <1>1, <1>2, <1>3 DEF OptTypeOK, Alias
<1>5. DepsReach' /\ NodesLowered'
    BY <1>1, <1>4 DEF DepsReach, NodesLowered, Wired, Unbound, Reaches, Effect
<1>6. DuplicatesMatch'
    BY <1>1, <1>2, <1>3, <1>4 DEF DuplicatesMatch, First, Replaces, IsRead
<1>7. LastWriterReaches' /\ LiveClosed'
    BY <1>1 DEF LastWriterReaches, LiveClosed
<1> QED BY <1>1, <1>5, <1>6, <1>7

\* The passes after wiring that leave nodes, dependencies and signatures alone.
LEMMA SameDuplicates ==
    ASSUME DataInv, OptInv', UNCHANGED <<src, nodes, deps, seen, rewrites>>,
           phase # "wire", phase' \notin {"wire", "scan"}
    PROVE  LastWriterReaches' /\ DepsReach' /\ NodesLowered' /\ DuplicatesMatch'
<1>1. Ids' = Ids
    BY DEF Ids
<1>2. DepsReach' /\ NodesLowered' /\ LastWriterReaches'
    BY SameGraph DEF LastWriterReaches
<1>3. DuplicatesMatch'
    BY <1>1 DEF DataInv, DuplicatesMatch, First, Replaces, IsRead
<1> QED BY <1>2, <1>3

LEMMA MarkRootsData == DataInv /\ MarkRoots => DataInv'
<1> SUFFICES ASSUME DataInv, MarkRoots PROVE DataInv'
    OBVIOUS
<1>1. OptInv' /\ LastWriterReaches' /\ DepsReach' /\ NodesLowered' /\ DuplicatesMatch'
    BY MarkRootsStep, SameDuplicates DEF DataInv, MarkRoots
<1>2. LiveClosed'
    BY DEF MarkRoots, LiveClosed
<1> QED BY <1>1, <1>2 DEF DataInv

LEMMA MarkDepsData == DataInv /\ MarkDeps => DataInv'
<1> SUFFICES ASSUME DataInv, MarkDeps PROVE DataInv'
    OBVIOUS
<1>1. OptInv' /\ LastWriterReaches' /\ DepsReach' /\ NodesLowered' /\ DuplicatesMatch'
    BY MarkDepsStep, SameDuplicates DEF DataInv, MarkDeps
<1>2. LiveClosed'
    BY DEF DataInv, MarkDeps, NewlyLive, LiveClosed
<1> QED BY <1>1, <1>2 DEF DataInv

LEMMA LaterPassesData ==
    DataInv /\ (ScanDone \/ RewriteDone \/ MarkDone \/ RaiseLevel \/ LevelNode \/ LevelDone)
        => DataInv'
<1> SUFFICES ASSUME DataInv,
                    ScanDone \/ RewriteDone \/ MarkDone \/ RaiseLevel \/ LevelNode \/ LevelDone
             PROVE  DataInv'
    OBVIOUS
<1>1. OptInv'
    BY ScanDoneStep, RewriteDoneStep, MarkDoneStep, RaiseLevelStep, LevelNodeStep, LevelDoneStep
    DEF DataInv
<1>2. /\ UNCHANGED <<src, nodes, deps, seen, rewrites, live, worklist>>
      /\ phase # "wire" /\ phase' \notin {"wire", "scan", "mark"}
      /\ phase' \in {"level", "done"} =>
             phase \in {"level", "done"} \/ (phase = "mark" /\ worklist = {})
    BY DEF ScanDone, RewriteDone, MarkDone, RaiseLevel, LevelNode, LevelDone
<1>3. LiveClosed'
    BY <1>2 DEF DataInv, LiveClosed
<1> QED BY <1>1, <1>2, <1>3, SameDuplicates DEF DataInv

LEMMA StutterData == DataInv /\ UNCHANGED optVars => DataInv'
<1> SUFFICES ASSUME DataInv, UNCHANGED optVars PROVE DataInv'
    OBVIOUS
<1>1. OptInv' /\ Ids' = Ids
    BY StutterStep DEF DataInv, optVars, Ids
<1>2. LastWriterReaches' /\ DepsReach' /\ NodesLowered'
    BY <1>1 DEF optVars, DataInv, LastWriterReaches, DepsReach, NodesLowered, Wired, Unbound,
                Reaches, Effect
<1>3. DuplicatesMatch' /\ LiveClosed'
    BY <1>1 DEF optVars, DataInv, DuplicatesMatch, LiveClosed, First, Replaces, IsRead, Signature
<1> QED BY <1>1, <1>2, <1>3 DEF DataInv

LEMMA NextDataInv == DataInv /\ [OptNext]_optVars => DataInv'
PROOF BY WireNodeData, WireDoneData, ScanNodeData, RewriteOneData, MarkRootsData, MarkDepsData,
         LaterPassesData, StutterData DEF OptNext

LEMMA AlwaysDataInv == OptSpec => []DataInv
PROOF BY InitDataInv, NextDataInv, PTL DEF OptSpec

-----------------------------------------------------------------------------
\* What reaches a node is among its dependencies.
LEMMA ReachingDefsAreDeps ==
    ASSUME DataInv, Done, NEW i \in Ids, nodes[i].kind # "alias", NEW r \in src[i].reads,
           ReachingDef(src, i, r) # 0
    PROVE  ReachingDef(src, i, r) \in deps[i]
<1>1. OptTypeOK /\ Wired(i)
    BY DEF DataInv, OptInv, Wired, Done
<1>2. PICK d \in deps[i] : Reaches(d, i, r)
    BY <1>1, ReachingDefUnbound DEF DataInv, DepsReach
<1> QED BY <1>1, <1>2, ReachingDefIs

\* A fetch that deduplication replaced was replaced by a fetch that is still
\* one, that precedes it, that is written alike and that has the same inputs;
\* if no two requests of the body are written alike, by the same request.
THEOREM DedupIsSound == OptSpec => []DedupKeepsInputs
<1>1. DataInv => DedupKeepsInputs
    <2> DEFINE Reuses(f, i) == /\ f < i /\ IsFetch(nodes[f]) /\ WrittenAlike(src, f, i)
                               /\ RenderedApart(src) => SameRequest(src, f, i)
    <2> SUFFICES ASSUME DataInv, Done, NEW i \in Ids, nodes[i].kind = "alias"
                 PROVE  \E f \in deps[i] : Reuses(f, i)
        BY DEF DedupKeepsInputs
    <2>1. PICK f \in Ids : deps[i] = {f} /\ First(f) /\ Replaces(f, i)
        BY DEF DataInv, DuplicatesMatch
    <2>2. nodes[f] = Lower(src[f]) /\ src[f].kind = "fetch" /\ src[f] \in Stmt
        BY <2>1, NodeFields DEF DataInv, DuplicatesMatch, NodesLowered, Replaces, IsRead, OptInv
    <2>3. IsFetch(nodes[f])
        BY <2>2, LowerType DEF IsFetch
    <2>4. RenderedApart(src) => SameRequest(src, f, i)
        <3>1. f \in 1..Len(src) /\ i \in 1..Len(src)
            BY DEF Ids
        <3> QED BY <2>1, <3>1 DEF Replaces, RenderedApart, WrittenAlike, SameRequest
    <2> QED BY <2>1, <2>3, <2>4 DEF Replaces
<1> QED BY AlwaysDataInv, <1>1, PTL

\* Whatever a scheduled node reads is produced in an earlier wave, by a
\* scheduled node.
THEOREM ScheduleRespectsDataflow == OptSpec => []ProducersRunEarlier
<1>1. DataInv => ProducersRunEarlier
    <2> SUFFICES ASSUME DataInv, Done, NEW i \in live
                 PROVE  IF nodes[i].kind = "alias"
                        THEN \E f \in live : /\ WrittenAlike(src, i, f) /\ deps[i] = {f}
                                              /\ level[f] < level[i]
                        ELSE \A d \in Needs(src, i) : d \in live /\ level[d] < level[i]
        BY DEF ProducersRunEarlier
    <2>1. i \in Ids /\ \A d \in deps[i] : d \in live /\ level[d] < level[i]
        BY DEF DataInv, OptInv, OptTypeOK, LiveClosed, LevelsRise, Levelled, Done
    <2>2. CASE nodes[i].kind = "alias"
        <3>1. PICK f \in Ids : deps[i] = {f} /\ Replaces(f, i)
            BY <2>1, <2>2 DEF DataInv, DuplicatesMatch
        <3>2. WrittenAlike(src, i, f)
            BY <3>1 DEF Replaces, WrittenAlike
        <3> QED BY <2>1, <2>2, <3>1, <3>2
    <2>3. CASE nodes[i].kind # "alias"
        <3>1. ASSUME NEW r \in src[i].reads, ReachingDef(src, i, r) # 0
              PROVE  ReachingDef(src, i, r) \in live /\ level[ReachingDef(src, i, r)] < level[i]
            BY <2>1, <2>3, <3>1, ReachingDefsAreDeps
        <3>2. ASSUME NEW j \in 1..(i - 1), Effect(i), Effect(j)
              PROVE  j \in live /\ level[j] < level[i]
            <4>1. j \in Ids /\ j < i
                BY <2>1, LenSource DEF DataInv, OptInv, Ids
            <4> QED BY <2>1, <3>2, <4>1
                    DEF DataInv, OptInv, EffectsLive, EffectsRise, Levelled, Done
        <3> QED BY <2>3, <3>1, <3>2 DEF Needs, Effect
    <2> QED BY <2>2, <2>3
<1> QED BY AlwaysDataInv, <1>1, PTL

\* Mutations are neither rewritten nor dropped.
THEOREM MutationsAreKept == OptSpec => []MutationsSurvive
<1>1. DataInv => MutationsSurvive
    <2> SUFFICES ASSUME DataInv, Done, NEW i \in Ids,
                        src[i].kind = "fetch", src[i].method # "GET"
                 PROVE  IsFetch(nodes[i]) /\ i \in live
        BY DEF MutationsSurvive
    <2>1. Effect(i) /\ ~IsRead(i)
        BY DEF Effect, IsEffect, IsRead
    <2>2. nodes[i] = Lower(src[i]) /\ src[i] \in Stmt
        BY <2>1, NodeFields DEF DataInv, OptInv, NodesFaithful
    <2>3. i \in live
        BY <2>1 DEF DataInv, OptInv, EffectsLive, Done
    <2> QED BY <2>2, <2>3, LowerType DEF IsFetch
<1> QED BY AlwaysDataInv, <1>1, PTL

\* What an effect needs is live once liveness is closed.
LEMMA ObservedLive == DataInv => NothingObservableDropped
<1> SUFFICES ASSUME DataInv, Done PROVE Observed(src) \subseteq live
    BY DEF NothingObservableDropped
<1>1. live \subseteq Ids /\ {i \in Ids : Effect(i)} \subseteq live
    BY DEF DataInv, OptInv, OptTypeOK, EffectsLive, Done
<1>2. ASSUME NEW i \in live, NEW r \in src[i].reads, ReachingDef(src, i, r) # 0
      PROVE  ReachingDef(src, i, r) \in live
    <2>1. \A j \in live : deps[j] \subseteq live
        BY DEF DataInv, LiveClosed, Done
    <2>2. CASE nodes[i].kind # "alias"
        BY <1>1, <1>2, <2>1, <2>2, ReachingDefsAreDeps
    <2>3. CASE nodes[i].kind = "alias"
        <3>1. PICK f \in Ids : deps[i] = {f} /\ First(f) /\ Replaces(f, i)
            BY <1>1, <2>3 DEF DataInv, DuplicatesMatch
        <3>2. /\ f \in live /\ nodes[f].kind # "alias" /\ r \in src[f].reads
              /\ ReachingDef(src, i, r) = ReachingDef(src, f, r)
            BY <1>2, <2>1, <3>1 DEF DataInv, DuplicatesMatch, Replaces, WrittenAlike
        <3> QED BY <1>2, <2>1, <3>2, ReachingDefsAreDeps
    <2> QED BY <2>2, <2>3
<1>3. ASSUME NEW i \in live PROVE Needs(src, i) \subseteq live
    <2>1. \A j \in 1..(i - 1) : j \in Ids
        BY <1>1, <1>3, LenSource DEF DataInv, OptInv, Ids
    <2> QED BY <1>1, <1>2, <2>1 DEF Needs, Effect
<1> QED BY <1>1, <1>3 DEF Observed, Ids, Effect

\* Everything an effect needs, directly or through others, is scheduled.
THEOREM NothingNeededIsDropped == OptSpec => []NothingObservableDropped
PROOF BY AlwaysDataInv, ObservedLive, PTL
-----------------------------------------------------------------------------
(* Exactly the requests that are needed.  A dependency is a definition     *)
(* that reaches the node or an effect before an effect; every read was     *)
(* scanned, so that what is still a fetch is the first of its signature;   *)
(* and what liveness has marked, an effect needs, or needs the same        *)
(* request as.                                                             *)
DepsNeeded ==
    \A i \in Ids : Wired(i) /\ nodes[i].kind # "alias" =>
        \A d \in deps[i] : \/ \E r \in src[i].reads : Reaches(d, i, r)
                           \/ Effect(i) /\ Effect(d)

Scanned ==
    /\ phase \notin {"wire", "scan", "rewrite"} => rewrites = {}
    /\ phase # "wire" =>
           \A i \in Ids : IsRead(i) /\ (phase = "scan" => i < cursor) =>
               \/ First(i)
               \/ \E r \in rewrites : r[1] = i
               \/ nodes[i].kind = "alias"

FirstsDiffer ==
    phase \notin {"wire", "scan"} =>
        \A f, g \in Ids : First(f) /\ First(g) /\ WrittenAlike(src, f, g) => f = g

Wanted(i) == i \in Observed(src) \/ \E j \in Observed(src) : WrittenAlike(src, i, j)
LiveWanted == \A i \in live : Wanted(i) /\ (Effect(i) \/ src[i].bind # NoVar)

MarkedLive == worklist \subseteq live

NeedInv ==
    /\ DataInv /\ DepsNeeded /\ Scanned /\ FirstsDiffer /\ LiveWanted /\ MarkedLive

\* What an observed statement needs is observed.
LEMMA ObservedClosed ==
    ASSUME OptTypeOK, NEW i \in Observed(src)
    PROVE  Observed(src) \subseteq Ids /\ Needs(src, i) \cap Ids \subseteq Observed(src)
PROOF BY DEF Observed, Ids

LEMMA EffectsObserved == ASSUME NEW i \in Ids, Effect(i) PROVE i \in Observed(src)
PROOF BY DEF Observed, Effect, Ids

\* The converse of SameSignature: requests with the same inputs have the same
\* dependencies.
LEMMA AlikeSameDeps ==
    ASSUME OptTypeOK, DepsReach, NEW i \in Ids, NEW j \in Ids, Wired(i), Wired(j),
           nodes[i].kind # "alias", nodes[j].kind # "alias", WrittenAlike(src, i, j)
    PROVE  deps[i] \subseteq deps[j]
<1> SUFFICES ASSUME NEW d \in deps[i] PROVE d \in deps[j]
    OBVIOUS
<1>1. ~Effect(i)
    BY DEF WrittenAlike, Effect, IsEffect
<1>2. PICK r \in src[i].reads : Reaches(d, i, r)
    BY <1>1 DEF DepsReach
<1>3. ReachingDef(src, j, r) = d /\ d # 0 /\ r \in src[j].reads
    BY <1>2, ReachingDefIs DEF WrittenAlike, Reaches, Ids
<1>4. PICK e \in deps[j] : Reaches(e, j, r)
    BY <1>3, ReachingDefUnbound DEF DepsReach
<1> QED BY <1>3, <1>4, ReachingDefIs

LEMMA AlikeSymmetric ==
    ASSUME NEW i, NEW j, WrittenAlike(src, i, j) PROVE WrittenAlike(src, j, i)
PROOF BY DEF WrittenAlike

LEMMA AlikeTransitive ==
    ASSUME NEW i, NEW j, NEW k, WrittenAlike(src, i, j), WrittenAlike(src, j, k)
    PROVE  WrittenAlike(src, i, k)
PROOF BY DEF WrittenAlike

\* A definition that reaches a statement is one it needs.
LEMMA ReachingIsNeeded ==
    ASSUME OptTypeOK, NEW i \in Ids, NEW r \in src[i].reads, NEW d, Reaches(d, i, r)
    PROVE  d \in Needs(src, i)
<1>1. ReachingDef(src, i, r) = d /\ d # 0
    BY ReachingDefIs DEF Reaches, Ids
<1> QED BY <1>1 DEF Needs

\* What a wanted node depends on is wanted.
LEMMA DepsWanted ==
    ASSUME NeedInv, phase # "wire", NEW i \in Ids, Wanted(i), NEW d \in deps[i]
    PROVE  Wanted(d) /\ (Effect(d) \/ src[d].bind # NoVar)
<1>1. OptTypeOK /\ d \in Ids /\ d < i /\ Len(src) \in Nat /\ Ids = 1..Len(src)
    BY LenSource DEF NeedInv, DataInv, OptInv, OptTypeOK, DepsPointBack, Ids
<1>2. CASE nodes[i].kind = "alias"
    <2>1. WrittenAlike(src, d, i) /\ IsRead(d)
        BY <1>2 DEF NeedInv, DataInv, DuplicatesMatch, Replaces
    <2> QED BY <2>1, AlikeTransitive DEF Wanted, IsRead
<1>3. CASE nodes[i].kind # "alias"
    <2>1. (\E r \in src[i].reads : Reaches(d, i, r)) \/ (Effect(i) /\ Effect(d))
        BY <1>3 DEF NeedInv, DepsNeeded, Wired
    <2>2. CASE Effect(i) /\ Effect(d)
        BY <1>1, <2>2, EffectsObserved DEF Wanted
    <2>3. CASE \E r \in src[i].reads : Reaches(d, i, r)
        <3>1. PICK r \in src[i].reads : Reaches(d, i, r)
            BY <2>3
        <3>2. src[d].bind # NoVar
            <4>1. src[i] \in Stmt
                BY <1>1, NodeFields
            <4> QED BY <3>1, <4>1, NamesAssumption DEF Reaches, Stmt
        <3>3. CASE i \in Observed(src)
            BY <1>1, <3>1, <3>2, <3>3, ReachingIsNeeded, ObservedClosed DEF Wanted
        <3>4. CASE i \notin Observed(src)
            <4>1. PICK j \in Observed(src) : WrittenAlike(src, i, j)
                BY <3>4 DEF Wanted
            <4>2. ReachingDef(src, j, r) = d /\ r \in src[j].reads /\ d # 0
                BY <1>1, <3>1, <4>1, ReachingDefIs DEF WrittenAlike, Reaches
            <4>3. d \in Needs(src, j)
                BY <4>2 DEF Needs
            <4> QED BY <1>1, <3>2, <4>1, <4>3, ObservedClosed DEF Wanted
        <3> QED BY <3>3, <3>4
    <2> QED BY <2>1, <2>2, <2>3
<1> QED BY <1>2, <1>3

LEMMA InitNeedInv == OptInit => NeedInv
<1> SUFFICES ASSUME OptInit PROVE NeedInv
    OBVIOUS
<1>1. DataInv /\ Len(src) \in Nat /\ Ids = 1..Len(src)
    BY InitDataInv, LenSource DEF DataInv, OptInv, Ids
<1>2. DepsNeeded /\ Scanned /\ FirstsDiffer /\ LiveWanted /\ MarkedLive
    BY <1>1 DEF OptInit, DepsNeeded, Wired, Scanned, FirstsDiffer, LiveWanted, MarkedLive
<1> QED BY <1>1, <1>2 DEF NeedInv

LEMMA WireNodeNeed == NeedInv /\ WireNode => NeedInv'
<1> SUFFICES ASSUME NeedInv, WireNode PROVE NeedInv'
    OBVIOUS
<1>1. /\ DataInv /\ DataInv' /\ OptTypeOK /\ Len(src) \in Nat /\ Ids = 1..Len(src) /\ Ids' = Ids
      /\ phase = "wire" /\ phase' = "wire" /\ cursor \in Ids /\ cursor' = cursor + 1
      /\ UNCHANGED <<src, nodes, live>>
    BY WireNodeData, LenSource DEF NeedInv, DataInv, WireNode, OptInv, Ids
<1>2. nodes[cursor].reads = src[cursor].reads /\ (nodes[cursor].effect <=> Effect(cursor))
    <2>1. nodes[cursor] = Lower(src[cursor]) /\ src[cursor] \in Stmt
        BY <1>1, NodeFields DEF DataInv, NodesLowered
    <2> QED BY <2>1, LowerType DEF Effect
<1>3. /\ deps'[cursor] = Writers(nodes[cursor]) \cup EffectChain(nodes[cursor])
      /\ \A i \in Ids : i # cursor => deps'[i] = deps[i]
    BY <1>1 DEF WireNode, OptTypeOK
<1>4. \A d \in Writers(nodes[cursor]) : \E r \in src[cursor].reads : Reaches(d, cursor, r)
    BY <1>1, <1>2 DEF Writers, DataInv, LastWriterReaches
<1>5. \A d \in EffectChain(nodes[cursor]) : Effect(cursor) /\ Effect(d)
    BY <1>1, <1>2 DEF EffectChain, DataInv, OptInv, EffectsChained
<1>6. DepsNeeded'
    BY <1>1, <1>3, <1>4, <1>5 DEF NeedInv, DepsNeeded, Wired, Reaches, Effect
<1>7. Scanned' /\ FirstsDiffer'
    BY <1>1 DEF Scanned, FirstsDiffer
<1>8. LiveWanted' /\ MarkedLive'
    BY <1>1 DEF NeedInv, LiveWanted, Wanted, Effect, MarkedLive, WireNode
<1> QED BY <1>1, <1>6, <1>7, <1>8 DEF NeedInv

\* DepsNeeded once every node is wired, and what liveness marked.
LEMMA SameNeeds ==
    ASSUME NeedInv, UNCHANGED <<src, nodes, deps, live, worklist>>,
           phase # "wire" \/ cursor \notin Ids
    PROVE  DepsNeeded' /\ LiveWanted' /\ MarkedLive'
<1>1. Ids' = Ids /\ \A i \in Ids : Wired(i)
    <2>1. Len(src) \in Nat /\ cursor \in 1..(Len(src) + 1)
        BY LenSource DEF NeedInv, DataInv, OptInv, OptTypeOK
    <2> QED BY <2>1 DEF Ids, Wired
<1> QED BY <1>1 DEF NeedInv, DepsNeeded, Reaches, Effect, LiveWanted, Wanted,
               MarkedLive

LEMMA WireDoneNeed == NeedInv /\ WireDone => NeedInv'
<1> SUFFICES ASSUME NeedInv, WireDone PROVE NeedInv'
    OBVIOUS
<1>1. /\ DataInv' /\ phase' = "scan" /\ cursor' = 1 /\ Ids' = Ids /\ Ids = 1..Len(src)
      /\ Len(src) \in Nat
    BY WireDoneData, LenSource DEF NeedInv, DataInv, OptInv, WireDone, Ids
<1>2. Scanned' /\ FirstsDiffer'
    BY <1>1 DEF Scanned, FirstsDiffer
<1> QED BY <1>1, <1>2, SameNeeds DEF NeedInv, WireDone

LEMMA ScanNodeNeed == NeedInv /\ ScanNode => NeedInv'
<1> SUFFICES ASSUME NeedInv, ScanNode PROVE NeedInv'
    OBVIOUS
<1>1. /\ DataInv' /\ phase = "scan" /\ phase' = "scan" /\ cursor' = cursor + 1 /\ Ids' = Ids
      /\ Ids = 1..Len(src) /\ Len(src) \in Nat /\ cursor \in Ids /\ OptTypeOK
      /\ UNCHANGED <<src, nodes, deps, live, worklist>>
    BY ScanNodeData, LenSource DEF NeedInv, DataInv, OptInv, ScanNode, Ids
<1>2. IsRead(cursor) => Dedupable(nodes[cursor])
    <2>1. nodes[cursor] = Lower(src[cursor]) /\ src[cursor] \in Stmt
        BY <1>1, NodeFields DEF NeedInv, DataInv, NodesLowered
    <2> QED BY <2>1, LowerType DEF Dedupable, IsFetch, IsRead
<1>3. /\ rewrites \subseteq rewrites' /\ \A f \in Ids : First(f) => First(f)'
      /\ Dedupable(nodes[cursor]) =>
             \/ \E s \in DOMAIN seen' : seen'[s] = cursor
             \/ \E r \in rewrites' : r[1] = cursor
    <2>1. CASE ~Dedupable(nodes[cursor])
        BY <2>1 DEF ScanNode, First
    <2>2. CASE Dedupable(nodes[cursor]) /\ Signature(cursor) \in DOMAIN seen
        <3> DEFINE r == <<cursor, seen[Signature(cursor)]>>
        <3>1. rewrites' = rewrites \cup {r} /\ seen' = seen /\ r[1] = cursor
            BY <2>2 DEF ScanNode
        <3> HIDE DEF r
        <3> QED BY <3>1 DEF First
    <2>3. CASE Dedupable(nodes[cursor]) /\ Signature(cursor) \notin DOMAIN seen
        <3>1. /\ DOMAIN seen' = DOMAIN seen \cup {Signature(cursor)} /\ rewrites' = rewrites
              /\ seen'[Signature(cursor)] = cursor
              /\ \A s \in DOMAIN seen : seen'[s] = seen[s]
            BY <2>3 DEF ScanNode
        <3>2. \A f \in Ids : First(f) => First(f)'
            BY <3>1 DEF First
        <3> QED BY <3>1, <3>2
    <2> QED BY <2>1, <2>2, <2>3
<1>4. ASSUME NEW i \in Ids, IsRead(i), i < cursor + 1
      PROVE  First(i)' \/ (\E r \in rewrites' : r[1] = i) \/ nodes[i].kind = "alias"
    <2>1. CASE i = cursor
        BY <1>2, <1>3, <1>4, <2>1 DEF First
    <2>2. CASE i # cursor
        BY <1>1, <1>3, <1>4, <2>2 DEF NeedInv, Scanned
    <2> QED BY <2>1, <2>2
<1>5. Scanned'
    BY <1>1, <1>4 DEF Scanned, IsRead
<1>6. FirstsDiffer'
    BY <1>1 DEF FirstsDiffer
<1> QED BY <1>1, <1>5, <1>6, SameNeeds DEF NeedInv

\* Two firsts have different signatures, so they are not written alike.
LEMMA ScanDoneNeed == NeedInv /\ ScanDone => NeedInv'
<1> SUFFICES ASSUME NeedInv, ScanDone PROVE NeedInv'
    OBVIOUS
<1>1. /\ DataInv' /\ phase = "scan" /\ phase' = "rewrite" /\ Ids' = Ids /\ OptTypeOK
      /\ UNCHANGED <<src, nodes, deps, live, worklist, seen, rewrites, cursor>>
      /\ Len(src) \in Nat /\ cursor \in 1..(Len(src) + 1) /\ cursor \notin Ids
    BY LaterPassesData, LenSource DEF NeedInv, DataInv, OptInv, OptTypeOK, ScanDone, Ids
<1>2. \A i \in Ids : nodes[i] = Lower(src[i]) /\ nodes[i].kind # "alias" /\ src[i] \in Stmt
    BY <1>1, NodeFields, LowerType DEF NeedInv, DataInv, NodesLowered, Stmt, Kind
<1>3. Scanned'
    <2>1. \A i \in Ids : i < cursor
        BY <1>1 DEF Ids
    <2> QED BY <1>1, <2>1 DEF NeedInv, Scanned, First, IsRead
<1>4. ASSUME NEW f \in Ids, NEW g \in Ids, First(f), First(g), WrittenAlike(src, f, g)
      PROVE  f = g
    <2>1. deps[f] = deps[g]
        <3>1. DepsReach /\ Wired(f) /\ Wired(g) /\ WrittenAlike(src, g, f)
            BY <1>1, <1>4, AlikeSymmetric DEF NeedInv, DataInv, Wired
        <3>2. deps[f] \subseteq deps[g]
            BY <1>1, <1>2, <1>4, <3>1, AlikeSameDeps
        <3>3. deps[g] \subseteq deps[f]
            BY <1>1, <1>2, <1>4, <3>1, AlikeSameDeps
        <3> QED BY <3>2, <3>3
    <2>2. /\ nodes[f].text = src[f].text /\ nodes[f].reads = src[f].reads
          /\ nodes[g].text = src[g].text /\ nodes[g].reads = src[g].reads
        BY <1>2, LowerType
    <2>3. Signature(f) = Signature(g)
        BY <1>4, <2>1, <2>2 DEF Signature, WrittenAlike
    <2>4. \A s \in DOMAIN seen : s = Signature(seen[s])
        BY <1>1 DEF NeedInv, DataInv, DuplicatesMatch
    <2> QED BY <1>4, <2>3, <2>4 DEF First
<1>5. FirstsDiffer'
    BY <1>1, <1>4 DEF FirstsDiffer, First
<1> QED BY <1>1, <1>3, <1>5, SameNeeds DEF NeedInv

LEMMA RewriteOneNeed == NeedInv /\ RewriteOne => NeedInv'
<1> SUFFICES ASSUME NeedInv, RewriteOne PROVE NeedInv'
    OBVIOUS
<1>1. /\ DataInv' /\ phase = "rewrite" /\ phase' = "rewrite" /\ Ids' = Ids /\ OptTypeOK
      /\ UNCHANGED <<src, live, worklist, seen>>
    BY RewriteOneData DEF NeedInv, DataInv, OptInv, RewriteOne, Ids
<1>2. PICK r \in rewrites :
          /\ nodes' = [nodes EXCEPT ![r[1]] = Alias(nodes[r[1]], nodes[r[2]].bind)]
          /\ deps' = [deps EXCEPT ![r[1]] = {r[2]}]
          /\ rewrites' = rewrites \ {r}
    BY DEF RewriteOne
<1>3. /\ r[1] \in Ids /\ nodes'[r[1]].kind = "alias"
      /\ \A i \in Ids : i # r[1] => nodes'[i] = nodes[i] /\ deps'[i] = deps[i]
    BY <1>1, <1>2 DEF OptTypeOK, Alias
<1>4. DepsNeeded'
    BY <1>1, <1>3 DEF NeedInv, DepsNeeded, Wired, Reaches, Effect
<1>5. Scanned'
    BY <1>1, <1>2, <1>3 DEF NeedInv, Scanned, First, IsRead
<1>6. FirstsDiffer' /\ LiveWanted' /\ MarkedLive'
    BY <1>1 DEF NeedInv, FirstsDiffer, First, LiveWanted, Wanted, Effect, MarkedLive
<1> QED BY <1>1, <1>4, <1>5, <1>6 DEF NeedInv

LEMMA MarkNeed == NeedInv /\ (MarkRoots \/ MarkDeps) => NeedInv'
<1> SUFFICES ASSUME NeedInv, MarkRoots \/ MarkDeps PROVE NeedInv'
    OBVIOUS
<1>1. /\ DataInv' /\ phase \in {"roots", "mark"} /\ phase' = "mark" /\ Ids' = Ids /\ OptTypeOK
      /\ UNCHANGED <<src, nodes, deps, seen, rewrites>>
    BY MarkRootsData, MarkDepsData DEF NeedInv, DataInv, OptInv, MarkRoots, MarkDeps, Ids
<1>2. DepsNeeded' /\ Scanned' /\ FirstsDiffer'
    BY <1>1 DEF NeedInv, DepsNeeded, Wired, Reaches, Effect, Scanned, FirstsDiffer, First, IsRead
<1>3. ASSUME NEW i \in live' PROVE Wanted(i) /\ (Effect(i) \/ src[i].bind # NoVar)
    <2>1. CASE MarkRoots
        <3>1. i \in Ids /\ Effect(i)
            BY <1>3, <2>1 DEF MarkRoots, Roots, NeedInv, DataInv, OptInv, NodesFaithful
        <3> QED BY <3>1, EffectsObserved DEF Wanted
    <2>2. CASE MarkDeps
        <3>1. PICK j \in worklist : live' = live \cup deps[j]
            BY <2>2 DEF MarkDeps
        <3>2. j \in Ids /\ j \in live
            BY <1>1, <2>2 DEF NeedInv, MarkedLive, MarkDeps, OptTypeOK
        <3> QED BY <1>1, <1>3, <3>1, <3>2, DepsWanted DEF NeedInv, LiveWanted
    <2> QED BY <2>1, <2>2
<1>4. LiveWanted'
    BY <1>1, <1>3 DEF LiveWanted, Wanted, Effect
<1>5. MarkedLive'
    BY <1>1 DEF NeedInv, MarkedLive, MarkRoots, MarkDeps, NewlyLive
<1> QED BY <1>1, <1>2, <1>4, <1>5 DEF NeedInv

LEMMA LaterPassesNeed ==
    NeedInv /\ (RewriteDone \/ MarkDone \/ RaiseLevel \/ LevelNode \/ LevelDone) => NeedInv'
<1> SUFFICES ASSUME NeedInv, RewriteDone \/ MarkDone \/ RaiseLevel \/ LevelNode \/ LevelDone
             PROVE  NeedInv'
    OBVIOUS
<1>1. /\ DataInv' /\ phase \notin {"wire", "scan"} /\ phase' \notin {"wire", "scan", "rewrite"}
      /\ phase = "rewrite" => rewrites = {}
      /\ Ids' = Ids /\ UNCHANGED <<src, nodes, deps, seen, rewrites, live, worklist>>
    BY LaterPassesData DEF NeedInv, RewriteDone, MarkDone, RaiseLevel, LevelNode, LevelDone, Ids
<1>2. Scanned' /\ FirstsDiffer'
    BY <1>1 DEF NeedInv, Scanned, FirstsDiffer, First, IsRead
<1> QED BY <1>1, <1>2, SameNeeds DEF NeedInv

LEMMA StutterNeed == NeedInv /\ UNCHANGED optVars => NeedInv'
<1> SUFFICES ASSUME NeedInv, UNCHANGED optVars PROVE NeedInv'
    OBVIOUS
<1>1. DataInv' /\ Ids' = Ids
    BY StutterData DEF NeedInv, optVars, Ids
<1>2. DepsNeeded' /\ Scanned' /\ FirstsDiffer' /\ LiveWanted' /\ MarkedLive'
    BY <1>1 DEF optVars, NeedInv, DepsNeeded, Wired, Reaches, Effect, Scanned, FirstsDiffer, First,
                IsRead, LiveWanted, Wanted, MarkedLive
<1> QED BY <1>1, <1>2 DEF NeedInv

LEMMA NextNeedInv == NeedInv /\ [OptNext]_optVars => NeedInv'
PROOF BY WireNodeNeed, WireDoneNeed, ScanNodeNeed, ScanDoneNeed, RewriteOneNeed, MarkNeed,
         LaterPassesNeed, StutterNeed DEF OptNext

LEMMA AlwaysNeedInv == OptSpec => []NeedInv
PROOF BY InitNeedInv, NextNeedInv, PTL DEF OptSpec

\* Every request that is sent was asked for: an effect needs its result, or
\* the result of a request written alike.
THEOREM NothingUnobservedIsSent == OptSpec => []NoUnobservedRequest
<1>1. NeedInv => NoUnobservedRequest
    BY DEF NeedInv, LiveWanted, Wanted, NoUnobservedRequest
<1> QED BY AlwaysNeedInv, <1>1, PTL

\* No request is sent twice with the same inputs.
THEOREM NoRequestIsSentTwice == OptSpec => []NoDuplicateRequest
<1>1. NeedInv => NoDuplicateRequest
    <2> SUFFICES ASSUME NeedInv, Done, NEW i \in live, NEW j \in live, i # j,
                        IsFetch(nodes[i]), IsFetch(nodes[j]), SameRequest(src, i, j)
                 PROVE  FALSE
        BY DEF NoDuplicateRequest
    <2>1. ASSUME NEW k \in {i, j} PROVE k \in Ids /\ First(k)
        <3>1. k \in live /\ k \in Ids /\ nodes[k].kind # "alias" /\ rewrites = {}
            BY DEF NeedInv, DataInv, OptInv, OptTypeOK, IsFetch, Scanned, Done
        <3>2. src[k].kind = "fetch" /\ src[k].method = "GET"
            BY DEF SameRequest
        <3>3. IsRead(k)
            BY <3>1, <3>2 DEF NeedInv, LiveWanted, Effect, IsEffect, IsRead
        <3> QED BY <3>1, <3>3 DEF NeedInv, Scanned, Done
    <2>2. WrittenAlike(src, i, j)
        BY DEF SameRequest, WrittenAlike
    <2> QED BY <2>1, <2>2 DEF NeedInv, FirstsDiffer, Done
<1> QED BY AlwaysNeedInv, <1>1, PTL
-----------------------------------------------------------------------------
(* The passes end: the iterations that are left are counted down.          *)

Togo == Len(src) + 1 - cursor   \* what the running pass has not looked at
Row  == Len(src) + 1            \* levelling a node looks at less than this
Marking == 2 + Len(src) * Row + Len(src)

\* What the passes have before them, if every node depended on all others.
PassesLeft ==
    CASE phase = "wire"    -> 3 * Len(src) + Marking + 4 + Cardinality(rewrites) + Togo
      [] phase = "scan"    -> Len(src) + Marking + 3 + Cardinality(rewrites) + 2 * Togo
      [] phase = "rewrite" -> Len(src) + Marking + 2 + Cardinality(rewrites)
      [] phase = "roots"   -> Len(src) + Marking + 1
      [] phase = "mark"    -> Marking + (Cardinality(worklist) + Cardinality(Ids \ live))
      [] phase = "level"   -> 1 + (Togo * Row + Cardinality(todo))
      [] phase = "done"    -> 0

\* The first n ids, and any relation on them, are finite.
LEMMA FirstOnes ==
    ASSUME NEW n \in Nat
    PROVE  /\ IsFiniteSet(1..n) /\ Cardinality(1..n) = n
           /\ \A S \in SUBSET ((1..n) \X (1..n)) : IsFiniteSet(S) /\ Cardinality(S) \in Nat
<1>1. IsFiniteSet(1..n) /\ Cardinality(1..n) = IF 1 > n THEN 0 ELSE n - 1 + 1
    BY FS_Interval
<1>2. IsFiniteSet((1..n) \X (1..n))
    BY <1>1, FS_Product
<1>3. \A S \in SUBSET ((1..n) \X (1..n)) : IsFiniteSet(S) /\ Cardinality(S) \in Nat
    BY <1>2, FS_Subset, FS_CardinalityType
<1> QED BY <1>1, <1>3

\* The sets the passes work through are finite.
LEMMA PassSets ==
    ASSUME OptTypeOK
    PROVE  /\ Len(src) \in Nat /\ Togo \in 0..Len(src) /\ Row \in Nat
           /\ \A S \in SUBSET Ids : IsFiniteSet(S) /\ Cardinality(S) \in 0..Len(src)
           /\ IsFiniteSet(rewrites) /\ Cardinality(rewrites) \in Nat
           /\ Togo * Row \in Nat /\ Marking \in Nat
<1>1. Len(src) \in Nat /\ cursor \in 1..(Len(src) + 1)
    BY LenSource DEF OptTypeOK
<1>2. Togo \in 0..Len(src) /\ Row \in Nat
    BY <1>1 DEF Togo, Row
<1>3. IsFiniteSet(Ids) /\ Cardinality(Ids) = Len(src)
    BY <1>1, FirstOnes DEF Ids
<1>4. \A S \in SUBSET Ids : IsFiniteSet(S) /\ Cardinality(S) \in 0..Len(src)
    BY <1>1, <1>3, FS_Subset, FS_CardinalityType
<1>5. IsFiniteSet(rewrites) /\ Cardinality(rewrites) \in Nat
    BY <1>1, FirstOnes DEF Ids, OptTypeOK
<1>6. Togo * Row \in Nat /\ Len(src) * Row \in Nat
    BY <1>1, <1>2
<1>7. Marking \in Nat
    BY <1>1, <1>6 DEF Marking
<1> QED BY <1>1, <1>2, <1>4, <1>5, <1>6, <1>7

\* A node fewer to look at is a row less.
LEMMA NextRow ==
    ASSUME NEW a \in Nat \ {0}, NEW b \in Nat
    PROVE  a * b = (a - 1) * b + b /\ (a - 1) * b \in Nat
OBVIOUS

\* What liveness has before it, whether counted from the start or from a pop.
LEMMA PopCounts ==
    ASSUME OptTypeOK, phase = "mark", NEW i \in worklist
    PROVE  LET more == (worklist \ {i}) \cup NewlyLive(i)
               marked == live \cup deps[i]
           IN  Cardinality(more) + Cardinality(Ids \ marked)
                   < Cardinality(worklist) + Cardinality(Ids \ live)
<1> DEFINE new == NewlyLive(i)
           rest == worklist \ {i}
           dead == Ids \ live
<1>1. new \in SUBSET Ids /\ rest \in SUBSET Ids /\ worklist \in SUBSET Ids /\ dead \in SUBSET Ids
      /\ Ids \ (live \cup deps[i]) = dead \ new /\ new \subseteq dead
    BY DEF OptTypeOK, NewlyLive
<1> HIDE DEF new, rest, dead
<1>2. \A S \in SUBSET Ids : IsFiniteSet(S) /\ Cardinality(S) \in Nat
    BY PassSets
<1>3. Cardinality(rest) = Cardinality(worklist) - 1
    BY <1>1, <1>2, FS_RemoveElement DEF rest
<1>4. Cardinality(rest \cup new) <= Cardinality(rest) + Cardinality(new)
    <2>1. Cardinality(rest \cup new) = Cardinality(rest) + Cardinality(new) - Cardinality(rest \cap new)
        BY <1>1, <1>2, FS_Union
    <2>2. Cardinality(rest \cap new) \in Nat
        BY <1>1, <1>2
    <2> QED BY <1>1, <1>2, <2>1, <2>2
<1>5. Cardinality(dead \ new) = Cardinality(dead) - Cardinality(new)
    <2>1. dead \cap new = new
        BY <1>1
    <2> QED BY <1>1, <1>2, <2>1, FS_Difference
<1>6. /\ Cardinality(rest) \in Nat /\ Cardinality(new) \in Nat /\ Cardinality(dead) \in Nat
      /\ Cardinality(worklist) \in Nat /\ Cardinality(rest \cup new) \in Nat
    BY <1>1, <1>2
<1>7. Cardinality(rest \cup new) + Cardinality(dead \ new) < Cardinality(worklist) + Cardinality(dead)
    BY <1>3, <1>4, <1>5, <1>6
<1> QED BY <1>1, <1>7 DEF new, rest, dead

\* Every iteration counts down.
LEMMA PassesCountDown ==
    ASSUME OptTypeOK, OptTypeOK', OptNext
    PROVE  PassesLeft' < PassesLeft
<1> DEFINE n == Len(src)
           base == Marking
           rw == Cardinality(rewrites)
           rw2 == Cardinality(rewrites')
           g == Togo
           g2 == Togo'
<1>1. src' = src /\ Row' = Row /\ Marking' = Marking /\ Ids' = Ids
    BY DEF OptNext, WireNode, WireDone, ScanNode, ScanDone, RewriteOne, RewriteDone, MarkRoots,
           MarkDeps, MarkDone, RaiseLevel, LevelNode, LevelDone, Row, Marking, Ids
<1>2. /\ n \in Nat /\ g \in 0..n /\ rw \in Nat /\ base \in Nat
      /\ base = 2 + n * Row + n /\ n * Row \in Nat
    BY PassSets DEF Marking
<1>3. g2 \in 0..n /\ rw2 \in Nat
    <2>1. rewrites' \subseteq Ids \X Ids
        BY <1>1 DEF OptTypeOK
    <2>2. cursor' \in 1..(n + 1)
        BY <1>1 DEF OptTypeOK
    <2>3. rw2 \in Nat
        BY <1>2, <2>1, FirstOnes DEF Ids
    <2>4. g2 = n + 1 - cursor'
        BY <1>1 DEF Togo
    <2> QED BY <1>2, <2>2, <2>3, <2>4
<1>4. \A S \in SUBSET Ids : IsFiniteSet(S) /\ Cardinality(S) \in 0..n
    BY PassSets
<1>5. cursor' = cursor + 1 => g2 = g - 1
    <2>1. g = n + 1 - cursor /\ g2 = n + 1 - cursor' /\ cursor \in 1..(n + 1)
        BY <1>1 DEF Togo, OptTypeOK
    <2> QED BY <1>2, <2>1
<1>6. cursor' = 1 => g2 = n
    BY <1>1, <1>2 DEF Togo
<1>7. cursor' = cursor => g2 = g
    BY <1>1 DEF Togo
<1>8. \A S \in SUBSET Ids : Cardinality(S) \in Nat /\ Cardinality(S) <= n
    BY <1>2, <1>4
<1> HIDE DEF n, base, rw, rw2, g, g2
<1>9. CASE WireNode
    <2>1. /\ phase = "wire" /\ phase' = "wire" /\ rw2 = rw /\ g2 = g - 1
        BY <1>5, <1>9 DEF WireNode, rw, rw2
    <2>2. PassesLeft = 3 * n + base + 4 + rw + g /\ PassesLeft' = 3 * n + base + 4 + rw2 + g2
        BY <1>1, <2>1 DEF PassesLeft, n, base, rw, rw2, g, g2
    <2> QED BY <1>2, <1>3, <2>1, <2>2
<1>10. CASE WireDone
    <2>1. phase = "wire" /\ phase' = "scan" /\ rw2 = rw /\ g2 = n
        BY <1>6, <1>10 DEF WireDone, rw, rw2
    <2>2. PassesLeft = 3 * n + base + 4 + rw + g /\ PassesLeft' = n + base + 3 + rw2 + 2 * g2
        BY <1>1, <2>1 DEF PassesLeft, n, base, rw, rw2, g, g2
    <2> QED BY <1>2, <1>3, <2>1, <2>2
<1>11. CASE ScanNode
    <2>1. phase = "scan" /\ phase' = "scan" /\ g2 = g - 1
        BY <1>5, <1>11 DEF ScanNode
    <2>2. rw2 <= rw + 1
        <3> DEFINE x == <<cursor, seen[Signature(cursor)]>>
        <3>1. rewrites' = rewrites \/ rewrites' = rewrites \cup {x}
            BY <1>11 DEF ScanNode
        <3> HIDE DEF x
        <3>2. IsFiniteSet(rewrites)
            BY PassSets
        <3>3. Cardinality(rewrites \cup {x}) = rw \/ Cardinality(rewrites \cup {x}) = rw + 1
            BY <3>2, FS_AddElement DEF rw
        <3>4. rw2 = rw \/ rw2 = rw + 1
            BY <3>1, <3>3 DEF rw, rw2
        <3> QED BY <1>2, <3>4
    <2>3. PassesLeft = n + base + 3 + rw + 2 * g /\ PassesLeft' = n + base + 3 + rw2 + 2 * g2
        BY <1>1, <2>1 DEF PassesLeft, n, base, rw, rw2, g, g2
    <2> QED BY <1>2, <1>3, <2>1, <2>2, <2>3
<1>12. CASE ScanDone
    <2>1. phase = "scan" /\ phase' = "rewrite" /\ rw2 = rw
        BY <1>12 DEF ScanDone, rw, rw2
    <2>2. PassesLeft = n + base + 3 + rw + 2 * g /\ PassesLeft' = n + base + 2 + rw2
        BY <1>1, <2>1 DEF PassesLeft, n, base, rw, rw2, g
    <2> QED BY <1>2, <1>3, <2>1, <2>2
<1>13. CASE RewriteOne
    <2>1. phase = "rewrite" /\ phase' = "rewrite"
        BY <1>13 DEF RewriteOne
    <2>2. rw2 = rw - 1
        <3>1. PICK r \in rewrites : rewrites' = rewrites \ {r}
            BY <1>13 DEF RewriteOne
        <3>2. IsFiniteSet(rewrites)
            BY PassSets
        <3> QED BY <3>1, <3>2, FS_RemoveElement DEF rw, rw2
    <2>3. PassesLeft = n + base + 2 + rw /\ PassesLeft' = n + base + 2 + rw2
        BY <1>1, <2>1 DEF PassesLeft, n, base, rw, rw2
    <2> QED BY <1>2, <1>3, <2>2, <2>3
<1>14. CASE RewriteDone
    <2>1. phase = "rewrite" /\ phase' = "roots"
        BY <1>14 DEF RewriteDone
    <2>2. PassesLeft = n + base + 2 + rw /\ PassesLeft' = n + base + 1
        BY <1>1, <2>1 DEF PassesLeft, n, base, rw
    <2> QED BY <1>2, <2>2
<1>15. CASE MarkRoots
    <2>1. /\ phase = "roots" /\ phase' = "mark" /\ live' = Roots /\ worklist' = Roots
        BY <1>15 DEF MarkRoots
    <2>2. Cardinality(Roots) + Cardinality(Ids \ Roots) = n
        <3>1. Roots \in SUBSET Ids /\ Ids \in SUBSET Ids /\ Ids \cap Roots = Roots
            BY DEF Roots
        <3>2. Cardinality(Ids \ Roots) = Cardinality(Ids) - Cardinality(Roots)
            BY <1>4, <3>1, FS_Difference
        <3>3. Cardinality(Ids) = n
            BY <1>2, FirstOnes DEF Ids, n
        <3>4. Cardinality(Roots) \in Nat
            BY <1>8, <3>1
        <3> QED BY <1>2, <3>2, <3>3, <3>4
    <2>3. PassesLeft = n + base + 1
        BY <2>1 DEF PassesLeft, n, base
    <2>4. PassesLeft' = base + (Cardinality(Roots) + Cardinality(Ids \ Roots))
        BY <1>1, <2>1 DEF PassesLeft, base
    <2> QED BY <1>2, <2>2, <2>3, <2>4
<1>16. CASE MarkDeps
    <2>1. PICK i \in worklist : /\ live' = live \cup deps[i]
                                /\ worklist' = (worklist \ {i}) \cup NewlyLive(i)
        BY <1>16 DEF MarkDeps
    <2>2. phase = "mark" /\ phase' = "mark"
        BY <1>16 DEF MarkDeps
    <2> DEFINE old == Cardinality(worklist) + Cardinality(Ids \ live)
               now == Cardinality(worklist') + Cardinality(Ids \ live')
    <2>3. now < old
        BY <2>1, <2>2, PopCounts
    <2>4. old \in Nat /\ now \in Nat
        <3>1. worklist \in SUBSET Ids /\ Ids \ live \in SUBSET Ids /\ worklist' \in SUBSET Ids
              /\ Ids \ live' \in SUBSET Ids
            BY <1>1 DEF OptTypeOK
        <3> QED BY <1>8, <3>1
    <2>5. PassesLeft = base + old /\ PassesLeft' = base + now
        BY <1>1, <2>2 DEF PassesLeft, base
    <2> HIDE DEF old, now
    <2> QED BY <1>2, <2>3, <2>4, <2>5
<1>17. CASE MarkDone
    <2>1. phase = "mark" /\ phase' = "level" /\ g2 = n /\ worklist = {}
        BY <1>6, <1>17 DEF MarkDone
    <2>2. Cardinality(worklist) + Cardinality(Ids \ live) \in Nat
        <3>1. worklist \in SUBSET Ids /\ Ids \ live \in SUBSET Ids
            BY DEF OptTypeOK
        <3> QED BY <1>8, <3>1
    <2>3. Cardinality(todo') \in Nat /\ Cardinality(todo') <= n
        BY <1>1, <1>8 DEF OptTypeOK
    <2>4. PassesLeft = base + (Cardinality(worklist) + Cardinality(Ids \ live))
        BY <2>1 DEF PassesLeft, base
    <2>5. PassesLeft' = 1 + (n * Row + Cardinality(todo'))
        BY <1>1, <2>1 DEF PassesLeft, g2
    <2> QED BY <1>2, <2>2, <2>3, <2>4, <2>5
<1>18. CASE RaiseLevel
    <2>1. phase = "level" /\ phase' = "level" /\ g2 = g
        BY <1>7, <1>18 DEF RaiseLevel
    <2>2. Cardinality(todo') = Cardinality(todo) - 1
        <3>1. PICK d \in todo : todo' = todo \ {d}
            BY <1>18 DEF RaiseLevel
        <3>2. IsFiniteSet(todo)
            BY <1>4 DEF OptTypeOK
        <3> QED BY <3>1, <3>2, FS_RemoveElement
    <2>3. Cardinality(todo) \in Nat /\ g * Row \in Nat
        BY <1>8, PassSets DEF OptTypeOK, g
    <2>4. PassesLeft = 1 + (g * Row + Cardinality(todo)) /\ PassesLeft' = 1 + (g * Row + Cardinality(todo'))
        BY <1>1, <2>1 DEF PassesLeft, g, g2
    <2> DEFINE area == g * Row
    <2>5. area \in Nat /\ PassesLeft = 1 + (area + Cardinality(todo))
          /\ PassesLeft' = 1 + (area + Cardinality(todo'))
        BY <2>3, <2>4
    <2> HIDE DEF area
    <2> QED BY <2>2, <2>3, <2>5
<1>19. CASE LevelNode
    <2>1. phase = "level" /\ phase' = "level" /\ g2 = g - 1 /\ cursor \in Ids
        BY <1>5, <1>19 DEF LevelNode, NextNode
    <2>2. g \in Nat \ {0}
        BY <1>2, <1>3, <2>1
    <2>3. Row \in Nat /\ Row = n + 1
        BY <1>2 DEF Row, n
    <2>4. g * Row = g2 * Row + Row /\ g2 * Row \in Nat
        BY <2>1, <2>2, <2>3, NextRow
    <2>5. Cardinality(todo) \in Nat /\ Cardinality(todo') \in Nat /\ Cardinality(todo') <= n
        BY <1>1, <1>8 DEF OptTypeOK
    <2>6. PassesLeft = 1 + (g * Row + Cardinality(todo)) /\ PassesLeft' = 1 + (g2 * Row + Cardinality(todo'))
        BY <1>1, <2>1 DEF PassesLeft, g, g2
    <2> DEFINE area == g2 * Row
    <2>7. area \in Nat /\ PassesLeft = 1 + ((area + Row) + Cardinality(todo))
          /\ PassesLeft' = 1 + (area + Cardinality(todo'))
        BY <2>4, <2>6
    <2> HIDE DEF area
    <2> QED BY <1>2, <2>3, <2>5, <2>7
<1>20. CASE LevelDone
    <2>1. phase = "level" /\ phase' = "done"
        BY <1>20 DEF LevelDone
    <2>2. Togo * Row \in Nat /\ Cardinality(todo) \in Nat
        BY <1>8, PassSets DEF OptTypeOK
    <2>3. PassesLeft = 1 + (Togo * Row + Cardinality(todo)) /\ PassesLeft' = 0
        BY <2>1 DEF PassesLeft
    <2> QED BY <2>2, <2>3
<1> QED BY <1>9, <1>10, <1>11, <1>12, <1>13, <1>14, <1>15, <1>16, <1>17, <1>18, <1>19, <1>20 DEF OptNext

\* The bound, in the length of the body.
Most == (Len(src) + 3) * (Len(src) + 3)

\* The count never falls below zero,
LEMMA PassesLeftNat == OptTypeOK => PassesLeft \in Nat
<1> SUFFICES ASSUME OptTypeOK PROVE PassesLeft \in Nat
    OBVIOUS
<1>1. /\ Len(src) \in Nat /\ Togo \in Nat /\ Cardinality(rewrites) \in Nat /\ Marking \in Nat
      /\ Togo * Row \in Nat
    BY PassSets
<1>2. Cardinality(worklist) \in Nat /\ Cardinality(Ids \ live) \in Nat /\ Cardinality(todo) \in Nat
    BY PassSets DEF OptTypeOK
<1>3. Cardinality(worklist) + Cardinality(Ids \ live) \in Nat /\ Togo * Row + Cardinality(todo) \in Nat
    BY <1>1, <1>2
<1>4. phase \in {"wire", "scan", "rewrite", "roots", "mark", "level", "done"}
    BY DEF OptTypeOK
<1> DEFINE n == Len(src)
           base == Marking
           rw == Cardinality(rewrites)
           g == Togo
           marks == Cardinality(worklist) + Cardinality(Ids \ live)
           cells == Togo * Row + Cardinality(todo)
<1>5. n \in Nat /\ g \in Nat /\ rw \in Nat /\ base \in Nat /\ marks \in Nat /\ cells \in Nat
    BY <1>1, <1>3
<1>6. PassesLeft \in {3 * n + base + 4 + rw + g, n + base + 3 + rw + 2 * g, n + base + 2 + rw,
                     n + base + 1, base + marks, 1 + cells, 0}
    BY <1>4 DEF PassesLeft
<1> HIDE DEF n, base, rw, g, marks, cells
<1> QED BY <1>5, <1>6

\* and starts within the bound.
LEMMA PassesLeftFirst == OptInit => PassesLeft <= Most
<1> SUFFICES ASSUME OptInit PROVE PassesLeft <= Most
    OBVIOUS
<1>1. Len(src) \in Nat
    BY SourceShape DEF OptInit
<1>2. Cardinality(rewrites) = 0 /\ Togo = Len(src)
    BY <1>1, FS_EmptySet DEF OptInit, Togo
<1> DEFINE n == Len(src)
<1>3. PassesLeft = 3 * n + (2 + n * (n + 1) + n) + 4 + 0 + n
    BY <1>2 DEF OptInit, PassesLeft, Marking, Row
<1>4. Most = (n + 3) * (n + 3) /\ n \in Nat
    BY <1>1 DEF Most
<1> HIDE DEF n
<1>5. n * (n + 1) = n * n + n /\ (n + 3) * (n + 3) = n * n + 6 * n + 9 /\ n * n \in Nat
    BY <1>4
<1> QED BY <1>3, <1>4, <1>5

\* The passes take at most (n + 3)^2 iterations on a body of n statements: what
\* is left starts below that and every iteration takes from it.
THEOREM PassesAreBounded ==
    OptSpec => [](PassesLeft \in 0..Most) /\ [][PassesLeft' < PassesLeft]_optVars
<1> DEFINE Inv == OptInv /\ PassesLeft <= Most
<1>1. OptInit => Inv
    BY InitOptInv, PassesLeftFirst
<1>2. OptInv /\ [OptNext]_optVars => [PassesLeft' < PassesLeft]_optVars
    BY NextOptInv, PassesCountDown DEF OptInv
<1>3. Inv /\ [OptNext]_optVars => Inv'
    <2> SUFFICES ASSUME Inv, [OptNext]_optVars PROVE PassesLeft' <= Most'
        BY NextOptInv
    <2>1. CASE UNCHANGED optVars
        BY <2>1 DEF optVars, PassesLeft, Most, Togo, Row, Marking, Ids
    <2>2. CASE OptNext
        <3>1. OptInv' /\ Len(src) \in Nat
            BY <2>2, NextOptInv, LenSource DEF OptInv
        <3>2. PassesLeft \in Nat /\ PassesLeft' \in Nat /\ Most \in Nat
            <4>1. (OptTypeOK => PassesLeft \in Nat)'
                BY PassesLeftNat, PTL
            <4> QED BY <3>1, <4>1, PassesLeftNat DEF OptInv, Most
        <3>3. PassesLeft' < PassesLeft
            BY <2>2, <3>1, PassesCountDown DEF OptInv
        <3>4. Most' = Most
            BY <2>2 DEF Most, OptNext, WireNode, WireDone, ScanNode, ScanDone, RewriteOne, RewriteDone,
                   MarkRoots, MarkDeps, MarkDone, RaiseLevel, LevelNode, LevelDone
        <3> QED BY <3>2, <3>3, <3>4
    <2> QED BY <2>1, <2>2
<1>4. Inv => PassesLeft \in 0..Most /\ OptInv
    <2> SUFFICES ASSUME Inv PROVE PassesLeft \in 0..Most
        OBVIOUS
    <2>1. PassesLeft \in Nat /\ Len(src) \in Nat
        BY PassesLeftNat, LenSource DEF OptInv
    <2> QED BY <2>1 DEF Most
<1> HIDE DEF Inv
<1> QED BY <1>1, <1>2, <1>3, <1>4, PTL DEF OptSpec
=============================================================================
