-------------------------- MODULE InterpreterProofs --------------------------
(***************************************************************************)
(* Early returns leave the bodies they should leave, for every program and *)
(* every depth of nesting.                                                 *)
(***************************************************************************)
EXTENDS Interpreter, TLAPS

Places == {"launch", "join", "effect", "match", "refetch", "loop", "inner", "unwind"}

FrameSet == [body : program.bodies, wave : Nat \ {0}, at : Places, attempt : Nat,
             left : Nat, last : BOOLEAN, returned : BOOLEAN]

EffectIn(fr) == fr.body[fr.wave].effect

\* A match that can run its fetch again.
Retries(e) == e.fetched /\ \E k \in DOMAIN e.arms : e.arms[k].kind = "retry"

\* Where an activation stands agrees with the effect it is at.
WellPlaced(fr) ==
    /\ fr.at = "launch" => fr.wave <= Len(fr.body) + 1
    /\ fr.at \notin {"launch", "unwind"} => fr.wave \in DOMAIN fr.body
    /\ fr.at \in {"match", "refetch"} => EffectIn(fr).kind = "match" /\ fr.attempt <= MaxRetries
    /\ fr.at = "refetch" => Retries(EffectIn(fr))
    /\ fr.at = "loop" => EffectIn(fr).kind = "for"

\* Waves with a `return` are never passed.
NotPassed(fr) == \A i \in DOMAIN fr.body : i < fr.wave => fr.body[i].effect.kind # "return"

\* An activation that returned is leaving, with a value, a body that can return.
Returning(fr) == fr.returned => fr.at = "unwind" /\ fr.last /\ CanReturn(fr.body)

\* A value comes from a `return`, a call or a match, and the reason to leave
\* is a `return` or the end.
Justified(fr) ==
    /\ fr.last => fr.returned \/ \E i \in DOMAIN fr.body : fr.body[i].effect.kind \in {"call", "match"}
    /\ fr.at = "unwind" => fr.returned \/ fr.wave > Len(fr.body)

FrameOk(fr) ==
    /\ WellPlaced(fr) /\ NotPassed(fr)
    /\ ArmsDoNotReturn => Returning(fr)
    /\ ArmsDoNotReturn /\ LoopsReturnAlone => Justified(fr)

\* The activation above fr runs the body that fr's effect is about.
Above(fr, b) ==
    /\ fr.at = "inner"
    /\ \/ /\ EffectIn(fr).kind = "call" /\ EffectIn(fr).flow \in DOMAIN program.flows
          /\ b = program.flows[EffectIn(fr).flow]
       \/ EffectIn(fr).kind \in {"match", "for"} /\ b \in Nested(EffectIn(fr))

StackOk(s) ==
    /\ s \in Seq(FrameSet)
    /\ \A k \in DOMAIN s : FrameOk(s[k])
    /\ \A k \in DOMAIN s : k < Len(s) => Above(s[k], s[k + 1].body)

ReturnInv == program \in Programs /\ StackOk(stack)

-----------------------------------------------------------------------------
(***************************************************************************)
(* Stacks: one activation in the place of the top, one above it, the top   *)
(* gone.                                                                   *)
(***************************************************************************)
LEMMA Replaced ==
    ASSUME NEW S, NEW s \in Seq(S), s # <<>>, NEW x \in S
    PROVE  /\ Front(s) \o <<x>> \in Seq(S)
           /\ Len(Front(s) \o <<x>>) = Len(s)
           /\ \A k \in 1..Len(s) : (Front(s) \o <<x>>)[k] = IF k = Len(s) THEN x ELSE s[k]
           /\ Last(s) = s[Len(s)] /\ Last(s) \in S /\ Len(s) \in DOMAIN s
BY DEF Front, Last

LEMMA Pushed ==
    ASSUME NEW S, NEW s \in Seq(S), s # <<>>, NEW x \in S, NEW y \in S
    PROVE  /\ Front(s) \o <<x, y>> \in Seq(S)
           /\ Len(Front(s) \o <<x, y>>) = Len(s) + 1
           /\ \A k \in 1..(Len(s) + 1) :
                  (Front(s) \o <<x, y>>)[k] = IF k < Len(s) THEN s[k] ELSE IF k = Len(s) THEN x ELSE y
BY DEF Front

LEMMA Popped ==
    ASSUME NEW S, NEW s \in Seq(S), Len(s) > 1, NEW x \in S
    PROVE  /\ Front(Front(s)) \o <<x>> \in Seq(S)
           /\ Len(Front(Front(s)) \o <<x>>) = Len(s) - 1
           /\ \A k \in 1..(Len(s) - 1) :
                  (Front(Front(s)) \o <<x>>)[k] = IF k = Len(s) - 1 THEN x ELSE s[k]
           /\ Last(Front(s)) = s[Len(s) - 1]
<1>1. Len(s) \in Nat
  OBVIOUS
<1>2. Len(s) - 1 \in Nat /\ Len(s) - 1 > 0
  BY <1>1
<1>3. /\ SubSeq(s, 1, Len(s) - 1) \in Seq(S)
      /\ Len(SubSeq(s, 1, Len(s) - 1)) = Len(s) - 1
      /\ \A k \in 1..(Len(s) - 1) : SubSeq(s, 1, Len(s) - 1)[k] = s[k]
  BY <1>2
<1> DEFINE u == Front(s)
           n == Len(s) - 1
<1>4. u \in Seq(S) /\ Len(u) = n /\ n \in Nat /\ n > 0 /\ \A k \in 1..n : u[k] = s[k]
  BY <1>2, <1>3 DEF Front
<1> HIDE DEF u, n
<1>5. u # <<>>
  BY <1>4
<1>6. /\ Front(u) \o <<x>> \in Seq(S) /\ Len(Front(u) \o <<x>>) = n
      /\ \A k \in 1..n : (Front(u) \o <<x>>)[k] = IF k = n THEN x ELSE u[k]
      /\ Last(u) = u[n] /\ n \in 1..n
  BY <1>4, <1>5, Replaced
<1>7. QED
  BY <1>4, <1>6 DEF u, n

LEMMA StackOver ==
    ASSUME NEW t \in Seq(FrameSet),
           \A k \in 1..Len(t) : FrameOk(t[k]),
           \A k \in 1..Len(t) : k < Len(t) => Above(t[k], t[k + 1].body)
    PROVE  StackOk(t)
<1>1. DOMAIN t = 1..Len(t)
  OBVIOUS
<1>2. QED
  BY <1>1 DEF StackOk

LEMMA StackUnder ==
    ASSUME NEW s, StackOk(s)
    PROVE  /\ s \in Seq(FrameSet) /\ Len(s) \in Nat
           /\ \A k \in 1..Len(s) : s[k] \in FrameSet /\ FrameOk(s[k])
           /\ \A k \in 1..(Len(s) - 1) : Above(s[k], s[k + 1].body)
<1>1. s \in Seq(FrameSet) /\ DOMAIN s = 1..Len(s) /\ Len(s) \in Nat
  BY DEF StackOk
<1>2. \A k \in 1..(Len(s) - 1) : k \in DOMAIN s /\ k < Len(s)
  BY <1>1
<1>3. \A k \in 1..(Len(s) - 1) : Above(s[k], s[k + 1].body)
  BY <1>2 DEF StackOk
<1>4. \A k \in 1..Len(s) : s[k] \in FrameSet /\ FrameOk(s[k])
  BY <1>1 DEF StackOk
<1>5. QED
  BY <1>1, <1>3, <1>4

LEMMA BecomeOk ==
    ASSUME NEW s, StackOk(s), s # <<>>,
           NEW x \in FrameSet, FrameOk(x), x.body = Last(s).body
    PROVE  StackOk(Front(s) \o <<x>>)
<1> DEFINE t == Front(s) \o <<x>>
           n == Len(s)
<1>1. /\ t \in Seq(FrameSet) /\ Len(t) = n /\ Last(s) = s[n]
      /\ \A k \in 1..n : t[k] = IF k = n THEN x ELSE s[k]
  <2>1. s \in Seq(FrameSet)
    BY StackUnder
  <2>2. QED
    BY <2>1, Replaced
<1>2. /\ n \in Nat /\ \A k \in 1..n : FrameOk(s[k])
      /\ \A k \in 1..(n - 1) : Above(s[k], s[k + 1].body)
  BY StackUnder
<1> HIDE DEF t, n
<1>3. \A k \in 1..n : FrameOk(t[k])
  BY <1>1, <1>2
<1>4. ASSUME NEW k \in 1..n, k < n PROVE Above(t[k], t[k + 1].body)
  <2>1. k \in 1..(n - 1) /\ k + 1 \in 1..n /\ k # n
    BY <1>2, <1>4
  <2>2. t[k] = s[k] /\ t[k + 1].body = s[k + 1].body
    BY <1>1, <2>1
  <2>3. QED
    BY <1>2, <2>1, <2>2
<1>5. StackOk(t)
  BY <1>1, <1>3, <1>4, StackOver
<1>6. QED
  BY <1>5 DEF t

LEMMA EnterOk ==
    ASSUME NEW s, StackOk(s), s # <<>>, program \in Programs,
           NEW x \in FrameSet, FrameOk(x), x.body = Last(s).body,
           NEW b \in program.bodies, Above(x, b)
    PROVE  StackOk(Front(s) \o <<x, Frame(b)>>)
<1> DEFINE y == Frame(b)
           t == Front(s) \o <<x, y>>
           n == Len(s)
<1>1. y \in FrameSet /\ FrameOk(y) /\ y.body = b
  <2>1. DOMAIN b = 1..Len(b) /\ Len(b) \in Nat
    BY ProgramsAssumption
  <2>2. 1 <= Len(b) + 1 /\ \A i \in DOMAIN b : ~(i < 1)
    BY <2>1
  <2>3. QED
    BY <2>2 DEF Frame, FrameSet, Places, FrameOk, WellPlaced, NotPassed, Returning, Justified
<1> HIDE DEF y
<1>2. /\ t \in Seq(FrameSet) /\ Len(t) = n + 1
      /\ \A k \in 1..(n + 1) : t[k] = IF k < n THEN s[k] ELSE IF k = n THEN x ELSE y
  BY <1>1, Pushed, StackUnder
<1>3. /\ n \in Nat /\ \A k \in 1..n : FrameOk(s[k])
      /\ \A k \in 1..(n - 1) : Above(s[k], s[k + 1].body)
      /\ x.body = s[n].body
  BY StackUnder, Replaced
<1> HIDE DEF t, n
<1>4. \A k \in 1..(n + 1) : FrameOk(t[k])
  BY <1>1, <1>2, <1>3
<1>5. ASSUME NEW k \in 1..(n + 1), k < n + 1 PROVE Above(t[k], t[k + 1].body)
  <2>1. CASE k = n
    <3>1. t[k] = x /\ t[k + 1] = y
      BY <1>2, <1>3, <1>5, <2>1
    <3>2. QED
      BY <1>1, <3>1
  <2>2. CASE k < n
    <3>1. k \in 1..(n - 1) /\ k + 1 \in 1..(n + 1) /\ k + 1 <= n
      BY <1>3, <1>5, <2>2
    <3>2. t[k] = s[k] /\ t[k + 1].body = s[k + 1].body
      BY <1>2, <1>3, <1>5, <2>2, <3>1
    <3>3. QED
      BY <1>3, <3>1, <3>2
  <2>3. QED
    BY <1>3, <1>5, <2>1, <2>2
<1>6. StackOk(t)
  BY <1>2, <1>4, <1>5, StackOver
<1>7. QED
  BY <1>6 DEF t, y

LEMMA PopOk ==
    ASSUME NEW s, StackOk(s), Len(s) > 1,
           NEW x \in FrameSet, FrameOk(x), x.body = Last(Front(s)).body
    PROVE  StackOk(Front(Front(s)) \o <<x>>)
<1> DEFINE t == Front(Front(s)) \o <<x>>
           n == Len(s)
<1>1. /\ t \in Seq(FrameSet) /\ Len(t) = n - 1 /\ Last(Front(s)) = s[n - 1]
      /\ \A k \in 1..(n - 1) : t[k] = IF k = n - 1 THEN x ELSE s[k]
  BY Popped, StackUnder
<1>2. /\ n \in Nat /\ \A k \in 1..n : FrameOk(s[k])
      /\ \A k \in 1..(n - 1) : Above(s[k], s[k + 1].body)
  BY StackUnder
<1> HIDE DEF t, n
<1>3. \A k \in 1..(n - 1) : FrameOk(t[k])
  BY <1>1, <1>2
<1>4. ASSUME NEW k \in 1..(n - 1), k < n - 1 PROVE Above(t[k], t[k + 1].body)
  <2>1. k + 1 \in 1..(n - 1) /\ k # n - 1
    BY <1>2, <1>4
  <2>2. t[k] = s[k] /\ t[k + 1].body = s[k + 1].body
    BY <1>1, <2>1
  <2>3. QED
    BY <1>2, <2>2
<1>5. StackOk(t)
  BY <1>1, <1>3, <1>4, StackOver
<1>6. QED
  BY <1>5 DEF t

-----------------------------------------------------------------------------
(***************************************************************************)
(* What one step makes of the activation it is about.                      *)
(***************************************************************************)
LEMMA TopOk ==
    ASSUME program \in Programs, StackOk(stack), stack # <<>>
    PROVE  /\ Top \in FrameSet /\ FrameOk(Top) /\ Top = stack[Len(stack)]
           /\ Top.body \in program.bodies
           /\ DOMAIN Top.body = 1..Len(Top.body) /\ Len(Top.body) \in Nat
<1>1. stack \in Seq(FrameSet)
  BY StackUnder
<1>2. Len(stack) \in 1..Len(stack)
  BY <1>1
<1>3. Top = stack[Len(stack)] /\ Top \in FrameSet /\ FrameOk(Top)
  BY <1>2, StackUnder DEF Top, Last
<1>4. Top.body \in program.bodies
  BY <1>3 DEF FrameSet
<1>5. Top.body \in Seq(Range(Top.body))
  BY <1>4, ProgramsAssumption
<1>6. QED
  BY <1>3, <1>4, <1>5

\* The effect is done and was no `return`.
LEMMA FollowingOk ==
    ASSUME NEW fr \in FrameSet, FrameOk(fr), fr.at # "unwind",
           fr.wave \in DOMAIN fr.body, DOMAIN fr.body = 1..Len(fr.body), Len(fr.body) \in Nat,
           EffectIn(fr).kind # "return"
    PROVE  /\ Following(fr) \in FrameSet /\ FrameOk(Following(fr))
           /\ Following(fr).body = fr.body
<1> DEFINE x == Following(fr)
<1>1. x \in FrameSet
  <2>1. fr.wave \in Nat \ {0} /\ fr.wave + 1 \in Nat \ {0}
    BY DEF FrameSet
  <2>2. "launch" \in Places
    BY DEF Places
  <2>3. QED
    BY <2>1, <2>2 DEF Following, FrameSet
<1>2. /\ x.body = fr.body /\ x.wave = fr.wave + 1 /\ x.at = "launch"
      /\ x.last = fr.last /\ x.returned = fr.returned
  BY DEF Following, FrameSet
<1>3. fr.wave \in Nat /\ (ArmsDoNotReturn => ~fr.returned)
  BY DEF FrameSet, FrameOk, Returning
<1> HIDE DEF x
<1>4. NotPassed(x)
  <2>1. \A i \in DOMAIN x.body : i < x.wave => i < fr.wave \/ i = fr.wave
    BY <1>2, <1>3
  <2>2. QED
    BY <1>2, <2>1 DEF NotPassed, FrameOk, EffectIn
<1>5. fr.wave + 1 <= Len(fr.body) + 1
  BY <1>3
<1>6. FrameOk(x)
  BY <1>2, <1>3, <1>4, <1>5 DEF FrameOk, WellPlaced, Returning, Justified
<1>7. QED
  BY <1>1, <1>2, <1>6 DEF x

LEMMA ValuedOk ==
    ASSUME NEW fr \in FrameSet, FrameOk(fr), fr.at # "unwind",
           fr.wave \in DOMAIN fr.body, DOMAIN fr.body = 1..Len(fr.body), Len(fr.body) \in Nat,
           EffectIn(fr).kind \in {"call", "match"}
    PROVE  Valued(fr) \in FrameSet /\ FrameOk(Valued(fr)) /\ Valued(fr).body = fr.body
<1> DEFINE g == Following(fr)
           x == [g EXCEPT !.last = TRUE]
<1>1. g \in FrameSet /\ FrameOk(g) /\ g.body = fr.body /\ g.at = "launch"
  BY FollowingOk DEF Following, FrameSet
<1> HIDE DEF g
<1>2. /\ x \in FrameSet /\ x.body = g.body /\ x.wave = g.wave /\ x.at = g.at
      /\ x.returned = g.returned
  BY <1>1 DEF FrameSet
<1> HIDE DEF x
<1>3. ArmsDoNotReturn => ~g.returned
  BY <1>1 DEF FrameOk, Returning
<1>4. \E i \in DOMAIN x.body : x.body[i].effect.kind \in {"call", "match"}
  BY <1>1, <1>2 DEF EffectIn
<1>5. WellPlaced(x) /\ NotPassed(x)
  BY <1>1, <1>2 DEF FrameOk, WellPlaced, NotPassed
<1>6. FrameOk(x)
  BY <1>1, <1>2, <1>3, <1>4, <1>5 DEF FrameOk, Returning, Justified
<1>7. QED
  BY <1>1, <1>2, <1>6 DEF Valued, x, g

\* Another place in the same wave.
LEMMA MovedOk ==
    ASSUME NEW fr \in FrameSet, FrameOk(fr), fr.at # "unwind",
           NEW x \in FrameSet, x.body = fr.body, x.wave = fr.wave, x.last = fr.last,
           x.returned = fr.returned, x.at # "unwind", WellPlaced(x)
    PROVE  FrameOk(x)
BY DEF FrameOk, NotPassed, Returning, Justified

\* The end of a nested body, in the activation that waits for it.
LEMMA ResumeOk ==
    ASSUME program \in Programs,
           NEW fr \in FrameSet, FrameOk(fr), NEW child \in FrameSet, FrameOk(child),
           Above(fr, child.body), child.at = "unwind"
    PROVE  /\ Resume(fr, child) \in FrameSet /\ FrameOk(Resume(fr, child))
           /\ Resume(fr, child).body = fr.body
<1> DEFINE e == EffectIn(fr)
           g == [fr EXCEPT !.returned = @ \/ (child.returned /\ e.kind # "call")]
<1>1. /\ fr.at = "inner" /\ (ArmsDoNotReturn => ~fr.returned) /\ fr.wave \in DOMAIN fr.body
      /\ fr.body \in program.bodies /\ child.body \in program.bodies
      /\ DOMAIN fr.body = 1..Len(fr.body) /\ Len(fr.body) \in Nat
      /\ fr.returned \in BOOLEAN /\ child.returned \in BOOLEAN /\ child.last \in BOOLEAN
  <2>1. fr.at = "inner" /\ (ArmsDoNotReturn => ~fr.returned) /\ fr.wave \in DOMAIN fr.body
    BY DEF Above, FrameOk, Returning, WellPlaced
  <2>2. fr.body \in program.bodies /\ child.body \in program.bodies
    BY DEF FrameSet
  <2>3. fr.body \in Seq(Range(fr.body))
    BY <2>2, ProgramsAssumption
  <2>4. QED
    BY <2>1, <2>2, <2>3 DEF FrameSet
<1>2. g \in FrameSet /\ g.body = fr.body /\ g.wave = fr.wave /\ g.at = fr.at /\ g.last = fr.last
      /\ (ArmsDoNotReturn => (g.returned <=> child.returned /\ e.kind # "call"))
  BY <1>1 DEF FrameSet
<1>3. Resume(fr, child) = IF e.kind # "for" THEN Valued(g)
                          ELSE IF CanReturn(e.body) /\ child.last
                               THEN [g EXCEPT !.at = "unwind", !.last = TRUE]
                               ELSE [g EXCEPT !.at = "loop"]
  BY DEF Resume, EffectIn, Returns
<1>4. ArmsDoNotReturn /\ child.returned => child.last /\ CanReturn(child.body)
  BY DEF FrameOk, Returning
<1>5. CASE e.kind \in {"call", "match"}
  <2>1. ArmsDoNotReturn => ~g.returned
    <3>1. CASE e.kind = "match"
      <4>1. child.body \in ArmBodies(e)
        BY <3>1 DEF Above, Nested
      <4>2. fr.body[fr.wave] \in Waves
        BY <1>1 DEF Waves
      <4>3. ArmsDoNotReturn => ~CanReturn(child.body)
        BY <3>1, <4>1, <4>2 DEF ArmsDoNotReturn, EffectIn
      <4>4. QED
        BY <1>2, <1>4, <4>3
    <3>2. QED
      BY <1>2, <1>5, <3>1
  <2>2. ArmsDoNotReturn => g = fr
    BY <1>1, <1>2, <2>1 DEF FrameSet
  <2>3. FrameOk(g) /\ g.at # "unwind"
    <3>1. WellPlaced(g) /\ NotPassed(g)
      BY <1>1, <1>2 DEF FrameOk, WellPlaced, NotPassed, EffectIn
    <3> HIDE DEF g
    <3>2. QED
      BY <1>1, <1>2, <2>2, <3>1 DEF FrameOk
  <2>4. EffectIn(g) = e
    BY <1>2 DEF EffectIn
  <2> HIDE DEF g, e
  <2>5. QED
    BY <1>1, <1>2, <1>3, <1>5, <2>3, <2>4, ValuedOk
<1>6. CASE e.kind = "for"
  <2>1. e.body = child.body
    BY <1>6 DEF Above, Nested
  <2>2. CASE CanReturn(e.body) /\ child.last
    <3> DEFINE x == [g EXCEPT !.at = "unwind", !.last = TRUE]
    <3>1. CanReturn(fr.body)
      <4> SUFFICES ASSUME NEW S \in SUBSET program.bodies,
                          \A c \in program.bodies :
                              DirectReturn(c) \/ Inside(c) \cap S # {} => c \in S
                   PROVE  fr.body \in S
        BY DEF CanReturn
      <4>1. child.body \in S
        BY <2>1, <2>2 DEF CanReturn
      <4>2. child.body \in Inside(fr.body)
        BY <1>1, <1>6, <2>1 DEF Inside, Nested, EffectIn
      <4>3. QED
        BY <1>1, <4>1, <4>2
    <3>2. ArmsDoNotReturn /\ LoopsReturnAlone => child.returned
      <4> SUFFICES ASSUME ArmsDoNotReturn, LoopsReturnAlone, ~child.returned PROVE FALSE
        BY <1>1
      <4>1. /\ child.wave > Len(child.body)
            /\ \E i \in DOMAIN child.body : child.body[i].effect.kind \in {"call", "match"}
        BY <2>2 DEF FrameOk, Justified
      <4>2. DirectReturn(child.body)
        BY <1>1, <2>1, <2>2, <4>1 DEF LoopsReturnAlone
      <4>3. child.wave \in Nat /\ DOMAIN child.body = 1..Len(child.body)
        <5>1. child.body \in Seq(Range(child.body))
          BY <1>1, ProgramsAssumption
        <5>2. QED
          BY <5>1 DEF FrameSet
      <4>4. \A i \in DOMAIN child.body : i < child.wave
        BY <4>1, <4>3
      <4>5. QED
        BY <4>2, <4>4 DEF DirectReturn, FrameOk, NotPassed
    <3>3. /\ x \in FrameSet /\ x.body = fr.body /\ x.wave = fr.wave /\ x.at = "unwind" /\ x.last
          /\ (ArmsDoNotReturn => (x.returned <=> child.returned))
      BY <1>2, <1>6 DEF FrameSet, Places
    <3> HIDE DEF x
    <3>4. FrameOk(x)
      BY <3>1, <3>2, <3>3 DEF FrameOk, WellPlaced, NotPassed, Returning, Justified
    <3>5. QED
      BY <1>3, <1>6, <2>2, <3>3, <3>4 DEF x
  <2>3. CASE ~(CanReturn(e.body) /\ child.last)
    <3> DEFINE x == [g EXCEPT !.at = "loop"]
    <3>1. ArmsDoNotReturn => ~child.returned
      BY <1>4, <2>1, <2>3
    <3>2. /\ x \in FrameSet /\ x.body = fr.body /\ x.wave = fr.wave /\ x.at = "loop"
          /\ x.last = fr.last /\ (ArmsDoNotReturn => x.returned = fr.returned)
      BY <1>1, <1>2, <3>1 DEF FrameSet, Places
    <3> HIDE DEF x
    <3>3. WellPlaced(x)
      BY <1>1, <1>6, <3>2 DEF WellPlaced, EffectIn
    <3>4. FrameOk(x)
      BY <1>1, <3>2, <3>3 DEF FrameOk, NotPassed, Returning, Justified
    <3>5. QED
      BY <1>3, <1>6, <2>3, <3>2, <3>4 DEF x
  <2>4. QED
    BY <2>2, <2>3
<1>7. QED
  BY <1>5, <1>6 DEF Above

-----------------------------------------------------------------------------
\* The program does not change while it runs.
LEMMA SameProgram ==
    ASSUME program' = program
    PROVE  \A s : StackOk(s)' <=> StackOk(s)
<1>1. \A b : CanReturn(b)' <=> CanReturn(b)
  BY DEF CanReturn
<1>2. FrameSet' = FrameSet /\ Waves' = Waves
  BY DEF FrameSet, Waves
<1>3. LoopsReturnAlone' <=> LoopsReturnAlone
  BY <1>1 DEF LoopsReturnAlone
<1>4. ArmsDoNotReturn' <=> ArmsDoNotReturn
  BY <1>1, <1>2 DEF ArmsDoNotReturn
<1>5. \A fr : FrameOk(fr)' <=> FrameOk(fr)
  BY <1>1, <1>3, <1>4 DEF FrameOk, Returning, Justified, WellPlaced, Retries, NotPassed, EffectIn
<1>6. \A s : StackOk(s)' <=> StackOk(s)
  BY <1>2, <1>5 DEF StackOk, Above, EffectIn
<1>7. QED
  BY <1>6

LEMMA InitReturn == Init => ReturnInv
<1> SUFFICES ASSUME Init PROVE program \in Programs /\ StackOk(stack)
  BY DEF ReturnInv
<1>1. program \in Programs /\ stack = <<Frame(program.main)>> /\ program.main \in program.bodies
  BY ProgramsAssumption DEF Init
<1> DEFINE b == program.main
           y == Frame(b)
<1>2. DOMAIN b = 1..Len(b) /\ Len(b) \in Nat
  BY <1>1, ProgramsAssumption
<1>3. 1 <= Len(b) + 1 /\ \A i \in DOMAIN b : ~(i < 1)
  BY <1>2
<1>4. y \in FrameSet /\ FrameOk(y)
  BY <1>1, <1>3 DEF Frame, FrameSet, Places, FrameOk, WellPlaced, NotPassed, Returning, Justified
<1> HIDE DEF y
<1>5. <<y>> \in Seq(FrameSet) /\ Len(<<y>>) = 1 /\ <<y>>[1] = y
  BY <1>4
<1>6. StackOk(<<y>>)
  <2>1. \A k \in 1..Len(<<y>>) : FrameOk(<<y>>[k]) /\ ~(k < Len(<<y>>))
    BY <1>4, <1>5
  <2>2. QED
    BY <1>5, <2>1, StackOver
<1>7. QED
  BY <1>1, <1>6 DEF y

LEMMA StepReturn == ReturnInv /\ [Next]_vars => ReturnInv'
<1> SUFFICES ASSUME program \in Programs, StackOk(stack), Next
             PROVE  StackOk(stack')
  <2>1. ASSUME ReturnInv, UNCHANGED vars PROVE ReturnInv'
    BY <2>1, SameProgram DEF ReturnInv, vars
  <2>2. ASSUME ReturnInv, Next PROVE program' = program
    BY <2>2 DEF Next, Run, Fail, Tasks, Launch, Join, Plain, Return, CallFlow, BeginMatch, ValueArm,
           BodyArm, RetryArm, Refetched, GiveUp, BeginLoop, NextItem, EndBody, Unwind, Send, Answer
  <2>3. QED
    BY <2>1, <2>2, SameProgram DEF ReturnInv
<1>1. CASE stack = <<>>
  <2>1. UNCHANGED stack \/ stack' = <<>>
    BY <1>1 DEF Next, Run, Fail, Tasks, Launch, Join, Plain, Return, CallFlow, BeginMatch, ValueArm,
           BodyArm, RetryArm, Refetched, GiveUp, BeginLoop, NextItem, EndBody, Unwind, Send, Answer,
           At, AtEffect
  <2>2. QED
    BY <1>1, <2>1
<1>2. CASE stack # <<>>
  <2> USE <1>2
  <2>1. /\ Top \in FrameSet /\ FrameOk(Top) /\ Top = stack[Len(stack)] /\ Top = Last(stack)
        /\ Top.body \in program.bodies
        /\ DOMAIN Top.body = 1..Len(Top.body) /\ Len(Top.body) \in Nat
        /\ Effect = EffectIn(Top)
    BY TopOk DEF Top, Effect, Wave, EffectIn
  <2>2. ASSUME NEW x \in FrameSet, FrameOk(x), x.body = Top.body, Become(x)
        PROVE  StackOk(stack')
    BY <2>1, <2>2, BecomeOk DEF Become
  <2>3. ASSUME NEW x \in FrameSet, FrameOk(x), x.body = Top.body,
               NEW b \in program.bodies, Above(x, b), Enter(x, b)
        PROVE  StackOk(stack')
    BY <2>1, <2>3, EnterOk DEF Enter
  <2>4. Top.at \notin {"launch", "unwind"} =>
           Top.wave \in DOMAIN Top.body /\ Nested(Effect) \subseteq program.bodies
    <3>1. Top.at \notin {"launch", "unwind"} => Top.wave \in DOMAIN Top.body
      BY <2>1 DEF FrameOk, WellPlaced
    <3>2. Inside(Top.body) \subseteq program.bodies
      BY <2>1, ProgramsAssumption
    <3>3. \A i \in DOMAIN Top.body : Nested(Top.body[i].effect) \subseteq Inside(Top.body)
      BY DEF Inside
    <3>4. QED
      BY <2>1, <3>1, <3>2, <3>3 DEF EffectIn
  <2>5. ASSUME NEW x \in FrameSet, WellPlaced(x), Become(x), Top.at # "unwind", x.at # "unwind",
               x.body = Top.body, x.wave = Top.wave, x.last = Top.last, x.returned = Top.returned
        PROVE  StackOk(stack')
    BY <2>1, <2>2, <2>5, MovedOk
  <2>6. CASE Launch
    <3> DEFINE x == [Top EXCEPT !.at = "join"]
    <3>1. /\ x \in FrameSet /\ x.body = Top.body /\ x.wave = Top.wave /\ x.at = "join"
          /\ x.last = Top.last /\ x.returned = Top.returned /\ Top.at = "launch" /\ Become(x)
          /\ Top.wave \in DOMAIN Top.body
      BY <2>1, <2>6 DEF Launch, At, FrameSet, Places
    <3> HIDE DEF x
    <3>2. QED
      BY <2>5, <3>1 DEF WellPlaced
  <2>7. CASE Join
    <3> DEFINE x == [Top EXCEPT !.at = "effect"]
    <3>1. /\ x \in FrameSet /\ x.body = Top.body /\ x.wave = Top.wave /\ x.at = "effect"
          /\ x.last = Top.last /\ x.returned = Top.returned /\ Top.at = "join" /\ Become(x)
      BY <2>1, <2>7 DEF Join, At, FrameSet, Places
    <3> HIDE DEF x
    <3>2. QED
      BY <2>4, <2>5, <3>1 DEF WellPlaced
  <2>8. CASE Plain
    <3>1. Top.at = "effect" /\ Effect.kind # "return" /\ Become(Following(Top))
      BY <2>8 DEF Plain, AtEffect, At
    <3>2. QED
      BY <2>1, <2>2, <2>4, <3>1, FollowingOk
  <2>9. CASE Return
    <3> DEFINE x == [Top EXCEPT !.at = "unwind", !.last = TRUE, !.returned = TRUE]
    <3>1. /\ x \in FrameSet /\ x.body = Top.body /\ x.wave = Top.wave /\ x.at = "unwind"
          /\ x.last /\ x.returned /\ Top.at = "effect" /\ Become(x) /\ Effect.kind = "return"
      BY <2>1, <2>9 DEF Return, AtEffect, At, FrameSet, Places
    <3> HIDE DEF x
    <3>2. CanReturn(Top.body)
      BY <2>1, <2>4, <3>1 DEF CanReturn, DirectReturn, EffectIn
    <3>3. FrameOk(x)
      BY <2>1, <3>1, <3>2 DEF FrameOk, WellPlaced, NotPassed, Returning, Justified
    <3>4. QED
      BY <2>2, <3>1, <3>3
  <2>10. ASSUME NEW x \in FrameSet, Top.at \in {"effect", "match", "loop"}, x.at = "inner",
                x.body = Top.body, x.wave = Top.wave, x.last = Top.last, x.returned = Top.returned,
                NEW b \in program.bodies, Enter(x, b),
                (Effect.kind = "call" /\ Effect.flow \in DOMAIN program.flows
                    /\ b = program.flows[Effect.flow])
                \/ (Effect.kind \in {"match", "for"} /\ b \in Nested(Effect))
         PROVE  StackOk(stack')
    <3>1. WellPlaced(x)
      BY <2>4, <2>10 DEF WellPlaced
    <3>2. FrameOk(x)
      BY <2>1, <2>10, <3>1, MovedOk
    <3>3. Above(x, b)
      BY <2>1, <2>10 DEF Above, EffectIn
    <3>4. QED
      BY <2>3, <2>10, <3>2, <3>3
  <2>11. CASE CallFlow
    <3>1. Top.at = "effect" /\ Effect.kind = "call"
      BY <2>11 DEF CallFlow, AtEffect, At
    <3>2. CASE Effect.flow \in DOMAIN program.flows
      <4> DEFINE x == [Top EXCEPT !.at = "inner"]
      <4>1. /\ x \in FrameSet /\ x.body = Top.body /\ x.wave = Top.wave /\ x.at = "inner"
            /\ x.last = Top.last /\ x.returned = Top.returned
        BY <2>1 DEF FrameSet, Places
      <4>2. Enter(x, program.flows[Effect.flow])
        BY <2>11, <3>2 DEF CallFlow
      <4> HIDE DEF x
      <4>3. program.flows[Effect.flow] \in program.bodies
        BY <3>2, ProgramsAssumption
      <4> DEFINE b == program.flows[Effect.flow]
      <4>4. b \in program.bodies /\ Enter(x, b) /\ b = program.flows[Effect.flow]
        BY <4>2, <4>3
      <4> HIDE DEF b
      <4>5. QED
        BY <2>10, <3>1, <3>2, <4>1, <4>4
    <3>3. CASE Effect.flow \notin DOMAIN program.flows
      <4>1. Become(Valued(Top))
        BY <2>11, <3>3 DEF CallFlow
      <4>2. QED
        BY <2>1, <2>2, <2>4, <3>1, <4>1, ValuedOk
    <3>4. QED
      BY <3>2, <3>3
  <2>12. CASE BeginMatch
    <3> DEFINE x == [Top EXCEPT !.at = "match", !.attempt = 0]
    <3>1. /\ x \in FrameSet /\ x.body = Top.body /\ x.wave = Top.wave /\ x.at = "match"
          /\ x.last = Top.last /\ x.returned = Top.returned /\ Top.at = "effect" /\ Become(x)
          /\ Effect.kind = "match" /\ x.attempt = 0
      BY <2>1, <2>12 DEF BeginMatch, AtEffect, At, FrameSet, Places
    <3> HIDE DEF x
    <3>2. 0 <= MaxRetries
      BY RetryAssumption
    <3>3. QED
      BY <2>1, <2>4, <2>5, <3>1, <3>2 DEF WellPlaced, EffectIn
  <2>13. CASE ValueArm \/ GiveUp
    <3>1. Top.at = "match" /\ Become(Valued(Top))
      BY <2>13 DEF ValueArm, GiveUp, At
    <3>2. EffectIn(Top).kind = "match"
      BY <2>1, <3>1 DEF FrameOk, WellPlaced
    <3>3. QED
      BY <2>1, <2>2, <2>4, <3>1, <3>2, ValuedOk
  <2>14. CASE BodyArm
    <3> DEFINE x == [Top EXCEPT !.at = "inner"]
    <3>1. /\ x \in FrameSet /\ x.body = Top.body /\ x.wave = Top.wave /\ x.at = "inner"
          /\ x.last = Top.last /\ x.returned = Top.returned
      BY <2>1 DEF FrameSet, Places
    <3>2. PICK k \in DOMAIN Effect.arms :
             Effect.arms[k].kind = "body" /\ Enter(x, Effect.arms[k].body)
      BY <2>14 DEF BodyArm, Arms
    <3>3. Top.at = "match" /\ Effect.kind = "match"
      BY <2>1, <2>14 DEF BodyArm, At, FrameOk, WellPlaced
    <3>4. Effect.arms[k].body \in Nested(Effect)
      BY <3>2, <3>3 DEF Nested, ArmBodies
    <3> HIDE DEF x
    <3>5. QED
      BY <2>4, <2>10, <3>1, <3>2, <3>3, <3>4
  <2>15. CASE RetryArm
    <3>1. /\ Top.at = "match" /\ EffectIn(Top).kind = "match" /\ Top.attempt < MaxRetries
          /\ \E k \in DOMAIN Effect.arms : Effect.arms[k].kind = "retry"
      BY <2>1, <2>15 DEF RetryArm, At, Arms, MoreAttempts, FrameOk, WellPlaced
    <3>2. PICK p \in {"match", "refetch"} :
             /\ Become([Top EXCEPT !.at = p, !.attempt = Top.attempt + 1])
             /\ p = "refetch" => Effect.fetched
      <4>1. CASE Effect.fetched
        BY <2>15, <4>1 DEF RetryArm
      <4>2. CASE ~Effect.fetched
        <5>1. [Top EXCEPT !.at = "match", !.attempt = Top.attempt + 1]
                 = [Top EXCEPT !.attempt = Top.attempt + 1]
          BY <2>1, <3>1 DEF FrameSet
        <5>2. QED
          BY <2>15, <4>2, <5>1 DEF RetryArm
      <4>3. QED
        BY <4>1, <4>2
    <3> DEFINE x == [Top EXCEPT !.at = p, !.attempt = Top.attempt + 1]
    <3>3. /\ x \in FrameSet /\ x.body = Top.body /\ x.wave = Top.wave /\ x.at = p
          /\ x.last = Top.last /\ x.returned = Top.returned /\ Become(x)
          /\ x.attempt = Top.attempt + 1
      <4>1. p \in Places /\ Top.attempt + 1 \in Nat
        BY <2>1 DEF FrameSet, Places
      <4>2. QED
        BY <2>1, <3>2, <4>1 DEF FrameSet
    <3> HIDE DEF x
    <3>4. x.attempt <= MaxRetries
      BY <2>1, <3>1, <3>3, RetryAssumption DEF FrameSet
    <3>5. EffectIn(x) = EffectIn(Top)
      BY <3>3 DEF EffectIn
    <3>6. x.wave \in DOMAIN x.body /\ (p = "refetch" => Retries(EffectIn(x)))
      BY <2>1, <2>4, <3>1, <3>2, <3>3, <3>5 DEF Retries
    <3>7. WellPlaced(x)
      BY <3>1, <3>3, <3>4, <3>5, <3>6 DEF WellPlaced
    <3>8. QED
      BY <2>5, <3>1, <3>3, <3>7
  <2>16. CASE Refetched
    <3> DEFINE x == [Top EXCEPT !.at = "match"]
    <3>1. /\ x \in FrameSet /\ x.body = Top.body /\ x.wave = Top.wave /\ x.at = "match"
          /\ x.last = Top.last /\ x.returned = Top.returned /\ Top.at = "refetch" /\ Become(x)
          /\ x.attempt = Top.attempt
      BY <2>1, <2>16 DEF Refetched, At, FrameSet, Places
    <3> HIDE DEF x
    <3>2. EffectIn(Top).kind = "match" /\ Top.attempt <= MaxRetries
      BY <2>1, <3>1 DEF FrameOk, WellPlaced
    <3>3. QED
      BY <2>4, <2>5, <3>1, <3>2 DEF WellPlaced, EffectIn
  <2>17. CASE BeginLoop
    <3>1. PICK n \in 0..MaxItems : Become([Top EXCEPT !.at = "loop", !.left = n])
      BY <2>17 DEF BeginLoop
    <3> DEFINE x == [Top EXCEPT !.at = "loop", !.left = n]
    <3>2. /\ x \in FrameSet /\ x.body = Top.body /\ x.wave = Top.wave /\ x.at = "loop"
          /\ x.last = Top.last /\ x.returned = Top.returned /\ Become(x)
      <4>1. "loop" \in Places /\ n \in Nat
        BY ItemsAssumption DEF Places
      <4>2. QED
        BY <2>1, <3>1, <4>1 DEF FrameSet
    <3> HIDE DEF x
    <3>3. Top.at = "effect" /\ Effect.kind = "for"
      BY <2>17 DEF BeginLoop, AtEffect, At
    <3>4. QED
      BY <2>1, <2>4, <2>5, <3>2, <3>3 DEF WellPlaced, EffectIn
  <2>18. CASE NextItem
    <3>1. Top.at = "loop" /\ Effect.kind = "for"
      BY <2>1, <2>18 DEF NextItem, At, FrameOk, WellPlaced
    <3>2. CASE Top.left = 0
      <4>1. Become(Following(Top))
        BY <2>18, <3>2 DEF NextItem
      <4>2. QED
        BY <2>1, <2>2, <2>4, <3>1, <4>1, FollowingOk
    <3>3. CASE Top.left # 0
      <4> DEFINE x == [Top EXCEPT !.at = "inner", !.left = @ - 1]
      <4>1. Enter(x, Effect.body)
        BY <2>18, <3>3 DEF NextItem
      <4>2. Top.left \in Nat /\ Top.left - 1 \in Nat
        BY <2>1, <3>3 DEF FrameSet
      <4>3. /\ x \in FrameSet /\ x.body = Top.body /\ x.wave = Top.wave /\ x.at = "inner"
            /\ x.last = Top.last /\ x.returned = Top.returned
        BY <2>1, <4>2 DEF FrameSet, Places
      <4> HIDE DEF x
      <4>4. Effect.body \in Nested(Effect)
        BY <3>1 DEF Nested
      <4>5. QED
        BY <2>4, <2>10, <3>1, <4>1, <4>3, <4>4
    <3>4. QED
      BY <3>2, <3>3
  <2>19. CASE EndBody
    <3> DEFINE x == [Top EXCEPT !.at = "unwind"]
    <3>1. /\ x \in FrameSet /\ x.body = Top.body /\ x.wave = Top.wave /\ x.at = "unwind"
          /\ x.last = Top.last /\ x.returned = Top.returned /\ Top.at = "launch" /\ Become(x)
          /\ Top.wave > Len(Top.body)
      BY <2>1, <2>19 DEF EndBody, At, FrameSet, Places
    <3> HIDE DEF x
    <3>2. FrameOk(x)
      BY <2>1, <3>1 DEF FrameOk, WellPlaced, NotPassed, Returning, Justified
    <3>3. QED
      BY <2>2, <3>1, <3>2
  <2>20. StackOk(<<>>)
    <3>1. <<>> \in Seq(FrameSet) /\ Len(<<>>) = 0
      OBVIOUS
    <3>2. \A k \in 1..Len(<<>>) : FALSE
      BY <3>1
    <3>3. QED
      BY <3>1, <3>2, StackOver
  <2>21. CASE Unwind
    <3>1. CASE Len(stack) = 1
      BY <2>20, <2>21, <3>1 DEF Unwind
    <3>2. CASE Len(stack) # 1
      <4>1. stack \in Seq(FrameSet) /\ Len(stack) \in Nat /\ Len(stack) > 1
        <5>1. stack \in Seq(FrameSet)
          BY StackUnder
        <5>2. QED
          BY <5>1, <3>2
      <4> DEFINE n == Len(stack)
                 fr == stack[n - 1]
      <4>2. n - 1 \in 1..n /\ n - 1 \in 1..(n - 1) /\ (n - 1) + 1 = n
        BY <4>1
      <4>3. fr \in FrameSet /\ FrameOk(fr) /\ Above(fr, Top.body)
        BY <2>1, <4>2, StackUnder
      <4>4. Last(Front(stack)) = fr
        BY <2>1, <4>1, Popped
      <4>5. Top.at = "unwind" /\ stack' = Front(Front(stack)) \o <<Resume(fr, Top)>>
        BY <2>21, <3>2, <4>4 DEF Unwind, At
      <4> DEFINE x == Resume(fr, Top)
      <4> HIDE DEF fr, n
      <4>6. x \in FrameSet /\ FrameOk(x) /\ x.body = fr.body
        BY <2>1, <4>3, <4>5, ResumeOk
      <4> HIDE DEF x
      <4>7. StackOk(Front(Front(stack)) \o <<x>>)
        BY <4>1, <4>4, <4>6, PopOk
      <4>8. QED
        BY <4>5, <4>7 DEF x
    <3>3. QED
      BY <3>1, <3>2
  <2>22. CASE Fail
    BY <2>20, <2>22 DEF Fail
  <2>23. CASE Tasks
    BY <2>23 DEF Tasks, Send, Answer
  <2>24. QED
    BY <2>6, <2>7, <2>8, <2>9, <2>11, <2>12, <2>13, <2>14, <2>15, <2>16, <2>17, <2>18, <2>19,
       <2>21, <2>22, <2>23 DEF Next, Run
<1>3. QED
  BY <1>1, <1>2

LEMMA AlwaysReturnInv == Spec => []ReturnInv
<1>1. Init => ReturnInv
  BY InitReturn
<1>2. ReturnInv /\ [Next]_vars => ReturnInv'
  BY StepReturn
<1>3. QED
  BY <1>1, <1>2, PTL DEF Spec

-----------------------------------------------------------------------------
(***************************************************************************)
(* An activation that executed a `return` does nothing more, for every     *)
(* program and every depth of nesting (exec.rs, `return Ok(r)` in a loop). *)
(***************************************************************************)
THEOREM NothingAfterAReturn == Spec => []ReturnIsLast
<1>1. ReturnInv => ReturnIsLast
  BY DEF ReturnInv, ReturnIsLast, StackOk, FrameOk, Returning
<1>2. QED
  BY <1>1, AlwaysReturnInv, PTL

(***************************************************************************)
(* A body is left at its end or by a `return`, so a loop visits every      *)
(* element otherwise.                                                      *)
(***************************************************************************)
THEOREM NoBodyIsCutShort == Spec => []LeftForAReason
<1>1. ReturnInv => LeftForAReason
  BY DEF ReturnInv, LeftForAReason, StackOk, FrameOk, Justified
<1>2. QED
  BY <1>1, AlwaysReturnInv, PTL
=============================================================================
