----------------------------- MODULE HttpProofs -----------------------------
(***************************************************************************)
(* What the request loop promises for any number of concurrent calls, any  *)
(* TTL, timeout and retry count: how often the service can see a request,  *)
(* and how old a cached answer can be.  The invariant relates the number   *)
(* of times a request was handled to the attempt the loop is at, and every *)
(* time stamp to the attempt it belongs to.                                *)
(***************************************************************************)
EXTENDS HttpEngine, FiniteSetTheorems, TLAPS

Ready == {"start", "wire", "backoff"}   \* the current attempt was not handled yet

AttemptsCount ==
    \A c \in Caller :
        /\ pc[c] = "start" => attempt[c] = 0
        /\ attempt[c] > 0 => RetrySafe(c)
        /\ handled[c] <= IF pc[c] \in Ready THEN attempt[c] ELSE attempt[c] + 1

Fresh(exp, value) == exp <= value.at + Timeout + Ttl

Stamped ==
    /\ \A c \in Caller :
           /\ pc[c] \in Out => sentAt[c] <= now /\ now <= sentAt[c] + Timeout
           /\ pc[c] = "reply" => sentAt[c] <= body[c].at
           /\ pc[c] = "store" => Fresh(expiry[c], body[c])
           /\ pc[c] \in {"reply", "store"} => body[c] \in Body
    /\ \A k \in Key : /\ Fresh(cache[k].exp, cache[k].value)
                      /\ cache[k] = NoEntry \/ cache[k].value \in Body

HttpInv == HttpTypeOK /\ AttemptsCount /\ Stamped /\ HitIsFresh

LEMMA InitHttp == HttpInit => HttpInv
<1> SUFFICES ASSUME HttpInit PROVE HttpInv
    OBVIOUS
<1> USE HttpAssumption
<1>1. NoBody \in Body \cup {NoBody} /\ NoBody.at = 0
    BY DEF NoBody
<1>2. HttpTypeOK
    BY <1>1 DEF HttpInit, HttpTypeOK, Outcome, Pending, NoEntry
<1>3. AttemptsCount
    BY DEF HttpInit, AttemptsCount, Ready
<1>4. Stamped
    BY <1>1 DEF HttpInit, Stamped, Out, Fresh, NoEntry
<1>5. HitIsFresh
    BY DEF HttpInit, HitIsFresh, Pending
<1> QED BY <1>2, <1>3, <1>4, <1>5 DEF HttpInv

-----------------------------------------------------------------------------
LEMMA RequestFields ==
    ASSUME HttpTypeOK, NEW c \in Caller
    PROVE  req[c].key \in Key /\ req[c].method \in {"GET", "HEAD", "POST"} /\ req[c].idem \in BOOLEAN
<1>1. req[c] \in RequestType
    BY HttpAssumption DEF HttpTypeOK
<1> QED BY <1>1 DEF RequestType

LEMMA BodyFields == ASSUME NEW v \in Body PROVE v.at \in 0..MaxTime
PROOF BY DEF Body

LEMMA CountType ==
    ASSUME NEW m \in [{"requests", "cache_hits", "retries", "errors"} -> Nat],
           NEW f \in {"requests", "cache_hits", "retries", "errors"}
    PROVE  Count(m, f) \in [{"requests", "cache_hits", "retries", "errors"} -> Nat]
PROOF BY DEF Count

\* An attempt ends: back to the loop, or out of it.
LEMMA EndOfAttempt ==
    ASSUME HttpInv, NEW c \in Caller, pc[c] \in Out,
           \/ MayRetry(c) /\ Retry(c)
           \/ \E variant \in {"Busy", "Refused", "Unreachable"} : GiveUp(c, variant),
           UNCHANGED <<now, req, cache, handled>>
    PROVE  HttpInv'
<1> USE HttpAssumption DEF HttpInv
<1>1. /\ sentAt' = [sentAt EXCEPT ![c] = 0]
      /\ body' = [body EXCEPT ![c] = NoBody]
      /\ expiry' = [expiry EXCEPT ![c] = 0]
    BY DEF Retry, GiveUp, Return, Forget
<1>2. metrics' \in [{"requests", "cache_hits", "retries", "errors"} -> Nat]
    BY CountType DEF Retry, GiveUp, HttpTypeOK
<1>3. \/ /\ pc' = [pc EXCEPT ![c] = "backoff"] /\ outcome' = outcome
         /\ attempt' = [attempt EXCEPT ![c] = @ + 1]
         /\ attempt[c] < Retries /\ RetrySafe(c)
      \/ /\ pc' = [pc EXCEPT ![c] = "done"] /\ attempt' = attempt
         /\ \E variant \in {"Busy", "Refused", "Unreachable"} :
                outcome' = [outcome EXCEPT ![c] = [tag |-> "failure", variant |-> variant]]
    BY DEF Retry, GiveUp, Return, MayRetry, AttemptsLeft
<1>4. HttpTypeOK'
    <2>1. outcome' \in [Caller -> Outcome]
        BY <1>3 DEF HttpTypeOK, Outcome
    <2>2. pc' \in [Caller -> {"start", "wire", "reply", "store", "backoff", "done"}]
        BY <1>3 DEF HttpTypeOK
    <2>3. attempt' \in [Caller -> 0..Retries]
        BY <1>3 DEF HttpTypeOK
    <2>4. /\ body' \in [Caller -> Body \cup {NoBody}] /\ sentAt' \in [Caller -> 0..MaxTime]
          /\ expiry' \in [Caller -> 0..(MaxTime + Ttl)]
        BY <1>1 DEF HttpTypeOK
    <2> QED BY <1>2, <2>1, <2>2, <2>3, <2>4 DEF HttpTypeOK
<1>5. AttemptsCount'
    BY <1>3 DEF AttemptsCount, HttpTypeOK, Ready, Out, RetrySafe, Cacheable
<1>6. Stamped'
    BY <1>1, <1>3 DEF Stamped, HttpTypeOK, Out, Fresh
<1>7. HitIsFresh'
    BY <1>3 DEF HitIsFresh, HttpTypeOK
<1> QED BY <1>4, <1>5, <1>6, <1>7

LEMMA CacheHitStep == \A c \in Caller : HttpInv /\ CacheHit(c) => HttpInv'
<1> SUFFICES ASSUME NEW c \in Caller, HttpInv, CacheHit(c) PROVE HttpInv'
    OBVIOUS
<1> USE HttpAssumption DEF HttpInv
<1> DEFINE entry == cache[req[c].key]
<1>1. /\ now < entry.exp /\ entry.value \in Body /\ entry.value.at \in 0..MaxTime
      /\ entry.exp \in Nat /\ entry.exp <= entry.value.at + Timeout + Ttl
    BY RequestFields, BodyFields DEF CacheHit, CacheGet, HttpTypeOK, Stamped, Fresh
<1>2. metrics' \in [{"requests", "cache_hits", "retries", "errors"} -> Nat]
    BY CountType DEF CacheHit, HttpTypeOK
<1>3. /\ pc' = [pc EXCEPT ![c] = "done"]
      /\ outcome' = [outcome EXCEPT ![c] = Success("cache", entry.value)]
      /\ UNCHANGED <<now, req, attempt, cache, handled>>
    BY DEF CacheHit, Return
<1>4. HttpTypeOK'
    <2>1. Success("cache", entry.value) \in Outcome
        BY <1>1 DEF Success, Outcome, HttpTypeOK
    <2>2. outcome' \in [Caller -> Outcome]
        BY <1>3, <2>1 DEF HttpTypeOK
    <2>3. /\ body' \in [Caller -> Body \cup {NoBody}] /\ sentAt' \in [Caller -> 0..MaxTime]
          /\ expiry' \in [Caller -> 0..(MaxTime + Ttl)]
        BY DEF CacheHit, Return, Forget, HttpTypeOK
    <2> QED BY <1>2, <1>3, <2>2, <2>3 DEF HttpTypeOK
<1>5. AttemptsCount'
    BY <1>3 DEF AttemptsCount, HttpTypeOK, Ready, RetrySafe, Cacheable
<1>6. Stamped'
    BY <1>3 DEF CacheHit, Return, Forget, Stamped, HttpTypeOK, Out, Fresh
<1>7. HitIsFresh'
    <2>1. Success("cache", entry.value).at < Success("cache", entry.value).body.at + Timeout + Ttl
        BY <1>1 DEF Success, HttpTypeOK
    <2> QED BY <1>3, <2>1 DEF HitIsFresh, HttpTypeOK
<1> QED BY <1>4, <1>5, <1>6, <1>7

LEMMA TransmitStep ==
    ASSUME HttpInv, NEW c \in Caller, pc[c] \in {"start", "backoff"}, Transmit(c),
           UNCHANGED <<now, req, attempt, body, expiry, outcome, cache, handled>>
    PROVE  HttpInv'
<1> USE HttpAssumption DEF HttpInv
<1>1. metrics' \in [{"requests", "cache_hits", "retries", "errors"} -> Nat]
    BY CountType DEF Transmit, HttpTypeOK
<1>2. HttpTypeOK'
    BY <1>1 DEF Transmit, HttpTypeOK
<1>3. AttemptsCount'
    BY DEF Transmit, AttemptsCount, HttpTypeOK, Ready, RetrySafe, Cacheable
<1>4. Stamped' /\ HitIsFresh'
    BY DEF Transmit, Stamped, HitIsFresh, HttpTypeOK, Out, Fresh
<1> QED BY <1>2, <1>3, <1>4

LEMMA HandleStep == \A c \in Caller : HttpInv /\ Handle(c) => HttpInv'
<1> SUFFICES ASSUME NEW c \in Caller, HttpInv, Handle(c) PROVE HttpInv'
    OBVIOUS
<1> USE HttpAssumption DEF HttpInv
<1> DEFINE b == [method |-> req[c].method, at |-> now, whole |-> TRUE]
<1>1. b \in Body /\ b.at = now /\ body' = [body EXCEPT ![c] = b]
    BY RequestFields DEF Handle, Body, HttpTypeOK
<1>2. HttpTypeOK'
    BY <1>1 DEF Handle, HttpTypeOK
<1>3. AttemptsCount'
    BY DEF Handle, AttemptsCount, HttpTypeOK, Ready, RetrySafe, Cacheable
<1>4. Stamped' /\ HitIsFresh'
    BY <1>1 DEF Handle, Stamped, HitIsFresh, HttpTypeOK, Out, Fresh
<1> QED BY <1>2, <1>3, <1>4

LEMMA TickStep == HttpInv /\ Tick => HttpInv'
<1> SUFFICES ASSUME HttpInv, Tick PROVE HttpInv'
    OBVIOUS
<1> USE HttpAssumption DEF HttpInv
<1>1. HttpTypeOK'
    BY DEF Tick, HttpTypeOK
<1>2. AttemptsCount'
    BY DEF Tick, AttemptsCount, RetrySafe, Cacheable
<1>3. Stamped' /\ HitIsFresh'
    BY DEF Tick, Stamped, HitIsFresh, HttpTypeOK, Out, Fresh
<1> QED BY <1>1, <1>2, <1>3

\* A 2xx reply becomes the outcome, or is to be stored first.
LEMMA ReplyOkStep == \A c \in Caller : HttpInv /\ ReplyOk(c) => HttpInv'
<1> SUFFICES ASSUME NEW c \in Caller, HttpInv, ReplyOk(c) PROVE HttpInv'
    OBVIOUS
<1> USE HttpAssumption DEF HttpInv
<1>1. PICK whole \in BOOLEAN :
          LET text == [method |-> body[c].method, at |-> body[c].at, whole |-> whole]
          IN  IF Cacheable(c) /\ Ttl > 0
              THEN /\ body' = [body EXCEPT ![c] = text]
                   /\ expiry' = [expiry EXCEPT ![c] = now + Ttl]
                   /\ sentAt' = [sentAt EXCEPT ![c] = 0]
                   /\ pc' = [pc EXCEPT ![c] = "store"]
                   /\ UNCHANGED outcome
              ELSE Return(c, Success("wire", text))
    BY DEF ReplyOk
<1> DEFINE text == [method |-> body[c].method, at |-> body[c].at, whole |-> whole]
<1>2. /\ body[c] \in Body /\ text \in Body /\ text.at = body[c].at /\ text.at \in 0..MaxTime
      /\ pc[c] = "reply" /\ UNCHANGED <<now, req, attempt, cache, metrics, handled>>
    BY BodyFields DEF ReplyOk, Stamped, Body
<1>3. CASE Cacheable(c) /\ Ttl > 0
    <2>1. /\ body' = [body EXCEPT ![c] = text]
          /\ expiry' = [expiry EXCEPT ![c] = now + Ttl]
          /\ sentAt' = [sentAt EXCEPT ![c] = 0]
          /\ pc' = [pc EXCEPT ![c] = "store"]
          /\ outcome' = outcome
        BY <1>1, <1>3
    <2>2. Fresh(now + Ttl, text)
        BY <1>2 DEF Fresh, Stamped, Out, HttpTypeOK
    <2> HIDE DEF text
    <2>3. HttpTypeOK'
        BY <1>2, <2>1 DEF HttpTypeOK
    <2>4. AttemptsCount' /\ HitIsFresh'
        BY <1>2, <2>1 DEF AttemptsCount, HitIsFresh, HttpTypeOK, Ready, RetrySafe, Cacheable
    <2>5. Stamped'
        BY <1>2, <2>1, <2>2 DEF Stamped, HttpTypeOK, Out, Fresh
    <2> QED BY <2>3, <2>4, <2>5
<1>4. CASE ~(Cacheable(c) /\ Ttl > 0)
    <2>1. /\ body' = [body EXCEPT ![c] = NoBody]
          /\ expiry' = [expiry EXCEPT ![c] = 0]
          /\ sentAt' = [sentAt EXCEPT ![c] = 0]
          /\ pc' = [pc EXCEPT ![c] = "done"]
          /\ outcome' = [outcome EXCEPT ![c] = Success("wire", text)]
        BY <1>1, <1>4 DEF Return, Forget
    <2>2. Success("wire", text) \in Outcome /\ Success("wire", text).from = "wire"
        BY <1>2 DEF Success, Outcome, HttpTypeOK
    <2> HIDE DEF text
    <2>3. HttpTypeOK'
        <3>1. outcome' \in [Caller -> Outcome]
            BY <2>1, <2>2 DEF HttpTypeOK
        <3> QED BY <1>2, <2>1, <3>1 DEF HttpTypeOK
    <2>4. AttemptsCount' /\ HitIsFresh'
        BY <1>2, <2>1, <2>2 DEF AttemptsCount, HitIsFresh, HttpTypeOK, Ready, RetrySafe, Cacheable
    <2>5. Stamped'
        BY <1>2, <2>1 DEF Stamped, HttpTypeOK, Out, Fresh
    <2> QED BY <2>3, <2>4, <2>5
<1> QED BY <1>3, <1>4

LEMMA StoreBodyStep == \A c \in Caller : HttpInv /\ StoreBody(c) => HttpInv'
<1> SUFFICES ASSUME NEW c \in Caller, HttpInv, StoreBody(c) PROVE HttpInv'
    OBVIOUS
<1> USE HttpAssumption DEF HttpInv
<1>1. /\ body' = [body EXCEPT ![c] = NoBody]
      /\ expiry' = [expiry EXCEPT ![c] = 0]
      /\ sentAt' = [sentAt EXCEPT ![c] = 0]
      /\ pc' = [pc EXCEPT ![c] = "done"]
      /\ outcome' = [outcome EXCEPT ![c] = Success("wire", body[c])]
      /\ cache' = [cache EXCEPT ![req[c].key] = [exp |-> expiry[c], value |-> body[c]]]
      /\ UNCHANGED <<now, req, attempt, metrics, handled>> /\ pc[c] = "store"
    BY DEF StoreBody, Return, Forget
<1>2. body[c] \in Body /\ Fresh(expiry[c], body[c]) /\ req[c].key \in Key
    BY <1>1, RequestFields DEF Stamped
<1>3. Success("wire", body[c]) \in Outcome /\ Success("wire", body[c]).from = "wire"
    BY <1>2 DEF Success, Outcome, HttpTypeOK
<1>4. HttpTypeOK'
    <2>1. outcome' \in [Caller -> Outcome]
        BY <1>1, <1>3 DEF HttpTypeOK
    <2>2. cache' \in [Key -> [exp : 0..(MaxTime + Ttl), value : Body \cup {NoBody}]]
        BY <1>1, <1>2 DEF HttpTypeOK
    <2> QED BY <1>1, <2>1, <2>2 DEF HttpTypeOK
<1>5. AttemptsCount' /\ HitIsFresh'
    BY <1>1, <1>3 DEF AttemptsCount, HitIsFresh, HttpTypeOK, Ready, RetrySafe, Cacheable
<1>6. Stamped'
    BY <1>1, <1>2 DEF Stamped, HttpTypeOK, Out, Fresh
<1> QED BY <1>4, <1>5, <1>6

LEMMA StutterHttp == HttpInv /\ UNCHANGED httpVars => HttpInv'
PROOF BY DEF httpVars, HttpInv, HttpTypeOK, AttemptsCount, Stamped, HitIsFresh, RetrySafe, Cacheable

LEMMA NextHttp == HttpInv /\ [HttpNext]_httpVars => HttpInv'
<1> SUFFICES ASSUME HttpInv, [HttpNext]_httpVars PROVE HttpInv'
    OBVIOUS
<1>1. ASSUME NEW c \in Caller, CacheMiss(c) \/ Wake(c) PROVE HttpInv'
    BY <1>1, TransmitStep DEF CacheMiss, Wake
<1>2. ASSUME NEW c \in Caller, ReplyBusy(c) \/ ReplyRefused(c) \/ SendFailed(c) PROVE HttpInv'
    <2>1. /\ pc[c] \in Out /\ UNCHANGED <<now, req, cache, handled>>
          /\ \/ MayRetry(c) /\ Retry(c)
             \/ \E variant \in {"Busy", "Refused", "Unreachable"} : GiveUp(c, variant)
        BY <1>2 DEF ReplyBusy, ReplyRefused, SendFailed, Out
    <2> QED BY <2>1, EndOfAttempt
<1> QED BY <1>1, <1>2, CacheHitStep, HandleStep, TickStep, ReplyOkStep, StoreBodyStep, StutterHttp
        DEF HttpNext, Call

LEMMA AlwaysHttp == HttpSpec => []HttpInv
PROOF BY InitHttp, NextHttp, PTL DEF HttpSpec

-----------------------------------------------------------------------------
\* A mutation without an idempotency key is never repeated, whatever is lost.
THEOREM MutationsAreNotRepeated == HttpSpec => []PlainMutationOnce
<1>1. HttpInv => PlainMutationOnce
    BY HttpAssumption DEF HttpInv, HttpTypeOK, AttemptsCount, PlainMutationOnce, RetrySafe,
                          Cacheable, Ready
<1> QED BY <1>1, AlwaysHttp, PTL

\* No request reaches the service more often than its declared retries allow.
THEOREM RetriesAreBounded == HttpSpec => []RetriesBounded
<1>1. HttpInv => RetriesBounded
    BY HttpAssumption DEF HttpInv, HttpTypeOK, AttemptsCount, RetriesBounded, Ready
<1> QED BY <1>1, AlwaysHttp, PTL

\* A cached answer is never older than the TTL and one timeout.
THEOREM CachedAnswersAreFresh == HttpSpec => []HitIsFresh
<1>1. HttpInv => HitIsFresh
    BY DEF HttpInv
<1> QED BY <1>1, AlwaysHttp, PTL

\* Counters, attempts and time stamps stay in range.
THEOREM HttpTypeCorrect == HttpSpec => []HttpTypeOK
<1>1. HttpInv => HttpTypeOK
    BY DEF HttpInv
<1> QED BY <1>1, AlwaysHttp, PTL
-----------------------------------------------------------------------------
(* The counters.  At any time the requests sent are the first attempts of  *)
(* the calls that left the cache without an answer and one per retry, less *)
(* those retries that still sleep.                                         *)
Hits    == {c \in Caller : outcome[c].tag = "success" /\ outcome[c].from = "cache"}
Failed  == {c \in Caller : outcome[c].tag = "failure"}
Asleep  == {c \in Caller : pc[c] = "backoff"}
Entered == {c \in Caller : pc[c] # "start"} \ Hits

Ended == \A c \in Caller : pc[c] = "done" <=> outcome[c].tag # "pending"
Tally ==
    /\ metrics.cache_hits = Cardinality(Hits)
    /\ metrics.errors = Cardinality(Failed)
    /\ metrics.requests + Cardinality(Asleep) = metrics.retries + Cardinality(Entered)

TallyInv == HttpInv /\ Ended /\ Tally

LEMMA CallersFinite ==
    ASSUME NEW S \in SUBSET Caller
    PROVE  IsFiniteSet(S) /\ Cardinality(S) \in Nat
PROOF BY HttpAssumption, FS_Subset, FS_CardinalityType

LEMMA OneMore ==
    ASSUME NEW S \in SUBSET Caller, NEW c \in Caller \ S
    PROVE  Cardinality(S \cup {c}) = Cardinality(S) + 1
PROOF BY CallersFinite, FS_AddElement

LEMMA OneLess ==
    ASSUME NEW S \in SUBSET Caller, NEW c \in S
    PROVE  Cardinality(S) = Cardinality(S \ {c}) + 1
<1>1. c \in Caller \ (S \ {c}) /\ S \ {c} \in SUBSET Caller /\ (S \ {c}) \cup {c} = S
    OBVIOUS
<1> QED BY <1>1, OneMore

LEMMA CallerSets == Hits \in SUBSET Caller /\ Failed \in SUBSET Caller
                    /\ Asleep \in SUBSET Caller /\ Entered \in SUBSET Caller
PROOF BY DEF Hits, Failed, Asleep, Entered

LEMMA CountOne ==
    ASSUME NEW m \in [{"requests", "cache_hits", "retries", "errors"} -> Nat],
           NEW f \in {"requests", "cache_hits", "retries", "errors"}
    PROVE  /\ Count(m, f)[f] = m[f] + 1
           /\ \A g \in {"requests", "cache_hits", "retries", "errors"} \ {f} : Count(m, f)[g] = m[g]
PROOF BY DEF Count

LEMMA InitTally == HttpInit => Ended /\ Tally
<1> SUFFICES ASSUME HttpInit PROVE Ended /\ Tally
    OBVIOUS
<1>1. Hits = {} /\ Failed = {} /\ Asleep = {} /\ Entered = {}
    BY DEF HttpInit, Pending, Hits, Failed, Asleep, Entered
<1>2. Cardinality({}) = 0
    BY FS_EmptySet
<1> QED BY <1>1, <1>2 DEF HttpInit, Pending, Ended, Tally

\* What one step of a call does to the sets that are counted.
LEMMA TallyHit ==
    ASSUME TallyInv, NEW c \in Caller, CacheHit(c)
    PROVE  Ended' /\ Tally'
<1> DEFINE res == Success("cache", cache[req[c].key].value)
<1>1. /\ pc[c] = "start" /\ pc' = [pc EXCEPT ![c] = "done"]
      /\ outcome' = [outcome EXCEPT ![c] = res] /\ res.tag = "success" /\ res.from = "cache"
      /\ metrics' = Count(metrics, "cache_hits")
    BY DEF CacheHit, Return, Success
<1> HIDE DEF res
<1>2. pc \in [Caller -> {"start", "wire", "reply", "store", "backoff", "done"}]
      /\ outcome \in [Caller -> Outcome]
      /\ metrics \in [{"requests", "cache_hits", "retries", "errors"} -> Nat]
    BY DEF TallyInv, HttpInv, HttpTypeOK
<1>3. outcome[c].tag = "pending"
    BY <1>1 DEF TallyInv, Ended
<1>4. Ended'
    BY <1>1, <1>2 DEF TallyInv, Ended
<1>5. c \notin Hits /\ Hits' = Hits \cup {c} /\ Failed' = Failed
      /\ Asleep' = Asleep /\ Entered' = Entered
    BY <1>1, <1>2, <1>3 DEF Hits, Failed, Asleep, Entered
<1> QED BY <1>1, <1>2, <1>4, <1>5, CallerSets, OneMore, CountOne DEF TallyInv, Tally

LEMMA TallySend ==
    ASSUME TallyInv, NEW c \in Caller, pc[c] \in {"start", "backoff"}, Transmit(c), outcome' = outcome
    PROVE  Ended' /\ Tally'
<1>1. pc' = [pc EXCEPT ![c] = "wire"] /\ metrics' = Count(metrics, "requests")
    BY DEF Transmit
<1>2. pc \in [Caller -> {"start", "wire", "reply", "store", "backoff", "done"}]
      /\ outcome \in [Caller -> Outcome]
      /\ metrics \in [{"requests", "cache_hits", "retries", "errors"} -> Nat]
    BY DEF TallyInv, HttpInv, HttpTypeOK
<1>3. outcome[c].tag = "pending"
    BY DEF TallyInv, Ended
<1>4. Ended' /\ Hits' = Hits /\ Failed' = Failed
    BY <1>1, <1>2, <1>3 DEF TallyInv, Ended, Hits, Failed
<1>5. metrics'.requests = metrics.requests + 1 /\ metrics'.retries = metrics.retries
      /\ metrics'.cache_hits = metrics.cache_hits /\ metrics'.errors = metrics.errors
    BY <1>1, <1>2, CountOne
<1>6. CASE pc[c] = "start"
    <2>1. c \notin Entered /\ Entered' = Entered \cup {c} /\ Asleep' = Asleep
        BY <1>1, <1>2, <1>3, <1>6 DEF Hits, Asleep, Entered
    <2>2. Cardinality(Entered') = Cardinality(Entered) + 1
        BY <2>1, CallerSets, OneMore
    <2> QED BY <1>2, <1>4, <1>5, <2>1, <2>2, CallerSets, CallersFinite DEF TallyInv, Tally
<1>7. CASE pc[c] = "backoff"
    <2>1. c \in Asleep /\ Asleep' = Asleep \ {c} /\ Entered' = Entered
        BY <1>1, <1>2, <1>3, <1>7 DEF Hits, Asleep, Entered
    <2>2. Cardinality(Asleep) = Cardinality(Asleep') + 1
        BY <2>1, CallerSets, OneLess
    <2>3. Cardinality(Asleep') \in Nat
        BY <2>1, CallerSets, CallersFinite
    <2> QED BY <1>2, <1>4, <1>5, <2>1, <2>2, <2>3, CallerSets, CallersFinite DEF TallyInv, Tally
<1> QED BY <1>6, <1>7

LEMMA TallyRetry ==
    ASSUME TallyInv, NEW c \in Caller, pc[c] \in Out, Retry(c)
    PROVE  Ended' /\ Tally'
<1>1. pc' = [pc EXCEPT ![c] = "backoff"] /\ metrics' = Count(metrics, "retries") /\ outcome' = outcome
    BY DEF Retry
<1>2. pc \in [Caller -> {"start", "wire", "reply", "store", "backoff", "done"}]
      /\ metrics \in [{"requests", "cache_hits", "retries", "errors"} -> Nat]
    BY DEF TallyInv, HttpInv, HttpTypeOK
<1>3. outcome[c].tag = "pending"
    BY DEF TallyInv, Ended, Out
<1>4. Ended' /\ Hits' = Hits /\ Failed' = Failed
    BY <1>1, <1>2, <1>3 DEF TallyInv, Ended, Hits, Failed
<1>5. c \notin Asleep /\ Asleep' = Asleep \cup {c} /\ Entered' = Entered
    BY <1>1, <1>2, <1>3 DEF Out, Hits, Asleep, Entered
<1>6. Cardinality(Asleep') = Cardinality(Asleep) + 1
    BY <1>5, CallerSets, OneMore
<1>7. metrics'.retries = metrics.retries + 1 /\ metrics'.requests = metrics.requests
      /\ metrics'.cache_hits = metrics.cache_hits /\ metrics'.errors = metrics.errors
    BY <1>1, <1>2, CountOne
<1> QED BY <1>2, <1>4, <1>5, <1>6, <1>7, CallerSets, CallersFinite DEF TallyInv, Tally

LEMMA TallyGiveUp ==
    ASSUME TallyInv, NEW c \in Caller, pc[c] \in Out, NEW v, GiveUp(c, v)
    PROVE  Ended' /\ Tally'
<1> DEFINE res == [tag |-> "failure", variant |-> v]
<1>1. pc' = [pc EXCEPT ![c] = "done"] /\ metrics' = Count(metrics, "errors")
      /\ outcome' = [outcome EXCEPT ![c] = res] /\ res.tag = "failure"
    BY DEF GiveUp, Return
<1> HIDE DEF res
<1>2. pc \in [Caller -> {"start", "wire", "reply", "store", "backoff", "done"}]
      /\ outcome \in [Caller -> Outcome]
      /\ metrics \in [{"requests", "cache_hits", "retries", "errors"} -> Nat]
    BY DEF TallyInv, HttpInv, HttpTypeOK
<1>3. outcome[c].tag = "pending"
    BY DEF TallyInv, Ended, Out
<1>4. Ended'
    BY <1>1, <1>2 DEF TallyInv, Ended
<1>5. c \notin Failed /\ Failed' = Failed \cup {c} /\ Hits' = Hits
      /\ Asleep' = Asleep /\ Entered' = Entered
    BY <1>1, <1>2, <1>3 DEF Out, Hits, Failed, Asleep, Entered
<1>6. Cardinality(Failed') = Cardinality(Failed) + 1
    BY <1>5, CallerSets, OneMore
<1>7. metrics'.errors = metrics.errors + 1 /\ metrics'.requests = metrics.requests
      /\ metrics'.cache_hits = metrics.cache_hits /\ metrics'.retries = metrics.retries
    BY <1>1, <1>2, CountOne
<1> QED BY <1>4, <1>5, <1>6, <1>7 DEF TallyInv, Tally

\* A step that takes a call past neither the cache nor a failure counts nothing.
LEMMA TallyQuiet ==
    ASSUME TallyInv, NEW c \in Caller, metrics' = metrics, pc[c] \in Out \cup {"store"},
           \/ outcome' = outcome /\ \E p \in {"wire", "reply", "store"} : pc' = [pc EXCEPT ![c] = p]
           \/ /\ pc' = [pc EXCEPT ![c] = "done"]
              /\ \E text : outcome' = [outcome EXCEPT ![c] = Success("wire", text)]
    PROVE  Ended' /\ Tally'
<1>1. pc \in [Caller -> {"start", "wire", "reply", "store", "backoff", "done"}]
      /\ outcome \in [Caller -> Outcome]
    BY DEF TallyInv, HttpInv, HttpTypeOK
<1>2. outcome[c].tag = "pending"
    BY DEF TallyInv, Ended, Out
<1>3. \A text : Success("wire", text).tag = "success" /\ Success("wire", text).from = "wire"
    BY DEF Success
<1>4. Ended'
    BY <1>1, <1>2, <1>3 DEF TallyInv, Ended, Out
<1>5. Hits' = Hits /\ Failed' = Failed
    BY <1>1, <1>2, <1>3 DEF Hits, Failed
<1>6. Asleep' = Asleep /\ Entered' = Entered
    BY <1>1, <1>5 DEF Asleep, Entered, Out
<1> QED BY <1>4, <1>5, <1>6 DEF TallyInv, Tally

LEMMA NextTally == TallyInv /\ [HttpNext]_httpVars => TallyInv'
<1> SUFFICES ASSUME TallyInv, [HttpNext]_httpVars PROVE Ended' /\ Tally'
    BY NextHttp DEF TallyInv
<1>1. CASE \E c \in Caller : CacheHit(c)
    BY <1>1, TallyHit
<1>2. CASE \E c \in Caller : CacheMiss(c) \/ Wake(c)
    BY <1>2, TallySend DEF CacheMiss, Wake
<1>3. CASE \E c \in Caller : ReplyBusy(c) \/ ReplyRefused(c) \/ SendFailed(c)
    BY <1>3, TallyRetry, TallyGiveUp DEF ReplyBusy, ReplyRefused, SendFailed, Out
<1>4. ASSUME NEW c \in Caller, ReplyOk(c) PROVE Ended' /\ Tally'
    BY <1>4, TallyQuiet DEF ReplyOk, Return, Out
<1>5. ASSUME NEW c \in Caller, StoreBody(c) PROVE Ended' /\ Tally'
    BY <1>5, TallyQuiet DEF StoreBody, Return
<1>6. ASSUME NEW c \in Caller, Handle(c) PROVE Ended' /\ Tally'
    BY <1>6, TallyQuiet DEF Handle, Out
<1>7. CASE Tick \/ UNCHANGED httpVars
    BY <1>7 DEF Tick, httpVars, TallyInv, Ended, Tally, Hits, Failed, Asleep, Entered
<1> QED BY <1>1, <1>2, <1>3, <1>4, <1>5, <1>6, <1>7 DEF HttpNext, Call

\* Once every call has returned, the counters account for every request,
\* retry, cache hit and error, however the calls interleaved.
THEOREM TheCountersAddUp == HttpSpec => []CountersAddUp
<1>1. HttpInit => TallyInv
    BY InitHttp, InitTally DEF TallyInv
<1>2. TallyInv => CountersAddUp
    <2> SUFFICES ASSUME TallyInv, \A c \in Caller : pc[c] = "done"
                 PROVE  /\ metrics.cache_hits = Cardinality(Hits)
                        /\ metrics.errors = Cardinality(Failed)
                        /\ metrics.requests = metrics.retries + Cardinality(Caller \ Hits)
        BY DEF CountersAddUp, Hits, Failed
    <2>1. Asleep = {} /\ Entered = Caller \ Hits
        BY DEF Asleep, Entered
    <2>2. Cardinality({}) = 0
        BY FS_EmptySet
    <2> QED BY <2>1, <2>2 DEF TallyInv, Tally, HttpInv, HttpTypeOK
<1> QED BY <1>1, <1>2, NextTally, PTL DEF HttpSpec
-----------------------------------------------------------------------------
(* A call ends: the steps it can still take are counted down.              *)

StepsOf(stage) == CASE stage = "backoff" -> 4
                    [] stage = "start"   -> 4
                    [] stage = "wire"    -> 3
                    [] stage = "reply"   -> 2
                    [] stage = "store"   -> 1
                    [] stage = "done"    -> 0

\* What call c has before it, if every attempt that is left fails late.
CallLeft(c) == 4 * (Retries - attempt[c]) + StepsOf(pc[c])

\* No step of the service, of the clock or of another call adds to it, and each
\* of its own takes from it.
CallsCountDown ==
    \A c \in Caller :
        /\ CallLeft(c)' <= CallLeft(c)
        /\ Call(c) \/ Handle(c) => CallLeft(c)' < CallLeft(c)

\* One caller goes to another stage, in the same attempt or in the next one.
LEMMA CallGoesOn ==
    ASSUME HttpTypeOK, NEW c \in Caller, NEW p \in {"wire", "reply", "store", "backoff", "done"},
           pc' = [pc EXCEPT ![c] = p],
           \/ attempt' = attempt /\ StepsOf(p) < StepsOf(pc[c])
           \/ attempt' = [attempt EXCEPT ![c] = @ + 1] /\ pc[c] \in Out
    PROVE  CallLeft(c)' < CallLeft(c) /\ \A d \in Caller \ {c} : CallLeft(d)' = CallLeft(d)
<1>1. Retries \in Nat /\ \A d \in Caller : attempt[d] \in 0..Retries
    BY HttpAssumption DEF HttpTypeOK
<1>2. pc[c]' = p /\ \A d \in Caller \ {c} : pc[d]' = pc[d] /\ attempt[d]' = attempt[d]
    BY DEF HttpTypeOK
<1>3. \A d \in Caller \ {c} : CallLeft(d)' = CallLeft(d)
    BY <1>2 DEF CallLeft
<1>4. CallLeft(c)' < CallLeft(c)
    <2>1. attempt[c]' = attempt[c] \/ (attempt[c]' = attempt[c] + 1 /\ pc[c] \in Out)
        BY DEF HttpTypeOK
    <2>2. StepsOf(p) \in 0..4 /\ StepsOf(pc[c]) \in 0..4 /\ (pc[c] \in Out => StepsOf(pc[c]) >= 2)
        BY DEF HttpTypeOK, StepsOf, Out
    <2>3. CASE attempt[c]' = attempt[c]
        <3>1. StepsOf(p) < StepsOf(pc[c])
            BY <1>1, <2>1, <2>3 DEF HttpTypeOK
        <3> QED BY <1>1, <1>2, <2>2, <2>3, <3>1 DEF CallLeft
    <2>4. CASE attempt[c]' = attempt[c] + 1 /\ pc[c] \in Out
        BY <1>1, <1>2, <2>2, <2>4 DEF CallLeft
    <2> QED BY <2>1, <2>3, <2>4
<1> QED BY <1>3, <1>4

\* Every step of the engine counts down.
LEMMA NextCountsDown == HttpTypeOK /\ HttpTypeOK' /\ [HttpNext]_httpVars => CallsCountDown
<1> SUFFICES ASSUME HttpTypeOK, HttpTypeOK', [HttpNext]_httpVars PROVE CallsCountDown
    OBVIOUS
<1>1. \A c \in Caller : CallLeft(c) \in Int
    BY HttpAssumption DEF HttpTypeOK, CallLeft, StepsOf
<1>2. \A c \in Caller : CallLeft(c)' \in Int
    BY HttpAssumption DEF HttpTypeOK, CallLeft, StepsOf
<1>3. ASSUME NEW c \in Caller, Call(c) \/ Handle(c)
      PROVE  CallLeft(c)' < CallLeft(c) /\ \A d \in Caller \ {c} : CallLeft(d)' = CallLeft(d)
    <2>1. CASE CacheHit(c)
        <3>1. pc[c] = "start" /\ pc' = [pc EXCEPT ![c] = "done"] /\ attempt' = attempt
            BY <2>1 DEF CacheHit, Return
        <3>2. StepsOf("done") < StepsOf(pc[c])
            BY <3>1 DEF StepsOf
        <3> QED BY <3>1, <3>2, CallGoesOn
    <2>2. CASE CacheMiss(c) \/ Wake(c)
        BY <2>2, CallGoesOn DEF CacheMiss, Wake, Transmit, StepsOf
    <2>3. CASE ReplyOk(c)
        BY <2>3, CallGoesOn DEF ReplyOk, Return, StepsOf
    <2>4. CASE StoreBody(c)
        <3>1. pc[c] = "store" /\ pc' = [pc EXCEPT ![c] = "done"] /\ attempt' = attempt
            BY <2>4 DEF StoreBody, Return
        <3>2. StepsOf("done") < StepsOf(pc[c])
            BY <3>1 DEF StepsOf
        <3> QED BY <3>1, <3>2, CallGoesOn
    <2>5. CASE ReplyBusy(c) \/ SendFailed(c) \/ ReplyRefused(c)
        BY <2>5, CallGoesOn DEF ReplyBusy, SendFailed, ReplyRefused, Retry, GiveUp, Return, StepsOf, Out
    <2>6. CASE Handle(c)
        <3>1. pc[c] = "wire" /\ pc' = [pc EXCEPT ![c] = "reply"] /\ attempt' = attempt
            BY <2>6 DEF Handle
        <3>2. StepsOf("reply") < StepsOf(pc[c])
            BY <3>1 DEF StepsOf
        <3> QED BY <3>1, <3>2, CallGoesOn
    <2> QED BY <1>3, <2>1, <2>2, <2>3, <2>4, <2>5, <2>6 DEF Call
<1>4. CASE Tick \/ UNCHANGED httpVars
    <2>1. pc' = pc /\ attempt' = attempt
        BY <1>4 DEF Tick, httpVars
    <2>2. \A c \in Caller : CallLeft(c)' = CallLeft(c)
        BY <2>1 DEF CallLeft
    <2>3. \A c \in Caller : ~(Call(c) \/ Handle(c))
        <3>1. \A c \in Caller : Call(c) \/ Handle(c) => CallLeft(c)' < CallLeft(c)
            BY <1>3
        <3> QED BY <1>1, <2>2, <3>1
    <2> QED BY <1>1, <2>2, <2>3 DEF CallsCountDown
<1>5. CASE \E c \in Caller : Call(c) \/ Handle(c)
    <2>1. PICK c \in Caller : Call(c) \/ Handle(c)
        BY <1>5
    <2>2. CallLeft(c)' < CallLeft(c) /\ \A d \in Caller \ {c} : CallLeft(d)' = CallLeft(d)
        BY <1>3, <2>1
    <2>3. \A d \in Caller : Call(d) \/ Handle(d) => CallLeft(d)' < CallLeft(d)
        BY <1>3
    <2>4. ASSUME NEW d \in Caller PROVE CallLeft(d)' <= CallLeft(d)
        <3>1. CASE d = c
            <4>1. CallLeft(c) \in Int /\ CallLeft(c)' \in Int
                BY <1>1, <1>2
            <4> QED BY <2>2, <3>1, <4>1
        <3>2. CASE d # c
            BY <1>1, <2>2, <3>2
        <3> QED BY <3>1, <3>2
    <2> QED BY <2>3, <2>4 DEF CallsCountDown
<1> QED BY <1>4, <1>5 DEF HttpNext

\* A call takes at most 4 * (Retries + 1) steps, whatever the service answers
\* and the other calls do: what is left starts there, is never negative, never
\* grows, and shrinks with each step of the call.
THEOREM CallsAreBounded ==
    HttpSpec => /\ [](\A c \in Caller : CallLeft(c) \in 0..(4 * (Retries + 1)))
                /\ [][CallsCountDown]_httpVars
<1>1. HttpInv => \A c \in Caller : CallLeft(c) \in 0..(4 * (Retries + 1))
    <2> SUFFICES ASSUME HttpInv, NEW c \in Caller PROVE CallLeft(c) \in 0..(4 * (Retries + 1))
        OBVIOUS
    <2>1. Retries \in Nat /\ attempt[c] \in 0..Retries /\ StepsOf(pc[c]) \in 0..4
        BY HttpAssumption DEF HttpInv, HttpTypeOK, StepsOf
    <2> QED BY <2>1 DEF CallLeft
<1>2. HttpInv /\ [HttpNext]_httpVars => CallsCountDown
    BY NextCountsDown, NextHttp DEF HttpInv
<1> QED BY <1>1, <1>2, AlwaysHttp, PTL DEF HttpSpec
=============================================================================
