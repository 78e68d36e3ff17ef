----------------------------- MODULE HttpEngine -----------------------------
(***************************************************************************)
(* HttpEngine::request (http.rs) called by several tasks at once: the TTL  *)
(* cache they share, the retry loop and the counters.                      *)
(*                                                                         *)
(* The service and the network are the environment: a request may be lost  *)
(* before or after the service handled it, its body may break off, and it  *)
(* may be answered by any class of status.  A body is abstracted to the    *)
(* method it answers, the time the service wrote it and whether it arrived *)
(* whole.                                                                  *)
(***************************************************************************)
EXTENDS Integers, FiniteSets

CONSTANTS
    Caller,   \* the tasks that call request
    Key,      \* cache keys: URL and query, not the method
    Workload, \* what each of them asks for: a set of functions
    Ttl,      \* cache: ttl(..), 0 when the endpoint declares none
    Timeout,  \* timeout: ..
    Retries,  \* retry: ..
    MaxTime   \* bound on the clock

RequestType == [method : {"GET", "HEAD", "POST"}, key : Key, idem : BOOLEAN]

ASSUME HttpAssumption ==
    /\ Workload \subseteq [Caller -> RequestType]
    /\ IsFiniteSet(Caller)
    /\ Ttl \in Nat /\ Retries \in Nat /\ MaxTime \in Nat /\ Timeout \in Nat \ {0}

VARIABLES
    now,      \* the clock
    req,      \* what each caller asks for
    pc,       \* where its call stands
    attempt,  \* its local variable of that name
    sentAt,   \* when its last attempt was sent
    body,     \* the reply on its way to it, then the value it stores
    expiry,   \* the expiry it computed, before it takes the lock
    outcome,  \* what request returned
    cache,    \* HttpEngine::cache
    metrics,  \* HttpEngine::metrics
    handled   \* how often the service handled each caller's request

httpVars == <<now, req, pc, attempt, sentAt, body, expiry, outcome, cache,
              metrics, handled>>

Body == [method : {"GET", "HEAD", "POST"}, at : 0..MaxTime, whole : BOOLEAN]
NoBody == [method |-> "none", at |-> 0, whole |-> FALSE]
Pending == [tag |-> "pending"]
NoEntry == [exp |-> 0, value |-> NoBody]

\* GET | HEAD: the methods that are cached, and retried whatever they carry.
Cacheable(c) == req[c].method \in {"GET", "HEAD"}

Bug_RetriesEverything(c) == TRUE
RetrySafe(c) == Cacheable(c) \/ req[c].idem

HttpInit ==
    /\ now = 0
    /\ req \in Workload
    /\ pc = [c \in Caller |-> "start"]
    /\ attempt = [c \in Caller |-> 0]
    /\ sentAt = [c \in Caller |-> 0]
    /\ body = [c \in Caller |-> NoBody]
    /\ expiry = [c \in Caller |-> 0]
    /\ outcome = [c \in Caller |-> Pending]
    /\ cache = [k \in Key |-> NoEntry]
    /\ metrics = [requests |-> 0, cache_hits |-> 0, retries |-> 0, errors |-> 0]
    /\ handled = [c \in Caller |-> 0]

\* fetch_add
Bug_CountsFirstOnly(m, field) == [m EXCEPT ![field] = 1]
Count(m, field) == [m EXCEPT ![field] = @ + 1]

\* The attempt is over and its locals are gone.
Forget(c) ==
    /\ sentAt' = [sentAt EXCEPT ![c] = 0]
    /\ body' = [body EXCEPT ![c] = NoBody]
    /\ expiry' = [expiry EXCEPT ![c] = 0]

Return(c, res) ==
    /\ outcome' = [outcome EXCEPT ![c] = res]
    /\ pc' = [pc EXCEPT ![c] = "done"]
    /\ Forget(c)

Success(from, value) == [tag |-> "success", from |-> from, body |-> value, at |-> now]

\* cache_get: the entry has not expired.
Bug_ExpiresLate(k) == cache[k] # NoEntry /\ now <= cache[k].exp
CacheGet(k) == cache[k] # NoEntry /\ now < cache[k].exp

CacheHit(c) ==
    /\ pc[c] = "start" /\ Cacheable(c) /\ Ttl > 0 /\ CacheGet(req[c].key)
    /\ metrics' = Count(metrics, "cache_hits")
    /\ Return(c, Success("cache", cache[req[c].key].value))
    /\ UNCHANGED <<now, req, attempt, cache, handled>>

\* The head of the loop, up to req.send().
Transmit(c) ==
    /\ metrics' = Count(metrics, "requests")
    /\ pc' = [pc EXCEPT ![c] = "wire"]
    /\ sentAt' = [sentAt EXCEPT ![c] = now]

\* No entry, or not a request that is cached: enter the loop.
CacheMiss(c) ==
    /\ pc[c] = "start" /\ ~(Cacheable(c) /\ Ttl > 0 /\ CacheGet(req[c].key))
    /\ Transmit(c)
    /\ UNCHANGED <<now, req, attempt, body, expiry, outcome, cache, handled>>

-----------------------------------------------------------------------------
\* The attempt is out: the timeout runs until the body has been read.
Out == {"wire", "reply"}

\* The environment: the service handles a request and a reply sets out.
Handle(c) ==
    /\ pc[c] = "wire"
    /\ handled' = [handled EXCEPT ![c] = @ + 1]
    /\ body' = [body EXCEPT ![c] = [method |-> req[c].method, at |-> now, whole |-> TRUE]]
    /\ pc' = [pc EXCEPT ![c] = "reply"]
    /\ UNCHANGED <<now, req, attempt, sentAt, expiry, outcome, cache, metrics>>

\* The clock.  It waits for work that is already runnable, and a request that
\* has been out for Timeout must have ended.
Tick ==
    /\ now < MaxTime
    /\ \A c \in Caller : /\ pc[c] # "store"
                         /\ pc[c] \in Out => now < sentAt[c] + Timeout
    /\ now' = now + 1
    /\ UNCHANGED <<req, pc, attempt, sentAt, body, expiry, outcome, cache, metrics, handled>>

-----------------------------------------------------------------------------
\* attempt < cfg.retries
Bug_OneTooMany(c) == attempt[c] <= Retries
AttemptsLeft(c) == attempt[c] < Retries

Retry(c) ==
    /\ attempt' = [attempt EXCEPT ![c] = @ + 1]
    /\ metrics' = Count(metrics, "retries")
    /\ pc' = [pc EXCEPT ![c] = "backoff"]
    /\ Forget(c)
    /\ UNCHANGED outcome

GiveUp(c, variant) ==
    /\ metrics' = Count(metrics, "errors")
    /\ Return(c, [tag |-> "failure", variant |-> variant])
    /\ UNCHANGED attempt

\* Ok(resp) with a 2xx status.
\* resp.text().await.unwrap_or_default(): a body that breaks off becomes "".
\* A value that is to be cached gets its expiry, before the cache is locked.
ReplyOk(c) ==
    /\ pc[c] = "reply"
    /\ \E whole \in BOOLEAN :
          LET text == [method |-> body[c].method, at |-> body[c].at, whole |-> whole]
          IN  IF Cacheable(c) /\ Ttl > 0
              THEN /\ body' = [body EXCEPT ![c] = text]
                   /\ expiry' = [expiry EXCEPT ![c] = now + Ttl]
                   /\ sentAt' = [sentAt EXCEPT ![c] = 0]
                   /\ pc' = [pc EXCEPT ![c] = "store"]
                   /\ UNCHANGED outcome
              ELSE Return(c, Success("wire", text))
    /\ UNCHANGED <<now, req, attempt, cache, metrics, handled>>

\* cache_put: lock and insert.
StoreBody(c) ==
    /\ pc[c] = "store"
    /\ cache' = [cache EXCEPT ![req[c].key] = [exp |-> expiry[c], value |-> body[c]]]
    /\ Return(c, Success("wire", body[c]))
    /\ UNCHANGED <<now, req, attempt, metrics, handled>>

\* Ok(resp) with 429 or 5xx.
MayRetry(c) == RetrySafe(c) /\ AttemptsLeft(c)

ReplyBusy(c) ==
    /\ pc[c] = "reply"
    /\ IF MayRetry(c) THEN Retry(c) ELSE GiveUp(c, "Busy")
    /\ UNCHANGED <<now, req, cache, handled>>

\* Ok(resp) with any other status.
ReplyRefused(c) ==
    /\ pc[c] = "reply"
    /\ GiveUp(c, "Refused")
    /\ UNCHANGED <<now, req, cache, handled>>

\* Err(e): the connection failed or the timeout struck, whether or not the
\* service had handled the request.
SendFailed(c) ==
    /\ pc[c] \in {"wire", "reply"}
    /\ IF MayRetry(c) THEN Retry(c) ELSE GiveUp(c, "Unreachable")
    /\ UNCHANGED <<now, req, cache, handled>>

\* The end of the backoff sleep, and `continue`.
Bug_SleepsAgain(c) ==
    /\ pc[c] = "backoff"
    /\ UNCHANGED httpVars
Wake(c) ==
    /\ pc[c] = "backoff"
    /\ Transmit(c)
    /\ UNCHANGED <<now, req, attempt, body, expiry, outcome, cache, handled>>

\* The steps of one call.
Call(c) ==
    \/ CacheHit(c) \/ CacheMiss(c)
    \/ ReplyOk(c) \/ StoreBody(c)
    \/ ReplyBusy(c) \/ ReplyRefused(c) \/ SendFailed(c) \/ Wake(c)

HttpNext ==
    \/ Tick
    \/ \E c \in Caller : Call(c) \/ Handle(c)

\* The service owes nothing, but the timeout ends an attempt that gets no
\* answer, so a call always has a step to take and tokio lets it take it.
HttpSpec == HttpInit /\ [][HttpNext]_httpVars /\ \A c \in Caller : WF_httpVars(Call(c))

-----------------------------------------------------------------------------
Outcome ==
    [tag : {"pending"}]
    \cup [tag : {"success"}, from : {"cache", "wire"}, body : Body, at : 0..MaxTime]
    \cup [tag : {"failure"}, variant : {"Busy", "Refused", "Unreachable"}]

HttpTypeOK ==
    /\ now \in 0..MaxTime
    /\ req \in Workload
    /\ pc \in [Caller -> {"start", "wire", "reply", "store", "backoff", "done"}]
    /\ attempt \in [Caller -> 0..Retries]
    /\ sentAt \in [Caller -> 0..MaxTime]
    /\ body \in [Caller -> Body \cup {NoBody}]
    /\ expiry \in [Caller -> 0..(MaxTime + Ttl)]
    /\ outcome \in [Caller -> Outcome]
    /\ cache \in [Key -> [exp : 0..(MaxTime + Ttl), value : Body \cup {NoBody}]]
    /\ metrics \in [{"requests", "cache_hits", "retries", "errors"} -> Nat]
    /\ handled \in [Caller -> Nat]

\* A mutation that carries no idempotency key reaches the service at most once,
\* also when its reply was lost on the way back.
PlainMutationOnce ==
    \A c \in Caller : req[c].method = "POST" /\ ~req[c].idem => handled[c] <= 1

\* The service never sees one request more often than the first attempt and
\* the declared retries.
RetriesBounded == \A c \in Caller : handled[c] <= Retries + 1

\* A cached answer was written by the service less than the TTL and one timeout
\* ago, however slowly the reply that filled the cache came in and whichever
\* call stored last.
HitIsFresh ==
    \A c \in Caller : outcome[c].tag = "success" =>
        (outcome[c].from = "cache" => outcome[c].at < outcome[c].body.at + Timeout + Ttl)

\* Once every call has returned the counters add up: one request per call that
\* was not served from the cache and per retry, one error per failure.
CountersAddUp ==
    LET hits   == {c \in Caller : outcome[c].tag = "success" /\ outcome[c].from = "cache"}
        failed == {c \in Caller : outcome[c].tag = "failure"}
    IN  (\A c \in Caller : pc[c] = "done") =>
            /\ metrics.cache_hits = Cardinality(hits)
            /\ metrics.errors = Cardinality(failed)
            /\ metrics.requests = metrics.retries + Cardinality(Caller \ hits)

\* Every call returns.
CallsReturn == \A c \in Caller : <>(pc[c] = "done")
=============================================================================
