----------------------------- MODULE LookupPath -----------------------------
(***************************************************************************)
(* One worker's lookups: SplitBackend (backends/split.py) in front of      *)
(* LiveBackend (backends/live.py) with its payload cache                   *)
(* (cache/payload.py) and single-flight (cache/singleflight.py).           *)
(*                                                                         *)
(* Requests are coroutines of one event loop: from one await to the next   *)
(* is one step, and the only awaits are a query to OpenCTI and another     *)
(* request's flight. The queries' own errors, retries and breaker are in   *)
(* UpstreamClient, how the membership set comes to be what it is in        *)
(* MembershipSync; here a query answers or fails, and a stream event about *)
(* a value makes the set agree with OpenCTI on it.                         *)
(***************************************************************************)
EXTENDS Integers, FiniteSets, SequencesExt

CONSTANTS
  Requests,      \* coroutines that serve GET /lookup, one lookup after another
  NoRequest,     \* "no flight", for a key nobody is fetching
  Values,        \* lookupable values, in the form normalize() gives them
  HostOf,        \* the hostname url_hostname() finds in a URL; others map to themselves
  CacheMax,      \* PayloadCache._max_entries
  TTL,           \* _ttl
  DegradedTTL,   \* _degraded_ttl
  QueryTime      \* bound: the time a query takes, in the units of TTL

ASSUME NoRequestAssumption == NoRequest \notin Requests
ASSUME ValuesAssumption == Values # {}
ASSUME HostAssumption == HostOf \in [Values -> Values]
ASSUME TimesAssumption ==
  /\ CacheMax \in Nat \ {0} /\ TTL \in Nat \ {0} /\ DegradedTTL \in Nat \ {0}
  /\ QueryTime \in Nat

VARIABLES
  known,       \* OpenCTI: the values a query finds a hit for
  settled,     \* ghost: time since OpenCTI last changed about the value
  member,      \* SplitBackend._membership, as a set
  ready,       \* SplitBackend._ready
  stale,       \* SplitBackend._stale, and PayloadCache._degraded
  cache,       \* PayloadCache._data: least recently used entry first
  inflight,    \* SingleFlight._inflight: who leads the flight for a key
  pc,          \* where each request is
  value,       \* the value it was asked about
  answer,      \* what the query it waits for, or its flight, has come back with
  timeLeft,    \* time its query may still take
  reply        \* what it has replied

upstream == <<known, settled>>
membership == <<member, ready, stale>>
request == <<pc, value, answer, timeLeft, reply>>
vars == <<known, settled, member, ready, stale, cache, inflight, pc, value,
          answer, timeLeft, reply>>

HasHost(v) == HostOf[v] # v
MaxTTL == IF DegradedTTL > TTL THEN DegradedTTL ELSE TTL     \* usually the latter
LongAgo == MaxTTL + 2 * QueryTime + 1   \* settled stops counting here
Payloads == {"hit", "miss"}            \* what OpenCTI answers: found true, or MISS
Entries == [key : Values, payload : Payloads, left : 0 .. MaxTTL]
Answers == {"none", "hit", "miss", "error"}
Sources == {"membership", "payload_cache", "opencti", "degraded"}
NoReply == [found |-> FALSE, source |-> "none"]
AnyValue == CHOOSE v \in Values : TRUE   \* stands in value for no lookup

TypeOK ==
  /\ known \subseteq Values /\ settled \in [Values -> 0 .. LongAgo]
  /\ member \subseteq Values /\ ready \in BOOLEAN /\ stale \in BOOLEAN
  /\ cache \in Seq(Entries)
  /\ inflight \in [Values -> Requests \cup {NoRequest}]
  /\ pc \in [Requests -> {"idle", "exact", "host", "following", "replied"}]
  /\ value \in [Requests -> Values]
  /\ answer \in [Requests -> Answers]
  /\ timeLeft \in [Requests -> 0 .. QueryTime]
  /\ reply \in [Requests -> [found : BOOLEAN, source : Sources] \cup {NoReply}]

Init ==
  /\ known = {} /\ settled = [v \in Values |-> LongAgo]
  /\ member = {} /\ ready = FALSE /\ stale = FALSE
  /\ cache = <<>>
  /\ inflight = [v \in Values |-> NoRequest]
  /\ pc = [r \in Requests |-> "idle"]
  /\ value = [r \in Requests |-> AnyValue]
  /\ answer = [r \in Requests |-> "none"]
  /\ timeLeft = [r \in Requests |-> 0]
  /\ reply = [r \in Requests |-> NoReply]

-----------------------------------------------------------------------------
(* PayloadCache *)

\* Where entries has the key v; nowhere or once.
At(entries, v) == {i \in 1 .. Len(entries) : entries[i].key = v}
Find(v) == At(cache, v)
Without(entries, v) ==
  IF At(entries, v) = {} THEN entries
  ELSE RemoveAt(entries, CHOOSE i \in At(entries, v) : TRUE)
Fresh(v) == \E i \in Find(v) : cache[i].left > 0
Cached(v) == cache[CHOOSE i \in Find(v) : TRUE]

\* get: a fresh entry becomes the most recently used one and keeps its time;
\* an expired one is dropped.
Renewed(v) ==                          \* mutant: a hit renews the entry
  Append(Without(cache, v), [Cached(v) EXCEPT !.left = TTL])
Touched(v) == Append(Without(cache, v), Cached(v))

\* set: the time to live is the one of this moment, and the least recently
\* used entry makes room.
NeverEvict(entries) == entries         \* mutant: the ceiling is ignored
Evict(entries) == IF Len(entries) > CacheMax THEN Tail(entries) ELSE entries
Put(v, payload) ==
  LET left == IF stale THEN DegradedTTL ELSE TTL
  IN  cache' = Evict(Append(Without(cache, v),
                            [key |-> v, payload |-> payload, left |-> left]))

-----------------------------------------------------------------------------
(* LookupResult *)

Reply(r, found, source) ==
  /\ pc' = [pc EXCEPT ![r] = "replied"]
  /\ reply' = [reply EXCEPT ![r] = [found |-> found, source |-> source]]

\* SplitBackend.lookup trusts the set only when it is ready and not stale, and
\* a URL is also looked up by its hostname.
Dismissed(v) == ready /\ ~ stale /\ v \notin member /\ HostOf[v] \notin member

AnswerFromMembership(r, v) ==
  /\ pc[r] = "idle" /\ Dismissed(v)
  /\ Reply(r, FALSE, "membership")
  /\ value' = [value EXCEPT ![r] = v]
  /\ UNCHANGED <<upstream, membership, cache, inflight, answer, timeLeft>>

AnswerFromCache(r, v) ==
  /\ pc[r] = "idle" /\ ~ Dismissed(v)
  /\ Fresh(v)
  /\ cache' = Touched(v)
  /\ Reply(r, Cached(v).payload = "hit", "payload_cache")
  /\ value' = [value EXCEPT ![r] = v]
  /\ UNCHANGED <<upstream, membership, inflight, answer, timeLeft>>

\* Nothing fresh is cached: wait for the flight there is, or lead one.
Fetch(r, v) ==
  /\ pc[r] = "idle" /\ ~ Dismissed(v)
  /\ ~ Fresh(v)
  /\ cache' = Without(cache, v)
  /\ value' = [value EXCEPT ![r] = v]
  /\ IF inflight[v] = NoRequest
       THEN /\ inflight' = [inflight EXCEPT ![v] = r]
            /\ pc' = [pc EXCEPT ![r] = "exact"]
            /\ timeLeft' = [timeLeft EXCEPT ![r] = QueryTime]
       ELSE /\ pc' = [pc EXCEPT ![r] = "following"]
            /\ UNCHANGED <<inflight, timeLeft>>
  /\ UNCHANGED <<upstream, membership, answer, reply>>

-----------------------------------------------------------------------------
(* LiveBackend._fetch, inside SingleFlight.do *)

Leading(r) == pc[r] \in {"exact", "host"}
Asked(r) == IF pc[r] = "exact" THEN value[r] ELSE HostOf[value[r]]

\* OpenCTI evaluates the query; its answer is not here yet.
QueryEvaluated(r) ==
  /\ Leading(r) /\ answer[r] = "none"
  /\ answer' = [answer EXCEPT ![r] = IF Asked(r) \in known THEN "hit" ELSE "miss"]
  /\ UNCHANGED <<upstream, membership, cache, inflight, pc, value, timeLeft, reply>>

\* Any OpenCTIError, a refusal of the breaker included.
QueryFails(r) ==
  /\ Leading(r) /\ answer[r] \in {"none", "hit", "miss"}
  /\ answer' = [answer EXCEPT ![r] = "error"]
  /\ UNCHANGED <<upstream, membership, cache, inflight, pc, value, timeLeft, reply>>

\* The exact value is unknown and the URL has a hostname: a second query.
FallBackToHost(r) ==
  /\ pc[r] = "exact" /\ answer[r] = "miss" /\ HasHost(value[r])
  /\ pc' = [pc EXCEPT ![r] = "host"]
  /\ answer' = [answer EXCEPT ![r] = "none"]
  /\ timeLeft' = [timeLeft EXCEPT ![r] = QueryTime]
  /\ UNCHANGED <<upstream, membership, cache, inflight, value, reply>>

\* Only answers of OpenCTI are cached, misses too.
CacheAnything(r) == Put(value[r], answer[r])           \* mutant: failures are cached
CacheAnswer(r) ==
  IF answer[r] = "error" THEN UNCHANGED cache ELSE Put(value[r], answer[r])

ReplyAnswer(r) ==
  IF answer[r] = "error" THEN Reply(r, FALSE, "degraded")
                         ELSE Reply(r, answer[r] = "hit", "opencti")

Followers(r) == {f \in Requests : pc[f] = "following" /\ value[f] = value[r]
                                    /\ answer[f] = "none"}

\* The flight ends, in the finally block however it went: its key is free for
\* a new one, and its followers have their result but have not run yet.
EndUnlessFailed(r) ==                  \* mutant: a failure leaves the key behind
  /\ inflight' = IF answer[r] = "error" THEN inflight
                 ELSE [inflight EXCEPT ![value[r]] = NoRequest]
  /\ answer' = [f \in Requests |->
       IF f = r THEN "none" ELSE IF f \in Followers(r) THEN answer[r] ELSE answer[f]]
EndFlight(r) ==
  /\ inflight' = [inflight EXCEPT ![value[r]] = NoRequest]
  /\ answer' = [f \in Requests |->
       IF f = r THEN "none" ELSE IF f \in Followers(r) THEN answer[r] ELSE answer[f]]

Land(r) ==
  /\ Leading(r) /\ answer[r] # "none"
  /\ ~ (pc[r] = "exact" /\ answer[r] = "miss" /\ HasHost(value[r]))
  /\ CacheAnswer(r)
  /\ ReplyAnswer(r)
  /\ EndFlight(r)
  /\ timeLeft' = [timeLeft EXCEPT ![r] = 0]
  /\ UNCHANGED <<upstream, membership, value>>

\* A follower runs again, and caches the result once more.
Woken(r) == pc[r] = "following" /\ answer[r] # "none"
Wake(r) ==
  /\ Woken(r)
  /\ CacheAnswer(r)
  /\ ReplyAnswer(r)
  /\ answer' = [answer EXCEPT ![r] = "none"]
  /\ UNCHANGED <<upstream, membership, inflight, value, timeLeft>>

\* The reply is on its way and the worker serves the next request.
Finish(r) ==
  /\ pc[r] = "replied"
  /\ pc' = [pc EXCEPT ![r] = "idle"]
  /\ reply' = [reply EXCEPT ![r] = NoReply]
  /\ value' = [value EXCEPT ![r] = AnyValue]
  /\ UNCHANGED <<upstream, membership, cache, inflight, answer, timeLeft>>

-----------------------------------------------------------------------------
(* What happens around the lookups *)

\* An analyst adds, revokes or deletes what OpenCTI knows about a value.
Change(v) ==
  /\ known' = (known \ {v}) \cup ({v} \ known)
  /\ settled' = [settled EXCEPT ![v] = 0]
  /\ UNCHANGED <<membership, cache, inflight, request>>

\* The stream's event about v is applied: to the set, and to nothing else. (A
\* worker that is still attaching follows the stream too.)
StreamEvent(v) ==
  /\ (v \in member) # (v \in known)
  /\ member' = (member \ {v}) \cup (known \cap {v})
  /\ UNCHANGED <<upstream, ready, stale, cache, inflight, request>>

\* swap_membership once a set has been built or attached.
SwapMembership ==
  /\ ~ ready /\ ready' = TRUE
  /\ member' = known
  /\ UNCHANGED <<upstream, stale, cache, inflight, request>>

StreamHealth ==
  /\ stale' = ~ stale
  /\ UNCHANGED <<upstream, member, ready, cache, inflight, request>>

\* Time passes, but not past the end of a query, and a follower that has its
\* result runs in the same pass of the event loop.
Tick ==
  /\ \A r \in Requests : ~ Woken(r) /\ (Leading(r) => timeLeft[r] > 0)
  /\ settled' = [v \in Values |-> IF settled[v] < LongAgo THEN settled[v] + 1 ELSE LongAgo]
  /\ cache' = [i \in 1 .. Len(cache) |->
                 [cache[i] EXCEPT !.left = IF @ > 0 THEN @ - 1 ELSE 0]]
  /\ timeLeft' = [r \in Requests |-> IF timeLeft[r] > 0 THEN timeLeft[r] - 1 ELSE 0]
  /\ UNCHANGED <<known, membership, inflight, pc, value, answer, reply>>

Begin(r) == \E v \in Values :
  AnswerFromMembership(r, v) \/ AnswerFromCache(r, v) \/ Fetch(r, v)

Proceed(r) ==
  \/ QueryEvaluated(r) \/ QueryFails(r) \/ FallBackToHost(r)
  \/ Land(r) \/ Wake(r) \/ Finish(r)

Around == Tick \/ SwapMembership \/ StreamHealth \/ \E v \in Values : Change(v) \/ StreamEvent(v)

Next == Around \/ \E r \in Requests : Begin(r) \/ Proceed(r)

Spec == Init /\ [][Next]_vars
-----------------------------------------------------------------------------
(* Safety *)

\* A key has a flight exactly while one request leads it, and whoever waits
\* for a result waits for a flight that is still on: concurrent lookups of a
\* value cost one upstream call, and no failure wedges a key.
FlightsMatch ==
  /\ \A r \in Requests : Leading(r) <=> inflight[value[r]] = r
  /\ \A v \in Values : inflight[v] # NoRequest => value[inflight[v]] = v
  /\ \A r \in Requests : (pc[r] = "following" /\ answer[r] = "none")
                            => inflight[value[r]] # NoRequest

\* Whatever order flights, followers and expiries come in, the cache never
\* exceeds its ceiling and never has two entries for a key.
CacheBounded ==
  /\ Len(cache) =< CacheMax
  /\ \A v \in Values : Cardinality(Find(v)) =< 1

\* An answer that is not from the set and contradicts OpenCTI is young: OpenCTI
\* changed while the queries ran or, for a cached one, within the longer of the two
\* times to live before that. Hits, evictions and late followers do not keep it alive.
Hit(v) == v \in known \/ HostOf[v] \in known
ChangedWithin(v, time) == settled[v] =< time \/ settled[HostOf[v]] =< time
Replies(r, source) == pc[r] # "replied" /\ pc'[r] = "replied" /\ reply'[r].source = source
YoungAnswer(r) ==
  LET v == value'[r]
      wrong == reply'[r].found # Hit(v)
  IN  /\ Replies(r, "opencti") /\ wrong => ChangedWithin(v, 2 * QueryTime)
      /\ Replies(r, "payload_cache") /\ wrong => ChangedWithin(v, MaxTTL + 2 * QueryTime)
AnswersAge == [][\A r \in Requests : YoungAnswer(r)]_vars
=============================================================================
