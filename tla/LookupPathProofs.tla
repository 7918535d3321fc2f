--------------------------- MODULE LookupPathProofs ---------------------------
(***************************************************************************)
(* Proofs about LookupPath: its types, that flights and requests match     *)
(* (FlightsMatch), that the cache holds at most CacheMax entries and one   *)
(* per key (CacheBounded), and that a wrong answer is young (AnswersAge).  *)
(*                                                                         *)
(* The invariant behind AnswersAge bounds, for everything that holds an    *)
(* answer of OpenCTI - a query under way, a follower that has its result   *)
(* and has not run yet, a cache entry - how long ago OpenCTI must have     *)
(* changed about the value if the answer is wrong by now.                  *)
(***************************************************************************)
EXTENDS LookupPath, SequenceTheorems, FiniteSetTheorems, TLAPS

-----------------------------------------------------------------------------
(* The payload cache *)

LEMMA MaxTTLFacts ==
  MaxTTL \in Nat \ {0} /\ TTL \in 1 .. MaxTTL /\ DegradedTTL \in 1 .. MaxTTL
  BY TimesAssumption DEF MaxTTL


LEMMA RemoveAtProperties ==
  ASSUME NEW S, NEW s \in Seq(S), NEW i \in 1 .. Len(s)
  PROVE  /\ RemoveAt(s, i) \in Seq(S)
         /\ Len(RemoveAt(s, i)) = Len(s) - 1
         /\ \A j \in 1 .. Len(s) - 1 :
              RemoveAt(s, i)[j] = IF j < i THEN s[j] ELSE s[j + 1]
  <1> DEFINE a == SubSeq(s, 1, i - 1)  b == SubSeq(s, i + 1, Len(s))
  <1>1. /\ a \in Seq(S) /\ Len(a) = i - 1
        /\ \A j \in 1 .. i - 1 : a[j] = s[j]
    OBVIOUS
  <1>2. /\ b \in Seq(S) /\ Len(b) = Len(s) - i
        /\ \A j \in 1 .. Len(s) - i : b[j] = s[i + j]
    OBVIOUS
  <1> HIDE DEF a, b
  <1>3. /\ a \o b \in Seq(S) /\ Len(a \o b) = Len(a) + Len(b)
        /\ \A j \in 1 .. Len(a) + Len(b) :
             (a \o b)[j] = IF j =< Len(a) THEN a[j] ELSE b[j - Len(a)]
    BY <1>1, <1>2, ConcatProperties
  <1>4. \A j \in 1 .. Len(s) - 1 : (a \o b)[j] = IF j < i THEN s[j] ELSE s[j + 1]
    <2> TAKE j \in 1 .. Len(s) - 1
    <2>1. CASE j < i
      BY <1>1, <1>2, <1>3, <2>1
    <2>2. CASE ~ (j < i)
      <3>1. (a \o b)[j] = b[j - (i - 1)] /\ j - (i - 1) \in 1 .. Len(s) - i
        BY <1>1, <1>2, <1>3, <2>2
      <3>2. i + (j - (i - 1)) = j + 1
        OBVIOUS
      <3> QED
        BY <1>2, <2>2, <3>1, <3>2
    <2> QED
      BY <2>1, <2>2
  <1> QED
    <2>1. RemoveAt(s, i) = a \o b
      BY DEF RemoveAt, a, b
    <2>2. Len(a) + Len(b) = Len(s) - 1
      BY <1>1, <1>2
    <2> QED
      BY <1>3, <1>4, <2>1, <2>2

KeysUnique(entries) ==
  \A i, j \in 1 .. Len(entries) : entries[i].key = entries[j].key => i = j

\* Taking a key's entry out leaves the others.
LEMMA WithoutProperties ==
  ASSUME NEW entries \in Seq(Entries), KeysUnique(entries), NEW v \in Values
  PROVE  LET rest == Without(entries, v)
         IN  /\ rest \in Seq(Entries) /\ KeysUnique(rest)
             /\ Len(rest) =< Len(entries)
             /\ At(entries, v) # {} => Len(rest) = Len(entries) - 1
             /\ \A j \in 1 .. Len(rest) :
                  /\ rest[j].key # v
                  /\ \E i \in 1 .. Len(entries) : rest[j] = entries[i]
  <1>1. CASE At(entries, v) = {}
    BY <1>1 DEF Without, At
  <1>2. CASE At(entries, v) # {}
    <2> DEFINE i == CHOOSE i \in At(entries, v) : TRUE
               rest == Without(entries, v)
    <2>1. i \in 1 .. Len(entries) /\ entries[i].key = v
      BY <1>2 DEF At
    <2>2. rest = RemoveAt(entries, i)
      BY <1>2 DEF Without
    <2> HIDE DEF i, rest
    <2>3. /\ rest \in Seq(Entries) /\ Len(rest) = Len(entries) - 1
          /\ \A j \in 1 .. Len(entries) - 1 :
               rest[j] = IF j < i THEN entries[j] ELSE entries[j + 1]
      BY <2>1, <2>2, RemoveAtProperties
    <2>4. ASSUME NEW j \in 1 .. Len(rest)
          PROVE  /\ rest[j].key # v
                 /\ \E k \in 1 .. Len(entries) : rest[j] = entries[k]
      <3>1. PICK k \in 1 .. Len(entries) : k # i /\ rest[j] = entries[k]
        BY <2>1, <2>3
      <3> QED
        BY <2>1, <3>1 DEF KeysUnique
    <2>5. KeysUnique(rest)
      <3> SUFFICES ASSUME NEW j \in 1 .. Len(rest), NEW k \in 1 .. Len(rest),
                          rest[j].key = rest[k].key
                   PROVE  j = k
        BY DEF KeysUnique
      <3> DEFINE J == IF j < i THEN j ELSE j + 1  K == IF k < i THEN k ELSE k + 1
      <3>1. /\ J \in 1 .. Len(entries) /\ K \in 1 .. Len(entries)
            /\ entries[J].key = entries[K].key
        BY <2>1, <2>3
      <3>2. J = K
        BY <3>1 DEF KeysUnique
      <3> QED
        BY <2>1, <2>3, <3>2
    <2>6. Len(entries) \in Nat
      OBVIOUS
    <2> QED
      BY <2>3, <2>4, <2>5, <2>6 DEF rest
  <1> QED
    BY <1>1, <1>2

\* An entry with a new key at the most recently used end.
LEMMA AppendUnique ==
  ASSUME NEW entries \in Seq(Entries), KeysUnique(entries), NEW e \in Entries,
         \A j \in 1 .. Len(entries) : entries[j].key # e.key
  PROVE  /\ Append(entries, e) \in Seq(Entries)
         /\ KeysUnique(Append(entries, e))
         /\ Len(Append(entries, e)) = Len(entries) + 1
  BY AppendProperties DEF KeysUnique

CacheFits == KeysUnique(cache) /\ Len(cache) =< CacheMax

\* Every entry of the cache is one it had before, or e.
OnlyAdds(e) ==
  \A j \in 1 .. Len(cache') : cache'[j] = e \/ \E i \in 1 .. Len(cache) : cache'[j] = cache[i]

NewEntry(v, payload) ==
  [key |-> v, payload |-> payload, left |-> IF stale THEN DegradedTTL ELSE TTL]

LEMMA PutFits ==
  ASSUME TypeOK, CacheFits, NEW v \in Values, NEW payload \in Payloads, Put(v, payload)
  PROVE  cache' \in Seq(Entries) /\ CacheFits' /\ OnlyAdds(NewEntry(v, payload))
  <1> DEFINE rest == Without(cache, v)  e == NewEntry(v, payload)  all == Append(rest, e)
  <1>1. e \in Entries /\ e.key = v
    BY TimesAssumption, MaxTTLFacts DEF NewEntry, Entries
  <1>2. cache \in Seq(Entries) /\ KeysUnique(cache)
    BY DEF TypeOK, CacheFits
  <1>3. /\ rest \in Seq(Entries) /\ KeysUnique(rest) /\ Len(rest) =< Len(cache)
        /\ \A j \in 1 .. Len(rest) :
             rest[j].key # v /\ \E i \in 1 .. Len(cache) : rest[j] = cache[i]
    BY <1>2, WithoutProperties
  <1>4. cache' = Evict(all)
    BY DEF Put, NewEntry
  <1> HIDE DEF rest, e
  <1>5. /\ all \in Seq(Entries) /\ KeysUnique(all) /\ Len(all) = Len(rest) + 1
    BY <1>1, <1>3, AppendUnique
  <1>6. \A j \in 1 .. Len(all) : all[j] = e \/ \E i \in 1 .. Len(cache) : all[j] = cache[i]
    BY <1>1, <1>3, <1>5, AppendProperties
  <1>7. Len(all) =< CacheMax + 1 /\ Len(all) # 0 /\ CacheMax \in Nat /\ Len(all) \in Nat
    BY <1>2, <1>3, <1>5, TimesAssumption, MaxTTLFacts DEF CacheFits
  <1> HIDE DEF all
  <1>8. CASE Len(all) > CacheMax
    <2>1. cache' = Tail(all)
      BY <1>4, <1>8 DEF Evict
    <2>2. /\ cache' \in Seq(Entries) /\ Len(cache') = Len(all) - 1
          /\ \A j \in 1 .. Len(cache') : cache'[j] = all[j + 1]
      BY <1>5, <1>7, <2>1, HeadTailProperties
    <2>3. KeysUnique(cache')
      BY <1>5, <1>7, <2>2 DEF KeysUnique
    <2>4. Len(cache') =< CacheMax
      BY <1>7, <2>2
    <2>5. OnlyAdds(e)
      BY <1>6, <1>7, <2>2 DEF OnlyAdds
    <2> QED
      BY <2>2, <2>3, <2>4, <2>5 DEF CacheFits, e, KeysUnique
  <1>9. CASE ~ (Len(all) > CacheMax)
    <2>1. cache' = all
      BY <1>4, <1>9 DEF Evict
    <2> QED
      BY <1>5, <1>6, <1>7, <1>9, <2>1 DEF CacheFits, OnlyAdds, e, KeysUnique
  <1> QED
    BY <1>8, <1>9

\* A hit moves an entry; the cache has the same entries.
LEMMA TouchFits ==
  ASSUME TypeOK, CacheFits, NEW v \in Values, Fresh(v), cache' = Touched(v)
  PROVE  /\ cache' \in Seq(Entries) /\ CacheFits' /\ OnlyAdds(Cached(v))
         /\ \E i \in 1 .. Len(cache) :
              Cached(v) = cache[i] /\ cache[i].key = v /\ cache[i].left > 0
  <1> DEFINE rest == Without(cache, v)  e == Cached(v)
  <1>1. cache \in Seq(Entries) /\ KeysUnique(cache)
    BY DEF TypeOK, CacheFits
  <1>2. PICK i \in 1 .. Len(cache) : cache[i].key = v /\ cache[i].left > 0
    BY DEF Fresh, Find, At
  <1>3. Find(v) = {i}
    BY <1>1, <1>2 DEF Find, At, KeysUnique
  <1>4. e = cache[i]
    BY <1>3 DEF Cached
  <1>5. e \in Entries /\ e.key = v
    BY <1>1, <1>2, <1>4
  <1>6. /\ rest \in Seq(Entries) /\ KeysUnique(rest) /\ Len(rest) = Len(cache) - 1
        /\ \A j \in 1 .. Len(rest) :
             rest[j].key # v /\ \E k \in 1 .. Len(cache) : rest[j] = cache[k]
    BY <1>1, <1>3, WithoutProperties DEF Find
  <1>7. cache' = Append(rest, e)
    BY DEF Touched
  <1> HIDE DEF rest, e
  <1>8. cache' \in Seq(Entries) /\ KeysUnique(cache') /\ Len(cache') = Len(rest) + 1
    BY <1>5, <1>6, <1>7, AppendUnique
  <1>9. OnlyAdds(e)
    BY <1>5, <1>6, <1>7, <1>8, AppendProperties DEF OnlyAdds
  <1>10. Len(cache') =< CacheMax
    BY <1>1, <1>6, <1>8 DEF CacheFits
  <1> QED
    BY <1>2, <1>4, <1>8, <1>9, <1>10 DEF CacheFits, KeysUnique, e

LEMMA DropFits ==
  ASSUME TypeOK, CacheFits, NEW v \in Values, cache' = Without(cache, v)
  PROVE  /\ cache' \in Seq(Entries) /\ CacheFits'
         /\ \A j \in 1 .. Len(cache') : \E i \in 1 .. Len(cache) : cache'[j] = cache[i]
  <1>1. cache \in Seq(Entries) /\ KeysUnique(cache)
    BY DEF TypeOK, CacheFits
  <1>2. Len(cache) \in Nat /\ CacheMax \in Nat
    BY <1>1, TimesAssumption, MaxTTLFacts
  <1>3. /\ cache' \in Seq(Entries) /\ KeysUnique(cache') /\ Len(cache') =< Len(cache)
        /\ \A j \in 1 .. Len(cache') : \E i \in 1 .. Len(cache) : cache'[j] = cache[i]
    BY <1>1, WithoutProperties
  <1> QED
    BY <1>2, <1>3 DEF CacheFits, KeysUnique

-----------------------------------------------------------------------------
(* The inductive invariant *)

\* Only a query under way, or a follower, has an answer.
AnswerPlaced == \A r \in Requests : pc[r] \in {"idle", "replied"} => answer[r] = "none"

\* found is the truth about v, or OpenCTI changed about it within time.
TrueOrYoung(v, found, time) == (found <=> Hit(v)) \/ ChangedWithin(v, time)

\* A query was evaluated after it began: its answer is right, or OpenCTI has
\* changed since. The host is asked when the value itself was unknown.
QueryYoung(r) ==
  /\ Leading(r) /\ answer[r] \in {"hit", "miss"} =>
       \/ answer[r] = "hit" <=> Asked(r) \in known
       \/ settled[Asked(r)] =< QueryTime - timeLeft[r]
  /\ pc[r] = "host" =>
       \/ value[r] \notin known
       \/ settled[value[r]] =< 2 * QueryTime - timeLeft[r]

FollowerYoung(r) ==
  Woken(r) /\ answer[r] # "error" => TrueOrYoung(value[r], answer[r] = "hit", 2 * QueryTime)

EntryYoung(e) ==
  e.left > 0 => TrueOrYoung(e.key, e.payload = "hit", (MaxTTL - e.left) + 2 * QueryTime)

RequestsYoung == \A r \in Requests : QueryYoung(r) /\ FollowerYoung(r)
CacheYoung == \A i \in 1 .. Len(cache) : EntryYoung(cache[i])

LookupInv ==
  /\ TypeOK /\ CacheFits /\ FlightsMatch /\ AnswerPlaced
  /\ RequestsYoung /\ CacheYoung

LEMMA CacheAnswerFits ==
  ASSUME TypeOK, CacheFits, NEW r \in Requests, answer[r] # "none", CacheAnswer(r)
  PROVE  /\ cache' \in Seq(Entries) /\ CacheFits'
         /\ \/ cache' = cache
            \/ answer[r] \in Payloads /\ OnlyAdds(NewEntry(value[r], answer[r]))
  <1>1. value[r] \in Values /\ answer[r] \in Answers
    BY DEF TypeOK
  <1>2. CASE answer[r] = "error"
    BY <1>2 DEF CacheAnswer, TypeOK, CacheFits, KeysUnique
  <1>3. CASE answer[r] # "error"
    <2>1. answer[r] \in Payloads /\ Put(value[r], answer[r])
      BY <1>1, <1>3 DEF CacheAnswer, Answers, Payloads
    <2> QED
      BY <1>1, <2>1, PutFits
  <1> QED
    BY <1>2, <1>3

\* Time runs off every entry, and nothing else about it changes.
LEMMA TickCache ==
  ASSUME TypeOK, Tick
  PROVE  /\ cache' \in Seq(Entries) /\ Len(cache') = Len(cache)
         /\ \A i \in 1 .. Len(cache) :
              /\ cache'[i].key = cache[i].key /\ cache'[i].payload = cache[i].payload
              /\ cache'[i].left = IF cache[i].left > 0 THEN cache[i].left - 1 ELSE 0
  <1> DEFINE aged(e) == [e EXCEPT !.left = IF @ > 0 THEN @ - 1 ELSE 0]
  <1>1. \A e \in Entries :
          /\ aged(e) \in Entries
          /\ aged(e).key = e.key /\ aged(e).payload = e.payload
          /\ aged(e).left = IF e.left > 0 THEN e.left - 1 ELSE 0
    BY TimesAssumption, MaxTTLFacts DEF Entries
  <1>2. cache \in Seq(Entries)
    BY DEF TypeOK
  <1>3. cache' = [i \in 1 .. Len(cache) |-> aged(cache[i])]
    BY DEF Tick
  <1> HIDE DEF aged
  <1>4. \A i \in 1 .. Len(cache) : cache[i] \in Entries
    BY <1>2
  <1>5. cache' \in Seq(Entries) /\ Len(cache') = Len(cache)
    BY <1>1, <1>2, <1>3, <1>4
  <1> QED
    BY <1>1, <1>3, <1>4, <1>5

\* However lookups come and go, the cache keeps its types, its ceiling and one
\* entry per key.
LEMMA NextCache ==
  ASSUME TypeOK, CacheFits, [Next]_vars
  PROVE  cache' \in Seq(Entries) /\ CacheFits'
  <1>1. CASE UNCHANGED cache
    BY <1>1 DEF TypeOK, CacheFits, KeysUnique
  <1>2. CASE Tick
    BY <1>2, TickCache DEF CacheFits, KeysUnique
  <1>3. ASSUME NEW r \in Requests, NEW v \in Values, AnswerFromCache(r, v) \/ Fetch(r, v)
        PROVE  cache' \in Seq(Entries) /\ CacheFits'
    BY <1>3, TouchFits, DropFits DEF AnswerFromCache, Fetch
  <1>4. ASSUME NEW r \in Requests, Land(r) \/ Wake(r)
        PROVE  cache' \in Seq(Entries) /\ CacheFits'
    BY <1>4, CacheAnswerFits DEF Land, Wake, Woken
  <1>5. ASSUME NEW r \in Requests,
               QueryEvaluated(r) \/ QueryFails(r) \/ FallBackToHost(r) \/ Finish(r)
        PROVE  UNCHANGED cache
    BY <1>5 DEF QueryEvaluated, QueryFails, FallBackToHost, Finish
  <1>6. ASSUME NEW r \in Requests, NEW v \in Values, AnswerFromMembership(r, v)
        PROVE  UNCHANGED cache
    BY <1>6 DEF AnswerFromMembership
  <1>7. ASSUME NEW v \in Values, Change(v) \/ StreamEvent(v)
        PROVE  UNCHANGED cache
    BY <1>7 DEF Change, StreamEvent
  <1>8. CASE SwapMembership \/ StreamHealth \/ UNCHANGED vars
    BY <1>1, <1>8 DEF SwapMembership, StreamHealth, vars
  <1> QED
    BY <1>1, <1>2, <1>3, <1>4, <1>5, <1>6, <1>7, <1>8 DEF Next, Around, Begin, Proceed

-----------------------------------------------------------------------------
(* Type correctness *)

LEMMA InitType == Init => TypeOK
  <1> SUFFICES ASSUME Init PROVE TypeOK
    OBVIOUS
  <1>1. AnyValue \in Values
    BY ValuesAssumption DEF AnyValue
  <1>2. LongAgo \in 0 .. LongAgo /\ 0 \in 0 .. QueryTime
    BY TimesAssumption, MaxTTLFacts DEF LongAgo
  <1>3. cache \in Seq(Entries)
    BY DEF Init
  <1> QED
    BY <1>1, <1>2, <1>3 DEF Init, TypeOK, Answers

\* A reply is typed, whoever gives it.
LEMMA ReplyType ==
  ASSUME TypeOK, NEW r \in Requests, NEW found \in BOOLEAN, NEW source \in Sources,
         Reply(r, found, source)
  PROVE  /\ pc' \in [Requests -> {"idle", "exact", "host", "following", "replied"}]
         /\ reply' \in [Requests -> [found : BOOLEAN, source : Sources] \cup {NoReply}]
  BY DEF TypeOK, Reply

LEMMA NextType ==
  ASSUME TypeOK, CacheFits, [Next]_vars
  PROVE  TypeOK'
  <1> USE TimesAssumption, MaxTTLFacts DEF TypeOK, upstream, membership, request, vars
  <1>1. cache' \in Seq(Entries)
    BY NextCache
  <1>2. ASSUME NEW r \in Requests, NEW v \in Values, AnswerFromMembership(r, v)
        PROVE  TypeOK'
    BY <1>1, <1>2, ReplyType DEF AnswerFromMembership, Sources
  <1>3. ASSUME NEW r \in Requests, NEW v \in Values, AnswerFromCache(r, v)
        PROVE  TypeOK'
    BY <1>1, <1>3, ReplyType DEF AnswerFromCache, Sources
  <1>4. ASSUME NEW r \in Requests, NEW v \in Values, Fetch(r, v)
        PROVE  TypeOK'
    <2>1. QueryTime \in 0 .. QueryTime
      OBVIOUS
    <2>2. CASE inflight[v] = NoRequest
      BY <1>1, <1>4, <2>1, <2>2 DEF Fetch
    <2>3. CASE inflight[v] # NoRequest
      BY <1>1, <1>4, <2>3 DEF Fetch
    <2> QED
      BY <2>2, <2>3
  <1>5. ASSUME NEW r \in Requests, QueryEvaluated(r) \/ QueryFails(r) \/ FallBackToHost(r)
        PROVE  TypeOK'
    <2>1. CASE QueryEvaluated(r) \/ QueryFails(r)
      BY <1>1, <2>1 DEF QueryEvaluated, QueryFails, Answers
    <2>2. CASE FallBackToHost(r)
      <3>1. timeLeft' \in [Requests -> 0 .. QueryTime]
        BY <2>2 DEF FallBackToHost
      <3> QED
        BY <1>1, <2>2, <3>1 DEF FallBackToHost, Answers
    <2> QED
      BY <1>5, <2>1, <2>2
  <1>6. ASSUME NEW r \in Requests, ReplyAnswer(r)
        PROVE  /\ pc' \in [Requests -> {"idle", "exact", "host", "following", "replied"}]
               /\ reply' \in [Requests -> [found : BOOLEAN, source : Sources] \cup {NoReply}]
    BY <1>6, ReplyType DEF ReplyAnswer, Sources
  <1>7. ASSUME NEW r \in Requests, Land(r)
        PROVE  TypeOK'
    <2>1. /\ inflight' \in [Values -> Requests \cup {NoRequest}]
          /\ answer' \in [Requests -> Answers]
      BY <1>7 DEF Land, EndFlight, Answers
    <2>2. timeLeft' \in [Requests -> 0 .. QueryTime]
      BY <1>7 DEF Land
    <2> QED
      BY <1>1, <1>6, <1>7, <2>1, <2>2 DEF Land
  <1>8. ASSUME NEW r \in Requests, Wake(r)
        PROVE  TypeOK'
    BY <1>1, <1>6, <1>8 DEF Wake, Answers
  <1>9. ASSUME NEW r \in Requests, Finish(r)
        PROVE  TypeOK'
    BY <1>1, <1>9, ValuesAssumption DEF Finish, AnyValue
  <1>10. ASSUME NEW v \in Values, Change(v) \/ StreamEvent(v)
         PROVE  TypeOK'
    <2>1. CASE Change(v)
      <3>1. settled' \in [Values -> 0 .. LongAgo]
        BY <2>1 DEF Change, LongAgo
      <3> QED
        BY <1>1, <2>1, <3>1 DEF Change
    <2>2. CASE StreamEvent(v)
      BY <1>1, <2>2 DEF StreamEvent
    <2> QED
      BY <1>10, <2>1, <2>2
  <1>11. CASE SwapMembership \/ StreamHealth
    BY <1>1, <1>11 DEF SwapMembership, StreamHealth
  <1>12. CASE Tick
    <2>1. settled' \in [Values -> 0 .. LongAgo] /\ timeLeft' \in [Requests -> 0 .. QueryTime]
      BY <1>12 DEF Tick, LongAgo
    <2> QED
      BY <1>1, <1>12, <2>1 DEF Tick
  <1>13. CASE UNCHANGED vars
    BY <1>13
  <1> QED
    BY <1>2, <1>3, <1>4, <1>5, <1>7, <1>8, <1>9, <1>10, <1>11, <1>12, <1>13
    DEF Next, Around, Begin, Proceed

-----------------------------------------------------------------------------
(* Flights *)

\* A request whose flight is over, or that never led one, leads none.
LEMMA NotLeading ==
  ASSUME TypeOK, FlightsMatch, NEW r \in Requests, ~ Leading(r)
  PROVE  \A v \in Values : inflight[v] # r
  BY NoRequestAssumption DEF TypeOK, FlightsMatch

LEMMA NextFlights ==
  ASSUME TypeOK, FlightsMatch, AnswerPlaced, [Next]_vars
  PROVE  FlightsMatch' /\ AnswerPlaced'
  <1> USE NoRequestAssumption DEF TypeOK, upstream, membership, request, vars
  <1>1. CASE UNCHANGED <<inflight, pc, value, answer>>
    BY <1>1 DEF FlightsMatch, AnswerPlaced, Leading
  <1>2. ASSUME NEW r \in Requests, NEW v \in Values,
               AnswerFromMembership(r, v) \/ AnswerFromCache(r, v)
        PROVE  FlightsMatch' /\ AnswerPlaced'
    <2>1. /\ pc[r] = "idle" /\ pc' = [pc EXCEPT ![r] = "replied"]
          /\ value' = [value EXCEPT ![r] = v] /\ UNCHANGED <<inflight, answer>>
      BY <1>2 DEF AnswerFromMembership, AnswerFromCache, Reply
    <2>2. \A u \in Values : inflight[u] # r
      BY <2>1, NotLeading DEF Leading
    <2> QED
      BY <2>1, <2>2 DEF FlightsMatch, AnswerPlaced, Leading
  <1>3. ASSUME NEW r \in Requests, NEW v \in Values, Fetch(r, v)
        PROVE  FlightsMatch' /\ AnswerPlaced'
    <2>1. \A u \in Values : inflight[u] # r
      BY <1>3, NotLeading DEF Fetch, Leading
    <2> QED
      BY <1>3, <2>1 DEF Fetch, FlightsMatch, AnswerPlaced, Leading
  <1>4. ASSUME NEW r \in Requests, QueryEvaluated(r) \/ QueryFails(r) \/ FallBackToHost(r)
        PROVE  FlightsMatch' /\ AnswerPlaced'
    <2>1. CASE QueryEvaluated(r) \/ QueryFails(r)
      <3>1. PICK a \in {"hit", "miss", "error"} : answer' = [answer EXCEPT ![r] = a]
        BY <2>1 DEF QueryEvaluated, QueryFails
      <3> QED
        BY <2>1, <3>1
        DEF QueryEvaluated, QueryFails, FlightsMatch, AnswerPlaced, Leading
    <2>2. CASE FallBackToHost(r)
      BY <2>2 DEF FallBackToHost, FlightsMatch, AnswerPlaced, Leading
    <2> QED
      BY <1>4, <2>1, <2>2
  <1>5. ASSUME NEW r \in Requests, ReplyAnswer(r)
        PROVE  pc' = [pc EXCEPT ![r] = "replied"]
    BY <1>5 DEF ReplyAnswer, Reply
  <1>6. ASSUME NEW r \in Requests, Land(r)
        PROVE  FlightsMatch' /\ AnswerPlaced'
    <2>1. /\ pc' = [pc EXCEPT ![r] = "replied"] /\ Leading(r) /\ answer[r] # "none"
          /\ inflight' = [inflight EXCEPT ![value[r]] = NoRequest]
          /\ UNCHANGED value
          /\ answer' = [f \in Requests |-> IF f = r THEN "none"
                          ELSE IF f \in Followers(r) THEN answer[r] ELSE answer[f]]
      BY <1>5, <1>6 DEF Land, EndFlight
    <2>2. AnswerPlaced'
      BY <2>1 DEF AnswerPlaced, Followers, Leading
    <2>3. FlightsMatch'
      BY <2>1 DEF FlightsMatch, Followers, Leading
    <2> QED
      BY <2>2, <2>3
  <1>7. ASSUME NEW r \in Requests, Wake(r)
        PROVE  FlightsMatch' /\ AnswerPlaced'
    <2>1. /\ pc' = [pc EXCEPT ![r] = "replied"] /\ pc[r] = "following"
          /\ answer' = [answer EXCEPT ![r] = "none"]
          /\ UNCHANGED <<inflight, value>>
      BY <1>5, <1>7 DEF Wake, Woken
    <2> QED
      BY <2>1 DEF FlightsMatch, AnswerPlaced, Leading
  <1>8. ASSUME NEW r \in Requests, Finish(r)
        PROVE  FlightsMatch' /\ AnswerPlaced'
    <2>1. \A u \in Values : inflight[u] # r
      BY <1>8, NotLeading DEF Finish, Leading
    <2>2. AnyValue \in Values
      BY ValuesAssumption DEF AnyValue
    <2> QED
      BY <1>8, <2>1, <2>2 DEF Finish, FlightsMatch, AnswerPlaced, Leading
  <1>9. ASSUME NEW v \in Values, Change(v) \/ StreamEvent(v)
        PROVE  FlightsMatch' /\ AnswerPlaced'
    BY <1>1, <1>9 DEF Change, StreamEvent
  <1>10. CASE SwapMembership \/ StreamHealth \/ Tick \/ UNCHANGED vars
    BY <1>1, <1>10 DEF SwapMembership, StreamHealth, Tick
  <1> QED
    BY <1>2, <1>3, <1>4, <1>6, <1>7, <1>8, <1>9, <1>10 DEF Next, Around, Begin, Proceed

-----------------------------------------------------------------------------
(* Wrong answers are young *)

\* A change of OpenCTI makes what it is about settled for no time at all.
LEMMA YoungAtChange ==
  ASSUME TypeOK, NEW u \in Values, Change(u),
         NEW v \in Values, NEW found \in BOOLEAN, NEW time \in Nat,
         TrueOrYoung(v, found, time)
  PROVE  TrueOrYoung(v, found, time)'
  <1>1. /\ settled'[u] = 0
        /\ \A x \in Values \ {u} : settled'[x] = settled[x] /\ (x \in known' <=> x \in known)
    BY DEF TypeOK, Change
  <1>2. HostOf[v] \in Values
    BY HostAssumption
  <1>3. CASE u = v \/ u = HostOf[v]
    BY <1>1, <1>3 DEF TrueOrYoung, ChangedWithin
  <1>4. CASE u # v /\ u # HostOf[v]
    <2>1. Hit(v)' <=> Hit(v)
      BY <1>1, <1>2, <1>4 DEF Hit
    <2>2. ChangedWithin(v, time)' <=> ChangedWithin(v, time)
      BY <1>1, <1>2, <1>4 DEF ChangedWithin
    <2> QED
      BY <2>1, <2>2, Zenon DEF TrueOrYoung
  <1> QED
    BY <1>3, <1>4

LEMMA YoungAtRest ==
  ASSUME UNCHANGED upstream, NEW v, NEW found, NEW time, TrueOrYoung(v, found, time)
  PROVE  TrueOrYoung(v, found, time)'
  BY Zenon DEF TrueOrYoung, Hit, ChangedWithin, upstream

LEMMA SettledTicks ==
  ASSUME TypeOK, Tick, NEW v \in Values
  PROVE  settled[v] \in Nat /\ settled'[v] \in Nat /\ settled'[v] =< settled[v] + 1
  BY TimesAssumption, MaxTTLFacts DEF TypeOK, Tick, LongAgo

LEMMA YoungAtTick ==
  ASSUME TypeOK, Tick, NEW v \in Values, NEW found \in BOOLEAN, NEW time \in Nat,
         TrueOrYoung(v, found, time)
  PROVE  TrueOrYoung(v, found, time + 1)'
  <1>1. Hit(v)' <=> Hit(v)
    BY DEF Tick, Hit
  <1>2. ChangedWithin(v, time) => ChangedWithin(v, time + 1)'
    <2>1. HostOf[v] \in Values
      BY HostAssumption
    <2> QED
      BY <2>1, SettledTicks DEF ChangedWithin
  <1> QED
    BY <1>1, <1>2, Zenon DEF TrueOrYoung

LEMMA YoungLonger ==
  ASSUME TypeOK, NEW v \in Values, NEW found, NEW time \in Nat, NEW longer \in Nat,
         time =< longer, TrueOrYoung(v, found, time)
  PROVE  TrueOrYoung(v, found, longer)
  <1>1. ChangedWithin(v, time) => ChangedWithin(v, longer)
    <2>1. settled[v] \in Nat /\ settled[HostOf[v]] \in Nat
      BY HostAssumption DEF TypeOK
    <2> QED
      BY <2>1 DEF ChangedWithin
  <1> QED
    BY <1>1, Zenon DEF TrueOrYoung

\* What a flight ends with is true, or OpenCTI has changed since its first query.
LEMMA LandYoung ==
  ASSUME TypeOK, NEW r \in Requests, QueryYoung(r), Leading(r), answer[r] \in Payloads,
         ~ (pc[r] = "exact" /\ answer[r] = "miss" /\ HasHost(value[r]))
  PROVE  TrueOrYoung(value[r], answer[r] = "hit", 2 * QueryTime)
  <1> DEFINE v == value[r]
  <1>1. /\ v \in Values /\ HostOf[v] \in Values
        /\ settled[v] \in Nat /\ settled[HostOf[v]] \in Nat
        /\ timeLeft[r] \in 0 .. QueryTime /\ QueryTime \in Nat
    BY HostAssumption, TimesAssumption, MaxTTLFacts DEF TypeOK
  <1>2. \/ answer[r] = "hit" <=> Asked(r) \in known
        \/ settled[Asked(r)] =< QueryTime - timeLeft[r]
    BY DEF QueryYoung, Payloads
  <1>3. Asked(r) = v \/ Asked(r) = HostOf[v]
    BY DEF Asked
  <1>4. CASE settled[Asked(r)] =< QueryTime - timeLeft[r]
    <2>1. settled[Asked(r)] =< 2 * QueryTime
      BY <1>1, <1>3, <1>4
    <2> QED
      BY <1>3, <2>1 DEF TrueOrYoung, ChangedWithin
  <1>5. CASE answer[r] = "hit" /\ Asked(r) \in known
    <2>1. Hit(v)
      BY <1>3, <1>5 DEF Hit
    <2> QED
      BY <1>5, <2>1 DEF TrueOrYoung, Hit
  <1>6. CASE answer[r] # "hit" /\ Asked(r) \notin known
    <2>1. answer[r] = "miss"
      BY <1>6 DEF Payloads
    <2>2. HostOf[v] \notin known
      BY <1>6, <2>1 DEF Asked, HasHost
    <2>3. v \notin known \/ settled[v] =< 2 * QueryTime
      <3>1. CASE pc[r] = "exact"
        BY <1>6, <3>1 DEF Asked
      <3>2. CASE pc[r] = "host"
        BY <1>1, <3>2 DEF QueryYoung
      <3> QED
        BY <3>1, <3>2 DEF Leading
    <2>4. ~ Hit(v) \/ ChangedWithin(v, 2 * QueryTime)
      BY <2>2, <2>3 DEF Hit, ChangedWithin
    <2> QED
      BY <1>6, <2>4 DEF TrueOrYoung, Hit
  <1> QED
    BY <1>2, <1>4, <1>5, <1>6

RequestYoung(r) == QueryYoung(r) /\ FollowerYoung(r)

\* A step that concerns neither OpenCTI nor the request.
LEMMA RequestKeeps ==
  ASSUME NEW r \in Requests, RequestYoung(r), UNCHANGED upstream,
         UNCHANGED <<pc[r], value[r], answer[r], timeLeft[r]>>
  PROVE  RequestYoung(r)'
  <1>1. QueryYoung(r)'
    BY DEF RequestYoung, QueryYoung, Leading, Asked, upstream
  <1>2. FollowerYoung(r)'
    BY DEF RequestYoung, FollowerYoung, Woken, TrueOrYoung, Hit, ChangedWithin, upstream
  <1> QED
    BY <1>1, <1>2 DEF RequestYoung

\* A request without an answer that is not at its second query claims nothing.
LEMMA RequestEmpty ==
  ASSUME NEW r \in Requests, answer'[r] = "none", pc'[r] # "host"
  PROVE  RequestYoung(r)'
  BY DEF RequestYoung, QueryYoung, FollowerYoung, Woken

\* Time passes only while no follower has its result and every query may
\* still take some.
LEMMA RequestTicks ==
  ASSUME TypeOK, NEW r \in Requests, RequestYoung(r), Tick
  PROVE  RequestYoung(r)'
  <1> DEFINE v == value[r]
  <1>1. /\ v \in Values /\ HostOf[v] \in Values /\ QueryTime \in Nat
        /\ timeLeft[r] \in 0 .. QueryTime
    BY HostAssumption, TimesAssumption, MaxTTLFacts DEF TypeOK
  <1>2. /\ UNCHANGED <<known, pc, value, answer>> /\ ~ Woken(r)
        /\ Leading(r) => timeLeft[r] > 0 /\ timeLeft'[r] = timeLeft[r] - 1
    BY <1>1 DEF Tick
  <1>3. FollowerYoung(r)'
    BY <1>2 DEF FollowerYoung, Woken
  <1>4. /\ Asked(r)' = Asked(r) /\ Asked(r) \in Values
        /\ Leading(r)' <=> Leading(r)
    BY <1>1, <1>2 DEF Asked, Leading
  <1>5. \A x \in Values : \A time \in Int : settled[x] =< time => settled'[x] =< time + 1
    BY SettledTicks
  <1>6. QueryYoung(r)'
    <2>1. ASSUME Leading(r), answer[r] \in {"hit", "miss"}
          PROVE  \/ answer[r] = "hit" <=> Asked(r) \in known
                 \/ settled'[Asked(r)] =< QueryTime - timeLeft'[r]
      BY <1>1, <1>2, <1>4, <1>5, <2>1 DEF RequestYoung, QueryYoung
    <2>2. ASSUME pc[r] = "host"
          PROVE  v \notin known \/ settled'[v] =< 2 * QueryTime - timeLeft'[r]
      BY <1>1, <1>2, <1>5, <2>2 DEF RequestYoung, QueryYoung, Leading
    <2> QED
      BY <1>2, <1>4, <2>1, <2>2 DEF QueryYoung
  <1> QED
    BY <1>3, <1>6 DEF RequestYoung

LEMMA RequestAtChange ==
  ASSUME TypeOK, NEW r \in Requests, RequestYoung(r), NEW u \in Values, Change(u)
  PROVE  RequestYoung(r)'
  <1> DEFINE v == value[r]
  <1>1. /\ v \in Values /\ HostOf[v] \in Values /\ QueryTime \in Nat
        /\ timeLeft[r] \in 0 .. QueryTime
    BY HostAssumption, TimesAssumption, MaxTTLFacts DEF TypeOK
  <1>2. UNCHANGED <<pc, value, answer, timeLeft>>
    BY DEF Change, request
  <1>3. /\ settled'[u] = 0
        /\ \A x \in Values \ {u} : settled'[x] = settled[x] /\ (x \in known' <=> x \in known)
    BY DEF TypeOK, Change
  <1>4. FollowerYoung(r)'
    <2>1. ASSUME Woken(r), answer[r] # "error", TrueOrYoung(v, answer[r] = "hit", 2 * QueryTime)
          PROVE  TrueOrYoung(v, answer[r] = "hit", 2 * QueryTime)'
      <3>1. PICK found \in BOOLEAN : found <=> answer[r] = "hit"
        OBVIOUS
      <3>2. \A x \in Values : TrueOrYoung(x, found, 2 * QueryTime)
                                => TrueOrYoung(x, found, 2 * QueryTime)'
        BY <1>1, YoungAtChange
      <3> QED
        BY <1>1, <1>2, <2>1, <3>1, <3>2 DEF TrueOrYoung, Hit, ChangedWithin
    <2> QED
      BY <1>2, <2>1 DEF RequestYoung, FollowerYoung, Woken
  <1>5. Asked(r)' = Asked(r) /\ Asked(r) \in Values
    BY <1>1, <1>2 DEF Asked
  <1>6. QueryYoung(r)'
    <2>1. ASSUME Leading(r), answer[r] \in {"hit", "miss"}
          PROVE  \/ answer[r] = "hit" <=> Asked(r) \in known'
                 \/ settled'[Asked(r)] =< QueryTime - timeLeft[r]
      BY <1>1, <1>3, <1>5, <2>1 DEF RequestYoung, QueryYoung
    <2>2. ASSUME pc[r] = "host"
          PROVE  v \notin known' \/ settled'[v] =< 2 * QueryTime - timeLeft[r]
      BY <1>1, <1>3, <2>2 DEF RequestYoung, QueryYoung
    <2> QED
      BY <1>2, <1>5, <2>1, <2>2 DEF QueryYoung, Leading
  <1> QED
    BY <1>4, <1>6 DEF RequestYoung

\* Each step of a lookup leaves every request with an answer that is true or
\* young: a query is evaluated, falls back, or hands its answer to followers.
LEMMA NextRequestsYoung ==
  ASSUME TypeOK, AnswerPlaced, RequestsYoung, [Next]_vars
  PROVE  RequestsYoung'
  <1> SUFFICES ASSUME NEW f \in Requests
               PROVE  RequestYoung(f)'
    BY DEF RequestsYoung, RequestYoung
  <1>1. RequestYoung(f)
    BY DEF RequestsYoung, RequestYoung
  <1> USE DEF membership, request, vars
  <1>2. ASSUME UNCHANGED <<upstream, pc, value, answer, timeLeft>>
        PROVE  RequestYoung(f)'
    BY <1>1, <1>2, RequestKeeps
  <1>3. ASSUME NEW r \in Requests, r # f, UNCHANGED upstream,
               \/ \E v \in Values : AnswerFromMembership(r, v) \/ AnswerFromCache(r, v)
                                    \/ Fetch(r, v)
               \/ QueryEvaluated(r) \/ QueryFails(r) \/ FallBackToHost(r)
               \/ Wake(r) \/ Finish(r)
        PROVE  RequestYoung(f)'
    <2>1. UNCHANGED <<pc[f], value[f], answer[f], timeLeft[f]>>
      BY <1>3 DEF TypeOK, AnswerFromMembership, AnswerFromCache, Fetch, QueryEvaluated,
         QueryFails, FallBackToHost, Wake, Finish, Reply, ReplyAnswer
    <2> QED
      BY <1>1, <1>3, <2>1, RequestKeeps
  <1>4. ASSUME NEW v \in Values,
               AnswerFromMembership(f, v) \/ AnswerFromCache(f, v) \/ Fetch(f, v)
        PROVE  RequestYoung(f)'
    <2>1. answer'[f] = "none" /\ pc'[f] # "host"
      BY <1>4 DEF TypeOK, AnswerPlaced, AnswerFromMembership, AnswerFromCache, Fetch, Reply
    <2> QED
      BY <2>1, RequestEmpty
  <1>5. CASE QueryEvaluated(f)
    <2>1. /\ Leading(f)
          /\ answer'[f] = IF Asked(f) \in known THEN "hit" ELSE "miss"
          /\ UNCHANGED <<upstream, pc, value, timeLeft>>
      BY <1>5 DEF QueryEvaluated, TypeOK
    <2> QED
      BY <1>1, <2>1
      DEF RequestYoung, QueryYoung, FollowerYoung, Woken, Leading, Asked, upstream
  <1>6. CASE QueryFails(f)
    <2>1. /\ Leading(f) /\ answer'[f] = "error"
          /\ UNCHANGED <<upstream, pc, value, timeLeft>>
      BY <1>6 DEF QueryFails, TypeOK
    <2> QED
      BY <1>1, <2>1
      DEF RequestYoung, QueryYoung, FollowerYoung, Woken, Leading, Asked, upstream
  <1>7. CASE FallBackToHost(f)
    <2>1. /\ pc[f] = "exact" /\ answer[f] = "miss"
          /\ pc'[f] = "host" /\ answer'[f] = "none" /\ timeLeft'[f] = QueryTime
          /\ UNCHANGED <<upstream, value>>
      BY <1>7 DEF FallBackToHost, TypeOK
    <2>2. /\ value[f] \in Values /\ settled[value[f]] \in Nat /\ QueryTime \in Nat
          /\ timeLeft[f] \in 0 .. QueryTime
      BY TimesAssumption, MaxTTLFacts DEF TypeOK
    <2>3. value[f] \notin known \/ settled[value[f]] =< 2 * QueryTime - QueryTime
      BY <1>1, <2>1, <2>2 DEF RequestYoung, QueryYoung, Leading, Asked
    <2> QED
      BY <2>1, <2>3 DEF RequestYoung, QueryYoung, FollowerYoung, Woken, upstream
  <1>8. ASSUME NEW r \in Requests, Land(r)
        PROVE  RequestYoung(f)'
    <2>1. /\ Leading(r) /\ answer[r] # "none"
          /\ ~ (pc[r] = "exact" /\ answer[r] = "miss" /\ HasHost(value[r]))
          /\ pc' = [pc EXCEPT ![r] = "replied"]
          /\ answer' = [g \in Requests |-> IF g = r THEN "none"
                          ELSE IF g \in Followers(r) THEN answer[r] ELSE answer[g]]
          /\ timeLeft' = [timeLeft EXCEPT ![r] = 0]
          /\ UNCHANGED <<upstream, value>>
      BY <1>8 DEF Land, EndFlight, ReplyAnswer, Reply
    <2>2. CASE f = r
      BY <2>1, <2>2, RequestEmpty DEF TypeOK
    <2>3. CASE f \in Followers(r)
      <3>1. /\ f # r /\ pc[f] = "following" /\ value[f] = value[r]
            /\ pc'[f] = "following" /\ answer'[f] = answer[r] /\ value'[f] = value[r]
        BY <2>1, <2>3 DEF Followers, Leading, TypeOK
      <3>2. answer[r] # "error" => TrueOrYoung(value[r], answer[r] = "hit", 2 * QueryTime)
        <4>1. answer[r] # "error" => answer[r] \in Payloads
          BY <2>1 DEF TypeOK, Answers, Payloads
        <4> QED
          BY <2>1, <4>1, LandYoung DEF RequestsYoung
      <3> QED
        BY <2>1, <3>1, <3>2 DEF RequestYoung, QueryYoung, FollowerYoung, Leading,
           TrueOrYoung, Hit, ChangedWithin, upstream
    <2>4. CASE f # r /\ f \notin Followers(r)
      <3>1. UNCHANGED <<pc[f], value[f], answer[f], timeLeft[f]>>
        BY <2>1, <2>4 DEF TypeOK
      <3> QED
        BY <1>1, <2>1, <3>1, RequestKeeps
    <2> QED
      BY <2>2, <2>3, <2>4
  <1>9. CASE Wake(f) \/ Finish(f)
    <2>1. answer'[f] = "none" /\ pc'[f] # "host"
      BY <1>9 DEF TypeOK, AnswerPlaced, Wake, Finish, ReplyAnswer, Reply
    <2> QED
      BY <2>1, RequestEmpty
  <1>10. ASSUME NEW v \in Values, Change(v) \/ StreamEvent(v)
         PROVE  RequestYoung(f)'
    BY <1>1, <1>2, <1>10, RequestAtChange DEF StreamEvent
  <1>11. CASE SwapMembership \/ StreamHealth \/ Tick \/ UNCHANGED vars
    BY <1>1, <1>2, <1>11, RequestTicks DEF SwapMembership, StreamHealth, upstream
  <1>12. ASSUME NEW r \in Requests, Begin(r) \/ Proceed(r)
         PROVE  UNCHANGED upstream
    BY <1>12 DEF Begin, Proceed, AnswerFromMembership, AnswerFromCache, Fetch,
       QueryEvaluated, QueryFails, FallBackToHost, Land, Wake, Finish
  <1> QED
    BY <1>3, <1>4, <1>5, <1>6, <1>7, <1>8, <1>9, <1>10, <1>11, <1>12
    DEF Next, Around, Begin, Proceed

LEMMA EntryKeeps ==
  ASSUME UNCHANGED upstream, NEW e, EntryYoung(e)
  PROVE  EntryYoung(e)'
  BY DEF EntryYoung, TrueOrYoung, Hit, ChangedWithin, upstream

\* Whatever is cached anew is no older than what was at hand.
LEMMA CacheAdds ==
  ASSUME CacheYoung, UNCHANGED upstream, NEW e, EntryYoung(e), OnlyAdds(e)
  PROVE  CacheYoung'
  BY EntryKeeps DEF CacheYoung, OnlyAdds

\* An answer that is young when it is cached makes a young entry, at whichever
\* of the two times to live.
LEMMA NewEntryYoung ==
  ASSUME TypeOK, NEW r \in Requests, answer[r] \in Payloads,
         TrueOrYoung(value[r], answer[r] = "hit", 2 * QueryTime)
  PROVE  EntryYoung(NewEntry(value[r], answer[r]))
  <1> DEFINE e == NewEntry(value[r], answer[r])  time == (MaxTTL - e.left) + 2 * QueryTime
  <1>1. e.key = value[r] /\ e.payload = answer[r] /\ e.left \in 0 .. MaxTTL
    BY TimesAssumption, MaxTTLFacts DEF NewEntry
  <1>2. time \in Nat /\ 2 * QueryTime \in Nat /\ 2 * QueryTime =< time
    BY <1>1, TimesAssumption, MaxTTLFacts
  <1>3. value[r] \in Values
    BY DEF TypeOK
  <1> HIDE DEF e, time
  <1>4. TrueOrYoung(e.key, e.payload = "hit", time)
    BY <1>1, <1>2, <1>3, YoungLonger
  <1> QED
    BY <1>4 DEF EntryYoung, e, time

\* Flights, followers, hits, evictions and expiries keep only young entries.
LEMMA NextCacheYoung ==
  ASSUME TypeOK, CacheFits, RequestsYoung, CacheYoung, [Next]_vars
  PROVE  CacheYoung'
  <1> USE DEF membership, request, vars
  <1>1. ASSUME UNCHANGED <<upstream, cache>>
        PROVE  CacheYoung'
    BY <1>1, EntryKeeps DEF CacheYoung
  <1>2. ASSUME NEW r \in Requests, NEW v \in Values,
               AnswerFromMembership(r, v) \/ QueryEvaluated(r) \/ QueryFails(r)
               \/ FallBackToHost(r) \/ Finish(r)
        PROVE  CacheYoung'
    BY <1>1, <1>2 DEF AnswerFromMembership, QueryEvaluated, QueryFails, FallBackToHost, Finish
  <1>3. ASSUME NEW r \in Requests, NEW v \in Values, AnswerFromCache(r, v)
        PROVE  CacheYoung'
    <2>1. UNCHANGED upstream /\ OnlyAdds(Cached(v)) /\ EntryYoung(Cached(v))
      BY <1>3, TouchFits DEF AnswerFromCache, CacheYoung
    <2> QED
      BY <2>1, CacheAdds
  <1>4. ASSUME NEW r \in Requests, NEW v \in Values, Fetch(r, v)
        PROVE  CacheYoung'
    <2>1. /\ UNCHANGED upstream
          /\ \A j \in 1 .. Len(cache') : \E i \in 1 .. Len(cache) : cache'[j] = cache[i]
      BY <1>4, DropFits DEF Fetch
    <2> QED
      BY <2>1, EntryKeeps DEF CacheYoung
  <1>5. ASSUME NEW r \in Requests, Land(r) \/ Wake(r)
        PROVE  CacheYoung'
    <2>1. UNCHANGED upstream /\ answer[r] # "none" /\ CacheAnswer(r)
      BY <1>5 DEF Land, Wake, Woken
    <2>2. CASE cache' = cache
      BY <1>1, <2>1, <2>2
    <2>3. CASE answer[r] \in Payloads /\ OnlyAdds(NewEntry(value[r], answer[r]))
      <3>1. TrueOrYoung(value[r], answer[r] = "hit", 2 * QueryTime)
        <4>1. CASE Land(r)
          BY <2>3, <4>1, LandYoung DEF Land, RequestsYoung
        <4>2. CASE Wake(r)
          BY <2>3, <4>2 DEF Wake, RequestsYoung, FollowerYoung, Payloads
        <4> QED
          BY <1>5, <4>1, <4>2
      <3> QED
        BY <2>1, <2>3, <3>1, NewEntryYoung, CacheAdds
    <2> QED
      BY <2>1, <2>2, <2>3, CacheAnswerFits
  <1>6. ASSUME NEW u \in Values, Change(u)
        PROVE  CacheYoung'
    <2> SUFFICES ASSUME NEW i \in 1 .. Len(cache)
                 PROVE  EntryYoung(cache[i])'
      BY <1>6 DEF CacheYoung, Change
    <2>1. PICK e \in Entries : e = cache[i]
      BY DEF TypeOK
    <2>2. e.key \in Values /\ e.left \in 0 .. MaxTTL
      BY <2>1 DEF Entries
    <2>3. (MaxTTL - e.left) + 2 * QueryTime \in Nat
      BY <2>2, TimesAssumption, MaxTTLFacts
    <2>4. PICK found \in BOOLEAN : found <=> e.payload = "hit"
      OBVIOUS
    <2>5. \A time \in Nat : TrueOrYoung(e.key, found, time) => TrueOrYoung(e.key, found, time)'
      BY <1>6, <2>2, YoungAtChange
    <2>6. EntryYoung(e)'
      BY <2>1, <2>3, <2>4, <2>5 DEF CacheYoung, EntryYoung, TrueOrYoung
    <2> QED
      BY <1>6, <2>1, <2>6 DEF Change, EntryYoung, TrueOrYoung, Hit, ChangedWithin
  <1>7. CASE Tick
    <2> SUFFICES ASSUME NEW i \in 1 .. Len(cache)
                 PROVE  EntryYoung(cache[i])'
      BY <1>7, TickCache DEF CacheYoung
    <2>1. PICK e \in Entries : e = cache[i]
      BY DEF TypeOK
    <2>2. e.key \in Values /\ e.left \in 0 .. MaxTTL
      BY <2>1 DEF Entries
    <2>3. /\ cache'[i].key = e.key /\ cache'[i].payload = e.payload
          /\ cache'[i].left = IF e.left > 0 THEN e.left - 1 ELSE 0
      BY <1>7, <2>1, TickCache
    <2>4. CASE e.left > 1
      <3> DEFINE time == (MaxTTL - e.left) + 2 * QueryTime
      <3>1. time \in Nat /\ (MaxTTL - (e.left - 1)) + 2 * QueryTime = time + 1
        BY <2>2, TimesAssumption, MaxTTLFacts
      <3>2. cache'[i].left = e.left - 1
        BY <2>2, <2>3, <2>4
      <3>3. PICK found \in BOOLEAN : found <=> e.payload = "hit"
        OBVIOUS
      <3>4. TrueOrYoung(e.key, found, time)
        BY <2>1, <2>2, <2>4, <3>3 DEF CacheYoung, EntryYoung, TrueOrYoung
      <3> HIDE DEF time
      <3>5. TrueOrYoung(e.key, found, time + 1)'
        BY <1>7, <2>2, <3>1, <3>4, YoungAtTick
      <3> QED
        BY <2>3, <3>1, <3>2, <3>3, <3>5
        DEF EntryYoung, TrueOrYoung, Hit, ChangedWithin, time
    <2>5. CASE ~ (e.left > 1)
      <3>1. ~ (cache'[i].left > 0)
        BY <2>2, <2>3, <2>5
      <3> QED
        BY <3>1 DEF EntryYoung
    <2> QED
      BY <2>4, <2>5
  <1>8. ASSUME NEW v \in Values, StreamEvent(v)
        PROVE  CacheYoung'
    BY <1>1, <1>8 DEF StreamEvent
  <1>9. CASE SwapMembership \/ StreamHealth \/ UNCHANGED vars
    BY <1>1, <1>9 DEF SwapMembership, StreamHealth, upstream
  <1>10. \E v : v \in Values
    BY ValuesAssumption
  <1> QED
    BY <1>2, <1>3, <1>4, <1>5, <1>6, <1>7, <1>8, <1>9, <1>10
    DEF Next, Around, Begin, Proceed

-----------------------------------------------------------------------------
(* The theorems *)

LEMMA InitLookupInv == Init => LookupInv
  <1> SUFFICES ASSUME Init PROVE LookupInv
    OBVIOUS
  <1>1. TypeOK
    BY InitType
  <1>2. Len(cache) = 0
    BY DEF Init
  <1>3. CacheFits /\ CacheYoung
    BY <1>2, TimesAssumption, MaxTTLFacts DEF CacheFits, KeysUnique, CacheYoung
  <1>4. FlightsMatch /\ AnswerPlaced
    BY <1>1, NoRequestAssumption DEF Init, TypeOK, FlightsMatch, AnswerPlaced, Leading
  <1>5. RequestsYoung
    BY DEF Init, RequestsYoung, QueryYoung, FollowerYoung, Leading, Woken
  <1> QED
    BY <1>1, <1>3, <1>4, <1>5 DEF LookupInv

\* The invariant of this module is inductive.
LEMMA LookupInvariant == Spec => []LookupInv
  <1>1. LookupInv /\ [Next]_vars => LookupInv'
    BY NextType, NextCache, NextFlights, NextRequestsYoung, NextCacheYoung DEF LookupInv
  <1> QED
    BY <1>1, InitLookupInv, PTL DEF Spec

\* Every variable keeps its type; in particular entries never outlive the
\* longer time to live.
THEOREM TypeCorrect == Spec => []TypeOK
  <1>1. LookupInv => TypeOK
    BY DEF LookupInv
  <1> QED
    BY <1>1, LookupInvariant, PTL

\* A key has a flight exactly while one request leads it, and nobody waits for
\* a flight that is over, whatever fails and whoever comes when.
THEOREM FlightsAlwaysMatch == Spec => []FlightsMatch
  <1>1. LookupInv => FlightsMatch
    BY DEF LookupInv
  <1> QED
    BY <1>1, LookupInvariant, PTL

\* The cache never exceeds its ceiling and never has two entries for a key.
THEOREM CacheStaysBounded == Spec => []CacheBounded
  <1>1. LookupInv => CacheBounded
    <2> SUFFICES ASSUME LookupInv, NEW v \in Values
                 PROVE  Len(cache) =< CacheMax /\ Cardinality(Find(v)) =< 1
      BY ValuesAssumption DEF CacheBounded
    <2>1. Len(cache) =< CacheMax
      BY DEF LookupInv, CacheFits
    <2>2. CASE Find(v) = {}
      BY <2>1, <2>2, FS_EmptySet
    <2>3. CASE Find(v) # {}
      <3>1. PICK i : Find(v) = {i}
        <4>1. PICK i \in 1 .. Len(cache) : cache[i].key = v
          BY <2>3 DEF Find, At
        <4>2. Find(v) = {i}
          BY <4>1 DEF LookupInv, CacheFits, KeysUnique, Find, At
        <4> QED
          BY <4>2
      <3>2. Cardinality({i}) = 1
        BY FS_Singleton
      <3> QED
        BY <2>1, <3>1, <3>2
    <2> QED
      BY <2>2, <2>3
  <1> QED
    BY <1>1, LookupInvariant, PTL

\* A reply of OpenCTI or of the cache that contradicts OpenCTI is young: for a
\* fresh one OpenCTI changed while the queries ran, for a cached one within the
\* time to live before that.
THEOREM WrongAnswersYoung == Spec => AnswersAge
  <1>1. LookupInv /\ [Next]_vars => [\A r \in Requests : YoungAnswer(r)]_vars
    <2> SUFFICES ASSUME LookupInv, Next, NEW f \in Requests, pc[f] # "replied",
                        pc'[f] = "replied", reply'[f].source \in {"opencti", "payload_cache"}
                 PROVE  YoungAnswer(f)
      BY DEF YoungAnswer, Replies
    <2>1. TypeOK /\ CacheFits /\ RequestsYoung /\ CacheYoung
      BY DEF LookupInv
    <2>2. \/ \E v \in Values : AnswerFromMembership(f, v) \/ AnswerFromCache(f, v)
          \/ Land(f) \/ Wake(f)
      BY <2>1 DEF TypeOK, Next, Around, Begin, Proceed, Change, StreamEvent, Tick,
         SwapMembership, StreamHealth, request, AnswerFromMembership, AnswerFromCache,
         Fetch, QueryEvaluated, QueryFails, FallBackToHost, Land, Wake, Finish,
         ReplyAnswer, Reply
    <2>3. CASE \E v \in Values : AnswerFromMembership(f, v)
      BY <2>1, <2>3 DEF TypeOK, AnswerFromMembership, Reply
    <2>4. ASSUME NEW v \in Values, AnswerFromCache(f, v)
          PROVE  YoungAnswer(f)
      <3>1. PICK i \in 1 .. Len(cache) :
              Cached(v) = cache[i] /\ cache[i].key = v /\ cache[i].left > 0
        BY <2>1, <2>4, TouchFits DEF AnswerFromCache
      <3>2. /\ value'[f] = v
            /\ reply'[f] = [found |-> Cached(v).payload = "hit", source |-> "payload_cache"]
        BY <2>1, <2>4 DEF AnswerFromCache, Reply, TypeOK
      <3>3. cache[i] \in Entries
        BY <2>1 DEF TypeOK
      <3>4. cache[i].left \in 0 .. MaxTTL /\ (MaxTTL - cache[i].left) + 2 * QueryTime \in Nat
            /\ MaxTTL + 2 * QueryTime \in Nat
            /\ (MaxTTL - cache[i].left) + 2 * QueryTime =< MaxTTL + 2 * QueryTime
        BY <3>3, TimesAssumption, MaxTTLFacts DEF Entries
      <3>5. TrueOrYoung(v, cache[i].payload = "hit", (MaxTTL - cache[i].left) + 2 * QueryTime)
        BY <2>1, <3>1 DEF CacheYoung, EntryYoung
      <3>6. TrueOrYoung(v, cache[i].payload = "hit", MaxTTL + 2 * QueryTime)
        BY <2>1, <3>4, <3>5, YoungLonger
      <3> QED
        BY <3>1, <3>2, <3>6 DEF YoungAnswer, Replies, TrueOrYoung, Hit
    <2>5. CASE Land(f) \/ Wake(f)
      <3>1. /\ answer[f] # "none" /\ ReplyAnswer(f) /\ value' = value
        BY <2>5 DEF Land, Wake, Woken
      <3>2. answer[f] \in Payloads
        <4>1. answer[f] # "error"
          BY <2>1, <3>1 DEF ReplyAnswer, Reply, TypeOK
        <4> QED
          BY <2>1, <3>1, <4>1 DEF TypeOK, Answers, Payloads
      <3>3. reply'[f] = [found |-> answer[f] = "hit", source |-> "opencti"]
        BY <2>1, <3>1, <3>2 DEF ReplyAnswer, Reply, TypeOK, Payloads
      <3>4. TrueOrYoung(value[f], answer[f] = "hit", 2 * QueryTime)
        <4>1. CASE Land(f)
          BY <2>1, <3>2, <4>1, LandYoung DEF Land, RequestsYoung
        <4>2. CASE Wake(f)
          BY <2>1, <3>2, <4>2 DEF Wake, RequestsYoung, FollowerYoung, Payloads
        <4> QED
          BY <2>5, <4>1, <4>2
      <3> QED
        BY <3>1, <3>3, <3>4 DEF YoungAnswer, Replies, TrueOrYoung, Hit
    <2> QED
      BY <2>2, <2>3, <2>4, <2>5
  <1> QED
    BY <1>1, LookupInvariant, PTL DEF Spec, AnswersAge

=============================================================================
