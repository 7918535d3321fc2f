--------------------------- MODULE AlertEnrichment ---------------------------
(***************************************************************************)
(* The whole way from a Wazuh alert to the event that enriches it: the     *)
(* script custom-opencti.py, which Wazuh starts once per alert, asks the   *)
(* service about all the alert's indicators in one request                 *)
(* (api/lookup.py), answered from the payload cache or from OpenCTI, while *)
(* the corpus and its load go on (CorpusLookup).                           *)
(*                                                                         *)
(* Scripts share nothing but the service, so one stands for all; what the  *)
(* others ask for comes into the cache in between. Time counts only        *)
(* towards the timeout of the request: a value costs what the queries for  *)
(* it take.                                                                *)
(***************************************************************************)
EXTENDS CorpusLookup, SequencesExt

CONSTANTS
  Alerts,          \* [fields, blob] : values at VALUE_PATHS and digests in a hash blob
  MaxIndicators,   \* MAX_INDICATORS_PER_ALERT
  HttpTimeout,     \* HTTP_TIMEOUT
  QueryTime,       \* the longest time of a query
  CacheMax         \* PayloadCache._max_entries

ASSUME AlertsAssumption ==
  \A alert \in Alerts : alert.fields \in Seq(Requested) /\ alert.blob \in Seq(Requested)
ASSUME LimitsAssumption ==
  /\ MaxIndicators \in Nat \ {0} /\ HttpTimeout \in Nat /\ QueryTime \in Nat
  /\ CacheMax \in Nat \ {0}

VARIABLES
  cache,       \* the worker's payload cache: values in normal form to answers
  script,      \* where the script is
  alert,       \* the alert it was started with
  results,     \* what the service has found out, for the first of its indicators
  sure,        \* ghost: for each, whether OpenCTI could only have answered with a hit
  spent,       \* how long the request has taken
  sent,        \* the indicators it has tried to write an event for, in order
  lost         \* those whose event did not reach analysisd

scriptVars == <<script, alert, results, sure, spent, sent, lost>>
vars == <<corpusVars, cache, scriptVars>>

-----------------------------------------------------------------------------
(* extract_indicators *)

\* A field is stripped; looks_private knows an address only as it is, without
\* zeros, brackets or a dot. The digests of a blob are lowercased.
Strip(w) == [w EXCEPT !.marks = @ \ {"spaced"}]
Lower(w) == [w EXCEPT !.marks = @ \ {"upper"}]
LooksPrivate(w) == w.name \in PrivateIPs /\ ~ IsURL(w) /\ w.marks \subseteq {"upper"}

\* The members of s at the positions P, in their order.
Picked(s, P) ==
  LET At(n) == CHOOSE k \in P : Cardinality({j \in P : j =< k}) = n
  IN  [n \in 1 .. Cardinality(P) |-> s[At(n)]]

Stripped(a) == [k \in 1 .. Len(a.fields) |-> Strip(a.fields[k])]
Lowered(a) == [k \in 1 .. Len(a.blob) |-> Lower(a.blob[k])]
Public(s) == {k \in 1 .. Len(s) : ~ LooksPrivate(s[k])}
Candidates(a) == Picked(Stripped(a), Public(Stripped(a))) \o Lowered(a)

\* Each distinct text once, where it first occurs; the first ones only.
Firsts(s) == {k \in 1 .. Len(s) : \A j \in 1 .. k - 1 : s[j] # s[k]}
Distinct(s) == Picked(s, Firsts(s))
Uncapped(s, n) == s                              \* mutant: all of them
FirstOf(s, n) == SubSeq(s, 1, IF Len(s) > n THEN n ELSE Len(s))
ExtractIndicators(a) == FirstOf(Distinct(Candidates(a)), MaxIndicators)

NoAlert == [fields |-> <<>>, blob |-> <<>>]
Values == ExtractIndicators(alert)

TypeOK ==
  /\ CorpusTypeOK
  /\ DOMAIN cache \subseteq Writings /\ Cardinality(DOMAIN cache) =< CacheMax
  /\ \A v \in DOMAIN cache : cache[v] \in [result : {"hit", "miss"}, sure : BOOLEAN]
  /\ script \in {"idle", "asking", "sending"}
  /\ alert \in Alerts \cup {NoAlert}
  /\ results \in Seq({"hit", "miss", "degraded"}) /\ Len(results) =< MaxIndicators
  /\ sure \in Seq(BOOLEAN) /\ Len(sure) = Len(results)
  /\ spent \in 0 .. HttpTimeout + 1
  /\ sent \in Seq(1 .. Len(results)) /\ lost \subseteq 1 .. Len(results)

Init ==
  /\ CorpusInit /\ cache = <<>>
  /\ script = "idle" /\ alert = NoAlert
  /\ results = <<>> /\ sure = <<>> /\ spent = 0
  /\ sent = <<>> /\ lost = {}

-----------------------------------------------------------------------------
(* main *)

\* The process exits, with 0 once it has started, and the next one may start.
End ==
  /\ script' = "idle" /\ alert' = NoAlert /\ results' = <<>> /\ sure' = <<>>
  /\ spent' = 0 /\ sent' = <<>> /\ lost' = {}

\* One request, however many indicators there are; none without any. (A missing
\* argument, and a file that is absent or not JSON, end the script before that,
\* with 2, 6 or 7.)
Start ==
  /\ script = "idle"
  /\ \E a \in Alerts : ExtractIndicators(a) # <<>> /\ alert' = a
  /\ script' = "asking"
  /\ UNCHANGED <<corpusVars, cache, results, sure, spent, sent, lost>>

\* The middleware is not there or refuses the request, or the reply has not
\* begun in time: nothing is known about any of the indicators.
GiveUpEarly ==                         \* mutant: the request has no timeout
  /\ script = "asking" /\ spent =< HttpTimeout
  /\ End
  /\ UNCHANGED <<corpusVars, cache>>
GiveUp ==
  /\ script = "asking"
  /\ End
  /\ UNCHANGED <<corpusVars, cache>>

Receive ==
  /\ script = "asking" /\ Len(results) = Len(Values) /\ spent =< HttpTimeout
  /\ script' = "sending" /\ spent' = 0
  /\ UNCHANGED <<corpusVars, cache, alert, results, sure, sent, lost>>

\* A hit is written to the socket of analysisd; that this fails is logged and
\* the next one is tried.
Hits == {k \in 1 .. Len(results) : results[k] = "hit"}
Unsent == Hits \ Range(sent)
NextHit == CHOOSE k \in Unsent : \A other \in Unsent : k =< other
StopAtFailure == Unsent = {} \/ lost # {}       \* mutant: a failed write ends the loop
AllSent == Unsent = {}
Send ==
  /\ script = "sending" /\ ~ AllSent
  /\ sent' = Append(sent, NextHit)
  /\ \E written \in BOOLEAN : lost' = IF written THEN lost ELSE lost \cup {NextHit}
  /\ UNCHANGED <<corpusVars, cache, script, alert, results, sure, spent>>
Exit ==
  /\ script = "sending" /\ AllSent
  /\ End
  /\ UNCHANGED <<corpusVars, cache>>

-----------------------------------------------------------------------------
(* lookup, lookup_bulk *)

\* Every observable that carries the value, or the host of the URL, has an
\* indicator that counts, and the load was neither cut nor overtaken by them.
SurelyHit(w) ==
  /\ Lookupable(w) /\ ~ AtLimit
  /\ \E n \in Asked(w) :
       /\ Type(n) # "ip" \/ ~ IsURL(w)
       /\ Matching(n) # {} /\ ShownAsAsked(n) /\ ~ Overtaken(n)
       /\ \A o \in Matching(n) : Survivors(o) # {}

\* What OpenCTI answers is stored, a miss as well; at the ceiling one entry has
\* to go. (LookupPath has the order in which they go.)
Fresh(w, payload) ==
  [result |-> IF payload.found THEN "hit" ELSE "miss", sure |-> SurelyHit(w)]
Store(v, entry) ==
  \E kept \in SUBSET (DOMAIN cache \ {v}) :
    /\ kept = DOMAIN cache \ {v} \/ Cardinality(kept) = CacheMax - 1
    /\ Cardinality(kept) < CacheMax
    /\ cache' = [x \in kept \cup {v} |-> IF x = v THEN entry ELSE cache[x]]

Answer(result, certain, longest) ==
  /\ results' = Append(results, result) /\ sure' = Append(sure, certain)
  /\ \E time \in 0 .. longest : spent' = AtMost(spent + time, HttpTimeout + 1)

\* Without a query and without the cache, at no cost.
Dismiss(w) ==
  /\ ~ Lookupable(w) \/ Dismissed(w)
  /\ Answer("miss", SurelyHit(w), 0)
  /\ UNCHANGED cache

\* With the answer OpenCTI gave up to payload_ttl_s ago.
Recall(w) ==
  /\ Lookupable(w) /\ ~ Dismissed(w) /\ Normal(w) \in DOMAIN cache
  /\ Answer(cache[Normal(w)].result, cache[Normal(w)].sure, 0)
  /\ UNCHANGED cache

\* With a query, and for a URL maybe a second one; a failure is not stored.
CacheFailure(w) ==                     \* mutant: a failure is stored as a miss
  Store(Normal(w), [result |-> "miss", sure |-> SurelyHit(w)])
OnFailure(w) == UNCHANGED cache
NotKnown(w) == Lookupable(w) /\ ~ Dismissed(w) /\ Normal(w) \notin DOMAIN cache
Longest(w) == IF IsURL(w) THEN 2 * QueryTime ELSE QueryTime
Ask(w) ==
  /\ NotKnown(w)
  /\ \/ \E payload \in FreshLookup(w) :
           /\ Answer(Fresh(w, payload).result, Fresh(w, payload).sure, Longest(w))
           /\ Store(Normal(w), Fresh(w, payload))
     \/ Answer("degraded", SurelyHit(w), Longest(w)) /\ OnFailure(w)

\* Values are looked up one after the other.
Serve ==
  /\ script = "asking" /\ Len(results) < Len(Values) /\ spent =< HttpTimeout
  /\ LET w == Values[Len(results) + 1] IN Dismiss(w) \/ Recall(w) \/ Ask(w)
  /\ UNCHANGED <<corpusVars, script, alert, sent, lost>>

\* The service answers others in between, more scripts and Graylog.
ServeOther(w) ==
  /\ NotKnown(w)
  /\ \E payload \in FreshLookup(w) : Store(Normal(w), Fresh(w, payload))
  /\ UNCHANGED <<corpusVars, scriptVars>>

\* The time to live of an entry ends.
Forget(v) ==
  /\ cache' = [x \in DOMAIN cache \ {v} |-> cache[x]]
  /\ UNCHANGED <<corpusVars, scriptVars>>

Script == GiveUp \/ Receive \/ Send \/ Exit

Next ==
  \/ CorpusNext /\ UNCHANGED <<cache, scriptVars>>
  \/ Start \/ Script \/ Serve
  \/ \E w \in Requested : ServeOther(w)
  \/ \E v \in DOMAIN cache : Forget(v)

\* A process runs until it exits, and its timeout runs too.
Spec == Init /\ [][Next]_vars
FairSpec == Spec /\ WF_vars(Script)
-----------------------------------------------------------------------------
(* Safety *)

\* A script that got its reply has tried exactly one event per hit, in the
\* order of its indicators, whatever became of the others; without a reply, or
\* for anything but a hit, analysisd hears nothing.
Exits == script # "idle" /\ script' = "idle"
OneEventPerHit ==
  /\ Range(sent) = IF script = "sending" THEN Hits ELSE {}
  /\ \A j, k \in 1 .. Len(sent) : j < k => sent[j] < sent[k]
EventsMatchHits == [][Exits => OneEventPerHit]_vars

\* The whole way: an indicator in an alert, in whatever writing, that OpenCTI
\* could only have answered with a hit when it was asked - now, or when the
\* answer was stored, up to payload_ttl_s ago - ends as an event: through
\* extraction, normal form, set, cache, query and policy, unless its query
\* failed, the request got no reply, the event could not be written or the alert
\* has too many indicators.
Reported(w) ==
  \E k \in 1 .. Len(results) :
    /\ Normal(Values[k]) = Normal(w)
    /\ sure[k] /\ results[k] # "degraded" => k \in Range(sent)
SureHitsReported == [][
  (Exits /\ script = "sending" /\ Len(Distinct(Candidates(alert))) =< MaxIndicators) =>
     \A w \in Range(alert.fields) \cup Range(alert.blob) : Lookupable(w) => Reported(w)]_vars

(* Liveness *)

\* Every script that has started ends.
ScriptEnds == script # "idle" ~> script = "idle"
=============================================================================
