---------------------------- MODULE CorpusLookup ----------------------------
(***************************************************************************)
(* What a lookup finds in OpenCTI's corpus: the first load of the set with *)
(* its budget (membership_loader.py, bootstrap.py), the set as a filter    *)
(* (split.py), the query (live.py, queries.py) and the hit policy          *)
(* (mapper.py), over values as Normalization has them.                     *)
(*                                                                         *)
(* Who builds the set is in SharedMembership, how it follows the stream in *)
(* MembershipSync, the payload cache in LookupPath and AlertEnrichment.    *)
(* Here one worker loads a corpus that may grow at any time, and a fresh   *)
(* lookup is the set of replies it may give in a state.                    *)
(***************************************************************************)
EXTENDS Integers, FiniteSets, Normalization, MemoryBudget

CONSTANTS
  Observables, Indicators,
  Late,          \* the observables that are ingested while the set is loaded
  Shown,         \* observable_value of an observable
  Keys,          \* the strings an exact query finds it by: a file's digests
  LinksOf,       \* the indicators an observable is linked to
  Score,         \* x_opencti_score
  PageSize,      \* membership_bootstrap_page_size
  Deployments,   \* the settings the service may run with
  Requested      \* the values lookups are made for

ItemSize == 8    \* bytes of a fingerprint

Settings == [source : {"observables", "indicators"}, mode : {"auto", "always"},
             policy : {"all", "live_only", "expiry_aware"}, min_score : Nat, memory : Memory]

ASSUME CorpusAssumption ==
  /\ Late \subseteq Observables /\ IsFiniteSet(Observables)
  /\ Shown \in [Observables -> Writings]
  /\ Keys \in [Observables -> SUBSET Writings]
  /\ LinksOf \in [Observables -> SUBSET Indicators]
  /\ Score \in [Indicators -> Nat]
  /\ IsFiniteSet(Indicators) /\ PageSize \in Nat \ {0}
ASSUME SettingsAssumption == Deployments \subseteq Settings
ASSUME RequestedAssumption == Requested \subseteq Writings

VARIABLES
  settings,
  present,     \* OpenCTI: its observables
  revoked,     \* OpenCTI: the indicators that are revoked
  lapsed,      \* OpenCTI: those whose valid_until has passed
  load,        \* where the load is
  counted,     \* how many observables OpenCTI has reported
  unread,      \* the nodes it has not read yet: observables, or indicators
  missed,      \* ghost: the observables that came when it was past their nodes
  emitted,     \* how many values it has read
  packed       \* the values the set has been given

corpus == <<settings, present, revoked, lapsed>>
loading == <<load, counted, unread, missed, emitted, packed>>
corpusVars == <<settings, present, revoked, lapsed, load, counted, unread, missed,
                emitted, packed>>

Revoked(i) == i \in revoked
Expired(i) == i \in lapsed

CorpusTypeOK ==
  /\ settings \in Deployments /\ present \subseteq Observables
  /\ revoked \subseteq Indicators /\ lapsed \subseteq Indicators
  /\ load \in {"start", "reading", "serving", "too_large"}
  /\ unread \subseteq Observables \cup Indicators /\ missed \subseteq Late
  /\ counted \in Nat /\ emitted \in Nat /\ packed \subseteq Writings

CorpusInit ==
  /\ settings \in Deployments
  /\ present = Observables \ Late
  /\ revoked = {} /\ lapsed = {}
  /\ load = "start" /\ counted = 0 /\ unread = {} /\ missed = {} /\ emitted = 0 /\ packed = {}

-----------------------------------------------------------------------------
(* OpenCTI *)

\* The clock passes valid_until, and the flag is set: by a person at any time, or
\* by OpenCTI, some time after the clock.
Lapse(i) ==
  /\ ~ Expired(i) /\ lapsed' = lapsed \cup {i}
  /\ UNCHANGED <<settings, present, revoked, loading>>
Revoke(i) ==
  /\ ~ Revoked(i) /\ revoked' = revoked \cup {i}
  /\ UNCHANGED <<settings, present, lapsed, loading>>

\* What comes late to the observables is on a page still to be read, or the
\* cursor is past it; no node is read again. Of the indicators, each brings the
\* observables it has when its page is read.
Ingest ==
  /\ present # Observables /\ present' = Observables
  /\ \E ahead \in SUBSET Late :
       /\ ahead = {} \/ (load = "reading" /\ unread # {} /\ settings.source = "observables")
       /\ unread' = unread \cup ahead
       /\ missed' =
            IF load = "start" THEN {}
            ELSE IF settings.source = "observables" THEN Late \ ahead
            ELSE {o \in Late : LinksOf[o] \cap unread = {}}
  /\ UNCHANGED <<settings, revoked, lapsed, load, counted, emitted, packed>>

-----------------------------------------------------------------------------
(* load, iter_values *)

\* The caches of all workers come off first.
Sized == settings.memory
Caches == Sized.workers * PayloadBudget(UsableOf(Sized), Sized.workers, Sized.cache)
Budget == MembershipBudget(UsableOf(Sized), Sized.workers, Sized.cache)

\* (budget_bytes // 8) or None: 0 stands for no limit.
EntryLimit == Budget \div ItemSize
AtLimit == EntryLimit > 0 /\ emitted >= EntryLimit

\* load counts all observables, whatever source is read.
Affordable ==
  ItemSize * Cardinality(present) =< Budget \/ settings.mode = "always"

Nodes == IF settings.source = "observables" THEN present ELSE Indicators
Size ==
  /\ load = "start"
  /\ counted' = Cardinality(present)
  /\ IF Affordable
       THEN load' = "reading" /\ unread' = Nodes
       ELSE load' = "too_large" /\ UNCHANGED unread
  /\ UNCHANGED <<corpus, missed, emitted, packed>>

\* The values of a page, each with the node it is read from: one that is
\* linked twice comes twice. Those that can never be looked up are dropped.
Entries(page) ==
  {e \in present \X page :
     /\ IF settings.source = "observables" THEN e[2] = e[1] ELSE e[2] \in LinksOf[e[1]]
     /\ Lookupable(Shown[e[1]])}

\* The limit ends the reading in the middle of a page.
WholePage(page) == Cardinality(Entries(page))      \* mutant: the ceiling is ignored
CountsBefore(page) ==                              \* mutant: a value counts before it is read
  IF EntryLimit = 0 \/ emitted + Cardinality(Entries(page)) < EntryLimit
    THEN Cardinality(Entries(page)) ELSE EntryLimit - emitted - 1
Room(page) ==
  IF EntryLimit = 0 \/ emitted + Cardinality(Entries(page)) =< EntryLimit
    THEN Cardinality(Entries(page)) ELSE EntryLimit - emitted

ReadPage(page) ==
  /\ load = "reading" /\ ~ AtLimit
  /\ page # {} /\ (Cardinality(page) = PageSize \/ page = unread)
  /\ unread' = unread \ page
  /\ emitted' = emitted + Room(page)
  /\ \E taken \in SUBSET Entries(page) :
       /\ Cardinality(taken) = Room(page)
       /\ packed' = packed \cup {Normal(Shown[e[1]]) : e \in taken}
  /\ UNCHANGED <<corpus, load, counted, missed>>

\* The limit or the last page is reached, and the set serves.
FinishLoad ==
  /\ load = "reading" /\ (unread = {} \/ AtLimit)
  /\ load' = "serving" /\ unread' = {}
  /\ UNCHANGED <<corpus, counted, missed, emitted, packed>>

\* A query of the load fails: it is tried again from the start.
LoadFails ==
  /\ load = "reading"
  /\ load' = "start" /\ unread' = {} /\ missed' = {} /\ counted' = 0 /\ emitted' = 0
  /\ packed' = {}
  /\ UNCHANGED corpus

CorpusNext ==
  \/ Ingest \/ Size \/ FinishLoad \/ LoadFails
  \/ \E i \in Indicators : Revoke(i) \/ Lapse(i)
  \/ \E page \in SUBSET unread : Cardinality(page) =< PageSize /\ ReadPage(page)

CorpusSpec == CorpusInit /\ [][CorpusNext]_corpusVars

-----------------------------------------------------------------------------
(* mapper.py *)

PassesPolicy(i) ==
  \/ settings.policy = "all"
  \/ ~ Revoked(i)
  \/ settings.policy = "expiry_aware" /\ Expired(i)

Survivors(o) == {i \in LinksOf[o] : PassesPolicy(i) /\ Score[i] >= settings.min_score}

HigherScore(i, j) == Score[i] > Score[j]         \* mutant: an expired one may lead
Outranks(i, j) ==
  \/ ~ Expired(i) /\ Expired(j)
  \/ Expired(i) = Expired(j) /\ Score[i] > Score[j]

\* build_payload: the payload is the one of the best survivor; ties are open.
MISS == [found |-> FALSE]
Payloads(o) ==
  {[found |-> TRUE, observable |-> o, primary |-> i, expired |-> Expired(i)] :
     i \in {s \in Survivors(o) : \A t \in Survivors(o) : ~ Outranks(t, s)}}
BuildPayload(o) == IF Survivors(o) = {} THEN {MISS} ELSE Payloads(o)

-----------------------------------------------------------------------------
(* LiveBackend, SplitBackend *)

\* An exact match, of which the query asks for the first one only.
Matching(n) == {o \in present : n \in Keys[o]}
Query(n) == IF Matching(n) = {} THEN {MISS} ELSE UNION {BuildPayload(o) : o \in Matching(n)}

\* The host of a URL is asked for among the domain types, where an address
\* never is.
HostQuery(w) ==
  IF w.name \in Addresses THEN {MISS} ELSE Query(UrlHost(Normal(w)))
Fetch(w) ==
  LET exact == Query(Normal(w))
  IN  IF IsURL(w) /\ MISS \in exact THEN (exact \ {MISS}) \cup HostQuery(w) ELSE exact

DismissedExact(w) == load = "serving" /\ Normal(w) \notin packed    \* mutant: the host is not tried
Dismissed(w) ==
  /\ load = "serving"
  /\ Normal(w) \notin packed
  /\ IsURL(w) => UrlHost(Normal(w)) \notin packed

\* A lookup that finds nothing in the payload cache.
FreshLookup(w) == IF ~ Lookupable(w) \/ Dismissed(w) THEN {MISS} ELSE Fetch(w)

-----------------------------------------------------------------------------
(* Safety *)

\* Whatever the source and the mode, the set and the payload caches of all
\* workers, filled to their limits, stay together within the memory the service
\* allows itself, unless that leaves no room for a single entry: then the set
\* has no limit at all.
BudgetHeld ==
  EntryLimit > 0 =>
    ItemSize * Cardinality(packed) + Caches =< UsableOf(Sized)

\* A corpus found affordable is loaded whole: values that are dropped leave
\* room. Reading the indicators voids this, a value counts there once per
\* link, and so does a corpus that grows after the count, or the mode "always".
AffordableComplete ==
  (/\ load = "serving" /\ settings.mode = "auto" /\ settings.source = "observables"
   /\ counted = Cardinality(present))
     => \A o \in present : Lookupable(Shown[o]) => Normal(Shown[o]) \in packed

\* A value the set dismisses is one OpenCTI would not report: across the drops
\* and the normal form of the load, the fallback to the host of a URL, policy
\* and links, a hit is turned into a miss only by a set that was cut, by a file
\* that is shown with another of its digests than the one asked for, by an observable
\* whose value normalize() does not classify, such as a host name of one label,
\* or by one that came to OpenCTI when the load was past its place: that one is
\* left to the stream (MembershipSync).
Asked(w) == {Normal(w)} \cup (IF IsURL(w) THEN {UrlHost(Normal(w))} ELSE {})
ShownAsAsked(n) ==
  \A o \in Matching(n) : Normal(Shown[o]) = n /\ Type(Shown[o]) # "unknown"
Overtaken(n) == Matching(n) \cap missed # {}
DismissalsAgree ==
  \A w \in Requested :
    (/\ Lookupable(w) /\ Dismissed(w) /\ ~ AtLimit
     /\ \A n \in Asked(w) : ShownAsAsked(n) /\ ~ Overtaken(n))
       => Fetch(w) = {MISS}

\* In whatever order the clock and the revocations come, a fresh reply rests on
\* an indicator revoked within its validity only under the policy "all", on a
\* revoked one not at all under "live_only", and is called expired only if no
\* live indicator with a sufficient score stands behind the observable it comes
\* from. (A cached reply may outlive a revocation by its time to live:
\* LookupPath.)
Live(i) == ~ Revoked(i) /\ ~ Expired(i)
HitsBacked ==
  \A w \in Requested : \A payload \in FreshLookup(w) \ {MISS} :
    /\ \E n \in Asked(w) : n \in Keys[payload.observable]
    /\ payload.primary \in LinksOf[payload.observable]
    /\ Revoked(payload.primary) =>
         settings.policy = "all" \/ (settings.policy = "expiry_aware" /\ Expired(payload.primary))
    /\ payload.expired =>
         \A i \in LinksOf[payload.observable] :
            ~ Live(i) \/ Score[i] < settings.min_score
=============================================================================
