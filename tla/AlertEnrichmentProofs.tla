----------------------- MODULE AlertEnrichmentProofs -----------------------
(* Proofs about AlertEnrichment, for any corpus, deployment and alerts. *)
EXTENDS AlertEnrichment, CorpusLookupProofs, NaturalsInduction, WellFoundedInduction

-----------------------------------------------------------------------------
(* Members picked from a sequence *)

LEMMA LeastPosition ==
  ASSUME NEW T \in SUBSET Nat, T # {}
  PROVE  \E x \in T : \A y \in T : x =< y
  <1>1. PICK x \in T : \A y \in T : ~ (<<y, x>> \in OpToRel(<, Nat))
    BY WFMin, NatLessThanWellFounded, Zenon
  <1>2. \A y \in T : ~ (y < x)
    BY <1>1, Zenon DEF OpToRel
  <1> QED
    BY <1>2

\* Ranking positions by how many are not after them numbers them from 1.
LEMMA Ranks ==
  ASSUME NEW N \in Nat, NEW P \in SUBSET (1 .. N)
  PROVE  /\ Cardinality(P) \in Nat
         /\ \A k \in P : Cardinality({j \in P : j =< k}) \in 1 .. Cardinality(P)
         /\ \A n \in 1 .. Cardinality(P) : \E k \in P : Cardinality({j \in P : j =< k}) = n
         /\ \A k, m \in P :
              Cardinality({j \in P : j =< k}) = Cardinality({j \in P : j =< m}) => k = m
  <1> DEFINE upto(k) == {j \in P : j =< k}
             rank == [k \in P |-> Cardinality(upto(k))]
  <1>0. IsFiniteSet(1 .. N) /\ P \subseteq Nat
    BY FS_Interval
  <1>1. IsFiniteSet(P) /\ Cardinality(P) \in Nat
    BY <1>0, FS_Subset, FS_CardinalityType
  <1>2. ASSUME NEW k \in P
        PROVE  IsFiniteSet(upto(k)) /\ Cardinality(upto(k)) \in 1 .. Cardinality(P)
    <2>1. upto(k) \subseteq P /\ k \in upto(k)
      OBVIOUS
    <2>2. IsFiniteSet(upto(k)) /\ Cardinality(upto(k)) =< Cardinality(P)
      BY <1>1, <2>1, FS_Subset
    <2>3. Cardinality(upto(k)) \in Nat /\ Cardinality(upto(k)) # 0
      BY <2>1, <2>2, FS_CardinalityType, FS_EmptySet
    <2> QED
      BY <1>1, <2>2, <2>3
  <1>3. ASSUME NEW k \in P, NEW m \in P, k < m
        PROVE  Cardinality(upto(k)) < Cardinality(upto(m))
    <2>1. upto(k) \subseteq upto(m) /\ m \in upto(m) /\ m \notin upto(k)
      <3>1. k \in Nat /\ m \in Nat
        BY <1>0
      <3>2. \A j \in P : j =< k => j =< m
        BY <1>0, <1>3, <3>1
      <3>3. ~ (m =< k) /\ m =< m
        BY <1>3, <3>1
      <3> HIDE DEF rank
      <3>4. upto(k) \subseteq upto(m)
        BY <3>2, Zenon
      <3>5. m \in upto(m) /\ m \notin upto(k)
        BY <3>3, Zenon
      <3> QED
        BY <3>4, <3>5, Zenon
    <2>2. Cardinality(upto(k)) =< Cardinality(upto(m)) /\ upto(k) # upto(m)
      BY <1>2, <2>1, FS_Subset
    <2>3. Cardinality(upto(k)) # Cardinality(upto(m))
      BY <1>2, <2>1, <2>2, FS_Subset
    <2> QED
      BY <1>2, <2>2, <2>3
  <1>4. ASSUME NEW k \in P, NEW m \in P, Cardinality(upto(k)) = Cardinality(upto(m))
        PROVE  k = m
    <2>1. Cardinality(upto(k)) \in Nat /\ k \in Nat /\ m \in Nat
      BY <1>2
    <2> QED
      BY <1>3, <1>4, <2>1
  <1>5. rank \in Injection(P, 1 .. Cardinality(P))
    BY <1>2, <1>4 DEF Injection, IsInjective
  <1>6. IsFiniteSet(1 .. Cardinality(P)) /\ Cardinality(1 .. Cardinality(P)) = Cardinality(P)
    BY <1>1, FS_Interval
  <1>7. rank \in Surjection(P, 1 .. Cardinality(P))
    BY <1>5, <1>6, FS_Injection
  <1>8. \A n \in 1 .. Cardinality(P) : \E k \in P : Cardinality(upto(k)) = n
    BY <1>7 DEF Surjection
  <1> QED
    BY <1>1, <1>2, <1>4, <1>8

\* What is picked is a sequence of just the members at the positions.
LEMMA PickedFacts ==
  ASSUME NEW T, NEW s \in Seq(T), NEW P \in SUBSET (1 .. Len(s))
  PROVE  /\ Picked(s, P) \in Seq(T)
         /\ \A k \in P : \E n \in 1 .. Len(Picked(s, P)) : Picked(s, P)[n] = s[k]
  <1> DEFINE R(k) == Cardinality({j \in P : j =< k})
             At(n) == CHOOSE k \in P : R(k) = n
  <1>0. Len(s) \in Nat
    OBVIOUS
  <1>1. /\ Cardinality(P) \in Nat
        /\ \A k \in P : R(k) \in 1 .. Cardinality(P)
        /\ \A n \in 1 .. Cardinality(P) : \E k \in P : R(k) = n
        /\ \A k, m \in P : R(k) = R(m) => k = m
    BY <1>0, Ranks
  <1>2. Picked(s, P) = [n \in 1 .. Cardinality(P) |-> s[At(n)]]
    BY DEF Picked
  <1> HIDE DEF R
  <1>3. \A n \in 1 .. Cardinality(P) : At(n) \in P /\ R(At(n)) = n
    BY <1>1
  <1> HIDE DEF At
  <1>4. \A n \in 1 .. Cardinality(P) : s[At(n)] \in T
    <2> TAKE n \in 1 .. Cardinality(P)
    <2>1. At(n) \in 1 .. Len(s)
      BY <1>3
    <2> QED
      BY <2>1
  <1>5. Picked(s, P) \in Seq(T) /\ Len(Picked(s, P)) = Cardinality(P)
    BY <1>1, <1>2, <1>4
  <1>6. \A k \in P : R(k) \in 1 .. Cardinality(P) /\ Picked(s, P)[R(k)] = s[k]
    <2> TAKE k \in P
    <2>1. R(k) \in 1 .. Cardinality(P)
      BY <1>1
    <2>2. At(R(k)) \in P /\ R(At(R(k))) = R(k)
      BY <1>3, <2>1
    <2>3. At(R(k)) = k
      BY <1>1, <2>2
    <2> QED
      BY <1>2, <2>1, <2>3
  <1> QED
    BY <1>5, <1>6

LEMMA DistinctFacts ==
  ASSUME NEW T, NEW s \in Seq(T)
  PROVE  /\ Distinct(s) \in Seq(T)
         /\ \A k \in 1 .. Len(s) : \E n \in 1 .. Len(Distinct(s)) : Distinct(s)[n] = s[k]
  <1>1. Firsts(s) \in SUBSET (1 .. Len(s))
    BY DEF Firsts
  <1>2. ASSUME NEW k \in 1 .. Len(s)
        PROVE  \E j \in Firsts(s) : s[j] = s[k]
    <2> DEFINE same == {j \in 1 .. Len(s) : s[j] = s[k]}
    <2>1. same \in SUBSET Nat /\ same # {}
      OBVIOUS
    <2>2. PICK j \in same : \A i \in same : j =< i
      BY <2>1, LeastPosition
    <2>3. \A i \in 1 .. j - 1 : s[i] # s[j]
      BY <2>2
    <2> QED
      BY <2>2, <2>3 DEF Firsts
  <1>3. /\ Distinct(s) \in Seq(T)
        /\ \A j \in Firsts(s) : \E n \in 1 .. Len(Distinct(s)) : Distinct(s)[n] = s[j]
    BY <1>1, PickedFacts DEF Distinct
  <1> QED
    BY <1>2, <1>3

-----------------------------------------------------------------------------
(* extract_indicators *)

\* Neither step of the extraction changes the normal form of what is looked up.
LEMMA Stripping ==
  ASSUME NEW w \in Writings
  PROVE  Strip(w) \in Writings /\ Normal(Strip(w)) = Normal(w)
  <1>1. /\ Strip(w) \in Writings
        /\ Strip(w).name = w.name /\ Strip(w).path = w.path
        /\ Strip(w).marks = w.marks \ {"spaced"}
    BY DEF Strip, Writings
  <1>2. Type(Strip(w)) = Type(w)
    BY <1>1 DEF Type, IsURL
  <1>3. Removed(Strip(w)) = Removed(w) /\ "spaced" \in Removed(w)
    BY <1>2 DEF Removed, Defang
  <1>4. Strip(w).marks \ Removed(w) = w.marks \ Removed(w)
    BY <1>1, <1>3
  <1> QED
    BY <1>1, <1>3, <1>4 DEF Normal, Writings

LEMMA Lowering ==
  ASSUME NEW w \in Writings
  PROVE  Lower(w) \in Writings /\ (Lookupable(w) => Normal(Lower(w)) = Normal(w))
  <1>1. /\ Lower(w) \in Writings
        /\ Lower(w).name = w.name /\ Lower(w).path = w.path
        /\ Lower(w).marks = w.marks \ {"upper"}
    BY DEF Lower, Writings
  <1>2. Type(Lower(w)) = Type(w)
    BY <1>1 DEF Type, IsURL
  <1>3. ASSUME Lookupable(w)
        PROVE  Removed(Lower(w)) = Removed(w) /\ "upper" \in Removed(w)
    BY <1>2, <1>3 DEF Removed, Lookupable, Type
  <1>4. ASSUME Lookupable(w)
        PROVE  Lower(w).marks \ Removed(w) = w.marks \ Removed(w)
    BY <1>1, <1>3, <1>4
  <1> QED
    BY <1>1, <1>3, <1>4 DEF Normal, Writings

\* Whatever can be looked up becomes a candidate, in another writing perhaps.
LEMMA CandidatesCover ==
  ASSUME NEW a, a.fields \in Seq(Writings), a.blob \in Seq(Writings)
  PROVE  /\ Candidates(a) \in Seq(Writings)
         /\ \A w \in Range(a.fields) \cup Range(a.blob) :
              Lookupable(w) =>
                \E n \in 1 .. Len(Candidates(a)) : Normal(Candidates(a)[n]) = Normal(w)
  <1> DEFINE fields == Stripped(a)  blob == Lowered(a)
             kept == Picked(fields, Public(fields))
  <1>1. /\ fields \in Seq(Writings) /\ Len(fields) = Len(a.fields)
        /\ \A k \in 1 .. Len(a.fields) : fields[k] = Strip(a.fields[k])
    BY Stripping DEF Stripped
  <1>2. /\ blob \in Seq(Writings) /\ Len(blob) = Len(a.blob)
        /\ \A k \in 1 .. Len(a.blob) : blob[k] = Lower(a.blob[k])
    BY Lowering DEF Lowered, Lower
  <1>3. Candidates(a) = kept \o blob
    BY DEF Candidates
  <1> HIDE DEF fields, blob
  <1>4. Public(fields) \in SUBSET (1 .. Len(fields))
    BY DEF Public
  <1>5. /\ kept \in Seq(Writings)
        /\ \A k \in Public(fields) : \E n \in 1 .. Len(kept) : kept[n] = fields[k]
    BY <1>1, <1>4, PickedFacts
  <1> HIDE DEF kept
  <1>6. Candidates(a) \in Seq(Writings)
    BY <1>2, <1>3, <1>5
  <1>7. ASSUME NEW w \in Range(a.fields), Lookupable(w)
        PROVE  \E n \in 1 .. Len(Candidates(a)) : Normal(Candidates(a)[n]) = Normal(w)
    <2>1. PICK k \in 1 .. Len(a.fields) : a.fields[k] = w
      BY DEF Range
    <2>2. w \in Writings /\ fields[k] = Strip(w)
      BY <1>1, <2>1
    <2>3. ~ LooksPrivate(Strip(w))
      BY <1>7, <2>2 DEF LooksPrivate, Lookupable, Skipped, Strip, IsURL, Writings
    <2>4. k \in Public(fields)
      BY <1>1, <2>2, <2>3 DEF Public
    <2>5. PICK n \in 1 .. Len(kept) : kept[n] = Strip(w)
      BY <1>5, <2>2, <2>4
    <2>6. n \in 1 .. Len(Candidates(a)) /\ Candidates(a)[n] = Strip(w)
      BY <1>2, <1>3, <1>5, <2>5
    <2> QED
      BY <2>2, <2>6, Stripping
  <1>8. ASSUME NEW w \in Range(a.blob), Lookupable(w)
        PROVE  \E n \in 1 .. Len(Candidates(a)) : Normal(Candidates(a)[n]) = Normal(w)
    <2>1. PICK k \in 1 .. Len(a.blob) : a.blob[k] = w
      BY DEF Range
    <2>2. w \in Writings /\ blob[k] = Lower(w) /\ k \in 1 .. Len(blob)
      BY <1>2, <2>1
    <2>3. /\ Len(kept) + k \in 1 .. Len(Candidates(a))
          /\ Candidates(a)[Len(kept) + k] = Lower(w)
      BY <1>2, <1>3, <1>5, <2>2
    <2> QED
      BY <1>8, <2>2, <2>3, Lowering
  <1> QED
    BY <1>6, <1>7, <1>8

\* The indicators of an alert are values, no more than the limit, and all the
\* candidates unless the limit cuts them.
LEMMA ExtractFacts ==
  ASSUME NEW a \in Alerts
  PROVE  /\ ExtractIndicators(a) \in Seq(Writings)
         /\ Len(ExtractIndicators(a)) =< MaxIndicators
         /\ Len(Distinct(Candidates(a))) =< MaxIndicators =>
              \A w \in Range(a.fields) \cup Range(a.blob) :
                Lookupable(w) =>
                  \E n \in 1 .. Len(ExtractIndicators(a)) :
                    Normal(ExtractIndicators(a)[n]) = Normal(w)
  <1> DEFINE d == Distinct(Candidates(a))
  <1>1. a.fields \in Seq(Writings) /\ a.blob \in Seq(Writings)
    BY AlertsAssumption, RequestedAssumption
  <1>2. Candidates(a) \in Seq(Writings)
    BY <1>1, CandidatesCover
  <1>3. /\ d \in Seq(Writings)
        /\ \A k \in 1 .. Len(Candidates(a)) :
             \E n \in 1 .. Len(d) : d[n] = Candidates(a)[k]
    BY <1>2, DistinctFacts
  <1>4. ExtractIndicators(a) = SubSeq(d, 1, IF Len(d) > MaxIndicators THEN MaxIndicators
                                                                  ELSE Len(d))
    BY DEF ExtractIndicators, FirstOf
  <1> HIDE DEF d
  <1>5. /\ ExtractIndicators(a) \in Seq(Writings)
        /\ Len(ExtractIndicators(a)) =< MaxIndicators
    BY <1>3, <1>4, LimitsAssumption
  <1>6. ASSUME Len(d) =< MaxIndicators
        PROVE  ExtractIndicators(a) = d
    BY <1>3, <1>4, <1>6, LimitsAssumption
  <1>7. ASSUME Len(d) =< MaxIndicators, NEW w \in Range(a.fields) \cup Range(a.blob),
               Lookupable(w)
        PROVE  \E n \in 1 .. Len(d) : Normal(d[n]) = Normal(w)
    <2>1. PICK k \in 1 .. Len(Candidates(a)) : Normal(Candidates(a)[k]) = Normal(w)
      BY <1>1, <1>7, CandidatesCover
    <2> QED
      BY <1>3, <2>1
  <1> QED
    BY <1>5, <1>6, <1>7 DEF d

-----------------------------------------------------------------------------
(* A script and its request *)

ScriptTypeOK ==
  /\ script \in {"idle", "asking", "sending"}
  /\ alert \in IF script = "idle" THEN {NoAlert} ELSE Alerts
  /\ results \in Seq({"hit", "miss", "degraded"})
  /\ sure \in Seq(BOOLEAN) /\ Len(sure) = Len(results)
  /\ spent \in 0 .. HttpTimeout + 1
  /\ sent \in Seq(1 .. Len(results)) /\ lost \subseteq 1 .. Len(results)

\* The results are those of the first indicators, all of them once the reply is
\* there.
Aligned ==
  /\ script = "idle" => results = <<>>
  /\ script = "asking" => Len(results) =< Len(Values)
  /\ script = "sending" => Len(results) = Len(Values)

\* What has been sent are hits in their order, all of them before those that
\* are left.
InOrder ==
  /\ script # "sending" => sent = <<>>
  /\ \A k \in 1 .. Len(sent) : sent[k] \in Hits /\ \A u \in Unsent : sent[k] < u
  /\ \A j, k \in 1 .. Len(sent) : j < k => sent[j] < sent[k]

\* An indicator that could only be a hit was answered with one, or not at all.
SureAnswered ==
  \A k \in 1 .. Len(results) :
    sure[k] /\ results[k] # "degraded" => results[k] = "hit"

ScriptInv == ScriptTypeOK /\ Aligned /\ InOrder /\ SureAnswered

LEMMA ValuesFacts ==
  ASSUME ScriptTypeOK, script # "idle"
  PROVE  Values \in Seq(Writings) /\ Len(Values) \in Nat /\ Len(Values) =< MaxIndicators
  <1>1. Values \in Seq(Writings) /\ Len(Values) =< MaxIndicators
    BY ExtractFacts DEF ScriptTypeOK, Values
  <1> QED
    BY <1>1

\* Where something is left to be sent, NextHit is the first of it.
LEMMA NextHitFacts ==
  ASSUME results \in Seq({"hit", "miss", "degraded"}), Unsent # {}
  PROVE  NextHit \in Unsent /\ \A u \in Unsent : NextHit =< u
  <1>1. Unsent \in SUBSET Nat
    BY DEF Unsent, Hits
  <1> QED
    BY <1>1, LeastPosition DEF NextHit

\* Whatever is no miss is found.
LEMMA FoundUnlessMiss ==
  ASSUME NEW n, NEW payload \in Query(n), payload # MISS
  PROVE  payload.found = TRUE
  <1>1. PICK o \in Matching(n) : payload \in BuildPayload(o)
    BY DEF Query
  <1>2. payload \in Payloads(o)
    BY <1>1 DEF BuildPayload
  <1> QED
    BY <1>2 DEF Payloads

\* The host of a URL that is an address has no observable with that normal form.
LEMMA SureHost ==
  ASSUME CoverInv, NEW w \in Writings, NEW n, n = UrlHost(Normal(w)),
         Type(n) # "ip", Matching(n) # {}, ShownAsAsked(n)
  PROVE  w.name \notin Addresses
  <1> SUFFICES ASSUME w.name \in Addresses PROVE FALSE
    OBVIOUS
  <1>1. n.name = w.name /\ n.path = NoPath
    BY DEF UrlHost, Normal, Writings
  <1>2. "dot" \in n.marks
    BY <1>1 DEF Type, IsURL
  <1>3. PICK o \in Matching(n) : Normal(Shown[o]) = n /\ Type(Shown[o]) # "unknown"
    BY DEF ShownAsAsked
  <1>4. Shown[o] \in Writings
    BY CorpusAssumption DEF Matching, CoverInv, BudgetInv, ReadingFits
  <1> DEFINE x == Shown[o]
  <1> HIDE DEF x
  <1>5. /\ x \in Writings /\ Normal(x) = n /\ Type(x) # "unknown"
    BY <1>3, <1>4 DEF x
  <1>6. x.name = w.name /\ x.path = NoPath /\ "dot" \in x.marks
    BY <1>1, <1>2, <1>5 DEF Normal, Writings
  <1>7. w.name \notin Hosts
    BY NamesAssumption
  <1> QED
    BY <1>5, <1>6, <1>7 DEF Type, IsURL

\* An indicator OpenCTI answers only with a hit is not dismissed, and no query
\* for it comes back empty.
LEMMA SureHitAnswer ==
  ASSUME CoverInv, NEW w \in Writings, SurelyHit(w)
  PROVE  ~ Dismissed(w) /\ \A payload \in FreshLookup(w) : payload.found = TRUE
  <1>1. PICK n \in Asked(w) :
          /\ Type(n) # "ip" \/ ~ IsURL(w)
          /\ Matching(n) # {} /\ ShownAsAsked(n) /\ ~ Overtaken(n)
          /\ \A o \in Matching(n) : Survivors(o) # {}
    BY DEF SurelyHit
  <1>2. MISS \notin Query(n)
    <2>1. ASSUME NEW o \in Matching(n) PROVE MISS \notin BuildPayload(o)
      <3>1. BuildPayload(o) = Payloads(o)
        BY <1>1 DEF BuildPayload
      <3>2. \A payload \in Payloads(o) : payload.found = TRUE
        BY DEF Payloads
      <3>3. MISS.found = FALSE
        BY DEF MISS
      <3> QED
        BY <3>1, <3>2, <3>3
    <2> QED
      BY <1>1, <2>1 DEF Query
  <1>3. Lookupable(w) /\ ~ AtLimit
    BY DEF SurelyHit
  <1>4. ASSUME n # Normal(w)
        PROVE  IsURL(w) /\ n = UrlHost(Normal(w)) /\ w.name \notin Addresses
    <2>1. IsURL(w) /\ n = UrlHost(Normal(w))
      BY <1>4 DEF Asked
    <2> QED
      BY <1>1, <2>1, SureHost
  <1>5. \A o \in Matching(n) : Lookupable(Shown[o])
    <2> SUFFICES ASSUME NEW o \in Matching(n) PROVE Lookupable(Shown[o])
      OBVIOUS
    <2>1. Shown[o] \in Writings /\ Normal(Shown[o]) = n /\ Type(Shown[o]) # "unknown"
      BY <1>1, CorpusAssumption
         DEF Matching, ShownAsAsked, CoverInv, BudgetInv, ReadingFits
    <2>2. CASE n = Normal(w)
      BY <1>3, <2>1, <2>2, SameNormalForm
    <2>3. CASE n # Normal(w)
      BY <1>3, <1>4, <2>1, <2>3, HostCounts
    <2> QED
      BY <2>2, <2>3
  <1>6. ~ Dismissed(w)
    <2> SUFFICES ASSUME Dismissed(w) PROVE FALSE
      OBVIOUS
    <2>1. load = "serving" /\ n \notin packed
      BY <1>4 DEF Dismissed
    <2>2. Query(n) = {MISS}
      BY <1>1, <1>3, <1>5, <2>1, NotPackedNoHit
    <2> QED
      BY <1>2, <2>2
  <1>7. FreshLookup(w) = Fetch(w)
    BY <1>3, <1>6 DEF FreshLookup
  <1>8. MISS \notin Fetch(w)
    <2>1. CASE n = Normal(w)
      BY <1>2, <2>1 DEF Fetch
    <2>2. CASE n # Normal(w)
      <3>1. HostQuery(w) = Query(n)
        BY <1>4, <2>2 DEF HostQuery
      <3> QED
        BY <1>2, <3>1, <1>4, <2>2 DEF Fetch
    <2> QED
      BY <2>1, <2>2
  <1>9. \A payload \in FreshLookup(w) : payload.found = TRUE
    BY <1>7, <1>8, LookupAsks, FoundUnlessMiss
  <1> QED
    BY <1>6, <1>9

-----------------------------------------------------------------------------
(* The payload cache *)

\* What was stored when it could only have been a hit is one.
Truthful(entry) ==
  /\ entry \in [result : {"hit", "miss"}, sure : BOOLEAN]
  /\ entry.sure => entry.result = "hit"
CacheOK ==
  /\ DOMAIN cache \subseteq Writings
  /\ IsFiniteSet(DOMAIN cache) /\ Cardinality(DOMAIN cache) =< CacheMax
  /\ \A v \in DOMAIN cache : Truthful(cache[v])

LEMMA NormalIsWriting ==
  ASSUME NEW w \in Writings
  PROVE  Normal(w) \in Writings
  BY DEF Normal, Writings

LEMMA FreshIsTruthful ==
  ASSUME CoverInv, NEW w \in Writings, NEW payload \in FreshLookup(w)
  PROVE  Truthful(Fresh(w, payload))
  <1>1. SurelyHit(w) \in BOOLEAN
    BY DEF SurelyHit
  <1>2. SurelyHit(w) => payload.found = TRUE
    BY SureHitAnswer
  <1> QED
    BY <1>1, <1>2 DEF Fresh, Truthful

\* Storing an entry keeps the ceiling.
LEMMA StoreKeeps ==
  ASSUME CacheOK, NEW v \in Writings, NEW entry, Truthful(entry), Store(v, entry)
  PROVE  CacheOK'
  <1>1. PICK kept \in SUBSET (DOMAIN cache \ {v}) :
          /\ Cardinality(kept) < CacheMax
          /\ cache' = [x \in kept \cup {v} |-> IF x = v THEN entry ELSE cache[x]]
    BY DEF Store
  <1>2. IsFiniteSet(kept) /\ Cardinality(kept) \in Nat /\ v \notin kept
    BY <1>1, FS_Subset, FS_CardinalityType DEF CacheOK
  <1>3. DOMAIN cache' = kept \cup {v}
    BY <1>1
  <1>4. /\ IsFiniteSet(kept \cup {v})
        /\ Cardinality(kept \cup {v}) = Cardinality(kept) + 1
    BY <1>2, FS_AddElement
  <1>5. Cardinality(DOMAIN cache') =< CacheMax
    BY <1>1, <1>2, <1>3, <1>4, LimitsAssumption
  <1>6. \A x \in DOMAIN cache' : Truthful(cache'[x])
    <2> TAKE x \in DOMAIN cache'
    <2>1. CASE x = v
      BY <1>1, <2>1
    <2>2. CASE x # v
      BY <1>1, <1>3, <2>2 DEF CacheOK
    <2> QED
      BY <2>1, <2>2
  <1>7. DOMAIN cache' \subseteq Writings
    BY <1>1, <1>3 DEF CacheOK
  <1> QED
    BY <1>3, <1>4, <1>5, <1>6, <1>7 DEF CacheOK

LEMMA CacheStep == ScriptInv /\ CacheOK /\ CoverInv /\ [Next]_vars => CacheOK'
  <1> SUFFICES ASSUME ScriptInv, CacheOK, CoverInv, [Next]_vars PROVE CacheOK'
    OBVIOUS
  <1>1. CASE UNCHANGED cache
    BY <1>1 DEF CacheOK
  <1>2. ASSUME NEW w \in Writings, NEW payload \in FreshLookup(w),
               Store(Normal(w), Fresh(w, payload))
        PROVE  CacheOK'
    BY <1>2, NormalIsWriting, FreshIsTruthful, StoreKeeps
  <1>3. CASE Serve
    <2> DEFINE w == Values[Len(results) + 1]
    <2>1. script = "asking" /\ Len(results) < Len(Values) /\ (Dismiss(w) \/ Recall(w) \/ Ask(w))
      BY <1>3 DEF Serve
    <2>2. w \in Writings
      BY <2>1, ValuesFacts DEF ScriptInv, ScriptTypeOK
    <2> HIDE DEF w
    <2>3. CASE Ask(w)
      BY <1>1, <1>2, <2>2, <2>3 DEF Ask, OnFailure
    <2> QED
      BY <1>1, <2>1, <2>3 DEF Dismiss, Recall
  <1>4. ASSUME NEW w \in Requested, ServeOther(w) PROVE CacheOK'
    BY <1>2, <1>4, RequestedAssumption DEF ServeOther
  <1>5. ASSUME NEW v \in DOMAIN cache, Forget(v) PROVE CacheOK'
    <2>1. /\ DOMAIN cache' = DOMAIN cache \ {v}
          /\ \A x \in DOMAIN cache' : cache'[x] = cache[x]
      BY <1>5 DEF Forget
    <2>2. DOMAIN cache \ {v} \in SUBSET DOMAIN cache
      OBVIOUS
    <2>3. IsFiniteSet(DOMAIN cache') /\ Cardinality(DOMAIN cache') =< Cardinality(DOMAIN cache)
      BY <2>1, <2>2, FS_Subset DEF CacheOK
    <2>4. Cardinality(DOMAIN cache') \in Nat /\ Cardinality(DOMAIN cache) \in Nat
      BY <2>3, FS_CardinalityType DEF CacheOK
    <2>5. Cardinality(DOMAIN cache') =< CacheMax
      BY <2>3, <2>4, LimitsAssumption DEF CacheOK
    <2> QED
      BY <2>1, <2>3, <2>5 DEF CacheOK
  <1> QED
    BY <1>1, <1>3, <1>4, <1>5
       DEF Next, vars, Start, Script, GiveUp, Receive, Send, Exit

-----------------------------------------------------------------------------
(* Steps of a script *)

LEMMA InitScript == Init => ScriptInv
  <1> SUFFICES ASSUME Init PROVE ScriptInv
    OBVIOUS
  <1>1. ScriptTypeOK
    BY LimitsAssumption DEF Init, ScriptTypeOK
  <1> QED
    BY <1>1 DEF Init, ScriptInv, Aligned, InOrder, SureAnswered

LEMMA EndScript == End => ScriptInv'
  <1> SUFFICES ASSUME End PROVE ScriptInv'
    OBVIOUS
  <1>1. /\ script' = "idle" /\ alert' = NoAlert /\ results' = <<>> /\ sure' = <<>>
        /\ spent' = 0 /\ sent' = <<>> /\ lost' = {}
    BY DEF End
  <1>2. ScriptTypeOK'
    BY <1>1, LimitsAssumption DEF ScriptTypeOK
  <1> QED
    BY <1>1, <1>2 DEF ScriptInv, Aligned, InOrder, SureAnswered

LEMMA StartScript == ScriptInv /\ Start => ScriptInv'
  <1> SUFFICES ASSUME ScriptInv, Start PROVE ScriptInv'
    OBVIOUS
  <1>1. /\ script = "idle" /\ script' = "asking" /\ alert' \in Alerts
        /\ UNCHANGED <<results, sure, spent, sent, lost>>
        /\ results = <<>> /\ sent = <<>>
    BY DEF Start, ScriptInv, Aligned, InOrder
  <1>2. ScriptTypeOK'
    BY <1>1 DEF ScriptInv, ScriptTypeOK
  <1>3. Len(Values)' \in Nat
    BY <1>1, ExtractFacts DEF Values
  <1>4. Aligned'
    BY <1>1, <1>3 DEF Aligned
  <1> QED
    BY <1>1, <1>2, <1>4 DEF ScriptInv, InOrder, SureAnswered

LEMMA ReceiveScript == ScriptInv /\ Receive => ScriptInv'
  <1> SUFFICES ASSUME ScriptInv, Receive PROVE ScriptInv'
    OBVIOUS
  <1>1. /\ script = "asking" /\ script' = "sending" /\ spent' = 0
        /\ Len(results) = Len(Values)
        /\ UNCHANGED <<alert, results, sure, sent, lost>>
    BY DEF Receive
  <1>2. ScriptTypeOK'
    BY <1>1, LimitsAssumption DEF ScriptInv, ScriptTypeOK
  <1>3. Aligned'
    BY <1>1 DEF Aligned, Values
  <1>4. InOrder'
    BY <1>1 DEF ScriptInv, InOrder, Hits, Unsent, Range
  <1> QED
    BY <1>1, <1>2, <1>3, <1>4 DEF ScriptInv, SureAnswered

\* The hit that is sent next comes after those sent and before those left.
LEMMA SendScript == ScriptInv /\ Send => ScriptInv'
  <1> SUFFICES ASSUME ScriptInv, Send PROVE ScriptInv'
    OBVIOUS
  <1> DEFINE h == NextHit
  <1>1. /\ script = "sending" /\ Unsent # {} /\ sent' = Append(sent, h)
        /\ lost' = lost \/ lost' = lost \cup {h}
        /\ UNCHANGED <<script, alert, results, sure, spent>>
    BY DEF Send, AllSent
  <1>2. /\ results \in Seq({"hit", "miss", "degraded"}) /\ Len(results) \in Nat
        /\ sent \in Seq(1 .. Len(results))
    BY DEF ScriptInv, ScriptTypeOK
  <1>3. h \in Unsent /\ \A u \in Unsent : h =< u
    BY <1>1, <1>2, NextHitFacts
  <1> HIDE DEF h
  <1>4. h \in Hits /\ h \in 1 .. Len(results) /\ Hits \subseteq 1 .. Len(results)
    BY <1>3 DEF Unsent, Hits
  <1>5. ScriptTypeOK'
    <2>1. sent' \in Seq(1 .. Len(results)) /\ lost' \subseteq 1 .. Len(results)
      <3>1. sent' \in Seq(1 .. Len(results))
        BY <1>1, <1>2, <1>4
      <3>2. lost' \subseteq 1 .. Len(results)
        BY <1>1, <1>4 DEF ScriptInv, ScriptTypeOK
      <3> QED
        BY <3>1, <3>2
    <2> QED
      BY <1>1, <2>1 DEF ScriptInv, ScriptTypeOK
  <1>6. Aligned'
    BY <1>1 DEF ScriptInv, Aligned, Values
  <1>7. InOrder'
    <2>1. /\ Len(sent') = Len(sent) + 1 /\ Len(sent) \in Nat
          /\ sent'[Len(sent) + 1] = h
          /\ \A k \in 1 .. Len(sent) : sent'[k] = sent[k]
      BY <1>1, <1>2, <1>4
    <2>2. Hits' = Hits
      BY <1>1 DEF Hits
    <2>3. h \in Range(sent') /\ Range(sent) \subseteq Range(sent')
      <3>1. DOMAIN sent = 1 .. Len(sent) /\ DOMAIN sent' = 1 .. Len(sent) + 1
        BY <1>1, <1>2, <1>4, <2>1
      <3>2. Range(sent) = {sent[k] : k \in 1 .. Len(sent)}
        BY <3>1 DEF Range
      <3>3. Range(sent') = {sent'[k] : k \in 1 .. Len(sent) + 1}
        BY <3>1 DEF Range
      <3>4. h \in Range(sent')
        BY <2>1, <3>3
      <3>5. ASSUME NEW k \in 1 .. Len(sent) PROVE sent[k] \in Range(sent')
        BY <2>1, <3>3
      <3> QED
        BY <3>2, <3>4, <3>5
    <2>4. Unsent' \subseteq Unsent \ {h}
      BY <2>2, <2>3 DEF Unsent
    <2>5. \A u \in Unsent' : h < u
      <3> TAKE u \in Unsent'
      <3>1. u \in Unsent /\ u # h
        BY <2>4
      <3>2. h =< u /\ u \in Hits
        BY <1>3, <3>1 DEF Unsent
      <3> QED
        BY <1>4, <3>1, <3>2
    <2>6. \A k \in 1 .. Len(sent) :
            sent[k] \in Hits /\ sent[k] < h /\ \A u \in Unsent' : sent[k] < u
      BY <1>3, <2>4 DEF ScriptInv, InOrder
    <2>7. \A k \in 1 .. Len(sent') : sent'[k] \in Hits' /\ \A u \in Unsent' : sent'[k] < u
      <3> TAKE k \in 1 .. Len(sent')
      <3>1. CASE k \in 1 .. Len(sent)
        BY <2>1, <2>2, <2>6, <3>1
      <3>2. CASE k = Len(sent) + 1
        BY <1>4, <2>1, <2>2, <2>5, <3>2
      <3> QED
        BY <2>1, <3>1, <3>2
    <2>8. \A j, k \in 1 .. Len(sent') : j < k => sent'[j] < sent'[k]
      <3> SUFFICES ASSUME NEW j \in 1 .. Len(sent'), NEW k \in 1 .. Len(sent'), j < k
                   PROVE  sent'[j] < sent'[k]
        OBVIOUS
      <3>1. j \in 1 .. Len(sent)
        BY <2>1
      <3>2. CASE k \in 1 .. Len(sent)
        BY <2>1, <3>1, <3>2 DEF ScriptInv, InOrder
      <3>3. CASE k = Len(sent) + 1
        BY <2>1, <2>6, <3>1, <3>3
      <3> QED
        BY <2>1, <3>2, <3>3
    <2> QED
      BY <1>1, <2>7, <2>8 DEF InOrder
  <1>8. SureAnswered'
    BY <1>1 DEF ScriptInv, SureAnswered
  <1> QED
    BY <1>5, <1>6, <1>7, <1>8 DEF ScriptInv

\* One more indicator is answered, and a sure one not with a miss.
LEMMA AnswerScript ==
  ASSUME ScriptInv, script = "asking", Len(results) < Len(Values),
         UNCHANGED <<script, alert, sent, lost>>,
         NEW result \in {"hit", "miss", "degraded"}, NEW certain \in BOOLEAN,
         certain /\ result # "degraded" => result = "hit",
         NEW longest \in Nat, Answer(result, certain, longest)
  PROVE  ScriptInv'
  <1>1. /\ results' = Append(results, result) /\ sure' = Append(sure, certain)
    BY DEF Answer
  <1>2. PICK time \in 0 .. longest : spent' = AtMost(spent + time, HttpTimeout + 1)
    BY DEF Answer
  <1>3. /\ results \in Seq({"hit", "miss", "degraded"}) /\ sure \in Seq(BOOLEAN)
        /\ Len(sure) = Len(results) /\ Len(results) \in Nat
        /\ spent \in 0 .. HttpTimeout + 1 /\ HttpTimeout \in Nat
        /\ sent = <<>> /\ lost \subseteq 1 .. Len(results)
    BY LimitsAssumption DEF ScriptInv, ScriptTypeOK, InOrder
  <1>4. spent' \in 0 .. HttpTimeout + 1
    BY <1>2, <1>3 DEF AtMost
  <1>5. /\ results' \in Seq({"hit", "miss", "degraded"}) /\ sure' \in Seq(BOOLEAN)
        /\ Len(results') = Len(results) + 1 /\ Len(sure') = Len(results')
        /\ results'[Len(results) + 1] = result /\ sure'[Len(results) + 1] = certain
        /\ \A k \in 1 .. Len(results) : results'[k] = results[k] /\ sure'[k] = sure[k]
    BY <1>1, <1>3
  <1>6. ScriptTypeOK'
    <2>1. sent' \in Seq(1 .. Len(results')) /\ lost' \subseteq 1 .. Len(results')
      BY <1>3, <1>5
    <2> QED
      BY <1>4, <1>5, <2>1 DEF ScriptInv, ScriptTypeOK
  <1>7. Aligned'
    <2>1. Len(Values) \in Nat
      BY ValuesFacts DEF ScriptInv
    <2> QED
      BY <1>3, <1>5, <2>1 DEF Aligned, Values
  <1>8. InOrder'
    BY <1>3 DEF InOrder
  <1>9. SureAnswered'
    <2> SUFFICES ASSUME NEW k \in 1 .. Len(results'), sure'[k], results'[k] # "degraded"
                 PROVE  results'[k] = "hit"
      BY DEF SureAnswered
    <2>1. CASE k \in 1 .. Len(results)
      BY <1>5, <2>1 DEF ScriptInv, SureAnswered
    <2>2. CASE k = Len(results) + 1
      BY <1>5, <2>2
    <2> QED
      BY <1>3, <1>5, <2>1, <2>2
  <1> QED
    BY <1>6, <1>7, <1>8, <1>9 DEF ScriptInv

LEMMA ServeScript == ScriptInv /\ CacheOK /\ CoverInv /\ Serve => ScriptInv'
  <1> SUFFICES ASSUME ScriptInv, CacheOK, CoverInv, Serve PROVE ScriptInv'
    OBVIOUS
  <1> DEFINE w == Values[Len(results) + 1]
  <1>1. /\ script = "asking" /\ Len(results) < Len(Values)
        /\ UNCHANGED <<script, alert, sent, lost>>
        /\ Dismiss(w) \/ Recall(w) \/ Ask(w)
    BY DEF Serve
  <1>2. w \in Writings
    BY <1>1, ValuesFacts DEF ScriptInv, ScriptTypeOK
  <1> HIDE DEF w
  <1>3. SurelyHit(w) \in BOOLEAN
    BY DEF SurelyHit
  <1>4. CASE Dismiss(w)
    <2>1. ~ SurelyHit(w)
      BY <1>2, <1>4, SureHitAnswer DEF Dismiss, SurelyHit
    <2> QED
      BY <1>1, <1>3, <1>4, <2>1, AnswerScript DEF Dismiss
  <1>5. CASE Recall(w)
    <2> DEFINE entry == cache[Normal(w)]
    <2>1. Truthful(entry) /\ Answer(entry.result, entry.sure, 0)
      BY <1>5 DEF Recall, CacheOK
    <2> HIDE DEF entry
    <2>2. /\ entry.result \in {"hit", "miss", "degraded"} /\ entry.sure \in BOOLEAN
          /\ entry.sure => entry.result = "hit"
      BY <2>1 DEF Truthful
    <2> QED
      BY <1>1, <2>1, <2>2, AnswerScript
  <1>6. CASE Ask(w)
    <2>1. Longest(w) \in Nat
      BY LimitsAssumption DEF Longest
    <2>2. ASSUME NEW payload \in FreshLookup(w),
                 Answer(Fresh(w, payload).result, Fresh(w, payload).sure, Longest(w))
          PROVE  ScriptInv'
      <3> DEFINE entry == Fresh(w, payload)
      <3>1. Truthful(entry)
        BY <1>2, FreshIsTruthful
      <3> HIDE DEF entry
      <3>2. /\ entry.result \in {"hit", "miss", "degraded"} /\ entry.sure \in BOOLEAN
            /\ entry.sure => entry.result = "hit"
        BY <3>1 DEF Truthful
      <3>3. Answer(entry.result, entry.sure, Longest(w))
        BY <2>2 DEF entry
      <3> QED
        BY <1>1, <2>1, <3>2, <3>3, AnswerScript
    <2>3. CASE Answer("degraded", SurelyHit(w), Longest(w))
      BY <1>1, <1>3, <2>1, <2>3, AnswerScript
    <2> QED
      BY <1>6, <2>2, <2>3 DEF Ask
  <1> QED
    BY <1>1, <1>4, <1>5, <1>6

LEMMA ScriptStep == ScriptInv /\ CacheOK /\ CoverInv /\ [Next]_vars => ScriptInv'
  <1> SUFFICES ASSUME ScriptInv, CacheOK, CoverInv, [Next]_vars PROVE ScriptInv'
    OBVIOUS
  <1>1. CASE UNCHANGED scriptVars
    <2>1. UNCHANGED <<script, alert, results, sure, spent, sent, lost>>
      BY <1>1 DEF scriptVars
    <2>2. UNCHANGED <<Hits, Unsent, Values>>
      BY <2>1 DEF Hits, Unsent, Values
    <2> QED
      BY <2>1, <2>2 DEF ScriptInv, ScriptTypeOK, Aligned, InOrder, SureAnswered
  <1>2. CASE Script
    BY <1>2, EndScript, ReceiveScript, SendScript DEF Script, GiveUp, Exit
  <1> QED
    BY <1>1, <1>2, StartScript, ServeScript DEF Next, vars, ServeOther, Forget

-----------------------------------------------------------------------------
(* Theorems *)

\* Scripts and their requests change nothing of the corpus, its load or the
\* set: what CorpusLookupProofs says of a service holds under any number of them.
THEOREM ScriptsOnlyRead == Spec => CorpusSpec
  <1>1. Init => CorpusInit
    BY DEF Init
  <1>2. [Next]_vars => [CorpusNext]_corpusVars
    BY DEF Next, vars, Start, Script, Serve, ServeOther, Forget, GiveUp, Receive, Send, Exit
  <1> QED
    BY <1>1, <1>2, PTL DEF Spec, CorpusSpec

THEOREM ScriptInvariant == Spec => [](CoverInv /\ ScriptInv /\ CacheOK)
  <1>1. Spec => []CoverInv
    BY ScriptsOnlyRead, CoverInvariant, PTL
  <1>2. Init => CacheOK
    <2> SUFFICES ASSUME Init PROVE CacheOK
      OBVIOUS
    <2>1. DOMAIN cache = {}
      BY DEF Init
    <2> QED
      BY <2>1, FS_EmptySet, LimitsAssumption DEF CacheOK
  <1> QED
    BY <1>1, <1>2, InitScript, ScriptStep, CacheStep, PTL DEF Spec

\* main, lookup_bulk: the script's state and its results have their types, and
\* there are no more results than the script may ask for.
THEOREM TypeCorrect == Spec => []TypeOK
  <1>1. ScriptInv /\ CacheOK /\ CorpusTypeOK => TypeOK
    <2> SUFFICES ASSUME ScriptInv, CacheOK, CorpusTypeOK PROVE TypeOK
      OBVIOUS
    <2>1. Len(results) =< MaxIndicators
      <3>1. CASE script = "idle"
        BY <3>1, LimitsAssumption DEF ScriptInv, Aligned
      <3>2. CASE script # "idle"
        <4>1. Len(Values) \in Nat /\ Len(Values) =< MaxIndicators
          BY <3>2, ValuesFacts DEF ScriptInv
        <4>2. Len(results) =< Len(Values) /\ Len(results) \in Nat
          BY <3>2, <4>1 DEF ScriptInv, ScriptTypeOK, Aligned
        <4> QED
          BY <4>1, <4>2, LimitsAssumption
      <3> QED
        BY <3>1, <3>2
    <2> QED
      BY <2>1 DEF ScriptInv, ScriptTypeOK, CacheOK, Truthful, TypeOK
  <1> QED
    BY <1>1, ScriptInvariant, ScriptsOnlyRead, CorpusTyped, PTL

\* main: whatever is answered, in whatever order the writes fail, a script ends
\* with one event tried per hit, in order, or without a reply with none.
THEOREM OneEventEach == Spec => EventsMatchHits
  <1>1. ScriptInv /\ [Next]_vars => [Exits => OneEventPerHit]_vars
    <2> SUFFICES ASSUME ScriptInv, Next, Exits PROVE OneEventPerHit
      BY DEF vars, scriptVars, Exits
    <2>1. \/ script = "asking" /\ GiveUp
          \/ script = "sending" /\ Unsent = {}
      BY DEF Next, Start, Script, Serve, ServeOther, Forget, GiveUp, Receive, Send, Exit,
             Exits, AllSent, scriptVars
    <2>2. Range(sent) \subseteq Hits
      BY DEF ScriptInv, ScriptTypeOK, InOrder, Range
    <2>3. CASE script = "sending"
      BY <2>1, <2>2, <2>3 DEF OneEventPerHit, Unsent, ScriptInv, InOrder
    <2>4. CASE script # "sending"
      <3>1. sent = <<>>
        BY <2>4 DEF ScriptInv, InOrder
      <3> QED
        BY <2>4, <3>1 DEF OneEventPerHit, Range
    <2> QED
      BY <2>3, <2>4
  <1> QED
    BY <1>1, ScriptInvariant, PTL DEF Spec, EventsMatchHits

\* The whole way from the alert to the event, for any corpus, settings and
\* alert: extraction, normal form, membership set, payload cache, query, hit policy and the
\* script's loop lose no indicator that OpenCTI, when it was asked for the answer
\* given, could only have reported.
THEOREM SureHitsAreReported == Spec => SureHitsReported
  <1> DEFINE Full == Exits /\ script = "sending"
                       /\ Len(Distinct(Candidates(alert))) =< MaxIndicators
             All == \A w \in Range(alert.fields) \cup Range(alert.blob) :
                      Lookupable(w) => Reported(w)
  <1>1. ScriptInv /\ [Next]_vars => [Full => All]_vars
    <2> SUFFICES ASSUME ScriptInv, Next, Full,
                        NEW w \in Range(alert.fields) \cup Range(alert.blob), Lookupable(w)
                 PROVE  Reported(w)
      BY DEF vars, scriptVars, Exits
    <2>1. Unsent = {}
      BY DEF Next, Start, Script, Serve, ServeOther, Forget, GiveUp, Receive, Send, Exit,
             Exits, AllSent, scriptVars
    <2>2. alert \in Alerts /\ Len(results) = Len(Values)
      BY DEF ScriptInv, ScriptTypeOK, Aligned
    <2>3. PICK k \in 1 .. Len(Values) : Normal(Values[k]) = Normal(w)
      BY <2>2, ExtractFacts DEF Values
    <2>4. sure[k] /\ results[k] # "degraded" => k \in Hits
      BY <2>2, <2>3 DEF ScriptInv, SureAnswered, Hits
    <2>5. Hits \subseteq Range(sent)
      BY <2>1 DEF Unsent
    <2> QED
      BY <2>2, <2>3, <2>4, <2>5 DEF Reported
  <1> QED
    BY <1>1, ScriptInvariant, PTL DEF Spec, SureHitsReported

=============================================================================
