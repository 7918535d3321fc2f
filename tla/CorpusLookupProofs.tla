------------------------- MODULE CorpusLookupProofs -------------------------
(* Proofs about CorpusLookup, for any corpus, page size and deployment. *)
EXTENDS CorpusLookup, FiniteSetTheorems, TLAPS

\* What is read is finite and part of the corpus, which is as it was at first
\* or complete.
ReadingFits ==
  /\ settings \in Deployments
  /\ present = Observables \/ present = Observables \ Late
  /\ unread \subseteq Observables \cup Indicators
  /\ emitted \in Nat /\ counted \in Nat

\* The inductive invariant of the budget: the set has an entry at most for
\* each value read, and no more are read than its limit allows.
CountsFit ==
  /\ IsFiniteSet(packed)
  /\ Cardinality(packed) =< emitted
  /\ EntryLimit > 0 => emitted =< EntryLimit
BudgetInv == ReadingFits /\ CountsFit

-----------------------------------------------------------------------------
(* The memory *)

LEMMA UsableIsNat ==
  ASSUME NEW detected \in Nat, NEW reserve \in Nat, NEW share \in 0 .. 100,
         NEW override \in Sizes
  PROVE  Usable(detected, reserve, share, override) \in Nat
  <1> DEFINE left == AtLeast(0, detected - reserve)
             chosen == IF override = Automatic THEN (left * share) \div 100 ELSE override
  <1>1. left \in Nat
    BY DEF AtLeast
  <1>2. Usable(detected, reserve, share, override) = AtMost(chosen, left)
    BY DEF Usable
  <1> HIDE DEF left
  <1>3. (left * share) \div 100 \in Nat
    <2>1. left * share \in Nat
      BY <1>1
    <2> QED
      BY <2>1
  <1>4. CASE override = Automatic
    BY <1>1, <1>2, <1>3, <1>4 DEF AtMost
  <1>5. CASE override # Automatic
    <2>1. override \in Nat
      BY <1>5 DEF Sizes
    <2>2. chosen = override
      BY <1>5
    <2> QED
      BY <1>1, <1>2, <2>1, <2>2 DEF AtMost
  <1> QED
    BY <1>4, <1>5

LEMMA UsableOfIsNat ==
  ASSUME NEW m \in Memory
  PROVE  UsableOf(m) \in Nat
  <1>1. Detected(m.cgroup, m.host) \in Nat
    BY DEF Memory, Sizes, Detected, AtMost
  <1>2. m.reserve \in Nat /\ m.share \in 0 .. 100 /\ m.override \in Sizes
    BY DEF Memory
  <1> QED
    BY <1>1, <1>2, UsableIsNat DEF UsableOf

LEMMA PayloadIsNat ==
  ASSUME NEW usable \in Nat, NEW workers \in Nat, NEW explicit \in Sizes
  PROVE  PayloadBudget(usable, workers, explicit) \in Nat
  <1>1. AtLeast(1, workers) \in Nat \ {0}
    BY DEF AtLeast
  <1>2. PerWorker(usable, workers) \in Nat
    BY <1>1 DEF PerWorker
  <1>3. PerWorker(usable, workers) \div 4 \in Nat
    BY <1>2
  <1> QED
    BY <1>3, SizesAssumption DEF PayloadBudget, AtLeast, Sizes

\* The budgets of a deployment as numbers.
LEMMA BudgetFacts ==
  ASSUME settings \in Deployments
  PROVE  /\ UsableOf(Sized) \in Nat /\ Caches \in Nat /\ Budget \in Nat
         /\ Budget > 0 => Budget = UsableOf(Sized) - Caches
         /\ EntryLimit \in Nat /\ ItemSize * EntryLimit =< Budget
  <1>1. Sized \in Memory
    BY SettingsAssumption DEF Sized, Settings
  <1>2. UsableOf(Sized) \in Nat
    BY <1>1, UsableOfIsNat
  <1>3. Sized.workers \in Nat /\ Sized.cache \in Sizes
    BY <1>1 DEF Memory
  <1>4. PayloadBudget(UsableOf(Sized), Sized.workers, Sized.cache) \in Nat
    BY <1>2, <1>3, PayloadIsNat
  <1>5. Caches \in Nat
    BY <1>3, <1>4 DEF Caches
  <1>6. Budget = AtLeast(0, UsableOf(Sized) - Caches)
    BY DEF Budget, MembershipBudget, Caches
  <1>7. Budget \in Nat /\ (Budget > 0 => Budget = UsableOf(Sized) - Caches)
    BY <1>2, <1>5, <1>6 DEF AtLeast
  <1>8. EntryLimit \in Nat /\ ItemSize * EntryLimit =< Budget
    BY <1>7 DEF EntryLimit, ItemSize
  <1> QED
    BY <1>2, <1>5, <1>7, <1>8

-----------------------------------------------------------------------------
(* Reading pages *)

\* The set of values read has at most as many members as there are entries.
LEMMA ImageOf ==
  ASSUME NEW taken, IsFiniteSet(taken)
  PROVE  LET values == {Normal(Shown[e[1]]) : e \in taken}
         IN  IsFiniteSet(values) /\ Cardinality(values) =< Cardinality(taken)
  <1> DEFINE values == {Normal(Shown[e[1]]) : e \in taken}
             f == [e \in taken |-> Normal(Shown[e[1]])]
  <1>1. f \in Surjection(taken, values)
    BY DEF Surjection
  <1> HIDE DEF f
  <1> QED
    BY <1>1, FS_Surjection

LEMMA EntriesFinite ==
  ASSUME ReadingFits, NEW page \in SUBSET unread
  PROVE  IsFiniteSet(Entries(page)) /\ Cardinality(Entries(page)) \in Nat
  <1>1. IsFiniteSet(present) /\ IsFiniteSet(Observables \cup Indicators)
    BY CorpusAssumption, FS_Subset, FS_Union DEF ReadingFits
  <1>2. IsFiniteSet(page)
    BY <1>1, FS_Subset DEF ReadingFits
  <1>3. IsFiniteSet(present \X page)
    BY <1>1, <1>2, FS_Product
  <1>4. Entries(page) \in SUBSET (present \X page)
    BY DEF Entries
  <1> QED
    BY <1>3, <1>4, FS_Subset, FS_CardinalityType

\* Room is what the limit leaves of a page.
LEMMA RoomFacts ==
  ASSUME ReadingFits, CountsFit, NEW page \in SUBSET unread
  PROVE  /\ Room(page) \in Nat
         /\ EntryLimit > 0 => emitted + Room(page) =< EntryLimit
         /\ \/ Room(page) = Cardinality(Entries(page))
            \/ EntryLimit > 0 /\ emitted + Room(page) = EntryLimit
  <1>1. EntryLimit \in Nat /\ Cardinality(Entries(page)) \in Nat /\ emitted \in Nat
    BY BudgetFacts, EntriesFinite DEF ReadingFits
  <1> QED
    BY <1>1 DEF Room, CountsFit

LEMMA FitsStep == ReadingFits /\ [CorpusNext]_corpusVars => ReadingFits'
  <1> SUFFICES ASSUME ReadingFits, [CorpusNext]_corpusVars PROVE ReadingFits'
    OBVIOUS
  <1> USE DEF ReadingFits
  <1>1. CASE UNCHANGED corpusVars
    BY <1>1 DEF corpusVars
  <1>2. CASE Ingest
    BY <1>2, CorpusAssumption DEF Ingest
  <1>3. CASE Size
    <2>1. Nodes \subseteq Observables \cup Indicators
      BY DEF Nodes
    <2>2. Cardinality(present) \in Nat
      BY CorpusAssumption, FS_Subset, FS_CardinalityType
    <2> QED
      BY <1>3, <2>1, <2>2 DEF Size, corpus
  <1>4. CASE FinishLoad \/ LoadFails
    BY <1>4 DEF FinishLoad, LoadFails, corpus
  <1>5. CASE \E i \in Indicators : Revoke(i) \/ Lapse(i)
    BY <1>5 DEF Revoke, Lapse, loading
  <1>6. ASSUME NEW page \in SUBSET unread, ReadPage(page) PROVE ReadingFits'
    <2>1. Room(page) \in Int /\ emitted + Room(page) \in Nat
      <3>1. EntryLimit \in Nat /\ Cardinality(Entries(page)) \in Nat /\ emitted \in Nat
        BY BudgetFacts, EntriesFinite
      <3>2. EntryLimit = 0 \/ emitted < EntryLimit
        BY <1>6, <3>1 DEF ReadPage, AtLimit
      <3> QED
        BY <3>1, <3>2 DEF Room
    <2> QED
      BY <1>6, <2>1 DEF ReadPage, corpus
  <1> QED
    BY <1>1, <1>2, <1>3, <1>4, <1>5, <1>6 DEF CorpusNext

LEMMA CountsStep == BudgetInv /\ [CorpusNext]_corpusVars => CountsFit'
  <1> SUFFICES ASSUME BudgetInv, [CorpusNext]_corpusVars PROVE CountsFit'
    OBVIOUS
  <1> USE DEF BudgetInv
  <1>1. settings' = settings /\ EntryLimit' = EntryLimit
    <2>1. settings' = settings
      BY DEF CorpusNext, corpusVars, corpus, Ingest, Size, FinishLoad, LoadFails, Revoke,
             Lapse, ReadPage
    <2> QED
      BY <2>1 DEF EntryLimit, Budget, Sized
  <1>2. CASE UNCHANGED <<emitted, packed>>
    BY <1>1, <1>2 DEF CountsFit
  <1>3. CASE LoadFails
    <2>1. packed' = {} /\ emitted' = 0 /\ EntryLimit \in Nat
      BY <1>3, BudgetFacts DEF LoadFails, ReadingFits
    <2> QED
      BY <1>1, <2>1, FS_EmptySet DEF CountsFit
  <1>4. ASSUME NEW page \in SUBSET unread, ReadPage(page) PROVE CountsFit'
    <2>1. PICK taken \in SUBSET Entries(page) :
            /\ Cardinality(taken) = Room(page)
            /\ packed' = packed \cup {Normal(Shown[e[1]]) : e \in taken}
      BY <1>4 DEF ReadPage
    <2> DEFINE values == {Normal(Shown[e[1]]) : e \in taken}
    <2>2. IsFiniteSet(values) /\ Cardinality(values) =< Room(page)
      BY <2>1, EntriesFinite, FS_Subset, ImageOf
    <2> HIDE DEF values
    <2>3. packed' = packed \cup values
      BY <2>1 DEF values
    <2>4. /\ IsFiniteSet(packed')
          /\ Cardinality(packed') = Cardinality(packed) + Cardinality(values)
                                      - Cardinality(packed \cap values)
      BY <2>2, <2>3, FS_Union DEF CountsFit
    <2>5. /\ Cardinality(packed) \in Nat /\ Cardinality(values) \in Nat
          /\ Cardinality(packed \cap values) \in Nat /\ Cardinality(packed') \in Nat
      <3>1. packed \cap values \in SUBSET packed
        OBVIOUS
      <3> QED
        BY <2>2, <2>4, <3>1, FS_Subset, FS_CardinalityType DEF CountsFit
    <2>6. emitted' = emitted + Room(page) /\ emitted \in Nat /\ Room(page) \in Nat
      BY <1>4, RoomFacts DEF ReadPage, ReadingFits
    <2>7. Cardinality(packed') =< emitted'
      BY <2>2, <2>4, <2>5, <2>6 DEF CountsFit
    <2>8. EntryLimit > 0 => emitted' =< EntryLimit
      BY <2>6, RoomFacts
    <2> QED
      BY <1>1, <2>4, <2>7, <2>8 DEF CountsFit
  <1>5. CASE \/ UNCHANGED corpusVars \/ Ingest \/ Size \/ FinishLoad
             \/ \E i \in Indicators : Revoke(i) \/ Lapse(i)
    BY <1>2, <1>5 DEF corpusVars, Ingest, Size, FinishLoad, Revoke, Lapse, loading
  <1> QED
    BY <1>3, <1>4, <1>5 DEF CorpusNext

LEMMA InitBudgetInv == CorpusInit => BudgetInv
  <1> SUFFICES ASSUME CorpusInit PROVE BudgetInv
    OBVIOUS
  <1>1. ReadingFits
    BY DEF CorpusInit, ReadingFits
  <1>2. packed = {} /\ emitted = 0 /\ EntryLimit \in Nat
    BY <1>1, BudgetFacts DEF CorpusInit, ReadingFits
  <1> QED
    BY <1>1, <1>2, FS_EmptySet DEF BudgetInv, CountsFit

THEOREM BudgetInvariant == CorpusSpec => []BudgetInv
  BY InitBudgetInv, FitsStep, CountsStep, PTL DEF CorpusSpec, BudgetInv

\* load, iter_values: the corpus, its load and the set have their types.
THEOREM CorpusTyped == CorpusSpec => []CorpusTypeOK
  <1>1. CorpusInit => CorpusTypeOK
    BY CorpusAssumption DEF CorpusInit, CorpusTypeOK
  <1>2. BudgetInv /\ CorpusTypeOK /\ [CorpusNext]_corpusVars =>
          (revoked \subseteq Indicators /\ lapsed \subseteq Indicators /\ missed \subseteq Late
           /\ load \in {"start", "reading", "serving", "too_large"}
           /\ packed \subseteq Writings)'
    <2> SUFFICES ASSUME BudgetInv, CorpusTypeOK, [CorpusNext]_corpusVars
                 PROVE  (revoked \subseteq Indicators /\ lapsed \subseteq Indicators
                         /\ missed \subseteq Late
                         /\ load \in {"start", "reading", "serving", "too_large"}
                         /\ packed \subseteq Writings)'
      OBVIOUS
    <2>1. ASSUME NEW page \in SUBSET unread, ReadPage(page)
          PROVE  packed' \subseteq Writings
      <3>1. PICK taken \in SUBSET Entries(page) :
              packed' = packed \cup {Normal(Shown[e[1]]) : e \in taken}
        BY <2>1 DEF ReadPage
      <3>2. \A e \in taken : Shown[e[1]] \in Writings
        BY CorpusAssumption DEF Entries, CorpusTypeOK
      <3>3. \A v \in Writings : Normal(v) \in Writings
        BY DEF Normal, Writings
      <3> QED
        BY <3>1, <3>2, <3>3 DEF CorpusTypeOK
    <2>2. /\ revoked' \subseteq Indicators /\ lapsed' \subseteq Indicators
          /\ missed' \subseteq Late
      BY DEF CorpusTypeOK, CorpusNext, corpusVars, corpus, loading, Ingest, Size,
             FinishLoad, LoadFails, Revoke, Lapse, ReadPage
    <2>3. load' \in {"start", "reading", "serving", "too_large"}
      BY DEF CorpusTypeOK, CorpusNext, corpusVars, corpus, loading, Ingest, Size,
             FinishLoad, LoadFails, Revoke, Lapse, ReadPage
    <2>4. packed' \subseteq Writings
      BY <2>1 DEF CorpusTypeOK, CorpusNext, corpusVars, corpus, loading, Ingest, Size,
                  FinishLoad, LoadFails, Revoke, Lapse
    <2> QED
      BY <2>2, <2>3, <2>4
  <1>3. BudgetInv' /\ (revoked \subseteq Indicators /\ lapsed \subseteq Indicators
          /\ missed \subseteq Late
          /\ load \in {"start", "reading", "serving", "too_large"}
          /\ packed \subseteq Writings)' => CorpusTypeOK'
    BY DEF BudgetInv, ReadingFits, CorpusTypeOK
  <1> QED
    BY <1>1, <1>2, <1>3, BudgetInvariant, PTL DEF CorpusSpec

\* _resolve_budgets, load and iter_values: for any sizes, workers and corpus,
\* a set with a limit and all caches stay within the memory that is allowed.
THEOREM MemoryHolds == CorpusSpec => []BudgetHeld
  <1>1. BudgetInv => BudgetHeld
    <2> SUFFICES ASSUME BudgetInv, EntryLimit > 0
                 PROVE  ItemSize * Cardinality(packed) + Caches =< UsableOf(Sized)
      BY DEF BudgetHeld
    <2>1. /\ Cardinality(packed) \in Nat
          /\ Cardinality(packed) =< emitted /\ emitted =< EntryLimit /\ emitted \in Nat
      BY FS_CardinalityType DEF BudgetInv, CountsFit, ReadingFits
    <2>2. /\ UsableOf(Sized) \in Nat /\ Caches \in Nat /\ Budget \in Nat
          /\ Budget > 0 => Budget = UsableOf(Sized) - Caches
          /\ EntryLimit \in Nat /\ ItemSize * EntryLimit =< Budget
      BY BudgetFacts DEF BudgetInv, ReadingFits
    <2> QED
      BY <2>1, <2>2 DEF ItemSize
  <1> QED
    BY <1>1, BudgetInvariant, PTL

-----------------------------------------------------------------------------
(* What the set has been given *)

\* The node n that observable o is read from.
ReadFrom(o, n) == IF settings.source = "observables" THEN n = o ELSE n \in LinksOf[o]
AllNodes == Observables \cup Indicators

\* What the limit has not cut, what did not come behind the cursor and what is
\* not on a page still to be read is in the set; a set that serves has been read
\* to its end.
Readable(o) == Lookupable(Shown[o]) /\ \E n \in AllNodes : ReadFrom(o, n)
ToCome(o) == \E n \in unread : ReadFrom(o, n)
Covered ==
  load \in {"reading", "serving"} /\ ~ AtLimit =>
    \A o \in present \ missed : Readable(o) => ToCome(o) \/ Normal(Shown[o]) \in packed
Emptied == load = "serving" => unread = {}
MissedLate == missed \subseteq Late
CoverInv == BudgetInv /\ MissedLate /\ Covered /\ Emptied

LEMMA SettingsStay == [CorpusNext]_corpusVars => settings' = settings /\ EntryLimit' = EntryLimit
  <1>1. [CorpusNext]_corpusVars => settings' = settings
    BY DEF CorpusNext, corpusVars, corpus, Ingest, Size, FinishLoad, LoadFails, Revoke,
           Lapse, ReadPage
  <1> QED
    BY <1>1 DEF EntryLimit, Budget, Sized

\* A page that the limit does not cut ends up in the set whole.
LEMMA PageTaken ==
  ASSUME ReadingFits, CountsFit, NEW page \in SUBSET unread, ReadPage(page),
         Room(page) = Cardinality(Entries(page))
  PROVE  packed' = packed \cup {Normal(Shown[e[1]]) : e \in Entries(page)}
  <1>1. PICK taken \in SUBSET Entries(page) :
          /\ Cardinality(taken) = Room(page)
          /\ packed' = packed \cup {Normal(Shown[e[1]]) : e \in taken}
    BY DEF ReadPage
  <1>2. taken = Entries(page)
    BY <1>1, EntriesFinite, FS_Subset
  <1> QED
    BY <1>1, <1>2

LEMMA PageCovers ==
  ASSUME NEW page \in SUBSET unread, NEW o \in present, NEW n \in page, ReadFrom(o, n),
         Lookupable(Shown[o]),
         packed' = packed \cup {Normal(Shown[e[1]]) : e \in Entries(page)}
  PROVE  Normal(Shown[o]) \in packed'
  <1>1. <<o, n>> \in Entries(page)
    BY DEF Entries, ReadFrom
  <1> QED
    BY <1>1

LEMMA CoverStep == CoverInv /\ [CorpusNext]_corpusVars => (Covered /\ Emptied)'
  <1> SUFFICES ASSUME CoverInv, [CorpusNext]_corpusVars PROVE (Covered /\ Emptied)'
    OBVIOUS
  <1>1. settings' = settings /\ EntryLimit' = EntryLimit
    BY SettingsStay
  <1>2. \A o, n : ReadFrom(o, n)' <=> ReadFrom(o, n)
    BY <1>1 DEF ReadFrom
  <1> DEFINE Accounted(o) == (\E n \in unread' : ReadFrom(o, n)) \/ Normal(Shown[o]) \in packed'
             Kept == load' \in {"reading", "serving"} /\ ~ AtLimit' =>
                       \A o \in present' \ missed' : Readable(o) => Accounted(o)
  <1> SUFFICES Emptied' /\ Kept
    BY <1>2 DEF Covered, ToCome, Readable
  <1>3. CASE UNCHANGED <<present, load, unread, missed, emitted, packed>>
    BY <1>1, <1>3 DEF CoverInv, Covered, Emptied, AtLimit, ToCome
  <1>4. CASE UNCHANGED corpusVars \/ \E i \in Indicators : Revoke(i) \/ Lapse(i)
    BY <1>3, <1>4 DEF corpusVars, Revoke, Lapse, loading
  <1>5. CASE Ingest
    <2>1. PICK ahead \in SUBSET Late :
            /\ ahead = {} \/ (load = "reading" /\ unread # {} /\ settings.source = "observables")
            /\ unread' = unread \cup ahead
            /\ missed' = IF load = "start" THEN {}
                         ELSE IF settings.source = "observables" THEN Late \ ahead
                         ELSE {o \in Late : LinksOf[o] \cap unread = {}}
      BY <1>5 DEF Ingest
    <2>2. /\ present = Observables \ Late /\ present' = Observables
          /\ UNCHANGED <<load, emitted, packed>>
      BY <1>5 DEF Ingest, CoverInv, BudgetInv, ReadingFits
    <2>3. Emptied'
      BY <2>1, <2>2 DEF CoverInv, Emptied
    <2>4. ASSUME load' \in {"reading", "serving"}, ~ AtLimit',
                 NEW o \in present' \ missed', Readable(o)
          PROVE  Accounted(o)
      <3>1. CASE o \in Late /\ settings.source = "observables"
        <4>1. o \in unread'
          BY <2>1, <2>2, <2>4, <3>1
        <4> QED
          BY <3>1, <4>1 DEF ReadFrom
      <3>2. CASE o \in Late /\ settings.source # "observables"
        <4>1. PICK n \in LinksOf[o] : n \in unread
          BY <2>1, <2>2, <2>4, <3>2
        <4> QED
          BY <2>1, <3>2, <4>1 DEF ReadFrom
      <3>3. CASE o \notin Late
        <4>1. ~ AtLimit /\ o \in present
          BY <1>1, <2>2, <2>4, <3>3 DEF AtLimit
        <4>2. o \notin missed
          BY <3>3 DEF CoverInv, MissedLate
        <4>3. ToCome(o) \/ Normal(Shown[o]) \in packed
          BY <2>2, <2>4, <4>1, <4>2 DEF CoverInv, Covered
        <4> QED
          BY <2>1, <2>2, <4>3 DEF ToCome
      <3> QED
        BY <3>1, <3>2, <3>3
    <2> QED
      BY <2>3, <2>4
  <1>6. CASE Size
    <2>1. load' \in {"reading", "too_large"} /\ present' = present
          /\ (load' = "reading" => unread' = Nodes)
      BY <1>6 DEF Size, corpus
    <2>2. present \in SUBSET Observables
      BY DEF CoverInv, BudgetInv, ReadingFits
    <2>3. \A o \in present, n \in AllNodes : ReadFrom(o, n) => n \in Nodes
      BY <2>2, CorpusAssumption DEF ReadFrom, Nodes
    <2> QED
      BY <2>1, <2>3 DEF Emptied, Readable
  <1>7. CASE FinishLoad
    <2>1. /\ load = "reading" /\ (unread = {} \/ AtLimit) /\ unread' = {}
          /\ UNCHANGED <<present, missed, emitted, packed>>
      BY <1>7 DEF FinishLoad, corpus
    <2>2. AtLimit' <=> AtLimit
      BY <1>1, <2>1 DEF AtLimit
    <2> QED
      BY <2>1, <2>2 DEF CoverInv, Covered, Emptied, ToCome
  <1>8. CASE LoadFails
    BY <1>8 DEF LoadFails, Emptied
  <1>9. ASSUME NEW page \in SUBSET unread, ReadPage(page)
        PROVE  Emptied' /\ Kept
    <2>1. /\ load = "reading" /\ ~ AtLimit /\ load' = load /\ UNCHANGED <<present, missed>>
          /\ unread' = unread \ page /\ emitted' = emitted + Room(page)
          /\ packed \subseteq packed'
      BY <1>9 DEF ReadPage, corpus
    <2>2. Emptied'
      BY <2>1 DEF Emptied
    <2>3. ASSUME ~ AtLimit', NEW o \in present \ missed, Readable(o)
          PROVE  Accounted(o)
      <3>1. Room(page) = Cardinality(Entries(page))
        <4>1. ~ (EntryLimit > 0 /\ emitted + Room(page) >= EntryLimit)
          BY <1>1, <2>1, <2>3 DEF AtLimit
        <4>2. EntryLimit \in Nat /\ emitted \in Nat
          BY BudgetFacts DEF CoverInv, BudgetInv, ReadingFits
        <4> QED
          BY <4>1, <4>2, RoomFacts DEF CoverInv, BudgetInv
      <3>2. CASE \E n \in page : ReadFrom(o, n)
        <4>1. Lookupable(Shown[o])
          BY <2>3 DEF Readable
        <4> QED
          BY <1>9, <3>1, <3>2, <4>1, PageTaken, PageCovers DEF CoverInv, BudgetInv
      <3>3. CASE ~ \E n \in page : ReadFrom(o, n)
        <4>1. ToCome(o) \/ Normal(Shown[o]) \in packed
          BY <2>1, <2>3 DEF CoverInv, Covered
        <4> QED
          BY <2>1, <3>3, <4>1 DEF ToCome
      <3> QED
        BY <3>2, <3>3
    <2> QED
      BY <2>1, <2>2, <2>3
  <1> QED
    BY <1>4, <1>5, <1>6, <1>7, <1>8, <1>9 DEF CorpusNext

\* bootstrap.py: whatever grows while the pages are read, what a serving set
\* that has not been cut lacks was dropped as not lookupable, stands behind no
\* indicator, or came when the load was past its place.
THEOREM CoverInvariant == CorpusSpec => []CoverInv
  <1>1. CorpusInit => Covered /\ Emptied
    BY DEF CorpusInit, Covered, Emptied
  <1>2. CorpusSpec => []MissedLate
    BY CorpusTyped, PTL DEF CorpusTypeOK, MissedLate
  <1> QED
    BY <1>1, <1>2, CoverStep, InitBudgetInv, FitsStep, CountsStep, PTL
       DEF CorpusSpec, CoverInv, BudgetInv

-----------------------------------------------------------------------------
(* Normal forms *)

\* Two writings with one normal form that normalize() classifies are looked up
\* both or neither, except that it may skip none of them.
LEMMA SameNormalForm ==
  ASSUME NEW w \in Writings, NEW x \in Writings, Normal(x) = Normal(w),
         Lookupable(w), Type(x) # "unknown"
  PROVE  Lookupable(x)
  <1>1. x.name = w.name /\ x.path = w.path
    BY DEF Normal, Writings
  <1>2. CASE ~ IsURL(w)
    BY <1>1, <1>2 DEF Lookupable, Skipped, IsURL
  <1>3. CASE IsURL(w)
    <2>1. Type(w) = "url" /\ Type(x) = "url" /\ IsURL(x)
      BY <1>1, <1>3 DEF Lookupable, Type, IsURL
    <2>2. x.marks \ Removed(x) = w.marks \ Removed(w)
      BY DEF Normal, Writings
    <2>3. Removed(x) = Removed(w) /\ "dot" \notin Removed(w)
      BY <2>1 DEF Removed, Defang
    <2>4. "dot" \in w.marks => "dot" \in x.marks
      BY <2>2, <2>3
    <2> QED
      BY <1>1, <1>3, <2>1, <2>4 DEF Lookupable, Skipped
  <1> QED
    BY <1>2, <1>3

\* The host that is asked for is one that counts.
LEMMA HostCounts ==
  ASSUME NEW w \in Writings, NEW x \in Writings, IsURL(w), Lookupable(w),
         w.name \notin Addresses, Normal(x) = UrlHost(Normal(w)), Type(x) # "unknown"
  PROVE  Lookupable(x)
  <1>1. x.name = w.name /\ x.path = NoPath
    BY DEF Normal, UrlHost, Writings
  <1>2. w.name \notin InternalDomains
    <2>1. SUFFICES ASSUME w.name \in InternalDomains PROVE FALSE
      OBVIOUS
    <2>2. Type(w) = "url" /\ "dot" \in w.marks
      BY <2>1 DEF Lookupable, Skipped, Type
    <2>3. "dot" \in Normal(w).marks /\ Normal(w).name = w.name
      BY <2>2 DEF Normal, Writings, Removed, Defang
    <2>4. w.name \notin IPv6s
      BY NamesAssumption
    <2>5. "dot" \in UrlHost(Normal(w)).marks
      BY <2>3, <2>4 DEF UrlHost
    <2>6. Type(x) = "domain"
      BY <1>1, <2>1, NamesAssumption DEF Type, IsURL, Hosts
    <2>7. "dot" \notin Normal(x).marks
      BY <2>6 DEF Normal, Writings, Removed
    <2> QED
      BY <2>5, <2>7
  <1> QED
    BY <1>1, <1>2, NamesAssumption DEF Lookupable, Skipped, IsURL, Addresses

-----------------------------------------------------------------------------
(* Dismissals *)

\* A value that is not in a whole set has no hit in OpenCTI.
LEMMA NotPackedNoHit ==
  ASSUME CoverInv, load = "serving", ~ AtLimit, NEW n, n \notin packed, ShownAsAsked(n),
         ~ Overtaken(n), \A o \in Matching(n) : Lookupable(Shown[o])
  PROVE  Query(n) = {MISS}
  <1>1. ASSUME NEW o \in Matching(n) PROVE BuildPayload(o) = {MISS}
    <2>1. /\ o \in present /\ o \in Observables /\ Normal(Shown[o]) \notin packed
          /\ Lookupable(Shown[o]) /\ o \notin missed
      BY <1>1 DEF Matching, ShownAsAsked, Overtaken, CoverInv, BudgetInv, ReadingFits
    <2>2. \A m \in AllNodes : ~ ReadFrom(o, m)
      BY <2>1 DEF CoverInv, Covered, Emptied, Readable, ToCome
    <2>3. LinksOf[o] = {}
      BY <2>1, <2>2, CorpusAssumption DEF ReadFrom, AllNodes
    <2> QED
      BY <2>3 DEF BuildPayload, Survivors
  <1>2. CASE Matching(n) = {}
    BY <1>2 DEF Query
  <1>3. CASE Matching(n) # {}
    <2>1. UNION {BuildPayload(o) : o \in Matching(n)} = {MISS}
      BY <1>1, <1>3
    <2> QED
      BY <1>3, <2>1 DEF Query
  <1> QED
    BY <1>2, <1>3

\* split.py in front of live.py: for any corpus, alerts and settings, a value
\* that the set dismisses is one OpenCTI would not report, with the exceptions
\* DismissalsAgree names.
THEOREM DismissedIsMiss == CorpusSpec => []DismissalsAgree
  <1>1. CoverInv => DismissalsAgree
    <2> SUFFICES ASSUME CoverInv, NEW w \in Requested, Lookupable(w), Dismissed(w),
                        ~ AtLimit, \A n \in Asked(w) : ShownAsAsked(n) /\ ~ Overtaken(n)
                 PROVE  Fetch(w) = {MISS}
      BY DEF DismissalsAgree
    <2>1. w \in Writings /\ load = "serving" /\ Normal(w) \notin packed
      BY RequestedAssumption DEF Dismissed
    <2>2. ASSUME NEW n, NEW o \in Matching(n) PROVE Shown[o] \in Writings
      BY CorpusAssumption DEF Matching, CoverInv, BudgetInv, ReadingFits
    <2>3. Query(Normal(w)) = {MISS}
      <3>1. Normal(w) \in Asked(w)
        BY DEF Asked
      <3>2. \A o \in Matching(Normal(w)) : Lookupable(Shown[o])
        BY <2>1, <2>2, <3>1, SameNormalForm DEF ShownAsAsked
      <3> QED
        BY <2>1, <3>1, <3>2, NotPackedNoHit
    <2>4. CASE ~ IsURL(w)
      BY <2>3, <2>4 DEF Fetch
    <2>5. CASE IsURL(w)
      <3> DEFINE h == UrlHost(Normal(w))
      <3>1. HostQuery(w) = {MISS}
        <4>1. CASE w.name \in Addresses
          BY <4>1 DEF HostQuery
        <4>2. CASE w.name \notin Addresses
          <5>1. h \in Asked(w) /\ h \notin packed
            BY <2>5 DEF Asked, Dismissed
          <5>2. \A o \in Matching(h) : Lookupable(Shown[o])
            BY <2>1, <2>2, <2>5, <4>2, <5>1, HostCounts DEF ShownAsAsked
          <5>3. Query(h) = {MISS}
            BY <2>1, <5>1, <5>2, NotPackedNoHit
          <5> QED
            BY <4>2, <5>3 DEF HostQuery
        <4> QED
          BY <4>1, <4>2
      <3> QED
        BY <2>3, <2>5, <3>1 DEF Fetch
    <2> QED
      BY <2>4, <2>5
  <1> QED
    BY <1>1, CoverInvariant, PTL

-----------------------------------------------------------------------------
(* An affordable corpus *)

\* Under "auto", reading the observables: as long as the corpus is the one that
\* was counted, what has been read and what is left together fit the budget.
Counting ==
  /\ load \in {"reading", "serving"}
  /\ settings.mode = "auto" /\ settings.source = "observables"
  /\ counted = Cardinality(present)
Afforded ==
  Counting =>
    /\ ItemSize * counted =< Budget
    /\ unread \subseteq present /\ emitted + Cardinality(unread) =< counted
    /\ \A o \in present : Lookupable(Shown[o]) => o \in unread \/ Normal(Shown[o]) \in packed
CountedBefore == counted =< Cardinality(present) /\ (load = "start" => emitted = 0)
AffordInv == BudgetInv /\ CountedBefore /\ Afforded

LEMMA PresentFinite ==
  ASSUME ReadingFits
  PROVE  IsFiniteSet(present) /\ Cardinality(present) \in Nat
  BY CorpusAssumption, FS_Subset, FS_CardinalityType DEF ReadingFits

\* What is affordable is within the limit.
LEMMA LimitSuffices ==
  ASSUME ReadingFits, EntryLimit > 0, ItemSize * counted =< Budget
  PROVE  counted =< EntryLimit
  <1>1. Budget \in Nat /\ counted \in Nat
    BY BudgetFacts DEF ReadingFits
  <1> QED
    BY <1>1 DEF EntryLimit, ItemSize

\* A page of observables has at most one entry per node.
LEMMA OnePerNode ==
  ASSUME ReadingFits, NEW page \in SUBSET unread, settings.source = "observables"
  PROVE  Cardinality(Entries(page)) =< Cardinality(page)
  <1> DEFINE doubles == {<<o, o>> : o \in page}
             f == [o \in page |-> <<o, o>>]
  <1>1. IsFiniteSet(page)
    BY CorpusAssumption, FS_Subset, FS_Union DEF ReadingFits
  <1>2. f \in Surjection(page, doubles)
    BY DEF Surjection
  <1>3. Entries(page) \in SUBSET doubles
    BY DEF Entries
  <1> HIDE DEF f, doubles
  <1>4. IsFiniteSet(doubles) /\ Cardinality(doubles) =< Cardinality(page)
    BY <1>1, <1>2, FS_Surjection
  <1>5. Cardinality(Entries(page)) =< Cardinality(doubles)
    BY <1>3, <1>4, FS_Subset
  <1> QED
    BY <1>1, <1>4, <1>5, EntriesFinite, FS_CardinalityType

LEMMA AffordStep == AffordInv /\ [CorpusNext]_corpusVars => (CountedBefore /\ Afforded)'
  <1> SUFFICES ASSUME AffordInv, [CorpusNext]_corpusVars PROVE (CountedBefore /\ Afforded)'
    OBVIOUS
  <1>1. settings' = settings /\ Budget' = Budget
    BY SettingsStay DEF Budget, Sized
  <1>2. ReadingFits /\ CountsFit /\ counted \in Nat /\ emitted \in Nat
    BY DEF AffordInv, BudgetInv, ReadingFits
  <1>3. IsFiniteSet(present) /\ Cardinality(present) \in Nat
    BY <1>2, PresentFinite
  <1>4. IsFiniteSet(unread) /\ Cardinality(unread) \in Nat
    BY <1>2, CorpusAssumption, FS_Subset, FS_Union, FS_CardinalityType DEF ReadingFits
  <1>5. CASE \/ UNCHANGED corpusVars
             \/ \E i \in Indicators : Revoke(i) \/ Lapse(i)
    <2>1. UNCHANGED <<present, load, counted, unread, emitted, packed>>
      BY <1>5 DEF corpusVars, Revoke, Lapse, loading
    <2> QED
      BY <1>1, <2>1 DEF AffordInv, CountedBefore, Afforded, Counting
  <1>6. CASE Ingest
    <2>1. /\ present # Observables /\ present' = Observables
          /\ UNCHANGED <<load, counted, emitted>>
      BY <1>6 DEF Ingest
    <2>2. /\ present \in SUBSET Observables /\ IsFiniteSet(Observables)
          /\ Cardinality(Observables) \in Nat
      BY <1>2, CorpusAssumption, FS_CardinalityType DEF ReadingFits
    <2>3. Cardinality(present) < Cardinality(Observables)
      BY <1>3, <2>1, <2>2, FS_Subset
    <2>4. counted' < Cardinality(present')
      BY <1>2, <1>3, <2>1, <2>2, <2>3 DEF AffordInv, CountedBefore
    <2>5. Cardinality(present') \in Nat /\ counted' \in Nat
      BY <1>2, <2>1, <2>2
    <2>6. ~ Counting'
      BY <2>4, <2>5 DEF Counting
    <2>7. CountedBefore'
      BY <2>1, <2>4, <2>5 DEF AffordInv, CountedBefore
    <2> QED
      BY <2>6, <2>7 DEF Afforded
  <1>7. CASE Size
    <2>1. /\ load = "start" /\ counted' = Cardinality(present)
          /\ UNCHANGED <<settings, present, emitted, packed>>
          /\ load' \in {"reading", "too_large"}
          /\ load' = "reading" => Affordable /\ unread' = Nodes
      BY <1>7 DEF Size, corpus
    <2>2. emitted = 0
      BY <2>1 DEF AffordInv, CountedBefore
    <2>3. CountedBefore'
      BY <1>3, <2>1, <2>2 DEF CountedBefore
    <2>4. ASSUME Counting' PROVE load' = "reading" /\ unread' = present
                                 /\ ItemSize * Cardinality(present) =< Budget
      BY <2>1, <2>4 DEF Counting, Nodes, Affordable
    <2>5. Counting' => emitted' + Cardinality(unread') =< counted'
      BY <1>3, <2>1, <2>2, <2>4
    <2> QED
      BY <1>1, <2>1, <2>3, <2>4, <2>5 DEF Afforded
  <1>8. CASE FinishLoad
    <2>1. /\ load = "reading" /\ load' = "serving" /\ (unread = {} \/ AtLimit)
          /\ unread' = {} /\ UNCHANGED <<settings, present, counted, emitted, packed>>
      BY <1>8 DEF FinishLoad, corpus
    <2>2. CountedBefore'
      BY <2>1 DEF AffordInv, CountedBefore
    <2>3. ASSUME Counting' PROVE unread = {} /\ Counting
      <3>1. Counting
        BY <2>1, <2>3 DEF Counting
      <3>2. CASE AtLimit
        <4>1. counted =< EntryLimit /\ EntryLimit \in Nat /\ emitted >= EntryLimit
          BY <1>2, <3>1, <3>2, LimitSuffices, BudgetFacts
             DEF AffordInv, Afforded, AtLimit, ReadingFits
        <4>2. emitted + Cardinality(unread) =< counted
          BY <3>1 DEF AffordInv, Afforded
        <4>3. Cardinality(unread) = 0
          BY <1>2, <1>4, <4>1, <4>2
        <4> QED
          BY <1>4, <3>1, <4>3, FS_EmptySet
      <3> QED
        BY <2>1, <3>1, <3>2
    <2>4. Counting' => emitted' + Cardinality(unread') =< counted'
      BY <2>1, <2>3 DEF AffordInv, Afforded
    <2> QED
      BY <1>1, <2>1, <2>2, <2>3, <2>4 DEF AffordInv, Afforded
  <1>9. CASE LoadFails
    <2>1. load' = "start" /\ counted' = 0 /\ emitted' = 0 /\ present' = present
      BY <1>9 DEF LoadFails, corpus
    <2> QED
      BY <1>3, <2>1 DEF CountedBefore, Afforded, Counting
  <1>10. ASSUME NEW page \in SUBSET unread, ReadPage(page)
         PROVE  (CountedBefore /\ Afforded)'
    <2>1. /\ load = "reading" /\ UNCHANGED <<settings, present, load, counted>>
          /\ unread' = unread \ page /\ emitted' = emitted + Room(page)
      BY <1>10 DEF ReadPage, corpus
    <2>2. CountedBefore'
      BY <2>1 DEF AffordInv, CountedBefore
    <2> SUFFICES ASSUME Counting' PROVE Afforded'
      BY <2>2 DEF Afforded
    <2>3. Counting /\ settings.source = "observables"
      BY <2>1 DEF Counting
    <2>4. /\ ItemSize * counted =< Budget /\ unread \subseteq present
          /\ emitted + Cardinality(unread) =< counted
      BY <2>3 DEF AffordInv, Afforded
    <2>5. /\ IsFiniteSet(page) /\ Cardinality(page) \in Nat
          /\ Cardinality(Entries(page)) \in Nat
          /\ Cardinality(Entries(page)) =< Cardinality(page)
          /\ Cardinality(unread \ page) = Cardinality(unread) - Cardinality(page)
      <3>1. IsFiniteSet(page) /\ IsFiniteSet(unread \ page)
        BY <1>4, FS_Subset
      <3>2. /\ page \cup (unread \ page) = unread /\ page \cap (unread \ page) = {}
        OBVIOUS
      <3>3. Cardinality(unread) = Cardinality(page) + Cardinality(unread \ page)
                                    - Cardinality({})
        BY <3>1, <3>2, FS_Union
      <3> QED
        BY <1>2, <2>3, <3>1, <3>3, OnePerNode, EntriesFinite, FS_CardinalityType,
           FS_EmptySet
    <2>6. Room(page) = Cardinality(Entries(page))
      <3>1. CASE EntryLimit = 0
        BY <3>1 DEF Room
      <3>2. CASE EntryLimit > 0
        <4>1. counted =< EntryLimit /\ EntryLimit \in Nat
          BY <1>2, <2>4, <3>2, LimitSuffices, BudgetFacts DEF ReadingFits
        <4>2. Cardinality(page) =< Cardinality(unread)
          BY <1>4, FS_Subset
        <4>3. emitted + Cardinality(Entries(page)) =< EntryLimit
          BY <1>2, <1>4, <2>4, <2>5, <4>1, <4>2
        <4> QED
          BY <4>3 DEF Room
      <3>3. EntryLimit \in Nat
        BY <1>2, BudgetFacts DEF ReadingFits
      <3> QED
        BY <3>1, <3>2, <3>3
    <2>7. emitted' + Cardinality(unread') =< counted'
      BY <1>2, <1>4, <2>1, <2>4, <2>5, <2>6
    <2>8. packed' = packed \cup {Normal(Shown[e[1]]) : e \in Entries(page)}
      BY <1>2, <1>10, <2>6, PageTaken
    <2>9. ASSUME NEW o \in present, Lookupable(Shown[o])
          PROVE  o \in unread' \/ Normal(Shown[o]) \in packed'
      <3>1. CASE o \in page
        <4>1. ReadFrom(o, o)
          BY <2>3 DEF ReadFrom
        <4> QED
          BY <2>8, <2>9, <3>1, <4>1, PageCovers
      <3>2. CASE o \notin page
        BY <2>1, <2>3, <2>8, <2>9, <3>2 DEF AffordInv, Afforded
      <3> QED
        BY <3>1, <3>2
    <2> QED
      BY <1>1, <2>1, <2>4, <2>7, <2>9 DEF Afforded
  <1> QED
    BY <1>5, <1>6, <1>7, <1>8, <1>9, <1>10 DEF CorpusNext

\* load and iter_values: for any corpus and any budget, a corpus that was found
\* affordable, and did not grow since, is in the set whole.
THEOREM AffordableIsComplete == CorpusSpec => []AffordableComplete
  <1>1. CorpusInit => CountedBefore /\ Afforded
    <2> SUFFICES ASSUME CorpusInit PROVE CountedBefore /\ Afforded
      OBVIOUS
    <2>1. Cardinality(present) \in Nat
      BY InitBudgetInv, PresentFinite DEF BudgetInv
    <2> QED
      BY <2>1 DEF CorpusInit, CountedBefore, Afforded, Counting
  <1>2. AffordInv /\ CoverInv => AffordableComplete
    BY DEF AffordInv, Afforded, Counting, AffordableComplete, CoverInv, Emptied
  <1>3. CorpusSpec => []AffordInv
    BY <1>1, AffordStep, InitBudgetInv, FitsStep, CountsStep, PTL
       DEF CorpusSpec, AffordInv, BudgetInv
  <1> QED
    BY <1>2, <1>3, CoverInvariant, PTL

-----------------------------------------------------------------------------
(* The hit policy *)

\* A payload rests on a surviving indicator that no other survivor outranks.
LEMMA PayloadBacked ==
  ASSUME NEW n, NEW payload \in Query(n), payload # MISS
  PROVE  /\ n \in Keys[payload.observable] /\ payload.observable \in present
         /\ payload.primary \in Survivors(payload.observable)
         /\ \A t \in Survivors(payload.observable) : ~ Outranks(t, payload.primary)
         /\ payload.expired <=> Expired(payload.primary)
  <1>1. PICK o \in Matching(n) : payload \in BuildPayload(o)
    BY DEF Query
  <1>2. payload \in Payloads(o)
    BY <1>1 DEF BuildPayload
  <1>3. PICK i \in Survivors(o) :
          /\ \A t \in Survivors(o) : ~ Outranks(t, i)
          /\ payload = [found |-> TRUE, observable |-> o, primary |-> i,
                        expired |-> Expired(i)]
    BY <1>2 DEF Payloads
  <1>4. /\ payload.observable = o /\ payload.primary = i
        /\ payload.expired <=> Expired(i)
    BY <1>3 DEF Expired
  <1>5. n \in Keys[o] /\ o \in present
    BY <1>1 DEF Matching
  <1> QED
    BY <1>3, <1>4, <1>5

\* What a lookup reports comes from a query for the value or for its host.
LEMMA LookupAsks ==
  ASSUME NEW w, NEW payload \in FreshLookup(w), payload # MISS
  PROVE  \E n \in Asked(w) : payload \in Query(n)
  <1>1. payload \in Fetch(w)
    BY DEF FreshLookup
  <1>2. CASE payload \in Query(Normal(w))
    BY <1>2 DEF Asked
  <1>3. CASE payload \notin Query(Normal(w))
    <2>1. IsURL(w) /\ payload \in HostQuery(w)
      BY <1>1, <1>3 DEF Fetch
    <2> QED
      BY <2>1 DEF HostQuery, Asked
  <1> QED
    BY <1>2, <1>3

\* passes_policy, build_payload: in every state of the corpus and under every
\* policy, an indicator revoked within its validity backs a fresh reply only
\* under "all", one revoked at all never under "live_only", and a reply is called
\* expired only when no live indicator with a sufficient score is left.
THEOREM RepliesBacked == CorpusSpec => []HitsBacked
  <1>1. BudgetInv => HitsBacked
    <2> SUFFICES ASSUME BudgetInv, NEW w \in Requested, NEW payload \in FreshLookup(w) \ {MISS}
                 PROVE  /\ \E n \in Asked(w) : n \in Keys[payload.observable]
                        /\ payload.primary \in LinksOf[payload.observable]
                        /\ Revoked(payload.primary) =>
                             \/ settings.policy = "all"
                             \/ settings.policy = "expiry_aware" /\ Expired(payload.primary)
                        /\ payload.expired =>
                             \A i \in LinksOf[payload.observable] :
                               ~ Live(i) \/ Score[i] < settings.min_score
      BY DEF HitsBacked
    <2> DEFINE o == payload.observable  i == payload.primary
    <2>1. PICK n \in Asked(w) : payload \in Query(n)
      BY LookupAsks
    <2>2. /\ n \in Keys[o] /\ o \in present /\ i \in Survivors(o)
          /\ \A t \in Survivors(o) : ~ Outranks(t, i)
          /\ payload.expired <=> Expired(i)
      BY <2>1, PayloadBacked
    <2> HIDE DEF o, i
    <2>3. i \in LinksOf[o] /\ PassesPolicy(i)
      BY <2>2 DEF Survivors
    <2>4. Revoked(i) => \/ settings.policy = "all"
                        \/ settings.policy = "expiry_aware" /\ Expired(i)
      BY <2>3 DEF PassesPolicy
    <2>5. ASSUME Expired(i), NEW j \in LinksOf[o], Live(j)
          PROVE  Score[j] < settings.min_score
      <3>1. PassesPolicy(j) /\ Outranks(j, i)
        BY <2>5 DEF PassesPolicy, Live, Outranks
      <3>2. ~ (Score[j] >= settings.min_score)
        BY <2>2, <2>5, <3>1 DEF Survivors
      <3>3. Score[j] \in Nat
        BY <2>2, <2>5, CorpusAssumption DEF BudgetInv, ReadingFits
      <3>4. settings.min_score \in Nat
        BY SettingsAssumption DEF BudgetInv, ReadingFits, Settings
      <3> QED
        BY <3>2, <3>3, <3>4
    <2> QED
      BY <2>2, <2>3, <2>4, <2>5 DEF o, i
  <1> QED
    BY <1>1, BudgetInvariant, PTL
=============================================================================
