------------------------- MODULE MembershipSyncProofs -------------------------
(***************************************************************************)
(* Proofs about MembershipSync: its types, that a worker which has caught  *)
(* up answers as its stream told it (ToldAnswered), misses nothing known      *)
(* (NoFalseMiss), answers as the other workers do (TouchedAgree), and that *)
(* every worker's set is a LiveSet.                                        *)
(*                                                                         *)
(* The inductive invariant says three things. The overlay is what the      *)
(* applied part of the worker's unbroken run of events makes of it         *)
(* (OverlayReplays, with Bounded and OverlayDisjoint). The last event      *)
(* about a value tells what became of it (LogTells). And a snapshot,       *)
(* finished or not, misses nothing that stayed as it was since its scan    *)
(* began (SnapshotsFit).                                                   *)
(***************************************************************************)
EXTENDS MembershipSync, FiniteSetTheorems, WellFoundedInduction, TLAPS

-----------------------------------------------------------------------------
(* The inductive invariant *)

\* Position k of the log is the last event about v among those up to p.
LastAbout(k, v, p) ==
  /\ v \in log[k].values
  /\ \A j \in k + 1 .. p : v \notin log[j].values

\* How far the worker's overlay has followed its stream; a reconnect resumes
\* at the cursor.
Applied(w) == IF conn[w] THEN pos[w] ELSE cursor[w]

\* No stream is ahead of OpenCTI's. A connection that has not yet delivered an
\* id begins a new run, or stands at the cursor.
Bounded(w) ==
  /\ cursor[w] =< Len(log)
  /\ conn[w] => pos[w] =< Len(log)
  /\ conn[w] /\ cursor[w] # pos[w] => cursor[w] =< start[w]

OverlayDisjoint(w) == added[w] \cap tombs[w] = {}

OverlayReplays(w) ==
  \A k \in start[w] + 1 .. Applied(w) : \A v \in Values :
    LastAbout(k, v, Applied(w)) =>
      /\ v \in added[w] <=> log[k].type # "delete"
      /\ v \in tombs[w] <=> log[k].type = "delete"

\* The last event about a value tells whether OpenCTI shows it; the deletion of
\* its only observable or indicator, that it is not known.
LogTells ==
  \A k \in 1 .. Len(log) : \A v \in Values :
    LastAbout(k, v, Len(log)) /\ NothingUnsaid(v, k) =>
      /\ log[k].type # "delete" => Shown(v)
      /\ log[k].type = "delete" /\ Exclusive(v) => ~ Known(v)

\* No event after position at was about the value or changed it unsaid.
Unchanged(v, at) ==
  NothingUnsaid(v, at) /\ \A k \in at + 1 .. Len(log) : v \notin log[k].values

\* values holds every known value that is as it was at position at.
Fits(values, at) ==
  /\ at =< Len(log)
  /\ \A v \in Values : Known(v) /\ Unchanged(v, at) => v \in values

\* A scan has found it, or has the node that yields it still to read.
ScanFits ==
  /\ scan.at =< Len(log)
  /\ \A v \in Values : Known(v) /\ Unchanged(v, scan.at) =>
       v \in scan.got \/ \E n \in scan.todo : v \in Yields(n)

SnapshotsFit ==
  /\ Attachable => Fits(published.values, published.at)
  /\ \A w \in Workers : ready[w] => Fits(packed[w].values, packed[w].at)
  /\ Scanning => ScanFits

Follows == \A w \in Workers : Bounded(w) /\ OverlayDisjoint(w) /\ OverlayReplays(w)

SyncInv == TypeOK /\ Follows /\ LogTells /\ SnapshotsFit

-----------------------------------------------------------------------------
(* Type correctness *)

LEMMA InitType == Init => TypeOK
  <1> SUFFICES ASSUME Init PROVE TypeOK
    OBVIOUS
  <1>1. NoSnapshot \in Snapshots
    BY NumbersAssumption DEF NoSnapshot, Snapshots, Positions
  <1>2. log \in Seq(Events) /\ Len(log) =< MaxEvents
    BY NumbersAssumption DEF Init
  <1>3. 0 \in Positions
    BY NumbersAssumption DEF Positions
  <1>4. CorpusTypeOK
    <2>1. \A i \in Indicators : based[i] \subseteq Basis[i]
      <3> SUFFICES ASSUME NEW i \in Indicators PROVE based[i] \subseteq Basis[i]
        OBVIOUS
      <3>1. based[i] \subseteq IF i \in live THEN Basis[i] ELSE {}
        BY DEF Init
      <3> QED
        BY <3>1
    <2> QED
      BY <2>1 DEF Init, CorpusTypeOK
  <1> QED
    BY <1>1, <1>2, <1>3, <1>4 DEF Init, TypeOK

LEMMA EventType ==
  ASSUME TypeOK, NEW k \in 1 .. Len(log)
  PROVE  /\ log[k].type \in {"create", "update", "merge", "delete"}
         /\ log[k].values \subseteq Values
  <1>1. log[k] \in Events
    BY DEF TypeOK
  <1> QED
    BY <1>1 DEF Events, ADD_EVENTS, REMOVE_EVENTS

\* A swap of a well-typed snapshot leaves well-typed sets.
LEMMA SwapType ==
  ASSUME TypeOK, NEW w \in Workers, NEW snapshot \in Snapshots, Swap(w, snapshot)
  PROVE  /\ ready' \in [Workers -> BOOLEAN]
         /\ packed' \in [Workers -> Snapshots]
         /\ added' \in [Workers -> SUBSET Values]
         /\ tombs' \in [Workers -> SUBSET Values]
  BY DEF TypeOK, Swap, AdoptOverlay

\* A stream resumes at a position of OpenCTI's log.
LEMMA ResumeType ==
  ASSUME TypeOK, NEW w \in Workers, cursor[w] =< Len(log)
  PROVE  /\ Resume(w) \in Positions
         /\ Resume(w) =< Len(log)
         /\ cursor[w] # Resume(w) => cursor[w] < Resume(w)
  <1>1. Len(log) \in Nat /\ cursor[w] \in Int /\ cursor[w] >= -1
    BY NumbersAssumption DEF TypeOK, Positions, NoCursor
  <1>2. Oldest \in Nat /\ Oldest =< Len(log)
    BY <1>1, NumbersAssumption DEF Oldest
  <1> QED
    BY <1>1, <1>2, NumbersAssumption DEF TypeOK, Resume, Positions, NoCursor

-----------------------------------------------------------------------------
(* Changes of OpenCTI's corpus *)

LEMMA AtMostOne ==
  ASSUME NEW S, IsFiniteSet(S), Cardinality(S) =< 1, NEW x \in S, NEW y \in S
  PROVE  x = y
  <1> SUFFICES ASSUME x # y PROVE FALSE
    OBVIOUS
  <1>1. IsFiniteSet({x}) /\ Cardinality({x}) = 1
    BY FS_Singleton
  <1>2. Cardinality({x} \cup {y}) = 2
    BY <1>1, FS_AddElement
  <1>3. Cardinality({x} \cup {y}) =< Cardinality(S)
    <2>1. {x} \cup {y} \subseteq S
      OBVIOUS
    <2> QED
      BY <2>1, FS_Subset
  <1>4. Cardinality(S) \in Nat
    BY FS_CardinalityType
  <1> QED
    BY <1>2, <1>3, <1>4

\* At most one observable shows an exclusive value, and at most one indicator
\* may be based on it.
LEMMA ExclusiveHolders ==
  ASSUME NEW v, Exclusive(v)
  PROVE  /\ \A o1, o2 \in Observables : Shows[o1] = v /\ Shows[o2] = v => o1 = o2
         /\ \A i1, i2 \in Indicators : \A o1 \in Basis[i1], o2 \in Basis[i2] :
              Shows[o1] = v /\ Shows[o2] = v => i1 = i2
  <1> DEFINE O == {o \in Observables : Shows[o] = v}
             I == {i \in Indicators : \E o \in Basis[i] : Shows[o] = v}
  <1>1. IsFiniteSet(O) /\ IsFiniteSet(I)
    BY FiniteAssumption, FS_Subset
  <1>2. Cardinality(O) =< 1 /\ Cardinality(I) =< 1
    BY DEF Exclusive
  <1>3. /\ \A x, y \in O : x = y
        /\ \A x, y \in I : x = y
    <2> HIDE DEF O, I
    <2> QED
      BY <1>1, <1>2, AtMostOne
  <1> QED
    BY <1>3

\* What an event says of the values it carries.
Tells(type, values) ==
  \A v \in values :
    /\ type # "delete" => Shown(v)'
    /\ type = "delete" /\ Exclusive(v) => ~ Known(v)'

\* An event about observables that OpenCTI has shows their values.
LEMMA InlineShown ==
  ASSUME NEW os, os \subseteq present', NEW v \in InlineOf(os)
  PROVE  Shown(v)'
  BY DEF InlineOf, Shown, ShownBy

LEMMA InlineType ==
  ASSUME NEW os, os \subseteq Observables
  PROVE  InlineOf(os) \subseteq Values
  BY CorpusAssumption DEF InlineOf

LEMMA OwnType ==
  ASSUME NEW o \in Observables
  PROVE  OwnOf(o) \subseteq Values /\ OwnOf(o) \subseteq {Shows[o]}
  BY CorpusAssumption DEF OwnOf

EventTypes == {"create", "update", "merge", "delete"}

\* A change appends one event, which tells the truth about what it carries.
EmitsTruth ==
  \E type \in EventTypes, values \in SUBSET Values :
    Emit(type, values) /\ Tells(type, values)

LEMMA InlineEmits ==
  ASSUME NEW os, os \subseteq present', present' \subseteq Observables,
         NEW type \in EventTypes \ {"delete"}, Emit(type, InlineOf(os))
  PROVE  EmitsTruth
  <1>1. Tells(type, InlineOf(os))
    BY InlineShown DEF Tells
  <1>2. InlineOf(os) \in SUBSET Values
    BY InlineType
  <1> QED
    BY <1>1, <1>2 DEF EmitsTruth

LEMMA OwnEmits ==
  ASSUME NEW o \in present', present' \subseteq Observables,
         NEW type \in EventTypes \ {"delete"}, Emit(type, OwnOf(o))
  PROVE  EmitsTruth
  <1>1. \A v \in OwnOf(o) : Shown(v)'
    BY OwnType DEF Shown, ShownBy
  <1>2. Tells(type, OwnOf(o))
    BY <1>1 DEF Tells
  <1>3. OwnOf(o) \in SUBSET Values
    BY OwnType
  <1> QED
    BY <1>2, <1>3 DEF EmitsTruth

LEMMA UpstreamEmits ==
  ASSUME CorpusTypeOK, Upstream
  PROVE  CorpusTypeOK' /\ EmitsTruth
  <1> USE CorpusAssumption DEF CorpusTypeOK
  <1>1. ASSUME NEW i \in Indicators, CreateIndicator(i) \/ UpdateIndicator(i)
        PROVE  CorpusTypeOK' /\ EmitsTruth
    <2>1. PICK os \in SUBSET (Basis[i] \cap present), type \in {"create", "update"} :
            /\ based' = [based EXCEPT ![i] = os] /\ present' = present
            /\ live' \subseteq Indicators
            /\ Emit(type, InlineOf(os))
      BY <1>1 DEF CreateIndicator, UpdateIndicator, Bases
    <2>2. CorpusTypeOK'
      BY <2>1
    <2> QED
      BY <2>1, <2>2, InlineEmits DEF EventTypes
  <1>2. ASSUME NEW i \in Indicators, DeleteIndicator(i)
        PROVE  CorpusTypeOK' /\ EmitsTruth
    <2>1. /\ live' = live \ {i} /\ based' = [based EXCEPT ![i] = {}] /\ present' = present
          /\ Emit("delete", InlineOf(based[i]))
      BY <1>2 DEF DeleteIndicator
    <2>2. CorpusTypeOK'
      BY <2>1
    <2>3. ASSUME NEW v \in InlineOf(based[i]), Exclusive(v) PROVE ~ Known(v)'
      <3>1. PICK o \in based[i] : Shows[o] = v
        BY <2>3 DEF InlineOf
      <3>2. ASSUME NEW j \in live', NEW o2 \in based'[j], Shows[o2] = v PROVE FALSE
        <4>1. j # i /\ j \in Indicators /\ o2 \in based[j]
          BY <2>1, <3>2
        <4>2. o \in Basis[i] /\ o2 \in Basis[j]
          BY <3>1, <4>1
        <4> QED
          BY <2>3, <3>1, <3>2, <4>1, <4>2, ExclusiveHolders
      <3> QED
        BY <3>2 DEF Known, CoveredBy
    <2>4. Tells("delete", InlineOf(based[i]))
      BY <2>3 DEF Tells
    <2>5. InlineOf(based[i]) \in SUBSET Values
      BY InlineType
    <2> QED
      BY <2>1, <2>2, <2>4, <2>5 DEF EmitsTruth, EventTypes
  <1>3. ASSUME NEW i \in Indicators, NEW j \in Indicators, MergeIndicators(i, j)
        PROVE  CorpusTypeOK' /\ EmitsTruth
    <2>1. /\ i # j /\ based[j] \subseteq Basis[i] /\ live' = live \ {j} /\ present' = present
          /\ based' = [based EXCEPT ![i] = @ \cup based[j], ![j] = {}]
          /\ Emit("merge", InlineOf(based[i] \cup based[j]))
      BY <1>3 DEF MergeIndicators
    <2>2. \A k \in Indicators : based'[k] = IF k = i THEN based[i] \cup based[j]
                                           ELSE IF k = j THEN {} ELSE based[k]
      BY <2>1
    <2>3. CorpusTypeOK'
      BY <2>1, <2>2
    <2>4. based[i] \cup based[j] \subseteq present'
      BY <2>1
    <2> QED
      BY <2>1, <2>3, <2>4, InlineEmits DEF EventTypes
  <1>4. ASSUME NEW i \in Indicators, NEW o \in Observables, Relate(i, o)
        PROVE  CorpusTypeOK' /\ EmitsTruth
    <2>1. /\ o \in Basis[i] \cap present /\ live' = live /\ present' = present
          /\ based' = [based EXCEPT ![i] = IF o \in @ THEN @ \ {o} ELSE @ \cup {o}]
          /\ Emit(IF o \in based[i] THEN "delete" ELSE "create", {})
      BY <1>4 DEF Relate
    <2>2. CorpusTypeOK'
      BY <2>1
    <2>3. \A type : Tells(type, {})
      BY DEF Tells
    <2> QED
      BY <2>1, <2>2, <2>3 DEF EmitsTruth, EventTypes
  <1>5. ASSUME NEW o \in Observables, CreateObservable(o) \/ UpdateObservable(o)
        PROVE  CorpusTypeOK' /\ EmitsTruth
    <2>1. PICK type \in {"create", "update"} :
            /\ present' = present \cup {o} /\ live' = live /\ based' = based
            /\ Emit(type, OwnOf(o))
      BY <1>5 DEF CreateObservable, UpdateObservable
    <2>2. CorpusTypeOK' /\ o \in present'
      BY <2>1
    <2> QED
      BY <2>1, <2>2, OwnEmits DEF EventTypes
  <1>6. ASSUME NEW o \in Observables, DeleteObservable(o)
        PROVE  CorpusTypeOK' /\ EmitsTruth
    <2>1. /\ present' = present \ {o} /\ live' = live
          /\ based' = [i \in Indicators |-> based[i] \ {o}]
          /\ Emit("delete", OwnOf(o))
      BY <1>6 DEF DeleteObservable
    <2>2. CorpusTypeOK'
      BY <2>1
    <2>3. ASSUME NEW v \in OwnOf(o), Exclusive(v) PROVE ~ Known(v)'
      <3>1. Shows[o] = v
        BY <2>3, OwnType
      <3>2. ASSUME NEW j \in live', NEW o2 \in based'[j], Shows[o2] = v PROVE FALSE
        <4>1. o2 # o /\ o2 \in Observables
          BY <2>1, <3>2
        <4> QED
          BY <2>3, <3>1, <3>2, <4>1, ExclusiveHolders
      <3> QED
        BY <3>2 DEF Known, CoveredBy
    <2>4. Tells("delete", OwnOf(o))
      BY <2>3 DEF Tells
    <2>5. OwnOf(o) \in SUBSET Values
      BY OwnType
    <2> QED
      BY <2>1, <2>2, <2>4, <2>5 DEF EmitsTruth, EventTypes
  <1>7. ASSUME NEW o \in Observables, NEW other \in Observables, Become(o, other)
        PROVE  CorpusTypeOK' /\ EmitsTruth
    <2>1. /\ o \in present /\ o # other
          /\ \A i \in Indicators : o \in based[i] => other \in Basis[i]
          /\ present' = (present \ {o}) \cup {other} /\ live' = live
          /\ based' = [i \in Indicators |->
               IF o \in based[i] THEN (based[i] \ {o}) \cup {other} ELSE based[i]]
      BY <1>7 DEF Become
    <2>2. PICK type \in {"merge", "update"} : Emit(type, OwnOf(other))
      BY <1>7 DEF Become
    <2>3. CorpusTypeOK' /\ other \in present'
      BY <2>1
    <2> QED
      BY <2>2, <2>3, OwnEmits DEF EventTypes
  <1> QED
    BY <1>1, <1>2, <1>3, <1>4, <1>5, <1>6, <1>7 DEF Upstream

\* What OpenCTI adds to its log leaves the positions before it as they are, and
\* the values the new event neither carries nor leaves unsaid as they were.
LEMMA LogGrows ==
  ASSUME TypeOK, NEW type, NEW values, Emit(type, values)
  PROVE  /\ Len(log) \in Nat
         /\ Len(log') = Len(log) + 1
         /\ \A k \in 1 .. Len(log) : log'[k] = log[k]
         /\ log'[Len(log) + 1].type = type
         /\ log'[Len(log) + 1].values = values
         /\ log'[Len(log) + 1].unsaid \subseteq Values
         /\ \A v \in Values : v \notin values /\ v \notin log'[Len(log) + 1].unsaid =>
              ShownBy(v)' = ShownBy(v) /\ CoveredBy(v)' = CoveredBy(v)
  <1> DEFINE unsaid == {v \in Values \ values :
                          ShownBy(v)' # ShownBy(v) \/ CoveredBy(v)' # CoveredBy(v)}
             event == [type |-> type, values |-> values, unsaid |-> unsaid]
  <1>1. log' = Append(log, event)
    BY DEF Emit
  <1>2. \A v \in Values : v \notin values /\ v \notin unsaid =>
          ShownBy(v)' = ShownBy(v) /\ CoveredBy(v)' = CoveredBy(v)
    OBVIOUS
  <1>3. event.type = type /\ event.values = values /\ event.unsaid = unsaid
        /\ unsaid \subseteq Values
    OBVIOUS
  <1> HIDE DEF event, unsaid
  <1>4. /\ Len(log) \in Nat /\ Len(log') = Len(log) + 1
        /\ \A k \in 1 .. Len(log) : log'[k] = log[k]
        /\ log'[Len(log) + 1] = event
    BY <1>1 DEF TypeOK
  <1> QED
    BY <1>2, <1>3, <1>4

LEMMA EmitType ==
  ASSUME TypeOK, NEW type \in EventTypes, NEW values \in SUBSET Values, Emit(type, values)
  PROVE  log' \in Seq(Events) /\ Len(log') =< MaxEvents
  <1> DEFINE unsaid == {v \in Values \ values :
                          ShownBy(v)' # ShownBy(v) \/ CoveredBy(v)' # CoveredBy(v)}
             event == [type |-> type, values |-> values, unsaid |-> unsaid]
  <1>1. log' = Append(log, event) /\ Len(log) < MaxEvents
    BY DEF Emit
  <1>2. event \in Events
    BY DEF Events, EventTypes, ADD_EVENTS, REMOVE_EVENTS
  <1> HIDE DEF event
  <1> QED
    BY <1>1, <1>2, NumbersAssumption DEF TypeOK

-----------------------------------------------------------------------------
(* Types, continued *)

\* The cursor is never ahead of the log, so every step keeps the types.
LEMMA NextType ==
  ASSUME TypeOK, \A w \in Workers : Bounded(w), [Next]_vars
  PROVE  TypeOK'
  <1> USE BuilderAssumption, NumbersAssumption
      DEF TypeOK, Positions, upstream, sets, stream, building, vars
  <1>1. CASE Upstream
    <2>1. CorpusTypeOK'
      BY <1>1, UpstreamEmits
    <2>2. PICK type \in EventTypes, values \in SUBSET Values : Emit(type, values)
      BY <1>1, UpstreamEmits DEF EmitsTruth
    <2>3. log' \in Seq(Events) /\ Len(log') =< MaxEvents
      BY <2>2, EmitType
    <2> QED
      BY <2>1, <2>2, <2>3 DEF Emit
  <1>2. ASSUME UNCHANGED upstream
        PROVE  CorpusTypeOK' /\ log' = log
    BY <1>2 DEF CorpusTypeOK
  <1>3. CASE BootBuilder \/ StartReconcile
    <2>1. \A todo \in SUBSET Nodes : [todo |-> todo, got |-> {}, at |-> Len(log)] \in Scans
      BY DEF Scans
    <2>2. scan' \in Scans
      <3>1. PICK late \in SUBSET (Nodes \ (live \cup present)) :
              scan' = [todo |-> (Nodes \cap (live \cup present)) \cup late,
                       got |-> {}, at |-> Len(log)]
        BY <1>3 DEF BootBuilder, StartReconcile, StartScan
      <3> QED
        BY <2>1, <3>1
    <2> QED
      BY <1>2, <1>3, <2>2 DEF BootBuilder, StartReconcile
  <1>4. CASE FinishScan
    <2>1. scan \in Scans
      BY <1>4 DEF FinishScan, Scanning
    <2>2. [values |-> scan.got, at |-> scan.at] \in Snapshots
      BY <2>1 DEF Scans, Snapshots
    <2> QED
      BY <1>2, <1>4, <2>2, SwapType DEF FinishScan
  <1>5. ASSUME NEW n \in Nodes, ReadNode(n)
        PROVE  TypeOK'
    <2>1. scan \in Scans
      BY <1>5 DEF ReadNode, Scanning
    <2>2. scan' = [todo |-> scan.todo \ {n}, at |-> scan.at,
                   got |-> scan.got \cup Yields(n)]
      BY <1>5, <2>1 DEF ReadNode, Scans
    <2>3. Yields(n) \subseteq Values
      BY DEF Yields
    <2>4. scan' \in Scans
      BY <2>1, <2>2, <2>3 DEF Scans
    <2> QED
      BY <1>2, <1>5, <2>4 DEF ReadNode
  <1>6. CASE ScanFails
    BY <1>2, <1>6 DEF ScanFails
  <1>7. ASSUME NEW w \in Workers, Drop(w)
        PROVE  TypeOK'
    BY <1>2, <1>7 DEF Drop
  <1>8. ASSUME NEW w \in Workers, Kill(w)
        PROVE  TypeOK'
    <2>1. NoSnapshot \in Snapshots /\ 0 \in Positions
      BY DEF NoSnapshot, Snapshots
    <2>2. scan' \in Scans \cup {NoScan}
      BY <1>2, <1>8 DEF Kill
    <2> QED
      BY <1>2, <1>8, <2>1, <2>2 DEF Kill
  <1>9. ASSUME NEW w \in Workers, BootReader(w)
        PROVE  TypeOK'
    <2>1. CASE Swap(w, published) /\ behind' = [behind EXCEPT ![w] = FALSE]
      BY <1>2, <1>9, <2>1, SwapType DEF BootReader
    <2>2. CASE UNCHANGED <<sets, behind>>
      BY <1>2, <1>9, <2>2 DEF BootReader
    <2> QED
      BY <1>2, <1>9, <2>1, <2>2 DEF BootReader
  <1>10. ASSUME NEW w \in Workers, AdoptPublished(w)
         PROVE  TypeOK'
    BY <1>2, <1>10, SwapType DEF AdoptPublished
  <1>11. ASSUME NEW w \in Workers, Connect(w)
         PROVE  TypeOK'
    <2>1. Resume(w) \in Positions
      BY ResumeType DEF Bounded
    <2> QED
      BY <1>2, <1>11, <2>1 DEF Connect, ConnectTo
  <1>12. ASSUME NEW w \in Workers, Deliver(w)
         PROVE  TypeOK'
    <2>1. pos[w] + 1 \in 1 .. Len(log)
      BY <1>12 DEF Deliver
    <2>2. log[pos[w] + 1].values \subseteq Values
      BY <2>1, EventType
    <2>3. /\ added' \in [Workers -> SUBSET Values]
          /\ tombs' \in [Workers -> SUBSET Values]
      <3> DEFINE vs == log[pos[w] + 1].values
      <3>1. AddValues(w, vs) \/ RemoveValues(w, vs)
        BY <1>12 DEF Deliver, Apply
      <3>2. vs \in SUBSET Values
        BY <2>2
      <3> HIDE DEF vs
      <3> QED
        BY <3>1, <3>2 DEF AddValues, RemoveValues
    <2>4. /\ pos' \in [Workers -> Positions]
          /\ cursor' \in [Workers -> Positions \cup {NoCursor}]
      BY <1>12, <2>1 DEF Deliver
    <2> QED
      BY <1>2, <1>12, <2>3, <2>4 DEF Deliver
  <1>13. ASSUME NEW w \in Workers, Heartbeat(w)
         PROVE  TypeOK'
    BY <1>2, <1>13 DEF Heartbeat
  <1>14. CASE UNCHANGED vars
    BY <1>2, <1>14
  <1> QED
    BY <1>1, <1>3, <1>4, <1>5, <1>6, <1>7, <1>8, <1>9, <1>10, <1>11, <1>12,
       <1>13, <1>14 DEF Next, Build, Disturb, Follow, Consume


-----------------------------------------------------------------------------
(* The overlay replays the stream *)

\* A swap carries the overlay over as it is, because no value is in both sets.
LEMMA SwapKeepsOverlay ==
  ASSUME TypeOK, NEW w \in Workers, OverlayDisjoint(w),
         NEW snapshot, Swap(w, snapshot)
  PROVE  added' = added /\ tombs' = tombs
  BY DEF TypeOK, Swap, AdoptOverlay, OverlayDisjoint

FollowsAt(w) == Bounded(w) /\ OverlayDisjoint(w) /\ OverlayReplays(w)

\* A step that concerns neither the log nor the worker's stream and overlay.
LEMMA Undisturbed ==
  ASSUME NEW w \in Workers, FollowsAt(w), UNCHANGED log,
         UNCHANGED <<added[w], tombs[w], conn[w], pos[w], cursor[w], start[w]>>
  PROVE  FollowsAt(w)'
  BY DEF FollowsAt, Bounded, OverlayDisjoint, OverlayReplays, Applied, LastAbout

\* A new event lies beyond what any worker has applied.
LEMMA EmitFollows ==
  ASSUME TypeOK, Follows, NEW type, NEW values, Emit(type, values), NEW w \in Workers
  PROVE  FollowsAt(w)'
  <1> USE DEF FollowsAt
  <1>1. Bounded(w) /\ OverlayDisjoint(w) /\ OverlayReplays(w)
    BY DEF Follows
  <1>2. UNCHANGED <<added, tombs, conn, pos, cursor, start>>
    BY DEF Emit, sets, stream
  <1> DEFINE n == Len(log)
  <1>0. n \in Nat /\ Len(log') = n + 1 /\ \A k \in 1 .. n : log'[k] = log[k]
    BY LogGrows
  <1>3. Bounded(w)'
    <2>1. pos[w] \in Nat /\ cursor[w] \in Int
      BY DEF TypeOK, Positions, NoCursor
    <2> QED
      BY <1>0, <1>1, <1>2, <2>1 DEF Bounded
  <1>4. OverlayDisjoint(w)'
    BY <1>1, <1>2 DEF OverlayDisjoint
  <1>5. Applied(w)' = Applied(w) /\ Applied(w) \in Int /\ Applied(w) =< Len(log)
    BY <1>1, <1>2 DEF Applied, Bounded, TypeOK, Positions, NoCursor
  <1>6. start[w] \in Nat
    BY DEF TypeOK, Positions
  <1>7. \A k \in start[w] + 1 .. Applied(w) : log'[k] = log[k]
    BY <1>0, <1>5, <1>6
  <1>8. \A k \in start[w] + 1 .. Applied(w) : \A v :
          LastAbout(k, v, Applied(w))' <=> LastAbout(k, v, Applied(w))
    <2> SUFFICES ASSUME NEW k \in start[w] + 1 .. Applied(w), NEW v
                 PROVE  LastAbout(k, v, Applied(w))' <=> LastAbout(k, v, Applied(w))
      OBVIOUS
    <2>1. \A j \in k + 1 .. Applied(w) : log'[j] = log[j]
      BY <1>5, <1>6, <1>7
    <2> QED
      BY <1>5, <1>7, <2>1 DEF LastAbout
  <1>9. OverlayReplays(w)'
    BY <1>1, <1>2, <1>5, <1>7, <1>8 DEF OverlayReplays
  <1> QED
    BY <1>3, <1>4, <1>9

\* A connection resumes at the cursor, or begins a new run.
LEMMA ConnectFollows ==
  ASSUME TypeOK, NEW w \in Workers, FollowsAt(w), Connect(w)
  PROVE  FollowsAt(w)'
  <1> USE DEF FollowsAt
  <1>1. /\ conn[w]' /\ ~ conn[w]
        /\ pos[w]' = Resume(w)
        /\ start[w]' = IF cursor[w] = Resume(w) THEN start[w] ELSE Resume(w)
        /\ UNCHANGED <<cursor[w], added[w], tombs[w], log>>
    BY DEF Connect, ConnectTo, TypeOK, upstream, sets
  <1>2. /\ Resume(w) \in Positions /\ Resume(w) =< Len(log)
        /\ cursor[w] # Resume(w) => cursor[w] < Resume(w)
    BY ResumeType DEF Bounded
  <1>3. cursor[w] \in Int /\ start[w] \in Nat /\ Resume(w) \in Nat
    BY <1>2 DEF TypeOK, Positions, NoCursor
  <1>4. Bounded(w)'
    BY <1>1, <1>2, <1>3 DEF Bounded
  <1>5. OverlayDisjoint(w)'
    BY <1>1 DEF OverlayDisjoint
  <1>6. CASE cursor[w] = Resume(w)
    <2>1. Applied(w)' = Applied(w)
      BY <1>1, <1>6 DEF Applied
    <2> QED
      BY <1>1, <1>4, <1>5, <1>6, <2>1 DEF OverlayReplays, LastAbout
  <1>7. CASE cursor[w] # Resume(w)
    <2>1. Applied(w)' = start[w]'
      BY <1>1, <1>7 DEF Applied
    <2>2. start[w]' \in Nat
      BY <1>1, <1>3, <1>7
    <2> QED
      BY <1>4, <1>5, <2>1, <2>2 DEF OverlayReplays
  <1> QED
    BY <1>6, <1>7

\* A lost connection keeps the cursor: what was applied is what is resumed
\* from, unless nothing of the new run was.
LEMMA DropFollows ==
  ASSUME TypeOK, NEW w \in Workers, FollowsAt(w), Drop(w)
  PROVE  FollowsAt(w)'
  <1> USE DEF FollowsAt
  <1>1. /\ conn[w] /\ ~ conn[w]'
        /\ UNCHANGED <<cursor[w], start[w], added[w], tombs[w], log>>
    BY DEF Drop, TypeOK, upstream, sets
  <1>2. cursor[w] \in Int /\ start[w] \in Nat
    BY DEF TypeOK, Positions, NoCursor
  <1>3. Bounded(w)' /\ OverlayDisjoint(w)'
    BY <1>1 DEF Bounded, OverlayDisjoint
  <1>4. Applied(w)' = cursor[w] /\ Applied(w) = pos[w]
    BY <1>1 DEF Applied
  <1>5. OverlayReplays(w)'
    <2>1. CASE cursor[w] = pos[w]
      BY <1>1, <1>4, <2>1 DEF OverlayReplays, LastAbout
    <2>2. CASE cursor[w] # pos[w]
      <3>1. cursor[w] =< start[w]
        BY <1>1, <2>2 DEF Bounded
      <3> QED
        BY <1>1, <1>2, <1>4, <3>1 DEF OverlayReplays
    <2> QED
      BY <2>1, <2>2
  <1> QED
    BY <1>3, <1>5

LEMMA HeartbeatFollows ==
  ASSUME TypeOK, NEW w \in Workers, FollowsAt(w), Heartbeat(w)
  PROVE  FollowsAt(w)'
  <1> USE DEF FollowsAt
  <1>1. /\ conn[w] /\ pos[w] = Len(log) /\ cursor[w]' = pos[w]
        /\ UNCHANGED <<conn[w], pos[w], start[w], added[w], tombs[w], log>>
    BY DEF Heartbeat, TypeOK, upstream, sets
  <1>2. Len(log) \in Nat
    BY DEF TypeOK
  <1>3. Bounded(w)' /\ OverlayDisjoint(w)'
    BY <1>1, <1>2 DEF Bounded, OverlayDisjoint
  <1>4. OverlayReplays(w)'
    BY <1>1 DEF OverlayReplays, LastAbout, Applied
  <1> QED
    BY <1>3, <1>4

LEMMA KillFollows ==
  ASSUME TypeOK, NEW w \in Workers, Kill(w)
  PROVE  FollowsAt(w)'
  <1>1. /\ ~ conn[w]' /\ cursor[w]' = NoCursor /\ start[w]' = 0
        /\ added[w]' = {} /\ tombs[w]' = {} /\ log' = log
    BY DEF Kill, TypeOK, upstream
  <1>2. Len(log) \in Nat
    BY DEF TypeOK
  <1> QED
    BY <1>1, <1>2
    DEF FollowsAt, Bounded, OverlayDisjoint, OverlayReplays, Applied, NoCursor

\* Delivering the event at pos + 1 makes it the last one about its values, and
\* leaves the last event about any other value as it was.
LEMMA DeliverFollows ==
  ASSUME TypeOK, NEW w \in Workers, FollowsAt(w), Deliver(w)
  PROVE  FollowsAt(w)'
  <1> USE DEF FollowsAt
  <1> DEFINE p == pos[w] + 1  event == log[p]
  <1>1. /\ conn[w] /\ pos[w] < Len(log) /\ Apply(w, event)
        /\ pos[w]' = p /\ cursor[w]' = p
        /\ UNCHANGED <<conn[w], start[w], log>>
    BY DEF Deliver, TypeOK, upstream
  <1>2. pos[w] \in Nat /\ start[w] \in Nat /\ Len(log) \in Nat
    BY DEF TypeOK, Positions
  <1>3. p \in 1 .. Len(log)
    BY <1>1, <1>2
  <1>4. event.values \subseteq Values
    BY <1>3, EventType
  <1>5. Applied(w) = pos[w] /\ Applied(w)' = p
    BY <1>1 DEF Applied
  <1>6. /\ event.type # "delete" => added[w]' = added[w] \cup event.values
                                 /\ tombs[w]' = tombs[w] \ event.values
        /\ event.type = "delete" => added[w]' = added[w] \ event.values
                                 /\ tombs[w]' = tombs[w] \cup event.values
    <2> HIDE DEF event
    <2> QED
      BY <1>1, <1>4 DEF Apply, REMOVE_EVENTS, AddValues, RemoveValues, TypeOK
  <1>7. Bounded(w)'
    BY <1>1, <1>3 DEF Bounded
  <1>8. OverlayDisjoint(w)'
    <2> HIDE DEF event
    <2> QED
      BY <1>4, <1>6 DEF OverlayDisjoint
  <1>9. OverlayReplays(w)'
    <2> SUFFICES ASSUME NEW k \in start[w] + 1 .. p, NEW v \in Values,
                        LastAbout(k, v, p)
                 PROVE  /\ v \in added[w]' <=> log[k].type # "delete"
                        /\ v \in tombs[w]' <=> log[k].type = "delete"
      BY <1>1, <1>5 DEF OverlayReplays, LastAbout
    <2>1. CASE k = p
      <3>1. v \in event.values
        BY <2>1 DEF LastAbout
      <3> HIDE DEF event
      <3>2. event = log[k]
        BY <2>1 DEF event
      <3>3. v \notin added[w] \/ v \notin tombs[w]
        BY DEF OverlayDisjoint
      <3> QED
        BY <1>4, <1>6, <3>1, <3>2, <3>3
    <2>2. CASE k # p
      <3>1. k \in start[w] + 1 .. pos[w]
        BY <1>2, <2>2
      <3>2. v \notin event.values
        BY <1>2, <3>1 DEF LastAbout
      <3>3. LastAbout(k, v, pos[w])
        BY <1>2, <3>1 DEF LastAbout
      <3>4. /\ v \in added[w] <=> log[k].type # "delete"
            /\ v \in tombs[w] <=> log[k].type = "delete"
        BY <1>5, <3>1, <3>3 DEF OverlayReplays
      <3> HIDE DEF event
      <3> QED
        BY <1>4, <1>6, <3>2, <3>4
    <2> QED
      BY <2>1, <2>2
  <1> QED
    BY <1>7, <1>8, <1>9


LEMMA NextFollows ==
  ASSUME TypeOK, Follows, [Next]_vars
  PROVE  Follows'
  <1> SUFFICES ASSUME NEW w \in Workers
               PROVE  FollowsAt(w)'
    BY DEF Follows, FollowsAt
  <1>1. FollowsAt(w)
    BY DEF Follows, FollowsAt
  <1> USE DEF upstream, sets, stream, building, vars
  <1>2. ASSUME added' = added, tombs' = tombs, UNCHANGED <<log, stream>>
        PROVE  FollowsAt(w)'
    BY <1>1, <1>2, Undisturbed
  <1>3. CASE Upstream
    BY <1>3, UpstreamEmits, EmitFollows DEF EmitsTruth, TypeOK
  <1>4. CASE BootBuilder \/ StartReconcile \/ ScanFails
    BY <1>2, <1>4 DEF BootBuilder, StartReconcile, ScanFails
  <1>5. CASE FinishScan
    BY <1>2, <1>5, SwapKeepsOverlay, BuilderAssumption DEF FinishScan, Follows
  <1>6. ASSUME NEW n \in Nodes, ReadNode(n)
        PROVE  FollowsAt(w)'
    BY <1>2, <1>6 DEF ReadNode
  <1>7. ASSUME NEW w2 \in Workers, Drop(w2) \/ Kill(w2) \/ Connect(w2)
                                  \/ Deliver(w2) \/ Heartbeat(w2)
        PROVE  FollowsAt(w)'
    <2>1. CASE w2 = w
      BY <1>1, <1>7, <2>1, DropFollows, KillFollows, ConnectFollows, DeliverFollows,
         HeartbeatFollows
    <2>2. CASE w2 # w
      <3>1. UNCHANGED log
        BY <1>7 DEF Drop, Kill, Connect, Deliver, Heartbeat
      <3>2. UNCHANGED <<conn[w], pos[w], cursor[w], start[w]>>
        BY <1>7, <2>2
        DEF TypeOK, Drop, Kill, Connect, ConnectTo, Deliver, Heartbeat
      <3>3. UNCHANGED <<added[w], tombs[w]>>
        BY <1>7, <2>2
        DEF TypeOK, Drop, Kill, Connect, Deliver, Heartbeat, Apply, AddValues, RemoveValues
      <3> QED
        BY <1>1, <3>1, <3>2, <3>3, Undisturbed
    <2> QED
      BY <2>1, <2>2
  <1>8. ASSUME NEW w2 \in Workers, BootReader(w2) \/ AdoptPublished(w2)
        PROVE  FollowsAt(w)'
    <2>1. \A snapshot : Swap(w2, snapshot) => added' = added /\ tombs' = tombs
      BY SwapKeepsOverlay DEF Follows
    <2> QED
      BY <1>2, <1>8, <2>1 DEF BootReader, AdoptPublished
  <1>9. CASE UNCHANGED vars
    BY <1>2, <1>9
  <1> QED
    BY <1>3, <1>4, <1>5, <1>6, <1>7, <1>8, <1>9 DEF Next, Build, Disturb, Follow, Consume

-----------------------------------------------------------------------------
(* The log and the snapshots *)

\* The other steps leave OpenCTI as it is.
LEMMA OthersKeepUpstream ==
  ASSUME [Next]_vars, ~ Upstream
  PROVE  UNCHANGED upstream
  BY DEF Next, Build, Disturb, Follow, Consume, BootBuilder, StartReconcile, FinishScan,
     ReadNode, ScanFails, Drop, Kill, BootReader, AdoptPublished, Connect, Deliver,
     Heartbeat, vars, upstream

LEMMA UpstreamKept ==
  ASSUME UNCHANGED upstream
  PROVE  /\ log' = log
         /\ \A v : ShownBy(v)' = ShownBy(v) /\ CoveredBy(v)' = CoveredBy(v)
         /\ \A v : (Shown(v)' <=> Shown(v)) /\ (Known(v)' <=> Known(v))
         /\ \A v : Exclusive(v)' <=> Exclusive(v)
         /\ \A v, at : /\ NothingUnsaid(v, at)' <=> NothingUnsaid(v, at)
                       /\ Unchanged(v, at)' <=> Unchanged(v, at)
  <1>1. UNCHANGED <<live, present, based, log>>
    BY DEF upstream
  <1>2. \A v : ShownBy(v)' = ShownBy(v) /\ CoveredBy(v)' = CoveredBy(v)
    BY <1>1 DEF ShownBy, CoveredBy
  <1> QED
    BY <1>1, <1>2 DEF Shown, Known, Exclusive, NothingUnsaid, Unchanged

\* A value that is unchanged when OpenCTI has changed was so before, and has the
\* observables and indicators it had.
LEMMA UnchangedBefore ==
  ASSUME TypeOK, NEW type, NEW values, Emit(type, values),
         NEW v \in Values, NEW at \in Nat, at =< Len(log), Unchanged(v, at)'
  PROVE  /\ Unchanged(v, at)
         /\ ShownBy(v)' = ShownBy(v) /\ CoveredBy(v)' = CoveredBy(v)
  <1> DEFINE n == Len(log)
  <1>1. /\ n \in Nat /\ Len(log') = n + 1
        /\ \A k \in 1 .. n : log'[k] = log[k]
        /\ log'[n + 1].values = values
        /\ v \notin values /\ v \notin log'[n + 1].unsaid =>
             ShownBy(v)' = ShownBy(v) /\ CoveredBy(v)' = CoveredBy(v)
    BY LogGrows
  <1>2. at =< n
    OBVIOUS
  <1>3. \A k \in at + 1 .. Len(log') : v \notin log'[k].unsaid /\ v \notin log'[k].values
    BY DEF Unchanged, NothingUnsaid
  <1> HIDE DEF n
  <1>4. v \notin values /\ v \notin log'[n + 1].unsaid
    BY <1>1, <1>2, <1>3
  <1>5. \A k \in at + 1 .. n : v \notin log[k].unsaid /\ v \notin log[k].values
    BY <1>1, <1>2, <1>3
  <1> QED
    BY <1>1, <1>4, <1>5 DEF Unchanged, NothingUnsaid, n

LEMMA LogStaysTelling ==
  ASSUME TypeOK, LogTells, [Next]_vars
  PROVE  LogTells'
  <1>1. CASE UNCHANGED upstream
    BY <1>1, UpstreamKept DEF LogTells, LastAbout
  <1>2. CASE Upstream
    <2>1. PICK type \in EventTypes, values \in SUBSET Values :
            Emit(type, values) /\ Tells(type, values)
      BY <1>2, UpstreamEmits DEF EmitsTruth, TypeOK
    <2> DEFINE n == Len(log)
    <2>2. /\ n \in Nat /\ Len(log') = n + 1
          /\ \A k \in 1 .. n : log'[k] = log[k]
          /\ log'[n + 1].type = type /\ log'[n + 1].values = values
          /\ \A v \in Values : v \notin values /\ v \notin log'[n + 1].unsaid =>
               ShownBy(v)' = ShownBy(v) /\ CoveredBy(v)' = CoveredBy(v)
      BY <2>1, LogGrows
    <2> SUFFICES ASSUME NEW k \in 1 .. n + 1, NEW v \in Values,
                        v \in log'[k].values,
                        \A j \in k + 1 .. n + 1 : v \notin log'[j].values,
                        \A j \in k + 1 .. n + 1 : v \notin log'[j].unsaid
                 PROVE  /\ log'[k].type # "delete" => Shown(v)'
                        /\ log'[k].type = "delete" /\ Exclusive(v) => ~ Known(v)'
      BY <2>2 DEF LogTells, LastAbout, NothingUnsaid, Exclusive
    <2> HIDE DEF n
    <2>3. CASE k = n + 1
      BY <2>1, <2>2, <2>3 DEF Tells
    <2>4. CASE k # n + 1
      <3>1. k \in 1 .. n
        BY <2>2, <2>4
      <3>2. v \notin log'[n + 1].values /\ v \notin log'[n + 1].unsaid
        BY <2>2, <3>1
      <3>3. ShownBy(v)' = ShownBy(v) /\ CoveredBy(v)' = CoveredBy(v)
        BY <2>2, <3>2
      <3>4. LastAbout(k, v, n)
        BY <2>2, <3>1 DEF LastAbout
      <3>5. NothingUnsaid(v, k)
        BY <2>2, <3>1 DEF NothingUnsaid, n
      <3>6. /\ log[k].type # "delete" => Shown(v)
            /\ log[k].type = "delete" /\ Exclusive(v) => ~ Known(v)
        BY <3>1, <3>4, <3>5 DEF LogTells, n
      <3> QED
        BY <2>2, <3>1, <3>3, <3>6 DEF Shown, Known
    <2> QED
      BY <2>3, <2>4
  <1> QED
    BY <1>1, <1>2, OthersKeepUpstream

\* Whatever happens to the corpus, values that fit it as of a position still do.
LEMMA FitsStays ==
  ASSUME TypeOK, [Next]_vars, NEW values, NEW at \in Nat, Fits(values, at)
  PROVE  Fits(values, at)'
  <1>1. CASE UNCHANGED upstream
    BY <1>1, UpstreamKept DEF Fits
  <1>2. CASE Upstream
    <2>1. PICK type \in EventTypes, vs \in SUBSET Values : Emit(type, vs)
      BY <1>2, UpstreamEmits DEF EmitsTruth, TypeOK
    <2>2. Len(log) \in Nat /\ Len(log') = Len(log) + 1
      BY <2>1, LogGrows
    <2>3. at =< Len(log) /\ at =< Len(log')
      BY <2>2 DEF Fits
    <2>4. ASSUME NEW v \in Values, Known(v)', Unchanged(v, at)' PROVE v \in values
      <3>1. Unchanged(v, at) /\ CoveredBy(v)' = CoveredBy(v)
        BY <2>1, <2>3, <2>4, UnchangedBefore
      <3> QED
        BY <2>4, <3>1 DEF Fits, Known
    <2> QED
      BY <2>3, <2>4 DEF Fits
  <1> QED
    BY <1>1, <1>2, OthersKeepUpstream

\* So does what a scan has found and has still to read.
LEMMA ScanFitsStays ==
  ASSUME TypeOK, [Next]_vars, Scanning, ScanFits, UNCHANGED scan
  PROVE  ScanFits'
  <1>1. CASE UNCHANGED upstream
    <2>1. \A n : Yields(n)' = Yields(n)
      BY <1>1, UpstreamKept DEF Yields
    <2> QED
      BY <1>1, <2>1, UpstreamKept DEF ScanFits
  <1>2. CASE Upstream
    <2>1. PICK type \in EventTypes, vs \in SUBSET Values : Emit(type, vs)
      BY <1>2, UpstreamEmits DEF EmitsTruth, TypeOK
    <2>2. Len(log) \in Nat /\ Len(log') = Len(log) + 1
      BY <2>1, LogGrows
    <2>3. scan.at \in Nat
      BY NumbersAssumption DEF TypeOK, Scanning, Scans, Positions
    <2>4. scan.at =< Len(log) /\ scan.at =< Len(log')
      BY <2>2, <2>3 DEF ScanFits
    <2>5. ASSUME NEW v \in Values, Known(v)', Unchanged(v, scan.at)'
          PROVE  v \in scan.got \/ \E n \in scan.todo : v \in Yields(n)'
      <3>1. /\ Unchanged(v, scan.at)
            /\ ShownBy(v)' = ShownBy(v) /\ CoveredBy(v)' = CoveredBy(v)
        BY <2>1, <2>3, <2>4, <2>5, UnchangedBefore
      <3>2. v \in scan.got \/ \E n \in scan.todo : v \in Yields(n)
        BY <2>5, <3>1 DEF ScanFits, Known
      <3>3. \A n : v \in Yields(n)' <=> v \in Yields(n)
        BY <3>1 DEF Yields
      <3> QED
        BY <3>2, <3>3
    <2> QED
      BY <2>4, <2>5 DEF ScanFits
  <1> QED
    BY <1>1, <1>2, OthersKeepUpstream

\* A scan begins with every node that may yield a known value.
LEMMA ScanStarts ==
  ASSUME TypeOK, StartScan, UNCHANGED upstream
  PROVE  (Scanning => ScanFits)'
  <1>1. PICK late \in SUBSET (Nodes \ (live \cup present)) :
          scan' = [todo |-> (Nodes \cap (live \cup present)) \cup late,
                   got |-> {}, at |-> Len(log)]
    BY DEF StartScan
  <1>2. scan'.at = Len(log) /\ Nodes \cap (live \cup present) \subseteq scan'.todo
    BY <1>1
  <1>3. ASSUME NEW v \in Values, Known(v)
        PROVE  \E n \in Nodes \cap (live \cup present) : v \in Yields(n)
    <2>0. PICK i \in live : \E o \in based[i] : Shows[o] = v
      BY <1>3 DEF Known, CoveredBy
    <2>1. PICK o \in based[i] : Shows[o] = v
      BY <2>0
    <2>2. i \in Indicators /\ o \in present /\ o \in Observables
      BY <2>1 DEF TypeOK, CorpusTypeOK
    <2>3. i \in CoveredBy(v) /\ o \in ShownBy(v)
      BY <2>1, <2>2 DEF CoveredBy, ShownBy
    <2> QED
      BY <2>1, <2>2, <2>3 DEF Nodes, Yields
  <1>4. \A n : Yields(n)' = Yields(n)
    BY UpstreamKept DEF Yields
  <1>5. Len(log)' = Len(log) /\ Len(log) \in Nat
    BY UpstreamKept DEF TypeOK
  <1> QED
    BY <1>2, <1>3, <1>4, <1>5, UpstreamKept DEF ScanFits

LEMMA ReadFits ==
  ASSUME TypeOK, NEW n \in Nodes, ReadNode(n), ScanFits
  PROVE  ScanFits'
  <1>1. scan \in Scans
    BY DEF TypeOK, ReadNode, Scanning
  <1>2. scan' = [todo |-> scan.todo \ {n}, at |-> scan.at,
                 got |-> scan.got \cup Yields(n)]
    BY <1>1 DEF ReadNode, Scans
  <1>3. scan'.at = scan.at /\ scan'.todo = scan.todo \ {n}
        /\ scan'.got = scan.got \cup Yields(n)
    BY <1>2
  <1>4. UNCHANGED upstream
    BY DEF ReadNode
  <1>5. \A m : Yields(m)' = Yields(m)
    BY <1>4, UpstreamKept DEF Yields
  <1> QED
    BY <1>3, <1>4, <1>5, UpstreamKept DEF ScanFits

\* A snapshot in the making has read or still has to read whatever it must hold.
LEMMA SnapshotsStayFit ==
  ASSUME TypeOK, SnapshotsFit, [Next]_vars
  PROVE  SnapshotsFit'
  <1> USE DEF sets, stream, building, vars
  <1>1. \A values : \A at \in Nat : Fits(values, at) => Fits(values, at)'
    BY FitsStays
  <1>2. /\ published.at \in Nat
        /\ \A w \in Workers : packed[w].at \in Nat
        /\ Scanning => scan \in Scans /\ scan.at \in Nat
    BY NumbersAssumption DEF TypeOK, Snapshots, Scanning, Scans, Positions
  <1>3. ASSUME UNCHANGED published
        PROVE  (Attachable => Fits(published.values, published.at))'
    BY <1>1, <1>2, <1>3 DEF SnapshotsFit, Attachable
  <1>4. ASSUME NEW w \in Workers, UNCHANGED <<packed[w], ready[w]>>
        PROVE  (ready[w] => Fits(packed[w].values, packed[w].at))'
    BY <1>1, <1>2, <1>4 DEF SnapshotsFit
  <1>5. ASSUME UNCHANGED scan
        PROVE  (Scanning => ScanFits)'
    BY <1>5, ScanFitsStays DEF SnapshotsFit, Scanning
  <1>6. ASSUME scan' = NoScan
        PROVE  (Scanning => ScanFits)'
    BY <1>6 DEF Scanning
  <1>7. CASE UNCHANGED <<published, packed, ready, scan>>
    BY <1>3, <1>4, <1>5, <1>7 DEF SnapshotsFit
  <1>8. CASE BootBuilder \/ StartReconcile
    BY <1>3, <1>4, <1>8, ScanStarts DEF SnapshotsFit, BootBuilder, StartReconcile
  <1>9. ASSUME NEW n \in Nodes, ReadNode(n)
        PROVE  SnapshotsFit'
    <2>1. ScanFits'
      BY <1>9, ReadFits DEF SnapshotsFit, ReadNode
    <2> QED
      BY <1>3, <1>4, <1>9, <2>1 DEF SnapshotsFit, ReadNode
  <1>10. CASE ScanFails
    BY <1>3, <1>4, <1>6, <1>10 DEF SnapshotsFit, ScanFails
  <1>11. CASE FinishScan
    <2> DEFINE snapshot == [values |-> scan.got, at |-> scan.at]
    <2>1. /\ published' = snapshot /\ scan' = NoScan
          /\ packed' = [packed EXCEPT ![Builder] = snapshot]
          /\ ready' = [ready EXCEPT ![Builder] = TRUE]
          /\ Scanning /\ scan.todo = {}
      BY <1>11 DEF FinishScan, Swap, ReadAll
    <2>2. Fits(snapshot.values, snapshot.at)
      BY <2>1 DEF SnapshotsFit, ScanFits, Fits
    <2>3. snapshot.at \in Nat
      BY <1>2, <2>1
    <2> HIDE DEF snapshot
    <2>4. Fits(published.values, published.at)'
      BY <1>1, <2>1, <2>2, <2>3
    <2>5. ASSUME NEW w \in Workers
          PROVE  (ready[w] => Fits(packed[w].values, packed[w].at))'
      <3>1. CASE w = Builder
        <4>1. packed'[w] = snapshot
          BY <2>1, <3>1, BuilderAssumption DEF TypeOK
        <4> QED
          BY <1>1, <2>2, <2>3, <4>1
      <3>2. CASE w # Builder
        <4>1. packed'[w] = packed[w] /\ ready'[w] = ready[w]
          BY <2>1, <3>2 DEF TypeOK
        <4> QED
          BY <1>4, <4>1
      <3> QED
        BY <3>1, <3>2
    <2> QED
      BY <1>6, <2>1, <2>4, <2>5 DEF SnapshotsFit
  <1>12. ASSUME NEW w \in Workers, BootReader(w) \/ AdoptPublished(w)
         PROVE  SnapshotsFit'
    <2>1. UNCHANGED <<published, scan>>
      BY <1>12 DEF BootReader, AdoptPublished
    <2>2. \/ Attachable /\ packed' = [packed EXCEPT ![w] = published]
             /\ ready' = [ready EXCEPT ![w] = TRUE]
          \/ packed' = packed /\ ready' = ready
      BY <1>12 DEF BootReader, AdoptPublished, Swap
    <2>3. ASSUME NEW w2 \in Workers
          PROVE  (ready[w2] => Fits(packed[w2].values, packed[w2].at))'
      <3>1. \/ packed'[w2] = published /\ Attachable
            \/ packed'[w2] = packed[w2] /\ ready'[w2] = ready[w2]
        BY <2>2 DEF TypeOK
      <3>2. CASE packed'[w2] = published /\ Attachable
        BY <1>1, <1>2, <3>2 DEF SnapshotsFit
      <3> QED
        BY <1>4, <3>1, <3>2
    <2> QED
      BY <1>3, <1>5, <2>1, <2>3 DEF SnapshotsFit
  <1>13. ASSUME NEW w \in Workers, Kill(w)
         PROVE  SnapshotsFit'
    <2>1. UNCHANGED published /\ (scan' = scan \/ scan' = NoScan)
      BY <1>13 DEF Kill
    <2>2. ASSUME NEW w2 \in Workers
          PROVE  (ready[w2] => Fits(packed[w2].values, packed[w2].at))'
      <3>1. ~ ready'[w2] \/ (packed'[w2] = packed[w2] /\ ready'[w2] = ready[w2])
        BY <1>13 DEF Kill, TypeOK
      <3> QED
        BY <1>4, <3>1
    <2> QED
      BY <1>3, <1>5, <1>6, <2>1, <2>2 DEF SnapshotsFit
  <1>14. CASE Upstream
    BY <1>7, <1>14, UpstreamEmits DEF EmitsTruth, Emit, TypeOK
  <1>15. ASSUME NEW w \in Workers, Drop(w) \/ Connect(w) \/ Deliver(w) \/ Heartbeat(w)
         PROVE  SnapshotsFit'
    BY <1>7, <1>15 DEF Drop, Connect, Deliver, Heartbeat
  <1> QED
    BY <1>7, <1>8, <1>9, <1>10, <1>11, <1>12, <1>13, <1>14, <1>15
    DEF Next, Build, Disturb, Follow, Consume

-----------------------------------------------------------------------------
(* The last event about a value *)

LEMMA LeastNumber ==
  ASSUME NEW T \in SUBSET Nat, T # {}
  PROVE  \E x \in T : \A y \in T : x =< y
  <1>1. PICK x \in T : \A y \in T : ~ (<<y, x>> \in OpToRel(<, Nat))
    BY WFMin, NatLessThanWellFounded, Zenon
  <1>2. \A y \in T : ~ (y < x)
    BY <1>1, Zenon DEF OpToRel
  <1> QED
    BY <1>2

LEMMA LastExists ==
  ASSUME NEW v, NEW m \in Nat, NEW n \in Nat,
         \E k \in m + 1 .. n : v \in log[k].values
  PROVE  \E k \in m + 1 .. n : LastAbout(k, v, n)
  <1> DEFINE T == {d \in Nat : n - d \in m + 1 .. n /\ v \in log[n - d].values}
  <1>1. PICK k \in m + 1 .. n : v \in log[k].values
    OBVIOUS
  <1>2. n - k \in Nat /\ n - (n - k) = k
    OBVIOUS
  <1>3. n - k \in T
    BY <1>1, <1>2
  <1>4. T \in SUBSET Nat /\ T # {}
    BY <1>3
  <1>5. PICK d \in T : \A e \in T : d =< e
    <2> HIDE DEF T
    <2> QED
      BY <1>4, LeastNumber
  <1>6. \A j \in (n - d) + 1 .. n : v \notin log[j].values
    <2> SUFFICES ASSUME NEW j \in (n - d) + 1 .. n, v \in log[j].values
                 PROVE  FALSE
      OBVIOUS
    <2>1. d \in Nat /\ n - d \in m + 1 .. n
      BY <1>5
    <2>2. n - j \in Nat /\ n - (n - j) = j /\ n - j < d /\ j \in m + 1 .. n
      BY <2>1
    <2>3. n - j \in T
      BY <2>2
    <2>4. d =< n - j
      BY <1>5, <2>3
    <2> QED
      BY <2>1, <2>2, <2>4
  <1>7. n - d \in m + 1 .. n /\ LastAbout(n - d, v, n)
    BY <1>5, <1>6 DEF LastAbout
  <1> QED
    BY <1>7

\* Two last events about a value are the same event.
LEMMA LastUnique ==
  ASSUME NEW v, NEW n \in Nat, NEW k \in 1 .. n, NEW j \in 1 .. n,
         LastAbout(k, v, n), LastAbout(j, v, n)
  PROVE  k = j
  BY DEF LastAbout

\* A worker that has caught up holds each value it has heard of as the last
\* event about the value says.
LEMMA HeardLast ==
  ASSUME SyncInv, NEW w \in Workers, CaughtUp(w), NEW v \in Heard(w)
  PROVE  \E k \in 1 .. Len(log) :
           /\ v \in Values
           /\ LastAbout(k, v, Len(log))
           /\ Contains(w, v) <=> log[k].type # "delete"
  <1> DEFINE n == Len(log)
  <1>1. n \in Nat /\ start[w] \in Nat
    BY DEF SyncInv, TypeOK, Positions
  <1>2. \E k \in start[w] + 1 .. n : v \in log[k].values
    BY DEF Heard
  <1> HIDE DEF n
  <1>3. PICK k \in start[w] + 1 .. n : LastAbout(k, v, n)
    BY <1>1, <1>2, LastExists
  <1>4. k \in 1 .. n
    BY <1>1
  <1>5. v \in Values
    BY <1>3, <1>4, EventType DEF SyncInv, LastAbout, n
  <1>6. Applied(w) = n
    BY DEF Applied, CaughtUp, n
  <1>7. /\ v \in added[w] <=> log[k].type # "delete"
        /\ v \in tombs[w] <=> log[k].type = "delete"
    BY <1>3, <1>5, <1>6 DEF SyncInv, Follows, OverlayReplays
  <1> QED
    BY <1>3, <1>4, <1>5, <1>7 DEF Contains, n

-----------------------------------------------------------------------------
(* The theorems *)

LEMMA InitSyncInv == Init => SyncInv
  <1> SUFFICES ASSUME Init PROVE SyncInv
    OBVIOUS
  <1>1. TypeOK
    BY InitType
  <1>2. log = <<>> /\ Len(log) = 0
    BY DEF Init
  <1>3. Follows
    BY <1>2 DEF Init, Follows, Bounded, OverlayDisjoint, OverlayReplays, Applied, NoCursor
  <1>4. LogTells
    BY <1>2 DEF LogTells
  <1>5. SnapshotsFit
    BY DEF Init, SnapshotsFit, NoSnapshot, Scanning, Attachable
  <1> QED
    BY <1>1, <1>3, <1>4, <1>5 DEF SyncInv

\* The invariant of this module is inductive.
LEMMA SyncInvariant == Spec => []SyncInv
  <1>1. SyncInv /\ [Next]_vars => SyncInv'
    BY NextType, NextFollows, LogStaysTelling, SnapshotsStayFit DEF SyncInv, Follows
  <1> QED
    BY <1>1, InitSyncInv, PTL DEF Spec

\* Every variable keeps its type; in particular no worker's cursor or stream
\* position leaves OpenCTI's log.
THEOREM TypeCorrect == Spec => []TypeOK
  <1>1. SyncInv => TypeOK
    BY DEF SyncInv
  <1> QED
    BY <1>1, SyncInvariant, PTL

\* The last event about a value that the worker was told of and nothing unsaid
\* happened to since tells whether OpenCTI shows it, and the worker follows it.
LEMMA ToldLast ==
  ASSUME SyncInv, NEW w \in Workers, CaughtUp(w), NEW v \in Told(w)
  PROVE  /\ Contains(w, v) => Shown(v)
         /\ Exclusive(v) /\ Known(v) => Contains(w, v)
  <1>1. PICK j \in start[w] + 1 .. Len(log) : v \in log[j].values /\ NothingUnsaid(v, j)
    BY DEF Told
  <1>2. v \in Heard(w)
    BY <1>1 DEF Heard
  <1>3. PICK k \in 1 .. Len(log) :
          v \in Values /\ LastAbout(k, v, Len(log))
          /\ (Contains(w, v) <=> log[k].type # "delete")
    BY <1>2, HeardLast
  <1>4. Len(log) \in Nat /\ start[w] \in Nat
    BY DEF SyncInv, TypeOK, Positions
  <1>5. j =< k
    BY <1>1, <1>3, <1>4 DEF LastAbout
  <1>6. NothingUnsaid(v, k)
    BY <1>1, <1>3, <1>4, <1>5 DEF NothingUnsaid
  <1> QED
    BY <1>3, <1>6 DEF SyncInv, LogTells

\* A worker that has caught up answers "present" for a value that its stream has
\* told it of only if OpenCTI has an observable of it, and always if the value is
\* known and nothing shares it, however deliveries, swaps, reconnects and deaths
\* interleave.
THEOREM ToldValuesAnswered == Spec => []ToldAnswered
  <1>1. SyncInv => ToldAnswered
    BY ToldLast DEF ToldAnswered
  <1> QED
    BY <1>1, SyncInvariant, PTL

\* A known value that nothing shares is never dismissed by a ready worker that
\* has caught up and whose run began before its snapshot, if its stream has told
\* it of the value, or if the overlay says nothing of it and nothing unsaid has
\* happened to it since the snapshot's scan began.
THEOREM NoFalseMisses == Spec => []NoFalseMiss
  <1>1. SyncInv => NoFalseMiss
    <2> SUFFICES ASSUME SyncInv, NEW w \in Workers, ready[w], CaughtUp(w),
                        start[w] =< packed[w].at,
                        NEW v \in Values, Exclusive(v), Known(v),
                        v \in Told(w) \/ (v \notin Touched(w)
                                          /\ NothingUnsaid(v, packed[w].at))
                 PROVE  Contains(w, v)
      BY DEF NoFalseMiss
    <2>1. CASE v \in Told(w)
      BY <2>1, ToldLast
    <2>2. CASE v \notin Touched(w) /\ NothingUnsaid(v, packed[w].at)
      <3>1. start[w] \in Nat /\ packed[w].at \in Nat /\ Len(log) \in Nat
        BY DEF SyncInv, TypeOK, Positions, Snapshots
      <3>2. v \notin Heard(w)
        <4> SUFFICES ASSUME v \in Heard(w) PROVE FALSE
          OBVIOUS
        <4>1. PICK j \in start[w] + 1 .. Len(log) : v \in log[j].values
          BY DEF Heard
        <4>2. PICK k \in start[w] + 1 .. Len(log) : LastAbout(k, v, Len(log))
          BY <3>1, <4>1, LastExists
        <4>3. Applied(w) = Len(log)
          BY DEF Applied, CaughtUp
        <4> QED
          BY <2>2, <4>2, <4>3 DEF SyncInv, Follows, OverlayReplays, Touched
      <3>3. \A k \in packed[w].at + 1 .. Len(log) : v \notin log[k].values
        BY <3>1, <3>2 DEF Heard
      <3>4. v \in packed[w].values
        BY <2>2, <3>3 DEF SyncInv, SnapshotsFit, Fits, Unchanged
      <3> QED
        BY <2>2, <3>4 DEF Contains, Touched
    <2> QED
      BY <2>1, <2>2
  <1> QED
    BY <1>1, SyncInvariant, PTL

\* Workers that have caught up agree on every value both have heard of.
THEOREM WorkersAgree == Spec => []TouchedAgree
  <1>1. SyncInv => TouchedAgree
    <2> SUFFICES ASSUME SyncInv, NEW w1 \in Workers, NEW w2 \in Workers,
                        CaughtUp(w1), CaughtUp(w2),
                        NEW v \in Heard(w1) \cap Heard(w2)
                 PROVE  Contains(w1, v) <=> Contains(w2, v)
      BY DEF TouchedAgree
    <2>1. PICK k \in 1 .. Len(log) :
            LastAbout(k, v, Len(log)) /\ (Contains(w1, v) <=> log[k].type # "delete")
      BY HeardLast
    <2>2. PICK j \in 1 .. Len(log) :
            LastAbout(j, v, Len(log)) /\ (Contains(w2, v) <=> log[j].type # "delete")
      BY HeardLast
    <2>3. Len(log) \in Nat
      BY DEF SyncInv, TypeOK
    <2>4. k = j
      BY <2>1, <2>2, <2>3, LastUnique
    <2> QED
      BY <2>1, <2>2, <2>4
  <1> QED
    BY <1>1, SyncInvariant, PTL

-----------------------------------------------------------------------------
(* The refinement of LiveSet *)

\* A step that concerns neither a set's overlay nor its snapshot.
LEMMA MembersStutter ==
  ASSUME UNCHANGED <<packed, added, tombs>>
  PROVE  UNCHANGED LS!vars
  BY DEF LS!vars, Member, Contains, Touched

\* The other workers' sets are left alone.
OthersKeep(w) ==
  \A w2 \in Workers \ {w} : UNCHANGED <<packed[w2], added[w2], tombs[w2]>>

LEMMA OthersMembers ==
  ASSUME NEW w \in Workers, OthersKeep(w), NEW w2 \in Workers \ {w}
  PROVE  Member(w2)' = Member(w2) /\ Touched(w2)' = Touched(w2)
  BY DEF OthersKeep, Member, Contains, Touched

\* A swap is a Rebase: the overlay still decides for every touched value.
LEMMA SwapRebases ==
  ASSUME SyncInv, NEW w \in Workers, NEW snapshot \in Snapshots, Swap(w, snapshot)
  PROVE  LS!Next
  <1>1. /\ added' = added /\ tombs' = tombs
        /\ packed' = [packed EXCEPT ![w] = snapshot]
    BY SwapKeepsOverlay DEF SyncInv, Follows, Swap
  <1>2. packed \in [Workers -> Snapshots]
    BY DEF SyncInv, TypeOK
  <1>3. packed'[w] = snapshot /\ OthersKeep(w)
    BY <1>1, <1>2 DEF OthersKeep
  <1>4. Touched(w)' = Touched(w)
    BY <1>1 DEF Touched
  <1>5. Member(w)' = (Member(w) \cap Touched(w)) \cup (snapshot.values \ Touched(w))
    <2>1. snapshot.values \subseteq Values
      BY DEF Snapshots
    <2> QED
      BY <1>1, <1>3, <2>1 DEF Member, Contains, Touched
  <1>6. LS!Rebase(w, snapshot.values)
    BY <1>3, <1>4, <1>5, OthersMembers DEF LS!Rebase
  <1>7. snapshot.values \in SUBSET Values
    BY DEF Snapshots
  <1> QED
    BY <1>6, <1>7 DEF LS!Next

\* A delivered event is an Add or a Remove.
LEMMA DeliverDecides ==
  ASSUME SyncInv, NEW w \in Workers, Deliver(w)
  PROVE  LS!Next
  <1> DEFINE event == log[pos[w] + 1]  vs == event.values
  <1>1. pos[w] + 1 \in 1 .. Len(log)
    BY DEF SyncInv, TypeOK, Positions, Deliver
  <1>2. vs \in SUBSET Values
    BY <1>1, EventType DEF SyncInv
  <1>3. /\ packed' = packed
        /\ AddValues(w, vs) \/ RemoveValues(w, vs)
    BY DEF Deliver, Apply
  <1>4. added \in [Workers -> SUBSET Values] /\ tombs \in [Workers -> SUBSET Values]
    BY DEF SyncInv, TypeOK
  <1> HIDE DEF vs, event
  <1>5. OthersKeep(w)
    BY <1>2, <1>3, <1>4 DEF OthersKeep, AddValues, RemoveValues
  <1>6. CASE AddValues(w, vs)
    <2>1. added'[w] = added[w] \cup vs /\ tombs'[w] = tombs[w] \ vs
      BY <1>4, <1>6 DEF AddValues
    <2>2. Member(w)' = Member(w) \cup vs /\ Touched(w)' = Touched(w) \cup vs
      BY <1>2, <1>3, <2>1 DEF Member, Contains, Touched
    <2>3. LS!Add(w, vs)
      BY <1>5, <2>2, OthersMembers DEF LS!Add
    <2> QED
      BY <1>2, <2>3 DEF LS!Next
  <1>7. CASE RemoveValues(w, vs)
    <2>1. added'[w] = added[w] \ vs /\ tombs'[w] = tombs[w] \cup vs
      BY <1>4, <1>7 DEF RemoveValues
    <2>2. Member(w)' = Member(w) \ vs /\ Touched(w)' = Touched(w) \cup vs
      BY <1>2, <1>3, <2>1 DEF Member, Contains, Touched
    <2>3. LS!Remove(w, vs)
      BY <1>5, <2>2, OthersMembers DEF LS!Remove
    <2> QED
      BY <1>2, <2>3 DEF LS!Next
  <1> QED
    BY <1>3, <1>6, <1>7

\* A process's end is a Reset.
LEMMA KillResets ==
  ASSUME SyncInv, NEW w \in Workers, Kill(w)
  PROVE  LS!Next
  <1>1. added'[w] = {} /\ tombs'[w] = {} /\ packed'[w] = NoSnapshot /\ OthersKeep(w)
    BY DEF SyncInv, TypeOK, Kill, OthersKeep
  <1>2. Member(w)' = {} /\ Touched(w)' = {}
    BY <1>1 DEF Member, Contains, Touched, NoSnapshot
  <1>3. LS!Reset(w)
    BY <1>1, <1>2, OthersMembers DEF LS!Reset
  <1> QED
    BY <1>3 DEF LS!Next

LEMMA LiveSetStep ==
  ASSUME SyncInv, [Next]_vars
  PROVE  [LS!Next]_LS!vars
  <1> USE DEF upstream, sets, stream, building, vars
  <1>1. CASE UNCHANGED <<packed, added, tombs>>
    BY <1>1, MembersStutter
  <1>2. CASE FinishScan
    <2>1. [values |-> scan.got, at |-> scan.at] \in Snapshots
      BY <1>2 DEF FinishScan, Scanning, SyncInv, TypeOK, Scans, Snapshots
    <2> QED
      BY <1>2, <2>1, SwapRebases, BuilderAssumption DEF FinishScan
  <1>3. ASSUME NEW w \in Workers, BootReader(w) \/ AdoptPublished(w)
        PROVE  [LS!Next]_LS!vars
    <2>1. published \in Snapshots
      BY DEF SyncInv, TypeOK
    <2> QED
      BY <1>1, <1>3, <2>1, SwapRebases DEF BootReader, AdoptPublished
  <1>4. ASSUME NEW w \in Workers, Deliver(w) \/ Kill(w)
        PROVE  [LS!Next]_LS!vars
    BY <1>4, DeliverDecides, KillResets
  <1>5. CASE Upstream \/ BootBuilder \/ StartReconcile \/ ScanFails \/ UNCHANGED vars
    BY <1>1, <1>5, UpstreamEmits DEF EmitsTruth, Emit, SyncInv, TypeOK,
       BootBuilder, StartReconcile, ScanFails
  <1>6. ASSUME NEW n \in Nodes, ReadNode(n)
        PROVE  [LS!Next]_LS!vars
    BY <1>1, <1>6 DEF ReadNode
  <1>7. ASSUME NEW w \in Workers, Drop(w) \/ Connect(w) \/ Heartbeat(w)
        PROVE  [LS!Next]_LS!vars
    BY <1>1, <1>7 DEF Drop, Connect, Heartbeat
  <1> QED
    BY <1>2, <1>3, <1>4, <1>5, <1>6, <1>7 DEF Next, Build, Disturb, Follow, Consume

\* In every process the last event about a value decides whether it is a
\* member, and only untouched values follow the snapshot, through every swap.
THEOREM LiveSetImplemented == Spec => ImplementsLiveSet
  <1>1. Init => LS!Init
    BY DEF Init, LS!Init, Member, Contains, Touched, NoSnapshot
  <1>2. SyncInv /\ [Next]_vars => [LS!Next]_LS!vars
    BY LiveSetStep
  <1> QED
    BY <1>1, <1>2, SyncInvariant, PTL DEF Spec, LS!Spec, ImplementsLiveSet

=============================================================================
