--------------------------- MODULE MembershipSync ---------------------------
(***************************************************************************)
(* How each worker's membership set follows OpenCTI: a packed snapshot     *)
(* (bootstrap.py, built page by page while OpenCTI changes), an overlay of *)
(* additions and tombstones (backends/membership.py) written by the live   *)
(* stream (opencti/stream.py), and snapshots swapped in underneath by      *)
(* reconciles and by the readers' watchers (reconcile.py,                  *)
(* membership_loader.py, backends/split.py).                               *)
(*                                                                         *)
(* Builder is the worker that holds the lock; the election, the segments   *)
(* and their generations are in SharedMembership. A generation is only     *)
(* compared here ("newer than mine"), so published is the newest one and   *)
(* behind[w] says that w does not serve it.                                *)
(***************************************************************************)
EXTENDS Integers, Sequences, FiniteSets

CONSTANTS
  Workers, Builder,
  Values,        \* observable values, in the form normalize() gives them
  Observables,   \* OpenCTI's observable objects
  Indicators,    \* OpenCTI's indicator objects
  Shows,         \* the value of an observable
  Streamed,      \* the observables whose own events carry it (OBSERVABLE_TYPES)
  Basis,         \* the observables an indicator may ever be based on
  Precise,       \* MEMBERSHIP_SOURCE = indicators (TRUE) or observables (FALSE)
  OverlayMax,    \* membership_overlay_max
  Retention,     \* events OpenCTI keeps for a consumer that reconnects
  MaxEvents      \* bound: changes of OpenCTI's corpus

ASSUME BuilderAssumption == Builder \in Workers
ASSUME CorpusAssumption ==
  /\ Shows \in [Observables -> Values] /\ Streamed \subseteq Observables
  /\ Basis \in [Indicators -> SUBSET Observables]
ASSUME FiniteAssumption == IsFiniteSet(Indicators) /\ IsFiniteSet(Observables)
ASSUME NumbersAssumption ==
  OverlayMax \in Nat /\ Retention \in Nat /\ MaxEvents \in Nat

VARIABLES
  live,       \* OpenCTI: the indicators that exist
  present,    \* OpenCTI: the observables that exist
  based,      \* OpenCTI: the observables an indicator is based on
  log,        \* OpenCTI: its stream, oldest event first
  up,         \* a worker's process runs and _activate has wired it up
  ready,      \* SplitBackend._ready
  packed,     \* the sorted segment the worker maps
  added,      \* overlay: MembershipSet._added
  tombs,      \* overlay: MembershipSet._tombstones
  conn,       \* the SSE connection is up
  pos,        \* stream position the open connection has delivered up to
  cursor,     \* StreamConsumer._cursor, NoCursor before the first id
  published,  \* the newest published segment
  behind,     \* the published segment is newer than the worker's
  scan,       \* the builder's bootstrap in progress
  start       \* ghost: where the worker's unbroken run of events begins

upstream == <<live, present, based, log>>
sets == <<ready, packed, added, tombs>>
stream == <<conn, pos, cursor, start>>
building == <<published, behind, scan>>
vars == <<live, present, based, log, up, ready, packed, added, tombs, conn, pos, cursor,
          published, behind, scan, start>>

Positions == 0 .. MaxEvents
NoCursor == -1

ADD_EVENTS == {"create", "update", "merge"}
REMOVE_EVENTS == {"delete"}

\* What extract_values finds in an event, and (ghost) the values whose
\* observables or indicators the change touched without the event saying so.
Events == [type : ADD_EVENTS \cup REMOVE_EVENTS,
           values : SUBSET Values, unsaid : SUBSET Values]

\* A snapshot's values, and (ghost) the stream position when its scan began.
Snapshots == [values : SUBSET Values, at : Positions]
NoSnapshot == [values |-> {}, at |-> 0]

\* The source's nodes left to read, the values found, and (ghost) where the
\* scan began.
Nodes == IF Precise THEN Indicators ELSE Observables
Scans == [todo : SUBSET Nodes, got : SUBSET Values, at : Positions]
NoScan == [todo |-> {}, got |-> {}, at |-> -1]
Scanning == scan # NoScan

\* An indicator is based on observables that exist.
CorpusTypeOK ==
  /\ live \subseteq Indicators /\ present \subseteq Observables
  /\ based \in [Indicators -> SUBSET present]
  /\ \A i \in Indicators : based[i] \subseteq Basis[i]

TypeOK ==
  /\ CorpusTypeOK
  /\ log \in Seq(Events) /\ Len(log) =< MaxEvents
  /\ up \in [Workers -> BOOLEAN] /\ ready \in [Workers -> BOOLEAN]
  /\ packed \in [Workers -> Snapshots]
  /\ added \in [Workers -> SUBSET Values]
  /\ tombs \in [Workers -> SUBSET Values]
  /\ conn \in [Workers -> BOOLEAN]
  /\ pos \in [Workers -> Positions] /\ start \in [Workers -> Positions]
  /\ cursor \in [Workers -> Positions \cup {NoCursor}]
  /\ published \in Snapshots
  /\ behind \in [Workers -> BOOLEAN]
  /\ scan \in Scans \cup {NoScan}

\* The service starts on whatever corpus OpenCTI has.
Init ==
  /\ live \in SUBSET Indicators /\ present \in SUBSET Observables
  /\ based \in [Indicators -> SUBSET present]
  /\ \A i \in Indicators : based[i] \subseteq IF i \in live THEN Basis[i] ELSE {}
  /\ log = <<>>
  /\ up = [w \in Workers |-> FALSE] /\ ready = [w \in Workers |-> FALSE]
  /\ packed = [w \in Workers |-> NoSnapshot]
  /\ added = [w \in Workers |-> {}] /\ tombs = [w \in Workers |-> {}]
  /\ conn = [w \in Workers |-> FALSE]
  /\ pos = [w \in Workers |-> 0] /\ start = [w \in Workers |-> 0]
  /\ cursor = [w \in Workers |-> NoCursor]
  /\ published = NoSnapshot
  /\ behind = [w \in Workers |-> w # Builder]
  /\ scan = NoScan

-----------------------------------------------------------------------------
(* OpenCTI, as the service sees it *)

\* A value is known when a lookup of it finds an indicator. An observable that
\* no indicator is based on is found, and is no hit.
ShownBy(v) == {o \in present : Shows[o] = v}
CoveredBy(v) == {i \in live : \E o \in based[i] : Shows[o] = v}
Shown(v) == ShownBy(v) # {}
Known(v) == CoveredBy(v) # {}

\* extract_values: an indicator's event carries its observables' values inline,
\* the event of an observable of the five types its own, any other none.
InlineOf(os) == {Shows[o] : o \in os}
OwnOf(o) == IF o \in Streamed THEN {Shows[o]} ELSE {}

Emit(type, values) ==
  /\ Len(log) < MaxEvents
  /\ log' = Append(log, [type |-> type, values |-> values,
       unsaid |-> {v \in Values \ values :
                     ShownBy(v)' # ShownBy(v) \/ CoveredBy(v)' # CoveredBy(v)}])
  /\ UNCHANGED <<up, sets, stream, building>>

\* The observables an indicator can be based on now.
Bases(i) == SUBSET (Basis[i] \cap present)

CreateIndicator(i) ==
  /\ i \notin live
  /\ live' = live \cup {i}
  /\ \E os \in Bases(i) :
       based' = [based EXCEPT ![i] = os] /\ UNCHANGED present
         /\ Emit("create", InlineOf(os))

\* The indicator may have come to be based on other observables.
UpdateIndicator(i) ==
  /\ i \in live
  /\ \E os \in Bases(i) :
       based' = [based EXCEPT ![i] = os] /\ UNCHANGED <<live, present>>
         /\ Emit("update", InlineOf(os))

DeleteIndicator(i) ==
  /\ i \in live
  /\ live' = live \ {i}
  /\ based' = [based EXCEPT ![i] = {}]
  /\ UNCHANGED present
  /\ Emit("delete", InlineOf(based[i]))

\* The event is the survivor's.
MergeIndicators(i, j) ==
  /\ i # j /\ {i, j} \subseteq live /\ based[j] \subseteq Basis[i]
  /\ live' = live \ {j}
  /\ based' = [based EXCEPT ![i] = @ \cup based[j], ![j] = {}]
  /\ UNCHANGED present
  /\ Emit("merge", InlineOf(based[i] \cup based[j]))

\* A relationship appears or goes away; its event carries no value.
Relate(i, o) ==
  /\ i \in live /\ o \in Basis[i] \cap present
  /\ based' = [based EXCEPT ![i] = IF o \in @ THEN @ \ {o} ELSE @ \cup {o}]
  /\ UNCHANGED <<live, present>>
  /\ Emit(IF o \in based[i] THEN "delete" ELSE "create", {})

CreateObservable(o) ==
  /\ o \notin present
  /\ present' = present \cup {o}
  /\ UNCHANGED <<live, based>>
  /\ Emit("create", OwnOf(o))

UpdateObservable(o) ==
  /\ o \in present
  /\ UNCHANGED <<live, present, based>>
  /\ Emit("update", OwnOf(o))

DeleteObservable(o) ==
  /\ o \in present
  /\ present' = present \ {o}
  /\ based' = [i \in Indicators |-> based[i] \ {o}]
  /\ UNCHANGED live
  /\ Emit("delete", OwnOf(o))

\* o is merged into another observable of its type, or its value is edited to
\* be the other's. The event carries the value that remains.
Become(o, other) ==
  /\ o \in present /\ o # other /\ (o \in Streamed <=> other \in Streamed)
  /\ \A i \in Indicators : o \in based[i] => other \in Basis[i]
  /\ present' = (present \ {o}) \cup {other}
  /\ based' = [i \in Indicators |->
                 IF o \in based[i] THEN (based[i] \ {o}) \cup {other} ELSE based[i]]
  /\ UNCHANGED live
  /\ Emit(IF other \in present THEN "merge" ELSE "update", OwnOf(other))

-----------------------------------------------------------------------------
(* MembershipSet *)

\* __contains__: tombstones first, then additions, then the packed array.
Contains(w, v) ==
  /\ v \notin tombs[w]
  /\ v \in added[w] \/ v \in packed[w].values

OverlayFull(a, t) == Cardinality(a) + Cardinality(t) >= OverlayMax

\* add and remove: a value is never in both sets.
AddKeepsTombstone(w, vs) ==            \* mutant: the tombstone is not discarded
  /\ added' = [added EXCEPT ![w] = @ \cup vs]
  /\ UNCHANGED tombs
AddValues(w, vs) ==
  /\ added' = [added EXCEPT ![w] = @ \cup vs]
  /\ tombs' = [tombs EXCEPT ![w] = @ \ vs]

RemoveValues(w, vs) ==
  /\ added' = [added EXCEPT ![w] = @ \ vs]
  /\ tombs' = [tombs EXCEPT ![w] = @ \cup vs]

\* adopt_overlay into a set whose own overlay is still empty.
DropOverlay(w) ==                      \* mutant: pending updates are not carried
  /\ added' = [added EXCEPT ![w] = {}]
  /\ tombs' = [tombs EXCEPT ![w] = {}]
AdoptAdditions(w) ==                   \* mutant: tombstones are not carried
  /\ tombs' = [tombs EXCEPT ![w] = {}]
  /\ UNCHANGED added
AdoptOverlay(w) ==
  /\ added' = [added EXCEPT ![w] = @ \ tombs[w]]
  /\ UNCHANGED tombs

\* swap_membership
Swap(w, snapshot) ==
  /\ AdoptOverlay(w)
  /\ packed' = [packed EXCEPT ![w] = snapshot]
  /\ ready' = [ready EXCEPT ![w] = TRUE]

-----------------------------------------------------------------------------
(* Building a snapshot: count, then one page after another *)

\* The values a node has when its page is read.
Yields(n) == {v \in Values : n \in IF Precise THEN CoveredBy(v) ELSE ShownBy(v)}

\* Pages are read one by one, so each node is as of its own moment. One created
\* in the meantime comes on a page still to be read, or it does not.
StartScan ==
  /\ ~ Scanning
  /\ \E late \in SUBSET (Nodes \ (live \cup present)) :
       scan' = [todo |-> (Nodes \cap (live \cup present)) \cup late,
                got |-> {}, at |-> Len(log)]

\* The builder boots, or its retry loop tries again.
BootBuilder ==
  /\ ~ up[Builder]
  /\ StartScan
  /\ UNCHANGED <<upstream, up, sets, stream, published, behind>>

\* Reconciler.run: the interval has passed, or a full overlay asked for a rebuild
\* (request). Either may be at any time, so neither is a variable.
StartReconcile ==
  /\ up[Builder]
  /\ StartScan
  /\ UNCHANGED <<upstream, up, sets, stream, published, behind>>

\* The last page has been read. The corpus is taken to fit max_entries: load()
\* refuses one that does not (SkipTooLarge in SharedMembership).
ReadAll == scan.todo = {}

\* A node is read once, and yields nothing if it is gone by then.
ReadNode(n) ==
  /\ Scanning /\ n \in scan.todo
  /\ scan' = [scan EXCEPT !.todo = @ \ {n}, !.got = @ \cup Yields(n)]
  /\ UNCHANGED <<upstream, up, sets, stream, published, behind>>

\* A query fails: nothing is published, the old set stays.
ScanFails ==
  /\ Scanning /\ ~ ReadAll
  /\ scan' = NoScan
  /\ UNCHANGED <<upstream, up, sets, stream, published, behind>>

\* MembershipSet.build of what was read, publish, and the swap: _activate at boot, _rebuild's swap later.
FinishScan ==
  /\ Scanning /\ ReadAll
  /\ LET snapshot == [values |-> scan.got, at |-> scan.at]
     IN  /\ published' = snapshot
         /\ Swap(Builder, snapshot)
  /\ up' = [up EXCEPT ![Builder] = TRUE]
  /\ behind' = [w \in Workers |-> w # Builder]
  /\ scan' = NoScan
  /\ UNCHANGED <<upstream, stream>>

-----------------------------------------------------------------------------
(* Readers *)

\* An empty corpus is published without a segment.
Attachable == published.values # {}

\* load() as a loser: attach to what is published, or give up waiting and
\* serve live with an empty set until the watcher finds a segment.
BootReader(w) ==
  /\ w # Builder /\ ~ up[w]
  /\ up' = [up EXCEPT ![w] = TRUE]
  /\ \/ /\ Attachable
        /\ Swap(w, published)
        /\ behind' = [behind EXCEPT ![w] = FALSE]
     \/ UNCHANGED <<sets, behind>>
  /\ UNCHANGED <<upstream, stream, published, scan>>

\* watch_for_new_generation
AdoptPublished(w) ==
  /\ w # Builder /\ up[w] /\ behind[w] /\ Attachable
  /\ Swap(w, published)
  /\ behind' = [behind EXCEPT ![w] = FALSE]
  /\ UNCHANGED <<upstream, up, stream, published, scan>>

-----------------------------------------------------------------------------
(* StreamConsumer *)

\* ?from=<cursor> replays what OpenCTI still has; without a cursor the stream
\* begins with what happens next.
ResumePastCursor(w) ==                 \* mutant: asks for the event after the next
  IF cursor[w] = NoCursor THEN Len(log) ELSE cursor[w] + 1
Oldest == IF Len(log) > Retention THEN Len(log) - Retention ELSE 0
Resume(w) ==
  IF cursor[w] = NoCursor THEN Len(log)
  ELSE IF cursor[w] < Oldest THEN Oldest ELSE cursor[w]

ConnectTo(w, from) ==
  /\ conn' = [conn EXCEPT ![w] = TRUE]
  /\ pos' = [pos EXCEPT ![w] = from]
  /\ start' = [start EXCEPT ![w] = IF cursor[w] = from THEN @ ELSE from]
  /\ UNCHANGED cursor

ConnectOnce(w) ==                      \* mutant: a closed stream is not reopened
  /\ up[w] /\ ~ conn[w] /\ cursor[w] = NoCursor
  /\ ConnectTo(w, Resume(w))
  /\ UNCHANGED <<upstream, up, sets, building>>
ConnectFromEnd(w) ==                   \* mutant: the cursor is not sent
  /\ up[w] /\ ~ conn[w]
  /\ conn' = [conn EXCEPT ![w] = TRUE]
  /\ pos' = [pos EXCEPT ![w] = Len(log)]
  /\ UNCHANGED <<upstream, up, sets, building, cursor, start>>
Connect(w) ==
  /\ up[w] /\ ~ conn[w]
  /\ ConnectTo(w, Resume(w))
  /\ UNCHANGED <<upstream, up, sets, building>>

\* Any error or a clean end of the response; run() reconnects later.
Drop(w) ==
  /\ conn[w]
  /\ conn' = [conn EXCEPT ![w] = FALSE]
  /\ pos' = [pos EXCEPT ![w] = 0]
  /\ UNCHANGED <<upstream, up, sets, cursor, start, building>>

\* _handle for an event with observable values: all of it before the next
\* await. An event without any changes only the cursor.
Apply(w, event) ==
  IF event.type \in REMOVE_EVENTS THEN RemoveValues(w, event.values)
                                  ELSE AddValues(w, event.values)

Deliver(w) ==
  /\ conn[w] /\ pos[w] < Len(log)
  /\ Apply(w, log[pos[w] + 1])
  /\ pos' = [pos EXCEPT ![w] = @ + 1]
  /\ cursor' = [cursor EXCEPT ![w] = pos[w] + 1]
  /\ UNCHANGED <<upstream, up, ready, packed, conn, start, building>>

\* A heartbeat carries the id the stream has reached.
Heartbeat(w) ==
  /\ conn[w] /\ pos[w] = Len(log)
  /\ cursor' = [cursor EXCEPT ![w] = pos[w]]
  /\ UNCHANGED <<upstream, up, sets, conn, pos, start, building>>

-----------------------------------------------------------------------------
\* The process dies or is stopped: its overlay and its cursor are gone. The
\* builder's death also ends its scan; what was published stays.
Kill(w) ==
  /\ up[w]
  /\ up' = [up EXCEPT ![w] = FALSE]
  /\ ready' = [ready EXCEPT ![w] = FALSE]
  /\ packed' = [packed EXCEPT ![w] = NoSnapshot]
  /\ added' = [added EXCEPT ![w] = {}]
  /\ tombs' = [tombs EXCEPT ![w] = {}]
  /\ conn' = [conn EXCEPT ![w] = FALSE]
  /\ pos' = [pos EXCEPT ![w] = 0]
  /\ cursor' = [cursor EXCEPT ![w] = NoCursor]
  /\ start' = [start EXCEPT ![w] = 0]
  /\ behind' = [behind EXCEPT ![w] = w # Builder]
  /\ scan' = IF w = Builder THEN NoScan ELSE scan
  /\ UNCHANGED <<upstream, published>>

Upstream ==
  \/ \E i \in Indicators :
       \/ CreateIndicator(i) \/ UpdateIndicator(i) \/ DeleteIndicator(i)
       \/ \E j \in Indicators : MergeIndicators(i, j)
       \/ \E o \in Observables : Relate(i, o)
  \/ \E o \in Observables :
       \/ CreateObservable(o) \/ UpdateObservable(o) \/ DeleteObservable(o)
       \/ \E other \in Observables : Become(o, other)

Build == BootBuilder \/ StartReconcile \/ FinishScan \/ \E n \in Nodes : ReadNode(n)

Follow(w) == BootReader(w) \/ AdoptPublished(w)

Consume(w) == Connect(w) \/ Deliver(w)

Disturb == ScanFails \/ \E w \in Workers : Drop(w) \/ Kill(w)

Next ==
  \/ Upstream \/ Build \/ Disturb
  \/ \E w \in Workers : Follow(w) \/ Consume(w) \/ Heartbeat(w)

Spec == Init /\ [][Next]_vars
\* Failures and the corpus's changes end at some point; until then nothing is
\* asked of the workers. Sleeps, retries and reconnects do come to an end.
Fairness ==
  /\ WF_vars(Build)
  /\ \A w \in Workers : WF_vars(Follow(w)) /\ WF_vars(Consume(w))
FairSpec == Spec /\ Fairness

-----------------------------------------------------------------------------
(* Safety *)

Member(w) == {v \in Values : Contains(w, v)}
Touched(w) == added[w] \cup tombs[w]
CaughtUp(w) == conn[w] /\ pos[w] = Len(log)

\* One observable has the value, and one indicator may be based on it. (For
\* others see SharedValueKept.)
Exclusive(v) ==
  /\ Cardinality({o \in Observables : Shows[o] = v}) =< 1
  /\ Cardinality({i \in Indicators : \E o \in Basis[i] : Shows[o] = v}) =< 1

\* The values of the events since the worker's unbroken run began. A value
\* touched before a gap in the stream may have changed unheard.
Heard(w) == UNION {log[k].values : k \in start[w] + 1 .. Len(log)}

\* Nothing has happened to the value since position at that no event told.
\* (Relationships, files, a value edited away: extract_values skips them.)
NothingUnsaid(v, at) == \A k \in at + 1 .. Len(log) : v \notin log[k].unsaid

\* The values the worker's run has spoken of, and not been silent on since.
Told(w) == {v \in Values : \E k \in start[w] + 1 .. Len(log) :
                            v \in log[k].values /\ NothingUnsaid(v, k)}

\* However its deliveries interleave with rebuilds, swaps, reconnects and gaps,
\* a worker that has caught up answers "present" for a value its stream has told
\* it of only if OpenCTI has an observable of it, and always if the value is
\* known, unless observables or indicators share it.
ToldAnswered ==
  \A w \in Workers : CaughtUp(w) =>
    \A v \in Told(w) :
      /\ Contains(w, v) => Shown(v)
      /\ Exclusive(v) /\ Known(v) => Contains(w, v)

\* No false misses: a ready worker that has caught up, and whose unbroken run
\* began before the snapshot it serves, answers "present" for every known value
\* that nothing shares, if its stream has told it of the value, or if no event
\* has touched the value in this process and nothing unsaid has happened to it
\* since the snapshot's scan began. What arrived during the scan is not lost.
NoFalseMiss ==
  \A w \in Workers : (ready[w] /\ CaughtUp(w) /\ start[w] =< packed[w].at) =>
    \A v \in Values :
      /\ Exclusive(v) /\ Known(v)
      /\ v \in Told(w) \/ (v \notin Touched(w) /\ NothingUnsaid(v, packed[w].at))
      => Contains(w, v)

\* Two workers that have caught up agree on every value both have heard of,
\* whatever snapshots they serve and however often either reconnected.
TouchedAgree ==
  \A w1, w2 \in Workers : (CaughtUp(w1) /\ CaughtUp(w2)) =>
    \A v \in Heard(w1) \cap Heard(w2) : Contains(w1, v) <=> Contains(w2, v)

\* Each worker's set is a LiveSet: the last event about a value decides, and
\* only untouched values follow the snapshot, through every swap.
LS == INSTANCE LiveSet WITH member <- [w \in Workers |-> Member(w)],
                            touched <- [w \in Workers |-> Touched(w)]
ImplementsLiveSet == LS!Spec

(* Liveness *)

Calm == <>[][~ Disturb]_vars

\* Once failures stop, every worker is at some point ready, caught up and on
\* the newest snapshot at once: nobody is left behind for good.
WorkersFollow ==
  Calm =>
    \A w \in Workers : []<>(up[w] /\ CaughtUp(w) /\ (Attachable => ready[w] /\ ~ behind[w]))

-----------------------------------------------------------------------------
(* What docs and comments of the repository say and the code does not do *)

\* README: the service "never turns a hit into a miss". Deleting one of two
\* indicators, or observables, of a value tombstones the value.
SharedValueKept ==
  \A w \in Workers : (CaughtUp(w) /\ ready[w]) =>
    \A v \in Touched(w) : Known(v) => Contains(w, v)

\* stream.py: all workers converge on the same result.
WorkersConverge ==
  \A w1, w2 \in Workers :
    (/\ ready[w1] /\ ready[w2] /\ CaughtUp(w1) /\ CaughtUp(w2)
     /\ packed[w1] = packed[w2])
      => Member(w1) = Member(w2)

\* stream.py: past the cap the segment is rebuilt to fold the overlay back in.
OverlayFoldsIn == Calm => []<>(~ OverlayFull(added[Builder], tombs[Builder]))
=============================================================================
