-------------------------- MODULE SharedMembership --------------------------
(***************************************************************************)
(* How the workers of one service share a single membership segment:       *)
(* backends/shared_state.py (lock file, state file, segments in /dev/shm), *)
(* membership_loader.py (build or attach, follow newer generations),       *)
(* reconcile.py (the builder's rebuilds) and the parts of main.py that     *)
(* start, retry and stop them.                                             *)
(*                                                                         *)
(* Every worker is a process of its own: a step of one may fall between    *)
(* any two steps of another, and any process may be killed between two of  *)
(* its steps. Code between two awaits is one step only when no other       *)
(* process and no kill can tell the difference.                            *)
(***************************************************************************)
EXTENDS Integers, FiniteSets

CONSTANTS
  Workers,      \* the processes that uvicorn --workers N starts
  None,         \* "nobody", the value of a free lock
  MaxGen,       \* bound: generations 1..MaxGen are built, then no rebuild starts
  MaxCount      \* bound: a build packs 0..MaxCount entries

ASSUME NoneAssumption == None \notin Workers
ASSUME MaxGenAssumption == MaxGen \in Nat
ASSUME MaxCountAssumption == MaxCount \in Nat

VARIABLES
  lock,           \* who holds the flock on membership.lock
  published,      \* the state file membership.json, NoState when there is none
  size,           \* /dev/shm: entries in octi_membership_<g>, 0 when it does not exist
  pc,             \* where each worker is
  role,           \* LoadedMembership.role, as main.py keeps it
  hand,           \* the state a worker is about to publish, or has just read
  mapped,         \* the set its backend serves (NoState: the empty one)
  appMembership   \* generation of app.state.membership, which a shutdown closes

shared == <<lock, published, size>>
vars == <<lock, published, size, pc, role, hand, mapped, appMembership>>

Gens == 0 .. MaxGen
Counts == 0 .. MaxCount
SharedState == [gen : Gens, count : Counts]
NoState == [gen |-> 0, count |-> 0]

\* The steps at which a worker can be overtaken or killed.
PCs == {"down",        \* no such process
        "sizing",      \* load(): before try_become_builder
        "building",    \* lock held, reading the corpus
        "created",     \* segment allocated and filled, not published
        "waiting",     \* lost the lock, polling the state file
        "opening",     \* state read, segment not mapped yet
        "retry",       \* _retry_bootstrap asleep
        "live",        \* corpus over budget, no membership at all
        "serving",     \* _activate has run; background tasks asleep
        "adopting",    \* the watcher has read a newer state
        "rebuilding", "rebuilt", "swapping"}   \* Reconciler._rebuild

TypeOK ==
  /\ lock \in Workers \cup {None}
  /\ published \in SharedState
  /\ size \in [Gens -> Counts]
  /\ pc \in [Workers -> PCs]
  /\ role \in [Workers -> {"none", "builder", "reader", "attaching"}]
  /\ hand \in [Workers -> SharedState]
  /\ mapped \in [Workers -> SharedState]
  /\ appMembership \in [Workers -> Gens]

Segments == {g \in Gens : size[g] > 0}

Init ==
  /\ lock = None
  /\ published = NoState
  /\ size = [g \in Gens |-> 0]
  /\ pc = [w \in Workers |-> "down"]
  /\ role = [w \in Workers |-> "none"]
  /\ hand = [w \in Workers |-> NoState]
  /\ mapped = [w \in Workers |-> NoState]
  /\ appMembership = [w \in Workers |-> 0]

Goto(w, from, to) == pc[w] = from /\ pc' = [pc EXCEPT ![w] = to]

-----------------------------------------------------------------------------
(* SharedStateDir *)

AnyoneWins(w) == TRUE                       \* mutant: the lock excludes nobody
LockFree(w) == lock = None

SkipGeneration == published.gen + 2         \* mutant: incremented twice
RestartNumbering ==                         \* mutant: without its segment the state file is ignored
  IF published.gen \in Segments THEN published.gen + 1 ELSE 1
NextGeneration == published.gen + 1

\* sweep_stale_segments: unlink every segment that is not named in keep.
NotSwept(sz, keep) == sz                    \* mutant: nothing is unlinked
Swept(sz, keep) == [g \in Gens |-> IF g \in keep THEN sz[g] ELSE 0]

\* A boot keeps the published generation and the one it is about to build;
\* without a state file nothing but the latter is kept.
BootKeepNew(gen) == {gen}                   \* mutant: the published one is not kept
BootKeep(gen) == {gen, published.gen}

\* A reconcile keeps the new generation, the one the state file named when the
\* rebuild began, and the segment the builder itself was serving, if it had one.
ReconcileKeepOld(w) == {mapped[w].gen}      \* mutant: the new one is not kept
ReconcileKeep(w) ==
  {hand[w].gen, hand[w].gen - 1}
    \cup {g \in {mapped[w].gen} : mapped[w].count > 0}

\* flock on a fresh descriptor, so a process cannot take it twice.
ReleaseBuilder(w) == lock' = IF lock = w THEN None ELSE lock

-----------------------------------------------------------------------------
(* load(): build or attach *)

Start(w) ==
  /\ Goto(w, "down", "sizing")
  /\ UNCHANGED <<shared, role, hand, mapped, appMembership>>

\* count_observables fails: OpenCTI is unreachable.
CountFails(w) ==
  /\ Goto(w, "sizing", "retry")
  /\ UNCHANGED <<shared, role, hand, mapped, appMembership>>

\* The corpus does not fit the memory budget and the mode is "auto".
SkipTooLarge(w) ==
  /\ Goto(w, "sizing", "live")
  /\ UNCHANGED <<shared, role, hand, mapped, appMembership>>

\* try_become_builder succeeds; the generation is chosen and old segments swept.
WinLock(w) ==
  /\ published.gen < MaxGen
  /\ LockFree(w)
  /\ Goto(w, "sizing", "building")
  /\ lock' = w
  /\ hand' = [hand EXCEPT ![w] = [gen |-> NextGeneration, count |-> 0]]
  /\ size' = Swept(size, BootKeep(NextGeneration))
  /\ UNCHANGED <<published, role, mapped, appMembership>>

LoseLock(w) ==
  /\ lock # None
  /\ Goto(w, "sizing", "waiting")
  /\ UNCHANGED <<shared, role, hand, mapped, appMembership>>

\* A page of the bootstrap fails, or the retry task is cancelled: the lock is
\* given back and the load is retried later.
BuildFailsLocked(w) ==                      \* mutant: the lock is not given back
  /\ Goto(w, "building", "retry")
  /\ hand' = [hand EXCEPT ![w] = NoState]
  /\ UNCHANGED <<shared, role, mapped, appMembership>>

BuildFails(w) ==
  /\ Goto(w, "building", "retry")
  /\ ReleaseBuilder(w)
  /\ hand' = [hand EXCEPT ![w] = NoState]
  /\ UNCHANGED <<published, size, role, mapped, appMembership>>

\* SharedMemory(create=True) fails when a segment of that name exists.
Creatable(gen) == size[gen] = 0

AllocateOrOpen(w, count) ==                 \* mutant: an existing segment is reused
  /\ hand' = [hand EXCEPT ![w].count = count]
  /\ size' = IF count > 0 /\ Creatable(hand[w].gen)
                THEN [size EXCEPT ![hand[w].gen] = count] ELSE size
  /\ UNCHANGED <<lock, published, role, mapped, appMembership>>

\* MembershipSet.build once the corpus has been read. An empty corpus
\* allocates no segment at all.
AllocateSegment(w, count) ==
  /\ count > 0 => Creatable(hand[w].gen)
  /\ hand' = [hand EXCEPT ![w].count = count]
  /\ size' = IF count > 0 THEN [size EXCEPT ![hand[w].gen] = count] ELSE size
  /\ UNCHANGED <<lock, published, role, mapped, appMembership>>

CreateSegment(w) ==
  /\ Goto(w, "building", "created")
  /\ \E count \in Counts : AllocateSegment(w, count)

CreateFails(w) ==
  /\ ~ Creatable(hand[w].gen)
  /\ BuildFails(w)

\* publish, then _activate: the swap of the empty set for the new one.
Publish(w) ==
  /\ Goto(w, "created", "serving")
  /\ published' = hand[w]
  /\ role' = [role EXCEPT ![w] = "builder"]
  /\ mapped' = [mapped EXCEPT ![w] = hand[w]]
  /\ appMembership' = [appMembership EXCEPT ![w] = hand[w].gen]
  /\ hand' = [hand EXCEPT ![w] = NoState]
  /\ UNCHANGED <<lock, size>>

\* Writing the state file fails. The lock is released; nobody unlinks the
\* segment that was allocated for it.
PublishFails(w) ==
  /\ Goto(w, "created", "retry")
  /\ ReleaseBuilder(w)
  /\ hand' = [hand EXCEPT ![w] = NoState]
  /\ UNCHANGED <<published, size, role, mapped, appMembership>>

\* wait_for returns the state file, a former run's included.
WaitRead(w) ==
  /\ published # NoState
  /\ Goto(w, "waiting", "opening")
  /\ hand' = [hand EXCEPT ![w] = published]
  /\ UNCHANGED <<shared, role, mapped, appMembership>>

\* _activate without a set: serve live, watch for a generation above 0.
ServeAttaching(w) ==
  /\ pc' = [pc EXCEPT ![w] = "serving"]
  /\ role' = [role EXCEPT ![w] = "attaching"]
  /\ hand' = [hand EXCEPT ![w] = NoState]
  /\ UNCHANGED <<shared, mapped, appMembership>>

WaitTimeout(w) ==
  /\ pc[w] = "waiting"
  /\ published = NoState
  /\ ServeAttaching(w)

\* _attach maps whatever segment now has the name that was read.
Attachable(state) == state.gen \in Segments

MapSegment(w) ==
  /\ Attachable(hand[w])
  /\ pc' = [pc EXCEPT ![w] = "serving"]
  /\ role' = [role EXCEPT ![w] = "reader"]
  /\ mapped' = [mapped EXCEPT ![w] = hand[w]]
  /\ appMembership' = [appMembership EXCEPT ![w] = hand[w].gen]
  /\ hand' = [hand EXCEPT ![w] = NoState]
  /\ UNCHANGED shared

Attach(w) == pc[w] = "opening" /\ MapSegment(w)

AttachFails(w) ==
  /\ pc[w] = "opening"
  /\ ~ Attachable(hand[w])
  /\ ServeAttaching(w)

\* _retry_bootstrap wakes up and calls load() again.
Retry(w) ==
  /\ Goto(w, "retry", "sizing")
  /\ UNCHANGED <<shared, role, hand, mapped, appMembership>>

-----------------------------------------------------------------------------
(* watch_for_new_generation: every worker but the builder *)

WatchReadOnce(w) ==                         \* mutant: a worker that attached stops watching
  /\ role[w] = "attaching"
  /\ published.gen > mapped[w].gen
  /\ Goto(w, "serving", "adopting")
  /\ hand' = [hand EXCEPT ![w] = published]
  /\ UNCHANGED <<shared, role, mapped, appMembership>>

\* The watcher's own counter starts at the generation attached at boot and
\* follows every adoption, so it is the generation that is served.
WatchRead(w) ==
  /\ role[w] \in {"reader", "attaching"}
  /\ published.gen > mapped[w].gen
  /\ Goto(w, "serving", "adopting")
  /\ hand' = [hand EXCEPT ![w] = published]
  /\ UNCHANGED <<shared, role, mapped, appMembership>>

WatchAttach(w) == pc[w] = "adopting" /\ MapSegment(w)

WatchAttachFails(w) ==
  /\ ~ Attachable(hand[w])
  /\ Goto(w, "adopting", "serving")
  /\ hand' = [hand EXCEPT ![w] = NoState]
  /\ UNCHANGED <<shared, role, mapped, appMembership>>

-----------------------------------------------------------------------------
(* Reconciler: the builder alone *)

ReconcileStart(w) ==
  /\ role[w] = "builder"
  /\ published.gen < MaxGen
  /\ Goto(w, "serving", "rebuilding")
  /\ hand' = [hand EXCEPT ![w] = [gen |-> NextGeneration, count |-> 0]]
  /\ UNCHANGED <<shared, role, mapped, appMembership>>

\* Reading the corpus fails: the loop goes on and the old set stays.
RebuildFails(w) ==
  /\ Goto(w, "rebuilding", "serving")
  /\ hand' = [hand EXCEPT ![w] = NoState]
  /\ UNCHANGED <<shared, role, mapped, appMembership>>

RebuildCreate(w) ==
  /\ Goto(w, "rebuilding", "rebuilt")
  /\ \E count \in Counts : AllocateSegment(w, count)

RebuildCreateFails(w) ==
  /\ ~ Creatable(hand[w].gen)
  /\ RebuildFails(w)

RebuildPublish(w) ==
  /\ Goto(w, "rebuilt", "swapping")
  /\ published' = hand[w]
  /\ UNCHANGED <<lock, size, role, hand, mapped, appMembership>>

RebuildPublishFails(w) ==
  /\ Goto(w, "rebuilt", "serving")
  /\ hand' = [hand EXCEPT ![w] = NoState]
  /\ UNCHANGED <<shared, role, mapped, appMembership>>

\* swap_membership, which closes the old set without unlinking it, then the
\* sweep. app.state.membership keeps naming the set built at boot.
SwapAndSweep(w) ==
  /\ Goto(w, "swapping", "serving")
  /\ size' = Swept(size, ReconcileKeep(w))
  /\ mapped' = [mapped EXCEPT ![w] = hand[w]]
  /\ hand' = [hand EXCEPT ![w] = NoState]
  /\ UNCHANGED <<lock, published, role, appMembership>>

-----------------------------------------------------------------------------
(* The end of a process *)

Gone(w) ==
  /\ pc' = [pc EXCEPT ![w] = "down"]
  /\ role' = [role EXCEPT ![w] = "none"]
  /\ hand' = [hand EXCEPT ![w] = NoState]
  /\ mapped' = [mapped EXCEPT ![w] = NoState]
  /\ appMembership' = [appMembership EXCEPT ![w] = 0]
  /\ ReleaseBuilder(w)
  /\ UNCHANGED published

\* app.state.membership.close() unlinks only the owner's segment, and does
\* nothing to a set that a reconcile has already closed.
ClosesOwnSegment(w) ==
  /\ role[w] = "builder"
  /\ mapped[w].count > 0
  /\ appMembership[w] = mapped[w].gen

\* The lifespan's finally block. A task cancelled while it builds or rebuilds
\* is BuildFails or RebuildFails followed by this step.
Shutdown(w) ==
  /\ pc[w] \in {"retry", "live", "serving"}
  /\ size' = IF ClosesOwnSegment(w) THEN [size EXCEPT ![mapped[w].gen] = 0] ELSE size
  /\ Gone(w)

\* SIGKILL or the OOM killer: the kernel frees the lock, segments stay.
Crash(w) ==
  /\ pc[w] # "down"
  /\ Gone(w)
  /\ UNCHANGED size

-----------------------------------------------------------------------------
Load(w) ==
  \/ Start(w) \/ WinLock(w) \/ LoseLock(w) \/ CreateSegment(w) \/ CreateFails(w)
  \/ Publish(w) \/ WaitRead(w) \/ WaitTimeout(w) \/ Attach(w) \/ AttachFails(w)
  \/ Retry(w)

Watch(w) == WatchRead(w) \/ WatchAttach(w) \/ WatchAttachFails(w)

Reconcile(w) ==
  \/ ReconcileStart(w) \/ RebuildCreate(w) \/ RebuildCreateFails(w)
  \/ RebuildPublish(w) \/ SwapAndSweep(w)

\* What the environment does to a worker: failing queries, a full disk, a
\* corpus over budget, the end of the process.
Disturb(w) ==
  \/ CountFails(w) \/ SkipTooLarge(w) \/ BuildFails(w) \/ PublishFails(w)
  \/ RebuildFails(w) \/ RebuildPublishFails(w) \/ Shutdown(w) \/ Crash(w)

Next == \E w \in Workers : Load(w) \/ Watch(w) \/ Reconcile(w) \/ Disturb(w)

Spec == Init /\ [][Next]_vars

\* A worker that can go on does: the event loop runs every ready task, every
\* sleep ends, and uvicorn starts a new process for one that died.
Fairness == \A w \in Workers : WF_vars(Load(w) \/ Watch(w) \/ Reconcile(w))
FairSpec == Spec /\ Fairness

-----------------------------------------------------------------------------
(* Safety *)

\* At most one worker builds or rebuilds, and it is the one that holds the
\* lock: the lock is neither leaked by a failed build nor shared.
SoleBuilder ==
  \A w \in Workers :
    lock = w <=> (pc[w] \in {"building", "created"} \/ role[w] = "builder")

\* While a builder serves, the state file names the set it serves or the one
\* it is swapping in, and a worker that starts can map that segment: no sweep,
\* by it or by an earlier boot, has unlinked it. (An empty corpus has none.)
PublishedAttachable ==
  \A w \in Workers : role[w] = "builder" =>
    /\ published = IF pc[w] = "swapping" THEN hand[w] ELSE mapped[w]
    /\ published.count > 0 => published.gen \in Segments

\* The name and the count a worker has read belong together when it maps the
\* segment: no other build has reused the name. A longer count would index
\* past the view, a shorter one would hide entries.
AttachSeesWhatWasPublished ==
  \A w \in Workers :
    pc[w] \in {"opening", "adopting"} /\ hand[w].count > 0 /\ Attachable(hand[w])
      => size[hand[w].gen] = hand[w].count

\* Whatever crashes and rebuilds happen, /dev/shm never holds more than three
\* generations: the published one, one before it and one being built.
SegmentBound == Cardinality(Segments) =< 3

\* Nothing but the clean shutdown of its builder removes the published
\* segment: a replacement builder and a reconcile keep it until they publish.
PublishedNeverSwept ==
  [][ (published' = published /\ ~ \E w \in Workers : Shutdown(w))
        => (published.gen \in Segments => published.gen \in Segments') ]_vars

\* Generations only move forward, in the state file and in what each process
\* serves, so a reader never goes back to older data.
NeverBack ==
  /\ published'.gen >= published.gen
  /\ \A w \in Workers : pc'[w] # "down" => mapped'[w].gen >= mapped[w].gen
GenerationsForward == [][NeverBack]_vars

-----------------------------------------------------------------------------
(* Liveness *)

\* A build that finds its segment's name taken is the code's own doing, not
\* the environment's, though it ends like any failed build.
NameTaken(w) == CreateFails(w) \/ RebuildCreateFails(w)
Calm == <>[][\A w \in Workers : Disturb(w) => NameTaken(w)]_vars

\* Once failures stop, every reader ends up on the published generation as
\* long as its segment exists: nobody stays pinned to old data.
ReadersConverge ==
  Calm => <>[](\A w \in Workers :
                 role[w] \in {"reader", "attaching"} /\ Attachable(published)
                   => mapped[w].gen = published.gen)

\* A segment of the next generation that no running build is going to publish.
Orphan ==
  /\ NextGeneration \in Segments
  /\ \A w \in Workers : pc[w] \notin {"created", "rebuilt"}

\* Once failures stop, some worker builds and serves, unless an orphan segment
\* stands in the way or a worker has given up on a corpus over budget: every
\* failed load is retried and gives the lock back.
LoadRecovers ==
  (Calm /\ <>[](~ Orphan)) =>
    <>[](\/ published.gen = MaxGen
         \/ \E w \in Workers : role[w] = "builder" \/ pc[w] = "live")

-----------------------------------------------------------------------------
(* What docs and comments of the repository say and the code does not do *)

\* membership_loader.py: a rebuild "must land in a NEW segment". A build that
\* died after allocating leaves the very name the next build will ask for.
LandsInNewSegment ==
  \A w \in Workers : pc[w] \in {"building", "rebuilding"} => Creatable(hand[w].gen)
=============================================================================
