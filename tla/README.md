# Verification of the OpenCTI lookup service

TLA+ modules, TLC configurations and TLAPS proofs about the service under
`src/src/opencti_lookup` (paths below are relative to that directory unless
they begin with `docs/` or `src/`). The service answers one question, "is this
value a known indicator?", from a membership set in shared memory, a payload
cache and, last, OpenCTI itself. What makes it hard is that several worker
processes share one set that is rebuilt underneath them, that each follows
OpenCTI through its own event stream, and that any of them may be killed at
any moment.

## 1. Inventory

| Component | State | Operations | Talks to |
|---|---|---|---|
| Shared membership coordination: `backends/shared_state.py`, `membership_loader.py` | flock on `membership.lock`, state file `membership.json` (generation, segment name, count), segments `octi_membership_<g>` in /dev/shm | `load` (build or wait and attach), `publish`, `sweep_stale_segments`, `watch_for_new_generation` | every worker process; kernel |
| Reconciler: `reconcile.py` | trigger event, running flag | `run`, `request`, `_rebuild` (build, publish, swap, sweep) | coordination, split backend, stream |
| Service lifecycle: `main.py` | role, `app.state.membership`, background tasks | `lifespan`, `_activate`, `_retry_bootstrap`, shutdown | everything |
| Membership set: `backends/membership.py` | packed sorted segment, `_added`, `_tombstones` | `__contains__`, `add`, `remove`, `adopt_overlay`, `build`, `attach`, `close` | segments |
| Bootstrap: `bootstrap.py` | pages being read | `iter_values`, `build_membership` | OpenCTI client |
| Stream consumer: `opencti/stream.py` | SSE connection, `_cursor`, statistics | `run`, `_consume_once`, `_handle` | OpenCTI, membership set, reconciler |
| Split backend: `backends/split.py` | `_membership`, `_ready`, `_stale` | `lookup`, `swap_membership`, `stream_health` | membership set, live backend |
| Live backend: `backends/live.py`, `cache/payload.py`, `cache/singleflight.py` | cache with times to live, flights per key | `lookup`, `_fetch`, `get`, `set`, `do` | OpenCTI client |
| OpenCTI client: `opencti/client.py` | circuit breaker, semaphore | `execute`, `health` | OpenCTI |
| Hit policy and mapping: `opencti/mapper.py` | none | `is_expired`, `passes_policy`, `build_payload` | |
| Normalization: `indicators.py` | none | `normalize`, `url_hostname` | |
| Memory budget: `memory.py` | none | budgets from cgroup limits | lifecycle |
| HTTP API: `api/` | none | `GET /lookup`, bulk, health, metrics | split backend |
| Configuration, logging, metrics, GraphQL documents | none | | |
| Wazuh integration: `src/wazuh/custom-opencti.py` | none; one process per alert | `extract_indicators`, `lookup`, `send_event` | HTTP API, analysisd's socket |
| Deployment: `src/compose.yaml`, `src/Dockerfile`, CI | none | | |

How they interact: each worker process runs one asyncio event loop. At start
it competes for the lock; the winner reads OpenCTI's corpus into a segment and
publishes it, the others wait for the state file and map the same segment.
Afterwards the builder reconciles (periodically, or when the overlay is full)
and publishes further generations that the readers' watchers adopt. Each
worker has its own stream connection that writes its own overlay over the
shared segment. A lookup asks the set, then the cache, then OpenCTI through
the breaker and the semaphore; equal lookups share one flight.

What is hard, and what makes each part correct:

- **Coordination** - processes interleave and die between any two steps; a
  failed build must give the lock back; the sweep must spare what others are
  about to map. Correct: one builder at a time, a published segment that can
  be attached and matches its count, bounded garbage in /dev/shm, generations
  that only move forward, readers that follow.
- **Membership against OpenCTI** - the snapshot is read node by node while
  OpenCTI changes, events arrive meanwhile, streams are lost and resumed,
  retention may have dropped events, segments are swapped underneath the
  overlay. Correct: no false miss (a miss is final: nobody asks OpenCTI),
  workers that agree, an overlay that reflects the last event.
- **Lookup path** - the breaker is asked before a wait, results are cached
  after one; leaders fail while followers wait. Correct: one flight per key,
  no key wedged, a bounded cache, wrong answers no older than the time to live.
- **Client** - nine ways out of `execute`. Correct: no permit leaks, a
  breaker that is open exactly when it should be and recovers by itself.

- **Stream health** - a connection can be refused, break, end cleanly, hang
  while it is opened or go silent, and its backlog arrives after "connected".
  Correct: a set that is trusted is recent, one that is recent is trusted again
  soon, no event is lost that could be applied, and the backlog is worked off.
- **Corpus, policy and normal form** - the set is keyed by one normalized
  string per observable, a lookup by another; the corpus grows while it is
  loaded and the load stops at a limit. Correct: what the set dismisses is
  really a miss, memory stays in budget, what is affordable is loaded whole,
  a hit rests on an indicator the policy accepts.
- **Wazuh script** - one request for many values under one timeout, one write
  per hit. Correct: each hit yields exactly one attempt at an event, a sure
  hit is not lost on the way, every script ends.

`PROJECT.json` lists the components again with what is modelled of each, and
under `hazards` the places in the code where these things bite.

## 2. Modules

### SharedMembership (with MCSharedMembership, SharedMembershipProofs)

The processes of one service, the lock, the state file and the segments.

| TLA+ | Code |
|---|---|
| `lock` | holder of the flock |
| `published` | content of `membership.json`; `NoState` if missing |
| `size[g]` | entries of segment `octi_membership_<g>`, 0 if it does not exist |
| `pc[w]`, `hand[w]` | where the worker's `load`, watcher or reconcile is, and the state it is about to publish or has read |
| `mapped[w]`, `role[w]`, `appMembership[w]` | served set, `LoadedMembership.role`, the set that a shutdown closes |

Actions: `Start`, `CountFails`, `SkipTooLarge`, `WinLock`, `LoseLock`,
`BuildFails`, `CreateSegment`, `CreateFails`, `Publish`, `PublishFails`,
`WaitRead`, `WaitTimeout`, `Attach`, `AttachFails`, `Retry` (load);
`WatchRead`, `WatchAttach`, `WatchAttachFails`; `ReconcileStart`,
`RebuildFails`, `RebuildCreate`, `RebuildCreateFails`, `RebuildPublish`,
`RebuildPublishFails`, `SwapAndSweep`; `Shutdown`, `Crash`. A step ends where
another process or a kill can tell the difference: between allocating a
segment and publishing it, between publishing and sweeping, between reading
the state file and mapping what it names. The boot's sweep falls into
`CreateSegment` with the allocation: between them only segments no one names
any more disappear.

Abstracted: what a segment contains (only the number of entries, which must
match the state file), sleeps and timeouts (a step may come any time),
`clear()` (no caller), `MEMBERSHIP_SHARED=false` (nothing is shared).

External assumptions: a flock is freed when its process dies; a mapping stays
readable after the name is unlinked; `SharedMemory(create=True)` fails if the
name exists; a killed worker is replaced by uvicorn, whose parent keeps the
resource tracker alive, so a worker's death does not unlink segments.

### MembershipSync and LiveSet (with MCMembershipSync, MembershipSyncProofs)

One builder and any number of readers against OpenCTI's corpus and stream.
`live`, `present` and `based` are OpenCTI's indicators, observables and which
observables an indicator is based on, `log` its events; `packed`, `added`,
`tombs` a worker's set; `conn`, `pos`, `cursor` its stream; `scan` the
builder's bootstrap, read one node at a time so that the snapshot mixes
moments, each node at most once, and what is created meanwhile on a page to
come or on none; `published` and `behind` the newest segment. The election and the
names are left to SharedMembership: here the builder is fixed, and what a
crash does to a worker's stream and overlay is `Kill`. `packed[w].at`,
`scan.at` and `start[w]` are ghosts: stream positions at which a snapshot's
reading and a worker's unbroken run of events began. A run is unbroken as long
as each connection resumes at the cursor; `Heard(w)` are the values of the
events since it began.

OpenCTI's part is one action per kind of change, on any corpus to begin with:
`CreateIndicator`, `UpdateIndicator`, `DeleteIndicator`, `MergeIndicators`,
`Relate` (a based-on relationship), `CreateObservable`, `UpdateObservable`,
`DeleteObservable`, `Become` (an observable merged into another, or its value
edited). Each logs the event `extract_values` sees: an indicator's carries the
values of its observables, that of an observable of the five stream types
(`Streamed`) its own, any other, a file's or a relationship's, none
(`InlineOf`, `OwnOf`). What an event does not say of the values it has changed
is in the ghost `unsaid`, and `Told(w)` are the values the worker's run has
spoken of with nothing unsaid since: what the stream is accountable for.

A value is `Shown` if an observable has it and `Known` if an indicator is based
on one. An observable without an indicator comes into the set by its own event,
with either source: that costs a query, and is no hit. Deleting one of several
observables or indicators of a value tombstones it (finding 2), so that the
promises of presence are about values nothing shares (`Exclusive`).

Both sources are modelled: `Precise = TRUE` reads the observables of
indicators, `FALSE` all observables. Rebuilds may start at any time
(`StartReconcile`): the interval passes, or a full overlay asks for one, and a
request that `reconcile.py:87` drops while a rebuild runs only delays it, so that
neither the request nor the trigger is a variable.

`LiveSet` is the abstract specification: in each process the last event about
a value decides, and values no event touched follow the snapshot underneath.
MembershipSync implements it under the mapping `member[w]` = the values
`__contains__` accepts, `touched[w]` = overlay additions and tombstones.

External assumptions: a stream opened without `from` begins at OpenCTI's
current position; one opened with a cursor older than what is retained begins
at the oldest retained event; heartbeats carry ids (`opencti/stream.py:57`);
the inline values of an indicator's event are those of the observables it is
based on by then; of two merged objects the survivor's event is in the stream;
the corpus fits `max_entries`.

### LookupPath (with MCLookupPath, LookupPathProofs)

One worker's event loop: `GET /lookup` requests as coroutines, the membership
gate, payload cache (an LRU sequence with remaining times to live), flights,
the second query for a URL's hostname. From one await to the next is one
step. `known` is what OpenCTI would answer, `settled[v]` (ghost) the time
since it last changed about `v`, `QueryTime` the bound on how long a query
takes, waiting for the semaphore included. The membership set only matters as
a gate, so it is `known` of some moment and follows by `StreamEvent`, also in a
worker that is still attaching. Neither time to live need be the shorter one
(`MaxTTL`): the configuration does not order them.

Both uses of the hit policy (expired or filtered indicators) are in `known`:
a value is known when a query would find a hit.

### UpstreamClient (with MCUpstreamClient, UpstreamClientProofs)

`OpenCTIClient.execute` with the semaphore (`permits`, the FIFO `waiting`),
the one retry of a refused connection and the breaker. `cooldown` is what is
left of `reset_after_s`, `failures` saturates at the threshold, since the code
only compares it with `>=`. Half-open is, as in the code, no state of its own:
open with the time elapsed. An answer that is JSON but no object leaves
`execute` by an AttributeError, of which the breaker hears nothing (`Raise`).

### FlightCalls (with MCFlightCalls, FlightCallsProofs)

The composition of `SingleFlight.do` and `LiveBackend._fetch` with the client:
it EXTENDS UpstreamClient, and each of its actions is one of the client's
conjoined with what the flight does (`Lead`, `Refused`, `Follow`,
`EndAnswered`, `MissExact`, `AskHost`, `EndFailed`, `EndRaised`, `Wait`, `Wake`,
`Finish`). `EndRaised` is the exception `live.py` does not catch: the flight
hands it to its followers too, and each request ends in an error of the API.
So a URL's flight makes up to two calls, and its followers wait for both. From
the answer of the first query to the second call nothing is awaited
(`Halfway`). The module runs and proves the client's properties again in this
setting, in which calls come from lookups and not from nowhere; the payload
cache is LookupPath's.

### StreamHealth (with StreamHealthProofs)

One worker's `StreamConsumer` against discrete time, and `_watch_stream_health`
with `SplitBackend.stream_health`.

| TLA+ | Code |
|---|---|
| `phase`, `pause`, `backoff` | where `run()` is, its sleep, its local variable |
| `connected`, `lag` | `StreamStats.connected`, `activity_lag_s` |
| `cursor`, `handled` | `_cursor`, the events the set reflects |
| `stale`, `nextCheck` | `SplitBackend._stale`, the watcher's sleep |
| `silent`, `emitted`, `pos`, `poison` | the network and OpenCTI's side |
| `start`, `down`, `calm` (ghosts) | first event asked for; how long disconnected; how long nothing has gone wrong |

Actions: `Connect`, `Break` (a refusal, a failed attempt, a broken
connection), `EndCleanly`, `FallSilent` and `SpeakAgain` (no read timeout),
`Deliver` (an event, whose handling may raise), `Heartbeat`, `Check`, `Tick`.
What an event does to the set is MembershipSync's; here it is in `handled` or
it raised. External: OpenCTI sends something at least every `SilenceMax`, which
is within `stream_stale_after_s`; a resumed stream begins behind the cursor.
`config.py` enforces no relation between the periods: with heartbeats rarer than
`stream_stale_after_s` a good stream would be stale, and nothing is claimed. A
connection that is lost before its first id leaves no cursor, and the next one
begins with what OpenCTI emits then: `start` moves there, and events between the
two were never asked for. OnlyPoisonLost does not speak of them; that they are
missing from the set is finding 3's gap.

### Normalization, MemoryBudget, CorpusLookup (with CorpusLookupProofs)

`Normalization` and `MemoryBudget` are pure. A value is what it names (an
address, a host, a digest, other text), a URL's path, and a set of marks of its
writing (defanged, in capitals, zero-padded, with a default port, ...), each of
which a branch of `normalize` does or does not remove; `url_hostname` is
`UrlHost`. `MemoryBudget` is `detect` and `_resolve_budgets`.

`CorpusLookup` puts them to work: OpenCTI's observables and indicators with
their ends (`Lapse`: the clock passes `valid_until`; `Revoke`: the flag is set,
by a person at any time or by OpenCTI some time after the clock), the count and
the load page by page with its limit (`Size`, `ReadPage`, `FinishLoad`,
`LoadFails`), and a fresh lookup as the set of replies it may give in a state:
gate, query with `first: 1`, fallback to the host, hit policy and choice of the
primary indicator (`FreshLookup`).

Late observables are ingested at any time (`Ingest`). The load reads by cursor:
no node is read twice, and each late observable is on a page to come or behind
the cursor. With the indicators source the nodes are the indicators, and a late
observable is read with those that are still to come. The ghost `missed` are
the late observables no node to be read brings any more: DismissalsAgree and
SureHitsReported except what is `Overtaken` by them. It is for the stream to
bring them (`Told` in MembershipSync). `skip_private_ips` and
`url_hostname_fallback` are at their defaults.

### AlertEnrichment (with MCAlertEnrichment, AlertEnrichmentProofs)

EXTENDS CorpusLookup with the script that Wazuh starts per alert and
`lookup_bulk`: extraction with its cap (`ExtractIndicators`), one request whose
values are served one after the other while the corpus and its load go on
(`Serve`), the timeout (`GiveUp`), one write per hit (`Send`), exit.

A value is dismissed by the set (`Dismiss`), answered from the payload cache
(`Recall`) or asked for and then stored (`Ask`, `Store`), misses included and
failures excluded. The cache is the worker's: other clients fill it at any time
(`ServeOther`), entries end (`Forget`) and at the ceiling any one goes; the order
of eviction, the clocks and flights are LookupPath's, so here a query and the
storing of its answer are one step. A miss stored before an indicator appeared
is the answer until the entry ends, and that is no error of this property:
`sure` (ghost) notes for each result, and for each cache entry, whether OpenCTI
could only have answered with a hit when the answer was given. How old such an
answer can be is LookupPath's AnswersAge.

## 3. Runs

Twelve runs; each passing run explores its whole state space.

| Run | Checks | Instance | Why it is enough |
|---|---|---|---|
| SharedWorkers | TypeOK, SoleBuilder, PublishedAttachable, AttachSeesWhatWasPublished, SegmentBound, PublishedNeverSwept, GenerationsForward, ReadersConverge, LoadRecovers | 2 workers, 5 generations, counts 0..2; fairness | a builder or its successor and a reader that lags several generations; five generations let four segments be left behind if a sweep spares them; two counts tell a reused name from the original, 0 is the empty corpus; the safety properties are proved for any number of workers |
| SyncBuilder | TypeOK, ToldAnswered, NoFalseMiss, ImplementsLiveSet | 1 worker, any starting corpus of a file, a domain and 2 indicators that may share the domain, to which a host name with the domain's value may come, indicators source, 2 changes, retention 1 (2.8 million states) | every kind of change before, during and after a scan, two in a row about one value, a replay after a reconnect and a gap in the stream; all four are proved for any workers, corpus, number of changes and retention |
| SyncWorkers | TouchedAgree, WorkersFollow | 2 workers, 1 observable, observables source, 2 changes, retention 1; fairness | a builder and a reader whose snapshots and streams differ, and one of them can miss an event for good; TouchedAgree is proved for any workers and corpus |
| FlightCalls | FlightTypeOK, BreakerConsistent, PermitsAccounted, OneCallPerKey, OpenShedsLoad, BreakerRecovers, LookupsEnd, LookupsRecover | 3 lookups, a URL and its host, 1 permit, threshold 2, reset time 1; fairness | a leader, a follower and a lookup of the other key that queues for the permit; both queries of a URL; late failures cross the threshold after a success, and an answer that is none |
| LookupSafety | TypeOK, FlightsMatch, CacheBounded, AnswersAge | 2 requests (symmetric), a URL and its hostname, cache of 1, TTL 2, degraded TTL 1, query time 1 | a leader and a follower, two keys competing for one entry, both queries of a URL, either TTL; all four are proved for any requests, values and times |
| StreamHealth | TypeOK, TrustIsRecent, RecoversInTime, OnlyPoisonLost, CatchesUp | stale after 3, check every 2, longest backoff 4, silence 2, 3 events; fairness | every period differs, the backoff doubles twice, an event before, at and after a break, each of which may raise; the safety properties are proved for all periods |
| Enrichment | TypeOK, BudgetHeld, AffordableComplete, DismissalsAgree, HitsBacked, EventsMatchHits, SureHitsReported, ScriptEnds | 3 observables (a domain, a file, and an address that comes late), 2 indicators, pages of 2, 3 deployments, 3 alerts, cap 2, timeout 0 with queries of up to 1, cache of 1; fairness | a file asked for by another digest than the one shown, a late observable read or overtaken, a cut set; an entry recalled, evicted and ended between the values of a request; both sources, both modes, all three policies, a budget that fits exactly, one that cuts and one of 0; the safety properties are proved for any corpus, settings, cache and alerts (380 thousand states); the exception for a URL on an IPv6 address is only in the proof |
| SharedLandsInNewSegment | LandsInNewSegment (violated) | 2 workers | see findings |
| SyncSharedValueKept | SharedValueKept (violated) | 1 worker | see findings |
| SyncWorkersConverge | WorkersConverge (violated) | 2 workers | see findings |
| SyncOverlayFoldsIn | OverlayFoldsIn (violated, with fairness) | 1 worker, overlay of 2 | see findings |
| ClientFailedProbeReopens | FailedProbeReopens (violated) | 3 calls | see findings |

Bounds of the models, all named constants or guards: `MaxGen` (no build beyond
it starts), `MaxCount`, `MaxEvents` (OpenCTI stops changing), `QueryTime`;
the clocks of StreamHealth saturate one above the largest value compared
(`LagMax`, `DownMax`, `CalmMax`), `spent` one above `HttpTimeout`.
`CHECK_DEADLOCK` is never switched off.

Every property of a passing run has a mutant in `PROJECT.json`: a definition
of the module replaced by the operator named there (marked "mutant" in the
modules), which TLC refutes. They are the plausible slips: a sweep with the
wrong keep set, a lock not released, an overlay dropped by a swap, a hit that
renews its entry, a key left in flight after a failure.

### Fairness

- SharedMembership: weak fairness of each worker's load, watch and reconcile
  steps together. The event loop runs whatever is ready, every sleep in
  `watch_for_new_generation`, `_retry_bootstrap`, `wait_for` and
  `Reconciler.run` ends, and uvicorn starts a worker for one that died. Steps
  of the environment (failures, crashes, shutdowns) have none; liveness is
  claimed once they stop (`Calm`).
- MembershipSync: weak fairness of the builder's scan, of each watcher and of
  each stream (reconnects are retried forever, `opencti/stream.py:183`).
- FlightCalls: strong fairness, because a flight between its two queries
  (`Halfway`) briefly disables every other step: time passes, each lookup that
  has begun goes on (httpx's timeouts end every post, the semaphore is first
  come first served, the event loop runs in turn what is ready), and lookups
  keep coming. The last is about the clients of the service: without any
  further call nothing can close a breaker, in the code as in the model.
  BreakerRecovers and LookupsRecover are claimed once OpenCTI answers.
- StreamHealth: weak fairness of the consumer's, the watcher's and the clock's
  steps, none of the network's. CatchesUp is claimed once the network is good.
- AlertEnrichment: weak fairness of the script, whose request has a timeout and
  whose writes do not block. The service and the corpus have none: the script
  ends whatever they do.

## 4. Findings

Where a doc or a comment says something the program does not do. Each is a run
that TLC refutes; quotes and lines are in `PROJECT.json`.

1. A builder killed between allocating and publishing leaves the segment name
   that every later build asks for; the boot's sweep keeps that name, so no
   worker can build again (`SharedLandsInNewSegment`).
2. Deleting one of two indicators that share a value tombstones the value
   although the other still covers it (`SyncSharedValueKept`).
3. A worker's stream begins when it connects, not where its snapshot was read:
   workers never converge on the events in between (`SyncWorkersConverge`).
4. The overlay is carried over whole by every rebuild, so a full overlay stays
   full and each further event asks for a rebuild (`SyncOverlayFoldsIn`).
5. A failed half-open probe does not open the breaker again; for the rest of
   the outage every call is let through (`ClientFailedProbeReopens`).

Noticed while modelling, visible in the modules, and not run: a reconcile
unlinks a generation that a slow reader still maps (its mapping survives),
where `docs/architecture.md:260` says it waits for everyone (`SwapAndSweep`);
a builder that has reconciled closes the boot's set at shutdown and leaves the
served segment (`Shutdown`, `appMembership`); a generation published for an
empty corpus has no segment, so readers keep the one before (`Attachable`);
a full reload keeps stale tombstones (`AdoptOverlay`), so that what a worker
missed in a gap longer than retention, or was never told, can stay a miss
through every rebuild, where `reconcile.py:9` and `docs/architecture.md:238` say
that a full reload catches it (NoFalseMiss leaves touched values that were not
told to it out; finding 4 is the same overlay seen from its size); relationships,
files' own events and the old form of an edited value change nothing in the set
(`InlineOf`, `OwnOf`), and observable events do, where `docs/architecture.md`
takes the set to be of indicators with the indicators source (`OwnOf`); no stream event
invalidates the payload cache, though `cache/payload.py:9` says so
(`StreamEvent`); with OpenCTI down members of the set are answered
`found = false`, where `docs/architecture.md:69` says hits are reported
(`ReplyAnswer`); `execute` raises an AttributeError for a body that is no object,
where `opencti/client.py:146` says "Raises OpenCTIError on any failure" (`Raise`).

Also noticed, and named as exceptions in the properties they would break:

- `normalize` gives a URL's IPv6 host back without brackets, after which
  neither set nor query finds it (`Type`, `UrlHost`); a trailing dot or zeros of
  a URL's host stay (`Removed`), and with the dot an internal host is looked up
  (`Skipped`).
- A file is in the set under the one digest OpenCTI shows it with; a lookup of
  another digest is dismissed. A host name of one label, or one that looks like
  a file name, is dropped from the set, and a URL on it is dismissed
  (`ShownAsAsked`, the exceptions of DismissalsAgree).
- An indicator that a person has retracted counts again under `expiry_aware`
  once its `valid_until` passes (`PassesPolicy`).
- The entry limit counts what is read: with the indicators source a value comes
  once per link, so that a corpus found affordable is cut (`Room`). A budget
  below eight bytes, which explicit or floored payload caches can leave, means
  no limit (`EntryLimit`; BudgetHeld excludes it).
- The backoff is reset by a clean end of a response alone, so that after a long
  outage each later break waits up to 90 s (`NextBackoff`); stale is cleared
  before the backlog is replayed (`Connect`, `Check`), where
  `docs/architecture.md:226` defers lookups until the set has recovered.
- The script gives up a whole request of up to 16 values after 5 s and exits
  with 0; nothing retries it (`GiveUp`).

The findings shape the passing properties: `NoFalseMiss` and `ToldAnswered`
promise presence for values that nothing shares, and NoFalseMiss for streams that
began before the snapshot's scan and for values that are untouched, or told;
`LoadRecovers` excludes the orphan of finding 1.

## 5. Proofs

TLAPS, for every value of the constants; constants are assumed to be what the
named ASSUMEs say (finite set of calls, positive limits, "nobody" is no
worker, natural bounds).

### SharedMembershipProofs

Theorems `Invariant`, `TypeCorrect`, `OneBuilder`, `StarterCanAttach`,
`AttachIsConsistent`, `ThreeSegments`, `PublishedStays`, `ForwardOnly`: every
safety property of SharedWorkers, and TypeOK, for any number of workers,
generations and entries.

None of them is inductive alone. That a worker maps a segment with the count
it has read depends on names not being reused, which depends on which
generations can exist relative to the published one, p: at most p-2, p-1, p
and p+1, and never p-2 together with p+1. The invariant `IInv` says this
(`SegmentsFit`), ties a worker's role and lock to where its code is
(`RoleFits`, `HoldsLock`), and what it is about to publish, has read or serves
to the published state (`HandFits`, `MappedFits`, `PublishedFits`).
`TypeStep` and `StepIInv` go through the actions one by one; `ThreeSegments`
counts what `SegmentsFit` leaves; `PublishedStays` and `ForwardOnly` are step
properties from the same invariant.

### UpstreamClientProofs

Theorems `Invariant`, `TypeCorrect`, `BreakerIsConsistent`, `NoPermitLost`,
`ConcurrencyBound`, `OpenSheds`: the safety properties of the client for any
number of calls and any limits, and that never more than
`opencti_max_concurrency` calls are at OpenCTI. `IInv` joins TypeOK, the
breaker's consistency and the permits' account. They need each other: the
semaphore's value stays in bounds only by the account, which counts the calls
that hold a permit; a call that `Acquire` wakes adds one to that count only if
it is really queued, hence the correspondence of the queue and the queued
calls; and that survives serving the first call only if none is queued twice.
`JoinsOnce` and `LeavesOnce` are the facts about sequences behind it.

### FlightCallsProofs

`ImplementsClient`: FlightSpec implies UpstreamClient's Spec. The variables of
the client are its own, so the mapping is the identity, and the work is that
every step is a step of the client or leaves it alone (`ClientStep`). With it
UpstreamClientProofs' invariant holds here as well (`ClientStaysSound`).
`OneCall` then needs `FlightInv`: a lookup that leads is the one its key's
flight names, and only leaders are in `execute()`. Two calls for one key would
both have to be named by the same entry. `FlightTypesCorrect` is FlightTypeOK.

### StreamHealthProofs

`TypeCorrect`, `TrustedIsRecent`, `NothingElseLost`, `Recovers`, for all
periods and any number of events, under the assumptions on the periods
(positive, `SilenceMax` at most `StaleAfter`).

- TrustedIsRecent: `TrustInv` says how much lag and downtime can have gathered
  since the last check, `CheckEvery - nextCheck`; the bound alone does not say
  when the next check is due.
- NothingElseLost: `LossInv` adds that an open connection stands where the
  cursor does (`CursorStands`), so that neither the next event nor the next
  connection leaves a gap.
- Recovers: `RecoveryInv` bounds `calm` phase by phase: by what is left of the
  pause while the consumer is about to connect (`AttemptSoon`), by the quiet
  time until a new connection has brought something (`HeardSoon`), and by the
  time to the next check while the set is stale (`CheckedSoon`).

### CorpusLookupProofs

About CorpusSpec, for any finite corpus, settings and page size.

- `MemoryHolds`: `BudgetInv` says that the values packed are no more than the
  values read, and these no more than the limit, if there is one; the rest is
  the arithmetic of the budgets (`BudgetFacts`) and that an image of a finite
  set is no larger (`ImageOf`).
- `DismissedIsMiss`: `CoverInv` says that, unless the limit is reached, the
  normal form of each lookupable observable that the source reads from a node
  is packed, or that node is still to be read, or the observable is `missed`.
- `AffordableIsComplete`: one observable is one node with the observables
  source (`OnePerNode`), and the values read and the nodes unread together are
  no more than what was counted, so that the limit comes after the last page.

- `RepliesBacked`: HitsBacked follows in every state from what a payload of a
  fresh lookup is made of (`PayloadBacked`, `LookupAsks`): the primary indicator passed the policy,
  and a live one with a sufficient score would have outranked an expired one.

### MembershipSyncProofs

`TypeCorrect`, `ToldValuesAnswered`, `NoFalseMisses`, `WorkersAgree` and
`LiveSetImplemented`, for any number of workers, any corpus of observables and
indicators, values, number of changes and retention. Their invariant `SyncInv` is about three things:

- *The overlay replays the run* (`Follows`): for each value, the last event
  about it among those the worker has applied since `start` (`LastAbout`) says
  whether it is in `added` or in `tombs`; the two are disjoint; and neither
  cursor nor position is ahead of the log, nor a position that is not the
  cursor before the run's start (`Bounded`). Without the last clause, a
  connection that is lost before its first id would put a gap into the run.
- *The log tells* (`LogTells`): the last event about a value, if nothing unsaid
  has happened to it since, says the truth: an addition that an observable has
  it, the removal of a value nothing shares that it is not known. This is where
  Exclusive comes in; that each of OpenCTI's changes logs such an event
  (`EmitsTruth`) is `UpstreamEmits`, and that no other value changes but those it
  carries or leaves unsaid is `UnchangedBefore`.
- *Snapshots fit* (`SnapshotsFit`): a snapshot holds every known value that
  nothing, said or unsaid, has happened to since its scan began. It is stated for
  what is published, for what each worker maps and for the scan under way, whose
  unread nodes count as read (`ScanFits`), as the value is found when their turn
  comes.

ToldAnswered joins the first two; NoFalseMiss adds the third for values the run
has not touched. The proofs pick "the last event about v", which needs a
greatest position of a set of naturals; the library's least-element principle
for well-founded relations gives it (`LeastNumber`, `LastExists`).

`LiveSetImplemented` proves that initial states map to LiveSet's and each step
to one of its steps or a stutter: `Deliver` to a decision by an event, `Kill` to
a reset, a swap by builder or reader to a new snapshot underneath
(`SwapRebases`, which needs that the overlay's two sets are disjoint, as
`adopt_overlay` keeps tombstones and takes additions without them).

### LookupPathProofs

`TypeCorrect`, `FlightsAlwaysMatch`, `CacheStaysBounded` and
`WrongAnswersYoung`, for any number of requests and values, any ceiling, times
to live and query time.

The cache is a sequence: `RemoveAtProperties`, `WithoutProperties` and their
kin say that taking an entry out, moving it and evicting the oldest keep keys
distinct and the length within bounds. FlightsMatch is inductive once it is
known that only requests in a flight hold an answer (`AnswerPlaced`).
AnswersAge is proved by following an answer of OpenCTI wherever it is kept: in
a query under way, with a follower that has not run yet, in a cache entry. For
each place `LookupInv` bounds how long ago OpenCTI must have changed about the
value if the answer is wrong by now, in terms of the time the query or the
entry has left; every step passes an answer on with no less of that bound, and
`Tick` uses up both sides alike.

### AlertEnrichmentProofs

For any corpus, deployment, payload cache, alerts, cap and timeout.

- `ScriptsOnlyRead`: the module implements CorpusSpec under the identity, so
  that all theorems of CorpusLookupProofs hold with scripts running.
- `OneEventEach`: `InOrder` says that what was sent are hits in ascending order,
  all before those unsent; that the next one is the least of the latter keeps
  it so.
- `SureHitsAreReported`, the property that spans all modules from the alert to
  the event, in three parts. Extraction: the candidates and the distinct ones
  are picked from a sequence at a set of positions (`Picked`), and ranking
  positions by how many are not after them is a bijection (`Ranks`), so that
  each indicator that can be looked up is among those asked for, in a writing
  with the same normal form (`Stripping`, `Lowering`, `CandidatesCover`,
  `DistinctFacts`, `ExtractFacts`). Service: a value OpenCTI could only answer
  with a hit is not dismissed, by CoverInv and NotPackedNoHit of
  CorpusLookupProofs, no query for it comes back empty (`SureHitAnswer`), and
  what is stored of it says so as long as it is stored, whatever becomes of the
  corpus (`CacheOK`, `FreshIsTruthful`, `StoreKeeps`).
  Script: `SureAnswered` keeps that fact next to each result until the script
  exits, with a result for each indicator (`Aligned`) and no hit unsent.

### Assumptions

Each ASSUME says what the code or its configuration makes true: finite sets of
calls, indicators and observables, positive limits, periods and page sizes, a
name for "nobody" that is no worker, values to look up, alerts and corpora made
of writings. One is up to whoever configures the service: that OpenCTI's
heartbeats come within `stream_stale_after_s`. TLC evaluates each on the
instances of section 3.

### Only model-checked

Liveness (ReadersConverge, LoadRecovers, WorkersFollow, BreakerRecovers,
LookupsEnd, LookupsRecover, CatchesUp, ScriptEnds): liveness under fairness is
beyond the proof system. Every other property of a passing run is proved.

## 6. Not modelled, and why

- Fingerprint collisions in the packed array (64-bit hashes): a collision only
  sends a miss on to OpenCTI. The binary search itself is numpy's.
- A leader whose request is cancelled (its client hangs up) ends its flight with
  CancelledError for the followers too: cancellation is not modelled.
- Normalization below the level of marks: punycode, ports, which characters are
  stripped. Payload fields copied from the primary indicator.
- HTTP layer (keys, health, metrics), logging, application factory, deployment:
  no state or concurrency of their own.
- `MEMBERSHIP_SHARED=false`, `membership_mode=off`, Redis settings: nothing is
  shared, no set exists, and no code reads them, respectively.

## 7. Plan

Done: SharedMembership with its proofs, MembershipSync with LiveSet,
UpstreamClient and FlightCalls with their proofs, LookupPath, StreamHealth with
its proofs, CorpusLookup with Normalization, MemoryBudget and its proofs,
AlertEnrichment. In this order, because a false miss is the one error nobody
corrects, and the shared segment is what every worker's misses rest on.

Proved: every safety and action property of the passing runs, and that
MembershipSync implements LiveSet, FlightCalls UpstreamClient and
AlertEnrichment CorpusLookup.

Next:

1. The reconciler's loop by itself: trigger, interval, requests that arrive
   while a rebuild runs, and a rebuild that is no longer affordable
   (SegmentBound counts segments, not their bytes).
2. Cancellation: a request that is given up while it leads a flight or waits
   for the semaphore.
3. Abstract specifications for the coordination (one builder, a published
   generation that only moves forward) and for the payload cache, with
   SharedMembership and LookupPath proved to implement them.
