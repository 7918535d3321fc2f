--------------------------- MODULE UpstreamClient ---------------------------
(***************************************************************************)
(* opencti/client.py: the calls one worker makes to OpenCTI, limited by a  *)
(* semaphore and guarded by a circuit breaker. The calls are coroutines of *)
(* one event loop, so what lies between two awaits is one step; the        *)
(* breaker's own asyncio.Lock is never contended, because nothing awaits   *)
(* while holding it.                                                       *)
(*                                                                         *)
(* Time is a countdown: the breaker asks only whether reset_after_s has    *)
(* passed since it opened, so cooldown is what is left of that time. It    *)
(* compares its failures with the threshold only, so the counter saturates *)
(* there.                                                                  *)
(***************************************************************************)
EXTENDS Integers, Sequences, FiniteSets

CONSTANTS
  Calls,            \* coroutines that call execute(), again and again
  MaxConcurrency,   \* opencti_max_concurrency
  FailThreshold,    \* breaker_fail_threshold
  ResetAfter        \* breaker_reset_s

ASSUME CallsAssumption == IsFiniteSet(Calls)
ASSUME LimitsAssumption ==
  /\ MaxConcurrency \in Nat \ {0}
  /\ FailThreshold \in Nat \ {0}
  /\ ResetAfter \in Nat \ {0}

VARIABLES
  state,       \* CircuitBreaker._state
  failures,    \* CircuitBreaker._failures, at most FailThreshold
  cooldown,    \* time until an open breaker lets calls through again
  pc,          \* where each call is
  attempts,    \* posts a call may still send after the one in progress
  permits,     \* asyncio.Semaphore._value
  waiting      \* calls queued on the semaphore, first come first served

breaker == <<state, failures, cooldown>>
vars == <<state, failures, cooldown, pc, attempts, permits, waiting>>

PCs == {"idle", "queued", "posting", "backoff"}

TypeOK ==
  /\ state \in {"closed", "open"}
  /\ failures \in 0 .. FailThreshold
  /\ cooldown \in 0 .. ResetAfter
  /\ pc \in [Calls -> PCs]
  /\ attempts \in [Calls -> 0 .. 1]
  /\ permits \in 0 .. MaxConcurrency
  /\ waiting \in Seq(Calls)

Init ==
  /\ state = "closed" /\ failures = 0 /\ cooldown = 0
  /\ pc = [c \in Calls |-> "idle"]
  /\ attempts = [c \in Calls |-> 0]
  /\ permits = MaxConcurrency
  /\ waiting = <<>>

-----------------------------------------------------------------------------
(* CircuitBreaker *)

HalfOpen == state = "open" /\ cooldown = 0

AllowsClosed == state = "closed"       \* mutant: the reset time never comes
AllowsAll == TRUE                      \* mutant: the breaker is not asked
Allows == state = "closed" \/ HalfOpen

KeepFailures ==                        \* mutant: old failures are not forgotten
  /\ state' = "closed"
  /\ cooldown' = 0
  /\ UNCHANGED failures
RecordSuccess ==
  /\ state' = "closed"
  /\ failures' = 0
  /\ cooldown' = 0

CountFailure == failures' = IF failures < FailThreshold THEN failures + 1 ELSE failures

\* The breaker opens, and its clock starts, only if it is not open already:
\* also a failed probe finds _state OPEN and restarts nothing.
RecordFailure ==
  /\ CountFailure
  /\ IF failures' >= FailThreshold /\ state # "open"
       THEN state' = "open" /\ cooldown' = ResetAfter
       ELSE UNCHANGED <<state, cooldown>>

\* The monotonic clock.
Tick ==
  /\ state = "open" /\ cooldown > 0
  /\ cooldown' = cooldown - 1
  /\ UNCHANGED <<state, failures, pc, attempts, permits, waiting>>

-----------------------------------------------------------------------------
(* OpenCTIClient.execute *)

\* The breaker is asked before the semaphore is waited for, and not again.
\* more: whether a refused connection is to be retried (retry_connect).
Begin(c) ==
  /\ pc[c] = "idle"
  /\ Allows
  /\ pc' = [pc EXCEPT ![c] = "queued"]
  /\ \E more \in 0 .. 1 : attempts' = [attempts EXCEPT ![c] = more]
  /\ waiting' = Append(waiting, c)
  /\ UNCHANGED <<breaker, permits>>

\* BreakerOpenError: nothing changes.
Refuse(c) ==
  /\ pc[c] = "idle"
  /\ ~ Allows
  /\ UNCHANGED vars

Acquire(c) ==
  /\ waiting # <<>> /\ c = Head(waiting)
  /\ permits > 0
  /\ permits' = permits - 1
  /\ waiting' = Tail(waiting)
  /\ pc' = [pc EXCEPT ![c] = "posting"]
  /\ UNCHANGED <<breaker, attempts>>

\* The semaphore is released on every way out of execute().
LeavePermit(c) ==                      \* mutant: it is not
  /\ pc' = [pc EXCEPT ![c] = "idle"]
  /\ attempts' = [attempts EXCEPT ![c] = 0]
  /\ UNCHANGED <<permits, waiting>>
Leave(c) ==
  /\ pc' = [pc EXCEPT ![c] = "idle"]
  /\ attempts' = [attempts EXCEPT ![c] = 0]
  /\ permits' = permits + 1
  /\ UNCHANGED waiting

Succeed(c) ==
  /\ pc[c] = "posting"
  /\ RecordSuccess
  /\ Leave(c)

\* A timeout, an HTTP error, a bad status, malformed JSON or GraphQL errors,
\* which are not retried, or a connection refused for the last time.
Fail(c) ==
  /\ pc[c] = "posting"
  /\ RecordFailure
  /\ Leave(c)

\* An answer whose body is JSON but no object has no get(): that exception is
\* no OpenCTIError, and the breaker hears neither of a success nor a failure.
Raise(c) ==
  /\ pc[c] = "posting"
  /\ Leave(c)
  /\ UNCHANGED breaker

\* A refused connection is retried once, after a pause that keeps the permit,
\* and is no failure yet.
RetryReleases(c) ==                    \* mutant: the permit is given back early
  /\ pc[c] = "posting" /\ attempts[c] > 0
  /\ pc' = [pc EXCEPT ![c] = "backoff"]
  /\ attempts' = [attempts EXCEPT ![c] = @ - 1]
  /\ permits' = permits + 1
  /\ UNCHANGED <<breaker, waiting>>
RetryConnect(c) ==
  /\ pc[c] = "posting" /\ attempts[c] > 0
  /\ pc' = [pc EXCEPT ![c] = "backoff"]
  /\ attempts' = [attempts EXCEPT ![c] = @ - 1]
  /\ UNCHANGED <<breaker, permits, waiting>>

Repost(c) ==
  /\ pc[c] = "backoff"
  /\ pc' = [pc EXCEPT ![c] = "posting"]
  /\ UNCHANGED <<breaker, attempts, permits, waiting>>

-----------------------------------------------------------------------------
Execute(c) ==
  \/ Acquire(c) \/ Succeed(c) \/ Fail(c) \/ Raise(c)
  \/ RetryConnect(c) \/ Repost(c)

Next ==
  \/ Tick
  \/ \E c \in Calls : Begin(c) \/ Refuse(c) \/ Execute(c)

Spec == Init /\ [][Next]_vars

-----------------------------------------------------------------------------
(* Safety *)

\* However late the answers of calls that began before it opened come in, the
\* breaker is closed exactly while its failures are below the threshold, and
\* only an open one counts down: it neither latches nor opens early.
BreakerConsistent ==
  /\ state = "closed" <=> failures < FailThreshold
  /\ cooldown > 0 => state = "open"

\* Every permit is with a call or on the semaphore, and every queued call is
\* queued once: no way out of execute() leaks or doubles a permit, so never
\* more than MaxConcurrency calls hold one.
Holders == {c \in Calls : pc[c] \in {"posting", "backoff"}}
Queued == {c \in Calls : pc[c] = "queued"}
PermitsBalance == permits + Cardinality(Holders) = MaxConcurrency
QueueIsQueued ==
  \A c \in Calls : c \in Queued <=> \E i \in 1 .. Len(waiting) : waiting[i] = c
QueuedOnce == \A i, j \in 1 .. Len(waiting) : waiting[i] = waiting[j] => i = j
PermitsAccounted == PermitsBalance /\ QueueIsQueued /\ QueuedOnce

\* While the breaker stays open no call joins those it had let in before:
\* an outage sheds load until the reset time has passed.
Active == Holders \cup Queued
ShedsLoad ==
  (state = "open" /\ cooldown > 0 /\ state' = "open" /\ cooldown' > 0)
     => Active' \subseteq Active
OpenShedsLoad == [][ShedsLoad]_vars

(* Liveness, under the fairness stated in FlightCalls *)

Answered == <>[][~ \E c \in Calls : Fail(c) \/ Raise(c) \/ RetryConnect(c)]_vars

\* Once OpenCTI answers, the breaker closes and stays closed, without any
\* restart: it is not a latch.
BreakerRecovers == Answered => <>[](state = "closed")

-----------------------------------------------------------------------------
(* What docs and comments of the repository say and the code does not do *)

\* client.py: a three-state breaker with a half-open probe. When the probe
\* fails, such a breaker opens again for another reset time.
ProbeReopens == (HalfOpen /\ \E c \in Calls : Fail(c)) => (state' = "open" /\ cooldown' > 0)
FailedProbeReopens == [][ProbeReopens]_vars
=============================================================================
