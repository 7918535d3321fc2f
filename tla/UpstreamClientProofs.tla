------------------------ MODULE UpstreamClientProofs ------------------------
(* Proofs about UpstreamClient, for any number of calls and any limits. *)
EXTENDS UpstreamClient, FiniteSetTheorems, TLAPS

\* The inductive invariant. TypeOK needs the permits' balance, which bounds the
\* semaphore's value from above; the balance needs the queue, because the call
\* that Acquire wakes holds no permit yet only if it is indeed queued; and the
\* queue stays exact only without repeats.
IInv == TypeOK /\ BreakerConsistent /\ PermitsAccounted

-----------------------------------------------------------------------------
\* One element more, one element less.
LEMMA OneMore ==
  ASSUME NEW S, IsFiniteSet(S), NEW x, x \notin S
  PROVE  Cardinality(S \cup {x}) = Cardinality(S) + 1
  BY FS_AddElement

LEMMA OneLess ==
  ASSUME NEW S, IsFiniteSet(S), NEW x \in S
  PROVE  /\ Cardinality(S \ {x}) = Cardinality(S) - 1
         /\ Cardinality(S \ {x}) \in Nat
  <1>1. IsFiniteSet(S \ {x})
    BY FS_RemoveElement
  <1>2. Cardinality(S \ {x}) = Cardinality(S) - 1
    BY FS_RemoveElement
  <1> QED
    BY <1>1, <1>2, FS_CardinalityType

\* The calls that hold a permit are finitely many.
LEMMA Finite == IsFiniteSet(Holders) /\ Cardinality(Holders) \in Nat
  <1>1. Holders \subseteq Calls
    BY DEF Holders
  <1> QED
    BY <1>1, CallsAssumption, FS_Subset, FS_CardinalityType

\* The semaphore's account in numbers.
LEMMA Account ==
  ASSUME TypeOK, PermitsBalance
  PROVE  /\ permits \in Nat /\ MaxConcurrency \in Nat
         /\ permits + Cardinality(Holders) = MaxConcurrency
  BY LimitsAssumption DEF TypeOK, PermitsBalance

\* What a call that joins the queue does to it.
LEMMA Joins ==
  ASSUME NEW s \in Seq(Calls), NEW c \in Calls
  PROVE  /\ Append(s, c) \in Seq(Calls)
         /\ Len(s) \in Nat /\ Len(Append(s, c)) = Len(s) + 1
         /\ \A i \in 1 .. Len(s) : Append(s, c)[i] = s[i]
         /\ Append(s, c)[Len(s) + 1] = c
  OBVIOUS

\* What serving the first call does to it.
LEMMA Leaves ==
  ASSUME NEW s \in Seq(Calls), s # <<>>
  PROVE  /\ Tail(s) \in Seq(Calls)
         /\ Len(s) \in Nat \ {0} /\ Len(Tail(s)) = Len(s) - 1
         /\ \A i \in 1 .. Len(s) - 1 : Tail(s)[i] = s[i + 1]
         /\ Head(s) = s[1] /\ Head(s) \in Calls
  OBVIOUS

\* The queue q repeats no call; the call d is in it.
Once(q) == \A i, j \in 1 .. Len(q) : q[i] = q[j] => i = j
Waits(q, d) == \E i \in 1 .. Len(q) : q[i] = d

\* A queue that a call joins which is not in it still repeats no call.
LEMMA JoinsOnce ==
  ASSUME NEW s \in Seq(Calls), NEW c \in Calls, Once(s), ~ Waits(s, c)
  PROVE  /\ Once(Append(s, c))
         /\ \A d : Waits(Append(s, c), d) <=> d = c \/ Waits(s, d)
  <1> DEFINE n == Len(s)
             t == Append(s, c)
  <1>1. /\ n \in Nat /\ Len(t) = n + 1 /\ t[n + 1] = c
        /\ \A i \in 1 .. n : t[i] = s[i]
    BY Joins
  <1>2. /\ \A i, j \in 1 .. n : s[i] = s[j] => i = j
        /\ ~ \E i \in 1 .. n : s[i] = c
    BY DEF Once, Waits
  <1> HIDE DEF n, t
  <1>3. \A i \in 1 .. n + 1 : i \in 1 .. n \/ i = n + 1
    BY <1>1
  <1>4. n + 1 \in 1 .. n + 1 /\ \A i \in 1 .. n : i \in 1 .. n + 1
    BY <1>1
  <1>5. \A i, j \in 1 .. Len(t) : t[i] = t[j] => i = j
    BY <1>1, <1>2, <1>3
  <1>6. \A d : (\E i \in 1 .. Len(t) : t[i] = d) <=> (d = c \/ \E i \in 1 .. n : s[i] = d)
    BY <1>1, <1>3, <1>4
  <1> QED
    BY <1>5, <1>6 DEF n, t, Once, Waits

\* A queue whose first call is served repeats none, and lost just that one.
LEMMA LeavesOnce ==
  ASSUME NEW s \in Seq(Calls), s # <<>>, Once(s)
  PROVE  /\ Once(Tail(s))
         /\ \A d : Waits(Tail(s), d) <=> d # Head(s) /\ Waits(s, d)
  <1> DEFINE t == Tail(s)
  <1> DEFINE n == Len(s)
  <1>1. /\ n \in Nat \ {0} /\ Len(t) = n - 1 /\ Head(s) = s[1]
        /\ \A i \in 1 .. n - 1 : t[i] = s[i + 1]
    BY Leaves
  <1>2. \A i, j \in 1 .. n : s[i] = s[j] => i = j
    BY DEF Once
  <1> HIDE DEF n, t
  <1>3. \A i \in 1 .. n - 1 : i + 1 \in 1 .. n /\ i + 1 # 1
    BY <1>1
  <1>4. 1 \in 1 .. n
    BY <1>1
  <1>5. \A i \in 1 .. n : i = 1 \/ (i - 1 \in 1 .. n - 1 /\ (i - 1) + 1 = i)
    BY <1>1
  <1>6. ASSUME NEW i \in 1 .. n - 1, NEW j \in 1 .. n - 1, t[i] = t[j]
        PROVE  i = j
    <2>1. s[i + 1] = s[j + 1]
      BY <1>1, <1>6
    <2>2. i + 1 = j + 1
      BY <1>2, <1>3, <2>1
    <2> QED
      BY <2>2
  <1>7. ASSUME NEW d, NEW i \in 1 .. n - 1, t[i] = d
        PROVE  d # s[1] /\ \E k \in 1 .. n : s[k] = d
    BY <1>1, <1>2, <1>3, <1>4, <1>7
  <1>8. ASSUME NEW d, d # s[1], NEW i \in 1 .. n, s[i] = d
        PROVE  \E k \in 1 .. n - 1 : t[k] = d
    <2>1. i - 1 \in 1 .. n - 1 /\ (i - 1) + 1 = i
      BY <1>5, <1>8
    <2>2. t[i - 1] = s[(i - 1) + 1]
      BY <1>1, <2>1
    <2>3. t[i - 1] = d
      BY <1>8, <2>1, <2>2
    <2> QED
      BY <2>1, <2>3
  <1> QED
    BY <1>1, <1>6, <1>7, <1>8 DEF n, t, Once, Waits

-----------------------------------------------------------------------------
\* The client starts with a closed breaker and all permits.
LEMMA InitIInv == Init => IInv
  <1> SUFFICES ASSUME Init PROVE IInv
    OBVIOUS
  <1>1. TypeOK /\ BreakerConsistent
    BY LimitsAssumption DEF Init, TypeOK, BreakerConsistent, PCs
  <1>2. Holders = {} /\ Queued = {}
    BY DEF Init, Holders, Queued
  <1>3. Cardinality({}) = 0
    BY FS_EmptySet
  <1>4. PermitsBalance
    BY <1>2, <1>3, LimitsAssumption DEF Init, PermitsBalance
  <1>5. QueueIsQueued /\ QueuedOnce
    BY <1>2 DEF Init, QueueIsQueued, QueuedOnce
  <1> QED
    BY <1>1, <1>4, <1>5 DEF IInv, PermitsAccounted

\* The breaker's two records keep its state consistent.
BreakerTyped ==
  /\ state \in {"closed", "open"} /\ failures \in 0 .. FailThreshold
  /\ cooldown \in 0 .. ResetAfter

LEMMA BreakerStep ==
  ASSUME BreakerTyped, BreakerConsistent, RecordSuccess \/ RecordFailure
  PROVE  BreakerTyped' /\ BreakerConsistent'
  <1>1. CASE RecordSuccess
    BY <1>1, LimitsAssumption DEF BreakerTyped, BreakerConsistent, RecordSuccess
  <1>2. CASE RecordFailure
    <2>1. /\ failures \in Int /\ FailThreshold \in Int /\ 0 =< failures
          /\ failures =< FailThreshold /\ ResetAfter \in Nat \ {0}
      BY LimitsAssumption DEF BreakerTyped
    <2>2. failures' \in 0 .. FailThreshold
      BY <1>2, <2>1 DEF RecordFailure, CountFailure
    <2>3. CASE failures' >= FailThreshold /\ state # "open"
      BY <1>2, <2>1, <2>2, <2>3 DEF BreakerTyped, BreakerConsistent, RecordFailure
    <2>4. CASE ~ (failures' >= FailThreshold /\ state # "open")
      BY <1>2, <2>1, <2>2, <2>4
      DEF BreakerTyped, BreakerConsistent, RecordFailure, CountFailure
    <2> QED
      BY <2>3, <2>4
  <1> QED
    BY <1>1, <1>2

\* A call that leaves gives back the one permit it holds.
LEMMA LeaveStep ==
  ASSUME TypeOK, PermitsAccounted, NEW c \in Calls, pc[c] = "posting", Leave(c)
  PROVE  /\ PermitsAccounted'
         /\ pc' \in [Calls -> PCs] /\ attempts' \in [Calls -> 0 .. 1]
         /\ permits' \in 0 .. MaxConcurrency /\ waiting' \in Seq(Calls)
  <1>1. Holders' = Holders \ {c} /\ c \in Holders /\ Queued' = Queued
    BY DEF Leave, Holders, Queued, TypeOK
  <1>2. /\ Cardinality(Holders') = Cardinality(Holders) - 1
        /\ Cardinality(Holders') \in Nat
    BY <1>1, Finite, OneLess
  <1>3. permits' = permits + 1 /\ waiting' = waiting
    BY DEF Leave
  <1>4. PermitsBalance
    BY DEF PermitsAccounted
  <1>5. permits' + Cardinality(Holders') = MaxConcurrency /\ permits' \in 0 .. MaxConcurrency
    BY <1>2, <1>3, <1>4, Account, Finite
  <1>6. PermitsAccounted'
    BY <1>1, <1>3, <1>5 DEF PermitsAccounted, PermitsBalance, QueueIsQueued, QueuedOnce
  <1> QED
    BY <1>3, <1>5, <1>6 DEF TypeOK, PCs, Leave

\* A call that joins the queue.
LEMMA BeginStep ==
  ASSUME IInv, NEW c \in Calls, Begin(c)
  PROVE  IInv'
  <1>1. Queued' = Queued \cup {c} /\ c \notin Queued /\ Holders' = Holders
    BY DEF Begin, Queued, Holders, IInv, TypeOK
  <1>2. waiting \in Seq(Calls) /\ waiting' = Append(waiting, c) /\ permits' = permits
    BY DEF Begin, IInv, TypeOK
  <1>3. QueueIsQueued /\ QueuedOnce /\ PermitsBalance
    BY DEF IInv, PermitsAccounted
  <1>4. ~ Waits(waiting, c) /\ Once(waiting)
    BY <1>1, <1>3 DEF QueueIsQueued, QueuedOnce, Waits, Once
  <1>5. Once(waiting') /\ \A d : Waits(waiting', d) <=> d = c \/ Waits(waiting, d)
    <2>1. /\ Once(Append(waiting, c))
          /\ \A d : Waits(Append(waiting, c), d) <=> d = c \/ Waits(waiting, d)
      BY <1>2, <1>4, JoinsOnce
    <2> QED
      BY <1>2, <2>1
  <1>6. QueueIsQueued'
    BY <1>1, <1>3, <1>5 DEF QueueIsQueued, Waits
  <1>7. PermitsBalance'
    BY <1>1, <1>2, <1>3 DEF PermitsBalance
  <1>8. waiting' \in Seq(Calls)
    BY <1>2, Joins
  <1>9. TypeOK' /\ BreakerConsistent'
    <2>1. UNCHANGED <<state, failures, cooldown, permits>>
      BY DEF Begin, breaker
    <2>2. pc' \in [Calls -> PCs] /\ attempts' \in [Calls -> 0 .. 1]
      BY DEF Begin, IInv, TypeOK, PCs
    <2> QED
      BY <1>8, <2>1, <2>2 DEF IInv, TypeOK, BreakerConsistent
  <1> QED
    BY <1>5, <1>6, <1>7, <1>9 DEF IInv, PermitsAccounted, QueuedOnce, Once

\* A call that gets a permit.
LEMMA AcquireStep ==
  ASSUME IInv, NEW c \in Calls, Acquire(c)
  PROVE  IInv'
  <1>1. /\ waiting \in Seq(Calls) /\ waiting # <<>> /\ c = Head(waiting)
        /\ waiting' = Tail(waiting) /\ permits' = permits - 1 /\ permits > 0
    BY DEF Acquire, IInv, TypeOK
  <1>2. QueueIsQueued /\ QueuedOnce /\ PermitsBalance /\ TypeOK
    BY DEF IInv, PermitsAccounted
  <1>3. c \in Queued
    <2>1. Len(waiting) \in Nat \ {0} /\ c = waiting[1]
      BY <1>1, Leaves
    <2>2. 1 \in 1 .. Len(waiting)
      BY <2>1
    <2> QED
      BY <1>2, <2>1, <2>2 DEF QueueIsQueued
  <1>4. Queued' = Queued \ {c} /\ Holders' = Holders \cup {c} /\ c \notin Holders
    BY <1>2, <1>3 DEF Acquire, TypeOK, Queued, Holders
  <1>5. Cardinality(Holders') = Cardinality(Holders) + 1
    BY <1>4, Finite, OneMore
  <1>6. Once(waiting') /\ \A d : Waits(waiting', d) <=> d # c /\ Waits(waiting, d)
    <2>1. Once(waiting)
      BY <1>2 DEF QueuedOnce, Once
    <2>2. /\ Once(Tail(waiting))
          /\ \A d : Waits(Tail(waiting), d) <=> d # Head(waiting) /\ Waits(waiting, d)
      BY <1>1, <2>1, LeavesOnce
    <2> QED
      BY <1>1, <2>2
  <1>7. QueueIsQueued'
    BY <1>2, <1>4, <1>6 DEF QueueIsQueued, Waits
  <1>8. permits' + Cardinality(Holders') = MaxConcurrency /\ permits' \in 0 .. MaxConcurrency
    <2>1. /\ permits \in Nat /\ MaxConcurrency \in Nat
          /\ permits + Cardinality(Holders) = MaxConcurrency
      BY <1>2, Account
    <2>2. permits > 0 /\ permits' = permits - 1 /\ Cardinality(Holders) \in Nat
      BY <1>1, Finite
    <2> QED
      BY <1>5, <2>1, <2>2
  <1>9. TypeOK' /\ BreakerConsistent'
    <2>1. UNCHANGED <<state, failures, cooldown, attempts>>
      BY DEF Acquire, breaker
    <2>2. pc' \in [Calls -> PCs]
      BY DEF Acquire, IInv, TypeOK, PCs
    <2>3. waiting' \in Seq(Calls)
      BY <1>1, Leaves
    <2> QED
      BY <1>8, <2>1, <2>2, <2>3 DEF IInv, TypeOK, BreakerConsistent
  <1> QED
    BY <1>6, <1>7, <1>8, <1>9
    DEF IInv, PermitsAccounted, PermitsBalance, QueuedOnce, Once

\* Every step keeps the invariant.
LEMMA StepIInv == IInv /\ [Next]_vars => IInv'
  <1> SUFFICES ASSUME IInv, [Next]_vars PROVE IInv'
    OBVIOUS
  <1> USE DEF PermitsAccounted, PermitsBalance, QueueIsQueued, QueuedOnce
  <1>1. CASE UNCHANGED vars
    BY <1>1 DEF IInv, TypeOK, BreakerConsistent, Holders, Queued, vars
  <1>2. CASE Tick
    <2>1. /\ state = "open" /\ cooldown > 0 /\ cooldown' = cooldown - 1
          /\ UNCHANGED <<state, failures, pc, attempts, permits, waiting>>
      BY <1>2 DEF Tick
    <2>2. cooldown' \in 0 .. ResetAfter
      BY <2>1, LimitsAssumption DEF IInv, TypeOK
    <2>3. TypeOK' /\ BreakerConsistent'
      BY <2>1, <2>2 DEF IInv, TypeOK, BreakerConsistent
    <2>4. Holders' = Holders /\ Queued' = Queued
      BY <2>1 DEF Holders, Queued
    <2> QED
      BY <2>1, <2>3, <2>4 DEF IInv
  <1>3. ASSUME NEW c \in Calls, Refuse(c) PROVE IInv'
    BY <1>3, <1>1 DEF Refuse
  <1>4. ASSUME NEW c \in Calls, Succeed(c) \/ Fail(c) PROVE IInv'
    <2>1. pc[c] = "posting" /\ Leave(c) /\ (RecordSuccess \/ RecordFailure)
      BY <1>4 DEF Succeed, Fail
    <2> HIDE DEF PermitsAccounted, PermitsBalance, QueueIsQueued, QueuedOnce
    <2>2. BreakerTyped' /\ BreakerConsistent'
      BY <2>1, BreakerStep DEF IInv, TypeOK, BreakerTyped
    <2>3. /\ PermitsAccounted'
          /\ pc' \in [Calls -> PCs] /\ attempts' \in [Calls -> 0 .. 1]
          /\ permits' \in 0 .. MaxConcurrency /\ waiting' \in Seq(Calls)
      BY <2>1, LeaveStep DEF IInv
    <2> QED
      BY <2>2, <2>3 DEF IInv, TypeOK, BreakerTyped
  <1>5. ASSUME NEW c \in Calls, RetryConnect(c) \/ Repost(c) PROVE IInv'
    <2>1. Holders' = Holders /\ Queued' = Queued
      BY <1>5 DEF RetryConnect, Repost, Holders, Queued, IInv, TypeOK
    <2>2. UNCHANGED <<state, failures, cooldown, permits, waiting>>
      BY <1>5 DEF RetryConnect, Repost, breaker
    <2>3. pc' \in [Calls -> PCs] /\ attempts' \in [Calls -> 0 .. 1]
      BY <1>5 DEF RetryConnect, Repost, IInv, TypeOK, PCs
    <2>4. TypeOK' /\ BreakerConsistent'
      BY <2>2, <2>3 DEF IInv, TypeOK, BreakerConsistent
    <2> QED
      BY <2>1, <2>2, <2>4 DEF IInv
  <1>6. ASSUME NEW c \in Calls, Raise(c) PROVE IInv'
    <2> HIDE DEF PermitsAccounted, PermitsBalance, QueueIsQueued, QueuedOnce
    <2>1. pc[c] = "posting" /\ Leave(c) /\ UNCHANGED <<state, failures, cooldown>>
      BY <1>6 DEF Raise, breaker
    <2>2. /\ PermitsAccounted'
          /\ pc' \in [Calls -> PCs] /\ attempts' \in [Calls -> 0 .. 1]
          /\ permits' \in 0 .. MaxConcurrency /\ waiting' \in Seq(Calls)
      BY <2>1, LeaveStep DEF IInv
    <2> QED
      BY <2>1, <2>2 DEF IInv, TypeOK, BreakerConsistent
  <1> QED
    BY <1>1, <1>2, <1>3, <1>4, <1>5, <1>6, BeginStep, AcquireStep DEF Next, Execute

\* Every reachable state satisfies the invariant.
THEOREM Invariant == Spec => []IInv
  BY InitIInv, StepIInv, PTL DEF Spec

-----------------------------------------------------------------------------
\* The variables keep their types; the semaphore's value stays within bounds.
THEOREM TypeCorrect == Spec => []TypeOK
  <1>1. IInv => TypeOK
    BY DEF IInv
  <1> QED
    BY <1>1, Invariant, PTL

\* The breaker is closed exactly while its failures are below the threshold.
THEOREM BreakerIsConsistent == Spec => []BreakerConsistent
  <1>1. IInv => BreakerConsistent
    BY DEF IInv
  <1> QED
    BY <1>1, Invariant, PTL

\* No permit is leaked or doubled on any way through execute().
THEOREM NoPermitLost == Spec => []PermitsAccounted
  <1>1. IInv => PermitsAccounted
    BY DEF IInv
  <1> QED
    BY <1>1, Invariant, PTL

\* Never more than opencti_max_concurrency calls are at OpenCTI.
THEOREM ConcurrencyBound == Spec => [](Cardinality(Holders) =< MaxConcurrency)
  <1>1. IInv => Cardinality(Holders) =< MaxConcurrency
    BY Finite, Account DEF IInv, PermitsAccounted
  <1> QED
    BY <1>1, Invariant, PTL

\* While the breaker stays open it lets no further call in.
THEOREM OpenSheds == Spec => OpenShedsLoad
  <1>1. IInv /\ [Next]_vars => [ShedsLoad]_vars
    <2> SUFFICES ASSUME IInv, Next, state = "open", cooldown > 0 PROVE Active' \subseteq Active
      BY DEF ShedsLoad
    <2>1. CASE Tick
      BY <2>1 DEF Tick, Active, Holders, Queued
    <2>2. ASSUME NEW c \in Calls, Begin(c) PROVE FALSE
      BY <2>2 DEF Begin, Allows, HalfOpen, IInv, TypeOK
    <2>3. ASSUME NEW c \in Calls, Refuse(c) \/ Execute(c) PROVE Active' \subseteq Active
      <3>1. CASE Refuse(c)
        BY <3>1 DEF Refuse, vars, Active, Holders, Queued
      <3>2. CASE Acquire(c)
        <4>1. pc[c] = "queued"
          <5>1. waiting \in Seq(Calls) /\ waiting # <<>> /\ c = Head(waiting)
            BY <3>2 DEF Acquire, IInv, TypeOK
          <5>2. c = waiting[1] /\ Len(waiting) \in Nat \ {0}
            BY <5>1, Leaves
          <5>3. 1 \in 1 .. Len(waiting)
            BY <5>2
          <5>4. c \in Queued
            BY <5>2, <5>3 DEF IInv, PermitsAccounted, QueueIsQueued
          <5> QED
            BY <5>4 DEF Queued
        <4> QED
          BY <3>2, <4>1 DEF Acquire, Active, Holders, Queued, IInv, TypeOK
      <3>3. CASE Succeed(c) \/ Fail(c) \/ Raise(c)
        BY <3>3 DEF Succeed, Fail, Raise, Leave, Active, Holders, Queued, IInv, TypeOK
      <3>4. CASE RetryConnect(c) \/ Repost(c)
        BY <3>4 DEF RetryConnect, Repost, Active, Holders, Queued, IInv, TypeOK
      <3> QED
        BY <2>3, <3>1, <3>2, <3>3, <3>4 DEF Execute
    <2> QED
      BY <2>1, <2>2, <2>3 DEF Next
  <1> QED
    BY <1>1, Invariant, PTL DEF Spec, OpenShedsLoad
=============================================================================
