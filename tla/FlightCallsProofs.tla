-------------------------- MODULE FlightCallsProofs --------------------------
(* Proofs about FlightCalls, for any number of calls and keys and any limits. *)
EXTENDS FlightCalls, UpstreamClientProofs

\* Flights and the steps of the client.
FlightTypes ==
  /\ flight \in [Keys -> Calls \cup {NoCall}]
  /\ role \in [Calls -> {"none", "exact", "host", "following", "woken", "replied"}]
  /\ key \in [Calls -> Keys]
  /\ result \in [Calls -> {"none", "answer", "degraded", "error"}]
  /\ pc \in [Calls -> PCs]

\* The inductive invariant: a lookup that leads is the one its key's flight
\* names, and only lookups that lead are in execute().
LeadersNamed == \A c \in Calls : Leading(c) => flight[key[c]] = c
OnlyLeadersCall == \A c \in Calls : pc[c] # "idle" => Leading(c)
FlightInv == FlightTypes /\ LeadersNamed /\ OnlyLeadersCall

-----------------------------------------------------------------------------
\* A step of the composition is a step of the client, or none of its own.
LEMMA ClientStep == [FlightNext]_flightVars => [Next]_vars
  <1> SUFFICES ASSUME FlightNext PROVE [Next]_vars
    BY DEF flightVars, vars
  <1>1. CASE ClockTicks
    BY <1>1 DEF ClockTicks, Next
  <1>2. ASSUME NEW c \in Calls, Proceed(c) PROVE [Next]_vars
    <2>1. CASE EndAnswered(c) \/ MissExact(c) \/ EndFailed(c) \/ EndRaised(c) \/ Wait(c)
      BY <2>1 DEF EndAnswered, MissExact, EndFailed, EndRaised, Wait, Execute, Next
    <2>2. CASE AskHost(c)
      BY <2>2 DEF AskHost, Next
    <2>3. CASE Wake(c) \/ Finish(c)
      BY <2>3 DEF Wake, Finish
    <2> QED
      BY <1>2, <2>1, <2>2, <2>3 DEF Proceed
  <1>3. ASSUME NEW c \in Calls, NEW k \in Keys, Lead(c, k) \/ Refused(c, k) \/ Follow(c, k)
        PROVE  [Next]_vars
    <2>1. CASE Lead(c, k)
      BY <2>1 DEF Lead, Next
    <2>2. CASE Refused(c, k)
      BY <2>2 DEF Refused, Next
    <2>3. CASE Follow(c, k)
      BY <2>3 DEF Follow
    <2> QED
      BY <1>3, <2>1, <2>2, <2>3
  <1> QED
    BY <1>1, <1>2, <1>3 DEF FlightNext

\* The composition implements the client: singleflight.py only chooses when
\* execute() is called. What is proved of the client therefore holds in it.
THEOREM ImplementsClient == FlightSpec => Spec
  <1>1. FlightInit => Init
    BY DEF FlightInit
  <1> QED
    BY <1>1, ClientStep, PTL DEF FlightSpec, Spec

\* client.py's breaker and semaphore, under the lookups of live.py: the breaker
\* is consistent and every permit is accounted for.
THEOREM ClientStaysSound == FlightSpec => [](BreakerConsistent /\ PermitsAccounted)
  BY ImplementsClient, BreakerIsConsistent, NoPermitLost, PTL

-----------------------------------------------------------------------------
LEMMA InitFlightInv == FlightInit => FlightInv
  BY DEF FlightInit, Init, FlightInv, FlightTypes, LeadersNamed, OnlyLeadersCall,
         Leading, PCs

\* What the client does to the place of a call in execute().
LEMMA CallMoves ==
  ASSUME NEW c \in Calls, FlightTypes
  PROVE  /\ Begin(c) => pc' = [pc EXCEPT ![c] = "queued"]
         /\ Succeed(c) \/ Fail(c) \/ Raise(c)
              => pc[c] = "posting" /\ pc' = [pc EXCEPT ![c] = "idle"]
         /\ Acquire(c) /\ pc[c] = "queued" => pc' = [pc EXCEPT ![c] = "posting"]
         /\ RetryConnect(c) => pc[c] = "posting" /\ pc' = [pc EXCEPT ![c] = "backoff"]
         /\ Repost(c) => pc[c] = "backoff" /\ pc' = [pc EXCEPT ![c] = "posting"]
  BY DEF Begin, Succeed, Fail, Raise, Leave, Acquire, RetryConnect, Repost

\* A flight ends, and its leader's call has ended.
LEMMA LandStep ==
  ASSUME FlightInv, NEW c \in Calls, NEW outcome \in {"answer", "degraded", "error"},
         Land(c, outcome), pc[c] = "posting", pc' = [pc EXCEPT ![c] = "idle"]
  PROVE  FlightInv'
  <1>1. Leading(c) /\ flight[key[c]] = c /\ key[c] \in Keys
    BY DEF FlightInv, OnlyLeadersCall, LeadersNamed, FlightTypes
  <1>2. FlightTypes'
    BY DEF FlightInv, FlightTypes, Land, PCs
  <1>3. \A d \in Calls : Leading(d)' => d # c /\ Leading(d)
    BY DEF Land, Leading, Party
  <1>4. LeadersNamed'
    BY <1>1, <1>3 DEF FlightInv, LeadersNamed, Land, FlightTypes
  <1>5. ASSUME NEW d \in Calls, d # c, Leading(d) PROVE Leading(d)'
    <2>1. d \notin Party(c)
      BY <1>5 DEF Leading, Party
    <2> QED
      BY <1>5, <2>1 DEF Land, Leading
  <1>6. OnlyLeadersCall'
    BY <1>5 DEF FlightInv, OnlyLeadersCall, FlightTypes
  <1> QED
    BY <1>2, <1>4, <1>6 DEF FlightInv

LEMMA StepFlightInv == FlightInv /\ IInv /\ [FlightNext]_flightVars => FlightInv'
  <1> SUFFICES ASSUME FlightInv, IInv, [FlightNext]_flightVars PROVE FlightInv'
    OBVIOUS
  <1> USE DEF FlightInv
  <1>1. CASE UNCHANGED flightVars
    BY <1>1 DEF flightVars, FlightTypes, LeadersNamed, OnlyLeadersCall, Leading
  <1>2. CASE ClockTicks
    BY <1>2 DEF ClockTicks, Tick, flights, FlightTypes, LeadersNamed, OnlyLeadersCall,
                Leading
  <1>3. ASSUME NEW c \in Calls, Proceed(c) PROVE FlightInv'
    <2>1. CASE EndAnswered(c)
      BY <2>1, CallMoves, LandStep DEF EndAnswered
    <2>2. CASE EndFailed(c) \/ EndRaised(c)
      BY <2>2, CallMoves, LandStep DEF EndFailed, EndRaised
    <2>3. CASE MissExact(c)
      <3>1. role[c] = "exact" /\ role' = [role EXCEPT ![c] = "host"]
            /\ UNCHANGED <<flight, key, result>>
        BY <2>3 DEF MissExact
      <3>2. pc' = [pc EXCEPT ![c] = "idle"]
        BY <2>3, CallMoves DEF MissExact
      <3> QED
        BY <3>1, <3>2 DEF FlightTypes, LeadersNamed, OnlyLeadersCall, Leading, PCs
    <2>4. CASE AskHost(c)
      <3>1. role[c] = "host" /\ UNCHANGED flights
        BY <2>4 DEF AskHost, Halfway
      <3>2. pc' = [pc EXCEPT ![c] = "queued"]
        BY <2>4, CallMoves DEF AskHost
      <3> QED
        BY <3>1, <3>2 DEF flights, FlightTypes, LeadersNamed, OnlyLeadersCall, Leading, PCs
    <2>5. CASE Wait(c)
      <3>1. UNCHANGED flights
        BY <2>5 DEF Wait
      <3>2. Acquire(c) => pc[c] = "queued"
        <4> SUFFICES ASSUME Acquire(c) PROVE pc[c] = "queued"
          OBVIOUS
        <4>1. waiting \in Seq(Calls) /\ waiting # <<>> /\ c = Head(waiting)
          BY DEF IInv, TypeOK, Acquire
        <4>2. 1 \in 1 .. Len(waiting) /\ waiting[1] = c
          BY <4>1
        <4>3. c \in Queued
          BY <4>2 DEF IInv, PermitsAccounted, QueueIsQueued
        <4> QED
          BY <4>3 DEF Queued
      <3>3. /\ pc[c] # "idle"
            /\ pc' = [pc EXCEPT ![c] = "posting"] \/ pc' = [pc EXCEPT ![c] = "backoff"]
        BY <2>5, <3>2, CallMoves DEF Wait
      <3> QED
        BY <3>1, <3>3 DEF flights, FlightTypes, LeadersNamed, OnlyLeadersCall, Leading, PCs
    <2>6. CASE Wake(c) \/ Finish(c)
      <3>1. role[c] \notin {"exact", "host"} /\ UNCHANGED <<pc, flight, key>>
        BY <2>6 DEF Wake, Finish, vars
      <3>2. FlightTypes'
        BY <2>6, <3>1 DEF Wake, Finish, FlightTypes
      <3>3. \A d \in Calls : Leading(d)' <=> Leading(d)
        BY <2>6, <3>1 DEF Wake, Finish, Leading, FlightTypes
      <3> QED
        BY <3>1, <3>2, <3>3 DEF LeadersNamed, OnlyLeadersCall
    <2> QED
      BY <1>3, <2>1, <2>2, <2>3, <2>4, <2>5, <2>6 DEF Proceed
  <1>4. ASSUME NEW c \in Calls, NEW k \in Keys, Lead(c, k) PROVE FlightInv'
    <2>1. flight[k] = NoCall /\ role[c] = "none"
      BY <1>4 DEF Lead, Idle, Unled
    <2>2. pc' = [pc EXCEPT ![c] = "queued"]
      BY <1>4, CallMoves DEF Lead
    <2>3. FlightTypes'
      BY <1>4, <2>2 DEF Lead, FlightTypes, PCs
    <2>4. \A d \in Calls \ {c} : Leading(d) => key[d] # k
      BY <2>1, KeysAssumption DEF LeadersNamed
    <2>5. LeadersNamed'
      BY <1>4, <2>4 DEF Lead, LeadersNamed, Leading, FlightTypes
    <2>6. OnlyLeadersCall'
      BY <1>4, <2>2 DEF Lead, OnlyLeadersCall, Leading, FlightTypes
    <2> QED
      BY <2>3, <2>5, <2>6
  <1>5. ASSUME NEW c \in Calls, NEW k \in Keys, Refused(c, k) \/ Follow(c, k)
        PROVE  FlightInv'
    <2>1. role[c] = "none" /\ UNCHANGED <<pc, flight>>
      BY <1>5 DEF Refused, Follow, Idle, Refuse, vars
    <2>2. /\ key' = [key EXCEPT ![c] = k]
          /\ role' = [role EXCEPT ![c] = "replied"] \/ role' = [role EXCEPT ![c] = "following"]
          /\ result' = [result EXCEPT ![c] = "degraded"] \/ UNCHANGED result
      BY <1>5 DEF Refused, Follow
    <2> QED
      BY <2>1, <2>2 DEF FlightTypes, LeadersNamed, OnlyLeadersCall, Leading
  <1> QED
    BY <1>1, <1>2, <1>3, <1>4, <1>5 DEF FlightNext

\* A lookup in execute() leads the flight for its key, at every moment.
THEOREM FlightInvariant == FlightSpec => []FlightInv
  BY InitFlightInv, StepFlightInv, ImplementsClient, Invariant, PTL DEF FlightSpec

\* Flights, roles, keys and results keep their types, and so do the client's
\* variables underneath (singleflight.py over client.py).
THEOREM FlightTypesCorrect == FlightSpec => []FlightTypeOK
  <1>1. TypeOK /\ FlightInv => FlightTypeOK
    BY DEF FlightInv, FlightTypes, FlightTypeOK
  <1> QED
    BY <1>1, ImplementsClient, TypeCorrect, FlightInvariant, PTL

\* singleflight.py: for any number of lookups and keys, never two calls for a
\* key are queued or at OpenCTI.
THEOREM OneCall == FlightSpec => []OneCallPerKey
  <1>1. FlightInv => OneCallPerKey
    BY DEF FlightInv, OneCallPerKey, LeadersNamed, OnlyLeadersCall, Active, Holders, Queued
  <1> QED
    BY <1>1, FlightInvariant, PTL
=============================================================================
