----------------------------- MODULE FlightCalls -----------------------------
(***************************************************************************)
(* Single-flight (cache/singleflight.py, live.py) composed with the client *)
(* whose calls it saves (UpstreamClient): a lookup leads the flight for    *)
(* its key and calls execute(), once or for a URL twice, or follows the    *)
(* flight there is. Every step of the client is one of UpstreamClient.     *)
(*                                                                         *)
(* What is asked and answered, and the payload cache, are in LookupPath.   *)
(***************************************************************************)
EXTENDS UpstreamClient

CONSTANTS
  Keys,       \* cache keys
  Urls,       \* those of URLs with a host to fall back to
  NoCall      \* "no flight"

ASSUME KeysAssumption == Urls \subseteq Keys /\ NoCall \notin Calls

VARIABLES
  flight,     \* SingleFlight._inflight: who leads the flight for a key
  role,       \* what each lookup is doing
  key,        \* the key it wants
  result      \* how its flight has ended for it

flights == <<flight, role, key, result>>
flightVars == <<state, failures, cooldown, pc, attempts, permits, waiting,
                flight, role, key, result>>

Leading(c) == role[c] \in {"exact", "host"}

FlightTypeOK ==
  /\ TypeOK
  /\ flight \in [Keys -> Calls \cup {NoCall}]
  /\ role \in [Calls -> {"none", "exact", "host", "following", "woken", "replied"}]
  /\ key \in [Calls -> Keys]
  /\ result \in [Calls -> {"none", "answer", "degraded", "error"}]

FlightInit ==
  /\ Init
  /\ flight = [k \in Keys |-> NoCall]
  /\ role = [c \in Calls |-> "none"]
  /\ key \in [Calls -> Keys] /\ \A c, d \in Calls : key[c] = key[d]
  /\ result = [c \in Calls |-> "none"]

-----------------------------------------------------------------------------
(* SingleFlight.do *)

\* Nothing is awaited between the answer to the first query of a flight and
\* the second one, so that nobody else moves.
Halfway == {c \in Calls : role[c] = "host" /\ pc[c] = "idle"}
Idle(c) == Halfway = {} /\ role[c] = "none"

Anyway(k) == TRUE                      \* mutant: the flight there is is overlooked
Unled(k) == flight[k] = NoCall

Lead(c, k) ==
  /\ Idle(c) /\ Unled(k)
  /\ Begin(c)
  /\ flight' = [flight EXCEPT ![k] = c]
  /\ role' = [role EXCEPT ![c] = "exact"]
  /\ key' = [key EXCEPT ![c] = k]
  /\ UNCHANGED result

\* A flight that the breaker refuses is over before anybody can follow it.
Refused(c, k) ==
  /\ Idle(c) /\ Unled(k)
  /\ Refuse(c)
  /\ role' = [role EXCEPT ![c] = "replied"]
  /\ key' = [key EXCEPT ![c] = k]
  /\ result' = [result EXCEPT ![c] = "degraded"]
  /\ UNCHANGED flight

Follow(c, k) ==
  /\ Idle(c) /\ ~ Unled(k)
  /\ role' = [role EXCEPT ![c] = "following"]
  /\ key' = [key EXCEPT ![c] = k]
  /\ UNCHANGED <<vars, flight, result>>

\* The end of a flight: its key is free, its followers have the result.
Party(c) == {f \in Calls : f = c \/ (role[f] = "following" /\ key[f] = key[c])}
LandQuietly(c, outcome) ==             \* mutant: followers do not learn of a failure
  LET told == IF outcome = "answer" THEN Party(c) ELSE {c}
  IN  /\ flight' = [flight EXCEPT ![key[c]] = NoCall]
      /\ role' = [f \in Calls |-> IF f = c THEN "replied"
                                  ELSE IF f \in told THEN "woken" ELSE role[f]]
      /\ result' = [f \in Calls |-> IF f \in told THEN outcome ELSE result[f]]
      /\ UNCHANGED key
Land(c, outcome) ==
  /\ flight' = [flight EXCEPT ![key[c]] = NoCall]
  /\ role' = [f \in Calls |-> IF f = c THEN "replied"
                              ELSE IF f \in Party(c) THEN "woken" ELSE role[f]]
  /\ result' = [f \in Calls |-> IF f \in Party(c) THEN outcome ELSE result[f]]
  /\ UNCHANGED key

-----------------------------------------------------------------------------
(* LiveBackend._fetch, inside a flight *)

\* A hit, or a miss where no host is left to ask for.
EndAnswered(c) == Halfway = {} /\ Succeed(c) /\ Land(c, "answer")

\* The URL is unknown: its host is asked for. The success has just closed the
\* breaker, which therefore refuses nothing.
MissExact(c) ==
  /\ Halfway = {} /\ role[c] = "exact" /\ key[c] \in Urls
  /\ Succeed(c)
  /\ role' = [role EXCEPT ![c] = "host"]
  /\ UNCHANGED <<flight, key, result>>
AskHost(c) == c \in Halfway /\ Begin(c) /\ UNCHANGED flights

\* An error of either query ends the flight for everybody.
EndFailed(c) == Halfway = {} /\ Fail(c) /\ Land(c, "degraded")

\* live.py catches an OpenCTIError only: any other exception is the flight's
\* result too, and every lookup of it ends with an error instead of a payload.
EndRaised(c) == Halfway = {} /\ Raise(c) /\ Land(c, "error")

Wait(c) ==
  /\ Halfway = {}
  /\ Acquire(c) \/ RetryConnect(c) \/ Repost(c)
  /\ UNCHANGED flights

\* A follower runs again and replies what the flight has brought.
Wake(c) ==
  /\ Halfway = {} /\ role[c] = "woken"
  /\ role' = [role EXCEPT ![c] = "replied"]
  /\ UNCHANGED <<vars, flight, key, result>>

\* The coroutine serves another lookup.
Finish(c) ==
  /\ Halfway = {} /\ role[c] = "replied"
  /\ role' = [role EXCEPT ![c] = "none"]
  /\ result' = [result EXCEPT ![c] = "none"]
  /\ UNCHANGED <<vars, flight, key>>

ClockTicks == Halfway = {} /\ Tick /\ UNCHANGED flights

-----------------------------------------------------------------------------
Proceed(c) == EndAnswered(c) \/ MissExact(c) \/ AskHost(c) \/ EndFailed(c) \/ EndRaised(c)
                \/ Wait(c) \/ Wake(c) \/ Finish(c)

FlightNext ==
  \/ ClockTicks
  \/ \E c \in Calls : Proceed(c) \/ \E k \in Keys : Lead(c, k) \/ Refused(c, k) \/ Follow(c, k)

FlightSpec == FlightInit /\ [][FlightNext]_flightVars

\* Time passes, httpx's timeouts end every post, and the event loop runs in
\* turn whatever is ready, so that a step which other calls' steps only delay
\* is taken. Lookups keep coming: some flight is begun again and again.
FlightFairSpec ==
  /\ FlightSpec
  /\ SF_flightVars(ClockTicks)
  /\ \A c \in Calls : SF_flightVars(Proceed(c))
  /\ SF_flightVars(\E c \in Calls, k \in Keys : Lead(c, k))
-----------------------------------------------------------------------------
(* Safety *)

\* However many lookups ask for a key, and however its flights end, at most
\* one call for it is queued or at OpenCTI: a burst of lookups cannot fill the
\* semaphore's queue beyond the number of different keys.
OneCallPerKey ==
  \A c, d \in Active : key[c] = key[d] => c = d

(* Liveness *)

\* Every lookup comes to its end, whether it leads or follows, though flights
\* fail, are refused or queue for the semaphore behind others.
LookupsEnd == \A c \in Calls : role[c] # "none" ~> role[c] = "none"

\* Once OpenCTI answers, no lookup ends degraded or with an error any more:
\* neither the breaker nor a flight that has failed holds on to the outage.
LookupsRecover ==
  Answered => <>[](\A c \in Calls : result[c] \notin {"degraded", "error"})
=============================================================================
