------------------------- MODULE StreamHealthProofs -------------------------
(* Proofs about StreamHealth, for any periods and any number of events. *)
EXTENDS StreamHealth, TLAPS

\* What a trusted set may lack grows with the time since the last check only,
\* and a connection that is up has not been down.
Checked == ~ stale => /\ lag =< StaleAfter + (CheckEvery - nextCheck)
                      /\ down =< CheckEvery - nextCheck
UpIsUp == connected => down = 0
TrustInv == TypeOK /\ Checked /\ UpIsUp

\* The cursor is where the open connection stands, once there is one.
CursorStands == phase = "consuming" /\ cursor # NoCursor => pos = cursor
LossInv == TypeOK /\ OnlyPoisonLost /\ CursorStands

\* How long nothing may have gone wrong: not at all while OpenCTI is silent,
\* within the pause that is left before an attempt, within the time to the
\* first heartbeat on a new connection (after it, the lag is the quiet time),
\* and within the time to the next check while the set is not trusted.
SilentIsTrouble == silent => calm = 0
AttemptSoon == phase = "connecting" => pause + calm =< PauseMax
HeardSoon == phase = "consuming" => \/ lag =< quiet
                                    \/ calm =< PauseMax + quiet
ConsumingIsUp == phase = "consuming" => connected
CheckedSoon == stale => calm =< PauseMax + SilenceMax + (CheckEvery - nextCheck)
RecoveryInv == TypeOK /\ SilentIsTrouble /\ AttemptSoon /\ HeardSoon /\ ConsumingIsUp
                 /\ CheckedSoon

-----------------------------------------------------------------------------
\* The periods as numbers, and what a clock shows a tick later.
LEMMA Periods ==
  /\ StaleAfter \in Nat /\ CheckEvery \in Nat \ {0} /\ SilenceMax \in Nat \ {0}
  /\ BackoffMax \in Nat \ {0} /\ PauseMax \in Nat \ {0} /\ MaxEvents \in Nat
  /\ LagMax \in Nat /\ DownMax \in Nat /\ CalmMax \in Nat
  BY TimesAssumption, EventsAssumption
     DEF PauseMax, LagMax, DownMax, CalmMax, NoticedAfter, TrustedAfter

LEMMA LaterBounded ==
  ASSUME NEW max \in Nat, NEW clock \in 0 .. max
  PROVE  Later(clock, max) \in 0 .. max /\ Later(clock, max) =< clock + 1
  BY DEF Later

\* At the moment of trouble, and a tick later in a pause.
LEMMA NothingYet ==
  ASSUME NEW longest \in Nat, NEW p \in 0 .. longest, NEW most \in Nat, NEW q \in 0 .. most,
         NEW period \in Nat, NEW n \in 0 .. period
  PROVE  /\ p + 0 =< longest /\ 0 =< longest + q
         /\ 0 =< longest + most + (period - n)
  OBVIOUS

LEMMA PauseRunsOut ==
  ASSUME NEW longest \in Nat, NEW p \in Nat, NEW time \in Nat, NEW later \in Nat,
         p + time =< longest, later =< time + 1
  PROVE  (p - 1) + later =< longest
  OBVIOUS

LEMMA InitTypes == Init => TypeOK
  <1> SUFFICES ASSUME Init PROVE TypeOK
    OBVIOUS
  <1>1. FlagsOK
    BY DEF Init, FlagsOK
  <1>2. PlacesOK
    BY Periods DEF Init, PlacesOK
  <1>3. ClocksOK
    BY Periods DEF Init, ClocksOK
  <1> QED
    BY <1>1, <1>2, <1>3 DEF TypeOK

\* run() keeps the pause and the backoff within their limits.
LEMMA ReconnectTypes ==
  ASSUME TypeOK, Reconnect
  PROVE  /\ connected' = FALSE /\ phase' = "connecting" /\ silent' = FALSE
         /\ pause' \in 0 .. PauseMax /\ backoff' \in 1 .. BackoffMax
         /\ quiet' = 0 /\ pos' = 0 /\ calm' = 0
  <1>1. pause' \in 0 .. PauseMax
    BY Periods DEF Reconnect, Delays
  <1>2. backoff' \in 1 .. BackoffMax
    BY Periods DEF TypeOK, ClocksOK, Reconnect, NextBackoff
  <1> QED
    BY <1>1, <1>2 DEF Reconnect

LEMMA FlagsStep == FlagsOK /\ [Next]_vars => FlagsOK'
  <1> SUFFICES ASSUME FlagsOK, [Next]_vars PROVE FlagsOK'
    OBVIOUS
  <1> USE DEF FlagsOK
  <1>1. CASE UNCHANGED vars \/ Emit \/ SpeakAgain \/ Tick
    BY <1>1 DEF vars, Emit, SpeakAgain, Tick, link, stats
  <1>2. CASE FallSilent \/ EndCleanly
    BY <1>2 DEF FallSilent, EndCleanly, stats
  <1>3. CASE Break
    BY <1>3 DEF Break, Reconnect
  <1>4. CASE Connect \/ Heartbeat
    BY <1>4 DEF Connect, Heartbeat, link
  <1>5. CASE Deliver
    BY <1>5 DEF Deliver, Reconnect, link
  <1>6. CASE Check
    BY <1>6 DEF Check, Unhealthy, link, stats
  <1> QED
    BY <1>1, <1>2, <1>3, <1>4, <1>5, <1>6 DEF Next, Trouble, Consume

LEMMA PlacesStep == TypeOK /\ [Next]_vars => PlacesOK'
  <1> SUFFICES ASSUME TypeOK, [Next]_vars PROVE PlacesOK'
    OBVIOUS
  <1> USE Periods DEF TypeOK, PlacesOK
  <1>1. CASE UNCHANGED vars \/ SpeakAgain \/ FallSilent \/ Check \/ Tick
    BY <1>1 DEF vars, SpeakAgain, FallSilent, Check, Tick, position
  <1>2. CASE Emit
    BY <1>2 DEF Emit, position
  <1>3. CASE Break \/ EndCleanly
    <2>1. pos' = 0 /\ UNCHANGED <<emitted, poison, cursor, handled, start>>
      BY <1>3 DEF Break, Reconnect, EndCleanly
    <2> QED
      BY <2>1
  <1>4. CASE Connect
    BY <1>4 DEF Connect, Resume
  <1>5. CASE Deliver
    <2>1. cursor' = pos + 1 /\ pos + 1 \in 1 .. emitted
          /\ UNCHANGED <<emitted, poison, start>>
      BY <1>5 DEF Deliver, MoveCursor
    <2>2. /\ pos' = 0 \/ pos' = pos + 1
          /\ handled' = handled \/ handled' = handled \cup {pos + 1}
      BY <1>5 DEF Deliver, Reconnect
    <2>3. handled' \subseteq 1 .. emitted
      BY <2>1, <2>2
    <2>4. pos' \in 0 .. emitted /\ cursor' \in 0 .. emitted
      BY <2>1, <2>2
    <2> QED
      BY <2>1, <2>3, <2>4
  <1>6. CASE Heartbeat
    BY <1>6 DEF Heartbeat, MoveCursor
  <1> QED
    BY <1>1, <1>2, <1>3, <1>4, <1>5, <1>6 DEF Next, Trouble, Consume

LEMMA ClocksStep == TypeOK /\ [Next]_vars => ClocksOK'
  <1> SUFFICES ASSUME TypeOK, [Next]_vars PROVE ClocksOK'
    OBVIOUS
  <1>0. ClocksOK
    BY DEF TypeOK
  <1> USE <1>0, Periods DEF ClocksOK
  <1>1. CASE UNCHANGED vars \/ Emit \/ SpeakAgain \/ FallSilent
    BY <1>1 DEF vars, Emit, SpeakAgain, FallSilent, link, stats
  <1>2. CASE Break
    <2>1. UNCHANGED <<lag, nextCheck, down>> /\ Reconnect
      BY <1>2 DEF Break
    <2> QED
      BY <2>1, ReconnectTypes
  <1>3. CASE EndCleanly \/ Connect \/ Heartbeat \/ Check
    BY <1>3 DEF EndCleanly, Connect, Heartbeat, Heard, Check, link, stats
  <1>4. CASE Deliver
    <2>1. lag' = 0 /\ UNCHANGED <<nextCheck, down>>
      BY <1>4 DEF Deliver
    <2>2. CASE Reconnect
      BY <2>1, <2>2, ReconnectTypes
    <2>3. CASE quiet' = 0 /\ UNCHANGED <<link, calm>>
      BY <2>1, <2>3 DEF link
    <2> QED
      BY <1>4, <2>2, <2>3 DEF Deliver
  <1>5. CASE Tick
    <2>1. lag' \in 0 .. LagMax
      BY <1>5, LaterBounded DEF Tick
    <2>2. quiet' \in 0 .. SilenceMax
      BY <1>5, LaterBounded DEF Tick
    <2>3. down' \in 0 .. DownMax
      BY <1>5, LaterBounded DEF Tick
    <2>4. calm' \in 0 .. CalmMax
      BY <1>5, LaterBounded DEF Tick
    <2>5. nextCheck' \in 0 .. CheckEvery /\ pause' \in 0 .. PauseMax /\ backoff' = backoff
      BY <1>5 DEF Tick
    <2> QED
      BY <2>1, <2>2, <2>3, <2>4, <2>5
  <1> QED
    BY <1>1, <1>2, <1>3, <1>4, <1>5 DEF Next, Trouble, Consume

LEMMA TypeStep == TypeOK /\ [Next]_vars => TypeOK'
  BY FlagsStep, PlacesStep, ClocksStep DEF TypeOK

\* Every reachable state has the types TypeOK gives it: the backoff of run()
\* and its pauses never leave their limits.
THEOREM TypeCorrect == Spec => []TypeOK
  BY InitTypes, TypeStep, PTL DEF Spec

-----------------------------------------------------------------------------
LEMMA TrustStep == TrustInv /\ [Next]_vars => TrustInv'
  <1> SUFFICES ASSUME TrustInv, [Next]_vars PROVE TrustInv'
    OBVIOUS
  <1>1. TypeOK'
    BY TypeStep DEF TrustInv
  <1>2. /\ lag \in 0 .. LagMax /\ down \in 0 .. DownMax /\ nextCheck \in 0 .. CheckEvery
        /\ stale \in BOOLEAN /\ connected \in BOOLEAN
    BY DEF TrustInv, TypeOK, FlagsOK, ClocksOK
  <1> USE <1>2, Periods DEF TrustInv, Checked, UpIsUp
  <1>3. ASSUME UNCHANGED <<connected, lag, stale, nextCheck, down>>
        PROVE  (Checked /\ UpIsUp)'
    BY <1>3
  <1>4. CASE UNCHANGED vars \/ Emit \/ SpeakAgain \/ FallSilent \/ EndCleanly
    BY <1>1, <1>3, <1>4 DEF vars, Emit, SpeakAgain, FallSilent, EndCleanly, stats
  <1>5. CASE Break
    BY <1>1, <1>5 DEF Break, Reconnect
  <1>6. CASE Connect
    BY <1>1, <1>6 DEF Connect
  <1>7. CASE Deliver
    <2>1. lag' = 0 /\ UNCHANGED <<stale, nextCheck, down>>
      BY <1>7 DEF Deliver
    <2>2. connected' => connected
      BY <1>7 DEF Deliver, Reconnect
    <2> QED
      BY <1>1, <2>1, <2>2
  <1>8. CASE Heartbeat
    BY <1>1, <1>8 DEF Heartbeat, Heard, link
  <1>9. CASE Check
    <2>1. ~ stale' => connected /\ ~ (lag > StaleAfter)
      BY <1>9, Zenon DEF Check, Unhealthy
    <2>2. nextCheck' = CheckEvery /\ UNCHANGED <<connected, lag, down>>
      BY <1>9 DEF Check, stats
    <2> QED
      BY <1>1, <2>1, <2>2
  <1>10. CASE Tick
    <2>1. lag' =< lag + 1
      BY <1>10, LaterBounded DEF Tick
    <2>2. down' = IF connected THEN 0 ELSE Later(down, DownMax)
      BY <1>10 DEF Tick
    <2>5. down' =< down + 1 /\ (connected => down' = 0)
      <3>1. CASE connected
        <4>1. down' = 0
          BY <2>2, <3>1, Zenon
        <4> QED
          BY <4>1
      <3>2. CASE ~ connected
        <4>1. down' = Later(down, DownMax)
          BY <2>2, <3>2, Zenon
        <4> QED
          BY <3>2, <4>1, LaterBounded
      <3> QED
        BY <3>1, <3>2
    <2>3. nextCheck' = nextCheck - 1 /\ UNCHANGED <<connected, stale>>
      BY <1>10 DEF Tick
    <2>4. lag' \in Int /\ down' \in Int
      BY <1>1 DEF TypeOK, ClocksOK
    <2> QED
      BY <1>1, <2>1, <2>3, <2>4, <2>5
  <1> QED
    BY <1>4, <1>5, <1>6, <1>7, <1>8, <1>9, <1>10 DEF Next, Trouble, Consume

\* stream.py and _watch_stream_health: whatever the stream does, a set that is
\* trusted has heard of OpenCTI within StaleAfter and one check, and has been
\* without a connection for at most one check.
THEOREM TrustedIsRecent == Spec => []TrustIsRecent
  <1>1. Init => TrustInv
    BY InitTypes, Periods DEF Init, TrustInv, Checked, UpIsUp
  <1>2. TrustInv => TrustIsRecent
    BY Periods DEF TrustInv, TypeOK, ClocksOK, Checked, TrustIsRecent, NoticedAfter
  <1> QED
    BY <1>1, <1>2, TrustStep, PTL DEF Spec

-----------------------------------------------------------------------------
\* Where run() goes back to the beginning, the cursor keeps the place.
LEMMA KeepsPlace ==
  ASSUME LossInv, phase' = "connecting", UNCHANGED <<emitted, poison, cursor, handled, start>>
  PROVE  (OnlyPoisonLost /\ CursorStands)'
  <1>1. Standing' = cursor /\ cursor \in (0 .. emitted) \cup {NoCursor}
    BY DEF LossInv, TypeOK, PlacesOK, Standing
  <1>2. ASSUME NEW e \in 1 .. emitted, start < e, e =< cursor
        PROVE  e \in handled \/ e \in poison
    <2>1. cursor # NoCursor
      BY <1>2 DEF LossInv, TypeOK, PlacesOK, NoCursor
    <2>2. e =< Standing
      BY <1>2, <2>1 DEF LossInv, CursorStands, Standing
    <2> QED
      BY <1>2, <2>2 DEF LossInv, OnlyPoisonLost
  <1> QED
    BY <1>1, <1>2 DEF OnlyPoisonLost, CursorStands

LEMMA LossStep == LossInv /\ [Next]_vars => LossInv'
  <1> SUFFICES ASSUME LossInv, [Next]_vars PROVE LossInv'
    OBVIOUS
  <1>1. TypeOK'
    BY TypeStep DEF LossInv
  <1>2. /\ emitted \in Nat /\ pos \in 0 .. emitted /\ start \in 0 .. emitted
        /\ cursor \in (0 .. emitted) \cup {NoCursor} /\ poison \subseteq 1 .. emitted
    BY DEF LossInv, TypeOK, PlacesOK
  <1>3. Standing \in Int /\ Standing =< emitted
    BY <1>2 DEF Standing, NoCursor
  <1> USE DEF LossInv
  <1>4. ASSUME UNCHANGED <<emitted, poison, phase, pos, cursor, handled, start>>
        PROVE  (OnlyPoisonLost /\ CursorStands)'
    BY <1>4 DEF OnlyPoisonLost, Standing, CursorStands
  <1>5. CASE UNCHANGED vars \/ SpeakAgain \/ FallSilent \/ Check \/ Tick
    BY <1>1, <1>4, <1>5 DEF vars, SpeakAgain, FallSilent, Check, Tick, link, position
  <1>6. CASE Emit
    <2>1. emitted' = emitted + 1 /\ poison \subseteq poison'
          /\ UNCHANGED <<phase, pos, cursor, handled, start>>
      BY <1>6 DEF Emit, link, position
    <2>2. Standing' = Standing
      BY <2>1 DEF Standing
    <2>3. OnlyPoisonLost'
      BY <1>2, <1>3, <2>1, <2>2 DEF OnlyPoisonLost
    <2> QED
      BY <1>1, <2>1, <2>3 DEF CursorStands
  <1>7. CASE Break \/ EndCleanly
    <2>1. phase' = "connecting" /\ UNCHANGED <<emitted, poison, cursor, handled, start>>
      BY <1>7 DEF Break, Reconnect, EndCleanly
    <2> QED
      BY <1>1, <2>1, KeepsPlace
  <1>8. CASE Connect
    <2>1. /\ phase = "connecting" /\ phase' = "consuming" /\ pos' = Resume
          /\ UNCHANGED <<emitted, poison, cursor, handled>>
          /\ start' = IF cursor = NoCursor THEN emitted ELSE start
      BY <1>8 DEF Connect, Attempting
    <2>2. CASE cursor = NoCursor
      <3>1. Standing' = emitted /\ start' = emitted
        BY <2>1, <2>2 DEF Standing, Resume
      <3>2. OnlyPoisonLost'
        BY <1>2, <2>1, <3>1 DEF OnlyPoisonLost
      <3> QED
        BY <1>1, <2>1, <2>2, <3>2 DEF CursorStands
    <2>3. CASE cursor # NoCursor
      <3>1. Standing' = Standing /\ pos' = cursor /\ start' = start
        BY <2>1, <2>3 DEF Standing, Resume
      <3>2. OnlyPoisonLost'
        BY <2>1, <3>1 DEF OnlyPoisonLost
      <3> QED
        BY <1>1, <2>1, <3>1, <3>2 DEF CursorStands
    <2> QED
      BY <2>2, <2>3
  <1>9. CASE Deliver
    <2>1. /\ phase = "consuming" /\ cursor' = pos + 1
          /\ UNCHANGED <<emitted, poison, start>>
          /\ pos + 1 \in poison \/ pos + 1 \in handled'
          /\ handled \subseteq handled'
      BY <1>9 DEF Deliver, MoveCursor
    <2>2. Standing' = pos + 1 /\ CursorStands'
      <3>1. CASE pos + 1 \in poison
        BY <1>9, <2>1, <3>1 DEF Deliver, Reconnect, Standing, CursorStands
      <3>2. CASE pos + 1 \notin poison
        BY <1>9, <2>1, <3>2 DEF Deliver, link, Standing, CursorStands
      <3> QED
        BY <3>1, <3>2
    <2>3. ASSUME NEW e \in 1 .. emitted, start < e, e =< pos + 1
          PROVE  e \in handled' \/ e \in poison
      <3>1. CASE e = pos + 1
        BY <2>1, <3>1
      <3>2. CASE e # pos + 1
        BY <1>2, <2>1, <2>3, <3>2 DEF OnlyPoisonLost, Standing
      <3> QED
        BY <3>1, <3>2
    <2> QED
      BY <1>1, <2>1, <2>2, <2>3 DEF OnlyPoisonLost
  <1>10. CASE Heartbeat
    <2>1. /\ phase = "consuming" /\ phase' = "consuming" /\ cursor' = pos
          /\ UNCHANGED <<emitted, poison, pos, handled, start>>
      BY <1>10 DEF Heartbeat, MoveCursor, link
    <2> QED
      BY <1>1, <2>1 DEF OnlyPoisonLost, Standing, CursorStands
  <1> QED
    BY <1>5, <1>6, <1>7, <1>8, <1>9, <1>10 DEF Next, Trouble, Consume

\* _handle and run(): from the first event asked for up to where the consumer
\* stands, only events whose own handling raises are missing from the set.
THEOREM NothingElseLost == Spec => []OnlyPoisonLost
  <1>1. Init => LossInv
    BY InitTypes DEF Init, LossInv, OnlyPoisonLost, CursorStands
  <1>2. LossInv => OnlyPoisonLost
    BY DEF LossInv
  <1> QED
    BY <1>1, <1>2, LossStep, PTL DEF Spec

-----------------------------------------------------------------------------
LEMMA RecoveryStep == RecoveryInv /\ [Next]_vars => RecoveryInv'
  <1> SUFFICES ASSUME RecoveryInv, [Next]_vars PROVE RecoveryInv'
    OBVIOUS
  <1>1. TypeOK'
    BY TypeStep DEF RecoveryInv
  <1>2. /\ pause \in 0 .. PauseMax /\ lag \in 0 .. LagMax /\ quiet \in 0 .. SilenceMax
        /\ nextCheck \in 0 .. CheckEvery /\ calm \in 0 .. CalmMax
        /\ phase \in {"connecting", "consuming"}
    BY DEF RecoveryInv, TypeOK, FlagsOK, ClocksOK
  <1>3. /\ pause' \in 0 .. PauseMax /\ lag' \in 0 .. LagMax /\ quiet' \in 0 .. SilenceMax
        /\ nextCheck' \in 0 .. CheckEvery /\ calm' \in 0 .. CalmMax
    BY <1>1 DEF TypeOK, ClocksOK
  <1> USE <1>2, <1>3, Periods
  <1>4. ASSUME UNCHANGED <<silent, phase, pause, connected, lag, quiet, stale,
                           nextCheck, calm>>
        PROVE  RecoveryInv'
    BY <1>1, <1>4 DEF RecoveryInv, SilentIsTrouble, AttemptSoon, HeardSoon, ConsumingIsUp,
                      CheckedSoon
  <1>5. ASSUME calm' = 0, ConsumingIsUp' PROVE RecoveryInv'
    <2>1. /\ pause' + calm' =< PauseMax
          /\ calm' =< PauseMax + quiet'
          /\ calm' =< PauseMax + SilenceMax + (CheckEvery - nextCheck')
      BY <1>5, NothingYet
    <2>2. SilentIsTrouble'
      BY <1>5 DEF SilentIsTrouble
    <2> QED
      BY <1>1, <1>5, <2>1, <2>2, Zenon
         DEF RecoveryInv, AttemptSoon, HeardSoon, CheckedSoon
  <1>6. CASE UNCHANGED vars \/ Emit
    BY <1>4, <1>6 DEF vars, Emit, link, stats
  <1>7. CASE SpeakAgain \/ FallSilent
    <2>1. UNCHANGED <<phase, connected>>
      BY <1>7 DEF SpeakAgain, FallSilent, stats
    <2>2. calm' = 0
      BY <1>7 DEF SpeakAgain, FallSilent, RecoveryInv, SilentIsTrouble
    <2> QED
      BY <1>5, <2>1, <2>2 DEF RecoveryInv, ConsumingIsUp
  <1>8. CASE Break \/ EndCleanly
    <2>1. phase' = "connecting" /\ calm' = 0
      BY <1>8 DEF Break, Reconnect, EndCleanly
    <2> QED
      BY <1>5, <2>1 DEF ConsumingIsUp
  <1>9. CASE Connect
    <2>1. /\ phase = "connecting" /\ phase' = "consuming" /\ quiet' = 0
          /\ UNCHANGED <<silent, pause, stale, nextCheck, calm>>
      BY <1>9 DEF Connect, Attempting
    <2>2. ConsumingIsUp'
      BY <1>9 DEF Connect, ConsumingIsUp
    <2>3. HeardSoon' /\ AttemptSoon'
      BY <2>1 DEF RecoveryInv, AttemptSoon, HeardSoon
    <2>4. SilentIsTrouble' /\ CheckedSoon'
      BY <2>1 DEF RecoveryInv, SilentIsTrouble, CheckedSoon
    <2> QED
      BY <1>1, <2>2, <2>3, <2>4 DEF RecoveryInv
  <1>10. ASSUME phase = "consuming", lag' = 0,
                UNCHANGED <<silent, phase, connected, stale, nextCheck, calm>>
         PROVE  RecoveryInv'
    <2>1. lag' =< quiet' /\ phase' # "connecting"
      BY <1>10
    <2>2. SilentIsTrouble' /\ CheckedSoon' /\ ConsumingIsUp'
      BY <1>10 DEF RecoveryInv, SilentIsTrouble, CheckedSoon, ConsumingIsUp
    <2> QED
      BY <1>1, <2>1, <2>2, Zenon DEF RecoveryInv, HeardSoon, AttemptSoon
  <1>11. CASE Deliver
    <2>1. phase = "consuming" /\ lag' = 0 /\ UNCHANGED <<stale, nextCheck>>
      BY <1>11 DEF Deliver
    <2>2. CASE Reconnect
      BY <1>5, <2>2 DEF Reconnect, ConsumingIsUp
    <2>3. CASE UNCHANGED <<link, connected, calm>>
      BY <1>10, <2>1, <2>3 DEF link
    <2> QED
      BY <1>11, <2>2, <2>3 DEF Deliver
  <1>12. CASE Heartbeat
    BY <1>10, <1>12 DEF Heartbeat, Heard, link
  <1>13. CASE Check
    <2>1. nextCheck' = CheckEvery
          /\ UNCHANGED <<silent, phase, pause, connected, lag, quiet, calm>>
      BY <1>13 DEF Check, link, stats
    <2>2. stale' => ~ connected \/ lag > StaleAfter
      BY <1>13, Zenon DEF Check, Unhealthy
    <2>3. stale' => calm =< PauseMax + SilenceMax
      <3>1. CASE phase = "connecting"
        BY <3>1 DEF RecoveryInv, AttemptSoon
      <3>2. CASE phase = "consuming"
        <4>1. stale' => lag > StaleAfter
          BY <2>2, <3>2 DEF RecoveryInv, ConsumingIsUp
        <4>2. lag =< quiet \/ calm =< PauseMax + quiet
          BY <3>2 DEF RecoveryInv, HeardSoon
        <4> QED
          BY <4>1, <4>2, TimesAssumption
      <3> QED
        BY <3>1, <3>2
    <2>4. CheckedSoon'
      BY <2>1, <2>3 DEF CheckedSoon
    <2>5. SilentIsTrouble' /\ AttemptSoon' /\ HeardSoon' /\ ConsumingIsUp'
      BY <2>1 DEF RecoveryInv, SilentIsTrouble, AttemptSoon, HeardSoon, ConsumingIsUp
    <2> QED
      BY <1>1, <2>4, <2>5 DEF RecoveryInv
  <1>14. CASE Tick
    <2>1. nextCheck' = nextCheck - 1 /\ UNCHANGED <<phase, silent, connected, stale>>
      BY <1>14 DEF Tick
    <2>2. ConsumingIsUp'
      BY <2>1 DEF RecoveryInv, ConsumingIsUp
    <2>3. CASE silent
      <3>1. calm' = 0
        BY <1>14, <2>3, Zenon DEF Tick
      <3> QED
        BY <1>5, <2>2, <3>1
    <2>4. CASE ~ silent
      <3>1. calm' = Later(calm, CalmMax)
        BY <1>14, <2>4, Zenon DEF Tick
      <3>2. calm' =< calm + 1
        BY <3>1, LaterBounded
      <3>3. lag' =< lag + 1
        BY <1>14, LaterBounded DEF Tick
      <3>4. phase = "connecting" => pause > 0 /\ pause' = pause - 1
        BY <1>14, <2>4 DEF Tick
      <3>5. phase = "consuming" => quiet' = quiet + 1
        BY <1>14, <2>4 DEF Tick, Later
      <3>6. AttemptSoon'
        <4>1. phase = "connecting" => pause' + calm' =< PauseMax
          <5> SUFFICES ASSUME phase = "connecting" PROVE pause' + calm' =< PauseMax
            OBVIOUS
          <5>1. pause + calm =< PauseMax /\ pause' = pause - 1
            BY <3>4 DEF RecoveryInv, AttemptSoon
          <5>2. pause \in Nat /\ calm \in Nat /\ calm' \in Nat
            OBVIOUS
          <5>3. (pause - 1) + calm' =< PauseMax
            BY <3>2, <5>1, <5>2, PauseRunsOut
          <5> QED
            BY <5>1, <5>3, Zenon
        <4> QED
          BY <2>1, <4>1 DEF AttemptSoon
      <3>7. HeardSoon'
        BY <2>1, <3>2, <3>3, <3>5 DEF RecoveryInv, HeardSoon
      <3>8. CheckedSoon'
        BY <2>1, <3>2 DEF RecoveryInv, CheckedSoon
      <3>9. SilentIsTrouble'
        BY <2>1, <2>4 DEF SilentIsTrouble
      <3> QED
        BY <1>1, <2>2, <3>6, <3>7, <3>8, <3>9 DEF RecoveryInv
    <2> QED
      BY <2>3, <2>4
  <1> QED
    BY <1>6, <1>7, <1>8, <1>9, <1>11, <1>12, <1>13, <1>14 DEF Next, Trouble, Consume

\* run(), _handle and _watch_stream_health: for any periods, once nothing has
\* gone wrong for the longest pause, one heartbeat and one check, the set is
\* trusted, whatever had happened before.
THEOREM Recovers == Spec => []RecoversInTime
  <1>1. Init => RecoveryInv
    BY InitTypes, Periods
       DEF Init, RecoveryInv, SilentIsTrouble, AttemptSoon, HeardSoon, ConsumingIsUp,
           CheckedSoon
  <1>2. RecoveryInv => RecoversInTime
    BY Periods DEF RecoveryInv, TypeOK, ClocksOK, CheckedSoon, RecoversInTime, TrustedAfter
  <1> QED
    BY <1>1, <1>2, RecoveryStep, PTL DEF Spec
=============================================================================
