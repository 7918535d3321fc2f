---------------------------- MODULE StreamHealth ----------------------------
(***************************************************************************)
(* One worker's stream consumer against time (opencti/stream.py), and the  *)
(* watcher that decides from its statistics whether lookups may trust the  *)
(* membership set (main.py, SplitBackend.stream_health).                   *)
(*                                                                         *)
(* What an event does to the set is in MembershipSync; here an event is    *)
(* handled whole, or its handling raises and it is lost. Time is discrete: *)
(* a Tick is the unit of all periods, and what happens between two ticks   *)
(* takes no time.                                                          *)
(***************************************************************************)
EXTENDS Integers

CONSTANTS
  StaleAfter,   \* stream_stale_after_s
  CheckEvery,   \* the sleep of _watch_stream_health
  BackoffMax,   \* the longest backoff of run(), before the jitter
  SilenceMax,   \* OpenCTI sends something, a heartbeat if nothing else, within this time
  MaxEvents     \* bound: events OpenCTI emits

\* That OpenCTI is heard of within StaleAfter on a good connection is up to who
\* configures the service: config.py checks no period against another.
ASSUME TimesAssumption ==
  /\ CheckEvery \in Nat \ {0} /\ BackoffMax \in Nat \ {0}
  /\ SilenceMax \in Nat \ {0}
  /\ StaleAfter \in Nat /\ SilenceMax =< StaleAfter
ASSUME EventsAssumption == MaxEvents \in Nat

VARIABLES
  emitted,     \* OpenCTI: how many events its stream has
  poison,      \* the events whose handling raises
  phase,       \* of run(): "connecting" (or asleep before that), "consuming"
  silent,      \* nothing comes back on the connection, open or being opened
  pause,       \* time left of the sleep before the next attempt
  backoff,     \* run()'s local variable
  connected,   \* StreamStats.connected
  lag,         \* StreamStats.activity_lag_s
  quiet,       \* time since the open connection has brought anything
  pos,         \* the event the open connection has delivered up to
  cursor,      \* StreamConsumer._cursor, NoCursor before the first id
  handled,     \* the events the set reflects
  stale,       \* SplitBackend._stale
  nextCheck,   \* time until the watcher wakes up
  start,       \* ghost: the event before the first one asked for
  down,        \* ghost: how long connected has been FALSE
  calm         \* ghost: time since anything went wrong

link == <<phase, silent, pause, backoff>>
stats == <<connected, lag>>
position == <<pos, cursor, handled, start>>
vars == <<emitted, poison, phase, silent, pause, backoff, connected, lag, quiet,
          pos, cursor, handled, stale, nextCheck, start, down, calm>>

NoCursor == -1

\* The delay is 0.5 to 1.5 times the backoff.
PauseMax == (3 * BackoffMax) \div 2
Delays == {d \in 1 .. PauseMax : 2 * d >= backoff /\ 2 * d < 3 * backoff}

\* The longest time after which a silent or a lost stream is noticed, and that
\* after which an undisturbed one is trusted again.
NoticedAfter == StaleAfter + CheckEvery
TrustedAfter == PauseMax + SilenceMax + CheckEvery

\* Clocks need not count further than this.
LagMax == NoticedAfter + 1
DownMax == CheckEvery + 1
CalmMax == TrustedAfter + 1
Later(clock, max) == IF clock < max THEN clock + 1 ELSE max

FlagsOK ==
  /\ phase \in {"connecting", "consuming"}
  /\ silent \in BOOLEAN /\ connected \in BOOLEAN /\ stale \in BOOLEAN
PlacesOK ==
  /\ emitted \in 0 .. MaxEvents /\ poison \subseteq 1 .. emitted
  /\ pos \in 0 .. emitted /\ start \in 0 .. emitted
  /\ cursor \in (0 .. emitted) \cup {NoCursor}
  /\ handled \subseteq 1 .. emitted
ClocksOK ==
  /\ pause \in 0 .. PauseMax /\ backoff \in 1 .. BackoffMax
  /\ lag \in 0 .. LagMax /\ quiet \in 0 .. SilenceMax
  /\ nextCheck \in 0 .. CheckEvery
  /\ down \in 0 .. DownMax /\ calm \in 0 .. CalmMax
TypeOK == FlagsOK /\ PlacesOK /\ ClocksOK

\* _activate has wired up the set, the consumer and the watcher: the set is
\* trusted though the stream is not connected yet.
Init ==
  /\ emitted = 0 /\ poison = {}
  /\ phase = "connecting" /\ silent = FALSE /\ pause = 0 /\ backoff = 1
  /\ connected = FALSE /\ lag = 0 /\ quiet = 0
  /\ pos = 0 /\ cursor = NoCursor /\ handled = {}
  /\ stale = FALSE /\ nextCheck = CheckEvery
  /\ start = 0 /\ down = 0 /\ calm = 0

-----------------------------------------------------------------------------
(* OpenCTI and the network *)

Emit ==
  /\ emitted < MaxEvents
  /\ emitted' = emitted + 1
  /\ \E raises \in BOOLEAN :
       poison' = IF raises THEN poison \cup {emitted'} ELSE poison
  /\ UNCHANGED <<link, stats, quiet, position, stale, nextCheck, down, calm>>

\* Somebody at the other end, or in between, goes quiet without closing the
\* connection: also a request for the stream may hang like this.
Attempting == phase = "connecting" /\ pause = 0
FallSilent ==
  /\ ~ silent
  /\ phase = "consuming" \/ Attempting
  /\ silent' = TRUE /\ calm' = 0
  /\ UNCHANGED <<emitted, poison, phase, pause, backoff, stats, quiet, position,
                 stale, nextCheck, down>>

SpeakAgain ==
  /\ silent
  /\ silent' = FALSE
  /\ quiet' = 0
  /\ UNCHANGED <<emitted, poison, phase, pause, backoff, stats, position, stale,
                 nextCheck, down, calm>>

-----------------------------------------------------------------------------
(* StreamConsumer *)

\* Another attempt resumes behind the cursor; without one the stream begins
\* with what OpenCTI emits next.
ResumeAtEnd == emitted                 \* mutant: the cursor is not sent
Resume == IF cursor = NoCursor THEN emitted ELSE cursor

Connect ==
  /\ Attempting /\ ~ silent
  /\ phase' = "consuming"
  /\ connected' = TRUE /\ down' = 0
  /\ quiet' = 0
  /\ pos' = Resume
  /\ start' = IF cursor = NoCursor THEN emitted ELSE start
  /\ UNCHANGED <<emitted, poison, silent, pause, backoff, lag, cursor, handled,
                 stale, nextCheck, calm>>

\* run(): whatever _consume_once raises. The backoff doubles, and only a clean
\* end of a response resets it, never a connection that has worked for long.
Doubled == 2 * backoff                 \* mutant: no limit
NextBackoff == IF 2 * backoff > BackoffMax THEN BackoffMax ELSE 2 * backoff
Reconnect ==
  /\ connected' = FALSE
  /\ phase' = "connecting" /\ silent' = FALSE
  /\ pause' \in Delays
  /\ backoff' = NextBackoff
  /\ quiet' = 0 /\ pos' = 0
  /\ calm' = 0

\* A refused or failed attempt, or an open connection that breaks.
Break ==
  /\ phase = "consuming" \/ Attempting
  /\ Reconnect
  /\ UNCHANGED <<emitted, poison, lag, cursor, handled, stale, nextCheck, start, down>>

\* The response ends: nothing is raised, connected stays TRUE, and the next
\* attempt is made at once.
EndCleanly ==
  /\ phase = "consuming" /\ ~ silent
  /\ phase' = "connecting" /\ backoff' = 1
  /\ quiet' = 0 /\ pos' = 0 /\ calm' = 0
  /\ UNCHANGED <<emitted, poison, silent, pause, stats, cursor, handled, stale,
                 nextCheck, start, down>>

\* _handle: the cursor moves and the traffic counts before the event is looked
\* at, so that an event which raises is not asked for again.
MoveCursorLast(e) ==                   \* mutant: the cursor follows the event
  cursor' = IF e \in poison THEN cursor ELSE e
MoveCursor(e) == cursor' = e

LastEventOnly == lag                   \* mutant: heartbeats do not count
Heard == 0

Deliver ==
  /\ phase = "consuming" /\ ~ silent /\ pos < emitted
  /\ MoveCursor(pos + 1)
  /\ lag' = 0
  /\ IF pos + 1 \in poison
       THEN Reconnect /\ UNCHANGED handled
       ELSE /\ handled' = handled \cup {pos + 1}
            /\ pos' = pos + 1 /\ quiet' = 0
            /\ UNCHANGED <<link, connected, calm>>
  /\ UNCHANGED <<emitted, poison, stale, nextCheck, start, down>>

\* A heartbeat, or any other event without an effect, once the backlog is out.
Heartbeat ==
  /\ phase = "consuming" /\ ~ silent /\ pos = emitted
  /\ MoveCursor(pos)
  /\ lag' = Heard
  /\ quiet' = 0
  /\ UNCHANGED <<emitted, poison, link, connected, pos, handled, stale, nextCheck,
                 start, down, calm>>

-----------------------------------------------------------------------------
(* The watcher, and time *)

ConnectedOnly == ~ connected           \* mutant: a silent stream is trusted
Unhealthy == ~ connected \/ lag > StaleAfter

Check ==
  /\ nextCheck = 0
  /\ stale' = Unhealthy
  /\ nextCheck' = CheckEvery
  /\ UNCHANGED <<emitted, poison, link, stats, quiet, position, down, calm>>

\* Unless the other end has gone silent, an attempt ends and traffic comes
\* within its time.
Tick ==
  /\ nextCheck > 0
  /\ silent \/ IF phase = "consuming" THEN quiet < SilenceMax ELSE pause > 0
  /\ nextCheck' = nextCheck - 1
  /\ pause' = IF pause > 0 THEN pause - 1 ELSE 0
  /\ lag' = Later(lag, LagMax)
  /\ quiet' = IF phase = "consuming" THEN Later(quiet, SilenceMax) ELSE 0
  /\ down' = IF connected THEN 0 ELSE Later(down, DownMax)
  /\ calm' = IF silent THEN 0 ELSE Later(calm, CalmMax)
  /\ UNCHANGED <<emitted, poison, phase, silent, backoff, connected, position, stale>>

Consume == Connect \/ Deliver \/ Heartbeat
Trouble == FallSilent \/ Break \/ EndCleanly

Next == Emit \/ SpeakAgain \/ Trouble \/ Consume \/ Check \/ Tick

Spec == Init /\ [][Next]_vars

\* The event loop runs what is ready and time passes; nothing is promised
\* about OpenCTI and the network.
FairSpec == Spec /\ WF_vars(Connect) /\ WF_vars(Deliver) /\ WF_vars(Heartbeat)
                 /\ WF_vars(Check) /\ WF_vars(Tick)
-----------------------------------------------------------------------------
(* Safety *)

\* However a stream dies - refused, broken, hung while it was opened, closed
\* by the other end again and again, or gone silent on an open connection that
\* nobody reopens - a set that is still trusted has heard of OpenCTI within
\* StaleAfter and one check, and has been without a connection for at most one
\* check. After that every lookup goes to OpenCTI.
TrustIsRecent == ~ stale => lag =< NoticedAfter /\ down =< CheckEvery

\* The other way round: however often and however long the stream has failed
\* before, once nothing goes wrong the set is trusted again within the longest
\* pause, one heartbeat and one check, also if OpenCTI has nothing to report.
RecoversInTime == calm > TrustedAfter => ~ stale

\* Every event from the first one asked for up to where the consumer stands is
\* in the set, unless its own handling has raised: broken connections, clean
\* ends, replays and events that raise lose no other event. (A connection lost
\* before its first id is forgotten: the next one asks from where it begins.)
Standing == IF phase = "consuming" THEN pos ELSE cursor
OnlyPoisonLost ==
  \A e \in 1 .. emitted : (start < e /\ e =< Standing) => (e \in handled \/ e \in poison)

(* Liveness *)

\* Once the network is good, the consumer works through its backlog, events
\* that raise included, and the set is trusted for good.
Good == <>[][~ Trouble]_vars /\ <>[](~ silent)
CatchesUp == Good => <>[](~ stale /\ phase = "consuming" /\ pos = emitted)
=============================================================================
