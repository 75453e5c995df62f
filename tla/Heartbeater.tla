---------------------------- MODULE Heartbeater ----------------------------
(***************************************************************************)
(* The heartbeat of one connection and the peer that acknowledges it:      *)
(* packages/gateway/src/connection/Heartbeater.ts.  Times are ticks from   *)
(* now, so that a connection may live for ever; timers fire when due.      *)
(***************************************************************************)
EXTENDS Naturals

CONSTANTS
  Interval,   \* heartbeat_interval of Hello
  Rtt         \* the longest an acknowledgement takes

ASSUME HeartbeatAssumption == Interval \in Nat \ {0} /\ Rtt \in Nat /\ Rtt < Interval

VARIABLES
  stopped,    \* #stopped, which is false before start() too
  timing,     \* #handle is not null: the timer runs, from start() to stop()
  due,        \* ticks until #onTimer
  awaiting,   \* #awaitingAck
  age,        \* ticks since #lastBeatAt, or since start(): nobody reads it before
  acks,       \* ticks until each acknowledgement in flight arrives
  gone,       \* the peer has fallen silent
  silent,     \* history: ticks since then, while the timer runs
  refused,    \* history: whether a beat found no slot; start() forgets
  zombie      \* whether onZombie was called

beatVars ==
  <<stopped, timing, due, awaiting, age, acks, gone, silent, refused, zombie>>

BeatInit ==
  /\ stopped = FALSE /\ timing = FALSE /\ due = 0 /\ awaiting = FALSE /\ age = 0
  /\ acks = {} /\ gone = FALSE /\ silent = 0 /\ refused = FALSE /\ zombie = FALSE

\* Hello; the first beat of the timer alone is jittered.  Whatever beat the peer
\* asked for before is not waited for any more.  A close() is undone by it, but a
\* connection that was given up is disposed of.
Start(jitter) ==
  /\ ~timing /\ ~gone /\ ~zombie
  /\ stopped' = FALSE /\ timing' = TRUE /\ due' = jitter
  /\ awaiting' = FALSE /\ age' = 0 /\ silent' = 0 /\ refused' = FALSE
  /\ UNCHANGED <<acks, gone, zombie>>

NotAwaited == awaiting' = FALSE /\ age' = 0
Awaited == awaiting' = TRUE /\ age' = 0

\* A beat is on its way, and so will its acknowledgement be, or it found no slot.
Beat(sent) ==
  /\ Awaited
  /\ refused' = (refused \/ ~sent)
  /\ \/ sent /\ ~gone /\ \E d \in 0 .. Rtt : acks' = acks \cup {d}
     \/ (gone \/ ~sent) /\ UNCHANGED acks

\* Opcode 1: the peer asks for a beat, also before Hello.  The timer is left alone.
BeatNow(sent) ==
  /\ ~stopped /\ ~gone
  /\ Beat(sent)
  /\ UNCHANGED <<stopped, timing, due, gone, silent, zombie>>

Ack ==
  /\ 0 \in acks
  /\ acks' = acks \ {0}
  /\ awaiting' = (awaiting /\ stopped)
  /\ UNCHANGED <<stopped, timing, due, age, gone, silent, refused, zombie>>

OutstandingTooLong == age >= Interval

\* #onTimer, in its three cases.
Due == timing /\ due = 0

GiveUp ==
  /\ Due /\ awaiting /\ OutstandingTooLong
  /\ stopped' = TRUE /\ timing' = FALSE /\ awaiting' = FALSE /\ zombie' = TRUE
  /\ UNCHANGED <<due, age, acks, gone, silent, refused>>

ScheduleRest == due' = Interval - age

Postpone ==
  /\ Due /\ awaiting /\ ~OutstandingTooLong
  /\ ScheduleRest
  /\ UNCHANGED <<stopped, timing, awaiting, age, acks, gone, silent, refused, zombie>>

PeriodicBeat(sent) ==
  /\ Due /\ ~awaiting
  /\ Beat(sent)
  /\ due' = Interval
  /\ UNCHANGED <<stopped, timing, gone, silent, zombie>>

\* The connection is closed or disposed of.
Stop ==
  /\ ~stopped
  /\ stopped' = TRUE /\ timing' = FALSE /\ awaiting' = FALSE
  /\ UNCHANGED <<due, age, acks, gone, silent, refused, zombie>>

\* The peer vanishes, with the acknowledgements it had yet to send.
PeerGone ==
  /\ ~gone
  /\ gone' = TRUE /\ acks' = {}
  /\ UNCHANGED <<stopped, timing, due, awaiting, age, silent, refused, zombie>>

\* Nothing that is due waits for the next tick.
BeatTick ==
  /\ timing => due > 0
  /\ 0 \notin acks
  /\ due' = IF timing THEN due - 1 ELSE due
  /\ age' = age + 1
  /\ acks' = {d - 1 : d \in acks}
  /\ silent' = IF timing /\ gone THEN silent + 1 ELSE silent
  /\ UNCHANGED <<stopped, timing, awaiting, gone, refused, zombie>>

BeatNext ==
  \/ \E jitter \in 0 .. Interval - 1 : Start(jitter)
  \/ \E sent \in BOOLEAN : BeatNow(sent) \/ PeriodicBeat(sent)
  \/ Ack \/ GiveUp \/ Postpone \/ Stop \/ PeerGone \/ BeatTick

BeatSpec == BeatInit /\ [][BeatNext]_beatVars

-----------------------------------------------------------------------------
BeatTypeOK ==
  /\ stopped \in BOOLEAN /\ timing \in BOOLEAN /\ awaiting \in BOOLEAN /\ gone \in BOOLEAN
  /\ refused \in BOOLEAN /\ zombie \in BOOLEAN
  /\ due \in 0 .. Interval /\ age \in Nat /\ silent \in Nat
  /\ acks \in SUBSET (0 .. Rtt)

\* A peer that answers within the interval is never abandoned, however its
\* requests for beats fall between the periodic ones, or before Hello: "a healthy
\* socket was abandoned and a resume spent".
HealthyIsKept == zombie => gone \/ refused

\* A peer that vanished is found out within two intervals, although nothing but
\* missing acknowledgements tells.
SilenceIsFound == timing => silent <= 2 * Interval

\* "a burst of requested beats can neither starve the periodic cadence": the peer
\* never waits longer than one interval for a beat, from Hello on.
NeverStarved == timing => age <= Interval

-----------------------------------------------------------------------------
(* What makes them inductive: the timer is never set beyond the moment the *)
(* last beat has been out for a whole interval, and the acknowledgement    *)
(* that is awaited is in flight until the peer goes, and then none is.     *)

BeatInv ==
  timing =>
    /\ ~stopped
    /\ age + due <= Interval
    /\ awaiting /\ ~gone /\ ~refused => \E d \in acks : d + age <= Rtt
    /\ gone => acks = {}
    /\ gone => silent <= (IF awaiting THEN age + Interval ELSE Interval - due)
    /\ ~gone => silent = 0
=============================================================================
