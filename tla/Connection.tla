----------------------------- MODULE Connection -----------------------------
(***************************************************************************)
(* One gateway connection: the heartbeat of Heartbeater shares the         *)
(* allowance of SendQueue with the commands that wait in it, through       *)
(* ShardConnection.#sendHeartbeat of packages/gateway/src/connection/      *)
(* ShardConnection.ts.                                                     *)
(***************************************************************************)
EXTENDS SendQueue, Heartbeater, FiniteSets

CONSTANT MaxAsked   \* bound: beats the peer asks for

ASSUME ConnectionAssumption == MaxAsked \in Nat

VARIABLES
  greeted,   \* Hello has arrived
  asked      \* history: how often the peer asked for a beat

connectionVars == <<vars, beatVars, greeted, asked>>

ConnectionInit == Init /\ BeatInit /\ greeted = FALSE /\ asked = 0

Command ==
  /\ \E c \in Senders : Acquire(c) \/ Abort(c) \/ Rejected(c) \/ Turn(c)
  /\ UNCHANGED <<beatVars, greeted, asked>>

Hello ==
  /\ ~greeted
  /\ greeted' = TRUE
  /\ \E jitter \in 0 .. Interval - 1 : Start(jitter)
  /\ UNCHANGED <<vars, asked>>

\* #sendHeartbeat: without a slot the beat is dropped and nobody is told but onError.
TakeSlot(sent) ==
  \/ sent /\ Heartbeat
  \/ ~sent /\ Delay(ring, Limit, now) > 0 /\ UNCHANGED vars

RequestedBeat(sent) ==
  /\ asked < MaxAsked
  /\ asked' = asked + 1
  /\ BeatNow(sent) /\ TakeSlot(sent)
  /\ UNCHANGED greeted

ScheduledBeat(sent) ==
  /\ PeriodicBeat(sent) /\ TakeSlot(sent)
  /\ UNCHANGED <<greeted, asked>>

\* The steps of the heartbeat that send nothing.
Quiet ==
  /\ Ack \/ GiveUp \/ Postpone \/ Stop \/ PeerGone
  /\ UNCHANGED <<vars, greeted, asked>>

\* One clock for the queue and the heartbeat.
Elapse ==
  /\ Tick
  /\ BeatTick
  /\ UNCHANGED <<greeted, asked>>

ConnectionNext ==
  \/ Command \/ Hello \/ Quiet \/ Elapse
  \/ \E sent \in BOOLEAN : RequestedBeat(sent) \/ ScheduledBeat(sent)

ConnectionSpec == ConnectionInit /\ [][ConnectionNext]_connectionVars

-----------------------------------------------------------------------------
ConnectionTypeOK ==
  /\ TypeOK /\ BeatTypeOK
  /\ greeted \in BOOLEAN /\ asked \in 0 .. MaxAsked
  /\ timing => greeted

\* The allowance of the ring that commands and beats share is never breached, and its
\* reserve is there for a beat.
Allowance == WindowRespected /\ BeatFindsSlot

\* A peer is given up only for a reason, a silent one in time, and none waits for beats.
Liveliness == HealthyIsKept /\ SilenceIsFound /\ NeverStarved

\* The periodic beats of one window.
BeatsPerWindow == (Window + Interval - 1) \div Interval

\* "Without that reserve, a burst of presence updates delays a heartbeat ... the shard
\* correctly diagnoses a zombie, reconnects, and repeats": commands alone never cost a
\* beat, nor a peer that answers its connection.  Only more requested beats than the
\* reserve has left beside the periodic ones can.
CommandsNeverKill ==
  asked + BeatsPerWindow <= Reserve => ~refused /\ (zombie => gone)

-----------------------------------------------------------------------------
(* What makes it inductive: all beats of the log but those that were asked *)
(* for are an interval apart, and so is the next one from the last.        *)

Beats == {i \in DOMAIN log : log[i].beat}

Periodic(P) ==
  /\ P \subseteq Beats /\ Cardinality(Beats \ P) <= asked
  /\ \A i, j \in P : i < j => log[j].at >= log[i].at + Interval
  /\ timing => \A i \in P : log[i].at + Interval <= now + due

ReserveInv ==
  /\ \E P \in SUBSET DOMAIN log : Periodic(P)
  /\ ~greeted => Cardinality(Beats) <= asked
  /\ CommandsNeverKill
=============================================================================
