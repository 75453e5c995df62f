----------------------------- MODULE SendQueue -----------------------------
(***************************************************************************)
(* The pacing of gateway commands on one connection:                       *)
(* packages/gateway/src/connection/SendQueue.ts, with the commands of      *)
(* ShardConnection.send and the beats of ShardConnection.#sendHeartbeat.   *)
(***************************************************************************)
EXTENDS SlidingWindow, SequencesExt

CONSTANTS
  Reserve,      \* options.heartbeatReserve
  Senders,      \* commands that may wait at once
  SendTimeout,  \* options.sendTimeout; more than Window stands for null
  MaxTime,      \* bound: the clock
  MaxSends      \* bound: sends recorded

ASSUME QueueAssumption ==
  Reserve \in 0 .. Limit - 1 /\ SendTimeout \in Nat /\ MaxTime \in Nat /\ MaxSends \in Nat

VARIABLES
  now,
  ring,      \* #sent, #next and #count
  line,      \* acquire() calls in the order of their promises; the first one runs
  wake,      \* when the first one's sleep ends
  aborted,   \* whose signal has aborted
  log        \* history: every send, with its time and whether it was a beat

vars == <<now, ring, line, wake, aborted, log>>

Init ==
  /\ now = 0 /\ ring = EmptyRing /\ line = <<>> /\ wake = 0 /\ aborted = {}
  /\ log = <<>>

Record(beat) ==
  /\ Len(log) < MaxSends
  /\ ring' = Recorded(ring, now)
  /\ log' = Append(log, [at |-> now, beat |-> beat])

Acquire(c) ==
  /\ ~Contains(line, c)
  /\ line' = Append(line, c)
  /\ UNCHANGED <<now, ring, wake, aborted, log>>

Abort(c) ==
  /\ Contains(line, c)
  /\ aborted' = aborted \cup {c}
  /\ UNCHANGED <<now, ring, line, wake, log>>

\* The finally: whoever is next goes on.
Done(c) ==
  /\ line' = Tail(line)
  /\ wake' = 0
  /\ aborted' = aborted \ {c}

\* An aborted signal is noticed at the head of the line or in its sleep.
Rejected(c) ==
  /\ line # <<>> /\ Head(line) = c /\ c \in aborted
  /\ Done(c)
  /\ UNCHANGED <<now, ring, log>>

UsableWithReserve == Limit
Usable == Limit - Reserve

\* One turn of the loop, at the first time round or when the sleep is over.
Turn(c) ==
  LET delay == Delay(ring, Usable, now)
  IN /\ line # <<>> /\ Head(line) = c /\ c \notin aborted /\ wake <= now
     /\ UNCHANGED now
     /\ \/ delay = 0 /\ Record(FALSE) /\ Done(c)
        \/ delay > SendTimeout /\ Done(c) /\ UNCHANGED <<ring, log>>
        \/ /\ delay > 0 /\ delay <= SendTimeout
           /\ wake' = now + delay
           /\ UNCHANGED <<ring, line, aborted, log>>

\* tryTakeHeartbeatSlot: a beat that finds no slot is dropped.
Heartbeat ==
  /\ Delay(ring, Limit, now) = 0
  /\ Record(TRUE)
  /\ UNCHANGED <<now, line, wake, aborted>>

Tick ==
  /\ now < MaxTime
  /\ now' = now + 1
  /\ UNCHANGED <<ring, line, wake, aborted, log>>

Next ==
  \/ \E c \in Senders : Acquire(c) \/ Abort(c) \/ Rejected(c) \/ Turn(c)
  \/ Heartbeat
  \/ Tick

Spec == Init /\ [][Next]_vars

-----------------------------------------------------------------------------
Entries == [at : Nat, beat : BOOLEAN]

TypeOK ==
  /\ now \in Nat /\ ring \in Rings /\ line \in Seq(Senders) /\ wake \in Nat
  /\ aborted \subseteq Senders /\ log \in Seq(Entries)

\* Never more than the limit in any window, "sliding", commands and beats taken
\* together, whatever waits, aborts or times out in between: the gateway closes
\* the connection on the first breach.
WindowRespected == Spaced(log)

\* Commands leave the reserve alone: when a beat finds no slot, the last Reserve
\* sends were all beats of the current window.
BeatFindsSlot ==
  Delay(ring, Limit, now) > 0 =>
    \A i \in Len(log) - Reserve + 1 .. Len(log) :
      i \in DOMAIN log /\ log[i].beat /\ log[i].at + Window > now

-----------------------------------------------------------------------------
(* What makes them inductive: the ring is the end of the log, and commands  *)
(* are spaced as if the limit were lower.                                   *)

LogInv ==
  /\ RingHolds(ring, log)
  /\ \A i, j \in 1 .. Len(log) : i <= j => log[i].at <= log[j].at
  /\ \A i \in 1 .. Len(log) : log[i].at <= now
CommandsSpaced ==
  \A i \in 1 .. Len(log) - Usable :
    ~log[i + Usable].beat => log[i + Usable].at >= log[i].at + Window
WindowInv == LogInv /\ CommandsSpaced /\ WindowRespected
=============================================================================
