------------------------- MODULE IdentifyThrottler -------------------------
(***************************************************************************)
(* Who may identify when: packages/gateway/src/session/                    *)
(* IdentifyThrottler.ts, called by sendIdentify of ShardHandshake.ts.      *)
(***************************************************************************)
EXTENDS Integers, SequencesExt

CONSTANTS
  Connections,
  ShardOf,         \* the shard of each connection
  MaxConcurrency,  \* max_concurrency of GET /gateway/bot
  IdentifyWindow,  \* IDENTIFY_WINDOW_MS
  Early,           \* by how much the clock may run behind a timer that fires
  MaxClock,        \* bound: the clock
  MaxGrants        \* bound: grants per bucket

ASSUME ThrottlerAssumption ==
  /\ MaxConcurrency \in Nat \ {0} /\ ShardOf \in [Connections -> Nat]
  /\ IdentifyWindow \in Nat /\ Early \in Nat /\ Early <= IdentifyWindow

VARIABLES
  clock,
  line,       \* waitForIdentify() calls of each bucket in the order of its #tails
  sleepEnds,  \* when the first one's sleep ends, or Awake
  freeAt,     \* #freeAt
  aborted,    \* whose signal has aborted
  grants      \* history: when each bucket let someone identify

throttlerVars == <<clock, line, sleepEnds, freeAt, aborted, grants>>

Buckets == 0 .. MaxConcurrency - 1
Bucket(c) == ShardOf[c] % MaxConcurrency
Awake == -1

ThrottlerInit ==
  /\ clock = 0
  /\ line = [b \in Buckets |-> <<>>] /\ sleepEnds = [b \in Buckets |-> Awake]
  /\ freeAt = [b \in Buckets |-> 0]
  /\ aborted = {} /\ grants = [b \in Buckets |-> <<>>]

WaitForIdentify(c) ==
  /\ ~Contains(line[Bucket(c)], c)
  /\ line' = [line EXCEPT ![Bucket(c)] = Append(@, c)]
  /\ UNCHANGED <<clock, sleepEnds, freeAt, aborted, grants>>

AbortWait(c) ==
  /\ Contains(line[Bucket(c)], c)
  /\ aborted' = aborted \cup {c}
  /\ UNCHANGED <<clock, line, sleepEnds, freeAt, grants>>

FirstInLine(c) == line[Bucket(c)] # <<>> /\ Head(line[Bucket(c)]) = c

\* The finally, of the first in line: release() lets the one behind it go on.
Done(c) ==
  /\ line' = [line EXCEPT ![Bucket(c)] = Tail(@)]
  /\ sleepEnds' = [sleepEnds EXCEPT ![Bucket(c)] = Awake]
  /\ aborted' = aborted \ {c}

Rejected(c) ==
  /\ FirstInLine(c) /\ c \in aborted
  /\ Done(c)
  /\ UNCHANGED <<clock, freeAt, grants>>

FromNow(b) == clock
FromSchedule(b) == IF clock > freeAt[b] THEN clock ELSE freeAt[b]

\* The bucket is taken, and the Identify goes out, unless its connection was disposed
\* of: sendIdentify passes no signal, so that such a wait takes its turn all the same.
Grant(c) ==
  LET b == Bucket(c)
  IN /\ Len(grants[b]) < MaxGrants
     /\ freeAt' = [freeAt EXCEPT ![b] = FromSchedule(b) + IdentifyWindow]
     /\ grants' = [grants EXCEPT ![b] = Append(@, clock)]
     /\ Done(c)
     /\ UNCHANGED clock

\* After the previous one's release, or after the sleep.
TakeTurn(c) ==
  LET b == Bucket(c)
  IN /\ FirstInLine(c) /\ c \notin aborted
     /\ \/ /\ sleepEnds[b] = Awake /\ freeAt[b] > clock
           /\ sleepEnds' = [sleepEnds EXCEPT ![b] = freeAt[b]]
           /\ UNCHANGED <<clock, line, freeAt, aborted, grants>>
        \/ sleepEnds[b] = Awake /\ freeAt[b] <= clock /\ Grant(c)
        \/ sleepEnds[b] # Awake /\ sleepEnds[b] <= clock + Early /\ Grant(c)

ThrottlerTick ==
  /\ clock < MaxClock
  /\ clock' = clock + 1
  /\ UNCHANGED <<line, sleepEnds, freeAt, aborted, grants>>

ThrottlerNext ==
  \/ \E c \in Connections :
       WaitForIdentify(c) \/ AbortWait(c) \/ Rejected(c) \/ TakeTurn(c)
  \/ ThrottlerTick

ThrottlerSpec == ThrottlerInit /\ [][ThrottlerNext]_throttlerVars

-----------------------------------------------------------------------------
ThrottlerTypeOK ==
  /\ clock \in Nat /\ line \in [Buckets -> Seq(Connections)]
  /\ sleepEnds \in [Buckets -> Nat \cup {Awake}] /\ freeAt \in [Buckets -> Nat]
  /\ aborted \subseteq Connections
  /\ grants \in [Buckets -> Seq(Nat)]
  /\ \A b \in Buckets : sleepEnds[b] # Awake => line[b] # <<>>

\* What makes OnePerWindow inductive (FleetProofs): the schedule is a window past
\* the last grant for every grant since, and who sleeps sleeps until the schedule.
ThrottlerInv ==
  \A b \in Buckets :
    /\ sleepEnds[b] \in {Awake, freeAt[b]}
    /\ \A i \in 1 .. Len(grants[b]) :
         freeAt[b] >= grants[b][i] + (Len(grants[b]) - i + 1) * IdentifyWindow

\* "One bucket may identify per five second window": however many connections wait
\* or abort, n windows see at most n identifies, and timers that fire early do not
\* add up.
OnePerWindow ==
  ThrottlerTypeOK /\ \A b \in Buckets : \A j \in 1 .. Len(grants[b]) : \A i \in 1 .. j - 1 :
    grants[b][j] - grants[b][i] >= (j - i) * IdentifyWindow - Early
=============================================================================
