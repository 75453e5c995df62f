-------------------------- MODULE InvalidRequests --------------------------
(***************************************************************************)
(* The count of invalid responses that keeps the client from a ban:        *)
(* packages/rest/src/ratelimit/InvalidRequestTracker.ts, and the requests  *)
(* of SequentialHandler that ask it before they are sent.                  *)
(***************************************************************************)
EXTENDS Integers, Sequences, FiniteSetsExt

CONSTANTS
  SlotCount,   \* SLOTS
  SlotTicks,   \* SLOT_MS
  Threshold,   \* invalidRequestThreshold
  InFlight,    \* bound: requests in flight at once
  MaxInstant,     \* bound: the clock
  MaxInvalid   \* bound: invalid responses

ASSUME TrackerAssumption ==
  /\ SlotCount \in Nat \ {0} /\ SlotTicks \in Nat \ {0} /\ Threshold \in Nat \ {0}
  /\ InFlight \in Nat

VARIABLES
  instant,
  counts, epochs,   \* #counts and #epochs
  inflight,         \* requests that were let through and are not answered
  invalid           \* history: the time of each invalid response

trackerVars == <<instant, counts, epochs, inflight, invalid>>

Ring == 0 .. SlotCount - 1
WindowTicks == SlotCount * SlotTicks
Epoch(t) == t \div SlotTicks

TrackerInit ==
  /\ instant = 0 /\ inflight = 0 /\ invalid = <<>>
  /\ counts = [i \in Ring |-> 0] /\ epochs = [i \in Ring |-> -1]

RecentAnyLap(i, t) == epochs[i] >= 0
RecentButOldest(i, t) == epochs[i] > Epoch(t) - SlotCount + 1 /\ epochs[i] <= Epoch(t)

\* Whether a slot is of the window that ends at t.
Recent(i, t) == epochs[i] >= Epoch(t) - SlotCount + 1 /\ epochs[i] <= Epoch(t)

CountIn(t) == SumFunctionOnSet(counts, {i \in Ring : Recent(i, t)})
ShouldStop == CountIn(instant) >= Threshold

DecaysAt(t) ==
  LET present == {epochs[i] : i \in {n \in Ring : Recent(n, t) /\ counts[n] > 0}}
  IN IF present = {} THEN t ELSE (Min(present) + SlotCount) * SlotTicks

\* SequentialHandler asks; the request may then wait for the global limiter.
LetThrough ==
  /\ inflight < InFlight
  /\ ~ShouldStop
  /\ inflight' = inflight + 1
  /\ UNCHANGED <<instant, counts, epochs, invalid>>

\* A slot of an earlier lap starts again from 0.
Lap(i) == IF epochs[i] = Epoch(instant) THEN counts[i] ELSE 0

\* register(), of a 401, 403 or 429.
Register ==
  LET i == Epoch(instant) % SlotCount
  IN /\ inflight > 0 /\ Len(invalid) < MaxInvalid
     /\ inflight' = inflight - 1
     /\ epochs' = [epochs EXCEPT ![i] = Epoch(instant)]
     /\ counts' = [counts EXCEPT ![i] = Lap(i) + 1]
     /\ invalid' = Append(invalid, instant)
     /\ UNCHANGED instant

\* Any other status, or none.
Answer ==
  /\ inflight > 0
  /\ inflight' = inflight - 1
  /\ UNCHANGED <<instant, counts, epochs, invalid>>

TrackerTick ==
  /\ instant < MaxInstant
  /\ instant' = instant + 1
  /\ UNCHANGED <<counts, epochs, inflight, invalid>>

TrackerNext == LetThrough \/ Register \/ Answer \/ TrackerTick

TrackerSpec == TrackerInit /\ [][TrackerNext]_trackerVars

-----------------------------------------------------------------------------
TrackerTypeOK ==
  /\ instant \in Nat /\ inflight \in 0 .. InFlight /\ invalid \in Seq(Nat)
  /\ counts \in [Ring -> Nat] /\ epochs \in [Ring -> Nat \cup {-1}]

\* The invalid responses in the span of the given length that ends at t.
Seen(t, span) == Cardinality({k \in DOMAIN invalid : invalid[k] > t - span /\ invalid[k] <= t})

\* The ring "bounds the resolution error to one slot": it counts nothing older than
\* the window, and misses nothing younger than the window less one slot.
WithinOneSlot ==
  /\ CountIn(instant) <= Seen(instant, WindowTicks)
  /\ CountIn(instant) >= Seen(instant, WindowTicks - SlotTicks)

\* decaysAt is when the count falls if nothing else goes wrong: neither before, when a
\* caller that waits for it would be refused again, nor after.
DecaysThen ==
  CountIn(instant) > 0 =>
    /\ DecaysAt(instant) > instant /\ CountIn(DecaysAt(instant)) < CountIn(instant)
    /\ CountIn(DecaysAt(instant) - 1) = CountIn(instant)

\* The inductive part.  A slot holds one lap: the responses of its epoch, and of no
\* later one.
InEpoch(e) == {k \in DOMAIN invalid : Epoch(invalid[k]) = e}
OneLap ==
  /\ \A i \in Ring :
       /\ counts[i] = Cardinality(InEpoch(epochs[i]))
       /\ epochs[i] >= 0 => epochs[i] <= Epoch(instant) /\ epochs[i] % SlotCount = i
  /\ \A k \in DOMAIN invalid :
       invalid[k] <= instant /\ epochs[Epoch(invalid[k]) % SlotCount] >= Epoch(invalid[k])

\* What is in flight counts as if it were invalid already.
Budgeted == Seen(instant, WindowTicks - SlotTicks) + inflight < Threshold + InFlight

\* What the tracker says, now and of the time to come, is true to within one slot.
CountIsTrue == TrackerTypeOK /\ WithinOneSlot /\ DecaysThen

\* In a span one slot shorter than the window, no more invalid responses than the
\* threshold and the requests in flight when it was reached.
SpanBounded ==
  \A k \in DOMAIN invalid : Seen(invalid[k], WindowTicks - SlotTicks) < Threshold + InFlight

\* A tumbling window would permit "close to twice the threshold inside one real
\* ten-minute period ... which is precisely the ban this class exists to prevent".
LessThanTwice == \A k \in DOMAIN invalid : Seen(invalid[k], WindowTicks) < 2 * Threshold
=============================================================================
