--------------------------- MODULE SlidingWindow ---------------------------
(***************************************************************************)
(* The ring of send times by which SendQueue (gateway) and GlobalLimiter   *)
(* (rest) keep "a true sliding window": at most Limit sends in any span of *)
(* Window milliseconds.  Time is counted in ticks.                         *)
(***************************************************************************)
EXTENDS Naturals, Sequences

CONSTANTS
  Limit,    \* the length of the ring
  Window    \* windowMs, 1000 in GlobalLimiter

ASSUME WindowAssumption == Limit \in Nat \ {0} /\ Window \in Nat

Slots == 0 .. Limit - 1
Rings == [sent : [Slots -> Nat], next : Slots, count : 0 .. Limit]
EmptyRing == [sent |-> [i \in Slots |-> 0], next |-> 0, count |-> 0]

\* i % Limit, for i below 2 * Limit.
Wrap(i) == IF i >= Limit THEN i - Limit ELSE i

\* #record
Recorded(r, now) ==
  [sent  |-> [r.sent EXCEPT ![r.next] = now],
   next  |-> Wrap(r.next + 1),
   count |-> IF r.count < Limit THEN r.count + 1 ELSE r.count]

\* The usable-th most recent send.
Oldest(r, usable) == r.sent[Wrap(r.next + Limit - usable)]

DelayOneTooMany(r, usable, now) ==
  IF r.count <= usable \/ Oldest(r, usable) + Window <= now THEN 0
  ELSE Oldest(r, usable) + Window - now

\* delayFor
Delay(r, usable, now) ==
  IF r.count < usable \/ Oldest(r, usable) + Window <= now THEN 0
  ELSE Oldest(r, usable) + Window - now

\* The ring holds the last sends of a log whose entries carry their time.
RingHolds(r, log) ==
  /\ r.count = IF Len(log) < Limit THEN Len(log) ELSE Limit
  /\ \A k \in 1 .. r.count :
       r.sent[Wrap(r.next + Limit - k)] = log[Len(log) + 1 - k].at

\* At most Limit sends in any half-open span of one window.
Spaced(log) ==
  \A i \in 1 .. Len(log) - Limit : log[i + Limit].at >= log[i].at + Window
=============================================================================
