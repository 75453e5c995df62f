------------------------ MODULE SlidingWindowProofs ------------------------
(***************************************************************************)
(* The ring of SlidingWindow, for every limit and window: it is the end of *)
(* the log of sends, and asking it whether a send may go is asking the log. *)
(***************************************************************************)
EXTENDS SlidingWindow, Integers, TLAPS

\* Division.
LEMMA DivRange ==
  ASSUME NEW a \in Int, NEW d \in Nat \ {0}
  PROVE  a \div d \in Int /\ d * (a \div d) <= a /\ a < d * (a \div d) + d
  OBVIOUS

LEMMA DivGrows ==
  ASSUME NEW a \in Int, NEW b \in Int, NEW d \in Nat \ {0}
  PROVE  /\ a >= b => a \div d >= b \div d
         /\ a >= b + d => a \div d >= b \div d + 1
  OBVIOUS

LEMMA NoMultiple ==
  ASSUME NEW z \in Int, NEW d \in Nat \ {0}, 0 < d * z, d * z < d
  PROVE  FALSE
<1>1. CASE z <= 0
  BY <1>1
<1>2. CASE z >= 1
  BY <1>2
<1> QED
  BY <1>1, <1>2

\* Two numbers that leave the same remainder are the divisor apart, or equal.
LEMMA ModApart ==
  ASSUME NEW a \in Int, NEW b \in Int, NEW d \in Nat \ {0}, a % d = b % d, a < b
  PROVE  b >= a + d
<1> SUFFICES ASSUME b < a + d PROVE FALSE
  OBVIOUS
<1> DEFINE x == b \div d
           y == a \div d
<1>1. x \in Int /\ y \in Int /\ a % d = a - d * y /\ b % d = b - d * x
  OBVIOUS
<1> HIDE DEF x, y
<1>2. d * (x - y) = b - a /\ x - y \in Int
  BY <1>1
<1> QED
  BY <1>2, NoMultiple

LEMMA WrapInSlots == \A i \in 0 .. 2 * Limit - 1 : Wrap(i) \in Slots
  BY WindowAssumption DEF Wrap, Slots

\* What was k - 1 places back is k places back after a step of the ring.
LEMMA WrapShift ==
  ASSUME NEW n \in Slots
  PROVE  /\ Wrap(Wrap(n + 1) + Limit - 1) = n
         /\ \A k \in 2 .. Limit :
              /\ Wrap(Wrap(n + 1) + Limit - k) = Wrap(n + Limit - (k - 1))
              /\ Wrap(Wrap(n + 1) + Limit - k) \in Slots \ {n}
<1>1. Limit \in Nat /\ Limit >= 1 /\ n \in Nat /\ n < Limit
  BY WindowAssumption DEF Slots
<1>2. CASE n + 1 < Limit
  <2>1. Wrap(n + 1) = n + 1
    BY <1>1, <1>2 DEF Wrap
  <2> QED
    BY <1>1, <1>2, <2>1 DEF Wrap, Slots
<1>3. CASE n + 1 = Limit
  <2>1. Wrap(n + 1) = 0
    BY <1>1, <1>3 DEF Wrap
  <2> QED
    BY <1>1, <1>3, <2>1 DEF Wrap, Slots
<1> QED
  BY <1>1, <1>2, <1>3

LEMMA EmptyRingHolds == EmptyRing \in Rings /\ RingHolds(EmptyRing, <<>>)
  BY WindowAssumption DEF EmptyRing, Rings, Slots, RingHolds

LEMMA RecordedType ==
  ASSUME NEW r \in Rings, NEW now \in Nat PROVE Recorded(r, now) \in Rings
<1>1. Wrap(r.next + 1) \in Slots
  BY SMTT(30), WindowAssumption, WrapInSlots DEF Rings, Slots
<1>2. [r.sent EXCEPT ![r.next] = now] \in [Slots -> Nat]
  BY DEF Rings
<1> QED
  BY <1>1, <1>2, WindowAssumption DEF Recorded, Rings

\* A send is recorded at the end of both.
LEMMA RecordedHolds ==
  ASSUME NEW E, NEW log \in Seq(E), NEW r \in Rings, RingHolds(r, log),
         NEW e \in E, NEW now \in Nat, e.at = now
  PROVE  RingHolds(Recorded(r, now), Append(log, e))
<1> DEFINE s == Recorded(r, now)
<1> DEFINE new == Append(log, e)
<1>1. Len(log) \in Nat /\ Len(new) = Len(log) + 1 /\ new[Len(log) + 1] = e
      /\ \A i \in 1 .. Len(log) : new[i] = log[i]
  OBVIOUS
<1>2. r.next \in Slots /\ r.count \in 0 .. Limit /\ r.sent \in [Slots -> Nat]
  BY DEF Rings
<1>3. s.sent = [r.sent EXCEPT ![r.next] = now] /\ s.next = Wrap(r.next + 1)
      /\ s.count = IF r.count < Limit THEN r.count + 1 ELSE r.count
  BY DEF Recorded
<1>4. s.count = IF Len(new) < Limit THEN Len(new) ELSE Limit
  BY <1>1, <1>2, <1>3, WindowAssumption DEF RingHolds
<1> HIDE DEF s, new
<1>5. ASSUME NEW k \in 1 .. s.count
      PROVE  s.sent[Wrap(s.next + Limit - k)] = new[Len(new) + 1 - k].at
  <2>0. s.count \in Nat /\ k \in Nat /\ k >= 1 /\ k <= s.count
    BY <1>2, <1>3, WindowAssumption
  <2>1. CASE k = 1
    <3>1. Wrap(s.next + Limit - 1) = r.next
      BY <1>2, <1>3, WrapShift
    <3> QED
      BY <2>1, <3>1, <1>1, <1>2, <1>3
  <2>2. CASE k > 1
    <3>1. k - 1 \in 1 .. r.count /\ k \in 2 .. Limit
      BY <2>0, <2>2, <1>2, <1>3, WindowAssumption
    <3>2. Wrap(s.next + Limit - k) = Wrap(r.next + Limit - (k - 1))
          /\ Wrap(s.next + Limit - k) # r.next
          /\ Wrap(s.next + Limit - k) \in Slots
      BY <3>1, <1>2, <1>3, WrapShift
    <3>3. s.sent[Wrap(s.next + Limit - k)] = r.sent[Wrap(r.next + Limit - (k - 1))]
      BY <3>2, <1>2, <1>3
    <3>4. r.sent[Wrap(r.next + Limit - (k - 1))] = log[Len(log) + 1 - (k - 1)].at
      BY <3>1 DEF RingHolds
    <3>5. Len(log) + 1 - (k - 1) = Len(new) + 1 - k
          /\ Len(log) + 1 - (k - 1) \in 1 .. Len(log)
      BY <3>1, <1>1, <1>2, WindowAssumption DEF RingHolds
    <3>6. new[Len(new) + 1 - k] = log[Len(log) + 1 - (k - 1)]
      BY <3>5, <1>1
    <3> QED
      BY <3>3, <3>4, <3>6
  <2> QED
    BY <2>0, <2>1, <2>2
<1> QED
  BY <1>4, <1>5 DEF RingHolds, s, new

\* A delay of 0 is the promise that the usable-th send before this one, if there
\* was one, is a whole window old, and a delay above 0 that it is not.
LEMMA DelayMeans ==
  ASSUME NEW E, NEW log \in Seq(E), NEW r \in Rings, RingHolds(r, log),
         \A i \in 1 .. Len(log) : log[i].at \in Nat,
         NEW usable \in 1 .. Limit, NEW now \in Nat
  PROVE  /\ Delay(r, usable, now) \in Nat
         /\ Delay(r, usable, now) = 0 <=>
              (Len(log) >= usable => log[Len(log) + 1 - usable].at + Window <= now)
<1>1. Len(log) \in Nat /\ r.count \in 0 .. Limit /\ r.next \in Slots
      /\ r.sent \in [Slots -> Nat]
  BY DEF Rings
<1>2. r.count < usable <=> Len(log) < usable
  BY <1>1, WindowAssumption DEF RingHolds
<1>3. CASE Len(log) >= usable
  <2>1. Oldest(r, usable) = log[Len(log) + 1 - usable].at
    BY <1>1, <1>2, <1>3 DEF RingHolds, Oldest
  <2>2. Oldest(r, usable) \in Nat
    BY <2>1, <1>1, <1>3
  <2> QED
    BY SMTT(30), <2>1, <2>2, <1>1, <1>2, <1>3, WindowAssumption DEF Delay
<1>4. CASE Len(log) < usable
  BY <1>1, <1>2, <1>4 DEF Delay
<1> QED
  BY <1>1, <1>3, <1>4
\* A send admitted by the whole ring keeps the log spaced.
LEMMA AppendSpaced ==
  ASSUME NEW E, NEW log \in Seq(E), Spaced(log), NEW e \in E,
         Len(log) >= Limit => log[Len(log) + 1 - Limit].at + Window <= e.at
  PROVE  Spaced(Append(log, e))
<1> DEFINE n == Len(log)
<1> DEFINE new == Append(log, e)
<1>1. n \in Nat /\ Limit \in Nat /\ Limit >= 1
  BY WindowAssumption
<1>2. Len(new) = n + 1 /\ new[n + 1] = e /\ \A i \in 1 .. n : new[i] = log[i]
  OBVIOUS
<1> HIDE DEF n, new
<1>3. ASSUME NEW i \in 1 .. n + 1 - Limit PROVE new[i + Limit].at >= new[i].at + Window
  <2>1. CASE i = n + 1 - Limit
    <3>1. n >= Limit /\ i \in 1 .. n /\ i + Limit = n + 1
      BY <1>1, <1>3, <2>1
    <3>2. log[i].at + Window <= e.at
      BY <3>1, <2>1 DEF n
    <3> QED
      BY <3>1, <3>2, <1>2
  <2>2. CASE i # n + 1 - Limit
    <3>1. i \in 1 .. n - Limit /\ i \in 1 .. n /\ i + Limit \in 1 .. n
      BY <1>1, <1>3, <2>2
    <3>2. log[i + Limit].at >= log[i].at + Window
      BY <3>1 DEF Spaced, n
    <3> QED
      BY <3>1, <3>2, <1>2
  <2> QED
    BY <2>1, <2>2
<1>4. Len(new) - Limit = n + 1 - Limit
  BY <1>1, <1>2
<1> QED
  BY <1>3, <1>4 DEF Spaced, new
=============================================================================
