-------------------------- MODULE ConnectionProofs --------------------------
(***************************************************************************)
(* What holds of every connection, whatever its limit, window, reserve and *)
(* interval: of its send queue, of its heartbeat, and, as a connection     *)
(* implements both, of the two together.                                   *)
(***************************************************************************)
EXTENDS Connection, SlidingWindowProofs, FiniteSetTheorems

-----------------------------------------------------------------------------
(* SendQueue                                                               *)

Inv == TypeOK /\ WindowInv

LEMMA UsableRange == Usable \in 1 .. Limit
  BY WindowAssumption, QueueAssumption DEF Usable

LEMMA LogEntries ==
  ASSUME log \in Seq(Entries)
  PROVE  \A i \in 1 .. Len(log) : log[i].at \in Nat /\ log[i].beat \in BOOLEAN
<1>1. \A i \in 1 .. Len(log) : log[i] \in Entries
  OBVIOUS
<1> QED
  BY <1>1 DEF Entries

LEMMA InitInv == Init => Inv
<1> SUFFICES ASSUME Init PROVE Inv
  OBVIOUS
<1>1. TypeOK
  BY EmptyRingHolds DEF Init, TypeOK
<1>2. WindowInv
  BY EmptyRingHolds, UsableRange, WindowAssumption
  DEF Init, WindowInv, LogInv, CommandsSpaced, WindowRespected, Spaced
<1> QED
  BY <1>1, <1>2 DEF Inv

\* A send that the ring admits keeps the log spaced.
LEMMA RecordInv ==
  ASSUME Inv, NEW beat \in BOOLEAN, Record(beat), now' = now,
         Delay(ring, IF beat THEN Limit ELSE Usable, now) = 0
  PROVE  WindowInv' /\ ring' \in Rings /\ log' \in Seq(Entries)
<1> DEFINE e == [at |-> now, beat |-> beat]
<1> DEFINE n == Len(log)
<1> DEFINE usable == IF beat THEN Limit ELSE Usable
<1>1. ring \in Rings /\ log \in Seq(Entries) /\ now \in Nat /\ e \in Entries /\ e.at = now
      /\ RingHolds(ring, log) /\ e.beat = beat
  BY DEF Inv, TypeOK, WindowInv, LogInv, Entries
<1>2. ring' = Recorded(ring, now) /\ log' = Append(log, e)
  BY DEF Record
<1>3. ring' \in Rings /\ RingHolds(ring', log')
  BY <1>1, <1>2, RecordedType, RecordedHolds
<1>4. n \in Nat /\ Len(log') = n + 1 /\ log'[n + 1] = e
      /\ (\A i \in 1 .. n : log'[i] = log[i]) /\ log' \in Seq(Entries)
  BY <1>1, <1>2
<1>12. Len(log') = n + 1 /\ n \in Nat
  BY <1>4
<1>5. \A i \in 1 .. n : log[i].at \in Nat /\ log[i].beat \in BOOLEAN /\ log[i].at <= now
  BY <1>1, LogEntries DEF Inv, WindowInv, LogInv
<1>6. usable \in 1 .. Limit /\ usable >= Usable /\ Usable \in 1 .. Limit /\ Limit \in Nat
  BY UsableRange, WindowAssumption
<1>7. n >= usable => log[n + 1 - usable].at + Window <= now
  BY <1>1, <1>5, <1>6, DelayMeans
<1> HIDE DEF e, n, usable
<1>8. \A i, j \in 1 .. n : i <= j => log[i].at <= log[j].at
  BY DEF Inv, WindowInv, LogInv, n
<1>9. LogInv'
  <2>1. \A i, j \in 1 .. n + 1 : i <= j => log'[i].at <= log'[j].at
    BY <1>1, <1>4, <1>5, <1>8
  <2>2. \A i \in 1 .. n + 1 : log'[i].at <= now
    BY <1>1, <1>4, <1>5
  <2> QED
    BY <1>3, <1>4, <2>1, <2>2 DEF LogInv
<1>10. CommandsSpaced'
  <2>1. ASSUME NEW i \in 1 .. n - Usable, ~log'[i + Usable].beat
        PROVE  log'[i + Usable].at >= log'[i].at + Window
    <3>1. i \in 1 .. n /\ i + Usable \in 1 .. n
      BY <1>4, <1>6
    <3> QED
      BY <2>1, <3>1, <1>4 DEF Inv, WindowInv, CommandsSpaced, n
  <2>2. ASSUME n + 1 > Usable, ~beat
        PROVE  log'[n + 1].at >= log'[n + 1 - Usable].at + Window
    <3>1. usable = Usable /\ n + 1 - Usable \in 1 .. n
      BY <2>2, <1>4, <1>6 DEF usable
    <3> QED
      BY <3>1, <2>2, <1>1, <1>4, <1>6, <1>7
  <2>3. Usable' = Usable
    BY DEF Usable
  <2>4. ASSUME NEW i \in 1 .. n + 1 - Usable, ~log'[i + Usable].beat
        PROVE  log'[i + Usable].at >= log'[i].at + Window
    <3>1. CASE i = n + 1 - Usable
      <4>1. n + 1 > Usable /\ i + Usable = n + 1
        BY <3>1, <2>4, <1>4, <1>6
      <4> QED
        BY <4>1, <3>1, <2>2, <2>4, <1>1, <1>4
    <3>2. CASE i # n + 1 - Usable
      <4>1. i \in 1 .. n - Usable
        BY <3>2, <1>4, <1>6
      <4> QED
        BY <4>1, <2>1, <2>4
    <3> QED
      BY <3>1, <3>2
  <2>5. \A i \in 1 .. Len(log') - Usable :
          ~log'[i + Usable].beat => log'[i + Usable].at >= log'[i].at + Window
    <3>1. Len(log') - Usable = n + 1 - Usable
      BY <1>6, <1>12
    <3> QED
      BY <2>4, <3>1
  <2> QED
    BY <2>5, <2>3 DEF CommandsSpaced
<1>11. WindowRespected'
  <2>1. ASSUME NEW i \in 1 .. n + 1 - Limit
        PROVE  log'[i + Limit].at >= log'[i].at + Window
    <3>1. CASE i = n + 1 - Limit
      <4>1. n >= usable /\ n + 1 - usable \in i .. n /\ i + Limit = n + 1 /\ i \in 1 .. n
        BY <3>1, <2>1, <1>4, <1>6
      <4>2. log[i].at <= log[n + 1 - usable].at
        BY <4>1, <1>4, <1>6, <1>8
      <4>3. log'[i] = log[i] /\ log'[n + 1].at = now
        BY <4>1, <1>1, <1>4
      <4>4. log[i].at \in Nat /\ log[n + 1 - usable].at \in Nat
        <5>1. n + 1 - usable \in 1 .. n
          BY <4>1, <1>4
        <5> QED
          BY <4>1, <5>1, <1>5
      <4>5. log[n + 1 - usable].at + Window <= now
        BY <4>1, <1>7
      <4>6. log[i].at + Window <= now
        BY <4>2, <4>4, <4>5, <1>1, WindowAssumption
      <4> QED
        BY <4>1, <4>3, <4>6
    <3>2. CASE i # n + 1 - Limit
      <4>1. i \in 1 .. n - Limit /\ i \in 1 .. n /\ i + Limit \in 1 .. n
        BY <3>2, <1>4, <1>6
      <4> QED
        BY <4>1, <1>4 DEF Inv, WindowInv, WindowRespected, Spaced, n
    <3> QED
      BY <3>1, <3>2
  <2>2. \A i \in 1 .. Len(log') - Limit : log'[i + Limit].at >= log'[i].at + Window
    <3>1. Len(log') - Limit = n + 1 - Limit
      BY <1>6, <1>12
    <3> QED
      BY <2>1, <3>1
  <2> QED
    BY <2>2 DEF WindowRespected, Spaced
<1> QED
  BY <1>3, <1>4, <1>9, <1>10, <1>11 DEF WindowInv

\* Steps that send nothing leave the log alone.
LEMMA SameLog ==
  ASSUME Inv, UNCHANGED <<ring, log>>, now' \in Nat, now' >= now PROVE WindowInv'
<1>1. \A i \in 1 .. Len(log) : log[i].at \in Nat /\ log[i].at <= now
  BY LogEntries DEF Inv, TypeOK, WindowInv, LogInv
<1>2. now \in Nat
  BY DEF Inv, TypeOK
<1>3. LogInv'
  <2>1. RingHolds(ring, log)'
    BY DEF Inv, WindowInv, LogInv, RingHolds, Wrap
  <2>2. \A i, j \in 1 .. Len(log') : i <= j => log'[i].at <= log'[j].at
    BY DEF Inv, WindowInv, LogInv
  <2>3. \A i \in 1 .. Len(log') : log'[i].at <= now'
    BY <1>1, <1>2
  <2>4. QED
    BY <2>1, <2>2, <2>3 DEF LogInv
<1>4. CommandsSpaced' /\ WindowRespected'
  BY DEF Inv, WindowInv, CommandsSpaced, Usable, WindowRespected
<1> QED
  BY <1>3, <1>4 DEF WindowInv

LEMMA DoneType ==
  ASSUME TypeOK, NEW c \in Senders, line # <<>>, Done(c)
  PROVE  line' \in Seq(Senders) /\ wake' \in Nat /\ aborted' \subseteq Senders
  BY DEF TypeOK, Done

LEMMA StepInv == Inv /\ [Next]_vars => Inv'
<1> SUFFICES ASSUME Inv, [Next]_vars PROVE Inv'
  OBVIOUS
<1>0. TypeOK
  BY DEF Inv
<1>1. ASSUME NEW c \in Senders, Acquire(c) PROVE Inv'
  <2>1. line' \in Seq(Senders)
    BY <1>0, <1>1 DEF Acquire, TypeOK
  <2> QED
    BY <1>0, <1>1, <2>1, SameLog DEF Acquire, TypeOK, Inv
<1>2. ASSUME NEW c \in Senders, Abort(c) PROVE Inv'
  BY <1>0, <1>2, SameLog DEF Abort, TypeOK, Inv
<1>3. ASSUME NEW c \in Senders, Rejected(c) PROVE Inv'
  BY <1>0, <1>3, SameLog, DoneType DEF Rejected, TypeOK, Inv
<1>4. ASSUME NEW c \in Senders, Turn(c) PROVE Inv'
  <2>1. now' = now /\ line # <<>> /\ now \in Nat
    BY <1>0, <1>4 DEF Turn, TypeOK
  <2>2. CASE Delay(ring, Usable, now) = 0 /\ Record(FALSE) /\ Done(c)
    <3>1. WindowInv' /\ ring' \in Rings /\ log' \in Seq(Entries)
      BY <2>1, <2>2, RecordInv
    <3> QED
      BY <3>1, <2>1, <2>2, <1>0, DoneType DEF TypeOK, Inv
  <2>3. CASE Done(c) /\ UNCHANGED <<ring, log>>
    BY <2>1, <2>3, <1>0, DoneType, SameLog DEF TypeOK, Inv
  <2>4. CASE wake' = now + Delay(ring, Usable, now) /\ UNCHANGED <<ring, line, aborted, log>>
    <3>1. \A i \in 1 .. Len(log) : log[i].at \in Nat
      BY <1>0, LogEntries DEF TypeOK
    <3>2. Delay(ring, Usable, now) \in Nat
      BY <3>1, <1>0, UsableRange, DelayMeans DEF Inv, WindowInv, LogInv, TypeOK
    <3> QED
      BY <2>1, <2>4, <3>2, <1>0, SameLog DEF TypeOK, Inv
  <2> QED
    BY <1>4, <2>2, <2>3, <2>4 DEF Turn
<1>5. ASSUME Heartbeat PROVE Inv'
  <2>1. WindowInv' /\ ring' \in Rings /\ log' \in Seq(Entries)
    BY <1>5, RecordInv DEF Heartbeat
  <2> QED
    BY <2>1, <1>0, <1>5 DEF Heartbeat, TypeOK, Inv
<1>6. ASSUME Tick PROVE Inv'
  BY <1>0, <1>6, SameLog DEF Tick, TypeOK, Inv
<1>7. CASE UNCHANGED vars
  BY <1>0, <1>7, SameLog DEF vars, TypeOK, Inv
<1> QED
  BY <1>1, <1>2, <1>3, <1>4, <1>5, <1>6, <1>7 DEF Next

LEMMA InvHolds == Spec => []Inv
  BY InitInv, StepInv, PTL DEF Spec

\* The variables keep their types; the ring's index stays in the ring.
THEOREM TypeCorrect == Spec => []TypeOK
<1>1. Inv => TypeOK
  BY DEF Inv
<1> QED
  BY <1>1, InvHolds, PTL

\* No span of one window holds more than the limit, beats included.
THEOREM WindowHolds == Spec => []WindowRespected
<1>1. Inv => WindowRespected
  BY DEF Inv, WindowInv
<1> QED
  BY <1>1, InvHolds, PTL

\* A refused beat means that the reserve was spent on beats of the same window:
\* no number of queued commands can cause it.
THEOREM ReserveHolds == Spec => []BeatFindsSlot
<1>1. ASSUME Inv, Delay(ring, Limit, now) > 0,
             NEW k \in Len(log) - Reserve + 1 .. Len(log)
      PROVE  k \in DOMAIN log /\ log[k].beat /\ log[k].at + Window > now
  <2> DEFINE n == Len(log)
  <2>1. ring \in Rings /\ log \in Seq(Entries) /\ now \in Nat /\ RingHolds(ring, log)
        /\ n \in Nat
    BY <1>1 DEF Inv, TypeOK, WindowInv, LogInv
  <2>2. \A i \in 1 .. n : log[i].at \in Nat /\ log[i].beat \in BOOLEAN /\ log[i].at <= now
    BY <2>1, <1>1, LogEntries DEF Inv, WindowInv, LogInv
  <2>3. Limit \in 1 .. Limit /\ Limit \in Nat /\ Reserve \in 0 .. Limit - 1
        /\ Usable = Limit - Reserve /\ Window \in Nat
    BY WindowAssumption, QueueAssumption DEF Usable
  <2>4. n >= Limit /\ ~(log[n + 1 - Limit].at + Window <= now)
    <3>1. Delay(ring, Limit, now) # 0
      BY <1>1, <2>1, <2>2, <2>3, DelayMeans
    <3> QED
      BY <3>1, <2>1, <2>2, <2>3, DelayMeans
  <2> HIDE DEF n
  <2>5. \A i, j \in 1 .. n : i <= j => log[i].at <= log[j].at
    BY <1>1 DEF Inv, WindowInv, LogInv, n
  <2>6. k \in n - Reserve + 1 .. n
    BY DEF n
  <2>7. k \in 1 .. n /\ n + 1 - Limit \in 1 .. k
    BY <2>1, <2>3, <2>4, <2>6
  <2>8. \A i \in n + 1 - Limit .. n : log[i].at + Window > now
    <3>1. ASSUME NEW i \in n + 1 - Limit .. n PROVE log[i].at + Window > now
      <4>1. i \in 1 .. n /\ n + 1 - Limit \in 1 .. n /\ n + 1 - Limit <= i
        BY <2>1, <2>3, <2>4, <2>7
      <4>2. log[n + 1 - Limit].at <= log[i].at
        BY <4>1, <2>5
      <4>3. log[n + 1 - Limit].at \in Nat /\ log[i].at \in Nat
        BY <4>1, <2>2
      <4>4. log[n + 1 - Limit].at + Window > now
        <5>1. \A x, w, t \in Nat : ~(x + w <= t) => x + w > t
          OBVIOUS
        <5> QED
          BY <4>3, <5>1, <2>1, <2>3, <2>4
      <4>5. \A x, y, w, t \in Nat : x <= y /\ x + w > t => y + w > t
        OBVIOUS
      <4> QED
        BY <4>2, <4>3, <4>4, <4>5, <2>1, <2>3
    <3> QED
      BY <3>1
  <2>9. ASSUME ~log[k].beat PROVE FALSE
    <3>1. k - Usable \in n + 1 - Limit .. n /\ k - Usable \in 1 .. n - Usable
      BY <2>1, <2>3, <2>4, <2>6, <2>7
    <3>2. log[(k - Usable) + Usable].at >= log[k - Usable].at + Window
      <4>1. (k - Usable) + Usable = k
        BY <2>3, <2>7, <2>1
      <4> QED
        BY <4>1, <3>1, <2>9, <1>1 DEF Inv, WindowInv, CommandsSpaced, n
    <3>3. (k - Usable) + Usable = k /\ k - Usable \in 1 .. n
      BY <2>1, <2>3, <2>7, <3>1
    <3>4. log[k].at <= now /\ log[k].at \in Nat /\ log[k - Usable].at \in Nat
      BY <2>2, <2>7, <3>3
    <3>5. log[k - Usable].at + Window > now
      BY <2>8, <3>1
    <3>6. log[k].at >= log[k - Usable].at + Window
      BY <3>2, <3>3
    <3> DEFINE late == log[k].at
               early == log[k - Usable].at
    <3>7. /\ late \in Nat /\ early \in Nat /\ now \in Nat /\ Window \in Nat
          /\ late <= now /\ early + Window > now /\ late >= early + Window
      BY <3>4, <3>5, <3>6, <2>1, <2>3
    <3> HIDE DEF late, early
    <3> QED
      BY ONLY <3>7
  <2> QED
    BY <2>1, <2>3, <2>7, <2>8, <2>9 DEF n
<1>2. Inv => BeatFindsSlot
  BY <1>1 DEF BeatFindsSlot
<1> QED
  BY <1>2, InvHolds, PTL

-----------------------------------------------------------------------------
(* Heartbeater                                                             *)

HeartInv == BeatTypeOK /\ HealthyIsKept /\ BeatInv

LEMMA HeartInit == BeatInit => HeartInv
<1>1. BeatInit => BeatTypeOK
  <2>1. 0 \in 0 .. Interval /\ {} \in SUBSET (0 .. Rtt) /\ 0 \in Nat
    BY HeartbeatAssumption
  <2>2. QED
    BY <2>1, Zenon DEF BeatInit, BeatTypeOK
<1>2. BeatInit => HealthyIsKept /\ BeatInv
  BY DEF BeatInit, HealthyIsKept, BeatInv
<1>3. QED
  BY <1>1, <1>2 DEF HeartInv

\* Hello awaits no acknowledgement and sets the first beat within the interval.
LEMMA StartKeeps ==
  ASSUME HeartInv, NEW jitter \in 0 .. Interval - 1, Start(jitter)
  PROVE HeartInv'
<1>1. BeatTypeOK'
  <2>1. jitter \in 0 .. Interval /\ 0 \in Nat /\ TRUE \in BOOLEAN /\ FALSE \in BOOLEAN
    BY HeartbeatAssumption
  <2>2. QED
    BY <2>1, Zenon DEF HeartInv, Start, BeatTypeOK
<1>2. HealthyIsKept' /\ BeatInv'
  BY HeartbeatAssumption DEF Start, HealthyIsKept, BeatInv
<1>3. QED
  BY <1>1, <1>2 DEF HeartInv

\* What a beat does, whoever asked for it.
LEMMA BeatKeeps ==
  ASSUME HeartInv, NEW sent \in BOOLEAN, Beat(sent),
         UNCHANGED <<stopped, timing, gone, silent, zombie>>, due' \in 0 .. Interval
  PROVE BeatTypeOK' /\ HealthyIsKept'
        /\ (awaiting' /\ ~gone' /\ ~refused' => \E d \in acks' : d + age' <= Rtt)
<1>1. BeatTypeOK'
  <2>1. awaiting' = TRUE /\ age' = 0 /\ 0 \in Nat
    BY DEF Beat, Awaited
  <2>2. refused' \in BOOLEAN
    BY Zenon DEF HeartInv, BeatTypeOK, Beat
  <2>3. acks' \in SUBSET (0 .. Rtt)
    BY HeartbeatAssumption DEF HeartInv, BeatTypeOK, Beat
  <2>4. QED
    BY <2>1, <2>2, <2>3, Zenon DEF HeartInv, BeatTypeOK
<1>2. HealthyIsKept'
  BY DEF HeartInv, HealthyIsKept, Beat
<1>3. ASSUME ~gone', ~refused' PROVE \E d \in acks' : d + age' <= Rtt
  <2>1. PICK d \in 0 .. Rtt : acks' = acks \cup {d}
    BY <1>3 DEF Beat
  <2>2. d + age' <= Rtt
    BY <2>1, HeartbeatAssumption DEF Beat, Awaited
  <2>3. QED
    BY <2>1, <2>2
<1>4. QED
  BY <1>1, <1>2, <1>3

LEMMA BeatNowKeeps == ASSUME HeartInv, NEW sent \in BOOLEAN, BeatNow(sent) PROVE HeartInv'
<1>1. due' \in 0 .. Interval
  BY DEF HeartInv, BeatTypeOK, BeatNow
<1>2. /\ BeatTypeOK' /\ HealthyIsKept'
      /\ (awaiting' /\ ~gone' /\ ~refused' => \E d \in acks' : d + age' <= Rtt)
  BY BeatKeeps, <1>1 DEF BeatNow
<1>3. age' + due' <= Interval
  BY <1>1, HeartbeatAssumption DEF BeatNow, Beat, Awaited
<1>4. ~stopped' /\ ~gone' /\ (timing' => silent' = 0)
  BY DEF HeartInv, BeatInv, BeatNow
<1>5. QED
  BY <1>2, <1>3, <1>4 DEF HeartInv, BeatInv

LEMMA PeriodicBeatKeeps ==
  ASSUME HeartInv, NEW sent \in BOOLEAN, PeriodicBeat(sent) PROVE HeartInv'
<1>1. due' \in 0 .. Interval /\ due' = Interval
  BY HeartbeatAssumption DEF PeriodicBeat
<1>2. /\ BeatTypeOK' /\ HealthyIsKept'
      /\ (awaiting' /\ ~gone' /\ ~refused' => \E d \in acks' : d + age' <= Rtt)
  BY BeatKeeps, <1>1 DEF PeriodicBeat, Due
<1>3. awaiting' /\ age' = 0 /\ ~stopped' /\ UNCHANGED <<gone, silent>>
  BY DEF HeartInv, BeatInv, PeriodicBeat, Due, Beat, Awaited
<1>4. silent <= Interval /\ (~gone => silent = 0)
  BY HeartbeatAssumption DEF HeartInv, BeatTypeOK, BeatInv, PeriodicBeat, Due
<1>5. gone' => acks' = {}
  BY DEF HeartInv, BeatInv, PeriodicBeat, Due, Beat
<1>6. BeatInv'
  BY <1>1, <1>2, <1>3, <1>4, <1>5, HeartbeatAssumption DEF BeatInv
<1>7. QED
  BY <1>2, <1>6 DEF HeartInv

\* An acknowledgement is in flight and due within the round trip: not for an interval.
LEMMA GiveUpKeeps == ASSUME HeartInv, GiveUp PROVE HeartInv'
<1>1. gone \/ refused
  <2>1. SUFFICES ASSUME ~gone, ~refused PROVE FALSE
    OBVIOUS
  <2>2. PICK d \in acks : d + age <= Rtt
    BY <2>1 DEF HeartInv, BeatInv, GiveUp, Due
  <2>3. QED
    BY <2>2, HeartbeatAssumption DEF HeartInv, BeatTypeOK, GiveUp, OutstandingTooLong
<1>2. BeatTypeOK'
  BY Zenon DEF HeartInv, BeatTypeOK, GiveUp
<1>3. QED
  BY <1>1, <1>2 DEF HeartInv, HealthyIsKept, BeatInv, GiveUp

LEMMA PostponeKeeps == ASSUME HeartInv, Postpone PROVE HeartInv'
<1>1. due' = Interval - age /\ due' \in 0 .. Interval
  BY HeartbeatAssumption DEF HeartInv, BeatTypeOK, Postpone, OutstandingTooLong, ScheduleRest
<1>2. BeatTypeOK'
  BY <1>1, Zenon DEF HeartInv, BeatTypeOK, Postpone
<1>3. age' + due' <= Interval
  BY <1>1, HeartbeatAssumption DEF HeartInv, BeatTypeOK, Postpone
<1>4. QED
  BY <1>1, <1>2, <1>3 DEF HeartInv, HealthyIsKept, BeatInv, Postpone

LEMMA BeatTickKeeps == ASSUME HeartInv, BeatTick PROVE HeartInv'
<1>1. /\ due \in 0 .. Interval /\ age \in Nat /\ silent \in Nat
      /\ acks \in SUBSET (0 .. Rtt) /\ (timing => age + due <= Interval)
  BY DEF HeartInv, BeatTypeOK, BeatInv, BeatTick
<1>2. \A d \in acks : d - 1 \in 0 .. Rtt
  BY <1>1, HeartbeatAssumption DEF BeatTick
<1>3. BeatTypeOK'
  BY <1>1, <1>2, HeartbeatAssumption DEF HeartInv, BeatTypeOK, BeatTick
<1>4. HealthyIsKept'
  BY DEF HeartInv, HealthyIsKept, BeatTick
<1>5. ASSUME timing, awaiting, ~gone, ~refused PROVE \E d \in acks' : d + age' <= Rtt
  <2>1. PICK d \in acks : d + age <= Rtt
    BY <1>5 DEF HeartInv, BeatInv, BeatTick
  <2>2. d - 1 \in acks' /\ (d - 1) + age' <= Rtt
    BY <1>1, <2>1, HeartbeatAssumption DEF BeatTick
  <2>3. QED
    BY <2>2
<1>6. /\ UNCHANGED <<stopped, timing, awaiting, gone, refused>>
      /\ timing => age' + due' <= Interval
  BY <1>1, HeartbeatAssumption DEF BeatTick
<1>7. timing /\ gone => silent' <= (IF awaiting THEN age' + Interval ELSE Interval - due')
  BY <1>1, HeartbeatAssumption DEF HeartInv, BeatInv, BeatTick
<1>8. timing /\ ~gone => silent' = 0
  BY DEF HeartInv, BeatInv, BeatTick
<1>9. timing /\ gone => acks' = {}
  BY DEF HeartInv, BeatInv, BeatTick
<1>10. BeatInv'
  BY <1>5, <1>6, <1>7, <1>8, <1>9 DEF HeartInv, BeatInv
<1>11. QED
  BY <1>3, <1>4, <1>10 DEF HeartInv

LEMMA OthersKeep == ASSUME HeartInv, Ack \/ Stop \/ PeerGone PROVE HeartInv'
<1>1. CASE Ack
  <2>1. awaiting' \in BOOLEAN
    BY <1>1, Zenon DEF Ack
  <2>2. acks' \in SUBSET (0 .. Rtt)
    BY <1>1 DEF HeartInv, BeatTypeOK, Ack
  <2>3. BeatTypeOK'
    BY <1>1, <2>1, <2>2, Zenon DEF HeartInv, BeatTypeOK, Ack
  <2>4. HealthyIsKept' /\ (timing => ~awaiting')
    BY <1>1 DEF HeartInv, BeatInv, HealthyIsKept, Ack
  <2>5. timing => ~gone
    BY <1>1 DEF HeartInv, BeatInv, Ack
  <2>6. QED
    BY <1>1, <2>3, <2>4, <2>5 DEF HeartInv, BeatInv, Ack
<1>2. CASE Stop
  <2>1. BeatTypeOK'
    BY <1>2, Zenon DEF HeartInv, BeatTypeOK, Stop
  <2>2. QED
    BY <1>2, <2>1 DEF HeartInv, HealthyIsKept, BeatInv, Stop
<1>3. CASE PeerGone
  <2>1. BeatTypeOK'
    BY <1>3 DEF HeartInv, BeatTypeOK, PeerGone
  <2>2. QED
    BY <1>3, <2>1, HeartbeatAssumption DEF HeartInv, BeatTypeOK, HealthyIsKept, BeatInv, PeerGone
<1>4. QED
  BY <1>1, <1>2, <1>3

LEMMA HeartStep == HeartInv /\ [BeatNext]_beatVars => HeartInv'
<1>1. SUFFICES ASSUME HeartInv, [BeatNext]_beatVars PROVE HeartInv'
  OBVIOUS
<1>2. CASE BeatNext
  BY <1>1, <1>2, StartKeeps, BeatNowKeeps, PeriodicBeatKeeps, GiveUpKeeps, PostponeKeeps,
     BeatTickKeeps, OthersKeep DEF BeatNext
<1>3. CASE UNCHANGED beatVars
  BY <1>1, <1>3 DEF HeartInv, BeatTypeOK, HealthyIsKept, BeatInv, beatVars
<1>4. QED
  BY <1>1, <1>2, <1>3

LEMMA HeartHolds == BeatSpec => []HeartInv
  BY HeartInit, HeartStep, PTL DEF BeatSpec

\* A connection is taken for a zombie only if its peer stopped answering or a beat was
\* not sent (Heartbeater.#onTimer), for every interval above the round trip.
THEOREM HealthyHolds == BeatSpec => []HealthyIsKept
<1>1. HeartInv => HealthyIsKept
  BY DEF HeartInv
<1>2. QED
  BY <1>1, HeartHolds, PTL

\* A silent peer is found out within two intervals, however the requests for beats fell.
THEOREM SilenceHolds == BeatSpec => []SilenceIsFound
<1>1. HeartInv => SilenceIsFound
  <2>1. SUFFICES ASSUME HeartInv, timing PROVE silent <= 2 * Interval
    BY DEF SilenceIsFound
  <2>2. age + due <= Interval /\ due \in 0 .. Interval /\ age \in Nat /\ silent \in Nat
    BY <2>1 DEF HeartInv, BeatTypeOK, BeatInv
  <2>3. silent <= age + Interval \/ silent <= Interval - due \/ silent = 0
    BY <2>1 DEF HeartInv, BeatInv
  <2>4. QED
    BY <2>2, <2>3, HeartbeatAssumption
<1>2. QED
  BY <1>1, HeartHolds, PTL

\* Requested beats cannot starve the periodic ones (Heartbeater.beatNow).
THEOREM CadenceHolds == BeatSpec => []NeverStarved
<1>1. HeartInv => NeverStarved
  BY HeartbeatAssumption DEF HeartInv, BeatTypeOK, BeatInv, NeverStarved
<1>2. QED
  BY <1>1, HeartHolds, PTL

\* The timer is never set beyond the interval (Heartbeater.#schedule).
THEOREM BeatTypeCorrect == BeatSpec => []BeatTypeOK
<1>1. HeartInv => BeatTypeOK
  BY DEF HeartInv
<1>2. QED
  BY <1>1, HeartHolds, PTL

-----------------------------------------------------------------------------
(* The two together                                                        *)

LEMMA QueueStep == ConnectionNext => [Next]_vars
<1>1. SUFFICES ASSUME ConnectionNext PROVE Next \/ UNCHANGED vars
  OBVIOUS
<1>2. CASE Command
  BY <1>2 DEF Command, Next
<1>3. CASE Hello \/ Quiet
  BY <1>3 DEF Hello, Quiet
<1>4. CASE Elapse
  BY <1>4 DEF Elapse, Next
<1>5. CASE \E sent \in BOOLEAN : RequestedBeat(sent) \/ ScheduledBeat(sent)
  BY <1>5 DEF RequestedBeat, ScheduledBeat, TakeSlot, Next
<1>6. QED
  BY <1>1, <1>2, <1>3, <1>4, <1>5 DEF ConnectionNext

LEMMA HeartbeatStep == ConnectionNext => [BeatNext]_beatVars
<1>1. SUFFICES ASSUME ConnectionNext PROVE BeatNext \/ UNCHANGED beatVars
  OBVIOUS
<1>2. CASE Command
  BY <1>2 DEF Command
<1>3. CASE Hello \/ Quiet
  BY <1>3 DEF Hello, Quiet, BeatNext
<1>4. CASE Elapse
  BY <1>4 DEF Elapse, BeatNext
<1>5. CASE \E sent \in BOOLEAN : RequestedBeat(sent) \/ ScheduledBeat(sent)
  BY <1>5 DEF RequestedBeat, ScheduledBeat, BeatNext
<1>6. QED
  BY <1>1, <1>2, <1>3, <1>4, <1>5 DEF ConnectionNext

LEMMA Implements == ConnectionSpec => Spec /\ BeatSpec
<1>1. ConnectionInit => Init /\ BeatInit
  BY DEF ConnectionInit
<1>2. [ConnectionNext]_connectionVars => [Next]_vars /\ [BeatNext]_beatVars
  BY QueueStep, HeartbeatStep DEF connectionVars
<1>3. QED
  BY <1>1, <1>2, PTL DEF ConnectionSpec, Spec, BeatSpec

\* The queue, the heartbeat and the count of requested beats keep their types; the
\* timer runs from Hello on (ShardConnection.startHeartbeating).
THEOREM ConnectionTypeCorrect == ConnectionSpec => []ConnectionTypeOK
<1> DEFINE Rest == greeted \in BOOLEAN /\ asked \in 0 .. MaxAsked /\ (timing => greeted)
<1>1. ConnectionInit => Rest
  <2>1. 0 \in 0 .. MaxAsked
    BY ConnectionAssumption
  <2>2. QED
    BY <2>1, Zenon DEF ConnectionInit, BeatInit
<1>2. Rest /\ [ConnectionNext]_connectionVars => Rest'
  <2>1. SUFFICES ASSUME Rest, [ConnectionNext]_connectionVars PROVE Rest'
    OBVIOUS
  <2>2. CASE Command \/ Elapse
    BY <2>1, <2>2 DEF Command, Elapse, BeatTick, beatVars
  <2>3. CASE Hello
    BY <2>1, <2>3 DEF Hello
  <2>4. CASE Quiet
    BY <2>1, <2>4 DEF Quiet, Ack, GiveUp, Postpone, Stop, PeerGone
  <2>5. CASE \E sent \in BOOLEAN : RequestedBeat(sent) \/ ScheduledBeat(sent)
    BY <2>1, <2>5, ConnectionAssumption
       DEF RequestedBeat, ScheduledBeat, BeatNow, PeriodicBeat
  <2>6. CASE UNCHANGED connectionVars
    BY <2>1, <2>6 DEF connectionVars, beatVars
  <2>7. QED
    BY <2>1, <2>2, <2>3, <2>4, <2>5, <2>6 DEF ConnectionNext
<1>3. TypeOK /\ BeatTypeOK /\ Rest => ConnectionTypeOK
  BY DEF ConnectionTypeOK
<1>4. QED
  BY <1>1, <1>2, <1>3, Implements, TypeCorrect, BeatTypeCorrect, PTL DEF ConnectionSpec

\* The connection as a whole never breaches the allowance, whatever commands and beats,
\* requested or periodic, share it (SendQueue.delayFor).
THEOREM AllowanceHolds == ConnectionSpec => []Allowance
  BY Implements, WindowHolds, ReserveHolds, PTL DEF Allowance

\* A connection gives up a peer only if it fell silent or a beat found no slot, and one
\* that fell silent within two intervals (Heartbeater.#onTimer).
THEOREM LivelinessHolds == ConnectionSpec => []Liveliness
  BY Implements, HealthyHolds, SilenceHolds, CadenceHolds, PTL DEF Liveliness

LEMMA Parts ==
  ASSUME NEW S, IsFiniteSet(S), NEW T
  PROVE  /\ Cardinality(S) = Cardinality(S \cap T) + Cardinality(S \ T)
         /\ Cardinality(S \cap T) \in Nat /\ Cardinality(S \ T) \in Nat
<1> DEFINE A == S \cap T
           B == S \ T
<1>1. IsFiniteSet(A) /\ IsFiniteSet(B) /\ S = A \cup B /\ A \cap B = {}
  BY FS_Subset
<1> HIDE DEF A, B
<1>2. Cardinality(A \cup B) = Cardinality(A) + Cardinality(B) - Cardinality(A \cap B)
  BY <1>1, FS_Union
<1>3. Cardinality(A) \in Nat /\ Cardinality(B) \in Nat
  BY <1>1, FS_CardinalityType
<1>4. Cardinality(A \cap B) = 0 /\ Cardinality(S) = Cardinality(A \cup B)
  BY <1>1, FS_EmptySet, Zenon
<1>5. Cardinality(S) = Cardinality(A) + Cardinality(B)
  BY <1>2, <1>3, <1>4
<1> QED
  BY <1>3, <1>5 DEF A, B

\* Whole intervals.
LEMMA Intervals ==
  ASSUME NEW a \in Int, NEW b \in Int
  PROVE  /\ a \div Interval \in Int /\ 0 \div Interval = 0
         /\ a >= b => a \div Interval >= b \div Interval
         /\ a >= b + Interval => a \div Interval >= b \div Interval + 1
<1>1. Interval \in Nat \ {0}
  BY HeartbeatAssumption
<1>2. a \div Interval \in Int /\ 0 \div Interval = 0
  BY <1>1
<1>3. a >= b => a \div Interval >= b \div Interval
  BY <1>1
<1>4. a >= b + Interval => a \div Interval >= b \div Interval + 1
  BY <1>1
<1> QED
  BY <1>2, <1>3, <1>4

\* One periodic beat for every interval that begins in a window.
LEMMA BeatsPerWindowType ==
  /\ BeatsPerWindow \in Nat /\ (Window > 0 => BeatsPerWindow >= 1)
  /\ \A a \in Nat : a < Window => a \div Interval < BeatsPerWindow
<1>0. Window \in Nat /\ Interval \in Nat \ {0}
  BY WindowAssumption, HeartbeatAssumption
<1> DEFINE w == Window + Interval - 1
<1>1. w \in Int /\ w >= 0 /\ (Window > 0 => w >= 0 + Interval)
  BY <1>0
<1>2. \A a \in Nat : a < Window => w >= a + Interval
  BY <1>0
<1> HIDE DEF w
<1>3. w \div Interval \in Int /\ 0 \div Interval = 0
  BY <1>1, Intervals
<1>4. w \div Interval >= 0 \div Interval
  BY <1>1, Intervals
<1>5. Window > 0 => w \div Interval >= 0 \div Interval + 1
  BY <1>1, Intervals
<1>6. ASSUME NEW a \in Nat, a < Window PROVE a \div Interval < w \div Interval
  <2>1. w \div Interval >= a \div Interval + 1
    BY <1>1, <1>2, <1>6, Intervals
  <2>2. a \div Interval \in Int
    BY Intervals
  <2> QED
    BY <1>3, <2>1, <2>2
<1> QED
  BY <1>3, <1>4, <1>5, <1>6 DEF BeatsPerWindow, w

\* A beat that finds no slot is in the way of a send.
LEMMA DelayNeedsSend ==
  ASSUME ConnectionTypeOK, LogInv, Delay(ring, Limit, now) > 0
  PROVE  \E i \in 1 .. Len(log) : log[i].at + Window > now
<1>1. /\ ring \in Rings /\ log \in Seq(Entries) /\ now \in Nat /\ RingHolds(ring, log)
      /\ \A i \in 1 .. Len(log) : log[i].at \in Nat
  BY LogEntries DEF ConnectionTypeOK, TypeOK, LogInv
<1>2. Limit \in 1 .. Limit /\ Window \in Nat
  BY WindowAssumption
<1>3. Delay(ring, Limit, now) # 0
  BY <1>1, <1>2, DelayMeans
<1>4. Len(log) >= Limit /\ ~(log[Len(log) + 1 - Limit].at + Window <= now)
  BY <1>1, <1>2, <1>3, DelayMeans
<1>5. Len(log) + 1 - Limit \in 1 .. Len(log)
  BY <1>1, <1>2, <1>4
<1> QED
  BY <1>1, <1>2, <1>4, <1>5

\* When a beat finds no slot, what was sent last are as many beats as the reserve has
\* room for, all of one window, of which only so many were periodic.
LEMMA ReserveSpent ==
  ASSUME ConnectionTypeOK, LogInv, BeatFindsSlot, Delay(ring, Limit, now) > 0,
         NEW P, Periodic(P), NEW base \in {0, 1}, \A i \in P : log[i].at + base * Interval <= now
  PROVE  Reserve <= asked + BeatsPerWindow - base
<1> DEFINE n == Len(log)
           last == n - Reserve + 1 .. n
           mine == last \cap P
           f == [i \in mine |-> (now - log[i].at) \div Interval]
<1>1. /\ n \in Nat /\ now \in Nat /\ asked \in Nat /\ Reserve \in Nat /\ Window \in Nat
      /\ Interval \in Nat \ {0}
      /\ \A i \in 1 .. n : log[i].at \in Nat /\ log[i].at <= now
  BY LogEntries, ConnectionAssumption, QueueAssumption, WindowAssumption, HeartbeatAssumption
     DEF ConnectionTypeOK, TypeOK, LogInv
<1>2. \A i \in last : i \in 1 .. n /\ i \in Beats /\ log[i].at + Window > now
  BY <1>1 DEF BeatFindsSlot, Beats, ConnectionTypeOK, TypeOK
<1>3. IsFiniteSet(last) /\ Cardinality(last) = Reserve
  <2>1. n - Reserve + 1 \in Int /\ n \in Int
    BY <1>1
  <2>2. IsFiniteSet(last) /\ Cardinality(last)
          = IF n - Reserve + 1 > n THEN 0 ELSE n - (n - Reserve + 1) + 1
    BY <2>1, FS_Interval
  <2> QED
    BY <1>1, <2>2
<1>4. IsFiniteSet(Beats) /\ Beats \subseteq 1 .. n
  <2>1. 1 \in Int /\ n \in Int /\ DOMAIN log = 1 .. n
    BY <1>1 DEF ConnectionTypeOK, TypeOK
  <2>2. IsFiniteSet(1 .. n)
    BY <2>1, FS_Interval
  <2>3. Beats \in SUBSET (1 .. n)
    BY <2>1 DEF Beats
  <2> QED
    BY <2>2, <2>3, FS_Subset
<1>5. BeatsPerWindow \in Nat /\ (Window > 0 => BeatsPerWindow >= 1)
      /\ \A a \in Nat : a < Window => a \div Interval < BeatsPerWindow
  BY BeatsPerWindowType
<1>6. Window > 0
  <2>1. CASE last = {}
    <3>1. \E i \in 1 .. n : log[i].at + Window > now
      BY <1>1, DelayNeedsSend
    <3> QED
      BY <1>1, <3>1
  <2>2. CASE last # {}
    BY <1>1, <1>2, <2>2
  <2> QED
    BY <2>1, <2>2
<1>7. IsFiniteSet(mine) /\ Cardinality(mine) <= BeatsPerWindow - base
  <2>1. ASSUME NEW i \in mine PROVE f[i] \in base .. BeatsPerWindow - 1
    <3> DEFINE a == now - log[i].at
    <3>1. a \in Nat /\ a < Window /\ a >= base * Interval
      BY SMTT(30), <1>1, <1>2
    <3>2. f[i] = a \div Interval
      OBVIOUS
    <3> HIDE DEF a, f
    <3>3. a \div Interval \in Int /\ 0 \div Interval = 0 /\ a \div Interval < BeatsPerWindow
      BY <1>5, <3>1, Intervals
    <3>4. a \div Interval >= 0 \div Interval
      BY <3>1, Intervals
    <3>5. ASSUME base = 1 PROVE a \div Interval >= 0 \div Interval + 1
      <4>1. a \in Int /\ 0 \in Int /\ a >= 0 + Interval
        BY <1>1, <3>1, <3>5
      <4> QED
        BY <4>1, Intervals
    <3> QED
      BY <1>5, <3>2, <3>3, <3>4, <3>5
  <2>2. ASSUME NEW i \in mine, NEW j \in mine, i < j PROVE f[i] # f[j]
    <3> DEFINE a == now - log[i].at
               b == now - log[j].at
    <3>1. /\ log[i].at \in Nat /\ log[j].at \in Nat /\ now \in Nat /\ Interval \in Nat
          /\ log[j].at >= log[i].at + Interval
      BY <1>1, <1>2, <2>2 DEF Periodic
    <3>2. a \in Int /\ b \in Int /\ a >= b + Interval
      <4>1. \A x, y, t, v \in Nat : y >= x + v => t - x \in Int /\ t - y \in Int /\ t - x >= (t - y) + v
        OBVIOUS
      <4> QED
        BY ONLY <3>1, <4>1
    <3>3. f[i] = a \div Interval /\ f[j] = b \div Interval
      BY <2>2
    <3> HIDE DEF a, b, f
    <3>4. a \div Interval >= b \div Interval + 1
      BY <3>2, Intervals
    <3>5. a \div Interval \in Int /\ b \div Interval \in Int
      BY <3>2, Intervals
    <3> QED
      BY <3>3, <3>4, <3>5
  <2>3. IsFiniteSet(mine)
    BY <1>3, FS_Subset
  <2>4. /\ IsFiniteSet(base .. BeatsPerWindow - 1)
        /\ Cardinality(base .. BeatsPerWindow - 1) = BeatsPerWindow - base
    <3>1. base \in Int /\ BeatsPerWindow - 1 \in Int
      BY <1>5
    <3>2. /\ IsFiniteSet(base .. BeatsPerWindow - 1)
          /\ Cardinality(base .. BeatsPerWindow - 1)
               = IF base > BeatsPerWindow - 1 THEN 0 ELSE BeatsPerWindow - 1 - base + 1
      BY <3>1, FS_Interval
    <3> QED
      BY <1>5, <1>6, <3>2
  <2>5. f \in Injection(mine, base .. BeatsPerWindow - 1)
    <3>1. \A i \in mine : i \in Int
      BY <1>1
    <3>2. f \in [mine -> base .. BeatsPerWindow - 1]
      BY <2>1
    <3> QED
      BY <2>2, <3>1, <3>2 DEF Injection, IsInjective
  <2> QED
    BY <2>3, <2>4, <2>5, FS_Injection
<1>8. IsFiniteSet(last \ P) /\ Cardinality(last \ P) <= asked
  <2>1. IsFiniteSet(Beats \ P) /\ last \ P \in SUBSET (Beats \ P)
    BY <1>2, <1>4, FS_Subset
  <2>2. IsFiniteSet(last \ P) /\ Cardinality(last \ P) <= Cardinality(Beats \ P)
    BY <2>1, FS_Subset
  <2>3. Cardinality(last \ P) \in Nat /\ Cardinality(Beats \ P) \in Nat
    BY <2>1, <2>2, FS_CardinalityType
  <2> QED
    BY <1>1, <2>2, <2>3 DEF Periodic
<1>9. /\ Cardinality(last) = Cardinality(mine) + Cardinality(last \ P)
      /\ Cardinality(mine) \in Nat /\ Cardinality(last \ P) \in Nat
  BY <1>3, Parts
<1> HIDE DEF mine, last
<1> DEFINE all == Cardinality(last)
           own == Cardinality(mine)
           rest == Cardinality(last \ P)
<1>10. /\ all = own + rest /\ own \in Nat /\ rest \in Nat /\ own <= BeatsPerWindow - base
       /\ rest <= asked /\ all = Reserve
  BY <1>3, <1>7, <1>8, <1>9
<1> HIDE DEF all, own, rest
<1> QED
  BY <1>1, <1>5, <1>10

\* The steps that send no beat.
LEMMA PeriodicKept ==
  ASSUME NEW P, Periodic(P), Beats' = Beats, \A i \in Beats : log'[i].at = log[i].at,
         asked' = asked, timing' => timing /\ now' + due' >= now + due,
         now \in Nat, due \in Nat, now' \in Nat, due' \in Nat,
         \A i \in Beats : log[i].at \in Nat
  PROVE  Periodic(P)'
<1>1. P \subseteq Beats
  BY DEF Periodic
<1>2. \A i, j \in P : i < j => log'[j].at >= log'[i].at + Interval
  BY <1>1 DEF Periodic
<1>3. ASSUME timing', NEW i \in P PROVE log'[i].at + Interval <= now' + due'
  <2>1. log[i].at + Interval <= now + due /\ log'[i].at = log[i].at /\ log[i].at \in Nat
    BY <1>1, <1>3 DEF Periodic
  <2>2. now' + due' >= now + due
    BY <1>3
  <2>3. \A x, v, a, b, c, e \in Nat : x + v <= a + b /\ c + e >= a + b => x + v <= c + e
    OBVIOUS
  <2> QED
    BY <2>1, <2>2, <2>3, HeartbeatAssumption
<1> QED
  BY <1>1, <1>2, <1>3 DEF Periodic

\* What a send adds to the log.
LEMMA LogGrows ==
  ASSUME TypeOK, NEW beat \in BOOLEAN, Record(beat)
  PROVE  /\ Len(log) + 1 \notin Beats
         /\ Beats' = IF beat THEN Beats \cup {Len(log) + 1} ELSE Beats
         /\ \A i \in Beats : log'[i] = log[i] /\ i < Len(log) + 1
         /\ log'[Len(log) + 1].at = now
<1> DEFINE n == Len(log)
<1>1. log \in Seq(Entries) /\ n \in Nat /\ log' = Append(log, [at |-> now, beat |-> beat])
  BY DEF TypeOK, Record
<1>2. Len(log') = n + 1 /\ DOMAIN log = 1 .. n /\ DOMAIN log' = 1 .. n + 1
  BY <1>1
<1>3. \A i \in 1 .. n : log'[i] = log[i]
  BY <1>1
<1>4. log'[n + 1] = [at |-> now, beat |-> beat]
  BY <1>1
<1> HIDE DEF n
<1>5. log'[n + 1].at = now /\ log'[n + 1].beat = beat
  BY <1>4
<1> QED
  BY <1>1, <1>2, <1>3, <1>5 DEF Beats, n

LEMMA BeatsFinite ==
  ASSUME TypeOK
  PROVE  IsFiniteSet(Beats) /\ \A i \in Beats : log[i].at \in Nat
<1>1. log \in Seq(Entries) /\ Len(log) \in Nat /\ DOMAIN log = 1 .. Len(log)
  BY DEF TypeOK
<1>2. IsFiniteSet(1 .. Len(log)) /\ Beats \in SUBSET (1 .. Len(log))
  BY <1>1, FS_Interval DEF Beats
<1> QED
  BY <1>1, <1>2, LogEntries, FS_Subset

LEMMA ReserveStep ==
  ConnectionTypeOK /\ ConnectionTypeOK' /\ LogInv /\ BeatFindsSlot /\ HealthyIsKept'
    /\ ReserveInv /\ [ConnectionNext]_connectionVars => ReserveInv'
<1> SUFFICES ASSUME ConnectionTypeOK, ConnectionTypeOK', LogInv, BeatFindsSlot, HealthyIsKept',
                    ReserveInv, [ConnectionNext]_connectionVars
             PROVE  ReserveInv'
  OBVIOUS
<1>0. PICK P \in SUBSET DOMAIN log : Periodic(P)
  BY DEF ReserveInv
<1>1. /\ TypeOK /\ now \in Nat /\ now' \in Nat /\ due \in Nat /\ due' \in Nat
      /\ asked \in Nat /\ asked' \in Nat /\ Reserve \in Nat
      /\ IsFiniteSet(Beats) /\ \A i \in Beats : log[i].at \in Nat
  <2>1. due \in 0 .. Interval /\ due' \in 0 .. Interval
    BY DEF ConnectionTypeOK, BeatTypeOK
  <2>2. due \in Nat /\ due' \in Nat
    BY <2>1, HeartbeatAssumption
  <2> QED
    BY SMTT(30), <2>2, BeatsFinite, QueueAssumption, ConnectionAssumption DEF ConnectionTypeOK, TypeOK
<1>2. SUFFICES /\ \E Q : Periodic(Q)'
               /\ ~greeted' => Cardinality(Beats') <= asked'
               /\ asked' + BeatsPerWindow <= Reserve => ~refused'
  <2>1. ASSUME NEW Q, Periodic(Q)' PROVE Q \in SUBSET (DOMAIN log)'
    BY <2>1 DEF Periodic, Beats
  <2> QED
    BY <1>2, <2>1 DEF ReserveInv, CommandsNeverKill, HealthyIsKept
<1>3. CASE Command
  <2>1. UNCHANGED <<beatVars, greeted, asked, now>>
    BY <1>3 DEF Command, Acquire, Abort, Rejected, Turn
  <2>2. log' = log \/ Record(FALSE)
    BY <1>3 DEF Command, Acquire, Abort, Rejected, Turn
  <2>3. Beats' = Beats /\ \A i \in Beats : log'[i].at = log[i].at
    BY <1>1, <2>2, LogGrows DEF Beats
  <2>4. Periodic(P)'
    BY <1>0, <1>1, <2>1, <2>3, PeriodicKept DEF beatVars
  <2> QED
    BY <2>1, <2>3, <2>4 DEF beatVars, ReserveInv, CommandsNeverKill
<1>4. CASE Hello
  <2>1. /\ Beats' = Beats /\ Cardinality(Beats) <= asked /\ asked' = asked
        /\ ~refused' /\ greeted'
    BY <1>4 DEF Hello, Start, vars, Beats, ReserveInv
  <2>2. Periodic({})'
    <3>1. Beats' \ {} = Beats
      BY <2>1
    <3>2. Cardinality(Beats' \ {}) = Cardinality(Beats)
      BY Zenon, <3>1
    <3>3. Cardinality(Beats' \ {}) <= asked'
      BY <2>1, <3>2
    <3> QED
      BY <3>3 DEF Periodic
  <2> QED
    BY <2>1, <2>2
<1>5. CASE Quiet
  <2>1. UNCHANGED <<log, now, greeted, asked, refused>>
    BY <1>5 DEF Quiet, vars, Ack, GiveUp, Postpone, Stop, PeerGone
  <2>2. timing' => timing /\ now' + due' >= now + due
    <3>1. CASE Ack \/ PeerGone
      <4>1. timing' = timing /\ due' = due /\ now' = now
        BY <2>1, <3>1, Zenon DEF Ack, PeerGone
      <4>2. now + due >= now + due
        BY <1>1
      <4> QED
        BY <4>1, <4>2
    <3>2. CASE GiveUp \/ Stop
      BY <3>2 DEF GiveUp, Stop
    <3>3. CASE Postpone
      <4>1. due = 0 /\ timing /\ now' = now
        BY <2>1, <3>3 DEF Postpone, Due
      <4>2. now \in Nat /\ due' \in Nat /\ due \in Nat
        BY <1>1
      <4>3. \A m, d, e \in Nat : d = 0 => m + e >= m + d
        OBVIOUS
      <4>4. now + due' >= now + due
        BY Zenon, <4>1, <4>2, <4>3
      <4> QED
        BY Zenon, <4>1, <4>4
    <3>4. Ack \/ GiveUp \/ Postpone \/ Stop \/ PeerGone
      BY <1>5 DEF Quiet
    <3> QED
      BY <3>1, <3>2, <3>3, <3>4
  <2>3. Beats' = Beats
    BY <2>1 DEF Beats
  <2>4. Periodic(P)'
    BY <1>0, <1>1, <2>1, <2>2, <2>3, PeriodicKept
  <2> QED
    BY <2>1, <2>3, <2>4 DEF ReserveInv, CommandsNeverKill
<1>6. CASE Elapse
  <2>1. UNCHANGED <<log, greeted, asked, refused, timing>> /\ now' = now + 1
    BY <1>6 DEF Elapse, Tick, BeatTick
  <2>2. timing' => timing /\ now' + due' >= now + due
    <3>1. timing => due' = due - 1
      BY <1>6 DEF Elapse, BeatTick
    <3>2. due - 1 \in Int /\ (now + 1) + (due - 1) = now + due
      BY <1>1
    <3>3. timing => now' + due' = now + due
      BY <2>1, <3>1, <3>2
    <3>4. now + due \in Nat
      BY <1>1
    <3> QED
      BY <2>1, <3>3, <3>4
  <2>3. Beats' = Beats
    BY <2>1 DEF Beats
  <2>4. Periodic(P)'
    BY <1>0, <1>1, <2>1, <2>2, <2>3, PeriodicKept
  <2> QED
    BY <2>1, <2>3, <2>4 DEF ReserveInv, CommandsNeverKill
<1>7. ASSUME NEW sent \in BOOLEAN, RequestedBeat(sent)
      PROVE  /\ \E Q : Periodic(Q)'
             /\ ~greeted' => Cardinality(Beats') <= asked'
             /\ asked' + BeatsPerWindow <= Reserve => ~refused'
  <2>1. /\ greeted' = greeted /\ asked' = asked + 1 /\ timing' = timing /\ due' = due
        /\ refused' = (refused \/ ~sent) /\ TakeSlot(sent)
    BY <1>7 DEF RequestedBeat, BeatNow, Beat
  <2>2. CASE sent
    <3>1. Record(TRUE) /\ now' = now
      BY <2>1, <2>2 DEF TakeSlot, Heartbeat
    <3> DEFINE n == Len(log)
    <3>2. /\ n + 1 \notin Beats /\ Beats' = Beats \cup {n + 1}
          /\ \A i \in Beats : log'[i] = log[i]
      BY <1>1, <3>1, LogGrows
    <3>3. Cardinality(Beats' \ P) <= asked'
      <4>1. Beats' \ P = (Beats \ P) \cup {n + 1} /\ n + 1 \notin Beats \ P /\ IsFiniteSet(Beats \ P)
        BY <1>0, <1>1, <3>2, FS_Subset DEF Periodic
      <4>2. Cardinality((Beats \ P) \cup {n + 1}) = Cardinality(Beats \ P) + 1
        BY <4>1, FS_AddElement
      <4>3. Cardinality(Beats' \ P) = Cardinality(Beats \ P) + 1 /\ Cardinality(Beats \ P) \in Nat
        BY <4>1, <4>2, FS_CardinalityType, Zenon
      <4> QED
        BY <1>0, <1>1, <2>1, <4>3 DEF Periodic
    <3>4. Periodic(P)'
      <4>1. P \subseteq Beats /\ P \subseteq Beats'
        BY <1>0, <3>2 DEF Periodic
      <4>2. \A i, j \in P : i < j => log'[j].at >= log'[i].at + Interval
        BY <1>0, <3>2, <4>1 DEF Periodic
      <4>3. timing' => \A i \in P : log'[i].at + Interval <= now' + due'
        BY <1>0, <2>1, <3>1, <3>2, <4>1 DEF Periodic
      <4> QED
        BY <3>3, <4>1, <4>2, <4>3 DEF Periodic
    <3>6. ~greeted' => Cardinality(Beats') <= asked'
      <4>1. n + 1 \notin Beats /\ IsFiniteSet(Beats)
        BY <1>1, <3>2
      <4>2. Cardinality(Beats') = Cardinality(Beats) + 1 /\ Cardinality(Beats) \in Nat
        BY <3>2, <4>1, FS_AddElement, FS_CardinalityType, Zenon
      <4>3. ~greeted => Cardinality(Beats) <= asked
        BY DEF ReserveInv
      <4> QED
        BY <1>1, <2>1, <4>2, <4>3
    <3>5. asked' + BeatsPerWindow <= Reserve => asked + BeatsPerWindow <= Reserve
      BY <1>1, <2>1, BeatsPerWindowType
    <3> QED
      BY <2>1, <2>2, <3>4, <3>5, <3>6 DEF ReserveInv, CommandsNeverKill
  <2>3. CASE ~sent
    <3>1. UNCHANGED <<log, now>> /\ Delay(ring, Limit, now) > 0
      BY <2>1, <2>3 DEF TakeSlot, vars
    <3>2. Periodic(P)'
      <4>1. Beats' = Beats
        BY <3>1 DEF Beats
      <4>2. Cardinality(Beats \ P) <= asked'
        <5>1. Cardinality(Beats \ P) \in Nat
          BY <1>1, FS_Subset, FS_CardinalityType
        <5> QED
          BY <1>0, <1>1, <2>1, <5>1 DEF Periodic
      <4> QED
        BY <1>0, <2>1, <3>1, <4>1, <4>2 DEF Periodic
    <3>5. ~greeted' => Cardinality(Beats') <= asked'
      <4>1. Beats' = Beats /\ Cardinality(Beats) \in Nat
        BY <1>1, <3>1, FS_CardinalityType DEF Beats
      <4>2. ~greeted => Cardinality(Beats) <= asked
        BY DEF ReserveInv
      <4> QED
        BY <1>1, <2>1, <4>1, <4>2
    <3>3. Reserve <= asked + BeatsPerWindow - 0
      <4>1. \A i \in P : log[i].at + 0 * Interval <= now
        <5>1. ASSUME NEW i \in P PROVE log[i].at <= now /\ log[i].at \in Nat
          BY <1>0, <1>1 DEF Periodic, Beats, LogInv, TypeOK
        <5> QED
          BY <5>1, HeartbeatAssumption
      <4> QED
        BY <1>0, <3>1, <4>1, ReserveSpent
    <3>4. ~(asked' + BeatsPerWindow <= Reserve)
      BY <1>1, <2>1, <3>3, BeatsPerWindowType
    <3> QED
      BY <2>1, <3>2, <3>4, <3>5
  <2> QED
    BY <2>2, <2>3
<1>8. ASSUME NEW sent \in BOOLEAN, ScheduledBeat(sent)
      PROVE  /\ \E Q : Periodic(Q)'
             /\ ~greeted' => Cardinality(Beats') <= asked'
             /\ asked' + BeatsPerWindow <= Reserve => ~refused'
  <2>1. /\ greeted' = greeted /\ asked' = asked /\ timing /\ timing' /\ due = 0 /\ due' = Interval
        /\ refused' = (refused \/ ~sent) /\ TakeSlot(sent) /\ greeted
    BY <1>8 DEF ScheduledBeat, PeriodicBeat, Beat, Due, ConnectionTypeOK
  <2>2. \A i \in P : log[i].at + Interval <= now
    BY <1>0, <1>1, <2>1 DEF Periodic
  <2>3. CASE sent
    <3>1. Record(TRUE) /\ now' = now
      BY <2>1, <2>3 DEF TakeSlot, Heartbeat
    <3>0. PICK n \in Nat : n = Len(log)
      BY <1>1 DEF TypeOK
    <3> DEFINE Q == P \cup {n + 1}
    <3>2. /\ n + 1 \notin Beats /\ Beats' = Beats \cup {n + 1}
          /\ \A i \in Beats : log'[i] = log[i] /\ i < n + 1
          /\ log'[n + 1].at = now
      BY <1>1, <3>0, <3>1, LogGrows
    <3>3. P \subseteq Beats
      BY <1>0 DEF Periodic
    <3>4. Periodic(Q)'
      <4>1. Q \subseteq Beats' /\ Beats' \ Q = Beats \ P
        BY <3>2, <3>3
      <4>2. Cardinality(Beats' \ Q) <= asked'
        BY <1>0, <2>1, <4>1 DEF Periodic
      <4>3. ASSUME NEW i \in Q, NEW j \in Q, i < j PROVE log'[j].at >= log'[i].at + Interval
        <5>1. CASE j = n + 1
          <6>1. i # n + 1
            BY <1>1, <4>3, <5>1 DEF TypeOK
          <6> QED
            BY <2>2, <3>2, <3>3, <4>3, <5>1, <6>1, <1>1, HeartbeatAssumption
        <5>2. CASE j # n + 1
          <6>1. j \in Beats /\ j < n + 1 /\ j \in Nat /\ n \in Nat
            BY <1>1, <3>2, <3>3, <4>3, <5>2 DEF Beats, TypeOK
          <6>2. i # n + 1
            BY <4>3, <6>1
          <6> QED
            BY <1>0, <3>2, <3>3, <4>3, <5>2, <6>2 DEF Periodic
        <5> QED
          BY <5>1, <5>2
      <4>4. \A i \in Q : log'[i].at + Interval <= now' + due'
        BY <1>1, <2>1, <2>2, <3>1, <3>2, <3>3, HeartbeatAssumption
      <4> QED
        BY <4>1, <4>2, <4>3, <4>4 DEF Periodic
    <3> QED
      BY <2>1, <2>3, <3>4 DEF ReserveInv, CommandsNeverKill
  <2>4. CASE ~sent
    <3>1. UNCHANGED <<log, now>> /\ Delay(ring, Limit, now) > 0
      BY <2>1, <2>4 DEF TakeSlot, vars
    <3>2. Periodic(P)'
      <4>1. now' + due' >= now + due
        BY <1>1, <2>1, <3>1, HeartbeatAssumption
      <4> QED
        BY <1>0, <1>1, <2>1, <3>1, <4>1, PeriodicKept DEF Beats
    <3>3. Reserve <= asked + BeatsPerWindow - 1
      <4>1. \A i \in P : log[i].at + 1 * Interval <= now
        BY <2>2, HeartbeatAssumption
      <4> QED
        BY <1>0, <3>1, <4>1, ReserveSpent
    <3>4. ~(asked' + BeatsPerWindow <= Reserve)
      BY <1>1, <2>1, <3>3, BeatsPerWindowType
    <3> QED
      BY <2>1, <3>2, <3>4
  <2> QED
    BY <2>3, <2>4
<1>9. CASE UNCHANGED connectionVars
  <2>1. UNCHANGED <<log, now, due, timing, greeted, asked, refused>>
    BY <1>9 DEF connectionVars, vars, beatVars
  <2>2. Periodic(P)'
    BY <1>0, <1>1, <2>1, PeriodicKept DEF Beats
  <2> QED
    BY <2>1, <2>2 DEF Beats, ReserveInv, CommandsNeverKill
<1> QED
  BY <1>3, <1>4, <1>5, <1>6, <1>7, <1>8, <1>9 DEF ConnectionNext

LEMMA ReserveStart == ConnectionInit => ReserveInv
<1> SUFFICES ASSUME ConnectionInit PROVE ReserveInv
  OBVIOUS
<1>1. Beats = {} /\ asked = 0 /\ ~refused /\ ~zombie
  BY DEF ConnectionInit, Init, BeatInit, Beats
<1>2. Beats \ {} = Beats /\ Cardinality(Beats) = 0
  BY <1>1, FS_EmptySet, Zenon
<1>3. Cardinality(Beats \ {}) <= asked
  BY <1>1, <1>2
<1>4. Periodic({})
  BY <1>3 DEF Periodic
<1>5. Cardinality(Beats) <= asked
  BY <1>1, <1>2
<1> QED
  BY <1>1, <1>4, <1>5 DEF ReserveInv, CommandsNeverKill

\* No number of waiting, aborted or refused commands costs the connection a beat, or a
\* peer that answers its connection: as long as the peer asks for no more beats than the
\* reserve has room for beside the periodic ones (SendQueue.tryTakeHeartbeatSlot).
THEOREM ReserveSuffices == ConnectionSpec => []CommandsNeverKill
<1>1. Inv => LogInv
  BY DEF Inv, WindowInv
<1>2. ReserveInv => CommandsNeverKill
  BY DEF ReserveInv
<1>3. HeartInv => HealthyIsKept
  BY DEF HeartInv
<1> QED
  BY <1>1, <1>2, <1>3, ReserveStart, ReserveStep, ConnectionTypeCorrect, Implements, InvHolds,
     HeartHolds, ReserveHolds, PTL DEF ConnectionSpec

=============================================================================
