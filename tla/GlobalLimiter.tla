--------------------------- MODULE GlobalLimiter ---------------------------
(***************************************************************************)
(* The account-wide limit above every bucket:                              *)
(* packages/rest/src/ratelimit/GlobalLimiter.ts.  acquire() runs without a *)
(* pause up to its sleep, so a turn of its loop is one action.             *)
(***************************************************************************)
EXTENDS SlidingWindow

CONSTANTS
  Requests,
  Exempt,     \* the requests on exempt routes
  Ceiling,    \* rateLimitTimeout; more than any wait stands for null
  MaxBlock,   \* bound: how far ahead a 429 blocks
  MaxTime,    \* bound: the clock
  MaxSends    \* bound: sends recorded

ASSUME LimiterAssumption ==
  Exempt \subseteq Requests /\ Ceiling \in Nat /\ MaxBlock \in Nat
  /\ MaxTime \in Nat /\ MaxSends \in Nat

VARIABLES
  now, ring, blockedUntil,
  asleep,     \* the requests in a sleep ...
  wake,       \* ... and when it ends
  log,        \* history: the sends that count
  promised,   \* history: the latest time a 429 named
  tooEarly    \* history: whether any send, exempt or not, went out before that

limiterVars == <<now, ring, blockedUntil, asleep, wake, log, promised, tooEarly>>

LimiterInit ==
  /\ now = 0 /\ ring = EmptyRing /\ blockedUntil = 0
  /\ asleep = {} /\ wake = [c \in Requests |-> 0]
  /\ log = <<>> /\ promised = 0 /\ tooEarly = FALSE

WakeUp(c) == asleep' = asleep \ {c} /\ wake' = [wake EXCEPT ![c] = 0]

\* acquire() returns and the request goes out.
Send(c) ==
  /\ WakeUp(c)
  /\ tooEarly' = (tooEarly \/ now < promised)
  /\ UNCHANGED <<now, blockedUntil, promised>>

\* onWait throws when the delay exceeds the ceiling; if not, sleep.
Wait(c, delay) ==
  /\ \/ delay > Ceiling /\ WakeUp(c)
     \/ /\ delay <= Ceiling
        /\ asleep' = asleep \cup {c} /\ wake' = [wake EXCEPT ![c] = now + delay]
  /\ UNCHANGED <<now, ring, blockedUntil, log, promised, tooEarly>>

\* A turn of the loop: of a new call, or when the sleep is over.
Turn(c) ==
  /\ c \in asleep => wake[c] <= now
  /\ \/ blockedUntil > now /\ Wait(c, blockedUntil - now)
     \/ /\ blockedUntil <= now /\ c \in Exempt
        /\ Send(c) /\ UNCHANGED <<ring, log>>
     \/ /\ blockedUntil <= now /\ c \notin Exempt
        /\ Delay(ring, Limit, now) > 0
        /\ Wait(c, Delay(ring, Limit, now))
     \/ /\ blockedUntil <= now /\ c \notin Exempt
        /\ Delay(ring, Limit, now) = 0 /\ Len(log) < MaxSends
        /\ Send(c)
        /\ ring' = Recorded(ring, now)
        /\ log' = Append(log, [at |-> now])

Abort(c) ==
  /\ c \in asleep
  /\ WakeUp(c)
  /\ UNCHANGED <<now, ring, blockedUntil, log, promised, tooEarly>>

Replace(until) == until
Extend(until) == IF until > blockedUntil THEN until ELSE blockedUntil

\* blockUntil, on a 429 of a request that is in flight.
BlockUntil(until) ==
  /\ blockedUntil' = Extend(until)
  /\ promised' = IF until > promised THEN until ELSE promised
  /\ UNCHANGED <<now, ring, asleep, wake, log, tooEarly>>

Tick ==
  /\ now < MaxTime
  /\ now' = now + 1
  /\ UNCHANGED <<ring, blockedUntil, asleep, wake, log, promised, tooEarly>>

LimiterNext ==
  \/ \E c \in Requests : Turn(c) \/ Abort(c)
  \/ \E until \in now + 1 .. now + MaxBlock : BlockUntil(until)
  \/ Tick

LimiterSpec == LimiterInit /\ [][LimiterNext]_limiterVars

-----------------------------------------------------------------------------
Entries == [at : Nat]

LimiterTypeOK ==
  /\ now \in Nat /\ ring \in Rings /\ blockedUntil \in Nat
  /\ asleep \subseteq Requests /\ wake \in [Requests -> Nat]
  /\ log \in Seq(Entries) /\ promised \in Nat
  /\ tooEarly \in BOOLEAN

\* "A true sliding window, not a window that resets on a fixed boundary": however
\* many requests sleep for the same slot, no second sees more than the limit.
WindowRespected == Spaced(log)

\* "during which no request may go out": nothing is sent before the latest time
\* any 429 named, exempt or not, even if a later 429 names an earlier time.
BlockRespected == ~tooEarly

\* acquire() returns only inside both limits.
LimitRespected == WindowRespected /\ BlockRespected

-----------------------------------------------------------------------------
LimiterInv ==
  /\ RingHolds(ring, log) /\ WindowRespected
  /\ promised <= blockedUntil /\ BlockRespected
=============================================================================
