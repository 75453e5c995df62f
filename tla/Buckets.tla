------------------------------ MODULE Buckets ------------------------------
(***************************************************************************)
(* The pacing of REST requests by Discord's buckets:                       *)
(* packages/rest/src/ratelimit/SequentialHandler.ts and BucketRegistry.ts, *)
(* with the service that counts the requests and answers them.  Each queue *)
(* is the lock FifoLock that AsyncQueue implements; the waits of           *)
(* GlobalLimiter are the time a request may spend "ready".  Times are      *)
(* ticks from now, and timers may fire late.                               *)
(***************************************************************************)
EXTENDS Integers

CONSTANTS
  Routes, Majors, Hashes,
  Requests,
  Of,         \* the route and major parameter of each request
  First,      \* the bucket Discord assigns to each route at first
  Moving,     \* the routes to which it assigns another one later
  Limit,      \* requests per window of a bucket
  Window,     \* its length
  Retries,    \* options.retries
  Ceiling,    \* options.rateLimitTimeout; Window stands for null
  None

Infinity == Limit + 1       \* a limit no response has revealed
States == [limit : {Limit, Infinity}, remaining : {n \in Int : n <= Limit}, resetIn : 0 .. Window]

ASSUME BucketsAssumption ==
  /\ Of \in [Requests -> Routes \X Majors] /\ First \in [Routes -> Hashes]
  /\ Routes \cap Hashes = {} /\ None \notin Routes \cup Hashes \cup States
  /\ Limit \in Nat \ {0} /\ Window \in Nat \ {0} /\ Retries \in Nat
  /\ Ceiling \in Nat /\ Moving \subseteq Routes

VARIABLES
  ahead,     \* who is in the line of a request's queue since before it
  req,       \* each request: what it is at and the locals of its #run
  hashes,    \* #hashes
  states,    \* #states, by hash or provisional route, and major parameter
  assigned,  \* Discord's assignment of routes to buckets
  srv,       \* the window of each bucket at Discord, if one is open
  told,      \* history: buckets that an answer said are exhausted, until their reset
  breached,  \* history: whether a request was let through to such a bucket
  overrun,   \* history: whether Discord had to refuse a request
  unheard    \* history: whether a request was counted and its headers never seen

vars == <<ahead, req, hashes, states, assigned, srv, told, breached, overrun, unheard>>

service == <<assigned, srv, told, overrun, unheard>>

Keys == (Routes \cup Hashes) \X Majors
Buckets == Hashes \X Majors
NewState == [limit |-> Infinity, remaining |-> 1, resetIn |-> 0]
NoAnswer == [bucket |-> None, remaining |-> 0, resetIn |-> 0, limited |-> FALSE, current |-> FALSE]
Own == <<None, None>>       \* where a state is that only its request still holds
Idle == [phase |-> "idle", timer |-> 0, attempt |-> 0, at |-> Own, own |-> NewState,
         answer |-> NoAnswer]

Init ==
  /\ ahead = [r \in Requests |-> {}]
  /\ req = [r \in Requests |-> Idle]
  /\ hashes = [route \in Routes |-> None]
  /\ states = [k \in Keys |-> None]
  /\ assigned = First
  /\ srv = [b \in Buckets |-> [left |-> 0, resetIn |-> 0]]
  /\ told = {} /\ breached = FALSE /\ overrun = FALSE /\ unheard = FALSE

Route(r) == Of[r][1]
Bucket(r) == <<assigned[Route(r)], Of[r][2]>>

-----------------------------------------------------------------------------
(* The bucket states.                                                      *)

\* #stateKey
ProvisionalKey(r) == <<Route(r), Of[r][2]>>
StateKey(r) == <<IF hashes[Route(r)] = None THEN Route(r) ELSE hashes[Route(r)], Of[r][2]>>

State(r) == IF req[r].at = Own THEN req[r].own ELSE states[req[r].at]

\* The request goes on as q, after setting its bucket state to s.
Put(r, q, s) ==
  IF q.at = Own THEN req' = [req EXCEPT ![r] = [q EXCEPT !.own = s]] /\ UNCHANGED states
  ELSE req' = [req EXCEPT ![r] = q] /\ states' = [states EXCEPT ![q.at] = s]

Lower(a, b) == IF a < b THEN a ELSE b
Higher(a, b) == IF a > b THEN a ELSE b

Merged(current, pending) ==
  [limit |-> Lower(current.limit, pending.limit),
   remaining |-> Lower(current.remaining, pending.remaining),
   resetIn |-> Higher(current.resetIn, pending.resetIn)]

\* setHash, on the states: provisional ones move to the hash or are merged into
\* what is there already.
Migrated(route, hash) ==
  IF hashes[route] = hash THEN states
  ELSE [k \in Keys |->
    IF k[1] = route THEN None
    ELSE IF k[1] # hash \/ states[<<route, k[2]>>] = None THEN states[k]
    ELSE IF states[k] = None THEN states[<<route, k[2]>>]
    ELSE Merged(states[k], states[<<route, k[2]>>])]

\* setHash, on a request that holds one of them: the object merged away is its own.
Followed(q, route, hash) ==
  IF hashes[route] = hash \/ q.at[1] # route THEN q
  ELSE IF states[<<hash, q.at[2]>>] = None THEN [q EXCEPT !.at = <<hash, q.at[2]>>]
  ELSE [q EXCEPT !.own = states[q.at], !.at = Own]

\* "assume a fresh allowance"
AssumeFresh(s) == [s EXCEPT !.remaining = IF s.limit = Infinity THEN 1 ELSE s.limit]

-----------------------------------------------------------------------------
(* The handler.                                                            *)

Queued(i) == {r \in Requests : Of[r] = i /\ req[r].phase # "idle"}

Enqueue(r) ==
  /\ req[r].phase = "idle"
  /\ req' = [req EXCEPT ![r].phase = "queued"]
  /\ ahead' = [ahead EXCEPT ![r] = Queued(Of[r])]
  /\ UNCHANGED <<hashes, states, service, breached>>

\* The finally of queue(); an aborted wait leaves the line as well.
LeaveLine(r) == ahead' = [o \in Requests |-> IF o = r THEN {} ELSE ahead[o] \ {r}]

\* queue() returns or throws.
Leave(r) == req' = [req EXCEPT ![r] = Idle] /\ LeaveLine(r)

\* The client knows which bucket the route is in, and was told that it is exhausted.
KnownExhausted(r) == hashes[Route(r)] = assigned[Route(r)] /\ Bucket(r) \in told

\* #awaitAvailability up to its await, and what its caller does if there is none.
Check(r, q, s) ==
  \/ /\ s.remaining > 0
     /\ Put(r, [q EXCEPT !.phase = "ready"], s) /\ UNCHANGED ahead
  \/ /\ s.remaining <= 0 /\ s.resetIn = 0
     /\ Put(r, [q EXCEPT !.phase = "ready"], AssumeFresh(s)) /\ UNCHANGED ahead
  \/ /\ s.remaining <= 0 /\ s.resetIn > 0 /\ s.resetIn <= Ceiling
     /\ Put(r, [q EXCEPT !.phase = "asleep", !.timer = s.resetIn], s) /\ UNCHANGED ahead
  \/ /\ s.remaining <= 0 /\ s.resetIn > Ceiling
     /\ Leave(r) /\ UNCHANGED states

\* The request is past #awaitAvailability, or not.
Admit(r) == breached' = (breached \/ (req'[r].phase = "ready" /\ KnownExhausted(r)))

AnyInLine(r) == TRUE
FirstInLine(r) == ahead[r] = {}

\* #run begins, with getState.
Begin(r) ==
  /\ req[r].phase = "queued" /\ FirstInLine(r)
  /\ LET k == StateKey(r)
     IN Check(r, [req[r] EXCEPT !.at = k], IF states[k] = None THEN NewState ELSE states[k])
  /\ Admit(r)
  /\ UNCHANGED <<hashes, service>>

\* The sleep is over, of #awaitAvailability or after a 429, and so is its window.
Wake(r) ==
  /\ req[r].phase = "asleep" /\ req[r].timer = 0
  /\ Put(r, [req[r] EXCEPT !.phase = "ready"], AssumeFresh(State(r)))
  /\ Admit(r)
  /\ UNCHANGED <<ahead, hashes, service>>

\* The global limiter lets the request through: "spend the allowance before sending".
Send(r) ==
  /\ req[r].phase = "ready"
  /\ Put(r, [req[r] EXCEPT !.phase = "sent"], [State(r) EXCEPT !.remaining = @ - 1])
  /\ UNCHANGED <<ahead, hashes, service, breached>>

Uncounted(q) == q
\* The next attempt.
Again(q) == [q EXCEPT !.attempt = @ + 1]

\* #applyHeaders: setHash comes first, the headers go to the state held since #run began.
ApplyHeaders(r, after) ==
  LET a == req[r].answer
      s == [limit |-> Limit, remaining |-> a.remaining, resetIn |-> a.resetIn]
      at == Followed(req[r], Route(r), a.bucket[1]).at
      migrated == Migrated(Route(r), a.bucket[1])
      followed == [o \in Requests |-> Followed(req[o], Route(r), a.bucket[1])]
  IN /\ hashes' = [hashes EXCEPT ![Route(r)] = a.bucket[1]]
     /\ states' = IF at = Own THEN migrated ELSE [migrated EXCEPT ![at] = s]
     /\ req' = [followed EXCEPT ![r] =
          IF after.phase = "idle" THEN Idle
          ELSE [after EXCEPT !.at = at, !.own = IF at = Own THEN s ELSE NewState]]

NoPause(a) == 0
Pause(a) == a.resetIn

\* A response with rate-limit headers.  A 429 sleeps for as long as they say, a
\* retryable status backs off, anything else is returned.
Deliver(r) ==
  LET a == req[r].answer
      mayRetry == req[r].attempt < Retries
  IN /\ req[r].phase = "answered"
     /\ \/ /\ a.limited /\ mayRetry /\ a.resetIn <= Ceiling /\ UNCHANGED ahead
           /\ ApplyHeaders(r, [Again(req[r]) EXCEPT !.phase = "asleep", !.timer = Pause(a)])
        \/ /\ ~a.limited /\ mayRetry /\ UNCHANGED ahead
           /\ ApplyHeaders(r, [Again(req[r]) EXCEPT !.phase = "backoff"])
        \/ /\ a.limited => ~mayRetry \/ a.resetIn > Ceiling
           /\ LeaveLine(r) /\ ApplyHeaders(r, Idle)
     /\ told' = IF a.current /\ a.remaining = 0 THEN told \cup {a.bucket} ELSE told
     /\ UNCHANGED <<assigned, srv, breached, overrun, unheard>>

\* A 429 of another scope, with retry-after alone: sleep, then assume a fresh allowance.
\* How long is up to the service; waking late covers it.
Throttled(r) ==
  /\ req[r].phase = "sent"
  /\ \/ /\ req[r].attempt < Retries
        /\ req' = [req EXCEPT ![r] = [Again(@) EXCEPT !.phase = "asleep", !.timer = 0]]
        /\ UNCHANGED ahead
     \/ Leave(r)
  /\ UNCHANGED <<hashes, states, service, breached>>

-----------------------------------------------------------------------------
(* The service.                                                            *)

Opened(b) == IF srv[b].resetIn = 0 THEN [left |-> Limit, resetIn |-> Window] ELSE srv[b]
Counted(b) == srv' = [srv EXCEPT ![b] = [Opened(b) EXCEPT !.left = @ - 1]]

Serve(r) ==
  LET b == Bucket(r)
      full == Opened(b).left = 0
  IN /\ req[r].phase = "sent"
     /\ IF full THEN UNCHANGED srv ELSE Counted(b)
     /\ overrun' = (overrun \/ full)
     /\ req' = [req EXCEPT ![r].phase = "answered",
          ![r].answer = [bucket |-> b, limited |-> full, current |-> TRUE,
                         remaining |-> IF full THEN 0 ELSE Opened(b).left - 1,
                         resetIn |-> Opened(b).resetIn]]
     /\ UNCHANGED <<ahead, hashes, states, assigned, told, breached, unheard>>

\* A request that failed on its way may have been counted, or not.
Lost(r) ==
  /\ UNCHANGED <<assigned, told, overrun>>
  /\ \/ UNCHANGED <<srv, unheard>>
     \/ Opened(Bucket(r)).left > 0 /\ Counted(Bucket(r)) /\ unheard' = TRUE

\* A transport failure, or a retryable status without rate-limit headers: back off.
Fail(r) ==
  /\ req[r].phase = "sent"
  /\ Lost(r)
  /\ \/ /\ req[r].attempt < Retries
        /\ req' = [req EXCEPT ![r] = [Again(@) EXCEPT !.phase = "backoff"]]
        /\ UNCHANGED ahead
     \/ req[r].attempt >= Retries /\ Leave(r)
  /\ UNCHANGED <<hashes, states, breached>>

BackedOff(r) ==
  /\ req[r].phase = "backoff"
  /\ Check(r, req[r], State(r))
  /\ Admit(r)
  /\ UNCHANGED <<hashes, service>>

\* The signal aborts, the wait exceeds the ceiling, or InvalidRequestTracker refuses.
Abandon(r) ==
  /\ req[r].phase # "idle"
  /\ Leave(r)
  /\ \/ req[r].phase = "sent" /\ Lost(r)
     \/ /\ req[r].phase # "sent"
        /\ unheard' = (unheard \/ req[r].phase = "answered")
        /\ UNCHANGED <<assigned, srv, told, overrun>>
  /\ UNCHANGED <<hashes, states, breached>>

\* Bound: a route is moved once.
Remap(route) ==
  /\ route \in Moving /\ assigned[route] = First[route]
  /\ \E hash \in Hashes \ {assigned[route]} :
       assigned' = [assigned EXCEPT ![route] = hash]
  /\ UNCHANGED <<ahead, req, hashes, states, srv, told, breached, overrun, unheard>>

-----------------------------------------------------------------------------
(* Time.                                                                   *)

\* sweep(), of what nobody used for a day: longer than any window or request.
Quiet(k) ==
  /\ states[k] # None => states[k].resetIn = 0
  /\ \A r \in Requests : req[r].at # k
  /\ k \in Buckets => srv[k].resetIn = 0

SweepState(k) ==
  /\ states[k] # None /\ Quiet(k)
  /\ states' = [states EXCEPT ![k] = None]
  /\ UNCHANGED <<ahead, req, hashes, service, breached>>

\* A hash is touched whenever a state is looked up through it.
SweepHash(route) ==
  /\ hashes[route] # None
  /\ \A r \in Requests : Route(r) = route => req[r].phase = "idle"
  /\ \/ \E other \in Routes \ {route} : hashes[other] = hashes[route]
     \/ \A major \in Majors : states[<<hashes[route], major>>] = None
  /\ hashes' = [hashes EXCEPT ![route] = None]
  /\ UNCHANGED <<ahead, req, states, service, breached>>

Sooner(n) == IF n = 0 THEN 0 ELSE n - 1
Later(s) == IF s = None THEN None ELSE [s EXCEPT !.resetIn = Sooner(@)]

Tick ==
  /\ srv' = [b \in Buckets |-> IF srv[b].resetIn <= 1 THEN [left |-> 0, resetIn |-> 0]
                               ELSE [srv[b] EXCEPT !.resetIn = @ - 1]]
  /\ states' = [k \in Keys |-> Later(states[k])]
  /\ req' = [r \in Requests |-> [req[r] EXCEPT !.timer = Sooner(@), !.own = Later(@),
       !.answer.current = @ /\ srv[req[r].answer.bucket].resetIn > 1]]
  /\ told' = {b \in told : srv[b].resetIn > 1}
  /\ UNCHANGED <<ahead, hashes, assigned, breached, overrun, unheard>>

Step(r) ==
  \/ Enqueue(r) \/ Begin(r) \/ Wake(r) \/ Send(r) \/ Deliver(r) \/ Throttled(r)
  \/ Serve(r) \/ Fail(r) \/ BackedOff(r) \/ Abandon(r)

Next ==
  \/ \E r \in Requests : Step(r)
  \/ \E route \in Routes : Remap(route) \/ SweepHash(route)
  \/ \E k \in Keys : SweepState(k)
  \/ Tick

Spec == Init /\ [][Next]_vars

\* Timers fire, promises run and Discord answers; nobody has to abort or remap.
Progress(r) ==
  Begin(r) \/ Wake(r) \/ Send(r) \/ Deliver(r) \/ BackedOff(r)
  \/ Serve(r) \/ Fail(r) \/ Throttled(r)
FairSpec == Spec /\ WF_vars(Tick) /\ \A r \in Requests : WF_vars(Progress(r))

-----------------------------------------------------------------------------
Answers == [bucket : Buckets \cup {None}, remaining : 0 .. Limit, resetIn : 0 .. Window,
            limited : BOOLEAN, current : BOOLEAN]
Phases == {"idle", "queued", "ready", "asleep", "sent", "answered", "backoff"}
Runs == [phase : Phases, timer : 0 .. Window, attempt : 0 .. Retries,
         at : Keys \cup {Own}, own : States, answer : Answers]
Running(r) == req[r].phase \notin {"idle", "queued"}

TypeOK ==
  /\ ahead \in [Requests -> SUBSET Requests]
  /\ req \in [Requests -> Runs]
  /\ hashes \in [Routes -> Hashes \cup {None}] /\ assigned \in [Routes -> Hashes]
  /\ states \in [Keys -> States \cup {None}]
  /\ \A r \in Requests :
       /\ State(r) # None
       /\ req[r].phase = "answered" => req[r].answer.bucket \in Buckets
  /\ srv \in [Buckets -> [left : 0 .. Limit, resetIn : 0 .. Window]]
  /\ told \subseteq Buckets
  /\ breached \in BOOLEAN /\ overrun \in BOOLEAN /\ unheard \in BOOLEAN

\* "a known-exhausted window is never optimistically forgotten": no request goes
\* to a bucket that an answer the client has seen said is exhausted.
KnownExhaustedRespected == ~breached

\* Discord never has to refuse a request for its own bucket, unless it counted one
\* whose headers the client never saw: every 429 counts towards a ban.
NeverRefused == overrun => unheard

\* "Spend the allowance before sending ... without this both would read the same
\* `remaining` and send concurrently into the same allowance".
NeverOverspent == \A r \in Requests : req[r].phase = "sent" => State(r).remaining >= 0

\* "the wait is over, so assume the allowance is fresh until a response says
\* otherwise": not if, during the wait, a response to another route said otherwise.
FreshUntilTold == [][\A r \in Requests : Wake(r) => ~KnownExhausted(r)]_vars

\* "Retrying at exactly `retry_after` is how one 429 becomes two": a request that a
\* window refused is not sent again until that window is over.
RetriesAfterReset ==
  TypeOK /\ \A r \in Requests :
    req[r].phase \in {"ready", "sent"} => ~(req[r].answer.limited /\ req[r].answer.current)

\* Each queue is the lock that AsyncQueue implements: one request at a time, in the
\* order they came, whoever aborts, fails or retries.
Queues == Routes \X Majors
Users(i) == {r \in Requests : Of[r] = i}
AtWork(i) == {r \in Users(i) : Running(r)}
Order(i) == [r \in Users(i) |-> ahead[r]]
Queue(i) == INSTANCE FifoLock WITH
  Callers <- Users(i), inLine <- Queued(i), granted <- AtWork(i), ahead <- Order(i)
QueuesServeInOrder ==
  /\ \A i \in Queues : Queue(i)!Init
  /\ [][\A i \in Queues : [Queue(i)!Next]_<<Queued(i), AtWork(i), Order(i)>>]_vars

\* Whatever is refused, lost or aborted, every request ends, and so do the waits of
\* those behind it.
EveryRequestEnds == \A r \in Requests : req[r].phase # "idle" ~> req[r].phase = "idle"

-----------------------------------------------------------------------------
(* What makes them inductive (SequentialHandlerProofs).                              *)

\* One request of a queue is at work, in the order they came.
OneAtWork ==
  /\ \A r \in Requests :
       ahead[r] \subseteq Queued(Of[r]) \ {r} /\ (Running(r) => ahead[r] = {})
  /\ \A r, o \in Requests :
       r # o /\ o \in Queued(Of[r]) /\ req[r].phase # "idle" => r \in ahead[o] \/ o \in ahead[r]

\* An answer outlives its window only as one that is not current, and a sleep that it
\* caused outlives the window.
RefusalsHeard ==
  \A r \in Requests :
    LET a == req[r].answer
    IN /\ a.current => a.bucket \in Buckets /\ srv[a.bucket].resetIn \in 1 .. a.resetIn
       /\ a.limited /\ a.current =>
            \/ req[r].phase = "answered"
            \/ req[r].phase = "asleep" /\ srv[a.bucket].resetIn <= req[r].timer

\* A route with a bucket of its own, which it keeps.
OwnBuckets == Moving = {} /\ \A p, q \in Routes : First[p] = First[q] => p = q

Its(i) == <<First[i[1]], i[2]>>

\* Then there is one state for each, under the hash as soon as it is known.
OnePlace ==
  /\ assigned = First
  /\ \A p \in Routes : hashes[p] \in {None, First[p]}
  /\ \A p \in Routes, m \in Majors :
       IF hashes[p] = None THEN states[<<First[p], m>>] = None ELSE states[<<p, m>>] = None
  /\ \A r \in Requests :
       /\ Running(r) => req[r].at = StateKey(r)
       /\ req[r].phase = "answered" => req[r].answer.bucket = Bucket(r)

\* What the client has of a bucket keeps everybody from it until its window is over.
Respected(i) ==
  /\ hashes[i[1]] # None /\ states[Its(i)] # None
  /\ states[Its(i)].remaining <= 0 /\ states[Its(i)].resetIn >= srv[Its(i)].resetIn
  /\ \A r \in Requests : Of[r] = i =>
       /\ req[r].phase \notin {"ready", "sent", "answered"}
       /\ req[r].phase = "asleep" => req[r].timer >= srv[Its(i)].resetIn

ToldIsRespected ==
  \A i \in Routes \X Majors : Its(i) \in told => srv[Its(i)].resetIn > 0 /\ Respected(i)

\* An answer on its way says what is left.
Answered(i) ==
  \E r \in Requests :
    /\ Of[r] = i /\ req[r].phase = "answered"
    /\ req[r].answer.remaining = 0 /\ req[r].answer.resetIn >= srv[Its(i)].resetIn

SpentIsKnown ==
  unheard \/ \A i \in Routes \X Majors :
    Opened(Its(i)).left = 0 => Answered(i) \/ Respected(i)
=============================================================================
