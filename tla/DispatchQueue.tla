--------------------------- MODULE DispatchQueue ---------------------------
(***************************************************************************)
(* The queue of serial mode, packages/core/src/events/DispatchQueue.ts: an *)
(* array with a head, filled by push and drained by one loop that stops to *)
(* await the listeners of a dispatch.  A dispatch is the number of its     *)
(* arrival.  Between two awaits the loop runs without a pause, so nothing  *)
(* else may happen while it is "running".                                  *)
(***************************************************************************)
EXTENDS Integers, Sequences

CONSTANT MaxQueued

ASSUME QueueAssumption == MaxQueued \in Nat \ {0}

VARIABLES
  backlog, head,  \* #pending and #head
  drain,          \* whether #drain runs, awaits or has ended
  last            \* the dispatch it routed last

queueVars == <<backlog, head, drain, last>>

Taken == 0    \* what is left of a consumed slot

QueueInit ==
  backlog = <<>> /\ head = 0 /\ drain = "ended" /\ last = 0

Depth == Len(backlog) - head

PushDroppingOldest(n) ==
  /\ backlog' = Append(backlog, n)
  /\ head' = IF Depth >= MaxQueued THEN head + 1 ELSE head
  /\ drain' = IF drain = "ended" THEN "running" ELSE drain
  /\ UNCHANGED last

\* push of n
Push(n) ==
  IF Depth >= MaxQueued
  THEN UNCHANGED <<backlog, head, drain, last>>
  ELSE /\ backlog' = Append(backlog, n)
       /\ drain' = IF drain = "ended" THEN "running" ELSE drain
       /\ UNCHANGED <<head, last>>

\* clear, then push, which has room.
ClearThenPush(n) ==
  /\ backlog' = <<n>> /\ head' = 0
  /\ drain' = IF drain = "ended" THEN "running" ELSE drain
  /\ UNCHANGED last

\* clear
Clear == backlog' = <<>> /\ head' = 0

\* #take: the array is rebuilt only when all of it is consumed.
TakeNone ==
  /\ drain = "running" /\ head >= Len(backlog)
  /\ IF head > 0 THEN Clear ELSE UNCHANGED <<backlog, head>>
  /\ drain' = "ended"
  /\ UNCHANGED last

\* #take and #routeCollecting, after which the loop goes on, or awaits listeners.  Whether
\* the handler throws is the router's business; if after() does, the loop ends with what
\* still waits, until the next push.
Take(then) ==
  /\ drain = "running" /\ head < Len(backlog)
  /\ last' = backlog[head + 1]
  /\ backlog' = [backlog EXCEPT ![head + 1] = Taken]
  /\ head' = head + 1
  /\ drain' = then

SettleAll ==
  /\ drain = "awaiting"
  /\ drain' \in {"running", "ended"}
  /\ UNCHANGED <<backlog, head, last>>

\* #settle: every listener has ended, well or not.
Settle ==
  /\ drain = "awaiting"
  /\ drain' = "running"
  /\ UNCHANGED <<backlog, head, last>>

-----------------------------------------------------------------------------
QueueTypeOK ==
  /\ backlog \in Seq(Nat) /\ head \in 0 .. Len(backlog)
  /\ drain \in {"ended", "running", "awaiting"}
  /\ last \in Nat

Live == {backlog[k] : k \in head + 1 .. Len(backlog)}

\* The inductive part: what waits is newer than what was routed, by its arrival.
Sorted ==
  /\ \A j, k \in head + 1 .. Len(backlog) : j < k => backlog[j] < backlog[k]
  /\ \A n \in Live : n > last
=============================================================================
