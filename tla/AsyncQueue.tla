----------------------------- MODULE AsyncQueue -----------------------------
(***************************************************************************)
(* The queue under every rate-limit bucket, a chain of promises:           *)
(* packages/rest/src/ratelimit/AsyncQueue.ts.  Promise n is the one the    *)
(* n-th call of acquire() installed as #tail; it awaits promise n - 1, and *)
(* promise 0 is resolved from the start.                                   *)
(***************************************************************************)
EXTENDS Naturals, FiniteSets

CONSTANTS
  Callers,   \* requests; one may call acquire() again after it is done
  MaxSlots   \* bound: calls of acquire()

ASSUME QueueAssumption == IsFiniteSet(Callers) /\ MaxSlots \in Nat

VARIABLES
  tail,        \* #tail
  resolved,    \* the promises that are resolved
  forwarding,  \* those that will be, once their predecessor is
  size,        \* #size
  pc, slot     \* where each caller is, and its own promise

queueVars == <<tail, resolved, forwarding, size, pc, slot>>

QueueInit ==
  /\ tail = 0 /\ resolved = {0} /\ forwarding = {} /\ size = 0
  /\ pc = [c \in Callers |-> "idle"] /\ slot = [c \in Callers |-> 0]

\* acquire() up to its await.  With a signal that has already aborted the wait
\* rejects whatever its predecessor does.
Acquire(c, aborted) ==
  /\ pc[c] = "idle" /\ tail < MaxSlots
  /\ tail' = tail + 1
  /\ slot' = [slot EXCEPT ![c] = tail + 1]
  /\ size' = size + 1
  /\ pc' = [pc EXCEPT ![c] = IF aborted THEN "rejected" ELSE "waiting"]
  /\ UNCHANGED <<resolved, forwarding>>

\* The abort loses the race against a predecessor that is already resolved.
SignalAborts(c) ==
  /\ pc[c] = "waiting" /\ slot[c] - 1 \notin resolved
  /\ pc' = [pc EXCEPT ![c] = "rejected"]
  /\ UNCHANGED <<tail, resolved, forwarding, size, slot>>

GiveUpAtOnce(c) ==
  /\ resolved' = resolved \cup {slot[c]} /\ size' = size - 1
  /\ UNCHANGED forwarding
KeepSlot(c) == size' = size - 1 /\ UNCHANGED <<resolved, forwarding>>
ForgetSize(c) ==
  /\ forwarding' = forwarding \cup {slot[c]}
  /\ UNCHANGED <<resolved, size>>

\* The catch: the slot is given back once the predecessor is done, not now.
GiveUp(c) ==
  /\ forwarding' = forwarding \cup {slot[c]} /\ size' = size - 1
  /\ UNCHANGED resolved

Rejected(c) ==
  /\ pc[c] = "rejected"
  /\ pc' = [pc EXCEPT ![c] = "idle"]
  /\ GiveUp(c)
  /\ UNCHANGED <<tail, slot>>

\* previous.then(release, release)
Forward(n) ==
  /\ n \in forwarding /\ n - 1 \in resolved
  /\ resolved' = resolved \cup {n}
  /\ forwarding' = forwarding \ {n}
  /\ UNCHANGED <<tail, size, pc, slot>>

Take(c) ==
  /\ pc[c] = "waiting" /\ slot[c] - 1 \in resolved
  /\ pc' = [pc EXCEPT ![c] = "holding"]
  /\ UNCHANGED <<tail, resolved, forwarding, size, slot>>

\* The release function; a second call finds "released" set and does nothing.
ReleaseOnce(c) == resolved' = resolved \cup {slot[c]} /\ size' = size - 1

Release(c) ==
  /\ pc[c] = "holding"
  /\ pc' = [pc EXCEPT ![c] = "idle"]
  /\ ReleaseOnce(c)
  /\ UNCHANGED <<tail, forwarding, slot>>

QueueStep(c) ==
  \/ \E aborted \in BOOLEAN : Acquire(c, aborted)
  \/ SignalAborts(c) \/ Rejected(c) \/ Take(c) \/ Release(c)

QueueNext == (\E c \in Callers : QueueStep(c)) \/ (\E n \in 1 .. MaxSlots : Forward(n))

QueueSpec == QueueInit /\ [][QueueNext]_queueVars

\* A holder ends: every attempt has a timeout and there are finitely many
\* (REST.#send, options.retries).  The rest are promise reactions.
QueueFairness ==
  /\ \A c \in Callers :
       WF_queueVars(Rejected(c)) /\ WF_queueVars(Take(c)) /\ WF_queueVars(Release(c))
  /\ \A n \in 1 .. MaxSlots : WF_queueVars(Forward(n))

-----------------------------------------------------------------------------
Active == {c \in Callers : pc[c] # "idle"}
InLine == {c \in Callers : pc[c] \in {"waiting", "holding"}}
Holding == {c \in Callers : pc[c] = "holding"}

QueueTypeOK ==
  /\ tail \in 0 .. MaxSlots /\ resolved \subseteq 0 .. tail
  /\ forwarding \subseteq 1 .. tail /\ size \in Nat
  /\ pc \in [Callers -> {"idle", "waiting", "rejected", "holding"}]
  /\ slot \in [Callers -> 0 .. tail]

\* Never two requests of one bucket at once, however the waits between them were
\* aborted: "an aborted caller must not release the queue out from under whoever
\* currently holds it".
MutualExclusion == \A c, d \in Holding : c = d

\* A handler is swept when #size is 0 (SequentialHandler.inactive, REST.sweep):
\* then no one waits in it or holds it.
SizeCounts == size = Cardinality(Active)

\* The order callers arrived in: FifoLock.  A rejected caller is out of line as
\* soon as the abort is decided.
Ahead == [c \in Callers |->
  IF c \in InLine THEN {d \in InLine : slot[d] < slot[c]} ELSE {}]
Lock == INSTANCE FifoLock WITH inLine <- InLine, granted <- Holding, ahead <- Ahead
ServesInOrder == Lock!Spec

\* Whoever waits gets the queue or gives up: no abort breaks the chain.
NobodyIsStranded == \A c \in Callers : pc[c] = "waiting" ~> pc[c] # "waiting"

-----------------------------------------------------------------------------
(* What makes them inductive: promises resolve in order, and one that       *)
(* belongs to a caller in line, or waits to be forwarded, is not resolved.  *)

ChainInv ==
  /\ \A n \in resolved : \A m \in 0 .. n : m \in resolved
  /\ \A c \in Active : slot[c] \in 1 .. tail /\ slot[c] \notin resolved \cup forwarding
  /\ \A c, d \in Active : slot[c] = slot[d] => c = d
  /\ \A c \in Holding : slot[c] - 1 \in resolved
  /\ forwarding \cap resolved = {}
=============================================================================
