------------------------------ MODULE Delivery ------------------------------
(***************************************************************************)
(* What serial dispatch promises of one shard (DispatchQueue.ts): one      *)
(* dispatch at a time, in the order of arrival, the latest ones missing if *)
(* there is no room, and nothing of a session after its successor's READY, *)
(* which always finds room unless a listener keeps it from being handed on. *)
(***************************************************************************)
EXTENDS Integers, Sequences, FiniteSetsExt

VARIABLES
  arrived,  \* how many dispatches have arrived
  ready,    \* which of them were READYs
  waiting,  \* those that wait, by the order of their arrival
  last      \* the latest one delivered

Init == arrived = 0 /\ ready = <<>> /\ waiting = {} /\ last = 0

\* One arrives, and waits or is lost.
Arrive ==
  /\ arrived' = arrived + 1
  /\ waiting' \in {waiting, waiting \cup {arrived'}}
  /\ UNCHANGED <<ready, last>>

\* A READY arrives, and all those before it are lost.
Renew ==
  /\ arrived' = arrived + 1 /\ ready' = Append(ready, arrived')
  /\ waiting' = {arrived'}
  /\ UNCHANGED last

\* A READY arrives and is not handed on.
Miss ==
  /\ arrived' = arrived + 1 /\ ready' = Append(ready, arrived')
  /\ UNCHANGED <<waiting, last>>

\* One that need not wait.
Pass ==
  /\ waiting = {}
  /\ arrived' = arrived + 1 /\ last' = arrived'
  /\ ready' \in {ready, Append(ready, arrived')}
  /\ UNCHANGED waiting

Deliver ==
  /\ waiting # {}
  /\ last' = Min(waiting) /\ waiting' = waiting \ {last'}
  /\ UNCHANGED <<arrived, ready>>

\* The client is destroyed.
Forget == waiting' = {} /\ UNCHANGED <<arrived, ready, last>>

Next == Arrive \/ Renew \/ Miss \/ Pass \/ Deliver \/ Forget

Spec == Init /\ [][Next]_<<arrived, ready, waiting, last>>
=============================================================================
