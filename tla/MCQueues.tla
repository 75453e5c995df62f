------------------------------ MODULE MCQueues ------------------------------
(***************************************************************************)
(* Model checking of the queues: AsyncQueue, and one queue of Buckets with *)
(* all that its requests do while others wait.  A behaviour is one of      *)
(* either of them.                                                         *)
(***************************************************************************)
EXTENDS AsyncQueue, Buckets, TLC

CONSTANTS rt1, mj1, h1, q1, q2, q3

VARIABLE of

\* Three requests in one line.
LineOf == q1 :> <<rt1, mj1>> @@ q2 :> <<rt1, mj1>> @@ q3 :> <<rt1, mj1>>
LineFirst == rt1 :> h1

QueuesInit == of \in {"AsyncQueue", "Buckets"} /\ QueueInit /\ Init

QueuesNext ==
  \/ of = "AsyncQueue" /\ QueueNext /\ UNCHANGED <<of, vars>>
  \/ of = "Buckets" /\ Next /\ UNCHANGED <<of, queueVars>>

QueuesSpec == QueuesInit /\ [][QueuesNext]_<<of, queueVars, vars>> /\ QueueFairness
=============================================================================
