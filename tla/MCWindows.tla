----------------------------- MODULE MCWindows -----------------------------
(***************************************************************************)
(* Model checking of the three limits that span a window of time and share *)
(* no state: a behaviour is one of a single of them.                       *)
(***************************************************************************)
EXTENDS GlobalLimiter, InvalidRequests, IdentifyThrottler, TLC

CONSTANTS c1, c2, c3

VARIABLE of

\* Shards 0 and 2 share a bucket of two, and shard 0 reconnects.
SharedShardOf == c1 :> 0 @@ c2 :> 0 @@ c3 :> 2

WindowsInit ==
  /\ of \in {"GlobalLimiter", "InvalidRequests", "IdentifyThrottler"}
  /\ LimiterInit /\ TrackerInit /\ ThrottlerInit

WindowsNext ==
  \/ of = "GlobalLimiter" /\ LimiterNext /\ UNCHANGED <<of, trackerVars, throttlerVars>>
  \/ of = "InvalidRequests" /\ TrackerNext /\ UNCHANGED <<of, limiterVars, throttlerVars>>
  \/ of = "IdentifyThrottler" /\ ThrottlerNext /\ UNCHANGED <<of, limiterVars, trackerVars>>

WindowsSpec == WindowsInit /\ [][WindowsNext]_<<of, limiterVars, trackerVars, throttlerVars>>

\* Requests that count are interchangeable, and so are connections of one shard.
Interchangeable ==
  {f @@ g : f \in Permutations(Requests \ Exempt), g \in Permutations({c1, c2})}
=============================================================================
