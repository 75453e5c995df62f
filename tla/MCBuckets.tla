----------------------------- MODULE MCBuckets -----------------------------
EXTENDS Buckets, TLC

CONSTANTS rt1, rt2, mj1, mj2, h1, h2, q1, q2, q3

\* Two requests on one route and major parameter, one on another major parameter.
OneRouteOf == q1 :> <<rt1, mj1>> @@ q2 :> <<rt1, mj1>> @@ q3 :> <<rt1, mj2>>
OneRouteFirst == rt1 :> h1

\* Two routes that share a bucket.
TwoRoutesOf == q1 :> <<rt1, mj1>> @@ q2 :> <<rt2, mj1>>
TwoRoutesFirst == rt1 :> h1 @@ rt2 :> h1

\* One request at a time on one route.
AloneOf == q1 :> <<rt1, mj1>> @@ q2 :> <<rt1, mj1>>

QueueSymmetry == Permutations({q1, q2})

\* The state without the histories, which no property of that run reads.
Pacing == <<ahead, req, hashes, states, assigned, srv>>
=============================================================================
