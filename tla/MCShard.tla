------------------------------- MODULE MCShard -------------------------------
(***************************************************************************)
(* Instances of Shard for TLC.                                             *)
(***************************************************************************)
EXTENDS Shard

\* One code of each class CloseCodes tells apart, and the one that also moves
\* the backoff.
EveryClass == {4000, 4004, 4007, 4008}
NoFatal == {4000, 4007}
=============================================================================
