------------------------------ MODULE MCBridge ------------------------------
EXTENDS Bridge, TLC

CONSTANTS
  g1, g2, r1, r2,
  MaxBusy  \* bound: dispatches of a behaviour with member requests

\* One guild, asked for all its members and for some.
OneTarget == r1 :> g1 @@ r2 :> g1

\* A READY without guilds, or with all of them.
NoneOrAll == {{}, Guilds}

\* Without member requests the queue gets dispatches enough to overflow.
BridgeNext == Next /\ (arrived' <= MaxBusy \/ \A r \in Requests : call'[r] = "idle")

BridgeSpec == Init /\ [][BridgeNext]_vars /\ Fairness
=============================================================================
