----------------------------- MODULE FleetProofs -----------------------------
(***************************************************************************)
(* What all the shards and all the requests of a client have in common.    *)
(* Fleet, for any logins, shards, whenReady() and destroy(); and the three *)
(* limits that span a window of time: IdentifyThrottler for every          *)
(* concurrency and set of connections, GlobalLimiter for every limit,      *)
(* window and set of requests, and InvalidRequests for every ring and      *)
(* threshold.                                                              *)
(***************************************************************************)
EXTENDS Fleet, GlobalLimiter, InvalidRequests, IdentifyThrottler, SlidingWindowProofs,
        FiniteSetTheorems

-----------------------------------------------------------------------------
(* Fleet. *)

LEMMA FleetStart == Init => TypeOK /\ FleetInv
<1> SUFFICES ASSUME Init PROVE TypeOK /\ FleetInv
  OBVIOUS
<1>1. TypeOK
  <2>1. drops \in 0 .. MaxDrops /\ told \in Nat
    BY FleetAssumption DEF Init
  <2>2. serial \in BOOLEAN /\ user \in BOOLEAN /\ announced \in BOOLEAN /\ destroyed \in BOOLEAN
        /\ sweeping \in BOOLEAN
    BY Zenon DEF Init
  <2>3. /\ own \in [Logins -> SUBSET Ids]
        /\ login \in [Logins -> {"idle", "fetching", "connecting", "waiting", "rejected"}]
        /\ promise \in [Logins -> {"none", "armed", "cancelled", "resolved", "rejected"}]
        /\ wait \in [Waits -> {"idle", "waiting", "resolved", "rejected"}]
        /\ destroy \in [Destroys -> {"idle", "stopping", "failed", "done"}]
        /\ stopping \in [Destroys -> SUBSET Shards]
        /\ phase \in [Shards -> {"none", "away", "live", "fatal", "closed"}]
        /\ map \in [Ids -> Shards \cup {None}] /\ bridges \in [Ids -> Shards \cup {None}]
    BY DEF Init
  <2>4. session \in [Shards -> BOOLEAN]
    BY Zenon DEF Init
  <2>5. /\ loading \subseteq Shards /\ counted \subseteq Shards /\ dead \subseteq Shards
        /\ owed \subseteq Shards /\ routed \subseteq Shards /\ lost \subseteq Shards
        /\ allReady \subseteq Logins /\ readyShards \subseteq Ids
    BY DEF Init
  <2> QED
    BY <2>1, <2>2, <2>3, <2>4, <2>5 DEF TypeOK, Settled
<1>2. Made = {} /\ Owned(map) = {} /\ IsFiniteSet({})
  BY FS_EmptySet DEF Init, Made, Of, Owned
<1> QED
  <2>1. MadeFirst
    BY <1>2 DEF Init, MadeFirst
  <2>2. Kept
    BY <1>2 DEF Kept
  <2>3. Ended
    BY Zenon DEF Init, Ended
  <2>4. OneFleet
    BY DEF Init, OneFleet
  <2> QED
    BY <1>1, <2>1, <2>2, <2>3, <2>4 DEF FleetInv

LEMMA ShardIs ==
  /\ \A s \in Shards : s[1] \in Logins /\ s[2] \in Ids /\ s = <<s[1], s[2]>>
  /\ \A l \in Logins, i \in Ids : <<l, i>> \in Shards /\ <<l, i>>[1] = l /\ <<l, i>>[2] = i
  BY DEF Shards

LEMMA MadeIs ==
  ASSUME TypeOK
  PROVE  /\ Made \subseteq Shards
         /\ \A s \in Shards : s \in Made <=> s[2] \in own[s[1]]
         /\ \A s \in Shards, l \in Logins : s \in Of(l) <=> s[1] = l /\ s[2] \in own[l]
         /\ \A l \in Logins : Of(l) \subseteq Made
  BY DEF TypeOK, Made, Of, Shards

LEMMA AnnounceTypes ==
  ASSUME TypeOK, NEW s \in Shards, NEW throws \in BOOLEAN,
         Announce(s, readyShards \cup {s[2]}, user \/ ~throws)
  PROVE  /\ user' \in BOOLEAN /\ announced' \in BOOLEAN /\ told' \in Nat
         /\ readyShards' \subseteq Ids /\ routed' \subseteq Shards
         /\ promise' \in [Logins -> {"none", "armed", "cancelled"} \cup Settled]
<1>1. user' \in BOOLEAN /\ announced' \in BOOLEAN
  BY Zenon DEF TypeOK, Announce, Told
<1>2. told' \in Nat
  BY DEF TypeOK, Announce, Told
<1>3. readyShards' \subseteq Ids /\ routed' \subseteq Shards
  BY ShardIs DEF TypeOK, Announce
<1>4. promise' \in [Logins -> {"none", "armed", "cancelled"} \cup Settled]
  <2>1. promise' = promise \/ promise' = Resolve("resolved")
    BY DEF Announce
  <2> QED
    BY <2>1 DEF TypeOK, Settled, Resolve
<1> QED
  BY <1>1, <1>2, <1>3, <1>4

LEMMA DownTypes ==
  ASSUME TypeOK, NEW d \in Destroys, Down(d),
         phase' \in [Shards -> {"none", "away", "live", "fatal", "closed"}],
         session' \in [Shards -> BOOLEAN]
  PROVE  TypeOK'
<1>1. dead' \subseteq Shards /\ owed' \subseteq Shards /\ lost' \subseteq Shards
  BY MadeIs DEF TypeOK, Down, Owned, Made
<1>2. promise' \in [Logins -> {"none", "armed", "cancelled"} \cup Settled]
  BY DEF TypeOK, Down, Resolve, Settled
<1>3. wait' \in [Waits -> {"idle", "waiting"} \cup Settled]
  BY DEF TypeOK, Down, WaitsEnd, Settled
<1>4. destroy' \in [Destroys -> {"idle", "stopping", "failed", "done"}]
  BY DEF TypeOK, Down
<1>5. stopping' \in [Destroys -> SUBSET Shards]
  <2>1. Targets \subseteq Shards
    BY DEF TypeOK, Targets, Owned
  <2> QED
    BY <2>1 DEF TypeOK, Down
<1>6. bridges' \in [Ids -> Shards \cup {None}]
  BY DEF Down
<1> QED
  BY <1>1, <1>2, <1>3, <1>4, <1>5, <1>6 DEF TypeOK, Down

LEMMA FleetTypeStep == TypeOK /\ [Next]_vars => TypeOK'
<1> SUFFICES ASSUME TypeOK, [Next]_vars PROVE TypeOK'
  OBVIOUS
<1> USE ShardIs
<1>1. ASSUME NEW l \in Logins, Login(l) PROVE TypeOK'
  <2>1. UNCHANGED <<serial, own, wait, ends, shards, announcing, destroyed, sweeping, lost>>
    BY <1>1 DEF Login
  <2>2. /\ login' \in [Logins -> {"idle", "fetching", "connecting", "waiting", "rejected"}]
        /\ promise' \in [Logins -> {"none", "armed", "cancelled"} \cup Settled]
    BY SMTT(30), <1>1 DEF TypeOK, Login
  <2> QED
    BY <2>1, <2>2 DEF TypeOK, ends, shards, announcing
<1>2. ASSUME NEW l \in Logins, FetchFails(l) PROVE TypeOK'
  BY <1>2 DEF TypeOK, Settled, FetchFails, ends, shards, announcing, Fail
<1>3. ASSUME NEW l \in Logins, NEW ids \in Fleets, Fetched(l, ids) PROVE TypeOK'
  <2>1. /\ UNCHANGED <<serial, promise, wait, ends, phase, session, counted, allReady, drops,
                 dead, owed, user, readyShards, announced, told, routed,
                 destroyed, sweeping>>
        /\ login' = [login EXCEPT ![l] = "connecting"] /\ own' = [own EXCEPT ![l] = ids]
        /\ map' = [i \in Ids |-> IF i \in ids THEN <<l, i>> ELSE map[i]]
        /\ bridges' = [i \in Ids |-> IF i \in ids THEN <<l, i>> ELSE bridges[i]]
        /\ loading' = loading \cup Of(l)'
        /\ lost' = lost \cup ({map[i] : i \in ids} \ {None}) \cup IF destroyed THEN Of(l)' ELSE {}
    BY <1>3 DEF Fetched
  <2>2. ids \subseteq Ids
    BY DEF Ids
  <2>3. own' \in [Logins -> SUBSET Ids] /\ own'[l] = ids
    BY <2>1, <2>2 DEF TypeOK
  <2>4. Of(l)' \subseteq Shards
    BY <2>2, <2>3 DEF Of, Shards
  <2>5. /\ map' \in [Ids -> Shards \cup {None}] /\ bridges' \in [Ids -> Shards \cup {None}]
    BY <2>1, <2>2 DEF TypeOK
  <2>6. loading' \subseteq Shards /\ lost' \subseteq Shards
    BY <2>1, <2>2, <2>4 DEF TypeOK
  <2>7. login' \in [Logins -> {"idle", "fetching", "connecting", "waiting", "rejected"}]
    BY <2>1 DEF TypeOK
  <2> QED
    BY <2>1, <2>3, <2>5, <2>6, <2>7 DEF TypeOK, ends
<1>4. ASSUME NEW s \in Shards, NEW stored \in BOOLEAN, Loaded(s, stored) PROVE TypeOK'
  <2>1. /\ UNCHANGED <<serial, own, promise, wait, ends, map, counted, allReady, drops,
                 announcing, destroyed, lost>>
        /\ loading' \subseteq loading
    BY <1>4 DEF Loaded
  <2>2. phase' \in [Shards -> {"none", "away", "live", "fatal", "closed"}]
    BY <1>4 DEF TypeOK, Loaded
  <2>3. session' \in [Shards -> BOOLEAN]
    BY <1>4 DEF TypeOK, Loaded
  <2>4. login' \in [Logins -> {"idle", "fetching", "connecting", "waiting", "rejected"}]
    BY <1>4 DEF TypeOK, Loaded
  <2>5. sweeping' \in BOOLEAN
    BY <1>4 DEF TypeOK, Loaded
  <2> QED
    BY <2>1, <2>2, <2>3, <2>4, <2>5 DEF TypeOK, ends, announcing
<1>5. ASSUME NEW s \in Shards, LoadFails(s) PROVE TypeOK'
  BY <1>5 DEF TypeOK, Settled, LoadFails, ends, announcing, Fail
<1>6. ASSUME NEW s \in Shards, NEW waits \in BOOLEAN, NEW throws \in BOOLEAN, Ready(s, waits, throws)
      PROVE  TypeOK'
  <2>1. /\ UNCHANGED <<serial, login, own, wait, ends, loading, map, drops, bridges, dead,
                      destroyed, sweeping, lost>>
        /\ phase' = [phase EXCEPT ![s] = "live"] /\ session' = [session EXCEPT ![s] = TRUE]
        /\ counted' = counted \cup {s} /\ allReady' \subseteq allReady \cup {s[1]}
        /\ owed' \subseteq owed \cup {s}
        /\ \/ UNCHANGED <<user, readyShards, announced, told, routed, promise>>
           \/ Announce(s, readyShards \cup {s[2]}, user \/ ~throws)
    BY <1>6 DEF Ready, Count
  <2>2. /\ phase' \in [Shards -> {"none", "away", "live", "fatal", "closed"}]
        /\ session' \in [Shards -> BOOLEAN]
    BY <2>1 DEF TypeOK
  <2>3. counted' \subseteq Shards /\ allReady' \subseteq Logins /\ owed' \subseteq Shards
    BY <2>1 DEF TypeOK
  <2>4. /\ user' \in BOOLEAN /\ announced' \in BOOLEAN /\ told' \in Nat
        /\ readyShards' \subseteq Ids /\ routed' \subseteq Shards
        /\ promise' \in [Logins -> {"none", "armed", "cancelled"} \cup Settled]
    BY <2>1, AnnounceTypes DEF TypeOK
  <2> QED
    BY <2>1, <2>2, <2>3, <2>4 DEF TypeOK, ends
<1>19. ASSUME NEW s \in Shards, Unheard(s) PROVE TypeOK'
  <2>1. /\ counted' = counted \cup {s} /\ allReady' \subseteq allReady \cup {s[1]}
        /\ phase' = [phase EXCEPT ![s] = "live"] /\ session' = [session EXCEPT ![s] = TRUE]
        /\ UNCHANGED <<serial, calls, ends, loading, map, drops, announcing, destroyed, sweeping, lost>>
    BY <1>19 DEF Unheard, Count
  <2>2. s[1] \in Logins
    BY ShardIs
  <2> QED
    BY <2>1, <2>2 DEF TypeOK, calls, ends, announcing
<1>7. ASSUME NEW s \in Shards, NEW throws \in BOOLEAN, Drained(s, throws) PROVE TypeOK'
  <2>1. /\ UNCHANGED <<serial, login, own, wait, ends, shards, bridges, dead, destroyed, sweeping, lost>>
        /\ owed' \subseteq owed
    BY <1>7 DEF Drained
  <2>2. /\ user' \in BOOLEAN /\ announced' \in BOOLEAN /\ told' \in Nat
        /\ readyShards' \subseteq Ids /\ routed' \subseteq Shards
        /\ promise' \in [Logins -> {"none", "armed", "cancelled"} \cup Settled]
    BY <1>7, AnnounceTypes DEF Drained
  <2> QED
    BY <2>1, <2>2 DEF TypeOK, ends, shards
<1>8. ASSUME NEW s \in Shards, Resumed(s) PROVE TypeOK'
  BY <1>8 DEF TypeOK, Settled, Resumed, calls, ends, announcing
<1>9. ASSUME NEW s \in Shards, Drop(s) PROVE TypeOK'
  <2>1. drops' \in 0 .. MaxDrops
    BY <1>9, FleetAssumption DEF TypeOK, Drop
  <2> QED
    BY <1>9, <2>1 DEF TypeOK, Drop, calls, ends, announcing
<1>10. ASSUME NEW s \in Shards, GiveUp(s) PROVE TypeOK'
  BY <1>10 DEF TypeOK, Settled, GiveUp, calls, ends, announcing
<1>11. ASSUME NEW l \in Logins, AllReady(l) PROVE TypeOK'
  BY <1>11 DEF TypeOK, Settled, AllReady, ends, announcing, WaitsEnd
<1>12. ASSUME NEW w \in Waits, WhenReady(w) PROVE TypeOK'
  BY <1>12 DEF TypeOK, Settled, WhenReady, ends, shards, announcing
<1>13. ASSUME NEW s \in Shards, NEW d \in Destroys, Fatal(s, d) PROVE TypeOK'
  <2>1. /\ phase' \in [Shards -> {"none", "away", "live", "fatal", "closed"}]
        /\ session' \in [Shards -> BOOLEAN] /\ Down(d)
    BY <1>13 DEF TypeOK, Fatal
  <2> QED
    BY <2>1, DownTypes
<1>14. ASSUME NEW d \in Destroys, Destroy(d) PROVE TypeOK'
  BY <1>14, DownTypes DEF TypeOK, Destroy
<1>15. ASSUME NEW d \in Destroys, NEW s \in Shards, Stopped(d, s) PROVE TypeOK'
  BY <1>15 DEF TypeOK, Settled, Stopped, calls, announcing
<1>16. ASSUME NEW d \in Destroys, NEW s \in Shards, StopFails(d, s) PROVE TypeOK'
  BY <1>16 DEF TypeOK, Settled, StopFails, calls, shards, announcing
<1>17. ASSUME NEW d \in Destroys, Destroyed(d) PROVE TypeOK'
  BY <1>17 DEF TypeOK, Settled, Destroyed, calls, announcing
<1>18. CASE UNCHANGED vars
  BY <1>18 DEF TypeOK, vars, calls, ends, shards, announcing
<1> QED
  BY <1>1, <1>2, <1>3, <1>4, <1>5, <1>6, <1>7, <1>8, <1>9, <1>10, <1>11, <1>12, <1>13, <1>14,
     <1>15, <1>16, <1>17, <1>18, <1>19 DEF Next, Connecting, FetchEnds, Drains

\* Of shards that were made before, what MadeFirst asks for.
LEMMA MadeSame ==
  ASSUME TypeOK, TypeOK', MadeFirst, own' = own,
         \A l \in Logins : login'[l] \in {"idle", "fetching"} => login[l] \in {"idle", "fetching"},
         \A s \in Shards : s \in loading' \/ phase'[s] # "none" \/ s \in counted' => s \in Made,
         \A d \in Destroys : stopping'[d] \subseteq stopping[d] \/ stopping'[d] \subseteq Made,
         counted \subseteq counted', owed' \cup routed' \subseteq counted',
         map' = map \/ Owned(map)' = {},
         \A l \in allReady' : l \in allReady \/ (own[l] # {} /\ Of(l) \subseteq counted')
  PROVE  Made' = Made /\ MadeFirst'
<1>1. Made' = Made /\ \A l \in Logins : Of(l)' = Of(l)
  BY DEF Made, Of
<1>2. loading' \cup {s \in Shards : phase'[s] # "none"} \cup counted' \subseteq Made'
  BY <1>1 DEF TypeOK, MadeFirst
<1>3. IsFiniteSet(Owned(map)') /\ \A i \in Owned(map)' : map'[i] \in Made' /\ map'[i][2] = i
  <2>1. CASE map' = map
    <3>1. Owned(map)' = Owned(map)
      BY <2>1 DEF Owned
    <3> QED
      BY <1>1, <2>1, <3>1 DEF MadeFirst
  <2>2. CASE Owned(map)' = {}
    BY <2>2, FS_EmptySet
  <2> QED
    BY <2>1, <2>2
<1>4. \A l \in allReady' : own'[l] # {} /\ Of(l)' \subseteq counted'
  BY <1>1 DEF TypeOK, MadeFirst
<1> QED
  BY <1>1, <1>2, <1>3, <1>4 DEF MadeFirst

\* A READY that is handled, of a shard whose bridge is there.
LEMMA AnnounceOnce ==
  ASSUME TypeOK, Kept, OneFleet, MadeFirst, NEW s \in Made, s \notin dead, NEW known \in BOOLEAN,
         Announce(s, readyShards \cup {s[2]}, known),
         owed' = owed \ {s}, UNCHANGED <<own, lost, destroyed, map, dead>>
  PROVE  OneFleet'
<1> SUFFICES ASSUME lost = {}
             PROVE  /\ told' <= 1
                    /\ ~destroyed' => /\ told' = 1 => announced'
                                    /\ readyShards' \subseteq {i \in Owned(map)' : map'[i] \in routed'}
  BY DEF OneFleet
<1>1. s \in Shards /\ ~destroyed /\ map[s[2]] = s
  BY MadeIs DEF Kept
<1>2. s[2] \in Owned(map)
  BY <1>1, FleetAssumption DEF Owned, Shards, Ids
<1>3. told' <= 1 /\ (told' = 1 => announced')
  BY <1>1 DEF TypeOK, OneFleet, Announce, Told
<1>4. readyShards' = readyShards \cup {s[2]} /\ routed' = routed \cup {s}
  BY DEF Announce
<1>5. readyShards' \subseteq {i \in Owned(map)' : map'[i] \in routed'}
  BY <1>1, <1>2, <1>4 DEF OneFleet, Owned
<1> QED
  BY <1>3, <1>5

\* A destroy() tells every shard it has to stop.
LEMMA DownKept ==
  ASSUME TypeOK, FleetInv, NEW d \in Destroys, Down(d), Made' = Made,
         \A s \in Shards : Up(s)' => Up(s)
  PROVE  Kept' /\ Ended'
<1> USE MadeIs DEF FleetInv
<1>1. /\ destroyed' /\ ~sweeping' /\ UNCHANGED <<login, own, loading, map>>
      /\ dead' = dead \cup {bridges[i] : i \in Owned(bridges)}
      /\ wait' = WaitsEnd("rejected")
      /\ destroy' = [destroy EXCEPT ![d] = "stopping"]
      /\ stopping' = [stopping EXCEPT ![d] = Targets]
      /\ lost' = lost \cup loading
           \cup UNION {Of(l) : l \in {k \in Logins : login[k] = "connecting"}}
  BY DEF Down
<1>2. ASSUME NEW s \in Made \ lost'
      PROVE  /\ s \in dead' \ loading'
             /\ Up(s)' => /\ map'[s[2]] = s
                         /\ \A e \in Destroys : /\ destroy'[e] # "done"
                                                /\ destroy'[e] = "stopping" => s \in stopping'[e]
  <2>1. s \in Shards /\ s \notin lost /\ s \notin loading'
    BY <1>1, <1>2
  <2>2. s[2] \in Ids /\ s # None
    BY <2>1, ShardIs, FleetAssumption DEF Shards, Ids
  <2>3. s \in dead'
    <3>1. CASE destroyed
      BY <1>1, <2>1, <3>1 DEF Kept
    <3>2. CASE ~destroyed
      <4>1. bridges[s[2]] = s
        BY <2>1, <3>2 DEF Kept
      <4> QED
        BY <1>1, <2>2, <4>1 DEF Owned
    <3> QED
      BY <3>1, <3>2
  <2>4. ASSUME Up(s)'
        PROVE  /\ map'[s[2]] = s
               /\ \A e \in Destroys : /\ destroy'[e] # "done"
                                      /\ destroy'[e] = "stopping" => s \in stopping'[e]
    <3>1. /\ map[s[2]] = s
          /\ \A e \in Destroys : destroy[e] # "done" /\ (destroy[e] = "stopping" => s \in stopping[e])
      BY <2>1, <2>4 DEF Kept
    <3>2. s \in Targets
      BY <2>2, <3>1 DEF Targets, Owned
    <3>3. ASSUME NEW e \in Destroys
          PROVE  destroy'[e] # "done" /\ (destroy'[e] = "stopping" => s \in stopping'[e])
      <4>1. CASE e = d
        BY <1>1, <3>2, <4>1 DEF TypeOK
      <4>2. CASE e # d
        <5>1. destroy'[e] = destroy[e] /\ stopping'[e] = stopping[e]
          BY <1>1, <4>2 DEF TypeOK
        <5> QED
          BY <3>1, <5>1
      <4> QED
        BY <4>1, <4>2
    <3> QED
      BY <1>1, <3>1, <3>3
  <2> QED
    BY <2>1, <2>3, <2>4
<1>3. Kept'
  BY <1>1, <1>2 DEF Kept
<1>4. \A w \in Waits : wait'[w] # "waiting"
  BY <1>1 DEF TypeOK, WaitsEnd
<1>5. \A l \in Logins : login'[l] = "connecting" => Of(l)' \subseteq lost'
  <2>1. \A l \in Logins : Of(l)' = Of(l)
    BY <1>1 DEF Of
  <2> QED
    BY <1>1, <2>1
<1> QED
  BY <1>1, <1>3, <1>4, <1>5 DEF Ended

LEMMA FleetStep == TypeOK /\ TypeOK' /\ FleetInv /\ [Next]_vars => FleetInv'
<1> SUFFICES ASSUME TypeOK, TypeOK', FleetInv, [Next]_vars PROVE FleetInv'
  OBVIOUS
<1> USE ShardIs, MadeIs DEF FleetInv
<1>1. ASSUME NEW l \in Logins, Login(l) PROVE FleetInv'
  <2>1. Made' = Made /\ MadeFirst'
    BY <1>1, MadeSame DEF TypeOK, MadeFirst, Login, ends, shards, announcing
  <2>2. Kept'
    BY <1>1, <2>1 DEF TypeOK, Login, Kept, ends, shards, announcing, Up, Of
  <2>3. Ended'
    BY SMTT(30), <1>1, <2>1 DEF TypeOK, Login, Ended, ends, shards, announcing, Of
  <2>4. OneFleet'
    BY <1>1, <2>1 DEF TypeOK, Login, OneFleet, ends, shards, announcing, Owned
  <2> QED
    BY <2>1, <2>2, <2>3, <2>4
<1>2. ASSUME NEW l \in Logins, FetchFails(l) PROVE FleetInv'
  <2>1. Made' = Made /\ MadeFirst'
    BY <1>2, MadeSame DEF TypeOK, MadeFirst, FetchFails, ends, shards, announcing, Fail
  <2>2. Kept'
    BY <1>2, <2>1 DEF TypeOK, FetchFails, Kept, ends, shards, announcing, Up, Of, Fail
  <2>3. Ended'
    BY <1>2, <2>1 DEF TypeOK, FetchFails, Ended, ends, shards, announcing, Of, Fail
  <2>4. OneFleet'
    BY <1>2, <2>1 DEF TypeOK, FetchFails, OneFleet, ends, shards, announcing, Owned, Fail
  <2> QED
    BY <2>1, <2>2, <2>3, <2>4
<1>3. ASSUME NEW l \in Logins, NEW ids \in Fleets, Fetched(l, ids) PROVE FleetInv'
  <2> DEFINE new == {l} \X ids
  <2>1. /\ login[l] = "fetching" /\ own' = [own EXCEPT ![l] = ids]
        /\ login' = [login EXCEPT ![l] = "connecting"]
        /\ map' = [i \in Ids |-> IF i \in ids THEN <<l, i>> ELSE map[i]]
        /\ bridges' = [i \in Ids |-> IF i \in ids THEN <<l, i>> ELSE bridges[i]]
        /\ loading' = loading \cup Of(l)'
        /\ lost' = lost \cup ({map[i] : i \in ids} \ {None}) \cup IF destroyed THEN Of(l)' ELSE {}
        /\ UNCHANGED <<wait, destroy, stopping, phase, counted, allReady, dead, owed, readyShards,
                       announced, told, routed, destroyed, sweeping>>
    BY <1>3 DEF Fetched, ends
  <2>2. ids \subseteq Ids /\ ids # {} /\ IsFiniteSet(ids)
    BY FleetAssumption DEF Ids
  <2>3. own[l] = {} /\ l \notin allReady
    BY <2>1 DEF MadeFirst
  <2>4. /\ own'[l] = ids /\ Of(l)' = new /\ new \subseteq Shards
        /\ \A k \in Logins \ {l} : own'[k] = own[k] /\ Of(k)' = Of(k)
    BY <2>1, <2>2 DEF TypeOK, Of, Shards
  <2>5. Made' = Made \cup new /\ Made \cap new = {}
    BY <2>3, <2>4 DEF Made, Of
  <2>6. \A i \in ids : map[i] # None => map[i] \in lost'
    BY <2>1
  <2>7. MadeFirst'
    <3>1. \A k \in Logins : own'[k] # {} => own'[k] \in Fleets /\ login'[k] \notin {"idle", "fetching"}
      BY <2>1, <2>4 DEF TypeOK, MadeFirst
    <3>2. loading' \cup {s \in Shards : phase'[s] # "none"} \cup counted' \subseteq Made'
      BY <2>1, <2>4, <2>5 DEF MadeFirst
    <3>3. owed' \cup routed' \subseteq counted'
      BY <2>1 DEF MadeFirst
    <3>4. Owned(map)' = Owned(map) \cup ids
      <4>1. \A i \in ids : i \in Ids /\ <<l, i>> # None
        BY <2>2, FleetAssumption DEF Ids
      <4> QED
        BY <2>1, <4>1 DEF Owned
    <3>5. IsFiniteSet(Owned(map)')
      <4>1. IsFiniteSet(Owned(map))
        BY DEF MadeFirst
      <4>2. IsFiniteSet(Owned(map) \cup ids)
        BY <2>2, <4>1, FS_Union
      <4> QED
        BY <3>4, <4>2
    <3>6. \A i \in Owned(map)' : map'[i] \in Made' /\ map'[i][2] = i
      <4>1. ASSUME NEW i \in ids PROVE map'[i] \in Made' /\ map'[i][2] = i
        BY <2>1, <2>2, <2>5
      <4>2. ASSUME NEW i \in Owned(map) \ ids PROVE map'[i] \in Made' /\ map'[i][2] = i
        BY <2>1, <2>5 DEF MadeFirst, Owned
      <4> QED
        BY <3>4, <4>1, <4>2
    <3>7. \A k \in allReady' : own'[k] # {} /\ Of(k)' \subseteq counted'
      BY <2>1, <2>3, <2>4 DEF TypeOK, MadeFirst
    <3>8. \A d \in Destroys : stopping'[d] \subseteq Made'
      BY <2>1, <2>5 DEF MadeFirst
    <3> QED
      BY <3>1, <3>2, <3>3, <3>5, <3>6, <3>7, <3>8 DEF MadeFirst
  <2>8. Kept'
    <3>1. ASSUME NEW s \in Made' \ lost'
          PROVE  /\ IF destroyed' THEN s \in dead' \ loading'
                    ELSE map'[s[2]] = s /\ bridges'[s[2]] = s
                 /\ Up(s)' => /\ map'[s[2]] = s
                             /\ \A d \in Destroys :
                                  /\ destroy'[d] # "done"
                                  /\ destroy'[d] = "stopping" => s \in stopping'[d]
      <4>1. s \in Shards /\ s \notin lost
        BY <2>1, <2>4, <2>5
      <4>2. CASE s \in new
        <5>1. ~destroyed /\ s = <<l, s[2]>> /\ s[2] \in ids
          BY <2>1, <2>4, <3>1, <4>2
        <5>2. phase[s] = "none"
          BY <2>5, <4>1, <4>2 DEF MadeFirst
        <5> QED
          BY <2>1, <2>2, <5>1, <5>2 DEF Up
      <4>3. CASE s \in Made
        <5>1. map[s[2]] = s => s[2] \notin ids
          BY <2>6, <3>1, <4>1, FleetAssumption DEF Shards, Ids
        <5>2. s[2] \in Ids /\ s \notin new
          BY <2>5, <4>1, <4>3
        <5> QED
          BY <2>1, <2>4, <4>1, <4>3, <5>1, <5>2 DEF Kept, Up
      <4> QED
        BY <2>5, <3>1, <4>2, <4>3
    <3> QED
      BY <3>1 DEF Kept
  <2>9. Ended'
    <3>1. CASE destroyed
      <4>1. new \subseteq lost' /\ lost \subseteq lost'
        BY <2>1, <2>4, <3>1
      <4>2. \A k \in Logins : login'[k] = "connecting" => Of(k)' \subseteq lost'
        BY <2>1, <2>4, <3>1, <4>1 DEF TypeOK, Ended
      <4>3. sweeping' => \E k \in Logins : own'[k] # {} /\ Of(k)' \subseteq lost'
        BY <2>1, <2>3, <2>4, <3>1, <4>1 DEF Ended
      <4> QED
        BY <2>1, <3>1, <4>2, <4>3 DEF Ended
    <3>2. CASE ~destroyed
      BY <2>1, <3>2 DEF Ended
    <3> QED
      BY <3>1, <3>2
  <2>10. OneFleet'
    <3> SUFFICES ASSUME lost' = {}
                 PROVE  /\ \A k, m \in Logins : own'[k] # {} /\ own'[m] # {} => k = m
                        /\ told' <= 1
                        /\ ~destroyed' => /\ told' = 1 => announced'
                                        /\ readyShards' \subseteq {i \in Owned(map)' : map'[i] \in routed'}
      BY <2>1 DEF OneFleet
    <3>1. lost = {} /\ ~destroyed /\ \A i \in ids : map[i] = None
      BY <2>1, <2>2, <2>4, <2>6
    <3>2. ASSUME NEW k \in Logins \ {l}, own[k] # {} PROVE FALSE
      <4>1. PICK i \in own[k] \cap ids : TRUE
        BY <3>2, FleetAssumption DEF MadeFirst
      <4>2. <<k, i>> \in Made /\ i \in Ids
        BY <2>2, <4>1 DEF TypeOK
      <4>3. map[i] = <<k, i>>
        BY <3>1, <4>2 DEF Kept
      <4> QED
        BY <3>1, <4>1, <4>2, <4>3, FleetAssumption DEF Ids
    <3>3. readyShards' \subseteq {i \in Owned(map)' : map'[i] \in routed'}
      BY <2>1, <3>1 DEF OneFleet, Owned
    <3> QED
      BY SMTT(30), <2>1, <2>4, <3>1, <3>2, <3>3 DEF OneFleet
  <2> QED
    BY <2>7, <2>8, <2>9, <2>10
<1>4. ASSUME NEW s \in Shards, NEW stored \in BOOLEAN, Loaded(s, stored) PROVE FleetInv'
  <2>1. Made' = Made /\ MadeFirst'
    BY <1>4, MadeSame DEF TypeOK, MadeFirst, Loaded, ends, announcing
  <2>2. Kept'
    <3>1. /\ s \in loading /\ loading' = loading \ {s} /\ phase' = [phase EXCEPT ![s] = "away"]
          /\ UNCHANGED <<lost, destroyed, dead, map, bridges, destroy, stopping>>
      BY <1>4 DEF Loaded, ends, announcing
    <3>2. s \in Made /\ (s \notin lost => ~destroyed)
      BY <3>1 DEF MadeFirst, Kept
    <3>3. s \notin lost => map[s[2]] = s /\ \A d \in Destroys : destroy[d] = "idle"
      BY <3>2 DEF Kept, Ended
    <3>4. \A t \in Shards : Up(t)' => t = s \/ Up(t)
      BY <3>1 DEF TypeOK, Up
    <3> QED
      BY <2>1, <3>1, <3>3, <3>4 DEF Kept
  <2>3. Ended'
    <3>1. /\ s \in Made /\ own' = own
          /\ UNCHANGED <<lost, destroyed, wait, destroy, stopping>>
          /\ \A k \in Logins : Of(k)' = Of(k) /\ (login'[k] = "connecting" => login[k] = "connecting")
          /\ sweeping' => sweeping \/ login[s[1]] = "connecting"
      BY <1>4 DEF TypeOK, Loaded, ends, MadeFirst, Of
    <3>2. own[s[1]] # {}
      BY <3>1
    <3> QED
      BY <3>1, <3>2 DEF Ended
  <2>4. OneFleet'
    BY <1>4, <2>1 DEF TypeOK, Loaded, OneFleet, ends, announcing, Owned
  <2> QED
    BY <2>1, <2>2, <2>3, <2>4
<1>5. ASSUME NEW s \in Shards, LoadFails(s) PROVE FleetInv'
  <2>1. Made' = Made /\ MadeFirst'
    BY <1>5, MadeSame DEF TypeOK, MadeFirst, LoadFails, ends, announcing, Fail
  <2>2. Kept'
    BY <1>5, <2>1 DEF TypeOK, LoadFails, Kept, ends, announcing, Up, Of, Fail
  <2>3. Ended'
    <3>1. /\ UNCHANGED <<own, lost, destroyed, wait, destroy, stopping, sweeping>>
          /\ \A k \in Logins : Of(k)' = Of(k) /\ (login'[k] = "connecting" => login[k] = "connecting")
      BY <1>5 DEF TypeOK, LoadFails, Fail, ends, Of
    <3> QED
      BY <3>1 DEF Ended
  <2>4. OneFleet'
    BY <1>5, <2>1 DEF TypeOK, LoadFails, OneFleet, ends, announcing, Owned, Fail
  <2> QED
    BY <2>1, <2>2, <2>3, <2>4
<1>6. ASSUME NEW s \in Shards, NEW waits \in BOOLEAN, NEW throws \in BOOLEAN, Ready(s, waits, throws)
      PROVE  FleetInv'
  <2>0. /\ s \notin counted' \ (counted \cup {s}) /\ counted' = counted \cup {s}
        /\ phase[s] = "away" /\ phase' = [phase EXCEPT ![s] = "live"]
        /\ UNCHANGED <<login, own, wait, destroy, stopping, loading, map, bridges, dead,
                       destroyed, sweeping, lost>>
        /\ \A l \in allReady' : l \in allReady \/ (l = s[1] /\ Of(l) \subseteq counted')
        /\ \/ s \in dead /\ UNCHANGED <<owed, user, readyShards, announced, told, routed>>
           \/ /\ s \notin dead /\ owed' = owed \cup {s}
              /\ UNCHANGED <<user, readyShards, announced, told, routed>>
           \/ /\ s \notin dead /\ owed' = owed \ {s}
              /\ Announce(s, readyShards \cup {s[2]}, user \/ ~throws)
    BY <1>6 DEF Ready, Count, ends, Of
  <2>1. s \in Made /\ own[s[1]] # {}
    BY <2>0 DEF MadeFirst
  <2>2. Made' = Made /\ MadeFirst'
    <3>1. routed' \subseteq routed \cup {s} /\ owed' \subseteq owed \cup {s}
      BY <2>0 DEF Announce
    <3> QED
      BY <2>0, <2>1, <3>1, MadeSame DEF TypeOK, MadeFirst
  <2>3. Kept'
    BY <2>0, <2>2 DEF TypeOK, Kept, Up
  <2>4. Ended'
    BY <2>0 DEF Ended, Of
  <2>5. OneFleet'
    <3>1. CASE UNCHANGED <<user, readyShards, announced, told, routed>>
      BY <2>0, <3>1 DEF OneFleet, Owned
    <3>2. CASE /\ s \notin dead /\ owed' = owed \ {s}
               /\ Announce(s, readyShards \cup {s[2]}, user \/ ~throws)
      BY <2>0, <2>1, <3>2, AnnounceOnce
    <3> QED
      BY <2>0, <3>1, <3>2
  <2> QED
    BY <2>2, <2>3, <2>4, <2>5
<1>19. ASSUME NEW s \in Shards, Unheard(s) PROVE FleetInv'
  <2>0. /\ counted' = counted \cup {s} /\ phase[s] = "away"
        /\ phase' = [phase EXCEPT ![s] = "live"]
        /\ UNCHANGED <<calls, ends, loading, map, announcing, destroyed, sweeping, lost>>
        /\ \A l \in allReady' : l \in allReady \/ (l = s[1] /\ Of(l) \subseteq counted')
    BY <1>19 DEF Unheard, Count, calls, Of
  <2>1. s \in Made /\ own[s[1]] # {}
    BY <2>0 DEF MadeFirst
  <2>2. Made' = Made /\ MadeFirst'
    BY <2>0, <2>1, MadeSame DEF TypeOK, MadeFirst, calls, ends, announcing
  <2>3. Kept'
    BY <2>0, <2>2 DEF TypeOK, Kept, Up, calls, ends, announcing
  <2>4. Ended'
    BY <2>0 DEF Ended, Of, calls, ends
  <2>5. OneFleet'
    BY <2>0 DEF OneFleet, Owned, calls, announcing
  <2> QED
    BY <2>2, <2>3, <2>4, <2>5
<1>7. ASSUME NEW s \in Shards, NEW throws \in BOOLEAN, Drained(s, throws) PROVE FleetInv'
  <2>0. /\ s \in owed /\ owed' = owed \ {s} /\ Announce(s, readyShards \cup {s[2]}, user \/ ~throws)
        /\ UNCHANGED <<login, own, wait, destroy, stopping, phase, loading, map, counted, allReady,
                       bridges, dead, destroyed, sweeping, lost>>
    BY <1>7 DEF Drained, ends, shards
  <2>1. s \in Made /\ s \in counted /\ s \notin dead
    BY <2>0 DEF MadeFirst, OneFleet
  <2>2. Made' = Made /\ MadeFirst'
    <3>1. routed' \subseteq routed \cup {s}
      BY <2>0 DEF Announce
    <3> QED
      BY <2>0, <2>1, <3>1, MadeSame DEF TypeOK, MadeFirst
  <2>3. Kept'
    BY <2>0, <2>2 DEF Kept, Up
  <2>4. Ended'
    BY <2>0 DEF Ended, Of
  <2>5. OneFleet'
    BY <2>0, <2>1, AnnounceOnce
  <2> QED
    BY <2>2, <2>3, <2>4, <2>5
<1>8. ASSUME NEW s \in Shards, Resumed(s) PROVE FleetInv'
  <2>1. Made' = Made /\ MadeFirst'
    BY <1>8, MadeSame DEF TypeOK, MadeFirst, Resumed, calls, ends, announcing
  <2>2. Kept'
    BY <1>8, <2>1 DEF TypeOK, Resumed, Kept, calls, ends, announcing, Up, Of
  <2>3. Ended'
    BY <1>8, <2>1 DEF TypeOK, Resumed, Ended, calls, ends, announcing, Of
  <2>4. OneFleet'
    BY <1>8, <2>1 DEF TypeOK, Resumed, OneFleet, calls, ends, announcing, Owned
  <2> QED
    BY <2>1, <2>2, <2>3, <2>4
<1>9. ASSUME NEW s \in Shards, Drop(s) PROVE FleetInv'
  <2>1. Made' = Made /\ MadeFirst'
    BY <1>9, MadeSame DEF TypeOK, MadeFirst, Drop, calls, ends, announcing
  <2>2. Kept'
    BY <1>9, <2>1 DEF TypeOK, Drop, Kept, calls, ends, announcing, Up, Of
  <2>3. Ended'
    BY <1>9, <2>1 DEF TypeOK, Drop, Ended, calls, ends, announcing, Of
  <2>4. OneFleet'
    BY <1>9, <2>1 DEF TypeOK, Drop, OneFleet, calls, ends, announcing, Owned
  <2> QED
    BY <2>1, <2>2, <2>3, <2>4
<1>10. ASSUME NEW s \in Shards, GiveUp(s) PROVE FleetInv'
  <2>1. Made' = Made /\ MadeFirst'
    BY <1>10, MadeSame DEF TypeOK, MadeFirst, GiveUp, calls, ends, announcing
  <2>2. Kept'
    BY <1>10, <2>1 DEF TypeOK, GiveUp, Kept, calls, ends, announcing, Up, Of
  <2>3. Ended'
    BY <1>10, <2>1 DEF TypeOK, GiveUp, Ended, calls, ends, announcing, Of
  <2>4. OneFleet'
    BY <1>10, <2>1 DEF TypeOK, GiveUp, OneFleet, calls, ends, announcing, Owned
  <2> QED
    BY <2>1, <2>2, <2>3, <2>4
<1>11. ASSUME NEW l \in Logins, AllReady(l) PROVE FleetInv'
  <2>1. Made' = Made /\ MadeFirst'
    BY <1>11, MadeSame DEF TypeOK, MadeFirst, AllReady, ends, announcing, WaitsEnd
  <2>2. Kept'
    BY <1>11, <2>1 DEF TypeOK, AllReady, Kept, ends, announcing, Up, Of, WaitsEnd
  <2>3. Ended'
    BY <1>11, <2>1 DEF TypeOK, AllReady, Ended, ends, announcing, Of, WaitsEnd
  <2>4. OneFleet'
    BY <1>11, <2>1 DEF TypeOK, AllReady, OneFleet, ends, announcing, Owned, WaitsEnd
  <2> QED
    BY <2>1, <2>2, <2>3, <2>4
<1>12. ASSUME NEW w \in Waits, WhenReady(w) PROVE FleetInv'
  <2>1. Made' = Made /\ MadeFirst'
    BY <1>12, MadeSame DEF TypeOK, MadeFirst, WhenReady, ends, shards, announcing
  <2>2. Kept'
    BY <1>12, <2>1 DEF TypeOK, WhenReady, Kept, ends, shards, announcing, Up, Of
  <2>3. Ended'
    BY <1>12, <2>1 DEF TypeOK, WhenReady, Ended, ends, shards, announcing, Of
  <2>4. OneFleet'
    BY <1>12, <2>1 DEF TypeOK, WhenReady, OneFleet, ends, shards, announcing, Owned
  <2> QED
    BY <2>1, <2>2, <2>3, <2>4
<1>13. ASSUME NEW s \in Shards, NEW d \in Destroys, Fatal(s, d) PROVE FleetInv'
  <2>0. \A e \in Destroys : stopping'[e] \subseteq stopping[e] \/ stopping'[e] \subseteq Made
    <3>1. stopping' = [stopping EXCEPT ![d] = Targets] /\ Targets \subseteq Made
      BY <1>13 DEF Fatal, Down, Targets, MadeFirst
    <3> QED
      BY <3>1 DEF TypeOK
  <2>1. Made' = Made /\ MadeFirst'
    <3>1. /\ phase[s] # "none" /\ phase' = [phase EXCEPT ![s] = "fatal"] /\ owed' \subseteq owed
          /\ UNCHANGED <<login, own, loading, map, counted, allReady, routed>>
      BY <1>13 DEF Fatal, Down
    <3>2. \A t \in Shards : t \in loading' \/ phase'[t] # "none" \/ t \in counted' => t \in Made
      BY <3>1 DEF TypeOK, MadeFirst
    <3>3. counted \subseteq counted' /\ owed' \cup routed' \subseteq counted'
      BY <3>1 DEF MadeFirst
    <3> QED
      BY <2>0, <3>1, <3>2, <3>3, MadeSame
  <2>2. Kept' /\ Ended'
    BY <1>13, <2>1, DownKept DEF TypeOK, Fatal, Up
  <2>3. Ended'
    BY <2>2
  <2>4. OneFleet'
    BY <1>13, <2>1 DEF TypeOK, Fatal, OneFleet, Owned, Down
  <2> QED
    BY <2>1, <2>2, <2>3, <2>4
<1>14. ASSUME NEW d \in Destroys, Destroy(d) PROVE FleetInv'
  <2>0. \A e \in Destroys : stopping'[e] \subseteq stopping[e] \/ stopping'[e] \subseteq Made
    <3>1. stopping' = [stopping EXCEPT ![d] = Targets] /\ Targets \subseteq Made
      BY <1>14 DEF Destroy, Down, Targets, MadeFirst
    <3> QED
      BY <3>1 DEF TypeOK
  <2>1. Made' = Made /\ MadeFirst'
    BY <1>14, <2>0, MadeSame DEF TypeOK, MadeFirst, Destroy, Down
  <2>2. Kept' /\ Ended'
    BY <1>14, <2>1, DownKept DEF TypeOK, Destroy, Up
  <2>3. Ended'
    BY <2>2
  <2>4. OneFleet'
    BY SMTT(30), <1>14, <2>1 DEF TypeOK, Destroy, OneFleet, Owned, Down
  <2> QED
    BY <2>1, <2>2, <2>3, <2>4
<1>15. ASSUME NEW d \in Destroys, NEW s \in Shards, Stopped(d, s) PROVE FleetInv'
  <2>1. Made' = Made /\ MadeFirst'
    BY <1>15, MadeSame DEF TypeOK, MadeFirst, Stopped, calls, announcing
  <2>2. Kept'
    BY <1>15, <2>1 DEF TypeOK, Stopped, Kept, calls, announcing, Up, Of
  <2>3. Ended'
    BY <1>15, <2>1 DEF TypeOK, Stopped, Ended, calls, announcing, Of
  <2>4. OneFleet'
    BY <1>15, <2>1 DEF TypeOK, Stopped, OneFleet, calls, announcing, Owned
  <2> QED
    BY <2>1, <2>2, <2>3, <2>4
<1>16. ASSUME NEW d \in Destroys, NEW s \in Shards, StopFails(d, s) PROVE FleetInv'
  <2>1. Made' = Made /\ MadeFirst'
    BY <1>16, MadeSame DEF TypeOK, MadeFirst, StopFails, calls, shards, announcing
  <2>2. Kept'
    BY <1>16, <2>1 DEF TypeOK, StopFails, Kept, calls, shards, announcing, Up, Of
  <2>3. Ended'
    <3>1. /\ UNCHANGED <<own, lost, destroyed, wait, login, sweeping>>
          /\ \A k \in Logins : Of(k)' = Of(k)
      BY <1>16 DEF StopFails, calls, Of
    <3>2. destroyed
      BY <1>16 DEF StopFails, Ended
    <3> QED
      BY <3>1, <3>2 DEF Ended
  <2>4. OneFleet'
    BY <1>16, <2>1 DEF TypeOK, StopFails, OneFleet, calls, shards, announcing, Owned
  <2> QED
    BY <2>1, <2>2, <2>3, <2>4
<1>17. ASSUME NEW d \in Destroys, Destroyed(d) PROVE FleetInv'
  <2>1. Made' = Made /\ MadeFirst'
    BY <1>17, MadeSame DEF TypeOK, MadeFirst, Destroyed, calls, announcing, Owned
  <2>2. Kept'
    <3>1. /\ destroyed /\ destroy[d] = "stopping" /\ stopping[d] = {}
          /\ UNCHANGED <<phase, loading, dead, destroyed, lost>>
      BY <1>17 DEF Destroyed, Ended, announcing
    <3>2. \A t \in Made \ lost : ~Up(t) /\ t \in dead \ loading
      BY <3>1 DEF Kept
    <3> QED
      BY <2>1, <3>1, <3>2 DEF Kept, Up
  <2>3. Ended'
    BY <1>17, <2>1 DEF TypeOK, Destroyed, Ended, calls, announcing, Of, Owned
  <2>4. OneFleet'
    <3>1. destroyed /\ UNCHANGED <<own, owed, dead, lost, told, destroyed>>
      BY <1>17 DEF Destroyed, Ended, calls, announcing
    <3> QED
      BY <3>1 DEF OneFleet
  <2> QED
    BY <2>1, <2>2, <2>3, <2>4
<1>18. CASE UNCHANGED vars
  BY <1>18 DEF vars, calls, ends, shards, announcing, MadeFirst, Kept, Ended, OneFleet, Made,
     Of, Owned, Up
<1> QED
  BY <1>1, <1>2, <1>3, <1>4, <1>5, <1>6, <1>7, <1>8, <1>9, <1>10, <1>11, <1>12, <1>13, <1>14,
     <1>15, <1>16, <1>17, <1>18, <1>19 DEF Next, Connecting, FetchEnds, Drains

\* Whoever is ready of those it owns is all of them.
LEMMA ReadyIsAll ==
  ASSUME TypeOK, MadeFirst, NEW R, R \subseteq Owned(map), AllShardsReady(R, map)
  PROVE  R = Owned(map)
<1>1. IsFiniteSet(Owned(map)) /\ Cardinality(R) >= Cardinality(Owned(map))
  BY DEF MadeFirst, AllShardsReady
<1>2. /\ IsFiniteSet(R) /\ Cardinality(R) <= Cardinality(Owned(map))
      /\ Cardinality(R) = Cardinality(Owned(map)) => R = Owned(map)
  BY <1>1, FS_Subset
<1>3. Cardinality(R) \in Nat /\ Cardinality(Owned(map)) \in Nat
  BY <1>1, <1>2, FS_CardinalityType
<1> QED
  BY <1>1, <1>2, <1>3

\* Only a READY that is handled tells the client that it is ready, ...
LEMMA ToldOnlySo ==
  ASSUME Next, told' # told
  PROVE  \E s \in Shards, throws \in BOOLEAN :
           /\ Ready(s, TRUE, throws) \/ Ready(s, FALSE, throws) \/ Drained(s, throws)
           /\ Announce(s, readyShards \cup {s[2]}, user \/ ~throws)
<1>1. ASSUME NEW s \in Shards, NEW waits \in BOOLEAN, NEW throws \in BOOLEAN, Ready(s, waits, throws)
      PROVE  /\ Ready(s, TRUE, throws) \/ Ready(s, FALSE, throws)
             /\ Announce(s, readyShards \cup {s[2]}, user \/ ~throws)
  <2>1. waits = TRUE \/ waits = FALSE
    OBVIOUS
  <2>2. Announce(s, readyShards \cup {s[2]}, user \/ ~throws)
    BY <1>1 DEF Ready
  <2> QED
    BY Zenon, <1>1, <2>1, <2>2
<1>2. ASSUME NEW s \in Shards, NEW throws \in BOOLEAN, Drained(s, throws)
      PROVE  Announce(s, readyShards \cup {s[2]}, user \/ ~throws)
  BY <1>2 DEF Drained
<1>3. \/ \E s \in Shards, waits, throws \in BOOLEAN : Ready(s, waits, throws)
      \/ \E s \in Shards, throws \in BOOLEAN : Drained(s, throws)
  BY ZenonT(30) DEF Next, Connecting, FetchEnds, Drains, Login, FetchFails, Fetched, Loaded, LoadFails,
     Resumed, Unheard,
         Drop, GiveUp, AllReady, WhenReady, Fatal, Destroy, Down, Stopped, StopFails, Destroyed,
         shards, announcing
<1> QED
  BY <1>1, <1>2, <1>3

\* ... and only the last READY of a fleet, or a fleet that is ready, resolves whenReady().
LEMMA ResolvedOnlySo ==
  ASSUME TypeOK, Next, NEW w \in Waits, wait'[w] = "resolved", wait[w] # "resolved"
  PROVE  (\E l \in Logins : AllReady(l)) \/ WhenReady(w)
<1>1. ASSUME NEW d \in Destroys, Down(d) PROVE FALSE
  BY <1>1 DEF TypeOK, Down, WaitsEnd
<1>2. ASSUME NEW v \in Waits, WhenReady(v) PROVE v = w
  BY <1>2 DEF TypeOK, WhenReady
<1>3. \/ \E l \in Logins : AllReady(l)
      \/ \E v \in Waits : WhenReady(v)
      \/ \E d \in Destroys : Down(d)
  BY ZenonT(30) DEF Next, Connecting, FetchEnds, Drains, Login, FetchFails, Fetched, Loaded, LoadFails,
     Resumed, Unheard,
         Ready, Drained, Drop, GiveUp, Fatal, Destroy, Stopped, StopFails, Destroyed, calls, Fail
<1> QED
  BY <1>1, <1>2, <1>3

LEMMA FirstStep == TypeOK /\ FleetInv /\ TypeOK' /\ FleetInv' /\ [Next]_vars => [EveryShardFirst]_vars
<1> SUFFICES ASSUME TypeOK, FleetInv, TypeOK', FleetInv', Next PROVE EveryShardFirst
  OBVIOUS
<1> USE DEF FleetInv
<1>1. ASSUME told' > told, lost' = {} PROVE told = 0 /\ \A i \in Owned(map) : map[i] \in routed'
  <2>1. \E s \in Shards, throws \in BOOLEAN :
          /\ Ready(s, TRUE, throws) \/ Ready(s, FALSE, throws) \/ Drained(s, throws)
          /\ Announce(s, readyShards \cup {s[2]}, user \/ ~throws)
    <3>1. told \in Nat
      BY DEF TypeOK
    <3>2. told' # told
      BY <1>1, <3>1
    <3> QED
      BY <3>2, ToldOnlySo
  <2>2. PICK s \in Shards, throws \in BOOLEAN :
          /\ Ready(s, TRUE, throws) \/ Ready(s, FALSE, throws) \/ Drained(s, throws)
          /\ Announce(s, readyShards \cup {s[2]}, user \/ ~throws)
    BY <2>1
  <2>3. map' = map /\ lost' = lost /\ destroyed' = destroyed /\ s \in Made
    BY <2>2 DEF Ready, Drained, shards, MadeFirst
  <2>4. s \notin dead
    <3>1. told' # told
      BY <1>1 DEF TypeOK
    <3> QED
      BY <2>2, <3>1 DEF Ready, Drained, OneFleet
  <2>5. ~destroyed
    BY <1>1, <2>3, <2>4 DEF Kept
  <2>6. readyShards' \subseteq {i \in Owned(map) : map[i] \in routed'}
    BY <1>1, <2>3, <2>5 DEF OneFleet, Owned
  <2>7. AllShardsReady(readyShards', map)
    BY <1>1, <2>2 DEF TypeOK, Announce, Told
  <2>8. told = 0
    BY <1>1 DEF TypeOK, OneFleet
  <2> QED
    BY <2>6, <2>7, <2>8, ReadyIsAll
<1>2. ASSUME NEW w \in Waits, wait'[w] = "resolved", wait[w] # "resolved", lost' = {}
      PROVE  \A i \in Owned(map) : map[i] \in counted
  <2>1. \/ \E l \in Logins : AllReady(l)
        \/ WhenReady(w)
    BY <1>2, ResolvedOnlySo
  <2>2. lost = {}
    BY <1>2, <2>1 DEF AllReady, WhenReady
  <2>3. CASE WhenReady(w)
    <3>1. ~destroyed /\ AllShardsReady(readyShards, map)
      BY <1>2, <2>3 DEF WhenReady, TypeOK
    <3>2. readyShards \subseteq {i \in Owned(map) : map[i] \in routed}
      BY <2>2, <3>1 DEF OneFleet
    <3>3. readyShards = Owned(map)
      BY <3>1, <3>2, ReadyIsAll
    <3> QED
      BY <3>2, <3>3 DEF MadeFirst
  <2>4. ASSUME NEW l \in Logins, AllReady(l) PROVE \A i \in Owned(map) : map[i] \in counted
    <3>1. ASSUME NEW i \in Owned(map) PROVE map[i] \in counted
      <4>1. map[i] \in Made /\ own[l] # {} /\ Of(l) \subseteq counted
        BY <2>4 DEF AllReady, MadeFirst
      <4>2. map[i] \in Shards /\ map[i][1] \in Logins /\ map[i][2] \in own[map[i][1]]
        BY <4>1, MadeIs, ShardIs
      <4>3. map[i][1] = l
        BY <2>2, <4>1, <4>2 DEF OneFleet
      <4> QED
        BY <4>1, <4>2, <4>3, MadeIs
    <3> QED
      BY <3>1
  <2> QED
    BY <2>1, <2>3, <2>4
<1> QED
  BY <1>1, <1>2 DEF EveryShardFirst

LEMMA FleetHolds == Spec => [](TypeOK /\ FleetInv)
<1>1. TypeOK /\ FleetInv /\ [Next]_vars => (TypeOK /\ FleetInv)'
  BY FleetTypeStep, FleetStep
<1> QED
  BY <1>1, FleetStart, PTL DEF Spec

\* However many destroy() calls, logins and failing stores there are: when one destroy()
\* is done, no shard of the client runs and no sweeper, but those that another login()
\* replaced or that the destroy() came too early for (Client.destroy, ShardManager.destroy).
THEOREM DestroyStops == Spec => []DestroyStopsFleet
<1>1. TypeOK /\ FleetInv => DestroyStopsFleet
  <2> SUFFICES ASSUME TypeOK, FleetInv, NEW d \in Destroys, destroy[d] = "done"
               PROVE  /\ Running \subseteq lost
                      /\ sweeping => \E l \in Logins : own[l] # {} /\ Of(l) \subseteq lost
    BY DEF DestroyStopsFleet
  <2>1. destroyed
    BY DEF FleetInv, Ended
  <2>2. Running \subseteq Made
    BY DEF FleetInv, MadeFirst, Running, Up
  <2>3. \A s \in Made \ lost : s \notin loading /\ ~Up(s)
    BY <2>1 DEF FleetInv, Kept
  <2>4. Running \subseteq lost
    BY <2>2, <2>3 DEF Running
  <2> QED
    BY <2>1, <2>4 DEF FleetInv, Ended
<1> QED
  BY <1>1, FleetHolds, PTL

\* The client emits ready at most once for a fleet that was neither replaced nor
\* overtaken by a destroy(), however many shards, READYs and late drains it sees
\* (#announceReady of Client).
THEOREM ReadyIsOnce == Spec => []ReadyOnce
<1>1. TypeOK /\ FleetInv => ReadyOnce
  BY DEF FleetInv, OneFleet, ReadyOnce
<1> QED
  BY <1>1, FleetHolds, PTL

\* ready is emitted only once, in a step after which every shard of the fleet had its READY
\* handled, and whenReady() resolves only when each has been ready (Client and
\* ShardManager.connect).
THEOREM ReadyIsEveryShard == Spec => ReadyMeansEveryShard
  BY FleetHolds, FirstStep, PTL DEF Spec, ReadyMeansEveryShard

-----------------------------------------------------------------------------
(* GlobalLimiter. *)

LimiterSound == LimiterTypeOK /\ LimiterInv

LEMMA LimiterLog ==
  ASSUME log \in Seq(Entries) PROVE \A i \in 1 .. Len(log) : log[i].at \in Nat
<1>1. \A i \in 1 .. Len(log) : log[i] \in Entries
  OBVIOUS
<1> QED
  BY <1>1 DEF Entries

LEMMA LimiterStart == LimiterInit => LimiterSound
<1> SUFFICES ASSUME LimiterInit PROVE LimiterSound
  OBVIOUS
<1>1. LimiterTypeOK
  <2>1. log \in Seq(Entries) /\ asleep \subseteq Requests /\ wake \in [Requests -> Nat]
    BY DEF LimiterInit
  <2>2. tooEarly \in BOOLEAN
    BY DEF LimiterInit
  <2> QED
    BY <2>1, <2>2, EmptyRingHolds DEF LimiterInit, LimiterTypeOK
<1>2. LimiterInv
  BY EmptyRingHolds, WindowAssumption
  DEF LimiterInit, LimiterInv, WindowRespected, Spaced, BlockRespected
<1> QED
  BY <1>1, <1>2 DEF LimiterSound

LEMMA LimiterDelay == LimiterSound => Delay(ring, Limit, now) \in Nat
<1> SUFFICES ASSUME LimiterSound PROVE Delay(ring, Limit, now) \in Nat
  OBVIOUS
<1>2. \A i \in 1 .. Len(log) : log[i].at \in Nat
  BY LimiterLog DEF LimiterSound, LimiterTypeOK
<1>3. Limit \in 1 .. Limit
  BY WindowAssumption
<1> QED
  BY <1>2, <1>3, DelayMeans DEF LimiterSound, LimiterTypeOK, LimiterInv

LEMMA LimiterWaits ==
  ASSUME LimiterSound, NEW c \in Requests, NEW delay \in Nat, Wait(c, delay) PROVE LimiterSound'
  BY DEF LimiterSound, LimiterTypeOK, LimiterInv, Wait, WakeUp, WindowRespected, BlockRespected

\* A request that counts goes out when the ring lets it.
LEMMA LimiterRecords ==
  ASSUME LimiterSound, NEW c \in Requests, Delay(ring, Limit, now) = 0,
         ring' = Recorded(ring, now), log' = Append(log, [at |-> now])
  PROVE  /\ ring' \in Rings /\ log' \in Seq(Entries)
         /\ RingHolds(ring, log)' /\ WindowRespected'
<1> DEFINE e == [at |-> now]
<1>1. ring \in Rings /\ log \in Seq(Entries) /\ now \in Nat /\ RingHolds(ring, log)
      /\ e \in Entries /\ e.at = now
  BY DEF LimiterSound, LimiterTypeOK, LimiterInv, Entries
<1>3. \A i \in 1 .. Len(log) : log[i].at \in Nat
  BY <1>1, LimiterLog
<1>4. Limit \in 1 .. Limit
  BY WindowAssumption
<1>5. Len(log) >= Limit => log[Len(log) + 1 - Limit].at + Window <= now
  BY <1>1, <1>3, <1>4, DelayMeans
<1>6. ring' \in Rings /\ RingHolds(ring', log')
  BY <1>1, RecordedType, RecordedHolds
<1>7. Spaced(log')
  BY <1>1, <1>5, AppendSpaced DEF LimiterSound, LimiterInv, WindowRespected
<1>8. log' \in Seq(Entries)
  BY <1>1
<1> QED
  BY <1>6, <1>7, <1>8 DEF WindowRespected

LEMMA LimiterStep == LimiterSound /\ [LimiterNext]_limiterVars => LimiterSound'
<1> SUFFICES ASSUME LimiterSound, [LimiterNext]_limiterVars PROVE LimiterSound'
  OBVIOUS
<1>0. now \in Nat /\ blockedUntil \in Nat /\ promised \in Nat
      /\ promised <= blockedUntil /\ ~tooEarly
  BY DEF LimiterSound, LimiterTypeOK, LimiterInv, BlockRespected
<1>1. ASSUME NEW c \in Requests, Turn(c) PROVE LimiterSound'
  <2>1. CASE blockedUntil > now /\ Wait(c, blockedUntil - now)
    <3>1. blockedUntil - now \in Nat
      BY <2>1, <1>0
    <3> QED
      BY <2>1, <3>1, LimiterWaits
  <2>2. CASE blockedUntil <= now /\ Send(c) /\ UNCHANGED <<ring, log>>
    <3>1. ~tooEarly' /\ tooEarly' \in BOOLEAN
      <4>1. ~(now < promised)
        BY <1>0, <2>2
      <4> QED
        BY <4>1, <1>0, <2>2, Zenon DEF Send
    <3> QED
      BY <2>2, <3>1
      DEF LimiterSound, LimiterTypeOK, LimiterInv, Send, WakeUp, WindowRespected, BlockRespected
  <2>3. CASE Wait(c, Delay(ring, Limit, now))
    BY <2>3, LimiterDelay, LimiterWaits
  <2>4. CASE /\ blockedUntil <= now /\ Delay(ring, Limit, now) = 0
             /\ Send(c)
             /\ ring' = Recorded(ring, now) /\ log' = Append(log, [at |-> now])
    <3>1. ~tooEarly' /\ tooEarly' \in BOOLEAN
      <4>1. ~(now < promised)
        BY <1>0, <2>4
      <4> QED
        BY <4>1, <1>0, <2>4, Zenon DEF Send
    <3>2. /\ ring' \in Rings /\ log' \in Seq(Entries)
          /\ RingHolds(ring, log)' /\ WindowRespected'
      BY <2>4, LimiterRecords
    <3> QED
      BY <2>4, <3>1, <3>2
      DEF LimiterSound, LimiterTypeOK, LimiterInv, Send, WakeUp, BlockRespected
  <2> QED
    BY <1>1, <2>1, <2>2, <2>3, <2>4 DEF Turn
<1>2. ASSUME NEW c \in Requests, Abort(c) PROVE LimiterSound'
  BY <1>2 DEF Abort, WakeUp, LimiterSound, LimiterTypeOK, LimiterInv, WindowRespected, BlockRespected
<1>3. ASSUME NEW until \in now + 1 .. now + MaxBlock, BlockUntil(until) PROVE LimiterSound'
  <2>1. until \in Nat
    BY <1>0, <1>3, LimiterAssumption
  <2>2. promised' \in Nat /\ blockedUntil' \in Nat /\ promised' <= blockedUntil'
    BY <1>0, <1>3, <2>1 DEF BlockUntil, Extend
  <2> QED
    BY <1>3, <2>2 DEF BlockUntil, LimiterSound, LimiterTypeOK, LimiterInv, WindowRespected, BlockRespected
<1>4. ASSUME Tick PROVE LimiterSound'
  BY <1>4 DEF Tick, LimiterSound, LimiterTypeOK, LimiterInv, WindowRespected, BlockRespected
<1>5. CASE UNCHANGED limiterVars
  BY <1>5 DEF limiterVars, LimiterSound, LimiterTypeOK, LimiterInv, WindowRespected, BlockRespected
<1> QED
  BY <1>1, <1>2, <1>3, <1>4, <1>5 DEF LimiterNext

LEMMA LimiterHolds == LimiterSpec => []LimiterSound
  BY LimiterStart, LimiterStep, PTL DEF LimiterSpec

\* The variables keep their types.
THEOREM LimiterTypes == LimiterSpec => []LimiterTypeOK
<1>1. LimiterSound => LimiterTypeOK
  BY DEF LimiterSound
<1> QED
  BY <1>1, LimiterHolds, PTL

\* No second holds more sends than the limit, whatever waited for it.
THEOREM WindowHolds == LimiterSpec => []WindowRespected
<1>1. LimiterSound => WindowRespected
  BY DEF LimiterSound, LimiterInv
<1> QED
  BY <1>1, LimiterHolds, PTL

\* Nothing goes out before the latest time a 429 named.
THEOREM BlockHolds == LimiterSpec => []BlockRespected
<1>1. LimiterSound => BlockRespected
  BY DEF LimiterSound, LimiterInv
<1> QED
  BY <1>1, LimiterHolds, PTL

\* However many requests wait, wake, abort or answer with a 429, acquire() lets none
\* past the ceiling of its window or into a block.
THEOREM LimitHolds == LimiterSpec => []LimitRespected
  BY WindowHolds, BlockHolds, PTL DEF LimitRespected

-----------------------------------------------------------------------------
(* IdentifyThrottler. *)

ThrottlerSound == ThrottlerTypeOK /\ OnePerWindow /\ ThrottlerInv

LEMMA BucketType == \A c \in Connections : Bucket(c) \in Buckets
<1>1. \A n \in Nat : n % MaxConcurrency \in 0 .. MaxConcurrency - 1
  BY ThrottlerAssumption
<1> QED
  BY <1>1, ThrottlerAssumption DEF Bucket, Buckets

\* The products the schedule is compared by.
LEMMA OneWindowMore ==
  ASSUME NEW n \in Int
  PROVE  n * IdentifyWindow \in Int /\ (n + 1) * IdentifyWindow = n * IdentifyWindow + IdentifyWindow
  BY ThrottlerAssumption

\* Steps that leave the clock's past alone: the grants and the schedule.
LEMMA ThrottlerSame ==
  ASSUME ThrottlerSound, UNCHANGED <<freeAt, grants>>, ThrottlerTypeOK',
         \A b \in Buckets : sleepEnds'[b] \in {Awake, freeAt[b]}
  PROVE  ThrottlerSound'
  BY DEF ThrottlerSound, OnePerWindow, ThrottlerInv

\* The first in line leaves it awake.
LEMMA DoneTypes ==
  ASSUME ThrottlerSound, NEW c \in Connections, FirstInLine(c), Done(c)
  PROVE  /\ line' \in [Buckets -> Seq(Connections)] /\ aborted' \subseteq Connections
         /\ sleepEnds' = [sleepEnds EXCEPT ![Bucket(c)] = Awake]
         /\ \A b \in Buckets : b # Bucket(c) => line'[b] = line[b]
<1>1. Bucket(c) \in Buckets /\ line \in [Buckets -> Seq(Connections)]
  BY BucketType DEF ThrottlerSound, ThrottlerTypeOK
<1>2. Tail(line[Bucket(c)]) \in Seq(Connections)
  BY <1>1 DEF FirstInLine
<1>3. line' = [line EXCEPT ![Bucket(c)] = Tail(line[Bucket(c)])]
  BY <1>1 DEF Done
<1> QED
  BY <1>1, <1>2, <1>3 DEF Done, ThrottlerSound, ThrottlerTypeOK

\* Whoever is granted comes no earlier than Early before the schedule, which moves
\* on by a window.
LEMMA GrantSound ==
  ASSUME ThrottlerSound, NEW c \in Connections, FirstInLine(c), Grant(c),
         freeAt[Bucket(c)] <= clock + Early
  PROVE  ThrottlerSound'
<1> DEFINE b == Bucket(c)
           n == Len(grants[b])
<1>1. /\ b \in Buckets /\ clock \in Nat /\ freeAt \in [Buckets -> Nat]
      /\ grants \in [Buckets -> Seq(Nat)] /\ sleepEnds \in [Buckets -> Nat \cup {Awake}]
      /\ n \in Nat /\ IdentifyWindow \in Nat /\ Early \in Nat /\ Early <= IdentifyWindow
  BY BucketType, ThrottlerAssumption DEF ThrottlerSound, ThrottlerTypeOK
<1>2. /\ freeAt' = [freeAt EXCEPT ![b] = FromSchedule(b) + IdentifyWindow]
      /\ grants' = [grants EXCEPT ![b] = Append(grants[b], clock)]
      /\ clock' = clock
  BY <1>1 DEF Grant
<1>3. /\ FromSchedule(b) \in Nat /\ FromSchedule(b) >= clock
      /\ FromSchedule(b) >= freeAt[b]
  BY <1>1 DEF FromSchedule
<1>4. /\ freeAt' \in [Buckets -> Nat] /\ freeAt'[b] >= clock + IdentifyWindow
      /\ freeAt'[b] >= freeAt[b] + IdentifyWindow
  BY <1>1, <1>2, <1>3
<1>5. /\ grants' \in [Buckets -> Seq(Nat)] /\ Len(grants'[b]) = n + 1
      /\ grants'[b][n + 1] = clock
      /\ \A i \in 1 .. n : grants'[b][i] = grants[b][i] /\ grants[b][i] \in Nat
  <2> DEFINE g == grants[b]
  <2>1. g \in Seq(Nat)
    BY <1>1
  <2>2. grants'[b] = Append(g, clock)
    BY <1>1, <1>2
  <2> HIDE DEF g
  <2>3. /\ Append(g, clock) \in Seq(Nat) /\ Len(Append(g, clock)) = Len(g) + 1
        /\ Append(g, clock)[Len(g) + 1] = clock
        /\ \A i \in 1 .. Len(g) : Append(g, clock)[i] = g[i] /\ g[i] \in Nat
    BY <1>1, <2>1
  <2> QED
    BY <1>1, <1>2, <2>2, <2>3 DEF g
<1>6. /\ line' \in [Buckets -> Seq(Connections)] /\ aborted' \subseteq Connections
      /\ sleepEnds' = [sleepEnds EXCEPT ![b] = Awake]
      /\ \A d \in Buckets : d # b => line'[d] = line[d]
  BY DoneTypes DEF Grant
<1>7. ThrottlerTypeOK'
  BY <1>1, <1>2, <1>4, <1>5, <1>6 DEF ThrottlerSound, ThrottlerTypeOK
<1>8. ASSUME NEW i \in 1 .. n
      PROVE  /\ clock >= grants[b][i] + (n + 1 - i) * IdentifyWindow - Early
             /\ freeAt'[b] >= grants[b][i] + (n + 1 - i + 1) * IdentifyWindow
  <2>1. freeAt[b] >= grants[b][i] + (n - i + 1) * IdentifyWindow
    BY <1>1 DEF ThrottlerSound, ThrottlerInv
  <2>2. n - i + 1 = n + 1 - i /\ n + 1 - i \in Int
    BY <1>1
  <2>3. /\ (n + 1 - i) * IdentifyWindow \in Int
        /\ (n + 1 - i + 1) * IdentifyWindow = (n + 1 - i) * IdentifyWindow + IdentifyWindow
    BY <2>2, OneWindowMore
  <2> DEFINE span == (n + 1 - i) * IdentifyWindow
  <2>4. freeAt[b] >= grants[b][i] + span /\ grants[b][i] \in Nat
    BY <1>5, <2>1, <2>2
  <2> HIDE DEF span
  <2>5. freeAt[b] \in Nat /\ freeAt'[b] \in Nat /\ span \in Int
    BY <1>1, <1>4, <2>3 DEF span
  <2>6. /\ clock >= grants[b][i] + span - Early
        /\ freeAt'[b] >= grants[b][i] + (span + IdentifyWindow)
    <3> DEFINE f == freeAt[b]
               g == grants[b][i]
               next == freeAt'[b]
    <3>1. /\ f \in Nat /\ g \in Nat /\ next \in Nat /\ clock \in Nat /\ Early \in Nat
          /\ IdentifyWindow \in Nat /\ f <= clock + Early
      BY <1>1, <2>4, <2>5
    <3>2. f >= g + span /\ next >= f + IdentifyWindow
      BY <1>4, <2>4
    <3> HIDE DEF f, g, next
    <3>3. clock >= g + span - Early /\ next >= g + (span + IdentifyWindow)
      BY ONLY <2>5, <3>1, <3>2
    <3> QED
      BY <3>3 DEF f, g, next
  <2> QED
    BY <2>3, <2>6 DEF span
<1>9. OnePerWindow'
  <2>1. ASSUME NEW d \in Buckets, NEW j \in 1 .. Len(grants'[d]), NEW i \in 1 .. j - 1
        PROVE  grants'[d][j] - grants'[d][i] >= (j - i) * IdentifyWindow - Early
    <3>1. CASE d # b
      BY <1>1, <1>2, <3>1 DEF ThrottlerSound, OnePerWindow
    <3>2. CASE d = b /\ j <= n
      <4>1. j \in 1 .. n /\ i \in 1 .. n
        BY <1>5, <3>2, n \in Nat, <1>1
      <4>3. grants'[d][j] = grants[b][j] /\ grants'[d][i] = grants[b][i]
        BY <1>5, <3>2, <4>1
      <4>2. grants[b][j] - grants[b][i] >= (j - i) * IdentifyWindow - Early
        BY <1>1, <4>1 DEF ThrottlerSound, OnePerWindow
      <4> QED
        BY <4>2, <4>3, <3>2
    <3>3. CASE d = b /\ j = n + 1
      <4>1. i \in 1 .. n /\ grants'[d][j] = clock /\ grants'[d][i] = grants[b][i]
            /\ grants[b][i] \in Nat
        BY <1>1, <1>5, <3>3
      <4>2. clock >= grants[b][i] + (j - i) * IdentifyWindow - Early
        BY <1>8, <3>3, <4>1
      <4>3. (j - i) * IdentifyWindow \in Int
        BY <1>1, <3>3, <4>1
      <4> DEFINE g == grants[b][i]
                 span == (j - i) * IdentifyWindow
      <4>4. g \in Nat /\ span \in Int /\ clock \in Nat /\ Early \in Nat /\ clock >= g + span - Early
        BY <1>1, <4>1, <4>2, <4>3
      <4> HIDE DEF g, span
      <4>5. clock - g >= span - Early
        BY ONLY <4>4
      <4> QED
        BY <4>1, <4>5 DEF g, span
    <3>4. d = b => j <= n \/ j = n + 1
      <4>1. d = b => j \in 1 .. n + 1
        BY <1>5
      <4> QED
        BY <1>1, <4>1
    <3> QED
      BY <3>1, <3>2, <3>3, <3>4
  <2> QED
    BY <1>7, <2>1 DEF OnePerWindow
<1>10. ThrottlerInv'
  <2>1. ASSUME NEW d \in Buckets
        PROVE  /\ sleepEnds'[d] \in {Awake, freeAt'[d]}
               /\ \A i \in 1 .. Len(grants'[d]) :
                    freeAt'[d] >= grants'[d][i] + (Len(grants'[d]) - i + 1) * IdentifyWindow
    <3>1. CASE d # b
      BY <1>1, <1>2, <1>6, <3>1 DEF ThrottlerSound, ThrottlerInv
    <3>2. CASE d = b
      <4>1. sleepEnds'[d] = Awake
        BY <1>1, <1>6, <3>2
      <4>2. ASSUME NEW i \in 1 .. n + 1
            PROVE  freeAt'[b] >= grants'[b][i] + (n + 1 - i + 1) * IdentifyWindow
        <5>1. CASE i \in 1 .. n
          <6>1. grants'[b][i] = grants[b][i]
            BY <1>5, <5>1
          <6> QED
            BY <1>8, <5>1, <6>1
        <5>2. CASE i = n + 1
          <6>1. grants'[b][i] = clock
            BY <1>5, <5>2
          <6>2. n \in Nat /\ i = n + 1 /\ IdentifyWindow \in Nat
            BY <1>1, <5>2
          <6> HIDE DEF n
          <6>3. n + 1 - i + 1 = 1 /\ 1 * IdentifyWindow = IdentifyWindow
            BY ONLY <6>2
          <6> QED
            BY <1>4, <6>1, <6>3
        <5>3. i \in 1 .. n \/ i = n + 1
          <6>1. n \in Nat /\ i \in 1 .. n + 1
            BY <1>1
          <6> HIDE DEF n
          <6> QED
            BY ONLY <6>1
        <5> QED
          BY <5>1, <5>2, <5>3
      <4> QED
        BY SMTT(60), <1>5, <3>2, <4>1, <4>2
    <3> QED
      BY <3>1, <3>2
  <2> QED
    BY <2>1 DEF ThrottlerInv
<1> QED
  BY <1>7, <1>9, <1>10 DEF ThrottlerSound

LEMMA ThrottlerStep == ThrottlerSound /\ [ThrottlerNext]_throttlerVars => ThrottlerSound'
<1> SUFFICES ASSUME ThrottlerSound, [ThrottlerNext]_throttlerVars PROVE ThrottlerSound'
  OBVIOUS
<1>0. /\ \A b \in Buckets : sleepEnds[b] \in {Awake, freeAt[b]}
      /\ line \in [Buckets -> Seq(Connections)] /\ sleepEnds \in [Buckets -> Nat \cup {Awake}]
      /\ freeAt \in [Buckets -> Nat] /\ clock \in Nat /\ aborted \subseteq Connections
      /\ \A b \in Buckets : sleepEnds[b] # Awake => line[b] # <<>>
  BY DEF ThrottlerSound, ThrottlerInv, ThrottlerTypeOK
<1>1. ASSUME NEW c \in Connections, WaitForIdentify(c) PROVE ThrottlerSound'
  <2>1. Bucket(c) \in Buckets
    BY BucketType
  <2>2. /\ Append(line[Bucket(c)], c) \in Seq(Connections)
        /\ Append(line[Bucket(c)], c) # <<>>
    <3>1. line[Bucket(c)] \in Seq(Connections)
      BY <1>0, <2>1
    <3> DEFINE s == line[Bucket(c)]
    <3>2. Append(s, c) \in Seq(Connections) /\ Len(Append(s, c)) = Len(s) + 1
      BY <3>1
    <3>3. Len(s) \in Nat /\ Len(<<>>) = 0
      BY <3>1
    <3>4. Append(s, c) # <<>>
      <4> HIDE DEF s
      <4> QED
        BY <3>2, <3>3
    <3> QED
      BY <3>2, <3>4
  <2>3. line' = [line EXCEPT ![Bucket(c)] = Append(line[Bucket(c)], c)]
        /\ UNCHANGED <<clock, sleepEnds, freeAt, aborted, grants>>
    BY <1>0, <1>1, <2>1 DEF WaitForIdentify
  <2>4. line' \in [Buckets -> Seq(Connections)]
        /\ \A b \in Buckets : sleepEnds[b] # Awake => line'[b] # <<>>
    BY <1>0, <2>1, <2>2, <2>3
  <2> QED
    BY <1>0, <2>3, <2>4, ThrottlerSame DEF ThrottlerSound, ThrottlerTypeOK
<1>2. ASSUME NEW c \in Connections, AbortWait(c) PROVE ThrottlerSound'
  BY <1>0, <1>2, ThrottlerSame DEF AbortWait, ThrottlerSound, ThrottlerTypeOK
<1>3. ASSUME NEW c \in Connections, Rejected(c) PROVE ThrottlerSound'
  <2>1. Bucket(c) \in Buckets
    BY BucketType
  <2>2. /\ line' \in [Buckets -> Seq(Connections)] /\ aborted' \subseteq Connections
        /\ sleepEnds' = [sleepEnds EXCEPT ![Bucket(c)] = Awake]
        /\ \A b \in Buckets : b # Bucket(c) => line'[b] = line[b]
        /\ UNCHANGED <<clock, freeAt, grants>>
    BY <1>3, DoneTypes DEF Rejected
  <2> QED
    BY <1>0, <2>1, <2>2, ThrottlerSame DEF ThrottlerSound, ThrottlerTypeOK
<1>4. ASSUME NEW c \in Connections, TakeTurn(c) PROVE ThrottlerSound'
  <2> DEFINE b == Bucket(c)
  <2>1. b \in Buckets
    BY BucketType
  <2>2. CASE /\ sleepEnds[b] = Awake /\ freeAt[b] > clock
             /\ sleepEnds' = [sleepEnds EXCEPT ![b] = freeAt[b]]
             /\ UNCHANGED <<clock, line, freeAt, aborted, grants>>
    <3>1. line[b] # <<>>
      BY <1>4 DEF TakeTurn, FirstInLine
    <3> QED
      BY <1>0, <2>1, <2>2, <3>1, ThrottlerSame DEF ThrottlerSound, ThrottlerTypeOK
  <2>3. CASE sleepEnds[b] = Awake /\ freeAt[b] <= clock /\ Grant(c)
    <3>1. freeAt[b] <= clock + Early
      BY <1>0, <2>1, <2>3, ThrottlerAssumption
    <3> QED
      BY <1>4, <2>3, <3>1, GrantSound DEF TakeTurn
  <2>4. CASE sleepEnds[b] # Awake /\ sleepEnds[b] <= clock + Early /\ Grant(c)
    <3>1. freeAt[b] <= clock + Early
      BY <1>0, <2>1, <2>4
    <3> QED
      BY <1>4, <2>4, <3>1, GrantSound DEF TakeTurn
  <2> QED
    BY <1>4, <2>2, <2>3, <2>4 DEF TakeTurn
<1>5. ASSUME ThrottlerTick PROVE ThrottlerSound'
  BY <1>0, <1>5, ThrottlerSame DEF ThrottlerTick, ThrottlerSound, ThrottlerTypeOK
<1>6. CASE UNCHANGED throttlerVars
  BY <1>0, <1>6, ThrottlerSame DEF throttlerVars, ThrottlerSound, ThrottlerTypeOK
<1> QED
  BY <1>1, <1>2, <1>3, <1>4, <1>5, <1>6 DEF ThrottlerNext

LEMMA ThrottlerStart == ThrottlerInit => ThrottlerSound
  BY DEF ThrottlerInit, ThrottlerSound, ThrottlerTypeOK, OnePerWindow, ThrottlerInv

\* One bucket lets n identify in n windows, less Early once, whatever number of
\* connections waits, aborts or is woken early (LocalIdentifyThrottler).
THEOREM ThrottlerHolds == ThrottlerSpec => []OnePerWindow
<1>1. ThrottlerSound => OnePerWindow
  BY DEF ThrottlerSound
<1> QED
  BY <1>1, ThrottlerStart, ThrottlerStep, PTL DEF ThrottlerSpec
-----------------------------------------------------------------------------
(* Finite sets.  A lemma of the library that takes an operator cannot be used;   *)
(* induction is by a least counterexample.                                       *)

\* Of finitely many things, a set of parts has a least one.
LEMMA LeastPart ==
  ASSUME NEW S, IsFiniteSet(S), NEW T \in SUBSET SUBSET S, T # {}
  PROVE  \E x \in T : \A y \in T : y \subseteq x => y = x
<1>1. \A y \in T : IsFiniteSet(y)
  BY FS_Subset
<1>2. T \subseteq FiniteSubsetsOf(S)
  BY <1>1 DEF FiniteSubsetsOf
<1>3. IsWellFoundedOn(StrictSubsetOrdering(S), FiniteSubsetsOf(S))
  BY FS_StrictSubsetOrderingWellFounded
<1>4. PICK x \in T : \A y \in T : ~(<<y, x>> \in StrictSubsetOrdering(S))
  BY <1>2, <1>3, WFMin
<1> QED
  BY <1>4 DEF StrictSubsetOrdering

\* SumFunctionOnSet, as the recursion it stands for.
First(s) == CHOOSE x \in s : TRUE
Sums(f, T, g) == g = [s \in SUBSET T |-> IF s = {} THEN 0 ELSE f[First(s)] + g[s \ {First(s)}]]

LEMMA SumDef ==
  ASSUME NEW f, NEW T
  PROVE  SumFunctionOnSet(f, T) = (CHOOSE g : Sums(f, T, g))[T]
  BY DEF SumFunctionOnSet, FoldFunctionOnSet, MapThenFoldSet, Sums, First

LEMMA SumsAgree ==
  ASSUME NEW f, NEW T, IsFiniteSet(T), NEW g, NEW h, Sums(f, T, g), Sums(f, T, h)
  PROVE  g[T] = h[T]
<1> DEFINE differ == {s \in SUBSET T : g[s] # h[s]}
<1>1. SUFFICES ASSUME differ # {} PROVE FALSE
  OBVIOUS
<1>2. PICK s \in differ : \A y \in differ : y \subseteq s => y = s
  <2>1. differ \in SUBSET SUBSET T
    OBVIOUS
  <2> HIDE DEF differ
  <2> QED
    BY <1>1, <2>1, LeastPart
<1>3. /\ g[s] = IF s = {} THEN 0 ELSE f[First(s)] + g[s \ {First(s)}]
      /\ h[s] = IF s = {} THEN 0 ELSE f[First(s)] + h[s \ {First(s)}]
  BY DEF Sums
<1>4. s # {}
  BY <1>3
<1>5. First(s) \in s
  BY <1>4 DEF First
<1>6. s \ {First(s)} \in SUBSET T /\ s \ {First(s)} \notin differ
  BY <1>2, <1>5
<1> QED
  BY <1>3, <1>4, <1>6

\* The sum of the sizes of sets that share nothing is the size of them all.
LEMMA SumIsCount ==
  ASSUME NEW T, IsFiniteSet(T), NEW D, IsFiniteSet(D), NEW K, NEW f,
         \A i \in T : K[i] \subseteq D /\ f[i] = Cardinality(K[i]),
         \A i, j \in T : i # j => K[i] \cap K[j] = {}
  PROVE  SumFunctionOnSet(f, T) = Cardinality(UNION {K[i] : i \in T})
<1> DEFINE all(s) == UNION {K[i] : i \in s}
           g == [s \in SUBSET T |-> Cardinality(all(s))]
<1>1. ASSUME NEW s \in SUBSET T, s # {}
      PROVE  Cardinality(all(s)) = f[First(s)] + Cardinality(all(s \ {First(s)}))
  <2> DEFINE x == First(s)
             A == K[x]
             B == all(s \ {x})
  <2>1. x \in s
    BY <1>1 DEF First
  <2>2. all(s) = A \cup B /\ A \cap B = {} /\ A \subseteq D /\ B \subseteq D
    BY <2>1
  <2>3. f[x] = Cardinality(A)
    BY <2>1
  <2> HIDE DEF A, B
  <2>4. IsFiniteSet(A) /\ IsFiniteSet(B)
    BY <2>2, FS_Subset
  <2>5. Cardinality(A \cup B) = Cardinality(A) + Cardinality(B) - Cardinality(A \cap B)
    BY <2>4, FS_Union
  <2>6. Cardinality(A) \in Nat /\ Cardinality(B) \in Nat /\ Cardinality(A \cap B) = 0
    BY <2>2, <2>4, FS_CardinalityType, FS_EmptySet, Zenon
  <2>7. Cardinality(all(s)) = Cardinality(A \cup B)
    BY <2>2, Zenon
  <2>8. Cardinality(A \cup B) = Cardinality(A) + Cardinality(B)
    BY <2>5, <2>6
  <2> QED
    BY <2>3, <2>7, <2>8, Zenon DEF B
<1>2. Cardinality(all({})) = 0
  <2>1. all({}) = {}
    OBVIOUS
  <2> QED
    BY <2>1, FS_EmptySet, Zenon
<1>3. Sums(f, T, g)
  <2>1. ASSUME NEW s \in SUBSET T
        PROVE  g[s] = IF s = {} THEN 0 ELSE f[First(s)] + g[s \ {First(s)}]
    <3>1. CASE s = {}
      BY <1>2, <3>1, Zenon
    <3>2. CASE s # {}
      <4>1. s \ {First(s)} \in SUBSET T
        OBVIOUS
      <4>2. g[s] = Cardinality(all(s)) /\ g[s \ {First(s)}] = Cardinality(all(s \ {First(s)}))
        BY <4>1, Zenon
      <4> QED
        BY <1>1, <3>2, <4>2, Zenon
    <3> QED
      BY <3>1, <3>2
  <2>2. g = [s \in SUBSET T |-> g[s]]
    OBVIOUS
  <2> HIDE DEF g
  <2> QED
    BY <2>1, <2>2, Zenon DEF Sums
<1> DEFINE c == CHOOSE h : Sums(f, T, h)
<1>4. SumFunctionOnSet(f, T) = c[T] /\ g[T] = Cardinality(all(T))
  BY SumDef, Zenon
<1> HIDE DEF g
<1>5. Sums(f, T, c)
  BY <1>3, Zenon
<1> HIDE DEF c
<1>6. c[T] = g[T]
  BY <1>3, <1>5, SumsAgree
<1> QED
  BY <1>4, <1>6
-----------------------------------------------------------------------------
(* InvalidRequestTracker. *)

TrackerInv == TrackerTypeOK /\ OneLap /\ Budgeted /\ SpanBounded

\* The responses of the window that ends at t, as the ring sees them.
Since(e) == {k \in DOMAIN invalid : Epoch(invalid[k]) >= e}
Counted(t) == Since(Epoch(t) - SlotCount + 1)

LEMMA TrackerConstants ==
  /\ SlotCount \in Nat /\ SlotCount >= 1 /\ SlotTicks \in Nat /\ SlotTicks >= 1
  /\ Threshold \in Nat /\ Threshold >= 1 /\ InFlight \in Nat
  /\ WindowTicks \in Nat /\ WindowTicks - SlotTicks \in Nat
<1>1. SlotCount * SlotTicks \in Nat /\ SlotCount * SlotTicks >= SlotTicks
  BY TrackerAssumption
<1> QED
  BY <1>1, TrackerAssumption DEF WindowTicks

\* An epoch is SlotTicks long.
LEMMA EpochRange ==
  ASSUME NEW t \in Nat
  PROVE  /\ Epoch(t) \in Nat /\ Epoch(t) * SlotTicks <= t
         /\ t < Epoch(t) * SlotTicks + SlotTicks
<1>1. SlotTicks \in Nat \ {0} /\ t \in Int
  BY TrackerAssumption
<1>2. t \div SlotTicks \in Nat
  BY <1>1
<1> DEFINE q == t \div SlotTicks
<1>3. SlotTicks * q <= t /\ t < SlotTicks * q + SlotTicks
  BY <1>1, DivRange
<1> HIDE DEF q
<1>4. SlotTicks * q = q * SlotTicks
  BY <1>1, <1>2 DEF q
<1> QED
  BY <1>2, <1>3, <1>4 DEF q, Epoch

LEMMA EpochIs ==
  ASSUME NEW t \in Nat, NEW e \in Nat, e * SlotTicks <= t, t < e * SlotTicks + SlotTicks
  PROVE  Epoch(t) = e
<1> DEFINE q == Epoch(t)
<1>1. q \in Nat /\ q * SlotTicks <= t /\ t < q * SlotTicks + SlotTicks
  BY EpochRange
<1> HIDE DEF q
<1>2. SlotTicks \in Nat \ {0}
  BY TrackerAssumption
<1>3. CASE q >= e + 1
  BY <1>1, <1>2, <1>3
<1>4. CASE e >= q + 1
  BY <1>1, <1>2, <1>4
<1> QED
  BY <1>1, <1>3, <1>4 DEF q

LEMMA EpochGrows ==
  ASSUME NEW s \in Nat, NEW t \in Nat, s <= t PROVE Epoch(s) <= Epoch(t)
<1>1. SlotTicks \in Nat \ {0} /\ s \in Int /\ t \in Int
  BY TrackerAssumption
<1> QED
  BY <1>1, DivGrows DEF Epoch

LEMMA Responses ==
  ASSUME TrackerTypeOK
  PROVE  /\ DOMAIN invalid = 1 .. Len(invalid) /\ Len(invalid) \in Nat
         /\ IsFiniteSet(DOMAIN invalid)
         /\ \A k \in DOMAIN invalid : invalid[k] \in Nat /\ Epoch(invalid[k]) \in Nat
<1>1. invalid \in Seq(Nat)
  BY DEF TrackerTypeOK
<1>2. DOMAIN invalid = 1 .. Len(invalid) /\ Len(invalid) \in Nat
      /\ \A k \in DOMAIN invalid : invalid[k] \in Nat
  BY <1>1
<1>3. IsFiniteSet(1 .. Len(invalid))
  BY <1>2, FS_Interval
<1> QED
  BY <1>2, <1>3, EpochRange

LEMMA RingType ==
  /\ IsFiniteSet(Ring) /\ \A e \in Nat : e % SlotCount \in Ring
<1>1. \A e \in Nat : e % SlotCount \in 0 .. SlotCount - 1
  BY TrackerAssumption
<1>2. IsFiniteSet(0 .. SlotCount - 1)
  BY TrackerConstants, FS_Interval
<1> QED
  BY <1>1, <1>2 DEF Ring

\* What the ring counts at t is the responses of its last SlotCount epochs.
LEMMA CountMeans ==
  ASSUME TrackerTypeOK, OneLap, NEW t \in Nat, t >= instant
  PROVE  CountIn(t) = Cardinality(Counted(t))
<1> DEFINE T == {i \in Ring : Recent(i, t)}
           K == [i \in Ring |-> InEpoch(epochs[i])]
<1>1. IsFiniteSet(T) /\ T \subseteq Ring
  BY RingType, FS_Subset
<1>2. IsFiniteSet(DOMAIN invalid)
  BY Responses
<1>3. \A i \in T : K[i] \subseteq DOMAIN invalid /\ counts[i] = Cardinality(K[i])
  BY DEF InEpoch, OneLap
<1>4. ASSUME NEW i \in T, NEW j \in T, i # j PROVE K[i] \cap K[j] = {}
  <2> SUFFICES ASSUME NEW k \in K[i] \cap K[j] PROVE FALSE
    OBVIOUS
  <2>1. k \in DOMAIN invalid /\ Epoch(invalid[k]) = epochs[i] /\ Epoch(invalid[k]) = epochs[j]
    BY DEF InEpoch
  <2>2. epochs[i] >= 0 /\ epochs[j] = epochs[i]
    BY <2>1, Responses
  <2>3. epochs[i] % SlotCount = i /\ epochs[j] % SlotCount = j
    BY <2>2 DEF OneLap
  <2> QED
    BY <1>4, <2>2, <2>3
<1>5. UNION {K[i] : i \in T} = Counted(t)
  <2>1. ASSUME NEW i \in T, NEW k \in K[i] PROVE k \in Counted(t)
    BY DEF InEpoch, Recent, Counted, Since
  <2>2. ASSUME NEW k \in Counted(t) PROVE \E i \in T : k \in K[i]
    <3> DEFINE e == Epoch(invalid[k])
               i == e % SlotCount
    <3>1. k \in DOMAIN invalid /\ e \in Nat /\ e >= Epoch(t) - SlotCount + 1
      BY Responses DEF Counted, Since
    <3>2. i \in Ring /\ epochs[i] >= e /\ epochs[i] \in Int
      BY <3>1, RingType DEF OneLap, TrackerTypeOK
    <3>3. instant \in Nat /\ Epoch(instant) \in Nat /\ Epoch(t) \in Nat
          /\ Epoch(instant) <= Epoch(t)
      BY EpochRange, EpochGrows DEF TrackerTypeOK
    <3>4. epochs[i] <= Epoch(t) /\ epochs[i] % SlotCount = i
      BY <3>1, <3>2, <3>3 DEF OneLap
    <3>5. epochs[i] = e
      <4> SUFFICES ASSUME e < epochs[i] PROVE FALSE
        BY <3>1, <3>2
      <4>1. epochs[i] >= e + SlotCount
        BY <3>1, <3>2, <3>4, TrackerAssumption, ModApart
      <4> QED
        BY <3>1, <3>2, <3>3, <3>4, <4>1, TrackerConstants
    <3>6. i \in T
      BY <3>1, <3>2, <3>4, <3>5 DEF Recent
    <3>7. k \in K[i]
      BY <3>1, <3>2, <3>5 DEF InEpoch
    <3> QED
      BY <3>6, <3>7
  <2> QED
    BY <2>1, <2>2 DEF Counted, Since
<1> HIDE DEF T, K
<1>6. SumFunctionOnSet(counts, T) = Cardinality(UNION {K[i] : i \in T})
  BY <1>1, <1>2, <1>3, <1>4, SumIsCount
<1> QED
  BY <1>5, <1>6, Zenon DEF CountIn, T

LEMMA WindowType ==
  ASSUME TrackerTypeOK, NEW S \in SUBSET DOMAIN invalid
  PROVE  IsFiniteSet(S) /\ Cardinality(S) \in Nat
<1>1. IsFiniteSet(S)
  BY Responses, FS_Subset
<1> QED
  BY <1>1, FS_CardinalityType

LEMMA Smaller ==
  ASSUME TrackerTypeOK, NEW B \in SUBSET DOMAIN invalid, NEW A \in SUBSET B
  PROVE  Cardinality(A) <= Cardinality(B)
<1>1. IsFiniteSet(B)
  BY WindowType
<1> QED
  BY <1>1, FS_Subset

LEMMA Products ==
  ASSUME NEW a \in Int, NEW b \in Int
  PROVE  /\ a * SlotTicks \in Int
         /\ a >= b => a * SlotTicks >= b * SlotTicks
         /\ (a + 1) * SlotTicks = a * SlotTicks + SlotTicks
         /\ (a + SlotCount) * SlotTicks = a * SlotTicks + WindowTicks
         /\ (a - SlotCount) * SlotTicks = a * SlotTicks - WindowTicks
<1>1. SlotTicks \in Nat /\ SlotCount \in Nat
  BY TrackerAssumption
<1>2. a >= b => a * SlotTicks >= b * SlotTicks
  BY <1>1
<1>3. (a + 1) * SlotTicks = a * SlotTicks + SlotTicks
  BY <1>1
<1>4. (a + SlotCount) * SlotTicks = a * SlotTicks + SlotCount * SlotTicks
  BY <1>1
<1>5. (a - SlotCount) * SlotTicks = a * SlotTicks - SlotCount * SlotTicks
  BY <1>1
<1> QED
  BY <1>1, <1>2, <1>3, <1>4, <1>5 DEF WindowTicks

\* The last SlotCount epochs are of the window, and hold the window less one slot.
LEMMA OneSlot ==
  ASSUME TrackerTypeOK, OneLap
  PROVE  WithinOneSlot
<1> DEFINE seen(span) == {k \in DOMAIN invalid : invalid[k] > instant - span /\ invalid[k] <= instant}
           E == Epoch(instant)
           first == (E - SlotCount) * SlotTicks + SlotTicks
<1>1. instant \in Nat
  BY DEF TrackerTypeOK
<1>2. E \in Nat /\ E * SlotTicks <= instant /\ instant < E * SlotTicks + SlotTicks
  BY <1>1, EpochRange
<1>3. /\ first = E * SlotTicks - WindowTicks + SlotTicks
      /\ (E - SlotCount + 1) * SlotTicks = first
      /\ E * SlotTicks \in Int /\ first \in Int
  BY <1>2, Products, TrackerConstants
<1>4. ASSUME NEW k \in DOMAIN invalid
      PROVE  /\ k \in Counted(instant) => k \in seen(WindowTicks)
             /\ k \in seen(WindowTicks - SlotTicks) => k \in Counted(instant)
  <2> DEFINE x == invalid[k]
             e == Epoch(x)
             p == e * SlotTicks
  <2>1. x \in Nat /\ e \in Nat /\ x <= instant
    BY Responses DEF OneLap
  <2>2. p <= x /\ x < p + SlotTicks /\ p \in Int
    BY <2>1, EpochRange, Products
  <2>3. e >= E - SlotCount + 1 => p >= first
    <3>1. E - SlotCount + 1 \in Int
      BY <1>2, TrackerConstants
    <3> QED
      BY <1>3, <2>1, <3>1, Products
  <2>4. e + 1 <= E - SlotCount + 1 => p + SlotTicks <= first
    <3>1. E - SlotCount + 1 \in Int /\ e + 1 \in Int
      BY <1>2, <2>1, TrackerConstants
    <3>2. e + 1 <= E - SlotCount + 1 => (e + 1) * SlotTicks <= first
      BY <1>3, <3>1, Products
    <3>3. (e + 1) * SlotTicks = p + SlotTicks
      BY <2>1, Products
    <3> QED
      BY <3>2, <3>3
  <2>5. k \in Counted(instant) <=> e >= E - SlotCount + 1
    BY DEF Counted, Since
  <2> DEFINE a == E * SlotTicks
  <2>6. a \in Int /\ a <= instant /\ instant < a + SlotTicks
        /\ first = a - WindowTicks + SlotTicks /\ first \in Int
    BY <1>2, <1>3
  <2> HIDE DEF x, e, p, E, first, a
  <2>7. /\ e >= E - SlotCount + 1 => x > instant - WindowTicks
        /\ x > instant - (WindowTicks - SlotTicks) => e >= E - SlotCount + 1
    BY <1>1, <1>2, <2>1, <2>2, <2>3, <2>4, <2>6, TrackerConstants
  <2> QED
    BY <2>1, <2>5, <2>7 DEF x
<1>5. /\ Counted(instant) \subseteq seen(WindowTicks)
      /\ seen(WindowTicks - SlotTicks) \subseteq Counted(instant)
  BY <1>4 DEF Counted, Since
<1>6. Counted(instant) \subseteq DOMAIN invalid /\ seen(WindowTicks) \subseteq DOMAIN invalid
  BY DEF Counted, Since
<1>7. CountIn(instant) = Cardinality(Counted(instant))
  BY <1>1, CountMeans
<1>8. /\ Cardinality(Counted(instant)) <= Cardinality(seen(WindowTicks))
      /\ Cardinality(seen(WindowTicks - SlotTicks)) <= Cardinality(Counted(instant))
  BY <1>5, <1>6, Smaller
<1>9. /\ Seen(instant, WindowTicks) = Cardinality(seen(WindowTicks))
      /\ Seen(instant, WindowTicks - SlotTicks) = Cardinality(seen(WindowTicks - SlotTicks))
  BY Zenon DEF Seen
<1> HIDE DEF seen, E, first
<1>10. /\ CountIn(instant) <= Seen(instant, WindowTicks)
       /\ Seen(instant, WindowTicks - SlotTicks) <= CountIn(instant)
  BY <1>7, <1>8, <1>9
<1>11. CountIn(instant) \in Nat /\ Seen(instant, WindowTicks - SlotTicks) \in Nat
  BY <1>5, <1>6, <1>7, <1>9, WindowType
<1> QED
  BY <1>10, <1>11 DEF WithinOneSlot

\* The window that decays next: its oldest epoch is gone once SlotCount more began.
LEMMA Decay ==
  ASSUME TrackerTypeOK, OneLap
  PROVE  DecaysThen
<1> SUFFICES ASSUME CountIn(instant) > 0
             PROVE  /\ DecaysAt(instant) > instant
                    /\ CountIn(DecaysAt(instant)) < CountIn(instant)
                    /\ CountIn(DecaysAt(instant) - 1) = CountIn(instant)
  BY DEF DecaysThen
<1> DEFINE E == Epoch(instant)
           lived == {Epoch(invalid[k]) : k \in Counted(instant)}
           present == {epochs[i] : i \in {n \in Ring : Recent(n, instant) /\ counts[n] > 0}}
<1>1. /\ instant \in Nat /\ E \in Nat /\ E * SlotTicks <= instant
      /\ instant < E * SlotTicks + SlotTicks
  BY EpochRange DEF TrackerTypeOK
<1>2. CountIn(instant) = Cardinality(Counted(instant))
  BY <1>1, CountMeans
<1>3. Counted(instant) \subseteq DOMAIN invalid
  BY DEF Counted, Since
<1>4. Counted(instant) # {}
  BY <1>2, FS_EmptySet
<1>5. ASSUME NEW k \in Counted(instant)
      PROVE  Epoch(invalid[k]) \in present /\ Epoch(invalid[k]) \in 0 .. E
             /\ Epoch(invalid[k]) >= E - SlotCount + 1
  <2> DEFINE e == Epoch(invalid[k])
             i == e % SlotCount
  <2>1. k \in DOMAIN invalid /\ e \in Nat /\ e >= E - SlotCount + 1 /\ invalid[k] <= instant
        /\ invalid[k] \in Nat
    BY Responses DEF Counted, Since, OneLap
  <2>2. e <= E
    BY <1>1, <2>1, EpochGrows
  <2>3. i \in Ring /\ epochs[i] >= e /\ epochs[i] \in Int
    BY <2>1, RingType DEF OneLap, TrackerTypeOK
  <2>4. epochs[i] <= E /\ epochs[i] % SlotCount = i
    BY <2>1, <2>3 DEF OneLap
  <2>5. epochs[i] = e
    <3> SUFFICES ASSUME e < epochs[i] PROVE FALSE
      BY <2>1, <2>3
    <3>1. epochs[i] >= e + SlotCount
      BY <2>1, <2>3, <2>4, TrackerAssumption, ModApart
    <3> QED
      BY <1>1, <2>1, <2>3, <2>4, <3>1, TrackerConstants
  <2>6. counts[i] > 0
    <3>1. k \in InEpoch(epochs[i])
      BY <2>1, <2>5 DEF InEpoch
    <3>2. counts[i] = Cardinality(InEpoch(epochs[i]))
      BY <2>3 DEF OneLap
    <3>3. InEpoch(epochs[i]) \subseteq DOMAIN invalid
      BY DEF InEpoch
    <3> DEFINE S == InEpoch(epochs[i])
    <3> HIDE DEF S
    <3>4. IsFiniteSet(S) /\ Cardinality(S) \in Nat /\ S # {}
      BY <3>1, <3>3, WindowType DEF S
    <3>5. Cardinality(S) > 0
      BY <3>4, FS_EmptySet
    <3> QED
      BY <3>2, <3>5 DEF S
  <2>7. Recent(i, instant)
    BY <2>1, <2>4, <2>5 DEF Recent
  <2> QED
    BY <1>1, <2>1, <2>2, <2>3, <2>5, <2>6, <2>7
<1>6. ASSUME NEW e \in present
      PROVE  e \in Nat /\ \E k \in Counted(instant) : Epoch(invalid[k]) = e
  <2>1. PICK i \in Ring : Recent(i, instant) /\ counts[i] > 0 /\ epochs[i] = e
    OBVIOUS
  <2>2. counts[i] = Cardinality(InEpoch(e))
    BY <2>1 DEF OneLap
  <2>3. InEpoch(e) # {}
    <3>1. Cardinality(InEpoch(e)) > 0
      BY <2>1, <2>2
    <3> QED
      BY <3>1, FS_EmptySet
  <2>4. PICK k \in InEpoch(e) : TRUE
    BY <2>3
  <2> QED
    BY <2>1, <2>4, Responses DEF InEpoch, Recent, Counted, Since
<1>7. present # {} /\ IsFiniteSet(0 .. E)
  <2>1. present # {}
    <3> HIDE DEF present
    <3> QED
      BY <1>4, <1>5
  <2>2. E \in Int /\ 0 \in Int
    BY <1>1
  <2> HIDE DEF E
  <2>3. IsFiniteSet(0 .. E)
    BY <2>2, FS_Interval
  <2> QED
    BY <2>1, <2>3
<1> HIDE DEF present
<1>8. \A e \in present : e \in 0 .. E
  BY <1>5, <1>6
<1> DEFINE m == Min(present)
<1>9. m \in present /\ \A e \in present : m <= e
  <2> DEFINE upto == {0 .. e : e \in present}
  <2>1. upto \in SUBSET SUBSET (0 .. E) /\ upto # {}
    BY <1>1, <1>7, <1>8
  <2>2. PICK x \in upto : \A y \in upto : y \subseteq x => y = x
    <3> DEFINE U == 0 .. E
    <3>1. upto \in SUBSET SUBSET U /\ upto # {} /\ IsFiniteSet(U)
      BY <1>7, <2>1
    <3> HIDE DEF upto, U
    <3> QED
      BY <3>1, LeastPart
  <2>3. PICK e \in present : x = 0 .. e
    OBVIOUS
  <2>4. ASSUME NEW d \in present PROVE e <= d
    <3> SUFFICES ASSUME d < e PROVE FALSE
      BY <1>8
    <3>1. d \in Nat /\ e \in Nat /\ 0 .. d \in upto
      BY <1>8
    <3>2. 0 .. d \subseteq 0 .. e
      BY <3>1
    <3>3. 0 .. d = 0 .. e
      BY <2>2, <2>3, <3>1, <3>2
    <3> QED
      BY <3>1, <3>3
  <2> QED
    BY <2>4 DEF Min
<1> HIDE DEF m
<1> DEFINE D == (m + SlotCount) * SlotTicks
<1>10. /\ m \in Nat /\ m <= E /\ m >= E - SlotCount + 1
       /\ \A k \in Counted(instant) : Epoch(invalid[k]) >= m
       /\ \E k \in Counted(instant) : Epoch(invalid[k]) = m
  BY <1>5, <1>6, <1>8, <1>9
<1>11. DecaysAt(instant) = D
  BY <1>7, Zenon DEF DecaysAt, present, m
<1>12. /\ m + SlotCount \in Nat /\ m + SlotCount - 1 \in Nat /\ m + SlotCount - 1 >= E
       /\ m + SlotCount >= E + 1
  BY <1>1, <1>10, TrackerConstants
<1>13. D \in Int /\ D >= E * SlotTicks + SlotTicks
       /\ D = (m + SlotCount - 1) * SlotTicks + SlotTicks
  <2> DEFINE q == m + SlotCount - 1
  <2>1. q \in Int /\ E \in Int /\ q >= E /\ q + 1 = m + SlotCount
    BY <1>1, <1>10, <1>12, TrackerConstants
  <2> HIDE DEF q, E
  <2>2. (q + 1) * SlotTicks = q * SlotTicks + SlotTicks /\ q * SlotTicks >= E * SlotTicks
        /\ q * SlotTicks \in Int /\ E * SlotTicks \in Int
    BY <2>1, Products
  <2>3. D = q * SlotTicks + SlotTicks
    BY <2>1, <2>2
  <2>4. D >= E * SlotTicks + SlotTicks
    BY <2>2, <2>3, TrackerConstants
  <2> QED
    BY <2>2, <2>3, <2>4, TrackerConstants DEF q
<1>14. D > instant /\ D \in Nat /\ D - 1 \in Nat
  <2> DEFINE a == E * SlotTicks
  <2>1. a \in Int
    BY <1>1, Products
  <2> HIDE DEF D, E, a
  <2>2. D >= a + SlotTicks /\ instant < a + SlotTicks
    BY <1>1, <1>13 DEF a
  <2> QED
    BY <1>1, <1>13, <2>1, <2>2, TrackerConstants
<1>15. Epoch(D) = m + SlotCount /\ Epoch(D - 1) = m + SlotCount - 1
  <2>1. Epoch(D) = m + SlotCount
    BY <1>12, <1>14, EpochIs, TrackerConstants
  <2> DEFINE q == m + SlotCount - 1
             a == q * SlotTicks
  <2>2. q \in Nat /\ a \in Int /\ D = a + SlotTicks
    BY <1>12, <1>13, Products
  <2> HIDE DEF q, a, D
  <2>3. a <= D - 1 /\ D - 1 < a + SlotTicks
    BY <2>2, TrackerConstants
  <2>4. Epoch(D - 1) = q
    BY <1>14, <2>2, <2>3, EpochIs DEF a
  <2> QED
    BY <2>1, <2>4 DEF q
<1>16. /\ CountIn(D) = Cardinality(Counted(D))
       /\ CountIn(D - 1) = Cardinality(Counted(D - 1))
  <2> HIDE DEF D
  <2>1. D >= instant /\ D - 1 >= instant
    BY <1>1, <1>14
  <2> QED
    BY <1>14, <2>1, CountMeans
<1>17. Counted(D - 1) = Counted(instant)
  <2>1. Epoch(D - 1) - SlotCount + 1 = m
    BY ONLY <1>10, <1>15, TrackerConstants
  <2>2. Counted(D - 1) = Since(m)
    BY <2>1, Zenon DEF Counted
  <2>3. ASSUME NEW k \in DOMAIN invalid
        PROVE  Epoch(invalid[k]) >= m <=> k \in Counted(instant)
    <3> DEFINE e == Epoch(invalid[k])
    <3>1. e \in Nat
      BY Responses
    <3>2. k \in Counted(instant) <=> e >= E - SlotCount + 1
      BY DEF Counted, Since
    <3>3. k \in Counted(instant) => e >= m
      BY <1>10
    <3> HIDE DEF e, E
    <3> QED
      BY <1>1, <1>10, <3>1, <3>2, <3>3, TrackerConstants DEF e
  <2>4. Since(m) = Counted(instant)
    BY <1>3, <2>3 DEF Since
  <2> QED
    BY <2>2, <2>4, Zenon
<1>18. Counted(D) \subseteq Counted(instant) /\ Counted(D) # Counted(instant)
  <2>1. Epoch(D) - SlotCount + 1 = m + 1
    BY ONLY <1>10, <1>15, TrackerConstants
  <2>2. Counted(D) = Since(m + 1)
    BY <2>1, Zenon DEF Counted
  <2>3. PICK k \in Counted(instant) : Epoch(invalid[k]) = m
    BY <1>10
  <2>4. k \notin Since(m + 1)
    BY <1>10, <2>3 DEF Since
  <2>5. ASSUME NEW l \in Since(m + 1) PROVE l \in Counted(instant)
    <3> DEFINE e == Epoch(invalid[l])
    <3>1. l \in DOMAIN invalid /\ e \in Nat /\ e >= m + 1
      BY Responses DEF Since
    <3> HIDE DEF E
    <3>2. e >= E - SlotCount + 1
      BY <1>1, <1>10, <3>1, TrackerConstants
    <3> QED
      BY <3>1, <3>2 DEF Counted, Since, E
  <2> QED
    BY <2>2, <2>3, <2>4, <2>5
<1>19. Cardinality(Counted(D)) < Cardinality(Counted(instant))
  <2> DEFINE A == Counted(D)
             B == Counted(instant)
  <2>1. A \subseteq B /\ A # B /\ IsFiniteSet(B)
    BY <1>3, <1>18, WindowType
  <2> HIDE DEF A, B
  <2>2. IsFiniteSet(A) /\ Cardinality(A) <= Cardinality(B) /\ Cardinality(A) # Cardinality(B)
    BY <2>1, FS_Subset
  <2>3. Cardinality(A) \in Nat /\ Cardinality(B) \in Nat
    BY <2>1, <2>2, FS_CardinalityType
  <2>4. Cardinality(A) < Cardinality(B)
    BY <2>2, <2>3
  <2> QED
    BY <2>4 DEF A, B
<1>20. /\ CountIn(D) < CountIn(instant) /\ CountIn(D - 1) = CountIn(instant)
  BY <1>2, <1>16, <1>17, <1>19, Zenon
<1> QED
  BY <1>11, <1>14, <1>20

LEMMA SeenType ==
  ASSUME TrackerTypeOK, NEW t, NEW span
  PROVE  Seen(t, span) \in Nat
<1> DEFINE S == {k \in DOMAIN invalid : invalid[k] > t - span /\ invalid[k] <= t}
<1>1. S \in SUBSET DOMAIN invalid
  OBVIOUS
<1> HIDE DEF S
<1>2. Cardinality(S) \in Nat
  BY <1>1, WindowType
<1> QED
  BY <1>2, Zenon DEF S, Seen

LEMMA TrackerStart == TrackerInit => TrackerInv
<1> SUFFICES ASSUME TrackerInit PROVE TrackerInv
  OBVIOUS
<1>1. TrackerTypeOK
  BY TrackerConstants DEF TrackerInit, TrackerTypeOK
<1>2. DOMAIN invalid = {}
  BY DEF TrackerInit
<1>3. OneLap
  <2>1. \A e : InEpoch(e) = {}
    BY <1>2 DEF InEpoch
  <2>2. \A i \in Ring : counts[i] = Cardinality(InEpoch(epochs[i]))
    BY <2>1, FS_EmptySet, Zenon DEF TrackerInit
  <2>3. \A i \in Ring : ~(epochs[i] >= 0)
    BY DEF TrackerInit
  <2> QED
    BY <1>2, <2>2, <2>3 DEF OneLap
<1>4. Budgeted
  <2>1. Seen(instant, WindowTicks - SlotTicks) = 0
    <3> DEFINE S == {k \in DOMAIN invalid :
                       invalid[k] > instant - (WindowTicks - SlotTicks) /\ invalid[k] <= instant}
    <3>1. S = {}
      BY <1>2
    <3> QED
      BY <3>1, FS_EmptySet, Zenon DEF Seen
  <2> QED
    BY <2>1, TrackerConstants DEF Budgeted, TrackerInit
<1>5. SpanBounded
  BY <1>2 DEF SpanBounded
<1> QED
  BY <1>1, <1>3, <1>4, <1>5 DEF TrackerInv

\* Steps in which no response is invalid.
LEMMA NoneInvalid ==
  ASSUME TrackerInv, UNCHANGED <<counts, epochs, invalid>>, TrackerTypeOK',
         instant' >= instant, Budgeted'
  PROVE  TrackerInv'
<1>1. instant \in Nat /\ instant' \in Nat
  BY DEF TrackerInv, TrackerTypeOK
<1>2. Epoch(instant) \in Nat /\ Epoch(instant') \in Nat /\ Epoch(instant) <= Epoch(instant')
  BY <1>1, EpochRange, EpochGrows
<1>3. OneLap'
  <2>1. \A i \in Ring : counts'[i] = Cardinality(InEpoch(epochs[i]))'
    BY Zenon DEF TrackerInv, OneLap, InEpoch
  <2>2. ASSUME NEW i \in Ring, epochs'[i] >= 0
        PROVE  epochs'[i] <= Epoch(instant') /\ epochs'[i] % SlotCount = i
    <3>1. epochs[i] >= 0 /\ epochs[i] \in Int
      BY <2>2 DEF TrackerInv, TrackerTypeOK
    <3>2. epochs[i] <= Epoch(instant) /\ epochs[i] % SlotCount = i
      BY <3>1 DEF TrackerInv, OneLap
    <3> QED
      BY <1>2, <3>1, <3>2
  <2>3. ASSUME NEW k \in DOMAIN invalid'
        PROVE  invalid'[k] <= instant'
               /\ epochs'[Epoch(invalid'[k]) % SlotCount] >= Epoch(invalid'[k])
    <3>1. k \in DOMAIN invalid /\ invalid[k] <= instant
          /\ epochs[Epoch(invalid[k]) % SlotCount] >= Epoch(invalid[k])
      BY DEF TrackerInv, OneLap
    <3>2. invalid[k] \in Nat
      BY <3>1, Responses DEF TrackerInv
    <3> QED
      BY <1>1, <3>1, <3>2
  <2> QED
    BY <2>1, <2>2, <2>3 DEF OneLap
<1>4. SpanBounded'
  BY DEF TrackerInv, SpanBounded, Seen
<1> QED
  BY <1>3, <1>4 DEF TrackerInv

\* Time passes: less is seen.
LEMMA SeenLater ==
  ASSUME TrackerTypeOK, \A k \in DOMAIN invalid : invalid[k] <= instant,
         NEW span \in Nat
  PROVE  Seen(instant + 1, span) <= Seen(instant, span)
<1> DEFINE seen(t) == {k \in DOMAIN invalid : invalid[k] > t - span /\ invalid[k] <= t}
<1>1. ASSUME NEW k \in seen(instant + 1) PROVE k \in seen(instant)
  <2>1. invalid[k] \in Nat /\ invalid[k] <= instant /\ instant \in Nat
    BY Responses DEF TrackerTypeOK
  <2> QED
    BY <2>1
<1>2. seen(instant + 1) \subseteq seen(instant) /\ seen(instant) \subseteq DOMAIN invalid
  BY <1>1
<1>3. Seen(instant + 1, span) = Cardinality(seen(instant + 1))
      /\ Seen(instant, span) = Cardinality(seen(instant))
  BY Zenon DEF Seen
<1> HIDE DEF seen
<1> QED
  BY <1>2, <1>3, Smaller

\* One more invalid response.
LEMMA RegisterStep ==
  ASSUME TrackerInv, Register PROVE TrackerInv'
<1> DEFINE E == Epoch(instant)
           s == E % SlotCount
           n == Len(invalid)
           after(e) == {k \in DOMAIN invalid' : Epoch(invalid'[k]) = e}
<1>1. /\ TrackerTypeOK /\ OneLap /\ Budgeted /\ SpanBounded
      /\ instant \in Nat /\ instant' = instant /\ inflight > 0 /\ inflight' = inflight - 1
      /\ epochs' = [epochs EXCEPT ![s] = E] /\ invalid' = Append(invalid, instant)
      /\ counts' = [counts EXCEPT ![s] = Lap(s) + 1]
      /\ inflight \in 0 .. InFlight
      /\ counts \in [Ring -> Nat] /\ epochs \in [Ring -> Nat \cup {-1}] /\ invalid \in Seq(Nat)
  BY DEF TrackerInv, TrackerTypeOK, Register
<1>2. E \in Nat /\ s \in Ring
  BY <1>1, EpochRange, RingType
<1>3. /\ DOMAIN invalid = 1 .. n /\ n \in Nat /\ DOMAIN invalid' = 1 .. n + 1
      /\ invalid'[n + 1] = instant
      /\ \A k \in 1 .. n : invalid'[k] = invalid[k] /\ invalid[k] \in Nat
                           /\ Epoch(invalid[k]) \in Nat
      /\ n + 1 \notin DOMAIN invalid /\ DOMAIN invalid' = DOMAIN invalid \cup {n + 1}
  <2>1. /\ DOMAIN invalid = 1 .. n /\ n \in Nat
        /\ \A k \in 1 .. n : invalid[k] \in Nat /\ Epoch(invalid[k]) \in Nat
    BY <1>1, Responses
  <2>2. /\ DOMAIN invalid' = 1 .. n + 1 /\ invalid'[n + 1] = instant
        /\ \A k \in 1 .. n : invalid'[k] = invalid[k]
    BY <1>1
  <2>3. n + 1 \notin 1 .. n /\ 1 .. n + 1 = 1 .. n \cup {n + 1}
    BY <2>1
  <2> QED
    BY <2>1, <2>2, <2>3
<1>4. epochs'[s] = E /\ counts'[s] = Lap(s) + 1
      /\ \A i \in Ring \ {s} : epochs'[i] = epochs[i] /\ counts'[i] = counts[i]
  BY <1>1, <1>2
<1>5. Lap(s) \in Nat
  BY <1>1, <1>2 DEF Lap
<1>6. TrackerTypeOK'
  <2>1. inflight' \in 0 .. InFlight
    BY <1>1, TrackerConstants
  <2>2. counts' \in [Ring -> Nat] /\ epochs' \in [Ring -> Nat \cup {-1}]
    BY <1>1, <1>2, <1>5
  <2>3. invalid' \in Seq(Nat)
    BY <1>1
  <2> QED
    BY <1>1, <2>1, <2>2, <2>3 DEF TrackerTypeOK
<1>7. after(E) = InEpoch(E) \cup {n + 1} /\ \A e : e # E => after(e) = InEpoch(e)
  BY <1>1, <1>3 DEF InEpoch
<1>8. Cardinality(InEpoch(E)) = Lap(s)
  <2>1. CASE epochs[s] = E
    BY <1>1, <1>2, <2>1 DEF Lap, OneLap
  <2>2. CASE epochs[s] # E
    <3>1. InEpoch(E) = {}
      <4> SUFFICES ASSUME NEW k \in InEpoch(E) PROVE FALSE
        OBVIOUS
      <4>1. k \in DOMAIN invalid /\ Epoch(invalid[k]) = E
        BY DEF InEpoch
      <4>2. epochs[s] >= E
        BY <1>1, <4>1 DEF OneLap
      <4>3. epochs[s] \in Int
        BY <1>1, <1>2
      <4>4. epochs[s] <= E
        BY <1>1, <1>2, <4>2, <4>3 DEF OneLap
      <4> QED
        BY <1>2, <2>2, <4>2, <4>3, <4>4
    <3> QED
      BY <2>2, <3>1, FS_EmptySet, Zenon DEF Lap
  <2> QED
    BY <2>1, <2>2
<1>9. OneLap'
  <2>1. ASSUME NEW i \in Ring PROVE counts'[i] = Cardinality(after(epochs'[i]))
    <3>1. CASE i = s
      <4> DEFINE S == InEpoch(E)
      <4>1. S \subseteq DOMAIN invalid /\ n + 1 \notin S
        BY <1>3 DEF InEpoch
      <4>2. Cardinality(S \cup {n + 1}) = Cardinality(S) + 1
        <5> HIDE DEF S
        <5>1. IsFiniteSet(S)
          BY <1>1, <4>1, WindowType
        <5> QED
          BY <4>1, <5>1, FS_AddElement
      <4>3. after(epochs'[s]) = S \cup {n + 1}
        BY <1>4, <1>7, Zenon
      <4> QED
        BY <1>4, <1>8, <3>1, <4>2, <4>3, Zenon
    <3>2. CASE i # s
      <4>1. epochs'[i] = epochs[i] /\ counts'[i] = counts[i]
        BY <1>4, <3>2
      <4>2. epochs[i] # E
        BY <1>1, <1>2, <3>2 DEF OneLap
      <4>3. after(epochs'[i]) = InEpoch(epochs[i])
        BY <1>7, <4>1, <4>2, Zenon
      <4>4. counts[i] = Cardinality(InEpoch(epochs[i]))
        BY <1>1 DEF OneLap
      <4> QED
        BY <4>1, <4>3, <4>4, Zenon
    <3> QED
      BY <3>1, <3>2
  <2>2. ASSUME NEW i \in Ring, epochs'[i] >= 0
        PROVE  epochs'[i] <= Epoch(instant') /\ epochs'[i] % SlotCount = i
    <3>1. CASE i = s
      BY <1>1, <1>2, <1>4, <3>1
    <3>2. CASE i # s
      BY <1>1, <1>4, <2>2, <3>2 DEF OneLap
    <3> QED
      BY <3>1, <3>2
  <2>3. ASSUME NEW k \in DOMAIN invalid'
        PROVE  invalid'[k] <= instant'
               /\ epochs'[Epoch(invalid'[k]) % SlotCount] >= Epoch(invalid'[k])
    <3>1. CASE k = n + 1
      BY <1>1, <1>2, <1>3, <1>4, <3>1
    <3>2. CASE k \in 1 .. n
      <4> DEFINE e == Epoch(invalid[k])
      <4>1. invalid'[k] = invalid[k] /\ invalid[k] \in Nat /\ e \in Nat
            /\ invalid[k] <= instant /\ epochs[e % SlotCount] >= e
        BY <1>1, <1>3, <3>2 DEF OneLap
      <4>2. e % SlotCount \in Ring /\ e <= E
        BY <1>1, <4>1, RingType, EpochGrows
      <4>3. epochs'[e % SlotCount] >= e
        <5>1. CASE e % SlotCount = s
          BY <1>2, <1>4, <4>1, <4>2, <5>1
        <5>2. CASE e % SlotCount # s
          BY <1>4, <4>1, <4>2, <5>2
        <5> QED
          BY <5>1, <5>2
      <4> QED
        BY <1>1, <4>1, <4>3
    <3> QED
      BY <1>3, <3>1, <3>2
  <2>4. \A i \in Ring : (counts[i] = Cardinality(InEpoch(epochs[i])))'
    BY <2>1, Zenon DEF InEpoch
  <2> QED
    BY <2>2, <2>3, <2>4, Zenon DEF OneLap
<1> DEFINE span == WindowTicks - SlotTicks
           seen(t) == {k \in DOMAIN invalid : invalid[k] > t - span /\ invalid[k] <= t}
<1>10. ASSUME NEW t \in Nat
       PROVE  /\ Seen(t, span)' = IF instant > t - span /\ instant <= t
                                  THEN Cardinality(seen(t) \cup {n + 1})
                                  ELSE Cardinality(seen(t))
              /\ Seen(t, span) = Cardinality(seen(t))
              /\ Cardinality(seen(t) \cup {n + 1}) = Cardinality(seen(t)) + 1
              /\ Cardinality(seen(t)) \in Nat
  <2> DEFINE S == seen(t)
             R == {k \in DOMAIN invalid' : invalid'[k] > t - span /\ invalid'[k] <= t}
  <2>1. R = IF instant > t - span /\ instant <= t THEN S \cup {n + 1} ELSE S
    BY <1>3
  <2>2. Seen(t, span) = Cardinality(S) /\ Seen(t, span)' = Cardinality(R)
    BY Zenon DEF Seen
  <2>3. S \subseteq DOMAIN invalid /\ n + 1 \notin S
    BY <1>3
  <2> HIDE DEF S, R
  <2>4. Cardinality(S \cup {n + 1}) = Cardinality(S) + 1 /\ Cardinality(S) \in Nat
    <3>1. IsFiniteSet(S) /\ Cardinality(S) \in Nat
      BY <1>1, <2>3, WindowType
    <3> QED
      BY <2>3, <3>1, FS_AddElement
  <2> QED
    BY <2>1, <2>2, <2>4, Zenon DEF S
<1>11. Seen(instant, span)' <= Seen(instant, span) + 1
       /\ Seen(instant, span)' \in Nat /\ Seen(instant, span) \in Nat
  <2> HIDE DEF span, seen
  <2>1. /\ \/ Seen(instant, span)' = Cardinality(seen(instant)) + 1
           \/ Seen(instant, span)' = Cardinality(seen(instant))
        /\ Seen(instant, span) = Cardinality(seen(instant))
        /\ Cardinality(seen(instant)) \in Nat
    BY <1>1, <1>10
  <2> QED
    BY <2>1
<1>12. Budgeted'
  <2>1. Seen(instant, span) + inflight < Threshold + InFlight
    BY <1>1, Zenon DEF Budgeted
  <2> DEFINE a == Seen(instant, span)
             b == Seen(instant, span)'
  <2>2. b <= a + 1 /\ a \in Nat /\ b \in Nat /\ a + inflight < Threshold + InFlight
    BY <1>11, <2>1
  <2> HIDE DEF a, b
  <2>3. b + inflight' < Threshold + InFlight
    BY <1>1, <2>2, TrackerConstants
  <2> QED
    BY <1>1, <2>3, Zenon DEF Budgeted, b
<1>13. SpanBounded'
  <2>0. Seen(instant, span)' < Threshold + InFlight
    <3> DEFINE b == Seen(instant, span)'
    <3>1. b + inflight' < Threshold + InFlight
      BY <1>12, Zenon DEF Budgeted
    <3>2. b \in Nat /\ inflight' \in Nat
      BY <1>6, <1>11 DEF TrackerTypeOK
    <3> HIDE DEF b
    <3> QED
      BY <3>1, <3>2, TrackerConstants DEF b
  <2>1. ASSUME NEW k \in DOMAIN invalid'
        PROVE  (Seen(invalid[k], span) < Threshold + InFlight)'
    <3>1. CASE invalid'[k] = instant
      <4> QED
        BY <1>1, <2>0, <3>1, Zenon
    <3>2. CASE invalid'[k] # instant
      <4> DEFINE t == invalid[k]
      <4>1. k \in DOMAIN invalid /\ invalid'[k] = t /\ t \in Nat /\ t < instant
        BY <1>1, <1>3, <3>2 DEF OneLap
      <4>2. Seen(t, span) < Threshold + InFlight
        BY <1>1, <4>1, Zenon DEF SpanBounded
      <4> HIDE DEF t, span, seen
      <4>3. ~(instant <= t)
        BY <1>1, <4>1
      <4>4. {l \in DOMAIN invalid' : invalid'[l] > t - span /\ invalid'[l] <= t}
              = {l \in DOMAIN invalid : invalid[l] > t - span /\ invalid[l] <= t}
        BY <1>3, <4>3
      <4>5. Seen(invalid[k], span)' = Seen(t, span)
        BY <4>1, <4>4, Zenon DEF Seen
      <4> QED
        BY <4>2, <4>5, Zenon
    <3> QED
      BY <3>1, <3>2
  <2> QED
    BY <2>1, Zenon DEF SpanBounded
<1> QED
  BY <1>6, <1>9, <1>12, <1>13 DEF TrackerInv

LEMMA TrackerStep == TrackerInv /\ [TrackerNext]_trackerVars => TrackerInv'
<1> SUFFICES ASSUME TrackerInv, [TrackerNext]_trackerVars PROVE TrackerInv'
  OBVIOUS
<1> DEFINE span == WindowTicks - SlotTicks
<1>1. /\ TrackerTypeOK /\ OneLap /\ Budgeted /\ SpanBounded
      /\ instant \in Nat /\ inflight \in 0 .. InFlight
  BY DEF TrackerInv, TrackerTypeOK
<1>2. Seen(instant, span) \in Nat /\ Seen(instant, span) + inflight < Threshold + InFlight
  BY <1>1, SeenType DEF Budgeted
<1>3. CASE LetThrough
  <2>1. Seen(instant, span) < Threshold
    <3>1. CountIn(instant) \in Nat
      <4>1. CountIn(instant) = Cardinality(Counted(instant))
        BY <1>1, CountMeans
      <4>2. Counted(instant) \subseteq DOMAIN invalid
        BY DEF Counted, Since
      <4> QED
        BY <1>1, <4>1, <4>2, WindowType
    <3>2. CountIn(instant) >= Seen(instant, span)
      BY <1>1, OneSlot DEF WithinOneSlot
    <3>3. ~(CountIn(instant) >= Threshold)
      BY <1>3 DEF LetThrough, ShouldStop
    <3> HIDE DEF span
    <3> QED
      BY <1>2, <3>1, <3>2, <3>3, TrackerConstants
  <2>2. inflight' = inflight + 1 /\ inflight < InFlight /\ instant' = instant
        /\ UNCHANGED <<counts, epochs, invalid>>
    BY <1>3 DEF LetThrough
  <2>3. TrackerTypeOK'
    BY <1>1, <2>2, TrackerConstants DEF TrackerTypeOK
  <2>4. Seen(instant, span)' = Seen(instant, span)
    BY <2>2 DEF Seen
  <2>5. Budgeted'
    <3> HIDE DEF span
    <3>1. Seen(instant, span) + (inflight + 1) < Threshold + InFlight
      BY <1>1, <1>2, <2>1, <2>2, TrackerConstants
    <3>2. (Seen(instant, span) + inflight)' < Threshold + InFlight
      BY <2>2, <2>4, <3>1
    <3> QED
      BY <3>2, Zenon DEF Budgeted, span
  <2> QED
    BY <1>1, <2>2, <2>3, <2>5, NoneInvalid
<1>4. CASE Register
  BY <1>4, RegisterStep
<1>5. CASE Answer
  <2>1. inflight' = inflight - 1 /\ inflight > 0 /\ instant' = instant
        /\ UNCHANGED <<counts, epochs, invalid>>
    BY <1>5 DEF Answer
  <2>2. TrackerTypeOK'
    BY <1>1, <2>1, TrackerConstants DEF TrackerTypeOK
  <2>3. Seen(instant, span)' = Seen(instant, span)
    BY <2>1 DEF Seen
  <2>4. Budgeted'
    <3> HIDE DEF span
    <3>1. Seen(instant, span) + (inflight - 1) < Threshold + InFlight
      BY <1>1, <1>2, TrackerConstants
    <3>2. (Seen(instant, span) + inflight)' < Threshold + InFlight
      BY <2>1, <2>3, <3>1
    <3> QED
      BY <3>2, Zenon DEF Budgeted, span
  <2> QED
    BY <1>1, <2>1, <2>2, <2>4, NoneInvalid
<1>6. CASE TrackerTick
  <2>1. instant' = instant + 1 /\ UNCHANGED <<counts, epochs, inflight, invalid>>
    BY <1>6 DEF TrackerTick
  <2>2. TrackerTypeOK'
    BY <1>1, <2>1 DEF TrackerTypeOK
  <2>3. Seen(instant, span)' = Seen(instant + 1, span)
    BY <2>1 DEF Seen
  <2>4. Seen(instant + 1, span) <= Seen(instant, span) /\ Seen(instant + 1, span) \in Nat
    BY <1>1, SeenLater, SeenType, TrackerConstants DEF OneLap
  <2>5. Budgeted'
    <3> HIDE DEF span
    <3>1. Seen(instant + 1, span) + inflight < Threshold + InFlight
      BY <1>1, <1>2, <2>4, TrackerConstants
    <3>2. (Seen(instant, span) + inflight)' < Threshold + InFlight
      BY <2>1, <2>3, <3>1
    <3> QED
      BY <3>2, Zenon DEF Budgeted, span
  <2>6. instant' >= instant
    BY <1>1, <2>1
  <2> QED
    BY <1>1, <2>1, <2>2, <2>5, <2>6, NoneInvalid
<1>7. CASE UNCHANGED trackerVars
  <2>1. UNCHANGED <<instant, counts, epochs, inflight, invalid>>
    BY <1>7 DEF trackerVars
  <2>2. TrackerTypeOK' /\ Budgeted'
    BY <1>1, <2>1 DEF TrackerTypeOK, Budgeted, Seen
  <2> QED
    BY <1>1, <2>1, <2>2, NoneInvalid
<1> QED
  BY <1>3, <1>4, <1>5, <1>6, <1>7 DEF TrackerNext

LEMMA TrackerHolds == TrackerSpec => []TrackerInv
  BY TrackerStart, TrackerStep, PTL DEF TrackerSpec

\* Whatever requests fail and when, InvalidRequestTracker's ring counts every invalid
\* response of the window less one slot and none older than the window, and decaysAt()
\* is the instant at which the count falls.
THEOREM CountHolds == TrackerSpec => []CountIsTrue
<1>1. TrackerInv => CountIsTrue
  BY OneSlot, Decay DEF TrackerInv, CountIsTrue
<1> QED
  BY <1>1, TrackerHolds, PTL

\* shouldStop(), asked before a request is sent, keeps every span of the window less
\* one slot below the threshold and the requests then in flight.
THEOREM SpanHolds == TrackerSpec => []SpanBounded
<1>1. TrackerInv => SpanBounded
  BY DEF TrackerInv
<1> QED
  BY <1>1, TrackerHolds, PTL
==============================================================================
