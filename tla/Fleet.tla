------------------------------- MODULE Fleet -------------------------------
(***************************************************************************)
(* A client and its shards: login(), whenReady(), destroy() of             *)
(* packages/core/src/Client.ts over packages/gateway/src/ShardManager.ts.  *)
(* A shard is what Shard shows of itself to them: it loads its session,    *)
(* connects, is ready or resumed, loses its connection, gives up or fails, *)
(* and stops when it is told to.                                           *)
(***************************************************************************)
EXTENDS Integers, FiniteSets

CONSTANTS
  Fleets,     \* the sets of shards a login may find it owns
  Logins,     \* calls of login(), numbered in the order they are made
  Waits, Destroys,  \* calls of whenReady() and destroy()
  None,
  MaxShards,  \* bound: shards made
  MaxDrops    \* bound: connections lost

ASSUME FleetAssumption ==
  /\ Logins \subseteq Nat
  /\ \A f \in Fleets : IsFiniteSet(f)
  \* shardIds of the options, or all of them from 0
  /\ \A f, g \in Fleets : f \cap g # {}
  /\ None \notin Logins \X UNION Fleets
  /\ MaxShards \in Nat /\ MaxDrops \in Nat

VARIABLES
  serial,     \* whether options.serialDispatch is on
  login,      \* where each login() is
  own,        \* the shards it made
  promise,    \* what #firstReady() of each is: armed until settled or cancelled
  wait,       \* where each whenReady() is
  destroy,    \* where each destroy() is ...
  stopping,   \* ... and the shards it awaits
  phase,      \* each shard
  loading,    \* shards whose connect() awaits the session store
  session,    \* running shards with a session to resume
  map,        \* #shards of the manager
  counted,    \* shards whose once('ready') has fired
  allReady,   \* fleets whose allReady is in the microtask queue
  bridges,    \* #bridges of the client
  dead,       \* shards whose bridge was destroyed
  owed,       \* shards whose READY waits in the bridge's queue
  user, readyShards, announced, destroyed,
  sweeping,   \* whether the sweeper runs
  drops,
  told,       \* history: how often the client emitted ready
  routed,     \* history: shards whose READY was routed
  lost        \* history: shards that were replaced, or that a destroy() came too early for

calls == <<login, own, promise, wait>>
ends == <<destroy, stopping>>
shards == <<phase, loading, session, map, counted, allReady, drops>>
announcing == <<bridges, dead, owed, user, readyShards, announced, told, routed>>
vars == <<serial, calls, ends, shards, announcing, destroyed, sweeping, lost>>

Ids == UNION Fleets
\* Each connect() makes its own.
Shards == Logins \X Ids
Of(l) == {l} \X own[l]
Made == UNION {Of(l) : l \in Logins}
Settled == {"resolved", "rejected"}

Init ==
  /\ serial \in BOOLEAN
  /\ login = [l \in Logins |-> "idle"] /\ promise = [l \in Logins |-> "none"]
  /\ own = [l \in Logins |-> {}]
  /\ wait = [w \in Waits |-> "idle"]
  /\ destroy = [d \in Destroys |-> "idle"] /\ stopping = [d \in Destroys |-> {}]
  /\ phase = [s \in Shards |-> "none"] /\ loading = {}
  /\ session = [s \in Shards |-> FALSE]
  /\ map = [i \in Ids |-> None] /\ counted = {} /\ allReady = {} /\ drops = 0
  /\ bridges = [i \in Ids |-> None] /\ dead = {} /\ owed = {}
  /\ user = FALSE /\ readyShards = {} /\ announced = FALSE
  /\ destroyed = FALSE /\ sweeping = FALSE
  /\ told = 0 /\ routed = {} /\ lost = {}

Owned(m) == {i \in Ids : m[i] # None}

AnyShardReady(ready, m) == Owned(m) # {} /\ ready # {}
\* #allShardsReady
AllShardsReady(ready, m) ==
  Owned(m) # {} /\ Cardinality(ready) >= Cardinality(Owned(m))

-----------------------------------------------------------------------------
(* login()                                                                 *)

Login(l) ==
  /\ login[l] = "idle" /\ \A k \in Logins : k < l => login[k] # "idle"
  /\ IF destroyed
     THEN login' = [login EXCEPT ![l] = "rejected"] /\ UNCHANGED promise
     ELSE /\ login' = [login EXCEPT ![l] = "fetching"]
          /\ promise' = [promise EXCEPT ![l] = "armed"]
  /\ UNCHANGED <<serial, own, wait, ends, shards, announcing, destroyed, sweeping, lost>>

Fail(l) ==
  /\ login' = [login EXCEPT ![l] = "rejected"]
  /\ promise' = [promise EXCEPT ![l] = "cancelled"]

\* fetchGatewayBot rejects, or the session starts that remain are too few.
FetchFails(l) ==
  /\ login[l] = "fetching" /\ Fail(l)
  /\ UNCHANGED <<serial, own, wait, ends, shards, announcing, destroyed, sweeping, lost>>

\* connect() goes on: #createShard and shardSpawn, with its bridge, for every id.
Fetched(l, ids) ==
  /\ login[l] = "fetching"
  /\ Cardinality(Made \cup ({l} \X ids)) <= MaxShards
  /\ login' = [login EXCEPT ![l] = "connecting"]
  /\ own' = [own EXCEPT ![l] = ids]
  /\ map' = [i \in Ids |-> IF i \in ids THEN <<l, i>> ELSE map[i]]
  /\ bridges' = [i \in Ids |-> IF i \in ids THEN <<l, i>> ELSE bridges[i]]
  /\ loading' = loading \cup Of(l)'
  /\ lost' = lost \cup ({map[i] : i \in ids} \ {None}) \cup IF destroyed THEN Of(l)' ELSE {}
  /\ UNCHANGED <<serial, promise, wait, ends, phase, session, counted, allReady, drops,
                 dead, owed, user, readyShards, announced, told, routed,
                 destroyed, sweeping>>

\* The store answers: the shard opens its connection, destroyed or not meanwhile.  With
\* the last one connect() resolves and login() goes on.
Loaded(s, stored) ==
  /\ s \in loading
  /\ loading' = loading \ {s}
  /\ phase' = [phase EXCEPT ![s] = "away"]
  /\ session' = [session EXCEPT ![s] = stored]
  /\ IF login[s[1]] = "connecting" /\ loading' \cap Of(s[1]) = {}
     THEN login' = [login EXCEPT ![s[1]] = "waiting"] /\ sweeping' = TRUE
     ELSE UNCHANGED <<login, sweeping>>
  /\ UNCHANGED <<serial, own, promise, wait, ends, map, counted, allReady, drops,
                 announcing, destroyed, lost>>

\* Promise.all rejects with the first one; the others go on.
LoadFails(s) ==
  /\ s \in loading
  /\ loading' = loading \ {s}
  /\ IF login[s[1]] = "connecting" THEN Fail(s[1]) ELSE UNCHANGED <<login, promise>>
  /\ UNCHANGED <<serial, own, wait, ends, phase, session, map, counted, allReady, drops,
                 announcing, destroyed, sweeping, lost>>

\* What the caller of login() sees.
Returned(l) ==
  IF login[l] = "waiting" /\ promise[l] \in Settled THEN promise[l] ELSE login[l]

-----------------------------------------------------------------------------
(* The shards, and what is made of their events.                           *)

\* The promises and calls that still wait end so.
Resolve(end) == [l \in Logins |-> IF promise[l] = "armed" THEN end ELSE promise[l]]

WaitsEnd(end) == [w \in Waits |-> IF wait[w] = "waiting" THEN end ELSE wait[w]]

Told(ready, known) ==
  LET now == known /\ ~announced /\ AllShardsReady(ready, map)
  IN announced' = (announced \/ now) /\ told' = told + IF now THEN 1 ELSE 0

AnnounceFleetOnly(s, ready, known) ==
  /\ user' = known /\ readyShards' = ready /\ routed' = routed \cup {s}
  /\ Told(ready, known)
  /\ promise' = IF told' > told THEN Resolve("resolved") ELSE promise

\* READY is routed, which sets the user unless a listener of raw throws; then
\* #onShardReady.
Announce(s, ready, known) ==
  /\ user' = known /\ readyShards' = ready /\ routed' = routed \cup {s}
  /\ Told(ready, known)
  /\ promise' = IF known THEN Resolve("resolved") ELSE promise

\* The manager's listener, before the bridge's.
Count(s) ==
  /\ counted' = counted \cup {s}
  /\ allReady' = IF s \notin counted /\ Of(s[1]) \subseteq counted' THEN allReady \cup {s[1]}
                 ELSE allReady

\* READY: what waits of an older session is cleared; in serial mode READY itself waits
\* if the drain awaits a listener.  A session it had was refused before.
Ready(s, waits, throws) ==
  /\ phase[s] = "away"
  /\ waits => serial
  /\ phase' = [phase EXCEPT ![s] = "live"] /\ session' = [session EXCEPT ![s] = TRUE]
  /\ Count(s)
  /\ IF s \in dead
     THEN UNCHANGED <<owed, user, readyShards, announced, told, routed, promise>>
     ELSE IF waits
     THEN /\ owed' = owed \cup {s}
          /\ UNCHANGED <<user, readyShards, announced, told, routed, promise>>
     ELSE /\ owed' = owed \ {s}
          /\ Announce(s, readyShards \cup {s[2]}, user \/ ~throws)
  /\ UNCHANGED <<serial, login, own, wait, ends, loading, map, drops, bridges, dead,
                 destroyed, sweeping, lost>>

\* A READY without guilds, and a listener of shardGuildsReady throws before it is handed on:
\* nothing is made of it, and an older one goes on waiting (Bridge).
Unheard(s) ==
  /\ phase[s] = "away" /\ s \notin dead
  /\ phase' = [phase EXCEPT ![s] = "live"] /\ session' = [session EXCEPT ![s] = TRUE]
  /\ Count(s)
  /\ UNCHANGED <<serial, calls, ends, loading, map, drops, announcing, destroyed, sweeping, lost>>

\* The drain comes to the READY that waited.
Drained(s, throws) ==
  /\ s \in owed
  /\ owed' = owed \ {s}
  /\ Announce(s, readyShards \cup {s[2]}, user \/ ~throws)
  /\ UNCHANGED <<serial, login, own, wait, ends, shards, bridges, dead, destroyed, sweeping, lost>>

Resumed(s) ==
  /\ phase[s] = "away" /\ session[s]
  /\ phase' = [phase EXCEPT ![s] = "live"]
  /\ UNCHANGED <<serial, calls, ends, loading, session, map, counted, allReady, drops,
                 announcing, destroyed, sweeping, lost>>

Drop(s) ==
  /\ phase[s] = "live" /\ drops < MaxDrops
  /\ phase' = [phase EXCEPT ![s] = "away"] /\ drops' = drops + 1
  /\ UNCHANGED <<serial, calls, ends, loading, session, map, counted, allReady,
                 announcing, destroyed, sweeping, lost>>

\* Its attempts are exhausted: a FatalGatewayError without a code.
GiveUp(s) ==
  /\ phase[s] = "away"
  /\ phase' = [phase EXCEPT ![s] = "fatal"] /\ session' = [session EXCEPT ![s] = FALSE]
  /\ UNCHANGED <<serial, calls, ends, loading, map, counted, allReady, drops,
                 announcing, destroyed, sweeping, lost>>

\* The microtask.
AllReady(l) ==
  /\ l \in allReady
  /\ allReady' = allReady \ {l}
  /\ wait' = WaitsEnd("resolved")
  /\ UNCHANGED <<serial, login, own, promise, ends, phase, loading, session, map, counted, drops,
                 announcing, destroyed, sweeping, lost>>

-----------------------------------------------------------------------------
(* whenReady() and destroy()                                               *)

WhenReady(w) ==
  /\ wait[w] = "idle"
  /\ wait' = [wait EXCEPT ![w] =
       IF destroyed THEN "rejected"
       ELSE IF AllShardsReady(readyShards, map) THEN "resolved" ELSE "waiting"]
  /\ UNCHANGED <<serial, login, own, promise, ends, shards, announcing, destroyed, sweeping, lost>>

TargetsReady == {map[i] : i \in readyShards \cap Owned(map)}
Targets == {map[i] : i \in Owned(map)}

\* destroy() up to its await, where every shard of the map is told to stop.
Down(d) ==
  /\ destroy[d] \in {"idle", "failed"} /\ stopping[d] = {}
  /\ sweeping' = FALSE /\ destroyed' = TRUE
  /\ dead' = dead \cup {bridges[i] : i \in Owned(bridges)}
  /\ bridges' = [i \in Ids |-> None] /\ owed' = owed \ dead'
  /\ promise' = Resolve("rejected")
  /\ wait' = WaitsEnd("rejected")
  /\ readyShards' = {} /\ announced' = FALSE
  /\ destroy' = [destroy EXCEPT ![d] = "stopping"]
  /\ stopping' = [stopping EXCEPT ![d] = Targets]
  /\ lost' = lost \cup loading
       \cup UNION {Of(l) : l \in {k \in Logins : login[k] = "connecting"}}
  /\ UNCHANGED <<serial, login, own, loading, map, counted, allReady, drops, user, told, routed>>

Destroy(d) == Down(d) /\ UNCHANGED <<phase, session>>

\* A close code that is fatal for the fleet: error is emitted, which rejects login(), and
\* the client destroys itself.
Fatal(s, d) ==
  /\ phase[s] \in {"away", "live"}
  /\ phase' = [phase EXCEPT ![s] = "fatal"] /\ session' = [session EXCEPT ![s] = FALSE]
  /\ Down(d)

\* A shard that failed stays so; the others are closed.
Stopped(d, s) ==
  /\ s \in stopping[d]
  /\ stopping' = [stopping EXCEPT ![d] = @ \ {s}]
  /\ phase' = [phase EXCEPT ![s] = IF @ = "fatal" THEN "fatal" ELSE "closed"]
  /\ session' = [session EXCEPT ![s] = FALSE]
  /\ UNCHANGED <<serial, calls, destroy, loading, map, counted, allReady, drops,
                 announcing, destroyed, sweeping, lost>>

\* The store rejects, and so does destroy(); the shard is not closed.
StopFails(d, s) ==
  /\ s \in stopping[d]
  /\ stopping' = [stopping EXCEPT ![d] = @ \ {s}]
  /\ destroy' = [destroy EXCEPT ![d] = "failed"]
  /\ UNCHANGED <<serial, calls, shards, announcing, destroyed, sweeping, lost>>

Destroyed(d) ==
  /\ destroy[d] = "stopping" /\ stopping[d] = {}
  /\ destroy' = [destroy EXCEPT ![d] = "done"]
  /\ map' = [i \in Ids |-> None]
  /\ UNCHANGED <<serial, calls, stopping, phase, loading, session, counted, allReady, drops,
                 announcing, destroyed, sweeping, lost>>

-----------------------------------------------------------------------------
Connecting(s) ==
  \/ Resumed(s) \/ Unheard(s)
  \/ \E stored \in BOOLEAN : Loaded(s, stored)
  \/ \E waits, throws \in BOOLEAN : Ready(s, waits, throws)

FetchEnds(l) == FetchFails(l) \/ \E ids \in Fleets : Fetched(l, ids)
Drains(s) == \E throws \in BOOLEAN : Drained(s, throws)

Next ==
  \/ \E l \in Logins : AllReady(l)
  \/ \E w \in Waits : WhenReady(w)
  \/ /\ allReady = {}
     /\ \/ \E l \in Logins : Login(l) \/ FetchEnds(l)
        \/ \E s \in Shards :
             \/ Connecting(s) \/ Drains(s) \/ LoadFails(s) \/ Drop(s) \/ GiveUp(s)
             \/ \E d \in Destroys : Fatal(s, d) \/ Stopped(d, s) \/ StopFails(d, s)
        \/ \E d \in Destroys : Destroy(d) \/ Destroyed(d)

Spec == Init /\ [][Next]_vars

\* Fetches and stores answer, a shard that tries long enough is ready or resumed, the
\* listeners a drain awaits end, and microtasks run.
FairSpec ==
  /\ Spec
  /\ \A l \in Logins : WF_vars(FetchEnds(l) \/ AllReady(l))
  /\ \A s \in Shards : WF_vars(Connecting(s) \/ Drains(s))

-----------------------------------------------------------------------------
TypeOK ==
  /\ serial \in BOOLEAN
  /\ own \in [Logins -> SUBSET Ids]
  /\ login \in [Logins -> {"idle", "fetching", "connecting", "waiting", "rejected"}]
  /\ promise \in [Logins -> {"none", "armed", "cancelled"} \cup Settled]
  /\ wait \in [Waits -> {"idle", "waiting"} \cup Settled]
  /\ destroy \in [Destroys -> {"idle", "stopping", "failed", "done"}]
  /\ stopping \in [Destroys -> SUBSET Shards]
  /\ phase \in [Shards -> {"none", "away", "live", "fatal", "closed"}]
  /\ session \in [Shards -> BOOLEAN]
  /\ map \in [Ids -> Shards \cup {None}] /\ bridges \in [Ids -> Shards \cup {None}]
  /\ loading \subseteq Shards /\ counted \subseteq Shards /\ dead \subseteq Shards
  /\ owed \subseteq Shards /\ routed \subseteq Shards /\ lost \subseteq Shards
  /\ allReady \subseteq Logins /\ readyShards \subseteq Ids
  /\ user \in BOOLEAN /\ announced \in BOOLEAN /\ destroyed \in BOOLEAN /\ sweeping \in BOOLEAN
  /\ drops \in 0 .. MaxDrops /\ told \in Nat

Up(s) == phase[s] \in {"away", "live"}
Running == loading \cup {s \in Shards : Up(s)}

\* "Disconnects every shard and stops all timers": once a destroy() is done, what still
\* runs was replaced by another login(), or belongs to one the destroy() overtook.
DestroyStopsFleet ==
  (\E d \in Destroys : destroy[d] = "done")
  => Running \subseteq lost /\ (sweeping => \E l \in Logins : own[l] # {} /\ Of(l) \subseteq lost)

\* The client says that it is ready once, however many shards, READYs and late drains.
ReadyOnce == TypeOK /\ (lost = {} => told <= 1)

EveryShardFirst ==
  /\ told' > told /\ lost' = {} => told = 0 /\ \A i \in Owned(map) : map[i] \in routed'
  /\ \A w \in Waits : wait'[w] = "resolved" /\ wait[w] # "resolved" /\ lost' = {}
       => \A i \in Owned(map) : map[i] \in counted

\* "Every shard reported ready": ready is emitted, once, and whenReady() resolves, only when
\* each shard of the fleet has been ready, and for ready its READY was handled first.
ReadyMeansEveryShard == [][EveryShardFirst]_vars

\* What makes the three inductive (FleetProofs): the shards each part speaks of were
\* made; ...
MadeFirst ==
  /\ \A l \in Logins : own[l] # {} => own[l] \in Fleets /\ login[l] \notin {"idle", "fetching"}
  /\ loading \cup {s \in Shards : phase[s] # "none"} \cup counted \subseteq Made
  /\ owed \cup routed \subseteq counted
  /\ IsFiniteSet(Owned(map))
  /\ \A i \in Owned(map) : map[i] \in Made /\ map[i][2] = i
  /\ \A l \in allReady : own[l] # {} /\ Of(l) \subseteq counted
  /\ \A d \in Destroys : stopping[d] \subseteq Made

\* ... one that is not lost is the client's until a destroy(), which does away with its
\* bridge and will have stopped it when it is done; ...
Kept ==
  \A s \in Made \ lost :
    /\ IF destroyed THEN s \in dead \ loading ELSE map[s[2]] = s /\ bridges[s[2]] = s
    /\ Up(s) => /\ map[s[2]] = s
                /\ \A d \in Destroys : /\ destroy[d] # "done"
                                       /\ destroy[d] = "stopping" => s \in stopping[d]

Ended ==
  IF destroyed
  THEN /\ \A w \in Waits : wait[w] # "waiting"
       /\ \A l \in Logins : login[l] = "connecting" => Of(l) \subseteq lost
       /\ sweeping => \E l \in Logins : own[l] # {} /\ Of(l) \subseteq lost
  ELSE \A d \in Destroys : destroy[d] = "idle" /\ stopping[d] = {}

\* ... and if none is lost there is one fleet, whose announcement is made once.
OneFleet ==
  /\ owed \cap dead = {}
  /\ lost = {} =>
       /\ \A k, l \in Logins : own[k] # {} /\ own[l] # {} => k = l
       /\ told <= 1
       /\ ~destroyed => /\ told = 1 => announced
                       /\ readyShards \subseteq {i \in Owned(map) : map[i] \in routed}

FleetInv == MadeFirst /\ Kept /\ Ended /\ OneFleet

\* login() does not hang: it ends when one of its shards is ready and the identity is
\* known, whatever listeners throw before, and when the client is destroyed.
LoginSettles ==
  \A l \in Logins :
    Returned(l) \in {"fetching", "connecting", "waiting"}
      /\ (destroyed \/ (user /\ Of(l) \cap routed # {}))
    ~> Returned(l) \in Settled

-----------------------------------------------------------------------------
(* What the code does not meet.                                            *)

\* Client.destroy: "Disconnects every shard and stops all timers."
StopsForGood ==
  (\E d \in Destroys : destroy[d] = "done") /\ (\A d \in Destroys : destroy[d] # "stopping")
  => Running = {} /\ ~sweeping

AllCounted(l) == own[l] # {} /\ Of(l) \subseteq counted

\* Client.whenReady: "Resolves once every owned shard has reported ready."
WhenReadyResolves ==
  \A w \in Waits :
    wait[w] = "waiting" /\ (\E l \in Logins : AllCounted(l)) ~> wait[w] # "waiting"

\* Client.login: "Connects every shard and resolves once the first one is ready", which is
\* also what a shard is that resumed its session.
LoginResolves ==
  \A l \in Logins :
    Returned(l) = "waiting" /\ (\E s \in Of(l) : phase[s] = "live") ~> Returned(l) # "waiting"
=============================================================================
