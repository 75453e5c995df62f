# A TLA+ verification project for Vestra

Vestra is a zero-dependency Discord library in TypeScript. This directory holds
TLA+ models of the parts of it where order, time and failure matter, the TLC
configurations that check them on small instances, and TLAPS proofs of the
properties that hold for every value of the constants.

Contents: 1 the system, 2 the inventory, 3 modules and code, 4 the runs and
their bounds, 5 fairness, 6 the proofs, 7 where code and comments disagree,
8 what is not modelled, 9 the plan, 10 how to run it.

## 1. The system

Five packages under `src/packages`, in one direction of dependency:

- `types` - declarations and enums, erased at run time;
- `rest` - HTTP requests: routes build a path and a body, `REST` hands them to a
  `SequentialHandler` per route and major parameter, which paces them by the
  buckets of Discord, the account-wide limit and the count of invalid responses;
- `gateway` - WebSocket sessions: a `ShardManager` starts `Shard`s, each of which
  owns one `ShardConnection` at a time (transport, decompressor, `SendQueue`,
  `Heartbeater`) and a session it tries to resume;
- `core` - the `Client`: per shard a `ShardBridge` passes dispatches, directly or
  through a `DispatchQueue`, to the `EventRouter`, whose handlers update the
  cache and emit events;
- `vestra` - re-exports.

Everything runs on one event loop. A handler runs to its end, or to its next
`await`; interleaving happens at awaits, timers, socket events and aborts. What
leaves the process is the session store, the sockets and HTTP.

```
 user calls -> Client -> ShardManager -> Shard <-> ShardConnection <-> WebSocketTransport <-> gateway
                 ^            |            |  \-> SessionStore             (peer)
                 |      IdentifyThrottler<-+  \-> SendQueue, Heartbeater, Compression
                 |                         | dispatch
                 +--- EventRouter <- DispatchQueue <- ShardBridge -> MemberChunker, GuildReadyTracker
                          |-> handlers -> cache
 user calls -> REST -> SequentialHandler -> AsyncQueue, BucketRegistry, GlobalLimiter,
                                            InvalidRequestTracker -> HTTP
```

## 2. Inventory

### gateway

| component | state | operations | interacts with | what is hard | what makes it correct |
|---|---|---|---|---|---|
| `Shard`, `ShardSession`, `ShardHandshake` | 11-valued state, connection, closing intent, replaying flag, two timers, session, attempt counts | connect, destroy, open, close, hello, opcodes 1/7/9/11, READY, RESUMED, dispatch, two timeouts, zombie | manager (calls), connection (hooks), store, throttler | awaits of the store inside connect and destroy; timers that outlive a connection; a peer that answers late, wrongly or never; restarts with an old record | one socket; a stopped shard is quiet; a reconnecting shard has one armed timer; nothing skipped on resume; retries bounded; fatal is final |
| `ShardConnection`, `WebSocketTransport` | socket phase, disposed flag, byte counters | open, send, heartbeat, close, dispose | shard, transport | events after dispose; graceful closes that wait for a peer | events of a disposed connection reach nobody; beats use the reserve |
| `CloseCodes` | none | classify a close code | shard | the sets must be disjoint and complete | verdict of each code |
| `Backoff` | attempt | next, reset, startAtCap | shard | one counter, two meanings | attempts bounded |
| `SessionStore` | one record per shard | get, set, delete | shard | asynchronous, writes not awaited | a resume never claims more than was delivered |
| `SendQueue` | ring of send times, waiting commands | acquire, tryTakeHeartbeatSlot | connection | sleeping waiters against beats, ring arithmetic | never over the limit in any window; a beat finds a slot |
| `Heartbeater` | timer, awaiting flag, time of last beat | start, beat on request, ack, timer, stop | connection | requested beats against the periodic cadence | a healthy peer is kept, a silent one found, cadence kept |
| `IdentifyThrottler` | line, free time per bucket | waitForIdentify | shards of a fleet | aborts in line, timers that fire early | one identify per window and bucket |
| `ShardManager` | shard map, throttler, gateway url | connect, destroy, routing | client, shards | destroy or connect during connect's await; counting readiness | every started shard is owned, allReady once |
| `MemberChunker` | pending requests by nonce, gate per guild | request, chunk, rate limited, reset | bridge | send awaiting while timer or READY rejects | each request settles once, with all its chunks |
| `GuildReadyTracker` | pending guilds, idle timer, done | seed, resolve, stop | bridge | late guild against timer | completes once |
| `Compression`, `Encoding` | zlib streams | push, close | connection | asynchronous output order | frames in order |

### rest

| component | state | operations | interacts with | what is hard | what makes it correct |
|---|---|---|---|---|---|
| `AsyncQueue` | chain of promises, size | acquire, release, abort | handler | abort in the middle of the chain | one at a time, in order, nobody stranded |
| `SequentialHandler` | a queue; per request: bucket state, attempt | queue, check, send, headers, 429, retries | all of `ratelimit` | a state object held across awaits, several routes on one bucket, lost answers, aborts | no 429 that the client could have known of; no early retry; every request ends |
| `BucketRegistry` | route to hash, hash and major to state | getState, setHash, sweep | handlers | migration and merge while requests hold a state | what is known of a bucket is not forgotten |
| `GlobalLimiter` | ring, blockedUntil | acquire, block | handlers | waiters that wake together; 429s out of order | the ceiling in every window, no send inside a block |
| `InvalidRequestTracker` | ring of 60 slots | register, countIn, decaysAt | handlers | partial slots, stale laps | count exact to one slot |
| `REST` | token, handler map | setToken, request, raw, sweep | core, handlers | a handler swept while its route is in use | one handler per route and major parameter while anything waits |
| routes | none | about 190 requests | `REST`, structures | the path decides the bucket, and what it is normalised to is matched by pattern | a queue is of one endpoint under one channel, guild or webhook, and has all of its calls; tokens stay out of keys |
| errors, files | none | an error of a response, a form of files | `REST` | - | - |

### core

| component | state | operations | interacts with | what is hard | what makes it correct |
|---|---|---|---|---|---|
| `ShardBridge` | tracker, guildsPending, destroyed | dispatch, destroy | shard, chunker, tracker, queue, client | READY order, a new session with a backlog of the old | readiness is told after READY was handled |
| `DispatchQueue` | backlog, draining | push, clear, drain | bridge, router | listeners awaited while dispatches arrive | order kept, overflow drops the newest |
| `EventRouter`, handlers | none | route, report | cache, client | listeners that throw | a throwing listener reaches no socket |
| cache (`CacheStore`, `MemoryCacheAdapter`, `CacheIndex`, `evictGuild`, `CacheSweeper`) | two maps and an index per scope | set, get, delete, group, sweep | handlers | two structures that change separately; deletions nobody is told of | the index and the adapter agree, bounds hold, what is cached is so |
| `Permissions` | none | compute | structures, cache | order of the stages, a cache that holds part of the guild | never more than Discord grants; the same if all is cached |
| `Client`, presence, options | bridges, ready shards, waiters | login, whenReady, destroy | everything | destroy during login; readiness from two sources | login and whenReady settle |
| structures | payload fields | constructor, patch, clone | handlers, listeners | partial payloads: which fields may be absent, and what absence means | a field holds what was last said of it; reported changes add up |

`PROJECT.json` lists the same components with their status, and the hazards at
their lines. Nine hazards have no property because the code does not meet one;
their notes name the definition that states it, and section 7 tells what happens.

## 3. Modules and code

A definition is faithful to the lines `PROJECT.json` maps it to. An action is a
whole handler, up to its `await` or its end; a handler with an `await` at which
something else may happen is two actions. Where a run needs a bound, the bound
is a constant named as such, and it is a guard of the model.

Beside some definitions stands a faulty variant of it that nothing uses
(`DisposeNothing` before `Dispose`): a mutant. Put in place of the definition it
has to break the property `PROJECT.json` names for it; that shows that the
property depends on that line of the code.

**`CloseCodes`** - `classifyCloseCode` and `resolveCloseVerdict` as functions:
the code sets of `CloseCodes.ts` and `types/src/enums/gateway.ts`.

**`Shard`** - `Shard.ts` with `ShardSession`, `ShardState`, `ShardHandshake`,
the counter of `Backoff`, the life of `ShardConnection` and its transport, the
session store and the peer.
- A connection lives in a *slot*; `connection` is the slot of `#connection`. A
  second slot holds one socket the shard has lost track of; a third, a handshake
  timeout that was left behind, which keeps the slot it was armed for.
- `connect()` is `Connect` and `ConnectLoaded`, cut at the store's await;
  `destroy()` is `Destroy` and `DestroyStored`. `calls` holds the locals that
  survive the await.
- A frame is one action per opcode: `Hello`, `ReconnectRequested`,
  `InvalidSession`, `Ready`, `Resumed`, `Dispatch`. Opcode 9 may come at any time, before
  Hello too, and leaves the handshake timeout as it is. The rest are `SocketOpen`,
  `SocketClose`, `DecompressionFailed`, `Backpressure`, `Zombie`,
  `HandshakeTimeout`, `ReconnectTimeout`, `SendHandshake`.
- The environment is `PeerGone` (a peer that stops without a close) and
  `Restart` (the process goes, the store stays).
- `SerialCaller` says that calls do not overlap and that `connect()` is called on
  a stopped shard only, which is how `ShardManager` uses it. `PromptStore` says
  that the store answers before the next event-loop task, as
  `InMemorySessionStore` does. Neither is true of every user, and both are
  constants, so the runs and theorems say where they are needed.
- Sequence numbers are counted per socket; `delivered` remembers what the bot got.

**`FifoLock`, `AsyncQueue`** - `FifoLock` is what `AsyncQueue.ts` promises: access
one at a time in order of arrival. `Buckets` implements it as well, one lock for
each of its queues (`QueuesServeInOrder`). `AsyncQueue` is the code: a chain of slots,
each waiting for the one before; an abort (`SignalAborts`, `Rejected`) passes its
predecessor's release on to its successor (`Forward`). `ServesInOrder` is that
`AsyncQueue` implements `FifoLock` under a refinement mapping.

**`SlidingWindow`** - the ring of send times that `SendQueue` and `GlobalLimiter`
both keep, as functions on a record: `Recorded`, `Delay`. `RingHolds` relates a
ring to the log of all sends, which is what the proofs use.

**`SendQueue`** - commands in line (`Acquire`, `Turn`, `Abort`, `Rejected`) and beats
(`Heartbeat`) that draw on one ring with different allowances.
**`Heartbeater`** - timer, acknowledgements and the peer. `stopped` and `timing` are
apart as in the code, where `#stopped` is false before `start()` too: a beat the peer
asks for before Hello is sent (`BeatNow`), takes a slot and is awaited until Hello
forgets it (`Start`). Times are ticks from
now, so that it needs no bound. **`Connection`** composes the two: a beat takes a
slot of the ring, or is refused, in the same step (`#sendHeartbeat`).

**`GlobalLimiter`** - `acquire()`, one turn of its loop per action, and the block of a
global 429.

**`Buckets`** - `SequentialHandler` and `BucketRegistry` with Discord's buckets.
`ahead` has for each request who is in its queue since before it, `req` its phase
and locals, `hashes` and `states` are the registry. A request holds its state object across
awaits: `at` is where the object is, or `Own` once a merge has dropped it from
the registry. `Serve`, `Lost`, `Remap` are the service; each bucket's window
opens with its first request. `Tick` counts windows down, and a timer fires at
its time or any time later.

**`InvalidRequests`** - the ring of slots, its sum, `decaysAt`, and the requests that
ask before they go out.

**`IdentifyThrottler`** - the line of each bucket, sleeps that may end `Early` by the
clock, aborts.

**`Fleet`** - `Client.login`, `whenReady` and `destroy` over `ShardManager` and the
readiness of the client. A shard is reduced to what `Shard` shows of itself to
them: it loads a session (`Loaded`), is ready or resumed, drops, gives up or
fails, and stops when told to.
- `login()` is `Login`, `Fetched` (with `#createShard` for every id) and one
  `Loaded` per shard; `promise` is `#firstReady()`. `destroy()` is `Down`, then
  one `Stopped` per shard of the map, then `Destroyed`. Several calls of each may
  be in flight, in any order.
- `Ready` runs the manager's listener (`Count`) and the bridge's in that order;
  in serial mode the second may wait for a drain (`owed`, `Drained`). `allReady`
  is the microtask that resolves `whenReady()`.
- `Unheard` is a READY that a listener of shardGuildsReady keeps from the client, as
  in `Bridge`: the manager has counted the shard, and the client hears nothing.
- `lost` is history: the shards another login replaced, or a `destroy()` came too
  early for.

**`Delivery`, `DispatchQueue`** - `Delivery` is what serial dispatch promises: one at a
time, in order, the latest dropped if there is no room, nothing of a session
after its successor's READY. `DispatchQueue` is the code: the array, its head,
`push`, `clear` and the loop of `#drain`, which pauses only to await listeners,
and ends early if a listener of `ready` throws (`Take`).

**`MemberChunker`** - `request()` cut at the await of its send, the promise beside
it, chunks, the gate of RATE_LIMITED, timers and `reset()`.

**`Bridge`** - `ShardBridge` composes the two with one `GuildReadyTracker` per READY
(`tracker`). One action per family of dispatches: `Ready`, `Guild`,
`MembersChunk`, `RateLimited`, `Other`; each does what `#onDispatch` does before
it delivers, in the same step. The router contains what listeners throw, but
`shardGuildsReady` is emitted outside of it: if that throws, the dispatch is neither
queued nor routed (`Lose`), and the delivery has a gap (`Miss` of `Delivery`); `unheard`
remembers the sessions whose READY went that way. The exception
reaches Node as uncaught, which ends the process by default; the models go on as one
does that handles it. `InOrder` is that `Bridge` implements `Delivery`,
in direct and in serial mode.

**`CacheStore`** - a store as a record of the adapter's entries, in the order of the map,
and the pairs of the index; its operations are functions of the record.
**`Handlers`** - what every handler that touches the cache does to the stores, as one function of
cache and payload per dispatch. An entity is a key, its fields are one number;
where a handler looks at a field (a channel's type, a thread's count, the time of the
last pin, a member's roles) the number is split. A pin is looked for among channels
and then among threads; a DM keeps none, and a payload without a timestamp changes nothing.
**`CacheSync`** - the handlers against Discord: the guild changes, a session
announces it, `Route` applies the dispatches in order, a resume repeats some, a new session
and an outage lose some, the sweeper runs, time passes. Each dispatch of the log carries
what it is `about`: the entities it changed, and those of which a change was `missed` and that a
GUILD_CREATE makes up for. If that dispatch is lost as well, they are missed again.

**`Fields`, `Structures`** - `Fields` has, for each class, how the constructor and
`patch` treat each field, which changes `patch` may report, and which fields a
payload may lack. `Structures` gives these tables a meaning and runs a
structure through its life: built, patched with payloads that lack any of those
fields, its changes reported. Fields are followed one at a time, or a few where
the code relates them (`Together`).

**`Permissions`** - `compute.ts` and `GuildMember.permissionsIn` as operators on sets of
flags, with a guild that is edited and a cache that holds any part of it.
`Entitled` is Discord's rule, flag by flag.

**`Routes`** - the requests of every route family, as method, path and whether they use
the bot's token; `BucketRegistry.getIdentity` normalises a path to a route and
a major parameter. Which queues share a bucket is for Discord's hashes to say,
which is `Buckets`, and no matter of the path. `Raw`, `Respond` and `Sweep` are the handler map of `REST`.

**`MC*`** - instances for TLC: model values, small functions, symmetry sets, views.
`MCWindows` puts the three limits over a window of time into one run, `MCQueues` the
two kinds of queue, and
`MCShapes` the three modules that say what something is: a behaviour of these
belongs to one of the parts, which share no variable, and `of` says to which.
**`*Proofs`** - theorems; each extends the modules it is about. `SequentialHandlerProofs`
is about `AsyncQueue`, `Buckets` and `Routes`, `FleetProofs` about `Fleet` and the limits
all shards or all requests share, `GlobalLimiter`, `IdentifyThrottler` and
`InvalidRequests`, `ConnectionProofs` about `SendQueue`, `Heartbeater` and `Connection`,
`HandlersProofs` about `CacheStore` and `Handlers`, `CacheProofs` about `CacheSync`,
`CoreProofs` about `DispatchQueue`, `MemberChunker` and `Bridge`, and about `Permissions`
and `Structures`.

## 4. The runs

`PROJECT.json` lists them; sizes are with two workers.

| run | module | asks | bounds | states |
|---|---|---|---|---|
| `shard_safety` | `MCShard` | what a shard must never do, with serial calls and a prompt store: `OneSocket`, `TimersAgree`, `NoSkippedDispatch`, `SessionAgrees`, `BoundedRetries`, `FatalIsTerminal`, `OnlyOpcode9LeavesTimeout` | 3 slots, 2 session ids, 3 sequence numbers, a close code of each class, 1 resume attempt, 2 retries | 838 k |
| `shard_liveness` | `MCShard` | does a reconnecting shard leave that state (`ReconnectingEnds`), is a silent peer noticed (`SilentPeerNoticed`) | 1 session id, 2 sequence numbers, no fatal code, no attempt limit | 2 k |
| `shard_stopped_reconnects` | `MCShard` | finding: a slow store and a close during `destroy()` | as `shard_safety`, `PromptStore = FALSE` | violation |
| `queues` | `MCQueues` | the size, order (as refinement of `AsyncQueue`, and of a queue of `Buckets` whose requests abort, sleep, retry), nobody stranded | 4 callers, 6 slots; 3 requests of one queue, limit 2, window 2, 1 retry | 140 k |
| `connection` | `MCConnection` | `Allowance` and reserve, `Liveliness` of the heartbeat, and that commands never kill a connection | limit 3, reserve 2, window 3, interval 3, round trip 2, 2 senders, 7 ticks, 4 sends, 2 beats asked for | 3.6 M |
| `windows` | `MCWindows` | the account-wide ceiling and block (`LimitRespected`), the count of invalid responses (`CountIsTrue`, `SpanBounded`), the pace of identifies (`OnePerWindow`) | limit 2, window 3, 3 requests of which 1 exempt; 3 slots of 2 ticks, threshold 2; 3 connections on 2 buckets, timers early by 1 | 380 k |
| `buckets_alone` | `MCBuckets` | a route with its own bucket is never refused for a reason the client knew | 2 + 1 requests on two major parameters, limit 2, window 2, 1 retry | 1.1 M |
| `buckets_shared` | `MCBuckets` | two routes on a bucket, one moved to another: no retry before the reset, and every request ends | 2 requests, limit 1, window 1, 2 hashes | 131 k |
| `fleet` | `MCFleet` | a destroyed client runs nothing it knew of, ready is told once and of the whole fleet, `login()` settles | fleets of 1 and 2 shards, at most 2 shards made, 2 logins, 1 wait, 1 destroy, 1 drop | 474 k |
| `bridge` | `MCBridge` | order (as refinement), announcements, guild readiness, member requests | 2 sessions, 5 dispatches (3 with member requests), a queue of 2, 2 guilds, 2 requests of 2 chunks | 240 k |
| `cache` | `MCCache` | stores and index agree, the cache is true and complete once all is delivered, each handler is idempotent | one or two entities of every scope, 7 themes, 2 changes, 1 dispatch ahead, 1 reconnect, 2 repeated, 2 ticks | 135 k |
| `shapes` | `MCShapes` | fields and reports of structures, permissions, queues of routes | 1 payload and 3 patches; 3 flags, 3 roles, 4 edits; 2 ids, tokens, emojis and codes, 2 requests | 957 k |

A property here may be a conjunction of named parts, each with its own comment in the module;
so `TimersAgree` is `StoppedIsQuiet` and `ReconnectIsArmed`, and `RoutesKeepApart`
is `QueuesAreApart`, `QueuesAreWhole`, `NothingLeaks` and `OnlyCallbacksOvertake`. Type invariants are conjuncts of these or are proved
(section 6), and are not checked by runs of their own.

Why the bounds are enough:

- *Shard.* A second slot shows every lost socket and a third the timeout left behind by the
  connection before it; slots are recycled, so the
  number of connections of a run is not bounded. With one allowed resume attempt
  and two retries, every limit is reached and stepped over. Three sequence
  numbers give READY, a dispatch, and RESUMED after it. `tries`, `attempt` and
  the history counters saturate where a larger value would make no comparison
  differ.
- *Queues.* Four callers put two waiters between a holder and a newcomer, so
  two adjacent ones can abort in either order.
- *Connection.* Seven ticks are more than two windows and two intervals; limit 3 with reserve
  2 gives commands one slot, so that they queue at once.
- *Limiters.* The log is longer than the ring, so the ring wraps.
- *Buckets.* Two requests in a queue and one on another major parameter show a
  migration with a request in flight on each side; three in one queue show an abort
between two others. Windows of two ticks tell
  "resets next tick" from "later". `buckets_shared` explores states without the
  history variables (`VIEW Pacing`); no action's guard reads
  one, and of its invariants only the conjunct of `TypeOK` on `told` does, which
  is therefore checked on the states that were explored.
- *InvalidRequests.* 14 ticks are more than two laps of the ring.
- *IdentifyThrottler.* Four grants per bucket accumulate what drift there is.
- *Fleet.* Two shards are the fewest of which one can be ready and the other
  not; a second login with a fleet of one replaces, adds, or comes too late.
- *Bridge.* A queue of two holds two dispatches that could change places, and a third
  overflows; with five dispatches that happens behind a READY, and again behind
  the next. Two sessions let a tracker, a reply and a backlog outlive their READY.
  Members and queue meet in READY only, so three dispatches (`MaxBusy`) are enough
  where there are member requests: a READY, a chunk, and the next READY or chunk.
- *Cache.* A guild has two channels, a thread, a message in each of channel and
  thread, and one of the rest; a second guild shows what evicting the first must not
  touch. Two changes and a reconnect are what it takes to lose a deletion,
  repeat a dispatch out of date, or change what was just deleted. A theme limits
  which scopes change in a behaviour, not which exist. `Ahead` drops from the
  state those handled dispatches that no resume can bring again.
- *Shapes.* Patches of a field interact with the value before only, so that three
  give every pair in both orders. Four edits overwrite a role, a member, and
  the cache in any order. A pair of requests is what `QueuesAreApart` and
  `QueuesAreWhole` compare, and every pair of all routes occurs.
- Symmetry is used on requests, senders, connections of the same shard, ids,
  tokens and roles, in runs without liveness only.

`CHECK_DEADLOCK FALSE` stands in the runs of modules whose clock, slots or log is
bounded, or in which the work may simply be done; the Shard runs check deadlock.

## 5. Fairness

`FairSpec` of `Shard`: timers fire (`ReconnectTimeout`, `HandshakeTimeout`,
the heartbeat's part of noticing silence), a pending store promise and a queued
handshake settle, and a socket that is connecting opens or fails. All of these
are promises of the runtime. Nothing is assumed of the peer: it may stay silent,
refuse, or send anything at any time. `QueueFairness` of `AsyncQueue`: a holder
releases (the `finally` of `SequentialHandler.queue`), and promise reactions
run. `FairSpec` of `Buckets`: time passes, and a request whose step is
enabled takes it; a response or a failure arrives (`REST` gives every request a
timeout). Aborts, sweeps and re-mappings are not fair.

`FairSpec` of `Fleet`: the request for the gateway's address ends, the store answers,
a shard that keeps trying is ready or resumed (which `Shard` retries for,
while nothing is fatal), the listeners a drain awaits end, and microtasks run. A
`destroy()` need not end: the store may keep it. `FairSpec` of `Bridge`: the
drain goes on, idle timers and request timers fire, and a send ends, because
`SendQueue` bounds it by a timeout and a closed connection rejects it. No guild,
chunk or dispatch need ever come.

## 6. The proofs

All proofs are checked by `tlapm` with no gap. Constants are arbitrary within the
named assumptions of their modules.

| module | proves | along |
|---|---|---|
| `ShardProofs` | `TypeOK` and `BoundedRetries` for any caller and store; under `SerialCaller` and `PromptStore`: `OneSocket`, `TimersAgree` with its two parts, `OnlyOpcode9LeavesTimeout`, `FatalIsTerminal`, `NoSkippedDispatch`, `SessionAgrees` | `SerialInv`, `SessionInv`, `RetriesCounted` |
| `FleetProofs` | `Fleet`: `DestroyStopsFleet`, `ReadyOnce`, and, of every step, `ReadyMeansEveryShard`; `GlobalLimiter`: `WindowRespected`, `BlockRespected`, together `LimitRespected`; `IdentifyThrottler`: `OnePerWindow`; `InvalidRequests`: `CountIsTrue`, `SpanBounded` | `FleetInv`; `LimiterInv`, `ThrottlerInv`, `OneLap`, `Budgeted` |
| `ConnectionProofs` | of `SendQueue`: `WindowRespected`, `BeatFindsSlot`; of `Heartbeater`: `HealthyIsKept`, `SilenceIsFound`, `NeverStarved`; `Connection` implements both, so `Allowance` and `Liveliness`, which are their properties, hold of it; `CommandsNeverKill` | `WindowInv`, `BeatInv`, step simulation, `ReserveInv` |
| `SequentialHandlerProofs` | `AsyncQueue`: `MutualExclusion`, `SizeCounts`, and it implements `FifoLock`; `Buckets`: `TypeOK`, each of its queues implements `FifoLock`, `RetriesAfterReset`; if every route has a bucket of its own: `KnownExhaustedRespected`, `NeverRefused`; `Routes`: `RoutesKeepApart` for any segments | `ChainInv`; `OneAtWork`, `RefusalsHeard`; `OnePlace`, `ToldIsRespected`, `SpentIsKnown`; `KeyIsOneQueue`, `RoutesInv` |
| `SlidingWindowProofs` | lemmas on the ring: what `Recorded` keeps, what `Delay = 0` means | - |
| `CoreProofs` | `Bridge` implements `Delivery` in direct and in serial mode (`InOrder`); `SessionsAreTold`, `RepliesMatch`; of `Permissions`: the types, and `NeverOverstated` for any flags, roles, overwrites and contents of the cache; `StructuresAgree` for any number of patches | `Sorted`, `InStep`, `Numbered`, `OneTracker`; what each stage grants, flag by flag; `StructureInv` and one lemma per class on its tables |
| `HandlersProofs` | lemmas on the cache, for any entities, places and policies: each operation of a store and each handler keeps the stores sound (`HandleSound`), and most handlers, given their payload twice, change nothing the second time (`DeleteTwice`, `RoleDeleteTwice`, `VoiceStateTwice`, ...) | an invariant of one store; what an operation does to one key; `Stays`, `Settled`, `Lost` |
| `CacheProofs` | for any entities, places, policies and histories of dispatches: `StoresAreSound`; what the cache holds once all is applied is true (`InSync`) and whole (`NothingLost`); every handler is idempotent (`TwiceIsOnce`) | `SyncInv`; `TruthInv`, `Does` of each handler, `Speaks` of each dispatch; `Accepting` |

The type invariant of each of these modules is proved as well, except of
`CacheSync` and `Structures`, for which `SyncInv` with `TruthInv`, and `StructureInv`, say what their state is.

*`SerialInv`.* `OneSocket` alone is not inductive: a step preserves it only if
the one socket is the one `#connection` names, so the invariant adds that a free slot is
blank, that each state has exactly the connection, timers and suspended calls it
may have (`ConnectionMatchesState`, `TimersMatch`, `CallsMatch`), and that a
socket that said Hello has no handshake timeout any more, and one that did not has
nothing else (`HelloMatches`): so it can only be an opcode 9 before Hello that leaves a
timeout behind.
The two assumptions are needed: section 7 has the runs that break the properties
without them. `SessionInv` adds to it what a session record may claim: no more
than was delivered of the session it names. `RetriesCounted` ties the attempt
counter to the retries made since the last session.

*`FleetInv`.* What `destroy()` reaches is what is in the map when it runs, so the
invariant says what each shard outside of it is (`MadeFirst`, `Kept`, `Ended`):
replaced by a later login, made too late, or stopped. `OneFleet` says whose
shards the readiness count is about.

*`WindowInv`, `LimiterInv`.* `Spaced(log)` says nothing about the ring, so the invariant
adds that the ring is the tail of the log (`RingHolds`) and that the log is in order of time;
for `BeatFindsSlot` also that commands are spaced as if the limit were
`Limit - Reserve`. `ReserveInv` counts what beats and commands can have in the
ring together: the beats of the timer are an interval apart, so that a window has few, and those the
peer asked for are counted, from before Hello on.

*`BeatInv`.* The timer is never set past the moment the last beat has been out for an
interval; an awaited acknowledgement is in flight unless the peer is gone. It says so
from Hello on: a beat asked for before may be awaited without end, as no timer
runs, until `start()` forgets it. Its slot stays taken.

*`OneLap`, `Budgeted`.* A slot of the ring counts the responses of one epoch, the
last that wrote it; the sum of the slots is then the number of responses in the epochs that the window spans. That
is a fact about a recursive sum, proved by taking the
smallest set for which it fails (`SumIsCount`). `Budgeted` counts the requests let through
and not yet answered towards `SpanBounded`.

*`Sorted`, `InStep`, `Numbered`, `OneTracker`.* The queue and what was delivered are
in the order of arrival; a pending request has one promise, timer and nonce; and at most one tracker, that of the
last READY, can still speak for its guilds.

*`ChainInv`.* Promises of the chain resolve in order, each caller in line has a slot of
its own that is neither resolved nor waiting to be forwarded, and the slot before
a holder's is resolved. The refinement mapping to `FifoLock` sends `ahead` to the
callers in line with smaller slots.

*`Buckets`.* Two invariants hold whatever buckets the routes share and move to:
`OneAtWork`, that those who are past the line have nobody ahead and of two in one queue
one is ahead of the other, which gives the lock; and `RefusalsHeard`, that an
answer that is still true of its window sleeps at least as long as the window is open.
What a client knows of a bucket is another matter: with a shared bucket a merge can
take a state out of the registry while a request holds it, and
`KnownExhaustedRespected` fails (section 7). `ExhaustedIsRespected` and
`RefusedOnlyUnheard` therefore assume `OwnBuckets`, routes whose bucket is theirs alone
and stays so. Then there is one state per bucket, which is under the hash as soon as
that is known (`OnePlace`); once an answer was seen that says that nothing is left, the state
says so until the reset, and nobody is past the check (`ToldIsRespected`); and if nothing is left
at Discord, that is known or an answer on its way says it, unless a request was
counted whose headers nobody saw (`SpentIsKnown`).

*`SyncInv`.* `StoresAreSound` forgets what its operations rely on. `StoreInv` adds that a
store has one entry per key and, which `Set` and `Swept` depend on, that its entries are in
the order of their deadlines, for every entry gets the same time to live and goes to the end
when it is written; and that the index is exactly the pairs that `GroupOf` gives the entries'
keys. Each operation of `CacheStore` keeps it (`SetSound`, `LookSound`, ...), so each handler does
(`GuildCreateSound`, ...) for whatever payload comes, also one that Discord would not send: the theorem
does not ask that dispatches be in order, or sent once, or told of a world that was.
It asks of the constants that entities are finitely many (a GUILD_CREATE lists them) and that a policy
is one `resolveCachePolicy` returns.

*`TruthInv`.* `InSync` and `NothingLost` speak of the moments when every dispatch has been applied;
to hold then, the dispatches on their way have to be worth waiting for. So the invariant says the
same of every moment, of a cache that is behind: what is held of an entity that exists is so, part by part, or a
dispatch that was not yet applied tells that part anew (`HeldTrue`); what is held and does not exist, one
of them takes away; what exists and is to be kept is held, or one of them puts it
(`HeldWhole`). A resume takes `applied` back, and dispatches that were true once are applied again, so the same has to hold of
the log itself at each of its places: what a dispatch tells is so, or a later one says otherwise
(`LogTrue`). The two are about the log and the cache separately, and a step extends one or
the other. Of Discord's steps `Speaks` says what the dispatch has to tell of each
entity for both to survive the change (`SpokenLog`, `SpokenHeld`); each kind of change has a lemma that
its dispatch does (`GoneSound`, `SnapshotSpeaks`, ...). Of the handlers `Does` says what
one does to each entity in terms of the payload alone: which it puts (`Raises`), which parts of it it tells
(`Tells`), which it takes away (`Kills`); each has a lemma that it does (`ChannelUpdateDoes`,
`GuildCreateDoes`, ...). `Kills` of a GUILD_CREATE is what the reconciliation
is for: without it what was deleted while no session was on would never be ended.
Parts, because CHANNEL_PINS_UPDATE, THREAD_MEMBERS_UPDATE and
GUILD_ROLE_DELETE patch one field of what another dispatch replaces.
What the two properties leave out is what the code gives no better answer to (`missed`, `stray`, `converted`, section 7).
They do not leave out a guild in an outage: its entities are as they were, or `missed`.
Of the constants the proof asks that entities have their places (`PlacesAssumption`: a thread is in a
channel, a member in a guild, and what is in a channel is in its guild) and that what exists at first, and what a guild
brings along when the bot joins it, is in places that exist (`FoundingAssumption`). A direct
channel is opened while the bot runs: one that was there before is in no
GUILD_CREATE, and the cache hears of it with the next CHANNEL_CREATE.

*`Accepting`, `Stays`.* `TwiceIsOnce` compares caches entry by entry, so it is not enough to know
what a handler does to each entity: the order of the entries, which decides what is evicted
next, has to be the same. What a handler puts goes to the end of its store, in the order in which it is put,
and pushes out the oldest; so once it is done, the end of the store is what was put
last, in that order, and nothing of it is missing unless nothing else is left (`Stays`, from `Ends`, which
every write of a series keeps). Writing that again only turns the end of the store round once (`PutAgain`): the
proof counts, since a write into a full store evicts what the next one brings back. A reconciliation looks up the group first,
which drops what has expired, and deletes what was not sent; after it there is nothing left to drop or delete
(`Settled`), and the same with guilds, channels and members that are evicted (`Left`, `Unheld`, `Out`). The
steps of a handler work on different stores, so each leaves what the earlier ones settled as it is
(`Only`); in a GUILD_CREATE channels and threads are exceptions, because to evict a channel takes its
threads along, and that needs the places of what is sent (`Proper`).
All this holds of any cache with `TruthInv` and of any payload that is well formed, with one exception: a MESSAGE_UPDATE
that carries nothing but IDs writes again what is cached, so if the policy did not accept that, the first of the two
would take it away and the second would put an empty message. That this does not happen is `Accepting`: nothing
assigns to messages that are cached, and what is put is accepted.

*`NeverOverstated`* follows from the types alone: `BaseIsSound`, `OverwritesAreSound`
and `ComputationIsSound` say what each stage of the calculation grants, flag by
flag, and how that compares with Discord's rule if the cache is complete or not.

*`StructureInv`.* What a patch does to a structure depends on which fields it has, so the
invariant adds to `StructuresAgree` that it has every mirrored field that is followed, and
`partial` only with what that is derived from. What a class's tables have to be like is two conditions on them:
`Builds`, that the constructor gives each field the shape its payload has, and `Patches`,
that `patch` shapes a field as the constructor does, leaves it alone when it is absent from the payload only
if absence there means unchanged, and records the changes of the fields that
`ChangeField` names and no others, compared as their kind of value asks. Each class has a lemma that
its tables meet them, the second if it has a `patch` (`GuildTables`, `MessageTables`, ...; `TablesHold` for all), and only
these lemmas look into `Fields`: a field added to a class with the wrong treatment breaks its lemma.
That the reports add up is `FormerMoves`: a report put at the end of the others
takes the place of the structure as what the field was before.

*`RoutesInv`.* That two requests have one key exactly if they are of one endpoint, under one
channel, guild or webhook, and name the same invite code and poll answer if any
(`KeyIsOneQueue`), is a fact about paths: the replacements of `getIdentity` look at a segment's
shape and place, so `KnownPath` says which kind of segment stands where, each family has a lemma that its paths
are such (`GuildsKnown`, `WebhookMessagesKnown`, ...; `EndpointsKnown` for all), and only these
lemmas look into the table: an endpoint whose path is sorted wrongly breaks its lemma. `CollapsedIs` and
`RoutesOfOneMethod` then say what a route is, segment by segment. The invariant adds that a handler serves one key, and that a sweep
leaves the handler of a request that waits. The proof is for any snowflakes, tokens, emojis and codes, told
apart from each other and from the words of the paths (`SegmentsAssumption`): a
vanity code that is digits alone or spelled like one of these words is outside of it.

Only model-checked: liveness (`ReconnectingEnds`, `SilentPeerNoticed`,
`NobodyIsStranded`, `EveryRequestEnds`, `LoginSettles`,
`ReadyIsAnnounced`, `GuildsAreTold`, `RequestsEnd`), which TLAPS does not do under
fairness. Every other property of a passing run is a theorem. A theorem of the library that proves by
induction takes an operator as its parameter, which the provers cannot instantiate; where a
proof here needs induction it takes the smallest counterexample instead.

## 7. Where code and comments disagree

One disagreement is a run and is listed as a finding:

- `shard_stopped_reconnects`: `destroy()` clears its timers, then awaits the
  store; a close event meanwhile arms a reconnect that nothing clears, and the
  shard, set to closed, connects again.

Others come of the constants and the specification of a configuration, of a run or
kept beside the runs, with the changes named, if it checks one property, which TLC finds violated:

| configuration | property | what happens |
|---|---|---|
| `shard_safety.cfg`, `SerialCaller = FALSE`, `MaxTimers = 1` | `OneSocket` | `connect()` passes its test, awaits the store, and a reconnect timer opens a socket meanwhile: two sockets, one of them unowned |
| `shard_safety.cfg`, `PromptStore = FALSE` | `FatalIsTerminal` | a fatal close during `destroy()`'s await is overwritten by closed, so `connect()` is allowed again |
| `shard_safety.cfg`, `CapAttempt = 2` | `GaveUpAfterAttempts` | close code 4008 moves the attempt counter to the cap, so the shard gives up before it made `maxAttempts` attempts |
| `shard_safety.cfg` | `ResumesBounded` | resume attempts are counted at Hello: sockets that fail before Hello try the same session without limit |
| `shard_safety.cfg` | `NoStaleHandshakeTimer` | an opcode 9 before Hello closes the connection and leaves its handshake timeout armed: it looks at the state alone when it fires, and abandons the next connection |
| `shard_liveness.cfg` | `HandshakeEnds` | the handshake timeout fires while the socket is connecting; then it opens, Hello never comes, and nothing bounds the wait |
| `shard_liveness.cfg` | `ClosingEnds` | after opcode 7 or back-pressure the heartbeat is stopped and a peer that vanished never closes |
| `buckets_overspent.cfg` | `NeverOverspent` | the allowance is spent before sending, so that two routes of one bucket do not both send into it; but waits stand between check and spending, and both pass |
| `buckets_overspent.cfg` | `KnownExhaustedRespected` | a merge takes a state out of the registry while a request holds it; its headers are then written where nobody looks |
| `buckets_alone.cfg`, `Majors = {mj1}`, `Hashes = {h1, h2}`, `Requests = {q1, q2}`, `Of <- AloneOf`, `Moving = {rt1}` | `KnownExhaustedRespected` | Discord moves a route to another bucket while a request is in flight, and headers of the new bucket go to the state of the old |
| `buckets_overspent.cfg` | `FreshUntilTold` | a request that slept assumes a fresh allowance although another route's response said otherwise meanwhile |
| `windows.cfg`, `InFlight = 1` | `LessThanTwice` | since one slot is partial, a real window can hold twice the threshold |
| `fleet_runs_after_destroy.cfg` | `StopsForGood` | `destroy()` while `login()` awaits the gateway's address or the store: the shards made afterwards, and the sweeper, run on |
| `fleet_serial_waits.cfg` | `WhenReadyResolves` | in serial mode `allReady` comes before the last shard is announced; `whenReady()` called in between misses both and never ends |
| `fleet_resumed_hangs.cfg` | `LoginResolves` | a shard that resumes a stored session is never `ready`, so `login()` waits although the shard is up |
| `bridge.cfg` | `ReadyAlwaysAnnounced` | a READY without guilds emits `shardGuildsReady` before it is queued or routed: a listener that throws keeps it from the handler and from `onReady`, while a listener that throws anywhere else does not |
| `bridge.cfg` | `NeverSurfaces` | a member request is rejected (a new READY, its timer) while its send is awaited, and its promise has no handler yet: an unhandled rejection |
| `shapes.cfg` | `OneQueueEach` | invite codes and numbers of poll answers are not normalised, so two invites, or two answers of one poll, are asked for through two queues, though a hash, once told, is one for both: two queues that run one bucket concurrently, which is what `getHandlerKey` means to prevent |

Met while modelling, and part of the models as the code has them:

- *Cache.* A CHANNEL_UPDATE with a new type evicts the channel, and with it the
  threads and messages that still exist (`converted` in `CacheSync`). Messages of a
  thread that is not cached any more stay when its channel is deleted (`stray`);
  THREAD_LIST_SYNC deletes threads and leaves their messages. A guild that was
  left while no session was on stays for ever, unlike
  `docs/design/phase-4-core.md` section 4.14, whose `CacheReconciler` does not
  exist (`missed`). Typing, reactions and GUILD_CREATE replace a cached member's
  object rather than patch it.
- *Router.* A listener of `raw` that throws skips the handler of that dispatch,
  so that a READY may leave `client.user` unset (`throws` in `Fleet`).
- *Member requests.* The gate of RATE_LIMITED goes when the send of the request
  that set it fails. `shardGuildsReady` is told in the step that resolves the last
  guild, before that guild is routed.
- *Structures.* `Message.partial` looks at author and content only, while
  `isComplete()` promises "every mirrored field". `Message.member` is set when
  the message is built and not patched. A user that rides along without a
  `banner` or `accent_color` clears them, and a THREAD_UPDATE without
  `member_count` clears the count.
- *Permissions.* In a thread the overwrites used are the thread's own, which are
  empty, and not its channel's.
- *Routes.* Invite codes and the numbers of poll answers are not normalised, so each one makes
  a handler of its own until it is swept (`OneText` in `Routes`). Before a hash is
  known, and where Discord lets endpoints share one, the keys are guesses, as `REST.ts` says.

## 8. What is not modelled

- *Within the modelled parts:* jitter and lengths of delays (any order of timers is
  allowed instead), payload size checks, byte counters (back-pressure is a
  choice), the latency figure and drift report, store writes that overtake each
  other (`ShardSession.ts:102`), a decompressor that fails after its connection
  was disposed of (`ShardConnection.ts:76`), a WebSocket constructor that throws,
  `rateLimitOffset` (taken as 0), interaction callbacks (they bypass the queue; `Routes`
  has which they are). `GlobalLimiter`, `InvalidRequests` and `Buckets` are
  not composed, although `SequentialHandler` asks them one after the other.
- *REST:* headers, bodies, queries, multipart forms, and the errors made of
  responses: no state, and no order.
- *Client:* shortcuts to routes, presence, options. *Structures:* getters, CDN links,
  replies of an interaction, which call routes. *Handlers* that only emit change
  nothing that is modelled. *Types:* which fields may be absent is modelled,
  the rest is erased at run time.
- *Compression and encoding:* streams of `node:zlib`; that they deliver in order is an assumption.
- *The `vestra` package, scripts:* re-exports and tools.

## 9. The plan

Done: the modules of section 3, from the shard to the structures, and the proofs
of section 6. Left, in this order:

1. `Admission` - `GlobalLimiter`, `InvalidRequests` and a bucket composed as
   `SequentialHandler` asks them, with the time that passes between the answers.
2. `REST` - a response through `#parse` to the error it becomes, if a property
   worth checking is found.

## 10. How to run it

In this directory:

    tlc -workers 2 -config shard_safety.cfg MCShard.tla     # any run: cfg and module of PROJECT.json
    tlapm ShardProofs.tla                                   # any *Proofs module
