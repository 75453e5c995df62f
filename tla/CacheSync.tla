----------------------------- MODULE CacheSync -----------------------------
(***************************************************************************)
(* The cache and the gateway that keeps it up to date.  The guilds, and    *)
(* all that is in them, change; a session announces each change by a       *)
(* dispatch, and the handlers apply those in order.  A resume delivers     *)
(* some again, a new session and an outage lose some, and GUILD_CREATE     *)
(* makes up for it; meanwhile time passes and the sweeper runs.            *)
(***************************************************************************)
EXTENDS Handlers

CONSTANTS
  Themes,      \* the policies, the scopes that change and whether members are sent
  Founding,    \* the version of each entity at first, Gone of those that are yet to come
  MaxChanges, MaxPending, MaxReconnects, MaxReplayed, MaxTime   \* bounds of the model

ASSUME ThemesAssumption == \A it \in Themes : it.policy \in DOMAIN Policies

Gone == -1
\* What exists at first has its place; guilds and users do, and the bot is one of them.  A
\* channel of no guild, which no GUILD_CREATE describes, is yet to be opened.
ASSUME FoundingAssumption ==
  /\ Founding \in [Things -> 0 .. 7 \cup {Gone}]
  /\ \E me \in Things : In("self", Things) = {me}
  /\ \A k \in Things :
       /\ Scope[k] = "members" => Founding[k] \in {0, Listing, Gone}
       /\ Scope[k] \in {"guilds", "users", "self"} => Founding[k] # Gone
       /\ Scope[k] = "channels" /\ Guild[k] = NoGroup => Founding[k] = Gone
       /\ Founding[k] # Gone =>
            \A x \in {Guild[k], Parent[k], Member[k]} \ {NoGroup} : Founding[x] # Gone

VARIABLES
  world,      \* the version of each entity as Discord knows it
  outage,     \* the guilds that are unavailable
  log,        \* the dispatches of this session, from its READY
  applied,    \* how many of them the handlers have applied
  cache,
  now,
  sweeping,   \* CacheSweeper.running
  theme, changes, reconnects,   \* what changes, and how often so far
  missed,     \* what changed since no dispatch of this session has told
  stray,      \* cached messages of a thread that is not cached
  converted   \* threads that went from the cache as their channel changed its type

worldVars == <<world, outage, log, theme, changes, missed>>
cacheVars == <<cache, now, sweeping>>
vars == <<worldVars, cacheVars, applied, reconnects, stray, converted>>

-----------------------------------------------------------------------------
(* Discord.                                                                *)

Exists(k) == world[k] # Gone
Inside(k) == {x \in Things : x # k /\ (Guild[x] = k \/ Parent[x] = k \/ Member[x] = k)}
Below(k) == {k} \cup Inside(k) \cup UNION {Inside(x) : x \in Inside(k)}

\* A place for k: its guild, and its channel, thread or membership.
HasPlace(k) ==
  \A x \in {Guild[k], Parent[k], Member[k]} \ {k, NoGroup} : Exists(x)

Dispatch(event, k, w, ks, of, about) ==
  [event |-> event, key |-> k, w |-> [x \in ks |-> w[x]], of |-> of, about |-> about]

Present(w, ks) == {k \in ks : w[k] # Gone}
Of(scope, g) == {k \in In(scope, Things) : Guild[k] = g}
ActiveThreads(w, g) == {t \in Present(w, Of("threads", g)) : ~Archived(w[t])}
Users(ks) == {User[m] : m \in In("members", ks)}

\* GUILD_CREATE carries all of a guild but its messages and archived threads, and of its
\* members all or, without the intents, none.
Snapshot(w, g) ==
  LET all == ActiveThreads(w, g) \cup
             {k \in Present(w, Below(g)) : Scope[k] \notin {"threads", "messages"}}
      ks == IF theme.members THEN all
            ELSE {k \in all : Scope[k] \notin {"members", "presences"}}
  IN Dispatch("GUILD_CREATE", g, w, ks \cup Users(ks), {}, {})

\* What was missed and the handlers make good of: it is what such a dispatch is about.
Told(d) ==
  IF d.event # "GUILD_CREATE" THEN {}
  ELSE DOMAIN d.w \cup {k \in Things : /\ Guild[k] = d.key
                                         /\ Scope[k] \notin {"members", "presences", "messages"}}
Telling(d, unknown) == [d EXCEPT !.about = @ \cup (unknown \cap Told(d))]

Send(d) ==
  /\ Len(log) - applied < MaxPending
  /\ log' = Append(log, Telling(d, missed))
  /\ missed' = missed \ Told(d)

Say(d) ==
  IF Guild[d.key] \in outage THEN missed' = missed \cup d.about /\ UNCHANGED log ELSE Send(d)

\* Something happens to k, which is then v, and Discord says so.
Happens(k, v, event, carried, of) ==
  LET about == IF v = Gone THEN Below(k) ELSE {k}
      w == [x \in Things |-> IF x \in about THEN v ELSE world[x]]
  IN /\ changes < MaxChanges /\ Scope[k] \in theme.scopes
     /\ changes' = changes + 1
     /\ world' = w
     /\ Say(Dispatch(event, k, w, Present(w, carried), of, about))
     /\ UNCHANGED <<outage, theme, cacheVars, applied, reconnects, stray, converted>>

Flip(v) == IF v % 2 = 0 THEN v + 1 ELSE v - 1
Turn(v) == (v + 4) % 8
Recount(v) == WithCount(v, 1 - Count(v))

Appears(k, event, carried) == ~Exists(k) /\ HasPlace(k) /\ Happens(k, 0, event, carried, {})
Changes(k, event, carried) == Exists(k) /\ Happens(k, Flip(world[k]), event, carried, {})
Goes(k, event, carried, of) == Exists(k) /\ Happens(k, Gone, event, carried, of)

WithUser(m) == {m, User[m]}

GuildChanges ==
  \E g \in In("guilds", Things) :
    \/ Changes(g, "GUILD_UPDATE", {g})
    \/ Goes(g, "GUILD_DELETE", {}, {})

ChannelChanges ==
  \E k \in In("channels", Things) :
    \/ Appears(k, "CHANNEL_CREATE", {k})
    \/ Guild[k] # NoGroup /\ Changes(k, "CHANNEL_PINS_UPDATE", {k})
    \/ Exists(k) /\ Happens(k, Turn(world[k]), "CHANNEL_UPDATE", {k}, {})
    \/ Goes(k, "CHANNEL_DELETE", {}, {})

ThreadChanges ==
  \E k \in In("threads", Things) :
    \/ Appears(k, "THREAD", {k})
    \/ Changes(k, "CHANNEL_PINS_UPDATE", {k})
    \/ Exists(k) /\ Happens(k, Recount(world[k]), "THREAD_MEMBERS_UPDATE", {k}, {})
    \/ Exists(k) /\ Happens(k, Turn(world[k]), "THREAD", {k}, {})
    \/ Goes(k, "THREAD_DELETE", {}, {})

MessageChanges ==
  \E k \in In("messages", Things) :
    \/ Appears(k, "MESSAGE_CREATE", {k, User[k]})
    \/ Changes(k, "MESSAGE_UPDATE", {k, User[k]})
    \/ Goes(k, "MESSAGE_DELETE", {}, {k})

\* The deletion of a role takes it from the members as well.
RoleChanges ==
  \E k \in In("roles", Things) :
    \/ Appears(k, "GUILD_ROLE", {k})
    \/ Changes(k, "GUILD_ROLE", {k})
    \/ /\ Exists(k) /\ changes < MaxChanges /\ "roles" \in theme.scopes
       /\ changes' = changes + 1
       /\ LET listing == {m \in Of("members", Guild[k]) : world[m] = Listing}
              w == [x \in Things |-> IF x = k THEN Gone ELSE IF x \in listing THEN 0 ELSE world[x]]
          IN /\ world' = w
             /\ Say(Dispatch("GUILD_ROLE_DELETE", k, w, {}, {}, {k} \cup listing))
       /\ UNCHANGED <<outage, theme, cacheVars, applied, reconnects, stray, converted>>

\* A member may list a role that exists, and is seen typing or reacting.
MemberChanges ==
  \E m \in In("members", Things) :
    \/ Appears(m, "MEMBER", WithUser(m))
    \/ /\ world[m] = Listing \/ Present(world, Of("roles", Guild[m])) # {}
       /\ Changes(m, "MEMBER", WithUser(m))
    \/ Exists(m) /\ Happens(m, world[m], "MEMBER", WithUser(m), {})
    \/ Goes(m, "GUILD_MEMBER_REMOVE", {User[m]}, {})

UserChanges ==
  \/ \E u \in In("users", Things) : Changes(u, "USER_SEEN", {u})
  \/ \E u \in In("self", Things) : Changes(u, "SELF", {u})

PresenceChanges ==
  \E k \in In("presences", Things) :
    Appears(k, "PRESENCE_UPDATE", {k}) \/ Changes(k, "PRESENCE_UPDATE", {k})

VoiceChanges ==
  \E k \in In("voiceStates", Things) :
    LET carried == {k} \cup WithUser(Member[k])
    IN \/ Appears(k, "VOICE_STATE_UPDATE", carried)
       \/ Changes(k, "VOICE_STATE_UPDATE", carried)
       \/ Goes(k, "VOICE_STATE_UPDATE", carried, {})

\* Emojis and stickers are told as the whole set of a guild, under the guild's key.
ExpressionChanges ==
  \E k \in In("emojis", Things) \cup In("stickers", Things) :
    \E v \in IF ~Exists(k) THEN {0} ELSE {Flip(world[k]), Gone} :
      LET w == [world EXCEPT ![k] = v]
          event == IF Scope[k] = "emojis" THEN "GUILD_EMOJIS_UPDATE" ELSE "GUILD_STICKERS_UPDATE"
      IN /\ changes < MaxChanges /\ Scope[k] \in theme.scopes /\ HasPlace(k)
         /\ changes' = changes + 1
         /\ world' = w
         /\ Say(Dispatch(event, Guild[k], w, Present(w, Of(Scope[k], Guild[k])), {}, {k}))
         /\ UNCHANGED <<outage, theme, cacheVars, applied, reconnects, stray, converted>>

\* Dispatches that tell what has not changed: an update of the embeds of a message, the active
\* threads of some channels, and pins of which nothing is said, or in a channel of no guild,
\* which keeps none.
Again ==
  \/ \E k \in In("messages", Things) : \E w \in {[world EXCEPT ![k] = Stub]} :
       /\ Exists(k) /\ "messages" \in theme.scopes /\ changes < MaxChanges
       /\ Say(Dispatch("MESSAGE_UPDATE", k, w, {k}, {}, {}))
       /\ changes' = changes + 1
       /\ UNCHANGED <<world, outage, theme, cacheVars, applied, reconnects, stray, converted>>
  \/ \E g \in In("guilds", Things) : \E of \in SUBSET Present(world, Of("channels", g)) \ {{}} :
       /\ Exists(g) /\ "threads" \in theme.scopes /\ changes < MaxChanges
       /\ Say(Dispatch("THREAD_LIST_SYNC", g, world,
                       {t \in ActiveThreads(world, g) : Parent[t] \in of}, of, {}))
       /\ changes' = changes + 1
       /\ UNCHANGED <<world, outage, theme, cacheVars, applied, reconnects, stray, converted>>
  \/ \E k \in In("channels", Things) \cup In("threads", Things) : \E ks \in SUBSET {k} :
       /\ Exists(k) /\ Scope[k] \in theme.scopes /\ changes < MaxChanges
       /\ ks = {} \/ Guild[k] = NoGroup
       /\ Say(Dispatch("CHANNEL_PINS_UPDATE", k, [world EXCEPT ![k] = Flip(@)], ks, {}, {}))
       /\ changes' = changes + 1
       /\ UNCHANGED <<world, outage, theme, cacheVars, applied, reconnects, stray, converted>>

\* A guild is unavailable for a while, and then described again.
Outage ==
  \E g \in In("guilds", Things) :
    /\ Exists(g) /\ g \notin outage /\ "guilds" \in theme.scopes /\ changes < MaxChanges
    /\ Say(Dispatch("GUILD_UNAVAILABLE", g, world, {}, {}, {}))
    /\ outage' = outage \cup {g}
    /\ changes' = changes + 1
    /\ UNCHANGED <<world, theme, cacheVars, applied, reconnects, stray, converted>>

Return ==
  \E g \in outage :
    /\ outage' = outage \ {g}
    /\ IF Exists(g) THEN Send(Snapshot(world, g)) ELSE UNCHANGED <<log, missed>>
    /\ UNCHANGED <<world, theme, changes, cacheVars, applied, reconnects, stray, converted>>

\* The bot joins a guild.
Join ==
  \E g \in In("guilds", Things) \ outage :
    LET w == [k \in Things |-> IF k \in Below(g) THEN Founding[k] ELSE world[k]]
    IN /\ ~Exists(g) /\ "guilds" \in theme.scopes /\ changes < MaxChanges
       /\ world' = w
       /\ Say(Snapshot(w, g))
       /\ changes' = changes + 1
       /\ UNCHANGED <<outage, theme, cacheVars, applied, reconnects, stray, converted>>

\* READY and a GUILD_CREATE of each guild.
Session(w, unknown) ==
  LET guilds == SetToSeq(Present(w, In("guilds", Things)))
      selves == SetToSeq(In("self", Things))
  IN [i \in DOMAIN selves |-> Dispatch("SELF", selves[i], w, {selves[i]}, {}, {})]
     \o [i \in DOMAIN guilds |-> Telling(Snapshot(w, guilds[i]), unknown)]

\* The session is lost with what it had yet to deliver, and a new one begins.
Identify ==
  LET unknown == missed \cup UNION {log[i].about : i \in applied + 1 .. Len(log)}
      session == Session(world, unknown)
  IN /\ reconnects < MaxReconnects
     /\ reconnects' = reconnects + 1
     /\ log' = session
     /\ applied' = 0
     /\ outage' = {}
     /\ missed' = unknown \ UNION {Told(session[i]) : i \in DOMAIN session}
     /\ UNCHANGED <<world, theme, changes, cacheVars, stray, converted>>

\* A resume names a sequence number that is behind what was handled.
Resume ==
  /\ reconnects < MaxReconnects /\ applied > 0
  /\ reconnects' = reconnects + 1
  /\ applied' \in {i \in applied - MaxReplayed .. applied - 1 : i >= 0}
  /\ UNCHANGED <<worldVars, cacheVars, stray, converted>>

-----------------------------------------------------------------------------
(* The client.                                                             *)

\* EventRouter.route, to the handler of the event.
Route ==
  /\ applied < Len(log)
  /\ LET d == log[applied + 1]
         after == Handle(cache, d, now)
     IN /\ cache' = after
        /\ converted' = IF d.event = "CHANNEL_UPDATE"
                        THEN converted \cup (Keys(cache.stores["threads"])
                                              \ Keys(after.stores["threads"]))
                        ELSE converted
  /\ applied' = applied + 1
  /\ stray' = stray \cup {x \in Keys(cache.stores["messages"]) :
                            /\ Scope[Parent[x]] = "threads"
                            /\ Parent[x] \notin Live(cache.stores["threads"], now)}
  /\ UNCHANGED <<worldVars, now, sweeping, reconnects>>

Needed == \E scope \in Scopes : Expiring(cache, scope)

\* CacheSweeper.start, stop and the timer, which is armed again if it was not stopped.
StartSweeper ==
  /\ ~sweeping /\ Needed
  /\ sweeping' = TRUE
  /\ UNCHANGED <<worldVars, cache, now, applied, reconnects, stray, converted>>

StopSweeper ==
  /\ sweeping
  /\ sweeping' = FALSE
  /\ UNCHANGED <<worldVars, cache, now, applied, reconnects, stray, converted>>

SweeperFires ==
  /\ sweeping
  /\ cache' = Sweep(cache, now)
  /\ UNCHANGED <<worldVars, now, sweeping, applied, reconnects, stray, converted>>

Tick ==
  /\ Needed /\ now < MaxTime
  /\ now' = now + 1
  /\ UNCHANGED <<worldVars, cache, sweeping, applied, reconnects, stray, converted>>

Init ==
  /\ theme \in Themes
  /\ world = Founding /\ outage = {}
  /\ log = Session(Founding, {}) /\ applied = 0
  /\ cache = [policy |-> theme.policy, stores |-> [scope \in Scopes |-> EmptyStore], self |-> Gone]
  /\ now = 1 /\ sweeping = FALSE
  /\ changes = 0 /\ reconnects = 0
  /\ missed = {} /\ stray = {} /\ converted = {}

Next ==
  \/ GuildChanges \/ ChannelChanges \/ ThreadChanges \/ MessageChanges \/ RoleChanges
  \/ MemberChanges \/ UserChanges \/ PresenceChanges \/ VoiceChanges \/ ExpressionChanges
  \/ Again \/ Outage \/ Return \/ Join \/ Identify \/ Resume
  \/ Route \/ StartSweeper \/ StopSweeper \/ SweeperFires \/ Tick

Spec == Init /\ [][Next]_vars

-----------------------------------------------------------------------------
\* Each store keeps to its policy, and its index, which is updated after the adapter has
\* evicted, knows the group of exactly its entries; a sweep leaves nothing expired.
StoresAreSound ==
  \A scope \in Scopes : StoreOK(Policies[cache.policy][scope], cache.stores[scope], GroupOf, now)

Synced == applied = Len(log)

\* Once all is delivered the cache tells the truth: what it holds is there and is so,
\* except what changed while nobody was told, and what no dispatch describes again.
InSync ==
  Synced =>
    /\ cache.self \in {world[k] : k \in In("self", Things)}
    /\ \A scope \in Scopes : \A k \in Live(cache.stores[scope], now) \ (missed \cup stray) :
         Exists(k) /\ Value(cache.stores[scope], k) \in {world[k], Stub}

KeepsAll(p) == p.enabled /\ Unbounded(p) /\ p.ttl = 0 /\ 0 .. 7 \subseteq p.accepts

\* And the whole truth, in the scopes that are described in full and kept without bounds.
NothingLost ==
  Synced =>
    \A k \in Things \ (missed \cup converted) :
      /\ Exists(k)
      /\ \/ Scope[k] \in {"guilds", "channels", "roles", "emojis", "stickers", "voiceStates"}
         \/ Scope[k] = "threads" /\ ~Archived(world[k])
      /\ KeepsAll(Policies[cache.policy][Scope[k]])
      => k \in Live(cache.stores[Scope[k]], now)

\* "Applying the same payload twice then leaves the cache in the same state as applying it
\* once, for every handler": R3 of docs/design/phase-4-core.md.
TwiceIsOnce ==
  applied < Len(log) =>
    LET once == Handle(cache, log[applied + 1], now)
    IN Handle(once, log[applied + 1], now) = once
=============================================================================
