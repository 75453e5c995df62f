------------------------------ MODULE Handlers ------------------------------
(***************************************************************************)
(* What each dispatch does to the cache: the handlers of packages/core/src *)
(* /events/handlers over the stores of CacheRegistry.  A handler is a      *)
(* function of the cache and the payload.  An entity is its key, and its   *)
(* fields are one number, its version; what tells versions apart is said   *)
(* where a handler looks at it.                                            *)
(***************************************************************************)
EXTENDS CacheStore

CONSTANTS
  Scope,    \* the scope of each key
  Guild,    \* the guild of each key, or NoGroup for those outside of guilds
  Parent,   \* the channel of a thread, the channel or thread of a message
  User,     \* the user of a member, the author of a message
  Member,   \* the member a presence or voice state is of
  Policies  \* the cache options: the policy of each scope under each name

Scopes == {"guilds", "channels", "threads", "users", "roles", "members", "messages",
           "emojis", "stickers", "presences", "voiceStates"}
Things == DOMAIN Scope
ASSUME ThingsAssumption == IsFiniteSet(Things)
\* resolveCachePolicy: a scope of no entries is one that is off.
ASSUME PoliciesAssumption ==
  \A name \in DOMAIN Policies : \A scope \in Scopes :
    LET p == Policies[name][scope]
    IN p.max \in Int /\ p.ttl \in Nat /\ p.enabled = (p.max # 0)
In(scope, ks) == {k \in ks : Scope[k] = scope}

\* What is in a channel or of a member is in its guild; a channel, and its messages, may be in
\* none.
ASSUME PlacesAssumption ==
  /\ NoGroup \notin Things
  /\ \A k \in Things :
       /\ Scope[k] \in Scopes \cup {"self"}
       /\ Guild[k] \in CASE Scope[k] = "guilds" -> {k}
                         [] Scope[k] \in {"users", "self"} -> {NoGroup}
                         [] Scope[k] \in {"channels", "messages"} -> In("guilds", Things) \cup {NoGroup}
                         [] OTHER -> In("guilds", Things)
       /\ Parent[k] \in CASE Scope[k] = "threads" -> In("channels", Things)
                          [] Scope[k] = "messages" -> In("channels", Things) \cup In("threads", Things)
                          [] OTHER -> {NoGroup}
       /\ Member[k] \in IF Scope[k] \in {"presences", "voiceStates"} THEN In("members", Things)
                        ELSE {NoGroup}
       /\ User[k] \in IF Scope[k] \in {"members", "messages"} THEN In("users", Things)
                      ELSE {NoGroup}
       /\ \A x \in {Parent[k], Member[k]} \ {NoGroup} : Guild[x] = Guild[k]

\* A member lists the role of its guild or not, and a presence is online or offline.
Listing == 1
\* A channel is of one of two types, a thread archived or not; a thread has a member count,
\* and both have a last pin.
Kind(v) == v \div 4
Archived(v) == Kind(v) = 1
Count(v) == (v \div 2) % 2
Pin(v) == v % 2
WithCount(v, count) == 4 * Kind(v) + 2 * count + Pin(v)
WithPin(v, pin) == 4 * Kind(v) + 2 * Count(v) + pin
\* What MESSAGE_UPDATE may leave of a message nobody has seen.
Stub == 9

\* CacheKeys: what each scope groups by.
GroupOf(k) ==
  CASE Scope[k] \in {"guilds", "users", "self"} -> NoGroup
    [] Scope[k] \in {"threads", "messages"} -> Parent[k]
    [] OTHER -> Guild[k]

-----------------------------------------------------------------------------
(* A payload is the event, the key it is about and the versions of all the *)
(* entities it carries.  `c` is the cache and the name of its policies.    *)

Here(c, scope, now) == Live(c.stores[scope], now)

OnStore(c, scope, s) == [c EXCEPT !.stores[scope] = s]

Put(c, k, v, now) ==
  OnStore(c, Scope[k], Set(Policies[c.policy][Scope[k]], c.stores[Scope[k]], k, v, GroupOf(k), now))

PutAll(c, w, ks, now) == FoldSet(LAMBDA k, a : Put(a, k, w[k], now), c, ks)

Delete(c, scope, ks) == OnStore(c, scope, Evict(c.stores[scope], ks))

\* A field assigned to the cached objects, which the store does not see.
Patched(s, ks, v) ==
  [s EXCEPT !.entries = [i \in DOMAIN @ |->
    IF @[i].key \in ks THEN [@[i] EXCEPT !.value = v] ELSE @[i]]]
Assign(c, scope, ks, v) == OnStore(c, scope, Patched(c.stores[scope], ks, v))

\* upsertUser, of every user that rides along.
UpsertUsers(c, w, now) == PutAll(c, w, In("users", DOMAIN w), now)

\* evictMember
EvictMember(c, m) ==
  LET Theirs(scope) == {k \in In(scope, Things) : Member[k] = m}
  IN Delete(Delete(Delete(c, "members", {m}), "presences", Theirs("presences")),
            "voiceStates", Theirs("voiceStates"))

EvictAlone(c, ks, now) == Delete(Delete(c, "channels", ks), "threads", ks)

\* evictChannel, of each: it, its threads and, as they are channels too, their messages.
EvictChannels(c, ks, now) ==
  LET theirs == UNION {Indexed(c.stores["threads"], ch) : ch \in ks}
      threads == theirs \cap Here(c, "threads", now)
      gone == ks \cup threads
      said == UNION {Indexed(c.stores["messages"], x) : x \in gone}
  IN Delete(Delete(Delete(c, "channels", gone), "threads", ks \cup theirs), "messages", said)

\* evictGuild: two scopes are not grouped by guild, and are searched by the field.
EvictGuild(c, g, now) ==
  [c EXCEPT !.stores = [scope \in Scopes |->
    LET s == c.stores[scope]
    IN CASE scope = "guilds" -> Evict(s, {g})
         [] scope \in {"threads", "messages"} -> Evict(s, {k \in Live(s, now) : Guild[k] = g})
         [] OTHER -> Evict(s, Indexed(s, g))]]

\* Puts what arrived for the guild in this scope and drops what was cached but did not.
AddOnly(c, g, scope, w, now) == PutAll(c, w, In(scope, DOMAIN w), now)
Reconcile(c, g, scope, w, now) ==
  LET s == c.stores[scope]
      cached == Group(s, g, now)
      looked == OnStore(c, scope, Looked(s, g, now))
      arrived == In(scope, DOMAIN w)
  IN Delete(PutAll(looked, w, arrived, now), scope, cached \ arrived)

\* The same of its channels and threads, whose messages go with them.
ReconcileChannels(c, g, w, now) ==
  LET channels == Group(c.stores["channels"], g, now)
      threads == {t \in Here(c, "threads", now) : Guild[t] = g}
      looked == OnStore(c, "channels", Looked(c.stores["channels"], g, now))
      put == PutAll(PutAll(looked, w, In("channels", DOMAIN w), now),
                    w, In("threads", DOMAIN w), now)
  IN EvictChannels(EvictChannels(put, channels \ DOMAIN w, now), threads \ DOMAIN w, now)

-----------------------------------------------------------------------------
\* GUILD_CREATE: a guild with all it has, except its messages and most of its members.
GuildCreate(c, d, now) ==
  LET c1 == Reconcile(Put(c, d.key, d.w[d.key], now), d.key, "roles", d.w, now)
      c2 == Reconcile(ReconcileChannels(c1, d.key, d.w, now), d.key, "voiceStates", d.w, now)
      c3 == Reconcile(Reconcile(c2, d.key, "emojis", d.w, now), d.key, "stickers", d.w, now)
      c4 == UpsertUsers(PutAll(c3, d.w, In("presences", DOMAIN d.w), now), d.w, now)
  IN PutAll(c4, d.w, In("members", DOMAIN d.w), now)

\* A cached object is patched, or one is built, and it is put.
GuildUpdate(c, d, now) == Put(c, d.key, d.w[d.key], now)
RoleUpsert(c, d, now) == Put(c, d.key, d.w[d.key], now)
PresenceUpdate(c, d, now) == Put(c, d.key, d.w[d.key], now)
ThreadUpsert(c, d, now) == Put(c, d.key, d.w[d.key], now)
ChannelCreate(c, d, now) == Put(c, d.key, d.w[d.key], now)

\* CHANNEL_UPDATE: a new type is a new object.
ChannelUpdate(c, d, now) ==
  LET v == d.w[d.key]
      converted == /\ d.key \in Here(c, "channels", now)
                   /\ Kind(Value(c.stores["channels"], d.key)) # Kind(v)
  IN Put(IF converted THEN EvictChannels(c, {d.key}, now) ELSE c, d.key, v, now)

\* CHANNEL_PINS_UPDATE, of a channel or a thread, with no pin if the payload says nothing of
\* it: an assignment to what is found, unless it is no GuildTextBasedChannel.
ChannelPinsUpdate(c, d, now) ==
  LET k == d.key
      SoughtIn(scope, x) == OnStore(x, scope, Got(x.stores[scope], k, now))
      scope == IF k \in Here(c, "channels", now) THEN "channels" ELSE "threads"
      sought == SoughtIn(scope, SoughtIn("channels", c))
  IN IF k \in Here(c, scope, now) /\ Guild[k] # NoGroup /\ k \in DOMAIN d.w
     THEN Assign(sought, scope, {k}, WithPin(Value(c.stores[scope], k), Pin(d.w[k])))
     ELSE sought

\* THREAD_LIST_SYNC of the channels in d.of: what was not sent is no longer active.
SyncWhole(c, d, now) ==
  LET put == PutAll(c, d.w, DOMAIN d.w, now)
  IN Delete(put, "threads",
            {t \in Here(put, "threads", now) \ DOMAIN d.w : Guild[t] = d.key})
ThreadListSync(c, d, now) ==
  LET put == PutAll(c, d.w, DOMAIN d.w, now)
  IN Delete(put, "threads",
            {t \in Here(put, "threads", now) \ DOMAIN d.w : Guild[t] = d.key /\ Parent[t] \in d.of})

AdjustCount(v, count) == WithCount(v, (Count(v) + 1) % 2)
\* THREAD_MEMBERS_UPDATE assigns the count, "never adjusts it".
NewCount(v, count) == WithCount(v, count)
ThreadMembersUpdate(c, d, now) ==
  LET s == c.stores["threads"]
  IN IF d.key \in Live(s, now)
     THEN Put(c, d.key, NewCount(Value(s, d.key), Count(d.w[d.key])), now)
     ELSE OnStore(c, "threads", Got(s, d.key, now))

\* GUILD_ROLE_DELETE: no member update says that the members no longer list it.
RoleDelete(c, d, now) ==
  LET g == Guild[d.key]
      c1 == Delete(c, "roles", {d.key})
      listing == {m \in Group(c1.stores["members"], g, now) :
                    Value(c1.stores["members"], m) = Listing}
      looked == OnStore(c1, "members", Looked(c1.stores["members"], g, now))
  IN Assign(looked, "members", listing, 0)

\* GUILD_MEMBER_ADD and _UPDATE, and the member in TYPING_START and MESSAGE_REACTION_ADD.
MemberPut(c, d, now) == Put(UpsertUsers(c, d.w, now), d.key, d.w[d.key], now)

\* GUILD_MEMBER_REMOVE keeps the user.
MemberRemove(c, d, now) == UpsertUsers(EvictMember(c, d.key), d.w, now)

\* The user in GUILD_BAN_ADD and _REMOVE, INTERACTION_CREATE and INVITE_CREATE.
UserSeen(c, d, now) == UpsertUsers(c, d.w, now)

\* MESSAGE_CREATE
MessageCreate(c, d, now) == Put(UpsertUsers(c, d.w, now), d.key, d.w[d.key], now)

\* MESSAGE_UPDATE may carry nothing but the IDs: it leaves what is cached as it is, and
\* makes a message of its own of one that is not.
MessageUpdate(c, d, now) ==
  LET s == c.stores["messages"]
      kept == IF d.key \in Live(s, now) THEN Value(s, d.key) ELSE Stub
  IN Put(UpsertUsers(c, d.w, now), d.key, IF d.w[d.key] = Stub THEN kept ELSE d.w[d.key], now)

\* MESSAGE_DELETE and MESSAGE_DELETE_BULK
MessageDelete(c, d, now) == Delete(c, "messages", d.of)

\* GUILD_EMOJIS_UPDATE and GUILD_STICKERS_UPDATE carry the whole set.
ExpressionsUpdate(c, d, now) ==
  Reconcile(c, d.key, IF d.event = "GUILD_EMOJIS_UPDATE" THEN "emojis" ELSE "stickers", d.w, now)

\* VOICE_STATE_UPDATE brings the member along; without a channel it is a disconnect.
VoiceStateUpdate(c, d, now) ==
  LET c1 == UpsertUsers(OnStore(c, "voiceStates", Got(c.stores["voiceStates"], d.key, now)),
                        d.w, now)
      c2 == PutAll(c1, d.w, In("members", DOMAIN d.w), now)
  IN IF d.key \in DOMAIN d.w THEN Put(c2, d.key, d.w[d.key], now)
     ELSE Delete(c2, "voiceStates", {d.key})

\* READY and USER_UPDATE: the client's own user, which is in no store.
SelfUpdate(c, d, now) == [c EXCEPT !.self = d.w[d.key]]

Handle(c, d, now) ==
  CASE d.event = "GUILD_CREATE" -> GuildCreate(c, d, now)
    [] d.event = "GUILD_UPDATE" -> GuildUpdate(c, d, now)
    [] d.event = "GUILD_ROLE" -> RoleUpsert(c, d, now)
    [] d.event = "THREAD" -> ThreadUpsert(c, d, now)
    [] d.event = "PRESENCE_UPDATE" -> PresenceUpdate(c, d, now)
    [] d.event = "GUILD_DELETE" -> EvictGuild(c, d.key, now)
    [] d.event = "GUILD_UNAVAILABLE" -> c
    [] d.event = "CHANNEL_CREATE" -> ChannelCreate(c, d, now)
    [] d.event = "CHANNEL_UPDATE" -> ChannelUpdate(c, d, now)
    [] d.event = "CHANNEL_PINS_UPDATE" -> ChannelPinsUpdate(c, d, now)
    [] d.event \in {"CHANNEL_DELETE", "THREAD_DELETE"} -> EvictChannels(c, {d.key}, now)
    [] d.event = "THREAD_LIST_SYNC" -> ThreadListSync(c, d, now)
    [] d.event = "THREAD_MEMBERS_UPDATE" -> ThreadMembersUpdate(c, d, now)
    [] d.event = "GUILD_ROLE_DELETE" -> RoleDelete(c, d, now)
    [] d.event = "MEMBER" -> MemberPut(c, d, now)
    [] d.event = "GUILD_MEMBER_REMOVE" -> MemberRemove(c, d, now)
    [] d.event = "USER_SEEN" -> UserSeen(c, d, now)
    [] d.event = "MESSAGE_CREATE" -> MessageCreate(c, d, now)
    [] d.event = "MESSAGE_UPDATE" -> MessageUpdate(c, d, now)
    [] d.event = "MESSAGE_DELETE" -> MessageDelete(c, d, now)
    [] d.event \in {"GUILD_EMOJIS_UPDATE", "GUILD_STICKERS_UPDATE"} -> ExpressionsUpdate(c, d, now)
    [] d.event = "VOICE_STATE_UPDATE" -> VoiceStateUpdate(c, d, now)
    [] d.event = "SELF" -> SelfUpdate(c, d, now)

\* CacheSweeper.sweep, of the scopes that are on and expire.
Expiring(c, scope) == Policies[c.policy][scope].enabled /\ Policies[c.policy][scope].ttl > 0
Sweep(c, now) ==
  [c EXCEPT !.stores = [scope \in Scopes |->
    IF Expiring(c, scope) THEN Swept(c.stores[scope], now) ELSE c.stores[scope]]]
=============================================================================
