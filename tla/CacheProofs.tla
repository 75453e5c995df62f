----------------------------- MODULE CacheProofs -----------------------------
(***************************************************************************)
(* What the cache keeps, that it is true and whole, and that a dispatch    *)
(* handled twice is handled once: for any entities, policies, dispatches   *)
(* and outages.                                                            *)
(***************************************************************************)
EXTENDS CacheSync, HandlersProofs

-----------------------------------------------------------------------------
(* What Discord sends.                                                     *)

LEMMA DispatchPayload ==
  ASSUME NEW event \in Events, NEW k, NEW w, NEW ks, IsFiniteSet(ks), NEW of, NEW about
  PROVE  Payload(Dispatch(event, k, w, ks, of, about))
<1> DEFINE d == Dispatch(event, k, w, ks, of, about)
<1>1. d.event = event /\ d.w = [x \in ks |-> w[x]]
  BY DEF Dispatch
<1>2. DOMAIN d.w = ks
  BY <1>1
<1> HIDE DEF d
<1>3. Payload(d)
  BY <1>1, <1>2 DEF Payload
<1> QED
  BY <1>3 DEF d

LEMMA PresentFinite ==
  ASSUME NEW w, NEW ks, IsFiniteSet(ks) PROVE IsFiniteSet(Present(w, ks))
  BY FS_Subset DEF Present

LEMMA OfFinite ==
  ASSUME NEW scope, NEW g PROVE IsFiniteSet(Of(scope, g)) /\ IsFiniteSet(In(scope, Things))
<1>1. Of(scope, g) \subseteq Things /\ In(scope, Things) \subseteq Things
  BY DEF Of, In
<1> QED
  BY <1>1, ThingsAssumption, FS_Subset

LEMMA BelowFinite ==
  ASSUME NEW k PROVE IsFiniteSet(Below(k))
<1>1. Below(k) \subseteq Things \cup {k}
  BY DEF Below, Inside
<1>2. IsFiniteSet(Things \cup {k})
  BY ThingsAssumption, FS_AddElement
<1> QED
  BY <1>1, <1>2, FS_Subset

LEMMA UsersFinite ==
  ASSUME NEW ks, IsFiniteSet(ks) PROVE IsFiniteSet(Users(ks))
<1>1. IsFiniteSet(In("members", ks))
  BY FiniteParts
<1> DEFINE f == [m \in In("members", ks) |-> User[m]]
<1>2. f \in Surjection(In("members", ks), Users(ks))
  BY DEF Users, Surjection
<1> QED
  BY <1>1, <1>2, FS_Surjection

LEMMA SnapshotPayload ==
  ASSUME NEW w, NEW g PROVE Payload(Snapshot(w, g))
<1> DEFINE all == ActiveThreads(w, g) \cup
                  {k \in Present(w, Below(g)) : Scope[k] \notin {"threads", "messages"}}
           ks == IF theme.members THEN all
                 ELSE {k \in all : Scope[k] \notin {"members", "presences"}}
<1>1. Snapshot(w, g) = Dispatch("GUILD_CREATE", g, w, ks \cup Users(ks), {}, {})
  BY DEF Snapshot
<1>2. IsFiniteSet(all)
  <2>1. ActiveThreads(w, g) \subseteq Of("threads", g)
    BY DEF ActiveThreads, Present
  <2>2. {k \in Present(w, Below(g)) : Scope[k] \notin {"threads", "messages"}} \subseteq Below(g)
    BY DEF Present
  <2> QED
    BY <2>1, <2>2, OfFinite, BelowFinite, FS_Subset, FS_Union
<1>3. ks \subseteq all
  OBVIOUS
<1> HIDE DEF all, ks
<1>4. IsFiniteSet(ks)
  BY <1>2, <1>3, FS_Subset
<1>5. IsFiniteSet(ks \cup Users(ks))
  BY <1>4, UsersFinite, FS_Union
<1>6. "GUILD_CREATE" \in Events
  BY DEF Events
<1> QED
  BY <1>1, <1>5, <1>6, DispatchPayload

\* What a dispatch is about is of no concern to the handlers.
LEMMA TellingPayload ==
  ASSUME NEW d, Payload(d), NEW unknown
  PROVE  Payload(Telling(d, unknown))
<1> DEFINE e == Telling(d, unknown)
<1>1. e = [d EXCEPT !.about = d.about \cup (unknown \cap Told(d))]
  BY DEF Telling
<1>2. e.event = d.event /\ e.w = d.w
  BY <1>1
<1> QED
  BY <1>2 DEF Payload

LEMMA SetToSeqIsSeq ==
  ASSUME NEW S, IsFiniteSet(S) PROVE SetToSeq(S) \in Seq(S)
<1>1. Cardinality(S) \in Nat
  BY FS_CardinalityType
<1>2. \E f \in [1 .. Cardinality(S) -> S] : IsInjective(f)
  <2>1. PICK f : f \in Bijection(1 .. Cardinality(S), S)
    BY FS_NatBijection, FS_CardinalityType DEF ExistsBijection
  <2> QED
    BY <2>1 DEF Bijection, Injection, IsInjective
<1>3. SetToSeq(S) \in [1 .. Cardinality(S) -> S]
  BY <1>2 DEF SetToSeq
<1> QED
  BY <1>1, <1>3

\* The dispatches of a session.
LogInv(l) == \E S : l \in Seq(S) /\ \A d \in S : Payload(d)

LEMMA SessionLog ==
  ASSUME NEW w, NEW unknown PROVE LogInv(Session(w, unknown))
<1> DEFINE guilds == SetToSeq(Present(w, In("guilds", Things)))
           selves == SetToSeq(In("self", Things))
           Mine(k) == Dispatch("SELF", k, w, {k}, {}, {})
           G == Present(w, In("guilds", Things))
           S == {Mine(k) : k \in In("self", Things)} \cup {Telling(Snapshot(w, g), unknown) : g \in G}
           one == [i \in DOMAIN selves |-> Mine(selves[i])]
           two == [i \in DOMAIN guilds |-> Telling(Snapshot(w, guilds[i]), unknown)]
<1>1. Session(w, unknown) = one \o two
  BY DEF Session
<1>2. guilds \in Seq(G) /\ selves \in Seq(In("self", Things))
  BY OfFinite, PresentFinite, SetToSeqIsSeq
<1>3. \A k : Payload(Mine(k))
  <2>1. \A k : IsFiniteSet({k})
    BY FS_Singleton
  <2>2. "SELF" \in Events
    BY DEF Events
  <2> QED
    BY <2>1, <2>2, DispatchPayload
<1>4. \A d \in S : Payload(d)
  BY <1>3, SnapshotPayload, TellingPayload
<1> HIDE DEF guilds, selves, Mine
<1>5. one \in Seq(S)
  <2>1. /\ DOMAIN selves = 1 .. Len(selves) /\ Len(selves) \in Nat
        /\ \A i \in 1 .. Len(selves) : selves[i] \in In("self", Things)
    BY <1>2
  <2>2. one \in [1 .. Len(selves) -> S]
    BY <2>1
  <2> HIDE DEF one, S
  <2> QED
    BY <2>1, <2>2
<1>6. two \in Seq(S)
  <2>1. /\ DOMAIN guilds = 1 .. Len(guilds) /\ Len(guilds) \in Nat
        /\ \A i \in 1 .. Len(guilds) : guilds[i] \in G
    BY <1>2
  <2>2. two \in [1 .. Len(guilds) -> S]
    BY <2>1
  <2> HIDE DEF two, S
  <2> QED
    BY <2>1, <2>2
<1> HIDE DEF one, two, S
<1>7. one \o two \in Seq(S)
  BY <1>5, <1>6
<1> QED
  BY <1>1, <1>4, <1>7 DEF LogInv

LEMMA LogGrows ==
  ASSUME NEW l, LogInv(l), NEW d, Payload(d)
  PROVE  LogInv(Append(l, d)) /\ Len(l) \in Nat /\ Len(Append(l, d)) = Len(l) + 1
<1>1. PICK S : l \in Seq(S) /\ \A x \in S : Payload(x)
  BY DEF LogInv
<1>2. l \in Seq(S \cup {d}) /\ d \in S \cup {d}
  BY <1>1
<1>3. /\ Append(l, d) \in Seq(S \cup {d}) /\ Len(l) \in Nat
      /\ Len(Append(l, d)) = Len(l) + 1
  BY ONLY <1>2, Appended
<1>4. \A x \in S \cup {d} : Payload(x)
  BY <1>1
<1> QED
  BY <1>3, <1>4 DEF LogInv

-----------------------------------------------------------------------------
(* The cache and the gateway.                                              *)

SyncInv ==
  /\ CacheInv(cache, now)
  /\ now \in Nat \ {0}
  /\ LogInv(log)
  /\ applied \in 0 .. Len(log)

LEMMA SyncInit == Init => SyncInv
<1> SUFFICES ASSUME Init PROVE SyncInv
  OBVIOUS
<1> DEFINE stores == [scope \in Scopes |-> EmptyStore]
<1>1. /\ theme \in Themes /\ log = Session(Founding, {}) /\ applied = 0 /\ now = 1
      /\ cache = [policy |-> theme.policy, stores |-> stores, self |-> Gone]
  BY DEF Init
<1>2. theme.policy \in DOMAIN Policies
  BY <1>1, ThemesAssumption
<1>3. ASSUME NEW scope \in Scopes
      PROVE  stores[scope] = EmptyStore /\ StoreInv(Policies[theme.policy][scope], EmptyStore, 1)
  <2>1. PolicyOK(Policies[theme.policy][scope])
    BY <1>2, PoliciesAssumption DEF PolicyOK
  <2> QED
    BY <2>1, EmptySound
<1>4. stores = [scope \in Scopes |-> stores[scope]]
  OBVIOUS
<1> HIDE DEF stores
<1>5. /\ cache.policy = theme.policy /\ cache.stores = stores
      /\ cache = [policy |-> cache.policy, stores |-> cache.stores, self |-> cache.self]
  BY <1>1
<1>6. CacheInv(cache, 1)
  BY <1>2, <1>3, <1>4, <1>5 DEF CacheInv
<1>7. LogInv(log)
  BY <1>1, SessionLog
<1>8. applied \in 0 .. Len(log)
  BY <1>1, <1>7 DEF LogInv
<1> QED
  BY <1>1, <1>6, <1>7, <1>8 DEF SyncInv

\* The cache has no part in what Discord says.
LEMMA LogMoves ==
  ASSUME SyncInv, UNCHANGED cacheVars, LogInv(log'), applied' \in 0 .. Len(log')
  PROVE  SyncInv'
  BY DEF SyncInv, cacheVars

LEMMA LogAppended ==
  ASSUME SyncInv, UNCHANGED <<cacheVars, applied>>,
         NEW d, Payload(d), log' = Append(log, d)
  PROVE  SyncInv'
<1>1. LogInv(log') /\ Len(log) \in Nat /\ Len(log') = Len(log) + 1
  BY LogGrows DEF SyncInv
<1>2. applied' \in 0 .. Len(log')
  BY <1>1 DEF SyncInv
<1> QED
  BY <1>1, <1>2, LogMoves

LEMMA LogStays ==
  ASSUME SyncInv, UNCHANGED <<cacheVars, applied, log>> PROVE SyncInv'
  BY LogMoves DEF SyncInv

LEMMA SaySound ==
  ASSUME SyncInv, NEW d, Payload(d), Say(d), UNCHANGED <<cacheVars, applied>>
  PROVE  SyncInv'
<1>1. UNCHANGED log \/ log' = Append(log, Telling(d, missed))
  BY DEF Say, Send
<1>2. Payload(Telling(d, missed))
  BY TellingPayload
<1> QED
  BY <1>1, <1>2, LogAppended, LogStays

LEMMA HappensSound ==
  ASSUME SyncInv, NEW k, NEW v, NEW event \in Events, NEW carried, IsFiniteSet(carried), NEW of,
         Happens(k, v, event, carried, of)
  PROVE  SyncInv'
<1>1. PICK w, about : /\ Say(Dispatch(event, k, w, Present(w, carried), of, about))
                      /\ UNCHANGED <<cacheVars, applied>>
  BY DEF Happens
<1>2. Payload(Dispatch(event, k, w, Present(w, carried), of, about))
  BY PresentFinite, DispatchPayload
<1> QED
  BY <1>1, <1>2, SaySound

LEMMA ChangeSound ==
  ASSUME SyncInv, NEW k, NEW event \in Events, NEW carried, IsFiniteSet(carried), NEW of,
         \/ Appears(k, event, carried) \/ Changes(k, event, carried)
         \/ Goes(k, event, carried, of) \/ \E v : Happens(k, v, event, carried, of)
  PROVE  SyncInv'
<1>1. \E v, o : Happens(k, v, event, carried, o)
  BY DEF Appears, Changes, Goes
<1> QED
  BY <1>1, HappensSound

LEMMA FewCarried ==
  /\ IsFiniteSet({})
  /\ \A k : IsFiniteSet({k}) /\ IsFiniteSet(WithUser(k)) /\ IsFiniteSet({k, User[k]})
  /\ \A k, m : IsFiniteSet({k} \cup WithUser(m))
<1>1. \A k, u : IsFiniteSet({k}) /\ IsFiniteSet({k, u})
  <2> TAKE k, u
  <2>1. IsFiniteSet({k}) /\ IsFiniteSet({u})
    BY FS_Singleton
  <2>2. IsFiniteSet({k} \cup {u})
    BY <2>1, FS_Union
  <2>3. {k, u} = {k} \cup {u}
    OBVIOUS
  <2> QED
    BY <2>1, <2>2, <2>3
<1>2. \A k : IsFiniteSet(WithUser(k))
  BY <1>1 DEF WithUser
<1> QED
  BY <1>1, <1>2, FS_EmptySet, FS_Union

LEMMA GuildChangesSound == SyncInv /\ GuildChanges => SyncInv'
<1>1. {"GUILD_UPDATE", "GUILD_DELETE"} \subseteq Events
  BY DEF Events
<1> QED
  BY <1>1, ChangeSound, FewCarried DEF GuildChanges

LEMMA ChannelChangesSound == SyncInv /\ ChannelChanges => SyncInv'
<1>1. {"CHANNEL_CREATE", "CHANNEL_PINS_UPDATE", "CHANNEL_UPDATE", "CHANNEL_DELETE"} \subseteq Events
  BY DEF Events
<1> QED
  BY <1>1, ChangeSound, FewCarried DEF ChannelChanges

LEMMA ThreadChangesSound == SyncInv /\ ThreadChanges => SyncInv'
<1>1. {"THREAD", "CHANNEL_PINS_UPDATE", "THREAD_MEMBERS_UPDATE", "THREAD_DELETE"} \subseteq Events
  BY DEF Events
<1> QED
  BY <1>1, ChangeSound, FewCarried DEF ThreadChanges

LEMMA MessageChangesSound == SyncInv /\ MessageChanges => SyncInv'
<1>1. {"MESSAGE_CREATE", "MESSAGE_UPDATE", "MESSAGE_DELETE"} \subseteq Events
  BY DEF Events
<1> QED
  BY <1>1, ChangeSound, FewCarried DEF MessageChanges

LEMMA RoleChangesSound == SyncInv /\ RoleChanges => SyncInv'
<1> SUFFICES ASSUME SyncInv, NEW k \in In("roles", Things),
                    \/ Appears(k, "GUILD_ROLE", {k}) \/ Changes(k, "GUILD_ROLE", {k})
                    \/ \E w, about : /\ Say(Dispatch("GUILD_ROLE_DELETE", k, w, {}, {}, about))
                                     /\ UNCHANGED <<cacheVars, applied>>
             PROVE  SyncInv'
  BY DEF RoleChanges
<1>1. {"GUILD_ROLE", "GUILD_ROLE_DELETE"} \subseteq Events
  BY DEF Events
<1>2. \A w, about : Payload(Dispatch("GUILD_ROLE_DELETE", k, w, {}, {}, about))
  BY <1>1, FewCarried, DispatchPayload
<1> QED
  BY <1>1, <1>2, ChangeSound, SaySound, FewCarried

LEMMA MemberChangesSound == SyncInv /\ MemberChanges => SyncInv'
<1>1. {"MEMBER", "GUILD_MEMBER_REMOVE"} \subseteq Events
  BY DEF Events
<1> QED
  BY <1>1, ChangeSound, FewCarried DEF MemberChanges

LEMMA UserChangesSound == SyncInv /\ UserChanges => SyncInv'
<1>1. {"USER_SEEN", "SELF"} \subseteq Events
  BY DEF Events
<1> QED
  BY <1>1, ChangeSound, FewCarried DEF UserChanges

LEMMA PresenceChangesSound == SyncInv /\ PresenceChanges => SyncInv'
<1>1. "PRESENCE_UPDATE" \in Events
  BY DEF Events
<1> QED
  BY <1>1, ChangeSound, FewCarried DEF PresenceChanges

LEMMA VoiceChangesSound == SyncInv /\ VoiceChanges => SyncInv'
<1>1. "VOICE_STATE_UPDATE" \in Events
  BY DEF Events
<1> QED
  BY <1>1, ChangeSound, FewCarried DEF VoiceChanges

LEMMA ExpressionChangesSound == SyncInv /\ ExpressionChanges => SyncInv'
<1> SUFFICES ASSUME SyncInv, ExpressionChanges PROVE SyncInv'
  OBVIOUS
<1>1. PICK k, v :
        LET w == [world EXCEPT ![k] = v]
            event == IF Scope[k] = "emojis" THEN "GUILD_EMOJIS_UPDATE" ELSE "GUILD_STICKERS_UPDATE"
        IN /\ Say(Dispatch(event, Guild[k], w, Present(w, Of(Scope[k], Guild[k])), {}, {k}))
           /\ UNCHANGED <<cacheVars, applied>>
  BY DEF ExpressionChanges
<1> DEFINE w == [world EXCEPT ![k] = v]
           event == IF Scope[k] = "emojis" THEN "GUILD_EMOJIS_UPDATE" ELSE "GUILD_STICKERS_UPDATE"
<1>2. event \in Events
  BY DEF Events
<1> HIDE DEF w, event
<1>3. Payload(Dispatch(event, Guild[k], w, Present(w, Of(Scope[k], Guild[k])), {}, {k}))
  BY <1>2, OfFinite, PresentFinite, DispatchPayload
<1> QED
  BY <1>1, <1>3, SaySound DEF w, event

LEMMA AgainSound == SyncInv /\ Again => SyncInv'
<1> SUFFICES ASSUME SyncInv, Again PROVE SyncInv'
  OBVIOUS
<1>1. ASSUME NEW k, NEW w, Say(Dispatch("MESSAGE_UPDATE", k, w, {k}, {}, {})),
             UNCHANGED <<cacheVars, applied>>
      PROVE  SyncInv'
  <2>1. "MESSAGE_UPDATE" \in Events
    BY DEF Events
  <2>2. Payload(Dispatch("MESSAGE_UPDATE", k, w, {k}, {}, {}))
    BY <2>1, FewCarried, DispatchPayload
  <2> QED
    BY <1>1, <2>2, SaySound
<1>2. ASSUME NEW g, NEW of,
             Say(Dispatch("THREAD_LIST_SYNC", g, world,
                          {t \in ActiveThreads(world, g) : Parent[t] \in of}, of, {})),
             UNCHANGED <<cacheVars, applied>>
      PROVE  SyncInv'
  <2> DEFINE ks == {t \in ActiveThreads(world, g) : Parent[t] \in of}
  <2>1. ks \subseteq Of("threads", g)
    BY DEF ActiveThreads, Present
  <2>2. IsFiniteSet(ks)
    BY <2>1, OfFinite, FS_Subset
  <2>3. "THREAD_LIST_SYNC" \in Events
    BY DEF Events
  <2> HIDE DEF ks
  <2>4. Payload(Dispatch("THREAD_LIST_SYNC", g, world, ks, of, {}))
    BY <2>2, <2>3, DispatchPayload
  <2> QED
    BY <1>2, <2>4, SaySound DEF ks
<1>3. ASSUME NEW k, NEW ks \in SUBSET {k}, NEW w,
             Say(Dispatch("CHANNEL_PINS_UPDATE", k, w, ks, {}, {})), UNCHANGED <<cacheVars, applied>>
      PROVE  SyncInv'
  <2>1. "CHANNEL_PINS_UPDATE" \in Events /\ IsFiniteSet(ks)
    BY FS_Singleton, FS_Subset DEF Events
  <2>2. Payload(Dispatch("CHANNEL_PINS_UPDATE", k, w, ks, {}, {}))
    BY <2>1, DispatchPayload
  <2> QED
    BY <1>3, <2>2, SaySound
<1> QED
  BY <1>1, <1>2, <1>3 DEF Again

LEMMA OutageSound == SyncInv /\ Outage => SyncInv'
<1> SUFFICES ASSUME SyncInv, NEW g, Say(Dispatch("GUILD_UNAVAILABLE", g, world, {}, {}, {})),
                    UNCHANGED <<cacheVars, applied>>
             PROVE  SyncInv'
  BY DEF Outage
<1>1. "GUILD_UNAVAILABLE" \in Events
  BY DEF Events
<1>2. Payload(Dispatch("GUILD_UNAVAILABLE", g, world, {}, {}, {}))
  BY <1>1, FewCarried, DispatchPayload
<1> QED
  BY <1>2, SaySound

LEMMA ReturnSound == SyncInv /\ Return => SyncInv'
<1> SUFFICES ASSUME SyncInv, Return PROVE SyncInv'
  OBVIOUS
<1>1. PICK g : /\ UNCHANGED log \/ log' = Append(log, Telling(Snapshot(world, g), missed))
               /\ UNCHANGED <<cacheVars, applied>>
  BY DEF Return, Send
<1>2. Payload(Telling(Snapshot(world, g), missed))
  BY SnapshotPayload, TellingPayload
<1> QED
  BY <1>1, <1>2, LogAppended, LogStays

LEMMA JoinSound == SyncInv /\ Join => SyncInv'
<1> SUFFICES ASSUME SyncInv, Join PROVE SyncInv'
  OBVIOUS
<1>1. PICK g, w : Say(Snapshot(w, g)) /\ UNCHANGED <<cacheVars, applied>>
  BY DEF Join
<1>2. Payload(Snapshot(w, g))
  BY SnapshotPayload
<1> QED
  BY <1>1, <1>2, SaySound

LEMMA IdentifySound == SyncInv /\ Identify => SyncInv'
<1> SUFFICES ASSUME SyncInv, Identify PROVE SyncInv'
  OBVIOUS
<1>1. /\ \E unknown : log' = Session(world, unknown)
      /\ applied' = 0 /\ UNCHANGED cacheVars
  BY DEF Identify
<1>2. LogInv(log')
  BY <1>1, SessionLog
<1>3. applied' \in 0 .. Len(log')
  BY <1>1, <1>2 DEF LogInv
<1> QED
  BY <1>1, <1>2, <1>3, LogMoves

LEMMA ResumeSound == SyncInv /\ Resume => SyncInv'
<1> SUFFICES ASSUME SyncInv, Resume PROVE SyncInv'
  OBVIOUS
<1>1. /\ UNCHANGED <<cacheVars, log>>
      /\ applied' \in applied - MaxReplayed .. applied - 1 /\ applied' >= 0
  BY DEF Resume, worldVars
<1>2. applied \in Nat /\ Len(log) \in Nat /\ applied <= Len(log)
  BY DEF SyncInv, LogInv
<1>3. applied' \in 0 .. Len(log')
  BY <1>1, <1>2
<1> QED
  BY <1>1, <1>3, LogMoves DEF SyncInv

LEMMA RouteSound == SyncInv /\ Route => SyncInv'
<1> SUFFICES ASSUME SyncInv, Route PROVE SyncInv'
  OBVIOUS
<1> DEFINE d == log[applied + 1]
<1>1. /\ applied < Len(log) /\ applied' = applied + 1
      /\ cache' = Handle(cache, d, now) /\ UNCHANGED <<log, now>>
  BY DEF Route, worldVars
<1>2. applied \in Nat /\ Len(log) \in Nat /\ LogInv(log)
  BY DEF SyncInv, LogInv
<1>3. Payload(d)
  <2>1. PICK S : log \in Seq(S) /\ \A x \in S : Payload(x)
    BY <1>2 DEF LogInv
  <2>2. applied + 1 \in 1 .. Len(log)
    BY <1>1, <1>2
  <2>3. d \in S
    BY <2>1, <2>2
  <2> QED
    BY <2>1, <2>3
<1> HIDE DEF d
<1>4. CacheInv(Handle(cache, d, now), now)
  BY <1>3, HandleSound DEF SyncInv
<1>5. applied' \in 0 .. Len(log')
  BY <1>1, <1>2
<1> QED
  BY <1>1, <1>2, <1>4, <1>5 DEF SyncInv

LEMMA TimersSound ==
  SyncInv /\ (StartSweeper \/ StopSweeper \/ SweeperFires \/ Tick) => SyncInv'
<1> SUFFICES ASSUME SyncInv, StartSweeper \/ StopSweeper \/ SweeperFires \/ Tick PROVE SyncInv'
  OBVIOUS
<1>0. now \in Nat \ {0} /\ CacheInv(cache, now)
  BY DEF SyncInv
<1>1. CASE StartSweeper \/ StopSweeper
  BY <1>1 DEF SyncInv, StartSweeper, StopSweeper, worldVars
<1>2. CASE SweeperFires
  <2>1. CacheInv(Sweep(cache, now), now)
    BY <1>0, SweepSound
  <2> QED
    BY <1>2, <2>1 DEF SyncInv, SweeperFires, worldVars
<1>3. CASE Tick
  <2>1. CacheInv(cache, now + 1) /\ now + 1 \in Nat \ {0}
    BY <1>0, CacheInvLater
  <2> QED
    BY <1>3, <2>1 DEF SyncInv, Tick, worldVars
<1> QED
  BY <1>1, <1>2, <1>3

LEMMA SyncStep == SyncInv /\ [Next]_vars => SyncInv'
<1> SUFFICES ASSUME SyncInv, [Next]_vars PROVE SyncInv'
  OBVIOUS
<1>1. CASE UNCHANGED vars
  BY <1>1 DEF SyncInv, vars, worldVars, cacheVars
<1>2. CASE Next
  BY <1>2, GuildChangesSound, ChannelChangesSound, ThreadChangesSound, MessageChangesSound,
     RoleChangesSound, MemberChangesSound, UserChangesSound, PresenceChangesSound,
     VoiceChangesSound, ExpressionChangesSound, AgainSound, OutageSound, ReturnSound,
     JoinSound, IdentifySound, ResumeSound, RouteSound, TimersSound DEF Next
<1> QED
  BY <1>1, <1>2

\* Whatever is dispatched, replayed or lost, and whenever the sweeper runs, each store of the
\* cache keeps to its policy and its index knows the group of exactly its entries.
THEOREM StoresStaySound == Spec => []StoresAreSound
<1>1. Spec => []SyncInv
  BY SyncInit, SyncStep, PTL DEF Spec
<1>2. SyncInv => StoresAreSound
  <2> SUFFICES ASSUME SyncInv, NEW scope \in Scopes
               PROVE  StoreOK(Policies[cache.policy][scope], cache.stores[scope], GroupOf, now)
    BY DEF StoresAreSound
  <2>1. CacheInv(cache, now) /\ now \in Nat
    BY DEF SyncInv
  <2>2. /\ PolicyOK(Policies[cache.policy][scope])
        /\ StoreInv(Policies[cache.policy][scope], cache.stores[scope], now)
    BY <2>1, PolicyType DEF CacheInv
  <2> QED
    BY <2>1, <2>2, StoreInvIsOK
<1> QED
  BY <1>1, <1>2, PTL

-----------------------------------------------------------------------------
(* What the handlers do to one entity, whatever its store.                 *)

Cached == {k \in Things : Scope[k] \in Scopes}

IsHeld(c, k, t) == k \in Live(c.stores[Scope[k]], t)

Held(c, k) == Value(c.stores[Scope[k]], k)

\* The scopes that are described in full, where their policy keeps everything.
Full == {"guilds", "channels", "roles", "emojis", "stickers", "voiceStates", "threads"}

KeptWhole(c, k) == Scope[k] \in Full /\ KeepsAll(Policies[c.policy][Scope[k]])

\* From c to e these were put, as they are in w, and of those whose scope keeps everything
\* only these may have gone.
Did(c, e, ks, gone, w, t) ==
  /\ Good(e, t) /\ e.policy = c.policy /\ e.self = c.self
  /\ \A k \in Cached : IsHeld(e, k, t) =>
       IF k \in ks THEN Held(e, k) = w[k] ELSE IsHeld(c, k, t) /\ Held(e, k) = Held(c, k)
  /\ \A k \in Cached : KeptWhole(c, k) /\ k \notin gone /\ (IsHeld(c, k, t) \/ k \in ks) => IsHeld(e, k, t)

LEMMA DidNothing ==
  ASSUME NEW c, NEW t, Good(c, t), NEW w PROVE Did(c, c, {}, {}, w, t)
  BY DEF Did

LEMMA DidThen ==
  ASSUME NEW c, NEW e, NEW f, NEW t, NEW w, NEW ks, NEW gone, NEW more, NEW lost,
         Did(c, e, ks, gone, w, t), Did(e, f, more, lost, w, t)
  PROVE  Did(c, f, ks \cup more, (gone \ more) \cup lost, w, t)
<1>1. \A k : KeptWhole(e, k) = KeptWhole(c, k)
  BY DEF Did, KeptWhole
<1> QED
  BY <1>1 DEF Did

LEMMA DidLess ==
  ASSUME NEW c, NEW e, NEW t, NEW w, NEW ks, NEW gone, NEW lost, Did(c, e, ks, gone, w, t),
         \A k \in Cached : k \in gone /\ Scope[k] \in Full => k \in lost
  PROVE  Did(c, e, ks, lost, w, t)
<1>1. \A k : KeptWhole(c, k) => Scope[k] \in Full
  BY DEF KeptWhole
<1> QED
  BY <1>1 DEF Did

LEMMA DidOther ==
  ASSUME NEW c, NEW e, NEW t, NEW w, NEW u, NEW ks, NEW gone, Did(c, e, ks, gone, w, t),
         \A k \in ks : u[k] = w[k]
  PROVE  Did(c, e, ks, gone, u, t)
  BY DEF Did

\* A store takes the place of another.
LEMMA OnStoreDoes ==
  ASSUME NEW c, NEW t, Good(c, t), NEW scope \in Scopes, NEW s,
         StoreInv(Policies[c.policy][scope], s, t), Keys(s) \subseteq In(scope, Things)
  PROVE  LET e == OnStore(c, scope, s)
         IN /\ Good(e, t) /\ e.policy = c.policy /\ e.self = c.self
            /\ \A x \in Scopes : e.stores[x] = IF x = scope THEN s ELSE c.stores[x]
<1> DEFINE e == OnStore(c, scope, s)
           stores == [c.stores EXCEPT ![scope] = s]
<1>1. /\ c = [policy |-> c.policy, stores |-> c.stores, self |-> c.self]
      /\ c.stores = [x \in Scopes |-> c.stores[x]]
  BY DEF Good, CacheInv
<1>2. \A x \in Scopes : stores[x] = IF x = scope THEN s ELSE c.stores[x]
  BY <1>1
<1>3. e = [c EXCEPT !.stores = stores]
  BY <1>1 DEF OnStore
<1> HIDE DEF stores, e
<1>4. e.policy = c.policy /\ e.self = c.self /\ e.stores = stores
  BY <1>1, <1>3
<1>5. CacheInv(e, t)
  BY OnStoreSound DEF Good, e
<1> QED
  BY <1>2, <1>4, <1>5 DEF Good, e

LEMMA DidOnStore ==
  ASSUME NEW c, NEW t, Good(c, t), NEW scope \in Scopes, NEW s,
         StoreInv(Policies[c.policy][scope], s, t), Keys(s) \subseteq In(scope, Things),
         NEW ks, NEW gone, NEW w,
         \A k \in ks : k \in Cached => Scope[k] = scope,
         \A k \in In(scope, Things) :
           /\ k \in Live(s, t) => IF k \in ks THEN Value(s, k) = w[k]
                                  ELSE k \in Live(c.stores[scope], t)
                                       /\ Value(s, k) = Value(c.stores[scope], k)
           /\ /\ KeptWhole(c, k) /\ k \notin gone
              /\ k \in Live(c.stores[scope], t) \/ k \in ks
              => k \in Live(s, t)
  PROVE  Did(c, OnStore(c, scope, s), ks, gone, w, t)
<1> DEFINE e == OnStore(c, scope, s)
<1>1. /\ Good(e, t) /\ e.policy = c.policy /\ e.self = c.self
      /\ \A x \in Scopes : e.stores[x] = IF x = scope THEN s ELSE c.stores[x]
  BY OnStoreDoes
<1> HIDE DEF e
<1>2. ASSUME NEW k \in Cached, Scope[k] = scope
      PROVE  /\ IsHeld(e, k, t) = (k \in Live(s, t)) /\ Held(e, k) = Value(s, k)
             /\ IsHeld(c, k, t) = (k \in Live(c.stores[scope], t))
             /\ Held(c, k) = Value(c.stores[scope], k) /\ k \in In(scope, Things)
  BY <1>1, <1>2 DEF IsHeld, Held, Cached, In
<1>3. ASSUME NEW k \in Cached, Scope[k] # scope
      PROVE  /\ IsHeld(e, k, t) = IsHeld(c, k, t) /\ Held(e, k) = Held(c, k)
             /\ k \notin ks
  <2>1. Scope[k] \in Scopes
    BY DEF Cached
  <2>2. e.stores[Scope[k]] = c.stores[Scope[k]]
    BY <1>1, <1>3, <2>1
  <2> QED
    BY <1>3, <2>2 DEF IsHeld, Held
<1>4. ASSUME NEW k \in Cached, IsHeld(e, k, t)
      PROVE  IF k \in ks THEN Held(e, k) = w[k] ELSE IsHeld(c, k, t) /\ Held(e, k) = Held(c, k)
  BY <1>2, <1>3, <1>4
<1>5. ASSUME NEW k \in Cached, KeptWhole(c, k), k \notin gone, IsHeld(c, k, t) \/ k \in ks
      PROVE  IsHeld(e, k, t)
  BY <1>2, <1>3, <1>5
<1> QED
  BY <1>1, <1>4, <1>5 DEF Did, e

LEMMA StoreOf ==
  ASSUME NEW c, NEW t, Good(c, t), NEW scope \in Scopes
  PROVE  /\ PolicyOK(Policies[c.policy][scope])
         /\ StoreInv(Policies[c.policy][scope], c.stores[scope], t)
         /\ Keys(c.stores[scope]) \subseteq In(scope, Things)
  BY PolicyType DEF Good, CacheInv

\* Where nothing expires all that is stored is live.
LEMMA AllLive ==
  ASSUME NEW p, NEW t, NEW s, StoreInv(p, s, t), p.ttl = 0 PROVE Live(s, t) = Keys(s)
<1>1. ASSUME NEW k \in Keys(s) PROVE Entry(s, k).due = Never
  <2>1. PICK i \in DOMAIN s.entries : s.entries[i].key = k
    BY DEF Keys
  <2>2. Entry(s, k) = s.entries[i]
    BY <2>1, EntryIs
  <2> QED
    BY <2>2 DEF StoreInv, EntriesOK
<1> QED
  BY <1>1 DEF Live, Expired

LEMMA PutDoes ==
  ASSUME NEW c, NEW t \in Nat \ {0}, Good(c, t), NEW k \in Cached, NEW w,
         Scope[k] \in Full => w[k] \in 0 .. 7
  PROVE  Did(c, Put(c, k, w[k], t), {k}, {}, w, t)
<1> DEFINE scope == Scope[k]
           p == Policies[c.policy][scope]
           s == c.stores[scope]
           r == Set(p, s, k, w[k], GroupOf(k), t)
<1>1. scope \in Scopes /\ k \in In(scope, Things)
  BY DEF Cached, In
<1>2. PolicyOK(p) /\ StoreInv(p, s, t) /\ Keys(s) \subseteq In(scope, Things)
  BY <1>1, StoreOf
<1>3. /\ \A x \in Keys(r) : x # k => x \in Keys(s) /\ Entry(r, x) = Entry(s, x)
      /\ k \in Keys(r) => Entry(r, k).value = w[k] /\ ~Expired(Entry(r, k), t)
      /\ p.enabled /\ Unbounded(p) /\ w[k] \in p.accepts => Keys(r) = Keys(s) \cup {k}
  BY <1>2, SetDoes
<1>4. StoreInv(p, r, t)
  BY <1>2, SetSound
<1>5. Put(c, k, w[k], t) = OnStore(c, scope, r)
  BY DEF Put
<1> HIDE DEF r, s, scope
<1>6. ASSUME NEW x \in In(scope, Things), x \in Live(r, t)
      PROVE  IF x \in {k} THEN Value(r, x) = w[x] ELSE x \in Live(s, t) /\ Value(r, x) = Value(s, x)
  BY <1>3, <1>6 DEF Live, Value
<1>7. ASSUME NEW x \in In(scope, Things), KeptWhole(c, x), x \in Live(s, t) \/ x \in {k}
      PROVE  x \in Live(r, t)
  <2>1. Scope[x] = scope
    BY DEF In
  <2>2. /\ p.enabled /\ Unbounded(p) /\ p.ttl = 0 /\ 0 .. 7 \subseteq p.accepts
        /\ scope \in Full
    BY <1>7, <2>1 DEF KeptWhole, KeepsAll
  <2>3. w[k] \in p.accepts
    <3>1. w[k] \in 0 .. 7
      BY <2>2 DEF scope
    <3>2. w[k] \in 0 .. 7
      BY <3>1
    <3> QED
      BY <2>2, <3>2
  <2>4. x \in Keys(r)
    BY <1>3, <1>7, <2>2, <2>3 DEF Live
  <2> QED
    BY <1>4, <2>2, <2>4, AllLive
<1>8. Keys(r) \subseteq In(scope, Things)
  BY <1>1, <1>2, <1>3
<1> HIDE DEF p
<1>9. StoreInv(Policies[c.policy][scope], r, t)
  BY <1>4 DEF p
<1>10. \A x \in {k} : x \in Cached => Scope[x] = scope
  BY DEF scope
<1>11. Did(c, OnStore(c, scope, r), {k}, {}, w, t)
  BY <1>1, <1>6, <1>7, <1>8, <1>9, <1>10, DidOnStore DEF s
<1> QED
  BY <1>5, <1>11

\* Of what is evicted nothing is left.
LEMMA EvictIsDone ==
  ASSUME NEW c, NEW t \in Nat, Good(c, t), NEW scope \in Scopes, NEW ks, NEW w
  PROVE  /\ Did(c, OnStore(c, scope, Evict(c.stores[scope], ks)), {}, In(scope, ks), w, t)
         /\ \A k \in Cached : Scope[k] = scope /\ k \in ks
              => ~IsHeld(OnStore(c, scope, Evict(c.stores[scope], ks)), k, t)
         /\ ks \cap Live(c.stores[scope], t) = {}
              => Did(c, OnStore(c, scope, Evict(c.stores[scope], ks)), {}, {}, w, t)
         /\ \A k \in Cached : IsHeld(c, k, t) /\ k \notin ks
              => IsHeld(OnStore(c, scope, Evict(c.stores[scope], ks)), k, t)
<1> DEFINE s == c.stores[scope]
           r == Evict(s, ks)
           p == Policies[c.policy][scope]
<1>1. PolicyOK(p) /\ StoreInv(p, s, t) /\ Keys(s) \subseteq In(scope, Things)
  BY StoreOf
<1>2. Keys(r) = Keys(s) \ ks /\ Within(r, s) /\ StoreInv(p, r, t)
  BY <1>1, EvictDoes, EvictSound
<1>3. Keys(r) \subseteq In(scope, Things)
  BY <1>1, <1>2
<1> HIDE DEF r
<1>4. /\ \A k \in Live(r, t) : k \in Live(s, t) /\ Value(r, k) = Value(s, k)
      /\ \A k \in Live(s, t) : k \in Keys(r) => k \in Live(r, t)
  BY <1>2, WithinIsLive
<1>5. \A k \in Live(s, t) : k \notin ks => k \in Live(r, t)
  BY <1>2, <1>4 DEF Live
<1>6. \A k \in In(scope, Things) : k \in ks => k \in In(scope, ks)
  BY DEF In
<1>7. ASSUME NEW gone, \A k \in ks \cap Live(s, t) : k \in In(scope, Things) => k \in gone
      PROVE  Did(c, OnStore(c, scope, r), {}, gone, w, t)
  <2>1. \A k \in In(scope, Things) : k \in Live(r, t)
          => k \in Live(c.stores[scope], t) /\ Value(r, k) = Value(c.stores[scope], k)
    BY <1>4
  <2>2. \A k \in In(scope, Things) :
          KeptWhole(c, k) /\ k \notin gone /\ k \in Live(c.stores[scope], t) => k \in Live(r, t)
    BY <1>5, <1>7
  <2> HIDE DEF s, p
  <2> QED
    BY <1>2, <1>3, <2>1, <2>2, DidOnStore DEF p
<1>8. Did(c, OnStore(c, scope, r), {}, In(scope, ks), w, t)
  BY <1>6, <1>7
<1>9. ks \cap Live(s, t) = {} => Did(c, OnStore(c, scope, r), {}, {}, w, t)
  BY <1>7
<1>10. ASSUME NEW k \in Cached, Scope[k] = scope, k \in ks
       PROVE  ~IsHeld(OnStore(c, scope, r), k, t)
  <2>1. OnStore(c, scope, r).stores[scope] = r
    BY <1>2, <1>3, OnStoreDoes
  <2> QED
    BY <1>2, <1>10, <2>1 DEF IsHeld, Live
<1>11. ASSUME NEW k \in Cached, IsHeld(c, k, t), k \notin ks
       PROVE  IsHeld(OnStore(c, scope, r), k, t)
  <2>1. \A x \in Scopes : OnStore(c, scope, r).stores[x] = IF x = scope THEN r ELSE c.stores[x]
    BY <1>2, <1>3, OnStoreDoes
  <2>2. Scope[k] \in Scopes
    BY DEF Cached
  <2> QED
    BY <1>5, <1>11, <2>1, <2>2 DEF IsHeld
<1> QED
  BY <1>8, <1>9, <1>10, <1>11 DEF r

LEMMA DeleteDoes ==
  ASSUME NEW c, NEW t \in Nat, Good(c, t), NEW scope \in Scopes, NEW ks, NEW w
  PROVE  /\ Did(c, Delete(c, scope, ks), {}, In(scope, ks), w, t)
         /\ \A k \in Cached : Scope[k] = scope /\ k \in ks => ~IsHeld(Delete(c, scope, ks), k, t)
  BY EvictIsDone DEF Delete

\* A look changes nothing that can be seen.
LEMMA LookDoes ==
  ASSUME NEW c, NEW t \in Nat, Good(c, t), NEW scope \in Scopes, NEW x, NEW w
  PROVE  LET e == OnStore(c, scope, Looked(c.stores[scope], x, t))
             f == OnStore(c, scope, Got(c.stores[scope], x, t))
         IN /\ Did(c, e, {}, {}, w, t) /\ \A k \in Cached : IsHeld(c, k, t) => IsHeld(e, k, t)
            /\ Did(c, f, {}, {}, w, t) /\ \A k \in Cached : IsHeld(c, k, t) => IsHeld(f, k, t)
<1> DEFINE s == c.stores[scope]
<1>1. ASSUME NEW ks
      PROVE  /\ Did(c, OnStore(c, scope, Evict(s, ks \ Live(s, t))), {}, {}, w, t)
             /\ \A k \in Cached : IsHeld(c, k, t) => IsHeld(OnStore(c, scope, Evict(s, ks \ Live(s, t))), k, t)
  <2> DEFINE gone == ks \ Live(s, t)
             e == OnStore(c, scope, Evict(s, gone))
  <2>1. gone \cap Live(s, t) = {}
    OBVIOUS
  <2>2. \A k \in Cached : IsHeld(c, k, t) /\ Scope[k] = scope => k \notin gone
    BY DEF IsHeld
  <2> HIDE DEF gone
  <2>3. /\ Did(c, e, {}, {}, w, t)
        /\ \A k \in Cached : IsHeld(c, k, t) /\ k \notin gone => IsHeld(e, k, t)
    BY <2>1, EvictIsDone
  <2>4. ASSUME NEW k \in Cached, IsHeld(c, k, t), Scope[k] # scope PROVE IsHeld(e, k, t)
    <3>1. PolicyOK(Policies[c.policy][scope]) /\ StoreInv(Policies[c.policy][scope], s, t)
          /\ Keys(s) \subseteq In(scope, Things)
      BY StoreOf
    <3>2. StoreInv(Policies[c.policy][scope], Evict(s, gone), t) /\ Keys(Evict(s, gone)) \subseteq In(scope, Things)
      BY <3>1, EvictDoes, EvictSound
    <3>3. \A y \in Scopes : e.stores[y] = IF y = scope THEN Evict(s, gone) ELSE c.stores[y]
      BY <3>2, OnStoreDoes
    <3>4. Scope[k] \in Scopes
      BY DEF Cached
    <3> QED
      BY <2>4, <3>3, <3>4 DEF IsHeld
  <2> HIDE DEF e
  <2> QED
    BY <2>2, <2>3, <2>4 DEF e, gone
<1> QED
  BY <1>1 DEF Looked, Got

LEMMA AssignDoes ==
  ASSUME NEW c, NEW t \in Nat, Good(c, t), NEW scope \in Scopes, NEW v, NEW w, NEW ks,
         ks \subseteq Live(c.stores[scope], t), \A k \in ks : w[k] = v
  PROVE  Did(c, Assign(c, scope, ks, v), ks, {}, w, t)
<1> DEFINE s == c.stores[scope]
           r == Patched(s, ks, v)
           p == Policies[c.policy][scope]
<1>1. PolicyOK(p) /\ StoreInv(p, s, t) /\ Keys(s) \subseteq In(scope, Things)
  BY StoreOf
<1>2. /\ StoreInv(p, r, t) /\ Keys(r) = Keys(s) /\ Live(r, t) = Live(s, t)
      /\ \A k \in Keys(s) : Value(r, k) = IF k \in ks THEN v ELSE Value(s, k)
  BY <1>1, PatchedDoes, PatchedSound
<1>3. Keys(r) \subseteq In(scope, Things)
  BY <1>1, <1>2
<1> HIDE DEF r
<1>4. \A k \in In(scope, Things) :
        k \in Live(r, t) => IF k \in ks THEN Value(r, k) = w[k]
                            ELSE k \in Live(s, t) /\ Value(r, k) = Value(s, k)
  BY <1>2 DEF Live
<1>5. \A k \in In(scope, Things) : k \in Live(s, t) \/ k \in ks => k \in Live(r, t)
  BY <1>2
<1>6. \A k \in ks : Scope[k] = scope
  BY <1>1 DEF Live, In
<1> HIDE DEF p
<1>7. Did(c, OnStore(c, scope, r), ks, {}, w, t)
  <2>1. StoreInv(Policies[c.policy][scope], r, t)
    BY <1>2 DEF p
  <2> QED
    BY <1>3, <1>4, <1>5, <1>6, <2>1, DidOnStore DEF s
<1> QED
  BY <1>7 DEF Assign, r

LEMMA PutAllDoes ==
  ASSUME NEW c, NEW t \in Nat \ {0}, Good(c, t), NEW w, NEW ks, IsFiniteSet(ks), ks \subseteq Cached,
         \A k \in ks : Scope[k] \in Full => w[k] \in 0 .. 7
  PROVE  Did(c, PutAll(c, w, ks, t), ks, {}, w, t)
<1> DEFINE g == CHOOSE x : x = [s \in SUBSET ks |-> AfterPuts(c, w, t, x, s)]
           P == {n \in Nat : \A s \in Few(ks, n) : Did(c, g[s], s, {}, w, t)}
<1>1. g = [s \in SUBSET ks |-> AfterPuts(c, w, t, g, s)]
  BY PutsExist
<1>2. PutAll(c, w, ks, t) = g[ks]
  BY PutAllDef
<1> HIDE DEF g
<1>3. \A s \in SUBSET ks : g[s] = AfterPuts(c, w, t, g, s)
  BY <1>1
<1>4. \A n : \A s \in Few(ks, n) : s \in SUBSET ks
  BY DEF Few
<1>5. 0 \in P
  <2>1. g[{}] = c
    BY <1>3 DEF AfterPuts
  <2>2. Did(c, g[{}], {}, {}, w, t)
    BY <2>1, DidNothing
  <2> QED
    BY <2>2, FewOfThem
<1>6. ASSUME NEW n \in Nat, n \in P PROVE n + 1 \in P
  <2>1. ASSUME NEW s \in Few(ks, n + 1) PROVE Did(c, g[s], s, {}, w, t)
    <3>1. g[s] = AfterPuts(c, w, t, g, s)
      BY <1>3, <1>4
    <3>2. CASE s = {}
      BY <3>1, <3>2, DidNothing DEF AfterPuts
    <3>3. CASE s # {}
      <4> DEFINE k == Chosen(s)
                 e == g[s \ {k}]
      <4>0. k \in s /\ s \subseteq ks /\ k \in Cached
        BY <1>4, <3>3, FewOfThem
      <4>1. Did(c, e, s \ {k}, {}, w, t)
        BY <1>6, <3>3, FewOfThem
      <4>2. g[s] = Put(e, k, w[k], t)
        BY <3>1, <3>3 DEF AfterPuts
      <4> HIDE DEF e, k
      <4>3. Did(e, g[s], {k}, {}, w, t)
        <5>1. Good(e, t)
          BY <4>1 DEF Did
        <5>2. Scope[k] \in Full => w[k] \in 0 .. 7
          BY <4>0
        <5> QED
          BY <4>0, <4>2, <5>1, <5>2, PutDoes
      <4>4. Did(c, g[s], (s \ {k}) \cup {k}, ({} \ {k}) \cup {}, w, t)
        BY <4>1, <4>3, DidThen
      <4>5. (s \ {k}) \cup {k} = s /\ ({} \ {k}) \cup {} = {}
        BY <4>0
      <4> QED
        BY <4>4, <4>5
    <3> QED
      BY <3>2, <3>3
  <2> QED
    BY <2>1
<1> HIDE DEF P
<1>7. Cardinality(ks) \in P
  BY <1>5, <1>6, FewOfThem, Induct
<1>8. ks \in Few(ks, Cardinality(ks))
  BY FewOfThem
<1> QED
  BY <1>2, <1>7, <1>8 DEF P

-----------------------------------------------------------------------------
(* The places of things.                                                   *)

LEMMA Places ==
  ASSUME NEW k \in Things
  PROVE  /\ Scope[k] \in Scopes \cup {"self"} /\ k # NoGroup
         /\ Scope[k] = "guilds" => Guild[k] = k
         /\ Scope[k] \in {"users", "self"} => Guild[k] = NoGroup
         /\ Guild[k] \in In("guilds", Things) \cup {NoGroup}
         /\ Scope[k] \notin {"users", "self", "channels", "messages"} => Guild[k] # NoGroup
         /\ Scope[k] = "threads" => Parent[k] \in In("channels", Things)
         /\ Scope[k] = "messages" => Parent[k] \in In("channels", Things) \cup In("threads", Things)
         /\ Scope[k] \notin {"threads", "messages"} => Parent[k] = NoGroup
         /\ Scope[k] \in {"presences", "voiceStates"} => Member[k] \in In("members", Things)
         /\ Scope[k] \notin {"presences", "voiceStates"} => Member[k] = NoGroup
         /\ Scope[k] \in {"members", "messages"} => User[k] \in In("users", Things)
         /\ Parent[k] # NoGroup => Guild[Parent[k]] = Guild[k]
         /\ Member[k] # NoGroup => Guild[Member[k]] = Guild[k]
<1>1. /\ NoGroup \notin Things /\ Scope[k] \in Scopes \cup {"self"}
      /\ \A x \in {Parent[k], Member[k]} \ {NoGroup} : Guild[x] = Guild[k]
  BY PlacesAssumption
<1>2. Guild[k] \in CASE Scope[k] = "guilds" -> {k}
                     [] Scope[k] \in {"users", "self"} -> {NoGroup}
                     [] Scope[k] \in {"channels", "messages"} -> In("guilds", Things) \cup {NoGroup}
                     [] OTHER -> In("guilds", Things)
  BY PlacesAssumption
<1>3. Parent[k] \in CASE Scope[k] = "threads" -> In("channels", Things)
                      [] Scope[k] = "messages" -> In("channels", Things) \cup In("threads", Things)
                      [] OTHER -> {NoGroup}
  BY PlacesAssumption
<1>4. /\ Member[k] \in IF Scope[k] \in {"presences", "voiceStates"} THEN In("members", Things)
                       ELSE {NoGroup}
      /\ User[k] \in IF Scope[k] \in {"members", "messages"} THEN In("users", Things)
                     ELSE {NoGroup}
  BY PlacesAssumption
<1>5. /\ Scope[k] = "guilds" => Guild[k] = k
      /\ Scope[k] \in {"users", "self"} => Guild[k] = NoGroup
      /\ Guild[k] \in In("guilds", Things) \cup {NoGroup}
      /\ Scope[k] \notin {"users", "self", "channels", "messages"} => Guild[k] # NoGroup
  BY <1>1, <1>2 DEF In
<1>6. /\ Scope[k] = "threads" => Parent[k] \in In("channels", Things)
      /\ Scope[k] = "messages" => Parent[k] \in In("channels", Things) \cup In("threads", Things)
      /\ Scope[k] \notin {"threads", "messages"} => Parent[k] = NoGroup
  BY <1>3
<1> QED
  BY <1>1, <1>4, <1>5, <1>6

LEMMA BelowGuild ==
  ASSUME NEW g \in In("guilds", Things)
  PROVE  Below(g) = {k \in Things : Guild[k] = g}
<1>1. g \in Things /\ Scope[g] = "guilds" /\ Guild[g] = g /\ g # NoGroup
  BY Places DEF In
<1>2. ASSUME NEW k \in Things, Guild[k] = g PROVE k \in Below(g)
  BY <1>2 DEF Below, Inside
<1>3. \A k \in Things : Parent[k] # g /\ Member[k] # g
  BY <1>1, Places DEF In
<1>4. Inside(g) = {k \in Things : k # g /\ Guild[k] = g}
  BY <1>3 DEF Inside
<1>5. ASSUME NEW x \in Inside(g), NEW k \in Inside(x) PROVE k \in Things /\ Guild[k] = g
  <2>1. x \in Things /\ x # g /\ Guild[x] = g /\ x # NoGroup
    BY <1>4, Places
  <2>2. Scope[x] # "guilds"
    BY <2>1, Places
  <2>3. k \in Things /\ (Guild[k] = x \/ Parent[k] = x \/ Member[k] = x)
    BY DEF Inside
  <2>4. Guild[k] # x
    BY <2>1, <2>2, <2>3, Places DEF In
  <2> QED
    BY <2>1, <2>3, <2>4, Places
<1> QED
  BY <1>1, <1>2, <1>4, <1>5 DEF Below

\* What is below something that is no guild.
LEMMA InsideIs ==
  ASSUME NEW k \in Things, Scope[k] # "guilds"
  PROVE  /\ Inside(k) = {x \in Things : Parent[x] = k \/ Member[x] = k}
         /\ Scope[k] \notin {"channels", "threads", "members"} => Inside(k) = {}
         /\ Scope[k] = "members" => Inside(k) = {x \in Things : Member[x] = k}
         /\ Scope[k] \in {"channels", "threads"} => Inside(k) = {x \in Things : Parent[x] = k}
<1>1. \A x \in Things : Guild[x] # k
  BY Places DEF In
<1>2. ASSUME NEW x \in Things
      PROVE  /\ Parent[x] = k => Scope[k] \in {"channels", "threads"} /\ x # k
             /\ Member[x] = k => Scope[k] = "members" /\ x # k
  <2>1. k # NoGroup
    BY Places
  <2> QED
    BY <2>1, Places DEF In
<1> QED
  BY <1>1, <1>2 DEF Inside

LEMMA BelowOthers ==
  ASSUME NEW k \in Things
  PROVE  /\ Scope[k] \in {"channels", "threads"} =>
              Below(k) = {x \in Things : \/ x = k \/ Parent[x] = k
                                         \/ Scope[Parent[x]] = "threads" /\ Parent[Parent[x]] = k
                                            /\ Scope[x] = "messages"}
         /\ Scope[k] = "members" => Below(k) = {k} \cup {x \in Things : Member[x] = k}
         /\ Scope[k] \notin {"guilds", "channels", "threads", "members"} => Below(k) = {k}
<1>1. CASE Scope[k] \in {"channels", "threads"}
  <2>1. Inside(k) = {x \in Things : Parent[x] = k}
    BY <1>1, InsideIs
  <2>2. ASSUME NEW y \in Inside(k), NEW x \in Inside(y)
        PROVE  x \in Things /\ Scope[x] = "messages" /\ Scope[y] = "threads" /\ y = Parent[x] /\ Parent[y] = k
    <3>1. y \in Things /\ Parent[y] = k /\ k # NoGroup
      BY <2>1, Places
    <3>2. Scope[y] \in {"threads", "messages"}
      BY <3>1, Places
    <3>3. Scope[y] = "threads" /\ x \in Things /\ Parent[x] = y
      BY <3>1, <3>2, InsideIs
    <3>4. y # NoGroup
      BY <3>1, Places
    <3>5. Scope[x] \in {"threads", "messages"}
      BY <3>3, <3>4, Places
    <3>6. Scope[x] # "threads"
      BY <3>3, Places DEF In
    <3> QED
      BY <3>1, <3>3, <3>5, <3>6
  <2>3. ASSUME NEW x \in Things, Scope[x] = "messages", Scope[Parent[x]] = "threads",
               Parent[Parent[x]] = k
        PROVE  x \in Inside(Parent[x]) /\ Parent[x] \in Inside(k)
    <3>1. Parent[x] \in Things
      BY <2>3, Places DEF In
    <3> QED
      BY <2>1, <2>3, <3>1, InsideIs
  <2> QED
    BY <1>1, <2>1, <2>2, <2>3 DEF Below
<1>2. CASE Scope[k] = "members"
  <2>1. Inside(k) = {x \in Things : Member[x] = k}
    BY <1>2, InsideIs
  <2>2. ASSUME NEW y \in Inside(k) PROVE Inside(y) = {}
    <3>1. y \in Things /\ Scope[y] \in {"presences", "voiceStates"}
      BY <2>1, Places
    <3> QED
      BY <3>1, InsideIs
  <2> QED
    BY <1>2, <2>1, <2>2 DEF Below
<1>3. CASE Scope[k] \notin {"guilds", "channels", "threads", "members"}
  BY <1>3, InsideIs DEF Below
<1> QED
  BY <1>1, <1>2, <1>3

-----------------------------------------------------------------------------
(* What a dispatch says.                                                   *)

Versions(k) ==
  CASE Scope[k] = "members" -> {0, Listing}
    [] Scope[k] = "messages" -> 0 .. 7 \cup {Stub}
    [] OTHER -> 0 .. 7

LEMMA VersionsAre ==
  ASSUME NEW k
  PROVE  /\ \A v \in Versions(k) : v \in Nat /\ (v \in 0 .. 7 \/ v = Stub)
         /\ Scope[k] # "messages" => \A v \in Versions(k) : v \in 0 .. 7
         /\ Scope[k] = "members" => Versions(k) = {0, 1}
         /\ Scope[k] # "members" => \A v \in 0 .. 7 : v \in Versions(k)
  BY DEF Versions, Listing, Stub

\* The dispatches that tell a part of what they carry; those that put it; what they say of a
\* part; and those they take away.
PatchEvents == {"CHANNEL_PINS_UPDATE", "THREAD_MEMBERS_UPDATE"}
PartOf(event) == IF event = "CHANNEL_PINS_UPDATE" THEN "lo" ELSE "mid"

Raises(d) == IF d.event \in PatchEvents THEN {} ELSE {k \in DOMAIN d.w : Scope[k] \in Scopes}

Stubbed(d, k) == d.event = "MESSAGE_UPDATE" /\ k = d.key /\ d.w[k] = Stub

Tells(d, k, x) ==
  \/ /\ k \in DOMAIN d.w /\ ~Stubbed(d, k)
     /\ d.event \in PatchEvents => x = PartOf(d.event)
     /\ d.event = "CHANNEL_PINS_UPDATE" => Guild[k] # NoGroup
  \/ d.event = "GUILD_ROLE_DELETE" /\ Scope[k] = "members" /\ Guild[k] = Guild[d.key]

Said(d, k) == IF d.event = "GUILD_ROLE_DELETE" THEN 0 ELSE d.w[k]

Reconciled == {"roles", "channels", "threads", "voiceStates", "emojis", "stickers"}

Kills(d) ==
  CASE d.event = "GUILD_CREATE" ->
         {k \in Things : Guild[k] = d.key /\ Scope[k] \in Reconciled} \ DOMAIN d.w
    [] d.event = "GUILD_DELETE" -> {k \in Things : Guild[k] = d.key}
    [] d.event \in {"CHANNEL_DELETE", "THREAD_DELETE", "GUILD_MEMBER_REMOVE"} -> Below(d.key)
    [] d.event = "THREAD_LIST_SYNC" -> {k \in Of("threads", d.key) : Parent[k] \in d.of} \ DOMAIN d.w
    [] d.event = "GUILD_ROLE_DELETE" -> {d.key}
    [] d.event = "MESSAGE_DELETE" -> d.of
    [] d.event = "GUILD_EMOJIS_UPDATE" -> Of("emojis", d.key) \ DOMAIN d.w
    [] d.event = "GUILD_STICKERS_UPDATE" -> Of("stickers", d.key) \ DOMAIN d.w
    [] d.event = "VOICE_STATE_UPDATE" -> {d.key} \ DOMAIN d.w
    [] OTHER -> {}

\* What the payload of each event is.
Alone == {"GUILD_UPDATE", "GUILD_ROLE", "THREAD", "PRESENCE_UPDATE", "CHANNEL_CREATE",
          "CHANNEL_UPDATE", "THREAD_MEMBERS_UPDATE"}

WithAuthor == {"MEMBER", "MESSAGE_CREATE", "MESSAGE_UPDATE"}

WellShaped(d) ==
  /\ d.event = "GUILD_CREATE" =>
       /\ d.key \in In("guilds", Things) \cap DOMAIN d.w
       /\ \A k \in DOMAIN d.w :
            /\ Scope[k] \notin {"messages", "self"}
            /\ Scope[k] # "users" => Guild[k] = d.key
            /\ Scope[k] = "threads" => Parent[k] \in DOMAIN d.w
  /\ d.event \in Alone => DOMAIN d.w = {d.key} /\ d.key \in Cached
  /\ d.event \in {"CHANNEL_UPDATE", "CHANNEL_DELETE"} => d.key \in In("channels", Things)
  /\ d.event = "CHANNEL_PINS_UPDATE" =>
       d.key \in In("channels", Things) \cup In("threads", Things) /\ DOMAIN d.w \subseteq {d.key}
  /\ d.event \in {"THREAD_MEMBERS_UPDATE", "THREAD_DELETE"} => d.key \in In("threads", Things)
  /\ d.event \in WithAuthor =>
       /\ d.key \in DOMAIN d.w /\ Scope[d.key] \in {"members", "messages"}
       /\ \A k \in DOMAIN d.w : k = d.key \/ Scope[k] = "users"
  /\ d.event = "MESSAGE_UPDATE" => Scope[d.key] = "messages"
  /\ d.event \in {"USER_SEEN", "GUILD_MEMBER_REMOVE"} => \A k \in DOMAIN d.w : Scope[k] = "users"
  /\ d.event = "GUILD_MEMBER_REMOVE" => d.key \in In("members", Things)
  /\ d.event \in {"GUILD_DELETE", "GUILD_UNAVAILABLE", "CHANNEL_DELETE", "THREAD_DELETE",
                  "GUILD_ROLE_DELETE", "MESSAGE_DELETE"} => DOMAIN d.w = {}
  /\ d.event \in {"GUILD_DELETE", "THREAD_LIST_SYNC", "GUILD_EMOJIS_UPDATE",
                  "GUILD_STICKERS_UPDATE"} => d.key \in In("guilds", Things)
  /\ d.event = "GUILD_ROLE_DELETE" => d.key \in In("roles", Things)
  /\ d.event = "MESSAGE_DELETE" => d.of \subseteq In("messages", Things)
  /\ d.event = "THREAD_LIST_SYNC" => DOMAIN d.w \subseteq In("threads", Things)
  /\ d.event = "GUILD_EMOJIS_UPDATE" => DOMAIN d.w \subseteq Of("emojis", d.key)
  /\ d.event = "GUILD_STICKERS_UPDATE" => DOMAIN d.w \subseteq Of("stickers", d.key)
  /\ d.event = "VOICE_STATE_UPDATE" =>
       /\ d.key \in In("voiceStates", Things)
       /\ \A k \in DOMAIN d.w : k = d.key \/ Scope[k] \in {"members", "users"}
  /\ d.event = "SELF" => DOMAIN d.w = {d.key} /\ d.key \in In("self", Things)

Proper(d) ==
  /\ Payload(d) /\ WellShaped(d)
  /\ DOMAIN d.w \subseteq Things
  /\ \A k \in DOMAIN d.w : d.w[k] \in Versions(k)

\* A message of a thread that is not cached outlives it.
Strays(c, k, t) ==
  Scope[k] = "messages" /\ Scope[Parent[k]] = "threads" /\ ~IsHeld(c, Parent[k], t)

\* What a handler does to each entity, as the dispatch says.
DoesTo(c, e, d, t, k) ==
  /\ IsHeld(e, k, t) /\ k \in Raises(d) =>
       Held(e, k) = IF Stubbed(d, k) THEN IF IsHeld(c, k, t) THEN Held(c, k) ELSE Stub ELSE d.w[k]
  /\ IsHeld(e, k, t) /\ k \notin Raises(d) =>
       /\ IsHeld(c, k, t)
       /\ (\A x \in Parts : ~Tells(d, k, x)) => Held(e, k) = Held(c, k)
       /\ Held(c, k) \in Versions(k) =>
            /\ Held(e, k) \in Versions(k)
            /\ \A x \in Parts :
                 Part(Held(e, k), x) = IF Tells(d, k, x) THEN Part(Said(d, k), x) ELSE Part(Held(c, k), x)
  /\ k \in Kills(d) => ~IsHeld(e, k, t) \/ Strays(c, k, t)
  /\ KeptWhole(c, k) =>
       /\ k \in Raises(d) => IsHeld(e, k, t)
       /\ IsHeld(c, k, t) /\ ~IsHeld(e, k, t) =>
            k \in Kills(d) \/ (d.event = "CHANNEL_UPDATE" /\ Scope[k] = "threads")

Does(c, e, d, t) ==
  /\ Good(e, t) /\ e.policy = c.policy
  /\ e.self = IF d.event = "SELF" THEN d.w[d.key] ELSE c.self
  /\ \A k \in Cached : DoesTo(c, e, d, t, k)

\* Most handlers put what was sent, and do no more than to take things away.
LEMMA DidDoes ==
  ASSUME NEW c, NEW e, NEW d, NEW t, NEW gone, Did(c, e, Raises(d), gone, d.w, t),
         d.event \notin PatchEvents \cup {"MESSAGE_UPDATE", "GUILD_ROLE_DELETE", "SELF"},
         \A k \in Cached : k \in gone =>
           /\ k \notin Raises(d)
           /\ k \in Kills(d) \/ (d.event = "CHANNEL_UPDATE" /\ Scope[k] = "threads")
              \/ Scope[k] \notin Full,
         \A k \in Cached : k \in Kills(d) => ~IsHeld(e, k, t) \/ Strays(c, k, t)
  PROVE  Does(c, e, d, t)
<1>1. \A k : ~Stubbed(d, k)
  BY DEF Stubbed
<1>2. \A k \in Cached : \A x : Tells(d, k, x) => k \in Raises(d)
  BY DEF Tells, Raises, Cached
<1>3. ASSUME NEW k \in Cached PROVE DoesTo(c, e, d, t, k)
  <2>1. KeptWhole(c, k) => Scope[k] \in Full
    BY DEF KeptWhole
  <2>2. KeptWhole(c, k) /\ k \notin gone /\ (IsHeld(c, k, t) \/ k \in Raises(d)) => IsHeld(e, k, t)
    BY DEF Did
  <2>3. IsHeld(e, k, t) => IF k \in Raises(d) THEN Held(e, k) = d.w[k]
                        ELSE IsHeld(c, k, t) /\ Held(e, k) = Held(c, k)
    BY DEF Did
  <2> QED
    BY <1>1, <1>2, <2>1, <2>2, <2>3 DEF DoesTo
<1> QED
  BY <1>3 DEF Does, Did

-----------------------------------------------------------------------------
(* Each handler.                                                           *)

LEMMA EvictChannelsDoes ==
  ASSUME NEW c, NEW t \in Nat, Good(c, t), NEW ks \in SUBSET Things, NEW w
  PROVE  LET e == EvictChannels(c, ks, t)
             lost == {k \in Cached : k \in ks \/ (Scope[k] = "threads" /\ Parent[k] \in ks)}
         IN /\ Did(c, e, {}, lost, w, t)
            /\ \A k \in Cached : k \in lost /\ Scope[k] \in {"channels", "threads"} => ~IsHeld(e, k, t)
            /\ \A k \in Cached : /\ Scope[k] = "messages"
                                 /\ \/ Parent[k] \in ks
                                    \/ /\ Scope[Parent[k]] = "threads" /\ Parent[Parent[k]] \in ks
                                       /\ IsHeld(c, Parent[k], t)
                                 => ~IsHeld(e, k, t)
<1> DEFINE theirs == UNION {Indexed(c.stores["threads"], ch) : ch \in ks}
           threads == theirs \cap Here(c, "threads", t)
           gone == ks \cup threads
           said == UNION {Indexed(c.stores["messages"], x) : x \in gone}
           c1 == Delete(c, "channels", gone)
           c2 == Delete(c1, "threads", ks \cup theirs)
           c3 == Delete(c2, "messages", said)
           lost == {k \in Cached : k \in ks \/ (Scope[k] = "threads" /\ Parent[k] \in ks)}
<1>1. EvictChannels(c, ks, t) = c3
  BY DEF EvictChannels
<1>2. "channels" \in Scopes /\ "threads" \in Scopes /\ "messages" \in Scopes
  BY DEF Scopes
<1>3. /\ StoreInv(Policies[c.policy]["threads"], c.stores["threads"], t)
      /\ StoreInv(Policies[c.policy]["messages"], c.stores["messages"], t)
      /\ Keys(c.stores["threads"]) \subseteq In("threads", Things)
      /\ Keys(c.stores["messages"]) \subseteq In("messages", Things)
  BY <1>2, StoreOf
<1>4. \A k : k \in theirs <=> k \in Keys(c.stores["threads"]) /\ Parent[k] \in ks
  <2>1. \A ch \in ks : Indexed(c.stores["threads"], ch)
                         = {k \in Keys(c.stores["threads"]) : GroupOf(k) = ch}
    BY <1>3, IndexedIs, Places
  <2>2. \A k \in In("threads", Things) : GroupOf(k) = Parent[k]
    BY DEF GroupOf, In
  <2> QED
    BY <1>3, <2>1, <2>2
<1>5. \A k \in gone : k \in ks \/ (k \in theirs /\ k \in Live(c.stores["threads"], t))
  BY DEF Here
<1>6. \A k : k \in theirs /\ k \in Live(c.stores["threads"], t) => k \in gone
  BY DEF Here
<1> HIDE DEF theirs
<1>7. \A k \in gone : k \in Things
  BY <1>3, <1>4, <1>5 DEF In
<1> HIDE DEF gone, threads
<1>8. \A k : k \in said <=> k \in Keys(c.stores["messages"]) /\ Parent[k] \in gone
  <2>1. \A x \in gone : Indexed(c.stores["messages"], x)
                         = {k \in Keys(c.stores["messages"]) : GroupOf(k) = x}
    BY <1>3, <1>7, IndexedIs, Places
  <2>2. \A k \in In("messages", Things) : GroupOf(k) = Parent[k]
    BY DEF GroupOf, In
  <2> QED
    BY <1>3, <2>1, <2>2
<1> HIDE DEF said
<1>9. /\ Did(c, c1, {}, In("channels", gone), w, t)
      /\ \A k \in Cached : Scope[k] = "channels" /\ k \in gone => ~IsHeld(c1, k, t)
  BY <1>2, DeleteDoes
<1>10. Good(c1, t)
  BY <1>9 DEF Did
<1> HIDE DEF c1
<1>11. /\ Did(c1, c2, {}, In("threads", ks \cup theirs), w, t)
       /\ \A k \in Cached : Scope[k] = "threads" /\ k \in ks \cup theirs => ~IsHeld(c2, k, t)
  BY <1>2, <1>10, DeleteDoes
<1>12. Good(c2, t)
  BY <1>11 DEF Did
<1> HIDE DEF c2
<1>13. /\ Did(c2, c3, {}, In("messages", said), w, t)
       /\ \A k \in Cached : Scope[k] = "messages" /\ k \in said => ~IsHeld(c3, k, t)
  BY <1>2, <1>12, DeleteDoes
<1> HIDE DEF c3
<1>14. /\ \A k \in Cached : IsHeld(c1, k, t) => IsHeld(c, k, t)
       /\ \A k \in Cached : IsHeld(c2, k, t) => IsHeld(c1, k, t)
       /\ \A k \in Cached : IsHeld(c3, k, t) => IsHeld(c2, k, t)
  BY <1>9, <1>11, <1>13 DEF Did
<1>15. Did(c, c3, {}, lost, w, t)
  <2> DEFINE g1 == In("channels", gone)
             g2 == In("threads", ks \cup theirs)
             g3 == In("messages", said)
             all == (((g1 \ {}) \cup g2) \ {}) \cup g3
  <2>1. Did(c, c3, {} \cup {} \cup {}, all, w, t)
    <3> HIDE DEF g1, g2, g3
    <3>1. Did(c, c2, {} \cup {}, (g1 \ {}) \cup g2, w, t)
      BY <1>9, <1>11, DidThen DEF g1, g2
    <3> QED
      BY <1>13, <3>1, DidThen DEF g3
  <2>2. \A k \in Cached : k \in all /\ Scope[k] \in Full => k \in lost
    <3>1. "messages" \notin Full
      BY DEF Full
    <3>2. ASSUME NEW k \in Cached, k \in g1 PROVE k \in lost
      <4>1. Scope[k] = "channels" /\ k \in gone
        BY <3>2 DEF In
      <4>2. k \notin theirs
        BY <1>3, <1>4, <4>1 DEF In
      <4> QED
        BY <1>5, <4>1, <4>2
    <3>3. ASSUME NEW k \in Cached, k \in g2 PROVE k \in lost
      <4>1. Scope[k] = "threads" /\ k \in ks \cup theirs
        BY <3>3 DEF In
      <4> QED
        BY <1>4, <4>1
    <3>4. ASSUME NEW k \in g3 PROVE Scope[k] = "messages"
      BY <3>4 DEF In
    <3> QED
      BY <3>1, <3>2, <3>3, <3>4
  <2>3. {} \cup {} \cup {} = {}
    OBVIOUS
  <2> HIDE DEF all, lost
  <2>4. Did(c, c3, {}, all, w, t)
    BY <2>1, <2>3
  <2> QED
    BY <2>2, <2>4, DidLess
<1>16. ASSUME NEW k \in Cached, k \in lost, Scope[k] \in {"channels", "threads"}
       PROVE  ~IsHeld(c3, k, t)
  <2>1. CASE Scope[k] = "channels"
    <3>1. k \in ks
      BY <1>16, <2>1
    <3>2. k \in gone
      BY <3>1 DEF gone
    <3> QED
      BY <1>9, <1>14, <2>1, <3>2
  <2>2. CASE Scope[k] = "threads"
    <3> SUFFICES ASSUME IsHeld(c3, k, t) PROVE FALSE
      OBVIOUS
    <3>1. IsHeld(c2, k, t) /\ IsHeld(c, k, t)
      BY <1>14
    <3>2. k \in Keys(c.stores["threads"])
      BY <2>2, <3>1 DEF IsHeld, Live
    <3>3. k \in ks \cup theirs
      BY <1>4, <1>16, <3>2
    <3> QED
      BY <1>11, <2>2, <3>1, <3>3
  <2> QED
    BY <1>16, <2>1, <2>2
<1>17. ASSUME NEW k \in Cached, Scope[k] = "messages",
              \/ Parent[k] \in ks
              \/ /\ Scope[Parent[k]] = "threads" /\ Parent[Parent[k]] \in ks
                 /\ IsHeld(c, Parent[k], t)
       PROVE  ~IsHeld(c3, k, t)
  <2> SUFFICES ASSUME IsHeld(c3, k, t) PROVE FALSE
    OBVIOUS
  <2>1. IsHeld(c, k, t)
    BY <1>14
  <2>2. k \in Keys(c.stores["messages"])
    BY <1>17, <2>1 DEF IsHeld, Live
  <2>3. Parent[k] \in gone
    <3>1. CASE Parent[k] \in ks
      BY <3>1 DEF gone
    <3>2. CASE /\ Scope[Parent[k]] = "threads" /\ Parent[Parent[k]] \in ks
               /\ IsHeld(c, Parent[k], t)
      <4>1. Parent[k] \in Live(c.stores["threads"], t)
        BY <3>2 DEF IsHeld
      <4>2. Parent[k] \in theirs
        BY <1>4, <3>2, <4>1 DEF Live
      <4> QED
        BY <1>6, <4>1, <4>2
    <3> QED
      BY <1>17, <3>1, <3>2
  <2>4. k \in said
    BY <1>8, <2>2, <2>3
  <2> QED
    BY <1>13, <1>17, <2>4
<1> QED
  BY <1>1, <1>15, <1>16, <1>17

LEMMA ProperValues ==
  ASSUME NEW d, Proper(d)
  PROVE  /\ IsFiniteSet(DOMAIN d.w) /\ DOMAIN d.w \subseteq Things
         /\ \A k \in DOMAIN d.w : d.w[k] \in Versions(k)
         /\ \A k \in DOMAIN d.w : Scope[k] \in Full => d.w[k] \in 0 .. 7
<1>1. /\ IsFiniteSet(DOMAIN d.w) /\ DOMAIN d.w \subseteq Things
      /\ \A k \in DOMAIN d.w : d.w[k] \in Versions(k)
  BY DEF Proper, Payload
<1>2. "messages" \notin Full
  BY DEF Full
<1> QED
  BY <1>1, <1>2, VersionsAre

\* What is put of one scope.
LEMMA PutScope ==
  ASSUME NEW c, NEW t \in Nat \ {0}, Good(c, t), NEW d, Proper(d), NEW scope \in Scopes
  PROVE  Did(c, PutAll(c, d.w, In(scope, DOMAIN d.w), t), In(scope, DOMAIN d.w), {}, d.w, t)
<1> DEFINE ks == In(scope, DOMAIN d.w)
<1>1. IsFiniteSet(ks)
  BY ProperValues, FiniteParts
<1>2. ks \subseteq Cached /\ ks \subseteq DOMAIN d.w
  BY ProperValues DEF Cached, In
<1>3. \A k \in ks : Scope[k] \in Full => d.w[k] \in 0 .. 7
  BY <1>2, ProperValues
<1> HIDE DEF ks
<1> QED
  BY <1>1, <1>2, <1>3, PutAllDoes DEF ks

LEMMA UsersDo ==
  ASSUME NEW c, NEW t \in Nat \ {0}, Good(c, t), NEW d, Proper(d)
  PROVE  Did(c, UpsertUsers(c, d.w, t), In("users", DOMAIN d.w), {}, d.w, t)
<1>1. "users" \in Scopes
  BY DEF Scopes
<1> QED
  BY <1>1, PutScope DEF UpsertUsers

LEMMA PutOne ==
  ASSUME NEW c, NEW t \in Nat \ {0}, Good(c, t), NEW d, Proper(d), d.key \in DOMAIN d.w,
         d.key \in Cached
  PROVE  Did(c, Put(c, d.key, d.w[d.key], t), {d.key}, {}, d.w, t)
  BY ProperValues, PutDoes

LEMMA SimpleDoes ==
  ASSUME NEW c, NEW t \in Nat \ {0}, Good(c, t), NEW d, Proper(d),
         d.event \in {"GUILD_UPDATE", "GUILD_ROLE", "THREAD", "PRESENCE_UPDATE", "CHANNEL_CREATE"}
  PROVE  Does(c, Put(c, d.key, d.w[d.key], t), d, t)
<1> DEFINE e == Put(c, d.key, d.w[d.key], t)
<1>1. DOMAIN d.w = {d.key} /\ d.key \in Cached
  BY DEF Proper, WellShaped, Alone
<1>2. Raises(d) = {d.key}
  BY <1>1 DEF Raises, PatchEvents, Cached
<1>3. Did(c, e, Raises(d), {}, d.w, t)
  BY <1>1, <1>2, PutOne
<1>4. Kills(d) = {}
  BY DEF Kills
<1>5. d.event \notin PatchEvents \cup {"MESSAGE_UPDATE", "GUILD_ROLE_DELETE", "SELF"}
  BY DEF PatchEvents
<1> HIDE DEF e
<1> QED
  BY <1>3, <1>4, <1>5, DidDoes DEF e

\* Of each store some keys are evicted.
LEMMA EvictEach ==
  ASSUME NEW c, NEW t \in Nat, Good(c, t), NEW f, NEW w,
         NEW e, e = [c EXCEPT !.stores = [scope \in Scopes |-> Evict(c.stores[scope], f[scope])]]
  PROVE  /\ Did(c, e, {}, {k \in Cached : k \in f[Scope[k]]}, w, t)
         /\ \A k \in Cached : k \in f[Scope[k]] => ~IsHeld(e, k, t)
<1> DEFINE stores == [scope \in Scopes |-> Evict(c.stores[scope], f[scope])]
<1>1. \A scope \in Scopes : stores[scope] = Evict(c.stores[scope], f[scope])
  OBVIOUS
<1> HIDE DEF stores
<1>2. c = [policy |-> c.policy, stores |-> c.stores, self |-> c.self]
  BY DEF Good, CacheInv
<1>3. e.policy = c.policy /\ e.self = c.self /\ e.stores = stores
  BY <1>2 DEF stores
<1>4. ASSUME NEW scope \in Scopes
      PROVE  /\ StoreInv(Policies[c.policy][scope], stores[scope], t)
             /\ Keys(stores[scope]) = Keys(c.stores[scope]) \ f[scope]
             /\ Within(stores[scope], c.stores[scope])
             /\ Keys(stores[scope]) \subseteq In(scope, Things)
  <2>1. /\ PolicyOK(Policies[c.policy][scope])
        /\ StoreInv(Policies[c.policy][scope], c.stores[scope], t)
        /\ Keys(c.stores[scope]) \subseteq In(scope, Things)
    BY StoreOf
  <2>2. /\ StoreInv(Policies[c.policy][scope], stores[scope], t)
        /\ Keys(stores[scope]) = Keys(c.stores[scope]) \ f[scope]
        /\ Within(stores[scope], c.stores[scope])
    BY <1>1, <2>1, EvictDoes, EvictSound
  <2> QED
    BY <2>1, <2>2
<1>5. Good(e, t)
  <2>1. CacheInv([c EXCEPT !.stores = [scope \in Scopes |-> stores[scope]]], t)
    BY <1>4, StoresSound DEF Good
  <2>2. stores = [scope \in Scopes |-> stores[scope]]
    BY DEF stores
  <2>3. CacheInv(e, t)
    BY <2>1, <2>2 DEF stores
  <2> QED
    BY <1>3, <1>4, <2>3 DEF Good
<1>6. ASSUME NEW k \in Cached
      PROVE  /\ IsHeld(e, k, t) => IsHeld(c, k, t) /\ Held(e, k) = Held(c, k) /\ k \notin f[Scope[k]]
             /\ IsHeld(c, k, t) /\ k \notin f[Scope[k]] => IsHeld(e, k, t)
  <2>1. Scope[k] \in Scopes
    BY DEF Cached
  <2>2. /\ \A x \in Live(stores[Scope[k]], t) :
             x \in Live(c.stores[Scope[k]], t) /\ Value(stores[Scope[k]], x) = Value(c.stores[Scope[k]], x)
        /\ \A x \in Live(c.stores[Scope[k]], t) :
             x \in Keys(stores[Scope[k]]) => x \in Live(stores[Scope[k]], t)
    BY <1>4, <2>1, WithinIsLive
  <2> QED
    BY <1>3, <1>4, <2>1, <2>2 DEF IsHeld, Held, Live
<1> QED
  BY <1>3, <1>5, <1>6 DEF Did

LEMMA GuildDeleteDoes ==
  ASSUME NEW c, NEW t \in Nat \ {0}, Good(c, t), NEW d, Proper(d), d.event = "GUILD_DELETE"
  PROVE  Does(c, EvictGuild(c, d.key, t), d, t)
<1> DEFINE g == d.key
           F(scope) == CASE scope = "guilds" -> {g}
                         [] scope \in {"threads", "messages"} ->
                              {k \in Live(c.stores[scope], t) : Guild[k] = g}
                         [] OTHER -> Indexed(c.stores[scope], g)
           f == [scope \in Scopes |-> F(scope)]
           e == EvictGuild(c, g, t)
           lost == {k \in Cached : k \in f[Scope[k]]}
<1>1. g \in In("guilds", Things) /\ DOMAIN d.w = {} /\ g # NoGroup
  BY Places DEF Proper, WellShaped, In
<1>2. Kills(d) = {k \in Things : Guild[k] = g} /\ Raises(d) = {}
  BY <1>1 DEF Kills, Raises
<1>3. e = [c EXCEPT !.stores = [scope \in Scopes |-> Evict(c.stores[scope], f[scope])]]
  <2>1. \A scope \in Scopes :
          (CASE scope = "guilds" -> Evict(c.stores[scope], {g})
             [] scope \in {"threads", "messages"} ->
                  Evict(c.stores[scope], {k \in Live(c.stores[scope], t) : Guild[k] = g})
             [] OTHER -> Evict(c.stores[scope], Indexed(c.stores[scope], g)))
          = Evict(c.stores[scope], f[scope])
    OBVIOUS
  <2> HIDE DEF f, g
  <2> QED
    BY <2>1 DEF EvictGuild
<1>4. ASSUME NEW k \in Cached, Guild[k] = g, IsHeld(c, k, t) PROVE k \in f[Scope[k]]
  <2>1. Scope[k] \in Scopes /\ k \in Things
    BY DEF Cached
  <2>2. f[Scope[k]] = F(Scope[k])
    BY <2>1
  <2>3. CASE Scope[k] = "guilds"
    <3>1. k = g
      BY <1>4, <2>1, <2>3, Places
    <3> QED
      BY <2>2, <2>3, <3>1
  <2>4. CASE Scope[k] \in {"threads", "messages"}
    BY <1>4, <2>2, <2>4 DEF IsHeld
  <2>5. CASE Scope[k] \notin {"guilds", "threads", "messages"}
    <3>1. Scope[k] # "users" /\ Scope[k] # "self"
      BY <1>1, <1>4, <2>1, Places
    <3>2. GroupOf(k) = g
      BY <1>4, <2>5, <3>1 DEF GroupOf
    <3>3. k \in Keys(c.stores[Scope[k]])
      BY <1>4 DEF IsHeld, Live
    <3>4. k \in Indexed(c.stores[Scope[k]], g)
      BY <1>1, <2>1, <3>2, <3>3, StoreOf, IndexedIs
    <3> QED
      BY <2>2, <2>5, <3>4
  <2> QED
    BY <2>3, <2>4, <2>5
<1>5. ASSUME NEW k \in Cached, k \in f[Scope[k]] PROVE Guild[k] = g
  <2>1. Scope[k] \in Scopes /\ k \in Things
    BY DEF Cached
  <2>2. k \in F(Scope[k])
    BY <1>5, <2>1
  <2>3. CASE Scope[k] = "guilds"
    BY <2>1, <2>2, <2>3, Places
  <2>4. CASE Scope[k] \in {"threads", "messages"}
    BY <2>2, <2>4
  <2>5. CASE Scope[k] \notin {"guilds", "threads", "messages"}
    <3>1. k \in Indexed(c.stores[Scope[k]], g)
      BY <2>2, <2>5
    <3>2. GroupOf(k) = g
      BY <2>1, <3>1, StoreOf, IndexedIs
    <3> QED
      BY <1>1, <2>5, <3>2 DEF GroupOf
  <2> QED
    BY <2>3, <2>4, <2>5
<1> HIDE DEF f, e, g
<1>6. /\ Did(c, e, {}, lost, d.w, t)
      /\ \A k \in Cached : k \in f[Scope[k]] => ~IsHeld(e, k, t)
  BY <1>3, EvictEach
<1>7. \A k \in Cached : IsHeld(e, k, t) => IsHeld(c, k, t)
  BY <1>6 DEF Did
<1>8. \A k \in Cached : k \in Kills(d) => ~IsHeld(e, k, t)
  BY <1>2, <1>4, <1>6, <1>7
<1>9. \A k \in Cached : k \in lost => k \notin Raises(d) /\ k \in Kills(d)
  BY <1>2, <1>5 DEF Cached
<1>10. d.event \notin PatchEvents \cup {"MESSAGE_UPDATE", "GUILD_ROLE_DELETE", "SELF"}
  BY DEF PatchEvents
<1> HIDE DEF lost
<1>11. Did(c, e, Raises(d), lost, d.w, t)
  BY <1>2, <1>6
<1> QED
  BY <1>8, <1>9, <1>10, <1>11, DidDoes DEF e, g

LEMMA ChannelUpdateDoes ==
  ASSUME NEW c, NEW t \in Nat \ {0}, Good(c, t), NEW d, Proper(d), d.event = "CHANNEL_UPDATE"
  PROVE  Does(c, ChannelUpdate(c, d, t), d, t)
<1> DEFINE ks == {d.key}
           b == EvictChannels(c, ks, t)
           lost == {k \in Cached : k \in ks \/ (Scope[k] = "threads" /\ Parent[k] \in ks)}
           P(x) == Put(x, d.key, d.w[d.key], t)
           e == ChannelUpdate(c, d, t)
<1>1. DOMAIN d.w = {d.key} /\ d.key \in Cached /\ d.key \in Things
  BY DEF Proper, WellShaped, Alone, Cached
<1>2. e = P(c) \/ e = P(b)
  BY DEF ChannelUpdate
<1>3. Raises(d) = ks /\ Kills(d) = {}
  BY <1>1 DEF Raises, PatchEvents, Cached, Kills
<1>4. Did(c, b, {}, lost, d.w, t)
  <2>1. t \in Nat
    OBVIOUS
  <2> HIDE DEF ks
  <2>2. ks \in SUBSET Things
    BY <1>1 DEF ks
  <2> QED
    BY <2>1, <2>2, EvictChannelsDoes
<1> HIDE DEF b
<1>5. Good(b, t)
  BY <1>4 DEF Did
<1>6. Did(c, P(c), ks, {}, d.w, t) /\ Did(b, P(b), ks, {}, d.w, t)
  BY <1>1, <1>5, PutOne
<1> HIDE DEF P, ks
<1>7. Did(c, P(b), ks, lost \ ks, d.w, t)
  <2>1. Did(c, P(b), {} \cup ks, (lost \ ks) \cup {}, d.w, t)
    <3> HIDE DEF lost
    <3> QED
      BY <1>4, <1>6, DidThen
  <2>2. {} \cup ks = ks /\ (lost \ ks) \cup {} = lost \ ks
    OBVIOUS
  <2> QED
    BY <2>1, <2>2
<1>8. Did(c, P(c), ks, lost \ ks, d.w, t)
  BY <1>6, DidLess
<1>9. Did(c, e, Raises(d), lost \ ks, d.w, t)
  BY <1>2, <1>3, <1>7, <1>8
<1>10. \A k \in Cached : k \in lost \ ks => k \notin Raises(d) /\ Scope[k] = "threads"
  BY <1>3
<1>11. d.event \notin PatchEvents \cup {"MESSAGE_UPDATE", "GUILD_ROLE_DELETE", "SELF"}
  BY DEF PatchEvents
<1> HIDE DEF e, lost
<1> QED
  BY <1>3, <1>9, <1>10, <1>11, DidDoes DEF e

\* evictChannel of a channel or of a thread.
LEMMA ChannelDeleteDoes ==
  ASSUME NEW c, NEW t \in Nat \ {0}, Good(c, t), NEW d, Proper(d),
         d.event \in {"CHANNEL_DELETE", "THREAD_DELETE"}
  PROVE  Does(c, EvictChannels(c, {d.key}, t), d, t)
<1> DEFINE ks == {d.key}
           e == EvictChannels(c, ks, t)
           lost == {k \in Cached : k \in ks \/ (Scope[k] = "threads" /\ Parent[k] \in ks)}
<1>1. DOMAIN d.w = {} /\ d.key \in Things /\ Scope[d.key] \in {"channels", "threads"}
  BY DEF Proper, WellShaped, In
<1>2. Raises(d) = {} /\ Kills(d) = Below(d.key)
  BY <1>1 DEF Raises, Kills
<1>3. Below(d.key) = {x \in Things : \/ x = d.key \/ Parent[x] = d.key
                                     \/ Scope[Parent[x]] = "threads" /\ Parent[Parent[x]] = d.key
                                        /\ Scope[x] = "messages"}
  BY <1>1, BelowOthers
<1>4. t \in Nat
  OBVIOUS
<1> HIDE DEF ks
<1>5. ks \in SUBSET Things /\ \A x : x \in ks <=> x = d.key
  BY <1>1 DEF ks
<1>6. /\ Did(c, e, {}, lost, d.w, t)
      /\ \A k \in Cached : k \in lost /\ Scope[k] \in {"channels", "threads"} => ~IsHeld(e, k, t)
      /\ \A k \in Cached : /\ Scope[k] = "messages"
                           /\ \/ Parent[k] \in ks
                              \/ /\ Scope[Parent[k]] = "threads" /\ Parent[Parent[k]] \in ks
                                 /\ IsHeld(c, Parent[k], t)
                           => ~IsHeld(e, k, t)
  BY <1>4, <1>5, EvictChannelsDoes
<1> HIDE DEF e
<1>7. ASSUME NEW k \in Cached, k \in Kills(d) PROVE ~IsHeld(e, k, t) \/ Strays(c, k, t)
  <2>1. k \in Things
    BY DEF Cached
  <2>2. CASE k = d.key
    BY <1>1, <1>5, <1>6, <2>2
  <2>3. CASE Parent[k] = d.key
    <3>1. Scope[k] \in {"threads", "messages"}
      BY <1>1, <2>1, <2>3, Places
    <3>2. Scope[k] = "threads" => k \in lost
      BY <1>5, <2>3
    <3> QED
      BY <1>5, <1>6, <2>3, <3>1, <3>2
  <2>4. CASE Scope[Parent[k]] = "threads" /\ Parent[Parent[k]] = d.key /\ Scope[k] = "messages"
    BY <1>5, <1>6, <2>4 DEF Strays
  <2> QED
    BY <1>2, <1>3, <1>7, <2>2, <2>3, <2>4
<1>8. \A k \in Cached : k \in lost => k \notin Raises(d) /\ k \in Kills(d)
  BY <1>2, <1>3, <1>5 DEF Cached
<1>9. d.event \notin PatchEvents \cup {"MESSAGE_UPDATE", "GUILD_ROLE_DELETE", "SELF"}
  BY DEF PatchEvents
<1>10. Did(c, e, Raises(d), lost, d.w, t)
  BY <1>2, <1>6
<1> HIDE DEF lost
<1> QED
  BY <1>7, <1>8, <1>9, <1>10, DidDoes DEF e, ks

\* The values of what is cached are versions.
Typed(c, t) == \A k \in Cached : IsHeld(c, k, t) => Held(c, k) \in Versions(k)

\* Of a cached channel or thread one part is changed, or nothing.
LEMMA PatchDoes ==
  ASSUME NEW c, NEW t, Typed(c, t), NEW d, Proper(d), d.event \in PatchEvents, NEW e,
         NEW v, NEW told \in BOOLEAN,
         \A x : Tells(d, d.key, x) <=> told /\ x = PartOf(d.event),
         IsHeld(c, d.key, t) /\ told =>
           /\ v \in 0 .. 7 /\ d.key \in DOMAIN d.w
           /\ \A x \in Parts : Part(v, x) = Part(IF x = PartOf(d.event) THEN d.w[d.key]
                                                ELSE Held(c, d.key), x),
         IF IsHeld(c, d.key, t) /\ told THEN Did(c, e, {d.key}, {}, [k \in {d.key} |-> v], t)
         ELSE Did(c, e, {}, {}, d.w, t)
  PROVE  Does(c, e, d, t)
<1>1. /\ DOMAIN d.w \subseteq {d.key} /\ d.key \in Cached /\ Scope[d.key] \in {"channels", "threads"}
  BY DEF Proper, WellShaped, Alone, PatchEvents, In, Cached, Scopes
<1>2. Raises(d) = {} /\ Kills(d) = {}
  BY DEF Raises, Kills, PatchEvents
<1>3. d.event \notin {"MESSAGE_UPDATE", "GUILD_ROLE_DELETE", "SELF"}
  BY DEF PatchEvents
<1>4. /\ \A k : k # d.key => \A x : ~Tells(d, k, x)
      /\ \A k : Said(d, k) = d.w[k]
  BY <1>1, <1>3 DEF Tells, Said
<1>6. /\ Good(e, t) /\ e.policy = c.policy /\ e.self = c.self
      /\ \A k \in Cached : IsHeld(e, k, t) =>
           IsHeld(c, k, t) /\ Held(e, k) = IF k = d.key /\ told THEN v ELSE Held(c, k)
      /\ \A k \in Cached : KeptWhole(c, k) /\ IsHeld(c, k, t) => IsHeld(e, k, t)
  <2>1. CASE IsHeld(c, d.key, t) /\ told
    BY <2>1 DEF Did
  <2>2. CASE ~(IsHeld(c, d.key, t) /\ told)
    BY <2>2 DEF Did
  <2> QED
    BY <2>1, <2>2
<1>7. ASSUME NEW k \in Cached PROVE DoesTo(c, e, d, t, k)
  <2>1. CASE k # d.key \/ ~told
    <3>1. \A x : ~Tells(d, k, x)
      BY <1>4, <2>1
    <3>2. IsHeld(e, k, t) => IsHeld(c, k, t) /\ Held(e, k) = Held(c, k)
      BY <1>6, <2>1
    <3> QED
      BY <1>2, <1>6, <3>1, <3>2 DEF DoesTo
  <2>2. CASE k = d.key /\ told
    <3>1. PartOf(d.event) \in Parts
      BY DEF PartOf, Parts
    <3>2. ASSUME IsHeld(e, k, t)
          PROVE  /\ IsHeld(c, k, t) /\ Held(e, k) = v /\ v \in Versions(k)
                 /\ \A x \in Parts :
                      Part(Held(e, k), x) = IF Tells(d, k, x) THEN Part(Said(d, k), x)
                                            ELSE Part(Held(c, k), x)
      <4>1. IsHeld(c, k, t) /\ Held(e, k) = v
        BY <1>6, <2>2, <3>2
      <4>2. v \in 0 .. 7 /\ \A x \in Parts : Part(v, x) = Part(IF x = PartOf(d.event) THEN d.w[d.key]
                                                           ELSE Held(c, d.key), x)
        BY <2>2, <4>1
      <4>3. v \in Versions(k)
        BY <1>1, <2>2, <4>2, VersionsAre
      <4>4. \A x \in Parts : Tells(d, k, x) <=> x = PartOf(d.event)
        BY <2>2
      <4> QED
        BY <1>4, <2>2, <4>1, <4>2, <4>3, <4>4
    <3>3. ~ \A x \in Parts : ~Tells(d, k, x)
      BY <2>2, <3>1
    <3> QED
      BY <1>2, <1>6, <3>2, <3>3 DEF DoesTo
  <2> QED
    BY <2>1, <2>2
<1> QED
  BY <1>3, <1>6, <1>7 DEF Does

\* Both looks leave a good cache with the same in it, and find the key in the store of its scope.
LEMMA PinsSought ==
  ASSUME NEW c, NEW t \in Nat \ {0}, Good(c, t), NEW k,
         k \in In("channels", Things) \cup In("threads", Things)
  PROVE  LET scope == IF k \in Here(c, "channels", t) THEN "channels" ELSE "threads"
             c1 == OnStore(c, "channels", Got(c.stores["channels"], k, t))
             c2 == OnStore(c1, scope, Got(c1.stores[scope], k, t))
         IN /\ Good(c2, t) /\ \A w : Did(c, c2, {}, {}, w, t)
            /\ k \in Here(c, scope, t) <=> IsHeld(c, k, t)
            /\ IsHeld(c, k, t) => scope = Scope[k] /\ c2 = c
            /\ ~IsHeld(c, k, t) => \A x \in {"channels", "threads"} : k \notin Keys(c2.stores[x])
<1> DEFINE scope == IF k \in Here(c, "channels", t) THEN "channels" ELSE "threads"
           c1 == OnStore(c, "channels", Got(c.stores["channels"], k, t))
           c2 == OnStore(c1, scope, Got(c1.stores[scope], k, t))
<1>1. /\ t \in Nat /\ "channels" \in Scopes /\ "threads" \in Scopes /\ scope \in Scopes
      /\ k \in Cached /\ Scope[k] \in {"channels", "threads"} /\ CacheInv(c, t)
  BY DEF In, Scopes, Cached, Good
<1>2. \A x \in {"channels", "threads"} : Scope[k] # x => k \notin Keys(c.stores[x])
  BY <1>1 DEF Good, In
<1>3. /\ k \in Here(c, scope, t) <=> IsHeld(c, k, t)
      /\ IsHeld(c, k, t) => scope = Scope[k]
  BY <1>1, <1>2 DEF Here, IsHeld, Live
<1>4. \A w : Did(c, c1, {}, {}, w, t)
  BY <1>1, LookDoes
<1>5. Good(c1, t)
  BY <1>4 DEF Did
<1> HIDE DEF c1
<1>6. \A w : Did(c1, c2, {}, {}, w, t)
  BY <1>1, <1>5, LookDoes
<1>7. Good(c2, t)
  BY <1>6 DEF Did
<1> HIDE DEF c2
<1>8. \A w : Did(c, c2, {}, {}, w, t)
  BY <1>4, <1>6 DEF Did, KeptWhole
<1>9. ASSUME IsHeld(c, k, t) PROVE c2 = c
  <2>1. \A x \in Scopes : k \in Live(c.stores[x], t) =>
          OnStore(c, x, Got(c.stores[x], k, t)) = c
    <3> TAKE x \in Scopes
    <3>1. OnStore(c, x, Evict(c.stores[x], {})) = c
      BY <1>1, DeleteNone
    <3> QED
      BY <3>1 DEF Got
  <2>2. CASE Scope[k] = "channels"
    <3>1. c1 = c
      BY <1>1, <1>9, <2>1, <2>2 DEF IsHeld, c1
    <3> QED
      BY <1>1, <1>3, <1>9, <2>1, <2>2, <3>1 DEF IsHeld, c2
  <2>3. CASE Scope[k] = "threads"
    <3>1. c1 = c
      BY <1>1, <1>2, <2>3, GotNone DEF c1
    <3> QED
      BY <1>1, <1>3, <1>9, <2>1, <2>3, <3>1 DEF IsHeld, c2
  <2> QED
    BY <1>1, <2>2, <2>3
<1>10. ASSUME ~IsHeld(c, k, t), NEW x \in {"channels", "threads"} PROVE k \notin Keys(c2.stores[x])
  <2>1. scope = "threads" /\ k \notin Live(c.stores["channels"], t)
    BY <1>1, <1>2, <1>10 DEF IsHeld, Live, Here
  <2>2. c1 = Delete(c, "channels", {k})
    BY <2>1 DEF Got, Delete, c1
  <2>3. /\ CacheInv(c1, t) /\ Only(c, c1, "channels") /\ k \notin Keys(c1.stores["channels"])
    BY <1>1, <2>2, DeleteIs
  <2>4. c1.stores["threads"] = c.stores["threads"]
    BY <1>1, <2>3 DEF Only
  <2>5. k \notin Live(c1.stores["threads"], t)
    BY <1>1, <1>2, <1>10, <2>4 DEF IsHeld, Live
  <2>6. c2 = Delete(c1, "threads", {k})
    BY <2>1, <2>5 DEF Got, Delete, c2
  <2>7. /\ Only(c1, c2, "threads") /\ k \notin Keys(c2.stores["threads"])
    BY <1>1, <2>3, <2>6, DeleteIs
  <2>8. c2.stores["channels"] = c1.stores["channels"]
    BY <1>1, <2>7 DEF Only
  <2> QED
    BY <2>3, <2>7, <2>8
<1> QED
  BY <1>3, <1>7, <1>8, <1>9, <1>10 DEF c2, c1

\* Of which channel or thread the pins are told.
Pinned(d) == Guild[d.key] # NoGroup /\ d.key \in DOMAIN d.w

LEMMA ChannelPinsUpdateDoes ==
  ASSUME NEW c, NEW t \in Nat \ {0}, Good(c, t), Typed(c, t), NEW d, Proper(d),
         d.event = "CHANNEL_PINS_UPDATE"
  PROVE  Does(c, ChannelPinsUpdate(c, d, t), d, t)
<1> DEFINE k == d.key
           scope == IF k \in Here(c, "channels", t) THEN "channels" ELSE "threads"
           c1 == OnStore(c, "channels", Got(c.stores["channels"], k, t))
           c2 == OnStore(c1, scope, Got(c1.stores[scope], k, t))
           v == WithPin(Value(c.stores[scope], k), Pin(d.w[k]))
           e == ChannelPinsUpdate(c, d, t)
<1>1. /\ k \in Cached /\ Scope[k] \in {"channels", "threads"} /\ t \in Nat /\ scope \in Scopes
      /\ k \in In("channels", Things) \cup In("threads", Things)
      /\ d.event \in PatchEvents /\ PartOf(d.event) = "lo"
  BY DEF Proper, WellShaped, In, Scopes, Cached, PatchEvents, PartOf
<1>2. /\ Pinned(d) => \A x : Tells(d, k, x) <=> x = PartOf(d.event)
      /\ ~Pinned(d) => \A x : ~Tells(d, k, x)
  BY <1>1 DEF Pinned, Tells, Stubbed
<1>3. e = IF k \in Here(c, scope, t) /\ Pinned(d) THEN Assign(c2, scope, {k}, v) ELSE c2
  BY DEF ChannelPinsUpdate, Pinned
<1>4. /\ \A w : Did(c, c2, {}, {}, w, t)
      /\ k \in Here(c, scope, t) <=> IsHeld(c, k, t)
      /\ IsHeld(c, k, t) => scope = Scope[k] /\ c2 = c
  BY <1>1, PinsSought
<1> HIDE DEF e, c2, c1, scope
<1>5. ASSUME IsHeld(c, k, t), Pinned(d)
      PROVE  /\ v \in 0 .. 7 /\ k \in DOMAIN d.w
             /\ \A x \in Parts : Part(v, x) = Part(IF x = PartOf(d.event) THEN d.w[k]
                                                  ELSE Held(c, k), x)
             /\ Did(c, e, {k}, {}, [x \in {k} |-> v], t)
  <2>1. k \in DOMAIN d.w
    BY <1>5 DEF Pinned
  <2>2. Held(c, k) \in 0 .. 7 /\ d.w[k] \in 0 .. 7
    BY <1>1, <1>5, <2>1, VersionsAre DEF Typed, Proper
  <2>3. Held(c, k) = Value(c.stores[scope], k)
    BY <1>4, <1>5 DEF Held
  <2>4. v \in 0 .. 7 /\ \A x \in Parts : Part(v, x) = Part(IF x = "lo" THEN d.w[k] ELSE Held(c, k), x)
    BY <2>2, <2>3, ChangesPart
  <2> DEFINE w == [x \in {k} |-> v]
  <2>5. {k} \subseteq Live(c.stores[scope], t) /\ \A x \in {k} : w[x] = v
    BY <1>4, <1>5 DEF IsHeld
  <2>6. e = Assign(c, scope, {k}, v)
    BY <1>3, <1>4, <1>5
  <2> HIDE DEF v, w
  <2>7. Did(c, e, {k}, {}, w, t)
    BY <1>1, <2>5, <2>6, AssignDoes
  <2> QED
    BY <1>1, <2>1, <2>4, <2>7 DEF w
<1>6. ~(IsHeld(c, k, t) /\ Pinned(d)) => Did(c, e, {}, {}, d.w, t)
  BY <1>3, <1>4
<1> HIDE DEF v
<1> DEFINE told == Pinned(d)
<1>7. told \in BOOLEAN /\ \A x : Tells(d, d.key, x) <=> told /\ x = PartOf(d.event)
  BY <1>2 DEF Pinned
<1>8. /\ IsHeld(c, d.key, t) /\ told =>
           /\ v \in 0 .. 7 /\ d.key \in DOMAIN d.w
           /\ \A x \in Parts : Part(v, x) = Part(IF x = PartOf(d.event) THEN d.w[d.key]
                                                ELSE Held(c, d.key), x)
      /\ IF IsHeld(c, d.key, t) /\ told THEN Did(c, e, {d.key}, {}, [x \in {d.key} |-> v], t)
         ELSE Did(c, e, {}, {}, d.w, t)
  BY <1>5, <1>6
<1> HIDE DEF told
<1> QED
  BY <1>1, <1>7, <1>8, PatchDoes DEF e

LEMMA ThreadMembersUpdateDoes ==
  ASSUME NEW c, NEW t \in Nat \ {0}, Good(c, t), Typed(c, t), NEW d, Proper(d),
         d.event = "THREAD_MEMBERS_UPDATE"
  PROVE  Does(c, ThreadMembersUpdate(c, d, t), d, t)
<1> DEFINE k == d.key
           v == NewCount(Value(c.stores["threads"], k), Count(d.w[k]))
           w == [x \in {k} |-> v]
           e == ThreadMembersUpdate(c, d, t)
<1>1. /\ k \in Cached /\ Scope[k] = "threads" /\ "threads" \in Scopes /\ t \in Nat
      /\ k \in DOMAIN d.w
  BY DEF Proper, WellShaped, Alone, In, Scopes
<1>2. IsHeld(c, k, t) <=> k \in Live(c.stores["threads"], t)
  BY <1>1 DEF IsHeld
<1>3. IsHeld(c, k, t) =>
        v \in 0 .. 7 /\ \A x \in Parts : Part(v, x) = Part(IF x = "mid" THEN d.w[k] ELSE Held(c, k), x)
  <2>1. IsHeld(c, k, t) => Held(c, k) \in 0 .. 7 /\ d.w[k] \in 0 .. 7
    BY <1>1, VersionsAre DEF Typed, Proper
  <2>2. Held(c, k) = Value(c.stores["threads"], k)
    BY <1>1 DEF Held
  <2> QED
    BY <2>1, <2>2, ChangesPart
<1> DEFINE told == TRUE
<1>0. /\ told \in BOOLEAN /\ told /\ PartOf(d.event) = "mid" /\ d.event \in PatchEvents
      /\ \A x : Tells(d, d.key, x) <=> told /\ x = PartOf(d.event)
  BY <1>1 DEF Tells, Stubbed, PartOf, PatchEvents
<1> HIDE DEF told
<1>4. CASE IsHeld(c, k, t)
  <2>1. e = Put(c, k, v, t)
    BY <1>2, <1>4 DEF ThreadMembersUpdate
  <2>2. v \in 0 .. 7
    BY <1>3, <1>4
  <2>3. Did(c, Put(c, k, v, t), {k}, {}, w, t)
    <3>1. w[k] = v
      OBVIOUS
    <3> HIDE DEF v, w
    <3> QED
      BY <1>1, <2>2, <3>1, PutDoes
  <2> HIDE DEF e, v, w
  <2>4. Did(c, e, {k}, {}, [x \in {k} |-> v], t)
    BY <2>1, <2>3 DEF w
  <2> QED
    BY <1>0, <1>1, <1>3, <1>4, <2>4, PatchDoes DEF e
<1>5. CASE ~IsHeld(c, k, t)
  <2>1. e = OnStore(c, "threads", Got(c.stores["threads"], k, t))
    BY <1>2, <1>5 DEF ThreadMembersUpdate
  <2>2. Did(c, e, {}, {}, d.w, t)
    BY <1>1, <2>1, LookDoes
  <2> HIDE DEF e, v
  <2> QED
    BY <1>0, <1>1, <1>3, <1>5, <2>2, PatchDoes DEF e
<1> QED
  BY <1>4, <1>5

LEMMA RoleDeleteDoes ==
  ASSUME NEW c, NEW t \in Nat \ {0}, Good(c, t), Typed(c, t), NEW d, Proper(d),
         d.event = "GUILD_ROLE_DELETE"
  PROVE  Does(c, RoleDelete(c, d, t), d, t)
<1> DEFINE g == Guild[d.key]
           c1 == Delete(c, "roles", {d.key})
           s == c1.stores["members"]
           listing == {m \in Group(s, g, t) : Value(s, m) = Listing}
           looked == OnStore(c1, "members", Looked(s, g, t))
           e == RoleDelete(c, d, t)
           w == [x \in listing |-> 0]
           lost == In("roles", {d.key})
<1>1. /\ d.key \in Cached /\ d.key \in Things /\ Scope[d.key] = "roles" /\ DOMAIN d.w = {}
      /\ "roles" \in Scopes /\ "members" \in Scopes /\ t \in Nat
  BY DEF Proper, WellShaped, In, Cached, Scopes
<1>2. e = Assign(looked, "members", listing, 0)
  BY DEF RoleDelete
<1>3. g # NoGroup /\ g \in In("guilds", Things)
  BY <1>1, Places
<1>4. /\ Did(c, c1, {}, lost, w, t)
      /\ \A k \in Cached : Scope[k] = "roles" /\ k = d.key => ~IsHeld(c1, k, t)
  <2> DEFINE ks == {d.key}
  <2>1. \A k : k = d.key => k \in ks
    OBVIOUS
  <2> HIDE DEF ks
  <2>2. /\ Did(c, Delete(c, "roles", ks), {}, In("roles", ks), w, t)
        /\ \A k \in Cached : Scope[k] = "roles" /\ k \in ks => ~IsHeld(Delete(c, "roles", ks), k, t)
    BY <1>1, DeleteDoes
  <2> QED
    BY <2>1, <2>2 DEF ks
<1>5. Good(c1, t)
  BY <1>4 DEF Did
<1> HIDE DEF c1, lost
<1>6. /\ Did(c1, looked, {}, {}, w, t)
      /\ \A k \in Cached : IsHeld(c1, k, t) => IsHeld(looked, k, t)
  BY <1>1, <1>5, LookDoes
<1> HIDE DEF looked
<1>7. /\ listing \subseteq Live(looked.stores["members"], t)
      /\ \A m : m \in listing <=> /\ m \in Cached /\ Scope[m] = "members" /\ IsHeld(c1, m, t)
                                  /\ Guild[m] = g /\ Held(c1, m) = Listing
  <2>1. StoreInv(Policies[c1.policy]["members"], s, t) /\ Keys(s) \subseteq In("members", Things)
    BY <1>1, <1>5, StoreOf
  <2>2. Indexed(s, g) = {k \in Keys(s) : g # NoGroup /\ GroupOf(k) = g}
    BY <2>1, IndexedIs
  <2>3. \A m \in In("members", Things) :
          GroupOf(m) = Guild[m] /\ m \in Cached /\ Scope[m] = "members"
    BY <1>1 DEF In, GroupOf, Cached
  <2>4. \A m : m \in listing <=> /\ m \in Keys(s) /\ m \in Live(s, t)
                                 /\ Guild[m] = g /\ Value(s, m) = Listing
    BY <1>3, <2>1, <2>2, <2>3 DEF Group
  <2>5. \A m : m \in Keys(s) => m \in Cached /\ Scope[m] = "members"
    BY <2>1, <2>3
  <2>6. \A m \in Cached : Scope[m] = "members" => /\ IsHeld(c1, m, t) <=> m \in Live(s, t)
                                                  /\ Held(c1, m) = Value(s, m)
    BY DEF IsHeld, Held
  <2>7. Live(s, t) \subseteq Keys(s)
    BY DEF Live
  <2>8. \A m : m \in listing <=> /\ m \in Cached /\ Scope[m] = "members" /\ IsHeld(c1, m, t)
                                 /\ Guild[m] = g /\ Held(c1, m) = Listing
    BY <2>4, <2>5, <2>6, <2>7
  <2> HIDE DEF listing
  <2>9. \A m \in listing : IsHeld(looked, m, t)
    BY <1>6, <2>8
  <2> QED
    BY <2>8, <2>9 DEF IsHeld
<1> HIDE DEF listing, g
<1>8. Did(looked, e, listing, {}, w, t)
  <2>1. \A k \in listing : w[k] = 0
    OBVIOUS
  <2>2. Good(looked, t)
    BY <1>6 DEF Did
  <2> HIDE DEF w
  <2> QED
    BY <1>1, <1>2, <1>7, <2>1, <2>2, AssignDoes
<1> HIDE DEF e, w
<1>9. Did(c, e, listing, lost \ listing, w, t)
  <2>1. Did(c, looked, {} \cup {}, (lost \ {}) \cup {}, w, t)
    BY <1>4, <1>6, DidThen
  <2>2. {} \cup {} = {} /\ (lost \ {}) \cup {} = lost
    OBVIOUS
  <2>3. Did(c, e, {} \cup listing, (lost \ listing) \cup {}, w, t)
    BY <1>8, <2>1, <2>2, DidThen
  <2>4. {} \cup listing = listing /\ (lost \ listing) \cup {} = lost \ listing
    OBVIOUS
  <2> QED
    BY <2>3, <2>4
<1>10. Raises(d) = {} /\ Kills(d) = {d.key}
  BY <1>1 DEF Raises, Kills
<1>11. \A k : \A x : /\ Tells(d, k, x) <=> Scope[k] = "members" /\ Guild[k] = g
                     /\ Said(d, k) = 0
  BY <1>1 DEF Tells, Said, g
<1>12. /\ \A k \in Cached : IsHeld(e, k, t) =>
            IF k \in listing THEN Held(e, k) = 0 ELSE IsHeld(c, k, t) /\ Held(e, k) = Held(c, k)
       /\ \A k \in Cached : IsHeld(c1, k, t) => IsHeld(c, k, t) /\ Held(c1, k) = Held(c, k)
       /\ \A k \in Cached : IsHeld(e, k, t) => IsHeld(c1, k, t)
  <2>1. \A k \in listing : w[k] = 0
    BY DEF w
  <2>2. \A k \in Cached : IsHeld(e, k, t) => k \in listing \/ IsHeld(c1, k, t)
    BY <1>6, <1>8 DEF Did
  <2> QED
    BY <1>4, <1>7, <1>9, <2>1, <2>2 DEF Did
<1>13. ASSUME NEW k \in Cached PROVE DoesTo(c, e, d, t, k)
  <2>1. IsHeld(e, k, t) => IsHeld(c, k, t)
    BY <1>12
  <2>2. IsHeld(e, k, t) /\ (\A x \in Parts : ~Tells(d, k, x)) => Held(e, k) = Held(c, k)
    <3>1. "hi" \in Parts
      BY DEF Parts
    <3> QED
      BY <1>7, <1>11, <1>12, <3>1
  <2>3. ASSUME IsHeld(e, k, t), Held(c, k) \in Versions(k)
        PROVE  /\ Held(e, k) \in Versions(k)
               /\ \A x \in Parts :
                    Part(Held(e, k), x) = IF Tells(d, k, x) THEN Part(Said(d, k), x)
                                          ELSE Part(Held(c, k), x)
    <3>1. CASE Scope[k] = "members" /\ Guild[k] = g
      <4>1. Held(c, k) \in {0, 1} /\ 0 \in Versions(k)
        BY <2>3, <3>1, VersionsAre
      <4>2. IsHeld(c1, k, t) /\ Held(c1, k) = Held(c, k)
        BY <1>12, <2>3
      <4>3. k \notin listing => Held(c, k) = 0
        BY <1>7, <3>1, <4>1, <4>2 DEF Listing
      <4>4. Held(e, k) = 0
        BY <1>12, <2>3, <4>3
      <4> QED
        BY <1>11, <3>1, <4>1, <4>4
    <3>2. CASE ~(Scope[k] = "members" /\ Guild[k] = g)
      <4>1. k \notin listing
        BY <1>7, <3>2
      <4> QED
        BY <1>11, <1>12, <2>3, <3>2, <4>1
    <3> QED
      BY <3>1, <3>2
  <2>4. k \in Kills(d) => ~IsHeld(e, k, t)
    BY <1>1, <1>4, <1>10, <1>12
  <2>5. KeptWhole(c, k) /\ IsHeld(c, k, t) /\ ~IsHeld(e, k, t) => k \in Kills(d)
    <3>1. \A x \in lost : x = d.key
      BY DEF lost, In
    <3> QED
      BY <1>9, <1>10, <3>1 DEF Did
  <2> QED
    BY <1>10, <2>1, <2>2, <2>3, <2>4, <2>5 DEF DoesTo
<1>14. Good(e, t) /\ e.policy = c.policy /\ e.self = c.self
  BY <1>9 DEF Did
<1> QED
  BY <1>13, <1>14 DEF Does, e

\* One that is put after the users that ride along.
LEMMA WithAuthorDoes ==
  ASSUME NEW c, NEW t \in Nat \ {0}, Good(c, t), NEW d, Proper(d), d.event \in WithAuthor,
         NEW v, Scope[d.key] \in Full => v \in 0 .. 7
  PROVE  /\ d.key \in Cached /\ d.key \in DOMAIN d.w
         /\ Did(c, Put(UpsertUsers(c, d.w, t), d.key, v, t), Raises(d), {},
                [d.w EXCEPT ![d.key] = v], t)
<1> DEFINE us == In("users", DOMAIN d.w)
           c1 == UpsertUsers(c, d.w, t)
           e == Put(c1, d.key, v, t)
           w == [d.w EXCEPT ![d.key] = v]
           ks == {d.key}
<1>1. /\ d.key \in Things /\ d.key \in Cached /\ d.key \in DOMAIN d.w
      /\ Scope[d.key] \in {"members", "messages"}
      /\ \A k \in DOMAIN d.w : k = d.key \/ Scope[k] = "users"
      /\ d.event \notin PatchEvents /\ "users" \in Scopes
  BY DEF Proper, WellShaped, WithAuthor, Cached, Scopes, PatchEvents
<1>2. Did(c, c1, us, {}, d.w, t)
  BY UsersDo
<1>3. \A k \in us : w[k] = d.w[k]
  BY <1>1 DEF In
<1>4. w[d.key] = v
  BY <1>1
<1>5. ks = {d.key} /\ \A k : k \in ks <=> k = d.key
  OBVIOUS
<1> HIDE DEF w, ks, c1
<1>6. Did(c, c1, us, {}, w, t)
  BY <1>2, <1>3, DidOther
<1>7. Did(c1, e, ks, {}, w, t)
  <2>1. Good(c1, t)
    BY <1>6 DEF Did
  <2>2. Did(c1, Put(c1, d.key, w[d.key], t), {d.key}, {}, w, t)
    BY <1>1, <1>4, <2>1, PutDoes
  <2> QED
    BY <1>4, <1>5, <2>2
<1> HIDE DEF us, e
<1>8. Did(c, e, us \cup ks, ({} \ ks) \cup {}, w, t)
  BY <1>6, <1>7, DidThen
<1>9. us \cup ks = Raises(d) /\ ({} \ ks) \cup {} = {}
  <2>1. \A k : k \in Raises(d) <=> k \in DOMAIN d.w /\ (k = d.key \/ Scope[k] = "users")
    BY <1>1 DEF Raises, Cached
  <2>2. \A k : k \in us <=> k \in DOMAIN d.w /\ Scope[k] = "users"
    BY DEF us, In
  <2> QED
    BY <1>1, <1>5, <2>1, <2>2
<1>10. Did(c, e, Raises(d), {}, w, t)
  BY <1>8, <1>9
<1> QED
  BY <1>1, <1>10 DEF e, c1, w

LEMMA CreateDoes ==
  ASSUME NEW c, NEW t \in Nat \ {0}, Good(c, t), NEW d, Proper(d),
         d.event \in {"MEMBER", "MESSAGE_CREATE"}
  PROVE  Does(c, Put(UpsertUsers(c, d.w, t), d.key, d.w[d.key], t), d, t)
<1> DEFINE e == Put(UpsertUsers(c, d.w, t), d.key, d.w[d.key], t)
           w == [d.w EXCEPT ![d.key] = d.w[d.key]]
<1>1. d.event \in WithAuthor /\ d.event \notin PatchEvents \cup {"MESSAGE_UPDATE", "GUILD_ROLE_DELETE", "SELF"}
  BY DEF WithAuthor, PatchEvents
<1>2. d.key \in DOMAIN d.w /\ Scope[d.key] \notin Full
  BY <1>1 DEF Proper, WellShaped, Full
<1>3. Did(c, e, Raises(d), {}, w, t)
  BY <1>1, <1>2, WithAuthorDoes
<1>4. \A k \in Raises(d) : w[k] = d.w[k]
  BY DEF Raises
<1>5. Kills(d) = {}
  BY DEF Kills
<1> HIDE DEF e, w
<1>6. Did(c, e, Raises(d), {}, d.w, t)
  BY <1>3, <1>4, DidOther
<1> QED
  BY <1>1, <1>5, <1>6, DidDoes DEF e

LEMMA UserSeenDoes ==
  ASSUME NEW c, NEW t \in Nat \ {0}, Good(c, t), NEW d, Proper(d), d.event = "USER_SEEN"
  PROVE  Does(c, UpsertUsers(c, d.w, t), d, t)
<1>1. Raises(d) = In("users", DOMAIN d.w) /\ Kills(d) = {}
  BY DEF Proper, WellShaped, Raises, PatchEvents, Scopes, In, Kills
<1>2. d.event \notin PatchEvents \cup {"MESSAGE_UPDATE", "GUILD_ROLE_DELETE", "SELF"}
  BY DEF PatchEvents
<1> QED
  BY <1>1, <1>2, UsersDo, DidDoes

\* Without embeds or content it leaves a message that is cached as it is.
LEMMA MessageUpdateDoes ==
  ASSUME NEW c, NEW t \in Nat \ {0}, Good(c, t), NEW d, Proper(d), d.event = "MESSAGE_UPDATE"
  PROVE  Does(c, MessageUpdate(c, d, t), d, t)
<1> DEFINE key == d.key
           s == c.stores["messages"]
           kept == IF key \in Live(s, t) THEN Value(s, key) ELSE Stub
           v == IF d.w[key] = Stub THEN kept ELSE d.w[key]
           e == MessageUpdate(c, d, t)
           w == [d.w EXCEPT ![key] = v]
<1>1. /\ d.event \in WithAuthor /\ d.event \notin PatchEvents /\ d.event # "GUILD_ROLE_DELETE"
      /\ Scope[key] = "messages" /\ key \in DOMAIN d.w /\ Scope[key] \notin Full
  BY DEF WithAuthor, PatchEvents, Proper, WellShaped, Full
<1>2. e = Put(UpsertUsers(c, d.w, t), key, v, t)
  BY DEF MessageUpdate
<1>3. kept = IF IsHeld(c, key, t) THEN Held(c, key) ELSE Stub
  BY <1>1 DEF IsHeld, Held
<1> HIDE DEF e, kept
<1>4. w[key] = v /\ \A k \in DOMAIN d.w : k # key => w[k] = d.w[k]
  BY <1>1
<1> HIDE DEF v, w
<1>5. /\ key \in Cached
      /\ Did(c, e, Raises(d), {}, w, t)
  BY <1>1, <1>2, WithAuthorDoes DEF w
<1>6. /\ \A k : k \in Raises(d) => k \in DOMAIN d.w
      /\ key \in Raises(d)
      /\ \A k \in Cached : k \in DOMAIN d.w => k \in Raises(d)
      /\ Kills(d) = {}
  BY <1>1, <1>5 DEF Raises, Kills, Cached
<1>7. \A k \in Cached : k \notin Raises(d) => \A x : ~Tells(d, k, x)
  BY <1>1, <1>6 DEF Tells
<1>8. \A k : Stubbed(d, k) <=> k = key /\ d.w[k] = Stub
  BY DEF Stubbed
<1>9. ASSUME NEW k \in Cached PROVE DoesTo(c, e, d, t, k)
  <2>1. IsHeld(e, k, t) /\ k \in Raises(d) =>
          Held(e, k) = IF Stubbed(d, k) THEN IF IsHeld(c, k, t) THEN Held(c, k) ELSE Stub ELSE d.w[k]
    <3> SUFFICES ASSUME IsHeld(e, k, t), k \in Raises(d)
                 PROVE Held(e, k) = IF Stubbed(d, k) THEN IF IsHeld(c, k, t) THEN Held(c, k) ELSE Stub
                                    ELSE d.w[k]
      OBVIOUS
    <3>1. Held(e, k) = w[k]
      BY <1>5 DEF Did
    <3>2. CASE k = key
      BY <1>3, <1>4, <1>8, <3>1, <3>2 DEF v
    <3>3. CASE k # key
      BY <1>4, <1>6, <1>8, <3>1, <3>3
    <3> QED
      BY <3>2, <3>3
  <2>2. IsHeld(e, k, t) /\ k \notin Raises(d) => IsHeld(c, k, t) /\ Held(e, k) = Held(c, k)
    BY <1>5 DEF Did
  <2>3. KeptWhole(c, k) /\ (IsHeld(c, k, t) \/ k \in Raises(d)) => IsHeld(e, k, t)
    BY <1>5 DEF Did
  <2> QED
    BY <1>6, <1>7, <2>1, <2>2, <2>3 DEF DoesTo
<1>10. Good(e, t) /\ e.policy = c.policy /\ e.self = c.self
  BY <1>5 DEF Did
<1> QED
  BY <1>9, <1>10 DEF Does, e

LEMMA MessageDeleteDoes ==
  ASSUME NEW c, NEW t \in Nat \ {0}, Good(c, t), NEW d, Proper(d), d.event = "MESSAGE_DELETE"
  PROVE  Does(c, MessageDelete(c, d, t), d, t)
<1> DEFINE of == d.of
           e == MessageDelete(c, d, t)
<1>1. /\ of \subseteq In("messages", Things) /\ DOMAIN d.w = {}
      /\ d.event \notin PatchEvents \cup {"MESSAGE_UPDATE", "GUILD_ROLE_DELETE", "SELF"}
      /\ "messages" \in Scopes /\ t \in Nat
  BY DEF Proper, WellShaped, PatchEvents, Scopes
<1>2. Raises(d) = {} /\ Kills(d) = of
  BY <1>1 DEF Raises, Kills
<1>3. e = Delete(c, "messages", of)
  BY DEF MessageDelete
<1> HIDE DEF e
<1>4. /\ Did(c, e, {}, In("messages", of), d.w, t)
      /\ \A k \in Cached : Scope[k] = "messages" /\ k \in of => ~IsHeld(e, k, t)
  BY <1>1, <1>3, DeleteDoes
<1>5. \A k : k \in of => Scope[k] = "messages"
  BY <1>1 DEF In
<1>6. Did(c, e, Raises(d), In("messages", of), d.w, t)
  BY <1>2, <1>4
<1>7. \A k \in Cached : k \in Kills(d) => ~IsHeld(e, k, t) \/ Strays(c, k, t)
  BY <1>2, <1>4, <1>5
<1>8. \A k \in Cached : k \in In("messages", of) =>
         /\ k \notin Raises(d)
         /\ k \in Kills(d) \/ (d.event = "CHANNEL_UPDATE" /\ Scope[k] = "threads")
            \/ Scope[k] \notin Full
  BY <1>2 DEF In
<1> QED
  BY <1>1, <1>6, <1>7, <1>8, DidDoes DEF e

LEMMA UnavailableDoes ==
  ASSUME NEW c, NEW t \in Nat \ {0}, Good(c, t), NEW d, Proper(d), d.event = "GUILD_UNAVAILABLE"
  PROVE  Does(c, c, d, t)
<1>1. /\ DOMAIN d.w = {} /\ d.event \notin PatchEvents \cup {"MESSAGE_UPDATE", "GUILD_ROLE_DELETE", "SELF"}
  BY DEF Proper, WellShaped, PatchEvents
<1>2. Raises(d) = {} /\ Kills(d) = {}
  BY <1>1 DEF Raises, Kills
<1>3. Did(c, c, Raises(d), {}, d.w, t)
  BY <1>2, DidNothing
<1> QED
  BY <1>1, <1>2, <1>3, DidDoes

\* What is not there and is not put stays away.
LEMMA DidStaysOut ==
  ASSUME NEW c, NEW e, NEW t, NEW w, NEW ks, NEW gone, Did(c, e, ks, gone, w, t)
  PROVE  \A k \in Cached : ~IsHeld(c, k, t) /\ k \notin ks => ~IsHeld(e, k, t)
  BY DEF Did

\* The same, of two that follow each other where the second puts nothing.
LEMMA DidThenLost ==
  ASSUME NEW c, NEW e, NEW f, NEW t, NEW w, NEW ks, NEW gone, NEW lost,
         Did(c, e, ks, gone, w, t), Did(e, f, {}, lost, w, t)
  PROVE  Did(c, f, ks, gone \cup lost, w, t)
<1>1. Did(c, f, ks \cup {}, (gone \ {}) \cup lost, w, t)
  BY DidThen
<1>2. ks \cup {} = ks /\ (gone \ {}) \cup lost = gone \cup lost
  OBVIOUS
<1> QED
  BY <1>1, <1>2

\* And where the second only puts.
LEMMA DidThenPut ==
  ASSUME NEW c, NEW e, NEW f, NEW t, NEW w, NEW ks, NEW gone, NEW more,
         Did(c, e, ks, gone, w, t), Did(e, f, more, {}, w, t)
  PROVE  Did(c, f, ks \cup more, gone, w, t)
<1>1. Did(c, f, ks \cup more, (gone \ more) \cup {}, w, t)
  BY DidThen
<1>2. \A k \in Cached : k \in (gone \ more) \cup {} /\ Scope[k] \in Full => k \in gone
  OBVIOUS
<1> QED
  BY <1>1, <1>2, DidLess

\* What was sent of a guild in this scope is there, and the rest of it is not.
LEMMA ReconcileDoes ==
  ASSUME NEW c, NEW t \in Nat \ {0}, Good(c, t), NEW g \in In("guilds", Things),
         NEW scope \in {"roles", "voiceStates", "emojis", "stickers"}, NEW d, Proper(d)
  PROVE  LET e == Reconcile(c, g, scope, d.w, t)
         IN /\ Did(c, e, In(scope, DOMAIN d.w), Of(scope, g) \ DOMAIN d.w, d.w, t)
            /\ \A k \in Cached : k \in Of(scope, g) \ DOMAIN d.w => ~IsHeld(e, k, t)
<1> DEFINE s == c.stores[scope]
           cached == Group(s, g, t)
           looked == OnStore(c, scope, Looked(s, g, t))
           arrived == In(scope, DOMAIN d.w)
           put == PutAll(looked, d.w, arrived, t)
           e == Delete(put, scope, cached \ arrived)
           lost == In(scope, cached \ arrived)
           left == Of(scope, g) \ DOMAIN d.w
<1>1. scope \in Scopes /\ t \in Nat /\ g # NoGroup /\ g \in Things
  BY Places DEF Scopes, In
<1>2. Did(c, looked, {}, {}, d.w, t)
  BY <1>1, LookDoes
<1> HIDE DEF looked
<1>3. Did(looked, put, arrived, {}, d.w, t)
  BY <1>1, <1>2, PutScope DEF Did
<1> HIDE DEF arrived, put
<1>4. Did(c, put, arrived, {}, d.w, t)
  <2>1. Did(c, put, {} \cup arrived, {}, d.w, t)
    BY <1>2, <1>3, DidThenPut
  <2>2. {} \cup arrived = arrived
    OBVIOUS
  <2> QED
    BY <2>1, <2>2
<1>5. \A k : k \in cached <=> k \in Cached /\ Scope[k] = scope /\ Guild[k] = g /\ IsHeld(c, k, t)
  <2>1. StoreInv(Policies[c.policy][scope], s, t) /\ Keys(s) \subseteq In(scope, Things)
    BY <1>1, StoreOf
  <2>2. Indexed(s, g) = {k \in Keys(s) : g # NoGroup /\ GroupOf(k) = g}
    BY <2>1, IndexedIs
  <2>3. \A k \in Keys(s) : k \in Cached /\ Scope[k] = scope /\ GroupOf(k) = Guild[k]
    BY <1>1, <2>1 DEF In, Cached, GroupOf
  <2>4. Live(s, t) \subseteq Keys(s)
    BY DEF Live
  <2>5. \A k : k \in cached <=> k \in Keys(s) /\ Guild[k] = g /\ k \in Live(s, t)
    BY <1>1, <2>2, <2>3, <2>4 DEF Group
  <2> QED
    BY <2>3, <2>4, <2>5 DEF IsHeld
<1>6. \A k : k \in arrived <=> k \in DOMAIN d.w /\ Scope[k] = scope
  BY DEF arrived, In
<1>7. \A k : k \in left <=> k \in Things /\ Scope[k] = scope /\ Guild[k] = g /\ k \notin DOMAIN d.w
  BY DEF Of, In
<1> HIDE DEF cached
<1>8. /\ Did(put, e, {}, lost, d.w, t)
      /\ \A k \in Cached : Scope[k] = scope /\ k \in cached \ arrived => ~IsHeld(e, k, t)
  <2>1. Good(put, t)
    BY <1>4 DEF Did
  <2> QED
    BY <1>1, <2>1, DeleteDoes
<1>9. \A k : k \in lost <=> k \in cached /\ k \notin arrived /\ Scope[k] = scope
  BY DEF In
<1> HIDE DEF e, lost, left
<1>10. Did(c, e, arrived, {} \cup lost, d.w, t)
  BY <1>4, <1>8, DidThenLost
<1>11. Did(c, e, arrived, left, d.w, t)
  <2>1. \A k \in Cached : k \in {} \cup lost /\ Scope[k] \in Full => k \in left
    BY <1>5, <1>6, <1>7, <1>9 DEF Cached
  <2> QED
    BY <1>10, <2>1, DidLess
<1>12. ASSUME NEW k \in Cached, k \in left PROVE ~IsHeld(e, k, t)
  <2>1. k \notin arrived /\ Scope[k] = scope
    BY <1>6, <1>7, <1>12
  <2>2. CASE IsHeld(c, k, t)
    BY <1>5, <1>7, <1>8, <1>12, <2>1, <2>2
  <2>3. CASE ~IsHeld(c, k, t)
    BY <1>11, <2>1, <2>3, DidStaysOut
  <2> QED
    BY <2>2, <2>3
<1> QED
  BY <1>11, <1>12 DEF Reconcile, e, put, looked, arrived, cached, left

LEMMA ExpressionsDoes ==
  ASSUME NEW c, NEW t \in Nat \ {0}, Good(c, t), NEW d, Proper(d),
         d.event \in {"GUILD_EMOJIS_UPDATE", "GUILD_STICKERS_UPDATE"}
  PROVE  Does(c, ExpressionsUpdate(c, d, t), d, t)
<1> DEFINE scope == IF d.event = "GUILD_EMOJIS_UPDATE" THEN "emojis" ELSE "stickers"
           e == ExpressionsUpdate(c, d, t)
           left == Of(scope, d.key) \ DOMAIN d.w
<1>1. /\ d.key \in In("guilds", Things) /\ DOMAIN d.w \subseteq Of(scope, d.key)
      /\ d.event \notin PatchEvents \cup {"MESSAGE_UPDATE", "GUILD_ROLE_DELETE", "SELF"}
      /\ scope \in {"roles", "voiceStates", "emojis", "stickers"} /\ scope \in Scopes
  BY DEF Proper, WellShaped, PatchEvents, Scopes
<1>2. Kills(d) = left
  BY DEF Kills
<1>3. e = Reconcile(c, d.key, scope, d.w, t)
  BY DEF ExpressionsUpdate
<1> HIDE DEF scope, e
<1>4. /\ Did(c, e, In(scope, DOMAIN d.w), left, d.w, t)
      /\ \A k \in Cached : k \in left => ~IsHeld(e, k, t)
  BY <1>1, <1>3, ReconcileDoes
<1>5. In(scope, DOMAIN d.w) = Raises(d)
  BY <1>1 DEF Raises, In, Of
<1>6. \A k \in Cached : k \in left => k \notin Raises(d)
  BY <1>1 DEF Raises
<1> HIDE DEF left
<1> QED
  BY <1>1, <1>2, <1>4, <1>5, <1>6, DidDoes DEF e

LEMMA ThreadListSyncDoes ==
  ASSUME NEW c, NEW t \in Nat \ {0}, Good(c, t), NEW d, Proper(d), d.event = "THREAD_LIST_SYNC"
  PROVE  Does(c, ThreadListSync(c, d, t), d, t)
<1> DEFINE put == PutAll(c, d.w, DOMAIN d.w, t)
           s == put.stores["threads"]
           old == {x \in Live(s, t) \ DOMAIN d.w : Guild[x] = d.key /\ Parent[x] \in d.of}
           e == ThreadListSync(c, d, t)
           lost == In("threads", old)
<1>1. /\ DOMAIN d.w \subseteq In("threads", Things)
      /\ d.event \notin PatchEvents \cup {"MESSAGE_UPDATE", "GUILD_ROLE_DELETE", "SELF"}
      /\ "threads" \in Scopes /\ t \in Nat
  BY DEF Proper, WellShaped, PatchEvents, Scopes
<1>2. \A k \in DOMAIN d.w : k \in Cached /\ Scope[k] = "threads"
  BY <1>1 DEF In, Cached
<1>3. Did(c, put, DOMAIN d.w, {}, d.w, t)
  BY <1>2, ProperValues, PutAllDoes
<1>4. e = Delete(put, "threads", old)
  BY DEF ThreadListSync, Here
<1> HIDE DEF e, put
<1>5. Good(put, t) /\ Keys(s) \subseteq In("threads", Things)
  BY <1>1, <1>3, StoreOf DEF Did
<1>6. \A k : k \in old <=> /\ k \in Cached /\ Scope[k] = "threads" /\ IsHeld(put, k, t)
                           /\ Guild[k] = d.key /\ Parent[k] \in d.of /\ k \notin DOMAIN d.w
  <2>1. Live(s, t) \subseteq Keys(s)
    BY DEF Live
  <2>2. \A k \in Keys(s) : k \in Cached /\ Scope[k] = "threads"
    BY <1>1, <1>5 DEF In, Cached
  <2> QED
    BY <2>1, <2>2 DEF IsHeld
<1> HIDE DEF old
<1>7. /\ Did(put, e, {}, lost, d.w, t)
      /\ \A k \in Cached : Scope[k] = "threads" /\ k \in old => ~IsHeld(e, k, t)
  BY <1>1, <1>4, <1>5, DeleteDoes
<1>8. \A k : k \in lost <=> k \in old /\ Scope[k] = "threads"
  BY DEF In
<1> HIDE DEF lost
<1>9. Did(c, e, DOMAIN d.w, {} \cup lost, d.w, t)
  BY <1>3, <1>7, DidThenLost
<1>10. /\ Raises(d) = DOMAIN d.w
       /\ \A k : k \in Kills(d) <=> /\ k \in Things /\ Scope[k] = "threads" /\ Guild[k] = d.key
                                    /\ Parent[k] \in d.of /\ k \notin DOMAIN d.w
  BY <1>1, <1>2 DEF Raises, Kills, Of, In
<1>11. \A k \in Cached : k \in Kills(d) => ~IsHeld(e, k, t)
  <2> TAKE k \in Cached
  <2> HAVE k \in Kills(d)
  <2>1. CASE IsHeld(put, k, t)
    BY <1>6, <1>7, <1>10, <2>1
  <2>2. CASE ~IsHeld(put, k, t)
    BY <1>7, <2>2, DidStaysOut
  <2> QED
    BY <2>1, <2>2
<1>12. \A k \in Cached : k \in {} \cup lost => k \notin Raises(d) /\ k \in Kills(d)
  BY <1>6, <1>8, <1>10 DEF Cached
<1>13. Did(c, e, Raises(d), {} \cup lost, d.w, t)
  BY <1>9, <1>10
<1> QED
  BY <1>1, <1>11, <1>12, <1>13, DidDoes DEF e

LEMMA VoiceStateDoes ==
  ASSUME NEW c, NEW t \in Nat \ {0}, Good(c, t), NEW d, Proper(d), d.event = "VOICE_STATE_UPDATE"
  PROVE  Does(c, VoiceStateUpdate(c, d, t), d, t)
<1> DEFINE looked == OnStore(c, "voiceStates", Got(c.stores["voiceStates"], d.key, t))
           c1 == UpsertUsers(looked, d.w, t)
           c2 == PutAll(c1, d.w, In("members", DOMAIN d.w), t)
           e == VoiceStateUpdate(c, d, t)
           us == In("users", DOMAIN d.w)
           ms == In("members", DOMAIN d.w)
           ks == {d.key}
<1>1. /\ d.key \in Things /\ Scope[d.key] = "voiceStates" /\ d.key \in Cached
      /\ \A k \in DOMAIN d.w : k = d.key \/ Scope[k] \in {"members", "users"}
      /\ d.event \notin PatchEvents \cup {"MESSAGE_UPDATE", "GUILD_ROLE_DELETE", "SELF"}
      /\ {"voiceStates", "users", "members"} \subseteq Scopes /\ t \in Nat
  BY DEF Proper, WellShaped, PatchEvents, Scopes, In, Cached
<1>2. Did(c, looked, {}, {}, d.w, t)
  BY <1>1, LookDoes
<1>3. e = IF d.key \in DOMAIN d.w THEN Put(c2, d.key, d.w[d.key], t)
          ELSE Delete(c2, "voiceStates", ks)
  BY DEF VoiceStateUpdate
<1> HIDE DEF looked
<1>4. Did(looked, c1, us, {}, d.w, t)
  BY <1>2, UsersDo DEF Did
<1> HIDE DEF c1
<1>5. Did(c1, c2, ms, {}, d.w, t)
  BY <1>1, <1>4, PutScope DEF Did
<1> HIDE DEF c2, us, ms
<1>6. Did(c, c2, us \cup ms, {}, d.w, t)
  <2>1. Did(c, c1, {} \cup us, {}, d.w, t)
    BY <1>2, <1>4, DidThenPut
  <2>2. {} \cup us = us
    OBVIOUS
  <2> QED
    BY <1>5, <2>1, <2>2, DidThenPut
<1>7. Good(c2, t)
  BY <1>6 DEF Did
<1>8. /\ \A k : k \in us \cup ms <=> k \in DOMAIN d.w /\ Scope[k] \in {"members", "users"}
      /\ \A k : k \in ks <=> k = d.key
      /\ \A k : k \in Raises(d) <=> k \in DOMAIN d.w
      /\ \A k : k \in Kills(d) <=> k = d.key /\ k \notin DOMAIN d.w
  BY <1>1 DEF us, ms, In, Raises, Kills
<1>9. CASE d.key \in DOMAIN d.w
  <2>1. Did(c2, e, {d.key}, {}, d.w, t)
    BY <1>1, <1>3, <1>7, <1>9, PutOne
  <2>2. Did(c2, e, ks, {}, d.w, t)
    BY <2>1
  <2> HIDE DEF e, ks
  <2>3. Did(c, e, (us \cup ms) \cup ks, {}, d.w, t)
    BY <1>6, <2>2, DidThenPut
  <2>4. (us \cup ms) \cup ks = Raises(d)
    BY <1>1, <1>8, <1>9
  <2>5. Did(c, e, Raises(d), {}, d.w, t) /\ \A k \in Cached : k \notin Kills(d)
    BY <1>8, <1>9, <2>3, <2>4
  <2> QED
    BY <1>1, <2>5, DidDoes DEF e
<1>10. CASE d.key \notin DOMAIN d.w
  <2> DEFINE lost == In("voiceStates", ks)
  <2>1. e = Delete(c2, "voiceStates", ks)
    BY <1>3, <1>10
  <2> HIDE DEF e, ks
  <2>2. /\ Did(c2, e, {}, lost, d.w, t)
        /\ \A k \in Cached : Scope[k] = "voiceStates" /\ k \in ks => ~IsHeld(e, k, t)
    BY <1>1, <1>7, <2>1, DeleteDoes
  <2>3. Did(c, e, us \cup ms, {} \cup lost, d.w, t)
    BY <1>6, <2>2, DidThenLost
  <2>4. us \cup ms = Raises(d)
    BY <1>1, <1>8, <1>10
  <2>5. Did(c, e, Raises(d), {} \cup lost, d.w, t)
    BY <2>3, <2>4
  <2>6. \A k \in Cached : k \in {} \cup lost => k \notin Raises(d) /\ k \in Kills(d)
    BY <1>8, <1>10 DEF In
  <2>7. \A k \in Cached : k \in Kills(d) => ~IsHeld(e, k, t)
    BY <1>1, <1>8, <2>2
  <2> HIDE DEF lost
  <2> QED
    BY <1>1, <2>5, <2>6, <2>7, DidDoes DEF e
<1> QED
  BY <1>9, <1>10

\* evictMember, with the presence and the voice states of the member.
LEMMA EvictMemberDoes ==
  ASSUME NEW c, NEW t \in Nat, Good(c, t), NEW m \in In("members", Things), NEW w
  PROVE  /\ Did(c, EvictMember(c, m), {}, Below(m), w, t)
         /\ \A k \in Cached : k \in Below(m) => ~IsHeld(EvictMember(c, m), k, t)
<1> DEFINE ps == {k \in In("presences", Things) : Member[k] = m}
           vs == {k \in In("voiceStates", Things) : Member[k] = m}
           ms == {m}
           c1 == Delete(c, "members", ms)
           c2 == Delete(c1, "presences", ps)
           e == Delete(c2, "voiceStates", vs)
           l1 == In("members", ms)
           l2 == In("presences", ps)
           l3 == In("voiceStates", vs)
           gone == Below(m)
<1>1. /\ m \in Things /\ Scope[m] = "members"
      /\ {"members", "presences", "voiceStates"} \subseteq Scopes
  BY DEF In, Scopes
<1>2. EvictMember(c, m) = e
  BY DEF EvictMember
<1>3. /\ \A k : k \in ms <=> k = m
      /\ \A k : k \in ps <=> k \in Things /\ Scope[k] = "presences" /\ Member[k] = m
      /\ \A k : k \in vs <=> k \in Things /\ Scope[k] = "voiceStates" /\ Member[k] = m
      /\ \A k : k \in l1 <=> k \in ms /\ Scope[k] = "members"
      /\ \A k : k \in l2 <=> k \in ps /\ Scope[k] = "presences"
      /\ \A k : k \in l3 <=> k \in vs /\ Scope[k] = "voiceStates"
  BY DEF In
<1>4. \A k \in Things : k \in gone <=> k \in ms \/ k \in ps \/ k \in vs
  <2>1. Below(m) = {m} \cup {x \in Things : Member[x] = m}
    BY <1>1, BelowOthers
  <2>2. \A x \in Things : Member[x] = m => Scope[x] \in {"presences", "voiceStates"}
    BY <1>1, Places
  <2>3. \A k \in Things : k \in gone <=> k = m \/ Member[k] = m
    BY <2>1
  <2> QED
    BY <1>3, <2>2, <2>3
<1> HIDE DEF ps, vs, ms, gone
<1>5. /\ Did(c, c1, {}, l1, w, t)
      /\ \A k \in Cached : Scope[k] = "members" /\ k \in ms => ~IsHeld(c1, k, t)
  BY <1>1, DeleteDoes
<1>6. Good(c1, t)
  BY <1>5 DEF Did
<1> HIDE DEF c1, l1
<1>7. /\ Did(c1, c2, {}, l2, w, t)
      /\ \A k \in Cached : Scope[k] = "presences" /\ k \in ps => ~IsHeld(c2, k, t)
  BY <1>1, <1>6, DeleteDoes
<1>8. Good(c2, t)
  BY <1>7 DEF Did
<1> HIDE DEF c2, l2
<1>9. /\ Did(c2, e, {}, l3, w, t)
      /\ \A k \in Cached : Scope[k] = "voiceStates" /\ k \in vs => ~IsHeld(e, k, t)
  BY <1>1, <1>8, DeleteDoes
<1> HIDE DEF e, l3
<1>10. Did(c, e, {}, (l1 \cup l2) \cup l3, w, t)
  <2>1. Did(c, c2, {}, l1 \cup l2, w, t)
    BY <1>5, <1>7, DidThenLost
  <2> QED
    BY <1>9, <2>1, DidThenLost
<1>11. Did(c, e, {}, gone, w, t)
  <2>1. \A k \in Cached : k \in (l1 \cup l2) \cup l3 /\ Scope[k] \in Full => k \in gone
    BY <1>3, <1>4 DEF Cached
  <2> QED
    BY <1>10, <2>1, DidLess
<1>12. ASSUME NEW k \in Cached, k \in gone PROVE ~IsHeld(e, k, t)
  <2>1. k \in Things
    BY DEF Cached
  <2>2. CASE k \in ms
    <3>1. Scope[k] = "members"
      BY <1>1, <1>3, <2>2
    <3>2. ~IsHeld(c1, k, t)
      BY <1>5, <2>2, <3>1
    <3>3. ~IsHeld(c2, k, t)
      BY <1>7, <3>2, DidStaysOut
    <3> QED
      BY <1>9, <3>3, DidStaysOut
  <2>3. CASE k \in ps
    <3>1. ~IsHeld(c2, k, t)
      BY <1>3, <1>7, <2>3
    <3> QED
      BY <1>9, <3>1, DidStaysOut
  <2>4. CASE k \in vs
    BY <1>3, <1>9, <2>4
  <2> QED
    BY <1>4, <1>12, <2>1, <2>2, <2>3, <2>4
<1> QED
  BY <1>2, <1>11, <1>12 DEF gone

LEMMA MemberRemoveDoes ==
  ASSUME NEW c, NEW t \in Nat \ {0}, Good(c, t), NEW d, Proper(d),
         d.event = "GUILD_MEMBER_REMOVE"
  PROVE  Does(c, MemberRemove(c, d, t), d, t)
<1> DEFINE c1 == EvictMember(c, d.key)
           e == MemberRemove(c, d, t)
           us == In("users", DOMAIN d.w)
           gone == Below(d.key)
<1>1. /\ d.key \in In("members", Things) /\ t \in Nat
      /\ \A k \in DOMAIN d.w : Scope[k] = "users"
      /\ d.event \notin PatchEvents \cup {"MESSAGE_UPDATE", "GUILD_ROLE_DELETE", "SELF"}
  BY DEF Proper, WellShaped, PatchEvents
<1>2. /\ Did(c, c1, {}, gone, d.w, t)
      /\ \A k \in Cached : k \in gone => ~IsHeld(c1, k, t)
  BY <1>1, EvictMemberDoes
<1>3. e = UpsertUsers(c1, d.w, t)
  BY DEF MemberRemove
<1> HIDE DEF c1, e
<1>4. Did(c1, e, us, {}, d.w, t)
  BY <1>2, <1>3, UsersDo DEF Did
<1>5. Raises(d) = us /\ Kills(d) = gone
  BY <1>1 DEF Raises, Kills, In, Scopes
<1>6. \A k \in Cached : k \in gone => k \notin us
  <2>1. \A k \in us : Scope[k] = "users"
    BY DEF In
  <2>2. d.key \in Things /\ Scope[d.key] = "members"
    BY <1>1 DEF In
  <2>3. \A k \in Things : k \in gone => k = d.key \/ Member[k] = d.key
    BY <2>2, BelowOthers
  <2>4. \A k \in Things : Scope[k] = "users" => Member[k] # d.key
    BY <2>2, Places
  <2> QED
    BY <2>1, <2>2, <2>3, <2>4 DEF Cached
<1> HIDE DEF us, gone
<1>7. Did(c, e, us, gone, d.w, t)
  <2>1. Did(c, e, {} \cup us, gone, d.w, t)
    BY <1>2, <1>4, DidThenPut
  <2>2. {} \cup us = us
    OBVIOUS
  <2> QED
    BY <2>1, <2>2
<1>8. \A k \in Cached : k \in Kills(d) => ~IsHeld(e, k, t)
  BY <1>2, <1>4, <1>5, <1>6, DidStaysOut
<1>9. Did(c, e, Raises(d), gone, d.w, t)
  BY <1>5, <1>7
<1>10. \A k \in Cached : k \in gone => k \notin Raises(d) /\ k \in Kills(d)
  BY <1>5, <1>6
<1> QED
  BY <1>1, <1>8, <1>9, <1>10, DidDoes DEF e

\* These were put, and those, of which none was, are gone.
Swapped(c, e, ks, gone, w, t) ==
  Did(c, e, ks, gone, w, t) /\ \A k \in Cached : k \in gone => ~IsHeld(e, k, t)

LEMMA SwappedThen ==
  ASSUME NEW c, NEW e, NEW f, NEW t, NEW w, NEW ks, NEW gone, NEW more, NEW lost,
         Swapped(c, e, ks, gone, w, t), Swapped(e, f, more, lost, w, t), gone \cap more = {}
  PROVE  Swapped(c, f, ks \cup more, gone \cup lost, w, t)
<1>1. Did(c, f, ks \cup more, (gone \ more) \cup lost, w, t)
  BY DidThen DEF Swapped
<1>2. (gone \ more) \cup lost = gone \cup lost
  OBVIOUS
<1>3. \A k \in Cached : k \in gone \/ k \in lost => ~IsHeld(f, k, t)
  BY DidStaysOut DEF Swapped
<1> QED
  BY <1>1, <1>2, <1>3 DEF Swapped

LEMMA ReconcileChannelsDoes ==
  ASSUME NEW c, NEW t \in Nat \ {0}, Good(c, t), NEW d, Proper(d), d.event = "GUILD_CREATE"
  PROVE  Swapped(c, ReconcileChannels(c, d.key, d.w, t),
                 In("channels", DOMAIN d.w) \cup In("threads", DOMAIN d.w),
                 (Of("channels", d.key) \cup Of("threads", d.key)) \ DOMAIN d.w, d.w, t)
<1> DEFINE g == d.key
           s == c.stores["channels"]
           channels == Group(s, g, t)
           threads == {x \in Live(c.stores["threads"], t) : Guild[x] = g}
           looked == OnStore(c, "channels", Looked(s, g, t))
           chs == In("channels", DOMAIN d.w)
           ths == In("threads", DOMAIN d.w)
           p1 == PutAll(looked, d.w, chs, t)
           put == PutAll(p1, d.w, ths, t)
           ks1 == channels \ DOMAIN d.w
           ks2 == threads \ DOMAIN d.w
           e1 == EvictChannels(put, ks1, t)
           e == EvictChannels(e1, ks2, t)
           lost1 == {k \in Cached : k \in ks1 \/ (Scope[k] = "threads" /\ Parent[k] \in ks1)}
           lost2 == {k \in Cached : k \in ks2 \/ (Scope[k] = "threads" /\ Parent[k] \in ks2)}
           left == (Of("channels", g) \cup Of("threads", g)) \ DOMAIN d.w
           arrived == chs \cup ths
<1>1. /\ {"channels", "threads"} \subseteq Scopes /\ t \in Nat /\ g \in Things /\ g # NoGroup
      /\ \A k \in DOMAIN d.w : Scope[k] = "threads" => Parent[k] \in DOMAIN d.w
  <2>1. g \in Things
    BY DEF Proper, WellShaped, In
  <2> QED
    BY <2>1, Places DEF Proper, WellShaped, Scopes
<1>2. ReconcileChannels(c, g, d.w, t) = e
  BY DEF ReconcileChannels, Here
<1>3. Did(c, looked, {}, {}, d.w, t)
  BY <1>1, LookDoes
<1> HIDE DEF looked
<1>4. Did(looked, p1, chs, {}, d.w, t)
  BY <1>1, <1>3, PutScope DEF Did
<1> HIDE DEF p1
<1>5. Did(p1, put, ths, {}, d.w, t)
  BY <1>1, <1>4, PutScope DEF Did
<1> HIDE DEF put
<1>6. /\ \A k : k \in chs <=> k \in DOMAIN d.w /\ Scope[k] = "channels"
      /\ \A k : k \in ths <=> k \in DOMAIN d.w /\ Scope[k] = "threads"
  BY DEF In
<1>7. \A k : k \in left <=> /\ k \in Things /\ Scope[k] \in {"channels", "threads"} /\ Guild[k] = g
                            /\ k \notin DOMAIN d.w
  BY DEF Of, In
<1>8. /\ \A k : k \in ks1 <=> /\ k \in Cached /\ Scope[k] = "channels" /\ Guild[k] = g
                              /\ IsHeld(c, k, t) /\ k \notin DOMAIN d.w
      /\ \A k : k \in ks2 <=> /\ k \in Cached /\ Scope[k] = "threads" /\ Guild[k] = g
                              /\ IsHeld(c, k, t) /\ k \notin DOMAIN d.w
  <2>1. /\ StoreInv(Policies[c.policy]["channels"], s, t) /\ Keys(s) \subseteq In("channels", Things)
        /\ Keys(c.stores["threads"]) \subseteq In("threads", Things)
    BY <1>1, StoreOf
  <2>2. Indexed(s, g) = {k \in Keys(s) : g # NoGroup /\ GroupOf(k) = g}
    BY <2>1, IndexedIs
  <2>3. \A k \in Keys(s) : k \in Cached /\ Scope[k] = "channels" /\ GroupOf(k) = Guild[k]
    BY <1>1, <2>1 DEF In, Cached, GroupOf
  <2>4. \A k \in Keys(c.stores["threads"]) : k \in Cached /\ Scope[k] = "threads"
    BY <1>1, <2>1 DEF In, Cached
  <2>5. Live(s, t) \subseteq Keys(s) /\ Live(c.stores["threads"], t) \subseteq Keys(c.stores["threads"])
    BY DEF Live
  <2>6. \A k : k \in channels <=> k \in Keys(s) /\ Guild[k] = g /\ k \in Live(s, t)
    BY <1>1, <2>2, <2>3, <2>5 DEF Group
  <2> QED
    BY <2>3, <2>4, <2>5, <2>6 DEF IsHeld
<1> HIDE DEF chs, ths, left, ks1, ks2
<1>9. Did(c, put, arrived, {}, d.w, t)
  <2>1. Did(c, p1, {} \cup chs, {}, d.w, t)
    BY <1>3, <1>4, DidThenPut
  <2>2. {} \cup chs = chs
    OBVIOUS
  <2> QED
    BY <1>5, <2>1, <2>2, DidThenPut
<1>10. ks1 \subseteq Things /\ ks2 \subseteq Things
  BY <1>8 DEF Cached
<1>11. /\ Did(put, e1, {}, lost1, d.w, t)
       /\ \A k \in Cached : k \in lost1 /\ Scope[k] \in {"channels", "threads"} => ~IsHeld(e1, k, t)
  BY <1>1, <1>9, <1>10, EvictChannelsDoes DEF Did
<1>12. Good(e1, t)
  BY <1>11 DEF Did
<1> HIDE DEF e1
<1>13. /\ Did(e1, e, {}, lost2, d.w, t)
       /\ \A k \in Cached : k \in lost2 /\ Scope[k] \in {"channels", "threads"} => ~IsHeld(e, k, t)
  BY <1>1, <1>10, <1>12, EvictChannelsDoes
<1>14. /\ \A k \in Cached : k \in lost1 <=> k \in ks1 \/ (Scope[k] = "threads" /\ Parent[k] \in ks1)
       /\ \A k \in Cached : k \in lost2 <=> k \in ks2 \/ (Scope[k] = "threads" /\ Parent[k] \in ks2)
  OBVIOUS
<1> HIDE DEF e, lost1, lost2, arrived
<1>15. \A k \in Cached : k \in lost1 \/ k \in lost2 => k \in left
  <2>1. \A k \in Things : Scope[k] = "threads" => /\ Parent[k] \in Things /\ Scope[Parent[k]] = "channels"
                                                  /\ Guild[Parent[k]] = Guild[k]
    BY Places DEF In
  <2> QED
    BY <1>1, <1>7, <1>8, <1>14, <2>1 DEF Cached
<1>16. Did(c, e, arrived, left, d.w, t)
  <2>1. Did(c, e1, arrived, {} \cup lost1, d.w, t)
    BY <1>9, <1>11, DidThenLost
  <2>2. Did(c, e, arrived, ({} \cup lost1) \cup lost2, d.w, t)
    BY <1>13, <2>1, DidThenLost
  <2>3. \A k \in Cached : k \in ({} \cup lost1) \cup lost2 /\ Scope[k] \in Full => k \in left
    BY <1>15
  <2> QED
    BY <2>2, <2>3, DidLess
<1>17. ASSUME NEW k \in Cached, k \in left PROVE ~IsHeld(e, k, t)
  <2>1. k \notin arrived /\ Scope[k] \in {"channels", "threads"}
    BY <1>6, <1>7, <1>17 DEF arrived
  <2>2. CASE IsHeld(c, k, t) /\ Scope[k] = "channels"
    <3>1. ~IsHeld(e1, k, t)
      BY <1>7, <1>8, <1>11, <1>14, <1>17, <2>2
    <3> QED
      BY <1>13, <3>1, DidStaysOut
  <2>3. CASE IsHeld(c, k, t) /\ Scope[k] = "threads"
    BY <1>7, <1>8, <1>13, <1>14, <1>17, <2>3
  <2>4. CASE ~IsHeld(c, k, t)
    BY <1>16, <2>1, <2>4, DidStaysOut
  <2> QED
    BY <2>1, <2>2, <2>3, <2>4
<1> QED
  BY <1>2, <1>16, <1>17 DEF Swapped, arrived, chs, ths, left

LEMMA SwappedPut ==
  ASSUME NEW c, NEW e, NEW t, NEW w, NEW ks, Did(c, e, ks, {}, w, t)
  PROVE  Swapped(c, e, ks, {}, w, t)
  BY DEF Swapped

LEMMA GuildCreateDoes ==
  ASSUME NEW c, NEW t \in Nat \ {0}, Good(c, t), NEW d, Proper(d), d.event = "GUILD_CREATE"
  PROVE  Does(c, GuildCreate(c, d, t), d, t)
<1> DEFINE g == d.key
           D == DOMAIN d.w
           c0 == Put(c, g, d.w[g], t)
           c1 == Reconcile(c0, g, "roles", d.w, t)
           c2 == ReconcileChannels(c1, g, d.w, t)
           c3 == Reconcile(c2, g, "voiceStates", d.w, t)
           c4 == Reconcile(c3, g, "emojis", d.w, t)
           c5 == Reconcile(c4, g, "stickers", d.w, t)
           c6 == PutAll(c5, d.w, In("presences", D), t)
           c7 == UpsertUsers(c6, d.w, t)
           e == PutAll(c7, d.w, In("members", D), t)
           k0 == {g}
           k1 == In("roles", D)
           k2 == In("channels", D) \cup In("threads", D)
           k3 == In("voiceStates", D)
           k4 == In("emojis", D)
           k5 == In("stickers", D)
           k6 == In("presences", D)
           k7 == In("users", D)
           k8 == In("members", D)
           g1 == Of("roles", g) \ D
           g2 == (Of("channels", g) \cup Of("threads", g)) \ D
           g3 == Of("voiceStates", g) \ D
           g4 == Of("emojis", g) \ D
           g5 == Of("stickers", g) \ D
<1>1. /\ g \in In("guilds", Things) /\ g \in D /\ g \in Cached /\ Scope[g] = "guilds"
      /\ \A k \in D : /\ Scope[k] \notin {"messages", "self"}
                      /\ Scope[k] # "users" => Guild[k] = g
      /\ d.event \notin PatchEvents \cup {"MESSAGE_UPDATE", "GUILD_ROLE_DELETE", "SELF"}
      /\ D \subseteq Things /\ t \in Nat
  BY DEF Proper, WellShaped, PatchEvents, In, Cached, Scopes
<1>2. GuildCreate(c, d, t) = e
  BY DEF GuildCreate
<1>3. Did(c, c0, {g}, {}, d.w, t)
  BY <1>1, PutOne
<1>4. Swapped(c, c0, k0, {}, d.w, t) /\ Good(c0, t)
  BY <1>3, SwappedPut DEF Did
<1> HIDE DEF c0
<1>5. Swapped(c0, c1, k1, g1, d.w, t) /\ Good(c1, t)
  <2>1. Swapped(c0, c1, k1, g1, d.w, t)
    BY <1>1, <1>4, ReconcileDoes DEF Swapped
  <2> QED
    BY <2>1 DEF Swapped, Did
<1> HIDE DEF c1
<1>6. Swapped(c1, c2, k2, g2, d.w, t) /\ Good(c2, t)
  <2>1. Swapped(c1, c2, k2, g2, d.w, t)
    BY <1>5, ReconcileChannelsDoes
  <2> QED
    BY <2>1 DEF Swapped, Did
<1> HIDE DEF c2
<1>7. Swapped(c2, c3, k3, g3, d.w, t) /\ Good(c3, t)
  <2>1. Swapped(c2, c3, k3, g3, d.w, t)
    BY <1>1, <1>6, ReconcileDoes DEF Swapped
  <2> QED
    BY <2>1 DEF Swapped, Did
<1> HIDE DEF c3
<1>8. Swapped(c3, c4, k4, g4, d.w, t) /\ Good(c4, t)
  <2>1. Swapped(c3, c4, k4, g4, d.w, t)
    BY <1>1, <1>7, ReconcileDoes DEF Swapped
  <2> QED
    BY <2>1 DEF Swapped, Did
<1> HIDE DEF c4
<1>9. Swapped(c4, c5, k5, g5, d.w, t) /\ Good(c5, t)
  <2>1. Swapped(c4, c5, k5, g5, d.w, t)
    BY <1>1, <1>8, ReconcileDoes DEF Swapped
  <2> QED
    BY <2>1 DEF Swapped, Did
<1> HIDE DEF c5
<1>10. Did(c5, c6, k6, {}, d.w, t) /\ Good(c6, t)
  <2>1. "presences" \in Scopes
    BY DEF Scopes
  <2>2. Did(c5, c6, k6, {}, d.w, t)
    BY <1>9, <2>1, PutScope
  <2> QED
    BY <2>2 DEF Did
<1> HIDE DEF c6
<1>11. Did(c6, c7, k7, {}, d.w, t) /\ Good(c7, t)
  BY <1>10, UsersDo DEF Did
<1> HIDE DEF c7
<1>12. Did(c7, e, k8, {}, d.w, t)
  <2>1. "members" \in Scopes
    BY DEF Scopes
  <2> QED
    BY <1>11, <2>1, PutScope
<1> HIDE DEF e
<1>13. /\ Swapped(c5, c6, k6, {}, d.w, t) /\ Swapped(c6, c7, k7, {}, d.w, t)
       /\ Swapped(c7, e, k8, {}, d.w, t)
  BY <1>10, <1>11, <1>12, SwappedPut
<1>14. /\ \A k : k \in k0 <=> k = g
       /\ \A k : k \in k1 <=> k \in D /\ Scope[k] = "roles"
       /\ \A k : k \in k2 <=> k \in D /\ Scope[k] \in {"channels", "threads"}
       /\ \A k : k \in k3 <=> k \in D /\ Scope[k] = "voiceStates"
       /\ \A k : k \in k4 <=> k \in D /\ Scope[k] = "emojis"
       /\ \A k : k \in k5 <=> k \in D /\ Scope[k] = "stickers"
       /\ \A k : k \in k6 <=> k \in D /\ Scope[k] = "presences"
       /\ \A k : k \in k7 <=> k \in D /\ Scope[k] = "users"
       /\ \A k : k \in k8 <=> k \in D /\ Scope[k] = "members"
  BY DEF In
<1>15. /\ \A k : k \in g1 <=> k \in Things /\ Scope[k] = "roles" /\ Guild[k] = g /\ k \notin D
       /\ \A k : k \in g2 <=> /\ k \in Things /\ Scope[k] \in {"channels", "threads"}
                              /\ Guild[k] = g /\ k \notin D
       /\ \A k : k \in g3 <=> k \in Things /\ Scope[k] = "voiceStates" /\ Guild[k] = g /\ k \notin D
       /\ \A k : k \in g4 <=> k \in Things /\ Scope[k] = "emojis" /\ Guild[k] = g /\ k \notin D
       /\ \A k : k \in g5 <=> k \in Things /\ Scope[k] = "stickers" /\ Guild[k] = g /\ k \notin D
  BY DEF Of, In
<1>16. /\ \A k \in D : k \in Raises(d)
       /\ \A k \in Raises(d) : k \in D
       /\ \A k : k \in Kills(d) <=> /\ k \in Things /\ Guild[k] = g /\ Scope[k] \in Reconciled
                                    /\ k \notin D
  BY <1>1, Places DEF Raises, Kills
<1> HIDE DEF D, k0, k1, k2, k3, k4, k5, k6, k7, k8, g1, g2, g3, g4, g5
<1> DEFINE ks2 == (k0 \cup k1) \cup k2
           ks5 == ((ks2 \cup k3) \cup k4) \cup k5
           gs2 == ({} \cup g1) \cup g2
           gs5 == ((gs2 \cup g3) \cup g4) \cup g5
<1>17. Swapped(c, c2, ks2, gs2, d.w, t)
  <2>1. {} \cap k1 = {} /\ ({} \cup g1) \cap k2 = {}
    BY <1>14, <1>15
  <2>2. Swapped(c, c1, k0 \cup k1, {} \cup g1, d.w, t)
    BY <1>4, <1>5, <2>1, SwappedThen
  <2> QED
    BY <1>6, <2>1, <2>2, SwappedThen
<1>18. Swapped(c, c5, ks5, gs5, d.w, t)
  <2>1. \A k \in gs5 : k \notin D
    BY <1>15
  <2>2. gs2 \cap k3 = {} /\ (gs2 \cup g3) \cap k4 = {} /\ ((gs2 \cup g3) \cup g4) \cap k5 = {}
    BY <1>14, <2>1
  <2> HIDE DEF ks2, gs2
  <2>3. Swapped(c, c3, ks2 \cup k3, gs2 \cup g3, d.w, t)
    BY <1>7, <1>17, <2>2, SwappedThen
  <2>4. Swapped(c, c4, (ks2 \cup k3) \cup k4, (gs2 \cup g3) \cup g4, d.w, t)
    BY <1>8, <2>2, <2>3, SwappedThen
  <2> QED
    BY <1>9, <2>2, <2>4, SwappedThen
<1>19. Swapped(c, e, ((ks5 \cup k6) \cup k7) \cup k8, ((gs5 \cup {}) \cup {}) \cup {}, d.w, t)
  <2>1. \A k \in gs5 : k \notin D
    BY <1>15
  <2>2. gs5 \cap k6 = {} /\ (gs5 \cup {}) \cap k7 = {} /\ ((gs5 \cup {}) \cup {}) \cap k8 = {}
    BY <1>14, <2>1
  <2> HIDE DEF ks5, gs5
  <2>3. Swapped(c, c6, ks5 \cup k6, gs5 \cup {}, d.w, t)
    BY <1>13, <1>18, <2>2, SwappedThen
  <2>4. Swapped(c, c7, (ks5 \cup k6) \cup k7, (gs5 \cup {}) \cup {}, d.w, t)
    BY <1>13, <2>2, <2>3, SwappedThen
  <2> QED
    BY <1>13, <2>2, <2>4, SwappedThen
<1>20. ((ks5 \cup k6) \cup k7) \cup k8 = Raises(d)
  <2>1. \A k \in D : Scope[k] \in Scopes \cup {"self"}
    BY <1>1, Places DEF D
  <2>2. \A k \in D : Scope[k] = "guilds" => k = g
    BY <1>1, Places DEF D
  <2>3. g \in D
    BY <1>1 DEF D
  <2>4. \A k \in D : k \in ((ks5 \cup k6) \cup k7) \cup k8
    BY <1>1, <1>14, <2>1, <2>2 DEF Scopes, D
  <2>5. \A k \in ((ks5 \cup k6) \cup k7) \cup k8 : k \in D
    BY <1>14, <2>3
  <2> HIDE DEF ks5
  <2> QED
    BY <1>16, <2>4, <2>5
<1>21. ((gs5 \cup {}) \cup {}) \cup {} = Kills(d)
  <2>1. \A k : k \in gs5 <=> /\ k \in Things /\ Guild[k] = g /\ Scope[k] \in Reconciled
                             /\ k \notin D
    BY <1>15 DEF Reconciled
  <2> HIDE DEF gs5
  <2> QED
    BY <1>16, <2>1
<1>22. Swapped(c, e, Raises(d), Kills(d), d.w, t)
  BY <1>19, <1>20, <1>21
<1>23. \A k \in Cached : k \in Kills(d) => k \notin Raises(d)
  BY <1>16
<1>24. Did(c, e, Raises(d), Kills(d), d.w, t) /\ \A k \in Cached : k \in Kills(d) => ~IsHeld(e, k, t)
  BY <1>22 DEF Swapped
<1> QED
  BY <1>1, <1>2, <1>23, <1>24, DidDoes

LEMMA SelfDoes ==
  ASSUME NEW c, NEW t \in Nat \ {0}, Good(c, t), NEW d, Proper(d), d.event = "SELF"
  PROVE  Does(c, SelfUpdate(c, d, t), d, t)
<1> DEFINE v == d.w[d.key]
           e == SelfUpdate(c, d, t)
<1>1. e = [c EXCEPT !.self = v]
  BY DEF SelfUpdate
<1>2. c = [policy |-> c.policy, stores |-> c.stores, self |-> c.self]
  BY DEF Good, CacheInv
<1> HIDE DEF v, e
<1>3. e.policy = c.policy /\ e.stores = c.stores /\ e.self = v
  BY <1>1, <1>2
<1>4. Good(e, t)
  <2>1. CacheInv(e, t)
    BY <1>1, SelfSound DEF Good
  <2> QED
    BY <1>3, <2>1 DEF Good
<1>5. /\ \A k \in Cached : k \notin DOMAIN d.w /\ k \notin Raises(d) /\ k \notin Kills(d)
      /\ d.event \notin PatchEvents
  BY DEF Proper, WellShaped, In, Cached, Scopes, Raises, Kills, PatchEvents
<1>6. \A k \in Cached : \A x : ~Tells(d, k, x)
  BY <1>5 DEF Tells
<1>7. \A k \in Cached : (IsHeld(e, k, t) <=> IsHeld(c, k, t)) /\ Held(e, k) = Held(c, k)
  BY <1>3 DEF IsHeld, Held
<1>8. \A k \in Cached : DoesTo(c, e, d, t, k)
  BY <1>5, <1>6, <1>7 DEF DoesTo
<1> QED
  BY <1>3, <1>4, <1>8 DEF Does, e, v

\* Every handler does what the dispatch says.
LEMMA HandleDoes ==
  ASSUME NEW c, NEW t \in Nat \ {0}, Good(c, t), Typed(c, t), NEW d, Proper(d)
  PROVE  Does(c, Handle(c, d, t), d, t)
<1>1. CASE d.event = "GUILD_CREATE"
  BY <1>1, GuildCreateDoes DEF Handle
<1>2. CASE d.event \in {"GUILD_UPDATE", "GUILD_ROLE", "THREAD", "PRESENCE_UPDATE", "CHANNEL_CREATE"}
  <2>1. Handle(c, d, t) = Put(c, d.key, d.w[d.key], t)
    BY <1>2 DEF Handle, GuildUpdate, RoleUpsert, ThreadUpsert, PresenceUpdate, ChannelCreate
  <2> QED
    BY <1>2, <2>1, SimpleDoes
<1>3. CASE d.event = "GUILD_DELETE"
  BY <1>3, GuildDeleteDoes DEF Handle
<1>4. CASE d.event = "GUILD_UNAVAILABLE"
  BY <1>4, UnavailableDoes DEF Handle
<1>5. CASE d.event = "CHANNEL_UPDATE"
  BY <1>5, ChannelUpdateDoes DEF Handle
<1>6. CASE d.event = "CHANNEL_PINS_UPDATE"
  BY <1>6, ChannelPinsUpdateDoes DEF Handle
<1>7. CASE d.event \in {"CHANNEL_DELETE", "THREAD_DELETE"}
  BY <1>7, ChannelDeleteDoes DEF Handle
<1>8. CASE d.event = "THREAD_LIST_SYNC"
  BY <1>8, ThreadListSyncDoes DEF Handle
<1>9. CASE d.event = "THREAD_MEMBERS_UPDATE"
  BY <1>9, ThreadMembersUpdateDoes DEF Handle
<1>10. CASE d.event = "GUILD_ROLE_DELETE"
  BY <1>10, RoleDeleteDoes DEF Handle
<1>11. CASE d.event \in {"MEMBER", "MESSAGE_CREATE"}
  <2>1. Handle(c, d, t) = Put(UpsertUsers(c, d.w, t), d.key, d.w[d.key], t)
    BY <1>11 DEF Handle, MemberPut, MessageCreate
  <2> QED
    BY <1>11, <2>1, CreateDoes
<1>12. CASE d.event = "GUILD_MEMBER_REMOVE"
  BY <1>12, MemberRemoveDoes DEF Handle
<1>13. CASE d.event = "USER_SEEN"
  BY <1>13, UserSeenDoes DEF Handle, UserSeen
<1>14. CASE d.event = "MESSAGE_UPDATE"
  BY <1>14, MessageUpdateDoes DEF Handle
<1>15. CASE d.event = "MESSAGE_DELETE"
  BY <1>15, MessageDeleteDoes DEF Handle
<1>16. CASE d.event \in {"GUILD_EMOJIS_UPDATE", "GUILD_STICKERS_UPDATE"}
  BY <1>16, ExpressionsDoes DEF Handle
<1>17. CASE d.event = "VOICE_STATE_UPDATE"
  BY <1>17, VoiceStateDoes DEF Handle
<1>18. CASE d.event = "SELF"
  BY <1>18, SelfDoes DEF Handle
<1>19. d.event \in Events
  BY DEF Proper, Payload
<1> QED
  BY <1>1, <1>2, <1>3, <1>4, <1>5, <1>6, <1>7, <1>8, <1>9, <1>10, <1>11, <1>12, <1>13,
     <1>14, <1>15, <1>16, <1>17, <1>18, <1>19 DEF Events

LEMMA DoesKeepsTyped ==
  ASSUME NEW c, NEW e, NEW t, NEW d, Proper(d), Typed(c, t), Does(c, e, d, t)
  PROVE  Typed(e, t)
<1> SUFFICES ASSUME NEW k \in Cached, IsHeld(e, k, t) PROVE Held(e, k) \in Versions(k)
  BY DEF Typed
<1>1. DoesTo(c, e, d, t, k)
  BY DEF Does
<1>2. CASE k \in Raises(d)
  <2>1. Stubbed(d, k) => Stub \in Versions(k)
    BY DEF Stubbed, Proper, WellShaped, Versions
  <2>2. d.w[k] \in Versions(k)
    BY <1>2 DEF Raises, Proper
  <2> QED
    BY <1>1, <1>2, <2>1, <2>2 DEF DoesTo, Typed
<1>3. CASE k \notin Raises(d)
  BY <1>1, <1>3 DEF DoesTo, Typed
<1> QED
  BY <1>2, <1>3

-----------------------------------------------------------------------------
(* What is told and what is so.  `w` is the world, `l` the log of which    *)
(* `a` have been applied, and `c` the cache.                               *)

\* What the handlers keep whole where the policy allows.
Described(w, k) ==
  /\ w[k] # Gone
  /\ \/ Scope[k] \in {"guilds", "channels", "roles", "emojis", "stickers", "voiceStates"}
     \/ Scope[k] = "threads" /\ ~Archived(w[k])

GuildGone(w, k) == Guild[k] \in Things /\ w[Guild[k]] = Gone

\* After the i-th, one that is about k tells the part anew, or takes k away; or some put k.
Renewed(l, k, x, i) ==
  \E j \in DOMAIN l : j > i /\ k \in l[j].about /\ (k \in Kills(l[j]) \/ Tells(l[j], k, x))

Ended(l, k, i) == \E j \in DOMAIN l : j > i /\ k \in l[j].about /\ k \in Kills(l[j])

Raised(l, k, i) == \E j \in DOMAIN l : j > i /\ k \in Raises(l[j])

\* What a dispatch tells, puts or takes away is so, or a later one says otherwise.
LogTrue(w, l, k) ==
  /\ w[k] # Gone => \A i \in DOMAIN l : \A x \in Parts :
       Tells(l[i], k, x) => Part(Said(l[i], k), x) = Part(w[k], x) \/ Renewed(l, k, x, i)
  /\ w[k] = Gone => \A i \in DOMAIN l :
       k \in Raises(l[i]) \/ (GuildGone(w, k) /\ \E x \in Parts : Tells(l[i], k, x)) => Ended(l, k, i)
  /\ Described(w, k) => \A i \in DOMAIN l : k \in Kills(l[i]) => Raised(l, k, i)

\* And so is what is cached, or what was not applied yet says otherwise.
HeldTrue(w, l, a, c, t, k) ==
  IsHeld(c, k, t) =>
    /\ w[k] # Gone => \A x \in Parts :
         Held(c, k) = Stub \/ Part(Held(c, k), x) = Part(w[k], x) \/ Renewed(l, k, x, a)
    /\ w[k] = Gone => Ended(l, k, a)

HeldWhole(w, l, a, c, t, k) ==
  Described(w, k) /\ KeptWhole(c, k) => IsHeld(c, k, t) \/ Raised(l, k, a)

\* l2 is l with d at its end.
Longer(l, d, l2) ==
  /\ Len(l) \in Nat /\ DOMAIN l = 1 .. Len(l)
  /\ DOMAIN l2 = 1 .. Len(l) + 1
  /\ \A i \in DOMAIN l : l2[i] = l[i]
  /\ l2[Len(l) + 1] = d

LEMMA LongerLog ==
  ASSUME NEW l, NEW d, LogInv(l)
  PROVE  Longer(l, d, Append(l, d))
<1>1. PICK S : l \in Seq(S)
  BY DEF LogInv
<1>2. l \in Seq(S \cup {d}) /\ d \in S \cup {d}
  BY <1>1
<1>3. Len(l) \in Nat /\ DOMAIN l = 1 .. Len(l)
  BY <1>1
<1>4. /\ DOMAIN Append(l, d) = 1 .. Len(l) + 1
      /\ \A i \in 1 .. Len(l) : Append(l, d)[i] = l[i]
      /\ Append(l, d)[Len(l) + 1] = d
  BY <1>2, <1>3
<1> QED
  BY <1>3, <1>4 DEF Longer

LEMMA LaterOn ==
  ASSUME NEW l, NEW d, NEW l2, Longer(l, d, l2), NEW k, NEW i
  PROVE  /\ \A x : Renewed(l, k, x, i) => Renewed(l2, k, x, i)
         /\ Ended(l, k, i) => Ended(l2, k, i)
         /\ Raised(l, k, i) => Raised(l2, k, i)
         /\ i \in 0 .. Len(l) =>
              /\ k \in d.about /\ k \in Kills(d) => Ended(l2, k, i)
              /\ \A x : k \in d.about /\ (k \in Kills(d) \/ Tells(d, k, x)) => Renewed(l2, k, x, i)
              /\ k \in Raises(d) => Raised(l2, k, i)
<1>1. \A j \in DOMAIN l : j \in DOMAIN l2 /\ l2[j] = l[j]
  BY DEF Longer
<1>2. Len(l) + 1 \in DOMAIN l2 /\ l2[Len(l) + 1] = d
  BY DEF Longer
<1>3. i \in 0 .. Len(l) => Len(l) + 1 > i
  BY DEF Longer
<1> QED
  BY <1>1, <1>2, <1>3 DEF Renewed, Ended, Raised

LEMMA EndedRenews ==
  ASSUME NEW l, NEW k, NEW i, Ended(l, k, i) PROVE \A x : Renewed(l, k, x, i)
  BY DEF Ended, Renewed

\* As w becomes w2, of which m was not told before, d tells of k all there is to tell.
Speaks(w, w2, m, d, k) ==
  /\ k \notin d.about => k \notin m /\ (w2[k] = w[k] \/ (w[k] = Gone /\ GuildGone(w, k)))
  /\ w2[k] # Gone => \A x \in Parts : Tells(d, k, x) => Part(Said(d, k), x) = Part(w2[k], x)
  /\ k \in d.about /\ w2[k] # Gone => \A x \in Parts :
       k \in Kills(d) \/ Tells(d, k, x) \/ (w[k] # Gone /\ k \notin m /\ Part(w2[k], x) = Part(w[k], x))
  /\ k \in d.about /\ w2[k] = Gone => k \in Kills(d)
  /\ w2[k] = Gone => k \notin Raises(d) /\ ~(GuildGone(w2, k) /\ \E x \in Parts : Tells(d, k, x))
  /\ w2[k] = Gone /\ k \notin d.about /\ GuildGone(w2, k) => GuildGone(w, k)
  /\ k \in Kills(d) => ~Described(w2, k)
  /\ Described(w2, k) => k \in Raises(d) \/ (k \notin m /\ Described(w, k))

LEMMA SpokenLog ==
  ASSUME NEW l, NEW d, NEW l2, Longer(l, d, l2), NEW w, NEW w2, NEW m, NEW k, Speaks(w, w2, m, d, k),
         k \notin m => LogTrue(w, l, k)
  PROVE  LogTrue(w2, l2, k)
<1>0. /\ \A i \in DOMAIN l2 : i \in DOMAIN l \/ i = Len(l) + 1
      /\ \A i \in DOMAIN l : i \in 0 .. Len(l) /\ l2[i] = l[i]
      /\ l2[Len(l) + 1] = d
  BY DEF Longer
<1>1. ASSUME w2[k] # Gone, NEW i \in DOMAIN l2, NEW x \in Parts, Tells(l2[i], k, x)
      PROVE  Part(Said(l2[i], k), x) = Part(w2[k], x) \/ Renewed(l2, k, x, i)
  <2>1. CASE i = Len(l) + 1
    BY <1>0, <1>1, <2>1 DEF Speaks
  <2>2. CASE i \in DOMAIN l
    <3>0. i \in 0 .. Len(l) /\ Tells(l[i], k, x) /\ Said(l2[i], k) = Said(l[i], k)
      BY <1>0, <1>1, <2>2
    <3>1. CASE k \in d.about /\ (k \in Kills(d) \/ Tells(d, k, x))
      BY <3>0, <3>1, LaterOn
    <3>2. CASE /\ k \notin m /\ w[k] # Gone /\ Part(w2[k], x) = Part(w[k], x)
      <4>1. Part(Said(l[i], k), x) = Part(w[k], x) \/ Renewed(l, k, x, i)
        BY <2>2, <3>0, <3>2 DEF LogTrue
      <4> QED
        BY <3>0, <3>2, <4>1, LaterOn
    <3>3. CASE k \notin m /\ w[k] = Gone /\ GuildGone(w, k)
      <4>1. Ended(l, k, i)
        BY <2>2, <3>0, <3>3 DEF LogTrue
      <4> QED
        BY <4>1, EndedRenews, LaterOn
    <3> QED
      BY <1>1, <3>1, <3>2, <3>3 DEF Speaks
  <2> QED
    BY <1>0, <2>1, <2>2
<1>2. ASSUME w2[k] = Gone, NEW i \in DOMAIN l2,
             k \in Raises(l2[i]) \/ (GuildGone(w2, k) /\ \E x \in Parts : Tells(l2[i], k, x))
      PROVE  Ended(l2, k, i)
  <2>1. i # Len(l) + 1
    BY <1>0, <1>2 DEF Speaks
  <2>2. i \in DOMAIN l /\ i \in 0 .. Len(l) /\ l2[i] = l[i]
    BY <1>0, <2>1
  <2>3. CASE k \in d.about
    BY <1>2, <2>2, <2>3, LaterOn DEF Speaks
  <2>4. CASE k \notin d.about
    <3>1. k \notin m /\ w[k] = Gone /\ (GuildGone(w2, k) => GuildGone(w, k))
      BY <1>2, <2>4 DEF Speaks
    <3>2. Ended(l, k, i)
      BY <1>2, <2>2, <3>1 DEF LogTrue
    <3> QED
      BY <3>2, LaterOn
  <2> QED
    BY <2>3, <2>4
<1>3. ASSUME Described(w2, k), NEW i \in DOMAIN l2, k \in Kills(l2[i])
      PROVE  Raised(l2, k, i)
  <2>1. i # Len(l) + 1
    BY <1>0, <1>3 DEF Speaks
  <2>2. i \in DOMAIN l /\ i \in 0 .. Len(l) /\ l2[i] = l[i]
    BY <1>0, <2>1
  <2>3. CASE k \in Raises(d)
    BY <2>2, <2>3, LaterOn
  <2>4. CASE k \notin m /\ Described(w, k)
    <3>1. Raised(l, k, i)
      BY <1>3, <2>2, <2>4 DEF LogTrue
    <3> QED
      BY <3>1, LaterOn
  <2> QED
    BY <1>3, <2>3, <2>4 DEF Speaks
<1> QED
  BY <1>1, <1>2, <1>3 DEF LogTrue

LEMMA SpokenHeld ==
  ASSUME NEW l, NEW d, NEW l2, Longer(l, d, l2), NEW w, NEW w2, NEW m, NEW k, Speaks(w, w2, m, d, k),
         NEW a \in 0 .. Len(l), NEW c, NEW t
  PROVE  /\ (k \notin m => HeldTrue(w, l, a, c, t, k)) => HeldTrue(w2, l2, a, c, t, k)
         /\ (k \notin m => HeldWhole(w, l, a, c, t, k)) => HeldWhole(w2, l2, a, c, t, k)
<1>1. ASSUME k \notin m => HeldTrue(w, l, a, c, t, k), IsHeld(c, k, t)
      PROVE  /\ w2[k] # Gone => \A x \in Parts :
                  Held(c, k) = Stub \/ Part(Held(c, k), x) = Part(w2[k], x) \/ Renewed(l2, k, x, a)
             /\ w2[k] = Gone => Ended(l2, k, a)
  <2>1. ASSUME w2[k] # Gone, NEW x \in Parts
        PROVE  Held(c, k) = Stub \/ Part(Held(c, k), x) = Part(w2[k], x) \/ Renewed(l2, k, x, a)
    <3>1. CASE k \in d.about /\ (k \in Kills(d) \/ Tells(d, k, x))
      BY <3>1, LaterOn
    <3>2. CASE /\ k \notin m /\ w[k] # Gone /\ Part(w2[k], x) = Part(w[k], x)
      BY <1>1, <3>2, LaterOn DEF HeldTrue
    <3>3. CASE k \notin m /\ w[k] = Gone
      BY <1>1, <3>3, EndedRenews, LaterOn DEF HeldTrue
    <3> QED
      BY <2>1, <3>1, <3>2, <3>3 DEF Speaks
  <2>2. ASSUME w2[k] = Gone PROVE Ended(l2, k, a)
    <3>1. CASE k \in d.about
      BY <2>2, <3>1, LaterOn DEF Speaks
    <3>2. CASE k \notin d.about
      <4>1. k \notin m /\ w[k] = Gone
        BY <2>2, <3>2 DEF Speaks
      <4> QED
        BY <1>1, <4>1, LaterOn DEF HeldTrue
    <3> QED
      BY <3>1, <3>2
  <2> QED
    BY <2>1, <2>2
<1>2. ASSUME k \notin m => HeldWhole(w, l, a, c, t, k), Described(w2, k), KeptWhole(c, k)
      PROVE  IsHeld(c, k, t) \/ Raised(l2, k, a)
  BY <1>2, LaterOn DEF HeldWhole, Speaks
<1> QED
  BY <1>1, <1>2 DEF HeldTrue, HeldWhole

\* What was not told of anything but k changes nothing for k.
LEMMA UnsaidStays ==
  ASSUME NEW w, NEW w2, NEW k, w2[k] = w[k],
         w2[k] = Gone /\ GuildGone(w2, k) => GuildGone(w, k)
  PROVE  /\ \A l : LogTrue(w, l, k) => LogTrue(w2, l, k)
         /\ \A l, a, c, t : HeldTrue(w, l, a, c, t, k) => HeldTrue(w2, l, a, c, t, k)
         /\ \A l, a, c, t : HeldWhole(w, l, a, c, t, k) => HeldWhole(w2, l, a, c, t, k)
<1>1. Described(w2, k) <=> Described(w, k)
  BY DEF Described
<1> QED
  BY <1>1 DEF LogTrue, HeldTrue, HeldWhole

-----------------------------------------------------------------------------
(* The world, and what the cache knows of it.                              *)

\* Everything is a version of what it is and in a place that is there.
WorldOK(w) ==
  /\ w = [k \in Things |-> w[k]]
  /\ \A k \in Things :
       /\ w[k] \in Versions(k) \cup {Gone} /\ w[k] # Stub
       /\ Scope[k] \in {"users", "self"} => w[k] # Gone
       /\ w[k] # Gone => \A x \in {Guild[k], Parent[k], Member[k]} \ {NoGroup} : w[x] # Gone

\* No GUILD_CREATE describes a channel that is in no guild: what puts it is about it.
DirectTold(d) == \A k \in Raises(d) : Scope[k] \in Full /\ Guild[k] = NoGroup => k \in d.about

\* The client's own user.
SelfTrue(w, l, a, c) ==
  \A me \in In("self", Things) :
    /\ \A i \in DOMAIN l : l[i].event = "SELF" =>
         l[i].w[l[i].key] = w[me] \/ \E j \in DOMAIN l : j > i /\ l[j].event = "SELF"
    /\ c.self = w[me] \/ \E j \in DOMAIN l : j > a /\ l[j].event = "SELF"

TruthInv ==
  /\ WorldOK(world)
  /\ outage \subseteq In("guilds", Things)
  /\ \A i \in DOMAIN log : Proper(log[i]) /\ DirectTold(log[i])
  /\ Good(cache, now) /\ Typed(cache, now)
  /\ \A k \in Cached \ missed : LogTrue(world, log, k)
  /\ \A k \in Cached \ (missed \cup stray) : HeldTrue(world, log, applied, cache, now, k)
  /\ \A k \in Cached \ (missed \cup converted) : HeldWhole(world, log, applied, cache, now, k)
  /\ SelfTrue(world, log, applied, cache)

\* A dispatch that may tell of a change.
Announced(w, w2, d) ==
  /\ d = [event |-> d.event, key |-> d.key, w |-> d.w, of |-> d.of, about |-> d.about]
  /\ Proper(d) /\ DirectTold(d) /\ WorldOK(w2)
  /\ \A me \in In("self", Things) : w2[me] = IF d.event = "SELF" THEN d.w[d.key] ELSE w[me]

LEMMA SelfTold ==
  ASSUME NEW l, NEW d, NEW l2, Longer(l, d, l2), NEW w, NEW w2, NEW a \in 0 .. Len(l), NEW c,
         SelfTrue(w, l, a, c), Announced(w, w2, d)
  PROVE  SelfTrue(w2, l2, a, c)
<1>0. /\ \A i \in DOMAIN l2 : i \in DOMAIN l \/ i = Len(l) + 1
      /\ \A i \in DOMAIN l : i \in DOMAIN l2 /\ i < Len(l) + 1 /\ l2[i] = l[i]
      /\ l2[Len(l) + 1] = d /\ Len(l) + 1 \in DOMAIN l2 /\ Len(l) + 1 > a
  BY DEF Longer
<1> SUFFICES ASSUME NEW me \in In("self", Things)
             PROVE  /\ \A i \in DOMAIN l2 : l2[i].event = "SELF" =>
                         \/ l2[i].w[l2[i].key] = w2[me]
                         \/ \E j \in DOMAIN l2 : j > i /\ l2[j].event = "SELF"
                    /\ c.self = w2[me] \/ \E j \in DOMAIN l2 : j > a /\ l2[j].event = "SELF"
  BY DEF SelfTrue
<1>1. w2[me] = IF d.event = "SELF" THEN d.w[d.key] ELSE w[me]
  BY DEF Announced
<1>2. CASE d.event = "SELF"
  <2>1. ASSUME NEW i \in DOMAIN l2, l2[i].event = "SELF"
        PROVE  \/ l2[i].w[l2[i].key] = w2[me]
               \/ \E j \in DOMAIN l2 : j > i /\ l2[j].event = "SELF"
    <3>1. CASE i = Len(l) + 1
      BY <1>0, <1>1, <1>2, <3>1
    <3>2. CASE i \in DOMAIN l
      <4>1. Len(l) + 1 > i /\ l2[Len(l) + 1].event = "SELF"
        BY <1>0, <1>2, <3>2 DEF Longer
      <4> QED
        BY <1>0, <4>1
    <3> QED
      BY <1>0, <3>1, <3>2
  <2> QED
    BY <1>0, <1>2, <2>1
<1>3. CASE d.event # "SELF"
  <2>1. /\ \A i \in DOMAIN l : l[i].event = "SELF" =>
             l[i].w[l[i].key] = w[me] \/ \E j \in DOMAIN l : j > i /\ l[j].event = "SELF"
        /\ c.self = w[me] \/ \E j \in DOMAIN l : j > a /\ l[j].event = "SELF"
    BY DEF SelfTrue
  <2> QED
    BY <1>0, <1>1, <1>3, <2>1
<1> QED
  BY <1>2, <1>3

\* Something changes and is said at once.
LEMMA SentSound ==
  ASSUME SyncInv, TruthInv, NEW d, log' = Append(log, d), missed' \subseteq missed,
         Announced(world, world', d),
         \A k \in Cached \ missed' : Speaks(world, world', missed, d, k),
         UNCHANGED <<cacheVars, applied, stray, converted>>,
         outage' \subseteq In("guilds", Things)
  PROVE  TruthInv'
<1>1. Longer(log, d, log') /\ applied \in 0 .. Len(log)
  BY LongerLog DEF SyncInv
<1>2. ASSUME NEW k \in Cached \ missed' PROVE LogTrue(world', log', k)
  <2>1. Speaks(world, world', missed, d, k)
    BY <1>2
  <2>2. k \notin missed => LogTrue(world, log, k)
    BY <1>2 DEF TruthInv
  <2> QED
    BY <1>1, <2>1, <2>2, SpokenLog
<1>3. ASSUME NEW k \in Cached \ missed'
      PROVE  /\ k \notin stray => HeldTrue(world', log', applied, cache, now, k)
             /\ k \notin converted => HeldWhole(world', log', applied, cache, now, k)
  <2>1. Speaks(world, world', missed, d, k)
    BY <1>3
  <2>2. /\ k \notin missed /\ k \notin stray => HeldTrue(world, log, applied, cache, now, k)
        /\ k \notin missed /\ k \notin converted => HeldWhole(world, log, applied, cache, now, k)
    BY <1>3 DEF TruthInv
  <2> QED
    BY <1>1, <2>1, <2>2, SpokenHeld
<1>4. SelfTrue(world', log', applied, cache)
  BY <1>1, SelfTold DEF TruthInv
<1>5. \A i \in DOMAIN log' : Proper(log'[i]) /\ DirectTold(log'[i])
  <2>1. \A i \in DOMAIN log' : log'[i] = d \/ (i \in DOMAIN log /\ log'[i] = log[i])
    BY <1>1 DEF Longer
  <2> QED
    BY <2>1 DEF Announced, TruthInv
<1>6. WorldOK(world')
  BY DEF Announced
<1> QED
  BY <1>2, <1>3, <1>4, <1>5, <1>6 DEF TruthInv, cacheVars

Tidings(w, w2, d) ==
  \A k \in Cached : Speaks(w, w2, {}, d, k) /\ (k \notin d.about => w2[k] = w[k])

\* Or it is said unless the guild is unavailable, and then it is not made up for yet.
LEMMA SaidSound ==
  ASSUME SyncInv, TruthInv, NEW d, d.event # "GUILD_CREATE", Say(d),
         Announced(world, world', d), Tidings(world, world', d),
         UNCHANGED <<cacheVars, applied, stray, converted>>,
         outage' \subseteq In("guilds", Things)
  PROVE  TruthInv'
<1>1. CASE Guild[d.key] \notin outage
  <2>1. Told(d) = {}
    BY DEF Told
  <2>2. log' = Append(log, Telling(d, missed)) /\ missed' = missed
    BY <1>1, <2>1 DEF Say, Send
  <2>3. Telling(d, missed) = [d EXCEPT !.about = d.about \cup (missed \cap Told(d))]
    BY DEF Telling
  <2>4. d.about \cup (missed \cap Told(d)) = d.about
    BY <2>1
  <2>5. Telling(d, missed) = d
    BY <2>3, <2>4 DEF Announced
  <2>6. \A k \in Cached \ missed' : Speaks(world, world', missed, d, k)
    BY <2>2 DEF Tidings, Speaks
  <2> QED
    BY <2>2, <2>5, <2>6, SentSound
<1>2. CASE Guild[d.key] \in outage
  <2>1. log' = log /\ missed' = missed \cup d.about
    BY <1>2 DEF Say
  <2>2. \A k \in Cached \ missed' : /\ k \notin missed /\ world'[k] = world[k]
                                    /\ world'[k] = Gone /\ GuildGone(world', k) => GuildGone(world, k)
    BY <2>1 DEF Tidings, Speaks
  <2>3. ASSUME NEW k \in Cached \ missed'
        PROVE  /\ LogTrue(world', log, k)
               /\ k \notin stray => HeldTrue(world', log, applied, cache, now, k)
               /\ k \notin converted => HeldWhole(world', log, applied, cache, now, k)
    <3>1. /\ world'[k] = world[k]
          /\ world'[k] = Gone /\ GuildGone(world', k) => GuildGone(world, k)
      BY <2>2, <2>3
    <3>2. /\ LogTrue(world, log, k)
          /\ k \notin stray => HeldTrue(world, log, applied, cache, now, k)
          /\ k \notin converted => HeldWhole(world, log, applied, cache, now, k)
      BY <2>2, <2>3 DEF TruthInv
    <3> QED
      BY <3>1, <3>2, UnsaidStays
  <2>4. d.event # "SELF"
    <3>1. d.event = "SELF" => d.key \in Things /\ Scope[d.key] = "self"
      BY DEF Announced, Proper, WellShaped, In
    <3>2. d.event = "SELF" => Guild[d.key] = NoGroup
      BY <3>1, Places
    <3>3. NoGroup \notin Things
      BY PlacesAssumption
    <3> QED
      BY <1>2, <3>2, <3>3 DEF TruthInv, In
  <2>5. \A me \in In("self", Things) : world'[me] = world[me]
    BY <2>4 DEF Announced
  <2>6. SelfTrue(world', log, applied, cache)
    BY <2>5 DEF SelfTrue, TruthInv
  <2>7. WorldOK(world')
    BY DEF Announced
  <2> QED
    BY <2>1, <2>3, <2>6, <2>7 DEF TruthInv, cacheVars
<1> QED
  BY <1>1, <1>2

-----------------------------------------------------------------------------
(* What Discord says of each change.                                       *)

LEMMA DispatchIs ==
  ASSUME NEW event, NEW key, NEW w, NEW ks, NEW of, NEW about,
         NEW d, d = Dispatch(event, key, w, ks, of, about)
  PROVE  /\ d.event = event /\ d.key = key /\ d.of = of /\ d.about = about
         /\ DOMAIN d.w = ks /\ \A x \in ks : d.w[x] = w[x]
         /\ d = [event |-> d.event, key |-> d.key, w |-> d.w, of |-> d.of, about |-> d.about]
  BY DEF Dispatch

LEMMA GuildIsThere ==
  ASSUME NEW w, WorldOK(w), NEW k \in Things, w[k] # Gone
  PROVE  /\ Guild[k] # NoGroup => w[Guild[k]] # Gone
         /\ Parent[k] # NoGroup => w[Parent[k]] # Gone
         /\ Member[k] # NoGroup => w[Member[k]] # Gone
         /\ ~GuildGone(w, k)
<1>1. NoGroup \notin Things
  BY PlacesAssumption
<1>2. \A x \in {Guild[k], Parent[k], Member[k]} \ {NoGroup} : w[x] # Gone
  BY DEF WorldOK
<1> QED
  BY <1>1, <1>2 DEF GuildGone

\* The events that tell of one that is there.
Updates == {
  "GUILD_UPDATE", "GUILD_ROLE", "THREAD", "PRESENCE_UPDATE", "CHANNEL_CREATE", "CHANNEL_UPDATE",
  "CHANNEL_PINS_UPDATE", "THREAD_MEMBERS_UPDATE", "MEMBER", "MESSAGE_CREATE", "MESSAGE_UPDATE",
  "USER_SEEN", "SELF", "VOICE_STATE_UPDATE"}

LEMMA AltersSound ==
  ASSUME SyncInv, TruthInv, NEW k \in Things, NEW v \in Versions(k), v # Gone, v # Stub,
         NEW event \in Updates, NEW carried \in SUBSET Things, k \in carried, NEW of,
         Exists(k) \/ HasPlace(k), Happens(k, v, event, carried, of),
         event = "SELF" <=> Scope[k] = "self",
         event \in PatchEvents =>
           Exists(k) /\ \A y \in Parts \ {PartOf(event)} : Part(v, y) = Part(world[k], y),
         event = "CHANNEL_PINS_UPDATE" => Guild[k] # NoGroup,
         NEW d, d = Dispatch(event, k, world', Present(world', carried), of, {k}), WellShaped(d)
  PROVE  TruthInv'
<1> DEFINE w == world
           w2 == world'
           ks == Present(w2, carried)
<1>1. /\ Say(d) /\ UNCHANGED <<outage, cacheVars, applied, stray, converted>>
      /\ \A x \in Things : w2[x] = IF x = k THEN v ELSE w[x]
      /\ w2 = [x \in Things |-> w2[x]]
  <2> DEFINE f == [x \in Things |-> IF x \in {k} THEN v ELSE w[x]]
  <2>1. /\ w2 = f /\ Say(Dispatch(event, k, f, Present(f, carried), of, {k}))
        /\ UNCHANGED <<outage, cacheVars, applied, stray, converted>>
    BY DEF Happens
  <2> QED
    BY <2>1
<1>2. /\ d.event = event /\ d.key = k /\ d.of = of /\ d.about = {k}
      /\ \A x : x \in DOMAIN d.w <=> x \in carried /\ w2[x] # Gone
      /\ \A x \in DOMAIN d.w : d.w[x] = w2[x]
      /\ d = [event |-> d.event, key |-> d.key, w |-> d.w, of |-> d.of, about |-> d.about]
  <2>1. \A x : x \in ks <=> x \in carried /\ w2[x] # Gone
    BY DEF Present
  <2>2. d = Dispatch(event, k, w2, ks, of, {k})
    OBVIOUS
  <2> DEFINE about == {k}
  <2> HIDE DEF ks, w2, about
  <2>3. d = Dispatch(event, k, w2, ks, of, about)
    BY <2>2 DEF about
  <2>4. /\ d.event = event /\ d.key = k /\ d.of = of /\ d.about = about
        /\ DOMAIN d.w = ks /\ \A x \in ks : d.w[x] = w2[x]
        /\ d = [event |-> d.event, key |-> d.key, w |-> d.w, of |-> d.of, about |-> d.about]
    BY <2>3 DEF Dispatch
  <2> QED
    BY <2>1, <2>4 DEF about
<1>3. WorldOK(w)
  BY DEF TruthInv
<1>4. k \in DOMAIN d.w /\ d.w[k] = v
  BY <1>1, <1>2
<1>5. WorldOK(w2)
  <2>1. \A x \in Things :
          /\ w2[x] \in Versions(x) \cup {Gone} /\ w2[x] # Stub
          /\ Scope[x] \in {"users", "self"} => w2[x] # Gone
    BY <1>1, <1>3 DEF WorldOK
  <2>2. ASSUME NEW x \in Things, w2[x] # Gone, NEW y \in {Guild[x], Parent[x], Member[x]} \ {NoGroup}
        PROVE  w2[y] # Gone
    <3>1. y \in Things
      BY <2>2, Places DEF In
    <3>2. y # k => w[y] # Gone
      <4>1. CASE x = k
        BY <1>3, <2>2, <4>1 DEF WorldOK, HasPlace, Exists
      <4>2. CASE x # k
        BY <1>1, <1>3, <2>2, <4>2 DEF WorldOK
      <4> QED
        BY <4>1, <4>2
    <3> QED
      BY <1>1, <3>1, <3>2
  <2> QED
    BY <1>1, <2>1, <2>2 DEF WorldOK
<1>6. Proper(d)
  <2>1. Payload(d)
    <3>1. DOMAIN d.w \subseteq Things
      BY <1>2
    <3>2. IsFiniteSet(DOMAIN d.w)
      BY <3>1, ThingsAssumption, FS_Subset
    <3> QED
      BY <1>2, <3>2 DEF Payload, Events, Updates
  <2>2. \A x \in DOMAIN d.w : x \in Things /\ d.w[x] \in Versions(x)
    BY <1>2, <1>5 DEF WorldOK
  <2> QED
    BY <2>1, <2>2 DEF Proper
<1>7. /\ event \notin {"GUILD_CREATE", "GUILD_ROLE_DELETE"}
      /\ Kills(d) = {}
      /\ \A x : \A y : Tells(d, x, y) => /\ x \in DOMAIN d.w /\ Said(d, x) = d.w[x]
                                         /\ event \in PatchEvents => y = PartOf(event)
      /\ event \notin PatchEvents => \A y : Tells(d, k, y)
      /\ Tells(d, k, PartOf(event))
  <2>1. event \notin {"GUILD_CREATE", "GUILD_ROLE_DELETE"}
    BY DEF Updates
  <2>2. Kills(d) = {}
    BY <1>2, <1>4 DEF Kills, Updates
  <2>3. ~Stubbed(d, k)
    BY <1>2, <1>4 DEF Stubbed
  <2>4. d.event = event /\ k \in DOMAIN d.w
    BY <1>2, <1>4
  <2>5. \A x : Said(d, x) = d.w[x]
    BY <2>1, <2>4 DEF Said
  <2>6. \A x : \A y : Tells(d, x, y) => x \in DOMAIN d.w /\ (event \in PatchEvents => y = PartOf(event))
    BY <2>1, <2>4 DEF Tells
  <2>7. \A y : event \notin PatchEvents \/ y = PartOf(event) => Tells(d, k, y)
    BY <2>3, <2>4 DEF Tells, PatchEvents
  <2> QED
    BY <2>1, <2>2, <2>5, <2>6, <2>7
<1>8. ASSUME NEW x \in Cached PROVE Speaks(w, w2, {}, d, x) /\ (x \notin d.about => w2[x] = w[x])
  <2>0. x \in Things
    BY DEF Cached
  <2>1. x \notin d.about => w2[x] = w[x]
    BY <1>1, <1>2, <2>0
  <2>2. \A y \in Parts : Tells(d, x, y) => Part(Said(d, x), y) = Part(w2[x], y)
    BY <1>2, <1>7
  <2>3. x \in d.about => \A y \in Parts :
          Tells(d, x, y) \/ (w[x] # Gone /\ Part(w2[x], y) = Part(w[x], y))
    <3>1. event \in PatchEvents =>
            w[k] # Gone /\ \A y \in Parts \ {PartOf(event)} : Part(w2[k], y) = Part(w[k], y)
      BY <1>1 DEF Exists
    <3> QED
      BY <1>2, <1>7, <3>1
  <2>4. w2[x] = Gone => x \notin d.about
    BY <1>1, <1>2
  <2>5. w2[x] = Gone => x \notin Raises(d) /\ \A y \in Parts : ~Tells(d, x, y)
    BY <1>2, <1>7 DEF Raises
  <2>6. GuildGone(w2, x) => GuildGone(w, x)
    BY <1>1 DEF GuildGone
  <2>7. Described(w2, x) => x \in Raises(d) \/ Described(w, x)
    <3>1. CASE x # k
      BY <1>1, <2>0, <3>1 DEF Described
    <3>2. CASE x = k /\ event \notin PatchEvents
      BY <1>2, <1>4, <3>2 DEF Raises, Cached
    <3>3. CASE x = k /\ event \in PatchEvents
      <4>1. "hi" \in Parts \ {PartOf(event)}
        BY DEF PartOf, Parts
      <4>2. w[k] # Gone /\ Part(v, "hi") = Part(w[k], "hi") /\ w2[k] = v
        BY <1>1, <3>3, <4>1 DEF Exists
      <4>3. Kind(v) = Kind(w[k])
        BY <4>2, PartsAre DEF Kind
      <4> QED
        BY <3>3, <4>2, <4>3 DEF Described, Archived
    <3> QED
      BY <3>1, <3>2, <3>3
  <2> QED
    BY <1>7, <2>1, <2>2, <2>3, <2>4, <2>5, <2>6, <2>7 DEF Speaks
<1>9. DirectTold(d)
  <2>1. ASSUME NEW x \in Raises(d), Scope[x] \in Full, Guild[x] = NoGroup PROVE x = k
    <3>1. x \in DOMAIN d.w /\ x \in Things
      BY <1>2 DEF Raises
    <3>2. Scope[x] = "channels"
      BY <2>1, <3>1, Places DEF Full
    <3>3. event \notin {"GUILD_CREATE", "THREAD_LIST_SYNC"}
      BY DEF Updates
    <3> QED
      BY <1>2, <3>1, <3>2, <3>3 DEF WellShaped, Updates, Alone, WithAuthor
  <2> QED
    BY <1>2, <2>1 DEF DirectTold
<1>10. \A me \in In("self", Things) : w2[me] = IF d.event = "SELF" THEN d.w[d.key] ELSE w[me]
  <2> TAKE me \in In("self", Things)
  <2>1. me \in Things /\ Scope[me] = "self"
    BY DEF In
  <2>2. event = "SELF" => me = k
    BY <2>1, FoundingAssumption DEF In
  <2> QED
    BY <1>1, <1>2, <1>4, <2>1, <2>2
<1>11. d.event # "GUILD_CREATE" /\ outage' \subseteq In("guilds", Things)
  BY <1>1, <1>2, <1>7 DEF TruthInv
<1> QED
  BY <1>1, <1>2, <1>5, <1>6, <1>8, <1>9, <1>10, <1>11, SaidSound DEF Announced, Tidings

LEMMA TurnsAre ==
  ASSUME NEW v \in 0 .. 7
  PROVE  /\ Flip(v) \in 0 .. 7 /\ \A x \in Parts \ {"lo"} : Part(Flip(v), x) = Part(v, x)
         /\ v \in {0, 1} => Flip(v) \in {0, 1}
         /\ Turn(v) \in 0 .. 7
         /\ Recount(v) \in 0 .. 7 /\ \A x \in Parts \ {"mid"} : Part(Recount(v), x) = Part(v, x)
<1>1. PICK a \in 0 .. 1, m \in 0 .. 1, b \in 0 .. 1 : a = Kind(v) /\ m = Count(v) /\ b = Pin(v)
  BY PiecesOf
<1>2. Part(v, "hi") = a /\ Part(v, "mid") = m /\ Part(v, "lo") = b
  BY <1>1, PiecesOf
<1>3. v = 4 * a + 2 * m + b
  BY <1>1 DEF Kind, Count, Pin
<1>4. 1 - m \in 0 .. 1 /\ 1 - b \in 0 .. 1
  OBVIOUS
<1>5. Flip(v) = 4 * a + 2 * m + (1 - b)
  BY <1>1, <1>3 DEF Flip, Pin
<1>6. Recount(v) = 4 * a + 2 * (1 - m) + b
  BY <1>1 DEF Recount, WithCount
<1>7. /\ Part(Flip(v), "hi") = a /\ Part(Flip(v), "mid") = m /\ Flip(v) \in 0 .. 7
      /\ Part(Recount(v), "hi") = a /\ Part(Recount(v), "lo") = b /\ Recount(v) \in 0 .. 7
  BY <1>4, <1>5, <1>6, Pieces
<1>8. Turn(v) \in 0 .. 7 /\ (v \in {0, 1} => Flip(v) \in {0, 1})
  BY DEF Turn, Flip
<1>9. \A x \in Parts : x = "hi" \/ x = "mid" \/ x = "lo"
  BY PartsAre
<1> QED
  BY <1>2, <1>7, <1>8, <1>9

\* The version of one that is there.
LEMMA ThereIs ==
  ASSUME NEW w, WorldOK(w), NEW k \in Things, w[k] # Gone
  PROVE  /\ w[k] \in 0 .. 7 /\ w[k] \in Versions(k)
         /\ Scope[k] = "members" => w[k] \in {0, 1}
<1>1. w[k] \in Versions(k) /\ w[k] # Stub
  BY DEF WorldOK
<1> QED
  BY <1>1, VersionsAre

LEMMA UpdateTrue ==
  ASSUME SyncInv, TruthInv, NEW k \in Things, NEW event \in Updates,
         NEW carried \in SUBSET Things, k \in carried,
         \/ Appears(k, event, carried) /\ event \notin PatchEvents
         \/ Changes(k, event, carried) /\ event # "THREAD_MEMBERS_UPDATE"
         \/ /\ Exists(k) /\ event = "THREAD_MEMBERS_UPDATE" /\ Scope[k] = "threads"
            /\ Happens(k, Recount(world[k]), event, carried, {})
         \/ /\ Exists(k) /\ event \notin PatchEvents
            /\ \E v \in {world[k], Turn(world[k])} :
                 Happens(k, v, event, carried, {}) /\ (Scope[k] = "members" => v = world[k]),
         event = "SELF" <=> Scope[k] = "self",
         event = "CHANNEL_PINS_UPDATE" => Guild[k] # NoGroup,
         \A d : d.event = event /\ d.key = k /\ k \in DOMAIN d.w /\ DOMAIN d.w \subseteq carried
                  => WellShaped(d)
  PROVE  TruthInv'
<1>1. WorldOK(world)
  BY DEF TruthInv
<1>2. PICK v : /\ Happens(k, v, event, carried, {}) /\ v \in Versions(k) /\ v \in 0 .. 7
               /\ Exists(k) \/ HasPlace(k)
               /\ event \in PatchEvents =>
                    Exists(k) /\ \A y \in Parts \ {PartOf(event)} : Part(v, y) = Part(world[k], y)
  <2>1. CASE Appears(k, event, carried) /\ event \notin PatchEvents
    <3>1. 0 \in Versions(k)
      BY VersionsAre
    <3> QED
      BY <2>1, <3>1 DEF Appears
  <2>2. CASE Changes(k, event, carried) /\ event # "THREAD_MEMBERS_UPDATE"
    <3>1. Exists(k) /\ Happens(k, Flip(world[k]), event, carried, {})
      BY <2>2 DEF Changes
    <3>2. world[k] \in 0 .. 7 /\ (Scope[k] = "members" => world[k] \in {0, 1})
      BY <1>1, <3>1, ThereIs DEF Exists
    <3>3. /\ Flip(world[k]) \in 0 .. 7
          /\ \A y \in Parts \ {"lo"} : Part(Flip(world[k]), y) = Part(world[k], y)
          /\ Scope[k] = "members" => Flip(world[k]) \in {0, 1}
      BY <3>2, TurnsAre
    <3>4. Flip(world[k]) \in Versions(k)
      BY <3>3, VersionsAre
    <3>5. event \in PatchEvents => PartOf(event) = "lo"
      BY <2>2 DEF PatchEvents, PartOf
    <3> QED
      BY <3>1, <3>3, <3>4, <3>5
  <2>3. CASE /\ Exists(k) /\ event \notin PatchEvents
             /\ \E v \in {world[k], Turn(world[k])} :
                  Happens(k, v, event, carried, {}) /\ (Scope[k] = "members" => v = world[k])
    <3>1. world[k] \in 0 .. 7 /\ world[k] \in Versions(k)
      BY <1>1, <2>3, ThereIs DEF Exists
    <3>2. Turn(world[k]) \in 0 .. 7
      BY <3>1, TurnsAre
    <3>3. Scope[k] # "members" => Turn(world[k]) \in Versions(k)
      BY <3>2, VersionsAre
    <3> QED
      BY <2>3, <3>1, <3>2, <3>3
  <2>4. CASE /\ Exists(k) /\ event = "THREAD_MEMBERS_UPDATE" /\ Scope[k] = "threads"
             /\ Happens(k, Recount(world[k]), event, carried, {})
    <3>1. world[k] \in 0 .. 7
      BY <1>1, <2>4, ThereIs DEF Exists
    <3>2. /\ Recount(world[k]) \in 0 .. 7
          /\ \A y \in Parts \ {"mid"} : Part(Recount(world[k]), y) = Part(world[k], y)
      BY <3>1, TurnsAre
    <3>3. Recount(world[k]) \in Versions(k)
      BY <2>4, <3>2, VersionsAre
    <3>4. PartOf(event) = "mid"
      BY <2>4 DEF PartOf
    <3> QED
      BY <2>4, <3>2, <3>3, <3>4
  <2> QED
    BY <2>1, <2>2, <2>3, <2>4
<1>3. v # Gone /\ v # Stub
  BY <1>2 DEF Gone, Stub
<1> DEFINE d == Dispatch(event, k, world', Present(world', carried), {}, {k})
<1>4. d.event = event /\ d.key = k /\ DOMAIN d.w = Present(world', carried)
  BY DEF Dispatch
<1>5. world'[k] = v
  <2>1. world' = [x \in Things |-> IF x \in {k} THEN v ELSE world[x]]
    BY <1>2, <1>3 DEF Happens
  <2> QED
    BY <2>1
<1>6. k \in Present(world', carried) /\ Present(world', carried) \subseteq carried
  BY <1>3, <1>5 DEF Present
<1> HIDE DEF d
<1>7. WellShaped(d)
  BY <1>4, <1>6
<1> QED
  BY <1>2, <1>3, <1>7, AltersSound DEF d

\* What is below k goes with it, and no user does.
LEMMA BelowIsClosed ==
  ASSUME NEW k \in Things, Scope[k] \notin {"users", "self"}
  PROVE  /\ Below(k) \subseteq Things /\ k \in Below(k)
         /\ \A x \in Below(k) : Scope[x] \notin {"users", "self"}
         /\ \A x \in Things : \A y \in {Guild[x], Parent[x], Member[x]} \ {NoGroup} :
              y \in Below(k) => x \in Below(k)
<1> SUFFICES ASSUME NEW x \in Things
             PROVE  /\ x \in Below(k) => Scope[x] \notin {"users", "self"}
                    /\ \A y \in {Guild[x], Parent[x], Member[x]} \ {NoGroup} :
                         y \in Below(k) => x \in Below(k)
  BY DEF Below, Inside
<1>1. Scope[x] \in {"users", "self"} => Guild[x] = NoGroup /\ Parent[x] = NoGroup /\ Member[x] = NoGroup
  BY Places
<1>2. k # NoGroup
  BY Places
<1>3. CASE Scope[k] = "guilds"
  <2>1. \A y : y \in Below(k) <=> y \in Things /\ Guild[y] = k
    BY <1>3, BelowGuild DEF In
  <2>2. \A y \in {Guild[x], Parent[x], Member[x]} \ {NoGroup} :
          y \in Things /\ Guild[y] = Guild[x]
    BY Places DEF In
  <2> QED
    BY <1>1, <1>2, <2>1, <2>2
<1>4. CASE Scope[k] \in {"channels", "threads"}
  <2>1. \A y : y \in Below(k) <=>
          /\ y \in Things
          /\ \/ y = k \/ Parent[y] = k
             \/ Scope[Parent[y]] = "threads" /\ Parent[Parent[y]] = k /\ Scope[y] = "messages"
    BY <1>4, BelowOthers
  <2>2. Guild[x] # NoGroup => Guild[x] \in Things /\ Scope[Guild[x]] = "guilds"
    BY Places DEF In
  <2>3. Member[x] # NoGroup => Member[x] \in Things /\ Scope[Member[x]] = "members"
    BY Places DEF In
  <2>4. ASSUME NEW y \in Things, Scope[y] \in {"guilds", "members"} PROVE y \notin Below(k)
    <3>1. Parent[y] = NoGroup
      BY <2>4, Places
    <3> QED
      BY <1>2, <1>4, <2>1, <2>4, <3>1
  <2>5. ASSUME Parent[x] # NoGroup, Parent[x] \in Below(k) PROVE x \in Below(k)
    <3>1. Parent[x] \in Things /\ Scope[Parent[x]] \in {"channels", "threads"}
      BY <2>5, Places DEF In
    <3>2. Scope[Parent[x]] = "channels" => Parent[Parent[x]] = NoGroup
      BY <3>1, Places
    <3>3. Scope[Parent[x]] = "threads" => Scope[x] = "messages"
      BY <2>5, <3>1, Places DEF In
    <3> QED
      BY <1>2, <2>1, <2>5, <3>1, <3>2, <3>3
  <2> QED
    BY <1>1, <1>2, <1>4, <2>1, <2>2, <2>3, <2>4, <2>5
<1>5. CASE Scope[k] = "members"
  <2>1. \A y : y \in Below(k) <=> y = k \/ (y \in Things /\ Member[y] = k)
    BY <1>5, BelowOthers
  <2>2. \A y \in {Guild[x], Parent[x], Member[x]} \ {NoGroup} :
          /\ y \in Things /\ Scope[y] \in {"guilds", "channels", "threads", "members"}
          /\ y # Member[x] => Scope[y] # "members"
    BY Places DEF In
  <2>3. \A y \in Things : Scope[y] \in {"guilds", "channels", "threads", "members"} => Member[y] = NoGroup
    BY Places
  <2> QED
    BY <1>1, <1>2, <1>5, <2>1, <2>2, <2>3
<1>6. CASE Scope[k] \notin {"guilds", "channels", "threads", "members"}
  <2>1. Below(k) = {k}
    BY <1>6, BelowOthers
  <2>2. \A y \in {Guild[x], Parent[x], Member[x]} \ {NoGroup} :
          Scope[y] \in {"guilds", "channels", "threads", "members"}
    BY Places DEF In
  <2> QED
    BY <1>6, <2>1, <2>2
<1> QED
  BY <1>3, <1>4, <1>5, <1>6

\* One goes with all that is below it.
LEMMA GoneSound ==
  ASSUME SyncInv, TruthInv, NEW k \in Things, Scope[k] \notin {"users", "self"},
         NEW event \in {"GUILD_DELETE", "CHANNEL_DELETE", "THREAD_DELETE", "MESSAGE_DELETE",
                        "GUILD_MEMBER_REMOVE", "VOICE_STATE_UPDATE"},
         NEW carried \in SUBSET Things, NEW of, Goes(k, event, carried, of),
         \A x \in carried : Scope[x] \in {"users", "members", "voiceStates"},
         \A d : d.event = event /\ d.key = k /\ d.of = of /\ DOMAIN d.w \subseteq carried
                  /\ k \notin DOMAIN d.w => WellShaped(d) /\ Kills(d) = Below(k)
  PROVE  TruthInv'
<1> DEFINE w == world
           w2 == world'
           below == Below(k)
           ks == Present(w2, carried)
           d == Dispatch(event, k, w2, ks, of, below)
<1>1. /\ Say(d) /\ UNCHANGED <<outage, cacheVars, applied, stray, converted>>
      /\ \A x \in Things : w2[x] = IF x \in below THEN Gone ELSE w[x]
      /\ w2 = [x \in Things |-> w2[x]]
  <2> DEFINE f == [x \in Things |-> IF x \in below THEN Gone ELSE w[x]]
  <2>1. /\ w2 = f /\ Say(Dispatch(event, k, f, Present(f, carried), of, below))
        /\ UNCHANGED <<outage, cacheVars, applied, stray, converted>>
    BY DEF Happens, Goes
  <2> QED
    BY <2>1
<1>2. /\ below \subseteq Things /\ k \in below
      /\ \A x \in below : Scope[x] \notin {"users", "self"}
      /\ \A x \in Things : \A y \in {Guild[x], Parent[x], Member[x]} \ {NoGroup} :
           y \in below => x \in below
  BY BelowIsClosed
<1>3. WorldOK(w)
  BY DEF TruthInv
<1>4. WorldOK(w2)
  <2>1. \A x \in Things :
          /\ w2[x] \in Versions(x) \cup {Gone} /\ w2[x] # Stub
          /\ Scope[x] \in {"users", "self"} => w2[x] # Gone
    BY <1>1, <1>2, <1>3 DEF WorldOK, Gone, Stub
  <2>2. ASSUME NEW x \in Things, w2[x] # Gone, NEW y \in {Guild[x], Parent[x], Member[x]} \ {NoGroup}
        PROVE  w2[y] # Gone
    <3>1. y \in Things
      BY <2>2, Places DEF In
    <3>2. x \notin below /\ w[x] # Gone
      BY <1>1, <2>2
    <3>3. w[y] # Gone
      BY <1>3, <2>2, <3>2 DEF WorldOK
    <3> QED
      BY <1>1, <1>2, <2>2, <3>1, <3>2, <3>3
  <2> QED
    BY <1>1, <2>1, <2>2 DEF WorldOK
<1>5. /\ \A x : x \in ks <=> x \in carried /\ w2[x] # Gone
      /\ ks \subseteq Things /\ ks \subseteq carried /\ k \notin ks
  BY <1>1, <1>2 DEF Present
<1> HIDE DEF ks, below
<1>6. /\ d.event = event /\ d.key = k /\ d.of = of /\ d.about = below
      /\ DOMAIN d.w = ks /\ \A x \in ks : d.w[x] = w2[x]
      /\ d = [event |-> d.event, key |-> d.key, w |-> d.w, of |-> d.of, about |-> d.about]
  BY DEF Dispatch
<1>7. WellShaped(d) /\ Kills(d) = below
  BY <1>5, <1>6 DEF below
<1>8. Proper(d)
  <2>1. event \in Events
    BY DEF Events
  <2>2. IsFiniteSet(ks)
    BY <1>5, ThingsAssumption, FS_Subset
  <2>3. \A x \in ks : d.w[x] \in Versions(x)
    BY <1>4, <1>5, <1>6 DEF WorldOK
  <2> HIDE DEF d
  <2> QED
    BY <1>5, <1>6, <1>7, <2>1, <2>2, <2>3 DEF Proper, Payload
<1> HIDE DEF d
<1>9. \A x, y : Tells(d, x, y) => x \in ks /\ Said(d, x) = w2[x]
  BY <1>6 DEF Tells, Said
<1>10. ASSUME NEW x \in Cached PROVE Speaks(w, w2, {}, d, x) /\ (x \notin d.about => w2[x] = w[x])
  <2>0. x \in Things
    BY DEF Cached
  <2>1. x \notin d.about => w2[x] = w[x]
    BY <1>1, <1>6, <2>0
  <2>2. x \in d.about => w2[x] = Gone /\ x \in Kills(d)
    BY <1>1, <1>6, <1>7, <2>0
  <2>3. w2[x] = Gone => x \notin Raises(d) /\ \A y : ~Tells(d, x, y)
    BY <1>5, <1>6, <1>9 DEF Raises
  <2>4. x \notin d.about /\ GuildGone(w2, x) => GuildGone(w, x)
    <3>1. NoGroup \notin Things
      BY PlacesAssumption
    <3> QED
      BY <1>1, <1>2, <1>6, <2>0, <3>1 DEF GuildGone
  <2>5. x \in Kills(d) => ~Described(w2, x)
    BY <1>6, <1>7, <2>2 DEF Described
  <2>6. Described(w2, x) => Described(w, x)
    BY <2>1, <2>2 DEF Described
  <2> QED
    BY <1>9, <2>1, <2>2, <2>3, <2>4, <2>5, <2>6 DEF Speaks
<1>11. DirectTold(d)
  <2>1. \A x \in Raises(d) : x \in Things /\ Scope[x] \in {"users", "members", "voiceStates"}
    BY <1>5, <1>6 DEF Raises
  <2>2. \A x \in Things : Scope[x] \in {"members", "voiceStates"} => Guild[x] # NoGroup
    BY Places
  <2> QED
    BY <2>1, <2>2 DEF DirectTold, Full
<1>12. \A me \in In("self", Things) : w2[me] = IF d.event = "SELF" THEN d.w[d.key] ELSE w[me]
  BY <1>1, <1>2, <1>6 DEF In
<1>13. d.event # "GUILD_CREATE" /\ outage' \subseteq In("guilds", Things)
  BY <1>1, <1>6 DEF TruthInv
<1> QED
  BY <1>1, <1>4, <1>6, <1>8, <1>10, <1>11, <1>12, <1>13, SaidSound DEF Announced, Tidings

-----------------------------------------------------------------------------
(* Each change of the world.                                               *)

LEMMA GuildChangesTrue == SyncInv /\ TruthInv /\ GuildChanges => TruthInv'
<1> SUFFICES ASSUME SyncInv, TruthInv, GuildChanges PROVE TruthInv'
  OBVIOUS
<1>1. PICK g \in In("guilds", Things) :
        Changes(g, "GUILD_UPDATE", {g}) \/ Goes(g, "GUILD_DELETE", {}, {})
  BY DEF GuildChanges
<1>2. g \in Things /\ Scope[g] = "guilds" /\ "guilds" \in Scopes
  BY <1>1 DEF In, Scopes
<1>3. ASSUME Changes(g, "GUILD_UPDATE", {g}) PROVE TruthInv'
  <2> DEFINE ks == {g}
  <2>1. /\ ks \in SUBSET Things /\ g \in ks /\ "GUILD_UPDATE" \in Updates
        /\ Changes(g, "GUILD_UPDATE", ks)
    BY <1>2, <1>3 DEF Updates
  <2>2. \A d : d.event = "GUILD_UPDATE" /\ d.key = g /\ g \in DOMAIN d.w /\ DOMAIN d.w \subseteq ks
                 => WellShaped(d)
    BY <1>2 DEF WellShaped, Alone, WithAuthor, Cached
  <2> HIDE DEF ks
  <2> QED
    BY <1>2, <2>1, <2>2, UpdateTrue
<1>4. ASSUME Goes(g, "GUILD_DELETE", {}, {}) PROVE TruthInv'
  <2>1. Below(g) = {x \in Things : Guild[x] = g}
    BY <1>1, BelowGuild
  <2> DEFINE none == {}
             event == "GUILD_DELETE"
  <2>2. \A d : d.event = event /\ d.key = g /\ d.of = none /\ DOMAIN d.w \subseteq none
                 /\ g \notin DOMAIN d.w => WellShaped(d) /\ Kills(d) = Below(g)
    BY <1>1, <2>1 DEF WellShaped, Kills, Alone, WithAuthor
  <2>3. Goes(g, event, none, none)
    BY <1>4
  <2>4. /\ none \in SUBSET Things /\ \A x \in none : Scope[x] \in {"users", "members", "voiceStates"}
        /\ event \in {"GUILD_DELETE", "CHANNEL_DELETE", "THREAD_DELETE", "MESSAGE_DELETE",
                      "GUILD_MEMBER_REMOVE", "VOICE_STATE_UPDATE"}
        /\ Scope[g] \notin {"users", "self"}
    BY <1>2
  <2> HIDE DEF none, event
  <2> QED
    BY <1>2, <2>2, <2>3, <2>4, GoneSound
<1> QED
  BY <1>1, <1>3, <1>4

\* One of these events tells of it alone.
LEMMA AloneTrue ==
  ASSUME SyncInv, TruthInv, NEW k \in Cached, NEW event \in Alone \cup {"CHANNEL_PINS_UPDATE"},
         \/ Appears(k, event, {k}) /\ event \notin PatchEvents
         \/ Changes(k, event, {k}) /\ event # "THREAD_MEMBERS_UPDATE"
         \/ Exists(k) /\ event = "THREAD_MEMBERS_UPDATE" /\ Happens(k, Recount(world[k]), event, {k}, {})
         \/ Scope[k] # "members" /\ Exists(k) /\ event \notin PatchEvents
            /\ Happens(k, Turn(world[k]), event, {k}, {}),
         event = "CHANNEL_UPDATE" => Scope[k] = "channels",
         event = "CHANNEL_PINS_UPDATE" => Scope[k] \in {"channels", "threads"} /\ Guild[k] # NoGroup,
         event = "THREAD_MEMBERS_UPDATE" => Scope[k] = "threads"
  PROVE  TruthInv'
<1> DEFINE ks == {k}
<1>1. k \in Things /\ Scope[k] # "self"
  BY DEF Cached, Scopes
<1>2. ks \in SUBSET Things /\ k \in ks
  BY <1>1
<1>3. event \in Updates /\ event # "SELF"
  BY DEF Updates, Alone
<1>4. \A d : d.event = event /\ d.key = k /\ k \in DOMAIN d.w /\ DOMAIN d.w \subseteq ks => WellShaped(d)
  BY <1>1 DEF WellShaped, Alone, WithAuthor, In
<1> HIDE DEF ks
<1>5. \/ Appears(k, event, ks) /\ event \notin PatchEvents
      \/ Changes(k, event, ks) /\ event # "THREAD_MEMBERS_UPDATE"
      \/ Exists(k) /\ event = "THREAD_MEMBERS_UPDATE" /\ Happens(k, Recount(world[k]), event, ks, {})
      \/ Scope[k] # "members" /\ Exists(k) /\ event \notin PatchEvents
         /\ Happens(k, Turn(world[k]), event, ks, {})
  BY DEF ks
<1> QED
  BY <1>1, <1>2, <1>3, <1>4, <1>5, UpdateTrue

LEMMA ChannelChangesTrue == SyncInv /\ TruthInv /\ ChannelChanges => TruthInv'
<1> SUFFICES ASSUME SyncInv, TruthInv, ChannelChanges PROVE TruthInv'
  OBVIOUS
<1>1. PICK k \in In("channels", Things) :
        \/ Appears(k, "CHANNEL_CREATE", {k})
        \/ Guild[k] # NoGroup /\ Changes(k, "CHANNEL_PINS_UPDATE", {k})
        \/ Exists(k) /\ Happens(k, Turn(world[k]), "CHANNEL_UPDATE", {k}, {})
        \/ Goes(k, "CHANNEL_DELETE", {}, {})
  BY DEF ChannelChanges
<1>2. k \in Things /\ Scope[k] = "channels" /\ k \in Cached
  BY <1>1 DEF In, Cached, Scopes
<1>3. /\ {"CHANNEL_CREATE", "CHANNEL_UPDATE"} \subseteq Alone
      /\ "CHANNEL_CREATE" \notin PatchEvents /\ "CHANNEL_UPDATE" \notin PatchEvents
  BY DEF Alone, PatchEvents
<1>4. ASSUME Goes(k, "CHANNEL_DELETE", {}, {}) PROVE TruthInv'
  <2> DEFINE none == {}
             event == "CHANNEL_DELETE"
  <2>1. \A d : d.event = event /\ d.key = k /\ d.of = none /\ DOMAIN d.w \subseteq none
                 /\ k \notin DOMAIN d.w => WellShaped(d) /\ Kills(d) = Below(k)
    BY <1>1 DEF WellShaped, Kills, Alone, WithAuthor
  <2>2. Goes(k, event, none, none)
    BY <1>4
  <2>3. /\ none \in SUBSET Things /\ \A x \in none : Scope[x] \in {"users", "members", "voiceStates"}
        /\ event \in {"GUILD_DELETE", "CHANNEL_DELETE", "THREAD_DELETE", "MESSAGE_DELETE",
                      "GUILD_MEMBER_REMOVE", "VOICE_STATE_UPDATE"}
        /\ Scope[k] \notin {"users", "self"}
    BY <1>2
  <2> HIDE DEF none, event
  <2> QED
    BY <1>2, <2>1, <2>2, <2>3, GoneSound
<1> QED
  BY <1>1, <1>2, <1>3, <1>4, AloneTrue

LEMMA ThreadChangesTrue == SyncInv /\ TruthInv /\ ThreadChanges => TruthInv'
<1> SUFFICES ASSUME SyncInv, TruthInv, ThreadChanges PROVE TruthInv'
  OBVIOUS
<1>1. PICK k \in In("threads", Things) :
        \/ Appears(k, "THREAD", {k})
        \/ Changes(k, "CHANNEL_PINS_UPDATE", {k})
        \/ Exists(k) /\ Happens(k, Recount(world[k]), "THREAD_MEMBERS_UPDATE", {k}, {})
        \/ Exists(k) /\ Happens(k, Turn(world[k]), "THREAD", {k}, {})
        \/ Goes(k, "THREAD_DELETE", {}, {})
  BY DEF ThreadChanges
<1>2. k \in Things /\ Scope[k] = "threads" /\ k \in Cached /\ Guild[k] # NoGroup
  BY <1>1, Places DEF In, Cached, Scopes
<1>3. {"THREAD", "THREAD_MEMBERS_UPDATE"} \subseteq Alone /\ "THREAD" \notin PatchEvents
  BY DEF Alone, PatchEvents
<1>4. ASSUME Goes(k, "THREAD_DELETE", {}, {}) PROVE TruthInv'
  <2> DEFINE none == {}
             event == "THREAD_DELETE"
  <2>1. \A d : d.event = event /\ d.key = k /\ d.of = none /\ DOMAIN d.w \subseteq none
                 /\ k \notin DOMAIN d.w => WellShaped(d) /\ Kills(d) = Below(k)
    BY <1>1 DEF WellShaped, Kills, Alone, WithAuthor
  <2>2. Goes(k, event, none, none)
    BY <1>4
  <2>3. /\ none \in SUBSET Things /\ \A x \in none : Scope[x] \in {"users", "members", "voiceStates"}
        /\ event \in {"GUILD_DELETE", "CHANNEL_DELETE", "THREAD_DELETE", "MESSAGE_DELETE",
                      "GUILD_MEMBER_REMOVE", "VOICE_STATE_UPDATE"}
        /\ Scope[k] \notin {"users", "self"}
    BY <1>2
  <2> HIDE DEF none, event
  <2> QED
    BY <1>2, <2>1, <2>2, <2>3, GoneSound
<1> QED
  BY <1>1, <1>2, <1>3, <1>4, AloneTrue

\* One of these events tells of it and of its user.
LEMMA WithAuthorTrue ==
  ASSUME SyncInv, TruthInv, NEW k \in Things, NEW event \in WithAuthor,
         Scope[k] = IF event = "MEMBER" THEN "members" ELSE "messages",
         \/ Appears(k, event, {k, User[k]})
         \/ Changes(k, event, {k, User[k]})
         \/ Exists(k) /\ Happens(k, world[k], event, {k, User[k]}, {})
  PROVE  TruthInv'
<1> DEFINE ks == {k, User[k]}
<1>1. User[k] \in Things /\ Scope[User[k]] = "users"
  BY Places DEF In
<1>2. ks \in SUBSET Things /\ k \in ks
  BY <1>1
<1>3. event \in Updates /\ event # "SELF" /\ event \notin PatchEvents /\ Scope[k] # "self"
  BY DEF Updates, WithAuthor, PatchEvents
<1>4. \A d : d.event = event /\ d.key = k /\ k \in DOMAIN d.w /\ DOMAIN d.w \subseteq ks => WellShaped(d)
  BY <1>1 DEF WellShaped, Alone, WithAuthor
<1> HIDE DEF ks
<1>5. \/ Appears(k, event, ks)
      \/ Changes(k, event, ks)
      \/ Exists(k) /\ Happens(k, world[k], event, ks, {})
  BY DEF ks
<1> QED
  BY <1>2, <1>3, <1>4, <1>5, UpdateTrue DEF PatchEvents

LEMMA MessageChangesTrue == SyncInv /\ TruthInv /\ MessageChanges => TruthInv'
<1> SUFFICES ASSUME SyncInv, TruthInv, MessageChanges PROVE TruthInv'
  OBVIOUS
<1>1. PICK k \in In("messages", Things) :
        \/ Appears(k, "MESSAGE_CREATE", {k, User[k]})
        \/ Changes(k, "MESSAGE_UPDATE", {k, User[k]})
        \/ Goes(k, "MESSAGE_DELETE", {}, {k})
  BY DEF MessageChanges
<1>2. k \in Things /\ Scope[k] = "messages"
  BY <1>1 DEF In
<1>3. {"MESSAGE_CREATE", "MESSAGE_UPDATE"} \subseteq WithAuthor
  BY DEF WithAuthor
<1>4. ASSUME Goes(k, "MESSAGE_DELETE", {}, {k}) PROVE TruthInv'
  <2>1. Below(k) = {k}
    BY <1>2, BelowOthers
  <2>2. \A d : d.event = "MESSAGE_DELETE" /\ d.key = k /\ d.of = {k} /\ DOMAIN d.w \subseteq {}
                 /\ k \notin DOMAIN d.w => WellShaped(d) /\ Kills(d) = Below(k)
    BY <1>1, <2>1 DEF WellShaped, Kills, Alone, WithAuthor
  <2> DEFINE ks == {k}
  <2>3. \A d : d.event = "MESSAGE_DELETE" /\ d.key = k /\ d.of = ks /\ DOMAIN d.w \subseteq {}
                 /\ k \notin DOMAIN d.w => WellShaped(d) /\ Kills(d) = Below(k)
    BY <2>2
  <2>4. Goes(k, "MESSAGE_DELETE", {}, ks)
    BY <1>4
  <2> HIDE DEF ks
  <2> QED
    BY <1>2, <2>3, <2>4, GoneSound
<1> QED
  BY <1>1, <1>2, <1>3, <1>4, WithAuthorTrue

LEMMA MemberChangesTrue == SyncInv /\ TruthInv /\ MemberChanges => TruthInv'
<1> SUFFICES ASSUME SyncInv, TruthInv, MemberChanges PROVE TruthInv'
  OBVIOUS
<1>1. PICK m \in In("members", Things) :
        \/ Appears(m, "MEMBER", {m, User[m]})
        \/ Changes(m, "MEMBER", {m, User[m]})
        \/ Exists(m) /\ Happens(m, world[m], "MEMBER", {m, User[m]}, {})
        \/ Goes(m, "GUILD_MEMBER_REMOVE", {User[m]}, {})
  BY DEF MemberChanges, WithUser
<1>2. m \in Things /\ Scope[m] = "members"
  BY <1>1 DEF In
<1>3. "MEMBER" \in WithAuthor
  BY DEF WithAuthor
<1>4. ASSUME Goes(m, "GUILD_MEMBER_REMOVE", {User[m]}, {}) PROVE TruthInv'
  <2> DEFINE ks == {User[m]}
  <2>1. User[m] \in Things /\ Scope[User[m]] = "users"
    BY <1>2, Places DEF In
  <2>2. /\ ks \in SUBSET Things /\ \A x \in ks : Scope[x] = "users"
        /\ Goes(m, "GUILD_MEMBER_REMOVE", ks, {})
    BY <1>4, <2>1
  <2> HIDE DEF ks
  <2>3. \A d : d.event = "GUILD_MEMBER_REMOVE" /\ d.key = m /\ d.of = {} /\ DOMAIN d.w \subseteq ks
                 /\ m \notin DOMAIN d.w => WellShaped(d) /\ Kills(d) = Below(m)
    BY <1>1, <2>2 DEF WellShaped, Kills, Alone, WithAuthor
  <2> QED
    BY <1>2, <2>2, <2>3, GoneSound
<1> QED
  BY <1>1, <1>2, <1>3, <1>4, WithAuthorTrue

LEMMA UserChangesTrue == SyncInv /\ TruthInv /\ UserChanges => TruthInv'
<1> SUFFICES ASSUME SyncInv, TruthInv, NEW u \in Things,
                    \/ Scope[u] = "users" /\ Changes(u, "USER_SEEN", {u})
                    \/ Scope[u] = "self" /\ Changes(u, "SELF", {u})
             PROVE  TruthInv'
  BY DEF UserChanges, In
<1> DEFINE ks == {u}
           event == IF Scope[u] = "self" THEN "SELF" ELSE "USER_SEEN"
<1>1. /\ ks \in SUBSET Things /\ u \in ks /\ event \in Updates
      /\ Changes(u, event, ks) /\ (event = "SELF" <=> Scope[u] = "self")
      /\ event \notin {"CHANNEL_PINS_UPDATE", "THREAD_MEMBERS_UPDATE"}
  BY DEF Updates
<1>2. \A d : d.event = event /\ d.key = u /\ u \in DOMAIN d.w /\ DOMAIN d.w \subseteq ks => WellShaped(d)
  BY DEF WellShaped, Alone, WithAuthor, In
<1> HIDE DEF ks, event
<1> QED
  BY <1>1, <1>2, UpdateTrue

LEMMA PresenceChangesTrue == SyncInv /\ TruthInv /\ PresenceChanges => TruthInv'
<1> SUFFICES ASSUME SyncInv, TruthInv, NEW k \in In("presences", Things),
                    Appears(k, "PRESENCE_UPDATE", {k}) \/ Changes(k, "PRESENCE_UPDATE", {k})
             PROVE  TruthInv'
  BY DEF PresenceChanges
<1>1. k \in Cached
  BY DEF In, Cached, Scopes
<1>2. "PRESENCE_UPDATE" \in Alone /\ "PRESENCE_UPDATE" \notin PatchEvents
  BY DEF Alone, PatchEvents
<1> QED
  BY <1>1, <1>2, AloneTrue

LEMMA VoiceChangesTrue == SyncInv /\ TruthInv /\ VoiceChanges => TruthInv'
<1> SUFFICES ASSUME SyncInv, TruthInv, VoiceChanges PROVE TruthInv'
  OBVIOUS
<1>1. PICK k \in In("voiceStates", Things) :
        LET ks == {k} \cup {Member[k], User[Member[k]]}
        IN \/ Appears(k, "VOICE_STATE_UPDATE", ks)
           \/ Changes(k, "VOICE_STATE_UPDATE", ks)
           \/ Goes(k, "VOICE_STATE_UPDATE", ks, {})
  BY DEF VoiceChanges, WithUser
<1> DEFINE ks == {k} \cup {Member[k], User[Member[k]]}
<1>2. k \in Things /\ Scope[k] = "voiceStates"
  BY <1>1 DEF In
<1>3. Member[k] \in Things /\ Scope[Member[k]] = "members"
  BY <1>2, Places DEF In
<1>4. User[Member[k]] \in Things /\ Scope[User[Member[k]]] = "users"
  BY <1>3, Places DEF In
<1>5. /\ ks \in SUBSET Things /\ k \in ks
      /\ \A x \in ks : Scope[x] \in {"users", "members", "voiceStates"}
      /\ \A x \in ks : x = k \/ Scope[x] \in {"members", "users"}
  BY <1>2, <1>3, <1>4
<1>6. \/ Appears(k, "VOICE_STATE_UPDATE", ks)
      \/ Changes(k, "VOICE_STATE_UPDATE", ks)
      \/ Goes(k, "VOICE_STATE_UPDATE", ks, {})
  BY <1>1
<1> HIDE DEF ks
<1>7. \A d : d.event = "VOICE_STATE_UPDATE" /\ d.key = k /\ DOMAIN d.w \subseteq ks => WellShaped(d)
  BY <1>1, <1>5 DEF WellShaped, Alone, WithAuthor
<1>8. ASSUME Goes(k, "VOICE_STATE_UPDATE", ks, {}) PROVE TruthInv'
  <2>1. Below(k) = {k}
    BY <1>2, BelowOthers
  <2>2. \A d : d.event = "VOICE_STATE_UPDATE" /\ d.key = k /\ k \notin DOMAIN d.w => Kills(d) = {k}
    BY DEF Kills
  <2> QED
    BY <1>2, <1>5, <1>7, <1>8, <2>1, <2>2, GoneSound
<1>9. "VOICE_STATE_UPDATE" \in Updates /\ "VOICE_STATE_UPDATE" \notin PatchEvents
  BY DEF Updates, PatchEvents
<1> QED
  BY <1>2, <1>5, <1>6, <1>7, <1>8, <1>9, UpdateTrue

\* The deletion of a role takes it from the members that listed it.
LEMMA RoleDeletedTrue ==
  ASSUME SyncInv, TruthInv, NEW k \in In("roles", Things), Exists(k),
         NEW listing, listing = {m \in Of("members", Guild[k]) : world[m] = Listing},
         NEW f, f = [x \in Things |-> IF x = k THEN Gone ELSE IF x \in listing THEN 0 ELSE world[x]],
         world' = f, Say(Dispatch("GUILD_ROLE_DELETE", k, f, {}, {}, {k} \cup listing)),
         UNCHANGED <<outage, cacheVars, applied, stray, converted>>
  PROVE  TruthInv'
<1> DEFINE w == world
           w2 == world'
           about == {k} \cup listing
           d == Dispatch("GUILD_ROLE_DELETE", k, w2, {}, {}, about)
<1>1. /\ Say(d)
      /\ \A x \in Things : w2[x] = IF x = k THEN Gone ELSE IF x \in listing THEN 0 ELSE w[x]
      /\ w2 = [x \in Things |-> w2[x]]
  OBVIOUS
<1>2. /\ k \in Things /\ Scope[k] = "roles"
      /\ \A x \in listing : x \in Things /\ Scope[x] = "members" /\ Guild[x] = Guild[k] /\ w[x] = 1
      /\ \A x \in Things : /\ Scope[x] = "members" /\ Guild[x] = Guild[k] /\ w[x] = 1
                           => x \in listing
      /\ \A x : x \in about <=> x = k \/ x \in listing
  BY DEF In, Of, Listing
<1>3. WorldOK(w)
  BY DEF TruthInv
<1>4. WorldOK(w2)
  <2>1. \A x \in listing : 0 \in Versions(x)
    BY <1>2, VersionsAre
  <2>2. \A x \in Things :
          /\ w2[x] \in Versions(x) \cup {Gone} /\ w2[x] # Stub
          /\ Scope[x] \in {"users", "self"} => w2[x] # Gone
    BY <1>1, <1>2, <1>3, <2>1 DEF WorldOK, Gone, Stub
  <2>3. ASSUME NEW x \in Things, w2[x] # Gone, NEW y \in {Guild[x], Parent[x], Member[x]} \ {NoGroup}
        PROVE  w2[y] # Gone
    <3>1. y \in Things /\ Scope[y] # "roles"
      BY <2>3, Places DEF In
    <3>2. w[x] # Gone
      BY <1>1, <1>2, <2>3 DEF Gone
    <3>3. w[y] # Gone
      BY <1>3, <2>3, <3>2 DEF WorldOK
    <3> QED
      BY <1>1, <1>2, <3>1, <3>3 DEF Gone
  <2> QED
    BY <1>1, <2>2, <2>3 DEF WorldOK
<1> HIDE DEF about
<1>5. /\ d.event = "GUILD_ROLE_DELETE" /\ d.key = k /\ d.of = {} /\ d.about = about /\ DOMAIN d.w = {}
      /\ d = [event |-> d.event, key |-> d.key, w |-> d.w, of |-> d.of, about |-> d.about]
  BY DEF Dispatch
<1> HIDE DEF d
<1>6. Proper(d)
  <2>1. "GUILD_ROLE_DELETE" \in Events
    BY DEF Events
  <2>2. IsFiniteSet({})
    BY FS_EmptySet
  <2>3. WellShaped(d)
    BY <1>5 DEF WellShaped, Alone, WithAuthor
  <2> QED
    BY <1>5, <2>1, <2>2, <2>3 DEF Proper, Payload
<1>7. /\ Kills(d) = {k} /\ Raises(d) = {}
      /\ \A x, y : Tells(d, x, y) <=> Scope[x] = "members" /\ Guild[x] = Guild[k]
      /\ \A x : Said(d, x) = 0
  BY <1>5 DEF Kills, Raises, Tells, Said, PatchEvents
<1>8. ASSUME NEW x \in Cached PROVE Speaks(w, w2, {}, d, x) /\ (x \notin d.about => w2[x] = w[x])
  <2>0. x \in Things
    BY DEF Cached
  <2>1. x \notin d.about => w2[x] = w[x]
    BY <1>1, <1>2, <1>5, <2>0
  <2>2. ASSUME w2[x] # Gone, Scope[x] = "members", Guild[x] = Guild[k] PROVE w2[x] = 0
    <3>1. x # k
      BY <1>2, <2>2
    <3>2. w[x] # Gone
      BY <1>1, <1>2, <2>0, <2>2 DEF Gone
    <3>3. w[x] \in {0, 1}
      BY <1>3, <2>0, <2>2, <3>2, ThereIs
    <3> QED
      BY <1>1, <1>2, <2>0, <2>2, <3>1, <3>3
  <2>3. x \in d.about /\ w2[x] # Gone => Scope[x] = "members" /\ Guild[x] = Guild[k]
    BY <1>1, <1>2, <1>5, <2>0
  <2>4. x \in d.about /\ w2[x] = Gone => x = k
    BY <1>1, <1>2, <1>5, <2>0 DEF Gone
  <2>5. Guild[x] \in Things => Scope[Guild[x]] = "guilds"
    <3>1. NoGroup \notin Things
      BY PlacesAssumption
    <3> QED
      BY <2>0, <3>1, Places DEF In
  <2>6. GuildGone(w2, x) => GuildGone(w, x)
    BY <1>1, <1>2, <2>5 DEF GuildGone, Gone
  <2>7. Guild[x] = Guild[k] => ~GuildGone(w2, x)
    <3>1. ~GuildGone(w, k)
      BY <1>2, <1>3, GuildIsThere DEF Exists
    <3> QED
      BY <2>6, <3>1 DEF GuildGone
  <2>8. x \in Kills(d) => ~Described(w2, x)
    BY <1>1, <1>2, <1>7 DEF Described
  <2>9. Described(w2, x) => Described(w, x)
    <3>1. x \in listing => ~Described(w2, x)
      BY <1>2 DEF Described
    <3>2. x = k => ~Described(w2, x)
      BY <1>1, <1>2 DEF Described
    <3> QED
      BY <1>1, <2>0, <3>1, <3>2 DEF Described
  <2>10. \A y \in Parts : Tells(d, x, y) /\ w2[x] # Gone => Said(d, x) = w2[x]
    BY <1>7, <2>2
  <2> QED
    BY <1>7, <2>1, <2>3, <2>4, <2>6, <2>7, <2>8, <2>9, <2>10 DEF Speaks
<1>9. DirectTold(d)
  BY <1>7 DEF DirectTold
<1>10. \A me \in In("self", Things) : w2[me] = IF d.event = "SELF" THEN d.w[d.key] ELSE w[me]
  BY <1>1, <1>2, <1>5 DEF In
<1>11. d.event # "GUILD_CREATE" /\ outage' \subseteq In("guilds", Things)
  BY <1>5 DEF TruthInv
<1> QED
  BY <1>1, <1>4, <1>5, <1>6, <1>8, <1>9, <1>10, <1>11, SaidSound DEF Announced, Tidings

LEMMA RoleChangesTrue == SyncInv /\ TruthInv /\ RoleChanges => TruthInv'
<1> SUFFICES ASSUME SyncInv, TruthInv, RoleChanges PROVE TruthInv'
  OBVIOUS
<1>1. PICK k \in In("roles", Things) :
        \/ Appears(k, "GUILD_ROLE", {k}) \/ Changes(k, "GUILD_ROLE", {k})
        \/ LET listing == {m \in Of("members", Guild[k]) : world[m] = Listing}
               f == [x \in Things |-> IF x = k THEN Gone ELSE IF x \in listing THEN 0 ELSE world[x]]
           IN /\ Exists(k) /\ world' = f
              /\ Say(Dispatch("GUILD_ROLE_DELETE", k, f, {}, {}, {k} \cup listing))
              /\ UNCHANGED <<outage, cacheVars, applied, stray, converted>>
  BY DEF RoleChanges
<1>2. k \in Cached /\ "GUILD_ROLE" \in Alone /\ "GUILD_ROLE" \notin PatchEvents
  BY <1>1 DEF In, Cached, Scopes, Alone, PatchEvents
<1> QED
  BY <1>1, <1>2, AloneTrue, RoleDeletedTrue

LEMMA ExpressionChangesTrue == SyncInv /\ TruthInv /\ ExpressionChanges => TruthInv'
<1> SUFFICES ASSUME SyncInv, TruthInv, ExpressionChanges PROVE TruthInv'
  OBVIOUS
<1>0. PICK k \in In("emojis", Things) \cup In("stickers", Things) :
        \E v \in IF ~Exists(k) THEN {0} ELSE {Flip(world[k]), Gone} :
          LET f == [world EXCEPT ![k] = v]
              event == IF Scope[k] = "emojis" THEN "GUILD_EMOJIS_UPDATE" ELSE "GUILD_STICKERS_UPDATE"
          IN /\ HasPlace(k) /\ world' = f
             /\ Say(Dispatch(event, Guild[k], f, Present(f, Of(Scope[k], Guild[k])), {}, {k}))
             /\ UNCHANGED <<outage, cacheVars, applied, stray, converted>>
  BY DEF ExpressionChanges
<1>1. PICK v \in IF ~Exists(k) THEN {0} ELSE {Flip(world[k]), Gone} :
        LET f == [world EXCEPT ![k] = v]
            event == IF Scope[k] = "emojis" THEN "GUILD_EMOJIS_UPDATE" ELSE "GUILD_STICKERS_UPDATE"
        IN /\ HasPlace(k) /\ world' = f
           /\ Say(Dispatch(event, Guild[k], f, Present(f, Of(Scope[k], Guild[k])), {}, {k}))
           /\ UNCHANGED <<outage, cacheVars, applied, stray, converted>>
  BY <1>0
<1> DEFINE w == world
           w2 == world'
           g == Guild[k]
           event == IF Scope[k] = "emojis" THEN "GUILD_EMOJIS_UPDATE" ELSE "GUILD_STICKERS_UPDATE"
           ks == Present(w2, Of(Scope[k], g))
           about == {k}
           d == Dispatch(event, g, w2, ks, {}, about)
<1>2. WorldOK(w)
  BY DEF TruthInv
<1>3. /\ k \in Things /\ Scope[k] \in {"emojis", "stickers"}
      /\ g \in In("guilds", Things) /\ g \in Things /\ Scope[g] = "guilds" /\ g # NoGroup /\ g # k
  <2>1. k \in Things /\ Scope[k] \in {"emojis", "stickers"}
    BY <1>1 DEF In
  <2> QED
    BY <2>1, Places DEF In
<1>4. /\ Say(d) /\ UNCHANGED <<outage, cacheVars, applied, stray, converted>>
      /\ \A x \in Things : w2[x] = IF x = k THEN v ELSE w[x]
      /\ w2 = [x \in Things |-> w2[x]]
      /\ HasPlace(k)
  BY <1>1, <1>2, <1>3 DEF WorldOK
<1>5. v \in Versions(k) \cup {Gone} /\ v # Stub
  <2>1. \A x \in 0 .. 7 : x \in Versions(k) /\ x # Stub
    BY <1>3, VersionsAre DEF Stub
  <2>2. Exists(k) => Flip(w[k]) \in 0 .. 7
    BY <1>2, <1>3, ThereIs, TurnsAre DEF Exists
  <2> QED
    BY <1>1, <2>1, <2>2 DEF Gone, Stub
<1>6. WorldOK(w2)
  <2>1. \A x \in Things :
          /\ w2[x] \in Versions(x) \cup {Gone} /\ w2[x] # Stub
          /\ Scope[x] \in {"users", "self"} => w2[x] # Gone
    BY <1>2, <1>3, <1>4, <1>5 DEF WorldOK
  <2>2. ASSUME NEW x \in Things, w2[x] # Gone, NEW y \in {Guild[x], Parent[x], Member[x]} \ {NoGroup}
        PROVE  w2[y] # Gone
    <3>1. y \in Things /\ y # k
      BY <1>3, <2>2, Places DEF In
    <3>2. w[y] # Gone
      <4>1. CASE x = k
        BY <1>4, <2>2, <3>1, <4>1 DEF HasPlace, Exists
      <4>2. CASE x # k
        BY <1>2, <1>4, <2>2, <4>2 DEF WorldOK
      <4> QED
        BY <4>1, <4>2
    <3> QED
      BY <1>4, <3>1, <3>2
  <2> QED
    BY <1>4, <2>1, <2>2 DEF WorldOK
<1>7. /\ \A x : x \in ks <=> x \in Of(Scope[k], g) /\ w2[x] # Gone
      /\ \A x : x \in Of(Scope[k], g) <=> x \in Things /\ Scope[x] = Scope[k] /\ Guild[x] = g
  BY DEF Present, Of, In
<1> HIDE DEF ks, about
<1>8. /\ d.event = event /\ d.key = g /\ d.of = {} /\ d.about = about
      /\ DOMAIN d.w = ks /\ \A x \in ks : d.w[x] = w2[x]
      /\ d = [event |-> d.event, key |-> d.key, w |-> d.w, of |-> d.of, about |-> d.about]
  BY DEF Dispatch
<1>9. d.about = {k}
  BY <1>8 DEF about
<1>10. /\ event \in {"GUILD_EMOJIS_UPDATE", "GUILD_STICKERS_UPDATE"}
       /\ event = "GUILD_EMOJIS_UPDATE" => Scope[k] = "emojis"
       /\ event = "GUILD_STICKERS_UPDATE" => Scope[k] = "stickers"
  BY <1>3
<1> HIDE DEF d, event
<1>11. WellShaped(d)
  BY <1>3, <1>7, <1>8, <1>10 DEF WellShaped, Alone, WithAuthor
<1>12. Proper(d)
  <2>1. event \in Events
    BY <1>10 DEF Events
  <2>2. IsFiniteSet(ks)
    BY <1>7, ThingsAssumption, FS_Subset
  <2>3. \A x \in ks : x \in Things /\ d.w[x] \in Versions(x)
    BY <1>6, <1>7, <1>8 DEF WorldOK
  <2> QED
    BY <1>8, <1>11, <2>1, <2>2, <2>3 DEF Proper, Payload
<1>13. /\ Kills(d) = Of(Scope[k], g) \ ks
       /\ \A x : x \in Raises(d) <=> x \in ks /\ Scope[x] \in Scopes
       /\ \A x, y : Tells(d, x, y) <=> x \in ks
       /\ \A x : Said(d, x) = d.w[x]
  <2>1. Kills(d) = Of(Scope[k], g) \ ks
    BY <1>8, <1>10 DEF Kills
  <2> QED
    BY <1>8, <1>10, <2>1 DEF Raises, Tells, Said, PatchEvents, Stubbed
<1>14. ASSUME NEW x \in Cached PROVE Speaks(w, w2, {}, d, x) /\ (x \notin d.about => w2[x] = w[x])
  <2>0. x \in Things /\ Scope[x] \in Scopes
    BY DEF Cached
  <2>1. x \notin d.about => w2[x] = w[x]
    BY <1>4, <1>9, <2>0
  <2>2. \A y \in Parts : Tells(d, x, y) => Part(Said(d, x), y) = Part(w2[x], y)
    BY <1>8, <1>13
  <2>3. x \in d.about => x \in Of(Scope[k], g) /\ (x \in Kills(d) \/ x \in ks)
    BY <1>3, <1>7, <1>9, <1>13
  <2>4. w2[x] = Gone => x \notin ks
    BY <1>7
  <2>5. GuildGone(w2, x) => GuildGone(w, x)
    <3>1. NoGroup \notin Things
      BY PlacesAssumption
    <3>2. Guild[x] # k
      BY <1>3, <2>0, Places DEF In
    <3> QED
      BY <1>4, <3>2 DEF GuildGone
  <2>6. x \in Kills(d) => w2[x] = Gone
    BY <1>7, <1>13
  <2>7. Described(w2, x) => x \in Raises(d) \/ Described(w, x)
    <3>1. CASE x = k
      BY <1>3, <1>7, <1>13, <2>0, <3>1 DEF Described
    <3>2. CASE x # k
      BY <1>4, <2>0, <3>2 DEF Described
    <3> QED
      BY <3>1, <3>2
  <2>8. x \in d.about => x = k
    BY <1>9
  <2>9. x \in Kills(d) => ~Described(w2, x)
    BY <2>6 DEF Described
  <2>10. w2[x] = Gone => x \notin Raises(d) /\ \A y : ~Tells(d, x, y)
    BY <1>13, <2>4
  <2>11. x \in d.about => \A y : x \in Kills(d) \/ Tells(d, x, y)
    BY <1>13, <2>3
  <2>12. x \in d.about /\ w2[x] = Gone => x \in Kills(d)
    BY <2>3, <2>4
  <2> QED
    BY <2>1, <2>2, <2>5, <2>7, <2>9, <2>10, <2>11, <2>12 DEF Speaks
<1>15. DirectTold(d)
  <2>1. \A x \in Raises(d) : x \in Things /\ Guild[x] = g
    BY <1>7, <1>13
  <2> QED
    BY <1>3, <2>1 DEF DirectTold
<1>16. \A me \in In("self", Things) : w2[me] = IF d.event = "SELF" THEN d.w[d.key] ELSE w[me]
  BY <1>3, <1>4, <1>8, <1>10 DEF In
<1>17. d.event # "GUILD_CREATE" /\ outage' \subseteq In("guilds", Things)
  BY <1>4, <1>8, <1>10 DEF TruthInv
<1> QED
  BY <1>4, <1>6, <1>8, <1>12, <1>14, <1>15, <1>16, <1>17, SaidSound DEF Announced, Tidings

\* A dispatch that tells what was so already.
LEMMA ToldAgain ==
  ASSUME SyncInv, TruthInv, NEW d, Proper(d), DirectTold(d), Say(d),
         d = [event |-> d.event, key |-> d.key, w |-> d.w, of |-> d.of, about |-> d.about],
         d.event \notin {"GUILD_CREATE", "SELF"}, d.about = {},
         UNCHANGED <<world, cacheVars, applied, stray, converted>>,
         outage' \subseteq In("guilds", Things),
         \A x \in Cached :
           /\ \A y : Tells(d, x, y) => world[x] # Gone /\ Said(d, x) = world[x]
           /\ x \in Raises(d) => world[x] # Gone
           /\ x \in Kills(d) => ~Described(world, x)
  PROVE  TruthInv'
<1>1. WorldOK(world)
  BY DEF TruthInv
<1> DEFINE w2 == world'
<1>2. w2 = world
  OBVIOUS
<1> HIDE DEF w2
<1>3. Announced(world, w2, d)
  BY <1>1, <1>2 DEF Announced
<1>4. Tidings(world, w2, d)
  BY <1>2 DEF Tidings, Speaks
<1> QED
  BY <1>3, <1>4, SaidSound DEF w2

LEMMA AgainTrue == SyncInv /\ TruthInv /\ Again => TruthInv'
<1> SUFFICES ASSUME SyncInv, TruthInv, Again PROVE TruthInv'
  OBVIOUS
<1>0. WorldOK(world) /\ outage \subseteq In("guilds", Things)
  BY DEF TruthInv
<1>1. ASSUME NEW k \in In("messages", Things), NEW w, w = [world EXCEPT ![k] = Stub], Exists(k),
             Say(Dispatch("MESSAGE_UPDATE", k, w, {k}, {}, {})),
             UNCHANGED <<world, outage, cacheVars, applied, stray, converted>>
      PROVE  TruthInv'
  <2> DEFINE ks == {k}
             d == Dispatch("MESSAGE_UPDATE", k, w, ks, {}, {})
  <2>1. /\ Say(d) /\ k \in Things /\ Scope[k] = "messages"
        /\ \A x : x \in ks <=> x = k
    BY <1>1 DEF In
  <2>2. w[k] = Stub
    BY <1>0, <1>1, <2>1 DEF WorldOK
  <2> HIDE DEF ks
  <2>3. /\ d.event = "MESSAGE_UPDATE" /\ d.key = k /\ d.about = {}
        /\ DOMAIN d.w = ks /\ \A x \in ks : d.w[x] = w[x]
        /\ d = [event |-> d.event, key |-> d.key, w |-> d.w, of |-> d.of, about |-> d.about]
    BY DEF Dispatch
  <2> HIDE DEF d
  <2>4. Proper(d)
    <3>1. "MESSAGE_UPDATE" \in Events
      BY DEF Events
    <3>2. IsFiniteSet(ks)
      BY FS_Singleton DEF ks
    <3>3. WellShaped(d)
      BY <2>1, <2>3 DEF WellShaped, Alone, WithAuthor
    <3>4. \A x \in ks : x \in Things /\ d.w[x] \in Versions(x)
      BY <2>1, <2>2, <2>3 DEF Versions
    <3> QED
      BY <2>3, <3>1, <3>2, <3>3, <3>4 DEF Proper, Payload
  <2>5. DirectTold(d)
    BY <2>1, <2>3 DEF DirectTold, Raises, Full
  <2>6. \A x : /\ \A y : ~Tells(d, x, y)
               /\ x \in Raises(d) => world[x] # Gone
               /\ x \notin Kills(d)
    <3>1. Stubbed(d, k)
      BY <2>1, <2>2, <2>3 DEF Stubbed
    <3> QED
      BY <1>1, <2>1, <2>3, <3>1 DEF Tells, Raises, Kills, Exists, PatchEvents
  <2> QED
    BY <1>0, <1>1, <2>1, <2>3, <2>4, <2>5, <2>6, ToldAgain
<1>2. ASSUME NEW g \in In("guilds", Things), NEW of,
             Say(Dispatch("THREAD_LIST_SYNC", g, world,
                          {t \in ActiveThreads(world, g) : Parent[t] \in of}, of, {})),
             UNCHANGED <<world, outage, cacheVars, applied, stray, converted>>
      PROVE  TruthInv'
  <2> DEFINE ks == {t \in ActiveThreads(world, g) : Parent[t] \in of}
             d == Dispatch("THREAD_LIST_SYNC", g, world, ks, of, {})
  <2>1. /\ Say(d)
        /\ \A x : x \in ks <=> /\ x \in Things /\ Scope[x] = "threads" /\ Guild[x] = g
                               /\ world[x] # Gone /\ ~Archived(world[x]) /\ Parent[x] \in of
    BY <1>2 DEF ActiveThreads, Present, Of, In
  <2> HIDE DEF ks
  <2>2. /\ d.event = "THREAD_LIST_SYNC" /\ d.key = g /\ d.about = {} /\ d.of = of
        /\ DOMAIN d.w = ks /\ \A x \in ks : d.w[x] = world[x]
        /\ d = [event |-> d.event, key |-> d.key, w |-> d.w, of |-> d.of, about |-> d.about]
    BY DEF Dispatch
  <2> HIDE DEF d
  <2>3. Proper(d)
    <3>1. "THREAD_LIST_SYNC" \in Events
      BY DEF Events
    <3>2. IsFiniteSet(ks)
      BY <2>1, ThingsAssumption, FS_Subset
    <3>3. WellShaped(d)
      BY <1>2, <2>1, <2>2 DEF WellShaped, Alone, WithAuthor, In
    <3>4. \A x \in ks : x \in Things /\ d.w[x] \in Versions(x)
      BY <1>0, <2>1, <2>2 DEF WorldOK
    <3> QED
      BY <2>2, <3>1, <3>2, <3>3, <3>4 DEF Proper, Payload
  <2>4. DirectTold(d)
    <3>1. \A x \in Raises(d) : x \in Things /\ Scope[x] = "threads"
      BY <2>1, <2>2 DEF Raises
    <3> QED
      BY <3>1, Places DEF DirectTold
  <2>5. ASSUME NEW x \in Cached
        PROVE  /\ \A y : Tells(d, x, y) => world[x] # Gone /\ Said(d, x) = world[x]
               /\ x \in Raises(d) => world[x] # Gone
    BY <2>1, <2>2 DEF Tells, Raises, Said
  <2>6. ASSUME NEW x \in Cached, x \in Kills(d) PROVE ~Described(world, x)
    <3>1. /\ x \in Things /\ Scope[x] = "threads" /\ Guild[x] = g /\ Parent[x] \in of /\ x \notin ks
      BY <2>2, <2>6 DEF Kills, Of, In
    <3> QED
      BY <2>1, <3>1 DEF Described
  <2> QED
    BY <1>0, <1>2, <2>1, <2>2, <2>3, <2>4, <2>5, <2>6, ToldAgain
<1>3. ASSUME NEW k \in In("channels", Things) \cup In("threads", Things), NEW ks \in SUBSET {k},
             NEW w, Exists(k), ks = {} \/ Guild[k] = NoGroup, w = [world EXCEPT ![k] = Flip(@)],
             Say(Dispatch("CHANNEL_PINS_UPDATE", k, w, ks, {}, {})),
             UNCHANGED <<world, outage, cacheVars, applied, stray, converted>>
      PROVE  TruthInv'
  <2> DEFINE d == Dispatch("CHANNEL_PINS_UPDATE", k, w, ks, {}, {})
  <2>1. /\ Say(d) /\ k \in Things /\ Scope[k] \in {"channels", "threads"}
    BY <1>3 DEF In
  <2>2. /\ d.event = "CHANNEL_PINS_UPDATE" /\ d.key = k /\ d.about = {}
        /\ DOMAIN d.w = ks /\ \A x \in ks : d.w[x] = w[x]
        /\ d = [event |-> d.event, key |-> d.key, w |-> d.w, of |-> d.of, about |-> d.about]
    BY DEF Dispatch
  <2> HIDE DEF d
  <2>3. Proper(d)
    <3>1. "CHANNEL_PINS_UPDATE" \in Events
      BY DEF Events
    <3>2. IsFiniteSet(ks)
      BY FS_Singleton, FS_Subset
    <3>3. WellShaped(d)
      BY <1>3, <2>2 DEF WellShaped, Alone, WithAuthor
    <3>4. \A x \in ks : x \in Things /\ d.w[x] \in Versions(x)
      <4>1. world[k] \in 0 .. 7
        BY <1>0, <1>3, <2>1, ThereIs DEF Exists
      <4>2. w[k] = Flip(world[k]) /\ Flip(world[k]) \in 0 .. 7
        BY <1>0, <1>3, <2>1, <4>1, TurnsAre DEF WorldOK
      <4>3. w[k] \in Versions(k)
        BY <2>1, <4>2, VersionsAre
      <4> QED
        BY <2>1, <2>2, <4>3
    <3> QED
      BY <2>2, <3>1, <3>2, <3>3, <3>4 DEF Proper, Payload
  <2>4. \A x : x \notin Raises(d) /\ x \notin Kills(d) /\ \A y : ~Tells(d, x, y)
    BY <1>3, <2>2 DEF Tells, Raises, Kills, PatchEvents
  <2>5. DirectTold(d)
    BY <2>4 DEF DirectTold
  <2> QED
    BY <1>0, <1>3, <2>1, <2>2, <2>3, <2>4, <2>5, ToldAgain
<1> QED
  BY <1>1, <1>2, <1>3 DEF Again

LEMMA OutageTrue == SyncInv /\ TruthInv /\ Outage => TruthInv'
<1> SUFFICES ASSUME SyncInv, TruthInv, Outage PROVE TruthInv'
  OBVIOUS
<1>1. PICK g \in In("guilds", Things) :
        /\ Say(Dispatch("GUILD_UNAVAILABLE", g, world, {}, {}, {}))
        /\ outage' = outage \cup {g}
        /\ UNCHANGED <<world, cacheVars, applied, stray, converted>>
  BY DEF Outage
<1> DEFINE d == Dispatch("GUILD_UNAVAILABLE", g, world, {}, {}, {})
<1>2. /\ d.event = "GUILD_UNAVAILABLE" /\ d.key = g /\ d.about = {} /\ DOMAIN d.w = {}
      /\ d = [event |-> d.event, key |-> d.key, w |-> d.w, of |-> d.of, about |-> d.about]
  BY DEF Dispatch
<1>3. Say(d)
  BY <1>1
<1> HIDE DEF d
<1>4. Proper(d)
  <2>1. "GUILD_UNAVAILABLE" \in Events
    BY DEF Events
  <2>2. IsFiniteSet({})
    BY FS_EmptySet
  <2>3. WellShaped(d)
    BY <1>2 DEF WellShaped, Alone, WithAuthor
  <2> QED
    BY <1>2, <2>1, <2>2, <2>3 DEF Proper, Payload
<1>5. /\ Kills(d) = {} /\ Raises(d) = {} /\ \A x, y : ~Tells(d, x, y)
  BY <1>2 DEF Kills, Raises, Tells, PatchEvents
<1>6. DirectTold(d)
  BY <1>5 DEF DirectTold
<1>7. outage' \subseteq In("guilds", Things)
  BY <1>1 DEF TruthInv
<1> QED
  BY <1>1, <1>2, <1>3, <1>4, <1>5, <1>6, <1>7, ToldAgain

\* A GUILD_CREATE carries what is described of its guild, and nothing that is not there.
LEMMA SnapshotIs ==
  ASSUME NEW w, WorldOK(w), NEW g \in In("guilds", Things), w[g] # Gone, NEW d, d = Snapshot(w, g)
  PROVE  /\ d.event = "GUILD_CREATE" /\ d.key = g /\ d.of = {} /\ d.about = {}
         /\ d = [event |-> d.event, key |-> d.key, w |-> d.w, of |-> d.of, about |-> d.about]
         /\ Proper(d)
         /\ \A x \in DOMAIN d.w : /\ x \in Things /\ w[x] # Gone /\ d.w[x] = w[x]
                                  /\ Guild[x] = g \/ Scope[x] = "users"
         /\ \A x \in Things : Guild[x] = g /\ Described(w, x) => x \in DOMAIN d.w
<1> DEFINE all == ActiveThreads(w, g) \cup
                  {k \in Present(w, Below(g)) : Scope[k] \notin {"threads", "messages"}}
           most == IF theme.members THEN all
                   ELSE {k \in all : Scope[k] \notin {"members", "presences"}}
           us == Users(most)
           ks == most \cup us
<1>1. d = Dispatch("GUILD_CREATE", g, w, ks, {}, {})
  BY DEF Snapshot
<1>2. \A x : x \in all <=> /\ x \in Things /\ Guild[x] = g /\ w[x] # Gone
                           /\ Scope[x] # "messages"
                           /\ Scope[x] = "threads" => ~Archived(w[x])
  <2>1. \A x : x \in Below(g) <=> x \in Things /\ Guild[x] = g
    BY BelowGuild
  <2> QED
    BY <2>1 DEF ActiveThreads, Present, Of, In
<1>3. /\ \A x \in most : x \in all
      /\ \A x \in all : Scope[x] \notin {"members", "presences"} => x \in most
  OBVIOUS
<1> HIDE DEF all, most
<1>4. \A u \in us : u \in Things /\ Scope[u] = "users" /\ w[u] # Gone
  <2>1. \A m \in In("members", most) : User[m] \in In("users", Things)
    BY <1>2, <1>3, Places DEF In
  <2>2. \A u \in us : u \in In("users", Things)
    BY <2>1 DEF Users
  <2> QED
    BY <2>2 DEF In, WorldOK
<1> HIDE DEF us
<1>5. \A x \in ks : /\ x \in Things /\ w[x] # Gone
                    /\ Guild[x] = g \/ Scope[x] = "users"
                    /\ Scope[x] # "messages"
                    /\ Scope[x] = "users" \/ x \in all
  BY <1>2, <1>3, <1>4
<1>6. \A x \in all : Scope[x] \notin {"members", "presences"} => x \in ks
  BY <1>3
<1> HIDE DEF ks
<1>7. /\ d.event = "GUILD_CREATE" /\ d.key = g /\ d.of = {} /\ d.about = {}
      /\ DOMAIN d.w = ks /\ \A x \in ks : d.w[x] = w[x]
      /\ d = [event |-> d.event, key |-> d.key, w |-> d.w, of |-> d.of, about |-> d.about]
  BY <1>1, DispatchIs
<1>8. ASSUME NEW x \in Things, Guild[x] = g, Described(w, x) PROVE x \in ks
  BY <1>2, <1>6, <1>8 DEF Described
<1>9. WellShaped(d)
  <2>1. g \in ks
    <3>1. g \in Things /\ Scope[g] = "guilds" /\ Guild[g] = g
      BY Places DEF In
    <3> QED
      BY <1>8, <3>1 DEF Described
  <2>2. ASSUME NEW x \in ks
        PROVE  /\ Scope[x] \notin {"messages", "self"}
               /\ Scope[x] # "users" => Guild[x] = g
               /\ Scope[x] = "threads" => Parent[x] \in ks
    <3>1. x \in Things /\ w[x] # Gone
      BY <1>5
    <3>2. Scope[x] # "self"
      BY <1>5, <3>1, Places DEF In
    <3>3. ASSUME Scope[x] = "threads" PROVE Parent[x] \in ks
      <4>1. Parent[x] \in Things /\ Scope[Parent[x]] = "channels" /\ Parent[x] # NoGroup
        BY <3>1, <3>3, Places DEF In
      <4>2. Guild[Parent[x]] = g
        BY <1>5, <3>1, <3>3, <4>1, Places
      <4>3. w[Parent[x]] # Gone
        BY <3>1, <4>1, GuildIsThere
      <4> QED
        BY <1>8, <4>1, <4>2, <4>3 DEF Described
    <3> QED
      BY <1>5, <3>2, <3>3
  <2> QED
    BY <1>7, <2>1, <2>2 DEF WellShaped, Alone, WithAuthor
<1>10. Proper(d)
  <2>1. Payload(d)
    BY SnapshotPayload
  <2>2. \A x \in ks : x \in Things /\ d.w[x] \in Versions(x)
    BY <1>5, <1>7 DEF WorldOK
  <2> QED
    BY <1>7, <1>9, <2>1, <2>2 DEF Proper
<1> QED
  BY <1>5, <1>7, <1>8, <1>10

\* And it is about what was missed of it.
LEMMA TellingIs ==
  ASSUME NEW d, d = [event |-> d.event, key |-> d.key, w |-> d.w, of |-> d.of, about |-> d.about],
         d.about = {}, NEW unknown, NEW e, e = Telling(d, unknown)
  PROVE  /\ e.event = d.event /\ e.key = d.key /\ e.w = d.w /\ e.of = d.of
         /\ e.about = unknown \cap Told(d)
         /\ e = [event |-> e.event, key |-> e.key, w |-> e.w, of |-> e.of, about |-> e.about]
<1> DEFINE a == d.about \cup (unknown \cap Told(d))
<1>1. a = unknown \cap Told(d)
  OBVIOUS
<1>2. e = [d EXCEPT !.about = a]
  BY DEF Telling
<1> HIDE DEF a
<1> QED
  BY <1>1, <1>2

\* What a GUILD_CREATE of the world w says, made to tell of what is unknown.
LEMMA DescribesIs ==
  ASSUME NEW w, WorldOK(w), NEW g \in In("guilds", Things), w[g] # Gone, NEW unknown,
         NEW e, e = Telling(Snapshot(w, g), unknown)
  PROVE  /\ e.event = "GUILD_CREATE" /\ e.key = g
         /\ e = [event |-> e.event, key |-> e.key, w |-> e.w, of |-> e.of, about |-> e.about]
         /\ Proper(e) /\ DirectTold(e)
         /\ e.about = unknown \cap Told(Snapshot(w, g))
         /\ \A x \in Cached :
              /\ \A y : Tells(e, x, y) => w[x] # Gone /\ Said(e, x) = w[x]
              /\ x \in Raises(e) => w[x] # Gone
              /\ x \in Kills(e) => ~Described(w, x)
              /\ Guild[x] = g /\ Described(w, x) => x \in Raises(e)
              /\ x \in Told(Snapshot(w, g)) =>
                   \/ x \in Kills(e) /\ Guild[x] = g
                   \/ x \in Raises(e) /\ \A y : Tells(e, x, y)
<1> DEFINE d == Snapshot(w, g)
<1>1. /\ d.event = "GUILD_CREATE" /\ d.key = g /\ d.of = {} /\ d.about = {}
      /\ d = [event |-> d.event, key |-> d.key, w |-> d.w, of |-> d.of, about |-> d.about]
      /\ Proper(d)
      /\ \A x \in DOMAIN d.w : /\ x \in Things /\ w[x] # Gone /\ d.w[x] = w[x]
                               /\ Guild[x] = g \/ Scope[x] = "users"
      /\ \A x \in Things : Guild[x] = g /\ Described(w, x) => x \in DOMAIN d.w
  BY SnapshotIs
<1> HIDE DEF d
<1>2. e = Telling(d, unknown)
  BY DEF d
<1>3. /\ e.event = d.event /\ e.key = d.key /\ e.w = d.w /\ e.of = d.of
      /\ e.about = unknown \cap Told(d)
      /\ e = [event |-> e.event, key |-> e.key, w |-> e.w, of |-> e.of, about |-> e.about]
  BY <1>1, <1>2, TellingIs
<1>4. Proper(e)
  BY <1>1, <1>3 DEF Proper, Payload, WellShaped, Alone, WithAuthor
<1>5. \A x : /\ x \in Raises(e) <=> x \in DOMAIN d.w /\ Scope[x] \in Scopes
             /\ \A y : Tells(e, x, y) <=> x \in DOMAIN d.w
             /\ Said(e, x) = d.w[x]
             /\ x \in Kills(e) <=> /\ x \in Things /\ Guild[x] = g /\ Scope[x] \in Reconciled
                                   /\ x \notin DOMAIN d.w
  BY <1>1, <1>3 DEF Raises, Tells, Said, Kills, PatchEvents, Stubbed
<1>6. DirectTold(e)
  <2>1. g # NoGroup
    BY Places DEF In
  <2> QED
    BY <1>1, <1>5, <2>1 DEF DirectTold, Full
<1>7. ASSUME NEW x \in Cached, x \in Told(d)
      PROVE  \/ x \in Kills(e) /\ Guild[x] = g
             \/ x \in Raises(e) /\ \A y : Tells(e, x, y)
  <2>0. x \in Things /\ Scope[x] \in Scopes
    BY DEF Cached
  <2>1. CASE x \in DOMAIN d.w
    BY <1>5, <2>0, <2>1
  <2>2. CASE x \notin DOMAIN d.w
    <3>1. Guild[x] = g /\ Scope[x] \notin {"members", "presences", "messages"}
      BY <1>1, <1>7, <2>2 DEF Told
    <3>2. Scope[x] # "users" /\ g # NoGroup
      BY <2>0, <3>1, Places DEF In
    <3>3. Scope[x] # "guilds"
      <4>1. Scope[x] = "guilds" => x = g
        BY <2>0, <3>1, Places
      <4>2. g \in Things /\ Scope[g] = "guilds" /\ Guild[g] = g
        BY Places DEF In
      <4>3. Described(w, g)
        BY <4>2 DEF Described
      <4> QED
        BY <1>1, <2>2, <4>1, <4>2, <4>3
    <3> QED
      BY <1>5, <2>0, <2>2, <3>1, <3>2, <3>3 DEF Scopes, Reconciled
  <2> QED
    BY <2>1, <2>2
<1>8. ASSUME NEW x \in Cached
      PROVE  /\ \A y : Tells(e, x, y) => w[x] # Gone /\ Said(e, x) = w[x]
             /\ x \in Raises(e) => w[x] # Gone
             /\ x \in Kills(e) => ~Described(w, x)
             /\ Guild[x] = g /\ Described(w, x) => x \in Raises(e)
  <2>1. x \in Things /\ Scope[x] \in Scopes
    BY DEF Cached
  <2> QED
    BY <1>1, <1>5, <2>1
<1> QED
  BY <1>1, <1>3, <1>4, <1>6, <1>7, <1>8 DEF d

\* A guild is described, as it was or as one the bot has joined.
LEMMA SnapshotSpeaks ==
  ASSUME NEW w, WorldOK(w), NEW w2, WorldOK(w2), NEW g \in In("guilds", Things), w2[g] # Gone,
         \A x \in Things : w2[x] = w[x] \/ (Guild[x] = g /\ w[x] = Gone /\ w[g] = Gone),
         NEW m, NEW k \in Cached, k \in m => k \in Told(Snapshot(w2, g)),
         NEW e, e = Telling(Snapshot(w2, g), m)
  PROVE  Speaks(w, w2, m, e, k)
<1> DEFINE told == Told(Snapshot(w2, g))
<1>1. /\ e.about = m \cap told
      /\ \A y : Tells(e, k, y) => w2[k] # Gone /\ Said(e, k) = w2[k]
      /\ k \in Raises(e) => w2[k] # Gone
      /\ k \in Kills(e) => ~Described(w2, k)
      /\ Guild[k] = g /\ Described(w2, k) => k \in Raises(e)
      /\ k \in told =>
           \/ k \in Kills(e) /\ Guild[k] = g
           \/ k \in Raises(e) /\ \A y : Tells(e, k, y)
  BY DescribesIs
<1>2. k \in m => k \in told
  OBVIOUS
<1> HIDE DEF told
<1>3. k \in Things /\ g \in Things /\ Guild[g] = g /\ Scope[g] = "guilds"
  BY Places DEF Cached, In
<1>4. w2[k] = w[k] \/ (w[k] = Gone /\ GuildGone(w, k) /\ Guild[k] = g)
  BY <1>3 DEF GuildGone
<1>5. GuildGone(w2, k) => GuildGone(w, k)
  <2>1. Guild[k] = g \/ w2[Guild[k]] = w[Guild[k]] \/ Guild[k] \notin Things
    <3>1. Guild[k] \in Things => Guild[Guild[k]] = Guild[k]
      <4>1. NoGroup \notin Things
        BY PlacesAssumption
      <4> QED
        BY <1>3, <4>1, Places DEF In
    <3> QED
      BY <3>1
  <2> QED
    BY <2>1 DEF GuildGone
<1>6. Described(w2, k) => k \in Raises(e) \/ (k \notin m /\ Described(w, k))
  <2>1. Guild[k] # g => w2[k] = w[k]
    BY <1>4
  <2>2. Guild[k] # g /\ Described(w2, k) => Described(w, k)
    BY <2>1 DEF Described
  <2> QED
    BY <1>1, <1>2, <2>2
<1>7. k \in e.about <=> k \in m
  BY <1>1, <1>2
<1> QED
  BY <1>1, <1>2, <1>4, <1>5, <1>6, <1>7 DEF Speaks

LEMMA SnapshotSound ==
  ASSUME SyncInv, TruthInv, NEW g \in In("guilds", Things), world'[g] # Gone, WorldOK(world'),
         \A x \in Things : world'[x] = world[x] \/ (Guild[x] = g /\ world[x] = Gone /\ world[g] = Gone),
         NEW d, d = Snapshot(world', g), Send(d),
         UNCHANGED <<cacheVars, applied, stray, converted>>,
         outage' \subseteq In("guilds", Things)
  PROVE  TruthInv'
<1>1. WorldOK(world)
  BY DEF TruthInv
<1> DEFINE w2 == world'
           e == Telling(d, missed)
<1>2. log' = Append(log, e) /\ missed' = missed \ Told(d)
  BY DEF Send
<1>3. e = Telling(Snapshot(w2, g), missed)
  OBVIOUS
<1>4. /\ e.event = "GUILD_CREATE"
      /\ e = [event |-> e.event, key |-> e.key, w |-> e.w, of |-> e.of, about |-> e.about]
      /\ Proper(e) /\ DirectTold(e)
  BY DescribesIs
<1>5. \A me \in In("self", Things) : w2[me] = world[me]
  <2> TAKE me \in In("self", Things)
  <2>1. me \in Things /\ Scope[me] = "self" /\ g # NoGroup
    BY Places DEF In
  <2>2. Guild[me] = NoGroup
    BY <2>1, Places
  <2> QED
    BY <2>1, <2>2
<1>6. ASSUME NEW k \in Cached \ missed' PROVE Speaks(world, w2, missed, e, k)
  <2>1. k \in missed => k \in Told(Snapshot(w2, g))
    BY <1>2, <1>6
  <2> QED
    BY <1>1, <1>3, <2>1, SnapshotSpeaks
<1> HIDE DEF e
<1>7. Announced(world, world', e)
  BY <1>4, <1>5 DEF Announced
<1> QED
  BY <1>2, <1>6, <1>7, SentSound

LEMMA ReturnTrue == SyncInv /\ TruthInv /\ Return => TruthInv'
<1> SUFFICES ASSUME SyncInv, TruthInv, Return PROVE TruthInv'
  OBVIOUS
<1>1. PICK g \in outage :
        /\ outage' = outage \ {g}
        /\ IF Exists(g) THEN Send(Snapshot(world, g)) ELSE UNCHANGED <<log, missed>>
        /\ UNCHANGED <<world, cacheVars, applied, stray, converted>>
  BY DEF Return
<1>2. g \in In("guilds", Things) /\ outage' \subseteq In("guilds", Things)
  BY <1>1 DEF TruthInv
<1>3. CASE Exists(g)
  <2> DEFINE w2 == world'
  <2>1. w2 = world
    BY <1>1
  <2>2. WorldOK(world) /\ world[g] # Gone /\ Send(Snapshot(world, g))
    BY <1>1, <1>3 DEF TruthInv, Exists
  <2> HIDE DEF w2
  <2>3. /\ WorldOK(w2) /\ w2[g] # Gone /\ \A x \in Things : w2[x] = world[x]
        /\ Send(Snapshot(w2, g))
    BY <2>1, <2>2
  <2> QED
    BY <1>1, <1>2, <2>3, SnapshotSound DEF w2
<1>4. CASE ~Exists(g)
  BY <1>1, <1>2, <1>4 DEF TruthInv, cacheVars
<1> QED
  BY <1>3, <1>4

\* The world as it is at first.
LEMMA FoundingOK ==
  ASSUME NEW k \in Things
  PROVE  /\ Founding[k] \in Versions(k) \cup {Gone} /\ Founding[k] # Stub
         /\ Scope[k] \in {"guilds", "users", "self"} => Founding[k] # Gone
         /\ Founding[k] # Gone =>
              \A x \in {Guild[k], Parent[k], Member[k]} \ {NoGroup} : Founding[x] # Gone
<1>1. /\ Founding[k] \in 0 .. 7 \cup {Gone}
      /\ Scope[k] = "members" => Founding[k] \in {0, 1, Gone}
      /\ Scope[k] \in {"guilds", "users", "self"} => Founding[k] # Gone
      /\ Founding[k] # Gone =>
           \A x \in {Guild[k], Parent[k], Member[k]} \ {NoGroup} : Founding[x] # Gone
  BY FoundingAssumption DEF Listing
<1> QED
  BY <1>1, VersionsAre DEF Gone, Stub, Listing

LEMMA JoinTrue == SyncInv /\ TruthInv /\ Join => TruthInv'
<1> SUFFICES ASSUME SyncInv, TruthInv, Join PROVE TruthInv'
  OBVIOUS
<1>1. PICK g \in In("guilds", Things) \ outage :
        LET f == [k \in Things |-> IF k \in Below(g) THEN Founding[k] ELSE world[k]]
        IN /\ ~Exists(g) /\ world' = f /\ Say(Snapshot(f, g))
           /\ UNCHANGED <<outage, cacheVars, applied, stray, converted>>
  BY DEF Join
<1> DEFINE w2 == world'
<1>2. /\ g \in In("guilds", Things) /\ g \notin outage /\ g \in Things /\ Scope[g] = "guilds"
      /\ Guild[g] = g /\ g # NoGroup
  BY <1>1, Places DEF In
<1>3. \A x : x \in Below(g) <=> x \in Things /\ Guild[x] = g
  BY <1>2, BelowGuild
<1>4. /\ world[g] = Gone /\ Say(Snapshot(w2, g))
      /\ UNCHANGED <<outage, cacheVars, applied, stray, converted>>
      /\ \A x \in Things : w2[x] = IF Guild[x] = g THEN Founding[x] ELSE world[x]
      /\ w2 = [x \in Things |-> w2[x]]
  BY <1>1, <1>3 DEF Exists
<1>5. WorldOK(world)
  BY DEF TruthInv
<1>6. \A x \in Things : w2[x] = world[x] \/ (Guild[x] = g /\ world[x] = Gone /\ world[g] = Gone)
  BY <1>2, <1>4, <1>5, GuildIsThere
<1>7. WorldOK(w2)
  <2>1. ASSUME NEW x \in Things
        PROVE  /\ w2[x] \in Versions(x) \cup {Gone} /\ w2[x] # Stub
               /\ Scope[x] \in {"users", "self"} => w2[x] # Gone
    BY <1>4, <1>5, FoundingOK DEF WorldOK
  <2>2. ASSUME NEW x \in Things, w2[x] # Gone, NEW y \in {Guild[x], Parent[x], Member[x]} \ {NoGroup}
        PROVE  w2[y] # Gone
    <3>1. y \in Things /\ Guild[y] = Guild[x]
      BY <2>2, Places DEF In
    <3>2. CASE Guild[x] = g
      BY <1>4, <2>2, <3>1, <3>2, FoundingOK
    <3>3. CASE Guild[x] # g
      BY <1>4, <1>5, <2>2, <3>1, <3>3 DEF WorldOK
    <3> QED
      BY <3>2, <3>3
  <2> QED
    BY <1>4, <2>1, <2>2 DEF WorldOK
<1>8. w2[g] # Gone
  BY <1>2, <1>4, FoundingOK
<1>9. Send(Snapshot(w2, g))
  <2>1. Snapshot(w2, g).key = g
    BY <1>2, <1>7, <1>8, SnapshotIs
  <2> QED
    BY <1>2, <1>4, <2>1 DEF Say
<1>10. outage' \subseteq In("guilds", Things)
  BY <1>4 DEF TruthInv
<1> QED
  BY <1>2, <1>4, <1>6, <1>7, <1>8, <1>9, <1>10, SnapshotSound

LEMMA SetToSeqCovers ==
  ASSUME NEW S, IsFiniteSet(S)
  PROVE  \A x \in S : \E i \in DOMAIN SetToSeq(S) : SetToSeq(S)[i] = x
<1>1. Cardinality(S) \in Nat
  BY FS_CardinalityType
<1> DEFINE N == 1 .. Cardinality(S)
<1>2. \E f \in [N -> S] : IsInjective(f)
  <2>1. PICK f : f \in Bijection(N, S)
    BY FS_NatBijection, FS_CardinalityType DEF ExistsBijection
  <2> QED
    BY <2>1 DEF Bijection, Injection, IsInjective
<1>3. SetToSeq(S) \in [N -> S] /\ IsInjective(SetToSeq(S))
  BY <1>2 DEF SetToSeq
<1>4. SetToSeq(S) \in Injection(N, S)
  BY <1>3 DEF Injection, IsInjective
<1>5. Cardinality(N) = Cardinality(S)
  BY <1>1, FS_Interval
<1>6. SetToSeq(S) \in Surjection(N, S)
  BY <1>4, <1>5, FS_Injection
<1> QED
  BY <1>6 DEF Surjection

\* The dispatches of a session are its own user and its guilds, each of them.
Myself(w, k) == Dispatch("SELF", k, w, {k}, {}, {})

Describing(w, g, unknown) == Telling(Snapshot(w, g), unknown)

LEMMA SessionIs ==
  ASSUME NEW w, NEW unknown, NEW l, l = Session(w, unknown),
         NEW G, G = Present(w, In("guilds", Things))
  PROVE  /\ \A i \in DOMAIN l : i \in Nat /\ i > 0
         /\ \A i \in DOMAIN l : \/ \E k \in In("self", Things) : l[i] = Myself(w, k)
                                \/ \E g \in G : l[i] = Describing(w, g, unknown)
         /\ \A k \in In("self", Things) : \E i \in DOMAIN l : l[i] = Myself(w, k)
         /\ \A g \in G : \E i \in DOMAIN l : l[i] = Describing(w, g, unknown)
<1> DEFINE guilds == SetToSeq(G)
           selves == SetToSeq(In("self", Things))
           Mine(k) == Myself(w, k)
           Theirs(g) == Describing(w, g, unknown)
           S == {Mine(k) : k \in In("self", Things)} \cup {Theirs(g) : g \in G}
           one == [i \in DOMAIN selves |-> Mine(selves[i])]
           two == [i \in DOMAIN guilds |-> Theirs(guilds[i])]
<1>1. l = one \o two
  BY DEF Session, Myself, Describing
<1>2. /\ guilds \in Seq(G) /\ selves \in Seq(In("self", Things))
      /\ \A g \in G : \E i \in DOMAIN guilds : guilds[i] = g
      /\ \A k \in In("self", Things) : \E i \in DOMAIN selves : selves[i] = k
  BY OfFinite, PresentFinite, SetToSeqIsSeq, SetToSeqCovers
<1> HIDE DEF guilds, selves, Mine, Theirs
<1>3. /\ DOMAIN selves = 1 .. Len(selves) /\ Len(selves) \in Nat
      /\ \A i \in 1 .. Len(selves) : selves[i] \in In("self", Things)
      /\ DOMAIN guilds = 1 .. Len(guilds) /\ Len(guilds) \in Nat
      /\ \A i \in 1 .. Len(guilds) : guilds[i] \in G
  BY <1>2
<1>4. one \in [1 .. Len(selves) -> S] /\ two \in [1 .. Len(guilds) -> S]
  BY <1>3
<1>5. /\ \A i \in 1 .. Len(selves) : one[i] = Mine(selves[i])
      /\ \A i \in 1 .. Len(guilds) : two[i] = Theirs(guilds[i])
  BY <1>3
<1> HIDE DEF one, two, S
<1>6. /\ one \in Seq(S) /\ Len(one) = Len(selves)
      /\ two \in Seq(S) /\ Len(two) = Len(guilds)
  BY <1>3, <1>4
<1>7. /\ DOMAIN (one \o two) = 1 .. Len(one) + Len(two)
      /\ \A i \in 1 .. Len(one) : (one \o two)[i] = one[i]
      /\ \A i \in 1 .. Len(two) : (one \o two)[Len(one) + i] = two[i]
      /\ \A i \in Len(one) + 1 .. Len(one) + Len(two) : (one \o two)[i] = two[i - Len(one)]
  BY <1>6
<1>8. /\ DOMAIN l = 1 .. Len(selves) + Len(guilds)
      /\ \A i \in 1 .. Len(selves) : l[i] = Mine(selves[i])
      /\ \A i \in 1 .. Len(guilds) : l[Len(selves) + i] = Theirs(guilds[i])
  BY <1>1, <1>3, <1>5, <1>6, <1>7
<1>9. ASSUME NEW i \in DOMAIN l
      PROVE  (\E k \in In("self", Things) : l[i] = Mine(k)) \/ \E g \in G : l[i] = Theirs(g)
  <2>1. CASE i \in 1 .. Len(selves)
    BY <1>3, <1>8, <2>1
  <2>2. CASE i \in Len(selves) + 1 .. Len(selves) + Len(guilds)
    <3>1. i - Len(selves) \in 1 .. Len(guilds) /\ Len(selves) + (i - Len(selves)) = i
      BY <1>3, <2>2
    <3> QED
      BY <1>3, <1>8, <3>1
  <2> QED
    BY <1>3, <1>8, <2>1, <2>2
<1>10. \A k \in In("self", Things) : \E i \in DOMAIN l : l[i] = Mine(k)
  <2>1. \A i \in 1 .. Len(selves) : i \in DOMAIN l
    BY <1>3, <1>8
  <2> QED
    BY <1>2, <1>3, <1>8, <2>1
<1>11. ASSUME NEW g \in G PROVE \E i \in DOMAIN l : l[i] = Theirs(g)
  <2>1. PICK j \in DOMAIN guilds : guilds[j] = g
    BY <1>2
  <2>2. j \in 1 .. Len(guilds) /\ Len(selves) + j \in DOMAIN l
    BY <1>3, <1>8
  <2>3. l[Len(selves) + j] = Theirs(guilds[j])
    BY <1>8, <2>2
  <2> QED
    BY <2>1, <2>2, <2>3
<1>12. \A i \in DOMAIN l : i \in Nat /\ i > 0
  BY <1>3, <1>8
<1> QED
  BY <1>9, <1>10, <1>11, <1>12 DEF Mine, Theirs

\* A session tells of all that no dispatch of it is without.
LEMMA SessionTells ==
  ASSUME NEW w, WorldOK(w), NEW unknown, NEW l, l = Session(w, unknown)
  PROVE  /\ \A i \in DOMAIN l : i \in Nat /\ i > 0 /\ Proper(l[i]) /\ DirectTold(l[i])
         /\ \A i \in DOMAIN l : \A k \in Cached :
              /\ \A x : Tells(l[i], k, x) => w[k] # Gone /\ Said(l[i], k) = w[k]
              /\ k \in Raises(l[i]) => w[k] # Gone
              /\ k \in Kills(l[i]) => ~Described(w, k)
              /\ k \in Told(l[i]) =>
                   /\ Guild[k] # NoGroup \/ Scope[k] = "users"
                   /\ k \in Kills(l[i]) \/ \A x : Tells(l[i], k, x)
                   /\ k \in unknown => k \in l[i].about
         /\ \A k \in Cached : Described(w, k) /\ Guild[k] # NoGroup => \E i \in DOMAIN l : k \in Raises(l[i])
         /\ \A me \in In("self", Things) :
              /\ \A i \in DOMAIN l : l[i].event = "SELF" => l[i].w[l[i].key] = w[me]
              /\ \E i \in DOMAIN l : l[i].event = "SELF"
<1> DEFINE G == Present(w, In("guilds", Things))
           Mine(k) == Myself(w, k)
           Theirs(g) == Describing(w, g, unknown)
<1>1. /\ \A i \in DOMAIN l : i \in Nat /\ i > 0
      /\ \A i \in DOMAIN l : \/ \E k \in In("self", Things) : l[i] = Mine(k)
                             \/ \E g \in G : l[i] = Theirs(g)
      /\ \A k \in In("self", Things) : \E i \in DOMAIN l : l[i] = Mine(k)
      /\ \A g \in G : \E i \in DOMAIN l : l[i] = Theirs(g)
  BY SessionIs
<1>2. \A g : g \in G <=> g \in In("guilds", Things) /\ w[g] # Gone
  BY DEF Present
<1> HIDE DEF G
<1>3. ASSUME NEW me \in In("self", Things)
      PROVE  /\ Proper(Mine(me)) /\ Mine(me).event = "SELF" /\ Mine(me).key = me
             /\ Mine(me).w[me] = w[me]
             /\ Kills(Mine(me)) = {} /\ Told(Mine(me)) = {} /\ Raises(Mine(me)) = {}
             /\ \A k \in Cached : \A x : ~Tells(Mine(me), k, x)
  <2> DEFINE ks == {me}
             d == Dispatch("SELF", me, w, ks, {}, {})
  <2>1. me \in Things /\ Scope[me] = "self" /\ "SELF" \in Events
    BY DEF In, Events
  <2>2. w[me] # Gone
    BY <2>1 DEF WorldOK
  <2>3. \A x : x \in ks <=> x = me
    OBVIOUS
  <2> HIDE DEF ks
  <2>4. d.event = "SELF" /\ d.key = me /\ DOMAIN d.w = ks /\ \A x \in ks : d.w[x] = w[x]
    BY DEF Dispatch
  <2> HIDE DEF d
  <2>5. WellShaped(d)
    BY <2>3, <2>4 DEF WellShaped, Alone, WithAuthor
  <2>6. Proper(d)
    <3>1. \A x \in ks : x \in Things /\ d.w[x] \in Versions(x)
      BY <2>1, <2>2, <2>3, <2>4 DEF WorldOK
    <3>2. IsFiniteSet(ks)
      BY FS_Singleton DEF ks
    <3> QED
      BY <2>1, <2>4, <2>5, <3>1, <3>2 DEF Proper, Payload
  <2>7. /\ Kills(d) = {} /\ Told(d) = {} /\ Raises(d) = {}
        /\ \A k \in Cached : \A x : ~Tells(d, k, x)
    <3>1. "self" \notin Scopes
      BY DEF Scopes
    <3> QED
      BY <2>1, <2>3, <2>4, <3>1 DEF Kills, Told, Raises, Tells, Cached, PatchEvents
  <2> QED
    BY <2>3, <2>4, <2>6, <2>7 DEF d, ks, Myself
<1>4. ASSUME NEW g \in G
      PROVE  /\ Proper(Theirs(g)) /\ DirectTold(Theirs(g)) /\ Theirs(g).event = "GUILD_CREATE"
             /\ \A k \in Cached :
                  /\ \A x : Tells(Theirs(g), k, x) => w[k] # Gone /\ Said(Theirs(g), k) = w[k]
                  /\ k \in Raises(Theirs(g)) => w[k] # Gone
                  /\ k \in Kills(Theirs(g)) => ~Described(w, k)
                  /\ Guild[k] = g /\ Described(w, k) => k \in Raises(Theirs(g))
                  /\ k \in Told(Theirs(g)) =>
                       /\ Guild[k] # NoGroup \/ Scope[k] = "users"
                       /\ k \in Kills(Theirs(g)) \/ \A x : Tells(Theirs(g), k, x)
                       /\ k \in unknown => k \in Theirs(g).about
  <2> DEFINE d == Snapshot(w, g)
             e == Telling(d, unknown)
  <2>1. g \in In("guilds", Things) /\ w[g] # Gone /\ g # NoGroup
    BY <1>2, Places DEF In
  <2>2. /\ d.event = "GUILD_CREATE" /\ d.key = g /\ d.about = {}
        /\ d = [event |-> d.event, key |-> d.key, w |-> d.w, of |-> d.of, about |-> d.about]
        /\ \A x \in DOMAIN d.w : Guild[x] = g \/ Scope[x] = "users"
    BY <2>1, SnapshotIs
  <2>3. /\ e.event = "GUILD_CREATE" /\ Proper(e) /\ DirectTold(e)
        /\ e.about = unknown \cap Told(d)
        /\ \A k \in Cached :
             /\ \A x : Tells(e, k, x) => w[k] # Gone /\ Said(e, k) = w[k]
             /\ k \in Raises(e) => w[k] # Gone
             /\ k \in Kills(e) => ~Described(w, k)
             /\ Guild[k] = g /\ Described(w, k) => k \in Raises(e)
             /\ k \in Told(d) =>
                  \/ k \in Kills(e) /\ Guild[k] = g
                  \/ k \in Raises(e) /\ \A y : Tells(e, k, y)
    BY <2>1, DescribesIs
  <2> HIDE DEF d
  <2>4. Told(e) = Told(d)
    <3>1. e.event = d.event /\ e.key = d.key /\ e.w = d.w
      BY <2>2, TellingIs
    <3> HIDE DEF e
    <3> QED
      BY <3>1 DEF Told
  <2>5. \A k \in Told(d) : Guild[k] = g \/ Scope[k] = "users"
    BY <2>2 DEF Told
  <2> HIDE DEF e
  <2>6. Theirs(g) = e
    BY DEF e, d, Describing
  <2> HIDE DEF Theirs
  <2> QED
    BY <2>1, <2>3, <2>4, <2>5, <2>6
<1> HIDE DEF Mine, Theirs
<1>5. ASSUME NEW i \in DOMAIN l
      PROVE  /\ i \in Nat /\ i > 0 /\ Proper(l[i]) /\ DirectTold(l[i])
             /\ \A k \in Cached :
                  /\ \A x : Tells(l[i], k, x) => w[k] # Gone /\ Said(l[i], k) = w[k]
                  /\ k \in Raises(l[i]) => w[k] # Gone
                  /\ k \in Kills(l[i]) => ~Described(w, k)
                  /\ k \in Told(l[i]) =>
                       /\ Guild[k] # NoGroup \/ Scope[k] = "users"
                       /\ k \in Kills(l[i]) \/ \A x : Tells(l[i], k, x)
                       /\ k \in unknown => k \in l[i].about
             /\ l[i].event = "SELF" => \E me \in In("self", Things) : l[i] = Mine(me)
  <2>1. CASE \E me \in In("self", Things) : l[i] = Mine(me)
    BY <1>1, <1>3, <2>1 DEF DirectTold
  <2>2. CASE \E g \in G : l[i] = Theirs(g)
    BY <1>1, <1>4, <2>2
  <2> QED
    BY <1>1, <2>1, <2>2
<1>6. ASSUME NEW k \in Cached, Described(w, k), Guild[k] # NoGroup
      PROVE  \E i \in DOMAIN l : k \in Raises(l[i])
  <2>1. k \in Things /\ w[k] # Gone
    BY <1>6 DEF Cached, Described
  <2>2. Guild[k] \in G
    BY <1>2, <1>6, <2>1, Places, GuildIsThere
  <2> QED
    BY <1>1, <1>4, <1>6, <2>2
<1>7. ASSUME NEW me \in In("self", Things)
      PROVE  /\ \A i \in DOMAIN l : l[i].event = "SELF" => l[i].w[l[i].key] = w[me]
             /\ \E i \in DOMAIN l : l[i].event = "SELF"
  <2>1. \A x \in In("self", Things) : x = me
    BY FoundingAssumption
  <2> QED
    BY <1>1, <1>3, <1>5, <2>1
<1> QED
  BY <1>5, <1>6, <1>7

LEMMA IdentifyTrue == SyncInv /\ TruthInv /\ Identify => TruthInv'
<1> SUFFICES ASSUME SyncInv, TruthInv, Identify PROVE TruthInv'
  OBVIOUS
<1> DEFINE unknown == missed \cup UNION {log[i].about : i \in applied + 1 .. Len(log)}
           l == Session(world, unknown)
<1>1. /\ log' = l /\ applied' = 0 /\ outage' = {}
      /\ missed' = unknown \ UNION {Told(l[i]) : i \in DOMAIN l}
      /\ UNCHANGED <<world, cacheVars, stray, converted>>
  BY DEF Identify
<1>2. WorldOK(world)
  BY DEF TruthInv
<1>3. /\ \A k \in missed : k \in unknown
      /\ \A k : \A i \in DOMAIN log : i > applied /\ k \in log[i].about => k \in unknown
  <2>1. /\ applied \in Nat /\ Len(log) \in Nat /\ DOMAIN log = 1 .. Len(log)
    BY DEF SyncInv, LogInv
  <2>2. \A i \in DOMAIN log : i > applied => i \in applied + 1 .. Len(log)
    BY <2>1
  <2> QED
    BY <2>2
<1> HIDE DEF unknown
<1>4. /\ \A i \in DOMAIN l : i \in Nat /\ i > 0 /\ Proper(l[i]) /\ DirectTold(l[i])
      /\ \A i \in DOMAIN l : \A k \in Cached :
           /\ \A x : Tells(l[i], k, x) => world[k] # Gone /\ Said(l[i], k) = world[k]
           /\ k \in Raises(l[i]) => world[k] # Gone
           /\ k \in Kills(l[i]) => ~Described(world, k)
           /\ k \in Told(l[i]) =>
                /\ Guild[k] # NoGroup \/ Scope[k] = "users"
                /\ k \in Kills(l[i]) \/ \A x : Tells(l[i], k, x)
                /\ k \in unknown => k \in l[i].about
      /\ \A k \in Cached : Described(world, k) /\ Guild[k] # NoGroup => \E i \in DOMAIN l : k \in Raises(l[i])
      /\ \A me \in In("self", Things) :
           /\ \A i \in DOMAIN l : l[i].event = "SELF" => l[i].w[l[i].key] = world[me]
           /\ \E i \in DOMAIN l : l[i].event = "SELF"
  BY <1>2, SessionTells
<1> HIDE DEF l
<1>5. ASSUME NEW k \in Cached PROVE LogTrue(world, l, k)
  BY <1>4 DEF LogTrue
<1>6. ASSUME NEW k \in Cached \ missed'
      PROVE  k \notin unknown \/ (/\ Guild[k] # NoGroup \/ Scope[k] = "users"
                                  /\ world[k] # Gone => \A x : Renewed(l, k, x, 0)
                                  /\ world[k] = Gone => Ended(l, k, 0))
  <2>1. k \in unknown => \E i \in DOMAIN l : k \in Told(l[i])
    BY <1>1, <1>6
  <2> SUFFICES ASSUME k \in unknown
               PROVE  /\ Guild[k] # NoGroup \/ Scope[k] = "users"
                      /\ world[k] # Gone => \A x : Renewed(l, k, x, 0)
                      /\ world[k] = Gone => Ended(l, k, 0)
    OBVIOUS
  <2>2. PICK i \in DOMAIN l : k \in Told(l[i])
    BY <2>1
  <2>3. i > 0 /\ k \in l[i].about /\ (Guild[k] # NoGroup \/ Scope[k] = "users")
    BY <1>4, <2>2
  <2>4. k \in Kills(l[i]) \/ \A x : Tells(l[i], k, x)
    BY <1>4, <2>2
  <2>5. world[k] = Gone => \A x : ~Tells(l[i], k, x)
    BY <1>4
  <2>6. i > 0 /\ k \in l[i].about
    BY <1>4, <2>2
  <2> QED
    BY <2>3, <2>4, <2>5, <2>6 DEF Renewed, Ended
<1>7. ASSUME NEW k \in Cached \ missed', k \notin unknown
      PROVE  k \notin missed /\ \A i \in DOMAIN log : i > applied => k \notin log[i].about
  BY <1>3, <1>7
<1>8. ASSUME NEW k \in Cached \ (missed' \cup stray) PROVE HeldTrue(world, l, 0, cache, now, k)
  <2>1. CASE k \in unknown
    BY <1>6, <1>8, <2>1 DEF HeldTrue
  <2>2. CASE k \notin unknown
    <3>1. k \notin missed /\ \A i \in DOMAIN log : i > applied => k \notin log[i].about
      BY <1>7, <1>8, <2>2
    <3>2. HeldTrue(world, log, applied, cache, now, k)
      BY <1>8, <3>1 DEF TruthInv
    <3>3. (\A x : ~Renewed(log, k, x, applied)) /\ ~Ended(log, k, applied)
      BY <3>1 DEF Renewed, Ended
    <3> QED
      BY <3>2, <3>3 DEF HeldTrue
  <2> QED
    BY <2>1, <2>2
<1>9. ASSUME NEW k \in Cached \ (missed' \cup converted) PROVE HeldWhole(world, l, 0, cache, now, k)
  <2> SUFFICES ASSUME Described(world, k), KeptWhole(cache, k)
               PROVE  IsHeld(cache, k, now) \/ Raised(l, k, 0)
    BY DEF HeldWhole
  <2>1. CASE Guild[k] # NoGroup
    BY <1>4, <1>9, <2>1 DEF Raised
  <2>2. CASE Guild[k] = NoGroup
    <3>1. k \notin unknown
      <4>1. Scope[k] # "users"
        BY DEF Described
      <4> QED
        BY <1>6, <1>9, <2>2, <4>1
    <3>2. k \notin missed /\ \A i \in DOMAIN log : i > applied => k \notin log[i].about
      BY <1>7, <1>9, <3>1
    <3>3. HeldWhole(world, log, applied, cache, now, k)
      BY <1>9, <3>2 DEF TruthInv
    <3>4. ~Raised(log, k, applied)
      <4>1. Scope[k] \in Full
        BY DEF KeptWhole
      <4>2. \A i \in DOMAIN log : k \in Raises(log[i]) => k \in log[i].about
        BY <2>2, <4>1 DEF TruthInv, DirectTold
      <4> QED
        BY <3>2, <4>2 DEF Raised
    <3> QED
      BY <3>3, <3>4 DEF HeldWhole
  <2> QED
    BY <2>1, <2>2
<1>10. SelfTrue(world, l, 0, cache)
  BY <1>4 DEF SelfTrue
<1>11. outage' \subseteq In("guilds", Things)
  BY <1>1
<1> HIDE DEF TruthInv
<1>12. /\ WorldOK(world) /\ \A i \in DOMAIN l : Proper(l[i]) /\ DirectTold(l[i])
       /\ Good(cache, now) /\ Typed(cache, now)
  BY <1>2, <1>4 DEF TruthInv
<1>13. cache' = cache /\ now' = now
  BY <1>1 DEF cacheVars
<1> QED
  BY <1>1, <1>5, <1>8, <1>9, <1>10, <1>11, <1>12, <1>13 DEF TruthInv

LEMMA TruthInit == Init => TruthInv
<1> SUFFICES ASSUME Init PROVE TruthInv
  OBVIOUS
<1> DEFINE l == Session(Founding, {})
<1>1. /\ world = Founding /\ outage = {} /\ log = l /\ applied = 0 /\ now = 1 /\ missed = {}
      /\ cache.stores = [scope \in Scopes |-> EmptyStore] /\ cache.self = Gone
  BY DEF Init
<1>2. WorldOK(Founding)
  BY FoundingOK, FoundingAssumption DEF WorldOK
<1>4. /\ \A i \in DOMAIN l : i \in Nat /\ i > 0 /\ Proper(l[i]) /\ DirectTold(l[i])
      /\ \A i \in DOMAIN l : \A k \in Cached :
           /\ \A x : Tells(l[i], k, x) => world[k] # Gone /\ Said(l[i], k) = world[k]
           /\ k \in Raises(l[i]) => world[k] # Gone
           /\ k \in Kills(l[i]) => ~Described(world, k)
      /\ \A k \in Cached : Described(world, k) /\ Guild[k] # NoGroup => \E i \in DOMAIN l : k \in Raises(l[i])
      /\ \A me \in In("self", Things) :
           /\ \A i \in DOMAIN l : l[i].event = "SELF" => l[i].w[l[i].key] = world[me]
           /\ \E i \in DOMAIN l : l[i].event = "SELF"
  BY <1>1, <1>2, SessionTells
<1> HIDE DEF l
<1>5. ASSUME NEW k \in Cached PROVE LogTrue(world, l, k)
  BY <1>4 DEF LogTrue
<1>6. ASSUME NEW k \in Cached PROVE ~IsHeld(cache, k, now)
  <2>1. cache.stores[Scope[k]] = EmptyStore
    BY <1>1 DEF Cached
  <2>2. Keys(EmptyStore) = {}
    BY DEF Keys, EmptyStore
  <2> QED
    BY <2>1, <2>2 DEF IsHeld, Live
<1>7. Good(cache, now) /\ Typed(cache, now)
  <2>1. CacheInv(cache, now)
    BY SyncInit DEF SyncInv
  <2>2. \A scope \in Scopes : Keys(cache.stores[scope]) = {}
    BY <1>1 DEF Keys, EmptyStore
  <2> QED
    BY <1>6, <2>1, <2>2 DEF Good, Typed
<1>8. ASSUME NEW k \in Cached PROVE HeldWhole(world, l, 0, cache, now, k)
  <2> SUFFICES ASSUME Described(world, k), KeptWhole(cache, k) PROVE Raised(l, k, 0)
    BY DEF HeldWhole
  <2>1. k \in Things /\ world[k] # Gone
    BY DEF Described, Cached
  <2>2. Guild[k] # NoGroup
    <3>1. Scope[k] = "channels" => Guild[k] # NoGroup
      BY <1>1, <2>1, FoundingAssumption
    <3>2. Scope[k] \notin {"users", "self", "messages"}
      BY DEF Described
    <3> QED
      BY <2>1, <3>1, <3>2, Places
  <2> QED
    BY <1>4, <2>2 DEF Raised
<1>9. SelfTrue(world, l, 0, cache)
  BY <1>4 DEF SelfTrue
<1> QED
  BY <1>1, <1>2, <1>4, <1>5, <1>6, <1>7, <1>8, <1>9 DEF TruthInv, HeldTrue

LEMMA ResumeTrue == SyncInv /\ TruthInv /\ Resume => TruthInv'
<1> SUFFICES ASSUME SyncInv, TruthInv, Resume PROVE TruthInv'
  OBVIOUS
<1>1. /\ UNCHANGED <<world, outage, log, missed, cache, now, stray, converted>>
      /\ applied' \in applied - MaxReplayed .. applied - 1 /\ applied' >= 0
  BY DEF Resume, worldVars, cacheVars
<1>2. applied \in Nat /\ applied' \in Int /\ applied' < applied
  BY <1>1 DEF SyncInv, LogInv
<1>3. \A i \in DOMAIN log : i > applied => i > applied'
  BY <1>2 DEF SyncInv, LogInv
<1>4. \A k : /\ \A x : Renewed(log, k, x, applied) => Renewed(log, k, x, applied')
             /\ Ended(log, k, applied) => Ended(log, k, applied')
             /\ Raised(log, k, applied) => Raised(log, k, applied')
  BY <1>3 DEF Renewed, Ended, Raised
<1> DEFINE b == applied'
<1> HIDE DEF b
<1>5. \A k : /\ HeldTrue(world, log, applied, cache, now, k) => HeldTrue(world, log, b, cache, now, k)
             /\ HeldWhole(world, log, applied, cache, now, k) => HeldWhole(world, log, b, cache, now, k)
  BY <1>4 DEF HeldTrue, HeldWhole, b
<1>6. SelfTrue(world, log, b, cache)
  BY <1>3 DEF SelfTrue, TruthInv, b
<1> QED
  BY <1>1, <1>5, <1>6 DEF TruthInv, b

\* Nothing but what may expire leaves the cache.
Fades ==
  /\ UNCHANGED <<worldVars, applied, stray, converted>>
  /\ Good(cache', now') /\ cache'.policy = cache.policy /\ cache'.self = cache.self
  /\ \A k \in Cached :
       /\ IsHeld(cache', k, now') => IsHeld(cache, k, now) /\ Held(cache', k) = Held(cache, k)
       /\ KeptWhole(cache, k) /\ IsHeld(cache, k, now) => IsHeld(cache', k, now')

LEMMA FadesTrue == TruthInv /\ Fades => TruthInv'
<1> SUFFICES ASSUME TruthInv, Fades PROVE TruthInv'
  OBVIOUS
<1>0. /\ UNCHANGED <<worldVars, applied, stray, converted>>
      /\ Good(cache', now') /\ cache'.policy = cache.policy /\ cache'.self = cache.self
      /\ \A k \in Cached :
           /\ IsHeld(cache', k, now') => IsHeld(cache, k, now) /\ Held(cache', k) = Held(cache, k)
           /\ KeptWhole(cache, k) /\ IsHeld(cache, k, now) => IsHeld(cache', k, now')
  BY DEF Fades
<1> DEFINE e == cache'
           t == now'
<1>1. UNCHANGED <<world, outage, log, missed, applied, stray, converted>>
  BY <1>0 DEF worldVars
<1>2. \A k : KeptWhole(e, k) => KeptWhole(cache, k)
  BY <1>0 DEF KeptWhole
<1> HIDE DEF e, t
<1>3. ASSUME NEW k \in Cached
      PROVE  /\ HeldTrue(world, log, applied, cache, now, k) => HeldTrue(world, log, applied, e, t, k)
             /\ HeldWhole(world, log, applied, cache, now, k) => HeldWhole(world, log, applied, e, t, k)
  BY <1>0, <1>2 DEF HeldTrue, HeldWhole, e, t
<1>4. SelfTrue(world, log, applied, e)
  BY <1>0, <1>1 DEF SelfTrue, TruthInv, e
<1>5. Typed(e, t)
  BY <1>0 DEF Typed, TruthInv, e, t
<1> QED
  BY <1>0, <1>1, <1>3, <1>4, <1>5 DEF TruthInv, e, t

LEMMA SweptFades == SyncInv /\ TruthInv /\ SweeperFires => Fades
<1> SUFFICES ASSUME SyncInv, TruthInv, SweeperFires PROVE Fades
  OBVIOUS
<1> DEFINE c == cache
           e == Sweep(c, now)
           stores == [scope \in Scopes |-> IF Expiring(c, scope) THEN Swept(c.stores[scope], now)
                                            ELSE c.stores[scope]]
<1>1. cache' = e /\ UNCHANGED <<worldVars, now, applied, stray, converted>>
  BY DEF SweeperFires
<1>2. Good(c, now) /\ now \in Nat
  BY DEF TruthInv, SyncInv
<1>3. c = [policy |-> c.policy, stores |-> c.stores, self |-> c.self]
  BY <1>2 DEF Good, CacheInv
<1>4. \A scope \in Scopes : stores[scope] = IF Expiring(c, scope) THEN Swept(c.stores[scope], now)
                                             ELSE c.stores[scope]
  OBVIOUS
<1>5. e.policy = c.policy /\ e.self = c.self /\ e.stores = stores
  <2> HIDE DEF stores, c
  <2>1. e = [c EXCEPT !.stores = stores]
    BY DEF Sweep, stores
  <2> HIDE DEF e
  <2> QED
    BY <1>3, <2>1
<1>6. CacheInv(e, now)
  BY <1>2, SweepSound DEF Good
<1> HIDE DEF stores, c, e
<1>7. ASSUME NEW scope \in Scopes
      PROVE  /\ Keys(stores[scope]) \subseteq In(scope, Things)
             /\ \A k \in Live(stores[scope], now) :
                  k \in Live(c.stores[scope], now) /\ Value(stores[scope], k) = Value(c.stores[scope], k)
             /\ Policies[c.policy][scope].ttl = 0 => stores[scope] = c.stores[scope]
  <2>1. /\ PolicyOK(Policies[c.policy][scope])
        /\ StoreInv(Policies[c.policy][scope], c.stores[scope], now)
        /\ Keys(c.stores[scope]) \subseteq In(scope, Things)
    BY <1>2, StoreOf
  <2>2. CASE Expiring(c, scope)
    <3>1. PICK ks : Swept(c.stores[scope], now) = Evict(c.stores[scope], ks)
      BY DEF Swept
    <3>2. stores[scope] = Evict(c.stores[scope], ks)
      BY <1>4, <2>2, <3>1
    <3>3. Keys(stores[scope]) = Keys(c.stores[scope]) \ ks /\ Within(stores[scope], c.stores[scope])
      BY <1>2, <2>1, <3>2, EvictDoes
    <3>4. Policies[c.policy][scope].ttl # 0
      BY <2>2 DEF Expiring
    <3> QED
      BY <2>1, <3>3, <3>4, WithinIsLive
  <2>3. CASE ~Expiring(c, scope)
    BY <1>4, <2>1, <2>3
  <2> QED
    BY <2>2, <2>3
<1>8. Good(e, now)
  BY <1>5, <1>6, <1>7 DEF Good
<1>9. ASSUME NEW k \in Cached
      PROVE  /\ IsHeld(e, k, now) => IsHeld(c, k, now) /\ Held(e, k) = Held(c, k)
             /\ KeptWhole(c, k) /\ IsHeld(c, k, now) => IsHeld(e, k, now)
  BY <1>5, <1>7 DEF Cached, IsHeld, Held, KeptWhole, KeepsAll
<1>10. cache' = e /\ now' = now /\ cache = c
  BY <1>1 DEF c
<1> QED
  BY <1>1, <1>5, <1>8, <1>9, <1>10 DEF Fades

LEMMA SweptTrue == SyncInv /\ TruthInv /\ SweeperFires => TruthInv'
  BY SweptFades, FadesTrue

LEMMA TickFades == SyncInv /\ TruthInv /\ Tick => Fades
<1> SUFFICES ASSUME SyncInv, TruthInv, Tick PROVE Fades
  OBVIOUS
<1>1. cache' = cache /\ now' = now + 1 /\ UNCHANGED <<worldVars, applied, stray, converted>>
  BY DEF Tick
<1>2. Good(cache, now) /\ now \in Nat \ {0}
  BY DEF TruthInv, SyncInv
<1>3. Good(cache, now + 1)
  BY <1>2, CacheInvLater DEF Good
<1>4. ASSUME NEW scope \in Scopes
      PROVE  /\ Live(cache.stores[scope], now + 1) \subseteq Live(cache.stores[scope], now)
             /\ Policies[cache.policy][scope].ttl = 0 =>
                  Live(cache.stores[scope], now + 1) = Live(cache.stores[scope], now)
  <2> DEFINE s == cache.stores[scope]
             p == Policies[cache.policy][scope]
  <2>1. PolicyOK(p) /\ StoreInv(p, s, now) /\ StoreInv(p, s, now + 1)
    BY <1>2, <1>3, StoreOf
  <2> HIDE DEF s, p
  <2>2. ASSUME NEW k \in Keys(s), Expired(Entry(s, k), now) PROVE Expired(Entry(s, k), now + 1)
    <3>1. PICK i \in DOMAIN s.entries : s.entries[i].key = k
      BY DEF Keys
    <3>2. Entry(s, k) = s.entries[i]
      BY <2>1, <3>1, EntryIs
    <3>3. s.entries[i].due \in Int
      BY <1>2, <2>1 DEF StoreInv, EntriesOK, PolicyOK, Never
    <3> QED
      BY <1>2, <2>2, <3>2, <3>3 DEF Expired
  <2>3. p.ttl = 0 => Live(s, now + 1) = Keys(s) /\ Live(s, now) = Keys(s)
    BY <2>1, AllLive
  <2>4. Live(s, now + 1) \subseteq Live(s, now)
    BY <2>2 DEF Live
  <2> QED
    BY <2>3, <2>4 DEF s, p
<1>5. ASSUME NEW k \in Cached
      PROVE  /\ IsHeld(cache, k, now + 1) => IsHeld(cache, k, now)
             /\ KeptWhole(cache, k) /\ IsHeld(cache, k, now) => IsHeld(cache, k, now + 1)
  BY <1>4 DEF Cached, IsHeld, KeptWhole, KeepsAll
<1>6. cache'.policy = cache.policy /\ cache'.self = cache.self
  BY <1>1
<1>7. Good(cache', now')
  BY <1>1, <1>3
<1>8. ASSUME NEW k \in Cached
      PROVE  /\ IsHeld(cache', k, now') => IsHeld(cache, k, now) /\ Held(cache', k) = Held(cache, k)
             /\ KeptWhole(cache, k) /\ IsHeld(cache, k, now) => IsHeld(cache', k, now')
  BY <1>1, <1>5
<1> QED
  BY <1>1, <1>6, <1>7, <1>8 DEF Fades

LEMMA TickTrue == SyncInv /\ TruthInv /\ Tick => TruthInv'
  BY TickFades, FadesTrue

LEMMA StillTrue ==
  ASSUME TruthInv,
         UNCHANGED <<world, outage, log, applied, missed, cache, now, stray, converted>>
  PROVE  TruthInv'
  BY DEF TruthInv

-----------------------------------------------------------------------------
(* The client applies the next dispatch.                                   *)

\* Of one that was there and was not put.
LEMMA RouteKeepsTrue ==
  ASSUME NEW w, NEW l, NEW a \in Nat, NEW c, NEW e, NEW t, NEW k \in Cached, NEW d,
         d = l[a + 1], a + 1 \in DOMAIN l, \A i \in DOMAIN l : i \in Nat,
         Proper(d), Typed(c, t), DoesTo(c, e, d, t, k),
         Strays(c, k, t) => ~IsHeld(c, k, t),
         LogTrue(w, l, k), HeldTrue(w, l, a, c, t, k)
  PROVE  HeldTrue(w, l, a + 1, e, t, k)
<1>0. /\ \A x : Renewed(l, k, x, a) =>
           Renewed(l, k, x, a + 1) \/ (k \in d.about /\ (k \in Kills(d) \/ Tells(d, k, x)))
      /\ Ended(l, k, a) => Ended(l, k, a + 1) \/ k \in Kills(d)
  <2>1. \A i \in DOMAIN l : i > a => i > a + 1 \/ i = a + 1
    OBVIOUS
  <2> QED
    BY <2>1 DEF Renewed, Ended
<1> SUFFICES ASSUME IsHeld(e, k, t)
             PROVE  /\ w[k] # Gone => \A x \in Parts :
                         Held(e, k) = Stub \/ Part(Held(e, k), x) = Part(w[k], x) \/ Renewed(l, k, x, a + 1)
                    /\ w[k] = Gone => Ended(l, k, a + 1)
  BY DEF HeldTrue
<1>1. CASE k \in Raises(d)
  <2>1. k \in DOMAIN d.w /\ d.event \notin PatchEvents
    BY <1>1 DEF Raises
  <2>2. d.event # "GUILD_ROLE_DELETE"
    BY <2>1 DEF Proper, WellShaped
  <2>3. Held(e, k) = IF Stubbed(d, k) THEN IF IsHeld(c, k, t) THEN Held(c, k) ELSE Stub ELSE d.w[k]
    BY <1>1 DEF DoesTo
  <2>4. w[k] = Gone => Ended(l, k, a + 1)
    BY <1>1 DEF LogTrue
  <2>5. ASSUME w[k] # Gone, NEW x \in Parts
        PROVE  Held(e, k) = Stub \/ Part(Held(e, k), x) = Part(w[k], x) \/ Renewed(l, k, x, a + 1)
    <3>1. CASE ~Stubbed(d, k)
      <4>1. Tells(d, k, x) /\ Said(d, k) = d.w[k] /\ Held(e, k) = d.w[k]
        BY <2>1, <2>2, <2>3, <3>1 DEF Tells, Said, PatchEvents
      <4> QED
        BY <2>5, <4>1 DEF LogTrue
    <3>2. CASE Stubbed(d, k) /\ ~IsHeld(c, k, t)
      BY <2>3, <3>2
    <3>3. CASE Stubbed(d, k) /\ IsHeld(c, k, t)
      <4>1. ~Tells(d, k, x) /\ k \notin Kills(d)
        BY <3>3 DEF Tells, Kills, Stubbed
      <4>2. Held(c, k) = Stub \/ Part(Held(c, k), x) = Part(w[k], x) \/ Renewed(l, k, x, a)
        BY <2>5, <3>3 DEF HeldTrue
      <4> QED
        BY <1>0, <2>3, <3>3, <4>1, <4>2
    <3> QED
      BY <3>1, <3>2, <3>3
  <2> QED
    BY <2>4, <2>5
<1>2. CASE k \notin Raises(d)
  <2>1. IsHeld(c, k, t) /\ k \notin Kills(d)
    BY <1>2 DEF DoesTo
  <2>2. Held(c, k) \in Versions(k)
    BY <2>1 DEF Typed
  <2>3. /\ (\A x \in Parts : ~Tells(d, k, x)) => Held(e, k) = Held(c, k)
        /\ \A x \in Parts :
             Part(Held(e, k), x) = IF Tells(d, k, x) THEN Part(Said(d, k), x) ELSE Part(Held(c, k), x)
    BY <1>2, <2>2 DEF DoesTo
  <2>4. w[k] = Gone => Ended(l, k, a + 1)
    BY <1>0, <2>1 DEF HeldTrue
  <2>5. ASSUME w[k] # Gone, NEW x \in Parts
        PROVE  Held(e, k) = Stub \/ Part(Held(e, k), x) = Part(w[k], x) \/ Renewed(l, k, x, a + 1)
    <3>1. CASE Tells(d, k, x)
      <4>1. Part(Said(d, k), x) = Part(w[k], x) \/ Renewed(l, k, x, a + 1)
        BY <2>5, <3>1 DEF LogTrue
      <4> QED
        BY <2>3, <3>1, <4>1
    <3>2. CASE ~Tells(d, k, x) /\ Held(c, k) # Stub
      <4>1. Part(Held(c, k), x) = Part(w[k], x) \/ Renewed(l, k, x, a)
        BY <2>1, <2>5, <3>2 DEF HeldTrue
      <4> QED
        BY <1>0, <2>1, <2>3, <3>2, <4>1
    <3>3. CASE Held(c, k) = Stub
      <4>1. Scope[k] = "messages"
        BY <2>2, <3>3, VersionsAre DEF Stub
      <4>2. \A y : ~Tells(d, k, y)
        <5>1. k \in DOMAIN d.w => d.event \in PatchEvents
          BY <1>2 DEF Raises, Cached
        <5>2. k \notin DOMAIN d.w
          BY <4>1, <5>1 DEF Proper, WellShaped, Alone, PatchEvents, In
        <5> QED
          BY <4>1, <5>2 DEF Tells
      <4> QED
        BY <2>3, <3>3, <4>2
    <3> QED
      BY <3>1, <3>2, <3>3
  <2> QED
    BY <2>4, <2>5
<1> QED
  BY <1>1, <1>2

LEMMA RouteKeepsWhole ==
  ASSUME NEW w, NEW l, NEW a \in Nat, NEW c, NEW e, NEW t, NEW k \in Cached, NEW d,
         d = l[a + 1], a + 1 \in DOMAIN l, \A i \in DOMAIN l : i \in Nat,
         e.policy = c.policy, DoesTo(c, e, d, t, k),
         KeptWhole(c, k) /\ d.event = "CHANNEL_UPDATE" /\ Scope[k] = "threads" /\ IsHeld(c, k, t)
           => IsHeld(e, k, t),
         LogTrue(w, l, k), HeldWhole(w, l, a, c, t, k)
  PROVE  HeldWhole(w, l, a + 1, e, t, k)
<1>0. Raised(l, k, a) => Raised(l, k, a + 1) \/ k \in Raises(d)
  <2>1. \A i \in DOMAIN l : i > a => i > a + 1 \/ i = a + 1
    OBVIOUS
  <2> QED
    BY <2>1 DEF Raised
<1> SUFFICES ASSUME Described(w, k), KeptWhole(c, k) PROVE IsHeld(e, k, t) \/ Raised(l, k, a + 1)
  BY DEF HeldWhole, KeptWhole
<1>1. k \in Kills(d) => Raised(l, k, a + 1)
  BY DEF LogTrue
<1>2. IsHeld(c, k, t) \/ Raised(l, k, a)
  BY DEF HeldWhole
<1>3. /\ k \in Raises(d) => IsHeld(e, k, t)
      /\ IsHeld(c, k, t) /\ ~IsHeld(e, k, t) =>
           k \in Kills(d) \/ (d.event = "CHANNEL_UPDATE" /\ Scope[k] = "threads")
  BY DEF DoesTo
<1> QED
  BY <1>0, <1>1, <1>2, <1>3

LEMMA RouteTrue == SyncInv /\ TruthInv /\ Route => TruthInv'
<1> SUFFICES ASSUME SyncInv, TruthInv, Route PROVE TruthInv'
  OBVIOUS
<1> DEFINE d == log[applied + 1]
           c == cache
           e == Handle(c, d, now)
           b == applied + 1
<1>1. /\ applied < Len(log) /\ cache' = e /\ applied' = b
      /\ converted' = IF d.event = "CHANNEL_UPDATE"
                      THEN converted \cup (Keys(c.stores["threads"]) \ Keys(e.stores["threads"]))
                      ELSE converted
      /\ stray' = stray \cup {x \in Keys(c.stores["messages"]) :
                                /\ Scope[Parent[x]] = "threads"
                                /\ Parent[x] \notin Live(c.stores["threads"], now)}
      /\ UNCHANGED <<world, outage, log, missed, now>>
  BY DEF Route, worldVars
<1>2. /\ applied \in Nat /\ b \in DOMAIN log /\ b > applied /\ \A i \in DOMAIN log : i \in Nat
      /\ \A i \in DOMAIN log : i > applied => i > b \/ i = b
  <2>1. applied \in Nat /\ Len(log) \in Nat /\ DOMAIN log = 1 .. Len(log)
    BY DEF SyncInv, LogInv
  <2> QED
    BY <1>1, <2>1
<1>3. Good(c, now) /\ Typed(c, now) /\ Proper(d) /\ now \in Nat \ {0}
  BY <1>2 DEF TruthInv, SyncInv
<1> HIDE DEF d, c, e
<1>4. Does(c, e, d, now) /\ Typed(e, now)
  BY <1>3, HandleDoes, DoesKeepsTyped DEF e
<1>5. /\ Good(e, now) /\ e.policy = c.policy
      /\ e.self = IF d.event = "SELF" THEN d.w[d.key] ELSE c.self
      /\ \A k \in Cached : DoesTo(c, e, d, now, k)
  BY <1>4 DEF Does
<1>6. ASSUME NEW k \in Cached \ (missed \cup stray') PROVE HeldTrue(world, log, b, e, now, k)
  <2>1. LogTrue(world, log, k) /\ HeldTrue(world, log, applied, c, now, k)
    BY <1>1, <1>6 DEF TruthInv, c
  <2>2. Strays(c, k, now) => ~IsHeld(c, k, now)
    <3> SUFFICES ASSUME Strays(c, k, now), IsHeld(c, k, now) PROVE FALSE
      OBVIOUS
    <3>1. Scope[k] = "messages" /\ Scope[Parent[k]] = "threads" /\ Parent[k] \notin Live(c.stores["threads"], now)
      BY DEF Strays, IsHeld
    <3>2. k \in Keys(c.stores["messages"])
      BY <3>1 DEF IsHeld, Live
    <3> QED
      BY <1>1, <1>6, <3>1, <3>2
  <2> QED
    BY <1>2, <1>3, <1>5, <1>6, <2>1, <2>2, RouteKeepsTrue DEF d
<1>7. ASSUME NEW k \in Cached \ (missed \cup converted') PROVE HeldWhole(world, log, b, e, now, k)
  <2>1. LogTrue(world, log, k) /\ HeldWhole(world, log, applied, c, now, k)
    BY <1>1, <1>7 DEF TruthInv, c
  <2>2. ASSUME KeptWhole(c, k), d.event = "CHANNEL_UPDATE", Scope[k] = "threads", IsHeld(c, k, now)
        PROVE  IsHeld(e, k, now)
    <3>1. k \in Keys(c.stores["threads"])
      BY <2>2 DEF IsHeld, Live
    <3>2. k \in Keys(e.stores["threads"])
      BY <1>1, <1>7, <2>2, <3>1
    <3>3. "threads" \in Scopes
      BY DEF Scopes
    <3>4. StoreInv(Policies[e.policy]["threads"], e.stores["threads"], now)
      BY <1>5, <3>3, StoreOf
    <3>5. Policies[e.policy]["threads"].ttl = 0
      BY <1>5, <2>2 DEF KeptWhole, KeepsAll
    <3> QED
      BY <2>2, <3>2, <3>4, <3>5, AllLive DEF IsHeld
  <2> QED
    BY <1>2, <1>5, <1>7, <2>1, <2>2, RouteKeepsWhole DEF d
<1>8. SelfTrue(world, log, b, e)
  <2> SUFFICES ASSUME NEW me \in In("self", Things)
               PROVE  e.self = world[me] \/ \E j \in DOMAIN log : j > b /\ log[j].event = "SELF"
    BY DEF SelfTrue, TruthInv
  <2>1. /\ c.self = world[me] \/ \E j \in DOMAIN log : j > applied /\ log[j].event = "SELF"
        /\ d.event = "SELF" => d.w[d.key] = world[me] \/ \E j \in DOMAIN log : j > b /\ log[j].event = "SELF"
    BY <1>2 DEF SelfTrue, TruthInv, c, d
  <2> QED
    BY <1>2, <1>5, <2>1 DEF d
<1> HIDE DEF b
<1> QED
  BY <1>1, <1>4, <1>5, <1>6, <1>7, <1>8 DEF TruthInv

LEMMA TruthStep == SyncInv /\ TruthInv /\ [Next]_vars => TruthInv'
<1> SUFFICES ASSUME SyncInv, TruthInv, [Next]_vars PROVE TruthInv'
  OBVIOUS
<1>1. CASE UNCHANGED vars \/ StartSweeper \/ StopSweeper
  <2>1. UNCHANGED <<world, outage, log, applied, missed, cache, now, stray, converted>>
    BY <1>1 DEF vars, worldVars, cacheVars, StartSweeper, StopSweeper
  <2> QED
    BY <2>1, StillTrue
<1>2. CASE Next /\ ~(StartSweeper \/ StopSweeper)
  BY <1>2, GuildChangesTrue, ChannelChangesTrue, ThreadChangesTrue, MessageChangesTrue,
     RoleChangesTrue, MemberChangesTrue, UserChangesTrue, PresenceChangesTrue, VoiceChangesTrue,
     ExpressionChangesTrue, AgainTrue, OutageTrue, ReturnTrue, JoinTrue, IdentifyTrue,
     ResumeTrue, RouteTrue, SweptTrue, TickTrue DEF Next
<1> QED
  BY <1>1, <1>2

LEMMA AlwaysTrue == Spec => [](SyncInv /\ TruthInv)
<1>1. Init => SyncInv /\ TruthInv
  BY SyncInit, TruthInit
<1>2. SyncInv /\ TruthInv /\ [Next]_vars => (SyncInv /\ TruthInv)'
  BY SyncStep, TruthStep
<1> QED
  BY <1>1, <1>2, PTL DEF Spec

\* When all was applied nothing later says otherwise.
LEMMA NoneLater ==
  ASSUME SyncInv, Synced
  PROVE  \A k : /\ ~Ended(log, k, applied) /\ ~Raised(log, k, applied)
                /\ \A x : ~Renewed(log, k, x, applied)
<1>1. \A i \in DOMAIN log : ~(i > applied)
  BY DEF SyncInv, LogInv, Synced
<1> QED
  BY <1>1 DEF Ended, Raised, Renewed

\* Once every dispatch of the session is applied, whatever was replayed, lost or left unsaid
\* in an outage and whatever expired meanwhile, the client's own user is as Discord knows it,
\* and each entity in the cache exists and is as it is there, except what changed and no
\* dispatch has told of since, and the messages of a thread that is not cached.
THEOREM CacheTellsTheTruth == Spec => []InSync
<1>1. SyncInv /\ TruthInv => InSync
  <2> SUFFICES ASSUME SyncInv, TruthInv, Synced
               PROVE  /\ cache.self \in {world[k] : k \in In("self", Things)}
                      /\ \A scope \in Scopes : \A k \in Live(cache.stores[scope], now) \ (missed \cup stray) :
                           Exists(k) /\ Value(cache.stores[scope], k) \in {world[k], Stub}
    BY DEF InSync
  <2>1. cache.self \in {world[k] : k \in In("self", Things)}
    <3>1. PICK me : me \in In("self", Things)
      BY FoundingAssumption
    <3>2. \A j \in DOMAIN log : ~(j > applied)
      BY DEF SyncInv, LogInv, Synced
    <3>3. cache.self = world[me]
      BY <3>1, <3>2 DEF TruthInv, SelfTrue
    <3> QED
      BY <3>1, <3>3
  <2>2. ASSUME NEW scope \in Scopes, NEW k \in Live(cache.stores[scope], now) \ (missed \cup stray)
        PROVE  Exists(k) /\ Value(cache.stores[scope], k) \in {world[k], Stub}
    <3>1. k \in Cached /\ Scope[k] = scope
      BY <2>2, StoreOf DEF TruthInv, Live, In, Cached
    <3>2. IsHeld(cache, k, now) /\ Value(cache.stores[scope], k) = Held(cache, k)
      BY <2>2, <3>1 DEF IsHeld, Held
    <3>3. HeldTrue(world, log, applied, cache, now, k)
      BY <2>2, <3>1 DEF TruthInv
    <3>4. Exists(k)
      BY <3>2, <3>3, NoneLater DEF HeldTrue, Exists
    <3>5. Held(cache, k) = Stub \/ \A x \in Parts : Part(Held(cache, k), x) = Part(world[k], x)
      BY <3>2, <3>3, <3>4, NoneLater DEF HeldTrue, Exists
    <3>6. Held(cache, k) \in Nat /\ world[k] \in Nat
      BY <3>1, <3>2, <3>4, VersionsAre DEF TruthInv, Typed, WorldOK, Cached, Exists
    <3> QED
      BY <3>2, <3>4, <3>5, <3>6, PartsMakeTheWhole
  <2> QED
    BY <2>1, <2>2
<1> QED
  BY <1>1, AlwaysTrue, PTL

\* And the cache is whole: what exists of a guild, a channel, a role, an emoji, a sticker, a
\* voice state or an active thread is in it, where the policy keeps everything, except what
\* no dispatch has told of since it changed, and a thread that CHANNEL_UPDATE took away.
THEOREM CacheIsWhole == Spec => []NothingLost
<1>1. SyncInv /\ TruthInv => NothingLost
  <2> SUFFICES ASSUME SyncInv, TruthInv, Synced, NEW k \in Things \ (missed \cup converted),
                      Exists(k),
                      \/ Scope[k] \in {"guilds", "channels", "roles", "emojis", "stickers", "voiceStates"}
                      \/ Scope[k] = "threads" /\ ~Archived(world[k]),
                      KeepsAll(Policies[cache.policy][Scope[k]])
               PROVE  k \in Live(cache.stores[Scope[k]], now)
    BY DEF NothingLost
  <2>1. Scope[k] \in Full
    BY DEF Full
  <2>2. k \in Cached /\ KeptWhole(cache, k)
    BY <2>1 DEF Full, Cached, Scopes, KeptWhole
  <2>3. HeldWhole(world, log, applied, cache, now, k)
    BY <2>2 DEF TruthInv
  <2>4. Described(world, k)
    BY DEF Described, Exists
  <2> QED
    BY <2>2, <2>3, <2>4, NoneLater DEF HeldWhole, IsHeld
<1> QED
  BY <1>1, AlwaysTrue, PTL

-----------------------------------------------------------------------------
(* What is evicted stays out.                                              *)

LEMMA ChannelsSent ==
  ASSUME NEW d, Proper(d), d.event = "GUILD_CREATE"
  PROVE  /\ IsFiniteSet(DOMAIN d.w) /\ DOMAIN d.w \subseteq Things /\ d.key \in In("guilds", Things)
         /\ \A k \in In("channels", DOMAIN d.w) : Scope[k] = "channels" /\ GroupOf(k) = d.key
         /\ \A k \in In("threads", DOMAIN d.w) :
              Scope[k] = "threads" /\ GroupOf(k) \in DOMAIN d.w /\ Scope[GroupOf(k)] = "channels"
<1>1. IsFiniteSet(DOMAIN d.w) /\ DOMAIN d.w \subseteq Things /\ d.key \in In("guilds", Things)
  BY ProperValues DEF Proper, WellShaped
<1>2. \A k \in DOMAIN d.w :
        /\ Scope[k] = "channels" => Guild[k] = d.key
        /\ Scope[k] = "threads" => Parent[k] \in DOMAIN d.w /\ Parent[k] \in In("channels", Things)
  BY <1>1, Places DEF Proper, WellShaped
<1> QED
  BY <1>1, <1>2 DEF In, GroupOf

LEMMA ReconcileChannelsSettles ==
  ASSUME NEW c, NEW t \in Nat \ {0}, Good(c, t), NEW d, Proper(d), d.event = "GUILD_CREATE"
  PROVE  LET e == ReconcileChannels(c, d.key, d.w, t)
         IN /\ Good(e, t) /\ e.policy = c.policy /\ SettledChannels(e, d.key, d.w, t)
            /\ \A x \in Scopes \ {"channels", "threads", "messages"} : e.stores[x] = c.stores[x]
<1> DEFINE w == d.w
           g == d.key
           xs == In("channels", DOMAIN w)
           ys == In("threads", DOMAIN w)
           channels == Group(c.stores["channels"], g, t)
           threads == {x \in Here(c, "threads", t) : Guild[x] = g}
           ks1 == channels \ DOMAIN w
           ks2 == threads \ DOMAIN w
           c1 == OnStore(c, "channels", Looked(c.stores["channels"], g, t))
           c2 == PutAll(c1, w, xs, t)
           c3 == PutAll(c2, w, ys, t)
           c4 == EvictChannels(c3, ks1, t)
           e == EvictChannels(c4, ks2, t)
<1>0. e = ReconcileChannels(c, g, w, t)
  BY DEF ReconcileChannels
<1>1. "channels" \in Scopes /\ "threads" \in Scopes /\ "messages" \in Scopes
  BY DEF Scopes
<1>2. CacheInv(c, t) /\ \A scope \in Scopes : Keys(c.stores[scope]) \subseteq In(scope, Things)
  BY DEF Good
<1>3. Swapped(c, e, xs \cup ys, (Of("channels", g) \cup Of("threads", g)) \ DOMAIN w, w, t)
  <2> HIDE DEF e
  <2> QED
    BY <1>0, ReconcileChannelsDoes
<1>4. /\ IsFiniteSet(DOMAIN w) /\ DOMAIN w \subseteq Things /\ g \in In("guilds", Things)
      /\ \A k \in xs : Scope[k] = "channels" /\ GroupOf(k) = g
      /\ \A k \in ys : Scope[k] = "threads" /\ GroupOf(k) \in DOMAIN w /\ Scope[GroupOf(k)] = "channels"
  BY ChannelsSent
<1>5. IsFiniteSet(xs) /\ IsFiniteSet(ys)
  BY <1>4, Sent
<1>6. /\ \A k \in ks1 : Scope[k] = "channels" /\ k \notin DOMAIN w
      /\ \A k \in ks2 : Scope[k] = "threads" /\ k \notin DOMAIN w
  BY <1>1, <1>2 DEF Group, Here, Live, In
<1>7. xs \subseteq DOMAIN w /\ ys \subseteq DOMAIN w /\ Scope[g] = "guilds"
  BY <1>4 DEF In
<1> HIDE DEF w, g, xs, ys, ks1, ks2
<1>8. CacheInv(c1, t) /\ Only(c, c1, "channels") /\ Current(c1.stores["channels"], g, t)
  BY <1>1, <1>2, LookedIs
<1> HIDE DEF c1
<1>9. /\ CacheInv(c2, t) /\ Only(c1, c2, "channels") /\ Stays(c2, "channels", w, xs, t)
      /\ Gains(Policies[c1.policy]["channels"], c1.stores["channels"].entries,
               c2.stores["channels"].entries, w, t, xs)
  BY <1>1, <1>4, <1>5, <1>8, PutAllStays
<1>10. Current(c2.stores["channels"], g, t)
  <2> DEFINE p == Policies[c1.policy]["channels"]
             s1 == c1.stores["channels"]
             s2 == c2.stores["channels"]
  <2>1. PolicyOK(p) /\ StoreInv(p, s1, t)
    BY <1>1, <1>8, StoreOfCache
  <2>2. p = Policies[c2.policy]["channels"]
    BY <1>9 DEF Only
  <2>3. StoreInv(p, s2, t)
    <3> HIDE DEF p, c2
    <3> QED
      BY <1>1, <1>9, <2>2, StoreOfCache
  <2> HIDE DEF p, s1, s2
  <2>4. Gains(p, s1.entries, s2.entries, w, t, xs) /\ Current(s1, g, t)
    BY <1>8, <1>9 DEF p, s1, s2
  <2>5. Current(s2, g, t)
    BY <2>1, <2>3, <2>4, FreshGains
  <2> QED
    BY <2>5 DEF s2
<1> HIDE DEF c2
<1>11. CacheInv(c3, t) /\ Only(c2, c3, "threads") /\ Stays(c3, "threads", w, ys, t)
  BY <1>1, <1>4, <1>5, <1>9, PutAllStays
<1> HIDE DEF c3
<1>12. /\ Stays(c3, "channels", w, xs, t) /\ Current(c3.stores["channels"], g, t)
       /\ c3.policy = c.policy
       /\ \A x \in Scopes \ {"channels", "threads"} : c3.stores[x] = c.stores[x]
  BY <1>1, <1>8, <1>9, <1>10, <1>11, StaysWhere DEF Only
<1>13. /\ Lost(c3, c4, t)
       /\ \A x \in Scopes \ {"channels", "threads", "messages"} : c4.stores[x] = c3.stores[x]
       /\ \A scope \in {"channels", "threads"} : \A u, zs :
            /\ IsFiniteSet(zs) /\ \A k \in zs : Scope[k] = scope /\ k \notin ks1 /\ GroupOf(k) \notin ks1
            /\ Stays(c3, scope, u, zs, t)
            => Stays(c4, scope, u, zs, t)
  BY <1>11, EvictChannelsLoses
<1>14. CacheInv(c4, t)
  BY <1>13 DEF Lost
<1> HIDE DEF c4
<1>15. /\ Lost(c4, e, t)
       /\ \A x \in Scopes \ {"channels", "threads", "messages"} : e.stores[x] = c4.stores[x]
       /\ \A scope \in {"channels", "threads"} : \A u, zs :
            /\ IsFiniteSet(zs) /\ \A k \in zs : Scope[k] = scope /\ k \notin ks2 /\ GroupOf(k) \notin ks2
            /\ Stays(c4, scope, u, zs, t)
            => Stays(e, scope, u, zs, t)
  BY <1>14, EvictChannelsLoses
<1> HIDE DEF e
<1>16. /\ \A k \in xs : Scope[k] = "channels" /\ k \notin ks1 /\ GroupOf(k) \notin ks1
                        /\ k \notin ks2 /\ GroupOf(k) \notin ks2
       /\ \A k \in ys : Scope[k] = "threads" /\ k \notin ks1 /\ GroupOf(k) \notin ks1
                        /\ k \notin ks2 /\ GroupOf(k) \notin ks2
  BY <1>4, <1>6, <1>7
<1>17. Stays(c4, "channels", w, xs, t) /\ Stays(c4, "threads", w, ys, t)
  BY <1>5, <1>11, <1>12, <1>13, <1>16
<1>18. Stays(e, "channels", w, xs, t) /\ Stays(e, "threads", w, ys, t)
  BY <1>5, <1>15, <1>16, <1>17
<1>19. Current(e.stores["channels"], g, t)
  <2>1. Lost(c3, e, t)
    BY <1>13, <1>15, LostThen
  <2> QED
    BY <1>1, <1>11, <1>12, <2>1, FreshLost
<1>20. /\ e.policy = c.policy
       /\ \A x \in Scopes \ {"channels", "threads", "messages"} : e.stores[x] = c.stores[x]
  BY <1>12, <1>13, <1>15 DEF Lost
<1>21. /\ Good(e, t)
       /\ \A k \in Cached : k \in (Of("channels", g) \cup Of("threads", g)) \ DOMAIN w => ~IsHeld(e, k, t)
  BY <1>3 DEF Swapped, Did
<1>22. CacheInv(e, t) /\ \A scope \in Scopes : Keys(e.stores[scope]) \subseteq In(scope, Things)
  BY <1>21 DEF Good
<1>23. Group(e.stores["channels"], g, t) \subseteq DOMAIN w
  <2> SUFFICES ASSUME NEW k \in Group(e.stores["channels"], g, t), k \notin DOMAIN w PROVE FALSE
    OBVIOUS
  <2>1. k \in Live(e.stores["channels"], t) /\ k \in Indexed(e.stores["channels"], g)
    BY DEF Group
  <2>2. k \in Keys(e.stores["channels"]) /\ GroupOf(k) = g
    <3>1. Indexed(e.stores["channels"], g)
            = {x \in Keys(e.stores["channels"]) : g # NoGroup /\ GroupOf(x) = g}
      BY <1>1, <1>22, IndexedGroup
    <3> QED
      BY <2>1, <3>1
  <2>3. k \in Things /\ Scope[k] = "channels"
    BY <1>1, <1>22, <2>2 DEF In
  <2>4. Guild[k] = g
    BY <2>2, <2>3 DEF GroupOf
  <2>5. k \in Of("channels", g) /\ k \in Cached /\ IsHeld(e, k, t)
    BY <1>1, <2>1, <2>3, <2>4 DEF Of, In, Cached, IsHeld
  <2> QED
    BY <1>21, <2>5
<1>24. {x \in Here(e, "threads", t) : Guild[x] = g} \subseteq DOMAIN w
  <2> SUFFICES ASSUME NEW k \in Here(e, "threads", t), Guild[k] = g, k \notin DOMAIN w PROVE FALSE
    OBVIOUS
  <2>1. k \in Live(e.stores["threads"], t)
    BY DEF Here
  <2>2. k \in Things /\ Scope[k] = "threads"
    BY <1>1, <1>22, <2>1 DEF In, Live
  <2>3. k \in Of("threads", g) /\ k \in Cached /\ IsHeld(e, k, t)
    BY <1>1, <2>1, <2>2 DEF Of, In, Cached, IsHeld
  <2> QED
    BY <1>21, <2>3
<1>25. SettledChannels(e, g, w, t)
  BY <1>18, <1>19, <1>23, <1>24 DEF SettledChannels, xs, ys
<1> QED
  BY <1>0, <1>20, <1>21, <1>25 DEF g, w

-----------------------------------------------------------------------------
(* The same payload twice.                                                 *)

LEMMA ChannelPinsUpdateTwice ==
  ASSUME NEW c, NEW t \in Nat \ {0}, Good(c, t), Typed(c, t), NEW d, Proper(d),
         d.event = "CHANNEL_PINS_UPDATE"
  PROVE  LET e == ChannelPinsUpdate(c, d, t) IN ChannelPinsUpdate(e, d, t) = e
<1> DEFINE k == d.key
           In1(b) == IF k \in Here(b, "channels", t) THEN "channels" ELSE "threads"
           Look1(b) == OnStore(b, "channels", Got(b.stores["channels"], k, t))
           Look2(b) == OnStore(Look1(b), In1(b), Got(Look1(b).stores[In1(b)], k, t))
           V(b) == WithPin(Value(b.stores[In1(b)], k), Pin(d.w[k]))
           ks == {k}
           e == ChannelPinsUpdate(c, d, t)
<1>1. /\ k \in Cached /\ Scope[k] \in {"channels", "threads"} /\ Scope[k] \in Scopes /\ t \in Nat
      /\ k \in In("channels", Things) \cup In("threads", Things) /\ CacheInv(c, t)
      /\ "channels" \in Scopes /\ "threads" \in Scopes
  BY DEF Proper, WellShaped, In, Scopes, Good, Cached
<1>2. \A b : ChannelPinsUpdate(b, d, t) =
              IF k \in Here(b, In1(b), t) /\ Pinned(d) THEN Assign(Look2(b), In1(b), ks, V(b)) ELSE Look2(b)
  BY DEF ChannelPinsUpdate, Pinned
<1>3. \A b : Good(b, t) =>
        /\ Good(Look2(b), t)
        /\ k \in Here(b, In1(b), t) <=> IsHeld(b, k, t)
        /\ IsHeld(b, k, t) => In1(b) = Scope[k] /\ Look2(b) = b
        /\ ~IsHeld(b, k, t) => \A x \in {"channels", "threads"} : k \notin Keys(Look2(b).stores[x])
  BY <1>1, PinsSought
<1>4. \A x \in ks : x = k
  OBVIOUS
<1> HIDE DEF In1, Look2, ks
<1>5. CASE IsHeld(c, k, t) /\ Pinned(d)
  <2> DEFINE h == Held(c, k)
             v == WithPin(h, Pin(d.w[k]))
  <2>1. h \in 0 .. 7 /\ d.w[k] \in 0 .. 7
    BY <1>1, <1>5, VersionsAre DEF Typed, Proper, Pinned
  <2>2. v \in 0 .. 7 /\ Part(v, "lo") = Part(d.w[k], "lo")
    <3>1. "lo" \in Parts
      BY DEF Parts
    <3> QED
      BY <2>1, <3>1, ChangesPart
  <2>3. V(c) = v
    BY <1>3, <1>5 DEF Held
  <2>4. e = Assign(c, Scope[k], ks, v)
    BY <1>2, <1>3, <1>5, <2>3
  <2>5. k \in Keys(c.stores[Scope[k]]) /\ k \in Live(c.stores[Scope[k]], t) /\ k \in ks
    BY <1>5 DEF IsHeld, Live, ks
  <2> HIDE DEF v, h
  <2>6. Good(e, t)
    <3> DEFINE w == [x \in ks |-> v]
    <3>1. ks \subseteq Live(c.stores[Scope[k]], t) /\ \A x \in ks : w[x] = v
      BY <1>4, <2>5
    <3> HIDE DEF w
    <3>2. Did(c, e, ks, {}, w, t)
      BY <1>1, <2>4, <3>1, AssignDoes
    <3> QED
      BY <3>2 DEF Did
  <2> HIDE DEF e
  <2>7. /\ CacheInv(e, t) /\ Keys(e.stores[Scope[k]]) = Keys(c.stores[Scope[k]])
        /\ Live(e.stores[Scope[k]], t) = Live(c.stores[Scope[k]], t)
        /\ \A x \in Keys(c.stores[Scope[k]]) :
             Value(e.stores[Scope[k]], x) = IF x \in ks THEN v ELSE Value(c.stores[Scope[k]], x)
    BY <1>1, <2>4, AssignIs
  <2>8. IsHeld(e, k, t) /\ Held(e, k) = v
    BY <2>5, <2>7 DEF IsHeld, Held
  <2>9. V(e) = v
    <3>1. WithPin(v, Pin(d.w[k])) = v
      BY <2>1, <2>2, ChangesOnce
    <3> QED
      BY <1>3, <2>6, <2>8, <3>1 DEF Held
  <2>10. ChannelPinsUpdate(e, d, t) = Assign(e, Scope[k], ks, v)
    BY <1>2, <1>3, <1>5, <2>6, <2>8, <2>9
  <2>11. \A x \in ks \cap Keys(e.stores[Scope[k]]) : Value(e.stores[Scope[k]], x) = v
    BY <2>7
  <2>12. Assign(e, Scope[k], ks, v) = e
    BY <1>1, <2>7, <2>11, AssignSame
  <2> QED
    BY <2>10, <2>12 DEF e
<1>6. CASE IsHeld(c, k, t) /\ ~Pinned(d)
  <2>1. e = c
    BY <1>2, <1>3, <1>6
  <2> HIDE DEF e
  <2> QED
    BY <2>1 DEF e
<1>7. CASE ~IsHeld(c, k, t)
  <2>1. e = Look2(c)
    BY <1>2, <1>3, <1>7
  <2> HIDE DEF e
  <2>2. /\ Good(e, t) /\ CacheInv(e, t)
        /\ \A x \in {"channels", "threads"} : k \notin Keys(e.stores[x])
    BY <1>3, <1>7, <2>1 DEF Good
  <2>3. \A x \in {"channels", "threads"} : k \notin Here(e, x, t) /\ k \notin Live(e.stores[x], t)
    BY <2>2 DEF Here, Live
  <2>4. ~IsHeld(e, k, t) /\ In1(e) = "threads"
    BY <1>1, <2>3 DEF IsHeld, In1
  <2>5. \A x \in {"channels", "threads"} : OnStore(e, x, Got(e.stores[x], k, t)) = e
    BY <1>1, <2>2, GotNone
  <2>6. Look2(e) = e
    BY <2>4, <2>5 DEF Look2
  <2>7. ChannelPinsUpdate(e, d, t) = e
    BY <1>2, <1>3, <2>2, <2>4, <2>6
  <2> QED
    BY <2>7 DEF e
<1> QED
  BY <1>5, <1>6, <1>7

LEMMA ThreadMembersUpdateTwice ==
  ASSUME NEW c, NEW t \in Nat \ {0}, Good(c, t), Typed(c, t), NEW d, Proper(d),
         d.event = "THREAD_MEMBERS_UPDATE"
  PROVE  LET e == ThreadMembersUpdate(c, d, t) IN ThreadMembersUpdate(e, d, t) = e
<1> DEFINE k == d.key
           h == Value(c.stores["threads"], k)
           v == NewCount(h, Count(d.w[k]))
           ks == {k}
           w == [x \in ks |-> v]
           e == ThreadMembersUpdate(c, d, t)
<1>1. /\ k \in Cached /\ Scope[k] = "threads" /\ "threads" \in Scopes /\ t \in Nat
      /\ k \in DOMAIN d.w /\ CacheInv(c, t)
  BY DEF Proper, WellShaped, Alone, In, Scopes, Good
<1>2. d.w[k] \in 0 .. 7
  BY <1>1, VersionsAre DEF Proper
<1>3. CASE k \in Live(c.stores["threads"], t)
  <2>1. h \in 0 .. 7
    <3>1. IsHeld(c, k, t) /\ Held(c, k) = h
      BY <1>1, <1>3 DEF IsHeld, Held
    <3> QED
      BY <1>1, <3>1, VersionsAre DEF Typed
  <2>2. v \in 0 .. 7 /\ Part(v, "mid") = Part(d.w[k], "mid")
    <3>1. "mid" \in Parts
      BY DEF Parts
    <3> QED
      BY <1>2, <2>1, <3>1, ChangesPart
  <2>3. e = Put(c, k, v, t)
    BY <1>3 DEF ThreadMembersUpdate
  <2>4. w[k] = v
    OBVIOUS
  <2> HIDE DEF v, e, w
  <2>5. e = Put(c, k, w[k], t)
    BY <2>3, <2>4
  <2>6. CacheInv(e, t) /\ Stays(e, Scope[k], w, {k}, t)
    BY <1>1, <2>5, PutOnce
  <2>7. CASE k \in Live(e.stores["threads"], t)
    <3>0. k \in Keys(e.stores[Scope[k]])
      BY <1>1, <2>7 DEF Live
    <3>1. Value(e.stores["threads"], k) = v
      <4> HIDE DEF k
      <4>0. t \in Nat \ {0} /\ Scope[k] \in Scopes
        BY <1>1
      <4>1. Value(e.stores[Scope[k]], k) = w[k]
        BY <2>6, <3>0, <4>0, StaysSaid
      <4> QED
        BY <1>1, <2>4, <4>1
    <3>2. NewCount(v, Count(d.w[k])) = v
      BY <1>2, <2>2, ChangesOnce
    <3>3. ThreadMembersUpdate(e, d, t) = Put(e, k, w[k], t)
      BY <2>4, <2>7, <3>1, <3>2 DEF ThreadMembersUpdate
    <3>4. Put(e, k, w[k], t) = e
      BY <1>1, <2>6, PutTwice
    <3> QED
      BY <3>3, <3>4 DEF e
  <2>8. CASE k \notin Live(e.stores["threads"], t)
    <3>1. k \notin Keys(e.stores["threads"])
      <4> HIDE DEF k
      <4>1. t \in Nat \ {0} /\ Scope[k] \in Scopes /\ Scope[k] = "threads"
        BY <1>1
      <4>2. k \in Keys(e.stores[Scope[k]]) => k \in Live(e.stores[Scope[k]], t)
        BY <2>6, <4>1, StaysSaid
      <4> QED
        BY <2>8, <4>1, <4>2
    <3>2. OnStore(e, "threads", Got(e.stores["threads"], k, t)) = e
      BY <1>1, <2>6, <3>1, GotNone
    <3> QED
      BY <2>8, <3>2 DEF ThreadMembersUpdate, e
  <2> QED
    BY <2>7, <2>8
<1>4. CASE k \notin Live(c.stores["threads"], t)
  <2> DEFINE gone == ks \ Live(c.stores["threads"], t)
  <2>1. e = Delete(c, "threads", gone) /\ k \in gone
    BY <1>4 DEF ThreadMembersUpdate, Got, Delete
  <2> HIDE DEF gone, e
  <2>2. CacheInv(e, t) /\ k \notin Keys(e.stores["threads"])
    BY <1>1, <2>1, DeleteIs
  <2>3. /\ OnStore(e, "threads", Got(e.stores["threads"], k, t)) = e
        /\ k \notin Live(e.stores["threads"], t)
    BY <1>1, <2>2, GotNone
  <2> QED
    BY <2>3 DEF ThreadMembersUpdate, e
<1> QED
  BY <1>3, <1>4

LEMMA GuildCreateTwice ==
  ASSUME NEW c, NEW t \in Nat \ {0}, Good(c, t), NEW d, Proper(d), d.event = "GUILD_CREATE"
  PROVE  LET e == GuildCreate(c, d, t) IN GuildCreate(e, d, t) = e
<1> DEFINE g == d.key
           w == d.w
           D == DOMAIN w
           c0 == Put(c, g, w[g], t)
           c1 == Reconcile(c0, g, "roles", w, t)
           c2 == ReconcileChannels(c1, g, w, t)
           c3 == Reconcile(c2, g, "voiceStates", w, t)
           c4 == Reconcile(c3, g, "emojis", w, t)
           c5 == Reconcile(c4, g, "stickers", w, t)
           c6 == PutAll(c5, w, In("presences", D), t)
           c7 == PutAll(c6, w, In("users", D), t)
           e == PutAll(c7, w, In("members", D), t)
<1>0. \A x : GuildCreate(x, d, t)
        = PutAll(PutAll(PutAll(
            Reconcile(Reconcile(Reconcile(ReconcileChannels(Reconcile(Put(x, g, w[g], t),
                        g, "roles", w, t), g, w, t), g, "voiceStates", w, t),
                        g, "emojis", w, t), g, "stickers", w, t),
            w, In("presences", D), t), w, In("users", D), t), w, In("members", D), t)
  BY DEF GuildCreate, UpsertUsers
<1>1. /\ g \in In("guilds", Things) /\ g \in D /\ g \in Cached /\ Scope[g] = "guilds"
      /\ t \in Nat /\ IsFiniteSet(D) /\ "guilds" \in Scopes /\ Scope[g] \in Scopes
  BY ChannelsSent DEF Proper, WellShaped, In, Cached, Scopes
<1>2. /\ "roles" \in Scopes /\ "channels" \in Scopes /\ "threads" \in Scopes
      /\ "voiceStates" \in Scopes /\ "emojis" \in Scopes /\ "stickers" \in Scopes
      /\ "presences" \in Scopes /\ "users" \in Scopes /\ "members" \in Scopes
      /\ "messages" \in Scopes
  BY DEF Scopes
<1>3. Good(c0, t) /\ CacheInv(c, t)
  <2>1. Did(c, Put(c, d.key, d.w[d.key], t), {d.key}, {}, d.w, t)
    BY <1>1, PutOne
  <2> QED
    BY <2>1 DEF Did, Good
<1>4. /\ CacheInv(c0, t) /\ Stays(c0, "guilds", w, {g}, t)
      /\ \A x \in Scopes : x # "guilds" => c0.stores[x] = c.stores[x]
  <2>1. CacheInv(c0, t) /\ Only(c, c0, Scope[g]) /\ Stays(c0, Scope[g], w, {g}, t)
    BY <1>1, <1>3, PutOnce
  <2> HIDE DEF c0
  <2> QED
    BY <1>1, <2>1 DEF Only
<1> HIDE DEF c0
<1>5. Good(c1, t)
  <2>1. Did(c0, Reconcile(c0, g, "roles", d.w, t), In("roles", DOMAIN d.w), Of("roles", g) \ DOMAIN d.w, d.w, t)
    BY <1>1, <1>3, ReconcileDoes
  <2> QED
    BY <2>1 DEF Did
<1>6. CacheInv(c1, t) /\ Only(c0, c1, "roles") /\ Settled(c1, g, "roles", w, t)
  BY <1>1, <1>2, <1>4, ReconcileSettles
<1> HIDE DEF c1
<1>7. /\ Good(c2, t) /\ c2.policy = c1.policy /\ SettledChannels(c2, g, w, t)
      /\ \A x \in Scopes \ {"channels", "threads", "messages"} : c2.stores[x] = c1.stores[x]
  BY <1>5, ReconcileChannelsSettles
<1>8. CacheInv(c2, t)
  BY <1>7 DEF Good
<1> HIDE DEF c2, g, w
<1>9. CacheInv(c3, t) /\ Only(c2, c3, "voiceStates") /\ Settled(c3, g, "voiceStates", w, t)
  BY <1>1, <1>2, <1>8, ReconcileSettles
<1> HIDE DEF c3
<1>10. CacheInv(c4, t) /\ Only(c3, c4, "emojis") /\ Settled(c4, g, "emojis", w, t)
  BY <1>1, <1>2, <1>9, ReconcileSettles
<1> HIDE DEF c4
<1>11. CacheInv(c5, t) /\ Only(c4, c5, "stickers") /\ Settled(c5, g, "stickers", w, t)
  BY <1>1, <1>2, <1>10, ReconcileSettles
<1> HIDE DEF c5
<1>12. CacheInv(c6, t) /\ Only(c5, c6, "presences") /\ Stays(c6, "presences", w, In("presences", D), t)
  BY <1>1, <1>2, <1>11, SeveralOnce
<1> HIDE DEF c6
<1>13. CacheInv(c7, t) /\ Only(c6, c7, "users") /\ Stays(c7, "users", w, In("users", D), t)
  BY <1>1, <1>2, <1>12, SeveralOnce
<1> HIDE DEF c7
<1>14. CacheInv(e, t) /\ Only(c7, e, "members") /\ Stays(e, "members", w, In("members", D), t)
  BY <1>1, <1>2, <1>13, SeveralOnce
<1> HIDE DEF e
\* Each store is as the step that is about it left it.
<1>15. /\ e.policy = c7.policy /\ e.policy = c6.policy /\ e.policy = c5.policy
       /\ e.policy = c4.policy /\ e.policy = c3.policy /\ e.policy = c2.policy
       /\ e.policy = c1.policy /\ e.policy = c0.policy
  BY <1>6, <1>7, <1>9, <1>10, <1>11, <1>12, <1>13, <1>14 DEF Only
<1>16. /\ e.stores["users"] = c7.stores["users"]
       /\ e.stores["presences"] = c6.stores["presences"]
       /\ e.stores["stickers"] = c5.stores["stickers"]
       /\ e.stores["emojis"] = c4.stores["emojis"]
       /\ e.stores["voiceStates"] = c3.stores["voiceStates"]
       /\ e.stores["channels"] = c2.stores["channels"]
       /\ e.stores["threads"] = c2.stores["threads"]
       /\ e.stores["roles"] = c1.stores["roles"]
       /\ e.stores["guilds"] = c0.stores["guilds"]
  BY <1>2, <1>1, <1>6, <1>7, <1>9, <1>10, <1>11, <1>12, <1>13, <1>14 DEF Only
<1>17. /\ Stays(e, "users", w, In("users", D), t) /\ Stays(e, "presences", w, In("presences", D), t)
       /\ Stays(e, "guilds", w, {g}, t)
  BY <1>4, <1>12, <1>13, <1>15, <1>16, StaysWhere
<1>18. /\ Settled(e, g, "stickers", w, t) /\ Settled(e, g, "emojis", w, t)
       /\ Settled(e, g, "voiceStates", w, t) /\ Settled(e, g, "roles", w, t)
  BY <1>6, <1>9, <1>10, <1>11, <1>15, <1>16, SettledWhere
<1>19. SettledChannels(e, g, w, t)
  BY <1>7, <1>15, <1>16, SettledChannelsWhere
<1>20. Put(e, g, w[g], t) = e
  <2>1. Stays(e, Scope[g], w, {g}, t)
    BY <1>1, <1>17
  <2> QED
    BY <1>1, <1>14, <2>1, PutTwice
<1>21. /\ Reconcile(e, g, "stickers", w, t) = e /\ Reconcile(e, g, "emojis", w, t) = e
       /\ Reconcile(e, g, "voiceStates", w, t) = e /\ Reconcile(e, g, "roles", w, t) = e
  BY <1>1, <1>2, <1>14, <1>18, ReconcileAgain
<1>22. ReconcileChannels(e, g, w, t) = e
  BY <1>1, <1>14, <1>19, ReconcileChannelsAgain
<1>23. /\ PutAll(e, w, In("presences", D), t) = e /\ PutAll(e, w, In("users", D), t) = e
       /\ PutAll(e, w, In("members", D), t) = e
  BY <1>1, <1>2, <1>14, <1>17, SeveralTwice
<1>24. GuildCreate(e, d, t) = e
  BY <1>0, <1>20, <1>21, <1>22, <1>23
<1>25. GuildCreate(c, d, t) = e
  BY <1>0 DEF e, c7, c6, c5, c4, c3, c2, c1, c0
<1> QED
  BY <1>24, <1>25

\* Of the messages that a dispatch carries each is put on its own.
LEMMA RaisesMessage ==
  ASSUME NEW d, Proper(d), NEW k \in Raises(d), Scope[k] = "messages"
  PROVE  /\ k = d.key
         /\ d.event \in {"GUILD_UPDATE", "GUILD_ROLE", "THREAD", "PRESENCE_UPDATE", "CHANNEL_CREATE"}
                          \cup WithAuthor
<1>1. k \in DOMAIN d.w /\ d.event \notin PatchEvents
  BY DEF Raises
<1>2. d.event \in Events
  BY DEF Proper, Payload
<1>3. d.event \notin {"GUILD_CREATE", "GUILD_DELETE", "GUILD_UNAVAILABLE", "CHANNEL_DELETE",
                      "THREAD_DELETE", "GUILD_ROLE_DELETE", "MESSAGE_DELETE"}
  BY <1>1 DEF Proper, WellShaped
<1>4. d.event \notin {"USER_SEEN", "GUILD_MEMBER_REMOVE", "VOICE_STATE_UPDATE"}
  BY <1>1 DEF Proper, WellShaped, In
<1>5. d.event \notin {"THREAD_LIST_SYNC", "GUILD_EMOJIS_UPDATE", "GUILD_STICKERS_UPDATE"}
  BY <1>1 DEF Proper, WellShaped, In, Of
<1>6. d.event \notin {"SELF", "CHANNEL_UPDATE"}
  BY <1>1 DEF Proper, WellShaped, In, Alone
<1>7. d.event \in {"GUILD_UPDATE", "GUILD_ROLE", "THREAD", "PRESENCE_UPDATE", "CHANNEL_CREATE"}
                    \cup WithAuthor
  BY <1>1, <1>2, <1>3, <1>4, <1>5, <1>6 DEF Events, WithAuthor, PatchEvents
<1> QED
  BY <1>1, <1>7 DEF Proper, WellShaped, Alone, WithAuthor

LEMMA HandleAccepting ==
  ASSUME NEW c, NEW t \in Nat \ {0}, Good(c, t), Typed(c, t), NEW d, Proper(d), Accepting(c, t)
  PROVE  Accepting(Handle(c, d, t), t)
<1> DEFINE e == Handle(c, d, t)
<1>1. Does(c, e, d, t)
  BY HandleDoes
<1>2. CacheInv(c, t) /\ IsFiniteSet(DOMAIN d.w)
  BY DEF Good, Proper, Payload
<1>3. /\ d.event \in {"GUILD_UPDATE", "GUILD_ROLE", "THREAD", "PRESENCE_UPDATE", "CHANNEL_CREATE"}
           => e = Put(c, d.key, d.w[d.key], t)
      /\ d.event \in {"MEMBER", "MESSAGE_CREATE"} => e = Put(UpsertUsers(c, d.w, t), d.key, d.w[d.key], t)
  BY DEF Handle, GuildUpdate, RoleUpsert, ThreadUpsert, PresenceUpdate, ChannelCreate, MemberPut,
         MessageCreate
<1>4. d.event = "MESSAGE_UPDATE" => \E v : e = Put(UpsertUsers(c, d.w, t), d.key, v, t)
  <2>1. d.event = "MESSAGE_UPDATE" => e = MessageUpdate(c, d, t)
    BY DEF Handle
  <2> HIDE DEF e
  <2> QED
    BY <2>1 DEF MessageUpdate
<1>5. "messages" \in Scopes
  BY DEF Scopes
<1> HIDE DEF e
<1>6. CacheInv(UpsertUsers(c, d.w, t), t)
  BY <1>2, UserSeenTwice
<1>7. Good(e, t) /\ e.policy = c.policy
  BY <1>1 DEF Does
<1> SUFFICES ASSUME NEW k \in Live(e.stores["messages"], t)
             PROVE  Value(e.stores["messages"], k) \in Policies[e.policy]["messages"].accepts
  BY DEF Accepting, e
<1>8. k \in Keys(e.stores["messages"]) /\ k \in Cached /\ Scope[k] = "messages" /\ IsHeld(e, k, t)
  BY <1>5, <1>7 DEF Live, Good, In, Cached, IsHeld
<1>9. DoesTo(c, e, d, t, k)
  BY <1>1, <1>8 DEF Does
<1>10. CASE k \in Raises(d)
  <2>1. PICK a, v : CacheInv(a, t) /\ e = Put(a, k, v, t)
    BY <1>2, <1>3, <1>4, <1>6, <1>8, <1>10, RaisesMessage DEF WithAuthor
  <2> QED
    BY <1>5, <1>8, <2>1, PutAccepted
<1>11. CASE k \notin Raises(d)
  <2>1. \A x \in Parts : ~Tells(d, k, x)
    <3>1. k \notin DOMAIN d.w
      <4>1. d.event \in PatchEvents => DOMAIN d.w \subseteq {d.key} /\ Scope[d.key] \in {"channels", "threads"}
        BY DEF Proper, WellShaped, PatchEvents, Alone, In
      <4> QED
        BY <1>5, <1>8, <1>11, <4>1 DEF Raises
    <3> QED
      BY <1>8, <3>1 DEF Tells
  <2>2. IsHeld(c, k, t) /\ Held(e, k) = Held(c, k)
    BY <1>8, <1>9, <1>11, <2>1 DEF DoesTo
  <2> QED
    BY <1>7, <1>8, <2>2 DEF Accepting, IsHeld, Held
<1> QED
  BY <1>10, <1>11

\* Every handler does nothing more when it is given the same payload again.
LEMMA HandleTwice ==
  ASSUME NEW c, NEW t \in Nat \ {0}, Good(c, t), Typed(c, t), NEW d, Proper(d), Accepting(c, t)
  PROVE  LET e == Handle(c, d, t) IN Handle(e, d, t) = e
<1>0. CacheInv(c, t) /\ IsFiniteSet(DOMAIN d.w) /\ t \in Nat
  BY DEF Good, Proper, Payload
<1>1. CASE d.event = "GUILD_CREATE"
  BY <1>1, GuildCreateTwice DEF Handle
<1>2. CASE d.event \in {"GUILD_UPDATE", "GUILD_ROLE", "THREAD", "PRESENCE_UPDATE", "CHANNEL_CREATE"}
  <2>1. \A x : Handle(x, d, t) = Put(x, d.key, d.w[d.key], t)
    BY <1>2 DEF Handle, GuildUpdate, RoleUpsert, ThreadUpsert, PresenceUpdate, ChannelCreate
  <2>2. Scope[d.key] \in Scopes
    BY <1>2 DEF Proper, WellShaped, Alone, Cached
  <2>3. Put(Put(c, d.key, d.w[d.key], t), d.key, d.w[d.key], t) = Put(c, d.key, d.w[d.key], t)
    BY <1>0, <2>2, AloneTwice
  <2> QED
    BY <2>1, <2>3
<1>3. CASE d.event = "GUILD_DELETE"
  BY <1>0, <1>3, GuildDeleteTwice DEF Handle
<1>4. CASE d.event = "GUILD_UNAVAILABLE"
  BY <1>4 DEF Handle
<1>5. CASE d.event = "CHANNEL_UPDATE"
  <2>1. Scope[d.key] = "channels"
    BY <1>5 DEF Proper, WellShaped, In
  <2> QED
    BY <1>0, <1>5, <2>1, ChannelUpdateTwice DEF Handle
<1>6. CASE d.event = "CHANNEL_PINS_UPDATE"
  BY <1>6, ChannelPinsUpdateTwice DEF Handle
<1>7. CASE d.event \in {"CHANNEL_DELETE", "THREAD_DELETE"}
  <2> DEFINE ks == {d.key}
  <2>1. \A x : Handle(x, d, t) = EvictChannels(x, ks, t)
    BY <1>7 DEF Handle
  <2> HIDE DEF ks
  <2> QED
    BY <1>0, <2>1, ChannelDeleteTwice
<1>8. CASE d.event = "THREAD_LIST_SYNC"
  <2>1. \A k \in DOMAIN d.w : Scope[k] = "threads"
    BY <1>8 DEF Proper, WellShaped, In
  <2> QED
    BY <1>0, <1>8, <2>1, ThreadListSyncTwice DEF Handle
<1>9. CASE d.event = "THREAD_MEMBERS_UPDATE"
  BY <1>9, ThreadMembersUpdateTwice DEF Handle
<1>10. CASE d.event = "GUILD_ROLE_DELETE"
  BY <1>0, <1>10, RoleDeleteTwice DEF Handle
<1>11. CASE d.event \in {"MEMBER", "MESSAGE_CREATE"}
  <2>1. \A x : Handle(x, d, t) = Put(UpsertUsers(x, d.w, t), d.key, d.w[d.key], t)
    BY <1>11 DEF Handle, MemberPut, MessageCreate
  <2>2. Scope[d.key] \in Scopes \ {"users"}
    BY <1>11 DEF Proper, WellShaped, WithAuthor, Scopes
  <2>3. LET e == Put(UpsertUsers(c, d.w, t), d.key, d.w[d.key], t)
        IN Put(UpsertUsers(e, d.w, t), d.key, d.w[d.key], t) = e
    BY <1>0, <2>2, CreateTwice
  <2> QED
    BY <2>1, <2>3
<1>12. CASE d.event = "GUILD_MEMBER_REMOVE"
  BY <1>0, <1>12, MemberRemoveTwice DEF Handle
<1>13. CASE d.event = "USER_SEEN"
  <2>1. \A x : Handle(x, d, t) = UpsertUsers(x, d.w, t)
    BY <1>13 DEF Handle, UserSeen
  <2> QED
    BY <1>0, <2>1, UserSeenTwice
<1>14. CASE d.event = "MESSAGE_UPDATE"
  <2>1. Scope[d.key] = "messages"
    BY <1>14 DEF Proper, WellShaped
  <2> QED
    BY <1>0, <1>14, <2>1, MessageUpdateTwice DEF Handle
<1>15. CASE d.event = "MESSAGE_DELETE"
  <2>1. "messages" \in Scopes
    BY DEF Scopes
  <2>2. \A x : Handle(x, d, t) = Delete(x, "messages", d.of)
    BY <1>15 DEF Handle, MessageDelete
  <2> QED
    BY <1>0, <2>1, <2>2, DeleteTwice
<1>16. CASE d.event \in {"GUILD_EMOJIS_UPDATE", "GUILD_STICKERS_UPDATE"}
  <2> DEFINE scope == IF d.event = "GUILD_EMOJIS_UPDATE" THEN "emojis" ELSE "stickers"
  <2>1. \A x : Handle(x, d, t) = Reconcile(x, d.key, scope, d.w, t)
    BY <1>16 DEF Handle, ExpressionsUpdate
  <2>2. scope \in Scopes
    BY DEF Scopes
  <2> HIDE DEF scope
  <2> QED
    BY <1>0, <2>1, <2>2, ExpressionsTwice
<1>17. CASE d.event = "VOICE_STATE_UPDATE"
  <2>1. Scope[d.key] = "voiceStates"
    BY <1>17 DEF Proper, WellShaped, In
  <2> QED
    BY <1>0, <1>17, <2>1, VoiceStateTwice DEF Handle
<1>18. CASE d.event = "SELF"
  BY <1>0, <1>18, SelfTwice DEF Handle
<1>19. d.event \in Events
  BY DEF Proper, Payload
<1> QED
  BY <1>1, <1>2, <1>3, <1>4, <1>5, <1>6, <1>7, <1>8, <1>9, <1>10, <1>11, <1>12, <1>13,
     <1>14, <1>15, <1>16, <1>17, <1>18, <1>19 DEF Events

\* Discord's side does not touch the cache.
LEMMA OutsideTheCache ==
  ASSUME Next, ~Route, ~SweeperFires, ~Tick
  PROVE  UNCHANGED <<cache, now>>
<1>1. ASSUME NEW k, NEW v, NEW event, NEW carried, NEW of, Happens(k, v, event, carried, of)
      PROVE  UNCHANGED <<cache, now>>
  BY <1>1 DEF Happens, cacheVars
<1>2. GuildChanges \/ ChannelChanges \/ ThreadChanges \/ MessageChanges => UNCHANGED <<cache, now>>
  BY <1>1 DEF GuildChanges, ChannelChanges, ThreadChanges, MessageChanges, Appears, Changes, Goes
<1>3. RoleChanges \/ MemberChanges \/ UserChanges \/ PresenceChanges => UNCHANGED <<cache, now>>
  BY <1>1 DEF RoleChanges, MemberChanges, UserChanges, PresenceChanges, Appears, Changes, Goes, cacheVars
<1>4. VoiceChanges \/ ExpressionChanges \/ Again \/ Outage \/ Return \/ Join => UNCHANGED <<cache, now>>
  BY <1>1 DEF VoiceChanges, ExpressionChanges, Again, Outage, Return, Join, Appears, Changes, Goes, cacheVars
<1>5. Identify \/ Resume \/ StartSweeper \/ StopSweeper => UNCHANGED <<cache, now>>
  BY DEF Identify, Resume, StartSweeper, StopSweeper, cacheVars
<1> QED
  BY <1>2, <1>3, <1>4, <1>5 DEF Next

LEMMA AcceptingFades ==
  ASSUME SyncInv, TruthInv, Fades, Accepting(cache, now)
  PROVE  Accepting(cache', now')
<1>1. Good(cache', now') /\ cache'.policy = cache.policy
  BY DEF Fades
<1>2. "messages" \in Scopes
  BY DEF Scopes
<1>3. ASSUME NEW k \in Live(cache'.stores["messages"], now')
      PROVE  Value(cache'.stores["messages"], k) \in Policies[cache'.policy]["messages"].accepts
  <2>1. k \in Cached /\ Scope[k] = "messages"
    BY <1>1, <1>2, <1>3 DEF Good, Live, In, Cached
  <2>2. IsHeld(cache', k, now')
    BY <1>3, <2>1 DEF IsHeld
  <2>3. IsHeld(cache, k, now) /\ Held(cache', k) = Held(cache, k)
    BY <2>1, <2>2 DEF Fades
  <2> QED
    BY <1>1, <2>1, <2>3 DEF Accepting, IsHeld, Held
<1> QED
  BY <1>3 DEF Accepting

LEMMA AcceptingStep ==
  SyncInv /\ TruthInv /\ Accepting(cache, now) /\ [Next]_vars => Accepting(cache', now')
<1> SUFFICES ASSUME SyncInv, TruthInv, Accepting(cache, now), [Next]_vars
             PROVE  Accepting(cache', now')
  OBVIOUS
<1>1. CASE Route
  <2> DEFINE d == log[applied + 1]
             c == cache
             t == now
  <2>1. applied < Len(log) /\ cache' = Handle(c, d, t) /\ now' = t
    BY <1>1 DEF Route, worldVars
  <2>2. applied \in Nat /\ Len(log) \in Nat /\ DOMAIN log = 1 .. Len(log)
    BY DEF SyncInv, LogInv
  <2>3. applied + 1 \in DOMAIN log
    BY <2>1, <2>2
  <2>4. Good(c, t) /\ Typed(c, t) /\ Proper(d) /\ t \in Nat \ {0} /\ Accepting(c, t)
    BY <2>3 DEF TruthInv, SyncInv
  <2> HIDE DEF d, c, t
  <2> QED
    BY <2>1, <2>4, HandleAccepting
<1>2. CASE SweeperFires \/ Tick
  BY <1>2, SweptFades, TickFades, AcceptingFades
<1>3. CASE UNCHANGED vars \/ (Next /\ ~Route /\ ~SweeperFires /\ ~Tick)
  <2>1. UNCHANGED <<cache, now>>
    BY <1>3, OutsideTheCache DEF vars, cacheVars
  <2> QED
    BY <2>1 DEF Accepting
<1> QED
  BY <1>1, <1>2, <1>3

\* Whatever was applied before and whatever has expired, the handler of the next dispatch
\* leaves the cache, run twice at one time, as it leaves it run once: each store with its
\* order, its index and its dates (R3 of docs/design/phase-4-core.md).
THEOREM HandlersAreIdempotent == Spec => []TwiceIsOnce
<1> DEFINE Inv == SyncInv /\ TruthInv /\ Accepting(cache, now)
<1>1. Init => Inv
  <2> SUFFICES ASSUME Init PROVE Accepting(cache, now)
    BY SyncInit, TruthInit
  <2>1. cache.stores["messages"] = EmptyStore
    BY DEF Init, Scopes
  <2>2. Live(EmptyStore, now) = {}
    BY DEF Live, Keys, EmptyStore
  <2> QED
    BY <2>1, <2>2 DEF Accepting
<1>2. Inv /\ [Next]_vars => Inv'
  <2>1. Accepting(cache', now') => Accepting(cache, now)'
    BY DEF Accepting
  <2> QED
    BY <2>1, SyncStep, TruthStep, AcceptingStep
<1>3. Inv => TwiceIsOnce
  <2> SUFFICES ASSUME Inv, applied < Len(log)
               PROVE  LET e == Handle(cache, log[applied + 1], now)
                      IN Handle(e, log[applied + 1], now) = e
    BY DEF TwiceIsOnce
  <2> DEFINE d == log[applied + 1]
  <2>1. applied \in Nat /\ Len(log) \in Nat /\ DOMAIN log = 1 .. Len(log)
    BY DEF SyncInv, LogInv
  <2>2. applied + 1 \in DOMAIN log
    BY <2>1
  <2>3. Good(cache, now) /\ Typed(cache, now) /\ Proper(d) /\ now \in Nat \ {0}
    BY <2>2 DEF TruthInv, SyncInv
  <2> HIDE DEF d
  <2>4. LET e == Handle(cache, d, now) IN Handle(e, d, now) = e
    BY <2>3, HandleTwice
  <2> QED
    BY <2>4 DEF d
<1> QED
  BY <1>1, <1>2, <1>3, PTL DEF Spec
==============================================================================
