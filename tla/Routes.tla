------------------------------- MODULE Routes -------------------------------
(***************************************************************************)
(* The requests of packages/rest/src/routes and how REST.raw sorts them    *)
(* into queues: BucketRegistry.getIdentity makes a route and a major       *)
(* parameter of each method and path, and one handler serves each pair.    *)
(* A path is the sequence of its segments.  How a handler then paces its   *)
(* queue is the module Buckets.                                            *)
(***************************************************************************)
EXTENDS Naturals, SequencesExt

CONSTANTS
  Ids,             \* snowflakes
  Tokens,          \* of webhooks and interactions
  Emojis, Codes,   \* encoded into one segment each
  MaxRequests      \* bound of the model

\* The words of the paths, and of the routes that are made of them.
Words ==
  {"@me", "@original", "active", "answers", "applications", "archived", "audit-logs",
   "auto-moderation", "bans", "bot", "bulk-ban", "bulk-delete", "callback", "channels",
   "commands", "connections", "consume", "emojis", "entitlements", "expire", "gateway",
   "guilds", "integrations", "interactions", "invites", "member", "members", "messages",
   "onboarding", "permissions", "pins", "polls", "preview", "private", "prune", "public",
   "reactions", "regions", "roles", "rules", "scheduled-events", "search", "skus",
   "stage-instances", "sticker-packs", "stickers", "subscriptions", "thread-members",
   "threads", "typing", "users", "vanity-url", "webhooks", "welcome-screen", "widget",
   "widget.json"}
PollAnswers == {"1", "2"}
Placeholders == {":emoji", ":user", ":id", ":token", "delete"}

\* Segments of one kind are told from those of another: a snowflake is digits alone.
ASSUME SegmentsAssumption ==
  /\ \A kind \in {Ids, Tokens, Emojis, Codes} :
       kind \cap (Words \cup PollAnswers \cup Placeholders) = {}
  /\ Ids \cap (Tokens \cup Emojis \cup Codes) = {}
  /\ Tokens \cap (Emojis \cup Codes) = {} /\ Emojis \cap Codes = {}

VARIABLES
  authorised,  \* whether #token is set
  handlers,    \* #handlers: the handler of each key, one is as good as its number
  outstanding, \* the requests not answered yet, each with its handler, in order
  requested    \* how many requests were made

routesVars == <<authorised, handlers, outstanding, requested>>

-----------------------------------------------------------------------------
(* Route families.                                                         *)

To(methods, path) == {[method |-> m, path |-> path, auth |-> TRUE] : m \in methods}
Anonymous(requests) == {[r EXCEPT !.auth = FALSE] : r \in requests}

ChannelMessages(c, m) ==
  To({"GET", "PATCH", "DELETE"}, <<"channels", c>>)
  \cup To({"GET", "POST"}, <<"channels", c, "messages">>)
  \cup To({"GET", "PATCH", "DELETE"}, <<"channels", c, "messages", m>>)
  \cup To({"POST"}, <<"channels", c, "messages", "bulk-delete">>)
ChannelReactions(c, m, emoji, u) ==
  To({"PUT", "DELETE"}, <<"channels", c, "messages", m, "reactions", emoji, "@me">>)
  \cup To({"DELETE"}, <<"channels", c, "messages", m, "reactions", emoji, u>>)
  \cup To({"GET", "DELETE"}, <<"channels", c, "messages", m, "reactions", emoji>>)
  \cup To({"DELETE"}, <<"channels", c, "messages", m, "reactions">>)
ChannelPinsAndInvites(c, m) ==
  To({"GET"}, <<"channels", c, "pins">>)
  \cup To({"PUT", "DELETE"}, <<"channels", c, "pins", m>>)
  \cup To({"GET", "POST"}, <<"channels", c, "invites">>)
  \cup To({"POST"}, <<"channels", c, "messages", m, "threads">>)
  \cup To({"POST"}, <<"channels", c, "threads">>)
ChannelPermissions(c, overwrite) ==
  To({"PUT", "DELETE"}, <<"channels", c, "permissions", overwrite>>)
  \cup To({"POST"}, <<"channels", c, "typing">>)

ThreadMembers(t, u) ==
  To({"PUT", "DELETE"}, <<"channels", t, "thread-members", "@me">>)
  \cup To({"GET", "PUT", "DELETE"}, <<"channels", t, "thread-members", u>>)
  \cup To({"GET"}, <<"channels", t, "thread-members">>)
ArchivedThreads(c) ==
  To({"GET"}, <<"channels", c, "threads", "archived", "public">>)
  \cup To({"GET"}, <<"channels", c, "threads", "archived", "private">>)
  \cup To({"GET"}, <<"channels", c, "users", "@me", "threads", "archived", "private">>)
\* An answer of a poll is a small number, written in the path.
PollRoutes(c, m, answer) ==
  To({"GET"}, <<"channels", c, "polls", m, "answers", answer>>)
  \cup To({"POST"}, <<"channels", c, "polls", m, "expire">>)

Guilds(g) ==
  To({"GET", "PATCH", "DELETE"}, <<"guilds", g>>)
  \cup To({"GET"}, <<"guilds", g, "preview">>)
  \cup To({"GET", "POST"}, <<"guilds", g, "prune">>)
GuildDisplay(g, integration) ==
  To({"GET"}, <<"guilds", g, "regions">>)
  \cup To({"GET"}, <<"guilds", g, "vanity-url">>)
  \cup To({"GET", "PATCH"}, <<"guilds", g, "welcome-screen">>)
  \cup To({"PATCH"}, <<"guilds", g, "channels">>)
  \cup To({"GET"}, <<"guilds", g, "integrations">>)
  \cup To({"DELETE"}, <<"guilds", g, "integrations", integration>>)
GuildOnboarding(g) ==
  To({"GET", "PUT"}, <<"guilds", g, "onboarding">>)
  \cup To({"GET", "PATCH"}, <<"guilds", g, "widget">>)
  \cup Anonymous(To({"GET"}, <<"guilds", g, "widget.json">>))
GuildChannels(g) ==
  To({"GET", "POST"}, <<"guilds", g, "channels">>)
  \cup To({"GET"}, <<"guilds", g, "invites">>)
  \cup To({"GET"}, <<"guilds", g, "threads", "active">>)
MemberRoutes(g, u) ==
  To({"GET"}, <<"guilds", g, "members">>)
  \cup To({"GET"}, <<"guilds", g, "members", "search">>)
  \cup To({"GET", "PATCH", "DELETE"}, <<"guilds", g, "members", u>>)
  \cup To({"PATCH"}, <<"guilds", g, "members", "@me">>)
MemberRoles(g, u, role) ==
  To({"PUT", "DELETE"}, <<"guilds", g, "members", u, "roles", role>>)
BanRoutes(g, u) ==
  To({"GET"}, <<"guilds", g, "bans">>)
  \cup To({"GET", "PUT", "DELETE"}, <<"guilds", g, "bans", u>>)
  \cup To({"POST"}, <<"guilds", g, "bulk-ban">>)
RoleRoutes(g, role) ==
  To({"GET", "POST", "PATCH"}, <<"guilds", g, "roles">>)
  \cup To({"GET", "PATCH", "DELETE"}, <<"guilds", g, "roles", role>>)
AuditLogRoutes(g) == To({"GET"}, <<"guilds", g, "audit-logs">>)
AutoModerationRoutes(g, rule) ==
  To({"GET", "POST"}, <<"guilds", g, "auto-moderation", "rules">>)
  \cup To({"GET", "PATCH", "DELETE"}, <<"guilds", g, "auto-moderation", "rules", rule>>)
ScheduledEventRoutes(g, event) ==
  To({"GET", "POST"}, <<"guilds", g, "scheduled-events">>)
  \cup To({"GET", "PATCH", "DELETE"}, <<"guilds", g, "scheduled-events", event>>)
  \cup To({"GET"}, <<"guilds", g, "scheduled-events", event, "users">>)
StageInstanceRoutes(c) ==
  To({"POST"}, <<"stage-instances">>)
  \cup To({"GET", "PATCH", "DELETE"}, <<"stage-instances", c>>)
GuildEmojis(g, emojiId) ==
  To({"GET", "POST"}, <<"guilds", g, "emojis">>)
  \cup To({"GET", "PATCH", "DELETE"}, <<"guilds", g, "emojis", emojiId>>)
ApplicationEmojis(app, emojiId) ==
  To({"GET", "POST"}, <<"applications", app, "emojis">>)
  \cup To({"GET", "PATCH", "DELETE"}, <<"applications", app, "emojis", emojiId>>)
StickerRoutes(g, sticker) ==
  To({"GET"}, <<"stickers", sticker>>)
  \cup To({"GET"}, <<"sticker-packs">>) \cup To({"GET"}, <<"sticker-packs", sticker>>)
  \cup To({"GET", "POST"}, <<"guilds", g, "stickers">>)
  \cup To({"GET", "PATCH", "DELETE"}, <<"guilds", g, "stickers", sticker>>)

UserRoutes(g, u) ==
  To({"GET", "PATCH"}, <<"users", "@me">>) \cup To({"GET"}, <<"users", u>>)
  \cup To({"POST"}, <<"users", "@me", "channels">>)
  \cup To({"GET"}, <<"users", "@me", "guilds">>)
  \cup To({"GET"}, <<"users", "@me", "guilds", g, "member">>)
  \cup To({"DELETE"}, <<"users", "@me", "guilds", g>>)
  \cup To({"GET"}, <<"users", "@me", "connections">>)
InviteRoutes(code) == To({"GET", "DELETE"}, <<"invites", code>>)
ApplicationRoutes(app) ==
  To({"GET", "PATCH"}, <<"applications", "@me">>) \cup To({"GET"}, <<"applications", app>>)
GlobalCommands(app, command) ==
  To({"GET", "POST", "PUT"}, <<"applications", app, "commands">>)
  \cup To({"PATCH", "DELETE"}, <<"applications", app, "commands", command>>)
GuildCommands(app, g, command) ==
  To({"GET", "POST", "PUT"}, <<"applications", app, "guilds", g, "commands">>)
  \cup To({"PATCH", "DELETE"}, <<"applications", app, "guilds", g, "commands", command>>)
  \cup To({"GET"}, <<"applications", app, "guilds", g, "commands", "permissions">>)
Entitlements(app, entitlement) ==
  To({"GET"}, <<"applications", app, "skus">>)
  \cup To({"GET", "POST"}, <<"applications", app, "entitlements">>)
  \cup To({"GET", "DELETE"}, <<"applications", app, "entitlements", entitlement>>)
  \cup To({"POST"}, <<"applications", app, "entitlements", entitlement, "consume">>)
Subscriptions(sku, subscription) ==
  To({"GET"}, <<"skus", sku, "subscriptions">>)
  \cup To({"GET"}, <<"skus", sku, "subscriptions", subscription>>)
GatewayRoutes == Anonymous(To({"GET"}, <<"gateway">>)) \cup To({"GET"}, <<"gateway", "bot">>)

Webhooks(c, g, w) ==
  To({"GET", "POST"}, <<"channels", c, "webhooks">>)
  \cup To({"GET"}, <<"guilds", g, "webhooks">>)
  \cup To({"GET", "PATCH", "DELETE"}, <<"webhooks", w>>)
WebhookWithToken(w, token) ==
  Anonymous(To({"GET", "PATCH", "DELETE", "POST"}, <<"webhooks", w, token>>))
WebhookMessages(w, token, m) ==
  Anonymous(To({"GET", "PATCH", "DELETE"}, <<"webhooks", w, token, "messages", m>>))
InteractionReply(i, app, token) ==
  Anonymous(To({"POST"}, <<"interactions", i, token, "callback">>)
    \cup To({"GET", "PATCH", "DELETE"}, <<"webhooks", app, token, "messages", "@original">>))
InteractionFollowUps(app, token, m) ==
  Anonymous(To({"POST"}, <<"webhooks", app, token>>)
    \cup To({"GET", "PATCH", "DELETE"}, <<"webhooks", app, token, "messages", m>>))

\* By what their paths name.
WithOneId ==
  UNION {ArchivedThreads(a) \cup Guilds(a) \cup GuildOnboarding(a) \cup GuildChannels(a)
           \cup AuditLogRoutes(a) \cup StageInstanceRoutes(a) \cup ApplicationRoutes(a) :
           a \in Ids}
WithTwoIds ==
  UNION {ChannelMessages(a, b) \cup ChannelPinsAndInvites(a, b) \cup ThreadMembers(a, b)
           \cup ChannelPermissions(a, b) \cup GuildDisplay(a, b) \cup MemberRoutes(a, b)
           \cup BanRoutes(a, b) \cup RoleRoutes(a, b) \cup AutoModerationRoutes(a, b)
           \cup ScheduledEventRoutes(a, b) \cup GuildEmojis(a, b) \cup UserRoutes(a, b)
           \cup ApplicationEmojis(a, b) \cup StickerRoutes(a, b) \cup GlobalCommands(a, b)
           \cup Entitlements(a, b) \cup Subscriptions(a, b) :
           a, b \in Ids}
WithThreeIds ==
  UNION {GuildCommands(a, b, c) \cup MemberRoles(a, b, c) \cup Webhooks(a, b, c) :
           a, b, c \in Ids}
WithToken ==
  UNION {WebhookWithToken(a, t) \cup WebhookMessages(a, t, b)
           \cup InteractionReply(a, b, t) \cup InteractionFollowUps(a, t, b) :
           a, b \in Ids, t \in Tokens}
WithEmoji ==
  UNION {ChannelReactions(a, b, emoji, u) : a, b, u \in Ids, emoji \in Emojis}
WithAnswer == UNION {PollRoutes(a, b, answer) : a, b \in Ids, answer \in PollAnswers}
WithCode == UNION {InviteRoutes(code) : code \in Codes}

Endpoints ==
  GatewayRoutes \cup WithOneId \cup WithTwoIds \cup WithThreeIds
  \cup WithToken \cup WithEmoji \cup WithAnswer \cup WithCode

-----------------------------------------------------------------------------
(* getIdentity and getHandlerKey.                                          *)

Scoped == {"channels", "guilds", "webhooks"}

MajorWithoutToken(path) ==
  IF Len(path) < 2 \/ path[1] \notin Scoped \/ path[2] \notin Ids THEN <<"global">> ELSE <<path[2]>>
MajorParameter(path) ==
  IF Len(path) < 2 \/ path[1] \notin Scoped \/ path[2] \notin Ids THEN <<"global">>
  ELSE IF path[1] = "webhooks" /\ Len(path) > 2 THEN <<path[2], path[3]>> ELSE <<path[2]>>

\* The replacements, in their order; the first two hold for whatever follows "reactions".
Collapsed(path) ==
  LET after == SelectInSeq(path, LAMBDA segment : segment = "reactions")
      named == IF after = 0 THEN path
               ELSE [i \in DOMAIN path |-> IF i = after + 1 THEN ":emoji"
                                           ELSE IF i = after + 2 THEN ":user" ELSE path[i]]
      ids == [i \in DOMAIN path |-> IF named[i] \in Ids THEN ":id" ELSE named[i]]
      secret == ids[1] \in {"webhooks", "interactions"} /\ Len(ids) > 2 /\ ids[2] = ":id"
  IN [i \in DOMAIN path |-> IF i = 3 /\ secret THEN ":token" ELSE ids[i]]

RouteOf(r) ==
  LET path == Collapsed(r.path)
  IN IF r.method = "DELETE" /\ path = <<"channels", ":id", "messages", ":id">>
     THEN Append(path, "delete") ELSE path
Serialised(r) == r.path[1] # "interactions"
HandlerKey(r) == <<r.method, RouteOf(r), MajorParameter(r.path)>>

-----------------------------------------------------------------------------
(* REST.raw.                                                               *)

RoutesInit == authorised = FALSE /\ handlers = <<>> /\ outstanding = <<>> /\ requested = 0

SetToken ==
  /\ ~authorised /\ authorised' = TRUE
  /\ UNCHANGED <<handlers, outstanding, requested>>

\* A request without the token it needs is refused before any of this.
Raw(r) ==
  /\ r.auth => authorised
  /\ requested' = requested + 1
  /\ handlers' = [key \in DOMAIN handlers \cup {HandlerKey(r)} |->
                   IF key \in DOMAIN handlers THEN handlers[key] ELSE requested']
  /\ outstanding' = Append(outstanding, [request |-> r, handler |-> handlers'[HandlerKey(r)]])
  /\ UNCHANGED authorised

\* Those in a queue are answered in turn, the others at any time.
FirstInQueue(i) ==
  \A j \in 1 .. (i - 1) :
    outstanding[j].handler = outstanding[i].handler => ~Serialised(outstanding[j].request)

Respond(i) ==
  /\ Serialised(outstanding[i].request) => FirstInQueue(i)
  /\ outstanding' = RemoveAt(outstanding, i)
  /\ UNCHANGED <<authorised, handlers, requested>>

\* Whether nothing is in a handler's queue.
Inactive(handler) ==
  \A i \in DOMAIN outstanding :
    outstanding[i].handler = handler => ~Serialised(outstanding[i].request)

Sweep ==
  /\ handlers' = Restrict(handlers, {key \in DOMAIN handlers : ~Inactive(handlers[key])})
  /\ UNCHANGED <<authorised, outstanding, requested>>

RoutesNext ==
  \/ SetToken
  \/ requested < MaxRequests /\ \E r \in Endpoints : Raw(r)
  \/ \E i \in DOMAIN outstanding : Respond(i)
  \/ Sweep

-----------------------------------------------------------------------------
(* Properties.                                                             *)

\* The channel, guild or webhook that a path is under, a webhook's token included.
Major(path, i) == path[1] \in Scoped /\ (i = 2 \/ (i = 3 /\ path[1] = "webhooks"))
UnderOneMajor(r, q) == \A i \in DOMAIN r.path : Major(r.path, i) => r.path[i] = q.path[i]

\* Calls of one endpoint differ in the arguments that are written into its path.  The reaction
\* taken back may be one's own or another's.
Reactor(path, i) == i = 7 /\ path[5] = "reactions" /\ path[i] \in Ids \cup {"@me"}
Arguments(r, q, i) ==
  \/ \E kind \in {Ids, Tokens, Emojis, Codes, PollAnswers} : {r.path[i], q.path[i]} \subseteq kind
  \/ Reactor(r.path, i) /\ Reactor(q.path, i)
OneEndpoint(r, q) ==
  /\ r.method = q.method /\ Len(r.path) = Len(q.path)
  /\ \A i \in DOMAIN r.path : r.path[i] = q.path[i] \/ Arguments(r, q, i)

\* An invite's code and the number of an answer, which stay in the route as they are.
OneText(r, q) ==
  \A i \in DOMAIN r.path : r.path[i] \in Codes \cup PollAnswers => r.path[i] = q.path[i]

InAQueue == {k \in DOMAIN outstanding : Serialised(outstanding[k].request)}

\* No queue is of two endpoints, or of two channels, guilds or webhooks: what a response to one
\* of its requests says of the bucket and of the window holds of all of them, and none waits
\* for one elsewhere.
QueuesAreApart ==
  \A i, j \in InAQueue :
    outstanding[i].handler = outstanding[j].handler =>
      /\ OneEndpoint(outstanding[i].request, outstanding[j].request)
      /\ UnderOneMajor(outstanding[i].request, outstanding[j].request)

\* Calls of one endpoint under one channel, guild or webhook wait in one queue, whatever other
\* snowflakes and emojis they name and whatever was swept between them.
QueuesAreWhole ==
  \A i, j \in InAQueue :
    LET r == outstanding[i].request q == outstanding[j].request
    IN OneEndpoint(r, q) /\ UnderOneMajor(r, q) /\ OneText(r, q) =>
         outstanding[i].handler = outstanding[j].handler

\* The same without the exception.  The code does not keep it: two invites, or two answers of
\* one poll, are asked for through two queues, although a bucket hash, once told, is one for
\* both.
OneQueueEach ==
  \A i, j \in InAQueue :
    LET r == outstanding[i].request q == outstanding[j].request
    IN OneEndpoint(r, q) /\ UnderOneMajor(r, q) => outstanding[i].handler = outstanding[j].handler

\* No route of a handler names an entity, a token or an emoji, so that there are no more than
\* there are endpoints and majors, and a request with a token of its own never has the bot's.
NothingLeaks ==
  /\ \A key \in DOMAIN handlers : ToSet(key[2]) \cap (Ids \cup Tokens \cup Emojis) = {}
  /\ \A i \in DOMAIN outstanding :
       ToSet(outstanding[i].request.path) \cap Tokens # {} => ~outstanding[i].request.auth

\* Only an interaction's callback overtakes.
OnlyCallbacksOvertake ==
  \A i \in DOMAIN outstanding :
    Serialised(outstanding[i].request) <=> Last(outstanding[i].request.path) # "callback"

\* What getIdentity promises of the queues.  Which of them share a bucket is for Discord's
\* hashes to say, and no matter of the path.
RoutesKeepApart == QueuesAreApart /\ QueuesAreWhole /\ NothingLeaks /\ OnlyCallbacksOvertake
=============================================================================
