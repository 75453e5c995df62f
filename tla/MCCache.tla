------------------------------ MODULE MCCache ------------------------------
EXTENDS CacheSync

\* One guild with one or two of everything, another that nothing happens to, a direct
\* message channel and the bot's own user.
ScopeOf ==
  [g |-> "guilds", c |-> "channels", c2 |-> "channels", dm |-> "channels",
   t |-> "threads", x |-> "messages", y |-> "messages", r |-> "roles",
   m |-> "members", p |-> "presences", v |-> "voiceStates", e |-> "emojis",
   s |-> "stickers", u |-> "users", me |-> "self", h |-> "guilds",
   hc |-> "channels", ht |-> "threads", hr |-> "roles"]
GuildOf ==
  [g |-> "g", c |-> "g", c2 |-> "g", dm |-> NoGroup, t |-> "g", x |-> "g",
   y |-> "g", r |-> "g", m |-> "g", p |-> "g", v |-> "g", e |-> "g", s |-> "g",
   u |-> NoGroup, me |-> NoGroup, h |-> "h", hc |-> "h", ht |-> "h", hr |-> "h"]
ParentOf ==
  [g |-> NoGroup, c |-> NoGroup, c2 |-> NoGroup, dm |-> NoGroup, t |-> "c",
   x |-> "c", y |-> "t", r |-> NoGroup, m |-> NoGroup, p |-> NoGroup, v |-> NoGroup,
   e |-> NoGroup, s |-> NoGroup, u |-> NoGroup, me |-> NoGroup, h |-> NoGroup,
   hc |-> NoGroup, ht |-> "hc", hr |-> NoGroup]
UserOf ==
  [g |-> NoGroup, c |-> NoGroup, c2 |-> NoGroup, dm |-> NoGroup, t |-> NoGroup,
   x |-> "u", y |-> "u", r |-> NoGroup, m |-> "u", p |-> NoGroup, v |-> NoGroup,
   e |-> NoGroup, s |-> NoGroup, u |-> NoGroup, me |-> NoGroup, h |-> NoGroup,
   hc |-> NoGroup, ht |-> NoGroup, hr |-> NoGroup]
MemberOf ==
  [g |-> NoGroup, c |-> NoGroup, c2 |-> NoGroup, dm |-> NoGroup, t |-> NoGroup,
   x |-> NoGroup, y |-> NoGroup, r |-> NoGroup, m |-> NoGroup, p |-> "m", v |-> "m",
   e |-> NoGroup, s |-> NoGroup, u |-> NoGroup, me |-> NoGroup, h |-> NoGroup,
   hc |-> NoGroup, ht |-> NoGroup, hr |-> NoGroup]
FoundingOf ==
  [g |-> 0, c |-> 0, c2 |-> -1, dm |-> -1, t |-> 0, x |-> -1, y |-> -1, r |-> 0,
   m |-> 1, p |-> 1, v |-> -1, e |-> 0, s |-> 0, u |-> 0, me |-> 0, h |-> 0,
   hc |-> 0, ht |-> 0, hr |-> 0]

Versions == 0 .. 7 \cup {Stub}
Kept == Resolved(-1, 0, Versions)
Off == Resolved(0, 0, Versions)

\* Everything for ever; the default options; and bounds, deadlines and filters.
PoliciesOf ==
  [everything |-> [scope \in Scopes |-> Kept],
   defaults |-> [scope \in Scopes |->
     IF scope \in {"guilds", "channels", "roles", "emojis"} THEN Kept ELSE Off],
   tight |-> [scope \in Scopes |->
     CASE scope = "channels" -> Resolved(2, 0, Versions)
       [] scope \in {"threads", "members"} -> Resolved(-1, 1, Versions)
       [] scope = "messages" -> Resolved(1, 2, Versions)
       [] scope = "presences" -> Resolved(-1, 0, {1})
       [] scope = "users" -> Off
       [] OTHER -> Kept]]

Theme(policy, members, scopes) == [policy |-> policy, members |-> members, scopes |-> scopes]
SomeThemes == {
  Theme("everything", TRUE, {"guilds", "channels", "threads"}),
  Theme("everything", TRUE, {"channels", "threads", "messages"}),
  Theme("everything", FALSE, {"roles", "members", "users", "presences", "voiceStates"}),
  Theme("everything", TRUE, {"guilds", "emojis", "stickers", "roles", "self"}),
  Theme("defaults", TRUE, {"guilds", "channels", "threads", "roles"}),
  Theme("tight", TRUE, {"channels", "threads", "messages"}),
  Theme("tight", TRUE, {"guilds", "members", "presences"})}
\* Of what was handled, only what a resume may still bring again matters.
Ahead ==
  LET replayed == IF reconnects < MaxReconnects THEN MaxReplayed ELSE 0
      from == IF applied > replayed THEN applied - replayed ELSE 0
  IN <<world, outage, SubSeq(log, from + 1, Len(log)), Len(log) - applied, theme, changes,
       missed, cacheVars, reconnects, stray, converted>>
=============================================================================
