------------------------------- MODULE Fields -------------------------------
(***************************************************************************)
(* The structures of the core package, field by field: how the constructor *)
(* of each makes a field of a payload, how patch puts a newer payload in   *)
(* it and which changes it may report.  Identifiers, which no payload      *)
(* changes, are left out.                                                  *)
(*                                                                         *)
(* NewX maps the fields of X to the way its constructor sets them, PatchX  *)
(* to the way patch does, XChangeField are those X may report and APIX     *)
(* those a payload may lack.                                               *)
(***************************************************************************)

\* One table and what another has beside it.
f ++ g == [x \in DOMAIN f \cup DOMAIN g |-> IF x \in DOMAIN f THEN f[x] ELSE g[x]]

Each(fields, way) == [f \in fields |-> way]

\* What a constructor or patch makes of a value that is absent: nothing, or an empty list.
Plain == "plain"
List == "list"

\* What patch does: assign every time or if the payload has the field; record the former value
\* if it is not identical, not alike in its contents, or whatever it is, or never; and what it
\* makes of a value that is absent.
Patching(assigns, records, value) ==
  [assigns |-> assigns, records |-> records, value |-> value]
Whole == Patching("always", "identity", Plain)
WholeAlike == Patching("always", "contents", Plain)
WholeList == Patching("always", "contents", List)
Kept == Patching("ifSent", "identity", Plain)
KeptAlike == Patching("ifSent", "contents", Plain)
Fresh == Patching("ifSent", "any", Plain)
Quiet == Patching("always", "never", Plain)
QuietList == Patching("always", "never", List)
KeptQuiet == Patching("ifSent", "never", Plain)

-----------------------------------------------------------------------------
(* Users, roles, guilds and members.                                       *)

UserChangeField ==
  {"username", "discriminator", "globalName", "avatar", "bot", "system", "banner",
   "accentColor", "publicFlags", "premiumType"}
NewUser ==
  Each({"username", "discriminator", "globalName", "avatar", "bot", "system", "banner",
        "accentColor", "publicFlags", "premiumType"}, Plain)
PatchUser ==
  Each({"username", "discriminator", "globalName", "avatar", "bot", "system", "banner",
        "accentColor", "publicFlags", "premiumType"}, Whole)

ClientUserChangeField == UserChangeField \cup {"mfaEnabled", "verified"}
NewClientUser == NewUser ++ Each({"mfaEnabled", "verified"}, Plain)
PatchClientUser == PatchUser ++ Each({"mfaEnabled", "verified"}, Whole)
APIUser == {"bot", "system", "banner", "accentColor", "publicFlags", "premiumType",
            "mfaEnabled", "verified"}

RoleChangeField ==
  {"name", "color", "colors", "hoist", "icon", "unicodeEmoji", "position", "permissions",
   "managed", "mentionable", "flags"}
NewRole ==
  Each({"name", "color", "colors", "hoist", "icon", "unicodeEmoji", "position",
        "permissions", "managed", "mentionable", "flags"}, Plain)
PatchRole ==
  Each({"name", "color", "hoist", "icon", "unicodeEmoji", "position",
        "permissions", "managed", "mentionable", "flags"}, Whole)
  ++ Each({"colors"}, WholeAlike)
APIRole == {"icon", "unicodeEmoji"}

GuildChangeField ==
  {"name", "icon", "splash", "discoverySplash", "ownerId", "afkChannelId", "afkTimeout",
   "verificationLevel", "defaultMessageNotifications", "explicitContentFilter", "mfaLevel",
   "features", "applicationId", "systemChannelId", "systemChannelFlags", "rulesChannelId",
   "publicUpdatesChannelId", "vanityUrlCode", "description", "banner", "premiumTier",
   "premiumSubscriptionCount", "preferredLocale", "nsfwLevel", "joinedTimestamp", "large",
   "memberCount"}
NewGuild ==
  Each({"name", "icon", "splash", "discoverySplash", "ownerId", "afkChannelId",
        "afkTimeout", "verificationLevel", "defaultMessageNotifications",
        "explicitContentFilter", "mfaLevel", "features", "applicationId",
        "systemChannelId", "systemChannelFlags", "rulesChannelId",
        "publicUpdatesChannelId", "vanityUrlCode", "description", "banner",
        "premiumTier", "premiumSubscriptionCount", "preferredLocale", "nsfwLevel",
        "joinedTimestamp", "large", "memberCount"}, Plain)
PatchGuild ==
  Each({"name", "icon", "splash", "discoverySplash", "ownerId", "afkChannelId",
        "afkTimeout", "verificationLevel", "defaultMessageNotifications",
        "explicitContentFilter", "mfaLevel", "applicationId",
        "systemChannelId", "systemChannelFlags", "rulesChannelId",
        "publicUpdatesChannelId", "vanityUrlCode", "description", "banner",
        "premiumTier", "premiumSubscriptionCount", "preferredLocale", "nsfwLevel"}, Whole)
  ++ Each({"features"}, WholeAlike)
  ++ Each({"joinedTimestamp", "large", "memberCount"}, Kept)
APIGuild == {"premiumSubscriptionCount"}
GuildCreateExtraFields == {"joinedTimestamp", "large", "memberCount"}

GuildMemberChangeField ==
  {"nick", "avatar", "banner", "roles", "joinedTimestamp", "premiumSinceTimestamp", "deaf",
   "mute", "flags", "pending", "permissions", "communicationDisabledUntilTimestamp"}
NewGuildMember ==
  Each({"user", "nick", "avatar", "banner", "roles", "joinedTimestamp",
        "premiumSinceTimestamp", "deaf", "mute", "flags", "pending", "permissions",
        "communicationDisabledUntilTimestamp"}, Plain)
PatchGuildMember ==
  Each({"nick", "avatar", "banner", "joinedTimestamp", "premiumSinceTimestamp", "deaf",
        "mute", "flags", "pending", "permissions",
        "communicationDisabledUntilTimestamp"}, Kept)
  ++ Each({"roles"}, WholeAlike) ++ Each({"user"}, KeptQuiet)
GuildMemberUpdate ==
  {"user", "nick", "avatar", "banner", "joinedTimestamp", "premiumSinceTimestamp", "deaf",
   "mute", "flags", "pending", "permissions", "communicationDisabledUntilTimestamp"}

-----------------------------------------------------------------------------
(* Messages, presences, voice states and expressions.                      *)

MessageChangeField ==
  {"guildId", "content", "sentTimestamp", "editedTimestamp", "tts", "mentionEveryone",
   "mentions", "mentionRoles", "attachments", "embeds", "pinned", "webhookId", "type",
   "flags"}
NewMessage ==
  Each({"guildId", "author", "content", "sentTimestamp", "editedTimestamp", "tts",
        "mentionEveryone", "mentions", "mentionRoles", "attachments", "embeds", "pinned",
        "webhookId", "type", "flags"}, Plain)
PatchMessageWhole == Each(DOMAIN NewMessage, Whole)   \* were an update not partial
PatchMessage ==
  Each({"guildId", "content", "sentTimestamp", "editedTimestamp", "tts",
        "mentionEveryone", "pinned", "webhookId", "type", "flags"}, Kept)
  ++ Each({"mentions", "mentionRoles"}, KeptAlike)
  ++ Each({"attachments", "embeds"}, Fresh) ++ Each({"author"}, KeptQuiet)
MessageUpdateFields == DOMAIN NewMessage \cup {"member"}

PresenceChangeField == {"status", "clientStatus"}
NewPresence == Each({"status", "activities", "clientStatus"}, Plain)
PatchPresence ==
  Each({"status"}, Whole) ++ Each({"clientStatus"}, WholeAlike)
  ++ Each({"activities"}, Quiet)

NewVoiceState ==
  Each({"channelId", "sessionId", "deaf", "mute", "selfDeaf", "selfMute", "selfStream",
        "selfVideo", "suppress", "requestToSpeakTimestamp"}, Plain)
PatchVoiceState ==
  Each({"channelId", "sessionId", "deaf", "mute", "selfDeaf", "selfMute", "selfStream",
        "selfVideo", "suppress", "requestToSpeakTimestamp"}, Quiet)
\* A voice state reports nothing, but the handler has a clone of the former one.
CloneVoiceState ==
  {"channelId", "sessionId", "deaf", "mute", "selfDeaf", "selfMute", "selfStream",
   "selfVideo", "suppress", "requestToSpeakTimestamp"}
APIVoiceState == {"selfStream"}

NewEmoji ==
  Each({"name", "userId", "requireColons", "managed", "animated", "available"}, Plain)
  ++ Each({"roles"}, List)
PatchEmoji ==
  Each({"name", "userId", "requireColons", "managed", "animated", "available"}, Quiet)
  ++ Each({"roles"}, QuietList)
APIEmoji == {"roles", "userId", "requireColons", "managed", "animated", "available"}

NewSticker ==
  Each({"packId", "name", "description", "tags", "type", "formatType", "available",
        "guildId", "userId", "sortValue"}, Plain)
PatchSticker ==
  Each({"packId", "name", "description", "tags", "type", "formatType", "available",
        "guildId", "userId", "sortValue"}, Quiet)
APISticker == {"packId", "available", "guildId", "userId", "sortValue"}

NewGuildScheduledEvent ==
  Each({"channelId", "creatorId", "name", "description", "scheduledStartTimestamp",
        "scheduledEndTimestamp", "privacyLevel", "status", "entityType", "entityId",
        "entityMetadata", "creator", "image", "recurrenceRule",
        "guildScheduledEventExceptions"}, Plain)
PatchGuildScheduledEvent ==
  Each({"channelId", "name", "scheduledStartTimestamp", "scheduledEndTimestamp",
        "privacyLevel", "status", "entityType", "entityId", "entityMetadata",
        "recurrenceRule", "guildScheduledEventExceptions"}, Quiet)
  ++ Each({"creatorId", "description", "creator", "image"}, KeptQuiet)
APIGuildScheduledEvent == {"creatorId", "description", "creator", "image"}

-----------------------------------------------------------------------------
(* Channels: each class adds to the constructor and patch of the one above *)
(* it.                                                                     *)

ChannelFields ==
  {"flags", "name", "position", "permissionOverwrites", "parentId", "nsfw",
   "lastMessageId", "lastPinTimestamp", "rateLimitPerUser", "topic",
   "defaultAutoArchiveDuration", "bitrate", "userLimit", "rtcRegion", "videoQualityMode",
   "lastThreadId", "defaultReactionEmoji", "defaultThreadRateLimitPerUser",
   "defaultSortOrder", "defaultForumLayout", "ownerId", "archived", "autoArchiveDuration",
   "archiveTimestamp", "locked", "invitable", "createTimestamp", "messageCount",
   "memberCount", "totalMessageSent", "appliedTags", "icon", "applicationId", "managed"}

NewChannel == Each({"flags"}, Plain)
PatchChannel == Each({"flags"}, Whole)

NewGuildChannel ==
  NewChannel ++ Each({"name", "position", "parentId", "nsfw"}, Plain)
  ++ Each({"permissionOverwrites"}, List)
PatchGuildChannel ==
  PatchChannel
  ++ Each({"name", "position", "parentId", "nsfw"}, Whole)
  ++ Each({"permissionOverwrites"}, WholeList)

NewGuildTextBasedChannel ==
  NewGuildChannel
  ++ Each({"lastMessageId", "lastPinTimestamp", "rateLimitPerUser", "topic"}, Plain)
PatchGuildTextBasedChannel ==
  PatchGuildChannel
  ++ Each({"lastMessageId", "lastPinTimestamp", "rateLimitPerUser", "topic"}, Whole)

NewTextChannel == NewGuildTextBasedChannel ++ Each({"defaultAutoArchiveDuration"}, Plain)
PatchTextChannel ==
  PatchGuildTextBasedChannel ++ Each({"defaultAutoArchiveDuration"}, Whole)

NewAnnouncementChannel ==
  NewGuildTextBasedChannel ++ Each({"defaultAutoArchiveDuration"}, Plain)
PatchAnnouncementChannel ==
  PatchGuildTextBasedChannel ++ Each({"defaultAutoArchiveDuration"}, Whole)

NewVoiceChannel ==
  NewGuildTextBasedChannel
  ++ Each({"bitrate", "userLimit", "rtcRegion", "videoQualityMode"}, Plain)
PatchVoiceChannel ==
  PatchGuildTextBasedChannel
  ++ Each({"bitrate", "userLimit", "rtcRegion", "videoQualityMode"}, Whole)

NewThreadOnlyChannel ==
  NewGuildChannel
  ++ Each({"topic", "rateLimitPerUser", "lastThreadId", "defaultAutoArchiveDuration",
           "defaultReactionEmoji", "defaultThreadRateLimitPerUser", "defaultSortOrder"},
          Plain)
  ++ Each({"availableTags"}, List)
PatchThreadOnlyChannel ==
  PatchGuildChannel
  ++ Each({"topic", "rateLimitPerUser", "lastThreadId", "defaultAutoArchiveDuration",
           "defaultThreadRateLimitPerUser", "defaultSortOrder"}, Whole)
  ++ Each({"defaultReactionEmoji"}, WholeAlike) ++ Each({"availableTags"}, QuietList)

NewForumChannel == NewThreadOnlyChannel ++ Each({"defaultForumLayout"}, Plain)
PatchForumChannel == PatchThreadOnlyChannel ++ Each({"defaultForumLayout"}, Whole)

NewThreadChannel ==
  NewGuildTextBasedChannel
  ++ Each({"ownerId", "archived", "autoArchiveDuration", "archiveTimestamp", "locked",
           "invitable", "createTimestamp", "messageCount", "memberCount",
           "totalMessageSent"}, Plain)
  ++ Each({"appliedTags"}, List)
PatchThreadChannel ==
  PatchGuildTextBasedChannel
  ++ Each({"ownerId", "archived", "autoArchiveDuration", "archiveTimestamp", "locked",
           "invitable", "createTimestamp", "messageCount", "memberCount",
           "totalMessageSent"}, Whole)
  ++ Each({"appliedTags"}, WholeList)

NewDMChannel == NewChannel ++ Each({"lastMessageId"}, Plain) ++ Each({"recipients"}, List)
PatchDMChannel ==
  PatchChannel ++ Each({"lastMessageId"}, Whole) ++ Each({"recipients"}, QuietList)

NewGroupDMChannel ==
  NewChannel
  ++ Each({"name", "icon", "ownerId", "applicationId", "managed", "lastMessageId"}, Plain)
  ++ Each({"recipients"}, List)
PatchGroupDMChannel ==
  PatchChannel
  ++ Each({"name", "icon", "ownerId", "applicationId", "managed", "lastMessageId"}, Whole)
  ++ Each({"recipients"}, QuietList)

APIGuildChannel ==
  {"flags", "permissionOverwrites", "parentId", "nsfw", "lastMessageId",
   "lastPinTimestamp", "rateLimitPerUser", "topic", "defaultAutoArchiveDuration",
   "bitrate", "userLimit", "rtcRegion", "videoQualityMode"}
APIThreadOnlyChannel ==
  {"flags", "permissionOverwrites", "parentId", "nsfw", "topic", "rateLimitPerUser",
   "lastThreadId", "defaultAutoArchiveDuration", "availableTags", "defaultReactionEmoji",
   "defaultThreadRateLimitPerUser", "defaultSortOrder", "defaultForumLayout"}
APIThreadChannel ==
  APIGuildChannel
  \cup {"ownerId", "archived", "autoArchiveDuration", "archiveTimestamp", "locked",
        "invitable", "createTimestamp", "messageCount", "memberCount",
        "totalMessageSent", "appliedTags"}
APIDMChannel ==
  {"flags", "name", "icon", "ownerId", "applicationId", "managed", "lastMessageId",
   "recipients"}

-----------------------------------------------------------------------------
(* Structures that are built once for a listener and never patched.        *)

NewStageInstance ==
  Each({"topic", "privacyLevel", "discoverableDisabled", "guildScheduledEventId"}, Plain)

NewInvite ==
  Each({"guildId", "createdTimestamp", "inviter", "maxAge", "maxUses", "targetType",
        "targetUser", "targetApplication", "temporary", "uses", "expiresTimestamp",
        "roleIds"}, Plain)
InviteCreate ==
  {"guildId", "inviter", "targetType", "targetUser", "targetApplication", "roleIds"}

NewAuditLogEntry ==
  Each({"actionType", "userId", "targetId", "reason", "changes", "options"}, Plain)
APIAuditLogEntry == {"reason", "changes", "options"}

NewAutoModerationRule ==
  Each({"name", "creatorId", "eventType", "triggerType", "triggerMetadata", "actions",
        "enabled", "exemptRoles", "exemptChannels"}, Plain)

NewAutoModerationActionExecution ==
  Each({"action", "ruleId", "ruleTriggerType", "userId", "channelId", "messageId",
        "alertSystemMessageId", "content", "matchedKeyword", "matchedContent"}, Plain)
APIAutoModerationActionExecution == {"channelId", "messageId", "alertSystemMessageId"}

NewActivity ==
  Each({"name", "type", "url", "createdTimestamp", "timestamps", "applicationId",
        "statusDisplayType", "details", "detailsUrl", "state", "stateUrl", "emoji",
        "party", "assets", "secrets", "instance", "flags"}, Plain)
  ++ Each({"buttons"}, List)
APIActivity ==
  {"url", "timestamps", "applicationId", "statusDisplayType", "details", "detailsUrl",
   "state", "stateUrl", "emoji", "party", "assets", "secrets", "instance", "flags",
   "buttons"}

NewInteraction ==
  Each({"data", "guildId", "channelId", "token", "message", "appPermissions", "locale",
        "guildLocale", "entitlements", "authorizingIntegrationOwners", "context",
        "attachmentSizeLimit"}, Plain)
APIInteraction ==
  {"data", "guildId", "channelId", "member", "user", "message", "locale", "guildLocale",
   "context"}
=============================================================================
