----------------------------- MODULE Structures -----------------------------
(***************************************************************************)
(* A structure through its life: built from the first payload about its    *)
(* entity and patched by those that follow, each patch reporting to        *)
(* listeners what the fields it changed held before.  The fields of a      *)
(* class do not depend on one another but for the few that Together lists, *)
(* so a behaviour follows one of them, or those few.                       *)
(***************************************************************************)
EXTENDS Fields, Naturals, Sequences, FiniteSets

CONSTANT MaxPatches   \* bound of the model

\* Values of a payload: none, an empty list, null, and two that differ.
Absent == "absent"
Empty == "empty"
Null == "null"
Given == {"this", "that"}

VARIABLES
  class,     \* of the structure followed
  followed,  \* the fields of it that are followed
  structure, \* what it holds, nothing before it is built
  known,     \* what Discord last said of each field
  reports,   \* what each patch reported: the changes, or nothing
  first      \* what it held as it was built

structureVars == <<class, followed, structure, known, reports, first>>

-----------------------------------------------------------------------------
(* The classes.                                                            *)

\* The class of a channel, by its type; one that belongs to a guild needs the guild's ID.
CreateChannel(type, inGuild) ==
  IF type \in {"DM", "GroupDM"} THEN type
  ELSE IF ~inGuild THEN "none"
  ELSE LET classes == [GuildText |-> "Text", GuildAnnouncement |-> "Announcement",
             GuildVoice |-> "Voice", GuildStageVoice |-> "Voice", GuildCategory |-> "Category",
             GuildForum |-> "Forum", GuildMedia |-> "Media", AnnouncementThread |-> "Thread",
             PublicThread |-> "Thread", PrivateThread |-> "Thread"]
       IN IF type \in DOMAIN classes THEN classes[type] ELSE "none"

ChannelTypes ==
  {"GuildText", "GuildAnnouncement", "GuildVoice", "GuildStageVoice", "GuildCategory",
   "GuildForum", "GuildMedia", "AnnouncementThread", "PublicThread", "PrivateThread", "DM",
   "GroupDM", "GuildDirectory"}
ChannelClasses == {CreateChannel(t, g) : t \in ChannelTypes, g \in BOOLEAN} \ {"none"}

ChannelConstructor ==
  [Text |-> NewTextChannel, Announcement |-> NewAnnouncementChannel,
   Voice |-> NewVoiceChannel, Category |-> NewGuildChannel, Forum |-> NewForumChannel,
   Media |-> NewThreadOnlyChannel, Thread |-> NewThreadChannel, DM |-> NewDMChannel,
   GroupDM |-> NewGroupDMChannel]
Constructor ==
  ChannelConstructor ++
  [User |-> NewUser, ClientUser |-> NewClientUser, Role |-> NewRole, Guild |-> NewGuild,
   GuildMember |-> NewGuildMember, Message |-> NewMessage, Presence |-> NewPresence,
   VoiceState |-> NewVoiceState, Emoji |-> NewEmoji, Sticker |-> NewSticker,
   GuildScheduledEvent |-> NewGuildScheduledEvent, StageInstance |-> NewStageInstance,
   Invite |-> NewInvite, AuditLogEntry |-> NewAuditLogEntry,
   AutoModerationRule |-> NewAutoModerationRule,
   AutoModerationActionExecution |-> NewAutoModerationActionExecution,
   Activity |-> NewActivity, Interaction |-> NewInteraction]

PatchOf ==
  [User |-> PatchUser, ClientUser |-> PatchClientUser, Role |-> PatchRole,
   Guild |-> PatchGuild, GuildMember |-> PatchGuildMember, Message |-> PatchMessage,
   Presence |-> PatchPresence, VoiceState |-> PatchVoiceState, Emoji |-> PatchEmoji,
   Sticker |-> PatchSticker, GuildScheduledEvent |-> PatchGuildScheduledEvent,
   Text |-> PatchTextChannel, Announcement |-> PatchAnnouncementChannel,
   Voice |-> PatchVoiceChannel, Category |-> PatchGuildChannel, Forum |-> PatchForumChannel,
   Media |-> PatchThreadOnlyChannel, Thread |-> PatchThreadChannel, DM |-> PatchDMChannel,
   GroupDM |-> PatchGroupDMChannel]

Classes == DOMAIN Constructor
Others == Classes \ DOMAIN ChannelConstructor
PatchedClasses == DOMAIN PatchOf

\* The fields whose changes the types promise a listener.
ChangeField ==
  [User |-> UserChangeField, ClientUser |-> ClientUserChangeField, Role |-> RoleChangeField,
   Guild |-> GuildChangeField, GuildMember |-> GuildMemberChangeField,
   Message |-> MessageChangeField, Presence |-> PresenceChangeField,
   VoiceState |-> CloneVoiceState]
  ++ [c \in ChannelClasses |-> ChannelFields \cap DOMAIN PatchOf[c]]
  ++ [c \in Classes |-> {}]

\* The fields a payload may lack, and those of them whose lack tells nothing.
Optional ==
  [User |-> APIUser, ClientUser |-> APIUser, Role |-> APIRole,
   Guild |-> APIGuild \cup GuildCreateExtraFields, GuildMember |-> GuildMemberUpdate,
   Message |-> MessageUpdateFields, VoiceState |-> APIVoiceState, Emoji |-> APIEmoji,
   Sticker |-> APISticker, GuildScheduledEvent |-> APIGuildScheduledEvent,
   Forum |-> APIThreadOnlyChannel, Media |-> APIThreadOnlyChannel,
   Thread |-> APIThreadChannel, DM |-> APIDMChannel, GroupDM |-> APIDMChannel,
   Invite |-> InviteCreate, AuditLogEntry |-> APIAuditLogEntry,
   AutoModerationActionExecution |-> APIAutoModerationActionExecution,
   Activity |-> APIActivity, Interaction |-> APIInteraction]
  ++ [c \in ChannelClasses |-> APIGuildChannel] ++ [c \in Classes |-> {}]
Partial ==
  [Guild |-> GuildCreateExtraFields, GuildMember |-> GuildMemberUpdate,
   Message |-> MessageUpdateFields, GuildScheduledEvent |-> APIGuildScheduledEvent]
  ++ [c \in Classes |-> {}]

\* The fields of which a listener is told that they may be lists.
Lists ==
  {"features", "roles", "mentions", "mentionRoles", "attachments", "embeds",
   "permissionOverwrites", "appliedTags", "availableTags", "recipients", "activities",
   "buttons", "guildScheduledEventExceptions", "entitlements", "exemptRoles",
   "exemptChannels", "tags"}
\* Those parsed anew for each payload, so that none is identical to the one before.
Objects == Lists \cup {"colors", "clientStatus", "defaultReactionEmoji"}
\* Those that are never undefined once built, by their declarations.
AlwaysLists ==
  [Emoji |-> {"roles"}, Activity |-> {"buttons"}]
  ++ [c \in ChannelClasses |->
        {"permissionOverwrites", "appliedTags", "availableTags", "recipients"}]
  ++ [c \in Classes |-> {}]

-----------------------------------------------------------------------------
(* Payloads.                                                               *)

Together ==
  [Message |-> {{"author", "content"}, {"author", "guildId", "member"}},
   Interaction |-> {{"guildId", "member", "user"}}]
  ++ [c \in Classes |-> {}]
Followings(c) == {{f} : f \in DOMAIN Constructor[c] \ UNION Together[c]} \cup Together[c]

Sayings(c, f) ==
  Given \cup {v \in {Absent} : f \in Optional[c]} \cup {v \in {Empty} : f \in Lists}
        \cup {v \in {Null} : f = "defaultReactionEmoji"}

\* An interaction names its user beside the member that has it or, outside of a guild, alone.
Possible(c, data) ==
  c = "Interaction" /\ "user" \in DOMAIN data =>
    /\ (data.member = Absent) = (data.guildId = Absent)
    /\ (data.user = Absent) = (data.member # Absent)
Payloads ==
  {data \in [followed -> Given \cup {Absent, Empty, Null}] :
     /\ \A f \in followed : data[f] \in Sayings(class, f)
     /\ Possible(class, data)}

-----------------------------------------------------------------------------
(* Constructors and patches.                                               *)

Shaped(way, v) == IF way = List /\ v = Absent THEN Empty ELSE v

\* Whether a message lacked its author or its text as it was built, and its author's
\* membership; who invoked an interaction, from the membership or else the payload.
Partiality(data) ==
  IF Absent \in {data.author, data.content} THEN "partial" ELSE "complete"
Membership(data) ==
  IF Absent \in {data.guildId, data.author, data.member} THEN Absent ELSE data.member
InteractionMember(data) ==
  IF Absent \in {data.guildId, data.member} THEN Absent ELSE data.member
Invoker(data) ==
  IF InteractionMember(data) # Absent THEN InteractionMember(data) ELSE data.user

Derived(data) ==
  IF class = "Message" /\ {"author", "content"} \subseteq followed
  THEN [partial |-> Partiality(data)]
  ELSE IF class = "Message" /\ "member" \in followed THEN [member |-> Membership(data)]
  ELSE IF class = "Interaction" /\ "user" \in followed
       THEN [member |-> InteractionMember(data), user |-> Invoker(data)]
  ELSE <<>>

Build(data) ==
  Derived(data) ++
  [f \in followed \cap DOMAIN Constructor[class] |-> Shaped(Constructor[class][f], data[f])]

\* Lists and objects are alike by what is in them: one that is absent is as good as empty.
Blank(f) ==
  IF f \in Lists THEN {Absent, Empty}
  ELSE IF f = "defaultReactionEmoji" THEN {Absent, Null} ELSE {}
Alike(f, v, w) == v = w \/ {v, w} \subseteq Blank(f)

Assigns(way, data, f) == way.assigns = "always" \/ data[f] # Absent
Records(way, data, f) ==
  /\ Assigns(way, data, f)
  /\ \/ way.records = "any"
     \/ way.records = "contents" /\ ~Alike(f, structure[f], data[f])
     \/ /\ way.records = "identity"
        /\ structure[f] # data[f] \/ (f \in Objects /\ data[f] # Absent)

PatchedFields == followed \cap DOMAIN PatchOf[class]
Patch(data) ==
  [f \in {g \in PatchedFields : Assigns(PatchOf[class][g], data, g)} |->
     Shaped(PatchOf[class][f].value, data[f])] ++ structure

\* The former values a listener of the update is given.
Reported(data) ==
  IF class = "VoiceState" THEN [f \in followed \cap CloneVoiceState |-> structure[f]]
  ELSE [f \in {g \in PatchedFields : Records(PatchOf[class][g], data, g)} |-> structure[f]]

-----------------------------------------------------------------------------
(* The life of a structure.                                                *)

StructuresIdle ==
  class = "none" /\ followed = {} /\ structure = <<>> /\ known = <<>> /\ reports = <<>>
  /\ first = <<>>

StructuresInit ==
  /\ class \in Others \cup ChannelClasses
  /\ followed \in Followings(class)
  /\ structure = <<>> /\ known = <<>> /\ reports = <<>> /\ first = <<>>

Construct ==
  /\ structure = <<>> /\ followed # {}
  /\ \E data \in Payloads :
       /\ structure' = Build(data) /\ first' = Build(data)
       /\ known' = data
  /\ UNCHANGED <<class, followed, reports>>

Update ==
  /\ structure # <<>> /\ class \in PatchedClasses /\ Len(reports) < MaxPatches
  /\ \E data \in Payloads :
       /\ structure' = Patch(data)
       /\ reports' = Append(reports, Reported(data))
       /\ known' = [f \in followed |->
                      IF data[f] = Absent /\ f \in Partial[class] THEN known[f] ELSE data[f]]
  /\ UNCHANGED <<class, followed, first>>

StructuresNext == Construct \/ Update

-----------------------------------------------------------------------------
(* Properties.                                                             *)

Least(S) == CHOOSE i \in S : \A j \in S : i <= j

\* What f was before the i-th patch, by the reports from it on.
Before(i, f) ==
  LET those == {j \in i .. Len(reports) : f \in DOMAIN reports[j]}
  IN IF those = {} THEN structure[f] ELSE reports[Least(those)][f]

\* A structure holds what Discord last said of each field: a partial update leaves alone what
\* it does not carry, any other clears it, and patch and constructor agree about the rest.
HoldsWhatWasSaid ==
  \A f \in (followed \cap DOMAIN structure) \ {"member", "user"} :
    structure[f] = Shaped(IF f \in AlwaysLists[class] THEN List ELSE Plain, known[f])

\* The reports add up: taking back the changes leads to what the structure held at first,
\* each is a change, and each is of a field that its type promises.
ReportsAddUp ==
  \A f \in followed \cap DOMAIN structure :
    /\ f \in ChangeField[class] => Alike(f, Before(1, f), first[f])
    /\ \A i \in DOMAIN reports : f \in DOMAIN reports[i] =>
         /\ f \in ChangeField[class]
         /\ class = "VoiceState" \/ f \in {"attachments", "embeds"}
              \/ ~Alike(f, reports[i][f], Before(i + 1, f))

\* What the type of a complete message promises it has, and what an interaction always has.
PromisesKept ==
  structure # <<>> =>
    /\ "partial" \in DOMAIN structure /\ structure.partial = "complete" =>
         Absent \notin {structure.author, structure.content}
    /\ class = "Interaction" /\ "user" \in followed => structure.user # Absent

\* A structure tells the truth about its entity, to whoever reads it and to whoever adds up
\* what its updates report.
StructuresAgree == HoldsWhatWasSaid /\ ReportsAddUp /\ PromisesKept
=============================================================================
