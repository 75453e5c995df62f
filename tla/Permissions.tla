---------------------------- MODULE Permissions ----------------------------
(***************************************************************************)
(* What a member may do in a channel, computed from the guild, the roles   *)
(* and the overwrites that the cache happens to hold.  A set of flags is   *)
(* the bits of a PermissionsBitField.                                      *)
(***************************************************************************)
EXTENDS Naturals

CONSTANTS
  Flags,           \* PermissionFlagsBits
  Administrator,   \* the flag that escapes the calculation
  Spared,          \* ViewChannel and ReadMessageHistory, which a timeout leaves
  Roles,           \* of the guild
  everyone,        \* the role with the guild's own ID, that no member lists
  member,          \* the member, as the target of an overwrite
  MaxEdits         \* bound of the model

ASSUME FlagsAssumption ==
  Administrator \in Flags /\ Spared \subseteq Flags \ {Administrator}
ASSUME RolesAssumption == everyone \in Roles /\ member \notin Roles

VARIABLES
  owner,         \* whether the member owns the guild
  permissions,   \* of each role
  roles,         \* that the member holds, @everyone aside
  overwrites,    \* of the channel, for each role and the member
  timeout,       \* none, or whether it is over
  cachedGuild,   \* whether the guild is in the cache
  cachedRoles,   \* the roles that are
  edits

guildVars == <<owner, permissions, roles, overwrites, timeout>>
permissionsVars == <<guildVars, cachedGuild, cachedRoles, edits>>

Overwrite == [allow : SUBSET (Flags \ {Administrator}), deny : SUBSET (Flags \ {Administrator})]

PermissionsTypeOK ==
  /\ owner \in BOOLEAN /\ cachedGuild \in BOOLEAN
  /\ permissions \in [Roles -> SUBSET Flags]
  /\ roles \in SUBSET (Roles \ {everyone})
  /\ overwrites \in [Roles \cup {member} -> Overwrite]
  /\ timeout \in {"none", "over", "running"}
  /\ cachedRoles \in SUBSET Roles
  /\ edits \in Nat

-----------------------------------------------------------------------------
(* The computation.                                                        *)

\* An owner the cache does not know of is not one.
ComputeBasePermissions ==
  LET bits == UNION {permissions[r] : r \in ({everyone} \cup roles) \cap cachedRoles}
  IN IF (cachedGuild /\ owner) \/ Administrator \in bits THEN Flags ELSE bits

Apply(bits, allow, deny) == (bits \ deny) \cup allow

ComputeOverwrites(base) ==
  LET guildWide == Apply(base, overwrites[everyone].allow, overwrites[everyone].deny)
      byRoles == Apply(guildWide, UNION {overwrites[r].allow : r \in roles},
                                  UNION {overwrites[r].deny : r \in roles})
  IN IF Administrator \in base THEN Flags
     ELSE Apply(byRoles, overwrites[member].allow, overwrites[member].deny)

ApplyTimeout(bits) == IF timeout = "running" THEN bits \cap Spared ELSE bits

TimeoutFirst == ComputeOverwrites(ApplyTimeout(ComputeBasePermissions))
PermissionsIn == ApplyTimeout(ComputeOverwrites(ComputeBasePermissions))

Has(bits, flag) == Administrator \in bits \/ flag \in bits

-----------------------------------------------------------------------------
(* The guild is edited, and what the cache holds of it comes and goes.     *)

PermissionsInit ==
  /\ owner \in BOOLEAN
  /\ permissions = [r \in Roles |-> IF r = everyone THEN Spared ELSE {}]
  /\ roles \in SUBSET (Roles \ {everyone})
  /\ overwrites = [t \in Roles \cup {member} |-> [allow |-> {}, deny |-> {}]]
  /\ timeout = "none"
  /\ cachedGuild = TRUE /\ cachedRoles = Roles
  /\ edits = 0

Edited == edits < MaxEdits /\ edits' = edits + 1

EditRole(r) ==
  /\ Edited
  /\ \E flag \in Flags :
       permissions' = [permissions EXCEPT ![r] =
                         IF flag \in @ THEN @ \ {flag} ELSE @ \cup {flag}]
  /\ UNCHANGED <<owner, roles, overwrites, timeout, cachedGuild, cachedRoles>>

EditOverwrite(t) ==
  /\ Edited
  /\ \E flag \in Flags \ {Administrator}, allow, deny \in BOOLEAN :
       overwrites' = [overwrites EXCEPT ![t] =
         [allow |-> IF allow THEN @.allow \cup {flag} ELSE @.allow \ {flag},
          deny |-> IF deny THEN @.deny \cup {flag} ELSE @.deny \ {flag}]]
  /\ UNCHANGED <<owner, permissions, roles, timeout, cachedGuild, cachedRoles>>

EditMember ==
  /\ Edited
  /\ roles' \in SUBSET (Roles \ {everyone})
  /\ timeout' \in {timeout, "running"}
  /\ UNCHANGED <<owner, permissions, overwrites, cachedGuild, cachedRoles>>

\* The timeout stays on the member once it is over.
TimeoutRunsOut ==
  /\ timeout = "running" /\ timeout' = "over"
  /\ UNCHANGED <<owner, permissions, roles, overwrites, cachedGuild, cachedRoles, edits>>

\* The cache gains or loses roles or the guild, as its policy has it.
CacheChanges ==
  /\ Edited
  /\ cachedGuild' \in BOOLEAN /\ cachedRoles' \in SUBSET Roles
  /\ UNCHANGED guildVars

PermissionsNext ==
  \/ \E r \in Roles : EditRole(r)
  \/ \E t \in Roles \cup {member} : EditOverwrite(t)
  \/ EditMember
  \/ TimeoutRunsOut
  \/ CacheChanges

PermissionsSpec == PermissionsInit /\ [][PermissionsNext]_permissionsVars

-----------------------------------------------------------------------------
(* What Discord lets the member do, flag by flag: the most specific        *)
(* overwrite that mentions it decides, and among roles one that allows it. *)

Privileged == owner \/ \E r \in {everyone} \cup roles : Administrator \in permissions[r]

Entitled(flag) ==
  /\ timeout = "running" => flag \in Spared
  /\ \/ Privileged
     \/ flag \in overwrites[member].allow
     \/ /\ flag \notin overwrites[member].deny
        /\ \/ \E r \in roles : flag \in overwrites[r].allow
           \/ /\ \A r \in roles : flag \notin overwrites[r].deny
              /\ \/ flag \in overwrites[everyone].allow
                 \/ /\ flag \notin overwrites[everyone].deny
                    /\ \E r \in {everyone} \cup roles : flag \in permissions[r]

CacheComplete == cachedGuild /\ {everyone} \cup roles \subseteq cachedRoles

\* However little of the guild the cache holds, the member is never said to have a permission
\* that Discord would refuse, and with all of it the answer is Discord's.
NeverOverstated ==
  \A flag \in Flags :
    /\ Has(PermissionsIn, flag) => Entitled(flag)
    /\ CacheComplete /\ Entitled(flag) => Has(PermissionsIn, flag)
=============================================================================
