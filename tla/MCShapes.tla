------------------------------ MODULE MCShapes ------------------------------
(***************************************************************************)
(* Model checking of the three parts that say what something is and share  *)
(* no state: the structures, a member's permissions and the requests.  A   *)
(* behaviour is one of a single of them.                                   *)
(***************************************************************************)
EXTENDS Structures, Permissions, Routes, TLC

VARIABLE of

Unedited == PermissionsInit /\ owner = FALSE /\ roles = {}

ShapesInit ==
  \/ of = "Structures" /\ StructuresInit /\ Unedited /\ RoutesInit
  \/ of = "Permissions" /\ StructuresIdle /\ PermissionsInit /\ RoutesInit
  \/ of = "Routes" /\ StructuresIdle /\ Unedited /\ RoutesInit

ShapesNext ==
  \/ of = "Structures" /\ StructuresNext /\ UNCHANGED <<of, permissionsVars, routesVars>>
  \/ of = "Permissions" /\ PermissionsNext /\ UNCHANGED <<of, structureVars, routesVars>>
  \/ of = "Routes" /\ RoutesNext /\ UNCHANGED <<of, structureVars, permissionsVars>>

ShapesSpec == ShapesInit /\ [][ShapesNext]_<<of, structureVars, permissionsVars, routesVars>>

\* Entities, secrets and emojis are interchangeable, and so are the roles but one.
Interchangeable ==
  {f @@ g @@ h @@ k : f \in Permutations(Ids), g \in Permutations(Tokens),
                      h \in Permutations(Emojis), k \in Permutations(Roles \ {everyone})}
=============================================================================
