------------------------------- MODULE Roster -------------------------------
(***************************************************************************)
(* What the member administration of one organization promises, whatever   *)
(* is cached and whoever races whom.  The only state is the committed      *)
(* organization_members table.  Users join by an invitation that carries a *)
(* role, a member's role may be replaced, a member may be removed, and the *)
(* row of the founder (the user who created the organization) is written   *)
(* by nobody ever again.                                                   *)
(***************************************************************************)

CONSTANTS Users,    \* registered users
          Founder,  \* the user whose request created the organization
          Roles,    \* OrganizationRole
          Owner,    \* the role given to the founder
          Absent    \* "there is no row"

VARIABLE role       \* role[u]: the committed role of u, or Absent

Init == role = [u \in Users |-> IF u = Founder THEN Owner ELSE Absent]

Invite(u) ==
  /\ role[u] = Absent
  /\ \E new \in Roles : role' = [role EXCEPT ![u] = new]

ChangeRole(u) ==
  /\ u # Founder
  /\ role[u] # Absent
  /\ \E new \in Roles : role' = [role EXCEPT ![u] = new]

Remove(u) ==
  /\ u # Founder
  /\ role' = [role EXCEPT ![u] = Absent]

Next == \E u \in Users : Invite(u) \/ ChangeRole(u) \/ Remove(u)

Spec == Init /\ [][Next]_role
=============================================================================
