-------------------------- MODULE MCProjectAccess --------------------------
(* ProjectAccess on one slug and one task name; ids of projects and tasks  *)
(* come back as fresh rows.  The administrator need not be a member.       *)
EXTENDS ProjectAccess, TLC

CONSTANTS a

MCAdmins == {a}
MCAddedRoles == {"viewer", "member", "owner"}
MCGrantedRoles == {"viewer", "operator"}

Symmetry == Permutations(ProjectIds) \cup Permutations(TaskIds) \cup Permutations(Clients)
=============================================================================
