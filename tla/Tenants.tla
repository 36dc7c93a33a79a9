------------------------------ MODULE Tenants -------------------------------
(* The users and the organizations they may belong to, for the components     *)
(* that let users in: invitations and browser sessions.                       *)
EXTENDS Absent

CONSTANTS Users, Orgs
=============================================================================
