-------------------------- MODULE MCUserMutations --------------------------
(* Small instances of UserMutations: who is a member before, and which calls *)
(* clients make. Every run picks its own combination in its cfg.             *)
EXTENDS UserMutations, TLC

CONSTANTS ann, bob, eve, school, academy, g1

TwoAdmins == {[user |-> ann, org |-> school, role |-> "admin"],
              [user |-> bob, org |-> school, role |-> "admin"]}

AdminAndTeacher == {[user |-> ann, org |-> school, role |-> "admin"],
                    [user |-> bob, org |-> school, role |-> "teacher"]}

Call(kind, org, user, role, groups) ==
  [kind |-> kind, org |-> org, user |-> user, role |-> role, groups |-> groups]

Create(user) == Call("create_organization", None, user, None, {})
Wait(user, org) == Call("set_waiting", org, user, None, {})
Approve(user, org, role) == Call("approve_user", org, user, role, {})
RejectCall(user, org) == Call("reject_user", org, user, None, {})
Assign(user, role, groups) == Call("assign_role", school, user, role, groups)
Revoke(user) == Call("revoke_role", school, user, None, {})
Delete(user) == Call("delete_user", school, user, None, {})

\* One handler at a time, every kind of call.
SequentialCalls ==
  {Create(eve), Wait(eve, school), Wait(eve, academy), Approve(eve, school, "teacher"),
   RejectCall(eve, school), Assign(bob, "admin", {g1}), Revoke(ann), Delete(bob)}

\* Handlers that race for the membership of one user.
JoiningCalls ==
  {Create(eve), Wait(eve, None), Approve(eve, school, "teacher"), Delete(eve)}

\* Handlers that race for the role of one member.
RoleCalls == {Assign(bob, "admin", {g1}), Delete(bob)}

\* One question each: what two administrators can do to each other, what the
\* mirror is left with, what becomes of an operation after a failure.
DemotionCalls == {Revoke(ann), Revoke(bob)}
RoleChangeCalls == {Assign(bob, "admin", {g1}), Revoke(bob)}
ApprovalCalls == {Wait(eve, school), Approve(eve, school, "teacher")}
=============================================================================
