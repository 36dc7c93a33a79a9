--------------------------- MODULE MCProvisioning ---------------------------
(* Small instances of Provisioning: which resources clients create and      *)
(* delete, and who asks. Every run picks its own combination in its cfg.     *)
EXTENDS Provisioning, TLC

CONSTANTS g1, c1, maths, lab, tom

CreateGroup(name, teacher) ==
  [kind |-> "create_group", name |-> name, id |-> None, teacher |-> teacher]
DeleteGroup(id, teacher) ==
  [kind |-> "delete_group", name |-> None, id |-> id, teacher |-> teacher]
CreateClassroom(name) ==
  [kind |-> "create_classroom", name |-> name, id |-> None, teacher |-> None]
DeleteClassroom(id) ==
  [kind |-> "delete_classroom", name |-> None, id |-> id, teacher |-> None]

\* One handler at a time: a group and a classroom, made and deleted.
SequentialCalls ==
  {CreateGroup(maths, None), CreateGroup(maths, tom), DeleteGroup(g1, None),
   DeleteGroup(g1, tom), CreateClassroom(lab), DeleteClassroom(c1)}

\* Handlers that race for a group and for a classroom.
RacingCalls == {CreateGroup(maths, tom), DeleteGroup(g1, None), CreateClassroom(lab)}

\* One question each: what becomes of a creation, and of a deletion, after a
\* failure.
CreationCalls == {CreateGroup(maths, None), CreateClassroom(lab)}
DeletionCalls == {CreateGroup(maths, None), DeleteGroup(g1, None)}

\* Handlers are interchangeable where a run checks no liveness.
RequestSymmetry == Permutations(Requests)
=============================================================================
