------------------------- MODULE ResourceLifecycle -------------------------
(* What provisioning promises of a resource that lives in OpenPath and is    *)
(* owned in ClassroomPath: it is created once, linked only while it exists,  *)
(* removed only while nothing links it, and once gone it stays gone.         *)
CONSTANT Resources

VARIABLE phase   \* of each resource

Phases == {"absent", "unlinked", "linked", "gone"}

Init == phase = [id \in Resources |-> "absent"]

Move(id, from, to) ==
  /\ phase[id] = from
  /\ phase' = [phase EXCEPT ![id] = to]

Create(id) == Move(id, "absent", "unlinked")
Link(id) == Move(id, "unlinked", "linked")
Unlink(id) == Move(id, "linked", "unlinked")
Remove(id) == Move(id, "unlinked", "gone")

Next == \E id \in Resources : Create(id) \/ Link(id) \/ Unlink(id) \/ Remove(id)

Spec == Init /\ [][Next]_phase
=============================================================================
