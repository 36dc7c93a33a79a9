-------------------------- MODULE DurableMutation --------------------------
(* What the ledger promises of a mutation that spans the ClassroomPath       *)
(* tables and the OpenPath mirror: its local work is done before the mirror  *)
(* is touched on its behalf, it is declared complete only after both, and    *)
(* what was done is never taken back. Requests, retries, crashes and errors  *)
(* do not appear: they may repeat an effect, never invert the order.         *)
CONSTANT Operations

VARIABLE did   \* the effects each operation has had so far

Effects == {"local", "mirror", "completed"}

Init == did = [k \in Operations |-> {}]

Perform(k, effect) == did' = [did EXCEPT ![k] = @ \union {effect}]

CommitLocal(k) == Perform(k, "local")

SynchronizeMirror(k) ==
  /\ "local" \in did[k]
  /\ Perform(k, "mirror")

Complete(k) ==
  /\ {"local", "mirror"} \subseteq did[k]
  /\ Perform(k, "completed")

Next == \E k \in Operations : CommitLocal(k) \/ SynchronizeMirror(k) \/ Complete(k)

Spec == Init /\ [][Next]_did
=============================================================================
