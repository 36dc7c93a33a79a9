--------------------------- MODULE MutationLedger ---------------------------
(* The rows of cp_mutation_operations and the rules by which the workflow    *)
(* engine decides which step of an operation to run                          *)
(* (api/src/lib/cross-system-mutations.ts, cross-system-workflow-engine.ts). *)
(* Only operators: the modules of the workflow families keep the rows.       *)
EXTENDS Integers, Sequences

CONSTANT None   \* the absent value: no row, no result, no role

-----------------------------------------------------------------------------
(* Rows *)

OperationSteps == {"pending", "upstream_created", "local_linked", "local_committed",
                   "synced_upstream", "completed", "failed"}

OperationStatuses == {"in_progress", "completed", "failed"}

\* The row a first request inserts; result {} reads back as None.
NewOperation(metadata) ==
  [status |-> "in_progress", step |-> "pending", result |-> None, metadata |-> metadata]

\* A progress write updates by id, whatever the row holds by then; a null
\* result is passed as undefined and leaves the stored one alone.
Keep(stored, given) == IF given = None THEN stored ELSE given

Progress(operation, step, result, metadata) ==
  [status   |-> IF step = "completed" THEN "completed" ELSE "in_progress",
   step     |-> step,
   result   |-> Keep(operation.result, result),
   metadata |-> metadata]

Failure(operation, result, metadata) ==
  [status   |-> "failed",
   step     |-> "failed",
   result   |-> Keep(operation.result, result),
   metadata |-> metadata]

-----------------------------------------------------------------------------
(* Which steps a request runs, from the row it loaded and the result it holds *)

\* Mutant: a step that is not in the order counts as past every step.
HasReachedStepOrUnknown(current, target, stepOrder) ==
  ~ \E i, j \in DOMAIN stepOrder :
      stepOrder[i] = current /\ stepOrder[j] = target /\ i < j

\* A step that is not in the order ("failed") has reached nothing.
HasReachedStep(current, target, stepOrder) ==
  \E i, j \in DOMAIN stepOrder :
    stepOrder[i] = current /\ stepOrder[j] = target /\ j <= i

LocalFirstOrder == <<"pending", "local_committed", "synced_upstream", "completed">>

UpstreamFirstOrder == <<"pending", "upstream_created", "local_linked", "completed">>

RunsCommitLocal(proof, seen, result) ==
  IF proof = "result"
  THEN result = None
  ELSE ~HasReachedStep(seen, "local_committed", LocalFirstOrder)

\* Mutant: the local commit taken for the synchronization.
RunsSyncUpstreamEarly(seen, result) ==
  result /= None /\ ~HasReachedStep(seen, "local_committed", LocalFirstOrder)

RunsSyncUpstream(seen, result) ==
  result /= None /\ ~HasReachedStep(seen, "synced_upstream", LocalFirstOrder)

RunsCreateUpstream(result) == result = None

RunsLinkLocal(seen, result) ==
  result /= None /\ ~HasReachedStep(seen, "local_linked", UpstreamFirstOrder)

RunsCommitLocalDelete(result) == result = None
=============================================================================
