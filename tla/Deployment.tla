------------------------------ MODULE Deployment ------------------------------
(***************************************************************************)
(* The production host while releases are deployed on it and rolled back:  *)
(* the deployment transaction and its marker file (deployment-             *)
(* transaction.sh), the shared runtime executor (deploy-runtime-           *)
(* executor.sh), the release pointers (release-bundle-state.mjs), the      *)
(* terminal ledger (deployment-ledger.sh), the recovery executor and the   *)
(* workflow jobs that start them.  One process runs at a time: the         *)
(* workflow's concurrency group is serial.  A killed process leaves the    *)
(* files as they are and loses its memory.                                 *)
(***************************************************************************)
EXTENDS Absent, Naturals, Sequences, SequencesExt

CONSTANTS
    Releases,      \* the release ids
    First,         \* the release the host runs at first
    SmokeMayFail,  \* whether the smoke tests may reject what was committed
    MaxRuns,       \* bound on workflow runs
    MaxRecoveries, \* bound on rollback jobs
    MaxFaults,     \* bound on failed writes of the marker
    MaxCrashes     \* bound on killed processes

VARIABLES
    marker,    \* deployment-phase.env: the durable transaction, or None
    pointers,  \* the files current and previous of the release state
    images,    \* current-images.env, pending-images.env
    stored,    \* the releases whose bundles are persisted
    artifact,  \* the candidate the persisted recovery artifact is for
    serving,   \* the release the containers run, None when they are down
    ledger,    \* transaction id -> its terminal facts
    locked,    \* the ledger's lock directory exists
    deploy,    \* the running deployment process, or None
    recovery,  \* the running recovery process, or None
    run,       \* the last workflow run
    spent      \* runs, recoveries, faults and crashes so far

deployVars == <<marker, pointers, images, stored, artifact, serving, ledger,
                locked, deploy, recovery, run, spent>>

Contract == INSTANCE ExecutorContract WITH transaction <- marker
Phases == Contract!Phases

Ids == 1..MaxRuns
Markers == [id : Ids, phase : Phases, boundary : BOOLEAN, candidate : Releases,
            previous : Releases \cup {None}, current : Releases \cup {None},
            rollback : {"not_attempted", "running", "failed", "success"}]

\* The steps of a deployment and of a recovery, and what they remember.
DeploySteps ==
    {"checkout", "capture", "identify", "artifact", "prepare", "boundary",
     "migrate", "start", "activated", "probe", "verified", "pointer",
     "pointing", "publish", "commit", "record", "succeeded", "failing", "beginning", "recovering",
     "recovered", "unrecovered", "rolledback", "failed", "trapped", "trapfact",
     "ended"}

DeployRecords == [at : DeploySteps, mem : Markers \cup {None},
                  replaced : Releases \cup {None}, holds : BOOLEAN]

RecoverySteps ==
    {"select", "begin", "restart", "demote", "promote", "republish", "restored?",
     "unready", "restored", "broken"}

RecoveryRecords == [at : RecoverySteps, mem : Markers \cup {None},
                    target : Releases \cup {None}]

DeploymentAssumption ==
    /\ First \in Releases /\ None \notin Releases
    /\ None \notin Markers \cup Contract!Transactions \cup DeployRecords \cup RecoveryRecords
    /\ SmokeMayFail \in BOOLEAN
    /\ {MaxRuns, MaxRecoveries, MaxFaults, MaxCrashes} \subseteq Nat

FreshMarker(id, candidate) ==
    [id |-> id, phase |-> "PREPARED", boundary |-> FALSE, previous |-> None,
     candidate |-> candidate, current |-> None, rollback |-> "not_attempted"]

IsAllowed(from, to, explicit) ==
    \/ to \in Contract!ALLOWED_TRANSITIONS[from]
    \/ from = "COMMITTED" /\ to = "ROLLING_BACK" /\ explicit

\* The transaction m moved to a phase, as it is written to the marker.
Moved(m, phase) ==
    [m EXCEPT !.phase = phase,
              !.boundary = @ \/ phase = "SWITCHING",
              !.current = Contract!CurrentAfter(m, phase),
              !.rollback = IF phase = "ROLLED_BACK" THEN "success" ELSE @]

CanMove(m, phase, explicit) ==
    /\ IsAllowed(m.phase, phase, explicit)
    /\ phase = "ROLLING_BACK" => m.boundary

Fault == /\ spent.faults < MaxFaults
         /\ spent' = [spent EXCEPT !.faults = @ + 1]

\* Mutant: a failed write of the marker goes unnoticed.
TransitionedUnchecked(m, phase, explicit, m2, ok) ==
    /\ CanMove(m, phase, explicit) /\ m2 = Moved(m, phase) /\ ok
    /\ \/ marker' = m2 /\ UNCHANGED spent
       \/ Fault /\ UNCHANGED marker

\* What deployment_transaction_transition leaves in memory and in the marker:
\* memory follows the marker, and a failed write changes neither.
Transitioned(m, phase, explicit, m2, ok) ==
    \/ /\ CanMove(m, phase, explicit)
       /\ m2 = Moved(m, phase) /\ ok
       /\ marker' = m2 /\ UNCHANGED spent
    \/ /\ CanMove(m, phase, explicit)
       /\ m2 = m /\ ~ok /\ Fault
       /\ UNCHANGED marker
    \/ /\ ~CanMove(m, phase, explicit)
       /\ m2 = m /\ ~ok
       /\ UNCHANGED <<marker, spent>>

\* deployment_transaction_mark_failure: a transition, or the write again.
Failed(m, m2) ==
    \/ m.phase # "FAILED" /\ \E ok \in BOOLEAN : Transitioned(m, "FAILED", FALSE, m2, ok)
    \/ m.phase = "FAILED" /\ m2 = m /\ marker' = m /\ UNCHANGED spent
    \/ m.phase = "FAILED" /\ m2 = m /\ Fault /\ UNCHANGED marker

\* release-bundle-state.mjs activate: the release replaced becomes previous.
ActivatedPrevious(release) ==
    IF pointers.current = release THEN pointers.previous ELSE pointers.current

(***************************************************************************)
(* The ledger.                                                             *)
(***************************************************************************)

\* deployment_ledger_build_record: what a fact must agree with.
IsFact(m, result, replaced) ==
    CASE result = "COMMITTED" ->
           /\ m.phase = "COMMITTED" /\ m.boundary /\ m.rollback = "not_attempted"
           /\ replaced # None
      [] result = "ROLLED_BACK" ->
           /\ m.phase = "ROLLED_BACK" /\ m.boundary /\ m.rollback = "success"
           /\ replaced \notin {None, m.candidate}
      [] result = "FAILED" ->
           /\ m.phase \notin {"COMMITTED", "ROLLED_BACK"}
           /\ m.boundary \/ (m.phase = "FAILED" /\ m.rollback = "not_attempted")

\* deployment_ledger_lock_and_append: a repeated fact is not written twice,
\* and only ROLLED_BACK may follow COMMITTED.
MayFollow(facts, result) ==
    \/ facts = <<>>
    \/ Last(facts) = "COMMITTED" /\ result = "ROLLED_BACK"

Appended(id, result) ==
    IF MayFollow(ledger[id], result) THEN [ledger EXCEPT ![id] = Append(@, result)]
                                     ELSE ledger

\* The steps of a deployment that record a fact, and what follows them.
FactAt == [record |-> "COMMITTED", rolledback |-> "ROLLED_BACK",
           failed |-> "FAILED", trapfact |-> "FAILED"]
AfterFact == [record |-> "succeeded", rolledback |-> "trapped",
              failed |-> "trapped", trapfact |-> "ended"]

(***************************************************************************)
(* The workflow.                                                           *)
(***************************************************************************)
Quiet == deploy = None /\ recovery = None

\* A run of the deploy workflow: its deployment job starts on the host.
StartRun(release) ==
    /\ Quiet /\ spent.runs < MaxRuns
    /\ run.stage \in {"none", "done"}
    /\ run' = [stage |-> "deploying", id |-> spent.runs + 1, release |-> release]
    /\ deploy' = [at |-> "checkout", mem |-> None, replaced |-> None,
                   holds |-> FALSE]
    /\ spent' = [spent EXCEPT !.runs = @ + 1]
    /\ UNCHANGED <<marker, pointers, images, stored, artifact, serving, ledger,
                   locked, recovery>>

\* Mutant: only the deployment job's result is looked at.
ProvenCommittedNever == FALSE

\* The rollback job does not run when the marker proves that this very
\* transaction was committed, whatever became of the deployment job.
ProvenCommitted ==
    /\ marker # None /\ marker.phase = "COMMITTED"
    /\ marker.id = run.id /\ marker.candidate = run.release

\* The end of the deployment job, and of the smoke tests when it succeeded.
EndOfDeployment(succeeded) ==
    \/ succeeded /\ run' = [run EXCEPT !.stage = "done"]
    \/ succeeded /\ SmokeMayFail /\ run' = [run EXCEPT !.stage = "rollback"]
    \/ ~succeeded /\ run' = [run EXCEPT !.stage = IF ProvenCommitted THEN "done"
                                                                      ELSE "rollback"]

\* A killed deployment is observed by the workflow as a failed job.
NoticeKilledDeployment ==
    /\ Quiet /\ run.stage = "deploying"
    /\ EndOfDeployment(FALSE)
    /\ UNCHANGED <<marker, pointers, images, stored, artifact, serving, ledger,
                   locked, deploy, recovery, spent>>

\* The rollback job runs, and may be run again while it did not succeed.
\* rollback-production-remote.sh only takes the artifact of its candidate.
StartRollback ==
    /\ Quiet /\ run.stage = "rollback"
    /\ spent.recoveries < MaxRecoveries
    /\ spent' = [spent EXCEPT !.recoveries = @ + 1]
    /\ IF artifact = run.release
       THEN recovery' = [at |-> "select", mem |-> None, target |-> None]
       ELSE UNCHANGED recovery
    /\ UNCHANGED <<marker, pointers, images, stored, artifact, serving, ledger,
                   locked, deploy, run>>

\* The operator gives the run up.
GiveUp ==
    /\ Quiet /\ run.stage = "rollback"
    /\ run' = [run EXCEPT !.stage = "done"]
    /\ UNCHANGED <<marker, pointers, images, stored, artifact, serving, ledger,
                   locked, deploy, recovery, spent>>

(***************************************************************************)
(* The deployment process.  Every step may fail; before the executor has   *)
(* started a failure goes to the ERR trap, afterwards to the executor.     *)
(***************************************************************************)
Goto(step) == deploy' = [deploy EXCEPT !.at = step]
Remember(m, step) == deploy' = [deploy EXCEPT !.mem = m, !.at = step]

FailTo(step) ==
    /\ Goto(step)
    /\ UNCHANGED <<marker, pointers, images, stored, artifact, serving, spent>>

\* The checkout and the helpers: a failure has no transaction to record.
Checkout ==
    /\ deploy.at = "checkout"
    /\ \/ FailTo("ended")
       \/ \E written \in BOOLEAN :
            /\ Remember(FreshMarker(run.id, run.release),
                        IF written THEN "capture" ELSE "trapped")
            /\ IF written THEN marker' = FreshMarker(run.id, run.release) /\ UNCHANGED spent
                          ELSE Fault /\ UNCHANGED marker
            /\ UNCHANGED <<pointers, images, stored, artifact, serving>>

\* The active release becomes the rollback target.
CapturePrevious ==
    /\ deploy.at = "capture"
    /\ \/ FailTo("trapped")
       \/ /\ pointers' = [pointers EXCEPT !.previous = pointers.current]
          /\ deploy' = [deploy EXCEPT !.at = "identify", !.replaced = images.current]
          /\ UNCHANGED <<marker, images, stored, artifact, serving, spent>>

\* The transaction's identity, and the preflight of a rollback.
Identify ==
    /\ deploy.at = "identify"
    /\ LET m == [deploy.mem EXCEPT !.previous = pointers.previous,
                                   !.current = pointers.current]
       IN \/ /\ marker' = m /\ UNCHANGED spent
             /\ Remember(m, IF pointers.previous \in stored THEN "artifact" ELSE "trapped")
          \/ /\ Fault /\ UNCHANGED marker
             /\ Remember(m, "trapped")
    /\ UNCHANGED <<pointers, images, stored, artifact, serving>>

\* Mutant: an artifact that could not be persisted does not stop the deployment.
PrepareArtifactUnchecked ==
    /\ deploy.at = "artifact"
    /\ artifact' \in {artifact, run.release}
    /\ Goto("prepare") /\ marker' = deploy.mem
    /\ UNCHANGED <<pointers, images, stored, serving, spent>>

\* The recovery artifact is preflighted and persisted before any mutation.
PrepareArtifact ==
    /\ deploy.at = "artifact"
    /\ \/ FailTo("trapped")
       \/ /\ artifact' = run.release
          /\ \/ Goto("prepare") /\ marker' = deploy.mem /\ UNCHANGED spent
             \/ Goto("trapped") /\ Fault /\ UNCHANGED marker
          /\ UNCHANGED <<pointers, images, stored, serving>>

\* Images pulled, pending state and bundle persisted, configuration validated.
Prepare ==
    /\ deploy.at = "prepare"
    /\ \/ FailTo("failing")
       \/ \E done \in BOOLEAN :
            /\ images' = [images EXCEPT !.pending = run.release]
            /\ stored' = stored \cup {run.release}
            /\ Goto(IF done THEN "boundary" ELSE "failing")
            /\ UNCHANGED <<marker, pointers, artifact, serving, spent>>

Step(from, phase, to) ==
    /\ deploy.at = from
    /\ \E m2 \in {deploy.mem, Moved(deploy.mem, phase)}, ok \in BOOLEAN :
         /\ Transitioned(deploy.mem, phase, FALSE, m2, ok)
         /\ Remember(m2, IF ok THEN to ELSE "failing")
    /\ UNCHANGED <<pointers, images, stored, artifact, serving>>

\* Mutant: the containers are stopped although SWITCHING was not recorded.
CrossBoundaryUnchecked ==
    /\ deploy.at = "boundary"
    /\ \E m2 \in {deploy.mem, Moved(deploy.mem, "SWITCHING")}, ok \in BOOLEAN :
         /\ Transitioned(deploy.mem, "SWITCHING", FALSE, m2, ok)
         /\ Remember(m2, "migrate")
    /\ UNCHANGED <<pointers, images, stored, artifact, serving>>

CrossBoundary == Step("boundary", "SWITCHING", "migrate")

\* Migrations, then the containers are taken down.
MigrateAndStop ==
    /\ deploy.at = "migrate"
    /\ \/ FailTo("failing")
       \/ /\ serving' = None
          /\ Goto("start")
          /\ UNCHANGED <<marker, pointers, images, stored, artifact, spent>>

StartCandidate ==
    /\ deploy.at = "start"
    /\ \/ FailTo("failing")
       \/ /\ serving' = run.release
          /\ \E done \in BOOLEAN : Goto(IF done THEN "activated" ELSE "failing")
          /\ UNCHANGED <<marker, pointers, images, stored, artifact, spent>>

RecordActivated == Step("activated", "ACTIVATED_UNVERIFIED", "probe")

\* Health, readiness and the live projection of the candidate.
Probe ==
    /\ deploy.at = "probe"
    /\ \/ FailTo("failing")
       \/ serving = run.release /\ FailTo("verified")

RecordVerified == Step("verified", "VERIFIED", "pointer")

\* release-bundle-state.mjs activate writes the pointer previous, then current.
ActivatePointer ==
    /\ deploy.at \in {"pointer", "pointing"}
    /\ \/ FailTo("failing")
       \/ /\ deploy.at = "pointer"
          /\ pointers' = [pointers EXCEPT !.previous = ActivatedPrevious(run.release)]
          /\ Goto("pointing")
          /\ UNCHANGED <<marker, images, stored, artifact, serving, spent>>
       \/ /\ deploy.at = "pointing"
          /\ pointers' = [pointers EXCEPT !.current = run.release]
          /\ Goto("publish")
          /\ UNCHANGED <<marker, images, stored, artifact, serving, spent>>

\* Mutant: a pending image state that cannot be published is not a failure.
PublishPendingUnchecked ==
    /\ deploy.at = "publish"
    /\ images' \in {images, [current |-> images.pending, pending |-> None]}
    /\ Goto("commit")
    /\ UNCHANGED <<marker, pointers, stored, artifact, serving, spent>>

PublishPending ==
    /\ deploy.at = "publish"
    /\ \/ FailTo("failing")
       \/ /\ images' = [current |-> images.pending, pending |-> None]
          /\ \E done \in BOOLEAN : Goto(IF done THEN "commit" ELSE "failing")
          /\ UNCHANGED <<marker, pointers, stored, artifact, serving, spent>>

Commit == Step("commit", "COMMITTED", "record")

DeployWork ==
    /\ deploy # None
    /\ \/ Checkout \/ CapturePrevious \/ Identify \/ PrepareArtifact \/ Prepare
       \/ CrossBoundary \/ MigrateAndStop \/ StartCandidate \/ RecordActivated
       \/ Probe \/ RecordVerified \/ ActivatePointer \/ PublishPending \/ Commit
    /\ UNCHANGED <<ledger, locked, recovery, run>>

\* deployment_ledger_lock_and_append: the lock is a directory nobody takes
\* over; when it stays another's, or the fact is refused, nothing is recorded.
TakeLedger ==
    /\ deploy # None /\ deploy.at \in DOMAIN FactAt /\ ~deploy.holds
    /\ IF IsFact(deploy.mem, FactAt[deploy.at], deploy.replaced) /\ ~locked
       THEN locked' = TRUE /\ deploy' = [deploy EXCEPT !.holds = TRUE]
       ELSE /\ UNCHANGED locked
            /\ Goto(IF deploy.at = "record" THEN "ended" ELSE AfterFact[deploy.at])
    /\ UNCHANGED <<marker, pointers, images, stored, artifact, serving, ledger,
                   recovery, run, spent>>

WriteLedger ==
    /\ deploy # None /\ deploy.holds
    /\ ledger' = Appended(deploy.mem.id, FactAt[deploy.at])
    /\ locked' = FALSE
    /\ deploy' = [deploy EXCEPT !.holds = FALSE, !.at = AfterFact[deploy.at]]
    /\ UNCHANGED <<marker, pointers, images, stored, artifact, serving, recovery,
                   run, spent>>

\* deploy_runtime_executor_fail: the failure is marked, and past the boundary
\* the recovery executor is run, whether or not ROLLING_BACK could be written.
MarkFailure ==
    /\ deploy # None /\ deploy.at = "failing"
    /\ \E m2 \in {deploy.mem, Moved(deploy.mem, "FAILED")} :
         /\ Failed(deploy.mem, m2)
         /\ Remember(m2, IF m2.boundary THEN "beginning" ELSE "failed")
    /\ UNCHANGED <<pointers, images, stored, artifact, serving, ledger, locked,
                   recovery, run>>

BeginRollback ==
    /\ deploy # None /\ deploy.at = "beginning"
    /\ LET m == [deploy.mem EXCEPT !.rollback = "running"] IN
       \E m2 \in {m, Moved(m, "ROLLING_BACK")}, ok \in BOOLEAN :
         /\ Transitioned(m, "ROLLING_BACK", FALSE, m2, ok)
         /\ Remember(m2, "recovering")
    /\ recovery' = [at |-> "select", mem |-> None, target |-> None]
    /\ UNCHANGED <<pointers, images, stored, artifact, serving, ledger, locked, run>>

\* The recovery's exit status decides which end the deployment records.
MarkRolledBack ==
    /\ deploy # None /\ deploy.at = "recovered"
    /\ \E m2 \in {deploy.mem, Moved(deploy.mem, "ROLLED_BACK")}, ok \in BOOLEAN :
         /\ Transitioned(deploy.mem, "ROLLED_BACK", FALSE, m2, ok)
         /\ Remember(m2, IF ok THEN "rolledback" ELSE "unrecovered")
    /\ UNCHANGED <<pointers, images, stored, artifact, serving, ledger, locked,
                   recovery, run>>

MarkRollbackFailure ==
    /\ deploy # None /\ deploy.at = "unrecovered"
    /\ LET m == [deploy.mem EXCEPT !.rollback = "failed"] IN
       \E m2 \in {m, Moved(m, "FAILED")}, ok \in BOOLEAN :
         /\ Transitioned(m, "FAILED", FALSE, m2, ok)
         /\ Remember(m2, "failed")
    /\ UNCHANGED <<pointers, images, stored, artifact, serving, ledger, locked,
                   recovery, run>>

\* capture_production_deploy_failure, the ERR trap of the entry point.
Trap ==
    /\ deploy # None /\ deploy.at = "trapped"
    /\ IF deploy.mem.phase \in {"COMMITTED", "ROLLED_BACK"}
       THEN Goto("ended") /\ UNCHANGED <<marker, spent>>
       ELSE \E m2 \in {deploy.mem, Moved(deploy.mem, "FAILED")} :
              /\ Failed(deploy.mem, m2)
              /\ Remember(m2, "trapfact")
    /\ UNCHANGED <<pointers, images, stored, artifact, serving, ledger, locked,
                   recovery, run>>

EndDeploy ==
    /\ deploy # None /\ deploy.at \in {"succeeded", "ended"}
    /\ EndOfDeployment(deploy.at = "succeeded")
    /\ deploy' = None
    /\ UNCHANGED <<marker, pointers, images, stored, artifact, serving, ledger,
                   locked, recovery, spent>>

(***************************************************************************)
(* The recovery executor, run by the deployment or by the rollback job.    *)
(***************************************************************************)
RecoveryGoto(step) == recovery' = [recovery EXCEPT !.at = step]
RecoveryRemembers(m, step) == recovery' = [recovery EXCEPT !.mem = m, !.at = step]

RecoveryFails ==
    /\ RecoveryGoto("broken")
    /\ UNCHANGED <<marker, pointers, images, serving, spent>>

\* The marker is sourced and the previous release verified.  A transaction
\* already rolled back, or never past the boundary, needs nothing.
Select ==
    /\ recovery.at = "select"
    /\ \/ RecoveryFails
       \/ /\ pointers.previous \in stored /\ marker # None
          /\ recovery' = [mem |-> marker, target |-> pointers.previous, at |->
                            IF marker.phase = "ROLLED_BACK" \/ ~marker.boundary
                            THEN "restored" ELSE "begin"]
          /\ UNCHANGED <<marker, pointers, images, serving, spent>>

Begin ==
    /\ recovery.at = "begin"
    /\ IF recovery.mem.phase = "ROLLING_BACK"
       THEN RecoveryGoto("restart") /\ UNCHANGED <<marker, spent>>
       ELSE LET m == [recovery.mem EXCEPT !.rollback = "running"] IN
            \E m2 \in {m, Moved(m, "ROLLING_BACK")}, ok \in BOOLEAN :
              /\ Transitioned(m, "ROLLING_BACK", TRUE, m2, ok)
              /\ RecoveryRemembers(m2, IF ok THEN "restart" ELSE "broken")
    /\ UNCHANGED <<pointers, images, serving>>

\* The previous images are pulled and the containers recreated from them.
Restart ==
    /\ recovery.at = "restart"
    /\ \/ RecoveryFails
       \/ /\ serving' = recovery.target
          /\ \E healthy \in BOOLEAN : RecoveryGoto(IF healthy THEN "demote" ELSE "unready")
          /\ UNCHANGED <<marker, pointers, images, spent>>

\* activate-previous writes the pointer previous, then the pointer current.
Demote ==
    /\ recovery.at = "demote"
    /\ \/ RecoveryGoto("unready") /\ UNCHANGED pointers
       \/ /\ pointers' = [pointers EXCEPT !.previous = ActivatedPrevious(recovery.target)]
          /\ RecoveryGoto("promote")
    /\ UNCHANGED <<marker, images, serving, spent>>

Promote ==
    /\ recovery.at = "promote"
    /\ \/ RecoveryGoto("unready") /\ UNCHANGED pointers
       \/ /\ pointers' = [pointers EXCEPT !.current = recovery.target]
          /\ RecoveryGoto("republish")
    /\ UNCHANGED <<marker, images, serving, spent>>

\* The restored release's images become the current ones.
Republish ==
    /\ recovery.at = "republish"
    /\ \/ RecoveryGoto("unready") /\ UNCHANGED images
       \/ /\ images' = [images EXCEPT !.current = recovery.target]
          /\ RecoveryGoto("restored?")
    /\ UNCHANGED <<marker, pointers, serving, spent>>

MarkRestored ==
    /\ recovery.at = "restored?"
    /\ \E m2 \in {recovery.mem, Moved(recovery.mem, "ROLLED_BACK")}, ok \in BOOLEAN :
         /\ Transitioned(recovery.mem, "ROLLED_BACK", TRUE, m2, ok)
         /\ RecoveryRemembers(m2, IF ok THEN "restored" ELSE "broken")
    /\ UNCHANGED <<pointers, images, serving>>

\* The previous release was unhealthy, or could not be activated.
MarkUnready ==
    /\ recovery.at = "unready"
    /\ LET m == [recovery.mem EXCEPT !.rollback = "failed"] IN
       \E m2 \in {m, Moved(m, "FAILED")}, ok \in BOOLEAN :
         /\ Transitioned(m, "FAILED", TRUE, m2, ok)
         /\ RecoveryRemembers(m2, "broken")
    /\ UNCHANGED <<pointers, images, serving>>

RecoveryWork ==
    /\ recovery # None
    /\ \/ Select \/ Begin \/ Restart \/ Demote \/ Promote \/ Republish
       \/ MarkRestored \/ MarkUnready
    /\ UNCHANGED <<stored, artifact, ledger, locked, deploy, run>>

EndRecovery ==
    /\ recovery # None /\ recovery.at \in {"restored", "broken"}
    /\ recovery' = None
    /\ IF deploy = None
       THEN /\ run' = [run EXCEPT !.stage = IF recovery.at = "restored" THEN "done" ELSE @]
            /\ UNCHANGED deploy
       ELSE /\ Goto(IF recovery.at = "restored" THEN "recovered" ELSE "unrecovered")
            /\ UNCHANGED run
    /\ UNCHANGED <<marker, pointers, images, stored, artifact, serving, ledger,
                   locked, spent>>

\* The host loses the processes between any two steps.
Crash ==
    /\ ~Quiet /\ spent.crashes < MaxCrashes
    /\ spent' = [spent EXCEPT !.crashes = @ + 1]
    /\ deploy' = None /\ recovery' = None
    /\ UNCHANGED <<marker, pointers, images, stored, artifact, serving, ledger,
                   locked, run>>

(***************************************************************************)
(* The specification.                                                      *)
(***************************************************************************)
DeploymentInit ==
    /\ marker = None /\ deploy = None /\ recovery = None
    /\ pointers = [current |-> First, previous |-> None]
    /\ images = [current |-> First, pending |-> None]
    /\ stored = {First} /\ artifact = None /\ serving = First
    /\ ledger = [id \in Ids |-> <<>>] /\ locked = FALSE
    /\ run = [stage |-> "none", id |-> 0, release |-> None]
    /\ spent = [runs |-> 0, recoveries |-> 0, faults |-> 0, crashes |-> 0]

HostStep == DeployWork \/ TakeLedger \/ WriteLedger \/ MarkFailure \/ BeginRollback
            \/ MarkRolledBack \/ MarkRollbackFailure \/ Trap \/ EndDeploy
            \/ RecoveryWork \/ EndRecovery

DeploymentNext ==
    \/ \E release \in Releases : StartRun(release)
    \/ NoticeKilledDeployment \/ StartRollback \/ GiveUp
    \/ HostStep
    \/ Crash

DeploymentSpec == DeploymentInit /\ [][DeploymentNext]_deployVars

\* A process on the host runs until it ends or is killed.
DeploymentFairSpec == DeploymentSpec /\ WF_deployVars(HostStep)

Results == {"COMMITTED", "ROLLED_BACK", "FAILED"}

\* The host's files, the processes and the workflow have their types.
DeploymentTypeOK ==
    /\ marker \in Markers \cup {None}
    /\ pointers \in [current : Releases, previous : Releases \cup {None}]
    /\ images \in [current : Releases, pending : Releases \cup {None}]
    /\ stored \subseteq Releases /\ artifact \in Releases \cup {None}
    /\ serving \in Releases \cup {None}
    /\ ledger \in [Ids -> Seq(Results)] /\ locked \in BOOLEAN
    /\ deploy \in DeployRecords \cup {None} /\ recovery \in RecoveryRecords \cup {None}
    /\ run.stage \in {"none", "deploying", "rollback", "done"}

\* Nothing that is live (the containers, the current pointer, the current
\* images) changes unless the marker on disk already says that the mutation
\* boundary of an unfinished transaction was crossed: whoever finds the host
\* after a kill knows that it must be recovered.
BoundaryFirst ==
    [][\/ UNCHANGED <<serving, pointers.current, images.current>>
       \/ marker # None /\ marker.boundary
          /\ marker.phase \notin {"PREPARED", "COMMITTED", "ROLLED_BACK"}]_deployVars

\* A committed transaction's candidate runs, and every file says so; after a
\* rollback the files agree with what the containers run.
TerminalIsLive ==
    marker # None =>
        /\ marker.phase = "COMMITTED" =>
             {serving, pointers.current, images.current, marker.current} = {marker.candidate}
        /\ marker.phase = "ROLLED_BACK" =>
             serving = pointers.current /\ serving = images.current

\* Wherever a transaction past the boundary stops, a recovery finds what it
\* needs: the artifact of this candidate and a stored previous release.
AlwaysRecoverable ==
    (marker # None /\ marker.boundary /\ marker.phase # "COMMITTED") =>
        /\ artifact = marker.candidate
        /\ marker.previous # None /\ pointers.previous \in stored

\* The last fact of the ledger about the marker's transaction is one the
\* marker bears out.
LedgerFollowsMarker ==
    (marker # None /\ ledger[marker.id] # <<>>) =>
        CASE Last(ledger[marker.id]) = "COMMITTED"   ->
               marker.phase \in {"COMMITTED", "ROLLING_BACK", "ROLLED_BACK", "FAILED"}
          [] Last(ledger[marker.id]) = "ROLLED_BACK" -> marker.phase = "ROLLED_BACK"
          [] OTHER -> marker.phase # "COMMITTED"

\* The release a rollback restores is the one its transaction replaced.
RollbackRestoresPrevious ==
    (marker # None /\ marker.phase = "ROLLED_BACK") => serving = marker.previous

\* The marker as the repository's abstract executor sees it: a transaction
\* that has not recorded what it replaces replaces the current release.
Host == [phase |-> marker.phase, boundary |-> marker.boundary,
         candidate |-> marker.candidate,
         previous |-> IF marker.previous = None THEN pointers.current ELSE marker.previous,
         current  |-> IF marker.current = None THEN pointers.current ELSE marker.current]

Transaction == IF marker = None THEN None ELSE Host
Mirror == INSTANCE ExecutorContract WITH transaction <- Transaction

\* What the abstract executor never does: a committed transaction is rolled
\* back, because its smoke tests rejected it or for the sake of a later run.
ExplicitRollback ==
    /\ marker # None /\ marker.phase = "COMMITTED"
    /\ SmokeMayFail \/ marker.id # run.id
    /\ Transaction' = [Transaction EXCEPT !.phase = "ROLLING_BACK"]

\* Until a write of the marker fails, every step of the host is one of the
\* abstract executor, or that one.
MirroredBesides ==
    /\ Mirror!ContractInit
    /\ [][spent'.faults = 0 => Mirror!ContractNext \/ ExplicitRollback]_Transaction
===============================================================================
