-------------------------- MODULE ReleasePromotion --------------------------
(***************************************************************************)
(* The operator's promotion of a Release Candidate to production           *)
(* (scripts/release-promote.mjs): a plan of steps run one after the other, *)
(* a state file that remembers each step's outcome, the flags that skip    *)
(* steps, and the tag whose push starts the production workflow.           *)
(*                                                                         *)
(* The steps are child processes.  What they change outside the command is *)
(* kept: the locator and the evidence files, what staging runs, the tags,  *)
(* the workflow run and the production host.  The deploy itself is the     *)
(* module Deployment; here it is its outcomes (deploy.yml).                *)
(***************************************************************************)
EXTENDS Absent, Naturals, Sequences, Functions

CONSTANTS
    Candidates,    \* Release Candidate runs
    Tags,          \* production tags
    Incumbent,     \* the release production runs at the start
    Selections,    \* the step selections an operator uses, see Skipped
    Risks,         \* the values of --high-risk-windows
    MaxCommands,   \* bound on the promotions started
    MaxFailures,   \* bound on the steps and jobs that fail
    MaxEvents      \* bound on what other operators do meanwhile

ReleaseAssumption ==
    /\ Incumbent \notin Candidates /\ None \notin Candidates \cup Tags \cup {Incumbent}
    /\ Risks \subseteq BOOLEAN
    /\ Selections \subseteq [how : {"all", "resume", "from", "only"}, step : STRING]
    /\ {MaxCommands, MaxFailures, MaxEvents} \subseteq Nat

VARIABLES
    locator,   \* the candidates whose bundle locator is on disk
    state,     \* per candidate, the state file: its tag and the steps' outcomes
    files,     \* the candidates with staging evidence files on disk
    staging,   \* what staging runs, and the candidate of its Windows evidence
    tags,      \* per tag, the commit it has in the checkout and on origin
    workflow,  \* per tag, the Deploy run its push started
    host,      \* production: its release, the one before, its phase marker
    command,   \* the promotion that runs, or None
    used       \* what was spent of the bounds

releaseVars ==
    <<locator, state, files, staging, tags, workflow, host, command, used>>

\* buildPromotionPlan: the steps in order.
Order ==
    <<"resolve-release-candidate", "verify-clean-repos",
      "verify-promotion-identity", "deploy-staging",
      "ensure-windows-prepromotion-evidence", "verify-staging-exact",
      "verify-candidate-tooling", "production-readiness", "release-preflight",
      "tag-production", "wait-production-deploy", "verify-production-host-state",
      "verify-production-health", "report-residual-actions-runs">>

Steps == Range(Order)

\* The steps that come before a step.
Ahead == [s \in Steps |-> {Order[i] : i \in {k \in DOMAIN Order :
                             \E j \in DOMAIN Order : k < j /\ Order[j] = s}}]

\* Those a promotion has: Windows evidence for a risky one; nothing after the
\* tag for one that stays local.
Plan(risk, local) ==
    {s \in Steps : /\ s = "ensure-windows-prepromotion-evidence" => risk
                   /\ "tag-production" \in Ahead[s] => ~local}

PromotionGates ==
    {"verify-clean-repos", "verify-staging-exact", "verify-candidate-tooling",
     "production-readiness", "release-preflight"}

\* What --resume reuses: immutable candidate work only.
ResumeReusable ==
    {"resolve-release-candidate", "deploy-staging",
     "verify-candidate-tooling", "tag-production"}

\* The steps that only look at something and may simply fail.
PlainChecks ==
    {"verify-clean-repos", "release-preflight", "verify-production-health",
     "report-residual-actions-runs"}

NoWorkflow == [status |-> "none", deployed |-> FALSE, rolledback |-> FALSE]

ReleaseInit ==
    /\ locator = {} /\ files = {}
    /\ state = [c \in Candidates |->
                  [tag |-> None, done |-> [s \in Steps |-> "none"]]]
    /\ staging = [release |-> Incumbent, canary |-> None]
    /\ tags = [t \in Tags |-> [local |-> None, remote |-> None]]
    /\ workflow = [t \in Tags |-> NoWorkflow]
    /\ host = [release |-> Incumbent, previous |-> Incumbent,
               phase |-> "COMMITTED", attempted |-> FALSE]
    /\ command = None
    /\ used = [commands |-> 0, failures |-> 0, events |-> 0]

Spend(what) == used' = [used EXCEPT ![what] = @ + 1]

MayFail == used.failures < MaxFailures

-----------------------------------------------------------------------------
(* Starting: the selection of the steps. *)

\* resolveSkipSet: the steps a selection leaves out; the identity gate never.
Skipped(sel, c, plan) ==
    LET out == CASE sel.how = "all"    -> {}
                 [] sel.how = "resume" ->
                      {s \in plan \cap ResumeReusable : state[c].done[s] = "success"}
                 [] sel.how = "from"   -> plan \cap Ahead[sel.step]
                 [] sel.how = "only"   -> plan \ {sel.step}
    IN  out \ {"verify-promotion-identity"}

\* Mutant: the fail-closed guard is gone.
MaySkipAny(out, c) == TRUE

\* The fail-closed guard: a gate is skipped only where it is recorded passed.
MaySkip(out, c) ==
    \A g \in out \cap PromotionGates : state[c].done[g] = "success"

\* assertPromotionResumeIdentity: the state file is bound to one tag.
SameTag(c, t) == state[c].tag \in {None, t}

\* runReleasePromoteCommand up to its loop; a refusal changes nothing.
Start(c, t, sel, risk, local) ==
    LET plan == Plan(risk, local)
        out  == Skipped(sel, c, plan)
    IN  /\ command = None /\ used.commands < MaxCommands
        /\ SameTag(c, t)
        /\ sel.how \in {"from", "only"} => sel.step \in plan
        /\ MaySkip(out, c)
        /\ command' = [rc |-> c, tag |-> t, how |-> sel.how, risk |-> risk,
                       local |-> local, tagging |-> "none",
                       refresh |-> "none", reran |-> FALSE,
                       rest |-> plan \ out]
        /\ Spend("commands")
        /\ UNCHANGED <<locator, state, files, staging, tags, workflow, host>>

-----------------------------------------------------------------------------
(* The steps.  Each writes its outcome to the state file. *)

\* The next step of those that are left.
IsNext(step) ==
    /\ command # None /\ command.refresh # "due"
    /\ step \in command.rest /\ command.rest \cap Ahead[step] = {}

\* writeStepState
Written(step, outcome) ==
    [state EXCEPT ![command.rc] =
        [tag |-> command.tag, done |-> [@.done EXCEPT ![step] = outcome]]]

Passes(step) ==
    /\ state' = Written(step, "success")
    /\ command' = [command EXCEPT !.rest = @ \ {step}, !.tagging = "none",
                                  !.refresh = "none"]

\* The command ends with status 1.
Fails(step) ==
    /\ state' = Written(step, "failed")
    /\ command' = None

\* A step's own failure, for a reason the other variables do not show.
Breaks(step) ==
    /\ IsNext(step) /\ MayFail /\ Fails(step) /\ Spend("failures")
    /\ UNCHANGED <<locator, files, staging, tags, workflow, host>>

ResolveCandidate ==
    LET step == "resolve-release-candidate"
    IN  /\ IsNext(step) /\ Passes(step)
        /\ locator' = locator \cup {command.rc}
        /\ UNCHANGED <<files, staging, tags, workflow, host, used>>

RunCheck(step) ==
    /\ IsNext(step) /\ Passes(step)
    /\ UNCHANGED <<locator, files, staging, tags, workflow, host, used>>

\* A step whose condition the model shows: it passes or fails by it.
Decides(step, condition) ==
    /\ IsNext(step)
    /\ IF condition THEN Passes(step) ELSE Fails(step)
    /\ UNCHANGED <<locator, files, staging, tags, workflow, host, used>>

VerifyIdentity == Decides("verify-promotion-identity", command.rc \in locator)

VerifyTooling == Decides("verify-candidate-tooling", command.rc \in files)

DeployStaging ==
    LET step == "deploy-staging"
    IN  /\ IsNext(step) /\ Passes(step)
        /\ staging' = [release |-> command.rc, canary |-> None]
        /\ UNCHANGED <<locator, files, tags, workflow, host, used>>

\* The evidence persisted is of the release staging runs at that moment.
EnsureEvidence ==
    LET step == "ensure-windows-prepromotion-evidence"
    IN  /\ IsNext(step) /\ Passes(step)
        /\ staging' = [staging EXCEPT !.canary = staging.release]
        /\ UNCHANGED <<locator, files, tags, workflow, host, used>>

VerifyStaging ==
    LET step == "verify-staging-exact"
    IN  /\ IsNext(step)
        /\ IF staging.release = command.rc
           THEN Passes(step) /\ files' = files \cup {command.rc}
           ELSE Fails(step) /\ UNCHANGED files
        /\ UNCHANGED <<locator, staging, tags, workflow, host, used>>

StagingReady ==
    /\ staging.release = command.rc
    /\ command.risk => staging.canary = command.rc

CheckReadiness == Decides("production-readiness", StagingReady)

\* shouldRefreshWindowsPrepromotionEvidence: one of these two failed, and its
\* output, which is not modelled, speaks of the Windows evidence.  The failure
\* is recorded, the evidence is refreshed and the step is run again, once.
AskForEvidence(step) ==
    /\ IsNext(step) /\ command.refresh = "none"
    /\ \/ step = "verify-staging-exact" /\ staging.release # command.rc /\ UNCHANGED used
       \/ step = "production-readiness" /\ ~StagingReady /\ UNCHANGED used
       \/ MayFail /\ Spend("failures")
    /\ state' = Written(step, "failed")
    /\ command' = [command EXCEPT !.refresh = "due"]
    /\ UNCHANGED <<locator, files, staging, tags, workflow, host>>

\* The refresh records its own outcome, and when it fails the command ends.
RefreshEvidence ==
    LET step == "ensure-windows-prepromotion-evidence"
    IN  /\ command # None /\ command.refresh = "due"
        /\ \/ /\ state' = Written(step, "success")
              /\ command' = [command EXCEPT !.refresh = "done"]
              /\ staging' = [staging EXCEPT !.canary = staging.release]
              /\ UNCHANGED used
           \/ MayFail /\ Fails(step) /\ Spend("failures") /\ UNCHANGED staging
        /\ UNCHANGED <<locator, files, tags, workflow, host>>

-----------------------------------------------------------------------------
(* tag-production: tag-production-release.sh. *)

\* The evidence files must be there and readiness is checked once more.
RecheckReadiness ==
    LET step == "tag-production"
    IN  /\ IsNext(step) /\ command.tagging = "none"
        /\ IF command.rc \in files /\ StagingReady
           THEN command' = [command EXCEPT !.tagging = "checked"] /\ UNCHANGED state
           ELSE Fails(step)
        /\ UNCHANGED <<locator, files, staging, tags, workflow, host, used>>

\* production_tag_reconcile_existing: origin's tag is fetched where the
\* checkout has none; a tag that is not exactly the candidate's is refused.
ReconcileTag ==
    LET step    == "tag-production"
        t       == command.tag
        fetched == IF tags[t].local = None THEN tags[t].remote ELSE tags[t].local
    IN  /\ IsNext(step) /\ command.tagging = "checked"
        /\ IF /\ tags[t].remote \in {None, fetched}
              /\ fetched \in {None, command.rc}
           THEN /\ tags' = [tags EXCEPT ![t].local = command.rc]
                /\ IF command.local \/ tags[t].remote # None
                   THEN Passes(step)
                   ELSE command' = [command EXCEPT !.tagging = "tagged"]
                        /\ UNCHANGED state
           ELSE tags' = [tags EXCEPT ![t].local = fetched] /\ Fails(step)
        /\ UNCHANGED <<locator, files, staging, workflow, host, used>>

\* git push: origin refuses a tag it has; its push starts the Deploy run.
Pushed(t, c) ==
    /\ tags' = [tags EXCEPT ![t].remote = c]
    /\ workflow' = [workflow EXCEPT ![t].status = "running"]

PushTag ==
    LET step == "tag-production"
        t    == command.tag
    IN  /\ IsNext(step) /\ command.tagging = "tagged"
        /\ \/ /\ tags[t].remote = None
              /\ Pushed(t, command.rc)
              /\ \/ Passes(step) /\ UNCHANGED used
                 \/ MayFail /\ Fails(step) /\ Spend("failures")
           \/ /\ tags[t].remote # None
              /\ Fails(step) /\ UNCHANGED <<tags, workflow, used>>
        /\ UNCHANGED <<locator, files, staging, host>>

-----------------------------------------------------------------------------
(* wait-production-deploy and what follows. *)

Waiting == IsNext("wait-production-deploy")

RunOf(t) == workflow[t].status

WaitSucceeds ==
    /\ Waiting /\ RunOf(command.tag) = "success"
    /\ Passes("wait-production-deploy")
    /\ UNCHANGED <<locator, files, staging, tags, workflow, host, used>>

\* Mutant: the wait has no deadline, and a cancelled run is never terminal.
WaitEndsTerminal == Waiting /\ RunOf(command.tag) \in {"none", "failure"}

\* actions-health.mjs wait: a run that failed ends the wait at once; one that
\* is not there, still runs or was cancelled ends it at the deadline.
WaitEnds == Waiting /\ RunOf(command.tag) # "success"

\* The jobs actions-health reports of a run that failed: none.
ReportedJobs(t) == {}

\* productionRollbackRan
ProductionRollbackRan(t) == "rollback-production" \in ReportedJobs(t)

\* shouldRerunProductionDeploy: what the deploy brief says of the failure.
ShouldRerun(brief) == brief = "after-cleanup"

\* The failed run's jobs are run again, once per command.
RerunFailedJobs(brief) ==
    LET t == command.tag
    IN  /\ WaitEnds /\ ~command.reran
        /\ RunOf(t) \in {"failure", "cancelled"}
        /\ ~ProductionRollbackRan(t) /\ ShouldRerun(brief)
        /\ state' = Written("wait-production-deploy", "failed")
        /\ workflow' = [workflow EXCEPT ![t].status = "running"]
        /\ command' = [command EXCEPT !.reran = TRUE]
        /\ UNCHANGED <<locator, files, staging, tags, host, used>>

WaitFails(brief) ==
    LET t == command.tag
    IN  /\ WaitEnds
        /\ \/ command.reran \/ RunOf(t) \in {"none", "running"}
           \/ ProductionRollbackRan(t) \/ ~ShouldRerun(brief)
        /\ Fails("wait-production-deploy")
        /\ UNCHANGED <<locator, files, staging, tags, workflow, host, used>>

\* Mutant: a green run is taken for proof.
HostMatchesGreen(t) == RunOf(t) = "success"

\* evaluateProductionHostState, against the commit of the checkout's tag.
HostMatches(t) ==
    /\ tags[t].local # None
    /\ host.release = tags[t].local
    /\ host.phase = "COMMITTED" /\ ~host.attempted

VerifyHostState ==
    Decides("verify-production-host-state", HostMatches(command.tag))

\* The summary is printed and the command returns 0.
Finish ==
    /\ command # None /\ command.rest = {}
    /\ command' = None
    /\ UNCHANGED <<locator, state, files, staging, tags, workflow, host, used>>

\* The operator interrupts the command, or its machine goes down.
Interrupt ==
    /\ command # None /\ MayFail
    /\ command' = None /\ Spend("failures")
    /\ UNCHANGED <<locator, state, files, staging, tags, workflow, host>>

CommandStep ==
    \/ ResolveCandidate \/ VerifyIdentity \/ VerifyTooling
    \/ \E s \in PlainChecks : RunCheck(s)
    \/ \E s \in Steps : Breaks(s)
    \/ DeployStaging \/ EnsureEvidence \/ VerifyStaging
    \/ \E s \in {"verify-staging-exact", "production-readiness"} : AskForEvidence(s)
    \/ RefreshEvidence \/ CheckReadiness
    \/ RecheckReadiness \/ ReconcileTag \/ PushTag
    \/ WaitSucceeds \/ VerifyHostState \/ Finish
    \/ \E b \in {"after-cleanup", "unknown"} : RerunFailedJobs(b) \/ WaitFails(b)

-----------------------------------------------------------------------------
(* The workflow (deploy.yml) and the other operators. *)

\* deploy.yml's concurrency group: one run touches production at a time.
Alone(t) == \A u \in Tags \ {t} : ~(workflow[u].deployed /\ RunOf(u) = "running")

\* The executor commits the tag's release.
DeployCommits(t) ==
    /\ RunOf(t) = "running" /\ ~workflow[t].deployed /\ Alone(t)
    /\ host' = [release |-> tags[t].remote, previous |-> host.release,
                phase |-> "COMMITTED", attempted |-> FALSE]
    /\ workflow' = [workflow EXCEPT ![t].deployed = TRUE]
    /\ UNCHANGED <<locator, state, files, staging, tags, command, used>>

\* The run stops before the host is touched, is cancelled there, or the
\* executor fails and rolls the host back itself.
DeployFails(t, how) ==
    /\ RunOf(t) = "running" /\ ~workflow[t].deployed /\ MayFail
    /\ how = "rolled back" => Alone(t)
    /\ workflow' = [workflow EXCEPT
         ![t].status = IF how = "cancelled" THEN "cancelled" ELSE "failure"]
    /\ host' = IF how # "rolled back" THEN host
               ELSE [host EXCEPT !.phase = "ROLLED_BACK", !.attempted = TRUE]
    /\ Spend("failures")
    /\ UNCHANGED <<locator, state, files, staging, tags, command>>

\* The smoke tests pass: the run is green, whatever the host runs by now.
SmokePasses(t) ==
    /\ RunOf(t) = "running" /\ workflow[t].deployed
    /\ workflow' = [workflow EXCEPT ![t].status = "success"]
    /\ UNCHANGED <<locator, state, files, staging, tags, host, command, used>>

\* They fail and rollback-production puts the previous release back.
SmokeFails(t) ==
    /\ RunOf(t) = "running" /\ workflow[t].deployed /\ MayFail
    /\ workflow' = [workflow EXCEPT ![t].status = "failure", ![t].rolledback = TRUE]
    /\ host' = [host EXCEPT !.release = host.previous,
                            !.phase = "ROLLED_BACK", !.attempted = TRUE]
    /\ Spend("failures")
    /\ UNCHANGED <<locator, state, files, staging, tags, command>>

WorkflowStep ==
    \E t \in Tags :
       \/ DeployCommits(t) \/ SmokePasses(t) \/ SmokeFails(t)
       \/ \E how \in {"stopped", "cancelled", "rolled back"} : DeployFails(t, how)

\* Another operator deploys to staging, or pushes a tag from elsewhere.
OthersDeployStaging(c) ==
    /\ used.events < MaxEvents /\ Spend("events")
    /\ staging' = [release |-> c, canary |-> None]
    /\ UNCHANGED <<locator, state, files, tags, workflow, host, command>>

OthersPushTag(t, c) ==
    /\ used.events < MaxEvents /\ Spend("events")
    /\ tags[t].remote = None /\ Pushed(t, c)
    /\ UNCHANGED <<locator, state, files, staging, host, command>>

ReleaseNext ==
    \/ \E c \in Candidates, t \in Tags, sel \in Selections,
          risk \in Risks, local \in BOOLEAN : Start(c, t, sel, risk, local)
    \/ CommandStep \/ Interrupt \/ WorkflowStep
    \/ \E c \in Candidates : OthersDeployStaging(c)
    \/ \E c \in Candidates, t \in Tags : OthersPushTag(t, c)

ReleaseSpec == ReleaseInit /\ [][ReleaseNext]_releaseVars

\* The command's process goes on, and so does GitHub's run.
ReleaseFairSpec == ReleaseSpec /\ WF_releaseVars(CommandStep)

-----------------------------------------------------------------------------
(* Properties. *)

Maybe(S) == S \cup {None}

Runs == [status : {"none", "running", "success", "failure", "cancelled"},
         deployed : BOOLEAN, rolledback : BOOLEAN]

Commands == [rc : Candidates, tag : Tags, how : {"all", "resume", "from", "only"},
             risk : BOOLEAN, local : BOOLEAN, tagging : {"none", "checked", "tagged"},
             refresh : {"none", "due", "done"}, reran : BOOLEAN, rest : SUBSET Steps]

ReleaseTypeOK ==
    /\ locator \subseteq Candidates /\ files \subseteq Candidates
    /\ state \in [Candidates -> [tag : Maybe(Tags),
                    done : [Steps -> {"none", "success", "failed"}]]]
    /\ staging \in [release : Candidates \cup {Incumbent},
                    canary : Maybe(Candidates \cup {Incumbent})]
    /\ tags \in [Tags -> [local : Maybe(Candidates), remote : Maybe(Candidates)]]
    /\ workflow \in [Tags -> Runs]
    /\ host \in [release : Candidates \cup {Incumbent}, previous : Candidates \cup {Incumbent},
                 phase : {"COMMITTED", "ROLLED_BACK"}, attempted : BOOLEAN]
    /\ command \in Maybe(Commands)
    /\ used \in [commands : 0..MaxCommands, failures : 0..MaxFailures, events : 0..MaxEvents]

\* Whatever steps were skipped, resumed or repeated, a command pushes a tag
\* only when all five promotion gates are recorded passed for its candidate.
TaggedHasPassed ==
    [][\A t \in Tags :
         tags'[t].remote # tags[t].remote /\ used'.events = used.events =>
            \A g \in PromotionGates : state[command.rc].done[g] = "success"]_releaseVars

\* A whole or resumed promotion that reports success leaves its candidate
\* committed on production, unless another tag has been pushed: a green run
\* alone is not proof.
PromotedIsLive ==
    /\ command # None /\ command.rest = {} /\ ~command.local
    /\ command.how \in {"all", "resume"}
    /\ \A t \in Tags \ {command.tag} : tags[t].remote = None
    => /\ host.release = command.rc /\ host.phase = "COMMITTED"
       /\ ~host.attempted

\* Every promotion ends, even when its Deploy run never appears, is cancelled
\* or never finishes.
CommandEnds == command # None ~> command = None

\* "A failed-jobs-only rerun after rollback-production would turn the run
\* green while the host stays reverted. Never auto-rerun."
NeverRerunsAfterRollback ==
    [][\A t \in Tags :
         RunOf(t) = "failure" /\ workflow'[t].status = "running"
            => ~workflow[t].rolledback]_releaseVars

=============================================================================
