-------------------------- MODULE ProductionProofs --------------------------
(* What the production host guarantees for every set of releases and every   *)
(* number of runs, rollbacks, failed writes and kills: nothing live changes  *)
(* before the boundary is on disk, what is past it can be recovered, and a   *)
(* terminal marker is borne out. The proof is an induction on HostInv, which *)
(* says what each process knows of the marker at each of its steps. On it    *)
(* rest two more: what the ledger says of a transaction (LedgerInv), and     *)
(* what the abstract executor sees of it (MirrorInv). The last part is about *)
(* the operator's promotion, for every set of candidates and tags and every  *)
(* selection of steps: an induction on ReleaseInv.                           *)
EXTENDS Deployment, ReleasePromotion, TLAPS

-----------------------------------------------------------------------------
(* The deployment: the inductive invariant *)

FilesTyped ==
    /\ marker \in Markers \cup {None}
    /\ pointers \in [current : Releases, previous : Releases \cup {None}]
    /\ images \in [current : Releases, pending : Releases \cup {None}]
    /\ stored \subseteq Releases /\ artifact \in Releases \cup {None}
    /\ serving \in Releases \cup {None}
    /\ ledger \in [Ids -> Seq(Results)] /\ locked \in BOOLEAN

WorkflowTyped ==
    /\ run \in [stage : {"none", "deploying", "rollback", "done"}, id : Nat,
                release : Releases \cup {None}]
    /\ spent \in [runs : Nat, recoveries : Nat, faults : Nat, crashes : Nat]

\* A deployment knows its release; from its first marker on it has a
\* transaction, which is for that release.
DeployTyped ==
    deploy # None =>
        /\ deploy \in DeployRecords
        /\ run.release \in Releases /\ run.id \in Ids
        /\ deploy.mem # None => deploy.mem.candidate = run.release
        /\ deploy.at \notin {"checkout", "ended"} => deploy.mem # None
        /\ deploy.holds => deploy.at \in DOMAIN FactAt

RecoveryTyped ==
    recovery # None =>
        /\ recovery \in RecoveryRecords
        /\ deploy # None => deploy.at = "recovering"

\* A transaction past its boundary has its artifact and its way back.
Recoverable(m) ==
    (m # None /\ m.boundary) =>
        /\ artifact = m.candidate
        /\ m.previous # None /\ pointers.previous \in stored

\* Where the memory of a deployment is its marker, and the phase it is in.
KnownPhase ==
    [capture |-> {"PREPARED"}, identify |-> {"PREPARED"}, artifact |-> {"PREPARED"},
     prepare |-> {"PREPARED"}, boundary |-> {"PREPARED"},
     migrate |-> {"SWITCHING"}, start |-> {"SWITCHING"}, activated |-> {"SWITCHING"},
     probe |-> {"ACTIVATED_UNVERIFIED"}, verified |-> {"ACTIVATED_UNVERIFIED"},
     pointer |-> {"VERIFIED"}, pointing |-> {"VERIFIED"}, publish |-> {"VERIFIED"}, commit |-> {"VERIFIED"},
     failing |-> {"PREPARED", "SWITCHING", "ACTIVATED_UNVERIFIED", "VERIFIED"},
     beginning |-> {"PREPARED", "SWITCHING", "ACTIVATED_UNVERIFIED", "VERIFIED", "FAILED"}]

Early == {"capture", "identify", "artifact", "prepare", "boundary"}
Crossed == {"migrate", "start", "activated", "probe", "verified", "pointer",
            "pointing", "publish", "commit"}

DeployKnows ==
    deploy # None =>
        /\ deploy.at \in DOMAIN KnownPhase =>
             deploy.mem = marker /\ marker.phase \in KnownPhase[deploy.at]
        /\ deploy.at \in Early => ~marker.boundary
        /\ deploy.at \in Crossed \cup {"beginning"} => marker.boundary
        /\ deploy.at \in {"artifact", "prepare", "boundary"} =>
             marker.previous # None /\ pointers.previous \in stored
        /\ deploy.at \in {"prepare", "boundary"} => artifact = run.release
        /\ deploy.at \in {"boundary"} \cup Crossed => run.release \in stored
        /\ deploy.at \in ({"boundary"} \cup Crossed) \ {"commit"} => images.pending = run.release
        /\ deploy.at \in {"activated", "probe", "verified", "pointer", "pointing", "publish", "commit"} =>
             serving = run.release
        /\ deploy.at \in {"publish", "commit"} => pointers.current = run.release
        /\ deploy.at = "commit" => images.current = run.release
        /\ deploy.at = "recovering" => marker # None /\ marker.boundary
        /\ deploy.at = "recovered" => marker # None /\ marker.phase = "ROLLED_BACK"

Restoring == {"restart", "demote", "promote", "republish", "restored?", "unready"}

RecoveryKnows ==
    recovery # None =>
        /\ recovery.at \in {"begin"} \cup Restoring =>
             /\ recovery.mem = marker /\ marker # None /\ marker.boundary
             /\ recovery.target \in stored
        /\ recovery.at \in Restoring => marker.phase = "ROLLING_BACK"
        /\ recovery.at \in {"demote", "promote", "republish", "restored?"} =>
             serving = recovery.target
        /\ recovery.at \in {"republish", "restored?"} => pointers.current = recovery.target
        /\ recovery.at = "restored?" => images.current = recovery.target
        /\ recovery.at = "restored" =>
             marker # None /\ (marker.phase = "ROLLED_BACK" \/ ~marker.boundary)

HostInv ==
    /\ FilesTyped /\ WorkflowTyped /\ DeployTyped /\ RecoveryTyped
    /\ pointers.current \in stored
    /\ Recoverable(marker) /\ (deploy # None => Recoverable(deploy.mem))
    /\ DeployKnows /\ RecoveryKnows /\ TerminalIsLive

(* What the ledger says of the transactions. *)

\* A run's transaction has its number, which no earlier run had.
RunsCounted ==
    /\ run.id = spent.runs
    /\ \A id \in Ids : id > run.id => ledger[id] = <<>>
    /\ marker # None => marker.id <= run.id
    /\ deploy # None /\ deploy.mem # None => deploy.mem.id = run.id

\* Where a deployment may have recorded a fact already.
Recorded == {"succeeded", "trapped", "trapfact", "ended"}

\* A deployment records one fact, at most, of its own transaction, and knows
\* the marker it records it of.
LedgerKnows ==
    deploy # None =>
        /\ deploy.at \notin Recorded => ledger[run.id] = <<>>
        /\ deploy.at \in {"record", "rolledback"} => deploy.mem = marker
        /\ deploy.at = "record" => marker.phase = "COMMITTED"
        /\ deploy.at = "rolledback" => marker.phase = "ROLLED_BACK"
        /\ marker # None /\ marker.id = run.id /\ marker.phase = "COMMITTED" =>
             deploy.at \in {"record", "succeeded", "ended"}
        /\ deploy.at \in {"trapped", "trapfact"} /\ ledger[run.id] # <<>> =>
             \/ Last(ledger[run.id]) = "FAILED"
             \/ /\ Last(ledger[run.id]) = "ROLLED_BACK"
                /\ deploy.at = "trapped" /\ deploy.mem.phase = "ROLLED_BACK"

LedgerInv == RunsCounted /\ LedgerKnows /\ LedgerFollowsMarker

(* What the abstract executor sees. *)

\* Two markers of one transaction.
Alike(m, n) == m.id = n.id /\ m.candidate = n.candidate /\ m.previous = n.previous
               /\ m.boundary = n.boundary

\* Until a write fails, a deployment's memory is its marker, or what the
\* recovery it started has moved on since.
MirrorKnows ==
    /\ marker # None =>
         /\ marker.previous = None <=> marker.current = None
         /\ marker.phase = "ROLLED_BACK" => marker.current = marker.previous
    /\ deploy # None =>
         /\ deploy.at \in {"capture", "identify"} => marker.previous = None
         /\ deploy.at = "identify" => pointers.previous = pointers.current
         /\ deploy.at = "beginning" => marker.phase = "FAILED"
         /\ deploy.at \in {"rolledback", "failed", "trapped"} => deploy.mem = marker
         /\ deploy.at \in {"recovering", "recovered", "unrecovered"} =>
              /\ marker # None /\ deploy.mem.phase = "ROLLING_BACK" /\ Alike(deploy.mem, marker)
              /\ marker.boundary /\ marker.phase \in {"ROLLING_BACK", "ROLLED_BACK", "FAILED"}
              /\ marker.phase # "ROLLED_BACK" => marker.current = deploy.mem.current
         /\ deploy.at = "unrecovered" => marker.phase # "ROLLED_BACK"
         /\ deploy.at = "recovering" =>
              /\ recovery # None
              /\ recovery.at \notin {"broken", "restored"} => marker.phase = "ROLLING_BACK"
              /\ recovery.at = "broken" => marker.phase # "ROLLED_BACK"

\* Which run a process works for, and that a run that ended in a commit is not
\* rolled back for its own sake.
RunsKnown ==
    /\ deploy # None => run.stage = "deploying"
    /\ recovery # None /\ deploy = None => run.stage = "rollback"
    /\ marker # None /\ marker.id = run.id =>
         /\ marker.candidate = run.release
         /\ ~SmokeMayFail /\ run.stage = "rollback" => marker.phase # "COMMITTED"

MirrorInv == RunsKnown /\ (spent.faults = 0 => MirrorKnows)

\* What a step of the host is to the abstract executor.
Mirrored == Mirror!ContractNext \/ ExplicitRollback \/ UNCHANGED Transaction

-----------------------------------------------------------------------------
(* Lemmas about the transaction *)

LEMMA Phased == Phases = {"PREPARED", "SWITCHING", "ACTIVATED_UNVERIFIED", "VERIFIED",
                          "COMMITTED", "ROLLING_BACK", "ROLLED_BACK", "FAILED"}
BY DEF Phases, Contract!Phases

LEMMA MovedFields ==
  ASSUME NEW m \in Markers, NEW phase \in Phases
  PROVE  /\ Moved(m, phase) \in Markers
         /\ Moved(m, phase).phase = phase
         /\ phase = "SWITCHING" => Moved(m, phase).boundary
         /\ phase # "SWITCHING" => Moved(m, phase).boundary = m.boundary
         /\ Moved(m, phase).candidate = m.candidate
         /\ Moved(m, phase).previous = m.previous
         /\ Moved(m, phase).id = m.id
         /\ phase = "COMMITTED" => Moved(m, phase).current = m.candidate
BY DEF Moved, Markers, Contract!CurrentAfter

\* Where a transaction may come from.
LEMMA Origins ==
  ASSUME NEW m \in Markers, NEW explicit \in BOOLEAN
  PROVE  /\ CanMove(m, "SWITCHING", explicit) => m.phase = "PREPARED"
         /\ CanMove(m, "ACTIVATED_UNVERIFIED", explicit) => m.phase = "SWITCHING"
         /\ CanMove(m, "VERIFIED", explicit) => m.phase = "ACTIVATED_UNVERIFIED"
         /\ CanMove(m, "COMMITTED", explicit) => m.phase = "VERIFIED"
         /\ CanMove(m, "ROLLED_BACK", explicit) => m.phase = "ROLLING_BACK"
         /\ CanMove(m, "ROLLING_BACK", explicit) => m.boundary
         /\ CanMove(m, "FAILED", explicit) => m.phase \notin {"COMMITTED", "ROLLED_BACK"}
<1>1. m.phase \in Phases
  BY DEF Markers
<1> QED BY <1>1, Phased DEF CanMove, IsAllowed, Contract!ALLOWED_TRANSITIONS

-----------------------------------------------------------------------------
(* The steps *)

LEMMA InitSound == ASSUME DeploymentAssumption, DeploymentInit PROVE HostInv
<1> USE DEF DeploymentAssumption, DeploymentInit
<1>0. ledger \in [Ids -> Seq(Results)]
  OBVIOUS
<1>1. FilesTyped
  BY <1>0 DEF FilesTyped
<1>2. WorkflowTyped
  BY DEF WorkflowTyped
<1>3. DeployTyped /\ RecoveryTyped /\ DeployKnows /\ RecoveryKnows
  BY DEF DeployTyped, RecoveryTyped, DeployKnows, RecoveryKnows
<1>4. Recoverable(marker) /\ TerminalIsLive /\ pointers.current \in stored
  BY DEF Recoverable, TerminalIsLive
<1> QED BY <1>1, <1>2, <1>3, <1>4 DEF HostInv

\* What a process is after it went on, remembering a transaction or not.
LEMMA Went ==
  ASSUME DeployTyped, deploy # None, NEW step \in DeploySteps, Goto(step)
  PROVE  /\ deploy' \in DeployRecords
         /\ deploy'.at = step /\ deploy'.mem = deploy.mem
         /\ deploy'.replaced = deploy.replaced /\ deploy'.holds = deploy.holds
BY DEF Goto, DeployTyped, DeployRecords

LEMMA Remembered ==
  ASSUME DeployTyped, deploy # None, NEW step \in DeploySteps,
         NEW m \in Markers \cup {None}, Remember(m, step)
  PROVE  /\ deploy' \in DeployRecords
         /\ deploy'.at = step /\ deploy'.mem = m
         /\ deploy'.replaced = deploy.replaced /\ deploy'.holds = deploy.holds
BY DEF Remember, DeployTyped, DeployRecords

LEMMA RecoveryWent ==
  ASSUME RecoveryTyped, recovery # None, NEW step \in RecoverySteps, RecoveryGoto(step)
  PROVE  /\ recovery' \in RecoveryRecords
         /\ recovery'.at = step /\ recovery'.mem = recovery.mem
         /\ recovery'.target = recovery.target
BY DEF RecoveryGoto, RecoveryTyped, RecoveryRecords

LEMMA RecoveryRemembered ==
  ASSUME RecoveryTyped, recovery # None, NEW step \in RecoverySteps,
         NEW m \in Markers \cup {None}, RecoveryRemembers(m, step)
  PROVE  /\ recovery' \in RecoveryRecords
         /\ recovery'.at = step /\ recovery'.mem = m
         /\ recovery'.target = recovery.target
BY DEF RecoveryRemembers, RecoveryTyped, RecoveryRecords

LEMMA SpentTyped ==
  ASSUME WorkflowTyped, Fault \/ spent' = spent
  PROVE  spent' \in [runs : Nat, recoveries : Nat, faults : Nat, crashes : Nat]
BY DEF WorkflowTyped, Fault

\* While a deployment works on its own there is no recovery, and where its
\* memory is the marker it is the transaction of its run.
LEMMA KnownMarker ==
  ASSUME DeploymentAssumption, HostInv, deploy # None, deploy.at \in DOMAIN KnownPhase
  PROVE  /\ recovery = None /\ deploy.mem = marker
         /\ marker \in Markers /\ marker # None /\ marker.phase \in KnownPhase[deploy.at]
         /\ marker.candidate = run.release /\ run.release \in Releases /\ run.id \in Ids
         /\ ~deploy.holds
BY DEF HostInv, FilesTyped, DeployTyped, RecoveryTyped, DeployKnows, KnownPhase, FactAt,
       DeployRecords

\* A step of a deployment on its own keeps the invariant if what it leaves in
\* its files and in its own memory is sound.
LEMMA DeployStepSound ==
  ASSUME DeploymentAssumption, HostInv, deploy # None, deploy.at # "recovering",
         UNCHANGED <<run, recovery>>, Fault \/ spent' = spent,
         FilesTyped', (pointers.current \in stored)',
         deploy' \in DeployRecords, deploy'.mem \in Markers,
         deploy'.mem.candidate = run.release,
         deploy'.holds => deploy'.at \in DOMAIN FactAt,
         Recoverable(marker)', Recoverable(deploy.mem)', DeployKnows', TerminalIsLive'
  PROVE  HostInv'
<1>1. WorkflowTyped'
  BY SpentTyped DEF HostInv, WorkflowTyped
<1>2. DeployTyped'
  BY DEF HostInv, DeployTyped, DeploymentAssumption
<1>3. RecoveryTyped' /\ RecoveryKnows'
  BY DEF HostInv, RecoveryTyped, RecoveryKnows
<1> QED BY <1>1, <1>2, <1>3 DEF HostInv

LEMMA CheckoutSound ==
  ASSUME DeploymentAssumption, HostInv, DeployWork, Checkout PROVE HostInv'
<1> USE DEF HostInv
<1>1. /\ deploy # None /\ deploy.at = "checkout" /\ ~deploy.holds
      /\ run.id \in Ids /\ run.release \in Releases
  BY DEF DeployWork, Checkout, DeployTyped, FactAt
<1>2. UNCHANGED <<ledger, locked, recovery, run, pointers, images, stored, artifact, serving>>
  BY DEF DeployWork, Checkout, FailTo
<1> DEFINE m == FreshMarker(run.id, run.release)
<1>3. m \in Markers /\ m.candidate = run.release /\ m.phase = "PREPARED" /\ ~m.boundary
  BY <1>1, Phased DEF FreshMarker, Markers
<1> HIDE DEF m
<1>4. CASE FailTo("ended")
  <2>1. /\ deploy' \in DeployRecords /\ deploy'.at = "ended" /\ deploy'.mem = deploy.mem
        /\ ~deploy'.holds /\ UNCHANGED <<marker, spent>>
    BY <1>1, <1>4, Went DEF FailTo, DeploySteps
  <2>2. FilesTyped' /\ WorkflowTyped' /\ TerminalIsLive'
    BY <1>2, <2>1 DEF FilesTyped, WorkflowTyped, TerminalIsLive
  <2>3. DeployTyped' /\ RecoveryTyped' /\ RecoveryKnows'
    BY <1>1, <1>2, <2>1 DEF DeployTyped, RecoveryTyped, RecoveryKnows
  <2>4. Recoverable(marker)' /\ (deploy # None => Recoverable(deploy.mem))' /\ DeployKnows'
    BY <1>1, <1>2, <2>1 DEF Recoverable, DeployKnows, KnownPhase, Early, Crossed
  <2> QED BY <1>2, <2>1, <2>2, <2>3, <2>4
<1>5. CASE ~FailTo("ended")
  <2>1. \/ Remember(m, "capture") /\ marker' = m /\ spent' = spent
        \/ Remember(m, "trapped") /\ marker' = marker /\ Fault
    BY <1>5 DEF Checkout, m
  <2>2. /\ deploy' \in DeployRecords /\ deploy'.mem = m /\ ~deploy'.holds
        /\ \/ deploy'.at = "capture" /\ marker' = m
           \/ deploy'.at = "trapped" /\ marker' = marker
    BY <1>1, <1>3, <2>1, Remembered DEF DeploySteps
  <2>3. FilesTyped'
    BY <1>2, <1>3, <2>2 DEF FilesTyped
  <2>4. Recoverable(marker)' /\ Recoverable(deploy.mem)' /\ TerminalIsLive'
    BY <1>2, <1>3, <2>2 DEF Recoverable, TerminalIsLive
  <2>5. DeployKnows'
    BY <1>2, <1>3, <2>2 DEF DeployKnows, KnownPhase, Early, Crossed
  <2> QED BY <1>1, <1>2, <1>3, <2>1, <2>2, <2>3, <2>4, <2>5, DeployStepSound
<1> QED BY <1>4, <1>5

\* A step that fails leaves the files alone.
LEMMA FailToSound ==
  ASSUME DeploymentAssumption, HostInv, deploy # None, deploy.at \in Early \cup Crossed,
         NEW step \in {"failing", "trapped"}, FailTo(step),
         UNCHANGED <<ledger, locked, recovery, run>>
  PROVE  HostInv'
<1>1. deploy.at \in DOMAIN KnownPhase /\ deploy.at # "recovering"
  BY DEF Early, Crossed, KnownPhase
<1>2. /\ deploy' \in DeployRecords /\ deploy'.at = step /\ deploy'.mem = marker /\ ~deploy'.holds
      /\ marker.phase \in KnownPhase["failing"]
  BY <1>1, KnownMarker, Went DEF FailTo, DeploySteps, HostInv, KnownPhase, Early, Crossed
<1>3. FilesTyped' /\ TerminalIsLive' /\ (pointers.current \in stored)'
  BY DEF HostInv, FailTo, FilesTyped, TerminalIsLive
<1>4. Recoverable(marker)' /\ Recoverable(deploy.mem)'
  BY <1>2 DEF HostInv, FailTo, Recoverable
<1>5. DeployKnows'
  BY <1>2 DEF HostInv, FailTo, DeployKnows, KnownPhase, Early, Crossed
<1> QED BY <1>1, <1>2, <1>3, <1>4, <1>5, KnownMarker, DeployStepSound DEF FailTo

\* A transition either moves memory and marker together, or neither.
LEMMA StepCases ==
  ASSUME NEW from, NEW phase, NEW to, Step(from, phase, to)
  PROVE  /\ deploy.at = from
         /\ UNCHANGED <<pointers, images, stored, artifact, serving>>
         /\ \/ /\ CanMove(deploy.mem, phase, FALSE)
               /\ Remember(Moved(deploy.mem, phase), to)
               /\ marker' = Moved(deploy.mem, phase) /\ spent' = spent
            \/ /\ Remember(deploy.mem, "failing") /\ marker' = marker
               /\ Fault \/ spent' = spent
BY Zenon DEF Step, Transitioned

LEMMA TransitionSound ==
  ASSUME DeploymentAssumption, HostInv, deploy # None, UNCHANGED <<ledger, locked, recovery, run>>,
         NEW from, NEW phase, NEW to, Step(from, phase, to),
         \/ from = "boundary" /\ phase = "SWITCHING" /\ to = "migrate"
         \/ from = "activated" /\ phase = "ACTIVATED_UNVERIFIED" /\ to = "probe"
         \/ from = "verified" /\ phase = "VERIFIED" /\ to = "pointer"
         \/ from = "commit" /\ phase = "COMMITTED" /\ to = "record"
  PROVE  HostInv'
<1>1. deploy.at = from /\ UNCHANGED <<pointers, images, stored, artifact, serving>>
  BY StepCases
<1>2. from \in DOMAIN KnownPhase /\ from # "recovering" /\ to \in DeploySteps /\ phase \in Phases
  BY Phased DEF KnownPhase, DeploySteps
<1> DEFINE m == Moved(marker, phase)
<1>3. /\ m \in Markers /\ m.candidate = run.release /\ m.phase = phase
      /\ from # "boundary" => m.boundary = marker.boundary
      /\ from = "boundary" => m.boundary
      /\ m.previous = marker.previous
      /\ phase = "COMMITTED" => m.current = m.candidate
  BY <1>1, <1>2, KnownMarker, MovedFields
<1>4. \/ Remember(m, to) /\ marker' = m /\ spent' = spent
      \/ Remember(marker, "failing") /\ marker' = marker /\ (Fault \/ spent' = spent)
  BY <1>1, <1>2, KnownMarker, StepCases
<1> HIDE DEF m
<1>5. /\ deploy' \in DeployRecords /\ ~deploy'.holds
      /\ \/ deploy'.at = to /\ deploy'.mem = m /\ marker' = m
         \/ deploy'.at = "failing" /\ deploy'.mem = marker /\ marker' = marker
  BY <1>1, <1>2, <1>3, <1>4, KnownMarker, Remembered DEF DeploySteps, HostInv
<1>6. FilesTyped' /\ (pointers.current \in stored)'
  BY <1>1, <1>3, <1>5 DEF HostInv, FilesTyped
<1>7. Recoverable(marker)' /\ Recoverable(deploy.mem)'
  BY <1>1, <1>2, <1>3, <1>5, KnownMarker DEF HostInv, Recoverable, DeployKnows, Crossed
<1>8. TerminalIsLive'
  BY <1>1, <1>3, <1>5 DEF HostInv, TerminalIsLive, DeployKnows
<1>9. DeployKnows'
  BY <1>1, <1>2, <1>3, <1>5, KnownMarker DEF HostInv, DeployKnows, KnownPhase, Early, Crossed
<1> QED BY <1>1, <1>2, <1>3, <1>4, <1>5, <1>6, <1>7, <1>8, <1>9, KnownMarker, DeployStepSound

LEMMA CapturePreviousSound ==
  ASSUME DeploymentAssumption, HostInv, DeployWork, CapturePrevious PROVE HostInv'
<1>1. /\ deploy # None /\ deploy.at = "capture" /\ UNCHANGED <<ledger, locked, recovery, run>>
      /\ deploy.at \in Early /\ deploy.at \in DOMAIN KnownPhase
  BY DEF DeployWork, CapturePrevious, Early, KnownPhase
<1>2. CASE FailTo("trapped")
  BY <1>1, <1>2, FailToSound
<1>3. CASE ~FailTo("trapped")
  <2>1. /\ pointers' = [pointers EXCEPT !.previous = pointers.current]
        /\ deploy' = [deploy EXCEPT !.at = "identify", !.replaced = images.current]
        /\ UNCHANGED <<marker, images, stored, artifact, serving, spent>>
    BY <1>3 DEF CapturePrevious
  <2>2. /\ deploy' \in DeployRecords /\ deploy'.at = "identify" /\ deploy'.mem = marker
        /\ ~deploy'.holds
    BY <1>1, <2>1, KnownMarker DEF HostInv, DeployTyped, DeployRecords, DeploySteps, FilesTyped
  <2>3. /\ pointers' \in [current : Releases, previous : Releases \cup {None}]
        /\ pointers'.current = pointers.current /\ pointers'.previous = pointers.current
    BY <2>1 DEF HostInv, FilesTyped
  <2>4. FilesTyped' /\ (pointers.current \in stored)' /\ TerminalIsLive'
    BY <1>1, <2>1, <2>3 DEF HostInv, FilesTyped, TerminalIsLive
  <2>5. Recoverable(marker)' /\ Recoverable(deploy.mem)'
    BY <1>1, <2>1, <2>2 DEF HostInv, Recoverable, DeployKnows
  <2>6. DeployKnows'
    BY <1>1, <2>1, <2>2, KnownMarker DEF HostInv, DeployKnows, KnownPhase, Early, Crossed
  <2> QED BY <1>1, <2>1, <2>2, <2>3, <2>4, <2>5, <2>6, KnownMarker, DeployStepSound
<1> QED BY <1>2, <1>3

LEMMA IdentifySound ==
  ASSUME DeploymentAssumption, HostInv, DeployWork, Identify PROVE HostInv'
<1>1. /\ deploy # None /\ deploy.at = "identify" /\ deploy.at \in DOMAIN KnownPhase
      /\ UNCHANGED <<ledger, locked, recovery, run, pointers, images, stored, artifact, serving>>
  BY DEF DeployWork, Identify, KnownPhase
<1> DEFINE m == [deploy.mem EXCEPT !.previous = pointers.previous, !.current = pointers.current]
           to == IF pointers.previous \in stored THEN "artifact" ELSE "trapped"
<1>2. /\ m \in Markers /\ m.candidate = run.release /\ m.phase = "PREPARED" /\ ~m.boundary
      /\ m.previous = pointers.previous
  <2>1. marker.phase = "PREPARED" /\ ~marker.boundary
    BY <1>1, KnownMarker DEF HostInv, DeployKnows, Early, KnownPhase
  <2>2. pointers.previous \in Releases \cup {None} /\ pointers.current \in Releases
    BY DEF HostInv, FilesTyped
  <2> QED BY <1>1, <2>1, <2>2, KnownMarker DEF Markers
<1>3. \/ Remember(m, to) /\ marker' = m /\ spent' = spent
      \/ Remember(m, "trapped") /\ marker' = marker /\ Fault
  BY DEF Identify
<1> HIDE DEF m
<1>4. /\ deploy' \in DeployRecords /\ deploy'.mem = m /\ ~deploy'.holds
      /\ \/ deploy'.at = to /\ marker' = m
         \/ deploy'.at = "trapped" /\ marker' = marker
  BY <1>1, <1>2, <1>3, KnownMarker, Remembered DEF DeploySteps, HostInv
<1>5. FilesTyped' /\ (pointers.current \in stored)'
  BY <1>1, <1>2, <1>4 DEF HostInv, FilesTyped
<1>6. Recoverable(marker)' /\ Recoverable(deploy.mem)' /\ TerminalIsLive'
  BY <1>1, <1>2, <1>4 DEF HostInv, Recoverable, TerminalIsLive
<1>7. stored \subseteq Releases /\ None \notin Releases
  BY DEF HostInv, FilesTyped, DeploymentAssumption
<1>8. DeployKnows'
  BY <1>1, <1>2, <1>4, <1>7 DEF HostInv, DeployKnows, KnownPhase, Early, Crossed
<1> QED BY <1>1, <1>2, <1>3, <1>4, <1>5, <1>6, <1>8, KnownMarker, DeployStepSound

LEMMA PrepareArtifactSound ==
  ASSUME DeploymentAssumption, HostInv, DeployWork, PrepareArtifact PROVE HostInv'
<1>1. /\ deploy # None /\ deploy.at = "artifact" /\ UNCHANGED <<ledger, locked, recovery, run>>
      /\ deploy.at \in Early /\ deploy.at \in DOMAIN KnownPhase
  BY DEF DeployWork, PrepareArtifact, Early, KnownPhase
<1>2. CASE FailTo("trapped")
  BY <1>1, <1>2, FailToSound
<1>3. CASE ~FailTo("trapped")
  <2>1. /\ artifact' = run.release /\ marker' = marker
        /\ \/ Goto("prepare") /\ spent' = spent
           \/ Goto("trapped") /\ Fault
        /\ UNCHANGED <<pointers, images, stored, serving>>
    BY <1>1, <1>3, KnownMarker DEF PrepareArtifact
  <2>2. /\ deploy' \in DeployRecords /\ deploy'.at \in {"prepare", "trapped"}
        /\ deploy'.mem = marker /\ ~deploy'.holds
    BY <1>1, <2>1, KnownMarker, Went DEF HostInv, DeploySteps
  <2>3. FilesTyped' /\ (pointers.current \in stored)' /\ TerminalIsLive'
    BY <1>1, <2>1, KnownMarker DEF HostInv, FilesTyped, TerminalIsLive
  <2>4. Recoverable(marker)' /\ Recoverable(deploy.mem)'
    BY <1>1, <2>1, <2>2 DEF HostInv, Recoverable, DeployKnows
  <2>5. DeployKnows'
    BY <1>1, <2>1, <2>2, KnownMarker DEF HostInv, DeployKnows, KnownPhase, Early, Crossed
  <2> QED BY <1>1, <2>1, <2>2, <2>3, <2>4, <2>5, KnownMarker, DeployStepSound
<1> QED BY <1>2, <1>3

LEMMA PrepareSound ==
  ASSUME DeploymentAssumption, HostInv, DeployWork, Prepare PROVE HostInv'
<1>1. /\ deploy # None /\ deploy.at = "prepare" /\ UNCHANGED <<ledger, locked, recovery, run>>
      /\ deploy.at \in Early /\ deploy.at \in DOMAIN KnownPhase
  BY DEF DeployWork, Prepare, Early, KnownPhase
<1>2. CASE FailTo("failing")
  BY <1>1, <1>2, FailToSound
<1>3. CASE ~FailTo("failing")
  <2>1. /\ images' = [images EXCEPT !.pending = run.release]
        /\ stored' = stored \cup {run.release}
        /\ Goto("boundary") \/ Goto("failing")
        /\ UNCHANGED <<marker, pointers, artifact, serving, spent>>
    BY <1>3 DEF Prepare
  <2>2. /\ deploy' \in DeployRecords /\ deploy'.at \in {"boundary", "failing"}
        /\ deploy'.mem = marker /\ ~deploy'.holds
    BY <1>1, <2>1, KnownMarker, Went DEF HostInv, DeploySteps
  <2>3. /\ images' \in [current : Releases, pending : Releases \cup {None}]
        /\ images'.current = images.current /\ images'.pending = run.release
    BY <1>1, <2>1, KnownMarker DEF HostInv, FilesTyped
  <2>4. FilesTyped' /\ (pointers.current \in stored)' /\ TerminalIsLive'
    BY <1>1, <2>1, <2>3, KnownMarker DEF HostInv, FilesTyped, TerminalIsLive
  <2>5. Recoverable(marker)' /\ Recoverable(deploy.mem)'
    BY <1>1, <2>1, <2>2 DEF HostInv, Recoverable
  <2>6. DeployKnows'
    BY <1>1, <2>1, <2>2, <2>3, KnownMarker DEF HostInv, DeployKnows, KnownPhase, Early, Crossed
  <2> QED BY <1>1, <2>1, <2>2, <2>3, <2>4, <2>5, <2>6, KnownMarker, DeployStepSound
<1> QED BY <1>2, <1>3

\* Past the boundary: what is live changes.
LEMMA MigrateAndStopSound ==
  ASSUME DeploymentAssumption, HostInv, DeployWork, MigrateAndStop PROVE HostInv'
<1>1. /\ deploy # None /\ deploy.at = "migrate" /\ UNCHANGED <<ledger, locked, recovery, run>>
      /\ deploy.at \in Crossed /\ deploy.at \in DOMAIN KnownPhase
  BY DEF DeployWork, MigrateAndStop, Crossed, KnownPhase
<1>2. CASE FailTo("failing")
  BY <1>1, <1>2, FailToSound
<1>3. CASE ~FailTo("failing")
  <2>1. /\ serving' = None /\ Goto("start")
        /\ UNCHANGED <<marker, pointers, images, stored, artifact, spent>>
    BY <1>3 DEF MigrateAndStop
  <2>2. deploy' \in DeployRecords /\ deploy'.at = "start" /\ deploy'.mem = marker /\ ~deploy'.holds
    BY <1>1, <2>1, KnownMarker, Went DEF HostInv, DeploySteps
  <2>3. FilesTyped' /\ (pointers.current \in stored)'
    BY <1>1, <2>1, KnownMarker DEF HostInv, FilesTyped
  <2>4. Recoverable(marker)' /\ Recoverable(deploy.mem)' /\ TerminalIsLive'
    BY <1>1, <2>1, <2>2, KnownMarker DEF HostInv, Recoverable, TerminalIsLive, KnownPhase
  <2>5. DeployKnows'
    BY <1>1, <2>1, <2>2, KnownMarker DEF HostInv, DeployKnows, KnownPhase, Early, Crossed
  <2> QED BY <1>1, <2>1, <2>2, <2>3, <2>4, <2>5, KnownMarker, DeployStepSound
<1> QED BY <1>2, <1>3

LEMMA StartCandidateSound ==
  ASSUME DeploymentAssumption, HostInv, DeployWork, StartCandidate PROVE HostInv'
<1>1. /\ deploy # None /\ deploy.at = "start" /\ UNCHANGED <<ledger, locked, recovery, run>>
      /\ deploy.at \in Crossed /\ deploy.at \in DOMAIN KnownPhase
  BY DEF DeployWork, StartCandidate, Crossed, KnownPhase
<1>2. CASE FailTo("failing")
  BY <1>1, <1>2, FailToSound
<1>3. CASE ~FailTo("failing")
  <2>1. /\ serving' = run.release
        /\ Goto("activated") \/ Goto("failing")
        /\ UNCHANGED <<marker, pointers, images, stored, artifact, spent>>
    BY <1>3 DEF StartCandidate
  <2>2. /\ deploy' \in DeployRecords /\ deploy'.at \in {"activated", "failing"}
        /\ deploy'.mem = marker /\ ~deploy'.holds
    BY <1>1, <2>1, KnownMarker, Went DEF HostInv, DeploySteps
  <2>3. FilesTyped' /\ (pointers.current \in stored)'
    <3>1. serving' \in Releases
      BY <1>1, <2>1, KnownMarker
    <3> QED BY <1>1, <2>1, <3>1 DEF HostInv, FilesTyped
  <2>4. Recoverable(marker)' /\ Recoverable(deploy.mem)' /\ TerminalIsLive'
    BY <1>1, <2>1, <2>2, KnownMarker DEF HostInv, Recoverable, TerminalIsLive, KnownPhase
  <2>5. DeployKnows'
    <3>1. marker.phase = "SWITCHING" /\ marker.boundary
      BY <1>1, KnownMarker DEF HostInv, DeployKnows, KnownPhase
    <3> QED BY <1>1, <2>1, <2>2, <3>1 DEF HostInv, DeployKnows, KnownPhase, Early, Crossed
  <2> QED BY <1>1, <2>1, <2>2, <2>3, <2>4, <2>5, KnownMarker, DeployStepSound
<1> QED BY <1>2, <1>3

LEMMA ProbeSound ==
  ASSUME DeploymentAssumption, HostInv, DeployWork, Probe PROVE HostInv'
<1>1. /\ deploy # None /\ deploy.at = "probe" /\ UNCHANGED <<ledger, locked, recovery, run>>
      /\ deploy.at \in Crossed /\ deploy.at \in DOMAIN KnownPhase
  BY DEF DeployWork, Probe, Crossed, KnownPhase
<1>2. CASE FailTo("failing")
  BY <1>1, <1>2, FailToSound
<1>3. CASE ~FailTo("failing")
  <2>1. /\ Goto("verified")
        /\ UNCHANGED <<marker, pointers, images, stored, artifact, serving, spent>>
    BY <1>3 DEF Probe, FailTo
  <2>2. deploy' \in DeployRecords /\ deploy'.at = "verified" /\ deploy'.mem = marker /\ ~deploy'.holds
    BY <1>1, <2>1, KnownMarker, Went DEF HostInv, DeploySteps
  <2>3. FilesTyped' /\ (pointers.current \in stored)' /\ TerminalIsLive'
    BY <1>1, <2>1 DEF HostInv, FilesTyped, TerminalIsLive
  <2>4. Recoverable(marker)' /\ Recoverable(deploy.mem)'
    BY <1>1, <2>1, <2>2 DEF HostInv, Recoverable
  <2>5. DeployKnows'
    BY <1>1, <2>1, <2>2, KnownMarker DEF HostInv, DeployKnows, KnownPhase, Early, Crossed
  <2> QED BY <1>1, <2>1, <2>2, <2>3, <2>4, <2>5, KnownMarker, DeployStepSound
<1> QED BY <1>2, <1>3

LEMMA ActivatePointerSound ==
  ASSUME DeploymentAssumption, HostInv, DeployWork, ActivatePointer PROVE HostInv'
<1>1. /\ deploy # None /\ deploy.at \in {"pointer", "pointing"}
      /\ UNCHANGED <<ledger, locked, recovery, run>>
      /\ deploy.at \in Crossed /\ deploy.at \in DOMAIN KnownPhase
  BY DEF DeployWork, ActivatePointer, Crossed, KnownPhase
<1>2. CASE FailTo("failing")
  BY <1>1, <1>2, FailToSound
<1>3. CASE ~FailTo("failing")
  <2>1. /\ \/ /\ pointers' = [pointers EXCEPT !.previous = ActivatedPrevious(run.release)]
              /\ Goto("pointing")
           \/ /\ pointers' = [pointers EXCEPT !.current = run.release]
              /\ Goto("publish")
        /\ UNCHANGED <<marker, images, stored, artifact, serving, spent>>
    BY <1>3 DEF ActivatePointer
  <2>2. /\ deploy' \in DeployRecords /\ deploy'.at \in {"pointing", "publish"}
        /\ deploy'.mem = marker /\ ~deploy'.holds
        /\ Goto("pointing") => deploy'.at = "pointing"
    BY <1>1, <2>1, KnownMarker, Went DEF HostInv, DeploySteps
  <2>3. /\ pointers' \in [current : Releases, previous : Releases \cup {None}]
        /\ pointers'.current \in {pointers.current, run.release} /\ run.release \in stored
        /\ deploy'.at = "publish" => pointers'.current = run.release
    BY <1>1, <2>1, <2>2, KnownMarker DEF HostInv, FilesTyped, ActivatedPrevious, DeployKnows
  <2>4. pointers'.previous \in stored /\ marker.boundary
    BY <1>1, <2>1, KnownMarker DEF HostInv, FilesTyped, DeployKnows, Recoverable, ActivatedPrevious
  <2>5. FilesTyped' /\ (pointers.current \in stored)' /\ TerminalIsLive'
    <3>1. marker.phase = "VERIFIED"
      BY <1>1, KnownMarker DEF KnownPhase
    <3>2. TerminalIsLive'
      BY <2>1, <3>1 DEF TerminalIsLive
    <3> QED BY <1>1, <2>1, <2>3, <3>2 DEF HostInv, FilesTyped
  <2>6. Recoverable(marker)' /\ Recoverable(deploy.mem)'
    BY <1>1, <2>1, <2>2, <2>4 DEF HostInv, Recoverable
  <2>7. DeployKnows'
    BY <1>1, <2>1, <2>2, <2>3, KnownMarker DEF HostInv, DeployKnows, KnownPhase, Early, Crossed
  <2> QED BY <1>1, <2>1, <2>2, <2>5, <2>6, <2>7, KnownMarker, DeployStepSound
<1> QED BY <1>2, <1>3

LEMMA PublishPendingSound ==
  ASSUME DeploymentAssumption, HostInv, DeployWork, PublishPending PROVE HostInv'
<1>1. /\ deploy # None /\ deploy.at = "publish" /\ UNCHANGED <<ledger, locked, recovery, run>>
      /\ deploy.at \in Crossed /\ deploy.at \in DOMAIN KnownPhase
  BY DEF DeployWork, PublishPending, Crossed, KnownPhase
<1>2. CASE FailTo("failing")
  BY <1>1, <1>2, FailToSound
<1>3. CASE ~FailTo("failing")
  <2>1. /\ images' = [current |-> images.pending, pending |-> None]
        /\ Goto("commit") \/ Goto("failing")
        /\ UNCHANGED <<marker, pointers, stored, artifact, serving, spent>>
    BY <1>3 DEF PublishPending
  <2>2. /\ deploy' \in DeployRecords /\ deploy'.at \in {"commit", "failing"}
        /\ deploy'.mem = marker /\ ~deploy'.holds
    BY <1>1, <2>1, KnownMarker, Went DEF HostInv, DeploySteps
  <2>3. /\ images' \in [current : Releases, pending : Releases \cup {None}]
        /\ images'.current = run.release
    BY <1>1, <2>1, KnownMarker DEF HostInv, DeployKnows, Crossed
  <2>4. FilesTyped' /\ (pointers.current \in stored)' /\ TerminalIsLive'
    <3>1. marker.phase = "VERIFIED"
      BY <1>1, KnownMarker DEF KnownPhase
    <3>2. TerminalIsLive'
      BY <2>1, <3>1 DEF TerminalIsLive
    <3> QED BY <1>1, <2>1, <2>3, <3>2 DEF HostInv, FilesTyped
  <2>5. Recoverable(marker)' /\ Recoverable(deploy.mem)'
    BY <1>1, <2>1, <2>2 DEF HostInv, Recoverable
  <2>6. DeployKnows'
    BY <1>1, <2>1, <2>2, <2>3, KnownMarker DEF HostInv, DeployKnows, KnownPhase, Early, Crossed
  <2> QED BY <1>1, <2>1, <2>2, <2>4, <2>5, <2>6, KnownMarker, DeployStepSound
<1> QED BY <1>2, <1>3

LEMMA DeployWorkSound ==
  ASSUME DeploymentAssumption, HostInv, DeployWork PROVE HostInv'
<1>1. deploy # None /\ UNCHANGED <<ledger, locked, recovery, run>>
  BY DEF DeployWork
<1>2. CASE CrossBoundary \/ RecordActivated \/ RecordVerified \/ Commit
  BY <1>1, <1>2, TransitionSound DEF CrossBoundary, RecordActivated, RecordVerified, Commit
<1> QED BY <1>2, CheckoutSound, CapturePreviousSound, IdentifySound, PrepareArtifactSound,
          PrepareSound, MigrateAndStopSound, StartCandidateSound, ProbeSound,
          ActivatePointerSound, PublishPendingSound DEF DeployWork

-----------------------------------------------------------------------------
(* The ends of a deployment *)

LEMMA AppendedTyped ==
  ASSUME FilesTyped, NEW id \in Ids, NEW result \in Results
  PROVE  Appended(id, result) \in [Ids -> Seq(Results)]
<1>1. ledger[id] \in Seq(Results) /\ Append(ledger[id], result) \in Seq(Results)
  BY DEF FilesTyped
<1> QED BY <1>1 DEF Appended, FilesTyped

LEMMA TakeLedgerSound ==
  ASSUME DeploymentAssumption, HostInv, TakeLedger PROVE HostInv'
<1>1. /\ deploy # None /\ deploy.at \in DOMAIN FactAt /\ deploy.at # "recovering"
      /\ UNCHANGED <<marker, pointers, images, stored, artifact, serving, ledger, recovery,
                     run, spent>>
      /\ deploy.mem \in Markers /\ deploy.mem.candidate = run.release
  BY DEF TakeLedger, HostInv, DeployTyped, FactAt, DeployRecords
<1>2. /\ deploy' \in DeployRecords /\ deploy'.mem = deploy.mem /\ locked' \in BOOLEAN
      /\ \/ deploy'.at = deploy.at
         \/ deploy'.at \in {"ended", "succeeded", "trapped"} /\ ~deploy'.holds
  <2>1. CASE locked' = TRUE /\ deploy' = [deploy EXCEPT !.holds = TRUE]
    BY <1>1, <2>1 DEF HostInv, DeployTyped, DeployRecords
  <2>2. CASE /\ UNCHANGED locked /\ ~deploy.holds
             /\ Goto("ended") \/ Goto(AfterFact[deploy.at])
    <3>1. AfterFact[deploy.at] \in {"ended", "succeeded", "trapped"}
      BY <1>1 DEF FactAt, AfterFact
    <3> QED BY <1>1, <2>2, <3>1, Went DEF HostInv, DeploySteps, FilesTyped
  <2> QED BY <2>1, <2>2 DEF TakeLedger
<1>3. FilesTyped' /\ (pointers.current \in stored)' /\ TerminalIsLive'
  BY <1>1, <1>2 DEF HostInv, FilesTyped, TerminalIsLive
<1>4. Recoverable(marker)' /\ Recoverable(deploy.mem)'
  BY <1>1, <1>2 DEF HostInv, Recoverable
<1>5. DeployKnows'
  BY <1>1, <1>2 DEF DeployKnows, KnownPhase, Early, Crossed, FactAt
<1> QED BY <1>1, <1>2, <1>3, <1>4, <1>5, DeployStepSound

LEMMA WriteLedgerSound ==
  ASSUME DeploymentAssumption, HostInv, WriteLedger PROVE HostInv'
<1>1. /\ deploy # None /\ deploy.at \in DOMAIN FactAt /\ deploy.at # "recovering"
      /\ UNCHANGED <<marker, pointers, images, stored, artifact, serving, recovery, run, spent>>
      /\ deploy.mem \in Markers /\ deploy.mem.candidate = run.release
  BY DEF WriteLedger, HostInv, DeployTyped, FactAt, DeployRecords
<1>2. /\ deploy' \in DeployRecords /\ deploy'.mem = deploy.mem /\ ~deploy'.holds
      /\ deploy'.at \in {"ended", "succeeded", "trapped"}
  <2>1. AfterFact[deploy.at] \in {"ended", "succeeded", "trapped"}
    BY <1>1 DEF FactAt, AfterFact
  <2>2. deploy' = [deploy EXCEPT !.holds = FALSE, !.at = AfterFact[deploy.at]]
    BY DEF WriteLedger
  <2> QED BY <1>1, <2>1, <2>2 DEF HostInv, DeployTyped, DeployRecords, DeploySteps
<1>3. FilesTyped'
  <2>1. deploy.mem.id \in Ids /\ FactAt[deploy.at] \in Results
    BY <1>1 DEF Markers, FactAt, Results
  <2>2. ledger' \in [Ids -> Seq(Results)] /\ locked' \in BOOLEAN
    BY <2>1, AppendedTyped DEF WriteLedger, HostInv
  <2> QED BY <1>1, <2>2 DEF HostInv, FilesTyped
<1>4. Recoverable(marker)' /\ Recoverable(deploy.mem)' /\ (pointers.current \in stored)'
  BY <1>1, <1>2 DEF HostInv, Recoverable
<1>5. DeployKnows' /\ TerminalIsLive'
  BY <1>1, <1>2 DEF HostInv, DeployKnows, KnownPhase, Early, Crossed, TerminalIsLive
<1> QED BY <1>1, <1>2, <1>3, <1>4, <1>5, DeployStepSound

\* A failure is marked in memory and marker, or written again, or neither.
LEMMA FailedCases ==
  ASSUME NEW m, NEW m2, Failed(m, m2)
  PROVE  /\ Fault \/ spent' = spent
         /\ \/ CanMove(m, "FAILED", FALSE) /\ m2 = Moved(m, "FAILED") /\ marker' = m2
            \/ m2 = m /\ marker' = marker
            \/ m2 = m /\ m.phase = "FAILED" /\ marker' = m
BY Zenon DEF Failed, Transitioned

\* The same of a transaction of the marker's type: only its phase changes.
LEMMA FailedFields ==
  ASSUME NEW m \in Markers, NEW m2, Failed(m, m2)
  PROVE  /\ Fault \/ spent' = spent
         /\ m2 \in Markers /\ m2.candidate = m.candidate /\ m2.previous = m.previous
         /\ m2.boundary = m.boundary
         /\ \/ m.phase \notin {"COMMITTED", "ROLLED_BACK"} /\ m2.phase = "FAILED" /\ marker' = m2
            \/ m2 = m /\ marker' = marker
            \/ m2 = m /\ m.phase = "FAILED" /\ marker' = m
<1>1. "FAILED" \in Phases /\ "FAILED" # "SWITCHING"
  BY Phased
<1>2. /\ Moved(m, "FAILED") \in Markers /\ Moved(m, "FAILED").phase = "FAILED"
      /\ Moved(m, "FAILED").candidate = m.candidate
      /\ Moved(m, "FAILED").previous = m.previous
      /\ Moved(m, "FAILED").boundary = m.boundary
  BY <1>1, MovedFields
<1>3. CanMove(m, "FAILED", FALSE) => m.phase \notin {"COMMITTED", "ROLLED_BACK"}
  BY Origins
<1>4. /\ Fault \/ spent' = spent
      /\ \/ CanMove(m, "FAILED", FALSE) /\ m2 = Moved(m, "FAILED") /\ marker' = m2
         \/ m2 = m /\ marker' = marker
         \/ m2 = m /\ m.phase = "FAILED" /\ marker' = m
  BY FailedCases
<1> QED BY <1>2, <1>3, <1>4, Zenon

LEMMA MarkFailureSound ==
  ASSUME DeploymentAssumption, HostInv, MarkFailure PROVE HostInv'
<1>1. /\ deploy # None /\ deploy.at = "failing" /\ deploy.at \in DOMAIN KnownPhase
      /\ UNCHANGED <<pointers, images, stored, artifact, serving, ledger, locked, recovery, run>>
  BY DEF MarkFailure, KnownPhase
<1>2. PICK m2 : /\ Failed(marker, m2)
                /\ Remember(m2, IF m2.boundary THEN "beginning" ELSE "failed")
  BY <1>1, KnownMarker DEF MarkFailure
<1>3. /\ Fault \/ spent' = spent
      /\ m2 \in Markers /\ m2.candidate = run.release /\ m2.previous = marker.previous
      /\ m2.boundary = marker.boundary /\ marker' = m2
      /\ m2.phase \in KnownPhase["beginning"]
  <2>1. "FAILED" \in Phases /\ marker.phase \in KnownPhase["failing"]
    BY <1>1, Phased, KnownMarker
  <2>2. m2.phase \in {"FAILED", marker.phase}
    BY <1>1, <1>2, FailedFields, KnownMarker
  <2> QED BY <1>1, <1>2, <2>1, <2>2, FailedFields, KnownMarker DEF KnownPhase
<1>4. /\ deploy' \in DeployRecords /\ deploy'.mem = m2 /\ ~deploy'.holds
      /\ deploy'.at = IF m2.boundary THEN "beginning" ELSE "failed"
  BY <1>1, <1>2, <1>3, KnownMarker, Remembered DEF HostInv, DeploySteps
<1>5. FilesTyped' /\ (pointers.current \in stored)'
  BY <1>1, <1>3 DEF HostInv, FilesTyped
<1>6. Recoverable(marker)' /\ Recoverable(deploy.mem)' /\ TerminalIsLive'
  BY <1>1, <1>3, <1>4, KnownMarker DEF HostInv, Recoverable, TerminalIsLive, KnownPhase
<1>7. DeployKnows'
  BY <1>1, <1>3, <1>4 DEF DeployKnows, KnownPhase, Early, Crossed
<1> QED BY <1>1, <1>3, <1>4, <1>5, <1>6, <1>7, DeployStepSound

LEMMA BeginRollbackSound ==
  ASSUME DeploymentAssumption, HostInv, BeginRollback PROVE HostInv'
<1>1. /\ deploy # None /\ deploy.at = "beginning" /\ deploy.at \in DOMAIN KnownPhase
      /\ UNCHANGED <<pointers, images, stored, artifact, serving, ledger, locked, run>>
      /\ recovery' = [at |-> "select", mem |-> None, target |-> None]
  BY DEF BeginRollback, KnownPhase
<1> DEFINE m == [deploy.mem EXCEPT !.rollback = "running"]
<1>2. /\ m \in Markers /\ m.candidate = run.release /\ m.previous = marker.previous
      /\ m.boundary /\ marker.boundary /\ m.phase = marker.phase
  <2>1. marker.boundary
    BY <1>1 DEF HostInv, DeployKnows
  <2> QED BY <1>1, <2>1, KnownMarker DEF Markers
<1>3. PICK m2 \in {m, Moved(m, "ROLLING_BACK")}, ok \in BOOLEAN :
        Transitioned(m, "ROLLING_BACK", FALSE, m2, ok) /\ Remember(m2, "recovering")
  BY Zenon DEF BeginRollback
<1> HIDE DEF m
<1>4. /\ Fault \/ spent' = spent
      /\ m2 \in Markers /\ m2.candidate = run.release /\ m2.previous = marker.previous
      /\ m2.boundary /\ marker' \in {m2, marker} /\ (marker' # marker => m2.phase = "ROLLING_BACK")
  <2>1. /\ Fault \/ spent' = spent
        /\ \/ m2 = Moved(m, "ROLLING_BACK") /\ marker' = m2
           \/ m2 = m /\ marker' = marker
    BY <1>3, Zenon DEF Transitioned
  <2>2. /\ Moved(m, "ROLLING_BACK") \in Markers /\ Moved(m, "ROLLING_BACK").phase = "ROLLING_BACK"
        /\ Moved(m, "ROLLING_BACK").candidate = m.candidate /\ Moved(m, "ROLLING_BACK").previous = m.previous
        /\ Moved(m, "ROLLING_BACK").boundary = m.boundary
    BY <1>2, Phased, MovedFields
  <2> QED BY <2>1, <2>2, <1>2
<1>5. deploy' \in DeployRecords /\ deploy'.mem = m2 /\ ~deploy'.holds /\ deploy'.at = "recovering"
  BY <1>1, <1>3, <1>4, KnownMarker, Remembered DEF HostInv, DeploySteps
<1>6. FilesTyped' /\ (pointers.current \in stored)'
  BY <1>1, <1>4 DEF HostInv, FilesTyped
<1>7. WorkflowTyped'
  BY <1>1, <1>4, SpentTyped DEF HostInv, WorkflowTyped
<1>8. Recoverable(marker)' /\ (deploy # None => Recoverable(deploy.mem))'
  BY <1>1, <1>2, <1>4, <1>5, KnownMarker DEF HostInv, Recoverable
<1>9. TerminalIsLive'
  BY <1>1, <1>4, KnownMarker DEF HostInv, TerminalIsLive
<1>10. DeployTyped' /\ RecoveryTyped'
  BY <1>1, <1>4, <1>5, KnownMarker DEF DeployTyped, RecoveryTyped, RecoveryRecords, RecoverySteps,
     DeploymentAssumption
<1>11. DeployKnows' /\ RecoveryKnows'
  <2>1. marker' \in Markers /\ marker'.boundary /\ marker' # None
    BY <1>2, <1>4, KnownMarker, <1>1 DEF DeploymentAssumption
  <2> QED BY <1>1, <1>5, <2>1 DEF DeployKnows, RecoveryKnows, KnownPhase, Early, Crossed, Restoring
<1> QED BY <1>6, <1>7, <1>8, <1>9, <1>10, <1>11 DEF HostInv

\* The steps after a recovery, which the deployment takes on its own.
LEMMA AfterRecovery ==
  ASSUME DeploymentAssumption, HostInv, deploy # None,
         deploy.at \in {"recovered", "unrecovered", "trapped"}
  PROVE  /\ recovery = None /\ deploy.mem \in Markers /\ ~deploy.holds
         /\ deploy.mem.candidate = run.release
         /\ deploy.at = "recovered" => marker # None /\ marker.phase = "ROLLED_BACK"
BY DEF HostInv, DeployTyped, RecoveryTyped, DeployRecords, DeployKnows, FactAt

LEMMA MarkRolledBackSound ==
  ASSUME DeploymentAssumption, HostInv, MarkRolledBack PROVE HostInv'
<1>1. /\ deploy # None /\ deploy.at = "recovered"
      /\ UNCHANGED <<pointers, images, stored, artifact, serving, ledger, locked, recovery, run>>
  BY DEF MarkRolledBack
<1>2. PICK m2 \in {deploy.mem, Moved(deploy.mem, "ROLLED_BACK")}, ok \in BOOLEAN :
        /\ Transitioned(deploy.mem, "ROLLED_BACK", FALSE, m2, ok)
        /\ Remember(m2, IF ok THEN "rolledback" ELSE "unrecovered")
  BY Zenon DEF MarkRolledBack
<1>3. /\ Fault \/ spent' = spent
      /\ m2 \in Markers /\ m2.candidate = run.release /\ m2.previous = deploy.mem.previous
      /\ m2.boundary = deploy.mem.boundary
      /\ marker' = marker \/ (marker' = m2 /\ m2.phase = "ROLLED_BACK")
  <2>1. /\ Fault \/ spent' = spent
        /\ \/ m2 = Moved(deploy.mem, "ROLLED_BACK") /\ marker' = m2
           \/ m2 = deploy.mem /\ marker' = marker
    BY <1>2, Zenon DEF Transitioned
  <2>2. /\ Moved(deploy.mem, "ROLLED_BACK") \in Markers /\ Moved(deploy.mem, "ROLLED_BACK").phase = "ROLLED_BACK"
        /\ Moved(deploy.mem, "ROLLED_BACK").candidate = deploy.mem.candidate /\ Moved(deploy.mem, "ROLLED_BACK").previous = deploy.mem.previous
        /\ Moved(deploy.mem, "ROLLED_BACK").boundary = deploy.mem.boundary
    BY <1>1, AfterRecovery, Phased, MovedFields
  <2> QED BY <2>1, <2>2, <1>1, AfterRecovery
<1>4. /\ deploy' \in DeployRecords /\ deploy'.mem = m2 /\ ~deploy'.holds
      /\ deploy'.at \in {"rolledback", "unrecovered"}
  BY <1>1, <1>2, <1>3, AfterRecovery, Remembered DEF HostInv, DeploySteps
<1>5. FilesTyped' /\ (pointers.current \in stored)'
  BY <1>1, <1>3 DEF HostInv, FilesTyped
<1>6. Recoverable(deploy.mem)' /\ Recoverable(marker)'
  BY <1>1, <1>3, <1>4, AfterRecovery DEF HostInv, Recoverable, DeploymentAssumption
<1>7. TerminalIsLive'
  BY <1>1, <1>3, AfterRecovery DEF HostInv, TerminalIsLive
<1>8. DeployKnows'
  BY <1>1, <1>4 DEF DeployKnows, KnownPhase, Early, Crossed
<1> QED BY <1>1, <1>3, <1>4, <1>5, <1>6, <1>7, <1>8, DeployStepSound

LEMMA MarkRollbackFailureSound ==
  ASSUME DeploymentAssumption, HostInv, MarkRollbackFailure PROVE HostInv'
<1>1. /\ deploy # None /\ deploy.at = "unrecovered"
      /\ UNCHANGED <<pointers, images, stored, artifact, serving, ledger, locked, recovery, run>>
  BY DEF MarkRollbackFailure
<1> DEFINE m == [deploy.mem EXCEPT !.rollback = "failed"]
<1>2. /\ m \in Markers /\ m.candidate = run.release /\ m.previous = deploy.mem.previous
      /\ m.boundary = deploy.mem.boundary
  BY <1>1, AfterRecovery DEF Markers
<1>3. PICK m2 \in {m, Moved(m, "FAILED")}, ok \in BOOLEAN :
        Transitioned(m, "FAILED", FALSE, m2, ok) /\ Remember(m2, "failed")
  BY Zenon DEF MarkRollbackFailure
<1> HIDE DEF m
<1>4. /\ Fault \/ spent' = spent
      /\ m2 \in Markers /\ m2.candidate = run.release /\ m2.previous = deploy.mem.previous
      /\ m2.boundary = deploy.mem.boundary
      /\ marker' = marker \/ (marker' = m2 /\ m2.phase = "FAILED")
  <2>1. /\ Fault \/ spent' = spent
        /\ \/ m2 = Moved(m, "FAILED") /\ marker' = m2
           \/ m2 = m /\ marker' = marker
    BY <1>3, Zenon DEF Transitioned
  <2>2. /\ Moved(m, "FAILED") \in Markers /\ Moved(m, "FAILED").phase = "FAILED"
        /\ Moved(m, "FAILED").candidate = m.candidate /\ Moved(m, "FAILED").previous = m.previous
        /\ Moved(m, "FAILED").boundary = m.boundary
    BY <1>2, Phased, MovedFields
  <2> QED BY <2>1, <2>2, <1>2
<1>5. deploy' \in DeployRecords /\ deploy'.mem = m2 /\ ~deploy'.holds /\ deploy'.at = "failed"
  BY <1>1, <1>3, <1>4, AfterRecovery, Remembered DEF HostInv, DeploySteps
<1>6. FilesTyped' /\ (pointers.current \in stored)' /\ TerminalIsLive'
  BY <1>1, <1>4 DEF HostInv, FilesTyped, TerminalIsLive
<1>7. Recoverable(deploy.mem)' /\ Recoverable(marker)'
  BY <1>1, <1>4, <1>5, AfterRecovery DEF HostInv, Recoverable, DeploymentAssumption
<1>8. DeployKnows'
  BY <1>1, <1>5 DEF DeployKnows, KnownPhase, Early, Crossed
<1> QED BY <1>1, <1>4, <1>5, <1>6, <1>7, <1>8, DeployStepSound

LEMMA TrapSound ==
  ASSUME DeploymentAssumption, HostInv, Trap PROVE HostInv'
<1>1. /\ deploy # None /\ deploy.at = "trapped"
      /\ UNCHANGED <<pointers, images, stored, artifact, serving, ledger, locked, recovery, run>>
  BY DEF Trap
<1>2. PICK m2 : /\ Fault \/ spent' = spent
                /\ m2 \in Markers /\ m2.candidate = run.release
                /\ m2.previous = deploy.mem.previous /\ m2.boundary = deploy.mem.boundary
                /\ marker' = marker \/ (marker' = m2 /\ m2.phase = "FAILED")
                /\ Remember(m2, "trapfact") \/ (m2 = deploy.mem /\ Goto("ended"))
  <2>1. CASE Goto("ended") /\ UNCHANGED <<marker, spent>>
    BY <1>1, <2>1, AfterRecovery
  <2>2. CASE \E m2 : Failed(deploy.mem, m2) /\ Remember(m2, "trapfact")
    <3>1. "FAILED" \in Phases
      BY Phased
    <3>2. PICK m2 : Failed(deploy.mem, m2) /\ Remember(m2, "trapfact")
      BY <2>2
    <3>3. /\ Fault \/ spent' = spent
          /\ m2 \in Markers /\ m2.candidate = run.release
          /\ m2.previous = deploy.mem.previous /\ m2.boundary = deploy.mem.boundary
          /\ marker' = marker \/ (marker' = m2 /\ m2.phase = "FAILED")
      BY <1>1, <3>1, <3>2, AfterRecovery, FailedFields
    <3> QED BY <3>2, <3>3
  <2> QED BY <2>1, <2>2 DEF Trap
<1>3. /\ deploy' \in DeployRecords /\ deploy'.mem = m2 /\ ~deploy'.holds
      /\ deploy'.at \in {"trapfact", "ended"}
  BY <1>1, <1>2, AfterRecovery, Remembered, Went DEF HostInv, DeploySteps
<1>4. FilesTyped' /\ (pointers.current \in stored)' /\ TerminalIsLive'
  BY <1>1, <1>2 DEF HostInv, FilesTyped, TerminalIsLive
<1>5. Recoverable(deploy.mem)' /\ Recoverable(marker)'
  BY <1>1, <1>2, <1>3, AfterRecovery DEF HostInv, Recoverable, DeploymentAssumption
<1>6. DeployKnows'
  BY <1>1, <1>3 DEF DeployKnows, KnownPhase, Early, Crossed
<1> QED BY <1>1, <1>2, <1>3, <1>4, <1>5, <1>6, DeployStepSound

LEMMA EndDeploySound ==
  ASSUME DeploymentAssumption, HostInv, EndDeploy PROVE HostInv'
<1>1. /\ deploy # None /\ deploy.at # "recovering" /\ deploy' = None
      /\ UNCHANGED <<marker, pointers, images, stored, artifact, serving, ledger, locked,
                     recovery, spent>>
  BY DEF EndDeploy
<1>2. WorkflowTyped'
  BY <1>1 DEF EndDeploy, EndOfDeployment, HostInv, WorkflowTyped
<1>3. DeployTyped' /\ DeployKnows' /\ (deploy # None => Recoverable(deploy.mem))'
  BY <1>1 DEF DeployTyped, DeployKnows
<1>4. RecoveryTyped' /\ RecoveryKnows'
  BY <1>1 DEF HostInv, RecoveryTyped, RecoveryKnows
<1>5. FilesTyped' /\ (pointers.current \in stored)' /\ Recoverable(marker)' /\ TerminalIsLive'
  BY <1>1 DEF HostInv, FilesTyped, Recoverable, TerminalIsLive
<1> QED BY <1>2, <1>3, <1>4, <1>5 DEF HostInv

-----------------------------------------------------------------------------
(* The recovery *)

\* A step of a recovery keeps the invariant if the files and its own memory
\* are sound after it, and nothing the deployment waits with is lost: the
\* marker stays past its boundary and the way back stays stored.
LEMMA RecoveryStepSound ==
  ASSUME DeploymentAssumption, HostInv, recovery # None,
         UNCHANGED <<stored, artifact, deploy, run>>, Fault \/ spent' = spent,
         FilesTyped', (pointers.current \in stored)', recovery' \in RecoveryRecords,
         Recoverable(marker)', TerminalIsLive', RecoveryKnows',
         pointers'.previous = pointers.previous \/ pointers'.previous \in stored,
         marker # None /\ marker.boundary => marker' # None /\ marker'.boundary
  PROVE  HostInv'
<1>1. WorkflowTyped'
  BY SpentTyped DEF HostInv, WorkflowTyped
<1>2. DeployTyped' /\ RecoveryTyped'
  BY DEF HostInv, DeployTyped, RecoveryTyped
<1>3. (deploy # None => Recoverable(deploy.mem))'
  BY DEF HostInv, Recoverable
<1>4. DeployKnows'
  BY DEF HostInv, RecoveryTyped, DeployKnows, KnownPhase, Early, Crossed
<1> QED BY <1>1, <1>2, <1>3, <1>4 DEF HostInv

\* A recovery past its start remembers its marker, which is past the boundary.
LEMMA RecoveringMarker ==
  ASSUME DeploymentAssumption, HostInv, recovery # None,
         recovery.at \in {"begin"} \cup Restoring
  PROVE  /\ recovery.mem = marker /\ marker \in Markers /\ marker # None /\ marker.boundary
         /\ recovery.target \in stored /\ recovery.target \in Releases
         /\ recovery.at \in Restoring => marker.phase = "ROLLING_BACK"
BY DEF HostInv, FilesTyped, RecoveryKnows, DeploymentAssumption

\* A recovery that fails leaves the files alone.
LEMMA RecoveryFailsSound ==
  ASSUME DeploymentAssumption, HostInv, recovery # None,
         NEW step \in {"broken", "unready"}, RecoveryGoto(step),
         step = "unready" => recovery.at \in Restoring,
         UNCHANGED <<marker, pointers, images, serving, spent, stored, artifact, ledger,
                     locked, deploy, run>>
  PROVE  HostInv'
<1>1. /\ recovery' \in RecoveryRecords /\ recovery'.at = step /\ recovery'.mem = recovery.mem
      /\ recovery'.target = recovery.target
  BY RecoveryWent DEF HostInv, RecoverySteps
<1>2. FilesTyped' /\ (pointers.current \in stored)' /\ Recoverable(marker)' /\ TerminalIsLive'
  BY DEF HostInv, FilesTyped, Recoverable, TerminalIsLive
<1>3. RecoveryKnows'
  BY <1>1 DEF HostInv, RecoveryKnows, Restoring
<1> QED BY <1>1, <1>2, <1>3, RecoveryStepSound

LEMMA SelectSound ==
  ASSUME DeploymentAssumption, HostInv, RecoveryWork, Select PROVE HostInv'
<1>1. /\ recovery # None /\ UNCHANGED <<stored, artifact, ledger, locked, deploy, run>>
      /\ UNCHANGED <<marker, pointers, images, serving, spent>>
  BY DEF RecoveryWork, Select, RecoveryFails
<1>2. CASE RecoveryFails
  BY <1>1, <1>2, RecoveryFailsSound DEF RecoveryFails
<1>3. CASE ~RecoveryFails
  <2>1. /\ pointers.previous \in stored /\ marker # None
        /\ recovery' = [mem |-> marker, target |-> pointers.previous, at |->
                          IF marker.phase = "ROLLED_BACK" \/ ~marker.boundary
                          THEN "restored" ELSE "begin"]
    BY <1>3 DEF Select
  <2>2. recovery' \in RecoveryRecords
    BY <2>1 DEF HostInv, FilesTyped, RecoveryRecords, RecoverySteps
  <2>3. FilesTyped' /\ (pointers.current \in stored)' /\ Recoverable(marker)' /\ TerminalIsLive'
    BY <1>1 DEF HostInv, FilesTyped, Recoverable, TerminalIsLive
  <2>4. RecoveryKnows'
    BY <1>1, <2>1 DEF RecoveryKnows, Restoring
  <2> QED BY <1>1, <2>2, <2>3, <2>4, RecoveryStepSound
<1> QED BY <1>2, <1>3

\* A recovery whose write of the marker moved or did not move it.
LEMMA MarkedSound ==
  ASSUME DeploymentAssumption, HostInv, recovery # None,
         recovery.at \in {"begin"} \cup Restoring,
         UNCHANGED <<pointers, images, serving, stored, artifact, ledger, locked, deploy, run>>,
         Fault \/ spent' = spent,
         NEW m2 \in Markers, m2.boundary, m2.candidate = marker.candidate,
         m2.previous = marker.previous,
         NEW step, RecoveryRemembers(m2, step),
         \/ step = "broken" /\ marker' = marker
         \/ step = "broken" /\ marker' = m2 /\ m2.phase = "FAILED"
         \/ step = "restart" /\ marker' = m2 /\ m2.phase = "ROLLING_BACK"
         \/ /\ step = "restored" /\ marker' = m2 /\ m2.phase = "ROLLED_BACK"
            /\ recovery.at = "restored?"
  PROVE  HostInv'
<1>1. step \in RecoverySteps
  BY DEF RecoverySteps
<1>2. /\ recovery' \in RecoveryRecords /\ recovery'.at = step /\ recovery'.mem = m2
      /\ recovery'.target = recovery.target
  BY <1>1, RecoveryRemembered DEF HostInv
<1>3. /\ marker' \in Markers /\ marker'.boundary /\ marker' # None
      /\ marker'.candidate = marker.candidate /\ marker'.previous = marker.previous
  BY RecoveringMarker DEF DeploymentAssumption
<1>4. FilesTyped' /\ (pointers.current \in stored)'
  BY <1>3 DEF HostInv, FilesTyped
<1>5. Recoverable(marker)'
  BY <1>3, RecoveringMarker DEF HostInv, Recoverable
<1>6. TerminalIsLive'
  <2>1. CASE marker' = marker
    BY <2>1 DEF HostInv, TerminalIsLive
  <2>2. CASE recovery.at = "restored?" /\ marker'.phase = "ROLLED_BACK"
    <3>1. serving = recovery.target /\ {pointers.current, images.current} = {recovery.target}
      BY <2>2 DEF HostInv, RecoveryKnows
    <3> QED BY <2>2, <3>1 DEF TerminalIsLive
  <2>3. CASE marker'.phase \in {"FAILED", "ROLLING_BACK"}
    BY <2>3 DEF TerminalIsLive
  <2> QED BY <2>1, <2>2, <2>3
<1>7. RecoveryKnows'
  BY <1>2, <1>3, RecoveringMarker DEF RecoveryKnows, Restoring
<1> QED BY <1>2, <1>3, <1>4, <1>5, <1>6, <1>7, RecoveryStepSound

LEMMA BeginSound ==
  ASSUME DeploymentAssumption, HostInv, RecoveryWork, Begin PROVE HostInv'
<1>1. /\ recovery # None /\ recovery.at = "begin"
      /\ UNCHANGED <<pointers, images, serving, stored, artifact, ledger, locked, deploy, run>>
  BY DEF RecoveryWork, Begin
<1>2. CASE recovery.mem.phase = "ROLLING_BACK"
  <2>1. RecoveryGoto("restart") /\ UNCHANGED <<marker, spent>>
    BY <1>2 DEF Begin
  <2>2. /\ recovery' \in RecoveryRecords /\ recovery'.at = "restart"
        /\ recovery'.mem = recovery.mem /\ recovery'.target = recovery.target
    BY <1>1, <2>1, RecoveryWent DEF HostInv, RecoverySteps
  <2>3. FilesTyped' /\ (pointers.current \in stored)' /\ Recoverable(marker)' /\ TerminalIsLive'
    BY <1>1, <2>1 DEF HostInv, FilesTyped, Recoverable, TerminalIsLive
  <2>4. RecoveryKnows'
    BY <1>1, <1>2, <2>1, <2>2, RecoveringMarker DEF RecoveryKnows, Restoring
  <2> QED BY <1>1, <2>1, <2>2, <2>3, <2>4, RecoveryStepSound
<1>3. CASE recovery.mem.phase # "ROLLING_BACK"
  <2> DEFINE m == [recovery.mem EXCEPT !.rollback = "running"]
  <2>1. /\ m \in Markers /\ m.candidate = marker.candidate /\ m.previous = marker.previous
        /\ m.boundary
    BY <1>1, RecoveringMarker DEF Markers
  <2>2. PICK m2 \in {m, Moved(m, "ROLLING_BACK")}, ok \in BOOLEAN :
          /\ Transitioned(m, "ROLLING_BACK", TRUE, m2, ok)
          /\ RecoveryRemembers(m2, IF ok THEN "restart" ELSE "broken")
    BY <1>3, Zenon DEF Begin
  <2> HIDE DEF m
  <2>3. /\ Fault \/ spent' = spent
        /\ \/ ok /\ m2 = Moved(m, "ROLLING_BACK") /\ marker' = m2
           \/ ~ok /\ m2 = m /\ marker' = marker
    BY <2>2, Zenon DEF Transitioned
  <2>4. /\ Moved(m, "ROLLING_BACK") \in Markers
        /\ Moved(m, "ROLLING_BACK").phase = "ROLLING_BACK"
        /\ Moved(m, "ROLLING_BACK").candidate = m.candidate
        /\ Moved(m, "ROLLING_BACK").previous = m.previous
        /\ Moved(m, "ROLLING_BACK").boundary = m.boundary
    BY <2>1, Phased, MovedFields
  <2>5. /\ m2 \in Markers /\ m2.boundary /\ m2.candidate = marker.candidate
        /\ m2.previous = marker.previous
        /\ \/ RecoveryRemembers(m2, "broken") /\ marker' = marker
           \/ RecoveryRemembers(m2, "restart") /\ marker' = m2 /\ m2.phase = "ROLLING_BACK"
    BY <2>1, <2>2, <2>3, <2>4
  <2> QED BY <1>1, <2>3, <2>5, MarkedSound
<1> QED BY <1>2, <1>3

LEMMA MarkRestoredSound ==
  ASSUME DeploymentAssumption, HostInv, RecoveryWork, MarkRestored PROVE HostInv'
<1>1. /\ recovery # None /\ recovery.at = "restored?" /\ recovery.at \in Restoring
      /\ UNCHANGED <<pointers, images, serving, stored, artifact, ledger, locked, deploy, run>>
  BY DEF RecoveryWork, MarkRestored, Restoring
<1>2. PICK m2 \in {recovery.mem, Moved(recovery.mem, "ROLLED_BACK")}, ok \in BOOLEAN :
        /\ Transitioned(recovery.mem, "ROLLED_BACK", TRUE, m2, ok)
        /\ RecoveryRemembers(m2, IF ok THEN "restored" ELSE "broken")
  BY Zenon DEF MarkRestored
<1>3. recovery.mem = marker /\ marker \in Markers /\ marker.boundary
  BY <1>1, RecoveringMarker
<1>4. /\ Fault \/ spent' = spent
      /\ \/ ok /\ m2 = Moved(recovery.mem, "ROLLED_BACK") /\ marker' = m2
         \/ ~ok /\ m2 = recovery.mem /\ marker' = marker
  BY <1>2, Zenon DEF Transitioned
<1>5. /\ Moved(recovery.mem, "ROLLED_BACK") \in Markers
      /\ Moved(recovery.mem, "ROLLED_BACK").phase = "ROLLED_BACK"
      /\ Moved(recovery.mem, "ROLLED_BACK").candidate = marker.candidate
      /\ Moved(recovery.mem, "ROLLED_BACK").previous = marker.previous
      /\ Moved(recovery.mem, "ROLLED_BACK").boundary
  BY <1>3, Phased, MovedFields
<1>6. /\ m2 \in Markers /\ m2.boundary /\ m2.candidate = marker.candidate
      /\ m2.previous = marker.previous
      /\ \/ RecoveryRemembers(m2, "broken") /\ marker' = marker
         \/ RecoveryRemembers(m2, "restored") /\ marker' = m2 /\ m2.phase = "ROLLED_BACK"
  BY <1>2, <1>3, <1>4, <1>5
<1> QED BY <1>1, <1>4, <1>6, MarkedSound

LEMMA MarkUnreadySound ==
  ASSUME DeploymentAssumption, HostInv, RecoveryWork, MarkUnready PROVE HostInv'
<1>1. /\ recovery # None /\ recovery.at = "unready" /\ recovery.at \in Restoring
      /\ UNCHANGED <<pointers, images, serving, stored, artifact, ledger, locked, deploy, run>>
  BY DEF RecoveryWork, MarkUnready, Restoring
<1> DEFINE m == [recovery.mem EXCEPT !.rollback = "failed"]
<1>2. /\ m \in Markers /\ m.candidate = marker.candidate /\ m.previous = marker.previous
      /\ m.boundary
  BY <1>1, RecoveringMarker DEF Markers
<1>3. PICK m2 \in {m, Moved(m, "FAILED")}, ok \in BOOLEAN :
        Transitioned(m, "FAILED", TRUE, m2, ok) /\ RecoveryRemembers(m2, "broken")
  BY Zenon DEF MarkUnready
<1> HIDE DEF m
<1>4. /\ Fault \/ spent' = spent
      /\ \/ m2 = Moved(m, "FAILED") /\ marker' = m2
         \/ m2 = m /\ marker' = marker
  BY <1>3, Zenon DEF Transitioned
<1>5. /\ Moved(m, "FAILED") \in Markers /\ Moved(m, "FAILED").phase = "FAILED"
      /\ Moved(m, "FAILED").candidate = m.candidate
      /\ Moved(m, "FAILED").previous = m.previous
      /\ Moved(m, "FAILED").boundary = m.boundary
  BY <1>2, Phased, MovedFields
<1>6. /\ m2 \in Markers /\ m2.boundary /\ m2.candidate = marker.candidate
      /\ m2.previous = marker.previous
      /\ marker' = marker \/ (marker' = m2 /\ m2.phase = "FAILED")
  BY <1>2, <1>3, <1>4, <1>5
<1> QED BY <1>1, <1>3, <1>4, <1>6, MarkedSound

LEMMA RestartSound ==
  ASSUME DeploymentAssumption, HostInv, RecoveryWork, Restart PROVE HostInv'
<1>1. /\ recovery # None /\ recovery.at = "restart" /\ recovery.at \in Restoring
      /\ UNCHANGED <<stored, artifact, ledger, locked, deploy, run>>
      /\ UNCHANGED <<marker, pointers, images, spent>>
  BY DEF RecoveryWork, Restart, RecoveryFails, Restoring
<1>2. CASE RecoveryFails
  BY <1>1, <1>2, RecoveryFailsSound DEF RecoveryFails
<1>3. CASE ~RecoveryFails
  <2>1. /\ serving' = recovery.target
        /\ RecoveryGoto("demote") \/ RecoveryGoto("unready")
    BY <1>3 DEF Restart
  <2>2. /\ recovery' \in RecoveryRecords /\ recovery'.at \in {"demote", "unready"}
        /\ recovery'.mem = recovery.mem /\ recovery'.target = recovery.target
    BY <1>1, <2>1, RecoveryWent DEF HostInv, RecoverySteps
  <2>3. marker.phase = "ROLLING_BACK" /\ recovery.target \in Releases
    BY <1>1, RecoveringMarker
  <2>4. FilesTyped' /\ (pointers.current \in stored)' /\ Recoverable(marker)' /\ TerminalIsLive'
    BY <1>1, <2>1, <2>3 DEF HostInv, FilesTyped, Recoverable, TerminalIsLive
  <2>5. RecoveryKnows'
    BY <1>1, <2>1, <2>2, RecoveringMarker DEF RecoveryKnows, Restoring
  <2> QED BY <1>1, <2>2, <2>4, <2>5, RecoveryStepSound
<1> QED BY <1>2, <1>3

LEMMA DemoteSound ==
  ASSUME DeploymentAssumption, HostInv, RecoveryWork, Demote PROVE HostInv'
<1>1. /\ recovery # None /\ recovery.at = "demote" /\ recovery.at \in Restoring
      /\ UNCHANGED <<stored, artifact, ledger, locked, deploy, run>>
      /\ UNCHANGED <<marker, images, serving, spent>>
  BY DEF RecoveryWork, Demote, Restoring
<1>2. CASE RecoveryGoto("unready") /\ UNCHANGED pointers
  BY <1>1, <1>2, RecoveryFailsSound
<1>3. CASE /\ pointers' = [pointers EXCEPT !.previous = ActivatedPrevious(recovery.target)]
           /\ RecoveryGoto("promote")
  <2>1. /\ recovery' \in RecoveryRecords /\ recovery'.at = "promote"
        /\ recovery'.mem = recovery.mem /\ recovery'.target = recovery.target
    BY <1>1, <1>3, RecoveryWent DEF HostInv, RecoverySteps
  <2>2. /\ pointers' \in [current : Releases, previous : Releases \cup {None}]
        /\ pointers'.current = pointers.current
        /\ pointers'.previous = pointers.previous \/ pointers'.previous \in stored
    BY <1>3 DEF HostInv, FilesTyped, ActivatedPrevious
  <2>3. FilesTyped' /\ (pointers.current \in stored)'
    BY <1>1, <2>2 DEF HostInv, FilesTyped
  <2>4. Recoverable(marker)'
    BY <1>1, <2>2 DEF HostInv, Recoverable
  <2>5. TerminalIsLive'
    BY <1>1, RecoveringMarker DEF TerminalIsLive
  <2>6. RecoveryKnows'
    BY <1>1, <2>1, RecoveringMarker DEF HostInv, RecoveryKnows, Restoring
  <2> QED BY <1>1, <2>1, <2>2, <2>3, <2>4, <2>5, <2>6, RecoveryStepSound
<1> QED BY <1>2, <1>3 DEF Demote

LEMMA PromoteSound ==
  ASSUME DeploymentAssumption, HostInv, RecoveryWork, Promote PROVE HostInv'
<1>1. /\ recovery # None /\ recovery.at = "promote" /\ recovery.at \in Restoring
      /\ UNCHANGED <<stored, artifact, ledger, locked, deploy, run>>
      /\ UNCHANGED <<marker, images, serving, spent>>
  BY DEF RecoveryWork, Promote, Restoring
<1>2. CASE RecoveryGoto("unready") /\ UNCHANGED pointers
  BY <1>1, <1>2, RecoveryFailsSound
<1>3. CASE /\ pointers' = [pointers EXCEPT !.current = recovery.target]
           /\ RecoveryGoto("republish")
  <2>1. /\ recovery' \in RecoveryRecords /\ recovery'.at = "republish"
        /\ recovery'.mem = recovery.mem /\ recovery'.target = recovery.target
    BY <1>1, <1>3, RecoveryWent DEF HostInv, RecoverySteps
  <2>2. recovery.target \in Releases /\ recovery.target \in stored
    BY <1>1, RecoveringMarker
  <2>3. /\ pointers' \in [current : Releases, previous : Releases \cup {None}]
        /\ pointers'.current = recovery.target /\ pointers'.previous = pointers.previous
    BY <1>3, <2>2 DEF HostInv, FilesTyped
  <2>4. FilesTyped' /\ (pointers.current \in stored)'
    BY <1>1, <2>2, <2>3 DEF HostInv, FilesTyped
  <2>5. Recoverable(marker)'
    BY <1>1, <2>3 DEF HostInv, Recoverable
  <2>6. TerminalIsLive'
    BY <1>1, RecoveringMarker DEF TerminalIsLive
  <2>7. RecoveryKnows'
    BY <1>1, <2>1, <2>3, RecoveringMarker DEF HostInv, RecoveryKnows, Restoring
  <2> QED BY <1>1, <2>1, <2>3, <2>4, <2>5, <2>6, <2>7, RecoveryStepSound
<1> QED BY <1>2, <1>3 DEF Promote

LEMMA RepublishSound ==
  ASSUME DeploymentAssumption, HostInv, RecoveryWork, Republish PROVE HostInv'
<1>1. /\ recovery # None /\ recovery.at = "republish" /\ recovery.at \in Restoring
      /\ UNCHANGED <<stored, artifact, ledger, locked, deploy, run>>
      /\ UNCHANGED <<marker, pointers, serving, spent>>
  BY DEF RecoveryWork, Republish, Restoring
<1>2. CASE RecoveryGoto("unready") /\ UNCHANGED images
  BY <1>1, <1>2, RecoveryFailsSound
<1>3. CASE images' = [images EXCEPT !.current = recovery.target] /\ RecoveryGoto("restored?")
  <2>1. /\ recovery' \in RecoveryRecords /\ recovery'.at = "restored?"
        /\ recovery'.mem = recovery.mem /\ recovery'.target = recovery.target
    BY <1>1, <1>3, RecoveryWent DEF HostInv, RecoverySteps
  <2>2. recovery.target \in Releases /\ recovery.target \in stored
    BY <1>1, RecoveringMarker
  <2>3. /\ images' \in [current : Releases, pending : Releases \cup {None}]
        /\ images'.current = recovery.target
    BY <1>3, <2>2 DEF HostInv, FilesTyped
  <2>4. FilesTyped' /\ (pointers.current \in stored)'
    BY <1>1, <2>3 DEF HostInv, FilesTyped
  <2>5. Recoverable(marker)'
    BY <1>1 DEF HostInv, Recoverable
  <2>6. TerminalIsLive'
    BY <1>1, RecoveringMarker DEF TerminalIsLive
  <2>7. RecoveryKnows'
    BY <1>1, <2>1, <2>3, RecoveringMarker DEF HostInv, RecoveryKnows, Restoring
  <2> QED BY <1>1, <2>1, <2>4, <2>5, <2>6, <2>7, RecoveryStepSound
<1> QED BY <1>2, <1>3 DEF Republish

LEMMA RecoveryWorkSound ==
  ASSUME DeploymentAssumption, HostInv, RecoveryWork PROVE HostInv'
BY SelectSound, BeginSound, RestartSound, DemoteSound, PromoteSound, RepublishSound,
   MarkRestoredSound, MarkUnreadySound DEF RecoveryWork

LEMMA EndRecoverySound ==
  ASSUME DeploymentAssumption, HostInv, EndRecovery PROVE HostInv'
<1>1. /\ recovery # None /\ recovery.at \in {"restored", "broken"} /\ recovery' = None
      /\ UNCHANGED <<marker, pointers, images, stored, artifact, serving, ledger, locked, spent>>
  BY DEF EndRecovery
<1>2. FilesTyped' /\ (pointers.current \in stored)' /\ Recoverable(marker)' /\ TerminalIsLive'
  BY <1>1 DEF HostInv, FilesTyped, Recoverable, TerminalIsLive
<1>3. RecoveryTyped' /\ RecoveryKnows'
  BY <1>1 DEF RecoveryTyped, RecoveryKnows
<1>4. CASE deploy = None
  <2>1. deploy' = None /\ WorkflowTyped'
    BY <1>1, <1>4 DEF EndRecovery, HostInv, WorkflowTyped
  <2> QED BY <1>2, <1>3, <2>1 DEF HostInv, DeployTyped, DeployKnows
<1>5. CASE deploy # None
  <2>1. /\ deploy.at = "recovering" /\ deploy.mem # None /\ ~deploy.holds
        /\ marker # None /\ marker.boundary
    BY <1>1, <1>5 DEF HostInv, RecoveryTyped, DeployTyped, DeployKnows, FactAt, DeployRecords
  <2>2. /\ Goto("recovered") \/ Goto("unrecovered")
        /\ run' = run
        /\ recovery.at = "broken" => Goto("unrecovered")
        /\ recovery.at = "restored" => marker.phase = "ROLLED_BACK"
    BY <1>1, <1>5, <2>1 DEF EndRecovery, HostInv, RecoveryKnows
  <2>3. /\ deploy' \in DeployRecords /\ deploy'.mem = deploy.mem /\ ~deploy'.holds
        /\ \/ deploy'.at = "unrecovered"
           \/ deploy'.at = "recovered" /\ marker.phase = "ROLLED_BACK"
        /\ run' = run
    BY <1>1, <1>5, <2>1, <2>2, Went DEF EndRecovery, HostInv, DeploySteps
  <2>4. DeployTyped' /\ WorkflowTyped'
    BY <1>1, <1>5, <2>1, <2>3 DEF HostInv, DeployTyped, WorkflowTyped
  <2>5. (deploy # None => Recoverable(deploy.mem))' /\ DeployKnows'
    BY <1>1, <1>5, <2>1, <2>3 DEF HostInv, Recoverable, DeployKnows, KnownPhase, Early, Crossed
  <2> QED BY <1>2, <1>3, <2>4, <2>5 DEF HostInv
<1> QED BY <1>4, <1>5

-----------------------------------------------------------------------------
(* The workflow *)

LEMMA StartRunSound ==
  ASSUME DeploymentAssumption, HostInv, NEW release \in Releases, StartRun(release)
  PROVE  HostInv'
<1>1. /\ recovery = None
      /\ UNCHANGED <<marker, pointers, images, stored, artifact, serving, ledger, locked, recovery>>
      /\ deploy' = [at |-> "checkout", mem |-> None, replaced |-> None, holds |-> FALSE]
  BY DEF StartRun, Quiet
<1>2. WorkflowTyped' /\ run'.release \in Releases /\ run'.id \in Ids
  BY DEF StartRun, HostInv, WorkflowTyped, DeploymentAssumption, Ids
<1>3. DeployTyped'
  BY <1>1, <1>2 DEF DeployTyped, DeployRecords, DeploySteps
<1>4. DeployKnows' /\ (deploy # None => Recoverable(deploy.mem))'
  BY <1>1 DEF DeployKnows, Recoverable, KnownPhase, Early, Crossed
<1>5. RecoveryTyped' /\ RecoveryKnows'
  BY <1>1 DEF RecoveryTyped, RecoveryKnows
<1>6. FilesTyped' /\ (pointers.current \in stored)' /\ Recoverable(marker)' /\ TerminalIsLive'
  BY <1>1 DEF HostInv, FilesTyped, Recoverable, TerminalIsLive
<1> QED BY <1>2, <1>3, <1>4, <1>5, <1>6 DEF HostInv

LEMMA StartRollbackSound ==
  ASSUME DeploymentAssumption, HostInv, StartRollback PROVE HostInv'
<1>1. /\ deploy = None /\ recovery = None
      /\ UNCHANGED <<marker, pointers, images, stored, artifact, serving, ledger, locked, deploy, run>>
  BY DEF StartRollback, Quiet
<1>2. recovery' = None \/ recovery' = [at |-> "select", mem |-> None, target |-> None]
  BY <1>1 DEF StartRollback
<1>3. WorkflowTyped'
  BY <1>1 DEF StartRollback, HostInv, WorkflowTyped
<1>4. RecoveryTyped' /\ RecoveryKnows'
  BY <1>1, <1>2 DEF RecoveryTyped, RecoveryKnows, RecoveryRecords, RecoverySteps, Restoring
<1>5. DeployTyped' /\ DeployKnows' /\ (deploy # None => Recoverable(deploy.mem))'
  BY <1>1 DEF DeployTyped, DeployKnows
<1>6. FilesTyped' /\ (pointers.current \in stored)' /\ Recoverable(marker)' /\ TerminalIsLive'
  BY <1>1 DEF HostInv, FilesTyped, Recoverable, TerminalIsLive
<1> QED BY <1>3, <1>4, <1>5, <1>6 DEF HostInv

\* With no process left, only the files count.
LEMMA QuietSound ==
  ASSUME DeploymentAssumption, HostInv,
         UNCHANGED <<marker, pointers, images, stored, artifact, serving, ledger, locked>>,
         deploy' = None, recovery' = None, WorkflowTyped'
  PROVE  HostInv'
<1>1. FilesTyped' /\ (pointers.current \in stored)' /\ Recoverable(marker)' /\ TerminalIsLive'
  BY DEF HostInv, FilesTyped, Recoverable, TerminalIsLive
<1>2. /\ DeployTyped' /\ DeployKnows' /\ (deploy # None => Recoverable(deploy.mem))'
      /\ RecoveryTyped' /\ RecoveryKnows'
  BY DEF DeployTyped, DeployKnows, RecoveryTyped, RecoveryKnows
<1> QED BY <1>1, <1>2 DEF HostInv

LEMMA NextSound ==
  ASSUME DeploymentAssumption, HostInv, [DeploymentNext]_deployVars PROVE HostInv'
<1>1. CASE \E release \in Releases : StartRun(release)
  BY <1>1, StartRunSound
<1>2. CASE NoticeKilledDeployment
  <2>1. WorkflowTyped'
    BY <1>2 DEF NoticeKilledDeployment, EndOfDeployment, HostInv, WorkflowTyped
  <2> QED BY <1>2, <2>1, QuietSound DEF NoticeKilledDeployment, Quiet
<1>3. CASE StartRollback
  BY <1>3, StartRollbackSound
<1>4. CASE GiveUp
  <2>1. WorkflowTyped'
    BY <1>4 DEF GiveUp, HostInv, WorkflowTyped
  <2> QED BY <1>4, <2>1, QuietSound DEF GiveUp, Quiet
<1>5. CASE HostStep
  BY <1>5, DeployWorkSound, TakeLedgerSound, WriteLedgerSound, MarkFailureSound,
     BeginRollbackSound, MarkRolledBackSound, MarkRollbackFailureSound, TrapSound,
     EndDeploySound, RecoveryWorkSound, EndRecoverySound DEF HostStep
<1>6. CASE Crash
  <2>1. WorkflowTyped'
    BY <1>6 DEF Crash, HostInv, WorkflowTyped
  <2> QED BY <1>6, <2>1, QuietSound DEF Crash
<1>7. CASE UNCHANGED deployVars
  <2>1. /\ FilesTyped' /\ WorkflowTyped' /\ DeployTyped' /\ RecoveryTyped'
        /\ (pointers.current \in stored)' /\ Recoverable(marker)'
    BY <1>7 DEF HostInv, deployVars, FilesTyped, WorkflowTyped, DeployTyped, RecoveryTyped, Recoverable
  <2>2. /\ (deploy # None => Recoverable(deploy.mem))'
        /\ DeployKnows' /\ RecoveryKnows' /\ TerminalIsLive'
    BY <1>7 DEF HostInv, deployVars, Recoverable, DeployKnows, RecoveryKnows, TerminalIsLive
  <2> QED BY <2>1, <2>2 DEF HostInv
<1> QED BY <1>1, <1>2, <1>3, <1>4, <1>5, <1>6, <1>7 DEF DeploymentNext

\* What is live only changes in a step of a transaction past its boundary.
LEMMA LiveChanges ==
  ASSUME DeploymentAssumption, HostInv, [DeploymentNext]_deployVars
  PROVE  \/ UNCHANGED <<serving, pointers.current, images.current>>
         \/ /\ marker # None /\ marker.boundary
            /\ marker.phase \notin {"PREPARED", "COMMITTED", "ROLLED_BACK"}
<1>1. CASE DeployWork
  <2>1. CASE MigrateAndStop \/ StartCandidate \/ ActivatePointer \/ PublishPending
    <3>1. /\ deploy # None /\ deploy.at \in DOMAIN KnownPhase
          /\ deploy.at \in {"migrate", "start", "pointer", "pointing", "publish"}
      BY <1>1, <2>1 DEF DeployWork, MigrateAndStop, StartCandidate, ActivatePointer,
         PublishPending, KnownPhase
    <3>2. marker # None /\ marker.phase \in {"SWITCHING", "VERIFIED"}
      BY <3>1, KnownMarker DEF KnownPhase
    <3>3. marker.boundary
      BY <3>1 DEF HostInv, DeployKnows, Crossed
    <3> QED BY <3>2, <3>3
  <2>2. CASE Checkout
    BY <2>2 DEF Checkout, FailTo
  <2>3. CASE CapturePrevious
    BY <2>3 DEF CapturePrevious, FailTo, HostInv, FilesTyped
  <2>4. CASE Identify \/ PrepareArtifact
    BY <2>4 DEF Identify, PrepareArtifact, FailTo
  <2>5. CASE Prepare
    BY <2>5 DEF Prepare, FailTo, HostInv, FilesTyped
  <2>6. CASE CrossBoundary \/ RecordActivated \/ RecordVerified \/ Commit
    BY <2>6 DEF CrossBoundary, RecordActivated, RecordVerified, Commit, Step
  <2>7. CASE Probe
    BY <2>7 DEF Probe, FailTo
  <2> QED BY <1>1, <2>1, <2>2, <2>3, <2>4, <2>5, <2>6, <2>7 DEF DeployWork
<1>2. CASE RecoveryWork
  <2>1. CASE Restart \/ Promote \/ Republish
    <3>1. recovery # None /\ recovery.at \in Restoring
      BY <1>2, <2>1 DEF RecoveryWork, Restart, Promote, Republish, Restoring
    <3> QED BY <3>1, RecoveringMarker
  <2>2. CASE Select \/ Begin \/ MarkRestored \/ MarkUnready
    BY <2>2 DEF Select, Begin, MarkRestored, MarkUnready, RecoveryFails
  <2>3. CASE Demote
    BY <2>3 DEF Demote, HostInv, FilesTyped
  <2> QED BY <1>2, <2>1, <2>2, <2>3 DEF RecoveryWork
<1>3. CASE HostStep /\ ~DeployWork /\ ~RecoveryWork
  BY <1>3 DEF HostStep, TakeLedger, WriteLedger, MarkFailure, BeginRollback, MarkRolledBack,
     MarkRollbackFailure, Trap, EndDeploy, EndRecovery
<1>4. CASE (\E release \in Releases : StartRun(release)) \/ NoticeKilledDeployment
           \/ StartRollback \/ GiveUp \/ Crash
  BY <1>4 DEF StartRun, NoticeKilledDeployment, StartRollback, GiveUp, Crash
<1>5. CASE UNCHANGED deployVars
  BY <1>5 DEF deployVars
<1> QED BY <1>1, <1>2, <1>3, <1>4, <1>5 DEF DeploymentNext, HostStep

-----------------------------------------------------------------------------
(* The ledger *)

LEMMA RunsOfFault ==
  ASSUME HostInv, Fault \/ spent' = spent
  PROVE  spent'.runs = spent.runs
BY DEF Fault, HostInv, WorkflowTyped

LEMMA TransitionedCases ==
  ASSUME NEW m, NEW phase, NEW explicit, NEW m2, NEW ok, Transitioned(m, phase, explicit, m2, ok)
  PROVE  /\ Fault \/ spent' = spent
         /\ \/ ok /\ m2 = Moved(m, phase) /\ marker' = m2
            \/ ~ok /\ m2 = m /\ marker' = marker
BY Zenon DEF Transitioned

\* A deployment that has recorded nothing yet may write its marker.
LEMMA UnrecordedSound ==
  ASSUME DeploymentAssumption, HostInv, LedgerInv, deploy # None,
         deploy.at \notin Recorded \cup {"record"},
         UNCHANGED <<ledger, run>>, spent'.runs = spent.runs,
         marker' = marker \/ (marker' = deploy'.mem /\ marker' # None),
         deploy'.mem # None => deploy'.mem.id = run.id,
         deploy'.at \in {"record", "rolledback"} => deploy'.mem = marker',
         deploy'.at = "record" => marker'.phase = "COMMITTED",
         deploy'.at = "rolledback" => marker'.phase = "ROLLED_BACK",
         marker' # marker /\ marker'.phase = "COMMITTED" => deploy'.at = "record"
  PROVE  LedgerInv'
<1>1. ledger[run.id] = <<>> /\ run.id \in Ids /\ run.id \in Nat
  BY DEF LedgerInv, LedgerKnows, HostInv, DeployTyped, WorkflowTyped
<1>2. RunsCounted'
  BY <1>1 DEF LedgerInv, RunsCounted
<1>3. LedgerKnows'
  <2>1. marker' = marker /\ marker # None /\ marker.id = run.id => marker.phase # "COMMITTED"
    BY DEF LedgerInv, LedgerKnows, Recorded
  <2> QED BY <1>1, <2>1 DEF LedgerKnows
<1>4. LedgerFollowsMarker'
  <2>1. CASE marker' = marker
    BY <2>1 DEF LedgerInv, LedgerFollowsMarker
  <2>2. CASE marker' # marker
    <3>1. marker'.id = run.id
      BY <2>2
    <3> QED BY <1>1, <3>1 DEF LedgerFollowsMarker
  <2> QED BY <2>1, <2>2
<1> QED BY <1>2, <1>3, <1>4 DEF LedgerInv

\* A deployment that goes on leaving its marker and its memory alone.
LEMMA UnmarkedSound ==
  ASSUME DeploymentAssumption, HostInv, LedgerInv, deploy # None,
         deploy.at \notin Recorded \cup {"record"},
         UNCHANGED <<ledger, run, marker>>, spent'.runs = spent.runs,
         deploy'.mem = deploy.mem, deploy'.at \notin {"record", "rolledback"}
  PROVE  LedgerInv'
<1>1. deploy.mem # None => deploy.mem.id = run.id
  BY DEF LedgerInv, RunsCounted
<1> QED BY <1>1, UnrecordedSound

LEMMA StepRecorded ==
  ASSUME DeploymentAssumption, HostInv, LedgerInv, deploy # None,
         UNCHANGED <<ledger, run>>,
         NEW from, NEW phase, NEW to, Step(from, phase, to),
         \/ from = "boundary" /\ phase = "SWITCHING" /\ to = "migrate"
         \/ from = "activated" /\ phase = "ACTIVATED_UNVERIFIED" /\ to = "probe"
         \/ from = "verified" /\ phase = "VERIFIED" /\ to = "pointer"
         \/ from = "commit" /\ phase = "COMMITTED" /\ to = "record"
  PROVE  LedgerInv'
<1>1. deploy.at = from
  BY StepCases
<1>2. /\ from \in DOMAIN KnownPhase /\ to \in DeploySteps /\ phase \in Phases
      /\ from \notin Recorded \cup {"record"}
  BY Phased DEF KnownPhase, DeploySteps, Recorded
<1> DEFINE m == Moved(marker, phase)
<1>3. m \in Markers /\ m.id = marker.id /\ m.phase = phase
  BY <1>1, <1>2, KnownMarker, MovedFields
<1>4. \/ Remember(m, to) /\ marker' = m /\ spent' = spent
      \/ Remember(marker, "failing") /\ marker' = marker /\ (Fault \/ spent' = spent)
  BY <1>1, <1>2, KnownMarker, StepCases
<1>5. marker.id = run.id /\ marker \in Markers /\ marker # None
  BY <1>1, <1>2, KnownMarker DEF LedgerInv, RunsCounted
<1> HIDE DEF m
<1>6. /\ spent'.runs = spent.runs /\ deploy'.mem.id = run.id
      /\ \/ deploy'.at = to /\ deploy'.mem = m /\ marker' = m
         \/ deploy'.at = "failing" /\ deploy'.mem = marker /\ marker' = marker
  BY <1>2, <1>3, <1>4, <1>5, Remembered, RunsOfFault DEF DeploySteps, HostInv
<1>7. None \notin Markers
  BY DEF DeploymentAssumption
<1> QED BY <1>1, <1>2, <1>3, <1>5, <1>6, <1>7, UnrecordedSound

LEMMA WorkRecorded ==
  ASSUME DeploymentAssumption, HostInv, LedgerInv, DeployWork PROVE LedgerInv'
<1>1. deploy # None /\ UNCHANGED <<ledger, locked, recovery, run>> /\ DeployTyped
  BY DEF DeployWork, HostInv
<1>2. ASSUME NEW step \in {"ended", "trapped", "failing", "verified"}, FailTo(step),
             deploy.at \notin Recorded \cup {"record"}
      PROVE  LedgerInv'
  <2>1. /\ deploy'.at = step /\ deploy'.mem = deploy.mem
        /\ UNCHANGED <<marker, spent>> /\ step \in DeploySteps
    BY <1>1, <1>2, Went DEF FailTo, DeploySteps
  <2> QED BY <1>1, <1>2, <2>1, UnmarkedSound
<1>3. CASE Checkout
  <2>1. deploy.at = "checkout" /\ deploy.at \notin Recorded \cup {"record"} /\ run.id \in Ids
        /\ run.release \in Releases
    BY <1>1, <1>3 DEF Checkout, Recorded, DeployTyped
  <2> DEFINE m == FreshMarker(run.id, run.release)
  <2>2. m \in Markers /\ m.id = run.id /\ m.phase = "PREPARED"
    BY <2>1, Phased DEF FreshMarker, Markers
  <2> HIDE DEF m
  <2>3. CASE ~FailTo("ended")
    <3>1. \/ Remember(m, "capture") /\ marker' = m /\ spent' = spent
          \/ Remember(m, "trapped") /\ marker' = marker /\ Fault
      BY <1>3, <2>3 DEF Checkout, m
    <3>2. /\ deploy'.mem = m /\ deploy'.at \in {"capture", "trapped"}
          /\ marker' \in {m, marker} /\ spent'.runs = spent.runs
      BY <1>1, <2>2, <3>1, Remembered, RunsOfFault DEF DeploySteps
    <3> QED BY <1>1, <2>1, <2>2, <3>2, UnrecordedSound DEF DeploymentAssumption
  <2> QED BY <1>2, <2>1, <2>3
<1>4. CASE CapturePrevious
  <2>1. deploy.at = "capture" /\ deploy.at \notin Recorded \cup {"record"}
    BY <1>4 DEF CapturePrevious, Recorded
  <2>2. CASE ~FailTo("trapped")
    <3>1. /\ deploy' = [deploy EXCEPT !.at = "identify", !.replaced = images.current]
          /\ UNCHANGED <<marker, spent>>
      BY <1>4, <2>2 DEF CapturePrevious
    <3>2. deploy'.mem = deploy.mem /\ deploy'.at = "identify"
      BY <1>1, <3>1 DEF DeployTyped, DeployRecords
    <3> QED BY <1>1, <2>1, <3>1, <3>2, UnmarkedSound
  <2> QED BY <1>2, <2>1, <2>2
<1>5. CASE Identify
  <2>1. deploy.at = "identify" /\ deploy.at \notin Recorded \cup {"record"} /\ deploy.at \in DOMAIN KnownPhase
    BY <1>5 DEF Identify, Recorded, KnownPhase
  <2> DEFINE m == [deploy.mem EXCEPT !.previous = pointers.previous, !.current = pointers.current]
             to == IF pointers.previous \in stored THEN "artifact" ELSE "trapped"
  <2>2. m \in Markers /\ m.id = run.id /\ m.phase = "PREPARED"
    <3>1. marker.phase = "PREPARED" /\ marker.id = run.id
      BY <2>1, <1>1, KnownMarker DEF KnownPhase, LedgerInv, RunsCounted
    <3>2. pointers.previous \in Releases \cup {None} /\ pointers.current \in Releases
      BY DEF HostInv, FilesTyped
    <3> QED BY <1>1, <2>1, <3>1, <3>2, KnownMarker DEF Markers
  <2>3. \/ Remember(m, to) /\ marker' = m /\ spent' = spent
        \/ Remember(m, "trapped") /\ marker' = marker /\ Fault
    BY <1>5 DEF Identify
  <2> HIDE DEF m
  <2>4. /\ deploy'.mem = m /\ deploy'.at \in {"artifact", "trapped"}
        /\ marker' \in {m, marker} /\ spent'.runs = spent.runs
    BY <1>1, <2>2, <2>3, Remembered, RunsOfFault DEF DeploySteps
  <2> QED BY <1>1, <2>1, <2>2, <2>4, UnrecordedSound DEF DeploymentAssumption
<1>6. CASE PrepareArtifact
  <2>1. deploy.at = "artifact" /\ deploy.at \notin Recorded \cup {"record"} /\ deploy.at \in DOMAIN KnownPhase
    BY <1>6 DEF PrepareArtifact, Recorded, KnownPhase
  <2>2. CASE ~FailTo("trapped")
    <3>1. /\ marker' = marker
          /\ \/ Goto("prepare") /\ spent' = spent
             \/ Goto("trapped") /\ Fault
      BY <1>1, <1>6, <2>1, <2>2, KnownMarker DEF PrepareArtifact
    <3>2. /\ deploy'.mem = deploy.mem /\ deploy'.at \in {"prepare", "trapped"}
          /\ spent'.runs = spent.runs
      BY <1>1, <3>1, Went, RunsOfFault DEF DeploySteps
    <3> QED BY <1>1, <2>1, <3>1, <3>2, UnmarkedSound
  <2> QED BY <1>2, <2>1, <2>2
<1>7. CASE Prepare \/ MigrateAndStop \/ StartCandidate \/ Probe \/ ActivatePointer \/ PublishPending
  <2>1. deploy.at \notin Recorded \cup {"record"}
    BY <1>7 DEF Prepare, MigrateAndStop, StartCandidate, Probe, ActivatePointer,
       PublishPending, Recorded
  <2>2. /\ UNCHANGED <<marker, spent>>
        /\ \E step \in {"boundary", "failing", "start", "activated", "verified", "pointing",
                         "publish", "commit"} : Goto(step)
    BY <1>7 DEF Prepare, MigrateAndStop, StartCandidate, Probe, ActivatePointer, PublishPending, FailTo
  <2>3. deploy'.mem = deploy.mem /\ deploy'.at \notin {"record", "rolledback"}
    BY <1>1, <2>2, Went DEF DeploySteps
  <2> QED BY <1>1, <2>1, <2>2, <2>3, UnmarkedSound
<1>8. CASE CrossBoundary \/ RecordActivated \/ RecordVerified \/ Commit
  BY <1>1, <1>8, StepRecorded DEF CrossBoundary, RecordActivated, RecordVerified, Commit
<1> QED BY <1>3, <1>4, <1>5, <1>6, <1>7, <1>8 DEF DeployWork

LEMMA FailureRecorded ==
  ASSUME DeploymentAssumption, HostInv, LedgerInv,
         MarkFailure \/ BeginRollback \/ MarkRolledBack \/ MarkRollbackFailure
  PROVE  LedgerInv'
<1>1. /\ deploy # None /\ UNCHANGED <<ledger, run>> /\ DeployTyped
      /\ deploy.at \notin Recorded \cup {"record"}
      /\ deploy.mem \in Markers /\ deploy.mem # None /\ deploy.mem.id = run.id
      /\ {"FAILED", "ROLLING_BACK", "ROLLED_BACK"} \subseteq Phases
  BY Phased DEF MarkFailure, BeginRollback, MarkRolledBack, MarkRollbackFailure, Recorded, HostInv,
     DeployTyped, DeployRecords, LedgerInv, RunsCounted
<1>2. None \notin Markers
  BY DEF DeploymentAssumption
<1>3. CASE MarkFailure
  <2>1. PICK m2 : /\ Failed(deploy.mem, m2)
                  /\ Remember(m2, IF m2.boundary THEN "beginning" ELSE "failed")
    BY <1>3 DEF MarkFailure
  <2>2. /\ m2 \in Markers /\ m2.id = run.id /\ spent'.runs = spent.runs
        /\ marker' = marker \/ (marker' = m2 /\ m2.phase = "FAILED")
    <3>1. Moved(deploy.mem, "FAILED") \in Markers /\ Moved(deploy.mem, "FAILED").id = deploy.mem.id
          /\ Moved(deploy.mem, "FAILED").phase = "FAILED"
      BY <1>1, MovedFields
    <3>2. /\ Fault \/ spent' = spent
          /\ \/ m2 = Moved(deploy.mem, "FAILED") /\ marker' = m2
             \/ m2 = deploy.mem /\ marker' = marker
             \/ m2 = deploy.mem /\ deploy.mem.phase = "FAILED" /\ marker' = deploy.mem
      BY <2>1, FailedCases
    <3> QED BY <1>1, <3>1, <3>2, RunsOfFault
  <2>3. deploy'.mem = m2 /\ deploy'.at \in {"beginning", "failed"}
    BY <1>1, <2>1, <2>2, Remembered DEF DeploySteps
  <2> QED BY <1>1, <1>2, <2>2, <2>3, UnrecordedSound
<1>4. CASE BeginRollback
  <2> DEFINE m == [deploy.mem EXCEPT !.rollback = "running"]
  <2>1. m \in Markers /\ m.id = run.id
    BY <1>1 DEF Markers
  <2>2. PICK m2 \in {m, Moved(m, "ROLLING_BACK")}, ok \in BOOLEAN :
          Transitioned(m, "ROLLING_BACK", FALSE, m2, ok) /\ Remember(m2, "recovering")
    BY <1>4, Zenon DEF BeginRollback
  <2> HIDE DEF m
  <2>3. /\ m2 \in Markers /\ m2.id = run.id /\ spent'.runs = spent.runs
        /\ marker' = marker \/ (marker' = m2 /\ m2.phase = "ROLLING_BACK")
    <3>1. /\ Fault \/ spent' = spent
          /\ \/ m2 = Moved(m, "ROLLING_BACK") /\ marker' = m2
             \/ m2 = m /\ marker' = marker
      BY <2>2, TransitionedCases, Zenon
    <3>2. Moved(m, "ROLLING_BACK") \in Markers /\ Moved(m, "ROLLING_BACK").id = run.id /\ Moved(m, "ROLLING_BACK").phase = "ROLLING_BACK"
      BY <1>1, <2>1, MovedFields
    <3> QED BY <1>1, <2>1, <3>1, <3>2, RunsOfFault
  <2>4. deploy'.mem = m2 /\ deploy'.at = "recovering"
    BY <1>1, <2>2, <2>3, Remembered DEF DeploySteps
  <2> QED BY <1>1, <1>2, <2>3, <2>4, UnrecordedSound
<1>5. CASE MarkRolledBack
  <2>1. PICK m2 \in {deploy.mem, Moved(deploy.mem, "ROLLED_BACK")}, ok \in BOOLEAN :
          /\ Transitioned(deploy.mem, "ROLLED_BACK", FALSE, m2, ok)
          /\ Remember(m2, IF ok THEN "rolledback" ELSE "unrecovered")
    BY <1>5, Zenon DEF MarkRolledBack
  <2>2. /\ m2 \in Markers /\ m2.id = run.id /\ spent'.runs = spent.runs
        /\ \/ ok /\ marker' = m2 /\ m2.phase = "ROLLED_BACK"
           \/ ~ok /\ marker' = marker
    <3>1. /\ Fault \/ spent' = spent
          /\ \/ ok /\ m2 = Moved(deploy.mem, "ROLLED_BACK") /\ marker' = m2
             \/ ~ok /\ m2 = deploy.mem /\ marker' = marker
      BY <2>1, TransitionedCases, Zenon
    <3>2. Moved(deploy.mem, "ROLLED_BACK") \in Markers /\ Moved(deploy.mem, "ROLLED_BACK").id = run.id /\ Moved(deploy.mem, "ROLLED_BACK").phase = "ROLLED_BACK"
      BY <1>1, MovedFields
    <3> QED BY <1>1, <3>1, <3>2, RunsOfFault
  <2>3. deploy'.mem = m2 /\ deploy'.at = IF ok THEN "rolledback" ELSE "unrecovered"
    BY <1>1, <2>1, <2>2, Remembered DEF DeploySteps
  <2> QED BY <1>1, <1>2, <2>2, <2>3, UnrecordedSound
<1>6. CASE MarkRollbackFailure
  <2> DEFINE m == [deploy.mem EXCEPT !.rollback = "failed"]
  <2>1. m \in Markers /\ m.id = run.id
    BY <1>1 DEF Markers
  <2>2. PICK m2 \in {m, Moved(m, "FAILED")}, ok \in BOOLEAN :
          Transitioned(m, "FAILED", FALSE, m2, ok) /\ Remember(m2, "failed")
    BY <1>6, Zenon DEF MarkRollbackFailure
  <2> HIDE DEF m
  <2>3. /\ m2 \in Markers /\ m2.id = run.id /\ spent'.runs = spent.runs
        /\ marker' = marker \/ (marker' = m2 /\ m2.phase = "FAILED")
    <3>1. /\ Fault \/ spent' = spent
          /\ \/ m2 = Moved(m, "FAILED") /\ marker' = m2
             \/ m2 = m /\ marker' = marker
      BY <2>2, TransitionedCases, Zenon
    <3>2. Moved(m, "FAILED") \in Markers /\ Moved(m, "FAILED").id = run.id /\ Moved(m, "FAILED").phase = "FAILED"
      BY <1>1, <2>1, MovedFields
    <3> QED BY <1>1, <2>1, <3>1, <3>2, RunsOfFault
  <2>4. deploy'.mem = m2 /\ deploy'.at = "failed"
    BY <1>1, <2>2, <2>3, Remembered DEF DeploySteps
  <2> QED BY <1>1, <1>2, <2>3, <2>4, UnrecordedSound
<1> QED BY <1>3, <1>4, <1>5, <1>6

\* A recovery moves its marker away from COMMITTED, and never from ROLLED_BACK.
LEMMA RecoveryWrites ==
  ASSUME DeploymentAssumption, HostInv, RecoveryWork
  PROVE  /\ Fault \/ spent' = spent
         /\ UNCHANGED <<ledger, deploy, run>>
         /\ \/ marker' = marker
            \/ /\ marker # None /\ marker.phase # "ROLLED_BACK"
               /\ marker' # None /\ marker'.id = marker.id
               /\ marker'.phase \in {"ROLLING_BACK", "ROLLED_BACK", "FAILED"}
<1>1. recovery # None /\ UNCHANGED <<ledger, deploy, run>>
  BY DEF RecoveryWork
<1>2. {"FAILED", "ROLLING_BACK", "ROLLED_BACK"} \subseteq Phases /\ None \notin Markers
  BY Phased DEF DeploymentAssumption
<1>3. CASE Select \/ Restart \/ Demote \/ Promote \/ Republish
  <2>1. UNCHANGED <<marker, spent>>
    BY <1>3 DEF Select, Restart, Demote, Promote, Republish, RecoveryFails
  <2> QED BY <1>1, <2>1
<1>4. CASE Begin
  <2>1. CASE recovery.mem.phase = "ROLLING_BACK"
    BY <1>1, <1>4, <2>1 DEF Begin
  <2>2. CASE recovery.mem.phase # "ROLLING_BACK"
    <3> DEFINE m == [recovery.mem EXCEPT !.rollback = "running"]
    <3>1. PICK m2 \in {m, Moved(m, "ROLLING_BACK")}, ok \in BOOLEAN :
            Transitioned(m, "ROLLING_BACK", TRUE, m2, ok)
      BY <1>4, <2>2, Zenon DEF Begin
    <3>2. m \in Markers /\ m.id = marker.id /\ m.phase = marker.phase /\ marker # None
      BY <1>1, <1>4, RecoveringMarker DEF Begin, Markers
    <3> HIDE DEF m
    <3>3. /\ Fault \/ spent' = spent
          /\ \/ CanMove(m, "ROLLING_BACK", TRUE) /\ marker' = Moved(m, "ROLLING_BACK")
             \/ marker' = marker
      BY <3>1, Zenon DEF Transitioned
    <3>4. /\ Moved(m, "ROLLING_BACK") \in Markers /\ Moved(m, "ROLLING_BACK").id = marker.id
          /\ Moved(m, "ROLLING_BACK").phase = "ROLLING_BACK"
      BY <1>2, <3>2, MovedFields
    <3>5. CanMove(m, "ROLLING_BACK", TRUE) => m.phase # "ROLLED_BACK"
      BY Phased DEF CanMove, IsAllowed, Contract!ALLOWED_TRANSITIONS
    <3> QED BY <1>1, <1>2, <3>2, <3>3, <3>4, <3>5
  <2> QED BY <2>1, <2>2
<1>5. CASE MarkRestored
  <2>1. recovery.mem = marker /\ marker \in Markers /\ marker # None /\ marker.phase = "ROLLING_BACK"
    BY <1>1, <1>5, RecoveringMarker DEF MarkRestored, Restoring
  <2>2. PICK m2, ok : Transitioned(recovery.mem, "ROLLED_BACK", TRUE, m2, ok)
    BY <1>5, Zenon DEF MarkRestored
  <2>3. /\ Fault \/ spent' = spent
        /\ marker' = Moved(marker, "ROLLED_BACK") \/ marker' = marker
    BY <2>1, <2>2, TransitionedCases
  <2>4. /\ Moved(marker, "ROLLED_BACK") \in Markers
        /\ Moved(marker, "ROLLED_BACK").id = marker.id
        /\ Moved(marker, "ROLLED_BACK").phase = "ROLLED_BACK"
    BY <1>2, <2>1, MovedFields
  <2> QED BY <1>1, <1>2, <2>1, <2>3, <2>4
<1>6. CASE MarkUnready
  <2> DEFINE m == [recovery.mem EXCEPT !.rollback = "failed"]
  <2>1. /\ m \in Markers /\ m.id = marker.id
        /\ marker # None /\ marker.phase = "ROLLING_BACK"
    BY <1>1, <1>6, RecoveringMarker DEF MarkUnready, Restoring, Markers
  <2>2. PICK m2 \in {m, Moved(m, "FAILED")}, ok \in BOOLEAN :
          Transitioned(m, "FAILED", TRUE, m2, ok)
    BY <1>6, Zenon DEF MarkUnready
  <2> HIDE DEF m
  <2>3. /\ Fault \/ spent' = spent
        /\ marker' = Moved(m, "FAILED") \/ marker' = marker
    BY <2>2, TransitionedCases, Zenon
  <2>4. /\ Moved(m, "FAILED") \in Markers /\ Moved(m, "FAILED").id = marker.id
        /\ Moved(m, "FAILED").phase = "FAILED"
    BY <1>2, <2>1, MovedFields
  <2> QED BY <1>1, <1>2, <2>1, <2>3, <2>4
<1> QED BY <1>3, <1>4, <1>5, <1>6 DEF RecoveryWork

LEMMA RecoveryRecorded ==
  ASSUME DeploymentAssumption, HostInv, LedgerInv, RecoveryWork PROVE LedgerInv'
<1>1. /\ UNCHANGED <<ledger, deploy, run>> /\ spent'.runs = spent.runs /\ recovery # None
      /\ \/ marker' = marker
         \/ /\ marker # None /\ marker.phase # "ROLLED_BACK"
            /\ marker' # None /\ marker'.id = marker.id
            /\ marker'.phase \in {"ROLLING_BACK", "ROLLED_BACK", "FAILED"}
  BY RecoveryWrites, RunsOfFault DEF RecoveryWork
<1>2. RunsCounted'
  BY <1>1 DEF LedgerInv, RunsCounted
<1>3. LedgerKnows'
  BY <1>1 DEF LedgerInv, LedgerKnows, HostInv, RecoveryTyped, Recorded
<1>4. LedgerFollowsMarker'
  BY <1>1 DEF LedgerInv, LedgerFollowsMarker
<1> QED BY <1>2, <1>3, <1>4 DEF LedgerInv

\* The trap of the entry point marks the failure of what it may have recorded.
LEMMA TrapRecorded ==
  ASSUME DeploymentAssumption, HostInv, LedgerInv, Trap PROVE LedgerInv'
<1>1. /\ deploy # None /\ deploy.at = "trapped" /\ UNCHANGED <<ledger, run>>
      /\ deploy.mem \in Markers /\ deploy.mem.id = run.id /\ DeployTyped
      /\ run.id \in Ids /\ ledger[run.id] \in Seq(Results)
      /\ None \notin Markers
  BY AfterRecovery DEF Trap, HostInv, DeployTyped, LedgerInv, RunsCounted, DeploymentAssumption,
     FilesTyped
<1>2. CASE deploy.mem.phase \in {"COMMITTED", "ROLLED_BACK"}
  <2>1. Goto("ended") /\ UNCHANGED <<marker, spent>>
    BY <1>2 DEF Trap
  <2>2. deploy'.at = "ended" /\ deploy'.mem = deploy.mem
    BY <1>1, <2>1, Went DEF DeploySteps
  <2>3. RunsCounted' /\ LedgerFollowsMarker'
    BY <1>1, <2>1, <2>2 DEF LedgerInv, RunsCounted, LedgerFollowsMarker
  <2>4. LedgerKnows'
    BY <1>1, <2>1, <2>2 DEF LedgerKnows, Recorded
  <2> QED BY <2>3, <2>4 DEF LedgerInv
<1>3. CASE deploy.mem.phase \notin {"COMMITTED", "ROLLED_BACK"}
  <2>1. PICK m2 : Failed(deploy.mem, m2) /\ Remember(m2, "trapfact")
    BY <1>3 DEF Trap
  <2>2. /\ Moved(deploy.mem, "FAILED") \in Markers /\ Moved(deploy.mem, "FAILED").phase = "FAILED"
        /\ Moved(deploy.mem, "FAILED").id = run.id
    BY <1>1, Phased, MovedFields
  <2>3. /\ Fault \/ spent' = spent
        /\ m2 \in Markers /\ m2.id = run.id
        /\ marker' = marker \/ (marker' = m2 /\ m2.phase = "FAILED")
    <3>1. /\ Fault \/ spent' = spent
          /\ \/ m2 = Moved(deploy.mem, "FAILED") /\ marker' = m2
             \/ m2 = deploy.mem /\ marker' = marker
             \/ m2 = deploy.mem /\ deploy.mem.phase = "FAILED" /\ marker' = deploy.mem
      BY <2>1, FailedCases
    <3> QED BY <1>1, <2>2, <3>1
  <2>4. deploy'.at = "trapfact" /\ deploy'.mem = m2 /\ spent'.runs = spent.runs
    BY <1>1, <2>1, <2>3, Remembered, RunsOfFault DEF DeploySteps
  <2>5. ledger[run.id] = <<>> \/ Last(ledger[run.id]) = "FAILED"
    BY <1>1, <1>3 DEF LedgerInv, LedgerKnows
  <2>6. RunsCounted'
    BY <1>1, <2>3, <2>4 DEF LedgerInv, RunsCounted, HostInv, WorkflowTyped
  <2>7. marker # None /\ marker.id = run.id => marker.phase # "COMMITTED"
    BY <1>1 DEF LedgerInv, LedgerKnows
  <2>8. LedgerKnows'
    BY <1>1, <2>3, <2>4, <2>5, <2>7 DEF LedgerKnows, Recorded
  <2>9. LedgerFollowsMarker'
    <3>1. CASE marker' = marker
      BY <1>1, <3>1 DEF LedgerInv, LedgerFollowsMarker
    <3>2. CASE marker' = m2 /\ m2.phase = "FAILED"
      BY <1>1, <2>3, <2>5, <3>2 DEF LedgerFollowsMarker
    <3> QED BY <2>3, <3>1, <3>2
  <2> QED BY <2>6, <2>8, <2>9 DEF LedgerInv
<1> QED BY <1>2, <1>3

LEMMA TakeRecorded ==
  ASSUME DeploymentAssumption, HostInv, LedgerInv, TakeLedger PROVE LedgerInv'
<1>1. /\ deploy # None /\ deploy.at \in DOMAIN FactAt /\ DeployTyped
      /\ UNCHANGED <<marker, ledger, run, spent>>
  BY DEF TakeLedger, HostInv
<1>2. /\ deploy'.mem = deploy.mem
      /\ \/ deploy'.at = deploy.at
         \/ deploy.at = "record" /\ deploy'.at = "ended"
         \/ deploy.at \in {"rolledback", "failed"} /\ deploy'.at = "trapped"
         \/ deploy.at = "trapfact" /\ deploy'.at = "ended"
  <2>1. CASE deploy' = [deploy EXCEPT !.holds = TRUE]
    BY <1>1, <2>1 DEF DeployTyped, DeployRecords
  <2>2. CASE Goto(IF deploy.at = "record" THEN "ended" ELSE AfterFact[deploy.at])
    <3>1. deploy.at # "record" => AfterFact[deploy.at] =
            (IF deploy.at = "trapfact" THEN "ended" ELSE "trapped")
      BY <1>1 DEF FactAt, AfterFact
    <3>2. deploy.at \in {"record", "rolledback", "failed", "trapfact"}
      BY <1>1 DEF FactAt
    <3> QED BY <1>1, <2>2, <3>1, <3>2, Went DEF DeploySteps
  <2> QED BY <2>1, <2>2 DEF TakeLedger
<1>3. RunsCounted' /\ LedgerFollowsMarker'
  BY <1>1, <1>2 DEF LedgerInv, RunsCounted, LedgerFollowsMarker
<1>4. LedgerKnows'
  BY <1>1, <1>2 DEF LedgerInv, LedgerKnows, Recorded
<1> QED BY <1>3, <1>4 DEF LedgerInv

LEMMA WriteRecorded ==
  ASSUME DeploymentAssumption, HostInv, LedgerInv, WriteLedger PROVE LedgerInv'
<1> DEFINE result == FactAt[deploy.at]
           facts == ledger[run.id]
<1>1. /\ deploy # None /\ deploy.at \in DOMAIN FactAt /\ DeployTyped
      /\ UNCHANGED <<marker, run, spent>>
      /\ deploy.mem \in Markers /\ deploy.mem.id = run.id /\ run.id \in Ids
      /\ ledger \in [Ids -> Seq(Results)] /\ None \notin Markers
  BY DEF WriteLedger, HostInv, DeployTyped, FactAt, DeployRecords, LedgerInv, RunsCounted,
     FilesTyped, DeploymentAssumption
<1>2. \/ deploy.at = "record" /\ result = "COMMITTED" /\ AfterFact[deploy.at] = "succeeded"
      \/ deploy.at = "rolledback" /\ result = "ROLLED_BACK" /\ AfterFact[deploy.at] = "trapped"
      \/ deploy.at = "failed" /\ result = "FAILED" /\ AfterFact[deploy.at] = "trapped"
      \/ deploy.at = "trapfact" /\ result = "FAILED" /\ AfterFact[deploy.at] = "ended"
  BY <1>1 DEF FactAt, AfterFact
<1>3. deploy'.at = AfterFact[deploy.at] /\ deploy'.mem = deploy.mem
  BY <1>1 DEF WriteLedger, DeployTyped, DeployRecords
<1>4. facts = <<>> \/ (deploy.at = "trapfact" /\ Last(facts) = "FAILED")
  BY <1>1, <1>2 DEF LedgerInv, LedgerKnows, Recorded
<1>5. ledger' = Appended(run.id, result)
  BY <1>1 DEF WriteLedger
<1>6. /\ ledger'[run.id] # <<>> /\ Last(ledger'[run.id]) = result
      /\ \A id \in Ids : id # run.id => ledger'[id] = ledger[id]
  <2>1. CASE facts = <<>>
    <3>1. ledger' = [ledger EXCEPT ![run.id] = Append(facts, result)]
      BY <1>5, <2>1 DEF Appended, MayFollow
    <3>2. Append(facts, result) = <<result>> /\ <<result>> # <<>> /\ Last(<<result>>) = result
      BY <2>1 DEF Last
    <3> QED BY <1>1, <3>1, <3>2
  <2>2. CASE facts # <<>> /\ deploy.at = "trapfact" /\ Last(facts) = "FAILED"
    <3>1. ~MayFollow(facts, result) /\ result = "FAILED"
      BY <1>2, <2>2 DEF MayFollow
    <3>2. ledger' = ledger
      BY <1>5, <3>1 DEF Appended
    <3> QED BY <2>2, <3>1, <3>2
  <2> QED BY <1>4, <2>1, <2>2
<1> HIDE DEF result, facts
<1>7. RunsCounted'
  BY <1>1, <1>3, <1>6 DEF LedgerInv, RunsCounted, HostInv, WorkflowTyped
<1>8. marker # None /\ marker.id = run.id =>
        /\ deploy.at = "record" => marker.phase = "COMMITTED"
        /\ deploy.at = "rolledback" => marker.phase = "ROLLED_BACK"
        /\ deploy.at \in {"failed", "trapfact"} => marker.phase # "COMMITTED"
  BY <1>1 DEF LedgerInv, LedgerKnows
<1>9. LedgerFollowsMarker'
  <2>1. CASE marker # None /\ marker.id = run.id
    BY <1>1, <1>2, <1>6, <1>8, <2>1 DEF LedgerFollowsMarker
  <2>2. CASE marker # None /\ marker.id # run.id
    <3>1. marker.id \in Ids
      BY <2>2 DEF HostInv, FilesTyped, Markers
    <3> QED BY <1>1, <1>6, <2>2, <3>1 DEF LedgerInv, LedgerFollowsMarker
  <2>3. CASE marker = None
    BY <1>1, <2>3 DEF LedgerFollowsMarker
  <2> QED BY <2>1, <2>2, <2>3
<1>10. LedgerKnows'
  BY <1>1, <1>2, <1>3, <1>6, <1>8 DEF LedgerInv, LedgerKnows, Recorded
<1> QED BY <1>7, <1>9, <1>10 DEF LedgerInv

\* Steps that leave the marker and the ledger alone, and end a process or
\* start one; the run they belong to keeps its number.
LEMMA ProcessesRecorded ==
  ASSUME DeploymentAssumption, HostInv, LedgerInv,
         UNCHANGED <<marker, ledger>>, run'.id = run.id, spent'.runs = spent.runs,
         deploy' = None \/ deploy' = deploy
  PROVE  LedgerInv'
<1>1. RunsCounted' /\ LedgerFollowsMarker'
  BY DEF LedgerInv, RunsCounted, LedgerFollowsMarker
<1>2. LedgerKnows'
  BY DEF LedgerInv, LedgerKnows
<1> QED BY <1>1, <1>2 DEF LedgerInv

LEMMA EndRecoveryRecorded ==
  ASSUME DeploymentAssumption, HostInv, LedgerInv, EndRecovery PROVE LedgerInv'
<1>1. UNCHANGED <<marker, ledger, spent>> /\ run'.id = run.id
  BY DEF EndRecovery, HostInv, WorkflowTyped
<1>2. CASE deploy = None
  BY <1>1, <1>2, ProcessesRecorded DEF EndRecovery
<1>3. CASE deploy # None
  <2>1. /\ deploy.at = "recovering" /\ UNCHANGED run /\ DeployTyped
        /\ Goto("recovered") \/ Goto("unrecovered")
    BY <1>3 DEF EndRecovery, HostInv, RecoveryTyped
  <2>2. deploy'.mem = deploy.mem /\ deploy'.at \in {"recovered", "unrecovered"}
    BY <1>3, <2>1, Went DEF DeploySteps
  <2> QED BY <1>1, <1>3, <2>1, <2>2, UnmarkedSound DEF Recorded
<1> QED BY <1>2, <1>3

LEMMA StartRunRecorded ==
  ASSUME DeploymentAssumption, HostInv, LedgerInv, NEW release \in Releases, StartRun(release)
  PROVE  LedgerInv'
<1>1. /\ UNCHANGED <<marker, ledger>>
      /\ run'.id = run.id + 1 /\ spent'.runs = spent.runs + 1
      /\ deploy' = [at |-> "checkout", mem |-> None, replaced |-> None, holds |-> FALSE]
      /\ run.id \in Nat /\ run'.id \in Ids
  BY DEF StartRun, HostInv, WorkflowTyped, LedgerInv, RunsCounted, DeploymentAssumption, Ids
<1>2. ledger[run'.id] = <<>>
  BY <1>1 DEF LedgerInv, RunsCounted
<1>3. marker # None => marker.id \in Nat /\ marker.id <= run.id
  BY DEF LedgerInv, RunsCounted, HostInv, FilesTyped, Markers, Ids
<1>4. RunsCounted'
  BY <1>1, <1>3 DEF LedgerInv, RunsCounted, Ids
<1>5. LedgerKnows'
  BY <1>1, <1>2, <1>3 DEF LedgerKnows
<1>6. LedgerFollowsMarker'
  BY <1>1 DEF LedgerInv, LedgerFollowsMarker
<1> QED BY <1>4, <1>5, <1>6 DEF LedgerInv

LEMMA LedgerStarts == DeploymentInit => LedgerInv
BY DEF DeploymentInit, LedgerInv, RunsCounted, LedgerKnows, LedgerFollowsMarker

LEMMA LedgerKept ==
  ASSUME DeploymentAssumption, HostInv, LedgerInv, [DeploymentNext]_deployVars PROVE LedgerInv'
<1>1. CASE \E release \in Releases : StartRun(release)
  BY <1>1, StartRunRecorded
<1>2. CASE NoticeKilledDeployment \/ GiveUp \/ EndDeploy
  <2>1. run'.id = run.id
    BY <1>2 DEF NoticeKilledDeployment, GiveUp, EndDeploy, EndOfDeployment, HostInv, WorkflowTyped
  <2>2. UNCHANGED <<marker, ledger, spent>> /\ (deploy' = None \/ deploy' = deploy)
    BY <1>2 DEF NoticeKilledDeployment, GiveUp, EndDeploy
  <2> QED BY <2>1, <2>2, ProcessesRecorded
<1>3. CASE StartRollback \/ Crash
  <2>1. spent'.runs = spent.runs
    BY <1>3 DEF StartRollback, Crash, HostInv, WorkflowTyped
  <2>2. UNCHANGED <<marker, ledger, run>> /\ (deploy' = None \/ deploy' = deploy)
    BY <1>3 DEF StartRollback, Crash
  <2> QED BY <2>1, <2>2, ProcessesRecorded
<1>4. CASE UNCHANGED deployVars
  BY <1>4, ProcessesRecorded DEF deployVars
<1> QED BY <1>1, <1>2, <1>3, <1>4, WorkRecorded, TakeRecorded, WriteRecorded, FailureRecorded,
     TrapRecorded, RecoveryRecorded, EndRecoveryRecorded DEF DeploymentNext, HostStep

-----------------------------------------------------------------------------
(* The abstract executor *)

LEMMA NoFault ==
  ASSUME HostInv, Fault \/ spent' = spent, spent'.faults = 0
  PROVE  spent' = spent /\ spent.faults = 0 /\ ~Fault
BY DEF Fault, HostInv, WorkflowTyped

LEMMA Permitted ==
  ASSUME NEW m, NEW phase, NEW explicit, CanMove(m, phase, explicit)
  PROVE  /\ \/ phase \in Contract!ALLOWED_TRANSITIONS[m.phase]
            \/ m.phase = "COMMITTED" /\ phase = "ROLLING_BACK"
         /\ phase = "ROLLING_BACK" => m.boundary
BY Zenon DEF CanMove, IsAllowed

LEMMA HostReported ==
  ASSUME DeploymentAssumption, marker \in Markers, pointers.current \in Releases
  PROVE  Host \in Contract!Transactions
<1>1. {marker.previous, marker.current} \subseteq Releases \cup {None}
  BY DEF Markers
<1> QED BY <1>1 DEF Host, Markers, Phases, Contract!Transactions

\* A report is what its fields are.
LEMMA Reported ==
  ASSUME NEW h \in Contract!Transactions, NEW g \in Contract!Transactions,
         NEW phase \in Phases, g.phase = phase, g.boundary = h.boundary,
         g.candidate = h.candidate, g.previous = h.previous, g.current = h.current
  PROVE  g = [h EXCEPT !.phase = phase]
BY DEF Contract!Transactions

\* A write of the marker that moves the transaction it holds is the abstract
\* executor's transition, or the one it does not know.
LEMMA HostMoves ==
  ASSUME DeploymentAssumption, marker \in Markers, NEW m \in Markers, NEW phase \in Phases,
         Alike(m, marker), m.phase = marker.phase, m.current = marker.current,
         phase = "ROLLING_BACK" => m.boundary,
         \/ phase \in Contract!ALLOWED_TRANSITIONS[m.phase]
         \/ /\ m.phase = "COMMITTED" /\ phase = "ROLLING_BACK"
            /\ SmokeMayFail \/ marker.id # run.id,
         pointers.current \in Releases, marker' = Moved(m, phase), UNCHANGED pointers
  PROVE  Mirrored
<1>1. marker # None /\ marker' # None
  BY MovedFields DEF DeploymentAssumption
<1>2. Transaction = Host /\ Transaction' = Host'
  BY <1>1 DEF Transaction
<1>3. /\ marker'.phase = phase /\ marker'.boundary = (m.boundary \/ phase = "SWITCHING")
      /\ marker'.candidate = marker.candidate /\ marker'.previous = marker.previous
      /\ marker'.current = Contract!CurrentAfter(m, phase)
  BY DEF Moved, Markers, Alike
<1>4. marker' \in Markers /\ pointers'.current \in Releases
  BY MovedFields
<1>5. Host \in Contract!Transactions /\ Host' \in Contract!Transactions
  <2>1. {marker'.previous, marker'.current} \subseteq Releases \cup {None}
    BY <1>4 DEF Markers
  <2> QED BY <1>4, <2>1, HostReported DEF Host, Markers, Phases, Contract!Transactions
<1>6. /\ Host'.phase = phase /\ Host'.candidate = Host.candidate
      /\ Host'.previous = Host.previous
      /\ Host'.boundary = (Host.boundary \/ phase = "SWITCHING")
      /\ Host'.current = Mirror!CurrentAfter(Host, phase)
  <2>1. Host'.current = Mirror!CurrentAfter(Host, phase)
    <3>1. marker.candidate # None
      BY DEF Markers, DeploymentAssumption
    <3>2. CASE phase = "COMMITTED"
      BY <1>3, <3>1, <3>2 DEF Host, Mirror!CurrentAfter, Contract!CurrentAfter, Alike
    <3>3. CASE phase = "ROLLED_BACK"
      BY <1>3, <3>3 DEF Host, Mirror!CurrentAfter, Contract!CurrentAfter, Alike
    <3>4. CASE phase \notin {"COMMITTED", "ROLLED_BACK"}
      BY <1>3, <3>4 DEF Host, Mirror!CurrentAfter, Contract!CurrentAfter, Alike
    <3> QED BY <3>2, <3>3, <3>4
  <2>2. Host'.boundary = (Host.boundary \/ phase = "SWITCHING")
    BY <1>3 DEF Host, Alike
  <2> QED BY <1>3, <2>1, <2>2 DEF Host
<1>7. CASE phase \in Contract!ALLOWED_TRANSITIONS[m.phase]
  <2>1. phase \in Mirror!ALLOWED_TRANSITIONS[Host.phase]
    BY <1>7 DEF Host, Mirror!ALLOWED_TRANSITIONS, Contract!ALLOWED_TRANSITIONS
  <2>2. phase \in Mirror!Phases
    BY Phased DEF Mirror!Phases
  <2>3. Host # None /\ Host.boundary = m.boundary
    BY <1>5 DEF Host, Alike, DeploymentAssumption
  <2>4. Host' = [Host EXCEPT !.phase = phase, !.boundary = @ \/ phase = "SWITCHING",
                             !.current = Mirror!CurrentAfter(Host, phase)]
    <3>1. Mirror!CurrentAfter(Host, phase) \in Releases
      BY <1>5, <1>6 DEF Contract!Transactions
    <3>2. ASSUME NEW h \in Contract!Transactions, NEW g \in Contract!Transactions,
                 NEW c \in Releases, h = Host, g = Host', c = Mirror!CurrentAfter(Host, phase)
          PROVE  g = [h EXCEPT !.phase = phase, !.boundary = @ \/ phase = "SWITCHING",
                               !.current = c]
      <4>1. /\ g.phase = phase /\ g.candidate = h.candidate /\ g.previous = h.previous
            /\ g.boundary = (h.boundary \/ phase = "SWITCHING") /\ g.current = c
        BY <1>6, <3>2
      <4> QED BY <4>1 DEF Contract!Transactions
    <3> QED BY <1>5, <3>1, <3>2
  <2>5. Mirror!TransitionDeploymentState(phase)
    BY <1>2, <2>1, <2>3, <2>4 DEF Mirror!TransitionDeploymentState
  <2> QED BY <2>2, <2>5 DEF Mirrored, Mirror!ContractNext
<1>8. CASE /\ m.phase = "COMMITTED" /\ phase = "ROLLING_BACK"
           /\ SmokeMayFail \/ marker.id # run.id
  <2>1. Host'.boundary = Host.boundary /\ Host'.current = Host.current
    BY <1>5, <1>6, <1>8 DEF Mirror!CurrentAfter, Contract!Transactions
  <2>2. Host' = [Host EXCEPT !.phase = "ROLLING_BACK"]
    BY <1>5, <1>6, <1>8, <2>1, Reported DEF Contract!Transactions
  <2> QED BY <1>1, <1>2, <1>8, <2>2 DEF Mirrored, ExplicitRollback
<1> QED BY <1>7, <1>8

\* What the abstract executor does not see.
LEMMA HostStays ==
  ASSUME marker' = marker,
         \/ marker = None
         \/ marker.previous # None /\ marker.current # None
         \/ pointers'.current = pointers.current
  PROVE  Mirrored
BY DEF Mirrored, Transaction, Host

\* A step of a deployment keeps its run, and writes no marker but its own.
LEMMA DeployMirrors ==
  ASSUME DeploymentAssumption, HostInv, HostInv', LedgerInv', MirrorInv,
         deploy # None, deploy' # None, UNCHANGED run, Fault \/ spent' = spent,
         marker' = marker \/ marker' = deploy'.mem,
         spent' = spent /\ spent.faults = 0 /\ MirrorKnows => MirrorKnows' /\ Mirrored
  PROVE  MirrorInv' /\ (spent'.faults = 0 => Mirrored)
<1>1. RunsKnown'
  BY DEF MirrorInv, RunsKnown, HostInv, DeployTyped
<1>2. spent'.faults = 0 => MirrorKnows' /\ Mirrored
  BY NoFault DEF MirrorInv
<1> QED BY <1>1, <1>2 DEF MirrorInv

LEMMA Running ==
  ASSUME DeploymentAssumption, deploy' \in DeployRecords
  PROVE  deploy' # None
BY DEF DeploymentAssumption

LEMMA Recovering ==
  ASSUME DeploymentAssumption, recovery' \in RecoveryRecords
  PROVE  recovery' # None
BY DEF DeploymentAssumption

\* A deployment that goes on leaving its marker and its memory alone.
LEMMA GoneOn ==
  ASSUME DeploymentAssumption, HostInv, HostInv', LedgerInv', MirrorInv, deploy # None,
         NEW step \in DeploySteps, Goto(step), UNCHANGED <<run, marker>>,
         Fault \/ spent' = spent,
         pointers' = pointers \/ (pointers'.current = pointers.current /\ step \notin {"identify"}),
         step \notin {"capture", "identify", "beginning", "rolledback", "failed", "recovering",
                      "recovered", "unrecovered"},
         step = "trapped" => deploy.mem = marker
  PROVE  MirrorInv' /\ (spent'.faults = 0 => Mirrored)
<1>1. /\ deploy' # None /\ deploy'.at = step /\ deploy'.mem = deploy.mem
  BY Went, Running DEF HostInv
<1>2. spent' = spent /\ spent.faults = 0 /\ MirrorKnows => MirrorKnows' /\ Mirrored
  BY <1>1, HostStays DEF MirrorKnows
<1> QED BY <1>1, <1>2, DeployMirrors

LEMMA CheckoutMirrors ==
  ASSUME DeploymentAssumption, HostInv, HostInv', LedgerInv', MirrorInv,
         deploy # None, UNCHANGED run, Checkout
  PROVE  MirrorInv' /\ (spent'.faults = 0 => Mirrored)
<1>1. CASE FailTo("ended")
  BY <1>1, GoneOn DEF FailTo, DeploySteps
<1>2. CASE ~FailTo("ended")
  <2> DEFINE m == FreshMarker(run.id, run.release)
  <2>0. run.id \in Ids /\ run.release \in Releases /\ DeployTyped
    BY DEF HostInv, DeployTyped
  <2>1. /\ m \in Markers /\ m.phase = "PREPARED" /\ m.boundary = FALSE
        /\ m.candidate = run.release /\ m.previous = None /\ m.current = None
    BY <2>0, Phased DEF FreshMarker, Markers
  <2>2. UNCHANGED pointers /\ pointers.current \in Releases
    BY <1>2 DEF Checkout, HostInv, FilesTyped
  <2> HIDE DEF m
  <2>3. \/ Remember(m, "capture") /\ marker' = m /\ spent' = spent
        \/ Remember(m, "trapped") /\ marker' = marker /\ Fault
    BY <1>2 DEF Checkout, m
  <2>4. /\ deploy'.mem = m /\ deploy'.at \in {"capture", "trapped"} /\ deploy' # None
        /\ Fault \/ (deploy'.at = "capture" /\ marker' = m /\ spent' = spent)
        /\ marker' = marker \/ marker' = deploy'.mem
    BY <2>0, <2>1, <2>3, Remembered, Running DEF DeploySteps
  <2>5. ASSUME spent' = spent, spent.faults = 0, MirrorKnows
        PROVE  MirrorKnows' /\ Mirrored
    <3>1. deploy'.at = "capture" /\ marker' = m /\ m # None
      BY <2>1, <2>4, <2>5, NoFault DEF DeploymentAssumption
    <3>2. Transaction' = [phase |-> "PREPARED", boundary |-> FALSE,
                          previous |-> pointers.current, candidate |-> run.release,
                          current |-> pointers.current]
      BY <2>1, <2>2, <3>1 DEF Transaction, Host
    <3>3. Mirrored
      <4>1. Mirror!CreateDeploymentTransaction(pointers.current, run.release)
        BY <3>2, Zenon DEF Mirror!CreateDeploymentTransaction
      <4> QED BY <2>0, <2>2, <4>1, Zenon DEF Mirrored, Mirror!ContractNext
    <3>4. MirrorKnows'
      BY <2>1, <2>4, <3>1 DEF MirrorKnows
    <3> QED BY <3>3, <3>4
  <2> QED BY <2>4, <2>5, DeployMirrors
<1> QED BY <1>1, <1>2

LEMMA CaptureMirrors ==
  ASSUME DeploymentAssumption, HostInv, HostInv', LedgerInv', MirrorInv,
         deploy # None, UNCHANGED run, CapturePrevious
  PROVE  MirrorInv' /\ (spent'.faults = 0 => Mirrored)
<1>1. deploy.at = "capture" /\ deploy.mem = marker
  BY KnownMarker DEF CapturePrevious, KnownPhase
<1>2. CASE FailTo("trapped")
  BY <1>1, <1>2, GoneOn DEF FailTo, DeploySteps
<1>3. CASE ~FailTo("trapped")
  <2>1. /\ pointers' = [pointers EXCEPT !.previous = pointers.current]
        /\ deploy' = [deploy EXCEPT !.at = "identify", !.replaced = images.current]
        /\ UNCHANGED <<marker, spent>>
    BY <1>3 DEF CapturePrevious
  <2>2. pointers'.previous = pointers.current /\ pointers'.current = pointers.current
    BY <2>1 DEF HostInv, FilesTyped
  <2>3. deploy' \in DeployRecords /\ deploy'.at = "identify"
    <3>1. deploy \in DeployRecords /\ images.current \in Releases \cup {None}
      BY DEF HostInv, DeployTyped, FilesTyped
    <3> QED BY <2>1, <3>1 DEF DeployRecords, DeploySteps
  <2>4. MirrorKnows => MirrorKnows' /\ Mirrored
    BY <1>1, <2>1, <2>2, <2>3, HostStays DEF MirrorKnows
  <2> QED BY <2>1, <2>3, <2>4, Running, DeployMirrors
<1> QED BY <1>2, <1>3

LEMMA IdentifyMirrors ==
  ASSUME DeploymentAssumption, HostInv, HostInv', LedgerInv', MirrorInv,
         deploy # None, UNCHANGED run, Identify
  PROVE  MirrorInv' /\ (spent'.faults = 0 => Mirrored)
<1>1. /\ deploy.at = "identify" /\ deploy.mem = marker /\ marker \in Markers
      /\ UNCHANGED pointers /\ DeployTyped
      /\ pointers.current \in Releases /\ pointers.previous \in Releases \cup {None}
  BY KnownMarker DEF Identify, KnownPhase, HostInv, FilesTyped
<1> DEFINE m == [marker EXCEPT !.previous = pointers.previous, !.current = pointers.current]
           to == IF pointers.previous \in stored THEN "artifact" ELSE "trapped"
<1>2. /\ m \in Markers /\ m.phase = marker.phase /\ m.boundary = marker.boundary
      /\ m.candidate = marker.candidate
      /\ m.previous = pointers.previous /\ m.current = pointers.current
  BY <1>1 DEF Markers
<1>3. \/ Remember(m, to) /\ marker' = m /\ spent' = spent
      \/ Remember(m, "trapped") /\ marker' = marker /\ Fault
  BY <1>1 DEF Identify
<1> HIDE DEF m
<1>4. /\ deploy'.mem = m /\ deploy'.at \in {"artifact", "trapped"} /\ deploy' # None
      /\ Fault \/ (marker' = m /\ spent' = spent)
      /\ marker' = marker \/ marker' = deploy'.mem
  BY <1>1, <1>2, <1>3, Remembered, Running DEF DeploySteps
<1>5. ASSUME spent' = spent, spent.faults = 0, MirrorKnows
      PROVE  MirrorKnows' /\ Mirrored
  <2>1. marker' = m /\ m # None /\ marker # None /\ pointers.current # None
    BY <1>1, <1>2, <1>4, <1>5, NoFault DEF DeploymentAssumption
  <2>2. /\ marker.previous = None /\ marker.current = None
        /\ pointers.previous = pointers.current
        /\ marker.phase = "PREPARED"
    BY <1>1, <1>5, <2>1, KnownMarker DEF MirrorKnows, KnownPhase
  <2>3. Transaction' = Transaction
    BY <1>1, <1>2, <2>1, <2>2 DEF Transaction, Host
  <2>4. MirrorKnows'
    BY <1>2, <1>4, <2>1, <2>2 DEF MirrorKnows
  <2> QED BY <2>3, <2>4 DEF Mirrored
<1> QED BY <1>4, <1>5, DeployMirrors

LEMMA ArtifactMirrors ==
  ASSUME DeploymentAssumption, HostInv, HostInv', LedgerInv', MirrorInv,
         deploy # None, UNCHANGED run, PrepareArtifact
  PROVE  MirrorInv' /\ (spent'.faults = 0 => Mirrored)
<1>1. deploy.at = "artifact" /\ deploy.mem = marker
  BY KnownMarker DEF PrepareArtifact, KnownPhase
<1>2. \E step \in {"trapped", "prepare"} : Goto(step)
  BY DEF PrepareArtifact, FailTo
<1>3. UNCHANGED <<marker, pointers>> /\ (Fault \/ spent' = spent)
  BY <1>1 DEF PrepareArtifact, FailTo
<1> QED BY <1>1, <1>2, <1>3, GoneOn DEF DeploySteps

\* Past the boundary the marker says what was replaced, whatever the pointers do.
LEMMA PointerMirrors ==
  ASSUME DeploymentAssumption, HostInv, HostInv', LedgerInv', MirrorInv,
         deploy # None, UNCHANGED run, ActivatePointer
  PROVE  MirrorInv' /\ (spent'.faults = 0 => Mirrored)
<1>1. /\ deploy.at \in {"pointer", "pointing"} /\ deploy.mem = marker /\ DeployTyped
      /\ marker # None /\ marker.previous # None
  BY KnownMarker DEF ActivatePointer, KnownPhase, HostInv, DeployKnows, Crossed, Recoverable
<1>2. CASE FailTo("failing")
  BY <1>1, <1>2, GoneOn DEF FailTo, DeploySteps
<1>3. CASE ~FailTo("failing")
  <2>1. (Goto("pointing") \/ Goto("publish")) /\ UNCHANGED <<marker, spent>>
    BY <1>3 DEF ActivatePointer
  <2>2. deploy' \in DeployRecords /\ deploy'.at \in {"pointing", "publish"}
    BY <1>1, <2>1, Went DEF DeploySteps
  <2>3. MirrorKnows => MirrorKnows' /\ Mirrored
    BY <1>1, <2>1, <2>2, HostStays DEF MirrorKnows
  <2> QED BY <2>1, <2>2, <2>3, Running, DeployMirrors
<1> QED BY <1>2, <1>3

LEMMA StepMirrors ==
  ASSUME DeploymentAssumption, HostInv, HostInv', LedgerInv', MirrorInv,
         deploy # None, UNCHANGED run,
         NEW from, NEW phase, NEW to, Step(from, phase, to),
         \/ from = "boundary" /\ phase = "SWITCHING" /\ to = "migrate"
         \/ from = "activated" /\ phase = "ACTIVATED_UNVERIFIED" /\ to = "probe"
         \/ from = "verified" /\ phase = "VERIFIED" /\ to = "pointer"
         \/ from = "commit" /\ phase = "COMMITTED" /\ to = "record"
  PROVE  MirrorInv' /\ (spent'.faults = 0 => Mirrored)
<1>1. deploy.at = from /\ UNCHANGED pointers /\ DeployTyped /\ pointers.current \in Releases
  BY StepCases DEF Step, HostInv, FilesTyped
<1>2. from \in DOMAIN KnownPhase /\ to \in DeploySteps /\ phase \in Phases
  BY Phased DEF KnownPhase, DeploySteps
<1>3. /\ marker \in Markers /\ deploy.mem = marker /\ marker # None
      /\ marker.phase \in KnownPhase[from]
      /\ from = "commit" => marker.previous # None
  BY <1>1, <1>2, KnownMarker DEF HostInv, DeployKnows, Crossed, Recoverable
<1>6. /\ phase \in Contract!ALLOWED_TRANSITIONS[marker.phase]
      /\ phase \notin {"ROLLING_BACK", "ROLLED_BACK"}
  BY <1>3 DEF KnownPhase, Contract!ALLOWED_TRANSITIONS
<1> DEFINE m == Moved(marker, phase)
<1>4. /\ m \in Markers /\ m.phase = phase /\ m.previous = marker.previous
      /\ m.current = IF phase = "COMMITTED" THEN marker.candidate ELSE marker.current
  <2>1. m \in Markers /\ m.phase = phase /\ m.previous = marker.previous
    BY <1>2, <1>3, MovedFields
  <2>2. m.current = Contract!CurrentAfter(marker, phase)
    BY <1>3 DEF Moved, Markers
  <2> QED BY <1>6, <2>1, <2>2 DEF Contract!CurrentAfter
<1>5. \/ Remember(m, to) /\ marker' = m /\ spent' = spent
      \/ Remember(marker, "failing") /\ marker' = marker /\ (Fault \/ spent' = spent)
  BY <1>1, <1>2, KnownMarker, StepCases
<1>7. marker' = m => Mirrored
  BY <1>1, <1>2, <1>3, <1>6, HostMoves DEF Alike
<1> HIDE DEF m
<1>8. /\ deploy' # None /\ (Fault \/ spent' = spent)
      /\ \/ deploy'.at = to /\ deploy'.mem = m /\ marker' = m
         \/ deploy'.at = "failing" /\ deploy'.mem = marker /\ marker' = marker
  BY <1>1, <1>2, <1>3, <1>4, <1>5, Remembered, Running DEF DeploySteps
<1>9. MirrorKnows => MirrorKnows' /\ Mirrored
  <2>1. marker.candidate # None
    BY <1>3 DEF Markers, DeploymentAssumption
  <2>2. Mirrored
    BY <1>1, <1>7, <1>8, HostStays
  <2>3. MirrorKnows => MirrorKnows'
    BY <1>3, <1>4, <1>6, <1>8, <2>1 DEF MirrorKnows
  <2> QED BY <2>2, <2>3
<1> QED BY <1>8, <1>9, DeployMirrors

LEMMA WorkMirrors ==
  ASSUME DeploymentAssumption, HostInv, HostInv', LedgerInv', MirrorInv, DeployWork
  PROVE  MirrorInv' /\ (spent'.faults = 0 => Mirrored)
<1>1. deploy # None /\ UNCHANGED run
  BY DEF DeployWork
<1>2. CASE Prepare \/ MigrateAndStop \/ StartCandidate \/ Probe \/ PublishPending
  <2>1. /\ UNCHANGED <<marker, pointers, spent>>
        /\ \E step \in {"boundary", "failing", "start", "activated", "verified", "commit"} :
             Goto(step)
    BY <1>2 DEF Prepare, MigrateAndStop, StartCandidate, Probe, PublishPending, FailTo
  <2> QED BY <1>1, <2>1, GoneOn DEF DeploySteps
<1>3. CASE CrossBoundary \/ RecordActivated \/ RecordVerified \/ Commit
  BY <1>1, <1>3, StepMirrors DEF CrossBoundary, RecordActivated, RecordVerified, Commit
<1> QED BY <1>1, <1>2, <1>3, CheckoutMirrors, CaptureMirrors, IdentifyMirrors, ArtifactMirrors,
     PointerMirrors DEF DeployWork

\* A failure that is marked is the abstract executor's, or marked again.
LEMMA FailedMirrors ==
  ASSUME DeploymentAssumption, HostInv, marker \in Markers,
         marker.phase \notin {"COMMITTED", "ROLLED_BACK"},
         NEW m2, Failed(marker, m2), ~Fault, UNCHANGED pointers
  PROVE  /\ Mirrored
         /\ m2 \in Markers /\ marker' = m2 /\ m2.phase = "FAILED"
         /\ m2.previous = marker.previous /\ m2.current = marker.current
<1>1. "FAILED" \in Phases /\ pointers.current \in Releases /\ marker.phase \in Phases
  BY Phased DEF HostInv, FilesTyped, Markers
<1> DEFINE m == Moved(marker, "FAILED")
<1>2. /\ m \in Markers /\ m.phase = "FAILED" /\ m.previous = marker.previous
      /\ m.current = marker.current
  <2>1. m.current = Contract!CurrentAfter(marker, "FAILED")
    BY DEF Moved, Markers
  <2> QED BY <1>1, <2>1, MovedFields DEF Contract!CurrentAfter
<1>3. marker.phase # "FAILED" => "FAILED" \in Contract!ALLOWED_TRANSITIONS[marker.phase]
  BY <1>1, Phased DEF Contract!ALLOWED_TRANSITIONS
<1>4. marker.phase # "FAILED" => CanMove(marker, "FAILED", FALSE)
  BY <1>3 DEF CanMove, IsAllowed
<1>5. \/ marker.phase # "FAILED" /\ m2 = m /\ marker' = m
      \/ marker.phase = "FAILED" /\ m2 = marker /\ marker' = marker
  BY <1>4, Zenon DEF Failed, Transitioned
<1>6. marker.phase # "FAILED" /\ marker' = m => Mirrored
  BY <1>1, <1>3, HostMoves DEF Alike
<1> HIDE DEF m
<1>7. marker' = marker => Mirrored
  BY HostStays
<1> QED BY <1>2, <1>5, <1>6, <1>7

LEMMA MarkFailureMirrors ==
  ASSUME DeploymentAssumption, HostInv, HostInv', LedgerInv', MirrorInv, MarkFailure
  PROVE  MirrorInv' /\ (spent'.faults = 0 => Mirrored)
<1>1. /\ deploy # None /\ deploy.at = "failing" /\ UNCHANGED <<run, pointers>> /\ DeployTyped
      /\ deploy.mem = marker /\ marker \in Markers
      /\ marker.phase \notin {"COMMITTED", "ROLLED_BACK"}
  BY KnownMarker DEF MarkFailure, HostInv, KnownPhase
<1>2. PICK m2 : Failed(marker, m2) /\ Remember(m2, IF m2.boundary THEN "beginning" ELSE "failed")
  BY <1>1 DEF MarkFailure
<1>3. /\ m2 \in Markers /\ (Fault \/ spent' = spent)
      /\ marker' = m2 \/ marker' = marker
  BY <1>1, <1>2, FailedFields
<1>4. /\ deploy' # None /\ deploy'.mem = m2 /\ deploy'.at \in {"beginning", "failed"}
  BY <1>1, <1>2, <1>3, Remembered, Running DEF DeploySteps
<1>5. ASSUME spent' = spent, spent.faults = 0, MirrorKnows
      PROVE  MirrorKnows' /\ Mirrored
  <2>1. /\ Mirrored
        /\ marker' = m2 /\ m2.phase = "FAILED"
        /\ m2.previous = marker.previous /\ m2.current = marker.current
    BY <1>1, <1>2, <1>5, NoFault, FailedMirrors
  <2>2. marker # None
    BY <1>1 DEF DeploymentAssumption
  <2>3. MirrorKnows'
    BY <1>4, <1>5, <2>1, <2>2 DEF MirrorKnows
  <2> QED BY <2>1, <2>3
<1> QED BY <1>1, <1>3, <1>4, <1>5, DeployMirrors

LEMMA TrapMirrors ==
  ASSUME DeploymentAssumption, HostInv, HostInv', LedgerInv', MirrorInv, Trap
  PROVE  MirrorInv' /\ (spent'.faults = 0 => Mirrored)
<1>1. /\ deploy # None /\ deploy.at = "trapped" /\ UNCHANGED <<run, pointers>> /\ DeployTyped
      /\ deploy.mem \in Markers
  BY AfterRecovery DEF Trap, HostInv
<1>2. CASE deploy.mem.phase \in {"COMMITTED", "ROLLED_BACK"}
  BY <1>1, <1>2, GoneOn DEF Trap, DeploySteps
<1>3. CASE deploy.mem.phase \notin {"COMMITTED", "ROLLED_BACK"}
  <2>1. PICK m2 : Failed(deploy.mem, m2) /\ Remember(m2, "trapfact")
    BY <1>3 DEF Trap
  <2>2. /\ m2 \in Markers /\ (Fault \/ spent' = spent)
        /\ marker' = m2 \/ marker' = marker
    BY <1>1, <2>1, FailedFields
  <2>3. deploy' # None /\ deploy'.mem = m2 /\ deploy'.at = "trapfact"
    BY <1>1, <2>1, <2>2, Remembered, Running DEF DeploySteps
  <2>4. ASSUME spent' = spent, spent.faults = 0, MirrorKnows
        PROVE  MirrorKnows' /\ Mirrored
    <3>1. deploy.mem = marker /\ marker # None
      BY <1>1, <2>4 DEF MirrorKnows, DeploymentAssumption
    <3>2. /\ Mirrored
          /\ marker' = m2 /\ m2.phase = "FAILED"
          /\ m2.previous = marker.previous /\ m2.current = marker.current
      BY <1>1, <1>3, <2>1, <2>4, <3>1, NoFault, FailedMirrors
    <3>3. MirrorKnows'
      BY <2>3, <2>4, <3>1, <3>2 DEF MirrorKnows
    <3> QED BY <3>2, <3>3
  <2> QED BY <1>1, <2>2, <2>3, <2>4, DeployMirrors
<1> QED BY <1>2, <1>3

LEMMA BeginMirrors ==
  ASSUME DeploymentAssumption, HostInv, HostInv', LedgerInv', MirrorInv, BeginRollback
  PROVE  MirrorInv' /\ (spent'.faults = 0 => Mirrored)
<1>1. /\ deploy # None /\ deploy.at = "beginning" /\ UNCHANGED <<run, pointers>> /\ DeployTyped
      /\ deploy.mem = marker /\ marker \in Markers /\ marker.boundary
      /\ pointers.current \in Releases /\ recovery' # None /\ recovery'.at = "select"
  BY KnownMarker DEF BeginRollback, HostInv, FilesTyped, KnownPhase, DeployKnows, RecoverySteps,
     RecoveryRecords, DeploymentAssumption
<1> DEFINE m == [marker EXCEPT !.rollback = "running"]
           moved == Moved(m, "ROLLING_BACK")
<1>2. /\ m \in Markers /\ Alike(m, marker) /\ m.phase = marker.phase /\ m.current = marker.current
      /\ m.boundary
  BY <1>1 DEF Markers, Alike
<1>3. PICK m2 \in {m, moved}, ok \in BOOLEAN :
        Transitioned(m, "ROLLING_BACK", FALSE, m2, ok) /\ Remember(m2, "recovering")
  BY <1>1, Zenon DEF BeginRollback
<1>4. /\ "ROLLING_BACK" \in Phases
      /\ marker.phase = "FAILED" => "ROLLING_BACK" \in Contract!ALLOWED_TRANSITIONS[m.phase]
  BY <1>2, Phased DEF Contract!ALLOWED_TRANSITIONS
<1>5. /\ marker.phase = "FAILED" => CanMove(m, "ROLLING_BACK", FALSE)
      /\ marker.phase = "FAILED" /\ marker' = moved => Mirrored
  BY <1>1, <1>2, <1>4, HostMoves DEF CanMove, IsAllowed
<1>6. /\ moved \in Markers /\ moved.phase = "ROLLING_BACK" /\ moved.boundary
      /\ moved.previous = marker.previous /\ moved.current = marker.current
  <2>1. moved.current = Contract!CurrentAfter(m, "ROLLING_BACK")
    BY <1>2 DEF Moved, Markers
  <2> QED BY <1>2, <1>4, <2>1, MovedFields DEF Contract!CurrentAfter, Alike
<1> HIDE DEF m, moved
<1>7. /\ Fault \/ spent' = spent
      /\ marker' = marker \/ marker' = m2
      /\ marker.phase = "FAILED" /\ ~Fault => m2 = moved /\ marker' = moved
  BY <1>3, <1>5, Zenon DEF Transitioned, moved
<1>8. deploy' # None /\ deploy'.mem = m2 /\ deploy'.at = "recovering"
  BY <1>1, <1>2, <1>3, <1>6, Remembered, Running DEF DeploySteps
<1>9. ASSUME spent' = spent, spent.faults = 0, MirrorKnows
      PROVE  MirrorKnows' /\ Mirrored
  <2>1. marker.phase = "FAILED" /\ marker # None
    BY <1>1, <1>9 DEF MirrorKnows, DeploymentAssumption
  <2>2. m2 = moved /\ marker' = moved /\ moved # None
    BY <1>6, <1>7, <1>9, <2>1, NoFault DEF DeploymentAssumption
  <2>3. MirrorKnows'
    BY <1>1, <1>6, <1>8, <1>9, <2>1, <2>2 DEF MirrorKnows, Alike
  <2> QED BY <1>5, <2>1, <2>2, <2>3
<1> QED BY <1>1, <1>7, <1>8, <1>9, DeployMirrors

\* What the recovery has recorded already, the deployment records again.
LEMMA RolledBackMirrors ==
  ASSUME DeploymentAssumption, HostInv, HostInv', LedgerInv', MirrorInv, MarkRolledBack
  PROVE  MirrorInv' /\ (spent'.faults = 0 => Mirrored)
<1>1. /\ deploy # None /\ deploy.at = "recovered" /\ UNCHANGED <<run, pointers>> /\ DeployTyped
      /\ deploy.mem \in Markers /\ marker # None /\ marker \in Markers
      /\ marker.phase = "ROLLED_BACK"
  BY AfterRecovery DEF MarkRolledBack, HostInv, FilesTyped
<1> DEFINE m == deploy.mem
           moved == Moved(m, "ROLLED_BACK")
<1>2. PICK m2 \in {m, moved}, ok \in BOOLEAN :
        /\ Transitioned(m, "ROLLED_BACK", FALSE, m2, ok)
        /\ Remember(m2, IF ok THEN "rolledback" ELSE "unrecovered")
  BY Zenon DEF MarkRolledBack
<1>3. m.phase = "ROLLING_BACK" => CanMove(m, "ROLLED_BACK", FALSE)
  BY DEF CanMove, IsAllowed, Contract!ALLOWED_TRANSITIONS
<1>4. /\ moved \in Markers /\ moved.id = m.id /\ moved.phase = "ROLLED_BACK"
      /\ moved.boundary = m.boundary /\ moved.candidate = m.candidate
      /\ moved.previous = m.previous /\ moved.current = m.previous
  <2>1. moved.current = Contract!CurrentAfter(m, "ROLLED_BACK")
    BY <1>1 DEF Moved, Markers
  <2> QED BY <1>1, <2>1, Phased, MovedFields DEF Contract!CurrentAfter
<1> HIDE DEF moved
<1>5. /\ Fault \/ spent' = spent
      /\ marker' = marker \/ marker' = m2
      /\ m.phase = "ROLLING_BACK" /\ ~Fault => ok /\ m2 = moved /\ marker' = moved
  BY <1>2, <1>3, Zenon DEF Transitioned, moved
<1>6. /\ deploy' # None /\ deploy'.mem = m2
      /\ deploy'.at = IF ok THEN "rolledback" ELSE "unrecovered"
  BY <1>1, <1>2, <1>4, Remembered, Running DEF DeploySteps
<1>7. ASSUME spent' = spent, spent.faults = 0, MirrorKnows
      PROVE  MirrorKnows' /\ Mirrored
  <2>1. m.phase = "ROLLING_BACK" /\ Alike(m, marker) /\ marker.current = marker.previous
    BY <1>1, <1>7 DEF MirrorKnows
  <2>2. ok /\ m2 = moved /\ marker' = moved
    BY <1>5, <1>7, <2>1, NoFault
  <2>3. /\ moved.candidate = marker.candidate /\ moved.boundary = marker.boundary
        /\ moved.previous = marker.previous /\ moved.current = marker.current
        /\ moved.phase = marker.phase /\ moved # None
    BY <1>1, <1>4, <2>1 DEF Alike, DeploymentAssumption
  <2>4. Transaction' = Transaction
    BY <1>1, <2>2, <2>3 DEF Transaction, Host
  <2>5. MirrorKnows'
    BY <1>1, <1>6, <1>7, <2>1, <2>2, <2>3 DEF MirrorKnows
  <2> QED BY <2>4, <2>5 DEF Mirrored
<1> QED BY <1>1, <1>5, <1>6, <1>7, DeployMirrors

LEMMA RollbackFailureMirrors ==
  ASSUME DeploymentAssumption, HostInv, HostInv', LedgerInv', MirrorInv, MarkRollbackFailure
  PROVE  MirrorInv' /\ (spent'.faults = 0 => Mirrored)
<1>1. /\ deploy # None /\ deploy.at = "unrecovered" /\ UNCHANGED <<run, pointers>> /\ DeployTyped
      /\ deploy.mem \in Markers /\ pointers.current \in Releases
      /\ marker # None => marker \in Markers
  BY AfterRecovery DEF MarkRollbackFailure, HostInv, FilesTyped
<1> DEFINE m == [deploy.mem EXCEPT !.rollback = "failed"]
           moved == Moved(m, "FAILED")
<1>2. /\ m \in Markers /\ Alike(m, deploy.mem) /\ m.phase = deploy.mem.phase
      /\ m.current = deploy.mem.current
  BY <1>1 DEF Markers, Alike
<1>3. PICK m2 \in {m, moved}, ok \in BOOLEAN :
        Transitioned(m, "FAILED", FALSE, m2, ok) /\ Remember(m2, "failed")
  BY Zenon DEF MarkRollbackFailure
<1>4. m.phase = "ROLLING_BACK" =>
        "FAILED" \in Contract!ALLOWED_TRANSITIONS[m.phase] /\ CanMove(m, "FAILED", FALSE)
  BY DEF CanMove, IsAllowed, Contract!ALLOWED_TRANSITIONS
<1>5. /\ moved \in Markers /\ moved.id = m.id /\ moved.phase = "FAILED"
      /\ moved.boundary = m.boundary /\ moved.candidate = m.candidate
      /\ moved.previous = m.previous /\ moved.current = m.current
  <2>1. moved.current = Contract!CurrentAfter(m, "FAILED")
    BY <1>2 DEF Moved, Markers
  <2> QED BY <1>2, <2>1, Phased, MovedFields DEF Contract!CurrentAfter
<1>6. /\ Alike(m, marker) /\ m.phase = marker.phase /\ m.current = marker.current
      /\ m.phase = "ROLLING_BACK" /\ marker \in Markers /\ marker' = moved
      => Mirrored
  BY <1>1, <1>2, <1>4, HostMoves, Phased
<1> HIDE DEF m, moved
<1>7. /\ Fault \/ spent' = spent
      /\ marker' = marker \/ marker' = m2
      /\ m.phase = "ROLLING_BACK" /\ ~Fault => m2 = moved /\ marker' = moved
  BY <1>3, <1>4, Zenon DEF Transitioned, moved
<1>8. deploy' # None /\ deploy'.mem = m2 /\ deploy'.at = "failed"
  BY <1>1, <1>2, <1>3, <1>5, Remembered, Running DEF DeploySteps
<1>9. ASSUME spent' = spent, spent.faults = 0, MirrorKnows
      PROVE  MirrorKnows' /\ Mirrored
  <2>1. /\ m.phase = "ROLLING_BACK" /\ Alike(m, marker) /\ m.current = marker.current
        /\ marker.phase \in {"ROLLING_BACK", "FAILED"}
    BY <1>1, <1>2, <1>9 DEF MirrorKnows, Alike
  <2>2. marker # None
    BY <1>1, <1>9 DEF MirrorKnows
  <2>3. m2 = moved /\ marker' = moved /\ moved # None
    BY <1>5, <1>7, <1>9, <2>1, NoFault DEF DeploymentAssumption
  <2>4. MirrorKnows'
    BY <1>5, <1>8, <1>9, <2>1, <2>2, <2>3 DEF MirrorKnows, Alike
  <2>5. CASE marker.phase = "ROLLING_BACK"
    BY <1>1, <1>6, <2>1, <2>2, <2>3, <2>4, <2>5
  <2>6. CASE marker.phase = "FAILED"
    <3>1. Transaction' = Transaction
      BY <1>1, <1>5, <2>1, <2>2, <2>3, <2>6 DEF Transaction, Host, Alike
    <3> QED BY <2>4, <3>1 DEF Mirrored
  <2> QED BY <2>1, <2>5, <2>6
<1> QED BY <1>1, <1>7, <1>8, <1>9, DeployMirrors

LEMMA LedgerMirrors ==
  ASSUME DeploymentAssumption, HostInv, HostInv', LedgerInv', MirrorInv, TakeLedger \/ WriteLedger
  PROVE  MirrorInv' /\ (spent'.faults = 0 => Mirrored)
<1>1. /\ deploy # None /\ deploy.at \in DOMAIN FactAt /\ DeployTyped
      /\ UNCHANGED <<marker, pointers, run, spent>> /\ deploy \in DeployRecords
  BY DEF TakeLedger, WriteLedger, HostInv, DeployTyped
<1>2. /\ deploy.at \in {"record", "rolledback", "failed", "trapfact"}
      /\ AfterFact[deploy.at] \in {"succeeded", "trapped", "ended"}
      /\ AfterFact[deploy.at] = "trapped" => deploy.at \in {"rolledback", "failed"}
  BY <1>1 DEF FactAt, AfterFact
<1>3. /\ deploy'.mem = deploy.mem /\ deploy' # None
      /\ \/ deploy'.at = deploy.at
         \/ deploy'.at \in {"succeeded", "ended"}
         \/ deploy'.at = "trapped" /\ deploy.at \in {"rolledback", "failed"}
  <2>1. CASE deploy' = [deploy EXCEPT !.holds = TRUE]
    <3>1. deploy' \in DeployRecords
      BY <1>1, <2>1 DEF DeployRecords
    <3> QED BY <1>1, <2>1, <3>1, Running DEF DeployRecords
  <2>2. CASE Goto(IF deploy.at = "record" THEN "ended" ELSE AfterFact[deploy.at])
    BY <1>1, <1>2, <2>2, Went, Running DEF DeploySteps
  <2>3. CASE deploy' = [deploy EXCEPT !.holds = FALSE, !.at = AfterFact[deploy.at]]
    <3>1. deploy' \in DeployRecords
      BY <1>1, <1>2, <2>3 DEF DeployRecords, DeploySteps
    <3> QED BY <1>1, <1>2, <2>3, <3>1, Running DEF DeployRecords
  <2> QED BY <2>1, <2>2, <2>3 DEF TakeLedger, WriteLedger
<1>4. MirrorKnows => MirrorKnows' /\ Mirrored
  BY <1>1, <1>2, <1>3, HostStays DEF MirrorKnows
<1> QED BY <1>1, <1>3, <1>4, DeployMirrors

\* A recovery keeps the run it works for, and its transaction.
LEMMA RecoveryMirrored ==
  ASSUME DeploymentAssumption, HostInv, HostInv', LedgerInv', MirrorInv,
         recovery # None, UNCHANGED <<deploy, run>>, Fault \/ spent' = spent,
         marker' # marker =>
           /\ marker # None /\ marker' # None /\ Alike(marker', marker)
           /\ marker'.phase \in {"ROLLING_BACK", "ROLLED_BACK", "FAILED"},
         spent' = spent /\ spent.faults = 0 /\ MirrorKnows => MirrorKnows' /\ Mirrored
  PROVE  MirrorInv' /\ (spent'.faults = 0 => Mirrored)
<1>1. RunsKnown'
  BY DEF MirrorInv, RunsKnown, Alike
<1>2. spent'.faults = 0 => MirrorKnows' /\ Mirrored
  BY NoFault DEF MirrorInv
<1> QED BY <1>1, <1>2 DEF MirrorInv

LEMMA RecoveryStays ==
  ASSUME DeploymentAssumption, HostInv, HostInv', LedgerInv', MirrorInv,
         recovery # None, recovery' # None, recovery.at \notin {"broken", "restored"},
         UNCHANGED <<marker, deploy, run>>, Fault \/ spent' = spent,
         pointers'.current = pointers.current \/ (marker # None /\ marker.previous # None)
  PROVE  MirrorInv' /\ (spent'.faults = 0 => Mirrored)
<1>1. deploy # None => deploy.at = "recovering"
  BY DEF HostInv, RecoveryTyped
<1>2. MirrorKnows => MirrorKnows' /\ Mirrored
  BY <1>1, HostStays DEF MirrorKnows
<1> QED BY <1>2, RecoveryMirrored

LEMMA RecoveryMoves ==
  ASSUME DeploymentAssumption, HostInv, HostInv', LedgerInv', MirrorInv,
         recovery # None, recovery' # None, marker \in Markers,
         UNCHANGED <<pointers, deploy, run>>, spent' = spent,
         NEW m \in Markers, Alike(m, marker), m.phase = marker.phase, m.current = marker.current,
         NEW phase, NEW explicit, CanMove(m, phase, explicit), marker' = Moved(m, phase),
         \/ phase = "ROLLING_BACK" /\ recovery'.at = "restart"
         \/ phase = "ROLLED_BACK" /\ recovery'.at = "restored"
         \/ phase = "FAILED" /\ recovery'.at = "broken",
         MirrorKnows /\ deploy # None => marker.phase = "ROLLING_BACK"
  PROVE  MirrorInv' /\ (spent'.faults = 0 => Mirrored)
<1>1. phase \in Phases /\ pointers.current \in Releases
  BY Phased DEF HostInv, FilesTyped
<1>2. /\ marker' \in Markers /\ marker'.phase = phase /\ Alike(marker', marker)
      /\ marker'.current = IF phase = "ROLLED_BACK" THEN marker.previous ELSE marker.current
      /\ marker # None /\ marker' # None
  <2>1. marker'.current = Contract!CurrentAfter(m, phase)
    BY DEF Moved, Markers
  <2>2. marker' \in Markers /\ marker'.phase = phase /\ Alike(marker', marker)
    BY <1>1, MovedFields DEF Alike
  <2> QED BY <2>1, <2>2 DEF Contract!CurrentAfter, Alike, DeploymentAssumption
<1>3. /\ \/ phase \in Contract!ALLOWED_TRANSITIONS[m.phase]
         \/ m.phase = "COMMITTED" /\ phase = "ROLLING_BACK"
      /\ phase = "ROLLING_BACK" => m.boundary
  BY Permitted
<1>4. MirrorKnows /\ marker.phase = "COMMITTED" => SmokeMayFail \/ marker.id # run.id
  BY <1>2 DEF MirrorInv, RunsKnown
<1>5. MirrorKnows => Mirrored
  BY <1>1, <1>3, <1>4, HostMoves
<1>6. deploy # None => deploy.at = "recovering"
  BY DEF HostInv, RecoveryTyped
<1>7. MirrorKnows => MirrorKnows'
  BY <1>2, <1>6 DEF MirrorKnows, Alike
<1> QED BY <1>2, <1>5, <1>7, RecoveryMirrored

LEMMA RecoveryMirrors ==
  ASSUME DeploymentAssumption, HostInv, HostInv', LedgerInv', MirrorInv, RecoveryWork
  PROVE  MirrorInv' /\ (spent'.faults = 0 => Mirrored)
<1>1. /\ recovery # None /\ UNCHANGED <<deploy, run>> /\ RecoveryTyped
      /\ recovery.at \notin {"broken", "restored"}
  BY DEF RecoveryWork, Select, Begin, Restart, Demote, Promote, Republish, MarkRestored,
         MarkUnready, HostInv
<1>2. ASSUME NEW step \in RecoverySteps, RecoveryGoto(step) PROVE recovery' # None
  BY <1>1, <1>2, RecoveryWent, Recovering
<1>3. ASSUME NEW m \in Markers, NEW step \in RecoverySteps, RecoveryRemembers(m, step)
      PROVE  recovery' # None /\ recovery'.at = step
  BY <1>1, <1>3, RecoveryRemembered, Recovering
<1>4. CASE Select \/ Restart \/ Demote
  <2>1. UNCHANGED <<marker, spent>> /\ pointers'.current = pointers.current
    BY <1>4 DEF Select, Restart, Demote, RecoveryFails, HostInv, FilesTyped
  <2>2. recovery' # None
    <3>1. CASE \E step \in {"broken", "demote", "unready", "promote"} : RecoveryGoto(step)
      BY <1>2, <3>1 DEF RecoverySteps
    <3>2. CASE /\ marker \in Markers /\ pointers.previous \in Releases
               /\ recovery' = [mem |-> marker, target |-> pointers.previous, at |->
                               IF marker.phase = "ROLLED_BACK" \/ ~marker.boundary
                               THEN "restored" ELSE "begin"]
      <4>1. recovery' \in RecoveryRecords
        BY <3>2 DEF RecoveryRecords, RecoverySteps
      <4> QED BY <4>1, Recovering
    <3> QED BY <1>4, <3>1, <3>2 DEF Select, Restart, Demote, RecoveryFails, HostInv, FilesTyped
  <2> QED BY <1>1, <2>1, <2>2, RecoveryStays
<1>5. CASE Promote \/ Republish
  <2>1. /\ UNCHANGED <<marker, spent>> /\ marker # None /\ marker.previous # None
        /\ \E step \in {"unready", "republish", "restored?"} : RecoveryGoto(step)
    BY <1>1, <1>5, RecoveringMarker DEF Promote, Republish, Restoring, HostInv, Recoverable
  <2> QED BY <1>1, <1>2, <2>1, RecoveryStays DEF RecoverySteps
<1>6. CASE Begin
  <2>1. /\ recovery.at = "begin" /\ recovery.mem = marker /\ marker \in Markers
        /\ UNCHANGED pointers
    BY <1>1, <1>6, RecoveringMarker DEF Begin
  <2>2. CASE marker.phase = "ROLLING_BACK"
    BY <1>1, <1>2, <1>6, <2>1, <2>2, RecoveryStays DEF Begin, RecoverySteps
  <2>3. CASE marker.phase # "ROLLING_BACK"
    <3> DEFINE m == [marker EXCEPT !.rollback = "running"]
    <3>1. PICK m2 \in {m, Moved(m, "ROLLING_BACK")}, ok \in BOOLEAN :
            /\ Transitioned(m, "ROLLING_BACK", TRUE, m2, ok)
            /\ RecoveryRemembers(m2, IF ok THEN "restart" ELSE "broken")
      BY <1>6, <2>1, <2>3, Zenon DEF Begin
    <3>2. /\ m \in Markers /\ Alike(m, marker) /\ m.phase = marker.phase
          /\ m.current = marker.current
      BY <2>1 DEF Markers, Alike
    <3> HIDE DEF m
    <3>3. m2 \in Markers
      BY <3>1, <3>2, MovedFields, Phased
    <3>4. recovery' # None /\ recovery'.at = IF ok THEN "restart" ELSE "broken"
      BY <1>3, <3>1, <3>3 DEF RecoverySteps
    <3>5. /\ Fault \/ spent' = spent
          /\ \/ /\ CanMove(m, "ROLLING_BACK", TRUE) /\ ok
                /\ marker' = Moved(m, "ROLLING_BACK") /\ spent' = spent
             \/ marker' = marker
      BY <3>1, Zenon DEF Transitioned
    <3>6. MirrorKnows /\ deploy # None => marker.phase = "ROLLING_BACK"
      BY <1>1, <2>1 DEF MirrorKnows, HostInv, RecoveryTyped
    <3>7. CASE marker' = marker
      BY <1>1, <2>1, <3>4, <3>5, <3>7, RecoveryStays
    <3>8. CASE /\ CanMove(m, "ROLLING_BACK", TRUE) /\ ok
               /\ marker' = Moved(m, "ROLLING_BACK") /\ spent' = spent
      BY <1>1, <2>1, <3>2, <3>4, <3>6, <3>8, RecoveryMoves
    <3> QED BY <3>5, <3>7, <3>8
  <2> QED BY <2>2, <2>3
<1>7. CASE MarkRestored
  <2>1. /\ recovery.mem = marker /\ marker \in Markers /\ marker.phase = "ROLLING_BACK"
        /\ UNCHANGED pointers
    BY <1>1, <1>7, RecoveringMarker DEF MarkRestored, Restoring
  <2>2. PICK m2 \in {marker, Moved(marker, "ROLLED_BACK")}, ok \in BOOLEAN :
          /\ Transitioned(marker, "ROLLED_BACK", TRUE, m2, ok)
          /\ RecoveryRemembers(m2, IF ok THEN "restored" ELSE "broken")
    BY <1>7, <2>1, Zenon DEF MarkRestored
  <2>3. m2 \in Markers
    BY <2>1, <2>2, MovedFields, Phased
  <2>4. recovery' # None /\ recovery'.at = IF ok THEN "restored" ELSE "broken"
    BY <1>3, <2>2, <2>3 DEF RecoverySteps
  <2>5. /\ Fault \/ spent' = spent
        /\ \/ /\ CanMove(marker, "ROLLED_BACK", TRUE) /\ ok
              /\ marker' = Moved(marker, "ROLLED_BACK") /\ spent' = spent
           \/ marker' = marker
    BY <2>2, Zenon DEF Transitioned
  <2>6. CASE marker' = marker
    BY <1>1, <2>1, <2>4, <2>5, <2>6, RecoveryStays
  <2>7. CASE /\ CanMove(marker, "ROLLED_BACK", TRUE) /\ ok
             /\ marker' = Moved(marker, "ROLLED_BACK") /\ spent' = spent
    BY <1>1, <2>1, <2>4, <2>7, RecoveryMoves DEF Alike
  <2> QED BY <2>5, <2>6, <2>7
<1>8. CASE MarkUnready
  <2>1. /\ recovery.mem = marker /\ marker \in Markers /\ marker.phase = "ROLLING_BACK"
        /\ UNCHANGED pointers
    BY <1>1, <1>8, RecoveringMarker DEF MarkUnready, Restoring
  <2> DEFINE m == [marker EXCEPT !.rollback = "failed"]
  <2>2. PICK m2 \in {m, Moved(m, "FAILED")}, ok \in BOOLEAN :
          Transitioned(m, "FAILED", TRUE, m2, ok) /\ RecoveryRemembers(m2, "broken")
    BY <1>8, <2>1, Zenon DEF MarkUnready
  <2>3. /\ m \in Markers /\ Alike(m, marker) /\ m.phase = marker.phase
        /\ m.current = marker.current
    BY <2>1 DEF Markers, Alike
  <2> HIDE DEF m
  <2>4. m2 \in Markers
    BY <2>2, <2>3, MovedFields, Phased
  <2>5. recovery' # None /\ recovery'.at = "broken"
    BY <1>3, <2>2, <2>4 DEF RecoverySteps
  <2>6. /\ Fault \/ spent' = spent
        /\ \/ CanMove(m, "FAILED", TRUE) /\ marker' = Moved(m, "FAILED") /\ spent' = spent
           \/ marker' = marker
    BY <2>2, Zenon DEF Transitioned
  <2>7. CASE marker' = marker
    BY <1>1, <2>1, <2>5, <2>6, <2>7, RecoveryStays
  <2>8. CASE CanMove(m, "FAILED", TRUE) /\ marker' = Moved(m, "FAILED") /\ spent' = spent
    BY <1>1, <2>1, <2>3, <2>5, <2>8, RecoveryMoves
  <2> QED BY <2>6, <2>7, <2>8
<1> QED BY <1>4, <1>5, <1>6, <1>7, <1>8 DEF RecoveryWork

LEMMA EndRecoveryMirrors ==
  ASSUME DeploymentAssumption, HostInv, HostInv', LedgerInv', MirrorInv, EndRecovery
  PROVE  MirrorInv' /\ (spent'.faults = 0 => Mirrored)
<1>1. /\ UNCHANGED <<marker, pointers, spent>> /\ recovery # None /\ recovery' = None
      /\ Mirrored
  BY HostStays DEF EndRecovery
<1>2. CASE deploy = None
  <2>1. deploy' = None /\ run'.id = run.id /\ run'.release = run.release
        /\ run'.stage \in {"done", run.stage}
    BY <1>2 DEF EndRecovery, HostInv, WorkflowTyped
  <2>2. RunsKnown'
    BY <1>1, <2>1 DEF MirrorInv, RunsKnown
  <2>3. MirrorKnows => MirrorKnows'
    BY <1>1, <2>1 DEF MirrorKnows
  <2> QED BY <1>1, <2>2, <2>3 DEF MirrorInv
<1>3. CASE deploy # None
  <2>1. /\ deploy.at = "recovering" /\ UNCHANGED run /\ DeployTyped
        /\ Goto(IF recovery.at = "restored" THEN "recovered" ELSE "unrecovered")
        /\ recovery.at \in {"restored", "broken"}
    BY <1>3 DEF EndRecovery, HostInv, RecoveryTyped
  <2>2. /\ deploy'.mem = deploy.mem /\ deploy' # None
        /\ deploy'.at = IF recovery.at = "restored" THEN "recovered" ELSE "unrecovered"
    BY <1>3, <2>1, Went, Running DEF DeploySteps
  <2>3. MirrorKnows => MirrorKnows'
    BY <1>1, <1>3, <2>1, <2>2 DEF MirrorKnows
  <2> QED BY <1>1, <1>3, <2>1, <2>2, <2>3, DeployMirrors
<1> QED BY <1>2, <1>3

\* Steps of the workflow, and the ends of a process: the files stay.
LEMMA QuietMirrors ==
  ASSUME MirrorInv, UNCHANGED <<marker, pointers>>, deploy' = None,
         spent'.faults = spent.faults,
         run'.id = run.id, run'.release = run.release,
         recovery' # None => run'.stage = "rollback",
         \/ run'.stage \in {run.stage, "done"}
         \/ SmokeMayFail
         \/ ~(marker # None /\ marker.id = run.id /\ marker.candidate = run.release
              /\ marker.phase = "COMMITTED")
  PROVE  MirrorInv' /\ (spent'.faults = 0 => Mirrored)
<1>1. RunsKnown'
  BY DEF MirrorInv, RunsKnown
<1>2. MirrorKnows => MirrorKnows'
  BY DEF MirrorKnows
<1>3. Mirrored
  BY HostStays
<1> QED BY <1>1, <1>2, <1>3 DEF MirrorInv

LEMMA StartRunMirrors ==
  ASSUME DeploymentAssumption, HostInv, LedgerInv, MirrorInv,
         NEW release \in Releases, StartRun(release)
  PROVE  MirrorInv' /\ (spent'.faults = 0 => Mirrored)
<1>1. /\ UNCHANGED <<marker, pointers, recovery>> /\ spent'.faults = spent.faults
      /\ deploy' = [at |-> "checkout", mem |-> None, replaced |-> None, holds |-> FALSE]
      /\ run'.stage = "deploying" /\ run'.id = run.id + 1 /\ recovery = None
  BY DEF StartRun, Quiet, LedgerInv, RunsCounted, HostInv, WorkflowTyped
<1>2. marker # None => marker.id # run'.id
  BY <1>1 DEF LedgerInv, RunsCounted, HostInv, FilesTyped, Markers, Ids, WorkflowTyped
<1>3. RunsKnown'
  BY <1>1, <1>2 DEF RunsKnown
<1>4. MirrorKnows => MirrorKnows'
  BY <1>1 DEF MirrorKnows
<1>5. Mirrored
  BY <1>1, HostStays
<1> QED BY <1>1, <1>3, <1>4, <1>5 DEF MirrorInv

LEMMA MirrorStarts == DeploymentInit => MirrorInv
BY DEF DeploymentInit, MirrorInv, RunsKnown, MirrorKnows

LEMMA MirrorKept ==
  ASSUME DeploymentAssumption, HostInv, HostInv', LedgerInv, LedgerInv', MirrorInv,
         [DeploymentNext]_deployVars
  PROVE  MirrorInv' /\ (spent'.faults = 0 => Mirrored)
<1>1. CASE \E release \in Releases : StartRun(release)
  BY <1>1, StartRunMirrors
<1>2. CASE NoticeKilledDeployment \/ EndDeploy
  <2>1. \E succeeded \in BOOLEAN : EndOfDeployment(succeeded)
    BY <1>2 DEF NoticeKilledDeployment, EndDeploy
  <2>2. /\ run'.id = run.id /\ run'.release = run.release
        /\ run'.stage = "done" \/ SmokeMayFail \/ ~ProvenCommitted
    BY <2>1 DEF EndOfDeployment, HostInv, WorkflowTyped
  <2>3. /\ UNCHANGED <<marker, pointers, spent>> /\ deploy' = None
        /\ recovery' = None
    BY <1>2 DEF NoticeKilledDeployment, EndDeploy, Quiet, HostInv, RecoveryTyped
  <2> QED BY <2>2, <2>3, QuietMirrors DEF ProvenCommitted
<1>3. CASE StartRollback
  <2>1. /\ UNCHANGED <<marker, pointers, run>> /\ deploy' = None /\ run.stage = "rollback"
        /\ spent'.faults = spent.faults
    BY <1>3 DEF StartRollback, Quiet, HostInv, WorkflowTyped
  <2> QED BY <2>1, QuietMirrors
<1>4. CASE GiveUp
  <2>1. /\ UNCHANGED <<marker, pointers, spent>> /\ deploy' = None /\ recovery' = None
        /\ run'.id = run.id /\ run'.release = run.release /\ run'.stage = "done"
    BY <1>4 DEF GiveUp, Quiet, HostInv, WorkflowTyped
  <2> QED BY <2>1, QuietMirrors
<1>5. CASE Crash
  <2>1. /\ UNCHANGED <<marker, pointers, run>> /\ deploy' = None /\ recovery' = None
        /\ spent'.faults = spent.faults
    BY <1>5 DEF Crash, HostInv, WorkflowTyped
  <2> QED BY <2>1, QuietMirrors
<1>6. CASE UNCHANGED deployVars
  <2>1. RunsKnown' /\ (MirrorKnows => MirrorKnows')
    BY <1>6 DEF MirrorInv, RunsKnown, MirrorKnows, deployVars
  <2> QED BY <1>6, <2>1, HostStays DEF MirrorInv, deployVars
<1> QED BY <1>1, <1>2, <1>3, <1>4, <1>5, <1>6, WorkMirrors, LedgerMirrors, MarkFailureMirrors,
     BeginMirrors, RolledBackMirrors, RollbackFailureMirrors, TrapMirrors, RecoveryMirrors,
     EndRecoveryMirrors DEF DeploymentNext, HostStep

\* Only a failed write of the marker counts as a fault.
LEMMA FaultsCounted ==
  ASSUME HostInv, [DeploymentNext]_deployVars
  PROVE  spent'.faults = spent.faults \/ Fault
<1>1. CASE (\E release \in Releases : StartRun(release)) \/ StartRollback \/ Crash
  BY <1>1 DEF StartRun, StartRollback, Crash, HostInv, WorkflowTyped
<1>2. CASE NoticeKilledDeployment \/ GiveUp \/ EndDeploy \/ EndRecovery \/ TakeLedger \/ WriteLedger
  BY <1>2, Zenon DEF NoticeKilledDeployment, GiveUp, EndDeploy, EndRecovery, TakeLedger, WriteLedger
<1>3. CASE DeployWork
  <2>1. ASSUME NEW from, NEW phase, NEW to, Step(from, phase, to) PROVE Fault \/ spent' = spent
    BY <2>1, StepCases
  <2> QED BY <1>3, <2>1, Zenon DEF DeployWork, Checkout, CapturePrevious, Identify, PrepareArtifact,
       Prepare, CrossBoundary, MigrateAndStop, StartCandidate, RecordActivated, Probe,
       RecordVerified, ActivatePointer, PublishPending, Commit, FailTo
<1>4. CASE MarkFailure \/ Trap
  BY <1>4, FailedCases, Zenon DEF MarkFailure, Trap
<1>5. CASE BeginRollback \/ MarkRolledBack \/ MarkRollbackFailure
  BY <1>5, TransitionedCases, Zenon DEF BeginRollback, MarkRolledBack, MarkRollbackFailure
<1>6. CASE RecoveryWork
  BY <1>6, TransitionedCases, Zenon DEF RecoveryWork, Select, Begin, Restart, Demote, Promote,
     Republish, MarkRestored, MarkUnready, RecoveryFails
<1>7. CASE UNCHANGED deployVars
  BY <1>7 DEF deployVars
<1> QED BY <1>1, <1>2, <1>3, <1>4, <1>5, <1>6, <1>7 DEF DeploymentNext, HostStep

\* The first run is rolled back to the one executor's letter: its own commit is
\* not taken back once its smoke tests cannot reject it.
LEMMA FirstRunMirrors ==
  ASSUME DeploymentAssumption, HostInv, LedgerInv, ~SmokeMayFail, spent.runs <= 1, Mirrored
  PROVE  [Mirror!ContractNext]_Transaction
<1>1. ~ExplicitRollback
  BY DEF ExplicitRollback, HostInv, FilesTyped, WorkflowTyped, Markers, Ids, LedgerInv, RunsCounted
<1> QED BY <1>1 DEF Mirrored

-----------------------------------------------------------------------------
(* The theorems *)

\* On every host and for every bound, what each process knows of the files is
\* so at each of its steps: the inductive invariant of the deployment
\* (deploy-runtime-executor.sh, recovery-executor, the workflow jobs).
THEOREM HostIsSound == DeploymentAssumption => (DeploymentSpec => []HostInv)
<1> SUFFICES ASSUME DeploymentAssumption PROVE DeploymentSpec => []HostInv
  OBVIOUS
<1>1. DeploymentInit => HostInv
  BY InitSound
<1>2. HostInv /\ [DeploymentNext]_deployVars => HostInv'
  BY NextSound
<1> QED BY <1>1, <1>2, PTL DEF DeploymentSpec

\* The marker, the pointers, the image states, the ledger and the processes'
\* memories always have their types (deployment-phase.env, release state).
THEOREM DeploymentTyped == DeploymentAssumption => (DeploymentSpec => []DeploymentTypeOK)
<1> SUFFICES ASSUME DeploymentAssumption PROVE DeploymentSpec => []DeploymentTypeOK
  OBVIOUS
<1>1. HostInv => DeploymentTypeOK
  BY DEF HostInv, FilesTyped, WorkflowTyped, DeployTyped, RecoveryTyped, DeploymentTypeOK
<1> QED BY <1>1, HostIsSound, PTL

\* A committed transaction's candidate is what runs and what every file names;
\* after a rollback the files agree with the containers, however often the
\* deployment or its rollback was killed (deployment_transaction_transition).
THEOREM TerminalAlwaysLive == DeploymentAssumption => (DeploymentSpec => []TerminalIsLive)
<1> SUFFICES ASSUME DeploymentAssumption PROVE DeploymentSpec => []TerminalIsLive
  OBVIOUS
<1>1. HostInv => TerminalIsLive
  BY DEF HostInv
<1> QED BY <1>1, HostIsSound, PTL

\* Wherever a transaction past its boundary stops, a recovery finds its
\* artifact and a stored previous release (persist_artifact before SWITCHING).
THEOREM RecoveryAlwaysPossible == DeploymentAssumption => (DeploymentSpec => []AlwaysRecoverable)
<1> SUFFICES ASSUME DeploymentAssumption PROVE DeploymentSpec => []AlwaysRecoverable
  OBVIOUS
<1>1. HostInv => AlwaysRecoverable
  BY DEF HostInv, Recoverable, AlwaysRecoverable
<1> QED BY <1>1, HostIsSound, PTL

\* Nothing live changes before the marker on disk says the boundary of an
\* unfinished transaction was crossed (the SWITCHING transition precedes the
\* migrations, and a recovery writes ROLLING_BACK before it restarts anything).
THEOREM BoundaryIsFirst == DeploymentAssumption => (DeploymentSpec => BoundaryFirst)
<1> SUFFICES ASSUME DeploymentAssumption PROVE DeploymentSpec => BoundaryFirst
  OBVIOUS
<1>1. HostInv /\ [DeploymentNext]_deployVars =>
        [\/ UNCHANGED <<serving, pointers.current, images.current>>
         \/ /\ marker # None /\ marker.boundary
            /\ marker.phase \notin {"PREPARED", "COMMITTED", "ROLLED_BACK"}]_deployVars
  BY LiveChanges
<1> QED BY <1>1, HostIsSound, PTL DEF DeploymentSpec, BoundaryFirst

\* The ledger never contradicts the marker of its transaction, whatever the
\* runs, rollbacks, failed writes and kills between the transition and the
\* append (deployment_ledger_lock_and_append): a run records facts of its own
\* transaction alone, at most one of them while it is deployed.
THEOREM LedgerNeverContradicts ==
  DeploymentAssumption => (DeploymentSpec => []LedgerFollowsMarker)
<1> SUFFICES ASSUME DeploymentAssumption PROVE DeploymentSpec => []LedgerFollowsMarker
  OBVIOUS
<1>1. DeploymentInit => LedgerInv
  BY LedgerStarts
<1>2. HostInv /\ LedgerInv /\ [DeploymentNext]_deployVars => LedgerInv'
  BY LedgerKept
<1>3. LedgerInv => LedgerFollowsMarker
  BY DEF LedgerInv
<1> QED BY <1>1, <1>2, <1>3, HostIsSound, PTL DEF DeploymentSpec

\* On every host and for every bound, what each process knows of the marker
\* beyond HostInv and LedgerInv, and what the mirror needs, is so.
LEMMA MirrorAlways == DeploymentAssumption => (DeploymentSpec => [](LedgerInv /\ MirrorInv))
<1> SUFFICES ASSUME DeploymentAssumption PROVE DeploymentSpec => [](LedgerInv /\ MirrorInv)
  OBVIOUS
<1>1. DeploymentInit => LedgerInv /\ MirrorInv
  BY LedgerStarts, MirrorStarts
<1>2. HostInv /\ HostInv' /\ LedgerInv /\ MirrorInv /\ [DeploymentNext]_deployVars
        => LedgerInv' /\ MirrorInv'
  BY LedgerKept, MirrorKept
<1> QED BY <1>1, <1>2, HostIsSound, PTL DEF DeploymentSpec

\* The host mirrors the repository's abstract executor (production-executor-
\* scenario.mjs), however its runs, rollbacks and kills fall: until a write of
\* the marker fails, each of its steps is a transition of the abstract executor,
\* is not seen by it, or is the explicit rollback of a committed transaction
\* that the abstract executor does not know.
THEOREM HostMirrorsExecutor == DeploymentAssumption => (DeploymentSpec => MirroredBesides)
<1> SUFFICES ASSUME DeploymentAssumption PROVE DeploymentSpec => MirroredBesides
  OBVIOUS
<1>1. DeploymentInit => Mirror!ContractInit
  BY DEF DeploymentInit, Mirror!ContractInit, Transaction
<1>2. HostInv /\ HostInv' /\ LedgerInv /\ LedgerInv' /\ MirrorInv /\ [DeploymentNext]_deployVars
        => [spent'.faults = 0 => Mirror!ContractNext \/ ExplicitRollback]_Transaction
  BY MirrorKept, Zenon DEF Mirrored
<1> QED BY <1>1, <1>2, HostIsSound, MirrorAlways, PTL DEF DeploymentSpec, MirroredBesides

\* The first deployment of a host whose writes succeed and whose smoke tests
\* pass is one of the abstract executor, rollbacks and kills included.
THEOREM FirstRunIsExecutor ==
  DeploymentAssumption /\ ~SmokeMayFail /\ MaxFaults = 0 =>
    (DeploymentSpec /\ [](spent.runs <= 1) => Mirror!ContractSpec)
<1> SUFFICES ASSUME DeploymentAssumption, ~SmokeMayFail, MaxFaults = 0
             PROVE  DeploymentSpec /\ [](spent.runs <= 1) => Mirror!ContractSpec
  OBVIOUS
<1>1. DeploymentInit => Mirror!ContractInit /\ spent.faults = 0
  BY DEF DeploymentInit, Mirror!ContractInit, Transaction
<1>2. HostInv /\ spent.faults = 0 /\ [DeploymentNext]_deployVars => (spent.faults = 0)'
  BY FaultsCounted DEF Fault
<1>3. /\ HostInv /\ HostInv' /\ LedgerInv /\ LedgerInv' /\ MirrorInv
      /\ spent.faults = 0 /\ spent.runs <= 1 /\ [DeploymentNext]_deployVars
      => [Mirror!ContractNext]_Transaction
  BY <1>2, MirrorKept, FirstRunMirrors
<1> QED BY <1>1, <1>2, <1>3, HostIsSound, MirrorAlways, PTL DEF DeploymentSpec, Mirror!ContractSpec

-----------------------------------------------------------------------------
(* The promotion of a Release Candidate. Its steps come in one order; a step  *)
(* is next when none ahead of it is left. So what the invariant says of a     *)
(* step that is no longer left holds whenever a later one runs.               *)

\* The places of the steps the proofs speak of.
LEMMA StepOrder ==
  /\ PromotionGates \subseteq Steps /\ ResumeReusable \subseteq Steps
  /\ PlainChecks \subseteq Steps
  /\ {"verify-promotion-identity", "ensure-windows-prepromotion-evidence",
      "wait-production-deploy", "verify-production-host-state"} \subseteq Steps
  /\ PromotionGates \subseteq Ahead["tag-production"]
  /\ "tag-production" \in Ahead["wait-production-deploy"]
  /\ {"tag-production", "wait-production-deploy"} \subseteq Ahead["verify-production-host-state"]
<1>1. /\ \A i \in 1..14 : i \in DOMAIN Order
      /\ Order[1] = "resolve-release-candidate" /\ Order[2] = "verify-clean-repos"
      /\ Order[3] = "verify-promotion-identity" /\ Order[4] = "deploy-staging"
      /\ Order[5] = "ensure-windows-prepromotion-evidence"
      /\ Order[6] = "verify-staging-exact" /\ Order[7] = "verify-candidate-tooling"
      /\ Order[8] = "production-readiness" /\ Order[9] = "release-preflight"
      /\ Order[10] = "tag-production" /\ Order[11] = "wait-production-deploy"
      /\ Order[12] = "verify-production-host-state"
      /\ Order[13] = "verify-production-health"
      /\ Order[14] = "report-residual-actions-runs"
  BY DEF Order
<1>2. \A i \in 1..14 : Order[i] \in Steps
  BY <1>1 DEF Steps, Range
<1>3. \A i, j \in 1..14 : i < j => Order[i] \in Ahead[Order[j]]
  BY <1>1, <1>2 DEF Ahead
<1>4. PromotionGates \subseteq Steps /\ ResumeReusable \subseteq Steps /\ PlainChecks \subseteq Steps
  BY <1>1, <1>2 DEF PromotionGates, ResumeReusable, PlainChecks
<1>5. "verify-promotion-identity" \in Steps /\ "ensure-windows-prepromotion-evidence" \in Steps
      /\ "wait-production-deploy" \in Steps /\ "verify-production-host-state" \in Steps
  BY <1>1, <1>2
<1>6. \A i \in {2, 6, 7, 8, 9} : Order[i] \in Ahead["tag-production"]
  BY <1>1, <1>3
<1>7. PromotionGates \subseteq Ahead["tag-production"]
  BY <1>1, <1>6 DEF PromotionGates
<1>8. "tag-production" \in Ahead["wait-production-deploy"]
  BY <1>1, <1>3
<1>9. "tag-production" \in Ahead["verify-production-host-state"]
      /\ "wait-production-deploy" \in Ahead["verify-production-host-state"]
  BY <1>1, <1>3
<1> QED BY <1>4, <1>5, <1>7, <1>8, <1>9

-----------------------------------------------------------------------------
StateTyped ==
    state \in [Candidates -> [tag : Maybe(Tags), done : [Steps -> {"none", "success", "failed"}]]]

\* A promotion is bound to its candidate's tag, and its gates are to come or passed;
\* where the tag was made, the checkout has it at the candidate.
RecordInv ==
    /\ \A c \in Candidates :
         state[c].done["tag-production"] = "success" =>
             state[c].tag \in Tags /\ tags[state[c].tag].local = c
    /\ command # None =>
         /\ SameTag(command.rc, command.tag)
         /\ \A g \in PromotionGates :
              g \in command.rest \/ state[command.rc].done[g] = "success"
         /\ command.tagging = "tagged" => tags[command.tag].local = command.rc

RunsHaveTags ==
    \A t \in Tags : workflow[t].status # "none" => tags[t].remote # None

OnlyTag == \A t \in Tags \ {command.tag} : tags[t].remote = None

\* What a whole promotion has behind it.
WholeInv ==
    command # None /\ ~command.local /\ command.how \in {"all", "resume"} =>
      /\ "tag-production" \in command.rest \/ tags[command.tag].local = command.rc
      /\ "wait-production-deploy" \in command.rest \/ RunOf(command.tag) = "success"
      /\ \/ "verify-production-host-state" \in command.rest
         \/ /\ "wait-production-deploy" \notin command.rest
            /\ OnlyTag => /\ host.release = command.rc /\ host.phase = "COMMITTED"
                          /\ ~host.attempted

ReleaseInv == ReleaseTypeOK /\ RecordInv /\ RunsHaveTags /\ WholeInv

LocalsStay ==
    \A t \in Tags : tags[t].local # None => tags'[t].local = tags[t].local

LEMMA WhatIsWritten ==
  ASSUME StateTyped, command \in Commands, NEW step \in Steps,
         NEW outcome \in {"success", "failed"}
  PROVE  LET w == Written(step, outcome) IN
         /\ w \in [Candidates -> [tag : Maybe(Tags), done : [Steps -> {"none", "success", "failed"}]]]
         /\ w[command.rc].tag = command.tag /\ w[command.rc].done[step] = outcome
         /\ \A s \in Steps \ {step} : w[command.rc].done[s] = state[command.rc].done[s]
         /\ \A c \in Candidates \ {command.rc} : w[c] = state[c]
<1> DEFINE Row == [tag : Maybe(Tags), done : [Steps -> {"none", "success", "failed"}]]
           rc == command.rc
           w == Written(step, outcome)
           row == [tag |-> command.tag, done |-> [state[rc].done EXCEPT ![step] = outcome]]
<1>1. rc \in Candidates /\ command.tag \in Maybe(Tags)
  BY DEF Commands, Maybe
<1>2. state \in [Candidates -> Row] /\ state[rc] \in Row
  BY <1>1 DEF StateTyped
<1>3. row \in Row
  BY <1>1, <1>2
<1>4. w = [state EXCEPT ![rc] = row]
  BY DEF Written
<1> HIDE DEF w, Row, row
<1>5. /\ w \in [Candidates -> Row] /\ w[rc] = row
      /\ \A c \in Candidates \ {rc} : w[c] = state[c]
  BY <1>1, <1>2, <1>3, <1>4
<1>6. /\ row.tag = command.tag /\ row.done[step] = outcome
      /\ \A s \in Steps \ {step} : row.done[s] = state[rc].done[s]
  BY <1>2 DEF row, Row
<1> QED BY <1>5, <1>6 DEF w, Row

LEMMA PassesRecords ==
  ASSUME ReleaseAssumption, StateTyped, command \in Maybe(Commands), RecordInv, LocalsStay,
         NEW step \in Steps, IsNext(step), Passes(step),
         step = "tag-production" => tags'[command.tag].local = command.rc
  PROVE  /\ StateTyped' /\ command' \in Commands /\ RecordInv'
         /\ command'.rc = command.rc /\ command'.tag = command.tag
         /\ command'.how = command.how /\ command'.local = command.local
         /\ command'.rest = command.rest \ {step}
<1>1. command \in Commands
  BY DEF IsNext, Maybe
<1>2. /\ command' \in Commands /\ command'.tagging = "none"
      /\ command'.rc = command.rc /\ command'.tag = command.tag
      /\ command'.how = command.how /\ command'.local = command.local
      /\ command'.rest = command.rest \ {step}
  BY <1>1 DEF Passes, Commands
<1>3. /\ StateTyped'
      /\ state'[command.rc].tag = command.tag /\ state'[command.rc].done[step] = "success"
      /\ \A s \in Steps \ {step} : state'[command.rc].done[s] = state[command.rc].done[s]
      /\ \A c \in Candidates \ {command.rc} : state'[c] = state[c]
  BY <1>1, WhatIsWritten DEF Passes, StateTyped
<1>4. SameTag(command.rc, command.tag)
  BY <1>1 DEF RecordInv, IsNext
<1>5. ASSUME NEW c \in Candidates, state'[c].done["tag-production"] = "success"
      PROVE  state'[c].tag \in Tags /\ tags'[state'[c].tag].local = c
  <2>0. c # None /\ None \notin Tags /\ command.rc \in Candidates /\ command.tag \in Tags
    BY <1>1 DEF ReleaseAssumption, Commands
  <2>1. CASE c # command.rc
    BY <1>3, <1>5, <2>0, <2>1 DEF RecordInv, LocalsStay
  <2>2. CASE c = command.rc /\ step = "tag-production"
    BY <1>1, <1>3, <2>0, <2>2 DEF Commands
  <2>3. CASE c = command.rc /\ step # "tag-production"
    <3>1. state[c].done["tag-production"] = "success"
      BY <1>3, <1>5, <2>3, StepOrder DEF ResumeReusable
    <3> QED BY <1>3, <1>4, <2>0, <2>3, <3>1 DEF RecordInv, LocalsStay, SameTag
  <2> QED BY <2>1, <2>2, <2>3
<1>6. ASSUME NEW g \in PromotionGates
      PROVE  g \in command'.rest \/ state'[command'.rc].done[g] = "success"
  <2>1. g \in Steps /\ (g \in command.rest \/ state[command.rc].done[g] = "success")
    BY <1>1, StepOrder DEF RecordInv, IsNext
  <2> QED BY <1>2, <1>3, <2>1
<1>7. SameTag(command.rc, command.tag)'
  BY <1>2, <1>3 DEF SameTag
<1> QED BY <1>2, <1>3, <1>5, <1>6, <1>7 DEF RecordInv

LEMMA FailsRecords ==
  ASSUME ReleaseAssumption, StateTyped, command \in Maybe(Commands), RecordInv, LocalsStay,
         NEW step \in Steps, command # None, Fails(step)
  PROVE  /\ StateTyped' /\ command' = None /\ RecordInv'
<1>1. command \in Commands
  BY DEF IsNext, Maybe
<1>2. command' = None
  BY DEF Fails
<1>3. /\ StateTyped'
      /\ state'[command.rc].tag = command.tag /\ state'[command.rc].done[step] = "failed"
      /\ \A s \in Steps \ {step} : state'[command.rc].done[s] = state[command.rc].done[s]
      /\ \A c \in Candidates \ {command.rc} : state'[c] = state[c]
  BY <1>1, WhatIsWritten DEF Fails, StateTyped
<1>4. SameTag(command.rc, command.tag)
  BY <1>1 DEF RecordInv, IsNext
<1>5. ASSUME NEW c \in Candidates, state'[c].done["tag-production"] = "success"
      PROVE  state'[c].tag \in Tags /\ tags'[state'[c].tag].local = c
  <2>0. c # None /\ None \notin Tags /\ command.rc \in Candidates /\ command.tag \in Tags
    BY <1>1 DEF ReleaseAssumption, Commands
  <2>1. CASE c # command.rc
    BY <1>3, <1>5, <2>0, <2>1 DEF RecordInv, LocalsStay
  <2>2. CASE c = command.rc
    <3>1. state[c].done["tag-production"] = "success"
      BY <1>3, <1>5, <2>2, StepOrder DEF ResumeReusable
    <3> QED BY <1>3, <1>4, <2>0, <2>2, <3>1 DEF RecordInv, LocalsStay, SameTag
  <2> QED BY <2>1, <2>2
<1> QED BY <1>2, <1>3, <1>5 DEF RecordInv

-----------------------------------------------------------------------------
(* What any step leaves of the tags, the runs and production. *)

WorldTyped ==
    /\ locator \subseteq Candidates /\ files \subseteq Candidates
    /\ staging \in [release : Candidates \cup {Incumbent},
                    canary : Maybe(Candidates \cup {Incumbent})]
    /\ tags \in [Tags -> [local : Maybe(Candidates), remote : Maybe(Candidates)]]
    /\ workflow \in [Tags -> Runs]
    /\ host \in [release : Candidates \cup {Incumbent}, previous : Candidates \cup {Incumbent},
                 phase : {"COMMITTED", "ROLLED_BACK"}, attempted : BOOLEAN]
    /\ used \in [commands : 0..MaxCommands, failures : 0..MaxFailures, events : 0..MaxEvents]

Moves ==
    /\ WorldTyped' /\ RunsHaveTags' /\ LocalsStay
    /\ \A t \in Tags : tags[t].remote # None => tags'[t].remote # None
    /\ \A t \in Tags : RunOf(t) = "success" => workflow'[t].status = "success"
    /\ host' = host \/ \E t \in Tags : RunOf(t) = "running"

WorldInv == WorldTyped /\ RunsHaveTags /\ command \in Maybe(Commands)

LEMMA Spending ==
  ASSUME ReleaseAssumption, WorldTyped, NEW what \in {"commands", "failures", "events"},
         Spend(what),
         what = "commands" => used.commands < MaxCommands,
         what = "failures" => used.failures < MaxFailures,
         what = "events" => used.events < MaxEvents
  PROVE  used' \in [commands : 0..MaxCommands, failures : 0..MaxFailures, events : 0..MaxEvents]
<1>1. /\ MaxCommands \in Nat /\ MaxFailures \in Nat /\ MaxEvents \in Nat
      /\ used \in [commands : 0..MaxCommands, failures : 0..MaxFailures, events : 0..MaxEvents]
  BY DEF ReleaseAssumption, WorldTyped
<1> QED BY <1>1 DEF Spend

LEMMA NothingMoves ==
  ASSUME WorldInv, UNCHANGED <<locator, files, staging, tags, workflow, host, used>>
  PROVE  Moves
BY DEF WorldInv, WorldTyped, RunsHaveTags, Moves, LocalsStay, RunOf

LEMMA OnlySpent ==
  ASSUME WorldInv, UNCHANGED <<locator, files, staging, tags, workflow, host>>,
         used' \in [commands : 0..MaxCommands, failures : 0..MaxFailures, events : 0..MaxEvents]
  PROVE  Moves
BY DEF WorldInv, WorldTyped, RunsHaveTags, Moves, LocalsStay, RunOf

\* The push of a tag that origin does not have.
LEMMA PushMoves ==
  ASSUME ReleaseAssumption, WorldInv, NEW t \in Tags, NEW c \in Candidates, tags[t].remote = None,
         Pushed(t, c), UNCHANGED <<locator, files, host>>,
         staging' = staging,
         used' \in [commands : 0..MaxCommands, failures : 0..MaxFailures, events : 0..MaxEvents]
  PROVE  Moves
<1>1. workflow[t].status = "none"
  BY DEF WorldInv, RunsHaveTags
<1>2. /\ tags' \in [Tags -> [local : Maybe(Candidates), remote : Maybe(Candidates)]]
      /\ \A u \in Tags : tags'[u].local = tags[u].local
      /\ tags'[t].remote = c /\ \A u \in Tags \ {t} : tags'[u] = tags[u]
  BY DEF WorldInv, WorldTyped, Pushed, Maybe
<1>3. /\ workflow' \in [Tags -> Runs]
      /\ workflow'[t].status = "running" /\ \A u \in Tags \ {t} : workflow'[u] = workflow[u]
  BY DEF WorldInv, WorldTyped, Pushed, Runs
<1>4. c # None
  BY DEF ReleaseAssumption
<1> QED BY <1>1, <1>2, <1>3, <1>4 DEF WorldInv, WorldTyped, RunsHaveTags, Moves, LocalsStay, RunOf

LEMMA CommandMoves ==
  ASSUME ReleaseAssumption, WorldInv, CommandStep
  PROVE  Moves
<1> USE DEF WorldInv
<1>1. CASE ResolveCandidate
  <2>1. command.rc \in Candidates
    BY <1>1 DEF ResolveCandidate, IsNext, Maybe, Commands
  <2> QED BY <1>1, <2>1 DEF ResolveCandidate, WorldTyped, RunsHaveTags, Moves, LocalsStay, RunOf
<1>2. CASE VerifyIdentity \/ VerifyTooling \/ VerifyHostState
  BY <1>2, NothingMoves DEF VerifyIdentity, VerifyTooling, VerifyHostState, Decides
<1>3. CASE \E s \in PlainChecks : RunCheck(s)
  BY <1>3, NothingMoves DEF RunCheck
<1>4. CASE \E s \in Steps : Breaks(s)
  BY <1>4, OnlySpent, Spending DEF Breaks, MayFail
<1>5. CASE DeployStaging
  <2>1. command.rc \in Candidates
    BY <1>5 DEF DeployStaging, IsNext, Maybe, Commands
  <2> QED BY <1>5, <2>1 DEF DeployStaging, WorldTyped, RunsHaveTags, Moves, LocalsStay, RunOf, Maybe
<1>6. CASE EnsureEvidence
  BY <1>6 DEF EnsureEvidence, WorldTyped, RunsHaveTags, Moves, LocalsStay, RunOf, Maybe
<1>7. CASE VerifyStaging
  <2>1. command.rc \in Candidates
    BY <1>7 DEF VerifyStaging, IsNext, Maybe, Commands
  <2>2. files' \subseteq Candidates
    BY <1>7, <2>1 DEF VerifyStaging, WorldTyped
  <2> QED BY <1>7, <2>2 DEF VerifyStaging, WorldTyped, RunsHaveTags, Moves, LocalsStay, RunOf
<1>8. CASE \/ RefreshEvidence
           \/ \E s \in {"verify-staging-exact", "production-readiness"} : AskForEvidence(s)
  <2>1. UNCHANGED <<locator, files, tags, workflow, host>>
    BY <1>8 DEF RefreshEvidence, AskForEvidence
  <2>2. \/ UNCHANGED staging
        \/ staging' = [staging EXCEPT !.canary = staging.release]
    BY <1>8 DEF RefreshEvidence, AskForEvidence
  <2>3. used' \in [commands : 0..MaxCommands, failures : 0..MaxFailures, events : 0..MaxEvents]
    <3>1. UNCHANGED used \/ (Spend("failures") /\ MayFail)
      BY <1>8 DEF RefreshEvidence, AskForEvidence
    <3> QED BY <3>1, Spending DEF MayFail, WorldTyped
  <2> QED BY <2>1, <2>2, <2>3 DEF WorldTyped, RunsHaveTags, Moves, LocalsStay, RunOf, Maybe
<1>9. CASE CheckReadiness
  BY <1>9, NothingMoves DEF CheckReadiness, Decides
<1>10. CASE RecheckReadiness
  BY <1>10, NothingMoves DEF RecheckReadiness
<1>11. CASE ReconcileTag
  <2> DEFINE t == command.tag
             fetched == IF tags[t].local = None THEN tags[t].remote ELSE tags[t].local
  <2>1. command.rc \in Candidates /\ t \in Tags
    BY <1>11 DEF ReconcileTag, IsNext, Maybe, Commands
  <2>2. PICK x \in Maybe(Candidates) :
          /\ tags' = [tags EXCEPT ![t].local = x]
          /\ tags[t].local # None => x = tags[t].local
    <3>1. fetched \in Maybe(Candidates)
      BY <2>1 DEF WorldTyped
    <3>2. tags[t].local # None => fetched = tags[t].local
      OBVIOUS
    <3>3. \/ fetched \in {None, command.rc} /\ tags' = [tags EXCEPT ![t].local = command.rc]
          \/ tags' = [tags EXCEPT ![t].local = fetched]
      BY <1>11 DEF ReconcileTag
    <3> QED BY <2>1, <3>1, <3>2, <3>3 DEF Maybe
  <2>3. /\ tags' \in [Tags -> [local : Maybe(Candidates), remote : Maybe(Candidates)]]
        /\ \A u \in Tags : tags'[u].remote = tags[u].remote
        /\ LocalsStay
    BY <2>1, <2>2 DEF WorldTyped, LocalsStay
  <2>4. UNCHANGED <<locator, files, staging, workflow, host, used>>
    BY <1>11 DEF ReconcileTag
  <2> QED BY <2>3, <2>4 DEF WorldTyped, RunsHaveTags, Moves, RunOf
<1>12. CASE PushTag
  <2>1. command.rc \in Candidates /\ command.tag \in Tags
    BY <1>12 DEF PushTag, IsNext, Maybe, Commands
  <2>2. CASE tags[command.tag].remote = None
    <3>1. used' \in [commands : 0..MaxCommands, failures : 0..MaxFailures, events : 0..MaxEvents]
      BY <1>12, <2>2, Spending DEF PushTag, WorldTyped, MayFail
    <3>2. Pushed(command.tag, command.rc) /\ UNCHANGED <<locator, files, staging, host>>
      BY <1>12, <2>2 DEF PushTag
    <3> QED BY <2>1, <2>2, <3>1, <3>2, PushMoves
  <2>3. CASE tags[command.tag].remote # None
    BY <1>12, <2>3, NothingMoves DEF PushTag
  <2> QED BY <2>2, <2>3
<1>13. CASE WaitSucceeds
  BY <1>13, NothingMoves DEF WaitSucceeds
<1>14. CASE Finish
  BY <1>14, NothingMoves DEF Finish
<1>15. CASE \E b \in {"after-cleanup", "unknown"} : WaitFails(b)
  BY <1>15, NothingMoves DEF WaitFails
<1>16. CASE \E b \in {"after-cleanup", "unknown"} : RerunFailedJobs(b)
  <2> DEFINE t == command.tag
  <2>1. t \in Tags /\ RunOf(t) \in {"failure", "cancelled"}
        /\ workflow' = [workflow EXCEPT ![t].status = "running"]
        /\ UNCHANGED <<locator, files, staging, tags, host, used>>
    BY <1>16 DEF RerunFailedJobs, WaitEnds, Waiting, IsNext, Maybe, Commands
  <2> HIDE DEF t
  <2>2. /\ workflow' \in [Tags -> Runs]
        /\ workflow'[t].status = "running" /\ \A u \in Tags \ {t} : workflow'[u] = workflow[u]
    BY <2>1 DEF WorldTyped, Runs
  <2> QED BY <2>1, <2>2 DEF WorldTyped, RunsHaveTags, Moves, LocalsStay, RunOf
<1> QED
  BY <1>1, <1>2, <1>3, <1>4, <1>5, <1>6, <1>7, <1>8, <1>9, <1>10, <1>11, <1>12, <1>13, <1>14,
     <1>15, <1>16 DEF CommandStep

LEMMA RunMoves ==
  ASSUME WorldInv, NEW t \in Tags, RunOf(t) = "running", NEW r \in Runs,
         workflow' = [workflow EXCEPT ![t] = r], r.status # "none",
         host' \in [release : Candidates \cup {Incumbent}, previous : Candidates \cup {Incumbent},
                    phase : {"COMMITTED", "ROLLED_BACK"}, attempted : BOOLEAN],
         UNCHANGED <<locator, files, staging, tags>>,
         used' \in [commands : 0..MaxCommands, failures : 0..MaxFailures, events : 0..MaxEvents]
  PROVE  Moves
<1>1. /\ workflow' \in [Tags -> Runs]
      /\ workflow'[t] = r /\ \A u \in Tags \ {t} : workflow'[u] = workflow[u]
  BY DEF WorldInv, WorldTyped
<1>2. tags[t].remote # None
  BY DEF WorldInv, RunsHaveTags, RunOf
<1> QED BY <1>1, <1>2 DEF WorldInv, WorldTyped, RunsHaveTags, Moves, LocalsStay, RunOf

LEMMA WorkflowMoves ==
  ASSUME ReleaseAssumption, WorldInv, NEW t \in Tags,
         \/ DeployCommits(t) \/ SmokePasses(t) \/ SmokeFails(t)
         \/ \E how \in {"stopped", "cancelled", "rolled back"} : DeployFails(t, how)
  PROVE  Moves
<1>1. /\ workflow[t] \in Runs /\ RunOf(t) = "running" /\ UNCHANGED <<locator, files, staging, tags>>
      /\ tags[t].remote \in Candidates
  BY DEF WorldInv, WorldTyped, RunsHaveTags, RunOf, DeployCommits, SmokePasses, SmokeFails,
     DeployFails, Maybe
<1>2. used' \in [commands : 0..MaxCommands, failures : 0..MaxFailures, events : 0..MaxEvents]
  <2>1. used' = used \/ (Spend("failures") /\ used.failures < MaxFailures)
    BY DEF DeployCommits, SmokePasses, SmokeFails, DeployFails, MayFail
  <2>2. WorldTyped
    BY DEF WorldInv
  <2>3. CASE used' = used
    BY <2>2, <2>3 DEF WorldTyped
  <2>4. CASE Spend("failures") /\ used.failures < MaxFailures
    BY <2>2, <2>4, Spending
  <2> QED BY <2>1, <2>3, <2>4
<1>3. host' \in [release : Candidates \cup {Incumbent}, previous : Candidates \cup {Incumbent},
                 phase : {"COMMITTED", "ROLLED_BACK"}, attempted : BOOLEAN]
  <2> DEFINE Hosts == [release : Candidates \cup {Incumbent}, previous : Candidates \cup {Incumbent},
                       phase : {"COMMITTED", "ROLLED_BACK"}, attempted : BOOLEAN]
  <2>1. host \in Hosts
    BY DEF WorldInv, WorldTyped
  <2>2. CASE DeployCommits(t)
    BY <1>1, <2>1, <2>2 DEF DeployCommits
  <2>3. CASE SmokePasses(t)
    BY <2>1, <2>3 DEF SmokePasses
  <2>4. CASE SmokeFails(t)
    BY <2>1, <2>4 DEF SmokeFails
  <2>5. CASE \E how \in {"stopped", "cancelled", "rolled back"} : DeployFails(t, how)
    BY <2>1, <2>5 DEF DeployFails
  <2> QED BY <2>2, <2>3, <2>4, <2>5
<1>4. PICK r \in Runs : workflow' = [workflow EXCEPT ![t] = r] /\ r.status # "none"
  <2>1. CASE DeployCommits(t)
    <3>1. [workflow[t] EXCEPT !.deployed = TRUE] \in Runs
      BY <1>1 DEF Runs
    <3>2. [workflow[t] EXCEPT !.deployed = TRUE].status = "running"
      BY <1>1 DEF Runs, RunOf
    <3> QED BY <2>1, <3>1, <3>2 DEF DeployCommits
  <2>2. CASE SmokePasses(t)
    <3>1. [workflow[t] EXCEPT !.status = "success"] \in Runs
          /\ [workflow[t] EXCEPT !.status = "success"].status # "none"
      BY <1>1 DEF Runs
    <3> QED BY <2>2, <3>1 DEF SmokePasses
  <2>3. CASE SmokeFails(t)
    <3>1. [workflow[t] EXCEPT !.status = "failure", !.rolledback = TRUE] \in Runs
          /\ [workflow[t] EXCEPT !.status = "failure", !.rolledback = TRUE].status # "none"
      BY <1>1 DEF Runs
    <3>2. workflow' = [workflow EXCEPT ![t] =
                         [workflow[t] EXCEPT !.status = "failure", !.rolledback = TRUE]]
      BY <2>3, <1>1 DEF SmokeFails, WorldInv, WorldTyped, Runs
    <3> QED BY <3>1, <3>2
  <2>4. ASSUME NEW how \in {"stopped", "cancelled", "rolled back"}, DeployFails(t, how)
        PROVE  \E r \in Runs : workflow' = [workflow EXCEPT ![t] = r] /\ r.status # "none"
    <3> DEFINE r == [workflow[t] EXCEPT !.status = IF how = "cancelled" THEN "cancelled" ELSE "failure"]
    <3>1. r \in Runs /\ r.status # "none"
      BY <1>1 DEF Runs
    <3>2. workflow' = [workflow EXCEPT ![t] = r]
      BY <2>4 DEF DeployFails
    <3> QED BY <3>1, <3>2
  <2> QED BY <2>1, <2>2, <2>3, <2>4
<1> QED BY <1>1, <1>2, <1>3, <1>4, RunMoves

LEMMA EveryStepMoves ==
  ASSUME ReleaseAssumption, WorldInv, [ReleaseNext]_releaseVars
  PROVE  Moves
<1>1. CASE \E c \in Candidates, t \in Tags, sel \in Selections, risk \in Risks, local \in BOOLEAN :
             Start(c, t, sel, risk, local)
  <2>1. used' \in [commands : 0..MaxCommands, failures : 0..MaxFailures, events : 0..MaxEvents]
        /\ UNCHANGED <<locator, files, staging, tags, workflow, host>>
    BY <1>1, Spending DEF Start, WorldInv
  <2> QED BY <2>1, OnlySpent
<1>2. CASE CommandStep
  BY <1>2, CommandMoves
<1>3. CASE Interrupt
  BY <1>3, OnlySpent, Spending DEF Interrupt, WorldInv, MayFail
<1>4. CASE WorkflowStep
  BY <1>4, WorkflowMoves DEF WorkflowStep
<1>5. CASE \E c \in Candidates : OthersDeployStaging(c)
  <2>1. used' \in [commands : 0..MaxCommands, failures : 0..MaxFailures, events : 0..MaxEvents]
    BY <1>5, Spending DEF OthersDeployStaging, WorldInv
  <2> QED BY <1>5, <2>1 DEF OthersDeployStaging, WorldInv, WorldTyped, RunsHaveTags, Moves,
        LocalsStay, RunOf, Maybe
<1>6. CASE \E c \in Candidates, t \in Tags : OthersPushTag(t, c)
  <2>1. used' \in [commands : 0..MaxCommands, failures : 0..MaxFailures, events : 0..MaxEvents]
    BY <1>6, Spending DEF OthersPushTag, WorldInv
  <2> QED BY <1>6, <2>1, PushMoves DEF OthersPushTag
<1>7. CASE UNCHANGED releaseVars
  BY <1>7, NothingMoves DEF releaseVars
<1> QED BY <1>1, <1>2, <1>3, <1>4, <1>5, <1>6, <1>7 DEF ReleaseNext

-----------------------------------------------------------------------------
(* The command and its state file. *)

LEMMA PlanHasGates ==
  ASSUME NEW risk, NEW local
  PROVE  /\ Plan(risk, local) \subseteq Steps /\ PromotionGates \subseteq Plan(risk, local)
         /\ "tag-production" \in Plan(risk, local)
         /\ ~local => /\ "wait-production-deploy" \in Plan(risk, local)
                      /\ "verify-production-host-state" \in Plan(risk, local)
<1>1. \A s \in PromotionGates \cup {"tag-production"} :
        s \in Steps /\ "tag-production" \notin Ahead[s] /\ s # "ensure-windows-prepromotion-evidence"
  <2>1. \A s \in PromotionGates \cup {"tag-production"} : s \in Steps
    BY StepOrder DEF ResumeReusable
  <2>2. ASSUME NEW s \in PromotionGates \cup {"tag-production"}, "tag-production" \in Ahead[s]
        PROVE  FALSE
    <3>1. PICK i \in DOMAIN Order, j \in DOMAIN Order :
            Order[i] = "tag-production" /\ i < j /\ Order[j] = s
      BY <2>1, <2>2 DEF Ahead
    <3>2. i = 10 /\ j \in 11..14
      BY <3>1 DEF Order
    <3> QED BY <3>1, <3>2 DEF Order, PromotionGates
  <2> QED BY <2>1, <2>2 DEF PromotionGates
<1> QED BY <1>1, StepOrder DEF Plan

\* What a step of the command does to the command and to its state file.
CommandEffect ==
    \/ UNCHANGED <<state, command>>
    \/ command' = None /\ UNCHANGED state
    \/ \E step \in Steps :
         /\ IsNext(step)
         /\ \/ /\ Passes(step)
               /\ step = "tag-production" => tags'[command.tag].local = command.rc
               /\ step = "wait-production-deploy" => RunOf(command.tag) = "success"
               /\ step = "verify-production-host-state" => HostMatches(command.tag)
            \/ Fails(step)
    \/ \E step \in {"verify-staging-exact", "production-readiness"} :
         /\ IsNext(step)
         /\ state' = Written(step, "failed")
         /\ command' = [command EXCEPT !.refresh = "due"]
    \/ /\ command # None
       /\ \/ /\ state' = Written("ensure-windows-prepromotion-evidence", "success")
             /\ command' = [command EXCEPT !.refresh = "done"]
          \/ Fails("ensure-windows-prepromotion-evidence")
    \/ /\ IsNext("wait-production-deploy")
       /\ state' = Written("wait-production-deploy", "failed")
       /\ command' = [command EXCEPT !.reran = TRUE]
    \/ /\ IsNext("tag-production") /\ UNCHANGED state
       /\ \/ command' = [command EXCEPT !.tagging = "checked"]
          \/ /\ command' = [command EXCEPT !.tagging = "tagged"]
             /\ tags'[command.tag].local = command.rc

LEMMA CommandHasEffect ==
  ASSUME WorldInv, RecordInv, CommandStep
  PROVE  CommandEffect
<1> USE StepOrder
<1>0. IsNext("tag-production") => command \in Commands
  BY DEF WorldInv, IsNext, Maybe
<1>1. CASE ResolveCandidate
  BY <1>1 DEF ResolveCandidate, CommandEffect, ResumeReusable
<1>2. CASE VerifyIdentity \/ VerifyTooling
  BY <1>2 DEF VerifyIdentity, VerifyTooling, Decides, CommandEffect, ResumeReusable
<1>3. CASE \E s \in PlainChecks : RunCheck(s)
  BY <1>3 DEF RunCheck, CommandEffect, PlainChecks
<1>4. CASE \E s \in Steps : Breaks(s)
  BY <1>4 DEF Breaks, CommandEffect
<1>5. CASE DeployStaging
  BY <1>5 DEF DeployStaging, CommandEffect, ResumeReusable
<1>6. CASE EnsureEvidence
  BY <1>6 DEF EnsureEvidence, CommandEffect
<1>7. CASE VerifyStaging
  BY <1>7 DEF VerifyStaging, CommandEffect, PromotionGates
<1>8. CASE \E s \in {"verify-staging-exact", "production-readiness"} : AskForEvidence(s)
  BY <1>8 DEF AskForEvidence, CommandEffect
<1>17. CASE RefreshEvidence
  BY <1>17 DEF RefreshEvidence, CommandEffect
<1>9. CASE CheckReadiness
  BY <1>9 DEF CheckReadiness, Decides, CommandEffect, PromotionGates
<1>10. CASE RecheckReadiness
  BY <1>10 DEF RecheckReadiness, CommandEffect, ResumeReusable
<1>11. CASE ReconcileTag
  <2>1. \/ /\ tags' = [tags EXCEPT ![command.tag].local = command.rc]
           /\ \/ Passes("tag-production")
              \/ command' = [command EXCEPT !.tagging = "tagged"] /\ UNCHANGED state
        \/ Fails("tag-production")
    BY <1>11 DEF ReconcileTag
  <2>2. tags' = [tags EXCEPT ![command.tag].local = command.rc]
          => tags'[command.tag].local = command.rc
    BY <1>0, <1>11 DEF ReconcileTag, WorldInv, WorldTyped, Commands
  <2> QED BY <1>11, <2>1, <2>2 DEF ReconcileTag, CommandEffect, ResumeReusable
<1>12. CASE PushTag
  <2>1. tags'[command.tag].local = command.rc
    BY <1>0, <1>12 DEF PushTag, Pushed, RecordInv, WorldInv, WorldTyped, Commands, IsNext
  <2> QED BY <1>12, <2>1 DEF PushTag, CommandEffect, ResumeReusable
<1>13. CASE WaitSucceeds
  BY <1>13 DEF WaitSucceeds, Waiting, CommandEffect
<1>14. CASE VerifyHostState
  BY <1>14 DEF VerifyHostState, Decides, CommandEffect
<1>15. CASE Finish
  BY <1>15 DEF Finish, CommandEffect
<1>16. CASE \E b \in {"after-cleanup", "unknown"} : RerunFailedJobs(b) \/ WaitFails(b)
  BY <1>16 DEF RerunFailedJobs, WaitFails, WaitEnds, Waiting, CommandEffect
<1> QED
  BY <1>1, <1>2, <1>3, <1>4, <1>5, <1>6, <1>7, <1>8, <1>9, <1>10, <1>11, <1>12, <1>13, <1>14,
     <1>15, <1>16, <1>17 DEF CommandStep

LEMMA NextIsTyped ==
  ASSUME WorldInv, NEW step, IsNext(step)
  PROVE  command # None /\ command \in Commands
BY DEF IsNext, WorldInv, Maybe

LEMMA RecordsMove ==
  ASSUME ReleaseAssumption, StateTyped, WorldInv, RecordInv, LocalsStay, CommandEffect
  PROVE  StateTyped' /\ RecordInv' /\ command' \in Maybe(Commands)
<1> DEFINE tagged == \A c \in Candidates :
             state'[c].done["tag-production"] = "success" =>
               state'[c].tag \in Tags /\ tags'[state'[c].tag].local = c
<1>1. ASSUME UNCHANGED state
      PROVE  tagged /\ StateTyped'
  BY <1>1 DEF RecordInv, LocalsStay, StateTyped, ReleaseAssumption
<1>2. CASE UNCHANGED <<state, command>>
  BY <1>1, <1>2 DEF WorldInv, RecordInv, LocalsStay, SameTag, ReleaseAssumption, Maybe, Commands
<1>3. CASE command' = None /\ UNCHANGED state
  BY <1>1, <1>3 DEF RecordInv, Maybe
<1>4. CASE \E step \in Steps :
             /\ IsNext(step)
             /\ \/ Passes(step) /\ (step = "tag-production" => tags'[command.tag].local = command.rc)
                \/ Fails(step)
  <2>1. PICK step \in Steps :
          /\ IsNext(step)
          /\ \/ Passes(step) /\ (step = "tag-production" => tags'[command.tag].local = command.rc)
             \/ Fails(step)
    BY <1>4
  <2>2. CASE Passes(step) /\ (step = "tag-production" => tags'[command.tag].local = command.rc)
    BY <2>1, <2>2, PassesRecords DEF WorldInv, Maybe
  <2>3. CASE Fails(step)
    BY <2>1, <2>3, FailsRecords DEF WorldInv, Maybe, IsNext
  <2> QED BY <2>1, <2>2, <2>3
<1>5. ASSUME NEW step \in {"ensure-windows-prepromotion-evidence", "wait-production-deploy",
                              "verify-staging-exact", "production-readiness"},
             step \in PromotionGates => step \in command.rest,
             NEW outcome \in {"success", "failed"},
             command \in Commands, command # None, state' = Written(step, outcome),
             command' \in Commands, command'.rc = command.rc, command'.tag = command.tag,
             command'.tagging = command.tagging, command'.rest = command.rest
      PROVE  StateTyped' /\ RecordInv' /\ command' \in Maybe(Commands)
  <2>1. /\ StateTyped' /\ state'[command.rc].tag = command.tag
        /\ \A s \in Steps \ {step} : state'[command.rc].done[s] = state[command.rc].done[s]
        /\ \A c \in Candidates \ {command.rc} : state'[c] = state[c]
    <3> DEFINE w == Written(step, outcome)
    <3>1. step \in Steps /\ command \in Commands
      BY <1>5, StepOrder DEF PromotionGates
    <3>2. /\ w \in [Candidates -> [tag : Maybe(Tags), done : [Steps -> {"none", "success", "failed"}]]]
          /\ w[command.rc].tag = command.tag
          /\ \A s \in Steps \ {step} : w[command.rc].done[s] = state[command.rc].done[s]
          /\ \A c \in Candidates \ {command.rc} : w[c] = state[c]
      BY <3>1, WhatIsWritten
    <3>3. state' = w
      BY <1>5
    <3> HIDE DEF w
    <3> QED BY <3>2, <3>3 DEF StateTyped
  <2>2. SameTag(command.rc, command.tag) /\ command.tag \in Tags /\ command.rc \in Candidates
    BY <1>5 DEF RecordInv, Commands
  <2>3. SameTag(command.rc, command.tag)'
    BY <1>5, <2>1 DEF SameTag
  <2>4. tagged
    <3>1. ASSUME NEW c \in Candidates, state'[c].done["tag-production"] = "success"
          PROVE  state'[c].tag \in Tags /\ tags'[state'[c].tag].local = c
      <4>1. state[c].done["tag-production"] = "success" /\ c # None
        BY <1>5, <2>1, <3>1, StepOrder DEF ResumeReusable, ReleaseAssumption
      <4>2. state[c].tag \in Tags /\ tags[state[c].tag].local = c
        BY <4>1 DEF RecordInv
      <4>3. state'[c].tag = state[c].tag
        BY <2>1, <2>2, <4>2 DEF SameTag, ReleaseAssumption
      <4> QED BY <4>1, <4>2, <4>3 DEF LocalsStay
    <3> QED BY <3>1
  <2>5. ASSUME NEW g \in PromotionGates
        PROVE  g \in command'.rest \/ state'[command'.rc].done[g] = "success"
    <3>1. g \in Steps
      BY StepOrder DEF PromotionGates
    <3>2. g \in command.rest \/ state[command.rc].done[g] = "success"
      BY <1>5 DEF RecordInv
    <3> QED BY <1>5, <2>1, <3>1, <3>2
  <2>6. ASSUME command'.tagging = "tagged"
        PROVE  tags'[command'.tag].local = command'.rc
    <3>1. tags[command.tag].local = command.rc
      BY <1>5, <2>6 DEF RecordInv
    <3>2. command.rc # None
      BY <2>2 DEF ReleaseAssumption
    <3> QED BY <1>5, <2>2, <3>1, <3>2 DEF LocalsStay
  <2>7. RecordInv'
    BY <2>3, <2>4, <2>5, <2>6 DEF RecordInv
  <2> QED BY <1>5, <2>1, <2>7 DEF Maybe
<1>6. CASE \E step \in {"verify-staging-exact", "production-readiness"} :
             /\ IsNext(step)
             /\ state' = Written(step, "failed")
             /\ command' = [command EXCEPT !.refresh = "due"]
  <2>1. PICK step \in {"verify-staging-exact", "production-readiness"} :
          /\ IsNext(step)
          /\ state' = Written(step, "failed")
          /\ command' = [command EXCEPT !.refresh = "due"]
    BY <1>6
  <2>2. command # None /\ command \in Commands /\ step \in command.rest
    BY <2>1, NextIsTyped DEF IsNext
  <2>3. /\ command' \in Commands /\ command'.rc = command.rc /\ command'.tag = command.tag
        /\ command'.tagging = command.tagging /\ command'.rest = command.rest
    BY <2>1, <2>2 DEF Commands
  <2> QED BY <1>5, <2>1, <2>2, <2>3
<1>9. CASE /\ command # None
           /\ state' = Written("ensure-windows-prepromotion-evidence", "success")
           /\ command' = [command EXCEPT !.refresh = "done"]
  <2>1. command \in Commands
    BY <1>9 DEF WorldInv, Maybe
  <2>2. /\ command' \in Commands /\ command'.rc = command.rc /\ command'.tag = command.tag
        /\ command'.tagging = command.tagging /\ command'.rest = command.rest
    BY <1>9, <2>1 DEF Commands
  <2>3. "ensure-windows-prepromotion-evidence" \notin PromotionGates
    BY DEF PromotionGates
  <2> QED BY <1>5, <1>9, <2>1, <2>2, <2>3
<1>10. CASE command # None /\ Fails("ensure-windows-prepromotion-evidence")
  BY <1>10, FailsRecords, StepOrder DEF WorldInv, Maybe
<1>7. CASE /\ IsNext("wait-production-deploy")
           /\ state' = Written("wait-production-deploy", "failed")
           /\ command' = [command EXCEPT !.reran = TRUE]
  BY <1>5, <1>7, NextIsTyped DEF Commands, PromotionGates
<1>8. CASE /\ IsNext("tag-production") /\ UNCHANGED state
           /\ \/ command' = [command EXCEPT !.tagging = "checked"]
              \/ /\ command' = [command EXCEPT !.tagging = "tagged"]
                 /\ tags'[command.tag].local = command.rc
  <2>1. command \in Commands /\ command # None
    BY <1>8, NextIsTyped
  <2>2. /\ command' \in Commands /\ command'.rc = command.rc /\ command'.tag = command.tag
        /\ command'.rest = command.rest
        /\ command'.tagging = "tagged" => tags'[command.tag].local = command.rc
    BY <1>8, <2>1 DEF Commands
  <2> QED BY <1>1, <1>8, <2>1, <2>2 DEF RecordInv, SameTag, Maybe
<1> QED BY <1>2, <1>3, <1>4, <1>6, <1>7, <1>8, <1>9, <1>10 DEF CommandEffect

LEMMA StartRecords ==
  ASSUME ReleaseAssumption, StateTyped, WorldInv, RecordInv, LocalsStay,
         NEW c \in Candidates, NEW t \in Tags, NEW sel \in Selections, NEW risk \in Risks,
         NEW local \in BOOLEAN, Start(c, t, sel, risk, local)
  PROVE  StateTyped' /\ RecordInv' /\ command' \in Commands
<1> DEFINE plan == Plan(risk, local)
           out == Skipped(sel, c, plan)
<1>1. /\ SameTag(c, t) /\ MaySkip(out, c) /\ UNCHANGED <<state, tags>>
      /\ command' = [rc |-> c, tag |-> t, how |-> sel.how, risk |-> risk, local |-> local,
                     tagging |-> "none", refresh |-> "none", reran |-> FALSE,
                     rest |-> plan \ out]
  BY DEF Start
<1>2. plan \subseteq Steps /\ PromotionGates \subseteq plan
  BY PlanHasGates
<1>3. sel.how \in {"all", "resume", "from", "only"} /\ risk \in BOOLEAN
  BY DEF ReleaseAssumption
<1> HIDE DEF plan, out
<1>4. command' \in Commands
  BY <1>1, <1>2, <1>3 DEF Commands
<1>5. \A g \in PromotionGates : g \in plan \ out \/ state[c].done[g] = "success"
  BY <1>1, <1>2 DEF MaySkip
<1> QED BY <1>1, <1>4, <1>5 DEF RecordInv, StateTyped, SameTag, LocalsStay, ReleaseAssumption

-----------------------------------------------------------------------------
(* The whole promotion. *)

LEMMA WholeMoves ==
  ASSUME ReleaseAssumption, StateTyped, WorldInv, RecordInv, WholeInv, Moves, CommandEffect
  PROVE  WholeInv'
<1> SUFFICES ASSUME command' # None, ~command'.local, command'.how \in {"all", "resume"}
             PROVE  /\ "tag-production" \in command'.rest
                         \/ tags'[command'.tag].local = command'.rc
                    /\ "wait-production-deploy" \in command'.rest
                         \/ workflow'[command'.tag].status = "success"
                    /\ \/ "verify-production-host-state" \in command'.rest
                       \/ /\ "wait-production-deploy" \notin command'.rest
                          /\ OnlyTag' => /\ host'.release = command'.rc
                                         /\ host'.phase = "COMMITTED" /\ ~host'.attempted
  BY DEF WholeInv, RunOf
<1> DEFINE Same == /\ command'.rc = command.rc /\ command'.tag = command.tag
                   /\ command'.how = command.how /\ command'.local = command.local
           PassesAt(step) ==
             /\ IsNext(step) /\ Passes(step)
             /\ step = "tag-production" => tags'[command.tag].local = command.rc
             /\ step = "wait-production-deploy" => RunOf(command.tag) = "success"
             /\ step = "verify-production-host-state" => HostMatches(command.tag)
<1>1. /\ command # None /\ command \in Commands /\ Same
      /\ \/ command'.rest = command.rest
         \/ \E step \in Steps : PassesAt(step) /\ command'.rest = command.rest \ {step}
  <2>1. CASE \E step \in Steps : PassesAt(step)
    BY <2>1, NextIsTyped DEF Passes, Commands
  <2>2. CASE UNCHANGED command
    BY <2>2 DEF WorldInv, Maybe, Commands
  <2>3. CASE \/ /\ \E step \in {"verify-staging-exact", "production-readiness"} : IsNext(step)
                /\ command' = [command EXCEPT !.refresh = "due"]
             \/ command # None /\ command' = [command EXCEPT !.refresh = "done"]
             \/ IsNext("wait-production-deploy") /\ command' = [command EXCEPT !.reran = TRUE]
             \/ /\ IsNext("tag-production")
                /\ \/ command' = [command EXCEPT !.tagging = "checked"]
                   \/ command' = [command EXCEPT !.tagging = "tagged"]
    <3>1. command # None /\ command \in Commands
      BY <2>3, NextIsTyped DEF WorldInv, Maybe
    <3> QED BY <2>3, <3>1 DEF Commands
  <2> QED BY <2>1, <2>2, <2>3 DEF CommandEffect, Fails
<1>2. /\ command.tag \in Tags /\ command.rc \in Candidates /\ command.rc # None
      /\ ~command.local /\ command.how \in {"all", "resume"}
  BY <1>1 DEF Commands, ReleaseAssumption
<1>3. /\ "tag-production" \in command.rest \/ tags[command.tag].local = command.rc
      /\ "wait-production-deploy" \in command.rest \/ RunOf(command.tag) = "success"
      /\ \/ "verify-production-host-state" \in command.rest
         \/ /\ "wait-production-deploy" \notin command.rest
            /\ OnlyTag => /\ host.release = command.rc /\ host.phase = "COMMITTED"
                          /\ ~host.attempted
  BY <1>1, <1>2 DEF WholeInv
<1>4. "tag-production" \in command'.rest \/ tags'[command'.tag].local = command'.rc
  BY <1>1, <1>2, <1>3 DEF Moves, LocalsStay
<1>5. "wait-production-deploy" \in command'.rest \/ workflow'[command'.tag].status = "success"
  BY <1>1, <1>2, <1>3 DEF Moves
<1>6. ASSUME OnlyTag', RunOf(command.tag) = "success"
      PROVE  OnlyTag /\ host' = host
  <2>1. \A t \in Tags \ {command.tag} : tags[t].remote = None
    BY <1>1, <1>6 DEF OnlyTag, Moves
  <2>2. \A t \in Tags : RunOf(t) # "running"
    BY <1>6, <2>1 DEF WorldInv, RunsHaveTags, RunOf
  <2> QED BY <2>1, <2>2 DEF OnlyTag, Moves
<1>7. ASSUME "verify-production-host-state" \notin command'.rest
      PROVE  /\ "wait-production-deploy" \notin command'.rest
             /\ OnlyTag' => /\ host'.release = command'.rc
                            /\ host'.phase = "COMMITTED" /\ ~host'.attempted
  <2>1. CASE "verify-production-host-state" \notin command.rest
    BY <1>1, <1>3, <1>6, <2>1
  <2>2. CASE "verify-production-host-state" \in command.rest
    <3>1. /\ IsNext("verify-production-host-state") /\ HostMatches(command.tag)
          /\ command'.rest = command.rest \ {"verify-production-host-state"}
      BY <1>1, <1>7, <2>2
    <3>2. "tag-production" \notin command.rest /\ "wait-production-deploy" \notin command.rest
      BY <3>1, StepOrder DEF IsNext
    <3> QED BY <1>1, <1>3, <1>6, <3>1, <3>2 DEF HostMatches
  <2> QED BY <2>1, <2>2
<1> QED BY <1>4, <1>5, <1>7

LEMMA StartWhole ==
  ASSUME ReleaseAssumption, StateTyped, WorldInv, RecordInv,
         NEW c \in Candidates, NEW t \in Tags, NEW sel \in Selections, NEW risk \in Risks,
         NEW local \in BOOLEAN, Start(c, t, sel, risk, local)
  PROVE  WholeInv'
<1> DEFINE plan == Plan(risk, local)
           out == Skipped(sel, c, plan)
<1>1. /\ SameTag(c, t) /\ UNCHANGED <<state, tags, workflow, host>>
      /\ command' = [rc |-> c, tag |-> t, how |-> sel.how, risk |-> risk, local |-> local,
                     tagging |-> "none", refresh |-> "none", reran |-> FALSE,
                     rest |-> plan \ out]
  BY DEF Start
<1> SUFFICES ASSUME ~local, sel.how \in {"all", "resume"}
             PROVE  /\ "tag-production" \in plan \ out \/ tags[t].local = c
                    /\ "wait-production-deploy" \in plan \ out
                    /\ "verify-production-host-state" \in plan \ out
  BY <1>1 DEF WholeInv
<1>2. /\ "tag-production" \in plan /\ "wait-production-deploy" \in plan
      /\ "verify-production-host-state" \in plan
  BY PlanHasGates
<1>3. \A s \in out : sel.how = "resume" /\ s \in ResumeReusable /\ state[c].done[s] = "success"
  BY DEF Skipped
<1>4. state[c].done["tag-production"] = "success" => tags[t].local = c
  BY <1>1 DEF RecordInv, SameTag, ReleaseAssumption
<1> QED BY <1>2, <1>3, <1>4 DEF ResumeReusable

-----------------------------------------------------------------------------
(* The invariant and what follows. *)

LEMMA ReleaseStarts ==
  ASSUME ReleaseAssumption, ReleaseInit
  PROVE  ReleaseInv
<1>1. ReleaseTypeOK
  BY DEF ReleaseAssumption, ReleaseInit, ReleaseTypeOK, NoWorkflow, Runs, Maybe
<1> QED BY <1>1, StepOrder DEF ReleaseInit, ReleaseInv, RecordInv, RunsHaveTags, WholeInv, NoWorkflow,
     ResumeReusable

LEMMA ReleaseSteps ==
  ASSUME ReleaseAssumption, ReleaseInv, [ReleaseNext]_releaseVars
  PROVE  ReleaseInv'
<1>1. StateTyped /\ WorldInv /\ RecordInv /\ WholeInv
  BY DEF ReleaseInv, ReleaseTypeOK, StateTyped, WorldInv, WorldTyped
<1>2. Moves
  BY <1>1, EveryStepMoves
<1>3. CASE \E c \in Candidates, t \in Tags, sel \in Selections, risk \in Risks, local \in BOOLEAN :
             Start(c, t, sel, risk, local)
  <2>1. StateTyped' /\ RecordInv' /\ command' \in Commands /\ WholeInv'
    BY <1>1, <1>2, <1>3, StartRecords, StartWhole DEF Moves
  <2> QED BY <1>2, <2>1 DEF Moves, ReleaseInv, ReleaseTypeOK, StateTyped, WorldTyped, Maybe
<1>4. CASE ~\E c \in Candidates, t \in Tags, sel \in Selections, risk \in Risks, local \in BOOLEAN :
              Start(c, t, sel, risk, local)
  <2>1. CommandEffect
    <3>1. CASE CommandStep
      BY <1>1, <3>1, CommandHasEffect
    <3>2. CASE Interrupt
      BY <3>2 DEF Interrupt, CommandEffect
    <3>3. CASE WorkflowStep
      BY <3>3 DEF WorkflowStep, DeployCommits, DeployFails, SmokePasses, SmokeFails, CommandEffect
    <3>4. CASE \E c \in Candidates : OthersDeployStaging(c)
      BY <3>4 DEF OthersDeployStaging, CommandEffect
    <3>5. CASE \E c \in Candidates, t \in Tags : OthersPushTag(t, c)
      BY <3>5 DEF OthersPushTag, CommandEffect
    <3>6. CASE UNCHANGED releaseVars
      BY <3>6 DEF releaseVars, CommandEffect
    <3> QED BY <1>4, <3>1, <3>2, <3>3, <3>4, <3>5, <3>6 DEF ReleaseNext
  <2>2. StateTyped' /\ RecordInv' /\ command' \in Maybe(Commands)
    BY <1>1, <1>2, <2>1, RecordsMove DEF Moves
  <2>3. WholeInv'
    BY <1>1, <1>2, <2>1, WholeMoves
  <2> QED BY <1>2, <2>2, <2>3 DEF Moves, ReleaseInv, ReleaseTypeOK, StateTyped, WorldTyped
<1> QED BY <1>3, <1>4

\* What a promotion may rely on at each of its steps, for any candidates, tags and
\* selections of steps: the record of its gates, the tag it is bound to, what the
\* checkout, the workflow and production have by then.
THEOREM ReleaseInvariant == ReleaseAssumption => (ReleaseSpec => []ReleaseInv)
<1> SUFFICES ASSUME ReleaseAssumption
             PROVE  ReleaseSpec => []ReleaseInv
  OBVIOUS
<1>1. ReleaseInit => ReleaseInv
  BY ReleaseStarts
<1>2. ReleaseInv /\ [ReleaseNext]_releaseVars => ReleaseInv'
  BY ReleaseSteps
<1> QED BY <1>1, <1>2, PTL DEF ReleaseSpec

\* The state file, the tags, the workflow's runs, the host and the command keep
\* their types.
THEOREM ReleaseTyped == ReleaseAssumption => (ReleaseSpec => []ReleaseTypeOK)
<1>1. ReleaseInv => ReleaseTypeOK
  BY DEF ReleaseInv
<1> QED BY <1>1, ReleaseInvariant, PTL

\* However commands are selected, interrupted, resumed and repeated, whichever
\* pushes a tag has all five gates recorded passed for its candidate.
THEOREM TaggedPassedGates == ReleaseAssumption => (ReleaseSpec => TaggedHasPassed)
<1> SUFFICES ASSUME ReleaseAssumption
             PROVE  ReleaseSpec => TaggedHasPassed
  OBVIOUS
<1>1. ASSUME ReleaseInv, [ReleaseNext]_releaseVars
      PROVE  [\A t \in Tags :
                tags'[t].remote # tags[t].remote /\ used'.events = used.events =>
                   \A g \in PromotionGates : state[command.rc].done[g] = "success"]_releaseVars
  <2> SUFFICES ASSUME NEW t \in Tags, tags'[t].remote # tags[t].remote, used'.events = used.events,
                      NEW g \in PromotionGates
               PROVE  state[command.rc].done[g] = "success"
    OBVIOUS
  <2>1. IsNext("tag-production")
    <3>1. CommandStep => PushTag \/ ReconcileTag
      BY DEF CommandStep, ResolveCandidate, VerifyIdentity, VerifyTooling, VerifyHostState,
         Decides, RunCheck, Breaks, DeployStaging, EnsureEvidence, VerifyStaging, RefreshEvidence,
         AskForEvidence, CheckReadiness, RecheckReadiness, WaitSucceeds, Finish, RerunFailedJobs, WaitFails
    <3>2. ~\E c \in Candidates, u \in Tags : OthersPushTag(u, c)
      <4>1. used.events \in Nat /\ "events" \in DOMAIN used
        BY <1>1 DEF ReleaseInv, ReleaseTypeOK
      <4>2. Spend("events") => used'.events # used.events
        BY <4>1 DEF Spend
      <4> QED BY <4>2 DEF OthersPushTag
    <3>3. ~WorkflowStep
      BY DEF WorkflowStep, DeployCommits, DeployFails, SmokePasses, SmokeFails
    <3> QED BY <1>1, <3>1, <3>2, <3>3 DEF ReleaseNext, releaseVars, Start, Interrupt,
          OthersDeployStaging, PushTag, ReconcileTag
  <2>2. g \notin command.rest
    BY <2>1, StepOrder DEF IsNext
  <2> QED BY <1>1, <2>1, <2>2 DEF ReleaseInv, RecordInv, IsNext
<1> QED BY <1>1, ReleaseInvariant, PTL DEF ReleaseSpec, TaggedHasPassed

\* A whole or resumed promotion that has come to its end left its candidate
\* committed on production, unless another tag was pushed, whatever failed, was
\* rerun, rolled back or deployed elsewhere meanwhile.
THEOREM PromotionLeavesItLive == ReleaseAssumption => (ReleaseSpec => []PromotedIsLive)
<1>1. ReleaseInv => PromotedIsLive
  BY DEF ReleaseInv, WholeInv, OnlyTag, PromotedIsLive
<1> QED BY <1>1, ReleaseInvariant, PTL
=============================================================================
