-------------------------- MODULE MCUserInstances --------------------------
(* Instances of UserMutations that one run checks side by side: which calls  *)
(* race, for which members, with how many failures.                          *)
EXTENDS MCUserMutations

\* The instances one run puts side by side; the first keeps one handler at a
\* time, the others let two race.
Instances ==
  [sequential |-> [calls |-> SequentialCalls, members |-> TwoAdmins, faults |-> 1],
   joining    |-> [calls |-> JoiningCalls, members |-> AdminAndTeacher, faults |-> 0],
   roles      |-> [calls |-> RoleCalls, members |-> AdminAndTeacher, faults |-> 1]]

AllCalls == UNION {Instances[i].calls : i \in DOMAIN Instances}

VARIABLE instance
WithTwoAdmins == INSTANCE UserMutations WITH InitialMembers <- TwoAdmins

\* Both foundings meet the assumption, and the handlers can be counted.
ASSUME InstancesAssumption ==
  WithTwoAdmins!UserMutationsAssumption /\ IsFiniteSet(Requests)

InstancesInit ==
  /\ instance \in DOMAIN Instances
  /\ IF Instances[instance].members = TwoAdmins THEN WithTwoAdmins!Init ELSE Init

\* A step of the instance: its calls, its faults, one handler at a time or two.
Within ==
  /\ faults' <= Instances[instance].faults
  /\ \A r \in Requests :
        requests[r].stage = "idle" /\ requests'[r].stage # "idle"
          => requests'[r].call \in Instances[instance].calls
  /\ instance = "sequential" =>
        Cardinality({r \in Requests : requests'[r].stage # "idle"}) <= 1

InstancesNext == Next /\ Within /\ UNCHANGED instance

InstancesSpec == InstancesInit /\ [][InstancesNext]_<<vars, instance>>

-----------------------------------------------------------------------------
(* What holds only while handlers do not overlap; the runs named in README.md *)
(* show each one broken when they do.                                        *)

\* One handler at a time, no call leaves an organization without an
\* administrator (assertOrganizationAdminSurvivability).
AloneOrgKeepsAdmin == instance = "sequential" => OrgKeepsAdmin

\* One handler at a time, joining an organization takes the user off the
\* waiting list for good.
AloneMembersDoNotWait == instance = "sequential" => MembersDoNotWait

\* One handler at a time, the role mirror differs from the memberships only
\* where the ledger shows an operation that is not completed.
AloneNoSilentDivergence == instance = "sequential" => NoSilentDivergence

\* One handler at a time, nothing reopens an operation once completed.
AloneCompletedIsPermanent ==
  [][instance = "sequential" =>
       \A k \in Keys :
         ledger[k] /= None /\ ledger[k].status = "completed"
           => ledger'[k].status = "completed"]_<<vars, instance>>

\* Handlers are interchangeable where a run checks no liveness.
RequestSymmetry == Permutations(Requests)
=============================================================================
