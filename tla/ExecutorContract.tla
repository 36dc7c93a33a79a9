--------------------------- MODULE ExecutorContract ---------------------------
(***************************************************************************)
(* What a production deployment promises: the repository's own abstract    *)
(* executor, scripts/lib/production-executor-scenario.mjs, of which the    *)
(* remote shell executor (module Deployment) claims to be a mirror.        *)
(***************************************************************************)

CONSTANTS
    Releases,   \* the release ids
    None        \* no transaction yet

VARIABLE transaction   \* the last transaction of the host, or None

Phases == {"PREPARED", "SWITCHING", "ACTIVATED_UNVERIFIED", "VERIFIED",
           "COMMITTED", "ROLLING_BACK", "ROLLED_BACK", "FAILED"}

\* What the host reports of a deployment.
Transactions == [phase : Phases, boundary : BOOLEAN, previous : Releases,
                 candidate : Releases, current : Releases]

ALLOWED_TRANSITIONS ==
    [PREPARED             |-> {"SWITCHING", "FAILED"},
     SWITCHING            |-> {"ACTIVATED_UNVERIFIED", "FAILED", "ROLLING_BACK"},
     ACTIVATED_UNVERIFIED |-> {"VERIFIED", "FAILED", "ROLLING_BACK"},
     VERIFIED             |-> {"COMMITTED", "FAILED", "ROLLING_BACK"},
     FAILED               |-> {"ROLLING_BACK"},
     ROLLING_BACK         |-> {"ROLLED_BACK", "FAILED"},
     COMMITTED            |-> {},
     ROLLED_BACK          |-> {}]

\* The release the host says it runs once the transaction t is in phase p.
CurrentAfter(t, p) == CASE p = "COMMITTED"   -> t.candidate
                        [] p = "ROLLED_BACK" -> t.previous
                        [] OTHER             -> t.current

\* A new transaction starts PREPARED, the host still running the previous one.
CreateDeploymentTransaction(previous, candidate) ==
    transaction' = [phase |-> "PREPARED", boundary |-> FALSE, previous |-> previous,
                    candidate |-> candidate, current |-> previous]

\* Only a listed transition, and a rollback only past the mutation boundary.
TransitionDeploymentState(p) ==
    /\ transaction # None
    /\ p \in ALLOWED_TRANSITIONS[transaction.phase]
    /\ p = "ROLLING_BACK" => transaction.boundary
    /\ transaction' = [transaction EXCEPT
                         !.phase = p,
                         !.boundary = @ \/ p = "SWITCHING",
                         !.current = CurrentAfter(transaction, p)]

ContractInit == transaction = None

ContractNext ==
    \/ \E r, c \in Releases : CreateDeploymentTransaction(r, c)
    \/ \E p \in Phases : TransitionDeploymentState(p)

ContractSpec == ContractInit /\ [][ContractNext]_transaction
===============================================================================
