----------------------------- MODULE GatewayGate -----------------------------
(***************************************************************************)
(* areas/gateway-gate, gatewayCheck: the authority boundary.  A greenlight  *)
(* is consumed and its mutation attempt admitted in one commit that also    *)
(* claims the protected surface.                                            *)
(***************************************************************************)
EXTENDS PolicyGreenlight

\* hasFinalReconciliation
FinallyReconciled(m) ==
  \E q \in Requests : reconciliation[q] = [mutation |-> m, status |-> "succeeded"]

\* A sequence check satisfied by an attempt that nobody has seen succeed.
PriorsAttempted(c) ==
  \A p \in Prior[c] : \E m \in Requests : mutation[m] # None /\ mutation[m].contract = p

\* loadGatewayCheckSequenceDependencyStates: every prior contract is "ready".
PriorsReady(c) ==
  \A p \in Prior[c] : \E m \in Requests :
    /\ mutation[m] # None
    /\ mutation[m].contract = p
    /\ FinallyReconciled(m)

\* getGatewayAuthorityContext: contract and greenlight records are loaded and
\* the clock read.  `exact` is whether the observed parameters digest matches.
GatewayCheck(r, c, g, exact) ==
  /\ greenlight[g] # None
  /\ Proceed(r, "idle", "gateRead",
             [NoPlan EXCEPT !.contract = c, !.greenlight = g,
                            !.fresh = /\ greenlight[g] = c
                                      /\ exact
                                      /\ c \notin expired
                                      /\ consumption[g] = None])
  /\ UNCHANGED <<environmentVars, policyVars, ledger, gateVars, claim, lifecycleVars>>

\* A gate that trusts the isolation snapshot policy took.
AdmissibleOnSnapshot(p) == p.fresh /\ p.contract \in bound /\ PriorsReady(p.contract)

\* gateRefusalReason returns null
Admissible(p) ==
  /\ p.fresh
  /\ p.contract \in bound
  /\ ~GateBlocked(p.contract)
  /\ PriorsReady(p.contract)

\* deriveGatewayConstraintEvaluation: registry drift, isolation, posture,
\* ledger entry, delegated authority, credentials, sequence dependencies.
DeriveGatewayConstraints(r) ==
  LET p == plan[r] IN
  /\ Proceed(r, "gateRead", "gateCommit",
             [p EXCEPT !.pass = Admissible(p),
                       !.ledger = ledger[AuthorityKey[greenlight[p.greenlight]]]])
  /\ UNCHANGED <<environmentVars, policyVars, ledger, gateVars, claim, lifecycleVars>>

\* A refused check commits its attempt, refusal and receipt, consuming nothing.
CommitGatewayRefusal(r) ==
  /\ ~plan[r].pass
  /\ receipt' = [receipt EXCEPT ![r] = @ \cup {"refused"}]
  /\ Answer(r, "gateCommit", "refused")
  /\ UNCHANGED <<environmentVars, policyVars, ledger, consumption, mutation, claim, lifecycleVars>>

\* What one accepted commitGatewayCheck writes.
AdmitMutation(r) ==
  LET p == plan[r] IN
  /\ consumption' = [consumption EXCEPT ![p.greenlight] = r]
  /\ mutation' = [mutation EXCEPT ![r] = [contract |-> p.contract, greenlight |-> p.greenlight]]
  /\ receipt' = [receipt EXCEPT ![r] = @ \cup {"passed"}]
  /\ claim' = [claim EXCEPT ![SurfaceOf[p.contract]] = [mutation |-> r, state |-> "active"]]
  /\ ledger' = IF p.ledger = None THEN ledger
               ELSE [ledger EXCEPT ![p.ledger.key] =
                       [p.ledger EXCEPT !.mutation = r, !.state = "mutation_started"]]
  /\ UNCHANGED <<environmentVars, policyVars, lifecycleVars>>

\* A commit that does not look for a standing operation claim.
GatewayCommitUnclaimed(r) ==
  /\ plan[r].pass
  /\ consumption[plan[r].greenlight] = None

\* The unique constraints of commitGatewayCheck hold.
GatewayCommitAccepted(r) ==
  /\ plan[r].pass
  /\ consumption[plan[r].greenlight] = None
  /\ claim[SurfaceOf[plan[r].contract]] = None

CommitGatewayPass(r) ==
  /\ GatewayCommitAccepted(r)
  /\ AdmitMutation(r)
  /\ Answer(r, "gateCommit", "passed")

\* D1 answers an error although the batch landed; the catch block finds the
\* consumption row and reports already_consumed.
CommitGatewayPassAmbiguously(r) ==
  /\ Store = "d1"
  /\ GatewayCommitAccepted(r)
  /\ AdmitMutation(r)
  /\ Proceed(r, "gateCommit", "gateReplay", [plan[r] EXCEPT !.reason = "replayed"])

GatewayAlreadyConsumed(r) ==
  /\ plan[r].pass
  /\ consumption[plan[r].greenlight] # None
  /\ Proceed(r, "gateCommit", "gateReplay", [plan[r] EXCEPT !.reason = "replayed"])
  /\ UNCHANGED <<environmentVars, policyVars, ledger, gateVars, claim, lifecycleVars>>

GatewayOperationInProgress(r) ==
  /\ plan[r].pass
  /\ consumption[plan[r].greenlight] = None
  /\ claim[SurfaceOf[plan[r].contract]] # None
  /\ Proceed(r, "gateCommit", "gateReplay", [plan[r] EXCEPT !.reason = "operation_in_progress"])
  /\ UNCHANGED <<environmentVars, policyVars, ledger, gateVars, claim, lifecycleVars>>

\* commitReplayRefusal: a second commit, with evidence and no consumption.
CommitReplayRefusal(r) ==
  /\ receipt' = [receipt EXCEPT ![r] = @ \cup {plan[r].reason}]
  /\ Answer(r, "gateReplay", "refused")
  /\ UNCHANGED <<environmentVars, policyVars, ledger, consumption, mutation, claim, lifecycleVars>>

GatewayStep(r) ==
  \/ DeriveGatewayConstraints(r)
  \/ CommitGatewayRefusal(r)
  \/ CommitGatewayPass(r)
  \/ CommitGatewayPassAmbiguously(r)
  \/ GatewayAlreadyConsumed(r)
  \/ GatewayOperationInProgress(r)
  \/ CommitReplayRefusal(r)
=============================================================================
