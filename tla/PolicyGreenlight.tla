-------------------------- MODULE PolicyGreenlight --------------------------
(***************************************************************************)
(* areas/policy-greenlight, evaluatePolicy: at most one greenlight per      *)
(* contract and per idempotency ledger key, although the checks read the    *)
(* ledger long before the commit that reserves it.                          *)
(***************************************************************************)
EXTENDS IsolationBreaker

\* loadSequenceDependencyStates: every required prior contract has a greenlight.
PriorsGreenlit(c) == \A p \in Prior[c] : \E g \in Requests : greenlight[g] = p

\* evaluateDeterministicPolicy on what the first reads returned.
DeterministicDecision(p) ==
  IF p.isolation # "clear" THEN p.isolation
  ELSE IF p.fresh THEN "greenlight" ELSE "refuse"

\* What the apply...Policy chain may leave of a decision: each pass only narrows
\* a greenlight.  Path, authority and credential come first and refuse; then the
\* agreement obligation and the exact-action fields, which refuse or leave a
\* proof gap; the ledger last.
Guarded(value, c) ==
  IF value # "greenlight" THEN {value}
  ELSE IF c \notin bound THEN {"refuse"}
  ELSE {IF ledger[AuthorityKey[c]] = None THEN "greenlight" ELSE "refuse"}
         \cup (IF c \in Exacting THEN {"refuse", "proof_gap"} ELSE {})

\* resolvePolicyDecisionValue.  An approved review restarts the chain, but not
\* the deterministic checks and not the sequence dependencies.
ResolvedDecisions(p) ==
  LET first == DeterministicDecision(p)
      sequenced == IF first = "greenlight" /\ ~PriorsGreenlit(p.contract) THEN "refuse" ELSE first
  IN IF sequenced # "review_required" \/ p.review = "none" THEN Guarded(sequenced, p.contract)
     ELSE IF p.review = "approved" THEN Guarded("greenlight", p.contract)
     ELSE {"refuse"}

\* evaluatePolicy up to listIsolationStates: the clock and isolation are read.
EvaluatePolicy(r, c, review) ==
  /\ \E verdict \in PolicyVerdicts(c) :
       Proceed(r, "idle", "policyRead",
               [NoPlan EXCEPT !.contract = c, !.review = review,
                              !.fresh = c \notin expired, !.isolation = verdict])
  /\ UNCHANGED <<environmentVars, policyVars, ledger, gateVars, claim, lifecycleVars>>

\* The remaining reads, ending with the current ledger entry, and the decision.
DerivePolicyConstraints(r) ==
  /\ \E value \in ResolvedDecisions(plan[r]) :
       Proceed(r, "policyRead", "policyCommit", [plan[r] EXCEPT !.decision = value])
  /\ UNCHANGED <<environmentVars, policyVars, ledger, gateVars, claim, lifecycleVars>>

\* commitPolicyDecisionOnly; a "proof_gap" decision has its gap in the commit.
CommitPolicyDecision(r) ==
  /\ plan[r].decision # "greenlight"
  /\ decision' = [decision EXCEPT ![r] = plan[r].decision]
  /\ Answer(r, "policyCommit", "no_authority")
  /\ UNCHANGED <<environmentVars, greenlight, issuance, ledger, gateVars, claim, lifecycleVars>>

\* The atomic commit of decision, greenlight, issuance claim and reservation.
RecordGreenlight(r, c) ==
  /\ decision' = [decision EXCEPT ![r] = "greenlight"]
  /\ greenlight' = [greenlight EXCEPT ![r] = c]
  /\ issuance' = [issuance EXCEPT ![c] = r]
  /\ ledger' = [ledger EXCEPT ![AuthorityKey[c]] =
                  [key |-> AuthorityKey[c], contract |-> c, greenlight |-> r,
                   mutation |-> None, state |-> "authority_reserved"]]
  /\ Answer(r, "policyCommit", "greenlight")
  /\ UNCHANGED <<environmentVars, gateVars, claim, lifecycleVars>>

\* A store that does not hold the ledger key unique.
CommitGreenlightOverReservation(r) ==
  LET c == plan[r].contract IN
  /\ plan[r].decision = "greenlight"
  /\ issuance[c] = None
  /\ RecordGreenlight(r, c)

\* commitGreenlightPolicyDecision, accepted by the store.
CommitGreenlight(r) ==
  LET c == plan[r].contract IN
  /\ plan[r].decision = "greenlight"
  /\ issuance[c] = None
  /\ ledger[AuthorityKey[c]] = None
  /\ RecordGreenlight(r, c)

\* The store reports greenlight_issuance_conflict and the recorder throws, so
\* commitGreenlightIssuanceConflictRefusal never runs.
GreenlightIssuanceConflict(r) ==
  /\ plan[r].decision = "greenlight"
  /\ issuance[plan[r].contract] # None
  /\ Answer(r, "policyCommit", "issuance_conflict")
  /\ UNCHANGED <<environmentVars, policyVars, ledger, gateVars, claim, lifecycleVars>>

\* A conflict handler that goes back to the same commit.
IdempotencyLedgerConflictRetried(r) ==
  /\ plan[r].decision = "greenlight"
  /\ issuance[plan[r].contract] = None
  /\ ledger[AuthorityKey[plan[r].contract]] # None
  /\ Proceed(r, "policyCommit", "policyCommit", plan[r])
  /\ UNCHANGED <<environmentVars, policyVars, ledger, gateVars, claim, lifecycleVars>>

\* The store reports idempotency_ledger_conflict: the decision becomes the
\* refusal commitIdempotencyConflictRefusal then commits.
IdempotencyLedgerConflict(r) ==
  LET c == plan[r].contract IN
  /\ plan[r].decision = "greenlight"
  /\ issuance[c] = None
  /\ ledger[AuthorityKey[c]] # None
  /\ Proceed(r, "policyCommit", "policyCommit", [plan[r] EXCEPT !.decision = "refuse"])
  /\ UNCHANGED <<environmentVars, policyVars, ledger, gateVars, claim, lifecycleVars>>

PolicyStep(r) ==
  \/ DerivePolicyConstraints(r)
  \/ CommitPolicyDecision(r)
  \/ CommitGreenlight(r)
  \/ GreenlightIssuanceConflict(r)
  \/ IdempotencyLedgerConflict(r)
=============================================================================
