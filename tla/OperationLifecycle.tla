------------------------- MODULE OperationLifecycle -------------------------
(***************************************************************************)
(* areas/operation-lifecycle, reconcileSurfaceOperation: evidence about what *)
(* became of an admitted mutation closes its ledger entry and releases the  *)
(* surface claim.  The claim and the ledger entry are found through the     *)
(* CONTRACT, not through the mutation attempt under reconciliation.         *)
(***************************************************************************)
EXTENDS GatewayGate

\* OPERATION_LIFECYCLE_MATRIX: the statuses with keepClaimBlocking = false
ReleasingStatuses == {"succeeded", "refused", "failed"}

\* operationLifecycleFor(status).claimState # "active"
TerminalStatuses == ReleasingStatuses \cup {"unknown"}

Released(m) == \E q \in Requests : /\ reconciliation[q] # None
                                   /\ reconciliation[q].mutation = m
                                   /\ reconciliation[q].status \in ReleasingStatuses

\* ledgerStateForReconciliation, for the terminal statuses
LedgerStateFor(status) ==
  CASE status = "succeeded" -> "terminal_succeeded"
    [] status = "refused" -> "terminal_refused"
    [] status = "failed" -> "terminal_failed"
    [] OTHER -> "terminal_unknown"

\* The proof gaps of m: each reconciliation that stays unknown recorded one.
GapsOf(m) == {x \in Requests : reconciliation[x] = [mutation |-> m, status |-> "unknown"]}

\* A caller that asks again only when the last answer left the operation open,
\* and never twice at once.  Nothing in the kernel holds callers to it.
Disciplined(m) ==
  /\ ~Released(m)
  /\ \A q \in Requests : pc[q] \in {"reconcileRead", "reconcileCommit"} => plan[q].mutation # m

\* assertReconciliationInputBoundary: an unknown outcome resolves no proof gap.
ReconciliationInputBoundary(status, gaps) == status = "unknown" => gaps = {}

\* Input boundary, guards, and the first reads: the proof gaps to resolve and
\* currentClaimForContract.
ReconcileSurfaceOperation(r, m, status, orphan, gaps) ==
  /\ mutation[m] # None
  /\ gaps \subseteq GapsOf(m)
  /\ ReconciliationInputBoundary(status, gaps)
  /\ LateReconciliation \/ Disciplined(m)
  /\ Proceed(r, "idle", "reconcileRead",
             [NoPlan EXCEPT !.contract = mutation[m].contract, !.mutation = m,
                            !.status = status, !.orphan = orphan, !.gaps = gaps,
                            !.claim = claim[SurfaceOf[mutation[m].contract]]])
  /\ UNCHANGED <<environmentVars, policyVars, ledger, gateVars, claim, lifecycleVars>>

\* listRecordsByActionContract(...).at(-1): the newest entry of the contract in
\* memory; D1 lists newest first, so the reservation, which names no mutation.
LastListedEntry(c) ==
  LET entry == ledger[AuthorityKey[c]] IN
  IF entry = None \/ Store = "memory" THEN entry ELSE [entry EXCEPT !.mutation = None]

\* currentIdempotencyLedgerForContract
LedgerEntryForContract(c) ==
  IF ledger[ContractKey[c]] # None THEN ledger[ContractKey[c]] ELSE LastListedEntry(c)

ReadCurrentIdempotencyLedger(r) ==
  /\ Proceed(r, "reconcileRead", "reconcileCommit",
             [plan[r] EXCEPT !.ledger = LedgerEntryForContract(plan[r].contract)])
  /\ UNCHANGED <<environmentVars, policyVars, ledger, gateVars, claim, lifecycleVars>>

\* A lifecycle matrix in which unknown finality frees the surface.
ClaimsAfterReleasingUnknown(p) ==
  IF p.claim = None \/ p.status = "pending" THEN claim
  ELSE [claim EXCEPT ![SurfaceOf[p.contract]] = None]

\* The claim index after the commit of p: an unknown finality re-enters the
\* claim that was read, a known one deletes whatever the key now holds.
ClaimsAfter(p) ==
  IF p.claim = None \/ p.status = "pending" THEN claim
  ELSE [claim EXCEPT ![SurfaceOf[p.contract]] =
          IF p.status = "unknown" THEN [p.claim EXCEPT !.state = "terminal_unknown"] ELSE None]

\* Terminal entries rebuilt without the attempt, with a fixed outcome, or put
\* back to work when finality is unknown.
Closing(p, entry) ==
  IF p.ledger = None \/ p.status = "pending" THEN ledger
  ELSE [ledger EXCEPT ![p.ledger.key] = entry]
LedgerAfterForgetting(p) ==
  Closing(p, [p.ledger EXCEPT !.state = LedgerStateFor(p.status), !.mutation = None])
LedgerAfterAssumingSuccess(p) ==
  Closing(p, [p.ledger EXCEPT !.state = "terminal_succeeded"])
LedgerAfterReopening(p) ==
  Closing(p, [p.ledger EXCEPT !.state = IF p.status = "unknown" THEN "mutation_started"
                                        ELSE LedgerStateFor(p.status)])

\* The ledger index after the commit of p: the entry that was read, closed.
LedgerAfter(p) ==
  IF p.ledger = None \/ p.status = "pending" THEN ledger
  ELSE [ledger EXCEPT ![p.ledger.key] = [p.ledger EXCEPT !.state = LedgerStateFor(p.status)]]

\* buildOrphanIsolationState
IsolationAfter(p) ==
  IF p.status = "unknown" /\ p.orphan
  THEN [isolation EXCEPT ![ResourceScope[p.contract]] = "state_suspect"]
  ELSE isolation

\* commitSurfaceOperationReconciliation
CommitSurfaceOperationReconciliation(r) ==
  LET p == plan[r] IN
  /\ reconciliation' = [reconciliation EXCEPT ![r] = [mutation |-> p.mutation, status |-> p.status]]
  /\ resolvedBy' = [x \in Requests |-> IF x \in p.gaps THEN r ELSE resolvedBy[x]]
  /\ claim' = ClaimsAfter(p)
  /\ ledger' = LedgerAfter(p)
  /\ isolation' = IsolationAfter(p)
  /\ Answer(r, "reconcileCommit", "reconciled")
  /\ UNCHANGED <<expired, bound, policyVars, gateVars>>

LifecycleStep(r) ==
  \/ ReadCurrentIdempotencyLedger(r)
  \/ CommitSurfaceOperationReconciliation(r)
=============================================================================
