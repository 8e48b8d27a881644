----------------------------- MODULE KernelState -----------------------------
(***************************************************************************)
(* The durable state of the protocol kernel and the in-flight requests that *)
(* read and write it.                                                       *)
(*                                                                          *)
(* Every kernel transition (src/protocol/kernel.ts) has one shape: a series *)
(* of awaited store reads, a decision computed from the values read, and    *)
(* ONE atomic store commit.  A request is therefore a small process: each   *)
(* await-separated group of reads is one step, the commit is another, and   *)
(* the steps of different requests interleave.  Requests are one-shot and   *)
(* name what they create: the greenlight issued by request r, the gate      *)
(* attempt, mutation attempt and receipt of r, the reconciliation of r.     *)
(***************************************************************************)
EXTENDS Naturals, FiniteSets

CONSTANTS
  Contracts,      \* action contracts, already proposed
  Requests,       \* one-shot kernel requests
  Surfaces,       \* protected-surface operation claim keys
  LedgerKeys,     \* idempotency ledger keys
  Scopes,         \* isolation scopes
  SurfaceOf,      \* contract -> its claim key
  ContractKey,    \* contract -> the ledger key of its own idempotency key
  AuthorityKey,   \* contract -> the ledger key its authority is reserved under
  ScopesOf,       \* contract -> the isolation scopes consulted for it
  ResourceScope,  \* contract -> the scope an orphaned operation isolates
  Prior,          \* contract -> requiredPriorActionContractIds
  Exacting,       \* contracts held to an agreement or to exact-action fields
  IsolationStates, \* the isolation states the environment may record
  Store,          \* "memory" or "d1"
  LateReconciliation, \* may a mutation be reconciled again, or twice at once?
  None            \* null

VARIABLES
  pc,             \* where each request is
  plan,           \* what each request has read and decided so far
  told,           \* what each request answered its caller
  expired,        \* contracts past expiresAt (or envelope expired / revoked)
  bound,          \* contracts whose external bindings currently evaluate ok
  isolation,      \* current isolation state per scope
  decision,       \* policy_decision recorded by a request
  greenlight,     \* greenlight issued by a request: the contract it is for
  issuance,       \* greenlight_issuances: contract -> greenlight
  ledger,         \* idempotency_ledger_current: key -> entry
  consumption,    \* greenlight_consumptions: greenlight -> gate attempt
  mutation,       \* mutation_attempt created by a gate request
  receipt,        \* receipts emitted by a gate request
  claim,          \* protected_surface_operation_claim_current
  reconciliation, \* surface_operation_reconciliation of a request
  resolvedBy      \* resolvedByRef of the proof gap a reconciliation created

requestVars == <<pc, plan, told>>
environmentVars == <<expired, bound, isolation>>
policyVars == <<decision, greenlight, issuance>>
gateVars == <<consumption, mutation, receipt>>
lifecycleVars == <<reconciliation, resolvedBy>>
vars == <<requestVars, environmentVars, policyVars, ledger, gateVars, claim, lifecycleVars>>

(***************************************************************************)
(* Types                                                                    *)
(***************************************************************************)
PolicyDecisions ==
  {"greenlight", "refuse", "review_required", "halt", "quarantine", "proof_gap"}
AllIsolationStates ==
  {"active", "review_only", "rate_limited", "quarantined", "halted", "revoked", "state_suspect"}
DownstreamStatuses == {"pending", "succeeded", "refused", "failed", "unknown"}
TerminalLedgerStates == {"terminal_succeeded", "terminal_failed", "terminal_refused", "terminal_unknown"}
LedgerStates == {"authority_reserved", "mutation_started"} \cup TerminalLedgerStates
ClaimStates == {"active", "terminal_unknown"}
ReceiptKinds == {"passed", "refused", "replayed", "operation_in_progress"}
Answers == {"pending", "greenlight", "no_authority", "issuance_conflict",
            "passed", "refused", "reconciled", "stream_append_conflict"}
Stages == {"idle", "policyRead", "policyCommit", "gateRead", "gateCommit", "gateReplay",
           "reconcileRead", "reconcileCommit", "done"}

Nullable(S) == S \cup {None}

LedgerEntry == [key : LedgerKeys, contract : Contracts, greenlight : Requests,
                mutation : Nullable(Requests), state : LedgerStates]
Claim == [mutation : Requests, state : ClaimStates]
Mutation == [contract : Contracts, greenlight : Requests]
Reconciliation == [mutation : Requests, status : DownstreamStatuses]

Plan == [contract : Nullable(Contracts), greenlight : Nullable(Requests),
         mutation : Nullable(Requests), claim : Nullable(Claim), ledger : Nullable(LedgerEntry),
         isolation : {"clear", "review_required", "halt", "quarantine"}, fresh : BOOLEAN,
         review : {"none", "approved", "invalid"}, decision : Nullable(PolicyDecisions),
         pass : BOOLEAN, reason : ReceiptKinds, status : DownstreamStatuses,
         orphan : BOOLEAN, gaps : SUBSET Requests]

NoPlan == [contract |-> None, greenlight |-> None, mutation |-> None, claim |-> None,
           ledger |-> None, isolation |-> "clear", fresh |-> FALSE, review |-> "none",
           decision |-> None, pass |-> FALSE, reason |-> "refused", status |-> "pending",
           orphan |-> FALSE, gaps |-> {}]

ASSUME KernelConstants ==
  /\ SurfaceOf \in [Contracts -> Surfaces]
  /\ ContractKey \in [Contracts -> LedgerKeys]
  /\ AuthorityKey \in [Contracts -> LedgerKeys]
  /\ ScopesOf \in [Contracts -> SUBSET Scopes]
  /\ ResourceScope \in [Contracts -> Scopes]
  /\ Prior \in [Contracts -> SUBSET Contracts]
  /\ Exacting \subseteq Contracts
  /\ IsolationStates \subseteq AllIsolationStates
  /\ Store \in {"memory", "d1"}
  /\ LateReconciliation \in BOOLEAN

ASSUME NoneIsNull ==
  /\ None \notin Contracts
  /\ None \notin Requests
  /\ None \notin LedgerEntry
  /\ None \notin Claim
  /\ None \notin Mutation
  /\ None \notin Reconciliation
  /\ None \notin PolicyDecisions

TypeOK ==
  /\ pc \in [Requests -> Stages]
  /\ plan \in [Requests -> Plan]
  /\ told \in [Requests -> Answers]
  /\ expired \in SUBSET Contracts
  /\ bound \in SUBSET Contracts
  /\ isolation \in [Scopes -> AllIsolationStates]
  /\ decision \in [Requests -> Nullable(PolicyDecisions)]
  /\ greenlight \in [Requests -> Nullable(Contracts)]
  /\ issuance \in [Contracts -> Nullable(Requests)]
  /\ ledger \in [LedgerKeys -> Nullable(LedgerEntry)]
  /\ consumption \in [Requests -> Nullable(Requests)]
  /\ mutation \in [Requests -> Nullable(Mutation)]
  /\ receipt \in [Requests -> SUBSET ReceiptKinds]
  /\ claim \in [Surfaces -> Nullable(Claim)]
  /\ reconciliation \in [Requests -> Nullable(Reconciliation)]
  /\ resolvedBy \in [Requests -> Nullable(Requests)]

(***************************************************************************)
(* The contracts are proposed, their bindings evaluate ok and no authority  *)
(* has been asked for yet.                                                  *)
(***************************************************************************)
Init ==
  /\ pc = [r \in Requests |-> "idle"]
  /\ plan = [r \in Requests |-> NoPlan]
  /\ told = [r \in Requests |-> "pending"]
  /\ expired = {}
  /\ bound = Contracts
  /\ isolation = [s \in Scopes |-> "active"]
  /\ decision = [r \in Requests |-> None]
  /\ greenlight = [r \in Requests |-> None]
  /\ issuance = [c \in Contracts |-> None]
  /\ ledger = [k \in LedgerKeys |-> None]
  /\ consumption = [r \in Requests |-> None]
  /\ mutation = [r \in Requests |-> None]
  /\ receipt = [r \in Requests |-> {}]
  /\ claim = [s \in Surfaces |-> None]
  /\ reconciliation = [r \in Requests |-> None]
  /\ resolvedBy = [r \in Requests |-> None]

(***************************************************************************)
(* Requests                                                                 *)
(***************************************************************************)
\* The request starts, or moves on from one awaited read to the next.
Proceed(r, from, to, newPlan) ==
  /\ pc[r] = from
  /\ pc' = [pc EXCEPT ![r] = to]
  /\ plan' = [plan EXCEPT ![r] = newPlan]
  /\ UNCHANGED told

\* The request answers its caller and forgets what it had read.
Answer(r, from, what) ==
  /\ pc[r] = from
  /\ pc' = [pc EXCEPT ![r] = "done"]
  /\ plan' = [plan EXCEPT ![r] = NoPlan]
  /\ told' = [told EXCEPT ![r] = what]

\* A commit that loses its stream offsets MAX_STREAM_COMMIT_RETRIES + 1 times
\* is given up; a crashed worker leaves the same state behind.
Abandon(r) ==
  /\ \E stage \in Stages \ {"idle", "done"} : Answer(r, stage, "stream_append_conflict")
  /\ UNCHANGED <<environmentVars, policyVars, ledger, gateVars, claim, lifecycleVars>>
=============================================================================
