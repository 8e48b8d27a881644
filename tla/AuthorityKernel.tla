--------------------------- MODULE AuthorityKernel ---------------------------
(***************************************************************************)
(* The kernel transitions of src/protocol/kernel.ts over one shared store:  *)
(* policy evaluation, gateway check and reconciliation requests interleave  *)
(* with each other and with isolation, expiry and binding changes.          *)
(***************************************************************************)
EXTENDS OperationLifecycle

CONSTANTS
  PolicyRequests,     \* the requests that may evaluate policy
  GatewayRequests,    \* the requests that may ask for a gateway check
  ReconcileRequests,  \* the requests that may reconcile
  Observations,       \* does the observed parameters digest match the contract's?
  Reviews,            \* what reviewDecisionId may refer to
  Statuses,           \* the downstream statuses reported
  Perishable,         \* contracts that may expire during the run
  Unsteady            \* contracts whose bindings may change during the run

ASSUME RequestKinds ==
  /\ PolicyRequests \subseteq Requests
  /\ GatewayRequests \subseteq Requests
  /\ ReconcileRequests \subseteq Requests
  /\ Observations \subseteq BOOLEAN
  /\ Reviews \subseteq {"none", "approved", "invalid"}
  /\ Statuses \subseteq DownstreamStatuses
  /\ Perishable \subseteq Contracts
  /\ Unsteady \subseteq Contracts

StartPolicy(r) ==
  /\ r \in PolicyRequests
  /\ \E c \in Contracts, review \in Reviews : EvaluatePolicy(r, c, review)

StartGateway(r) ==
  /\ r \in GatewayRequests
  /\ \E c \in Contracts, g \in Requests, exact \in Observations : GatewayCheck(r, c, g, exact)

\* orphanIsolationRequested is read only when the status is "unknown".
OrphanRequests(status) == IF status = "unknown" THEN BOOLEAN ELSE {FALSE}

StartReconcile(r) ==
  /\ r \in ReconcileRequests
  /\ \E m \in Requests, status \in Statuses :
       \E gaps \in SUBSET GapsOf(m), orphan \in OrphanRequests(status) :
         ReconcileSurfaceOperation(r, m, status, orphan, gaps)

RequestStep(r) == PolicyStep(r) \/ GatewayStep(r) \/ LifecycleStep(r)

Environment ==
  \/ \E s \in Scopes, state \in IsolationStates :
       CreateIsolationState(s, state) \/ CreateBreakerDecision(s, state)
  \/ \E c \in Perishable : Expire(c)
  \/ \E c \in Unsteady : ChangeBinding(c)

Next ==
  \/ \E r \in Requests : StartPolicy(r)
  \/ \E r \in Requests : StartGateway(r)
  \/ \E r \in Requests : StartReconcile(r)
  \/ \E r \in Requests : RequestStep(r)
  \/ \E r \in Requests : Abandon(r)
  \/ Environment

Spec == Init /\ [][Next]_vars

\* A started transition is an async function with bounded retries: it goes on
\* until it answers.  Nobody owes a first call, an answer from the provider, or
\* a change of the environment.
FairSpec == Spec /\ \A r \in Requests : WF_vars(RequestStep(r))

(***************************************************************************)
(* Authority                                                                *)
(***************************************************************************)
\* "Duplicate idempotency scope: policy refusal without a second greenlight":
\* however many evaluations read a free ledger at once, one reservation wins.
OneGreenlightPerLedgerKey ==
  \A g, h \in Requests :
    /\ greenlight[g] # None
    /\ greenlight[h] # None
    /\ AuthorityKey[greenlight[g]] = AuthorityKey[greenlight[h]]
    => g = h

\* A greenlight is consumed by the one mutation attempt admitted under it, and
\* no second attempt is ever admitted under the same ledger key.
OneMutationPerLedgerKey ==
  \A m, n \in Requests :
    /\ mutation[m] # None
    /\ mutation[n] # None
    /\ AuthorityKey[mutation[m].contract] = AuthorityKey[mutation[n].contract]
    => m = n

\* A contract is admitted only after every prior contract it names succeeded.
AdmittedInSequence ==
  \A m \in Requests : mutation[m] # None =>
    \A p \in Prior[mutation[m].contract] : \E n \in Requests :
      /\ mutation[n] # None
      /\ mutation[n].contract = p
      /\ FinallyReconciled(n)

\* Isolation that stands from before a request begins is never outrun by it: a
\* gateway check admits nothing, and an evaluation issues nothing if policy heeds
\* the state, approved review or not.  (Isolation declared while the request is
\* under way may be outrun: see the README.)
StandingIsolationHolds ==
  \A r \in Requests, c \in Contracts :
    /\ [](pc[r] = "idle" /\ [](GateBlocked(c)) =>
            [](mutation[r] = None \/ mutation[r].contract # c))
    /\ [](pc[r] = "idle" /\ [](StatesFor(c) \cap PolicyBlocking # {}) => [](greenlight[r] # c))

(***************************************************************************)
(* The idempotency ledger                                                   *)
(***************************************************************************)
\* The holder of a ledger key is final: no later write, however stale the entry
\* it was computed from, hands the key to another contract or greenlight.
LedgerHolderIsFinal ==
  [][\A k \in LedgerKeys : ledger[k] # None =>
       /\ ledger'[k] # None
       /\ ledger'[k].contract = ledger[k].contract
       /\ ledger'[k].greenlight = ledger[k].greenlight]_vars

\* A negotiated contract keeps an idempotency key of its own beside the key of
\* the obligation that its authority is reserved under.  If another contract is
\* reserved under that key, reconciliation takes the other's entry for its own.
Shadowed(k) == \E c \in Contracts : ContractKey[c] = k /\ AuthorityKey[c] # k

\* On D1 the entry of such a contract is closed on a copy of its reservation.
ClosedFromReservation(c) == Store = "d1" /\ ContractKey[c] # AuthorityKey[c]

\* An entry moves reserved -> started -> terminal and never back, although every
\* write replaces the entry by a copy of the one its request read earlier.  Only
\* an entry closed for another contract may yet be started by its own gate.
LedgerRank(state) ==
  IF state = "authority_reserved" THEN 0 ELSE IF state = "mutation_started" THEN 1 ELSE 2

LedgerNeverGoesBack ==
  [][\A k \in LedgerKeys : ledger[k] # None /\ ledger'[k] # None =>
       \/ LedgerRank(ledger[k].state) <= LedgerRank(ledger'[k].state)
       \/ Shadowed(k) /\ ledger[k].state \in TerminalLedgerStates]_vars

\* A terminal entry reports what a reconciliation observed of the attempt that
\* was admitted under its key or, mistaken for it, by a contract of that key.
LedgerTellsTheOutcome ==
  \A k \in LedgerKeys :
    ledger[k] # None /\ ledger[k].state \in TerminalLedgerStates =>
      \E q \in Requests :
        /\ reconciliation[q] # None
        /\ LedgerStateFor(reconciliation[q].status) = ledger[k].state
        /\ reconciliation[q].status \in TerminalStatuses
        /\ LET m == reconciliation[q].mutation IN
             /\ mutation[m] # None
             /\ k \in {AuthorityKey[mutation[m].contract], ContractKey[mutation[m].contract]}

\* Once an attempt is admitted, the entry of its key stays out of the reserved
\* state and names no other attempt.  It names none only when it was closed from
\* the reservation or for another contract; otherwise it names this one.
LedgerNamesTheMutation ==
  \A m \in Requests : mutation[m] # None =>
    LET c == mutation[m].contract
        k == AuthorityKey[c]
        entry == ledger[k]
    IN /\ entry # None
       /\ entry.state # "authority_reserved"
       /\ \/ entry.mutation = m
          \/ /\ entry.mutation = None
             /\ entry.state \in TerminalLedgerStates
             /\ ClosedFromReservation(c) \/ Shadowed(k)

\* "Gateway and reconciliation transitions advance the ledger through
\* mutation-started and terminal states": the terminal entry of an attempt is
\* the started one advanced, so it still names the attempt.
TerminalEntriesNameTheAttempt ==
  \A m \in Requests : mutation[m] # None =>
    LET entry == ledger[AuthorityKey[mutation[m].contract]] IN
    entry # None /\ entry.state \in TerminalLedgerStates => entry.mutation = m

(***************************************************************************)
(* Protected surfaces                                                       *)
(***************************************************************************)
Open(m) == mutation[m] # None /\ ~Released(m)

\* The claim index is exact: a surface is claimed by the operation open on it,
\* and a claim of a closed operation does not linger to block the surface.
ClaimNamesTheOpenOperation ==
  /\ \A m \in Requests : Open(m) =>
       LET held == claim[SurfaceOf[mutation[m].contract]] IN held # None /\ held.mutation = m
  /\ \A s \in Surfaces : claim[s] # None =>
       /\ Open(claim[s].mutation)
       /\ SurfaceOf[mutation[claim[s].mutation].contract] = s

\* "Reconciliation may inspect only the same mutation attempt": its commit
\* changes no claim and, but for a shadowed key, no ledger entry that stands for
\* another one.
ReconciliationKeepsToItsMutation ==
  [][\A r \in Requests : reconciliation[r] = None /\ reconciliation'[r] # None =>
       LET own == reconciliation'[r].mutation IN
       /\ \A s \in Surfaces :
            claim[s] # None /\ claim'[s] # claim[s] => claim[s].mutation = own
       /\ \A k \in LedgerKeys :
            ledger[k] # None /\ ledger'[k] # ledger[k] =>
              Shadowed(k) \/ ledger[k].contract = mutation[own].contract
    ]_vars

(***************************************************************************)
(* Requests                                                                 *)
(***************************************************************************)

\* Every conflict a commit can meet leads to an answer.
EveryRequestIsAnswered == \A r \in Requests : (pc[r] # "idle") ~> (pc[r] = "done")

(***************************************************************************)
(* Why authority is spent once: the inductive strengthening                 *)
(***************************************************************************)
\* What a request under way has named exists.
Grounded(p, stage) ==
  /\ stage \in {"policyRead", "policyCommit"} => p.contract \in Contracts
  /\ stage \in {"gateRead", "gateCommit"} =>
       /\ p.contract \in Contracts
       /\ p.greenlight \in Requests
       /\ greenlight[p.greenlight] # None
       /\ p.fresh => greenlight[p.greenlight] = p.contract
       /\ p.pass => p.fresh
  /\ stage \in {"reconcileRead", "reconcileCommit"} =>
       p.contract \in Contracts /\ p.mutation \in Requests

PlansAreGrounded == \A r \in Requests : Grounded(plan[r], pc[r])

\* A request that has yet to commit has created nothing.
NothingBeforeCommit ==
  \A r \in Requests :
    /\ pc[r] \in {"idle", "policyRead", "policyCommit"} => greenlight[r] = None
    /\ pc[r] \in {"idle", "gateRead", "gateCommit"} => mutation[r] = None

\* Each greenlight holds its ledger key and each ledger entry is held by its
\* greenlight.
GreenlightsHoldTheirKeys ==
  \A g \in Requests : greenlight[g] # None =>
    LET entry == ledger[AuthorityKey[greenlight[g]]] IN
    entry # None /\ entry.contract = greenlight[g] /\ entry.greenlight = g

EntriesAreHeld ==
  \A k \in LedgerKeys : ledger[k] # None =>
    /\ ledger[k].key = k
    /\ greenlight[ledger[k].greenlight] = ledger[k].contract
    /\ AuthorityKey[ledger[k].contract] = k

\* An entry read earlier still has the holder it had, so writing a copy of it
\* back cannot change hands.
HolderStands(entry) ==
  LET current == ledger[entry.key] IN
  /\ current # None
  /\ current.contract = entry.contract
  /\ current.greenlight = entry.greenlight

StaleEntriesHaveTheHolder ==
  \A r \in Requests : plan[r].ledger # None => HolderStands(plan[r].ledger)

\* The greenlight of a mutation attempt is consumed by it and is for its contract.
MutationsConsume ==
  \A m \in Requests : mutation[m] # None =>
    /\ consumption[mutation[m].greenlight] = m
    /\ greenlight[mutation[m].greenlight] = mutation[m].contract

\* One-use authority, strengthened until every step preserves it.
AuthorityInvariant ==
  /\ TypeOK
  /\ PlansAreGrounded
  /\ NothingBeforeCommit
  /\ GreenlightsHoldTheirKeys
  /\ EntriesAreHeld
  /\ StaleEntriesHaveTheHolder
  /\ MutationsConsume

(***************************************************************************)
(* Why the ledger tells the truth: the inductive strengthening              *)
(***************************************************************************)
\* An entry that names an attempt names the one admitted under its key.
NamesItsAttempt(entry) ==
  entry.mutation # None =>
    /\ mutation[entry.mutation] # None
    /\ AuthorityKey[mutation[entry.mutation].contract] = entry.key

\* A request about to rewrite an entry holds a copy of one of its contract's keys.
\* A reconciliation's copy names no attempt only if it is the reservation, or an
\* entry that another contract may have closed.
EntryInHand(r) ==
  LET c == plan[r].contract
      entry == plan[r].ledger
  IN /\ pc[r] = "gateCommit" /\ plan[r].pass =>
          entry # None /\ entry.key = AuthorityKey[c]
     /\ pc[r] \in {"reconcileRead", "reconcileCommit"} =>
          mutation[plan[r].mutation] # None /\ mutation[plan[r].mutation].contract = c
     /\ pc[r] = "reconcileCommit" =>
          /\ entry # None
          /\ entry.key \in {AuthorityKey[c], ContractKey[c]}
          /\ NamesItsAttempt(entry)
          /\ entry.mutation = None =>
               \/ Shadowed(entry.key)
               \/ ClosedFromReservation(c) /\ entry.key = AuthorityKey[c]

EntriesInHand == \A r \in Requests : EntryInHand(r)

\* A request that has yet to commit its reconciliation has recorded none.
NothingReconciledBefore ==
  \A r \in Requests :
    pc[r] \in {"idle", "reconcileRead", "reconcileCommit"} => reconciliation[r] = None

\* An entry without a name is reserved, or was closed for an attempt under its
\* key or for a contract that mistakes the key for its own.
EntriesNameAttempts ==
  \A k \in LedgerKeys : ledger[k] # None =>
    /\ NamesItsAttempt(ledger[k])
    /\ ledger[k].mutation = None /\ ledger[k].state # "authority_reserved" =>
         /\ ledger[k].state \in TerminalLedgerStates
         /\ \/ Shadowed(k)
            \/ \E m \in Requests : mutation[m] # None /\ AuthorityKey[mutation[m].contract] = k

LedgerInvariant ==
  /\ EntriesInHand
  /\ NothingReconciledBefore
  /\ EntriesNameAttempts
  /\ LedgerNamesTheMutation
  /\ LedgerTellsTheOutcome

\* A gateway check about to pass has seen every prior contract succeed.
PassesInSequence ==
  \A r \in Requests : pc[r] = "gateCommit" /\ plan[r].pass => PriorsReady(plan[r].contract)

SequenceInvariant == NothingReconciledBefore /\ PassesInSequence /\ AdmittedInSequence

(***************************************************************************)
(* Why a claim names its operation, if callers are disciplined: the         *)
(* inductive strengthening                                                  *)
(***************************************************************************)
Reconciling(r) == pc[r] \in {"reconcileRead", "reconcileCommit"}

\* Whoever is being reconciled is open, holds the claim that was read, and is
\* reconciled by nobody else.
ReconcilesAlone(r) ==
  Reconciling(r) =>
    /\ Open(plan[r].mutation)
    /\ plan[r].contract = mutation[plan[r].mutation].contract
    /\ plan[r].claim # None
    /\ plan[r].claim.mutation = plan[r].mutation
    /\ \A q \in Requests \ {r} : Reconciling(q) => plan[q].mutation # plan[r].mutation

SurfaceInvariant ==
  /\ NothingReconciledBefore
  /\ \A q \in Requests : reconciliation[q] # None => mutation[reconciliation[q].mutation] # None
  /\ \A r \in Requests : ReconcilesAlone(r)
  /\ ClaimNamesTheOpenOperation

(***************************************************************************)
(* The abstract promise                                                     *)
(***************************************************************************)
Authority == INSTANCE OneUseAuthority
  WITH Keys <- LedgerKeys, Holders <- Contracts, Uses <- Requests, NoHolder <- None,
       holder <- [k \in LedgerKeys |-> IF ledger[k] = None THEN None ELSE ledger[k].contract],
       uses <- [k \in LedgerKeys |->
                  {m \in Requests : mutation[m] # None /\ AuthorityKey[mutation[m].contract] = k}]

AuthoritySpec == Authority!Spec
=============================================================================
