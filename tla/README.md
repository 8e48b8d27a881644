# The Handshake protocol kernel in TLA+

The Handshake kernel stands between agents that propose actions and gateways that
mutate protected surfaces. An action contract gets authority once (a greenlight),
the gateway spends it once (a gate attempt that admits one mutation), and
reconciliation later reports what became of the mutation. Everything is an
append-only record next to a handful of *current* indexes that a store commit
reads and writes under uniqueness constraints.

All of it is asynchronous TypeScript. A handler awaits a series of reads, decides,
and makes **one** atomic commit; a conflict is met by a second, different commit.
Nothing holds other requests back between a read and the commit. This project
models that shape once for every place where the promises of the kernel, and of
what is built on it, depend on it:

| Family | Modules | The question |
|---|---|---|
| Intake | `Intake` | what may become a contract while drafts and the catalog change? |
| Negotiation | `Negotiation`, `OneUseAuthority` | does authority rest on accepted terms, once per obligation? |
| Bindings | `Bindings` | does authority rest on bindings that held, however they are replaced? |
| Authority | `KernelState`, `IsolationBreaker`, `PolicyGreenlight`, `GatewayGate`, `OperationLifecycle`, `AuthorityKernel`, `OneUseAuthority` | is authority granted and spent once, whatever the interleaving? |
| Gateways | `SurfaceGateways` | does a surface act once, and is what is reported what happened? |
| Evidence | `EvidenceReadback`, `AuthorityCertificate` | is a caller who asks where the operation stands told the truth? |
| Streams | `EventStreams`, `AtomicAppendLog` | does each event stream stay one hash chain? |
| Recovery | `RecoveryTerminal` | does a recommendation end once, with evidence for every loser? |

Each family has an `MC...` module with the constants TLC uses and a `...Proofs`
module that TLAPS checks. `PROJECT.json` lists runs, mutants, the source lines of
every definition, hazards, findings and theorems.

## 1. Inventory

Paths are relative to `src/src/protocol/areas` unless they say otherwise.

### Parts that are modelled

**Kernel facade** (`../kernel.ts`). No state of its own: one method per
transition, over a store and a recorder. Transitions interact only through the
store. Hard: any two methods may be in flight at once. Correct when: the handlers
below are, together.

**Drivers of generated code** (`../../runtime/ingress`,
`../../runtime/codemode-multi-action`, `runtime-evidence`,
`generated-execution-graph`, `tool-call-draft`, `intent-compilation`,
`action-contract`). State: executions, graphs with their coverage, drafts,
compilations, contracts. A driver takes a block of actions through all of it, one
awaited transition after another. Hard: anyone may transition a draft meanwhile,
and drafts are written back whole; the catalog drifts between a compilation and its
proposal; any await may throw. Correct when: a contract rests on a draft finalized
with its parameters, an uncovered block gets nothing, priors are the earlier
contracts, and "proposed" is told of whole blocks only.

**Negotiation** (`negotiation`). State: offers, decisions, agreements, obligation
bindings, status transitions. Each operation checks listings and commits one
record; no commit repeats a check. Policy reads the result. Hard: two agreements,
two bindings, two transitions at once. Correct when: a greenlight rests on accepted
terms, an obligation is cleared once per ledger scope, and an agreement that was
left, or a contract bound twice, gets no authority.

**Bindings** (`bypass-probe`, `protected-path-posture`, `credential-custody`,
`delegated-authority`, the gateway registry entry of `object-registry`). State:
probes, postures and the current posture per path, credential refs, authority refs,
evidence and custody packets. Policy and gate read them one await at a time.
Hard: each may be replaced between two reads, or expire. Correct when: a decision
rests on bindings each of which held at some moment since it began.

**Policy and greenlights** (`policy-greenlight`). State: `policy_decision` and
`greenlight` records, the `greenlight_issuances` claim per contract. Operation:
`evaluatePolicy` reads contract, isolation, posture, credentials, delegation,
prior contracts and ledger; decides through a chain of guards, where a review may
lift `review_required`; commits a decision alone, or decision, greenlight, issuance
claim and ledger reservation together. Hard: the reads are long before the commit;
two evaluations may both find the key free. Correct when: one greenlight per ledger
key, none against standing isolation.

**Gateway gate** (`gateway-gate`). State: `gate_attempt`, `mutation_attempt`,
receipts, `greenlight_consumptions`. Operation: `gatewayCheck` loads contract
and greenlight, derives constraints, then one commit that consumes the greenlight,
admits the mutation, claims the surface, and moves the ledger on; conflicts become
a replay refusal in a second commit. Hard: two checks at once, a stale ledger copy,
a D1 batch that lands and throws. Correct when: one mutation per key, in sequence.

**Operation lifecycle** (`operation-lifecycle`, `proof-gap`). State: the claim of
each protected surface, reconciliations, proof gaps. Operation:
`reconcileSurfaceOperation` reads the claim and the ledger entry *through the
contract*, closes the entry, releases or keeps the claim, resolves or records
gaps, may isolate an orphan. Hard: outcomes come late, twice, or not at all.
Correct when: the claim names the open operation, the ledger tells its outcome.

**Idempotency ledger** (`idempotency-ledger`). State: one current entry per key,
reserved, started, terminal. No operation of its own; policy, gate and
reconciliation write it, each a copy of what it read. Correct when: the holder is
final and the state never goes back.

**Isolation breaker** (`isolation-breaker`). State: the current isolation entry
per scope; breaker decisions bound to stream watermarks. Operations:
`createIsolationState`, `createBreakerDecision`. Hard: entries overwrite each
other; a watermark is checked before the commit. Correct when: standing isolation
is never outrun, and a watermark stays durable.

**Surface gateways** (`../../adapters`). State: none stored; each run holds what
the gate admitted and what its surface answered. Hard: a host stops, or loses an
answer, between admission and report, and callers retry. Correct when: a surface
acts at most once for a greenlight, and what is reported succeeded has happened.

**Evidence** (`../evidence-projections`, `authority-certificate`, `receipt-export`).
State: none a decision reads; a certificate is signed over what an assembly found.
Operations: assemble the newest evidence of a contract in a dozen awaited reads,
derive status and advice, mint a certificate from a terminal record, ask whether a
certificate binds its terminal.
Hard: the reads are not one snapshot, newer evidence arrives while they go on.
Correct when: the advice is sound for what had happened when the read began, and a
certificate tells of its own terminal record.

**Events** (`../events`). State: `stream_events`. Operations: `buildEventChain`,
`commitRecordsWithEvents` and its retry loop. Hard: one await per event, several
partitions per chain, a race for every offset. Correct when: each partition is one
chain, commits are whole, writers give up only when outrun.

**Stores** (`../../storage/memory`, `../../storage/d1`). State: records and
indexes. Operations: `commitProtocolRecords`, `commitGatewayCheck`, listings. D1
may report an error after a batch landed and lists newest first.

**Recovery** (`recovery`, and the linked proposal of `action-contract`). State:
recommendations, transitions, `recovery_terminal_claims`, proof gaps. Operations:
`transitionRecoveryRecommendationStatus`, `proposeActionContract` of a linked
candidate, `resolveRecoveryTerminalConflictProofGap`. Hard: the recommendation is
read, then awaited past, then written back whole; the loser's evidence is a second
commit. Correct when: it ends once, and losers leave a gap that names the winner.

### Parts that are not modelled

| Part | What it is | Why not |
|---|---|---|
| `catalog-envelope`, rest of `object-registry` | registrations and digests of gateways, actions, envelopes | records immutable by id through the kernel; their drift and expiry enter as one fact (`expired`, the version of `Intake`, the registry entry of `Bindings`) |
| `review-binding` | artifacts and decisions of reviewers | an approved, invalid or absent review is an input of `evaluatePolicy` |
| `action-attempt-lifecycle` | a table from record states to lifecycle rows | a pure projection that nothing decides on |
| `receipt-export` beyond a receipt's admission status; timeline, labels and redaction of `../evidence-projections` | packaged evidence | repackaging of immutable records |
| signatures, trust material and status records of `authority-certificate/verify.ts` | verification of a certificate | a pure function of a certificate and material from outside; what it asks of the terminal and the envelope is modelled |
| `refusal`, `install-setup`, `protected-action-representation` | records and schemas | nothing reads them back to decide |
| `../context`, `../foundation`, `../navigation` | ids, digests, links | pure; a digest is identified with what it digests |
| `../../storage/kv` | a cache of catalog lookups | outside the authority decision |
| `../../http`, `../../hosted-admission`, `../../surfaces`, `../../sdk`, `../../cli`, `../../mcp` | routes, admission, clients | they pass the kernel's answers on; `Throw` and `Report...Throws` are what a lost answer means to a driver or gateway |
| profiles and proposals of `../../adapters` | pure checks of parameters | the nondeterministic refusal of a proposal |
| `../../adapter-sdk`, `../../conformance`, `../../install`, `src/examples` | types, reports, demonstrations | no state |

## 2. How the models correspond to the code

### Intake

`Intake` follows one driver with its block, since drivers share nothing but the
world: `CreateRuntimeExecution`, `CreateGeneratedExecutionGraph`, `OpenDraft`,
`CheckFinalize`/`CommitFinalize`, `CompileIntent`, `PinProposal`/`CommitContract`,
`Answer`. Drafts are read in one step and written back whole in another, by the
driver and by others (`CheckTransition`/`CommitTransition`). Everything else a
compilation consults (catalog, envelope, capability, bindings) is a world that
`Tick`, `ReplaceCatalog` and `ChangeBindings` move. A codemode program compiles the
whole block before it proposes anything and breaks off at a refusal; the ingress
takes its actions one after another and goes on. `Throw` ends the driver at any
await; a commit that lands and throws is `Throw` after the step. A compilation
reads and commits in one step, as nothing that it writes is contended.

### Negotiation

Operations come in two steps, a check against listings and `CommitNegotiationRecord`,
which repeats none of it: `Offer`, `Decide`, `Agree`, `Bind`, `ChangeStatus` name the
checks. A refusal writes nothing and is a stutter. `createdAt` is the caller's, so the
current status of an agreement is that of its latest *dated* transition. An evaluation
lists the bindings of its contract, evaluates their agreement, then commits a greenlight
under the obligation's ledger key, or no authority: `ListBindings`,
`EvaluateAgreement`, `CommitObligationGreenlight`, `WithholdAuthority`. The session is in
`Init`: it is recorded once and never changes.

A decision record carries the version and sequence of the offer, not its content. The
field `offer` of a decision is what its event names, and no later check reads it: the
properties use it to say what was accepted.

### Bindings

One contract, and everything policy and gate read for it: `ReadBinding` is one await,
`CommitPolicy` and `CommitGate` are the ends. The bindings are replaced by their own
operations: `CreateBypassProbe`, `CheckPosture`/`CommitPosture` (a posture is checked
against its probes before its commit), the registrations, `CreateIsolationState`,
`ReplaceGatewayRegistryEntry`, and time. `held` is a history variable: for each request
what has held at some moment since it began.

What holds is weaker than one would guess, and the properties say it: reads are not
atomic, so a pass does not mean that all bindings held at one moment. A grant's status
is part of the digest that pins an authority ref (`delegated-authority/transitions.ts:370`),
so a grant that changed is no longer the one the contract names. A revocation is an
isolation state, and a later `active` one lifts it (`docs/` treats isolation the same way). A custody packet may
cite a posture that has been superseded. A registry entry is immutable by id through the
kernel; its replacement here is a direct write to the store.

### Authority

`KernelState` declares the state: one variable per index or record kind, one
program counter, plan and answer per request. A request is one call of a
transition; what it creates (greenlight, attempt, receipt, reconciliation) has the
request's name, as every id is fresh. Digests are identified with what they
digest. The reads of a handler are grouped into the two groups that matter: those
before the current ledger entry is read and those that end with it. Each is one
step, and the commit is another.

| Module | Code | Steps |
|---|---|---|
| `PolicyGreenlight` | `evaluatePolicy` | `EvaluatePolicy`, `DerivePolicyConstraints`, `CommitPolicyDecision`, `CommitGreenlight`, `GreenlightIssuanceConflict`, `IdempotencyLedgerConflict` |
| `GatewayGate` | `gatewayCheck` | `GatewayCheck`, `DeriveGatewayConstraints`, `CommitGatewayRefusal`, `CommitGatewayPass`, `CommitGatewayPassAmbiguously`, `GatewayAlreadyConsumed`, `GatewayOperationInProgress`, `CommitReplayRefusal` |
| `OperationLifecycle` | `reconcileSurfaceOperation` | `ReconcileSurfaceOperation`, `ReadCurrentIdempotencyLedger`, `CommitSurfaceOperationReconciliation` |
| `IsolationBreaker` | isolation writers, clock, bindings | `CreateIsolationState`, `CreateBreakerDecision`, `Expire`, `ChangeBinding` |
| `AuthorityKernel` | the facade | `Next`, fairness, the properties |
| `OneUseAuthority` | the promise | `Grant`, `Use` |

`bound` stands for the evaluation of posture, credentials, delegation and gateway
registry: the set of contracts for which they all evaluate ok at this moment.
`Abandon` is a commit that lost its stream offsets too often, or a worker that
died: the request answers nothing more and has written nothing.

Policy's passes are `Guarded`: path, authority and credential refuse, then the agreement
obligation and the exact-action fields refuse or leave a proof gap, the ledger comes last.
`Exacting` names the contracts held to an agreement or to such fields; which field fails
depends on the contract alone and is one choice.

`AuthorityKey` is the ledger key a contract is reserved under, `ContractKey` that
of its own idempotency key. They differ for negotiated contracts, which are
reserved under the scoped key of an agreement obligation. Reconciliation looks under
`ContractKey` and, finding nothing, takes the last of the contract's listed entries
(`LedgerEntryForContract`): the newest in memory, the reservation on D1
(`LastListedEntry`). Two names say where that goes wrong, `Shadowed` (another contract is
reserved under that key, and its entry is closed instead) and `ClosedFromReservation`
(D1, differing keys: the started entry is replaced by a terminal copy of the reservation).

The mapping to `OneUseAuthority` takes the holder of a key from the ledger and its
uses from the mutation attempts.

### Gateways

A run of a surface gateway is gate, credential evidence, surface call and report over an
atomic kernel: `GatePasses`/`GateRefused`/`GateThrows`, `ResolveCredential`, `Execute`,
`Report`, `RefuseUnsafe`, `ReportFailure`, each with a variant that throws, and `Stop`. That
the kernel is one step here is what the refinement of `OneUseAuthority` by
`AuthorityKernel` justifies. `GateRefused` may have admitted (the D1 replay answer).
Surfaces are honest: what they answer is what they did; what an x402 surface calls
succeeded is what its configuration says. A run that stops or throws leaves its
claim until someone reconciles.

### Streams

`EventStreams` follows one writer from `buildEventChain`, one event per step as
the code awaits one tail per event, to the commit, the conflicts and the retries.
A partition stands for a stream id with a partition key. A writer may have a
refusal to fall back on, as the gateway does, with a chain and a retry loop of its
own. `AtomicAppendLog` is the promise: one log per partition to which a commit
appends once, in all its partitions at the same moment.

### Evidence

`EvidenceReadback` extends `AuthorityKernel` by what the authority path leaves out
because no decision reads it: the order of decisions and gate attempts by `createdAt`,
what each request was asked (`asked`), which scopes ever had an isolation state
(`recorded`). A `reader` lists the records of a contract one list at a time
(`ListRecords`), then the ledger, the gaps and the isolation states (`ReadLedger`,
`ReadProofGaps`, `ReadIsolation`), while the kernel goes on (`KernelGoesOn`). On the memory
store the record lists are one moment, on D1 they are not. `Assembled`, `Status`,
`NextMechanism` and `GreenlightUse` are the projections of `projections.ts`.
`AuthorityCertificate` extends it in turn: a mint starts from a terminal record, reads
the same assembly, and puts its own record in place of the newest one
(`CertifiedEnvelope`); `BindingHolds` is what `verify.ts` asks of the terminal and the
envelope. Digests are identified with what they digest. `reader.began` and
`reader.standing` are history: what had happened when the read began, and what held
all the while.

### Recovery

`RecoveryTerminal` has three kinds of request. A status change and a linked
proposal read the recommendation (`LoadRecommendation`), check it at a later
moment (`CheckChange`), and commit its terminal status with the claim
(`CommitChange`) or go on to their proof gap (`TerminalConflict`,
`RecordTerminalConflict`). A resolution reads the gap, checks it against the
transition and recommendation of a later moment, and writes it back. `window` says
where the clock stands to `retryNotBefore` and `recoveryExpiresAt`. Callers name
only contracts and transitions that exist, as ids are made by the kernel; the
guards of a proposal that read other objects are one nondeterministic refusal.
`CommitFails` is a commit answered with an error that is no known conflict; on D1
it may have landed.

`createRecoveryRecommendation` is folded into `Init`: recommendations do not
interact before they exist.


## 3. Runs

Every run is exhaustive for its constants. Bounds are the constants themselves:
requests, drivers and writers are one-shot, so no counter needs a cap, except
`MaxRetries` (1 in the runs, `MAX_STREAM_COMMIT_RETRIES` = 3 in the code, any
number in the proofs). Each property of a passing run was also seen to fail under a
mutated definition (`PROJECT.json`, `mutants`); the mutated forms stand next to the
definitions they mutate, with a comment that says so. Type correctness and the
inductive invariants are not repeated in every run: TLC agreed with them while they
were developed, and the theorems of section 4 state them for all constants.

| Run | Instance | Distinct states | Shows |
|---|---|---|---|
| `intake` | one program over seven kinds of block of up to three actions, as ingress or codemode; another caller on its drafts, a drifting catalog, time | 944 008 | contracts rest on finalized drafts, uncovered blocks get nothing, priors are the earlier contracts, a caller told "proposed" has the whole block |
| `negotiation` | one session of two parties: 2 offers, which may be rivals of one version, 1 decision, 2 agreements, 2 bindings, 2 status transitions, 2 evaluations, 2 contracts | 323 674 | a greenlight clears what the counterparty accepted, content included unless a rival has the version; one greenlight per obligation key, agreements that were left and ambiguous bindings withhold |
| `bindings` | one contract, its path and another; a probe of either, 2 postures, replaced credential, authority and registry entries; an evaluation, a gate check, evidence and a packet; time | 1 822 206 | greenlights and passes rest on bindings that held, probes of the right path though two postures race, evidence of its own gate |
| `authority_race` | 2 contracts, one key, 2 evaluations, 2 gate checks, 1 reconciliation, a scope that may be halted | 22 077 | refinement of `OneUseAuthority`, isolation that stands from before a request is never outrun, every request answers |
| `surface_claims` | 2 operations on one surface, one under an obligation key, D1, 2 reconciliations that report pending, succeeded or unknown | 660 986 | the claim names the open operation, a reconciliation keeps to its mutation |
| `ledger` | D1; c2 under an obligation key, with the key of c3 for its own; c3 after c2 on a surface of its own, c1 beside c2; approved reviews, a scope in `review_only`, undisciplined reconciliations | 645 741 | c3 is admitted only after c2 succeeded; entries never go back, tell what was observed and name no other attempt, none at all only where the code forgets it |
| `readback` | 2 contracts on one surface of D1, 2 evaluations that may end in a proof gap, 1 gate check, 1 reconciliation of unknown finality, a halt; one reader or mint | 1 113 292 | sound advice, admissions and unknowns not hidden, certificates of their own terminal |
| `gateways` | a payment run twice by its caller, an API call, a local mutation, one surface | 613 344 | no double effect, no success that did not happen, one operation at a time, callers told what the ledger goes on saying, every admission reported while its host lives |
| `streams` | 4 writers, 2 partitions, one contended key whose losers refuse in both partitions, D1, a breaker | 180 819 | contiguous chains, bound watermarks, honest receipts, giving up only under contention, refinement of `AtomicAppendLog`, every writer answers |
| `recovery` | 2 recommendations, 2 proposals, 1 status change, 2 resolutions, D1 | 160 360 | one end per recommendation, follow-ups, gaps and their resolution, every request answers |
| `late_release`, `forgotten_attempt` | small, until the violation is found | 6 469 and 36 | the findings of section 5 |

Why the bounds are enough. The conflicts are between two requests over one index
entry; a third party matters where one request's stale copy is overtaken by two
others (two gates and a reconciliation, three writers on one offset), and the runs
have it. Two contracts give both kinds of sharing: one key with two surfaces, one
surface with two keys; `ledger` adds the scoped key of an obligation, the contract whose
entry it is mistaken for, and one that waits for it. In `streams` the writer without a key
meets two foreign commits in its partition, that of the gateway that won the key and the
refusal of the other, so with `MaxRetries = 1` it may lose both attempts and answers
`stream_append_conflict`. Two postures are what a race for the current one
takes. Three actions
are enough for two priors and for a sibling that spoils a block. Two agreements on one
decision, and two bindings of one contract, are what listings fail to prevent. The
proofs then cover any number for the properties they reach.

`CHECK_DEADLOCK FALSE` in every passing run: requests and writers are one-shot, and the
system may rest when they are done. Symmetry (requests within their kind, writers
that differ in name) is used only in runs without liveness.

**Fairness.** The fair specifications ask weak fairness of the next step of a
request, writer or gateway run that has started. The code justifies that and no more:
a handler is an async function whose only loop is bounded by its retries, so it goes
on whenever the store answers. Nobody owes a first call, a report from downstream, a
resolution, a change of time or isolation, an `Abandon`, a `Stop` or a failing commit,
and none of these is fair. In `EventStreams` a failing commit is one of the ways a
writer's step may go, not a step it is owed; in `SurfaceGateways` a throwing await is.

**The caller's part.** `LateReconciliation = FALSE` makes callers of
`reconcileSurfaceOperation` ask one at a time and only while the operation is
open (`Disciplined`). The kernel does not enforce it: the claim properties are
checked under it, the ledger properties without it, and `late_release` shows what
is lost without it. Reviews are approved or absent in the runs; the proofs take invalid
ones as well.

## 4. Proofs

TLAPS proves, for all constants that satisfy the named assumptions (types of the
constants; `None` is none of the values it stands beside; request kinds are
disjoint where they are):

| Theorem | Statement | Module |
|---|---|---|
| `IntakeKept` | `Spec => []IntakeInvariant` | `IntakeProofs` |
| `RestsOnFinalizedDrafts`, `NothingUncovered`, `PriorsAreComplete`, `ToldOfWholeBlocks` | the four properties of `intake` | |
| `NegotiationHolds`, `ObligationsAreClearedOnce` | the inductive invariant; one greenlight per obligation key | `NegotiationProofs` |
| `TermsWereAccepted`, `LeftForGood`, `AmbiguityWithholds` | the safety properties of `negotiation` | |
| `NegotiationKeepsOneUseAuthority` | negotiation implements `OneUseAuthority` | |
| `BindingsKept` | the inductive invariant | `BindingsProofs` |
| `GreenlitOnBindings`, `PassedOnBindings`, `PassOnProbes`, `EvidenceOfItsGate` | the four properties of `bindings` | |
| `AuthorityHolds`, `TypeCorrect` | `Spec => []AuthorityInvariant`, `[]TypeOK` | `AuthorityKernelProofs` |
| `OneGreenlight`, `OneMutation` | one greenlight, one mutation per ledger key | |
| `HolderIsFinal` | the holder of a key never changes | |
| `KernelKeepsOneUseAuthority` | the kernel implements `OneUseAuthority` | |
| `LedgerHolds`, `MutationsAreNamed`, `OutcomesAreTold`, `LedgerAdvances` | the inductive invariant of the ledger and its three properties, on either store and for any keys | |
| `SequenceHolds` | a contract is admitted only after its priors succeeded | |
| `IsolationHolds` | isolation that stands from before a request is never outrun | |
| `ClaimsAreExact`, `ReconciliationIsSelective` | the properties of `surface_claims`, assuming `~LateReconciliation` | |
| `ReadersAreSpectators` | `EvidenceSpec => Spec`: whatever is proved of the kernel holds while it is read | `EvidenceProofs` |
| `OffersAreGood`, `AdmissionsAreRemembered`, `UnknownsAreTold`, `CertificatesTellTheirTerminal` | the four properties of `readback` | |
| `GatewayKept` | the inductive invariant | `SurfaceGatewaysProofs` |
| `EffectsFollow`, `SuccessHappened`, `OneAtATime`, `CallersAreTold` | the safety properties of `gateways` | |
| `StreamsHold`, `StreamTypes` | `Spec => []StreamInvariant`, `[]TypeOK` | `EventStreamsProofs` |
| `StreamsAreContiguous`, `WatermarksAreDurable` | no gap, fork or broken link; recorded watermarks name stored events | |
| `CommitsHold` | `Spec => []CommitInvariant`, the second inductive invariant | |
| `ReceiptReferencesAreHonest`, `GivingUpMeansContention` | what receipts reference is stored and complete; giving up means more foreign commits than retries | |
| `StreamsKeepAtomicAppendLog`, `CommitsAreOrdered` | the streams implement `AtomicAppendLog`; commits come in one order in all partitions | |
| `StepsAreCounted`, `WritersRunOutOfSteps` | a writer has a natural number of steps left, and each step uses some up | |
| `RecoveryHolds`, `RecoveryTypes` | `Spec => []RecoveryInvariant`, `[]TypeOK` | `RecoveryTerminalProofs` |
| `TerminalsAgree`, `FollowUpsSupersede` | one end per recommendation, one follow-up | |
| `ConflictsAreRecorded`, `GapsNameTheWinner`, `StatusIsFinal` | losers have a gap, resolved by the winner; a closed recommendation is not rewritten | |

**Intake.** What a driver knows follows from the step it has come to. The invariant
says so for every stage, and adds that what compilations and contracts name is
recorded (`Kept` facts about graph, drafts and compilations), that a coverage never
changes, and that a finalization about to be committed has the parameters of its
draft. A draft may still leave `finalized`, so the property speaks of the draft the
proposal read.

**Negotiation.** Records are grounded in those they name and none is taken back, so
terms reach a greenlight through decision and agreement. An agreement was compared with an
offer of the decision's version and sequence; if its content is not that of the offer
decided upon, two offers of one version were recorded (`Rivalled`). Status transitions only leave
`active`; a transition dated earlier than another cannot bring an agreement back. The
step that commits a greenlight repeats its uniqueness checks in the store, and from
there on the argument is the kernel's: greenlights hold their keys.

**Bindings.** Whatever a request has read is in its history (`held`), and a history only
grows. The rest is that a posture is recorded only over sound probes of its own path,
which survives replacement since a replacement was checked in the same way.

**Authority.** That a key has one greenlight does not follow from itself: a gate
writes back a ledger entry it read before other awaits. `AuthorityInvariant`
adds that greenlights hold their keys and entries their greenlights
(`GreenlightsHoldTheirKeys`, `EntriesAreHeld`), that every copy of an entry held
by a request has the holder of the current one (`StaleEntriesHaveTheHolder`),
that mutations consume their greenlights (`MutationsConsume`), and what a request
under way has and has not created. The key lemma is `RewriteKeepsHolders`: writing
back a stale copy may change the state of an entry but not its holder. From the
invariant, each step either leaves holders and uses alone, grants a free key, or
uses an unused one, which is the refinement.

**Ledger.** No assumption about keys or store is made; the properties state the
exceptions. `LedgerInvariant` adds to them what a request is about to write back
(`EntryInHand`): a gate's copy is of its contract and still reserved as long as the
greenlight is unspent; a reconciliation's copy is of one of the contract's two keys, and
names its mutation unless the key is shadowed or, on D1, the copy is the reservation.
`EntriesNameAttempts` says where an entry without a name comes from. What remains is
exact: an entry names no attempt but the one admitted under its key, and that it may name
none is the finding `forgotten_attempt`.

**Sequence and isolation.** `SequenceHolds` rests on the gate alone, which re-reads
the outcome of every prior: policy may have skipped it. `IsolationHolds` is a temporal
statement: a request that begins under standing isolation carries a blocked mark in its
plan through every stage, and no stage with that mark admits or issues.

**Claims.** Exactness needs callers that ask one at a time while the operation is open,
and `late_release` shows that. `SurfaceInvariant` says then what a reconciliation under way
knows: `ReconcilesAlone` (no other is under way for the same mutation), so that the claim it
read is still that of its operation when it commits.

**Evidence.** Readers only read (`ReadersAreSpectators`), so the kernel's invariants are
available. `HistoryInvariant` ties records to the order in which they were made;
`ReaderInvariant` says what a list that has come in can be missing. The reason the advice
is sound although the lists are not of one moment is that the receipt decides: a passed
check has its receipt in the same commit as its mutation, so a reader that listed no
receipt began before either, or listed the mutation. The gap of an unknown outcome is
committed with the ledger entry and listed after it (`ReaderHasTheGap`).

**Gateways.** Between admission and report a run owns its greenlight and its surface
unless someone reported twice; the invariant says what each stage has done and that
effects belong to runs past their evidence. `CallersAreTold` needs that only the run with the
gate tells an outcome (`TellersHaveTheGate`), that its last report is the one it told, and
that a run which returned reports no more.

**Streams.** `StreamInvariant` says that each chain under construction continues
the store and itself (`ChainFits`), where the store may have moved on and taken
its slots. `LandingFits` is the point: a chain that continues an earlier store and
collides with no event of the current one continues the current one, since offsets
below a missing slot cannot be filled without filling the slot.

`CommitInvariant` is about commits, relative to `StreamInvariant`. `CommitsLandOnce`:
nothing is stored of a commit that can still be made (`Closed`), also when an ambiguous
answer sent its writer on to the refusal. So the events and the receipt of a commit come
from one landing, and what the receipt says of the chain it says of the store.
`AttemptsLostToOthers`: there is a part of the store (`MetAtStart`, what was stored when
the attempt began) that holds as many foreign commits as attempts were lost, all the
writer has stored itself, and nothing at or beyond an offset of the chain. An offset that
is taken was therefore taken by a commit outside it, which makes one more
(`AttemptLost`). For the refinement, `OffsetsCount` says that a contiguous partition has
as many events as its greatest offset says, so a landing adds a block to each log and
leaves the entries before it (`LandingAppends`); every other step is a stutter. All four
proofs speak of four kinds of steps of a writer (starts, extends, restarts, ends), and
`StepShapes` shows that there are no others. `CommitsAreOrdered` is about
`AtomicAppendLog!SameOrder`, which no run checks: the instance of `streams` has one writer
with two partitions only.

`StepsLeft` is why the loops around `commitProtocolRecords` end. Once a writer has
started, it counts the events its chain still lacks, the attempts it has left and, before
the main commit is decided, the attempts of a refusal, each attempt worth more than the
events of a chain (`RouteBound`). `StepsRunOut`: a conflict or a lost answer lowers the
count as every other step of the writer does, and nothing another writer stores raises it.
With weak fairness of each writer, whose step is enabled until it answers, that is
`EveryWriterAnswers`. The fairness and ENABLED are what remains with TLC.

**Recovery.** A free claim means an open recommendation without transition or
contract (`TerminalRecordsAgree`, `FollowUpSupersedes`). `ChangesAreGrounded` keeps
what a checked change knows: a status change that names a contract was shown one
linked to its recommendation, so by the time it commits the claim is taken and it
loses (`FreeClaim`). `MarksOfTheDone` makes the holder of a claim another request
than the one that meets it. `LandingKeeps` is the commit, landed or not answered.

**Only model-checked.** Liveness (`EveryRequestIsAnswered`, `AdmittedIsReported`,
`EveryWriterAnswers`, `EveryRecoveryRequestIsAnswered`), as liveness under fairness is out
of the prover's reach; of `EveryWriterAnswers` the measure that decreases is proved. Every other property of a passing run has a theorem.

## 5. Findings and observations

1. **`late_release`**: reconciliation releases the surface claim it finds by the
   contract's claim key and does not compare the claim's mutation attempt. A second
   reconciliation of a closed operation deletes the claim of the next operation on
   the surface.
2. **`forgotten_attempt`**: on D1 the reconciliation of a negotiated contract finds no
   entry under the contract's own key and takes the last of the listing
   (`operation-lifecycle/transitions.ts:322-327`), which D1 orders newest first
   (`storage/d1/index.ts:117`). The terminal entry is then a copy of the reservation: it
   has the right state, but no gate attempt, no mutation attempt and no receipt, so what
   the gate had entered is lost from the current index.

Section "findings" of `PROJECT.json` quotes the sentences of the documentation each
of these departs from. Other behaviour that a reader should know of, and that the
models have:

- Reconciliation looks up the entry to close under the contract's own idempotency key
  first, though a negotiated contract is reserved under its obligation's key; another
  contract's entry may become terminal before or while that contract is admitted
  (`Shadowed`: the exception of the ledger properties, and reached in `ledger`).
- The catch block of every gateway (`x402-payment/wallet-gateway.ts:332` and its
  siblings) reports `failed` for whatever was thrown, also when the surface took effect and
  its answer was lost. `src/README.md:116` says "unknown downstream finality is a proof
  gap." and `protocol-kernel-architecture.md:439` "ambiguous downstream finality: proof
  gap;". `ExecuteThrows` has the case; `ReportedSuccessHappened` is therefore about success
  only, and `CallersAreToldTheLedger` says that caller and ledger at least agree.
- An agreement may pin the content of a rival offer: two offers of one version may be
  recorded at once, a decision names version and sequence only, and
  `negotiation/transitions.ts:208-213` ("Linked agreement must pin the accepted offer
  content digest.") compares with an offer of that version, not with the one that was
  decided upon. It is the exception of `GreenlightRestsOnAcceptedTerms`.
- On `greenlight_issuance_conflict` the recorder throws, so the refusal the handler
  prepared for it is never recorded.
- A D1 gateway batch that lands and then throws finds its own consumption row and is
  answered, and recorded, as a replay refusal.
- One agreement may clear once in each ledger scope (gateway, surface, class, resource).
- A probe may expire after the posture that names it was recorded, and the posture
  stays current until its own expiry.
- Two transitions of one draft may both be recorded, the later overwriting a terminal one.
- A refused sibling in a codemode block leaves the contracts of the actions before it in
  place when the world drifted since the preflight; `CallersHearOfWholeBlocks` is about what
  is told, not about what is left.
- A readback never says that the downstream succeeded: receipts stay `pending`, so the
  status of a reconciled operation is `downstream_pending`, and the branches of
  `recovery/recommendations.ts` for downstream results are never taken.
- Nothing sets `clearedAt` of an isolation state, so a contract whose scope went back to
  `active` reads `isolated` and is told to stop, though the gate would admit it.
- A later refused check of a spent greenlight makes it read
  `available_for_one_gateway_check` while its mutation is pending; a check of one contract
  under another's greenlight makes its readback take decision and greenlight from there.
- On D1 a torn read may answer `policy_refused` for a contract that was just greenlit. A
  replay that follows a lost answer reads `create_new_contract`.
- Verification takes the certificate's own `emittedAt` as its time,
  `status_unavailable` hides every other failure behind `proof_gap`, and status records of
  an issuer or a key are ignored (`verify.ts:228-260`); none of it is modelled.
- A negotiated contract's readback finds no ledger entry, as it looks under its own key.
- A second `failed` report, after a first report had landed, may release the claim of
  another operation; `OneOperationAtATime` makes that its exception.

## 6. Abstractions

- Reads separated by awaits are grouped into two steps per handler (authority,
  recovery); in `EventStreams`, `Bindings` and `Intake` the reads that matter are steps
  of their own.
- Authority: stream conflicts appear as `Abandon` only. `receipt_index_conflict`
  cannot arise, as mutation attempt ids are fresh. Only `GatewayGate` has the
  ambiguous D1 commit; an ambiguous `commitProtocolRecords` is in `EventStreams`
  and `RecoveryTerminal`. A retried gateway commit does not evaluate isolation
  again, which is why `StandingIsolationHolds` speaks of isolation that stands
  from before the request. `AuthorityKey` does not change for a contract. Ties of
  `created_at` in D1 listings are not modelled.
- Evidence: a caller reads or mints once; the records of an assembly are those a
  decision leaves. The properties say "all the while" where a fact may change under a read.
- Streams: bindings are not empty; claims are checked before offsets, as both
  stores do.
- Recovery: a request's id is the id of what it creates; the digest of a
  recommendation does not cover its status and is the recommendation.
- Intake: execution nonces are fresh; an envelope and the catalog are one version; an
  envelope's expiry is not checked again at the proposal, as in the code.
- Negotiation: one session; what a term says beyond its content is left out.
- Bindings: one contract, so scopes are its own or not its own.

## 7. Plan

In this order: the transition service and its admission in `../../http`; the registrations
of `catalog-envelope` and `object-registry` and the life of a review artifact, which are
facts or inputs today; the receipt timeline and export; the table of
`action-attempt-lifecycle` against the states of the models.
