-------------------------- MODULE EvidenceReadback --------------------------
(***************************************************************************)
(* evidence-projections: what a caller who asks "where does my operation    *)
(* stand?" is told.  The answer is assembled from a dozen awaited store     *)
(* reads, none of them in a transaction, while the kernel goes on: the      *)
(* records of a contract are listed, the newest receipt chooses the others, *)
(* and the ledger, the proof gaps and the isolation states are read after.  *)
(* The status, the next mechanism and the posture of the greenlight are     *)
(* then computed from that mixture.                                         *)
(***************************************************************************)
EXTENDS AuthorityKernel, Sequences

CONSTANTS
  ReadContracts,  \* the contracts whose evidence is read
  ParamsOf        \* contract -> its paramsDigest

ASSUME ReadContractsExist == ReadContracts \subseteq Contracts

VARIABLES
  asked,    \* what a policy or gateway request was asked
  decided,  \* policy requests in the order of their createdAt
  checked,  \* gate attempts in the order of their createdAt
  recorded, \* the scopes an isolation state was ever recorded for
  reader    \* the evidence read under way, or answered

historyVars == <<asked, decided, checked, recorded>>
evidenceVars == <<vars, historyVars, reader>>

(***************************************************************************)
(* Records.  A gateway request leaves a gate attempt and a receipt, always  *)
(* together; one that lost its commit leaves a second pair, dated later, by *)
(* which its replay is refused.                                             *)
(***************************************************************************)
GateAttempts == [request : Requests, replay : BOOLEAN]
Question == [contract : Contracts, greenlight : Nullable(Requests), spent : BOOLEAN]

ASSUME NoneIsNoRecord == None \notin GateAttempts /\ None \notin Question

Recorded(x) ==
  receipt[x.request] \cap (IF x.replay THEN {"replayed", "operation_in_progress"}
                           ELSE {"passed", "refused"}) # {}

Passed(x) == ~x.replay /\ "passed" \in receipt[x.request]

\* The mutation attempt a gate attempt created has its name.
MutationOf(x) == IF x.replay THEN None ELSE x.request

\* Was the greenlight already spent when x was refused?
RefusedAsSpent(x) ==
  IF x.replay THEN "replayed" \in receipt[x.request] ELSE asked[x.request].spent

\* greenlightConsumptionStatus of the receipt of x
Consumption(x) ==
  IF Passed(x) THEN "consumed" ELSE IF RefusedAsSpent(x) THEN "replayed" ELSE "not_consumed"

\* deriveGatewayAdmissionStatus
AdmissionOf(x) ==
  IF Consumption(x) = "replayed" THEN "replayed" ELSE IF Passed(x) THEN "admitted" ELSE "refused"

\* The records of a contract, by the contract the request was asked about: a
\* check of c under another contract's greenlight leaves its receipt with c.
Decisions(c) == {p \in Requests : decision[p] # None /\ asked[p].contract = c}
Greenlights(c) == {g \in Requests : greenlight[g] = c}
Attempts(c) == {x \in GateAttempts : Recorded(x) /\ asked[x.request].contract = c}
Mutations(c) == {m \in Requests : mutation[m] # None /\ mutation[m].contract = c}

\* The gaps of unknown finality, named by the reconciliation that left them.
FinalityGaps(c) == {q \in Requests : /\ reconciliation[q] # None
                                     /\ reconciliation[q].status = "unknown"
                                     /\ reconciliation[q].mutation \in Mutations(c)}

\* scopedProofGaps: resolved gaps are listed with the open ones, and those of
\* policy with those of finality.
ProofGaps(c) == FinalityGaps(c) \cup {p \in Decisions(c) : decision[p] = "proof_gap"}

\* An isolation read that knows only the reports of orphaned operations.
OrphansReported(c) == \E s \in ScopesOf[c] \cap recorded : isolation[s] = "state_suspect"

\* isolationStates with clearedAt null: nothing ever sets clearedAt, so a scope
\* that went back to "active" is reported like one that is halted.
Isolated(c) == ScopesOf[c] \cap recorded # {}

(***************************************************************************)
(* The kernel under observation                                             *)
(***************************************************************************)
\* What the observed contract's situation is, for the properties below.
Facts(c) ==
  {fact \in {"blocked", "unknown", "passed"} :
     CASE fact = "blocked" -> GateBlocked(c)
       [] fact = "unknown" -> LET entry == ledger[ContractKey[c]] IN
                              entry # None /\ entry.contract = c /\ entry.state = "terminal_unknown"
       [] OTHER -> Mutations(c) # {}}

\* Facts that have held without a break since the read began.
Watch ==
  \/ reader.contract = None /\ UNCHANGED reader
  \/ \E c \in Contracts : /\ reader.contract = c
                          /\ reader' = [reader EXCEPT !.standing = @ \cap Facts(c)']

AskPolicy(r) ==
  /\ r \in PolicyRequests
  /\ \E c \in Contracts, review \in Reviews :
       /\ EvaluatePolicy(r, c, review)
       /\ asked' = [asked EXCEPT ![r] = [contract |-> c, greenlight |-> None, spent |-> FALSE]]
  /\ decided' = Append(decided, r)
  /\ UNCHANGED <<checked, recorded>>

\* gateRefusalReason answers already_consumed only to a check that is otherwise
\* about this contract, these parameters and an unexpired envelope.
AskGateway(r) ==
  /\ r \in GatewayRequests
  /\ \E c \in Contracts, g \in Requests, exact \in Observations :
       /\ GatewayCheck(r, c, g, exact)
       /\ asked' = [asked EXCEPT ![r] =
                      [contract |-> c, greenlight |-> g,
                       spent |-> /\ greenlight[g] = c
                                 /\ exact
                                 /\ c \notin expired
                                 /\ consumption[g] # None]]
  /\ checked' = Append(checked, [request |-> r, replay |-> FALSE])
  /\ UNCHANGED <<decided, recorded>>

\* Every other step of the kernel.  commitReplayRefusal reads the clock again.
KernelGoesOn ==
  /\ \/ \E r \in Requests : StartReconcile(r) \/ RequestStep(r) \/ Abandon(r)
     \/ Environment
  /\ checked' = LET late == {r \in Requests : pc[r] = "gateCommit" /\ pc'[r] = "gateReplay"} IN
                IF late = {} THEN checked
                ELSE Append(checked, [request |-> CHOOSE r \in late : TRUE, replay |-> TRUE])
  /\ recorded' = recorded \cup {s \in Scopes : isolation'[s] # isolation[s]}
  /\ UNCHANGED <<asked, decided>>

\* The run is over when the caller has its answer: nothing later changes it.
KernelStep ==
  /\ reader.stage \notin {"answered", "missing"}
  /\ (\E r \in Requests : AskPolicy(r) \/ AskGateway(r)) \/ KernelGoesOn
  /\ Watch

(***************************************************************************)
(* assembleAgentTransactionEnvelope                                         *)
(***************************************************************************)
Kinds == {"policy_decision", "greenlight", "gateway_check_attempt", "mutation_attempt", "receipt"}
ReaderStages == {"idle", "listing", "gaps", "isolation", "answered", "missing"}

NoReader == [stage |-> "idle", contract |-> None, terminal |-> None, unlisted |-> Kinds,
             found |-> [kind \in Kinds |-> None], ledger |-> None, gaps |-> {},
             isolated |-> FALSE, began |-> {}, standing |-> {}]

\* latestFirst(...)[0]
Newest(S, order) ==
  LET at == {i \in DOMAIN order : order[i] \in S} IN
  IF at = {} THEN None ELSE order[CHOOSE i \in at : \A j \in at : j <= i]

\* The record of a kind that a list query made now would give the assembly.
NewestOf(kind, c) ==
  CASE kind = "policy_decision" -> Newest(Decisions(c), decided)
    [] kind = "greenlight" -> Newest(Greenlights(c), decided)
    [] kind = "mutation_attempt" -> Newest(Mutations(c), [i \in DOMAIN checked |-> MutationOf(checked[i])])
    [] OTHER -> Newest(Attempts(c), checked)

BeginRead(c, terminal) ==
  /\ reader.stage = "idle"
  /\ reader' = [NoReader EXCEPT !.stage = "listing", !.contract = c, !.terminal = terminal,
                                !.began = Facts(c), !.standing = Facts(c)]
  /\ UNCHANGED <<vars, historyVars>>

BeginReadback == \E c \in ReadContracts : BeginRead(c, None)

\* The lists whose result does not matter once the newest receipt is x: they are
\* not waited for, nor is what they returned kept.
Overruled(x) ==
  IF x = None THEN {}
  ELSE {"policy_decision", "greenlight", "gateway_check_attempt"}
         \cup {kind \in {"mutation_attempt"} : Passed(x)}

\* Promise.all over the list queries: one moment in memory, one each on D1.
ListRecords ==
  /\ reader.stage = "listing"
  /\ \E batch \in IF Store = "memory" THEN {reader.unlisted} ELSE {{kind} : kind \in reader.unlisted} :
       LET found == [kind \in Kinds |-> IF kind \in batch THEN NewestOf(kind, reader.contract)
                                        ELSE reader.found[kind]]
           moot == Overruled(found["receipt"])
       IN /\ batch # {}
          /\ reader' = [reader EXCEPT
               !.unlisted = @ \ (batch \cup moot),
               !.found = [kind \in Kinds |-> IF kind \in moot THEN None ELSE found[kind]]]
  /\ UNCHANGED <<vars, historyVars>>

NewestEvidence(found) ==
  [decision |-> found["policy_decision"], greenlight |-> found["greenlight"],
   attempt |-> found["gateway_check_attempt"], mutation |-> found["mutation_attempt"],
   receipt |-> found["receipt"]]

\* An assembly that takes the contract's newest decision, whatever the receipt
\* rests on.
AssembledByNewestDecision(found) ==
  LET x == found["receipt"] IN
  IF x = None THEN NewestEvidence(found)
  ELSE [decision |-> NewestOf("policy_decision", reader.contract),
        greenlight |-> asked[x.request].greenlight, attempt |-> x,
        mutation |-> IF Passed(x) THEN x.request ELSE found["mutation_attempt"], receipt |-> x]

\* The newest receipt names the decision, the greenlight and the gate attempt,
\* and the mutation if it has one; without a receipt the newest of each kind
\* is taken.  A decision and the greenlight it gave share a name here.
Assembled(found) ==
  LET x == found["receipt"] IN
  IF x = None THEN NewestEvidence(found)
  ELSE [decision |-> asked[x.request].greenlight, greenlight |-> asked[x.request].greenlight,
        attempt |-> x, mutation |-> IF Passed(x) THEN x.request ELSE found["mutation_attempt"],
        receipt |-> x]

ListsAreIn == reader.stage = "listing" /\ reader.unlisted = {}

\* policy_decision_missing, 404
PolicyDecisionMissing ==
  /\ ListsAreIn
  /\ Assembled(reader.found).decision = None
  /\ reader' = [reader EXCEPT !.stage = "missing"]
  /\ UNCHANGED <<vars, historyVars>>

\* getCurrentIdempotencyLedgerEntry, under the contract's own key
ReadLedger ==
  /\ ListsAreIn
  /\ Assembled(reader.found).decision # None
  /\ reader' = [reader EXCEPT !.stage = "gaps", !.ledger = ledger[ContractKey[reader.contract]]]
  /\ UNCHANGED <<vars, historyVars>>

ReadProofGaps ==
  /\ reader.stage = "gaps"
  /\ reader' = [reader EXCEPT !.stage = "isolation", !.gaps = ProofGaps(reader.contract)]
  /\ UNCHANGED <<vars, historyVars>>

ReadIsolation ==
  /\ reader.stage = "isolation"
  /\ reader' = [reader EXCEPT !.stage = "answered", !.isolated = Isolated(reader.contract)]
  /\ UNCHANGED <<vars, historyVars>>

ReaderStep == ListRecords \/ PolicyDecisionMissing \/ ReadLedger \/ ReadProofGaps \/ ReadIsolation

(***************************************************************************)
(* The projections of an assembled read e                                   *)
(***************************************************************************)
\* A disposition to which an unknown outcome is as good as any other.
AnyTerminalDisposition(entry, c) ==
  IF entry = None THEN "missing"
  ELSE IF ParamsOf[entry.contract] # ParamsOf[c] THEN "different_params_refused"
  ELSE IF entry.state \in TerminalLedgerStates THEN "same_params_result_available"
  ELSE "same_params_duplicate_refused"

\* idempotencyRecoveryDisposition
Disposition(entry, c) ==
  IF entry = None THEN "missing"
  ELSE IF ParamsOf[entry.contract] # ParamsOf[c] THEN "different_params_refused"
  ELSE IF entry.state = "terminal_unknown" THEN "terminal_unknown_requires_recovery"
  ELSE IF entry.state \in TerminalLedgerStates THEN "same_params_result_available"
  ELSE "same_params_duplicate_refused"

\* agentTransactionGatewayAdmissionStatus
Admission(e) ==
  IF e.receipt # None THEN AdmissionOf(e.receipt)
  ELSE IF e.attempt = None THEN "not_requested"
  ELSE IF Passed(e.attempt) THEN "admitted" ELSE "refused"

\* agentTransactionDownstreamOutcomeStatus: "pending" is as far as a receipt or
\* a mutation record ever gets, also when the mutation has been reconciled.
Outcome(e) ==
  IF IF e.receipt # None THEN Passed(e.receipt) ELSE e.mutation # None
  THEN "pending" ELSE "not_started"

\* operationReadbackStatus
Status(d, e) ==
  LET admission == Admission(e)  verdict == decision[e.decision] IN
  IF d.isolated THEN "isolated"
  ELSE IF Disposition(d.ledger, d.contract) = "terminal_unknown_requires_recovery"
       THEN "recovery_required"
  ELSE IF admission = "replayed" THEN "replay_refused"
  ELSE IF verdict = "refuse" THEN "policy_refused"
  ELSE IF verdict = "review_required" THEN "review_required"
  ELSE IF verdict = "halt" THEN "halted"
  ELSE IF verdict = "quarantine" THEN "quarantined"
  ELSE IF verdict = "proof_gap" THEN "policy_proof_gap"
  ELSE IF admission = "refused" THEN "gateway_refused"
  ELSE IF admission = "admitted" /\ Outcome(e) = "pending" THEN "downstream_pending"
  ELSE IF admission = "admitted" THEN "gateway_admitted"
  ELSE IF e.greenlight # None /\ e.attempt = None THEN "greenlight_available"
  ELSE "policy_refused"

\* operationReadbackNextMechanism
NextMechanism(status) ==
  CASE status = "greenlight_available" -> "use_greenlight_at_gateway"
    [] status = "review_required" -> "request_review"
    [] status \in {"policy_refused", "gateway_refused"} -> "recraft_request"
    [] status = "replay_refused" -> "create_new_contract"
    [] status = "recovery_required" -> "recover_terminal_unknown"
    [] status \in {"isolated", "halted", "quarantined"} -> "stop"
    [] status = "downstream_pending" -> "wait_for_downstream"
    [] OTHER -> "read_evidence"

\* operationReadbackGreenlightUsePosture
GreenlightUse(e) ==
  IF e.greenlight = None THEN "none"
  ELSE IF e.attempt = None /\ e.receipt = None THEN "available_for_one_gateway_check"
  ELSE IF e.receipt = None THEN "unknown"
  ELSE CASE Consumption(e.receipt) = "consumed" -> "consumed"
         [] Consumption(e.receipt) = "replayed" -> "replayed_or_unusable"
         [] OTHER -> "available_for_one_gateway_check"

(***************************************************************************)
(* The specification                                                        *)
(***************************************************************************)
EvidenceInit ==
  /\ Init
  /\ asked = [r \in Requests |-> None]
  /\ decided = << >>
  /\ checked = << >>
  /\ recorded = {}
  /\ reader = NoReader

ReadbackNext == KernelStep \/ BeginReadback \/ ReaderStep

(***************************************************************************)
(* What a caller may rely on                                                *)
(***************************************************************************)
Answered == reader.stage = "answered" /\ reader.terminal = None
Told == Assembled(reader.found)
Advice == NextMechanism(Status(reader, Told))

\* A caller sent to the gateway is given the contract's own greenlight, and
\* neither a mutation admitted before the read began nor an isolation that
\* stood all the while is kept from it, however the lists were interleaved.
OfferedGreenlightIsGood ==
  Answered /\ Advice = "use_greenlight_at_gateway" =>
    /\ greenlight[Told.greenlight] = reader.contract
    /\ "passed" \notin reader.began
    /\ "blocked" \notin reader.standing

\* Once a mutation was admitted, no later read talks as if policy had yet to
\* decide or had refused, whatever decisions of the contract are dated later; and
\* a greenlight said to be consumed was consumed by the attempt named with it.
AdmittedIsNotForgotten ==
  /\ Answered /\ "passed" \in reader.began =>
       Status(reader, Told) \in {"isolated", "recovery_required", "replay_refused",
                                 "gateway_refused", "downstream_pending"}
  /\ Answered /\ GreenlightUse(Told) = "consumed" =>
       /\ consumption[Told.greenlight] = Told.mutation
       /\ mutation[Told.mutation] = [contract |-> reader.contract, greenlight |-> Told.greenlight]

\* An unknown outcome that stands while the contract is read is never smoothed
\* over: the caller is told to stop or to recover.  And one who is told to recover
\* is given a proof gap to recover from, as the gaps are listed after the ledger;
\* unless the entry under a shadowed key was closed for another contract.
UnknownIsNotHidden ==
  /\ Answered /\ "unknown" \in reader.standing => Advice \in {"stop", "recover_terminal_unknown"}
  /\ Answered /\ Advice = "recover_terminal_unknown" =>
       \/ reader.ledger.contract # reader.contract
       \/ Shadowed(reader.ledger.key)
       \/ \E q \in reader.gaps : /\ reconciliation[q] # None
                                 /\ reconciliation[q].mutation = reader.ledger.mutation
=============================================================================
