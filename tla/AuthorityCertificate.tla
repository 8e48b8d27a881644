------------------------ MODULE AuthorityCertificate ------------------------
(***************************************************************************)
(* areas/authority-certificate: a certificate freezes what the store says   *)
(* of ONE terminal record - a receipt, a refusal, a replayed receipt or a   *)
(* proof gap - although it is minted from the same assembled read as any    *)
(* readback, which prefers the newest records of the contract.  What a      *)
(* verifier checks of the terminal is modelled; signatures, trust material  *)
(* and status records are not.                                              *)
(***************************************************************************)
EXTENDS EvidenceReadback

(***************************************************************************)
(* Terminal records                                                         *)
(***************************************************************************)
\* parseTerminalObjectRef: what a certificate may be asked for.  Policy writes
\* a refusal with the decisions named here, the gate one with every refused
\* attempt, a reconciliation a gap when it stays unknown.  The gap of a policy
\* decision names no receipt and is turned down.
Terminals ==
  [object : {"receipt"}, of : {x \in GateAttempts : Recorded(x)}]
    \cup [object : {"refusal"}, of : {x \in GateAttempts : Recorded(x) /\ ~Passed(x)}]
    \cup [object : {"policy_refusal"},
          of : {p \in Requests : decision[p] \in {"refuse", "halt", "quarantine"}}]
    \cup [object : {"proof_gap"},
          of : {q \in Requests : reconciliation[q] # None /\ reconciliation[q].status = "unknown"}]

ReceiptContext(x) ==
  [contract |-> asked[x.request].contract, decision |-> asked[x.request].greenlight,
   greenlight |-> asked[x.request].greenlight, attempt |-> x,
   mutation |-> IF Passed(x) THEN x.request ELSE None, receipt |-> x, gaps |-> {}, refusals |-> {},
   kind |-> IF Consumption(x) = "replayed" THEN "replay_refusal" ELSE "receipt"]

\* A refusal is certified without the receipt it came with.
GatewayRefusalContext(x) ==
  [ReceiptContext(x) EXCEPT !.mutation = None, !.receipt = None, !.refusals = {x},
                            !.kind = "durable_refusal"]

PolicyRefusalContext(p) ==
  [contract |-> asked[p].contract, decision |-> p, greenlight |-> None, attempt |-> None,
   mutation |-> None, receipt |-> None, gaps |-> {}, refusals |-> {p}, kind |-> "durable_refusal"]

\* proofGap.receiptId is the receipt of the mutation attempt.
ProofGapContext(q) ==
  [ReceiptContext([request |-> reconciliation[q].mutation, replay |-> FALSE])
     EXCEPT !.gaps = {q}, !.kind = "proof_gap"]

\* loadTerminalContext
Context(t) ==
  CASE t.object = "receipt" -> ReceiptContext(t.of)
    [] t.object = "refusal" -> GatewayRefusalContext(t.of)
    [] t.object = "policy_refusal" -> PolicyRefusalContext(t.of)
    [] OTHER -> ProofGapContext(t.of)

\* The records the context names never change, so it stands from the first read
\* to the commit; the assembly it is merged with is read in between.
BeginCertificate ==
  \E t \in Terminals : Context(t).contract \in ReadContracts /\ BeginRead(Context(t).contract, t)

(***************************************************************************)
(* buildAuthorityCertificate                                                *)
(***************************************************************************)
\* A certificate over the evidence the assembly preferred.
EnvelopeOfTheNewest(d) ==
  [contract |-> d.contract, decision |-> Told.decision, greenlight |-> Told.greenlight,
   attempt |-> Told.attempt, mutation |-> Told.mutation, receipt |-> Told.receipt,
   gaps |-> d.gaps \cup Context(d.terminal).gaps, refusals |-> Context(d.terminal).refusals]

\* The envelope: the context's records in place of those the assembly chose,
\* the context's gaps and refusals added to those it listed.
CertifiedEnvelope(d) ==
  LET context == Context(d.terminal) IN
  [contract |-> d.contract, decision |-> context.decision, greenlight |-> context.greenlight,
   attempt |-> context.attempt, mutation |-> context.mutation, receipt |-> context.receipt,
   gaps |-> d.gaps \cup context.gaps, refusals |-> context.refusals]

\* requiredSignerRoles of a terminal the gateway had a part in
SignerRoles == {"operator_policy", "gateway"}
RequiredSigners(t) ==
  IF Context(t).attempt # None THEN SignerRoles ELSE {"operator_policy"}

(***************************************************************************)
(* What verifyAuthorityCertificate asks of a terminal and its certificate   *)
(***************************************************************************)
\* terminalBindingFailures, and the gateway admission binding
BindingHolds(t, e) ==
  LET terminal == Context(t) IN
  /\ terminal.contract = e.contract
  /\ terminal.decision = e.decision
  /\ terminal.greenlight = e.greenlight
  /\ terminal.kind \in {"receipt", "replay_refusal"} => e.receipt = t.of
  /\ terminal.kind = "replay_refusal" => Consumption(e.receipt) = "replayed"
  /\ terminal.kind = "durable_refusal" => t.of \in e.refusals
  /\ terminal.kind = "proof_gap" => t.of \in e.gaps
  /\ RequiredSigners(t) = SignerRoles => e.attempt # None

(***************************************************************************)
(* The specification                                                        *)
(***************************************************************************)
EvidenceNext == ReadbackNext \/ BeginCertificate

EvidenceSpec == EvidenceInit /\ [][EvidenceNext]_evidenceVars

(***************************************************************************)
(* What a certificate is worth                                              *)
(***************************************************************************)
Minted == reader.stage = "answered" /\ reader.terminal # None
Certified == CertifiedEnvelope(reader)

\* A certificate describes the record it was asked for and no newer one of the
\* same contract: whatever was admitted, refused or reconciled while it was
\* assembled, its terminal binds, and only a passed check or a gap of its
\* mutation is certified as admitted.
CertificateTellsItsTerminal ==
  Minted =>
    /\ BindingHolds(reader.terminal, Certified)
    /\ Admission(Certified) = "admitted" =>
         Certified.mutation # None /\ consumption[Certified.greenlight] = Certified.mutation

(***************************************************************************)
(* Why readbacks and certificates tell the truth: inductive strengthenings  *)
(***************************************************************************)
TerminalRecords ==
  [object : {"receipt", "refusal"}, of : GateAttempts]
    \cup [object : {"policy_refusal", "proof_gap"}, of : Requests]

Reader == [stage : ReaderStages, contract : Nullable(Contracts),
           terminal : Nullable(TerminalRecords), unlisted : SUBSET Kinds,
           found : [Kinds -> Requests \cup GateAttempts \cup {None}],
           ledger : Nullable(LedgerEntry), gaps : SUBSET Requests, isolated : BOOLEAN,
           began : SUBSET {"blocked", "unknown", "passed"},
           standing : SUBSET {"blocked", "unknown", "passed"}]

HistoryTypeOK ==
  /\ asked \in [Requests -> Nullable(Question)]
  /\ decided \in Seq(Requests)
  /\ checked \in Seq(GateAttempts)
  /\ recorded \in SUBSET Scopes

\* What is recorded of a request is about what it was asked, and was recorded by
\* its commit.
RecordsAnswerTheQuestion(r) ==
  /\ pc[r] \in {"policyRead", "policyCommit"} =>
       asked[r] \in Question /\ asked[r].contract = plan[r].contract
  /\ pc[r] \in {"gateRead", "gateCommit", "gateReplay"} =>
       /\ asked[r] \in Question
       /\ asked[r].contract = plan[r].contract
       /\ asked[r].greenlight = plan[r].greenlight
       /\ asked[r].greenlight \in Requests
  /\ pc[r] = "gateReplay" => plan[r].reason \in {"replayed", "operation_in_progress"}
  /\ receipt[r] # {} => asked[r] \in Question /\ asked[r].greenlight \in Requests
  /\ receipt[r] \cap {"passed", "refused"} # {} => pc[r] \in {"gateReplay", "done"}
  /\ receipt[r] \cap {"replayed", "operation_in_progress"} # {} => pc[r] = "done"
  /\ "passed" \in receipt[r] <=> mutation[r] # None
  /\ mutation[r] # None => mutation[r] = [contract |-> asked[r].contract,
                                         greenlight |-> asked[r].greenlight]
  /\ decision[r] # None => pc[r] = "done" /\ asked[r] \in Question
  /\ greenlight[r] # None => decision[r] = "greenlight"
  /\ reconciliation[r] # None => pc[r] = "done"

\* What a request refers to was recorded before, and a check that may yet be
\* admitted, or was, has its date.
ReferencesHold(r) ==
  /\ asked[r] # None /\ asked[r].greenlight # None => greenlight[asked[r].greenlight] # None
  /\ pc[r] \in {"reconcileRead", "reconcileCommit"} => mutation[plan[r].mutation] # None
  /\ reconciliation[r] # None => mutation[reconciliation[r].mutation] # None
  /\ pc[r] \in {"gateRead", "gateCommit"} \/ mutation[r] # None =>
       \E i \in DOMAIN checked : checked[i] = [request |-> r, replay |-> FALSE]

HistoryInvariant ==
  /\ HistoryTypeOK
  /\ \A r \in Requests : RecordsAnswerTheQuestion(r) /\ ReferencesHold(r)
  /\ \A s \in Scopes : isolation[s] # "active" => s \in recorded

\* What the read holds is there, and is of the contract that is read.
ReaderHoldsRecords ==
  /\ reader \in Reader
  /\ reader.stage = "idle" => reader = NoReader
  /\ reader.stage # "idle" => reader.contract \in Contracts
  /\ reader.found["receipt"] # None => reader.found["receipt"] \in Attempts(reader.contract)
  /\ reader.found["greenlight"] # None => reader.found["greenlight"] \in Greenlights(reader.contract)
  /\ reader.terminal # None =>
       reader.terminal \in Terminals /\ Context(reader.terminal).contract = reader.contract

\* What stood while the contract was read has been seen by the time it is read.
ReaderSeesWhatStands ==
  /\ reader.stage # "idle" => reader.standing \subseteq Facts(reader.contract)
  /\ "passed" \in reader.began => Mutations(reader.contract) # {}
  /\ "passed" \in reader.began /\ "receipt" \notin reader.unlisted => reader.found["receipt"] # None
  /\ reader.stage \in {"gaps", "isolation", "answered"} => reader.unlisted = {}
  /\ reader.stage \in {"gaps", "isolation", "answered"} /\ "unknown" \in reader.standing =>
       /\ reader.ledger # None
       /\ reader.ledger.contract = reader.contract
       /\ reader.ledger.state = "terminal_unknown"
  /\ reader.stage = "answered" /\ "blocked" \in reader.standing => reader.isolated

ReaderInvariant == ReaderHoldsRecords /\ ReaderSeesWhatStands

\* An entry read as unknown has a proof gap, and it is among those listed.
ReaderHasTheGap ==
  reader.ledger # None /\ reader.ledger.state = "terminal_unknown"
    /\ reader.ledger.contract = reader.contract /\ ~Shadowed(reader.ledger.key) =>
    /\ reader.stage \in {"gaps", "isolation", "answered"} =>
         \E q \in FinalityGaps(reader.contract) : reconciliation[q].mutation = reader.ledger.mutation
    /\ reader.stage \in {"isolation", "answered"} =>
         \E q \in reader.gaps : reconciliation[q] # None /\ reconciliation[q].mutation = reader.ledger.mutation
=============================================================================
