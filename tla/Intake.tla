-------------------------------- MODULE Intake --------------------------------
(***************************************************************************)
(* How a block of generated code becomes action contracts: the drivers of   *)
(* runtime/ingress and runtime/codemode-multi-action over                   *)
(* areas/runtime-evidence, generated-execution-graph, tool-call-draft,      *)
(* intent-compilation and action-contract.  A program is one call of a      *)
(* driver, a sequence of awaited kernel transitions any of which may throw. *)
(* While it runs, other callers work on its drafts, time passes, the        *)
(* bindings of its contracts change, and a host may write to the catalog.   *)
(*                                                                          *)
(* Params stands for what paramsDigest covers, a catalog version for the    *)
(* digests of the envelope, tool, action type and gateway entry together.   *)
(***************************************************************************)
EXTENDS Naturals, Sequences

CONSTANTS
  Programs,        \* calls of a driver
  Blocks,          \* what a call may be given
  MaxActions,      \* the longest block
  Transitions,     \* one-shot requests of other callers to move a draft
  TransitionInputs,
  Params, Versions,
  MaxTime,         \* the last moment of the run
  EnvelopeExpires, \* expiresAt of the operating envelope
  None             \* null

VARIABLES
  clock,           \* the time of the kernel
  catalog,         \* the version of the catalog records
  bound,           \* whether credential and authority bindings evaluate ok
  block,           \* program -> its block
  at,              \* program -> the step it takes next
  graph,           \* program -> coverageStatus of its generated_execution_graph
  draft,           \* key -> tool_call_draft
  pending,         \* writer -> the draft it has checked and not yet committed
  settled,         \* requests of other callers that are done
  compilation,     \* key -> intent_compilation
  contract,        \* program -> sequence number -> action_contract
  answer           \* program -> what it told its caller

worldVars == <<clock, catalog, bound>>
draftVars == <<draft, pending>>
vars == <<worldVars, block, at, graph, draftVars, settled, compilation, contract, answer>>

Times == 0..MaxTime
Nullable(S) == S \cup {None}
Sequence == 1..MaxActions
Phases == {"preflight", "proposal"}
Keys == Programs \X Phases \X Sequence
Writers == Programs \cup Transitions

Classifications == {"candidate_action_eligible", "ambiguous", "bypass_risk"}
\* allowed: the candidate is within the envelope and fits the catalog.
Actions == [classification : Classifications, allowed : BOOLEAN, params : Params]
\* observed: no late-bound region and no refusal in the runtime evidence;
\* complete: the graph is not truncated.
BlockRecords ==
  [kind : {"ingress", "codemode"}, actions : Seq(Actions), observed : BOOLEAN,
   complete : BOOLEAN, expires : Nat]
CoverageStatuses ==
  {"contains_bypass_risk", "unsupported_or_ambiguous", "contains_coverage_gap",
   "fully_covered_no_unsupported_nodes"}

DraftStates == {"opened", "streaming", "finalized", "invalid", "abandoned"}
DraftRecords == [state : DraftStates, params : Nullable(Params), expires : Nat]
PendingRecords == [key : Keys, record : DraftRecords]
TransitionRecords ==
  [state : DraftStates \ {"opened"}, params : Nullable(Params), expires : Nullable(Nat)]

CompilationRecords ==
  [status : {"contractable", "rejected"}, params : Params, draft : DraftRecords,
   createdAt : Times, catalog : Versions, priors : SUBSET Sequence]
ContractRecords == [compilation : Keys, params : Params, priors : SUBSET Sequence]
Steps ==
  {"execution", "graph", "draft", "finalize", "record", "compile", "propose", "bind",
   "done", "answered", "failed"}
Positions == [step : Steps, phase : Phases, sequence : Sequence]
Answers ==
  {"generated_execution_block_refused", "action_contracts_proposed", "one_or_more_refused"}

ASSUME IntakeConstants ==
  /\ MaxActions \in Nat \ {0}
  /\ MaxTime \in Nat
  /\ EnvelopeExpires \in Nat
  /\ Blocks \subseteq BlockRecords
  /\ \A b \in Blocks : Len(b.actions) \in Sequence
  /\ TransitionInputs \subseteq TransitionRecords
  /\ Programs \cap Transitions = {}

ASSUME IntakeNull ==
  /\ None \notin Params \cup Nat \cup DraftRecords \cup PendingRecords
  /\ None \notin CompilationRecords \cup ContractRecords
  /\ None \notin CoverageStatuses \cup Answers

TypeOK ==
  /\ clock \in Times
  /\ catalog \in Versions
  /\ bound \in BOOLEAN
  /\ block \in [Programs -> Blocks]
  /\ at \in [Programs -> Positions]
  /\ graph \in [Programs -> Nullable(CoverageStatuses)]
  /\ draft \in [Keys -> Nullable(DraftRecords)]
  /\ pending \in [Writers -> Nullable(PendingRecords)]
  /\ settled \subseteq Transitions
  /\ compilation \in [Keys -> Nullable(CompilationRecords)]
  /\ contract \in [Programs -> [Sequence -> Nullable(ContractRecords)]]
  /\ answer \in [Programs -> Nullable(Answers)]

\* codemode compiles the whole block first, ingress goes dispatch by dispatch.
FirstPhase(b) == IF b.kind = "codemode" THEN "preflight" ELSE "proposal"

Init ==
  /\ clock = 0
  /\ catalog \in Versions
  /\ bound = TRUE
  /\ block \in [Programs -> Blocks]
  /\ at = [p \in Programs |->
             [step |-> "execution", phase |-> FirstPhase(block[p]), sequence |-> 1]]
  /\ graph = [p \in Programs |-> None]
  /\ draft = [k \in Keys |-> None]
  /\ pending = [w \in Writers |-> None]
  /\ settled = {}
  /\ compilation = [k \in Keys |-> None]
  /\ contract = [p \in Programs |-> [i \in Sequence |-> None]]
  /\ answer = [p \in Programs |-> None]

Size(p) == Len(block[p].actions)
Action(p, i) == block[p].actions[i]
Key(p) == <<p, at[p].phase, at[p].sequence>>
Takes(p, step) == at[p].step = step
Moves(p, position) == at' = [at EXCEPT ![p] = position]
Position(step, phase, sequence) == [step |-> step, phase |-> phase, sequence |-> sequence]
Goes(p, step) == Moves(p, Position(step, at[p].phase, at[p].sequence))

(***************************************************************************)
(* Evidence of the block                                                    *)
(***************************************************************************)
\* createRuntimeExecution: an append of what the block says.
CreateRuntimeExecution(p) ==
  /\ Takes(p, "execution")
  /\ Goes(p, "graph")
  /\ UNCHANGED <<worldVars, block, graph, draftVars, settled, compilation, contract, answer>>

\* The last dispatch decides.
CoverageOfLastNode(b) ==
  LET node == b.actions[Len(b.actions)] IN
  IF node.classification = "bypass_risk" THEN "contains_bypass_risk"
  ELSE IF node.classification = "ambiguous" THEN "unsupported_or_ambiguous"
  ELSE IF b.complete THEN "fully_covered_no_unsupported_nodes"
  ELSE "contains_coverage_gap"

\* deriveGraphCoverage, coverageStatusForGraph: the worst node decides.
CoverageStatusForGraph(b) ==
  LET has(c) == \E i \in 1..Len(b.actions) : b.actions[i].classification = c IN
  IF has("bypass_risk") THEN "contains_bypass_risk"
  ELSE IF has("ambiguous") THEN "unsupported_or_ambiguous"
  ELSE IF b.complete THEN "fully_covered_no_unsupported_nodes"
  ELSE "contains_coverage_gap"

\* createGeneratedExecutionGraph; its nonce is new with the execution.
CreateGeneratedExecutionGraph(p) ==
  /\ Takes(p, "graph")
  /\ graph' = [graph EXCEPT ![p] = CoverageStatusForGraph(block[p])]
  /\ Goes(p, "draft")
  /\ UNCHANGED <<worldVars, block, draftVars, settled, compilation, contract, answer>>

(***************************************************************************)
(* Tool-call drafts                                                         *)
(***************************************************************************)
\* createToolCallDraft
OpenDraft(p) ==
  /\ Takes(p, "draft")
  /\ draft' = [draft EXCEPT ![Key(p)] =
       [state |-> "opened", params |-> None, expires |-> block[p].expires]]
  /\ Goes(p, "finalize")
  /\ UNCHANGED <<worldVars, block, graph, pending, settled, compilation, contract, answer>>

Terminal(record) == record.state \in {"finalized", "invalid", "abandoned"}

\* assertAllowedTransition
AllowedTransition(current, input) ==
  /\ ~Terminal(current)
  /\ input.state = "finalized" => input.params # None

\* buildTransitionedToolCallDraft: the whole draft, from one read of it.
TransitionedDraft(current, input) ==
  [state |-> input.state,
   params |-> IF input.params = None THEN current.params ELSE input.params,
   expires |-> IF input.expires = None THEN current.expires ELSE input.expires]

\* What a writer has read, checked and changed.
Checked(w, key, input) ==
  pending' = [pending EXCEPT ![w] =
    [key |-> key, record |-> TransitionedDraft(draft[key], input)]]

\* The commit compares nothing with what is stored now.
Written(w) ==
  /\ draft' = [draft EXCEPT ![pending[w].key] = pending[w].record]
  /\ pending' = [pending EXCEPT ![w] = None]

\* createFinalizedToolCallDraft, second call, up to its commit
CheckFinalize(p) ==
  /\ Takes(p, "finalize")
  /\ LET input == [state |-> "finalized", params |-> Action(p, at[p].sequence).params,
                   expires |-> block[p].expires] IN
     IF AllowedTransition(draft[Key(p)], input)
     THEN Checked(p, Key(p), input) /\ Goes(p, "record")
     ELSE UNCHANGED pending /\ Goes(p, "failed")
  /\ UNCHANGED <<worldVars, block, graph, draft, settled, compilation, contract, answer>>

CommitFinalize(p) ==
  /\ Takes(p, "record")
  /\ Written(p)
  /\ Goes(p, "compile")
  /\ UNCHANGED <<worldVars, block, graph, settled, compilation, contract, answer>>

\* transitionToolCallDraft by another caller, up to its commit
CheckTransition(t, key, input) ==
  /\ t \notin settled
  /\ pending[t] = None
  /\ draft[key] # None
  /\ AllowedTransition(draft[key], input)
  /\ Checked(t, key, input)
  /\ UNCHANGED <<worldVars, block, at, graph, draft, settled, compilation, contract, answer>>

CommitTransition(t) ==
  /\ pending[t] # None
  /\ Written(t)
  /\ settled' = settled \cup {t}
  /\ UNCHANGED <<worldVars, block, at, graph, compilation, contract, answer>>

(***************************************************************************)
(* Compilation                                                              *)
(***************************************************************************)
\* deriveToolCallDraftReasonCodes but the digest of the parameters.
DraftStandsForAnyParams(record, params, now) ==
  /\ record.state = "finalized"
  /\ record.expires > now

\* deriveToolCallDraftReasonCodes gives no code.
DraftStands(record, params, now) ==
  /\ record.state = "finalized"
  /\ record.expires > now
  /\ record.params = params

\* deriveCandidateDecision: no marker and no code.
Contractable(p, i, record, now) ==
  /\ block[p].observed
  /\ graph[p] = "fully_covered_no_unsupported_nodes"
  /\ Action(p, i).classification = "candidate_action_eligible"
  /\ Action(p, i).allowed
  /\ EnvelopeExpires > now
  /\ DraftStands(record, Action(p, i).params, now)

Proposed(p) == {i \in Sequence : contract[p][i] # None}

\* requiredPriorActionContractIds
RequiredPriors(p) ==
  IF at[p].phase = "preflight" THEN {} ELSE Proposed(p)

Compilation(p) ==
  LET i == at[p].sequence IN
  [status |-> IF Contractable(p, i, draft[Key(p)], clock) THEN "contractable" ELSE "rejected",
   params |-> Action(p, i).params,
   draft |-> draft[Key(p)],
   createdAt |-> clock,
   catalog |-> catalog,
   priors |-> RequiredPriors(p)]

\* Where a driver goes after the last it has to do for an action.
Onward(p, phase, i) ==
  IF i < Size(p) THEN Position("draft", phase, i + 1) ELSE Position("done", phase, i)

\* refusedPreflights.length = 0
PreflightsAccepted(p) ==
  \A i \in 1..Size(p) : compilation'[<<p, "preflight", i>>].status = "contractable"

\* compileIntent and what the driver makes of it.  A compilation reads what its
\* time, the catalog and the draft are once, and nobody reads it before its
\* driver does, so reads and commit are one step.
CompileIntent(p) ==
  LET i == at[p].sequence
      accepted == Compilation(p).status = "contractable" IN
  /\ Takes(p, "compile")
  /\ compilation' = [compilation EXCEPT ![Key(p)] = Compilation(p)]
  /\ \/ /\ at[p].phase = "preflight"
        /\ Moves(p, IF i < Size(p) THEN Position("draft", "preflight", i + 1)
                    ELSE IF PreflightsAccepted(p) THEN Position("propose", "proposal", 1)
                    ELSE Position("done", "preflight", i))
     \/ /\ at[p].phase = "proposal"
        /\ accepted
        /\ Goes(p, "propose")
     \/ /\ at[p].phase = "proposal"
        /\ ~accepted
        /\ IF block[p].kind = "ingress" THEN Moves(p, Onward(p, "proposal", i))
           ELSE Goes(p, "done")
  /\ UNCHANGED <<worldVars, block, graph, draftVars, settled, contract, answer>>

(***************************************************************************)
(* Proposal                                                                 *)
(***************************************************************************)
\* Every action is proposed on its preflight.
ProposesPreflights(p) ==
  <<p, FirstPhase(block[p]), at[p].sequence>>

\* The compilation a contract is proposed on: codemode takes the preflight of
\* its first action and has compiled the others anew.
ProposesOn(p) ==
  <<p, IF at[p].sequence = 1 THEN FirstPhase(block[p]) ELSE "proposal", at[p].sequence>>

\* proposeActionContract up to its pins: assertCandidateMatchesProposal,
\* assertActionContractProposalContext.
PinProposal(p) ==
  /\ Takes(p, "propose")
  /\ LET c == compilation[ProposesOn(p)] IN
     IF c.status = "contractable" /\ c.catalog = catalog
     THEN Goes(p, "bind")
     ELSE Goes(p, "failed")
  /\ UNCHANGED <<worldVars, block, graph, draftVars, settled, compilation, contract, answer>>

\* The bindings, then commitActionContractPlan
CommitContract(p) ==
  LET i == at[p].sequence
      c == compilation[ProposesOn(p)] IN
  /\ Takes(p, "bind")
  /\ IF bound
     THEN /\ contract' = [contract EXCEPT ![p][i] =
               [compilation |-> ProposesOn(p), params |-> c.params, priors |-> c.priors]]
          /\ Moves(p, Onward(p, "proposal", i))
     ELSE /\ Goes(p, "failed")
          /\ UNCHANGED contract
  /\ UNCHANGED <<worldVars, block, graph, draftVars, settled, compilation, answer>>

\* Whatever was proposed, the block was.
AnswerOfAnyProposal(p) ==
  IF at[p].phase = "preflight" THEN "generated_execution_block_refused"
  ELSE IF Proposed(p) # {} THEN "action_contracts_proposed"
  ELSE "one_or_more_refused"

\* The outcome of either driver
AnswerOf(p) ==
  IF at[p].phase = "preflight" THEN "generated_execution_block_refused"
  ELSE IF Proposed(p) = 1..Size(p) THEN "action_contracts_proposed"
  ELSE "one_or_more_refused"

Answer(p) ==
  /\ Takes(p, "done")
  /\ answer' = [answer EXCEPT ![p] = AnswerOf(p)]
  /\ Goes(p, "answered")
  /\ UNCHANGED <<worldVars, block, graph, draftVars, settled, compilation, contract>>

(***************************************************************************)
(* The world                                                                *)
(***************************************************************************)
\* A commit of the driver fails, landed or not, or its host stops.
Throw(p) ==
  /\ at[p].step \notin {"answered", "failed"}
  /\ Goes(p, "failed")
  /\ UNCHANGED <<worldVars, block, graph, draftVars, settled, compilation, contract, answer>>

Tick ==
  /\ clock < MaxTime
  /\ clock' = clock + 1
  /\ UNCHANGED <<catalog, bound, block, at, graph, draftVars, settled, compilation, contract, answer>>

\* putRecord by a host; the kernel's own registration never replaces an entry.
ReplaceCatalog(version) ==
  /\ catalog' = version
  /\ UNCHANGED <<clock, bound, block, at, graph, draftVars, settled, compilation, contract, answer>>

\* A credential or an authority is registered anew, revoked or restored.
ChangeBindings ==
  /\ bound' = ~bound
  /\ UNCHANGED <<clock, catalog, block, at, graph, draftVars, settled, compilation, contract, answer>>

Drive(p) ==
  \/ CreateRuntimeExecution(p)
  \/ CreateGeneratedExecutionGraph(p)
  \/ OpenDraft(p)
  \/ CheckFinalize(p)
  \/ CommitFinalize(p)
  \/ CompileIntent(p)
  \/ PinProposal(p)
  \/ CommitContract(p)
  \/ Answer(p)

Next ==
  \/ \E p \in Programs : Drive(p)
  \/ \E p \in Programs : Throw(p)
  \/ \E t \in Transitions, key \in Keys, input \in TransitionInputs : CheckTransition(t, key, input)
  \/ \E t \in Transitions : CommitTransition(t)
  \/ Tick
  \/ \E version \in Versions : ReplaceCatalog(version)
  \/ ChangeBindings

Spec == Init /\ [][Next]_vars

(***************************************************************************)
(* Properties                                                               *)
(***************************************************************************)
Covered(b) ==
  /\ b.complete
  /\ b.observed
  /\ \A i \in 1..Len(b.actions) : b.actions[i].classification = "candidate_action_eligible"

FinalizedWith(record, params, now) ==
  record.state = "finalized" /\ record.params = params /\ record.expires > now

\* A compilation that was accepted rests on what its draft said then.
Grounded(key) ==
  LET c == compilation[key]
      p == key[1] IN
  /\ c # None /\ key[2] = "preflight" => c.priors = {}
  /\ c # None /\ c.status = "contractable" =>
       /\ Covered(block[p])
       /\ key[3] <= Size(p)
       /\ c.params = Action(p, key[3]).params
       /\ FinalizedWith(c.draft, c.params, c.createdAt)
       /\ EnvelopeExpires > c.createdAt

\* What a contract says it requires is what its driver had proposed before.
PriorsFit(p, i) ==
  contract[p][i] # None =>
    contract[p][i].priors = {j \in Sequence : j < i /\ contract[p][j] # None}

AllPreflightsAccepted(p) ==
  \A i \in 1..Size(p) :
    LET c == compilation[<<p, "preflight", i>>] IN c # None /\ c.status = "contractable"

\* Steps before a compilation of the action at hand.
Compiling == {"execution", "graph", "draft", "finalize", "record", "compile"}

\* What is known of a program at the step it has come to.
DriverKnows(p) ==
  LET i == at[p].sequence
      step == at[p].step
      phase == at[p].phase
      codemode == block[p].kind = "codemode" IN
  /\ i <= Size(p)
  /\ graph[p] # None => graph[p] = CoverageStatusForGraph(block[p])
  /\ answer[p] # None => step = "answered"
  /\ phase = "preflight" =>
       /\ codemode
       /\ Proposed(p) = {}
       /\ \A j \in 1..(i - 1) : compilation[<<p, "preflight", j>>] # None
  /\ codemode /\ phase = "proposal" =>
       /\ AllPreflightsAccepted(p)
       /\ step \in Compiling => i > 1
  /\ step \notin {"answered", "failed"} =>
       \A j \in Proposed(p) : j < i \/ (step = "done" /\ j = i)
  /\ step \in {"finalize", "record", "compile"} => draft[Key(p)] # None
  /\ step = "record" => pending[p] # None
  /\ step \in {"propose", "bind"} =>
       /\ phase = "proposal"
       /\ compilation[ProposesOn(p)] # None
       /\ compilation[ProposesOn(p)].status = "contractable"
       /\ compilation[ProposesOn(p)].priors = Proposed(p)

\* A contract that is there was proposed on its own, accepted compilation.
ContractFits(p, i) ==
  LET a == contract[p][i] IN
  a # None =>
    /\ a.compilation[1] = p
    /\ a.compilation[3] = i
    /\ compilation[a.compilation] # None
    /\ compilation[a.compilation].status = "contractable"
    /\ a.params = compilation[a.compilation].params

\* A contract rests on parameters that the block asked for, that the caller's
\* draft, finalized and not yet expired, said, and that the graph covered,
\* though others move the draft at the same time (deriveCandidateDecision,
\* assertActionContractProposalContext).
ContractsRestOnFinalizedDrafts ==
  \A p \in Programs, i \in Sequence :
    contract[p][i] # None =>
      LET a == contract[p][i]
          c == compilation[a.compilation] IN
      /\ c # None
      /\ a.params = Action(p, i).params
      /\ FinalizedWith(c.draft, a.params, c.createdAt)
      /\ EnvelopeExpires > c.createdAt

\* A block with one raw, ambiguous, unobserved or truncated part gets no
\* contract for any of its actions (coverageStatusForGraph,
\* deriveGeneratedExecutionCoverage).
UncoveredBlocksGetNothing ==
  \A p \in Programs : ~Covered(block[p]) => Proposed(p) = {}

\* A contract requires exactly the contracts its program proposed before it, so
\* policy and the gate can hold later actions back (requiredPriorActionContractIds).
PriorsAreTheEarlierContracts ==
  \A p \in Programs, i \in Sequence : PriorsFit(p, i)

\* The codemode driver proposes nothing before every action of the block was
\* accepted in preflight, and tells its caller of a block that all of it was
\* proposed only if it was; a block it calls refused has no contract
\* (proposeCodemodeActionContracts, proposeRuntimeIngressActionContracts).  A block
\* may all the same be left with contracts of its earlier actions only: the driver
\* then tells of the action that was refused.
CallersHearOfWholeBlocks ==
  \A p \in Programs :
    /\ block[p].kind = "codemode" /\ Proposed(p) # {} => AllPreflightsAccepted(p)
    /\ answer[p] = "action_contracts_proposed" => Proposed(p) = 1..Size(p)
    /\ answer[p] = "generated_execution_block_refused" => Proposed(p) = {}

\* The inductive invariant of the proofs.
IntakeInvariant ==
  /\ TypeOK
  /\ \A k \in Keys : Grounded(k)
  /\ \A p \in Programs : DriverKnows(p)
  /\ \A p \in Programs, i \in Sequence : ContractFits(p, i) /\ PriorsFit(p, i)
  /\ CallersHearOfWholeBlocks

=============================================================================
