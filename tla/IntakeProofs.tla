----------------------------- MODULE IntakeProofs -----------------------------
(***************************************************************************)
(* Proofs about Intake, for any number of programs, blocks of any length,   *)
(* requests of other callers, versions and moments.                         *)
(*                                                                          *)
(* A program only ever writes its own evidence, compilations and contracts, *)
(* at the key of the step it has come to; what it has compiled it keeps     *)
(* until it has proposed it.  So what a driver may rely on (DriverKnows) is  *)
(* carried from each of its steps to the next, whatever others do to its    *)
(* drafts in between: a draft counts only as read in one compilation.       *)
(***************************************************************************)
EXTENDS Intake, TLAPS

\* Blocks have as many actions as there are sequence numbers for them.
LEMMA BlockFacts ==
  ASSUME TypeOK, NEW p \in Programs
  PROVE  /\ block[p] \in BlockRecords
         /\ Size(p) \in Sequence
         /\ \A i \in 1..Size(p) : i \in Sequence /\ Action(p, i) \in Actions
<1>1. block[p] \in Blocks /\ block[p] \in BlockRecords
  BY IntakeConstants DEF TypeOK
<1>2. Size(p) \in Sequence
  BY <1>1, IntakeConstants DEF Size
<1>3. block[p].actions \in Seq(Actions)
  BY <1>1 DEF BlockRecords
<1>4. \A i \in 1..Size(p) : i \in Sequence /\ Action(p, i) \in Actions
  BY <1>2, <1>3, IntakeConstants DEF Size, Action, Sequence
<1> QED
  BY <1>1, <1>2, <1>4

\* The key of the step a program has come to, and the one it proposes on, are
\* keys of its own.
LEMMA KeyFacts ==
  ASSUME TypeOK, NEW p \in Programs
  PROVE  /\ at[p] \in Positions
         /\ Key(p) \in Keys /\ Key(p)[1] = p /\ Key(p)[2] = at[p].phase
         /\ Key(p)[3] = at[p].sequence
         /\ ProposesOn(p) \in Keys /\ ProposesOn(p)[1] = p
         /\ ProposesOn(p)[3] = at[p].sequence
<1>1. at[p] \in Positions
  BY DEF TypeOK
<1>2. FirstPhase(block[p]) \in Phases
  BY DEF FirstPhase, Phases
<1> QED
  BY <1>1, <1>2 DEF Positions, Key, ProposesOn, Keys, Phases

\* Only a block whose actions are all eligible and whose graph is complete is
\* fully covered.
LEMMA CoverageFacts ==
  ASSUME NEW b \in BlockRecords
  PROVE  /\ CoverageStatusForGraph(b) \in CoverageStatuses
         /\ CoverageStatusForGraph(b) = "fully_covered_no_unsupported_nodes" =>
              /\ b.complete
              /\ \A i \in 1..Len(b.actions) :
                   b.actions[i].classification = "candidate_action_eligible"
<1>1. CoverageStatusForGraph(b) \in CoverageStatuses
  BY DEF CoverageStatusForGraph, CoverageStatuses
<1>2. SUFFICES ASSUME CoverageStatusForGraph(b) = "fully_covered_no_unsupported_nodes"
      PROVE  /\ b.complete
             /\ \A i \in 1..Len(b.actions) :
                  b.actions[i].classification = "candidate_action_eligible"
  BY <1>1
<1>3. b.complete
  BY <1>2 DEF CoverageStatusForGraph
<1>4. ASSUME NEW i \in 1..Len(b.actions) PROVE b.actions[i].classification \in Classifications
  <2>1. b.actions \in Seq(Actions)
    BY DEF BlockRecords
  <2>2. b.actions[i] \in Actions
    BY <2>1
  <2> QED
    BY <2>2 DEF Actions
<1>5. \A i \in 1..Len(b.actions) : /\ b.actions[i].classification # "bypass_risk"
                                   /\ b.actions[i].classification # "ambiguous"
  <2> DEFINE has(c) == \E i \in 1..Len(b.actions) : b.actions[i].classification = c
  <2>1. ~has("bypass_risk") /\ ~has("ambiguous")
    <3> HIDE DEF has
    <3>1. CoverageStatusForGraph(b) =
            IF has("bypass_risk") THEN "contains_bypass_risk"
            ELSE IF has("ambiguous") THEN "unsupported_or_ambiguous"
            ELSE IF b.complete THEN "fully_covered_no_unsupported_nodes"
            ELSE "contains_coverage_gap"
      BY DEF CoverageStatusForGraph, has
    <3> QED
      BY <1>2, <3>1
  <2> QED
    BY <2>1
<1> QED
  BY <1>3, <1>4, <1>5 DEF Classifications

\* The initial states satisfy the invariant: no program has done anything.
LEMMA InitHolds == Init => IntakeInvariant
<1> SUFFICES ASSUME Init PROVE IntakeInvariant
  OBVIOUS
<1>1. TypeOK
  <2>1. 1 \in Sequence
    BY IntakeConstants DEF Sequence
  <2>2. \A b \in Blocks : FirstPhase(b) \in Phases
    BY DEF FirstPhase, Phases
  <2>3. at \in [Programs -> Positions]
    BY <2>1, <2>2 DEF Init, Positions, Steps
  <2>4. clock \in Times
    BY IntakeConstants DEF Init, Times
  <2> QED
    BY <2>3, <2>4 DEF Init, TypeOK, Nullable
<1>2. \A k \in Keys : Grounded(k)
  BY DEF Init, Grounded
<1>3. ASSUME NEW p \in Programs PROVE DriverKnows(p)
  <2>1. at[p].step = "execution" /\ at[p].sequence = 1 /\ at[p].phase = FirstPhase(block[p])
    BY DEF Init
  <2>2. 1 <= Size(p)
    BY <1>1, BlockFacts DEF Sequence
  <2>3. Proposed(p) = {}
    BY DEF Init, Proposed
  <2> QED
    BY <2>1, <2>2, <2>3 DEF Init, DriverKnows, FirstPhase
<1>4. \A p \in Programs, i \in Sequence : ContractFits(p, i) /\ PriorsFit(p, i)
  BY DEF Init, ContractFits, PriorsFit
<1>5. CallersHearOfWholeBlocks
  BY IntakeNull DEF Init, CallersHearOfWholeBlocks, Proposed, Answers
<1> QED
  BY <1>1, <1>2, <1>3, <1>4, <1>5 DEF IntakeInvariant

\* A changed draft is a draft.
LEMMA TransitionedIsDraft ==
  ASSUME NEW current \in DraftRecords, NEW input \in TransitionRecords
  PROVE  TransitionedDraft(current, input) \in DraftRecords
BY DEF TransitionedDraft, DraftRecords, TransitionRecords, Nullable, DraftStates

\* What a driver compiles is a compilation.
LEMMA CompilationIsRecord ==
  ASSUME IntakeInvariant, NEW p \in Programs, Takes(p, "compile")
  PROVE  Compilation(p) \in CompilationRecords
<1>1. TypeOK /\ DriverKnows(p)
  BY DEF IntakeInvariant
<1>2. at[p].sequence \in 1..Size(p)
  BY <1>1, KeyFacts, BlockFacts DEF DriverKnows, Positions, Sequence
<1>3. Action(p, at[p].sequence).params \in Params
  BY <1>1, <1>2, BlockFacts DEF Actions
<1>4. draft[Key(p)] \in DraftRecords
  BY <1>1, KeyFacts DEF DriverKnows, Takes, TypeOK, Nullable
<1>5. RequiredPriors(p) \subseteq Sequence
  BY DEF RequiredPriors, Proposed
<1> QED
  BY <1>1, <1>3, <1>4, <1>5 DEF Compilation, CompilationRecords, TypeOK

\* The state stays well formed.
LEMMA TypeKept ==
  ASSUME IntakeInvariant, [Next]_vars
  PROVE  TypeOK'
<1> USE DEF Nullable
<1>0. TypeOK /\ \A p \in Programs : DriverKnows(p)
  BY DEF IntakeInvariant
<1>1. ASSUME NEW p \in Programs, NEW step \in Steps, Goes(p, step)
      PROVE  at' \in [Programs -> Positions]
  BY <1>0, <1>1, KeyFacts DEF Goes, Moves, Position, Positions, TypeOK
<1>2. CASE UNCHANGED vars
  BY <1>0, <1>2 DEF vars, worldVars, draftVars, TypeOK
<1>3. ASSUME NEW p \in Programs, CreateRuntimeExecution(p) PROVE TypeOK'
  BY <1>0, <1>1, <1>3 DEF CreateRuntimeExecution, TypeOK, worldVars, draftVars, Steps
<1>4. ASSUME NEW p \in Programs, CreateGeneratedExecutionGraph(p) PROVE TypeOK'
  BY <1>0, <1>1, <1>4, BlockFacts, CoverageFacts
  DEF CreateGeneratedExecutionGraph, TypeOK, worldVars, draftVars, Steps
<1>5. ASSUME NEW p \in Programs, OpenDraft(p) PROVE TypeOK'
  BY <1>0, <1>1, <1>5, BlockFacts, KeyFacts
  DEF OpenDraft, TypeOK, worldVars, Steps, DraftRecords, DraftStates, BlockRecords
<1>6. ASSUME NEW p \in Programs, CheckFinalize(p) PROVE TypeOK'
  <2> DEFINE i == at[p].sequence
  <2> DEFINE input == [state |-> "finalized", params |-> Action(p, i).params,
                       expires |-> block[p].expires]
  <2>1. i \in 1..Size(p)
    BY <1>0, KeyFacts, BlockFacts DEF DriverKnows, Positions, Sequence
  <2>2. Action(p, i).params \in Params
    BY <1>0, <2>1, BlockFacts DEF Actions
  <2>3. input \in TransitionRecords
    BY <1>0, <2>2, BlockFacts DEF TransitionRecords, DraftStates, BlockRecords
  <2>4. draft[Key(p)] \in DraftRecords
    BY <1>0, <1>6, KeyFacts DEF CheckFinalize, Takes, DriverKnows, TypeOK
  <2>5. TransitionedDraft(draft[Key(p)], input) \in DraftRecords
    BY <2>3, <2>4, TransitionedIsDraft
  <2>6. pending' \in [Writers -> Nullable(PendingRecords)]
    <3>1. CASE AllowedTransition(draft[Key(p)], input)
      <4>1. Checked(p, Key(p), input)
        BY <1>6, <3>1 DEF CheckFinalize
      <4>2. [key |-> Key(p), record |-> TransitionedDraft(draft[Key(p)], input)] \in PendingRecords
        BY <1>0, <2>5, KeyFacts DEF PendingRecords
      <4> HIDE DEF input
      <4> QED
        BY <1>0, <4>1, <4>2 DEF Checked, TypeOK
    <3>2. CASE ~AllowedTransition(draft[Key(p)], input)
      BY <1>0, <1>6, <3>2 DEF CheckFinalize, TypeOK
    <3> QED
      BY <3>1, <3>2
  <2>7. at' \in [Programs -> Positions]
    BY <1>1, <1>6 DEF CheckFinalize, Steps
  <2> QED
    BY <1>0, <1>6, <2>6, <2>7 DEF CheckFinalize, TypeOK, worldVars
<1>7. ASSUME NEW w \in Writers, pending[w] # None, Written(w)
      PROVE  /\ draft' \in [Keys -> Nullable(DraftRecords)]
             /\ pending' \in [Writers -> Nullable(PendingRecords)]
  BY <1>0, <1>7 DEF Written, TypeOK, PendingRecords
<1>8. ASSUME NEW p \in Programs, CommitFinalize(p) PROVE TypeOK'
  BY <1>0, <1>1, <1>7, <1>8 DEF CommitFinalize, Takes, DriverKnows, TypeOK, worldVars, Steps, Writers
<1>9. ASSUME NEW t \in Transitions, NEW key \in Keys, NEW input \in TransitionInputs,
             CheckTransition(t, key, input)
      PROVE  TypeOK'
  <2>1. draft[key] \in DraftRecords /\ input \in TransitionRecords
    BY <1>0, <1>9, IntakeConstants DEF CheckTransition, TypeOK
  <2>2. [key |-> key, record |-> TransitionedDraft(draft[key], input)] \in PendingRecords
    BY <2>1, TransitionedIsDraft DEF PendingRecords
  <2> QED
    BY <1>0, <1>9, <2>2 DEF CheckTransition, Checked, TypeOK, worldVars
<1>10. ASSUME NEW t \in Transitions, CommitTransition(t) PROVE TypeOK'
  BY <1>0, <1>7, <1>10 DEF CommitTransition, TypeOK, worldVars, Writers
<1>11. ASSUME NEW p \in Programs, CompileIntent(p) PROVE TypeOK'
  <2> DEFINE i == at[p].sequence
  <2>1. compilation' \in [Keys -> Nullable(CompilationRecords)]
    BY <1>0, <1>11, KeyFacts, CompilationIsRecord DEF CompileIntent, TypeOK
  <2>2. i \in 1..Size(p) /\ Size(p) \in Sequence
    BY <1>0, KeyFacts, BlockFacts DEF DriverKnows, Positions, Sequence
  <2>3. at' \in [Programs -> Positions]
    <3>1. \A phase \in Phases : Onward(p, phase, i) \in Positions
      BY <1>0, <2>2, IntakeConstants DEF Onward, Position, Positions, Sequence, Steps
    <3>2. /\ Position("propose", "proposal", 1) \in Positions
          /\ Position("done", "preflight", i) \in Positions
          /\ i < Size(p) => Position("draft", "preflight", i + 1) \in Positions
      BY <1>0, <2>2, IntakeConstants DEF Position, Positions, Sequence, Steps, Phases
    <3>3. \/ Goes(p, "propose") \/ Goes(p, "done")
          \/ \E position \in Positions : Moves(p, position)
      BY <1>11, <3>1, <3>2 DEF CompileIntent, Phases
    <3> QED
      BY <1>0, <1>1, <3>3 DEF Moves, TypeOK, Steps
  <2> QED
    BY <1>0, <1>11, <2>1, <2>3 DEF CompileIntent, TypeOK, worldVars, draftVars
<1>12. ASSUME NEW p \in Programs, PinProposal(p) PROVE TypeOK'
  BY <1>0, <1>1, <1>12 DEF PinProposal, TypeOK, worldVars, draftVars, Steps
<1>13. ASSUME NEW p \in Programs, CommitContract(p) PROVE TypeOK'
  <2> DEFINE i == at[p].sequence
  <2> DEFINE c == compilation[ProposesOn(p)]
  <2> DEFINE new == [compilation |-> ProposesOn(p), params |-> c.params, priors |-> c.priors]
  <2>1. c \in CompilationRecords
    BY <1>0, <1>13, KeyFacts DEF CommitContract, Takes, DriverKnows, TypeOK
  <2>2. new \in ContractRecords
    BY <1>0, <2>1, KeyFacts DEF CompilationRecords, ContractRecords
  <2>3. contract' = contract \/ contract' = [contract EXCEPT ![p][i] = new]
    BY <1>13 DEF CommitContract
  <2>4. contract' \in [Programs -> [Sequence -> Nullable(ContractRecords)]]
    <3>1. i \in Sequence
      BY <1>0, KeyFacts DEF Positions
    <3>2. contract \in [Programs -> [Sequence -> Nullable(ContractRecords)]]
      BY <1>0 DEF TypeOK
    <3>3. new \in Nullable(ContractRecords)
      BY <2>2
    <3> HIDE DEF new, i
    <3>4. [contract[p] EXCEPT ![i] = new] \in [Sequence -> Nullable(ContractRecords)]
      BY <3>1, <3>2, <3>3
    <3>5. [contract EXCEPT ![p][i] = new] = [contract EXCEPT ![p] = [contract[p] EXCEPT ![i] = new]]
      BY <3>2
    <3> QED
      BY <2>3, <3>2, <3>4, <3>5
  <2>5. i \in 1..Size(p) /\ Size(p) \in Sequence
    BY <1>0, KeyFacts, BlockFacts DEF DriverKnows, Positions, Sequence
  <2>6. Onward(p, "proposal", i) \in Positions
    BY <2>5, IntakeConstants DEF Onward, Position, Positions, Sequence, Steps, Phases
  <2>7. at' \in [Programs -> Positions]
    BY <1>0, <1>1, <1>13, <2>6 DEF CommitContract, Moves, TypeOK, Steps
  <2> QED
    BY <1>0, <1>13, <2>4, <2>7 DEF CommitContract, TypeOK, worldVars, draftVars
<1>14. ASSUME NEW p \in Programs, Answer(p) PROVE TypeOK'
  BY <1>0, <1>1, <1>14 DEF Answer, AnswerOf, Answers, TypeOK, worldVars, draftVars, Steps
<1>15. ASSUME NEW p \in Programs, Throw(p) PROVE TypeOK'
  BY <1>0, <1>1, <1>15 DEF Throw, TypeOK, worldVars, draftVars, Steps
<1>16. CASE Tick
  BY <1>0, <1>16, IntakeConstants DEF Tick, Times, TypeOK, draftVars
<1>17. ASSUME NEW version \in Versions, ReplaceCatalog(version) PROVE TypeOK'
  BY <1>0, <1>17 DEF ReplaceCatalog, TypeOK, draftVars
<1>18. CASE ChangeBindings
  BY <1>0, <1>18 DEF ChangeBindings, TypeOK, draftVars
<1> QED
  BY <1>2, <1>3, <1>4, <1>5, <1>6, <1>8, <1>9, <1>10, <1>11, <1>12, <1>13, <1>14, <1>15,
     <1>16, <1>17, <1>18 DEF Next, Drive

(***************************************************************************)
(* What an inductive step of one program has to keep                        *)
(***************************************************************************)
\* The compilations of a program are grounded.
GroundedFor(p) == \A k \in Keys : k[1] = p => Grounded(k)

ContractsFit(p) == \A i \in Sequence : ContractFits(p, i) /\ PriorsFit(p, i)

\* CallersHearOfWholeBlocks of one program
WholeFor(p) ==
  /\ block[p].kind = "codemode" /\ Proposed(p) # {} => AllPreflightsAccepted(p)
  /\ answer[p] = "action_contracts_proposed" => Proposed(p) = 1..Size(p)
  /\ answer[p] = "generated_execution_block_refused" => Proposed(p) = {}

ProgramInv(p) == DriverKnows(p) /\ GroundedFor(p) /\ ContractsFit(p) /\ WholeFor(p)

\* The invariant is one of the state's type and of each program.
LEMMA InvariantByProgram ==
  IntakeInvariant <=> TypeOK /\ \A p \in Programs : ProgramInv(p)
<1>1. (\A k \in Keys : Grounded(k)) <=> \A p \in Programs : GroundedFor(p)
  BY DEF GroundedFor, Keys
<1>2. CallersHearOfWholeBlocks <=> \A p \in Programs : WholeFor(p)
  BY DEF CallersHearOfWholeBlocks, WholeFor
<1>3. (\A p \in Programs, i \in Sequence : ContractFits(p, i) /\ PriorsFit(p, i))
        <=> \A p \in Programs : ContractsFit(p)
  BY DEF ContractsFit
<1> QED
  BY <1>1, <1>2, <1>3 DEF IntakeInvariant, ProgramInv

\* Drafts that are there, and their writers' work, are only replaced.
DraftsStay(p) ==
  /\ \A k \in Keys : draft[k] # None => draft'[k] # None
  /\ pending[p] # None => pending'[p] # None

\* A step of another program, of another caller or of the world leaves a
\* program where it is, with all it has written but the content of its drafts.
Stays(p) ==
  /\ block' = block
  /\ at'[p] = at[p] /\ graph'[p] = graph[p] /\ answer'[p] = answer[p]
  /\ contract'[p] = contract[p]
  /\ \A k \in Keys : k[1] = p => compilation'[k] = compilation[k]
  /\ DraftsStay(p)

\* What a writer commits replaces a draft by a draft.
LEMMA WrittenIsDraft ==
  ASSUME TypeOK, NEW w \in Writers, pending[w] # None, Written(w)
  PROVE  /\ \A k \in Keys : draft[k] # None => draft'[k] # None
         /\ \A v \in Writers : v # w => pending'[v] = pending[v]
<1>1. pending[w] \in PendingRecords
  BY DEF TypeOK, Nullable
<1>2. pending[w].record # None
  BY <1>1, IntakeNull DEF PendingRecords
<1> QED
  BY <1>1, <1>2 DEF Written, TypeOK

\* Every step is one of the program's own or leaves it as it is.
LEMMA OthersStay ==
  ASSUME IntakeInvariant, [Next]_vars, NEW p \in Programs
  PROVE  Drive(p) \/ Throw(p) \/ Stays(p)
<1>0. TypeOK /\ \A q \in Programs : DriverKnows(q)
  BY DEF IntakeInvariant
<1>1. CASE UNCHANGED vars
  BY <1>1 DEF vars, draftVars, Stays, DraftsStay
<1>2. ASSUME NEW q \in Programs, q # p, Drive(q) PROVE Stays(p)
  <2>0. at[q].step = "record" => pending[q] # None
    BY <1>0 DEF DriverKnows
  <2>1. CASE CreateRuntimeExecution(q)
    BY <1>0, <1>2, <2>1 DEF CreateRuntimeExecution, Goes, Moves, TypeOK, Stays, DraftsStay, draftVars
  <2>2. CASE CreateGeneratedExecutionGraph(q)
    BY <1>0, <1>2, <2>2
    DEF CreateGeneratedExecutionGraph, Goes, Moves, TypeOK, Stays, DraftsStay, draftVars
  <2>3. CASE OpenDraft(q)
    <3>1. [state |-> "opened", params |-> None, expires |-> block[q].expires] # None
      <4>1. [state |-> "opened", params |-> None, expires |-> block[q].expires] \in DraftRecords
        BY <1>0, BlockFacts DEF DraftRecords, DraftStates, BlockRecords, Nullable
      <4> QED
        BY <4>1, IntakeNull
    <3>2. DraftsStay(p)
      BY <1>0, <2>3, <3>1 DEF OpenDraft, DraftsStay, TypeOK
    <3> QED
      BY <1>0, <1>2, <2>3, <3>2 DEF OpenDraft, Goes, Moves, TypeOK, Stays
  <2>4. CASE CheckFinalize(q)
    <3>1. pending'[p] = pending[p]
      BY <1>0, <1>2, <2>4 DEF CheckFinalize, Checked, TypeOK, Writers
    <3>2. at'[p] = at[p]
      BY <1>0, <1>2, <2>4 DEF CheckFinalize, Goes, Moves, TypeOK
    <3> QED
      BY <2>4, <3>1, <3>2 DEF CheckFinalize, Stays, DraftsStay
  <2>5. CASE CommitFinalize(q)
    <3>1. DraftsStay(p)
      BY <1>0, <1>2, <2>0, <2>5, WrittenIsDraft DEF CommitFinalize, Takes, DraftsStay, Writers
    <3> QED
      BY <1>0, <1>2, <2>5, <3>1 DEF CommitFinalize, Goes, Moves, TypeOK, Stays
  <2>6. CASE CompileIntent(q)
    <3>1. \A k \in Keys : k[1] = p => compilation'[k] = compilation[k]
      BY <1>0, <1>2, <2>6, KeyFacts DEF CompileIntent, TypeOK
    <3>2. at'[p] = at[p]
      BY <1>0, <1>2, <2>6 DEF CompileIntent, Goes, Moves, TypeOK
    <3> QED
      BY <2>6, <3>1, <3>2 DEF CompileIntent, Stays, DraftsStay, draftVars
  <2>7. CASE PinProposal(q)
    BY <1>0, <1>2, <2>7 DEF PinProposal, Goes, Moves, TypeOK, Stays, DraftsStay, draftVars
  <2>8. CASE CommitContract(q)
    <3>1. at'[p] = at[p] /\ contract'[p] = contract[p]
      BY <1>0, <1>2, <2>8 DEF CommitContract, Goes, Moves, TypeOK
    <3> QED
      BY <2>8, <3>1 DEF CommitContract, Stays, DraftsStay, draftVars
  <2>9. CASE Answer(q)
    BY <1>0, <1>2, <2>9 DEF Answer, Goes, Moves, TypeOK, Stays, DraftsStay, draftVars
  <2> QED
    BY <1>2, <2>1, <2>2, <2>3, <2>4, <2>5, <2>6, <2>7, <2>8, <2>9 DEF Drive
<1>3. ASSUME NEW q \in Programs, q # p, Throw(q) PROVE Stays(p)
  BY <1>0, <1>3 DEF Throw, Goes, Moves, TypeOK, Stays, DraftsStay, draftVars
<1>4. ASSUME NEW t \in Transitions, NEW key \in Keys, NEW input \in TransitionInputs,
             CheckTransition(t, key, input)
      PROVE  Stays(p)
  <2>1. pending'[p] = pending[p]
    BY <1>0, <1>4, IntakeConstants DEF CheckTransition, Checked, TypeOK, Writers
  <2> QED
    BY <1>4, <2>1 DEF CheckTransition, Stays, DraftsStay
<1>5. ASSUME NEW t \in Transitions, CommitTransition(t) PROVE Stays(p)
  <2>1. DraftsStay(p)
    BY <1>0, <1>5, WrittenIsDraft, IntakeConstants DEF CommitTransition, DraftsStay, Writers
  <2> QED
    BY <1>5, <2>1 DEF CommitTransition, Stays
<1>6. CASE Tick
  BY <1>6 DEF Tick, Stays, DraftsStay, draftVars
<1>7. ASSUME NEW version \in Versions, ReplaceCatalog(version) PROVE Stays(p)
  BY <1>7 DEF ReplaceCatalog, Stays, DraftsStay, draftVars
<1>8. CASE ChangeBindings
  BY <1>8 DEF ChangeBindings, Stays, DraftsStay, draftVars
<1> QED
  BY <1>1, <1>2, <1>3, <1>4, <1>5, <1>6, <1>7, <1>8 DEF Next

\* What is known of a program's records is known as long as they stay.
LEMMA RecordsKept ==
  ASSUME IntakeInvariant, TypeOK', NEW p \in Programs,
         block' = block, contract'[p] = contract[p],
         \A k \in Keys : k[1] = p => compilation'[k] = compilation[k]
  PROVE  /\ GroundedFor(p)' /\ ContractsFit(p)'
         /\ Proposed(p)' = Proposed(p) /\ Size(p)' = Size(p)
         /\ AllPreflightsAccepted(p)' = AllPreflightsAccepted(p)
<1>0. TypeOK /\ GroundedFor(p) /\ ContractsFit(p)
  BY InvariantByProgram DEF ProgramInv
<1>1. GroundedFor(p)'
  BY <1>0 DEF GroundedFor, Grounded, Covered, Size, Action, FinalizedWith
<1>2. ASSUME NEW i \in Sequence, contract[p][i] # None
      PROVE  contract[p][i].compilation \in Keys
  BY <1>0, <1>2 DEF TypeOK, Nullable, ContractRecords
<1>3. ContractsFit(p)'
  BY <1>0, <1>2 DEF ContractsFit, ContractFits, PriorsFit
<1>4. Proposed(p)' = Proposed(p) /\ Size(p)' = Size(p)
  BY DEF Proposed, Size
<1>5. \A i \in 1..Size(p) : <<p, "preflight", i>> \in Keys /\ <<p, "preflight", i>>[1] = p
  BY <1>0, BlockFacts DEF Keys, Phases
<1>6. AllPreflightsAccepted(p)' = AllPreflightsAccepted(p)
  BY <1>4, <1>5 DEF AllPreflightsAccepted
<1> QED
  BY <1>1, <1>3, <1>4, <1>6

\* A program that stays is as it was.
LEMMA StayKeeps ==
  ASSUME IntakeInvariant, TypeOK', NEW p \in Programs, Stays(p)
  PROVE  ProgramInv(p)'
<1>0. TypeOK /\ DriverKnows(p) /\ WholeFor(p)
  BY InvariantByProgram DEF ProgramInv
<1>1. /\ GroundedFor(p)' /\ ContractsFit(p)'
      /\ Proposed(p)' = Proposed(p) /\ Size(p)' = Size(p)
      /\ AllPreflightsAccepted(p)' = AllPreflightsAccepted(p)
  BY RecordsKept DEF Stays
<1>2. WholeFor(p)'
  BY <1>0, <1>1 DEF WholeFor, Stays
<1>3. DriverKnows(p)'
  <2>1. Key(p)' = Key(p) /\ ProposesOn(p)' = ProposesOn(p)
    BY DEF Stays, Key, ProposesOn
  <2>2. Key(p) \in Keys /\ ProposesOn(p) \in Keys /\ ProposesOn(p)[1] = p
    BY <1>0, KeyFacts
  <2>3. compilation'[ProposesOn(p)] = compilation[ProposesOn(p)]
    BY <2>2 DEF Stays
  <2>4. draft[Key(p)] # None => draft'[Key(p)] # None
    BY <2>2 DEF Stays, DraftsStay
  <2>5. \A j \in 1..(at[p].sequence - 1) :
           compilation'[<<p, "preflight", j>>] = compilation[<<p, "preflight", j>>]
    <3>1. \A j \in 1..(at[p].sequence - 1) : <<p, "preflight", j>> \in Keys
      BY <1>0, IntakeConstants, KeyFacts DEF Positions, Keys, Phases, Sequence
    <3> QED
      BY <3>1 DEF Stays
  <2>6. CoverageStatusForGraph(block'[p]) = CoverageStatusForGraph(block[p])
    BY DEF Stays
  <2> QED
    BY <1>0, <1>1, <2>1, <2>3, <2>4, <2>5, <2>6 DEF DriverKnows, Stays, DraftsStay
<1> QED
  BY <1>1, <1>2, <1>3 DEF ProgramInv

\* A step that neither compiles nor proposes keeps a program's invariant when
\* it keeps what the driver knows, and the answer it gives is true.
LEMMA QuietKeeps ==
  ASSUME IntakeInvariant, TypeOK', NEW p \in Programs, DriverKnows(p)',
         UNCHANGED <<block, compilation, contract>>,
         answer' = answer \/ Answer(p)
  PROVE  ProgramInv(p)'
<1>0. TypeOK /\ DriverKnows(p) /\ WholeFor(p)
  BY InvariantByProgram DEF ProgramInv
<1>1. /\ GroundedFor(p)' /\ ContractsFit(p)'
      /\ Proposed(p)' = Proposed(p) /\ Size(p)' = Size(p)
      /\ AllPreflightsAccepted(p)' = AllPreflightsAccepted(p)
  BY RecordsKept
<1>2. CASE answer' = answer
  BY <1>0, <1>1, <1>2 DEF WholeFor, ProgramInv
<1>3. CASE Answer(p)
  <2>1. answer'[p] = AnswerOf(p)
    BY <1>0, <1>3 DEF Answer, TypeOK
  <2>2. at[p].phase = "preflight" => Proposed(p) = {}
    BY <1>0 DEF DriverKnows
  <2> QED
    BY <1>0, <1>1, <2>1, <2>2 DEF WholeFor, AnswerOf, ProgramInv
<1> QED
  BY <1>2, <1>3

\* The steps up to a compilation carry on what the driver knows.
LEMMA PreparingKeeps ==
  ASSUME IntakeInvariant, TypeOK', NEW p \in Programs,
         \/ CreateRuntimeExecution(p) \/ CreateGeneratedExecutionGraph(p)
         \/ OpenDraft(p) \/ CheckFinalize(p) \/ CommitFinalize(p)
  PROVE  ProgramInv(p)'
<1>0. TypeOK /\ DriverKnows(p)
  BY InvariantByProgram DEF ProgramInv
<1>1. UNCHANGED <<block, compilation, contract, answer>>
  BY DEF CreateRuntimeExecution, CreateGeneratedExecutionGraph, OpenDraft, CheckFinalize,
         CommitFinalize
<1>2. \E step \in {"graph", "draft", "finalize", "record", "failed", "compile"} :
        at'[p] = [step |-> step, phase |-> at[p].phase, sequence |-> at[p].sequence]
  BY <1>0 DEF CreateRuntimeExecution, CreateGeneratedExecutionGraph, OpenDraft, CheckFinalize,
         CommitFinalize, Goes, Moves, Position, TypeOK
<1>3. at[p].step \in Compiling \ {"compile"}
  BY DEF CreateRuntimeExecution, CreateGeneratedExecutionGraph, OpenDraft, CheckFinalize,
         CommitFinalize, Takes, Compiling
<1>4. graph'[p] # None => graph'[p] = CoverageStatusForGraph(block[p])
  <2>1. CASE CreateGeneratedExecutionGraph(p)
    BY <1>0, <2>1 DEF CreateGeneratedExecutionGraph, TypeOK
  <2>2. CASE ~CreateGeneratedExecutionGraph(p)
    BY <1>0, <2>2 DEF CreateRuntimeExecution, OpenDraft, CheckFinalize, CommitFinalize, DriverKnows
  <2> QED
    BY <2>1, <2>2
<1>5. at'[p].step \in {"finalize", "record", "compile"} => draft'[Key(p)] # None
  <2>1. CASE OpenDraft(p)
    <3>1. [state |-> "opened", params |-> None, expires |-> block[p].expires] \in DraftRecords
      BY <1>0, BlockFacts DEF DraftRecords, DraftStates, BlockRecords, Nullable
    <3> QED
      BY <1>0, <2>1, <3>1, KeyFacts, IntakeNull DEF OpenDraft, TypeOK
  <2>2. CASE CheckFinalize(p)
    BY <1>0, <2>2 DEF CheckFinalize, Takes, DriverKnows
  <2>3. CASE CommitFinalize(p)
    <3>1. p \in Writers /\ pending[p] # None /\ draft[Key(p)] # None /\ Written(p)
      BY <1>0, <2>3 DEF CommitFinalize, Takes, DriverKnows, Writers
    <3> QED
      BY <1>0, <3>1, KeyFacts, WrittenIsDraft
  <2>4. CASE CreateRuntimeExecution(p) \/ CreateGeneratedExecutionGraph(p)
    BY <1>0, <2>4
    DEF CreateRuntimeExecution, CreateGeneratedExecutionGraph, Goes, Moves, Position, TypeOK
  <2> QED
    BY <2>1, <2>2, <2>3, <2>4
<1>6. at'[p].step = "record" => pending'[p] # None
  <2>1. CASE CheckFinalize(p) /\ at'[p].step = "record"
    <3> DEFINE input == [state |-> "finalized", params |-> Action(p, at[p].sequence).params,
                         expires |-> block[p].expires]
    <3> DEFINE new == [key |-> Key(p), record |-> TransitionedDraft(draft[Key(p)], input)]
    <3>1. Checked(p, Key(p), input)
      BY <1>0, <2>1 DEF CheckFinalize, Goes, Moves, Position, TypeOK
    <3>2. pending'[p] = new
      BY <1>0, <3>1 DEF Checked, TypeOK, Writers
    <3>3. new # None
      <4>1. at[p].sequence \in 1..Size(p)
        BY <1>0, KeyFacts, BlockFacts DEF DriverKnows, Positions, Sequence
      <4>2. Action(p, at[p].sequence).params \in Params
        BY <1>0, <4>1, BlockFacts DEF Actions
      <4>3. input \in TransitionRecords
        BY <1>0, <4>2, BlockFacts DEF TransitionRecords, DraftStates, BlockRecords, Nullable
      <4>4. draft[Key(p)] \in DraftRecords
        BY <1>0, <2>1, KeyFacts DEF CheckFinalize, Takes, DriverKnows, TypeOK, Nullable
      <4>5. TransitionedDraft(draft[Key(p)], input) \in DraftRecords
        BY <4>3, <4>4, TransitionedIsDraft
      <4> HIDE DEF input
      <4>6. new \in PendingRecords
        BY <1>0, <4>5, KeyFacts DEF PendingRecords
      <4> QED
        BY <4>6, IntakeNull
    <3> QED
      BY <3>2, <3>3
  <2>2. CASE ~CheckFinalize(p)
    BY <1>0, <2>2
    DEF CreateRuntimeExecution, CreateGeneratedExecutionGraph, OpenDraft, CommitFinalize,
        Goes, Moves, Position, TypeOK
  <2> QED
    BY <2>1, <2>2
<1>7. Key(p)' = Key(p) /\ Size(p)' = Size(p) /\ Proposed(p)' = Proposed(p)
  BY <1>1, <1>2 DEF Key, Size, Proposed
<1>8. AllPreflightsAccepted(p)' = AllPreflightsAccepted(p)
  BY <1>1, <1>7 DEF AllPreflightsAccepted
<1>9. DriverKnows(p)'
  BY <1>0, <1>1, <1>2, <1>3, <1>4, <1>5, <1>6, <1>7, <1>8 DEF DriverKnows, Compiling
<1> QED
  BY <1>1, <1>9, QuietKeeps

\* Pinning, answering and failing keep what the driver knows.
LEMMA ClosingKeeps ==
  ASSUME IntakeInvariant, TypeOK', NEW p \in Programs,
         PinProposal(p) \/ Answer(p) \/ Throw(p)
  PROVE  ProgramInv(p)'
<1>0. TypeOK /\ DriverKnows(p)
  BY InvariantByProgram DEF ProgramInv
<1>1. UNCHANGED <<block, compilation, contract, graph, draft, pending>>
  BY DEF PinProposal, Answer, Throw, draftVars
<1>2. /\ PinProposal(p) => at'[p].step \in {"bind", "failed"}
      /\ Answer(p) => at'[p].step = "answered"
      /\ Throw(p) => at'[p].step = "failed"
      /\ at'[p].phase = at[p].phase /\ at'[p].sequence = at[p].sequence
  BY <1>0 DEF PinProposal, Answer, Throw, Goes, Moves, Position, TypeOK
<1>3. /\ answer' = answer \/ Answer(p)
      /\ ~Answer(p) => answer'[p] = answer[p] /\ at[p].step # "answered"
  BY DEF PinProposal, Answer, Throw, Takes
<1>4. /\ Key(p)' = Key(p) /\ Size(p)' = Size(p) /\ Proposed(p)' = Proposed(p)
      /\ ProposesOn(p)' = ProposesOn(p)
  BY <1>1, <1>2 DEF Key, Size, Proposed, ProposesOn
<1>5. AllPreflightsAccepted(p)' = AllPreflightsAccepted(p)
  BY <1>1, <1>4 DEF AllPreflightsAccepted
<1>6. at'[p].step = "bind" => at[p].step = "propose"
  BY <1>2 DEF PinProposal, Takes
<1>7. DriverKnows(p)'
  BY <1>0, <1>1, <1>2, <1>3, <1>4, <1>5, <1>6 DEF DriverKnows, Compiling
<1> QED
  BY <1>1, <1>3, <1>7, QuietKeeps

\* A compilation is grounded: it was accepted of a covered block, on a draft
\* that said at that moment what the block asked for.
LEMMA CompilationGrounded ==
  ASSUME IntakeInvariant, NEW p \in Programs, Takes(p, "compile")
  PROVE  LET c == Compilation(p) IN
         /\ at[p].phase = "preflight" => c.priors = {}
         /\ at[p].phase = "proposal" => c.priors = Proposed(p)
         /\ c.status = "contractable" =>
              /\ Covered(block[p])
              /\ c.params = Action(p, at[p].sequence).params
              /\ FinalizedWith(c.draft, c.params, c.createdAt)
              /\ EnvelopeExpires > c.createdAt
<1>0. TypeOK /\ DriverKnows(p)
  BY DEF IntakeInvariant
<1>1. /\ at[p].phase = "preflight" => Compilation(p).priors = {}
      /\ at[p].phase = "proposal" => Compilation(p).priors = Proposed(p)
  BY DEF Compilation, RequiredPriors
<1>2. ASSUME Compilation(p).status = "contractable"
      PROVE  /\ Covered(block[p])
             /\ Compilation(p).params = Action(p, at[p].sequence).params
             /\ FinalizedWith(Compilation(p).draft, Compilation(p).params, Compilation(p).createdAt)
             /\ EnvelopeExpires > Compilation(p).createdAt
  <2>1. Contractable(p, at[p].sequence, draft[Key(p)], clock)
    BY <1>2 DEF Compilation
  <2>2. graph[p] = "fully_covered_no_unsupported_nodes" /\ graph[p] # None
    BY <2>1, IntakeNull DEF Contractable, CoverageStatuses
  <2>3. Covered(block[p])
    BY <1>0, <2>1, <2>2, BlockFacts, CoverageFacts DEF DriverKnows, Contractable, Covered
  <2> QED
    BY <2>1, <2>3 DEF Contractable, DraftStands, Compilation, FinalizedWith
<1> QED
  BY <1>1, <1>2

\* A compilation does not touch what a contract of its program rests on.
LEMMA CompileKeepsRecords ==
  ASSUME IntakeInvariant, TypeOK', NEW p \in Programs, CompileIntent(p)
  PROVE  /\ GroundedFor(p)' /\ ContractsFit(p)'
         /\ Proposed(p)' = Proposed(p) /\ Size(p)' = Size(p)
         /\ at[p].sequence \in 1..Size(p) /\ at[p].sequence \in Sequence
         /\ compilation'[Key(p)] = Compilation(p) /\ Compilation(p) # None
         /\ \A k \in Keys : k # Key(p) => compilation'[k] = compilation[k]
         /\ at[p].phase = "proposal" => AllPreflightsAccepted(p)' = AllPreflightsAccepted(p)
<1>0. TypeOK /\ DriverKnows(p) /\ GroundedFor(p) /\ ContractsFit(p)
  BY InvariantByProgram DEF ProgramInv
<1>1. Takes(p, "compile") /\ block' = block /\ contract' = contract
  BY DEF CompileIntent
<1>2. Compilation(p) \in CompilationRecords /\ Compilation(p) # None
  BY <1>1, CompilationIsRecord, IntakeNull
<1>3. /\ compilation'[Key(p)] = Compilation(p)
      /\ \A k \in Keys : k # Key(p) => compilation'[k] = compilation[k]
  BY <1>0, KeyFacts DEF CompileIntent, TypeOK
<1>4. Proposed(p)' = Proposed(p) /\ Size(p)' = Size(p)
  BY <1>1 DEF Proposed, Size
<1>5. at[p].sequence \in 1..Size(p) /\ at[p].sequence \in Sequence
  BY <1>0, KeyFacts, BlockFacts DEF DriverKnows, Positions, Sequence
<1>6. GroundedFor(p)'
  <2>1. ASSUME NEW k \in Keys, k[1] = p, k # Key(p) PROVE Grounded(k)'
    <3>1. Grounded(k) /\ compilation'[k] = compilation[k]
      BY <1>0, <1>3, <2>1 DEF GroundedFor
    <3> QED
      BY <1>1, <2>1, <3>1 DEF Grounded, Size, Action
  <2>2. ASSUME NEW k \in Keys, k = Key(p) PROVE Grounded(k)'
    <3>1. k[1] = p /\ k[2] = at[p].phase /\ k[3] = at[p].sequence /\ k[2] \in Phases
      BY <1>0, <2>2, KeyFacts DEF Positions
    <3>2. compilation'[k] = Compilation(p)
      BY <1>3, <2>2
    <3> QED
      BY <1>1, <1>5, <3>1, <3>2, CompilationGrounded DEF Grounded, Size, Action
  <2> QED
    BY <2>1, <2>2 DEF GroundedFor
<1>7. ContractsFit(p)'
  <2>1. ASSUME NEW i \in Sequence, contract[p][i] # None
        PROVE  /\ contract[p][i].compilation \in Keys
               /\ contract[p][i].compilation # Key(p)
    <3>1. contract[p][i].compilation \in Keys
      BY <1>0, <2>1 DEF TypeOK, Nullable, ContractRecords
    <3>2. i \in Proposed(p) /\ i < at[p].sequence
      BY <1>0, <1>1, <2>1 DEF Proposed, DriverKnows, Takes
    <3>3. contract[p][i].compilation[3] = i
      BY <1>0, <2>1 DEF ContractsFit, ContractFits
    <3> QED
      BY <1>0, <1>5, <3>1, <3>2, <3>3, KeyFacts DEF Sequence
  <2> QED
    BY <1>0, <1>1, <1>3, <2>1 DEF ContractsFit, ContractFits, PriorsFit
<1>8. ASSUME at[p].phase = "proposal"
      PROVE  AllPreflightsAccepted(p)' = AllPreflightsAccepted(p)
  <2>1. \A i \in 1..Size(p) : <<p, "preflight", i>> \in Keys /\ <<p, "preflight", i>> # Key(p)
    BY <1>0, <1>8, BlockFacts DEF Keys, Phases, Key
  <2> QED
    BY <1>3, <1>4, <2>1 DEF AllPreflightsAccepted
<1> QED
  BY <1>2, <1>3, <1>4, <1>5, <1>6, <1>7, <1>8

\* A compilation carries on what the driver knows: the preflights it needs are
\* there when it leaves preflight, and what it proposes on is what it compiled.
LEMMA CompileKeeps ==
  ASSUME IntakeInvariant, TypeOK', NEW p \in Programs, CompileIntent(p)
  PROVE  ProgramInv(p)'
<1> DEFINE i == at[p].sequence
<1> DEFINE phase == at[p].phase
<1>0. TypeOK /\ DriverKnows(p) /\ GroundedFor(p) /\ WholeFor(p)
  BY InvariantByProgram DEF ProgramInv
<1>1. /\ GroundedFor(p)' /\ ContractsFit(p)'
      /\ Proposed(p)' = Proposed(p) /\ Size(p)' = Size(p)
      /\ i \in 1..Size(p) /\ i \in Sequence
      /\ compilation'[Key(p)] = Compilation(p) /\ Compilation(p) # None
      /\ \A k \in Keys : k # Key(p) => compilation'[k] = compilation[k]
      /\ phase = "proposal" => AllPreflightsAccepted(p)' = AllPreflightsAccepted(p)
  BY CompileKeepsRecords
<1>n. i \in Nat /\ Size(p) \in Nat /\ 1 <= i /\ i <= Size(p)
  BY <1>0, <1>1, BlockFacts, IntakeConstants DEF Sequence
<1>2. /\ at[p].step = "compile" /\ phase \in Phases
      /\ UNCHANGED <<block, graph, draft, pending, answer>>
  BY <1>0, KeyFacts DEF CompileIntent, Takes, draftVars, Positions
<1>3. at'[p].step # "record" /\ at'[p].step # "finalize" /\ at'[p].step # "compile"
      /\ at'[p].step \in {"draft", "propose", "done"}
  BY <1>0 DEF CompileIntent, Moves, Goes, Position, Onward, TypeOK
<1>4. answer[p] = None /\ answer'[p] = None
  BY <1>0, <1>2 DEF DriverKnows
<1>5. ASSUME phase = "preflight" PROVE DriverKnows(p)' /\ WholeFor(p)'
  <2>1. /\ Proposed(p) = {} /\ block[p].kind = "codemode"
        /\ \A j \in 1..(i - 1) : compilation[<<p, "preflight", j>>] # None
    BY <1>0, <1>5 DEF DriverKnows
  <2>2. WholeFor(p)'
    BY <1>1, <1>2, <1>4, <2>1, IntakeNull DEF WholeFor, Answers
  <2>3. ASSUME NEW j \in 1..i PROVE compilation'[<<p, "preflight", j>>] # None
    <3>1. <<p, "preflight", j>> \in Keys
      BY <1>1, <2>3, IntakeConstants DEF Keys, Phases, Sequence
    <3>2. CASE j = i
      BY <1>1, <1>5, <3>2 DEF Key
    <3>3. CASE j # i
      <4>1. j \in 1..(i - 1) /\ <<p, "preflight", j>> # Key(p)
        BY <1>1, <2>3, <3>3 DEF Key, Sequence
      <4> QED
        BY <1>1, <2>1, <3>1, <4>1
    <3> QED
      BY <3>2, <3>3
  <2>4. at'[p] = IF i < Size(p) THEN Position("draft", "preflight", i + 1)
                 ELSE IF PreflightsAccepted(p) THEN Position("propose", "proposal", 1)
                 ELSE Position("done", "preflight", i)
    BY <1>0, <1>5 DEF CompileIntent, Moves, TypeOK
  <2>5. CASE i < Size(p)
    <3>1. at'[p].phase = "preflight" /\ at'[p].sequence = i + 1 /\ at'[p].step = "draft"
      BY <2>4, <2>5 DEF Position
    <3>2. \A j \in 1..((i + 1) - 1) : compilation'[<<p, "preflight", j>>] # None
      BY <1>1, <2>3 DEF Sequence
    <3>3. i + 1 <= Size(p)
      BY <1>1, <1>n, <2>5
    <3> QED
      BY <1>0, <1>1, <1>2, <1>4, <2>1, <2>2, <3>1, <3>2, <3>3 DEF DriverKnows
  <2>6. CASE i >= Size(p) /\ PreflightsAccepted(p)
    <3>1. at'[p].phase = "proposal" /\ at'[p].sequence = 1 /\ at'[p].step = "propose"
      BY <1>1, <1>n, <2>4, <2>6 DEF Position
    <3>2. i = Size(p) /\ 1 <= Size(p) /\ Size(p) \in Nat
      BY <1>1, <1>n, <2>6 DEF Sequence
    <3>3. AllPreflightsAccepted(p)'
      BY <1>1, <2>3, <2>6, <3>2 DEF AllPreflightsAccepted, PreflightsAccepted
    <3>4. ProposesOn(p)' = <<p, "preflight", 1>>
      BY <1>2, <2>1, <3>1 DEF ProposesOn, FirstPhase
    <3>5. /\ compilation'[<<p, "preflight", 1>>] # None
          /\ compilation'[<<p, "preflight", 1>>].status = "contractable"
      BY <1>1, <3>2, <3>3 DEF AllPreflightsAccepted
    <3>6. compilation'[<<p, "preflight", 1>>].priors = {}
      <4>1. <<p, "preflight", 1>> \in Keys
        BY <1>1, <3>2, IntakeConstants DEF Keys, Phases, Sequence
      <4>2. PICK k \in Keys : k = <<p, "preflight", 1>>
        BY <4>1
      <4>3. Grounded(k)'
        BY <1>1, <4>2 DEF GroundedFor
      <4> QED
        BY <3>5, <4>2, <4>3 DEF Grounded
    <3> QED
      BY <1>0, <1>1, <1>2, <1>4, <2>1, <2>2, <3>1, <3>2, <3>3, <3>4, <3>5, <3>6
      DEF DriverKnows, Compiling
  <2>7. CASE i >= Size(p) /\ ~PreflightsAccepted(p)
    <3>1. at'[p].phase = "preflight" /\ at'[p].sequence = i /\ at'[p].step = "done"
      BY <1>1, <1>n, <2>4, <2>7 DEF Position
    <3>2. \A j \in 1..(i - 1) : compilation'[<<p, "preflight", j>>] # None
      BY <1>1, <2>3 DEF Sequence
    <3> QED
      BY <1>0, <1>1, <1>2, <1>4, <2>1, <2>2, <3>1, <3>2 DEF DriverKnows
  <2> QED
    BY <1>1, <1>n, <2>2, <2>5, <2>6, <2>7 DEF Sequence
<1>6. ASSUME phase = "proposal" PROVE DriverKnows(p)' /\ WholeFor(p)'
  <2>1. /\ block[p].kind = "codemode" => AllPreflightsAccepted(p) /\ i > 1
        /\ \A j \in Proposed(p) : j < i
    BY <1>0, <1>2, <1>6 DEF DriverKnows, Compiling
  <2>2. WholeFor(p)'
    BY <1>0, <1>1, <1>2, <1>4, <1>6, IntakeNull DEF WholeFor, Answers
  <2>3. at'[p].phase = "proposal"
    BY <1>0, <1>6 DEF CompileIntent, Moves, Goes, Position, Onward, TypeOK, FirstPhase
  <2>4. CASE Compilation(p).status = "contractable"
    <3>1. at'[p].step = "propose" /\ at'[p].sequence = i
      BY <1>0, <1>6, <2>4 DEF CompileIntent, Moves, Goes, Position, TypeOK
    <3>2. ProposesOn(p)' = Key(p)
      <4>1. CASE i = 1
        <5>1. block[p].kind # "codemode"
          BY <2>1, <4>1
        <5> QED
          BY <1>2, <1>6, <2>3, <3>1, <4>1, <5>1 DEF ProposesOn, Key, FirstPhase
      <4>2. CASE i # 1
        BY <1>6, <3>1, <4>2 DEF ProposesOn, Key
      <4> QED
        BY <4>1, <4>2
    <3>3. Compilation(p).priors = Proposed(p)
      BY <1>2, <1>6, CompilationGrounded DEF Takes
    <3> QED
      BY <1>0, <1>1, <1>2, <1>4, <1>6, <2>1, <2>2, <2>3, <2>4, <3>1, <3>2, <3>3
      DEF DriverKnows, Compiling
  <2>5. CASE Compilation(p).status # "contractable"
    <3>1. \/ at'[p].step = "draft" /\ at'[p].sequence = i + 1 /\ i < Size(p)
          \/ at'[p].step = "done" /\ at'[p].sequence = i
      BY <1>0, <1>6, <2>5 DEF CompileIntent, Moves, Goes, Position, Onward, TypeOK
    <3>2. i + 1 > 1 /\ (i < Size(p) => i + 1 <= Size(p)) /\ \A j \in Proposed(p) : j < i + 1
      BY <1>n, <2>1, IntakeConstants DEF Sequence, Proposed
    <3> QED
      BY <1>0, <1>1, <1>2, <1>4, <1>6, <2>1, <2>2, <2>3, <3>1, <3>2 DEF DriverKnows, Compiling
  <2> QED
    BY <2>4, <2>5
<1> QED
  BY <1>1, <1>2, <1>5, <1>6 DEF ProgramInv, Phases

\* A contract is proposed on the compilation its driver has come with, and
\* requires what that driver has proposed before.
LEMMA CommitKeeps ==
  ASSUME IntakeInvariant, TypeOK', NEW p \in Programs, CommitContract(p)
  PROVE  ProgramInv(p)'
<1> DEFINE i == at[p].sequence
<1> DEFINE c == compilation[ProposesOn(p)]
<1> DEFINE new == [compilation |-> ProposesOn(p), params |-> c.params, priors |-> c.priors]
<1>0. TypeOK /\ DriverKnows(p) /\ GroundedFor(p) /\ ContractsFit(p) /\ WholeFor(p)
  BY InvariantByProgram DEF ProgramInv
<1>1. /\ at[p].step = "bind" /\ at[p].phase = "proposal"
      /\ UNCHANGED <<block, graph, draft, pending, compilation, answer>>
  BY <1>0 DEF CommitContract, Takes, DriverKnows, draftVars
<1>2. /\ i \in 1..Size(p) /\ i \in Sequence /\ Size(p)' = Size(p)
  BY <1>0, <1>1, KeyFacts, BlockFacts DEF DriverKnows, Positions, Sequence, Size
<1>n. i \in Nat /\ Size(p) \in Nat /\ 1 <= i /\ i <= Size(p)
  BY <1>0, <1>2, BlockFacts, IntakeConstants DEF Sequence
<1>3. GroundedFor(p)' /\ AllPreflightsAccepted(p)' = AllPreflightsAccepted(p)
  BY <1>0, <1>1, <1>2
  DEF GroundedFor, Grounded, Covered, Size, Action, FinalizedWith, AllPreflightsAccepted
<1>4. /\ c \in CompilationRecords /\ c.status = "contractable" /\ c.priors = Proposed(p)
      /\ ProposesOn(p) \in Keys /\ ProposesOn(p)[1] = p /\ ProposesOn(p)[3] = i
  BY <1>0, <1>1, KeyFacts DEF DriverKnows, TypeOK, Nullable
<1>5. \A j \in Proposed(p) : j < i
  BY <1>0, <1>1 DEF DriverKnows
<1>6. answer[p] = None /\ answer'[p] = None
  BY <1>0, <1>1 DEF DriverKnows
<1>7. CASE bound
  <2>1. contract'[p] = [contract[p] EXCEPT ![i] = new]
    BY <1>0, <1>2, <1>7 DEF CommitContract, TypeOK
  <2>2. new # None
    <3>1. new \in ContractRecords
      BY <1>4 DEF CompilationRecords, ContractRecords
    <3> HIDE DEF new
    <3> QED
      BY <3>1, IntakeNull
  <2>3. /\ contract'[p][i] = new
        /\ \A j \in Sequence : j # i => contract'[p][j] = contract[p][j]
    BY <1>0, <1>2, <2>1 DEF TypeOK
  <2>4. Proposed(p)' = Proposed(p) \cup {i}
    <3> HIDE DEF new
    <3> QED
      BY <1>2, <2>2, <2>3 DEF Proposed
  <2>5. ASSUME NEW j \in Sequence PROVE ContractFits(p, j)' /\ PriorsFit(p, j)'
    <3>1. CASE j = i
      <4>1. ContractFits(p, j)'
        <5>1. PICK k \in Keys : k = ProposesOn(p)
          BY <1>4
        <5>2. contract'[p][i].compilation = k /\ contract'[p][i].params = compilation[k].params
          BY <2>3, <5>1
        <5>3. compilation'[k] = c /\ c = compilation[k] /\ k[1] = p /\ k[3] = i /\ c # None
          BY <1>1, <1>4, <5>1, IntakeNull
        <5> HIDE DEF c, new, i
        <5> QED
          BY <1>4, <3>1, <5>2, <5>3 DEF ContractFits
      <4>2. {k \in Sequence : k < i /\ contract'[p][k] # None} = Proposed(p)
        BY <1>2, <1>5, <2>3 DEF Proposed, Sequence
      <4> QED
        BY <1>4, <2>3, <3>1, <4>1, <4>2 DEF PriorsFit
    <3>2. CASE j # i
      <4>1. contract[p][j] # None => j < i
        BY <1>5, <2>5 DEF Proposed
      <4>2. contract[p][j] # None =>
              {k \in Sequence : k < j /\ contract'[p][k] # None}
                = {k \in Sequence : k < j /\ contract[p][k] # None}
        BY <1>2, <2>3, <2>5, <4>1 DEF Sequence
      <4>3. ContractFits(p, j) /\ PriorsFit(p, j) /\ contract'[p][j] = contract[p][j]
        BY <1>0, <2>3, <3>2 DEF ContractsFit
      <4> QED
        BY <1>1, <4>2, <4>3 DEF ContractFits, PriorsFit
    <3> QED
      BY <3>1, <3>2
  <2>6. WholeFor(p)'
    <3>1. block[p].kind = "codemode" => AllPreflightsAccepted(p)
      BY <1>0, <1>1 DEF DriverKnows
    <3> QED
      BY <1>1, <1>3, <1>6, <3>1, IntakeNull DEF WholeFor, Answers
  <2>7. at'[p] = Onward(p, "proposal", i)
    BY <1>0, <1>7 DEF CommitContract, Moves, TypeOK
  <2>8. \/ /\ at'[p].step = "draft" /\ at'[p].sequence = i + 1 /\ at'[p].phase = "proposal"
           /\ i + 1 <= Size(p) /\ i + 1 > 1 /\ \A j \in Proposed(p)' : j < i + 1
        \/ /\ at'[p].step = "done" /\ at'[p].sequence = i /\ at'[p].phase = "proposal"
           /\ \A j \in Proposed(p)' : j < i \/ j = i
    BY <1>n, <1>5, <2>4, <2>7, IntakeConstants DEF Onward, Position, Sequence, Proposed
  <2>9. DriverKnows(p)'
    <3> HIDE DEF new, c
    <3> QED
      BY <1>0, <1>1, <1>2, <1>3, <1>6, <2>8 DEF DriverKnows, Compiling
  <2> QED
    BY <1>3, <2>5, <2>6, <2>9 DEF ProgramInv, ContractsFit
<1>8. CASE ~bound
  <2>1. contract' = contract /\ at'[p].step = "failed" /\ at'[p].phase = "proposal"
        /\ at'[p].sequence = i
    BY <1>0, <1>1, <1>8 DEF CommitContract, Goes, Moves, Position, TypeOK
  <2>2. Proposed(p)' = Proposed(p)
    BY <2>1 DEF Proposed
  <2>3. DriverKnows(p)'
    BY <1>0, <1>1, <1>2, <1>3, <1>6, <2>1, <2>2 DEF DriverKnows, Compiling
  <2> QED
    BY <1>1, <2>1, <2>3, QuietKeeps
<1> QED
  BY <1>0, <1>7, <1>8

\* Every step keeps the invariant.
LEMMA StepKeeps == IntakeInvariant /\ [Next]_vars => IntakeInvariant'
<1> SUFFICES ASSUME IntakeInvariant, [Next]_vars PROVE IntakeInvariant'
  OBVIOUS
<1>1. TypeOK'
  BY TypeKept
<1>2. ASSUME NEW p \in Programs PROVE ProgramInv(p)'
  BY <1>1, OthersStay, StayKeeps, PreparingKeeps, ClosingKeeps, CompileKeeps, CommitKeeps DEF Drive
<1>3. (TypeOK /\ \A p \in Programs : ProgramInv(p))' <=> IntakeInvariant'
  BY InvariantByProgram, PTL
<1> QED
  BY <1>1, <1>2, <1>3

\* IntakeInvariant holds in every run, whatever blocks are driven and whatever
\* others do to drafts, catalog, bindings and time.
THEOREM IntakeKept == Spec => []IntakeInvariant
<1> QED
  BY InitHolds, StepKeeps, PTL DEF Spec

\* Every contract rests on a draft that was finalized with the parameters its
\* block asked for (deriveCandidateDecision).
THEOREM RestsOnFinalizedDrafts == Spec => []ContractsRestOnFinalizedDrafts
<1>1. IntakeInvariant => ContractsRestOnFinalizedDrafts
  <2> SUFFICES ASSUME IntakeInvariant, NEW p \in Programs, NEW i \in Sequence,
                      contract[p][i] # None
               PROVE  LET a == contract[p][i]
                          c == compilation[a.compilation] IN
                      /\ c # None
                      /\ a.params = Action(p, i).params
                      /\ FinalizedWith(c.draft, a.params, c.createdAt)
                      /\ EnvelopeExpires > c.createdAt
    BY DEF ContractsRestOnFinalizedDrafts
  <2>1. contract[p][i].compilation \in Keys
    BY DEF IntakeInvariant, TypeOK, Nullable, ContractRecords
  <2>2. ContractFits(p, i) /\ Grounded(contract[p][i].compilation)
    BY <2>1 DEF IntakeInvariant
  <2> QED
    BY <2>2 DEF ContractFits, Grounded
<1> QED
  BY <1>1, IntakeKept, PTL

\* A block that is not covered gets no contract (coverageStatusForGraph).
THEOREM NothingUncovered == Spec => []UncoveredBlocksGetNothing
<1>1. IntakeInvariant => UncoveredBlocksGetNothing
  <2> SUFFICES ASSUME IntakeInvariant, NEW p \in Programs, NEW i \in Sequence,
                      contract[p][i] # None
               PROVE  Covered(block[p])
    BY DEF UncoveredBlocksGetNothing, Proposed
  <2>1. contract[p][i].compilation \in Keys
    BY DEF IntakeInvariant, TypeOK, Nullable, ContractRecords
  <2>2. ContractFits(p, i) /\ Grounded(contract[p][i].compilation)
    BY <2>1 DEF IntakeInvariant
  <2> QED
    BY <2>2 DEF ContractFits, Grounded
<1> QED
  BY <1>1, IntakeKept, PTL

\* A contract requires the contracts of its program before it
\* (requiredPriorActionContractIds).
THEOREM PriorsAreComplete == Spec => []PriorsAreTheEarlierContracts
<1>1. IntakeInvariant => PriorsAreTheEarlierContracts
  BY DEF IntakeInvariant, PriorsAreTheEarlierContracts
<1> QED
  BY <1>1, IntakeKept, PTL

\* Codemode proposes after a preflight of the whole block, and no driver calls
\* a block proposed or refused that was not (proposeCodemodeActionContracts).
THEOREM ToldOfWholeBlocks == Spec => []CallersHearOfWholeBlocks
<1>1. IntakeInvariant => CallersHearOfWholeBlocks
  BY DEF IntakeInvariant
<1> QED
  BY <1>1, IntakeKept, PTL
=============================================================================
