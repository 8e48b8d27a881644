---------------------------- MODULE BindingsProofs ----------------------------
(***************************************************************************)
(* Proofs about Bindings, for any number of requests, records and moments.  *)
(*                                                                          *)
(* Probes and committed postures never change and a decided request stays   *)
(* as it is, so what a request has read of them keeps; what it has read of  *)
(* a binding that may change is kept in `held`, which only grows.           *)
(***************************************************************************)
EXTENDS Bindings, TLAPS

\* Probes and committed postures are never replaced.
RecordsStay ==
  /\ \A q \in Probes : probe[q] # None => probe'[q] = probe[q]
  /\ \A p \in Postures : posture[p] # None => posture'[p] = posture[p]

\* A request keeps the contract and the time it evaluates, and its decision.
RequestsStay ==
  \A r \in Requests :
    /\ evaluation[r] # None =>
         /\ evaluation'[r] # None
         /\ evaluation'[r].contract = evaluation[r].contract
         /\ evaluation'[r].now = evaluation[r].now
    /\ outcome[r] # "open" => evaluation'[r] = evaluation[r] /\ outcome'[r] = outcome[r]

\* The lists of reads, unfolded once for every proof about them.
LEMMA Lists ==
  /\ Len(PolicyReads) = 4 /\ Len(GateReads) = 5
  /\ PolicyReads \in Seq(Bindings) /\ GateReads \in Seq(Bindings)
  /\ \A r \in Requests : /\ Len(ReadsOf(r)) \in 4..5
                         /\ \A i \in 1..Len(ReadsOf(r)) : ReadsOf(r)[i] \in Bindings
  /\ \A r \in Evaluations : ReadsOf(r) = PolicyReads
  /\ \A r \in Gates : ReadsOf(r) = GateReads
<1>1. Len(PolicyReads) = 4 /\ Len(GateReads) = 5
  BY DEF PolicyReads, GateReads
<1>2. PolicyReads \in Seq(Bindings) /\ GateReads \in Seq(Bindings)
  BY DEF PolicyReads, GateReads, Bindings
<1>3. /\ \A i \in 1..4 : PolicyReads[i] \in Bindings
      /\ \A i \in 1..5 : GateReads[i] \in Bindings
  BY DEF PolicyReads, GateReads, Bindings
<1>4. /\ \A r \in Evaluations : ReadsOf(r) = PolicyReads
      /\ \A r \in Gates : ReadsOf(r) = GateReads
  BY BindingConstants DEF ReadsOf
<1> QED
  BY <1>1, <1>2, <1>3, <1>4 DEF Requests

\* The initial states satisfy the invariant: nothing is read or recorded.
LEMMA InitHolds == Init => BindingsInvariant
<1> SUFFICES ASSUME Init PROVE BindingsInvariant
  OBVIOUS
<1>1. TypeOK
  <2>1. registry \in RegistryRecords
    BY BindingConstants DEF Init
  <2>2. credential \in [CredentialIds -> Nullable(CredentialRecords)]
    BY BindingConstants DEF Init, Nullable
  <2>3. authority \in [AuthorityIds -> Nullable(AuthorityRecords)]
    BY BindingConstants DEF Init, Nullable
  <2> QED
    BY <2>1, <2>2, <2>3, BindingConstants DEF Init, TypeOK, Nullable, Times, Outcomes
<1>2. CoverageIsProven /\ CurrentIsOfItsPath
  BY DEF Init, CoverageIsProven, CurrentIsOfItsPath
<1>3. HeldIsKept /\ PostureIsKept
  BY DEF Init, HeldIsKept, PostureIsKept, Running, Requests
<1>4. DecidedWhenRead /\ WitnessFollowsItsGate
  BY DEF Init, DecidedWhenRead, WitnessFollowsItsGate
<1> QED
  BY <1>1, <1>2, <1>3, <1>4 DEF BindingsInvariant

\* No step rewrites a probe or a committed posture.
LEMMA StepKeepsRecords ==
  ASSUME BindingsInvariant, [Next]_vars
  PROVE  RecordsStay
<1> USE DEF BindingsInvariant
<1>1. CASE UNCHANGED pathVars
  BY <1>1 DEF pathVars, RecordsStay
<1>2. ASSUME NEW q \in Probes, NEW input \in ProbeInputs, CreateBypassProbe(q, input)
      PROVE  RecordsStay
  BY <1>2 DEF CreateBypassProbe, RecordsStay, TypeOK
<1>3. ASSUME NEW p \in Postures, NEW input, NEW coverage, CheckPosture(p, input, coverage)
      PROVE  RecordsStay
  BY <1>3 DEF CheckPosture, RecordsStay
<1>4. ASSUME NEW p \in Postures, CommitPosture(p) PROVE RecordsStay
  BY <1>4 DEF CommitPosture, RecordsStay, CoverageIsProven, TypeOK
<1> QED
  BY <1>1, <1>2, <1>3, <1>4
     DEF Next, Step, vars, Tick, RegisterGatewayCredentialRef, RegisterDelegatedAuthorityRef,
         TransitionDelegatedAuthorityStatus, CreateIsolationState, ReplaceGatewayRegistryEntry,
         EvaluatePolicy, GatewayCheck, Begin, ReadBinding, CommitPolicy, CommitGate, Decide,
         CheckResolutionEvidence, RecordCredentialResolutionEvidence,
         RecordGatewayCustodyProofPacket

\* A read turns the request to its next binding, or refuses it.
LEMMA ReadStep ==
  ASSUME TypeOK, NEW r \in Requests, ReadBinding(r)
  PROVE  /\ evaluation[r] # None /\ evaluation[r] \in Evaluating
         /\ outcome[r] = "open"
         /\ evaluation[r].next \in 1..Len(ReadsOf(r))
         /\ ReadsOf(r)[evaluation[r].next] \in Bindings
         /\ \A x \in Requests \ {r} : evaluation'[x] = evaluation[x] /\ outcome'[x] = outcome[x]
         /\ \/ /\ Holds(ReadsOf(r)[evaluation[r].next], evaluation[r].contract, evaluation[r].now)
               /\ outcome' = outcome
               /\ evaluation' \in [Requests -> Nullable(Evaluating)]
               /\ evaluation'[r] # None
               /\ evaluation'[r] \in Evaluating
               /\ evaluation'[r].contract = evaluation[r].contract
               /\ evaluation'[r].now = evaluation[r].now
               /\ evaluation'[r].next = evaluation[r].next + 1
               /\ evaluation'[r].posture =
                    IF ReadsOf(r)[evaluation[r].next] = "posture"
                    THEN current[PathOf[evaluation[r].contract]] ELSE evaluation[r].posture
            \/ /\ evaluation' = evaluation
               /\ outcome' = [outcome EXCEPT ![r] = "refused"]
<1> DEFINE e == evaluation[r]
           binding == ReadsOf(r)[e.next]
           p == IF binding = "posture" THEN current[PathOf[e.contract]] ELSE e.posture
           f == Turned(e, p)
<1>1. e # None /\ e \in Evaluating /\ outcome[r] = "open"
  BY DEF ReadBinding, TypeOK, Nullable
<1>2. e.next \in 1..Len(ReadsOf(r)) /\ e.next + 1 \in 1..6
  BY <1>1, Lists DEF ReadBinding, Evaluating
<1>3. binding \in Bindings
  BY <1>2, Lists
<1>4. CASE Holds(binding, e.contract, e.now)
  <2>1. e.contract \in Contracts /\ p \in Nullable(Postures)
    BY <1>1, BindingConstants DEF TypeOK, Nullable, Evaluating
  <2>2. e.next + 1 \in 1..6
    BY <1>2
  <2>3. /\ f \in Evaluating
        /\ f.contract = e.contract /\ f.now = e.now
        /\ f.next = e.next + 1 /\ f.posture = p
    BY <1>1, <2>1, <2>2 DEF Turned, Evaluating
  <2>5. evaluation' = [evaluation EXCEPT ![r] = f]
    BY <1>4 DEF ReadBinding
  <2>6. f # None
    BY <2>3, BindingNull
  <2> HIDE DEF f
  <2>7. /\ evaluation'[r] = f /\ evaluation' \in [Requests -> Nullable(Evaluating)]
        /\ \A x \in Requests \ {r} : evaluation'[x] = evaluation[x]
    BY <2>3, <2>5 DEF TypeOK, Nullable
  <2>8. outcome' = outcome
    BY <1>4 DEF ReadBinding
  <2> QED
    BY <1>1, <1>2, <1>3, <1>4, <2>3, <2>6, <2>7, <2>8
<1>5. CASE ~ Holds(binding, e.contract, e.now)
  <2>1. evaluation' = evaluation /\ outcome' = [outcome EXCEPT ![r] = "refused"]
    BY <1>5 DEF ReadBinding
  <2> QED
    BY <1>1, <1>2, <1>3, <2>1 DEF TypeOK
<1> QED
  BY <1>4, <1>5

\* All a step can do to a request: nothing, begin it, read for it, decide it.
LEMMA RequestSteps ==
  ASSUME BindingsInvariant, [Next]_vars, NEW r \in Requests
  PROVE  \/ evaluation'[r] = evaluation[r] /\ outcome'[r] = outcome[r]
         \/ /\ evaluation[r] = None
            /\ evaluation'[r] \in Evaluating /\ evaluation'[r].next = 1
            /\ outcome'[r] = "open"
         \/ ReadBinding(r)
         \/ /\ Finished(r)
            /\ evaluation'[r] = evaluation[r]
            /\ outcome'[r] \in {"refused", IF r \in Evaluations THEN "greenlit" ELSE "passed"}
<1> USE DEF BindingsInvariant
<1> DEFINE Claim ==
      \/ evaluation'[r] = evaluation[r] /\ outcome'[r] = outcome[r]
      \/ /\ evaluation[r] = None
         /\ evaluation'[r] \in Evaluating /\ evaluation'[r].next = 1
         /\ outcome'[r] = "open"
      \/ ReadBinding(r)
      \/ /\ Finished(r)
         /\ evaluation'[r] = evaluation[r]
         /\ outcome'[r] \in {"refused", IF r \in Evaluations THEN "greenlit" ELSE "passed"}
<1> SUFFICES Claim
  OBVIOUS
<1>1. CASE UNCHANGED requestVars
  BY <1>1 DEF requestVars
<1>2. ASSUME NEW x \in Requests, NEW c \in Contracts, NEW e \in Nullable(Evaluations),
             Begin(x, c, e)
      PROVE  Claim
  <2>1. [contract |-> c, greenlight |-> e, now |-> clock, next |-> 1, posture |-> None] \in Evaluating
    BY DEF TypeOK, Evaluating, Nullable
  <2>2. CASE x = r
    BY <1>2, <2>1, <2>2 DEF Begin, TypeOK, DecidedWhenRead, Outcomes
  <2>3. CASE x # r
    BY <1>2, <2>3 DEF Begin, TypeOK
  <2> QED
    BY <2>2, <2>3
<1>3. ASSUME NEW x \in Requests, ReadBinding(x) PROVE Claim
  BY <1>3, ReadStep
<1>4. ASSUME NEW x \in Requests, NEW result, Decide(x, result),
             result \in {"refused", IF x \in Evaluations THEN "greenlit" ELSE "passed"}
      PROVE  Claim
  <2>1. CASE x = r
    BY <1>4, <2>1 DEF Decide, TypeOK
  <2>2. CASE x # r
    BY <1>4, <2>2 DEF Decide, TypeOK
  <2> QED
    BY <2>1, <2>2
<1>5. CASE UNCHANGED vars
  BY <1>1, <1>5 DEF vars
<1>6. CASE Step
  <2>1. (\E x \in Requests : ReadBinding(x)) => Claim
    BY <1>3
  <2>2. (\E e \in Evaluations : CommitPolicy(e)) => Claim
    BY <1>4 DEF CommitPolicy, Requests
  <2>3. (\E g \in Gates : CommitGate(g)) => Claim
    BY <1>4, BindingConstants DEF CommitGate, Requests
  <2>4. (\E e \in Evaluations, c \in Contracts : EvaluatePolicy(e, c)) => Claim
    BY <1>2 DEF EvaluatePolicy, Requests, Nullable
  <2>5. (\E g \in Gates, e \in Evaluations : GatewayCheck(g, e)) => Claim
    <3> SUFFICES ASSUME NEW g \in Gates, NEW e \in Evaluations, GatewayCheck(g, e)
                 PROVE  Claim
      OBVIOUS
    <3>1. evaluation[e].contract \in Contracts
      BY DEF GatewayCheck, DecidedWhenRead, TypeOK, Nullable, Evaluating, Requests
    <3> QED
      BY <1>2, <3>1 DEF GatewayCheck, Requests, Nullable
  <2>6. CASE ~ UNCHANGED requestVars
    <3> HIDE DEF Claim
    <3> QED
      BY <1>6, <2>6, <2>1, <2>2, <2>3, <2>4, <2>5
         DEF Step, requestVars, Tick, CreateBypassProbe, CheckPosture, CommitPosture,
           RegisterGatewayCredentialRef, RegisterDelegatedAuthorityRef,
           TransitionDelegatedAuthorityStatus, CreateIsolationState, ReplaceGatewayRegistryEntry,
           CheckResolutionEvidence, RecordCredentialResolutionEvidence,
           RecordGatewayCustodyProofPacket
  <2> QED
    BY <1>1, <2>6
<1> QED
  BY <1>5, <1>6 DEF Next

\* No step turns a request to another contract or time, or decides it again.
LEMMA StepKeepsRequests ==
  ASSUME BindingsInvariant, [Next]_vars
  PROVE  RequestsStay
<1> SUFFICES ASSUME NEW r \in Requests
             PROVE  /\ evaluation[r] # None =>
                         /\ evaluation'[r] # None
                         /\ evaluation'[r].contract = evaluation[r].contract
                         /\ evaluation'[r].now = evaluation[r].now
                    /\ outcome[r] # "open" => evaluation'[r] = evaluation[r] /\ outcome'[r] = outcome[r]
  BY DEF RequestsStay
<1>1. CASE ReadBinding(r)
  BY <1>1, ReadStep DEF BindingsInvariant, TypeOK
<1>2. CASE ~ ReadBinding(r)
  BY <1>2, RequestSteps DEF Finished, BindingsInvariant, DecidedWhenRead
<1> QED
  BY <1>1, <1>2

\* The history only grows, and holds what holds after the step.
LEMMA HistoryGrows ==
  ASSUME BindingsInvariant, [Next]_vars, NEW r \in Requests
  PROVE  /\ held[r] \subseteq held'[r]
         /\ Running(r)' => Witnessed(r)' \subseteq held'[r]
         /\ held' \in [Requests -> SUBSET Bindings]
<1> USE DEF BindingsInvariant
<1>1. CASE Watch
  <2>1. \A x \in Requests : Witnessed(x)' \subseteq Bindings
    BY DEF Witnessed
  <2> HIDE DEF Witnessed
  <2> QED
    BY <1>1, <2>1 DEF Watch, TypeOK, Running
<1>2. CASE UNCHANGED vars
  <2>1. Running(r)' = Running(r) /\ Witnessed(r)' = Witnessed(r) /\ held' = held
    BY <1>2 DEF vars, pathVars, refVars, requestVars, Running, Witnessed, Holds, RegistryHolds,
                IsolationClear, PostureHolds, Covered, AuthorityHolds, CredentialHolds
  <2> QED
    BY <2>1 DEF TypeOK, HeldIsKept
<1> QED
  BY <1>1, <1>2 DEF Next

\* Every variable keeps its type.
LEMMA StepKeepsTypes ==
  ASSUME BindingsInvariant, [Next]_vars
  PROVE  TypeOK'
<1> USE DEF BindingsInvariant
<1>1. held' \in [Requests -> SUBSET Bindings]
  <2>1. Requests = {} => held' \in [Requests -> SUBSET Bindings]
    BY DEF Next, Watch, vars, TypeOK
  <2> QED
    BY <2>1, HistoryGrows
<1>2. CASE UNCHANGED vars
  BY <1>2 DEF vars, pathVars, refVars, requestVars, custodyVars, TypeOK
<1>3. CASE Step
  <2> USE <1>1, <1>3
  <2> DEFINE PathsOK == /\ probe' \in [Probes -> Nullable(ProbeRecords)]
                        /\ draft' \in [Postures -> Nullable(PostureRecords)]
                        /\ posture' \in [Postures -> Nullable(PostureRecords)]
                        /\ current' \in [Paths -> Nullable(Postures)]
             RefsOK == /\ credential' \in [CredentialIds -> Nullable(CredentialRecords)]
                       /\ authority' \in [AuthorityIds -> Nullable(AuthorityRecords)]
                       /\ isolation' \in [AuthorityIds -> {"active", "revoked"}]
                       /\ registry' \in RegistryRecords
             RequestsOK == /\ evaluation' \in [Requests -> Nullable(Evaluating)]
                           /\ outcome' \in [Requests -> Outcomes]
             CustodyOK == /\ witness' \in [Evidences -> Nullable(EvidenceRecords)]
                          /\ evidence' \in [Evidences -> Nullable(EvidenceRecords)]
                          /\ packet' \in [Packets -> Nullable(PacketRecords)]
  <2>1. clock' \in Times
    BY BindingConstants
       DEF Step, TypeOK, Times, Tick, CreateBypassProbe, CheckPosture, CommitPosture,
         RegisterGatewayCredentialRef, RegisterDelegatedAuthorityRef,
         TransitionDelegatedAuthorityStatus, CreateIsolationState, ReplaceGatewayRegistryEntry,
         EvaluatePolicy, GatewayCheck, Begin, ReadBinding, CommitPolicy, CommitGate, Decide,
         CheckResolutionEvidence, RecordCredentialResolutionEvidence,
         RecordGatewayCustodyProofPacket
  <2>2. PathsOK
    <3>1. CASE UNCHANGED pathVars
      BY <3>1 DEF pathVars, TypeOK
    <3>2. ASSUME NEW q \in Probes, NEW input \in ProbeInputs, CreateBypassProbe(q, input)
          PROVE  PathsOK
      BY <3>2, BindingConstants DEF CreateBypassProbe, TypeOK, Nullable
    <3>3. ASSUME NEW p \in Postures, NEW input \in PostureInputs,
                 NEW coverage \in [Kinds -> Nullable(Probes)], CheckPosture(p, input, coverage)
          PROVE  PathsOK
      <4>1. [path |-> input.path, sound |-> input.sound, owned |-> input.owned,
             expires |-> input.expires, coverage |-> coverage, createdAt |-> clock] \in PostureRecords
        BY BindingConstants DEF PostureMaterial, PostureRecords, TypeOK
      <4> QED
        BY <3>3, <4>1 DEF CheckPosture, TypeOK, Nullable
    <3>4. ASSUME NEW p \in Postures, CommitPosture(p) PROVE PathsOK
      <4>1. draft[p] \in PostureRecords
        BY <3>4 DEF CommitPosture, TypeOK, Nullable
      <4>2. current' = [current EXCEPT ![draft[p].path] = p] /\ draft[p].path \in Paths
        BY <3>4, <4>1 DEF CommitPosture, PostureRecords
      <4> QED
        BY <3>4, <4>1, <4>2 DEF CommitPosture, TypeOK, Nullable
    <3> HIDE DEF PathsOK
    <3> QED
      BY <3>1, <3>2, <3>3, <3>4
         DEF Step, Tick, RegisterGatewayCredentialRef, RegisterDelegatedAuthorityRef,
           TransitionDelegatedAuthorityStatus, CreateIsolationState, ReplaceGatewayRegistryEntry,
           EvaluatePolicy, GatewayCheck, Begin, ReadBinding, CommitPolicy, CommitGate, Decide,
           CheckResolutionEvidence, RecordCredentialResolutionEvidence,
           RecordGatewayCustodyProofPacket
  <2>3. RefsOK
    <3>1. CASE UNCHANGED refVars
      BY <3>1 DEF refVars, TypeOK
    <3>2. ASSUME NEW input \in CredentialInputs, RegisterGatewayCredentialRef(input) PROVE RefsOK
      BY <3>2, BindingConstants DEF RegisterGatewayCredentialRef, TypeOK, Nullable, CredentialRecords
    <3>3. ASSUME NEW input \in AuthorityInputs, RegisterDelegatedAuthorityRef(input) PROVE RefsOK
      BY <3>3, BindingConstants DEF RegisterDelegatedAuthorityRef, TypeOK, Nullable, AuthorityRecords
    <3>4. ASSUME NEW i \in AuthorityIds, NEW n, TransitionDelegatedAuthorityStatus(i, n) PROVE RefsOK
      BY <3>4 DEF TransitionDelegatedAuthorityStatus, TypeOK
    <3>5. ASSUME NEW i \in AuthorityIds, NEW s \in {"active", "revoked"}, CreateIsolationState(i, s)
          PROVE  RefsOK
      BY <3>5 DEF CreateIsolationState, TypeOK
    <3>6. ASSUME NEW input \in RegistryInputs, ReplaceGatewayRegistryEntry(input) PROVE RefsOK
      BY <3>6, BindingConstants DEF ReplaceGatewayRegistryEntry, TypeOK
    <3> HIDE DEF RefsOK
    <3> QED
      BY <3>1, <3>2, <3>3, <3>4, <3>5, <3>6
         DEF Step, Tick, CreateBypassProbe, CheckPosture, CommitPosture,
           EvaluatePolicy, GatewayCheck, Begin, ReadBinding, CommitPolicy, CommitGate, Decide,
           CheckResolutionEvidence, RecordCredentialResolutionEvidence,
           RecordGatewayCustodyProofPacket
  <2>4. RequestsOK
    <3>1. CASE UNCHANGED requestVars
      BY <3>1 DEF requestVars, TypeOK
    <3>2. ASSUME NEW x \in Requests, NEW c \in Contracts, NEW e \in Nullable(Evaluations),
                 Begin(x, c, e)
          PROVE  RequestsOK
      <4>1. [contract |-> c, greenlight |-> e, now |-> clock, next |-> 1, posture |-> None]
              \in Evaluating
        BY DEF TypeOK, Evaluating, Nullable
      <4> QED
        BY <3>2, <4>1 DEF Begin, TypeOK, Nullable
    <3>3. ASSUME NEW x \in Requests, ReadBinding(x) PROVE RequestsOK
      BY <3>3, ReadStep DEF TypeOK, Outcomes
    <3>4. ASSUME NEW x \in Requests, NEW result \in Outcomes, Decide(x, result) PROVE RequestsOK
      BY <3>4 DEF Decide, TypeOK
    <3>5. (\E g \in Gates, e \in Evaluations : GatewayCheck(g, e)) => RequestsOK
      <4> SUFFICES ASSUME NEW g \in Gates, NEW e \in Evaluations, GatewayCheck(g, e)
                   PROVE  RequestsOK
        OBVIOUS
      <4>1. evaluation[e].contract \in Contracts
        BY DEF GatewayCheck, DecidedWhenRead, TypeOK, Nullable, Evaluating, Requests
      <4> QED
        BY <3>2, <4>1 DEF GatewayCheck, Requests, Nullable
    <3>6. (\E e \in Evaluations, c \in Contracts : EvaluatePolicy(e, c)) => RequestsOK
      BY <3>2 DEF EvaluatePolicy, Requests, Nullable
    <3>7. (\E e \in Evaluations : CommitPolicy(e)) => RequestsOK
      BY <3>4 DEF CommitPolicy, Requests, Outcomes
    <3>8. (\E g \in Gates : CommitGate(g)) => RequestsOK
      BY <3>4 DEF CommitGate, Requests, Outcomes
    <3> HIDE DEF RequestsOK
    <3> QED
      BY <3>1, <3>3, <3>5, <3>6, <3>7, <3>8
         DEF Step, requestVars, Tick, CreateBypassProbe, CheckPosture, CommitPosture,
           RegisterGatewayCredentialRef, RegisterDelegatedAuthorityRef,
           TransitionDelegatedAuthorityStatus, CreateIsolationState, ReplaceGatewayRegistryEntry,
           CheckResolutionEvidence, RecordCredentialResolutionEvidence,
           RecordGatewayCustodyProofPacket
  <2>5. CustodyOK
    <3>1. CASE UNCHANGED custodyVars
      BY <3>1 DEF custodyVars, TypeOK
    <3>2. ASSUME NEW w \in Evidences, NEW g \in Gates, NEW i \in CredentialIds,
                 CheckResolutionEvidence(w, g, i)
          PROVE  CustodyOK
      <4>1. credential[i] \in CredentialRecords
        BY <3>2, BindingConstants, BindingNull
           DEF CheckResolutionEvidence, ResolutionEvidenceAllowed, CredentialHolds, TypeOK, Nullable,
               DecidedWhenRead, Evaluating, Requests
      <4>2. [gate |-> g, credential |-> credential[i]] \in EvidenceRecords
        BY <4>1 DEF EvidenceRecords
      <4> QED
        BY <3>2, <4>2 DEF CheckResolutionEvidence, TypeOK, Nullable
    <3>3. ASSUME NEW w \in Evidences, RecordCredentialResolutionEvidence(w) PROVE CustodyOK
      BY <3>3 DEF RecordCredentialResolutionEvidence, TypeOK, Nullable
    <3>4. ASSUME NEW k \in Packets, NEW p \in Postures, NEW i \in CredentialIds,
                 RecordGatewayCustodyProofPacket(k, p, i)
          PROVE  CustodyOK
      <4>1. [posture |-> p, credential |-> credential[i]] \in PacketRecords
        BY <3>4 DEF RecordGatewayCustodyProofPacket, PacketRecords, TypeOK, Nullable
      <4> QED
        BY <3>4, <4>1 DEF RecordGatewayCustodyProofPacket, TypeOK, Nullable
    <3> HIDE DEF CustodyOK
    <3> QED
      BY <3>1, <3>2, <3>3, <3>4
         DEF Step, Tick, CreateBypassProbe, CheckPosture, CommitPosture,
           RegisterGatewayCredentialRef, RegisterDelegatedAuthorityRef,
           TransitionDelegatedAuthorityStatus, CreateIsolationState, ReplaceGatewayRegistryEntry,
           EvaluatePolicy, GatewayCheck, Begin, ReadBinding, CommitPolicy, CommitGate, Decide
  <2> QED
    BY <2>1, <2>2, <2>3, <2>4, <2>5 DEF TypeOK
<1> QED
  BY <1>2, <1>3 DEF Next

\* What is proven of the coverage of a posture stays proven, and a posture is
\* drawn up and committed only with proven coverage.
LEMMA StepKeepsCoverage ==
  ASSUME BindingsInvariant, [Next]_vars
  PROVE  CoverageIsProven'
<1> USE DEF BindingsInvariant
<1>1. RecordsStay
  BY StepKeepsRecords
<1>2. ASSUME NEW record \in PostureRecords, ProvenCoverage(record) PROVE ProvenCoverage(record)'
  BY <1>1, <1>2 DEF ProvenCoverage, RecordsStay, PostureRecords, Nullable
<1>3. ASSUME UNCHANGED <<draft, posture>> PROVE CoverageIsProven'
  BY <1>2, <1>3 DEF CoverageIsProven, TypeOK, Nullable
<1>4. ASSUME NEW p \in Postures, NEW input \in PostureInputs,
             NEW coverage \in [Kinds -> Nullable(Probes)], CheckPosture(p, input, coverage)
      PROVE  CoverageIsProven'
  <2>1. [path |-> input.path, sound |-> input.sound, owned |-> input.owned,
         expires |-> input.expires, coverage |-> coverage, createdAt |-> clock] \in PostureRecords
    BY BindingConstants DEF PostureMaterial, PostureRecords, TypeOK
  <2>2. PICK record \in PostureRecords :
          record = [path |-> input.path, sound |-> input.sound, owned |-> input.owned,
                    expires |-> input.expires, coverage |-> coverage, createdAt |-> clock]
    BY <2>1
  <2>3. draft' = [draft EXCEPT ![p] = record] /\ posture' = posture /\ posture[p] = None
    BY <1>4, <2>2 DEF CheckPosture
  <2>4. ProvenCoverage(record)
    BY <1>4, <2>2, BindingConstants
       DEF CheckPosture, LoadBypassProbes, ProvenCoverage, TypeOK, PostureMaterial
  <2>5. ProvenCoverage(record)'
    BY <1>2, <2>4
  <2>6. \A x \in Postures : draft'[x] # None => posture'[x] = None /\ ProvenCoverage(draft[x])'
    <3> SUFFICES ASSUME NEW x \in Postures, draft'[x] # None
                 PROVE  posture'[x] = None /\ ProvenCoverage(draft[x])'
      OBVIOUS
    <3>1. CASE x = p
      BY <2>3, <2>5, <3>1 DEF TypeOK, ProvenCoverage
    <3>2. CASE x # p
      <4>1. draft'[x] = draft[x] /\ draft[x] # None
        BY <2>3, <3>2 DEF TypeOK
      <4>2. PICK d \in PostureRecords : d = draft[x]
        BY <4>1 DEF TypeOK, Nullable
      <4>3. ProvenCoverage(d)'
        BY <1>2, <4>1, <4>2 DEF CoverageIsProven
      <4> QED
        BY <2>3, <4>1, <4>2, <4>3 DEF CoverageIsProven, ProvenCoverage
    <3> QED
      BY <3>1, <3>2
  <2>7. \A x \in Postures : posture'[x] # None => ProvenCoverage(posture[x])'
    <3> SUFFICES ASSUME NEW x \in Postures, posture'[x] # None PROVE ProvenCoverage(posture[x])'
      OBVIOUS
    <3>1. PICK d \in PostureRecords : d = posture[x]
      BY <2>3 DEF TypeOK, Nullable
    <3> QED
      BY <1>2, <2>3, <3>1 DEF CoverageIsProven, ProvenCoverage
  <2> QED
    BY <2>6, <2>7 DEF CoverageIsProven
<1>5. ASSUME NEW p \in Postures, CommitPosture(p) PROVE CoverageIsProven'
  BY <1>2, <1>5 DEF CommitPosture, CoverageIsProven, TypeOK, Nullable
<1> QED
  BY <1>3, <1>4, <1>5
     DEF Next, Step, vars, pathVars, Tick, CreateBypassProbe,
         RegisterGatewayCredentialRef, RegisterDelegatedAuthorityRef,
         TransitionDelegatedAuthorityStatus, CreateIsolationState, ReplaceGatewayRegistryEntry,
         EvaluatePolicy, GatewayCheck, Begin, ReadBinding, CommitPolicy, CommitGate, Decide,
         CheckResolutionEvidence, RecordCredentialResolutionEvidence,
         RecordGatewayCustodyProofPacket

\* The current posture of a path is a committed posture of that path.
LEMMA StepKeepsCurrent ==
  ASSUME BindingsInvariant, [Next]_vars
  PROVE  CurrentIsOfItsPath'
<1> USE DEF BindingsInvariant
<1>1. RecordsStay
  BY StepKeepsRecords
<1>2. CASE UNCHANGED current
  BY <1>1, <1>2 DEF CurrentIsOfItsPath, RecordsStay, TypeOK, Nullable
<1>3. ASSUME NEW p \in Postures, CommitPosture(p) PROVE CurrentIsOfItsPath'
  <2>1. draft[p] \in PostureRecords /\ draft[p] # None
    BY <1>3 DEF CommitPosture, TypeOK, Nullable
  <2>2. posture'[p] = draft[p] /\ current' = [current EXCEPT ![draft[p].path] = p]
    BY <1>3 DEF CommitPosture, TypeOK
  <2> QED
    BY <1>1, <2>1, <2>2 DEF CurrentIsOfItsPath, RecordsStay, TypeOK, Nullable, PostureRecords
<1> QED
  BY <1>2, <1>3
     DEF Next, Step, vars, pathVars, Tick, CreateBypassProbe, CheckPosture,
         RegisterGatewayCredentialRef, RegisterDelegatedAuthorityRef,
         TransitionDelegatedAuthorityStatus, CreateIsolationState, ReplaceGatewayRegistryEntry,
         EvaluatePolicy, GatewayCheck, Begin, ReadBinding, CommitPolicy, CommitGate, Decide,
         CheckResolutionEvidence, RecordCredentialResolutionEvidence,
         RecordGatewayCustodyProofPacket

\* What a request has read held when it read it.
LEMMA StepKeepsHistory ==
  ASSUME BindingsInvariant, [Next]_vars
  PROVE  HeldIsKept'
<1> USE DEF BindingsInvariant
<1> SUFFICES ASSUME NEW r \in Requests
             PROVE  /\ Running(r)' => Witnessed(r)' \subseteq held'[r]
                    /\ evaluation'[r] # None =>
                         \A i \in 1..Len(ReadsOf(r)) :
                           i < evaluation'[r].next => ReadsOf(r)[i] \in held'[r]
  BY DEF HeldIsKept, ReadsOf, PolicyReads, GateReads
<1>1. held[r] \subseteq held'[r] /\ (Running(r)' => Witnessed(r)' \subseteq held'[r])
  BY HistoryGrows
<1>2. CASE evaluation'[r] = evaluation[r]
  BY <1>1, <1>2 DEF HeldIsKept
<1>3. CASE evaluation'[r].next = 1
  BY <1>1, <1>3
<1>4. CASE ReadBinding(r) /\ evaluation'[r] # evaluation[r]
  <2>1. /\ evaluation[r] # None /\ outcome[r] = "open"
        /\ evaluation[r].next \in 1..Len(ReadsOf(r))
        /\ ReadsOf(r)[evaluation[r].next] \in Bindings
        /\ Holds(ReadsOf(r)[evaluation[r].next], evaluation[r].contract, evaluation[r].now)
        /\ evaluation'[r].next = evaluation[r].next + 1
    BY <1>4, ReadStep
  <2>2. ReadsOf(r)[evaluation[r].next] \in held[r]
    BY <2>1 DEF HeldIsKept, Running, Witnessed
  <2> HIDE DEF BindingsInvariant
  <2>3. ASSUME NEW i \in 1..Len(ReadsOf(r)), i < evaluation'[r].next
        PROVE  ReadsOf(r)[i] \in held[r]
    <3>1. i < evaluation[r].next \/ i = evaluation[r].next
      BY <2>1, <2>3, Lists
    <3> QED
      BY <2>1, <2>2, <3>1 DEF BindingsInvariant, HeldIsKept
  <2> QED
    BY <1>1, <2>3
<1> QED
  BY <1>1, <1>2, <1>3, <1>4, RequestSteps

\* A gate that has read the posture keeps what it read.
LEMMA StepKeepsPosture ==
  ASSUME BindingsInvariant, [Next]_vars
  PROVE  PostureIsKept'
<1> USE DEF BindingsInvariant
<1>1. RecordsStay
  BY StepKeepsRecords
<1>2. ASSUME NEW e \in Evaluating, RestsOnPosture(e) PROVE RestsOnPosture(e)'
  <2>1. e.posture \in Postures /\ posture[e.posture] \in PostureRecords
    BY <1>2 DEF RestsOnPosture, Evaluating, TypeOK, Nullable
  <2>2. posture'[e.posture] = posture[e.posture]
    BY <1>1, <1>2, <2>1 DEF RestsOnPosture, RecordsStay
  <2>3. \A k \in Kinds : LET q == posture[e.posture].coverage[k] IN
                         q # None => q \in Probes /\ probe'[q] = probe[q]
    BY <1>1, <1>2, <2>1
       DEF RestsOnPosture, RecordsStay, CoverageIsProven, ProvenCoverage, PostureRecords, Nullable
  <2> QED
    BY <1>2, <2>1, <2>2, <2>3 DEF RestsOnPosture, Covered
<1> SUFFICES ASSUME NEW g \in Gates, evaluation'[g] # None, evaluation'[g].next > 3,
                    evaluation'[g].contract \in PathRequired
             PROVE  RestsOnPosture(evaluation[g])'
  BY DEF PostureIsKept
<1>0. PICK f \in Evaluating : f = evaluation'[g]
  BY StepKeepsTypes DEF TypeOK, Nullable, Requests
<1>a. RestsOnPosture(f)' => RestsOnPosture(evaluation[g])'
  BY <1>0 DEF RestsOnPosture, Covered
<1>3. g \in Requests /\ ReadsOf(g) = GateReads
  BY Lists DEF Requests
<1>4. CASE evaluation'[g] = evaluation[g]
  <2>1. RestsOnPosture(f)
    BY <1>0, <1>3, <1>4 DEF PostureIsKept
  <2> QED
    BY <1>2, <1>a, <2>1
<1>5. CASE evaluation'[g].next = 1
  BY <1>5
<1>6. CASE ReadBinding(g) /\ evaluation'[g] # evaluation[g]
  <2> DEFINE e == evaluation[g]
  <2>1. /\ e # None /\ e \in Evaluating /\ f \in Evaluating
        /\ e.next \in 1..5 /\ f.next = e.next + 1 /\ f.contract = e.contract
        /\ Holds(GateReads[e.next], e.contract, e.now)
        /\ f.posture = IF GateReads[e.next] = "posture" THEN current[PathOf[e.contract]]
                       ELSE e.posture
    <3>1. Len(GateReads) = 5
      BY Lists
    <3> QED
      BY <1>0, <1>3, <1>6, <3>1, ReadStep
  <2>2. UNCHANGED pathVars
    BY <1>6 DEF ReadBinding
  <2> HIDE DEF e
  <2>3. CASE e.next = 3
    <3>1. GateReads[3] = "posture"
      BY DEF GateReads
    <3>2. PostureHolds(e.contract, e.now) /\ f.posture = current[PathOf[e.contract]]
      BY <2>1, <2>3, <3>1 DEF Holds
    <3>3. e.contract \in PathRequired /\ e.contract \in Contracts /\ PathOf[e.contract] \in Paths
      BY <1>0, <2>1, BindingConstants DEF Evaluating
    <3>4. RestsOnPosture(f)
      BY <2>1, <3>2, <3>3 DEF PostureHolds, RestsOnPosture, CurrentIsOfItsPath
    <3> QED
      BY <1>2, <1>a, <3>4
  <2>4. CASE e.next > 3
    <3>1. GateReads[e.next] # "posture"
      BY <2>1, <2>4 DEF GateReads
    <3>2. RestsOnPosture(e)
      BY <1>0, <2>1, <2>4 DEF PostureIsKept, e
    <3>3. RestsOnPosture(f)
      BY <2>1, <3>1, <3>2 DEF RestsOnPosture
    <3> QED
      BY <1>2, <1>a, <3>3
  <2>5. e.next + 1 > 3
    BY <1>0, <2>1
  <2> QED
    BY <1>0, <2>1, <2>3, <2>4, <2>5
<1> QED
  BY <1>3, <1>4, <1>5, <1>6, RequestSteps

\* A request is decided once it has read everything, and by its own commit.
LEMMA StepKeepsDecisions ==
  ASSUME BindingsInvariant, [Next]_vars
  PROVE  DecidedWhenRead'
<1> USE DEF BindingsInvariant
<1> SUFFICES ASSUME NEW r \in Requests
             PROVE  /\ outcome'[r] # "open" => evaluation'[r] # None
                    /\ outcome'[r] = "greenlit" => r \in Evaluations /\ evaluation'[r].next > Len(PolicyReads)
                    /\ outcome'[r] = "passed" => r \in Gates /\ evaluation'[r].next > Len(GateReads)
  BY DEF DecidedWhenRead
<1>1. CASE evaluation'[r] = evaluation[r] /\ outcome'[r] = outcome[r]
  BY <1>1 DEF DecidedWhenRead
<1>2. CASE evaluation'[r] \in Evaluating /\ outcome'[r] = "open"
  BY <1>2
<1>3. CASE ReadBinding(r)
  <2>1. /\ evaluation[r] # None /\ outcome[r] = "open"
        /\ \/ outcome' = outcome
           \/ evaluation' = evaluation /\ outcome' = [outcome EXCEPT ![r] = "refused"]
    BY <1>3, ReadStep
  <2> QED
    BY <2>1 DEF TypeOK
<1>4. CASE /\ Finished(r)
           /\ evaluation'[r] = evaluation[r]
           /\ outcome'[r] \in {"refused", IF r \in Evaluations THEN "greenlit" ELSE "passed"}
  BY <1>4, Lists DEF Finished, Requests
<1> QED
  BY <1>1, <1>2, <1>3, <1>4, RequestSteps

\* Evidence is checked against a gate that has passed, and what a passed gate
\* evaluates never changes.
LEMMA StepKeepsWitness ==
  ASSUME BindingsInvariant, [Next]_vars
  PROVE  WitnessFollowsItsGate'
<1> USE DEF BindingsInvariant
<1>1. RequestsStay
  BY StepKeepsRequests
<1>2. ASSUME NEW x \in EvidenceRecords, outcome[x.gate] = "passed",
             x.credential = CredentialOf[evaluation[x.gate].contract]
      PROVE  outcome'[x.gate] = "passed" /\ x.credential = CredentialOf[evaluation'[x.gate].contract]
  BY <1>1, <1>2 DEF RequestsStay, EvidenceRecords, Requests
<1>3. CASE UNCHANGED <<witness, evidence>>
  BY <1>2, <1>3 DEF WitnessFollowsItsGate, TypeOK, Nullable
<1>4. ASSUME NEW w \in Evidences, NEW g \in Gates, NEW i \in CredentialIds,
             CheckResolutionEvidence(w, g, i)
      PROVE  WitnessFollowsItsGate'
  <2>1. /\ outcome[g] = "passed" /\ evaluation[g].contract \in Contracts
        /\ credential[i] = CredentialOf[evaluation[g].contract]
        /\ credential[i] \in CredentialRecords
    BY <1>4, BindingConstants, BindingNull
       DEF CheckResolutionEvidence, ResolutionEvidenceAllowed, CredentialHolds, TypeOK, Nullable,
           DecidedWhenRead, Evaluating, Requests
  <2>2. PICK x \in EvidenceRecords : x = [gate |-> g, credential |-> credential[i]]
    BY <2>1 DEF EvidenceRecords
  <2>3. /\ outcome'[x.gate] = "passed"
        /\ x.credential = CredentialOf[evaluation'[x.gate].contract]
    BY <1>2, <2>1, <2>2
  <2>4. witness' = [witness EXCEPT ![w] = x] /\ evidence' = evidence
    BY <1>4, <2>2 DEF CheckResolutionEvidence
  <2> QED
    BY <1>2, <2>3, <2>4 DEF WitnessFollowsItsGate, TypeOK, Nullable
<1>5. ASSUME NEW w \in Evidences, RecordCredentialResolutionEvidence(w)
      PROVE  WitnessFollowsItsGate'
  BY <1>2, <1>5 DEF RecordCredentialResolutionEvidence, WitnessFollowsItsGate, TypeOK, Nullable
<1> QED
  BY <1>3, <1>4, <1>5
     DEF Next, Step, vars, custodyVars, Tick, CreateBypassProbe, CheckPosture, CommitPosture,
         RegisterGatewayCredentialRef, RegisterDelegatedAuthorityRef,
         TransitionDelegatedAuthorityStatus, CreateIsolationState, ReplaceGatewayRegistryEntry,
         EvaluatePolicy, GatewayCheck, Begin, ReadBinding, CommitPolicy, CommitGate, Decide,
         RecordGatewayCustodyProofPacket

\* The bindings and their evaluations keep the inductive invariant in every
\* reachable state: types, proven coverage, a current posture per path, what a
\* request has read, and evidence that follows its gate (all of Bindings).
THEOREM BindingsKept == Spec => []BindingsInvariant
<1>1. BindingsInvariant /\ [Next]_vars => BindingsInvariant'
  BY StepKeepsTypes, StepKeepsCoverage, StepKeepsCurrent, StepKeepsHistory, StepKeepsPosture,
     StepKeepsDecisions, StepKeepsWitness DEF BindingsInvariant
<1> QED
  BY InitHolds, <1>1, PTL DEF Spec

\* A greenlight is issued only over bindings that held since its evaluation
\* began (derivePolicyConstraintEvaluation), whatever is replaced meanwhile.
THEOREM GreenlitOnBindings == Spec => []GreenlitOnStandingBindings
<1>1. BindingsInvariant => GreenlitOnStandingBindings
  <2> SUFFICES ASSUME BindingsInvariant, NEW e \in Evaluations, outcome[e] = "greenlit"
               PROVE  {"isolation", "posture", "credential", "authority"} \subseteq held[e]
    BY DEF GreenlitOnStandingBindings
  <2>1. e \in Requests /\ ReadsOf(e) = PolicyReads
    BY Lists DEF Requests
  <2>2. evaluation[e] # None /\ evaluation[e].next > Len(PolicyReads) /\ evaluation[e] \in Evaluating
    BY <2>1 DEF BindingsInvariant, DecidedWhenRead, TypeOK, Nullable
  <2>3. Len(PolicyReads) = 4 /\ evaluation[e].next \in Nat
    BY <2>2, Lists DEF Evaluating
  <2>4. \A i \in 1..4 : PolicyReads[i] \in held[e]
    <3>1. \A i \in 1..Len(PolicyReads) : i < evaluation[e].next => PolicyReads[i] \in held[e]
      BY <2>1, <2>2 DEF BindingsInvariant, HeldIsKept
    <3> QED
      BY <2>2, <2>3, <3>1
  <2> QED
    BY <2>4 DEF PolicyReads
<1> QED
  BY BindingsKept, <1>1, PTL

\* The gate passes only over bindings that held since its own check began
\* (deriveGatewayConstraintEvaluation), whatever is replaced meanwhile.
THEOREM PassedOnBindings == Spec => []PassedOnStandingBindings
<1>1. BindingsInvariant => PassedOnStandingBindings
  <2> SUFFICES ASSUME BindingsInvariant, NEW g \in Gates, outcome[g] = "passed"
               PROVE  Bindings \subseteq held[g]
    BY DEF PassedOnStandingBindings
  <2>1. g \in Requests /\ ReadsOf(g) = GateReads
    BY Lists DEF Requests
  <2>2. evaluation[g] # None /\ evaluation[g].next > Len(GateReads) /\ evaluation[g] \in Evaluating
    BY <2>1 DEF BindingsInvariant, DecidedWhenRead, TypeOK, Nullable
  <2>3. Len(GateReads) = 5 /\ evaluation[g].next \in Nat
    BY <2>2, Lists DEF Evaluating
  <2>4. \A i \in 1..5 : GateReads[i] \in held[g]
    BY <2>1, <2>2, <2>3 DEF BindingsInvariant, HeldIsKept
  <2> QED
    BY <2>4 DEF GateReads, Bindings
<1> QED
  BY BindingsKept, <1>1, PTL

\* Behind every pass that needs a checked path stands a posture of that path
\* and, for each required kind, a sound probe of that path, unexpired when the
\* posture was drawn up (loadBypassProbes, evaluateGatewayCheckedProbeCoverage).
THEOREM PassOnProbes == Spec => []PassRestsOnProbesOfItsPath
<1>1. BindingsInvariant => PassRestsOnProbesOfItsPath
  <2> SUFFICES ASSUME BindingsInvariant, NEW g \in Gates, outcome[g] = "passed",
                      evaluation[g].contract \in PathRequired
               PROVE  LET e == evaluation[g] IN
                      /\ e.posture # None
                      /\ posture[e.posture].path = PathOf[e.contract]
                      /\ \A k \in Kinds :
                           LET q == posture[e.posture].coverage[k] IN
                           /\ q # None
                           /\ probe[q].sound
                           /\ probe[q].path = PathOf[e.contract]
                           /\ probe[q].expires > posture[e.posture].createdAt
    BY DEF PassRestsOnProbesOfItsPath
  <2>1. evaluation[g] # None /\ evaluation[g] \in Evaluating /\ evaluation[g].next > 3
    BY Lists DEF BindingsInvariant, DecidedWhenRead, TypeOK, Nullable, Requests, Evaluating
  <2>2. RestsOnPosture(evaluation[g])
    BY <2>1 DEF BindingsInvariant, PostureIsKept
  <2>3. evaluation[g].posture \in Postures
    BY <2>1, <2>2 DEF RestsOnPosture, Evaluating, Nullable
  <2>4. ProvenCoverage(posture[evaluation[g].posture])
    BY <2>2, <2>3 DEF RestsOnPosture, BindingsInvariant, CoverageIsProven
  <2> QED
    BY <2>2, <2>4 DEF RestsOnPosture, Covered, ProvenCoverage
<1> QED
  BY BindingsKept, <1>1, PTL

\* Resolution evidence names the credential ref its gate passed with
\* (assertResolutionEvidenceContext), though the record is committed later.
THEOREM EvidenceOfItsGate == Spec => []EvidenceFollowsItsGate
<1>1. BindingsInvariant => EvidenceFollowsItsGate
  BY DEF BindingsInvariant, WitnessFollowsItsGate, EvidenceFollowsItsGate
<1> QED
  BY BindingsKept, <1>1, PTL
=============================================================================
