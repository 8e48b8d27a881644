---------------------------- MODULE EvidenceProofs ----------------------------
(***************************************************************************)
(* What a readback and a certificate may say, for every set of contracts    *)
(* and requests, either store, however the reads interleave with the kernel.*)
(***************************************************************************)
EXTENDS AuthorityCertificate, AuthorityKernelProofs, WellFoundedInduction

(***************************************************************************)
(* Reading changes nothing                                                  *)
(***************************************************************************)
\* Under observation the kernel does what it does alone.
LEMMA ObservedKernelSteps == KernelStep => Next
<1>1. ASSUME NEW r \in Requests, AskPolicy(r) PROVE StartPolicy(r)
  BY <1>1 DEF AskPolicy, StartPolicy
<1>2. ASSUME NEW r \in Requests, AskGateway(r) PROVE StartGateway(r)
  BY <1>2 DEF AskGateway, StartGateway
<1>3. KernelGoesOn => Next
  BY DEF KernelGoesOn, Next
<1> QED
  BY <1>1, <1>2, <1>3 DEF KernelStep, Next

\* A read, or the minting of a certificate, writes nothing the kernel reads.
LEMMA ReadersOnlyRead ==
  BeginReadback \/ BeginCertificate \/ ReaderStep => UNCHANGED <<vars, historyVars>>
BY DEF BeginReadback, BeginCertificate, BeginRead, ReaderStep, ListRecords, PolicyDecisionMissing,
       ReadLedger, ReadProofGaps, ReadIsolation

LEMMA EvidenceStepIsKernelStep == [EvidenceNext]_evidenceVars => [Next]_vars
BY ObservedKernelSteps, ReadersOnlyRead DEF EvidenceNext, ReadbackNext, evidenceVars

\* Reading evidence and minting certificates leaves the kernel what it is: every
\* behaviour under observation is one of the kernel, so all that is proved of the
\* kernel holds while it is read.
THEOREM ReadersAreSpectators == EvidenceSpec => Spec
BY EvidenceStepIsKernelStep, PTL DEF EvidenceSpec, EvidenceInit, Spec

LEMMA AuthorityWhileRead == EvidenceSpec => []AuthorityInvariant
BY ReadersAreSpectators, AuthorityHolds, PTL

(***************************************************************************)
(* The records of a request                                                 *)
(***************************************************************************)
RequestMoves(r) ==
  StartPolicy(r) \/ StartGateway(r) \/ StartReconcile(r) \/ RequestStep(r) \/ Abandon(r)

\* A request that has answered makes no step, and a step of one leaves the
\* records of the others alone.
LEMMA OthersKeepTheirRecords ==
  ASSUME TypeOK, NEW r \in Requests, RequestMoves(r)
  PROVE  /\ pc[r] # "done"
         /\ pc'[r] # "idle"
         /\ \A q \in Requests \ {r} :
              /\ pc'[q] = pc[q] /\ plan'[q] = plan[q] /\ receipt'[q] = receipt[q]
              /\ decision'[q] = decision[q] /\ greenlight'[q] = greenlight[q]
              /\ mutation'[q] = mutation[q] /\ reconciliation'[q] = reconciliation[q]
<1> USE DEF TypeOK, policyVars, gateVars, lifecycleVars, Proceed, Answer, Stages
<1>1. CASE StartPolicy(r) \/ StartGateway(r) \/ StartReconcile(r) \/ Abandon(r)
  BY <1>1 DEF StartPolicy, EvaluatePolicy, StartGateway, GatewayCheck, StartReconcile,
              ReconcileSurfaceOperation, Abandon
<1>2. CASE PolicyStep(r)
  BY <1>2 DEF PolicyStep, DerivePolicyConstraints, CommitPolicyDecision, CommitGreenlight,
              RecordGreenlight, GreenlightIssuanceConflict, IdempotencyLedgerConflict
<1>3. CASE GatewayStep(r)
  BY <1>3 DEF GatewayStep, DeriveGatewayConstraints, CommitGatewayRefusal, CommitGatewayPass,
              CommitGatewayPassAmbiguously, AdmitMutation, GatewayAlreadyConsumed,
              GatewayOperationInProgress, CommitReplayRefusal
<1>4. CASE LifecycleStep(r)
  BY <1>4 DEF LifecycleStep, ReadCurrentIdempotencyLedger, CommitSurfaceOperationReconciliation
<1> QED
  BY <1>1, <1>2, <1>3, <1>4 DEF RequestMoves, RequestStep
\* A policy request records what it was asked about.
LEMMA PolicyRecords ==
  ASSUME AuthorityInvariant, asked \in [Requests -> Nullable(Question)], NEW r \in Requests,
         RecordsAnswerTheQuestion(r), PolicyStep(r), UNCHANGED asked
  PROVE  RecordsAnswerTheQuestion(r)'
<1> DEFINE Same == UNCHANGED <<receipt, mutation, reconciliation, asked>>
<1>0. TypeOK /\ plan[r] \in Plan /\ PlansAreGrounded
  BY DEF AuthorityInvariant, TypeOK
<1>1. Same
  BY DEF PolicyStep, DerivePolicyConstraints, CommitPolicyDecision, CommitGreenlight,
         RecordGreenlight, GreenlightIssuanceConflict, IdempotencyLedgerConflict, gateVars,
         lifecycleVars
<1>2. CASE DerivePolicyConstraints(r) \/ IdempotencyLedgerConflict(r)
  <2>1. /\ pc[r] \in {"policyRead", "policyCommit"}
        /\ pc'[r] = "policyCommit"
        /\ plan'[r].contract = plan[r].contract
        /\ UNCHANGED <<decision, greenlight>>
    BY <1>0, <1>2 DEF DerivePolicyConstraints, IdempotencyLedgerConflict, Proceed, TypeOK, Plan,
                      policyVars
  <2> QED
    BY <1>1, <2>1 DEF RecordsAnswerTheQuestion
<1>3. CASE CommitPolicyDecision(r) \/ CommitGreenlight(r) \/ GreenlightIssuanceConflict(r)
  <2>1. /\ pc[r] = "policyCommit"
        /\ pc'[r] = "done"
        /\ greenlight'[r] # None => decision'[r] = "greenlight"
    <3>1. pc[r] = "policyCommit" /\ pc'[r] = "done"
      BY <1>0, <1>3 DEF CommitPolicyDecision, CommitGreenlight, RecordGreenlight,
                        GreenlightIssuanceConflict, Answer, TypeOK
    <3>2. greenlight[r] = None
      BY <3>1 DEF AuthorityInvariant, NothingBeforeCommit
    <3> QED
      BY <1>0, <1>3, <3>1, <3>2 DEF CommitPolicyDecision, CommitGreenlight, RecordGreenlight,
                                    GreenlightIssuanceConflict, TypeOK, policyVars
  <2> QED
    BY <1>1, <2>1 DEF RecordsAnswerTheQuestion
<1> QED
  BY <1>2, <1>3 DEF PolicyStep

\* A gateway request records, by its commit, the contract and the greenlight it
\* was asked about, and after that only how its replay was refused.
LEMMA GatewayRecords ==
  ASSUME AuthorityInvariant, asked \in [Requests -> Nullable(Question)], NEW r \in Requests,
         RecordsAnswerTheQuestion(r), GatewayStep(r), UNCHANGED asked
  PROVE  RecordsAnswerTheQuestion(r)'
<1>0. TypeOK /\ plan[r] \in Plan
  BY DEF AuthorityInvariant, TypeOK
<1>1. UNCHANGED <<decision, greenlight, reconciliation>>
  BY DEF GatewayStep, DeriveGatewayConstraints, CommitGatewayRefusal, CommitGatewayPass,
         CommitGatewayPassAmbiguously, AdmitMutation, GatewayAlreadyConsumed,
         GatewayOperationInProgress, CommitReplayRefusal, policyVars, lifecycleVars
<1>2. CASE DeriveGatewayConstraints(r) \/ GatewayAlreadyConsumed(r) \/ GatewayOperationInProgress(r)
  <2>1. /\ pc[r] \in {"gateRead", "gateCommit"}
        /\ pc'[r] \in {"gateCommit", "gateReplay"}
        /\ plan'[r].contract = plan[r].contract
        /\ plan'[r].greenlight = plan[r].greenlight
        /\ pc'[r] = "gateReplay" => plan'[r].reason \in {"replayed", "operation_in_progress"}
        /\ UNCHANGED <<receipt, mutation>>
    <3>1. CASE DeriveGatewayConstraints(r)
      BY <1>0, <3>1 DEF DeriveGatewayConstraints, Proceed, TypeOK, Plan, gateVars
    <3>2. CASE GatewayAlreadyConsumed(r)
      BY <1>0, <3>2 DEF GatewayAlreadyConsumed, Proceed, TypeOK, Plan, gateVars
    <3>3. CASE GatewayOperationInProgress(r)
      BY <1>0, <3>3 DEF GatewayOperationInProgress, Proceed, TypeOK, Plan, gateVars
    <3> QED
      BY <1>2, <3>1, <3>2, <3>3
  <2>2. /\ decision[r] = None /\ greenlight[r] = None /\ mutation[r] = None
        /\ reconciliation[r] = None /\ receipt[r] = {}
    <3>1. /\ receipt[r] \cap {"passed", "refused"} = {}
          /\ receipt[r] \cap {"replayed", "operation_in_progress"} = {}
          /\ decision[r] = None /\ mutation[r] = None /\ reconciliation[r] = None
      BY <2>1 DEF RecordsAnswerTheQuestion
    <3>2. receipt[r] = {}
      BY <1>0, <3>1 DEF TypeOK, ReceiptKinds
    <3> QED
      BY <3>1, <3>2, NoneIsNull DEF RecordsAnswerTheQuestion, PolicyDecisions
  <2> QED
    BY <1>1, <2>1, <2>2 DEF RecordsAnswerTheQuestion
<1>3. CASE CommitGatewayRefusal(r)
  <2>1. /\ pc[r] = "gateCommit" /\ pc'[r] = "done"
        /\ receipt'[r] = receipt[r] \cup {"refused"}
        /\ mutation' = mutation
    BY <1>0, <1>3 DEF CommitGatewayRefusal, Answer, TypeOK
  <2> QED
    BY <1>1, <2>1 DEF RecordsAnswerTheQuestion
<1>4. CASE CommitGatewayPass(r) \/ CommitGatewayPassAmbiguously(r)
  <2>1. /\ pc[r] = "gateCommit" /\ pc'[r] \in {"done", "gateReplay"}
        /\ receipt'[r] = receipt[r] \cup {"passed"}
        /\ mutation'[r] = [contract |-> plan[r].contract, greenlight |-> plan[r].greenlight]
        /\ pc'[r] = "gateReplay" => /\ plan'[r].contract = plan[r].contract
                                    /\ plan'[r].greenlight = plan[r].greenlight
                                    /\ plan'[r].reason = "replayed"
    BY <1>0, <1>4 DEF CommitGatewayPass, CommitGatewayPassAmbiguously, AdmitMutation, Answer,
                      Proceed, TypeOK, Plan
  <2>2. mutation'[r] # None
    BY <1>0, <1>4, <2>1, GatewayPassPreserves, NoneIsNull
       DEF AuthorityInvariant, PlansAreGrounded, Grounded, Mutation
  <2> QED
    BY <1>1, <2>1, <2>2 DEF RecordsAnswerTheQuestion
<1>5. CASE CommitReplayRefusal(r)
  <2>1. /\ pc[r] = "gateReplay" /\ pc'[r] = "done"
        /\ receipt'[r] = receipt[r] \cup {plan[r].reason}
        /\ mutation' = mutation
    BY <1>0, <1>5 DEF CommitReplayRefusal, Answer, TypeOK
  <2>2. plan[r].reason \in {"replayed", "operation_in_progress"}
    BY <2>1 DEF RecordsAnswerTheQuestion
  <2> QED
    BY <1>1, <2>1, <2>2 DEF RecordsAnswerTheQuestion
<1> QED
  BY <1>2, <1>3, <1>4, <1>5 DEF GatewayStep

\* A request that starts has recorded nothing.
LEMMA NothingRecordedBefore ==
  ASSUME AuthorityInvariant, NEW r \in Requests, RecordsAnswerTheQuestion(r), pc[r] = "idle"
  PROVE  /\ receipt[r] = {} /\ decision[r] = None /\ greenlight[r] = None
         /\ mutation[r] = None /\ reconciliation[r] = None
<1>1. /\ receipt[r] \cap {"passed", "refused"} = {}
      /\ receipt[r] \cap {"replayed", "operation_in_progress"} = {}
      /\ decision[r] = None /\ mutation[r] = None /\ reconciliation[r] = None
  BY DEF RecordsAnswerTheQuestion
<1>2. receipt[r] = {}
  BY <1>1 DEF AuthorityInvariant, TypeOK, ReceiptKinds
<1> QED
  BY <1>1, <1>2, NoneIsNull DEF RecordsAnswerTheQuestion, PolicyDecisions

\* A reconciliation is recorded by its commit; a request given up keeps its records.
LEMMA LifecycleRecords ==
  ASSUME AuthorityInvariant, NEW r \in Requests, RecordsAnswerTheQuestion(r), UNCHANGED asked,
         StartReconcile(r) \/ LifecycleStep(r) \/ Abandon(r)
  PROVE  RecordsAnswerTheQuestion(r)'
<1>0. TypeOK
  BY DEF AuthorityInvariant
<1>1. UNCHANGED <<receipt, decision, greenlight, mutation>>
  BY DEF StartReconcile, ReconcileSurfaceOperation, LifecycleStep, ReadCurrentIdempotencyLedger,
         CommitSurfaceOperationReconciliation, Abandon, policyVars, gateVars
<1>2. CASE StartReconcile(r)
  <2>1. pc[r] = "idle" /\ pc'[r] = "reconcileRead" /\ reconciliation' = reconciliation
    BY <1>0, <1>2 DEF StartReconcile, ReconcileSurfaceOperation, Proceed, TypeOK, lifecycleVars
  <2> QED
    BY <1>1, <2>1, NothingRecordedBefore DEF RecordsAnswerTheQuestion
<1>3. CASE ReadCurrentIdempotencyLedger(r)
  <2>1. pc[r] = "reconcileRead" /\ pc'[r] = "reconcileCommit" /\ reconciliation' = reconciliation
    BY <1>0, <1>3 DEF ReadCurrentIdempotencyLedger, Proceed, TypeOK, lifecycleVars
  <2> QED
    BY <1>1, <2>1 DEF RecordsAnswerTheQuestion
<1>4. CASE CommitSurfaceOperationReconciliation(r) \/ Abandon(r)
  <2>1. pc'[r] = "done"
    BY <1>0, <1>4 DEF CommitSurfaceOperationReconciliation, Abandon, Answer, TypeOK
  <2> QED
    BY <1>1, <2>1 DEF RecordsAnswerTheQuestion
<1> QED
  BY <1>2, <1>3, <1>4 DEF LifecycleStep

\* A request starts from the question it is asked.
LEMMA AskedRecords ==
  ASSUME AuthorityInvariant, asked \in [Requests -> Nullable(Question)], NEW r \in Requests,
         RecordsAnswerTheQuestion(r), AskPolicy(r) \/ AskGateway(r)
  PROVE  /\ RecordsAnswerTheQuestion(r)'
         /\ asked' \in [Requests -> Nullable(Question)]
         /\ \A q \in Requests \ {r} : asked'[q] = asked[q]
         /\ asked'[r].greenlight # None => greenlight[asked'[r].greenlight] # None
<1>0. TypeOK
  BY DEF AuthorityInvariant
<1>1. CASE AskPolicy(r)
  <2>1. PICK c \in Contracts, review \in Reviews :
          /\ EvaluatePolicy(r, c, review)
          /\ asked' = [asked EXCEPT ![r] = [contract |-> c, greenlight |-> None, spent |-> FALSE]]
    BY <1>1 DEF AskPolicy
  <2>2. [contract |-> c, greenlight |-> None, spent |-> FALSE] \in Question
    BY DEF Question, Nullable
  <2>3. /\ asked' \in [Requests -> Nullable(Question)]
        /\ asked'[r] = [contract |-> c, greenlight |-> None, spent |-> FALSE]
        /\ \A q \in Requests \ {r} : asked'[q] = asked[q]
    BY <2>1, <2>2 DEF Nullable
  <2>4. /\ pc[r] = "idle" /\ pc'[r] = "policyRead"
        /\ plan'[r].contract = c
        /\ UNCHANGED <<receipt, decision, greenlight, mutation, reconciliation>>
    BY <1>0, <2>1 DEF EvaluatePolicy, Proceed, TypeOK, NoPlan, policyVars, gateVars, lifecycleVars
  <2> QED
    BY <2>2, <2>3, <2>4, NothingRecordedBefore DEF RecordsAnswerTheQuestion
<1>2. CASE AskGateway(r)
  <2>1. PICK c \in Contracts, g \in Requests, exact \in Observations :
          /\ GatewayCheck(r, c, g, exact)
          /\ asked' = [asked EXCEPT ![r] =
                         [contract |-> c, greenlight |-> g,
                          spent |-> /\ greenlight[g] = c
                                    /\ exact
                                    /\ c \notin expired
                                    /\ consumption[g] # None]]
    BY <1>2 DEF AskGateway
  <2> DEFINE spent == greenlight[g] = c /\ exact /\ c \notin expired /\ consumption[g] # None
             q1 == [contract |-> c, greenlight |-> g, spent |-> spent]
  <2>2. spent \in BOOLEAN
    BY RequestKinds
  <2>a. asked' = [asked EXCEPT ![r] = q1]
    BY <2>1
  <2> HIDE DEF spent
  <2>3. q1 \in Question /\ q1.contract = c /\ q1.greenlight = g
    BY <2>2 DEF Question, Nullable
  <2> HIDE DEF q1
  <2>4. /\ asked' \in [Requests -> Nullable(Question)]
        /\ asked'[r] = q1
        /\ \A q \in Requests \ {r} : asked'[q] = asked[q]
    BY <2>a, <2>3 DEF Nullable
  <2>5. /\ pc[r] = "idle" /\ pc'[r] = "gateRead"
        /\ plan'[r].contract = c /\ plan'[r].greenlight = g
        /\ greenlight[g] # None
        /\ UNCHANGED <<receipt, decision, greenlight, mutation, reconciliation>>
    BY <1>0, <2>1 DEF GatewayCheck, Proceed, TypeOK, NoPlan, policyVars, gateVars, lifecycleVars
  <2> QED
    BY <2>3, <2>4, <2>5, NothingRecordedBefore DEF RecordsAnswerTheQuestion
<1> QED
  BY <1>1, <1>2

\* What is recorded of a request is never unsaid.
RecordsKept(r) ==
  /\ pc[r] # "idle" => asked'[r] = asked[r]
  /\ decision[r] # None => decision'[r] = decision[r]
  /\ greenlight[r] # None => greenlight'[r] = greenlight[r]
  /\ mutation[r] # None => mutation'[r] = mutation[r]
  /\ reconciliation[r] # None => reconciliation'[r] = reconciliation[r]
  /\ receipt[r] \subseteq receipt'[r]
  /\ receipt[r] \cap {"passed", "refused"} # {} =>
       receipt'[r] \cap {"passed", "refused"} = receipt[r] \cap {"passed", "refused"}
  /\ receipt[r] \cap {"replayed", "operation_in_progress"} # {} => receipt'[r] = receipt[r]

LEMMA MoverKeepsRecords ==
  ASSUME AuthorityInvariant, NEW r \in Requests, RecordsAnswerTheQuestion(r), RequestMoves(r),
         pc[r] # "idle" => asked'[r] = asked[r]
  PROVE  RecordsKept(r)
<1>0. TypeOK /\ pc[r] # "done"
  BY OthersKeepTheirRecords DEF AuthorityInvariant
<1>1. /\ decision[r] = None /\ reconciliation[r] = None
      /\ receipt[r] \cap {"replayed", "operation_in_progress"} = {}
  BY <1>0 DEF RecordsAnswerTheQuestion
<1>2. greenlight[r] = None
  BY <1>1, NoneIsNull DEF RecordsAnswerTheQuestion, PolicyDecisions
<1>3. CASE pc[r] = "gateReplay"
  <2>1. CommitReplayRefusal(r) \/ Abandon(r)
    BY <1>3 DEF RequestMoves, StartPolicy, EvaluatePolicy, StartGateway, GatewayCheck,
                StartReconcile, ReconcileSurfaceOperation, RequestStep, PolicyStep,
                DerivePolicyConstraints, CommitPolicyDecision, CommitGreenlight, RecordGreenlight,
                GreenlightIssuanceConflict, IdempotencyLedgerConflict, GatewayStep,
                DeriveGatewayConstraints, CommitGatewayRefusal, CommitGatewayPass,
                CommitGatewayPassAmbiguously, GatewayAlreadyConsumed, GatewayOperationInProgress,
                LifecycleStep, ReadCurrentIdempotencyLedger, CommitSurfaceOperationReconciliation,
                Proceed, Answer
  <2>2. plan[r].reason \in {"replayed", "operation_in_progress"}
    BY <1>3 DEF RecordsAnswerTheQuestion
  <2>3. mutation' = mutation /\ (receipt' = receipt \/ receipt'[r] = receipt[r] \cup {plan[r].reason})
    BY <1>0, <2>1 DEF CommitReplayRefusal, Abandon, gateVars, TypeOK
  <2> QED
    BY <1>1, <1>2, <2>2, <2>3 DEF RecordsKept
<1>4. CASE pc[r] # "gateReplay"
  <2>1. mutation[r] = None /\ receipt[r] = {}
    <3>1. receipt[r] \cap {"passed", "refused"} = {}
      BY <1>0, <1>4 DEF RecordsAnswerTheQuestion
    <3>2. receipt[r] = {}
      BY <1>0, <1>1, <3>1 DEF TypeOK, ReceiptKinds
    <3> QED
      BY <3>2 DEF RecordsAnswerTheQuestion
  <2> QED
    BY <1>1, <1>2, <2>1 DEF RecordsKept
<1> QED
  BY <1>3, <1>4

\* A step of the kernel under observation is one of a request or of the environment.
LEMMA KernelStepCases ==
  ASSUME KernelStep
  PROVE  \/ \E r \in Requests : AskPolicy(r) /\ StartPolicy(r) /\ RequestMoves(r)
         \/ \E r \in Requests : AskGateway(r) /\ StartGateway(r) /\ RequestMoves(r)
         \/ /\ KernelGoesOn
            /\ \E r \in Requests : RequestMoves(r) /\ (StartReconcile(r) \/ RequestStep(r) \/ Abandon(r))
         \/ KernelGoesOn /\ Environment
<1>1. ASSUME NEW r \in Requests, AskPolicy(r) PROVE StartPolicy(r)
  BY <1>1 DEF AskPolicy, StartPolicy
<1>2. ASSUME NEW r \in Requests, AskGateway(r) PROVE StartGateway(r)
  BY <1>2 DEF AskGateway, StartGateway
<1> QED
  BY <1>1, <1>2 DEF KernelStep, KernelGoesOn, RequestMoves

LEMMA EnvironmentKeepsRecords ==
  Environment => UNCHANGED <<pc, plan, receipt, decision, greenlight, mutation, reconciliation>>
BY DEF Environment, CreateIsolationState, CreateBreakerDecision, SetIsolation, Expire,
       ChangeBinding, requestVars, policyVars, gateVars, lifecycleVars

LEMMA KernelKeepsRecords ==
  ASSUME AuthorityInvariant, HistoryInvariant, KernelStep
  PROVE  \A r \in Requests : RecordsKept(r)
<1>0. TypeOK /\ asked \in [Requests -> Nullable(Question)]
      /\ \A r \in Requests : RecordsAnswerTheQuestion(r)
  BY DEF AuthorityInvariant, HistoryInvariant, HistoryTypeOK
<1>1. ASSUME NEW r \in Requests, RequestMoves(r),
             \A q \in Requests : q # r \/ pc[q] # "idle" => asked'[q] = asked[q]
      PROVE  \A q \in Requests : RecordsKept(q)
  <2>1. RecordsKept(r)
    BY <1>0, <1>1, MoverKeepsRecords
  <2>2. ASSUME NEW q \in Requests \ {r} PROVE RecordsKept(q)
    BY <1>0, <1>1, OthersKeepTheirRecords DEF RecordsKept
  <2> QED
    BY <2>1, <2>2
<1>2. ASSUME NEW r \in Requests, AskPolicy(r) \/ AskGateway(r), RequestMoves(r)
      PROVE  \A q \in Requests : RecordsKept(q)
  <2>1. pc[r] = "idle"
    BY <1>2 DEF AskPolicy, AskGateway, EvaluatePolicy, GatewayCheck, Proceed
  <2>2. \A q \in Requests \ {r} : asked'[q] = asked[q]
    BY <1>0, <1>2, AskedRecords
  <2> QED
    BY <1>1, <1>2, <2>1, <2>2
<1>3. CASE KernelGoesOn /\ \E r \in Requests : RequestMoves(r)
  BY <1>1, <1>3 DEF KernelGoesOn
<1>4. CASE KernelGoesOn /\ Environment
  BY <1>4, EnvironmentKeepsRecords DEF KernelGoesOn, RecordsKept
<1> QED
  BY <1>2, <1>3, <1>4, KernelStepCases
(***************************************************************************)
(* The history of the records                                               *)
(***************************************************************************)
\* Gate attempts are dated once, in the order of their clocks.
LEMMA DatesStand ==
  ASSUME HistoryTypeOK,
         checked' = checked \/ \E x \in GateAttempts : checked' = Append(checked, x)
  PROVE  /\ checked' \in Seq(GateAttempts)
         /\ \A i \in DOMAIN checked : i \in DOMAIN checked' /\ checked'[i] = checked[i]
<1>1. checked \in Seq(GateAttempts)
  BY DEF HistoryTypeOK
<1> QED
  BY <1>1

LEMMA NewDate ==
  ASSUME HistoryTypeOK, NEW x \in GateAttempts, checked' = Append(checked, x)
  PROVE  \E i \in DOMAIN checked' : checked'[i] = x
<1>1. checked \in Seq(GateAttempts)
  BY DEF HistoryTypeOK
<1>2. Len(checked) + 1 \in DOMAIN checked' /\ checked'[Len(checked) + 1] = x
  BY <1>1
<1> QED
  BY <1>2

LEMMA HistoryTypes ==
  ASSUME AuthorityInvariant, HistoryInvariant, KernelStep
  PROVE  /\ HistoryTypeOK'
         /\ \A i \in DOMAIN checked : i \in DOMAIN checked' /\ checked'[i] = checked[i]
<1>0. HistoryTypeOK /\ \A r \in Requests : RecordsAnswerTheQuestion(r)
  BY DEF HistoryInvariant
<1>1. ASSUME NEW r \in Requests, AskPolicy(r) PROVE HistoryTypeOK' /\ checked' = checked
  <2>1. decided' \in Seq(Requests) /\ checked' = checked /\ recorded' = recorded
    BY <1>0, <1>1 DEF AskPolicy, HistoryTypeOK
  <2>2. asked' \in [Requests -> Nullable(Question)]
    BY <1>0, <1>1, AskedRecords DEF HistoryTypeOK
  <2> QED
    BY <1>0, <2>1, <2>2 DEF HistoryTypeOK
<1>2. ASSUME NEW r \in Requests, AskGateway(r)
      PROVE  HistoryTypeOK' /\ \E x \in GateAttempts : checked' = Append(checked, x)
  <2>1. [request |-> r, replay |-> FALSE] \in GateAttempts
    BY DEF GateAttempts
  <2>2. /\ checked' = Append(checked, [request |-> r, replay |-> FALSE])
        /\ decided' = decided /\ recorded' = recorded
    BY <1>2 DEF AskGateway
  <2>3. asked' \in [Requests -> Nullable(Question)]
    BY <1>0, <1>2, AskedRecords DEF HistoryTypeOK
  <2>4. checked' \in Seq(GateAttempts)
    BY <1>0, <2>1, <2>2, DatesStand
  <2> QED
    BY <1>0, <2>1, <2>2, <2>3, <2>4 DEF HistoryTypeOK
<1>3. ASSUME KernelGoesOn
      PROVE  /\ HistoryTypeOK'
             /\ checked' = checked \/ \E x \in GateAttempts : checked' = Append(checked, x)
  <2> DEFINE late == {r \in Requests : pc[r] = "gateCommit" /\ pc'[r] = "gateReplay"}
             x == [request |-> CHOOSE r \in late : TRUE, replay |-> TRUE]
  <2>1. /\ checked' = IF late = {} THEN checked ELSE Append(checked, x)
        /\ recorded' = recorded \cup {s \in Scopes : isolation'[s] # isolation[s]}
        /\ asked' = asked /\ decided' = decided
    BY <1>3 DEF KernelGoesOn
  <2>2. late # {} => x \in GateAttempts
    BY DEF GateAttempts
  <2> HIDE DEF x, late
  <2>3. checked' = checked \/ \E y \in GateAttempts : checked' = Append(checked, y)
    BY <2>1, <2>2
  <2>4. checked' \in Seq(GateAttempts)
    BY <1>0, <2>3, DatesStand
  <2> QED
    BY <1>0, <2>1, <2>3, <2>4 DEF HistoryTypeOK
<1> QED
  BY <1>0, <1>1, <1>2, <1>3, DatesStand DEF KernelStep

\* A request under way records only what it has named, and that exists.
LEMMA MoverKeepsReferences ==
  ASSUME AuthorityInvariant, NEW r \in Requests, ReferencesHold(r),
         StartReconcile(r) \/ RequestStep(r) \/ Abandon(r)
  PROVE  /\ pc'[r] \in {"reconcileRead", "reconcileCommit"} =>
              plan'[r].mutation \in Requests /\ mutation[plan'[r].mutation] # None
         /\ reconciliation[r] # reconciliation'[r] =>
              reconciliation'[r].mutation \in Requests /\ mutation[reconciliation'[r].mutation] # None
         /\ pc'[r] \in {"gateRead", "gateCommit"} \/ mutation'[r] # None =>
              pc[r] \in {"gateRead", "gateCommit"} \/ mutation[r] # None
<1>0. TypeOK /\ PlansAreGrounded /\ plan[r] \in Plan
  BY DEF AuthorityInvariant, TypeOK
<1> USE <1>0 DEF Proceed, Answer, TypeOK
<1>1. CASE StartReconcile(r)
  <2>1. PICK m \in Requests, status \in Statuses :
          \E gaps \in SUBSET GapsOf(m), orphan \in OrphanRequests(status) :
            ReconcileSurfaceOperation(r, m, status, orphan, gaps)
    BY <1>1 DEF StartReconcile
  <2>2. /\ mutation[m] # None
        /\ pc'[r] = "reconcileRead"
        /\ plan'[r].mutation = m
        /\ UNCHANGED <<mutation, reconciliation>>
    BY <2>1 DEF ReconcileSurfaceOperation, NoPlan, gateVars, lifecycleVars
  <2> QED
    BY <1>1, <2>2 DEF StartReconcile, ReconcileSurfaceOperation
<1>2. CASE PolicyStep(r)
  BY <1>2 DEF PolicyStep, DerivePolicyConstraints, CommitPolicyDecision, CommitGreenlight,
              RecordGreenlight, GreenlightIssuanceConflict, IdempotencyLedgerConflict, gateVars,
              lifecycleVars
<1>3. CASE GatewayStep(r)
  BY <1>3 DEF GatewayStep, DeriveGatewayConstraints, CommitGatewayRefusal, CommitGatewayPass,
              CommitGatewayPassAmbiguously, AdmitMutation, GatewayAlreadyConsumed,
              GatewayOperationInProgress, CommitReplayRefusal, gateVars, lifecycleVars
<1>4. CASE ReadCurrentIdempotencyLedger(r)
  <2>1. /\ pc[r] = "reconcileRead" /\ pc'[r] = "reconcileCommit"
        /\ plan'[r].mutation = plan[r].mutation
        /\ UNCHANGED <<mutation, reconciliation>>
    BY <1>4 DEF ReadCurrentIdempotencyLedger, gateVars, lifecycleVars, Plan
  <2> QED
    BY <2>1 DEF ReferencesHold, PlansAreGrounded, Grounded
<1>5. CASE CommitSurfaceOperationReconciliation(r)
  <2>1. /\ pc[r] = "reconcileCommit" /\ pc'[r] = "done"
        /\ reconciliation'[r].mutation = plan[r].mutation
        /\ mutation' = mutation
    BY <1>5 DEF CommitSurfaceOperationReconciliation, gateVars
  <2> QED
    BY <2>1 DEF ReferencesHold, PlansAreGrounded, Grounded
<1>6. CASE Abandon(r)
  BY <1>6 DEF Abandon, gateVars, lifecycleVars
<1> QED
  BY <1>1, <1>2, <1>3, <1>4, <1>5, <1>6 DEF RequestStep, LifecycleStep
\* A step that keeps the records and moves one request keeps the references of all.
LEMMA ReferencesStand ==
  ASSUME AuthorityInvariant, HistoryInvariant,
         \A r \in Requests : RecordsKept(r),
         \A i \in DOMAIN checked : i \in DOMAIN checked' /\ checked'[i] = checked[i],
         NEW q \in Requests, asked'[q] = asked[q],
         pc'[q] \in {"reconcileRead", "reconcileCommit"} =>
           plan'[q].mutation \in Requests /\ mutation[plan'[q].mutation] # None,
         reconciliation[q] # reconciliation'[q] =>
           reconciliation'[q].mutation \in Requests /\ mutation[reconciliation'[q].mutation] # None,
         pc'[q] \in {"gateRead", "gateCommit"} \/ mutation'[q] # None =>
           pc[q] \in {"gateRead", "gateCommit"} \/ mutation[q] # None
  PROVE  ReferencesHold(q)'
<1>0. TypeOK /\ asked \in [Requests -> Nullable(Question)] /\ ReferencesHold(q)
  BY DEF AuthorityInvariant, HistoryInvariant, HistoryTypeOK
<1>1. asked'[q] # None /\ asked'[q].greenlight # None => greenlight'[asked'[q].greenlight] # None
  <2>1. asked[q] # None => asked[q].greenlight \in Nullable(Requests)
    BY <1>0 DEF Nullable, Question
  <2> QED
    BY <1>0, <2>1 DEF ReferencesHold, RecordsKept, Nullable
<1>2. pc'[q] \in {"reconcileRead", "reconcileCommit"} => mutation'[plan'[q].mutation] # None
  BY DEF RecordsKept
<1>3. reconciliation'[q] # None => mutation'[reconciliation'[q].mutation] # None
  <2>1. reconciliation[q] # None => reconciliation[q].mutation \in Requests
    BY <1>0 DEF TypeOK, Nullable, Reconciliation
  <2> QED
    BY <1>0, <2>1 DEF ReferencesHold, RecordsKept
<1>4. pc'[q] \in {"gateRead", "gateCommit"} \/ mutation'[q] # None =>
        \E i \in DOMAIN checked' : checked'[i] = [request |-> q, replay |-> FALSE]
  BY <1>0 DEF ReferencesHold
<1> QED
  BY <1>1, <1>2, <1>3, <1>4 DEF ReferencesHold

LEMMA HistoryReferences ==
  ASSUME AuthorityInvariant, HistoryInvariant, KernelStep, NEW q \in Requests
  PROVE  ReferencesHold(q)'
<1>0. /\ TypeOK /\ ReferencesHold(q) /\ RecordsAnswerTheQuestion(q)
      /\ asked \in [Requests -> Nullable(Question)]
      /\ HistoryTypeOK
  BY DEF AuthorityInvariant, HistoryInvariant, HistoryTypeOK
<1>1. /\ \A r \in Requests : RecordsKept(r)
      /\ \A i \in DOMAIN checked : i \in DOMAIN checked' /\ checked'[i] = checked[i]
  BY KernelKeepsRecords, HistoryTypes
<1>2. ASSUME pc'[q] = pc[q], plan'[q] = plan[q], mutation'[q] = mutation[q],
             reconciliation'[q] = reconciliation[q], asked'[q] = asked[q]
      PROVE  ReferencesHold(q)'
  <2>1. pc[q] \in {"reconcileRead", "reconcileCommit"} =>
          plan[q].mutation \in Requests /\ mutation[plan[q].mutation] # None
    BY <1>0 DEF ReferencesHold, AuthorityInvariant, PlansAreGrounded, Grounded
  <2> QED
    BY <1>1, <1>2, <2>1, ReferencesStand
<1>3. ASSUME NEW r \in Requests, RequestMoves(r), q # r, asked'[q] = asked[q]
      PROVE  ReferencesHold(q)'
  BY <1>0, <1>2, <1>3, OthersKeepTheirRecords
<1>4. CASE AskPolicy(q)
  <2>1. /\ pc'[q] = "policyRead"
        /\ UNCHANGED <<greenlight, mutation, reconciliation>>
    BY <1>0, <1>4 DEF AskPolicy, EvaluatePolicy, Proceed, TypeOK, policyVars, gateVars, lifecycleVars
  <2>2. asked'[q].greenlight # None => greenlight[asked'[q].greenlight] # None
    BY <1>0, <1>4, AskedRecords
  <2>3. mutation[q] = None /\ reconciliation[q] = None
    BY <1>0, <1>4, NothingRecordedBefore DEF AskPolicy, EvaluatePolicy, Proceed
  <2> QED
    BY <2>1, <2>2, <2>3 DEF ReferencesHold
<1>5. CASE AskGateway(q)
  <2>1. /\ pc'[q] = "gateRead"
        /\ UNCHANGED <<greenlight, mutation, reconciliation>>
    BY <1>0, <1>5 DEF AskGateway, GatewayCheck, Proceed, TypeOK, policyVars, gateVars, lifecycleVars
  <2>2. asked'[q].greenlight # None => greenlight[asked'[q].greenlight] # None
    BY <1>0, <1>5, AskedRecords
  <2>3. reconciliation[q] = None
    BY <1>0, <1>5, NothingRecordedBefore DEF AskGateway, GatewayCheck, Proceed
  <2>4. \E i \in DOMAIN checked' : checked'[i] = [request |-> q, replay |-> FALSE]
    BY <1>0, <1>5, NewDate DEF AskGateway, GateAttempts
  <2> QED
    BY <2>1, <2>2, <2>3, <2>4 DEF ReferencesHold
<1>6. CASE KernelGoesOn /\ (StartReconcile(q) \/ RequestStep(q) \/ Abandon(q))
  BY <1>0, <1>1, <1>6, MoverKeepsReferences, ReferencesStand DEF KernelGoesOn
<1>7. CASE KernelGoesOn /\ Environment
  BY <1>2, <1>7, EnvironmentKeepsRecords DEF KernelGoesOn
<1>8. ASSUME NEW r \in Requests, AskPolicy(r) \/ AskGateway(r), r # q PROVE asked'[q] = asked[q]
  BY <1>0, <1>8, AskedRecords DEF HistoryInvariant
<1> QED
  BY <1>3, <1>4, <1>5, <1>6, <1>7, <1>8, KernelStepCases DEF KernelGoesOn

LEMMA KernelKeepsHistory ==
  ASSUME AuthorityInvariant, HistoryInvariant, KernelStep
  PROVE  HistoryInvariant'
<1>0. /\ TypeOK /\ asked \in [Requests -> Nullable(Question)]
      /\ \A q \in Requests : RecordsAnswerTheQuestion(q)
  BY DEF AuthorityInvariant, HistoryInvariant, HistoryTypeOK
<1>1. ASSUME NEW q \in Requests PROVE RecordsAnswerTheQuestion(q)'
  <2>1. ASSUME NEW r \in Requests, RequestMoves(r), q # r, asked'[q] = asked[q]
        PROVE  RecordsAnswerTheQuestion(q)'
    BY <1>0, <2>1, OthersKeepTheirRecords DEF RecordsAnswerTheQuestion
  <2>2. CASE AskPolicy(q) \/ AskGateway(q)
    BY <1>0, <2>2, AskedRecords
  <2>3. CASE KernelGoesOn /\ (StartReconcile(q) \/ RequestStep(q) \/ Abandon(q))
    BY <1>0, <2>3, PolicyRecords, GatewayRecords, LifecycleRecords DEF KernelGoesOn, RequestStep
  <2>4. CASE KernelGoesOn /\ Environment
    BY <1>0, <2>4, EnvironmentKeepsRecords DEF KernelGoesOn, RecordsAnswerTheQuestion
  <2>5. ASSUME NEW r \in Requests, AskPolicy(r) \/ AskGateway(r), r # q PROVE asked'[q] = asked[q]
    BY <1>0, <2>5, AskedRecords
  <2> QED
    BY <2>1, <2>2, <2>3, <2>4, <2>5, KernelStepCases DEF KernelGoesOn
<1>2. ASSUME NEW s \in Scopes, isolation'[s] # "active" PROVE s \in recorded'
  <2>1. isolation[s] # "active" => s \in recorded
    BY DEF HistoryInvariant
  <2>2. CASE KernelGoesOn
    BY <1>2, <2>1, <2>2 DEF KernelGoesOn
  <2>3. CASE \E r \in Requests : AskPolicy(r) \/ AskGateway(r)
    BY <1>2, <2>1, <2>3 DEF AskPolicy, AskGateway, EvaluatePolicy, GatewayCheck, environmentVars
  <2> QED
    BY <2>2, <2>3 DEF KernelStep
<1> QED
  BY <1>1, <1>2, HistoryTypes, HistoryReferences DEF HistoryInvariant

\* A read leaves the history alone.
LEMMA ReadersKeepHistory ==
  ASSUME HistoryInvariant, UNCHANGED <<vars, historyVars>>
  PROVE  HistoryInvariant'
<1> USE DEF vars, historyVars, requestVars, environmentVars, policyVars, gateVars, lifecycleVars
<1>1. HistoryTypeOK'
  BY DEF HistoryInvariant, HistoryTypeOK
<1>2. ASSUME NEW q \in Requests PROVE RecordsAnswerTheQuestion(q)' /\ ReferencesHold(q)'
  BY DEF HistoryInvariant, RecordsAnswerTheQuestion, ReferencesHold
<1>3. \A s \in Scopes : isolation'[s] # "active" => s \in recorded'
  BY DEF HistoryInvariant
<1> QED
  BY <1>1, <1>2, <1>3 DEF HistoryInvariant

LEMMA HistoryHolds == EvidenceSpec => [](AuthorityInvariant /\ HistoryInvariant)
<1>1. EvidenceInit => HistoryInvariant
  <2> SUFFICES ASSUME EvidenceInit PROVE HistoryInvariant
    OBVIOUS
  <2>1. HistoryTypeOK
    BY DEF EvidenceInit, HistoryTypeOK, Nullable
  <2>2. ASSUME NEW q \in Requests PROVE RecordsAnswerTheQuestion(q) /\ ReferencesHold(q)
    BY DEF EvidenceInit, Init, RecordsAnswerTheQuestion, ReferencesHold
  <2>3. \A s \in Scopes : isolation[s] = "active"
    BY DEF EvidenceInit, Init
  <2> QED
    BY <2>1, <2>2, <2>3 DEF HistoryInvariant
<1>2. AuthorityInvariant /\ HistoryInvariant /\ [EvidenceNext]_evidenceVars => HistoryInvariant'
  BY KernelKeepsHistory, ReadersKeepHistory, ReadersOnlyRead
     DEF EvidenceNext, ReadbackNext, evidenceVars
<1> QED
  BY <1>1, <1>2, AuthorityWhileRead, PTL DEF EvidenceSpec
(***************************************************************************)
(* What is there stays there                                                *)
(***************************************************************************)
\* A gate attempt, once recorded, keeps its question, its receipt and its outcome.
LEMMA AttemptsStand ==
  ASSUME AuthorityInvariant, HistoryInvariant, \A r \in Requests : RecordsKept(r),
         NEW x \in GateAttempts, Recorded(x)
  PROVE  /\ Recorded(x)'
         /\ Passed(x)' <=> Passed(x)
         /\ asked'[x.request] = asked[x.request]
<1>1. x.request \in Requests /\ x.replay \in BOOLEAN
  BY DEF GateAttempts
<1>2. RecordsAnswerTheQuestion(x.request) /\ RecordsKept(x.request)
  BY <1>1 DEF HistoryInvariant
<1>3. pc[x.request] # "idle"
  BY <1>1, <1>2 DEF Recorded, RecordsAnswerTheQuestion
<1>4. CASE x.replay
  BY <1>1, <1>2, <1>3, <1>4 DEF Recorded, Passed, RecordsKept
<1>5. CASE ~x.replay
  <2>1. receipt[x.request] \cap {"passed", "refused"} # {}
    BY <1>5 DEF Recorded
  <2>2. receipt'[x.request] \cap {"passed", "refused"} = receipt[x.request] \cap {"passed", "refused"}
    BY <1>2, <2>1 DEF RecordsKept
  <2>3. "passed" \in receipt'[x.request] <=> "passed" \in receipt[x.request]
    BY <2>2
  <2>4. asked'[x.request] = asked[x.request]
    BY <1>2, <1>3 DEF RecordsKept
  <2> QED
    BY <1>5, <2>1, <2>2, <2>3, <2>4 DEF Recorded, Passed
<1> QED
  BY <1>1, <1>4, <1>5

LEMMA ListsGrow ==
  ASSUME AuthorityInvariant, HistoryInvariant, \A r \in Requests : RecordsKept(r), NEW c \in Contracts
  PROVE  /\ Attempts(c) \subseteq Attempts(c)'
         /\ Greenlights(c) \subseteq Greenlights(c)'
         /\ Mutations(c) \subseteq Mutations(c)'
         /\ \A q \in FinalityGaps(c) : q \in FinalityGaps(c)' /\ reconciliation'[q] = reconciliation[q]
<1>1. Attempts(c) \subseteq Attempts(c)'
  BY AttemptsStand DEF Attempts
<1>2. Greenlights(c) \subseteq Greenlights(c)'
  BY NoneIsNull DEF Greenlights, RecordsKept
<1>3. Mutations(c) \subseteq Mutations(c)'
  BY DEF Mutations, RecordsKept
<1>4. \A q \in FinalityGaps(c) : q \in FinalityGaps(c)' /\ reconciliation'[q] = reconciliation[q]
  BY <1>3 DEF FinalityGaps, RecordsKept
<1> QED
  BY <1>1, <1>2, <1>3, <1>4

\* The record a certificate is asked for stays what it is, and of its contract.
LEMMA TerminalsStand ==
  ASSUME AuthorityInvariant, HistoryInvariant, \A r \in Requests : RecordsKept(r), NEW t \in Terminals
  PROVE  t \in Terminals' /\ Context(t).contract' = Context(t).contract
<1>1. CASE t \in [object : {"receipt"}, of : {x \in GateAttempts : Recorded(x)}]
  <2>1. t.object = "receipt" /\ t.of \in GateAttempts /\ Recorded(t.of)
    BY <1>1
  <2>2. Recorded(t.of)' /\ asked'[t.of.request] = asked[t.of.request]
    BY <2>1, AttemptsStand
  <2>3. t \in [object : {"receipt"}, of : {x \in GateAttempts : Recorded(x)'}]
    BY <1>1, <2>1, <2>2
  <2> QED
    BY <2>1, <2>2, <2>3 DEF Terminals, Context, ReceiptContext
<1>2. CASE t \in [object : {"refusal"}, of : {x \in GateAttempts : Recorded(x) /\ ~Passed(x)}]
  <2>1. t.object = "refusal" /\ t.of \in GateAttempts /\ Recorded(t.of) /\ ~Passed(t.of)
    BY <1>2
  <2>2. Recorded(t.of)' /\ ~Passed(t.of)' /\ asked'[t.of.request] = asked[t.of.request]
    BY <2>1, AttemptsStand
  <2>3. t \in [object : {"refusal"}, of : {x \in GateAttempts : Recorded(x)' /\ ~Passed(x)'}]
    BY <1>2, <2>1, <2>2
  <2> QED
    BY <2>1, <2>2, <2>3 DEF Terminals, Context, GatewayRefusalContext, ReceiptContext
<1>3. CASE t \in [object : {"policy_refusal"},
                  of : {p \in Requests : decision[p] \in {"refuse", "halt", "quarantine"}}]
  <2>1. t.object = "policy_refusal" /\ t.of \in Requests
        /\ decision[t.of] \in {"refuse", "halt", "quarantine"}
    BY <1>3
  <2>2. decision[t.of] # None /\ pc[t.of] # "idle"
    BY <2>1, NoneIsNull DEF HistoryInvariant, RecordsAnswerTheQuestion, PolicyDecisions
  <2>3. decision'[t.of] = decision[t.of] /\ asked'[t.of] = asked[t.of]
    BY <2>1, <2>2 DEF RecordsKept
  <2>4. t \in [object : {"policy_refusal"},
               of : {p \in Requests : decision'[p] \in {"refuse", "halt", "quarantine"}}]
    BY <1>3, <2>1, <2>3
  <2> QED
    BY <2>1, <2>3, <2>4 DEF Terminals, Context, PolicyRefusalContext
<1>4. CASE t \in [object : {"proof_gap"},
                  of : {q \in Requests : reconciliation[q] # None /\ reconciliation[q].status = "unknown"}]
  <2> DEFINE m == reconciliation[t.of].mutation
  <2>1. t.object = "proof_gap" /\ t.of \in Requests /\ reconciliation[t.of] # None
        /\ reconciliation[t.of].status = "unknown"
    BY <1>4
  <2>2. m \in Requests /\ mutation[m] # None
    BY <2>1 DEF AuthorityInvariant, TypeOK, Nullable, Reconciliation, HistoryInvariant, ReferencesHold
  <2>3. pc[m] # "idle"
    BY <2>2 DEF AuthorityInvariant, NothingBeforeCommit
  <2>4. reconciliation'[t.of] = reconciliation[t.of] /\ asked'[m] = asked[m]
    BY <2>1, <2>2, <2>3 DEF RecordsKept
  <2>5. t \in [object : {"proof_gap"},
               of : {q \in Requests : reconciliation'[q] # None /\ reconciliation'[q].status = "unknown"}]
    BY <1>4, <2>1, <2>4
  <2> QED
    BY <2>1, <2>4, <2>5 DEF Terminals, Context, ProofGapContext, ReceiptContext
<1> QED
  BY <1>1, <1>2, <1>3, <1>4 DEF Terminals

(***************************************************************************)
(* The newest record                                                        *)
(***************************************************************************)
\* A set of positions that is not empty has a last one.
LEMMA LargestExists ==
  ASSUME NEW n \in Nat, NEW T, T \subseteq 1 .. n, T # {}
  PROVE  \E i \in T : \A j \in T : j <= i
<1> DEFINE Far == {d \in Nat : \E i \in T : d = n - i}
<1>1. Far \subseteq Nat /\ Far # {}
  <2>1. PICK i \in T : TRUE
    OBVIOUS
  <2>2. n - i \in Nat
    <3>1. i \in 1 .. n
      OBVIOUS
    <3> QED
      BY <3>1
  <2>3. n - i \in Far
    BY <2>2
  <2> QED
    BY <2>3
<1>2. PICK d \in Far : \A e \in Far : ~ (<<e, d>> \in OpToRel(<, Nat))
  BY <1>1, NatLessThanWellFounded, WFMin
<1>3. \A e \in Far : ~ (e < d)
  BY <1>1, <1>2 DEF OpToRel
<1>4. PICK i \in T : d = n - i
  OBVIOUS
<1>5. ASSUME NEW j \in T PROVE j <= i
  <2>1. i \in 1 .. n /\ j \in 1 .. n
    OBVIOUS
  <2>2. n - j \in Far
    BY <2>1
  <2>3. ~ (n - j < n - i)
    BY <2>2, <1>3, <1>4
  <2> QED
    BY <2>1, <2>3
<1> QED
  BY <1>5

\* The newest of a list is one of it, and there is one if anything is listed.
LEMMA NewestIsListed ==
  ASSUME NEW n \in Nat, NEW order, DOMAIN order = 1 .. n, NEW S
  PROVE  /\ Newest(S, order) \in S \cup {None}
         /\ (\E i \in DOMAIN order : order[i] \in S) => Newest(S, order) \in S
<1> DEFINE at == {i \in DOMAIN order : order[i] \in S}
<1>1. CASE at = {}
  BY <1>1 DEF Newest
<1>2. CASE at # {}
  <2>1. at \subseteq 1 .. n
    OBVIOUS
  <2>2. \E i \in at : \A j \in at : j <= i
    BY <1>2, <2>1, LargestExists
  <2>3. (CHOOSE i \in at : \A j \in at : j <= i) \in at
    BY <2>2
  <2> QED
    BY <1>2, <2>3 DEF Newest
<1> QED
  BY <1>1, <1>2
(***************************************************************************)
(* The reader                                                               *)
(***************************************************************************)
\* The records a list query may return are records of the contract.
LEMMA NewestOfKind ==
  ASSUME HistoryTypeOK, NEW c \in Contracts, NEW kind \in Kinds
  PROVE  /\ NewestOf(kind, c) \in Requests \cup GateAttempts \cup {None}
         /\ kind = "receipt" => NewestOf(kind, c) \in Attempts(c) \cup {None}
         /\ kind = "greenlight" => NewestOf(kind, c) \in Greenlights(c) \cup {None}
<1> DEFINE attempted == [i \in DOMAIN checked |-> MutationOf(checked[i])]
<1>1. /\ Len(decided) \in Nat /\ DOMAIN decided = 1 .. Len(decided)
      /\ Len(checked) \in Nat /\ DOMAIN checked = 1 .. Len(checked)
  BY DEF HistoryTypeOK
<1>2. DOMAIN attempted = 1 .. Len(checked)
  BY <1>1
<1> HIDE DEF attempted
<1>3. /\ Newest(Decisions(c), decided) \in Decisions(c) \cup {None}
      /\ Newest(Greenlights(c), decided) \in Greenlights(c) \cup {None}
      /\ Newest(Mutations(c), attempted) \in Mutations(c) \cup {None}
      /\ Newest(Attempts(c), checked) \in Attempts(c) \cup {None}
  BY <1>1, <1>2, NewestIsListed
<1>4. /\ Decisions(c) \subseteq Requests /\ Greenlights(c) \subseteq Requests
      /\ Mutations(c) \subseteq Requests /\ Attempts(c) \subseteq GateAttempts
  BY DEF Decisions, Greenlights, Mutations, Attempts
<1>5. NewestOf("policy_decision", c) = Newest(Decisions(c), decided)
  BY DEF NewestOf
<1>6. NewestOf("greenlight", c) = Newest(Greenlights(c), decided)
  BY DEF NewestOf
<1>7. NewestOf("mutation_attempt", c) = Newest(Mutations(c), attempted)
  BY DEF NewestOf, attempted
<1>8. kind \in {"gateway_check_attempt", "receipt"} => NewestOf(kind, c) = Newest(Attempts(c), checked)
  BY DEF NewestOf
<1> QED
  BY <1>3, <1>4, <1>5, <1>6, <1>7, <1>8 DEF Kinds

\* A contract with an admitted mutation has a newest receipt.
LEMMA AdmittedHasReceipt ==
  ASSUME HistoryInvariant, NEW c \in Contracts, Mutations(c) # {}
  PROVE  NewestOf("receipt", c) # None
<1>1. PICK m \in Requests : mutation[m] # None /\ mutation[m].contract = c
  BY DEF Mutations
<1> DEFINE x == [request |-> m, replay |-> FALSE]
<1>2. "passed" \in receipt[m] /\ asked[m].contract = c
  <2>1. RecordsAnswerTheQuestion(m)
    BY DEF HistoryInvariant
  <2> QED
    BY <1>1, <2>1 DEF RecordsAnswerTheQuestion
<1>3. x \in Attempts(c)
  BY <1>2 DEF Attempts, GateAttempts, Recorded
<1>4. \E i \in DOMAIN checked : checked[i] = x
  BY <1>1 DEF HistoryInvariant, ReferencesHold
<1>5. Len(checked) \in Nat /\ DOMAIN checked = 1 .. Len(checked)
  BY DEF HistoryInvariant, HistoryTypeOK
<1> HIDE DEF x
<1>6. Newest(Attempts(c), checked) \in Attempts(c)
  BY <1>3, <1>4, <1>5, NewestIsListed
<1>7. NewestOf("receipt", c) = Newest(Attempts(c), checked)
  BY DEF NewestOf
<1> QED
  BY <1>6, <1>7, NoneIsNoRecord DEF Attempts

\* While the kernel goes on, what the reader holds stays true.
LEMMA WatchKeepsReader ==
  ASSUME AuthorityInvariant, HistoryInvariant, ReaderInvariant, KernelStep
  PROVE  ReaderInvariant'
<1>1. \A r \in Requests : RecordsKept(r)
  BY KernelKeepsRecords
<1>2. CASE UNCHANGED reader /\ reader.contract = None
  <2>1. reader.contract \notin Contracts
    BY <1>2, NoneIsNull
  <2>2. reader = NoReader
    BY <2>1 DEF ReaderInvariant, ReaderHoldsRecords
  <2> QED
    BY <1>2, <2>2 DEF ReaderInvariant, ReaderHoldsRecords, ReaderSeesWhatStands, NoReader, Kinds
<1>3. ASSUME NEW c \in Contracts, reader.contract = c,
             reader' = [reader EXCEPT !.standing = @ \cap Facts(c)']
      PROVE  ReaderInvariant'
  <2>0. /\ reader \in Reader /\ reader.stage # "idle"
        /\ c # None
    <3>1. reader \in Reader /\ c # None
      BY NoneIsNull DEF ReaderInvariant, ReaderHoldsRecords
    <3>2. reader.stage # "idle"
      BY <1>3, <3>1 DEF ReaderInvariant, ReaderHoldsRecords, NoReader
    <3> QED
      BY <3>1, <3>2
  <2>1. /\ reader' \in Reader
        /\ reader'.stage = reader.stage /\ reader'.contract = c
        /\ reader'.terminal = reader.terminal /\ reader'.unlisted = reader.unlisted
        /\ reader'.found = reader.found /\ reader'.ledger = reader.ledger
        /\ reader'.gaps = reader.gaps /\ reader'.isolated = reader.isolated
        /\ reader'.began = reader.began
        /\ reader'.standing \subseteq Facts(c)' /\ reader'.standing \subseteq reader.standing
    BY <1>3, <2>0 DEF Reader
  <2>2. /\ Attempts(c) \subseteq Attempts(c)'
        /\ Greenlights(c) \subseteq Greenlights(c)'
        /\ Mutations(c) \subseteq Mutations(c)'
    BY <1>1, ListsGrow
  <2>3. ASSUME NEW t, reader.terminal = t, t # None
        PROVE  t \in Terminals' /\ (Context(t).contract)' = c
    BY <1>1, <1>3, <2>3, TerminalsStand DEF ReaderInvariant, ReaderHoldsRecords
  <2>4. ReaderHoldsRecords'
    <3>1. reader'.found["receipt"] # None => reader'.found["receipt"] \in Attempts(c)'
      BY <1>3, <2>1, <2>2 DEF ReaderInvariant, ReaderHoldsRecords
    <3>2. reader'.found["greenlight"] # None => reader'.found["greenlight"] \in Greenlights(c)'
      BY <1>3, <2>1, <2>2 DEF ReaderInvariant, ReaderHoldsRecords
    <3>3. ASSUME NEW t, reader.terminal = t, t # None
          PROVE  (reader.terminal \in Terminals)' /\ (Context(reader.terminal).contract = reader.contract)'
      <4>1. reader'.terminal = t /\ reader'.contract = c
        BY <2>1, <3>3
      <4>2. (Context(reader.terminal).contract)' = (Context(t).contract)'
        BY <4>1 DEF Context, ReceiptContext, GatewayRefusalContext, PolicyRefusalContext, ProofGapContext
      <4> QED
        BY <2>3, <3>3, <4>1, <4>2
    <3>6. /\ (reader.found["receipt"] # None => reader.found["receipt"] \in Attempts(reader.contract))'
          /\ (reader.found["greenlight"] # None => reader.found["greenlight"] \in Greenlights(reader.contract))'
      BY <2>1, <3>1, <3>2 DEF Attempts, Greenlights
    <3>7. (reader.terminal # None =>
             reader.terminal \in Terminals /\ Context(reader.terminal).contract = reader.contract)'
      BY <2>1, <3>3
    <3>8. (reader'.stage = "idle" => reader' = NoReader) /\ reader'.contract \in Contracts
      BY <2>0, <2>1
    <3> QED
      BY <2>1, <3>6, <3>7, <3>8 DEF ReaderHoldsRecords
  <2>5. ReaderSeesWhatStands'
    <3>1. "passed" \in reader'.began => Mutations(c)' # {}
      <4>1. "passed" \in reader.began => Mutations(c) # {}
        BY <1>3 DEF ReaderInvariant, ReaderSeesWhatStands
      <4> QED
        BY <2>1, <2>2, <4>1
    <3>2. reader'.standing \subseteq Facts(c)'
      BY <2>1
    <3> QED
      BY <1>3, <2>0, <2>1, <3>1, <3>2
         DEF ReaderInvariant, ReaderSeesWhatStands, Facts, Mutations
  <2> QED
    BY <2>4, <2>5 DEF ReaderInvariant
<1> QED
  BY <1>2, <1>3 DEF KernelStep, Watch

\* ReaderHoldsRecords after a step, said of the contract that is read.
LEMMA HoldsNext ==
  ASSUME NEW c \in Contracts, reader' \in Reader, reader'.contract = c, reader'.stage # "idle",
         reader'.found["receipt"] # None => reader'.found["receipt"] \in Attempts(c)',
         reader'.found["greenlight"] # None => reader'.found["greenlight"] \in Greenlights(c)',
         NEW t, reader'.terminal = t, t # None => t \in Terminals' /\ (Context(t).contract)' = c
  PROVE  ReaderHoldsRecords'
<1>1. (Context(reader.terminal).contract)' = (Context(t).contract)'
  BY DEF Context, ReceiptContext, GatewayRefusalContext, PolicyRefusalContext, ProofGapContext
<1>2. /\ (reader.found["receipt"] # None => reader.found["receipt"] \in Attempts(reader.contract))'
      /\ (reader.found["greenlight"] # None => reader.found["greenlight"] \in Greenlights(reader.contract))'
  BY DEF Attempts, Greenlights
<1>3. (reader.terminal # None =>
         reader.terminal \in Terminals /\ Context(reader.terminal).contract = reader.contract)'
  BY <1>1
<1> QED
  BY <1>2, <1>3 DEF ReaderHoldsRecords

\* ReaderSeesWhatStands after a step, said of the contract that is read.
LEMMA SeesNext ==
  ASSUME NEW c \in Contracts, reader'.contract = c, reader'.standing \subseteq Facts(c)',
         "passed" \in reader'.began => Mutations(c)' # {},
         "passed" \in reader'.began /\ "receipt" \notin reader'.unlisted => reader'.found["receipt"] # None,
         reader'.stage \in {"gaps", "isolation", "answered"} => reader'.unlisted = {},
         reader'.stage \in {"gaps", "isolation", "answered"} /\ "unknown" \in reader'.standing =>
           /\ reader'.ledger # None
           /\ reader'.ledger.contract = c
           /\ reader'.ledger.state = "terminal_unknown",
         reader'.stage = "answered" /\ "blocked" \in reader'.standing => reader'.isolated
  PROVE  ReaderSeesWhatStands'
<1>1. (reader.stage # "idle" => reader.standing \subseteq Facts(reader.contract))'
  BY DEF Facts, Mutations
<1>2. ("passed" \in reader.began => Mutations(reader.contract) # {})'
  BY DEF Mutations
<1> QED
  BY <1>1, <1>2 DEF ReaderSeesWhatStands

\* A step that reads leaves what there is to read alone.
LEMMA ReadingMovesNothing ==
  ASSUME UNCHANGED <<vars, historyVars>>
  PROVE  /\ \A c \in Contracts : /\ Attempts(c)' = Attempts(c)
                                 /\ Greenlights(c)' = Greenlights(c)
                                 /\ Mutations(c)' = Mutations(c)
                                 /\ Facts(c)' = Facts(c)
         /\ Terminals' = Terminals
         /\ \A t : Context(t)' = Context(t)
<1>1. UNCHANGED <<pc, plan, told, expired, bound, isolation, decision, greenlight, issuance, ledger,
                  consumption, mutation, receipt, claim, reconciliation, resolvedBy,
                  asked, decided, checked, recorded>>
  BY DEF vars, historyVars, requestVars, environmentVars, policyVars, gateVars, lifecycleVars
<1>2. ASSUME NEW c \in Contracts
      PROVE  /\ Attempts(c)' = Attempts(c)
             /\ Greenlights(c)' = Greenlights(c)
             /\ Mutations(c)' = Mutations(c)
             /\ Facts(c)' = Facts(c)
  BY <1>1 DEF Attempts, Recorded, Greenlights, Mutations, Facts, GateBlocked, StatesFor
<1>3. Terminals' = Terminals
  BY <1>1 DEF Terminals, Recorded, Passed
<1>4. ASSUME NEW t PROVE Context(t)' = Context(t)
  BY <1>1 DEF Context, ReceiptContext, GatewayRefusalContext, PolicyRefusalContext, ProofGapContext,
              Passed, Consumption, RefusedAsSpent
<1> QED
  BY <1>2, <1>3, <1>4

\* A read begins with what is there.
LEMMA BeginKeepsReader ==
  ASSUME NEW c \in Contracts, NEW t, BeginRead(c, t),
         t = None \/ (t \in Terminals /\ Context(t).contract = c)
  PROVE  ReaderInvariant'
<1>1. UNCHANGED <<vars, historyVars>>
  BY DEF BeginRead
<1>2. t = None \/ t \in TerminalRecords
  BY DEF Terminals, TerminalRecords
<1>3. Facts(c) \subseteq {"blocked", "unknown", "passed"}
  BY DEF Facts
<1>4. NoReader \in Reader /\ NoReader.unlisted = Kinds
  BY DEF NoReader, Reader, ReaderStages, Nullable
<1>5. /\ reader' \in Reader /\ reader'.stage = "listing" /\ reader'.contract = c
      /\ reader'.terminal = t /\ reader'.unlisted = Kinds
      /\ reader'.found["receipt"] = None /\ reader'.found["greenlight"] = None
      /\ reader'.began = Facts(c) /\ reader'.standing = Facts(c)
  BY <1>2, <1>3, <1>4 DEF BeginRead, NoReader, Reader, ReaderStages, Nullable, Kinds
<1>6. "passed" \in Facts(c) => Mutations(c) # {}
  BY DEF Facts
<1>7. ReaderHoldsRecords'
  BY <1>1, <1>5, ReadingMovesNothing, HoldsNext
<1>8. ReaderSeesWhatStands'
  BY <1>1, <1>5, <1>6, ReadingMovesNothing, SeesNext DEF Kinds
<1> QED
  BY <1>7, <1>8 DEF ReaderInvariant

\* A list query finds records of the contract, and the receipt of a mutation
\* admitted before the read began.
LEMMA ListKeepsReader ==
  ASSUME HistoryInvariant, ReaderInvariant, ListRecords
  PROVE  ReaderInvariant'
<1> SUFFICES ASSUME NEW c, c = reader.contract, NEW t, t = reader.terminal
             PROVE  ReaderInvariant'
  OBVIOUS
<1>1. UNCHANGED <<vars, historyVars>> /\ reader.stage = "listing"
  BY DEF ListRecords
<1>2. /\ reader \in Reader /\ c \in Contracts
      /\ reader.found["receipt"] # None => reader.found["receipt"] \in Attempts(c)
      /\ reader.found["greenlight"] # None => reader.found["greenlight"] \in Greenlights(c)
      /\ t # None => t \in Terminals /\ Context(t).contract = c
      /\ reader.standing \subseteq Facts(c)
      /\ "passed" \in reader.began => Mutations(c) # {}
      /\ "passed" \in reader.began /\ "receipt" \notin reader.unlisted => reader.found["receipt"] # None
  BY <1>1 DEF ReaderInvariant, ReaderHoldsRecords, ReaderSeesWhatStands
<1>3. PICK batch \in SUBSET Kinds :
        LET found == [kind \in Kinds |-> IF kind \in batch THEN NewestOf(kind, reader.contract) ELSE reader.found[kind]]
            moot == Overruled(found["receipt"])
        IN reader' = [reader EXCEPT !.unlisted = @ \ (batch \cup moot),
                        !.found = [kind \in Kinds |-> IF kind \in moot THEN None ELSE found[kind]]]
  <2>1. reader.unlisted \subseteq Kinds
    BY <1>2 DEF Reader
  <2>2. (IF Store = "memory" THEN {reader.unlisted} ELSE {{kind} : kind \in reader.unlisted})
          \subseteq SUBSET Kinds
    BY <2>1
  <2> QED
    BY <2>2, Zenon DEF ListRecords
<1> DEFINE found == [kind \in Kinds |-> IF kind \in batch THEN NewestOf(kind, reader.contract) ELSE reader.found[kind]]
           moot == Overruled(found["receipt"])
<1>4. \A kind \in Kinds : NewestOf(kind, c) \in Requests \cup GateAttempts \cup {None}
  BY <1>2, NewestOfKind DEF HistoryInvariant
<1>5. found \in [Kinds -> Requests \cup GateAttempts \cup {None}]
  BY <1>2, <1>4 DEF Reader
<1>6. "receipt" \notin moot /\ "receipt" \in Kinds /\ "greenlight" \in Kinds
  BY DEF Overruled, Kinds
<1>7. /\ found["receipt"] # None => found["receipt"] \in Attempts(c)
      /\ found["greenlight"] # None => found["greenlight"] \in Greenlights(c)
  <2>1. /\ NewestOf("receipt", c) \in Attempts(c) \cup {None}
        /\ NewestOf("greenlight", c) \in Greenlights(c) \cup {None}
    BY <1>2, <1>6, NewestOfKind DEF HistoryInvariant
  <2> QED
    BY <1>2, <1>6, <2>1
<1>8. "passed" \in reader.began /\ "receipt" \in batch => found["receipt"] # None
  BY <1>2, <1>6, AdmittedHasReceipt
<1> HIDE DEF found, moot
<1>9. /\ reader' \in Reader /\ reader'.stage = "listing" /\ reader'.contract = c
      /\ reader'.terminal = t /\ reader'.unlisted = reader.unlisted \ (batch \cup moot)
      /\ reader'.found = [kind \in Kinds |-> IF kind \in moot THEN None ELSE found[kind]]
      /\ reader'.began = reader.began /\ reader'.standing = reader.standing
  BY <1>1, <1>2, <1>3, <1>5 DEF Reader, found, moot
<1>10. /\ reader'.found["receipt"] = found["receipt"]
       /\ reader'.found["greenlight"] \in {None, found["greenlight"]}
  BY <1>6, <1>9
<1>11. "passed" \in reader.began /\ "receipt" \notin batch /\ "receipt" \notin reader.unlisted =>
         found["receipt"] # None
  BY <1>2, <1>6 DEF found
<1>12. ReaderHoldsRecords'
  <2>1. /\ Attempts(c)' = Attempts(c) /\ Greenlights(c)' = Greenlights(c)
        /\ Terminals' = Terminals /\ (t # None => (Context(t).contract)' = c)
    BY <1>1, <1>2, ReadingMovesNothing
  <2>2. reader'.found["receipt"] # None => reader'.found["receipt"] \in Attempts(c)'
    BY <2>1, <1>7, <1>10
  <2>3. reader'.found["greenlight"] # None => reader'.found["greenlight"] \in Greenlights(c)'
    BY <2>1, <1>7, <1>10
  <2>4. t # None => t \in Terminals' /\ (Context(t).contract)' = c
    BY <2>1, <1>2
  <2>5. reader'.stage # "idle"
    BY <1>9
  <2> QED
    BY <1>2, <1>9, <2>2, <2>3, <2>4, <2>5, HoldsNext
<1>13. ReaderSeesWhatStands'
  <2>1. reader'.standing \subseteq Facts(c)' /\ Mutations(c)' = Mutations(c)
    BY <1>1, <1>2, <1>9, ReadingMovesNothing
  <2>2. "passed" \in reader'.began /\ "receipt" \notin reader'.unlisted => reader'.found["receipt"] # None
    BY <1>6, <1>8, <1>9, <1>10, <1>11
  <2>3. "passed" \in reader'.began => Mutations(c)' # {}
    BY <2>1, <1>2, <1>9
  <2> QED
    BY <1>2, <1>9, <2>1, <2>2, <2>3, SeesNext
<1> QED
  BY <1>12, <1>13 DEF ReaderInvariant

\* A query of the ledger, the proof gaps or the isolation states sees what has
\* stood since the read began.
LEMMA QueryKeepsReader ==
  ASSUME AuthorityInvariant, HistoryInvariant, ReaderInvariant,
         PolicyDecisionMissing \/ ReadLedger \/ ReadProofGaps \/ ReadIsolation
  PROVE  ReaderInvariant'
<1> SUFFICES ASSUME NEW c, c = reader.contract, NEW t, t = reader.terminal
             PROVE  ReaderInvariant'
  OBVIOUS
<1>1. UNCHANGED <<vars, historyVars>> /\ reader.stage # "idle"
  BY DEF PolicyDecisionMissing, ReadLedger, ReadProofGaps, ReadIsolation, ListsAreIn
<1>2. /\ reader \in Reader /\ c \in Contracts
      /\ reader.found["receipt"] # None => reader.found["receipt"] \in Attempts(c)
      /\ reader.found["greenlight"] # None => reader.found["greenlight"] \in Greenlights(c)
      /\ t # None => t \in Terminals /\ Context(t).contract = c
      /\ reader.standing \subseteq Facts(c)
      /\ "passed" \in reader.began => Mutations(c) # {}
      /\ "passed" \in reader.began /\ "receipt" \notin reader.unlisted => reader.found["receipt"] # None
  BY <1>1 DEF ReaderInvariant, ReaderHoldsRecords, ReaderSeesWhatStands
<1>3. /\ reader.stage \in {"gaps", "isolation", "answered"} => reader.unlisted = {}
      /\ reader.stage \in {"gaps", "isolation", "answered"} /\ "unknown" \in reader.standing =>
           reader.ledger # None /\ reader.ledger.contract = c /\ reader.ledger.state = "terminal_unknown"
  BY DEF ReaderInvariant, ReaderSeesWhatStands
<1>4. /\ Attempts(c)' = Attempts(c) /\ Greenlights(c)' = Greenlights(c)
      /\ Mutations(c)' = Mutations(c) /\ Facts(c)' = Facts(c)
      /\ Terminals' = Terminals /\ (t # None => (Context(t).contract)' = c)
  BY <1>1, <1>2, ReadingMovesNothing
<1>5. "unknown" \in Facts(c) => /\ ledger[ContractKey[c]] # None
                                /\ ledger[ContractKey[c]].contract = c
                                /\ ledger[ContractKey[c]].state = "terminal_unknown"
  BY DEF Facts
<1>6. "blocked" \in Facts(c) => Isolated(c)
  <2>1. ASSUME GateBlocked(c) PROVE Isolated(c)
    <3>1. PICK s \in ScopesOf[c] : isolation[s] \in GateBlocking
      BY <2>1 DEF GateBlocked, StatesFor
    <3>2. s \in Scopes /\ isolation[s] # "active"
      BY <1>2, <3>1, KernelConstants DEF GateBlocking, PolicyBlocking
    <3> QED
      BY <3>1, <3>2 DEF HistoryInvariant, Isolated
  <2> QED
    BY <2>1 DEF Facts
<1>7. ledger[ContractKey[c]] \in Nullable(LedgerEntry)
  BY <1>2, KernelConstants DEF AuthorityInvariant, TypeOK
<1>8. ProofGaps(c) \subseteq Requests /\ Isolated(c) \in BOOLEAN
  BY DEF ProofGaps, FinalityGaps, Decisions, Isolated
<1>9. /\ reader' \in Reader /\ reader'.stage # "idle" /\ reader'.contract = c /\ reader'.terminal = t
      /\ reader'.found = reader.found /\ reader'.unlisted = reader.unlisted
      /\ reader'.began = reader.began /\ reader'.standing = reader.standing
      /\ reader'.stage \in {"gaps", "isolation", "answered"} => reader'.unlisted = {}
      /\ reader'.stage \in {"gaps", "isolation", "answered"} /\ "unknown" \in reader'.standing =>
           reader'.ledger # None /\ reader'.ledger.contract = c /\ reader'.ledger.state = "terminal_unknown"
      /\ reader'.stage = "answered" /\ "blocked" \in reader'.standing => reader'.isolated
  <2>1. CASE PolicyDecisionMissing
    BY <2>1, <1>2 DEF PolicyDecisionMissing, Reader, ReaderStages
  <2>2. CASE ReadLedger
    BY <2>2, <1>2, <1>5, <1>7 DEF ReadLedger, ListsAreIn, Reader, ReaderStages
  <2>3. CASE ReadProofGaps
    BY <2>3, <1>2, <1>3, <1>8 DEF ReadProofGaps, Reader, ReaderStages
  <2>4. CASE ReadIsolation
    BY <2>4, <1>2, <1>3, <1>6, <1>8 DEF ReadIsolation, Reader, ReaderStages
  <2> QED
    BY <2>1, <2>2, <2>3, <2>4
<1>10. ReaderHoldsRecords'
  <2>1. reader'.found["receipt"] # None => reader'.found["receipt"] \in Attempts(c)'
    BY <1>2, <1>4, <1>9
  <2>2. reader'.found["greenlight"] # None => reader'.found["greenlight"] \in Greenlights(c)'
    BY <1>2, <1>4, <1>9
  <2>3. t # None => t \in Terminals' /\ (Context(t).contract)' = c
    BY <1>2, <1>4
  <2> QED
    BY <1>2, <1>9, <2>1, <2>2, <2>3, HoldsNext
<1>11. ReaderSeesWhatStands'
  <2>1. /\ reader'.standing \subseteq Facts(c)'
        /\ "passed" \in reader'.began => Mutations(c)' # {}
        /\ "passed" \in reader'.began /\ "receipt" \notin reader'.unlisted => reader'.found["receipt"] # None
    BY <1>2, <1>4, <1>9
  <2> QED
    BY <1>2, <1>9, <2>1, SeesNext
<1> QED
  BY <1>10, <1>11 DEF ReaderInvariant

\* What a readback or a certificate holds while it is assembled is of the
\* contract it is about, and nothing that stood all the while escaped it.
LEMMA ReaderHolds == EvidenceSpec => [](AuthorityInvariant /\ HistoryInvariant /\ ReaderInvariant)
<1>1. EvidenceInit => ReaderInvariant
  BY NoneIsNull DEF EvidenceInit, ReaderInvariant, ReaderHoldsRecords, ReaderSeesWhatStands, NoReader,
                    Reader, ReaderStages, Kinds, Nullable
<1>2. ASSUME AuthorityInvariant, HistoryInvariant, ReaderInvariant, [EvidenceNext]_evidenceVars
      PROVE  ReaderInvariant'
  <2>1. CASE KernelStep
    BY <1>2, <2>1, WatchKeepsReader
  <2>2. CASE BeginReadback
    <3>1. PICK c \in ReadContracts : BeginRead(c, None)
      BY <2>2 DEF BeginReadback
    <3>2. c \in Contracts
      BY ReadContractsExist
    <3>3. ASSUME NEW t, t = None, BeginRead(c, t) PROVE ReaderInvariant'
      <4>1. t = None \/ (t \in Terminals /\ Context(t).contract = c)
        BY <3>3
      <4>2. BeginRead(c, t)
        BY <3>3
      <4> QED
        BY <3>2, <4>1, <4>2, BeginKeepsReader, Zenon
    <3> QED
      BY <3>1, <3>3
  <2>3. CASE BeginCertificate
    <3>1. PICK t \in Terminals : Context(t).contract \in ReadContracts /\ BeginRead(Context(t).contract, t)
      BY <2>3 DEF BeginCertificate
    <3>2. Context(t).contract \in Contracts
      BY <3>1, ReadContractsExist
    <3> QED
      BY <3>1, <3>2, BeginKeepsReader
  <2>4. CASE ReaderStep
    BY <1>2, <2>4, ListKeepsReader, QueryKeepsReader DEF ReaderStep
  <2>5. CASE UNCHANGED evidenceVars
    <3> SUFFICES ASSUME NEW c, c = reader.contract, NEW t, t = reader.terminal
                 PROVE  ReaderInvariant'
      OBVIOUS
    <3>1. UNCHANGED <<vars, historyVars>> /\ reader' = reader
      BY <2>5 DEF evidenceVars
    <3>2. CASE reader.stage = "idle"
      BY <1>2, <3>1, <3>2 DEF ReaderInvariant, ReaderHoldsRecords, ReaderSeesWhatStands, NoReader, Kinds
    <3>3. CASE reader.stage # "idle"
      <4>1. /\ reader \in Reader /\ c \in Contracts
            /\ reader.found["receipt"] # None => reader.found["receipt"] \in Attempts(c)
            /\ reader.found["greenlight"] # None => reader.found["greenlight"] \in Greenlights(c)
            /\ t # None => t \in Terminals /\ Context(t).contract = c
        BY <1>2, <3>3 DEF ReaderInvariant, ReaderHoldsRecords
      <4>2. /\ Attempts(c)' = Attempts(c) /\ Greenlights(c)' = Greenlights(c)
            /\ Mutations(c)' = Mutations(c) /\ Facts(c)' = Facts(c)
            /\ Terminals' = Terminals /\ (t # None => (Context(t).contract)' = c)
        BY <3>1, <4>1, ReadingMovesNothing
      <4>3. ReaderHoldsRecords'
        BY <3>1, <3>3, <4>1, <4>2, HoldsNext
      <4>4. /\ reader'.standing \subseteq Facts(c)'
            /\ "passed" \in reader'.began => Mutations(c)' # {}
        BY <1>2, <3>1, <3>3, <4>2 DEF ReaderInvariant, ReaderSeesWhatStands
      <4>5. ReaderSeesWhatStands'
        BY <1>2, <3>1, <4>1, <4>4, SeesNext DEF ReaderInvariant, ReaderSeesWhatStands
      <4> QED
        BY <4>3, <4>5 DEF ReaderInvariant
    <3> QED
      BY <3>2, <3>3
  <2> QED
    BY <1>2, <2>1, <2>2, <2>3, <2>4, <2>5 DEF EvidenceNext, ReadbackNext
<1> QED
  BY <1>1, <1>2, HistoryHolds, PTL DEF EvidenceSpec

(***************************************************************************)
(* What a readback says                                                     *)
(***************************************************************************)
\* A caller sent to the gateway is given the contract's own greenlight, and
\* neither an earlier admission nor a standing isolation is kept from it.
THEOREM OffersAreGood == EvidenceSpec => []OfferedGreenlightIsGood
<1>1. ASSUME ReaderInvariant, Answered, Advice = "use_greenlight_at_gateway"
      PROVE  /\ greenlight[Told.greenlight] = reader.contract
             /\ "passed" \notin reader.began
             /\ "blocked" \notin reader.standing
  <2>1. reader.unlisted = {} /\ (reader.found["receipt"] = None => "passed" \notin reader.began)
    BY <1>1 DEF ReaderInvariant, ReaderSeesWhatStands, Answered
  <2>2. Status(reader, Told) = "greenlight_available"
    BY <1>1 DEF Advice, NextMechanism
  <2>3. ~reader.isolated /\ Told.greenlight # None /\ Told.attempt = None
    BY <2>2 DEF Status
  <2>4. reader.found["receipt"] = None /\ Told.greenlight = reader.found["greenlight"]
    BY <2>3 DEF Told, Assembled, NewestEvidence
  <2>5. greenlight[Told.greenlight] = reader.contract
    BY <1>1, <2>3, <2>4 DEF ReaderInvariant, ReaderHoldsRecords, Greenlights
  <2>6. "blocked" \notin reader.standing
    BY <1>1, <2>3 DEF ReaderInvariant, ReaderSeesWhatStands, Answered
  <2> QED
    BY <2>1, <2>4, <2>5, <2>6
<1>2. ReaderInvariant => OfferedGreenlightIsGood
  BY <1>1 DEF OfferedGreenlightIsGood
<1> QED
  BY <1>2, ReaderHolds, PTL

\* What the newest receipt rests on was greenlit, and if it passed was spent.
LEMMA ReceiptsRestOnGreenlights ==
  ASSUME AuthorityInvariant, HistoryInvariant, NEW x \in GateAttempts, Recorded(x)
  PROVE  LET g == asked[x.request].greenlight IN
         /\ decision[g] = "greenlight"
         /\ Passed(x) => /\ consumption[g] = x.request
                         /\ mutation[x.request] = [contract |-> asked[x.request].contract, greenlight |-> g]
<1> DEFINE r == x.request
           g == asked[r].greenlight
<1>1. r \in Requests /\ receipt[r] # {}
  BY DEF GateAttempts, Recorded
<1>2. RecordsAnswerTheQuestion(r) /\ ReferencesHold(r)
  BY <1>1 DEF HistoryInvariant
<1>3. g \in Requests /\ greenlight[g] # None
  BY <1>1, <1>2, NoneIsNull, NoneIsNoRecord DEF RecordsAnswerTheQuestion, ReferencesHold
<1>4. decision[g] = "greenlight"
  <2>1. RecordsAnswerTheQuestion(g)
    BY <1>3 DEF HistoryInvariant
  <2> QED
    BY <1>3, <2>1 DEF RecordsAnswerTheQuestion
<1>5. ASSUME Passed(x)
      PROVE  consumption[g] = r /\ mutation[r] = [contract |-> asked[r].contract, greenlight |-> g]
  <2>1. mutation[r] # None /\ mutation[r] = [contract |-> asked[r].contract, greenlight |-> g]
    BY <1>2, <1>5 DEF Passed, RecordsAnswerTheQuestion
  <2>2. mutation[r].greenlight = g
    BY <2>1
  <2> QED
    BY <1>1, <2>1, <2>2 DEF AuthorityInvariant, MutationsConsume
<1> QED
  BY <1>4, <1>5

\* Once a mutation was admitted, no read that begins later talks as if policy had
\* yet to decide, and a greenlight told as consumed was, by the attempt told.
THEOREM AdmissionsAreRemembered == EvidenceSpec => []AdmittedIsNotForgotten
<1> DEFINE x == reader.found["receipt"]
<1>1. ASSUME AuthorityInvariant, HistoryInvariant, ReaderInvariant, x # None
      PROVE  /\ x \in GateAttempts /\ Recorded(x) /\ asked[x.request].contract = reader.contract
             /\ Told.decision = asked[x.request].greenlight
             /\ Told.greenlight = asked[x.request].greenlight
             /\ Told.receipt = x
             /\ Passed(x) => Told.mutation = x.request
  <2>1. x \in Attempts(reader.contract)
    BY <1>1 DEF ReaderInvariant, ReaderHoldsRecords
  <2> QED
    BY <1>1, <2>1 DEF Attempts, Told, Assembled
<1> HIDE DEF x
<1>2. ASSUME AuthorityInvariant, HistoryInvariant, ReaderInvariant, Answered, "passed" \in reader.began
      PROVE  Status(reader, Told) \in {"isolated", "recovery_required", "replay_refused",
                                       "gateway_refused", "downstream_pending"}
  <2>1. x # None
    BY <1>2 DEF x, ReaderInvariant, ReaderSeesWhatStands, Answered
  <2>2. Told.receipt = x /\ decision[Told.decision] = "greenlight"
    BY <1>1, <1>2, <2>1, ReceiptsRestOnGreenlights
  <2>3. /\ Admission(Told) \in {"replayed", "admitted", "refused"}
        /\ Admission(Told) = "admitted" => Passed(x)
    BY <2>1, <2>2 DEF Admission, AdmissionOf
  <2>4. Passed(x) => Outcome(Told) = "pending"
    BY <2>1, <2>2 DEF Outcome
  <2> QED
    BY <2>2, <2>3, <2>4 DEF Status
<1>3. ASSUME AuthorityInvariant, HistoryInvariant, ReaderInvariant, Answered,
             GreenlightUse(Told) = "consumed"
      PROVE  /\ consumption[Told.greenlight] = Told.mutation
             /\ mutation[Told.mutation] = [contract |-> reader.contract, greenlight |-> Told.greenlight]
  <2>1. Told.receipt # None /\ Consumption(Told.receipt) = "consumed"
    BY <1>3 DEF GreenlightUse
  <2>2. x # None
    BY <2>1 DEF x, Told, Assembled, NewestEvidence
  <2>3. Passed(x)
    BY <1>1, <1>3, <2>1, <2>2 DEF Consumption
  <2> QED
    BY <1>1, <1>3, <2>2, <2>3, ReceiptsRestOnGreenlights
<1>4. AuthorityInvariant /\ HistoryInvariant /\ ReaderInvariant => AdmittedIsNotForgotten
  BY <1>2, <1>3 DEF AdmittedIsNotForgotten
<1> QED
  BY <1>4, ReaderHolds, PTL

(***************************************************************************)
(* What a certificate says                                                  *)
(***************************************************************************)
\* Whatever the assembly preferred, the certificate binds the record it was
\* asked for: the envelope's records are those of its context.
LEMMA CertificateBinds ==
  ASSUME ReaderInvariant, Minted
  PROVE  BindingHolds(reader.terminal, Certified)
<1> SUFFICES ASSUME NEW t, t = reader.terminal PROVE BindingHolds(t, Certified)
  OBVIOUS
<1>1. t \in Terminals /\ Context(t).contract = reader.contract
  BY DEF ReaderInvariant, ReaderHoldsRecords, Minted
<1>2. /\ Certified.contract = Context(t).contract
      /\ Certified.decision = Context(t).decision
      /\ Certified.greenlight = Context(t).greenlight
      /\ Certified.attempt = Context(t).attempt
      /\ Certified.receipt = Context(t).receipt
      /\ Context(t).gaps \subseteq Certified.gaps
      /\ Certified.refusals = Context(t).refusals
  BY <1>1 DEF Certified, CertifiedEnvelope
<1>3. RequiredSigners(t) = SignerRoles => Context(t).attempt # None
  BY DEF RequiredSigners, SignerRoles
<1>4. /\ Context(t).kind \in {"receipt", "replay_refusal"} => Context(t).receipt = t.of
      /\ Context(t).kind = "replay_refusal" => Consumption(Context(t).receipt) = "replayed"
      /\ Context(t).kind = "durable_refusal" => t.of \in Context(t).refusals
      /\ Context(t).kind = "proof_gap" => t.of \in Context(t).gaps
  <2>1. CASE t.object = "receipt"
    BY <2>1 DEF Context, ReceiptContext
  <2>2. CASE t.object = "refusal"
    BY <2>2 DEF Context, GatewayRefusalContext, ReceiptContext
  <2>3. CASE t.object = "policy_refusal"
    BY <2>3 DEF Context, PolicyRefusalContext
  <2>4. CASE t.object = "proof_gap"
    BY <2>4 DEF Context, ProofGapContext, ReceiptContext
  <2> QED
    BY <1>1, <2>1, <2>2, <2>3, <2>4 DEF Terminals
<1> QED
  BY <1>1, <1>2, <1>3, <1>4 DEF BindingHolds

\* A certificate describes the record it was asked for and no newer one, and
\* certifies as admitted only what spent its greenlight.
THEOREM CertificatesTellTheirTerminal == EvidenceSpec => []CertificateTellsItsTerminal
<1>1. ASSUME AuthorityInvariant, HistoryInvariant, ReaderInvariant, Minted,
             Admission(Certified) = "admitted"
      PROVE  Certified.mutation # None /\ consumption[Certified.greenlight] = Certified.mutation
  <2> SUFFICES ASSUME NEW t, t = reader.terminal
               PROVE  Certified.mutation # None /\ consumption[Certified.greenlight] = Certified.mutation
    OBVIOUS
  <2>1. t \in Terminals
    BY <1>1 DEF ReaderInvariant, ReaderHoldsRecords, Minted
  <2>2. /\ Certified.greenlight = Context(t).greenlight
        /\ Certified.attempt = Context(t).attempt
        /\ Certified.mutation = Context(t).mutation
        /\ Certified.receipt = Context(t).receipt
    BY DEF Certified, CertifiedEnvelope
  <2>3. ASSUME NEW x, Recorded(x), x \in GateAttempts, Context(t).receipt = x,
               Context(t).greenlight = asked[x.request].greenlight,
               Context(t).mutation = IF Passed(x) THEN x.request ELSE None
        PROVE  Certified.mutation # None /\ consumption[Certified.greenlight] = Certified.mutation
    <3>1. x # None /\ x.request # None
      BY <2>3, NoneIsNoRecord, NoneIsNull DEF GateAttempts
    <3>2. Passed(x)
      BY <1>1, <2>2, <2>3, <3>1 DEF Admission, AdmissionOf
    <3> QED
      BY <1>1, <2>2, <2>3, <3>1, <3>2, ReceiptsRestOnGreenlights
  <2>4. CASE t \in [object : {"receipt"}, of : {x \in GateAttempts : Recorded(x)}]
    BY <2>3, <2>4 DEF Context, ReceiptContext
  <2>5. CASE t \in [object : {"refusal"}, of : {x \in GateAttempts : Recorded(x) /\ ~Passed(x)}]
    <3>1. Context(t).receipt = None /\ Context(t).attempt = t.of
      BY <2>5 DEF Context, GatewayRefusalContext, ReceiptContext
    <3> QED
      BY <1>1, <2>2, <2>5, <3>1 DEF Admission
  <2>6. CASE t \in [object : {"policy_refusal"},
                    of : {p \in Requests : decision[p] \in {"refuse", "halt", "quarantine"}}]
    <3>1. Context(t).receipt = None /\ Context(t).attempt = None
      BY <2>6 DEF Context, PolicyRefusalContext
    <3> QED
      BY <1>1, <2>2, <3>1 DEF Admission
  <2>7. CASE t \in [object : {"proof_gap"},
                    of : {q \in Requests : reconciliation[q] # None /\ reconciliation[q].status = "unknown"}]
    <3> DEFINE m == reconciliation[t.of].mutation
               x == [request |-> m, replay |-> FALSE]
    <3>1. t.object = "proof_gap" /\ t.of \in Requests /\ reconciliation[t.of] # None
      BY <2>7
    <3>2. m \in Requests /\ mutation[m] # None
      BY <1>1, <3>1 DEF AuthorityInvariant, TypeOK, Nullable, Reconciliation, HistoryInvariant, ReferencesHold
    <3>3. "passed" \in receipt[m]
      <4>1. RecordsAnswerTheQuestion(m)
        BY <1>1, <3>2 DEF HistoryInvariant
      <4> QED
        BY <3>2, <4>1 DEF RecordsAnswerTheQuestion
    <3>4. x \in GateAttempts /\ Recorded(x)
      BY <3>2, <3>3 DEF GateAttempts, Recorded
    <3>5. /\ Context(t).receipt = x
          /\ Context(t).greenlight = asked[x.request].greenlight
          /\ Context(t).mutation = IF Passed(x) THEN x.request ELSE None
      BY <3>1 DEF Context, ProofGapContext, ReceiptContext
    <3> QED
      BY <2>3, <3>4, <3>5
  <2> QED
    BY <2>1, <2>4, <2>5, <2>6, <2>7 DEF Terminals
<1>2. AuthorityInvariant /\ HistoryInvariant /\ ReaderInvariant => CertificateTellsItsTerminal
  BY <1>1, CertificateBinds DEF CertificateTellsItsTerminal
<1> QED
  BY <1>2, ReaderHolds, PTL

(***************************************************************************)
(* Unknown outcomes                                                         *)
(***************************************************************************)
\* The entry a contract holds under a key of its own, with an unknown outcome, has
\* a proof gap of that contract.
LEMMA UnknownEntriesHaveGaps ==
  ASSUME AuthorityInvariant, HistoryInvariant, LedgerInvariant, NEW c \in Contracts,
         NEW k, k = ContractKey[c], ~Shadowed(k),
         ledger[k] # None, ledger[k].state = "terminal_unknown", ledger[k].contract = c
  PROVE  \E q \in FinalityGaps(c) : reconciliation[q].mutation = ledger[k].mutation
<1>1. k \in LedgerKeys /\ AuthorityKey[c] = k
  BY KernelConstants DEF AuthorityInvariant, EntriesAreHeld
<1>2. PICK q \in Requests :
        /\ reconciliation[q] # None
        /\ LedgerStateFor(reconciliation[q].status) = "terminal_unknown"
        /\ reconciliation[q].status \in TerminalStatuses
        /\ mutation[reconciliation[q].mutation] # None
        /\ k \in {AuthorityKey[mutation[reconciliation[q].mutation].contract],
                  ContractKey[mutation[reconciliation[q].mutation].contract]}
  BY <1>1 DEF LedgerInvariant, LedgerTellsTheOutcome, TerminalLedgerStates
<1> DEFINE m == reconciliation[q].mutation
           d == mutation[m].contract
<1>3. reconciliation[q].status = "unknown"
  BY <1>2 DEF LedgerStateFor, TerminalStatuses, ReleasingStatuses
<1>4. m \in Requests /\ mutation[m] # None
  BY <1>2 DEF AuthorityInvariant, TypeOK, Nullable, Reconciliation
<1>5. /\ d \in Contracts
      /\ ledger[AuthorityKey[d]].contract = d
  BY <1>4, AdmittedHoldTheirEntry
<1>6. AuthorityKey[d] = k
  BY <1>2, <1>5 DEF Shadowed
<1>7. d = c
  BY <1>5, <1>6
<1>8. ledger[k].mutation = m
  BY <1>1, <1>4, <1>6, <1>7 DEF LedgerInvariant, LedgerNamesTheMutation, ClosedFromReservation
<1>9. m \in Mutations(c)
  BY <1>4, <1>7 DEF Mutations
<1> QED
  BY <1>2, <1>3, <1>8, <1>9 DEF FinalityGaps

\* A reader who holds an unknown entry has its gap, or will list it.
LEMMA ReaderKeepsTheGap ==
  ASSUME AuthorityInvariant, HistoryInvariant, LedgerInvariant, ReaderInvariant, ReaderHasTheGap,
         [EvidenceNext]_evidenceVars
  PROVE  ReaderHasTheGap'
<1> SUFFICES ASSUME NEW c, c = reader'.contract, NEW e, e = reader'.ledger,
                    e # None, e.state = "terminal_unknown", e.contract = c, ~Shadowed(e.key)
             PROVE  /\ reader'.stage \in {"gaps", "isolation", "answered"} =>
                         \E q \in FinalityGaps(c)' : reconciliation'[q].mutation = e.mutation
                    /\ reader'.stage \in {"isolation", "answered"} =>
                         \E q \in reader'.gaps : reconciliation'[q] # None
                                                 /\ reconciliation'[q].mutation = e.mutation
  BY DEF ReaderHasTheGap, FinalityGaps, Mutations
<1>1. ASSUME c \in Contracts, reader.contract = c, reader.ledger = e
      PROVE  /\ reader.stage \in {"gaps", "isolation", "answered"} =>
                  \E q \in FinalityGaps(c) : reconciliation[q].mutation = e.mutation
             /\ reader.stage \in {"isolation", "answered"} =>
                  \E q \in reader.gaps : reconciliation[q] # None /\ reconciliation[q].mutation = e.mutation
  BY <1>1 DEF ReaderHasTheGap
<1>2. reader \in Reader
  BY DEF ReaderInvariant, ReaderHoldsRecords
<1>3. CASE KernelStep
  <2>1. /\ c \in Contracts /\ reader.contract = c /\ reader.ledger = e
        /\ reader'.stage = reader.stage /\ reader'.gaps = reader.gaps
    <3>1. reader.contract \in Contracts
      <4>1. CASE reader.stage = "idle"
        <5>1. reader = NoReader
          BY <4>1 DEF ReaderInvariant, ReaderHoldsRecords
        <5>2. UNCHANGED reader
          BY <1>3, <5>1, NoneIsNull DEF KernelStep, Watch, NoReader
        <5> QED
          BY <5>1, <5>2 DEF NoReader
      <4>2. CASE reader.stage # "idle"
        BY <4>2 DEF ReaderInvariant, ReaderHoldsRecords
      <4> QED
        BY <4>1, <4>2
    <3>2. PICK d \in Contracts : /\ reader.contract = d
                                 /\ reader' = [reader EXCEPT !.standing = @ \cap Facts(d)']
      BY <1>3, <3>1, NoneIsNull DEF KernelStep, Watch
    <3> QED
      BY <1>2, <3>1, <3>2 DEF Reader
  <2>2. \A r \in Requests : RecordsKept(r)
    BY <1>3, KernelKeepsRecords
  <2>3. \A q \in FinalityGaps(c) : q \in FinalityGaps(c)' /\ reconciliation'[q] = reconciliation[q]
    BY <2>1, <2>2, ListsGrow
  <2>4. \A q \in reader.gaps : reconciliation[q] # None => reconciliation'[q] = reconciliation[q]
    BY <1>2, <2>2 DEF Reader, RecordsKept
  <2> QED
    BY <1>1, <2>1, <2>3, <2>4
<1>4. CASE BeginReadback \/ BeginCertificate \/ ReaderStep
  <2>1. reconciliation' = reconciliation /\ FinalityGaps(c)' = FinalityGaps(c)
    BY <1>4, ReadersOnlyRead DEF vars, lifecycleVars, gateVars, FinalityGaps, Mutations
  <2>2. FinalityGaps(c) \subseteq ProofGaps(c) /\ \A q \in FinalityGaps(c) : reconciliation[q] # None
    BY DEF ProofGaps, FinalityGaps
  <2>3. CASE BeginReadback \/ BeginCertificate
    BY <2>3 DEF BeginReadback, BeginCertificate, BeginRead, NoReader
  <2>4. CASE ListRecords \/ PolicyDecisionMissing
    BY <1>2, <2>4 DEF ListRecords, PolicyDecisionMissing, ListsAreIn, Reader
  <2>5. CASE ReadLedger
    <3>1. /\ reader.contract = c /\ reader'.stage = "gaps" /\ e = ledger[ContractKey[c]]
          /\ c \in Contracts
      BY <1>2, <2>5 DEF ReadLedger, ListsAreIn, Reader, ReaderInvariant, ReaderHoldsRecords
    <3>2. e.key = ContractKey[c]
      BY <3>1, KernelConstants DEF AuthorityInvariant, EntriesAreHeld
    <3>3. \E q \in FinalityGaps(c) : reconciliation[q].mutation = e.mutation
      BY <3>1, <3>2, UnknownEntriesHaveGaps
    <3> QED
      BY <2>1, <3>1, <3>3
  <2>6. CASE ReadProofGaps \/ ReadIsolation
    <3>1. /\ reader.contract = c /\ c \in Contracts /\ reader.ledger = e
          /\ reader.stage \in {"gaps", "isolation"}
          /\ reader.stage = "gaps" => reader'.gaps = ProofGaps(c)
          /\ reader.stage = "isolation" => reader'.gaps = reader.gaps
      <4>1. reader.contract = c /\ reader.ledger = e /\ reader.stage \in {"gaps", "isolation"}
        BY <1>2, <2>6 DEF ReadProofGaps, ReadIsolation, Reader
      <4>2. c \in Contracts
        BY <4>1 DEF ReaderInvariant, ReaderHoldsRecords
      <4>3. CASE ReadProofGaps
        BY <1>2, <4>1, <4>2, <4>3 DEF ReadProofGaps, Reader
      <4>4. CASE ReadIsolation
        BY <1>2, <4>1, <4>2, <4>4 DEF ReadIsolation, Reader
      <4> QED
        BY <2>6, <4>3, <4>4
    <3>2. PICK q \in FinalityGaps(c) : reconciliation[q].mutation = e.mutation
      BY <1>1, <3>1
    <3>3. \E x \in reader'.gaps : reconciliation[x] # None /\ reconciliation[x].mutation = e.mutation
      <4>1. CASE reader.stage = "gaps"
        BY <2>2, <3>1, <3>2, <4>1
      <4>2. CASE reader.stage = "isolation"
        BY <1>1, <3>1, <4>2
      <4> QED
        BY <3>1, <4>1, <4>2
    <3> QED
      BY <2>1, <3>2, <3>3
  <2> QED
    BY <1>4, <2>3, <2>4, <2>5, <2>6 DEF ReaderStep
<1>5. CASE UNCHANGED evidenceVars
  <2>1. reader' = reader /\ reconciliation' = reconciliation /\ FinalityGaps(c)' = FinalityGaps(c)
    BY <1>5 DEF evidenceVars, vars, historyVars, lifecycleVars, gateVars, FinalityGaps, Mutations
  <2> QED
    BY <1>2, <2>1 DEF ReaderHasTheGap
<1> QED
  BY <1>3, <1>4, <1>5 DEF EvidenceNext, ReadbackNext

\* An unknown outcome that stands while the contract is read is never smoothed
\* over, and one who is told to recover is given the gap to recover from, unless
\* the entry is another contract's or stands under a shadowed key.
THEOREM UnknownsAreTold == EvidenceSpec => []UnknownIsNotHidden
<1> DEFINE Inv == AuthorityInvariant /\ HistoryInvariant /\ ReaderInvariant
<1>1. EvidenceInit => ReaderHasTheGap
  BY DEF EvidenceInit, ReaderHasTheGap, NoReader
<1>2. Inv /\ LedgerInvariant /\ ReaderHasTheGap /\ [EvidenceNext]_evidenceVars => ReaderHasTheGap'
  BY ReaderKeepsTheGap
<1>3. EvidenceSpec => []LedgerInvariant
  <2>1. Spec => []LedgerInvariant
    BY LedgerHolds
  <2> QED
    BY <2>1, ReadersAreSpectators, PTL
<1>4. ASSUME Answered, reader.ledger # None, reader.ledger.contract = reader.contract,
             reader.ledger.state = "terminal_unknown"
      PROVE  Advice \in {"stop", "recover_terminal_unknown"}
  <2>1. Disposition(reader.ledger, reader.contract) = "terminal_unknown_requires_recovery"
    BY <1>4 DEF Disposition
  <2>2. Status(reader, Told) \in {"isolated", "recovery_required"}
    BY <2>1 DEF Status
  <2> QED
    BY <2>2 DEF Advice, NextMechanism
<1>5. ASSUME Answered, Advice = "recover_terminal_unknown"
      PROVE  reader.ledger # None /\ reader.ledger.state = "terminal_unknown"
  <2>1. Status(reader, Told) = "recovery_required"
    BY <1>5 DEF Advice, NextMechanism
  <2>2. Disposition(reader.ledger, reader.contract) = "terminal_unknown_requires_recovery"
    BY <2>1 DEF Status
  <2> QED
    BY <2>2 DEF Disposition
<1>6. ReaderInvariant /\ ReaderHasTheGap => UnknownIsNotHidden
  <2>1. ASSUME ReaderInvariant, Answered, "unknown" \in reader.standing
        PROVE  Advice \in {"stop", "recover_terminal_unknown"}
    BY <1>4, <2>1 DEF ReaderInvariant, ReaderSeesWhatStands, Answered
  <2>2. ASSUME ReaderHasTheGap, Answered, Advice = "recover_terminal_unknown",
               reader.ledger.contract = reader.contract, ~Shadowed(reader.ledger.key)
        PROVE  \E q \in reader.gaps : /\ reconciliation[q] # None
                                       /\ reconciliation[q].mutation = reader.ledger.mutation
    BY <1>5, <2>2 DEF ReaderHasTheGap, Answered
  <2> QED
    BY <2>1, <2>2 DEF UnknownIsNotHidden
<1> HIDE DEF Inv
<1>7. Inv => ReaderInvariant
  BY DEF Inv
<1>8. EvidenceSpec => []Inv
  BY ReaderHolds DEF Inv
<1> QED
  BY <1>1, <1>2, <1>3, <1>6, <1>7, <1>8, PTL DEF EvidenceSpec
=============================================================================
