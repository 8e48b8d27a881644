------------------------- MODULE SurfaceGatewaysProofs -------------------------
(***************************************************************************)
(* What holds of the gateways for every number of runs, greenlights and     *)
(* surfaces.  A step of a run changes what is its own and does one thing to *)
(* the kernel (KernelStep): that is all the other runs see of it.           *)
(***************************************************************************)
EXTENDS SurfaceGateways, SequenceTheorems, TLAPS

USE GatewayConstants

\* What a step of r leaves of another run.
OthersStay(r) ==
  \A q \in Runs \ {r} :
    /\ step'[q] = step[q]
    /\ found'[q] = found[q]
    /\ outcome'[q] = outcome[q]
    /\ effect'[q] = effect[q]
    /\ reports'[q] = reports[q]
    /\ q \in evidence' <=> q \in evidence

\* What a step of r does to the kernel.
KernelStep(r) ==
  \/ UNCHANGED <<kernelVars, reports>>
  \/ Admitted(r) /\ UNCHANGED reports /\ step[r] = "check" /\ step'[r] # "check"
  \/ \E status \in Statuses :
       /\ Reconciled(r, status)
       /\ HasGate(r)
       /\ status = "succeeded" => effect[r] = 1

\* Every status an adapter reads off its surface is one of the kernel's, and
\* success is told of an effect (the evidence schemas of the adapters).
LEMMA SurfaceAnswersAreReal ==
  ASSUME NEW kind \in Kinds, NEW answer \in SurfaceAnswers(kind)
  PROVE  /\ answer[1] \in Statuses \ {"failed"}
         /\ answer[2] \in {0, 1}
         /\ answer[1] = "succeeded" => answer[2] = 1
BY DEF SurfaceAnswers, Statuses, Kinds

\* The invariant is there when the greenlights are issued.
LEMMA GatewayInit == Init => GatewayInvariant
<1> SUFFICES ASSUME Init PROVE GatewayInvariant OBVIOUS
<1> USE DEF Init
<1>1. TypeOK BY DEF TypeOK, LedgerStates, Steps, Nullable
<1>2. ASSUME NEW r \in Runs PROVE RunKnows(r) /\ KeepsItsSurface(r) /\ ~HasGate(r)
  <2>1. reports[r] = <<>> /\ Len(reports[r]) = 0 /\ ~HasGate(r) BY DEF HasGate
  <2>2. step[r] = "check" /\ outcome[r] = None /\ effect[r] = 0 OBVIOUS
  <2> QED BY <2>1, <2>2 DEF RunKnows, KeepsItsSurface, Open
<1>3. EffectsFollowTheirGate BY DEF EffectsFollowTheirGate
<1>4. ReportedSuccessHappened BY DEF ReportedSuccessHappened, Outcomes
<1>5. CallersAreToldTheLedger /\ TellersHaveTheGate
  BY DEF CallersAreToldTheLedger, TellersHaveTheGate, Outcomes
<1> QED BY <1>1, <1>2, <1>3, <1>4, <1>5 DEF GatewayInvariant

\* A step of a run is its own.
LEMMA StepIsOwn ==
  ASSUME GatewayInvariant, NEW r \in Runs, Drive(r) \/ Stop(r)
  PROVE  OthersStay(r) /\ evidence \subseteq evidence' /\ evidence' \subseteq Runs
<1> USE DEF GatewayInvariant, TypeOK, OthersStay, Goes, Returns, kernelVars, Reconciled
<1>1. CASE GatePasses(r) BY <1>1 DEF GatePasses
<1>2. CASE GateRefused(r) BY <1>2 DEF GateRefused
<1>3. CASE GateThrows(r) BY <1>3 DEF GateThrows
<1>4. CASE ResolveCredential(r) BY <1>4 DEF ResolveCredential
<1>5. CASE ResolveThrows(r) BY <1>5 DEF ResolveThrows
<1>6. CASE Execute(r) BY <1>6 DEF Execute
<1>7. CASE ExecuteThrows(r) BY <1>7 DEF ExecuteThrows
<1>8. CASE Report(r) BY <1>8 DEF Report
<1>9. CASE ReportThrows(r) BY <1>9 DEF ReportThrows
<1>10. CASE RefuseUnsafe(r) BY <1>10 DEF RefuseUnsafe
<1>11. CASE ReportFailure(r) BY <1>11 DEF ReportFailure
<1>12. CASE LastReportThrows(r) BY <1>12 DEF LastReportThrows
<1>13. CASE Stop(r) BY <1>13 DEF Stop
<1> QED BY <1>1, <1>2, <1>3, <1>4, <1>5, <1>6, <1>7, <1>8, <1>9, <1>10, <1>11, <1>12, <1>13 DEF Drive

\* A step of a run does one thing to the kernel.
LEMMA StepOnKernel ==
  ASSUME GatewayInvariant, NEW r \in Runs, Drive(r) \/ Stop(r)
  PROVE  KernelStep(r)
<1> USE DEF KernelStep, kernelVars
<1>0. /\ step[r] \in Open => HasGate(r)
      /\ step[r] = "report" => found[r] \in Statuses /\ (found[r] = "succeeded" => effect[r] = 1)
      /\ step \in [Runs -> Steps]
  BY DEF GatewayInvariant, RunKnows, TypeOK, Nullable
<1>1. CASE GatePasses(r)
  <2>1. PICK next \in AfterGate(KindOf[r]) : Goes(r, "check", next) BY <1>1 DEF GatePasses
  <2>2. next # "check" BY DEF AfterGate, Kinds
  <2> QED BY <1>0, <1>1, <2>1, <2>2 DEF GatePasses, Goes
<1>2. CASE GateRefused(r) BY <1>0, <1>2 DEF GateRefused, Returns
<1>3. CASE GateThrows(r) BY <1>0, <1>3 DEF GateThrows, Goes
<1>4. CASE ResolveCredential(r) BY <1>4 DEF ResolveCredential
<1>5. CASE ResolveThrows(r) BY <1>5 DEF ResolveThrows
<1>6. CASE Execute(r) BY <1>6 DEF Execute
<1>7. CASE ExecuteThrows(r) BY <1>7 DEF ExecuteThrows
<1>8. CASE Report(r) BY <1>0, <1>8 DEF Report, Returns, Open, ObservedStatus
<1>9. CASE ReportThrows(r) BY <1>0, <1>9 DEF ReportThrows, Goes, Open, ObservedStatus
<1>10. CASE RefuseUnsafe(r) BY <1>0, <1>10 DEF RefuseUnsafe, Returns, Open, Statuses
<1>11. CASE ReportFailure(r) BY <1>0, <1>11 DEF ReportFailure, Returns, Open, Statuses
<1>12. CASE LastReportThrows(r) BY <1>0, <1>12 DEF LastReportThrows, Goes, Open, Statuses
<1>13. CASE Stop(r) BY <1>13 DEF Stop
<1> QED BY <1>1, <1>2, <1>3, <1>4, <1>5, <1>6, <1>7, <1>8, <1>9, <1>10, <1>11, <1>12, <1>13 DEF Drive

\* The kernel takes no greenlight back.
LEMMA GateIsKept ==
  ASSUME GatewayInvariant, NEW r \in Runs, KernelStep(r)
  PROVE  /\ gate' \in [Greenlights -> Nullable(Runs)]
         /\ claim' \in [Surfaces -> Nullable(ClaimRecords)]
         /\ ledger' \in [Greenlights -> LedgerStates]
         /\ reports' \in [Runs -> Seq(Statuses)]
         /\ \A g \in Greenlights : gate[g] # None => gate'[g] = gate[g]
         /\ \A q \in Runs \ {r} : HasGate(q)' <=> HasGate(q)
<1> USE DEF GatewayInvariant, TypeOK, HasGate, Nullable
<1>1. CASE UNCHANGED <<kernelVars, reports>> BY <1>1 DEF kernelVars
<1>2. CASE Admitted(r) /\ UNCHANGED reports
  BY <1>2 DEF Admitted, Free, LedgerStates, ClaimRecords, Surface
<1>3. CASE \E status \in Statuses : Reconciled(r, status)
  <2>1. PICK status \in Statuses : Reconciled(r, status) BY <1>3
  <2>2. ClaimAfter(r, status) \in Nullable(ClaimRecords) BY DEF ClaimAfter, ClaimRecords, Surface
  <2>3. Append(reports[r], status) \in Seq(Statuses) OBVIOUS
  <2>4. claim' \in [Surfaces -> Nullable(ClaimRecords)] BY <2>1, <2>2 DEF Reconciled
  <2>5. reports' \in [Runs -> Seq(Statuses)] BY <2>1, <2>3 DEF Reconciled
  <2>6. ledger' \in [Greenlights -> LedgerStates] BY <2>1 DEF Reconciled, LedgerStates
  <2> QED BY <2>1, <2>4, <2>5, <2>6 DEF Reconciled
<1> QED BY <1>1, <1>2, <1>3 DEF KernelStep

\* Types are kept.
LEMMA TypeKept ==
  ASSUME GatewayInvariant, NEW r \in Runs, Drive(r) \/ Stop(r)
  PROVE  TypeOK'
<1>0. evidence' \subseteq Runs BY StepIsOwn
<1>1. KernelStep(r) BY StepOnKernel
<1>2. /\ gate' \in [Greenlights -> Nullable(Runs)]
      /\ claim' \in [Surfaces -> Nullable(ClaimRecords)]
      /\ ledger' \in [Greenlights -> LedgerStates]
      /\ reports' \in [Runs -> Seq(Statuses)]
  BY <1>1, GateIsKept
<1>3. /\ step' \in [Runs -> Steps]
      /\ found' \in [Runs -> Nullable(Statuses)]
      /\ outcome' \in [Runs -> Nullable(Outcomes)]
      /\ effect' \in [Runs -> Nat]
  <2> USE DEF GatewayInvariant, TypeOK, Goes, Returns, Steps, Outcomes, Nullable
  <2>1. CASE GatePasses(r) BY <2>1 DEF GatePasses, AfterGate, Kinds
  <2>2. CASE GateRefused(r) BY <2>2 DEF GateRefused
  <2>3. CASE GateThrows(r) BY <2>3 DEF GateThrows
  <2>4. CASE ResolveCredential(r) BY <2>4 DEF ResolveCredential
  <2>5. CASE ResolveThrows(r) BY <2>5 DEF ResolveThrows
  <2>6. CASE Execute(r)
    <3>1. PICK answer \in SurfaceAnswers(KindOf[r]) :
            /\ found' = [found EXCEPT ![r] = answer[1]]
            /\ effect' = [effect EXCEPT ![r] = @ + answer[2]]
      BY <2>6 DEF Execute
    <3>2. answer[1] \in Statuses /\ answer[2] \in {0, 1} BY SurfaceAnswersAreReal
    <3> QED BY <2>6, <3>1, <3>2 DEF Execute
  <2>7. CASE ExecuteThrows(r) BY <2>7 DEF ExecuteThrows
  <2>8. CASE Report(r) BY <2>8 DEF Report, OutcomeFor
  <2>9. CASE ReportThrows(r) BY <2>9 DEF ReportThrows
  <2>10. CASE RefuseUnsafe(r) BY <2>10 DEF RefuseUnsafe
  <2>11. CASE ReportFailure(r) BY <2>11 DEF ReportFailure
  <2>12. CASE LastReportThrows(r) BY <2>12 DEF LastReportThrows
  <2>13. CASE Stop(r) BY <2>13 DEF Stop
  <2> QED BY <2>1, <2>2, <2>3, <2>4, <2>5, <2>6, <2>7, <2>8, <2>9, <2>10, <2>11, <2>12, <2>13 DEF Drive
<1> QED BY <1>0, <1>2, <1>3 DEF TypeOK

\* What is known of the other runs stays known.
LEMMA OthersKnow ==
  ASSUME GatewayInvariant, NEW r \in Runs, Drive(r) \/ Stop(r), NEW q \in Runs \ {r}
  PROVE  RunKnows(q)'
<1>1. RunKnows(q) BY DEF GatewayInvariant
<1>2. OthersStay(r) /\ evidence \subseteq evidence' BY StepIsOwn
<1>3. HasGate(q)' <=> HasGate(q)
  <2>1. KernelStep(r) BY StepOnKernel
  <2> QED BY <2>1, GateIsKept
<1> QED BY <1>1, <1>2, <1>3 DEF OthersStay, RunKnows

\* What a run knows follows its steps.
LEMMA OwnKnows ==
  ASSUME GatewayInvariant, NEW r \in Runs, Drive(r) \/ Stop(r)
  PROVE  RunKnows(r)'
<1> USE DEF Goes, Returns, kernelVars
<1>0. /\ RunKnows(r)
      /\ step \in [Runs -> Steps] /\ found \in [Runs -> Nullable(Statuses)]
      /\ outcome \in [Runs -> Nullable(Outcomes)] /\ gate \in [Greenlights -> Nullable(Runs)]
      /\ evidence \subseteq Runs /\ effect \in [Runs -> Nat] /\ reports \in [Runs -> Seq(Statuses)]
      /\ GreenlightOf[r] \in Greenlights
  BY DEF GatewayInvariant, TypeOK
<1> USE <1>0
<1>a. ASSUME NEW status \in Statuses, reports' = [reports EXCEPT ![r] = Append(@, status)]
      PROVE  reports'[r] # <<>> /\ Len(reports'[r]) = Len(reports[r]) + 1
  <2>1. reports[r] \in Seq(Statuses) /\ reports'[r] = Append(reports[r], status) BY <1>a
  <2>2. Len(reports'[r]) = Len(reports[r]) + 1 /\ Len(reports[r]) \in Nat BY <2>1, AppendProperties, LenProperties
  <2>3. Len(reports'[r]) # 0 BY <2>2
  <2> QED BY <2>2, <2>3, EmptySeq
<1>b. Len(<<>>) = 0 OBVIOUS
<1>1. CASE GatePasses(r)
  <2>1. PICK next \in AfterGate(KindOf[r]) : Goes(r, "check", next) BY <1>1 DEF GatePasses
  <2>2. next \in {"execute", "resolve", "refuse"} /\ (next = "execute" => KindOf[r] = "local")
    BY DEF AfterGate, Kinds
  <2>3. effect[r] = 0 /\ reports[r] = <<>> /\ outcome[r] = None BY <2>1 DEF RunKnows
  <2>4. HasGate(r)' BY <1>1 DEF GatePasses, Admitted, HasGate
  <2> QED BY <1>1, <2>1, <2>2, <2>3, <2>4, <1>b DEF GatePasses, RunKnows, Open
<1>2. CASE GateRefused(r)
  <2>1. effect[r] = 0 /\ reports[r] = <<>> BY <1>2 DEF GateRefused, RunKnows
  <2> QED BY <1>2, <2>1, <1>b DEF GateRefused, RunKnows, Open
<1>3. CASE GateThrows(r)
  <2>1. effect[r] = 0 /\ reports[r] = <<>> BY <1>3 DEF GateThrows, RunKnows
  <2> QED BY <1>3, <2>1, <1>b DEF GateThrows, RunKnows, Open
<1>4. CASE ResolveCredential(r) BY <1>4 DEF ResolveCredential, RunKnows, HasGate, Open
<1>5. CASE ResolveThrows(r) BY <1>5, <1>b DEF ResolveThrows, RunKnows, HasGate, Open
<1>6. CASE Execute(r)
  <2>1. PICK answer \in SurfaceAnswers(KindOf[r]) :
          /\ found' = [found EXCEPT ![r] = answer[1]]
          /\ effect' = [effect EXCEPT ![r] = @ + answer[2]]
    BY <1>6 DEF Execute
  <2>2. /\ answer[1] \in Statuses \ {"failed"}
        /\ answer[2] \in {0, 1}
        /\ answer[1] = "succeeded" => answer[2] = 1
    BY SurfaceAnswersAreReal
  <2>3. found'[r] \notin {None, "failed"} /\ (found'[r] = "succeeded" => effect'[r] = 1)
    BY <1>6, <2>1, <2>2 DEF Execute, RunKnows
  <2> QED BY <1>6, <2>3 DEF Execute, RunKnows, HasGate, Open
<1>7. CASE ExecuteThrows(r) BY <1>7, <1>b DEF ExecuteThrows, RunKnows, HasGate, Open
<1>8. CASE Report(r)
  <2>1. found[r] \in Statuses BY <1>8 DEF Report, RunKnows, Nullable
  <2>2. Len(reports'[r]) <= 2
    BY <1>8, <1>a, <1>b, <2>1 DEF Report, Reconciled, ObservedStatus, RunKnows, Open
  <2>3. /\ gate' = gate /\ effect' = effect /\ evidence' = evidence
        /\ step[r] = "report" /\ step'[r] = "returned"
    BY <1>8 DEF Report, Reconciled
  <2>4. HasGate(r)' BY <2>3 DEF RunKnows, HasGate, Open
  <2> QED BY <2>2, <2>3, <2>4 DEF RunKnows, Open
<1>9. CASE ReportThrows(r)
  <2>1. found[r] \in Statuses BY <1>9 DEF ReportThrows, RunKnows, Nullable
  <2>0. reports[r] = <<>> /\ Len(reports[r]) = 0 BY <1>9, <1>b DEF ReportThrows, RunKnows, Open
  <2>2. Len(reports'[r]) <= 1
    <3>1. CASE reports' = reports BY <2>0, <3>1
    <3>2. CASE reports' = [reports EXCEPT ![r] = Append(@, found[r])] BY <1>a, <2>0, <2>1, <3>2
    <3> QED BY <1>9, <3>1, <3>2 DEF ReportThrows, Reconciled, ObservedStatus
  <2>3. /\ gate' = gate /\ effect' = effect /\ evidence' = evidence /\ outcome' = outcome
        /\ step[r] = "report" /\ step'[r] = "catch"
    BY <1>9 DEF ReportThrows, Reconciled
  <2>4. HasGate(r)' BY <2>3 DEF RunKnows, HasGate, Open
  <2> QED BY <2>2, <2>3, <2>4 DEF RunKnows, Open
<1>10. CASE RefuseUnsafe(r)
  <2>1. Len(reports'[r]) <= 2
    BY <1>10, <1>a, <1>b DEF RefuseUnsafe, Reconciled, RunKnows, Open, Statuses
  <2> QED BY <1>10, <2>1 DEF RefuseUnsafe, Reconciled, RunKnows, HasGate, Open
<1>11. CASE ReportFailure(r)
  <2>1. Len(reports'[r]) <= 2
    BY <1>11, <1>a DEF ReportFailure, Reconciled, RunKnows, Statuses
  <2> QED BY <1>11, <2>1 DEF ReportFailure, Reconciled, RunKnows, HasGate, Open
<1>12. CASE LastReportThrows(r)
  <2>1. Len(reports'[r]) <= 2
    BY <1>12, <1>a, <1>b DEF LastReportThrows, Reconciled, RunKnows, Statuses, Open
  <2> QED BY <1>12, <2>1 DEF LastReportThrows, Reconciled, RunKnows, HasGate, Open
<1>13. CASE Stop(r) BY <1>13 DEF Stop, RunKnows, HasGate, Open, Ended, Steps
<1> QED BY <1>1, <1>2, <1>3, <1>4, <1>5, <1>6, <1>7, <1>8, <1>9, <1>10, <1>11, <1>12, <1>13 DEF Drive

\* A surface that saw two reports of one operation has seen them for good.
LEMMA ReportedTwiceIsKept ==
  ASSUME GatewayInvariant, NEW r \in Runs, KernelStep(r), NEW s \in Surfaces, ReportedTwice(s)
  PROVE  ReportedTwice(s)'
<1>1. PICK q \in Runs : Surface(q) = s /\ Len(reports[q]) > 1 BY DEF ReportedTwice
<1>2. reports \in [Runs -> Seq(Statuses)] BY DEF GatewayInvariant, TypeOK
<1>3. Len(reports'[q]) > 1
  <2>1. CASE reports' = reports BY <1>1, <2>1
  <2>2. CASE \E status \in Statuses : Reconciled(r, status)
    <3>1. PICK status \in Statuses : reports' = [reports EXCEPT ![r] = Append(@, status)]
      BY <2>2 DEF Reconciled
    <3>2. Len(Append(reports[q], status)) = Len(reports[q]) + 1 /\ Len(reports[q]) \in Nat
      BY <1>2, AppendProperties, LenProperties
    <3> QED BY <1>1, <1>2, <3>1, <3>2
  <2> QED BY <2>1, <2>2 DEF KernelStep
<1> QED BY <1>1, <1>3 DEF ReportedTwice, Surface

\* Operations keep their surface over every step of every run.
LEMMA SurfaceKept ==
  ASSUME GatewayInvariant, NEW r \in Runs, Drive(r) \/ Stop(r), NEW q \in Runs
  PROVE  KeepsItsSurface(q)'
<1> DEFINE s == Surface(q)
<1>1. KernelStep(r) /\ s \in Surfaces BY StepOnKernel DEF Surface
<1>2. /\ KeepsItsSurface(q) /\ KeepsItsSurface(r) /\ RunKnows(r) /\ RunKnows(r)'
      /\ gate \in [Greenlights -> Nullable(Runs)] /\ claim \in [Surfaces -> Nullable(ClaimRecords)]
      /\ reports \in [Runs -> Seq(Statuses)]
  BY OwnKnows DEF GatewayInvariant, TypeOK
<1>3. ReportedTwice(s) => ReportedTwice(s)' BY <1>1, ReportedTwiceIsKept
<1>4. SUFFICES ASSUME HasGate(q)', reports'[q] = <<>>, ~ReportedTwice(s)'
               PROVE  claim'[s] # None /\ claim'[s].run = q
  BY DEF KeepsItsSurface, Surface
<1>5. CASE UNCHANGED <<kernelVars, reports>>
  BY <1>2, <1>3, <1>4, <1>5 DEF KeepsItsSurface, HasGate, kernelVars
<1>6. CASE Admitted(r) /\ UNCHANGED reports
  <2>1. CASE q = r
    <3>1. claim'[s] = [run |-> r, state |-> "active"] BY <1>1, <1>2, <1>6, <2>1 DEF Admitted
    <3>2. [run |-> r, state |-> "active"] \in ClaimRecords BY DEF ClaimRecords
    <3> QED BY <2>1, <3>1, <3>2
  <2>2. CASE q # r
    <3>1. HasGate(q) BY <1>1, <1>4, <2>2, GateIsKept
    <3>2. claim[s] # None BY <1>2, <1>3, <1>4, <1>6, <3>1 DEF KeepsItsSurface
    <3>3. Surface(r) # s BY <1>6, <3>2 DEF Admitted, Free
    <3> QED BY <1>1, <1>2, <1>3, <1>4, <1>6, <3>1, <3>3 DEF Admitted, KeepsItsSurface
  <2> QED BY <2>1, <2>2
<1>7. CASE \E status \in Statuses : Reconciled(r, status) /\ HasGate(r)
  <2>1. PICK status \in Statuses : Reconciled(r, status) BY <1>7
  <2>2. reports'[r] = Append(reports[r], status) /\ reports'[r] # <<>>
    <3>1. reports'[r] = Append(reports[r], status) BY <1>2, <2>1 DEF Reconciled
    <3>2. Len(reports'[r]) = Len(reports[r]) + 1 /\ Len(reports[r]) \in Nat
      BY <1>2, <3>1, AppendProperties, LenProperties
    <3>3. Len(reports'[r]) # 0 BY <3>2
    <3>4. Len(<<>>) = 0 OBVIOUS
    <3>5. reports'[r] # <<>> BY <3>3, <3>4
    <3> QED BY <3>1, <3>5
  <2>3. q # r BY <1>4, <2>2
  <2>4. HasGate(q) /\ reports[q] = <<>>
    BY <1>1, <1>2, <1>4, <2>1, <2>3, GateIsKept DEF Reconciled
  <2>5. claim[s] # None /\ claim[s].run = q BY <1>2, <1>3, <1>4, <2>4 DEF KeepsItsSurface
  <2>6. Surface(r) # s
    <3>1. SUFFICES ASSUME Surface(r) = s PROVE FALSE OBVIOUS
    <3>2. reports[r] # <<>> BY <1>2, <1>3, <1>4, <1>7, <2>3, <2>5, <3>1 DEF KeepsItsSurface
    <3>a. reports[r] \in Seq(Statuses) BY <1>2
    <3>3. Len(reports[r]) \in Nat /\ Len(reports[r]) # 0 BY <3>a, <3>2, LenProperties, EmptySeq
    <3>4. Len(reports'[r]) = Len(reports[r]) + 1 BY <1>2, <2>2, AppendProperties
    <3>5. Len(reports'[r]) > 1 BY <3>3, <3>4
    <3> QED BY <1>4, <3>1, <3>5 DEF ReportedTwice, Surface
  <2> QED BY <1>1, <1>2, <2>1, <2>5, <2>6 DEF Reconciled, Surface
<1> QED BY <1>1, <1>5, <1>6, <1>7 DEF KernelStep

\* The surface acts for the one run whose gate passed, on credentials of record.
LEMMA EffectsKept ==
  ASSUME GatewayInvariant, NEW r \in Runs, Drive(r) \/ Stop(r)
  PROVE  EffectsFollowTheirGate'
<1>1. OthersStay(r) /\ evidence \subseteq evidence' BY StepIsOwn
<1>2. KernelStep(r) BY StepOnKernel
<1>3. SUFFICES ASSUME NEW q \in Runs, effect'[q] > 0
               PROVE  effect'[q] = 1 /\ HasGate(q)' /\ (KindOf[q] # "local" => q \in evidence')
  BY DEF EffectsFollowTheirGate, HasGate
<1>4. RunKnows(q)' BY OwnKnows, OthersKnow
<1>5. HasGate(q)' /\ (KindOf[q] # "local" => q \in evidence') BY <1>3, <1>4 DEF RunKnows
<1>6. effect'[q] = 1
  <2>1. CASE effect'[q] = effect[q] BY <1>3, <2>1 DEF GatewayInvariant, EffectsFollowTheirGate
  <2>2. CASE q = r /\ \E n \in {0, 1} : effect'[r] = effect[r] + n /\ effect[r] = 0 BY <1>3, <2>2
  <2>3. \/ effect'[q] = effect[q]
        \/ q = r /\ \E n \in {0, 1} : effect'[r] = effect[r] + n /\ effect[r] = 0
    <3> USE DEF kernelVars, Goes, Returns
    <3>1. CASE q # r BY <1>1, <3>1 DEF OthersStay
    <3>2. CASE q = r /\ Execute(r)
      <4>1. PICK answer \in SurfaceAnswers(KindOf[r]) : effect' = [effect EXCEPT ![r] = @ + answer[2]]
        BY <3>2 DEF Execute
      <4>2. answer[2] \in {0, 1} BY SurfaceAnswersAreReal
      <4>3. step[r] = "execute" BY <3>2 DEF Execute
      <4> QED BY <3>2, <4>1, <4>2, <4>3 DEF GatewayInvariant, TypeOK, RunKnows
    <3>3. CASE q = r /\ ExecuteThrows(r)
      BY <3>3 DEF ExecuteThrows, GatewayInvariant, TypeOK, RunKnows
    <3>4. CASE ~Execute(r) /\ ~ExecuteThrows(r)
      BY <3>4 DEF Drive, Stop, GatePasses, GateRefused, GateThrows, ResolveCredential, ResolveThrows,
                  Report, ReportThrows, RefuseUnsafe, ReportFailure, LastReportThrows
    <3> QED BY <3>1, <3>2, <3>3, <3>4
  <2> QED BY <2>1, <2>2, <2>3
<1> QED BY <1>5, <1>6

\* Success is told of what has happened, and what has happened stays.
LEMMA SuccessKept ==
  ASSUME GatewayInvariant, NEW r \in Runs, Drive(r) \/ Stop(r)
  PROVE  ReportedSuccessHappened'
<1>1. OthersStay(r) BY StepIsOwn
<1>2. KernelStep(r) BY StepOnKernel
<1>3. TypeOK /\ ReportedSuccessHappened /\ RunKnows(r) /\ GreenlightOf[r] \in Greenlights
  BY DEF GatewayInvariant
<1>4. ASSUME NEW q \in Runs, effect[q] = 1 PROVE effect'[q] = 1
  <2>1. EffectsFollowTheirGate' /\ TypeOK' BY EffectsKept, TypeKept
  <2>2. effect'[q] >= 1
    <3> USE DEF kernelVars, Goes, Returns
    <3>1. CASE q # r BY <1>1, <1>4, <3>1 DEF OthersStay
    <3>2. CASE q = r /\ (Execute(r) \/ ExecuteThrows(r))
      BY <1>3, <1>4, <3>2 DEF Execute, ExecuteThrows, RunKnows
    <3>3. CASE ~Execute(r) /\ ~ExecuteThrows(r)
      BY <1>4, <3>3 DEF Drive, Stop, GatePasses, GateRefused, GateThrows, ResolveCredential, ResolveThrows,
                  Report, ReportThrows, RefuseUnsafe, ReportFailure, LastReportThrows
    <3> QED BY <3>1, <3>2, <3>3
  <2> QED BY <2>1, <2>2 DEF EffectsFollowTheirGate, TypeOK
<1>5. ASSUME NEW g \in Greenlights, ledger'[g] = "succeeded"
      PROVE  gate'[g] # None /\ effect'[gate'[g]] = 1
  <2>1. CASE ledger[g] = "succeeded"
    <3>1. gate[g] # None /\ effect[gate[g]] = 1 /\ gate[g] \in Runs
      BY <1>3, <2>1 DEF ReportedSuccessHappened, TypeOK, Nullable
    <3>2. gate'[g] = gate[g] BY <1>2, <3>1, GateIsKept
    <3> QED BY <1>4, <3>1, <3>2
  <2>2. CASE ledger[g] # "succeeded"
    <3>1. ~UNCHANGED <<kernelVars, reports>> BY <1>5, <2>2 DEF kernelVars
    <3>2. ~Admitted(r) BY <1>3, <1>5, <2>2 DEF Admitted, TypeOK
    <3>3. PICK status \in Statuses : Reconciled(r, status) /\ HasGate(r) /\ (status = "succeeded" => effect[r] = 1)
      BY <1>2, <3>1, <3>2 DEF KernelStep
    <3>4. g = GreenlightOf[r] /\ status = "succeeded"
      BY <1>3, <1>5, <2>2, <3>3 DEF Reconciled, TypeOK
    <3>5. gate'[g] = r BY <3>3, <3>4 DEF Reconciled, HasGate
    <3> QED BY <1>4, <3>3, <3>4, <3>5
  <2> QED BY <2>1, <2>2
<1>6. ASSUME NEW q \in Runs, outcome'[q] = "reconciled" PROVE effect'[q] = 1
  <2>1. CASE outcome[q] = "reconciled" BY <1>3, <1>4, <2>1 DEF ReportedSuccessHappened
  <2>2. CASE outcome[q] # "reconciled"
    <3>1. q = r BY <1>1, <1>6, <2>2 DEF OthersStay
    <3>2. Report(r) /\ found[r] = "succeeded"
      BY <1>3, <1>6, <2>2, <3>1 DEF TypeOK, Drive, Stop, GatePasses, GateRefused, GateThrows, ResolveCredential,
           ResolveThrows, Execute, ExecuteThrows, Report, ReportThrows, RefuseUnsafe, ReportFailure,
           LastReportThrows, Goes, Returns, OutcomeFor, ObservedStatus
    <3>3. effect[r] = 1 BY <1>3, <3>2 DEF Report, Returns, RunKnows
    <3> QED BY <1>4, <3>1, <3>3
  <2> QED BY <2>1, <2>2
<1> QED BY <1>5, <1>6 DEF ReportedSuccessHappened

\* A told outcome is the ledger's when it is told, and nobody writes that entry
\* afterwards: only the run admitted for a greenlight reports on it.
LEMMA TellingKept ==
  ASSUME GatewayInvariant, NEW r \in Runs, Drive(r) \/ Stop(r)
  PROVE  CallersAreToldTheLedger' /\ TellersHaveTheGate'
<1> DEFINE Told == {"reconciled", "refused", "failed", "proof_gap"}
<1>1. OthersStay(r) /\ KernelStep(r) /\ TypeOK' BY StepIsOwn, StepOnKernel, TypeKept
<1>2. TypeOK /\ CallersAreToldTheLedger /\ TellersHaveTheGate BY DEF GatewayInvariant
<1>3. \A q \in Runs : HasGate(q) => HasGate(q)'
  BY <1>1, <1>2, GateIsKept DEF HasGate, TypeOK
<1>4. ASSUME NEW q \in Runs \ {r}, outcome[q] \in Told
      PROVE  ledger'[GreenlightOf[q]] = ledger[GreenlightOf[q]]
  <2>1. HasGate(q) BY <1>2, <1>4 DEF TellersHaveTheGate
  <2>2. CASE UNCHANGED <<kernelVars, reports>> BY <2>2 DEF kernelVars
  <2>3. CASE Admitted(r)
    <3>1. GreenlightOf[q] # GreenlightOf[r] BY <2>1, <2>3 DEF Admitted, Free, HasGate
    <3> QED BY <1>2, <2>3, <3>1 DEF Admitted, TypeOK
  <2>4. CASE \E status \in Statuses : Reconciled(r, status) /\ HasGate(r)
    <3>1. GreenlightOf[q] # GreenlightOf[r] BY <2>1, <2>4 DEF HasGate
    <3> QED BY <1>2, <2>4, <3>1 DEF Reconciled, TypeOK
  <2> QED BY <1>1, <2>2, <2>3, <2>4 DEF KernelStep
<1>5. \/ outcome'[r] = outcome[r] /\ outcome[r] = None
      \/ outcome'[r] = "gateway_check_refused"
      \/ /\ outcome'[r] \in Told
         /\ ledger'[GreenlightOf[r]] \in ToldBy(outcome'[r])
         /\ HasGate(r)
  <2>1. RunKnows(r) /\ GreenlightOf[r] \in Greenlights BY DEF GatewayInvariant
  <2>2. outcome[r] = None
    BY <2>1 DEF RunKnows, Drive, Stop, GatePasses, GateRefused, GateThrows, ResolveCredential, ResolveThrows,
       Execute, ExecuteThrows, Report, ReportThrows, RefuseUnsafe, ReportFailure, LastReportThrows, Goes, Returns, Ended
  <2>3. CASE GateRefused(r) BY <1>2, <2>3 DEF GateRefused, Returns, TypeOK
  <2>4. CASE Report(r)
    <3>1. found[r] \in Statuses /\ HasGate(r)
      BY <1>2, <2>1, <2>4 DEF Report, Returns, RunKnows, TypeOK, Nullable, Open
    <3>2. outcome'[r] = OutcomeFor(found[r]) /\ ledger'[GreenlightOf[r]] = found[r]
      BY <1>2, <2>1, <2>4 DEF Report, Returns, Reconciled, ObservedStatus, TypeOK
    <3>3. found[r] # "failed" BY <2>1, <2>4 DEF RunKnows, Report, Returns
    <3> QED BY <3>1, <3>2, <3>3 DEF OutcomeFor, ToldBy, Statuses
  <2>5. CASE RefuseUnsafe(r)
    BY <1>2, <2>1, <2>5 DEF RefuseUnsafe, Returns, Reconciled, TypeOK, ToldBy, RunKnows, Open
  <2>6. CASE ReportFailure(r)
    BY <1>2, <2>1, <2>6 DEF ReportFailure, Returns, Reconciled, TypeOK, ToldBy, RunKnows, Open
  <2> QED BY <2>2, <2>3, <2>4, <2>5, <2>6 DEF Drive, Stop, GatePasses, GateThrows, ResolveCredential,
       ResolveThrows, Execute, ExecuteThrows, ReportThrows, LastReportThrows, Goes
<1>6. ASSUME NEW q \in Runs PROVE outcome'[q] \in Told => HasGate(q)'
  BY <1>1, <1>2, <1>3, <1>5 DEF OthersStay, TellersHaveTheGate
<1>7. ASSUME NEW q \in Runs, outcome'[q] # None
      PROVE  ledger'[GreenlightOf[q]] \in ToldBy(outcome'[q])
  <2>1. CASE outcome'[q] \in Told
    BY <1>1, <1>2, <1>4, <1>5, <1>7, <2>1 DEF OthersStay, CallersAreToldTheLedger
  <2>2. CASE outcome'[q] \notin Told
    <3>1. outcome'[q] = "gateway_check_refused" BY <1>1, <1>7, <2>2 DEF TypeOK, Nullable, Outcomes
    <3> QED BY <1>1, <3>1 DEF ToldBy, TypeOK
  <2> QED BY <2>1, <2>2
<1> QED BY <1>6, <1>7 DEF CallersAreToldTheLedger, TellersHaveTheGate, HasGate

\* The invariant holds of every behaviour: what a run knows, what the kernel
\* holds for it, and what the surface did.
THEOREM GatewayKept == Spec => []GatewayInvariant
<1>1. ASSUME GatewayInvariant, [Next]_vars PROVE GatewayInvariant'
  <2>1. CASE Next
    <3>1. PICK r \in Runs : Drive(r) \/ Stop(r) BY <2>1 DEF Next
    <3>2. /\ TypeOK' /\ EffectsFollowTheirGate' /\ ReportedSuccessHappened'
          /\ CallersAreToldTheLedger' /\ TellersHaveTheGate'
      BY <1>1, <3>1, TypeKept, EffectsKept, SuccessKept, TellingKept
    <3>3. ASSUME NEW q \in Runs PROVE RunKnows(q)' /\ KeepsItsSurface(q)'
      BY <1>1, <3>1, OwnKnows, OthersKnow, SurfaceKept
    <3> QED BY <3>2, <3>3 DEF GatewayInvariant
  <2>2. CASE UNCHANGED vars
    BY <1>1, <2>2 DEF vars, kernelVars, GatewayInvariant, TypeOK, RunKnows, KeepsItsSurface, HasGate,
       ReportedTwice, EffectsFollowTheirGate, ReportedSuccessHappened, CallersAreToldTheLedger, TellersHaveTheGate
  <2> QED BY <1>1, <2>1, <2>2
<1> QED BY <1>1, GatewayInit, PTL DEF Spec

\* A surface takes effect at most once for a greenlight, for the run whose gate
\* passed, after its credential use was recorded.
THEOREM EffectsFollow == Spec => []EffectsFollowTheirGate
<1>1. GatewayInvariant => EffectsFollowTheirGate BY DEF GatewayInvariant
<1> QED BY <1>1, GatewayKept, PTL

\* What the ledger and callers are told succeeded has happened.
THEOREM SuccessHappened == Spec => []ReportedSuccessHappened
<1>1. GatewayInvariant => ReportedSuccessHappened BY DEF GatewayInvariant
<1> QED BY <1>1, GatewayKept, PTL

\* What a run told its caller the ledger goes on saying (wallet-gateway.ts:332).
THEOREM CallersAreTold == Spec => []CallersAreToldTheLedger
<1>1. GatewayInvariant => CallersAreToldTheLedger BY DEF GatewayInvariant
<1> QED BY <1>1, GatewayKept, PTL

\* Two unreported operations on one surface mean that one there was reported twice.
THEOREM OneAtATime == Spec => []OneOperationAtATime
<1>1. ASSUME GatewayInvariant PROVE OneOperationAtATime
  <2>1. ASSUME NEW r \in Runs, step[r] \in Open, reports[r] = <<>>
        PROVE  ReportedTwice(Surface(r)) \/ claim[Surface(r)].run = r
    BY <1>1, <2>1 DEF GatewayInvariant, RunKnows, KeepsItsSurface
  <2> QED BY <2>1 DEF OneOperationAtATime
<1> QED BY <1>1, GatewayKept, PTL

=============================================================================
