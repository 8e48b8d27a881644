---------------------------- MODULE SurfaceGateways ----------------------------
(***************************************************************************)
(* The gateways that carry out what the kernel admits: x402 payments,       *)
(* auth.md API calls, package installs, repository writes and preview       *)
(* deployments.  A run is one call of an adapter's run...Gateway: it asks    *)
(* the kernel for the gate, records what credential it uses, calls the      *)
(* protected surface, and reports to the kernel what became of it.  Each of *)
(* these awaits may be lost: it throws, and may have landed all the same;   *)
(* and the host may stop anywhere.                                          *)
(*                                                                          *)
(* The kernel is as AuthorityKernel has it, one step a transition; ledger   *)
(* keys and greenlights are one.                                            *)
(***************************************************************************)
EXTENDS Naturals, Sequences

CONSTANTS
  Runs,          \* calls of a gateway, retries of a caller among them
  Greenlights,
  Surfaces,
  GreenlightOf,  \* run -> the greenlight it is called with
  SurfaceOf,     \* greenlight -> the surface claim key of its contract
  KindOf,        \* run -> its adapter
  None           \* null

VARIABLES
  step,          \* what each run does next
  found,         \* the status the surface answered a run
  outcome,       \* what a run told its caller
  gate,          \* greenlight -> the run whose mutation it admitted
  claim,         \* surface -> the operation it is claimed for
  ledger,        \* greenlight -> state of its idempotency ledger entry
  evidence,      \* runs with credential_resolution_evidence
  effect,        \* run -> how often its surface took effect
  reports        \* run -> the reconciliations it left, in order

kernelVars == <<gate, claim, ledger>>
vars == <<step, found, outcome, kernelVars, evidence, effect, reports>>

Nullable(S) == S \cup {None}
Kinds == {"local", "x402", "auth_md"}
Statuses == {"succeeded", "refused", "failed", "unknown"}
Steps == {"check", "resolve", "execute", "report", "refuse", "catch",
          "returned", "threw", "stopped"}
Ended == {"returned", "threw", "stopped"}
Outcomes == {"gateway_check_refused", "reconciled", "refused", "failed", "proof_gap"}
ClaimRecords == [run : Runs, state : {"active", "terminal_unknown"}]
LedgerStates == {"authority_reserved", "mutation_started"} \cup Statuses

ASSUME GatewayConstants ==
  /\ GreenlightOf \in [Runs -> Greenlights]
  /\ SurfaceOf \in [Greenlights -> Surfaces]
  /\ KindOf \in [Runs -> Kinds]
  /\ None \notin Runs \cup ClaimRecords \cup Statuses \cup Outcomes

Surface(r) == SurfaceOf[GreenlightOf[r]]

TypeOK ==
  /\ step \in [Runs -> Steps]
  /\ found \in [Runs -> Nullable(Statuses)]
  /\ outcome \in [Runs -> Nullable(Outcomes)]
  /\ gate \in [Greenlights -> Nullable(Runs)]
  /\ claim \in [Surfaces -> Nullable(ClaimRecords)]
  /\ ledger \in [Greenlights -> LedgerStates]
  /\ evidence \subseteq Runs
  /\ effect \in [Runs -> Nat]
  /\ reports \in [Runs -> Seq(Statuses)]

\* The greenlights are issued and their ledger keys reserved.
Init ==
  /\ step = [r \in Runs |-> "check"]
  /\ found = [r \in Runs |-> None]
  /\ outcome = [r \in Runs |-> None]
  /\ gate = [g \in Greenlights |-> None]
  /\ claim = [s \in Surfaces |-> None]
  /\ ledger = [g \in Greenlights |-> "authority_reserved"]
  /\ evidence = {}
  /\ effect = [r \in Runs |-> 0]
  /\ reports = [r \in Runs |-> <<>>]

Goes(r, from, to) ==
  /\ step[r] = from
  /\ step' = [step EXCEPT ![r] = to]
  /\ UNCHANGED outcome

Returns(r, from, what) ==
  /\ step[r] = from
  /\ step' = [step EXCEPT ![r] = "returned"]
  /\ outcome' = [outcome EXCEPT ![r] = what]

(***************************************************************************)
(* The gate                                                                 *)
(***************************************************************************)
\* A kernel that lets an operation in beside another.
FreeGreenlight(r) == gate[GreenlightOf[r]] = None

\* A kernel that does not keep consumptions.
FreeSurface(r) == claim[Surface(r)] = None

\* The greenlight is unconsumed and the surface unclaimed.
Free(r) ==
  /\ gate[GreenlightOf[r]] = None
  /\ claim[Surface(r)] = None

\* gatewayCheck admits the mutation of r.
Admitted(r) ==
  /\ Free(r)
  /\ gate' = [gate EXCEPT ![GreenlightOf[r]] = r]
  /\ claim' = [claim EXCEPT ![Surface(r)] = [run |-> r, state |-> "active"]]
  /\ ledger' = [ledger EXCEPT ![GreenlightOf[r]] = "mutation_started"]

\* auth.md refuses unsafe observed parameters; those who use a credential go on
\* to record it.
AfterGate(kind) ==
  CASE kind = "local" -> {"execute"}
    [] kind = "x402" -> {"resolve"}
    [] kind = "auth_md" -> {"refuse", "resolve"}

\* verifiedGatewayCheckFromResult is not null.
GatePasses(r) ==
  /\ Admitted(r)
  /\ \E next \in AfterGate(KindOf[r]) : Goes(r, "check", next)
  /\ UNCHANGED <<found, evidence, effect, reports>>

\* It is null: gatewayCheck refused, or D1 admitted and said it was a replay.
GateRefused(r) ==
  /\ Returns(r, "check", "gateway_check_refused")
  /\ UNCHANGED kernelVars \/ Admitted(r)
  /\ UNCHANGED <<found, evidence, effect, reports>>

\* gatewayCheck throws, landed or not; nothing catches it.
GateThrows(r) ==
  /\ Goes(r, "check", "threw")
  /\ UNCHANGED kernelVars \/ Admitted(r)
  /\ UNCHANGED <<found, evidence, effect, reports>>

(***************************************************************************)
(* Credential and surface                                                   *)
(***************************************************************************)

\* recordCredentialResolutionEvidence
ResolveCredential(r) ==
  /\ Goes(r, "resolve", "execute")
  /\ evidence' = evidence \cup {r}
  /\ UNCHANGED <<found, kernelVars, effect, reports>>

ResolveThrows(r) ==
  /\ Goes(r, "resolve", "catch")
  /\ evidence' \in {evidence, evidence \cup {r}}
  /\ UNCHANGED <<found, kernelVars, effect, reports>>

\* What a surface may answer, by adapter, with or without effect.
SurfaceAnswers(kind) ==
  {<<"succeeded", 1>>}
    \cup (IF kind = "local" THEN {} ELSE {<<"unknown", 0>>, <<"unknown", 1>>})
    \cup (IF kind = "auth_md" THEN {<<"refused", 0>>} ELSE {})

\* The surface answers with evidence that passes the adapter's own checks.
Execute(r) ==
  /\ Goes(r, "execute", "report")
  /\ \E answer \in SurfaceAnswers(KindOf[r]) :
       /\ found' = [found EXCEPT ![r] = answer[1]]
       /\ effect' = [effect EXCEPT ![r] = @ + answer[2]]
  /\ UNCHANGED <<kernelVars, evidence, reports>>

\* It throws, or its evidence carries credential material, or its answer is
\* lost: with effect or without.
ExecuteThrows(r) ==
  /\ Goes(r, "execute", "catch")
  /\ \E happened \in {0, 1} : effect' = [effect EXCEPT ![r] = @ + happened]
  /\ UNCHANGED <<found, kernelVars, evidence, reports>>

(***************************************************************************)
(* The report                                                               *)
(***************************************************************************)
\* What becomes of the claim on the surface of a reported operation, whosever
\* it is by now (currentClaimForContract).
ClaimAfter(r, status) ==
  IF claim[Surface(r)] = None THEN None
  ELSE IF status = "unknown" THEN [claim[Surface(r)] EXCEPT !.state = "terminal_unknown"]
  ELSE None

\* reconcileSurfaceOperation lands.
Reconciled(r, status) ==
  /\ reports' = [reports EXCEPT ![r] = Append(@, status)]
  /\ claim' = [claim EXCEPT ![Surface(r)] = ClaimAfter(r, status)]
  /\ ledger' = [ledger EXCEPT ![GreenlightOf[r]] = status]
  /\ UNCHANGED gate

\* Every answer of a surface is good news.
AssumedStatus(r) == "succeeded"

\* observedDownstreamStatus of the evidence
ObservedStatus(r) == found[r]

OutcomeFor(status) ==
  CASE status = "succeeded" -> "reconciled"
    [] status = "refused" -> "refused"
    [] OTHER -> "proof_gap"

Report(r) ==
  /\ Returns(r, "report", OutcomeFor(ObservedStatus(r)))
  /\ Reconciled(r, ObservedStatus(r))
  /\ UNCHANGED <<found, evidence, effect>>

ReportThrows(r) ==
  /\ Goes(r, "report", "catch")
  /\ \/ UNCHANGED <<kernelVars, reports>>
     \/ Reconciled(r, ObservedStatus(r))
  /\ UNCHANGED <<found, evidence, effect>>

\* The adapter refuses what it observes, before it enters its try block.
RefuseUnsafe(r) ==
  /\ Returns(r, "refuse", "failed")
  /\ Reconciled(r, "refused")
  /\ UNCHANGED <<found, evidence, effect>>

\* A catch block that reports nothing.
SwallowsFailure(r) ==
  /\ Returns(r, "catch", "failed")
  /\ UNCHANGED <<found, kernelVars, evidence, effect, reports>>

\* A catch block that spares a second report.
ReportsFailureOnce(r) ==
  /\ Returns(r, "catch", "failed")
  /\ \/ reports[r] = <<>> /\ Reconciled(r, "failed")
     \/ reports[r] # <<>> /\ UNCHANGED <<kernelVars, reports>>
  /\ UNCHANGED <<found, evidence, effect>>

\* The catch block reports a failure whatever was thrown.
ReportFailure(r) ==
  /\ Returns(r, "catch", "failed")
  /\ Reconciled(r, "failed")
  /\ UNCHANGED <<found, evidence, effect>>

\* Nothing catches what the last report throws.
LastReportThrows(r) ==
  /\ \/ /\ Goes(r, "catch", "threw")
        /\ UNCHANGED <<kernelVars, reports>> \/ Reconciled(r, "failed")
     \/ /\ Goes(r, "refuse", "threw")
        /\ UNCHANGED <<kernelVars, reports>> \/ Reconciled(r, "refused")
  /\ UNCHANGED <<found, evidence, effect>>

\* The host stops.
Stop(r) ==
  /\ step[r] \notin Ended
  /\ Goes(r, step[r], "stopped")
  /\ UNCHANGED <<found, kernelVars, evidence, effect, reports>>

Drive(r) ==
  \/ GatePasses(r)
  \/ GateRefused(r)
  \/ GateThrows(r)
  \/ ResolveCredential(r)
  \/ ResolveThrows(r)
  \/ Execute(r)
  \/ ExecuteThrows(r)
  \/ Report(r)
  \/ ReportThrows(r)
  \/ RefuseUnsafe(r)
  \/ ReportFailure(r)
  \/ LastReportThrows(r)

Next == \E r \in Runs : Drive(r) \/ Stop(r)

Spec == Init /\ [][Next]_vars

\* Every await of a run ends, in an answer or an error.
FairSpec == Spec /\ \A r \in Runs : WF_vars(Drive(r))

(***************************************************************************)
(* Properties                                                               *)
(***************************************************************************)
Open == {"resolve", "execute", "report", "refuse", "catch"}
HasGate(r) == gate[GreenlightOf[r]] = r
ReportedTwice(s) == \E r \in Runs : Surface(r) = s /\ Len(reports[r]) > 1

\* What is known of a run by the step it has come to.
RunKnows(r) ==
  /\ step[r] \in Open \/ effect[r] > 0 \/ reports[r] # <<>> => HasGate(r)
  /\ step[r] = "check" => ~HasGate(r)
  /\ step[r] \in {"check", "resolve", "execute", "refuse"} => effect[r] = 0
  /\ step[r] \in Open \ {"catch"} => reports[r] = <<>>
  /\ Len(reports[r]) <= 2
  /\ step[r] = "catch" => Len(reports[r]) <= 1
  /\ KindOf[r] # "local" /\ (step[r] \in {"execute", "report"} \/ effect[r] > 0) => r \in evidence
  /\ step[r] = "report" =>
       found[r] \notin {None, "failed"} /\ (found[r] = "succeeded" => effect[r] = 1)
  /\ outcome[r] # None => step[r] = "returned"

\* An operation that was admitted keeps its surface until it is reported, unless
\* one on the same surface was reported twice.
KeepsItsSurface(r) ==
  HasGate(r) /\ reports[r] = <<>> =>
    \/ ReportedTwice(Surface(r))
    \/ claim[Surface(r)] # None /\ claim[Surface(r)].run = r

\* The protected surface takes effect at most once for a greenlight, for the run
\* whose gate passed, and after the use of its credential was put on record
\* (verifiedGatewayCheckFromResult, assertGatewayHeldSigningCommand); callers may
\* run a greenlight again after a failure or a crash.
EffectsFollowTheirGate ==
  \A r \in Runs : effect[r] > 0 =>
    /\ effect[r] = 1
    /\ HasGate(r)
    /\ KindOf[r] # "local" => r \in evidence

\* What the ledger and a caller are told succeeded has happened
\* (reconcileSurfaceOperation after the surface's evidence).
ReportedSuccessHappened ==
  /\ \A g \in Greenlights :
       ledger[g] = "succeeded" => gate[g] # None /\ effect[gate[g]] = 1
  /\ \A r \in Runs : outcome[r] = "reconciled" => effect[r] = 1

\* Two operations are under way on one surface only if one there was reported
\* twice: by a catch block after a report that had landed, which releases the
\* claim of whoever came next (currentClaimForContract).
OneOperationAtATime ==
  \A r1, r2 \in Runs :
    /\ r1 # r2 /\ Surface(r1) = Surface(r2)
    /\ step[r1] \in Open /\ reports[r1] = <<>>
    /\ step[r2] \in Open /\ reports[r2] = <<>>
    => ReportedTwice(Surface(r1))

\* What the idempotency ledger says once a caller was told so.
ToldBy(what) ==
  CASE what = "reconciled" -> {"succeeded"}
    [] what = "refused" -> {"refused"}
    [] what = "failed" -> {"failed", "refused"}
    [] what = "proof_gap" -> {"unknown"}
    [] OTHER -> LedgerStates

\* What a run told its caller the ledger goes on saying, however often callers
\* run the greenlight again and whatever was lost on the way: a failure that the
\* catch block tells is a failure of the same mutation in the ledger
\* (wallet-gateway.ts:332), and no later run of the greenlight takes a told
\* outcome back.
CallersAreToldTheLedger ==
  \A r \in Runs : outcome[r] # None => ledger[GreenlightOf[r]] \in ToldBy(outcome[r])

\* A run that told its caller what became of the operation is the one admitted.
TellersHaveTheGate ==
  \A r \in Runs :
    outcome[r] \in {"reconciled", "refused", "failed", "proof_gap"} => HasGate(r)

\* The inductive invariant of the proofs.
GatewayInvariant ==
  /\ TypeOK
  /\ \A r \in Runs : RunKnows(r) /\ KeepsItsSurface(r)
  /\ EffectsFollowTheirGate
  /\ ReportedSuccessHappened
  /\ CallersAreToldTheLedger
  /\ TellersHaveTheGate

\* What the kernel admitted and told the gateway is reported back to it, unless
\* the host stops or the report itself throws (the catch blocks of the gateways).
AdmittedIsReported ==
  <>[](\A r \in Runs : HasGate(r) =>
         \/ reports[r] # <<>>
         \/ step[r] \in {"threw", "stopped"}
         \/ outcome[r] = "gateway_check_refused")
=============================================================================
