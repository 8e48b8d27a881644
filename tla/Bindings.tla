------------------------------- MODULE Bindings -------------------------------
(***************************************************************************)
(* What a contract is bound to, and how policy and the gateway check the    *)
(* bindings: areas/bypass-probe, protected-path-posture, credential-custody *)
(* and delegated-authority, the gateway registry, and the isolation state a *)
(* delegated authority is revoked by.  The authority kernel sees all of it  *)
(* as one fact, "the bindings evaluate ok" (`bound`); here an evaluation    *)
(* takes `now` once and then awaits one store read per binding, while the   *)
(* records it has read, or is about to read, are replaced.                  *)
(*                                                                          *)
(* A digest covers a whole record (but a delegated authority's grantStatus, *)
(* which its digest leaves out), so a digest is the record itself.          *)
(***************************************************************************)
EXTENDS Naturals, Sequences

CONSTANTS
  Probes, Postures,   \* one-shot requests; a record has the name of its request
  Evaluations, Gates, \* requests that evaluate policy, and that check the gate
  Evidences, Packets, \* requests that record evidence, and custody proof packets
  Contracts,
  Paths,              \* protected path scopes
  Kinds,              \* requiredGatewayCheckedBypassProbeKinds
  CredentialIds, AuthorityIds,
  ProbeInputs, PostureInputs, CredentialInputs, AuthorityInputs, RegistryInputs,
  PathOf,             \* contract -> scope of its protected path
  PathRequired,       \* contracts whose requiredProtectedPathState is gateway_checked
  CredentialOf,       \* contract -> the credential ref it pins, or null
  AuthorityOf,        \* contract -> the delegated authority it pins, or null
  RegistryOf,         \* contract -> the gateway registry entry it was proposed under
  MaxTime,            \* the last moment of the run
  None                \* null

VARIABLES
  clock,              \* the time of the kernel
  probe,              \* request -> its bypass_probe
  draft,              \* request -> the posture it has checked and not yet committed
  posture,            \* request -> its protected_path_posture
  current,            \* scope -> its current posture, the last one committed
  credential,         \* id -> the gateway_credential_ref registered under it
  authority,          \* id -> the delegated_authority_ref registered under it
  isolation,          \* authority id -> the current isolation state of its scope
  registry,           \* the gateway_registry_entry of the contracts
  evaluation,         \* request -> what it evaluates and has still to read
  outcome,            \* request -> what it decided
  held,               \* request -> the bindings that held at some moment since it
                      \*   took `now`; a history, no code reads it
  witness,            \* request -> the evidence it has checked and not yet committed
  evidence,           \* request -> its credential_resolution_evidence
  packet              \* request -> its gateway_custody_proof_packet

pathVars == <<probe, draft, posture, current>>
refVars == <<credential, authority, isolation, registry>>
requestVars == <<evaluation, outcome>>
custodyVars == <<witness, evidence, packet>>
vars == <<clock, pathVars, refVars, requestVars, held, custodyVars>>

Times == 0..MaxTime
Nullable(S) == S \cup {None}
Requests == Evaluations \cup Gates
Bindings == {"registry", "isolation", "posture", "authority", "credential"}

ProbeRecords == [path : Paths, kind : Kinds, sound : BOOLEAN, expires : Nat]
\* sound: sourceAuthority, custody and raw sibling status can satisfy a
\* gateway_checked state, which it claims; owned: sourceAuthority is gateway_probe.
PostureMaterial == [path : Paths, sound : BOOLEAN, owned : BOOLEAN, expires : Nat]
PostureRecords == [path : Paths, sound : BOOLEAN, owned : BOOLEAN, expires : Nat,
                   coverage : [Kinds -> Nullable(Probes)], createdAt : Times]
CredentialRecords == [id : CredentialIds, issue : Nat, covers : SUBSET Contracts,
                      held : BOOLEAN, expires : Nat]
AuthorityRecords == [id : AuthorityIds, issue : Nat, covers : SUBSET Contracts,
                     active : BOOLEAN, expires : Nat]
RegistryRecords == [version : Nat, enforces : Nat, compatible : SUBSET Nat]
Evaluating == [contract : Contracts, greenlight : Nullable(Evaluations), now : Times,
               next : 1..6, posture : Nullable(Postures)]
Outcomes == {"open", "refused", "greenlit", "passed"}
EvidenceRecords == [gate : Gates, credential : CredentialRecords]
PacketRecords == [posture : Postures, credential : CredentialRecords]

ASSUME BindingConstants ==
  /\ MaxTime \in Nat
  /\ ProbeInputs \subseteq ProbeRecords
  /\ PostureInputs \subseteq PostureMaterial
  /\ CredentialInputs \subseteq CredentialRecords
  /\ AuthorityInputs \subseteq AuthorityRecords
  /\ RegistryInputs \subseteq RegistryRecords
  /\ PathOf \in [Contracts -> Paths]
  /\ PathRequired \subseteq Contracts
  /\ CredentialOf \in [Contracts -> Nullable(CredentialInputs)]
  /\ AuthorityOf \in [Contracts -> Nullable(AuthorityInputs)]
  /\ RegistryOf \in [Contracts -> RegistryInputs]
  /\ Evaluations \cap Gates = {}

ASSUME BindingNull ==
  /\ None \notin Probes \cup Postures \cup Evaluations \cup Contracts
  /\ None \notin ProbeRecords
  /\ None \notin PostureRecords
  /\ None \notin CredentialRecords
  /\ None \notin AuthorityRecords
  /\ None \notin Evaluating
  /\ None \notin EvidenceRecords
  /\ None \notin PacketRecords

TypeOK ==
  /\ clock \in Times
  /\ probe \in [Probes -> Nullable(ProbeRecords)]
  /\ draft \in [Postures -> Nullable(PostureRecords)]
  /\ posture \in [Postures -> Nullable(PostureRecords)]
  /\ current \in [Paths -> Nullable(Postures)]
  /\ credential \in [CredentialIds -> Nullable(CredentialRecords)]
  /\ authority \in [AuthorityIds -> Nullable(AuthorityRecords)]
  /\ isolation \in [AuthorityIds -> {"active", "revoked"}]
  /\ registry \in RegistryRecords
  /\ evaluation \in [Requests -> Nullable(Evaluating)]
  /\ outcome \in [Requests -> Outcomes]
  /\ held \in [Requests -> SUBSET Bindings]
  /\ witness \in [Evidences -> Nullable(EvidenceRecords)]
  /\ evidence \in [Evidences -> Nullable(EvidenceRecords)]
  /\ packet \in [Packets -> Nullable(PacketRecords)]

\* A contract is proposed only when its credential and authority are registered
\* as it pins them and its gateway's entry is the one it names; the run starts
\* there, with no evidence about any protected path.
Init ==
  /\ clock = 0
  /\ probe = [q \in Probes |-> None]
  /\ draft = [p \in Postures |-> None]
  /\ posture = [p \in Postures |-> None]
  /\ current = [s \in Paths |-> None]
  /\ credential \in [CredentialIds -> CredentialInputs]
  /\ \A c \in Contracts : CredentialOf[c] # None => credential[CredentialOf[c].id] = CredentialOf[c]
  /\ \A i \in CredentialIds : credential[i].id = i
  /\ authority \in [AuthorityIds -> AuthorityInputs]
  /\ \A c \in Contracts : AuthorityOf[c] # None => authority[AuthorityOf[c].id] = AuthorityOf[c]
  /\ \A i \in AuthorityIds : authority[i].id = i
  /\ isolation = [i \in AuthorityIds |-> "active"]
  /\ registry \in {RegistryOf[c] : c \in Contracts}
  /\ evaluation = [r \in Requests |-> None]
  /\ outcome = [r \in Requests |-> "open"]
  /\ held = [r \in Requests |-> {}]
  /\ witness = [w \in Evidences |-> None]
  /\ evidence = [w \in Evidences |-> None]
  /\ packet = [k \in Packets |-> None]

Tick ==
  /\ clock < MaxTime
  /\ clock' = clock + 1
  /\ UNCHANGED <<pathVars, refVars, requestVars, custodyVars>>

(***************************************************************************)
(* Evidence about the protected path                                        *)
(***************************************************************************)
CreateBypassProbe(q, input) ==
  /\ probe[q] = None
  /\ probe' = [probe EXCEPT ![q] = input]
  /\ UNCHANGED <<clock, draft, posture, current, refVars, requestVars, custodyVars>>

\* The probes are not compared with the scope of the posture.
LoadBypassProbesOfAnyScope(coverage, path) ==
  \A k \in Kinds : coverage[k] # None =>
    /\ probe[coverage[k]] # None
    /\ probe[coverage[k]].kind = k
    /\ probe[coverage[k]].expires > clock

\* loadBypassProbes; of two probes of a kind the last covers it.
LoadBypassProbes(coverage, path) ==
  \A k \in Kinds : coverage[k] # None =>
    /\ probe[coverage[k]] # None
    /\ probe[coverage[k]].kind = k
    /\ probe[coverage[k]].path = path
    /\ probe[coverage[k]].expires > clock

\* createProtectedPathPosture up to its commit: createdAt is taken here.
CheckPosture(p, input, coverage) ==
  /\ posture[p] = None
  /\ draft[p] = None
  /\ LoadBypassProbes(coverage, input.path)
  /\ draft' = [draft EXCEPT ![p] =
       [path |-> input.path, sound |-> input.sound, owned |-> input.owned,
        expires |-> input.expires, coverage |-> coverage, createdAt |-> clock]]
  /\ UNCHANGED <<clock, probe, posture, current, refVars, requestVars, custodyVars>>

\* commitProtectedPathPosture: the last commit is current, whatever its createdAt.
CommitPosture(p) ==
  /\ draft[p] # None
  /\ posture' = [posture EXCEPT ![p] = draft[p]]
  /\ current' = [current EXCEPT ![draft[p].path] = p]
  /\ draft' = [draft EXCEPT ![p] = None]
  /\ UNCHANGED <<clock, probe, refVars, requestVars, custodyVars>>

(***************************************************************************)
(* Refs: a registration under an id replaces what is registered there       *)
(***************************************************************************)
RegisterGatewayCredentialRef(input) ==
  /\ credential' = [credential EXCEPT ![input.id] = input]
  /\ UNCHANGED <<clock, pathVars, authority, isolation, registry, requestVars, custodyVars>>

RegisterDelegatedAuthorityRef(input) ==
  /\ authority' = [authority EXCEPT ![input.id] = input]
  /\ UNCHANGED <<clock, pathVars, credential, isolation, registry, requestVars, custodyVars>>

\* transitionDelegatedAuthorityStatus: the ref stays as it is, an isolation
\* state revokes it.
TransitionDelegatedAuthorityStatus(i, nextGrantStatus) ==
  /\ authority[i] # None
  /\ authority[i].active
  /\ nextGrantStatus = "expired" => authority[i].expires <= clock
  /\ isolation' = [isolation EXCEPT ![i] = "revoked"]
  /\ UNCHANGED <<clock, pathVars, credential, authority, registry, requestVars, custodyVars>>

\* createIsolationState for the scope of an authority; "active" lifts a revocation.
CreateIsolationState(i, state) ==
  /\ isolation' = [isolation EXCEPT ![i] = state]
  /\ UNCHANGED <<clock, pathVars, credential, authority, registry, requestVars, custodyVars>>

\* putRecord of another entry under the same id: the kernel's own registration
\* refuses it (putCatalogObject), a host that writes to the store does not.
ReplaceGatewayRegistryEntry(input) ==
  /\ registry' = input
  /\ UNCHANGED <<clock, pathVars, credential, authority, isolation, requestVars, custodyVars>>

(***************************************************************************)
(* Evaluating the bindings                                                  *)
(***************************************************************************)
\* evaluateGatewayCheckedProbeCoverage: no look at when a probe expires.
Covered(p) ==
  \A k \in Kinds : p.coverage[k] # None /\ probe[p.coverage[k]].sound

\* evaluateRequiredProtectedPathPosture
PostureHolds(c, now) ==
  c \in PathRequired =>
    LET p == current[PathOf[c]] IN
    /\ p # None
    /\ posture[p].expires > now
    /\ posture[p].sound
    /\ Covered(posture[p])

\* evaluateGatewayCredentialBinding
CredentialHolds(c, now) ==
  CredentialOf[c] # None =>
    LET ref == credential[CredentialOf[c].id] IN
    /\ ref = CredentialOf[c]
    /\ c \in ref.covers
    /\ ref.expires > now
    /\ ref.held

\* evaluateDelegatedAuthorityBinding; the pinned digest covers the grant status too.
AuthorityHolds(c, now) ==
  AuthorityOf[c] # None =>
    LET ref == authority[AuthorityOf[c].id] IN
    /\ ref = AuthorityOf[c]
    /\ c \in ref.covers
    /\ ref.active
    /\ ref.expires > now

\* The authority_ref scope among isolationScopeRefsForContract
IsolationClear(c) ==
  AuthorityOf[c] # None => isolation[AuthorityOf[c].id] = "active"

\* checkGatewayPolicyDrift: `enforces` stands for the fields a change of which
\* is drift, `compatible` for the versions a stricter one may stand in for.
RegistryHolds(c) ==
  /\ registry.enforces = RegistryOf[c].enforces
  /\ \/ registry.version = RegistryOf[c].version
     \/ RegistryOf[c].version \in registry.compatible

Holds(binding, c, now) ==
  \/ binding = "registry" /\ RegistryHolds(c)
  \/ binding = "isolation" /\ IsolationClear(c)
  \/ binding = "posture" /\ PostureHolds(c, now)
  \/ binding = "authority" /\ AuthorityHolds(c, now)
  \/ binding = "credential" /\ CredentialHolds(c, now)

\* Policy that leaves the delegated authority to the gate.
PolicyReadsNoAuthority == <<"isolation", "posture", "credential">>

\* derivePolicyConstraintEvaluation
PolicyReads == <<"isolation", "posture", "credential", "authority">>

\* A gate that trusts the credential policy has looked at.
GateReadsNoCredential == <<"registry", "isolation", "posture", "authority">>

\* deriveGatewayConstraintEvaluation
GateReads == <<"registry", "isolation", "posture", "authority", "credential">>

ReadsOf(r) == IF r \in Evaluations THEN PolicyReads ELSE GateReads

\* `now` is taken before the first read.
Begin(r, c, greenlight) ==
  /\ evaluation[r] = None
  /\ evaluation' = [evaluation EXCEPT ![r] =
       [contract |-> c, greenlight |-> greenlight, now |-> clock,
        next |-> 1, posture |-> None]]
  /\ UNCHANGED <<clock, pathVars, refVars, outcome, custodyVars>>

EvaluatePolicy(e, c) == Begin(e, c, None)

GatewayCheck(g, e) ==
  /\ outcome[e] = "greenlit"
  /\ Begin(g, evaluation[e].contract, e)

\* An evaluation with one binding less to read.
Turned(e, p) == [contract |-> e.contract, greenlight |-> e.greenlight, now |-> e.now,
                 next |-> e.next + 1, posture |-> p]

\* One awaited read.  A binding that fails decides the request, so what it
\* reads after that is left out.
ReadBinding(r) ==
  /\ evaluation[r] # None
  /\ outcome[r] = "open"
  /\ evaluation[r].next <= Len(ReadsOf(r))
  /\ LET e == evaluation[r]
         binding == ReadsOf(r)[e.next] IN
     IF Holds(binding, e.contract, e.now)
     THEN /\ evaluation' = [evaluation EXCEPT ![r] =
               Turned(e, IF binding = "posture" THEN current[PathOf[e.contract]]
                         ELSE e.posture)]
          /\ UNCHANGED outcome
     ELSE /\ outcome' = [outcome EXCEPT ![r] = "refused"]
          /\ UNCHANGED evaluation
  /\ UNCHANGED <<clock, pathVars, refVars, custodyVars>>

Finished(r) ==
  /\ evaluation[r] # None
  /\ outcome[r] = "open"
  /\ evaluation[r].next > Len(ReadsOf(r))

Decide(r, result) ==
  /\ Finished(r)
  /\ outcome' = [outcome EXCEPT ![r] = result]
  /\ UNCHANGED <<clock, pathVars, refVars, evaluation, custodyVars>>

\* commitPolicyDecision: one greenlight issuance claim per contract.
CommitPolicy(e) ==
  LET issued == \E d \in Evaluations : /\ outcome[d] = "greenlit"
                                       /\ evaluation[d].contract = evaluation[e].contract IN
  Decide(e, IF issued THEN "refused" ELSE "greenlit")

\* commitGatewayCheck: a greenlight is consumed once.
CommitGate(g) ==
  LET consumed == \E h \in Gates : /\ outcome[h] = "passed"
                                   /\ evaluation[h].greenlight = evaluation[g].greenlight IN
  Decide(g, IF consumed THEN "refused" ELSE "passed")

(***************************************************************************)
(* Custody evidence.  Contract, greenlight, gate attempt and posture never  *)
(* change, so what is read beside the credential ref is one step with it.   *)
(***************************************************************************)
\* Any credential ref of the contract will do, as it stands now.
ResolutionEvidenceUnpinned(g, i) ==
  /\ outcome[g] = "passed"
  /\ LET c == evaluation[g].contract IN
     /\ CredentialOf[c] # None
     /\ CredentialOf[c].id = i
     /\ credential[i].expires > clock

\* assertResolutionEvidenceContext
ResolutionEvidenceAllowed(g, i) ==
  /\ outcome[g] = "passed"
  /\ LET c == evaluation[g].contract IN
     /\ CredentialOf[c] # None
     /\ CredentialOf[c].id = i
     /\ CredentialHolds(c, clock)

CheckResolutionEvidence(w, g, i) ==
  /\ witness[w] = None
  /\ evidence[w] = None
  /\ ResolutionEvidenceAllowed(g, i)
  /\ witness' = [witness EXCEPT ![w] = [gate |-> g, credential |-> credential[i]]]
  /\ UNCHANGED <<clock, pathVars, refVars, requestVars, evidence, packet>>

RecordCredentialResolutionEvidence(w) ==
  /\ witness[w] # None
  /\ evidence' = [evidence EXCEPT ![w] = witness[w]]
  /\ witness' = [witness EXCEPT ![w] = None]
  /\ UNCHANGED <<clock, pathVars, refVars, requestVars, packet>>

\* recordGatewayCustodyProofPacket: any posture committed, the current one or not.
RecordGatewayCustodyProofPacket(k, p, i) ==
  /\ packet[k] = None
  /\ posture[p] # None
  /\ credential[i] # None
  /\ posture[p].sound
  /\ posture[p].owned
  /\ posture[p].expires > clock
  /\ credential[i].held
  /\ packet' = [packet EXCEPT ![k] =
       [posture |-> p, credential |-> credential[i]]]
  /\ UNCHANGED <<clock, pathVars, refVars, requestVars, witness, evidence>>

(***************************************************************************)
(* The specification                                                        *)
(***************************************************************************)
Step ==
  \/ Tick
  \/ \E q \in Probes, input \in ProbeInputs : CreateBypassProbe(q, input)
  \/ \E p \in Postures, input \in PostureInputs, coverage \in [Kinds -> Nullable(Probes)] :
       CheckPosture(p, input, coverage)
  \/ \E p \in Postures : CommitPosture(p)
  \/ \E input \in CredentialInputs : RegisterGatewayCredentialRef(input)
  \/ \E input \in AuthorityInputs : RegisterDelegatedAuthorityRef(input)
  \/ \E i \in AuthorityIds, next \in {"revoked", "expired"} :
       TransitionDelegatedAuthorityStatus(i, next)
  \/ \E i \in AuthorityIds, state \in {"active", "revoked"} : CreateIsolationState(i, state)
  \/ \E input \in RegistryInputs : ReplaceGatewayRegistryEntry(input)
  \/ \E e \in Evaluations, c \in Contracts : EvaluatePolicy(e, c)
  \/ \E g \in Gates, e \in Evaluations : GatewayCheck(g, e)
  \/ \E r \in Requests : ReadBinding(r)
  \/ \E e \in Evaluations : CommitPolicy(e)
  \/ \E g \in Gates : CommitGate(g)
  \/ \E w \in Evidences, g \in Gates, i \in CredentialIds : CheckResolutionEvidence(w, g, i)
  \/ \E w \in Evidences : RecordCredentialResolutionEvidence(w)
  \/ \E k \in Packets, p \in Postures, i \in CredentialIds :
       RecordGatewayCustodyProofPacket(k, p, i)

\* A binding that holds in some state from the one in which `now` was taken on.
Witnessed(r) ==
  IF evaluation[r] = None THEN {}
  ELSE {b \in Bindings : Holds(b, evaluation[r].contract, evaluation[r].now)}

Watch ==
  held' = [r \in Requests |->
             IF outcome'[r] # "open" THEN held[r] ELSE held[r] \cup Witnessed(r)']

Next == Step /\ Watch

Spec == Init /\ [][Next]_vars

(***************************************************************************)
(* Properties                                                               *)
(***************************************************************************)
Running(r) == evaluation[r] # None /\ outcome[r] = "open"

\* What a posture says of its coverage is true of the probes it names.
ProvenCoverage(record) ==
  \A k \in Kinds : record.coverage[k] # None =>
    /\ probe[record.coverage[k]] # None
    /\ probe[record.coverage[k]].path = record.path
    /\ probe[record.coverage[k]].expires > record.createdAt

CoverageIsProven ==
  /\ \A p \in Postures : draft[p] # None => posture[p] = None /\ ProvenCoverage(draft[p])
  /\ \A p \in Postures : posture[p] # None => ProvenCoverage(posture[p])

CurrentIsOfItsPath ==
  \A s \in Paths : current[s] # None =>
    posture[current[s]] # None /\ posture[current[s]].path = s

\* The history holds what holds now, and what a request has read.
HeldIsKept ==
  \A r \in Requests :
    /\ Running(r) => Witnessed(r) \subseteq held[r]
    /\ evaluation[r] # None =>
         \A i \in 1..Len(ReadsOf(r)) : i < evaluation[r].next => ReadsOf(r)[i] \in held[r]

\* The posture a request has read and found in order.
RestsOnPosture(e) ==
  /\ e.posture # None
  /\ posture[e.posture] # None
  /\ posture[e.posture].path = PathOf[e.contract]
  /\ Covered(posture[e.posture])

PostureIsKept ==
  \A g \in Gates :
    evaluation[g] # None /\ evaluation[g].next > 3 /\ evaluation[g].contract \in PathRequired =>
      RestsOnPosture(evaluation[g])

DecidedWhenRead ==
  \A r \in Requests :
    /\ outcome[r] # "open" => evaluation[r] # None
    /\ outcome[r] = "greenlit" => r \in Evaluations /\ evaluation[r].next > Len(PolicyReads)
    /\ outcome[r] = "passed" => r \in Gates /\ evaluation[r].next > Len(GateReads)

WitnessFollowsItsGate ==
  \A w \in Evidences :
    /\ witness[w] # None =>
         /\ outcome[witness[w].gate] = "passed"
         /\ witness[w].credential = CredentialOf[evaluation[witness[w].gate].contract]
    /\ evidence[w] # None =>
         /\ outcome[evidence[w].gate] = "passed"
         /\ evidence[w].credential = CredentialOf[evaluation[evidence[w].gate].contract]

\* The inductive invariant of the proofs: what is known between a read and the
\* decision that rests on it.
BindingsInvariant ==
  /\ TypeOK
  /\ CoverageIsProven
  /\ CurrentIsOfItsPath
  /\ HeldIsKept
  /\ PostureIsKept
  /\ DecidedWhenRead
  /\ WitnessFollowsItsGate

\* Whatever is registered, revoked or recorded while policy awaits its reads, a
\* greenlight is issued only if every binding policy answers for held, judged
\* by the time the evaluation began, at some moment since then: what was out of
\* order throughout never slips through (derivePolicyConstraintEvaluation).
GreenlitOnStandingBindings ==
  \A e \in Evaluations : outcome[e] = "greenlit" =>
    {"isolation", "posture", "credential", "authority"} \subseteq held[e]

\* The same for the gateway, which trusts nothing policy has seen: a binding
\* that stopped holding after the greenlight and before the gate began refuses
\* the gate (deriveGatewayConstraintEvaluation, gateRefusalReason).
PassedOnStandingBindings ==
  \A g \in Gates : outcome[g] = "passed" => Bindings \subseteq held[g]

\* A gate that passed for a contract that requires a checked path rests on a
\* posture of that very path, every required kind of which was covered by a
\* sound probe of the same path, unexpired when the posture was drawn up
\* (loadBypassProbes, evaluateGatewayCheckedProbeCoverage).
PassRestsOnProbesOfItsPath ==
  \A g \in Gates :
    LET e == evaluation[g] IN
    outcome[g] = "passed" /\ e.contract \in PathRequired =>
      /\ e.posture # None
      /\ posture[e.posture].path = PathOf[e.contract]
      /\ \A k \in Kinds :
           LET q == posture[e.posture].coverage[k] IN
           /\ q # None
           /\ probe[q].sound
           /\ probe[q].path = PathOf[e.contract]
           /\ probe[q].expires > posture[e.posture].createdAt

\* Resolution evidence names the credential ref the gate it hangs on passed
\* with, though a ref of the same id may have been registered in between
\* (assertResolutionEvidenceContext).
EvidenceFollowsItsGate ==
  \A w \in Evidences :
    evidence[w] # None =>
      LET g == evidence[w].gate IN
      /\ outcome[g] = "passed"
      /\ evidence[w].credential = CredentialOf[evaluation[g].contract]
=============================================================================
