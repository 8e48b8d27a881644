----------------------------- MODULE Negotiation -----------------------------
(***************************************************************************)
(* areas/negotiation: offers, decisions, linked agreements, obligation      *)
(* bindings and agreement status within one negotiation session, and what   *)
(* policy makes of them (areas/negotiation/policy.ts): a contract that      *)
(* names an obligation is reserved under the key of that obligation.        *)
(*                                                                          *)
(* Every record... transition reads listings, checks, and commits one new   *)
(* record; the commit (absent_or_same on a fresh id) repeats none of the    *)
(* checks.  A record has the name of the request that made it.  A refused   *)
(* call changes nothing and its request may be made again, so a refusal is  *)
(* a stutter and the guards of Check... are the checks the code throws from.*)
(* createdAt is the caller's: it need not be the time of the kernel.        *)
(***************************************************************************)
EXTENDS Naturals

CONSTANTS
  OfferRequests, DecisionRequests, AgreementRequests, BindingRequests, TransitionRequests,
  Evaluations,       \* requests that evaluate policy
  OfferInputs,       \* the offers the parties may make
  DecisionKinds,     \* the kinds of decision they may take
  StatusInputs,      \* the statuses a transition may go to
  AgreementExpiries, \* the expiry an agreement may carry
  Parties,           \* parties of the session, identified with their agentRef
  Contracts,         \* action contracts
  Obligations,
  ObligationOf,      \* contract -> clearingEvidenceRefs.obligationRef, or null
  CounterpartyOf,    \* contract -> clearingEvidenceRefs.counterpartyRef, or null
  LedgerScopes,      \* gateway, surface kind, action class and resource of a ledger key
  LedgerScopeOf,     \* contract -> its ledger scope
  SessionExpiry,     \* expiresAt of the session
  MaxTime,           \* the last moment of the run
  None               \* null

VARIABLES
  clock,             \* the time of the kernel
  draft,             \* request -> the record it has checked and not yet committed
  offers, decisions, agreements, bindings, transitions,  \* request -> its record
  evaluation,        \* evaluation -> what it has read
  greenlight,        \* evaluation -> the greenlight it issued
  ledger             \* idempotency ledger key -> the contract it is reserved for

recordVars == <<draft, offers, decisions, agreements, bindings, transitions>>
policyVars == <<evaluation, greenlight, ledger>>
vars == <<clock, recordVars, policyVars>>

Times == 0..MaxTime   \* an expiry after MaxTime stands for null
Nullable(S) == S \cup {None}

Recorders == OfferRequests \cup DecisionRequests \cup AgreementRequests
               \cup BindingRequests \cup TransitionRequests

Decisions == {"accept", "reject", "counter", "withdraw", "expire"}
Statuses == {"proposed", "active", "superseded", "expired", "disputed", "resolved", "withdrawn"}

\* A table in which a dispute may be settled by going on.
AllowedStatusTransitionsResuming ==
  ({"proposed"} \X {"active", "expired", "superseded", "withdrawn"})
    \cup ({"active"} \X {"disputed", "expired", "resolved", "superseded", "withdrawn"})
    \cup ({"disputed"} \X {"active", "resolved", "withdrawn"})

\* isAllowedStatusTransition
AllowedStatusTransitions ==
  ({"proposed"} \X {"active", "expired", "superseded", "withdrawn"})
    \cup ({"active"} \X {"disputed", "expired", "resolved", "superseded", "withdrawn"})
    \cup ({"disputed"} \X {"resolved", "withdrawn"})

\* The keys authority is reserved under: in the key of a bound contract
\* effectiveAuthorityLedger puts agreement, obligation and counterparty, and the
\* last two are those of the agreement, in the place of the idempotency key; the
\* rest of the key stays.  Any other contract has a key of its own.
KeysOf(a) == {a} \X LedgerScopes
LedgerKeys == (AgreementRequests \X LedgerScopes) \cup Contracts

Versions == {offer.version : offer \in OfferInputs}
Sequences == {offer.sequence : offer \in OfferInputs}
Contents == {offer.content : offer \in OfferInputs}

\* offer: the offer that was found under the version; the event of the decision
\* names it, the record does not, and nothing looks it up again.
DecisionRecords == [kind : DecisionKinds, version : Versions, sequence : Sequences,
                    party : Parties, counter : Nullable(Versions), offer : OfferRequests]
AgreementRecords == [decision : DecisionRequests, version : Versions, sequence : Sequences,
                     content : Contents, party : Parties, obligation : Obligations,
                     expires : AgreementExpiries]
BindingRecords == [agreement : AgreementRequests, contract : Contracts]
TransitionRecords == [agreement : AgreementRequests, from : Statuses, to : Statuses,
                      createdAt : Times]
Evaluating == [contract : Contracts, now : Times, binding : Nullable(BindingRequests),
               key : Nullable(LedgerKeys)]
Greenlight == [contract : Contracts, binding : Nullable(BindingRequests), key : LedgerKeys]

ASSUME NegotiationConstants ==
  /\ MaxTime \in Nat
  /\ SessionExpiry \in Nat
  /\ AgreementExpiries \subseteq Nat
  /\ DecisionKinds \subseteq Decisions
  /\ StatusInputs \subseteq Statuses
  /\ ObligationOf \in [Contracts -> Nullable(Obligations)]
  /\ CounterpartyOf \in [Contracts -> Nullable(Parties)]
  /\ LedgerScopeOf \in [Contracts -> LedgerScopes]

\* A request is of one kind; an agreement's key is no contract's.
ASSUME KindsAreDisjoint ==
  /\ OfferRequests \cap (DecisionRequests \cup AgreementRequests \cup BindingRequests
                            \cup TransitionRequests) = {}
  /\ DecisionRequests \cap (AgreementRequests \cup BindingRequests \cup TransitionRequests) = {}
  /\ AgreementRequests \cap (BindingRequests \cup TransitionRequests) = {}
  /\ BindingRequests \cap TransitionRequests = {}
  /\ (AgreementRequests \X LedgerScopes) \cap Contracts = {}

ASSUME NegotiationNull ==
  /\ None \notin Contracts \cup BindingRequests \cup LedgerKeys \cup Obligations \cup Parties
  /\ None \notin OfferInputs
  /\ None \notin DecisionRecords
  /\ None \notin AgreementRecords
  /\ None \notin BindingRecords
  /\ None \notin TransitionRecords
  /\ None \notin Evaluating
  /\ None \notin Greenlight

TypeOK ==
  /\ clock \in Times
  /\ draft \in [Recorders -> Nullable(OfferInputs \cup DecisionRecords \cup AgreementRecords
                                        \cup BindingRecords \cup TransitionRecords)]
  /\ \A r \in OfferRequests : draft[r] \in Nullable(OfferInputs)
  /\ \A r \in DecisionRequests : draft[r] \in Nullable(DecisionRecords)
  /\ \A r \in AgreementRequests : draft[r] \in Nullable(AgreementRecords)
  /\ \A r \in BindingRequests : draft[r] \in Nullable(BindingRecords)
  /\ \A r \in TransitionRequests : draft[r] \in Nullable(TransitionRecords)
  /\ offers \in [OfferRequests -> Nullable(OfferInputs)]
  /\ decisions \in [DecisionRequests -> Nullable(DecisionRecords)]
  /\ agreements \in [AgreementRequests -> Nullable(AgreementRecords)]
  /\ bindings \in [BindingRequests -> Nullable(BindingRecords)]
  /\ transitions \in [TransitionRequests -> Nullable(TransitionRecords)]
  /\ evaluation \in [Evaluations -> Nullable(Evaluating)]
  /\ greenlight \in [Evaluations -> Nullable(Greenlight)]
  /\ ledger \in [LedgerKeys -> Nullable(Contracts)]

Made(records) == {r \in DOMAIN records : records[r] # None}

Init ==
  /\ clock = 0
  /\ draft = [r \in Recorders |-> None]
  /\ offers = [r \in OfferRequests |-> None]
  /\ decisions = [r \in DecisionRequests |-> None]
  /\ agreements = [r \in AgreementRequests |-> None]
  /\ bindings = [r \in BindingRequests |-> None]
  /\ transitions = [r \in TransitionRequests |-> None]
  /\ evaluation = [e \in Evaluations |-> None]
  /\ greenlight = [e \in Evaluations |-> None]
  /\ ledger = [k \in LedgerKeys |-> None]

Tick ==
  /\ clock < MaxTime
  /\ clock' = clock + 1
  /\ UNCHANGED <<recordVars, policyVars>>

(***************************************************************************)
(* Recording                                                                *)
(***************************************************************************)
\* The handler has passed its checks and holds the record it will commit.
Checked(r, records, record) ==
  /\ records[r] = None
  /\ draft[r] = None
  /\ draft' = [draft EXCEPT ![r] = record]
  /\ UNCHANGED <<clock, offers, decisions, agreements, bindings, transitions, policyVars>>

\* requiredOfferByVersion finds one of the offers of that version.
OffersByVersion(version) == {f \in Made(offers) : offers[f].version = version}

\* assertReferencedOfferVersion, of previousOfferVersionId and of
\* supersedesOfferVersionId.
ReferencePrecedes(version, sequence) ==
  version = None \/ \E f \in OffersByVersion(version) : offers[f].sequence < sequence

\* recordNegotiationOffer up to its commit.
CheckOffer(r, offer, createdAt) ==
  /\ createdAt < SessionExpiry
  /\ OffersByVersion(offer.version) = {}
  /\ ReferencePrecedes(offer.previous, offer.sequence)
  /\ Checked(r, offers, offer)

\* assertOfferIsCurrent
OfferIsCurrent(f) == \A g \in Made(offers) : offers[g].sequence <= offers[f].sequence

\* A counter decision binds a later offer that is still open.
CounterIsLater(f, version, createdAt) ==
  \E g \in OffersByVersion(version) :
    createdAt < offers[g].expires /\ offers[g].sequence > offers[f].sequence

\* recordNegotiationDecision up to its commit.
CheckDecision(r, decision, createdAt) ==
  /\ createdAt < SessionExpiry
  /\ decision.offer \in OffersByVersion(decision.version)
  /\ createdAt < offers[decision.offer].expires
  /\ offers[decision.offer].sequence = decision.sequence
  /\ decision.kind = "accept" => OfferIsCurrent(decision.offer)
  /\ decision.kind = "counter" => CounterIsLater(decision.offer, decision.counter, createdAt)
  /\ Checked(r, decisions, decision)

\* A check that leaves the content digest to the offer version.
AcceptsVersion(agreement, f) ==
  /\ offers[f].version = agreement.version
  /\ offers[f].sequence = agreement.sequence

\* The offer and the decision an agreement claims to rest on.
AcceptsOffer(agreement, f) ==
  /\ offers[f].version = agreement.version
  /\ offers[f].sequence = agreement.sequence
  /\ offers[f].content = agreement.content

\* The decision is an acceptance of that version and sequence, by that party.
RestsOnDecision(agreement) ==
  LET decision == decisions[agreement.decision] IN
  /\ decision # None
  /\ decision.kind = "accept"
  /\ decision.version = agreement.version
  /\ decision.sequence = agreement.sequence
  /\ decision.party = agreement.party

\* recordLinkedAgreement up to its commit, assertLinkedAgreementUnique last.
CheckAgreement(r, agreement, createdAt) ==
  /\ createdAt < SessionExpiry
  /\ RestsOnDecision(agreement)
  /\ \E f \in OffersByVersion(agreement.version) :
       createdAt < offers[f].expires /\ AcceptsOffer(agreement, f)
  /\ \A a \in Made(agreements) : agreements[a].decision # agreement.decision
  /\ Checked(r, agreements, agreement)

\* currentAgreementStatus: the last transition by createdAt; transitions with
\* one createdAt come in the order of a listing that D1 leaves open.
CurrentStatuses(a) ==
  LET own == {t \in Made(transitions) : transitions[t].agreement = a}
      last == {t \in own : \A u \in own : transitions[u].createdAt <= transitions[t].createdAt}
  IN IF own = {} THEN {"active"} ELSE {transitions[t].to : t \in last}

\* assertBindingMatchesContract and assertBindingMatchesAgreement: an agreement
\* and a contract of the same obligation and counterparty.
BindingMatches(binding) ==
  LET agreement == agreements[binding.agreement] IN
  /\ agreement # None
  /\ agreement.obligation = ObligationOf[binding.contract]
  /\ agreement.party = CounterpartyOf[binding.contract]

\* assertAgreementBindingUnique: neither the contract nor the obligation of the
\* agreement is bound.
Unbound(binding) ==
  \A b \in Made(bindings) :
    bindings[b].contract # binding.contract /\ bindings[b].agreement # binding.agreement

\* recordAgreementObligationBinding up to its commit.
CheckBinding(r, binding) ==
  /\ BindingMatches(binding)
  /\ "active" \in CurrentStatuses(binding.agreement)
  /\ Unbound(binding)
  /\ Checked(r, bindings, binding)

\* transitionAgreementStatus up to its commit.
CheckTransition(r, transition) ==
  /\ agreements[transition.agreement] # None
  /\ transition.from \in CurrentStatuses(transition.agreement)
  /\ <<transition.from, transition.to>> \in AllowedStatusTransitions
  /\ Checked(r, transitions, transition)

\* commitNegotiationRecord
CommitNegotiationRecord(r) ==
  /\ draft[r] # None
  /\ draft' = [draft EXCEPT ![r] = None]
  /\ offers' = IF r \in OfferRequests THEN [offers EXCEPT ![r] = draft[r]] ELSE offers
  /\ decisions' = IF r \in DecisionRequests THEN [decisions EXCEPT ![r] = draft[r]] ELSE decisions
  /\ agreements' = IF r \in AgreementRequests THEN [agreements EXCEPT ![r] = draft[r]] ELSE agreements
  /\ bindings' = IF r \in BindingRequests THEN [bindings EXCEPT ![r] = draft[r]] ELSE bindings
  /\ transitions' = IF r \in TransitionRequests THEN [transitions EXCEPT ![r] = draft[r]] ELSE transitions
  /\ UNCHANGED <<clock, policyVars>>

(***************************************************************************)
(* Policy                                                                   *)
(***************************************************************************)
Negotiated(c) == ObligationOf[c] # None \/ CounterpartyOf[c] # None
BindingsOf(c) == {b \in Made(bindings) : bindings[b].contract = c}

\* The one binding of a contract, whichever of several comes first.
SomeBinding(c, b) == b \in BindingsOf(c)

\* Exactly one binding: none is a gap, and so are several.
TheBinding(c, b) == BindingsOf(c) = {b}

\* evaluateAgreementObligationPolicy up to the listing of the bindings.
ListBindings(e, c, b) ==
  /\ evaluation[e] = None
  /\ greenlight[e] = None
  /\ IF Negotiated(c)
       THEN /\ ObligationOf[c] # None
            /\ CounterpartyOf[c] # None
            /\ b \in BindingRequests
            /\ TheBinding(c, b)
       ELSE b = None
  /\ evaluation' = [evaluation EXCEPT
       ![e] = [contract |-> c, now |-> clock, binding |-> b, key |-> None]]
  /\ UNCHANGED <<clock, recordVars, greenlight, ledger>>

\* loadAgreementOffer and evidenceFreshnessFailureForAgreement
EvidenceIsFresh(a, now) ==
  LET agreement == agreements[a] IN
  /\ now < SessionExpiry
  /\ \E f \in OffersByVersion(agreement.version) :
       now < offers[f].expires /\ AcceptsOffer(agreement, f)

\* A lifecycle check that looks at the clock alone.
AgreementIsUnexpired(a, now) == now < agreements[a].expires

\* lifecycleFailureForAgreement
AgreementIsLive(a, now) ==
  /\ AgreementIsUnexpired(a, now)
  /\ "active" \in CurrentStatuses(a)

\* effectiveAuthorityLedger
AuthorityKeyOf(c, b) ==
  IF b = None THEN c ELSE <<bindings[b].agreement, LedgerScopeOf[c]>>

\* The rest of the evaluation: agreement, session, offer and ledger.
EvaluateAgreement(e) ==
  LET plan == evaluation[e]
      key == AuthorityKeyOf(plan.contract, plan.binding)
  IN /\ plan # None
     /\ plan.key = None
     /\ plan.binding # None =>
          LET a == bindings[plan.binding].agreement IN
          EvidenceIsFresh(a, plan.now) /\ AgreementIsLive(a, plan.now)
     /\ ledger[key] = None
     /\ evaluation' = [evaluation EXCEPT ![e].key = key]
     /\ UNCHANGED <<clock, recordVars, greenlight, ledger>>

\* greenlight_issuances: the contract has no greenlight.
Unissued(c) == \A e \in Made(greenlight) : greenlight[e].contract # c

\* The records and index entries of a greenlight, in one commit.
RecordObligationGreenlight(e, plan) ==
  /\ greenlight' = [greenlight EXCEPT
       ![e] = [contract |-> plan.contract, binding |-> plan.binding, key |-> plan.key]]
  /\ ledger' = [ledger EXCEPT ![plan.key] = plan.contract]
  /\ evaluation' = [evaluation EXCEPT ![e] = None]
  /\ UNCHANGED <<clock, recordVars>>

\* A commit that holds the issuance unique and the ledger key not.
CommitOverReservation(e) ==
  /\ evaluation[e] # None
  /\ evaluation[e].key # None
  /\ Unissued(evaluation[e].contract)
  /\ RecordObligationGreenlight(e, evaluation[e])

\* commitGreenlightPolicyDecision, accepted: neither the issuance nor the
\* ledger key is taken.
CommitObligationGreenlight(e) ==
  /\ evaluation[e] # None
  /\ evaluation[e].key # None
  /\ Unissued(evaluation[e].contract)
  /\ ledger[evaluation[e].key] = None
  /\ RecordObligationGreenlight(e, evaluation[e])

\* Any answer but a greenlight: a failed check, a proof gap, or a conflict of
\* the commit.  The caller may evaluate again.
WithholdAuthority(e) ==
  /\ evaluation[e] # None
  /\ evaluation' = [evaluation EXCEPT ![e] = None]
  /\ UNCHANGED <<clock, recordVars, greenlight, ledger>>

(***************************************************************************)
(* The system                                                               *)
(***************************************************************************)
Offer(r) == \E offer \in OfferInputs, at \in Times : CheckOffer(r, offer, at)

Decide(r) ==
  \E kind \in DecisionKinds, party \in Parties, f \in Made(offers), at \in Times :
    \E counter \in IF kind = "counter" THEN {offers[g].version : g \in Made(offers)} ELSE {None} :
      CheckDecision(r, [kind |-> kind, version |-> offers[f].version,
                        sequence |-> offers[f].sequence, party |-> party,
                        counter |-> counter, offer |-> f], at)

Agree(r) ==
  \E d \in Made(decisions), f \in Made(offers), content \in Contents, party \in Parties,
     obligation \in Obligations, expires \in AgreementExpiries, at \in Times :
    CheckAgreement(r, [decision |-> d, version |-> offers[f].version,
                       sequence |-> offers[f].sequence, content |-> content,
                       party |-> party, obligation |-> obligation, expires |-> expires], at)

Bind(r) ==
  \E a \in Made(agreements), c \in Contracts : CheckBinding(r, [agreement |-> a, contract |-> c])

ChangeStatus(r) ==
  \E a \in Made(agreements), from \in Statuses, to \in StatusInputs, at \in Times :
    CheckTransition(r, [agreement |-> a, from |-> from, to |-> to, createdAt |-> at])

Evaluate(e) == \E c \in Contracts, b \in Nullable(BindingRequests) : ListBindings(e, c, b)

Next ==
  \/ Tick
  \/ \E r \in OfferRequests : Offer(r)
  \/ \E r \in DecisionRequests : Decide(r)
  \/ \E r \in AgreementRequests : Agree(r)
  \/ \E r \in BindingRequests : Bind(r)
  \/ \E r \in TransitionRequests : ChangeStatus(r)
  \/ \E r \in Recorders : CommitNegotiationRecord(r)
  \/ \E e \in Evaluations : Evaluate(e)
  \/ \E e \in Evaluations : EvaluateAgreement(e)
  \/ \E e \in Evaluations : CommitObligationGreenlight(e)
  \/ \E e \in Evaluations : WithholdAuthority(e)

Spec == Init /\ [][Next]_vars

(***************************************************************************)
(* Properties                                                               *)
(***************************************************************************)
TermsOf(g) == agreements[bindings[g.binding].agreement]

\* Offers of different content under one version: that a version is offered once
\* is checked on a listing before the commit (assertOfferVersionUnique), so two
\* may be recorded at once.
Rivalled(version) ==
  \E f, h \in Made(offers) :
    /\ offers[f].version = version
    /\ offers[h].version = version
    /\ offers[f].content # offers[h].content

\* A greenlight for a negotiated contract rests on terms its counterparty
\* accepted: its ledger key is that of an agreement on the obligation and
\* counterparty the contract names, drawn up from an acceptance by that party,
\* and the content agreed is that of the very offer it accepted.  The exception
\* is the one the code leaves: a decision records version and sequence alone, and
\* where rivals of one version were recorded the agreement may pin the other
\* (recordLinkedAgreement, the digest check against requiredOfferByVersion).
GreenlightRestsOnAcceptedTerms ==
  \A e \in Made(greenlight) :
    LET g == greenlight[e]
        terms == TermsOf(g)
        acceptance == decisions[terms.decision]
        accepted == offers[acceptance.offer]
    IN Negotiated(g.contract) =>
         /\ bindings[g.binding].contract = g.contract
         /\ g.key \in KeysOf(bindings[g.binding].agreement)
         /\ terms.obligation = ObligationOf[g.contract]
         /\ terms.party = CounterpartyOf[g.contract]
         /\ acceptance.kind = "accept"
         /\ acceptance.party = terms.party
         /\ accepted.version = terms.version
         /\ accepted.sequence = terms.sequence
         /\ accepted.content = terms.content \/ Rivalled(terms.version)

\* However many bindings of one agreement were recorded at once, and however
\* many contracts they name, its obligation is cleared by one greenlight in one
\* ledger scope.
ObligationClearedOnce ==
  \A e, f \in Made(greenlight) : greenlight[e].key = greenlight[f].key => e = f

\* An agreement that has left the active status stays out of it, whatever
\* transitions are recorded afterwards and whatever time they claim, and no
\* evaluation settles on a key of it any more: only one that had already read the
\* agreement as active may still clear its obligation.
LeftAgreementsWithhold ==
  [][\A a \in AgreementRequests : "active" \notin CurrentStatuses(a) =>
       /\ "active" \notin CurrentStatuses(a)'
       /\ \A e \in Evaluations : evaluation'[e] # None /\ evaluation'[e].key \in KeysOf(a) =>
            evaluation[e] # None /\ evaluation[e].key = evaluation'[e].key]_vars

\* Two bindings of one contract, however they came to be, are a proof gap for
\* good: no evaluation that lists them goes on to a greenlight.
Ambiguous(c) == \E b, other \in BindingsOf(c) : b # other

AmbiguousBindingsWithhold ==
  [][\A c \in Contracts : Ambiguous(c) =>
       /\ Ambiguous(c)'
       /\ \A e \in Evaluations : evaluation[e] = None /\ evaluation'[e] # None =>
            evaluation'[e].contract # c]_vars

(***************************************************************************)
(* The inductive strengthening                                              *)
(***************************************************************************)
\* A decision decides an offer of its version and sequence.
DecidesOffer(decision) ==
  /\ decision.offer \in Made(offers)
  /\ offers[decision.offer].version = decision.version
  /\ offers[decision.offer].sequence = decision.sequence

\* An agreement rests on an acceptance, and on an offer of that version with its
\* content.
RestsOnAcceptance(agreement) ==
  /\ decisions[agreement.decision] # None
  /\ decisions[agreement.decision].kind = "accept"
  /\ decisions[agreement.decision].party = agreement.party
  /\ decisions[agreement.decision].version = agreement.version
  /\ decisions[agreement.decision].sequence = agreement.sequence
  /\ \E f \in Made(offers) : AcceptsOffer(agreement, f)

\* Decisions, agreements and bindings are grounded in what they name from the
\* moment they are checked: records are never removed or rewritten.
RecordsAreGrounded ==
  /\ \A r \in DecisionRequests :
       /\ decisions[r] # None => DecidesOffer(decisions[r])
       /\ draft[r] # None => DecidesOffer(draft[r])
  /\ \A r \in AgreementRequests :
       /\ agreements[r] # None => RestsOnAcceptance(agreements[r])
       /\ draft[r] # None => RestsOnAcceptance(draft[r])
  /\ \A r \in BindingRequests :
       /\ bindings[r] # None => BindingMatches(bindings[r])
       /\ draft[r] # None => BindingMatches(draft[r])

\* A request commits once.
DraftsPrecedeRecords ==
  /\ \A r \in OfferRequests : draft[r] # None => offers[r] = None
  /\ \A r \in DecisionRequests : draft[r] # None => decisions[r] = None
  /\ \A r \in AgreementRequests : draft[r] # None => agreements[r] = None
  /\ \A r \in BindingRequests : draft[r] # None => bindings[r] = None
  /\ \A r \in TransitionRequests : draft[r] # None => transitions[r] = None

\* No agreement is ever proposed, and no transition leads back to active.
Leaves(transition) == transition.to \notin {"proposed", "active"}

TransitionsLeave ==
  \A r \in TransitionRequests :
    /\ transitions[r] # None => Leaves(transitions[r])
    /\ draft[r] # None => Leaves(draft[r])

\* The binding under an evaluation or a greenlight is the contract's, and the
\* key is the one it makes.
Keyed(c, b, key) ==
  /\ Negotiated(c) => b # None
  /\ b # None => bindings[b] # None /\ bindings[b].contract = c
  /\ key # None => key = AuthorityKeyOf(c, b)

EvaluationsAreKeyed ==
  \A e \in Evaluations :
    /\ evaluation[e] # None =>
         /\ Keyed(evaluation[e].contract, evaluation[e].binding, evaluation[e].key)
         /\ greenlight[e] = None
    /\ greenlight[e] # None =>
         Keyed(greenlight[e].contract, greenlight[e].binding, greenlight[e].key)

\* The ledger and the greenlights tell the same story.
LedgerMatchesGreenlights ==
  /\ \A e \in Evaluations : greenlight[e] # None => ledger[greenlight[e].key] = greenlight[e].contract
  /\ \A k \in LedgerKeys : ledger[k] # None =>
       \E e \in Evaluations : greenlight[e] # None /\ greenlight[e].key = k

NegotiationInvariant ==
  /\ TypeOK
  /\ RecordsAreGrounded
  /\ DraftsPrecedeRecords
  /\ TransitionsLeave
  /\ EvaluationsAreKeyed
  /\ LedgerMatchesGreenlights
  /\ ObligationClearedOnce

\* What the store makes of keys and contracts is one-use authority in which
\* nothing is used yet.
Authority == INSTANCE OneUseAuthority
  WITH Keys <- LedgerKeys, Holders <- Contracts, Uses <- Evaluations, NoHolder <- None,
       holder <- ledger, uses <- [k \in LedgerKeys |-> {}]

ObligationAuthority == Authority!Spec
=============================================================================
