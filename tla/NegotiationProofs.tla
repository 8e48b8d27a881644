-------------------------- MODULE NegotiationProofs --------------------------
(***************************************************************************)
(* Proofs about Negotiation, for any number of requests, offers, contracts  *)
(* and moments.                                                             *)
(*                                                                          *)
(* Everything rests on records that are only ever added: what a check saw   *)
(* of the records it names still holds when its record is committed, and    *)
(* later.  What a check saw to be absent may not, which is why uniqueness   *)
(* of agreements and bindings is no theorem and the ledger key is.          *)
(***************************************************************************)
EXTENDS Negotiation, TLAPS

\* The record a request keeps once it is made.
RecordsStay ==
  /\ \A r \in OfferRequests : offers[r] # None => offers'[r] = offers[r]
  /\ \A r \in DecisionRequests : decisions[r] # None => decisions'[r] = decisions[r]
  /\ \A r \in AgreementRequests : agreements[r] # None => agreements'[r] = agreements[r]
  /\ \A r \in BindingRequests : bindings[r] # None => bindings'[r] = bindings[r]
  /\ \A r \in TransitionRequests : transitions[r] # None => transitions'[r] = transitions[r]

LEMMA InitKeeps == Init => NegotiationInvariant
<1> SUFFICES ASSUME Init PROVE NegotiationInvariant
  OBVIOUS
<1> USE DEF Init
<1>1. TypeOK
  BY NegotiationConstants DEF TypeOK, Times, Nullable, Recorders
<1>2. RecordsAreGrounded /\ DraftsPrecedeRecords /\ TransitionsLeave
  BY DEF RecordsAreGrounded, DraftsPrecedeRecords, TransitionsLeave, Recorders
<1>3. EvaluationsAreKeyed /\ LedgerMatchesGreenlights
  BY DEF EvaluationsAreKeyed, LedgerMatchesGreenlights
<1>4. ObligationClearedOnce
  BY DEF ObligationClearedOnce, Made
<1> QED
  BY <1>1, <1>2, <1>3, <1>4 DEF NegotiationInvariant

\* A commit writes the record of a request that had none.
LEMMA CommitAdds ==
  ASSUME NegotiationInvariant, NEW r \in Recorders, CommitNegotiationRecord(r)
  PROVE  RecordsStay
<1> USE DEF CommitNegotiationRecord, NegotiationInvariant, DraftsPrecedeRecords
<1>1. /\ offers \in [OfferRequests -> Nullable(OfferInputs)]
      /\ decisions \in [DecisionRequests -> Nullable(DecisionRecords)]
      /\ agreements \in [AgreementRequests -> Nullable(AgreementRecords)]
      /\ bindings \in [BindingRequests -> Nullable(BindingRecords)]
      /\ transitions \in [TransitionRequests -> Nullable(TransitionRecords)]
  BY DEF TypeOK
<1>2. \A q \in OfferRequests : offers[q] # None => offers'[q] = offers[q]
  BY <1>1
<1>3. \A q \in DecisionRequests : decisions[q] # None => decisions'[q] = decisions[q]
  BY <1>1
<1>4. \A q \in AgreementRequests : agreements[q] # None => agreements'[q] = agreements[q]
  BY <1>1
<1>5. \A q \in BindingRequests : bindings[q] # None => bindings'[q] = bindings[q]
  BY <1>1
<1>6. \A q \in TransitionRequests : transitions[q] # None => transitions'[q] = transitions[q]
  BY <1>1
<1> QED
  BY <1>2, <1>3, <1>4, <1>5, <1>6 DEF RecordsStay

\* No step of the system removes or rewrites a record.
LEMMA NextAdds ==
  ASSUME NegotiationInvariant, [Next]_vars
  PROVE  RecordsStay
<1>1. CASE UNCHANGED recordVars
  BY <1>1 DEF recordVars, RecordsStay
<1>2. ASSUME NEW r \in Recorders, CommitNegotiationRecord(r) PROVE RecordsStay
  BY <1>2, CommitAdds
<1>3. ASSUME NEW r, NEW records, NEW record, Checked(r, records, record) PROVE RecordsStay
  BY <1>3 DEF Checked, RecordsStay
<1>4. CASE Tick \/ UNCHANGED vars
  BY <1>1, <1>4 DEF Tick, vars
<1>5. ASSUME NEW e \in Evaluations,
             Evaluate(e) \/ EvaluateAgreement(e) \/ CommitObligationGreenlight(e)
               \/ WithholdAuthority(e)
      PROVE  RecordsStay
  BY <1>1, <1>5 DEF Evaluate, ListBindings, EvaluateAgreement, CommitObligationGreenlight,
                    RecordObligationGreenlight, WithholdAuthority
<1>6. ASSUME NEW r, Offer(r) PROVE RecordsStay
  BY <1>3, <1>6 DEF Offer, CheckOffer
<1>7. ASSUME NEW r, Decide(r) PROVE RecordsStay
  BY <1>3, <1>7 DEF Decide, CheckDecision
<1>8. ASSUME NEW r, Agree(r) PROVE RecordsStay
  BY <1>3, <1>8 DEF Agree, CheckAgreement
<1>9. ASSUME NEW r, Bind(r) PROVE RecordsStay
  BY <1>3, <1>9 DEF Bind, CheckBinding
<1>10. ASSUME NEW r, ChangeStatus(r) PROVE RecordsStay
  BY <1>3, <1>10 DEF ChangeStatus, CheckTransition
<1> QED
  BY <1>2, <1>4, <1>5, <1>6, <1>7, <1>8, <1>9, <1>10 DEF Next

\* What rests on records that are there goes on resting on them.
LEMMA GroundsStay ==
  ASSUME NegotiationInvariant, RecordsStay, TypeOK'
  PROVE  /\ \A d \in DecisionRecords : DecidesOffer(d) => DecidesOffer(d)'
         /\ \A a \in AgreementRecords : RestsOnAcceptance(a) => RestsOnAcceptance(a)'
         /\ \A b \in BindingRecords : BindingMatches(b) => BindingMatches(b)'
         /\ \A c \in Contracts, b \in Nullable(BindingRequests), k \in Nullable(LedgerKeys) :
              Keyed(c, b, k) => Keyed(c, b, k)'
<1> USE DEF NegotiationInvariant, RecordsStay
<1>0. ASSUME NEW d \in DecisionRecords, DecidesOffer(d) PROVE DecidesOffer(d)'
  BY <1>0 DEF DecidesOffer, DecisionRecords, Made, TypeOK
<1>1. ASSUME NEW a \in AgreementRecords, RestsOnAcceptance(a) PROVE RestsOnAcceptance(a)'
  <2>1. a.decision \in DecisionRequests
    BY DEF AgreementRecords
  <2>2. PICK f \in Made(offers) : AcceptsOffer(a, f)
    BY <1>1 DEF RestsOnAcceptance
  <2>3. f \in OfferRequests /\ offers[f] # None /\ offers'[f] = offers[f]
    BY <2>2 DEF Made, TypeOK
  <2>4. f \in Made(offers)' /\ AcceptsOffer(a, f)'
    BY <2>2, <2>3 DEF Made, TypeOK, AcceptsOffer
  <2> QED
    BY <1>1, <2>1, <2>4 DEF RestsOnAcceptance
<1>2. ASSUME NEW b \in BindingRecords, BindingMatches(b) PROVE BindingMatches(b)'
  BY <1>2 DEF BindingMatches, BindingRecords
<1>3. ASSUME NEW c \in Contracts, NEW b \in Nullable(BindingRequests), NEW k \in Nullable(LedgerKeys),
             Keyed(c, b, k)
      PROVE  Keyed(c, b, k)'
  BY <1>3 DEF Keyed, AuthorityKeyOf, Nullable, Negotiated
<1> QED
  BY <1>0, <1>1, <1>2, <1>3

\* The premises of CheckKeeps: what a request of each kind may hold.
Holds(r, record) ==
  /\ r \in OfferRequests => offers[r] = None /\ record \in OfferInputs
  /\ r \in DecisionRequests =>
       decisions[r] = None /\ record \in DecisionRecords /\ DecidesOffer(record)
  /\ r \in AgreementRequests =>
       agreements[r] = None /\ record \in AgreementRecords /\ RestsOnAcceptance(record)
  /\ r \in BindingRequests =>
       bindings[r] = None /\ record \in BindingRecords /\ BindingMatches(record)
  /\ r \in TransitionRequests =>
       transitions[r] = None /\ record \in TransitionRecords /\ Leaves(record)

\* A request that has passed its checks holds a grounded record.
LEMMA CheckKeeps ==
  ASSUME NegotiationInvariant, NEW r \in Recorders, NEW records, NEW record,
         Checked(r, records, record), Holds(r, record)
  PROVE  NegotiationInvariant'
<1> USE DEF NegotiationInvariant, Checked, Holds
<1>1. \A q \in Recorders : draft'[q] = IF q = r THEN record ELSE draft[q]
  BY DEF TypeOK
<1>2. TypeOK'
  <2>1. record \in OfferInputs \cup DecisionRecords \cup AgreementRecords
                     \cup BindingRecords \cup TransitionRecords
    BY DEF Recorders
  <2>2. draft' \in [Recorders -> Nullable(OfferInputs \cup DecisionRecords \cup AgreementRecords
                                        \cup BindingRecords \cup TransitionRecords)]
    BY <2>1 DEF TypeOK, Nullable
  <2>3. /\ \A q \in OfferRequests : draft'[q] \in Nullable(OfferInputs)
        /\ \A q \in DecisionRequests : draft'[q] \in Nullable(DecisionRecords)
        /\ \A q \in AgreementRequests : draft'[q] \in Nullable(AgreementRecords)
        /\ \A q \in BindingRequests : draft'[q] \in Nullable(BindingRecords)
        /\ \A q \in TransitionRequests : draft'[q] \in Nullable(TransitionRecords)
    BY <1>1 DEF TypeOK, Nullable, Recorders
  <2> QED
    BY <2>2, <2>3 DEF TypeOK, policyVars
<1>3. RecordsAreGrounded'
  <2>0. \A d : DecidesOffer(d)' <=> DecidesOffer(d)
    BY DEF DecidesOffer, Made
  <2>1. \A a : RestsOnAcceptance(a)' <=> RestsOnAcceptance(a)
    BY DEF RestsOnAcceptance, AcceptsOffer, Made
  <2>2. \A b : BindingMatches(b)' <=> BindingMatches(b)
    BY DEF BindingMatches
  <2> QED
    BY <1>1, <2>0, <2>1, <2>2 DEF RecordsAreGrounded, Recorders
<1>4. DraftsPrecedeRecords'
  BY <1>1 DEF DraftsPrecedeRecords, Recorders
<1>5. TransitionsLeave'
  BY <1>1 DEF TransitionsLeave, Recorders, Leaves
<1>6. EvaluationsAreKeyed'
  BY DEF EvaluationsAreKeyed, Keyed, AuthorityKeyOf, policyVars
<1>7. LedgerMatchesGreenlights' /\ ObligationClearedOnce'
  BY DEF LedgerMatchesGreenlights, ObligationClearedOnce, Made, policyVars
<1> QED
  BY <1>2, <1>3, <1>4, <1>5, <1>6, <1>7

\* The commit makes a record of what its request held.
LEMMA CommitKeeps ==
  ASSUME NegotiationInvariant, NEW r \in Recorders, CommitNegotiationRecord(r)
  PROVE  NegotiationInvariant'
<1> USE DEF NegotiationInvariant, CommitNegotiationRecord
<1>1. \A q \in Recorders : draft'[q] = IF q = r THEN None ELSE draft[q]
  BY DEF TypeOK
<1>2. /\ \A q \in OfferRequests : offers'[q] = IF q = r THEN draft[r] ELSE offers[q]
      /\ \A q \in DecisionRequests : decisions'[q] = IF q = r THEN draft[r] ELSE decisions[q]
      /\ \A q \in AgreementRequests : agreements'[q] = IF q = r THEN draft[r] ELSE agreements[q]
      /\ \A q \in BindingRequests : bindings'[q] = IF q = r THEN draft[r] ELSE bindings[q]
      /\ \A q \in TransitionRequests : transitions'[q] = IF q = r THEN draft[r] ELSE transitions[q]
  BY DEF TypeOK
<1>3. TypeOK'
  <2>1. draft' \in [Recorders -> Nullable(OfferInputs \cup DecisionRecords \cup AgreementRecords
                                        \cup BindingRecords \cup TransitionRecords)]
    BY DEF TypeOK, Nullable
  <2>2. /\ \A q \in OfferRequests : draft'[q] \in Nullable(OfferInputs)
        /\ \A q \in DecisionRequests : draft'[q] \in Nullable(DecisionRecords)
        /\ \A q \in AgreementRequests : draft'[q] \in Nullable(AgreementRecords)
        /\ \A q \in BindingRequests : draft'[q] \in Nullable(BindingRecords)
        /\ \A q \in TransitionRequests : draft'[q] \in Nullable(TransitionRecords)
    BY <1>1 DEF TypeOK, Nullable, Recorders
  <2>3. offers' \in [OfferRequests -> Nullable(OfferInputs)]
    BY DEF TypeOK
  <2>4. decisions' \in [DecisionRequests -> Nullable(DecisionRecords)]
    BY DEF TypeOK
  <2>5. agreements' \in [AgreementRequests -> Nullable(AgreementRecords)]
    BY DEF TypeOK
  <2>6. bindings' \in [BindingRequests -> Nullable(BindingRecords)]
    BY DEF TypeOK
  <2>7. transitions' \in [TransitionRequests -> Nullable(TransitionRecords)]
    BY DEF TypeOK
  <2> QED
    BY <2>1, <2>2, <2>3, <2>4, <2>5, <2>6, <2>7 DEF TypeOK, policyVars
<1>4. RecordsStay
  BY CommitAdds
<1>5. RecordsAreGrounded'
  <2>0. \A q \in DecisionRequests :
          /\ decisions'[q] # None => decisions'[q] \in DecisionRecords /\ DecidesOffer(decisions'[q])
          /\ draft'[q] # None => draft'[q] \in DecisionRecords /\ DecidesOffer(draft'[q])
    BY <1>1, <1>2, NegotiationNull DEF RecordsAreGrounded, TypeOK, Nullable, Recorders
  <2>1. \A q \in AgreementRequests :
          /\ agreements'[q] # None => agreements'[q] \in AgreementRecords /\ RestsOnAcceptance(agreements'[q])
          /\ draft'[q] # None => draft'[q] \in AgreementRecords /\ RestsOnAcceptance(draft'[q])
    BY <1>1, <1>2, NegotiationNull DEF RecordsAreGrounded, TypeOK, Nullable, Recorders
  <2>2. \A q \in BindingRequests :
          /\ bindings'[q] # None => bindings'[q] \in BindingRecords /\ BindingMatches(bindings'[q])
          /\ draft'[q] # None => draft'[q] \in BindingRecords /\ BindingMatches(draft'[q])
    BY <1>1, <1>2, NegotiationNull DEF RecordsAreGrounded, TypeOK, Nullable, Recorders
  <2>3. /\ \A d \in DecisionRecords : DecidesOffer(d) => DecidesOffer(d)'
        /\ \A a \in AgreementRecords : RestsOnAcceptance(a) => RestsOnAcceptance(a)'
        /\ \A b \in BindingRecords : BindingMatches(b) => BindingMatches(b)'
    BY <1>3, <1>4, GroundsStay
  <2> QED
    BY <2>0, <2>1, <2>2, <2>3 DEF RecordsAreGrounded
<1>6. DraftsPrecedeRecords'
  BY <1>1, <1>2 DEF DraftsPrecedeRecords, Recorders
<1>7. TransitionsLeave'
  BY <1>1, <1>2 DEF TransitionsLeave, Recorders
<1>8. EvaluationsAreKeyed'
  <2>1. \A c \in Contracts, b \in Nullable(BindingRequests), k \in Nullable(LedgerKeys) :
          Keyed(c, b, k) => Keyed(c, b, k)'
    BY <1>3, <1>4, GroundsStay
  <2>2. \A e \in Evaluations :
          /\ evaluation[e] # None => evaluation[e] \in Evaluating
          /\ greenlight[e] # None => greenlight[e] \in Greenlight
    BY DEF TypeOK, Nullable
  <2> QED
    BY <2>1, <2>2 DEF EvaluationsAreKeyed, Evaluating, Greenlight, Nullable, policyVars
<1>9. LedgerMatchesGreenlights' /\ ObligationClearedOnce'
  BY DEF LedgerMatchesGreenlights, ObligationClearedOnce, Made, policyVars
<1> QED
  BY <1>3, <1>5, <1>6, <1>7, <1>8, <1>9

\* Each check establishes what CheckKeeps asks of the record.
LEMMA OfferKeeps ==
  ASSUME NegotiationInvariant, NEW r \in OfferRequests, Offer(r)
  PROVE  NegotiationInvariant'
<1>1. PICK offer \in OfferInputs : Checked(r, offers, offer)
  BY DEF Offer, CheckOffer
<1>2. Holds(r, offer)
  BY <1>1, KindsAreDisjoint DEF Checked, Holds
<1> QED
  BY <1>1, <1>2, CheckKeeps DEF Recorders

\* A checked decision is well formed.
LEMMA DecideKeeps ==
  ASSUME NegotiationInvariant, NEW r \in DecisionRequests, Decide(r)
  PROVE  NegotiationInvariant'
<1>1. PICK kind \in DecisionKinds, party \in Parties, f \in Made(offers), at \in Times :
        \E counter \in IF kind = "counter" THEN {offers[g].version : g \in Made(offers)} ELSE {None} :
          CheckDecision(r, [kind |-> kind, version |-> offers[f].version,
                            sequence |-> offers[f].sequence, party |-> party,
                            counter |-> counter, offer |-> f], at)
  BY DEF Decide
<1>2. PICK counter \in IF kind = "counter" THEN {offers[g].version : g \in Made(offers)} ELSE {None} :
        CheckDecision(r, [kind |-> kind, version |-> offers[f].version,
                          sequence |-> offers[f].sequence, party |-> party,
                          counter |-> counter, offer |-> f], at)
  BY <1>1
<1> DEFINE record == [kind |-> kind, version |-> offers[f].version, sequence |-> offers[f].sequence,
                      party |-> party, counter |-> counter, offer |-> f]
<1>3. \A g \in Made(offers) : offers[g] \in OfferInputs /\ g \in OfferRequests
  BY DEF NegotiationInvariant, TypeOK, Made, Nullable
<1>4. counter \in Nullable(Versions)
  BY <1>2, <1>3 DEF Nullable, Versions
<1>5. record \in DecisionRecords
  BY <1>3, <1>4 DEF DecisionRecords, Versions, Sequences
<1>6. Checked(r, decisions, record)
  BY <1>2 DEF CheckDecision
<1>7. DecidesOffer(record)
  BY DEF DecidesOffer
<1>8. Holds(r, record)
  BY <1>5, <1>6, <1>7, KindsAreDisjoint DEF Checked, Holds
<1> QED
  BY <1>6, <1>8, CheckKeeps DEF Recorders

\* A checked agreement rests on an acceptance of an offer with its content.
LEMMA AgreeKeeps ==
  ASSUME NegotiationInvariant, NEW r \in AgreementRequests, Agree(r)
  PROVE  NegotiationInvariant'
<1>1. PICK d \in Made(decisions), f \in Made(offers), content \in Contents, party \in Parties,
           obligation \in Obligations, expires \in AgreementExpiries, at \in Times :
        CheckAgreement(r, [decision |-> d, version |-> offers[f].version,
                           sequence |-> offers[f].sequence, content |-> content,
                           party |-> party, obligation |-> obligation, expires |-> expires], at)
  BY DEF Agree
<1> DEFINE record == [decision |-> d, version |-> offers[f].version, sequence |-> offers[f].sequence,
                      content |-> content, party |-> party, obligation |-> obligation,
                      expires |-> expires]
<1>2. offers[f] \in OfferInputs /\ d \in DecisionRequests
  BY DEF NegotiationInvariant, TypeOK, Made, Nullable
<1>3. record \in AgreementRecords
  BY <1>2 DEF AgreementRecords, Versions, Sequences, Contents
<1>4. Checked(r, agreements, record) /\ RestsOnDecision(record)
  BY <1>1 DEF CheckAgreement
<1>5. PICK g \in OffersByVersion(record.version) : AcceptsOffer(record, g)
  BY <1>1 DEF CheckAgreement
<1>6. RestsOnAcceptance(record)
  BY <1>4, <1>5 DEF RestsOnDecision, RestsOnAcceptance, OffersByVersion
<1>7. Holds(r, record)
  BY <1>3, <1>4, <1>6, KindsAreDisjoint DEF Checked, Holds
<1> QED
  BY <1>4, <1>7, CheckKeeps DEF Recorders

\* A checked binding fits its agreement and its contract.
LEMMA BindKeeps ==
  ASSUME NegotiationInvariant, NEW r \in BindingRequests, Bind(r)
  PROVE  NegotiationInvariant'
<1>1. PICK a \in Made(agreements), c \in Contracts : CheckBinding(r, [agreement |-> a, contract |-> c])
  BY DEF Bind
<1> DEFINE record == [agreement |-> a, contract |-> c]
<1>2. record \in BindingRecords
  BY DEF BindingRecords, NegotiationInvariant, TypeOK, Made
<1>3. Checked(r, bindings, record) /\ BindingMatches(record)
  BY <1>1 DEF CheckBinding
<1>4. Holds(r, record)
  BY <1>2, <1>3, KindsAreDisjoint DEF Checked, Holds
<1> QED
  BY <1>3, <1>4, CheckKeeps DEF Recorders

\* The current status is active, or one that transitions led to.
LEMMA StatusHasLeft ==
  ASSUME NegotiationInvariant, NEW a \in AgreementRequests, NEW status \in CurrentStatuses(a)
  PROVE  status # "proposed"
BY DEF CurrentStatuses, NegotiationInvariant, TransitionsLeave, Leaves, Made, TypeOK

\* A checked transition leads away from the active status.
LEMMA ChangeStatusKeeps ==
  ASSUME NegotiationInvariant, NEW r \in TransitionRequests, ChangeStatus(r)
  PROVE  NegotiationInvariant'
<1>1. PICK a \in Made(agreements), from \in Statuses, to \in StatusInputs, at \in Times :
        CheckTransition(r, [agreement |-> a, from |-> from, to |-> to, createdAt |-> at])
  BY DEF ChangeStatus
<1> DEFINE record == [agreement |-> a, from |-> from, to |-> to, createdAt |-> at]
<1>2. a \in AgreementRequests
  BY DEF NegotiationInvariant, TypeOK, Made
<1>3. record \in TransitionRecords
  BY <1>2, NegotiationConstants DEF TransitionRecords
<1>4. /\ Checked(r, transitions, record)
      /\ from \in CurrentStatuses(a)
      /\ <<from, to>> \in AllowedStatusTransitions
  BY <1>1 DEF CheckTransition
<1>5. from # "proposed"
  BY <1>2, <1>4, StatusHasLeft
<1>6. Leaves(record)
  BY <1>4, <1>5 DEF AllowedStatusTransitions, Leaves
<1>7. Holds(r, record)
  BY <1>3, <1>4, <1>6, KindsAreDisjoint DEF Checked, Holds
<1> QED
  BY <1>4, <1>7, CheckKeeps DEF Recorders

\* An evaluation under way changes nothing but what it has read.
LEMMA ReadingKeeps ==
  ASSUME NegotiationInvariant, NEW e \in Evaluations, NEW plan \in Nullable(Evaluating),
         UNCHANGED <<clock, recordVars, greenlight, ledger>>,
         evaluation' = [evaluation EXCEPT ![e] = plan],
         plan # None => Keyed(plan.contract, plan.binding, plan.key) /\ greenlight[e] = None
  PROVE  NegotiationInvariant'
<1> USE DEF NegotiationInvariant, recordVars
<1>1. \A q \in Evaluations : evaluation'[q] = IF q = e THEN plan ELSE evaluation[q]
  BY DEF TypeOK
<1>2. TypeOK'
  BY DEF TypeOK
<1>3. RecordsAreGrounded'
  BY DEF RecordsAreGrounded, DecidesOffer, RestsOnAcceptance, AcceptsOffer, Made, BindingMatches
<1>4. DraftsPrecedeRecords' /\ TransitionsLeave'
  BY DEF DraftsPrecedeRecords, TransitionsLeave
<1>5. EvaluationsAreKeyed'
  <2>1. \A c, b, k : Keyed(c, b, k) => Keyed(c, b, k)'
    BY DEF Keyed, AuthorityKeyOf, Negotiated
  <2>2. \A q \in Evaluations : greenlight[q] # None =>
          Keyed(greenlight[q].contract, greenlight[q].binding, greenlight[q].key)
    BY DEF EvaluationsAreKeyed
  <2>3. \A q \in Evaluations : evaluation'[q] # None =>
          /\ Keyed(evaluation'[q].contract, evaluation'[q].binding, evaluation'[q].key)
          /\ greenlight[q] = None
    BY <1>1 DEF EvaluationsAreKeyed
  <2> QED
    BY <2>1, <2>2, <2>3 DEF EvaluationsAreKeyed
<1>6. LedgerMatchesGreenlights' /\ ObligationClearedOnce'
  BY DEF LedgerMatchesGreenlights, ObligationClearedOnce, Made
<1> QED
  BY <1>2, <1>3, <1>4, <1>5, <1>6

\* What an evaluation lists is the binding of its contract.
LEMMA ListBindingsKeeps ==
  ASSUME NegotiationInvariant, NEW e \in Evaluations, NEW c \in Contracts,
         NEW b \in Nullable(BindingRequests), ListBindings(e, c, b)
  PROVE  NegotiationInvariant'
<1> DEFINE plan == [contract |-> c, now |-> clock, binding |-> b, key |-> None]
<1>1. plan \in Nullable(Evaluating)
  BY DEF Nullable, Evaluating, NegotiationInvariant, TypeOK
<1>2. Keyed(c, b, None)
  BY NegotiationNull DEF ListBindings, Keyed, TheBinding, BindingsOf, Made
<1>3. /\ UNCHANGED <<clock, recordVars, greenlight, ledger>>
      /\ evaluation' = [evaluation EXCEPT ![e] = plan]
      /\ greenlight[e] = None
  BY DEF ListBindings
<1> QED
  BY <1>1, <1>2, <1>3, ReadingKeeps

\* The key an evaluation settles on is the one its binding makes.
LEMMA EvaluateAgreementKeeps ==
  ASSUME NegotiationInvariant, NEW e \in Evaluations, EvaluateAgreement(e)
  PROVE  NegotiationInvariant'
<1> DEFINE plan == evaluation[e]
           key == AuthorityKeyOf(plan.contract, plan.binding)
           next == [plan EXCEPT !.key = key]
<1>1. plan \in Evaluating /\ Keyed(plan.contract, plan.binding, plan.key) /\ greenlight[e] = None
  BY DEF EvaluateAgreement, NegotiationInvariant, TypeOK, Nullable, EvaluationsAreKeyed
<1>2. key \in LedgerKeys
  <2>1. CASE plan.binding = None
    BY <1>1, <2>1 DEF AuthorityKeyOf, Evaluating, LedgerKeys
  <2>2. CASE plan.binding # None
    <3>1. bindings[plan.binding] \in BindingRecords
      BY <1>1, <2>2 DEF Evaluating, Keyed, Nullable, NegotiationInvariant, TypeOK
    <3>2. LedgerScopeOf[plan.contract] \in LedgerScopes
      BY <1>1, NegotiationConstants DEF Evaluating
    <3> QED
      BY <2>2, <3>1, <3>2 DEF AuthorityKeyOf, BindingRecords, LedgerKeys
  <2> QED
    BY <2>1, <2>2
<1>3. /\ next \in Evaluating
      /\ next.contract = plan.contract
      /\ next.binding = plan.binding
      /\ next.key = key
  BY <1>1, <1>2 DEF Evaluating, Nullable
<1>4. Keyed(next.contract, next.binding, next.key)
  BY <1>1, <1>3 DEF Keyed
<1>5. /\ UNCHANGED <<clock, recordVars, greenlight, ledger>>
      /\ evaluation' = [evaluation EXCEPT ![e] = next]
  BY DEF EvaluateAgreement
<1> HIDE DEF next
<1> QED
  BY <1>1, <1>3, <1>4, <1>5, ReadingKeeps DEF Nullable

\* The commit takes a ledger key nobody holds.
LEMMA GreenlightKeeps ==
  ASSUME NegotiationInvariant, NEW e \in Evaluations, CommitObligationGreenlight(e)
  PROVE  NegotiationInvariant'
<1> USE DEF NegotiationInvariant
<1> DEFINE plan == evaluation[e]
           granted == [contract |-> plan.contract, binding |-> plan.binding, key |-> plan.key]
<1>1. /\ plan \in Evaluating
      /\ plan.key \in LedgerKeys
      /\ ledger[plan.key] = None
      /\ Keyed(plan.contract, plan.binding, plan.key)
      /\ greenlight[e] = None
  BY DEF CommitObligationGreenlight, TypeOK, Nullable, Evaluating, EvaluationsAreKeyed
<1>2. /\ granted \in Greenlight
      /\ granted.contract = plan.contract
      /\ granted.binding = plan.binding
      /\ granted.key = plan.key
  BY <1>1 DEF Greenlight, Evaluating
<1>3. /\ greenlight' = [greenlight EXCEPT ![e] = granted]
      /\ ledger' = [ledger EXCEPT ![plan.key] = plan.contract]
      /\ evaluation' = [evaluation EXCEPT ![e] = None]
      /\ UNCHANGED <<clock, recordVars>>
  BY DEF CommitObligationGreenlight, RecordObligationGreenlight
<1> HIDE DEF granted, plan
<1>4. /\ \A q \in Evaluations : evaluation'[q] = IF q = e THEN None ELSE evaluation[q]
      /\ \A q \in Evaluations : greenlight'[q] = IF q = e THEN granted ELSE greenlight[q]
      /\ \A k \in LedgerKeys : ledger'[k] = IF k = plan.key THEN plan.contract ELSE ledger[k]
  BY <1>3 DEF TypeOK
<1>5. plan.contract \in Contracts /\ plan.contract # None /\ granted # None
  BY <1>1, <1>2, NegotiationNull DEF Evaluating
<1>6. TypeOK'
  BY <1>2, <1>3, <1>5 DEF TypeOK, Nullable, recordVars
<1>7. RecordsAreGrounded' /\ DraftsPrecedeRecords' /\ TransitionsLeave'
  BY <1>3 DEF RecordsAreGrounded, DecidesOffer, RestsOnAcceptance, AcceptsOffer, Made, BindingMatches,
              DraftsPrecedeRecords, TransitionsLeave, recordVars
<1>8. EvaluationsAreKeyed'
  BY <1>1, <1>2, <1>3, <1>4 DEF EvaluationsAreKeyed, Keyed, AuthorityKeyOf, recordVars
<1>9. \A q \in Evaluations : greenlight[q] # None => greenlight[q].key # plan.key
  BY <1>1, NegotiationNull DEF LedgerMatchesGreenlights, TypeOK, Nullable, Greenlight
<1>10. LedgerMatchesGreenlights'
  <2>1. \A q \in Evaluations : greenlight'[q] # None => ledger'[greenlight'[q].key] = greenlight'[q].contract
    BY <1>1, <1>2, <1>4, <1>9 DEF LedgerMatchesGreenlights, TypeOK, Nullable, Greenlight
  <2>2. ASSUME NEW k \in LedgerKeys, ledger'[k] # None
        PROVE  \E q \in Evaluations : greenlight'[q] # None /\ greenlight'[q].key = k
    <3>1. CASE k = plan.key
      BY <1>2, <1>4, <1>5, <3>1
    <3>2. CASE k # plan.key
      BY <1>1, <1>4, <2>2, <3>2 DEF LedgerMatchesGreenlights
    <3> QED
      BY <3>1, <3>2
  <2> QED
    BY <2>1, <2>2 DEF LedgerMatchesGreenlights
<1>11. ObligationClearedOnce'
  <2>1. \A q \in Made(greenlight)' : q \in Evaluations /\ greenlight'[q] # None
    BY <1>6 DEF Made, TypeOK
  <2>2. \A q \in Evaluations : greenlight[q] # None => q \in Made(greenlight)
    BY DEF Made, TypeOK
  <2> QED
    BY <1>2, <1>4, <1>9, <2>1, <2>2 DEF ObligationClearedOnce
<1> QED
  BY <1>6, <1>7, <1>8, <1>10, <1>11

\* The inductive step.
LEMMA StepKeeps == NegotiationInvariant /\ [Next]_vars => NegotiationInvariant'
<1> SUFFICES ASSUME NegotiationInvariant, [Next]_vars PROVE NegotiationInvariant'
  OBVIOUS
<1>1. CASE Tick \/ UNCHANGED vars
  <2> USE <1>1 DEF NegotiationInvariant, Tick, vars, recordVars, policyVars
  <2>1. clock' \in Times
    BY NegotiationConstants DEF TypeOK, Times
  <2>2. TypeOK'
    BY <2>1 DEF TypeOK
  <2>3. RecordsAreGrounded' /\ DraftsPrecedeRecords' /\ TransitionsLeave'
    BY DEF RecordsAreGrounded, DecidesOffer, RestsOnAcceptance, AcceptsOffer, Made, BindingMatches,
           DraftsPrecedeRecords, TransitionsLeave
  <2>4. EvaluationsAreKeyed' /\ LedgerMatchesGreenlights' /\ ObligationClearedOnce'
    BY DEF EvaluationsAreKeyed, Keyed, AuthorityKeyOf, LedgerMatchesGreenlights,
           ObligationClearedOnce, Made
  <2> QED
    BY <2>2, <2>3, <2>4
<1>2. ASSUME NEW e \in Evaluations, Evaluate(e) PROVE NegotiationInvariant'
  BY <1>2, ListBindingsKeeps DEF Evaluate
<1>3. ASSUME NEW e \in Evaluations, WithholdAuthority(e) PROVE NegotiationInvariant'
  BY <1>3, ReadingKeeps DEF WithholdAuthority, Nullable
<1> QED
  BY <1>1, <1>2, <1>3, OfferKeeps, DecideKeeps, AgreeKeeps, BindKeeps, ChangeStatusKeeps,
     CommitKeeps, EvaluateAgreementKeeps, GreenlightKeeps DEF Next

(***************************************************************************)
(* The theorems                                                             *)
(***************************************************************************)
\* The inductive invariant: records stay grounded in the records they name, and
\* ledger and greenlights tell the same story, however recordings,
\* transitions and evaluations interleave.
THEOREM NegotiationHolds == Spec => []NegotiationInvariant
BY InitKeeps, StepKeeps, PTL DEF Spec

\* One obligation is cleared by one greenlight, although nothing keeps two
\* bindings, or two agreements, from being recorded at once.
THEOREM ObligationsAreClearedOnce == Spec => []ObligationClearedOnce
BY NegotiationHolds, PTL DEF NegotiationInvariant

\* What a greenlight for a negotiated contract clears was accepted.
LEMMA InvariantTerms == NegotiationInvariant => GreenlightRestsOnAcceptedTerms
<1> SUFFICES ASSUME NegotiationInvariant, NEW e \in Made(greenlight), Negotiated(greenlight[e].contract)
             PROVE  LET g == greenlight[e]
                        terms == TermsOf(g)
                        acceptance == decisions[terms.decision]
                        accepted == offers[acceptance.offer]
                    IN /\ bindings[g.binding].contract = g.contract
                       /\ g.key \in KeysOf(bindings[g.binding].agreement)
                       /\ terms.obligation = ObligationOf[g.contract]
                       /\ terms.party = CounterpartyOf[g.contract]
                       /\ acceptance.kind = "accept"
                       /\ acceptance.party = terms.party
                       /\ accepted.version = terms.version
                       /\ accepted.sequence = terms.sequence
                       /\ accepted.content = terms.content \/ Rivalled(terms.version)
  BY DEF GreenlightRestsOnAcceptedTerms
<1> DEFINE g == greenlight[e]
<1>1. e \in Evaluations /\ g # None /\ g \in Greenlight
  BY DEF Made, NegotiationInvariant, TypeOK, Nullable
<1>2. Keyed(g.contract, g.binding, g.key)
  BY <1>1 DEF NegotiationInvariant, EvaluationsAreKeyed
<1>3. /\ g.binding \in BindingRequests
      /\ bindings[g.binding] # None
      /\ bindings[g.binding].contract = g.contract
      /\ g.key \in KeysOf(bindings[g.binding].agreement)
  <2>1. /\ g.binding \in BindingRequests
        /\ bindings[g.binding] # None
        /\ bindings[g.binding].contract = g.contract
        /\ g.key = <<bindings[g.binding].agreement, LedgerScopeOf[g.contract]>>
    BY <1>1, <1>2, NegotiationNull DEF Keyed, Greenlight, Nullable, AuthorityKeyOf
  <2>2. LedgerScopeOf[g.contract] \in LedgerScopes
    BY <1>1, NegotiationConstants DEF Greenlight
  <2> QED
    BY <2>1, <2>2 DEF KeysOf
<1>4. BindingMatches(bindings[g.binding]) /\ bindings[g.binding] \in BindingRecords
  BY <1>3 DEF NegotiationInvariant, RecordsAreGrounded, TypeOK, Nullable
<1>5. RestsOnAcceptance(TermsOf(g))
  BY <1>4 DEF BindingMatches, TermsOf, BindingRecords, NegotiationInvariant, RecordsAreGrounded
<1> DEFINE terms == TermsOf(g)
           acceptance == decisions[terms.decision]
<1>6. terms.decision \in DecisionRequests
  BY <1>4 DEF BindingMatches, TermsOf, BindingRecords, NegotiationInvariant, TypeOK, Nullable,
              AgreementRecords
<1>7. DecidesOffer(acceptance)
  BY <1>5, <1>6 DEF RestsOnAcceptance, NegotiationInvariant, RecordsAreGrounded
<1>8. PICK f \in Made(offers) : AcceptsOffer(terms, f)
  BY <1>5 DEF RestsOnAcceptance
<1>9. offers[acceptance.offer].version = terms.version /\ offers[acceptance.offer].sequence = terms.sequence
  BY <1>5, <1>7 DEF RestsOnAcceptance, DecidesOffer
<1>10. offers[acceptance.offer].content = terms.content \/ Rivalled(terms.version)
  BY <1>7, <1>8, <1>9 DEF DecidesOffer, AcceptsOffer, Rivalled
<1> QED
  BY <1>3, <1>4, <1>5, <1>9, <1>10 DEF BindingMatches, TermsOf, RestsOnAcceptance

\* What a greenlight of a negotiated contract clears is the content of the offer
\* its counterparty accepted, unless offers of different content were recorded
\* under the accepted version (recordLinkedAgreement).
THEOREM TermsWereAccepted == Spec => []GreenlightRestsOnAcceptedTerms
BY NegotiationHolds, InvariantTerms, PTL

\* A step leaves what transitions there are, so an agreement that has some
\* never falls back to being active by default.
LEMMA LeftStays ==
  ASSUME NegotiationInvariant, [Next]_vars, NEW a \in AgreementRequests,
         "active" \notin CurrentStatuses(a)
  PROVE  "active" \notin CurrentStatuses(a)'
<1>1. NegotiationInvariant' /\ RecordsStay
  BY StepKeeps, NextAdds
<1>2. PICK t \in Made(transitions) : transitions[t].agreement = a
  BY DEF CurrentStatuses
<1>3. t \in TransitionRequests /\ transitions[t] # None
  BY <1>2 DEF Made, NegotiationInvariant, TypeOK
<1>4. t \in Made(transitions)' /\ transitions'[t].agreement = a
  BY <1>1, <1>2, <1>3 DEF RecordsStay, Made, NegotiationInvariant, TypeOK
<1>5. \A u \in Made(transitions)' : transitions'[u].to # "active"
  BY <1>1 DEF Made, NegotiationInvariant, TypeOK, TransitionsLeave, Leaves
<1> QED
  BY <1>4, <1>5 DEF CurrentStatuses

\* An evaluation settles on a key in one step only.
LEMMA KeyWhileActive ==
  ASSUME NegotiationInvariant, [Next]_vars, NEW a \in AgreementRequests,
         "active" \notin CurrentStatuses(a), NEW e \in Evaluations,
         evaluation'[e] # None, evaluation'[e].key \in KeysOf(a)
  PROVE  evaluation[e] # None /\ evaluation[e].key = evaluation'[e].key
<1>1. CASE UNCHANGED evaluation
  BY <1>1
<1>2. ASSUME NEW f \in Evaluations, NEW c \in Contracts, NEW b \in Nullable(BindingRequests),
             ListBindings(f, c, b)
      PROVE  e # f /\ evaluation'[e] = evaluation[e]
  <2>1. None \notin KeysOf(a)
    BY NegotiationNull DEF KeysOf, LedgerKeys
  <2>2. e # f
    BY <1>2, <2>1 DEF ListBindings, NegotiationInvariant, TypeOK
  <2> QED
    BY <1>2, <2>2 DEF ListBindings, NegotiationInvariant, TypeOK
<1>3. ASSUME NEW f \in Evaluations, EvaluateAgreement(f)
      PROVE  e # f /\ evaluation'[e] = evaluation[e]
  <2> DEFINE plan == evaluation[f]
             key == AuthorityKeyOf(plan.contract, plan.binding)
  <2>1. CASE e # f
    BY <1>3, <2>1 DEF EvaluateAgreement, NegotiationInvariant, TypeOK
  <2>2. CASE e = f
    <3>1. plan \in Evaluating /\ evaluation'[e] = [plan EXCEPT !.key = key]
      BY <1>3, <2>2 DEF EvaluateAgreement, NegotiationInvariant, TypeOK, Nullable
    <3>2. key \in KeysOf(a)
      BY <3>1 DEF Evaluating
    <3>3. plan.binding # None
      BY <3>1, <3>2, KindsAreDisjoint DEF AuthorityKeyOf, Evaluating, KeysOf
    <3>4. bindings[plan.binding].agreement = a
      BY <3>2, <3>3 DEF AuthorityKeyOf, KeysOf
    <3>5. "active" \in CurrentStatuses(a)
      BY <1>3, <3>3, <3>4 DEF EvaluateAgreement, AgreementIsLive
    <3> QED
      BY <3>5
  <2> QED
    BY <2>1, <2>2
<1>4. ASSUME NEW f \in Evaluations, CommitObligationGreenlight(f) \/ WithholdAuthority(f)
      PROVE  e # f /\ evaluation'[e] = evaluation[e]
  BY <1>4 DEF CommitObligationGreenlight, RecordObligationGreenlight, WithholdAuthority,
              NegotiationInvariant, TypeOK
<1>5. ASSUME NEW r, Offer(r) \/ Decide(r) \/ Agree(r) \/ Bind(r) \/ ChangeStatus(r)
      PROVE  UNCHANGED evaluation
  <2>1. ASSUME NEW records, NEW record, Checked(r, records, record) PROVE UNCHANGED evaluation
    BY <2>1 DEF Checked, policyVars
  <2>2. CASE Offer(r)
    BY <2>1, <2>2 DEF Offer, CheckOffer
  <2>3. CASE Decide(r)
    BY <2>1, <2>3 DEF Decide, CheckDecision
  <2>4. CASE Agree(r)
    BY <2>1, <2>4 DEF Agree, CheckAgreement
  <2>5. CASE Bind(r)
    BY <2>1, <2>5 DEF Bind, CheckBinding
  <2>6. CASE ChangeStatus(r)
    BY <2>1, <2>6 DEF ChangeStatus, CheckTransition
  <2> QED
    BY <1>5, <2>2, <2>3, <2>4, <2>5, <2>6
<1>6. ASSUME NEW r \in Recorders, CommitNegotiationRecord(r) PROVE UNCHANGED evaluation
  BY <1>6 DEF CommitNegotiationRecord, policyVars
<1>7. CASE Tick \/ UNCHANGED vars
  BY <1>1, <1>7 DEF Tick, vars, policyVars
<1>8. ASSUME NEW f \in Evaluations, Evaluate(f) PROVE e # f /\ evaluation'[e] = evaluation[e]
  BY <1>2, <1>8 DEF Evaluate
<1> QED
  BY <1>1, <1>3, <1>4, <1>5, <1>6, <1>7, <1>8 DEF Next

\* A left agreement is left for good and for everyone who asks from now on.
THEOREM LeftForGood == Spec => LeftAgreementsWithhold
<1>1. NegotiationInvariant /\ [Next]_vars =>
        [\A a \in AgreementRequests : "active" \notin CurrentStatuses(a) =>
           /\ "active" \notin CurrentStatuses(a)'
           /\ \A e \in Evaluations : evaluation'[e] # None /\ evaluation'[e].key \in KeysOf(a) =>
                evaluation[e] # None /\ evaluation[e].key = evaluation'[e].key]_vars
  BY LeftStays, KeyWhileActive
<1> QED
  BY <1>1, NegotiationHolds, PTL DEF Spec, LeftAgreementsWithhold

\* A contract with bindings is a negotiated one.
LEMMA BoundIsNegotiated ==
  ASSUME NegotiationInvariant, NEW c \in Contracts, BindingsOf(c) # {}
  PROVE  Negotiated(c)
<1>1. PICK b \in BindingRequests : bindings[b] # None /\ bindings[b].contract = c
  BY DEF BindingsOf, Made, NegotiationInvariant, TypeOK
<1>2. BindingMatches(bindings[b])
  BY <1>1 DEF NegotiationInvariant, RecordsAreGrounded
<1>3. bindings[b].agreement \in AgreementRequests
  BY <1>1 DEF NegotiationInvariant, TypeOK, Nullable, BindingRecords
<1>4. agreements[bindings[b].agreement].obligation \in Obligations
  BY <1>2, <1>3 DEF BindingMatches, NegotiationInvariant, TypeOK, Nullable, AgreementRecords
<1> QED
  BY <1>1, <1>2, <1>4, NegotiationNull DEF BindingMatches, Negotiated

\* Bindings stay, so what is ambiguous stays ambiguous.
LEMMA AmbiguityStays ==
  ASSUME NegotiationInvariant, [Next]_vars, NEW c \in Contracts, Ambiguous(c)
  PROVE  Ambiguous(c)'
<1>1. PICK b \in BindingsOf(c), other \in BindingsOf(c) : b # other
  BY DEF Ambiguous
<1>2. RecordsStay
  BY NextAdds
<1>3. NegotiationInvariant'
  BY StepKeeps
<1>4. ASSUME NEW d \in BindingsOf(c) PROVE d \in BindingsOf(c)'
  <2>1. d \in BindingRequests /\ bindings[d] # None /\ bindings[d].contract = c
    BY <1>4 DEF BindingsOf, Made, NegotiationInvariant, TypeOK
  <2>2. bindings'[d] = bindings[d]
    BY <1>2, <2>1 DEF RecordsStay
  <2>3. DOMAIN bindings' = BindingRequests
    BY <1>3 DEF NegotiationInvariant, TypeOK
  <2> QED
    BY <2>1, <2>2, <2>3 DEF BindingsOf, Made
<1> QED
  BY <1>1, <1>4 DEF Ambiguous

\* An evaluation that lists two bindings goes no further.
LEMMA ListingIsUnambiguous ==
  ASSUME NegotiationInvariant, NEW e \in Evaluations, NEW c \in Contracts, Ambiguous(c),
         NEW b, ListBindings(e, c, b)
  PROVE  FALSE
<1>1. Negotiated(c)
  BY BoundIsNegotiated DEF Ambiguous
<1>2. BindingsOf(c) = {b}
  BY <1>1 DEF ListBindings, TheBinding
<1> QED
  BY <1>2 DEF Ambiguous

\* An evaluation starts in one step only, and with a contract it names.
LEMMA StartsByListing ==
  ASSUME NegotiationInvariant, [Next]_vars, NEW c \in Contracts, Ambiguous(c),
         NEW e \in Evaluations, evaluation[e] = None, evaluation'[e] # None
  PROVE  evaluation'[e].contract # c
<1>1. CASE UNCHANGED evaluation
  BY <1>1
<1>2. ASSUME NEW f \in Evaluations, Evaluate(f) PROVE evaluation'[e].contract # c
  <2>1. PICK d \in Contracts, b \in Nullable(BindingRequests) : ListBindings(f, d, b)
    BY <1>2 DEF Evaluate
  <2>2. d # c
    BY <2>1, ListingIsUnambiguous
  <2>3. evaluation' = [evaluation EXCEPT
          ![f] = [contract |-> d, now |-> clock, binding |-> b, key |-> None]]
    BY <2>1 DEF ListBindings
  <2>4. e = f
    BY <2>3 DEF NegotiationInvariant, TypeOK
  <2>5. evaluation'[e] = [contract |-> d, now |-> clock, binding |-> b, key |-> None]
    BY <2>3, <2>4 DEF NegotiationInvariant, TypeOK
  <2> QED
    BY <2>2, <2>5
<1>3. ASSUME NEW f \in Evaluations,
             EvaluateAgreement(f) \/ CommitObligationGreenlight(f) \/ WithholdAuthority(f)
      PROVE  e # f /\ evaluation'[e] = evaluation[e]
  <2>1. CASE EvaluateAgreement(f)
    BY <2>1 DEF EvaluateAgreement, NegotiationInvariant, TypeOK
  <2>2. CASE CommitObligationGreenlight(f)
    BY <2>2 DEF CommitObligationGreenlight, RecordObligationGreenlight, NegotiationInvariant, TypeOK
  <2>3. CASE WithholdAuthority(f)
    BY <2>3 DEF WithholdAuthority, NegotiationInvariant, TypeOK
  <2> QED
    BY <1>3, <2>1, <2>2, <2>3
<1>4. ASSUME NEW r, Offer(r) \/ Decide(r) \/ Agree(r) \/ Bind(r) \/ ChangeStatus(r)
      PROVE  UNCHANGED evaluation
  <2>1. ASSUME NEW records, NEW record, Checked(r, records, record) PROVE UNCHANGED evaluation
    BY <2>1 DEF Checked, policyVars
  <2>2. CASE Offer(r)
    BY <2>1, <2>2 DEF Offer, CheckOffer
  <2>3. CASE Decide(r)
    BY <2>1, <2>3 DEF Decide, CheckDecision
  <2>4. CASE Agree(r)
    BY <2>1, <2>4 DEF Agree, CheckAgreement
  <2>5. CASE Bind(r)
    BY <2>1, <2>5 DEF Bind, CheckBinding
  <2>6. CASE ChangeStatus(r)
    BY <2>1, <2>6 DEF ChangeStatus, CheckTransition
  <2> QED
    BY <1>4, <2>2, <2>3, <2>4, <2>5, <2>6
<1>5. ASSUME NEW r \in Recorders, CommitNegotiationRecord(r) PROVE UNCHANGED evaluation
  BY <1>5 DEF CommitNegotiationRecord, policyVars
<1>6. CASE Tick \/ UNCHANGED vars
  BY <1>1, <1>6 DEF Tick, vars, policyVars
<1> QED
  BY <1>1, <1>2, <1>3, <1>4, <1>5, <1>6 DEF Next

\* Two bindings of one contract, which nothing keeps from being recorded at
\* once, withhold authority for good.
THEOREM AmbiguityWithholds == Spec => AmbiguousBindingsWithhold
<1>1. NegotiationInvariant /\ [Next]_vars =>
        [\A c \in Contracts : Ambiguous(c) =>
           /\ Ambiguous(c)'
           /\ \A e \in Evaluations : evaluation[e] = None /\ evaluation'[e] # None =>
                evaluation'[e].contract # c]_vars
  BY AmbiguityStays, StartsByListing
<1> QED
  BY <1>1, NegotiationHolds, PTL DEF Spec, AmbiguousBindingsWithhold

\* The steps of the negotiation are steps of one-use authority.
LEMMA NegotiationSimulates ==
  NegotiationInvariant /\ [Next]_vars => [Authority!Next]_(Authority!authorityVars)
<1> SUFFICES ASSUME NegotiationInvariant, [Next]_vars
             PROVE  [Authority!Next]_(Authority!authorityVars)
  OBVIOUS
<1>1. CASE UNCHANGED ledger
  BY <1>1 DEF Authority!authorityVars
<1>2. ASSUME NEW e \in Evaluations, CommitObligationGreenlight(e) PROVE Authority!Next
  <2> DEFINE plan == evaluation[e]
  <2>1. /\ plan \in Evaluating
        /\ plan.key \in LedgerKeys
        /\ plan.contract \in Contracts
        /\ ledger[plan.key] = None
        /\ ledger' = [ledger EXCEPT ![plan.key] = plan.contract]
    BY <1>2 DEF CommitObligationGreenlight, RecordObligationGreenlight, NegotiationInvariant,
                TypeOK, Nullable, Evaluating
  <2>2. ASSUME NEW k \in LedgerKeys, ledger[k] = plan.contract PROVE FALSE
    <3>1. PICK q \in Evaluations : greenlight[q] # None /\ greenlight[q].key = k
      BY <2>1, <2>2, NegotiationNull DEF NegotiationInvariant, LedgerMatchesGreenlights
    <3>2. greenlight[q].contract = plan.contract
      BY <2>2, <3>1 DEF NegotiationInvariant, LedgerMatchesGreenlights
    <3>3. q \in Made(greenlight)
      BY <3>1 DEF Made, NegotiationInvariant, TypeOK
    <3> QED
      BY <1>2, <3>2, <3>3 DEF CommitObligationGreenlight, Unissued
  <2>3. Authority!Grant(plan.key, plan.contract)
    BY <2>1, <2>2 DEF Authority!Grant
  <2> QED
    BY <2>1, <2>3 DEF Authority!Next
<1>3. ASSUME NEW r, Offer(r) \/ Decide(r) \/ Agree(r) \/ Bind(r) \/ ChangeStatus(r)
      PROVE  UNCHANGED ledger
  <2>1. ASSUME NEW records, NEW record, Checked(r, records, record) PROVE UNCHANGED ledger
    BY <2>1 DEF Checked, policyVars
  <2>2. CASE Offer(r)
    BY <2>1, <2>2 DEF Offer, CheckOffer
  <2>3. CASE Decide(r)
    BY <2>1, <2>3 DEF Decide, CheckDecision
  <2>4. CASE Agree(r)
    BY <2>1, <2>4 DEF Agree, CheckAgreement
  <2>5. CASE Bind(r)
    BY <2>1, <2>5 DEF Bind, CheckBinding
  <2>6. CASE ChangeStatus(r)
    BY <2>1, <2>6 DEF ChangeStatus, CheckTransition
  <2> QED
    BY <1>3, <2>2, <2>3, <2>4, <2>5, <2>6
<1>4. CASE Tick \/ UNCHANGED vars
  BY <1>1, <1>4 DEF Tick, vars, policyVars
<1>5. ASSUME NEW r \in Recorders, CommitNegotiationRecord(r) PROVE UNCHANGED ledger
  BY <1>5 DEF CommitNegotiationRecord, policyVars
<1>6. ASSUME NEW e \in Evaluations, Evaluate(e) PROVE UNCHANGED ledger
  BY <1>6 DEF Evaluate, ListBindings
<1>7. ASSUME NEW e \in Evaluations, EvaluateAgreement(e) \/ WithholdAuthority(e) PROVE UNCHANGED ledger
  BY <1>7 DEF EvaluateAgreement, WithholdAuthority
<1> QED
  BY <1>1, <1>2, <1>3, <1>4, <1>5, <1>6, <1>7 DEF Next

\* The keys of negotiated and other contracts are held as OneUseAuthority says.
THEOREM NegotiationKeepsOneUseAuthority == Spec => ObligationAuthority
<1>1. Init => Authority!Init
  BY DEF Init, Authority!Init
<1> QED
  BY <1>1, NegotiationHolds, NegotiationSimulates, PTL DEF Spec, ObligationAuthority, Authority!Spec
=============================================================================
