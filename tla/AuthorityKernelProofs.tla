------------------------ MODULE AuthorityKernelProofs ------------------------
(***************************************************************************)
(* One-use authority, for every set of contracts, requests, ledger keys and *)
(* surfaces, either store, disciplined reconciliation or not.               *)
(***************************************************************************)
EXTENDS AuthorityKernel, TLAPS

durableVars == <<environmentVars, policyVars, ledger, gateVars, claim, lifecycleVars>>

(***************************************************************************)
(* Types of the request steps                                               *)
(***************************************************************************)
\* Moving on keeps the request variables well typed.
LEMMA ProceedType ==
  ASSUME TypeOK, NEW r \in Requests, NEW from, NEW to \in Stages, NEW newPlan \in Plan,
         Proceed(r, from, to, newPlan)
  PROVE  /\ pc' \in [Requests -> Stages]
         /\ plan' \in [Requests -> Plan]
         /\ told' \in [Requests -> Answers]
         /\ pc[r] = from /\ pc'[r] = to /\ plan'[r] = newPlan
         /\ \A q \in Requests \ {r} : pc'[q] = pc[q] /\ plan'[q] = plan[q]
BY DEF TypeOK, Proceed

\* The empty plan is a plan.
LEMMA NoPlanType == NoPlan \in Plan
BY DEF NoPlan, Plan, Nullable, ReceiptKinds, DownstreamStatuses

\* Answering keeps the request variables well typed.
LEMMA AnswerType ==
  ASSUME TypeOK, NEW r \in Requests, NEW from, NEW what \in Answers, Answer(r, from, what)
  PROVE  /\ pc' \in [Requests -> Stages]
         /\ plan' \in [Requests -> Plan]
         /\ told' \in [Requests -> Answers]
         /\ pc[r] = from /\ pc'[r] = "done" /\ plan'[r] = NoPlan
         /\ \A q \in Requests \ {r} : pc'[q] = pc[q] /\ plan'[q] = plan[q]
BY NoPlanType DEF TypeOK, Answer, Stages

(***************************************************************************)
(* The initial states                                                       *)
(***************************************************************************)
LEMMA InitEstablishes == Init => AuthorityInvariant
<1> SUFFICES ASSUME Init PROVE AuthorityInvariant
  OBVIOUS
<1>1. TypeOK
  BY NoPlanType DEF Init, TypeOK, Stages, Answers, AllIsolationStates, Nullable
<1>2. PlansAreGrounded
  BY DEF Init, PlansAreGrounded, Grounded
<1>3. NothingBeforeCommit
  BY DEF Init, NothingBeforeCommit
<1>4. GreenlightsHoldTheirKeys /\ MutationsConsume
  BY DEF Init, GreenlightsHoldTheirKeys, MutationsConsume
<1>5. EntriesAreHeld
  BY DEF Init, EntriesAreHeld
<1>6. StaleEntriesHaveTheHolder
  BY DEF Init, StaleEntriesHaveTheHolder, NoPlan
<1> QED
  BY <1>1, <1>2, <1>3, <1>4, <1>5, <1>6 DEF AuthorityInvariant

(***************************************************************************)
(* Steps that touch only the request                                        *)
(***************************************************************************)
\* A read step preserves the invariant when the plan it leaves is grounded,
\* holds an entry whose holder stands, and it comes before the commit.
LEMMA ProceedPreserves ==
  ASSUME AuthorityInvariant, NEW r \in Requests, NEW from, NEW to \in Stages,
         NEW newPlan \in Plan, Proceed(r, from, to, newPlan), UNCHANGED durableVars,
         Grounded(newPlan, to),
         newPlan.ledger # None => HolderStands(newPlan.ledger),
         to \in {"idle", "policyRead", "policyCommit"} => greenlight[r] = None,
         to \in {"idle", "gateRead", "gateCommit"} => mutation[r] = None
  PROVE  AuthorityInvariant'
<1> USE DEF durableVars, environmentVars, policyVars, gateVars, lifecycleVars
<1>0. TypeOK
  BY DEF AuthorityInvariant
<1>a. /\ pc' \in [Requests -> Stages]
      /\ plan' \in [Requests -> Plan]
      /\ told' \in [Requests -> Answers]
      /\ pc'[r] = to /\ plan'[r] = newPlan
      /\ \A q \in Requests \ {r} : pc'[q] = pc[q] /\ plan'[q] = plan[q]
  BY <1>0, ProceedType
<1>1. TypeOK'
  BY <1>0, <1>a DEF TypeOK
<1>2. PlansAreGrounded'
  BY <1>a DEF AuthorityInvariant, PlansAreGrounded, Grounded
<1>3. NothingBeforeCommit'
  BY <1>a DEF AuthorityInvariant, NothingBeforeCommit
<1>4. GreenlightsHoldTheirKeys' /\ MutationsConsume'
  BY DEF AuthorityInvariant, GreenlightsHoldTheirKeys, MutationsConsume
<1>5. EntriesAreHeld'
  BY DEF AuthorityInvariant, EntriesAreHeld
<1>6. StaleEntriesHaveTheHolder'
  BY <1>a DEF AuthorityInvariant, StaleEntriesHaveTheHolder, HolderStands
<1> QED
  BY <1>1, <1>2, <1>3, <1>4, <1>5, <1>6 DEF AuthorityInvariant

\* A step that leaves authority alone, and in which each request stays where it
\* is or answers, preserves the invariant as soon as it preserves the types.
LEMMA QuietPreserves ==
  ASSUME AuthorityInvariant, TypeOK', UNCHANGED <<greenlight, ledger, consumption, mutation>>,
         \A q \in Requests : \/ pc'[q] = pc[q] /\ plan'[q] = plan[q]
                             \/ pc'[q] = "done" /\ plan'[q] = NoPlan
  PROVE  AuthorityInvariant'
<1>1. PlansAreGrounded'
  BY DEF AuthorityInvariant, PlansAreGrounded, Grounded
<1>2. NothingBeforeCommit'
  BY DEF AuthorityInvariant, NothingBeforeCommit
<1>3. GreenlightsHoldTheirKeys' /\ MutationsConsume'
  BY DEF AuthorityInvariant, GreenlightsHoldTheirKeys, MutationsConsume
<1>4. EntriesAreHeld'
  BY DEF AuthorityInvariant, EntriesAreHeld
<1>5. StaleEntriesHaveTheHolder'
  BY DEF AuthorityInvariant, StaleEntriesHaveTheHolder, HolderStands, NoPlan
<1> QED
  BY <1>1, <1>2, <1>3, <1>4, <1>5 DEF AuthorityInvariant

(***************************************************************************)
(* The steps of policy evaluation                                           *)
(***************************************************************************)
\* Isolation yields one of the four verdicts.
LEMMA VerdictType ==
  ASSUME NEW c, NEW verdict \in PolicyVerdicts(c)
  PROVE  verdict \in {"clear", "review_required", "halt", "quarantine"}
BY DEF PolicyVerdicts

\* The policy chain decides one of the policy decisions.
LEMMA DecisionType ==
  ASSUME NEW p \in Plan
  PROVE  ResolvedDecisions(p) \subseteq PolicyDecisions
<1>1. DeterministicDecision(p) \in PolicyDecisions
  BY DEF Plan, DeterministicDecision, PolicyDecisions
<1>2. \A value \in PolicyDecisions : Guarded(value, p.contract) \subseteq PolicyDecisions
  BY DEF Guarded, PolicyDecisions
<1> QED
  BY <1>1, <1>2 DEF ResolvedDecisions, PolicyDecisions

LEMMA EvaluatePolicyPreserves ==
  ASSUME AuthorityInvariant, NEW r \in Requests, StartPolicy(r)
  PROVE  AuthorityInvariant'
<1>1. PICK c \in Contracts, review \in Reviews : EvaluatePolicy(r, c, review)
  BY DEF StartPolicy
<1> DEFINE p(verdict) == [NoPlan EXCEPT !.contract = c, !.review = review,
                                        !.fresh = c \notin expired, !.isolation = verdict]
<1>2. PICK verdict \in PolicyVerdicts(c) : Proceed(r, "idle", "policyRead", p(verdict))
  BY <1>1 DEF EvaluatePolicy
<1>3. /\ p(verdict) \in Plan
      /\ p(verdict).contract = c
      /\ p(verdict).ledger = None
  BY <1>2, VerdictType, RequestKinds
     DEF NoPlan, Plan, Nullable, ReceiptKinds, DownstreamStatuses
<1>4. greenlight[r] = None
  BY <1>2 DEF Proceed, AuthorityInvariant, NothingBeforeCommit
<1>5. Grounded(p(verdict), "policyRead")
  BY <1>3 DEF Grounded
<1>6. UNCHANGED durableVars
  BY <1>1 DEF EvaluatePolicy, durableVars
<1> HIDE DEF p
<1> QED
  BY <1>2, <1>3, <1>4, <1>5, <1>6, ProceedPreserves DEF Stages

LEMMA DerivePolicyPreserves ==
  ASSUME AuthorityInvariant, NEW r \in Requests, DerivePolicyConstraints(r)
  PROVE  AuthorityInvariant'
<1> PICK value \in ResolvedDecisions(plan[r]) :
      Proceed(r, "policyRead", "policyCommit", [plan[r] EXCEPT !.decision = value])
  BY DEF DerivePolicyConstraints
<1> DEFINE p == [plan[r] EXCEPT !.decision = value]
<1>1. Proceed(r, "policyRead", "policyCommit", p) /\ UNCHANGED durableVars
  BY DEF DerivePolicyConstraints, durableVars
<1>2. plan[r] \in Plan
  BY DEF AuthorityInvariant, TypeOK
<1>3. p \in Plan /\ p.contract = plan[r].contract /\ p.ledger = plan[r].ledger
  BY <1>2, DecisionType DEF Plan, Nullable
<1>4. greenlight[r] = None
  BY <1>1 DEF Proceed, AuthorityInvariant, NothingBeforeCommit
<1>5. Grounded(p, "policyCommit")
  BY <1>1, <1>3 DEF Proceed, Grounded, AuthorityInvariant, PlansAreGrounded
<1>6. p.ledger # None => HolderStands(p.ledger)
  BY <1>3 DEF AuthorityInvariant, StaleEntriesHaveTheHolder
<1> HIDE DEF p
<1> QED
  BY <1>1, <1>3, <1>4, <1>5, <1>6, ProceedPreserves DEF Stages

LEMMA PolicyConflictPreserves ==
  ASSUME AuthorityInvariant, NEW r \in Requests, IdempotencyLedgerConflict(r)
  PROVE  AuthorityInvariant'
<1> DEFINE p == [plan[r] EXCEPT !.decision = "refuse"]
<1>1. Proceed(r, "policyCommit", "policyCommit", p) /\ UNCHANGED durableVars
  BY DEF IdempotencyLedgerConflict, durableVars
<1>2. plan[r] \in Plan
  BY DEF AuthorityInvariant, TypeOK
<1>3. p \in Plan /\ p.contract = plan[r].contract /\ p.ledger = plan[r].ledger
  BY <1>2 DEF Plan, Nullable, PolicyDecisions
<1>4. greenlight[r] = None
  BY <1>1 DEF Proceed, AuthorityInvariant, NothingBeforeCommit
<1>5. Grounded(p, "policyCommit")
  BY <1>1, <1>3 DEF Proceed, Grounded, AuthorityInvariant, PlansAreGrounded
<1>6. p.ledger # None => HolderStands(p.ledger)
  BY <1>3 DEF AuthorityInvariant, StaleEntriesHaveTheHolder
<1> HIDE DEF p
<1> QED
  BY <1>1, <1>3, <1>4, <1>5, <1>6, ProceedPreserves DEF Stages

\* Refusals, the unanswered issuance conflict and abandoned requests.
LEMMA PolicyAnswerPreserves ==
  ASSUME AuthorityInvariant, NEW r \in Requests,
         CommitPolicyDecision(r) \/ GreenlightIssuanceConflict(r) \/ Abandon(r)
  PROVE  AuthorityInvariant'
<1>0. TypeOK /\ plan[r] \in Plan
  BY DEF AuthorityInvariant, TypeOK
<1>1. PICK from \in Stages, what \in Answers : Answer(r, from, what)
  BY DEF CommitPolicyDecision, GreenlightIssuanceConflict, Abandon, Answers, Stages
<1>2. UNCHANGED <<environmentVars, greenlight, issuance, ledger, gateVars, claim, lifecycleVars>>
  BY DEF CommitPolicyDecision, GreenlightIssuanceConflict, Abandon, policyVars
<1>3. decision' \in [Requests -> Nullable(PolicyDecisions)]
  BY <1>0 DEF CommitPolicyDecision, GreenlightIssuanceConflict, Abandon, policyVars, TypeOK,
              Plan
<1>4. TypeOK'
  BY <1>0, <1>1, <1>2, <1>3, AnswerType
     DEF TypeOK, environmentVars, gateVars, lifecycleVars
<1>5. \A q \in Requests : \/ pc'[q] = pc[q] /\ plan'[q] = plan[q]
                          \/ pc'[q] = "done" /\ plan'[q] = NoPlan
  BY <1>0, <1>1, AnswerType
<1> QED
  BY <1>2, <1>4, <1>5, QuietPreserves DEF gateVars

LEMMA CommitGreenlightPreserves ==
  ASSUME AuthorityInvariant, NEW r \in Requests, CommitGreenlight(r)
  PROVE  AuthorityInvariant'
<1> DEFINE c == plan[r].contract
           entry == [key |-> AuthorityKey[c], contract |-> c, greenlight |-> r,
                     mutation |-> None, state |-> "authority_reserved"]
<1>1. /\ Answer(r, "policyCommit", "greenlight")
      /\ decision' = [decision EXCEPT ![r] = "greenlight"]
      /\ greenlight' = [greenlight EXCEPT ![r] = c]
      /\ issuance' = [issuance EXCEPT ![c] = r]
      /\ ledger[AuthorityKey[c]] = None
      /\ ledger' = [ledger EXCEPT ![AuthorityKey[c]] = entry]
      /\ UNCHANGED <<environmentVars, gateVars, claim, lifecycleVars>>
  BY DEF CommitGreenlight, RecordGreenlight
<1>2. TypeOK
  BY DEF AuthorityInvariant
<1>3. /\ c \in Contracts
      /\ c # None
      /\ AuthorityKey[c] \in LedgerKeys
      /\ greenlight[r] = None
  BY <1>1, KernelConstants, NoneIsNull
     DEF Answer, AuthorityInvariant, PlansAreGrounded, Grounded, NothingBeforeCommit
<1>4. entry \in LedgerEntry /\ entry # None
  BY <1>3, NoneIsNull DEF LedgerEntry, LedgerStates, Nullable
<1>5. /\ pc' \in [Requests -> Stages]
      /\ plan' \in [Requests -> Plan]
      /\ told' \in [Requests -> Answers]
      /\ pc'[r] = "done" /\ plan'[r] = NoPlan
      /\ \A q \in Requests \ {r} : pc'[q] = pc[q] /\ plan'[q] = plan[q]
  BY <1>1, <1>2, AnswerType DEF Answers
<1>6. /\ greenlight'[r] = c
      /\ \A g \in Requests \ {r} : greenlight'[g] = greenlight[g]
      /\ ledger'[AuthorityKey[c]] = entry
      /\ \A k \in LedgerKeys \ {AuthorityKey[c]} : ledger'[k] = ledger[k]
  BY <1>1, <1>2, <1>3 DEF TypeOK
<1>7. TypeOK'
  <2>1. /\ decision' \in [Requests -> Nullable(PolicyDecisions)]
        /\ greenlight' \in [Requests -> Nullable(Contracts)]
        /\ issuance' \in [Contracts -> Nullable(Requests)]
    BY <1>1, <1>2, <1>3 DEF TypeOK, Nullable, PolicyDecisions
  <2>2. ledger' \in [LedgerKeys -> Nullable(LedgerEntry)]
    BY <1>1, <1>2, <1>4 DEF TypeOK, Nullable
  <2> QED
    BY <1>1, <1>2, <1>5, <2>1, <2>2 DEF TypeOK, environmentVars, gateVars, lifecycleVars
<1>8. PlansAreGrounded'
  BY <1>3, <1>5, <1>6 DEF AuthorityInvariant, PlansAreGrounded, Grounded
<1>9. NothingBeforeCommit'
  BY <1>1, <1>5, <1>6 DEF AuthorityInvariant, NothingBeforeCommit, gateVars
<1>10. GreenlightsHoldTheirKeys'
  <2> SUFFICES ASSUME NEW g \in Requests, greenlight'[g] # None
               PROVE  LET current == ledger'[AuthorityKey[greenlight'[g]]] IN
                      /\ current # None
                      /\ current.contract = greenlight'[g]
                      /\ current.greenlight = g
    BY DEF GreenlightsHoldTheirKeys
  <2>1. CASE g = r
    BY <2>1, <1>4, <1>6
  <2>2. CASE g # r
    <3>1. /\ greenlight'[g] = greenlight[g]
          /\ ledger[AuthorityKey[greenlight[g]]] # None
          /\ ledger[AuthorityKey[greenlight[g]]].contract = greenlight[g]
          /\ ledger[AuthorityKey[greenlight[g]]].greenlight = g
      BY <2>2, <1>6 DEF AuthorityInvariant, GreenlightsHoldTheirKeys
    <3>2. greenlight[g] \in Contracts
      BY <3>1, <1>2 DEF TypeOK, Nullable
    <3>3. AuthorityKey[greenlight[g]] \in LedgerKeys \ {AuthorityKey[c]}
      BY <3>1, <3>2, <1>1, KernelConstants
    <3> QED
      BY <3>1, <3>3, <1>6
  <2> QED
    BY <2>1, <2>2
<1>11. EntriesAreHeld'
  <2> SUFFICES ASSUME NEW k \in LedgerKeys, ledger'[k] # None
               PROVE  /\ ledger'[k].key = k
                      /\ greenlight'[ledger'[k].greenlight] = ledger'[k].contract
                      /\ AuthorityKey[ledger'[k].contract] = k
    BY DEF EntriesAreHeld
  <2>1. CASE k = AuthorityKey[c]
    BY <2>1, <1>6
  <2>2. CASE k # AuthorityKey[c]
    <3>1. /\ ledger'[k] = ledger[k]
          /\ ledger[k] \in LedgerEntry
          /\ ledger[k].key = k
          /\ greenlight[ledger[k].greenlight] = ledger[k].contract
          /\ AuthorityKey[ledger[k].contract] = k
      BY <2>2, <1>2, <1>6 DEF AuthorityInvariant, EntriesAreHeld, TypeOK, Nullable
    <3>2. ledger[k].greenlight \in Requests \ {r}
      BY <3>1, <1>3, NoneIsNull DEF LedgerEntry
    <3> QED
      BY <3>1, <3>2, <1>6
  <2> QED
    BY <2>1, <2>2
<1>12. StaleEntriesHaveTheHolder'
  <2> SUFFICES ASSUME NEW q \in Requests, plan'[q].ledger # None
               PROVE  HolderStands(plan[q].ledger)'
    BY DEF StaleEntriesHaveTheHolder
  <2>1. q # r /\ plan'[q] = plan[q]
    BY <1>5 DEF NoPlan
  <2>2. plan[q].ledger \in LedgerEntry /\ HolderStands(plan[q].ledger)
    BY <2>1, <1>2 DEF AuthorityInvariant, StaleEntriesHaveTheHolder, TypeOK, Plan, Nullable
  <2>3. plan[q].ledger.key \in LedgerKeys \ {AuthorityKey[c]}
    BY <2>2, <1>1 DEF HolderStands, LedgerEntry
  <2> QED
    BY <2>1, <2>2, <2>3, <1>6 DEF HolderStands
<1>13. MutationsConsume'
  <2> SUFFICES ASSUME NEW m \in Requests, mutation[m] # None
               PROVE  /\ consumption[mutation[m].greenlight] = m
                      /\ greenlight'[mutation[m].greenlight] = mutation[m].contract
    BY <1>1 DEF MutationsConsume, gateVars
  <2>1. mutation[m] \in Mutation
    BY <1>2 DEF TypeOK, Nullable
  <2>2. /\ consumption[mutation[m].greenlight] = m
        /\ greenlight[mutation[m].greenlight] = mutation[m].contract
    BY DEF AuthorityInvariant, MutationsConsume
  <2>3. mutation[m].greenlight \in Requests \ {r}
    BY <2>1, <2>2, <1>3, NoneIsNull DEF Mutation
  <2> QED
    BY <2>2, <2>3, <1>6
<1> QED
  BY <1>7, <1>8, <1>9, <1>10, <1>11, <1>12, <1>13 DEF AuthorityInvariant

LEMMA PolicyStepPreserves ==
  ASSUME AuthorityInvariant, NEW r \in Requests, PolicyStep(r)
  PROVE  AuthorityInvariant'
BY DerivePolicyPreserves, PolicyAnswerPreserves, CommitGreenlightPreserves,
   PolicyConflictPreserves DEF PolicyStep

(***************************************************************************)
(* Writing a ledger entry back                                              *)
(***************************************************************************)
\* No key changes hands in a step: entries keep their key, contract and
\* greenlight, and free keys stay free.
SameHolders ==
  \A k \in LedgerKeys :
    /\ ledger[k] = None => ledger'[k] = None
    /\ ledger[k] # None => /\ ledger'[k] # None
                          /\ ledger'[k].key = ledger[k].key
                          /\ ledger'[k].contract = ledger[k].contract
                          /\ ledger'[k].greenlight = ledger[k].greenlight

\* Replacing an entry by a changed copy of one read earlier, however stale, moves
\* no key: the holder of an entry that was ever read still stands.
LEMMA RewriteKeepsHolders ==
  ASSUME AuthorityInvariant, NEW old \in LedgerEntry, HolderStands(old),
         NEW new \in LedgerEntry,
         new.key = old.key, new.contract = old.contract, new.greenlight = old.greenlight,
         ledger' = [ledger EXCEPT ![old.key] = new]
  PROVE  SameHolders /\ ledger' \in [LedgerKeys -> Nullable(LedgerEntry)]
<1>1. old.key \in LedgerKeys
  BY DEF LedgerEntry
<1>2. ledger \in [LedgerKeys -> Nullable(LedgerEntry)]
  BY DEF AuthorityInvariant, TypeOK
<1>3. /\ ledger[old.key] # None
      /\ ledger[old.key].key = old.key
      /\ ledger[old.key].contract = old.contract
      /\ ledger[old.key].greenlight = old.greenlight
  BY <1>1 DEF HolderStands, AuthorityInvariant, EntriesAreHeld
<1>4. new # None
  BY NoneIsNull
<1>5. /\ ledger'[old.key] = new
      /\ \A k \in LedgerKeys \ {old.key} : ledger'[k] = ledger[k]
  BY <1>1, <1>2
<1>6. SameHolders
  BY <1>3, <1>4, <1>5 DEF SameHolders
<1> QED
  BY <1>1, <1>2, <1>6 DEF Nullable

\* When no key changes hands, what is known about holders survives.
LEMMA SameHoldersPreserve ==
  ASSUME AuthorityInvariant, SameHolders, UNCHANGED greenlight
  PROVE  /\ GreenlightsHoldTheirKeys'
         /\ EntriesAreHeld'
         /\ \A entry \in LedgerEntry : HolderStands(entry) => HolderStands(entry)'
<1>1. GreenlightsHoldTheirKeys'
  <2> SUFFICES ASSUME NEW g \in Requests, greenlight[g] # None
               PROVE  LET current == ledger'[AuthorityKey[greenlight[g]]] IN
                      /\ current # None
                      /\ current.contract = greenlight[g]
                      /\ current.greenlight = g
    BY DEF GreenlightsHoldTheirKeys
  <2>1. AuthorityKey[greenlight[g]] \in LedgerKeys
    BY KernelConstants DEF AuthorityInvariant, TypeOK, Nullable
  <2> QED
    BY <2>1 DEF SameHolders, AuthorityInvariant, GreenlightsHoldTheirKeys
<1>2. EntriesAreHeld'
  BY DEF SameHolders, AuthorityInvariant, EntriesAreHeld
<1>3. \A entry \in LedgerEntry : HolderStands(entry) => HolderStands(entry)'
  BY DEF SameHolders, HolderStands, LedgerEntry
<1> QED
  BY <1>1, <1>2, <1>3

(***************************************************************************)
(* The steps of a gateway check                                             *)
(***************************************************************************)
LEMMA GatewayCheckPreserves ==
  ASSUME AuthorityInvariant, NEW r \in Requests, StartGateway(r)
  PROVE  AuthorityInvariant'
<1>1. PICK c \in Contracts, g \in Requests, exact \in Observations : GatewayCheck(r, c, g, exact)
  BY DEF StartGateway
<1> DEFINE fresh == /\ greenlight[g] = c
                    /\ exact
                    /\ c \notin expired
                    /\ consumption[g] = None
           p == [NoPlan EXCEPT !.contract = c, !.greenlight = g, !.fresh = fresh]
<1>2. Proceed(r, "idle", "gateRead", p) /\ UNCHANGED durableVars /\ greenlight[g] # None
  BY <1>1 DEF GatewayCheck, durableVars
<1>3. fresh \in BOOLEAN /\ (fresh => greenlight[g] = c)
  BY RequestKinds
<1> HIDE DEF fresh
<1>4. /\ p \in Plan
      /\ p.contract = c /\ p.greenlight = g /\ p.fresh = fresh /\ p.pass = FALSE
      /\ p.ledger = None
  BY <1>3, NoPlanType DEF NoPlan, Plan, Nullable
<1>5. mutation[r] = None
  BY <1>2 DEF Proceed, AuthorityInvariant, NothingBeforeCommit
<1> HIDE DEF p
<1>6. Grounded(p, "gateRead")
  BY <1>2, <1>3, <1>4 DEF Grounded
<1> QED
  BY <1>2, <1>4, <1>5, <1>6, ProceedPreserves DEF Stages

LEMMA DeriveGatewayPreserves ==
  ASSUME AuthorityInvariant, NEW r \in Requests, DeriveGatewayConstraints(r)
  PROVE  AuthorityInvariant'
<1> DEFINE k == AuthorityKey[greenlight[plan[r].greenlight]]
           pass == Admissible(plan[r])
           p == [plan[r] EXCEPT !.pass = pass, !.ledger = ledger[k]]
<1>1. Proceed(r, "gateRead", "gateCommit", p) /\ UNCHANGED durableVars
  BY DEF DeriveGatewayConstraints, durableVars
<1>2. plan[r] \in Plan /\ Grounded(plan[r], "gateRead") /\ mutation[r] = None
  BY <1>1 DEF Proceed, AuthorityInvariant, TypeOK, PlansAreGrounded, NothingBeforeCommit
<1>3. k \in LedgerKeys
  BY <1>2, KernelConstants DEF Grounded, AuthorityInvariant, TypeOK, Nullable
<1>4. ledger[k] \in Nullable(LedgerEntry) /\ (ledger[k] # None => ledger[k].key = k)
  BY <1>3 DEF AuthorityInvariant, TypeOK, EntriesAreHeld
<1>5. pass \in BOOLEAN /\ (pass => plan[r].fresh)
  BY <1>2 DEF Admissible, Plan
<1> HIDE DEF pass, k
<1>6. /\ p \in Plan
      /\ p.contract = plan[r].contract /\ p.greenlight = plan[r].greenlight
      /\ p.fresh = plan[r].fresh /\ p.pass = pass /\ p.ledger = ledger[k]
  BY <1>2, <1>4, <1>5 DEF Plan
<1> HIDE DEF p
<1>7. Grounded(p, "gateCommit")
  BY <1>2, <1>5, <1>6 DEF Grounded
<1>8. p.ledger # None => HolderStands(p.ledger)
  BY <1>4, <1>6 DEF HolderStands
<1> QED
  BY <1>1, <1>2, <1>6, <1>7, <1>8, ProceedPreserves DEF Stages

\* Refused checks, and passes the store turned down.
LEMMA GatewayRefusalPreserves ==
  ASSUME AuthorityInvariant, NEW r \in Requests,
         CommitGatewayRefusal(r) \/ CommitReplayRefusal(r)
  PROVE  AuthorityInvariant'
<1>0. TypeOK /\ plan[r] \in Plan
  BY DEF AuthorityInvariant, TypeOK
<1>1. PICK from \in Stages : Answer(r, from, "refused")
  BY DEF CommitGatewayRefusal, CommitReplayRefusal, Stages
<1>2. UNCHANGED <<environmentVars, policyVars, ledger, consumption, mutation, claim, lifecycleVars>>
  BY DEF CommitGatewayRefusal, CommitReplayRefusal
<1>3. receipt' \in [Requests -> SUBSET ReceiptKinds]
  BY <1>0 DEF CommitGatewayRefusal, CommitReplayRefusal, TypeOK, Plan, ReceiptKinds
<1>4. /\ pc' \in [Requests -> Stages]
      /\ plan' \in [Requests -> Plan]
      /\ told' \in [Requests -> Answers]
      /\ \A q \in Requests : \/ pc'[q] = pc[q] /\ plan'[q] = plan[q]
                             \/ pc'[q] = "done" /\ plan'[q] = NoPlan
  BY <1>0, <1>1, AnswerType DEF Answers
<1>5. TypeOK'
  BY <1>0, <1>2, <1>3, <1>4 DEF TypeOK, environmentVars, policyVars, lifecycleVars
<1> QED
  BY <1>2, <1>4, <1>5, QuietPreserves DEF policyVars

LEMMA GatewayReplayPreserves ==
  ASSUME AuthorityInvariant, NEW r \in Requests,
         GatewayAlreadyConsumed(r) \/ GatewayOperationInProgress(r)
  PROVE  AuthorityInvariant'
<1> DEFINE p(reason) == [plan[r] EXCEPT !.reason = reason]
<1>1. PICK reason \in ReceiptKinds :
        Proceed(r, "gateCommit", "gateReplay", p(reason)) /\ UNCHANGED durableVars
  BY DEF GatewayAlreadyConsumed, GatewayOperationInProgress, ReceiptKinds, durableVars
<1>2. plan[r] \in Plan
  BY DEF AuthorityInvariant, TypeOK
<1>3. p(reason) \in Plan /\ p(reason).ledger = plan[r].ledger
  BY <1>2 DEF Plan
<1>4. Grounded(p(reason), "gateReplay")
  BY DEF Grounded
<1>5. p(reason).ledger # None => HolderStands(p(reason).ledger)
  BY <1>3 DEF AuthorityInvariant, StaleEntriesHaveTheHolder
<1> HIDE DEF p
<1> QED
  BY <1>1, <1>3, <1>4, <1>5, ProceedPreserves DEF Stages

\* The commit that consumes a greenlight and admits its mutation attempt,
\* whether the request answers at once or goes on believing it was turned down.
LEMMA AdmitPreserves ==
  ASSUME AuthorityInvariant, NEW r \in Requests,
         pc[r] = "gateCommit", GatewayCommitAccepted(r), AdmitMutation(r),
         pc' \in [Requests -> Stages], plan' \in [Requests -> Plan],
         told' \in [Requests -> Answers],
         pc'[r] \in {"done", "gateReplay"},
         plan'[r].ledger # None => plan'[r].ledger = plan[r].ledger,
         \A q \in Requests \ {r} : pc'[q] = pc[q] /\ plan'[q] = plan[q]
  PROVE  AuthorityInvariant' /\ SameHolders
<1> DEFINE p == plan[r]
           admitted == [contract |-> p.contract, greenlight |-> p.greenlight]
           started == [p.ledger EXCEPT !.mutation = r, !.state = "mutation_started"]
<1>0. TypeOK
  BY DEF AuthorityInvariant
<1>1. /\ p \in Plan
      /\ p.contract \in Contracts
      /\ p.greenlight \in Requests
      /\ greenlight[p.greenlight] = p.contract
      /\ consumption[p.greenlight] = None
      /\ mutation[r] = None
      /\ p.ledger # None => HolderStands(p.ledger)
  BY <1>0 DEF AuthorityInvariant, TypeOK, PlansAreGrounded, Grounded, GatewayCommitAccepted,
              NothingBeforeCommit, StaleEntriesHaveTheHolder
<1>2. /\ consumption' = [consumption EXCEPT ![p.greenlight] = r]
      /\ mutation' = [mutation EXCEPT ![r] = admitted]
      /\ receipt' = [receipt EXCEPT ![r] = @ \cup {"passed"}]
      /\ claim' = [claim EXCEPT ![SurfaceOf[p.contract]] = [mutation |-> r, state |-> "active"]]
      /\ UNCHANGED <<environmentVars, policyVars, lifecycleVars>>
      /\ p.ledger = None => ledger' = ledger
      /\ p.ledger # None => ledger' = [ledger EXCEPT ![p.ledger.key] = started]
  BY DEF AdmitMutation
<1>3. SameHolders /\ ledger' \in [LedgerKeys -> Nullable(LedgerEntry)]
  <2>1. CASE p.ledger = None
    BY <2>1, <1>0, <1>2 DEF SameHolders, TypeOK
  <2>2. CASE p.ledger # None
    <3>1. p.ledger \in LedgerEntry
      BY <2>2, <1>1 DEF Plan, Nullable
    <3>2. /\ started \in LedgerEntry
          /\ started.key = p.ledger.key
          /\ started.contract = p.ledger.contract
          /\ started.greenlight = p.ledger.greenlight
      BY <3>1 DEF LedgerEntry, LedgerStates, Nullable
    <3> HIDE DEF started, p
    <3> QED
      BY <2>2, <3>1, <3>2, <1>1, <1>2, RewriteKeepsHolders
  <2> QED
    BY <2>1, <2>2
<1>4. admitted \in Mutation /\ admitted # None
  BY <1>1, NoneIsNull DEF Mutation
<1>5. /\ mutation'[r] = admitted
      /\ \A m \in Requests \ {r} : mutation'[m] = mutation[m]
      /\ consumption'[p.greenlight] = r
      /\ \A g \in Requests \ {p.greenlight} : consumption'[g] = consumption[g]
  BY <1>0, <1>1, <1>2 DEF TypeOK
<1>6. TypeOK'
  <2>1. /\ consumption' \in [Requests -> Nullable(Requests)]
        /\ mutation' \in [Requests -> Nullable(Mutation)]
        /\ receipt' \in [Requests -> SUBSET ReceiptKinds]
    BY <1>0, <1>1, <1>2, <1>4 DEF TypeOK, Nullable, ReceiptKinds
  <2>2. claim' \in [Surfaces -> Nullable(Claim)]
    BY <1>0, <1>2 DEF TypeOK, Nullable, Claim, ClaimStates
  <2> QED
    BY <1>0, <1>2, <1>3, <2>1, <2>2 DEF TypeOK, environmentVars, policyVars, lifecycleVars
<1>7. PlansAreGrounded'
  BY <1>2 DEF AuthorityInvariant, PlansAreGrounded, Grounded, policyVars
<1>8. NothingBeforeCommit'
  BY <1>2, <1>5 DEF AuthorityInvariant, NothingBeforeCommit, policyVars
<1>9. /\ GreenlightsHoldTheirKeys'
      /\ EntriesAreHeld'
      /\ \A entry \in LedgerEntry : HolderStands(entry) => HolderStands(entry)'
  BY <1>2, <1>3, SameHoldersPreserve DEF policyVars
<1>10. StaleEntriesHaveTheHolder'
  <2> SUFFICES ASSUME NEW q \in Requests, plan'[q].ledger # None
               PROVE  HolderStands(plan[q].ledger)'
    BY DEF StaleEntriesHaveTheHolder
  <2>1. plan'[q].ledger = plan[q].ledger
    OBVIOUS
  <2>2. plan[q].ledger \in LedgerEntry /\ HolderStands(plan[q].ledger)
    BY <2>1, <1>0 DEF AuthorityInvariant, StaleEntriesHaveTheHolder, TypeOK, Plan, Nullable
  <2> QED
    BY <2>1, <2>2, <1>9 DEF HolderStands
<1>11. MutationsConsume'
  <2> SUFFICES ASSUME NEW m \in Requests, mutation'[m] # None
               PROVE  /\ consumption'[mutation'[m].greenlight] = m
                      /\ greenlight[mutation'[m].greenlight] = mutation'[m].contract
    BY <1>2 DEF MutationsConsume, policyVars
  <2>1. CASE m = r
    BY <2>1, <1>1, <1>5
  <2>2. CASE m # r
    <3>1. /\ mutation'[m] = mutation[m]
          /\ mutation[m] \in Mutation
          /\ consumption[mutation[m].greenlight] = m
          /\ greenlight[mutation[m].greenlight] = mutation[m].contract
      BY <2>2, <1>0, <1>5 DEF AuthorityInvariant, MutationsConsume, TypeOK, Nullable
    <3>2. mutation[m].greenlight \in Requests \ {p.greenlight}
      BY <3>1, <1>1, NoneIsNull DEF Mutation
    <3> QED
      BY <3>1, <3>2, <1>5
  <2> QED
    BY <2>1, <2>2
<1> QED
  BY <1>3, <1>6, <1>7, <1>8, <1>9, <1>10, <1>11 DEF AuthorityInvariant

LEMMA GatewayPassPreserves ==
  ASSUME AuthorityInvariant, NEW r \in Requests,
         CommitGatewayPass(r) \/ CommitGatewayPassAmbiguously(r)
  PROVE  AuthorityInvariant' /\ SameHolders
<1>0. TypeOK /\ plan[r] \in Plan
  BY DEF AuthorityInvariant, TypeOK
<1>1. GatewayCommitAccepted(r) /\ AdmitMutation(r)
  BY DEF CommitGatewayPass, CommitGatewayPassAmbiguously
<1>2. CASE CommitGatewayPass(r)
  <2>1. Answer(r, "gateCommit", "passed")
    BY <1>2 DEF CommitGatewayPass
  <2>2. NoPlan.ledger = None
    BY DEF NoPlan
  <2> QED
    BY <1>0, <1>1, <2>1, <2>2, AnswerType, AdmitPreserves DEF Answers
<1>3. CASE CommitGatewayPassAmbiguously(r)
  <2> DEFINE p == [plan[r] EXCEPT !.reason = "replayed"]
  <2>1. Proceed(r, "gateCommit", "gateReplay", p)
    BY <1>3 DEF CommitGatewayPassAmbiguously
  <2>2. p \in Plan /\ p.ledger = plan[r].ledger
    BY <1>0 DEF Plan, ReceiptKinds
  <2> HIDE DEF p
  <2> QED
    BY <1>0, <1>1, <2>1, <2>2, ProceedType, AdmitPreserves DEF Stages
<1> QED
  BY <1>2, <1>3

LEMMA GatewayStepPreserves ==
  ASSUME AuthorityInvariant, NEW r \in Requests, GatewayStep(r)
  PROVE  AuthorityInvariant'
BY DeriveGatewayPreserves, GatewayRefusalPreserves, GatewayReplayPreserves,
   GatewayPassPreserves DEF GatewayStep

(***************************************************************************)
(* The steps of a reconciliation                                            *)
(***************************************************************************)
LEMMA ReconcilePreserves ==
  ASSUME AuthorityInvariant, NEW r \in Requests, StartReconcile(r)
  PROVE  AuthorityInvariant'
<1>1. PICK m \in Requests, status \in Statuses :
        \E gaps \in SUBSET GapsOf(m), orphan \in OrphanRequests(status) :
          ReconcileSurfaceOperation(r, m, status, orphan, gaps)
  BY DEF StartReconcile
<1>2. PICK gaps \in SUBSET GapsOf(m), orphan \in OrphanRequests(status) :
        ReconcileSurfaceOperation(r, m, status, orphan, gaps)
  BY <1>1
<1> DEFINE held == claim[SurfaceOf[mutation[m].contract]]
           p == [NoPlan EXCEPT !.contract = mutation[m].contract, !.mutation = m,
                               !.status = status, !.orphan = orphan, !.gaps = gaps,
                               !.claim = held]
<1>3. /\ Proceed(r, "idle", "reconcileRead", p)
      /\ UNCHANGED durableVars
      /\ mutation[m] # None
  BY <1>2 DEF ReconcileSurfaceOperation, durableVars
<1>4. mutation[m].contract \in Contracts /\ held \in Nullable(Claim)
  BY <1>3, KernelConstants DEF AuthorityInvariant, TypeOK, Nullable, Mutation
<1>5. orphan \in BOOLEAN /\ gaps \in SUBSET Requests /\ status \in DownstreamStatuses
  BY <1>2, RequestKinds DEF OrphanRequests, GapsOf
<1> HIDE DEF held
<1>6. p \in Plan /\ p.contract = mutation[m].contract /\ p.mutation = m /\ p.ledger = None
  BY <1>4, <1>5, NoPlanType DEF NoPlan, Plan, Nullable
<1> HIDE DEF p
<1>7. Grounded(p, "reconcileRead")
  BY <1>4, <1>6 DEF Grounded
<1> QED
  BY <1>3, <1>6, <1>7, ProceedPreserves DEF Stages

LEMMA ReadLedgerPreserves ==
  ASSUME AuthorityInvariant, NEW r \in Requests, ReadCurrentIdempotencyLedger(r)
  PROVE  AuthorityInvariant'
<1> DEFINE c == plan[r].contract
           p == [plan[r] EXCEPT !.ledger = LedgerEntryForContract(c)]
<1>1. Proceed(r, "reconcileRead", "reconcileCommit", p) /\ UNCHANGED durableVars
  BY DEF ReadCurrentIdempotencyLedger, durableVars
<1>2. plan[r] \in Plan /\ Grounded(plan[r], "reconcileRead")
  BY <1>1 DEF Proceed, AuthorityInvariant, TypeOK, PlansAreGrounded
<1>3. c \in Contracts /\ ContractKey[c] \in LedgerKeys /\ AuthorityKey[c] \in LedgerKeys
  BY <1>2, KernelConstants DEF Grounded
<1>4. \A k \in LedgerKeys : /\ ledger[k] \in Nullable(LedgerEntry)
                            /\ ledger[k] # None => ledger[k].key = k
  BY DEF AuthorityInvariant, TypeOK, EntriesAreHeld
<1>5. LET entry == LastListedEntry(c) IN
      entry # None => entry \in LedgerEntry /\ HolderStands(entry)
  <2>1. CASE ledger[AuthorityKey[c]] = None \/ Store = "memory"
    BY <2>1, <1>3, <1>4 DEF LastListedEntry, HolderStands, Nullable
  <2>2. CASE ~(ledger[AuthorityKey[c]] = None \/ Store = "memory")
    <3>1. LastListedEntry(c) = [ledger[AuthorityKey[c]] EXCEPT !.mutation = None]
      BY <2>2 DEF LastListedEntry
    <3>2. ledger[AuthorityKey[c]] \in LedgerEntry /\ ledger[AuthorityKey[c]].key = AuthorityKey[c]
      BY <2>2, <1>3, <1>4 DEF Nullable
    <3> QED
      BY <2>2, <3>1, <3>2 DEF LedgerEntry, HolderStands, Nullable
  <2> QED
    BY <2>1, <2>2
<1>6. LET entry == LedgerEntryForContract(c) IN
      entry # None => entry \in LedgerEntry /\ HolderStands(entry)
  BY <1>3, <1>4, <1>5 DEF LedgerEntryForContract, HolderStands, Nullable
<1>7. /\ p \in Plan
      /\ p.contract = plan[r].contract /\ p.mutation = plan[r].mutation
      /\ p.ledger # None => HolderStands(p.ledger)
  BY <1>2, <1>6 DEF Plan, Nullable
<1> HIDE DEF p
<1>8. Grounded(p, "reconcileCommit")
  BY <1>2, <1>7 DEF Grounded
<1> QED
  BY <1>1, <1>7, <1>8, ProceedPreserves DEF Stages

LEMMA CommitReconciliationPreserves ==
  ASSUME AuthorityInvariant, NEW r \in Requests, CommitSurfaceOperationReconciliation(r)
  PROVE  AuthorityInvariant' /\ SameHolders
<1> DEFINE p == plan[r]
           closed == [p.ledger EXCEPT !.state = LedgerStateFor(p.status)]
<1>0. TypeOK
  BY DEF AuthorityInvariant
<1>1. /\ Answer(r, "reconcileCommit", "reconciled")
      /\ reconciliation' = [reconciliation EXCEPT ![r] = [mutation |-> p.mutation, status |-> p.status]]
      /\ resolvedBy' = [x \in Requests |-> IF x \in p.gaps THEN r ELSE resolvedBy[x]]
      /\ claim' = ClaimsAfter(p)
      /\ ledger' = LedgerAfter(p)
      /\ isolation' = IsolationAfter(p)
      /\ UNCHANGED <<expired, bound, policyVars, gateVars>>
  BY DEF CommitSurfaceOperationReconciliation
<1>2. /\ p \in Plan
      /\ p.contract \in Contracts
      /\ p.mutation \in Requests
      /\ p.ledger # None => HolderStands(p.ledger)
  BY <1>0, <1>1 DEF Answer, AuthorityInvariant, TypeOK, PlansAreGrounded, Grounded,
                    StaleEntriesHaveTheHolder
<1>3. /\ pc' \in [Requests -> Stages]
      /\ plan' \in [Requests -> Plan]
      /\ told' \in [Requests -> Answers]
      /\ pc'[r] = "done" /\ plan'[r] = NoPlan
      /\ \A q \in Requests \ {r} : pc'[q] = pc[q] /\ plan'[q] = plan[q]
  BY <1>0, <1>1, AnswerType DEF Answers
<1>4. SameHolders /\ ledger' \in [LedgerKeys -> Nullable(LedgerEntry)]
  <2>1. CASE p.ledger = None \/ p.status = "pending"
    BY <2>1, <1>0, <1>1 DEF LedgerAfter, SameHolders, TypeOK
  <2>2. CASE p.ledger # None /\ p.status # "pending"
    <3>1. p.ledger \in LedgerEntry
      BY <2>2, <1>2 DEF Plan, Nullable
    <3>2. LedgerStateFor(p.status) \in LedgerStates
      BY DEF LedgerStateFor, LedgerStates, TerminalLedgerStates
    <3>3. /\ closed \in LedgerEntry
          /\ closed.key = p.ledger.key
          /\ closed.contract = p.ledger.contract
          /\ closed.greenlight = p.ledger.greenlight
      BY <3>1, <3>2 DEF LedgerEntry
    <3>4. ledger' = [ledger EXCEPT ![p.ledger.key] = closed]
      BY <2>2, <1>1 DEF LedgerAfter
    <3> HIDE DEF closed, p
    <3> QED
      BY <2>2, <3>1, <3>3, <3>4, <1>2, RewriteKeepsHolders
  <2> QED
    BY <2>1, <2>2
<1>5. TypeOK'
  <2>1. /\ reconciliation' \in [Requests -> Nullable(Reconciliation)]
        /\ resolvedBy' \in [Requests -> Nullable(Requests)]
    <3>1. [mutation |-> p.mutation, status |-> p.status] \in Reconciliation
      BY <1>2 DEF Plan, Reconciliation
    <3> QED
      BY <3>1, <1>0, <1>1 DEF TypeOK, Nullable
  <2>2. claim' \in [Surfaces -> Nullable(Claim)]
    <3>1. p.claim # None => [p.claim EXCEPT !.state = "terminal_unknown"] \in Claim
      BY <1>2 DEF Plan, Nullable, Claim, ClaimStates
    <3> QED
      BY <3>1, <1>0, <1>1 DEF ClaimsAfter, TypeOK, Nullable
  <2>3. isolation' \in [Scopes -> AllIsolationStates]
    BY <1>0, <1>1 DEF IsolationAfter, TypeOK, AllIsolationStates
  <2> QED
    BY <1>0, <1>1, <1>3, <1>4, <2>1, <2>2, <2>3 DEF TypeOK, policyVars, gateVars
<1>6. UNCHANGED <<greenlight, consumption, mutation>>
  BY <1>1 DEF policyVars, gateVars
<1>7. PlansAreGrounded'
  BY <1>3, <1>6 DEF AuthorityInvariant, PlansAreGrounded, Grounded
<1>8. NothingBeforeCommit' /\ MutationsConsume'
  BY <1>3, <1>6 DEF AuthorityInvariant, NothingBeforeCommit, MutationsConsume
<1>9. /\ GreenlightsHoldTheirKeys'
      /\ EntriesAreHeld'
      /\ \A entry \in LedgerEntry : HolderStands(entry) => HolderStands(entry)'
  BY <1>4, <1>6, SameHoldersPreserve
<1>10. StaleEntriesHaveTheHolder'
  <2> SUFFICES ASSUME NEW q \in Requests, plan'[q].ledger # None
               PROVE  HolderStands(plan[q].ledger)'
    BY DEF StaleEntriesHaveTheHolder
  <2>1. plan'[q] = plan[q]
    BY <1>3 DEF NoPlan
  <2>2. plan[q].ledger \in LedgerEntry /\ HolderStands(plan[q].ledger)
    BY <2>1, <1>0 DEF AuthorityInvariant, StaleEntriesHaveTheHolder, TypeOK, Plan, Nullable
  <2> QED
    BY <2>1, <2>2, <1>9 DEF HolderStands
<1> QED
  BY <1>4, <1>5, <1>7, <1>8, <1>9, <1>10 DEF AuthorityInvariant

LEMMA LifecycleStepPreserves ==
  ASSUME AuthorityInvariant, NEW r \in Requests, LifecycleStep(r)
  PROVE  AuthorityInvariant'
BY ReadLedgerPreserves, CommitReconciliationPreserves DEF LifecycleStep

(***************************************************************************)
(* Every step                                                               *)
(***************************************************************************)
LEMMA EnvironmentPreserves ==
  ASSUME AuthorityInvariant, Environment
  PROVE  AuthorityInvariant'
<1>1. /\ expired' \in SUBSET Contracts
      /\ bound' \in SUBSET Contracts
      /\ isolation' \in [Scopes -> AllIsolationStates]
      /\ UNCHANGED <<requestVars, policyVars, ledger, gateVars, claim, lifecycleVars>>
  BY KernelConstants, RequestKinds
     DEF Environment, CreateIsolationState, CreateBreakerDecision, SetIsolation, Expire,
         ChangeBinding, AuthorityInvariant, TypeOK
<1>2. TypeOK'
  BY <1>1 DEF AuthorityInvariant, TypeOK, requestVars, policyVars, gateVars, lifecycleVars
<1> QED
  BY <1>1, <1>2, QuietPreserves DEF requestVars, policyVars, gateVars

LEMMA StutterPreserves == AuthorityInvariant /\ UNCHANGED vars => AuthorityInvariant'
<1> SUFFICES ASSUME AuthorityInvariant, UNCHANGED vars PROVE AuthorityInvariant'
  OBVIOUS
<1>1. UNCHANGED <<requestVars, environmentVars, policyVars, ledger, gateVars, claim, lifecycleVars>>
  BY DEF vars
<1>2. TypeOK'
  BY <1>1 DEF AuthorityInvariant, TypeOK, requestVars, environmentVars, policyVars, gateVars,
              lifecycleVars
<1> QED
  BY <1>1, <1>2, QuietPreserves DEF requestVars, policyVars, gateVars

LEMMA NextPreserves == AuthorityInvariant /\ [Next]_vars => AuthorityInvariant'
<1> SUFFICES ASSUME AuthorityInvariant, Next PROVE AuthorityInvariant'
  BY StutterPreserves
<1>1. CASE \E r \in Requests : StartPolicy(r)
  BY <1>1, EvaluatePolicyPreserves
<1>2. CASE \E r \in Requests : StartGateway(r)
  BY <1>2, GatewayCheckPreserves
<1>3. CASE \E r \in Requests : StartReconcile(r)
  BY <1>3, ReconcilePreserves
<1>4. CASE \E r \in Requests : RequestStep(r)
  BY <1>4, PolicyStepPreserves, GatewayStepPreserves, LifecycleStepPreserves DEF RequestStep
<1>5. CASE \E r \in Requests : Abandon(r)
  BY <1>5, PolicyAnswerPreserves
<1>6. CASE Environment
  BY <1>6, EnvironmentPreserves
<1> QED
  BY <1>1, <1>2, <1>3, <1>4, <1>5, <1>6 DEF Next

(***************************************************************************)
(* What holds in every behaviour                                            *)
(***************************************************************************)
\* The inductive strengthening of one-use authority.
THEOREM AuthorityHolds == Spec => []AuthorityInvariant
BY InitEstablishes, NextPreserves, PTL DEF Spec

\* The state of the store and of every request is well formed.
THEOREM TypeCorrect == Spec => []TypeOK
<1>1. AuthorityInvariant => TypeOK
  BY DEF AuthorityInvariant
<1> QED
  BY <1>1, AuthorityHolds, PTL

\* However many evaluations read a free ledger key at once, one greenlight is
\* issued under it.
THEOREM OneGreenlight == Spec => []OneGreenlightPerLedgerKey
<1>1. AuthorityInvariant => OneGreenlightPerLedgerKey
  BY DEF AuthorityInvariant, GreenlightsHoldTheirKeys, OneGreenlightPerLedgerKey
<1> QED
  BY <1>1, AuthorityHolds, PTL

\* Two attempts under one ledger key are one: each consumed the greenlight that
\* holds the key.
LEMMA OneUseOfAKey ==
  ASSUME AuthorityInvariant, NEW m \in Requests, NEW n \in Requests,
         mutation[m] # None, mutation[n] # None,
         AuthorityKey[mutation[m].contract] = AuthorityKey[mutation[n].contract]
  PROVE  m = n
<1> DEFINE g == mutation[m].greenlight
           h == mutation[n].greenlight
<1>1. /\ mutation[m] \in Mutation
      /\ mutation[n] \in Mutation
  BY DEF AuthorityInvariant, TypeOK, Nullable
<1>2. /\ g \in Requests /\ h \in Requests
      /\ consumption[g] = m /\ consumption[h] = n
      /\ greenlight[g] = mutation[m].contract
      /\ greenlight[h] = mutation[n].contract
      /\ greenlight[g] # None /\ greenlight[h] # None
  BY <1>1, NoneIsNull DEF AuthorityInvariant, MutationsConsume, Mutation
<1>3. g = h
  BY <1>2 DEF AuthorityInvariant, GreenlightsHoldTheirKeys
<1> QED
  BY <1>2, <1>3

\* One mutation attempt is ever admitted under a ledger key, on either store.
THEOREM OneMutation == Spec => []OneMutationPerLedgerKey
<1>1. AuthorityInvariant => OneMutationPerLedgerKey
  BY OneUseOfAKey DEF OneMutationPerLedgerKey
<1> QED
  BY <1>1, AuthorityHolds, PTL

(***************************************************************************)
(* The promise of OneUseAuthority                                           *)
(***************************************************************************)
\* What one step can do to authority: grant it, spend it, or leave every key
\* with its holder and every greenlight with its use.
LEMMA StepsOnAuthority ==
  ASSUME AuthorityInvariant, Next
  PROVE  \/ \E r \in Requests : CommitGreenlight(r)
         \/ \E r \in Requests : CommitGatewayPass(r) \/ CommitGatewayPassAmbiguously(r)
         \/ SameHolders /\ UNCHANGED <<greenlight, mutation>>
<1> USE DEF environmentVars, policyVars, gateVars, lifecycleVars, requestVars
<1>0. ledger' = ledger => SameHolders
  BY DEF SameHolders
<1>1. ASSUME NEW r \in Requests, StartPolicy(r) \/ StartGateway(r) \/ StartReconcile(r) \/ Abandon(r)
      PROVE  UNCHANGED <<greenlight, ledger, mutation>>
  BY <1>1 DEF StartPolicy, EvaluatePolicy, StartGateway, GatewayCheck, StartReconcile,
              ReconcileSurfaceOperation, Abandon
<1>2. ASSUME NEW r \in Requests, PolicyStep(r), ~CommitGreenlight(r)
      PROVE  UNCHANGED <<greenlight, ledger, mutation>>
  BY <1>2 DEF PolicyStep, DerivePolicyConstraints, CommitPolicyDecision,
              GreenlightIssuanceConflict, IdempotencyLedgerConflict
<1>3. ASSUME NEW r \in Requests, GatewayStep(r),
             ~(CommitGatewayPass(r) \/ CommitGatewayPassAmbiguously(r))
      PROVE  UNCHANGED <<greenlight, ledger, mutation>>
  BY <1>3 DEF GatewayStep, DeriveGatewayConstraints, CommitGatewayRefusal,
              GatewayAlreadyConsumed, GatewayOperationInProgress, CommitReplayRefusal
<1>4. ASSUME NEW r \in Requests, LifecycleStep(r)
      PROVE  SameHolders /\ UNCHANGED <<greenlight, mutation>>
  <2>1. CASE ReadCurrentIdempotencyLedger(r)
    BY <1>0, <2>1 DEF ReadCurrentIdempotencyLedger
  <2>2. CASE CommitSurfaceOperationReconciliation(r)
    BY <2>2, CommitReconciliationPreserves DEF CommitSurfaceOperationReconciliation
  <2> QED
    BY <1>4, <2>1, <2>2 DEF LifecycleStep
<1>5. Environment => UNCHANGED <<greenlight, ledger, mutation>>
  BY DEF Environment, CreateIsolationState, CreateBreakerDecision, SetIsolation, Expire,
         ChangeBinding
<1> QED
  BY <1>0, <1>1, <1>2, <1>3, <1>4, <1>5 DEF Next, RequestStep

\* No write, however stale the entry it was computed from, takes a ledger key
\* from its holder.
THEOREM HolderIsFinal == Spec => LedgerHolderIsFinal
<1> DEFINE Kept == \A k \in LedgerKeys : ledger[k] # None =>
                     /\ ledger'[k] # None
                     /\ ledger'[k].contract = ledger[k].contract
                     /\ ledger'[k].greenlight = ledger[k].greenlight
<1>1. ASSUME AuthorityInvariant, Next PROVE Kept
  <2>1. SameHolders => Kept
    BY DEF SameHolders
  <2>2. ASSUME NEW r \in Requests, CommitGreenlight(r) PROVE Kept
    BY <1>1, <2>2 DEF CommitGreenlight, RecordGreenlight, AuthorityInvariant, TypeOK
  <2> QED
    BY <1>1, <2>1, <2>2, StepsOnAuthority, GatewayPassPreserves
<1>2. AuthorityInvariant /\ [Next]_vars => [Kept]_vars
  BY <1>1
<1> QED
  BY <1>2, AuthorityHolds, PTL DEF Spec, LedgerHolderIsFinal

\* The refinement mapping of Authority.
GrantedTo == [k \in LedgerKeys |-> IF ledger[k] = None THEN None ELSE ledger[k].contract]
SpentBy == [k \in LedgerKeys |->
              {m \in Requests : mutation[m] # None /\ AuthorityKey[mutation[m].contract] = k}]

\* A commit of evaluatePolicy that issues a greenlight grants its ledger key.
LEMMA CommitGreenlightGrants ==
  ASSUME AuthorityInvariant, NEW r \in Requests, CommitGreenlight(r)
  PROVE  Authority!Next
<1> DEFINE c == plan[r].contract
           k == AuthorityKey[c]
<1>1. /\ pc[r] = "policyCommit"
      /\ ledger[k] = None
      /\ ledger' = [ledger EXCEPT ![k] = [key |-> k, contract |-> c, greenlight |-> r,
                                          mutation |-> None, state |-> "authority_reserved"]]
      /\ mutation' = mutation
  BY DEF CommitGreenlight, RecordGreenlight, Answer, gateVars
<1>2. c \in Contracts /\ k \in LedgerKeys
  BY <1>1, KernelConstants DEF AuthorityInvariant, PlansAreGrounded, Grounded
<1>3. (ledger' # ledger => ledger'[k] # None) /\ ledger'[k] # None /\ ledger'[k].contract = c
  <2>1. [key |-> k, contract |-> c, greenlight |-> r, mutation |-> None,
         state |-> "authority_reserved"] \in LedgerEntry
    BY <1>2 DEF LedgerEntry, LedgerStates, Nullable
  <2> QED
    BY <1>1, <1>2, <2>1, NoneIsNull DEF AuthorityInvariant, TypeOK
<1>4. \A other \in LedgerKeys \ {k} : ledger'[other] = ledger[other]
  BY <1>1 DEF AuthorityInvariant, TypeOK
<1>5. GrantedTo[k] = None /\ (\A other \in LedgerKeys : GrantedTo[other] # c)
  <2>1. ASSUME NEW other \in LedgerKeys, GrantedTo[other] = c PROVE FALSE
    <3>1. ledger[other] # None /\ ledger[other].contract = c
      BY <2>1, <1>2, NoneIsNull DEF GrantedTo
    <3>2. other = k
      BY <3>1 DEF AuthorityInvariant, EntriesAreHeld
    <3> QED
      BY <3>1, <3>2, <1>1
  <2> QED
    BY <2>1, <1>1, <1>2 DEF GrantedTo
<1>6. GrantedTo' = [GrantedTo EXCEPT ![k] = c]
  BY <1>2, <1>3, <1>4 DEF GrantedTo
<1>7. SpentBy' = SpentBy
  BY <1>1 DEF SpentBy
<1>8. Authority!Grant(k, c)
  BY <1>5, <1>6, <1>7 DEF Authority!Grant, GrantedTo, SpentBy
<1> HIDE DEF k
<1> QED
  BY <1>2, <1>8 DEF Authority!Next, Authority!Grant

\* A commit of gatewayCheck that admits a mutation attempt, ambiguous or not,
\* uses the ledger key of its contract for the first time.
LEMMA GatewayPassUses ==
  ASSUME AuthorityInvariant, NEW r \in Requests,
         CommitGatewayPass(r) \/ CommitGatewayPassAmbiguously(r)
  PROVE  Authority!Next
<1> DEFINE p == plan[r]
           k == AuthorityKey[p.contract]
           admitted == [contract |-> p.contract, greenlight |-> p.greenlight]
<1>1. /\ pc[r] = "gateCommit"
      /\ p.pass
      /\ consumption[p.greenlight] = None
      /\ mutation' = [mutation EXCEPT ![r] = admitted]
  BY DEF CommitGatewayPass, CommitGatewayPassAmbiguously, GatewayCommitAccepted, AdmitMutation,
         Answer, Proceed
<1>2. /\ p.contract \in Contracts
      /\ p.greenlight \in Requests
      /\ greenlight[p.greenlight] = p.contract
      /\ p.contract # None
      /\ k \in LedgerKeys
      /\ mutation[r] = None
  BY <1>1, KernelConstants, NoneIsNull
     DEF AuthorityInvariant, PlansAreGrounded, Grounded, NothingBeforeCommit
<1>3. admitted # None
  BY <1>2, NoneIsNull DEF Mutation
<1>4. /\ mutation'[r] = admitted
      /\ \A m \in Requests \ {r} : mutation'[m] = mutation[m]
  BY <1>1 DEF AuthorityInvariant, TypeOK
<1>5. SameHolders
  BY GatewayPassPreserves
<1>6. GrantedTo' = GrantedTo
  BY <1>5 DEF SameHolders, GrantedTo
<1>7. GrantedTo[k] # None
  BY <1>2 DEF GrantedTo, AuthorityInvariant, GreenlightsHoldTheirKeys
<1>8. SpentBy[k] = {}
  <2> SUFFICES ASSUME NEW m \in Requests, mutation[m] # None, AuthorityKey[mutation[m].contract] = k
               PROVE  FALSE
    BY <1>2 DEF SpentBy
  <2> DEFINE g == mutation[m].greenlight
  <2>1. g \in Requests /\ consumption[g] = m /\ greenlight[g] = mutation[m].contract
        /\ greenlight[g] # None
    BY NoneIsNull DEF AuthorityInvariant, TypeOK, Nullable, Mutation, MutationsConsume
  <2>2. g = p.greenlight
    BY <2>1, <1>2 DEF AuthorityInvariant, GreenlightsHoldTheirKeys
  <2> QED
    BY <2>1, <2>2, <1>1, NoneIsNull
<1>9. \A other \in LedgerKeys : r \notin SpentBy[other]
  BY <1>2 DEF SpentBy
<1>10. SpentBy' = [SpentBy EXCEPT ![k] = {r}]
  <2>1. ASSUME NEW other \in LedgerKeys, NEW m \in Requests
        PROVE  m \in SpentBy'[other] <=> IF m = r THEN other = k ELSE m \in SpentBy[other]
    BY <1>3, <1>4 DEF SpentBy
  <2>2. \A other \in LedgerKeys :
          /\ SpentBy'[other] \subseteq Requests
          /\ SpentBy[other] \subseteq Requests
    BY DEF SpentBy
  <2>3. SpentBy'[k] = {r}
    BY <1>2, <1>8, <2>1, <2>2
  <2>4. ASSUME NEW other \in LedgerKeys \ {k}
        PROVE  SpentBy'[other] = SpentBy[other]
    <3>1. \A m \in Requests : m \in SpentBy'[other] <=> m \in SpentBy[other]
      BY <1>9, <2>1
    <3> QED
      BY <2>2, <3>1
  <2>5. /\ SpentBy = [other \in LedgerKeys |-> SpentBy[other]]
        /\ SpentBy' = [other \in LedgerKeys |-> SpentBy'[other]]
    BY DEF SpentBy
  <2> QED
    BY <1>2, <2>3, <2>4, <2>5
<1>11. Authority!Use(k, r)
  BY <1>6, <1>7, <1>8, <1>9, <1>10 DEF Authority!Use, GrantedTo, SpentBy
<1> HIDE DEF k
<1> QED
  BY <1>2, <1>11 DEF Authority!Next, Authority!Use

\* Policy, gateway and reconciliation requests over one shared store keep the promise of one-use
\* authority: the kernel implements OneUseAuthority.
THEOREM KernelKeepsOneUseAuthority == Spec => AuthoritySpec
<1>1. Init => Authority!Init
  BY DEF Init, Authority!Init
<1>2. ASSUME AuthorityInvariant, Next PROVE [Authority!Next]_(Authority!authorityVars)
  <2>1. CASE SameHolders /\ UNCHANGED <<greenlight, mutation>>
    <3>1. GrantedTo' = GrantedTo /\ SpentBy' = SpentBy
      BY <2>1 DEF SameHolders, GrantedTo, SpentBy
    <3> QED
      BY <3>1 DEF Authority!authorityVars, GrantedTo, SpentBy
  <2> QED
    BY <1>2, <2>1, StepsOnAuthority, CommitGreenlightGrants, GatewayPassUses
<1>3. UNCHANGED vars => UNCHANGED Authority!authorityVars
  BY DEF vars, Authority!authorityVars, policyVars, gateVars
<1>4. AuthorityInvariant /\ [Next]_vars => [Authority!Next]_(Authority!authorityVars)
  BY <1>2, <1>3
<1> QED
  BY <1>1, <1>4, AuthorityHolds, PTL DEF Spec, AuthoritySpec, Authority!Spec

(***************************************************************************)
(* The ledger tells the truth                                               *)
(***************************************************************************)
\* A greenlight consumed by no gateway check so far leaves its ledger key unspent.
LEMMA UnspentKey ==
  ASSUME AuthorityInvariant, NEW g \in Requests, greenlight[g] # None, consumption[g] = None,
         NEW m \in Requests, mutation[m] # None
  PROVE  AuthorityKey[mutation[m].contract] # AuthorityKey[greenlight[g]]
<1> DEFINE h == mutation[m].greenlight
<1>1. h \in Requests /\ consumption[h] = m /\ greenlight[h] = mutation[m].contract
      /\ greenlight[h] # None
  BY NoneIsNull DEF AuthorityInvariant, TypeOK, Nullable, Mutation, MutationsConsume
<1>2. h # g
  BY <1>1, NoneIsNull
<1> QED
  BY <1>1, <1>2 DEF AuthorityInvariant, GreenlightsHoldTheirKeys

\* The stages that owe something to the ledger, and those before a reconciliation.
BeforeReconciled == {"idle", "reconcileRead", "reconcileCommit"}

\* A step that leaves the ledger, the attempts and the reconciliations alone
\* preserves the invariant when each request keeps its place and its plan, goes
\* where nothing is owed, or holds the entry it will rewrite.
LEMMA QuietLedger ==
  ASSUME LedgerInvariant, UNCHANGED <<ledger, mutation, reconciliation>>,
         \A q \in Requests :
           \/ pc'[q] = pc[q] /\ plan'[q] = plan[q]
           \/ pc'[q] \notin BeforeReconciled \cup {"gateCommit"}
           \/ EntryInHand(q)' /\ (pc'[q] \in BeforeReconciled => pc[q] \in BeforeReconciled)
  PROVE  LedgerInvariant'
<1>1. EntriesInHand'
  BY DEF LedgerInvariant, EntriesInHand, EntryInHand, NamesItsAttempt, BeforeReconciled
<1>2. NothingReconciledBefore'
  BY DEF LedgerInvariant, NothingReconciledBefore, BeforeReconciled
<1>3. EntriesNameAttempts' /\ LedgerNamesTheMutation' /\ LedgerTellsTheOutcome'
  BY DEF LedgerInvariant, EntriesNameAttempts, NamesItsAttempt, LedgerNamesTheMutation,
         LedgerTellsTheOutcome
<1> QED
  BY <1>1, <1>2, <1>3 DEF LedgerInvariant

\* The entry of an admitted contract stands under its own authority key.
LEMMA AdmittedHoldTheirEntry ==
  ASSUME AuthorityInvariant, NEW m \in Requests, mutation[m] # None
  PROVE  LET c == mutation[m].contract
             entry == ledger[AuthorityKey[c]]
         IN /\ c \in Contracts
            /\ AuthorityKey[c] \in LedgerKeys /\ ContractKey[c] \in LedgerKeys
            /\ entry # None
            /\ entry \in LedgerEntry
            /\ entry.key = AuthorityKey[c]
            /\ entry.contract = c
<1> DEFINE c == mutation[m].contract
<1>1. /\ mutation[m].greenlight \in Requests
      /\ c \in Contracts
      /\ greenlight[mutation[m].greenlight] = c
      /\ c # None
  BY NoneIsNull DEF AuthorityInvariant, TypeOK, Nullable, Mutation, MutationsConsume
<1>2. AuthorityKey[c] \in LedgerKeys /\ ContractKey[c] \in LedgerKeys
  BY <1>1, KernelConstants
<1> QED
  BY <1>1, <1>2 DEF AuthorityInvariant, GreenlightsHoldTheirKeys, EntriesAreHeld, TypeOK, Nullable

\* A reconciliation always finds an entry under one of its contract's two keys.
\* One that names no attempt is the reservation, or stands under a shadowed key.
LEMMA ReadsAnEntryOfItsKeys ==
  ASSUME AuthorityInvariant, LedgerInvariant, NEW m \in Requests, mutation[m] # None
  PROVE  LET c == mutation[m].contract
             entry == LedgerEntryForContract(c)
         IN /\ entry # None
            /\ entry.key \in {AuthorityKey[c], ContractKey[c]}
            /\ NamesItsAttempt(entry)
            /\ entry.mutation = None =>
                 \/ Shadowed(entry.key)
                 \/ ClosedFromReservation(c) /\ entry.key = AuthorityKey[c]
<1> DEFINE c == mutation[m].contract
           own == ledger[AuthorityKey[c]]
           found == ledger[ContractKey[c]]
<1>1. /\ c \in Contracts
      /\ AuthorityKey[c] \in LedgerKeys /\ ContractKey[c] \in LedgerKeys
      /\ own # None /\ own \in LedgerEntry /\ own.key = AuthorityKey[c]
  BY AdmittedHoldTheirEntry
<1>2. NamesItsAttempt(own)
  BY <1>1 DEF LedgerInvariant, EntriesNameAttempts
<1>3. own.mutation = None => ClosedFromReservation(c) \/ Shadowed(AuthorityKey[c])
  BY <1>1, NoneIsNull DEF LedgerInvariant, LedgerNamesTheMutation
<1>4. CASE found # None
  <2>1. LedgerEntryForContract(c) = found /\ found.key = ContractKey[c] /\ NamesItsAttempt(found)
    BY <1>1, <1>4 DEF LedgerEntryForContract, LedgerInvariant, EntriesNameAttempts,
                      AuthorityInvariant, EntriesAreHeld
  <2>2. CASE ContractKey[c] = AuthorityKey[c]
    BY <1>1, <1>2, <1>3, <2>1, <2>2
  <2>3. CASE ContractKey[c] # AuthorityKey[c]
    <3>1. Shadowed(ContractKey[c])
      BY <1>1, <2>3 DEF Shadowed
    <3> QED
      BY <1>4, <2>1, <3>1
  <2> QED
    BY <2>2, <2>3
<1>5. CASE found = None
  <2>1. ContractKey[c] # AuthorityKey[c] /\ LedgerEntryForContract(c) = LastListedEntry(c)
    BY <1>1, <1>5 DEF LedgerEntryForContract
  <2>2. CASE Store = "memory"
    <3>1. LastListedEntry(c) = own
      BY <2>2 DEF LastListedEntry
    <3> QED
      BY <1>1, <1>2, <1>3, <2>1, <3>1
  <2>3. CASE Store # "memory"
    <3>1. LastListedEntry(c) = [own EXCEPT !.mutation = None]
      BY <1>1, <2>3 DEF LastListedEntry
    <3>2. /\ LastListedEntry(c).mutation = None
          /\ LastListedEntry(c).key = AuthorityKey[c]
          /\ LastListedEntry(c) \in LedgerEntry
      BY <1>1, <3>1 DEF LedgerEntry, Nullable
    <3>3. ClosedFromReservation(c)
      BY <2>1, <2>3, KernelConstants DEF ClosedFromReservation
    <3> QED
      BY <2>1, <3>2, <3>3, NoneIsNull DEF NamesItsAttempt
  <2> QED
    BY <2>2, <2>3
<1> QED
  BY <1>4, <1>5

(***************************************************************************)
(* The reads before a commit                                                *)
(***************************************************************************)
\* A gateway check that passes has read the entry its greenlight holds.
LEMMA DeriveGatewayHoldsEntry ==
  ASSUME AuthorityInvariant, LedgerInvariant, NEW r \in Requests, DeriveGatewayConstraints(r)
  PROVE  LedgerInvariant'
<1> DEFINE k == AuthorityKey[greenlight[plan[r].greenlight]]
           pass == Admissible(plan[r])
           p == [plan[r] EXCEPT !.pass = pass, !.ledger = ledger[k]]
<1>1. Proceed(r, "gateRead", "gateCommit", p) /\ UNCHANGED <<ledger, mutation, reconciliation>>
  BY DEF DeriveGatewayConstraints, gateVars, lifecycleVars
<1>2. plan[r] \in Plan /\ Grounded(plan[r], "gateRead")
  BY <1>1 DEF Proceed, AuthorityInvariant, TypeOK, PlansAreGrounded
<1>3. /\ pc'[r] = "gateCommit" /\ plan'[r] = p
      /\ \A q \in Requests \ {r} : pc'[q] = pc[q] /\ plan'[q] = plan[q]
  BY <1>1 DEF Proceed, AuthorityInvariant, TypeOK
<1>4. p.pass = pass /\ p.ledger = ledger[k] /\ p.contract = plan[r].contract
  BY <1>2 DEF Plan
<1>5. pass => /\ ledger[k] # None
              /\ ledger[k].key = AuthorityKey[plan[r].contract]
  <2> SUFFICES ASSUME pass PROVE ledger[k] # None /\ ledger[k].key = AuthorityKey[plan[r].contract]
    OBVIOUS
  <2>1. /\ plan[r].greenlight \in Requests
        /\ plan[r].contract \in Contracts
        /\ greenlight[plan[r].greenlight] = plan[r].contract
        /\ greenlight[plan[r].greenlight] # None
    BY <1>2 DEF Admissible, Grounded
  <2>2. k \in LedgerKeys
    BY <2>1, KernelConstants
  <2> QED
    BY <2>1, <2>2 DEF AuthorityInvariant, GreenlightsHoldTheirKeys, EntriesAreHeld
<1> HIDE DEF k, pass, p
<1>6. EntryInHand(r)'
  BY <1>3, <1>4, <1>5 DEF EntryInHand
<1> QED
  BY <1>1, <1>3, <1>6, QuietLedger DEF BeforeReconciled

\* A reconciliation starts from an attempt of the contract it names.
LEMMA ReconcileNamesAttempt ==
  ASSUME AuthorityInvariant, LedgerInvariant, NEW r \in Requests, StartReconcile(r)
  PROVE  LedgerInvariant'
<1>1. PICK m \in Requests, status \in Statuses :
        \E gaps \in SUBSET GapsOf(m), orphan \in OrphanRequests(status) :
          ReconcileSurfaceOperation(r, m, status, orphan, gaps)
  BY DEF StartReconcile
<1>2. PICK gaps \in SUBSET GapsOf(m), orphan \in OrphanRequests(status) :
        ReconcileSurfaceOperation(r, m, status, orphan, gaps)
  BY <1>1
<1> DEFINE p == [NoPlan EXCEPT !.contract = mutation[m].contract, !.mutation = m,
                               !.status = status, !.orphan = orphan, !.gaps = gaps,
                               !.claim = claim[SurfaceOf[mutation[m].contract]]]
<1>3. /\ Proceed(r, "idle", "reconcileRead", p)
      /\ UNCHANGED <<ledger, mutation, reconciliation>>
      /\ mutation[m] # None
  BY <1>2 DEF ReconcileSurfaceOperation, gateVars, lifecycleVars
<1>4. p.contract = mutation[m].contract /\ p.mutation = m
  BY DEF NoPlan
<1> HIDE DEF p
<1>5. /\ pc[r] = "idle" /\ pc'[r] = "reconcileRead" /\ plan'[r] = p
      /\ \A q \in Requests \ {r} : pc'[q] = pc[q] /\ plan'[q] = plan[q]
  BY <1>3 DEF Proceed, AuthorityInvariant, TypeOK
<1>6. EntryInHand(r)'
  BY <1>3, <1>4, <1>5 DEF EntryInHand
<1> QED
  BY <1>3, <1>5, <1>6, QuietLedger DEF BeforeReconciled

\* A reconciliation reads an entry of its contract's keys.
LEMMA ReadLedgerHoldsEntry ==
  ASSUME AuthorityInvariant, LedgerInvariant, NEW r \in Requests, ReadCurrentIdempotencyLedger(r)
  PROVE  LedgerInvariant'
<1> DEFINE c == plan[r].contract
           p == [plan[r] EXCEPT !.ledger = LedgerEntryForContract(c)]
<1>1. Proceed(r, "reconcileRead", "reconcileCommit", p) /\ UNCHANGED <<ledger, mutation, reconciliation>>
  BY DEF ReadCurrentIdempotencyLedger, gateVars, lifecycleVars
<1>2. plan[r] \in Plan /\ Grounded(plan[r], "reconcileRead") /\ pc[r] = "reconcileRead"
  BY <1>1 DEF Proceed, AuthorityInvariant, TypeOK, PlansAreGrounded
<1>3. /\ plan[r].mutation \in Requests
      /\ mutation[plan[r].mutation] # None
      /\ mutation[plan[r].mutation].contract = c
  BY <1>2 DEF Grounded, LedgerInvariant, EntriesInHand, EntryInHand
<1>4. /\ LedgerEntryForContract(c) # None
      /\ LedgerEntryForContract(c).key \in {AuthorityKey[c], ContractKey[c]}
      /\ NamesItsAttempt(LedgerEntryForContract(c))
      /\ LedgerEntryForContract(c).mutation = None =>
           \/ Shadowed(LedgerEntryForContract(c).key)
           \/ ClosedFromReservation(c) /\ LedgerEntryForContract(c).key = AuthorityKey[c]
  BY <1>3, ReadsAnEntryOfItsKeys
<1>5. /\ p.contract = c /\ p.mutation = plan[r].mutation
      /\ p.ledger = LedgerEntryForContract(c)
  BY <1>2 DEF Plan
<1> HIDE DEF p
<1>6. /\ pc'[r] = "reconcileCommit" /\ plan'[r] = p
      /\ \A q \in Requests \ {r} : pc'[q] = pc[q] /\ plan'[q] = plan[q]
  BY <1>1 DEF Proceed, AuthorityInvariant, TypeOK
<1>7. EntryInHand(r)'
  BY <1>1, <1>3, <1>4, <1>5, <1>6 DEF EntryInHand, NamesItsAttempt
<1> QED
  BY <1>1, <1>2, <1>6, <1>7, QuietLedger DEF BeforeReconciled

(***************************************************************************)
(* The three commits                                                        *)
(***************************************************************************)
\* A reservation takes a free key, which no attempt was ever admitted under.
LEMMA ReservationTellsTheTruth ==
  ASSUME AuthorityInvariant, LedgerInvariant, NEW r \in Requests, CommitGreenlight(r)
  PROVE  LedgerInvariant'
<1> DEFINE c == plan[r].contract
           k == AuthorityKey[c]
           entry == [key |-> k, contract |-> c, greenlight |-> r,
                     mutation |-> None, state |-> "authority_reserved"]
<1>1. /\ Answer(r, "policyCommit", "greenlight")
      /\ ledger[k] = None
      /\ ledger' = [ledger EXCEPT ![k] = entry]
      /\ UNCHANGED <<mutation, reconciliation>>
  BY DEF CommitGreenlight, RecordGreenlight, gateVars, lifecycleVars
<1>2. /\ pc'[r] = "done"
      /\ \A q \in Requests \ {r} : pc'[q] = pc[q] /\ plan'[q] = plan[q]
  BY <1>1 DEF Answer, AuthorityInvariant, TypeOK
<1>3. EntriesInHand' /\ NothingReconciledBefore'
  BY <1>1, <1>2 DEF LedgerInvariant, EntriesInHand, EntryInHand, NamesItsAttempt,
                    NothingReconciledBefore
<1>4. entry.state = "authority_reserved" /\ entry.mutation = None
  OBVIOUS
<1> HIDE DEF entry, k
<1>5. \A j \in LedgerKeys : ledger'[j] = IF j = k THEN entry ELSE ledger[j]
  BY <1>1 DEF AuthorityInvariant, TypeOK
<1>6. EntriesNameAttempts'
  BY <1>1, <1>4, <1>5 DEF LedgerInvariant, EntriesNameAttempts, NamesItsAttempt
<1>7. LedgerNamesTheMutation'
  <2>1. ASSUME NEW m \in Requests, mutation[m] # None
        PROVE  ledger'[AuthorityKey[mutation[m].contract]] = ledger[AuthorityKey[mutation[m].contract]]
    BY <2>1, <1>1, <1>5, AdmittedHoldTheirEntry
  <2> QED
    BY <2>1, <1>1 DEF LedgerInvariant, LedgerNamesTheMutation
<1>8. LedgerTellsTheOutcome'
  BY <1>1, <1>4, <1>5 DEF LedgerInvariant, LedgerTellsTheOutcome, TerminalLedgerStates
<1> QED
  BY <1>3, <1>6, <1>7, <1>8 DEF LedgerInvariant

\* What an accepted gateway commit does to the entry of its contract.
LEMMA AdmissionStartsTheEntry ==
  ASSUME AuthorityInvariant, LedgerInvariant, NEW r \in Requests,
         CommitGatewayPass(r) \/ CommitGatewayPassAmbiguously(r)
  PROVE  LET p == plan[r]
             k == AuthorityKey[p.contract]
         IN /\ p.contract \in Contracts
            /\ k \in LedgerKeys
            /\ mutation[r] = None
            /\ mutation'[r] # None
            /\ mutation'[r].contract = p.contract
            /\ \A m \in Requests \ {r} : mutation'[m] = mutation[m]
            /\ reconciliation' = reconciliation
            /\ ledger'[k] # None
            /\ ledger'[k].mutation = r
            /\ ledger'[k].state = "mutation_started"
            /\ \A j \in LedgerKeys \ {k} : ledger'[j] = ledger[j]
            /\ pc'[r] \in {"gateReplay", "done"}
            /\ \A q \in Requests \ {r} : pc'[q] = pc[q] /\ plan'[q] = plan[q]
            /\ \A m \in Requests : mutation[m] # None => AuthorityKey[mutation[m].contract] # k
<1> DEFINE p == plan[r]
           k == AuthorityKey[p.contract]
           admitted == [contract |-> p.contract, greenlight |-> p.greenlight]
           started == [p.ledger EXCEPT !.mutation = r, !.state = "mutation_started"]
<1>1. /\ p.pass
      /\ pc[r] = "gateCommit"
      /\ consumption[p.greenlight] = None
      /\ mutation' = [mutation EXCEPT ![r] = admitted]
      /\ p.ledger # None => ledger' = [ledger EXCEPT ![p.ledger.key] = started]
      /\ reconciliation' = reconciliation
  BY DEF CommitGatewayPass, CommitGatewayPassAmbiguously, GatewayCommitAccepted, AdmitMutation,
         Answer, Proceed, lifecycleVars
<1>2. /\ p \in Plan
      /\ p.contract \in Contracts
      /\ p.contract # None
      /\ p.greenlight \in Requests
      /\ greenlight[p.greenlight] = p.contract
      /\ mutation[r] = None
      /\ k \in LedgerKeys
  BY <1>1, KernelConstants, NoneIsNull
     DEF AuthorityInvariant, TypeOK, PlansAreGrounded, Grounded, NothingBeforeCommit
<1>3. p.ledger # None /\ p.ledger.key = k /\ p.ledger \in LedgerEntry
  BY <1>1, <1>2 DEF LedgerInvariant, EntriesInHand, EntryInHand, Plan, Nullable
<1>4. /\ started \in LedgerEntry /\ started # None
      /\ started.mutation = r /\ started.state = "mutation_started"
  <2>1. started \in LedgerEntry /\ started.mutation = r /\ started.state = "mutation_started"
    BY <1>3 DEF LedgerEntry, LedgerStates, Nullable
  <2> QED
    BY <2>1, NoneIsNull
<1>5. admitted # None /\ admitted.contract = p.contract
  BY <1>2, NoneIsNull DEF Mutation
<1>6. /\ mutation'[r] = admitted
      /\ \A m \in Requests \ {r} : mutation'[m] = mutation[m]
  BY <1>1 DEF AuthorityInvariant, TypeOK
<1> HIDE DEF started
<1>7. /\ ledger'[k] = started
      /\ \A j \in LedgerKeys \ {k} : ledger'[j] = ledger[j]
  BY <1>1, <1>2, <1>3 DEF AuthorityInvariant, TypeOK
<1>8. /\ pc'[r] \in {"gateReplay", "done"}
      /\ \A q \in Requests \ {r} : pc'[q] = pc[q] /\ plan'[q] = plan[q]
  BY DEF CommitGatewayPass, CommitGatewayPassAmbiguously, Answer, Proceed, AuthorityInvariant, TypeOK
<1>9. \A m \in Requests : mutation[m] # None => AuthorityKey[mutation[m].contract] # k
  BY <1>1, <1>2, UnspentKey
<1> QED
  BY <1>1, <1>2, <1>4, <1>5, <1>6, <1>7, <1>8, <1>9

\* An admission names its attempt in the entry, and takes no other's name away.
LEMMA AdmissionTellsTheTruth ==
  ASSUME AuthorityInvariant, LedgerInvariant, NEW r \in Requests,
         CommitGatewayPass(r) \/ CommitGatewayPassAmbiguously(r)
  PROVE  LedgerInvariant'
<1> DEFINE c == plan[r].contract
           k == AuthorityKey[c]
<1>1. /\ c \in Contracts
      /\ k \in LedgerKeys
      /\ mutation[r] = None
      /\ mutation'[r] # None
      /\ mutation'[r].contract = c
      /\ \A m \in Requests \ {r} : mutation'[m] = mutation[m]
      /\ reconciliation' = reconciliation
      /\ ledger'[k] # None
      /\ ledger'[k].mutation = r
      /\ ledger'[k].state = "mutation_started"
      /\ \A j \in LedgerKeys \ {k} : ledger'[j] = ledger[j]
      /\ pc'[r] \in {"gateReplay", "done"}
      /\ \A q \in Requests \ {r} : pc'[q] = pc[q] /\ plan'[q] = plan[q]
      /\ \A m \in Requests : mutation[m] # None => AuthorityKey[mutation[m].contract] # k
  BY AdmissionStartsTheEntry
<1> HIDE DEF c
<1>2. \A m \in Requests : mutation[m] # None => mutation'[m] = mutation[m]
  BY <1>1
<1>3. EntriesInHand'
  <2> SUFFICES ASSUME NEW q \in Requests PROVE EntryInHand(q)'
    BY DEF EntriesInHand
  <2>1. CASE q = r
    BY <2>1, <1>1 DEF EntryInHand
  <2>2. CASE q # r
    <3>1. pc'[q] = pc[q] /\ plan'[q] = plan[q] /\ EntryInHand(q)
      BY <2>2, <1>1 DEF LedgerInvariant, EntriesInHand
    <3>2. /\ pc[q] \in {"reconcileRead", "reconcileCommit"} => plan[q].mutation \in Requests
          /\ plan[q].ledger # None /\ plan[q].ledger.mutation # None =>
               plan[q].ledger.mutation \in Requests
      BY DEF AuthorityInvariant, PlansAreGrounded, Grounded, TypeOK, Plan, Nullable, LedgerEntry
    <3>3. plan[q].ledger # None /\ NamesItsAttempt(plan[q].ledger) => NamesItsAttempt(plan[q].ledger)'
      BY <1>2, <3>1, <3>2 DEF NamesItsAttempt
    <3> QED
      BY <1>2, <3>1, <3>2, <3>3 DEF EntryInHand
  <2> QED
    BY <2>1, <2>2
<1>4. NothingReconciledBefore'
  BY <1>1 DEF LedgerInvariant, NothingReconciledBefore
<1>5. EntriesNameAttempts'
  <2> SUFFICES ASSUME NEW j \in LedgerKeys, ledger'[j] # None
               PROVE  /\ ledger'[j].mutation # None =>
                           /\ mutation'[ledger'[j].mutation] # None
                           /\ AuthorityKey[mutation'[ledger'[j].mutation].contract] = ledger'[j].key
                      /\ ledger'[j].mutation = None /\ ledger'[j].state # "authority_reserved" =>
                           /\ ledger'[j].state \in TerminalLedgerStates
                           /\ \/ Shadowed(j)
                              \/ \E m \in Requests :
                                   mutation'[m] # None /\ AuthorityKey[mutation'[m].contract] = j
    BY DEF EntriesNameAttempts, NamesItsAttempt
  <2>1. CASE j = k
    <3>1. ledger'[j].key = j
      BY GatewayPassPreserves DEF AuthorityInvariant, EntriesAreHeld
    <3> QED
      BY <2>1, <3>1, <1>1, NoneIsNull
  <2>2. CASE j # k
    <3>1. ledger'[j] = ledger[j] /\ ledger[j].mutation \in Nullable(Requests)
      BY <2>2, <1>1 DEF AuthorityInvariant, TypeOK, Nullable, LedgerEntry
    <3>2. NamesItsAttempt(ledger[j])
      BY <3>1 DEF LedgerInvariant, EntriesNameAttempts
    <3>3. ledger[j].mutation = None /\ ledger[j].state # "authority_reserved" =>
            /\ ledger[j].state \in TerminalLedgerStates
            /\ \/ Shadowed(j)
               \/ \E m \in Requests : mutation[m] # None /\ AuthorityKey[mutation[m].contract] = j
      BY <3>1 DEF LedgerInvariant, EntriesNameAttempts
    <3> QED
      BY <1>2, <3>1, <3>2, <3>3 DEF NamesItsAttempt, Nullable
  <2> QED
    BY <2>1, <2>2
<1>6. LedgerNamesTheMutation'
  <2> SUFFICES ASSUME NEW m \in Requests, mutation'[m] # None, NEW c0, c0 = mutation'[m].contract,
                      NEW kept, kept = ledger'[AuthorityKey[c0]]
               PROVE  /\ kept # None
                      /\ kept.state # "authority_reserved"
                      /\ \/ kept.mutation = m
                         \/ /\ kept.mutation = None
                            /\ kept.state \in TerminalLedgerStates
                            /\ ClosedFromReservation(c0) \/ Shadowed(AuthorityKey[c0])
    BY DEF LedgerNamesTheMutation
  <2>1. CASE m = r
    BY <2>1, <1>1
  <2>2. CASE m # r
    <3>1. /\ mutation'[m] = mutation[m]
          /\ mutation[m] # None
          /\ AuthorityKey[mutation[m].contract] # k
      BY <2>2, <1>1
    <3>2. AuthorityKey[mutation[m].contract] \in LedgerKeys
      BY <3>1, AdmittedHoldTheirEntry
    <3>3. kept = ledger[AuthorityKey[c0]] /\ c0 = mutation[m].contract
      BY <1>1, <3>1, <3>2
    <3> QED
      BY <3>1, <3>3 DEF LedgerInvariant, LedgerNamesTheMutation
  <2> QED
    BY <2>1, <2>2
<1>7. LedgerTellsTheOutcome'
  <2> SUFFICES ASSUME NEW j \in LedgerKeys, ledger'[j] # None, ledger'[j].state \in TerminalLedgerStates
               PROVE  \E q \in Requests :
                        /\ reconciliation[q] # None
                        /\ LedgerStateFor(reconciliation[q].status) = ledger'[j].state
                        /\ reconciliation[q].status \in TerminalStatuses
                        /\ mutation'[reconciliation[q].mutation] # None
                        /\ j \in {AuthorityKey[mutation'[reconciliation[q].mutation].contract],
                                  ContractKey[mutation'[reconciliation[q].mutation].contract]}
    BY <1>1 DEF LedgerTellsTheOutcome
  <2>1. j # k /\ ledger'[j] = ledger[j]
    BY <1>1 DEF TerminalLedgerStates
  <2>2. PICK q \in Requests :
          /\ reconciliation[q] # None
          /\ LedgerStateFor(reconciliation[q].status) = ledger[j].state
          /\ reconciliation[q].status \in TerminalStatuses
          /\ mutation[reconciliation[q].mutation] # None
          /\ j \in {AuthorityKey[mutation[reconciliation[q].mutation].contract],
                    ContractKey[mutation[reconciliation[q].mutation].contract]}
    BY <2>1 DEF LedgerInvariant, LedgerTellsTheOutcome
  <2>3. reconciliation[q].mutation \in Requests
    BY <2>2 DEF AuthorityInvariant, TypeOK, Nullable, Reconciliation
  <2> QED
    BY <1>2, <2>1, <2>2, <2>3
<1> QED
  BY <1>3, <1>4, <1>5, <1>6, <1>7 DEF LedgerInvariant

\* What a reconciliation's commit does to the entry it has read.
LEMMA ReconciliationClosesTheEntry ==
  ASSUME AuthorityInvariant, LedgerInvariant, NEW r \in Requests,
         CommitSurfaceOperationReconciliation(r)
  PROVE  LET p == plan[r]
             k == p.ledger.key
         IN /\ p.contract \in Contracts
            /\ p.mutation \in Requests
            /\ mutation[p.mutation] # None
            /\ mutation[p.mutation].contract = p.contract
            /\ mutation' = mutation
            /\ p.ledger # None /\ HolderStands(p.ledger)
            /\ k \in LedgerKeys
            /\ k \in {AuthorityKey[p.contract], ContractKey[p.contract]}
            /\ pc'[r] = "done"
            /\ \A q \in Requests \ {r} : pc'[q] = pc[q] /\ plan'[q] = plan[q]
            /\ reconciliation[r] = None
            /\ reconciliation'[r] # None
            /\ reconciliation'[r].mutation = p.mutation
            /\ reconciliation'[r].status = p.status
            /\ \A q \in Requests \ {r} : reconciliation'[q] = reconciliation[q]
            /\ \A j \in LedgerKeys \ {k} : ledger'[j] = ledger[j]
            /\ \/ ledger'[k] = ledger[k]
               \/ /\ p.status \in TerminalStatuses
                  /\ ledger'[k] # None
                  /\ ledger'[k].key = k
                  /\ ledger'[k].mutation = p.ledger.mutation
                  /\ ledger'[k].mutation # None =>
                       /\ mutation[ledger'[k].mutation] # None
                       /\ AuthorityKey[mutation[ledger'[k].mutation].contract] = k
                  /\ ledger'[k].mutation = None =>
                       \/ Shadowed(k)
                       \/ ClosedFromReservation(p.contract) /\ k = AuthorityKey[p.contract]
                  /\ ledger'[k].state = LedgerStateFor(p.status)
<1> DEFINE p == plan[r]
           k == p.ledger.key
           found == [mutation |-> p.mutation, status |-> p.status]
           closed == [p.ledger EXCEPT !.state = LedgerStateFor(p.status)]
<1>1. /\ Answer(r, "reconcileCommit", "reconciled")
      /\ reconciliation' = [reconciliation EXCEPT ![r] = found]
      /\ ledger' = LedgerAfter(p)
      /\ mutation' = mutation
  BY DEF CommitSurfaceOperationReconciliation, gateVars
<1>2. /\ pc[r] = "reconcileCommit"
      /\ pc'[r] = "done"
      /\ \A q \in Requests \ {r} : pc'[q] = pc[q] /\ plan'[q] = plan[q]
  BY <1>1 DEF Answer, AuthorityInvariant, TypeOK
<1>3. /\ p \in Plan
      /\ p.contract \in Contracts
      /\ p.mutation \in Requests
      /\ p.status \in DownstreamStatuses
  BY <1>2 DEF AuthorityInvariant, TypeOK, PlansAreGrounded, Grounded, Plan
<1>4. /\ mutation[p.mutation] # None
      /\ mutation[p.mutation].contract = p.contract
      /\ p.ledger # None
      /\ k \in {AuthorityKey[p.contract], ContractKey[p.contract]}
      /\ NamesItsAttempt(p.ledger)
      /\ p.ledger.mutation = None =>
           \/ Shadowed(k)
           \/ ClosedFromReservation(p.contract) /\ k = AuthorityKey[p.contract]
      /\ reconciliation[r] = None
  BY <1>2 DEF LedgerInvariant, EntriesInHand, EntryInHand, NothingReconciledBefore
<1>5. /\ p.ledger \in LedgerEntry /\ k \in LedgerKeys /\ HolderStands(p.ledger)
  BY <1>3, <1>4 DEF Plan, Nullable, LedgerEntry, AuthorityInvariant, StaleEntriesHaveTheHolder
<1>6. found \in Reconciliation /\ found # None
  BY <1>3, NoneIsNull DEF Reconciliation
<1>7. closed \in LedgerEntry /\ closed # None /\ closed.mutation = p.ledger.mutation
      /\ closed.key = k /\ closed.state = LedgerStateFor(p.status)
  <2>1. LedgerStateFor(p.status) \in LedgerStates
    BY DEF LedgerStateFor, LedgerStates, TerminalLedgerStates
  <2>2. closed \in LedgerEntry /\ closed.mutation = p.ledger.mutation
        /\ closed.key = k /\ closed.state = LedgerStateFor(p.status)
    BY <1>5, <2>1 DEF LedgerEntry
  <2> QED
    BY <2>2, NoneIsNull
<1>8. /\ reconciliation'[r] = found
      /\ \A q \in Requests \ {r} : reconciliation'[q] = reconciliation[q]
  BY <1>1 DEF AuthorityInvariant, TypeOK
<1> HIDE DEF closed
<1>9. ledger' = IF p.status = "pending" THEN ledger ELSE [ledger EXCEPT ![k] = closed]
  BY <1>1, <1>4 DEF LedgerAfter, closed
<1>10. /\ \A j \in LedgerKeys \ {k} : ledger'[j] = ledger[j]
       /\ ledger'[k] = IF p.status = "pending" THEN ledger[k] ELSE closed
  BY <1>5, <1>9 DEF AuthorityInvariant, TypeOK
<1>11. p.status # "pending" => p.status \in TerminalStatuses
  BY <1>3 DEF DownstreamStatuses, TerminalStatuses, ReleasingStatuses
<1>12. closed.mutation # None => /\ mutation[closed.mutation] # None
                                /\ AuthorityKey[mutation[closed.mutation].contract] = k
  BY <1>4, <1>7 DEF NamesItsAttempt
<1> QED
  BY <1>1, <1>2, <1>3, <1>4, <1>5, <1>6, <1>7, <1>8, <1>10, <1>11, <1>12

\* The state a terminal status closes an entry with.
LEMMA ClosedStates ==
  \A status : LedgerStateFor(status) \in TerminalLedgerStates
BY DEF LedgerStateFor, TerminalLedgerStates

\* A reconciliation closes the entry it has read with what it observed.
LEMMA ReconciliationTellsTheTruth ==
  ASSUME AuthorityInvariant, LedgerInvariant, NEW r \in Requests,
         CommitSurfaceOperationReconciliation(r)
  PROVE  LedgerInvariant'
<1> DEFINE p == plan[r]
           k == p.ledger.key
           Closed == /\ p.status \in TerminalStatuses
                     /\ ledger'[k] # None
                     /\ ledger'[k].key = k
                     /\ ledger'[k].mutation # None =>
                          /\ mutation[ledger'[k].mutation] # None
                          /\ AuthorityKey[mutation[ledger'[k].mutation].contract] = k
                     /\ ledger'[k].mutation = None =>
                          \/ Shadowed(k)
                          \/ ClosedFromReservation(p.contract) /\ k = AuthorityKey[p.contract]
                     /\ ledger'[k].state = LedgerStateFor(p.status)
<1>1. /\ p.mutation \in Requests
      /\ mutation[p.mutation] # None
      /\ mutation[p.mutation].contract = p.contract
      /\ mutation' = mutation
      /\ k \in LedgerKeys
      /\ k \in {AuthorityKey[p.contract], ContractKey[p.contract]}
      /\ pc'[r] = "done"
      /\ \A q \in Requests \ {r} : pc'[q] = pc[q] /\ plan'[q] = plan[q]
      /\ reconciliation[r] = None
      /\ reconciliation'[r] # None
      /\ reconciliation'[r].mutation = p.mutation
      /\ reconciliation'[r].status = p.status
      /\ \A q \in Requests \ {r} : reconciliation'[q] = reconciliation[q]
      /\ \A j \in LedgerKeys \ {k} : ledger'[j] = ledger[j]
      /\ ledger'[k] = ledger[k] \/ Closed
  BY ReconciliationClosesTheEntry
<1> HIDE DEF p, k
<1>2. /\ LedgerStateFor(p.status) # "authority_reserved"
      /\ LedgerStateFor(p.status) \in TerminalLedgerStates
  BY ClosedStates DEF LedgerStateFor
<1>3. EntriesInHand' /\ NothingReconciledBefore'
  BY <1>1 DEF LedgerInvariant, EntriesInHand, EntryInHand, NamesItsAttempt, NothingReconciledBefore
<1>4. EntriesNameAttempts'
  <2> SUFFICES ASSUME NEW j \in LedgerKeys, ledger'[j] # None
               PROVE  /\ ledger'[j].mutation # None =>
                           /\ mutation[ledger'[j].mutation] # None
                           /\ AuthorityKey[mutation[ledger'[j].mutation].contract] = ledger'[j].key
                      /\ ledger'[j].mutation = None /\ ledger'[j].state # "authority_reserved" =>
                           /\ ledger'[j].state \in TerminalLedgerStates
                           /\ \/ Shadowed(j)
                              \/ \E m \in Requests :
                                   mutation[m] # None /\ AuthorityKey[mutation[m].contract] = j
    BY <1>1 DEF EntriesNameAttempts, NamesItsAttempt
  <2>1. CASE ledger'[j] = ledger[j]
    BY <2>1 DEF LedgerInvariant, EntriesNameAttempts, NamesItsAttempt
  <2>2. CASE j = k /\ Closed
    BY <2>2, <1>1, <1>2
  <2> QED
    BY <1>1, <2>1, <2>2
<1>5. LedgerNamesTheMutation'
  <2> SUFFICES ASSUME NEW m \in Requests, mutation[m] # None, NEW c, c = mutation[m].contract,
                      NEW kept, kept = ledger'[AuthorityKey[c]]
               PROVE  /\ kept # None
                      /\ kept.state # "authority_reserved"
                      /\ \/ kept.mutation = m
                         \/ /\ kept.mutation = None
                            /\ kept.state \in TerminalLedgerStates
                            /\ ClosedFromReservation(c) \/ Shadowed(AuthorityKey[c])
    BY <1>1 DEF LedgerNamesTheMutation
  <2>1. CASE kept = ledger[AuthorityKey[c]]
    BY <2>1 DEF LedgerInvariant, LedgerNamesTheMutation
  <2>2. CASE AuthorityKey[c] = k /\ Closed
    <3>1. \A n \in Requests : mutation[n] # None /\ AuthorityKey[mutation[n].contract] = k => n = m
      BY <2>2, OneUseOfAKey
    <3>2. kept.mutation # None => kept.mutation \in Requests
      BY <1>1, <2>2, CommitReconciliationPreserves
         DEF AuthorityInvariant, TypeOK, Nullable, LedgerEntry
    <3>3. kept.mutation # None => kept.mutation = m
      BY <2>2, <3>1, <3>2
    <3>4. kept.mutation = None => Shadowed(AuthorityKey[c]) \/ ClosedFromReservation(c)
      <4>1. ASSUME ClosedFromReservation(p.contract), k = AuthorityKey[p.contract]
            PROVE  ClosedFromReservation(c)
        BY <1>1, <3>1, <4>1
      <4> QED
        BY <2>2, <4>1
    <3> QED
      BY <1>2, <2>2, <3>3, <3>4
  <2>3. AuthorityKey[c] \in LedgerKeys
    BY AdmittedHoldTheirEntry
  <2> QED
    BY <1>1, <2>1, <2>2, <2>3
<1>6. LedgerTellsTheOutcome'
  <2> SUFFICES ASSUME NEW j \in LedgerKeys, ledger'[j] # None, ledger'[j].state \in TerminalLedgerStates
               PROVE  \E q \in Requests :
                        /\ reconciliation'[q] # None
                        /\ LedgerStateFor(reconciliation'[q].status) = ledger'[j].state
                        /\ reconciliation'[q].status \in TerminalStatuses
                        /\ mutation[reconciliation'[q].mutation] # None
                        /\ j \in {AuthorityKey[mutation[reconciliation'[q].mutation].contract],
                                  ContractKey[mutation[reconciliation'[q].mutation].contract]}
    BY <1>1 DEF LedgerTellsTheOutcome
  <2>1. CASE ledger'[j] = ledger[j]
    <3>1. PICK q \in Requests :
            /\ reconciliation[q] # None
            /\ LedgerStateFor(reconciliation[q].status) = ledger[j].state
            /\ reconciliation[q].status \in TerminalStatuses
            /\ mutation[reconciliation[q].mutation] # None
            /\ j \in {AuthorityKey[mutation[reconciliation[q].mutation].contract],
                      ContractKey[mutation[reconciliation[q].mutation].contract]}
      BY <2>1 DEF LedgerInvariant, LedgerTellsTheOutcome
    <3> QED
      BY <1>1, <2>1, <3>1
  <2>2. CASE j = k /\ Closed
    BY <1>1, <2>2
  <2> QED
    BY <1>1, <2>1, <2>2
<1> QED
  BY <1>3, <1>4, <1>5, <1>6 DEF LedgerInvariant

(***************************************************************************)
(* Every step keeps the ledger truthful                                     *)
(***************************************************************************)
LEMMA InitLedger == Init => LedgerInvariant
<1> SUFFICES ASSUME Init PROVE LedgerInvariant
  OBVIOUS
<1>1. EntriesInHand /\ NothingReconciledBefore
  BY DEF Init, EntriesInHand, EntryInHand, NothingReconciledBefore
<1>2. EntriesNameAttempts /\ LedgerNamesTheMutation /\ LedgerTellsTheOutcome
  BY DEF Init, EntriesNameAttempts, LedgerNamesTheMutation, LedgerTellsTheOutcome
<1> QED
  BY <1>1, <1>2 DEF LedgerInvariant

\* The steps of a request that neither rewrite an entry nor read one to rewrite.
LEMMA RequestLeavesLedger ==
  ASSUME AuthorityInvariant, LedgerInvariant, NEW r \in Requests,
         \/ StartPolicy(r) \/ StartGateway(r) \/ Abandon(r)
         \/ PolicyStep(r) /\ ~CommitGreenlight(r)
         \/ /\ GatewayStep(r)
            /\ ~(DeriveGatewayConstraints(r) \/ CommitGatewayPass(r) \/ CommitGatewayPassAmbiguously(r))
  PROVE  LedgerInvariant'
<1> DEFINE Harmless == {"policyRead", "policyCommit", "gateRead", "gateReplay", "done"}
           Moves == /\ UNCHANGED <<ledger, mutation, reconciliation>>
                    /\ pc'[r] \in Harmless
                    /\ \A q \in Requests \ {r} : pc'[q] = pc[q] /\ plan'[q] = plan[q]
<1> USE DEF AuthorityInvariant, TypeOK, gateVars, lifecycleVars, Proceed, Answer
<1>1. ASSUME StartPolicy(r) \/ StartGateway(r) \/ Abandon(r) PROVE Moves
  BY <1>1 DEF StartPolicy, EvaluatePolicy, StartGateway, GatewayCheck, Abandon
<1>2. ASSUME PolicyStep(r), ~CommitGreenlight(r) PROVE Moves
  BY <1>2 DEF PolicyStep, DerivePolicyConstraints, CommitPolicyDecision,
              GreenlightIssuanceConflict, IdempotencyLedgerConflict
<1>3. ASSUME GatewayStep(r),
             ~(DeriveGatewayConstraints(r) \/ CommitGatewayPass(r) \/ CommitGatewayPassAmbiguously(r))
      PROVE  Moves
  BY <1>3 DEF GatewayStep, CommitGatewayRefusal, GatewayAlreadyConsumed,
              GatewayOperationInProgress, CommitReplayRefusal
<1>4. Moves
  BY <1>1, <1>2, <1>3
<1> QED
  BY <1>4, QuietLedger DEF BeforeReconciled

LEMMA NextTellsTheTruth ==
  ASSUME AuthorityInvariant, LedgerInvariant, [Next]_vars
  PROVE  LedgerInvariant'
<1>1. CASE UNCHANGED vars \/ Environment
  <2>1. UNCHANGED <<pc, plan, ledger, mutation, reconciliation>>
    BY <1>1 DEF vars, Environment, CreateIsolationState, CreateBreakerDecision, SetIsolation,
                Expire, ChangeBinding, requestVars, gateVars, lifecycleVars
  <2> QED
    BY <2>1, QuietLedger
<1>2. CASE \E r \in Requests : StartPolicy(r) \/ StartGateway(r) \/ Abandon(r)
  BY <1>2, RequestLeavesLedger
<1>3. CASE \E r \in Requests : StartReconcile(r)
  BY <1>3, ReconcileNamesAttempt
<1>4. ASSUME NEW r \in Requests, PolicyStep(r) PROVE LedgerInvariant'
  BY <1>4, RequestLeavesLedger, ReservationTellsTheTruth
<1>5. ASSUME NEW r \in Requests, GatewayStep(r) PROVE LedgerInvariant'
  BY <1>5, RequestLeavesLedger, DeriveGatewayHoldsEntry, AdmissionTellsTheTruth
<1>6. ASSUME NEW r \in Requests, LifecycleStep(r) PROVE LedgerInvariant'
  BY <1>6, ReadLedgerHoldsEntry, ReconciliationTellsTheTruth DEF LifecycleStep
<1> QED
  BY <1>1, <1>2, <1>3, <1>4, <1>5, <1>6 DEF Next, RequestStep

\* The inductive strengthening of the ledger's truthfulness.
THEOREM LedgerHolds == Spec => []LedgerInvariant
<1>1. AuthorityInvariant /\ LedgerInvariant /\ [Next]_vars => LedgerInvariant'
  BY NextTellsTheTruth
<1> QED
  BY <1>1, InitLedger, AuthorityHolds, PTL DEF Spec

\* The entry of a contract whose greenlight was spent names no attempt but the one
\* that spent it, on either store and whatever keys contracts have; it names none
\* only once it was closed from the reservation or under a shadowed key.
THEOREM MutationsAreNamed == Spec => []LedgerNamesTheMutation
<1>1. LedgerInvariant => LedgerNamesTheMutation
  BY DEF LedgerInvariant
<1> QED
  BY <1>1, LedgerHolds, PTL

\* A terminal entry reports what a reconciliation observed of an admitted attempt
\* whose contract has that key, be it the obligation's or the contract's own.
THEOREM OutcomesAreTold == Spec => []LedgerTellsTheOutcome
<1>1. LedgerInvariant => LedgerTellsTheOutcome
  BY DEF LedgerInvariant
<1> QED
  BY <1>1, LedgerHolds, PTL

\* An entry moves from reserved to started to terminal and never back, although
\* every write puts back a copy of the entry its request read earlier.
THEOREM LedgerAdvances == Spec => LedgerNeverGoesBack
<1> DEFINE Advances ==
      \A k \in LedgerKeys : ledger[k] # None /\ ledger'[k] # None =>
        \/ LedgerRank(ledger[k].state) <= LedgerRank(ledger'[k].state)
        \/ Shadowed(k) /\ ledger[k].state \in TerminalLedgerStates
<1>1. \A s, t : s = t \/ s = "authority_reserved" \/ t \in TerminalLedgerStates
                  => LedgerRank(s) <= LedgerRank(t)
  BY DEF LedgerRank, TerminalLedgerStates
<1>2. ASSUME AuthorityInvariant, LedgerInvariant, Next PROVE Advances
  <2>1. ASSUME NEW r \in Requests, CommitGreenlight(r) PROVE Advances
    BY <1>1, <1>2, <2>1 DEF CommitGreenlight, RecordGreenlight, AuthorityInvariant, TypeOK
  <2>2. ASSUME NEW r \in Requests, CommitGatewayPass(r) \/ CommitGatewayPassAmbiguously(r)
        PROVE  Advances
    <3> DEFINE k == AuthorityKey[plan[r].contract]
    <3>1. /\ \A j \in LedgerKeys \ {k} : ledger'[j] = ledger[j]
          /\ \A m \in Requests : mutation[m] # None => AuthorityKey[mutation[m].contract] # k
          /\ k \in LedgerKeys
      BY <1>2, <2>2, AdmissionStartsTheEntry
    <3>2. ledger[k] # None =>
            \/ ledger[k].state = "authority_reserved"
            \/ Shadowed(k) /\ ledger[k].state \in TerminalLedgerStates
      <4> SUFFICES ASSUME ledger[k] # None, ledger[k].state # "authority_reserved"
                   PROVE  Shadowed(k) /\ ledger[k].state \in TerminalLedgerStates
        OBVIOUS
      <4>1. ledger[k].key = k /\ ledger[k].mutation \in Nullable(Requests)
        BY <1>2, <3>1 DEF AuthorityInvariant, EntriesAreHeld, TypeOK, Nullable, LedgerEntry
      <4>2. ledger[k].mutation = None
        BY <1>2, <3>1, <4>1 DEF LedgerInvariant, EntriesNameAttempts, NamesItsAttempt, Nullable
      <4> QED
        BY <1>2, <3>1, <4>2 DEF LedgerInvariant, EntriesNameAttempts
    <3> QED
      BY <1>1, <3>1, <3>2
  <2>3. ASSUME NEW r \in Requests, CommitSurfaceOperationReconciliation(r) PROVE Advances
    <3> DEFINE k == plan[r].ledger.key
    <3>1. /\ \A j \in LedgerKeys \ {k} : ledger'[j] = ledger[j]
          /\ \/ ledger'[k] = ledger[k]
             \/ ledger'[k].state = LedgerStateFor(plan[r].status)
      BY <1>2, <2>3, ReconciliationClosesTheEntry
    <3> QED
      BY <1>1, <3>1, ClosedStates
  <2>4. CASE UNCHANGED ledger
    BY <1>1, <2>4
  <2>5. ASSUME NEW r \in Requests, LifecycleStep(r), ~CommitSurfaceOperationReconciliation(r)
        PROVE  UNCHANGED ledger
    BY <2>5 DEF LifecycleStep, ReadCurrentIdempotencyLedger
  <2>6. ASSUME NEW r \in Requests, PolicyStep(r), ~CommitGreenlight(r) PROVE UNCHANGED ledger
    BY <2>6 DEF PolicyStep, DerivePolicyConstraints, CommitPolicyDecision,
                GreenlightIssuanceConflict, IdempotencyLedgerConflict
  <2>7. ASSUME NEW r \in Requests, GatewayStep(r),
               ~(CommitGatewayPass(r) \/ CommitGatewayPassAmbiguously(r))
        PROVE  UNCHANGED ledger
    BY <2>7 DEF GatewayStep, DeriveGatewayConstraints, CommitGatewayRefusal,
                GatewayAlreadyConsumed, GatewayOperationInProgress, CommitReplayRefusal
  <2>8. ASSUME NEW r \in Requests, StartPolicy(r) \/ StartGateway(r) \/ StartReconcile(r) \/ Abandon(r)
        PROVE  UNCHANGED ledger
    BY <2>8 DEF StartPolicy, EvaluatePolicy, StartGateway, GatewayCheck, StartReconcile,
                ReconcileSurfaceOperation, Abandon
  <2>9. Environment => UNCHANGED ledger
    BY DEF Environment, CreateIsolationState, CreateBreakerDecision, SetIsolation, Expire,
           ChangeBinding
  <2> QED
    BY <1>2, <2>1, <2>2, <2>3, <2>4, <2>5, <2>6, <2>7, <2>8, <2>9 DEF Next, RequestStep
<1>3. AuthorityInvariant /\ LedgerInvariant /\ [Next]_vars => [Advances]_vars
  BY <1>2
<1> QED
  BY <1>3, AuthorityHolds, LedgerHolds, PTL DEF Spec, LedgerNeverGoesBack

(***************************************************************************)
(* Contracts in sequence                                                    *)
(***************************************************************************)
\* Attempts and reconciliations, once recorded, stay as they are.
RecordsStay ==
  /\ \A m \in Requests : mutation[m] # None => mutation'[m] = mutation[m]
  /\ \A q \in Requests : reconciliation[q] # None => reconciliation'[q] = reconciliation[q]

\* What was ready stays ready.
LEMMA ReadyStaysReady ==
  ASSUME RecordsStay, NEW c \in Contracts, PriorsReady(c)
  PROVE  PriorsReady(c)'
<1> SUFFICES ASSUME NEW p \in Prior[c]
             PROVE  \E m \in Requests : /\ mutation'[m] # None
                                        /\ mutation'[m].contract = p
                                        /\ FinallyReconciled(m)'
  BY DEF PriorsReady
<1>1. PICK m \in Requests : mutation[m] # None /\ mutation[m].contract = p /\ FinallyReconciled(m)
  BY DEF PriorsReady
<1>2. PICK q \in Requests : reconciliation[q] = [mutation |-> m, status |-> "succeeded"]
  BY <1>1 DEF FinallyReconciled
<1>3. [mutation |-> m, status |-> "succeeded"] \in Reconciliation
  BY DEF Reconciliation, DownstreamStatuses
<1>4. reconciliation'[q] = [mutation |-> m, status |-> "succeeded"]
  BY <1>2, <1>3, NoneIsNull DEF RecordsStay
<1>5. FinallyReconciled(m)'
  BY <1>4 DEF FinallyReconciled
<1> QED
  BY <1>1, <1>5 DEF RecordsStay

\* A gateway check that goes on waiting to pass goes on having its priors ready.
LEMMA PassesStayReady ==
  ASSUME PlansAreGrounded, PassesInSequence,
         \A d \in Contracts : PriorsReady(d) => PriorsReady(d)',
         \A q \in Requests : pc'[q] = "gateCommit" => pc[q] = "gateCommit" /\ plan'[q] = plan[q]
  PROVE  PassesInSequence'
<1> SUFFICES ASSUME NEW q \in Requests, pc'[q] = "gateCommit", plan'[q].pass,
                    NEW p \in Prior[plan'[q].contract]
             PROVE  \E m \in Requests : /\ mutation'[m] # None
                                        /\ mutation'[m].contract = p
                                        /\ FinallyReconciled(m)'
  BY DEF PassesInSequence, PriorsReady
<1>1. pc[q] = "gateCommit" /\ plan'[q] = plan[q]
  OBVIOUS
<1>2. PICK d \in Contracts : d = plan[q].contract
  BY <1>1 DEF PlansAreGrounded, Grounded
<1>3. PriorsReady(d)
  BY <1>1, <1>2 DEF PassesInSequence
<1>4. PriorsReady(d)'
  BY <1>3
<1> QED
  BY <1>1, <1>2, <1>4 DEF PriorsReady

\* Admitted contracts stay in sequence when each was ready, or has just passed ready.
LEMMA AdmittedStayInSequence ==
  ASSUME TypeOK', \A m \in Requests, d \in Contracts :
           mutation'[m] # None /\ mutation'[m].contract = d => PriorsReady(d)'
  PROVE  AdmittedInSequence'
<1> SUFFICES ASSUME NEW m \in Requests, mutation'[m] # None, NEW p \in Prior[mutation'[m].contract]
             PROVE  \E n \in Requests : /\ mutation'[n] # None
                                        /\ mutation'[n].contract = p
                                        /\ FinallyReconciled(n)'
  BY DEF AdmittedInSequence
<1>1. PICK d \in Contracts : d = mutation'[m].contract
  BY DEF TypeOK, Nullable, Mutation
<1>2. PriorsReady(d)'
  BY <1>1
<1> QED
  BY <1>1, <1>2 DEF PriorsReady

\* A step that moves one request and creates neither attempt nor reconciliation.
LEMMA QuietSequence ==
  ASSUME SequenceInvariant, UNCHANGED <<mutation, reconciliation>>,
         \A q \in Requests :
           \/ pc'[q] = pc[q] /\ plan'[q] = plan[q]
           \/ /\ pc'[q] = "gateCommit" /\ plan'[q].pass => PriorsReady(plan'[q].contract)
              /\ pc'[q] \in BeforeReconciled => pc[q] \in BeforeReconciled
  PROVE  SequenceInvariant'
<1>1. RecordsStay
  BY DEF RecordsStay
<1>2. \A c : PriorsReady(c) => PriorsReady(c)'
  BY DEF PriorsReady, FinallyReconciled
<1>3. PassesInSequence'
  BY <1>2 DEF SequenceInvariant, PassesInSequence
<1>4. NothingReconciledBefore'
  BY DEF SequenceInvariant, NothingReconciledBefore, BeforeReconciled
<1>5. AdmittedInSequence'
  BY DEF SequenceInvariant, AdmittedInSequence, FinallyReconciled
<1> QED
  BY <1>3, <1>4, <1>5 DEF SequenceInvariant

\* A request that goes on without a commit of its own leaves the sequence alone;
\* a gateway check passes only when every prior contract is ready.
LEMMA RequestKeepsSequence ==
  ASSUME AuthorityInvariant, SequenceInvariant, NEW r \in Requests,
         \/ StartPolicy(r) \/ StartGateway(r) \/ StartReconcile(r) \/ Abandon(r) \/ PolicyStep(r)
         \/ GatewayStep(r) /\ ~(CommitGatewayPass(r) \/ CommitGatewayPassAmbiguously(r))
         \/ ReadCurrentIdempotencyLedger(r)
  PROVE  SequenceInvariant'
<1> DEFINE Moves == /\ UNCHANGED <<mutation, reconciliation>>
                    /\ pc'[r] = "gateCommit" /\ plan'[r].pass => PriorsReady(plan'[r].contract)
                    /\ pc'[r] \in BeforeReconciled => pc[r] \in BeforeReconciled
                    /\ \A q \in Requests \ {r} : pc'[q] = pc[q] /\ plan'[q] = plan[q]
<1>0. TypeOK /\ PlansAreGrounded
  BY DEF AuthorityInvariant
<1> USE <1>0 DEF TypeOK, gateVars, lifecycleVars, Proceed, Answer, BeforeReconciled
<1>1. ASSUME StartPolicy(r) \/ StartGateway(r) \/ StartReconcile(r) \/ Abandon(r) PROVE Moves
  BY <1>1 DEF StartPolicy, EvaluatePolicy, StartGateway, GatewayCheck, StartReconcile,
              ReconcileSurfaceOperation, Abandon
<1>2. ASSUME PolicyStep(r) PROVE Moves
  BY <1>2 DEF PolicyStep, DerivePolicyConstraints, CommitPolicyDecision, CommitGreenlight,
              RecordGreenlight, GreenlightIssuanceConflict, IdempotencyLedgerConflict
<1>3. ASSUME GatewayStep(r), ~DeriveGatewayConstraints(r),
             ~(CommitGatewayPass(r) \/ CommitGatewayPassAmbiguously(r))
      PROVE  Moves
  BY <1>3 DEF GatewayStep, CommitGatewayRefusal, GatewayAlreadyConsumed,
              GatewayOperationInProgress, CommitReplayRefusal
<1>4. ASSUME DeriveGatewayConstraints(r) PROVE Moves
  <2> DEFINE p == [plan[r] EXCEPT !.pass = Admissible(plan[r]),
                                  !.ledger = ledger[AuthorityKey[greenlight[plan[r].greenlight]]]]
  <2>1. Proceed(r, "gateRead", "gateCommit", p) /\ UNCHANGED <<mutation, reconciliation>>
    BY <1>4 DEF DeriveGatewayConstraints
  <2>2. plan[r] \in Plan
    OBVIOUS
  <2>3. p.pass = Admissible(plan[r]) /\ p.contract = plan[r].contract
    BY <2>2 DEF Plan
  <2> HIDE DEF p
  <2>4. p.pass => PriorsReady(p.contract)
    BY <2>3 DEF Admissible
  <2>5. /\ plan'[r] = p /\ pc'[r] = "gateCommit"
        /\ \A q \in Requests \ {r} : pc'[q] = pc[q] /\ plan'[q] = plan[q]
    BY <2>1
  <2> QED
    BY <2>1, <2>4, <2>5
<1>5. ASSUME ReadCurrentIdempotencyLedger(r) PROVE Moves
  BY <1>5 DEF ReadCurrentIdempotencyLedger
<1>6. Moves
  BY <1>1, <1>2, <1>3, <1>4, <1>5
<1> QED
  BY <1>6, QuietSequence

\* An admission follows the priors its check saw succeed.
LEMMA AdmissionKeepsSequence ==
  ASSUME AuthorityInvariant, SequenceInvariant, NEW r \in Requests,
         CommitGatewayPass(r) \/ CommitGatewayPassAmbiguously(r)
  PROVE  SequenceInvariant'
<1> DEFINE c == plan[r].contract
<1>1. /\ plan[r].pass /\ pc[r] = "gateCommit"
      /\ mutation' = [mutation EXCEPT ![r] = [contract |-> c, greenlight |-> plan[r].greenlight]]
      /\ reconciliation' = reconciliation
  BY DEF CommitGatewayPass, CommitGatewayPassAmbiguously, GatewayCommitAccepted, AdmitMutation,
         Answer, Proceed, lifecycleVars
<1>2. /\ pc'[r] \in {"gateReplay", "done"}
      /\ \A q \in Requests \ {r} : pc'[q] = pc[q] /\ plan'[q] = plan[q]
  BY DEF CommitGatewayPass, CommitGatewayPassAmbiguously, Answer, Proceed, AuthorityInvariant, TypeOK
<1>3. mutation[r] = None /\ c \in Contracts /\ TypeOK
  BY <1>1 DEF AuthorityInvariant, NothingBeforeCommit, PlansAreGrounded, Grounded
<1>4. /\ mutation'[r].contract = c
      /\ \A m \in Requests \ {r} : mutation'[m] = mutation[m]
  BY <1>1, <1>3 DEF TypeOK
<1>5. RecordsStay
  BY <1>1, <1>3, <1>4 DEF RecordsStay
<1>6. \A d \in Contracts : PriorsReady(d) => PriorsReady(d)'
  BY <1>3, <1>5, ReadyStaysReady
<1>7. PassesInSequence'
  BY <1>2, <1>6, PassesStayReady DEF AuthorityInvariant, SequenceInvariant
<1>8. AdmittedInSequence'
  <2>1. ASSUME NEW m \in Requests, NEW d \in Contracts, mutation'[m] # None, mutation'[m].contract = d
        PROVE  PriorsReady(d)'
    <3>1. CASE m = r
      <4>1. c = d
        BY <2>1, <3>1, <1>4
      <4>2. PriorsReady(d)
        BY <1>1, <4>1 DEF SequenceInvariant, PassesInSequence
      <4> QED
        BY <4>2, <1>6
    <3>2. CASE m # r
      <4>1. mutation[m] # None /\ mutation[m].contract = d
        BY <2>1, <3>2, <1>4
      <4>2. PriorsReady(d)
        BY <4>1 DEF SequenceInvariant, AdmittedInSequence, PriorsReady
      <4> QED
        BY <4>2, <1>6
    <3> QED
      BY <3>1, <3>2
  <2>2. TypeOK'
    BY GatewayPassPreserves DEF AuthorityInvariant
  <2> QED
    BY <2>1, <2>2, AdmittedStayInSequence
<1>9. NothingReconciledBefore'
  BY <1>1, <1>2 DEF SequenceInvariant, NothingReconciledBefore
<1> QED
  BY <1>7, <1>8, <1>9 DEF SequenceInvariant

\* A reconciliation only adds to what is known to have succeeded.
LEMMA ReconciliationKeepsSequence ==
  ASSUME AuthorityInvariant, SequenceInvariant, NEW r \in Requests,
         CommitSurfaceOperationReconciliation(r)
  PROVE  SequenceInvariant'
<1>1. /\ Answer(r, "reconcileCommit", "reconciled")
      /\ reconciliation' = [reconciliation EXCEPT ![r] =
                              [mutation |-> plan[r].mutation, status |-> plan[r].status]]
      /\ mutation' = mutation
      /\ TypeOK
  BY DEF CommitSurfaceOperationReconciliation, gateVars, AuthorityInvariant
<1>2. /\ pc[r] = "reconcileCommit" /\ pc'[r] = "done"
      /\ \A q \in Requests \ {r} : /\ pc'[q] = pc[q] /\ plan'[q] = plan[q]
                                   /\ reconciliation'[q] = reconciliation[q]
      /\ reconciliation[r] = None
  BY <1>1 DEF Answer, TypeOK, SequenceInvariant, NothingReconciledBefore
<1>3. RecordsStay
  BY <1>1, <1>2 DEF RecordsStay
<1>4. \A d \in Contracts : PriorsReady(d) => PriorsReady(d)'
  BY <1>1, <1>3, ReadyStaysReady
<1>5. PassesInSequence'
  BY <1>2, <1>4, PassesStayReady DEF AuthorityInvariant, SequenceInvariant
<1>6. AdmittedInSequence'
  <2>1. ASSUME NEW m \in Requests, NEW d \in Contracts, mutation'[m] # None, mutation'[m].contract = d
        PROVE  PriorsReady(d)'
    <3>1. PriorsReady(d)
      BY <1>1, <2>1 DEF SequenceInvariant, AdmittedInSequence, PriorsReady
    <3> QED
      BY <3>1, <1>4
  <2>2. TypeOK'
    BY CommitReconciliationPreserves DEF AuthorityInvariant
  <2> QED
    BY <2>1, <2>2, AdmittedStayInSequence
<1>7. NothingReconciledBefore'
  BY <1>2 DEF SequenceInvariant, NothingReconciledBefore
<1> QED
  BY <1>5, <1>6, <1>7 DEF SequenceInvariant

LEMMA NextKeepsSequence ==
  ASSUME AuthorityInvariant, SequenceInvariant, [Next]_vars
  PROVE  SequenceInvariant'
<1>1. CASE UNCHANGED vars \/ Environment
  <2>1. UNCHANGED <<pc, plan, mutation, reconciliation>>
    BY <1>1 DEF vars, Environment, CreateIsolationState, CreateBreakerDecision, SetIsolation,
                Expire, ChangeBinding, requestVars, gateVars, lifecycleVars
  <2> QED
    BY <2>1, QuietSequence
<1>2. CASE \E r \in Requests : StartPolicy(r) \/ StartGateway(r) \/ StartReconcile(r) \/ Abandon(r)
  BY <1>2, RequestKeepsSequence
<1>3. ASSUME NEW r \in Requests, RequestStep(r) PROVE SequenceInvariant'
  BY <1>3, RequestKeepsSequence, AdmissionKeepsSequence, ReconciliationKeepsSequence
     DEF RequestStep, LifecycleStep
<1> QED
  BY <1>1, <1>2, <1>3 DEF Next

\* No mutation attempt is ever admitted before every prior contract it names has been seen to
\* succeed, whatever is admitted and reconciled at the same time.
THEOREM SequenceHolds == Spec => []AdmittedInSequence
<1>1. Init => SequenceInvariant
  BY DEF Init, SequenceInvariant, NothingReconciledBefore, PassesInSequence, AdmittedInSequence
<1>2. AuthorityInvariant /\ SequenceInvariant /\ [Next]_vars => SequenceInvariant'
  BY NextKeepsSequence
<1>3. SequenceInvariant => AdmittedInSequence
  BY DEF SequenceInvariant
<1> QED
  BY <1>1, <1>2, <1>3, AuthorityHolds, PTL DEF Spec

(***************************************************************************)
(* Isolation that stands                                                    *)
(***************************************************************************)
\* Nothing was admitted for c by r, nor is r about to.
GateWithheld(r, c) ==
  /\ mutation[r] = None \/ mutation[r].contract # c
  /\ pc[r] = "gateCommit" /\ plan[r].pass => plan[r].contract # c

\* Nothing was greenlit for c by r, nor is r about to.
PolicyWithheld(r, c) ==
  /\ greenlight[r] # c
  /\ pc[r] = "policyRead" /\ plan[r].contract = c => plan[r].isolation \in {"halt", "quarantine"}
  /\ pc[r] = "policyCommit" /\ plan[r].contract = c => plan[r].decision # "greenlight"

\* What another request, or the environment, does is nothing to r.
LEMMA OthersLeaveAlone ==
  ASSUME TypeOK, NEW r \in Requests, [Next]_vars
  PROVE  \/ StartPolicy(r) \/ StartGateway(r) \/ StartReconcile(r) \/ RequestStep(r) \/ Abandon(r)
         \/ /\ pc'[r] = pc[r] /\ plan'[r] = plan[r]
            /\ greenlight'[r] = greenlight[r] /\ mutation'[r] = mutation[r]
<1> USE DEF TypeOK, requestVars, policyVars, gateVars, lifecycleVars, Proceed, Answer, Stages
<1> DEFINE Alone == /\ pc'[r] = pc[r] /\ plan'[r] = plan[r]
                    /\ greenlight'[r] = greenlight[r] /\ mutation'[r] = mutation[r]
<1>1. ASSUME NEW q \in Requests \ {r}, StartPolicy(q) \/ StartGateway(q) \/ StartReconcile(q) \/ Abandon(q)
      PROVE  Alone
  BY <1>1 DEF StartPolicy, EvaluatePolicy, StartGateway, GatewayCheck, StartReconcile,
              ReconcileSurfaceOperation, Abandon
<1>2. ASSUME NEW q \in Requests \ {r}, PolicyStep(q) PROVE Alone
  BY <1>2 DEF PolicyStep, DerivePolicyConstraints, CommitPolicyDecision, CommitGreenlight,
              RecordGreenlight, GreenlightIssuanceConflict, IdempotencyLedgerConflict
<1>3. ASSUME NEW q \in Requests \ {r}, GatewayStep(q) PROVE Alone
  BY <1>3 DEF GatewayStep, DeriveGatewayConstraints, CommitGatewayRefusal, CommitGatewayPass,
              CommitGatewayPassAmbiguously, AdmitMutation, GatewayAlreadyConsumed,
              GatewayOperationInProgress, CommitReplayRefusal
<1>4. ASSUME NEW q \in Requests \ {r}, LifecycleStep(q) PROVE Alone
  BY <1>4 DEF LifecycleStep, ReadCurrentIdempotencyLedger, CommitSurfaceOperationReconciliation
<1>5. Environment \/ UNCHANGED vars => Alone
  BY DEF Environment, CreateIsolationState, CreateBreakerDecision, SetIsolation, Expire, ChangeBinding, vars
<1> HIDE DEF Alone, TypeOK, requestVars, policyVars, gateVars, lifecycleVars, Proceed, Answer, Stages
<1> QED
  BY <1>1, <1>2, <1>3, <1>4, <1>5 DEF Next, RequestStep, Alone

\* A gate that reads a blocking state is withheld from the contract.
LEMMA GateStaysWithheld ==
  ASSUME AuthorityInvariant, NEW r \in Requests, NEW c \in Contracts,
         GateBlocked(c), GateWithheld(r, c), [Next]_vars
  PROVE  GateWithheld(r, c)'
<1>0. TypeOK
  BY DEF AuthorityInvariant
<1> USE DEF Proceed, Answer, Stages, GateWithheld
<1>1. CASE StartPolicy(r) \/ StartGateway(r) \/ StartReconcile(r) \/ Abandon(r)
  BY <1>0, <1>1 DEF StartPolicy, EvaluatePolicy, StartGateway, GatewayCheck, StartReconcile,
              ReconcileSurfaceOperation, Abandon, TypeOK, gateVars
<1>2. CASE PolicyStep(r) \/ LifecycleStep(r)
  BY <1>0, <1>2 DEF PolicyStep, DerivePolicyConstraints, CommitPolicyDecision, CommitGreenlight,
              RecordGreenlight, GreenlightIssuanceConflict, IdempotencyLedgerConflict,
              LifecycleStep, ReadCurrentIdempotencyLedger, CommitSurfaceOperationReconciliation,
              TypeOK, gateVars
<1>3. CASE DeriveGatewayConstraints(r)
  <2> DEFINE p == [plan[r] EXCEPT !.pass = Admissible(plan[r]),
                                  !.ledger = ledger[AuthorityKey[greenlight[plan[r].greenlight]]]]
  <2>1. plan'[r] = p /\ mutation' = mutation
    BY <1>0, <1>3 DEF DeriveGatewayConstraints, TypeOK, gateVars
  <2>2. p.pass = Admissible(plan[r]) /\ p.contract = plan[r].contract
    BY <1>0 DEF TypeOK, Plan
  <2>3. Admissible(plan[r]) => plan[r].contract # c
    BY DEF Admissible
  <2> QED
    BY <2>1, <2>2, <2>3
<1>4. CASE CommitGatewayPass(r) \/ CommitGatewayPassAmbiguously(r)
  BY <1>0, <1>4 DEF CommitGatewayPass, CommitGatewayPassAmbiguously, GatewayCommitAccepted, AdmitMutation, TypeOK
<1>5. CASE CommitGatewayRefusal(r) \/ GatewayAlreadyConsumed(r) \/ GatewayOperationInProgress(r)
           \/ CommitReplayRefusal(r)
  BY <1>0, <1>5 DEF CommitGatewayRefusal, GatewayAlreadyConsumed, GatewayOperationInProgress,
                    CommitReplayRefusal, TypeOK, gateVars
<1> QED
  BY <1>0, <1>1, <1>2, <1>3, <1>4, <1>5, OthersLeaveAlone DEF RequestStep, GatewayStep

\* An evaluation that reads a state policy heeds ends without a greenlight,
\* approved review or not.
LEMMA PolicyStaysWithheld ==
  ASSUME AuthorityInvariant, NEW r \in Requests, NEW c \in Contracts,
         StatesFor(c) \cap PolicyBlocking # {}, PolicyWithheld(r, c), [Next]_vars
  PROVE  PolicyWithheld(r, c)'
<1>0. TypeOK
  BY DEF AuthorityInvariant
<1> USE DEF Proceed, Answer, Stages, PolicyWithheld
<1>1. CASE StartPolicy(r)
  <2>1. PICK d \in Contracts, review \in Reviews : \E verdict \in PolicyVerdicts(d) :
          /\ pc'[r] = "policyRead"
          /\ plan'[r] = [NoPlan EXCEPT !.contract = d, !.review = review,
                                       !.fresh = d \notin expired, !.isolation = verdict]
          /\ greenlight' = greenlight
    BY <1>0, <1>1 DEF StartPolicy, EvaluatePolicy, TypeOK, policyVars
  <2>2. PICK verdict \in PolicyVerdicts(d) :
          pc'[r] = "policyRead" /\ plan'[r].contract = d /\ plan'[r].isolation = verdict
    BY <2>1 DEF NoPlan
  <2>3. d = c => verdict \in {"halt", "quarantine"}
    BY DEF PolicyVerdicts
  <2> QED
    BY <2>1, <2>2, <2>3
<1>2. CASE StartGateway(r) \/ StartReconcile(r) \/ Abandon(r)
  BY <1>0, <1>2 DEF StartGateway, GatewayCheck, StartReconcile,
              ReconcileSurfaceOperation, Abandon, TypeOK, policyVars
<1>3. CASE GatewayStep(r) \/ LifecycleStep(r)
  BY <1>0, <1>3 DEF GatewayStep, DeriveGatewayConstraints, CommitGatewayRefusal, CommitGatewayPass,
              CommitGatewayPassAmbiguously, AdmitMutation, GatewayAlreadyConsumed,
              GatewayOperationInProgress, CommitReplayRefusal,
              LifecycleStep, ReadCurrentIdempotencyLedger, CommitSurfaceOperationReconciliation,
              TypeOK, policyVars
<1>4. CASE DerivePolicyConstraints(r)
  <2>1. PICK value \in ResolvedDecisions(plan[r]) :
          /\ pc[r] = "policyRead" /\ pc'[r] = "policyCommit" /\ greenlight' = greenlight
          /\ plan'[r] = [plan[r] EXCEPT !.decision = value]
    BY <1>0, <1>4 DEF DerivePolicyConstraints, TypeOK, policyVars
  <2>2. plan'[r].contract = plan[r].contract /\ plan'[r].decision = value
    BY <1>0, <2>1 DEF TypeOK, Plan
  <2>3. ASSUME plan[r].isolation \in {"halt", "quarantine"}
        PROVE  "greenlight" \notin ResolvedDecisions(plan[r])
    BY <2>3 DEF ResolvedDecisions, DeterministicDecision, Guarded
  <2> QED
    BY <2>1, <2>2, <2>3
<1>5. CASE CommitGreenlight(r)
  BY <1>0, <1>5 DEF CommitGreenlight, RecordGreenlight, TypeOK, NoPlan
<1>6. CASE CommitPolicyDecision(r) \/ GreenlightIssuanceConflict(r)
  BY <1>0, <1>6 DEF CommitPolicyDecision, GreenlightIssuanceConflict, TypeOK, policyVars
<1>7. CASE IdempotencyLedgerConflict(r)
  <2>1. /\ pc'[r] = "policyCommit" /\ greenlight' = greenlight
        /\ plan'[r] = [plan[r] EXCEPT !.decision = "refuse"]
    BY <1>0, <1>7 DEF IdempotencyLedgerConflict, TypeOK, policyVars
  <2>2. plan'[r].decision = "refuse"
    BY <1>0, <2>1 DEF TypeOK, Plan
  <2> QED
    BY <2>1, <2>2
<1> QED
  BY <1>0, <1>1, <1>2, <1>3, <1>4, <1>5, <1>6, <1>7, OthersLeaveAlone DEF RequestStep, PolicyStep

\* Isolation that stands from before a request begins is never outrun by it: no
\* check passes, and where policy heeds the state no evaluation gives a greenlight.
THEOREM IsolationHolds == Spec => StandingIsolationHolds
<1>1. ASSUME NEW r \in Requests, NEW c \in Contracts
      PROVE  Spec => [](pc[r] = "idle" /\ [](GateBlocked(c)) =>
                          [](mutation[r] = None \/ mutation[r].contract # c))
  <2>1. AuthorityInvariant /\ pc[r] = "idle" => GateWithheld(r, c)
    BY DEF AuthorityInvariant, NothingBeforeCommit, GateWithheld
  <2>2. AuthorityInvariant /\ GateBlocked(c) /\ GateWithheld(r, c) /\ [Next]_vars => GateWithheld(r, c)'
    BY GateStaysWithheld
  <2>3. GateWithheld(r, c) => mutation[r] = None \/ mutation[r].contract # c
    BY DEF GateWithheld
  <2> QED
    BY <2>1, <2>2, <2>3, AuthorityHolds, PTL DEF Spec
<1>2. ASSUME NEW r \in Requests, NEW c \in Contracts
      PROVE  Spec => [](pc[r] = "idle" /\ [](StatesFor(c) \cap PolicyBlocking # {}) => [](greenlight[r] # c))
  <2>1. AuthorityInvariant /\ pc[r] = "idle" => PolicyWithheld(r, c)
    BY NoneIsNull DEF AuthorityInvariant, NothingBeforeCommit, PolicyWithheld
  <2>2. AuthorityInvariant /\ StatesFor(c) \cap PolicyBlocking # {} /\ PolicyWithheld(r, c) /\ [Next]_vars
          => PolicyWithheld(r, c)'
    BY PolicyStaysWithheld
  <2>3. PolicyWithheld(r, c) => greenlight[r] # c
    BY DEF PolicyWithheld
  <2> QED
    BY <2>1, <2>2, <2>3, AuthorityHolds, PTL DEF Spec
<1> QED
  BY <1>1, <1>2 DEF StandingIsolationHolds

(***************************************************************************)
(* Surface claims                                                           *)
(***************************************************************************)
\* A step that records no mutation, no reconciliation and no claim, and brings
\* nobody to reconcile, leaves the claims as exact as they were.
LEMMA QuietSurface ==
  ASSUME SurfaceInvariant, UNCHANGED <<mutation, reconciliation, claim>>,
         \A q \in Requests :
           /\ pc'[q] = "idle" => pc[q] = "idle"
           /\ Reconciling(q)' => /\ Reconciling(q)
                                 /\ plan'[q].mutation = plan[q].mutation
                                 /\ plan'[q].contract = plan[q].contract
                                 /\ plan'[q].claim = plan[q].claim
  PROVE  SurfaceInvariant'
<1>1. NothingReconciledBefore'
  BY DEF SurfaceInvariant, NothingReconciledBefore, Reconciling
<1>2. \A m : Open(m)' = Open(m)
  BY DEF Open, Released
<1>3. \A r \in Requests : ReconcilesAlone(r)'
  <2> SUFFICES ASSUME NEW r \in Requests, Reconciling(r)'
               PROVE  ReconcilesAlone(r)'
    BY DEF ReconcilesAlone
  <2>1. ReconcilesAlone(r) /\ Reconciling(r)
    BY DEF SurfaceInvariant
  <2>2. (Open(plan[r].mutation))'
    BY <2>1 DEF ReconcilesAlone, Open, Released
  <2>3. \A q \in Requests \ {r} : Reconciling(q)' => plan'[q].mutation # plan'[r].mutation
    BY <2>1 DEF ReconcilesAlone
  <2> QED
    BY <2>1, <2>2, <2>3 DEF ReconcilesAlone
<1>4. ClaimNamesTheOpenOperation'
  BY DEF SurfaceInvariant, ClaimNamesTheOpenOperation, Open, Released
<1> QED
  BY <1>1, <1>3, <1>4 DEF SurfaceInvariant

\* A caller begins to reconcile an open operation, which nobody else reconciles.
LEMMA ReconcileFindsItsClaim ==
  ASSUME ~LateReconciliation, AuthorityInvariant, SurfaceInvariant, NEW r \in Requests, StartReconcile(r)
  PROVE  SurfaceInvariant'
<1>0. TypeOK
  BY DEF AuthorityInvariant
<1>1. PICK m \in Requests, status \in Statuses :
        \E gaps \in SUBSET GapsOf(m), orphan \in OrphanRequests(status) :
          ReconcileSurfaceOperation(r, m, status, orphan, gaps)
  BY DEF StartReconcile
<1> DEFINE c == mutation[m].contract
           s == SurfaceOf[c]
<1>2. /\ mutation[m] # None /\ Disciplined(m) /\ pc[r] = "idle" /\ pc'[r] = "reconcileRead"
      /\ plan'[r].mutation = m /\ plan'[r].contract = c /\ plan'[r].claim = claim[s]
      /\ \A q \in Requests \ {r} : pc'[q] = pc[q] /\ plan'[q] = plan[q]
      /\ UNCHANGED <<mutation, reconciliation, claim>>
  BY <1>0, <1>1 DEF ReconcileSurfaceOperation, Proceed, NoPlan, TypeOK, gateVars, lifecycleVars
<1>3. Open(m)
  BY <1>2 DEF Disciplined, Open
<1>4. claim[s] # None /\ claim[s].mutation = m
  BY <1>3 DEF SurfaceInvariant, ClaimNamesTheOpenOperation
<1>5. NothingReconciledBefore'
  BY <1>2 DEF SurfaceInvariant, NothingReconciledBefore
<1>6. \A q \in Requests \ {r} : Reconciling(q)' => Reconciling(q) /\ plan[q].mutation # m
  BY <1>2 DEF Reconciling, Disciplined
<1>7. \A q \in Requests : ReconcilesAlone(q)'
  <2>1. ReconcilesAlone(r)'
    <3>1. (Open(plan[r].mutation))'
      BY <1>2, <1>3 DEF Open, Released
    <3> QED
      BY <1>2, <1>4, <1>6, <3>1 DEF ReconcilesAlone
  <2>2. ASSUME NEW q \in Requests \ {r}, Reconciling(q)' PROVE ReconcilesAlone(q)'
    <3>1. ReconcilesAlone(q) /\ Reconciling(q) /\ plan[q].mutation # m
      BY <1>6, <2>2 DEF SurfaceInvariant
    <3>2. (Open(plan[q].mutation))'
      BY <1>2, <3>1 DEF ReconcilesAlone, Open, Released
    <3>3. \A x \in Requests \ {q} : Reconciling(x)' => plan'[x].mutation # plan'[q].mutation
      BY <1>2, <1>6, <3>1 DEF ReconcilesAlone
    <3> QED
      BY <1>2, <3>1, <3>2, <3>3 DEF ReconcilesAlone
  <2> QED
    BY <2>1, <2>2 DEF ReconcilesAlone
<1>8. ClaimNamesTheOpenOperation'
  BY <1>2 DEF SurfaceInvariant, ClaimNamesTheOpenOperation, Open, Released
<1> QED
  BY <1>2, <1>5, <1>7, <1>8 DEF SurfaceInvariant

\* An admission claims a surface on which nothing was open.
LEMMA AdmissionClaims ==
  ASSUME AuthorityInvariant, SurfaceInvariant, NEW r \in Requests,
         CommitGatewayPass(r) \/ CommitGatewayPassAmbiguously(r)
  PROVE  SurfaceInvariant'
<1>0. TypeOK
  BY DEF AuthorityInvariant
<1> DEFINE c == plan[r].contract
           s == SurfaceOf[c]
<1>1. /\ pc[r] = "gateCommit" /\ pc'[r] \in {"done", "gateReplay"}
      /\ \A q \in Requests \ {r} : pc'[q] = pc[q] /\ plan'[q] = plan[q]
      /\ claim[s] = None /\ claim' = [claim EXCEPT ![s] = [mutation |-> r, state |-> "active"]]
      /\ mutation' = [mutation EXCEPT ![r] = [contract |-> c, greenlight |-> plan[r].greenlight]]
      /\ UNCHANGED reconciliation
  BY <1>0 DEF CommitGatewayPass, CommitGatewayPassAmbiguously, GatewayCommitAccepted, AdmitMutation,
              Proceed, Answer, TypeOK, lifecycleVars
<1>2. mutation[r] = None /\ c \in Contracts /\ s \in Surfaces
  BY <1>1, KernelConstants DEF AuthorityInvariant, NothingBeforeCommit, PlansAreGrounded, Grounded
<1>3. /\ mutation'[r] = [contract |-> c, greenlight |-> plan[r].greenlight] /\ mutation'[r] # None
      /\ \A m \in Requests \ {r} : mutation'[m] = mutation[m]
  BY <1>0, <1>1, <1>2, NoneIsNull DEF TypeOK, Mutation, AuthorityInvariant, PlansAreGrounded, Grounded
<1>4. /\ claim'[s] = [mutation |-> r, state |-> "active"] /\ claim'[s] # None
      /\ \A x \in Surfaces \ {s} : claim'[x] = claim[x]
  BY <1>0, <1>1, <1>2, NoneIsNull DEF TypeOK, Claim, ClaimStates
<1>5. Open(r)' /\ ~Open(r) /\ \A m \in Requests \ {r} : Open(m)' = Open(m)
  BY <1>1, <1>2, <1>3 DEF Open, Released, SurfaceInvariant
<1>6. NothingReconciledBefore' /\ \A q \in Requests : reconciliation'[q] # None =>
                                      mutation'[reconciliation'[q].mutation] # None
  <2>1. \A q \in Requests : reconciliation[q] # None => reconciliation[q].mutation \in Requests
    BY <1>0 DEF TypeOK, Nullable, Reconciliation
  <2> QED
    BY <1>1, <1>3, <2>1 DEF SurfaceInvariant, NothingReconciledBefore
<1>7. \A q \in Requests : ReconcilesAlone(q)'
  <2> SUFFICES ASSUME NEW q \in Requests, Reconciling(q)' PROVE ReconcilesAlone(q)'
    BY DEF ReconcilesAlone
  <2>1. q # r /\ Reconciling(q) /\ plan'[q] = plan[q]
    BY <1>1 DEF Reconciling
  <2>2. ReconcilesAlone(q) /\ plan[q].mutation \in Requests
    BY <2>1 DEF SurfaceInvariant, AuthorityInvariant, PlansAreGrounded, Grounded, Reconciling
  <2>3. plan[q].mutation # r /\ mutation'[plan[q].mutation] = mutation[plan[q].mutation]
    BY <1>3, <1>5, <2>1, <2>2 DEF ReconcilesAlone
  <2>4. (Open(plan[q].mutation))'
    BY <1>1, <2>1, <2>2, <2>3 DEF ReconcilesAlone, Open, Released
  <2>5. \A x \in Requests \ {q} : Reconciling(x)' => plan'[x].mutation # plan'[q].mutation
    BY <1>1, <2>1, <2>2 DEF ReconcilesAlone, Reconciling
  <2> QED
    BY <2>1, <2>2, <2>3, <2>4, <2>5 DEF ReconcilesAlone
<1>8. ASSUME NEW m \in Requests, Open(m)'
      PROVE  LET held == claim'[SurfaceOf[mutation'[m].contract]] IN held # None /\ held.mutation = m
  <2>1. CASE m = r
    BY <1>3, <1>4, <2>1
  <2>2. CASE m # r
    <3>1. Open(m) /\ mutation'[m] = mutation[m] /\ mutation[m].contract \in Contracts
      BY <1>0, <1>3, <1>5, <1>8, <2>2 DEF TypeOK, Nullable, Mutation, Open
    <3>2. LET held == claim[SurfaceOf[mutation[m].contract]] IN held # None /\ held.mutation = m
      BY <3>1 DEF SurfaceInvariant, ClaimNamesTheOpenOperation
    <3>3. SurfaceOf[mutation[m].contract] \in Surfaces \ {s}
      BY <1>1, <3>1, <3>2, KernelConstants
    <3> QED
      BY <1>4, <3>1, <3>2, <3>3
  <2> QED
    BY <2>1, <2>2
<1>9. ASSUME NEW x \in Surfaces, claim'[x] # None
      PROVE  (Open(claim[x].mutation))' /\ SurfaceOf[mutation'[claim'[x].mutation].contract] = x
  <2>1. CASE x = s
    BY <1>3, <1>4, <1>5, <2>1 DEF Open, Released
  <2>2. CASE x # s
    <3> DEFINE m == claim[x].mutation
    <3>1. claim'[x] = claim[x] /\ m \in Requests /\ Open(m) /\ SurfaceOf[mutation[m].contract] = x
      BY <1>0, <1>4, <1>9, <2>2 DEF TypeOK, Nullable, Claim, SurfaceInvariant, ClaimNamesTheOpenOperation
    <3>2. m # r
      BY <1>5, <3>1
    <3> QED
      BY <1>1, <1>3, <3>1, <3>2 DEF Open, Released
  <2> QED
    BY <2>1, <2>2
<1>10. ClaimNamesTheOpenOperation'
  BY <1>8, <1>9 DEF ClaimNamesTheOpenOperation, Open, Released
<1> QED
  BY <1>6, <1>7, <1>10 DEF SurfaceInvariant

\* A reconciliation that knows the outcome frees the surface of its operation, and
\* one that does not leaves the claim where it is.
LEMMA ReconciliationReleases ==
  ASSUME AuthorityInvariant, SurfaceInvariant, NEW r \in Requests,
         CommitSurfaceOperationReconciliation(r)
  PROVE  LET m == plan[r].mutation
             s == SurfaceOf[plan[r].contract]
         IN /\ m \in Requests /\ Open(m) /\ plan[r].contract = mutation[m].contract
            /\ s \in Surfaces /\ claim[s] # None /\ claim[s].mutation = m
            /\ pc[r] = "reconcileCommit" /\ pc'[r] = "done"
            /\ \A q \in Requests \ {r} : /\ pc'[q] = pc[q] /\ plan'[q] = plan[q]
                                         /\ reconciliation'[q] = reconciliation[q]
                                         /\ Reconciling(q) => plan[q].mutation # m
            /\ reconciliation[r] = None
            /\ reconciliation'[r] = [mutation |-> m, status |-> plan[r].status]
            /\ \A x \in Surfaces \ {s} : claim'[x] = claim[x]
            /\ IF plan[r].status \in ReleasingStatuses THEN claim'[s] = None
               ELSE claim'[s] # None /\ claim'[s].mutation = m
            /\ UNCHANGED mutation
<1> DEFINE p == plan[r]
           m == p.mutation
           s == SurfaceOf[p.contract]
<1>0. TypeOK /\ plan[r] \in Plan
  BY DEF AuthorityInvariant, TypeOK
<1>1. /\ pc[r] = "reconcileCommit" /\ pc'[r] = "done"
      /\ \A q \in Requests \ {r} : pc'[q] = pc[q] /\ plan'[q] = plan[q] /\ reconciliation'[q] = reconciliation[q]
      /\ reconciliation'[r] = [mutation |-> m, status |-> p.status]
      /\ claim' = ClaimsAfter(p) /\ UNCHANGED mutation
  BY <1>0 DEF CommitSurfaceOperationReconciliation, Answer, TypeOK, gateVars
<1>2. ReconcilesAlone(r) /\ Reconciling(r)
  BY <1>1 DEF SurfaceInvariant, Reconciling
<1>3. /\ m \in Requests /\ Open(m) /\ p.contract = mutation[m].contract /\ p.contract \in Contracts
      /\ p.claim # None /\ p.claim \in Claim /\ p.claim.mutation = m
  BY <1>0, <1>1, <1>2 DEF ReconcilesAlone, AuthorityInvariant, PlansAreGrounded, Grounded, Plan, Nullable
<1>4. s \in Surfaces /\ claim[s] # None /\ claim[s].mutation = m
  BY <1>3, KernelConstants DEF SurfaceInvariant, ClaimNamesTheOpenOperation
<1>5. \A q \in Requests \ {r} : Reconciling(q) => plan[q].mutation # m
  BY <1>2 DEF ReconcilesAlone
<1>6. reconciliation[r] = None
  BY <1>1 DEF SurfaceInvariant, NothingReconciledBefore
<1>7. /\ \A x \in Surfaces \ {s} : claim'[x] = claim[x]
      /\ IF p.status \in ReleasingStatuses THEN claim'[s] = None
         ELSE claim'[s] # None /\ claim'[s].mutation = m
  <2>1. CASE p.status = "pending"
    BY <1>1, <1>4, <2>1 DEF ClaimsAfter, ReleasingStatuses
  <2>2. CASE p.status = "unknown"
    <3> DEFINE kept == [p.claim EXCEPT !.state = "terminal_unknown"]
    <3>1. kept \in Claim /\ kept.mutation = m /\ kept # None
      BY <1>3, NoneIsNull DEF Claim, ClaimStates
    <3>2. claim' = [claim EXCEPT ![s] = kept]
      BY <1>1, <1>3, <2>2 DEF ClaimsAfter
    <3> HIDE DEF kept
    <3> QED
      BY <1>0, <1>4, <2>2, <3>1, <3>2 DEF TypeOK, ReleasingStatuses
  <2>3. CASE p.status \notin {"pending", "unknown"}
    <3>1. p.status \in ReleasingStatuses
      BY <1>0, <2>3 DEF Plan, DownstreamStatuses, ReleasingStatuses
    <3>2. claim' = [claim EXCEPT ![s] = None]
      BY <1>1, <1>3, <2>3 DEF ClaimsAfter
    <3> QED
      BY <1>0, <1>4, <3>1, <3>2 DEF TypeOK
  <2> QED
    BY <2>1, <2>2, <2>3
<1> QED
  BY <1>1, <1>3, <1>4, <1>5, <1>6, <1>7

\* A reconciliation keeps the claims exact.
LEMMA ReconciliationKeepsClaims ==
  ASSUME AuthorityInvariant, SurfaceInvariant, NEW r \in Requests,
         CommitSurfaceOperationReconciliation(r)
  PROVE  SurfaceInvariant'
<1> SUFFICES ASSUME NEW m, m = plan[r].mutation, NEW s, s = SurfaceOf[plan[r].contract]
             PROVE  SurfaceInvariant'
  OBVIOUS
<1>0. TypeOK
  BY DEF AuthorityInvariant
<1>1. /\ m \in Requests /\ Open(m) /\ plan[r].contract = mutation[m].contract
      /\ s \in Surfaces /\ claim[s] # None /\ claim[s].mutation = m
      /\ pc[r] = "reconcileCommit" /\ pc'[r] = "done"
      /\ \A q \in Requests \ {r} : /\ pc'[q] = pc[q] /\ plan'[q] = plan[q]
                                   /\ reconciliation'[q] = reconciliation[q]
                                   /\ Reconciling(q) => plan[q].mutation # m
      /\ reconciliation[r] = None
      /\ reconciliation'[r] = [mutation |-> m, status |-> plan[r].status]
      /\ \A x \in Surfaces \ {s} : claim'[x] = claim[x]
      /\ IF plan[r].status \in ReleasingStatuses THEN claim'[s] = None
         ELSE claim'[s] # None /\ claim'[s].mutation = m
      /\ UNCHANGED mutation
  BY ReconciliationReleases
<1>a. /\ reconciliation[r] = None /\ reconciliation'[r] # None
      /\ reconciliation'[r].mutation = m /\ reconciliation'[r].status = plan[r].status
      /\ \A q \in Requests \ {r} : reconciliation'[q] = reconciliation[q]
      /\ mutation' = mutation
  <2>1. plan[r].status \in DownstreamStatuses
    BY <1>0 DEF TypeOK, Plan
  <2> QED
    BY <1>1, <2>1, NoneIsNull DEF Reconciliation
<1>b. /\ pc[r] = "reconcileCommit" /\ pc'[r] = "done"
      /\ \A q \in Requests \ {r} : pc'[q] = pc[q] /\ plan'[q] = plan[q]
  BY <1>1
<1>c. \A q \in Requests \ {r} : Reconciling(q) => plan[q].mutation # m
  BY <1>1
<1>d. /\ m \in Requests /\ Open(m) /\ plan[r].contract = mutation[m].contract
      /\ s \in Surfaces /\ claim[s] # None /\ claim[s].mutation = m
  BY <1>1
<1>e. \A x \in Surfaces \ {s} : claim'[x] = claim[x]
  BY <1>1
<1>f. /\ plan[r].status \in ReleasingStatuses => claim'[s] = None
      /\ plan[r].status \notin ReleasingStatuses => claim'[s] # None /\ claim'[s].mutation = m
  BY <1>1
<1>3. \A x \in Requests \ {m} : Open(x)' = Open(x)
  BY <1>a, <1>d DEF Open, Released
<1>4. (Open(m))' <=> plan[r].status \notin ReleasingStatuses
  BY <1>a, <1>d DEF Open, Released
<1>5. NothingReconciledBefore' /\ \A q \in Requests : reconciliation'[q] # None =>
                                      mutation'[reconciliation'[q].mutation] # None
  BY <1>a, <1>b, <1>d DEF SurfaceInvariant, NothingReconciledBefore, Open
<1>6. \A q \in Requests : ReconcilesAlone(q)'
  <2> SUFFICES ASSUME NEW q \in Requests, Reconciling(q)' PROVE ReconcilesAlone(q)'
    BY DEF ReconcilesAlone
  <2>1. q # r /\ Reconciling(q) /\ plan'[q] = plan[q] /\ plan[q].mutation # m
    BY <1>b, <1>c DEF Reconciling
  <2>2. ReconcilesAlone(q) /\ plan[q].mutation \in Requests
    BY <2>1 DEF SurfaceInvariant, AuthorityInvariant, PlansAreGrounded, Grounded, Reconciling
  <2>3. (Open(plan[q].mutation))'
    BY <1>a, <2>1, <2>2 DEF ReconcilesAlone, Open, Released
  <2>4. \A x \in Requests \ {q} : Reconciling(x)' => plan'[x].mutation # plan'[q].mutation
    BY <1>b, <2>1, <2>2 DEF ReconcilesAlone, Reconciling
  <2> QED
    BY <1>a, <2>1, <2>2, <2>3, <2>4 DEF ReconcilesAlone
<1>7. ASSUME NEW n \in Requests, Open(n)'
      PROVE  LET held == claim'[SurfaceOf[mutation'[n].contract]] IN held # None /\ held.mutation = n
  <2>1. CASE n = m
    BY <1>a, <1>d, <1>f, <1>4, <1>7, <2>1
  <2>2. CASE n # m
    <3>1. Open(n) /\ mutation[n].contract \in Contracts
      BY <1>0, <1>a, <1>3, <1>7, <2>2 DEF TypeOK, Nullable, Mutation, Open
    <3>2. LET held == claim[SurfaceOf[mutation[n].contract]] IN held # None /\ held.mutation = n
      BY <3>1 DEF SurfaceInvariant, ClaimNamesTheOpenOperation
    <3>3. SurfaceOf[mutation[n].contract] \in Surfaces \ {s}
      BY <1>d, <2>2, <3>1, <3>2, KernelConstants
    <3> QED
      BY <1>a, <1>e, <3>2, <3>3
  <2> QED
    BY <2>1, <2>2
<1>8. ASSUME NEW x \in Surfaces, claim'[x] # None
      PROVE  (Open(claim[x].mutation))' /\ SurfaceOf[mutation'[claim'[x].mutation].contract] = x
  <2>1. CASE x = s
    <3>1. claim'[x].mutation = m /\ (Open(m))'
      BY <1>f, <1>4, <1>8, <2>1
    <3> QED
      BY <1>a, <1>d, <2>1, <3>1, KernelConstants DEF Open, Released
  <2>2. CASE x # s
    <3> DEFINE n == claim[x].mutation
    <3>1. claim'[x] = claim[x] /\ n \in Requests /\ Open(n) /\ SurfaceOf[mutation[n].contract] = x
      BY <1>0, <1>e, <1>8, <2>2 DEF TypeOK, Nullable, Claim, SurfaceInvariant, ClaimNamesTheOpenOperation
    <3>2. n # m
      BY <1>d, <2>2, <3>1
    <3> QED
      BY <1>a, <3>1, <3>2 DEF Open, Released
  <2> QED
    BY <2>1, <2>2
<1>9. ClaimNamesTheOpenOperation'
  BY <1>7, <1>8 DEF ClaimNamesTheOpenOperation, Open, Released
<1> QED
  BY <1>5, <1>6, <1>9 DEF SurfaceInvariant

\* Every step keeps the claims exact.
LEMMA NextKeepsClaims ==
  ASSUME ~LateReconciliation, AuthorityInvariant, SurfaceInvariant, [Next]_vars
  PROVE  SurfaceInvariant'
<1>0. TypeOK
  BY DEF AuthorityInvariant
<1> DEFINE Quiet == /\ UNCHANGED <<mutation, reconciliation, claim>>
                    /\ \A q \in Requests :
                         /\ pc'[q] = "idle" => pc[q] = "idle"
                         /\ Reconciling(q)' => /\ Reconciling(q)
                                               /\ plan'[q].mutation = plan[q].mutation
                                               /\ plan'[q].contract = plan[q].contract
                                               /\ plan'[q].claim = plan[q].claim
<1>1. ASSUME NEW r \in Requests, StartPolicy(r) \/ StartGateway(r) \/ Abandon(r) PROVE Quiet
  BY <1>0, <1>1 DEF StartPolicy, EvaluatePolicy, StartGateway, GatewayCheck, Abandon, Proceed, Answer,
                    Stages, Reconciling, TypeOK, gateVars, lifecycleVars
<1>2. ASSUME NEW r \in Requests, PolicyStep(r) PROVE Quiet
  BY <1>0, <1>2 DEF PolicyStep, DerivePolicyConstraints, CommitPolicyDecision, CommitGreenlight,
                    RecordGreenlight, GreenlightIssuanceConflict, IdempotencyLedgerConflict,
                    Proceed, Answer, Reconciling, TypeOK, gateVars, lifecycleVars
<1>3. ASSUME NEW r \in Requests, GatewayStep(r), ~CommitGatewayPass(r), ~CommitGatewayPassAmbiguously(r)
      PROVE  Quiet
  BY <1>0, <1>3 DEF GatewayStep, DeriveGatewayConstraints, CommitGatewayRefusal, GatewayAlreadyConsumed,
                    GatewayOperationInProgress, CommitReplayRefusal, Proceed, Answer, Reconciling,
                    TypeOK, gateVars, lifecycleVars
<1>4. ASSUME NEW r \in Requests, ReadCurrentIdempotencyLedger(r) PROVE Quiet
  <2>1. /\ pc[r] = "reconcileRead" /\ pc'[r] = "reconcileCommit"
        /\ plan'[r] = [plan[r] EXCEPT !.ledger = LedgerEntryForContract(plan[r].contract)]
        /\ \A q \in Requests \ {r} : pc'[q] = pc[q] /\ plan'[q] = plan[q]
        /\ UNCHANGED <<mutation, reconciliation, claim>>
    BY <1>0, <1>4 DEF ReadCurrentIdempotencyLedger, Proceed, TypeOK, gateVars, lifecycleVars
  <2>2. /\ plan'[r].mutation = plan[r].mutation /\ plan'[r].contract = plan[r].contract
        /\ plan'[r].claim = plan[r].claim
    BY <1>0, <2>1 DEF TypeOK, Plan
  <2> QED
    BY <2>1, <2>2 DEF Reconciling
<1>5. Environment \/ UNCHANGED vars => Quiet
  BY DEF Environment, CreateIsolationState, CreateBreakerDecision, SetIsolation, Expire, ChangeBinding,
         vars, requestVars, gateVars, lifecycleVars, Reconciling
<1>6. Quiet => SurfaceInvariant'
  BY QuietSurface
<1> HIDE DEF Quiet
<1> QED
  BY <1>1, <1>2, <1>3, <1>4, <1>5, <1>6, ReconcileFindsItsClaim, AdmissionClaims, ReconciliationKeepsClaims
     DEF Next, RequestStep, LifecycleStep

\* Where callers reconcile an operation one at a time and only while it is open,
\* the claims are exact.
LEMMA SurfaceHolds == ASSUME ~LateReconciliation PROVE Spec => []SurfaceInvariant
<1>1. Init => SurfaceInvariant
  BY DEF Init, SurfaceInvariant, NothingReconciledBefore, ReconcilesAlone, Reconciling,
         ClaimNamesTheOpenOperation, Open
<1>2. AuthorityInvariant /\ SurfaceInvariant /\ [Next]_vars => SurfaceInvariant'
  BY NextKeepsClaims
<1> QED
  BY <1>1, <1>2, AuthorityHolds, PTL DEF Spec

\* A surface is claimed by exactly the operation open on it, for any number of
\* operations, as long as callers do not reconcile one that was released.
THEOREM ClaimsAreExact == ASSUME ~LateReconciliation PROVE Spec => []ClaimNamesTheOpenOperation
<1>1. SurfaceInvariant => ClaimNamesTheOpenOperation
  BY DEF SurfaceInvariant
<1> QED
  BY <1>1, SurfaceHolds, PTL

\* A reconciliation touches the claim of its own attempt and, but for a shadowed
\* key, the ledger entry of its own contract only, as long as callers do not
\* reconcile one that was released.
THEOREM ReconciliationIsSelective ==
  ASSUME ~LateReconciliation
  PROVE  Spec => ReconciliationKeepsToItsMutation
<1> DEFINE Selective ==
      \A r \in Requests : reconciliation[r] = None /\ reconciliation'[r] # None =>
        LET own == reconciliation'[r].mutation IN
        /\ \A s \in Surfaces :
             claim[s] # None /\ claim'[s] # claim[s] => claim[s].mutation = own
        /\ \A k \in LedgerKeys :
             ledger[k] # None /\ ledger'[k] # ledger[k] =>
               Shadowed(k) \/ ledger[k].contract = mutation[own].contract
<1>1. ASSUME AuthorityInvariant, LedgerInvariant, SurfaceInvariant, NEW r \in Requests,
             CommitSurfaceOperationReconciliation(r)
      PROVE  Selective
  <2> DEFINE m == plan[r].mutation
             k == plan[r].ledger.key
  <2>1. /\ claim[SurfaceOf[plan[r].contract]].mutation = m
        /\ \A x \in Surfaces \ {SurfaceOf[plan[r].contract]} : claim'[x] = claim[x]
        /\ reconciliation'[r].mutation = m
        /\ \A q \in Requests \ {r} : reconciliation'[q] = reconciliation[q]
        /\ m \in Requests /\ mutation[m] # None /\ plan[r].contract = mutation[m].contract
    <3>1. /\ claim[SurfaceOf[plan[r].contract]].mutation = m
          /\ \A x \in Surfaces \ {SurfaceOf[plan[r].contract]} : claim'[x] = claim[x]
          /\ m \in Requests /\ Open(m) /\ plan[r].contract = mutation[m].contract
          /\ reconciliation'[r] = [mutation |-> m, status |-> plan[r].status]
          /\ \A q \in Requests \ {r} : reconciliation'[q] = reconciliation[q]
      BY <1>1, ReconciliationReleases
    <3> QED
      BY <3>1 DEF Open
  <2>2. /\ \A j \in LedgerKeys \ {k} : ledger'[j] = ledger[j]
        /\ k \in {AuthorityKey[plan[r].contract], ContractKey[plan[r].contract]}
        /\ plan[r].contract \in Contracts
    BY <1>1, ReconciliationClosesTheEntry
  <2>3. Shadowed(k) \/ ledger[k].contract = mutation[m].contract
    <3>1. CASE k = AuthorityKey[mutation[m].contract]
      BY <1>1, <2>1, <3>1, AdmittedHoldTheirEntry
    <3>2. CASE k # AuthorityKey[mutation[m].contract]
      BY <2>1, <2>2, <3>2 DEF Shadowed
    <3> QED
      BY <3>1, <3>2
  <2> QED
    BY <2>1, <2>2, <2>3
<1>2. ASSUME TypeOK, Next, \A r \in Requests : ~CommitSurfaceOperationReconciliation(r)
      PROVE  UNCHANGED reconciliation
  BY <1>2 DEF Next, StartPolicy, EvaluatePolicy, StartGateway, GatewayCheck, StartReconcile,
              ReconcileSurfaceOperation, Abandon, RequestStep, PolicyStep, DerivePolicyConstraints,
              CommitPolicyDecision, CommitGreenlight, RecordGreenlight, GreenlightIssuanceConflict,
              IdempotencyLedgerConflict, GatewayStep, DeriveGatewayConstraints, CommitGatewayRefusal,
              CommitGatewayPass, CommitGatewayPassAmbiguously, AdmitMutation, GatewayAlreadyConsumed,
              GatewayOperationInProgress, CommitReplayRefusal, LifecycleStep,
              ReadCurrentIdempotencyLedger, Environment, CreateIsolationState, CreateBreakerDecision,
              SetIsolation, Expire, ChangeBinding, lifecycleVars
<1>3. UNCHANGED reconciliation => Selective
  OBVIOUS
<1>4. AuthorityInvariant /\ LedgerInvariant /\ SurfaceInvariant /\ [Next]_vars => [Selective]_vars
  BY <1>1, <1>2, <1>3 DEF AuthorityInvariant
<1> QED
  BY <1>4, AuthorityHolds, LedgerHolds, SurfaceHolds, PTL DEF Spec, ReconciliationKeepsToItsMutation
=============================================================================
