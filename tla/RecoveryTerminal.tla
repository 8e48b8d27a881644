-------------------------- MODULE RecoveryTerminal --------------------------
(***************************************************************************)
(* How a recovery recommendation ends (areas/recovery and the recovery link *)
(* of areas/action-contract).                                               *)
(*                                                                          *)
(* A recommendation is open until a status change lets it expire or a       *)
(* follow-up contract is proposed that supersedes it.  Both read it, await, *)
(* and commit its terminal status together with a claim that the store      *)
(* grants once.  A loser records a proof gap in a commit of its own, which a *)
(* later request resolves against the transition that won.                  *)
(*                                                                          *)
(* A request is the id of what it creates: the status transition of a       *)
(* change, the contract of a proposal and its transition, the gap of a      *)
(* loser.  The digest of a recommendation does not cover its status and is  *)
(* identified with the recommendation.                                      *)
(***************************************************************************)
CONSTANTS
  Recommendations,
  Proposals,     \* one-shot proposeActionContract calls of a linked candidate
  StatusChanges, \* one-shot transitionRecoveryRecommendationStatus calls
  Resolutions,   \* one-shot resolveRecoveryTerminalConflictProofGap calls
  Perishable,    \* the recommendations that have a recoveryExpiresAt
  Delayed,       \* those that have a retryNotBefore
  Store,         \* "memory" or "d1"
  None           \* null

VARIABLES
  recommendation, \* the recovery_recommendation records
  transitions,    \* recovery_recommendation_status_transition records
  contracts,      \* the action contracts that follow up on a recommendation
  claims,         \* recovery_terminal_claims
  gaps,           \* the recovery proof gap of each request that lost
  window,         \* where the clock stands to each recommendation's window
  pc,             \* where each request is
  view,           \* what it was asked and has read
  told            \* what it answered its caller

recordVars == <<recommendation, transitions, contracts, claims, gaps>>
vars == <<recordVars, window, pc, view, told>>

Changers == Proposals \cup StatusChanges
Requests == Changers \cup Resolutions
TerminalStatuses == {"expired", "superseded"}
Statuses == {"open"} \cup TerminalStatuses

ASSUME RecoveryConstants ==
  /\ Proposals \cap StatusChanges = {}
  /\ Changers \cap Resolutions = {}
  /\ None \notin Changers
  /\ Store \in {"memory", "d1"}

Recommendation ==
  [status : {"open"}, by : {None}, supersededBy : {None}]
    \cup [status : {"expired"}, by : Changers, supersededBy : {None}]
    \cup [status : {"superseded"}, by : Changers, supersededBy : Proposals]
Transition == [id : Changers, rec : Recommendations, next : TerminalStatuses, supersededBy : Proposals \cup {None}]
Contract == [id : Proposals, rec : Recommendations]
Gap == [rec : Recommendations, resolvedBy : Changers \cup {None}]
Change == [rec : Recommendations, next : TerminalStatuses, supersededBy : Proposals \cup {None}, seen : Statuses]
Resolution == [gap : Changers, transition : Changers, seen : Gap]
Answers == {"pending", "committed", "refused", "recovery_terminal_conflict", "failed"}

ASSUME NoneIsNull == None \notin Gap /\ None \notin Change /\ None \notin Resolution

TypeOK ==
  /\ recommendation \in [Recommendations -> Recommendation]
  /\ transitions \in SUBSET Transition
  /\ contracts \in SUBSET Contract
  /\ claims \in [Recommendations -> Changers \cup {None}]
  /\ gaps \in [Changers -> Gap \cup {None}]
  /\ window \in [Recommendations -> {"early", "open", "expired"}]
  /\ pc \in [Requests -> {"idle", "check", "commit", "conflict", "done"}]
  /\ \A q \in Changers : view[q] \in Change \cup {None}
  /\ \A q \in Resolutions : view[q] \in Resolution \cup {None}
  /\ view \in [Requests -> Change \cup Resolution \cup {None}]
  /\ told \in [Requests -> Answers]

Init ==
  /\ recommendation = [r \in Recommendations |-> [status |-> "open", by |-> None, supersededBy |-> None]]
  /\ transitions = {}
  /\ contracts = {}
  /\ claims = [r \in Recommendations |-> None]
  /\ gaps = [q \in Changers |-> None]
  /\ window = [r \in Recommendations |-> IF r \in Delayed THEN "early" ELSE "open"]
  /\ pc = [q \in Requests |-> "idle"]
  /\ view = [q \in Requests |-> None]
  /\ told = [q \in Requests |-> "pending"]

Answer(q, answer) ==
  /\ pc' = [pc EXCEPT ![q] = "done"]
  /\ told' = [told EXCEPT ![q] = answer]

Proceed(q, step) ==
  /\ pc' = [pc EXCEPT ![q] = step]
  /\ UNCHANGED told

\* retryNotBefore and recoveryExpiresAt go by.
TimePasses(r) ==
  /\ \/ window[r] = "early" /\ window' = [window EXCEPT ![r] = "open"]
     \/ window[r] = "open" /\ r \in Perishable /\ window' = [window EXCEPT ![r] = "expired"]
  /\ UNCHANGED <<recordVars, pc, view, told>>

(***************************************************************************)
(* transitionRecoveryRecommendationStatus and proposeActionContract         *)
(***************************************************************************)
\* The first await: the recommendation as it is now.
LoadRecommendation(q, r, next, contract) ==
  /\ pc[q] = "idle"
  /\ view' = [view EXCEPT ![q] =
       [rec |-> r, next |-> next, supersededBy |-> contract, seen |-> recommendation[r].status]]
  /\ Proceed(q, "check")
  /\ UNCHANGED <<recordVars, window>>

\* A caller names no contract, or one that exists: ids are made by the kernel.
StartStatusChange(q) ==
  \E r \in Recommendations, next \in TerminalStatuses, c \in {d.id : d \in contracts} \cup {None} :
    LoadRecommendation(q, r, next, c)

\* loadRecoveryActionLinkage; the contract to be is this proposal's.
StartProposal(q) == \E r \in Recommendations : LoadRecommendation(q, r, "superseded", q)

\* A status change that trusts the contract it is given.
SupersedingContractExists(q) ==
  view[q].supersededBy # None => \E c \in contracts : c.id = view[q].supersededBy

\* requiredRecord of the superseding contract, and assertSupersedingContract
SupersedingContractFits(q) ==
  view[q].supersededBy # None => [id |-> view[q].supersededBy, rec |-> view[q].rec] \in contracts

\* assertStatusTransitionInput, at a later moment than the read
StatusChangeAllowed(q) ==
  /\ SupersedingContractFits(q)
  /\ view[q].seen = "open"
  /\ view[q].next = "superseded" => view[q].supersededBy # None
  /\ view[q].next = "expired" => view[q].supersededBy = None /\ window[view[q].rec] = "expired"

\* assertRecoveryActionLinkage: status, expiry and retry window
LinkageAllowed(q) == view[q].seen = "open" /\ window[view[q].rec] = "open"

CheckChange(q) ==
  /\ q \in Changers
  /\ pc[q] = "check"
  /\ LET allowed == IF q \in Proposals THEN LinkageAllowed(q) ELSE StatusChangeAllowed(q) IN
     \/ allowed /\ Proceed(q, "commit")
     \/ ~allowed /\ Answer(q, "refused")
     \/ q \in Proposals /\ Answer(q, "refused") \* the other guards of a proposal
  /\ UNCHANGED <<recordVars, window, view>>

\* buildRecoveryRecommendationStatusChange: the copy that was read, closed
TerminalRecommendation(q) ==
  [status |-> view[q].next, by |-> q, supersededBy |-> view[q].supersededBy]

\* A store that keeps no recovery_terminal_claims.
Unclaimed(q) == TRUE

TerminalClaimFree(q) == claims[view[q].rec] = None

\* What the commit of a status change or of a linked contract writes.
LandTerminalChange(q) ==
  LET r == view[q].rec IN
  /\ TerminalClaimFree(q)
  /\ recommendation' = [recommendation EXCEPT ![r] = TerminalRecommendation(q)]
  /\ transitions' = transitions \cup
       {[id |-> q, rec |-> r, next |-> view[q].next, supersededBy |-> view[q].supersededBy]}
  /\ contracts' = contracts \cup {[id |-> p, rec |-> r] : p \in {q} \cap Proposals}
  /\ claims' = [claims EXCEPT ![r] = q]
  /\ UNCHANGED gaps

CommitChange(q) ==
  /\ q \in Changers
  /\ pc[q] = "commit"
  /\ LandTerminalChange(q)
  /\ Answer(q, "committed")
  /\ UNCHANGED <<window, view>>

\* Conflicts that are answered at once, leave no gap, or are tried again.
TerminalConflictUnrecorded(q) ==
  /\ q \in Changers
  /\ pc[q] = "commit"
  /\ ~TerminalClaimFree(q)
  /\ Answer(q, "recovery_terminal_conflict")
  /\ UNCHANGED <<recordVars, window, view>>

TerminalConflictRetried(q) ==
  /\ q \in Changers
  /\ pc[q] = "commit"
  /\ ~TerminalClaimFree(q)
  /\ Proceed(q, "check")
  /\ UNCHANGED <<recordVars, window, view>>

\* The claim is taken: on to the proof gap.
TerminalConflict(q) ==
  /\ q \in Changers
  /\ pc[q] = "commit"
  /\ ~TerminalClaimFree(q)
  /\ Proceed(q, "conflict")
  /\ UNCHANGED <<recordVars, window, view>>

RecordGap(q) == gaps' = [gaps EXCEPT ![q] = [rec |-> view[q].rec, resolvedBy |-> None]]

\* recordRecoveryTerminalConflictProofGap, then the conflict is the answer
RecordTerminalConflict(q) ==
  /\ pc[q] = "conflict"
  /\ RecordGap(q)
  /\ Answer(q, "recovery_terminal_conflict")
  /\ UNCHANGED <<recommendation, transitions, contracts, claims, window, view>>

(***************************************************************************)
(* resolveRecoveryTerminalConflictProofGap                                  *)
(***************************************************************************)
\* The first await: the proof gap as it is now.
LoadGap(q, g, t) ==
  /\ pc[q] = "idle"
  /\ gaps[g] # None
  /\ view' = [view EXCEPT ![q] = [gap |-> g, transition |-> t, seen |-> gaps[g]]]
  /\ Proceed(q, "check")
  /\ UNCHANGED <<recordVars, window>>

StartResolution(q) == \E g \in Changers, t \in transitions : LoadGap(q, g, t.id)

\* The transition is the current terminal transition of its recommendation.
IsCurrent(t) ==
  recommendation[t.rec] = [status |-> t.next, by |-> t.id, supersededBy |-> t.supersededBy]

\* A resolution that does not compare the claim the gap is about.
ResolvesAnyGap(q) ==
  /\ view[q].seen.resolvedBy = None
  /\ \E t \in transitions : t.id = view[q].transition /\ IsCurrent(t)

\* assertRecoveryTerminalConflictResolution, on the gap that was read and the
\* transition and recommendation that are read now
ResolutionAllowed(q) ==
  /\ view[q].seen.resolvedBy = None
  /\ \E t \in transitions : /\ t.id = view[q].transition
                            /\ t.rec = view[q].seen.rec
                            /\ IsCurrent(t)

CheckResolution(q) ==
  /\ q \in Resolutions
  /\ pc[q] = "check"
  /\ IF ResolutionAllowed(q) THEN Proceed(q, "commit") ELSE Answer(q, "refused")
  /\ UNCHANGED <<recordVars, window, view>>

\* The gap that was read, resolved, whatever happened to it since.
LandResolution(q) ==
  /\ gaps' = [gaps EXCEPT ![view[q].gap] = [view[q].seen EXCEPT !.resolvedBy = view[q].transition]]
  /\ UNCHANGED <<recommendation, transitions, contracts, claims>>

CommitResolution(q) ==
  /\ q \in Resolutions
  /\ pc[q] = "commit"
  /\ LandResolution(q)
  /\ Answer(q, "committed")
  /\ UNCHANGED <<window, view>>

(***************************************************************************)
(* A commit that fails: stream tails lost to other writers, or an error of  *)
(* D1, which may come after the batch landed.                               *)
(***************************************************************************)
CommitFails(q) ==
  /\ pc[q] \in {"commit", "conflict"}
  /\ \/ UNCHANGED recordVars
     \/ Store = "d1" /\ pc[q] = "commit" /\ q \in Changers /\ LandTerminalChange(q)
     \/ Store = "d1" /\ pc[q] = "commit" /\ q \in Resolutions /\ LandResolution(q)
     \/ /\ Store = "d1" /\ pc[q] = "conflict"
        /\ RecordGap(q)
        /\ UNCHANGED <<recommendation, transitions, contracts, claims>>
  /\ Answer(q, "failed")
  /\ UNCHANGED <<window, view>>

RequestStep(q) ==
  \/ CheckChange(q) \/ CommitChange(q) \/ TerminalConflict(q) \/ RecordTerminalConflict(q)
  \/ CheckResolution(q) \/ CommitResolution(q)

Next ==
  \/ \E q \in StatusChanges : StartStatusChange(q)
  \/ \E q \in Proposals : StartProposal(q)
  \/ \E q \in Resolutions : StartResolution(q)
  \/ \E q \in Requests : RequestStep(q) \/ CommitFails(q)
  \/ \E r \in Recommendations : TimePasses(r)

Spec == Init /\ [][Next]_vars

\* A started request is an async function without loops of its own.
FairSpec == Spec /\ \A q \in Requests : WF_vars(RequestStep(q))

(***************************************************************************)
(* Properties                                                               *)
(***************************************************************************)
\* A recommendation ends once: the claim, the one transition and the record
\* agree, however many requests read it while it was open.
TerminalRecordsAgree ==
  \A r \in Recommendations :
    IF claims[r] = None
    THEN recommendation[r].status = "open" /\ \A t \in transitions : t.rec # r
    ELSE /\ \E t \in transitions : t.rec = r /\ t.id = claims[r] /\ IsCurrent(t)
         /\ \A t, u \in transitions : t.rec = r /\ u.rec = r => t = u

\* A linked contract exists exactly when its proposal superseded the
\* recommendation: no second follow-up, and no status change that supersedes.
FollowUpSupersedes ==
  /\ \A c \in contracts :
       recommendation[c.rec] = [status |-> "superseded", by |-> c.id, supersededBy |-> c.id]
  /\ \A r \in Recommendations : recommendation[r].status = "superseded" =>
       /\ [id |-> recommendation[r].supersededBy, rec |-> r] \in contracts
       /\ recommendation[r].by = recommendation[r].supersededBy

\* "recovery terminal conflict: proof gap": a caller told of the conflict can
\* find its gap, and whoever has a gap lost and left nothing else.
ConflictsLeaveAGap ==
  \A q \in Changers :
    /\ told[q] = "recovery_terminal_conflict" => gaps[q] # None
    /\ gaps[q] # None =>
         /\ claims[gaps[q].rec] \notin {None, q}
         /\ \A t \in transitions : t.id # q
         /\ \A c \in contracts : c.id # q

\* A gap is resolved by the transition that won its own recommendation, also
\* when it is resolved more than once.
GapsResolvedByTheWinner ==
  \A q \in Changers : gaps[q] # None /\ gaps[q].resolvedBy # None =>
    claims[gaps[q].rec] = gaps[q].resolvedBy

\* "may move from open to expired or superseded only", and from there nowhere.
TerminalStatusIsFinal ==
  [][\A r \in Recommendations :
       recommendation[r].status # "open" => recommendation'[r] = recommendation[r]]_vars

\* Whatever it meets at its commits, a started request answers.
EveryRecoveryRequestIsAnswered ==
  \A q \in Requests : (pc[q] # "idle") ~> (pc[q] = "done")

(***************************************************************************)
(* Why it holds: the inductive strengthening                                *)
(***************************************************************************)
\* A change leaves its marks once, when it is done.
MarksOfTheDone ==
  /\ \A r \in Recommendations : claims[r] # None => pc[claims[r]] = "done"
  /\ \A t \in transitions : pc[t.id] = "done"
  /\ \A c \in contracts : pc[c.id] = "done"
  /\ \A q \in Changers : gaps[q] # None => pc[q] = "done"

\* What stays true, between its awaits, of what a change was asked and checked.
ChangesAreGrounded ==
  \A q \in Changers :
    /\ pc[q] \in {"check", "commit", "conflict"} => view[q] \in Change
    /\ q \in Proposals /\ view[q] # None => view[q].next = "superseded" /\ view[q].supersededBy = q
    /\ pc[q] \in {"commit", "conflict"} /\ q \in StatusChanges =>
         /\ SupersedingContractFits(q)
         /\ view[q].next = "superseded" => view[q].supersededBy # None
         /\ view[q].next = "expired" => view[q].supersededBy = None
    /\ pc[q] = "conflict" => claims[view[q].rec] \notin {None, q}

\* A resolution holds a copy of its gap that differs at most in being
\* unresolved, and what it is about to write is the winner.
ResolutionsAreGrounded ==
  \A q \in Resolutions :
    /\ pc[q] \in {"check", "commit"} => view[q] \in Resolution
    /\ pc[q] # "conflict"
    /\ view[q] # None => gaps[view[q].gap] # None /\ gaps[view[q].gap].rec = view[q].seen.rec
    /\ pc[q] = "commit" => claims[view[q].seen.rec] = view[q].transition

RecoveryInvariant ==
  /\ TypeOK
  /\ TerminalRecordsAgree
  /\ FollowUpSupersedes
  /\ ConflictsLeaveAGap
  /\ GapsResolvedByTheWinner
  /\ MarksOfTheDone
  /\ ChangesAreGrounded
  /\ ResolutionsAreGrounded
=============================================================================
