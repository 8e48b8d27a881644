----------------------- MODULE RecoveryTerminalProofs -----------------------
(***************************************************************************)
(* Proofs about RecoveryTerminal, for any recommendations and requests.     *)
(*                                                                          *)
(* The inductive invariant is RecoveryInvariant: next to the properties it  *)
(* says that a request leaves its marks when it is done and what each one   *)
(* still knows, between its awaits, of what it read.  Its one hard step is  *)
(* the commit of a terminal change (LandingKeeps), where the free claim     *)
(* says that the recommendation is still open and rules out a status change *)
(* that names a superseding contract.                                       *)
(***************************************************************************)
EXTENDS RecoveryTerminal, TLAPS

\* Before any request every recommendation is open and unclaimed.
LEMMA InitKeeps == Init => RecoveryInvariant
<1>1. SUFFICES ASSUME Init PROVE RecoveryInvariant
  OBVIOUS
<1>2. TypeOK
  BY <1>1, RecoveryConstants DEF Init, TypeOK, Recommendation, Requests, Answers
<1>3. TerminalRecordsAgree
  BY <1>1 DEF Init, TerminalRecordsAgree
<1>4. FollowUpSupersedes
  BY <1>1 DEF Init, FollowUpSupersedes
<1>5. ConflictsLeaveAGap /\ GapsResolvedByTheWinner
  BY <1>1 DEF Init, ConflictsLeaveAGap, GapsResolvedByTheWinner, Requests
<1>6. MarksOfTheDone
  BY <1>1 DEF Init, MarksOfTheDone
<1>7. ChangesAreGrounded
  BY <1>1 DEF Init, ChangesAreGrounded, Requests
<1>8. ResolutionsAreGrounded
  BY <1>1 DEF Init, ResolutionsAreGrounded, Requests
<1> QED
  BY <1>2, <1>3, <1>4, <1>5, <1>6, <1>7, <1>8 DEF RecoveryInvariant

\* A step that leaves the records alone keeps what is said of them alone.
LEMMA RecordsKept ==
  ASSUME RecoveryInvariant, UNCHANGED recordVars
  PROVE  /\ TerminalRecordsAgree'
         /\ FollowUpSupersedes'
         /\ GapsResolvedByTheWinner'
<1> USE DEF recordVars
<1>1. TerminalRecordsAgree'
  BY DEF RecoveryInvariant, TerminalRecordsAgree, IsCurrent
<1>2. FollowUpSupersedes'
  BY DEF RecoveryInvariant, FollowUpSupersedes
<1>3. GapsResolvedByTheWinner'
  BY DEF RecoveryInvariant, GapsResolvedByTheWinner
<1> QED
  BY <1>1, <1>2, <1>3

\* A change that answers "refused" or "failed" and has written nothing.
LEMMA GivingUpKeeps ==
  ASSUME RecoveryInvariant, NEW q \in Requests, pc[q] # "idle", pc[q] # "done",
         Answer(q, "refused") \/ Answer(q, "failed"), UNCHANGED <<recordVars, window, view>>
  PROVE  RecoveryInvariant'
<1> USE DEF Answer, recordVars
<1>1. TerminalRecordsAgree' /\ FollowUpSupersedes' /\ GapsResolvedByTheWinner'
  BY RecordsKept
<1>2. TypeOK'
  BY DEF RecoveryInvariant, TypeOK, Answers, Requests
<1>3. ConflictsLeaveAGap'
  <2>1. \A c \in Changers : told'[c] = "recovery_terminal_conflict" => told[c] = "recovery_terminal_conflict"
    BY DEF RecoveryInvariant, TypeOK, Requests
  <2> QED
    BY <2>1 DEF RecoveryInvariant, ConflictsLeaveAGap
<1>4. \A c \in Requests : pc'[c] = IF c = q THEN "done" ELSE pc[c]
  BY DEF RecoveryInvariant, TypeOK
<1>5. MarksOfTheDone'
  BY <1>4 DEF RecoveryInvariant, MarksOfTheDone, TypeOK, Transition, Contract, Requests, Changers
<1>6. ChangesAreGrounded'
  BY <1>4 DEF RecoveryInvariant, ChangesAreGrounded, SupersedingContractFits, Requests, Changers
<1>7. ResolutionsAreGrounded'
  BY <1>4 DEF RecoveryInvariant, ResolutionsAreGrounded, Requests
<1> QED
  BY <1>1, <1>2, <1>3, <1>5, <1>6, <1>7 DEF RecoveryInvariant

\* Time touches the windows alone.
LEMMA TimeKeeps ==
  ASSUME RecoveryInvariant, NEW r \in Recommendations, TimePasses(r)
  PROVE  RecoveryInvariant'
<1> USE DEF TimePasses, recordVars
<1>1. TerminalRecordsAgree' /\ FollowUpSupersedes' /\ GapsResolvedByTheWinner'
  BY RecordsKept
<1>2. TypeOK'
  BY DEF RecoveryInvariant, TypeOK
<1>3. ConflictsLeaveAGap' /\ MarksOfTheDone'
  BY DEF RecoveryInvariant, ConflictsLeaveAGap, MarksOfTheDone
<1>4. ChangesAreGrounded'
  BY DEF RecoveryInvariant, ChangesAreGrounded, SupersedingContractFits
<1>5. ResolutionsAreGrounded'
  BY DEF RecoveryInvariant, ResolutionsAreGrounded
<1> QED
  BY <1>1, <1>2, <1>3, <1>4, <1>5 DEF RecoveryInvariant

\* The first read of a change.
LEMMA LoadKeeps ==
  ASSUME RecoveryInvariant,
         NEW q \in Changers, NEW r \in Recommendations, NEW next \in TerminalStatuses,
         NEW c \in Proposals \cup {None},
         q \in Proposals => next = "superseded" /\ c = q,
         LoadRecommendation(q, r, next, c)
  PROVE  RecoveryInvariant'
<1> USE DEF LoadRecommendation, Proceed, recordVars
<1> DEFINE change == [rec |-> r, next |-> next, supersededBy |-> c, seen |-> recommendation[r].status]
<1>1. TerminalRecordsAgree' /\ FollowUpSupersedes' /\ GapsResolvedByTheWinner'
  BY RecordsKept
<1>2. change \in Change
  BY DEF RecoveryInvariant, TypeOK, Recommendation, Change, Statuses, TerminalStatuses
<1>3. /\ q \in Requests
      /\ q \notin Resolutions
      /\ \A p \in Requests : pc'[p] = IF p = q THEN "check" ELSE pc[p]
      /\ \A p \in Requests : view'[p] = IF p = q THEN change ELSE view[p]
  BY RecoveryConstants DEF RecoveryInvariant, TypeOK, Requests
<1>4. TypeOK'
  BY <1>2, <1>3 DEF RecoveryInvariant, TypeOK, Requests
<1>5. ConflictsLeaveAGap'
  BY DEF RecoveryInvariant, ConflictsLeaveAGap
<1>6. MarksOfTheDone'
  BY <1>3 DEF RecoveryInvariant, MarksOfTheDone, TypeOK, Transition, Contract, Requests, Changers
<1>7. ChangesAreGrounded'
  BY <1>2, <1>3 DEF RecoveryInvariant, ChangesAreGrounded, SupersedingContractFits, Requests, Changers
<1>8. ResolutionsAreGrounded'
  BY <1>3 DEF RecoveryInvariant, ResolutionsAreGrounded, Requests
<1> QED
  BY <1>1, <1>4, <1>5, <1>6, <1>7, <1>8 DEF RecoveryInvariant

\* A change whose guards hold goes on to its commit.
LEMMA CheckedChangeKeeps ==
  ASSUME RecoveryInvariant, NEW q \in Changers, pc[q] = "check",
         IF q \in Proposals THEN LinkageAllowed(q) ELSE StatusChangeAllowed(q),
         Proceed(q, "commit"), UNCHANGED <<recordVars, window, view>>
  PROVE  RecoveryInvariant'
<1> USE DEF Proceed, recordVars
<1>1. TerminalRecordsAgree' /\ FollowUpSupersedes' /\ GapsResolvedByTheWinner'
  BY RecordsKept
<1>2. /\ q \in Requests
      /\ q \notin Resolutions
      /\ \A p \in Requests : pc'[p] = IF p = q THEN "commit" ELSE pc[p]
  BY RecoveryConstants DEF RecoveryInvariant, TypeOK, Requests
<1>3. TypeOK'
  BY <1>2 DEF RecoveryInvariant, TypeOK, Requests
<1>4. ConflictsLeaveAGap'
  BY DEF RecoveryInvariant, ConflictsLeaveAGap
<1>5. MarksOfTheDone'
  BY <1>2 DEF RecoveryInvariant, MarksOfTheDone, TypeOK, Transition, Contract, Requests, Changers
<1>6. ChangesAreGrounded'
  <2>1. view[q] \in Change /\ view[q].seen = "open"
    BY DEF RecoveryInvariant, ChangesAreGrounded, LinkageAllowed, StatusChangeAllowed
  <2>2. view[q] # None
    BY <2>1, NoneIsNull
  <2>3. q \in StatusChanges =>
          /\ SupersedingContractFits(q)
          /\ view[q].next = "superseded" => view[q].supersededBy # None
          /\ view[q].next = "expired" => view[q].supersededBy = None
    BY RecoveryConstants DEF StatusChangeAllowed
  <2>4. q \in Proposals => view[q].next = "superseded" /\ view[q].supersededBy = q
    BY <2>2 DEF RecoveryInvariant, ChangesAreGrounded
  <2>5. SUFFICES ASSUME NEW p \in Changers
                 PROVE  (/\ pc[p] \in {"check", "commit", "conflict"} => view[p] \in Change
                         /\ p \in Proposals /\ view[p] # None => view[p].next = "superseded" /\ view[p].supersededBy = p
                         /\ pc[p] \in {"commit", "conflict"} /\ p \in StatusChanges =>
                              /\ SupersedingContractFits(p)
                              /\ view[p].next = "superseded" => view[p].supersededBy # None
                              /\ view[p].next = "expired" => view[p].supersededBy = None
                         /\ pc[p] = "conflict" => claims[view[p].rec] \notin {None, p})'
    BY DEF ChangesAreGrounded
  <2>6. CASE p = q
    BY <1>2, <2>1, <2>3, <2>4, <2>6 DEF SupersedingContractFits
  <2>7. CASE p # q
    <3>1. pc'[p] = pc[p]
      BY <1>2, <2>7 DEF Requests
    <3> QED
      BY <3>1 DEF RecoveryInvariant, ChangesAreGrounded, SupersedingContractFits
  <2> QED
    BY <2>6, <2>7
<1>7. ResolutionsAreGrounded'
  BY <1>2 DEF RecoveryInvariant, ResolutionsAreGrounded, Requests
<1> QED
  BY <1>1, <1>3, <1>4, <1>5, <1>6, <1>7 DEF RecoveryInvariant

\* What is known of a change at the commit of its terminal status.
LEMMA FreeClaim ==
  ASSUME RecoveryInvariant, NEW q \in Changers, pc[q] = "commit", TerminalClaimFree(q)
  PROVE  /\ view[q] \in Change
         /\ recommendation[view[q].rec].status = "open"
         /\ \A t \in transitions : t.rec # view[q].rec /\ t.id # q
         /\ \A c \in contracts : c.rec # view[q].rec /\ c.id # q
         /\ \A r \in Recommendations : claims[r] # q
         /\ gaps[q] = None
         /\ q \in Proposals => view[q].next = "superseded" /\ view[q].supersededBy = q
         /\ q \notin Proposals => view[q].next = "expired" /\ view[q].supersededBy = None
<1> DEFINE r == view[q].rec
<1>1. view[q] \in Change /\ view[q] # None /\ r \in Recommendations
  BY NoneIsNull DEF RecoveryInvariant, ChangesAreGrounded, Change
<1>2. recommendation[r].status = "open" /\ \A t \in transitions : t.rec # r
  BY <1>1 DEF RecoveryInvariant, TerminalRecordsAgree, TerminalClaimFree
<1>3. \A c \in contracts : c.rec # r
  <2>1. \A c \in contracts : recommendation[c.rec].status = "superseded"
    <3>1. TAKE c \in contracts
    <3>2. recommendation[c.rec] = [status |-> "superseded", by |-> c.id, supersededBy |-> c.id]
      BY DEF RecoveryInvariant, FollowUpSupersedes
    <3> QED
      BY <3>2
  <2> QED
    BY <1>2, <2>1
<1>4. /\ \A t \in transitions : t.id # q
      /\ \A c \in contracts : c.id # q
      /\ \A s \in Recommendations : claims[s] # q
      /\ gaps[q] = None
  BY RecoveryConstants DEF RecoveryInvariant, MarksOfTheDone
<1>5. q \in Proposals => view[q].next = "superseded" /\ view[q].supersededBy = q
  BY <1>1 DEF RecoveryInvariant, ChangesAreGrounded
<1>6. q \notin Proposals => view[q].next = "expired" /\ view[q].supersededBy = None
  <2>1. SUFFICES ASSUME q \in StatusChanges
                 PROVE  view[q].next = "expired" /\ view[q].supersededBy = None
    BY DEF Changers
  <2>2. SupersedingContractFits(q)
    BY <2>1 DEF RecoveryInvariant, ChangesAreGrounded
  <2>3. view[q].supersededBy = None
    BY <1>3, <2>2 DEF SupersedingContractFits
  <2>4. view[q].next # "superseded"
    BY <2>1, <2>3 DEF RecoveryInvariant, ChangesAreGrounded
  <2> QED
    BY <1>1, <2>3, <2>4 DEF Change, TerminalStatuses
<1> QED
  BY <1>1, <1>2, <1>3, <1>4, <1>5, <1>6

\* A terminal change lands, answered or not.
LEMMA LandingKeeps ==
  ASSUME RecoveryInvariant, NEW q \in Changers, pc[q] = "commit", LandTerminalChange(q),
         Answer(q, "committed") \/ Answer(q, "failed"), UNCHANGED <<window, view>>
  PROVE  RecoveryInvariant'
<1> DEFINE r == view[q].rec
<1> DEFINE closed == [status |-> view[q].next, by |-> q, supersededBy |-> view[q].supersededBy]
<1> DEFINE landed == [id |-> q, rec |-> r, next |-> view[q].next, supersededBy |-> view[q].supersededBy]
<1>1. /\ view[q] \in Change
      /\ recommendation[r].status = "open"
      /\ \A t \in transitions : t.rec # r /\ t.id # q
      /\ \A c \in contracts : c.rec # r /\ c.id # q
      /\ \A s \in Recommendations : claims[s] # q
      /\ gaps[q] = None
      /\ q \in Proposals => view[q].next = "superseded" /\ view[q].supersededBy = q
      /\ q \notin Proposals => view[q].next = "expired" /\ view[q].supersededBy = None
  BY FreeClaim DEF LandTerminalChange
<1>2. /\ r \in Recommendations
      /\ q # None
      /\ q \in Requests
      /\ q \notin Resolutions
      /\ claims[r] = None
  BY <1>1, RecoveryConstants DEF Change, Requests, LandTerminalChange, TerminalClaimFree
<1>3. /\ \A s \in Recommendations : recommendation'[s] = IF s = r THEN closed ELSE recommendation[s]
      /\ \A s \in Recommendations : claims'[s] = IF s = r THEN q ELSE claims[s]
      /\ transitions' = transitions \cup {landed}
      /\ contracts' = contracts \cup {[id |-> p, rec |-> r] : p \in {q} \cap Proposals}
      /\ gaps' = gaps
      /\ view' = view
      /\ \A p \in Requests : pc'[p] = IF p = q THEN "done" ELSE pc[p]
      /\ \A p \in Requests : p # q => told'[p] = told[p]
      /\ told'[q] # "recovery_terminal_conflict"
  BY <1>2 DEF RecoveryInvariant, TypeOK, LandTerminalChange, TerminalRecommendation, Answer
<1>4. closed \in Recommendation /\ landed \in Transition
  BY <1>1, <1>2 DEF Recommendation, Transition, Change, TerminalStatuses, Changers
<1>5. TypeOK'
  <2>1. recommendation' \in [Recommendations -> Recommendation]
    BY <1>2, <1>4 DEF RecoveryInvariant, TypeOK, LandTerminalChange, TerminalRecommendation
  <2>2. transitions' \in SUBSET Transition /\ contracts' \in SUBSET Contract
    BY <1>2, <1>3, <1>4 DEF RecoveryInvariant, TypeOK, Contract
  <2>3. claims' \in [Recommendations -> Changers \cup {None}]
    BY <1>2 DEF RecoveryInvariant, TypeOK, LandTerminalChange
  <2>4. pc' \in [Requests -> {"idle", "check", "commit", "conflict", "done"}] /\ told' \in [Requests -> Answers]
    BY <1>2 DEF RecoveryInvariant, TypeOK, Answer, Answers
  <2> QED
    BY <1>3, <2>1, <2>2, <2>3, <2>4 DEF RecoveryInvariant, TypeOK
<1>6. TerminalRecordsAgree'
  <2>1. SUFFICES ASSUME NEW s \in Recommendations
                 PROVE  (IF claims[s] = None
                         THEN recommendation[s].status = "open" /\ \A t \in transitions : t.rec # s
                         ELSE /\ \E t \in transitions : t.rec = s /\ t.id = claims[s] /\ IsCurrent(t)
                              /\ \A t, u \in transitions : t.rec = s /\ u.rec = s => t = u)'
    BY DEF TerminalRecordsAgree
  <2>2. CASE s = r
    <3>1. landed \in transitions' /\ landed.rec = s /\ landed.id = claims'[s]
      BY <1>3, <2>2
    <3>2. recommendation'[landed.rec] = [status |-> landed.next, by |-> landed.id, supersededBy |-> landed.supersededBy]
      BY <1>2, <1>3, <2>2
    <3>3. \A t, u \in transitions' : t.rec = s /\ u.rec = s => t = u
      BY <1>1, <1>3, <2>2
    <3> QED
      BY <1>2, <1>3, <2>2, <3>1, <3>2, <3>3 DEF IsCurrent
  <2>3. CASE s # r
    <3>1. recommendation'[s] = recommendation[s] /\ claims'[s] = claims[s]
      BY <1>3, <2>3
    <3>2. \A t \in transitions' : t.rec = s => t \in transitions
      BY <1>3, <2>3
    <3>3. CASE claims[s] = None
      BY <3>1, <3>2, <3>3 DEF RecoveryInvariant, TerminalRecordsAgree
    <3>4. CASE claims[s] # None
      <4>1. PICK t \in transitions : t.rec = s /\ t.id = claims[s] /\ IsCurrent(t)
        BY <3>4 DEF RecoveryInvariant, TerminalRecordsAgree
      <4>2. \A t1, t2 \in transitions' : t1.rec = s /\ t2.rec = s => t1 = t2
        BY <3>2, <3>4 DEF RecoveryInvariant, TerminalRecordsAgree
      <4>3. t \in transitions' /\ IsCurrent(t)'
        BY <1>3, <3>1, <4>1 DEF IsCurrent
      <4> QED
        BY <3>1, <3>4, <4>1, <4>2, <4>3
    <3> QED
      BY <3>3, <3>4
  <2> QED
    BY <2>2, <2>3
<1>7. FollowUpSupersedes'
  <2>1. \A c \in contracts' :
          recommendation'[c.rec] = [status |-> "superseded", by |-> c.id, supersededBy |-> c.id]
    <3>1. SUFFICES ASSUME NEW c \in contracts'
                   PROVE  recommendation'[c.rec] = [status |-> "superseded", by |-> c.id, supersededBy |-> c.id]
      OBVIOUS
    <3>2. CASE c \in contracts
      <4>1. c.rec \in Recommendations /\ c.rec # r
        BY <1>1, <3>2 DEF RecoveryInvariant, TypeOK, Contract
      <4> QED
        BY <1>3, <3>2, <4>1 DEF RecoveryInvariant, FollowUpSupersedes
    <3>3. CASE q \in Proposals /\ c = [id |-> q, rec |-> r]
      BY <1>1, <1>2, <1>3, <3>3
    <3> QED
      BY <1>3, <3>2, <3>3
  <2>2. \A s \in Recommendations : recommendation'[s].status = "superseded" =>
          /\ [id |-> recommendation'[s].supersededBy, rec |-> s] \in contracts'
          /\ recommendation'[s].by = recommendation'[s].supersededBy
    BY <1>1, <1>2, <1>3 DEF RecoveryInvariant, FollowUpSupersedes
  <2> QED
    BY <2>1, <2>2 DEF FollowUpSupersedes
<1>8. ConflictsLeaveAGap'
  <2>1. SUFFICES ASSUME NEW p \in Changers
                 PROVE  (/\ told[p] = "recovery_terminal_conflict" => gaps[p] # None
                         /\ gaps[p] # None =>
                              /\ claims[gaps[p].rec] \notin {None, p}
                              /\ \A t \in transitions : t.id # p
                              /\ \A c \in contracts : c.id # p)'
    BY DEF ConflictsLeaveAGap
  <2>2. CASE p = q
    BY <1>1, <1>3, <2>2
  <2>3. CASE p # q
    <3>1. gaps[p] # None => gaps[p].rec \in Recommendations /\ gaps[p].rec # r
      BY <1>2 DEF RecoveryInvariant, TypeOK, Gap, ConflictsLeaveAGap
    <3> QED
      BY <1>2, <1>3, <2>3, <3>1 DEF RecoveryInvariant, ConflictsLeaveAGap, Requests
  <2> QED
    BY <2>2, <2>3
<1>9. GapsResolvedByTheWinner'
  <2>1. \A p \in Changers : gaps[p] # None => gaps[p].rec \in Recommendations /\ gaps[p].rec # r
    BY <1>2 DEF RecoveryInvariant, TypeOK, Gap, ConflictsLeaveAGap
  <2> QED
    BY <1>3, <2>1 DEF RecoveryInvariant, GapsResolvedByTheWinner
<1>10. MarksOfTheDone'
  BY <1>2, <1>3 DEF RecoveryInvariant, MarksOfTheDone, TypeOK, Transition, Contract, Requests, Changers
<1>11. ChangesAreGrounded'
  BY <1>2, <1>3 DEF RecoveryInvariant, ChangesAreGrounded, SupersedingContractFits, Change, Requests, Changers
<1>12. ResolutionsAreGrounded'
  <2>1. \A p \in Resolutions : view[p] # None =>
          gaps[view[p].gap] # None /\ gaps[view[p].gap].rec = view[p].seen.rec
    BY DEF RecoveryInvariant, ResolutionsAreGrounded
  <2>2. \A p \in Resolutions : pc[p] = "commit" => view[p].seen.rec \in Recommendations
    BY DEF RecoveryInvariant, ResolutionsAreGrounded, Resolution, Gap
  <2>3. \A p \in Resolutions : pc[p] = "commit" => view[p].seen.rec # r
    <3>1. SUFFICES ASSUME NEW p \in Resolutions, pc[p] = "commit" PROVE view[p].seen.rec # r
      OBVIOUS
    <3>2. view[p] \in Resolution /\ claims[view[p].seen.rec] = view[p].transition
      BY <3>1 DEF RecoveryInvariant, ResolutionsAreGrounded
    <3> QED
      BY <1>2, <3>2, RecoveryConstants DEF Resolution
  <2> QED
    BY <1>2, <1>3, <2>2, <2>3 DEF RecoveryInvariant, ResolutionsAreGrounded, Requests
<1> QED
  BY <1>5, <1>6, <1>7, <1>8, <1>9, <1>10, <1>11, <1>12 DEF RecoveryInvariant
\* The claim is taken: whoever holds it is done, so it is another request.
LEMMA TerminalConflictKeeps ==
  ASSUME RecoveryInvariant, NEW q \in Changers, TerminalConflict(q)
  PROVE  RecoveryInvariant'
<1> USE DEF TerminalConflict, Proceed, recordVars
<1>1. TerminalRecordsAgree' /\ FollowUpSupersedes' /\ GapsResolvedByTheWinner'
  BY RecordsKept
<1>2. /\ q \in Requests
      /\ q \notin Resolutions
      /\ \A p \in Requests : pc'[p] = IF p = q THEN "conflict" ELSE pc[p]
  BY RecoveryConstants DEF RecoveryInvariant, TypeOK, Requests
<1>3. TypeOK'
  BY <1>2 DEF RecoveryInvariant, TypeOK, Requests
<1>4. ConflictsLeaveAGap'
  BY DEF RecoveryInvariant, ConflictsLeaveAGap
<1>5. MarksOfTheDone'
  BY <1>2 DEF RecoveryInvariant, MarksOfTheDone, TypeOK, Transition, Contract, Requests, Changers
<1>6. claims[view[q].rec] \notin {None, q}
  <2>1. view[q].rec \in Recommendations
    BY DEF RecoveryInvariant, ChangesAreGrounded, Change
  <2> QED
    BY <2>1 DEF RecoveryInvariant, MarksOfTheDone, TerminalClaimFree
<1>7. ChangesAreGrounded'
  BY <1>2, <1>6 DEF RecoveryInvariant, ChangesAreGrounded, SupersedingContractFits, Requests, Changers
<1>8. ResolutionsAreGrounded'
  BY <1>2 DEF RecoveryInvariant, ResolutionsAreGrounded, Requests
<1> QED
  BY <1>1, <1>3, <1>4, <1>5, <1>7, <1>8 DEF RecoveryInvariant

\* The loser's gap is recorded, answered or not.
LEMMA RecordGapKeeps ==
  ASSUME RecoveryInvariant, NEW q \in Changers, pc[q] = "conflict", RecordGap(q),
         Answer(q, "recovery_terminal_conflict") \/ Answer(q, "failed"),
         UNCHANGED <<recommendation, transitions, contracts, claims, window, view>>
  PROVE  RecoveryInvariant'
<1> DEFINE r == view[q].rec
<1>1. /\ r \in Recommendations
      /\ claims[r] \notin {None, q}
  BY DEF RecoveryInvariant, ChangesAreGrounded, Change
<1>2. /\ gaps[q] = None
      /\ \A t \in transitions : t.id # q
      /\ \A c \in contracts : c.id # q
  BY DEF RecoveryInvariant, MarksOfTheDone
<1>3. /\ q \in Requests
      /\ q \notin Resolutions
      /\ \A p \in Requests : pc'[p] = IF p = q THEN "done" ELSE pc[p]
      /\ \A p \in Requests : p # q => told'[p] = told[p]
  BY RecoveryConstants DEF RecoveryInvariant, TypeOK, Requests, Answer
<1>4. /\ \A p \in Changers : gaps'[p] = IF p = q THEN [rec |-> r, resolvedBy |-> None] ELSE gaps[p]
      /\ gaps'[q] # None
  BY <1>1, NoneIsNull DEF RecoveryInvariant, TypeOK, RecordGap, Gap
<1>5. TypeOK'
  BY <1>1, <1>3 DEF RecoveryInvariant, TypeOK, RecordGap, Gap, Answer, Answers
<1>6. TerminalRecordsAgree'
  BY DEF RecoveryInvariant, TerminalRecordsAgree, IsCurrent
<1>7. FollowUpSupersedes'
  BY DEF RecoveryInvariant, FollowUpSupersedes
<1>8. ConflictsLeaveAGap'
  BY <1>1, <1>2, <1>3, <1>4 DEF RecoveryInvariant, ConflictsLeaveAGap, Requests
<1>9. GapsResolvedByTheWinner'
  BY <1>4 DEF RecoveryInvariant, GapsResolvedByTheWinner
<1>10. MarksOfTheDone'
  BY <1>3, <1>4 DEF RecoveryInvariant, MarksOfTheDone, TypeOK, Transition, Contract, Requests, Changers
<1>11. ChangesAreGrounded'
  BY <1>3 DEF RecoveryInvariant, ChangesAreGrounded, SupersedingContractFits, Requests, Changers
<1>12. ResolutionsAreGrounded'
  <2>1. \A p \in Resolutions : view[p] # None => view[p].gap \in Changers
    BY DEF RecoveryInvariant, TypeOK, Resolution
  <2> QED
    BY <1>2, <1>3, <1>4, <2>1 DEF RecoveryInvariant, ResolutionsAreGrounded, Requests
<1> QED
  BY <1>5, <1>6, <1>7, <1>8, <1>9, <1>10, <1>11, <1>12 DEF RecoveryInvariant

\* The first read of a resolution.
LEMMA LoadGapKeeps ==
  ASSUME RecoveryInvariant, NEW q \in Resolutions, StartResolution(q)
  PROVE  RecoveryInvariant'
<1> USE DEF LoadGap, Proceed, recordVars
<1>1. PICK g \in Changers, t \in transitions : LoadGap(q, g, t.id)
  BY DEF StartResolution
<1> DEFINE resolution == [gap |-> g, transition |-> t.id, seen |-> gaps[g]]
<1>2. resolution \in Resolution
  BY <1>1 DEF RecoveryInvariant, TypeOK, Transition, Resolution
<1>3. /\ q \in Requests
      /\ q \notin Changers
      /\ \A p \in Requests : pc'[p] = IF p = q THEN "check" ELSE pc[p]
      /\ \A p \in Requests : view'[p] = IF p = q THEN resolution ELSE view[p]
  BY <1>1, RecoveryConstants DEF RecoveryInvariant, TypeOK, Requests
<1>4. TerminalRecordsAgree' /\ FollowUpSupersedes' /\ GapsResolvedByTheWinner'
  BY <1>1, RecordsKept
<1>5. TypeOK'
  BY <1>1, <1>2, <1>3 DEF RecoveryInvariant, TypeOK, Requests
<1>6. ConflictsLeaveAGap'
  BY <1>1 DEF RecoveryInvariant, ConflictsLeaveAGap
<1>7. MarksOfTheDone'
  BY <1>1, <1>3 DEF RecoveryInvariant, MarksOfTheDone, TypeOK, Transition, Contract, Requests, Changers
<1>8. ChangesAreGrounded'
  BY <1>1, <1>3 DEF RecoveryInvariant, ChangesAreGrounded, SupersedingContractFits, Requests, Changers
<1>9. ResolutionsAreGrounded'
  BY <1>1, <1>2, <1>3 DEF RecoveryInvariant, ResolutionsAreGrounded, Requests
<1> QED
  BY <1>4, <1>5, <1>6, <1>7, <1>8, <1>9 DEF RecoveryInvariant

\* The transition a resolution finds current is the one that has the claim.
LEMMA CheckedResolutionKeeps ==
  ASSUME RecoveryInvariant, NEW q \in Resolutions, pc[q] = "check", ResolutionAllowed(q),
         Proceed(q, "commit"), UNCHANGED <<recordVars, window, view>>
  PROVE  RecoveryInvariant'
<1> USE DEF Proceed, recordVars
<1>1. claims[view[q].seen.rec] = view[q].transition
  <2>1. PICK t \in transitions : t.id = view[q].transition /\ t.rec = view[q].seen.rec
    BY DEF ResolutionAllowed
  <2>2. t.rec \in Recommendations
    BY DEF RecoveryInvariant, TypeOK, Transition
  <2> QED
    BY <2>1, <2>2 DEF RecoveryInvariant, TerminalRecordsAgree
<1>2. /\ q \in Requests
      /\ q \notin Changers
      /\ \A p \in Requests : pc'[p] = IF p = q THEN "commit" ELSE pc[p]
  BY RecoveryConstants DEF RecoveryInvariant, TypeOK, Requests
<1>3. TerminalRecordsAgree' /\ FollowUpSupersedes' /\ GapsResolvedByTheWinner'
  BY RecordsKept
<1>4. TypeOK'
  BY <1>2 DEF RecoveryInvariant, TypeOK, Requests
<1>5. ConflictsLeaveAGap'
  BY DEF RecoveryInvariant, ConflictsLeaveAGap
<1>6. MarksOfTheDone'
  BY <1>2 DEF RecoveryInvariant, MarksOfTheDone, TypeOK, Transition, Contract, Requests, Changers
<1>7. ChangesAreGrounded'
  BY <1>2 DEF RecoveryInvariant, ChangesAreGrounded, SupersedingContractFits, Requests, Changers
<1>8. ResolutionsAreGrounded'
  BY <1>1, <1>2 DEF RecoveryInvariant, ResolutionsAreGrounded, Requests
<1> QED
  BY <1>3, <1>4, <1>5, <1>6, <1>7, <1>8 DEF RecoveryInvariant

\* A resolution lands, answered or not: over the same gap, which it may find
\* resolved by another.
LEMMA ResolutionLandsKeeps ==
  ASSUME RecoveryInvariant, NEW q \in Resolutions, pc[q] = "commit", LandResolution(q),
         Answer(q, "committed") \/ Answer(q, "failed"), UNCHANGED <<window, view>>
  PROVE  RecoveryInvariant'
<1> DEFINE g == view[q].gap
<1> DEFINE resolved == [view[q].seen EXCEPT !.resolvedBy = view[q].transition]
<1>1. /\ view[q] \in Resolution
      /\ view[q] # None
      /\ gaps[g] # None
      /\ gaps[g].rec = view[q].seen.rec
      /\ claims[view[q].seen.rec] = view[q].transition
  BY NoneIsNull DEF RecoveryInvariant, ResolutionsAreGrounded
<1>2. /\ g \in Changers
      /\ resolved \in Gap
      /\ resolved # None
      /\ resolved.rec = gaps[g].rec
      /\ claims[resolved.rec] = resolved.resolvedBy
  BY <1>1, NoneIsNull DEF Resolution, Gap
<1>3. /\ q \in Requests
      /\ q \notin Changers
      /\ \A p \in Requests : pc'[p] = IF p = q THEN "done" ELSE pc[p]
      /\ \A p \in Requests : p # q => told'[p] = told[p]
  BY RecoveryConstants DEF RecoveryInvariant, TypeOK, Requests, Answer
<1>4. /\ \A p \in Changers : gaps'[p] = IF p = g THEN resolved ELSE gaps[p]
      /\ \A p \in Changers : (gaps'[p] # None) <=> (gaps[p] # None)
      /\ \A p \in Changers : gaps[p] # None => gaps'[p].rec = gaps[p].rec
      /\ UNCHANGED <<recommendation, transitions, contracts, claims>>
  BY <1>1, <1>2 DEF RecoveryInvariant, TypeOK, LandResolution
<1>5. TypeOK'
  BY <1>2, <1>3 DEF RecoveryInvariant, TypeOK, LandResolution, Answer, Answers
<1>6. TerminalRecordsAgree'
  BY <1>4 DEF RecoveryInvariant, TerminalRecordsAgree, IsCurrent
<1>7. FollowUpSupersedes'
  BY <1>4 DEF RecoveryInvariant, FollowUpSupersedes
<1>8. ConflictsLeaveAGap'
  BY <1>3, <1>4 DEF RecoveryInvariant, ConflictsLeaveAGap, Requests
<1>9. GapsResolvedByTheWinner'
  BY <1>2, <1>4 DEF RecoveryInvariant, GapsResolvedByTheWinner
<1>10. MarksOfTheDone'
  BY <1>3, <1>4 DEF RecoveryInvariant, MarksOfTheDone, TypeOK, Transition, Contract, Requests, Changers
<1>11. ChangesAreGrounded'
  BY <1>3, <1>4 DEF RecoveryInvariant, ChangesAreGrounded, SupersedingContractFits, Requests, Changers
<1>12. ResolutionsAreGrounded'
  <2>1. \A p \in Resolutions : view[p] # None => view[p].gap \in Changers
    BY DEF RecoveryInvariant, TypeOK, Resolution
  <2> QED
    BY <1>3, <1>4, <2>1 DEF RecoveryInvariant, ResolutionsAreGrounded, Requests
<1> QED
  BY <1>5, <1>6, <1>7, <1>8, <1>9, <1>10, <1>11, <1>12 DEF RecoveryInvariant

\* A commit that fails has landed, on D1, or has written nothing.
LEMMA FailureKeeps ==
  ASSUME RecoveryInvariant, NEW q \in Requests, CommitFails(q)
  PROVE  RecoveryInvariant'
<1> USE DEF CommitFails
<1>1. CASE UNCHANGED recordVars
  BY <1>1, GivingUpKeeps
<1>2. CASE pc[q] = "commit" /\ q \in Changers /\ LandTerminalChange(q)
  BY <1>2, LandingKeeps
<1>3. CASE pc[q] = "commit" /\ q \in Resolutions /\ LandResolution(q)
  BY <1>3, ResolutionLandsKeeps
<1>4. CASE pc[q] = "conflict" /\ RecordGap(q) /\ UNCHANGED <<recommendation, transitions, contracts, claims>>
  <2>1. q \in Changers
    BY <1>4 DEF RecoveryInvariant, ResolutionsAreGrounded, Requests
  <2> QED
    BY <1>4, <2>1, RecordGapKeeps
<1> QED
  BY <1>1, <1>2, <1>3, <1>4

\* One case per action of Next.
LEMMA StepKeeps == RecoveryInvariant /\ [Next]_vars => RecoveryInvariant'
<1>1. SUFFICES ASSUME RecoveryInvariant, [Next]_vars PROVE RecoveryInvariant'
  OBVIOUS
<1>2. ASSUME NEW q \in StatusChanges, StartStatusChange(q) PROVE RecoveryInvariant'
  <2>1. PICK r \in Recommendations, next \in TerminalStatuses, c \in {d.id : d \in contracts} \cup {None} :
          LoadRecommendation(q, r, next, c)
    BY <1>2 DEF StartStatusChange
  <2>2. c \in Proposals \cup {None}
    BY <1>1 DEF RecoveryInvariant, TypeOK, Contract
  <2>3. q \in Changers /\ q \notin Proposals
    BY RecoveryConstants DEF Changers
  <2> QED
    BY <1>1, <2>1, <2>2, <2>3, LoadKeeps
<1>3. ASSUME NEW q \in Proposals, StartProposal(q) PROVE RecoveryInvariant'
  BY <1>1, <1>3, LoadKeeps DEF StartProposal, Changers, TerminalStatuses
<1>4. ASSUME NEW q \in Resolutions, StartResolution(q) PROVE RecoveryInvariant'
  BY <1>1, <1>4, LoadGapKeeps
<1>5. ASSUME NEW q \in Requests, CheckChange(q) PROVE RecoveryInvariant'
  <2>1. q \in Changers /\ pc[q] = "check" /\ UNCHANGED <<recordVars, window, view>>
    BY <1>5 DEF CheckChange
  <2>2. CASE Answer(q, "refused")
    BY <1>1, <2>1, <2>2, GivingUpKeeps
  <2>3. CASE /\ Proceed(q, "commit")
             /\ IF q \in Proposals THEN LinkageAllowed(q) ELSE StatusChangeAllowed(q)
    BY <1>1, <2>1, <2>3, CheckedChangeKeeps
  <2> QED
    BY <1>5, <2>2, <2>3 DEF CheckChange
<1>6. ASSUME NEW q \in Requests, CommitChange(q) PROVE RecoveryInvariant'
  BY <1>1, <1>6, LandingKeeps DEF CommitChange
<1>7. ASSUME NEW q \in Requests, TerminalConflict(q) PROVE RecoveryInvariant'
  BY <1>1, <1>7, TerminalConflictKeeps DEF TerminalConflict
<1>8. ASSUME NEW q \in Requests, RecordTerminalConflict(q) PROVE RecoveryInvariant'
  <2>1. q \in Changers
    BY <1>1, <1>8 DEF RecordTerminalConflict, RecoveryInvariant, ResolutionsAreGrounded, Requests
  <2> QED
    BY <1>1, <1>8, <2>1, RecordGapKeeps DEF RecordTerminalConflict
<1>9. ASSUME NEW q \in Requests, CheckResolution(q) PROVE RecoveryInvariant'
  <2>1. q \in Resolutions /\ pc[q] = "check" /\ UNCHANGED <<recordVars, window, view>>
    BY <1>9 DEF CheckResolution
  <2>2. CASE ResolutionAllowed(q)
    BY <1>1, <1>9, <2>1, <2>2, CheckedResolutionKeeps DEF CheckResolution
  <2>3. CASE ~ResolutionAllowed(q)
    BY <1>1, <1>9, <2>1, <2>3, GivingUpKeeps DEF CheckResolution
  <2> QED
    BY <2>2, <2>3
<1>10. ASSUME NEW q \in Requests, CommitResolution(q) PROVE RecoveryInvariant'
  BY <1>1, <1>10, ResolutionLandsKeeps DEF CommitResolution
<1>11. ASSUME NEW q \in Requests, CommitFails(q) PROVE RecoveryInvariant'
  BY <1>1, <1>11, FailureKeeps
<1>12. ASSUME NEW r \in Recommendations, TimePasses(r) PROVE RecoveryInvariant'
  BY <1>1, <1>12, TimeKeeps
<1>13. CASE UNCHANGED vars
  <2>1. TerminalRecordsAgree' /\ FollowUpSupersedes' /\ GapsResolvedByTheWinner'
    BY <1>1, <1>13, RecordsKept DEF vars
  <2>2. TypeOK'
    BY <1>1, <1>13 DEF vars, recordVars, RecoveryInvariant, TypeOK
  <2>3. ConflictsLeaveAGap' /\ MarksOfTheDone'
    BY <1>1, <1>13 DEF vars, recordVars, RecoveryInvariant, ConflictsLeaveAGap, MarksOfTheDone
  <2>4. ChangesAreGrounded' /\ ResolutionsAreGrounded'
    BY <1>1, <1>13 DEF vars, recordVars, RecoveryInvariant, ChangesAreGrounded, ResolutionsAreGrounded,
       SupersedingContractFits
  <2> QED
    BY <2>1, <2>2, <2>3, <2>4 DEF RecoveryInvariant
<1> QED
  BY <1>1, <1>2, <1>3, <1>4, <1>5, <1>6, <1>7, <1>8, <1>9, <1>10, <1>11, <1>12, <1>13 DEF Next, RequestStep

\* The whole argument: terminal status changes, linked proposals, their proof
\* gaps and the resolutions of those keep RecoveryInvariant from the first state on.
THEOREM RecoveryHolds == Spec => []RecoveryInvariant
<1> QED
  BY InitKeeps, StepKeeps, PTL DEF Spec

\* Every record the recovery handlers write has the shape of its schema.
THEOREM RecoveryTypes == Spec => []TypeOK
<1>1. RecoveryInvariant => TypeOK
  BY DEF RecoveryInvariant
<1> QED
  BY <1>1, RecoveryHolds, PTL

\* recovery_terminal_claims: the claim, the single transition and the
\* recommendation agree, although each handler read the recommendation before
\* its commit (transitionRecoveryRecommendationStatus, proposeActionContract).
THEOREM TerminalsAgree == Spec => []TerminalRecordsAgree
<1>1. RecoveryInvariant => TerminalRecordsAgree
  BY DEF RecoveryInvariant
<1> QED
  BY <1>1, RecoveryHolds, PTL

\* A linked contract exists exactly when its proposal superseded the
\* recommendation (recoveryActionLinkageRecords, assertSupersedingContract).
THEOREM FollowUpsSupersede == Spec => []FollowUpSupersedes
<1>1. RecoveryInvariant => FollowUpSupersedes
  BY DEF RecoveryInvariant
<1> QED
  BY <1>1, RecoveryHolds, PTL

\* A caller that is told recovery_terminal_conflict finds a proof gap, and
\* only losers have one (recordRecoveryTerminalConflictProofGap).
THEOREM ConflictsAreRecorded == Spec => []ConflictsLeaveAGap
<1>1. RecoveryInvariant => ConflictsLeaveAGap
  BY DEF RecoveryInvariant
<1> QED
  BY <1>1, RecoveryHolds, PTL

\* A proof gap is resolved by the transition that took the claim it is about,
\* although it is written back as it was read (resolveRecoveryTerminalConflictProofGap).
THEOREM GapsNameTheWinner == Spec => []GapsResolvedByTheWinner
<1>1. RecoveryInvariant => GapsResolvedByTheWinner
  BY DEF RecoveryInvariant
<1> QED
  BY <1>1, RecoveryHolds, PTL

\* A recommendation that is closed is never written again: of the steps that
\* write one, each takes its claim, which a closed one has granted.
THEOREM StatusIsFinal == Spec => TerminalStatusIsFinal
<1> DEFINE Final == \A r \in Recommendations :
                      recommendation[r].status # "open" => recommendation'[r] = recommendation[r]
<1>1. RecoveryInvariant /\ [Next]_vars => [Final]_vars
  <2>1. SUFFICES ASSUME RecoveryInvariant, [Next]_vars PROVE Final
    OBVIOUS
  <2>2. ASSUME NEW q \in Changers, LandTerminalChange(q) PROVE Final
    BY <2>1, <2>2 DEF RecoveryInvariant, TerminalRecordsAgree, TypeOK, LandTerminalChange, TerminalClaimFree
  <2>3. CASE UNCHANGED recommendation
    BY <2>3
  <2>4. CASE \E q \in Changers : LandTerminalChange(q)
    BY <2>2, <2>4
  <2>5. UNCHANGED recommendation \/ \E q \in Changers : LandTerminalChange(q)
    BY <2>1 DEF Next, RequestStep, StartStatusChange, StartProposal, StartResolution, LoadRecommendation, LoadGap,
       CheckChange, CommitChange, TerminalConflict, RecordTerminalConflict, CheckResolution, CommitResolution,
       LandResolution, CommitFails, TimePasses, recordVars, vars
  <2> QED
    BY <2>3, <2>4, <2>5
<1>2. Spec => [][Final]_vars
  BY <1>1, RecoveryHolds, PTL DEF Spec
<1> QED
  BY <1>2 DEF TerminalStatusIsFinal
=============================================================================
