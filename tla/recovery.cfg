SPECIFICATION FairSpec
CONSTANTS
  r1 = r1
  r2 = r2
  p1 = p1
  p2 = p2
  s1 = s1
  v1 = v1
  v2 = v2
  None = None
  Recommendations = {r1, r2}
  Proposals = {p1, p2}
  StatusChanges = {s1}
  Resolutions = {v1, v2}
  Perishable = {r1, r2}
  Delayed = {r2}
  Store = "d1"
INVARIANTS FollowUpSupersedes ConflictsLeaveAGap GapsResolvedByTheWinner
PROPERTIES TerminalStatusIsFinal EveryRecoveryRequestIsAnswered
CHECK_DEADLOCK FALSE
