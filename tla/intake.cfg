\* One program over seven kinds of block, one request of another caller on its
\* drafts, time up to the expiry of drafts and envelope, two catalog versions.
SPECIFICATION Spec
CONSTANTS
  None = None
  asked = asked
  other = other
  Programs = {p1}
  Transitions = {t1}
  Params = {asked, other}
  Versions = {1, 2}
  MaxActions = 3
  MaxTime = 2
  EnvelopeExpires = 2
  Blocks <- MCBlocks
  TransitionInputs <- MCTransitionInputs
INVARIANTS
  ContractsRestOnFinalizedDrafts
  UncoveredBlocksGetNothing
  PriorsAreTheEarlierContracts
  CallersHearOfWholeBlocks
CHECK_DEADLOCK FALSE
