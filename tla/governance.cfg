SPECIFICATION MCSpec
CONSTANTS
  a = a  b = b  c = c
  None = None
  Members = {a, b, c}
  Actions <- MCActions
  CommandIds = {1, 2, 3, 4, 5}
  Bootstrap <- MCBootstrap
  Findings <- MCFindings
  VOTE_DURATION = 1
  MaxTick = 1
  FirstStage = 3
  Causes <- MCCauses
INVARIANTS GovInv ApprovalsAreEffects EffectsAccount TargetDoesNotDecide
PROPERTIES DecisionsAreFinal RemedyFollowsAbort AbortIsFinal
CHECK_DEADLOCK FALSE
