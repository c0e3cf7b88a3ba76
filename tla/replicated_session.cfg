SPECIFICATION Spec
CONSTANTS
  None = None
  Replicas = {r1, r2}
  Players = {1, 2, 3}
  Certificates <- MCCertificates
  Revocations = {10, 11}
  Initial <- MCInitial
  Transitions <- MCTransitions
  Commands = {1}
  Rounds = {0, 1}
  Ballots <- MCBallots
  MAX_DEVICES_PER_PLAYER = 2
  MaxHeight = 2
  MaxEvents = 3
INVARIANTS ReplicaInv OneVotingDevice ActivePlayersCanVote
SYMMETRY Symmetry
CHECK_DEADLOCK FALSE
