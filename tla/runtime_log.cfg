SPECIFICATION FairSpec
CONSTANTS
  a = a  b = b  c = c
  a1 = a1  a2 = a2  c1 = c1
  Genesis = Genesis
  None = None
  Replicas = {1, 2}
  Players = {a, b, c}
  Devices = {a1}
  Keys = {1}
  Commands = {1, 2}
  Rosters <- MCRosters
  GenesisRoster <- MCGenesisRoster
  OwnerOf <- MCOwnerOf
  ValidFrom <- MCValidFrom
  RevokedFrom <- MCRevokedFrom
  SignerSets <- MCSignerSets
  BatchSizes = {1}
  MaxHeight = 2
  MaxEvents = 3
  MaxRestores = 1
INVARIANTS LogInOrder OneLedger
PROPERTY CatchesUp
CHECK_DEADLOCK FALSE
