SPECIFICATION MCSpec
CONSTANTS
  CHUNKS = 3
  CREDIT = 2
  EXPIRY = 0
  MaxNow = 1
  Down = Down
  Workers = {1, 2}
  Requests = {1, 2}
  Calls = {1, 2}
  RELAY_CHUNKS = 2
  REPLAY_CAPACITY = 2
  MaxCommits = 1
INVARIANTS PublishedOnceAndWhole TransferInv OneReceiptPerRequest
PROPERTIES CallsReturn AcceptedIsDelivered
CHECK_DEADLOCK FALSE
