SPECIFICATION MCSpec
CONSTANTS
  x = x  y = y
  PLAYERS = 2
  Suits = {x, y}
  Ranks = {1, 2, 3}
  MAX_HAND_SIZE = 7
  OPENING_ANTE_CENTS = 25
  MISSED_BID_PAYMENT_CENTS = 10
  Decks <- MCDecks
  NoCard = NoCard
  NoSuit = NoSuit
  Detectors = {1, 2}
  Accusations = {1}
  AuditedRounds = {1}
  MaxAttempts = 1
  MaxDisclosures = 1
INVARIANTS GameInv LegalIsAccepted WinnerIsHighest
INVARIANTS FindingsAreRevokes RevokesAreFound StrictPlayIsClean OneFindingPerAction
PROPERTIES SettlementIsExact RefinesTurnGame GameFinishes
CHECK_DEADLOCK FALSE
