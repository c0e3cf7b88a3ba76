SPECIFICATION Spec
CONSTANTS
  alice = alice  bob = bob
  Principals = {alice, bob}
  authority_clock = authority_clock
  game_environment = game_environment
  NoPrincipal = NoPrincipal
  MAX_MEMBERS = 3
  MAX_HAND = 1
  CHAT_MESSAGES_PER_WINDOW = 1
  CHAT_WINDOW_REVISIONS = 3
  MaxRevision = 20
  PLAYERS = 2
  ROUNDS = 1
  Tokens = {1}
  Ticks = {1}
  Invites <- MCInvites
  InviteRecord <- MCInviteRecord
  Policies <- NoRules
  Lobby <- LobbyWithGap
  Clients <- CountdownClients
  MaxCommands = 2
  MaxIngress = 3
  MaxRoutes = 1
  MaxFaults = 0
  MaxLosses = 0
  MaxRetries = 0
PROPERTY ExpiryStartsGame
