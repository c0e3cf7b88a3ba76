SPECIFICATION Spec
CONSTANTS
  alice = alice  bob = bob
  Principals = {alice, bob}
  authority_clock = authority_clock
  game_environment = game_environment
  NoPrincipal = NoPrincipal
  MAX_MEMBERS = 2
  MAX_HAND = 1
  CHAT_MESSAGES_PER_WINDOW = 1
  CHAT_WINDOW_REVISIONS = 3
  MaxRevision = 20
  PLAYERS = 2
  ROUNDS = 1
  Tokens = {1}
  Ticks = {1}
  Invites <- MCInvites
  InviteRecord <- MCInviteRecord
  Policies <- NoRules
  Lobby <- ReadyLobby
  Clients <- MembershipClients
  MaxCommands = 2
  MaxIngress = 3
  MaxRoutes = 2
  MaxFaults = 1
  MaxLosses = 1
  MaxRetries = 1
INVARIANT JournalReplays
PROPERTY RefinesSession
