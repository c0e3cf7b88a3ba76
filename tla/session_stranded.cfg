SPECIFICATION LobbySpec
CONSTANTS
  a = a  b = b  c = c
  Principals = {a, b, c}
  authority_clock = authority_clock
  game_environment = game_environment
  NoPrincipal = NoPrincipal
  MAX_MEMBERS = 3
  MAX_HAND = 1
  CHAT_MESSAGES_PER_WINDOW = 1
  CHAT_WINDOW_REVISIONS = 3
  MaxRevision = 16
  PLAYERS = 2
  ROUNDS = 2
  Tokens = {1}
  Ticks = {1}
  Invites <- MCInvites
  InviteRecord <- MCInviteRecord
  Policies <- NoChat
CHECK_DEADLOCK FALSE
INVARIANT GameIsNeverStranded
