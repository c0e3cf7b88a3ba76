--------------------------- MODULE SessionReducer ---------------------------
(***************************************************************************)
(* The pure session reducer of poche-session: authorize, decide and apply  *)
(* as operators of a state record (struct SessionState, state.rs) and of   *)
(* the command.  Nothing here is a variable: Session runs the reducer on   *)
(* its own, Authority runs it behind a transport, a clock and a journal.   *)
(*                                                                         *)
(* decide_X(s, ...) is the SET of event batches the code may return for    *)
(* the command in state s: empty when the code denies, a singleton when it *)
(* accepts, larger only where the game chooses.  Every batch the code      *)
(* builds is an optional CountdownCancelled, an optional                   *)
(* HandCapabilitiesExpired and one main event, in that order.              *)
(*                                                                         *)
(* Abstractions.  A command that the reducer accepts is named by the       *)
(* revision it was accepted at, which is injective because apply advances  *)
(* the revision on every event.  Chat text, cards, scores and hashes are   *)
(* left out; of public_history only the number of RoundScored entries is   *)
(* kept.  The game is its turn and its round (trait SessionGame).          *)
(***************************************************************************)
EXTENDS Integers, FiniteSets, SessionGame

CONSTANTS
    Principals,         \* stable application principals
    authority_clock,    \* SessionState.authority_clock
    game_environment,   \* SessionState.game_environment
    NoPrincipal,        \* None of Option<PrincipalId>
    MAX_HAND,           \* MAX_HAND_REQUESTS = MAX_HAND_GRANTS
    CHAT_MESSAGES_PER_WINDOW,
    CHAT_WINDOW_REVISIONS,
    MaxRevision,        \* u64::MAX in the code: checked_add fails beyond it
    Tokens,             \* countdown tokens, by rank in their string order
    Ticks,              \* logical deadlines
    Invites,            \* genesis invites, by verifier
    InviteRecord,       \* their immutable fields, a function of Invites
    Policies            \* genesis PolicyRules

AllPrincipals == Principals \cup {authority_clock, game_environment}
NoSeat == -1
NoToken == -1
NoTick == -1
MIN_PLAYERS == 2

Kinds == {"Unknown", "Host", "Player", "Spectator", "DisconnectedMember",
          "AuthorityClock", "GameEnvironment"}

SeatedCommands == {"ReleaseSeat", "Ready", "Unready", "AbortCountdown",
                   "Pause", "Unpause", "GameAction"}
MemberCommands == {"TakeSeat", "Chat", "Leave"}
HandOwnerCommands == {"GrantHand", "DenyHand", "RevokeHand"}
HostCommands == {"ArmCountdown", "RemoveMember", "ResetLobby", "CloseRoom"}
EnvironmentCommands == {"ApplyChance", "Settle"}
Commands == SeatedCommands \cup MemberCommands \cup HandOwnerCommands
            \cup HostCommands \cup EnvironmentCommands
            \cup {"CreateRoom", "RedeemInvite", "CountdownExpired",
                  "Reconnect", "RequestHand"}

(* A policy selects principals exactly or by derived kind.                 *)
PolicyRules ==
    [principal : AllPrincipals \cup Kinds, command : Commands,
     allow : BOOLEAN, audit_only : BOOLEAN]

InviteRecords ==
    [expires_after_revision : Nat, reusable : BOOLEAN, revoked : BOOLEAN]

ASSUME ReducerAssumption ==
    /\ IsFiniteSet(Principals)
    /\ NoPrincipal \notin AllPrincipals
    /\ authority_clock # game_environment
    /\ authority_clock \notin Principals
    /\ game_environment \notin Principals
    /\ AllPrincipals \cap Kinds = {}
    /\ MAX_MEMBERS \in Nat \ {0}
    /\ MAX_HAND \in Nat
    /\ CHAT_MESSAGES_PER_WINDOW \in Nat \ {0}
    /\ CHAT_WINDOW_REVISIONS \in Nat \ {0}
    /\ MaxRevision \in Nat
    /\ PLAYERS \in Nat
    /\ ROUNDS \in Nat \ {0}
    /\ Tokens \subseteq Nat
    /\ Ticks \subseteq Nat
    /\ InviteRecord \in [Invites -> InviteRecords]
    /\ Policies \subseteq PolicyRules

-----------------------------------------------------------------------------
(* State.                                                                  *)

Phases == {"Uninitialized", "Lobby", "Countdown", "Running", "Paused",
           "PostGame", "Closed"}
GamePhases == {"Running", "Paused", "PostGame"}

HandViewRequests ==
    [request_id : Nat, player : AllPrincipals, recipient : AllPrincipals]
HandViewGrants ==
    [player : AllPrincipals, recipient : AllPrincipals, grant_epoch : Nat]

(* Fields of MemberState are functions of the principal; those of a        *)
(* principal that is not a member have their default.  MemberState.host is *)
(* p = s.host: only RoomCreated sets either.                               *)
SessionStates ==
    [phase : Phases,
     token : Tokens \cup {NoToken},
     deadline_tick : Ticks \cup {NoTick},
     game : Games,
     history : 0 .. ROUNDS,
     session_epoch : 0 .. 1,
     revision : Nat,
     host : AllPrincipals \cup {NoPrincipal},
     members : SUBSET AllPrincipals,
     membership_epoch : [AllPrincipals -> 0 .. 1],
     connected : [AllPrincipals -> BOOLEAN],
     seat : [AllPrincipals -> Seats \cup {NoSeat}],
     ready : [AllPrincipals -> BOOLEAN],
     chat_start : [AllPrincipals -> Nat],
     chat_count : [AllPrincipals -> 0 .. CHAT_MESSAGES_PER_WINDOW],
     consumed : SUBSET Invites,
     projection_epoch : Nat,
     hand_requests : SUBSET HandViewRequests,
     hand_grants : SUBSET HandViewGrants]

(* SessionState::pending with the genesis invites and policies.            *)
pending ==
    [phase |-> "Uninitialized", token |-> NoToken, deadline_tick |-> NoTick,
     game |-> NoGame, history |-> 0, session_epoch |-> 0, revision |-> 0,
     host |-> NoPrincipal, members |-> {},
     membership_epoch |-> [p \in AllPrincipals |-> 0],
     connected |-> [p \in AllPrincipals |-> FALSE],
     seat |-> [p \in AllPrincipals |-> NoSeat],
     ready |-> [p \in AllPrincipals |-> FALSE],
     chat_start |-> [p \in AllPrincipals |-> 0],
     chat_count |-> [p \in AllPrincipals |-> 0],
     consumed |-> {}, projection_epoch |-> 0,
     hand_requests |-> {}, hand_grants |-> {}]

Seated(s) == {p \in s.members : s.seat[p] # NoSeat}
ActiveSeat(s, p) == p \in s.members /\ s.connected[p] /\ s.seat[p] # NoSeat

principal_kind(s, p) ==
    IF p = authority_clock THEN "AuthorityClock"
    ELSE IF p = game_environment THEN "GameEnvironment"
    ELSE IF p \notin s.members THEN "Unknown"
    ELSE IF ~s.connected[p] THEN "DisconnectedMember"
    ELSE IF p = s.host THEN "Host"
    ELSE IF s.seat[p] # NoSeat THEN "Player"
    ELSE "Spectator"

AllSeatedReady(s) ==
    /\ Cardinality(Seated(s)) >= MIN_PLAYERS
    /\ \A p \in Seated(s) : s.ready[p] /\ s.connected[p]

-----------------------------------------------------------------------------
(* SessionState::validate, one operator per error category.                *)

MembersValid(s) ==
    /\ Cardinality(s.members) <= MAX_MEMBERS
    /\ \A p \in s.members : s.membership_epoch[p] \in 1 .. s.session_epoch

ReadinessValid(s) ==
    \A p \in s.members : s.ready[p] => s.connected[p] /\ s.seat[p] # NoSeat

SeatsValid(s) ==
    \A p, q \in s.members :
        p # q /\ s.seat[p] # NoSeat => s.seat[p] # s.seat[q]

PhaseDataValid(s) ==
    /\ s.phase = "Uninitialized" =>
           s.session_epoch = 0 /\ s.host = NoPrincipal /\ s.members = {}
    /\ s.phase # "Uninitialized" => s.session_epoch # 0
    /\ s.phase = "Countdown" => AllSeatedReady(s)

HostValid(s) == s.host # NoPrincipal => s.host \in s.members

CapabilityEndpoints(s, c) ==
    /\ c.player \in s.members /\ s.seat[c.player] # NoSeat
    /\ c.recipient \in s.members /\ s.seat[c.recipient] = NoSeat

RequestsValid(s) ==
    /\ Cardinality(s.hand_requests) <= MAX_HAND
    /\ \A r \in s.hand_requests : CapabilityEndpoints(s, r)
    /\ \A r1, r2 \in s.hand_requests :
           r1.request_id = r2.request_id \/ r1.recipient = r2.recipient
               => r1 = r2

GrantsValid(s) ==
    /\ Cardinality(s.hand_grants) <= MAX_HAND
    /\ \A g \in s.hand_grants :
           CapabilityEndpoints(s, g) /\ g.grant_epoch \in 1 .. s.projection_epoch
    /\ \A g1, g2 \in s.hand_grants : g1.recipient = g2.recipient => g1 = g2

validate(s) ==
    /\ MembersValid(s) /\ ReadinessValid(s) /\ SeatsValid(s)
    /\ PhaseDataValid(s) /\ HostValid(s)
    /\ RequestsValid(s) /\ GrantsValid(s)

-----------------------------------------------------------------------------
(* authorize: structural checks, then enforced policies over the baseline. *)

(* Mutant: a closed room is left to the decisions of each command. *)
structural_decision_open(s, p, command) ==
    /\ principal_kind(s, p) = "Unknown" =>
           command \in {"CreateRoom", "RedeemInvite"}
    /\ command \in SeatedCommands /\ p \in s.members => s.seat[p] # NoSeat
    /\ p \in s.members /\ ~s.connected[p] =>
           command \in {"Reconnect", "CloseRoom"}
    /\ command = "CountdownExpired" => principal_kind(s, p) = "AuthorityClock"
    /\ command \in EnvironmentCommands =>
           principal_kind(s, p) = "GameEnvironment"

structural_decision(s, p, command) ==
    /\ s.phase # "Closed"
    /\ principal_kind(s, p) = "Unknown" =>
           command \in {"CreateRoom", "RedeemInvite"}
    /\ command \in SeatedCommands /\ p \in s.members => s.seat[p] # NoSeat
    /\ p \in s.members /\ ~s.connected[p] =>
           command \in {"Reconnect", "CloseRoom"}
    /\ command = "CountdownExpired" => principal_kind(s, p) = "AuthorityClock"
    /\ command \in EnvironmentCommands =>
           principal_kind(s, p) = "GameEnvironment"

baseline_allows(s, p, command) ==
    LET kind == principal_kind(s, p) IN
    \/ /\ command = "CreateRoom"
       /\ s.phase = "Uninitialized" /\ s.host = NoPrincipal /\ kind = "Unknown"
    \/ command = "RedeemInvite" /\ kind = "Unknown" /\ Invites # {}
    \/ command \in MemberCommands /\ kind \in {"Host", "Player", "Spectator"}
    \/ command \in SeatedCommands \cup HandOwnerCommands /\ ActiveSeat(s, p)
    \/ command \in HostCommands /\ kind = "Host"
    \/ command = "CountdownExpired" /\ kind = "AuthorityClock"
    \/ command \in EnvironmentCommands /\ kind = "GameEnvironment"
    \/ command = "Reconnect" /\ kind = "DisconnectedMember"
    \/ command = "RequestHand" /\ kind = "Spectator"

Enforced(s, p, command) ==
    {rule \in Policies : /\ ~rule.audit_only
                         /\ rule.command = command
                         /\ rule.principal \in {p, principal_kind(s, p)}}

authorize(s, p, command) ==
    /\ structural_decision(s, p, command)
    /\ \A rule \in Enforced(s, p, command) : rule.allow
    /\ baseline_allows(s, p, command) \/ Enforced(s, p, command) # {}

-----------------------------------------------------------------------------
(* OracleSessionGame::start; the transitions of a game are in SessionGame.  *)

StartAccepts(s) == {s.seat[p] : p \in Seated(s)} = 0 .. (PLAYERS - 1)
                   /\ Cardinality(Seated(s)) = PLAYERS

-----------------------------------------------------------------------------
(* decide.                                                                 *)

Batch(cancel, expire, main) ==
    [cancel |-> cancel, expire |-> expire, main |-> main]
Just(main) == Batch(FALSE, {}, main)
Accept(guard, batch) == IF guard THEN {batch} ELSE {}

cancel_countdown_first(s) == s.phase = "Countdown"

Affected(pairs, expire) ==
    {c \in pairs : c.player \in expire \/ c.recipient \in expire}

(* HandCapabilityExpiry: RoundBoundary affects every principal, the other  *)
(* reasons one.  No event is emitted when nothing is affected.             *)
expire_capabilities_for(s, expire) ==
    IF Affected(s.hand_requests, expire) # {} \/ Affected(s.hand_grants, expire) # {}
    THEN expire ELSE {}

decide_create(s, p) ==
    Accept(s.phase = "Uninitialized" /\ s.host = NoPrincipal,
           Just([kind |-> "RoomCreated", principal |-> p]))

decide_join(s, p, invite) ==
    Accept(/\ s.phase \notin {"Uninitialized", "Closed"}
           /\ p \notin s.members
           /\ Cardinality(s.members) < MAX_MEMBERS
           /\ invite \in Invites \ s.consumed
           /\ ~InviteRecord[invite].revoked
           /\ s.revision <= InviteRecord[invite].expires_after_revision,
           Just([kind |-> "MemberJoined", principal |-> p, invite |-> invite]))

decide_take_seat(s, p, seat) ==
    Accept(/\ s.phase = "Lobby"
           /\ seat \in Seats
           /\ p \in s.members /\ s.connected[p] /\ s.seat[p] = NoSeat
           /\ \A q \in s.members : s.seat[q] # seat,
           Batch(FALSE, expire_capabilities_for(s, {p}),
                 [kind |-> "SeatTaken", principal |-> p, seat |-> seat]))

decide_release_seat(s, p) ==
    Accept(/\ s.phase \in {"Lobby", "Countdown"}
           /\ p \in s.members /\ s.seat[p] # NoSeat,
           Batch(cancel_countdown_first(s), expire_capabilities_for(s, {p}),
                 [kind |-> "SeatReleased", principal |-> p, seat |-> s.seat[p]]))

decide_ready(s, p, ready) ==
    Accept(/\ s.phase = "Lobby" \/ (~ready /\ s.phase = "Countdown")
           /\ p \in s.members /\ s.seat[p] # NoSeat
           /\ ready => s.connected[p],
           Batch(~ready /\ cancel_countdown_first(s), {},
                 [kind |-> "ReadyChanged", principal |-> p, ready |-> ready]))

decide_arm_countdown(s, deadline_tick, token) ==
    Accept(s.phase = "Lobby" /\ AllSeatedReady(s),
           Just([kind |-> "CountdownArmed",
                 deadline_tick |-> deadline_tick, token |-> token]))

decide_abort_countdown(s) ==
    Accept(s.phase = "Countdown",
           Just([kind |-> "CountdownCancelled", token |-> s.token]))

(* The command passes every check of decide_countdown_expired; whether the *)
(* game then accepts the seats is StartAccepts.                            *)
ExpiryMatches(s, token) ==
    s.phase = "Countdown" /\ s.token = token /\ AllSeatedReady(s)

decide_countdown_expired(s, token) ==
    Accept(ExpiryMatches(s, token) /\ StartAccepts(s),
           Just([kind |-> "GameStarted"]))

decide_pause(s) == Accept(s.phase = "Running", Just([kind |-> "Paused"]))
decide_unpause(s) == Accept(s.phase = "Paused", Just([kind |-> "Unpaused"]))

transition_event(s, t) ==
    Batch(FALSE,
          IF t.round_scores THEN expire_capabilities_for(s, AllPrincipals) ELSE {},
          [kind |-> "GameAdvanced", transition |-> t])

(* The actor's own check; legality is the game's (player_transition).      *)
MayAct(s, p) ==
    /\ s.phase = "Running"
    /\ p \in s.members /\ s.seat[p] # NoSeat
    /\ s.game.turn = s.seat[p]

decide_game_action(s, p) ==
    {transition_event(s, t) :
        t \in IF MayAct(s, p) THEN player_transition(s.game) ELSE {}}

decide_chance(s) ==
    {transition_event(s, t) :
        t \in IF s.phase = "Running" /\ s.game.turn = Chance
              THEN chance_transition(s.game) ELSE {}}

decide_settle(s) ==
    {transition_event(s, t) :
        t \in IF s.phase = "Running" /\ s.game.turn = Environment
              THEN settle(s.game) ELSE {}}

InChatWindow(s, p) == s.revision - s.chat_start[p] < CHAT_WINDOW_REVISIONS

decide_chat(s, p) ==
    Accept(/\ s.phase \notin {"Uninitialized", "Closed"}
           /\ p \in s.members
           /\ ~(InChatWindow(s, p) /\ s.chat_count[p] >= CHAT_MESSAGES_PER_WINDOW),
           Just([kind |-> "ChatPosted", principal |-> p]))

decide_request_hand(s, p, player) ==
    Accept(/\ s.phase \in {"Running", "Paused"}
           /\ p \in s.members /\ p # s.host /\ s.seat[p] = NoSeat
           /\ ActiveSeat(s, player)
           /\ Cardinality(s.hand_requests) < MAX_HAND
           /\ \A c \in s.hand_requests \cup s.hand_grants : c.recipient # p,
           Just([kind |-> "HandViewRequested",
                 request |-> [request_id |-> s.revision, player |-> player,
                              recipient |-> p]]))

(* Mutant: any seated player may answer the request. *)
decide_grant_hand_for_other(s, p, request, grant_epoch) ==
    Accept(/\ Cardinality(s.hand_grants) < MAX_HAND
           /\ grant_epoch = s.projection_epoch + 1
           /\ request \in s.hand_requests,
           Just([kind |-> "HandViewGranted", request |-> request,
                 grant_epoch |-> grant_epoch]))

decide_grant_hand(s, p, request, grant_epoch) ==
    Accept(/\ p = request.player
           /\ Cardinality(s.hand_grants) < MAX_HAND
           /\ grant_epoch = s.projection_epoch + 1
           /\ request \in s.hand_requests
           /\ ActiveSeat(s, p)
           /\ request.recipient \in s.members
           /\ s.connected[request.recipient]
           /\ s.seat[request.recipient] = NoSeat
           /\ request.recipient # s.host,
           Just([kind |-> "HandViewGranted", request |-> request,
                 grant_epoch |-> grant_epoch]))

decide_deny_hand(s, p, request) ==
    Accept(p = request.player /\ request \in s.hand_requests,
           Just([kind |-> "HandViewDenied", request |-> request]))

decide_revoke_hand(s, p, grant) ==
    Accept(p = grant.player /\ grant \in s.hand_grants,
           Just([kind |-> "HandViewRevoked", grant |-> grant]))

decide_reconnect(s, p) ==
    Accept(p \in s.members /\ ~s.connected[p],
           Just([kind |-> "MemberReconnected", principal |-> p]))

decide_close(s) ==
    Accept(s.phase # "Closed", Just([kind |-> "RoomClosed"]))

(* Leave and remove end a membership the same way.                         *)
MembershipLost(s, p) ==
    Batch(s.seat[p] # NoSeat /\ cancel_countdown_first(s),
          expire_capabilities_for(s, {p}),
          [kind |-> "MemberGone", principal |-> p])

decide_leave(s, p) ==
    IF p \in s.members /\ p = s.host
    THEN IF s.members = {p} THEN decide_close(s) ELSE {}
    ELSE Accept(/\ p \in s.members
                /\ ~(s.seat[p] # NoSeat /\ s.phase \in GamePhases),
                MembershipLost(s, p))

decide_remove(s, p, target) ==
    Accept(/\ target \in s.members
           /\ target # s.host /\ target # p,
           MembershipLost(s, target))

decide_reset(s) == Accept(s.phase = "PostGame", Just([kind |-> "LobbyReset"]))

(* Mutant: a lost route does not cancel the countdown. *)
decide_transport_disconnect_counting(s, target) ==
    Accept(target \in s.members /\ s.connected[target],
           Just([kind |-> "MemberDisconnected", principal |-> target]))

decide_transport_disconnect(s, target) ==
    Accept(target \in s.members /\ s.connected[target],
           Batch(s.seat[target] # NoSeat /\ cancel_countdown_first(s), {},
                 [kind |-> "MemberDisconnected", principal |-> target]))

(* decide: dispatch on the payload c; decide_transport_disconnect is the    *)
(* runtime's own entry.                                                    *)
decide(s, p, c) ==
    CASE c.kind = "CreateRoom" -> decide_create(s, p)
      [] c.kind = "RedeemInvite" -> decide_join(s, p, c.invite)
      [] c.kind = "TakeSeat" -> decide_take_seat(s, p, c.seat)
      [] c.kind = "ReleaseSeat" -> decide_release_seat(s, p)
      [] c.kind = "Ready" -> decide_ready(s, p, TRUE)
      [] c.kind = "Unready" -> decide_ready(s, p, FALSE)
      [] c.kind = "ArmCountdown" ->
             decide_arm_countdown(s, c.deadline_tick, c.token)
      [] c.kind = "AbortCountdown" -> decide_abort_countdown(s)
      [] c.kind = "CountdownExpired" -> decide_countdown_expired(s, c.token)
      [] c.kind = "Pause" -> decide_pause(s)
      [] c.kind = "Unpause" -> decide_unpause(s)
      [] c.kind = "GameAction" -> decide_game_action(s, p)
      [] c.kind = "ApplyChance" -> decide_chance(s)
      [] c.kind = "Settle" -> decide_settle(s)
      [] c.kind = "Chat" -> decide_chat(s, p)
      [] c.kind = "Reconnect" -> decide_reconnect(s, p)
      [] c.kind = "Leave" -> decide_leave(s, p)
      [] c.kind = "RemoveMember" -> decide_remove(s, p, c.target)
      [] c.kind = "ResetLobby" -> decide_reset(s)
      [] c.kind = "CloseRoom" -> decide_close(s)
      [] c.kind = "RequestHand" -> decide_request_hand(s, p, c.player)
      [] c.kind = "GrantHand" ->
             decide_grant_hand(s, p, c.request, c.grant_epoch)
      [] c.kind = "DenyHand" -> decide_deny_hand(s, p, c.request)
      [] c.kind = "RevokeHand" -> decide_revoke_hand(s, p, c.grant)

(* CommandPayload: the payloads worth sending in state s.  Arguments naming *)
(* a request or a grant range over the live ones, a grant's epoch over the *)
(* current and the next.                                                   *)
PlainCommands ==
    SeatedCommands \cup EnvironmentCommands
    \cup {"CreateRoom", "Chat", "Leave", "Reconnect", "ResetLobby", "CloseRoom"}
PlainPayloads == {[kind |-> k] : k \in PlainCommands}
LobbyPayloads ==
    {[kind |-> "RedeemInvite", invite |-> i] : i \in Invites}
    \cup {[kind |-> "TakeSeat", seat |-> n] : n \in Seats}
CountdownPayloads ==
    {[kind |-> "ArmCountdown", deadline_tick |-> d, token |-> t] :
         d \in Ticks, t \in Tokens}
    \cup {[kind |-> "CountdownExpired", token |-> t] : t \in Tokens}
TargetPayloads ==
    {[kind |-> "RemoveMember", target |-> q] : q \in AllPrincipals}
    \cup {[kind |-> "RequestHand", player |-> q] : q \in AllPrincipals}
HandPayloads(s) ==
    {[kind |-> "GrantHand", request |-> r, grant_epoch |-> e] :
         r \in s.hand_requests, e \in {s.projection_epoch, s.projection_epoch + 1}}
    \cup {[kind |-> "DenyHand", request |-> r] : r \in s.hand_requests}
    \cup {[kind |-> "RevokeHand", grant |-> g] : g \in s.hand_grants}
CommandPayloads(s) ==
    PlainPayloads \cup LobbyPayloads \cup CountdownPayloads
    \cup TargetPayloads \cup HandPayloads(s)

-----------------------------------------------------------------------------
(* apply_kind: one operator per event.  Each is the state after the event; *)
(* EventAccepted says when apply_kind does not reject it.                  *)

SetPhase(s, phase) ==
    [s EXCEPT !.phase = phase, !.token = NoToken, !.deadline_tick = NoTick,
              !.game = IF phase \in GamePhases THEN s.game ELSE NoGame]

AllUnready(s) == [s EXCEPT !.ready = [p \in AllPrincipals |-> FALSE]]

AddMember(s, p) ==
    [s EXCEPT !.members = @ \cup {p}, !.membership_epoch[p] = s.session_epoch,
              !.connected[p] = TRUE, !.chat_start[p] = s.revision]

RoomCreated(s, p) ==
    AddMember([SetPhase(s, "Lobby") EXCEPT !.session_epoch = 1, !.host = p], p)

MemberJoined(s, p, invite) ==
    [AddMember(s, p) EXCEPT
        !.consumed = IF InviteRecord[invite].reusable THEN @ ELSE @ \cup {invite}]

SeatTaken(s, p, seat) == [s EXCEPT !.seat[p] = seat, !.ready[p] = FALSE]

SeatReleased(s, p) == [s EXCEPT !.seat[p] = NoSeat, !.ready[p] = FALSE]

ReadyChanged(s, p, ready) == [s EXCEPT !.ready[p] = ready]

CountdownArmed(s, deadline_tick, token) ==
    [SetPhase(s, "Countdown") EXCEPT !.token = token,
                                     !.deadline_tick = deadline_tick]

CountdownCancelled(s) == SetPhase(s, "Lobby")

(* Mutant: the history of the last game is kept. *)
GameStarted_keeping(s) ==
    [AllUnready(SetPhase(s, "Running")) EXCEPT !.game = NewGame]

GameStarted(s) ==
    [AllUnready(SetPhase(s, "Running")) EXCEPT !.game = NewGame, !.history = 0]

GameAdvanced(s, t) ==
    [SetPhase(s, IF t.terminal THEN "PostGame" ELSE "Running") EXCEPT
        !.game = t.game, !.history = IF t.round_scores THEN @ + 1 ELSE @]

MemberDisconnected(s, p) ==
    [s EXCEPT !.connected[p] = FALSE, !.ready[p] = FALSE]

MemberReconnected(s, p) == [s EXCEPT !.connected[p] = TRUE]

MemberGone(s, p) ==
    [s EXCEPT !.members = @ \ {p}, !.membership_epoch[p] = 0,
              !.connected[p] = FALSE, !.seat[p] = NoSeat, !.ready[p] = FALSE,
              !.chat_start[p] = 0, !.chat_count[p] = 0]

LobbyReset(s) == AllUnready(SetPhase(s, "Lobby"))

ChatPosted(s, p) ==
    IF InChatWindow(s, p)
    THEN [s EXCEPT !.chat_count[p] = @ + 1]
    ELSE [s EXCEPT !.chat_start[p] = s.revision, !.chat_count[p] = 1]

HandViewRequested(s, request) ==
    [s EXCEPT !.hand_requests = @ \cup {request}]

HandViewGranted(s, request, grant_epoch) ==
    [s EXCEPT !.hand_requests = @ \ {request},
              !.hand_grants = @ \cup {[player |-> request.player,
                                      recipient |-> request.recipient,
                                      grant_epoch |-> grant_epoch]},
              !.projection_epoch = grant_epoch]

HandViewDenied(s, request) == [s EXCEPT !.hand_requests = @ \ {request}]

HandViewRevoked(s, grant) ==
    [s EXCEPT !.hand_grants = @ \ {grant}, !.projection_epoch = @ + 1]

(* Mutant: expiry of a grant does not raise the epoch. *)
HandCapabilitiesExpiredQuietly(s, expire) ==
    [s EXCEPT !.hand_requests = @ \ Affected(@, expire),
              !.hand_grants = @ \ Affected(@, expire)]

HandCapabilitiesExpired(s, expire) ==
    [s EXCEPT !.hand_requests = @ \ Affected(@, expire),
              !.hand_grants = @ \ Affected(@, expire),
              !.projection_epoch =
                  IF Affected(s.hand_grants, expire) = {} THEN @ ELSE @ + 1]

RoomClosed(s) == AllUnready(SetPhase(s, "Closed"))

EventAccepted(s, e) ==
    /\ e.kind = "RoomCreated" => s.phase = "Uninitialized"
    /\ e.kind = "MemberJoined" =>
           e.invite \notin s.consumed /\ ~InviteRecord[e.invite].revoked
    /\ e.kind \in {"SeatTaken", "SeatReleased", "ReadyChanged", "ChatPosted",
                   "MemberDisconnected", "MemberReconnected", "MemberGone"}
           => e.principal \in s.members
    /\ e.kind = "SeatReleased" => s.seat[e.principal] = e.seat
    /\ e.kind = "CountdownCancelled" =>
           s.phase = "Countdown" /\ s.token = e.token
    /\ e.kind = "GameStarted" => s.phase = "Countdown"
    /\ e.kind \in {"GameAdvanced", "Paused"} => s.phase = "Running"
    /\ e.kind = "Unpaused" => s.phase = "Paused"
    /\ e.kind = "MemberGone" => e.principal # s.host
    /\ e.kind = "LobbyReset" => s.phase = "PostGame"
    /\ e.kind = "ChatPosted" =>
           ~(InChatWindow(s, e.principal)
             /\ s.chat_count[e.principal] >= CHAT_MESSAGES_PER_WINDOW)
    /\ e.kind = "HandViewRequested" => Cardinality(s.hand_requests) < MAX_HAND
    /\ e.kind = "HandViewGranted" =>
           /\ e.grant_epoch = s.projection_epoch + 1
           /\ Cardinality(s.hand_grants) < MAX_HAND
    /\ e.kind \in {"HandViewGranted", "HandViewDenied"} =>
           e.request \in s.hand_requests
    /\ e.kind = "HandViewRevoked" => e.grant \in s.hand_grants

apply_kind(s, e) ==
    CASE e.kind = "RoomCreated" -> RoomCreated(s, e.principal)
      [] e.kind = "MemberJoined" -> MemberJoined(s, e.principal, e.invite)
      [] e.kind = "SeatTaken" -> SeatTaken(s, e.principal, e.seat)
      [] e.kind = "SeatReleased" -> SeatReleased(s, e.principal)
      [] e.kind = "ReadyChanged" -> ReadyChanged(s, e.principal, e.ready)
      [] e.kind = "CountdownArmed" -> CountdownArmed(s, e.deadline_tick, e.token)
      [] e.kind = "CountdownCancelled" -> CountdownCancelled(s)
      [] e.kind = "GameStarted" -> GameStarted(s)
      [] e.kind = "GameAdvanced" -> GameAdvanced(s, e.transition)
      [] e.kind = "Paused" -> SetPhase(s, "Paused")
      [] e.kind = "Unpaused" -> SetPhase(s, "Running")
      [] e.kind = "MemberDisconnected" -> MemberDisconnected(s, e.principal)
      [] e.kind = "MemberReconnected" -> MemberReconnected(s, e.principal)
      [] e.kind = "MemberGone" -> MemberGone(s, e.principal)
      [] e.kind = "LobbyReset" -> LobbyReset(s)
      [] e.kind = "ChatPosted" -> ChatPosted(s, e.principal)
      [] e.kind = "HandViewRequested" -> HandViewRequested(s, e.request)
      [] e.kind = "HandViewGranted" ->
             HandViewGranted(s, e.request, e.grant_epoch)
      [] e.kind = "HandViewDenied" -> HandViewDenied(s, e.request)
      [] e.kind = "HandViewRevoked" -> HandViewRevoked(s, e.grant)
      [] e.kind = "HandCapabilitiesExpired" ->
             HandCapabilitiesExpired(s, e.expire)
      [] e.kind = "RoomClosed" -> RoomClosed(s)

-----------------------------------------------------------------------------
(* apply, and the batch that commit_events applies on a candidate state:   *)
(* one revision per event, each event accepted and each result valid.      *)

apply(s, e) == [apply_kind(s, e) EXCEPT !.revision = s.revision + 1]

Applies(s, e) == EventAccepted(s, e) /\ validate(apply(s, e))

CancelEvent(s) == [kind |-> "CountdownCancelled", token |-> s.token]
ExpireEvent(expire) == [kind |-> "HandCapabilitiesExpired", expire |-> expire]

AfterCancel(s, b) == IF b.cancel THEN apply(s, CancelEvent(s)) ELSE s
AfterExpiry(s, b) ==
    IF b.expire = {} THEN AfterCancel(s, b)
    ELSE apply(AfterCancel(s, b), ExpireEvent(b.expire))
AfterBatch(s, b) == apply(AfterExpiry(s, b), b.main)

BatchApplies(s, b) ==
    /\ b.cancel => Applies(s, CancelEvent(s))
    /\ b.expire # {} => Applies(AfterCancel(s, b), ExpireEvent(b.expire))
    /\ Applies(AfterExpiry(s, b), b.main)

EventCount(b) == (IF b.cancel THEN 1 ELSE 0) + (IF b.expire = {} THEN 0 ELSE 1) + 1
RevisionsLeft(s, b) == s.revision + EventCount(b) <= MaxRevision

-----------------------------------------------------------------------------
(* project_viewer: the seats whose hand the payload shows to the viewer.   *)

Viewer(s, v) == v \in s.members /\ s.connected[v]

HandsShown(s, v) ==
    IF ~Viewer(s, v) \/ s.phase \notin GamePhases THEN {}
    ELSE ({s.seat[v]} \ {NoSeat})
         \cup {s.seat[g.player] : g \in {h \in s.hand_grants : h.recipient = v}}

-----------------------------------------------------------------------------
(* What holds of every state the reducer reaches.  Beyond validate this is *)
(* that hand capabilities exist only inside a game (or in the record of a  *)
(* room closed during one), one for each recipient; that the history       *)
(* counts the rounds; that a principal without membership keeps no seat;   *)
(* that a live request is older than the revision (so a new one has a new  *)
(* identity); and that a game in progress has a round to play.             *)

OnlyInGame(s) ==
    s.hand_requests \cup s.hand_grants # {}
        => s.phase \in {"Running", "Paused", "Closed"}
OnePerRecipient(s) ==
    \A r \in s.hand_requests, g \in s.hand_grants : r.recipient # g.recipient
RoundsCounted(s) == s.phase \in GamePhases => s.history = s.game.round
NoStaleSeat(s) ==
    \A p \in AllPrincipals \ s.members : s.seat[p] = NoSeat /\ ~s.ready[p]
RequestsArePast(s) == \A r \in s.hand_requests : r.request_id < s.revision
FiniteCapabilities(s) ==
    IsFiniteSet(s.hand_requests) /\ IsFiniteSet(s.hand_grants)
RoundToPlay(s) == s.phase \in {"Running", "Paused"} => s.game.round < ROUNDS

StateInv(s) ==
    /\ s \in SessionStates
    /\ validate(s)
    /\ OnlyInGame(s) /\ OnePerRecipient(s) /\ RoundsCounted(s)
    /\ NoStaleSeat(s) /\ RequestsArePast(s) /\ FiniteCapabilities(s)
    /\ RoundToPlay(s)
=============================================================================
