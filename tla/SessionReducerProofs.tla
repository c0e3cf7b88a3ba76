------------------------ MODULE SessionReducerProofs ------------------------
(***************************************************************************)
(* Proofs about the operators of SessionReducer, for every value of the    *)
(* constants.  First what each event of apply_kind does to StateInv: one   *)
(* lemma per event, under the conditions decide established when it        *)
(* emitted that event.  Then batches and commands: whatever decide accepts *)
(* in a state that satisfies StateInv, apply and validate accept, and      *)
(* StateInv holds again (DecideGood, DisconnectGood).  SessionProofs and   *)
(* AuthorityProofs run the reducer.                                        *)
(***************************************************************************)
EXTENDS SessionReducer, FiniteSetTheorems, TLAPS

(* What validate checks depends on a state's fields only, so advancing the *)
(* revision, which apply does after every event, keeps the invariant.      *)
LEMMA RevisionAdvances ==
    ASSUME NEW t, StateInv(t), NEW n \in Nat, t.revision <= n
    PROVE  StateInv([t EXCEPT !.revision = n])
<1> DEFINE u == [t EXCEPT !.revision = n]
<1>1. u \in SessionStates
  BY DEF StateInv, SessionStates
<1>2. /\ u.phase = t.phase /\ u.token = t.token /\ u.game = t.game
      /\ u.history = t.history /\ u.session_epoch = t.session_epoch
      /\ u.host = t.host /\ u.members = t.members
      /\ u.membership_epoch = t.membership_epoch
      /\ u.connected = t.connected /\ u.seat = t.seat /\ u.ready = t.ready
      /\ u.projection_epoch = t.projection_epoch
      /\ u.hand_requests = t.hand_requests /\ u.hand_grants = t.hand_grants
      /\ u.revision = n
  BY DEF StateInv, SessionStates
<1>3. t.revision \in Nat /\ \A r \in t.hand_requests : r.request_id \in Nat
  BY DEF StateInv, SessionStates, HandViewRequests
<1> HIDE DEF u
<1>4. Seated(u) = Seated(t)
  BY <1>2 DEF Seated
<1>5. validate(u)
  BY <1>2, <1>4 DEF StateInv, validate, MembersValid, ReadinessValid,
     SeatsValid, PhaseDataValid, HostValid, RequestsValid, GrantsValid,
     CapabilityEndpoints, AllSeatedReady
<1>6. RequestsArePast(u)
  BY <1>2, <1>3 DEF StateInv, RequestsArePast
<1>7. /\ OnlyInGame(u) /\ OnePerRecipient(u) /\ RoundsCounted(u)
      /\ NoStaleSeat(u) /\ FiniteCapabilities(u) /\ RoundToPlay(u)
  BY <1>2 DEF StateInv, OnlyInGame, OnePerRecipient, RoundsCounted,
     NoStaleSeat, FiniteCapabilities, RoundToPlay
<1> QED
  BY <1>1, <1>5, <1>6, <1>7 DEF StateInv, u

-----------------------------------------------------------------------------
(* Events that change the phase and what a phase carries.                  *)

SameRoom(u, s) ==
    /\ u.session_epoch = s.session_epoch /\ u.host = s.host
    /\ u.members = s.members /\ u.membership_epoch = s.membership_epoch
    /\ u.connected = s.connected /\ u.seat = s.seat
    /\ u.projection_epoch = s.projection_epoch
    /\ u.hand_requests = s.hand_requests /\ u.hand_grants = s.hand_grants
    /\ u.revision = s.revision

NoneReady == [p \in AllPrincipals |-> FALSE]

(* The two games a phase change writes are games.                          *)
LEMMA GameTypes ==
    NoGame \in Games /\ NewGame \in Games /\ 0 \in 0 .. ROUNDS
BY ReducerAssumption
   DEF ReducerAssumption, NoGame, NewGame, Games, Turns, Chance, Environment,
       Finished

(* SetPhase changes the phase and what the phase carries, nothing else.    *)
LEMMA SetPhaseFields ==
    ASSUME NEW s \in SessionStates, NEW phase \in Phases
    PROVE  LET t == SetPhase(s, phase) IN
           /\ t \in SessionStates /\ SameRoom(t, s)
           /\ t.phase = phase /\ t.ready = s.ready /\ t.history = s.history
           /\ phase \in GamePhases => t.game = s.game
BY GameTypes DEF SetPhase, SessionStates, SameRoom

(* AllUnready clears readiness and nothing else.                           *)
LEMMA AllUnreadyFields ==
    ASSUME NEW s \in SessionStates
    PROVE  LET t == AllUnready(s) IN
           /\ t \in SessionStates /\ SameRoom(t, s)
           /\ t.phase = s.phase /\ t.ready = NoneReady
           /\ t.history = s.history /\ t.game = s.game
BY DEF AllUnready, SessionStates, SameRoom, NoneReady

(* A phase change keeps the invariant when the new phase may hold the      *)
(* capabilities there are, and carries a game at the round the history has.*)
LEMMA PhaseEvent ==
    ASSUME NEW s, StateInv(s), NEW u \in SessionStates, SameRoom(u, s),
           s.phase # "Uninitialized", u.phase # "Uninitialized",
           u.ready = s.ready \/ u.ready = NoneReady,
           u.phase = "Countdown" => AllSeatedReady(u),
           OnlyInGame(u), RoundsCounted(u), RoundToPlay(u)
    PROVE  StateInv(u)
<1>0. s \in SessionStates /\ s.members \subseteq AllPrincipals
  BY DEF StateInv, SessionStates
<1>1. ReadinessValid(u) /\ NoStaleSeat(u)
  BY <1>0 DEF StateInv, validate, ReadinessValid, NoStaleSeat, SameRoom,
     NoneReady
<1>2. MembersValid(u) /\ SeatsValid(u) /\ HostValid(u)
  BY DEF StateInv, validate, MembersValid, SeatsValid, HostValid, SameRoom
<1>3. PhaseDataValid(u)
  BY DEF StateInv, validate, PhaseDataValid, SameRoom
<1>4. RequestsValid(u) /\ GrantsValid(u)
  BY DEF StateInv, validate, RequestsValid, GrantsValid, CapabilityEndpoints,
     SameRoom
<1>5. OnePerRecipient(u) /\ RequestsArePast(u) /\ FiniteCapabilities(u)
  BY DEF StateInv, OnePerRecipient, RequestsArePast, FiniteCapabilities,
     SameRoom
<1> QED
  BY <1>1, <1>2, <1>3, <1>4, <1>5 DEF StateInv, validate

(* CountdownArmed needs the readiness that decide_arm_countdown checked.   *)
LEMMA ArmedKeeps ==
    ASSUME NEW s, StateInv(s), NEW d \in Ticks, NEW t \in Tokens,
           s.phase = "Lobby", AllSeatedReady(s)
    PROVE  StateInv(CountdownArmed(s, d, t))
<1> DEFINE v == SetPhase(s, "Countdown")
           u == [v EXCEPT !.token = t, !.deadline_tick = d]
<1>0. s \in SessionStates
  BY DEF StateInv
<1>1. /\ v \in SessionStates /\ SameRoom(v, s)
      /\ v.phase = "Countdown" /\ v.ready = s.ready
  BY <1>0, SetPhaseFields DEF Phases
<1> HIDE DEF v
<1>2. /\ u \in SessionStates /\ SameRoom(u, s)
      /\ u.phase = "Countdown" /\ u.ready = s.ready
  BY <1>1 DEF SessionStates, SameRoom
<1>3. u = CountdownArmed(s, d, t)
  BY DEF CountdownArmed, v
<1> HIDE DEF u
<1>4. AllSeatedReady(u) /\ OnlyInGame(u) /\ RoundsCounted(u) /\ RoundToPlay(u)
  BY <1>2 DEF StateInv, AllSeatedReady, Seated, OnlyInGame, RoundsCounted,
     RoundToPlay, GamePhases, SameRoom
<1> QED
  BY <1>2, <1>3, <1>4, PhaseEvent

(* Cancelling returns to the lobby; a countdown holds no capabilities.     *)
LEMMA CancelledKeeps ==
    ASSUME NEW s, StateInv(s), s.phase = "Countdown"
    PROVE  StateInv(CountdownCancelled(s))
<1> DEFINE u == SetPhase(s, "Lobby")
<1>0. s \in SessionStates
  BY DEF StateInv
<1>1. /\ u \in SessionStates /\ SameRoom(u, s)
      /\ u.phase = "Lobby" /\ u.ready = s.ready
  BY <1>0, SetPhaseFields DEF Phases
<1> HIDE DEF u
<1>2. OnlyInGame(u) /\ RoundsCounted(u) /\ RoundToPlay(u)
  BY <1>1 DEF StateInv, OnlyInGame, RoundsCounted, RoundToPlay, GamePhases,
     SameRoom
<1>3. StateInv(u)
  BY <1>1, <1>2, PhaseEvent
<1> QED
  BY <1>3 DEF CountdownCancelled, u

(* GameStarted clears the history, so it counts the new game's rounds.     *)
LEMMA StartedKeeps ==
    ASSUME NEW s, StateInv(s), s.phase = "Countdown"
    PROVE  StateInv(GameStarted(s))
<1> DEFINE v == SetPhase(s, "Running")
           w == AllUnready(v)
           u == [w EXCEPT !.game = NewGame, !.history = 0]
<1>0. s \in SessionStates
  BY DEF StateInv
<1>1. v \in SessionStates /\ SameRoom(v, s) /\ v.phase = "Running"
  BY <1>0, SetPhaseFields DEF Phases
<1> HIDE DEF v
<1>2. /\ w \in SessionStates /\ SameRoom(w, s)
      /\ w.phase = "Running" /\ w.ready = NoneReady
  BY <1>1, AllUnreadyFields DEF SameRoom
<1> HIDE DEF w
<1>3. /\ u \in SessionStates /\ SameRoom(u, s)
      /\ u.phase = "Running" /\ u.ready = NoneReady
      /\ u.game = NewGame /\ u.history = 0
  BY <1>2, GameTypes DEF SessionStates, SameRoom
<1>4. u = GameStarted(s)
  BY DEF GameStarted, v, w
<1> HIDE DEF u
<1>5. OnlyInGame(u) /\ RoundsCounted(u) /\ RoundToPlay(u)
  BY <1>3, ReducerAssumption DEF OnlyInGame, RoundsCounted, RoundToPlay,
     NewGame, ReducerAssumption
<1> QED
  BY <1>3, <1>4, <1>5, PhaseEvent

(* What player_transition, chance_transition and settle return.            *)
GoodTransition(s, t) ==
    /\ t.game \in Games
    /\ ~t.round_scores => ~t.terminal /\ t.game.round = s.game.round
    /\ t.round_scores => /\ s.hand_requests = {} /\ s.hand_grants = {}
                         /\ t.game.round = s.game.round + 1
                         /\ t.terminal <=> t.game.round = ROUNDS

(* GameAdvanced keeps history and round in step; a scored round comes      *)
(* after the expiry of every capability.                                   *)
LEMMA AdvancedKeeps ==
    ASSUME NEW s, StateInv(s), NEW t, GoodTransition(s, t),
           t.round_scores \in BOOLEAN, t.terminal \in BOOLEAN,
           s.phase = "Running"
    PROVE  StateInv(GameAdvanced(s, t))
<1> DEFINE phase == IF t.terminal THEN "PostGame" ELSE "Running"
           v == SetPhase(s, phase)
           history == IF t.round_scores THEN v.history + 1 ELSE v.history
           u == [v EXCEPT !.game = t.game, !.history = history]
<1>0. /\ s \in SessionStates /\ phase \in Phases
      /\ s.game \in Games /\ s.history = s.game.round
      /\ s.game.round \in Nat /\ s.game.round < ROUNDS /\ ROUNDS \in Nat
  BY ReducerAssumption DEF StateInv, SessionStates, Phases, RoundsCounted,
     RoundToPlay, GamePhases, Games, ReducerAssumption
<1>1. /\ v \in SessionStates /\ SameRoom(v, s)
      /\ v.phase = phase /\ v.ready = s.ready /\ v.history = s.history
  BY <1>0, SetPhaseFields
<1> HIDE DEF v
<1>2. history = t.game.round /\ history \in 0 .. ROUNDS
  BY <1>0, <1>1 DEF GoodTransition
<1> HIDE DEF history
<1>3. /\ u \in SessionStates /\ SameRoom(u, s)
      /\ u.phase = phase /\ u.ready = s.ready
      /\ u.game = t.game /\ u.history = history
  BY <1>1, <1>2 DEF SessionStates, SameRoom, GoodTransition
<1>4. u = GameAdvanced(s, t)
  BY DEF GameAdvanced, v, history
<1> HIDE DEF u
<1>5. OnlyInGame(u) /\ RoundsCounted(u) /\ RoundToPlay(u)
  BY <1>0, <1>2, <1>3 DEF OnlyInGame, RoundsCounted, RoundToPlay,
     GoodTransition, SameRoom, Games
<1> QED
  BY <1>3, <1>4, <1>5, PhaseEvent

(* Paused and Unpaused exchange the two phases of a game in progress.      *)
LEMMA PausedKeeps ==
    ASSUME NEW s, StateInv(s), NEW phase \in {"Running", "Paused"},
           s.phase \in {"Running", "Paused"}
    PROVE  StateInv(SetPhase(s, phase))
<1> DEFINE u == SetPhase(s, phase)
<1>0. s \in SessionStates
  BY DEF StateInv
<1>1. /\ u \in SessionStates /\ SameRoom(u, s) /\ u.phase = phase
      /\ u.ready = s.ready /\ u.history = s.history /\ u.game = s.game
  BY <1>0, SetPhaseFields DEF Phases, GamePhases
<1> HIDE DEF u
<1>2. OnlyInGame(u) /\ RoundsCounted(u) /\ RoundToPlay(u)
  BY <1>1 DEF StateInv, OnlyInGame, RoundsCounted, RoundToPlay, GamePhases
<1> QED
  BY <1>1, <1>2, PhaseEvent DEF u

(* LobbyReset: PostGame holds no capabilities to carry into the lobby.     *)
LEMMA ResetKeeps ==
    ASSUME NEW s, StateInv(s), s.phase = "PostGame"
    PROVE  StateInv(LobbyReset(s))
<1> DEFINE v == SetPhase(s, "Lobby")
           u == AllUnready(v)
<1>0. s \in SessionStates
  BY DEF StateInv
<1>1. v \in SessionStates /\ SameRoom(v, s) /\ v.phase = "Lobby"
  BY <1>0, SetPhaseFields DEF Phases
<1> HIDE DEF v
<1>2. /\ u \in SessionStates /\ SameRoom(u, s) /\ u.phase = "Lobby"
      /\ u.ready = NoneReady
  BY <1>1, AllUnreadyFields DEF SameRoom
<1>3. u = LobbyReset(s)
  BY DEF LobbyReset, v
<1> HIDE DEF u
<1>4. OnlyInGame(u) /\ RoundsCounted(u) /\ RoundToPlay(u)
  BY <1>2 DEF StateInv, OnlyInGame, RoundsCounted, RoundToPlay, GamePhases,
     SameRoom
<1> QED
  BY <1>2, <1>3, <1>4, PhaseEvent

(* RoomClosed keeps the invariant of any room that was created.            *)
LEMMA ClosedKeeps ==
    ASSUME NEW s, StateInv(s), s.phase # "Uninitialized"
    PROVE  StateInv(RoomClosed(s))
<1> DEFINE v == SetPhase(s, "Closed")
           u == AllUnready(v)
<1>0. s \in SessionStates
  BY DEF StateInv
<1>1. v \in SessionStates /\ SameRoom(v, s) /\ v.phase = "Closed"
  BY <1>0, SetPhaseFields DEF Phases
<1> HIDE DEF v
<1>2. /\ u \in SessionStates /\ SameRoom(u, s) /\ u.phase = "Closed"
      /\ u.ready = NoneReady
  BY <1>1, AllUnreadyFields DEF SameRoom
<1>3. u = RoomClosed(s)
  BY DEF RoomClosed, v
<1> HIDE DEF u
<1>4. OnlyInGame(u) /\ RoundsCounted(u) /\ RoundToPlay(u)
  BY <1>2 DEF OnlyInGame, RoundsCounted, RoundToPlay, GamePhases
<1> QED
  BY <1>2, <1>3, <1>4, PhaseEvent

-----------------------------------------------------------------------------
(* Events that change one member.                                          *)

SameGame(u, s) ==
    /\ u.phase = s.phase /\ u.game = s.game /\ u.history = s.history
    /\ u.projection_epoch = s.projection_epoch
    /\ u.hand_requests = s.hand_requests /\ u.hand_grants = s.hand_grants
    /\ u.revision = s.revision

SameMembership(u, s) ==
    /\ u.session_epoch = s.session_epoch /\ u.host = s.host
    /\ u.members = s.members /\ u.membership_epoch = s.membership_epoch

(* An event about members keeps the invariant when validate's member       *)
(* checks hold again and no capability lost an endpoint.                   *)
LEMMA MemberEvent ==
    ASSUME NEW s, StateInv(s), NEW u \in SessionStates, SameGame(u, s),
           MembersValid(u), ReadinessValid(u), SeatsValid(u),
           PhaseDataValid(u), HostValid(u), NoStaleSeat(u),
           \A c \in s.hand_requests \cup s.hand_grants :
               CapabilityEndpoints(u, c)
    PROVE  StateInv(u)
<1>1. RequestsValid(u) /\ GrantsValid(u)
  BY DEF StateInv, validate, RequestsValid, GrantsValid, SameGame
<1>2. /\ OnePerRecipient(u) /\ RequestsArePast(u) /\ FiniteCapabilities(u)
      /\ OnlyInGame(u) /\ RoundsCounted(u) /\ RoundToPlay(u)
  BY DEF StateInv, OnePerRecipient, RequestsArePast, FiniteCapabilities,
     OnlyInGame, RoundsCounted, RoundToPlay, SameGame
<1> QED
  BY <1>1, <1>2 DEF StateInv, validate

(* The parts of the invariant that type the members' fields.               *)
LEMMA InvParts ==
    ASSUME NEW s, StateInv(s)
    PROVE  /\ s \in SessionStates /\ s.members \subseteq AllPrincipals
           /\ s.seat \in [AllPrincipals -> Seats \cup {NoSeat}]
           /\ s.ready \in [AllPrincipals -> BOOLEAN]
           /\ s.connected \in [AllPrincipals -> BOOLEAN]
           /\ s.membership_epoch \in [AllPrincipals -> 0 .. 1]
           /\ IsFiniteSet(s.members)
<1>1. IsFiniteSet(AllPrincipals)
  <2>1. IsFiniteSet(Principals \cup {authority_clock})
    BY ReducerAssumption, FS_AddElement DEF ReducerAssumption
  <2>2. IsFiniteSet((Principals \cup {authority_clock}) \cup {game_environment})
    BY <2>1, FS_AddElement
  <2>3. AllPrincipals
          = (Principals \cup {authority_clock}) \cup {game_environment}
    BY DEF AllPrincipals
  <2> QED
    BY <2>2, <2>3
<1> QED
  BY <1>1, FS_Subset DEF StateInv, SessionStates

(* A lobby holds no capabilities, so a seat change leaves none behind.     *)
LEMMA SeatTakenKeeps ==
    ASSUME NEW s, StateInv(s), NEW p \in s.members, NEW n \in Seats,
           s.phase = "Lobby", s.seat[p] = NoSeat,
           \A q \in s.members : s.seat[q] # n
    PROVE  StateInv(SeatTaken(s, p, n))
<1> DEFINE u == SeatTaken(s, p, n)
<1>0. s \in SessionStates /\ p \in AllPrincipals
  BY InvParts
<1>1. /\ u \in SessionStates /\ SameGame(u, s) /\ SameMembership(u, s)
      /\ u.connected = s.connected
      /\ u.seat = [s.seat EXCEPT ![p] = n]
      /\ u.ready = [s.ready EXCEPT ![p] = FALSE]
  BY <1>0 DEF SeatTaken, SessionStates, SameGame, SameMembership
<1> HIDE DEF u
<1>2. MembersValid(u) /\ HostValid(u) /\ PhaseDataValid(u)
  BY <1>1 DEF StateInv, validate, MembersValid, HostValid, PhaseDataValid,
     SameMembership, SameGame
<1>3. ReadinessValid(u) /\ SeatsValid(u) /\ NoStaleSeat(u)
  BY <1>0, <1>1, InvParts DEF StateInv, validate, ReadinessValid, SeatsValid,
     NoStaleSeat, SameMembership
<1>4. s.hand_requests \cup s.hand_grants = {}
  BY DEF StateInv, OnlyInGame
<1> QED
  BY <1>1, <1>2, <1>3, <1>4, MemberEvent DEF u

(* SeatReleased in a lobby strands no capability.                          *)
LEMMA SeatReleasedKeeps ==
    ASSUME NEW s, StateInv(s), NEW p \in s.members, s.phase = "Lobby"
    PROVE  StateInv(SeatReleased(s, p))
<1> DEFINE u == SeatReleased(s, p)
<1>0. s \in SessionStates /\ p \in AllPrincipals
  BY InvParts
<1>1. /\ u \in SessionStates /\ SameGame(u, s) /\ SameMembership(u, s)
      /\ u.connected = s.connected
      /\ u.seat = [s.seat EXCEPT ![p] = NoSeat]
      /\ u.ready = [s.ready EXCEPT ![p] = FALSE]
  BY <1>0 DEF SeatReleased, SessionStates, SameGame, SameMembership
<1> HIDE DEF u
<1>2. MembersValid(u) /\ HostValid(u) /\ PhaseDataValid(u)
  BY <1>1 DEF StateInv, validate, MembersValid, HostValid, PhaseDataValid,
     SameMembership, SameGame
<1>3. ReadinessValid(u) /\ SeatsValid(u) /\ NoStaleSeat(u)
  BY <1>0, <1>1, InvParts DEF StateInv, validate, ReadinessValid, SeatsValid,
     NoStaleSeat, SameMembership
<1>4. s.hand_requests \cup s.hand_grants = {}
  BY DEF StateInv, OnlyInGame
<1> QED
  BY <1>1, <1>2, <1>3, <1>4, MemberEvent DEF u

(* ReadyChanged in a lobby: readiness needs a connection and a seat.       *)
LEMMA ReadyKeeps ==
    ASSUME NEW s, StateInv(s), NEW p \in s.members, NEW ready \in BOOLEAN,
           s.phase = "Lobby", ready => s.connected[p] /\ s.seat[p] # NoSeat
    PROVE  StateInv(ReadyChanged(s, p, ready))
<1> DEFINE u == ReadyChanged(s, p, ready)
<1>0. s \in SessionStates /\ p \in AllPrincipals
  BY InvParts
<1>1. /\ u \in SessionStates /\ SameGame(u, s) /\ SameMembership(u, s)
      /\ u.connected = s.connected /\ u.seat = s.seat
      /\ u.ready = [s.ready EXCEPT ![p] = ready]
  BY <1>0 DEF ReadyChanged, SessionStates, SameGame, SameMembership
<1> HIDE DEF u
<1>2. /\ MembersValid(u) /\ HostValid(u) /\ PhaseDataValid(u)
      /\ SeatsValid(u)
  BY <1>1 DEF StateInv, validate, MembersValid, HostValid, PhaseDataValid,
     SeatsValid, SameMembership, SameGame
<1>3. ReadinessValid(u) /\ NoStaleSeat(u)
  BY <1>0, <1>1, InvParts DEF StateInv, validate, ReadinessValid,
     NoStaleSeat, SameMembership
<1>4. s.hand_requests \cup s.hand_grants = {}
  BY DEF StateInv, OnlyInGame
<1> QED
  BY <1>1, <1>2, <1>3, <1>4, MemberEvent DEF u

(* A countdown survives the loss of a member who holds no seat.            *)
LEMMA DisconnectedKeeps ==
    ASSUME NEW s, StateInv(s), NEW p \in s.members,
           s.phase = "Countdown" => s.seat[p] = NoSeat
    PROVE  StateInv(MemberDisconnected(s, p))
<1> DEFINE u == MemberDisconnected(s, p)
<1>0. s \in SessionStates /\ p \in AllPrincipals
  BY InvParts
<1>1. /\ u \in SessionStates /\ SameGame(u, s) /\ SameMembership(u, s)
      /\ u.connected = [s.connected EXCEPT ![p] = FALSE]
      /\ u.seat = s.seat
      /\ u.ready = [s.ready EXCEPT ![p] = FALSE]
  BY <1>0 DEF MemberDisconnected, SessionStates, SameGame,
     SameMembership
<1> HIDE DEF u
<1>2. MembersValid(u) /\ HostValid(u) /\ SeatsValid(u)
  BY <1>1 DEF StateInv, validate, MembersValid, HostValid, SeatsValid,
     SameMembership, SameGame
<1>3. ReadinessValid(u) /\ NoStaleSeat(u)
  BY <1>0, <1>1, InvParts DEF StateInv, validate, ReadinessValid,
     NoStaleSeat, SameMembership
<1>4. Seated(u) = Seated(s)
  BY <1>1 DEF Seated, SameMembership
<1>5. s.phase = "Countdown" => AllSeatedReady(u)
  BY <1>0, <1>1, <1>4, InvParts DEF StateInv, validate, PhaseDataValid,
     AllSeatedReady, Seated
<1>6. PhaseDataValid(u)
  BY <1>1, <1>5 DEF StateInv, validate, PhaseDataValid, SameGame,
     SameMembership
<1>7. \A c \in s.hand_requests \cup s.hand_grants : CapabilityEndpoints(u, c)
  BY <1>1 DEF StateInv, validate, RequestsValid, GrantsValid,
     CapabilityEndpoints, SameMembership
<1> QED
  BY <1>1, <1>2, <1>3, <1>6, <1>7, MemberEvent DEF u

(* MemberReconnected restores a connection and no readiness.               *)
LEMMA ReconnectedKeeps ==
    ASSUME NEW s, StateInv(s), NEW p \in s.members
    PROVE  StateInv(MemberReconnected(s, p))
<1> DEFINE u == MemberReconnected(s, p)
<1>0. s \in SessionStates /\ p \in AllPrincipals
  BY InvParts
<1>1. /\ u \in SessionStates /\ SameGame(u, s) /\ SameMembership(u, s)
      /\ u.connected = [s.connected EXCEPT ![p] = TRUE]
      /\ u.seat = s.seat /\ u.ready = s.ready
  BY <1>0 DEF MemberReconnected, SessionStates, SameGame,
     SameMembership
<1> HIDE DEF u
<1>2. MembersValid(u) /\ HostValid(u) /\ SeatsValid(u)
  BY <1>1 DEF StateInv, validate, MembersValid, HostValid, SeatsValid,
     SameMembership, SameGame
<1>3. ReadinessValid(u) /\ NoStaleSeat(u)
  BY <1>0, <1>1, InvParts DEF StateInv, validate, ReadinessValid,
     NoStaleSeat, SameMembership
<1>4. Seated(u) = Seated(s)
  BY <1>1 DEF Seated, SameMembership
<1>5. s.phase = "Countdown" => AllSeatedReady(u)
  BY <1>0, <1>1, <1>4, InvParts DEF StateInv, validate, PhaseDataValid,
     AllSeatedReady, Seated
<1>6. PhaseDataValid(u)
  BY <1>1, <1>5 DEF StateInv, validate, PhaseDataValid, SameGame,
     SameMembership
<1>7. \A c \in s.hand_requests \cup s.hand_grants : CapabilityEndpoints(u, c)
  BY <1>1 DEF StateInv, validate, RequestsValid, GrantsValid,
     CapabilityEndpoints, SameMembership
<1> QED
  BY <1>1, <1>2, <1>3, <1>6, <1>7, MemberEvent DEF u

(* ChatPosted keeps the quota counter in its range.                        *)
LEMMA ChatKeeps ==
    ASSUME NEW s, StateInv(s), NEW p \in s.members,
           ~(InChatWindow(s, p) /\ s.chat_count[p] >= CHAT_MESSAGES_PER_WINDOW)
    PROVE  StateInv(ChatPosted(s, p))
<1> DEFINE u == ChatPosted(s, p)
<1>0. s \in SessionStates /\ p \in AllPrincipals
  BY InvParts
<1>1. /\ u \in SessionStates /\ SameGame(u, s) /\ SameMembership(u, s)
      /\ u.connected = s.connected /\ u.seat = s.seat /\ u.ready = s.ready
  <2>1. CASE InChatWindow(s, p)
    <3>1. s.chat_count[p] + 1 \in 0 .. CHAT_MESSAGES_PER_WINDOW
      BY <2>1, <1>0, ReducerAssumption DEF SessionStates, ReducerAssumption
    <3> QED
      BY <2>1, <3>1, <1>0 DEF ChatPosted, SessionStates, SameGame,
         SameMembership
  <2>2. CASE ~InChatWindow(s, p)
    <3>1. 1 \in 0 .. CHAT_MESSAGES_PER_WINDOW
      BY ReducerAssumption DEF ReducerAssumption
    <3>2. u = [s EXCEPT !.chat_start[p] = s.revision, !.chat_count[p] = 1]
      BY <2>2 DEF ChatPosted
    <3>3. u \in SessionStates
      <4> DEFINE v == [s EXCEPT !.chat_start[p] = s.revision]
      <4>1. v \in SessionStates
        BY <1>0 DEF SessionStates
      <4> HIDE DEF v
      <4>2. [v EXCEPT !.chat_count[p] = 1] \in SessionStates
        BY <3>1, <4>1, <1>0 DEF SessionStates
      <4>3. u = [v EXCEPT !.chat_count[p] = 1]
        BY <3>2, <1>0 DEF v, SessionStates
      <4> QED
        BY <4>2, <4>3
    <3> QED
      BY <3>2, <3>3, <1>0 DEF SessionStates, SameGame, SameMembership
  <2> QED BY <2>1, <2>2
<1> HIDE DEF u
<1>2. /\ MembersValid(u) /\ HostValid(u) /\ SeatsValid(u)
      /\ ReadinessValid(u) /\ NoStaleSeat(u)
  BY <1>1 DEF StateInv, validate, MembersValid, HostValid, SeatsValid,
     ReadinessValid, NoStaleSeat, SameMembership, SameGame
<1>3. PhaseDataValid(u)
  BY <1>1 DEF StateInv, validate, PhaseDataValid, AllSeatedReady, Seated,
     SameGame, SameMembership
<1>4. \A c \in s.hand_requests \cup s.hand_grants : CapabilityEndpoints(u, c)
  BY <1>1 DEF StateInv, validate, RequestsValid, GrantsValid,
     CapabilityEndpoints, SameMembership
<1> QED
  BY <1>1, <1>2, <1>3, <1>4, MemberEvent DEF u

-----------------------------------------------------------------------------
(* Events that change the set of members.                                  *)

GoneParts(u, s, p) ==
    /\ SameGame(u, s) /\ u.session_epoch = s.session_epoch
    /\ u.host = s.host /\ u.members = s.members \ {p}
    /\ u.membership_epoch = [s.membership_epoch EXCEPT ![p] = 0]
    /\ u.connected = [s.connected EXCEPT ![p] = FALSE]
    /\ u.seat = [s.seat EXCEPT ![p] = NoSeat]
    /\ u.ready = [s.ready EXCEPT ![p] = FALSE]

(* MemberGone leaves every field in its type.                              *)
LEMMA GoneType ==
    ASSUME NEW s \in SessionStates, NEW p \in AllPrincipals
    PROVE  MemberGone(s, p) \in SessionStates
<1> DEFINE t0 == [s EXCEPT !.members = @ \ {p}]
           t1 == [t0 EXCEPT !.membership_epoch[p] = 0]
           t2 == [t1 EXCEPT !.connected[p] = FALSE, !.seat[p] = NoSeat]
           t3 == [t2 EXCEPT !.ready[p] = FALSE, !.chat_start[p] = 0]
           t4 == [t3 EXCEPT !.chat_count[p] = 0]
<1>0. t0 \in SessionStates
  <2>1. s.members \ {p} \in SUBSET AllPrincipals
    BY DEF SessionStates
  <2> QED
    BY <2>1 DEF SessionStates
<1> HIDE DEF t0
<1>1. t1 \in SessionStates
  <2>1. [t0.membership_epoch EXCEPT ![p] = 0] \in [AllPrincipals -> 0 .. 1]
    BY <1>0 DEF SessionStates
  <2> QED
    BY <1>0, <2>1 DEF SessionStates
<1> HIDE DEF t1
<1>2. t2 \in SessionStates
  BY <1>1 DEF SessionStates
<1> HIDE DEF t2
<1>3. t3 \in SessionStates
  BY <1>2 DEF SessionStates
<1> HIDE DEF t3
<1>4. t4 \in SessionStates
  <2>1. 0 \in 0 .. CHAT_MESSAGES_PER_WINDOW
    BY ReducerAssumption DEF ReducerAssumption
  <2> QED
    BY <1>3, <2>1 DEF SessionStates
<1>5. t4 = MemberGone(s, p)
  BY DEF t0, t1, t2, t3, MemberGone, SessionStates
<1> QED
  BY <1>4, <1>5

(* MemberGone resets every field of the member who left.                   *)
LEMMA GoneFields ==
    ASSUME NEW s \in SessionStates, NEW p \in AllPrincipals
    PROVE  GoneParts(MemberGone(s, p), s, p)
BY DEF GoneParts, MemberGone, SessionStates, SameGame

(* The host never goes, and a departing member's capabilities expired      *)
(* before the departure, so nothing still names who left.                  *)
LEMMA GoneKeeps ==
    ASSUME NEW s, StateInv(s), NEW p \in s.members, p # s.host,
           s.phase = "Countdown" => s.seat[p] = NoSeat,
           \A c \in s.hand_requests \cup s.hand_grants :
               c.player # p /\ c.recipient # p
    PROVE  StateInv(MemberGone(s, p))
<1> DEFINE u == MemberGone(s, p)
<1>0. s \in SessionStates /\ p \in AllPrincipals
  BY InvParts
<1>1. u \in SessionStates /\ GoneParts(u, s, p)
  BY <1>0, GoneType, GoneFields
<1> HIDE DEF u
<1>2. MembersValid(u)
  <2>1. /\ IsFiniteSet(s.members) /\ s.members \subseteq AllPrincipals
        /\ Cardinality(s.members) \in Nat
        /\ Cardinality(s.members \ {p}) = Cardinality(s.members) - 1
    BY InvParts, FS_RemoveElement, FS_CardinalityType
  <2>2. Cardinality(u.members) <= MAX_MEMBERS
    BY <2>1, <1>1, ReducerAssumption DEF StateInv, validate, MembersValid,
       GoneParts, ReducerAssumption
  <2>3. \A q \in u.members : u.membership_epoch[q] = s.membership_epoch[q]
    BY <1>0, <1>1, <2>1, InvParts DEF GoneParts
  <2> QED
    BY <1>1, <2>2, <2>3 DEF StateInv, validate, MembersValid, GoneParts
<1>3. /\ ReadinessValid(u) /\ SeatsValid(u) /\ NoStaleSeat(u)
      /\ HostValid(u)
  BY <1>0, <1>1, InvParts DEF StateInv, validate, ReadinessValid, SeatsValid,
     NoStaleSeat, HostValid, GoneParts
<1>4. s.phase = "Countdown" => AllSeatedReady(u)
  <2> SUFFICES ASSUME s.phase = "Countdown" PROVE AllSeatedReady(u)
    OBVIOUS
  <2>1. Seated(u) = Seated(s)
    BY <1>0, <1>1, InvParts DEF Seated, GoneParts
  <2>2. p \notin Seated(s) /\ Seated(s) \subseteq AllPrincipals
    BY InvParts DEF Seated
  <2> QED
    BY <1>0, <1>1, <2>1, <2>2, InvParts DEF StateInv, validate,
       PhaseDataValid, AllSeatedReady, GoneParts
<1>5. PhaseDataValid(u)
  BY <1>1, <1>4 DEF StateInv, validate, PhaseDataValid, GoneParts, SameGame
<1>6. \A c \in s.hand_requests \cup s.hand_grants : CapabilityEndpoints(u, c)
  BY <1>0, <1>1, InvParts DEF StateInv, validate, RequestsValid, GrantsValid,
     CapabilityEndpoints, GoneParts
<1> QED
  BY <1>1, <1>2, <1>3, <1>5, <1>6, MemberEvent DEF u, GoneParts

AddedParts(u, s, p) ==
    /\ SameGame(u, s) /\ u.session_epoch = s.session_epoch
    /\ u.host = s.host /\ u.members = s.members \cup {p}
    /\ u.membership_epoch = [s.membership_epoch EXCEPT ![p] = s.session_epoch]
    /\ u.connected = [s.connected EXCEPT ![p] = TRUE]
    /\ u.seat = s.seat /\ u.ready = s.ready

(* AddMember sets the new member's fields and leaves the seat alone.       *)
LEMMA AddedFields ==
    ASSUME NEW s \in SessionStates, NEW p \in AllPrincipals
    PROVE  /\ AddMember(s, p) \in SessionStates
           /\ AddedParts(AddMember(s, p), s, p)
<1>1. AddMember(s, p) \in SessionStates
  <2> DEFINE t1 == [s EXCEPT !.members = @ \cup {p},
                             !.membership_epoch[p] = s.session_epoch]
             t2 == [t1 EXCEPT !.connected[p] = TRUE,
                              !.chat_start[p] = s.revision]
  <2>1. t1 \in SessionStates /\ s.revision \in Nat
    BY DEF SessionStates
  <2> HIDE DEF t1
  <2>2. t2 \in SessionStates
    BY <2>1 DEF SessionStates
  <2>3. t2 = AddMember(s, p)
    BY DEF t1, AddMember, SessionStates
  <2> QED
    BY <2>2, <2>3
<1>2. AddedParts(AddMember(s, p), s, p)
  BY DEF AddMember, AddedParts, SessionStates, SameGame
<1> QED
  BY <1>1, <1>2

(* A new member holds no seat: NoStaleSeat is what makes the default seat  *)
(* of MemberState true of a principal who left with one before.            *)
LEMMA AddedKeeps ==
    ASSUME NEW s, StateInv(s), NEW p \in AllPrincipals, p \notin s.members,
           s.phase # "Uninitialized", Cardinality(s.members) < MAX_MEMBERS,
           NEW u \in SessionStates, AddedParts(u, s, p)
    PROVE  StateInv(u)
<1>1. MembersValid(u)
  <2>1. /\ IsFiniteSet(s.members) /\ s.members \subseteq AllPrincipals
        /\ Cardinality(s.members) \in Nat
        /\ Cardinality(s.members \cup {p}) = Cardinality(s.members) + 1
    BY InvParts, FS_AddElement, FS_CardinalityType
  <2>2. Cardinality(u.members) <= MAX_MEMBERS
    BY <2>1, ReducerAssumption DEF AddedParts, ReducerAssumption
  <2>3. s.session_epoch \in 1 .. s.session_epoch
    BY DEF StateInv, SessionStates, validate, PhaseDataValid
  <2>4. \A q \in u.members : u.membership_epoch[q]
            = IF q = p THEN s.session_epoch ELSE s.membership_epoch[q]
    BY <2>1, InvParts DEF AddedParts
  <2> QED
    BY <2>2, <2>3, <2>4 DEF StateInv, validate, MembersValid, AddedParts
<1>2. s.seat[p] = NoSeat /\ ~s.ready[p]
  BY DEF StateInv, NoStaleSeat
<1>3. /\ ReadinessValid(u) /\ SeatsValid(u) /\ NoStaleSeat(u)
      /\ HostValid(u)
  BY <1>2, InvParts DEF StateInv, validate, ReadinessValid, SeatsValid,
     NoStaleSeat, HostValid, AddedParts
<1>4. s.phase = "Countdown" => AllSeatedReady(u)
  <2>1. Seated(u) = Seated(s)
    BY <1>2 DEF Seated, AddedParts
  <2>2. p \notin Seated(s) /\ Seated(s) \subseteq AllPrincipals
    BY InvParts DEF Seated
  <2> QED
    BY <2>1, <2>2, InvParts DEF StateInv, validate, PhaseDataValid,
       AllSeatedReady, AddedParts
<1>5. PhaseDataValid(u)
  BY <1>4 DEF StateInv, validate, PhaseDataValid, AddedParts, SameGame
<1>6. \A c \in s.hand_requests \cup s.hand_grants : CapabilityEndpoints(u, c)
  BY DEF StateInv, validate, RequestsValid, GrantsValid,
     CapabilityEndpoints, AddedParts
<1> QED
  BY <1>1, <1>3, <1>5, <1>6, MemberEvent DEF AddedParts

(* MemberJoined: a free place, for a principal who is not a member.        *)
LEMMA JoinedKeeps ==
    ASSUME NEW s, StateInv(s), NEW p \in AllPrincipals, NEW i \in Invites,
           p \notin s.members, s.phase # "Uninitialized",
           Cardinality(s.members) < MAX_MEMBERS
    PROVE  StateInv(MemberJoined(s, p, i))
<1> DEFINE v == AddMember(s, p)
           consumed == IF InviteRecord[i].reusable THEN v.consumed
                       ELSE v.consumed \cup {i}
           u == [v EXCEPT !.consumed = consumed]
<1>0. s \in SessionStates
  BY InvParts
<1>1. v \in SessionStates /\ AddedParts(v, s, p)
  BY <1>0, AddedFields
<1> HIDE DEF v
<1>2. consumed \in SUBSET Invites
  BY <1>1 DEF SessionStates
<1>3. u = MemberJoined(s, p, i)
  BY DEF MemberJoined, v
<1> HIDE DEF consumed
<1>4. u \in SessionStates /\ AddedParts(u, s, p)
  BY <1>1, <1>2 DEF SessionStates, AddedParts, SameGame
<1> HIDE DEF u
<1> QED
  BY <1>3, <1>4, AddedKeeps

(* RoomCreated makes its creator the host of a room of one.                *)
LEMMA CreatedKeeps ==
    ASSUME NEW s, StateInv(s), NEW p \in AllPrincipals,
           s.phase = "Uninitialized"
    PROVE  StateInv(RoomCreated(s, p))
<1> DEFINE w == SetPhase(s, "Lobby")
           v == [w EXCEPT !.session_epoch = 1, !.host = p]
           u == AddMember(v, p)
<1>0. /\ s \in SessionStates /\ s.members = {}
      /\ s.hand_requests = {} /\ s.hand_grants = {}
  BY DEF StateInv, validate, PhaseDataValid, OnlyInGame
<1>1. w \in SessionStates /\ SameRoom(w, s) /\ w.phase = "Lobby"
      /\ w.ready = s.ready
  BY <1>0, SetPhaseFields DEF Phases
<1> HIDE DEF w
<1>2. /\ v \in SessionStates /\ v.phase = "Lobby" /\ v.session_epoch = 1
      /\ v.host = p /\ v.members = {} /\ v.hand_requests = {}
      /\ v.hand_grants = {} /\ v.seat = s.seat /\ v.ready = s.ready
  <2>1. w \in SessionStates
    BY <1>1
  <2>2. v \in SessionStates
    <3>1. 1 \in 0 .. 1 /\ p \in AllPrincipals \cup {NoPrincipal}
      OBVIOUS
    <3>2. [w EXCEPT !.session_epoch = 1] \in SessionStates
      BY <2>1, <3>1 DEF SessionStates
    <3>3. v = [[w EXCEPT !.session_epoch = 1] EXCEPT !.host = p]
      BY <2>1 DEF SessionStates
    <3> QED
      BY <3>1, <3>2, <3>3 DEF SessionStates
  <2>3. /\ v.phase = w.phase /\ v.session_epoch = 1 /\ v.host = p
        /\ v.members = w.members /\ v.hand_requests = w.hand_requests
        /\ v.hand_grants = w.hand_grants /\ v.seat = w.seat
        /\ v.ready = w.ready
    BY <2>1 DEF SessionStates
  <2> QED
    BY <2>2, <2>3, <1>0, <1>1 DEF SameRoom
<1> HIDE DEF v
<1>3. u \in SessionStates /\ AddedParts(u, v, p)
  BY <1>2, AddedFields
<1>4. u = RoomCreated(s, p)
  BY DEF RoomCreated, v, w
<1> HIDE DEF u
<1>5. /\ u.members = {p} /\ u.phase = "Lobby" /\ u.session_epoch = 1
      /\ u.host = p /\ u.hand_requests = {} /\ u.hand_grants = {}
      /\ u.seat = s.seat /\ u.ready = s.ready
      /\ u.membership_epoch[p] = 1
  BY <1>2, <1>3 DEF AddedParts, SameGame, SessionStates
<1>6. \A q \in AllPrincipals : s.seat[q] = NoSeat /\ ~s.ready[q]
  BY <1>0 DEF StateInv, NoStaleSeat
<1>7. Cardinality({p}) = 1 /\ Cardinality({}) = 0 /\ IsFiniteSet({})
  BY FS_Singleton, FS_EmptySet
<1>8. MembersValid(u)
  BY <1>5, <1>7, ReducerAssumption DEF MembersValid, ReducerAssumption
<1>9. /\ ReadinessValid(u) /\ SeatsValid(u) /\ HostValid(u)
      /\ PhaseDataValid(u) /\ NoStaleSeat(u)
  BY <1>5, <1>6 DEF ReadinessValid, SeatsValid, HostValid, PhaseDataValid,
     NoStaleSeat
<1>10. RequestsValid(u) /\ GrantsValid(u)
  BY <1>5, <1>7, ReducerAssumption DEF RequestsValid, GrantsValid,
     ReducerAssumption
<1>11. /\ OnlyInGame(u) /\ OnePerRecipient(u) /\ RoundsCounted(u)
       /\ RequestsArePast(u) /\ FiniteCapabilities(u) /\ RoundToPlay(u)
  BY <1>5, <1>7 DEF OnlyInGame, OnePerRecipient, RoundsCounted,
     RequestsArePast, FiniteCapabilities, RoundToPlay, GamePhases
<1> QED
  BY <1>3, <1>4, <1>8, <1>9, <1>10, <1>11 DEF StateInv, validate

-----------------------------------------------------------------------------
(* Events that change hand-view capabilities.                              *)

SameTable(u, s) ==
    /\ u.phase = s.phase /\ u.game = s.game /\ u.history = s.history
    /\ SameMembership(u, s)
    /\ u.connected = s.connected /\ u.seat = s.seat /\ u.ready = s.ready

(* An event about capabilities keeps the invariant when the capability     *)
(* conditions hold again.                                                  *)
LEMMA CapabilityEvent ==
    ASSUME NEW s, StateInv(s), NEW u \in SessionStates, SameTable(u, s),
           RequestsValid(u), GrantsValid(u), OnlyInGame(u),
           OnePerRecipient(u), RequestsArePast(u), FiniteCapabilities(u)
    PROVE  StateInv(u)
<1>1. /\ MembersValid(u) /\ ReadinessValid(u) /\ SeatsValid(u)
      /\ HostValid(u) /\ NoStaleSeat(u)
  BY DEF StateInv, validate, MembersValid, ReadinessValid, SeatsValid,
     HostValid, NoStaleSeat, SameTable, SameMembership
<1>2. PhaseDataValid(u)
  BY DEF StateInv, validate, PhaseDataValid, AllSeatedReady, Seated,
     SameTable, SameMembership
<1>3. RoundsCounted(u) /\ RoundToPlay(u)
  BY DEF StateInv, RoundsCounted, RoundToPlay, SameTable
<1> QED
  BY <1>1, <1>2, <1>3 DEF StateInv, validate

(* Dropping capabilities needs no more than an epoch that does not fall.   *)
LEMMA CapabilitiesShrink ==
    ASSUME NEW s, StateInv(s), NEW u \in SessionStates, SameTable(u, s),
           u.hand_requests \subseteq s.hand_requests,
           u.hand_grants \subseteq s.hand_grants,
           u.projection_epoch >= s.projection_epoch, u.revision = s.revision
    PROVE  StateInv(u)
<1>1. /\ IsFiniteSet(u.hand_requests) /\ IsFiniteSet(u.hand_grants)
      /\ Cardinality(u.hand_requests) <= Cardinality(s.hand_requests)
      /\ Cardinality(u.hand_grants) <= Cardinality(s.hand_grants)
  BY FS_Subset DEF StateInv, FiniteCapabilities
<1>2. /\ Cardinality(u.hand_requests) \in Nat
      /\ Cardinality(u.hand_grants) \in Nat
      /\ Cardinality(s.hand_requests) \in Nat
      /\ Cardinality(s.hand_grants) \in Nat
  BY <1>1, FS_CardinalityType DEF StateInv, FiniteCapabilities
<1>3. /\ Cardinality(u.hand_requests) <= MAX_HAND
      /\ Cardinality(u.hand_grants) <= MAX_HAND
  BY <1>1, <1>2, ReducerAssumption DEF StateInv, validate, RequestsValid,
     GrantsValid, ReducerAssumption
<1>4. \A c : CapabilityEndpoints(s, c) => CapabilityEndpoints(u, c)
  BY DEF CapabilityEndpoints, SameTable, SameMembership
<1>5. RequestsValid(u)
  BY <1>3, <1>4 DEF StateInv, validate, RequestsValid
<1>6. s.projection_epoch \in Nat /\ u.projection_epoch \in Nat
  BY DEF StateInv, SessionStates
<1>7. \A g \in s.hand_grants : g.grant_epoch \in 1 .. s.projection_epoch
  BY DEF StateInv, validate, GrantsValid
<1>8. \A g \in u.hand_grants : g.grant_epoch \in 1 .. u.projection_epoch
  BY <1>6, <1>7
<1>9. GrantsValid(u)
  BY <1>3, <1>4, <1>8 DEF StateInv, validate, GrantsValid
<1>10. /\ OnlyInGame(u) /\ OnePerRecipient(u) /\ RequestsArePast(u)
       /\ FiniteCapabilities(u)
  BY <1>1 DEF StateInv, OnlyInGame, OnePerRecipient, RequestsArePast,
     FiniteCapabilities, SameTable
<1> QED
  BY <1>5, <1>9, <1>10, CapabilityEvent

(* HandViewDenied only drops a request.                                    *)
LEMMA DeniedKeeps ==
    ASSUME NEW s, StateInv(s), NEW r
    PROVE  StateInv(HandViewDenied(s, r))
<1> DEFINE u == HandViewDenied(s, r)
<1>0. s \in SessionStates /\ s.projection_epoch \in Nat
  BY DEF StateInv, SessionStates
<1>1. u \in SessionStates
  <2>1. s.hand_requests \ {r} \in SUBSET HandViewRequests
    BY <1>0 DEF SessionStates
  <2> QED
    BY <1>0, <2>1 DEF HandViewDenied, SessionStates
<1>2. /\ SameTable(u, s) /\ u.hand_requests \subseteq s.hand_requests
      /\ u.hand_grants \subseteq s.hand_grants
      /\ u.projection_epoch >= s.projection_epoch /\ u.revision = s.revision
  BY <1>0 DEF HandViewDenied, SessionStates, SameTable, SameMembership
<1> QED
  BY <1>1, <1>2, CapabilitiesShrink

(* HandViewRevoked only drops a grant.                                     *)
LEMMA RevokedKeeps ==
    ASSUME NEW s, StateInv(s), NEW g
    PROVE  StateInv(HandViewRevoked(s, g))
<1> DEFINE u == HandViewRevoked(s, g)
<1>0. s \in SessionStates /\ s.projection_epoch \in Nat
  BY DEF StateInv, SessionStates
<1>1. u \in SessionStates
  <2>1. s.hand_grants \ {g} \in SUBSET HandViewGrants
    BY <1>0 DEF SessionStates
  <2> DEFINE v == [s EXCEPT !.hand_grants = s.hand_grants \ {g}]
  <2>2. v \in SessionStates /\ s.projection_epoch + 1 \in Nat
    BY <1>0, <2>1 DEF SessionStates
  <2>3. u = [v EXCEPT !.projection_epoch = s.projection_epoch + 1]
    BY <1>0 DEF HandViewRevoked, SessionStates
  <2> HIDE DEF v, u
  <2> QED
    BY <2>2, <2>3 DEF SessionStates
<1>2. /\ SameTable(u, s) /\ u.hand_requests \subseteq s.hand_requests
      /\ u.hand_grants \subseteq s.hand_grants
      /\ u.projection_epoch >= s.projection_epoch /\ u.revision = s.revision
  BY <1>0 DEF HandViewRevoked, SessionStates, SameTable, SameMembership
<1> QED
  BY <1>1, <1>2, CapabilitiesShrink

(* Expiry takes every capability that names an affected principal.         *)
ExpiredParts(u, s, expire) ==
    /\ SameTable(u, s) /\ u.revision = s.revision
    /\ u.hand_requests = s.hand_requests \ Affected(s.hand_requests, expire)
    /\ u.hand_grants = s.hand_grants \ Affected(s.hand_grants, expire)
    /\ u.projection_epoch = IF Affected(s.hand_grants, expire) = {}
                            THEN s.projection_epoch
                            ELSE s.projection_epoch + 1

(* HandCapabilitiesExpired keeps the invariant, whoever is affected.       *)
LEMMA ExpiredKeeps ==
    ASSUME NEW s, StateInv(s), NEW expire
    PROVE  LET u == HandCapabilitiesExpired(s, expire) IN
           StateInv(u) /\ ExpiredParts(u, s, expire)
<1> DEFINE u == HandCapabilitiesExpired(s, expire)
           epoch == IF Affected(s.hand_grants, expire) = {}
                    THEN s.projection_epoch ELSE s.projection_epoch + 1
<1>0. s \in SessionStates /\ s.projection_epoch \in Nat
  BY DEF StateInv, SessionStates
<1>1. u \in SessionStates /\ ExpiredParts(u, s, expire)
  <2>1. s.hand_grants \ Affected(s.hand_grants, expire)
          \in SUBSET HandViewGrants
    BY <1>0 DEF SessionStates
  <2>2. s.hand_requests \ Affected(s.hand_requests, expire)
          \in SUBSET HandViewRequests
    BY <1>0 DEF SessionStates
  <2>3. epoch \in Nat
    BY <1>0
  <2>4. u \in SessionStates
    <3> DEFINE v == [s EXCEPT !.hand_requests = s.hand_requests
                                  \ Affected(s.hand_requests, expire)]
               w == [v EXCEPT !.hand_grants = s.hand_grants
                                  \ Affected(s.hand_grants, expire)]
    <3>1. v \in SessionStates
      BY <1>0, <2>2 DEF SessionStates
    <3>2. u = [w EXCEPT !.projection_epoch = epoch]
      BY <1>0 DEF HandCapabilitiesExpired, SessionStates
    <3> HIDE DEF v, epoch
    <3>3. w \in SessionStates
      BY <3>1, <2>1 DEF SessionStates
    <3> HIDE DEF w, u
    <3> QED
      BY <2>3, <3>2, <3>3 DEF SessionStates
  <2>5. ExpiredParts(u, s, expire)
    BY <1>0 DEF HandCapabilitiesExpired, SessionStates, ExpiredParts,
       SameTable, SameMembership
  <2> QED
    BY <2>4, <2>5
<1> HIDE DEF u
<1>2. u.projection_epoch >= s.projection_epoch
  BY <1>0, <1>1 DEF ExpiredParts
<1>3. StateInv(u)
  BY <1>1, <1>2, CapabilitiesShrink DEF ExpiredParts
<1> QED
  BY <1>1, <1>3 DEF u

(* A recipient holds one capability at a time, so the grant is its only    *)
(* one once the request is gone.                                           *)
LEMMA GrantedKeeps ==
    ASSUME NEW s, StateInv(s), NEW r \in s.hand_requests,
           Cardinality(s.hand_grants) < MAX_HAND
    PROVE  StateInv(HandViewGranted(s, r, s.projection_epoch + 1))
<1> DEFINE e == s.projection_epoch + 1
           g == [player |-> r.player, recipient |-> r.recipient,
                 grant_epoch |-> e]
           u == HandViewGranted(s, r, e)
<1>0. /\ s \in SessionStates /\ s.projection_epoch \in Nat /\ e \in Nat
      /\ r \in HandViewRequests /\ s.hand_grants \subseteq HandViewGrants
  BY DEF StateInv, SessionStates
<1>1. /\ g \in HandViewGrants /\ g.player = r.player
      /\ g.recipient = r.recipient /\ g.grant_epoch = e
  BY <1>0 DEF HandViewRequests, HandViewGrants
<1>2. /\ SameTable(u, s) /\ u.revision = s.revision
      /\ u.hand_requests = s.hand_requests \ {r}
      /\ u.hand_grants = s.hand_grants \cup {g} /\ u.projection_epoch = e
  BY <1>0 DEF HandViewGranted, SessionStates, SameTable, SameMembership
<1>3. u \in SessionStates
  <2> DEFINE v == [s EXCEPT !.hand_requests = s.hand_requests \ {r}]
             w == [v EXCEPT !.hand_grants = s.hand_grants \cup {g}]
  <2>1. /\ s.hand_requests \ {r} \in SUBSET HandViewRequests
        /\ s.hand_grants \cup {g} \in SUBSET HandViewGrants
    BY <1>0, <1>1 DEF SessionStates
  <2>2. v \in SessionStates
    BY <1>0, <2>1 DEF SessionStates
  <2>3. u = [w EXCEPT !.projection_epoch = e]
    BY <1>0 DEF HandViewGranted, SessionStates
  <2> HIDE DEF v, g, e
  <2>4. w \in SessionStates
    BY <2>1, <2>2 DEF SessionStates
  <2> HIDE DEF w, u
  <2> QED
    BY <1>0, <2>3, <2>4 DEF SessionStates
<1> HIDE DEF u, g
<1>4. /\ IsFiniteSet(s.hand_requests) /\ IsFiniteSet(s.hand_grants)
      /\ Cardinality(s.hand_requests) \in Nat
      /\ Cardinality(s.hand_grants) \in Nat
  BY FS_CardinalityType DEF StateInv, FiniteCapabilities
<1>5. /\ IsFiniteSet(u.hand_requests) /\ IsFiniteSet(u.hand_grants)
      /\ Cardinality(u.hand_requests) <= Cardinality(s.hand_requests)
      /\ Cardinality(u.hand_grants) \in
             {Cardinality(s.hand_grants), Cardinality(s.hand_grants) + 1}
  <2>1. /\ IsFiniteSet(s.hand_requests \ {r})
        /\ Cardinality(s.hand_requests \ {r}) <= Cardinality(s.hand_requests)
    BY <1>4, FS_Subset
  <2>2. /\ IsFiniteSet(s.hand_grants \cup {g})
        /\ Cardinality(s.hand_grants \cup {g})
             = IF g \in s.hand_grants THEN Cardinality(s.hand_grants)
               ELSE Cardinality(s.hand_grants) + 1
    BY <1>4, FS_AddElement
  <2> QED
    BY <1>2, <2>1, <2>2
<1>6. Cardinality(u.hand_requests) \in Nat
  BY <1>5, FS_CardinalityType
<1>7. /\ Cardinality(u.hand_requests) <= MAX_HAND
      /\ Cardinality(u.hand_grants) <= MAX_HAND
  BY <1>4, <1>5, <1>6, ReducerAssumption DEF StateInv, validate,
     RequestsValid, GrantsValid, ReducerAssumption
<1>8. \A c : CapabilityEndpoints(s, c) => CapabilityEndpoints(u, c)
  BY <1>2 DEF CapabilityEndpoints, SameTable, SameMembership
<1>9. RequestsValid(u)
  BY <1>2, <1>7, <1>8 DEF StateInv, validate, RequestsValid
<1>10. \A h \in u.hand_grants : h.grant_epoch \in 1 .. u.projection_epoch
  <2>1. \A h \in s.hand_grants : h.grant_epoch \in 1 .. s.projection_epoch
    BY DEF StateInv, validate, GrantsValid
  <2> QED
    BY <1>0, <1>1, <1>2, <2>1
<1>11. \A h \in u.hand_grants : CapabilityEndpoints(u, h)
  <2>1. CapabilityEndpoints(s, r)
    BY DEF StateInv, validate, RequestsValid
  <2>2. CapabilityEndpoints(s, g)
    BY <1>1, <2>1 DEF CapabilityEndpoints
  <2> QED
    BY <1>2, <1>8, <2>2 DEF StateInv, validate, GrantsValid
<1>12. GrantsValid(u)
  <2>1. \A h \in s.hand_grants : h.recipient # g.recipient
    BY <1>1 DEF StateInv, OnePerRecipient
  <2>2. \A g1, g2 \in u.hand_grants : g1.recipient = g2.recipient => g1 = g2
    BY <1>2, <2>1 DEF StateInv, validate, GrantsValid
  <2> QED
    BY <1>7, <1>10, <1>11, <2>2 DEF GrantsValid
<1>13. OnePerRecipient(u)
  <2>1. \A q \in u.hand_requests : q.recipient # g.recipient
    BY <1>1, <1>2 DEF StateInv, validate, RequestsValid
  <2> QED
    BY <1>2, <2>1 DEF StateInv, OnePerRecipient
<1>14. OnlyInGame(u) /\ RequestsArePast(u) /\ FiniteCapabilities(u)
  BY <1>2, <1>5 DEF StateInv, OnlyInGame, RequestsArePast,
     FiniteCapabilities, SameTable
<1>15. StateInv(u)
  BY <1>2, <1>3, <1>9, <1>12, <1>13, <1>14, CapabilityEvent
<1> QED
  BY <1>15 DEF u

(* A request takes the revision as its identity, which no earlier request  *)
(* can have, and apply then advances the revision past it.                 *)
LEMMA RequestedKeeps ==
    ASSUME NEW s, StateInv(s), s.phase \in {"Running", "Paused"},
           NEW p \in s.members, NEW player \in s.members,
           s.seat[p] = NoSeat, s.seat[player] # NoSeat,
           Cardinality(s.hand_requests) < MAX_HAND,
           \A c \in s.hand_requests \cup s.hand_grants : c.recipient # p
    PROVE  LET r == [request_id |-> s.revision, player |-> player,
                     recipient |-> p]
           IN  StateInv([HandViewRequested(s, r) EXCEPT
                            !.revision = s.revision + 1])
<1> DEFINE r == [request_id |-> s.revision, player |-> player,
                 recipient |-> p]
           v == HandViewRequested(s, r)
           u == [v EXCEPT !.revision = s.revision + 1]
<1>0. /\ s \in SessionStates /\ p \in AllPrincipals
      /\ player \in AllPrincipals /\ s.revision \in Nat
      /\ s.hand_requests \subseteq HandViewRequests
  BY DEF StateInv, SessionStates
<1>1. /\ r \in HandViewRequests /\ r.request_id = s.revision
      /\ r.player = player /\ r.recipient = p
  BY <1>0 DEF HandViewRequests
<1> HIDE DEF r
<1>2. /\ SameTable(u, s) /\ u.revision = s.revision + 1
      /\ u.hand_requests = s.hand_requests \cup {r}
      /\ u.hand_grants = s.hand_grants
      /\ u.projection_epoch = s.projection_epoch
  BY <1>0 DEF HandViewRequested, SessionStates, SameTable, SameMembership
<1>3. u \in SessionStates
  <2>1. s.hand_requests \cup {r} \in SUBSET HandViewRequests
    BY <1>0, <1>1
  <2>2. v \in SessionStates
    BY <1>0, <2>1 DEF HandViewRequested, SessionStates
  <2> HIDE DEF v
  <2> QED
    BY <1>0, <2>2 DEF SessionStates
<1> HIDE DEF u
<1>4. IsFiniteSet(s.hand_requests) /\ Cardinality(s.hand_requests) \in Nat
  BY FS_CardinalityType DEF StateInv, FiniteCapabilities
<1>5. /\ IsFiniteSet(u.hand_requests)
      /\ Cardinality(u.hand_requests) \in
            {Cardinality(s.hand_requests), Cardinality(s.hand_requests) + 1}
  <2>1. /\ IsFiniteSet(s.hand_requests \cup {r})
        /\ Cardinality(s.hand_requests \cup {r})
             = IF r \in s.hand_requests THEN Cardinality(s.hand_requests)
               ELSE Cardinality(s.hand_requests) + 1
    BY <1>4, FS_AddElement
  <2> QED
    BY <1>2, <2>1
<1>6. Cardinality(u.hand_requests) <= MAX_HAND
  BY <1>4, <1>5, ReducerAssumption DEF ReducerAssumption
<1>7. \A c : CapabilityEndpoints(s, c) => CapabilityEndpoints(u, c)
  BY <1>2 DEF CapabilityEndpoints, SameTable, SameMembership
<1>8. /\ CapabilityEndpoints(s, r)
      /\ \A q \in s.hand_requests :
             q.request_id # r.request_id /\ q.recipient # r.recipient
  <2>1. \A q \in s.hand_requests :
            q.request_id \in Nat /\ q.request_id < s.revision
    BY <1>0 DEF StateInv, RequestsArePast, HandViewRequests
  <2>2. \A q \in s.hand_requests : q.request_id # s.revision
    BY <1>0, <2>1
  <2> QED
    BY <1>1, <2>2 DEF CapabilityEndpoints
<1>9. RequestsValid(u)
  BY <1>2, <1>6, <1>7, <1>8 DEF StateInv, validate, RequestsValid
<1>10. GrantsValid(u)
  BY <1>2, <1>7 DEF StateInv, validate, GrantsValid
<1>11. OnlyInGame(u) /\ OnePerRecipient(u) /\ FiniteCapabilities(u)
  BY <1>1, <1>2, <1>5 DEF StateInv, OnlyInGame, OnePerRecipient,
     FiniteCapabilities, SameTable
<1>12. RequestsArePast(u)
  BY <1>0, <1>1, <1>2 DEF StateInv, RequestsArePast, HandViewRequests
<1>13. StateInv(u)
  BY <1>2, <1>3, <1>9, <1>10, <1>11, <1>12, CapabilityEvent
<1> QED
  BY <1>13 DEF u, r
-----------------------------------------------------------------------------
(* Batches.                                                                *)

(* The epoch never falls, and rises when the grants change.                *)
EpochCovers(t, s) ==
    /\ t.projection_epoch \in Nat /\ s.projection_epoch \in Nat
    /\ t.projection_epoch >= s.projection_epoch
    /\ t.hand_grants # s.hand_grants => t.projection_epoch > s.projection_epoch

(* What an event does that decide was right to emit: apply_kind accepts    *)
(* it, validate accepts the result, the invariant holds again, and the     *)
(* revision advances by one.                                               *)
GoodEvent(s, e) ==
    /\ Applies(s, e) /\ StateInv(apply(s, e))
    /\ EpochCovers(apply(s, e), s)
    /\ apply(s, e).revision = s.revision + 1

(* An event that apply_kind accepts and whose result satisfies StateInv is *)
(* good: apply's revision step disturbs nothing.                           *)
LEMMA EventKeeps ==
    ASSUME NEW s, StateInv(s), NEW e, EventAccepted(s, e),
           NEW t, apply_kind(s, e) = t, StateInv(t), t.revision = s.revision,
           EpochCovers(t, s)
    PROVE  GoodEvent(s, e)
<1>1. s.revision \in Nat /\ t \in SessionStates
  BY DEF StateInv, SessionStates
<1>2. apply(s, e) = [t EXCEPT !.revision = s.revision + 1]
  BY DEF apply
<1>3. StateInv(apply(s, e))
  BY <1>1, <1>2, RevisionAdvances
<1>4. apply(s, e).revision = s.revision + 1 /\ EpochCovers(apply(s, e), s)
  BY <1>1, <1>2 DEF SessionStates, EpochCovers
<1> QED
  BY <1>3, <1>4 DEF GoodEvent, Applies, StateInv

-----------------------------------------------------------------------------
(* The events before the main one.                                         *)

(* The state w in which a batch's main event is applied.                   *)
BeforeMain(w, s, b) ==
    /\ StateInv(w)
    /\ SameMembership(w, s)
    /\ w.connected = s.connected /\ w.seat = s.seat /\ w.ready = s.ready
    /\ w.phase = (IF b.cancel THEN "Lobby" ELSE s.phase)
    /\ ~b.cancel => w.game = s.game
    /\ w.hand_requests = s.hand_requests \ Affected(s.hand_requests, b.expire)
    /\ w.hand_grants = s.hand_grants \ Affected(s.hand_grants, b.expire)
    /\ w.revision + 1 = s.revision + EventCount(b)
    /\ EpochCovers(w, s)

(* cancel_countdown_first's event is good in a countdown: it leads to the  *)
(* lobby and touches neither members nor capabilities.                     *)
LEMMA CancelGood ==
    ASSUME NEW s, StateInv(s), s.phase = "Countdown"
    PROVE  LET t == apply(s, CancelEvent(s)) IN
           /\ GoodEvent(s, CancelEvent(s))
           /\ SameMembership(t, s) /\ t.phase = "Lobby"
           /\ t.connected = s.connected /\ t.seat = s.seat
           /\ t.ready = s.ready
           /\ t.hand_requests = s.hand_requests
           /\ t.hand_grants = s.hand_grants
<1> DEFINE e == CancelEvent(s)
           v == SetPhase(s, "Lobby")
<1>0. s \in SessionStates
  BY DEF StateInv
<1>1. /\ v \in SessionStates /\ SameRoom(v, s)
      /\ v.phase = "Lobby" /\ v.ready = s.ready
  BY <1>0, SetPhaseFields DEF Phases
<1>2. e.kind = "CountdownCancelled" /\ e.token = s.token
  BY DEF CancelEvent
<1> HIDE DEF e
<1>3. EventAccepted(s, e)
  BY <1>2 DEF EventAccepted
<1>4. apply_kind(s, e) = v
  BY <1>2 DEF apply_kind, CountdownCancelled
<1>5. StateInv(v)
  BY CancelledKeeps DEF CountdownCancelled
<1> HIDE DEF v
<1>6. GoodEvent(s, e)
  <2>1. EpochCovers(v, s)
    BY <1>0, <1>1 DEF SameRoom, SessionStates, EpochCovers
  <2> QED
    BY <1>1, <1>3, <1>4, <1>5, <2>1, EventKeeps DEF SameRoom
<1>7. apply(s, e) = [v EXCEPT !.revision = s.revision + 1]
  BY <1>4 DEF apply
<1>8. LET t == apply(s, e) IN
      /\ t.session_epoch = v.session_epoch /\ t.host = v.host
      /\ t.members = v.members /\ t.membership_epoch = v.membership_epoch
      /\ t.phase = v.phase /\ t.connected = v.connected /\ t.seat = v.seat
      /\ t.ready = v.ready /\ t.hand_requests = v.hand_requests
      /\ t.hand_grants = v.hand_grants
  BY <1>1, <1>7 DEF SessionStates
<1> QED
  BY <1>1, <1>6, <1>8 DEF e, SameRoom, SameMembership

(* HandCapabilitiesExpired is good in any state: it drops the capabilities *)
(* that name an affected principal and nothing else.                       *)
LEMMA ExpireGood ==
    ASSUME NEW s, StateInv(s), NEW expire
    PROVE  LET t == apply(s, ExpireEvent(expire)) IN
           /\ GoodEvent(s, ExpireEvent(expire))
           /\ SameMembership(t, s) /\ t.phase = s.phase /\ t.game = s.game
           /\ t.connected = s.connected /\ t.seat = s.seat
           /\ t.ready = s.ready
           /\ t.hand_requests
                = s.hand_requests \ Affected(s.hand_requests, expire)
           /\ t.hand_grants = s.hand_grants \ Affected(s.hand_grants, expire)
<1> DEFINE e == ExpireEvent(expire)
           v == HandCapabilitiesExpired(s, expire)
<1>1. StateInv(v) /\ ExpiredParts(v, s, expire)
  BY ExpiredKeeps
<1>2. e.kind = "HandCapabilitiesExpired" /\ e.expire = expire
  BY DEF ExpireEvent
<1> HIDE DEF e
<1>3. EventAccepted(s, e)
  BY <1>2 DEF EventAccepted
<1>4. apply_kind(s, e) = v
  BY <1>2 DEF apply_kind
<1> HIDE DEF v
<1>5. GoodEvent(s, e)
  <2>1. s.projection_epoch \in Nat
    BY DEF StateInv, SessionStates
  <2>2. EpochCovers(v, s)
    BY <1>1, <2>1 DEF ExpiredParts, EpochCovers
  <2> QED
    BY <1>1, <1>3, <1>4, <2>2, EventKeeps DEF ExpiredParts
<1>6. apply(s, e) = [v EXCEPT !.revision = s.revision + 1]
  BY <1>4 DEF apply
<1>7. LET t == apply(s, e) IN
      /\ t.session_epoch = v.session_epoch /\ t.host = v.host
      /\ t.members = v.members /\ t.membership_epoch = v.membership_epoch
      /\ t.phase = v.phase /\ t.game = v.game
      /\ t.connected = v.connected /\ t.seat = v.seat
      /\ t.ready = v.ready /\ t.hand_requests = v.hand_requests
      /\ t.hand_grants = v.hand_grants
  BY <1>1, <1>6 DEF StateInv, SessionStates
<1> QED
  BY <1>1, <1>5, <1>7 DEF e, ExpiredParts, SameTable, SameMembership

(* The optional events before the main one apply, and leave the state      *)
(* BeforeMain describes.                                                   *)
LEMMA PreludeGood ==
    ASSUME NEW s, StateInv(s), NEW b, b.cancel \in BOOLEAN,
           b.cancel => s.phase = "Countdown"
    PROVE  /\ b.cancel => Applies(s, CancelEvent(s))
           /\ b.expire # {} => Applies(AfterCancel(s, b), ExpireEvent(b.expire))
           /\ BeforeMain(AfterExpiry(s, b), s, b)
<1> DEFINE v == AfterCancel(s, b)
           w == AfterExpiry(s, b)
<1>0. s.revision \in Nat /\ EpochCovers(s, s)
  BY DEF StateInv, SessionStates, EpochCovers
<1>1. /\ b.cancel => Applies(s, CancelEvent(s))
      /\ StateInv(v) /\ SameMembership(v, s)
      /\ v.connected = s.connected /\ v.seat = s.seat /\ v.ready = s.ready
      /\ v.phase = (IF b.cancel THEN "Lobby" ELSE s.phase)
      /\ ~b.cancel => v.game = s.game
      /\ v.hand_requests = s.hand_requests /\ v.hand_grants = s.hand_grants
      /\ v.revision = s.revision + (IF b.cancel THEN 1 ELSE 0)
      /\ EpochCovers(v, s)
  <2>1. CASE b.cancel
    BY <2>1, CancelGood DEF AfterCancel, GoodEvent
  <2>2. CASE ~b.cancel
    BY <2>2, <1>0 DEF AfterCancel, SameMembership
  <2> QED
    BY <2>1, <2>2
<1> HIDE DEF v
<1>2. CASE b.expire = {}
  <2>1. w = v /\ Affected(s.hand_requests, b.expire) = {}
              /\ Affected(s.hand_grants, b.expire) = {}
    BY <1>2 DEF AfterExpiry, v, Affected
  <2>2. w.revision + 1 = s.revision + EventCount(b)
    BY <1>0, <1>1, <1>2, <2>1 DEF EventCount
  <2> HIDE DEF w
  <2> QED
    BY <1>1, <1>2, <2>1, <2>2 DEF BeforeMain, w
<1>3. CASE b.expire # {}
  <2>1. w = apply(v, ExpireEvent(b.expire))
    BY <1>3 DEF AfterExpiry, v
  <2> HIDE DEF w
  <2>2. /\ GoodEvent(v, ExpireEvent(b.expire))
        /\ SameMembership(w, v) /\ w.phase = v.phase /\ w.game = v.game
        /\ w.connected = v.connected /\ w.seat = v.seat /\ w.ready = v.ready
        /\ w.hand_requests
             = v.hand_requests \ Affected(v.hand_requests, b.expire)
        /\ w.hand_grants = v.hand_grants \ Affected(v.hand_grants, b.expire)
    BY <1>1, <2>1, ExpireGood
  <2>3. w.revision + 1 = s.revision + EventCount(b)
    BY <1>0, <1>1, <1>3, <2>1, <2>2 DEF EventCount, GoodEvent
  <2>4. EpochCovers(w, v) /\ EpochCovers(w, s)
    BY <1>1, <2>1, <2>2 DEF GoodEvent, EpochCovers
  <2>5. BeforeMain(w, s, b)
    BY <1>1, <2>1, <2>2, <2>3, <2>4 DEF BeforeMain, GoodEvent, SameMembership
  <2> QED
    BY <1>1, <2>2, <2>5 DEF GoodEvent, w, v
<1> QED
  BY <1>2, <1>3

(* What the reducer promises of a batch it decides.                        *)
GoodBatch(s, b) ==
    /\ BatchApplies(s, b) /\ StateInv(AfterBatch(s, b))
    /\ EpochCovers(AfterBatch(s, b), s)
    /\ AfterBatch(s, b).revision = s.revision + EventCount(b)

(* A batch is good when its main event is good in the state its prelude    *)
(* leaves.                                                                 *)
LEMMA BatchKeeps ==
    ASSUME NEW s, StateInv(s), NEW b, b.cancel \in BOOLEAN,
           b.cancel => s.phase = "Countdown",
           GoodEvent(AfterExpiry(s, b), b.main)
    PROVE  GoodBatch(s, b)
<1>1. BeforeMain(AfterExpiry(s, b), s, b)
  BY PreludeGood
<1>2. BatchApplies(s, b)
  BY PreludeGood DEF BatchApplies, GoodEvent
<1>3. EpochCovers(AfterBatch(s, b), s)
  <2>1. /\ EpochCovers(AfterBatch(s, b), AfterExpiry(s, b))
        /\ EpochCovers(AfterExpiry(s, b), s)
    BY <1>1 DEF GoodEvent, AfterBatch, BeforeMain
  <2> QED
    BY <2>1 DEF EpochCovers
<1> QED
  BY <1>1, <1>2, <1>3 DEF GoodBatch, GoodEvent, AfterBatch, BeforeMain

(* A batch of one event is good when the event is.                         *)
LEMMA JustKeeps ==
    ASSUME NEW s, StateInv(s), NEW e, GoodEvent(s, e)
    PROVE  GoodBatch(s, Just(e))
<1> DEFINE b == Just(e)
<1>1. b.cancel = FALSE /\ b.expire = {} /\ b.main = e
  BY DEF Just, Batch
<1> HIDE DEF b
<1>2. AfterExpiry(s, b) = s
  BY <1>1 DEF AfterExpiry, AfterCancel
<1>3. GoodEvent(AfterExpiry(s, b), b.main)
  BY <1>1, <1>2
<1>4. b.cancel \in BOOLEAN /\ (b.cancel => s.phase = "Countdown")
  BY <1>1
<1>5. GoodBatch(s, b)
  BY <1>3, <1>4, BatchKeeps
<1> QED
  BY <1>5 DEF b

-----------------------------------------------------------------------------
(* One lemma per decide function: every batch it returns is good.          *)

(* decide_create: a room is created once, from Uninitialized.              *)
LEMMA CreateGood ==
    ASSUME NEW s, StateInv(s), NEW p \in AllPrincipals,
           NEW b \in decide_create(s, p)
    PROVE  GoodBatch(s, b)
<1> DEFINE e == [kind |-> "RoomCreated", principal |-> p]
<1>1. b = Just(e)
      /\ s.phase = "Uninitialized"
  BY DEF decide_create, Accept
<1>2. e.kind = "RoomCreated" /\ e.principal = p
  OBVIOUS
<1> HIDE DEF e
<1>3. EventAccepted(s, e)
  BY <1>1, <1>2 DEF EventAccepted
<1>4. apply_kind(s, e) = RoomCreated(s, p)
  BY <1>2 DEF apply_kind
<1>5. /\ StateInv(RoomCreated(s, p))
      /\ EpochCovers(RoomCreated(s, p), s)
      /\ RoomCreated(s, p).revision = s.revision
  <2>1. s \in SessionStates
    BY DEF StateInv
  <2>2. /\ RoomCreated(s, p).revision = s.revision
        /\ EpochCovers(RoomCreated(s, p), s)
    BY <2>1 DEF RoomCreated, AddMember, SetPhase, SessionStates, EpochCovers
  <2> QED
    BY <1>1, <2>2, CreatedKeeps
<1> QED
  BY <1>1, <1>3, <1>4, <1>5, EventKeeps, JustKeeps

(* decide_join: a free place and a live invite suffice for MemberJoined.   *)
LEMMA JoinGood ==
    ASSUME NEW s, StateInv(s), NEW p \in AllPrincipals, NEW i \in Invites,
           NEW b \in decide_join(s, p, i)
    PROVE  GoodBatch(s, b)
<1> DEFINE e == [kind |-> "MemberJoined", principal |-> p, invite |-> i]
<1>1. b = Just(e)
      /\ s.phase # "Uninitialized" /\ p \notin s.members
      /\ Cardinality(s.members) < MAX_MEMBERS
      /\ i \notin s.consumed /\ ~InviteRecord[i].revoked
  BY DEF decide_join, Accept
<1>2. e.kind = "MemberJoined" /\ e.principal = p /\ e.invite = i
  OBVIOUS
<1> HIDE DEF e
<1>3. EventAccepted(s, e)
  BY <1>1, <1>2 DEF EventAccepted
<1>4. apply_kind(s, e) = MemberJoined(s, p, i)
  BY <1>2 DEF apply_kind
<1>5. /\ StateInv(MemberJoined(s, p, i))
      /\ EpochCovers(MemberJoined(s, p, i), s)
      /\ MemberJoined(s, p, i).revision = s.revision
  <2>1. s \in SessionStates
    BY DEF StateInv
  <2>2. /\ MemberJoined(s, p, i).revision = s.revision
        /\ EpochCovers(MemberJoined(s, p, i), s)
    BY <2>1 DEF MemberJoined, AddMember, SessionStates, EpochCovers
  <2> QED
    BY <1>1, <2>2, JoinedKeeps
<1> QED
  BY <1>1, <1>3, <1>4, <1>5, EventKeeps, JustKeeps

(* decide_arm_countdown: a countdown starts with all seats ready.          *)
LEMMA ArmGood ==
    ASSUME NEW s, StateInv(s), NEW d \in Ticks, NEW t \in Tokens,
           NEW b \in decide_arm_countdown(s, d, t)
    PROVE  GoodBatch(s, b)
<1> DEFINE e == [kind |-> "CountdownArmed", deadline_tick |-> d, token |-> t]
<1>1. b = Just(e)
      /\ s.phase = "Lobby" /\ AllSeatedReady(s)
  BY DEF decide_arm_countdown, Accept
<1>2. e.kind = "CountdownArmed" /\ e.deadline_tick = d /\ e.token = t
  OBVIOUS
<1> HIDE DEF e
<1>3. EventAccepted(s, e)
  BY <1>1, <1>2 DEF EventAccepted
<1>4. apply_kind(s, e) = CountdownArmed(s, d, t)
  BY <1>2 DEF apply_kind
<1>5. /\ StateInv(CountdownArmed(s, d, t))
      /\ EpochCovers(CountdownArmed(s, d, t), s)
      /\ CountdownArmed(s, d, t).revision = s.revision
  <2>1. s \in SessionStates
    BY DEF StateInv
  <2>2. /\ CountdownArmed(s, d, t).revision = s.revision
        /\ EpochCovers(CountdownArmed(s, d, t), s)
    BY <2>1 DEF CountdownArmed, SetPhase, SessionStates, EpochCovers
  <2> QED
    BY <1>1, <2>2, ArmedKeeps
<1> QED
  BY <1>1, <1>3, <1>4, <1>5, EventKeeps, JustKeeps

(* decide_abort_countdown names the token apply_kind checks.               *)
LEMMA AbortGood ==
    ASSUME NEW s, StateInv(s),
           NEW b \in decide_abort_countdown(s)
    PROVE  GoodBatch(s, b)
<1> DEFINE e == [kind |-> "CountdownCancelled", token |-> s.token]
<1>1. b = Just(e)
      /\ s.phase = "Countdown"
  BY DEF decide_abort_countdown, Accept
<1>2. e.kind = "CountdownCancelled" /\ e.token = s.token
  OBVIOUS
<1> HIDE DEF e
<1>3. EventAccepted(s, e)
  BY <1>1, <1>2 DEF EventAccepted
<1>4. apply_kind(s, e) = CountdownCancelled(s)
  BY <1>2 DEF apply_kind
<1>5. /\ StateInv(CountdownCancelled(s))
      /\ EpochCovers(CountdownCancelled(s), s)
      /\ CountdownCancelled(s).revision = s.revision
  <2>1. s \in SessionStates
    BY DEF StateInv
  <2>2. /\ CountdownCancelled(s).revision = s.revision
        /\ EpochCovers(CountdownCancelled(s), s)
    BY <2>1 DEF CountdownCancelled, SetPhase, SessionStates, EpochCovers
  <2> QED
    BY <1>1, <2>2, CancelledKeeps
<1> QED
  BY <1>1, <1>3, <1>4, <1>5, EventKeeps, JustKeeps

(* decide_countdown_expired: the game starts from a countdown only.        *)
LEMMA StartGood ==
    ASSUME NEW s, StateInv(s), NEW t,
           NEW b \in decide_countdown_expired(s, t)
    PROVE  GoodBatch(s, b)
<1> DEFINE e == [kind |-> "GameStarted"]
<1>1. b = Just(e)
      /\ s.phase = "Countdown"
  BY DEF decide_countdown_expired, ExpiryMatches, Accept
<1>2. e.kind = "GameStarted"
  OBVIOUS
<1> HIDE DEF e
<1>3. EventAccepted(s, e)
  BY <1>1, <1>2 DEF EventAccepted
<1>4. apply_kind(s, e) = GameStarted(s)
  BY <1>2 DEF apply_kind
<1>5. /\ StateInv(GameStarted(s))
      /\ EpochCovers(GameStarted(s), s)
      /\ GameStarted(s).revision = s.revision
  <2>1. s \in SessionStates
    BY DEF StateInv
  <2>2. /\ GameStarted(s).revision = s.revision
        /\ EpochCovers(GameStarted(s), s)
    BY <2>1 DEF GameStarted, AllUnready, SetPhase, SessionStates, EpochCovers
  <2> QED
    BY <1>1, <2>2, StartedKeeps
<1> QED
  BY <1>1, <1>3, <1>4, <1>5, EventKeeps, JustKeeps

(* decide_pause suspends a running game.                                   *)
LEMMA PauseGood ==
    ASSUME NEW s, StateInv(s),
           NEW b \in decide_pause(s)
    PROVE  GoodBatch(s, b)
<1> DEFINE e == [kind |-> "Paused"]
<1>1. b = Just(e)
      /\ s.phase = "Running"
  BY DEF decide_pause, Accept
<1>2. e.kind = "Paused"
  OBVIOUS
<1> HIDE DEF e
<1>3. EventAccepted(s, e)
  BY <1>1, <1>2 DEF EventAccepted
<1>4. apply_kind(s, e) = SetPhase(s, "Paused")
  BY <1>2 DEF apply_kind
<1>5. /\ StateInv(SetPhase(s, "Paused"))
      /\ EpochCovers(SetPhase(s, "Paused"), s)
      /\ SetPhase(s, "Paused").revision = s.revision
  <2>1. s \in SessionStates
    BY DEF StateInv
  <2>2. /\ SetPhase(s, "Paused").revision = s.revision
        /\ EpochCovers(SetPhase(s, "Paused"), s)
    BY <2>1 DEF SetPhase, SessionStates, EpochCovers
  <2> QED
    BY <1>1, <2>2, PausedKeeps
<1> QED
  BY <1>1, <1>3, <1>4, <1>5, EventKeeps, JustKeeps

(* decide_unpause resumes a paused game.                                   *)
LEMMA UnpauseGood ==
    ASSUME NEW s, StateInv(s),
           NEW b \in decide_unpause(s)
    PROVE  GoodBatch(s, b)
<1> DEFINE e == [kind |-> "Unpaused"]
<1>1. b = Just(e)
      /\ s.phase = "Paused"
  BY DEF decide_unpause, Accept
<1>2. e.kind = "Unpaused"
  OBVIOUS
<1> HIDE DEF e
<1>3. EventAccepted(s, e)
  BY <1>1, <1>2 DEF EventAccepted
<1>4. apply_kind(s, e) = SetPhase(s, "Running")
  BY <1>2 DEF apply_kind
<1>5. /\ StateInv(SetPhase(s, "Running"))
      /\ EpochCovers(SetPhase(s, "Running"), s)
      /\ SetPhase(s, "Running").revision = s.revision
  <2>1. s \in SessionStates
    BY DEF StateInv
  <2>2. /\ SetPhase(s, "Running").revision = s.revision
        /\ EpochCovers(SetPhase(s, "Running"), s)
    BY <2>1 DEF SetPhase, SessionStates, EpochCovers
  <2> QED
    BY <1>1, <2>2, PausedKeeps
<1> QED
  BY <1>1, <1>3, <1>4, <1>5, EventKeeps, JustKeeps

(* decide_reset returns a finished game's room to the lobby.               *)
LEMMA ResetGood ==
    ASSUME NEW s, StateInv(s),
           NEW b \in decide_reset(s)
    PROVE  GoodBatch(s, b)
<1> DEFINE e == [kind |-> "LobbyReset"]
<1>1. b = Just(e)
      /\ s.phase = "PostGame"
  BY DEF decide_reset, Accept
<1>2. e.kind = "LobbyReset"
  OBVIOUS
<1> HIDE DEF e
<1>3. EventAccepted(s, e)
  BY <1>1, <1>2 DEF EventAccepted
<1>4. apply_kind(s, e) = LobbyReset(s)
  BY <1>2 DEF apply_kind
<1>5. /\ StateInv(LobbyReset(s))
      /\ EpochCovers(LobbyReset(s), s)
      /\ LobbyReset(s).revision = s.revision
  <2>1. s \in SessionStates
    BY DEF StateInv
  <2>2. /\ LobbyReset(s).revision = s.revision
        /\ EpochCovers(LobbyReset(s), s)
    BY <2>1 DEF LobbyReset, AllUnready, SetPhase, SessionStates, EpochCovers
  <2> QED
    BY <1>1, <2>2, ResetKeeps
<1> QED
  BY <1>1, <1>3, <1>4, <1>5, EventKeeps, JustKeeps

(* decide_close: a room that was created can always close.                 *)
LEMMA CloseGood ==
    ASSUME NEW s, StateInv(s), s.phase # "Uninitialized",
           NEW b \in decide_close(s)
    PROVE  GoodBatch(s, b)
<1> DEFINE e == [kind |-> "RoomClosed"]
<1>1. b = Just(e)
  BY DEF decide_close, Accept
<1>2. e.kind = "RoomClosed"
  OBVIOUS
<1> HIDE DEF e
<1>3. EventAccepted(s, e)
  BY <1>1, <1>2 DEF EventAccepted
<1>4. apply_kind(s, e) = RoomClosed(s)
  BY <1>2 DEF apply_kind
<1>5. /\ StateInv(RoomClosed(s))
      /\ EpochCovers(RoomClosed(s), s)
      /\ RoomClosed(s).revision = s.revision
  <2>1. s \in SessionStates
    BY DEF StateInv
  <2>2. /\ RoomClosed(s).revision = s.revision
        /\ EpochCovers(RoomClosed(s), s)
    BY <2>1 DEF RoomClosed, AllUnready, SetPhase, SessionStates, EpochCovers
  <2> QED
    BY <1>1, <2>2, ClosedKeeps
<1> QED
  BY <1>1, <1>3, <1>4, <1>5, EventKeeps, JustKeeps

(* decide_chat checks the quota that apply_kind checks again.              *)
LEMMA ChatGood ==
    ASSUME NEW s, StateInv(s), NEW p \in AllPrincipals,
           NEW b \in decide_chat(s, p)
    PROVE  GoodBatch(s, b)
<1> DEFINE e == [kind |-> "ChatPosted", principal |-> p]
<1>1. b = Just(e)
      /\ p \in s.members
      /\ ~(InChatWindow(s, p)
           /\ s.chat_count[p] >= CHAT_MESSAGES_PER_WINDOW)
  BY DEF decide_chat, Accept
<1>2. e.kind = "ChatPosted" /\ e.principal = p
  OBVIOUS
<1> HIDE DEF e
<1>3. EventAccepted(s, e)
  BY <1>1, <1>2 DEF EventAccepted
<1>4. apply_kind(s, e) = ChatPosted(s, p)
  BY <1>2 DEF apply_kind
<1>5. /\ StateInv(ChatPosted(s, p))
      /\ EpochCovers(ChatPosted(s, p), s)
      /\ ChatPosted(s, p).revision = s.revision
  <2>1. s \in SessionStates
    BY DEF StateInv
  <2>2. /\ ChatPosted(s, p).revision = s.revision
        /\ EpochCovers(ChatPosted(s, p), s)
    BY <2>1 DEF ChatPosted, SessionStates, EpochCovers
  <2> QED
    BY <1>1, <2>2, ChatKeeps
<1> QED
  BY <1>1, <1>3, <1>4, <1>5, EventKeeps, JustKeeps

(* decide_reconnect: the membership is still there.                        *)
LEMMA ReconnectGood ==
    ASSUME NEW s, StateInv(s), NEW p \in AllPrincipals,
           NEW b \in decide_reconnect(s, p)
    PROVE  GoodBatch(s, b)
<1> DEFINE e == [kind |-> "MemberReconnected", principal |-> p]
<1>1. b = Just(e)
      /\ p \in s.members
  BY DEF decide_reconnect, Accept
<1>2. e.kind = "MemberReconnected" /\ e.principal = p
  OBVIOUS
<1> HIDE DEF e
<1>3. EventAccepted(s, e)
  BY <1>1, <1>2 DEF EventAccepted
<1>4. apply_kind(s, e) = MemberReconnected(s, p)
  BY <1>2 DEF apply_kind
<1>5. /\ StateInv(MemberReconnected(s, p))
      /\ EpochCovers(MemberReconnected(s, p), s)
      /\ MemberReconnected(s, p).revision = s.revision
  <2>1. s \in SessionStates
    BY DEF StateInv
  <2>2. /\ MemberReconnected(s, p).revision = s.revision
        /\ EpochCovers(MemberReconnected(s, p), s)
    BY <2>1 DEF MemberReconnected, SessionStates, EpochCovers
  <2> QED
    BY <1>1, <2>2, ReconnectedKeeps
<1> QED
  BY <1>1, <1>3, <1>4, <1>5, EventKeeps, JustKeeps

(* decide_deny_hand drops a live request.                                  *)
LEMMA DenyGood ==
    ASSUME NEW s, StateInv(s), NEW p, NEW r,
           NEW b \in decide_deny_hand(s, p, r)
    PROVE  GoodBatch(s, b)
<1> DEFINE e == [kind |-> "HandViewDenied", request |-> r]
<1>1. b = Just(e)
      /\ r \in s.hand_requests
  BY DEF decide_deny_hand, Accept
<1>2. e.kind = "HandViewDenied" /\ e.request = r
  OBVIOUS
<1> HIDE DEF e
<1>3. EventAccepted(s, e)
  BY <1>1, <1>2 DEF EventAccepted
<1>4. apply_kind(s, e) = HandViewDenied(s, r)
  BY <1>2 DEF apply_kind
<1>5. /\ StateInv(HandViewDenied(s, r))
      /\ EpochCovers(HandViewDenied(s, r), s)
      /\ HandViewDenied(s, r).revision = s.revision
  <2>1. s \in SessionStates
    BY DEF StateInv
  <2>2. /\ HandViewDenied(s, r).revision = s.revision
        /\ EpochCovers(HandViewDenied(s, r), s)
    BY <2>1 DEF HandViewDenied, SessionStates, EpochCovers
  <2> QED
    BY <1>1, <2>2, DeniedKeeps
<1> QED
  BY <1>1, <1>3, <1>4, <1>5, EventKeeps, JustKeeps

(* decide_revoke_hand drops a live grant and raises the epoch.             *)
LEMMA RevokeGood ==
    ASSUME NEW s, StateInv(s), NEW p, NEW g,
           NEW b \in decide_revoke_hand(s, p, g)
    PROVE  GoodBatch(s, b)
<1> DEFINE e == [kind |-> "HandViewRevoked", grant |-> g]
<1>1. b = Just(e)
      /\ g \in s.hand_grants
  BY DEF decide_revoke_hand, Accept
<1>2. e.kind = "HandViewRevoked" /\ e.grant = g
  OBVIOUS
<1> HIDE DEF e
<1>3. EventAccepted(s, e)
  BY <1>1, <1>2 DEF EventAccepted
<1>4. apply_kind(s, e) = HandViewRevoked(s, g)
  BY <1>2 DEF apply_kind
<1>5. /\ StateInv(HandViewRevoked(s, g))
      /\ EpochCovers(HandViewRevoked(s, g), s)
      /\ HandViewRevoked(s, g).revision = s.revision
  <2>1. s \in SessionStates
    BY DEF StateInv
  <2>2. /\ HandViewRevoked(s, g).revision = s.revision
        /\ EpochCovers(HandViewRevoked(s, g), s)
    BY <2>1 DEF HandViewRevoked, SessionStates, EpochCovers
  <2> QED
    BY <1>1, <2>2, RevokedKeeps
<1> QED
  BY <1>1, <1>3, <1>4, <1>5, EventKeeps, JustKeeps

(* decide_grant_hand: the granted epoch is the next one.                   *)
LEMMA GrantGood ==
    ASSUME NEW s, StateInv(s), NEW p, NEW r, NEW n,
           NEW b \in decide_grant_hand(s, p, r, n)
    PROVE  GoodBatch(s, b)
<1> DEFINE e == [kind |-> "HandViewGranted", request |-> r, grant_epoch |-> n]
<1>1. b = Just(e)
      /\ r \in s.hand_requests /\ n = s.projection_epoch + 1
      /\ Cardinality(s.hand_grants) < MAX_HAND
  BY DEF decide_grant_hand, Accept
<1>2. e.kind = "HandViewGranted" /\ e.request = r /\ e.grant_epoch = n
  OBVIOUS
<1> HIDE DEF e
<1>3. EventAccepted(s, e)
  BY <1>1, <1>2 DEF EventAccepted
<1>4. apply_kind(s, e) = HandViewGranted(s, r, n)
  BY <1>2 DEF apply_kind
<1>5. /\ StateInv(HandViewGranted(s, r, n))
      /\ EpochCovers(HandViewGranted(s, r, n), s)
      /\ HandViewGranted(s, r, n).revision = s.revision
  <2>1. s \in SessionStates
    BY DEF StateInv
  <2>2. /\ HandViewGranted(s, r, n).revision = s.revision
        /\ EpochCovers(HandViewGranted(s, r, n), s)
    BY <1>1, <2>1 DEF HandViewGranted, SessionStates, EpochCovers
  <2> QED
    BY <1>1, <2>2, GrantedKeeps
<1> QED
  BY <1>1, <1>3, <1>4, <1>5, EventKeeps, JustKeeps

(* decide_request_hand: the request's identity is new.                     *)
LEMMA RequestGood ==
    ASSUME NEW s, StateInv(s), NEW p, NEW player,
           NEW b \in decide_request_hand(s, p, player)
    PROVE  GoodBatch(s, b)
<1> DEFINE r == [request_id |-> s.revision, player |-> player,
                 recipient |-> p]
           e == [kind |-> "HandViewRequested", request |-> r]
           t == [HandViewRequested(s, r) EXCEPT !.revision = s.revision + 1]
<1>1. b = Just(e) /\ s.phase \in {"Running", "Paused"}
      /\ p \in s.members /\ s.seat[p] = NoSeat
      /\ player \in s.members /\ s.seat[player] # NoSeat
      /\ Cardinality(s.hand_requests) < MAX_HAND
      /\ \A c \in s.hand_requests \cup s.hand_grants : c.recipient # p
  BY DEF decide_request_hand, Accept, ActiveSeat
<1>2. StateInv(t)
  BY <1>1, RequestedKeeps
<1> HIDE DEF r
<1>3. e.kind = "HandViewRequested" /\ e.request = r
  OBVIOUS
<1> HIDE DEF e
<1>4. EventAccepted(s, e)
  BY <1>1, <1>3 DEF EventAccepted
<1>5. apply(s, e) = t
  BY <1>3 DEF apply, apply_kind
<1>6. t.revision = s.revision + 1 /\ EpochCovers(t, s)
  BY DEF StateInv, SessionStates, HandViewRequested, EpochCovers
<1> HIDE DEF t
<1>7. GoodEvent(s, e)
  BY <1>2, <1>4, <1>5, <1>6 DEF GoodEvent, Applies, StateInv
<1> QED
  BY <1>1, <1>7, JustKeeps

(* Batches with a prelude.  The main event applies in a state w that has   *)
(* left the countdown and lost the capabilities of the principal.          *)

(* After the expiry that expire_capabilities_for chose for p, no           *)
(* capability names p, whether or not an event was needed.                 *)
LEMMA NothingAffected ==
    ASSUME NEW s, NEW p, NEW w, NEW b,
           BeforeMain(w, s, b), b.expire = expire_capabilities_for(s, {p})
    PROVE  \A c \in w.hand_requests \cup w.hand_grants :
               c.player # p /\ c.recipient # p
<1>1. CASE b.expire = {p}
  BY <1>1 DEF BeforeMain, Affected
<1>2. CASE b.expire = {}
  <2>1. Affected(s.hand_requests, {p}) = {} /\ Affected(s.hand_grants, {p}) = {}
    BY <1>2 DEF expire_capabilities_for
  <2> QED
    BY <2>1, <1>2 DEF BeforeMain, Affected
<1> QED
  BY <1>1, <1>2 DEF expire_capabilities_for

(* decide_take_seat: the seat is free in the lobby.                        *)
LEMMA TakeSeatGood ==
    ASSUME NEW s, StateInv(s), NEW p, NEW n,
           NEW b \in decide_take_seat(s, p, n)
    PROVE  GoodBatch(s, b)
<1> DEFINE e == [kind |-> "SeatTaken", principal |-> p, seat |-> n]
           w == AfterExpiry(s, b)
<1>1. /\ b.cancel = FALSE /\ b.main = e /\ s.phase = "Lobby"
      /\ n \in Seats /\ p \in s.members /\ s.seat[p] = NoSeat
      /\ \A q \in s.members : s.seat[q] # n
  BY DEF decide_take_seat, Accept, Batch
<1>2. b.cancel \in BOOLEAN /\ (b.cancel => s.phase = "Countdown")
  BY <1>1
<1>3. BeforeMain(w, s, b)
  BY <1>2, PreludeGood
<1> HIDE DEF w
<1>4. e.kind = "SeatTaken" /\ e.principal = p /\ e.seat = n
  OBVIOUS
<1> HIDE DEF e
<1>5. /\ StateInv(w) /\ w.phase = "Lobby" /\ p \in w.members
      /\ w.seat[p] = NoSeat /\ \A q \in w.members : w.seat[q] # n
  BY <1>1, <1>3 DEF BeforeMain, SameMembership
<1>6. EventAccepted(w, e) /\ apply_kind(w, e) = SeatTaken(w, p, n)
  BY <1>4, <1>5 DEF EventAccepted, apply_kind
<1>7. /\ SeatTaken(w, p, n).revision = w.revision
      /\ EpochCovers(SeatTaken(w, p, n), w)
  BY <1>5 DEF StateInv, SeatTaken, SessionStates, EpochCovers
<1>8. GoodEvent(w, e)
  BY <1>1, <1>5, <1>6, <1>7, SeatTakenKeeps, EventKeeps
<1>9. GoodEvent(AfterExpiry(s, b), b.main)
  BY <1>1, <1>8 DEF w
<1> QED
  BY <1>2, <1>9, BatchKeeps

(* decide_release_seat: releasing in a countdown cancels it first.         *)
LEMMA ReleaseSeatGood ==
    ASSUME NEW s, StateInv(s), NEW p, NEW b \in decide_release_seat(s, p)
    PROVE  GoodBatch(s, b)
<1> DEFINE e == [kind |-> "SeatReleased", principal |-> p,
                 seat |-> s.seat[p]]
           w == AfterExpiry(s, b)
<1>1. /\ b.cancel = (s.phase = "Countdown") /\ b.main = e
      /\ s.phase \in {"Lobby", "Countdown"} /\ p \in s.members
  BY DEF decide_release_seat, Accept, Batch, cancel_countdown_first
<1>2. b.cancel \in BOOLEAN /\ (b.cancel => s.phase = "Countdown")
  BY <1>1
<1>3. BeforeMain(w, s, b)
  BY <1>2, PreludeGood
<1> HIDE DEF w
<1>4. e.kind = "SeatReleased" /\ e.principal = p /\ e.seat = s.seat[p]
  OBVIOUS
<1> HIDE DEF e
<1>5. /\ StateInv(w) /\ w.phase = "Lobby" /\ p \in w.members
      /\ w.seat[p] = s.seat[p]
  BY <1>1, <1>3 DEF BeforeMain, SameMembership
<1>6. EventAccepted(w, e) /\ apply_kind(w, e) = SeatReleased(w, p)
  BY <1>4, <1>5 DEF EventAccepted, apply_kind
<1>7. /\ SeatReleased(w, p).revision = w.revision
      /\ EpochCovers(SeatReleased(w, p), w)
  BY <1>5 DEF StateInv, SeatReleased, SessionStates, EpochCovers
<1>8. GoodEvent(w, e)
  BY <1>5, <1>6, <1>7, SeatReleasedKeeps, EventKeeps
<1>9. GoodEvent(AfterExpiry(s, b), b.main)
  BY <1>1, <1>8 DEF w
<1> QED
  BY <1>2, <1>9, BatchKeeps

(* decide_ready: an Unready in a countdown cancels it first.               *)
LEMMA ReadyGood ==
    ASSUME NEW s, StateInv(s), NEW p, NEW ready \in BOOLEAN,
           NEW b \in decide_ready(s, p, ready)
    PROVE  GoodBatch(s, b)
<1> DEFINE e == [kind |-> "ReadyChanged", principal |-> p, ready |-> ready]
           w == AfterExpiry(s, b)
<1>1. /\ b.cancel = (~ready /\ s.phase = "Countdown") /\ b.main = e
      /\ s.phase = "Lobby" \/ (~ready /\ s.phase = "Countdown")
      /\ p \in s.members /\ s.seat[p] # NoSeat
      /\ ready => s.connected[p]
  BY DEF decide_ready, Accept, Batch, cancel_countdown_first
<1>2. b.cancel \in BOOLEAN /\ (b.cancel => s.phase = "Countdown")
  BY <1>1
<1>3. BeforeMain(w, s, b)
  BY <1>2, PreludeGood
<1> HIDE DEF w
<1>4. e.kind = "ReadyChanged" /\ e.principal = p /\ e.ready = ready
  OBVIOUS
<1> HIDE DEF e
<1>5. /\ StateInv(w) /\ w.phase = "Lobby" /\ p \in w.members
      /\ ready => w.connected[p] /\ w.seat[p] # NoSeat
  BY <1>1, <1>3 DEF BeforeMain, SameMembership
<1>6. EventAccepted(w, e) /\ apply_kind(w, e) = ReadyChanged(w, p, ready)
  BY <1>4, <1>5 DEF EventAccepted, apply_kind
<1>7. /\ ReadyChanged(w, p, ready).revision = w.revision
      /\ EpochCovers(ReadyChanged(w, p, ready), w)
  BY <1>5 DEF StateInv, ReadyChanged, SessionStates, EpochCovers
<1>8. GoodEvent(w, e)
  BY <1>5, <1>6, <1>7, ReadyKeeps, EventKeeps
<1>9. GoodEvent(AfterExpiry(s, b), b.main)
  BY <1>1, <1>8 DEF w
<1> QED
  BY <1>2, <1>9, BatchKeeps

(* decide_transport_disconnect is good in every phase: losing a seated     *)
(* member cancels the countdown first.                                     *)
LEMMA DisconnectGood ==
    ASSUME NEW s, StateInv(s), NEW p,
           NEW b \in decide_transport_disconnect(s, p)
    PROVE  GoodBatch(s, b)
<1> DEFINE e == [kind |-> "MemberDisconnected", principal |-> p]
           w == AfterExpiry(s, b)
<1>1. /\ b.cancel = (s.seat[p] # NoSeat /\ s.phase = "Countdown")
      /\ b.main = e /\ p \in s.members
  BY DEF decide_transport_disconnect, Accept, Batch, cancel_countdown_first
<1>2. b.cancel \in BOOLEAN /\ (b.cancel => s.phase = "Countdown")
  BY <1>1
<1>3. BeforeMain(w, s, b)
  BY <1>2, PreludeGood
<1> HIDE DEF w
<1>4. e.kind = "MemberDisconnected" /\ e.principal = p
  OBVIOUS
<1> HIDE DEF e
<1>5. /\ StateInv(w) /\ p \in w.members
      /\ w.phase = "Countdown" => w.seat[p] = NoSeat
  BY <1>1, <1>3 DEF BeforeMain, SameMembership
<1>6. EventAccepted(w, e) /\ apply_kind(w, e) = MemberDisconnected(w, p)
  BY <1>4, <1>5 DEF EventAccepted, apply_kind
<1>7. /\ MemberDisconnected(w, p).revision = w.revision
      /\ EpochCovers(MemberDisconnected(w, p), w)
  BY <1>5 DEF StateInv, MemberDisconnected, SessionStates, EpochCovers
<1>8. GoodEvent(w, e)
  BY <1>5, <1>6, <1>7, DisconnectedKeeps, EventKeeps
<1>9. GoodEvent(AfterExpiry(s, b), b.main)
  BY <1>1, <1>8 DEF w
<1> QED
  BY <1>2, <1>9, BatchKeeps

(* MembershipLost is good for every member but the host.                   *)
LEMMA LossGood ==
    ASSUME NEW s, StateInv(s), NEW p \in s.members, p # s.host
    PROVE  GoodBatch(s, MembershipLost(s, p))
<1> DEFINE e == [kind |-> "MemberGone", principal |-> p]
           b == MembershipLost(s, p)
           w == AfterExpiry(s, b)
<1>1. /\ b.cancel = (s.seat[p] # NoSeat /\ s.phase = "Countdown")
      /\ b.main = e /\ b.expire = expire_capabilities_for(s, {p})
  BY DEF MembershipLost, Batch, cancel_countdown_first
<1> HIDE DEF b
<1>2. b.cancel \in BOOLEAN /\ (b.cancel => s.phase = "Countdown")
  BY <1>1
<1>3. BeforeMain(w, s, b)
  BY <1>2, PreludeGood
<1> HIDE DEF w
<1>4. e.kind = "MemberGone" /\ e.principal = p
  OBVIOUS
<1> HIDE DEF e
<1>5. /\ StateInv(w) /\ p \in w.members /\ p # w.host
      /\ w.phase = "Countdown" => w.seat[p] = NoSeat
  BY <1>1, <1>3 DEF BeforeMain, SameMembership
<1>6. \A c \in w.hand_requests \cup w.hand_grants :
          c.player # p /\ c.recipient # p
  BY <1>1, <1>3, NothingAffected
<1>7. EventAccepted(w, e) /\ apply_kind(w, e) = MemberGone(w, p)
  BY <1>4, <1>5 DEF EventAccepted, apply_kind
<1>8. /\ MemberGone(w, p).revision = w.revision
      /\ EpochCovers(MemberGone(w, p), w)
  <2>1. w \in SessionStates /\ p \in AllPrincipals
    BY <1>5, InvParts
  <2>2. w.projection_epoch \in Nat
    BY <2>1 DEF SessionStates
  <2>3. SameGame(MemberGone(w, p), w)
    BY <2>1, GoneFields DEF GoneParts
  <2> QED
    BY <2>2, <2>3 DEF SameGame, EpochCovers
<1>9. GoodEvent(w, e)
  BY <1>5, <1>6, <1>7, <1>8, GoneKeeps, EventKeeps
<1>10. GoodEvent(AfterExpiry(s, b), b.main)
  BY <1>1, <1>9 DEF w
<1>11. GoodBatch(s, b)
  BY <1>2, <1>10, BatchKeeps
<1> QED
  BY <1>11 DEF b

(* decide_leave: the last host closes the room, any other member is lost.  *)
LEMMA LeaveGood ==
    ASSUME NEW s, StateInv(s), NEW p, NEW b \in decide_leave(s, p)
    PROVE  GoodBatch(s, b)
<1>1. CASE p \in s.members /\ p = s.host
  <2>1. b \in decide_close(s)
    BY <1>1 DEF decide_leave
  <2>2. s.phase # "Uninitialized"
    BY <1>1 DEF StateInv, validate, PhaseDataValid
  <2> QED
    BY <2>1, <2>2, CloseGood
<1>2. CASE ~(p \in s.members /\ p = s.host)
  <2>1. b = MembershipLost(s, p) /\ p \in s.members
    BY <1>2 DEF decide_leave, Accept
  <2> QED
    BY <1>2, <2>1, LossGood
<1> QED
  BY <1>1, <1>2

(* decide_remove never takes the host.                                     *)
LEMMA RemoveGood ==
    ASSUME NEW s, StateInv(s), NEW p, NEW q, NEW b \in decide_remove(s, p, q)
    PROVE  GoodBatch(s, b)
<1>1. b = MembershipLost(s, q) /\ q \in s.members /\ q # s.host
  BY DEF decide_remove, Accept
<1> QED
  BY <1>1, LossGood

(* transition_event: a scored round expires every capability before        *)
(* GameAdvanced, so none crosses the round boundary.                       *)
LEMMA TransitionGood ==
    ASSUME NEW s, StateInv(s), s.phase = "Running", NEW t,
           t.round_scores \in BOOLEAN, t.terminal \in BOOLEAN,
           t.game \in Games,
           ~t.round_scores => ~t.terminal /\ t.game.round = s.game.round,
           t.round_scores => /\ t.game.round = s.game.round + 1
                             /\ t.terminal <=> t.game.round = ROUNDS
    PROVE  GoodBatch(s, transition_event(s, t))
<1> DEFINE e == [kind |-> "GameAdvanced", transition |-> t]
           b == transition_event(s, t)
           w == AfterExpiry(s, b)
<1>1. /\ b.cancel = FALSE /\ b.main = e
      /\ t.round_scores => b.expire = expire_capabilities_for(s, AllPrincipals)
  BY DEF transition_event, Batch
<1> HIDE DEF b
<1>2. b.cancel \in BOOLEAN /\ (b.cancel => s.phase = "Countdown")
  BY <1>1
<1>3. BeforeMain(w, s, b)
  BY <1>2, PreludeGood
<1> HIDE DEF w
<1>4. e.kind = "GameAdvanced" /\ e.transition = t
  OBVIOUS
<1> HIDE DEF e
<1>5. StateInv(w) /\ w.phase = "Running" /\ w.game = s.game
  BY <1>1, <1>3 DEF BeforeMain
<1>6. t.round_scores => w.hand_requests = {} /\ w.hand_grants = {}
  <2>1. /\ \A r \in s.hand_requests : r.player \in AllPrincipals
        /\ \A g \in s.hand_grants : g.player \in AllPrincipals
    BY DEF StateInv, SessionStates, HandViewRequests, HandViewGrants
  <2>2. /\ Affected(s.hand_requests, AllPrincipals) = s.hand_requests
        /\ Affected(s.hand_grants, AllPrincipals) = s.hand_grants
    BY <2>1 DEF Affected
  <2>3. CASE b.expire = AllPrincipals
    BY <1>3, <2>2, <2>3 DEF BeforeMain
  <2>4. CASE t.round_scores /\ b.expire = {} /\ b.expire # AllPrincipals
    <3>1. s.hand_requests = {} /\ s.hand_grants = {}
      BY <1>1, <2>2, <2>4 DEF expire_capabilities_for
    <3> QED
      BY <1>3, <3>1 DEF BeforeMain
  <2> QED
    BY <1>1, <2>3, <2>4 DEF expire_capabilities_for
<1>7. GoodTransition(w, t)
  BY <1>5, <1>6 DEF GoodTransition
<1>8. EventAccepted(w, e) /\ apply_kind(w, e) = GameAdvanced(w, t)
  BY <1>4, <1>5 DEF EventAccepted, apply_kind
<1>9. /\ GameAdvanced(w, t).revision = w.revision
      /\ EpochCovers(GameAdvanced(w, t), w)
  BY <1>5 DEF StateInv, GameAdvanced, SetPhase, SessionStates, EpochCovers
<1>10. GoodEvent(w, e)
  BY <1>5, <1>7, <1>8, <1>9, AdvancedKeeps, EventKeeps
<1>11. GoodEvent(AfterExpiry(s, b), b.main)
  BY <1>1, <1>10 DEF w
<1>12. GoodBatch(s, b)
  BY <1>2, <1>11, BatchKeeps
<1> QED
  BY <1>12 DEF b

(* A turn change keeps the round; a settlement opens the next one or ends  *)
(* the game at its last.                                                   *)
LEMMA TurnGood ==
    ASSUME NEW s, StateInv(s), s.phase = "Running",
           NEW n \in GameSeats \cup {Environment}
    PROVE  GoodBatch(s, transition_event(s,
               Transition([s.game EXCEPT !.turn = n], FALSE, FALSE)))
<1> DEFINE game == [s.game EXCEPT !.turn = n]
           t == Transition(game, FALSE, FALSE)
<1>1. game \in Games /\ game.round = s.game.round
  BY DEF StateInv, SessionStates, Games, Turns, GameSeats
<1> HIDE DEF game
<1>2. t.game = game /\ t.round_scores = FALSE /\ t.terminal = FALSE
  BY DEF Transition
<1> HIDE DEF t
<1>3. /\ t.round_scores \in BOOLEAN /\ t.terminal \in BOOLEAN
      /\ t.game \in Games
      /\ ~t.round_scores => ~t.terminal /\ t.game.round = s.game.round
      /\ t.round_scores => /\ t.game.round = s.game.round + 1
                           /\ t.terminal <=> t.game.round = ROUNDS
  BY <1>1, <1>2
<1>4. GoodBatch(s, transition_event(s, t))
  BY <1>3, TransitionGood
<1> QED
  BY <1>4 DEF t, game

(* decide_settle: a game in progress has a round to settle.                *)
LEMMA SettleGood ==
    ASSUME NEW s, StateInv(s), NEW b \in decide_settle(s)
    PROVE  GoodBatch(s, b)
<1>1. /\ s.phase = "Running"
      /\ \E t \in settle(s.game) : b = transition_event(s, t)
  BY DEF decide_settle
<1>2. PICK t \in settle(s.game) : b = transition_event(s, t)
  BY <1>1
<1> DEFINE done == s.game.round + 1 = ROUNDS
           game == [turn |-> IF done THEN Finished ELSE Chance,
                    round |-> s.game.round + 1]
<1>3. t = Transition(game, TRUE, done)
  BY DEF settle
<1>4. s.game.round \in Nat /\ s.game.round < ROUNDS /\ ROUNDS \in Nat
  BY <1>1, ReducerAssumption DEF StateInv, SessionStates, Games,
     RoundToPlay, ReducerAssumption
<1>5. s.game.round + 1 \in 0 .. ROUNDS
  BY <1>4
<1>6. /\ game \in Games /\ game.round = s.game.round + 1
      /\ done \in BOOLEAN /\ (done <=> game.round = ROUNDS)
  BY <1>5 DEF Games, Turns
<1> HIDE DEF game, done
<1>7. t.game = game /\ t.round_scores = TRUE /\ t.terminal = done
  BY <1>3 DEF Transition
<1>8. /\ t.round_scores \in BOOLEAN /\ t.terminal \in BOOLEAN
      /\ t.game \in Games
      /\ ~t.round_scores => ~t.terminal /\ t.game.round = s.game.round
      /\ t.round_scores => /\ t.game.round = s.game.round + 1
                           /\ t.terminal <=> t.game.round = ROUNDS
  BY <1>6, <1>7
<1> QED
  BY <1>1, <1>2, <1>8, TransitionGood

(* decide_game_action moves the turn within the round.                     *)
LEMMA ActionGood ==
    ASSUME NEW s, StateInv(s), NEW p, NEW b \in decide_game_action(s, p)
    PROVE  GoodBatch(s, b)
<1>1. /\ s.phase = "Running"
      /\ \E t \in player_transition(s.game) : b = transition_event(s, t)
  BY DEF decide_game_action, MayAct
<1>2. \E n \in GameSeats \cup {Environment} :
          b = transition_event(s,
                  Transition([s.game EXCEPT !.turn = n], FALSE, FALSE))
  BY <1>1 DEF player_transition
<1> QED
  BY <1>1, <1>2, TurnGood

(* decide_chance moves the turn within the round.                          *)
LEMMA ChanceGood ==
    ASSUME NEW s, StateInv(s), NEW b \in decide_chance(s)
    PROVE  GoodBatch(s, b)
<1>1. /\ s.phase = "Running"
      /\ \E t \in chance_transition(s.game) : b = transition_event(s, t)
  BY DEF decide_chance
<1>2. \E n \in GameSeats \cup {Environment} :
          b = transition_event(s,
                  Transition([s.game EXCEPT !.turn = n], FALSE, FALSE))
  BY <1>1 DEF chance_transition
<1> QED
  BY <1>1, <1>2, TurnGood

-----------------------------------------------------------------------------
(* Commands.                                                               *)

(* The kind of a payload, and the types of the arguments that matter.      *)
LEMMA PayloadShape ==
    ASSUME NEW s, NEW c \in CommandPayloads(s)
    PROVE  /\ c.kind \in Commands
           /\ c.kind = "RedeemInvite" => c.invite \in Invites
           /\ c.kind = "ArmCountdown" =>
                  c.deadline_tick \in Ticks /\ c.token \in Tokens
<1> USE DEF Commands, SeatedCommands, MemberCommands, HandOwnerCommands,
        HostCommands, EnvironmentCommands
<1>1. CASE c \in PlainPayloads
  BY <1>1 DEF PlainPayloads, PlainCommands
<1>2. CASE c \in LobbyPayloads
  BY <1>2 DEF LobbyPayloads
<1>3. CASE c \in CountdownPayloads
  BY <1>3 DEF CountdownPayloads
<1>4. CASE c \in TargetPayloads
  BY <1>4 DEF TargetPayloads
<1>5. CASE c \in HandPayloads(s)
  BY <1>5 DEF HandPayloads
<1> QED
  BY <1>1, <1>2, <1>3, <1>4, <1>5 DEF CommandPayloads

(* Every batch decide returns is good, whoever the policies let send the   *)
(* command; closing a room that does not exist is the exception.           *)
LEMMA DecideGood ==
    ASSUME NEW s, StateInv(s), NEW p \in AllPrincipals,
           NEW c \in CommandPayloads(s), NEW b \in decide(s, p, c),
           ~(c.kind = "CloseRoom" /\ s.phase = "Uninitialized")
    PROVE  GoodBatch(s, b)
<1>1. /\ c.kind \in Commands
      /\ c.kind = "RedeemInvite" => c.invite \in Invites
      /\ c.kind = "ArmCountdown" =>
             c.deadline_tick \in Ticks /\ c.token \in Tokens
  BY PayloadShape
<1>2. CASE c.kind = "CreateRoom"
  <2>1. b \in decide_create(s, p)
    BY <1>2 DEF decide
  <2> QED
    BY <1>2, <2>1, CreateGood
<1>3. CASE c.kind = "RedeemInvite"
  <2>1. b \in decide_join(s, p, c.invite)
    BY <1>3 DEF decide
  <2> QED
    BY <1>3, <2>1, <1>1, JoinGood
<1>4. CASE c.kind = "TakeSeat"
  <2>1. b \in decide_take_seat(s, p, c.seat)
    BY <1>4 DEF decide
  <2> QED
    BY <1>4, <2>1, TakeSeatGood
<1>5. CASE c.kind = "ReleaseSeat"
  <2>1. b \in decide_release_seat(s, p)
    BY <1>5 DEF decide
  <2> QED
    BY <1>5, <2>1, ReleaseSeatGood
<1>6. CASE c.kind = "Ready"
  <2>1. b \in decide_ready(s, p, TRUE)
    BY <1>6 DEF decide
  <2> QED
    BY <1>6, <2>1, ReadyGood
<1>7. CASE c.kind = "Unready"
  <2>1. b \in decide_ready(s, p, FALSE)
    BY <1>7 DEF decide
  <2> QED
    BY <1>7, <2>1, ReadyGood
<1>8. CASE c.kind = "ArmCountdown"
  <2>1. b \in decide_arm_countdown(s, c.deadline_tick, c.token)
    BY <1>8 DEF decide
  <2> QED
    BY <1>8, <2>1, <1>1, ArmGood
<1>9. CASE c.kind = "AbortCountdown"
  <2>1. b \in decide_abort_countdown(s)
    BY <1>9 DEF decide
  <2> QED
    BY <1>9, <2>1, AbortGood
<1>10. CASE c.kind = "CountdownExpired"
  <2>1. b \in decide_countdown_expired(s, c.token)
    BY <1>10 DEF decide
  <2> QED
    BY <1>10, <2>1, StartGood
<1>11. CASE c.kind = "Pause"
  <2>1. b \in decide_pause(s)
    BY <1>11 DEF decide
  <2> QED
    BY <1>11, <2>1, PauseGood
<1>12. CASE c.kind = "Unpause"
  <2>1. b \in decide_unpause(s)
    BY <1>12 DEF decide
  <2> QED
    BY <1>12, <2>1, UnpauseGood
<1>13. CASE c.kind = "GameAction"
  <2>1. b \in decide_game_action(s, p)
    BY <1>13 DEF decide
  <2> QED
    BY <1>13, <2>1, ActionGood
<1>14. CASE c.kind = "ApplyChance"
  <2>1. b \in decide_chance(s)
    BY <1>14 DEF decide
  <2> QED
    BY <1>14, <2>1, ChanceGood
<1>15. CASE c.kind = "Settle"
  <2>1. b \in decide_settle(s)
    BY <1>15 DEF decide
  <2> QED
    BY <1>15, <2>1, SettleGood
<1>16. CASE c.kind = "Chat"
  <2>1. b \in decide_chat(s, p)
    BY <1>16 DEF decide
  <2> QED
    BY <1>16, <2>1, ChatGood
<1>17. CASE c.kind = "Reconnect"
  <2>1. b \in decide_reconnect(s, p)
    BY <1>17 DEF decide
  <2> QED
    BY <1>17, <2>1, ReconnectGood
<1>18. CASE c.kind = "Leave"
  <2>1. b \in decide_leave(s, p)
    BY <1>18 DEF decide
  <2> QED
    BY <1>18, <2>1, LeaveGood
<1>19. CASE c.kind = "RemoveMember"
  <2>1. b \in decide_remove(s, p, c.target)
    BY <1>19 DEF decide
  <2> QED
    BY <1>19, <2>1, RemoveGood
<1>20. CASE c.kind = "ResetLobby"
  <2>1. b \in decide_reset(s)
    BY <1>20 DEF decide
  <2> QED
    BY <1>20, <2>1, ResetGood
<1>21. CASE c.kind = "CloseRoom"
  <2>1. b \in decide_close(s)
    BY <1>21 DEF decide
  <2> QED
    BY <1>21, <2>1, CloseGood
<1>22. CASE c.kind = "RequestHand"
  <2>1. b \in decide_request_hand(s, p, c.player)
    BY <1>22 DEF decide
  <2> QED
    BY <1>22, <2>1, RequestGood
<1>23. CASE c.kind = "GrantHand"
  <2>1. b \in decide_grant_hand(s, p, c.request, c.grant_epoch)
    BY <1>23 DEF decide
  <2> QED
    BY <1>23, <2>1, GrantGood
<1>24. CASE c.kind = "DenyHand"
  <2>1. b \in decide_deny_hand(s, p, c.request)
    BY <1>24 DEF decide
  <2> QED
    BY <1>24, <2>1, DenyGood
<1>25. CASE c.kind = "RevokeHand"
  <2>1. b \in decide_revoke_hand(s, p, c.grant)
    BY <1>25 DEF decide
  <2> QED
    BY <1>25, <2>1, RevokeGood
<1> QED
  BY <1>1, <1>2, <1>3, <1>4, <1>5, <1>6, <1>7, <1>8, <1>9, <1>10, <1>11,
     <1>12, <1>13, <1>14, <1>15, <1>16, <1>17, <1>18, <1>19, <1>20, <1>21,
     <1>22, <1>23, <1>24, <1>25
     DEF Commands, SeatedCommands, MemberCommands, HandOwnerCommands,
     HostCommands, EnvironmentCommands

(* decide_close accepts an Uninitialized room, but validate refuses the    *)
(* result: Closed needs an epoch.                                          *)
LEMMA UncreatedCannotClose ==
    ASSUME NEW s, StateInv(s), s.phase = "Uninitialized",
           NEW b \in decide_close(s)
    PROVE  ~BatchApplies(s, b)
<1> DEFINE e == [kind |-> "RoomClosed"]
           v == SetPhase(s, "Closed")
           u == AllUnready(v)
<1>0. s \in SessionStates /\ s.session_epoch = 0
  BY DEF StateInv, validate, PhaseDataValid
<1>1. b = Just(e)
  BY DEF decide_close, Accept
<1>2. b.cancel = FALSE /\ b.expire = {} /\ b.main = e
  BY <1>1 DEF Just, Batch
<1>3. AfterExpiry(s, b) = s
  BY <1>2 DEF AfterExpiry, AfterCancel
<1>4. v \in SessionStates /\ SameRoom(v, s) /\ v.phase = "Closed"
  BY <1>0, SetPhaseFields DEF Phases
<1> HIDE DEF v
<1>5. u \in SessionStates /\ u.session_epoch = 0 /\ u.phase = "Closed"
  BY <1>0, <1>4, AllUnreadyFields DEF SameRoom
<1>6. apply_kind(s, e) = u
  BY DEF apply_kind, RoomClosed, v
<1> HIDE DEF u, e
<1>7. LET t == apply(s, e) IN t.session_epoch = 0 /\ t.phase = "Closed"
  BY <1>5, <1>6 DEF apply, SessionStates
<1>8. ~validate(apply(s, e))
  BY <1>7 DEF validate, PhaseDataValid
<1> QED
  BY <1>2, <1>3, <1>8 DEF BatchApplies, Applies

(* SessionState::pending satisfies the invariant.                          *)
LEMMA PendingGood == StateInv(pending)
<1> DEFINE s == pending
<1>1. s \in SessionStates
  <2>1. 0 \in 0 .. CHAT_MESSAGES_PER_WINDOW /\ 0 \in 0 .. ROUNDS
    BY ReducerAssumption DEF ReducerAssumption
  <2> QED
    BY <2>1, GameTypes DEF pending, SessionStates, Phases
<1>2. /\ s.phase = "Uninitialized" /\ s.members = {} /\ s.session_epoch = 0
      /\ s.host = NoPrincipal /\ s.hand_requests = {} /\ s.hand_grants = {}
      /\ \A p \in AllPrincipals : s.seat[p] = NoSeat /\ ~s.ready[p]
  BY DEF pending
<1> HIDE DEF s
<1>3. Cardinality({}) = 0 /\ IsFiniteSet({})
  BY FS_EmptySet
<1>4. validate(s)
  BY <1>2, <1>3, ReducerAssumption DEF validate, MembersValid,
     ReadinessValid, SeatsValid, PhaseDataValid, HostValid, RequestsValid,
     GrantsValid, ReducerAssumption
<1>5. /\ OnlyInGame(s) /\ OnePerRecipient(s) /\ RoundsCounted(s)
      /\ NoStaleSeat(s) /\ RequestsArePast(s) /\ FiniteCapabilities(s)
      /\ RoundToPlay(s)
  BY <1>2, <1>3 DEF OnlyInGame, OnePerRecipient, RoundsCounted,
     NoStaleSeat, RequestsArePast, FiniteCapabilities, RoundToPlay,
     GamePhases
<1> QED
  BY <1>1, <1>4, <1>5 DEF StateInv, s

=============================================================================
