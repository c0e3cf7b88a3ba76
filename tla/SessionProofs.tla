--------------------------- MODULE SessionProofs ---------------------------
(***************************************************************************)
(* Proofs about Session, for every value of the constants: the reducer's   *)
(* inductive invariant, and that what decide accepts, apply accepts.       *)
(***************************************************************************)
EXTENDS SessionReducerProofs, SessionHistory

-----------------------------------------------------------------------------
(* Behaviours.                                                             *)

(* Every step is a decided batch that applies.                             *)
LEMMA StepIsDecided ==
    ASSUME NEW p \in AllPrincipals, Step(p)
    PROVE  \/ \E c \in CommandPayloads(state) : Submit(p, c)
           \/ TransportDisconnect(p)
<1>1. CASE \E k \in PlainCommands : Submit(p, [kind |-> k])
  BY <1>1 DEF CommandPayloads, PlainPayloads
<1>2. CASE RedeemInvite(p) \/ TakeSeat(p)
  BY <1>2 DEF RedeemInvite, TakeSeat, CommandPayloads, LobbyPayloads
<1>3. CASE ArmCountdown(p) \/ CountdownExpired(p)
  <2>1. CASE ArmCountdown(p)
    <3>1. PICK d \in Ticks, t \in Tokens :
              Submit(p, [kind |-> "ArmCountdown", deadline_tick |-> d,
                         token |-> t])
      BY <2>1 DEF ArmCountdown
    <3>2. [kind |-> "ArmCountdown", deadline_tick |-> d, token |-> t]
            \in CountdownPayloads
      BY DEF CountdownPayloads
    <3> QED
      BY <3>1, <3>2 DEF CommandPayloads
  <2>2. CASE CountdownExpired(p)
    BY <2>2 DEF CountdownExpired, CommandPayloads, CountdownPayloads
  <2> QED
    BY <1>3, <2>1, <2>2
<1>4. CASE RemoveMember(p) \/ RequestHand(p)
  BY <1>4 DEF RemoveMember, RequestHand, CommandPayloads, TargetPayloads
<1>5. CASE GrantHand(p) \/ DenyHand(p) \/ RevokeHand(p)
  <2>1. CASE GrantHand(p)
    <3>1. PICK r \in state.hand_requests,
               n \in {state.projection_epoch, state.projection_epoch + 1} :
              Submit(p, [kind |-> "GrantHand", request |-> r,
                         grant_epoch |-> n])
      BY <2>1 DEF GrantHand
    <3>2. [kind |-> "GrantHand", request |-> r, grant_epoch |-> n]
            \in HandPayloads(state)
      BY DEF HandPayloads
    <3> QED
      BY <3>1, <3>2 DEF CommandPayloads
  <2>2. CASE DenyHand(p)
    <3>1. PICK r \in state.hand_requests :
              Submit(p, [kind |-> "DenyHand", request |-> r])
      BY <2>2 DEF DenyHand
    <3>2. [kind |-> "DenyHand", request |-> r] \in HandPayloads(state)
      BY DEF HandPayloads
    <3> QED
      BY <3>1, <3>2 DEF CommandPayloads
  <2>3. CASE RevokeHand(p)
    <3>1. PICK g \in state.hand_grants :
              Submit(p, [kind |-> "RevokeHand", grant |-> g])
      BY <2>3 DEF RevokeHand
    <3>2. [kind |-> "RevokeHand", grant |-> g] \in HandPayloads(state)
      BY DEF HandPayloads
    <3> QED
      BY <3>1, <3>2 DEF CommandPayloads
  <2> QED
    BY <1>5, <2>1, <2>2, <2>3
<1> QED
  BY <1>1, <1>2, <1>3, <1>4, <1>5 DEF Step, CreateRoom, ReleaseSeat, Ready,
     Unready, AbortCountdown, Pause, Unpause, GameAction, ApplyChance,
     Settle, Chat, Reconnect, Leave, ResetLobby, CloseRoom, PlainCommands,
     SeatedCommands, EnvironmentCommands

(* Committing a good batch keeps the invariant and the epoch rule.         *)
LEMMA CommitKeeps ==
    ASSUME Inv, NEW b, Commit(b), GoodBatch(state, b)
    PROVE  Inv' /\ EpochCovers(state', state)
<1>1. /\ state' = AfterBatch(state, b) /\ StateInv(AfterBatch(state, b))
      /\ EpochCovers(AfterBatch(state, b), state)
      /\ AfterBatch(state, b).revision <= MaxRevision
  BY DEF Commit, RevisionsLeft, GoodBatch
<1> QED
  BY <1>1 DEF Inv

(* Every command and every transport loss keeps the invariant and the      *)
(* epoch rule.                                                             *)
LEMMA StepKeeps ==
    ASSUME Inv, NEW p \in AllPrincipals, Step(p)
    PROVE  Inv' /\ EpochCovers(state', state)
<1>0. StateInv(state)
  BY DEF Inv
<1>1. CASE \E c \in CommandPayloads(state) : Submit(p, c)
  <2>1. PICK c \in CommandPayloads(state) : Submit(p, c)
    BY <1>1
  <2>2. PICK b \in decide(state, p, c) : Commit(b)
    BY <2>1 DEF Submit
  <2>3. ~(c.kind = "CloseRoom" /\ state.phase = "Uninitialized")
    BY <1>0, <2>2, UncreatedCannotClose DEF Commit, decide
  <2> QED
    BY <1>0, <2>2, <2>3, DecideGood, CommitKeeps
<1>2. CASE TransportDisconnect(p)
  <2>1. PICK b \in decide_transport_disconnect(state, p) : Commit(b)
    BY <1>2 DEF TransportDisconnect
  <2> QED
    BY <1>0, <2>1, DisconnectGood, CommitKeeps
<1> QED
  BY <1>1, <1>2, StepIsDecided

(* The reducer's invariant holds in every reachable state, for any number  *)
(* of principals, any capacities, any invites and any policies: validate   *)
(* never refuses the state the session is in.                              *)
THEOREM InvHolds == Spec => []Inv
<1>1. Init => Inv
  BY PendingGood, ReducerAssumption DEF Init, Inv, pending, ReducerAssumption
<1>2. Inv /\ [Next]_state => Inv'
  <2> SUFFICES ASSUME Inv, [Next]_state PROVE Inv'
    OBVIOUS
  <2>1. CASE Next
    BY <2>1, StepKeeps DEF Next
  <2>2. CASE UNCHANGED state
    BY <2>2 DEF Inv
  <2> QED
    BY <2>1, <2>2
<1> QED
  BY <1>1, <1>2, PTL DEF Spec

(* Type correctness of SessionState.                                       *)
THEOREM TypeCorrect == Spec => []TypeOK
<1>1. Inv => TypeOK
  BY DEF Inv, StateInv, TypeOK
<1> QED
  BY <1>1, InvHolds, PTL

(* decide and apply agree: no batch the reducer decides is refused by      *)
(* apply_kind or by validate, on any of its intermediate states.           *)
THEOREM BatchesApply == Spec => []DecidedBatchesApply
<1>1. Inv => DecidedBatchesApply
  BY DecideGood, DisconnectGood DEF Inv, DecidedBatchesApply, GoodBatch
<1> QED
  BY <1>1, InvHolds, PTL

(* No hand request or grant outlives the game it was made in.              *)
THEOREM CapabilitiesEnd == Spec => []CapabilitiesOnlyInGame
<1>1. Inv => CapabilitiesOnlyInGame
  BY DEF Inv, StateInv, CapabilitiesOnlyInGame
<1> QED
  BY <1>1, InvHolds, PTL

(* No recipient is shown two hands, or asks for a second.                  *)
THEOREM OneCapability == Spec => []OneCapabilityPerRecipient
<1>1. Inv => OneCapabilityPerRecipient
  BY DEF Inv, StateInv, OneCapabilityPerRecipient
<1> QED
  BY <1>1, InvHolds, PTL

(* The public history has exactly the rounds of the current game.          *)
THEOREM HistoryCounts == Spec => []HistoryCountsRounds
<1>1. Inv => HistoryCountsRounds
  BY DEF Inv, StateInv, HistoryCountsRounds
<1> QED
  BY <1>1, InvHolds, PTL

(* Every step that changes who may see a hand raises projection_epoch.     *)
THEOREM EpochRises == Spec => GrantChangeRaisesEpoch
<1>1. Inv /\ [Next]_state => [state'.hand_grants # state.hand_grants
                                  => state'.projection_epoch
                                       > state.projection_epoch]_state
  BY StepKeeps DEF Next, EpochCovers
<1> QED
  BY <1>1, InvHolds, PTL DEF Spec, GrantChangeRaisesEpoch

-----------------------------------------------------------------------------
(* Hands: who holds a seat of the game, and who agreed to be looked at.    *)

(* From s to t nobody gains a seat.                                        *)
SeatsStay(t, s) ==
    \A q \in t.members : t.seat[q] # NoSeat
        => q \in s.members /\ s.seat[q] = t.seat[q]

(* An event that shows no hand to anybody new while a game is on, and that *)
(* closes the room only with everybody unready.                            *)
Quiet(t, s) ==
    /\ t.phase \in GamePhases =>
           /\ s.phase \in GamePhases /\ t.game = s.game
           /\ SeatsStay(t, s) /\ t.hand_grants \subseteq s.hand_grants
    /\ t.phase = "Closed" => s.phase = "Closed" \/ t.ready = NoneReady

LoudKinds == {"GameStarted", "GameAdvanced", "HandViewGranted"}
MemberKinds == {"SeatTaken", "SeatReleased", "ReadyChanged", "ChatPosted",
                "MemberJoined", "MemberDisconnected", "MemberReconnected",
                "MemberGone"}
PhaseKinds == {"RoomCreated", "CountdownArmed", "CountdownCancelled", "Paused",
               "Unpaused", "LobbyReset", "RoomClosed"}
HandKinds == {"HandViewRequested", "HandViewDenied", "HandViewRevoked"}

(* The parts of a state that Quiet looks at survive apply's revision step. *)
LEMMA QuietAfterApply ==
    ASSUME NEW s, NEW e, apply(s, e) \in SessionStates,
           Quiet(apply_kind(s, e), s)
    PROVE  Quiet(apply(s, e), s)
<1> DEFINE u == apply_kind(s, e)
           t == apply(s, e)
<1>1. t = [u EXCEPT !.revision = s.revision + 1]
  BY DEF apply
<1> HIDE DEF u
<1>2. DOMAIN t = DOMAIN u
      /\ {"phase", "game", "members", "seat", "ready", "hand_grants"} \subseteq DOMAIN t
  BY <1>1 DEF SessionStates
<1>3. /\ t.phase = u.phase /\ t.game = u.game /\ t.members = u.members
      /\ t.seat = u.seat /\ t.ready = u.ready /\ t.hand_grants = u.hand_grants
  BY <1>1, <1>2
<1> QED
  BY <1>3 DEF Quiet, SeatsStay, u

(* An event that leaves phase, game and grants alone is quiet when it      *)
(* gives nobody a seat during a game.                                      *)
LEMMA QuietMembers ==
    ASSUME NEW s, NEW t, t.phase = s.phase, t.game = s.game,
           t.hand_grants \subseteq s.hand_grants,
           s.phase \in GamePhases => SeatsStay(t, s)
    PROVE  Quiet(t, s)
BY DEF Quiet

(* Events about members.  A seat is taken or released only between games,  *)
(* and a newcomer brings none.                                             *)
LEMMA MemberEventsAreQuiet ==
    ASSUME NEW s, StateInv(s), NEW e, e.kind \in MemberKinds,
           e.kind \in {"SeatTaken", "SeatReleased"} => s.phase \notin GamePhases,
           e.kind = "MemberJoined" => e.principal \in AllPrincipals
    PROVE  Quiet(apply_kind(s, e), s)
<1> DEFINE t == apply_kind(s, e)
<1>0. s \in SessionStates /\ NoStaleSeat(s)
  BY DEF StateInv
<1>1. CASE e.kind = "SeatTaken"
  <2>1. t = SeatTaken(s, e.principal, e.seat)
    BY <1>1 DEF apply_kind
  <2>2. t.phase = s.phase /\ t.game = s.game /\ t.hand_grants = s.hand_grants
    BY <1>0, <2>1 DEF SeatTaken, SessionStates
  <2> QED
    BY <1>1, <2>2, QuietMembers
<1>2. CASE e.kind = "SeatReleased"
  <2>1. t = SeatReleased(s, e.principal)
    BY <1>2 DEF apply_kind
  <2>2. t.phase = s.phase /\ t.game = s.game /\ t.hand_grants = s.hand_grants
    BY <1>0, <2>1 DEF SeatReleased, SessionStates
  <2> QED
    BY <1>2, <2>2, QuietMembers
<1>3. CASE e.kind \in {"ReadyChanged", "ChatPosted", "MemberDisconnected",
                       "MemberReconnected"}
  <2>1. t \in {ReadyChanged(s, e.principal, e.ready), ChatPosted(s, e.principal),
               MemberDisconnected(s, e.principal),
               MemberReconnected(s, e.principal)}
    BY <1>3 DEF apply_kind
  <2>2. /\ t.phase = s.phase /\ t.game = s.game /\ t.hand_grants = s.hand_grants
        /\ t.members = s.members /\ t.seat = s.seat
    <3>1. CASE t = ReadyChanged(s, e.principal, e.ready)
      BY <1>0, <3>1 DEF ReadyChanged, SessionStates
    <3>2. CASE t = ChatPosted(s, e.principal)
      BY <1>0, <3>2 DEF ChatPosted, SessionStates
    <3>3. CASE t = MemberDisconnected(s, e.principal)
      BY <1>0, <3>3 DEF MemberDisconnected, SessionStates
    <3>4. CASE t = MemberReconnected(s, e.principal)
      BY <1>0, <3>4 DEF MemberReconnected, SessionStates
    <3> QED
      BY <2>1, <3>1, <3>2, <3>3, <3>4
  <2> QED
    BY <2>2, QuietMembers DEF SeatsStay
<1>4. CASE e.kind = "MemberJoined"
  <2>1. t = MemberJoined(s, e.principal, e.invite)
    BY <1>4 DEF apply_kind
  <2>2. /\ t.phase = s.phase /\ t.game = s.game /\ t.hand_grants = s.hand_grants
        /\ t.members = s.members \cup {e.principal} /\ t.seat = s.seat
    BY <1>0, <2>1 DEF MemberJoined, AddMember, SessionStates
  <2> QED
    BY <1>0, <1>4, <2>2, QuietMembers DEF SeatsStay, NoStaleSeat
<1>5. CASE e.kind = "MemberGone"
  <2>1. t = MemberGone(s, e.principal)
    BY <1>5 DEF apply_kind
  <2>2. /\ t.phase = s.phase /\ t.game = s.game /\ t.hand_grants = s.hand_grants
        /\ t.members = s.members \ {e.principal}
        /\ t.seat = [s.seat EXCEPT ![e.principal] = NoSeat]
    BY <1>0, <2>1 DEF MemberGone, SessionStates
  <2>3. SeatsStay(t, s)
    <3>1. s.seat \in [AllPrincipals -> Seats \cup {NoSeat}]
          /\ s.members \subseteq AllPrincipals
      BY <1>0 DEF SessionStates
    <3> HIDE DEF t
    <3> QED
      BY <2>2, <3>1 DEF SeatsStay
  <2> QED
    BY <2>2, <2>3, QuietMembers
<1> QED
  BY <1>1, <1>2, <1>3, <1>4, <1>5 DEF MemberKinds

(* Events about the phase.  Pause and unpause keep the table as it is; the *)
(* others lead out of the game.                                            *)
LEMMA PhaseEventsAreQuiet ==
    ASSUME NEW s \in SessionStates, NEW e, e.kind \in PhaseKinds,
           EventAccepted(s, e)
    PROVE  Quiet(apply_kind(s, e), s)
<1> DEFINE t == apply_kind(s, e)
<1>1. CASE e.kind \in {"Paused", "Unpaused"}
  <2>1. PICK phase \in {"Paused", "Running"} : t = SetPhase(s, phase)
    BY <1>1 DEF apply_kind
  <2>2. s.phase \in GamePhases /\ phase \in Phases /\ phase \in GamePhases
    BY <1>1 DEF EventAccepted, GamePhases, Phases
  <2>3. SameRoom(t, s) /\ t.phase = phase /\ t.game = s.game
    BY <2>1, <2>2, SetPhaseFields
  <2> HIDE DEF t
  <2>4. t.phase # "Closed"
    BY <2>2, <2>3 DEF GamePhases
  <2>5. SeatsStay(t, s) /\ t.hand_grants = s.hand_grants
    BY <2>3 DEF SameRoom, SeatsStay
  <2>6. Quiet(t, s)
    BY <2>2, <2>3, <2>4, <2>5 DEF Quiet
  <2> QED
    BY <2>6 DEF t
<1>2. CASE e.kind \in {"RoomCreated", "CountdownArmed", "CountdownCancelled",
                       "LobbyReset"}
  <2>1. t.phase \in {"Lobby", "Countdown"}
    <3>1. CASE e.kind = "RoomCreated"
      BY <3>1 DEF apply_kind, RoomCreated, AddMember, SetPhase, SessionStates
    <3>2. CASE e.kind = "CountdownArmed"
      BY <3>2 DEF apply_kind, CountdownArmed, SetPhase, SessionStates
    <3>3. CASE e.kind = "CountdownCancelled"
      BY <3>3 DEF apply_kind, CountdownCancelled, SetPhase, SessionStates
    <3>4. CASE e.kind = "LobbyReset"
      BY <3>4 DEF apply_kind, LobbyReset, AllUnready, SetPhase, SessionStates
    <3> QED
      BY <1>2, <3>1, <3>2, <3>3, <3>4
  <2> QED
    BY <2>1 DEF Quiet, GamePhases
<1>3. CASE e.kind = "RoomClosed"
  <2>1. t.phase = "Closed" /\ t.ready = NoneReady
    BY <1>3 DEF apply_kind, RoomClosed, AllUnready, SetPhase, SessionStates,
       NoneReady
  <2> QED
    BY <2>1 DEF Quiet, GamePhases
<1> QED
  BY <1>1, <1>2, <1>3 DEF PhaseKinds

(* Requests, denials and revocations show no hand.                         *)
LEMMA HandEventsAreQuiet ==
    ASSUME NEW s \in SessionStates, NEW e, e.kind \in HandKinds
    PROVE  Quiet(apply_kind(s, e), s)
<1> DEFINE t == apply_kind(s, e)
<1>1. /\ t.phase = s.phase /\ t.game = s.game /\ t.members = s.members
      /\ t.seat = s.seat /\ t.hand_grants \subseteq s.hand_grants
  <2>1. CASE e.kind = "HandViewRequested"
    BY <2>1 DEF apply_kind, HandViewRequested, SessionStates
  <2>2. CASE e.kind = "HandViewDenied"
    BY <2>2 DEF apply_kind, HandViewDenied, SessionStates
  <2>3. CASE e.kind = "HandViewRevoked"
    BY <2>3 DEF apply_kind, HandViewRevoked, SessionStates
  <2> QED
    BY <2>1, <2>2, <2>3 DEF HandKinds
<1> QED
  BY <1>1, QuietMembers DEF SeatsStay

(* What decide established about the main event of a batch it returned to  *)
(* p: seats change between games only, a grant is the player's own answer, *)
(* and a round that scores expires every capability.                       *)
MainFits(p, s, b) ==
    LET e == b.main IN
    /\ e.kind \in LoudKinds \cup MemberKinds \cup PhaseKinds \cup HandKinds
    /\ b.cancel \in BOOLEAN /\ (b.cancel => s.phase = "Countdown")
    /\ e.kind \in {"SeatTaken", "SeatReleased"} => s.phase \notin GamePhases
    /\ e.kind = "MemberJoined" => e.principal \in AllPrincipals
    /\ e.kind = "HandViewGranted" =>
           e.request.player = p /\ b.cancel = FALSE /\ b.expire = {}
    /\ e.kind = "GameStarted" => b.cancel = FALSE
    /\ e.kind = "GameAdvanced" =>
           /\ b.cancel = FALSE
           /\ \/ e.transition.game.round = s.game.round
              \/ b.expire = expire_capabilities_for(s, AllPrincipals)

(* A batch of one event of a kind without conditions fits.                 *)
PlainKinds == PhaseKinds \cup HandKinds
              \cup {"ReadyChanged", "ChatPosted", "MemberDisconnected",
                    "MemberReconnected", "MemberGone"}

LEMMA PlainFits ==
    ASSUME NEW p, NEW s, NEW b, b.main.kind \in PlainKinds,
           b.cancel \in BOOLEAN, b.cancel => s.phase = "Countdown"
    PROVE  MainFits(p, s, b)
BY DEF MainFits, PlainKinds, LoudKinds, MemberKinds, PhaseKinds, HandKinds

LEMMA JustFits ==
    ASSUME NEW p, NEW s, NEW e, e.kind \in PlainKinds
    PROVE  MainFits(p, s, Just(e))
<1>1. Just(e).main = e /\ Just(e).cancel = FALSE
  BY DEF Just, Batch
<1> QED
  BY <1>1, PlainFits

(* decide_create, decide_arm_countdown, decide_pause and the like return   *)
(* one event without conditions.                                           *)
LEMMA SimpleFits ==
    ASSUME NEW p, NEW s, NEW q, NEW d, NEW n, NEW r, NEW g, NEW player,
           NEW b, \/ b \in decide_create(s, p)
                  \/ b \in decide_arm_countdown(s, d, n)
                  \/ b \in decide_abort_countdown(s)
                  \/ b \in decide_pause(s)
                  \/ b \in decide_unpause(s)
                  \/ b \in decide_chat(s, p)
                  \/ b \in decide_reconnect(s, p)
                  \/ b \in decide_reset(s)
                  \/ b \in decide_close(s)
                  \/ b \in decide_request_hand(s, p, player)
                  \/ b \in decide_deny_hand(s, p, r)
                  \/ b \in decide_revoke_hand(s, p, g)
    PROVE  MainFits(q, s, b)
<1>1. \E e : b = Just(e) /\ e.kind \in PlainKinds
  <2> USE DEF PlainKinds, PhaseKinds, HandKinds, Accept
  <2>1. CASE b \in decide_create(s, p)
    BY <2>1 DEF decide_create
  <2>2. CASE b \in decide_arm_countdown(s, d, n)
    BY <2>2 DEF decide_arm_countdown
  <2>3. CASE b \in decide_abort_countdown(s)
    BY <2>3 DEF decide_abort_countdown
  <2>4. CASE b \in decide_pause(s)
    BY <2>4 DEF decide_pause
  <2>5. CASE b \in decide_unpause(s)
    BY <2>5 DEF decide_unpause
  <2>6. CASE b \in decide_chat(s, p)
    BY <2>6 DEF decide_chat
  <2>7. CASE b \in decide_reconnect(s, p)
    BY <2>7 DEF decide_reconnect
  <2>8. CASE b \in decide_reset(s)
    BY <2>8 DEF decide_reset
  <2>9. CASE b \in decide_close(s)
    BY <2>9 DEF decide_close
  <2>10. CASE b \in decide_request_hand(s, p, player)
    BY <2>10 DEF decide_request_hand
  <2>11. CASE b \in decide_deny_hand(s, p, r)
    BY <2>11 DEF decide_deny_hand
  <2>12. CASE b \in decide_revoke_hand(s, p, g)
    BY <2>12 DEF decide_revoke_hand
  <2> QED
    BY <2>1, <2>2, <2>3, <2>4, <2>5, <2>6, <2>7, <2>8, <2>9, <2>10, <2>11,
       <2>12
<1> QED
  BY <1>1, JustFits

(* The events with conditions, each with the check of its decide function. *)
LEMMA JoinFits ==
    ASSUME NEW s, NEW p \in AllPrincipals, NEW i, NEW b \in decide_join(s, p, i)
    PROVE  MainFits(p, s, b)
<1>1. /\ b.cancel = FALSE /\ b.main.kind = "MemberJoined"
      /\ b.main.principal = p
  BY DEF decide_join, Accept, Just, Batch
<1> QED
  BY <1>1 DEF MainFits, MemberKinds

LEMMA SeatFits ==
    ASSUME NEW s, NEW p, NEW n, NEW b,
           b \in decide_take_seat(s, p, n) \/ b \in decide_release_seat(s, p)
    PROVE  MainFits(p, s, b)
<1>1. /\ b.cancel \in BOOLEAN /\ (b.cancel => s.phase = "Countdown")
      /\ s.phase \in {"Lobby", "Countdown"}
      /\ b.main.kind \in {"SeatTaken", "SeatReleased"}
  <2>1. CASE b \in decide_take_seat(s, p, n)
    <3>1. /\ b = Batch(FALSE, expire_capabilities_for(s, {p}),
                       [kind |-> "SeatTaken", principal |-> p, seat |-> n])
          /\ s.phase = "Lobby"
      BY <2>1 DEF decide_take_seat, Accept
    <3> QED
      BY <3>1 DEF Batch
  <2>2. CASE b \in decide_release_seat(s, p)
    <3>1. /\ b = Batch(s.phase = "Countdown", expire_capabilities_for(s, {p}),
                       [kind |-> "SeatReleased", principal |-> p,
                        seat |-> s.seat[p]])
          /\ s.phase \in {"Lobby", "Countdown"}
      BY <2>2 DEF decide_release_seat, Accept, cancel_countdown_first
    <3> QED
      BY <3>1 DEF Batch
  <2> QED
    BY <2>1, <2>2
<1> QED
  BY <1>1 DEF MainFits, MemberKinds, GamePhases

LEMMA ReadyFits ==
    ASSUME NEW s, NEW p, NEW ready \in BOOLEAN, NEW b \in decide_ready(s, p, ready)
    PROVE  MainFits(p, s, b)
<1>1. b = Batch(~ready /\ s.phase = "Countdown", {},
                [kind |-> "ReadyChanged", principal |-> p, ready |-> ready])
  BY DEF decide_ready, Accept, cancel_countdown_first
<1>2. /\ b.cancel \in BOOLEAN /\ (b.cancel => s.phase = "Countdown")
      /\ b.main.kind = "ReadyChanged"
  BY <1>1 DEF Batch
<1> QED
  BY <1>2, PlainFits DEF PlainKinds

LEMMA StartFits ==
    ASSUME NEW s, NEW p, NEW n, NEW b \in decide_countdown_expired(s, n)
    PROVE  MainFits(p, s, b)
<1>1. b.cancel = FALSE /\ b.main.kind = "GameStarted"
  BY DEF decide_countdown_expired, Accept, Just, Batch
<1> QED
  BY <1>1 DEF MainFits, LoudKinds

LEMMA GrantFits ==
    ASSUME NEW s, NEW p, NEW r, NEW n, NEW b \in decide_grant_hand(s, p, r, n)
    PROVE  MainFits(p, s, b)
<1>1. /\ b.cancel = FALSE /\ b.expire = {} /\ b.main.kind = "HandViewGranted"
      /\ b.main.request.player = p
  BY DEF decide_grant_hand, Accept, Just, Batch
<1> QED
  BY <1>1 DEF MainFits, LoudKinds

(* MembershipLost, of a leave or a removal.                                *)
LEMMA LossFits ==
    ASSUME NEW s, NEW p, NEW q, NEW b,
           b \in decide_leave(s, q) \/ b \in decide_remove(s, p, q)
    PROVE  MainFits(p, s, b)
<1>1. CASE b = MembershipLost(s, q)
  <2>1. b = Batch(s.seat[q] # NoSeat /\ s.phase = "Countdown",
                  expire_capabilities_for(s, {q}),
                  [kind |-> "MemberGone", principal |-> q])
    BY <1>1 DEF MembershipLost, cancel_countdown_first
  <2>2. /\ b.cancel \in BOOLEAN /\ (b.cancel => s.phase = "Countdown")
        /\ b.main.kind = "MemberGone"
    BY <2>1 DEF Batch
  <2> QED
    BY <2>2, PlainFits DEF PlainKinds
<1>2. CASE b \in decide_close(s)
  BY <1>2, SimpleFits
<1>3. b = MembershipLost(s, q) \/ b \in decide_close(s)
  BY DEF decide_leave, decide_remove, Accept
<1> QED
  BY <1>1, <1>2, <1>3

LEMMA DisconnectFits ==
    ASSUME NEW s, NEW p, NEW b \in decide_transport_disconnect(s, p)
    PROVE  MainFits(p, s, b)
<1>1. b = Batch(s.seat[p] # NoSeat /\ s.phase = "Countdown", {},
                [kind |-> "MemberDisconnected", principal |-> p])
  BY DEF decide_transport_disconnect, Accept, cancel_countdown_first
<1>2. /\ b.cancel \in BOOLEAN /\ (b.cancel => s.phase = "Countdown")
      /\ b.main.kind = "MemberDisconnected"
  BY <1>1 DEF Batch
<1> QED
  BY <1>2, PlainFits DEF PlainKinds

(* A turn keeps the round; a settlement expires the capabilities.          *)
LEMMA GameFits ==
    ASSUME NEW s \in SessionStates, NEW p, NEW q, NEW b,
           \/ b \in decide_game_action(s, q)
           \/ b \in decide_chance(s)
           \/ b \in decide_settle(s)
    PROVE  MainFits(p, s, b)
<1>1. \E t : /\ b = transition_event(s, t)
             /\ t.round_scores = TRUE \/ t.game.round = s.game.round
  <2>1. CASE b \in decide_settle(s)
    BY <2>1 DEF decide_settle, settle, Transition
  <2>2. ASSUME NEW n PROVE [s.game EXCEPT !.turn = n].round = s.game.round
    BY DEF SessionStates, Games
  <2>3. CASE b \in decide_game_action(s, q) \cup decide_chance(s)
    <3>1. \E t \in player_transition(s.game) \cup chance_transition(s.game) :
              b = transition_event(s, t)
      BY <2>3 DEF decide_game_action, decide_chance
    <3>2. PICK n : b = transition_event(s,
                       Transition([s.game EXCEPT !.turn = n], FALSE, FALSE))
      BY <3>1 DEF player_transition, chance_transition
    <3>3. Transition([s.game EXCEPT !.turn = n], FALSE, FALSE).game
            = [s.game EXCEPT !.turn = n]
      BY DEF Transition
    <3> QED
      BY <2>2, <3>2, <3>3
  <2> QED
    BY <2>1, <2>3
<1>2. PICK t : /\ b = transition_event(s, t)
               /\ t.round_scores = TRUE \/ t.game.round = s.game.round
  BY <1>1
<1>3. /\ b.cancel = FALSE /\ b.main.kind = "GameAdvanced"
      /\ b.main.transition = t
      /\ t.round_scores => b.expire = expire_capabilities_for(s, AllPrincipals)
  BY <1>2 DEF transition_event, Batch
<1> QED
  BY <1>2, <1>3 DEF MainFits, LoudKinds

(* Every batch decide returns fits.                                        *)
LEMMA DecideFits ==
    ASSUME NEW s \in SessionStates, NEW p \in AllPrincipals,
           NEW c \in CommandPayloads(s), NEW b \in decide(s, p, c)
    PROVE  MainFits(p, s, b)
<1>1. c.kind \in Commands
  BY PayloadShape
<1>2. CASE c.kind \in {"CreateRoom", "ArmCountdown", "AbortCountdown", "Pause",
                       "Unpause", "Chat", "Reconnect", "ResetLobby",
                       "CloseRoom", "RequestHand", "DenyHand", "RevokeHand"}
  <2>1. \/ b \in decide_create(s, p)
        \/ b \in decide_arm_countdown(s, c.deadline_tick, c.token)
        \/ b \in decide_abort_countdown(s)
        \/ b \in decide_pause(s)
        \/ b \in decide_unpause(s)
        \/ b \in decide_chat(s, p)
        \/ b \in decide_reconnect(s, p)
        \/ b \in decide_reset(s)
        \/ b \in decide_close(s)
        \/ b \in decide_request_hand(s, p, c.player)
        \/ b \in decide_deny_hand(s, p, c.request)
        \/ b \in decide_revoke_hand(s, p, c.grant)
    BY <1>2 DEF decide
  <2> QED
    BY <2>1, SimpleFits
<1>3. CASE c.kind = "RedeemInvite"
  <2>1. b \in decide_join(s, p, c.invite)
    BY <1>3 DEF decide
  <2> QED
    BY <2>1, JoinFits
<1>4. CASE c.kind \in {"TakeSeat", "ReleaseSeat"}
  <2>1. b \in decide_take_seat(s, p, c.seat) \/ b \in decide_release_seat(s, p)
    BY <1>4 DEF decide
  <2> QED
    BY <2>1, SeatFits
<1>5. CASE c.kind \in {"Ready", "Unready"}
  <2>1. b \in decide_ready(s, p, TRUE) \/ b \in decide_ready(s, p, FALSE)
    BY <1>5 DEF decide
  <2> QED
    BY <2>1, ReadyFits
<1>6. CASE c.kind = "CountdownExpired"
  <2>1. b \in decide_countdown_expired(s, c.token)
    BY <1>6 DEF decide
  <2> QED
    BY <2>1, StartFits
<1>7. CASE c.kind \in {"GameAction", "ApplyChance", "Settle"}
  <2>1. \/ b \in decide_game_action(s, p)
        \/ b \in decide_chance(s)
        \/ b \in decide_settle(s)
    BY <1>7 DEF decide
  <2> QED
    BY <2>1, GameFits
<1>8. CASE c.kind = "GrantHand"
  <2>1. b \in decide_grant_hand(s, p, c.request, c.grant_epoch)
    BY <1>8 DEF decide
  <2> QED
    BY <2>1, GrantFits
<1>9. CASE c.kind \in {"Leave", "RemoveMember"}
  <2>1. b \in decide_leave(s, p) \/ b \in decide_remove(s, p, c.target)
    BY <1>9 DEF decide
  <2> QED
    BY <2>1, LossFits
<1> QED
  BY <1>1, <1>2, <1>3, <1>4, <1>5, <1>6, <1>7, <1>8, <1>9
     DEF Commands, SeatedCommands, MemberCommands, HandOwnerCommands,
     HostCommands, EnvironmentCommands

(* What a batch decided for p does to the hands of a game: it deals them,  *)
(* or it seats nobody new and grants nothing but what p itself consents to.*)
GrantedBy(p, t, s) ==
    /\ s.hand_grants \subseteq t.hand_grants
    /\ \A g \in t.hand_grants \ s.hand_grants : g.player = p

HandsFollow(p, t, s) ==
    t.phase \in GamePhases =>
        \/ s.phase = "Countdown" /\ t.phase = "Running" /\ t.hand_grants = {}
        \/ /\ s.phase \in GamePhases /\ SeatsStay(t, s)
           /\ \/ t.hand_grants = {}
              \/ /\ t.history = s.history
                 /\ t.hand_grants \subseteq s.hand_grants \/ GrantedBy(p, t, s)

ClosesUnready(t, s) ==
    t.phase = "Closed" => s.phase = "Closed" \/ t.ready = NoneReady

(* A quiet main event: its prelude has only taken capabilities away.       *)
LEMMA QuietBatch ==
    ASSUME NEW s, StateInv(s), NEW p, NEW b, MainFits(p, s, b),
           b.main.kind \notin LoudKinds, GoodBatch(s, b)
    PROVE  /\ HandsFollow(p, AfterBatch(s, b), s)
           /\ ClosesUnready(AfterBatch(s, b), s)
<1> DEFINE e == b.main
           w == AfterExpiry(s, b)
           t == AfterBatch(s, b)
<1>1. /\ BeforeMain(w, s, b) /\ StateInv(t) /\ t = apply(w, e)
      /\ EventAccepted(w, e)
  BY PreludeGood DEF MainFits, GoodBatch, AfterBatch, BatchApplies, Applies
<1>2. /\ StateInv(w) /\ w \in SessionStates
      /\ w.members = s.members /\ w.seat = s.seat
      /\ w.phase = (IF b.cancel THEN "Lobby" ELSE s.phase)
      /\ ~b.cancel => w.game = s.game
      /\ w.hand_grants \subseteq s.hand_grants
  BY <1>1 DEF BeforeMain, SameMembership, StateInv
<1>3. /\ e.kind \in {"SeatTaken", "SeatReleased"} => w.phase \notin GamePhases
      /\ e.kind = "MemberJoined" => e.principal \in AllPrincipals
      /\ e.kind \in MemberKinds \cup PhaseKinds \cup HandKinds
  BY <1>2 DEF MainFits, GamePhases
<1> HIDE DEF w
<1>4. Quiet(t, w)
  <2>1. Quiet(apply_kind(w, e), w)
    BY <1>1, <1>2, <1>3, MemberEventsAreQuiet, PhaseEventsAreQuiet,
       HandEventsAreQuiet
  <2> QED
    BY <1>1, <2>1, QuietAfterApply DEF StateInv
<1> HIDE DEF t, e
<1>5. ClosesUnready(t, s)
  BY <1>2, <1>4 DEF Quiet, ClosesUnready
<1>6. ASSUME t.phase \in GamePhases PROVE HandsFollow(p, t, s)
  <2>1. ~b.cancel
    BY <1>2, <1>4, <1>6 DEF Quiet, MainFits, GamePhases
  <2>2. /\ s.phase \in GamePhases /\ t.game = s.game
        /\ t.hand_grants \subseteq s.hand_grants
    BY <1>2, <1>4, <1>6, <2>1 DEF Quiet
  <2>3. SeatsStay(t, s)
    BY <1>2, <1>4, <1>6 DEF Quiet, SeatsStay
  <2>4. t.history = s.history
    BY <1>1, <1>6, <2>2 DEF StateInv, RoundsCounted
  <2> QED
    BY <2>2, <2>3, <2>4 DEF HandsFollow
<1> QED
  BY <1>5, <1>6 DEF HandsFollow, t

(* GameStarted finds no grants, a scored round has expired them, and       *)
(* HandViewGranted adds the one that its player answered for.              *)
LEMMA LoudBatch ==
    ASSUME NEW s, StateInv(s), NEW p, NEW b, MainFits(p, s, b),
           b.main.kind \in LoudKinds, GoodBatch(s, b)
    PROVE  /\ HandsFollow(p, AfterBatch(s, b), s)
           /\ ClosesUnready(AfterBatch(s, b), s)
<1> DEFINE e == b.main
           w == AfterExpiry(s, b)
           t == AfterBatch(s, b)
<1>1. /\ BeforeMain(w, s, b) /\ StateInv(t) /\ t = apply(w, e)
      /\ EventAccepted(w, e)
  BY PreludeGood DEF MainFits, GoodBatch, AfterBatch, BatchApplies, Applies
<1>2. b.cancel = FALSE
  BY DEF MainFits, LoudKinds
<1>3. /\ StateInv(w) /\ w \in SessionStates
      /\ w.members = s.members /\ w.seat = s.seat
      /\ w.phase = s.phase /\ w.game = s.game
      /\ w.hand_grants = s.hand_grants \ Affected(s.hand_grants, b.expire)
  BY <1>1, <1>2 DEF BeforeMain, SameMembership, StateInv
<1> HIDE DEF w, t
<1>4. CASE e.kind = "GameStarted"
  <2>1. s.phase = "Countdown"
    BY <1>1, <1>3, <1>4 DEF EventAccepted
  <2>2. w.hand_grants = {}
    BY <1>3, <2>1 DEF StateInv, OnlyInGame
  <2>3. t = [GameStarted(w) EXCEPT !.revision = w.revision + 1]
    BY <1>1, <1>4 DEF apply, apply_kind
  <2>4. t.phase = "Running" /\ t.hand_grants = w.hand_grants
    BY <1>3, <2>3 DEF GameStarted, AllUnready, SetPhase, SessionStates
  <2> QED
    BY <2>1, <2>2, <2>4 DEF HandsFollow, ClosesUnready, t
<1>5. CASE e.kind = "GameAdvanced"
  <2>1. s.phase = "Running"
    BY <1>1, <1>3, <1>5 DEF EventAccepted
  <2>2. t = [GameAdvanced(w, e.transition) EXCEPT !.revision = w.revision + 1]
    BY <1>1, <1>5 DEF apply, apply_kind
  <2>3. /\ t.phase \in {"PostGame", "Running"} /\ t.hand_grants = w.hand_grants
        /\ t.game = e.transition.game /\ t.members = w.members
        /\ t.seat = w.seat
    BY <1>3, <2>2 DEF GameAdvanced, SetPhase, SessionStates
  <2>4. SeatsStay(t, s) /\ t.phase \in GamePhases /\ s.phase \in GamePhases
    BY <1>3, <2>1, <2>3 DEF SeatsStay, GamePhases
  <2>5. CASE e.transition.game.round = s.game.round
    <3>1. t.history = s.history
      BY <1>1, <2>3, <2>4, <2>5 DEF StateInv, RoundsCounted
    <3>2. t.hand_grants \subseteq s.hand_grants
      BY <1>3, <2>3
    <3> QED
      BY <2>3, <2>4, <3>1, <3>2 DEF HandsFollow, ClosesUnready, t
  <2>6. CASE b.expire = expire_capabilities_for(s, AllPrincipals)
    <3>1. \A g \in s.hand_grants : g.player \in AllPrincipals
      BY DEF StateInv, SessionStates, HandViewGrants
    <3>2. Affected(s.hand_grants, AllPrincipals) = s.hand_grants
      BY <3>1 DEF Affected
    <3>3. w.hand_grants = {}
      BY <1>3, <2>6, <3>2 DEF expire_capabilities_for
    <3> QED
      BY <2>3, <2>4, <3>3 DEF HandsFollow, ClosesUnready, t
  <2> QED
    BY <1>5, <2>5, <2>6 DEF MainFits
<1>6. CASE e.kind = "HandViewGranted"
  <2>1. b.expire = {} /\ e.request.player = p
    BY <1>6 DEF MainFits
  <2>2. w.hand_grants = s.hand_grants
    BY <1>3, <2>1 DEF Affected
  <2>3. t = [HandViewGranted(w, e.request, e.grant_epoch)
               EXCEPT !.revision = w.revision + 1]
    BY <1>1, <1>6 DEF apply, apply_kind
  <2>4. /\ t.phase = w.phase /\ t.game = w.game /\ t.members = w.members
        /\ t.seat = w.seat
        /\ t.hand_grants = w.hand_grants \cup
             {[player |-> e.request.player, recipient |-> e.request.recipient,
               grant_epoch |-> e.grant_epoch]}
    BY <1>3, <2>3 DEF HandViewGranted, SessionStates
  <2>5. GrantedBy(p, t, s)
    BY <2>1, <2>2, <2>4 DEF GrantedBy
  <2>6. SeatsStay(t, s)
    BY <1>3, <2>4 DEF SeatsStay
  <2>7. t.phase \in GamePhases => t.history = s.history
    BY <1>1, <1>3, <2>4 DEF StateInv, RoundsCounted
  <2>8. t.phase = s.phase
    BY <1>3, <2>4
  <2> QED
    BY <2>5, <2>6, <2>7, <2>8 DEF HandsFollow, ClosesUnready, t
<1> QED
  BY <1>4, <1>5, <1>6 DEF LoudKinds

(* Every step follows the hands, and closes the room with nobody ready.    *)
LEMMA StepFollows ==
    ASSUME Inv, NEW p \in AllPrincipals, Step(p)
    PROVE  HandsFollow(p, state', state) /\ ClosesUnready(state', state)
<1>0. StateInv(state) /\ state \in SessionStates
  BY DEF Inv, StateInv
<1>1. ASSUME NEW b, Commit(b), GoodBatch(state, b), MainFits(p, state, b)
      PROVE  HandsFollow(p, state', state) /\ ClosesUnready(state', state)
  <2>1. state' = AfterBatch(state, b)
    BY <1>1 DEF Commit
  <2> QED
    BY <1>0, <1>1, <2>1, QuietBatch, LoudBatch
<1>2. CASE \E c \in CommandPayloads(state) : Submit(p, c)
  <2>1. PICK c \in CommandPayloads(state) : Submit(p, c)
    BY <1>2
  <2>2. PICK b \in decide(state, p, c) : Commit(b)
    BY <2>1 DEF Submit
  <2>3. ~(c.kind = "CloseRoom" /\ state.phase = "Uninitialized")
    BY <1>0, <2>2, UncreatedCannotClose DEF Commit, decide
  <2> QED
    BY <1>0, <1>1, <2>2, <2>3, DecideGood, DecideFits
<1>3. CASE TransportDisconnect(p)
  <2>1. PICK b \in decide_transport_disconnect(state, p) : Commit(b)
    BY <1>3 DEF TransportDisconnect
  <2> QED
    BY <1>0, <1>1, <2>1, DisconnectGood, DisconnectFits
<1> QED
  BY <1>2, <1>3, StepIsDecided

(* The inductive invariant: while a game is on, every seated member is the *)
(* principal its seat was dealt to, and every live grant is a consent.     *)
DealtStillSit ==
    state.phase \in GamePhases =>
        \A q \in state.members : state.seat[q] # NoSeat
            => dealt[state.seat[q]] = q

GrantsAreConsents ==
    state.phase \in GamePhases =>
        \A g \in state.hand_grants : <<g.player, g.recipient>> \in consents

HandInv == Inv /\ DealtStillSit /\ GrantsAreConsents

LEMMA HandInvSuffices == HandInv => NoHandWithoutConsent
<1> SUFFICES ASSUME HandInv, NEW v \in AllPrincipals,
                    NEW n \in HandsShown(state, v)
             PROVE  dealt[n] = v \/ <<dealt[n], v>> \in consents
  BY DEF NoHandWithoutConsent
<1>1. v \in state.members /\ state.phase \in GamePhases
  BY DEF HandsShown, Viewer
<1>2. CASE n = state.seat[v] /\ n # NoSeat
  BY <1>1, <1>2 DEF HandInv, DealtStillSit
<1>3. CASE \E g \in state.hand_grants : g.recipient = v /\ n = state.seat[g.player]
  <2>1. PICK g \in state.hand_grants :
            g.recipient = v /\ n = state.seat[g.player]
    BY <1>3
  <2>2. g.player \in state.members /\ state.seat[g.player] # NoSeat
    BY DEF HandInv, Inv, StateInv, validate, GrantsValid, CapabilityEndpoints
  <2>3. dealt[n] = g.player /\ <<g.player, v>> \in consents
    BY <1>1, <2>1, <2>2 DEF HandInv, DealtStillSit, GrantsAreConsents
  <2> QED
    BY <2>3
<1> QED
  BY <1>1, <1>2, <1>3 DEF HandsShown

(* GameStarted deals to the holders of the seats.                          *)
LEMMA DealFollows ==
    ASSUME HandInv, NEW p \in AllPrincipals, HStep(p)
    PROVE  DealtStillSit'
<1>1. Inv' /\ HandsFollow(p, state', state)
  BY StepKeeps, StepFollows DEF HandInv, HStep
<1> SUFFICES ASSUME state'.phase \in GamePhases, NEW q \in state'.members,
                    state'.seat[q] # NoSeat
             PROVE  dealt'[state'.seat[q]] = q
  BY DEF DealtStillSit
<1>2. CASE GameStarts
  <2>1. state'.seat[q] \in Seats
    BY <1>1 DEF Inv, StateInv, SessionStates
  <2>2. dealt'[state'.seat[q]] = Holder(state', state'.seat[q])
    BY <1>2, <2>1 DEF HStep
  <2>3. \A r \in state'.members : state'.seat[r] = state'.seat[q] => r = q
    BY <1>1 DEF Inv, StateInv, validate, SeatsValid
  <2> QED
    BY <2>2, <2>3 DEF Holder
<1>3. CASE ~GameStarts
  <2>1. state.phase \in GamePhases /\ SeatsStay(state', state)
    BY <1>1, <1>3 DEF HandsFollow, GameStarts
  <2>2. q \in state.members /\ state.seat[q] = state'.seat[q]
    BY <2>1 DEF SeatsStay
  <2>3. dealt[state.seat[q]] = q
    BY <2>1, <2>2 DEF HandInv, DealtStillSit
  <2> QED
    BY <1>3, <2>2, <2>3 DEF HStep
<1> QED
  BY <1>2, <1>3

(* A grant that is new was consented to by the step's own principal; one   *)
(* that stays was not revoked, since a recipient holds one grant at most.  *)
LEMMA ConsentFollows ==
    ASSUME HandInv, NEW p \in AllPrincipals, HStep(p)
    PROVE  GrantsAreConsents'
<1>1. Inv' /\ HandsFollow(p, state', state)
  BY StepKeeps, StepFollows DEF HandInv, HStep
<1> SUFFICES ASSUME state'.phase \in GamePhases, NEW g \in state'.hand_grants
             PROVE  <<g.player, g.recipient>> \in consents'
  BY DEF GrantsAreConsents
<1>2. /\ ~GameStarts /\ state.phase \in GamePhases
      /\ state'.history = state.history
      /\ \/ state'.hand_grants \subseteq state.hand_grants
         \/ GrantedBy(p, state', state)
  BY <1>1 DEF HandsFollow, GameStarts, GamePhases
<1>3. consents' = (consents \cup {<<p, v>> : v \in Gained})
                      \ {<<p, v>> : v \in LostFrom(p)}
  BY <1>2 DEF HStep
<1>4. \A g1, g2 \in state.hand_grants : g1.recipient = g2.recipient => g1 = g2
  BY DEF HandInv, Inv, StateInv, validate, GrantsValid
<1>5. <<g.player, g.recipient>> \in consents \cup {<<p, v>> : v \in Gained}
  <2>1. CASE g \in state.hand_grants
    BY <1>2, <2>1 DEF HandInv, GrantsAreConsents
  <2>2. CASE g \notin state.hand_grants
    <3>1. g.player = p
      BY <1>2, <2>2 DEF GrantedBy
    <3>2. g.recipient \in Gained
      BY <2>2 DEF Gained
    <3> QED
      BY <3>1, <3>2
  <2> QED
    BY <2>1, <2>2
<1>6. g.recipient \notin LostFrom(p)
  <2> SUFFICES ASSUME NEW h \in state.hand_grants \ state'.hand_grants,
                      h.recipient = g.recipient
               PROVE  FALSE
    BY DEF LostFrom
  <2>1. state'.hand_grants \subseteq state.hand_grants
    BY <1>2 DEF GrantedBy
  <2> QED
    BY <1>4, <2>1
<1> QED
  BY <1>3, <1>5, <1>6

(* A hand is shown to the principal it was dealt to and to the viewers     *)
(* that principal consented to in this round, for any number of            *)
(* principals, any policies, invites and capacities.                       *)
THEOREM HandsNeedConsent == HSpec => []NoHandWithoutConsent
<1>1. HInit => HandInv
  <2>1. Init => Inv
    BY PendingGood, ReducerAssumption DEF Init, Inv, pending, ReducerAssumption
  <2>2. Init => state.phase = "Uninitialized"
    BY DEF Init, pending
  <2> QED
    BY <2>1, <2>2 DEF HInit, HandInv, DealtStillSit, GrantsAreConsents,
       GamePhases
<1>2. HandInv /\ [HNext]_vars => HandInv'
  <2> SUFFICES ASSUME HandInv, [HNext]_vars PROVE HandInv'
    OBVIOUS
  <2>1. CASE HNext
    <3>1. PICK p \in AllPrincipals : HStep(p)
      BY <2>1 DEF HNext
    <3>2. Inv'
      BY <3>1, StepKeeps DEF HandInv, HStep
    <3> QED
      BY <3>1, <3>2, DealFollows, ConsentFollows DEF HandInv
  <2>2. CASE UNCHANGED vars
    BY <2>2 DEF vars, HandInv, Inv, DealtStillSit, GrantsAreConsents
  <2> QED
    BY <2>1, <2>2
<1> QED
  BY <1>1, <1>2, HandInvSuffices, PTL DEF HSpec

-----------------------------------------------------------------------------
(* The closed room.                                                        *)

ClosedUnready == state.phase = "Closed" => state.ready = NoneReady

(* Clearing the readiness of somebody who is not ready changes nothing.    *)
LEMMA DisconnectOfUnready ==
    ASSUME NEW s \in SessionStates, s.ready = NoneReady, NEW p \in AllPrincipals
    PROVE  apply(s, [kind |-> "MemberDisconnected", principal |-> p])
             = [s EXCEPT !.connected[p] = FALSE, !.revision = @ + 1]
<1> DEFINE e == [kind |-> "MemberDisconnected", principal |-> p]
<1>1. [s.ready EXCEPT ![p] = FALSE] = s.ready
  BY DEF NoneReady
<1>2. MemberDisconnected(s, p)
        = [s EXCEPT !.connected[p] = FALSE, !.ready = s.ready]
  BY <1>1 DEF MemberDisconnected, SessionStates
<1>3. MemberDisconnected(s, p) = [s EXCEPT !.connected[p] = FALSE]
  BY <1>2 DEF SessionStates
<1>4. apply_kind(s, e) = MemberDisconnected(s, p)
  BY DEF apply_kind
<1> HIDE DEF e
<1>5. apply(s, e) = [[s EXCEPT !.connected[p] = FALSE] EXCEPT !.revision = s.revision + 1]
  BY <1>3, <1>4 DEF apply
<1>6. apply(s, e) = [s EXCEPT !.connected[p] = FALSE, !.revision = @ + 1]
  BY <1>5 DEF SessionStates
<1> QED
  BY <1>6 DEF e

(* structural_decision refuses every command, so a step is a lost          *)
(* transport; without a countdown and with no expiry it is one event.      *)
LEMMA ClosedStep ==
    ASSUME Inv, ClosedUnready, state.phase = "Closed",
           NEW p \in AllPrincipals, Step(p)
    PROVE  /\ p \in state.members /\ state.connected[p]
           /\ state' = [state EXCEPT !.connected[p] = FALSE, !.revision = @ + 1]
<1>1. \A c \in CommandPayloads(state) : ~Submit(p, c)
  BY DEF Submit, authorize, structural_decision
<1>2. PICK b \in decide_transport_disconnect(state, p) : Commit(b)
  BY <1>1, StepIsDecided DEF TransportDisconnect
<1>3. /\ p \in state.members /\ state.connected[p]
      /\ b = Batch(FALSE, {}, [kind |-> "MemberDisconnected", principal |-> p])
  BY DEF decide_transport_disconnect, Accept, cancel_countdown_first
<1>4. /\ b.cancel = FALSE /\ b.expire = {}
      /\ b.main = [kind |-> "MemberDisconnected", principal |-> p]
  BY <1>3 DEF Batch
<1>5. state' = apply(state, b.main)
  BY <1>2, <1>4 DEF Commit, AfterBatch, AfterExpiry, AfterCancel
<1>6. state \in SessionStates /\ state.ready = NoneReady
  BY DEF Inv, StateInv, ClosedUnready
<1> QED
  BY <1>3, <1>4, <1>5, <1>6, DisconnectOfUnready

(* A closed room stays closed and changes only by losing its connections,  *)
(* whatever the policies allow.                                            *)
THEOREM ClosedIsFinal == Spec => ClosedRoomOnlyDisconnects
<1>1. Init => ClosedUnready
  BY DEF Init, pending, ClosedUnready
<1>2. Inv /\ ClosedUnready /\ [Next]_state => ClosedUnready'
  <2> SUFFICES ASSUME Inv, ClosedUnready, [Next]_state PROVE ClosedUnready'
    OBVIOUS
  <2>1. CASE Next /\ state.phase = "Closed"
    <3>1. PICK p \in AllPrincipals :
              state' = [state EXCEPT !.connected[p] = FALSE, !.revision = @ + 1]
      BY <2>1, ClosedStep DEF Next
    <3>2. state'.ready = state.ready
      BY <3>1 DEF Inv, StateInv, SessionStates
    <3> QED
      BY <2>1, <3>2 DEF ClosedUnready
  <2>2. CASE Next /\ state.phase # "Closed"
    BY <2>2, StepFollows DEF Next, ClosesUnready, ClosedUnready
  <2>3. CASE UNCHANGED state
    BY <2>3 DEF ClosedUnready
  <2> QED
    BY <2>1, <2>2, <2>3
<1>3. Inv /\ ClosedUnready /\ [Next]_state =>
          [state.phase = "Closed" =>
               \E p \in state.members :
                   /\ state.connected[p]
                   /\ state' = [state EXCEPT !.connected[p] = FALSE,
                                            !.revision = @ + 1]]_state
  BY ClosedStep DEF Next
<1> QED
  BY <1>1, <1>2, <1>3, InvHolds, PTL DEF Spec, ClosedRoomOnlyDisconnects
=============================================================================
