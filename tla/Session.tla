------------------------------ MODULE Session ------------------------------
(***************************************************************************)
(* One authoritative session, driven by SessionMachine's own entry points: *)
(* every step is one command that authorize and decide accept, or one      *)
(* transport-loss observation, with its whole event batch applied.         *)
(***************************************************************************)
EXTENDS SessionReducer

VARIABLE state

Init == state = pending

(* commit_events: every event of the batch applies on a candidate, or the  *)
(* state stays as it is.                                                   *)
Commit(b) ==
    /\ RevisionsLeft(state, b)
    /\ BatchApplies(state, b)
    /\ state' = AfterBatch(state, b)

Submit(p, c) ==
    /\ authorize(state, p, c.kind)
    /\ \E b \in decide(state, p, c) : Commit(b)

CreateRoom(p) == Submit(p, [kind |-> "CreateRoom"])
RedeemInvite(p) ==
    \E i \in Invites : Submit(p, [kind |-> "RedeemInvite", invite |-> i])
TakeSeat(p) == \E n \in Seats : Submit(p, [kind |-> "TakeSeat", seat |-> n])
ReleaseSeat(p) == Submit(p, [kind |-> "ReleaseSeat"])
Ready(p) == Submit(p, [kind |-> "Ready"])
Unready(p) == Submit(p, [kind |-> "Unready"])
ArmCountdown(p) ==
    \E d \in Ticks, t \in Tokens :
        Submit(p, [kind |-> "ArmCountdown", deadline_tick |-> d, token |-> t])
AbortCountdown(p) == Submit(p, [kind |-> "AbortCountdown"])
CountdownExpired(p) ==
    \E t \in Tokens : Submit(p, [kind |-> "CountdownExpired", token |-> t])
Pause(p) == Submit(p, [kind |-> "Pause"])
Unpause(p) == Submit(p, [kind |-> "Unpause"])
GameAction(p) == Submit(p, [kind |-> "GameAction"])
ApplyChance(p) == Submit(p, [kind |-> "ApplyChance"])
Settle(p) == Submit(p, [kind |-> "Settle"])
Chat(p) == Submit(p, [kind |-> "Chat"])
Reconnect(p) == Submit(p, [kind |-> "Reconnect"])
Leave(p) == Submit(p, [kind |-> "Leave"])
RemoveMember(p) ==
    \E q \in AllPrincipals : Submit(p, [kind |-> "RemoveMember", target |-> q])
ResetLobby(p) == Submit(p, [kind |-> "ResetLobby"])
CloseRoom(p) == Submit(p, [kind |-> "CloseRoom"])
RequestHand(p) ==
    \E q \in AllPrincipals : Submit(p, [kind |-> "RequestHand", player |-> q])
GrantHand(p) ==
    \E r \in state.hand_requests :
    \E e \in {state.projection_epoch, state.projection_epoch + 1} :
        Submit(p, [kind |-> "GrantHand", request |-> r, grant_epoch |-> e])
DenyHand(p) ==
    \E r \in state.hand_requests :
        Submit(p, [kind |-> "DenyHand", request |-> r])
RevokeHand(p) ==
    \E g \in state.hand_grants : Submit(p, [kind |-> "RevokeHand", grant |-> g])

TransportDisconnect(p) ==
    \E b \in decide_transport_disconnect(state, p) : Commit(b)

Step(p) ==
    \/ CreateRoom(p) \/ RedeemInvite(p) \/ TakeSeat(p) \/ ReleaseSeat(p)
    \/ Ready(p) \/ Unready(p)
    \/ ArmCountdown(p) \/ AbortCountdown(p) \/ CountdownExpired(p)
    \/ Pause(p) \/ Unpause(p)
    \/ GameAction(p) \/ ApplyChance(p) \/ Settle(p)
    \/ Chat(p) \/ Reconnect(p) \/ Leave(p) \/ RemoveMember(p)
    \/ ResetLobby(p) \/ CloseRoom(p)
    \/ RequestHand(p) \/ GrantHand(p) \/ DenyHand(p) \/ RevokeHand(p)
    \/ TransportDisconnect(p)

Next == \E p \in AllPrincipals : Step(p)

Spec == Init /\ [][Next]_state

-----------------------------------------------------------------------------
(* Properties.                                                             *)

(* Every field of SessionState stays in its type; in particular no seat,   *)
(* quota or revision leaves its range (state.rs).                          *)
TypeOK == state \in SessionStates /\ state.revision <= MaxRevision

(* What decide accepts, apply accepts: no batch that the reducer decides   *)
(* for an authorized command, or for a lost transport, is refused half-way *)
(* by apply_kind or by validate on an intermediate state, whatever the     *)
(* policies allow.  The one exception is a policy that lets the clock or   *)
(* the environment close a room nobody created: decide_close accepts it    *)
(* and validate refuses epoch 0.                                           *)
DecidedBatchesApply ==
    \A p \in AllPrincipals :
        /\ \A c \in CommandPayloads(state) :
               /\ authorize(state, p, c.kind)
               /\ ~(c.kind = "CloseRoom" /\ state.phase = "Uninitialized")
               => \A b \in decide(state, p, c) : BatchApplies(state, b)
        /\ \A b \in decide_transport_disconnect(state, p) :
               BatchApplies(state, b)

(* Hand requests and grants live only inside a game (or in the record of a *)
(* room closed during one): RoundBoundary expiry before PostGame leaves    *)
(* none to carry into the next lobby and the next deal.                    *)
CapabilitiesOnlyInGame == OnlyInGame(state)

(* No recipient holds a request and a grant at once, so granting a request *)
(* never makes a second grant for its recipient (decide_request_hand).     *)
OneCapabilityPerRecipient == OnePerRecipient(state)

(* During a game the public history has one RoundScored per round settled: *)
(* GameStarted clears what an earlier game of this room left.              *)
HistoryCountsRounds == RoundsCounted(state)

(* Every state is one that validate accepts and from which no decided      *)
(* batch can fail: the inductive invariant of the reducer.                 *)
Inv == StateInv(state) /\ state.revision <= MaxRevision

(* Every change to the set of grants, by grant, revocation or expiry,      *)
(* raises projection_epoch, so a projection built before it is stale.      *)
GrantChangeRaisesEpoch ==
    [][state'.hand_grants # state.hand_grants
           => state'.projection_epoch > state.projection_epoch]_state

(* After the room is closed no command reaches it, whatever the policies   *)
(* allow and whoever is still seated, granted or disconnected: only a lost *)
(* transport changes it, and it only marks its member disconnected         *)
(* (structural_decision, decide_transport_disconnect).                     *)
ClosedRoomOnlyDisconnects ==
    [][state.phase = "Closed" =>
           \E p \in state.members :
               /\ state.connected[p]
               /\ state' = [state EXCEPT !.connected[p] = FALSE,
                                        !.revision = @ + 1]]_state

(* decide_leave retains a seated player's membership until the game has a  *)
(* dropout transition: the seat whose turn it is has a holder.             *)
GameIsNeverStranded ==
    state.phase \in {"Running", "Paused"} /\ state.game.turn \in Seats
        => \E p \in state.members : state.seat[p] = state.game.turn
=============================================================================
