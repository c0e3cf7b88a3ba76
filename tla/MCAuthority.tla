---------------------------- MODULE MCAuthority ----------------------------
(* Small instances of Authority for TLC. *)
EXTENDS Authority

CONSTANTS alice, bob

MCInvites == {1}
MCInviteRecord ==
    [i \in MCInvites |-> [expires_after_revision |-> MaxRevision,
                          reusable |-> TRUE, revoked |-> FALSE]]
NoRules == {}

(* The lobby the reducer reaches when alice creates a room, bob joins,     *)
(* both sit and are ready: bob next to alice, or a seat away.              *)
After(s, p, cmd) == AfterBatch(s, CHOOSE d \in decide(s, p, cmd) : TRUE)
LobbyWithBobAt(seat) ==
    LET s1 == After(pending, alice, [kind |-> "CreateRoom"])
        s2 == After(s1, bob, [kind |-> "RedeemInvite", invite |-> 1])
        s3 == After(s2, alice, [kind |-> "TakeSeat", seat |-> 0])
        s4 == After(s3, bob, [kind |-> "TakeSeat", seat |-> seat])
        s5 == After(s4, alice, [kind |-> "Ready"])
    IN  After(s5, bob, [kind |-> "Ready"])
ReadyLobby == LobbyWithBobAt(1)
LobbyWithGap == LobbyWithBobAt(2)

Plain(kinds) == {[kind |-> k] : k \in kinds}
Arms == {[kind |-> "ArmCountdown", deadline_tick |-> d, token |-> t] :
            d \in Ticks, t \in Tokens}

(* alice hosts and arms, bob interferes. *)
CountdownClients ==
    ({alice} \X Arms)
    \cup ({bob} \X Plain({"AbortCountdown", "Unready", "Ready", "Leave",
                          "Reconnect"}))
MembershipClients ==
    ({alice} \X (Arms \cup Plain({"CloseRoom"})))
    \cup ({bob} \X Plain({"Leave", "Reconnect", "AbortCountdown"}))

(* One thing goes wrong: an input is duplicated, reordered or delayed, or   *)
(* the loss of a route is observed.  authority_recovery combines them.      *)
OneMishap == faults' + losses' >= MaxFaults + MaxLosses - 1
MCSpec == Init /\ [][Next /\ OneMishap]_vars /\ Fairness
=============================================================================
