-------------------------- MODULE SessionHistory --------------------------
(***************************************************************************)
(* The session with two history variables: who held each seat when the     *)
(* current game was dealt, and which player consented to which viewer in   *)
(* the current round.  They restrict nothing; they let a property speak of *)
(* who acted, not only of what the reducer stored.                         *)
(***************************************************************************)
EXTENDS Session

VARIABLES
    dealt,      \* [Seats -> principal who held the seat at GameStarted]
    consents    \* {<<player, viewer>>} given by the player's own command

vars == <<state, dealt, consents>>

HInit ==
    /\ Init
    /\ dealt = [n \in Seats |-> NoPrincipal]
    /\ consents = {}

Holder(s, n) ==
    IF \E p \in s.members : s.seat[p] = n
    THEN CHOOSE p \in s.members : s.seat[p] = n
    ELSE NoPrincipal

GameStarts == state.phase = "Countdown" /\ state'.phase = "Running"

Gained == {g.recipient : g \in state'.hand_grants \ state.hand_grants}
LostFrom(p) ==
    {g.recipient : g \in {h \in state.hand_grants \ state'.hand_grants :
                              h.player = p}}

HStep(p) ==
    /\ Step(p)
    /\ dealt' = IF GameStarts THEN [n \in Seats |-> Holder(state', n)]
                ELSE dealt
    /\ consents' =
           IF GameStarts \/ state'.history # state.history THEN {}
           ELSE (consents \cup {<<p, v>> : v \in Gained})
                \ {<<p, v>> : v \in LostFrom(p)}

HNext == \E p \in AllPrincipals : HStep(p)

HSpec == HInit /\ [][HNext]_vars

(* A projection shows a hand to nobody but the principal it was dealt to   *)
(* and the viewers that principal itself consented to in this round and    *)
(* has not revoked since, through any seating, removal, rejoin, reconnect, *)
(* pause or policy in between (project_viewer, decide_grant_hand).         *)
NoHandWithoutConsent ==
    \A v \in AllPrincipals : \A n \in HandsShown(state, v) :
        dealt[n] = v \/ <<dealt[n], v>> \in consents
=============================================================================
