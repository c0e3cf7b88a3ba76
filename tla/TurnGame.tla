----------------------------- MODULE TurnGame -----------------------------
(***************************************************************************)
(* The abstract specification of one game: the turns and rounds on which   *)
(* SessionReducer builds, as a state machine of its own.                   *)
(***************************************************************************)
EXTENDS SessionGame

VARIABLE g

GInit == g = NewGame

(* The reducer asks for a transition only of the owner of the turn.        *)
GNext ==
    \/ g.turn = Chance /\ \E t \in chance_transition(g) : g' = t.game
    \/ g.turn \in GameSeats /\ \E t \in player_transition(g) : g' = t.game
    \/ g.turn = Environment /\ \E t \in settle(g) : g' = t.game

GSpec == GInit /\ [][GNext]_g
=============================================================================
