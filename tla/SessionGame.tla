---------------------------- MODULE SessionGame ----------------------------
(***************************************************************************)
(* The game as the session reducer sees it (trait SessionGame, implemented *)
(* by OracleSessionGame): whose turn it is and how many rounds are         *)
(* settled.  A deal opens a round, players act until the round awaits      *)
(* scoring, settlement emits the round's scores and opens the next round   *)
(* or ends the game.  Game implements it.                                  *)
(***************************************************************************)
EXTENDS Integers

CONSTANTS
    MAX_MEMBERS,
    PLAYERS,            \* const parameter of OracleSessionGame
    ROUNDS              \* length of the game's schedule

Seats == 0 .. (MAX_MEMBERS - 1)

(* GameTurn: a seat stands for Player(seat).                                *)
Chance == MAX_MEMBERS
Environment == MAX_MEMBERS + 1
Finished == MAX_MEMBERS + 2
Turns == Seats \cup {Chance, Environment, Finished}
Games == [turn : Turns, round : 0 .. ROUNDS]
NoGame == [turn |-> Finished, round |-> 0]

NewGame == [turn |-> Chance, round |-> 0]

Transition(game, scored, terminal) ==
    [game |-> game, round_scores |-> scored, terminal |-> terminal]

GameSeats == Seats \cap 0 .. (PLAYERS - 1)

player_transition(g) ==
    {Transition([g EXCEPT !.turn = t], FALSE, FALSE) :
        t \in GameSeats \cup {Environment}}

chance_transition(g) ==
    {Transition([g EXCEPT !.turn = t], FALSE, FALSE) : t \in GameSeats}

settle(g) ==
    LET done == g.round + 1 = ROUNDS IN
    {Transition([turn |-> IF done THEN Finished ELSE Chance,
                 round |-> g.round + 1],
                TRUE, done)}
=============================================================================
