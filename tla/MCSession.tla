----------------------------- MODULE MCSession -----------------------------
(* Small instances of SessionHistory for TLC. *)
EXTENDS SessionHistory, Sequences, TLC

CONSTANTS a, b, c

MCInvites == {1, 2}
MCInviteRecord ==
    (1 :> [expires_after_revision |-> MaxRevision, reusable |-> TRUE,
           revoked |-> FALSE])
    @@ (2 :> [expires_after_revision |-> 3, reusable |-> FALSE,
              revoked |-> FALSE])

Deny(kind, command) ==
    [principal |-> kind, command |-> command, allow |-> FALSE,
     audit_only |-> FALSE]

(* Rules that narrow an instance to the commands its run is about. *)
DenyAll(kinds, commands) ==
    {Deny(kind, command) : kind \in kinds, command \in commands}

(* The whole vocabulary but chat: the run about the stranded game. *)
NoChat == DenyAll({"Host", "Player", "Spectator"}, {"Chat"})

(* Policies that hand out what the baseline keeps from a kind. *)
AllowOthers ==
    {[principal |-> rule[1], command |-> rule[2], allow |-> TRUE,
           audit_only |-> FALSE] :
              rule \in ({"Spectator"} \X {"ArmCountdown", "RemoveMember",
                                          "GrantHand", "GameAction"})
                       \cup ({"Host", "Player"} \X {"RequestHand", "RemoveMember"})
                       \cup ({"AuthorityClock"} \X {"Reconnect", "Leave",
                                                   "CloseRoom"})}

(* One course of a room, each step decided by the reducer: a hosts, b and c *)
(* join, a and b sit and are ready, play a game of two rounds and count    *)
(* down to the next.  Where the game chooses, the step names the turn.     *)
By(p, cmd) == [by |-> p, command |-> cmd, turns |-> Turns]
Move(p, kind, turn) == [by |-> p, command |-> [kind |-> kind], turns |-> {turn}]
Plain(p, kind) == By(p, [kind |-> kind])
Deal == Move(game_environment, "ApplyChance", 0)
Play == Move(a, "GameAction", Environment)
Settlement == Plain(game_environment, "Settle")
Arm == By(a, [kind |-> "ArmCountdown", deadline_tick |-> 1, token |-> 1])
Expiry == By(authority_clock, [kind |-> "CountdownExpired", token |-> 1])

Course ==
    <<Plain(a, "CreateRoom"),
      By(b, [kind |-> "RedeemInvite", invite |-> 1]),
      By(c, [kind |-> "RedeemInvite", invite |-> 1]),
      By(a, [kind |-> "TakeSeat", seat |-> 0]),
      By(b, [kind |-> "TakeSeat", seat |-> 1]),
      Plain(a, "Ready"), Plain(b, "Ready"),
      Arm, Expiry, Deal, Play, Settlement, Deal, Play,
      Settlement, Plain(a, "ResetLobby"), Plain(a, "Ready"), Plain(b, "Ready"),
      Arm>>

After(s, step) ==
    AfterBatch(s, CHOOSE d \in decide(s, step.by, step.command) :
                      "transition" \in DOMAIN d.main
                          => d.main.transition.game.turn \in step.turns)

At[n \in 0 .. Len(Course)] ==
    IF n = 0 THEN pending ELSE After(At[n - 1], Course[n])

(* In the last round of the first game c asks for a hand.                  *)
ReadyLobby == At[7]
LastRound == After(At[14], By(c, [kind |-> "RequestHand", player |-> b]))
SecondCountdown == At[19]

InLobby ==
    /\ state = ReadyLobby
    /\ dealt = [n \in Seats |-> NoPrincipal]
    /\ consents = {}
LobbySpec == InLobby /\ [][HNext]_vars

InLaterGame ==
    /\ state \in {LastRound, SecondCountdown}
    /\ dealt = [n \in Seats |-> Holder(LastRound, n)]
    /\ consents = {}

(* Every start is followed for some revisions: the bound of this instance. *)
(* The starts are at revisions 0, 7, 15 and 19.  Members chat while the    *)
(* room fills.                                                             *)
FirstRevisions == 0 .. 4
Windows == {FirstRevisions, 7 .. 14, 15 .. 18, 19 .. 23}
GamesInit == HInit \/ InLobby \/ InLaterGame
GamesNext ==
    /\ HNext
    /\ state'.chat_count # state.chat_count => state.revision \in FirstRevisions
    /\ \E window \in Windows : {state.revision, state'.revision} \subseteq window
GamesSpec == GamesInit /\ [][GamesNext]_vars
=============================================================================
