------------------------------- MODULE Game -------------------------------
(***************************************************************************)
(* The rules of Poche as poche-oracle-rust plays them: deals, bids, tricks *)
(* and scores over the rising and falling schedule of hand sizes.  The     *)
(* deck may have any suits and ranks; the code's has 4 and 13.  Piles are  *)
(* sets: no rule looks at their order.                                     *)
(***************************************************************************)
EXTENDS Integers, FiniteSets, Sequences, FiniteSetsExt

CONSTANTS
    PLAYERS,
    Suits,
    Ranks,                      \* naturals, in the order of Rank
    MAX_HAND_SIZE,
    OPENING_ANTE_CENTS,
    MISSED_BID_PAYMENT_CENTS,
    Decks,                      \* the deck orders that chance may produce
    NoCard                      \* None of Option<Card>

PlayerSeats == 0 .. (PLAYERS - 1)
Cards == [suit : Suits, rank : Ranks]
DECK_SIZE == Cardinality(Cards)

ASSUME GameAssumption ==
    /\ PLAYERS \in Nat /\ PLAYERS >= 2 /\ PLAYERS < DECK_SIZE
    /\ IsFiniteSet(Suits) /\ IsFiniteSet(Ranks) /\ Ranks \subseteq Nat
    /\ MAX_HAND_SIZE \in Nat \ {0}
    /\ OPENING_ANTE_CENTS \in Nat /\ MISSED_BID_PAYMENT_CENTS \in Nat
    /\ NoCard \notin Cards
    /\ \A deck \in Decks :      \* DeckOrder::new
          deck \in [1 .. DECK_SIZE -> Cards] /\ \A c \in Cards :
              \E i \in 1 .. DECK_SIZE : deck[i] = c

VARIABLES
    phase,      \* PhaseTag
    ledger,     \* Ledger: dealer, round_index, scores, pot_cents
    table       \* the fields of Bidding, Playing and Scoring

gvars == <<phase, ledger, table>>

-----------------------------------------------------------------------------
(* Seats and the schedule.                                                 *)

advance(seat, count) == (seat + count) % PLAYERS
left(seat) == advance(seat, 1)

max_hand_size ==
    LET deck_limited == (DECK_SIZE - 1) \div PLAYERS
    IN  IF deck_limited < MAX_HAND_SIZE THEN deck_limited ELSE MAX_HAND_SIZE

round_count == max_hand_size * 2 - 1

hand_size_for_round(round_index) ==
    IF round_index < max_hand_size THEN round_index + 1
    ELSE max_hand_size * 2 - round_index - 1

-----------------------------------------------------------------------------
(* Tricks and scores.                                                      *)

NoBid == -1
EachSeat(value) == [s \in PlayerSeats |-> value]

NoTable ==
    [hand_size |-> 0, hands |-> EachSeat({}), trump |-> NoCard, stock |-> {},
     bids |-> EachSeat(NoBid), actor |-> 0, leader |-> 0, trick |-> <<>>,
     captured |-> EachSeat({}), tricks_won |-> EachSeat(0)]

NewLedger(first_dealer) ==
    [dealer |-> first_dealer, round_index |-> 0, scores |-> EachSeat(0),
     pot_cents |-> OPENING_ANTE_CENTS * PLAYERS]

(* The key of max_by_key, which returns the last of the greatest.          *)
Category(trump, lead, card) ==
    IF card.suit = trump THEN 2 ELSE IF card.suit = lead THEN 1 ELSE 0

Beats(trump, lead, c, d) ==
    LET i == Category(trump, lead, c)
        j == Category(trump, lead, d)
    IN  i > j \/ (i = j /\ c.rank >= d.rank)

(* Mutant: the led suit counts as much as trump. *)
winner_from_plays_flat(trump, plays) ==
    LET lead == plays[1].card.suit
        last == CHOOSE i \in DOMAIN plays :
                   /\ plays[i].card.suit \in {trump, lead}
                   /\ \A j \in DOMAIN plays :
                         plays[j].card.suit \in {trump, lead}
                            => plays[i].card.rank >= plays[j].card.rank
    IN  plays[last].player

winner_from_plays(trump, plays) ==
    LET lead == plays[1].card.suit
        best == {i \in DOMAIN plays : \A j \in DOMAIN plays :
                    Beats(trump, lead, plays[i].card, plays[j].card)}
    IN  plays[Max(best)].player

Missed(bid, tricks) == tricks # bid

points(bid, tricks, hand_size) ==
    IF Missed(bid, tricks) THEN 0
    ELSE IF tricks = hand_size THEN 20 + bid ELSE 10 + bid

(* The zones a card is in.  Playing and Scoring own all of them; the trick *)
(* and the captures are empty while players bid.                           *)
Count(t, card) ==
    (IF t.trump = card THEN 1 ELSE 0)
    + Cardinality({s \in PlayerSeats : card \in t.hands[s]})
    + (IF card \in t.stock THEN 1 ELSE 0)
    + Cardinality({i \in DOMAIN t.trick : t.trick[i].card = card})
    + Cardinality({s \in PlayerSeats : card \in t.captured[s]})

validate_card_zones(t) == \A card \in Cards : Count(t, card) = 1

-----------------------------------------------------------------------------
(* Transitions: what is refused, and the state after.                      *)

Dealt(l, deck) ==
    LET hand_size == hand_size_for_round(l.round_index)
        first == left(l.dealer)
        Layer(offset) == {deck[k * PLAYERS + offset + 1] : k \in 0 .. (hand_size - 1)}
        cursor == hand_size * PLAYERS + 1
    IN  [NoTable EXCEPT
            !.hand_size = hand_size, !.actor = first,
            !.hands = [s \in PlayerSeats |->
                          Layer(CHOOSE o \in PlayerSeats : advance(first, o) = s)],
            !.trump = deck[cursor],
            !.stock = {deck[i] : i \in (cursor + 1) .. DECK_SIZE}]

BidAccepted(t, player, tricks) == player = t.actor /\ tricks <= t.hand_size

AllBid(t) == \A s \in PlayerSeats : t.bids[s] # NoBid

AfterBid(t, dealer, player, tricks) ==
    LET next == [t EXCEPT !.bids[player] = tricks]
    IN  IF AllBid(next)
        THEN [next EXCEPT !.actor = left(dealer), !.leader = left(dealer)]
        ELSE [next EXCEPT !.actor = left(t.actor)]

contains_suit(hand, suit) == \E c \in hand : c.suit = suit

(* Mutant: the second card of a trick is free. *)
MustFollow_late(t, player) ==
    Len(t.trick) > 1 /\ contains_suit(t.hands[player], t.trick[1].card.suit)

(* The led suit that play_card holds a player to.                          *)
MustFollow(t, player) ==
    t.trick # <<>> /\ contains_suit(t.hands[player], t.trick[1].card.suit)

Winner(t) == winner_from_plays(t.trump.suit, t.trick)

(* Mutant: the winner acts next, but does not lead. *)
Collected_led_as_before(t) ==
    [t EXCEPT !.captured[Winner(t)] = @ \cup {t.trick[i].card : i \in DOMAIN t.trick},
              !.tricks_won[Winner(t)] = @ + 1,
              !.trick = <<>>, !.actor = Winner(t)]

(* complete_trick.                                                         *)
Collected(t) ==
    [t EXCEPT !.captured[Winner(t)] = @ \cup {t.trick[i].card : i \in DOMAIN t.trick},
              !.tricks_won[Winner(t)] = @ + 1,
              !.trick = <<>>, !.actor = Winner(t), !.leader = Winner(t)]

AfterPlay(t, player, card) ==
    LET next == [t EXCEPT !.hands[player] = @ \ {card},
                          !.trick = Append(@, [player |-> player, card |-> card])]
    IN  IF Len(next.trick) = PLAYERS THEN Collected(next)
        ELSE [next EXCEPT !.actor = left(player)]

(* The next state of an accepted play, or no state.                        *)
play_card(t, player, card) ==
    IF /\ player = t.actor
       /\ card \in t.hands[player]
       /\ MustFollow(t, player) => card.suit = t.trick[1].card.suit
    THEN {next \in {AfterPlay(t, player, card)} : validate_card_zones(next)}
    ELSE {}

RoundOver(t) == \A s \in PlayerSeats : t.hands[s] = {}

(* Mutant: a missed bid is not paid for. *)
Settled_unpaid(l, t) ==
    [l EXCEPT !.scores = [s \in PlayerSeats |->
                             @[s] + points(t.bids[s], t.tricks_won[s], t.hand_size)],
              !.round_index = @ + 1]

(* settle_round, up to the rotation of the dealer.                         *)
Settled(l, t) ==
    [l EXCEPT !.scores = [s \in PlayerSeats |->
                             @[s] + points(t.bids[s], t.tricks_won[s], t.hand_size)],
              !.pot_cents = @ + MISSED_BID_PAYMENT_CENTS * Cardinality(
                             {s \in PlayerSeats : Missed(t.bids[s], t.tricks_won[s])}),
              !.round_index = @ + 1]

legal_bids(t) == 0 .. t.hand_size

(* Mutant: any card of the hand is offered. *)
legal_card_actions_all(t) == t.hands[t.actor]

(* The cards offered to the player in turn; the code computes the duty to  *)
(* follow suit here a second time, apart from play_card.                   *)
legal_card_actions(t) ==
    LET hand == t.hands[t.actor]
        must_follow ==
            t.trick # <<>> /\ contains_suit(hand, t.trick[1].card.suit)
    IN  {c \in hand : must_follow => c.suit = t.trick[1].card.suit}

-----------------------------------------------------------------------------
(* Game::new, for a first dealer.                                          *)
GameInit ==
    /\ phase = "AwaitingDeal"
    /\ \E dealer \in PlayerSeats : ledger = NewLedger(dealer)
    /\ table = NoTable

Deal(deck) ==
    /\ phase = "AwaitingDeal"
    /\ \E next \in {Dealt(ledger, deck)} : validate_card_zones(next) /\ table' = next
    /\ phase' = "Bidding"
    /\ UNCHANGED ledger

Bid(player, tricks) ==
    /\ phase = "Bidding" /\ BidAccepted(table, player, tricks)
    /\ table' = AfterBid(table, ledger.dealer, player, tricks)
    /\ phase' = IF AllBid(table') THEN "Playing" ELSE "Bidding"
    /\ UNCHANGED ledger

Play(player, card) ==
    /\ phase = "Playing"
    /\ \E next \in play_card(table, player, card) :
          /\ table' = next
          /\ phase' = IF RoundOver(next) THEN "Scoring" ELSE "Playing"
    /\ UNCHANGED ledger

(* Mutant: one round too few. *)
SettleRound_early ==
    LET settled == Settled(ledger, table)
        done == settled.round_index = round_count - 1
    IN  /\ phase = "Scoring"
        /\ phase' = IF done THEN "Finished" ELSE "AwaitingDeal"
        /\ ledger' = IF done THEN settled
                     ELSE [settled EXCEPT !.dealer = left(@)]
        /\ table' = NoTable

(* Mutant: the last round is never settled. *)
SettleRound_not_last ==
    LET settled == Settled(ledger, table)
        done == settled.round_index = round_count
    IN  /\ phase = "Scoring" /\ settled.round_index < round_count
        /\ phase' = IF done THEN "Finished" ELSE "AwaitingDeal"
        /\ ledger' = IF done THEN settled
                     ELSE [settled EXCEPT !.dealer = left(@)]
        /\ table' = NoTable

(* Mutant: the dealer keeps the deck. *)
SettleRound_same_dealer ==
    LET settled == Settled(ledger, table)
        done == settled.round_index = round_count
    IN  /\ phase = "Scoring"
        /\ phase' = IF done THEN "Finished" ELSE "AwaitingDeal"
        /\ ledger' = settled
        /\ table' = NoTable

SettleRound ==
    LET settled == Settled(ledger, table)
        done == settled.round_index = round_count
    IN  /\ phase = "Scoring"
        /\ phase' = IF done THEN "Finished" ELSE "AwaitingDeal"
        /\ ledger' = IF done THEN settled
                     ELSE [settled EXCEPT !.dealer = left(@)]
        /\ table' = NoTable

GameNext ==
    \/ phase = "AwaitingDeal" /\ \E deck \in Decks : Deal(deck)
    \/ \E player \in PlayerSeats, tricks \in 0 .. MAX_HAND_SIZE : Bid(player, tricks)
    \/ \E player \in PlayerSeats, card \in Cards : Play(player, card)
    \/ SettleRound

-----------------------------------------------------------------------------
(* Properties.                                                             *)

(* Bids, hands, tricks and scores stay in their types; a hand never        *)
(* exceeds the hand size and the schedule never leaves its range.          *)
GameTypeOK ==
    /\ phase \in {"AwaitingDeal", "Bidding", "Playing", "Scoring", "Finished"}
    /\ ledger.dealer \in PlayerSeats /\ ledger.round_index \in 0 .. round_count
    /\ ledger.scores \in [PlayerSeats -> 0 .. (20 + MAX_HAND_SIZE) * round_count]
    /\ phase # "Finished" => ledger.round_index < round_count
    /\ table.actor \in PlayerSeats /\ table.leader \in PlayerSeats
    /\ \A s \in PlayerSeats :
          /\ table.hands[s] \subseteq Cards
          /\ Cardinality(table.hands[s]) <= table.hand_size
          /\ table.bids[s] \in NoBid .. table.hand_size

(* Two implementations of the rules agree: what legal_player_actions lists *)
(* is what transition accepts, so validate never refuses a legal play and  *)
(* the player whose turn it is can always act.                             *)
LegalIsAccepted ==
    /\ phase = "Bidding" =>
          {n \in 0 .. MAX_HAND_SIZE : BidAccepted(table, table.actor, n)}
              = legal_bids(table)
    /\ phase = "Playing" =>
          /\ legal_card_actions(table) # {}
          /\ {c \in Cards : play_card(table, table.actor, c) # {}}
                 = legal_card_actions(table)

(* Every trick is won once and every seat plays one card to it: piles hold *)
(* the cards of the tricks their owner won, and the seats from the leader  *)
(* to the actor are the ones that have played (complete_trick).            *)
TricksAccount ==
    phase \in {"Playing", "Scoring"} =>
        LET won == Cardinality({w \in PlayerSeats \X (1 .. table.hand_size) :
                                   w[2] <= table.tricks_won[w[1]]})
            played(s) == \E i \in DOMAIN table.trick : table.trick[i].player = s
        IN  /\ \A s \in PlayerSeats :
                  /\ Cardinality(table.captured[s]) = PLAYERS * table.tricks_won[s]
                  /\ Cardinality(table.hands[s])
                        = table.hand_size - won - (IF played(s) THEN 1 ELSE 0)
            /\ table.actor = advance(table.leader, Len(table.trick))
            /\ phase = "Scoring" <=> won = table.hand_size

(* The state is well formed and its tricks are accounted for (play_card,   *)
(* complete_trick, settle_round).                                          *)
GameInv == GameTypeOK /\ TricksAccount

(* Whoever closes a trick, the winner is the owner of the highest trump,   *)
(* or of the highest card of the led suit when nobody played trump: the    *)
(* reference the code's ordering by category and rank is measured by.      *)
HighestTrumpElseLead(trump, plays) ==
    LET Of(suit) == {i \in DOMAIN plays : plays[i].card.suit = suit}
        suit == IF Of(trump) # {} THEN trump ELSE plays[1].card.suit
    IN  plays[CHOOSE i \in Of(suit) : \A j \in Of(suit) :
                 plays[i].card.rank >= plays[j].card.rank].player

WinnerIsHighest ==
    phase = "Playing" /\ Len(table.trick) = PLAYERS - 1 =>
        \A card \in legal_card_actions(table) :
            LET plays == Append(table.trick, [player |-> table.actor, card |-> card])
            IN  AfterPlay(table, table.actor, card).actor
                    = HighestTrumpElseLead(table.trump.suit, plays)

(* A settlement takes a payment from exactly the players it gives no       *)
(* points, and, unless it was the last, hands the deck to the player left  *)
(* of the dealer for a hand one card longer or shorter (settle_round,      *)
(* hand_size_for_round).                                                   *)
SettlementIsExact ==
    [][phase = "Scoring" /\ phase' # "Scoring" =>
          /\ ledger'.pot_cents = ledger.pot_cents + MISSED_BID_PAYMENT_CENTS
                * Cardinality({s \in PlayerSeats : ledger'.scores[s] = ledger.scores[s]})
          /\ phase' = "AwaitingDeal" =>
                /\ ledger'.dealer = left(ledger.dealer)
                /\ hand_size_for_round(ledger'.round_index) - table.hand_size \in {-1, 1}]_gvars

(* The game as the session sees it.                                        *)
Turned ==
    [turn |-> CASE phase = "AwaitingDeal" -> PLAYERS
                [] phase \in {"Bidding", "Playing"} -> table.actor
                [] phase = "Scoring" -> PLAYERS + 1
                [] phase = "Finished" -> PLAYERS + 2,
     round |-> ledger.round_index]

Abstract == INSTANCE TurnGame WITH
    MAX_MEMBERS <- PLAYERS, ROUNDS <- round_count, g <- Turned

(* The rules implement what the session reducer assumes of a game: a deal, *)
(* turns of players, a settlement per round, an end after the last round   *)
(* (OracleSessionGame).                                                    *)
RefinesTurnGame == Abstract!GSpec
=============================================================================
