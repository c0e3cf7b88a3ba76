----------------------------- MODULE GameProofs -----------------------------
(***************************************************************************)
(* Proofs about Game and GameAudit, for every number of players, every     *)
(* deck and every schedule.                                                *)
(***************************************************************************)
EXTENDS GameAudit, FiniteSetTheorems, WellFoundedInduction, TLAPS

-----------------------------------------------------------------------------
(* The schedule.                                                           *)

LEMMA CardsFinite == IsFiniteSet(Cards)
<1>1. IsFiniteSet(Suits \X Ranks)
  BY GameAssumption, FS_Product DEF GameAssumption
<1> DEFINE f == [c \in Cards |-> <<c.suit, c.rank>>]
<1>2. f \in Injection(Cards, Suits \X Ranks)
  <2>1. f \in [Cards -> Suits \X Ranks]
    BY DEF Cards
  <2>2. \A c, d \in Cards : f[c] = f[d] => c = d
    BY DEF Cards
  <2> HIDE DEF f
  <2> QED
    BY <2>1, <2>2 DEF Injection, IsInjective
<1> QED
  BY <1>1, <1>2, FS_Injection

LEMMA Constants ==
    /\ PLAYERS \in Nat /\ PLAYERS >= 2 /\ DECK_SIZE \in Nat
    /\ PLAYERS < DECK_SIZE /\ MAX_HAND_SIZE \in Nat /\ MAX_HAND_SIZE >= 1
<1>1. DECK_SIZE \in Nat
  BY CardsFinite, FS_CardinalityType DEF DECK_SIZE
<1> QED
  BY <1>1, GameAssumption DEF GameAssumption

LEMMA Multiples ==
    ASSUME NEW a \in Nat, NEW b \in Nat, NEW c \in Nat, a <= b
    PROVE  a * c <= b * c
<1>1. (b - a) * c >= 0
  OBVIOUS
<1>2. (b - a) * c = b * c - a * c
  OBVIOUS
<1> QED
  BY <1>1, <1>2

(* The largest hand leaves a card for the trump.                           *)
LEMMA LargestHand ==
    /\ max_hand_size \in Nat /\ max_hand_size >= 1
    /\ max_hand_size <= MAX_HAND_SIZE
    /\ max_hand_size * PLAYERS <= DECK_SIZE - 1
<1> DEFINE q == (DECK_SIZE - 1) \div PLAYERS
<1>1. q \in Nat /\ q >= 1 /\ q * PLAYERS <= DECK_SIZE - 1
  <2>1. DECK_SIZE - 1 \in Nat /\ DECK_SIZE - 1 >= PLAYERS /\ PLAYERS >= 1
    BY Constants
  <2> QED
    BY <2>1, Constants
<1> HIDE DEF q
<1>2. max_hand_size = IF q < MAX_HAND_SIZE THEN q ELSE MAX_HAND_SIZE
  BY DEF max_hand_size, q
<1>3. max_hand_size <= q /\ max_hand_size \in Nat
  BY <1>1, <1>2, Constants
<1>4. max_hand_size * PLAYERS <= q * PLAYERS
  BY <1>1, <1>3, Constants, Multiples
<1> QED
  BY <1>1, <1>2, <1>3, <1>4, Constants

(* hand_size_for_round stays in its range, and moves by one card.          *)
LEMMA Schedule ==
    ASSUME NEW r \in Nat, r < round_count
    PROVE  /\ hand_size_for_round(r) \in 1 .. max_hand_size
           /\ r + 1 < round_count =>
                  hand_size_for_round(r + 1) - hand_size_for_round(r) \in {-1, 1}
BY LargestHand DEF hand_size_for_round, round_count

-----------------------------------------------------------------------------
(* Types.                                                                  *)

LEMMA SeatTypes ==
    /\ 0 \in PlayerSeats /\ PlayerSeats \subseteq Int /\ IsFiniteSet(PlayerSeats)
    /\ \A s \in PlayerSeats : left(s) \in PlayerSeats
<1>1. \A s \in PlayerSeats : (s + 1) % PLAYERS \in 0 .. (PLAYERS - 1)
  BY Constants DEF PlayerSeats
<1>2. IsFiniteSet(PlayerSeats)
  BY Constants, FS_Interval DEF PlayerSeats
<1> QED
  BY <1>1, <1>2, Constants DEF PlayerSeats, left, advance

CardPlays == [player : PlayerSeats, card : Cards]

Tables ==
    [hand_size : Nat, hands : [PlayerSeats -> SUBSET Cards],
     trump : Cards \cup {NoCard}, stock : SUBSET Cards,
     bids : [PlayerSeats -> Int], actor : PlayerSeats, leader : PlayerSeats,
     trick : Seq(CardPlays), captured : [PlayerSeats -> SUBSET Cards],
     tricks_won : [PlayerSeats -> Nat]]

Ledgers ==
    [dealer : PlayerSeats, round_index : Nat, scores : [PlayerSeats -> Nat],
     pot_cents : Nat]

LEMMA NoTableTyped == NoTable \in Tables
<1>1. /\ EachSeat({}) \in [PlayerSeats -> SUBSET Cards]
      /\ EachSeat(NoBid) \in [PlayerSeats -> Int]
      /\ EachSeat(0) \in [PlayerSeats -> Nat]
  BY DEF EachSeat, NoBid
<1>2. <<>> \in Seq(CardPlays)
  OBVIOUS
<1> QED
  BY <1>1, <1>2, SeatTypes DEF NoTable, Tables

(* Dealing takes the deck's first cards: their places exist.               *)
LEMMA DealtTyped ==
    ASSUME NEW l \in Ledgers, l.round_index < round_count, NEW deck \in Decks
    PROVE  /\ Dealt(l, deck) \in Tables
           /\ Dealt(l, deck).hand_size = hand_size_for_round(l.round_index)
           /\ Dealt(l, deck).trick = <<>>
           /\ Dealt(l, deck).trump \in Cards
           /\ Dealt(l, deck).bids = EachSeat(NoBid)
<1> DEFINE hand_size == hand_size_for_round(l.round_index)
           first == left(l.dealer)
           Layer(offset) == {deck[k * PLAYERS + offset + 1] : k \in 0 .. (hand_size - 1)}
           cursor == hand_size * PLAYERS + 1
           hands == [s \in PlayerSeats |->
                          Layer(CHOOSE o \in PlayerSeats : advance(first, o) = s)]
           stock == {deck[i] : i \in (cursor + 1) .. DECK_SIZE}
<1>1. Dealt(l, deck) = [NoTable EXCEPT !.hand_size = hand_size, !.actor = first,
            !.hands = hands, !.trump = deck[cursor], !.stock = stock]
  BY DEF Dealt
<1>2. hand_size \in 1 .. max_hand_size /\ first \in PlayerSeats
  BY Schedule, SeatTypes DEF Ledgers
<1>3. deck \in [1 .. DECK_SIZE -> Cards]
  BY GameAssumption DEF GameAssumption
<1> HIDE DEF hand_size, first
<1>4. /\ cursor \in 1 .. DECK_SIZE /\ cursor \in Nat
      /\ hand_size * PLAYERS <= DECK_SIZE - 1 /\ hand_size * PLAYERS \in Nat
  <2>1. hand_size * PLAYERS <= max_hand_size * PLAYERS
    BY <1>2, LargestHand, Constants, Multiples
  <2>2. hand_size * PLAYERS \in Nat
    BY <1>2, LargestHand, Constants
  <2> QED
    BY <2>1, <2>2, LargestHand, Constants
<1>5. ASSUME NEW o \in PlayerSeats PROVE Layer(o) \subseteq Cards
  <2> SUFFICES ASSUME NEW k \in 0 .. (hand_size - 1)
               PROVE  deck[k * PLAYERS + o + 1] \in Cards
    OBVIOUS
  <2>1. k * PLAYERS <= (hand_size - 1) * PLAYERS /\ k * PLAYERS \in Nat
    BY <1>2, LargestHand, Constants, Multiples
  <2>2. (hand_size - 1) * PLAYERS = hand_size * PLAYERS - PLAYERS
    BY <1>2, LargestHand, Constants
  <2>3. o \in 0 .. (PLAYERS - 1)
    BY DEF PlayerSeats
  <2>4. k * PLAYERS + o + 1 \in 1 .. DECK_SIZE
    BY <2>1, <2>2, <2>3, <1>4, Constants
  <2> QED
    BY <2>4, <1>3
<1>6. hands \in [PlayerSeats -> SUBSET Cards]
  <2> SUFFICES ASSUME NEW s \in PlayerSeats
               PROVE  Layer(CHOOSE o \in PlayerSeats : advance(first, o) = s) \subseteq Cards
    OBVIOUS
  <2>1. \E o \in PlayerSeats : advance(first, o) = s
    <3> DEFINE o == IF s >= first THEN s - first ELSE s - first + PLAYERS
    <3>1. o \in PlayerSeats /\ (first + o = s \/ first + o = s + PLAYERS)
      BY <1>2, Constants DEF PlayerSeats
    <3>2. (first + o) % PLAYERS = s
      BY <1>2, <3>1, Constants DEF PlayerSeats
    <3> QED
      BY <3>1, <3>2 DEF advance
  <2>2. (CHOOSE o \in PlayerSeats : advance(first, o) = s) \in PlayerSeats
    BY <2>1
  <2> HIDE DEF Layer
  <2> QED
    BY <2>2, <1>5
<1>7. stock \subseteq Cards /\ deck[cursor] \in Cards
  BY <1>3, <1>4, Constants
<1> HIDE DEF hands, stock, cursor
<1>8. hand_size \in Nat
  BY <1>2, LargestHand
<1> QED
  BY <1>1, <1>2, <1>6, <1>7, <1>8, NoTableTyped, ZenonT(60)
     DEF Tables, NoTable, hand_size

-----------------------------------------------------------------------------
(* The winner of a trick.                                                  *)

(* A set of places of a sequence that is not empty has a last one.         *)
LEMMA LastPlace ==
    ASSUME NEW n \in Nat, NEW S \in SUBSET (1 .. n), S # {}
    PROVE  Max(S) \in S /\ \A i \in S : Max(S) >= i
<1> DEFINE Left == {n - i : i \in S}
<1>1. Left \in SUBSET Nat /\ Left # {}
  <2>1. \A i \in S : n - i \in Nat
    OBVIOUS
  <2>2. \A k \in Left : k \in Nat
    BY <2>1
  <2>3. PICK i \in S : TRUE
    OBVIOUS
  <2>4. n - i \in Left
    OBVIOUS
  <2> QED
    BY <2>2, <2>4
<1>2. PICK m \in Left : \A k \in Left : ~(<<k, m>> \in OpToRel(<, Nat))
  <2> HIDE DEF Left
  <2> QED
    BY <1>1, NatLessThanWellFounded, WFMin
<1>3. \A k \in Left : ~(k < m)
  BY <1>1, <1>2 DEF OpToRel
<1>4. PICK x \in S : m = n - x
  BY <1>2
<1>5. \A i \in S : x >= i
  BY <1>3, <1>4
<1> QED
  BY <1>4, <1>5 DEF Max

(* A play that no other of the trick outranks.                             *)
Highest(trump, plays, i) ==
    /\ i \in DOMAIN plays
    /\ \A j \in DOMAIN plays :
           Beats(trump, plays[1].card.suit, plays[i].card, plays[j].card)

(* Beats orders any two cards, and carries over.                           *)
LEMMA BeatsOrders ==
    ASSUME NEW trump, NEW lead, NEW c \in Cards, NEW d \in Cards, NEW e \in Cards
    PROVE  /\ Beats(trump, lead, c, d) \/ Beats(trump, lead, d, c)
           /\ Beats(trump, lead, c, d) /\ Beats(trump, lead, d, e)
                  => Beats(trump, lead, c, e)
<1>1. c.rank \in Nat /\ d.rank \in Nat /\ e.rank \in Nat
  BY GameAssumption DEF GameAssumption, Cards
<1>2. \A k \in {c, d, e} : Category(trump, lead, k) \in 0 .. 2
  BY DEF Category
<1> QED
  BY <1>1, <1>2 DEF Beats

(* A trick with a highest play has one again after another play.           *)
LEMMA HighestGoesOn ==
    ASSUME NEW trump, NEW plays \in Seq(CardPlays), NEW play \in CardPlays,
           plays # <<>> => \E i : Highest(trump, plays, i)
    PROVE  \E i : Highest(trump, Append(plays, play), i)
<1> DEFINE more == Append(plays, play)
           n == Len(plays) + 1
<1>1. /\ n \in Nat /\ DOMAIN more = 1 .. n /\ DOMAIN plays = 1 .. (n - 1)
      /\ more[n] = play /\ \A i \in 1 .. (n - 1) : more[i] = plays[i]
      /\ n >= 1
  OBVIOUS
<1>2. \A i \in 1 .. n : more[i].card \in Cards
  <2>1. more \in Seq(CardPlays) /\ Len(more) = n
    OBVIOUS
  <2> HIDE DEF more
  <2>2. \A i \in 1 .. n : more[i] \in CardPlays
    BY <2>1
  <2> QED
    BY <2>2 DEF CardPlays
<1> DEFINE lead == more[1].card.suit
<1> HIDE DEF more, n
<1>3. CASE plays = <<>>
  <2>1. DOMAIN more = {n}
    BY <1>1, <1>3
  <2>2. Beats(trump, lead, more[n].card, more[n].card)
    BY <1>1, <1>2, BeatsOrders
  <2> QED
    BY <2>1, <2>2 DEF Highest, more
<1>4. CASE plays # <<>>
  <2>1. PICK i : Highest(trump, plays, i)
    BY <1>4
  <2>2. /\ n > 1 /\ plays[1] = more[1] /\ i \in 1 .. (n - 1) /\ i \in 1 .. n
        /\ more[i] = plays[i]
    BY <1>1, <1>4, <2>1 DEF Highest
  <2>3. \A j \in 1 .. (n - 1) : Beats(trump, lead, more[i].card, more[j].card)
    BY <1>1, <2>1, <2>2 DEF Highest
  <2>4. CASE Beats(trump, lead, more[i].card, more[n].card)
    <3>1. \A j \in 1 .. n : Beats(trump, lead, more[i].card, more[j].card)
      BY <1>1, <2>3, <2>4
    <3> QED
      BY <1>1, <2>2, <3>1 DEF Highest, more
  <2>5. CASE Beats(trump, lead, more[n].card, more[i].card)
    <3>1. \A j \in 1 .. (n - 1) : Beats(trump, lead, more[n].card, more[j].card)
      BY <1>1, <1>2, <2>2, <2>3, <2>5, BeatsOrders
    <3>2. n \in 1 .. n
      BY <1>1
    <3>3. Beats(trump, lead, more[n].card, more[n].card)
      BY <1>2, <3>2, BeatsOrders
    <3>4. \A j \in 1 .. n : Beats(trump, lead, more[n].card, more[j].card)
      BY <1>1, <3>1, <3>3
    <3> QED
      BY <1>1, <3>2, <3>4 DEF Highest, more
  <2>6. n \in 1 .. n
    BY <1>1
  <2> QED
    BY <1>2, <2>2, <2>4, <2>5, <2>6, BeatsOrders
<1> QED
  BY <1>3, <1>4

(* winner_from_plays returns the player of a highest play.                 *)
LEMMA WinnerPlayed ==
    ASSUME NEW trump, NEW plays \in Seq(CardPlays), \E i : Highest(trump, plays, i)
    PROVE  \E i : /\ Highest(trump, plays, i)
                  /\ winner_from_plays(trump, plays) = plays[i].player
<1> DEFINE best == {i \in DOMAIN plays : \A j \in DOMAIN plays :
                      Beats(trump, plays[1].card.suit, plays[i].card, plays[j].card)}
<1>1. best # {} /\ best \in SUBSET (1 .. Len(plays)) /\ Len(plays) \in Nat
  BY DEF Highest
<1>2. winner_from_plays(trump, plays) = plays[Max(best)].player
  BY DEF winner_from_plays
<1>3. Max(best) \in best
  <2> HIDE DEF best
  <2> QED
    BY <1>1, LastPlace
<1> QED
  BY <1>2, <1>3 DEF Highest

(* The winner is a seat, and taking the trick leaves hands, bids and the   *)
(* trump alone.                                                            *)
LEMMA CollectedTyped ==
    ASSUME NEW t \in Tables, \E i : Highest(t.trump.suit, t.trick, i)
    PROVE  LET u == Collected(t) IN
           /\ u \in Tables /\ u.trick = <<>> /\ u.hands = t.hands
           /\ u.hand_size = t.hand_size /\ u.trump = t.trump /\ u.bids = t.bids
           /\ u.actor = Winner(t)
<1> DEFINE w == Winner(t)
           cards == {t.trick[i].card : i \in DOMAIN t.trick}
<1>1. t.trick \in Seq(CardPlays)
  BY DEF Tables
<1>2. w \in PlayerSeats
  <2>1. \A i \in DOMAIN t.trick : t.trick[i] \in CardPlays
    BY <1>1
  <2> QED
    BY <1>1, <2>1, WinnerPlayed DEF Highest, Winner, CardPlays
<1>3. cards \subseteq Cards
  <2>1. \A i \in DOMAIN t.trick : t.trick[i] \in CardPlays
    BY <1>1
  <2> QED
    BY <2>1 DEF CardPlays
<1> DEFINE captured == [t.captured EXCEPT ![w] = @ \cup cards]
           won == [t.tricks_won EXCEPT ![w] = @ + 1]
<1>4. Collected(t) = [t EXCEPT !.captured = captured, !.tricks_won = won,
                               !.trick = <<>>, !.actor = w, !.leader = w]
  BY DEF Collected, Tables
<1> HIDE DEF w, cards
<1>5. captured \in [PlayerSeats -> SUBSET Cards] /\ won \in [PlayerSeats -> Nat]
  BY <1>2, <1>3 DEF Tables
<1>6. <<>> \in Seq(CardPlays)
  OBVIOUS
<1> HIDE DEF captured, won
<1> QED
  BY <1>2, <1>4, <1>5, <1>6 DEF Tables, w

(* What a play that the rules accept does.                                 *)
PlayedOn(t, u, player, card) ==
    /\ player = t.actor /\ card \in t.hands[player]
    /\ MustFollow(t, player) => card.suit = t.trick[1].card.suit
    /\ u.hands = [t.hands EXCEPT ![player] = @ \ {card}]
    /\ u.hand_size = t.hand_size /\ u.trump = t.trump /\ u.bids = t.bids

RankedTrick(t) ==
    t.trick # <<>> => \E i : Highest(t.trump.suit, t.trick, i)

LEMMA AfterPlayTyped ==
    ASSUME NEW t \in Tables, RankedTrick(t), NEW player \in PlayerSeats,
           NEW card \in Cards
    PROVE  LET u == AfterPlay(t, player, card) IN
           /\ u \in Tables /\ RankedTrick(u)
           /\ u.hands = [t.hands EXCEPT ![player] = @ \ {card}]
           /\ u.hand_size = t.hand_size /\ u.trump = t.trump /\ u.bids = t.bids
<1> DEFINE play == [player |-> player, card |-> card]
           hands == [t.hands EXCEPT ![player] = @ \ {card}]
           trick == Append(t.trick, play)
           n == [t EXCEPT !.hands = hands, !.trick = trick]
<1>1. play \in CardPlays /\ t.trick \in Seq(CardPlays)
  BY DEF CardPlays, Tables
<1>2. trick \in Seq(CardPlays) /\ \E i : Highest(t.trump.suit, trick, i)
  <2> HIDE DEF play
  <2>1. trick \in Seq(CardPlays)
    BY <1>1
  <2>2. \E i : Highest(t.trump.suit, trick, i)
    BY <1>1, HighestGoesOn DEF RankedTrick
  <2> QED
    BY <2>1, <2>2
<1>3. hands \in [PlayerSeats -> SUBSET Cards]
  BY DEF Tables
<1>4. AfterPlay(t, player, card)
        = IF Len(n.trick) = PLAYERS THEN Collected(n)
          ELSE [n EXCEPT !.actor = left(player)]
  BY DEF AfterPlay, Tables
<1> HIDE DEF hands, trick
<1>5. /\ n \in Tables /\ n.trick = trick /\ n.hands = hands
      /\ n.hand_size = t.hand_size /\ n.trump = t.trump /\ n.bids = t.bids
  BY <1>2, <1>3 DEF Tables
<1> HIDE DEF n
<1>6. CASE Len(n.trick) = PLAYERS
  <2>1. AfterPlay(t, player, card) = Collected(n)
    BY <1>4, <1>6
  <2> QED
    BY <1>2, <1>5, <2>1, CollectedTyped DEF hands, RankedTrick
<1>7. CASE Len(n.trick) # PLAYERS
  <2> DEFINE u == [n EXCEPT !.actor = left(player)]
  <2>1. AfterPlay(t, player, card) = u
    BY <1>4, <1>7
  <2>2. /\ u \in Tables /\ u.trick = n.trick /\ u.hands = n.hands
        /\ u.hand_size = n.hand_size /\ u.trump = n.trump /\ u.bids = n.bids
    BY <1>5, SeatTypes DEF Tables
  <2> HIDE DEF u
  <2> QED
    BY <1>2, <1>5, <2>1, <2>2 DEF RankedTrick, hands
<1> QED
  BY <1>6, <1>7

-----------------------------------------------------------------------------
(* The type invariant of the game.  A table in a round has the schedule's  *)
(* hand size and a trump; a trick in progress has a highest play, so that  *)
(* its winner is one of its players.                                       *)
InRound == {"Bidding", "Playing", "Scoring"}

GameTyped ==
    /\ phase \in InRound \cup {"AwaitingDeal", "Finished"}
    /\ ledger \in Ledgers /\ table \in Tables
    /\ ledger.round_index <= round_count
    /\ phase # "Finished" => ledger.round_index < round_count
    /\ phase \in InRound =>
           /\ table.hand_size = hand_size_for_round(ledger.round_index)
           /\ table.trump \in Cards
    /\ RankedTrick(table)

LEMMA GameInitTyped == GameInit => GameTyped
<1> SUFFICES ASSUME GameInit PROVE GameTyped
  OBVIOUS
<1>1. PICK dealer \in PlayerSeats : ledger = NewLedger(dealer)
  BY DEF GameInit
<1>2. ledger \in Ledgers /\ ledger.round_index = 0
  <2>1. OPENING_ANTE_CENTS * PLAYERS \in Nat
    BY GameAssumption, Constants DEF GameAssumption
  <2> QED
    BY <1>1, <2>1 DEF NewLedger, Ledgers, EachSeat
<1>3. table \in Tables /\ table.trick = <<>>
  BY NoTableTyped DEF GameInit, NoTable
<1>4. round_count \in Nat /\ 0 < round_count
  BY LargestHand DEF round_count
<1> QED
  BY <1>2, <1>3, <1>4 DEF GameInit, GameTyped, RankedTrick, InRound

LEMMA DealTyped ==
    ASSUME GameTyped, NEW deck \in Decks, Deal(deck)
    PROVE  GameTyped'
<1>1. table' = Dealt(ledger, deck) /\ phase' = "Bidding" /\ ledger' = ledger
      /\ ledger.round_index < round_count /\ ledger \in Ledgers
  BY DEF Deal, GameTyped
<1> QED
  BY <1>1, DealtTyped DEF GameTyped, RankedTrick, InRound

LEMMA BidTyped ==
    ASSUME GameTyped, NEW player \in PlayerSeats, NEW tricks \in 0 .. MAX_HAND_SIZE,
           Bid(player, tricks)
    PROVE  GameTyped'
<1> DEFINE bids == [table.bids EXCEPT ![player] = tricks]
           n == [table EXCEPT !.bids = bids]
<1>1. /\ table' = IF AllBid(n)
                  THEN [n EXCEPT !.actor = left(ledger.dealer), !.leader = left(ledger.dealer)]
                  ELSE [n EXCEPT !.actor = left(table.actor)]
      /\ phase' \in {"Bidding", "Playing"} /\ ledger' = ledger /\ phase = "Bidding"
  BY DEF Bid, AfterBid, GameTyped, Tables
<1>2. bids \in [PlayerSeats -> Int]
  BY DEF GameTyped, Tables
<1>3. left(ledger.dealer) \in PlayerSeats /\ left(table.actor) \in PlayerSeats
  BY SeatTypes DEF GameTyped, Tables, Ledgers
<1> HIDE DEF bids
<1>4. /\ table' \in Tables /\ table'.trick = table.trick
      /\ table'.hand_size = table.hand_size /\ table'.trump = table.trump
  BY <1>1, <1>2, <1>3 DEF GameTyped, Tables
<1> QED
  BY <1>1, <1>4 DEF GameTyped, RankedTrick, InRound

LEMMA PlayTyped ==
    ASSUME GameTyped, NEW player \in PlayerSeats, NEW card \in Cards,
           Play(player, card)
    PROVE  /\ GameTyped' /\ PlayedOn(table, table', player, card)
           /\ ledger' = ledger /\ phase = "Playing"
           /\ phase' = IF RoundOver(table') THEN "Scoring" ELSE "Playing"
           /\ table' = AfterPlay(table, player, card) /\ validate_card_zones(table')
<1>1. PICK u \in play_card(table, player, card) :
          /\ table' = u /\ phase' = IF RoundOver(u) THEN "Scoring" ELSE "Playing"
  BY DEF Play
<1>2. /\ u = AfterPlay(table, player, card) /\ validate_card_zones(u)
      /\ player = table.actor /\ card \in table.hands[player]
      /\ MustFollow(table, player) => card.suit = table.trick[1].card.suit
  BY DEF play_card
<1>3. /\ u \in Tables /\ RankedTrick(u)
      /\ u.hands = [table.hands EXCEPT ![player] = @ \ {card}]
      /\ u.hand_size = table.hand_size /\ u.trump = table.trump
      /\ u.bids = table.bids
  BY <1>2, AfterPlayTyped DEF GameTyped
<1>4. /\ phase = "Playing" /\ ledger' = ledger
      /\ phase' \in {"Playing", "Scoring"}
  BY <1>1 DEF Play
<1>5. PlayedOn(table, table', player, card)
  BY <1>1, <1>2, <1>3 DEF PlayedOn
<1>6. GameTyped'
  BY <1>1, <1>3, <1>4 DEF GameTyped, InRound
<1> QED
  BY <1>1, <1>2, <1>4, <1>5, <1>6

(* The payment of a settlement, and its points.                            *)
MissedSeats(t) == {s \in PlayerSeats : Missed(t.bids[s], t.tricks_won[s])}
Points(t, s) == points(t.bids[s], t.tricks_won[s], t.hand_size)

LEMMA PointsTyped ==
    ASSUME NEW t \in Tables, NEW s \in PlayerSeats
    PROVE  /\ Points(t, s) \in Nat
           /\ Points(t, s) = 0 <=> Missed(t.bids[s], t.tricks_won[s])
<1>1. t.bids[s] \in Int /\ t.tricks_won[s] \in Nat
  BY DEF Tables
<1>2. CASE t.tricks_won[s] = t.bids[s]
  <2>1. Points(t, s) \in {20 + t.bids[s], 10 + t.bids[s]}
    BY <1>2 DEF Points, points, Missed
  <2> QED
    BY <1>1, <1>2, <2>1 DEF Missed
<1>3. CASE t.tricks_won[s] # t.bids[s]
  <2>1. Missed(t.bids[s], t.tricks_won[s])
    BY <1>3 DEF Missed
  <2>2. Points(t, s) = 0
    BY <2>1 DEF Points, points
  <2> QED
    BY <2>1, <2>2
<1> QED
  BY <1>2, <1>3

LEMMA SettleTyped ==
    ASSUME GameTyped, SettleRound
    PROVE  /\ GameTyped' /\ phase = "Scoring"
           /\ table' = NoTable
           /\ ledger'.round_index = ledger.round_index + 1
           /\ phase' = IF ledger.round_index + 1 = round_count
                       THEN "Finished" ELSE "AwaitingDeal"
           /\ ledger'.scores
                = [s \in PlayerSeats |-> ledger.scores[s] + Points(table, s)]
           /\ ledger'.pot_cents = ledger.pot_cents
                + MISSED_BID_PAYMENT_CENTS * Cardinality(MissedSeats(table))
           /\ phase' = "AwaitingDeal" => ledger'.dealer = left(ledger.dealer)
<1> DEFINE scores == [s \in PlayerSeats |-> ledger.scores[s] + Points(table, s)]
           pot == ledger.pot_cents
                + MISSED_BID_PAYMENT_CENTS * Cardinality(MissedSeats(table))
           l == Settled(ledger, table)
<1>1. l = [ledger EXCEPT !.scores = scores, !.pot_cents = pot,
                         !.round_index = ledger.round_index + 1]
  BY DEF Settled, MissedSeats, Points, GameTyped, Ledgers
<1>2. scores \in [PlayerSeats -> Nat]
  BY PointsTyped DEF GameTyped, Ledgers
<1>3. pot \in Nat
  <2>1. Cardinality(MissedSeats(table)) \in Nat
    BY SeatTypes, FS_Subset, FS_CardinalityType DEF MissedSeats
  <2>2. MISSED_BID_PAYMENT_CENTS \in Nat /\ ledger.pot_cents \in Nat
    BY GameAssumption DEF GameAssumption, GameTyped, Ledgers
  <2> QED
    BY <2>1, <2>2
<1> HIDE DEF scores, pot
<1>4. /\ l \in Ledgers /\ l.round_index = ledger.round_index + 1
      /\ l.scores = scores /\ l.pot_cents = pot /\ l.dealer = ledger.dealer
  <2>1. ledger \in Ledgers
    BY DEF GameTyped
  <2>2. ledger.round_index + 1 \in Nat
    BY <2>1 DEF Ledgers
  <2> QED
    BY <1>1, <1>2, <1>3, <2>1, <2>2 DEF Ledgers
<1> HIDE DEF l
<1>5. /\ phase = "Scoring" /\ table' = NoTable
      /\ phase' = IF l.round_index = round_count THEN "Finished" ELSE "AwaitingDeal"
      /\ ledger' = IF l.round_index = round_count THEN l
                   ELSE [l EXCEPT !.dealer = left(l.dealer)]
  BY <1>4 DEF SettleRound, l, Ledgers
<1>6. /\ ledger' \in Ledgers /\ ledger'.round_index = l.round_index
      /\ ledger'.scores = scores /\ ledger'.pot_cents = pot
      /\ phase' = "AwaitingDeal" => ledger'.dealer = left(ledger.dealer)
  BY <1>4, <1>5, SeatTypes DEF Ledgers
<1>7. ledger.round_index < round_count /\ ledger.round_index \in Nat
      /\ round_count \in Nat
  BY <1>5, LargestHand DEF GameTyped, Ledgers, round_count
<1>8. GameTyped'
  <2>1. table' \in Tables /\ table'.trick = <<>>
    BY <1>5, NoTableTyped DEF NoTable
  <2>2. /\ ledger'.round_index <= round_count
        /\ phase' # "Finished" => ledger'.round_index < round_count
    BY <1>4, <1>5, <1>6, <1>7
  <2> QED
    BY <1>5, <1>6, <2>1, <2>2 DEF GameTyped, RankedTrick, InRound
<1> QED
  BY <1>4, <1>5, <1>6, <1>8 DEF scores, pot

LEMMA GameNextTyped ==
    ASSUME GameTyped, GameNext PROVE GameTyped'
BY DealTyped, BidTyped, PlayTyped, SettleTyped DEF GameNext

(* A step of the audited table is a step of the game, or leaves it alone.  *)
LEMMA AuditStepsGame ==
    ASSUME [AuditNext]_avars PROVE [GameNext]_gvars
<1>1. CASE Unrecorded
  BY <1>1 DEF Unrecorded
<1>2. CASE \E player \in PlayerSeats, card \in Cards :
               RecordedPlay(player, card) \/ Attempt(player, card)
  BY <1>2 DEF RecordedPlay, Attempt, GameNext
<1>3. CASE \/ \E player \in PlayerSeats : Disclose(player)
           \/ \E detector \in Detectors : Investigate(detector)
           \/ \E id \in Accusations, detector \in Detectors,
                 sequence \in 1 .. LastSequence + 1 :
                    BringAccusation(id, detector, sequence)
  BY <1>3 DEF Disclose, Investigate, BringAccusation, gvars
<1>4. CASE UNCHANGED avars
  BY <1>4 DEF avars, gvars
<1> QED
  BY <1>1, <1>2, <1>3, <1>4 DEF AuditNext

LEMMA GameTypedHolds == AuditSpec => []GameTyped
<1>1. AuditInit => GameTyped
  BY GameInitTyped DEF AuditInit
<1>2. GameTyped /\ [AuditNext]_avars => GameTyped'
  <2> SUFFICES ASSUME GameTyped, [GameNext]_gvars PROVE GameTyped'
    BY AuditStepsGame
  <2>1. CASE GameNext
    BY <2>1, GameNextTyped
  <2>2. CASE UNCHANGED gvars
    BY <2>2 DEF gvars, GameTyped, RankedTrick
  <2> QED
    BY <2>1, <2>2
<1> QED
  BY <1>1, <1>2, PTL DEF AuditSpec

(* Exactly the players without points pay, the deck moves to the dealer's  *)
(* left, and the next hand is one card longer or shorter, for every table  *)
(* size, deck and schedule (settle_round, hand_size_for_round).            *)
THEOREM SettlementsExact == AuditSpec => SettlementIsExact
<1>1. ASSUME GameTyped, [GameNext]_gvars, phase = "Scoring", phase' # "Scoring"
      PROVE  /\ ledger'.pot_cents = ledger.pot_cents + MISSED_BID_PAYMENT_CENTS
                  * Cardinality({s \in PlayerSeats :
                                    ledger'.scores[s] = ledger.scores[s]})
             /\ phase' = "AwaitingDeal" =>
                   /\ ledger'.dealer = left(ledger.dealer)
                   /\ hand_size_for_round(ledger'.round_index) - table.hand_size
                        \in {-1, 1}
  <2>1. SettleRound
    BY <1>1 DEF GameNext, Deal, Bid, Play, gvars
  <2>2. \A s \in PlayerSeats :
            ledger'.scores[s] = ledger.scores[s]
              <=> Missed(table.bids[s], table.tricks_won[s])
    <3> SUFFICES ASSUME NEW s \in PlayerSeats
                 PROVE  ledger'.scores[s] = ledger.scores[s]
                          <=> Missed(table.bids[s], table.tricks_won[s])
      OBVIOUS
    <3>1. ledger'.scores[s] = ledger.scores[s] + Points(table, s)
      BY <1>1, <2>1, SettleTyped
    <3>2. ledger.scores[s] \in Nat /\ table \in Tables
      BY <1>1 DEF GameTyped, Ledgers
    <3>3. Points(table, s) \in Nat
          /\ (Points(table, s) = 0 <=> Missed(table.bids[s], table.tricks_won[s]))
      BY <3>2, PointsTyped
    <3> QED
      BY <3>1, <3>2, <3>3
  <2>3. {s \in PlayerSeats : ledger'.scores[s] = ledger.scores[s]}
          = MissedSeats(table)
    BY <2>2 DEF MissedSeats
  <2>4. /\ ledger.round_index \in Nat /\ ledger.round_index < round_count
        /\ table.hand_size = hand_size_for_round(ledger.round_index)
    BY <1>1 DEF GameTyped, Ledgers, InRound
  <2>5. /\ ledger'.round_index = ledger.round_index + 1
        /\ phase' = "AwaitingDeal" => ledger.round_index + 1 < round_count
    <3>1. round_count \in Nat
      BY LargestHand DEF round_count
    <3> QED
      BY <1>1, <2>1, <2>4, <3>1, SettleTyped
  <2>6. phase' = "AwaitingDeal" =>
            hand_size_for_round(ledger'.round_index) - table.hand_size \in {-1, 1}
    BY <2>4, <2>5, Schedule
  <2> QED
    BY <1>1, <2>1, <2>3, <2>6, SettleTyped
<1>2. GameTyped /\ [AuditNext]_avars =>
          [phase = "Scoring" /\ phase' # "Scoring" =>
             /\ ledger'.pot_cents = ledger.pot_cents + MISSED_BID_PAYMENT_CENTS
                  * Cardinality({s \in PlayerSeats :
                                    ledger'.scores[s] = ledger.scores[s]})
             /\ phase' = "AwaitingDeal" =>
                   /\ ledger'.dealer = left(ledger.dealer)
                   /\ hand_size_for_round(ledger'.round_index) - table.hand_size
                        \in {-1, 1}]_gvars
  BY <1>1, AuditStepsGame
<1> QED
  BY <1>2, GameTypedHolds, PTL DEF AuditSpec, SettlementIsExact

-----------------------------------------------------------------------------
(* The rules implement the session's game.                                 *)

(* The turn, by phase.                                                     *)
LEMMA Turns ==
    /\ phase = "AwaitingDeal" => Turned.turn = PLAYERS
    /\ phase \in {"Bidding", "Playing"} => Turned.turn = table.actor
    /\ phase = "Scoring" => Turned.turn = PLAYERS + 1
    /\ phase = "Finished" => Turned.turn = PLAYERS + 2
    /\ Turned.round = ledger.round_index
    /\ \A n : [Turned EXCEPT !.turn = n] = [turn |-> n, round |-> ledger.round_index]
BY DEF Turned

(* A deal, bid or play hands the turn to a seat, or to the environment     *)
(* when the round is over; a settlement opens the next round or ends the   *)
(* game (OracleSessionGame).                                               *)
THEOREM RulesRefine == AuditSpec => RefinesTurnGame
<1> USE DEF Abstract!Chance, Abstract!Environment, Abstract!Finished,
        Abstract!Transition
<1>1. AuditInit => Abstract!GInit
  <2> SUFFICES ASSUME AuditInit PROVE Turned = [turn |-> PLAYERS, round |-> 0]
    BY DEF Abstract!GInit, Abstract!NewGame
  <2>1. phase = "AwaitingDeal" /\ ledger.round_index = 0
    BY DEF AuditInit, GameInit, NewLedger
  <2> QED
    BY <2>1 DEF Turned
<1>2. GameTyped /\ GameTyped' /\ [AuditNext]_avars => [Abstract!GNext]_Turned
  <2> SUFFICES ASSUME GameTyped, GameTyped', [GameNext]_gvars
               PROVE  [Abstract!GNext]_Turned
    BY AuditStepsGame
  <2>0. /\ Abstract!GameSeats = PlayerSeats
        /\ table.actor \in PlayerSeats /\ table'.actor \in PlayerSeats
    <3>1. Abstract!GameSeats = PlayerSeats
      BY DEF Abstract!GameSeats, Abstract!Seats, PlayerSeats
    <3> QED
      BY <3>1 DEF GameTyped, Tables
  <2>1. CASE \E deck \in Decks : Deal(deck)
    <3>1. /\ phase = "AwaitingDeal" /\ phase' = "Bidding" /\ ledger' = ledger
      BY <2>1 DEF Deal
    <3>2. Turned' = [turn |-> table'.actor, round |-> ledger.round_index]
      BY <3>1 DEF Turned
    <3>3. Turned.turn = PLAYERS
      BY <3>1, Turns
    <3>4. Turned' = [Turned EXCEPT !.turn = table'.actor]
      BY <3>2, Turns
    <3> DEFINE t == Abstract!Transition([Turned EXCEPT !.turn = table'.actor],
                                        FALSE, FALSE)
    <3>5. t \in Abstract!chance_transition(Turned)
      BY <2>0 DEF Abstract!chance_transition
    <3>6. t.game = [Turned EXCEPT !.turn = table'.actor]
      OBVIOUS
    <3> HIDE DEF t
    <3> QED
      BY <3>3, <3>4, <3>5, <3>6 DEF Abstract!GNext
  <2>2. CASE \/ \E player \in PlayerSeats, tricks \in 0 .. MAX_HAND_SIZE :
                   Bid(player, tricks)
             \/ \E player \in PlayerSeats, card \in Cards : Play(player, card)
    <3>1. /\ phase \in {"Bidding", "Playing"} /\ ledger' = ledger
          /\ phase' \in {"Bidding", "Playing", "Scoring"}
      BY <2>2 DEF Bid, Play
    <3>2. PICK n \in PlayerSeats \cup {PLAYERS + 1} :
              Turned' = [turn |-> n, round |-> ledger.round_index]
      BY <2>0, <3>1 DEF Turned
    <3>3. Turned.turn \in PlayerSeats
      BY <2>0, <3>1, Turns
    <3>4. Turned' = [Turned EXCEPT !.turn = n]
      BY <3>2, Turns
    <3> DEFINE t == Abstract!Transition([Turned EXCEPT !.turn = n], FALSE, FALSE)
    <3>5. t \in Abstract!player_transition(Turned)
      BY <2>0 DEF Abstract!player_transition
    <3>6. t.game = [Turned EXCEPT !.turn = n]
      OBVIOUS
    <3> HIDE DEF t
    <3> QED
      BY <2>0, <3>3, <3>4, <3>5, <3>6 DEF Abstract!GNext
  <2>3. CASE SettleRound
    <3>1. /\ phase = "Scoring" /\ ledger'.round_index = ledger.round_index + 1
          /\ phase' = IF ledger.round_index + 1 = round_count
                      THEN "Finished" ELSE "AwaitingDeal"
      BY <2>3, SettleTyped
    <3>2. Turned' = [turn |-> IF ledger.round_index + 1 = round_count
                              THEN PLAYERS + 2 ELSE PLAYERS,
                     round |-> ledger.round_index + 1]
      BY <3>1 DEF Turned
    <3>3. Turned.turn = PLAYERS + 1 /\ Turned.round = ledger.round_index
      BY <3>1, Turns
    <3> QED
      BY <3>2, <3>3 DEF Abstract!GNext, Abstract!settle
  <2>4. CASE UNCHANGED gvars
    BY <2>4 DEF gvars, Turned
  <2> QED
    BY <2>1, <2>2, <2>3, <2>4 DEF GameNext
<1> QED
  BY <1>1, <1>2, GameTypedHolds, PTL DEF AuditSpec, RefinesTurnGame, Abstract!GSpec

-----------------------------------------------------------------------------
(* The audit: sequence numbers.                                            *)

Actions ==
    [sequence : Nat, round : Nat, actor : PlayerSeats,
     disposition : {"Accepted", "Attempted"}, card : Cards,
     led : Suits \cup {NoSuit}, known : SUBSET Cards]

Disclosures ==
    [sequence : Nat, player : PlayerSeats, round : Nat, hand : SUBSET Cards]

Sequences == {0} \cup {a.sequence : a \in audit.actions}
                 \cup {d.sequence : d \in audit.disclosures}

(* The history is a record of actions and disclosures whose numbers have a *)
(* greatest one, and an action is known by its number.                     *)
HistoryTyped ==
    /\ audit = [actions |-> audit.actions, disclosures |-> audit.disclosures,
                findings |-> audit.findings, accusations |-> audit.accusations]
    /\ audit.actions \subseteq Actions /\ audit.disclosures \subseteq Disclosures
    /\ \E m \in Sequences : \A n \in Sequences : m >= n
    /\ \A a, b \in audit.actions : a.sequence = b.sequence => a = b

(* LastSequence is that greatest number.                                   *)
LEMMA LastIsGreatest ==
    ASSUME HistoryTyped
    PROVE  /\ LastSequence \in Nat /\ LastSequence \in Sequences
           /\ \A n \in Sequences : n \in Nat /\ n <= LastSequence
<1>1. LastSequence = CHOOSE m \in Sequences : \A n \in Sequences : m >= n
  BY DEF LastSequence, Max, Sequences
<1>2. Sequences \subseteq Nat
  BY DEF HistoryTyped, Sequences, Actions, Disclosures
<1>3. LastSequence \in Sequences /\ \A n \in Sequences : LastSequence >= n
  BY <1>1 DEF HistoryTyped
<1> QED
  BY <1>2, <1>3

(* Appending takes the next number.                                        *)
LEMMA ActionAppended ==
    ASSUME HistoryTyped, NEW x \in Actions, x.sequence = LastSequence + 1,
           append_action(x)
    PROVE  /\ HistoryTyped' /\ Sequences' = Sequences \cup {x.sequence}
           /\ audit'.actions = audit.actions \cup {x}
           /\ audit'.disclosures = audit.disclosures
           /\ audit'.findings = audit.findings
           /\ audit'.accusations = audit.accusations
<1>1. /\ audit'.actions = audit.actions \cup {x}
      /\ audit'.disclosures = audit.disclosures
      /\ audit'.findings = audit.findings
      /\ audit'.accusations = audit.accusations
      /\ audit' = [actions |-> audit'.actions, disclosures |-> audit'.disclosures,
                   findings |-> audit'.findings, accusations |-> audit'.accusations]
  BY DEF append_action, HistoryTyped
<1>2. Sequences' = Sequences \cup {x.sequence}
  BY <1>1 DEF Sequences
<1>3. \A n \in Sequences : n \in Nat /\ n < x.sequence
  BY LastIsGreatest
<1>4. \E m \in Sequences' : \A n \in Sequences' : m >= n
  BY <1>2, <1>3 DEF Actions
<1>5. \A a \in audit.actions : a.sequence \in Sequences
  BY DEF Sequences
<1>6. \A a, b \in audit'.actions : a.sequence = b.sequence => a = b
  BY <1>1, <1>3, <1>5 DEF HistoryTyped
<1> QED
  BY <1>1, <1>2, <1>4, <1>6 DEF HistoryTyped

LEMMA DisclosureAppended ==
    ASSUME HistoryTyped, NEW x \in Disclosures, x.sequence = LastSequence + 1,
           append_disclosure(x)
    PROVE  /\ HistoryTyped' /\ Sequences' = Sequences \cup {x.sequence}
           /\ audit'.actions = audit.actions
           /\ audit'.disclosures = audit.disclosures \cup {x}
           /\ audit'.findings = audit.findings
           /\ audit'.accusations = audit.accusations
<1>1. /\ audit'.actions = audit.actions
      /\ audit'.disclosures = audit.disclosures \cup {x}
      /\ audit'.findings = audit.findings
      /\ audit'.accusations = audit.accusations
      /\ audit' = [actions |-> audit'.actions, disclosures |-> audit'.disclosures,
                   findings |-> audit'.findings, accusations |-> audit'.accusations]
  BY DEF append_disclosure, HistoryTyped
<1>2. Sequences' = Sequences \cup {x.sequence}
  BY <1>1 DEF Sequences
<1>3. \A n \in Sequences : n \in Nat /\ n < x.sequence
  BY LastIsGreatest
<1>4. \E m \in Sequences' : \A n \in Sequences' : m >= n
  BY <1>2, <1>3 DEF Disclosures
<1> QED
  BY <1>1, <1>2, <1>4 DEF HistoryTyped

(* An audit adds findings and nothing else, and so does an accusation,     *)
(* which adds its record.                                                  *)
NewFindings(detector) ==
    UNION {follow_suit_finding(audit, action, detector) :
              action \in {o \in audit.actions : ~Found(audit, o)}}

LEMMA Audited ==
    ASSUME HistoryTyped, NEW detector
    PROVE  LET a == audited(audit, detector) IN
           /\ a.actions = audit.actions /\ a.disclosures = audit.disclosures
           /\ a.findings = audit.findings \cup NewFindings(detector)
           /\ a.accusations = audit.accusations
           /\ a = [actions |-> a.actions, disclosures |-> a.disclosures,
                   findings |-> a.findings, accusations |-> a.accusations]
<1> DEFINE found == audit.findings \cup NewFindings(detector)
<1>1. audited(audit, detector) = [audit EXCEPT !.findings = found]
  BY DEF audited, NewFindings
<1> HIDE DEF found
<1>2. audit = [actions |-> audit.actions, disclosures |-> audit.disclosures,
               findings |-> audit.findings, accusations |-> audit.accusations]
  BY DEF HistoryTyped
<1>3. [audit EXCEPT !.findings = found]
        = [actions |-> audit.actions, disclosures |-> audit.disclosures,
           findings |-> found, accusations |-> audit.accusations]
  BY <1>2
<1> QED
  BY <1>1, <1>3 DEF found

LEMMA SameHistory ==
    ASSUME HistoryTyped, audit'.actions = audit.actions,
           audit'.disclosures = audit.disclosures,
           audit' = [actions |-> audit'.actions, disclosures |-> audit'.disclosures,
                     findings |-> audit'.findings, accusations |-> audit'.accusations]
    PROVE  HistoryTyped' /\ Sequences' = Sequences
<1>1. Sequences' = Sequences
  BY DEF Sequences
<1> QED
  BY <1>1 DEF HistoryTyped

-----------------------------------------------------------------------------
(* The audit: what the recorded plays say about the hands they came from.  *)

Later(b, a) == b.sequence > a.sequence /\ b.round = a.round /\ b.actor = a.actor

(* cards is the hand the action a was made from: it held what the detector *)
(* knew of it and all that its owner shows later in the round, and an      *)
(* accepted action off suit came from a hand without the led suit.         *)
SoundHand(a, cards) ==
    /\ a.known \subseteq cards
    /\ \A b \in audit.actions : Later(b, a) => b.card \in cards
    /\ \A d \in audit.disclosures :
           d.sequence > a.sequence /\ d.round = a.round /\ d.player = a.actor
               => d.hand \subseteq cards
    /\ a.disposition = "Accepted" /\ OffSuit(a) => Suited(cards, a.led) = {}

(* During the round the hand has only lost cards.                          *)
CurrentHand(a, cards) ==
    a.round = ledger.round_index =>
        phase \in {"Playing", "Scoring"} /\ table.hands[a.actor] \subseteq cards

(* Every card of the hand was played in the action or later in the round,  *)
(* or is still in the hand of the current round.                           *)
AccountedHand(a, cards) ==
    \A c \in cards :
        \/ c = a.card
        \/ \E b \in audit.actions : Later(b, a) /\ b.card = c
        \/ a.round = ledger.round_index /\ c \in table.hands[a.actor]

HandsExplained ==
    \A a \in audit.actions :
        /\ a.round <= ledger.round_index /\ a.round \in recording
        /\ \E cards : <<a.sequence, cards>> \in held
        /\ \A cards : <<a.sequence, cards>> \in held =>
               /\ SoundHand(a, cards) /\ CurrentHand(a, cards)
               /\ AccountedHand(a, cards)

HeldTyped ==
    /\ held \subseteq Nat \X SUBSET Cards
    /\ \A h \in held : h[1] \in Sequences
    /\ phase = "Scoring" => RoundOver(table)

(* A recorded play or attempt.                                             *)
LEMMA RecordedExplained ==
    ASSUME GameTyped, HistoryTyped, HeldTyped, HandsExplained, Recording,
           NEW player \in PlayerSeats, NEW card \in table.hands[player],
           NEW disposition \in {"Accepted", "Attempted"},
           Record(player, card, disposition), phase = "Playing",
           disposition = "Accepted" /\ MustFollow(table, player)
               => card.suit = table.trick[1].card.suit,
           ledger' = ledger, phase' \in {"Playing", "Scoring"},
           phase' = "Scoring" => RoundOver(table'),
           table'.hands \in [PlayerSeats -> SUBSET Cards],
           \A s \in PlayerSeats : table'.hands[s] \subseteq table.hands[s],
           \A s \in PlayerSeats : \A c \in table.hands[s] :
               c \in table'.hands[s] \/ (s = player /\ c = card)
    PROVE  HistoryTyped' /\ HeldTyped' /\ HandsExplained'
<1> DEFINE hand == table.hands[player]
<1>1. PICK known \in {{}, hand} :
          append_action(Recorded(player, card, disposition, known))
  BY DEF Record
<1>2. hand \subseteq Cards /\ card \in Cards /\ ledger.round_index \in Nat
  BY DEF GameTyped, Tables, Ledgers
<1>3. LedSuit \in Suits \cup {NoSuit}
  <2>1. CASE table.trick = <<>>
    BY <2>1 DEF LedSuit
  <2>2. CASE table.trick # <<>>
    <3>1. table.trick \in Seq(CardPlays)
      BY DEF GameTyped, Tables
    <3>2. table.trick[1] \in CardPlays
      BY <2>2, <3>1
    <3> QED
      BY <2>2, <3>2 DEF LedSuit, CardPlays, Cards
  <2> QED
    BY <2>1, <2>2
<1>x. PICK x : x = Recorded(player, card, disposition, known)
  OBVIOUS
<1>4. /\ x.sequence = LastSequence + 1 /\ x.round = ledger.round_index
      /\ x.actor = player /\ x.disposition = disposition /\ x.card = card
      /\ x.led = LedSuit /\ x.known = known
  BY <1>x DEF Recorded
<1>5. LastSequence \in Nat /\ \A n \in Sequences : n \in Nat /\ n <= LastSequence
  BY LastIsGreatest
<1>6. x \in Actions
  BY <1>1, <1>2, <1>3, <1>5, <1>x DEF Recorded, Actions
<1> HIDE DEF hand
<1>7. /\ HistoryTyped' /\ Sequences' = Sequences \cup {x.sequence}
      /\ audit'.actions = audit.actions \cup {x}
      /\ audit'.disclosures = audit.disclosures
  BY <1>1, <1>4, <1>6, <1>x, ActionAppended
<1>8. held' = held \cup {<<x.sequence, hand>>} /\ recording' = recording
  BY <1>4 DEF Record, hand
<1>9. HeldTyped'
  <2>1. held' \subseteq Nat \X SUBSET Cards
    BY <1>2, <1>4, <1>5, <1>8 DEF HeldTyped
  <2>2. \A h \in held' : h[1] \in Sequences'
    BY <1>7, <1>8 DEF HeldTyped
  <2> QED
    BY <2>1, <2>2 DEF HeldTyped
<1>10. \A a \in audit.actions : a.sequence \in Sequences /\ a \in Actions
  BY DEF Sequences, HistoryTyped
<1>11. \A n, cards : <<n, cards>> \in held => n \in Sequences
  BY DEF HeldTyped
<1>12. ASSUME NEW a \in audit.actions, NEW cards, <<a.sequence, cards>> \in held'
       PROVE  /\ SoundHand(a, cards)' /\ CurrentHand(a, cards)'
              /\ AccountedHand(a, cards)'
  <2>1. a.sequence < x.sequence /\ a.actor \in PlayerSeats
    BY <1>4, <1>5, <1>10 DEF Actions
  <2>2. <<a.sequence, cards>> \in held
    BY <1>4, <1>5, <1>8, <1>10, <1>12, <2>1
  <2>3. SoundHand(a, cards) /\ CurrentHand(a, cards) /\ AccountedHand(a, cards)
    BY <2>2 DEF HandsExplained
  <2>4. SoundHand(a, cards)'
    <3>1. Later(x, a) => x.card \in cards
      BY <1>4, <2>3 DEF Later, CurrentHand
    <3>2. \A b \in audit'.actions : Later(b, a) => b.card \in cards
      BY <1>7, <2>3, <3>1 DEF SoundHand
    <3> QED
      BY <1>7, <2>3, <3>2 DEF SoundHand
  <2>5. CurrentHand(a, cards)'
    BY <2>1, <2>3 DEF CurrentHand
  <2>6. AccountedHand(a, cards)'
    <3> SUFFICES ASSUME NEW c \in cards, c # a.card,
                        ~\E b \in audit'.actions : Later(b, a) /\ b.card = c
                 PROVE  a.round = ledger.round_index /\ c \in table'.hands[a.actor]
      BY DEF AccountedHand
    <3>1. a.round = ledger.round_index /\ c \in table.hands[a.actor]
      BY <1>7, <2>3 DEF AccountedHand
    <3>2. ~(a.actor = player /\ c = card)
      BY <1>4, <1>7, <2>1, <3>1 DEF Later
    <3> QED
      BY <2>1, <3>1, <3>2
  <2> QED
    BY <2>4, <2>5, <2>6
<1>13. ASSUME NEW cards, <<x.sequence, cards>> \in held'
       PROVE  /\ SoundHand(x, cards)' /\ CurrentHand(x, cards)'
              /\ AccountedHand(x, cards)'
  <2>1. cards = hand
    <3>1. x.sequence \notin Sequences
      BY <1>4, <1>5
    <3> QED
      BY <1>8, <1>11, <1>13, <3>1
  <2>2. \A b \in audit'.actions : ~(b.sequence > x.sequence)
    BY <1>4, <1>5, <1>7, <1>10
  <2>3. \A d \in audit'.disclosures : ~(d.sequence > x.sequence)
    <3>1. \A d \in audit.disclosures : d.sequence \in Sequences
      BY DEF Sequences
    <3> QED
      BY <1>4, <1>5, <1>7, <3>1
  <2>4. x.known \subseteq cards
    BY <1>1, <1>4, <2>1
  <2>5. x.disposition = "Accepted" /\ OffSuit(x) => Suited(cards, x.led) = {}
    <3> SUFFICES ASSUME x.disposition = "Accepted", OffSuit(x)
                 PROVE  Suited(cards, x.led) = {}
      OBVIOUS
    <3>1. table.trick # <<>> /\ x.led = table.trick[1].card.suit
          /\ card.suit # x.led
      BY <1>4 DEF OffSuit, LedSuit
    <3>2. ~contains_suit(table.hands[player], x.led)
      BY <1>4, <3>1 DEF MustFollow
    <3> QED
      BY <2>1, <3>2 DEF contains_suit, Suited, hand
  <2>6. SoundHand(x, cards)'
    BY <2>2, <2>3, <2>4, <2>5 DEF SoundHand, Later
  <2>7. CurrentHand(x, cards)'
    BY <1>4, <2>1 DEF CurrentHand, hand
  <2>8. AccountedHand(x, cards)'
    BY <1>4, <2>1 DEF AccountedHand, hand
  <2> QED
    BY <2>6, <2>7, <2>8
<1>14. HandsExplained'
  <2> SUFFICES ASSUME NEW a \in audit'.actions
               PROVE  /\ a.round <= ledger'.round_index /\ a.round \in recording'
                      /\ \E cards : <<a.sequence, cards>> \in held'
                      /\ \A cards : <<a.sequence, cards>> \in held' =>
                             /\ SoundHand(a, cards)' /\ CurrentHand(a, cards)'
                             /\ AccountedHand(a, cards)'
    BY DEF HandsExplained
  <2>1. CASE a \in audit.actions
    BY <1>8, <1>12, <2>1 DEF HandsExplained
  <2>2. CASE a = x
    BY <1>2, <1>4, <1>8, <1>13, <2>2 DEF Recording
  <2> QED
    BY <1>7, <2>1, <2>2
<1> QED
  BY <1>7, <1>9, <1>14

LEMMA PlayExplained ==
    ASSUME GameTyped, HistoryTyped, HeldTyped, HandsExplained,
           NEW player \in PlayerSeats, NEW card \in Cards,
           RecordedPlay(player, card)
    PROVE  HistoryTyped' /\ HeldTyped' /\ HandsExplained'
<1>1. /\ Recording /\ Play(player, card) /\ Record(player, card, "Accepted")
  BY DEF RecordedPlay
<1>2. /\ GameTyped' /\ PlayedOn(table, table', player, card)
      /\ ledger' = ledger /\ phase = "Playing"
      /\ phase' = IF RoundOver(table') THEN "Scoring" ELSE "Playing"
  BY <1>1, PlayTyped
<1>3. /\ card \in table.hands[player]
      /\ MustFollow(table, player) => card.suit = table.trick[1].card.suit
      /\ table'.hands = [table.hands EXCEPT ![player] = @ \ {card}]
  BY <1>2 DEF PlayedOn
<1>4. /\ table.hands \in [PlayerSeats -> SUBSET Cards]
      /\ table'.hands \in [PlayerSeats -> SUBSET Cards]
  BY <1>2 DEF GameTyped, Tables
<1>5. \A s \in PlayerSeats : table'.hands[s] \subseteq table.hands[s]
  BY <1>3, <1>4
<1>6. \A s \in PlayerSeats : \A c \in table.hands[s] :
          c \in table'.hands[s] \/ (s = player /\ c = card)
  BY <1>3, <1>4
<1> QED
  BY <1>1, <1>2, <1>3, <1>4, <1>5, <1>6, RecordedExplained

LEMMA AttemptExplained ==
    ASSUME GameTyped, HistoryTyped, HeldTyped, HandsExplained,
           NEW player \in PlayerSeats, NEW card \in Cards,
           Attempt(player, card)
    PROVE  HistoryTyped' /\ HeldTyped' /\ HandsExplained'
<1>1. /\ Recording /\ phase = "Playing" /\ card \in table.hands[player]
      /\ Record(player, card, "Attempted")
      /\ phase' = phase /\ ledger' = ledger /\ table' = table
  BY DEF Attempt, gvars
<1>2. table'.hands \in [PlayerSeats -> SUBSET Cards]
  BY <1>1 DEF GameTyped, Tables
<1> QED
  BY <1>1, <1>2, RecordedExplained

LEMMA DiscloseExplained ==
    ASSUME GameTyped, HistoryTyped, HeldTyped, HandsExplained,
           NEW player \in PlayerSeats, Disclose(player)
    PROVE  /\ HistoryTyped' /\ HeldTyped' /\ HandsExplained'
           /\ audit'.actions = audit.actions /\ audit'.findings = audit.findings
           /\ audit'.accusations = audit.accusations
<1>x. PICK x : x = [sequence |-> LastSequence + 1, player |-> player,
                    round |-> ledger.round_index, hand |-> table.hands[player]]
  OBVIOUS
<1>1. /\ append_disclosure(x) /\ phase' = phase /\ ledger' = ledger
      /\ table' = table /\ recording' = recording /\ held' = held
  BY <1>x DEF Disclose
<1>2. LastSequence \in Nat /\ \A n \in Sequences : n \in Nat /\ n <= LastSequence
  BY LastIsGreatest
<1>3. table.hands[player] \in SUBSET Cards /\ ledger.round_index \in Nat
  BY DEF GameTyped, Tables, Ledgers
<1>4. /\ x \in Disclosures /\ x.sequence = LastSequence + 1 /\ x.player = player
      /\ x.round = ledger.round_index /\ x.hand = table.hands[player]
  BY <1>2, <1>3, <1>x DEF Disclosures
<1>5. /\ HistoryTyped' /\ Sequences' = Sequences \cup {x.sequence}
      /\ audit'.actions = audit.actions
      /\ audit'.disclosures = audit.disclosures \cup {x}
      /\ audit'.findings = audit.findings
      /\ audit'.accusations = audit.accusations
  BY <1>1, <1>4, DisclosureAppended
<1>6. HeldTyped'
  BY <1>1, <1>5 DEF HeldTyped
<1>7. ASSUME NEW a \in audit.actions, NEW cards, <<a.sequence, cards>> \in held
      PROVE  SoundHand(a, cards)' /\ CurrentHand(a, cards)' /\ AccountedHand(a, cards)'
  <2>1. SoundHand(a, cards) /\ CurrentHand(a, cards) /\ AccountedHand(a, cards)
    BY <1>7 DEF HandsExplained
  <2>2. x.round = a.round /\ x.player = a.actor => x.hand \subseteq cards
    BY <1>4, <2>1 DEF CurrentHand
  <2>3. SoundHand(a, cards)'
    BY <1>5, <2>1, <2>2 DEF SoundHand
  <2>4. CurrentHand(a, cards)' /\ AccountedHand(a, cards)'
    BY <1>1, <1>5, <2>1 DEF CurrentHand, AccountedHand
  <2> QED
    BY <2>3, <2>4
<1>8. HandsExplained'
  BY <1>1, <1>5, <1>7 DEF HandsExplained
<1> QED
  BY <1>5, <1>6, <1>8

(* Looking for findings, and unrecorded steps, explain nothing new.        *)
LEMMA SameExplained ==
    ASSUME HistoryTyped, HeldTyped, HandsExplained,
           audit'.actions = audit.actions, audit'.disclosures = audit.disclosures,
           audit' = [actions |-> audit'.actions, disclosures |-> audit'.disclosures,
                     findings |-> audit'.findings, accusations |-> audit'.accusations],
           UNCHANGED <<phase, ledger, table, recording, held>>
    PROVE  HistoryTyped' /\ HeldTyped' /\ HandsExplained'
<1>1. HistoryTyped' /\ Sequences' = Sequences
  BY SameHistory
<1>2. HeldTyped'
  BY <1>1 DEF HeldTyped
<1>3. HandsExplained'
  BY DEF HandsExplained, SoundHand, CurrentHand, AccountedHand
<1> QED
  BY <1>1, <1>2, <1>3

LEMMA UnrecordedExplained ==
    ASSUME GameTyped, HistoryTyped, HeldTyped, HandsExplained, Unrecorded
    PROVE  HistoryTyped' /\ HeldTyped' /\ HandsExplained'
<1>1. /\ GameNext /\ audit' = audit /\ recording' = recording /\ held' = held
      /\ Recording => phase # "Playing"
  BY DEF Unrecorded
<1>2. HistoryTyped' /\ Sequences' = Sequences
  BY <1>1, SameHistory DEF HistoryTyped
<1>3. \A a \in audit.actions : /\ a.actor \in PlayerSeats /\ a.round \in Nat
                               /\ a.round <= ledger.round_index
  BY DEF HistoryTyped, Actions, HandsExplained
<1>4. \A s \in PlayerSeats : table.hands[s] \subseteq Cards
  BY DEF GameTyped, Tables
<1>5. ASSUME ledger' = ledger,
             phase' = "Scoring" => RoundOver(table'),
             \A a \in audit.actions : a.round # ledger.round_index
      PROVE  HeldTyped' /\ HandsExplained'
  <2>1. HeldTyped'
    BY <1>1, <1>2, <1>5 DEF HeldTyped
  <2>2. HandsExplained'
    BY <1>1, <1>5 DEF HandsExplained, SoundHand, CurrentHand, AccountedHand
  <2> QED
    BY <2>1, <2>2
<1>6. phase \notin {"Playing", "Scoring"}
         => \A a \in audit.actions : a.round # ledger.round_index
  BY DEF HandsExplained, CurrentHand
<1>7. ASSUME NEW deck \in Decks, Deal(deck)
      PROVE  HeldTyped' /\ HandsExplained'
  <2>1. ledger' = ledger /\ phase = "AwaitingDeal" /\ phase' = "Bidding"
    BY <1>7 DEF Deal
  <2> QED
    BY <1>5, <1>6, <2>1
<1>8. ASSUME NEW player \in PlayerSeats, NEW tricks \in 0 .. MAX_HAND_SIZE,
             Bid(player, tricks)
      PROVE  HeldTyped' /\ HandsExplained'
  <2>1. ledger' = ledger /\ phase = "Bidding" /\ phase' # "Scoring"
    BY <1>8 DEF Bid
  <2> QED
    BY <1>5, <1>6, <2>1
<1>9. ASSUME NEW player \in PlayerSeats, NEW card \in Cards, Play(player, card)
      PROVE  HeldTyped' /\ HandsExplained'
  <2>1. /\ ledger' = ledger /\ phase = "Playing"
        /\ phase' = IF RoundOver(table') THEN "Scoring" ELSE "Playing"
    BY <1>9, PlayTyped
  <2>2. \A a \in audit.actions : a.round # ledger.round_index
    BY <1>1, <2>1 DEF HandsExplained, Recording
  <2> QED
    BY <1>5, <2>1, <2>2
<1>10. ASSUME SettleRound PROVE HeldTyped' /\ HandsExplained'
  <2>1. /\ phase = "Scoring" /\ phase' # "Scoring"
        /\ ledger'.round_index = ledger.round_index + 1
    BY <1>10, SettleTyped
  <2>2. \A s \in PlayerSeats : table.hands[s] = {}
    BY <2>1 DEF HeldTyped, RoundOver
  <2>3. HeldTyped'
    BY <1>1, <1>2, <2>1 DEF HeldTyped
  <2>4. ledger.round_index \in Nat
    BY DEF GameTyped, Ledgers
  <2>5. \A a \in audit.actions : a.round # ledger'.round_index
                                 /\ a.round <= ledger'.round_index
    BY <1>3, <2>1, <2>4
  <2>6. ASSUME NEW a \in audit.actions, NEW cards, <<a.sequence, cards>> \in held
        PROVE  /\ SoundHand(a, cards)' /\ CurrentHand(a, cards)'
               /\ AccountedHand(a, cards)'
    <3>1. SoundHand(a, cards) /\ AccountedHand(a, cards)
      BY <2>6 DEF HandsExplained
    <3>2. SoundHand(a, cards)' /\ CurrentHand(a, cards)'
      BY <1>1, <2>5, <3>1 DEF SoundHand, CurrentHand
    <3>3. AccountedHand(a, cards)'
      BY <1>1, <1>3, <2>2, <3>1 DEF AccountedHand
    <3> QED
      BY <3>2, <3>3
  <2>7. HandsExplained'
    BY <1>1, <2>5, <2>6 DEF HandsExplained
  <2> QED
    BY <2>3, <2>7
<1> QED
  BY <1>1, <1>2, <1>7, <1>8, <1>9, <1>10 DEF GameNext

-----------------------------------------------------------------------------
(* The audit: the findings.  Each is about a recorded revoke, there is one *)
(* for an action, and what an accusation confirmed has its finding.        *)
FindingsSound ==
    \A f \in audit.findings : \E a \in audit.actions :
        a.sequence = f.action /\ Revoke(a)

FindingsInv == FindingsSound /\ OneFindingPerAction

(* Evidence of any of the three kinds shows a card of the led suit in the  *)
(* hand the action was made from.                                          *)
LEMMA EvidenceProves ==
    ASSUME HistoryTyped, HandsExplained, NEW a \in audit.actions,
           OffSuit(a),
           \/ Immediate(a) \/ LaterPlays(audit, a) # {}
           \/ LaterDisclosures(audit, a) # {}
    PROVE  Revoke(a)
<1>1. PICK cards : <<a.sequence, cards>> \in held
  BY DEF HandsExplained
<1>2. SoundHand(a, cards)
  BY <1>1 DEF HandsExplained
<1>3. Suited(cards, a.led) # {}
  <2>1. CASE Immediate(a)
    BY <1>2, <2>1 DEF SoundHand, Immediate, Suited
  <2>2. CASE LaterPlays(audit, a) # {}
    BY <1>2, <2>2 DEF SoundHand, Later, LaterPlays, Suited
  <2>3. CASE LaterDisclosures(audit, a) # {}
    BY <1>2, <2>3 DEF SoundHand, LaterDisclosures, Suited
  <2> QED
    BY <2>1, <2>2, <2>3
<1> QED
  BY <1>1, <1>3 DEF Revoke

(* A new finding names an action that had none and is a revoke.            *)
LEMMA NewFindingsAreRevokes ==
    ASSUME HistoryTyped, HandsExplained, NEW detector,
           NEW f \in NewFindings(detector)
    PROVE  \E a \in audit.actions :
               /\ f = Finding(audit, a, detector) /\ f.action = a.sequence
               /\ Revoke(a) /\ ~Found(audit, a)
<1>1. PICK a \in audit.actions :
          ~Found(audit, a) /\ f \in follow_suit_finding(audit, a, detector)
  BY DEF NewFindings
<1>2. /\ f = Finding(audit, a, detector) /\ OffSuit(a)
      /\ \/ Immediate(a) \/ LaterPlays(audit, a) # {}
         \/ LaterDisclosures(audit, a) # {}
  BY <1>1 DEF follow_suit_finding
<1>3. f.action = a.sequence
  BY <1>2 DEF Finding
<1> QED
  BY <1>1, <1>2, <1>3, EvidenceProves

LEMMA FindingsGoOn ==
    ASSUME FindingsInv, audit.actions \subseteq audit'.actions,
           held \subseteq held',
           audit'.findings = audit.findings,
           audit'.accusations = audit.accusations
    PROVE  FindingsInv'
<1>1. FindingsSound'
  <2> SUFFICES ASSUME NEW f \in audit.findings
               PROVE  \E a \in audit'.actions : a.sequence = f.action /\ Revoke(a)'
    BY DEF FindingsSound
  <2>1. PICK a \in audit.actions : a.sequence = f.action /\ Revoke(a)
    BY DEF FindingsInv, FindingsSound
  <2>2. Revoke(a)'
    BY <2>1 DEF Revoke
  <2> QED
    BY <2>1, <2>2
<1>2. OneFindingPerAction'
  BY DEF FindingsInv, OneFindingPerAction
<1> QED
  BY <1>1, <1>2 DEF FindingsInv

(* An audit keeps the invariant, whatever accusation goes with it, as long *)
(* as a confirmed one has its finding.                                     *)
LEMMA FindingsAdded ==
    ASSUME HistoryTyped, HandsExplained, FindingsInv, NEW detector,
           audit'.actions = audit.actions,
           audit'.findings = audit.findings \cup NewFindings(detector),
           held' = held,
           \A record \in audit'.accusations :
               \/ record \in audit.accusations
               \/ record.outcome = "Confirmed"
                      => \E f \in audit'.findings : f.action = record.action
    PROVE  FindingsInv'
<1>1. \A a : Revoke(a)' <=> Revoke(a)
  BY DEF Revoke
<1>2. FindingsSound'
  <2> SUFFICES ASSUME NEW f \in audit'.findings
               PROVE  \E a \in audit.actions : a.sequence = f.action /\ Revoke(a)
    BY <1>1 DEF FindingsSound
  <2>1. CASE f \in audit.findings
    BY <2>1 DEF FindingsInv, FindingsSound
  <2>2. CASE f \in NewFindings(detector)
    BY <2>2, NewFindingsAreRevokes
  <2> QED
    BY <2>1, <2>2
<1>3. ASSUME NEW f \in audit'.findings, NEW o \in audit'.findings,
             f.action = o.action
      PROVE  f = o
  <2>1. ASSUME NEW p \in audit.findings, NEW n \in NewFindings(detector)
        PROVE  p.action # n.action
    BY <2>1, NewFindingsAreRevokes DEF Found
  <2>2. CASE f \in audit.findings /\ o \in audit.findings
    BY <1>3, <2>2 DEF FindingsInv, OneFindingPerAction
  <2>3. CASE f \in NewFindings(detector) /\ o \in NewFindings(detector)
    <3>1. PICK a \in audit.actions :
              f = Finding(audit, a, detector) /\ f.action = a.sequence
      BY <2>3, NewFindingsAreRevokes
    <3>2. PICK b \in audit.actions :
              o = Finding(audit, b, detector) /\ o.action = b.sequence
      BY <2>3, NewFindingsAreRevokes
    <3>3. a = b
      BY <1>3, <3>1, <3>2 DEF HistoryTyped
    <3> QED
      BY <3>1, <3>2, <3>3
  <2> QED
    BY <1>3, <2>1, <2>2, <2>3
<1>4. \A record \in audit'.accusations : record.outcome = "Confirmed"
          => \E f \in audit'.findings : f.action = record.action
  BY DEF FindingsInv, OneFindingPerAction
<1>5. OneFindingPerAction'
  BY <1>3, <1>4 DEF OneFindingPerAction
<1> QED
  BY <1>2, <1>5 DEF FindingsInv

-----------------------------------------------------------------------------
(* The inductive invariant of the audited table.                           *)
AuditInv ==
    /\ GameTyped /\ HistoryTyped /\ HeldTyped /\ HandsExplained /\ FindingsInv

LEMMA RecordedFindings ==
    ASSUME AuditInv, NEW player \in PlayerSeats, NEW card \in Cards,
           NEW disposition, Record(player, card, disposition)
    PROVE  FindingsInv'
<1>1. PICK known \in {{}, table.hands[player]} :
          append_action(Recorded(player, card, disposition, known))
  BY DEF Record
<1>2. /\ audit.actions \subseteq audit'.actions
      /\ audit'.findings = audit.findings
      /\ audit'.accusations = audit.accusations
  BY <1>1 DEF append_action, AuditInv, HistoryTyped
<1>3. held \subseteq held'
  BY DEF Record
<1> QED
  BY <1>2, <1>3, FindingsGoOn DEF AuditInv

LEMMA InvestigateKeeps ==
    ASSUME AuditInv, NEW detector, Investigate(detector)
    PROVE  HistoryTyped' /\ HeldTyped' /\ HandsExplained' /\ FindingsInv'
<1>1. /\ audit' = audited(audit, detector)
      /\ UNCHANGED <<phase, ledger, table, recording, held>>
  BY DEF Investigate, Audit
<1>2. /\ audit'.actions = audit.actions
      /\ audit'.disclosures = audit.disclosures
      /\ audit'.findings = audit.findings \cup NewFindings(detector)
      /\ audit'.accusations = audit.accusations
      /\ audit' = [actions |-> audit'.actions, disclosures |-> audit'.disclosures,
                   findings |-> audit'.findings, accusations |-> audit'.accusations]
  BY <1>1, Audited DEF AuditInv
<1>3. HistoryTyped' /\ HeldTyped' /\ HandsExplained'
  BY <1>1, <1>2, SameExplained DEF AuditInv
<1>4. FindingsInv'
  BY <1>1, <1>2, FindingsAdded DEF AuditInv
<1> QED
  BY <1>3, <1>4

LEMMA AccusationKeeps ==
    ASSUME AuditInv, NEW id, NEW detector, NEW sequence,
           BringAccusation(id, detector, sequence)
    PROVE  HistoryTyped' /\ HeldTyped' /\ HandsExplained' /\ FindingsInv'
<1>a. PICK a : a = audited(audit, detector)
  OBVIOUS
<1>r. PICK r : r = [id |-> id, detector |-> detector, action |-> sequence,
                    outcome |-> Outcome(a, sequence)]
  OBVIOUS
<1>1. /\ audit' = [a EXCEPT !.accusations = @ \cup {r}]
      /\ UNCHANGED <<phase, ledger, table, recording, held>>
  BY <1>a, <1>r DEF BringAccusation, Accuse
<1>2. /\ a.actions = audit.actions /\ a.disclosures = audit.disclosures
      /\ a.findings = audit.findings \cup NewFindings(detector)
      /\ a.accusations = audit.accusations
      /\ a = [actions |-> a.actions, disclosures |-> a.disclosures,
              findings |-> a.findings, accusations |-> a.accusations]
  BY <1>a, Audited DEF AuditInv
<1>3. /\ audit'.actions = audit.actions
      /\ audit'.disclosures = audit.disclosures
      /\ audit'.findings = a.findings
      /\ audit'.accusations = audit.accusations \cup {r}
      /\ audit' = [actions |-> audit'.actions, disclosures |-> audit'.disclosures,
                   findings |-> audit'.findings, accusations |-> audit'.accusations]
  BY <1>1, <1>2
<1>4. HistoryTyped' /\ HeldTyped' /\ HandsExplained'
  BY <1>1, <1>3, SameExplained DEF AuditInv
<1>5. r.outcome = "Confirmed" => \E f \in audit'.findings : f.action = r.action
  BY <1>3, <1>r DEF Outcome
<1>6. FindingsInv'
  BY <1>1, <1>2, <1>3, <1>5, FindingsAdded DEF AuditInv
<1> QED
  BY <1>4, <1>6

LEMMA AuditInvStarts == AuditInit => AuditInv
<1> SUFFICES ASSUME AuditInit PROVE AuditInv
  OBVIOUS
<1>1. /\ audit = [actions |-> {}, disclosures |-> {}, findings |-> {},
                  accusations |-> {}]
      /\ held = {} /\ phase = "AwaitingDeal" /\ GameTyped
  BY GameInitTyped DEF AuditInit, EmptyAudit, GameInit
<1>2. /\ audit.actions = {} /\ audit.disclosures = {} /\ audit.findings = {}
      /\ audit.accusations = {}
  BY <1>1
<1>3. Sequences = {0}
  BY <1>2 DEF Sequences
<1>4. HistoryTyped
  BY <1>1, <1>2, <1>3 DEF HistoryTyped
<1> QED
  BY <1>1, <1>2, <1>4 DEF AuditInv, HeldTyped, HandsExplained, FindingsInv,
     FindingsSound, OneFindingPerAction

LEMMA AuditInvGoesOn == AuditInv /\ [AuditNext]_avars => AuditInv'
<1> SUFFICES ASSUME AuditInv, [AuditNext]_avars PROVE AuditInv'
  OBVIOUS
<1>1. GameTyped /\ HistoryTyped /\ HeldTyped /\ HandsExplained /\ FindingsInv
  BY DEF AuditInv
<1>2. GameTyped'
  <2>1. [GameNext]_gvars
    BY AuditStepsGame
  <2>2. CASE GameNext
    BY <1>1, <2>2, GameNextTyped
  <2>3. CASE UNCHANGED gvars
    BY <1>1, <2>3 DEF gvars, GameTyped, RankedTrick
  <2> QED
    BY <2>1, <2>2, <2>3
<1> SUFFICES HistoryTyped' /\ HeldTyped' /\ HandsExplained' /\ FindingsInv'
  BY <1>2 DEF AuditInv
<1>3. CASE Unrecorded
  <2>1. audit' = audit /\ held' = held
    BY <1>3 DEF Unrecorded
  <2> QED
    BY <1>1, <1>3, <2>1, UnrecordedExplained, FindingsGoOn
<1>4. ASSUME NEW player \in PlayerSeats, NEW card \in Cards,
             RecordedPlay(player, card)
      PROVE  HistoryTyped' /\ HeldTyped' /\ HandsExplained' /\ FindingsInv'
  BY <1>1, <1>4, PlayExplained, RecordedFindings DEF RecordedPlay
<1>5. ASSUME NEW player \in PlayerSeats, NEW card \in Cards,
             Attempt(player, card)
      PROVE  HistoryTyped' /\ HeldTyped' /\ HandsExplained' /\ FindingsInv'
  BY <1>1, <1>5, AttemptExplained, RecordedFindings DEF Attempt
<1>6. ASSUME NEW player \in PlayerSeats, Disclose(player)
      PROVE  HistoryTyped' /\ HeldTyped' /\ HandsExplained' /\ FindingsInv'
  <2>1. held' = held
    BY <1>6 DEF Disclose
  <2> QED
    BY <1>1, <1>6, <2>1, DiscloseExplained, FindingsGoOn
<1>7. CASE UNCHANGED avars
  <2>1. audit' = audit /\ UNCHANGED <<phase, ledger, table, recording, held>>
    BY <1>7 DEF avars
  <2> QED
    BY <1>1, <2>1, SameExplained, FindingsGoOn DEF HistoryTyped
<1> QED
  BY <1>3, <1>4, <1>5, <1>6, <1>7, InvestigateKeeps, AccusationKeeps DEF AuditNext

LEMMA AuditInvHolds == AuditSpec => []AuditInv
BY AuditInvStarts, AuditInvGoesOn, PTL DEF AuditSpec

(* The action a number stands for.                                         *)
LEMMA ActionKnown ==
    ASSUME HistoryTyped, NEW a \in audit.actions
    PROVE  ActionOf(a.sequence) = a
BY DEF HistoryTyped, ActionOf

(* No finding is ever made against a player who could not follow suit, in  *)
(* any number of rounds, attempts and disclosures, whatever the detectors  *)
(* knew (follow_suit_finding, audit, accuse).                              *)
THEOREM FindingsSoundly == AuditSpec => []FindingsAreRevokes
<1>1. AuditInv => FindingsAreRevokes
  <2> SUFFICES ASSUME AuditInv, NEW f \in audit.findings
               PROVE  Revoke(ActionOf(f.action))
    BY DEF FindingsAreRevokes
  <2>1. PICK a \in audit.actions : a.sequence = f.action /\ Revoke(a)
    BY DEF AuditInv, FindingsInv, FindingsSound
  <2>2. ActionOf(f.action) = a
    BY <2>1, ActionKnown DEF AuditInv
  <2> QED
    BY <2>1, <2>2
<1> QED
  BY <1>1, AuditInvHolds, PTL

(* A play that the rules accepted is never found guilty (play_card,        *)
(* follow_suit_finding).                                                   *)
THEOREM AcceptedPlaysAreClean == AuditSpec => []StrictPlayIsClean
<1>1. AuditInv => StrictPlayIsClean
  <2> SUFFICES ASSUME AuditInv, NEW f \in audit.findings
               PROVE  ActionOf(f.action).disposition = "Attempted"
    BY DEF StrictPlayIsClean
  <2>1. PICK a \in audit.actions : a.sequence = f.action /\ Revoke(a)
    BY DEF AuditInv, FindingsInv, FindingsSound
  <2>2. PICK h \in held : h[1] = a.sequence /\ Suited(h[2], a.led) # {}
    BY <2>1 DEF Revoke
  <2>3. <<a.sequence, h[2]>> \in held
    BY <2>2 DEF AuditInv, HeldTyped
  <2>4. SoundHand(a, h[2])
    BY <2>3 DEF AuditInv, HandsExplained
  <2>5. a.disposition # "Accepted" /\ a \in Actions
    BY <2>1, <2>2, <2>4 DEF SoundHand, Revoke, AuditInv, HistoryTyped
  <2>6. ActionOf(f.action) = a
    BY <2>1, ActionKnown DEF AuditInv
  <2> QED
    BY <2>5, <2>6 DEF Actions
<1> QED
  BY <1>1, AuditInvHolds, PTL

(* The first finding about an action stands alone, and what an accusation  *)
(* confirmed has its finding (audit, accuse).                              *)
THEOREM OneFinding == AuditSpec => []OneFindingPerAction
<1>1. AuditInv => OneFindingPerAction
  BY DEF AuditInv, FindingsInv
<1> QED
  BY <1>1, AuditInvHolds, PTL

(* At the end of a round an audit proves every revoke of that round and of *)
(* the ones before from the public plays alone (audit).                    *)
THEOREM RevokesComeOut == AuditSpec => []RevokesAreFound
<1>1. AuditInv => RevokesAreFound
  <2> SUFFICES ASSUME AuditInv, phase = "Scoring", NEW a \in audit.actions,
                      NEW d \in Detectors, Revoke(a)
               PROVE  Found(audited(audit, d), a)
    BY DEF RevokesAreFound
  <2>1. audited(audit, d).findings = audit.findings \cup NewFindings(d)
    BY Audited DEF AuditInv
  <2>2. CASE Found(audit, a)
    BY <2>1, <2>2 DEF Found
  <2>3. CASE ~Found(audit, a)
    <3>1. PICK h \in held : h[1] = a.sequence /\ Suited(h[2], a.led) # {}
      BY DEF Revoke
    <3>2. <<a.sequence, h[2]>> \in held
      BY <3>1 DEF AuditInv, HeldTyped
    <3>3. AccountedHand(a, h[2])
      BY <3>2 DEF AuditInv, HandsExplained
    <3>4. PICK c \in h[2] : c.suit = a.led
      BY <3>1 DEF Suited
    <3>5. c # a.card /\ OffSuit(a)
      BY <3>4 DEF Revoke, OffSuit
    <3>6. table.hands[a.actor] = {}
      BY DEF AuditInv, HeldTyped, RoundOver, HistoryTyped, Actions
    <3>7. PICK b \in audit.actions : Later(b, a) /\ b.card = c
      BY <3>3, <3>5, <3>6 DEF AccountedHand
    <3>8. b \in LaterPlays(audit, a)
      BY <3>4, <3>7 DEF Later, LaterPlays
    <3>9. follow_suit_finding(audit, a, d) = {Finding(audit, a, d)}
      BY <3>5, <3>8 DEF follow_suit_finding
    <3>10. Finding(audit, a, d) \in NewFindings(d)
      BY <2>3, <3>9 DEF NewFindings
    <3>11. Finding(audit, a, d).action = a.sequence
      BY DEF Finding
    <3> QED
      BY <2>1, <3>10, <3>11 DEF Found
  <2> QED
    BY <2>2, <2>3
<1> QED
  BY <1>1, AuditInvHolds, PTL

-----------------------------------------------------------------------------
(* The zones of the cards: a card is counted once when it is in one zone,  *)
(* and in one place of that zone.                                          *)

HandsOf(t, c) == {s \in PlayerSeats : c \in t.hands[s]}
PlacesOf(t, c) == {i \in DOMAIN t.trick : t.trick[i].card = c}
PilesOf(t, c) == {s \in PlayerSeats : c \in t.captured[s]}

Single(S) == \A x, y \in S : x = y

InOneZone(t, c) ==
    /\ Single(HandsOf(t, c)) /\ Single(PlacesOf(t, c)) /\ Single(PilesOf(t, c))
    /\ \/ t.trump = c \/ c \in t.stock \/ HandsOf(t, c) # {}
       \/ PlacesOf(t, c) # {} \/ PilesOf(t, c) # {}
    /\ t.trump = c => /\ c \notin t.stock /\ HandsOf(t, c) = {}
                      /\ PlacesOf(t, c) = {} /\ PilesOf(t, c) = {}
    /\ c \in t.stock => /\ HandsOf(t, c) = {} /\ PlacesOf(t, c) = {}
                        /\ PilesOf(t, c) = {}
    /\ HandsOf(t, c) # {} => PlacesOf(t, c) = {} /\ PilesOf(t, c) = {}
    /\ PlacesOf(t, c) # {} => PilesOf(t, c) = {}

LEMMA CountsOne ==
    ASSUME NEW S, IsFiniteSet(S)
    PROVE  /\ Cardinality(S) \in Nat
           /\ Cardinality(S) = 0 <=> S = {}
           /\ Cardinality(S) = 1 <=> S # {} /\ Single(S)
<1>1. Cardinality(S) = 1 <=> \E x : S = {x}
  BY FS_Singleton
<1>2. (\E x : S = {x}) <=> S # {} /\ Single(S)
  <2>1. ASSUME S # {}, Single(S) PROVE \E x : S = {x}
    <3>1. PICK x \in S : TRUE
      BY <2>1
    <3>2. S = {x}
      BY <2>1, <3>1 DEF Single
    <3> QED
      BY <3>2
  <2>2. ASSUME NEW x, S = {x} PROVE S # {} /\ Single(S)
    BY <2>2 DEF Single
  <2> QED
    BY <2>1, <2>2
<1> QED
  BY <1>1, <1>2, FS_EmptySet, FS_CardinalityType

LEMMA TrickDomain ==
    ASSUME NEW t \in Tables
    PROVE  /\ t.trick \in Seq(CardPlays) /\ DOMAIN t.trick = 1 .. Len(t.trick)
           /\ Len(t.trick) \in Nat
           /\ \A i \in DOMAIN t.trick :
                  t.trick[i].card \in Cards /\ t.trick[i].player \in PlayerSeats
<1>1. t.trick \in Seq(CardPlays)
  BY DEF Tables
<1>2. \A i \in DOMAIN t.trick : t.trick[i] \in CardPlays
  BY <1>1
<1> QED
  BY <1>1, <1>2 DEF CardPlays

(* validate_card_zones says that every card is in one zone.                *)
LEMMA ZonesCount ==
    ASSUME NEW t \in Tables
    PROVE  validate_card_zones(t) <=> \A c \in Cards : InOneZone(t, c)
<1> SUFFICES ASSUME NEW c \in Cards PROVE Count(t, c) = 1 <=> InOneZone(t, c)
  BY DEF validate_card_zones
<1>h. PICK H : H = HandsOf(t, c)
  OBVIOUS
<1>p. PICK P : P = PlacesOf(t, c)
  OBVIOUS
<1>k. PICK K : K = PilesOf(t, c)
  OBVIOUS
<1>1. IsFiniteSet(H) /\ IsFiniteSet(K)
  BY <1>h, <1>k, SeatTypes, FS_Subset DEF HandsOf, PilesOf
<1>2. IsFiniteSet(P)
  <2>1. DOMAIN t.trick = 1 .. Len(t.trick) /\ Len(t.trick) \in Nat
    BY TrickDomain
  <2>2. IsFiniteSet(1 .. Len(t.trick))
    BY <2>1, FS_Interval
  <2>3. P \in SUBSET (1 .. Len(t.trick))
    BY <1>p, <2>1 DEF PlacesOf
  <2> QED
    BY <2>2, <2>3, FS_Subset
<1>3. Count(t, c) = (IF t.trump = c THEN 1 ELSE 0) + Cardinality(H)
                      + (IF c \in t.stock THEN 1 ELSE 0)
                      + Cardinality(P) + Cardinality(K)
  BY <1>h, <1>p, <1>k DEF Count, HandsOf, PlacesOf, PilesOf
<1>4. /\ Cardinality(H) \in Nat /\ (Cardinality(H) = 0 <=> H = {})
      /\ (Cardinality(H) = 1 <=> H # {} /\ Single(H))
  BY <1>1, CountsOne
<1>5. /\ Cardinality(P) \in Nat /\ (Cardinality(P) = 0 <=> P = {})
      /\ (Cardinality(P) = 1 <=> P # {} /\ Single(P))
  BY <1>2, CountsOne
<1>6. /\ Cardinality(K) \in Nat /\ (Cardinality(K) = 0 <=> K = {})
      /\ (Cardinality(K) = 1 <=> K # {} /\ Single(K))
  BY <1>1, CountsOne
<1>7. Single({})
  BY DEF Single
<1>8. ASSUME Count(t, c) = 1 PROVE InOneZone(t, c)
  <2>1. \/ t.trump = c /\ H = {} /\ c \notin t.stock /\ P = {} /\ K = {}
        \/ t.trump # c /\ H = {} /\ c \in t.stock /\ P = {} /\ K = {}
        \/ /\ t.trump # c /\ H # {} /\ Single(H) /\ c \notin t.stock
           /\ P = {} /\ K = {}
        \/ /\ t.trump # c /\ H = {} /\ c \notin t.stock /\ P # {} /\ Single(P)
           /\ K = {}
        \/ /\ t.trump # c /\ H = {} /\ c \notin t.stock /\ P = {} /\ K # {}
           /\ Single(K)
    BY <1>3, <1>4, <1>5, <1>6, <1>8
  <2> QED
    BY <1>7, <1>h, <1>p, <1>k, <2>1 DEF InOneZone
<1>9. ASSUME InOneZone(t, c) PROVE Count(t, c) = 1
  BY <1>3, <1>4, <1>5, <1>6, <1>7, <1>9, <1>h, <1>p, <1>k DEF InOneZone
<1> QED
  BY <1>8, <1>9

(* Taking a trick moves its cards to the winner's pile.                    *)
LEMMA CollectedFields ==
    ASSUME NEW t \in Tables, Winner(t) \in PlayerSeats
    PROVE  LET u == Collected(t)
               cards == {t.trick[i].card : i \in DOMAIN t.trick}
           IN  /\ u.captured = [t.captured EXCEPT ![Winner(t)] = @ \cup cards]
               /\ u.tricks_won = [t.tricks_won EXCEPT ![Winner(t)] = @ + 1]
               /\ u.trick = <<>> /\ u.actor = Winner(t) /\ u.leader = Winner(t)
               /\ u.hands = t.hands /\ u.stock = t.stock /\ u.trump = t.trump
               /\ u.hand_size = t.hand_size /\ u.bids = t.bids
BY DEF Collected, Tables

LEMMA CollectedInZones ==
    ASSUME NEW t \in Tables, Winner(t) \in PlayerSeats, NEW c \in Cards,
           InOneZone(t, c)
    PROVE  InOneZone(Collected(t), c)
<1>u. PICK u : u = Collected(t)
  OBVIOUS
<1>w. PICK w : w = Winner(t)
  OBVIOUS
<1>k. PICK cards : cards = {t.trick[i].card : i \in DOMAIN t.trick}
  OBVIOUS
<1>1. /\ u.captured = [t.captured EXCEPT ![w] = @ \cup cards]
      /\ u.trick = <<>> /\ u.hands = t.hands /\ u.stock = t.stock
      /\ u.trump = t.trump
  BY <1>u, <1>w, <1>k, CollectedFields
<1>2. HandsOf(u, c) = HandsOf(t, c) /\ PlacesOf(u, c) = {}
  BY <1>1 DEF HandsOf, PlacesOf
<1>3. t.captured \in [PlayerSeats -> SUBSET Cards] /\ w \in PlayerSeats
  BY <1>w DEF Tables
<1>4. c \in cards <=> PlacesOf(t, c) # {}
  BY <1>k DEF PlacesOf
<1>5. PilesOf(u, c) = IF c \in cards THEN PilesOf(t, c) \cup {w} ELSE PilesOf(t, c)
  BY <1>1, <1>3 DEF PilesOf
<1> QED
  BY <1>1, <1>2, <1>4, <1>5, <1>u DEF InOneZone, Single

(* A card laid on the trick leaves the hand.                               *)
Laid(t, player, card) ==
    [t EXCEPT !.hands = [t.hands EXCEPT ![player] = @ \ {card}],
              !.trick = Append(t.trick, [player |-> player, card |-> card])]

LEMMA LaidTyped ==
    ASSUME NEW t \in Tables, NEW player \in PlayerSeats, NEW card \in Cards
    PROVE  LET n == Laid(t, player, card) IN
           /\ n \in Tables
           /\ n.hands = [t.hands EXCEPT ![player] = @ \ {card}]
           /\ n.trick = Append(t.trick, [player |-> player, card |-> card])
           /\ n.hand_size = t.hand_size /\ n.trump = t.trump /\ n.bids = t.bids
           /\ n.stock = t.stock /\ n.captured = t.captured
           /\ n.tricks_won = t.tricks_won /\ n.leader = t.leader
           /\ Len(n.trick) = Len(t.trick) + 1 /\ DOMAIN n.trick = 1 .. Len(t.trick) + 1
           /\ \A i \in DOMAIN t.trick : n.trick[i] = t.trick[i]
           /\ n.trick[Len(t.trick) + 1] = [player |-> player, card |-> card]
<1>p. PICK play : play = [player |-> player, card |-> card]
  OBVIOUS
<1>q. PICK trick : trick = Append(t.trick, play)
  OBVIOUS
<1>h. PICK hands : hands = [t.hands EXCEPT ![player] = @ \ {card}]
  OBVIOUS
<1>1. play \in CardPlays /\ t.trick \in Seq(CardPlays)
  BY <1>p DEF CardPlays, Tables
<1>2. /\ trick \in Seq(CardPlays) /\ Len(trick) = Len(t.trick) + 1
      /\ DOMAIN trick = 1 .. Len(t.trick) + 1
      /\ \A i \in DOMAIN t.trick : trick[i] = t.trick[i]
      /\ trick[Len(t.trick) + 1] = play
  BY <1>1, <1>q
<1>3. hands \in [PlayerSeats -> SUBSET Cards]
  BY <1>h DEF Tables
<1>n. PICK n : n = Laid(t, player, card)
  OBVIOUS
<1>4. n = [t EXCEPT !.hands = hands, !.trick = trick]
  BY <1>n, <1>p, <1>q, <1>h DEF Laid
<1>5. /\ n \in Tables /\ n.hands = hands /\ n.trick = trick
      /\ n.hand_size = t.hand_size /\ n.trump = t.trump /\ n.bids = t.bids
      /\ n.stock = t.stock /\ n.captured = t.captured
      /\ n.tricks_won = t.tricks_won /\ n.leader = t.leader
  BY <1>2, <1>3, <1>4 DEF Tables
<1> QED
  BY <1>2, <1>5, <1>n, <1>p, <1>q, <1>h

LEMMA PlayLays ==
    ASSUME NEW t \in Tables, NEW player, NEW card
    PROVE  AfterPlay(t, player, card)
             = IF Len(Laid(t, player, card).trick) = PLAYERS
               THEN Collected(Laid(t, player, card))
               ELSE [Laid(t, player, card) EXCEPT !.actor = left(player)]
BY DEF AfterPlay, Laid, Tables

LEMMA LaidInZones ==
    ASSUME NEW t \in Tables, NEW player \in PlayerSeats,
           NEW card \in t.hands[player], NEW c \in Cards, InOneZone(t, c)
    PROVE  InOneZone(Laid(t, player, card), c)
<1>n. PICK n : n = Laid(t, player, card)
  OBVIOUS
<1>0. card \in Cards /\ t.hands \in [PlayerSeats -> SUBSET Cards]
  BY DEF Tables
<1>1. /\ n.hands = [t.hands EXCEPT ![player] = @ \ {card}]
      /\ n.trump = t.trump /\ n.stock = t.stock /\ n.captured = t.captured
      /\ DOMAIN n.trick = 1 .. Len(t.trick) + 1
      /\ \A i \in DOMAIN t.trick : n.trick[i] = t.trick[i]
      /\ n.trick[Len(t.trick) + 1] = [player |-> player, card |-> card]
  BY <1>0, <1>n, LaidTyped
<1>2. DOMAIN t.trick = 1 .. Len(t.trick) /\ Len(t.trick) \in Nat
  BY TrickDomain
<1>3. PilesOf(n, c) = PilesOf(t, c)
  BY <1>1 DEF PilesOf
<1>4. DOMAIN n.trick = DOMAIN t.trick \cup {Len(t.trick) + 1}
      /\ Len(t.trick) + 1 \notin DOMAIN t.trick
  BY <1>1, <1>2
<1>5. CASE c = card
  <2>1. HandsOf(t, c) = {player}
    BY <1>0, <1>5 DEF HandsOf, InOneZone, Single
  <2>2. HandsOf(n, c) = {}
    BY <1>0, <1>1, <1>5, <2>1 DEF HandsOf
  <2>3. PlacesOf(t, c) = {} /\ PilesOf(t, c) = {} /\ t.trump # c /\ c \notin t.stock
    BY <2>1 DEF InOneZone
  <2>4. PlacesOf(n, c) = {Len(t.trick) + 1}
    BY <1>1, <1>4, <1>5, <2>3 DEF PlacesOf
  <2> QED
    BY <1>1, <1>3, <2>2, <2>3, <2>4, <1>n DEF InOneZone, Single
<1>6. CASE c # card
  <2>1. HandsOf(n, c) = HandsOf(t, c)
    BY <1>0, <1>1, <1>6 DEF HandsOf
  <2>2. PlacesOf(n, c) = PlacesOf(t, c)
    BY <1>1, <1>4, <1>6 DEF PlacesOf
  <2> QED
    BY <1>1, <1>3, <2>1, <2>2, <1>n DEF InOneZone
<1> QED
  BY <1>5, <1>6

-----------------------------------------------------------------------------
(* The turns of a trick go round the table.                                *)
LEMMA Ring ==
    ASSUME NEW s \in PlayerSeats
    PROVE  /\ advance(s, 0) = s
           /\ \A o \in PlayerSeats :
                  /\ advance(s, o) \in PlayerSeats
                  /\ left(advance(s, o)) = advance(s, o + 1)
           /\ \A o, p \in PlayerSeats : advance(s, o) = advance(s, p) => o = p
           /\ \A r \in PlayerSeats : \E o \in PlayerSeats : advance(s, o) = r
<1>1. /\ PLAYERS \in Nat /\ PLAYERS >= 2 /\ s \in 0 .. (PLAYERS - 1)
      /\ \A o : o \in PlayerSeats <=> o \in 0 .. (PLAYERS - 1)
  BY Constants DEF PlayerSeats
<1>2. \A o \in PlayerSeats :
          advance(s, o) = IF s + o < PLAYERS THEN s + o ELSE s + o - PLAYERS
  BY <1>1 DEF advance
<1>3. advance(s, 0) = s
  BY <1>1 DEF advance
<1>4. ASSUME NEW o \in PlayerSeats
      PROVE  left(advance(s, o)) = advance(s, o + 1)
  <2>1. CASE s + o < PLAYERS
    <3>1. advance(s, o) = s + o
      BY <1>2, <2>1
    <3> QED
      BY <1>1, <3>1 DEF left, advance
  <2>2. CASE s + o >= PLAYERS
    <3>1. advance(s, o) = s + o - PLAYERS
      BY <1>1, <1>2, <2>2
    <3>2. s + o - PLAYERS + 1 \in 0 .. (PLAYERS - 1)
      BY <1>1, <2>2
    <3>3. (s + o - PLAYERS + 1) % PLAYERS = s + o - PLAYERS + 1
      BY <1>1, <3>2
    <3>4. (s + (o + 1)) % PLAYERS = s + o - PLAYERS + 1
      BY <1>1, <2>2, <3>2
    <3> QED
      BY <3>1, <3>3, <3>4 DEF left, advance
  <2> QED
    BY <1>1, <2>1, <2>2
<1>5. ASSUME NEW r \in PlayerSeats PROVE \E o \in PlayerSeats : advance(s, o) = r
  <2>1. CASE r >= s
    <3>1. r - s \in PlayerSeats /\ advance(s, r - s) = r
      BY <1>1, <1>2, <2>1
    <3> QED
      BY <3>1
  <2>2. CASE r < s
    <3>1. r - s + PLAYERS \in PlayerSeats /\ advance(s, r - s + PLAYERS) = r
      BY <1>1, <1>2, <2>2
    <3> QED
      BY <3>1
  <2> QED
    BY <1>1, <2>1, <2>2
<1>6. \A o \in PlayerSeats : advance(s, o) \in PlayerSeats
  BY <1>1, <1>2
<1>7. \A o, p \in PlayerSeats : advance(s, o) = advance(s, p) => o = p
  BY <1>1, <1>2
<1> QED
  BY <1>3, <1>4, <1>5, <1>6, <1>7

-----------------------------------------------------------------------------
(* The tricks won so far.                                                  *)

Wins(t) == {w \in PlayerSeats \X (1 .. t.hand_size) : w[2] <= t.tricks_won[w[1]]}
Won(t) == Cardinality(Wins(t))

LEMMA WinsCount ==
    ASSUME NEW t \in Tables, \A s \in PlayerSeats : t.tricks_won[s] <= t.hand_size
    PROVE  /\ IsFiniteSet(Wins(t)) /\ Won(t) \in Nat
           /\ \A s \in PlayerSeats : t.tricks_won[s] <= Won(t)
           /\ (\A s \in PlayerSeats : t.tricks_won[s] = 0) => Won(t) = 0
<1>1. t.hand_size \in Nat /\ \A s \in PlayerSeats : t.tricks_won[s] \in Nat
  BY DEF Tables
<1>2. IsFiniteSet(PlayerSeats \X (1 .. t.hand_size))
  <2>1. IsFiniteSet(1 .. t.hand_size)
    BY <1>1, FS_Interval
  <2> QED
    BY <2>1, SeatTypes, FS_Product
<1>3. IsFiniteSet(Wins(t)) /\ Won(t) \in Nat
  BY <1>2, FS_Subset, FS_CardinalityType DEF Wins, Won
<1>4. ASSUME NEW s \in PlayerSeats PROVE t.tricks_won[s] <= Won(t)
  <2>n. PICK n : n = t.tricks_won[s]
    OBVIOUS
  <2>1. n \in Nat /\ n <= t.hand_size
    BY <1>1, <2>n
  <2>2. IsFiniteSet(1 .. n) /\ Cardinality(1 .. n) = n
    BY <2>1, FS_Interval
  <2>3. IsFiniteSet({s}) /\ Cardinality({s}) = 1
    BY FS_Singleton
  <2>4. Cardinality({s} \X (1 .. n)) = 1 * n
    BY <2>2, <2>3, FS_Product, ZenonT(60)
  <2>5. {s} \X (1 .. n) \in SUBSET Wins(t)
    BY <1>1, <2>1, <2>n DEF Wins
  <2>6. Cardinality({s} \X (1 .. n)) <= Cardinality(Wins(t))
    BY <1>3, <2>5, FS_Subset
  <2> QED
    BY <2>1, <2>4, <2>6, <2>n DEF Won
<1>5. ASSUME \A s \in PlayerSeats : t.tricks_won[s] = 0 PROVE Won(t) = 0
  <2>1. Wins(t) = {}
    BY <1>1, <1>5 DEF Wins
  <2> QED
    BY <2>1, FS_EmptySet DEF Won
<1> QED
  BY <1>3, <1>4, <1>5

LEMMA OneMoreWin ==
    ASSUME NEW t \in Tables, NEW u \in Tables, NEW w \in PlayerSeats,
           \A s \in PlayerSeats : t.tricks_won[s] <= t.hand_size,
           u.hand_size = t.hand_size, t.tricks_won[w] < t.hand_size,
           u.tricks_won = [t.tricks_won EXCEPT ![w] = @ + 1]
    PROVE  Won(u) = Won(t) + 1
<1>1. /\ t.hand_size \in Nat /\ t.tricks_won \in [PlayerSeats -> Nat]
  BY DEF Tables
<1>x. PICK x : x = <<w, t.tricks_won[w] + 1>>
  OBVIOUS
<1>2. x \notin Wins(t)
  BY <1>1, <1>x DEF Wins
<1>3. Wins(u) = Wins(t) \cup {x}
  <2>1. \A s \in PlayerSeats : u.tricks_won[s]
            = IF s = w THEN t.tricks_won[s] + 1 ELSE t.tricks_won[s]
    BY <1>1
  <2>2. ASSUME NEW v \in Wins(u) PROVE v \in Wins(t) \cup {x}
    <3>1. /\ v \in PlayerSeats \X (1 .. t.hand_size) /\ v[1] \in PlayerSeats
          /\ v[2] \in 1 .. t.hand_size /\ v = <<v[1], v[2]>>
          /\ v[2] <= u.tricks_won[v[1]]
      BY <2>2 DEF Wins
    <3>2. CASE v[2] <= t.tricks_won[v[1]]
      BY <3>1, <3>2 DEF Wins
    <3>3. CASE v[2] > t.tricks_won[v[1]]
      BY <1>1, <1>x, <2>1, <3>1, <3>3
    <3> QED
      BY <1>1, <3>1, <3>2, <3>3
  <2>3. ASSUME NEW v \in Wins(t) PROVE v \in Wins(u)
    BY <1>1, <2>1, <2>3 DEF Wins
  <2>4. x \in Wins(u)
    BY <1>1, <1>x, <2>1 DEF Wins
  <2> QED
    BY <2>2, <2>3, <2>4
<1> QED
  BY <1>2, <1>3, WinsCount, FS_AddElement DEF Won

-----------------------------------------------------------------------------
(* A round's table: every card is in one zone, the hands have lost a card  *)
(* for each trick and one for the trick in progress, the piles are whole   *)
(* tricks, and the plays of the trick are those of the seats from the      *)
(* leader on.                                                              *)
HasPlayed(t, s) == \E i \in DOMAIN t.trick : t.trick[i].player = s

HandsCount(t) ==
    \A s \in PlayerSeats : Cardinality(t.hands[s])
        = t.hand_size - Won(t) - (IF HasPlayed(t, s) THEN 1 ELSE 0)

PilesCount(t) ==
    \A s \in PlayerSeats : Cardinality(t.captured[s]) = PLAYERS * t.tricks_won[s]

TrickInTurn(t) ==
    \A i \in DOMAIN t.trick : t.trick[i].player = advance(t.leader, i - 1)

Counted(t) ==
    /\ \A s \in PlayerSeats : t.tricks_won[s] <= t.hand_size
    /\ HandsCount(t) /\ PilesCount(t) /\ TrickInTurn(t)
    /\ Len(t.trick) < PLAYERS /\ \A c \in Cards : InOneZone(t, c)

InTurn(t) == t.actor = advance(t.leader, Len(t.trick))

LEMMA HandsFinite ==
    \A S \in SUBSET Cards : IsFiniteSet(S) /\ Cardinality(S) \in Nat
BY CardsFinite, FS_Subset, FS_CardinalityType

(* The player whose turn it is has not played to the trick.                *)
LEMMA ActorToPlay ==
    ASSUME NEW t \in Tables, TrickInTurn(t), InTurn(t), Len(t.trick) < PLAYERS
    PROVE  ~HasPlayed(t, t.actor)
<1> SUFFICES ASSUME NEW i \in DOMAIN t.trick, t.trick[i].player = t.actor
             PROVE  FALSE
  BY DEF HasPlayed
<1>1. DOMAIN t.trick = 1 .. Len(t.trick) /\ Len(t.trick) \in Nat
  BY TrickDomain
<1>2. i - 1 \in PlayerSeats /\ Len(t.trick) \in PlayerSeats /\ i - 1 # Len(t.trick)
  BY <1>1, Constants DEF PlayerSeats
<1>3. advance(t.leader, i - 1) = advance(t.leader, Len(t.trick))
  BY DEF TrickInTurn, InTurn
<1>4. t.leader \in PlayerSeats
  BY DEF Tables
<1>5. i - 1 = Len(t.trick)
  <2>1. \A o, p \in PlayerSeats :
            advance(t.leader, o) = advance(t.leader, p) => o = p
    BY <1>4, Ring
  <2> QED
    BY <1>2, <1>3, <2>1
<1> QED
  BY <1>2, <1>5

(* The round is over when every trick has been won.                        *)
LEMMA OverWhenWon ==
    ASSUME NEW t \in Tables, Counted(t), InTurn(t)
    PROVE  /\ RoundOver(t) <=> Won(t) = t.hand_size
           /\ Won(t) <= t.hand_size
           /\ Cardinality(t.hands[t.actor]) = t.hand_size - Won(t)
<1>1. /\ Won(t) \in Nat /\ t.hand_size \in Nat /\ t.actor \in PlayerSeats
  BY WinsCount DEF Counted, Tables
<1>2. \A s \in PlayerSeats : /\ Cardinality(t.hands[s]) \in Nat
                             /\ Cardinality(t.hands[s]) = 0 <=> t.hands[s] = {}
  <2>1. \A s \in PlayerSeats : t.hands[s] \in SUBSET Cards
    BY DEF Tables
  <2> QED
    BY <2>1, HandsFinite, FS_EmptySet
<1>3. Cardinality(t.hands[t.actor]) = t.hand_size - Won(t)
  BY <1>1, ActorToPlay DEF Counted, HandsCount
<1>4. \A s \in PlayerSeats : Cardinality(t.hands[s])
        = t.hand_size - Won(t) - (IF HasPlayed(t, s) THEN 1 ELSE 0)
  BY DEF Counted, HandsCount
<1>5. ASSUME Won(t) = t.hand_size, NEW s \in PlayerSeats PROVE t.hands[s] = {}
  BY <1>1, <1>2, <1>4, <1>5
<1>6. ASSUME RoundOver(t) PROVE Won(t) = t.hand_size
  BY <1>1, <1>2, <1>3, <1>6 DEF RoundOver
<1> QED
  BY <1>1, <1>2, <1>3, <1>5, <1>6 DEF RoundOver

(* A trick has as many cards as plays.                                     *)
LEMMA TrickCards ==
    ASSUME NEW t \in Tables, \A c \in Cards : InOneZone(t, c)
    PROVE  LET cards == {t.trick[i].card : i \in DOMAIN t.trick} IN
           IsFiniteSet(cards) /\ Cardinality(cards) = Len(t.trick)
<1>c. PICK cards : cards = {t.trick[i].card : i \in DOMAIN t.trick}
  OBVIOUS
<1>f. PICK f : f = [i \in DOMAIN t.trick |-> t.trick[i].card]
  OBVIOUS
<1>1. /\ DOMAIN t.trick = 1 .. Len(t.trick) /\ Len(t.trick) \in Nat
      /\ \A i \in DOMAIN t.trick : t.trick[i].card \in Cards
  BY TrickDomain
<1>2. f \in Surjection(DOMAIN t.trick, cards)
  BY <1>c, <1>f DEF Surjection
<1>3. ASSUME NEW i \in DOMAIN t.trick, NEW j \in DOMAIN t.trick,
             t.trick[i].card = t.trick[j].card
      PROVE  i = j
  <2>1. i \in PlacesOf(t, t.trick[i].card) /\ j \in PlacesOf(t, t.trick[i].card)
    BY <1>3 DEF PlacesOf
  <2>2. Single(PlacesOf(t, t.trick[i].card))
    BY <1>1 DEF InOneZone
  <2> QED
    BY <2>1, <2>2 DEF Single
<1>4. f \in Injection(DOMAIN t.trick, cards)
  BY <1>c, <1>f, <1>3 DEF Injection, IsInjective
<1>5. IsFiniteSet(DOMAIN t.trick) /\ Cardinality(DOMAIN t.trick) = Len(t.trick)
  <2>1. IsFiniteSet(1 .. Len(t.trick)) /\ Cardinality(1 .. Len(t.trick)) = Len(t.trick)
    BY <1>1, FS_Interval
  <2> QED
    BY <1>1, <2>1
<1>6. IsFiniteSet(cards) /\ Cardinality(cards) = Cardinality(DOMAIN t.trick)
  BY <1>2, <1>4, <1>5, FS_Surjection
<1> QED
  BY <1>5, <1>6, <1>c

(* A card laid on the trick in turn.                                       *)
LEMMA LaidCounted ==
    ASSUME NEW t \in Tables, Counted(t), InTurn(t), NEW card \in t.hands[t.actor]
    PROVE  LET n == Laid(t, t.actor, card) IN
           /\ n \in Tables /\ HandsCount(n) /\ PilesCount(n) /\ TrickInTurn(n)
           /\ Won(n) = Won(t) /\ Won(t) < t.hand_size
           /\ \A c \in Cards : InOneZone(n, c)
<1>p. PICK player : player = t.actor
  OBVIOUS
<1>n. PICK n : n = Laid(t, player, card)
  OBVIOUS
<1>0. /\ player \in PlayerSeats /\ card \in Cards /\ card \in t.hands[player]
      /\ t.hands \in [PlayerSeats -> SUBSET Cards]
      /\ t.hand_size \in Nat
  BY <1>p DEF Tables
<1>1. /\ n \in Tables
      /\ n.hands = [t.hands EXCEPT ![player] = @ \ {card}]
      /\ n.hand_size = t.hand_size /\ n.captured = t.captured
      /\ n.tricks_won = t.tricks_won /\ n.leader = t.leader
      /\ DOMAIN n.trick = 1 .. Len(t.trick) + 1
      /\ \A i \in DOMAIN t.trick : n.trick[i] = t.trick[i]
      /\ n.trick[Len(t.trick) + 1] = [player |-> player, card |-> card]
  BY <1>0, <1>n, LaidTyped
<1>2. DOMAIN t.trick = 1 .. Len(t.trick) /\ Len(t.trick) \in Nat
  BY TrickDomain
<1>3. Won(n) = Won(t)
  BY <1>1 DEF Won, Wins
<1>4. PilesCount(n)
  BY <1>1 DEF Counted, PilesCount
<1>5. \A c \in Cards : InOneZone(n, c)
  BY <1>0, <1>n, LaidInZones DEF Counted
<1>6. /\ HasPlayed(n, player)
      /\ \A s \in PlayerSeats : s # player => (HasPlayed(n, s) <=> HasPlayed(t, s))
  <2>1. n.trick[Len(t.trick) + 1].player = player
    BY <1>1
  <2>2. DOMAIN n.trick = DOMAIN t.trick \cup {Len(t.trick) + 1}
    BY <1>1, <1>2
  <2> QED
    BY <1>1, <2>1, <2>2 DEF HasPlayed
<1>7. ~HasPlayed(t, player)
  BY <1>p, ActorToPlay DEF Counted
<1>8. /\ IsFiniteSet(t.hands[player]) /\ Won(t) \in Nat
      /\ Cardinality(t.hands[player]) \in Nat
      /\ Cardinality(t.hands[player]) # 0
  BY <1>0, HandsFinite, FS_EmptySet, WinsCount DEF Counted
<1>9. Cardinality(t.hands[player]) = t.hand_size - Won(t)
  BY <1>0, <1>7, <1>8 DEF Counted, HandsCount
<1>10. HandsCount(n)
  <2> SUFFICES ASSUME NEW s \in PlayerSeats
               PROVE  Cardinality(n.hands[s])
                        = n.hand_size - Won(n) - (IF HasPlayed(n, s) THEN 1 ELSE 0)
    BY DEF HandsCount
  <2>1. CASE s = player
    <3>1. Cardinality(t.hands[player] \ {card}) = Cardinality(t.hands[player]) - 1
      BY <1>0, <1>8, FS_RemoveElement
    <3>2. n.hands[player] = t.hands[player] \ {card}
      BY <1>0, <1>1
    <3> QED
      BY <1>0, <1>1, <1>3, <1>6, <1>8, <1>9, <2>1, <3>1, <3>2
  <2>2. CASE s # player
    <3>1. n.hands[s] = t.hands[s]
      BY <1>0, <1>1, <2>2
    <3> QED
      BY <1>1, <1>3, <1>6, <2>2, <3>1 DEF Counted, HandsCount
  <2> QED
    BY <2>1, <2>2
<1>11. TrickInTurn(n)
  <2> SUFFICES ASSUME NEW i \in DOMAIN n.trick
               PROVE  n.trick[i].player = advance(n.leader, i - 1)
    BY DEF TrickInTurn
  <2>1. CASE i \in DOMAIN t.trick
    BY <1>1, <2>1 DEF Counted, TrickInTurn
  <2>2. CASE i = Len(t.trick) + 1
    <3>1. i - 1 = Len(t.trick)
      BY <1>2, <2>2
    <3> QED
      BY <1>1, <1>p, <2>2, <3>1 DEF InTurn
  <2> QED
    BY <1>1, <1>2, <2>1, <2>2
<1> QED
  BY <1>0, <1>1, <1>3, <1>4, <1>5, <1>8, <1>9, <1>10, <1>11, <1>n, <1>p

(* The last play of a trick: the winner gets its cards and the next lead.  *)
LEMMA CollectedCounted ==
    ASSUME NEW n \in Tables, HandsCount(n), PilesCount(n), TrickInTurn(n),
           \A s \in PlayerSeats : n.tricks_won[s] <= n.hand_size,
           \A c \in Cards : InOneZone(n, c), Won(n) < n.hand_size,
           Len(n.trick) = PLAYERS, \E i : Highest(n.trump.suit, n.trick, i)
    PROVE  Counted(Collected(n)) /\ InTurn(Collected(n))
<1>u. PICK u : u = Collected(n)
  OBVIOUS
<1>w. PICK w : w = Winner(n)
  OBVIOUS
<1>c. PICK cards : cards = {n.trick[i].card : i \in DOMAIN n.trick}
  OBVIOUS
<1>1. u \in Tables /\ u.actor = w
  BY <1>u, <1>w, CollectedTyped
<1>2. w \in PlayerSeats
  BY <1>1 DEF Tables
<1>3. /\ u.captured = [n.captured EXCEPT ![w] = @ \cup cards]
      /\ u.tricks_won = [n.tricks_won EXCEPT ![w] = @ + 1]
      /\ u.trick = <<>> /\ u.actor = w /\ u.leader = w
      /\ u.hands = n.hands /\ u.hand_size = n.hand_size
  BY <1>u, <1>w, <1>c, <1>2, CollectedFields
<1>4. /\ n.tricks_won \in [PlayerSeats -> Nat] /\ n.hand_size \in Nat
      /\ n.captured \in [PlayerSeats -> SUBSET Cards]
      /\ PLAYERS \in Nat /\ PLAYERS >= 2
  BY Constants DEF Tables
<1>5. /\ Won(n) \in Nat /\ n.tricks_won[w] <= Won(n)
  BY <1>2, WinsCount
<1>6. n.tricks_won[w] < n.hand_size /\ n.tricks_won[w] \in Nat
  BY <1>2, <1>4, <1>5
<1>7. Won(u) = Won(n) + 1
  BY <1>1, <1>2, <1>3, <1>6, OneMoreWin
<1>8. \A s \in PlayerSeats : u.tricks_won[s] <= u.hand_size
  BY <1>2, <1>3, <1>4, <1>6
<1>9. HandsCount(u)
  <2> SUFFICES ASSUME NEW s \in PlayerSeats
               PROVE  Cardinality(u.hands[s])
                        = u.hand_size - Won(u) - (IF HasPlayed(u, s) THEN 1 ELSE 0)
    BY DEF HandsCount
  <2>1. ~HasPlayed(u, s)
    BY <1>3 DEF HasPlayed
  <2>2. HasPlayed(n, s)
    <3>1. n.leader \in PlayerSeats
      BY DEF Tables
    <3>2. PICK o \in PlayerSeats : advance(n.leader, o) = s
      BY <3>1, Ring
    <3>k. PICK k : k = o + 1
      OBVIOUS
    <3>3. k \in DOMAIN n.trick /\ k - 1 = o
      BY <1>4, <3>k, TrickDomain DEF PlayerSeats
    <3>4. n.trick[k].player = advance(n.leader, k - 1)
      BY <3>3 DEF TrickInTurn
    <3> QED
      BY <3>2, <3>3, <3>4 DEF HasPlayed
  <2> QED
    BY <1>3, <1>4, <1>5, <1>7, <2>1, <2>2 DEF HandsCount
<1>10. PilesCount(u)
  <2> SUFFICES ASSUME NEW s \in PlayerSeats
               PROVE  Cardinality(u.captured[s]) = PLAYERS * u.tricks_won[s]
    BY DEF PilesCount
  <2>1. CASE s = w
    <3>1. u.captured[s] = n.captured[w] \cup cards
      BY <1>2, <1>3, <1>4, <2>1
    <3>2. IsFiniteSet(n.captured[w]) /\ n.captured[w] \subseteq Cards
      BY <1>2, <1>4, HandsFinite
    <3>3. IsFiniteSet(cards) /\ Cardinality(cards) = PLAYERS
      BY <1>c, TrickCards
    <3>4. n.captured[w] \cap cards = {}
      <4> SUFFICES ASSUME NEW k \in n.captured[w], k \in cards PROVE FALSE
        OBVIOUS
      <4>1. k \in Cards /\ w \in PilesOf(n, k) /\ PlacesOf(n, k) # {}
        BY <1>2, <1>c, <3>2 DEF PilesOf, PlacesOf
      <4> QED
        BY <4>1 DEF InOneZone
    <3>5. Cardinality({}) = 0
      BY FS_EmptySet
    <3>6. Cardinality(n.captured[w] \cup cards)
            = Cardinality(n.captured[w]) + Cardinality(cards) - Cardinality({})
      BY <3>2, <3>3, <3>4, FS_Union
    <3>7. Cardinality(n.captured[w]) = PLAYERS * n.tricks_won[w]
      BY <1>2 DEF PilesCount
    <3>8. u.tricks_won[s] = n.tricks_won[w] + 1
      BY <1>2, <1>3, <1>4, <2>1
    <3>9. PLAYERS * (n.tricks_won[w] + 1) = PLAYERS * n.tricks_won[w] + PLAYERS
      BY <1>4, <1>6
    <3>10. PLAYERS * n.tricks_won[w] \in Nat
      BY <1>4, <1>6
    <3> QED
      BY <1>4, <3>1, <3>3, <3>5, <3>6, <3>7, <3>8, <3>9, <3>10
  <2>2. CASE s # w
    BY <1>2, <1>3, <1>4, <2>2 DEF PilesCount
  <2> QED
    BY <2>1, <2>2
<1>11. /\ TrickInTurn(u) /\ Len(u.trick) < PLAYERS /\ InTurn(u)
  <2>1. DOMAIN u.trick = {} /\ Len(u.trick) = 0
    BY <1>3
  <2>2. advance(w, 0) = w
    BY <1>2, Ring
  <2> QED
    BY <1>3, <1>4, <2>1, <2>2 DEF TrickInTurn, InTurn
<1>12. \A c \in Cards : InOneZone(u, c)
  BY <1>2, <1>u, <1>w, CollectedInZones
<1> QED
  BY <1>8, <1>9, <1>10, <1>11, <1>12, <1>u DEF Counted

(* A play keeps the cards, the hands, the piles and the turn in order, so  *)
(* that the check of the zones never refuses it.                           *)
LEMMA AfterPlayCounted ==
    ASSUME NEW t \in Tables, Counted(t), InTurn(t), RankedTrick(t),
           NEW card \in t.hands[t.actor]
    PROVE  LET u == AfterPlay(t, t.actor, card) IN
           Counted(u) /\ InTurn(u) /\ validate_card_zones(u)
<1>p. PICK player : player = t.actor
  OBVIOUS
<1>n. PICK n : n = Laid(t, player, card)
  OBVIOUS
<1>u. PICK u : u = AfterPlay(t, player, card)
  OBVIOUS
<1>0. player \in PlayerSeats /\ card \in Cards
  BY <1>p DEF Tables
<1>1. /\ n \in Tables /\ n.hand_size = t.hand_size /\ n.trump = t.trump
      /\ n.tricks_won = t.tricks_won /\ n.leader = t.leader
      /\ Len(n.trick) = Len(t.trick) + 1
      /\ n.trick = Append(t.trick, [player |-> player, card |-> card])
      /\ u = IF Len(n.trick) = PLAYERS THEN Collected(n)
             ELSE [n EXCEPT !.actor = left(player)]
  <2>1. /\ n \in Tables /\ n.hand_size = t.hand_size /\ n.trump = t.trump
        /\ n.tricks_won = t.tricks_won /\ n.leader = t.leader
    <3>1. Laid(t, player, card) \in Tables
      BY <1>0, LaidTyped
    <3> QED
      BY <1>0, <1>n, <3>1 DEF Laid, Tables
  <2>2. /\ n.trick = Append(t.trick, [player |-> player, card |-> card])
        /\ Len(n.trick) = Len(t.trick) + 1
    BY <1>0, <1>n DEF Laid, Tables, CardPlays
  <2>3. u = IF Len(n.trick) = PLAYERS THEN Collected(n)
             ELSE [n EXCEPT !.actor = left(player)]
    BY <1>n, <1>u, PlayLays
  <2> QED
    BY <2>1, <2>2, <2>3
<1>2. /\ HandsCount(n) /\ PilesCount(n) /\ TrickInTurn(n)
      /\ Won(n) < n.hand_size /\ \A c \in Cards : InOneZone(n, c)
      /\ \A s \in PlayerSeats : n.tricks_won[s] <= n.hand_size
  BY <1>1, <1>n, <1>p, LaidCounted DEF Counted
<1>3. Len(t.trick) < PLAYERS /\ Len(t.trick) \in Nat /\ PLAYERS \in Nat
  BY Constants, TrickDomain DEF Counted
<1>4. u \in Tables
  BY <1>0, <1>u, AfterPlayTyped
<1>5. Counted(u) /\ InTurn(u)
  <2>1. CASE Len(n.trick) = PLAYERS
    <3>1. \E i : Highest(n.trump.suit, n.trick, i)
      <4>p. PICK play : play = [player |-> player, card |-> card]
        OBVIOUS
      <4>1. play \in CardPlays /\ t.trick \in Seq(CardPlays)
        BY <1>0, <4>p DEF CardPlays, Tables
      <4>2. t.trick # <<>> => \E i : Highest(t.trump.suit, t.trick, i)
        BY DEF RankedTrick
      <4>3. \E i : Highest(t.trump.suit, Append(t.trick, play), i)
        BY <4>1, <4>2, HighestGoesOn
      <4> QED
        BY <1>1, <4>3, <4>p
    <3> QED
      BY <1>1, <1>2, <2>1, <3>1, CollectedCounted
  <2>2. CASE Len(n.trick) # PLAYERS
    <3>1. u = [n EXCEPT !.actor = left(player)]
      BY <1>1, <2>2
    <3>2. /\ u.hands = n.hands /\ u.hand_size = n.hand_size /\ u.trick = n.trick
          /\ u.captured = n.captured /\ u.tricks_won = n.tricks_won
          /\ u.leader = n.leader /\ u.actor = left(player)
          /\ u.trump = n.trump /\ u.stock = n.stock
      BY <1>1, <3>1 DEF Tables
    <3>3. HandsCount(u) /\ PilesCount(u) /\ TrickInTurn(u)
      BY <1>2, <3>2 DEF HandsCount, PilesCount, TrickInTurn, Won, Wins, HasPlayed
    <3>4. \A c \in Cards : InOneZone(u, c)
      <4>1. \A c : /\ HandsOf(u, c) = HandsOf(n, c) /\ PlacesOf(u, c) = PlacesOf(n, c)
                   /\ PilesOf(u, c) = PilesOf(n, c)
        BY <3>2 DEF HandsOf, PlacesOf, PilesOf
      <4> QED
        BY <1>2, <3>2, <4>1 DEF InOneZone
    <3>5. Len(u.trick) < PLAYERS
      BY <1>1, <1>3, <2>2, <3>2
    <3>6. u.actor = advance(u.leader, Len(u.trick))
      <4>1. t.leader \in PlayerSeats /\ Len(t.trick) \in PlayerSeats
        BY <1>3 DEF Tables, PlayerSeats
      <4>2. left(advance(t.leader, Len(t.trick))) = advance(t.leader, Len(t.trick) + 1)
        BY <4>1, Ring
      <4> QED
        BY <1>1, <1>p, <3>2, <4>2 DEF InTurn
    <3> QED
      BY <1>2, <3>2, <3>3, <3>4, <3>5, <3>6 DEF Counted, InTurn
  <2> QED
    BY <2>1, <2>2
<1> QED
  BY <1>4, <1>5, <1>p, <1>u, ZonesCount DEF Counted

(* A deck order has every card once.                                       *)
LEMMA DeckOnce ==
    ASSUME NEW deck \in Decks, NEW i \in 1 .. DECK_SIZE, NEW j \in 1 .. DECK_SIZE,
           deck[i] = deck[j]
    PROVE  i = j
<1>1. deck \in Surjection(1 .. DECK_SIZE, Cards)
  BY GameAssumption DEF GameAssumption, Surjection
<1>2. IsFiniteSet(1 .. DECK_SIZE) /\ Cardinality(1 .. DECK_SIZE) = Cardinality(Cards)
  <2>1. /\ IsFiniteSet(1 .. DECK_SIZE)
        /\ Cardinality(1 .. DECK_SIZE) = IF 1 > DECK_SIZE THEN 0 ELSE DECK_SIZE - 1 + 1
    BY Constants, FS_Interval
  <2> QED
    BY <2>1, Constants DEF DECK_SIZE
<1>3. deck \in Injection(1 .. DECK_SIZE, Cards)
  BY <1>1, <1>2, FS_SurjSameCardinalityImpliesInj
<1> QED
  BY <1>3 DEF Injection, IsInjective

(* The cards that one seat is dealt.                                       *)
LEMMA LayerCount ==
    ASSUME NEW deck \in Decks, NEW o \in PlayerSeats, NEW h \in Nat,
           h >= 1, h <= max_hand_size
    PROVE  Cardinality({deck[k * PLAYERS + o + 1] : k \in 0 .. (h - 1)}) = h
<1>1. /\ PLAYERS \in Nat /\ PLAYERS >= 2 /\ o \in 0 .. (PLAYERS - 1)
      /\ DECK_SIZE \in Nat
  BY Constants DEF PlayerSeats
<1>2. h * PLAYERS <= DECK_SIZE - 1 /\ h * PLAYERS \in Nat
  <2>1. h * PLAYERS <= max_hand_size * PLAYERS
    BY LargestHand, Constants, Multiples
  <2> QED
    BY <1>1, <2>1, LargestHand
<1>3. ASSUME NEW k \in 0 .. (h - 1)
      PROVE  k * PLAYERS \in Nat /\ k * PLAYERS + o + 1 \in 1 .. DECK_SIZE
  <2>1. (k + 1) * PLAYERS <= h * PLAYERS
    BY <1>1, Multiples
  <2>2. (k + 1) * PLAYERS = k * PLAYERS + PLAYERS /\ k * PLAYERS \in Nat
    BY <1>1
  <2> QED
    BY <1>1, <1>2, <2>1, <2>2
<1>4. ASSUME NEW k \in 0 .. (h - 1), NEW m \in 0 .. (h - 1), k < m
      PROVE  k * PLAYERS + o + 1 # m * PLAYERS + o + 1
  <2>1. (k + 1) * PLAYERS <= m * PLAYERS
    BY <1>1, <1>4, Multiples
  <2>2. (k + 1) * PLAYERS = k * PLAYERS + PLAYERS
    BY <1>1
  <2>3. k * PLAYERS \in Nat /\ m * PLAYERS \in Nat
    BY <1>3
  <2> QED
    BY <1>1, <2>1, <2>2, <2>3
<1>l. PICK layer : layer = {deck[k * PLAYERS + o + 1] : k \in 0 .. (h - 1)}
  OBVIOUS
<1>f. PICK f : f = [k \in 0 .. (h - 1) |-> deck[k * PLAYERS + o + 1]]
  OBVIOUS
<1>5. f \in Surjection(0 .. (h - 1), layer)
  BY <1>l, <1>f DEF Surjection
<1>6. ASSUME NEW k \in 0 .. (h - 1), NEW m \in 0 .. (h - 1), f[k] = f[m]
      PROVE  k = m
  <2>1. deck[k * PLAYERS + o + 1] = deck[m * PLAYERS + o + 1]
    BY <1>6, <1>f
  <2>2. k * PLAYERS + o + 1 = m * PLAYERS + o + 1
    BY <1>3, <2>1, DeckOnce
  <2>3. ~(k < m) /\ ~(m < k)
    BY <1>4, <2>2
  <2> QED
    BY <2>3
<1>7. f \in Injection(0 .. (h - 1), layer)
  BY <1>5, <1>6 DEF Injection, IsInjective, Surjection
<1>8. IsFiniteSet(0 .. (h - 1)) /\ Cardinality(0 .. (h - 1)) = h
  BY FS_Interval
<1>9. Cardinality(layer) = Cardinality(0 .. (h - 1))
  BY <1>5, <1>7, <1>8, FS_Surjection
<1> QED
  BY <1>8, <1>9, <1>l

LEMMA DealtCounted ==
    ASSUME NEW l \in Ledgers, l.round_index < round_count, NEW deck \in Decks,
           validate_card_zones(Dealt(l, deck))
    PROVE  /\ Counted(Dealt(l, deck)) /\ Won(Dealt(l, deck)) = 0
           /\ Dealt(l, deck).tricks_won = EachSeat(0)
           /\ Dealt(l, deck).hand_size \in 1 .. max_hand_size
<1>u. PICK u : u = Dealt(l, deck)
  OBVIOUS
<1>h. PICK h : h = hand_size_for_round(l.round_index)
  OBVIOUS
<1>f. PICK first : first = left(l.dealer)
  OBVIOUS
<1>1. /\ u \in Tables /\ u.hand_size = h /\ u.trick = <<>>
  BY <1>u, <1>h, DealtTyped
<1>2. h \in 1 .. max_hand_size /\ first \in PlayerSeats /\ h \in Nat
  <2>1. l.dealer \in PlayerSeats /\ l.round_index \in Nat
    BY DEF Ledgers
  <2>2. first \in PlayerSeats
    BY <1>f, <2>1, SeatTypes
  <2>3. h \in 1 .. max_hand_size
    BY <1>h, <2>1, Schedule
  <2> QED
    BY <2>2, <2>3, LargestHand
<1>3. /\ u.tricks_won = EachSeat(0) /\ u.captured = EachSeat({})
      /\ u.hands = [s \in PlayerSeats |->
             {deck[k * PLAYERS + (CHOOSE o \in PlayerSeats : advance(first, o) = s) + 1] :
                 k \in 0 .. (h - 1)}]
  <2>h. PICK hands : hands = [s \in PlayerSeats |->
             {deck[k * PLAYERS + (CHOOSE o \in PlayerSeats : advance(first, o) = s) + 1] :
                 k \in 0 .. (h - 1)}]
    OBVIOUS
  <2>s. PICK stock : stock = {deck[i] : i \in (h * PLAYERS + 1 + 1) .. DECK_SIZE}
    OBVIOUS
  <2>1. u = [NoTable EXCEPT !.hand_size = h, !.actor = first, !.hands = hands,
                            !.trump = deck[h * PLAYERS + 1], !.stock = stock]
    BY <1>u, <1>h, <1>f, <2>h, <2>s DEF Dealt
  <2> QED
    BY <2>1, <2>h DEF NoTable
<1>4. \A s \in PlayerSeats : u.tricks_won[s] = 0
  BY <1>3 DEF EachSeat
<1>5. Won(u) = 0 /\ \A s \in PlayerSeats : u.tricks_won[s] <= u.hand_size
  BY <1>1, <1>2, <1>4, WinsCount
<1>6. HandsCount(u)
  <2> SUFFICES ASSUME NEW s \in PlayerSeats
               PROVE  Cardinality(u.hands[s])
                        = u.hand_size - Won(u) - (IF HasPlayed(u, s) THEN 1 ELSE 0)
    BY DEF HandsCount
  <2>1. ~HasPlayed(u, s)
    BY <1>1 DEF HasPlayed
  <2>o. PICK o : o = CHOOSE p \in PlayerSeats : advance(first, p) = s
    OBVIOUS
  <2>2. o \in PlayerSeats
    <3>1. \E p \in PlayerSeats : advance(first, p) = s
      BY <1>2, Ring
    <3> QED
      BY <2>o, <3>1
  <2>3. u.hands[s] = {deck[k * PLAYERS + o + 1] : k \in 0 .. (h - 1)}
    BY <1>3, <2>o
  <2>4. Cardinality(u.hands[s]) = h
    BY <1>2, <2>2, <2>3, LargestHand, LayerCount
  <2> QED
    BY <1>1, <1>2, <1>5, <2>1, <2>4
<1>7. PilesCount(u)
  <2> SUFFICES ASSUME NEW s \in PlayerSeats
               PROVE  Cardinality(u.captured[s]) = PLAYERS * u.tricks_won[s]
    BY DEF PilesCount
  <2>1. u.captured[s] = {}
    BY <1>3 DEF EachSeat
  <2> QED
    BY <1>4, <2>1, FS_EmptySet, Constants
<1>8. TrickInTurn(u) /\ Len(u.trick) < PLAYERS
  BY <1>1, Constants DEF TrickInTurn
<1>9. \A c \in Cards : InOneZone(u, c)
  BY <1>1, <1>u, ZonesCount
<1> QED
  BY <1>1, <1>2, <1>3, <1>5, <1>6, <1>7, <1>8, <1>9, <1>u DEF Counted

-----------------------------------------------------------------------------
(* The inductive invariant of the rules: the table of a round is counted,  *)
(* a round that is not over has a trick to win, and a round adds at most   *)
(* 20 points and the hand size to a score.                                 *)
MaxPoints == 20 + MAX_HAND_SIZE

RoundCounted ==
    phase \in InRound =>
        /\ Counted(table)
        /\ \A s \in PlayerSeats : table.bids[s] \in NoBid .. table.hand_size
        /\ phase = "Scoring" <=> Won(table) = table.hand_size

RoundInTurn ==
    /\ phase = "Bidding" => table.trick = <<>>
    /\ phase \in {"Playing", "Scoring"} => InTurn(table)

ScoresBounded ==
    \A s \in PlayerSeats : ledger.scores[s] <= MaxPoints * ledger.round_index

RoundInv ==
    /\ phase \notin InRound => table = NoTable
    /\ RoundCounted /\ RoundInTurn /\ ScoresBounded

LEMMA RoundInit == GameInit => RoundInv
<1> SUFFICES ASSUME GameInit PROVE RoundInv
  OBVIOUS
<1>1. phase = "AwaitingDeal" /\ table = NoTable
  BY DEF GameInit
<1>2. ledger.round_index = 0 /\ ledger.scores = EachSeat(0)
  BY DEF GameInit, NewLedger
<1>3. ScoresBounded
  BY <1>2, Constants DEF ScoresBounded, EachSeat, MaxPoints
<1> QED
  BY <1>1, <1>3 DEF RoundInv, RoundCounted, RoundInTurn, InRound

LEMMA DealCounted ==
    ASSUME GameTyped, RoundInv, NEW deck \in Decks, Deal(deck)
    PROVE  RoundInv'
<1>1. /\ table' = Dealt(ledger, deck) /\ validate_card_zones(Dealt(ledger, deck))
      /\ phase = "AwaitingDeal" /\ phase' = "Bidding" /\ ledger' = ledger
      /\ ledger.round_index < round_count /\ ledger \in Ledgers
  BY DEF Deal, GameTyped
<1>2. /\ Counted(table') /\ Won(table') = 0
      /\ table'.hand_size \in 1 .. max_hand_size
  BY <1>1, DealtCounted
<1>3. table'.trick = <<>> /\ table'.bids = EachSeat(NoBid)
  BY <1>1, DealtTyped
<1>4. table'.hand_size \in Nat /\ table'.hand_size >= 1
  BY <1>2, LargestHand
<1>5. \A s \in PlayerSeats : table'.bids[s] \in NoBid .. table'.hand_size
  BY <1>3, <1>4 DEF EachSeat, NoBid
<1>6. RoundCounted'
  BY <1>1, <1>2, <1>4, <1>5 DEF RoundCounted, InRound
<1>7. RoundInTurn'
  BY <1>1, <1>3 DEF RoundInTurn
<1>8. ScoresBounded'
  BY <1>1 DEF RoundInv, ScoresBounded
<1> QED
  BY <1>1, <1>6, <1>7, <1>8 DEF RoundInv, InRound

LEMMA BidCounted ==
    ASSUME GameTyped, RoundInv, NEW player \in PlayerSeats,
           NEW tricks \in 0 .. MAX_HAND_SIZE, Bid(player, tricks)
    PROVE  RoundInv'
<1>b. PICK bids : bids = [table.bids EXCEPT ![player] = tricks]
  OBVIOUS
<1>n. PICK n : n = [table EXCEPT !.bids = bids]
  OBVIOUS
<1>1. /\ table' = IF AllBid(n)
                  THEN [n EXCEPT !.actor = left(ledger.dealer), !.leader = left(ledger.dealer)]
                  ELSE [n EXCEPT !.actor = left(table.actor)]
      /\ phase' = IF AllBid(table') THEN "Playing" ELSE "Bidding"
      /\ ledger' = ledger /\ phase = "Bidding" /\ tricks <= table.hand_size
  BY <1>b, <1>n DEF Bid, BidAccepted, AfterBid, GameTyped, Tables
<1>2. /\ table.bids \in [PlayerSeats -> Int] /\ table.hand_size \in Nat
      /\ table \in Tables
  BY DEF GameTyped, Tables
<1>3. /\ table'.hands = table.hands /\ table'.hand_size = table.hand_size
      /\ table'.trick = table.trick /\ table'.captured = table.captured
      /\ table'.tricks_won = table.tricks_won /\ table'.trump = table.trump
      /\ table'.stock = table.stock /\ table'.bids = bids
      /\ AllBid(n) => /\ table'.actor = left(ledger.dealer)
                      /\ table'.leader = left(ledger.dealer)
  BY <1>1, <1>2, <1>n DEF Tables
<1>4. AllBid(table') <=> AllBid(n)
  BY <1>2, <1>3, <1>n DEF AllBid, Tables
<1>5. /\ Counted(table) /\ table.trick = <<>>
      /\ \A s \in PlayerSeats : table.bids[s] \in NoBid .. table.hand_size
      /\ Won(table) # table.hand_size
  BY <1>1 DEF RoundInv, RoundCounted, RoundInTurn, InRound
<1>6. Won(table') = Won(table)
  BY <1>3 DEF Won, Wins
<1>7. Counted(table')
  <2>1. HandsCount(table') /\ PilesCount(table')
    BY <1>3, <1>5, <1>6 DEF Counted, HandsCount, PilesCount, HasPlayed
  <2>2. TrickInTurn(table') /\ Len(table'.trick) < PLAYERS
    BY <1>3, <1>5 DEF Counted, TrickInTurn
  <2>3. \A c \in Cards : InOneZone(table', c)
    <3>1. \A c : /\ HandsOf(table', c) = HandsOf(table, c)
                 /\ PlacesOf(table', c) = PlacesOf(table, c)
                 /\ PilesOf(table', c) = PilesOf(table, c)
      BY <1>3 DEF HandsOf, PlacesOf, PilesOf
    <3> QED
      BY <1>3, <1>5, <3>1 DEF Counted, InOneZone
  <2> QED
    BY <1>3, <1>5, <2>1, <2>2, <2>3 DEF Counted
<1>8. \A s \in PlayerSeats : table'.bids[s] \in NoBid .. table'.hand_size
  BY <1>1, <1>2, <1>3, <1>5, <1>b DEF NoBid
<1>9. RoundCounted'
  BY <1>1, <1>3, <1>5, <1>6, <1>7, <1>8 DEF RoundCounted
<1>10. RoundInTurn'
  <2>1. ledger.dealer \in PlayerSeats
    BY DEF GameTyped, Ledgers
  <2>2. advance(left(ledger.dealer), 0) = left(ledger.dealer)
    BY <2>1, SeatTypes, Ring
  <2>3. Len(table'.trick) = 0
    BY <1>3, <1>5
  <2> QED
    BY <1>1, <1>3, <1>4, <1>5, <2>2, <2>3 DEF RoundInTurn, InTurn
<1>11. ScoresBounded'
  BY <1>1 DEF RoundInv, ScoresBounded
<1> QED
  BY <1>1, <1>9, <1>10, <1>11 DEF RoundInv, InRound

LEMMA PlayCounted ==
    ASSUME GameTyped, RoundInv, NEW player \in PlayerSeats, NEW card \in Cards,
           Play(player, card)
    PROVE  RoundInv'
<1>1. /\ GameTyped' /\ PlayedOn(table, table', player, card)
      /\ ledger' = ledger /\ phase = "Playing"
      /\ phase' = IF RoundOver(table') THEN "Scoring" ELSE "Playing"
      /\ table' = AfterPlay(table, player, card)
  BY PlayTyped
<1>2. /\ player = table.actor /\ card \in table.hands[player]
      /\ table'.hand_size = table.hand_size /\ table'.bids = table.bids
  BY <1>1 DEF PlayedOn
<1>3. /\ table \in Tables /\ table' \in Tables /\ RankedTrick(table)
      /\ Counted(table) /\ InTurn(table)
      /\ \A s \in PlayerSeats : table.bids[s] \in NoBid .. table.hand_size
  BY <1>1 DEF GameTyped, RoundInv, RoundCounted, RoundInTurn, InRound
<1>4. Counted(table') /\ InTurn(table')
  BY <1>1, <1>2, <1>3, AfterPlayCounted
<1>5. RoundOver(table') <=> Won(table') = table'.hand_size
  BY <1>3, <1>4, OverWhenWon
<1>6. RoundCounted'
  BY <1>1, <1>2, <1>3, <1>4, <1>5 DEF RoundCounted
<1>7. RoundInTurn'
  BY <1>1, <1>4 DEF RoundInTurn
<1>8. ScoresBounded'
  BY <1>1 DEF RoundInv, ScoresBounded
<1> QED
  BY <1>1, <1>6, <1>7, <1>8 DEF RoundInv, InRound

LEMMA SettleCounted ==
    ASSUME GameTyped, RoundInv, SettleRound
    PROVE  RoundInv'
<1>1. /\ GameTyped' /\ phase = "Scoring" /\ table' = NoTable
      /\ ledger'.round_index = ledger.round_index + 1
      /\ phase' \in {"Finished", "AwaitingDeal"}
      /\ ledger'.scores
           = [s \in PlayerSeats |-> ledger.scores[s] + Points(table, s)]
  BY SettleTyped
<1>2. /\ table \in Tables /\ Counted(table)
      /\ table.hand_size = hand_size_for_round(ledger.round_index)
      /\ ledger.round_index \in Nat /\ ledger.round_index < round_count
      /\ ledger.scores \in [PlayerSeats -> Nat]
  BY <1>1 DEF GameTyped, RoundInv, RoundCounted, InRound, Ledgers
<1>3. table.hand_size \in Nat /\ table.hand_size <= MAX_HAND_SIZE
      /\ MAX_HAND_SIZE \in Nat
  <2>1. table.hand_size \in 1 .. max_hand_size
    BY <1>2, Schedule
  <2> QED
    BY <2>1, LargestHand, Constants
<1>4. ASSUME NEW s \in PlayerSeats PROVE Points(table, s) <= MaxPoints
  <2>1. /\ table.tricks_won[s] \in Nat /\ table.tricks_won[s] <= table.hand_size
        /\ table.bids[s] \in Int
    BY <1>2 DEF Counted, Tables
  <2>2. CASE table.tricks_won[s] = table.bids[s]
    <3>1. Points(table, s) \in {20 + table.bids[s], 10 + table.bids[s]}
      BY <2>2 DEF Points, points, Missed
    <3> QED
      BY <1>3, <2>1, <2>2, <3>1 DEF MaxPoints
  <2>3. CASE table.tricks_won[s] # table.bids[s]
    <3>1. Missed(table.bids[s], table.tricks_won[s])
      BY <2>3 DEF Missed
    <3>2. Points(table, s) = 0
      BY <3>1 DEF Points, points
    <3> QED
      BY <1>3, <3>2 DEF MaxPoints
  <2> QED
    BY <2>2, <2>3
<1>5. ScoresBounded'
  <2> SUFFICES ASSUME NEW s \in PlayerSeats
               PROVE  ledger'.scores[s] <= MaxPoints * ledger'.round_index
    BY DEF ScoresBounded
  <2>1. ledger'.scores[s] = ledger.scores[s] + Points(table, s)
    BY <1>1
  <2>2. ledger.scores[s] <= MaxPoints * ledger.round_index /\ ledger.scores[s] \in Nat
    BY <1>2 DEF RoundInv, ScoresBounded
  <2>3. /\ MaxPoints \in Nat
        /\ MaxPoints * (ledger.round_index + 1) = MaxPoints * ledger.round_index + MaxPoints
        /\ MaxPoints * ledger.round_index \in Nat
    BY <1>2, <1>3 DEF MaxPoints
  <2>4. Points(table, s) \in Nat
    BY <1>2, PointsTyped
  <2> QED
    BY <1>1, <1>4, <2>1, <2>2, <2>3, <2>4
<1>6. RoundCounted' /\ RoundInTurn'
  BY <1>1 DEF RoundCounted, RoundInTurn, InRound
<1> QED
  BY <1>1, <1>5, <1>6 DEF RoundInv

LEMMA RulesHold == AuditSpec => [](GameTyped /\ RoundInv)
<1>1. AuditInit => RoundInv
  BY RoundInit DEF AuditInit
<1>2. GameTyped /\ RoundInv /\ [AuditNext]_avars => RoundInv'
  <2> SUFFICES ASSUME GameTyped, RoundInv, [GameNext]_gvars PROVE RoundInv'
    BY AuditStepsGame
  <2>1. CASE GameNext
    BY <2>1, DealCounted, BidCounted, PlayCounted, SettleCounted DEF GameNext
  <2>2. CASE UNCHANGED gvars
    BY <2>2 DEF gvars, RoundInv, RoundCounted, RoundInTurn, ScoresBounded
  <2> QED
    BY <2>1, <2>2
<1> QED
  BY <1>1, <1>2, GameTypedHolds, PTL DEF AuditSpec

(* The state of the rules is well formed and the tricks are accounted for, *)
(* for every table size, deck and schedule (play_card, complete_trick,     *)
(* settle_round).                                                          *)
THEOREM TricksAreAccounted == AuditSpec => []GameInv
<1>1. GameTyped /\ RoundInv => GameTypeOK
  <2> SUFFICES ASSUME GameTyped, RoundInv PROVE GameTypeOK
    OBVIOUS
  <2>1. /\ phase \in {"AwaitingDeal", "Bidding", "Playing", "Scoring", "Finished"}
        /\ ledger \in Ledgers /\ table \in Tables
        /\ ledger.round_index <= round_count
        /\ phase # "Finished" => ledger.round_index < round_count
    BY DEF GameTyped, InRound
  <2>2. /\ ledger.dealer \in PlayerSeats /\ ledger.round_index \in Nat
        /\ table.actor \in PlayerSeats /\ table.leader \in PlayerSeats
        /\ ledger.scores \in [PlayerSeats -> Nat]
        /\ table.hands \in [PlayerSeats -> SUBSET Cards]
        /\ round_count \in Nat
    BY <2>1, LargestHand, SMTT(30) DEF Ledgers, Tables, round_count
  <2>3. ledger.scores \in [PlayerSeats -> 0 .. (20 + MAX_HAND_SIZE) * round_count]
    <3>1. ASSUME NEW s \in PlayerSeats
          PROVE  ledger.scores[s] <= (20 + MAX_HAND_SIZE) * round_count
      <4>1. MaxPoints \in Nat
        BY Constants DEF MaxPoints
      <4>2. ledger.round_index * MaxPoints <= round_count * MaxPoints
        BY <2>1, <2>2, <4>1, Multiples
      <4>3. ledger.scores[s] <= MaxPoints * ledger.round_index
        BY DEF RoundInv, ScoresBounded
      <4>4. /\ MaxPoints * ledger.round_index = ledger.round_index * MaxPoints
            /\ (20 + MAX_HAND_SIZE) * round_count = round_count * MaxPoints
            /\ round_count * MaxPoints \in Nat /\ ledger.round_index * MaxPoints \in Nat
        BY <2>2, <4>1, Constants DEF MaxPoints
      <4> QED
        BY <2>2, <4>2, <4>3, <4>4
    <3>2. (20 + MAX_HAND_SIZE) * round_count \in Nat
      BY <2>2, Constants
    <3> QED
      BY <2>2, <3>1, <3>2
  <2>4. ASSUME NEW s \in PlayerSeats
        PROVE  /\ Cardinality(table.hands[s]) <= table.hand_size
               /\ table.bids[s] \in NoBid .. table.hand_size
    <3>1. CASE phase \in InRound
      <4>1. Counted(table) /\ table.bids[s] \in NoBid .. table.hand_size
        BY <3>1 DEF RoundInv, RoundCounted
      <4>2. Won(table) \in Nat /\ table.hand_size \in Nat
        BY <2>1, <4>1, WinsCount DEF Counted, Tables
      <4>3. Cardinality(table.hands[s])
              = table.hand_size - Won(table) - (IF HasPlayed(table, s) THEN 1 ELSE 0)
        BY <4>1 DEF Counted, HandsCount
      <4> QED
        BY <4>1, <4>2, <4>3
    <3>2. CASE phase \notin InRound
      <4>1. table = NoTable
        BY <3>2 DEF RoundInv
      <4>2. /\ table.hands[s] = {} /\ table.bids[s] = NoBid /\ table.hand_size = 0
        BY <4>1 DEF NoTable, EachSeat
      <4> QED
        BY <4>2, FS_EmptySet DEF NoBid
    <3> QED
      BY <3>1, <3>2
  <2> QED
    BY <2>1, <2>2, <2>3, <2>4 DEF GameTypeOK
<1>2. GameTyped /\ RoundInv => TricksAccount
  <2> SUFFICES ASSUME GameTyped, RoundInv, phase \in {"Playing", "Scoring"}
               PROVE  TricksAccount
    BY DEF TricksAccount
  <2>1. /\ Counted(table) /\ InTurn(table)
        /\ phase = "Scoring" <=> Won(table) = table.hand_size
    BY DEF RoundInv, RoundCounted, RoundInTurn, InRound
  <2>2. Won(table) = Cardinality({w \in PlayerSeats \X (1 .. table.hand_size) :
                                     w[2] <= table.tricks_won[w[1]]})
    BY DEF Won, Wins
  <2>3. \A s \in PlayerSeats :
            /\ Cardinality(table.captured[s]) = PLAYERS * table.tricks_won[s]
            /\ Cardinality(table.hands[s])
                 = table.hand_size - Won(table)
                     - (IF \E i \in DOMAIN table.trick : table.trick[i].player = s
                        THEN 1 ELSE 0)
    BY <2>1 DEF Counted, HandsCount, PilesCount, HasPlayed
  <2> QED
    BY <2>1, <2>2, <2>3 DEF TricksAccount, InTurn
<1> QED
  BY <1>1, <1>2, RulesHold, PTL DEF GameInv

(* The moves the rules offer are the moves they accept, and the player     *)
(* whose turn it is always has one: the check of the card zones after a    *)
(* play refuses nothing (legal_player_actions, transition).                *)
THEOREM LegalMovesAccepted == AuditSpec => []LegalIsAccepted
<1>1. GameTyped /\ RoundInv => LegalIsAccepted
  <2> SUFFICES ASSUME GameTyped, RoundInv PROVE LegalIsAccepted
    OBVIOUS
  <2>1. ASSUME phase = "Bidding"
        PROVE  {n \in 0 .. MAX_HAND_SIZE : BidAccepted(table, table.actor, n)}
                 = legal_bids(table)
    <3>1. table.hand_size \in 1 .. max_hand_size
      <4>1. /\ table.hand_size = hand_size_for_round(ledger.round_index)
            /\ ledger.round_index \in Nat /\ ledger.round_index < round_count
        BY <2>1 DEF GameTyped, InRound, Ledgers
      <4> QED
        BY <4>1, Schedule
    <3>2. table.hand_size \in Nat /\ table.hand_size <= MAX_HAND_SIZE
      BY <3>1, LargestHand, Constants
    <3> QED
      BY <3>2, Constants DEF BidAccepted, legal_bids
  <2>2. ASSUME phase = "Playing"
        PROVE  /\ legal_card_actions(table) # {}
               /\ {c \in Cards : play_card(table, table.actor, c) # {}}
                    = legal_card_actions(table)
    <3>1. /\ table \in Tables /\ Counted(table) /\ InTurn(table)
          /\ Won(table) # table.hand_size /\ RankedTrick(table)
          /\ table.hands[table.actor] \subseteq Cards
      BY <2>2 DEF GameTyped, RoundInv, RoundCounted, RoundInTurn, InRound, Tables
    <3>2. table.hands[table.actor] # {}
      <4>1. Cardinality(table.hands[table.actor]) = table.hand_size - Won(table)
        BY <3>1, OverWhenWon
      <4>2. Won(table) \in Nat /\ table.hand_size \in Nat
        BY <3>1, WinsCount DEF Counted, Tables
      <4>3. Cardinality(table.hands[table.actor]) # 0
        BY <3>1, <4>1, <4>2
      <4> QED
        BY <4>3, FS_EmptySet
    <3>3. legal_card_actions(table) # {}
      <4>1. CASE MustFollow(table, table.actor)
        BY <4>1 DEF MustFollow, contains_suit, legal_card_actions
      <4>2. CASE ~MustFollow(table, table.actor)
        BY <3>2, <4>2 DEF legal_card_actions, MustFollow
      <4> QED
        BY <4>1, <4>2
    <3>4. ASSUME NEW c \in legal_card_actions(table)
          PROVE  c \in Cards /\ play_card(table, table.actor, c) # {}
      <4>1. /\ c \in table.hands[table.actor]
            /\ MustFollow(table, table.actor) => c.suit = table.trick[1].card.suit
        BY <3>4 DEF legal_card_actions, MustFollow
      <4>2. validate_card_zones(AfterPlay(table, table.actor, c))
        BY <3>1, <4>1, AfterPlayCounted
      <4>3. AfterPlay(table, table.actor, c) \in play_card(table, table.actor, c)
        BY <4>1, <4>2 DEF play_card
      <4> QED
        BY <3>1, <4>1, <4>3
    <3>5. ASSUME NEW c \in Cards, play_card(table, table.actor, c) # {}
          PROVE  c \in legal_card_actions(table)
      BY <3>5 DEF play_card, legal_card_actions, MustFollow
    <3> QED
      BY <3>3, <3>4, <3>5
  <2> QED
    BY <2>1, <2>2 DEF LegalIsAccepted
<1> QED
  BY <1>1, RulesHold, PTL

(* Whoever closes a trick, and whatever legal card they close it with, the *)
(* owner of the highest trump wins it, or else of the highest card of the  *)
(* led suit: the ordering by category and rank that the code takes the     *)
(* last maximum of has one maximum (winner_from_plays).                    *)
THEOREM HighestCardWins == AuditSpec => []WinnerIsHighest
<1>1. ASSUME NEW t \in Tables, Len(t.trick) # 0, \A c \in Cards : InOneZone(t, c),
             \E i : Highest(t.trump.suit, t.trick, i)
      PROVE  Winner(t) = HighestTrumpElseLead(t.trump.suit, t.trick)
  <2>p. PICK plays : plays = t.trick
    OBVIOUS
  <2>t. PICK trump : trump = t.trump.suit
    OBVIOUS
  <2>l. PICK lead : lead = plays[1].card.suit
    OBVIOUS
  <2>1. /\ plays \in Seq(CardPlays) /\ 1 \in DOMAIN plays
        /\ \A i \in DOMAIN plays : plays[i].card \in Cards
    BY <1>1, <2>p, TrickDomain
  <2>2. PICK i : Highest(trump, plays, i) /\ Winner(t) = plays[i].player
    BY <1>1, <2>1, <2>p, <2>t, WinnerPlayed DEF Winner
  <2>3. ASSUME NEW j \in DOMAIN plays, NEW k \in DOMAIN plays,
               plays[j].card.suit = plays[k].card.suit,
               plays[j].card.rank = plays[k].card.rank
        PROVE  j = k
    <3>1. plays[j].card = plays[k].card
      BY <2>1, <2>3 DEF Cards
    <3>2. plays[j].card \in Cards
      BY <2>1
    <3>3. Single(PlacesOf(t, plays[j].card))
      BY <1>1, <3>2 DEF InOneZone
    <3> QED
      BY <2>p, <3>1, <3>3 DEF Single, PlacesOf
  <2> DEFINE Of(s) == {j \in DOMAIN plays : plays[j].card.suit = s}
  <2>s. PICK suit : suit = IF Of(trump) # {} THEN trump ELSE lead
    OBVIOUS
  <2>4. HighestTrumpElseLead(trump, plays)
          = plays[CHOOSE j \in Of(suit) : \A k \in Of(suit) :
                     plays[j].card.rank >= plays[k].card.rank].player
    BY <2>l, <2>s DEF HighestTrumpElseLead
  <2>5. /\ i \in DOMAIN plays
        /\ \A j \in DOMAIN plays : Beats(trump, lead, plays[i].card, plays[j].card)
    BY <2>2, <2>l DEF Highest
  <2>6. \A j \in DOMAIN plays : plays[j].card.rank \in Nat
    BY <2>1, GameAssumption DEF GameAssumption, Cards
  <2>7. i \in Of(suit) /\ \A k \in Of(suit) : plays[i].card.rank >= plays[k].card.rank
    <3>1. CASE Of(trump) # {}
      <4>1. PICK j \in DOMAIN plays : plays[j].card.suit = trump
        BY <3>1
      <4>2. Beats(trump, lead, plays[i].card, plays[j].card)
        BY <2>5
      <4>3. plays[i].card.suit = trump
        BY <4>1, <4>2 DEF Beats, Category
      <4>4. \A k \in Of(trump) : plays[i].card.rank >= plays[k].card.rank
        BY <2>5, <4>3 DEF Beats, Category
      <4> QED
        BY <2>5, <2>s, <3>1, <4>3, <4>4
    <3>2. CASE Of(trump) = {}
      <4>1. \A k \in DOMAIN plays : plays[k].card.suit # trump
        BY <3>2
      <4>2. Beats(trump, lead, plays[i].card, plays[1].card)
        BY <2>1, <2>5
      <4>3. plays[i].card.suit = lead
        BY <2>1, <2>5, <2>l, <4>1, <4>2 DEF Beats, Category
      <4>4. \A k \in Of(lead) : plays[i].card.rank >= plays[k].card.rank
        BY <2>5, <4>1, <4>3 DEF Beats, Category
      <4> QED
        BY <2>5, <2>s, <3>2, <4>3, <4>4
    <3> QED
      BY <3>1, <3>2
  <2>8. ASSUME NEW j \in Of(suit),
               \A k \in Of(suit) : plays[j].card.rank >= plays[k].card.rank
        PROVE  j = i
    <3>1. plays[j].card.rank >= plays[i].card.rank
      BY <2>7, <2>8
    <3>2. plays[i].card.rank >= plays[j].card.rank
      BY <2>7
    <3>3. plays[j].card.rank = plays[i].card.rank
      BY <2>6, <2>7, <3>1, <3>2
    <3>4. plays[j].card.suit = plays[i].card.suit
      BY <2>7
    <3> QED
      BY <2>3, <2>5, <3>3, <3>4
  <2>9. (CHOOSE j \in Of(suit) : \A k \in Of(suit) :
            plays[j].card.rank >= plays[k].card.rank) = i
    <3> HIDE DEF Of
    <3> QED
      BY <2>7, <2>8
  <2> QED
    BY <2>2, <2>4, <2>9, <2>p, <2>t
<1>2. GameTyped /\ RoundInv => WinnerIsHighest
  <2> SUFFICES ASSUME GameTyped, RoundInv, phase = "Playing",
                      Len(table.trick) = PLAYERS - 1,
                      NEW card \in legal_card_actions(table)
               PROVE  AfterPlay(table, table.actor, card).actor
                        = HighestTrumpElseLead(table.trump.suit,
                            Append(table.trick, [player |-> table.actor, card |-> card]))
    BY DEF WinnerIsHighest
  <2>1. /\ table \in Tables /\ Counted(table) /\ InTurn(table) /\ RankedTrick(table)
        /\ card \in table.hands[table.actor] /\ table.actor \in PlayerSeats
        /\ card \in Cards
    BY DEF GameTyped, RoundInv, RoundCounted, RoundInTurn, InRound, Tables,
       legal_card_actions
  <2>n. PICK n : n = Laid(table, table.actor, card)
    OBVIOUS
  <2>2. /\ n \in Tables /\ \A c \in Cards : InOneZone(n, c)
    BY <2>1, <2>n, LaidCounted
  <2>p. PICK play : play = [player |-> table.actor, card |-> card]
    OBVIOUS
  <2>3. n.trump = table.trump /\ n.trick = Append(table.trick, play)
    BY <2>1, <2>n, <2>p DEF Laid, Tables
  <2>4. play \in CardPlays /\ table.trick \in Seq(CardPlays)
    BY <2>1, <2>p DEF CardPlays, Tables
  <2>5. Len(n.trick) = PLAYERS /\ Len(n.trick) # 0
    BY <2>3, <2>4, Constants
  <2>6. \E i : Highest(n.trump.suit, n.trick, i)
    <3>1. table.trick # <<>> => \E i : Highest(table.trump.suit, table.trick, i)
      BY <2>1 DEF RankedTrick
    <3> QED
      BY <2>3, <2>4, <3>1, HighestGoesOn
  <2>7. AfterPlay(table, table.actor, card) = Collected(n)
    BY <2>1, <2>5, <2>n, PlayLays
  <2>8. Collected(n).actor = Winner(n)
    BY <2>2, <2>6, CollectedTyped
  <2>9. Winner(n) = HighestTrumpElseLead(n.trump.suit, n.trick)
    BY <1>1, <2>2, <2>5, <2>6
  <2> QED
    BY <2>3, <2>7, <2>8, <2>9, <2>p
<1> QED
  BY <1>2, RulesHold, PTL
=============================================================================
