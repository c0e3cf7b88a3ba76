------------------------------ MODULE MCGame ------------------------------
(* Small instances of GameAudit for TLC. *)
EXTENDS GameAudit

CONSTANTS x, y

(* Two players and six cards: hands of 1, 2 and 1 cards.  The deck orders  *)
(* are the rotations of three: hands of one suit each, hands of both       *)
(* suits, and one in between.                                              *)
C(suit, rank) == [suit |-> suit, rank |-> rank]
Orders ==
    {<<C(x, 1), C(y, 1), C(x, 2), C(y, 2), C(x, 3), C(y, 3)>>,
     <<C(x, 1), C(x, 2), C(y, 1), C(y, 2), C(x, 3), C(y, 3)>>,
     <<C(y, 3), C(x, 1), C(y, 1), C(x, 3), C(x, 2), C(y, 2)>>}
MCDecks ==
    {[i \in 1 .. DECK_SIZE |-> order[((i + k) % DECK_SIZE) + 1]] :
        order \in Orders, k \in 1 .. DECK_SIZE}

(* An audited game has few trumps and one way to bid in each round and ends *)
(* with the second; what a detector knew of a hand matters for attempts,   *)
(* and one detector brings the accusations.                                *)
Narrow ==
    recording # {} =>
        /\ ledger'.round_index <= 1
        /\ table'.trump \in {NoCard, C(x, 3)} \cup
              (IF ledger'.round_index = 1 THEN {C(x, 1), C(x, 2)} ELSE {})
        /\ \A s \in PlayerSeats : table'.bids[s] \in {NoBid, ledger'.round_index}
        /\ \A a \in audit'.actions : a.disposition = "Accepted" => a.known = {}
        /\ \A a \in audit'.accusations : a.detector = 1

MCInit == AuditInit /\ (recording # {} => ledger.dealer = 0)
MCNext == AuditNext /\ Narrow
MCSpec == MCInit /\ [][MCNext]_avars /\ WF_avars(Unrecorded)
=============================================================================
