----------------------------- MODULE GameAudit -----------------------------
(***************************************************************************)
(* A table that records its plays: every accepted play enters the audit    *)
(* with its led suit, and so does a card that its holder tries to play and *)
(* the rules refuse.  Any detector may audit or accuse at any time, and a  *)
(* hand may be disclosed.                                                  *)
(***************************************************************************)
EXTENDS Game, Retrospective

CONSTANTS
    Detectors,
    Accusations,        \* accusation identifiers
    AuditedRounds,      \* the rounds a table that keeps an audit records
    MaxAttempts, MaxDisclosures

VARIABLES
    recording,          \* the rounds this table records
    held                \* history: {<<sequence, hand>>} when a card was played

avars == <<phase, ledger, table, audit, recording, held>>

AuditInit ==
    /\ GameInit
    /\ audit = EmptyAudit
    /\ recording \in {{}, AuditedRounds}
    /\ held = {}

Recording == ledger.round_index \in recording

LedSuit == IF table.trick = <<>> THEN NoSuit ELSE table.trick[1].card.suit

Recorded(player, card, disposition, known) ==
    [sequence |-> LastSequence + 1, round |-> ledger.round_index,
     actor |-> player, disposition |-> disposition, card |-> card,
     led |-> LedSuit, known |-> known]

Record(player, card, disposition) ==
    /\ \E known \in {{}, table.hands[player]} :
          append_action(Recorded(player, card, disposition, known))
    /\ held' = held \cup {<<LastSequence + 1, table.hands[player]>>}
    /\ UNCHANGED recording

(* A step of a game that is not recorded, or that plays no card.           *)
Unrecorded ==
    /\ GameNext
    /\ Recording => phase # "Playing"
    /\ UNCHANGED <<audit, recording, held>>

RecordedPlay(player, card) ==
    /\ Recording /\ Play(player, card)
    /\ Record(player, card, "Accepted")

Attempts == {a \in audit.actions : a.disposition = "Attempted"}

Attempt(player, card) ==
    /\ Recording /\ phase = "Playing" /\ Cardinality(Attempts) < MaxAttempts
    /\ player = table.actor /\ card \in table.hands[player]
    /\ play_card(table, player, card) = {}
    /\ Record(player, card, "Attempted")
    /\ UNCHANGED gvars

Disclose(player) ==
    /\ Recording /\ phase = "Playing"
    /\ Cardinality(audit.disclosures) < MaxDisclosures
    /\ append_disclosure([sequence |-> LastSequence + 1, player |-> player,
                          round |-> ledger.round_index, hand |-> table.hands[player]])
    /\ UNCHANGED <<phase, ledger, table, recording, held>>

Investigate(detector) ==
    /\ Recording /\ Audit(detector)
    /\ UNCHANGED <<phase, ledger, table, recording, held>>

BringAccusation(id, detector, sequence) ==
    /\ Recording /\ Accuse(id, detector, sequence)
    /\ UNCHANGED <<phase, ledger, table, recording, held>>

AuditNext ==
    \/ Unrecorded
    \/ \E player \in PlayerSeats, card \in Cards :
          RecordedPlay(player, card) \/ Attempt(player, card)
    \/ \E player \in PlayerSeats : Disclose(player)
    \/ \E detector \in Detectors : Investigate(detector)
    \/ \E id \in Accusations, detector \in Detectors,
          sequence \in 1 .. LastSequence + 1 : BringAccusation(id, detector, sequence)

(* The owner of the turn acts in the end; deals and settlements are        *)
(* automatic.                                                              *)
AuditSpec == AuditInit /\ [][AuditNext]_avars /\ WF_avars(Unrecorded)

-----------------------------------------------------------------------------
(* Properties.                                                             *)

Revoke(action) ==
    /\ OffSuit(action)
    /\ \E h \in held : h[1] = action.sequence /\ Suited(h[2], action.led) # {}

ActionOf(sequence) == CHOOSE a \in audit.actions : a.sequence = sequence

(* Soundness: a finding, from whatever evidence and in whatever order it   *)
(* came, is about a card played off suit by somebody who held the suit     *)
(* (follow_suit_finding).                                                  *)
FindingsAreRevokes == \A f \in audit.findings : Revoke(ActionOf(f.action))

(* Completeness: once the round is over the audit can prove every revoke,  *)
(* attempted or accepted, even if no hand was known and none disclosed:    *)
(* the card that should have followed has been played since.               *)
RevokesAreFound ==
    phase = "Scoring" =>
        \A a \in audit.actions : \A d \in Detectors :
            Revoke(a) => Found(audited(audit, d), a)

(* The strict game lets no revoke through: no accepted play is ever found  *)
(* guilty (play_card and follow_suit_finding agree on the rule).           *)
StrictPlayIsClean ==
    \A f \in audit.findings : ActionOf(f.action).disposition = "Attempted"

(* An offending action has one finding, the first that could be proved:    *)
(* a second detector with other evidence does not replace or repeat it,    *)
(* and a confirmed accusation keeps its finding (audit, accuse).           *)
OneFindingPerAction ==
    /\ \A f, o \in audit.findings : f.action = o.action => f = o
    /\ \A record \in audit.accusations : record.outcome = "Confirmed"
          => \E f \in audit.findings : f.action = record.action

(* Every game of a table without an audit comes to its end (a recorded one *)
(* is cut off after a round by its instance).                              *)
GameFinishes == recording = {} => <>(phase = "Finished")
=============================================================================
