--------------------------- MODULE Retrospective ---------------------------
(***************************************************************************)
(* The retrospective audit of poche-session (retrospective.rs): a history  *)
(* of played and attempted cards and of disclosed hands, from which the    *)
(* audit derives findings against the follow-suit rule.                    *)
(*                                                                         *)
(* An event identifier is its sequence number, a finding identifier the    *)
(* sequence of the offending action.  Bids are left out: no rule looks at  *)
(* them.                                                                   *)
(***************************************************************************)
EXTENDS Integers, FiniteSets, FiniteSetsExt

CONSTANTS NoSuit    \* None of led_suit

VARIABLE audit      \* RetrospectiveAudit

EmptyAudit == [actions |-> {}, disclosures |-> {}, findings |-> {}, accusations |-> {}]

LastSequence == Max({0} \cup {a.sequence : a \in audit.actions}
                        \cup {d.sequence : d \in audit.disclosures})

First(events) == CHOOSE e \in events : \A o \in events : e.sequence <= o.sequence

Suited(cards, suit) == {c \in cards : c.suit = suit}

(* The later plays of the actor in the round, and the later disclosures of *)
(* the actor's hand, that show a card of the led suit.                     *)
LaterPlays(a, action) ==
    {p \in a.actions : /\ p.sequence > action.sequence
                       /\ p.round = action.round /\ p.actor = action.actor
                       /\ p.card.suit = action.led}

LaterDisclosures(a, action) ==
    {d \in a.disclosures : /\ d.sequence > action.sequence
                           /\ d.round = action.round /\ d.player = action.actor
                           /\ Suited(d.hand, action.led) # {}}

OffSuit(action) == action.led # NoSuit /\ action.card.suit # action.led

Immediate(action) == Suited(action.known, action.led) # {}

(* The evidence that counts: what the detector knew, or else the earliest  *)
(* later event.                                                            *)
Evidence(a, action) ==
    LET play == First(LaterPlays(a, action))
        disclosure == First(LaterDisclosures(a, action))
    IN  IF Immediate(action)
        THEN [at |-> action.sequence, confidence |-> "ImmediateHeldCard"]
        ELSE IF LaterPlays(a, action) # {}
                /\ (LaterDisclosures(a, action) # {}
                       => play.sequence <= disclosure.sequence)
        THEN [at |-> play.sequence, confidence |-> "DelayedPublicPlay"]
        ELSE [at |-> disclosure.sequence, confidence |-> "RoundEndDisclosure"]

Finding(a, action, detector) ==
    [action |-> action.sequence, evidence |-> Evidence(a, action), detector |-> detector]

(* Mutant: any later card of the led suit counts, whoever played it. *)
follow_suit_finding_anyone(a, action, detector) ==
    IF OffSuit(action) /\ \E p \in a.actions :
          p.sequence > action.sequence /\ p.card.suit = action.led
    THEN {[action |-> action.sequence,
           evidence |-> [at |-> action.sequence, confidence |-> "DelayedPublicPlay"],
           detector |-> detector]}
    ELSE {}

(* Mutant: only later leads are looked at. *)
follow_suit_finding_leads(a, action, detector) ==
    IF OffSuit(action) /\ (Immediate(action)
          \/ \E p \in LaterPlays(a, action) : p.led = NoSuit)
    THEN {Finding(a, action, detector)} ELSE {}

follow_suit_finding(a, action, detector) ==
    IF OffSuit(action) /\ (Immediate(action) \/ LaterPlays(a, action) # {}
                           \/ LaterDisclosures(a, action) # {})
    THEN {Finding(a, action, detector)} ELSE {}

Found(a, action) == \E f \in a.findings : f.action = action.sequence

(* Mutant: findings already made are made again. *)
audited_again(a, detector) ==
    [a EXCEPT !.findings = @ \cup UNION
        {follow_suit_finding(a, action, detector) : action \in a.actions}]

audited(a, detector) ==
    [a EXCEPT !.findings = @ \cup UNION
        {follow_suit_finding(a, action, detector) :
            action \in {o \in a.actions : ~Found(a, o)}}]

Outcome(a, sequence) ==
    IF \E f \in a.findings : f.action = sequence THEN "Confirmed"
    ELSE IF ~\E o \in a.actions : o.sequence = sequence THEN "UnknownAction"
    ELSE IF \E o \in a.actions : o.sequence = sequence /\ OffSuit(o)
    THEN "InsufficientEvidence" ELSE "ActionNotViolation"

-----------------------------------------------------------------------------
append_action(action) ==
    /\ action.sequence > LastSequence
    /\ audit' = [audit EXCEPT !.actions = @ \cup {action}]

append_disclosure(disclosure) ==
    /\ disclosure.sequence > LastSequence
    /\ audit' = [audit EXCEPT !.disclosures = @ \cup {disclosure}]

Audit(detector) == audit' = audited(audit, detector)

(* accuse: a repeated identifier replays its outcome, or is refused.       *)
Accuse(id, detector, sequence) ==
    LET a == audited(audit, detector)
    IN  /\ \A record \in audit.accusations : record.id # id
        /\ audit' = [a EXCEPT !.accusations = @ \cup
               {[id |-> id, detector |-> detector, action |-> sequence,
                 outcome |-> Outcome(a, sequence)]}]
=============================================================================
