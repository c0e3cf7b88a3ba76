-------------------------- MODULE TrustlessRound --------------------------
(***************************************************************************)
(* A trustless round (poche-runtime trustless.rs, TrustlessRoundState):    *)
(* the stages of a hand dealt without a dealer, the abort when a player's  *)
(* contribution is missing, and the recovery that governance authorizes.   *)
(*                                                                         *)
(* The round owns its governance: it is driven by submit_governance and    *)
(* record_failure only, so nobody reconnects and no tick passes but with a *)
(* command.  A transcript head is left out: repeating a stage replaces it  *)
(* and nothing else.  Of the evidence the fields that tell two aborts      *)
(* apart are kept.  Every submit adds at most one effect.                  *)
(***************************************************************************)
EXTENDS Governance

CONSTANTS
    FirstStage,     \* the stage a modelled round starts in, 1 in the code
    Causes          \* the causes of failure that players report

VARIABLE round

rvars == <<gov, round>>

Stages == <<"KeySetup", "Shuffling", "PrivateDeal", "Holding", "PublicPlay",
            "FinalDisclosure", "Complete">>

(* DropoutPoint::stage.                                                    *)
StageOf ==
    [BeforeShuffleContribution |-> "Shuffling",
     AfterShuffleContribution |-> "Shuffling",
     DuringPrivateDeal |-> "PrivateDeal",
     WhileHoldingCards |-> "Holding",
     BeforeFinalDisclosure |-> "FinalDisclosure"]

ASSUME RoundAssumption ==
    /\ FirstStage \in DOMAIN Stages
    /\ Causes \subseteq {"Disconnected", "UnavailableShare", "InvalidProof"}

Aborts == [point : DOMAIN StageOf, subject : Members, cause : Causes,
           tick : 0 .. MaxTick]

(* No round: governance of a room by itself.                               *)
NoRound == [phase |-> "NoRound", stage |-> 0, abort |-> None, redeal_epoch |-> 0,
            reconciled |-> 0, events |-> <<>>]
NewRound == [NoRound EXCEPT !.phase = "Active", !.stage = FirstStage]

RoundInit == GovInit /\ round = NewRound

-----------------------------------------------------------------------------
(* The stages.                                                             *)

Advance ==
    /\ round.phase = "Active"
    /\ round.stage + 1 \in DOMAIN Stages
    /\ round' = [round EXCEPT !.stage = @ + 1]
    /\ UNCHANGED gov

(* Mutant: a second report replaces the first. *)
MayAbort_again(abort) ==
    /\ round.phase \in {"Active", "RecoveryPending"}
    /\ Stages[round.stage] = StageOf[abort.point]

(* The same evidence again is answered and changes nothing; other evidence *)
(* after the abort is an error.                                            *)
MayAbort(abort) ==
    /\ round.phase = "Active"
    /\ Stages[round.stage] = StageOf[abort.point]

(* A subject that governance kicked cannot be disconnected: the call fails *)
(* with nothing recorded.                                                  *)
RecordFailure(abort) ==
    /\ MayAbort(abort)
    /\ abort.cause = "Disconnected" => abort.subject \notin gov.kicked
    /\ gov' = IF abort.cause = "Disconnected"
              THEN [gov EXCEPT !.connected = @ \ {abort.subject}] ELSE gov
    /\ round' = [round EXCEPT
                    !.phase = "RecoveryPending", !.abort = abort,
                    !.events = Append(@, [kind |-> "AbortRecorded",
                                          abort |-> abort])]

-----------------------------------------------------------------------------
(* Recovery.                                                               *)

(* One effect against the phase.  After the round's recovery is decided    *)
(* the code answers with an error, though governance has committed.        *)
Reconciled(r, g, action) ==
    IF r.phase # "RecoveryPending" THEN r
    ELSE CASE action.kind = "Kick" ->
                [r EXCEPT !.events = Append(@, [kind |-> "PlayerKicked",
                                                player |-> action.target])]
           [] action.kind = "Redeal" ->
                [r EXCEPT !.phase = "RedealRequired",
                          !.redeal_epoch = g.redeal_epoch,
                          !.events = Append(@, [kind |-> "RedealRequired",
                                                epoch |-> g.redeal_epoch])]
           [] action.kind = "EndGame" ->
                [r EXCEPT !.phase = "Ended",
                          !.events = Append(@, [kind |-> "GameEnded"])]
           [] OTHER -> r

NewEffects(r, g) == SubSeq(g.effects, r.reconciled + 1, Len(g.effects))

AfterEffects(r, g) ==
    LET new == NewEffects(r, g)
        after[i \in 0 .. Len(new)] ==
            IF i = 0 THEN r ELSE Reconciled(after[i - 1], g, new[i].action)
    IN  after[Len(new)]

(* Mutant: effects of an active round are kept for a later abort. *)
reconcile_effects_late(r, g) ==
    IF r.phase = "Active" THEN r
    ELSE [AfterEffects(r, g) EXCEPT !.reconciled = Len(g.effects)]

reconcile_effects(r, g) ==
    [AfterEffects(r, g) EXCEPT !.reconciled = Len(g.effects)]

SubmitGovernance(inv) ==
    /\ Submit(inv)
    /\ round' = reconcile_effects(round, gov')

RoundNext ==
    \/ Advance
    \/ \E abort \in Aborts : RecordFailure(abort)
    \/ \E inv \in Invocations : SubmitGovernance(inv)

RoundSpec == RoundInit /\ [][RoundNext]_rvars

-----------------------------------------------------------------------------
(* Properties.                                                             *)

Remedy == [Redeal |-> "RedealRequired", EndGame |-> "Ended"]

(* The abort is resolved exactly by a redeal or an end of the game that    *)
(* governance commits in that step, by the first one: a remedy approved    *)
(* before the abort does not resolve it, and none approved after it is     *)
(* lost (reconcile_effects).                                               *)
RemedyFollowsAbort ==
    [][round.phase = "RecoveryPending" =>
          LET new == SubSeq(gov'.effects, Len(gov.effects) + 1, Len(gov'.effects))
              remedies == {i \in DOMAIN new : new[i].action.kind \in DOMAIN Remedy}
              first == CHOOSE i \in remedies : \A j \in remedies : i <= j
          IN  round'.phase = IF remedies = {} THEN "RecoveryPending"
                             ELSE Remedy[new[first].action.kind]]_rvars

(* An abort is final: the hand never becomes active again, its evidence is *)
(* never replaced, and a decided recovery is never decided otherwise       *)
(* (advance, record_failure).                                              *)
AbortIsFinal ==
    [][/\ round.abort # None => round'.abort = round.abort
                                /\ round'.phase # "Active"
       /\ round.phase \in {"RedealRequired", "Ended"}
              => round'.phase = round.phase
                 /\ round'.redeal_epoch = round.redeal_epoch]_rvars
=============================================================================
