---------------------------- MODULE Governance ----------------------------
(***************************************************************************)
(* The governance overlay of poche-session (governance.rs): proposals,     *)
(* visible votes, unilateral capabilities, deadlines in logical time, and  *)
(* the effects they authorize.                                             *)
(*                                                                         *)
(* The fields of struct GovernanceState are the fields of the record gov.  *)
(* submit(g, inv) is the SET of states the code may commit: empty when it  *)
(* returns an error, which rolls everything back, and otherwise one state. *)
(* A command is named by its identifier; a proposal and an effect take     *)
(* their identifiers from the command or proposal that made them.  Of an   *)
(* eligibility record the reason of exclusion is left out, of a score its  *)
(* amount: a score changes by one per amendment.                           *)
(***************************************************************************)
EXTENDS Integers, Sequences, FiniteSets

CONSTANTS
    Members,        \* the roster given to GovernanceState::new
    Actions,        \* governed actions that clients name
    CommandIds,
    Bootstrap,      \* initial capabilities a room may give
    Findings,       \* confirmed findings of the audit: {<<finding, actor>>}
    VOTE_DURATION,  \* vote_duration_ticks
    MaxTick,        \* u64::MAX: checked_add fails beyond it
    None

Capabilities == {"AdjustScore", "ChangeRights", "ResolveRecovery"}

GovernedActions ==
    [kind : {"AdjustScore", "Kick"}, target : Members]
    \cup [kind : {"ChangeRights"}, target : Members,
          capability : Capabilities, change : {"Grant", "Revoke"}]
    \cup [kind : {"Redeal", "EndGame", "Delegated"}]

VoteChoices == {"Approve", "Reject", "Abstain"}
Statuses == {"Absent", "Pending", "Approved", "MajorityRejected",
             "AllVotesNoMajority", "DeadlineNoMajority"}

VARIABLE gov

(* A command that names a governed action, and one that votes on the       *)
(* proposal of another command.                                            *)
GovernanceCommands ==
    [kind : {"Execute", "StartVote"}, action : Actions]
    \cup [kind : {"Vote"}, proposal : CommandIds, choice : VoteChoices]
Invocations ==
    [id : CommandIds, issuer : Members, tick : 0 .. MaxTick,
     command : GovernanceCommands]

ASSUME GovernanceAssumption ==
    /\ IsFiniteSet(Members) /\ Cardinality(Members) >= 2
    /\ Actions \subseteq GovernedActions
    /\ VOTE_DURATION \in Nat \ {0} /\ MaxTick \in Nat
    /\ Bootstrap \subseteq Members \X Capabilities
    /\ None \notin Actions /\ None \notin VoteChoices

Proposals ==
    [status : Statuses, action : Actions \cup {None}, deadline : 0 .. MaxTick,
     eligible : SUBSET Members, votes : [Members -> VoteChoices \cup {None}]]
NoVotes == [m \in Members |-> None]
NoProposal ==
    [status |-> "Absent", action |-> None, deadline |-> 0, eligible |-> {},
     votes |-> NoVotes]

(* The authority of an effect: the approved proposal of a command, or the  *)
(* capability of the principal who issued it.                              *)
Effects ==
    [authority : {"ApprovedVote", "UnilateralCapability"},
     command : CommandIds, action : Actions]

GovernanceStates ==
    [logical_tick : 0 .. MaxTick,
     connected : SUBSET Members,
     kicked : SUBSET Members,
     points : [Members -> Nat],
     capabilities : SUBSET (Members \X Capabilities),
     accused : SUBSET Findings,
     proposals : [CommandIds -> Proposals],
     effects : Seq(Effects),
     processed : SUBSET CommandIds,
     redeal_epoch : Nat,
     game_ended : BOOLEAN]

NewGovernance ==
    [logical_tick |-> 0, connected |-> Members, kicked |-> {},
     points |-> [m \in Members |-> 0], capabilities |-> {}, accused |-> {},
     proposals |-> [c \in CommandIds |-> NoProposal], effects |-> <<>>,
     processed |-> {}, redeal_epoch |-> 0,
     game_ended |-> FALSE]

-----------------------------------------------------------------------------
(* Votes.                                                                  *)

Counted(p, choice) == {m \in p.eligible : p.votes[m] = choice}
Voted(p) == {m \in p.eligible : p.votes[m] # None}
Majority(p, choice) ==
    Cardinality(Counted(p, choice)) > Cardinality(p.eligible) \div 2
EveryEligibleVoted(p) == Voted(p) = p.eligible

required_capability(action) ==
    CASE action.kind = "AdjustScore" -> {"AdjustScore"}
      [] action.kind = "ChangeRights" -> {"ChangeRights"}
      [] action.kind \in {"Redeal", "Kick", "EndGame"} -> {"ResolveRecovery"}
      [] OTHER -> {}

Subject(action) ==
    IF action.kind \in {"AdjustScore", "ChangeRights", "Kick"}
    THEN {action.target} ELSE {}

Accused(g) == {f[2] : f \in g.accused}

(* Mutant: the target of a kick keeps its vote. *)
eligibility_for_target(g, action) ==
    {m \in Members : m \notin g.kicked /\ m \in g.connected}

(* eligibility_for: frozen when the proposal opens.                        *)
eligibility_for(g, action) ==
    {m \in Members :
        /\ m \notin g.kicked /\ m \in g.connected
        /\ m \in Subject(action)
               => action.kind # "Kick" /\ m \notin Accused(g)}

-----------------------------------------------------------------------------
(* Effects: apply_effect fails for an unknown, or already kicked, target.  *)

(* Mutant: rights may be changed for a member who was kicked meanwhile. *)
Applicable_stale(g, action) ==
    \/ action.kind \in {"AdjustScore", "Redeal", "EndGame", "ChangeRights"}
    \/ action.kind = "Kick" /\ action.target \notin g.kicked

Applicable(g, action) ==
    \/ action.kind \in {"AdjustScore", "Redeal", "EndGame"}
    \/ action.kind \in {"ChangeRights", "Kick"} /\ action.target \notin g.kicked

Changed(g, action) ==
    CASE action.kind = "AdjustScore" ->
           [g EXCEPT !.points[action.target] = @ + 1]
      [] action.kind = "ChangeRights" ->
           LET right == {<<action.target, action.capability>>}
           IN  [g EXCEPT !.capabilities = IF action.change = "Grant"
                                          THEN @ \cup right ELSE @ \ right]
      [] action.kind = "Redeal" -> [g EXCEPT !.redeal_epoch = @ + 1]
      [] action.kind = "EndGame" -> [g EXCEPT !.game_ended = TRUE]
      [] action.kind = "Kick" ->
           [g EXCEPT !.kicked = @ \cup {action.target},
                     !.connected = @ \ {action.target},
                     !.capabilities = @ \ ({action.target} \X Capabilities)]
      [] OTHER -> g

apply_effect(g, authority, c, action) ==
    IF Applicable(g, action)
    THEN {[Changed(g, action) EXCEPT
              !.effects = Append(@, [authority |-> authority, command |-> c,
                                     action |-> action])]}
    ELSE {}
-----------------------------------------------------------------------------
(* submit.                                                                 *)

(* advance_to: every pending proposal whose deadline has come is rejected. *)
advance_to(g, tick) ==
    [g EXCEPT
        !.logical_tick = tick,
        !.proposals = [c \in CommandIds |->
            IF @[c].status = "Pending" /\ @[c].deadline <= tick
            THEN [@[c] EXCEPT !.status = "DeadlineNoMajority"] ELSE @[c]]]

Decided(g, c, status) == [g EXCEPT !.proposals[c].status = status]

(* Mutant: an approval whose effect fails keeps its votes. *)
maybe_finalize_from_votes_keeping(g, c) ==
    LET p == g.proposals[c]
    IN  IF Majority(p, "Approve")
        THEN IF Applicable(g, p.action)
             THEN {Decided(h, c, "Approved") :
                      h \in apply_effect(g, "ApprovedVote", c, p.action)}
             ELSE {g}
        ELSE IF Majority(p, "Reject") THEN {Decided(g, c, "MajorityRejected")}
        ELSE IF EveryEligibleVoted(p) THEN {Decided(g, c, "AllVotesNoMajority")}
        ELSE {g}

maybe_finalize_from_votes(g, c) ==
    LET p == g.proposals[c]
    IN  IF Majority(p, "Approve")
        THEN {Decided(h, c, "Approved") :
                 h \in apply_effect(g, "ApprovedVote", c, p.action)}
        ELSE IF Majority(p, "Reject") THEN {Decided(g, c, "MajorityRejected")}
        ELSE IF EveryEligibleVoted(p) THEN {Decided(g, c, "AllVotesNoMajority")}
        ELSE {g}

execute(g, inv) ==
    IF \E right \in required_capability(inv.command.action) :
           <<inv.issuer, right>> \in g.capabilities
    THEN apply_effect(g, "UnilateralCapability", inv.id, inv.command.action)
    ELSE {}

start_vote(g, inv) ==
    LET action == inv.command.action
        voters == eligibility_for(g, action)
    IN  IF /\ required_capability(action) # {}
           /\ voters # {}
           /\ inv.tick + VOTE_DURATION <= MaxTick
        THEN {[g EXCEPT !.proposals[inv.id] =
                  [status |-> "Pending", action |-> action,
                   deadline |-> inv.tick + VOTE_DURATION,
                   eligible |-> voters, votes |-> NoVotes]]}
        ELSE {}

(* Mutant: a vote is taken after the proposal was decided. *)
cast_vote_late(g, inv) ==
    LET id == inv.command.proposal
        voted == [g EXCEPT !.proposals[id].votes[inv.issuer] = inv.command.choice]
    IN  IF /\ g.proposals[id].status # "Absent"
           /\ g.proposals[id].votes[inv.issuer] = None
        THEN maybe_finalize_from_votes(voted, id)
        ELSE {}

(* An excluded member may leave a visible vote, which is never counted.    *)
cast_vote(g, inv) ==
    LET id == inv.command.proposal
        voted == [g EXCEPT !.proposals[id].votes[inv.issuer] = inv.command.choice]
    IN  IF /\ g.proposals[id].status = "Pending"
           /\ g.proposals[id].votes[inv.issuer] = None
        THEN maybe_finalize_from_votes(voted, id)
        ELSE {}

submit_unchecked(g, inv) ==
    LET now == advance_to(g, inv.tick)
    IN  IF inv.issuer \notin now.connected \/ inv.issuer \in now.kicked THEN {}
        ELSE CASE inv.command.kind = "Execute" -> execute(now, inv)
               [] inv.command.kind = "StartVote" -> start_vote(now, inv)
               [] inv.command.kind = "Vote" -> cast_vote(now, inv)

(* Mutant: a retried command runs again. *)
submit_again(g, inv) ==
    IF g.logical_tick <= inv.tick
    THEN {[h EXCEPT !.processed = @ \cup {inv.id}] : h \in submit_unchecked(g, inv)}
    ELSE {}

(* A recorded command is answered with its receipt, a reused identifier or *)
(* an old tick with an error: neither changes anything, so of processed    *)
(* commands only the identifiers are kept.                                 *)
submit(g, inv) ==
    IF inv.id \notin g.processed /\ g.logical_tick <= inv.tick
    THEN {[h EXCEPT !.processed = @ \cup {inv.id}] : h \in submit_unchecked(g, inv)}
    ELSE {}

-----------------------------------------------------------------------------
(* The overlay as a state machine.                                         *)

GovInit == gov = NewGovernance

AddBootstrapCapability(m, right) ==
    /\ gov.processed = {}
    /\ m \notin gov.kicked
    /\ gov' = [gov EXCEPT !.capabilities = @ \cup {<<m, right>>}]

SetConnected(m, connected) ==
    /\ m \notin gov.kicked
    /\ gov' = [gov EXCEPT !.connected = IF connected THEN @ \cup {m}
                                        ELSE @ \ {m}]

RegisterConfirmedFinding(finding) ==
    /\ finding[2] \in Members \ gov.kicked
    /\ gov' = [gov EXCEPT !.accused = @ \cup {finding}]

Submit(inv) == gov' \in submit(gov, inv)

AdvanceTo(tick) ==
    /\ gov.logical_tick <= tick
    /\ gov' = advance_to(gov, tick)

GovNext ==
    \/ \E grant \in Bootstrap : AddBootstrapCapability(grant[1], grant[2])
    \/ \E m \in Members, connected \in BOOLEAN : SetConnected(m, connected)
    \/ \E finding \in Findings : RegisterConfirmedFinding(finding)
    \/ \E inv \in Invocations : Submit(inv)
    \/ \E tick \in 0 .. MaxTick : AdvanceTo(tick)

GovSpec == GovInit /\ [][GovNext]_gov

-----------------------------------------------------------------------------
(* Properties.                                                             *)

(* The overlay is a GovernanceState.                                       *)
GovTypeOK == gov \in GovernanceStates

VoteEffects(c) ==
    {i \in DOMAIN gov.effects :
        gov.effects[i].authority = "ApprovedVote" /\ gov.effects[i].command = c}

(* A proposal is approved exactly when one effect with its action was      *)
(* applied for it, and then a strict majority of the members eligible when *)
(* it opened approved it: no effect twice, none for a rejected, expired or *)
(* pending proposal, none carried by excluded votes, none lost             *)
(* (maybe_finalize_from_votes, apply_effect).                              *)
ApprovalsAreEffects ==
    \A c \in CommandIds :
        LET p == gov.proposals[c]
        IN  IF p.status = "Approved"
            THEN /\ Majority(p, "Approve")
                 /\ \E i \in VoteEffects(c) :
                        VoteEffects(c) = {i} /\ gov.effects[i].action = p.action
            ELSE VoteEffects(c) = {}

(* A pending proposal is open: no side has a majority, somebody eligible   *)
(* has not voted, and its deadline is ahead.  So a vote whose effect fails *)
(* is rolled back as a whole, and a deadline is never passed over          *)
(* (submit, advance_to).                                                   *)
PendingIsUndecided ==
    \A c \in CommandIds :
        LET p == gov.proposals[c]
        IN  p.status = "Pending" =>
                /\ ~Majority(p, "Approve") /\ ~Majority(p, "Reject")
                /\ ~EveryEligibleVoted(p)
                /\ gov.logical_tick < p.deadline

(* The overlay is well formed and its pending proposals are open, through  *)
(* every rollback and every deadline (submit, advance_to).                 *)
GovInv == GovTypeOK /\ PendingIsUndecided

EffectsOn(kind, m) ==
    {i \in DOMAIN gov.effects : gov.effects[i].action.kind = kind
                                /\ gov.effects[i].action.target = m}
EffectsOf(kind) ==
    {i \in DOMAIN gov.effects : gov.effects[i].action.kind = kind}

(* The effect log accounts for every governed change: who was kicked, each *)
(* score, the redeal epoch and the end of the game; and a kicked member is *)
(* offline and holds no capability, whatever was approved for it before or *)
(* after the kick (apply_effect, set_connected).                           *)
EffectsAccount ==
    /\ \A m \in Members :
          /\ m \in gov.kicked <=> EffectsOn("Kick", m) # {}
          /\ gov.points[m] = Cardinality(EffectsOn("AdjustScore", m))
          /\ m \in gov.kicked =>
                m \notin gov.connected /\ \A right \in Capabilities :
                                            <<m, right>> \notin gov.capabilities
    /\ gov.redeal_epoch = Cardinality(EffectsOf("Redeal"))
    /\ gov.game_ended <=> EffectsOf("EndGame") # {}

(* The target of a kick never decides it: without the target's own vote    *)
(* the approvals are already a majority of the others (eligibility_for).   *)
TargetDoesNotDecide ==
    \A c \in CommandIds :
        LET p == gov.proposals[c]
        IN  p.status = "Approved" /\ p.action.kind = "Kick"
                => 2 * Cardinality(Counted(p, "Approve") \ {p.action.target})
                       > Cardinality(p.eligible \ {p.action.target})

(* A decided proposal stays as it was decided, its votes included: late    *)
(* votes, later ticks and retries change nothing of it (cast_vote,         *)
(* advance_to).                                                            *)
DecisionsAreFinal ==
    [][\A c \in CommandIds :
          gov.proposals[c].status \notin {"Absent", "Pending"}
              => gov'.proposals[c] = gov.proposals[c]]_gov
=============================================================================
