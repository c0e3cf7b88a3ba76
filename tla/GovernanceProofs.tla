-------------------------- MODULE GovernanceProofs --------------------------
(***************************************************************************)
(* The governance overlay for any roster, actions, commands, findings and  *)
(* bootstrap capabilities.  The invariants are stated of a state g, so     *)
(* that they can be followed through the steps of submit: the deadlines    *)
(* that pass, the command itself, and the receipt.  The trustless round    *)
(* that owns an overlay follows, for any effects a command commits.        *)
(***************************************************************************)
EXTENDS TrustlessRound, FiniteSetTheorems, WellFoundedInduction, TLAPS

(* What a proposal that was opened satisfies at a logical tick.            *)
ProposalOk(p, tick) ==
    p.status # "Absent" =>
        /\ p.action \in Actions
        /\ p.action.kind = "Kick" => p.action.target \notin p.eligible
        /\ p.status = "Pending" =>
              /\ ~Majority(p, "Approve") /\ ~Majority(p, "Reject")
              /\ ~EveryEligibleVoted(p)
              /\ tick < p.deadline
        /\ p.status = "Approved" => Majority(p, "Approve")

ProposalsOk(g) == \A c \in CommandIds : ProposalOk(g.proposals[c], g.logical_tick)

(* The effects of a log that are of a given sort.                          *)
Picked(log, sort) == {i \in DOMAIN log : log[i] \in sort}

ByVote(c) == {e \in Effects : e.authority = "ApprovedVote" /\ e.command = c}
On(kind, m) == {e \in Effects : e.action.kind = kind /\ e.action.target = m}
Of(kind) == {e \in Effects : e.action.kind = kind}

ApprovalsLogged(g) ==
    \A c \in CommandIds :
        IF g.proposals[c].status = "Approved"
        THEN \E i \in Picked(g.effects, ByVote(c)) :
                /\ Picked(g.effects, ByVote(c)) = {i}
                /\ g.effects[i].action = g.proposals[c].action
        ELSE Picked(g.effects, ByVote(c)) = {}

Accounted(g) ==
    /\ \A m \in Members :
          /\ m \in g.kicked <=> Picked(g.effects, On("Kick", m)) # {}
          /\ g.points[m] = Cardinality(Picked(g.effects, On("AdjustScore", m)))
          /\ m \in g.kicked =>
                m \notin g.connected /\ \A right \in Capabilities :
                                            <<m, right>> \notin g.capabilities
    /\ g.redeal_epoch = Cardinality(Picked(g.effects, Of("Redeal")))
    /\ g.game_ended <=> Picked(g.effects, Of("EndGame")) # {}

(* Only a processed command has a proposal.                                *)
Recorded(g, processed) ==
    \A c \in CommandIds : g.proposals[c].status # "Absent" => c \in processed

OverlayInv(g) ==
    /\ g \in GovernanceStates
    /\ ProposalsOk(g) /\ ApprovalsLogged(g) /\ Accounted(g)

(* What was decided in g is as it was in h.                                *)
Final(g, h) ==
    \A c \in CommandIds :
        g.proposals[c].status \notin {"Absent", "Pending"}
            => h.proposals[c] = g.proposals[c]

-----------------------------------------------------------------------------
(* The effect log.                                                         *)

LEMMA PickedAppend ==
    ASSUME NEW log \in Seq(Effects), NEW e \in Effects, NEW sort
    PROVE  /\ IsFiniteSet(Picked(log, sort))
           /\ Len(log) + 1 \notin Picked(log, sort)
           /\ Picked(Append(log, e), sort) =
                 IF e \in sort THEN Picked(log, sort) \cup {Len(log) + 1}
                 ELSE Picked(log, sort)
           /\ Cardinality(Picked(Append(log, e), sort)) =
                 IF e \in sort THEN Cardinality(Picked(log, sort)) + 1
                 ELSE Cardinality(Picked(log, sort))
           /\ \A i \in Picked(log, sort) : Append(log, e)[i] = log[i]
           /\ Append(log, e)[Len(log) + 1] = e
<1>1. /\ DOMAIN log = 1 .. Len(log) /\ Len(log) \in Nat
      /\ DOMAIN Append(log, e) = 1 .. Len(log) + 1
      /\ \A i \in 1 .. Len(log) : Append(log, e)[i] = log[i]
      /\ Append(log, e)[Len(log) + 1] = e
  OBVIOUS
<1>2. Picked(log, sort) \subseteq 1 .. Len(log)
  BY <1>1 DEF Picked
<1>3. IsFiniteSet(Picked(log, sort))
  <2>1. IsFiniteSet(1 .. Len(log))
    BY <1>1, FS_Interval
  <2> QED
    BY <1>2, <2>1, FS_Subset
<1>4. Len(log) + 1 \notin Picked(log, sort)
  BY <1>1, <1>2
<1>5. 1 .. Len(log) + 1 = (1 .. Len(log)) \cup {Len(log) + 1}
  BY <1>1
<1>6. Picked(Append(log, e), sort) =
         IF e \in sort THEN Picked(log, sort) \cup {Len(log) + 1}
         ELSE Picked(log, sort)
  BY <1>1, <1>5 DEF Picked
<1>7. Cardinality(Picked(Append(log, e), sort)) =
         IF e \in sort THEN Cardinality(Picked(log, sort)) + 1
         ELSE Cardinality(Picked(log, sort))
  BY <1>3, <1>4, <1>6, FS_AddElement
<1> QED
  BY <1>1, <1>2, <1>3, <1>4, <1>6, <1>7

LEMMA PickedGrows ==
    \A log \in Seq(Effects), e \in Effects : \A sort :
        /\ e \in sort => Picked(Append(log, e), sort) = Picked(log, sort) \cup {Len(log) + 1}
        /\ e \notin sort => Picked(Append(log, e), sort) = Picked(log, sort)
        /\ \A i \in Picked(log, sort) : Append(log, e)[i] = log[i]
<1>1. ASSUME NEW log \in Seq(Effects), NEW e \in Effects, NEW sort
      PROVE  /\ Picked(Append(log, e), sort) =
                   IF e \in sort THEN Picked(log, sort) \cup {Len(log) + 1}
                   ELSE Picked(log, sort)
             /\ \A i \in Picked(log, sort) : Append(log, e)[i] = log[i]
  BY PickedAppend
<1> QED
  BY <1>1, Zenon

(* A governed action and what it names.                                    *)
LEMMA ActionFields ==
    ASSUME NEW action \in Actions
    PROVE  /\ action.kind \in {"AdjustScore", "Kick", "ChangeRights", "Redeal",
                               "EndGame", "Delegated"}
           /\ action.kind \in {"AdjustScore", "Kick", "ChangeRights"}
                  => action.target \in Members
           /\ action.kind = "ChangeRights" => action.capability \in Capabilities
<1>1. action \in GovernedActions
  BY GovernanceAssumption
<1>2. CASE action \in [kind : {"AdjustScore", "Kick"}, target : Members]
  BY <1>2
<1>3. CASE action \in [kind : {"ChangeRights"}, target : Members,
                       capability : Capabilities, change : {"Grant", "Revoke"}]
  BY <1>3
<1>4. CASE action \in [kind : {"Redeal", "EndGame", "Delegated"}]
  BY <1>4
<1> QED
  BY <1>1, <1>2, <1>3, <1>4 DEF GovernedActions

LEMMA StateFields ==
    ASSUME NEW g \in GovernanceStates
    PROVE  /\ g.logical_tick \in 0 .. MaxTick
           /\ g.connected \subseteq Members /\ g.kicked \subseteq Members
           /\ g.points \in [Members -> Nat]
           /\ g.capabilities \subseteq Members \X Capabilities
           /\ g.accused \subseteq Findings
           /\ g.proposals \in [CommandIds -> Proposals]
           /\ g.effects \in Seq(Effects)
           /\ g.processed \subseteq CommandIds
           /\ g.redeal_epoch \in Nat /\ g.game_ended \in BOOLEAN
           /\ DOMAIN g = {"logical_tick", "connected", "kicked", "points", "capabilities",
                          "accused", "proposals", "effects", "processed", "redeal_epoch",
                          "game_ended"}
BY DEF GovernanceStates

(* An applied effect is in the log, and the log still accounts for all.    *)
LEMMA EffectApplied ==
    ASSUME NEW g \in GovernanceStates, Accounted(g), NEW action \in Actions,
           NEW authority \in {"ApprovedVote", "UnilateralCapability"},
           NEW c \in CommandIds, NEW h \in apply_effect(g, authority, c, action)
    PROVE  /\ h \in GovernanceStates /\ Accounted(h)
           /\ h.effects = Append(g.effects, [authority |-> authority, command |-> c,
                                             action |-> action])
           /\ h.proposals = g.proposals /\ h.logical_tick = g.logical_tick
           /\ h.processed = g.processed
<1> DEFINE e == [authority |-> authority, command |-> c, action |-> action]
           log == Append(g.effects, e)
<1>1. /\ Applicable(g, action)
      /\ h = [Changed(g, action) EXCEPT !.effects = Append(@, e)]
  BY DEF apply_effect
<1>2. e \in Effects /\ e.action = action /\ log \in Seq(Effects)
  <2>1. e \in Effects /\ e.action = action
    BY DEF Effects
  <2>2. g.effects \in Seq(Effects)
    BY StateFields
  <2> HIDE DEF e
  <2> QED
    BY <2>1, <2>2
<1>3. \A sort : /\ Picked(log, sort) # {} <=> e \in sort \/ Picked(g.effects, sort) # {}
                /\ Cardinality(Picked(log, sort)) =
                      IF e \in sort THEN Cardinality(Picked(g.effects, sort)) + 1
                      ELSE Cardinality(Picked(g.effects, sort))
  BY <1>2, PickedAppend, StateFields
<1> HIDE DEF e, log
<1>4. /\ \A m \in Members :
            /\ Picked(log, On("Kick", m)) # {}
                   <=> \/ action.kind = "Kick" /\ action.target = m
                       \/ Picked(g.effects, On("Kick", m)) # {}
            /\ Cardinality(Picked(log, On("AdjustScore", m))) =
                  IF action.kind = "AdjustScore" /\ action.target = m
                  THEN Cardinality(Picked(g.effects, On("AdjustScore", m))) + 1
                  ELSE Cardinality(Picked(g.effects, On("AdjustScore", m)))
      /\ Cardinality(Picked(log, Of("Redeal"))) =
            IF action.kind = "Redeal" THEN Cardinality(Picked(g.effects, Of("Redeal"))) + 1
            ELSE Cardinality(Picked(g.effects, Of("Redeal")))
      /\ Picked(log, Of("EndGame")) # {}
             <=> action.kind = "EndGame" \/ Picked(g.effects, Of("EndGame")) # {}
  <2>1. \A m \in Members :
           /\ e \in On("Kick", m) <=> action.kind = "Kick" /\ action.target = m
           /\ e \in On("AdjustScore", m) <=> action.kind = "AdjustScore" /\ action.target = m
    BY <1>2 DEF On
  <2>2. /\ e \in Of("Redeal") <=> action.kind = "Redeal"
        /\ e \in Of("EndGame") <=> action.kind = "EndGame"
    BY <1>2 DEF Of
  <2> QED
    BY <1>3, <2>1, <2>2
<1>5. CASE action.kind = "AdjustScore"
  <2>1. h = [g EXCEPT !.points[action.target] = @ + 1, !.effects = log]
    BY <1>1, <1>5, StateFields DEF Changed, log
  <2>2. /\ h.effects = log /\ h.connected = g.connected /\ h.kicked = g.kicked
        /\ h.points = [g.points EXCEPT ![action.target] = @ + 1]
        /\ h.capabilities = g.capabilities /\ h.redeal_epoch = g.redeal_epoch
        /\ h.game_ended = g.game_ended
        /\ h.proposals = g.proposals /\ h.logical_tick = g.logical_tick
        /\ h.processed = g.processed
    BY <2>1, StateFields
  <2>3. h.points \in [Members -> Nat]
    BY <1>5, <2>2, StateFields, ActionFields
  <2>4. h \in GovernanceStates
    BY <1>2, <2>1, <2>2, <2>3 DEF GovernanceStates
  <2>5. Accounted(h)
    <3>1. \A m \in Members : h.points[m] = IF m = action.target THEN g.points[m] + 1
                                            ELSE g.points[m]
      BY <2>2, StateFields
    <3> QED
      BY <1>4, <1>5, <2>2, <3>1 DEF Accounted
  <2> QED
    BY <2>2, <2>4, <2>5 DEF log, e
<1>6. CASE action.kind = "ChangeRights"
  <2> DEFINE right == {<<action.target, action.capability>>}
             held == IF action.change = "Grant" THEN g.capabilities \cup right
                     ELSE g.capabilities \ right
  <2>1. h = [g EXCEPT !.capabilities = held, !.effects = log]
    BY <1>1, <1>6, StateFields DEF Changed, log
  <2>2. /\ h.effects = log /\ h.connected = g.connected /\ h.kicked = g.kicked
        /\ h.points = g.points /\ h.capabilities = held
        /\ h.redeal_epoch = g.redeal_epoch /\ h.game_ended = g.game_ended
        /\ h.proposals = g.proposals /\ h.logical_tick = g.logical_tick
        /\ h.processed = g.processed
    BY <2>1, StateFields
  <2>3. held \subseteq Members \X Capabilities /\ action.target \notin g.kicked
    BY <1>1, <1>6, StateFields, ActionFields DEF Applicable
  <2>4. \A m \in Members, cap \in Capabilities :
           m # action.target /\ <<m, cap>> \in held => <<m, cap>> \in g.capabilities
    OBVIOUS
  <2> HIDE DEF held
  <2>5. h \in GovernanceStates
    BY <1>2, <2>1, <2>2, <2>3 DEF GovernanceStates
  <2>6. Accounted(h)
    BY <1>4, <1>6, <2>2, <2>3, <2>4 DEF Accounted
  <2> QED
    BY <2>2, <2>5, <2>6 DEF log, e
<1>7. CASE action.kind = "Redeal"
  <2>1. h = [g EXCEPT !.redeal_epoch = @ + 1, !.effects = log]
    BY <1>1, <1>7, StateFields DEF Changed, log
  <2>2. /\ h.effects = log /\ h.connected = g.connected /\ h.kicked = g.kicked
        /\ h.points = g.points /\ h.capabilities = g.capabilities
        /\ h.redeal_epoch = g.redeal_epoch + 1 /\ h.game_ended = g.game_ended
        /\ h.proposals = g.proposals /\ h.logical_tick = g.logical_tick
        /\ h.processed = g.processed
    BY <2>1, StateFields
  <2>3. h \in GovernanceStates
    <3>1. h.redeal_epoch \in Nat
      BY <2>2, StateFields
    <3> QED
      BY <1>2, <2>1, <2>2, <3>1 DEF GovernanceStates
  <2>4. Accounted(h)
    BY <1>4, <1>7, <2>2 DEF Accounted
  <2> QED
    BY <2>2, <2>3, <2>4 DEF log, e
<1>8. CASE action.kind = "EndGame"
  <2>1. h = [g EXCEPT !.game_ended = TRUE, !.effects = log]
    BY <1>1, <1>8, StateFields DEF Changed, log
  <2>2. /\ h.effects = log /\ h.connected = g.connected /\ h.kicked = g.kicked
        /\ h.points = g.points /\ h.capabilities = g.capabilities
        /\ h.redeal_epoch = g.redeal_epoch /\ h.game_ended = TRUE
        /\ h.proposals = g.proposals /\ h.logical_tick = g.logical_tick
        /\ h.processed = g.processed
    BY <2>1, StateFields
  <2>3. h \in GovernanceStates
    BY <1>2, <2>1, <2>2 DEF GovernanceStates
  <2>4. Accounted(h)
    BY <1>4, <1>8, <2>2 DEF Accounted
  <2> QED
    BY <2>2, <2>3, <2>4 DEF log, e
<1>9. CASE action.kind = "Kick"
  <2> DEFINE held == g.capabilities \ ({action.target} \X Capabilities)
  <2>1. h = [g EXCEPT !.kicked = @ \cup {action.target}, !.connected = @ \ {action.target},
                      !.capabilities = held, !.effects = log]
    BY <1>1, <1>9, StateFields DEF Changed, log
  <2>2. /\ h.effects = log /\ h.connected = g.connected \ {action.target}
        /\ h.kicked = g.kicked \cup {action.target}
        /\ h.points = g.points /\ h.capabilities = held
        /\ h.redeal_epoch = g.redeal_epoch /\ h.game_ended = g.game_ended
        /\ h.proposals = g.proposals /\ h.logical_tick = g.logical_tick
        /\ h.processed = g.processed
    BY <2>1, StateFields
  <2>3. /\ held \subseteq g.capabilities /\ action.target \in Members
        /\ \A cap \in Capabilities : <<action.target, cap>> \notin held
    BY <1>9, ActionFields
  <2> HIDE DEF held
  <2>4. h \in GovernanceStates
    BY <1>2, <2>1, <2>2, <2>3 DEF GovernanceStates
  <2>5. Accounted(h)
    BY <1>4, <1>9, <2>2, <2>3 DEF Accounted
  <2> QED
    BY <2>2, <2>4, <2>5 DEF log, e
<1> QED
  BY <1>1, <1>5, <1>6, <1>7, <1>8, <1>9 DEF Applicable

-----------------------------------------------------------------------------
(* Deadlines.                                                              *)

LEMMA AdvanceFields ==
    ASSUME NEW g \in GovernanceStates, NEW tick
    PROVE  LET h == advance_to(g, tick)
           IN  /\ h = [g EXCEPT !.logical_tick = tick, !.proposals = h.proposals]
               /\ h.logical_tick = tick /\ h.effects = g.effects /\ h.kicked = g.kicked
               /\ h.connected = g.connected /\ h.points = g.points
               /\ h.capabilities = g.capabilities /\ h.redeal_epoch = g.redeal_epoch
               /\ h.game_ended = g.game_ended /\ h.processed = g.processed
               /\ h.proposals = [c \in CommandIds |->
                     IF g.proposals[c].status = "Pending" /\ g.proposals[c].deadline <= tick
                     THEN [g.proposals[c] EXCEPT !.status = "DeadlineNoMajority"]
                     ELSE g.proposals[c]]
BY StateFields DEF advance_to

LEMMA ProposalFields ==
    ASSUME NEW p \in Proposals
    PROVE  /\ DOMAIN p = {"status", "action", "deadline", "eligible", "votes"}
           /\ p.status \in Statuses /\ p.deadline \in 0 .. MaxTick
           /\ p.eligible \subseteq Members
           /\ p.votes \in [Members -> VoteChoices \cup {None}]
           /\ \A status \in Statuses :
                 LET q == [p EXCEPT !.status = status]
                 IN  /\ q \in Proposals /\ q.status = status /\ q.action = p.action
                     /\ q.deadline = p.deadline /\ q.eligible = p.eligible
                     /\ q.votes = p.votes
BY DEF Proposals

(* A proposal with the same votes and voters has the same majorities.      *)
LEMMA SameMajority ==
    ASSUME NEW p, NEW q, p.eligible = q.eligible, p.votes = q.votes, NEW choice
    PROVE  /\ Majority(p, choice) <=> Majority(q, choice)
           /\ EveryEligibleVoted(p) <=> EveryEligibleVoted(q)
BY DEF Majority, Counted, EveryEligibleVoted, Voted

LEMMA AdvanceKeeps ==
    ASSUME NEW g, OverlayInv(g), NEW tick \in 0 .. MaxTick, g.logical_tick <= tick
    PROVE  LET h == advance_to(g, tick)
           IN  /\ OverlayInv(h) /\ Final(g, h)
               /\ Recorded(g, g.processed) => Recorded(h, g.processed)
<1> DEFINE h == advance_to(g, tick)
           p(c) == g.proposals[c]
<1>1. g \in GovernanceStates /\ g.proposals \in [CommandIds -> Proposals]
  BY StateFields DEF OverlayInv
<1>2. /\ h = [g EXCEPT !.logical_tick = tick, !.proposals = h.proposals]
      /\ h.logical_tick = tick /\ h.effects = g.effects /\ h.kicked = g.kicked
      /\ h.connected = g.connected /\ h.points = g.points
      /\ h.capabilities = g.capabilities /\ h.redeal_epoch = g.redeal_epoch
      /\ h.game_ended = g.game_ended
      /\ h.proposals = [c \in CommandIds |->
            IF g.proposals[c].status = "Pending" /\ g.proposals[c].deadline <= tick
            THEN [g.proposals[c] EXCEPT !.status = "DeadlineNoMajority"]
            ELSE g.proposals[c]]
  BY <1>1, AdvanceFields
<1> HIDE DEF h
<1>3. ASSUME NEW c \in CommandIds
      PROVE  \/ /\ h.proposals[c] = g.proposals[c]
                /\ p(c).status = "Pending" => ~(p(c).deadline <= tick)
             \/ /\ p(c).status = "Pending"
                /\ h.proposals[c] = [p(c) EXCEPT !.status = "DeadlineNoMajority"]
                /\ h.proposals[c].status = "DeadlineNoMajority"
                /\ h.proposals[c].action = p(c).action
                /\ h.proposals[c].eligible = p(c).eligible
                /\ h.proposals[c] \in Proposals
  <2>1. p(c) \in Proposals /\ "DeadlineNoMajority" \in Statuses
    BY <1>1 DEF Statuses
  <2> QED
    BY <1>2, <2>1, ProposalFields
<1>4. h \in GovernanceStates
  <2>1. h.proposals \in [CommandIds -> Proposals]
    BY <1>1, <1>2, <1>3
  <2> QED
    BY <1>1, <1>2, <2>1 DEF GovernanceStates
<1>5. ProposalsOk(h)
  <2> SUFFICES ASSUME NEW c \in CommandIds
               PROVE  ProposalOk(h.proposals[c], tick)
    BY <1>2 DEF ProposalsOk
  <2>1. p(c) \in Proposals /\ p(c).deadline \in Nat /\ ProposalOk(p(c), g.logical_tick)
    BY <1>1, ProposalFields, GovernanceAssumption DEF OverlayInv, ProposalsOk
  <2>2. tick \in Nat /\ g.logical_tick \in Nat
    BY <1>1, StateFields, GovernanceAssumption
  <2>3. CASE h.proposals[c] = p(c) /\ (p(c).status = "Pending" => ~(p(c).deadline <= tick))
    <3>1. p(c).status = "Pending" => tick < p(c).deadline
      BY <2>1, <2>2, <2>3
    <3> HIDE DEF p
    <3> QED
      BY <2>1, <2>3, <3>1 DEF ProposalOk
  <2>4. CASE /\ p(c).status = "Pending"
             /\ h.proposals[c].status = "DeadlineNoMajority"
             /\ h.proposals[c].action = p(c).action
             /\ h.proposals[c].eligible = p(c).eligible
    BY <2>1, <2>4 DEF ProposalOk
  <2> QED
    BY <1>3, <2>3, <2>4
<1>6. ApprovalsLogged(h)
  BY <1>2, <1>3 DEF OverlayInv, ApprovalsLogged
<1>7. Accounted(h)
  BY <1>2 DEF OverlayInv, Accounted
<1>8. Final(g, h)
  BY <1>3 DEF Final
<1>9. Recorded(g, g.processed) => Recorded(h, g.processed)
  BY <1>3 DEF Recorded
<1> QED
  BY <1>4, <1>5, <1>6, <1>7, <1>8, <1>9 DEF OverlayInv, h

-----------------------------------------------------------------------------
(* Commands.                                                               *)

LEMMA InvocationFields ==
    ASSUME NEW inv \in Invocations
    PROVE  /\ inv.id \in CommandIds /\ inv.issuer \in Members /\ inv.tick \in 0 .. MaxTick
           /\ inv.command.kind \in {"Execute", "StartVote", "Vote"}
           /\ inv.command.kind \in {"Execute", "StartVote"} => inv.command.action \in Actions
           /\ inv.command.kind = "Vote" => /\ inv.command.proposal \in CommandIds
                                           /\ inv.command.choice \in VoteChoices
<1>1. /\ inv.id \in CommandIds /\ inv.issuer \in Members /\ inv.tick \in 0 .. MaxTick
      /\ inv.command \in GovernanceCommands
  BY DEF Invocations
<1> DEFINE command == inv.command
<1> HIDE DEF command
<1>2. CASE command \in [kind : {"Execute", "StartVote"}, action : Actions]
  BY <1>1, <1>2 DEF command
<1>3. CASE command \in [kind : {"Vote"}, proposal : CommandIds, choice : VoteChoices]
  BY <1>1, <1>3 DEF command
<1> QED
  BY <1>1, <1>2, <1>3 DEF GovernanceCommands, command

(* A capability's effect is nobody's approval.                             *)
LEMMA ExecuteKeeps ==
    ASSUME NEW g, OverlayInv(g), NEW inv \in Invocations, inv.command.kind = "Execute",
           NEW h \in execute(g, inv)
    PROVE  OverlayInv(h) /\ h.proposals = g.proposals /\ h.processed = g.processed
<1> DEFINE action == inv.command.action
           e == [authority |-> "UnilateralCapability", command |-> inv.id, action |-> action]
<1>1. /\ g \in GovernanceStates /\ Accounted(g) /\ action \in Actions /\ inv.id \in CommandIds
      /\ h \in apply_effect(g, "UnilateralCapability", inv.id, action)
  BY InvocationFields DEF OverlayInv, execute
<1>2. /\ h \in GovernanceStates /\ Accounted(h) /\ h.effects = Append(g.effects, e)
      /\ h.proposals = g.proposals /\ h.logical_tick = g.logical_tick
      /\ h.processed = g.processed
  BY <1>1, EffectApplied
<1>3. e \in Effects /\ \A c \in CommandIds : e \notin ByVote(c)
  BY <1>1 DEF Effects, ByVote
<1> HIDE DEF e
<1>4. \A c \in CommandIds :
         /\ Picked(h.effects, ByVote(c)) = Picked(g.effects, ByVote(c))
         /\ \A i \in Picked(g.effects, ByVote(c)) : h.effects[i] = g.effects[i]
  <2>1. g.effects \in Seq(Effects)
    BY <1>1, StateFields
  <2>2. \A sort :
           /\ e \notin sort => Picked(h.effects, sort) = Picked(g.effects, sort)
           /\ \A i \in Picked(g.effects, sort) : h.effects[i] = g.effects[i]
    <3>1. e \in Effects
      BY <1>3
    <3>2. \A sort :
             /\ e \notin sort => Picked(Append(g.effects, e), sort) = Picked(g.effects, sort)
             /\ \A i \in Picked(g.effects, sort) : Append(g.effects, e)[i] = g.effects[i]
      BY <2>1, <3>1, PickedGrows, Zenon
    <3>3. h.effects = Append(g.effects, e)
      BY <1>2
    <3> QED
      BY <3>2, <3>3, Zenon
  <2> QED
    BY <1>3, <2>2, Zenon
<1>5. ApprovalsLogged(h)
  BY <1>2, <1>4 DEF OverlayInv, ApprovalsLogged
<1>6. ProposalsOk(h)
  BY <1>2 DEF OverlayInv, ProposalsOk
<1> QED
  BY <1>2, <1>5, <1>6 DEF OverlayInv

LEMMA EligibleFinite ==
    ASSUME NEW p \in Proposals, NEW choice
    PROVE  /\ IsFiniteSet(p.eligible) /\ Cardinality(p.eligible) \in Nat
           /\ IsFiniteSet(Counted(p, choice)) /\ Cardinality(Counted(p, choice)) \in Nat
<1>1. p.eligible \subseteq Members /\ Counted(p, choice) \subseteq Members
  BY ProposalFields DEF Counted
<1>2. IsFiniteSet(p.eligible) /\ IsFiniteSet(Counted(p, choice))
  BY <1>1, GovernanceAssumption, FS_Subset
<1> QED
  BY <1>2, FS_CardinalityType

(* A proposal opens undecided, and the target of a kick cannot vote on it. *)
LEMMA StartVoteKeeps ==
    ASSUME NEW g, OverlayInv(g), NEW inv \in Invocations, inv.command.kind = "StartVote",
           g.logical_tick = inv.tick, g.proposals[inv.id].status = "Absent",
           NEW h \in start_vote(g, inv)
    PROVE  /\ OverlayInv(h) /\ h.processed = g.processed
           /\ \A c \in CommandIds : c # inv.id => h.proposals[c] = g.proposals[c]
<1> DEFINE action == inv.command.action
           voters == eligibility_for(g, action)
           p == [status |-> "Pending", action |-> action,
                 deadline |-> inv.tick + VOTE_DURATION,
                 eligible |-> voters, votes |-> NoVotes]
<1>1. /\ voters # {} /\ inv.tick + VOTE_DURATION <= MaxTick
      /\ h = [g EXCEPT !.proposals[inv.id] = p]
  BY DEF start_vote
<1>2. /\ g \in GovernanceStates /\ action \in Actions /\ inv.id \in CommandIds
      /\ inv.tick \in Nat /\ inv.tick < inv.tick + VOTE_DURATION
      /\ inv.tick + VOTE_DURATION \in 0 .. MaxTick
  BY <1>1, InvocationFields, GovernanceAssumption DEF OverlayInv
<1>3. /\ h.proposals = [g.proposals EXCEPT ![inv.id] = p]
      /\ h.logical_tick = g.logical_tick /\ h.effects = g.effects /\ h.kicked = g.kicked
      /\ h.connected = g.connected /\ h.points = g.points
      /\ h.capabilities = g.capabilities /\ h.redeal_epoch = g.redeal_epoch
      /\ h.game_ended = g.game_ended /\ h.processed = g.processed
  BY <1>1, <1>2, StateFields
<1>4. voters \subseteq Members /\ (action.kind = "Kick" => action.target \notin voters)
  BY DEF eligibility_for, Subject
<1> HIDE DEF action, voters
<1>5. NoVotes \in [Members -> VoteChoices \cup {None}] /\ \A m \in Members : NoVotes[m] = None
  BY DEF NoVotes
<1>6. p \in Proposals
  BY <1>2, <1>4, <1>5 DEF Proposals, Statuses
<1>7. ProposalOk(p, inv.tick)
  <2>1. \A choice \in VoteChoices : Counted(p, choice) = {}
    BY <1>4, <1>5, GovernanceAssumption DEF Counted
  <2>2. \A choice \in VoteChoices : ~Majority(p, choice)
    <3>1. Cardinality(p.eligible) \in Nat
      BY <1>6, EligibleFinite
    <3>2. ~(0 > Cardinality(p.eligible) \div 2)
      BY <3>1
    <3> HIDE DEF p
    <3> QED
      BY <2>1, <3>2, FS_EmptySet DEF Majority
  <2>3. Voted(p) = {}
    BY <1>4, <1>5 DEF Voted
  <2>4. ~EveryEligibleVoted(p)
    BY <1>1, <2>3 DEF EveryEligibleVoted
  <2>5. "Approve" \in VoteChoices /\ "Reject" \in VoteChoices
    BY DEF VoteChoices
  <2> QED
    BY <1>2, <1>4, <2>2, <2>4, <2>5 DEF ProposalOk
<1> HIDE DEF p
<1>8. /\ h.proposals[inv.id] = p
      /\ \A c \in CommandIds : c # inv.id => h.proposals[c] = g.proposals[c]
  BY <1>2, <1>3, StateFields
<1>9. h \in GovernanceStates
  <2>1. h.proposals \in [CommandIds -> Proposals]
    BY <1>2, <1>3, <1>6, StateFields
  <2> QED
    BY <1>1, <1>2, <1>3, <2>1 DEF GovernanceStates
<1>10. ProposalsOk(h)
  BY <1>3, <1>7, <1>8 DEF OverlayInv, ProposalsOk
<1>11. ApprovalsLogged(h)
  <2>1. p.status = "Pending"
    BY DEF p
  <2> QED
    BY <1>3, <1>8, <2>1 DEF OverlayInv, ApprovalsLogged
<1>12. Accounted(h)
  BY <1>3 DEF OverlayInv, Accounted
<1> QED
  BY <1>3, <1>8, <1>9, <1>10, <1>11, <1>12 DEF OverlayInv

LEMMA DecidedFields ==
    ASSUME NEW g \in GovernanceStates, NEW id \in CommandIds, NEW status \in Statuses
    PROVE  LET h == Decided(g, id, status)
           IN  /\ h \in GovernanceStates
               /\ h.proposals[id] = [g.proposals[id] EXCEPT !.status = status]
               /\ \A c \in CommandIds : c # id => h.proposals[c] = g.proposals[c]
               /\ h.logical_tick = g.logical_tick /\ h.effects = g.effects
               /\ h.kicked = g.kicked /\ h.connected = g.connected /\ h.points = g.points
               /\ h.capabilities = g.capabilities /\ h.redeal_epoch = g.redeal_epoch
               /\ h.game_ended = g.game_ended /\ h.processed = g.processed
<1> DEFINE h == Decided(g, id, status)
           p == [g.proposals[id] EXCEPT !.status = status]
<1>1. g.proposals \in [CommandIds -> Proposals]
  BY StateFields
<1>2. p \in Proposals
  <2>1. g.proposals[id] \in Proposals
    BY <1>1
  <2> QED
    BY <2>1, ProposalFields
<1>3. h = [g EXCEPT !.proposals = [g.proposals EXCEPT ![id] = p]]
  BY <1>1, StateFields DEF Decided
<1> HIDE DEF h, p
<1>4. /\ h.proposals = [g.proposals EXCEPT ![id] = p]
      /\ h.logical_tick = g.logical_tick /\ h.effects = g.effects
      /\ h.kicked = g.kicked /\ h.connected = g.connected /\ h.points = g.points
      /\ h.capabilities = g.capabilities /\ h.redeal_epoch = g.redeal_epoch
      /\ h.game_ended = g.game_ended /\ h.processed = g.processed
  BY <1>3, StateFields
<1>5. h.proposals \in [CommandIds -> Proposals] /\ h.proposals[id] = p
      /\ \A c \in CommandIds : c # id => h.proposals[c] = g.proposals[c]
  BY <1>1, <1>2, <1>4
<1>6. h \in GovernanceStates
  BY <1>3, <1>4, <1>5 DEF GovernanceStates
<1> QED
  BY <1>4, <1>5, <1>6 DEF h, p

(* A vote decides the proposal it completes, once and with its effect, or  *)
(* leaves it open.                                                         *)
LEMMA CastVoteKeeps ==
    ASSUME NEW g, OverlayInv(g), NEW inv \in Invocations, inv.command.kind = "Vote",
           NEW h \in cast_vote(g, inv)
    PROVE  /\ OverlayInv(h) /\ h.processed = g.processed
           /\ g.proposals[inv.command.proposal].status = "Pending"
           /\ \A c \in CommandIds : c # inv.command.proposal
                                        => h.proposals[c] = g.proposals[c]
<1> DEFINE id == inv.command.proposal
           p == g.proposals[id]
           votes == [p.votes EXCEPT ![inv.issuer] = inv.command.choice]
           q == [p EXCEPT !.votes = votes]
           voted == [g EXCEPT !.proposals[id].votes[inv.issuer] = inv.command.choice]
<1>1. p.status = "Pending" /\ h \in maybe_finalize_from_votes(voted, id)
  BY DEF cast_vote
<1>2. /\ g \in GovernanceStates /\ id \in CommandIds /\ inv.issuer \in Members
      /\ inv.command.choice \in VoteChoices
      /\ g.proposals \in [CommandIds -> Proposals] /\ p \in Proposals
  BY InvocationFields, StateFields DEF OverlayInv
<1>3. votes \in [Members -> VoteChoices \cup {None}]
  BY <1>2, ProposalFields
<1>4. voted = [g EXCEPT !.proposals = [g.proposals EXCEPT ![id] = q]]
  BY <1>2, StateFields, ProposalFields
<1> HIDE DEF votes, voted
<1>5. /\ q \in Proposals /\ q.status = "Pending" /\ q.action = p.action
      /\ q.eligible = p.eligible /\ q.deadline = p.deadline
  BY <1>1, <1>2, <1>3 DEF Proposals
<1>6. /\ ProposalOk(p, g.logical_tick) /\ p.action \in Actions
      /\ p.action.kind = "Kick" => p.action.target \notin p.eligible
      /\ g.logical_tick < p.deadline
  BY <1>1, <1>2 DEF OverlayInv, ProposalsOk, ProposalOk
<1> HIDE DEF q
<1>7. /\ voted.proposals = [g.proposals EXCEPT ![id] = q]
      /\ voted.logical_tick = g.logical_tick /\ voted.effects = g.effects
      /\ voted.kicked = g.kicked /\ voted.connected = g.connected
      /\ voted.points = g.points /\ voted.capabilities = g.capabilities
      /\ voted.redeal_epoch = g.redeal_epoch /\ voted.game_ended = g.game_ended
      /\ voted.processed = g.processed
  BY <1>2, <1>4, StateFields
<1>8. /\ voted.proposals \in [CommandIds -> Proposals] /\ voted.proposals[id] = q
      /\ \A c \in CommandIds : c # id => voted.proposals[c] = g.proposals[c]
  BY <1>2, <1>5, <1>7
<1>9. voted \in GovernanceStates /\ Accounted(voted)
  <2>1. voted \in GovernanceStates
    BY <1>2, <1>4, <1>7, <1>8 DEF GovernanceStates
  <2>2. Accounted(voted)
    BY <1>7 DEF OverlayInv, Accounted
  <2> QED
    BY <2>1, <2>2
<1>10. Picked(g.effects, ByVote(id)) = {}
  BY <1>1, <1>2 DEF OverlayInv, ApprovalsLogged
<1> HIDE DEF id, p
<1>11. ASSUME NEW status \in Statuses \ {"Absent", "Approved"},
              h.proposals[id].status = status,
              h.proposals[id].action = q.action, h.proposals[id].eligible = q.eligible,
              h.proposals[id].votes = q.votes, h.proposals[id].deadline = q.deadline,
              status = "Pending" => /\ ~Majority(q, "Approve") /\ ~Majority(q, "Reject")
                                    /\ ~EveryEligibleVoted(q),
              \A c \in CommandIds : c # id => h.proposals[c] = voted.proposals[c],
              h \in GovernanceStates,
              h.logical_tick = voted.logical_tick, h.effects = voted.effects,
              h.kicked = voted.kicked, h.connected = voted.connected,
              h.points = voted.points, h.capabilities = voted.capabilities,
              h.redeal_epoch = voted.redeal_epoch, h.game_ended = voted.game_ended
       PROVE  OverlayInv(h)
  <2>1. ProposalOk(h.proposals[id], h.logical_tick)
    BY <1>5, <1>6, <1>7, <1>11, SameMajority DEF ProposalOk
  <2>2. ProposalsOk(h)
    BY <1>7, <1>8, <1>11, <2>1 DEF ProposalsOk, OverlayInv
  <2>3. ApprovalsLogged(h)
    BY <1>7, <1>8, <1>10, <1>11 DEF ApprovalsLogged, OverlayInv
  <2>4. Accounted(h)
    BY <1>9, <1>11 DEF Accounted
  <2> QED
    BY <1>11, <2>2, <2>3, <2>4 DEF OverlayInv
<1>12. ASSUME NEW status \in Statuses \ {"Absent", "Approved", "Pending"},
              h = Decided(voted, id, status)
       PROVE  /\ OverlayInv(h) /\ h.processed = g.processed
              /\ \A c \in CommandIds : c # id => h.proposals[c] = g.proposals[c]
  <2>1. /\ h \in GovernanceStates /\ id \in CommandIds
        /\ h.proposals[id] = [q EXCEPT !.status = status]
        /\ \A c \in CommandIds : c # id => h.proposals[c] = voted.proposals[c]
        /\ h.logical_tick = voted.logical_tick /\ h.effects = voted.effects
        /\ h.kicked = voted.kicked /\ h.connected = voted.connected
        /\ h.points = voted.points /\ h.capabilities = voted.capabilities
        /\ h.redeal_epoch = voted.redeal_epoch
        /\ h.game_ended = voted.game_ended /\ h.processed = voted.processed
    BY <1>2, <1>8, <1>9, <1>12, DecidedFields
  <2>2. /\ h.proposals[id].status = status /\ h.proposals[id].action = q.action
        /\ h.proposals[id].eligible = q.eligible /\ h.proposals[id].votes = q.votes
        /\ h.proposals[id].deadline = q.deadline
    BY <1>5, <2>1, ProposalFields
  <2>3. status \in Statuses \ {"Absent", "Approved"} /\ status # "Pending"
    OBVIOUS
  <2>4. OverlayInv(h)
    BY <1>11, <2>1, <2>2, <2>3
  <2> QED
    BY <1>7, <1>8, <2>1, <2>4
<1>13. ASSUME Majority(q, "Approve"),
              NEW k \in apply_effect(voted, "ApprovedVote", id, q.action),
              h = Decided(k, id, "Approved")
       PROVE  /\ OverlayInv(h) /\ h.processed = g.processed
              /\ \A c \in CommandIds : c # id => h.proposals[c] = g.proposals[c]
  <2> DEFINE e == [authority |-> "ApprovedVote", command |-> id, action |-> q.action]
             n == Len(g.effects) + 1
  <2>1. /\ k \in GovernanceStates /\ Accounted(k) /\ k.effects = Append(voted.effects, e)
        /\ k.proposals = voted.proposals /\ k.logical_tick = voted.logical_tick
        /\ k.processed = voted.processed
    BY <1>2, <1>5, <1>6, <1>9, <1>13, EffectApplied
  <2>2. "Approved" \in Statuses
    BY DEF Statuses
  <2>3. /\ h \in GovernanceStates
        /\ h.proposals[id] = [q EXCEPT !.status = "Approved"]
        /\ \A c \in CommandIds : c # id => h.proposals[c] = voted.proposals[c]
        /\ h.logical_tick = voted.logical_tick /\ h.effects = k.effects
        /\ h.kicked = k.kicked /\ h.connected = k.connected
        /\ h.points = k.points /\ h.capabilities = k.capabilities
        /\ h.redeal_epoch = k.redeal_epoch
        /\ h.game_ended = k.game_ended /\ h.processed = voted.processed
    BY <1>2, <1>8, <1>13, <2>1, <2>2, DecidedFields
  <2>4. /\ h.proposals[id].status = "Approved" /\ h.proposals[id].action = q.action
        /\ h.proposals[id].eligible = q.eligible /\ h.proposals[id].votes = q.votes
    BY <1>5, <2>2, <2>3, ProposalFields
  <2>5. ProposalOk(h.proposals[id], h.logical_tick)
    <3>1. Majority(h.proposals[id], "Approve")
      BY <1>13, <2>4, SameMajority
    <3> QED
      BY <1>5, <1>6, <2>4, <3>1 DEF ProposalOk
  <2>6. ProposalsOk(h)
    BY <1>7, <1>8, <2>3, <2>5 DEF ProposalsOk, OverlayInv
  <2>7. Accounted(h)
    BY <2>1, <2>3 DEF Accounted
  <2>8. ApprovalsLogged(h)
    <3>1. /\ e \in Effects /\ e.action = q.action
          /\ \A c \in CommandIds : e \in ByVote(c) <=> c = id
      BY <1>2, <1>5, <1>6 DEF Effects, ByVote
    <3>2. g.effects \in Seq(Effects) /\ h.effects = Append(g.effects, e)
      BY <1>2, <1>7, <2>1, <2>3, StateFields
    <3> HIDE DEF e, n
    <3>3. /\ \A sort :
                /\ e \in sort => Picked(h.effects, sort) = Picked(g.effects, sort) \cup {n}
                /\ e \notin sort => Picked(h.effects, sort) = Picked(g.effects, sort)
                /\ \A i \in Picked(g.effects, sort) : h.effects[i] = g.effects[i]
          /\ h.effects[n] = e
      <4>1. \A sort :
               /\ e \in sort => Picked(Append(g.effects, e), sort)
                                  = Picked(g.effects, sort) \cup {n}
               /\ e \notin sort => Picked(Append(g.effects, e), sort) = Picked(g.effects, sort)
               /\ \A i \in Picked(g.effects, sort) : Append(g.effects, e)[i] = g.effects[i]
        BY <3>1, <3>2, PickedGrows, Zenon DEF n
      <4>2. Append(g.effects, e)[n] = e
        BY <3>1, <3>2 DEF n
      <4> QED
        BY <3>2, <4>1, <4>2, Zenon
    <3>4. Picked(h.effects, ByVote(id)) = {n} /\ h.effects[n].action = q.action
      <4>1. e \in ByVote(id)
        BY <1>2, <3>1
      <4>2. Picked(h.effects, ByVote(id)) = {} \cup {n}
        BY <1>10, <3>3, <4>1, Zenon
      <4> QED
        BY <3>1, <3>3, <4>2
    <3>5. \A c \in CommandIds : c # id =>
             /\ Picked(h.effects, ByVote(c)) = Picked(g.effects, ByVote(c))
             /\ \A i \in Picked(g.effects, ByVote(c)) : h.effects[i] = g.effects[i]
      BY <3>1, <3>3, Zenon
    <3>6. \A c \in CommandIds : c # id => h.proposals[c] = g.proposals[c]
      BY <1>8, <2>3
    <3> SUFFICES ASSUME NEW c \in CommandIds
                 PROVE  IF h.proposals[c].status = "Approved"
                        THEN \E i \in Picked(h.effects, ByVote(c)) :
                                /\ Picked(h.effects, ByVote(c)) = {i}
                                /\ h.effects[i].action = h.proposals[c].action
                        ELSE Picked(h.effects, ByVote(c)) = {}
      BY DEF ApprovalsLogged
    <3>7. CASE c = id
      <4>1. /\ n \in Picked(h.effects, ByVote(c)) /\ Picked(h.effects, ByVote(c)) = {n}
            /\ h.effects[n].action = h.proposals[c].action
            /\ h.proposals[c].status = "Approved"
        BY <2>4, <3>4, <3>7
      <4> QED
        BY <4>1, Zenon
    <3>8. CASE c # id
      BY <3>5, <3>6, <3>8, Zenon DEF ApprovalsLogged, OverlayInv
    <3> QED
      BY <3>7, <3>8
  <2> QED
    BY <1>7, <1>8, <2>3, <2>6, <2>7, <2>8 DEF OverlayInv
<1>14. ASSUME h = voted, ~Majority(q, "Approve"), ~Majority(q, "Reject"),
              ~EveryEligibleVoted(q)
       PROVE  /\ OverlayInv(h) /\ h.processed = g.processed
              /\ \A c \in CommandIds : c # id => h.proposals[c] = g.proposals[c]
  <2>1. "Pending" \in Statuses \ {"Absent", "Approved"}
    BY DEF Statuses
  <2>2. OverlayInv(h)
    BY <1>5, <1>8, <1>9, <1>11, <1>14, <2>1
  <2> QED
    BY <1>7, <1>8, <1>14, <2>2
<1>15. /\ OverlayInv(h) /\ h.processed = g.processed
       /\ \A c \in CommandIds : c # id => h.proposals[c] = g.proposals[c]
  <2>1. {"MajorityRejected", "AllVotesNoMajority"}
           \subseteq Statuses \ {"Absent", "Approved", "Pending"}
    BY DEF Statuses
  <2>2. CASE Majority(q, "Approve")
    <3>1. PICK k \in apply_effect(voted, "ApprovedVote", id, q.action) :
             h = Decided(k, id, "Approved")
      BY <1>1, <1>8, <2>2 DEF maybe_finalize_from_votes
    <3> QED
      BY <1>13, <2>2, <3>1
  <2>3. CASE ~Majority(q, "Approve") /\ Majority(q, "Reject")
    <3>1. h = Decided(voted, id, "MajorityRejected")
      BY <1>1, <1>8, <2>3 DEF maybe_finalize_from_votes
    <3> QED
      BY <1>12, <2>1, <3>1
  <2>4. CASE ~Majority(q, "Approve") /\ ~Majority(q, "Reject") /\ EveryEligibleVoted(q)
    <3>1. h = Decided(voted, id, "AllVotesNoMajority")
      BY <1>1, <1>8, <2>4 DEF maybe_finalize_from_votes
    <3> QED
      BY <1>12, <2>1, <3>1
  <2>5. CASE ~Majority(q, "Approve") /\ ~Majority(q, "Reject") /\ ~EveryEligibleVoted(q)
    <3>1. h = voted
      BY <1>1, <1>8, <2>5 DEF maybe_finalize_from_votes
    <3> QED
      BY <1>14, <2>5, <3>1
  <2> QED
    BY <2>2, <2>3, <2>4, <2>5
<1> QED
  BY <1>1, <1>15 DEF id, p

-----------------------------------------------------------------------------
(* submit: the deadlines, the command and the receipt.                     *)

LEMMA ProcessedFields ==
    ASSUME NEW g, OverlayInv(g), NEW id \in CommandIds
    PROVE  LET h == [g EXCEPT !.processed = @ \cup {id}]
           IN  OverlayInv(h) /\ h.proposals = g.proposals /\ h.processed = g.processed \cup {id}
<1> DEFINE h == [g EXCEPT !.processed = @ \cup {id}]
<1>1. g \in GovernanceStates
  BY DEF OverlayInv
<1>2. /\ h.proposals = g.proposals /\ h.logical_tick = g.logical_tick
      /\ h.effects = g.effects /\ h.kicked = g.kicked /\ h.connected = g.connected
      /\ h.points = g.points /\ h.capabilities = g.capabilities
      /\ h.redeal_epoch = g.redeal_epoch /\ h.game_ended = g.game_ended
      /\ h.processed = g.processed \cup {id}
  BY <1>1, StateFields
<1>3. h \in GovernanceStates
  BY <1>1 DEF GovernanceStates
<1> HIDE DEF h
<1>4. ProposalsOk(h) /\ ApprovalsLogged(h) /\ Accounted(h)
  BY <1>2 DEF OverlayInv, ProposalsOk, ApprovalsLogged, Accounted
<1>5. OverlayInv(h) /\ h.proposals = g.proposals /\ h.processed = g.processed \cup {id}
  BY <1>2, <1>3, <1>4 DEF OverlayInv
<1> QED
  BY <1>5 DEF h

LEMMA SubmitKeeps ==
    ASSUME NEW g, OverlayInv(g), Recorded(g, g.processed), NEW inv \in Invocations,
           NEW f \in submit(g, inv)
    PROVE  OverlayInv(f) /\ Recorded(f, f.processed) /\ Final(g, f)
<1> DEFINE now == advance_to(g, inv.tick)
<1>1. /\ inv.id \notin g.processed /\ g.logical_tick <= inv.tick
      /\ \E h \in submit_unchecked(g, inv) : f = [h EXCEPT !.processed = @ \cup {inv.id}]
  BY DEF submit
<1>2. PICK h \in submit_unchecked(g, inv) : f = [h EXCEPT !.processed = @ \cup {inv.id}]
  BY <1>1
<1>3. inv.id \in CommandIds /\ inv.tick \in 0 .. MaxTick
  BY InvocationFields
<1>4. /\ OverlayInv(now) /\ Final(g, now) /\ Recorded(now, g.processed)
      /\ now.processed = g.processed /\ now.logical_tick = inv.tick
  <2>1. g \in GovernanceStates
    BY DEF OverlayInv
  <2> QED
    BY <1>1, <1>3, <2>1, AdvanceKeeps, AdvanceFields
<1> HIDE DEF now
<1>5. now.proposals[inv.id].status = "Absent"
  BY <1>1, <1>3, <1>4 DEF Recorded
<1>6. /\ OverlayInv(h) /\ h.processed = g.processed
      /\ \A c \in CommandIds :
            \/ h.proposals[c] = now.proposals[c]
            \/ c = inv.id
            \/ now.proposals[c].status = "Pending"
  <2>1. CASE inv.command.kind = "Execute"
    <3>1. h \in execute(now, inv)
      BY <1>2, <2>1 DEF submit_unchecked, now
    <3> QED
      BY <1>4, <2>1, <3>1, ExecuteKeeps
  <2>2. CASE inv.command.kind = "StartVote"
    <3>1. h \in start_vote(now, inv)
      BY <1>2, <2>2 DEF submit_unchecked, now
    <3> QED
      BY <1>4, <1>5, <2>2, <3>1, StartVoteKeeps
  <2>3. CASE inv.command.kind = "Vote"
    <3>1. h \in cast_vote(now, inv)
      BY <1>2, <2>3 DEF submit_unchecked, now
    <3> QED
      BY <1>4, <2>3, <3>1, CastVoteKeeps
  <2> QED
    BY <2>1, <2>2, <2>3, InvocationFields
<1>7. /\ OverlayInv(f) /\ f.proposals = h.proposals
      /\ f.processed = g.processed \cup {inv.id}
  BY <1>2, <1>3, <1>6, ProcessedFields
<1>8. Recorded(f, f.processed)
  BY <1>4, <1>6, <1>7 DEF Recorded
<1>9. Final(g, f)
  <2> SUFFICES ASSUME NEW c \in CommandIds,
                      g.proposals[c].status \notin {"Absent", "Pending"}
               PROVE  f.proposals[c] = g.proposals[c]
    BY DEF Final
  <2>1. now.proposals[c] = g.proposals[c] /\ c # inv.id
    BY <1>4, <1>5 DEF Final
  <2> QED
    BY <1>6, <1>7, <2>1
<1> QED
  BY <1>7, <1>8, <1>9

-----------------------------------------------------------------------------
LEMMA GovInitHolds == GovInit => OverlayInv(gov) /\ Recorded(gov, gov.processed)
<1> SUFFICES ASSUME GovInit PROVE OverlayInv(gov) /\ Recorded(gov, gov.processed)
  OBVIOUS
<1>1. /\ gov.logical_tick = 0 /\ gov.connected = Members /\ gov.kicked = {}
      /\ gov.points = [m \in Members |-> 0] /\ gov.capabilities = {} /\ gov.accused = {}
      /\ gov.proposals = [c \in CommandIds |-> NoProposal] /\ gov.effects = <<>>
      /\ gov.processed = {} /\ gov.redeal_epoch = 0 /\ gov.game_ended = FALSE
  BY DEF GovInit, NewGovernance
<1>2. NoProposal \in Proposals /\ NoProposal.status = "Absent"
  BY GovernanceAssumption DEF NoProposal, Proposals, Statuses, NoVotes
<1>3. gov \in GovernanceStates
  <2>1. /\ 0 \in 0 .. MaxTick /\ <<>> \in Seq(Effects)
        /\ [m \in Members |-> 0] \in [Members -> Nat]
        /\ [c \in CommandIds |-> NoProposal] \in [CommandIds -> Proposals]
    BY <1>2, GovernanceAssumption
  <2> QED
    BY <2>1 DEF GovInit, NewGovernance, GovernanceStates
<1>4. \A c \in CommandIds : gov.proposals[c].status = "Absent"
  BY <1>1, <1>2
<1>5. \A sort : Picked(gov.effects, sort) = {}
  BY <1>1 DEF Picked
<1>6. ProposalsOk(gov) /\ ApprovalsLogged(gov) /\ Recorded(gov, gov.processed)
  BY <1>4, <1>5 DEF ProposalsOk, ProposalOk, ApprovalsLogged, Recorded
<1>7. Accounted(gov)
  BY <1>1, <1>5, FS_EmptySet DEF Accounted
<1> QED
  BY <1>3, <1>6, <1>7 DEF OverlayInv

(* The calls that are not commands.                                        *)
LEMMA PlainCallKeeps ==
    ASSUME OverlayInv(gov), Recorded(gov, gov.processed), gov' \in GovernanceStates,
           gov'.proposals = gov.proposals, gov'.logical_tick = gov.logical_tick,
           gov'.effects = gov.effects, gov'.kicked = gov.kicked,
           gov'.points = gov.points, gov'.redeal_epoch = gov.redeal_epoch,
           gov'.game_ended = gov.game_ended, gov'.processed = gov.processed,
           \A m \in gov.kicked :
               /\ m \in gov'.connected => m \in gov.connected
               /\ \A right \in Capabilities :
                     <<m, right>> \in gov'.capabilities => <<m, right>> \in gov.capabilities
    PROVE  OverlayInv(gov') /\ Recorded(gov', gov'.processed) /\ Final(gov, gov')
<1>1. Accounted(gov')
  BY DEF OverlayInv, Accounted
<1>2. ProposalsOk(gov') /\ ApprovalsLogged(gov') /\ Recorded(gov', gov'.processed)
      /\ Final(gov, gov')
  BY DEF OverlayInv, ProposalsOk, ApprovalsLogged, Recorded, Final
<1> QED
  BY <1>1, <1>2 DEF OverlayInv

LEMMA GovNextKeeps ==
    ASSUME OverlayInv(gov), Recorded(gov, gov.processed), [GovNext]_gov
    PROVE  OverlayInv(gov') /\ Recorded(gov', gov'.processed) /\ Final(gov, gov')
<1>0. gov \in GovernanceStates
  BY DEF OverlayInv
<1>1. CASE UNCHANGED gov
  BY <1>1 DEF Final
<1>2. ASSUME NEW grant \in Bootstrap, AddBootstrapCapability(grant[1], grant[2])
      PROVE  OverlayInv(gov') /\ Recorded(gov', gov'.processed) /\ Final(gov, gov')
  <2> DEFINE held == gov.capabilities \cup {<<grant[1], grant[2]>>}
  <2>1. held \in SUBSET (Members \X Capabilities)
    BY <1>0, StateFields, GovernanceAssumption
  <2>2. gov' = [gov EXCEPT !.capabilities = held] /\ grant[1] \notin gov.kicked
    BY <1>2 DEF AddBootstrapCapability
  <2>3. \A m \in gov.kicked : \A right \in Capabilities :
           <<m, right>> \in held => <<m, right>> \in gov.capabilities
    BY <2>2
  <2> HIDE DEF held
  <2>4. gov' \in GovernanceStates
    BY <1>0, <2>1, <2>2 DEF GovernanceStates
  <2>5. /\ gov'.proposals = gov.proposals /\ gov'.logical_tick = gov.logical_tick
        /\ gov'.effects = gov.effects /\ gov'.kicked = gov.kicked
        /\ gov'.points = gov.points /\ gov'.redeal_epoch = gov.redeal_epoch
        /\ gov'.game_ended = gov.game_ended /\ gov'.processed = gov.processed
        /\ gov'.connected = gov.connected /\ gov'.capabilities = held
    BY <1>0, <2>2, StateFields
  <2> QED
    BY <2>3, <2>4, <2>5, PlainCallKeeps
<1>3. ASSUME NEW m \in Members, NEW up \in BOOLEAN, SetConnected(m, up)
      PROVE  OverlayInv(gov') /\ Recorded(gov', gov'.processed) /\ Final(gov, gov')
  <2> DEFINE connected == IF up THEN gov.connected \cup {m} ELSE gov.connected \ {m}
  <2>1. connected \in SUBSET Members /\ m \notin gov.kicked
        /\ \A n \in connected : n = m \/ n \in gov.connected
    BY <1>0, <1>3, StateFields DEF SetConnected
  <2>2. gov' = [gov EXCEPT !.connected = connected]
    BY <1>3 DEF SetConnected
  <2> HIDE DEF connected
  <2>3. gov' \in GovernanceStates
    BY <1>0, <2>1, <2>2 DEF GovernanceStates
  <2>4. /\ gov'.proposals = gov.proposals /\ gov'.logical_tick = gov.logical_tick
        /\ gov'.effects = gov.effects /\ gov'.kicked = gov.kicked
        /\ gov'.points = gov.points /\ gov'.redeal_epoch = gov.redeal_epoch
        /\ gov'.game_ended = gov.game_ended /\ gov'.processed = gov.processed
        /\ gov'.connected = connected /\ gov'.capabilities = gov.capabilities
    BY <1>0, <2>2, StateFields
  <2> QED
    BY <2>1, <2>3, <2>4, PlainCallKeeps
<1>4. ASSUME NEW finding \in Findings, RegisterConfirmedFinding(finding)
      PROVE  OverlayInv(gov') /\ Recorded(gov', gov'.processed) /\ Final(gov, gov')
  <2>1. gov' = [gov EXCEPT !.accused = gov.accused \cup {finding}]
    BY <1>4 DEF RegisterConfirmedFinding
  <2>2. gov' \in GovernanceStates
    BY <1>0, <2>1 DEF GovernanceStates
  <2>3. /\ gov'.proposals = gov.proposals /\ gov'.logical_tick = gov.logical_tick
        /\ gov'.effects = gov.effects /\ gov'.kicked = gov.kicked
        /\ gov'.points = gov.points /\ gov'.redeal_epoch = gov.redeal_epoch
        /\ gov'.game_ended = gov.game_ended /\ gov'.processed = gov.processed
        /\ gov'.connected = gov.connected /\ gov'.capabilities = gov.capabilities
    BY <1>0, <2>1, StateFields
  <2> QED
    BY <2>2, <2>3, PlainCallKeeps
<1>5. ASSUME NEW inv \in Invocations, Submit(inv)
      PROVE  OverlayInv(gov') /\ Recorded(gov', gov'.processed) /\ Final(gov, gov')
  BY <1>5, SubmitKeeps DEF Submit
<1>6. ASSUME NEW tick \in 0 .. MaxTick, AdvanceTo(tick)
      PROVE  OverlayInv(gov') /\ Recorded(gov', gov'.processed) /\ Final(gov, gov')
  <2>1. gov.logical_tick <= tick /\ gov' = advance_to(gov, tick)
    BY <1>6 DEF AdvanceTo
  <2>2. gov'.processed = gov.processed
    BY <1>0, <2>1, AdvanceFields
  <2> QED
    BY <2>1, <2>2, AdvanceKeeps
<1> QED
  BY <1>1, <1>2, <1>3, <1>4, <1>5, <1>6 DEF GovNext

GovernanceInv == OverlayInv(gov) /\ Recorded(gov, gov.processed)

LEMMA GovernanceInvHolds == GovSpec => []GovernanceInv
<1>1. GovInit => GovernanceInv
  BY GovInitHolds DEF GovernanceInv
<1>2. GovernanceInv /\ [GovNext]_gov => GovernanceInv'
  BY GovNextKeeps DEF GovernanceInv
<1> QED
  BY <1>1, <1>2, PTL DEF GovSpec

(* For any roster, actions and commands: the overlay is well formed and a  *)
(* pending proposal is open (submit, advance_to).                          *)
THEOREM PendingStaysOpen == GovSpec => []GovInv
<1>1. GovernanceInv => GovInv
  <2> SUFFICES ASSUME GovernanceInv PROVE GovInv
    OBVIOUS
  <2>1. \A c \in CommandIds : gov.proposals[c].status = "Pending" =>
           /\ ~Majority(gov.proposals[c], "Approve") /\ ~Majority(gov.proposals[c], "Reject")
           /\ ~EveryEligibleVoted(gov.proposals[c])
           /\ gov.logical_tick < gov.proposals[c].deadline
    BY DEF GovernanceInv, OverlayInv, ProposalsOk, ProposalOk
  <2> QED
    BY <2>1 DEF GovernanceInv, OverlayInv, GovInv, GovTypeOK, PendingIsUndecided
<1> QED
  BY <1>1, GovernanceInvHolds, PTL

(* For any roster, actions and commands: a proposal is approved exactly    *)
(* when its one effect is in the log, with a majority of those eligible    *)
(* when it opened (maybe_finalize_from_votes, apply_effect).               *)
THEOREM EveryApprovalHasItsEffect == GovSpec => []ApprovalsAreEffects
<1>1. GovernanceInv => ApprovalsAreEffects
  <2> SUFFICES ASSUME GovernanceInv PROVE ApprovalsAreEffects
    OBVIOUS
  <2>1. gov.effects \in Seq(Effects)
    BY StateFields DEF GovernanceInv, OverlayInv
  <2>2. \A i \in DOMAIN gov.effects : gov.effects[i] \in Effects
    BY <2>1
  <2>3. \A c \in CommandIds : VoteEffects(c) = Picked(gov.effects, ByVote(c))
    BY <2>2 DEF VoteEffects, Picked, ByVote
  <2>4. \A c \in CommandIds : gov.proposals[c].status = "Approved"
                                 => Majority(gov.proposals[c], "Approve")
    BY DEF GovernanceInv, OverlayInv, ProposalsOk, ProposalOk
  <2> QED
    BY <2>3, <2>4 DEF GovernanceInv, OverlayInv, ApprovalsLogged, ApprovalsAreEffects
<1> QED
  BY <1>1, GovernanceInvHolds, PTL

(* For any roster, actions and commands: the effect log accounts for every *)
(* score, kick, redeal and end of the game, and a kicked member is offline *)
(* and without rights (apply_effect, set_connected).                       *)
THEOREM LogAccounts == GovSpec => []EffectsAccount
<1>1. GovernanceInv => EffectsAccount
  <2> SUFFICES ASSUME GovernanceInv PROVE EffectsAccount
    OBVIOUS
  <2>1. gov.effects \in Seq(Effects)
    BY StateFields DEF GovernanceInv, OverlayInv
  <2>2. \A i \in DOMAIN gov.effects : gov.effects[i] \in Effects
    BY <2>1
  <2>3. /\ \A m \in Members, kind \in {"Kick", "AdjustScore"} :
              EffectsOn(kind, m) = Picked(gov.effects, On(kind, m))
        /\ \A kind \in {"Redeal", "EndGame"} :
              EffectsOf(kind) = Picked(gov.effects, Of(kind))
    BY <2>2 DEF EffectsOn, EffectsOf, Picked, On, Of
  <2> QED
    BY <2>3 DEF GovernanceInv, OverlayInv, Accounted, EffectsAccount
<1> QED
  BY <1>1, GovernanceInvHolds, PTL

(* For any roster: the target of an approved kick did not decide it        *)
(* (eligibility_for).                                                      *)
THEOREM TargetsDoNotDecide == GovSpec => []TargetDoesNotDecide
<1>1. GovernanceInv => TargetDoesNotDecide
  <2> SUFFICES ASSUME GovernanceInv, NEW c \in CommandIds,
                      gov.proposals[c].status = "Approved",
                      gov.proposals[c].action.kind = "Kick"
               PROVE  LET p == gov.proposals[c]
                      IN  2 * Cardinality(Counted(p, "Approve") \ {p.action.target})
                             > Cardinality(p.eligible \ {p.action.target})
    BY DEF TargetDoesNotDecide
  <2> DEFINE p == gov.proposals[c]
  <2>1. p \in Proposals /\ Majority(p, "Approve") /\ p.action.target \notin p.eligible
    BY StateFields DEF GovernanceInv, OverlayInv, ProposalsOk, ProposalOk
  <2> HIDE DEF p
  <2>2. /\ Counted(p, "Approve") \ {p.action.target} = Counted(p, "Approve")
        /\ p.eligible \ {p.action.target} = p.eligible
    BY <2>1 DEF Counted
  <2>3. Cardinality(Counted(p, "Approve")) \in Nat /\ Cardinality(p.eligible) \in Nat
    BY <2>1, EligibleFinite
  <2>4. 2 * Cardinality(Counted(p, "Approve")) > Cardinality(p.eligible)
    BY <2>1, <2>3 DEF Majority
  <2> QED
    BY <2>2, <2>4 DEF p
<1> QED
  BY <1>1, GovernanceInvHolds, PTL

(* For any roster, actions and commands: what was decided stays decided,   *)
(* its votes included (cast_vote, advance_to).                             *)
THEOREM DecisionsStay == GovSpec => DecisionsAreFinal
<1>1. GovernanceInv /\ [GovNext]_gov => Final(gov, gov')
  BY GovNextKeeps DEF GovernanceInv
<1>2. Final(gov, gov') => [\A c \in CommandIds :
          gov.proposals[c].status \notin {"Absent", "Pending"}
              => gov'.proposals[c] = gov.proposals[c]]_gov
  BY DEF Final
<1> QED
  BY <1>1, <1>2, GovernanceInvHolds, PTL DEF GovSpec, DecisionsAreFinal
-----------------------------------------------------------------------------
(* The trustless round: the loop over the effects of one command.          *)

(* A set of numbers that has 0 and with each number the next has all of    *)
(* them: induction, for sets.                                              *)
LEMMA EveryNumber ==
    ASSUME NEW S, 0 \in S, \A n \in Nat : n \in S => n + 1 \in S
    PROVE  Nat \subseteq S
<1> SUFFICES ASSUME Nat \ S # {} PROVE FALSE
  OBVIOUS
<1>1. PICK m \in Nat \ S : \A k \in Nat \ S : ~(<<k, m>> \in OpToRel(<, Nat))
  <2>1. Nat \ S \in SUBSET Nat
    OBVIOUS
  <2> QED
    BY <2>1, NatLessThanWellFounded, WFMin
<1>2. \A k \in Nat \ S : ~(k < m)
  BY <1>1 DEF OpToRel
<1>3. m # 0 /\ m - 1 \in Nat
  OBVIOUS
<1>4. m - 1 \in S
  BY <1>2, <1>3
<1> QED
  BY <1>3, <1>4

(* The function that the definition of AfterEffects chooses exists.        *)
Passes(r, g, new, n, f) ==
    f = [i \in 0 .. n |->
            IF i = 0 THEN r ELSE Reconciled(f[i - 1], g, new[i].action)]

LEMMA PassesExist ==
    ASSUME NEW r, NEW g, NEW new, NEW n \in Nat
    PROVE  \E f : Passes(r, g, new, n, f)
<1> DEFINE S == {m \in Nat : \E f : Passes(r, g, new, m, f)}
<1>1. 0 \in S
  <2>1. Passes(r, g, new, 0, [i \in 0 .. 0 |-> r])
    BY DEF Passes
  <2> QED
    BY <2>1
<1>2. ASSUME NEW m \in Nat, m \in S PROVE m + 1 \in S
  <2>1. PICK f : Passes(r, g, new, m, f)
    BY <1>2
  <2> DEFINE h == [i \in 0 .. (m + 1) |->
                      IF i <= m THEN f[i] ELSE Reconciled(f[m], g, new[i].action)]
  <2>2. \A i \in 0 .. m : f[i] = IF i = 0 THEN r
                                 ELSE Reconciled(f[i - 1], g, new[i].action)
    BY <2>1 DEF Passes
  <2>3. ASSUME NEW i \in 0 .. (m + 1)
        PROVE  h[i] = IF i = 0 THEN r ELSE Reconciled(h[i - 1], g, new[i].action)
    <3>1. CASE i <= m
      <4>1. h[i] = f[i] /\ (i # 0 => h[i - 1] = f[i - 1]) /\ i \in 0 .. m
        BY <3>1
      <4> QED
        BY <2>2, <4>1
    <3>2. CASE i = m + 1
      <4>1. h[i] = Reconciled(f[m], g, new[i].action) /\ i # 0
        BY <3>2
      <4>2. h[i - 1] = f[m]
        BY <3>2
      <4> QED
        BY <4>1, <4>2
    <3> QED
      BY <3>1, <3>2
  <2>4. Passes(r, g, new, m + 1, h)
    <3>1. h = [i \in 0 .. (m + 1) |-> h[i]]
      OBVIOUS
    <3> HIDE DEF h
    <3> QED
      BY <2>3, <3>1 DEF Passes
  <2> HIDE DEF h
  <2> QED
    BY <2>4
<1> QED
  <2> HIDE DEF S
  <2>1. Nat \subseteq S
    BY <1>1, <1>2, EveryNumber
  <2> QED
    BY <2>1 DEF S

(* So the loop takes the new effects one by one.                           *)
LEMMA EffectsTakenInOrder ==
    ASSUME NEW r, NEW g, Len(NewEffects(r, g)) \in Nat
    PROVE  \E f : /\ AfterEffects(r, g) = f[Len(NewEffects(r, g))]
                  /\ f[0] = r
                  /\ \A i \in 1 .. Len(NewEffects(r, g)) :
                         f[i] = Reconciled(f[i - 1], g, NewEffects(r, g)[i].action)
<1> DEFINE new == NewEffects(r, g)
           n == Len(new)
           h == CHOOSE f : Passes(r, g, new, n, f)
<1>1. Passes(r, g, new, n, h)
  BY PassesExist
<1>2. AfterEffects(r, g) = h[n]
  BY DEF AfterEffects, Passes
<1> HIDE DEF h
<1>3. h[0] = r /\ \A i \in 1 .. n : h[i] = Reconciled(h[i - 1], g, new[i].action)
  BY <1>1 DEF Passes
<1> QED
  BY <1>2, <1>3

RoundFields == {"phase", "stage", "abort", "redeal_epoch", "reconciled", "events"}

IsRemedy(action) == action.kind \in {"Redeal", "EndGame"}
Resolution(action) == IF action.kind = "Redeal" THEN "RedealRequired" ELSE "Ended"

LEMMA RemedyIs ==
    /\ DOMAIN Remedy = {"Redeal", "EndGame"}
    /\ \A action : IsRemedy(action) => Remedy[action.kind] = Resolution(action)
BY DEF Remedy, IsRemedy, Resolution

(* One effect decides a pending recovery if it is a remedy, and touches    *)
(* no other round.                                                         *)
LEMMA ReconciledOnce ==
    ASSUME NEW r, DOMAIN r = RoundFields, NEW g, NEW action
    PROVE  /\ DOMAIN Reconciled(r, g, action) = RoundFields
           /\ Reconciled(r, g, action).abort = r.abort
           /\ r.phase # "RecoveryPending" => Reconciled(r, g, action) = r
           /\ r.phase = "RecoveryPending" =>
                 Reconciled(r, g, action).phase =
                    IF IsRemedy(action) THEN Resolution(action) ELSE "RecoveryPending"
<1>1. CASE r.phase # "RecoveryPending"
  BY <1>1 DEF Reconciled
<1>2. CASE r.phase = "RecoveryPending" /\ action.kind = "Kick"
  BY <1>2 DEF Reconciled, IsRemedy, Resolution, RoundFields
<1>3. CASE r.phase = "RecoveryPending" /\ action.kind = "Redeal"
  BY <1>3 DEF Reconciled, IsRemedy, Resolution, RoundFields
<1>4. CASE r.phase = "RecoveryPending" /\ action.kind = "EndGame"
  BY <1>4 DEF Reconciled, IsRemedy, Resolution, RoundFields
<1>5. CASE r.phase = "RecoveryPending"
           /\ action.kind \notin {"Kick", "Redeal", "EndGame"}
  BY <1>5 DEF Reconciled, IsRemedy, Resolution
<1> QED
  BY <1>1, <1>2, <1>3, <1>4, <1>5

(* A pending recovery is decided by the first remedy of a log.             *)
FirstRemedy(log, i) ==
    /\ i \in DOMAIN log /\ IsRemedy(log[i].action)
    /\ \A j \in 1 .. (i - 1) : ~IsRemedy(log[j].action)

DecidedBy(r, x, log, n) ==
    /\ DOMAIN x = RoundFields /\ x.abort = r.abort
    /\ r.phase # "RecoveryPending" => x = r
    /\ r.phase = "RecoveryPending" =>
          \/ x.phase = "RecoveryPending" /\ \A j \in 1 .. n : ~IsRemedy(log[j].action)
          \/ \E i \in 1 .. n : FirstRemedy(log, i)
                               /\ x.phase = Resolution(log[i].action)

LEMMA ReconciledAgain ==
    ASSUME NEW r, NEW x, NEW g, NEW log, NEW n \in Nat, n + 1 \in DOMAIN log,
           DecidedBy(r, x, log, n)
    PROVE  DecidedBy(r, Reconciled(x, g, log[n + 1].action), log, n + 1)
<1> DEFINE action == log[n + 1].action
           y == Reconciled(x, g, action)
<1> SUFFICES DecidedBy(r, y, log, n + 1)
  OBVIOUS
<1>1. /\ DOMAIN y = RoundFields /\ y.abort = r.abort
      /\ x.phase # "RecoveryPending" => y = x
      /\ x.phase = "RecoveryPending" =>
            y.phase = IF IsRemedy(action) THEN Resolution(action) ELSE "RecoveryPending"
  BY ReconciledOnce DEF DecidedBy
<1> HIDE DEF y
<1>2. CASE r.phase # "RecoveryPending"
  BY <1>1, <1>2 DEF DecidedBy
<1>3. CASE /\ r.phase = "RecoveryPending" /\ x.phase = "RecoveryPending"
           /\ \A j \in 1 .. n : ~IsRemedy(log[j].action)
  <2>1. CASE IsRemedy(action)
    <3>1. FirstRemedy(log, n + 1) /\ y.phase = Resolution(action)
      BY <1>1, <1>3, <2>1 DEF FirstRemedy
    <3> QED
      BY <1>1, <1>3, <3>1 DEF DecidedBy
  <2>2. CASE ~IsRemedy(action)
    <3>1. y.phase = "RecoveryPending"
          /\ \A j \in 1 .. (n + 1) : ~IsRemedy(log[j].action)
      BY <1>1, <1>3, <2>2
    <3> QED
      BY <1>1, <1>3, <3>1 DEF DecidedBy
  <2> QED
    BY <2>1, <2>2
<1>4. ASSUME r.phase = "RecoveryPending", NEW i \in 1 .. n, FirstRemedy(log, i),
             x.phase = Resolution(log[i].action)
      PROVE  DecidedBy(r, y, log, n + 1)
  <2>1. x.phase # "RecoveryPending"
    BY <1>4 DEF Resolution
  <2>2. y = x /\ i \in 1 .. (n + 1)
    BY <1>1, <2>1
  <2> QED
    BY <1>1, <1>4, <2>2 DEF DecidedBy
<1> QED
  BY <1>2, <1>3, <1>4 DEF DecidedBy

LEMMA EffectsDecide ==
    ASSUME NEW r, DOMAIN r = RoundFields, NEW g, NewEffects(r, g) \in Seq(Effects)
    PROVE  DecidedBy(r, AfterEffects(r, g), NewEffects(r, g), Len(NewEffects(r, g)))
<1> DEFINE new == NewEffects(r, g)
<1>1. Len(new) \in Nat /\ DOMAIN new = 1 .. Len(new)
  OBVIOUS
<1>2. PICK f : /\ AfterEffects(r, g) = f[Len(new)] /\ f[0] = r
               /\ \A i \in 1 .. Len(new) : f[i] = Reconciled(f[i - 1], g, new[i].action)
  BY <1>1, EffectsTakenInOrder
<1> HIDE DEF new
<1> DEFINE S == {n \in Nat : n <= Len(new) => DecidedBy(r, f[n], new, n)}
<1>3. 0 \in S
  <2>1. DecidedBy(r, r, new, 0)
    BY DEF DecidedBy
  <2> QED
    BY <1>2, <2>1
<1>4. ASSUME NEW n \in Nat, n \in S PROVE n + 1 \in S
  <2> SUFFICES ASSUME n + 1 <= Len(new) PROVE DecidedBy(r, f[n + 1], new, n + 1)
    OBVIOUS
  <2>1. n + 1 \in DOMAIN new /\ DecidedBy(r, f[n], new, n)
    BY <1>1, <1>4
  <2>2. f[n + 1] = Reconciled(f[n], g, new[n + 1].action)
    BY <1>1, <1>2, <2>1
  <2> QED
    BY <2>1, <2>2, ReconciledAgain
<1> HIDE DEF S
<1>5. Nat \subseteq S
  BY <1>3, <1>4, EveryNumber
<1>6. DecidedBy(r, f[Len(new)], new, Len(new))
  BY <1>1, <1>5 DEF S
<1> QED
  BY <1>2, <1>6 DEF new

-----------------------------------------------------------------------------
(* The trustless round: its steps.                                         *)

(* Every effect was reconciled, and an aborted round is not active.        *)
RoundInv ==
    /\ OverlayInv(gov) /\ Recorded(gov, gov.processed)
    /\ DOMAIN round = RoundFields
    /\ round.reconciled = Len(gov.effects)
    /\ round.abort # None => round.phase # "Active"

(* What one step of a round does with an abort and with its recovery.      *)
Resolves ==
    round.phase = "RecoveryPending" =>
        LET new == SubSeq(gov'.effects, Len(gov.effects) + 1, Len(gov'.effects))
            remedies == {i \in DOMAIN new : new[i].action.kind \in DOMAIN Remedy}
            first == CHOOSE i \in remedies : \A j \in remedies : i <= j
        IN  round'.phase = IF remedies = {} THEN "RecoveryPending"
                           ELSE Remedy[new[first].action.kind]

Finally ==
    /\ round.abort # None => round'.abort = round.abort
                             /\ round'.phase # "Active"
    /\ round.phase \in {"RedealRequired", "Ended"}
           => round'.phase = round.phase
              /\ round'.redeal_epoch = round.redeal_epoch

(* A step that adds no effect and leaves a pending recovery alone.         *)
LEMMA NoEffectNoResolution ==
    ASSUME OverlayInv(gov), gov'.effects = gov.effects,
           round.phase = "RecoveryPending" => round'.phase = round.phase
    PROVE  Resolves
<1> DEFINE new == SubSeq(gov'.effects, Len(gov.effects) + 1, Len(gov'.effects))
           remedies == {i \in DOMAIN new : new[i].action.kind \in DOMAIN Remedy}
<1>1. gov.effects \in Seq(Effects)
  BY StateFields DEF OverlayInv
<1>2. DOMAIN new = {}
  BY <1>1
<1>3. remedies = {}
  BY <1>2
<1> HIDE DEF new, remedies
<1>4. round.phase = "RecoveryPending" => round'.phase = "RecoveryPending"
  OBVIOUS
<1> QED
  BY <1>3, <1>4 DEF Resolves, new, remedies

LEMMA RoundStepKeeps ==
    ASSUME RoundInv, [RoundNext]_rvars
    PROVE  RoundInv' /\ Resolves /\ Finally
<1>0. gov \in GovernanceStates /\ gov.effects \in Seq(Effects)
  BY StateFields DEF RoundInv, OverlayInv
<1>1. CASE UNCHANGED rvars
  <2>1. gov' = gov /\ round' = round
    BY <1>1 DEF rvars
  <2>2. Resolves
    BY <2>1, NoEffectNoResolution DEF RoundInv
  <2> QED
    BY <2>1, <2>2 DEF RoundInv, Finally
<1>2. CASE Advance
  <2>1. gov' = gov /\ round' = [round EXCEPT !.stage = round.stage + 1]
        /\ round.phase = "Active"
    BY <1>2 DEF Advance
  <2>2. /\ DOMAIN round' = RoundFields /\ round'.reconciled = round.reconciled
        /\ round'.abort = round.abort /\ round'.phase = round.phase
    BY <2>1 DEF RoundInv, RoundFields
  <2>3. Resolves
    BY <2>1, <2>2, NoEffectNoResolution DEF RoundInv
  <2> QED
    BY <2>1, <2>2, <2>3 DEF RoundInv, Finally
<1>3. ASSUME NEW abort \in Aborts, RecordFailure(abort)
      PROVE  RoundInv' /\ Resolves /\ Finally
  <2>1. round.phase = "Active" /\ round.abort = None
    BY <1>3 DEF RecordFailure, MayAbort, RoundInv
  <2>2. UNCHANGED gov \/ SetConnected(abort.subject, FALSE)
    BY <1>3 DEF RecordFailure, SetConnected
  <2>3. abort.subject \in Members
    BY DEF Aborts
  <2>4. [GovNext]_gov
    BY <2>2, <2>3 DEF GovNext
  <2>5. OverlayInv(gov') /\ Recorded(gov', gov'.processed)
    BY <2>4, GovNextKeeps DEF RoundInv
  <2>6. gov'.effects = gov.effects
    BY <1>0, <1>3, StateFields DEF RecordFailure
  <2>7. /\ DOMAIN round' = RoundFields /\ round'.reconciled = round.reconciled
        /\ round'.phase = "RecoveryPending"
    BY <1>3 DEF RecordFailure, RoundInv, RoundFields
  <2>8. Resolves
    BY <2>1, <2>6, NoEffectNoResolution DEF RoundInv
  <2> QED
    BY <2>1, <2>5, <2>6, <2>7, <2>8 DEF RoundInv, Finally
<1>4. ASSUME NEW inv \in Invocations, SubmitGovernance(inv)
      PROVE  RoundInv' /\ Resolves /\ Finally
  <2> DEFINE new == NewEffects(round, gov')
             after == AfterEffects(round, gov')
  <2>1. OverlayInv(gov') /\ Recorded(gov', gov'.processed)
    <3>1. [GovNext]_gov
      BY <1>4 DEF SubmitGovernance, GovNext
    <3> QED
      BY <3>1, GovNextKeeps DEF RoundInv
  <2>2. gov'.effects \in Seq(Effects)
    BY <2>1, StateFields DEF OverlayInv
  <2>3. new = SubSeq(gov'.effects, Len(gov.effects) + 1, Len(gov'.effects))
    BY DEF NewEffects, RoundInv
  <2>4. new \in Seq(Effects)
    <3>1. Len(gov.effects) \in Nat /\ Len(gov'.effects) \in Nat
      BY <1>0, <2>2
    <3> QED
      BY <2>2, <2>3, <3>1
  <2>5. DecidedBy(round, after, new, Len(new))
    BY <2>4, EffectsDecide DEF RoundInv
  <2>6. round' = [after EXCEPT !.reconciled = Len(gov'.effects)]
    BY <1>4 DEF SubmitGovernance, reconcile_effects
  <2>7. /\ DOMAIN round' = RoundFields /\ round'.reconciled = Len(gov'.effects)
        /\ round'.phase = after.phase /\ round'.abort = round.abort
        /\ round'.redeal_epoch = after.redeal_epoch
    BY <2>5, <2>6 DEF DecidedBy, RoundFields
  <2> HIDE DEF new, after
  <2>8. /\ round.phase # "RecoveryPending"
               => after.phase = round.phase /\ after.redeal_epoch = round.redeal_epoch
        /\ round.phase = "RecoveryPending" => after.phase # "Active"
    BY <2>5 DEF DecidedBy, Resolution
  <2>9. RoundInv' /\ Finally
    BY <2>1, <2>7, <2>8 DEF RoundInv, Finally
  <2>10. Resolves
    <3> SUFFICES ASSUME round.phase = "RecoveryPending" PROVE Resolves
      BY DEF Resolves
    <3> DEFINE remedies == {i \in DOMAIN new : new[i].action.kind \in DOMAIN Remedy}
               first == CHOOSE i \in remedies : \A j \in remedies : i <= j
    <3>1. remedies = {i \in DOMAIN new : IsRemedy(new[i].action)}
      BY RemedyIs DEF IsRemedy
    <3>2. DOMAIN new = 1 .. Len(new) /\ Len(new) \in Nat
      BY <2>4
    <3> HIDE DEF remedies
    <3>3. round'.phase = IF remedies = {} THEN "RecoveryPending"
                         ELSE Remedy[new[first].action.kind]
      <4>1. CASE /\ after.phase = "RecoveryPending"
                 /\ \A j \in 1 .. Len(new) : ~IsRemedy(new[j].action)
        BY <2>7, <3>1, <3>2, <4>1
      <4>2. ASSUME NEW i \in 1 .. Len(new), FirstRemedy(new, i),
                   after.phase = Resolution(new[i].action)
            PROVE  round'.phase = IF remedies = {} THEN "RecoveryPending"
                                  ELSE Remedy[new[first].action.kind]
        <5>1. i \in remedies /\ remedies \subseteq Nat
          BY <3>1, <3>2, <4>2 DEF FirstRemedy
        <5>2. \A j \in remedies : i <= j
          BY <3>1, <3>2, <4>2 DEF FirstRemedy
        <5>3. first \in remedies /\ \A j \in remedies : first <= j
          BY <5>1, <5>2
        <5> HIDE DEF first
        <5>4. first = i
          BY <5>1, <5>2, <5>3
        <5>5. Remedy[new[i].action.kind] = Resolution(new[i].action)
          BY <4>2, RemedyIs DEF FirstRemedy
        <5> QED
          BY <2>7, <4>2, <5>1, <5>4, <5>5
      <4> QED
        BY <2>5, <4>1, <4>2 DEF DecidedBy
    <3> QED
      BY <2>3, <3>3, ZenonT(60) DEF Resolves, remedies, first
  <2> QED
    BY <2>9, <2>10
<1> QED
  BY <1>1, <1>2, <1>3, <1>4 DEF RoundNext

LEMMA RoundInvHolds == RoundSpec => []RoundInv
<1>1. RoundInit => RoundInv
  <2> SUFFICES ASSUME RoundInit PROVE RoundInv
    OBVIOUS
  <2>1. OverlayInv(gov) /\ Recorded(gov, gov.processed)
    BY GovInitHolds DEF RoundInit
  <2>2. gov.effects = <<>>
    BY DEF RoundInit, GovInit, NewGovernance
  <2>3. /\ DOMAIN round = RoundFields /\ round.reconciled = 0 /\ round.abort = None
    BY DEF RoundInit, NewRound, NoRound, RoundFields
  <2> QED
    BY <2>1, <2>2, <2>3 DEF RoundInv
<1>2. RoundInv /\ [RoundNext]_rvars => RoundInv'
  BY RoundStepKeeps
<1> QED
  BY <1>1, <1>2, PTL DEF RoundSpec

(* For any roster, commands and effects: a pending recovery is decided     *)
(* exactly by the first redeal or end of the game that governance commits  *)
(* after the abort (reconcile_effects).                                    *)
THEOREM FirstRemedyDecides == RoundSpec => RemedyFollowsAbort
<1>1. RoundInv /\ [RoundNext]_rvars => Resolves
  BY RoundStepKeeps
<1> QED
  BY <1>1, RoundInvHolds, PTL DEF RoundSpec, RemedyFollowsAbort, Resolves

(* For any roster, commands and effects: an aborted hand stays aborted,    *)
(* with its evidence, and its recovery is decided once (advance,           *)
(* record_failure, reconcile_effects).                                     *)
THEOREM AbortsAreFinal == RoundSpec => AbortIsFinal
<1>1. RoundInv /\ [RoundNext]_rvars => Finally
  BY RoundStepKeeps
<1> QED
  BY <1>1, RoundInvHolds, PTL DEF RoundSpec, AbortIsFinal, Finally
=============================================================================
