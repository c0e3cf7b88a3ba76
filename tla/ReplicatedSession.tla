------------------------- MODULE ReplicatedSession -------------------------
(***************************************************************************)
(* The replicated session of poche-session (replicated.rs): replicas that  *)
(* register certified devices, stage revocations and apply events that     *)
(* carry a candidate and the precommits of a strict majority of players.   *)
(*                                                                         *)
(* Signatures cannot be forged: certificates and revocations come from the *)
(* players' roots, and a vote from the device it names.  A candidate hash, *)
(* and the event identifier derived from it, is the candidate itself; it   *)
(* does not cover the votes.  The successor hash is left out: the caller   *)
(* computes it from the candidate.  Events stay in net, so a delivery may  *)
(* be lost, repeated and reordered.                                        *)
(***************************************************************************)
EXTENDS Integers, FiniteSets, Sequences

CONSTANTS
    Replicas,
    Players,        \* player identifiers, which the code orders
    Certificates,   \* what the roots certify: device certificates
    Initial,        \* the certificates given to new
    Revocations,    \* what the roots revoke: devices
    Transitions,    \* player sets and revoked devices a candidate may name
    Commands,       \* ordered_commands of a candidate
    Rounds,
    Ballots,        \* of an instance: the players who precommit together
    MAX_DEVICES_PER_PLAYER,
    MaxHeight, MaxEvents,
    None

Capabilities == {"Propose", "Vote"}

ASSUME ReplicatedSessionAssumption ==
    /\ IsFiniteSet(Players) /\ Players \subseteq Nat /\ Cardinality(Players) >= 2
    /\ IsFiniteSet(Certificates) /\ Initial \subseteq Certificates
    /\ \A c \in Certificates :
          /\ c.player \in Players /\ c.sequence \in Nat \ {0}
          /\ c.from \in Nat \ {0} /\ c.through \in Nat /\ c.from <= c.through
          /\ c.capabilities \subseteq Capabilities
    /\ \A t \in Transitions :
          t.players \subseteq Players /\ Cardinality(t.players) >= 2
    /\ Ballots \subseteq SUBSET Players
    /\ MaxHeight \in Nat /\ MaxEvents \in Nat

VARIABLES
    states,   \* [Replicas -> ReplicatedSessionState]
    net,      \* every event that was ever sent
    signed    \* history: {<<player, height, candidate>>} of the precommits

vars == <<states, net, signed>>

replicated_quorum(n) == n \div 2 + 1

-----------------------------------------------------------------------------
(* Devices.                                                                *)

is_valid_at(c, epoch) == c.from <= epoch /\ epoch <= c.through

(* A staged revocation <<device, epoch>> takes effect in its epoch.        *)
Revoked(s, device, epoch) ==
    \E x \in s.staged : x[1] = device /\ x[2] <= epoch

Voting(s, player, epoch) ==
    {c \in s.devices : /\ c.player = player /\ "Vote" \in c.capabilities
                       /\ is_valid_at(c, epoch) /\ ~Revoked(s, c.device, epoch)}

Authorized(s, player, device, capability, epoch) ==
    /\ player \in s.rosters[epoch]
    /\ \E c \in s.devices :
          /\ c.player = player /\ c.device = device
          /\ is_valid_at(c, epoch) /\ capability \in c.capabilities
          /\ ~Revoked(s, device, epoch)

(* The epochs at which the voting devices of a player may change.          *)
ChangeEpochs(s, player) ==
    {s.epoch}
    \cup UNION {{c.from, c.through + 1} :
                   c \in {d \in s.devices : d.player = player
                                            /\ "Vote" \in d.capabilities}}
    \cup {x[2] : x \in s.staged}

(* Mutant: only the present epoch is looked at. *)
validate_voting_devices_now(s) ==
    \A player \in Players :
        /\ Cardinality(Voting(s, player, s.epoch)) <= 1
        /\ player \in s.active
               => \E c \in Voting(s, player, s.epoch) : "Propose" \in c.capabilities

validate_voting_devices(s) ==
    \A player \in Players :
        /\ \A epoch \in ChangeEpochs(s, player) :
              Cardinality(Voting(s, player, epoch)) <= 1
        /\ player \in s.active
               => \E c \in Voting(s, player, s.epoch) : "Propose" \in c.capabilities

validate(s) ==
    /\ validate_voting_devices(s)
    /\ Cardinality(s.active) >= 2
    /\ s.rosters[Len(s.rosters)] = s.active /\ Len(s.rosters) = s.epoch
    /\ \A player \in Players :
          Cardinality({c \in s.devices : c.player = player}) <= MAX_DEVICES_PER_PLAYER

(* add_certificate_to_players: a new device with a higher sequence.        *)
Addable(s, c) ==
    /\ Cardinality({d \in s.devices : d.player = c.player}) < MAX_DEVICES_PER_PLAYER
    /\ \A d \in s.devices : d.player = c.player
                               => d.device # c.device /\ d.sequence < c.sequence

WithDevice(s, c) == [s EXCEPT !.devices = @ \cup {c}]

Revocable(s, c, epoch) ==
    /\ c \in s.devices /\ c.device \in Revocations /\ is_valid_at(c, s.epoch)
    /\ epoch = s.epoch + 1
    /\ <<c.device, epoch>> \notin s.staged

-----------------------------------------------------------------------------
(* Events.                                                                 *)

(* The proposer of a round: the code takes the index from a hash of the    *)
(* parent, the height and the round, any fixed rule will do.               *)
proposer_index(height, round, n) == (height + round) % n

Nth(players, i) ==
    CHOOSE p \in players : Cardinality({q \in players : q < p}) = i

ProposerIn(roster, height, round) ==
    Nth(roster, proposer_index(height, round, Cardinality(roster)))

Voters(e) == {v[1] : v \in e.votes}

(* Mutant: one vote short of a majority is enough. *)
validate_commit_certificate_short(s, e, roster) ==
    /\ \A v \in e.votes : Authorized(s, v[1], v[2], "Vote", e.candidate.epoch)
    /\ Cardinality(Voters(e)) >= replicated_quorum(Cardinality(roster)) - 1

validate_commit_certificate(s, e, roster) ==
    /\ \A v \in e.votes : Authorized(s, v[1], v[2], "Vote", e.candidate.epoch)
    /\ Cardinality(Voters(e)) >= replicated_quorum(Cardinality(roster))
    /\ LET t == e.candidate.transition
       IN  t # None =>
              /\ Cardinality(Voters(e) \cap t.players)
                     >= replicated_quorum(Cardinality(t.players))
              /\ \A device \in t.revoked :
                    <<device, e.candidate.epoch + 1>> \in s.staged

(* What validate_event and validate_historical_conflict have in common.    *)
CertifiedIn(s, e) ==
    LET body == e.candidate
    IN  /\ body.epoch \in 1 .. Len(s.rosters)
        /\ body.proposer = ProposerIn(s.rosters[body.epoch], body.height, body.round)
        /\ Authorized(s, body.proposer, body.device, "Propose", body.epoch)
        /\ validate_commit_certificate(s, e, s.rosters[body.epoch])

validate_event(s, e) ==
    /\ e.candidate.epoch = s.epoch
    /\ e.candidate.height = s.height + 1
    /\ e.candidate.parent = s.head
    /\ CertifiedIn(s, e)

(* The assignments of apply_event.                                         *)
Applied(s, e) ==
    LET t == e.candidate.transition
        moved == [s EXCEPT !.height = e.candidate.height,
                           !.head = e.candidate, !.last = e]
    IN  IF t = None THEN moved
        ELSE [moved EXCEPT !.epoch = @ + 1, !.active = t.players,
                           !.rosters = Append(@, t.players)]

SameHeight(s, e) == s.last # None /\ e.candidate.height = s.last.candidate.height

(* Another event with the height and the parent of the last one.           *)
Conflicts(s, e) ==
    /\ SameHeight(s, e) /\ e # s.last
    /\ e.candidate.parent = s.last.candidate.parent

ForkProof(s, e) == [first |-> s.last.candidate, second |-> e.candidate]

(* Mutant: what fails the final validation is kept. *)
Accepts_unvalidated(s, e) ==
    /\ s.forks = {} /\ ~Conflicts(s, e) /\ ~(s.last # None /\ e = s.last)
    /\ validate_event(s, e)

(* apply_event, when it commits: the last step validates the result and    *)
(* restores the state before it on failure.                                *)
Accepts(s, e) ==
    /\ s.forks = {} /\ ~Conflicts(s, e) /\ ~(s.last # None /\ e = s.last)
    /\ validate_event(s, e)
    /\ validate(Applied(s, e))

-----------------------------------------------------------------------------
NewSession ==
    [epoch |-> 1, height |-> 0, head |-> None, active |-> Players,
     devices |-> Initial, rosters |-> <<Players>>, staged |-> {},
     last |-> None, forks |-> {}]

Init ==
    /\ states = [r \in Replicas |-> NewSession]
    /\ validate(NewSession)
    /\ net = {}
    /\ signed = {}

RegisterDevice(r, c) ==
    /\ Addable(states[r], c)
    /\ validate(WithDevice(states[r], c))
    /\ states' = [states EXCEPT ![r] = WithDevice(@, c)]
    /\ UNCHANGED <<net, signed>>

(* stage_revocation does not validate the result.                          *)
StageRevocation(r, c, epoch) ==
    /\ Revocable(states[r], c, epoch)
    /\ states' = [states EXCEPT ![r].staged = @ \cup {<<c.device, epoch>>}]
    /\ UNCHANGED <<net, signed>>

(* Non-equivocation: a player precommits one candidate per height.         *)
MaySign(player, height, body) ==
    \A x \in signed : x[1] = player /\ x[2] = height => x[3] = body

Candidate(s, round, device, command, transition) ==
    [epoch |-> s.epoch, parent |-> s.head, height |-> s.height + 1,
     round |-> round, device |-> device, commands |-> command,
     proposer |-> ProposerIn(s.active, s.height + 1, round),
     transition |-> transition]

(* Players who follow replica r propose and precommit its next event, each *)
(* with the voting device r knows.                                         *)
Certify(r, ballot, round, device, command, transition) ==
    LET s == states[r]
        body == Candidate(s, round, device, command, transition)
        e == [candidate |-> body,
              votes |-> {<<p, (CHOOSE c \in Voting(s, p, s.epoch) : TRUE).device>> :
                            p \in ballot}]
    IN  /\ s.height < MaxHeight /\ Cardinality(net) < MaxEvents
        /\ \A p \in ballot : Voting(s, p, s.epoch) # {} /\ MaySign(p, body.height, body)
        /\ Authorized(s, body.proposer, device, "Propose", s.epoch)
        /\ net' = net \cup {e}
        /\ signed' = signed \cup {<<p, body.height, body>> : p \in ballot}
        /\ UNCHANGED states

(* apply_event.                                                            *)
ApplyEvent(r, e) ==
    /\ Accepts(states[r], e)
    /\ states' = [states EXCEPT ![r] = Applied(@, e)]
    /\ UNCHANGED <<net, signed>>

DetectFork(r, e) ==
    /\ states[r].forks = {} /\ Conflicts(states[r], e)
    /\ CertifiedIn(states[r], e)
    /\ states' = [states EXCEPT ![r].forks = {ForkProof(states[r], e)}]
    /\ UNCHANGED <<net, signed>>

Next ==
    \/ \E r \in Replicas, c \in Certificates : RegisterDevice(r, c)
    \/ \E r \in Replicas : \E c \in states[r].devices :
          StageRevocation(r, c, states[r].epoch + 1)
    \/ \E r \in Replicas : \E ballot \in Ballots, round \in Rounds,
          c \in states[r].devices, command \in Commands,
          transition \in Transitions \cup {None} :
             Certify(r, ballot, round, c.device, command, transition)
    \/ \E r \in Replicas, e \in net : ApplyEvent(r, e) \/ DetectFork(r, e)

Spec == Init /\ [][Next]_vars

-----------------------------------------------------------------------------
(* Properties.                                                             *)

(* Each replica has one roster per epoch, a bounded height, and a head     *)
(* that is the candidate of its last event.                                *)
TypeOK ==
    \A r \in Replicas :
        LET s == states[r]
        IN  /\ s.height \in 0 .. MaxHeight /\ s.epoch \in 1 .. s.height + 1
            /\ s.rosters \in Seq(SUBSET Players) /\ Len(s.rosters) = s.epoch
            /\ s.devices \subseteq Certificates
            /\ s.active = s.rosters[s.epoch]
            /\ IF s.height = 0 THEN s.last = None /\ s.head = None
               ELSE s.last \in net /\ s.head = s.last.candidate

(* Under non-equivocation two replicas at one height have the same head    *)
(* and the same history of rosters, however their devices, revocations and *)
(* deliveries differ (apply_event).                                        *)
HeadAgreement ==
    \A r, q \in Replicas :
        states[r].height = states[q].height
            => /\ states[r].head = states[q].head
               /\ states[r].rosters = states[q].rosters

(* Each replica is well formed, and two at one height agree on its head    *)
(* and on all rosters so far (apply_event).                                *)
ReplicaInv == TypeOK /\ HeadAgreement

(* In no epoch, past, present or future, has a player two devices whose    *)
(* votes a replica would count (validate_voting_devices).                  *)
OneVotingDevice ==
    \A r \in Replicas, player \in Players, epoch \in 1 .. MaxHeight + 2 :
        Cardinality(Voting(states[r], player, epoch)) <= 1

(* Every active player can vote and propose in the present epoch, though   *)
(* a revocation is staged without a look at what it leaves (apply_event    *)
(* rolls a transition back that would take the last voting device).        *)
ActivePlayersCanVote ==
    \A r \in Replicas : \A player \in states[r].active :
        \E c \in Voting(states[r], player, states[r].epoch) :
            "Propose" \in c.capabilities
=============================================================================
