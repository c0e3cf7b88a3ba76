----------------------------- MODULE RuntimeLog -----------------------------
(***************************************************************************)
(* The replicated runtime log of poche-runtime (replicated.rs): proposals  *)
(* admitted from devices, events certified by a strict majority of the     *)
(* players, and replicas that take events in any order, buffer the future, *)
(* drain it, halt on a fork and are restored from snapshots.               *)
(*                                                                         *)
(* A hash is modelled by what it covers: an event hash leaves out who      *)
(* proposed the transitions of its batch, a state hash also who signed.    *)
(* Events stay in net for ever, so a delivery may be lost (never taken),   *)
(* repeated and reordered.                                                 *)
(***************************************************************************)
EXTENDS Integers, FiniteSets, Sequences

CONSTANTS
    Replicas,
    Players,
    Devices,
    Keys,           \* transition keys
    Commands,       \* command hashes
    Rosters,        \* player sets a membership event may name
    GenesisRoster,
    OwnerOf,        \* [Devices -> Players]: RuntimeDeviceAuthority.player_id
    ValidFrom,      \* [Devices -> Nat]: valid_from_epoch
    RevokedFrom,    \* [Devices -> Nat]: revoked_from_epoch
    BatchSizes,     \* of an instance: the number of transitions of a batch,
    SignerSets,     \* and the players whose signatures are gathered
    MaxHeight,      \* bounds of an instance: heights, events, restarts
    MaxEvents,
    MaxRestores,
    Genesis,        \* the hashes of an empty log
    None

ASSUME RuntimeLogAssumption ==
    /\ IsFiniteSet(Players)
    /\ GenesisRoster \in Rosters
    /\ \A roster \in Rosters :
          roster \subseteq Players /\ Cardinality(roster) >= 2
    /\ SignerSets \subseteq SUBSET Players
    /\ OwnerOf \in [Devices -> Players]
    /\ ValidFrom \in [Devices -> Nat] /\ RevokedFrom \in [Devices -> Nat]
    /\ MaxHeight \in Nat /\ MaxEvents \in Nat /\ MaxRestores \in Nat
    /\ None \notin [epoch : Nat \ {0}, players : Rosters]

VARIABLES
    logs,     \* [Replicas -> log]: ReplicatedRuntimeLog of each replica
    net,      \* every event that was ever sent
    signed,   \* history: {<<player, height, content>>} the players signed
    ledger,   \* history: what the first replica to reach a height committed
    restores

vars == <<logs, net, signed, ledger, restores>>

Memberships == [epoch : Nat \ {0}, players : Rosters]

(* Mutant: half of the players are enough. *)
quorum_half(membership) == Cardinality(membership.players) \div 2

quorum(membership) == Cardinality(membership.players) \div 2 + 1

-----------------------------------------------------------------------------
(* Proposals and batches.                                                  *)

Proposals == [key : Keys, device : Devices, command : Commands]

(* admit_proposal, for a proposal of the present epoch: the pool keeps the *)
(* first device of each transition key and refuses another command for it. *)
Admissible(p, membership) ==
    /\ ValidFrom[p.device] <= membership.epoch
    /\ OwnerOf[p.device] \in membership.players
    /\ membership.epoch < RevokedFrom[p.device]

(* The batches candidate_from_pool can build: one proposal per key.        *)
Pools(membership) ==
    {pool \in SUBSET {p \in Proposals : Admissible(p, membership)} :
        /\ Cardinality(pool) \in BatchSizes \ {0}
        /\ \A p, q \in pool : p.key = q.key => p = q}

proposal_batch_hash(epoch, pool) ==
    <<epoch, {<<p.key, p.command>> : p \in pool}>>

-----------------------------------------------------------------------------
(* Events.                                                                 *)

successor_hash(prior, batch_hash, next) == <<prior, batch_hash, next>>

runtime_event_hash(e) ==
    [height |-> e.height, parent |-> e.parent, batch_hash |-> e.batch_hash,
     signers |-> e.signers, next |-> e.next, successor |-> e.successor]

(* What a state hash covers of an event: two certificates with the same    *)
(* content do not conflict.                                                *)
Content(e) == <<e.batch_hash, e.next>>

validate_joint_quorum(signers, old, next) ==
    /\ next.epoch = old.epoch + 1
    /\ Cardinality(signers \cap old.players) >= quorum(old)
    /\ Cardinality(signers \cap next.players) >= quorum(next)

certify_event(log, pool, signers, next) ==
    LET batch_hash == proposal_batch_hash(log.membership.epoch, pool)
    IN  [height |-> log.height + 1, epoch |-> log.membership.epoch,
         parent |-> log.head, proposals |-> pool, batch_hash |-> batch_hash,
         signers |-> signers, next |-> next,
         successor |-> successor_hash(log.state, batch_hash, next)]

Certifies(log, signers, next) ==
    /\ signers \subseteq log.membership.players
    /\ Cardinality(signers) >= quorum(log.membership)
    /\ next # None => validate_joint_quorum(signers, log.membership, next)

validate_certified_event(e, membership) ==
    /\ e.epoch = membership.epoch
    /\ e.proposals # {}
    /\ e.batch_hash = proposal_batch_hash(membership.epoch, e.proposals)
    /\ e.signers \subseteq membership.players
    /\ Cardinality(e.signers) >= quorum(membership)

-----------------------------------------------------------------------------
(* One replica.                                                            *)

NewLog ==
    [membership |-> [epoch |-> 1, players |-> GenesisRoster],
     height |-> 0, head |-> Genesis, state |-> Genesis,
     committed |-> {}, buffered |-> {}, forked |-> FALSE, draining |-> FALSE]

(* Mutant: the parent is not compared with the head. *)
Applies_unlinked(log, e) ==
    /\ validate_certified_event(e, log.membership)
    /\ e.height = log.height + 1
    /\ e.next # None => validate_joint_quorum(e.signers, log.membership, e.next)
    /\ e.successor = successor_hash(log.state, e.batch_hash, e.next)

(* The checks of apply_next ...                                            *)
Applies(log, e) ==
    /\ validate_certified_event(e, log.membership)
    /\ e.height = log.height + 1
    /\ e.parent = log.head
    /\ e.next # None => validate_joint_quorum(e.signers, log.membership, e.next)
    /\ e.successor = successor_hash(log.state, e.batch_hash, e.next)

(* ... and its assignments.                                                *)
Applied(log, e) ==
    [log EXCEPT
        !.height = e.height, !.head = runtime_event_hash(e),
        !.state = e.successor,
        !.membership = IF e.next = None THEN @ ELSE e.next,
        !.committed = @ \cup {e},
        !.draining = TRUE]

Waiting(log) == {e \in log.buffered : e.height = log.height + 1}

(* Mutant: the head of the snapshot is not installed. *)
from_snapshot_headless(log) ==
    [log EXCEPT !.head = Genesis, !.committed = {}, !.buffered = {},
                !.forked = FALSE, !.draining = FALSE]

from_snapshot(log) ==
    [log EXCEPT !.committed = {}, !.buffered = {}, !.forked = FALSE,
                !.draining = FALSE]

-----------------------------------------------------------------------------
Init ==
    /\ logs = [r \in Replicas |-> NewLog]
    /\ net = {}
    /\ signed = {}
    /\ ledger = <<>>
    /\ restores = 0

(* Non-equivocation, the assumption of the documentation: no player signs  *)
(* two contents for one height.                                            *)
MaySign(player, height, content) ==
    \A s \in signed : s[1] = player /\ s[2] = height => s[3] = content

(* A replica certifies the next event from its own log and pool.           *)
Certify(r, pool, signers, next) ==
    LET e == certify_event(logs[r], pool, signers, next)
    IN  /\ logs[r].height < MaxHeight /\ Cardinality(net) < MaxEvents
        /\ ~logs[r].draining
        /\ pool \in Pools(logs[r].membership)
        /\ Certifies(logs[r], signers, next)
        /\ \A p \in signers : MaySign(p, e.height, Content(e))
        /\ net' = net \cup {e}
        /\ signed' = signed \cup {<<p, e.height, Content(e)>> : p \in signers}
        /\ UNCHANGED <<logs, ledger, restores>>

(* An event arrives without one of its signatures.                         *)
Truncate(e, p) ==
    /\ p \in e.signers /\ Cardinality(net) < MaxEvents
    /\ net' = net \cup {[e EXCEPT !.signers = @ \ {p}]}
    /\ UNCHANGED <<logs, signed, ledger, restores>>

(* The first replica to reach a height writes the ledger.                  *)
Record(log, e) ==
    ledger' = IF e.height = Len(ledger) + 1
              THEN Append(ledger, [content |-> Content(e), state |-> e.successor,
                                   membership |-> Applied(log, e).membership])
              ELSE ledger

Commit(r, log, e) ==
    /\ Applies(log, e)
    /\ logs' = [logs EXCEPT ![r] = Applied(log, e)]
    /\ Record(log, e)

(* ingest, up to the first application.  The loop of ingest is taken one   *)
(* iteration at a time: a replica that is draining does nothing else.      *)
Ready(r) == ~logs[r].forked /\ ~logs[r].draining

IngestCommitted(r, e) ==
    /\ Ready(r)
    /\ \E committed \in logs[r].committed :
          committed.height = e.height /\ committed # e
    /\ logs' = [logs EXCEPT ![r].forked = TRUE]
    /\ UNCHANGED <<net, signed, ledger, restores>>

IngestFuture(r, e) ==
    /\ Ready(r)
    /\ e.height > logs[r].height + 1
    /\ logs' = [logs EXCEPT ![r].buffered = @ \cup {e}]
    /\ UNCHANGED <<net, signed, ledger, restores>>

IngestNext(r, e) ==
    /\ Ready(r)
    /\ e.height <= logs[r].height + 1
    /\ Commit(r, logs[r], e)
    /\ UNCHANGED <<net, signed, restores>>

(* The loop of ingest: the events buffered for the next height leave the   *)
(* buffer; a single one is applied, or refused and lost; several are a     *)
(* fork before any of them is validated.                                   *)
Taken(log) == [log EXCEPT !.buffered = @ \ Waiting(log)]

DrainOne(r, e) ==
    /\ logs[r].draining /\ Waiting(logs[r]) = {e}
    /\ Commit(r, Taken(logs[r]), e)
    /\ UNCHANGED <<net, signed, restores>>

DrainRefused(r, e) ==
    /\ logs[r].draining /\ Waiting(logs[r]) = {e}
    /\ ~Applies(logs[r], e)
    /\ logs' = [logs EXCEPT ![r] = [Taken(@) EXCEPT !.draining = FALSE]]
    /\ UNCHANGED <<net, signed, ledger, restores>>

DrainFork(r) ==
    /\ logs[r].draining /\ Cardinality(Waiting(logs[r])) > 1
    /\ logs' = [logs EXCEPT ![r] = [Taken(@) EXCEPT !.forked = TRUE,
                                                    !.draining = FALSE]]
    /\ UNCHANGED <<net, signed, ledger, restores>>

DrainDone(r) ==
    /\ logs[r].draining /\ Waiting(logs[r]) = {}
    /\ logs' = [logs EXCEPT ![r].draining = FALSE]
    /\ UNCHANGED <<net, signed, ledger, restores>>

(* r restarts from a snapshot of s, which must hold a certificate.         *)
Restore(r, s) ==
    /\ ~logs[r].draining /\ ~logs[s].draining
    /\ logs[s].committed # {}
    /\ restores < MaxRestores
    /\ logs' = [logs EXCEPT ![r] = from_snapshot(logs[s])]
    /\ restores' = restores + 1
    /\ UNCHANGED <<net, signed, ledger>>

NextMemberships(log) ==
    {None} \cup [epoch : {log.membership.epoch + 1}, players : Rosters]

Ingest(r, e) ==
    IngestCommitted(r, e) \/ IngestFuture(r, e) \/ IngestNext(r, e)
Drain(r) ==
    \/ \E e \in logs[r].buffered : DrainOne(r, e) \/ DrainRefused(r, e)
    \/ DrainFork(r)
    \/ DrainDone(r)

Next ==
    \/ \E r \in Replicas : \E pool \in Pools(logs[r].membership),
                               signers \in SignerSets,
                               next \in NextMemberships(logs[r]) :
          Certify(r, pool, signers, next)
    \/ \E e \in net, p \in Players : Truncate(e, p)
    \/ \E r \in Replicas, e \in net : Ingest(r, e)
    \/ \E r \in Replicas : Drain(r)
    \/ \E r, s \in Replicas : Restore(r, s)

Spec == Init /\ [][Next]_vars

(* Eventual delivery: an event that a replica can apply, or that shows it  *)
(* a fork, reaches it, and a call of ingest returns.                       *)
FairSpec ==
    /\ Spec
    /\ \A r \in Replicas :
          /\ WF_vars(\E e \in net : IngestNext(r, e))
          /\ WF_vars(\E e \in net : IngestCommitted(r, e))
          /\ WF_vars(Drain(r))

-----------------------------------------------------------------------------
(* Properties.                                                             *)

(* The certificates a log holds are one chain of hashes up to its head,    *)
(* one for each height since its genesis or its snapshot.                  *)
Chained(log) ==
    /\ \A e \in log.committed :
          /\ e.height <= log.height
          /\ IF e.height = log.height
             THEN log.head = runtime_event_hash(e)
             ELSE \E f \in log.committed : f.height = e.height + 1
    /\ \A e, f \in log.committed :
          /\ e.height = f.height => e = f
          /\ f.height = e.height + 1 => f.parent = runtime_event_hash(e)

(* What is buffered is past the next height, or is being drained.          *)
BufferIsAhead(log) ==
    \A e \in log.buffered :
        e.height > log.height /\ (e.height = log.height + 1 => log.draining)

(* However deliveries were reordered, repeated, buffered, refused in the   *)
(* drain or cut by a restart, a log is one hash chain, and no event it     *)
(* could take is left behind in its buffer (ingest, apply_next,            *)
(* from_snapshot).                                                         *)
LogInOrder == \A r \in Replicas : Chained(logs[r]) /\ BufferIsAhead(logs[r])

StateAt(l, h) == IF h = 0 THEN Genesis ELSE l[h].state
MembershipAt(l, h) ==
    IF h = 0 THEN NewLog.membership ELSE l[h].membership

(* Fork safety: whatever order, repetition, loss, truncation, fork or      *)
(* restart a replica has seen, at its height it has the state and the      *)
(* membership of the one ledger (P3-C-FORK-SAFETY, under non-equivocation).*)
OneLedger ==
    \A r \in Replicas :
        LET h == logs[r].height
        IN  /\ h <= Len(ledger)
            /\ logs[r].state = StateAt(ledger, h)
            /\ logs[r].membership = MembershipAt(ledger, h)

Certified(e) ==
    /\ e.height - 1 <= Len(ledger)
    /\ validate_certified_event(e, MembershipAt(ledger, e.height - 1))

(* Two certified events of one height, which differ in their signers, in   *)
(* the devices that proposed them, or only in their parent.                *)
TwoCertificates ==
    \E e, f \in net : e # f /\ e.height = f.height /\ Certified(e) /\ Certified(f)

(* Conditional liveness: as long as every height has one certificate, a    *)
(* replica that is behind catches up or halts on a fork, from any          *)
(* buffer and from any snapshot (ingest, from_snapshot).                   *)
CatchesUp ==
    \A r \in Replicas :
        logs[r].height < Len(ledger)
            ~> logs[r].height = Len(ledger) \/ logs[r].forked \/ TwoCertificates
=============================================================================
