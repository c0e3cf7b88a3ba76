# Poche: TLA+ models of the room, its authority, its replicas and its game

Poche is a card game for several players.  A room is a replayable session:
every change is a command that a pure reducer authorizes, decides and applies,
and an authority runs that reducer behind a transport, a clock and a recovery
journal.  Around it stand a governance overlay, two replicated logs, the rules
of the game with a retrospective audit, and the capture of a device's view for
another device.  This directory models these parts, checks them with TLC, and
proves with TLAPS nearly every safety property the runs check, for every value
of the constants, and the two refinements.

Contents

1. Inventory of the system
2. Modules and their correspondence to the code
3. Runs, bounds and what they show
4. Fairness
5. Proofs
6. Findings and observations
7. What is not modelled, and the plan

## 1. Inventory of the system

| Component | State | Operations | Talks to |
| --- | --- | --- | --- |
| session reducer (`poche-session` `machine.rs`, `state.rs`) | phase, members with seat, readiness and chat window, host, invites, policies, hand requests and grants, projection epoch, revision, processed commands | `authorize`, `decide`, `apply`, `decide_transport_disconnect`, `validate` | the game through trait `SessionGame` |
| viewer projection (`projection.rs`) | none | `project_viewer` | reads the session |
| game adapter (`poche-runtime` `oracle_session.rs`) | game turn and round | `start`, `player_transition`, `chance_transition`, `settle` | the oracle rules |
| oracle rules (`poche-oracle-rust`) | deal, bids, tricks, ledger | `transition`, `legal_player_actions`, `validate` | called by the adapter |
| in-process authority (`in_process.rs`) | session, clock, journal, delivery counter | `drive_one`, `advance_clock_to`, `commit_events`, `replay_journal`, checkpoints | transport, clock, reducer |
| transport and clock (`in_process.rs`) | routes, ingress queue, one held input, faults; scheduled expiries | `connect`, `disconnect`, `submit`, `receive`; `arm_countdown`, `cancel_countdown`, `advance_to` | the authority |
| device client (`device_client.rs`) | device profiles, routes, poses, capture providers | `enroll`, `change_route`, `durable_recovery`, `from_durable_recovery`, `cooperate` | owns an authority |
| governance (`governance.rs`) | members, proposals, votes, effects, logical tick | `submit`, `advance_to`, `set_connected`, `register_confirmed_finding` | audit, trustless round |
| trustless round (`trustless.rs`) | stage, abort evidence, consumed effects | `advance`, `record_failure`, `submit_governance`, `reconcile_effects` | owns a governance |
| replicated session (`poche-session/replicated.rs`) | height, head, rosters by epoch, device certificates, revocations, forks | `apply_event`, `register_device`, `stage_revocation` | signature verifier |
| runtime log (`poche-runtime/replicated.rs`) | height, head, committed and buffered events | `certify_event`, `ingest`, `snapshot`, `from_snapshot` | other replicas |
| retrospective audit (`retrospective.rs`) | actions, disclosures, findings, accusations | `append_action`, `append_disclosure`, `audit`, `accuse` | governance |
| capture transfer (`poche-capture` `transfer.rs`) | credit and outstanding chunks; received bytes, checkpoint directory | `next_chunk`, `acknowledge`, `resume_from`; `accept`, `resume`, `finish`, `cancel` | a lossy lane, the file system |
| capture relay (`poche-web-spike` `capture_relay.rs`) | providers, jobs with chunks | `register`, `poll`, `provide_response`, `upload_chunk`, `enqueue_and_wait`, `fetch_chunk`, `acknowledge_delivery` | room, worker and requester programs |
| device cooperation (`device_cooperation.rs`) | replay window | `authorize_once` | device client |
| veilid transport (`poche-veilid`) | membership credentials, host routes, startup retries | join, recover, rotate, retry | the network, external |
| user interfaces, drivers, tools, learning | presentation and experiments | | |

What is hard here, and what makes each part correct:

* **Batches.**  A command yields up to three events, applied one after the
  other on a candidate state that is validated after every one.  Correct means
  that what `decide` accepts `apply` never refuses, in whatever state and under
  whatever policies (`DecidedBatchesApply`).
* **Roles that change under a capability.**  A spectator asks to see a hand,
  the owner grants it, and between and after these steps either may sit, leave,
  be removed, rejoin under the same key, disconnect, or finish the round.
  Correct means nobody is shown a hand that its owner did not consent to show
  in this round (`NoHandWithoutConsent`), and every change of the grants makes
  older projections stale (`GrantChangeRaisesEpoch`).
* **Several games in one room.**  Nothing of one game reaches the next
  (`CapabilitiesOnlyInGame`, `HistoryCountsRounds`).
* **A timer outside the state.**  The countdown is in the session, its timer in
  the clock.  They must agree through aborts, re-arms with the same token, lost
  routes, duplicated and swapped commands and restarts (`CountdownHasTimer`,
  `NoEarlyStart`), and a countdown that a game can come of must end
  (`CountdownResolves`).
* **Recovery.**  The journal records inputs, not states; replay runs them
  against a transport on which no route is ever lost.  It must nevertheless
  reproduce the authority (`JournalReplays`).
* **Votes against deadlines, kicks and failed effects.**  One call first
  finalizes deadlines, then takes a vote, then may apply an effect that fails
  and rolls all of it back; a target may be kicked, a voter disconnected or a
  capability revoked in between.  Correct means every approval is one effect
  and every effect is accounted for (`ApprovalsAreEffects`, `EffectsAccount`),
  a pending proposal is really undecided (`PendingIsUndecided`), decisions are
  final (`DecisionsAreFinal`), and the round that failed is resolved by the first
  remedy decided after it failed (`RemedyFollowsAbort`, `AbortIsFinal`).
* **Replicas.**  Events arrive out of order and twice, a future event is
  buffered before it is validated, replicas restart from snapshots without
  their committed events, the roster changes under a joint quorum, and devices
  of one player succeed each other.  Correct means that a log is one chain with
  nothing skipped or left behind (`LogInOrder`), one ledger (`OneLedger`,
  `HeadAgreement`), one voting device per player in every epoch
  (`OneVotingDevice`, `ActivePlayersCanVote`), and replicas that catch up
  (`CatchesUp`).
* **Two implementations of one rule.**  Legal actions are listed by one
  function and checked by another, the follow-suit rule by a third in the
  audit.  They must agree (`LegalIsAccepted`, `StrictPlayIsClean`,
  `FindingsAreRevokes`, `RevokesAreFound`), and the game must be the one the
  reducer assumes (`RefinesTurnGame`).
* **A checkpoint, a lossy lane and crashes.**  A chunk is retained, then
  acknowledged, then forgotten by the sender; the process may stop between any
  two of these, and storage may fail after the chunk was counted
  (`AcknowledgedIsRetained`, `NothingPassedOver`, `PublishedOnceAndWhole`).
* **Two locks and two programs.**  A provider is registered in the relay and in
  the room in two steps, workers replace each other, requests time out while an
  answer is on its way (`OneReceiptPerRequest`, `CallsReturn`,
  `AcceptedIsDelivered`).

The hazards of `PROJECT.json` list these at their lines, with the property that
would catch each going wrong.

## 2. Modules and their correspondence to the code

| Module | Models |
| --- | --- |
| `SessionGame` | the game as the reducer sees it: turn, round, transitions |
| `SessionReducer` | the reducer as operators of a state record: `authorize`, one `decide_*` per command, one operator per event, `validate`, `HandsShown` |
| `Session` | one session driven by accepted commands and transport losses; its properties and its inductive invariant |
| `SessionHistory` | `Session` with history variables for who was dealt which seat and who consented to whom |
| `Authority` | the in-process authority, its transport, clock, journal and recovery; refines `Session` |
| `TurnGame` | abstract specification: `SessionGame` as a state machine |
| `Game` | the rules of the game; refines `TurnGame` |
| `Retrospective`, `GameAudit` | the audit's operations; the game with its plays, attempts and disclosures audited |
| `Governance`, `TrustlessRound` | the overlay; a round that owns one and recovers through it |
| `RuntimeLog` | certification, delivery, buffer, fork and snapshot of the runtime log |
| `ReplicatedSession` | devices, revocations and certified events of the replicated session |
| `CaptureTransfer` | sender, lane and durable receiver of one artifact |
| `CaptureRelay` | relay, room route, workers and requesters of captures |
| `SessionReducerProofs`, `SessionProofs` | the proofs about the reducer's operators, and about `Session` and `SessionHistory` |
| `AuthorityProofs` | the proofs about `Authority`, its refinement included |
| `GameProofs` | the proofs about `Game`, its refinement included, and about `GameAudit` |
| `GovernanceProofs` | the proofs about `Governance` and `TrustlessRound` |
| `RuntimeLogProofs`, `ReplicatedSessionProofs` | the proofs about the two logs |
| `CaptureProofs` | the proofs about `CaptureTransfer` and `CaptureRelay` |
| `MC*` | instances for TLC |

**SessionReducer.**  The fields of `SessionState` are the fields of a record;
those of `MemberState` are functions of the principal with a default for
non-members.  `decide_X` is the set of batches the code may return: empty for a
denial, one batch for an acceptance, several where the game chooses.  A batch is
an optional `CountdownCancelled`, an optional `HandCapabilitiesExpired` and one
main event, which is every batch the code builds.  `Applies` is `apply`: the
event is accepted by `apply_kind` and the result passes `validate`.

Abstractions: an accepted command is named by the revision it was accepted at,
which is injective because every event advances the revision; a hand request
takes its identifier from its command and is named so too.  Chat text, cards,
scores, hashes and signatures are left out; of the public history the number of
scored rounds is kept.  Which seat acts next in the game is a free choice here:
`Game` shows that the rules take only such steps.
`MemberLeft` and `MemberRemoved` do the same thing in `apply_kind` and are one
event here.  Tokens are numbers in the order of their strings.  `MAX_HAND`
stands for `MAX_HAND_REQUESTS` and `MAX_HAND_GRANTS`, which are equal.

**Authority.**  `auth` is the part of `InProcessAuthority` a restart has to
bring back, `routes`, `ingress` and `held` the transport, `replica` the result of
replaying the journal written so far.  `DriveOne` is `drive_one`: journal the
input, then `process_command` or `process_disconnect` with everything they call.
`broadcast_projections` keeps of its frames the delivery counter and the error
of a recipient without route; the order of members, which decides how many
frames were numbered before that error, is a choice.  `AdvanceClock` is
`advance_clock_to` with its loop over the drained expiries, in the order of
deadline and token: `Deliver` is that loop, as a recursive function that stops
at the first error.  `Recover` is a stop of
the process and `from_durable_recovery`: the checks of
`from_durable_journal` and `from_checkpoint` are its guard, queued inputs are
lost and routes are restored.  Clients write the revision they know into a
command; `Resubmit` sends an accepted envelope again.
The authority starts in a lobby that the reducer reaches from `pending` by six
commands (defined by those commands in `MCAuthority`), with a route for each
member, since its properties begin where a countdown can be armed.
`AuthorityAssumption` asks of that lobby only what the proofs need: that it is a
state satisfying the reducer's invariant which has no countdown of an unknown token.

**Game, Retrospective, GameAudit.**  `phase`, `ledger` and `table` are the
variants and fields of the oracle's state; a deal, a bid, a card and a settlement
are the actions, each with the zone check that follows every transition.  Suits
and ranks are constants, so that a small deck gives whole games; piles are sets,
as no rule looks at their order.  `GameAudit` lets a table record its accepted
plays and the plays the rules refused, lets hands be disclosed and detectors
audit or accuse at any time; `held` remembers the hands at each play, so that
findings can be compared with what really happened.

**Governance, TrustlessRound.**  `submit(g, inv)` is the set of states that a
command may commit, empty when the code restores `before`.  Proposals and
effects are named by their command.  A score is counted by amendments.  The
trustless round drives its own governance, as the code does: effects are
reconciled in the same call that committed them, one after the other
(`AfterEffects`, the loop of `reconcile_effects` as a recursive function).  Transcript heads are left out.

**RuntimeLog.**  A hash is the tuple of what it covers; that decides what can
collide, so who proposed a transition is not part of an event hash and who
signed is not part of a state hash.  `net` keeps every event ever sent: a
delivery may be lost, repeated and reordered.  The loop of `ingest` over the
buffer is taken one iteration at a time.  `MaySign` is the documented assumption
that no player signs two contents for one height; `ledger` and `signed` are
history.  `Truncate` sends an event without one of its signatures.

**ReplicatedSession.**  Certificates and revocations exist as the roots issued
them; a replica registers and stages them in any order.  `apply_event` is one
action with its rollback.  A candidate stands for its hash.  Two certified
events at one height halt a replica with the fork proof.

**CaptureTransfer.**  A chunk is its index, its ciphertext a function of it.
`lane` and `acks` are sets from which things are delivered any number of times;
what is never delivered is lost.  `CreateSender` is another
`CaptureTransferSender::new` for the same content, at any time, and `ResumeFrom`
is `resume_from` with what `resume_index` of the running receiver returns, which
it does whether or not that receiver was cancelled.  Nobody is obliged to take
either step.  `Accept(i, TRUE)` retains and acknowledges, `AcceptUnstored` is the
storage error (`unstored` is a history of it), `AcceptAndStop` and `Stop` are crashes, and the removal of the
directory takes two steps because `remove_dir_all` is not atomic.

**CaptureRelay.**  Relay and room have a lock each, so registration,
unregistration and a request take one step per lock; so does the rollback of a
registration that the room refused (`RollBackInRelay`).  A worker is the `serve`
program with its polling loop, a call the HTTP request of the `request` program
with the wait, the revision check, the receipt, the fetching and the final
acknowledgement.  Timeouts may strike whenever a call waits.

## 3. Runs, bounds and what they show

| Run | Start, bounds | Checks |
| --- | --- | --- |
| `session_game` | four starts, each followed for some revisions: an uncreated room (0 to 4, with chat in windows of 2 revisions), a ready lobby (7 more), the last round of a game with an open hand request (3 more), the countdown of a second game (4 more); 3 principals, 3 members, 2 rounds, one hand capability of each kind, a reusable and an expiring one-time invite; policies that allow spectators to arm, remove, act and grant, players to request hands, and the clock to reconnect, leave and close | `Inv`, `DecidedBatchesApply`, `NoHandWithoutConsent`, `GrantChangeRaisesEpoch`, `ClosedRoomOnlyDisconnects` |
| `authority_countdown` | 3 commands (the host arms; the player aborts, readies, unreadies, leaves, reconnects), 3 inputs in flight, one fault or one lost route, 1 token, 2 deadlines; fair queue and clock | `AuthorityInv`, `NoEarlyStart`, `CountdownResolves` |
| `authority_recovery` | 2 commands (arming, closing, leaving, reconnecting, aborting), 2 routes per principal, 1 fault, 1 lost route, 1 retry, 1 deadline | `JournalReplays`, `RefinesSession` |
| `governance` | 3 members; a room (4 commands, a kick of c and a grant to c, one finding, b comes and goes, votes of one duration), or a trustless round from the private deal on where c has asked for the right to recover (5 commands) and b fails | `GovInv`, `ApprovalsAreEffects`, `EffectsAccount`, `TargetDoesNotDecide`, `DecisionsAreFinal`, `RemedyFollowsAbort`, `AbortIsFinal` |
| `runtime_log` | 2 replicas, 3 players, rosters with and without c, 2 heights, 3 events, 1 restore | `LogInOrder`, `OneLedger`, `CatchesUp` |
| `replicated_session` | 2 interchangeable replicas, 3 players, for player 1 a successor device from epoch 2 and a sibling without a vote, two roster changes, three ballots, 2 heights, 3 events | `ReplicaInv`, `OneVotingDevice`, `ActivePlayersCanVote` |
| `game` | 2 players, 2 suits of 3 ranks, hands of 1, 2 and 1 cards, 18 deck orders, every bid and play; or the same with one round recorded, one refused attempt, one disclosure, 2 detectors, one accusation | `GameInv`, `LegalIsAccepted`, `WinnerIsHighest`, `SettlementIsExact`, `RefinesTurnGame`, `GameFinishes`; `FindingsAreRevokes`, `RevokesAreFound`, `StrictPlayIsClean`, `OneFindingPerAction` |
| `capture` | a transfer of 3 chunks with credit 2, any losses, crashes and storage errors, senders made and resumed at any time, a clock that may pass the expiry; or a relay with 2 workers, 2 requests, 2 calls, 2 chunks and one commit of the session meanwhile | `PublishedOnceAndWhole`, `TransferInv`; `OneReceiptPerRequest`, `CallsReturn`, `AcceptedIsDelivered` |

An invariant that ends in `Inv` is the conjunction of a type invariant with the
invariants that belong to the same state, in the form a proof by induction needs:
`Inv` contains `TypeOK`, `CapabilitiesOnlyInGame`, `OneCapabilityPerRecipient` and
`HistoryCountsRounds`; `AuthorityInv` is `TypeOK` and `CountdownHasTimer`;
`GovInv` is `GovTypeOK` and `PendingIsUndecided`; `ReplicaInv` is `TypeOK` and
`HeadAgreement`; `GameInv` is `GameTypeOK` and `TricksAccount`; `TransferInv` is
`AcknowledgedIsRetained`, `MemoryIsCheckpoint` and `NothingPassedOver`.

The four runs that expect a violation are described in section 6.

The bounds are those at which the interesting cases occur.  Three principals give
a host, a player and an outsider.  Reaching a game costs a fixed number of
events, so the later starts of `session_game` are states that the reducer itself
computes from `pending` in `MCSession`: seven revisions after a ready lobby are enough for
a request, a grant and then the removal of the granting player with its expiry;
three in the last round for a settlement with live capabilities and their
expiry; four in the second countdown for the deal of the second game.
With three authority commands a host arms, a player aborts and the host arms
again with the same token at another deadline, which is what a stale timer needs.
Four governance commands are two proposals with a vote each, or one with the three
votes, so that a decision can meet another's effect; two heights of a log are
what a roster change and its first use need, and three events two certificates
for one height and a buffered one.  Six cards give a hand that can and one that
cannot follow suit, with and without trump.  Three chunks with credit two
leave one acknowledged, one outstanding and one unsent.

Narrower instances are cut by policies of the reducer itself (`NoChat`) or by
constraints on the steps of the `MC` module (`Narrow`, `Recovery`, `InOrder`,
`OneMishap`), never by replacing a definition.  `InOrder` only fixes the order in
which interchangeable identifiers are used.  In `MCGovernance`, `MCGame` and
`MCCapture` two instances share a run: the initial state chooses one and a
variable keeps the choice.  The permissive policies of `session_game` show that
the safety of hands rests on the checks of `decide`, not on the
baseline of `authorize`.

Symmetry is declared where it is sound: the replicas of `replicated_session`,
with invariants only.  Deadlock is checked in the authority runs: time may always
be advanced.  The others may really stop: a session at its last revision, a
finished game, a log at its last height, a delivered capture.

In the authority instances that pass, the two players sit on the seats the game
accepts, so the expiry never fails in `start`, and `CountdownResolves` says of
itself that it is about such seats; `authority_seats` has the others (section 6).
`authority_countdown` has no client
retries: with one, the timer properties fail, and `authority_retry` shows the
cause.  `authority_recovery` does have one: the
replay and the refinement survive it.

## 4. Fairness

All fairness is weak.

* `Authority`: the queue is drained (`drive_all` loops until it is empty after
  every transport change) and logical time goes on (`advance_clock_to` is called
  by the owner with increasing ticks).  No client has to act, nothing is assumed
  of faults, routes or recovery.
* `Governance`, `TrustlessRound`: none.  Outside the tests `advance_to` is called
  only from `submit`, so nothing makes a deadline pass, and no liveness of proposals is
  claimed.
* `RuntimeLog`: eventual delivery, which the documentation names as the
  condition of liveness, for events a replica can apply or that show it a fork;
  and `ingest` returns.  Nothing of certification, restores or the buffering of
  events that came too early.
* `GameAudit`: the owner of the turn acts, the environment included, which deals
  and settles as soon as a round awaits it; nothing of audits.
* `CaptureTransfer`: none.  A sender never sends a chunk twice, and the repository
  has no owner that makes another one (the command line stops at the first error), so
  that a transfer ends is not claimed.
* `CaptureRelay`: the gateway's threads run and its clock goes on, so a waiting
  call times out; a worker that is uploading uploads; a requester that fetches goes on.
  No worker has to register, poll or answer.

## 5. Proofs

The theorems hold for every value of the constants that the module's named
assumption allows, so for any number of principals, devices, replicas, cards,
chunks, commands, heights and restarts; the runs look at the same definitions
on small instances.

| Module, assumption | Theorem | Statement |
| --- | --- | --- |
| `SessionProofs`, `ReducerAssumption` | `InvHolds` | `Spec => []Inv` |
| | `TypeCorrect` | `Spec => []TypeOK` |
| | `BatchesApply` | `Spec => []DecidedBatchesApply` |
| | `CapabilitiesEnd` | `Spec => []CapabilitiesOnlyInGame` |
| | `OneCapability` | `Spec => []OneCapabilityPerRecipient` |
| | `HistoryCounts` | `Spec => []HistoryCountsRounds` |
| | `EpochRises` | `Spec => GrantChangeRaisesEpoch` |
| | `ClosedIsFinal` | `Spec => ClosedRoomOnlyDisconnects` |
| | `HandsNeedConsent` | `HSpec => []NoHandWithoutConsent` |
| `AuthorityProofs`, `AuthorityAssumption` | `AuthorityTypeCorrect` | `Spec => []TypeOK` |
| | `JournalReproduces` | `Spec => []JournalReplays` |
| | `AuthorityRefinesSession` | `Spec => RefinesSession` |
| | `CountdownKeepsTimer`, for a `Lobby` not in a countdown | `Spec => [](retries = MaxRetries => AuthorityInv \/ overdue)`, where overdue is `erred /\ auth.state.deadline_tick <= auth.now` |
| | `NoGameStartsEarly`, for a `Lobby` not in a countdown, `MaxRetries = 0` | `Spec => NoEarlyStart` |
| `GameProofs`, `GameAssumption` | `TricksAreAccounted` | `AuditSpec => []GameInv` |
| | `LegalMovesAccepted` | `AuditSpec => []LegalIsAccepted` |
| | `HighestCardWins` | `AuditSpec => []WinnerIsHighest` |
| | `SettlementsExact` | `AuditSpec => SettlementIsExact` |
| | `RulesRefine` | `AuditSpec => RefinesTurnGame` |
| | `FindingsSoundly` | `AuditSpec => []FindingsAreRevokes` |
| | `RevokesComeOut` | `AuditSpec => []RevokesAreFound` |
| | `AcceptedPlaysAreClean` | `AuditSpec => []StrictPlayIsClean` |
| | `OneFinding` | `AuditSpec => []OneFindingPerAction` |
| `GovernanceProofs`, `GovernanceAssumption` | `PendingStaysOpen` | `GovSpec => []GovInv` |
| | `EveryApprovalHasItsEffect` | `GovSpec => []ApprovalsAreEffects` |
| | `LogAccounts` | `GovSpec => []EffectsAccount` |
| | `TargetsDoNotDecide` | `GovSpec => []TargetDoesNotDecide` |
| | `DecisionsStay` | `GovSpec => DecisionsAreFinal` |
| | `FirstRemedyDecides` | `RoundSpec => RemedyFollowsAbort` |
| | `AbortsAreFinal` | `RoundSpec => AbortIsFinal` |
| `RuntimeLogProofs`, `RuntimeLogAssumption` | `ForkSafety` | `Spec => []OneLedger` |
| | `LogsAreChains` | `Spec => []LogInOrder` |
| `ReplicatedSessionProofs`, `ReplicatedSessionAssumption` | `ReplicasAgree` | `Spec => []ReplicaInv` |
| | `NeverTwoVotingDevices` | `Spec => []OneVotingDevice` |
| | `ActivePlayersVote` | `Spec => []ActivePlayersCanVote` |
| `CaptureProofs`, `TransferAssumption`, `RelayAssumption` | `PublishedOnce` | `TSpec => []PublishedOnceAndWhole` |
| | `NothingReliedOnIsLost` | `TSpec => []TransferInv` |
| | `OneReceipt` | `RelaySpec => []OneReceiptPerRequest` |

**The session.**  `validate` is not inductive.  `StateInv` adds

* `NoStaleSeat`: a principal who is not a member has no seat and is not ready,
  or the next membership would begin seated and break the seat and readiness
  checks;
* `OnlyInGame`: capabilities exist only in a game (or a room closed in one), or
  `SeatTaken` and `GameStarted` would meet some.  It needs the expiry at a round
  boundary, since a game ends only with a scored round;
* `OnePerRecipient`: a recipient has no request beside a grant, or granting the
  request would make a second grant for one recipient, which `validate` refuses;
* `RequestsArePast`: a request's identity is below the revision, or a new
  request could repeat an old identity;
* `RoundToPlay` and `RoundsCounted`: a running game has a round left to settle,
  so the round and the history stay in range;
* `FiniteCapabilities`: the request and grant sets are finite, without which
  their cardinality means nothing.

`SessionReducerProofs` has one lemma per event: under what `decide` established
for it, the event passes `apply_kind`, keeps `StateInv` and so passes `validate`.
It shows that the two events a batch may begin with do so and leave what the
main event needs (`PreludeGood`), combines this for whole batches
(`BatchKeeps`), has one lemma per `decide_*`, and collects them in `DecideGood`:
every batch decided in a `StateInv` state by an authorized principal applies and
ends in a `StateInv` state.  `InvHolds` is then induction over `Next`, and
`BatchesApply` is `DecideGood` once more.
The one case the theorem excludes is in `DecidedBatchesApply` itself: a policy
may let the clock or the environment close a room nobody created, which
`decide_close` accepts and `validate` refuses for its epoch 0.

For the hands, `HandInv` adds to `Inv` that in a game a seated member is the one
the seat was dealt to (`DealtStillSit`) and that every grant is a recorded
consent (`GrantsAreConsents`).  The first holds because nobody takes or changes a
seat in a game, the second because a recipient holds one grant at most,
so that a revocation or expiry that withdraws a consent withdraws its grant.

**The authority.**  `JournalInv` says that the authority is well typed
(`RunTyped`) and that the replay of the journal reproduces it
(`Replaying`).  The difficulty is one advance of the clock that delivers several
expiries, live with lost routes and in the replay with all of them: either run may
stop at another place of the loop.  `Twins` is the loop's invariant: as long as
the live run goes on so does the replay, with the same state and numbers; once it
has stopped at a broadcast the replay may go on, but the session is not in a
countdown any more, so every further expiry is denied and both sides agree.
`Armed`, that a countdown's token is one of the clock's tokens, is what
makes its timer exist.  Numbers of the loop are reached by an induction over sets
(`AllNumbers`), since the library's induction takes an operator.

The refinement uses the same invariant and one lemma: a change of the session is
one batch that `decide` gave for an authorized principal (`SessionStep`,
`OutcomeSteps`).  An advance of the clock takes one such step at most, since
the first expiry that is accepted ends the countdown (`AdvanceSteps`), and a
restart none, since its replay reproduces the state.

The two theorems on timers have hypotheses because without them they are false.
`retries` counts down from `MaxRetries`, so `retries = MaxRetries` says that no
client has yet sent a command again: a retried `ArmCountdown` runs its timer effect
again and can move the timer of a later countdown with the same token (finding
`authority_retry`).  The transport may still duplicate and reorder.
`Lobby` is not in a countdown because `new` schedules no timer for the session
it is given.  The exception in `CountdownKeepsTimer` is real: an expiry is drained
before it is decided, so one that the policy denies, that the game refuses for
its seats, or that follows another expiry's error in one advance leaves a countdown
past its deadline with no timer.  In a run without such an error the countdown has
its timer, which is what `authority_countdown` sees.

The duplicates are what needs an invariant.  `QueueInv` says that every
identifier in the queue and in the records was issued, that the copies of one
command are neighbours, and that a queued command which is recorded already is
at the head of the queue with effects that suit the countdown of this moment
(`Fresh`).  So the second delivery of a command comes before anything else can
change the countdown, and running its effects again changes nothing.  `TimerKept` is
the timer itself.  `BatchTimers` and `CommandTimers` show both for a
command that is new, `LossTimers` for a lost route, and `DeliveriesExpire` for the
loop over the due expiries: only the clock may send `CountdownExpired`, each expiry
that starts no game is an error, since the clock has no route to answer to, and the
one that starts a game carries the token of the countdown, whose timer
(`TimerKept`) was due.  That the loop delivers every due timer is `OrderIsDue`:
the ranks of `DueOrder` have no gaps.  TLC checked the whole invariant on the
instances of `authority_countdown` and `authority_recovery` first.

**The game.**  `GameTyped` alone does not give `TricksAccount` or the zone check.
`RoundInv` counts: every card is in one zone (`InOneZone`), hands have lost a card
per trick and one for the trick in progress (`HandsCount`), piles are whole tricks
(`PilesCount`), the plays of the trick are those of the seats from the leader on
(`TrickInTurn`), so the player in turn has a card left and a legal one among
them, and the last trick ends the round.  `ScoresBounded` keeps the ledger in its
range.  The refinement maps phases and the actor to the turn of `TurnGame`.
These are stated of `AuditSpec`, whose steps are those of the game, recorded or
not, and those of the audit.

For the audit, `HandsExplained` says of every recorded action and the hand it was
really made from that this hand holds what the owner shows later in the round
(`SoundHand`: so evidence is true), has only lost cards since (`CurrentHand`), and
that each of its cards was played later or is still held (`AccountedHand`: so at
the end of the round nothing is hidden and every revoke is found).

**Governance.**  `OverlayInv` is stated of a state, to be followed through one
call: deadlines that pass, the command, its receipt.  It joins `ProposalsOk`,
`ApprovalsLogged` and `Accounted`; `Recorded`, that only a processed command has
a proposal, is what keeps a new proposal from replacing an old one.  A vote that
approves is the delicate case: the effect, the status and the vote change in one
step, and the effect log grows by exactly one entry (`PickedAppend`).
In the round, `RoundInv` adds that every effect has been reconciled and that an
aborted round is not active.  `DecidedBy` is the invariant of the loop over the
effects of one call, of which the theorem allows any number: until the first
remedy the recovery is pending, from then on it is decided by that one.

**The runtime log.**  `OneLedger` alone does not say why two
replicas agree.  `LogInv` adds that no player has signed two contents for one
height (`OneContent`), that whoever signs an event of `net` is recorded as having
signed its content (`EventsSigned`, which truncation keeps), and that every entry
of the ledger was signed by a quorum of the membership before it (`LedgerSigned`).
Two majorities of one membership share a player
(`QuorumsIntersect`), who signed one content, so an event that a replica at the
ledger's height `h` can apply has the content of entry `h + 1` if there is one
(`AppliedIsLedger`), and makes that entry otherwise (`LedgerGrows`).  The next
membership and state are functions of content and prior state, so the replica
agrees at the next height.  Nothing is asked of the parent hash, the buffer or
the committed events, which is why restores from snapshots and forks do no harm.

`LogInOrder` is about exactly those, and needs of `LogInv` only that
heights are numbers.  It is inductive: an event is applied at the next height
on the head (`AppliedInOrder`), the drain begins as soon as a height is reached
whose successor may be waiting, and takes every event of that height out of the
buffer whether it applies, is refused or shows a fork (`TakenIsAhead`).

**The replicated session.**  The model has no ledger variable; `OneHistory` says
that some sequence of heads and rosters explains every replica, each head signed
by a majority of the roster before it.  An event that a replica accepts either
repeats the history's entry (`OneMajority`) or extends it (`HistoryGoesOn`).
Device certificates do not enter: a vote counts for its player whichever device
signed it.  They enter the other two theorems: `validate_voting_devices` looks
only at epochs where something changes, and `ChangeEpochsSuffice` shows that this
excludes two voting devices in every epoch.  A revocation is staged for the next
epoch without a look at the result, but takes nobody's vote in this one, and
the next epoch begins only with an event whose result is validated.

**The captures.**  `CaptureInv` says that the checkpoint holds a prefix of the
chunks that contains every acknowledged one, that the memory of a receiver that
was not cancelled is that prefix, that the index a receiver reports counts no chunk
but those of the checkpoint and the one whose storing failed (`ReportIsBacked`),
that what a sender passed over it keeps outstanding or is one of these
(`NothingPassedOver`), and that nothing can be resumed after publication
(`PublishedIsOver`).  Each is needed because a crash may come
between any two steps and an acknowledgement may arrive much later.  The exception
for a chunk whose storing failed is real: `resume_index` is one ahead
then, and a sender resumed there skips a chunk that no checkpoint holds.
`TransferAssumption` asks that the mark of a stopped receiver is no receiver.
`RelayInv` says that a call past the replay window holds its request alone.

**Only model-checked**

* Every liveness property (`CountdownResolves`, `CatchesUp`,
  `GameFinishes`, `CallsReturn`, `AcceptedIsDelivered`): liveness
  under fairness is outside what these provers do.
* `AuthorityInv` without its exception, once a step has returned an error: on the
  instance of `authority_countdown`, with one token, seats that the game accepts and
  a policy that lets the clock start games, no error leaves a countdown overdue.
  It is not true for every value of the constants, as explained above.

## 6. Findings and observations

Each finding is a run that expects a violation, with the shortest behaviour TLC
finds.

* `authority_retry`: `commit_events` runs the timer effects of a command again
  when the recorded command is delivered again.  Arm, abort, then a retry of the
  arm: a timer without a countdown; with the same token in use again (the device
  client has one fixed token) the retry moves or cancels the live timer.
* `authority_journal`: an input is journaled before it succeeds.  A member
  leaves, its route goes down, the observation fails for want of a member, and
  from then on the journal does not replay.
* `session_stranded`: the host may remove the player whose turn it is, while
  leaving in the same phase is refused so as not to strand the game.
* `authority_seats` (`ExpiryStartsGame`): ready players on seats that are not the
  first `PLAYERS` seats pass every check of seating, readiness and arming.
  The clock drains the timer at the deadline, and the game's `start` then
  refuses the seats: the room is left in a countdown without a timer, which
  ends only by a client's command or the loss of a route.  S-ROOM-008 of
  `docs/session-rules.md` has the matching token and readiness start the game and
  names no failure of the game itself.

Smaller divergences and observations met while modelling, which have no run:

* Session: a transport loss still changes the members and the revision of a closed room, and only that
  (`ClosedRoomOnlyDisconnects`; S-ROOM-022).  S-ROOM-021 lets removal
  "increment epochs", while `MemberRemoved` changes none unless a grant expires
  with it.
* Runtime log: `ingest` compares whole events, so one batch on one parent certified
  by `{a, b}` and by `{b, c}` stops a replica that receives both, as ADR 0007 and
  `docs/replicated-runtime.md` have it for any second certificate of a height.  It
  stops with the right state; `OneLedger` is not concerned.
* Replicated session: two certified events for one candidate with different
  precommits count as a fork too.
* Trustless round: an effect approved while the round is active is consumed
  without consequence, though a comment of `trustless.rs` says that a recovery
  effect outside an active abort is rejected; after the round is decided a further remedy is an
  `InvalidStage` error although governance has committed it; reporting a kicked
  subject as disconnected fails.
* Capture transfer: after a storage error the resume index counts the chunk that
  was not stored, which is the exception of `NothingPassedOver`; expiry removes no partial files and a receiver cannot ask for
  missing chunks, as ADR 0010 has it; a crash inside `remove_dir_all` can lose
  verified content that was not yet returned.
* Capture relay: the room step of an older worker's unregistration removes a newer
  worker's route, and an older room registration may arrive after a newer one has
  gone, which leaves a route to a registration that the relay has forgotten; a comment of `register_capture_provider` says "atomically replaces".
  Timed-out and denied jobs stay in the table and are served first.  A worker that
  stops or is replaced after answering leaves the requester polling until it gives
  up, which `AcceptedIsDelivered` exempts.  The replay window never
  forgets: at its capacity every further capture is refused.

## 7. What is not modelled, and the plan

Most lines of the repository are user interfaces, test drivers, build and checking
tools, learning and geometry; they hold no protocol state, or compute
what TLC cannot enumerate, so the map covers a small share of all lines and
most of the lines of the state machines.  Of the modelled components these
stay out:

* hashing, encoding and signatures: taken to be collision free and unforgeable;
* `u64` revisions are bounded by `MaxRevision`, where `checked_add` fails in the
  code; the model refuses the whole batch there, as `commit_events` does;
* the diagnostic export of a session, action advertisement and poses of the
  device client, the publication pipeline and key wrapping of captures;
* the first-jack draw and the observations of the oracle, the micro-scenario
  driver of the runtime log, the smoke driver of the trustless round;
* the veilid transport (rendezvous, host route rotation, startup retry), whose
  behaviour is mostly that of an external network library, and the motion queue of
  the native client.

Out of the provers' reach: liveness under fairness, and what recursive
definitions compute for every input.

What is left to prove is little and listed at the end of section 5.  The
hypothesis of `CountdownKeepsTimer` on retries would go with the fix of finding
`authority_retry`, its exception with a timer that is drained only once its expiry
was accepted.  Of the parts that are not modelled the advertisement of actions
and the poses of the device client are the next to add.
