----------------------------- MODULE Authority -----------------------------
(***************************************************************************)
(* The in-process authority of poche-runtime (in_process.rs): the reducer  *)
(* behind a transport that duplicates, reorders and loses routes, a manual *)
(* clock that delivers countdown expiries, and a recovery journal that is  *)
(* replayed after a restart.                                               *)
(*                                                                         *)
(* One room.  A route is counted per principal: connection identities      *)
(* matter only in that the last one to go raises a transport loss.  The    *)
(* frames put in outboxes are left out; what is kept of them is the error  *)
(* of a send without recipient and the delivery sequence, from which the   *)
(* clock's command identifiers are made.                                   *)
(***************************************************************************)
EXTENDS SessionReducer, Sequences

CONSTANTS
    Clients,            \* {<<principal, payload>>} that clients send
    Lobby,              \* the session the authority starts with
    MaxCommands,        \* commands clients issue
    MaxIngress,         \* inputs in flight
    MaxRoutes,          \* live routes of one principal
    MaxFaults,          \* faults injected into the transport
    MaxLosses,          \* routes that go down
    MaxRetries          \* commands that clients send again

(* The payloads a client may send in any state.                            *)
ClientPayloads ==
    PlainPayloads \cup LobbyPayloads \cup CountdownPayloads \cup TargetPayloads
    \cup [kind : {"GrantHand"}, request : HandViewRequests, grant_epoch : Nat]
    \cup [kind : {"DenyHand"}, request : HandViewRequests]
    \cup [kind : {"RevokeHand"}, grant : HandViewGrants]

(* Lobby is a session the reducer reaches.                                 *)
ASSUME AuthorityAssumption ==
    /\ Clients \subseteq Principals \X ClientPayloads
    /\ StateInv(Lobby) /\ Lobby.revision <= MaxRevision
    /\ Lobby.phase = "Countdown" => Lobby.token \in Tokens
    /\ Lobby.members \subseteq Principals
    /\ IsFiniteSet(Tokens)
    /\ MaxRoutes \in Nat \ {0}
    /\ {MaxCommands, MaxIngress, MaxFaults, MaxLosses, MaxRetries} \subseteq Nat

VARIABLES
    auth,       \* InProcessAuthority: state, clock and delivery counter
    routes,     \* InProcessTransport.connections: live routes per principal
    ingress,    \* InProcessTransport.ingress
    held,       \* held_for_reorder: at most one input
    faults,     \* faults still to inject
    losses,     \* route losses still to come
    retries,    \* retries still to come
    issued,     \* how many commands clients have issued: the last one's id
    replica,    \* replay_journal of the journal written so far
    erred       \* some step returned Err

vars == <<auth, routes, ingress, held, faults, losses, retries, issued,
          replica, erred>>

-----------------------------------------------------------------------------
(* The authority: auth.processed are the ProcessedCommand records of the   *)
(* session, each with the timer effects of its events.                     *)

ClientId(n) == <<"client", n>>
ClockId(n) == <<"clock", n>>

Live(r) == {p \in AllPrincipals : r[p] > 0}

NewAuthority ==
    [state |-> Lobby, scheduled |-> [t \in Tokens |-> NoTick], now |-> 0,
     processed |-> {}, next_delivery |-> 0]

Recorded(a, c) == {r \in a.processed : r.command.id = c.id}

(* ManualClock::arm_countdown and cancel_countdown, for the events of a    *)
(* batch in their order.                                                   *)
TimerEffects(s, b) ==
    [cancel |-> IF b.cancel \/ b.main.kind = "CountdownCancelled"
                THEN s.token ELSE NoToken,
     arm |-> IF b.main.kind = "CountdownArmed" THEN b.main.token ELSE NoToken,
     tick |-> IF b.main.kind = "CountdownArmed" THEN b.main.deadline_tick
              ELSE NoTick]

SetTimers(scheduled, e) ==
    [t \in Tokens |-> IF t = e.arm THEN e.tick
                      ELSE IF t = e.cancel THEN NoTick
                      ELSE scheduled[t]]

Done(a) == [a |-> a, ok |-> TRUE]
Err(a) == [a |-> a, ok |-> FALSE]

(* broadcast_projections numbers a frame for each connected member and     *)
(* stops at the first that has no live route, the k-th.                    *)
broadcast_projections(a, live, k) ==
    LET recipients == {p \in a.state.members : a.state.connected[p]}
        reached == Cardinality(recipients \cap live)
    IN  IF recipients \subseteq live
        THEN Done([a EXCEPT !.next_delivery = @ + reached])
        ELSE Err([a EXCEPT !.next_delivery =
                      @ + IF k <= reached THEN k ELSE reached + 1])

send_denial(a, live, p) ==
    LET next == [a EXCEPT !.next_delivery = @ + 1]
    IN  IF p \in live THEN Done(next) ELSE Err(next)

(* Mutant: the timer effects are skipped. *)
commit_events_without_timers(a, c, b) ==
    [a EXCEPT !.state = AfterBatch(a.state, b),
              !.processed = @ \cup {[command |-> c,
                                     effects |-> TimerEffects(a.state, b)]}]

(* Mutant: only the last event of the batch reaches the state. *)
commit_events_main_only(a, c, b) ==
    LET effects == TimerEffects(a.state, b)
    IN  [a EXCEPT !.state = apply(a.state, b.main),
                  !.processed = @ \cup {[command |-> c, effects |-> effects]},
                  !.scheduled = SetTimers(@, effects)]

(* commit_events for new events: state, record, timers.                    *)
commit_events(a, c, b) ==
    LET effects == TimerEffects(a.state, b)
    IN  [a EXCEPT !.state = AfterBatch(a.state, b),
                  !.processed = @ \cup {[command |-> c, effects |-> effects]},
                  !.scheduled = SetTimers(@, effects)]

(* commit_events for a recorded command: apply returns the state as it is, *)
(* and the timer effects run over all events.                              *)
recommit_events(a, record) ==
    [a EXCEPT !.scheduled = SetTimers(@, record.effects)]

(* SessionError::Game, which process_command returns without a denial.     *)
GameRefuses(s, payload) ==
    /\ payload.kind = "CountdownExpired"
    /\ ExpiryMatches(s, payload.token) /\ ~StartAccepts(s)

process_command(a, live, k, c) ==
    LET s == a.state
        batches == decide(s, c.principal, c.payload)
        b == CHOOSE x \in batches : TRUE
        record == CHOOSE r \in Recorded(a, c) : TRUE
    IN  IF Recorded(a, c) # {}
        THEN IF record.command = c
             THEN broadcast_projections(recommit_events(a, record), live, k)
             ELSE send_denial(a, live, c.principal)
        ELSE IF \/ c.expected_revision # s.revision
                \/ ~authorize(s, c.principal, c.payload.kind)
        THEN send_denial(a, live, c.principal)
        ELSE IF GameRefuses(s, c.payload) THEN Err(a)
        ELSE IF batches = {} THEN send_denial(a, live, c.principal)
        ELSE IF ~(RevisionsLeft(s, b) /\ BatchApplies(s, b)) THEN Err(a)
        ELSE broadcast_projections(commit_events(a, c, b), live, k)

process_disconnect(a, live, k, p) ==
    LET batches == decide_transport_disconnect(a.state, p)
        b == CHOOSE x \in batches : TRUE
    IN  IF batches = {} \/ ~(RevisionsLeft(a.state, b) /\ BatchApplies(a.state, b))
        THEN Err(a)
        ELSE broadcast_projections(
                 [a EXCEPT !.state = AfterBatch(a.state, b),
                           !.scheduled = SetTimers(@, TimerEffects(a.state, b))],
                 live, k)

process(a, live, k, input) ==
    IF input.kind = "Command" THEN process_command(a, live, k, input.command)
    ELSE process_disconnect(a, live, k, input.principal)

(* ManualClock::advance_to drains what is due in deadline and token order; *)
(* advance_clock_to delivers it until an expiry fails, and the rest of     *)
(* what was drained is gone.                                               *)
(* Mutant: a timer fires a tick early. *)
DueEarly(scheduled, now) ==
    {t \in Tokens : scheduled[t] # NoTick /\ scheduled[t] <= now + 1}

Due(scheduled, now) ==
    {t \in Tokens : scheduled[t] # NoTick /\ scheduled[t] <= now}

DueOrder(scheduled, now) ==
    LET due == Due(scheduled, now)
        before(t) == {u \in due : \/ scheduled[u] < scheduled[t]
                                  \/ scheduled[u] = scheduled[t] /\ u < t}
    IN  [i \in 1 .. Cardinality(due) |->
            CHOOSE t \in due : Cardinality(before(t)) = i - 1]

Expire(r, live, k, t) ==
    IF ~r.ok THEN r
    ELSE process_command([r.a EXCEPT !.next_delivery = @ + 1], live, k,
             [id |-> ClockId(r.a.next_delivery), principal |-> authority_clock,
              payload |-> [kind |-> "CountdownExpired", token |-> t],
              expected_revision |-> r.a.state.revision])

(* The loop over the drained expiries.                                     *)
Deliver(a, live, k, order) ==
    LET after[i \in 0 .. Len(order)] ==
            IF i = 0 THEN Done(a) ELSE Expire(after[i - 1], live, k, order[i])
    IN  after[Len(order)]

(* Mutant: draining takes the timers that are not due too. *)
advance_clock_to_drains_all(a, live, k, tick) ==
    LET now == IF tick > a.now THEN tick ELSE a.now
    IN  Deliver([a EXCEPT !.now = now,
                          !.scheduled = [t \in Tokens |-> NoTick]],
                live, k, DueOrder(a.scheduled, now))

advance_clock_to(a, live, k, tick) ==
    LET now == IF tick > a.now THEN tick ELSE a.now
        due == Due(a.scheduled, now)
    IN  Deliver([a EXCEPT !.now = now,
                          !.scheduled = [t \in Tokens |-> IF t \in due THEN NoTick
                                                          ELSE a.scheduled[t]]],
                live, k, DueOrder(a.scheduled, now))

-----------------------------------------------------------------------------
(* replay_journal, one input at a time: a principal is given a route at    *)
(* its first command, no route is ever lost, and the first error ends it.  *)

NewReplica == [ok |-> TRUE, a |-> NewAuthority, live |-> Lobby.members]

Replayed(r, live, result) ==
    [ok |-> r.ok /\ result.ok, a |-> IF r.ok THEN result.a ELSE r.a,
     live |-> live]

ReplayInput(r, input) ==
    LET live == IF input.kind = "Command"
                THEN r.live \cup {input.command.principal} ELSE r.live
    IN  IF r.ok THEN Replayed(r, live, process(r.a, live, 1, input)) ELSE r

ReplayClockAdvance(r, tick, next_delivery_before) ==
    LET a == [r.a EXCEPT !.next_delivery = next_delivery_before]
    IN  IF r.ok THEN Replayed(r, r.live, advance_clock_to(a, r.live, 1, tick))
        ELSE r

-----------------------------------------------------------------------------
Init ==
    /\ auth = NewAuthority
    /\ routes = [p \in AllPrincipals |-> IF p \in Lobby.members THEN 1 ELSE 0]
    /\ ingress = <<>> /\ held = <<>>
    /\ faults = MaxFaults /\ losses = MaxLosses /\ retries = MaxRetries
    /\ issued = 0
    /\ replica = NewReplica
    /\ erred = FALSE

Connect(p) ==
    /\ routes[p] < MaxRoutes
    /\ routes' = [routes EXCEPT ![p] = @ + 1]
    /\ UNCHANGED <<auth, ingress, held, faults, losses, retries, issued, replica,
                   erred>>

(* disconnect: only the principal's last route raises an input.            *)
LoseRoute(p) ==
    /\ routes[p] > 0
    /\ losses > 0
    /\ losses' = losses - 1
    /\ routes' = [routes EXCEPT ![p] = @ - 1]
    /\ ingress' = IF routes[p] = 1
                  THEN Append(ingress, [kind |-> "Disconnected", principal |-> p])
                  ELSE ingress

Disconnect(p) ==
    /\ Len(ingress) < MaxIngress
    /\ LoseRoute(p)
    /\ UNCHANGED <<auth, held, faults, retries, issued, replica, erred>>

(* InProcessTransport::submit of command c: a held input follows it, and   *)
(* only otherwise is a fault taken from the queue.                         *)
Arrive(c) ==
    LET input == [kind |-> "Command", command |-> c] IN
    /\ routes[c.principal] > 0
    /\ Len(ingress) + 2 <= MaxIngress
    /\ \/ /\ held # <<>>
          /\ ingress' = ingress \o <<input>> \o held
          /\ held' = <<>>
          /\ UNCHANGED <<routes, faults, losses>>
       \/ /\ held = <<>>
          /\ ingress' = Append(ingress, input)
          /\ UNCHANGED <<routes, held, faults, losses>>
       \/ /\ held = <<>> /\ faults > 0             \* DuplicateNext
          /\ ingress' = ingress \o <<input, input>>
          /\ faults' = faults - 1
          /\ UNCHANGED <<routes, held, losses>>
       \/ /\ held = <<>> /\ faults > 0             \* ReorderNextPair
          /\ held' = <<input>>
          /\ faults' = faults - 1
          /\ UNCHANGED <<routes, ingress, losses>>
       \/ /\ held = <<>> /\ faults > 0             \* DisconnectNext
          /\ LoseRoute(c.principal)
          /\ faults' = faults - 1
          /\ UNCHANGED held

(* A client writes the revision it knows of into a new command.            *)
Submit(p, payload) ==
    /\ issued < MaxCommands
    /\ issued' = issued + 1
    /\ Arrive([id |-> ClientId(issued'), principal |-> p, payload |-> payload,
               expected_revision |-> auth.state.revision])
    /\ UNCHANGED <<auth, retries, replica, erred>>

(* A client that missed the answer to an accepted command sends the same   *)
(* envelope again.  (Sending again one that was denied or lost is a        *)
(* Submit at an old revision, which a queued command meets already.)       *)
Resubmit(record) ==
    /\ retries > 0
    /\ retries' = retries - 1
    /\ record.command.principal \in Principals
    /\ Arrive(record.command)
    /\ UNCHANGED <<auth, issued, replica, erred>>

(* drive_one: journal the input, then process it.                          *)
DriveOne ==
    /\ ingress # <<>>
    /\ ingress' = Tail(ingress)
    /\ \E result \in {process(auth, Live(routes), k, Head(ingress)) :
                         k \in 1 .. MAX_MEMBERS} :
           /\ auth' = result.a
           /\ erred' = (erred \/ ~result.ok)
    /\ replica' = ReplayInput(replica, Head(ingress))
    /\ UNCHANGED <<routes, held, faults, losses, retries, issued>>

AdvanceClock(tick) ==
    /\ tick >= auth.now
    /\ \E result \in {advance_clock_to(auth, Live(routes), k, tick) :
                         k \in 1 .. MAX_MEMBERS} :
           /\ auth' = result.a
           /\ erred' = (erred \/ ~result.ok)
    /\ replica' = ReplayClockAdvance(replica, tick, auth.next_delivery)
    /\ UNCHANGED <<routes, ingress, held, faults, losses, retries, issued>>

(* Mutant: recovery restores the session without its processed commands. *)
RecoverWithoutRecords ==
    /\ replica.ok
    /\ replica.a.state.revision = auth.state.revision
    /\ replica.a.state.phase # "Closed"
    /\ auth' = [replica.a EXCEPT !.next_delivery = auth.next_delivery,
                                 !.processed = {}]
    /\ ingress' = <<>> /\ held' = <<>>
    /\ UNCHANGED <<routes, faults, losses, retries, issued, replica, erred>>

(* The process stops and from_durable_recovery builds the adapter again:   *)
(* inputs in flight are lost, routes are restored as the profiles had them.*)
Recover ==
    /\ replica.ok
    /\ replica.a.state.revision = auth.state.revision
    /\ replica.a.state.phase # "Closed"
    /\ auth' = [replica.a EXCEPT !.next_delivery = auth.next_delivery]
    /\ ingress' = <<>> /\ held' = <<>>
    /\ UNCHANGED <<routes, faults, losses, retries, issued, replica, erred>>

Next ==
    \/ \E p \in Principals : Connect(p) \/ Disconnect(p)
    \/ \E client \in Clients : Submit(client[1], client[2])
    \/ \E record \in auth.processed : Resubmit(record)
    \/ DriveOne
    \/ \E tick \in Ticks : AdvanceClock(tick)
    \/ Recover

Spec == Init /\ [][Next]_vars

(* The owner of the authority drains its queue and keeps moving logical    *)
(* time; no client has to act.  Each conjunct is weak fairness of the      *)
(* action, with its enabling condition written out.                        *)
QueueIdle == ingress = <<>>
ClockIdle == Due(auth.scheduled, auth.now) = {} /\ \A tick \in Ticks : tick <= auth.now

Fairness ==
    /\ []<>QueueIdle \/ []<><<DriveOne>>_vars
    /\ []<>ClockIdle \/ []<><<\E tick \in Ticks : AdvanceClock(tick)>>_vars

FairSpec == Spec /\ Fairness

-----------------------------------------------------------------------------
(* Properties.                                                             *)

(* The session stays a session, timers and time stay ticks, the queue      *)
(* stays within its bound.                                                 *)
TypeOK ==
    /\ auth.state \in SessionStates /\ auth.state.revision <= MaxRevision
    /\ auth.scheduled \in [Tokens -> Ticks \cup {NoTick}]
    /\ auth.now \in Ticks \cup {0}
    /\ auth.next_delivery \in Nat
    /\ routes \in [AllPrincipals -> 0 .. MaxRoutes]
    /\ Len(ingress) <= MaxIngress /\ Len(held) <= 1
    /\ faults \in 0 .. MaxFaults /\ losses \in 0 .. MaxLosses
    /\ retries \in 0 .. MaxRetries /\ issued \in 0 .. MaxCommands
    /\ {replica.ok, erred} \subseteq BOOLEAN

(* A countdown is never without its timer, and the timer is the one of     *)
(* this countdown's deadline, through aborts, re-arms with the same token, *)
(* lost routes, duplicated and reordered inputs, and a restart, as long as *)
(* no expiry met an error.                                                 *)
CountdownHasTimer ==
    auth.state.phase = "Countdown"
        => auth.scheduled[auth.state.token] = auth.state.deadline_tick

(* The authority is well formed, and its countdown has its timer           *)
(* (commit_events, advance_clock_to).                                      *)
AuthorityInv == TypeOK /\ CountdownHasTimer

(* A game starts only once logical time has reached the deadline of the    *)
(* countdown it ends (advance_clock_to, decide_countdown_expired).         *)
NoEarlyStart ==
    [][auth.state.phase = "Countdown" /\ auth'.state.phase = "Running"
           => auth.state.deadline_tick <= auth'.now]_vars

(* The session inside the authority takes no step that the reducer alone   *)
(* could not take: whatever is duplicated, reordered, lost, retried,       *)
(* expired or recovered, a change of auth.state is one authorized command  *)
(* or one transport loss with its whole batch (commit_events).             *)
Reducer == INSTANCE Session WITH state <- auth.state
RefinesSession == [][auth'.state = auth.state \/ Reducer!Next]_vars

SameAuthority(a, b) ==
    /\ a.state = b.state /\ a.scheduled = b.scheduled
    /\ a.now = b.now /\ a.processed = b.processed

(* A journal that replays reproduces the authority exactly: state, clock   *)
(* and processed commands, clock command identifiers included, although    *)
(* routes come and go in the run and never in the replay.  And it replays  *)
(* as long as no step returned an error (replay_journal).                  *)
JournalReplays ==
    /\ replica.ok => SameAuthority(replica.a, auth)
    /\ ~erred => replica.ok

(* What in_process.rs promises of the recovery journal: it reconstructs    *)
(* the reducer, whatever happened before (from_durable_journal).           *)
JournalAlwaysReplays == replica.ok

(* A delivery of an already recorded command changes neither the session   *)
(* nor the clock (commit_events).                                          *)
DuplicatesDoNotReapply ==
    [][(/\ ingress # <<>> /\ ingress' = Tail(ingress)
        /\ Head(ingress).kind = "Command"
        /\ Recorded(auth, Head(ingress).command) # {})
           => /\ auth'.state = auth.state
              /\ auth'.scheduled = auth.scheduled]_vars

(* A countdown over seats that make up a game ends: it is cancelled, its   *)
(* room is closed, or its game starts, without any client having to act    *)
(* (commit_events, advance_clock_to).  ExpiryStartsGame is about the seats *)
(* that do not.                                                            *)
CountdownResolves ==
    auth.state.phase = "Countdown" /\ StartAccepts(auth.state)
        ~> auth.state.phase # "Countdown"

(* Rule S-ROOM-008 of docs/session-rules.md: when the deadline of the      *)
(* current countdown comes and its players are still ready, the game       *)
(* starts (advance_clock_to, decide_countdown_expired).                    *)
ExpiryStartsGame ==
    [][\A tick \in Ticks :
          (/\ AdvanceClock(tick)
           /\ auth.state.phase = "Countdown" /\ AllSeatedReady(auth.state)
           /\ auth.scheduled[auth.state.token] \in 0 .. tick)
              => auth'.state.phase = "Running"]_vars
=============================================================================
