-------------------------- MODULE AuthorityProofs --------------------------
(***************************************************************************)
(* Proofs about Authority, for every value of the constants: a journal     *)
(* that replays reproduces the authority, and it replays as long as no     *)
(* step returned an error; a countdown keeps its timer, and no game starts *)
(* before its deadline, as long as no client sends a command again.        *)
(***************************************************************************)
EXTENDS Authority, SessionReducerProofs, WellFoundedInduction

-----------------------------------------------------------------------------
(* The loop over the drained expiries.                                     *)

(* A set of numbers that has 0 and with each number the next has all of    *)
(* them: induction, for sets.                                              *)
LEMMA AllNumbers ==
    ASSUME NEW S, 0 \in S, \A n \in Nat : n \in S => n + 1 \in S
    PROVE  Nat \subseteq S
<1> SUFFICES ASSUME Nat \ S # {} PROVE FALSE
  OBVIOUS
<1>1. PICK m \in Nat \ S : \A k \in Nat \ S : ~(<<k, m>> \in OpToRel(<, Nat))
  <2>1. Nat \ S \in SUBSET Nat
    OBVIOUS
  <2> QED
    BY <2>1, NatLessThanWellFounded, WFMin
<1>2. \A k \in Nat \ S : ~(k < m)
  BY <1>1 DEF OpToRel
<1>3. m # 0 /\ m - 1 \in Nat
  OBVIOUS
<1>4. m - 1 \in S
  BY <1>2, <1>3
<1> QED
  BY <1>3, <1>4

(* The function that Deliver's definition chooses exists.                  *)
Loop(a, live, k, order, n, f) ==
    f = [i \in 0 .. n |->
            IF i = 0 THEN Done(a) ELSE Expire(f[i - 1], live, k, order[i])]

LEMMA LoopExists ==
    ASSUME NEW a, NEW live, NEW k, NEW order, NEW n \in Nat
    PROVE  \E f : Loop(a, live, k, order, n, f)
<1> DEFINE S == {m \in Nat : \E f : Loop(a, live, k, order, m, f)}
<1>1. 0 \in S
  <2>1. Loop(a, live, k, order, 0, [i \in 0 .. 0 |-> Done(a)])
    BY DEF Loop
  <2> QED
    BY <2>1
<1>2. ASSUME NEW m \in Nat, m \in S PROVE m + 1 \in S
  <2>1. PICK f : Loop(a, live, k, order, m, f)
    BY <1>2
  <2> DEFINE g == [i \in 0 .. (m + 1) |->
                      IF i <= m THEN f[i] ELSE Expire(f[m], live, k, order[i])]
  <2>2. \A i \in 0 .. m : f[i] = IF i = 0 THEN Done(a)
                                 ELSE Expire(f[i - 1], live, k, order[i])
    BY <2>1 DEF Loop
  <2>3. ASSUME NEW i \in 0 .. (m + 1)
        PROVE  g[i] = IF i = 0 THEN Done(a) ELSE Expire(g[i - 1], live, k, order[i])
    <3>1. CASE i <= m
      <4>1. g[i] = f[i] /\ (i # 0 => g[i - 1] = f[i - 1]) /\ i \in 0 .. m
        BY <3>1
      <4> QED
        BY <2>2, <4>1
    <3>2. CASE i = m + 1
      <4>1. g[i] = Expire(f[m], live, k, order[i]) /\ i # 0
        BY <3>2
      <4>2. g[i - 1] = f[m]
        BY <3>2
      <4> QED
        BY <4>1, <4>2
    <3> QED
      BY <3>1, <3>2
  <2>4. Loop(a, live, k, order, m + 1, g)
    <3>1. g = [i \in 0 .. (m + 1) |-> g[i]]
      OBVIOUS
    <3> HIDE DEF g
    <3> QED
      BY <2>3, <3>1 DEF Loop
  <2> HIDE DEF g
  <2> QED
    BY <2>4
<1> QED
  <2> HIDE DEF S
  <2>1. Nat \subseteq S
    BY <1>1, <1>2, AllNumbers
  <2> QED
    BY <2>1 DEF S

(* f is what the loop has after each of its expiries.                      *)
TakesEach(f, a, live, k, order) ==
    /\ Deliver(a, live, k, order) = f[Len(order)]
    /\ f[0] = Done(a)
    /\ \A i \in 1 .. Len(order) : f[i] = Expire(f[i - 1], live, k, order[i])

(* So the loop takes its expiries one by one.                              *)
LEMMA DeliverTakes ==
    ASSUME NEW a, NEW live, NEW k, NEW order, Len(order) \in Nat
    PROVE  \E f : TakesEach(f, a, live, k, order)
<1> DEFINE n == Len(order)
           h == CHOOSE f : Loop(a, live, k, order, n, f)
<1>1. Loop(a, live, k, order, n, h)
  BY LoopExists
<1>2. Deliver(a, live, k, order) = h[n]
  BY DEF Deliver, Loop
<1> HIDE DEF h
<1>3. h[0] = Done(a) /\ \A i \in 1 .. n : h[i] = Expire(h[i - 1], live, k, order[i])
  BY <1>1 DEF Loop
<1>4. TakesEach(h, a, live, k, order)
  BY <1>2, <1>3 DEF TakesEach
<1> QED
  BY <1>4

(* What is due is finite, and comes in an order.                           *)
LEMMA DueOrderIsFinite ==
    ASSUME NEW scheduled, NEW now
    PROVE  Len(DueOrder(scheduled, now)) \in Nat
<1> DEFINE due == Due(scheduled, now)
<1>1. IsFiniteSet(due)
  BY AuthorityAssumption, FS_Subset DEF AuthorityAssumption, Due
<1>2. Cardinality(due) \in Nat
  BY <1>1, FS_CardinalityType
<1> QED
  BY <1>2 DEF DueOrder

-----------------------------------------------------------------------------
(* What the authority has to know of a decided batch.                      *)

EventKinds ==
    {"RoomCreated", "MemberJoined", "SeatTaken", "SeatReleased", "ReadyChanged",
     "CountdownArmed", "CountdownCancelled", "GameStarted", "GameAdvanced",
     "Paused", "Unpaused", "ChatPosted", "MemberDisconnected",
     "MemberReconnected", "MemberGone", "LobbyReset", "HandViewRequested",
     "HandViewGranted", "HandViewDenied", "HandViewRevoked", "RoomClosed"}

(* Nobody but the sender becomes a member, a countdown is armed as its     *)
(* command says, and only an expiry starts a game.                         *)
BatchOf(p, c, s, b) ==
    /\ b.cancel \in BOOLEAN /\ (b.cancel => s.phase = "Countdown")
    /\ b.main.kind \in EventKinds
    /\ b.main.kind \in {"RoomCreated", "MemberJoined"} => b.main.principal = p
    /\ b.main.kind = "CountdownArmed" =>
           /\ c.kind = "ArmCountdown"
           /\ b.main.token = c.token /\ b.main.deadline_tick = c.deadline_tick
    /\ b.main.kind = "GameStarted" => c.kind = "CountdownExpired"

(* A batch of a kind without conditions.                                   *)
QuietKinds ==
    EventKinds \ {"RoomCreated", "MemberJoined", "CountdownArmed", "GameStarted"}

PlainBatch(s, b) ==
    /\ b.cancel \in BOOLEAN /\ (b.cancel => s.phase = "Countdown")
    /\ b.main.kind \in QuietKinds

LEMMA PlainShape ==
    ASSUME NEW s, NEW p, NEW c, NEW b, PlainBatch(s, b)
    PROVE  BatchOf(p, c, s, b)
BY DEF PlainBatch, BatchOf, QuietKinds

LEMMA PlainOf ==
    ASSUME NEW s, NEW cancel \in BOOLEAN, cancel => s.phase = "Countdown",
           NEW expire, NEW main,
           main.kind \in QuietKinds
    PROVE  PlainBatch(s, Batch(cancel, expire, main))
<1> DEFINE b == Batch(cancel, expire, main)
<1>1. b.cancel = cancel /\ b.main = main
  BY DEF Batch
<1> HIDE DEF b
<1> QED
  BY <1>1 DEF PlainBatch, b

LEMMA DecideShape ==
    ASSUME NEW s, NEW p, NEW c, c.kind \in Commands, NEW b \in decide(s, p, c)
    PROVE  BatchOf(p, c, s, b)
<1>1. CASE c.kind = "CreateRoom"
  <2>1. b = Batch(FALSE, {}, [kind |-> "RoomCreated", principal |-> p])
    BY <1>1 DEF decide, decide_create, Accept, Just
  <2> QED
    BY <2>1 DEF BatchOf, Batch, EventKinds
<1>2. CASE c.kind = "RedeemInvite"
  <2>1. b = Batch(FALSE, {}, [kind |-> "MemberJoined", principal |-> p,
                              invite |-> c.invite])
    BY <1>2 DEF decide, decide_join, Accept, Just
  <2> QED
    BY <2>1 DEF BatchOf, Batch, EventKinds
<1>3. CASE c.kind = "ArmCountdown"
  <2>1. b = Batch(FALSE, {}, [kind |-> "CountdownArmed",
                 deadline_tick |-> c.deadline_tick, token |-> c.token])
    BY <1>3 DEF decide, decide_arm_countdown, Accept, Just
  <2> QED
    BY <1>3, <2>1 DEF BatchOf, Batch, EventKinds
<1>4. CASE c.kind = "CountdownExpired"
  <2>1. b = Batch(FALSE, {}, [kind |-> "GameStarted"])
    BY <1>4 DEF decide, decide_countdown_expired, Accept, Just
  <2> QED
    BY <1>4, <2>1 DEF BatchOf, Batch, EventKinds
<1>5. CASE c.kind \notin {"CreateRoom", "RedeemInvite", "ArmCountdown",
                          "CountdownExpired"}
  <2> SUFFICES PlainBatch(s, b)
    BY PlainShape
  <2> USE DEF EventKinds, QuietKinds
  <2>1. CASE c.kind = "TakeSeat"
    <3>1. b = Batch(FALSE, expire_capabilities_for(s, {p}),
                    [kind |-> "SeatTaken", principal |-> p, seat |-> c.seat])
      BY <2>1 DEF decide, decide_take_seat, Accept
    <3> QED
      BY <3>1, PlainOf
  <2>2. CASE c.kind = "ReleaseSeat"
    <3>1. b = Batch(s.phase = "Countdown", expire_capabilities_for(s, {p}),
                    [kind |-> "SeatReleased", principal |-> p, seat |-> s.seat[p]])
      BY <2>2 DEF decide, decide_release_seat, Accept, cancel_countdown_first
    <3> QED
      BY <3>1, PlainOf
  <2>3. CASE c.kind = "Ready"
    <3>1. b = Batch(FALSE, {}, [kind |-> "ReadyChanged", principal |-> p, ready |-> TRUE])
      BY <2>3 DEF decide, decide_ready, Accept, cancel_countdown_first
    <3> QED
      BY <3>1, PlainOf
  <2>4. CASE c.kind = "Unready"
    <3>1. b = Batch(s.phase = "Countdown", {},
                    [kind |-> "ReadyChanged", principal |-> p, ready |-> FALSE])
      BY <2>4 DEF decide, decide_ready, Accept, cancel_countdown_first
    <3> QED
      BY <3>1, PlainOf
  <2>5. CASE c.kind = "AbortCountdown"
    <3>1. b = Batch(FALSE, {}, [kind |-> "CountdownCancelled", token |-> s.token])
      BY <2>5 DEF decide, decide_abort_countdown, Accept, Just
    <3> QED
      BY <3>1, PlainOf
  <2>6. CASE c.kind = "Pause"
    <3>1. b = Batch(FALSE, {}, [kind |-> "Paused"])
      BY <2>6 DEF decide, decide_pause, Accept, Just
    <3> QED
      BY <3>1, PlainOf
  <2>7. CASE c.kind = "Unpause"
    <3>1. b = Batch(FALSE, {}, [kind |-> "Unpaused"])
      BY <2>7 DEF decide, decide_unpause, Accept, Just
    <3> QED
      BY <3>1, PlainOf
  <2>8. CASE c.kind = "ResetLobby"
    <3>1. b = Batch(FALSE, {}, [kind |-> "LobbyReset"])
      BY <2>8 DEF decide, decide_reset, Accept, Just
    <3> QED
      BY <3>1, PlainOf
  <2>9. CASE c.kind = "CloseRoom"
    <3>1. b = Batch(FALSE, {}, [kind |-> "RoomClosed"])
      BY <2>9 DEF decide, decide_close, Accept, Just
    <3> QED
      BY <3>1, PlainOf
  <2>10. CASE c.kind = "Chat"
    <3>1. b = Batch(FALSE, {}, [kind |-> "ChatPosted", principal |-> p])
      BY <2>10 DEF decide, decide_chat, Accept, Just
    <3> QED
      BY <3>1, PlainOf
  <2>11. CASE c.kind = "Reconnect"
    <3>1. b = Batch(FALSE, {}, [kind |-> "MemberReconnected", principal |-> p])
      BY <2>11 DEF decide, decide_reconnect, Accept, Just
    <3> QED
      BY <3>1, PlainOf
  <2>12. CASE c.kind = "RequestHand"
    <3>1. b = Batch(FALSE, {}, [kind |-> "HandViewRequested",
                 request |-> [request_id |-> s.revision, player |-> c.player,
                              recipient |-> p]])
      BY <2>12 DEF decide, decide_request_hand, Accept, Just
    <3> QED
      BY <3>1, PlainOf
  <2>13. CASE c.kind = "GrantHand"
    <3>1. b = Batch(FALSE, {}, [kind |-> "HandViewGranted", request |-> c.request,
                                 grant_epoch |-> c.grant_epoch])
      BY <2>13 DEF decide, decide_grant_hand, Accept, Just
    <3> QED
      BY <3>1, PlainOf
  <2>14. CASE c.kind = "DenyHand"
    <3>1. b = Batch(FALSE, {}, [kind |-> "HandViewDenied", request |-> c.request])
      BY <2>14 DEF decide, decide_deny_hand, Accept, Just
    <3> QED
      BY <3>1, PlainOf
  <2>15. CASE c.kind = "RevokeHand"
    <3>1. b = Batch(FALSE, {}, [kind |-> "HandViewRevoked", grant |-> c.grant])
      BY <2>15 DEF decide, decide_revoke_hand, Accept, Just
    <3> QED
      BY <3>1, PlainOf
  <2>16. CASE c.kind \in {"GameAction", "ApplyChance", "Settle"}
    <3>1. \/ b \in decide_game_action(s, p) \/ b \in decide_chance(s)
          \/ b \in decide_settle(s)
      BY <2>16 DEF decide
    <3>2. PICK t : b = transition_event(s, t)
      BY <3>1 DEF decide_game_action, decide_chance, decide_settle
    <3> QED
      BY <3>2, PlainOf DEF transition_event
  <2>17. CASE c.kind \in {"Leave", "RemoveMember"}
    <3>1. b \in decide_leave(s, p) \/ b \in decide_remove(s, p, c.target)
      BY <2>17 DEF decide
    <3>2. b \in decide_close(s) \/ \E q : b = MembershipLost(s, q)
      BY <3>1 DEF decide_leave, decide_remove, Accept
    <3>3. CASE b \in decide_close(s)
      <4>1. b = Batch(FALSE, {}, [kind |-> "RoomClosed"])
        BY <3>3 DEF decide_close, Accept, Just
      <4> QED
        BY <4>1, PlainOf
    <3>4. ASSUME NEW q, b = MembershipLost(s, q) PROVE PlainBatch(s, b)
      <4> DEFINE cancel == s.seat[q] # NoSeat /\ s.phase = "Countdown"
                 expire == expire_capabilities_for(s, {q})
                 main == [kind |-> "MemberGone", principal |-> q]
      <4>1. b = Batch(cancel, expire, main)
        BY <3>4 DEF MembershipLost, cancel_countdown_first
      <4>2. cancel \in BOOLEAN /\ (cancel => s.phase = "Countdown")
            /\ main.kind \in QuietKinds
        OBVIOUS
      <4> HIDE DEF cancel, expire, main
      <4> QED
        BY <4>1, <4>2, PlainOf
    <3> QED
      BY <3>2, <3>3, <3>4
  <2> QED
    BY <1>5, <2>1, <2>2, <2>3, <2>4, <2>5, <2>6, <2>7, <2>8,
       <2>9, <2>10, <2>11, <2>12, <2>13, <2>14, <2>15, <2>16, <2>17
       DEF Commands, SeatedCommands, MemberCommands, HandOwnerCommands,
       HostCommands, EnvironmentCommands
<1> QED
  BY <1>1, <1>2, <1>3, <1>4, <1>5

(* A countdown is one of a token.                                          *)
Armed(s) == s.phase = "Countdown" => s.token \in Tokens

(* A countdown that is only kept keeps its token and its deadline.         *)
SameCountdown(u, s) ==
    u.phase = "Countdown" => /\ s.phase = "Countdown" /\ u.token = s.token
                             /\ u.deadline_tick = s.deadline_tick

(* The members after an event, and its countdown.                          *)
LEMMA EventMembers ==
    ASSUME NEW s \in SessionStates, NEW e,
           e.kind \in EventKinds \cup {"HandCapabilitiesExpired"}
    PROVE  /\ apply(s, e).members \subseteq s.members \cup
                  IF e.kind \in {"RoomCreated", "MemberJoined"}
                  THEN {e.principal} ELSE {}
           /\ e.kind = "GameStarted" => apply(s, e).phase = "Running"
           /\ apply(s, e).phase = "Running" =>
                  \/ s.phase = "Running"
                  \/ e.kind \in {"GameStarted", "GameAdvanced", "Unpaused"}
           /\ e.kind = "CountdownCancelled" => apply(s, e).phase = "Lobby"
           /\ e.kind = "CountdownArmed" => /\ apply(s, e).token = e.token
                                           /\ apply(s, e).deadline_tick = e.deadline_tick
           /\ e.kind # "CountdownArmed" => SameCountdown(apply(s, e), s)
<1> DEFINE u == apply_kind(s, e)
           new == IF e.kind \in {"RoomCreated", "MemberJoined"}
                  THEN {e.principal} ELSE {}
           Fine(t) == /\ {"members", "phase", "token", "deadline_tick"} \subseteq DOMAIN t
                      /\ t.members \subseteq s.members \cup new
                      /\ e.kind = "GameStarted" => t.phase = "Running"
                      /\ t.phase = "Running" =>
                             \/ s.phase = "Running"
                             \/ e.kind \in {"GameStarted", "GameAdvanced", "Unpaused"}
                      /\ e.kind = "CountdownCancelled" => t.phase = "Lobby"
                      /\ e.kind = "CountdownArmed" =>
                             t.token = e.token /\ t.deadline_tick = e.deadline_tick
                      /\ e.kind # "CountdownArmed" => SameCountdown(t, s)
<1>0. /\ {"members", "phase", "token", "deadline_tick", "game", "ready", "seat",
           "connected", "history", "session_epoch", "host", "membership_epoch",
           "chat_start", "chat_count", "consumed", "revision", "hand_requests",
           "hand_grants", "projection_epoch"} = DOMAIN s
  BY DEF SessionStates
<1>1. Fine(u)
  <2> USE DEF SameCountdown
  <2>1. CASE e.kind \in {"RoomCreated", "MemberJoined"}
    <3>1. u = RoomCreated(s, e.principal) \/ u = MemberJoined(s, e.principal, e.invite)
      BY <2>1 DEF apply_kind
    <3>2. CASE u = RoomCreated(s, e.principal)
      BY <1>0, <2>1, <3>2, ZenonT(60) DEF RoomCreated, AddMember, SetPhase
    <3>3. CASE u = MemberJoined(s, e.principal, e.invite)
      BY <1>0, <2>1, <3>3 DEF MemberJoined, AddMember
    <3> QED
      BY <3>1, <3>2, <3>3
  <2>2. CASE e.kind \in {"SeatTaken", "SeatReleased", "ReadyChanged"}
    <3>1. \/ u = SeatTaken(s, e.principal, e.seat) \/ u = SeatReleased(s, e.principal)
          \/ u = ReadyChanged(s, e.principal, e.ready)
      BY <2>2 DEF apply_kind
    <3> QED
      BY <1>0, <2>2, <3>1 DEF SeatTaken, SeatReleased, ReadyChanged
  <2>3. CASE e.kind \in {"CountdownArmed", "CountdownCancelled", "GameStarted",
                         "GameAdvanced"}
    <3>1. CASE e.kind = "CountdownArmed"
      BY <1>0, <3>1 DEF apply_kind, CountdownArmed, SetPhase
    <3>2. CASE e.kind = "CountdownCancelled"
      BY <1>0, <3>2 DEF apply_kind, CountdownCancelled, SetPhase
    <3>3. CASE e.kind = "GameStarted"
      BY <1>0, <3>3 DEF apply_kind, GameStarted, SetPhase, AllUnready
    <3>4. CASE e.kind = "GameAdvanced"
      BY <1>0, <3>4 DEF apply_kind, GameAdvanced, SetPhase
    <3> QED
      BY <2>3, <3>1, <3>2, <3>3, <3>4
  <2>4. CASE e.kind \in {"Paused", "Unpaused", "LobbyReset", "RoomClosed"}
    BY <1>0, <2>4, ZenonT(60)
       DEF apply_kind, SetPhase, LobbyReset, AllUnready, RoomClosed
  <2>5. CASE e.kind \in {"MemberDisconnected", "MemberReconnected", "MemberGone",
                         "ChatPosted"}
    BY <1>0, <2>5, ZenonT(60)
       DEF apply_kind, MemberDisconnected, MemberReconnected, MemberGone, ChatPosted
  <2>6. CASE e.kind \in {"HandViewRequested", "HandViewGranted", "HandViewDenied",
                         "HandViewRevoked", "HandCapabilitiesExpired"}
    BY <1>0, <2>6, ZenonT(60)
       DEF apply_kind, HandViewRequested, HandViewGranted,
           HandViewDenied, HandViewRevoked, HandCapabilitiesExpired
  <2> QED
    BY <2>1, <2>2, <2>3, <2>4, <2>5, <2>6 DEF EventKinds
<1> HIDE DEF u
<1>2. apply(s, e) = [u EXCEPT !.revision = s.revision + 1]
  BY DEF apply, u
<1> QED
  BY <1>1, <1>2 DEF SameCountdown

(* A command of a client, or one of the clock.                             *)
Sendable(c) ==
    c \in ClientPayloads \/ c = [kind |-> "CountdownExpired", token |-> c.token]

Effects == [cancel : Tokens \cup {NoToken}, arm : Tokens \cup {NoToken},
            tick : Ticks \cup {NoTick}]

LEMMA PayloadKinds ==
    ASSUME NEW c \in ClientPayloads
    PROVE  /\ c.kind \in Commands
           /\ c.kind = "ArmCountdown" =>
                  c.deadline_tick \in Ticks /\ c.token \in Tokens
<1> USE DEF Commands, SeatedCommands, MemberCommands, HandOwnerCommands,
        HostCommands, EnvironmentCommands
<1>1. CASE c \in PlainPayloads
  BY <1>1 DEF PlainPayloads, PlainCommands
<1>2. CASE c \in LobbyPayloads
  BY <1>2 DEF LobbyPayloads
<1>3. CASE c \in CountdownPayloads
  BY <1>3 DEF CountdownPayloads
<1>4. CASE c \in TargetPayloads
  BY <1>4 DEF TargetPayloads
<1> QED
  BY <1>1, <1>2, <1>3, <1>4 DEF ClientPayloads

(* A hand command that decide accepts names a live request or grant, so    *)
(* every accepted payload is one the reducer's lemmas speak of.            *)
LEMMA AcceptedPayload ==
    ASSUME NEW s, NEW p, NEW c \in ClientPayloads, NEW b \in decide(s, p, c)
    PROVE  c \in CommandPayloads(s)
<1>1. CASE c \in PlainPayloads \cup LobbyPayloads \cup CountdownPayloads
                 \cup TargetPayloads
  BY <1>1 DEF CommandPayloads
<1>2. CASE c \in [kind : {"GrantHand"}, request : HandViewRequests, grant_epoch : Nat]
  <2>1. c = [kind |-> "GrantHand", request |-> c.request, grant_epoch |-> c.grant_epoch]
        /\ c.kind = "GrantHand"
    BY <1>2
  <2>2. b \in decide_grant_hand(s, p, c.request, c.grant_epoch)
    BY <2>1 DEF decide
  <2>3. c.request \in s.hand_requests /\ c.grant_epoch = s.projection_epoch + 1
    BY <2>2 DEF decide_grant_hand, Accept
  <2>4. c \in HandPayloads(s)
    BY <2>1, <2>3 DEF HandPayloads
  <2> QED
    BY <2>4 DEF CommandPayloads
<1>3. CASE c \in [kind : {"DenyHand"}, request : HandViewRequests]
  <2>1. c = [kind |-> "DenyHand", request |-> c.request] /\ c.kind = "DenyHand"
    BY <1>3
  <2>2. b \in decide_deny_hand(s, p, c.request)
    BY <2>1 DEF decide
  <2>3. c.request \in s.hand_requests
    BY <2>2 DEF decide_deny_hand, Accept
  <2>4. c \in HandPayloads(s)
    BY <2>1, <2>3 DEF HandPayloads
  <2> QED
    BY <2>4 DEF CommandPayloads
<1>4. CASE c \in [kind : {"RevokeHand"}, grant : HandViewGrants]
  <2>1. c = [kind |-> "RevokeHand", grant |-> c.grant] /\ c.kind = "RevokeHand"
    BY <1>4
  <2>2. b \in decide_revoke_hand(s, p, c.grant)
    BY <2>1 DEF decide
  <2>3. c.grant \in s.hand_grants
    BY <2>2 DEF decide_revoke_hand, Accept
  <2>4. c \in HandPayloads(s)
    BY <2>1, <2>3 DEF HandPayloads
  <2> QED
    BY <2>4 DEF CommandPayloads
<1> QED
  BY <1>1, <1>2, <1>3, <1>4 DEF ClientPayloads

(* A committed batch: the state it leads to, who its members are, and its  *)
(* timer effects.                                                          *)
Committed(p, s, b) ==
    /\ StateInv(AfterBatch(s, b))
    /\ AfterBatch(s, b).revision = s.revision + EventCount(b)
    /\ AfterBatch(s, b).members \subseteq s.members \cup {p}
    /\ Armed(s) => Armed(AfterBatch(s, b))
    /\ TimerEffects(s, b) \in Effects

(* The events before the main one arm no countdown.                        *)
LEMMA PreludeCountdown ==
    ASSUME NEW s, StateInv(s), NEW b, b.cancel \in BOOLEAN,
           b.cancel => s.phase = "Countdown"
    PROVE  SameCountdown(AfterExpiry(s, b), s)
<1> DEFINE w == AfterExpiry(s, b)
<1>1. CASE b.cancel
  <2>1. BeforeMain(w, s, b)
    BY PreludeGood
  <2> QED
    BY <1>1, <2>1 DEF BeforeMain, SameCountdown
<1>2. CASE ~b.cancel /\ b.expire = {}
  BY <1>2 DEF AfterExpiry, AfterCancel, SameCountdown
<1>3. CASE ~b.cancel /\ b.expire # {}
  <2> DEFINE e == ExpireEvent(b.expire)
  <2>1. w = apply(s, e)
    BY <1>3 DEF AfterExpiry, AfterCancel
  <2>2. e.kind = "HandCapabilitiesExpired" /\ s \in SessionStates
    BY DEF ExpireEvent, StateInv
  <2> HIDE DEF w, e
  <2> QED
    BY <2>1, <2>2, EventMembers DEF w
<1> QED
  BY <1>1, <1>2, <1>3

LEMMA BatchMembers ==
    ASSUME NEW s, StateInv(s), NEW p, NEW c, NEW b, BatchOf(p, c, s, b)
    PROVE  /\ AfterBatch(s, b).members \subseteq s.members \cup {p}
           /\ b.main.kind = "GameStarted" =>
                  /\ AfterBatch(s, b).members \subseteq s.members
                  /\ AfterBatch(s, b).phase = "Running"
           /\ Armed(s) /\ (c.kind = "ArmCountdown" => c.token \in Tokens)
                  => Armed(AfterBatch(s, b))
<1> DEFINE w == AfterExpiry(s, b)
<1>1. BeforeMain(w, s, b)
  BY PreludeGood DEF BatchOf
<1>2. w \in SessionStates /\ w.members = s.members
  BY <1>1 DEF BeforeMain, StateInv, SameMembership
<1>3. SameCountdown(w, s)
  BY PreludeCountdown DEF BatchOf
<1> HIDE DEF w
<1>4. AfterBatch(s, b) = apply(w, b.main)
  BY DEF AfterBatch, w
<1>5. Armed(s) /\ (c.kind = "ArmCountdown" => c.token \in Tokens)
          => Armed(AfterBatch(s, b))
  <2>1. CASE b.main.kind = "CountdownArmed"
    BY <1>2, <1>4, <2>1, EventMembers DEF BatchOf, Armed
  <2>2. CASE b.main.kind # "CountdownArmed"
    BY <1>2, <1>3, <1>4, <2>2, EventMembers DEF BatchOf, Armed, SameCountdown
  <2> QED
    BY <2>1, <2>2
<1> QED
  BY <1>2, <1>4, <1>5, EventMembers DEF BatchOf

LEMMA CommandCommits ==
    ASSUME NEW s, StateInv(s), NEW p \in AllPrincipals, NEW c, Sendable(c),
           NEW b \in decide(s, p, c), BatchApplies(s, b)
    PROVE  Committed(p, s, b)
<1>1. c.kind \in Commands /\ (c.kind = "ArmCountdown" =>
                                 c.deadline_tick \in Ticks /\ c.token \in Tokens)
  BY PayloadKinds DEF Sendable, Commands
<1>2. BatchOf(p, c, s, b)
  BY <1>1, DecideShape
<1>3. GoodBatch(s, b)
  <2>1. CASE c \in ClientPayloads
    <3>1. c \in CommandPayloads(s)
      BY <2>1, AcceptedPayload
    <3>2. ~(c.kind = "CloseRoom" /\ s.phase = "Uninitialized")
      BY UncreatedCannotClose DEF decide
    <3> QED
      BY <3>1, <3>2, DecideGood
  <2>2. CASE c.kind = "CountdownExpired"
    <3>1. b \in decide_countdown_expired(s, c.token)
      BY <2>2 DEF decide
    <3> QED
      BY <3>1, StartGood
  <2> QED
    BY <2>1, <2>2 DEF Sendable
<1>4. TimerEffects(s, b) \in Effects
  <2>1. s.token \in Tokens \cup {NoToken}
    BY DEF StateInv, SessionStates
  <2> QED
    BY <1>1, <1>2, <2>1 DEF BatchOf, TimerEffects, Effects
<1> QED
  BY <1>1, <1>2, <1>3, <1>4, BatchMembers DEF Committed, GoodBatch

LEMMA LossCommits ==
    ASSUME NEW s, StateInv(s), NEW p \in AllPrincipals,
           NEW b \in decide_transport_disconnect(s, p)
    PROVE  Committed(p, s, b)
<1> DEFINE main == [kind |-> "MemberDisconnected", principal |-> p]
           cancel == s.seat[p] # NoSeat /\ s.phase = "Countdown"
<1>1. b = Batch(cancel, {}, main)
  BY DEF decide_transport_disconnect, Accept, cancel_countdown_first
<1>2. cancel \in BOOLEAN /\ (cancel => s.phase = "Countdown")
      /\ main.kind \in QuietKinds
  BY DEF EventKinds, QuietKinds
<1> HIDE DEF cancel, main
<1>3. PlainBatch(s, b)
  BY <1>1, <1>2, PlainOf
<1>4. BatchOf(p, main, s, b) /\ main.kind # "ArmCountdown"
  BY <1>3, PlainShape DEF main
<1>5. TimerEffects(s, b) \in Effects
  <2>1. s.token \in Tokens \cup {NoToken}
    BY DEF StateInv, SessionStates
  <2> QED
    BY <1>3, <2>1 DEF PlainBatch, QuietKinds, EventKinds, TimerEffects, Effects
<1> QED
  BY <1>4, <1>5, BatchMembers, DisconnectGood DEF Committed, GoodBatch

-----------------------------------------------------------------------------
(* One command.                                                            *)

ClientCommands ==
    [id : {"client"} \X Nat, principal : Principals, payload : ClientPayloads,
     expected_revision : Nat]

CommandTyped(c) ==
    /\ c.principal \in AllPrincipals /\ Sendable(c.payload)
    /\ c.expected_revision \in Nat
    /\ c.principal \in Principals => c \in ClientCommands

(* A recorded command was accepted at an earlier revision.                 *)
RecordTyped(r, s) ==
    /\ r.effects \in Effects /\ CommandTyped(r.command)
    /\ r.command.expected_revision < s.revision

Fields(a) ==
    a = [state |-> a.state, scheduled |-> a.scheduled, now |-> a.now,
         processed |-> a.processed, next_delivery |-> a.next_delivery]

AuthorityTyped(a) ==
    /\ Fields(a)
    /\ StateInv(a.state) /\ Armed(a.state) /\ a.state.revision <= MaxRevision
    /\ a.scheduled \in [Tokens -> Ticks \cup {NoTick}]
    /\ a.now \in Ticks \cup {0} /\ a.next_delivery \in Nat
    /\ \A r \in a.processed : RecordTyped(r, a.state)

Recipients(s) == {p \in s.members : s.connected[p]}

(* Numbering frames changes nothing else.                                  *)
LEMMA Renumbered ==
    ASSUME NEW a, AuthorityTyped(a), NEW n \in Nat
    PROVE  LET t == [a EXCEPT !.next_delivery = n]
           IN  AuthorityTyped(t) /\ SameAuthority(t, a) /\ t.next_delivery = n
<1> DEFINE t == [a EXCEPT !.next_delivery = n]
<1>1. t = [state |-> a.state, scheduled |-> a.scheduled, now |-> a.now,
           processed |-> a.processed, next_delivery |-> n]
  BY DEF AuthorityTyped, Fields
<1> HIDE DEF t
<1>2. /\ t.state = a.state /\ t.scheduled = a.scheduled /\ t.now = a.now
      /\ t.processed = a.processed /\ t.next_delivery = n
  BY <1>1
<1> QED
  BY <1>1, <1>2 DEF AuthorityTyped, Fields, SameAuthority, t

LEMMA RecipientsFinite ==
    ASSUME NEW s \in SessionStates, NEW live
    PROVE  Cardinality(Recipients(s) \cap live) \in Nat
<1>1. IsFiniteSet(AllPrincipals)
  <2>1. IsFiniteSet((Principals \cup {authority_clock}) \cup {game_environment})
    BY ReducerAssumption, FS_AddElement DEF ReducerAssumption
  <2>2. AllPrincipals = (Principals \cup {authority_clock}) \cup {game_environment}
    BY DEF AllPrincipals
  <2> QED
    BY <2>1, <2>2
<1>2. Recipients(s) \cap live \subseteq AllPrincipals
  BY DEF Recipients, SessionStates
<1> QED
  BY <1>1, <1>2, FS_Subset, FS_CardinalityType

(* A broadcast succeeds when every recipient has a route.                  *)
LEMMA Broadcasts ==
    ASSUME NEW a, AuthorityTyped(a), NEW live, NEW k \in Nat
    PROVE  LET r == broadcast_projections(a, live, k)
           IN  /\ AuthorityTyped(r.a) /\ SameAuthority(r.a, a)
               /\ r.ok \in BOOLEAN /\ (r.ok <=> Recipients(a.state) \subseteq live)
               /\ r.ok => r.a.next_delivery
                             = a.next_delivery + Cardinality(Recipients(a.state))
<1> DEFINE reached == Cardinality(Recipients(a.state) \cap live)
           stop == a.next_delivery + IF k <= reached THEN k ELSE reached + 1
           r == broadcast_projections(a, live, k)
<1>1. a.state \in SessionStates /\ a.next_delivery \in Nat
  BY DEF AuthorityTyped, StateInv
<1>2. reached \in Nat
  BY <1>1, RecipientsFinite
<1>3. a.next_delivery + reached \in Nat /\ stop \in Nat
  BY <1>1, <1>2
<1>4. r = IF Recipients(a.state) \subseteq live
          THEN Done([a EXCEPT !.next_delivery = a.next_delivery + reached])
          ELSE Err([a EXCEPT !.next_delivery = stop])
  BY DEF broadcast_projections, Recipients
<1>5. CASE Recipients(a.state) \subseteq live
  <2>1. Recipients(a.state) \cap live = Recipients(a.state)
    BY <1>5
  <2>2. r.ok = TRUE /\ r.a = [a EXCEPT !.next_delivery = a.next_delivery + reached]
    BY <1>4, <1>5 DEF Done
  <2>3. reached = Cardinality(Recipients(a.state))
    BY <2>1
  <2> HIDE DEF r, reached
  <2>4. /\ AuthorityTyped(r.a) /\ SameAuthority(r.a, a)
        /\ r.a.next_delivery = a.next_delivery + reached
    BY <1>3, <2>2, Renumbered
  <2> QED
    BY <1>5, <2>2, <2>3, <2>4 DEF r
<1>6. CASE ~(Recipients(a.state) \subseteq live)
  <2>1. r.ok = FALSE /\ r.a = [a EXCEPT !.next_delivery = stop]
    BY <1>4, <1>6 DEF Err
  <2> HIDE DEF stop, r
  <2>2. AuthorityTyped(r.a) /\ SameAuthority(r.a, a)
    BY <1>3, <2>1, Renumbered
  <2> QED
    BY <1>6, <2>1, <2>2 DEF r
<1> QED
  BY <1>5, <1>6

LEMMA Denials ==
    ASSUME NEW a, AuthorityTyped(a), NEW live, NEW p
    PROVE  LET r == send_denial(a, live, p)
           IN  /\ AuthorityTyped(r.a) /\ SameAuthority(r.a, a)
               /\ r.ok \in BOOLEAN /\ (r.ok <=> p \in live)
<1>1. a.next_delivery + 1 \in Nat
  BY DEF AuthorityTyped
<1> DEFINE t == [a EXCEPT !.next_delivery = a.next_delivery + 1]
<1>2. AuthorityTyped(t) /\ SameAuthority(t, a)
  BY <1>1, Renumbered
<1>3. send_denial(a, live, p) = IF p \in live THEN Done(t) ELSE Err(t)
  BY DEF send_denial
<1> HIDE DEF t
<1> DEFINE r == send_denial(a, live, p)
<1>4. CASE p \in live
  <2>1. r.a = t /\ r.ok = TRUE
    BY <1>3, <1>4 DEF Done
  <2> HIDE DEF r
  <2> QED
    BY <1>2, <1>4, <2>1 DEF r
<1>5. CASE p \notin live
  <2>1. r.a = t /\ r.ok = FALSE
    BY <1>3, <1>5 DEF Err
  <2> HIDE DEF r
  <2> QED
    BY <1>2, <1>5, <2>1 DEF r
<1> QED
  BY <1>4, <1>5

(* What process_command does depends on the session, the records and the   *)
(* command; routes and deliveries only enter its answer.                   *)
AnyOf(S) == CHOOSE x \in S : TRUE
RecordOf(a, c) == AnyOf(Recorded(a, c))
BatchFor(s, c) == AnyOf(decide(s, c.principal, c.payload))

Repeats(a, c) == Recorded(a, c) # {} /\ RecordOf(a, c).command = c
Admitted(a, c) ==
    /\ Recorded(a, c) = {} /\ c.expected_revision = a.state.revision
    /\ authorize(a.state, c.principal, c.payload.kind)
Decides(a, c) ==
    /\ Admitted(a, c) /\ ~GameRefuses(a.state, c.payload)
    /\ decide(a.state, c.principal, c.payload) # {}
Commits(a, c) ==
    /\ Decides(a, c)
    /\ RevisionsLeft(a.state, BatchFor(a.state, c))
    /\ BatchApplies(a.state, BatchFor(a.state, c))
Fails(a, c) ==
    \/ Admitted(a, c) /\ GameRefuses(a.state, c.payload)
    \/ Decides(a, c) /\ ~Commits(a, c)

LEMMA CommandCases ==
    ASSUME NEW a, NEW live, NEW k, NEW c
    PROVE  process_command(a, live, k, c) =
               IF Repeats(a, c)
               THEN broadcast_projections(recommit_events(a, RecordOf(a, c)), live, k)
               ELSE IF Fails(a, c) THEN Err(a)
               ELSE IF Commits(a, c)
               THEN broadcast_projections(
                        commit_events(a, c, BatchFor(a.state, c)), live, k)
               ELSE send_denial(a, live, c.principal)
<1> DEFINE batches == decide(a.state, c.principal, c.payload)
           b == BatchFor(a.state, c)
           record == RecordOf(a, c)
<1>1. process_command(a, live, k, c) =
        IF Recorded(a, c) # {}
        THEN IF record.command = c
             THEN broadcast_projections(recommit_events(a, record), live, k)
             ELSE send_denial(a, live, c.principal)
        ELSE IF \/ c.expected_revision # a.state.revision
                \/ ~authorize(a.state, c.principal, c.payload.kind)
        THEN send_denial(a, live, c.principal)
        ELSE IF GameRefuses(a.state, c.payload) THEN Err(a)
        ELSE IF batches = {} THEN send_denial(a, live, c.principal)
        ELSE IF ~(RevisionsLeft(a.state, b) /\ BatchApplies(a.state, b)) THEN Err(a)
        ELSE broadcast_projections(commit_events(a, c, b), live, k)
  BY DEF process_command, RecordOf, BatchFor, AnyOf
<1> QED
  BY <1>1 DEF Repeats, Fails, Commits, Decides, Admitted

(* A batch that is committed raises the revision, so the record it leaves  *)
(* is past.                                                                *)
LEMMA CommitKeeps ==
    ASSUME NEW a, AuthorityTyped(a), NEW c, CommandTyped(c), Commits(a, c)
    PROVE  LET t == commit_events(a, c, BatchFor(a.state, c))
           IN  /\ AuthorityTyped(t) /\ t.next_delivery = a.next_delivery
               /\ t.now = a.now
               /\ t.state = AfterBatch(a.state, BatchFor(a.state, c))
               /\ t.state.members \subseteq a.state.members \cup {c.principal}
               /\ LET e == TimerEffects(a.state, BatchFor(a.state, c))
                  IN  /\ t.scheduled = SetTimers(a.scheduled, e)
                      /\ t.processed = a.processed \cup {[command |-> c, effects |-> e]}
<1> DEFINE s == a.state
           b == BatchFor(a.state, c)
           e == TimerEffects(s, b)
           t == commit_events(a, c, b)
<1>1. /\ b \in decide(s, c.principal, c.payload)
      /\ RevisionsLeft(s, b) /\ BatchApplies(s, b)
      /\ c.expected_revision = s.revision
  BY DEF Commits, Decides, Admitted, BatchFor, AnyOf
<1> HIDE DEF b
<1>2. Committed(c.principal, s, b) /\ s.revision \in Nat
  BY <1>1, CommandCommits DEF AuthorityTyped, CommandTyped, StateInv, SessionStates
<1>3. EventCount(b) \in Nat /\ EventCount(b) > 0
  BY DEF EventCount
<1>4. t = [state |-> AfterBatch(s, b), scheduled |-> SetTimers(a.scheduled, e),
           now |-> a.now,
           processed |-> a.processed \cup {[command |-> c, effects |-> e]},
           next_delivery |-> a.next_delivery]
  <2>1. Fields(a)
    BY DEF AuthorityTyped
  <2>2. t = [a EXCEPT !.state = AfterBatch(s, b),
                      !.processed = @ \cup {[command |-> c, effects |-> e]},
                      !.scheduled = SetTimers(@, e)]
    BY DEF commit_events
  <2> HIDE DEF t, e
  <2> QED
    BY <2>1, <2>2 DEF Fields
<1> HIDE DEF t, e
<1>5. /\ t.state = AfterBatch(s, b) /\ t.scheduled = SetTimers(a.scheduled, e)
      /\ t.now = a.now /\ t.next_delivery = a.next_delivery
      /\ t.processed = a.processed \cup {[command |-> c, effects |-> e]}
      /\ Fields(t)
  BY <1>4 DEF Fields
<1>6. e \in Effects /\ StateInv(t.state) /\ Armed(t.state)
      /\ t.state.revision > s.revision
      /\ t.state.revision <= MaxRevision /\ t.state.revision \in Nat
  <2> DEFINE n == EventCount(b)
  <2>1. e \in Effects /\ StateInv(t.state) /\ Armed(t.state)
        /\ t.state.revision = s.revision + n
    BY <1>2, <1>5 DEF Committed, AuthorityTyped, e
  <2>2. n \in Nat /\ n > 0 /\ s.revision + n <= MaxRevision /\ s.revision \in Nat
    BY <1>1, <1>2, <1>3 DEF RevisionsLeft
  <2> HIDE DEF n, s
  <2> QED
    BY <2>1, <2>2
<1>7. t.scheduled \in [Tokens -> Ticks \cup {NoTick}]
  BY <1>5, <1>6 DEF SetTimers, Effects, AuthorityTyped
<1>8. ASSUME NEW r \in t.processed PROVE RecordTyped(r, t.state)
  <2>1. CASE r \in a.processed
    BY <1>2, <1>6, <2>1 DEF AuthorityTyped, RecordTyped, CommandTyped
  <2>2. CASE r = [command |-> c, effects |-> e]
    BY <1>1, <1>6, <2>2 DEF RecordTyped
  <2> QED
    BY <1>5, <2>1, <2>2
<1>9. AuthorityTyped(t)
  BY <1>5, <1>6, <1>7, <1>8 DEF AuthorityTyped
<1> QED
  BY <1>2, <1>5, <1>9 DEF Committed, b, t, e

LEMMA RecommitKeeps ==
    ASSUME NEW a, AuthorityTyped(a), NEW c, Repeats(a, c)
    PROVE  LET t == recommit_events(a, RecordOf(a, c))
           IN  /\ AuthorityTyped(t) /\ t.state = a.state /\ t.now = a.now
               /\ t.next_delivery = a.next_delivery /\ t.processed = a.processed
               /\ t.scheduled = SetTimers(a.scheduled, RecordOf(a, c).effects)
<1> DEFINE e == RecordOf(a, c).effects
           t == recommit_events(a, RecordOf(a, c))
<1>1. RecordOf(a, c) \in a.processed
  BY DEF Repeats, RecordOf, AnyOf, Recorded
<1>2. e \in Effects
  BY <1>1 DEF AuthorityTyped, RecordTyped
<1>3. t = [state |-> a.state, scheduled |-> SetTimers(a.scheduled, e),
           now |-> a.now, processed |-> a.processed,
           next_delivery |-> a.next_delivery]
  BY DEF recommit_events, AuthorityTyped, Fields
<1> HIDE DEF e, t
<1>4. /\ t.state = a.state /\ t.scheduled = SetTimers(a.scheduled, e)
      /\ t.now = a.now /\ t.next_delivery = a.next_delivery
      /\ t.processed = a.processed /\ Fields(t)
  BY <1>3 DEF Fields
<1>5. t.scheduled \in [Tokens -> Ticks \cup {NoTick}]
  BY <1>2, <1>4 DEF SetTimers, Effects, AuthorityTyped
<1> QED
  BY <1>4, <1>5 DEF AuthorityTyped, t, e

(* The authority a command leaves, deliveries aside.                       *)
Outcome(a, c) ==
    IF Repeats(a, c) THEN recommit_events(a, RecordOf(a, c))
    ELSE IF Commits(a, c) THEN commit_events(a, c, BatchFor(a.state, c))
    ELSE a

(* A command that does not fail is answered wherever its sender and the    *)
(* members have routes.                                                    *)
LEMMA CommandResult ==
    ASSUME NEW a, AuthorityTyped(a), NEW c, CommandTyped(c), NEW live,
           NEW k \in Nat
    PROVE  LET r == process_command(a, live, k, c)
           IN  /\ AuthorityTyped(r.a) /\ r.ok \in BOOLEAN
               /\ SameAuthority(r.a, Outcome(a, c))
               /\ r.a.now = a.now
               /\ r.a.state.members \subseteq a.state.members \cup {c.principal}
               /\ Fails(a, c) => ~r.ok
               /\ ~Fails(a, c) /\ a.state.members \cup {c.principal} \subseteq live
                      => r.ok
<1> DEFINE r == process_command(a, live, k, c)
<1>1. CASE Repeats(a, c)
  <2> DEFINE t == recommit_events(a, RecordOf(a, c))
  <2>1. r = broadcast_projections(t, live, k) /\ Outcome(a, c) = t
    BY <1>1, CommandCases DEF Outcome
  <2>2. AuthorityTyped(t) /\ t.state = a.state /\ t.now = a.now
    BY <1>1, RecommitKeeps
  <2>3. ~Fails(a, c)
    BY <1>1 DEF Repeats, Fails, Decides, Admitted
  <2> HIDE DEF t, r
  <2>4. /\ AuthorityTyped(r.a) /\ SameAuthority(r.a, t)
        /\ r.ok \in BOOLEAN /\ (r.ok <=> Recipients(t.state) \subseteq live)
    BY <2>1, <2>2, Broadcasts
  <2>5. r.a.state = a.state /\ r.a.now = a.now
    BY <2>2, <2>4 DEF SameAuthority
  <2>6. Recipients(t.state) \subseteq a.state.members
    BY <2>2 DEF Recipients
  <2> QED
    BY <2>1, <2>3, <2>4, <2>5, <2>6 DEF r
<1>2. CASE ~Repeats(a, c) /\ Fails(a, c)
  <2>1. ~Commits(a, c)
    BY <1>2 DEF Fails, Commits, Decides
  <2>2. r = Err(a) /\ Outcome(a, c) = a
    BY <1>2, <2>1, CommandCases DEF Outcome
  <2> HIDE DEF r
  <2>3. r.a = a /\ r.ok = FALSE
    BY <2>2 DEF Err
  <2> QED
    BY <1>2, <2>2, <2>3 DEF r, SameAuthority
<1>3. CASE ~Repeats(a, c) /\ ~Fails(a, c) /\ Commits(a, c)
  <2> DEFINE t == commit_events(a, c, BatchFor(a.state, c))
  <2>1. r = broadcast_projections(t, live, k) /\ Outcome(a, c) = t
    BY <1>3, CommandCases DEF Outcome
  <2>2. /\ AuthorityTyped(t) /\ t.now = a.now
        /\ t.state.members \subseteq a.state.members \cup {c.principal}
    BY <1>3, CommitKeeps
  <2> HIDE DEF t, r
  <2>4. /\ AuthorityTyped(r.a) /\ SameAuthority(r.a, t)
        /\ r.ok \in BOOLEAN /\ (r.ok <=> Recipients(t.state) \subseteq live)
    BY <2>1, <2>2, Broadcasts
  <2>5. r.a.state = t.state /\ r.a.now = a.now
    BY <2>2, <2>4 DEF SameAuthority
  <2>6. Recipients(t.state) \subseteq a.state.members \cup {c.principal}
    BY <2>2 DEF Recipients
  <2> QED
    BY <1>3, <2>1, <2>2, <2>4, <2>5, <2>6 DEF r
<1>4. CASE ~Repeats(a, c) /\ ~Fails(a, c) /\ ~Commits(a, c)
  <2>1. r = send_denial(a, live, c.principal) /\ Outcome(a, c) = a
    BY <1>4, CommandCases DEF Outcome
  <2> HIDE DEF r
  <2>2. /\ AuthorityTyped(r.a) /\ SameAuthority(r.a, a)
        /\ r.ok \in BOOLEAN /\ (r.ok <=> c.principal \in live)
    BY <2>1, Denials
  <2>3. r.a.state = a.state /\ r.a.now = a.now
    BY <2>2 DEF SameAuthority
  <2> QED
    BY <1>4, <2>1, <2>2, <2>3 DEF r
<1> QED
  BY <1>1, <1>2, <1>3, <1>4

(* Two authorities that differ in deliveries only take a command alike.    *)
LEMMA SameOutcome ==
    ASSUME NEW a, AuthorityTyped(a), NEW b, AuthorityTyped(b),
           SameAuthority(b, a), NEW c
    PROVE  /\ Fails(b, c) <=> Fails(a, c)
           /\ Commits(b, c) <=> Commits(a, c)
           /\ Repeats(b, c) <=> Repeats(a, c)
           /\ SameAuthority(Outcome(b, c), Outcome(a, c))
<1>1. /\ b.state = a.state /\ b.scheduled = a.scheduled /\ b.now = a.now
      /\ b.processed = a.processed
  BY DEF SameAuthority
<1>2. Recorded(b, c) = Recorded(a, c) /\ RecordOf(b, c) = RecordOf(a, c)
  BY <1>1 DEF Recorded, RecordOf
<1>3. /\ Fails(b, c) <=> Fails(a, c)
      /\ Commits(b, c) <=> Commits(a, c)
      /\ Repeats(b, c) <=> Repeats(a, c)
  BY <1>1, <1>2 DEF Fails, Commits, Repeats, Decides, Admitted
<1>4. ASSUME NEW e
      PROVE  SameAuthority([b EXCEPT !.scheduled = SetTimers(@, e)],
                           [a EXCEPT !.scheduled = SetTimers(@, e)])
  <2>1. /\ a = [state |-> a.state, scheduled |-> a.scheduled, now |-> a.now,
                processed |-> a.processed, next_delivery |-> a.next_delivery]
        /\ b = [state |-> a.state, scheduled |-> a.scheduled, now |-> a.now,
                processed |-> a.processed, next_delivery |-> b.next_delivery]
    BY <1>1 DEF AuthorityTyped, Fields
  <2> QED
    BY <2>1 DEF SameAuthority
<1>5. ASSUME NEW s, NEW x, NEW e
      PROVE  SameAuthority([b EXCEPT !.state = s, !.processed = @ \cup {x},
                                     !.scheduled = SetTimers(@, e)],
                           [a EXCEPT !.state = s, !.processed = @ \cup {x},
                                     !.scheduled = SetTimers(@, e)])
  <2>1. /\ a = [state |-> a.state, scheduled |-> a.scheduled, now |-> a.now,
                processed |-> a.processed, next_delivery |-> a.next_delivery]
        /\ b = [state |-> a.state, scheduled |-> a.scheduled, now |-> a.now,
                processed |-> a.processed, next_delivery |-> b.next_delivery]
    BY <1>1 DEF AuthorityTyped, Fields
  <2> QED
    BY <2>1 DEF SameAuthority
<1>6. CASE Repeats(a, c)
  BY <1>2, <1>3, <1>4, <1>6 DEF Outcome, recommit_events
<1>7. CASE ~Repeats(a, c) /\ Commits(a, c)
  BY <1>1, <1>3, <1>5, <1>7 DEF Outcome, commit_events
<1>8. CASE ~Repeats(a, c) /\ ~Commits(a, c)
  BY <1>3, <1>8 DEF Outcome
<1> QED
  BY <1>3, <1>6, <1>7, <1>8

-----------------------------------------------------------------------------
(* One transport loss.                                                     *)

LossOf(s, p) == AnyOf(decide_transport_disconnect(s, p))
Loses(a, p) ==
    /\ decide_transport_disconnect(a.state, p) # {}
    /\ RevisionsLeft(a.state, LossOf(a.state, p))
    /\ BatchApplies(a.state, LossOf(a.state, p))
Lost(a, p) ==
    LET b == LossOf(a.state, p)
    IN  [a EXCEPT !.state = AfterBatch(a.state, b),
                  !.scheduled = SetTimers(@, TimerEffects(a.state, b))]

LEMMA LossResult ==
    ASSUME NEW a, AuthorityTyped(a), NEW p \in AllPrincipals, NEW live,
           NEW k \in Nat
    PROVE  LET r == process_disconnect(a, live, k, p)
           IN  /\ AuthorityTyped(r.a) /\ r.ok \in BOOLEAN
               /\ SameAuthority(r.a, IF Loses(a, p) THEN Lost(a, p) ELSE a)
               /\ r.a.now = a.now
               /\ r.a.state.members \subseteq a.state.members
               /\ ~Loses(a, p) => ~r.ok
               /\ Loses(a, p) /\ a.state.members \subseteq live => r.ok
<1> DEFINE r == process_disconnect(a, live, k, p)
           b == LossOf(a.state, p)
           t == Lost(a, p)
           s == a.state
           e == TimerEffects(s, b)
<1>1. r = IF Loses(a, p) THEN broadcast_projections(t, live, k) ELSE Err(a)
  BY DEF process_disconnect, Loses, Lost, LossOf, AnyOf
<1>2. CASE ~Loses(a, p)
  <2>1. r = Err(a)
    BY <1>1, <1>2
  <2> HIDE DEF r
  <2>2. r.a = a /\ r.ok = FALSE
    BY <2>1 DEF Err
  <2> QED
    BY <1>2, <2>2 DEF r, SameAuthority
<1>3. CASE Loses(a, p)
  <2>1. /\ b \in decide_transport_disconnect(s, p) /\ p \in s.members
        /\ RevisionsLeft(s, b)
    BY <1>3 DEF Loses, LossOf, AnyOf, decide_transport_disconnect, Accept
  <2> HIDE DEF b
  <2>2. Committed(p, s, b) /\ s.revision \in Nat
    BY <2>1, LossCommits DEF AuthorityTyped, StateInv, SessionStates
  <2>3. EventCount(b) \in Nat /\ EventCount(b) > 0
    BY DEF EventCount
  <2>4. t = [state |-> AfterBatch(s, b), scheduled |-> SetTimers(a.scheduled, e),
             now |-> a.now, processed |-> a.processed,
             next_delivery |-> a.next_delivery]
    <3>1. Fields(a)
      BY DEF AuthorityTyped
    <3>2. t = [a EXCEPT !.state = AfterBatch(s, b), !.scheduled = SetTimers(@, e)]
      BY DEF Lost, b
    <3> HIDE DEF t, e
    <3> QED
      BY <3>1, <3>2 DEF Fields
  <2> HIDE DEF t, e
  <2>5. /\ t.state = AfterBatch(s, b) /\ t.scheduled = SetTimers(a.scheduled, e)
        /\ t.now = a.now /\ t.next_delivery = a.next_delivery
        /\ t.processed = a.processed /\ Fields(t)
    BY <2>4 DEF Fields
  <2>6. e \in Effects /\ StateInv(t.state) /\ Armed(t.state)
        /\ t.state.revision > s.revision
        /\ t.state.revision <= MaxRevision /\ t.state.revision \in Nat
    <3> DEFINE n == EventCount(b)
    <3>1. e \in Effects /\ StateInv(t.state) /\ Armed(t.state)
          /\ t.state.revision = s.revision + n
      BY <2>2, <2>5 DEF Committed, AuthorityTyped, e
    <3>2. n \in Nat /\ n > 0 /\ s.revision + n <= MaxRevision /\ s.revision \in Nat
      BY <2>1, <2>2, <2>3 DEF RevisionsLeft
    <3> HIDE DEF n, s
    <3> QED
      BY <3>1, <3>2
  <2>7. t.scheduled \in [Tokens -> Ticks \cup {NoTick}]
    BY <2>5, <2>6 DEF SetTimers, Effects, AuthorityTyped
  <2>8. ASSUME NEW x \in t.processed PROVE RecordTyped(x, t.state)
    BY <2>2, <2>5, <2>6 DEF AuthorityTyped, RecordTyped, CommandTyped
  <2>9. AuthorityTyped(t)
    BY <2>5, <2>6, <2>7, <2>8 DEF AuthorityTyped
  <2>10. t.state.members \subseteq a.state.members
    BY <2>1, <2>2, <2>5 DEF Committed
  <2>11. r = broadcast_projections(t, live, k)
    BY <1>1, <1>3
  <2> HIDE DEF r, s
  <2>12. /\ AuthorityTyped(r.a) /\ SameAuthority(r.a, t)
         /\ r.ok \in BOOLEAN /\ (r.ok <=> Recipients(t.state) \subseteq live)
    BY <2>9, <2>11, Broadcasts
  <2>13. r.a.state = t.state /\ r.a.now = a.now
    BY <2>5, <2>12 DEF SameAuthority
  <2>14. Recipients(t.state) \subseteq a.state.members
    BY <2>10 DEF Recipients
  <2> QED
    BY <1>3, <2>10, <2>12, <2>13, <2>14 DEF r, t
<1> QED
  BY <1>2, <1>3

LEMMA SameLoss ==
    ASSUME NEW a, AuthorityTyped(a), NEW b, AuthorityTyped(b),
           SameAuthority(b, a), NEW p
    PROVE  /\ Loses(b, p) <=> Loses(a, p)
           /\ SameAuthority(Lost(b, p), Lost(a, p))
<1>1. /\ b.state = a.state /\ b.scheduled = a.scheduled /\ b.now = a.now
      /\ b.processed = a.processed
  BY DEF SameAuthority
<1>2. ASSUME NEW s, NEW e
      PROVE  SameAuthority([b EXCEPT !.state = s, !.scheduled = SetTimers(@, e)],
                           [a EXCEPT !.state = s, !.scheduled = SetTimers(@, e)])
  <2>1. /\ a = [state |-> a.state, scheduled |-> a.scheduled, now |-> a.now,
                processed |-> a.processed, next_delivery |-> a.next_delivery]
        /\ b = [state |-> a.state, scheduled |-> a.scheduled, now |-> a.now,
                processed |-> a.processed, next_delivery |-> b.next_delivery]
    BY <1>1 DEF AuthorityTyped, Fields
  <2> QED
    BY <2>1 DEF SameAuthority
<1>3. SameAuthority(Lost(b, p), Lost(a, p))
  BY <1>1, <1>2 DEF Lost
<1> QED
  BY <1>1, <1>3 DEF Loses

-----------------------------------------------------------------------------
(* One expiry.                                                             *)

Numbered(a) == [a EXCEPT !.next_delivery = a.next_delivery + 1]
ClockCommand(a, t) ==
    [id |-> ClockId(a.next_delivery), principal |-> authority_clock,
     payload |-> [kind |-> "CountdownExpired", token |-> t],
     expected_revision |-> a.state.revision]

(* The expiry of t starts the game of a.                                   *)
Starts(a, t) == Commits(Numbered(a), ClockCommand(a, t))

(* An expiry that starts no game is an error: a record of its identifier   *)
(* is of an earlier revision, and the clock has no route for a denial.  A  *)
(* game starts out of a countdown, so the next expiry starts none.         *)
LEMMA ExpiryResult ==
    ASSUME NEW r, AuthorityTyped(r.a), r.ok, NEW live, authority_clock \notin live,
           NEW k \in Nat, NEW t
    PROVE  LET e == Expire(r, live, k, t)
           IN  /\ AuthorityTyped(e.a) /\ e.ok \in BOOLEAN
               /\ SameAuthority(e.a, Outcome(Numbered(r.a), ClockCommand(r.a, t)))
               /\ e.a.now = r.a.now
               /\ \A x \in e.a.processed :
                      x \in r.a.processed \/ x.command = ClockCommand(r.a, t)
               /\ ~Starts(r.a, t) => ~e.ok /\ SameAuthority(e.a, r.a)
               /\ Starts(r.a, t) =>
                      /\ r.a.state.phase = "Countdown" /\ r.a.state.token = t
                      /\ e.a.state.phase = "Running"
                      /\ e.a.state.members \subseteq r.a.state.members
                      /\ e.ok <=> Recipients(e.a.state) \subseteq live
                      /\ e.ok => e.a.next_delivery = r.a.next_delivery + 1
                                     + Cardinality(Recipients(e.a.state))
<1> DEFINE a == r.a
           n == Numbered(a)
           c == ClockCommand(a, t)
           e == Expire(r, live, k, t)
<1>1. e = process_command(n, live, k, c)
  BY DEF Expire, Numbered, ClockCommand
<1>2. a.next_delivery + 1 \in Nat /\ a.state.revision \in Nat
  BY DEF AuthorityTyped, StateInv, SessionStates
<1>3. AuthorityTyped(n) /\ SameAuthority(n, a)
      /\ n.next_delivery = a.next_delivery + 1
  BY <1>2, Renumbered DEF Numbered
<1>4. n.state = a.state /\ n.now = a.now /\ n.processed = a.processed
  BY <1>3 DEF SameAuthority
<1>5. /\ c.principal = authority_clock /\ c.expected_revision = n.state.revision
      /\ c.payload = [kind |-> "CountdownExpired", token |-> t]
      /\ c.payload.kind = "CountdownExpired"
  BY <1>4 DEF ClockCommand
<1> HIDE DEF n, c, e
<1>6. CommandTyped(c)
  BY <1>2, <1>4, <1>5, ReducerAssumption
     DEF CommandTyped, Sendable, AllPrincipals, ReducerAssumption
<1>7. /\ AuthorityTyped(e.a) /\ e.ok \in BOOLEAN
      /\ SameAuthority(e.a, Outcome(n, c))
      /\ e.a.now = n.now
      /\ Fails(n, c) => ~e.ok
  BY <1>1, <1>3, <1>6, CommandResult
<1>8. ~Repeats(n, c)
  <2> SUFFICES ASSUME Repeats(n, c) PROVE FALSE
    OBVIOUS
  <2>1. RecordOf(n, c) \in n.processed /\ RecordOf(n, c).command = c
    BY DEF Repeats, RecordOf, AnyOf, Recorded
  <2>2. c.expected_revision < n.state.revision
    BY <1>3, <2>1 DEF AuthorityTyped, RecordTyped
  <2> QED
    BY <1>2, <1>4, <1>5, <2>2
<1>9. CASE ~Commits(n, c)
  <2>1. ~e.ok
    <3>1. CASE Fails(n, c)
      BY <1>7, <3>1
    <3>2. CASE ~Fails(n, c)
      <4>1. e = send_denial(n, live, c.principal)
        BY <1>1, <1>8, <1>9, <3>2, CommandCases
      <4> QED
        BY <1>3, <1>5, <4>1, Denials
    <3> QED
      BY <3>1, <3>2
  <2> QED
    <3>1. Outcome(n, c) = n
      BY <1>8, <1>9 DEF Outcome
    <3>2. SameAuthority(e.a, a)
      BY <1>3, <1>7, <3>1 DEF SameAuthority
    <3>3. e.a.processed = a.processed
      BY <3>2 DEF SameAuthority
    <3> QED
      BY <1>4, <1>7, <1>9, <2>1, <3>2, <3>3 DEF Starts, n, c, e
<1>10. CASE Commits(n, c)
  <2> DEFINE b == BatchFor(n.state, c)
             u == commit_events(n, c, b)
  <2>1. ~Fails(n, c)
    BY <1>10 DEF Fails, Commits, Decides
  <2>2. e = broadcast_projections(u, live, k)
    BY <1>1, <1>8, <1>10, <2>1, CommandCases
  <2>3. /\ AuthorityTyped(u) /\ u.state = AfterBatch(n.state, b)
        /\ u.next_delivery = n.next_delivery
        /\ u.processed = n.processed
               \cup {[command |-> c, effects |-> TimerEffects(n.state, b)]}
    BY <1>3, <1>6, <1>10, CommitKeeps
  <2>4. b \in decide(n.state, c.principal, c.payload)
    BY <1>10 DEF Commits, Decides, BatchFor, AnyOf
  <2> HIDE DEF b, u
  <2>5. b \in decide_countdown_expired(n.state, c.payload.token)
    BY <1>5, <2>4 DEF decide
  <2>6. /\ n.state.phase = "Countdown" /\ n.state.token = t
        /\ b = Just([kind |-> "GameStarted"])
    BY <1>5, <2>5 DEF decide_countdown_expired, Accept, ExpiryMatches
  <2>7. b.main.kind = "GameStarted"
    BY <2>6 DEF Just, Batch
  <2>8. u.state.members \subseteq n.state.members /\ u.state.phase = "Running"
    <3>1. BatchOf(c.principal, c.payload, n.state, b)
      BY <1>5, <2>4, DecideShape DEF Commands
    <3>2. StateInv(n.state)
      BY <1>3 DEF AuthorityTyped
    <3> QED
      BY <2>3, <2>7, <3>1, <3>2, BatchMembers
  <2>9. /\ SameAuthority(e.a, u) /\ (e.ok <=> Recipients(u.state) \subseteq live)
        /\ e.ok => e.a.next_delivery = u.next_delivery + Cardinality(Recipients(u.state))
    BY <2>2, <2>3, Broadcasts
  <2>10. e.a.state = u.state /\ e.a.processed = u.processed
    BY <2>9 DEF SameAuthority
  <2>11. \A x \in e.a.processed : x \in a.processed \/ x.command = c
    BY <1>4, <2>3, <2>10
  <2> QED
    BY <1>3, <1>4, <1>7, <1>10, <2>3, <2>6, <2>8, <2>9, <2>10, <2>11
       DEF Starts, n, c, e
<1> QED
  BY <1>9, <1>10

-----------------------------------------------------------------------------
(* The run x and its replay y, between two expiries of one advance: the    *)
(* replay fails no earlier, numbers alike as long as neither has failed,   *)
(* and once the run alone has failed, for want of a route, its game has    *)
(* started and the next expiry fails the replay too.                       *)
Twins(x, y, live) ==
    /\ AuthorityTyped(x.a) /\ AuthorityTyped(y.a)
    /\ x.ok \in BOOLEAN /\ y.ok \in BOOLEAN
    /\ x.ok => y.ok /\ x.a.next_delivery = y.a.next_delivery
    /\ y.ok => SameAuthority(y.a, x.a) /\ y.a.state.members \subseteq live
    /\ y.ok /\ ~x.ok => y.a.state.phase # "Countdown"

LEMMA TwinExpiry ==
    ASSUME NEW x, NEW y, NEW live, NEW replay, NEW k \in Nat, NEW j \in Nat, NEW t,
           Twins(x, y, replay), authority_clock \notin live \cup replay
    PROVE  Twins(Expire(x, live, k, t), Expire(y, replay, j, t), replay)
<1> DEFINE f == Expire(x, live, k, t)
           g == Expire(y, replay, j, t)
<1>1. CASE ~y.ok
  <2>1. ~x.ok
    BY <1>1 DEF Twins
  <2>2. f = x /\ g = y
    BY <1>1, <2>1 DEF Expire
  <2> QED
    BY <2>2
<1>2. CASE y.ok /\ ~x.ok
  <2>1. f = x
    BY <1>2 DEF Expire
  <2>2. AuthorityTyped(y.a) /\ y.ok /\ authority_clock \notin replay
    BY <1>2 DEF Twins
  <2>3. /\ AuthorityTyped(g.a) /\ g.ok \in BOOLEAN /\ (~Starts(y.a, t) => ~g.ok)
        /\ Starts(y.a, t) => y.a.state.phase = "Countdown"
    BY <2>2, ExpiryResult
  <2> HIDE DEF f, g
  <2> QED
    BY <1>2, <2>1, <2>3 DEF Twins, f, g
<1>3. CASE y.ok /\ x.ok
  <2>1. /\ AuthorityTyped(x.a) /\ AuthorityTyped(y.a) /\ SameAuthority(y.a, x.a)
        /\ x.a.next_delivery = y.a.next_delivery
        /\ y.a.state.members \subseteq replay
    BY <1>3 DEF Twins
  <2>2. y.a.state = x.a.state
    BY <2>1 DEF SameAuthority
  <2> DEFINE c == ClockCommand(x.a, t)
  <2>3. ClockCommand(y.a, t) = c
    BY <2>1, <2>2 DEF ClockCommand
  <2>4. x.a.next_delivery + 1 \in Nat
    BY <2>1 DEF AuthorityTyped
  <2>5. /\ AuthorityTyped(Numbered(x.a)) /\ SameAuthority(Numbered(x.a), x.a)
        /\ AuthorityTyped(Numbered(y.a)) /\ SameAuthority(Numbered(y.a), y.a)
    BY <2>1, <2>4, Renumbered DEF Numbered
  <2>6. SameAuthority(Numbered(y.a), Numbered(x.a))
    BY <2>1, <2>5 DEF SameAuthority
  <2> HIDE DEF c
  <2>7. /\ SameAuthority(Outcome(Numbered(y.a), c), Outcome(Numbered(x.a), c))
        /\ Commits(Numbered(y.a), c) <=> Commits(Numbered(x.a), c)
    BY <2>5, <2>6, SameOutcome
  <2>8. Starts(y.a, t) <=> Starts(x.a, t)
    BY <2>3, <2>7 DEF Starts, c
  <2>9. /\ AuthorityTyped(f.a) /\ f.ok \in BOOLEAN
        /\ SameAuthority(f.a, Outcome(Numbered(x.a), c))
        /\ ~Starts(x.a, t) => ~f.ok
        /\ Starts(x.a, t) =>
               /\ f.a.state.phase = "Running"
               /\ f.ok => f.a.next_delivery = x.a.next_delivery + 1
                              + Cardinality(Recipients(f.a.state))
    BY <1>3, <2>1, ExpiryResult DEF c
  <2>10. /\ AuthorityTyped(g.a) /\ g.ok \in BOOLEAN
         /\ SameAuthority(g.a, Outcome(Numbered(y.a), c))
         /\ ~Starts(y.a, t) => ~g.ok
         /\ Starts(y.a, t) =>
                /\ g.a.state.phase = "Running"
                /\ g.a.state.members \subseteq y.a.state.members
                /\ g.ok <=> Recipients(g.a.state) \subseteq replay
                /\ g.ok => g.a.next_delivery = y.a.next_delivery + 1
                               + Cardinality(Recipients(g.a.state))
    BY <1>3, <2>1, <2>3, ExpiryResult
  <2> HIDE DEF f, g
  <2>11. SameAuthority(g.a, f.a) /\ g.a.state = f.a.state
    BY <2>7, <2>9, <2>10 DEF SameAuthority
  <2>12. Recipients(g.a.state) \subseteq g.a.state.members
    BY DEF Recipients
  <2>13. CASE Starts(x.a, t)
    <3>1. g.ok /\ g.a.state.phase = "Running" /\ g.a.state.members \subseteq replay
      BY <2>1, <2>8, <2>10, <2>12, <2>13
    <3>2. f.ok => f.a.next_delivery = g.a.next_delivery
      BY <2>1, <2>8, <2>9, <2>10, <2>11, <2>13, <3>1
    <3> QED
      BY <2>9, <2>10, <2>11, <3>1, <3>2 DEF Twins, f, g
  <2>14. CASE ~Starts(x.a, t)
    BY <2>8, <2>9, <2>10, <2>14 DEF Twins, f, g
  <2> QED
    BY <2>13, <2>14
<1> QED
  BY <1>1, <1>2, <1>3

LEMMA TwinDeliveries ==
    ASSUME NEW a, NEW b, NEW live, NEW replay, NEW k \in Nat, NEW j \in Nat,
           NEW order, Len(order) \in Nat,
           Twins(Done(a), Done(b), replay), authority_clock \notin live \cup replay
    PROVE  Twins(Deliver(a, live, k, order), Deliver(b, replay, j, order), replay)
<1>1t. PICK f : TakesEach(f, a, live, k, order)
  BY DeliverTakes
<1>1. /\ Deliver(a, live, k, order) = f[Len(order)]
      /\ f[0] = Done(a)
      /\ \A i \in 1 .. Len(order) :
             f[i] = Expire(f[i - 1], live, k, order[i])
  BY <1>1t DEF TakesEach
<1>2t. PICK g : TakesEach(g, b, replay, j, order)
  BY DeliverTakes
<1>2. /\ Deliver(b, replay, j, order) = g[Len(order)]
      /\ g[0] = Done(b)
      /\ \A i \in 1 .. Len(order) :
             g[i] = Expire(g[i - 1], replay, j, order[i])
  BY <1>2t DEF TakesEach
<1> DEFINE S == {n \in Nat : n <= Len(order) => Twins(f[n], g[n], replay)}
<1>3. 0 \in S
  BY <1>1, <1>2
<1>4. ASSUME NEW n \in Nat, n \in S PROVE n + 1 \in S
  <2>1. CASE n + 1 <= Len(order)
    <3>1. n + 1 \in 1 .. Len(order) /\ (n + 1) - 1 = n /\ n <= Len(order)
      BY <2>1
    <3>2. /\ f[n + 1] = Expire(f[n], live, k, order[n + 1])
          /\ g[n + 1] = Expire(g[n], replay, j, order[n + 1])
      BY <1>1, <1>2, <3>1
    <3>3. Twins(f[n], g[n], replay)
      BY <1>4, <3>1
    <3>4. Twins(f[n + 1], g[n + 1], replay)
      BY <3>2, <3>3, TwinExpiry
    <3> QED
      BY <3>4
  <2> QED
    BY <2>1
<1>5. Len(order) \in S
  <2> HIDE DEF S
  <2>1. Nat \subseteq S
    BY <1>3, <1>4, AllNumbers
  <2> QED
    BY <2>1
<1> QED
  BY <1>1, <1>2, <1>5

(* The authority an advance to now starts its deliveries from.             *)
Drained(a, now) ==
    [a EXCEPT !.now = now,
              !.scheduled = [t \in Tokens |-> IF t \in Due(a.scheduled, now)
                                              THEN NoTick ELSE a.scheduled[t]]]

Later(a, tick) == IF tick > a.now THEN tick ELSE a.now

LEMMA DrainKeeps ==
    ASSUME NEW a, AuthorityTyped(a), NEW now \in Ticks \cup {0}
    PROVE  LET d == Drained(a, now)
           IN  /\ AuthorityTyped(d) /\ d.state = a.state /\ d.now = now
               /\ d.processed = a.processed /\ d.next_delivery = a.next_delivery
               /\ d.scheduled = [t \in Tokens |-> IF t \in Due(a.scheduled, now)
                                                  THEN NoTick ELSE a.scheduled[t]]
<1> DEFINE left == [t \in Tokens |-> IF t \in Due(a.scheduled, now)
                                     THEN NoTick ELSE a.scheduled[t]]
           d == Drained(a, now)
<1>1. left \in [Tokens -> Ticks \cup {NoTick}]
  BY DEF AuthorityTyped
<1>2. d = [a EXCEPT !.now = now, !.scheduled = left]
  BY DEF Drained
<1> HIDE DEF left, d
<1>3. d = [state |-> a.state, scheduled |-> left, now |-> now,
           processed |-> a.processed, next_delivery |-> a.next_delivery]
  BY <1>2 DEF AuthorityTyped, Fields
<1>4. /\ d.state = a.state /\ d.scheduled = left /\ d.now = now
      /\ d.processed = a.processed /\ d.next_delivery = a.next_delivery
  BY <1>3
<1>5. AuthorityTyped(d)
  BY <1>1, <1>3, <1>4 DEF AuthorityTyped, Fields
<1> QED
  BY <1>4, <1>5 DEF d, left

LEMMA AdvanceDelivers ==
    ASSUME NEW a, NEW live, NEW k, NEW tick
    PROVE  advance_clock_to(a, live, k, tick)
               = Deliver(Drained(a, Later(a, tick)), live, k,
                         DueOrder(a.scheduled, Later(a, tick)))
BY DEF advance_clock_to, Drained, Later

(* An advance of the clock, and its replay at the same delivery number.    *)
LEMMA TwinAdvances ==
    ASSUME NEW a, NEW b, AuthorityTyped(a), AuthorityTyped(b), SameAuthority(b, a),
           a.next_delivery = b.next_delivery, NEW live, NEW replay,
           NEW k \in Nat, NEW j \in Nat, NEW tick \in Ticks,
           b.state.members \subseteq replay, authority_clock \notin live \cup replay
    PROVE  Twins(advance_clock_to(a, live, k, tick),
                 advance_clock_to(b, replay, j, tick), replay)
<1> DEFINE now == Later(a, tick)
           order == DueOrder(a.scheduled, now)
           c == Drained(a, now)
           d == Drained(b, now)
<1>1. /\ b.state = a.state /\ b.scheduled = a.scheduled /\ b.now = a.now
      /\ b.processed = a.processed
  BY DEF SameAuthority
<1>2. Later(b, tick) = now
  BY <1>1 DEF Later
<1>3. /\ advance_clock_to(a, live, k, tick) = Deliver(c, live, k, order)
      /\ advance_clock_to(b, replay, j, tick) = Deliver(d, replay, j, order)
  BY <1>1, <1>2, AdvanceDelivers
<1>4. now \in Ticks \cup {0}
  BY DEF AuthorityTyped, Later
<1>5. Len(order) \in Nat
  BY DueOrderIsFinite
<1> HIDE DEF now
<1>6. /\ AuthorityTyped(c) /\ AuthorityTyped(d) /\ SameAuthority(d, c)
      /\ c.next_delivery = d.next_delivery /\ d.state = b.state
  <2>1. /\ AuthorityTyped(c) /\ c.state = a.state /\ c.now = now
        /\ c.processed = a.processed /\ c.next_delivery = a.next_delivery
        /\ c.scheduled = [t \in Tokens |-> IF t \in Due(a.scheduled, now)
                                           THEN NoTick ELSE a.scheduled[t]]
    BY <1>4, DrainKeeps
  <2>2. /\ AuthorityTyped(d) /\ d.state = b.state /\ d.now = now
        /\ d.processed = b.processed /\ d.next_delivery = b.next_delivery
        /\ d.scheduled = [t \in Tokens |-> IF t \in Due(b.scheduled, now)
                                           THEN NoTick ELSE b.scheduled[t]]
    BY <1>4, DrainKeeps
  <2> HIDE DEF c, d
  <2>3. d.scheduled = c.scheduled
    BY <1>1, <2>1, <2>2
  <2> QED
    BY <1>1, <2>1, <2>2, <2>3 DEF SameAuthority
<1> HIDE DEF c, d, order
<1>7. Twins(Done(c), Done(d), replay)
  BY <1>6 DEF Twins, Done
<1> QED
  BY <1>3, <1>5, <1>7, TwinDeliveries

(* An advance on its own.                                                  *)
LEMMA AdvanceKeeps ==
    ASSUME NEW a, AuthorityTyped(a), NEW live, authority_clock \notin live,
           NEW k \in Nat, NEW tick \in Ticks
    PROVE  LET r == advance_clock_to(a, live, k, tick)
           IN  AuthorityTyped(r.a) /\ r.ok \in BOOLEAN
<1> DEFINE now == Later(a, tick)
           order == DueOrder(a.scheduled, now)
           d == Drained(a, now)
           Fine(r) == AuthorityTyped(r.a) /\ r.ok \in BOOLEAN
<1>1. advance_clock_to(a, live, k, tick) = Deliver(d, live, k, order)
  BY AdvanceDelivers
<1>2. now \in Ticks \cup {0}
  BY DEF AuthorityTyped, Later
<1>3. Len(order) \in Nat
  BY DueOrderIsFinite
<1> HIDE DEF now
<1>4. AuthorityTyped(d)
  BY <1>2, DrainKeeps
<1> HIDE DEF d, order
<1>5t. PICK f : TakesEach(f, d, live, k, order)
  BY <1>3, DeliverTakes
<1>5. /\ Deliver(d, live, k, order) = f[Len(order)]
      /\ f[0] = Done(d)
      /\ \A i \in 1 .. Len(order) :
             f[i] = Expire(f[i - 1], live, k, order[i])
  BY <1>5t DEF TakesEach
<1> DEFINE S == {n \in Nat : n <= Len(order) => Fine(f[n])}
<1>6. 0 \in S
  <2>1. f[0].a = d /\ f[0].ok = TRUE
    BY <1>5 DEF Done
  <2>2. Fine(f[0])
    BY <1>4, <2>1
  <2> QED
    BY <2>2
<1>7. ASSUME NEW n \in Nat, n \in S PROVE n + 1 \in S
  <2>1. CASE n + 1 <= Len(order)
    <3>1. n + 1 \in 1 .. Len(order) /\ (n + 1) - 1 = n /\ n <= Len(order)
      BY <1>3, <2>1
    <3>2. f[n + 1] = Expire(f[n], live, k, order[n + 1])
      BY <1>5, <3>1
    <3>3. Fine(f[n])
      BY <1>7, <3>1
    <3>4. Fine(f[n + 1])
      <4>1. CASE f[n].ok
        BY <3>2, <3>3, <4>1, ExpiryResult
      <4>2. CASE ~f[n].ok
        BY <3>2, <3>3, <4>2 DEF Expire
      <4> QED
        BY <4>1, <4>2
    <3> QED
      BY <3>4
  <2> QED
    BY <2>1
<1>8. Len(order) \in S
  <2> HIDE DEF S
  <2>1. Nat \subseteq S
    BY <1>6, <1>7, AllNumbers
  <2> QED
    BY <1>3, <2>1
<1> QED
  BY <1>1, <1>3, <1>5, <1>8

-----------------------------------------------------------------------------
(* The journal.                                                            *)

Inputs ==
    [kind : {"Command"}, command : ClientCommands]
        \cup [kind : {"Disconnected"}, principal : Principals]

Routed(r, input) ==
    IF input.kind = "Command" THEN r \cup {input.command.principal} ELSE r

LEMMA InputKinds ==
    ASSUME NEW input \in Inputs
    PROVE  \/ /\ input.kind = "Command" /\ input.command \in ClientCommands
              /\ CommandTyped(input.command)
           \/ /\ input.kind = "Disconnected" /\ input.principal \in Principals
              /\ input.principal \in AllPrincipals
<1>1. \/ input.kind = "Command" /\ input.command \in ClientCommands
      \/ input.kind = "Disconnected" /\ input.principal \in Principals
  BY DEF Inputs
<1>2. ASSUME NEW c \in ClientCommands PROVE CommandTyped(c)
  BY DEF CommandTyped, ClientCommands, AllPrincipals, Sendable
<1> QED
  BY <1>1, <1>2 DEF AllPrincipals

LEMMA InputKeeps ==
    ASSUME NEW a, AuthorityTyped(a), NEW live, NEW k \in Nat, NEW input \in Inputs
    PROVE  LET r == process(a, live, k, input)
           IN  AuthorityTyped(r.a) /\ r.ok \in BOOLEAN
<1>1. CASE input.kind = "Command" /\ CommandTyped(input.command)
  <2>1. process(a, live, k, input) = process_command(a, live, k, input.command)
    BY <1>1 DEF process
  <2> QED
    BY <1>1, <2>1, CommandResult
<1>2. CASE input.kind = "Disconnected" /\ input.principal \in AllPrincipals
  <2>1. process(a, live, k, input) = process_disconnect(a, live, k, input.principal)
    BY <1>2 DEF process
  <2> QED
    BY <1>2, <2>1, LossResult
<1> QED
  BY <1>1, <1>2, InputKinds

(* An input in the run and in the replay.                                  *)
LEMMA TwinInputs ==
    ASSUME NEW a, NEW b, AuthorityTyped(a), AuthorityTyped(b), SameAuthority(b, a),
           NEW live, NEW replay, NEW k \in Nat, NEW j \in Nat, NEW input \in Inputs,
           b.state.members \subseteq replay, Routed(replay, input) = replay
    PROVE  LET x == process(a, live, k, input)
               y == process(b, replay, j, input)
           IN  /\ x.ok => y.ok
               /\ y.ok => SameAuthority(y.a, x.a) /\ y.a.state.members \subseteq replay
<1> DEFINE x == process(a, live, k, input)
           y == process(b, replay, j, input)
<1>1. CASE input.kind = "Command" /\ CommandTyped(input.command)
  <2> DEFINE c == input.command
  <2>1. x = process_command(a, live, k, c) /\ y = process_command(b, replay, j, c)
    BY <1>1 DEF process
  <2>2. c.principal \in replay
    BY <1>1 DEF Routed
  <2>3. /\ x.ok \in BOOLEAN /\ SameAuthority(x.a, Outcome(a, c))
        /\ Fails(a, c) => ~x.ok
    BY <1>1, <2>1, CommandResult
  <2>4. /\ y.ok \in BOOLEAN /\ SameAuthority(y.a, Outcome(b, c))
        /\ y.a.state.members \subseteq b.state.members \cup {c.principal}
        /\ Fails(b, c) => ~y.ok
        /\ ~Fails(b, c) /\ b.state.members \cup {c.principal} \subseteq replay => y.ok
    BY <1>1, <2>1, CommandResult
  <2>5. /\ Fails(b, c) <=> Fails(a, c)
        /\ SameAuthority(Outcome(b, c), Outcome(a, c))
    BY SameOutcome
  <2> HIDE DEF x, y, c
  <2>6. SameAuthority(y.a, x.a)
    BY <2>3, <2>4, <2>5 DEF SameAuthority
  <2> QED
    BY <2>2, <2>3, <2>4, <2>5, <2>6 DEF x, y
<1>2. CASE input.kind = "Disconnected" /\ input.principal \in AllPrincipals
  <2> DEFINE p == input.principal
  <2>1. x = process_disconnect(a, live, k, p) /\ y = process_disconnect(b, replay, j, p)
    BY <1>2 DEF process
  <2>3. /\ x.ok \in BOOLEAN
        /\ SameAuthority(x.a, IF Loses(a, p) THEN Lost(a, p) ELSE a)
        /\ ~Loses(a, p) => ~x.ok
    BY <1>2, <2>1, LossResult
  <2>4. /\ y.ok \in BOOLEAN
        /\ SameAuthority(y.a, IF Loses(b, p) THEN Lost(b, p) ELSE b)
        /\ y.a.state.members \subseteq b.state.members
        /\ ~Loses(b, p) => ~y.ok
        /\ Loses(b, p) /\ b.state.members \subseteq replay => y.ok
    BY <1>2, <2>1, LossResult
  <2>5. /\ Loses(b, p) <=> Loses(a, p)
        /\ SameAuthority(Lost(b, p), Lost(a, p))
    BY SameLoss
  <2> HIDE DEF x, y, p
  <2>6. y.ok => SameAuthority(y.a, x.a)
    BY <2>3, <2>4, <2>5 DEF SameAuthority
  <2> QED
    BY <2>3, <2>4, <2>5, <2>6 DEF x, y
<1> QED
  BY <1>1, <1>2, InputKinds

(* What the run keeps: a typed authority and replica, routes of clients    *)
(* only, and inputs that clients or the loss of their routes raised.       *)
RunTyped ==
    /\ AuthorityTyped(auth)
    /\ routes \in [AllPrincipals -> 0 .. MaxRoutes] /\ routes[authority_clock] = 0
    /\ ingress \in Seq(Inputs) /\ Len(ingress) <= MaxIngress
    /\ held \in Seq(Inputs) /\ Len(held) <= 1
    /\ faults \in 0 .. MaxFaults /\ losses \in 0 .. MaxLosses
    /\ retries \in 0 .. MaxRetries /\ issued \in 0 .. MaxCommands

(* What it keeps of its journal: the replay reproduces it, and has routes  *)
(* for all its members.                                                    *)
Replaying(a, r, err) ==
    /\ r.ok \in BOOLEAN /\ err \in BOOLEAN /\ AuthorityTyped(r.a)
    /\ r.live \subseteq Principals
    /\ r.ok => SameAuthority(r.a, a) /\ r.a.state.members \subseteq r.live
    /\ ~err => r.ok

JournalInv == RunTyped /\ Replaying(auth, replica, erred)

LEMMA ClockHasNoRoute ==
    ASSUME RunTyped
    PROVE  authority_clock \notin Live(routes)
BY DEF RunTyped, Live

LEMMA InitKeeps ==
    ASSUME Init
    PROVE  JournalInv
<1> DEFINE a == NewAuthority
<1>1. /\ a.state = Lobby /\ a.scheduled = [t \in Tokens |-> NoTick] /\ a.now = 0
      /\ a.processed = {} /\ a.next_delivery = 0 /\ Fields(a)
  BY DEF NewAuthority, Fields
<1> HIDE DEF a
<1>2. AuthorityTyped(a)
  BY <1>1, AuthorityAssumption DEF AuthorityAssumption, AuthorityTyped, Armed
<1>3. routes \in [AllPrincipals -> 0 .. MaxRoutes] /\ routes[authority_clock] = 0
  <2>1. MaxRoutes \in Nat \ {0} /\ authority_clock \notin Lobby.members
        /\ authority_clock \in AllPrincipals
    BY AuthorityAssumption, ReducerAssumption
       DEF AuthorityAssumption, ReducerAssumption, AllPrincipals
  <2> QED
    BY <2>1 DEF Init
<1>4. /\ ingress \in Seq(Inputs) /\ held \in Seq(Inputs)
      /\ Len(ingress) = 0 /\ Len(held) = 0
  BY DEF Init
<1>5. RunTyped
  <2>1. {MaxCommands, MaxIngress, MaxFaults, MaxLosses, MaxRetries} \subseteq Nat
    BY AuthorityAssumption DEF AuthorityAssumption
  <2> QED
    BY <1>2, <1>3, <1>4, <2>1 DEF Init, RunTyped, a
<1>6. replica.ok = TRUE /\ replica.a = a /\ replica.live = Lobby.members /\ auth = a
  BY DEF Init, NewReplica, a
<1>7. Lobby.members \subseteq Principals
  BY AuthorityAssumption DEF AuthorityAssumption
<1>8. Replaying(auth, replica, erred)
  BY <1>1, <1>2, <1>6, <1>7 DEF Replaying, SameAuthority, Init
<1> QED
  BY <1>5, <1>8 DEF JournalInv

LEMMA RouteLost ==
    ASSUME RunTyped, NEW p \in Principals, LoseRoute(p), Len(ingress) < MaxIngress
    PROVE  /\ routes' \in [AllPrincipals -> 0 .. MaxRoutes]
           /\ routes'[authority_clock] = 0
           /\ ingress' \in Seq(Inputs) /\ Len(ingress') <= MaxIngress
           /\ losses' \in 0 .. MaxLosses
<1>1. MaxIngress \in Nat /\ MaxRoutes \in Nat /\ MaxLosses \in Nat
  BY AuthorityAssumption DEF AuthorityAssumption
<1>2. p \in AllPrincipals /\ p # authority_clock
  BY ReducerAssumption DEF ReducerAssumption, AllPrincipals
<1>3. routes' \in [AllPrincipals -> 0 .. MaxRoutes] /\ routes'[authority_clock] = 0
  BY <1>1, <1>2 DEF RunTyped, LoseRoute
<1>4. [kind |-> "Disconnected", principal |-> p] \in Inputs
  BY DEF Inputs
<1>5. ingress' \in Seq(Inputs) /\ Len(ingress') <= MaxIngress
  <2>1. CASE routes[p] = 1
    <3> DEFINE x == [kind |-> "Disconnected", principal |-> p]
    <3>1. ingress' = Append(ingress, x)
      BY <2>1 DEF LoseRoute
    <3> HIDE DEF x
    <3> QED
      BY <1>1, <1>4, <3>1 DEF RunTyped, x
  <2>2. CASE routes[p] # 1
    BY <2>2 DEF LoseRoute, RunTyped
  <2> QED
    BY <2>1, <2>2
<1>6. losses' \in 0 .. MaxLosses
  BY <1>1 DEF LoseRoute, RunTyped
<1> QED
  BY <1>3, <1>5, <1>6

LEMMA ArriveKeeps ==
    ASSUME RunTyped, NEW c \in ClientCommands, Arrive(c), UNCHANGED auth,
           retries' \in 0 .. MaxRetries, issued' \in 0 .. MaxCommands
    PROVE  RunTyped'
<1> DEFINE x == [kind |-> "Command", command |-> c]
<1>1. MaxIngress \in Nat /\ MaxFaults \in Nat
  BY AuthorityAssumption DEF AuthorityAssumption
<1>2. x \in Inputs /\ c.principal \in Principals
  BY DEF Inputs, ClientCommands
<1>3. Len(ingress) + 2 <= MaxIngress /\ Len(ingress) \in Nat /\ Len(held) \in Nat
  BY DEF Arrive, RunTyped
<1> HIDE DEF x
<1>4. CASE /\ held # <<>> /\ ingress' = ingress \o <<x>> \o held /\ held' = <<>>
           /\ UNCHANGED <<routes, faults, losses>>
  <2>1. ingress \o <<x>> \in Seq(Inputs) /\ Len(ingress \o <<x>>) = Len(ingress) + 1
    BY <1>2 DEF RunTyped
  <2>2. ingress' \in Seq(Inputs) /\ Len(ingress') = Len(ingress) + 1 + Len(held)
    BY <1>3, <1>4, <2>1 DEF RunTyped
  <2> QED
    BY <1>1, <1>3, <1>4, <2>2 DEF RunTyped
<1>5. CASE /\ ingress' = Append(ingress, x)
           /\ UNCHANGED <<routes, held, faults, losses>>
  <2>1. ingress' \in Seq(Inputs) /\ Len(ingress') = Len(ingress) + 1
    BY <1>2, <1>5 DEF RunTyped
  <2> QED
    BY <1>1, <1>3, <1>5, <2>1 DEF RunTyped
<1>6. CASE /\ faults > 0 /\ ingress' = ingress \o <<x, x>> /\ faults' = faults - 1
           /\ UNCHANGED <<routes, held, losses>>
  <2>1. ingress' \in Seq(Inputs) /\ Len(ingress') = Len(ingress) + 2
    BY <1>2, <1>6 DEF RunTyped
  <2> QED
    BY <1>1, <1>3, <1>6, <2>1 DEF RunTyped
<1>7. CASE /\ faults > 0 /\ held' = <<x>> /\ faults' = faults - 1
           /\ UNCHANGED <<routes, ingress, losses>>
  <2>1. held' \in Seq(Inputs) /\ Len(held') = 1
    BY <1>2, <1>7
  <2> QED
    BY <1>1, <1>7, <2>1 DEF RunTyped
<1>8. CASE /\ faults > 0 /\ LoseRoute(c.principal) /\ faults' = faults - 1
           /\ UNCHANGED held
  <2>1. /\ routes' \in [AllPrincipals -> 0 .. MaxRoutes]
        /\ routes'[authority_clock] = 0
        /\ ingress' \in Seq(Inputs) /\ Len(ingress') <= MaxIngress
        /\ losses' \in 0 .. MaxLosses
    BY <1>1, <1>2, <1>3, <1>8, RouteLost
  <2> QED
    BY <1>1, <1>8, <2>1 DEF RunTyped
<1> QED
  BY <1>4, <1>5, <1>6, <1>7, <1>8 DEF Arrive, x

LEMMA RunKeeps ==
    ASSUME RunTyped, Replaying(auth, replica, erred), Next
    PROVE  RunTyped'
<1>0. {MaxCommands, MaxIngress, MaxFaults, MaxLosses, MaxRetries} \subseteq Nat
  BY AuthorityAssumption DEF AuthorityAssumption
<1>1. ASSUME NEW p \in Principals, Connect(p) PROVE RunTyped'
  <2>1. p # authority_clock /\ p \in AllPrincipals /\ MaxRoutes \in Nat
    BY AuthorityAssumption, ReducerAssumption
       DEF AuthorityAssumption, ReducerAssumption, AllPrincipals
  <2>2. routes' \in [AllPrincipals -> 0 .. MaxRoutes] /\ routes'[authority_clock] = 0
    BY <1>1, <2>1 DEF Connect, RunTyped
  <2> QED
    BY <1>1, <2>2 DEF Connect, RunTyped
<1>2. ASSUME NEW p \in Principals, Disconnect(p) PROVE RunTyped'
  <2>1. /\ routes' \in [AllPrincipals -> 0 .. MaxRoutes]
        /\ routes'[authority_clock] = 0
        /\ ingress' \in Seq(Inputs) /\ Len(ingress') <= MaxIngress
        /\ losses' \in 0 .. MaxLosses
    BY <1>2, RouteLost DEF Disconnect
  <2> QED
    BY <1>2, <2>1 DEF Disconnect, RunTyped
<1>3. ASSUME NEW client \in Clients, Submit(client[1], client[2]) PROVE RunTyped'
  <2> DEFINE c == [id |-> ClientId(issued'), principal |-> client[1],
                   payload |-> client[2], expected_revision |-> auth.state.revision]
  <2>1. client[1] \in Principals /\ client[2] \in ClientPayloads
    BY AuthorityAssumption DEF AuthorityAssumption
  <2>2. issued' \in 0 .. MaxCommands /\ issued' \in Nat
    BY <1>0, <1>3 DEF Submit, RunTyped
  <2>3. auth.state.revision \in Nat
    BY DEF RunTyped, AuthorityTyped, StateInv, SessionStates
  <2>4. ClientId(issued') \in {"client"} \X Nat
    BY <2>2 DEF ClientId
  <2>5. c \in ClientCommands
    BY <2>1, <2>3, <2>4 DEF ClientCommands
  <2>6. Arrive(c) /\ UNCHANGED auth /\ UNCHANGED retries
    BY <1>3 DEF Submit
  <2> HIDE DEF c
  <2> QED
    BY <2>2, <2>5, <2>6, ArriveKeeps DEF RunTyped
<1>4. ASSUME NEW record \in auth.processed, Resubmit(record) PROVE RunTyped'
  <2>1. record.command \in ClientCommands
    BY <1>4 DEF Resubmit, RunTyped, AuthorityTyped, RecordTyped, CommandTyped
  <2>2. retries' \in 0 .. MaxRetries
    BY <1>0, <1>4 DEF Resubmit, RunTyped
  <2>3. Arrive(record.command) /\ UNCHANGED auth /\ UNCHANGED issued
    BY <1>4 DEF Resubmit
  <2> QED
    BY <2>1, <2>2, <2>3, ArriveKeeps DEF RunTyped
<1>5. CASE DriveOne
  <2>1. Head(ingress) \in Inputs /\ Tail(ingress) \in Seq(Inputs)
        /\ Len(Tail(ingress)) <= MaxIngress
    BY <1>0, <1>5 DEF DriveOne, RunTyped
  <2>2. PICK k \in 1 .. MAX_MEMBERS :
            auth' = process(auth, Live(routes), k, Head(ingress)).a
    BY <1>5 DEF DriveOne
  <2>3. AuthorityTyped(auth')
    BY <2>1, <2>2, InputKeeps DEF RunTyped
  <2> QED
    BY <1>5, <2>1, <2>3 DEF DriveOne, RunTyped
<1>6. ASSUME NEW tick \in Ticks, AdvanceClock(tick) PROVE RunTyped'
  <2>1. PICK k \in 1 .. MAX_MEMBERS :
            auth' = advance_clock_to(auth, Live(routes), k, tick).a
    BY <1>6 DEF AdvanceClock
  <2>2. AuthorityTyped(auth')
    BY <2>1, ClockHasNoRoute, AdvanceKeeps DEF RunTyped
  <2> QED
    BY <1>6, <2>2 DEF AdvanceClock, RunTyped
<1>7. CASE Recover
  <2>1. AuthorityTyped(replica.a) /\ auth.next_delivery \in Nat
    BY DEF Replaying, RunTyped, AuthorityTyped
  <2>2. AuthorityTyped(auth')
    BY <1>7, <2>1, Renumbered DEF Recover
  <2>3. /\ ingress' \in Seq(Inputs) /\ Len(ingress') = 0
        /\ held' \in Seq(Inputs) /\ Len(held') = 0
    BY <1>7 DEF Recover
  <2> QED
    BY <1>0, <1>7, <2>2, <2>3 DEF Recover, RunTyped
<1> QED
  BY <1>1, <1>2, <1>3, <1>4, <1>5, <1>6, <1>7 DEF Next

(* The replay takes a step with the run.                                   *)
LEMMA ReplayedKeeps ==
    ASSUME NEW r, r.ok, NEW live, live \subseteq Principals, NEW y,
           AuthorityTyped(y.a), y.ok \in BOOLEAN, NEW x, x.ok \in BOOLEAN,
           NEW err \in BOOLEAN, x.ok => y.ok,
           y.ok => SameAuthority(y.a, x.a) /\ y.a.state.members \subseteq live
    PROVE  Replaying(x.a, Replayed(r, live, y), err \/ ~x.ok)
<1> DEFINE q == Replayed(r, live, y)
<1>1. q.a = y.a /\ q.live = live
  BY DEF Replayed
<1>2. q.ok \in BOOLEAN /\ (q.ok <=> y.ok)
  <2>1. q.ok = (r.ok /\ y.ok)
    BY DEF Replayed
  <2> QED
    BY <2>1
<1> HIDE DEF q
<1>3. Replaying(x.a, q, err \/ ~x.ok)
  BY <1>1, <1>2 DEF Replaying
<1> QED
  BY <1>3 DEF q

LEMMA ReplayKeeps ==
    ASSUME RunTyped, Replaying(auth, replica, erred), Next
    PROVE  Replaying(auth, replica, erred)'
<1>1. CASE /\ auth' = auth /\ replica' = replica /\ erred' = erred
  BY <1>1 DEF Replaying
<1>2. CASE DriveOne
  <2> DEFINE input == Head(ingress)
             live == Routed(replica.live, input)
  <2>1. input \in Inputs
    BY <1>2 DEF DriveOne, RunTyped
  <2>2. PICK k \in 1 .. MAX_MEMBERS :
            LET x == process(auth, Live(routes), k, input)
            IN  auth' = x.a /\ erred' = (erred \/ ~x.ok)
    BY <1>2 DEF DriveOne
  <2> DEFINE x == process(auth, Live(routes), k, input)
             y == process(replica.a, live, 1, input)
  <2>3. AuthorityTyped(x.a) /\ x.ok \in BOOLEAN /\ AuthorityTyped(y.a) /\ y.ok \in BOOLEAN
    BY <2>1, InputKeeps DEF RunTyped, Replaying
  <2>4. replica' = IF replica.ok THEN Replayed(replica, live, y) ELSE replica
    BY <1>2 DEF DriveOne, ReplayInput, Routed
  <2>5. CASE ~replica.ok
    <3>1. replica' = replica /\ erred = TRUE
      BY <2>4, <2>5 DEF Replaying
    <3>2. erred' = TRUE
      BY <2>2, <3>1
    <3> QED
      BY <2>5, <3>1, <3>2 DEF Replaying
  <2>6. CASE replica.ok
    <3>1. live \subseteq Principals
      BY <2>1, InputKinds DEF Routed, Replaying, ClientCommands
    <3>2. replica.a.state.members \subseteq live /\ Routed(live, input) = live
      BY <2>6 DEF Routed, Replaying
    <3> HIDE DEF live, input
    <3>3. /\ x.ok => y.ok
          /\ y.ok => SameAuthority(y.a, x.a) /\ y.a.state.members \subseteq live
      <4>1. /\ AuthorityTyped(auth) /\ AuthorityTyped(replica.a)
            /\ SameAuthority(replica.a, auth) /\ k \in Nat /\ 1 \in Nat
        BY <2>6 DEF RunTyped, Replaying
      <4> QED
        BY <2>1, <3>2, <4>1, TwinInputs
    <3>4. erred \in BOOLEAN
      BY DEF Replaying
    <3> HIDE DEF x, y
    <3>5. Replaying(x.a, Replayed(replica, live, y), erred \/ ~x.ok)
      BY <2>3, <2>6, <3>1, <3>3, <3>4, ReplayedKeeps
    <3>6. replica' = Replayed(replica, live, y) /\ auth' = x.a /\ erred' = (erred \/ ~x.ok)
      BY <2>2, <2>4, <2>6 DEF x, y, live, input
    <3> QED
      BY <3>5, <3>6
  <2> QED
    BY <2>5, <2>6
<1>3. ASSUME NEW tick \in Ticks, AdvanceClock(tick)
      PROVE  Replaying(auth, replica, erred)'
  <2> DEFINE live == replica.live
             b == [replica.a EXCEPT !.next_delivery = auth.next_delivery]
  <2>1. PICK k \in 1 .. MAX_MEMBERS :
            LET x == advance_clock_to(auth, Live(routes), k, tick)
            IN  auth' = x.a /\ erred' = (erred \/ ~x.ok)
    BY <1>3 DEF AdvanceClock
  <2> DEFINE x == advance_clock_to(auth, Live(routes), k, tick)
             y == advance_clock_to(b, live, 1, tick)
  <2>2. AuthorityTyped(x.a) /\ x.ok \in BOOLEAN
    BY ClockHasNoRoute, AdvanceKeeps DEF RunTyped
  <2>3. replica' = IF replica.ok THEN Replayed(replica, live, y) ELSE replica
    BY <1>3 DEF AdvanceClock, ReplayClockAdvance
  <2>5. CASE ~replica.ok
    <3>1. replica' = replica /\ erred = TRUE
      BY <2>3, <2>5 DEF Replaying
    <3>2. erred' = TRUE
      BY <2>1, <3>1
    <3> QED
      BY <2>5, <3>1, <3>2 DEF Replaying
  <2>6. CASE replica.ok
    <3>1. /\ auth.next_delivery \in Nat /\ AuthorityTyped(auth)
          /\ AuthorityTyped(replica.a) /\ SameAuthority(replica.a, auth)
          /\ replica.a.state.members \subseteq live /\ live \subseteq Principals
          /\ erred \in BOOLEAN
      BY <2>6 DEF RunTyped, AuthorityTyped, Replaying
    <3>2. /\ AuthorityTyped(b) /\ SameAuthority(b, replica.a)
          /\ b.next_delivery = auth.next_delivery
      BY <3>1, Renumbered
    <3> HIDE DEF b, live
    <3>3. SameAuthority(b, auth) /\ b.state.members \subseteq live
      BY <3>1, <3>2 DEF SameAuthority
    <3>4. authority_clock \notin Live(routes) \cup live
      BY <3>1, ClockHasNoRoute, ReducerAssumption DEF ReducerAssumption
    <3>5. Twins(x, y, live)
      BY <3>1, <3>2, <3>3, <3>4, TwinAdvances
    <3> HIDE DEF x, y
    <3>6. Replaying(x.a, Replayed(replica, live, y), erred \/ ~x.ok)
      BY <2>2, <2>6, <3>1, <3>5, ReplayedKeeps DEF Twins
    <3>7. replica' = Replayed(replica, live, y) /\ auth' = x.a /\ erred' = (erred \/ ~x.ok)
      BY <2>1, <2>3, <2>6 DEF x
    <3> QED
      BY <3>6, <3>7
  <2> QED
    BY <2>5, <2>6
<1>4. CASE Recover
  <2>1. replica.ok /\ replica' = replica /\ erred' = erred
        /\ auth' = [replica.a EXCEPT !.next_delivery = auth.next_delivery]
    BY <1>4 DEF Recover
  <2>2. SameAuthority(auth', replica.a)
    BY <2>1, Renumbered DEF RunTyped, AuthorityTyped, Replaying
  <2>3. SameAuthority(replica.a, auth')
    BY <2>2 DEF SameAuthority
  <2> QED
    BY <2>1, <2>3 DEF Replaying
<1> QED
  BY <1>1, <1>2, <1>3, <1>4
     DEF Next, Connect, Disconnect, Submit, Resubmit

-----------------------------------------------------------------------------
(* The session in the authority implements Session.  The operators of the  *)
(* instance are those of SessionReducer.                                   *)

LEMMA SameApply ==
    ASSUME NEW s, NEW e
    PROVE  Reducer!apply_kind(s, e) = apply_kind(s, e)
BY Zenon DEF Reducer!apply_kind, apply_kind, Reducer!RoomClosed, RoomClosed,
   Reducer!SetPhase, SetPhase, Reducer!NoGame, NoGame, Reducer!Finished,
   Finished, Reducer!GamePhases, GamePhases, Reducer!NoTick, NoTick,
   Reducer!NoToken, NoToken, Reducer!AllUnready, AllUnready,
   Reducer!AllPrincipals, AllPrincipals, Reducer!HandCapabilitiesExpired,
   HandCapabilitiesExpired, Reducer!Affected, Affected,
   Reducer!HandViewRevoked, HandViewRevoked, Reducer!HandViewDenied,
   HandViewDenied, Reducer!HandViewGranted, HandViewGranted,
   Reducer!HandViewRequested, HandViewRequested, Reducer!ChatPosted,
   ChatPosted, Reducer!InChatWindow, InChatWindow, Reducer!LobbyReset,
   LobbyReset, Reducer!MemberGone, MemberGone, Reducer!NoSeat, NoSeat,
   Reducer!MemberReconnected, MemberReconnected, Reducer!MemberDisconnected,
   MemberDisconnected, Reducer!GameAdvanced, GameAdvanced, Reducer!GameStarted,
   GameStarted, Reducer!NewGame, NewGame, Reducer!Chance, Chance,
   Reducer!CountdownCancelled, CountdownCancelled, Reducer!CountdownArmed,
   CountdownArmed, Reducer!ReadyChanged, ReadyChanged, Reducer!SeatReleased,
   SeatReleased, Reducer!SeatTaken, SeatTaken, Reducer!MemberJoined,
   MemberJoined, Reducer!AddMember, AddMember, Reducer!RoomCreated, RoomCreated

LEMMA SameChecks ==
    ASSUME NEW s, NEW e
    PROVE  /\ Reducer!EventAccepted(s, e) = EventAccepted(s, e)
           /\ Reducer!validate(s) = validate(s)
BY Zenon DEF Reducer!EventAccepted, EventAccepted, Reducer!Cardinality,
   Cardinality, Reducer!InChatWindow, InChatWindow, Reducer!validate, validate,
   Reducer!GrantsValid, GrantsValid, Reducer!CapabilityEndpoints,
   CapabilityEndpoints, Reducer!NoSeat, NoSeat, Reducer!RequestsValid,
   RequestsValid, Reducer!HostValid, HostValid, Reducer!PhaseDataValid,
   PhaseDataValid, Reducer!AllSeatedReady, AllSeatedReady, Reducer!Seated,
   Seated, Reducer!MIN_PLAYERS, MIN_PLAYERS, Reducer!SeatsValid, SeatsValid,
   Reducer!ReadinessValid, ReadinessValid, Reducer!MembersValid, MembersValid

LEMMA SameAuthorize ==
    ASSUME NEW s, NEW p, NEW kind
    PROVE  Reducer!authorize(s, p, kind) = authorize(s, p, kind)
BY Zenon DEF Reducer!authorize, authorize, Reducer!Enforced, Enforced,
   Reducer!principal_kind, principal_kind, Reducer!NoSeat, NoSeat,
   Reducer!baseline_allows, baseline_allows, Reducer!EnvironmentCommands,
   EnvironmentCommands, Reducer!HostCommands, HostCommands, Reducer!ActiveSeat,
   ActiveSeat, Reducer!HandOwnerCommands, HandOwnerCommands,
   Reducer!SeatedCommands, SeatedCommands, Reducer!MemberCommands,
   MemberCommands, Reducer!structural_decision, structural_decision

LEMMA SameDecide ==
    ASSUME NEW s, NEW p, NEW c
    PROVE  Reducer!decide(s, p, c) = decide(s, p, c)
BY Zenon DEF Reducer!decide, decide, Reducer!decide_revoke_hand,
   decide_revoke_hand, Reducer!Just, Just, Reducer!Batch, Batch,
   Reducer!Accept, Accept, Reducer!decide_deny_hand, decide_deny_hand,
   Reducer!decide_grant_hand, decide_grant_hand, Reducer!NoSeat, NoSeat,
   Reducer!ActiveSeat, ActiveSeat, Reducer!Cardinality, Cardinality,
   Reducer!decide_request_hand, decide_request_hand, Reducer!decide_close,
   decide_close, Reducer!decide_reset, decide_reset, Reducer!decide_remove,
   decide_remove, Reducer!MembershipLost, MembershipLost,
   Reducer!expire_capabilities_for, expire_capabilities_for, Reducer!Affected,
   Affected, Reducer!cancel_countdown_first, cancel_countdown_first,
   Reducer!decide_leave, decide_leave, Reducer!GamePhases, GamePhases,
   Reducer!decide_reconnect, decide_reconnect, Reducer!decide_chat,
   decide_chat, Reducer!InChatWindow, InChatWindow, Reducer!decide_settle,
   decide_settle, Reducer!settle, settle, Reducer!Chance, Chance,
   Reducer!Finished, Finished, Reducer!Transition, Transition,
   Reducer!Environment, Environment, Reducer!transition_event,
   transition_event, Reducer!AllPrincipals, AllPrincipals,
   Reducer!decide_chance, decide_chance, Reducer!chance_transition,
   chance_transition, Reducer!GameSeats, GameSeats, Reducer!Seats, Seats,
   Reducer!decide_game_action, decide_game_action, Reducer!player_transition,
   player_transition, Reducer!MayAct, MayAct, Reducer!decide_unpause,
   decide_unpause, Reducer!decide_pause, decide_pause,
   Reducer!decide_countdown_expired, decide_countdown_expired,
   Reducer!StartAccepts, StartAccepts, Reducer!Seated, Seated,
   Reducer!ExpiryMatches, ExpiryMatches, Reducer!AllSeatedReady,
   AllSeatedReady, Reducer!MIN_PLAYERS, MIN_PLAYERS,
   Reducer!decide_abort_countdown, decide_abort_countdown,
   Reducer!decide_arm_countdown, decide_arm_countdown, Reducer!decide_ready,
   decide_ready, Reducer!decide_release_seat, decide_release_seat,
   Reducer!decide_take_seat, decide_take_seat, Reducer!decide_join,
   decide_join, Reducer!decide_create, decide_create

LEMMA SameDisconnect ==
    ASSUME NEW s, NEW p
    PROVE  Reducer!decide_transport_disconnect(s, p) = decide_transport_disconnect(s, p)
BY Zenon DEF Reducer!decide_transport_disconnect,
   decide_transport_disconnect, Reducer!cancel_countdown_first,
   cancel_countdown_first, Reducer!NoSeat, NoSeat, Reducer!Batch, Batch,
   Reducer!Accept, Accept

LEMMA SameBatch ==
    ASSUME NEW s, NEW b
    PROVE  /\ Reducer!AfterBatch(s, b) = AfterBatch(s, b)
           /\ Reducer!BatchApplies(s, b) <=> BatchApplies(s, b)
           /\ Reducer!RevisionsLeft(s, b) <=> RevisionsLeft(s, b)
<1>1. ASSUME NEW x, NEW e
      PROVE  /\ Reducer!apply(x, e) = apply(x, e)
             /\ Reducer!Applies(x, e) <=> Applies(x, e)
  <2>1. Reducer!apply(x, e) = apply(x, e)
    BY SameApply DEF Reducer!apply, apply
  <2>2. Reducer!EventAccepted(x, e) = EventAccepted(x, e)
    BY SameChecks
  <2>3. Reducer!validate(Reducer!apply(x, e)) = validate(apply(x, e))
    BY <2>1, SameChecks
  <2> QED
    BY <2>1, <2>2, <2>3 DEF Reducer!Applies, Applies
<1>2. /\ Reducer!CancelEvent(s) = CancelEvent(s)
      /\ Reducer!ExpireEvent(b.expire) = ExpireEvent(b.expire)
  BY DEF Reducer!CancelEvent, CancelEvent, Reducer!ExpireEvent, ExpireEvent
<1>3. Reducer!AfterCancel(s, b) = AfterCancel(s, b)
  BY <1>1, <1>2 DEF Reducer!AfterCancel, AfterCancel
<1>4. Reducer!AfterExpiry(s, b) = AfterExpiry(s, b)
  BY <1>1, <1>2, <1>3 DEF Reducer!AfterExpiry, AfterExpiry
<1>5. Reducer!AfterBatch(s, b) = AfterBatch(s, b)
  BY <1>1, <1>4 DEF Reducer!AfterBatch, AfterBatch
<1>6. Reducer!BatchApplies(s, b) <=> BatchApplies(s, b)
  BY <1>1, <1>2, <1>3, <1>4 DEF Reducer!BatchApplies, BatchApplies
<1>7. Reducer!RevisionsLeft(s, b) <=> RevisionsLeft(s, b)
  BY DEF Reducer!RevisionsLeft, RevisionsLeft, Reducer!EventCount, EventCount
<1> QED
  BY <1>5, <1>6, <1>7

(* A step of the session, whatever holds it.                               *)
Taken(s, b, u) ==
    RevisionsLeft(s, b) /\ BatchApplies(s, b) /\ u = AfterBatch(s, b)

SessionStep(s, u) ==
    \E p \in AllPrincipals :
        \/ \E c \in CommandPayloads(s) :
               /\ authorize(s, p, c.kind)
               /\ \E b \in decide(s, p, c) : Taken(s, b, u)
        \/ \E b \in decide_transport_disconnect(s, p) : Taken(s, b, u)

LEMMA StepOfReducer ==
    ASSUME SessionStep(auth.state, auth.state')
    PROVE  Reducer!Next
<1>1. PICK p \in AllPrincipals :
          \/ \E c \in CommandPayloads(auth.state) :
                 /\ authorize(auth.state, p, c.kind)
                 /\ \E b \in decide(auth.state, p, c) :
                        Taken(auth.state, b, auth.state')
          \/ \E b \in decide_transport_disconnect(auth.state, p) :
                 Taken(auth.state, b, auth.state')
  BY DEF SessionStep
<1>2. ASSUME NEW b, Taken(auth.state, b, auth.state') PROVE Reducer!Commit(b)
  BY <1>2, SameBatch DEF Taken, Reducer!Commit
<1>3. AllPrincipals = Reducer!AllPrincipals
  BY DEF AllPrincipals, Reducer!AllPrincipals
<1> SUFFICES Reducer!Step(p)
  BY <1>3 DEF Reducer!Next
<1>4. CASE \E b \in decide_transport_disconnect(auth.state, p) :
               Taken(auth.state, b, auth.state')
  <2>1. Reducer!TransportDisconnect(p)
    BY <1>2, <1>4, SameDisconnect DEF Reducer!TransportDisconnect
  <2> QED
    BY <2>1 DEF Reducer!Step
<1>5. ASSUME NEW c \in CommandPayloads(auth.state),
             authorize(auth.state, p, c.kind),
             NEW b \in decide(auth.state, p, c), Taken(auth.state, b, auth.state')
      PROVE  Reducer!Step(p)
  <2>1. Reducer!Submit(p, c)
    <3>1. Reducer!authorize(auth.state, p, c.kind)
      BY <1>5, SameAuthorize
    <3>2. b \in Reducer!decide(auth.state, p, c) /\ Reducer!Commit(b)
      BY <1>2, <1>5, SameDecide
    <3> QED
      BY <3>1, <3>2 DEF Reducer!Submit
  <2>2. CASE c \in PlainPayloads
    <3>1. PICK k \in PlainCommands : c = [kind |-> k]
      BY <2>2 DEF PlainPayloads
    <3>2. \/ k \in {"ReleaseSeat", "Ready", "Unready", "AbortCountdown", "Pause"}
          \/ k \in {"Unpause", "GameAction", "ApplyChance", "Settle"}
          \/ k \in {"CreateRoom", "Chat", "Leave", "Reconnect", "ResetLobby",
                    "CloseRoom"}
      BY <3>1 DEF PlainCommands, SeatedCommands, EnvironmentCommands
    <3>3. CASE k \in {"ReleaseSeat", "Ready", "Unready", "AbortCountdown", "Pause"}
      BY <2>1, <3>1, <3>3 DEF Reducer!Step, Reducer!ReleaseSeat, Reducer!Ready,
         Reducer!Unready, Reducer!AbortCountdown, Reducer!Pause
    <3>4. CASE k \in {"Unpause", "GameAction", "ApplyChance", "Settle"}
      BY <2>1, <3>1, <3>4 DEF Reducer!Step, Reducer!Unpause, Reducer!GameAction,
         Reducer!ApplyChance, Reducer!Settle
    <3>5. CASE k \in {"CreateRoom", "Chat", "Leave", "Reconnect", "ResetLobby",
                      "CloseRoom"}
      BY <2>1, <3>1, <3>5 DEF Reducer!Step, Reducer!CreateRoom, Reducer!Chat,
         Reducer!Leave, Reducer!Reconnect, Reducer!ResetLobby, Reducer!CloseRoom
    <3> QED
      BY <3>2, <3>3, <3>4, <3>5
  <2>3. CASE c \in LobbyPayloads
    <3>1. Seats = Reducer!Seats
      BY DEF Seats, Reducer!Seats
    <3> QED
      BY <2>1, <2>3, <3>1 DEF LobbyPayloads, Reducer!Step, Reducer!RedeemInvite,
         Reducer!TakeSeat
  <2>4. CASE c \in CountdownPayloads
    BY <2>1, <2>4 DEF CountdownPayloads, Reducer!Step, Reducer!ArmCountdown,
       Reducer!CountdownExpired
  <2>5. CASE c \in TargetPayloads
    BY <1>3, <2>1, <2>5 DEF TargetPayloads, Reducer!Step, Reducer!RemoveMember,
       Reducer!RequestHand
  <2>6. CASE c \in HandPayloads(auth.state)
    <3>1. CASE c.kind = "GrantHand"
      BY <2>1, <2>6, <3>1 DEF HandPayloads, Reducer!Step, Reducer!GrantHand
    <3>2. CASE c.kind = "DenyHand"
      BY <2>1, <2>6, <3>2 DEF HandPayloads, Reducer!Step, Reducer!DenyHand
    <3>3. CASE c.kind = "RevokeHand"
      BY <2>1, <2>6, <3>3 DEF HandPayloads, Reducer!Step, Reducer!RevokeHand
    <3> QED
      BY <2>6, <3>1, <3>2, <3>3 DEF HandPayloads
  <2> QED
    BY <2>2, <2>3, <2>4, <2>5, <2>6 DEF CommandPayloads
<1> QED
  BY <1>1, <1>4, <1>5

(* A command takes at most one step of the session.                        *)
LEMMA OutcomeSteps ==
    ASSUME NEW a, AuthorityTyped(a), NEW c, CommandTyped(c)
    PROVE  \/ Outcome(a, c).state = a.state
           \/ Commits(a, c) /\ SessionStep(a.state, Outcome(a, c).state)
<1>1. CASE Repeats(a, c)
  BY <1>1, RecommitKeeps DEF Outcome
<1>2. CASE ~Repeats(a, c) /\ ~Commits(a, c)
  BY <1>2 DEF Outcome
<1>3. CASE ~Repeats(a, c) /\ Commits(a, c)
  <2> DEFINE s == a.state
             b == BatchFor(s, c)
             u == commit_events(a, c, b).state
  <2>1. Outcome(a, c).state = u /\ u = AfterBatch(s, b)
    BY <1>3, CommitKeeps DEF Outcome
  <2>2. /\ b \in decide(s, c.principal, c.payload)
        /\ RevisionsLeft(s, b) /\ BatchApplies(s, b)
        /\ authorize(s, c.principal, c.payload.kind)
    BY <1>3 DEF Commits, Decides, Admitted, BatchFor, AnyOf
  <2> HIDE DEF b, u
  <2>3. Taken(s, b, u)
    BY <2>1, <2>2 DEF Taken
  <2>4. c.principal \in AllPrincipals /\ Sendable(c.payload)
    BY DEF CommandTyped
  <2>5. c.payload \in CommandPayloads(s)
    <3>1. CASE c.payload \in ClientPayloads
      BY <2>2, <3>1, AcceptedPayload
    <3>2. CASE c.payload = [kind |-> "CountdownExpired", token |-> c.payload.token]
      <4> DEFINE m == c.payload
      <4>1. b \in decide_countdown_expired(s, m.token)
        <5>1. m.kind = "CountdownExpired" /\ b \in decide(s, c.principal, m)
          BY <2>2, <3>2
        <5> HIDE DEF m
        <5> QED
          BY <5>1 DEF decide
      <4>2. s.phase = "Countdown" /\ s.token = c.payload.token
        BY <4>1 DEF decide_countdown_expired, Accept, ExpiryMatches
      <4>3. c.payload.token \in Tokens
        BY <4>2 DEF AuthorityTyped, Armed
      <4> QED
        BY <3>2, <4>3 DEF CountdownPayloads, CommandPayloads
    <3> QED
      BY <2>4, <3>1, <3>2 DEF Sendable
  <2> QED
    BY <1>3, <2>1, <2>2, <2>3, <2>4, <2>5 DEF SessionStep
<1> QED
  BY <1>1, <1>2, <1>3

(* The expiries of one advance start at most one game.                     *)
LEMMA AdvanceSteps ==
    ASSUME NEW a, AuthorityTyped(a), NEW live, authority_clock \notin live,
           NEW k \in Nat, NEW tick \in Ticks
    PROVE  LET u == advance_clock_to(a, live, k, tick).a.state
           IN  u = a.state \/ SessionStep(a.state, u)
<1> DEFINE now == Later(a, tick)
           order == DueOrder(a.scheduled, now)
           d == Drained(a, now)
           Fine(r) == /\ AuthorityTyped(r.a) /\ r.ok \in BOOLEAN
                      /\ \/ r.a.state = a.state
                         \/ /\ r.a.state.phase = "Running"
                            /\ SessionStep(a.state, r.a.state)
<1>1. advance_clock_to(a, live, k, tick) = Deliver(d, live, k, order)
  BY AdvanceDelivers
<1>2. now \in Ticks \cup {0}
  BY DEF AuthorityTyped, Later
<1>3. Len(order) \in Nat
  BY DueOrderIsFinite
<1> HIDE DEF now
<1>4. AuthorityTyped(d) /\ d.state = a.state
  BY <1>2, DrainKeeps
<1> HIDE DEF d, order
<1>5t. PICK f : TakesEach(f, d, live, k, order)
  BY <1>3, DeliverTakes
<1>5. /\ Deliver(d, live, k, order) = f[Len(order)]
      /\ f[0] = Done(d)
      /\ \A i \in 1 .. Len(order) :
             f[i] = Expire(f[i - 1], live, k, order[i])
  BY <1>5t DEF TakesEach
<1>6. ASSUME NEW r, Fine(r), NEW t PROVE Fine(Expire(r, live, k, t))
  <2> DEFINE e == Expire(r, live, k, t)
             n == Numbered(r.a)
             c == ClockCommand(r.a, t)
  <2>1. CASE ~r.ok
    BY <1>6, <2>1 DEF Expire
  <2>2. CASE r.ok
    <3>1. /\ AuthorityTyped(e.a) /\ e.ok \in BOOLEAN
          /\ SameAuthority(e.a, Outcome(n, c))
          /\ Starts(r.a, t) => r.a.state.phase = "Countdown" /\ e.a.state.phase = "Running"
      BY <1>6, <2>2, ExpiryResult
    <3>2. r.a.next_delivery + 1 \in Nat /\ r.a.state.revision \in Nat
      BY <1>6 DEF AuthorityTyped, StateInv, SessionStates
    <3>3. AuthorityTyped(n) /\ n.state = r.a.state
      BY <1>6, <3>2, Renumbered DEF Numbered, SameAuthority
    <3>4. CommandTyped(c)
      BY <3>2, ReducerAssumption
         DEF CommandTyped, Sendable, ClockCommand, AllPrincipals, ReducerAssumption
    <3>5. Starts(r.a, t) <=> Commits(n, c)
      BY DEF Starts
    <3> HIDE DEF n, c
    <3>6. \/ Outcome(n, c).state = r.a.state
          \/ Commits(n, c) /\ SessionStep(r.a.state, Outcome(n, c).state)
      BY <3>3, <3>4, OutcomeSteps
    <3> HIDE DEF e
    <3>7. e.a.state = Outcome(n, c).state
      BY <3>1 DEF SameAuthority
    <3>8. CASE e.a.state = r.a.state
      BY <1>6, <3>1, <3>8 DEF e
    <3>9. CASE Commits(n, c) /\ SessionStep(r.a.state, e.a.state)
      <4>1. r.a.state.phase = "Countdown" /\ e.a.state.phase = "Running"
        BY <3>1, <3>5, <3>9
      <4>2. r.a.state = a.state
        BY <1>6, <4>1
      <4> QED
        BY <3>1, <3>9, <4>1, <4>2 DEF e
    <3> QED
      BY <3>6, <3>7, <3>8, <3>9
  <2> QED
    BY <1>6, <2>1, <2>2
<1> DEFINE S == {n \in Nat : n <= Len(order) => Fine(f[n])}
<1>7. 0 \in S
  <2>1. f[0].a = d /\ f[0].ok = TRUE
    BY <1>5 DEF Done
  <2>2. Fine(f[0])
    BY <1>4, <2>1
  <2> QED
    BY <2>2
<1>8. ASSUME NEW n \in Nat, n \in S PROVE n + 1 \in S
  <2> HIDE DEF Fine
  <2>1. CASE n + 1 <= Len(order)
    <3>1. n + 1 \in 1 .. Len(order) /\ (n + 1) - 1 = n /\ n <= Len(order)
      BY <1>3, <2>1
    <3>2. f[n + 1] = Expire(f[n], live, k, order[n + 1])
      BY <1>5, <3>1
    <3>3. Fine(f[n + 1])
      BY <1>6, <1>8, <3>1, <3>2
    <3> QED
      BY <3>3
  <2> QED
    BY <2>1
<1>9. Len(order) \in S
  <2> HIDE DEF S
  <2>1. Nat \subseteq S
    BY <1>7, <1>8, AllNumbers
  <2> QED
    BY <1>3, <2>1
<1> QED
  BY <1>1, <1>3, <1>5, <1>9

LEMMA InputSteps ==
    ASSUME NEW a, AuthorityTyped(a), NEW live, NEW k \in Nat, NEW input \in Inputs
    PROVE  LET u == process(a, live, k, input).a.state
           IN  u = a.state \/ SessionStep(a.state, u)
<1>1. CASE input.kind = "Command" /\ CommandTyped(input.command)
  <2> DEFINE c == input.command
             r == process_command(a, live, k, c)
  <2>1. process(a, live, k, input) = r
    BY <1>1 DEF process
  <2>2. r.a.state = Outcome(a, c).state
    BY <1>1, CommandResult DEF SameAuthority
  <2> QED
    BY <1>1, <2>1, <2>2, OutcomeSteps
<1>2. CASE input.kind = "Disconnected" /\ input.principal \in AllPrincipals
  <2> DEFINE p == input.principal
             r == process_disconnect(a, live, k, p)
             b == LossOf(a.state, p)
  <2>1. process(a, live, k, input) = r
    BY <1>2 DEF process
  <2>2. SameAuthority(r.a, IF Loses(a, p) THEN Lost(a, p) ELSE a)
    BY <1>2, LossResult
  <2>3. CASE ~Loses(a, p)
    BY <2>1, <2>2, <2>3 DEF SameAuthority
  <2>4. CASE Loses(a, p)
    <3>1. Lost(a, p).state = AfterBatch(a.state, b)
      BY DEF AuthorityTyped, Fields, Lost
    <3>2. r.a.state = AfterBatch(a.state, b)
      BY <2>2, <2>4, <3>1 DEF SameAuthority
    <3>3. b \in decide_transport_disconnect(a.state, p) /\ Taken(a.state, b, r.a.state)
      BY <2>4, <3>2 DEF Loses, LossOf, AnyOf, Taken
    <3> QED
      BY <1>2, <2>1, <3>3 DEF SessionStep
  <2> QED
    BY <2>3, <2>4
<1> QED
  BY <1>1, <1>2, InputKinds

LEMMA NextSteps ==
    ASSUME JournalInv, Next
    PROVE  auth'.state = auth.state \/ SessionStep(auth.state, auth'.state)
<1>1. CASE auth' = auth
  BY <1>1
<1>2. CASE DriveOne
  <2>1. Head(ingress) \in Inputs /\ AuthorityTyped(auth)
    BY <1>2 DEF DriveOne, JournalInv, RunTyped
  <2>2. PICK k \in 1 .. MAX_MEMBERS :
            auth' = process(auth, Live(routes), k, Head(ingress)).a
    BY <1>2 DEF DriveOne
  <2> QED
    BY <2>1, <2>2, InputSteps
<1>3. ASSUME NEW tick \in Ticks, AdvanceClock(tick)
      PROVE  auth'.state = auth.state \/ SessionStep(auth.state, auth'.state)
  <2>1. PICK k \in 1 .. MAX_MEMBERS :
            auth' = advance_clock_to(auth, Live(routes), k, tick).a
    BY <1>3 DEF AdvanceClock
  <2>2. AuthorityTyped(auth) /\ authority_clock \notin Live(routes)
    BY ClockHasNoRoute DEF JournalInv, RunTyped
  <2> QED
    BY <2>1, <2>2, AdvanceSteps
<1>4. CASE Recover
  <2>1. /\ auth' = [replica.a EXCEPT !.next_delivery = auth.next_delivery]
        /\ AuthorityTyped(replica.a) /\ SameAuthority(replica.a, auth)
        /\ auth.next_delivery \in Nat
    BY <1>4 DEF Recover, JournalInv, Replaying, RunTyped, AuthorityTyped
  <2> QED
    BY <2>1, Renumbered DEF SameAuthority
<1> QED
  BY <1>1, <1>2, <1>3, <1>4 DEF Next, Connect, Disconnect, Submit, Resubmit

-----------------------------------------------------------------------------
(* The timers of a countdown.                                              *)

(* Timer effects that leave the countdown of s its timer, also when they   *)
(* run a second time.                                                      *)
Fresh(s, e) ==
    s.phase = "Countdown" =>
        IF e.arm = s.token THEN e.tick = s.deadline_tick ELSE e.cancel # s.token

(* A countdown has its timer, unless its deadline has passed and a step    *)
(* has failed.                                                             *)
TimerKept(a, err) ==
    a.state.phase = "Countdown" =>
        \/ a.scheduled[a.state.token] = a.state.deadline_tick
        \/ err /\ a.state.deadline_tick <= a.now

(* The effects of a batch suit the countdown it leaves: it arms that       *)
(* countdown's timer, or the countdown is the old one and is not           *)
(* cancelled.                                                              *)
TimersFollow(s, u, e) ==
    /\ Fresh(u, e)
    /\ u.phase = "Countdown" /\ e.arm # u.token => SameCountdown(u, s)

LEMMA BatchTimers ==
    ASSUME NEW s, StateInv(s), NEW p, NEW c, NEW b, BatchOf(p, c, s, b),
           Armed(AfterBatch(s, b))
    PROVE  TimersFollow(s, AfterBatch(s, b), TimerEffects(s, b))
<1> DEFINE w == AfterExpiry(s, b)
           u == AfterBatch(s, b)
           e == TimerEffects(s, b)
<1>1. BeforeMain(w, s, b)
  BY PreludeGood DEF BatchOf
<1>2. w \in SessionStates /\ SameCountdown(w, s) /\ (b.cancel => w.phase = "Lobby")
  BY <1>1, PreludeCountdown DEF BatchOf, BeforeMain, StateInv
<1>3. u = apply(w, b.main)
  BY DEF AfterBatch
<1>4. b.main.kind \in EventKinds /\ b.cancel \in BOOLEAN
  BY DEF BatchOf
<1>5. u.phase = "Countdown" => u.token \in Nat
  BY ReducerAssumption DEF ReducerAssumption, Armed
<1> HIDE DEF u, w
<1>6. CASE b.main.kind = "CountdownArmed"
  <2>1. u.token = b.main.token /\ u.deadline_tick = b.main.deadline_tick
    BY <1>2, <1>3, <1>4, <1>6, EventMembers
  <2>2. e.arm = b.main.token /\ e.tick = b.main.deadline_tick
    BY <1>6 DEF TimerEffects
  <2> HIDE DEF e
  <2> QED
    BY <2>1, <2>2 DEF TimersFollow, Fresh, u, e
<1>7. CASE b.main.kind # "CountdownArmed"
  <2>1. SameCountdown(u, w)
    BY <1>2, <1>3, <1>4, <1>7, EventMembers
  <2>2. SameCountdown(u, s)
    BY <1>2, <2>1 DEF SameCountdown
  <2>3. u.phase = "Countdown" => ~b.cancel /\ b.main.kind # "CountdownCancelled"
    <3>1. b.main.kind = "CountdownCancelled" => u.phase = "Lobby"
      BY <1>2, <1>3, <1>4, EventMembers
    <3> QED
      BY <1>2, <2>1, <3>1 DEF SameCountdown
  <2>4. u.phase = "Countdown" => e.arm = NoToken /\ e.cancel = NoToken
    BY <1>7, <2>3 DEF TimerEffects
  <2>5. u.phase = "Countdown" => u.token # NoToken
    BY <1>5 DEF NoToken
  <2> HIDE DEF e
  <2> QED
    BY <2>2, <2>4, <2>5 DEF TimersFollow, Fresh, u, e
<1> QED
  BY <1>6, <1>7

(* Such effects keep a countdown's timer.                                  *)
LEMMA TimersSet ==
    ASSUME NEW a, NEW t, NEW e, NEW err, TimerKept(a, err), Armed(t.state),
           TimersFollow(a.state, t.state, e),
           t.scheduled = SetTimers(a.scheduled, e), t.now = a.now
    PROVE  TimerKept(t, err)
<1> SUFFICES ASSUME t.state.phase = "Countdown"
             PROVE  \/ t.scheduled[t.state.token] = t.state.deadline_tick
                    \/ err /\ t.state.deadline_tick <= t.now
  BY DEF TimerKept
<1> DEFINE k == t.state.token
<1>1. k \in Tokens
  BY DEF Armed
<1>2. t.scheduled[k] = IF k = e.arm THEN e.tick
                       ELSE IF k = e.cancel THEN NoTick ELSE a.scheduled[k]
  BY <1>1 DEF SetTimers
<1>3. CASE e.arm = k
  BY <1>2, <1>3 DEF TimersFollow, Fresh
<1>4. CASE e.arm # k
  <2>1. /\ e.cancel # k /\ a.state.phase = "Countdown" /\ k = a.state.token
        /\ t.state.deadline_tick = a.state.deadline_tick
    BY <1>4 DEF TimersFollow, Fresh, SameCountdown
  <2>2. t.scheduled[k] = a.scheduled[k]
    BY <1>2, <1>4, <2>1
  <2> QED
    BY <2>1, <2>2 DEF TimerKept
<1> QED
  BY <1>3, <1>4

(* A client's command starts no game out of a countdown: only an expiry    *)
(* does, and only the clock may send one.                                  *)
LEMMA ClientStartsNothing ==
    ASSUME NEW a, AuthorityTyped(a), NEW c \in ClientCommands, Commits(a, c),
           a.state.phase = "Countdown"
    PROVE  AfterBatch(a.state, BatchFor(a.state, c)).phase # "Running"
<1> DEFINE s == a.state
           b == BatchFor(s, c)
           w == AfterExpiry(s, b)
<1>1. /\ b \in decide(s, c.principal, c.payload) /\ BatchApplies(s, b)
      /\ authorize(s, c.principal, c.payload.kind)
  BY DEF Commits, Decides, Admitted, BatchFor, AnyOf
<1>2. c.payload.kind \in Commands /\ c.principal \in Principals
  BY PayloadKinds DEF ClientCommands
<1>3. c.payload.kind # "CountdownExpired"
  <2>1. principal_kind(s, c.principal) # "AuthorityClock"
    BY <1>2, ReducerAssumption DEF ReducerAssumption, principal_kind
  <2> QED
    BY <1>1, <2>1 DEF authorize, structural_decision
<1> HIDE DEF b
<1>4. BatchOf(c.principal, c.payload, s, b)
  BY <1>1, <1>2, DecideShape
<1>5. BeforeMain(w, s, b)
  BY <1>4, PreludeGood DEF BatchOf, AuthorityTyped
<1>6. w \in SessionStates /\ w.phase \in {"Lobby", "Countdown"}
  BY <1>4, <1>5 DEF BatchOf, BeforeMain, StateInv
<1>7. EventAccepted(w, b.main) /\ AfterBatch(s, b) = apply(w, b.main)
  BY <1>1 DEF BatchApplies, Applies, AfterBatch
<1>8. b.main.kind \in EventKinds
      /\ b.main.kind \notin {"GameStarted", "GameAdvanced", "Unpaused"}
  BY <1>3, <1>4, <1>6, <1>7 DEF BatchOf, EventAccepted
<1> HIDE DEF w
<1>9. apply(w, b.main).phase # "Running"
  BY <1>6, <1>8, EventMembers
<1> QED
  BY <1>7, <1>9 DEF b

(* What a client's command does to records and timers.                     *)
LEMMA CommandTimers ==
    ASSUME NEW a, AuthorityTyped(a), NEW c \in ClientCommands, CommandTyped(c),
           NEW live, NEW k \in Nat
    PROVE  LET t == process_command(a, live, k, c).a
           IN  /\ \A x \in t.processed :
                      \/ x \in a.processed
                      \/ /\ x.command = c /\ Recorded(a, c) = {}
                         /\ Fresh(t.state, x.effects)
               /\ \A err : /\ TimerKept(a, err)
                           /\ \A x \in Recorded(a, c) : Fresh(a.state, x.effects)
                           => TimerKept(t, err)
               /\ a.state.phase = "Countdown" => t.state.phase # "Running"
<1> DEFINE t == process_command(a, live, k, c).a
           o == Outcome(a, c)
<1>1. SameAuthority(t, o)
  BY CommandResult
<1>2. /\ t.state = o.state /\ t.scheduled = o.scheduled /\ t.now = o.now
      /\ t.processed = o.processed
  BY <1>1 DEF SameAuthority
<1> HIDE DEF t
<1>3. CASE Repeats(a, c)
  <2> DEFINE e == RecordOf(a, c).effects
  <2>1. /\ AuthorityTyped(o) /\ o.state = a.state /\ o.now = a.now
        /\ o.processed = a.processed /\ o.scheduled = SetTimers(a.scheduled, e)
    BY <1>3, RecommitKeeps DEF Outcome
  <2>2. RecordOf(a, c) \in Recorded(a, c)
    BY <1>3 DEF Repeats, RecordOf, AnyOf
  <2> HIDE DEF o
  <2>3. ASSUME NEW err, TimerKept(a, err),
               \A x \in Recorded(a, c) : Fresh(a.state, x.effects)
        PROVE  TimerKept(t, err)
    <3>1. Fresh(a.state, e)
      BY <2>2, <2>3
    <3>2. TimersFollow(a.state, t.state, e) /\ Armed(t.state)
      BY <1>2, <2>1, <3>1 DEF TimersFollow, SameCountdown, AuthorityTyped
    <3> HIDE DEF e
    <3> QED
      BY <1>2, <2>1, <2>3, <3>2, TimersSet
  <2>4. a.state.phase = "Countdown" => t.state.phase # "Running"
    BY <1>2, <2>1
  <2> QED
    BY <1>2, <2>1, <2>3, <2>4 DEF t
<1>4. CASE ~Repeats(a, c) /\ ~Commits(a, c)
  <2>1. o = a
    BY <1>4 DEF Outcome
  <2>2. \A err : TimerKept(a, err) => TimerKept(t, err)
    BY <1>2, <2>1 DEF TimerKept
  <2> HIDE DEF o
  <2> QED
    BY <1>2, <2>1, <2>2 DEF t
<1>5. CASE ~Repeats(a, c) /\ Commits(a, c)
  <2> DEFINE b == BatchFor(a.state, c)
             e == TimerEffects(a.state, b)
             u == AfterBatch(a.state, b)
  <2>1. /\ AuthorityTyped(o) /\ o.now = a.now /\ o.state = u
        /\ o.scheduled = SetTimers(a.scheduled, e)
        /\ o.processed = a.processed \cup {[command |-> c, effects |-> e]}
    BY <1>5, CommitKeeps DEF Outcome
  <2>2. Recorded(a, c) = {} /\ b \in decide(a.state, c.principal, c.payload)
    BY <1>5 DEF Commits, Decides, Admitted, BatchFor, AnyOf
  <2>3. a.state.phase = "Countdown" => u.phase # "Running"
    BY <1>5, ClientStartsNothing
  <2> HIDE DEF b, o
  <2>4. BatchOf(c.principal, c.payload, a.state, b)
    BY <2>2, PayloadKinds, DecideShape DEF ClientCommands
  <2>5. Armed(u) /\ StateInv(a.state)
    BY <2>1 DEF AuthorityTyped
  <2>6. TimersFollow(a.state, u, e)
    BY <2>4, <2>5, BatchTimers
  <2> HIDE DEF e, u
  <2>7. \A err : TimerKept(a, err) => TimerKept(t, err)
    BY <1>2, <2>1, <2>5, <2>6, TimersSet
  <2>8. \A x \in t.processed :
            \/ x \in a.processed
            \/ x.command = c /\ Fresh(t.state, x.effects)
    BY <1>2, <2>1, <2>6 DEF TimersFollow
  <2> QED
    BY <1>2, <2>1, <2>2, <2>3, <2>7, <2>8 DEF t
<1> QED
  BY <1>3, <1>4, <1>5

(* What the loss of a route does to them.                                  *)
LEMMA LossTimers ==
    ASSUME NEW a, AuthorityTyped(a), NEW p \in AllPrincipals, NEW live,
           NEW k \in Nat
    PROVE  LET t == process_disconnect(a, live, k, p).a
           IN  /\ t.processed = a.processed
               /\ \A err : TimerKept(a, err) => TimerKept(t, err)
               /\ a.state.phase = "Countdown" => t.state.phase # "Running"
<1> DEFINE t == process_disconnect(a, live, k, p).a
<1>1. AuthorityTyped(t) /\ SameAuthority(t, IF Loses(a, p) THEN Lost(a, p) ELSE a)
  BY LossResult
<1> HIDE DEF t
<1>2. CASE ~Loses(a, p)
  <2>1. /\ t.state = a.state /\ t.scheduled = a.scheduled /\ t.now = a.now
        /\ t.processed = a.processed
    BY <1>1, <1>2 DEF SameAuthority
  <2>2. \A err : TimerKept(a, err) => TimerKept(t, err)
    BY <2>1 DEF TimerKept
  <2> QED
    BY <2>1, <2>2 DEF t
<1>3. CASE Loses(a, p)
  <2> DEFINE s == a.state
             b == LossOf(s, p)
             e == TimerEffects(s, b)
             u == AfterBatch(s, b)
             main == [kind |-> "MemberDisconnected", principal |-> p]
             cancel == s.seat[p] # NoSeat /\ s.phase = "Countdown"
             w == AfterExpiry(s, b)
  <2>1. Lost(a, p) = [a EXCEPT !.state = u, !.scheduled = SetTimers(@, e)]
    BY DEF Lost
  <2>2. b \in decide_transport_disconnect(s, p)
    BY <1>3 DEF Loses, LossOf, AnyOf
  <2>3. b = Batch(cancel, {}, main)
    BY <2>2 DEF decide_transport_disconnect, Accept, cancel_countdown_first
  <2>4. b.main.kind = "MemberDisconnected"
    BY <2>3 DEF Batch
  <2>5. cancel \in BOOLEAN /\ (cancel => s.phase = "Countdown")
        /\ main.kind \in QuietKinds
    BY DEF EventKinds, QuietKinds
  <2> HIDE DEF cancel, main, b
  <2>6. BatchOf(p, main, s, b)
    BY <2>3, <2>5, PlainOf, PlainShape
  <2> HIDE DEF e, u
  <2>7. /\ t.state = u /\ t.scheduled = SetTimers(a.scheduled, e) /\ t.now = a.now
        /\ t.processed = a.processed
    <3> DEFINE d == Lost(a, p)
    <3>1. d = [state |-> u, scheduled |-> SetTimers(a.scheduled, e), now |-> a.now,
               processed |-> a.processed, next_delivery |-> a.next_delivery]
      BY <2>1 DEF AuthorityTyped, Fields
    <3> HIDE DEF d
    <3>2. SameAuthority(t, d)
      BY <1>1, <1>3 DEF d
    <3> QED
      BY <3>1, <3>2 DEF SameAuthority
  <2>8. Armed(u) /\ StateInv(s)
    BY <1>1, <2>7 DEF AuthorityTyped
  <2>9. TimersFollow(s, u, e)
    BY <2>6, <2>8, BatchTimers DEF u, e
  <2>10. \A err : TimerKept(a, err) => TimerKept(t, err)
    BY <2>7, <2>8, <2>9, TimersSet
  <2>11. s.phase = "Countdown" => u.phase # "Running"
    <3>1. BeforeMain(w, s, b)
      BY <2>6, <2>8, PreludeGood DEF BatchOf
    <3>2. w \in SessionStates /\ (s.phase = "Countdown" => w.phase \in {"Lobby", "Countdown"})
      BY <2>6, <3>1 DEF BatchOf, BeforeMain, StateInv
    <3>3. u = apply(w, b.main)
      BY DEF u, AfterBatch
    <3> HIDE DEF w
    <3> QED
      BY <2>4, <3>2, <3>3, EventMembers DEF EventKinds
  <2> QED
    BY <2>7, <2>10, <2>11 DEF t
<1> QED
  BY <1>2, <1>3

(* An advance delivers what is due and nothing else: by deadline and token *)
(* the due timers are ranked from 0 without gaps.                          *)
LEMMA OrderIsDue ==
    ASSUME NEW scheduled \in [Tokens -> Ticks \cup {NoTick}], NEW now,
           NEW i \in 1 .. Len(DueOrder(scheduled, now))
    PROVE  DueOrder(scheduled, now)[i] \in Due(scheduled, now)
<1> DEFINE due == Due(scheduled, now)
           before(t) == {u \in due : \/ scheduled[u] < scheduled[t]
                                     \/ scheduled[u] = scheduled[t] /\ u < t}
           n == Cardinality(due)
           rank == [t \in due |-> Cardinality(before(t))]
<1>1. due \subseteq Tokens /\ IsFiniteSet(due) /\ n \in Nat
  BY AuthorityAssumption, FS_Subset, FS_CardinalityType
     DEF AuthorityAssumption, Due
<1>2. \A t \in due : t \in Nat /\ scheduled[t] \in Nat
  BY ReducerAssumption DEF ReducerAssumption, Due
<1>3. ASSUME NEW t \in due
      PROVE  /\ IsFiniteSet(before(t)) /\ Cardinality(before(t)) \in Nat
             /\ Cardinality(before(t)) < n
  <2>1. before(t) \subseteq due /\ t \notin before(t)
    BY <1>2
  <2>2. before(t) # due
    BY <2>1
  <2> QED
    BY <1>1, <2>1, <2>2, FS_Subset, FS_CardinalityType
<1>4. ASSUME NEW t \in due, NEW u \in before(t)
      PROVE  Cardinality(before(u)) < Cardinality(before(t))
  <2>1. u \in due
    OBVIOUS
  <2>2. before(u) \subseteq before(t) /\ u \notin before(u)
    BY <1>2, <1>4, <2>1
  <2>3. before(u) # before(t)
    BY <1>4, <2>2
  <2> HIDE DEF before
  <2> QED
    BY <1>3, <2>1, <2>2, <2>3, FS_Subset
<1>5. ASSUME NEW t \in due, NEW u \in due, t # u
      PROVE  rank[t] # rank[u]
  <2>1. t \in before(u) \/ u \in before(t)
    BY <1>2, <1>5
  <2>2. rank[t] = Cardinality(before(t)) /\ rank[u] = Cardinality(before(u))
    OBVIOUS
  <2> HIDE DEF rank, before
  <2> QED
    BY <1>3, <1>4, <2>1, <2>2
<1>6. rank \in Injection(due, 0 .. (n - 1))
  <2>1. rank \in [due -> 0 .. (n - 1)]
    <3>1. \A t \in due : Cardinality(before(t)) \in 0 .. (n - 1)
      <4> HIDE DEF before
      <4> QED
        BY <1>1, <1>3
    <3> HIDE DEF before
    <3> QED
      BY <3>1
  <2> HIDE DEF rank
  <2> QED
    BY <1>5, <2>1 DEF Injection, IsInjective
<1>7. IsFiniteSet(0 .. (n - 1)) /\ Cardinality(0 .. (n - 1)) = n
  <2> HIDE DEF n
  <2> QED
    BY <1>1, FS_Interval
<1>8. rank \in Surjection(due, 0 .. (n - 1))
  <2> HIDE DEF rank
  <2> QED
    BY <1>6, <1>7, FS_Injection
<1>9. i \in 1 .. n /\ DueOrder(scheduled, now)[i]
          = CHOOSE t \in due : Cardinality(before(t)) = i - 1
  <2>1. DueOrder(scheduled, now)
          = [j \in 1 .. n |-> CHOOSE t \in due : Cardinality(before(t)) = j - 1]
    BY Zenon DEF DueOrder
  <2> HIDE DEF due, before, n
  <2>2. Len(DueOrder(scheduled, now)) = n
    BY <1>1, <2>1
  <2>3. i \in 1 .. n
    BY <2>2
  <2> QED
    BY <2>1, <2>3, Zenon
<1>10. PICK t \in due : rank[t] = i - 1
  <2>1. i - 1 \in 0 .. (n - 1)
    BY <1>1, <1>9
  <2> HIDE DEF rank
  <2> QED
    BY <1>8, <2>1 DEF Surjection
<1>11. Cardinality(before(t)) = i - 1
  BY <1>10
<1> HIDE DEF before, due
<1> QED
  BY <1>9, <1>11 DEF due

(* The expiries of an advance from the drained authority d: either the     *)
(* session and its timers stay, and then every expiry failed, or the       *)
(* expiry of its countdown started the game.                               *)
ByClock(x) == \E m : x.command.id = ClockId(m)

Expired(d, order, n, r) ==
    /\ AuthorityTyped(r.a) /\ r.ok \in BOOLEAN /\ r.a.now = d.now
    /\ \A x \in r.a.processed : x \in d.processed \/ ByClock(x)
    /\ \/ /\ r.a.state = d.state /\ r.a.scheduled = d.scheduled
          /\ n > 0 => ~r.ok
       \/ /\ r.a.state.phase = "Running" /\ d.state.phase = "Countdown"
          /\ \E j \in 1 .. n : order[j] = d.state.token

LEMMA DeliveryExpires ==
    ASSUME NEW d, NEW order, NEW n \in Nat, NEW r, Expired(d, order, n, r),
           NEW live, authority_clock \notin live, NEW k \in Nat
    PROVE  Expired(d, order, n + 1, Expire(r, live, k, order[n + 1]))
<1> DEFINE t == order[n + 1]
           e == Expire(r, live, k, t)
<1>1. CASE ~r.ok
  <2>1. e = r
    BY <1>1 DEF Expire
  <2>2. (\E j \in 1 .. n : order[j] = d.state.token)
            => \E j \in 1 .. (n + 1) : order[j] = d.state.token
    OBVIOUS
  <2> HIDE DEF e
  <2> QED
    BY <1>1, <2>1, <2>2 DEF Expired, e
<1>2. CASE r.ok
  <2>1. /\ AuthorityTyped(e.a) /\ e.ok \in BOOLEAN /\ e.a.now = r.a.now
        /\ \A x \in e.a.processed :
               x \in r.a.processed \/ x.command = ClockCommand(r.a, t)
        /\ ~Starts(r.a, t) => ~e.ok /\ SameAuthority(e.a, r.a)
        /\ Starts(r.a, t) => /\ r.a.state.phase = "Countdown" /\ r.a.state.token = t
                             /\ e.a.state.phase = "Running"
    BY <1>2, ExpiryResult DEF Expired
  <2>2. \A x : x.command = ClockCommand(r.a, t) => ByClock(x)
    BY DEF ClockCommand, ByClock
  <2> HIDE DEF e
  <2>3. \A x \in e.a.processed : x \in d.processed \/ ByClock(x)
    BY <2>1, <2>2 DEF Expired
  <2>4. CASE Starts(r.a, t)
    <3>1. r.a.state = d.state
      BY <2>1, <2>4 DEF Expired
    <3>2. n + 1 \in 1 .. (n + 1) /\ order[n + 1] = d.state.token
      BY <2>1, <2>4, <3>1
    <3>3. \E j \in 1 .. (n + 1) : order[j] = d.state.token
      BY <3>2
    <3> QED
      BY <2>1, <2>3, <2>4, <3>1, <3>3 DEF Expired, e
  <2>5. CASE ~Starts(r.a, t)
    <3>1. ~e.ok /\ e.a.state = r.a.state /\ e.a.scheduled = r.a.scheduled
      BY <2>1, <2>5 DEF SameAuthority
    <3>2. (\E j \in 1 .. n : order[j] = d.state.token)
              => \E j \in 1 .. (n + 1) : order[j] = d.state.token
      OBVIOUS
    <3> QED
      BY <2>1, <2>3, <3>1, <3>2 DEF Expired, e
  <2> QED
    BY <2>4, <2>5
<1> QED
  BY <1>1, <1>2 DEF Expired

LEMMA DeliveriesExpire ==
    ASSUME NEW d, AuthorityTyped(d), NEW order, Len(order) \in Nat, NEW live,
           authority_clock \notin live, NEW k \in Nat
    PROVE  Expired(d, order, Len(order), Deliver(d, live, k, order))
<1>1t. PICK f : TakesEach(f, d, live, k, order)
  BY DeliverTakes
<1>1. /\ Deliver(d, live, k, order) = f[Len(order)]
      /\ f[0] = Done(d)
      /\ \A i \in 1 .. Len(order) :
             f[i] = Expire(f[i - 1], live, k, order[i])
  BY <1>1t DEF TakesEach
<1> DEFINE S == {n \in Nat : n <= Len(order) => Expired(d, order, n, f[n])}
<1>2. 0 \in S
  <2>1. f[0].a = d /\ f[0].ok = TRUE
    BY <1>1 DEF Done
  <2>2. f[0].ok \in BOOLEAN
    BY <2>1
  <2>3. ~(0 > 0)
    OBVIOUS
  <2>4. Expired(d, order, 0, f[0])
    BY <2>1, <2>2, <2>3, Zenon DEF Expired
  <2> QED
    BY <2>4
<1>3. ASSUME NEW n \in Nat, n \in S PROVE n + 1 \in S
  <2>1. CASE n + 1 <= Len(order)
    <3>1. n + 1 \in 1 .. Len(order) /\ (n + 1) - 1 = n /\ n <= Len(order)
      BY <2>1
    <3>2. f[n + 1] = Expire(f[n], live, k, order[n + 1])
      BY <1>1, <3>1
    <3>3. Expired(d, order, n, f[n])
      BY <1>3, <3>1
    <3>4. Expired(d, order, n + 1, f[n + 1])
      BY <3>2, <3>3, DeliveryExpires
    <3> QED
      BY <3>4
  <2> QED
    BY <2>1
<1>4. Len(order) \in S
  <2> HIDE DEF S
  <2>1. Nat \subseteq S
    BY <1>2, <1>3, AllNumbers
  <2> QED
    BY <2>1
<1> QED
  BY <1>1, <1>4

(* What an advance of the clock does to records and timers: a countdown    *)
(* whose timer is not due keeps it, one whose timer is due starts or       *)
(* leaves an error, and none starts before its deadline.                   *)
LEMMA AdvanceTimers ==
    ASSUME NEW a, AuthorityTyped(a), NEW live, authority_clock \notin live,
           NEW k \in Nat, NEW tick \in Ticks, NEW err \in BOOLEAN,
           TimerKept(a, err)
    PROVE  LET r == advance_clock_to(a, live, k, tick)
           IN  /\ \A x \in r.a.processed : x \in a.processed \/ ByClock(x)
               /\ r.a.state = a.state \/ r.a.state.phase = "Running"
               /\ TimerKept(r.a, err \/ ~r.ok)
               /\ a.state.phase = "Countdown" /\ r.a.state.phase = "Running"
                      => a.state.deadline_tick <= r.a.now
<1> DEFINE now == Later(a, tick)
           order == DueOrder(a.scheduled, now)
           d == Drained(a, now)
           due == Due(a.scheduled, now)
           r == advance_clock_to(a, live, k, tick)
           z == a.state.token
<1>1. r = Deliver(d, live, k, order)
  BY AdvanceDelivers
<1>2. now \in Ticks \cup {0} /\ a.now \in Int /\ now \in Int /\ a.now <= now
  <2>1. Ticks \subseteq Int
    BY ReducerAssumption DEF ReducerAssumption
  <2>2. a.now \in Ticks \cup {0}
    BY DEF AuthorityTyped
  <2>3. \A n \in Ticks \cup {0} : n \in Int
    BY <2>1
  <2>4. tick \in Int /\ a.now \in Int
    BY <2>2, <2>3
  <2> QED
    BY <2>2, <2>4 DEF Later
<1>3. Len(order) \in Nat /\ (due # {} => Len(order) > 0)
  <2>1. IsFiniteSet(due)
    BY AuthorityAssumption, FS_Subset DEF AuthorityAssumption, Due
  <2>2. Cardinality(due) \in Nat /\ (Cardinality(due) = 0 <=> due = {})
    BY <2>1, FS_CardinalityType, FS_EmptySet
  <2> QED
    BY <2>2 DEF DueOrder
<1> HIDE DEF now
<1>4. /\ AuthorityTyped(d) /\ d.state = a.state /\ d.now = now
      /\ d.processed = a.processed
      /\ d.scheduled = [t \in Tokens |-> IF t \in due THEN NoTick ELSE a.scheduled[t]]
  BY <1>2, DrainKeeps
<1>5. \A i \in 1 .. Len(order) : order[i] \in due
  BY OrderIsDue DEF AuthorityTyped
<1> HIDE DEF d, order, r
<1>6. Expired(d, order, Len(order), r)
  BY <1>1, <1>3, <1>4, DeliveriesExpire
<1>7. a.state.phase = "Countdown" =>
          /\ z \in Tokens /\ a.state.deadline_tick \in Int
          /\ a.state.deadline_tick <= now \/ a.scheduled[z] = a.state.deadline_tick
          /\ z \in due => a.state.deadline_tick <= now
  <2> SUFFICES ASSUME a.state.phase = "Countdown"
               PROVE  /\ z \in Tokens /\ a.state.deadline_tick \in Int
                      /\ a.state.deadline_tick <= now
                             \/ a.scheduled[z] = a.state.deadline_tick
                      /\ z \in due => a.state.deadline_tick <= now
    OBVIOUS
  <2>1. z \in Tokens
    BY DEF AuthorityTyped, Armed
  <2>2. a.state.deadline_tick \in Ticks \cup {NoTick}
    BY DEF AuthorityTyped, StateInv, SessionStates
  <2>3. a.state.deadline_tick \in Int
    <3>1. Ticks \subseteq Int /\ NoTick \in Int
      BY ReducerAssumption DEF ReducerAssumption, NoTick
    <3> QED
      BY <2>2, <3>1
  <2>4. a.state.deadline_tick <= now \/ a.scheduled[z] = a.state.deadline_tick
    BY <1>2, <2>3 DEF TimerKept
  <2>5. z \in due => a.scheduled[z] <= now
    BY DEF Due
  <2> QED
    BY <2>1, <2>3, <2>4, <2>5
<1>8. r.a.state = a.state \/ r.a.state.phase = "Running"
  BY <1>4, <1>6 DEF Expired
<1>9. a.state.phase = "Countdown" /\ r.a.state.phase = "Running"
          => a.state.deadline_tick <= r.a.now
  <2> SUFFICES ASSUME a.state.phase = "Countdown", r.a.state.phase = "Running"
               PROVE  a.state.deadline_tick <= now
    BY <1>4, <1>6 DEF Expired
  <2>1. \E j \in 1 .. Len(order) : order[j] = z
    BY <1>4, <1>6 DEF Expired
  <2> QED
    BY <1>5, <1>7, <2>1
<1>10. TimerKept(r.a, err \/ ~r.ok)
  <2> SUFFICES ASSUME r.a.state.phase = "Countdown"
               PROVE  \/ r.a.scheduled[z] = a.state.deadline_tick
                      \/ (err \/ ~r.ok) /\ a.state.deadline_tick <= now
    BY <1>4, <1>6, <1>8 DEF TimerKept, Expired
  <2>1. /\ a.state.phase = "Countdown" /\ r.a.scheduled = d.scheduled
        /\ Len(order) > 0 => ~r.ok
    BY <1>4, <1>6, <1>8 DEF Expired
  <2>2. CASE z \in due
    BY <1>3, <1>7, <2>1, <2>2
  <2>3. CASE z \notin due
    <3>1. r.a.scheduled[z] = a.scheduled[z]
      BY <1>4, <1>7, <2>1, <2>3
    <3>2. a.scheduled[z] = a.state.deadline_tick \/ (err /\ a.state.deadline_tick <= a.now)
      BY <2>1 DEF TimerKept
    <3>3. a.state.deadline_tick <= a.now => a.state.deadline_tick <= now
      BY <1>2, <1>7, <2>1
    <3> QED
      BY <3>1, <3>2, <3>3
  <2> QED
    BY <2>2, <2>3
<1>11. \A x \in r.a.processed : x \in a.processed \/ ByClock(x)
  BY <1>4, <1>6 DEF Expired
<1> QED
  BY <1>8, <1>9, <1>10, <1>11 DEF r

-----------------------------------------------------------------------------
(* The queue, as long as no client has retried.                            *)

LEMMA Identifiers ==
    ASSUME NEW m, NEW n
    PROVE  /\ ClientId(m) = ClientId(n) => m = n
           /\ ClientId(m) # ClockId(n)
BY DEF ClientId, ClockId

(* The identifiers in the records and in the queue q with its held input h *)
(* are of commands issued so far, at most n.                               *)
Sent(id, n) == \E m \in 1 .. n : id = ClientId(m)

QueueSent(a, q, h, n) ==
    /\ \A r \in a.processed, m \in Nat : r.command.id = ClientId(m) => m <= n
    /\ \A i \in DOMAIN q : q[i].kind = "Command" => Sent(q[i].command.id, n)
    /\ \A i \in DOMAIN h : h[i].kind = "Command" /\ Sent(h[i].command.id, n)

(* The copies of a command are neighbours, and a held command has none.    *)
QueueOnce(q, h) ==
    \A i \in DOMAIN q : q[i].kind = "Command" =>
        /\ \A j \in DOMAIN q :
               q[j].kind = "Command" /\ q[j].command.id = q[i].command.id
                   => j \in {i - 1, i, i + 1}
        /\ \A j \in DOMAIN h : h[j].command.id # q[i].command.id

(* A queued command that is recorded already is the next to be taken, and  *)
(* its recorded effects suit the countdown of this moment.                 *)
QueueFresh(a, q, h) ==
    /\ \A i \in DOMAIN q : q[i].kind = "Command" =>
           \A r \in Recorded(a, q[i].command) : i = 1 /\ Fresh(a.state, r.effects)
    /\ \A i \in DOMAIN h : Recorded(a, h[i].command) = {}

QueueInv(a, q, h, n) ==
    QueueSent(a, q, h, n) /\ QueueOnce(q, h) /\ QueueFresh(a, q, h)

(* A new command x arrives: once, twice, before the held input, or to be   *)
(* held itself.                                                            *)
Enqueued(q, h, l, x, q2, h2) ==
    /\ \A i \in DOMAIN q2 :
           \/ i \in DOMAIN q /\ q2[i] = q[i]
           \/ i \in {l + 1, l + 2} /\ q2[i] = x
           \/ i = l + 2 /\ 1 \in DOMAIN h /\ q2[i] = h[1]
    /\ \A i \in DOMAIN h2 : h2[i] = x /\ q2 = q

LEMMA QueueTakes ==
    ASSUME NEW a, NEW n \in Nat, NEW h, NEW q, NEW l \in Nat, DOMAIN q = 1 .. l,
           QueueInv(a, q, h, n), NEW x, x.kind = "Command",
           x.command.id = ClientId(n + 1), NEW q2, NEW h2,
           Enqueued(q, h, l, x, q2, h2)
    PROVE  QueueInv(a, q2, h2, n + 1)
<1> USE DEF Enqueued
<1>1. ASSUME NEW id, Sent(id, n) PROVE Sent(id, n + 1) /\ id # x.command.id
  <2>1. PICK m \in 1 .. n : id = ClientId(m)
    BY <1>1 DEF Sent
  <2>2. m \in 1 .. (n + 1) /\ m # n + 1
    OBVIOUS
  <2> QED
    BY <2>1, <2>2, Identifiers DEF Sent
<1>2. Sent(x.command.id, n + 1)
  <2>1. n + 1 \in 1 .. (n + 1)
    OBVIOUS
  <2> QED
    BY <2>1 DEF Sent
<1>3. Recorded(a, x.command) = {}
  <2>1. ASSUME NEW r \in a.processed, r.command.id = ClientId(n + 1) PROVE FALSE
    <3>1. n + 1 <= n
      BY <2>1 DEF QueueInv, QueueSent
    <3> QED
      BY <3>1
  <2> QED
    BY <2>1 DEF Recorded
<1>4. \A i \in DOMAIN q : q[i].kind = "Command" =>
          /\ Sent(q[i].command.id, n + 1) /\ q[i].command.id # x.command.id
  BY <1>1 DEF QueueInv, QueueSent
<1>5. \A i \in DOMAIN h : /\ h[i].kind = "Command" /\ Sent(h[i].command.id, n + 1)
                          /\ h[i].command.id # x.command.id
  BY <1>1 DEF QueueInv, QueueSent
<1>6. QueueSent(a, q2, h2, n + 1)
  <2>1. ASSUME NEW r \in a.processed, NEW m \in Nat, r.command.id = ClientId(m)
        PROVE  m <= n + 1
    BY <2>1 DEF QueueInv, QueueSent
  <2>2. \A i \in DOMAIN q2 : q2[i].kind = "Command" => Sent(q2[i].command.id, n + 1)
    BY <1>2, <1>4, <1>5
  <2>3. \A i \in DOMAIN h2 : h2[i].kind = "Command" /\ Sent(h2[i].command.id, n + 1)
    BY <1>2
  <2> QED
    BY <2>1, <2>2, <2>3 DEF QueueSent
<1>7. QueueOnce(q2, h2)
  <2> SUFFICES ASSUME NEW i \in DOMAIN q2, q2[i].kind = "Command"
               PROVE  /\ \A j \in DOMAIN q2 :
                             q2[j].kind = "Command" /\ q2[j].command.id = q2[i].command.id
                                 => j \in {i - 1, i, i + 1}
                      /\ \A j \in DOMAIN h2 : h2[j].command.id # q2[i].command.id
    BY DEF QueueOnce
  <2>1. ASSUME NEW j \in DOMAIN h2 PROVE h2[j].command.id # q2[i].command.id
    BY <1>4, <2>1
  <2>2. ASSUME NEW j \in DOMAIN q2, q2[j].kind = "Command",
               q2[j].command.id = q2[i].command.id
        PROVE  j \in {i - 1, i, i + 1}
    <3>1. CASE i \in DOMAIN q /\ q2[i] = q[i] /\ j \in DOMAIN q /\ q2[j] = q[j]
      BY <2>2, <3>1 DEF QueueInv, QueueOnce
    <3>2. CASE i \in {l + 1, l + 2} /\ j \in {l + 1, l + 2}
      BY <3>2
    <3>3. ASSUME NEW g \in DOMAIN q, q[g].kind = "Command", NEW y,
                 y = x \/ (1 \in DOMAIN h /\ y = h[1])
          PROVE  y.command.id # q[g].command.id
      BY <1>4, <3>3 DEF QueueInv, QueueOnce
    <3>4. CASE i \in DOMAIN q /\ q2[i] = q[i] /\ j \in {l + 1, l + 2}
               /\ (q2[j] = x \/ (1 \in DOMAIN h /\ q2[j] = h[1]))
      BY <2>2, <3>3, <3>4
    <3>5. CASE j \in DOMAIN q /\ q2[j] = q[j] /\ i \in {l + 1, l + 2}
               /\ (q2[i] = x \/ (1 \in DOMAIN h /\ q2[i] = h[1]))
      BY <2>2, <3>3, <3>5
    <3> QED
      BY <3>1, <3>2, <3>4, <3>5
  <2> QED
    BY <2>1, <2>2
<1>8. QueueFresh(a, q2, h2)
  <2>1. ASSUME NEW i \in DOMAIN q2, q2[i].kind = "Command",
               NEW r \in Recorded(a, q2[i].command)
        PROVE  i = 1 /\ Fresh(a.state, r.effects)
    <3>1. i \in DOMAIN q /\ q2[i] = q[i]
      BY <1>3, <2>1 DEF QueueInv, QueueFresh
    <3> QED
      BY <2>1, <3>1 DEF QueueInv, QueueFresh
  <2> QED
    BY <1>3, <2>1 DEF QueueFresh
<1> QED
  BY <1>6, <1>7, <1>8 DEF QueueInv

(* The loss of a route joins the queue.                                    *)
LEMMA QueueLoses ==
    ASSUME NEW a, NEW n \in Nat, NEW h, NEW q, NEW m \in Nat, n <= m,
           QueueInv(a, q, h, n), NEW q2,
           \A i \in DOMAIN q2 : \/ i \in DOMAIN q /\ q2[i] = q[i]
                                \/ q2[i].kind = "Disconnected"
    PROVE  QueueInv(a, q2, h, m)
<1>1. \A id : Sent(id, n) => Sent(id, m)
  <2>1. \A k \in 1 .. n : k \in 1 .. m
    OBVIOUS
  <2> QED
    BY <2>1 DEF Sent
<1>2. \A i \in DOMAIN q2 : q2[i].kind = "Command" => i \in DOMAIN q /\ q2[i] = q[i]
  OBVIOUS
<1>3. QueueSent(a, q2, h, m)
  <2>1. ASSUME NEW r \in a.processed, NEW k \in Nat, r.command.id = ClientId(k)
        PROVE  k <= m
    <3>1. k <= n
      BY <2>1 DEF QueueInv, QueueSent
    <3> QED
      BY <3>1
  <2> QED
    BY <1>1, <1>2, <2>1 DEF QueueInv, QueueSent
<1>4. QueueOnce(q2, h)
  BY <1>2 DEF QueueInv, QueueOnce
<1>5. QueueFresh(a, q2, h)
  BY <1>2 DEF QueueInv, QueueFresh
<1> QED
  BY <1>3, <1>4, <1>5 DEF QueueInv

(* The head of the queue is taken; it may leave a record of its own.       *)
LEMMA QueueDrives ==
    ASSUME NEW a, NEW n \in Nat, NEW h, NEW q, NEW l \in Nat, DOMAIN q = 1 .. (l + 1),
           QueueInv(a, q, h, n), NEW q2, DOMAIN q2 = 1 .. l,
           \A i \in 1 .. l : q2[i] = q[i + 1], NEW t,
           \A r \in t.processed :
               \/ r \in a.processed
               \/ /\ q[1].kind = "Command" /\ r.command = q[1].command
                  /\ Fresh(t.state, r.effects)
    PROVE  QueueInv(t, q2, h, n)
<1>1. \A i \in DOMAIN q2 : i + 1 \in DOMAIN q /\ q2[i] = q[i + 1] /\ i + 1 # 1
  OBVIOUS
<1>2. 1 \in DOMAIN q
  OBVIOUS
<1>3. QueueSent(t, q2, h, n)
  <2>1. ASSUME NEW r \in t.processed, NEW m \in Nat, r.command.id = ClientId(m)
        PROVE  m <= n
    <3>1. CASE r \in a.processed
      BY <2>1, <3>1 DEF QueueInv, QueueSent
    <3>2. CASE q[1].kind = "Command" /\ r.command = q[1].command
      <4>1. PICK k \in 1 .. n : q[1].command.id = ClientId(k)
        BY <1>2, <3>2 DEF QueueInv, QueueSent, Sent
      <4>2. k = m
        BY <2>1, <3>2, <4>1, Identifiers
      <4> QED
        BY <4>2
    <3> QED
      BY <3>1, <3>2
  <2> QED
    BY <1>1, <2>1 DEF QueueInv, QueueSent
<1>4. QueueOnce(q2, h)
  <2> SUFFICES ASSUME NEW i \in DOMAIN q2, q2[i].kind = "Command"
               PROVE  /\ \A j \in DOMAIN q2 :
                             q2[j].kind = "Command" /\ q2[j].command.id = q2[i].command.id
                                 => j \in {i - 1, i, i + 1}
                      /\ \A j \in DOMAIN h : h[j].command.id # q2[i].command.id
    BY DEF QueueOnce
  <2>1. \A j \in DOMAIN h : h[j].command.id # q2[i].command.id
    BY <1>1 DEF QueueInv, QueueOnce
  <2>2. ASSUME NEW j \in DOMAIN q2, q2[j].kind = "Command",
               q2[j].command.id = q2[i].command.id
        PROVE  j \in {i - 1, i, i + 1}
    <3>1. j + 1 \in {(i + 1) - 1, i + 1, (i + 1) + 1}
      BY <1>1, <2>2 DEF QueueInv, QueueOnce
    <3> QED
      BY <3>1
  <2> QED
    BY <2>1, <2>2
<1>5. QueueFresh(t, q2, h)
  <2>1. ASSUME NEW i \in DOMAIN q2, q2[i].kind = "Command",
               NEW r \in Recorded(t, q2[i].command)
        PROVE  i = 1 /\ Fresh(t.state, r.effects)
    <3>1. r \in t.processed /\ r.command.id = q[i + 1].command.id
      BY <1>1, <2>1 DEF Recorded
    <3>2. r \notin a.processed
      <4>1. r \in a.processed => r \in Recorded(a, q[i + 1].command)
        BY <3>1 DEF Recorded
      <4> QED
        BY <1>1, <2>1, <4>1 DEF QueueInv, QueueFresh
    <3>3. q[1].kind = "Command" /\ r.command = q[1].command /\ Fresh(t.state, r.effects)
      BY <3>1, <3>2
    <3>4. i + 1 \in {1 - 1, 1, 1 + 1}
      BY <1>1, <1>2, <2>1, <3>1, <3>3 DEF QueueInv, QueueOnce
    <3> QED
      BY <3>3, <3>4
  <2>2. ASSUME NEW i \in DOMAIN h, NEW r \in Recorded(t, h[i].command) PROVE FALSE
    <3>1. r \in t.processed /\ r.command.id = h[i].command.id
      BY <2>2 DEF Recorded
    <3>2. r \notin a.processed
      BY <3>1 DEF Recorded, QueueInv, QueueFresh
    <3>3. q[1].kind = "Command" /\ r.command = q[1].command
      BY <3>1, <3>2
    <3> QED
      BY <1>2, <3>1, <3>3 DEF QueueInv, QueueOnce
  <2> QED
    BY <2>1, <2>2 DEF QueueFresh
<1> QED
  BY <1>3, <1>4, <1>5 DEF QueueInv

(* The clock advances: it leaves records of its own only, and the session  *)
(* as it is or with its game started.                                      *)
LEMMA QueueAdvances ==
    ASSUME NEW a, NEW n \in Nat, NEW h, NEW q, QueueInv(a, q, h, n), NEW t,
           \A r \in t.processed : r \in a.processed \/ ByClock(r),
           t.state = a.state \/ t.state.phase = "Running"
    PROVE  QueueInv(t, q, h, n)
<1>1. ASSUME NEW c, Sent(c.id, n) PROVE Recorded(t, c) \subseteq Recorded(a, c)
  <2>1. PICK m \in 1 .. n : c.id = ClientId(m)
    BY <1>1 DEF Sent
  <2>2. ASSUME NEW r, ByClock(r) PROVE r.command.id # c.id
    BY <2>1, <2>2, Identifiers DEF ByClock
  <2> QED
    BY <2>2 DEF Recorded
<1>2. \A e : Fresh(a.state, e) => Fresh(t.state, e)
  BY DEF Fresh
<1>3. QueueSent(t, q, h, n)
  <2>1. ASSUME NEW r \in t.processed, NEW m \in Nat, r.command.id = ClientId(m)
        PROVE  m <= n
    <3>1. ~ByClock(r)
      BY <2>1, Identifiers DEF ByClock
    <3> QED
      BY <2>1, <3>1 DEF QueueInv, QueueSent
  <2> QED
    BY <2>1 DEF QueueInv, QueueSent
<1>4. QueueFresh(t, q, h)
  <2>1. ASSUME NEW i \in DOMAIN q, q[i].kind = "Command",
               NEW r \in Recorded(t, q[i].command)
        PROVE  i = 1 /\ Fresh(t.state, r.effects)
    <3>1. r \in Recorded(a, q[i].command)
      BY <1>1, <2>1 DEF QueueInv, QueueSent
    <3> QED
      BY <1>2, <2>1, <3>1 DEF QueueInv, QueueFresh
  <2>2. ASSUME NEW i \in DOMAIN h PROVE Recorded(t, h[i].command) = {}
    BY <1>1, <2>2 DEF QueueInv, QueueSent, QueueFresh
  <2> QED
    BY <2>1, <2>2 DEF QueueFresh
<1> QED
  BY <1>3, <1>4 DEF QueueInv

(* The queue and the timers in a run.                                      *)
RunTimed == QueueInv(auth, ingress, held, issued) /\ TimerKept(auth, erred)

TimerInv == retries = MaxRetries => RunTimed

LEMMA ConcatLen ==
    ASSUME NEW S, NEW p \in Seq(S), NEW q \in Seq(S)
    PROVE  p \o q \in Seq(S) /\ Len(p \o q) = Len(p) + Len(q)
OBVIOUS

LEMMA ArriveQueues ==
    ASSUME RunTyped, QueueInv(auth, ingress, held, issued), NEW c,
           c.id = ClientId(issued + 1), Arrive(c), UNCHANGED auth,
           issued' = issued + 1
    PROVE  QueueInv(auth, ingress, held, issued)'
<1> DEFINE x == [kind |-> "Command", command |-> c]
           l == Len(ingress)
<1>1. /\ l \in Nat /\ DOMAIN ingress = 1 .. l /\ issued \in Nat
      /\ ingress \in Seq(Inputs) /\ held \in Seq(Inputs) /\ Len(held) <= 1
      /\ Len(held) \in Nat
  <2>1. MaxCommands \in Nat
    BY AuthorityAssumption DEF AuthorityAssumption
  <2> QED
    BY <2>1 DEF RunTyped
<1>2. x.kind = "Command" /\ x.command = c
  OBVIOUS
<1> HIDE DEF x
<1>3. ASSUME Enqueued(ingress, held, l, x, ingress', held')
      PROVE  QueueInv(auth, ingress, held, issued)'
  <2> HIDE DEF l
  <2>1. x.command.id = ClientId(issued + 1)
    BY <1>2
  <2>2. QueueInv(auth, ingress', held', issued + 1)
    BY <1>1, <1>2, <1>3, <2>1, QueueTakes
  <2> QED
    BY <2>2
<1>4. CASE /\ held # <<>> /\ ingress' = ingress \o <<x>> \o held /\ held' = <<>>
  <2>1. Len(held) = 1 /\ 1 \in DOMAIN held
    BY <1>1, <1>4
  <2>2. DOMAIN ingress' = 1 .. (l + 2)
    <3> DEFINE p == ingress \o <<x>>
    <3>1. p \in Seq(Inputs \cup {x}) /\ Len(p) = l + 1
      BY <1>1
    <3>2. held \in Seq(Inputs \cup {x})
      BY <1>1
    <3> HIDE DEF p
    <3>3. /\ p \o held \in Seq(Inputs \cup {x})
          /\ Len(p \o held) = Len(p) + Len(held)
      BY <3>1, <3>2, ConcatLen
    <3>4. Len(p \o held) = l + 2
      BY <1>1, <2>1, <3>1, <3>3
    <3>5. DOMAIN (p \o held) = 1 .. (l + 2)
      BY <3>3, <3>4
    <3> QED
      BY <1>4, <3>5 DEF p
  <2>3. ASSUME NEW i \in 1 .. (l + 2)
        PROVE  ingress'[i] = IF i <= l THEN ingress[i]
                             ELSE IF i = l + 1 THEN x ELSE held[1]
    BY <1>1, <1>4, <2>1
  <2>4. DOMAIN held' = {}
    BY <1>4
  <2> QED
    BY <1>1, <1>3, <2>1, <2>2, <2>3, <2>4 DEF Enqueued
<1>5. CASE held = <<>> /\ ingress' = Append(ingress, x) /\ held' = held
  <2>1. DOMAIN ingress' = 1 .. (l + 1)
    BY <1>1, <1>5
  <2>2. \A i \in 1 .. (l + 1) : ingress'[i] = IF i <= l THEN ingress[i] ELSE x
    BY <1>1, <1>5
  <2>3. DOMAIN held' = {}
    BY <1>5
  <2> QED
    BY <1>1, <1>3, <2>1, <2>2, <2>3 DEF Enqueued
<1>6. CASE held = <<>> /\ ingress' = ingress \o <<x, x>> /\ held' = held
  <2>1. DOMAIN ingress' = 1 .. (l + 2)
    BY <1>1, <1>6
  <2>2. \A i \in 1 .. (l + 2) : ingress'[i] = IF i <= l THEN ingress[i] ELSE x
    BY <1>1, <1>6
  <2>3. DOMAIN held' = {}
    BY <1>6
  <2> QED
    BY <1>1, <1>3, <2>1, <2>2, <2>3 DEF Enqueued
<1>7. CASE held' = <<x>> /\ ingress' = ingress
  <2>1. DOMAIN held' = {1} /\ held'[1] = x
    BY <1>7
  <2> QED
    BY <1>3, <1>7, <2>1 DEF Enqueued
<1>8. CASE LoseRoute(c.principal) /\ held' = held
  <2>1. \A i \in DOMAIN ingress' : \/ i \in DOMAIN ingress /\ ingress'[i] = ingress[i]
                                   \/ ingress'[i].kind = "Disconnected"
    <3> DEFINE y == [kind |-> "Disconnected", principal |-> c.principal]
    <3>1. y.kind = "Disconnected"
      OBVIOUS
    <3>2. ingress' = ingress \/ ingress' = Append(ingress, y)
      BY <1>8 DEF LoseRoute
    <3> HIDE DEF y
    <3> QED
      BY <1>1, <3>1, <3>2
  <2>2. issued <= issued + 1 /\ issued + 1 \in Nat
    BY <1>1
  <2>3. QueueInv(auth, ingress', held, issued + 1)
    BY <1>1, <2>1, <2>2, QueueLoses
  <2> QED
    BY <1>8, <2>3
<1> QED
  BY <1>4, <1>5, <1>6, <1>7, <1>8 DEF Arrive, x

(* Every step but a retry keeps the countdown's timer, and starts no game  *)
(* before its deadline.                                                    *)
StartsInTime(a, b) ==
    a.state.phase = "Countdown" /\ b.state.phase = "Running"
        => a.state.deadline_tick <= b.now

LEMMA StepTimed ==
    ASSUME JournalInv, RunTimed, Next, retries' = retries
    PROVE  RunTimed' /\ StartsInTime(auth, auth')
<1> USE DEF RunTimed
<1>0. /\ AuthorityTyped(auth) /\ ingress \in Seq(Inputs) /\ held \in Seq(Inputs)
      /\ issued \in Nat /\ erred \in BOOLEAN
  <2>1. MaxCommands \in Nat
    BY AuthorityAssumption DEF AuthorityAssumption
  <2> QED
    BY <2>1 DEF JournalInv, RunTyped, Replaying
<1>1. auth' = auth => StartsInTime(auth, auth')
  BY DEF StartsInTime
<1>2. auth' = auth /\ erred' = erred => TimerKept(auth, erred)'
  OBVIOUS
<1>3. ASSUME NEW p \in Principals, Connect(p) PROVE RunTimed' /\ StartsInTime(auth, auth')
  BY <1>1, <1>2, <1>3 DEF Connect
<1>4. ASSUME NEW p \in Principals, Disconnect(p)
      PROVE  RunTimed' /\ StartsInTime(auth, auth')
  <2> DEFINE y == [kind |-> "Disconnected", principal |-> p]
  <2>1. ingress' = ingress \/ ingress' = Append(ingress, y)
    BY <1>4 DEF Disconnect, LoseRoute
  <2>2. y.kind = "Disconnected"
    OBVIOUS
  <2> HIDE DEF y
  <2>3. \A i \in DOMAIN ingress' : \/ i \in DOMAIN ingress /\ ingress'[i] = ingress[i]
                                   \/ ingress'[i].kind = "Disconnected"
    BY <1>0, <2>1, <2>2
  <2>4. QueueInv(auth, ingress', held, issued)
    BY <1>0, <2>3, QueueLoses
  <2> QED
    BY <1>1, <1>2, <1>4, <2>4 DEF Disconnect
<1>5. ASSUME NEW client \in Clients, Submit(client[1], client[2])
      PROVE  RunTimed' /\ StartsInTime(auth, auth')
  <2> DEFINE c == [id |-> ClientId(issued'), principal |-> client[1],
                   payload |-> client[2], expected_revision |-> auth.state.revision]
  <2>1. /\ Arrive(c) /\ issued' = issued + 1 /\ c.id = ClientId(issued')
        /\ UNCHANGED auth /\ UNCHANGED erred
    BY <1>5 DEF Submit
  <2> HIDE DEF c
  <2>2. QueueInv(auth, ingress, held, issued)'
    BY <2>1, ArriveQueues DEF JournalInv
  <2> QED
    BY <1>1, <1>2, <2>1, <2>2
<1>6. ASSUME NEW record \in auth.processed, Resubmit(record) PROVE FALSE
  BY <1>6 DEF Resubmit, JournalInv, RunTyped
<1>7. CASE DriveOne
  <2> DEFINE input == Head(ingress)
             l == Len(ingress) - 1
  <2>1. /\ l \in Nat /\ DOMAIN ingress = 1 .. (l + 1) /\ DOMAIN Tail(ingress) = 1 .. l
        /\ \A i \in 1 .. l : Tail(ingress)[i] = ingress[i + 1]
        /\ input = ingress[1] /\ input \in Inputs /\ 1 \in DOMAIN ingress
    BY <1>0, <1>7 DEF DriveOne
  <2>2. PICK k \in 1 .. MAX_MEMBERS :
            LET y == process(auth, Live(routes), k, input)
            IN  auth' = y.a /\ erred' = (erred \/ ~y.ok)
    BY <1>7 DEF DriveOne
  <2> DEFINE y == process(auth, Live(routes), k, input)
             t == y.a
  <2>3. /\ \A r \in t.processed :
               \/ r \in auth.processed
               \/ /\ ingress[1].kind = "Command" /\ r.command = ingress[1].command
                  /\ Fresh(t.state, r.effects)
        /\ TimerKept(t, erred)
        /\ auth.state.phase = "Countdown" => t.state.phase # "Running"
    <3>1. CASE input.kind = "Command" /\ input.command \in ClientCommands
      <4> DEFINE c == input.command
      <4>1. y = process_command(auth, Live(routes), k, c)
        BY <3>1 DEF process
      <4>2. CommandTyped(c)
        BY <2>1, <3>1, InputKinds
      <4>3. \A r \in Recorded(auth, c) : Fresh(auth.state, r.effects)
        BY <2>1, <3>1 DEF QueueInv, QueueFresh
      <4> HIDE DEF c
      <4>4. c \in ClientCommands /\ k \in Nat
        BY <3>1 DEF c
      <4> QED
        BY <1>0, <2>1, <3>1, <4>1, <4>2, <4>3, <4>4, CommandTimers DEF c
    <3>2. CASE input.kind = "Disconnected" /\ input.principal \in AllPrincipals
      <4>1. y = process_disconnect(auth, Live(routes), k, input.principal)
        BY <3>2 DEF process
      <4> QED
        BY <1>0, <3>2, <4>1, LossTimers
    <3> QED
      BY <2>1, <3>1, <3>2, InputKinds
  <2> HIDE DEF l, t, input
  <2>4. QueueInv(t, Tail(ingress), held, issued)
    BY <1>0, <2>1, <2>3, QueueDrives
  <2>5. TimerKept(t, erred')
    BY <2>2, <2>3 DEF TimerKept
  <2>6. auth' = t /\ ingress' = Tail(ingress) /\ held' = held /\ issued' = issued
    BY <1>7, <2>2 DEF DriveOne, t
  <2> QED
    BY <2>3, <2>4, <2>5, <2>6 DEF StartsInTime
<1>8. ASSUME NEW tick \in Ticks, AdvanceClock(tick)
      PROVE  RunTimed' /\ StartsInTime(auth, auth')
  <2>1. PICK k \in 1 .. MAX_MEMBERS :
            LET y == advance_clock_to(auth, Live(routes), k, tick)
            IN  auth' = y.a /\ erred' = (erred \/ ~y.ok)
    BY <1>8 DEF AdvanceClock
  <2> DEFINE y == advance_clock_to(auth, Live(routes), k, tick)
  <2>2. authority_clock \notin Live(routes) /\ k \in Nat
    BY ClockHasNoRoute DEF JournalInv
  <2>3. /\ \A x \in y.a.processed : x \in auth.processed \/ ByClock(x)
        /\ y.a.state = auth.state \/ y.a.state.phase = "Running"
        /\ TimerKept(y.a, erred \/ ~y.ok)
        /\ auth.state.phase = "Countdown" /\ y.a.state.phase = "Running"
               => auth.state.deadline_tick <= y.a.now
    BY <1>0, <2>2, AdvanceTimers
  <2> HIDE DEF y
  <2>4. QueueInv(y.a, ingress, held, issued)
    BY <1>0, <2>3, QueueAdvances
  <2>5. /\ auth' = y.a /\ erred' = (erred \/ ~y.ok) /\ ingress' = ingress
        /\ held' = held /\ issued' = issued
    BY <1>8, <2>1 DEF AdvanceClock, y
  <2> QED
    BY <2>3, <2>4, <2>5 DEF StartsInTime
<1>9. CASE Recover
  <2>1. /\ auth' = [replica.a EXCEPT !.next_delivery = auth.next_delivery]
        /\ AuthorityTyped(replica.a) /\ SameAuthority(replica.a, auth)
        /\ auth.next_delivery \in Nat
    BY <1>9 DEF Recover, JournalInv, Replaying, RunTyped, AuthorityTyped
  <2>2. /\ auth'.state = auth.state /\ auth'.scheduled = auth.scheduled
        /\ auth'.now = auth.now /\ auth'.processed = auth.processed
    BY <2>1, Renumbered DEF SameAuthority
  <2>3. DOMAIN ingress' = {} /\ DOMAIN held' = {} /\ issued' = issued /\ erred' = erred
    BY <1>9 DEF Recover
  <2>4. QueueInv(auth, ingress, held, issued)'
    BY <2>2, <2>3 DEF QueueInv, QueueSent, QueueOnce, QueueFresh
  <2>5. TimerKept(auth, erred)'
    BY <2>2, <2>3 DEF TimerKept
  <2> QED
    BY <2>2, <2>4, <2>5 DEF StartsInTime
<1> QED
  BY <1>3, <1>4, <1>5, <1>6, <1>7, <1>8, <1>9 DEF Next

LEMMA InitTimed ==
    ASSUME Init, Lobby.phase # "Countdown"
    PROVE  RunTimed
<1>1. auth.state = Lobby /\ auth.processed = {} /\ ingress = <<>> /\ held = <<>>
  BY DEF Init, NewAuthority
<1>2. TimerKept(auth, erred)
  BY <1>1 DEF TimerKept
<1>3. QueueInv(auth, ingress, held, issued)
  BY <1>1 DEF QueueInv, QueueSent, QueueOnce, QueueFresh
<1> QED
  BY <1>2, <1>3 DEF RunTimed

-----------------------------------------------------------------------------
(* Theorems.                                                               *)

LEMMA JournalInductive == Spec => []JournalInv
<1>1. Init => JournalInv
  BY InitKeeps
<1>2. JournalInv /\ [Next]_vars => JournalInv'
  <2> SUFFICES ASSUME JournalInv, [Next]_vars PROVE JournalInv'
    OBVIOUS
  <2>1. CASE Next
    BY <2>1, RunKeeps, ReplayKeeps DEF JournalInv
  <2>2. CASE UNCHANGED vars
    BY <2>2 DEF vars, JournalInv, RunTyped, Replaying, Fields
  <2> QED
    BY <2>1, <2>2
<1> QED
  BY <1>1, <1>2, PTL DEF Spec

(* Whatever is duplicated, reordered, lost, retried or expired and however *)
(* often the process restarts, the authority keeps a well formed session,  *)
(* timers and clock, and its queue stays in its bounds (commit_events,     *)
(* advance_clock_to, InProcessTransport).                                  *)
THEOREM AuthorityTypeCorrect == Spec => []TypeOK
<1>1. JournalInv => TypeOK
  <2> SUFFICES ASSUME JournalInv PROVE TypeOK
    OBVIOUS
  <2>1. StateInv(auth.state) => auth.state \in SessionStates
    BY DEF StateInv
  <2> QED
    BY <2>1 DEF JournalInv, RunTyped, AuthorityTyped, Replaying, TypeOK
<1> QED
  BY <1>1, JournalInductive, PTL

(* A journal that replays reproduces the authority exactly, clock command  *)
(* identifiers included, although routes come and go in the run and never  *)
(* in the replay; and it replays as long as no step returned an error      *)
(* (replay_journal, from_durable_recovery).                                *)
THEOREM JournalReproduces == Spec => []JournalReplays
<1>1. JournalInv => JournalReplays
  BY DEF JournalInv, Replaying, JournalReplays
<1> QED
  BY <1>1, JournalInductive, PTL

(* The session inside the authority takes no step that the reducer alone   *)
(* could not take: a change of auth.state is one authorized command or one *)
(* transport loss with its whole batch, also when one advance of the clock *)
(* delivers several expiries and when a restart rebuilds the session from  *)
(* its journal (commit_events, advance_clock_to, from_durable_recovery).   *)
THEOREM AuthorityRefinesSession == Spec => RefinesSession
<1>1. JournalInv /\ [Next]_vars => [auth'.state = auth.state \/ Reducer!Next]_vars
  BY NextSteps, StepOfReducer
<1> QED
  BY <1>1, JournalInductive, PTL DEF Spec, RefinesSession

LEMMA TimerInductive ==
    ASSUME Lobby.phase # "Countdown"
    PROVE  Spec => [](JournalInv /\ TimerInv)
<1>1. Init /\ JournalInv => TimerInv
  BY InitTimed DEF TimerInv
<1>2. JournalInv /\ TimerInv /\ [Next]_vars /\ JournalInv' => TimerInv'
  <2> SUFFICES ASSUME JournalInv, TimerInv, [Next]_vars, JournalInv',
                      retries' = MaxRetries
               PROVE  RunTimed'
    BY DEF TimerInv
  <2>1. CASE UNCHANGED vars
    BY <2>1 DEF vars, TimerInv, RunTimed
  <2>2. CASE Next
    <3>1. retries' = retries \/ retries' = retries - 1
      BY <2>2 DEF Next, Connect, Disconnect, Submit, Resubmit, DriveOne,
         AdvanceClock, Recover
    <3>2. retries \in 0 .. MaxRetries /\ MaxRetries \in Nat
      BY AuthorityAssumption DEF AuthorityAssumption, JournalInv, RunTyped
    <3>3. retries = MaxRetries /\ retries' = retries
      BY <3>1, <3>2
    <3> QED
      BY <2>2, <3>3, StepTimed DEF TimerInv
  <2> QED
    BY <2>1, <2>2
<1> QED
  BY <1>1, <1>2, JournalInductive, PTL DEF Spec

(* As long as no client has sent a command again, a countdown has its      *)
(* timer, at its deadline, whatever the transport duplicates, reorders or  *)
(* loses and however often the process restarts.  The one exception is a   *)
(* countdown past its deadline after a step that returned an error: an     *)
(* expiry that is denied, or that the game refuses, is drained all the     *)
(* same (commit_events, advance_clock_to).  No timer is scheduled for a    *)
(* countdown that the authority is built with, so it starts without one.   *)
THEOREM CountdownKeepsTimer ==
    ASSUME Lobby.phase # "Countdown"
    PROVE  Spec => [](retries = MaxRetries =>
                          \/ AuthorityInv
                          \/ erred /\ auth.state.deadline_tick <= auth.now)
<1>1. TypeOK /\ TimerInv => (retries = MaxRetries =>
                                \/ AuthorityInv
                                \/ erred /\ auth.state.deadline_tick <= auth.now)
  BY DEF TimerInv, RunTimed, TimerKept, AuthorityInv, CountdownHasTimer
<1> QED
  BY <1>1, TimerInductive, AuthorityTypeCorrect, PTL

(* Where clients do not send commands again, no game starts before logical *)
(* time has reached the deadline of its countdown, although tokens are     *)
(* armed again with other deadlines, commands are delivered twice and an   *)
(* advance may find several timers due (advance_clock_to,                  *)
(* decide_countdown_expired).  A retried ArmCountdown does start one early *)
(* (DuplicatesDoNotReapply), so the hypothesis is needed.                  *)
THEOREM NoGameStartsEarly ==
    ASSUME Lobby.phase # "Countdown", MaxRetries = 0
    PROVE  Spec => NoEarlyStart
<1>1. JournalInv /\ TimerInv /\ JournalInv' /\ [Next]_vars
          => [auth.state.phase = "Countdown" /\ auth'.state.phase = "Running"
                  => auth.state.deadline_tick <= auth'.now]_vars
  <2> SUFFICES ASSUME JournalInv, TimerInv, JournalInv', Next
               PROVE  StartsInTime(auth, auth')
    BY DEF StartsInTime
  <2>1. retries \in 0 .. MaxRetries /\ retries' \in 0 .. MaxRetries
    BY DEF JournalInv, RunTyped
  <2>2. retries = MaxRetries /\ retries' = retries
    BY <2>1
  <2> QED
    BY <2>2, StepTimed DEF TimerInv
<1> QED
  BY <1>1, TimerInductive, PTL DEF Spec, NoEarlyStart
=============================================================================
