-------------------------- MODULE RuntimeLogProofs --------------------------
(***************************************************************************)
(* Fork safety of the replicated runtime log for any number of players,    *)
(* replicas, devices, heights and restarts.  A content committed at a      *)
(* height was signed by a quorum of the membership before that height;     *)
(* two quorums of one membership share a player, who signs one content per *)
(* height.  So the second replica to reach a height commits what the       *)
(* ledger holds, whatever the parents, signers and proposers of its events *)
(* are.                                                                    *)
(***************************************************************************)
EXTENDS RuntimeLog, FiniteSetTheorems, TLAPS

LogFields == {"membership", "height", "head", "state", "committed", "buffered",
              "forked", "draining"}
EventFields == {"height", "epoch", "parent", "proposals", "batch_hash",
                "signers", "next", "successor"}

LogsTyped ==
    /\ DOMAIN logs = Replicas /\ logs = [r \in Replicas |-> logs[r]]
    /\ \A r \in Replicas :
          /\ DOMAIN logs[r] = LogFields
          /\ logs[r].membership \in Memberships
          /\ logs[r].height \in 0 .. MaxHeight
          /\ logs[r].forked \in BOOLEAN /\ logs[r].draining \in BOOLEAN
          /\ logs[r].committed \subseteq net /\ logs[r].buffered \subseteq net

EventsTyped ==
    \A e \in net :
        /\ DOMAIN e = EventFields
        /\ e.height \in 1 .. MaxHeight
        /\ e.signers \subseteq Players
        /\ e.next = None \/ e.next \in Memberships

LedgerTyped ==
    /\ \E S : ledger \in Seq(S)
    /\ Len(ledger) <= MaxHeight
    /\ \A h \in 1 .. Len(ledger) : ledger[h].membership \in Memberships

OneContent ==
    \A x, y \in signed : x[1] = y[1] /\ x[2] = y[2] => x[3] = y[3]

EventsSigned ==
    \A e \in net : \A p \in e.signers : <<p, e.height, Content(e)>> \in signed

(* A quorum of membership m signed content for height h.                   *)
QuorumSigned(votes, m, h, content) ==
    \E Q \in SUBSET m.players :
        /\ Cardinality(Q) >= quorum(m)
        /\ \A p \in Q : <<p, h, content>> \in votes

LedgerSigned ==
    \A h \in 1 .. Len(ledger) :
        /\ QuorumSigned(signed, MembershipAt(ledger, h - 1), h, ledger[h].content)
        /\ ledger[h].state =
              successor_hash(StateAt(ledger, h - 1), ledger[h].content[1],
                             ledger[h].content[2])
        /\ ledger[h].membership =
              IF ledger[h].content[2] = None THEN MembershipAt(ledger, h - 1)
              ELSE ledger[h].content[2]
LogInv ==
    /\ LogsTyped /\ EventsTyped /\ LedgerTyped /\ restores \in 0 .. MaxRestores
    /\ OneContent /\ EventsSigned /\ LedgerSigned
    /\ OneLedger

-----------------------------------------------------------------------------
(* Two quorums of one membership share a player (replicated_quorum).       *)
LEMMA QuorumsIntersect ==
    ASSUME NEW m \in Memberships, NEW Q \in SUBSET m.players,
           NEW R \in SUBSET m.players,
           Cardinality(Q) >= quorum(m), Cardinality(R) >= quorum(m)
    PROVE  \E p \in Q : p \in R
<1>1. m.players \subseteq Players /\ IsFiniteSet(Players)
  BY RuntimeLogAssumption DEF Memberships
<1>2. IsFiniteSet(m.players)
  BY <1>1, FS_Subset
<1>3. Cardinality(m.players) \in Nat /\ Cardinality(Q) \in Nat /\ Cardinality(R) \in Nat
  BY <1>2, FS_Subset, FS_CardinalityType
<1>4. Cardinality(Q) + Cardinality(R) > Cardinality(m.players)
  BY <1>3 DEF quorum
<1>5. Q \cap R # {}
  BY <1>2, <1>4, FS_MajoritiesIntersect
<1> QED
  BY <1>5

(* So a membership signs one content per height.                           *)
LEMMA OneQuorumContent ==
    ASSUME OneContent, NEW m \in Memberships, NEW h, NEW c, NEW d,
           QuorumSigned(signed, m, h, c), QuorumSigned(signed, m, h, d)
    PROVE  c = d
<1>1. PICK Q \in SUBSET m.players :
          Cardinality(Q) >= quorum(m) /\ \A p \in Q : <<p, h, c>> \in signed
  BY DEF QuorumSigned
<1>2. PICK R \in SUBSET m.players :
          Cardinality(R) >= quorum(m) /\ \A p \in R : <<p, h, d>> \in signed
  BY DEF QuorumSigned
<1>3. PICK p \in Q : p \in R
  BY <1>1, <1>2, QuorumsIntersect
<1>4. <<p, h, c>> \in signed /\ <<p, h, d>> \in signed
  BY <1>1, <1>2, <1>3
<1> QED
  BY <1>4 DEF OneContent

-----------------------------------------------------------------------------
(* What a replica may apply, the ledger holds or does not hold yet         *)
(* (apply_next).                                                           *)
LEMMA AppliedIsLedger ==
    ASSUME LogInv, NEW r \in Replicas, NEW log, NEW e \in net,
           DOMAIN log = LogFields, log.height = logs[r].height,
           log.membership = logs[r].membership, log.state = logs[r].state,
           Applies(log, e)
    PROVE  LET h == logs[r].height
               next == IF e.next = None THEN logs[r].membership ELSE e.next
           IN  /\ e.height = h + 1
               /\ h \in Nat /\ h <= Len(ledger) /\ h + 1 <= MaxHeight
               /\ QuorumSigned(signed, MembershipAt(ledger, h), h + 1, Content(e))
               /\ e.successor = successor_hash(StateAt(ledger, h), e.batch_hash, e.next)
               /\ Applied(log, e).membership = next
               /\ next \in Memberships
               /\ h < Len(ledger) => /\ e.successor = StateAt(ledger, h + 1)
                                     /\ next = MembershipAt(ledger, h + 1)
<1> DEFINE h == logs[r].height
           next == IF e.next = None THEN logs[r].membership ELSE e.next
<1>1. /\ h \in 0 .. MaxHeight /\ h <= Len(ledger)
      /\ logs[r].state = StateAt(ledger, h) /\ logs[r].membership = MembershipAt(ledger, h)
      /\ MembershipAt(ledger, h) \in Memberships /\ Len(ledger) \in Nat
  BY DEF LogInv, LogsTyped, OneLedger, LedgerTyped
<1>2. /\ e.height = h + 1 /\ e.height \in 1 .. MaxHeight
      /\ e.signers \subseteq MembershipAt(ledger, h).players
      /\ Cardinality(e.signers) >= quorum(MembershipAt(ledger, h))
      /\ e.successor = successor_hash(StateAt(ledger, h), e.batch_hash, e.next)
  BY <1>1 DEF Applies, validate_certified_event, LogInv, EventsTyped
<1>3. QuorumSigned(signed, MembershipAt(ledger, h), h + 1, Content(e))
  <2>1. \A p \in e.signers : <<p, h + 1, Content(e)>> \in signed
    BY <1>2 DEF LogInv, EventsSigned
  <2> QED
    BY <1>2, <2>1 DEF QuorumSigned
<1>4. Applied(log, e).membership = next
  BY DEF Applied, LogFields
<1>5. next \in Memberships
  BY <1>1 DEF LogInv, EventsTyped
<1>6. ASSUME h < Len(ledger)
      PROVE  e.successor = StateAt(ledger, h + 1) /\ next = MembershipAt(ledger, h + 1)
  <2>1. /\ h + 1 \in 1 .. Len(ledger) /\ (h + 1) - 1 = h /\ h + 1 # 0
        /\ StateAt(ledger, h + 1) = ledger[h + 1].state
        /\ MembershipAt(ledger, h + 1) = ledger[h + 1].membership
    BY <1>1, <1>6 DEF StateAt, MembershipAt
  <2>2. /\ QuorumSigned(signed, MembershipAt(ledger, h), h + 1, ledger[h + 1].content)
        /\ ledger[h + 1].state = successor_hash(StateAt(ledger, h),
                 ledger[h + 1].content[1], ledger[h + 1].content[2])
        /\ ledger[h + 1].membership =
              IF ledger[h + 1].content[2] = None THEN MembershipAt(ledger, h)
              ELSE ledger[h + 1].content[2]
    BY <2>1 DEF LogInv, LedgerSigned
  <2>3. Content(e) = ledger[h + 1].content
    BY <1>1, <1>3, <2>2, OneQuorumContent DEF LogInv
  <2>4. ledger[h + 1].content[1] = e.batch_hash /\ ledger[h + 1].content[2] = e.next
    BY <2>3 DEF Content
  <2> QED
    BY <1>1, <1>2, <2>1, <2>2, <2>4
<1> QED
  BY <1>1, <1>2, <1>3, <1>4, <1>5, <1>6
(* Facts about the ledger that a step keeps when it appends at most one    *)
(* entry.                                                                  *)
LEMMA LedgerGrows ==
    ASSUME LogInv, NEW x, ledger' = Append(ledger, x)
    PROVE  /\ \E S : ledger' \in Seq(S)
           /\ Len(ledger') = Len(ledger) + 1 /\ Len(ledger) \in Nat
           /\ ledger'[Len(ledger) + 1] = x
           /\ \A h \in 1 .. Len(ledger) : ledger'[h] = ledger[h]
           /\ \A h \in 0 .. Len(ledger) :
                 StateAt(ledger', h) = StateAt(ledger, h) /\ MembershipAt(ledger', h) = MembershipAt(ledger, h)
<1>1. PICK S : ledger \in Seq(S)
  BY DEF LogInv, LedgerTyped
<1>2. ledger \in Seq(S \cup {x})
  BY <1>1
<1>3. ledger' \in Seq(S \cup {x})
  BY <1>2
<1>4. /\ Len(ledger') = Len(ledger) + 1 /\ Len(ledger) \in Nat
      /\ ledger'[Len(ledger) + 1] = x
      /\ \A h \in 1 .. Len(ledger) : ledger'[h] = ledger[h]
  BY <1>2
<1>5. ASSUME NEW h \in 0 .. Len(ledger)
      PROVE  StateAt(ledger', h) = StateAt(ledger, h) /\ MembershipAt(ledger', h) = MembershipAt(ledger, h)
  <2>1. h = 0 \/ h \in 1 .. Len(ledger)
    BY <1>4
  <2> QED
    BY <1>4, <2>1 DEF StateAt, MembershipAt
<1> QED
  BY <1>3, <1>4, <1>5

(* Applying an event keeps the invariant: the ledger grows by what the     *)
(* event says or already says it.                                          *)
LEMMA CommitKeeps ==
    ASSUME LogInv, NEW r \in Replicas, NEW log, NEW e \in net,
           DOMAIN log = LogFields, log.height = logs[r].height,
           log.membership = logs[r].membership, log.state = logs[r].state,
           log.forked \in BOOLEAN, log.committed \subseteq net,
           log.buffered \subseteq net,
           Commit(r, log, e), UNCHANGED <<net, signed, restores>>
    PROVE  LogInv'
<1> DEFINE h == logs[r].height
           next == IF e.next = None THEN logs[r].membership ELSE e.next
           entry == [content |-> Content(e), state |-> e.successor,
                     membership |-> next]
<1>1. Applies(log, e) /\ logs' = [logs EXCEPT ![r] = Applied(log, e)] /\ Record(log, e)
  BY DEF Commit
<1>2. /\ e.height = h + 1 /\ h \in Nat /\ h <= Len(ledger) /\ h + 1 <= MaxHeight
      /\ QuorumSigned(signed, MembershipAt(ledger, h), h + 1, Content(e))
      /\ e.successor = successor_hash(StateAt(ledger, h), e.batch_hash, e.next)
      /\ Applied(log, e).membership = next /\ next \in Memberships
      /\ h < Len(ledger) => e.successor = StateAt(ledger, h + 1) /\ next = MembershipAt(ledger, h + 1)
  BY <1>1, AppliedIsLedger
<1>3. /\ DOMAIN Applied(log, e) = LogFields
      /\ Applied(log, e).height = e.height /\ Applied(log, e).state = e.successor
      /\ Applied(log, e).forked = log.forked /\ Applied(log, e).draining = TRUE
      /\ Applied(log, e).committed = log.committed \cup {e}
      /\ Applied(log, e).buffered = log.buffered
  BY DEF Applied, LogFields
<1>4. LogsTyped'
  <2>1. /\ DOMAIN logs' = Replicas /\ logs' = [s \in Replicas |-> logs'[s]]
        /\ logs'[r] = Applied(log, e)
        /\ \A s \in Replicas : s # r => logs'[s] = logs[s]
    BY <1>1 DEF LogInv, LogsTyped
  <2>2. h + 1 \in 0 .. MaxHeight
    BY <1>2, RuntimeLogAssumption
  <2>3. /\ Applied(log, e).membership \in Memberships
        /\ Applied(log, e).height \in 0 .. MaxHeight
        /\ Applied(log, e).forked \in BOOLEAN /\ Applied(log, e).draining \in BOOLEAN
        /\ Applied(log, e).committed \subseteq net'
        /\ Applied(log, e).buffered \subseteq net'
    BY <1>2, <1>3, <2>2
  <2> QED
    BY <1>3, <2>1, <2>3 DEF LogInv, LogsTyped
<1>5. EventsTyped' /\ OneContent' /\ EventsSigned' /\ restores' \in 0 .. MaxRestores
  BY DEF LogInv, EventsTyped, OneContent, EventsSigned, Content
<1>6. CASE h < Len(ledger)
  <2>1. UNCHANGED ledger
    BY <1>1, <1>2, <1>6 DEF Record, LogInv, LedgerTyped
  <2>2. LedgerTyped' /\ LedgerSigned'
    BY <2>1 DEF LogInv, LedgerTyped, LedgerSigned, QuorumSigned, MembershipAt, StateAt
  <2>3. /\ \A k : StateAt(ledger', k) = StateAt(ledger, k) /\ MembershipAt(ledger', k) = MembershipAt(ledger, k)
        /\ Len(ledger') = Len(ledger) /\ Len(ledger) \in Nat
    BY <2>1 DEF StateAt, MembershipAt, LogInv, LedgerTyped
  <2>4. OneLedger'
    <3> SUFFICES ASSUME NEW s \in Replicas
                 PROVE  LET k == logs'[s].height
                        IN  /\ k <= Len(ledger') /\ logs'[s].state = StateAt(ledger', k)
                            /\ logs'[s].membership = MembershipAt(ledger', k)
      BY DEF OneLedger, StateAt, MembershipAt
    <3>1. CASE s = r
      <4>1. logs'[r] = Applied(log, e)
        BY <1>1 DEF LogInv, LogsTyped
      <4> QED
        BY <1>2, <1>3, <1>6, <2>3, <3>1, <4>1
    <3>2. CASE s # r
      <4>1. logs'[s] = logs[s]
        BY <1>1, <3>2 DEF LogInv, LogsTyped
      <4> QED
        BY <2>3, <4>1 DEF LogInv, OneLedger
    <3> QED
      BY <3>1, <3>2
  <2> QED
    BY <1>4, <1>5, <2>2, <2>4 DEF LogInv
<1>7. CASE h = Len(ledger)
  <2>1. ledger' = Append(ledger, entry)
    BY <1>1, <1>2, <1>7 DEF Record
  <2>2. /\ \E S : ledger' \in Seq(S)
        /\ Len(ledger') = h + 1
        /\ ledger'[h + 1] = entry
        /\ \A k \in 1 .. h : ledger'[k] = ledger[k]
        /\ \A k \in 0 .. h : StateAt(ledger', k) = StateAt(ledger, k) /\ MembershipAt(ledger', k) = MembershipAt(ledger, k)
    BY <1>7, <2>1, LedgerGrows
  <2>3. StateAt(ledger', h + 1) = e.successor /\ MembershipAt(ledger', h + 1) = next
    BY <1>2, <2>2 DEF StateAt, MembershipAt
  <2>4. LedgerTyped'
    <3>1. \A k \in 1 .. h + 1 : ledger'[k].membership \in Memberships
      <4> SUFFICES ASSUME NEW k \in 1 .. h + 1
                   PROVE  ledger'[k].membership \in Memberships
        OBVIOUS
      <4>1. k = h + 1 \/ k \in 1 .. h
        BY <1>2
      <4> QED
        BY <1>2, <1>7, <2>2, <4>1 DEF LogInv, LedgerTyped
    <3> QED
      BY <1>2, <2>2, <3>1 DEF LedgerTyped
  <2>5. LedgerSigned'
    <3> SUFFICES ASSUME NEW k \in 1 .. h + 1
                 PROVE  /\ QuorumSigned(signed', MembershipAt(ledger', k - 1), k, ledger'[k].content)
                        /\ ledger'[k].state =
                              successor_hash(StateAt(ledger', k - 1), ledger'[k].content[1],
                                             ledger'[k].content[2])
                        /\ ledger'[k].membership =
                              IF ledger'[k].content[2] = None THEN MembershipAt(ledger', k - 1)
                              ELSE ledger'[k].content[2]
      BY <2>2 DEF LedgerSigned
    <3>1. signed' = signed
      OBVIOUS
    <3>2. CASE k = h + 1
      <4>1. (h + 1) - 1 = h /\ MembershipAt(ledger', h) = MembershipAt(ledger, h) /\ StateAt(ledger', h) = StateAt(ledger, h)
        BY <1>2, <2>2
      <4>2. ledger'[k].content = Content(e) /\ ledger'[k].state = e.successor
            /\ ledger'[k].membership = next
        BY <2>2, <3>2
      <4>3. Content(e)[1] = e.batch_hash /\ Content(e)[2] = e.next
        BY DEF Content
      <4>4. logs[r].membership = MembershipAt(ledger, h)
        BY DEF LogInv, OneLedger
      <4> QED
        BY <1>2, <3>1, <3>2, <4>1, <4>2, <4>3, <4>4
    <3>3. CASE k \in 1 .. h
      <4>1. k - 1 \in 0 .. h
        BY <1>2, <3>3
      <4>2. /\ QuorumSigned(signed, MembershipAt(ledger, k - 1), k, ledger[k].content)
            /\ ledger[k].state = successor_hash(StateAt(ledger, k - 1), ledger[k].content[1],
                                                ledger[k].content[2])
            /\ ledger[k].membership =
                  IF ledger[k].content[2] = None THEN MembershipAt(ledger, k - 1)
                  ELSE ledger[k].content[2]
        BY <1>7, <3>3 DEF LogInv, LedgerSigned
      <4> QED
        BY <2>2, <3>1, <3>3, <4>1, <4>2
    <3> QED
      BY <1>2, <3>2, <3>3
  <2>6. OneLedger'
    <3> SUFFICES ASSUME NEW s \in Replicas
                 PROVE  LET k == logs'[s].height
                        IN  /\ k <= Len(ledger') /\ logs'[s].state = StateAt(ledger', k)
                            /\ logs'[s].membership = MembershipAt(ledger', k)
      BY DEF OneLedger, StateAt, MembershipAt
    <3>1. CASE s = r
      <4>1. logs'[r] = Applied(log, e)
        BY <1>1 DEF LogInv, LogsTyped
      <4> QED
        BY <1>2, <1>3, <2>2, <2>3, <3>1, <4>1
    <3>2. CASE s # r
      <4>1. logs'[s] = logs[s]
        BY <1>1, <3>2 DEF LogInv, LogsTyped
      <4>2. logs[s].height \in 0 .. h
        BY <1>7 DEF LogInv, LogsTyped, OneLedger
      <4> QED
        BY <1>2, <2>2, <4>1, <4>2 DEF LogInv, OneLedger
    <3> QED
      BY <3>1, <3>2
  <2> QED
    BY <1>4, <1>5, <2>4, <2>5, <2>6 DEF LogInv
<1> QED
  BY <1>2, <1>6, <1>7
(* A replica that only changes its buffer and flags, or becomes another    *)
(* replica's snapshot, keeps the invariant.                                *)
LEMMA ReplicaKeeps ==
    ASSUME LogInv, NEW r \in Replicas, NEW s \in Replicas, NEW log,
           DOMAIN log = LogFields, log.height = logs[s].height,
           log.membership = logs[s].membership, log.state = logs[s].state,
           log.forked \in BOOLEAN, log.draining \in BOOLEAN,
           log.committed \subseteq net, log.buffered \subseteq net,
           logs' = [logs EXCEPT ![r] = log], UNCHANGED <<net, signed, ledger>>,
           restores' \in 0 .. MaxRestores
    PROVE  LogInv'
<1>1. /\ DOMAIN logs' = Replicas /\ logs' = [t \in Replicas |-> logs'[t]]
      /\ logs'[r] = log /\ \A t \in Replicas : t # r => logs'[t] = logs[t]
  BY DEF LogInv, LogsTyped
<1>2. LogsTyped'
  BY <1>1 DEF LogInv, LogsTyped
<1>3. EventsTyped' /\ LedgerTyped' /\ OneContent' /\ EventsSigned' /\ LedgerSigned'
  BY DEF LogInv, EventsTyped, LedgerTyped, OneContent, EventsSigned, LedgerSigned,
         Content
<1>4. OneLedger'
  BY <1>1 DEF LogInv, OneLedger
<1> QED
  BY <1>2, <1>3, <1>4 DEF LogInv

(* An event that its signers signed, each of them for one content, may be  *)
(* sent.                                                                   *)
LEMMA SendKeeps ==
    ASSUME LogInv, NEW e, DOMAIN e = EventFields, e.height \in 1 .. MaxHeight,
           e.signers \subseteq Players, e.next = None \/ e.next \in Memberships,
           net' = net \cup {e}, signed \subseteq signed', OneContent',
           \A p \in e.signers : <<p, e.height, Content(e)>> \in signed',
           UNCHANGED <<logs, ledger, restores>>
    PROVE  LogInv'
<1>1. LogsTyped' /\ EventsTyped' /\ LedgerTyped'
  BY DEF LogInv, LogsTyped, EventsTyped, LedgerTyped
<1>2. EventsSigned'
  BY DEF LogInv, EventsSigned, Content
<1>3. \A m, h, c : QuorumSigned(signed, m, h, c) => QuorumSigned(signed', m, h, c)
  BY DEF QuorumSigned
<1>4. LedgerSigned'
  BY <1>3 DEF LogInv, LedgerSigned
<1>5. OneLedger'
  BY DEF LogInv, OneLedger
<1> QED
  BY <1>1, <1>2, <1>4, <1>5 DEF LogInv

LEMMA CertifyKeeps ==
    ASSUME LogInv, NEW r \in Replicas, NEW pool, NEW signers \in SignerSets,
           NEW next \in NextMemberships(logs[r]), Certify(r, pool, signers, next)
    PROVE  LogInv'
<1> DEFINE e == certify_event(logs[r], pool, signers, next)
<1>1. /\ DOMAIN e = EventFields /\ e.height = logs[r].height + 1
      /\ e.signers = signers /\ e.next = next
  BY DEF certify_event, EventFields
<1>2. logs[r].height \in 0 .. MaxHeight /\ logs[r].membership \in Memberships
  BY DEF LogInv, LogsTyped
<1>3. e.height \in 1 .. MaxHeight
  BY <1>1, <1>2, RuntimeLogAssumption DEF Certify
<1>4. e.signers \subseteq Players
  BY <1>1, RuntimeLogAssumption
<1>5. next = None \/ next \in Memberships
  BY <1>2 DEF NextMemberships, Memberships
<1>6. /\ net' = net \cup {e}
      /\ signed' = signed \cup {<<p, e.height, Content(e)>> : p \in signers}
      /\ \A p \in signers : MaySign(p, e.height, Content(e))
      /\ UNCHANGED <<logs, ledger, restores>>
  BY DEF Certify
<1> HIDE DEF e
<1>7. OneContent'
  <2> SUFFICES ASSUME NEW x \in signed', NEW y \in signed', x[1] = y[1], x[2] = y[2]
               PROVE  x[3] = y[3]
    BY DEF OneContent
  <2>1. ASSUME NEW z \in signed', z \notin signed
        PROVE  z[1] \in signers /\ z[2] = e.height /\ z[3] = Content(e)
    <3>1. PICK p \in signers : z = <<p, e.height, Content(e)>>
      BY <1>6, <2>1
    <3> QED
      BY <3>1
  <2>2. CASE x \in signed /\ y \in signed
    BY <2>2 DEF LogInv, OneContent
  <2>3. CASE x \in signed /\ y \notin signed
    BY <1>6, <2>1, <2>3 DEF MaySign
  <2>4. CASE x \notin signed /\ y \in signed
    BY <1>6, <2>1, <2>4 DEF MaySign
  <2>5. CASE x \notin signed /\ y \notin signed
    BY <2>1, <2>5
  <2> QED
    BY <2>2, <2>3, <2>4, <2>5
<1>8. \A p \in e.signers : <<p, e.height, Content(e)>> \in signed'
  BY <1>1, <1>6
<1> QED
  BY <1>1, <1>3, <1>4, <1>5, <1>6, <1>7, <1>8, SendKeeps

LEMMA TruncateKeeps ==
    ASSUME LogInv, NEW e \in net, NEW p, Truncate(e, p)
    PROVE  LogInv'
<1> DEFINE f == [e EXCEPT !.signers = @ \ {p}]
<1>1. /\ DOMAIN e = EventFields /\ e.height \in 1 .. MaxHeight
      /\ e.signers \subseteq Players /\ (e.next = None \/ e.next \in Memberships)
      /\ \A q \in e.signers : <<q, e.height, Content(e)>> \in signed
  BY DEF LogInv, EventsTyped, EventsSigned
<1>2. /\ DOMAIN f = EventFields /\ f.height = e.height /\ f.next = e.next
      /\ f.batch_hash = e.batch_hash /\ f.signers \subseteq e.signers
  BY <1>1 DEF EventFields
<1>3. net' = net \cup {f} /\ UNCHANGED <<logs, signed, ledger, restores>>
  BY DEF Truncate
<1> HIDE DEF f
<1>4. OneContent' /\ Content(f) = Content(e)
  BY <1>2, <1>3 DEF LogInv, OneContent, Content
<1>5. \A q \in f.signers : <<q, f.height, Content(f)>> \in signed'
  BY <1>1, <1>2, <1>3, <1>4
<1> QED
  BY <1>1, <1>2, <1>3, <1>4, <1>5, SendKeeps

(* ingest, with the loop that drains the buffer.                           *)
LEMMA IngestKeeps ==
    ASSUME LogInv, NEW r \in Replicas, NEW e \in net, Ingest(r, e)
    PROVE  LogInv'
<1>0. /\ DOMAIN logs[r] = LogFields /\ logs[r].forked \in BOOLEAN
      /\ logs[r].draining \in BOOLEAN /\ logs[r].committed \subseteq net
      /\ logs[r].buffered \subseteq net /\ restores \in 0 .. MaxRestores
  BY DEF LogInv, LogsTyped
<1>1. CASE IngestCommitted(r, e)
  <2> DEFINE log == [logs[r] EXCEPT !.forked = TRUE]
  <2>1. logs' = [logs EXCEPT ![r] = log] /\ UNCHANGED <<net, signed, ledger, restores>>
    BY <1>1 DEF IngestCommitted
  <2>2. /\ DOMAIN log = LogFields /\ log.height = logs[r].height
        /\ log.membership = logs[r].membership /\ log.state = logs[r].state
        /\ log.forked \in BOOLEAN /\ log.draining = logs[r].draining
        /\ log.committed = logs[r].committed /\ log.buffered = logs[r].buffered
    BY <1>0 DEF LogFields
  <2> HIDE DEF log
  <2> QED
    BY <1>0, <2>1, <2>2, ReplicaKeeps
<1>2. CASE IngestFuture(r, e)
  <2> DEFINE log == [logs[r] EXCEPT !.buffered = @ \cup {e}]
  <2>1. logs' = [logs EXCEPT ![r] = log] /\ UNCHANGED <<net, signed, ledger, restores>>
    BY <1>2 DEF IngestFuture
  <2>2. /\ DOMAIN log = LogFields /\ log.height = logs[r].height
        /\ log.membership = logs[r].membership /\ log.state = logs[r].state
        /\ log.forked = logs[r].forked /\ log.draining = logs[r].draining
        /\ log.committed = logs[r].committed
        /\ log.buffered = logs[r].buffered \cup {e}
    BY <1>0 DEF LogFields
  <2> HIDE DEF log
  <2>3. log.buffered \subseteq net
    BY <1>0, <2>2
  <2> QED
    BY <1>0, <2>1, <2>2, <2>3, ReplicaKeeps
<1>3. CASE IngestNext(r, e)
  BY <1>0, <1>3, CommitKeeps DEF IngestNext
<1> QED
  BY <1>1, <1>2, <1>3 DEF Ingest

LEMMA DrainKeeps ==
    ASSUME LogInv, NEW r \in Replicas, Drain(r)
    PROVE  LogInv'
<1> DEFINE log == Taken(logs[r])
<1>0. /\ DOMAIN logs[r] = LogFields /\ logs[r].forked \in BOOLEAN
      /\ logs[r].draining \in BOOLEAN /\ logs[r].committed \subseteq net
      /\ logs[r].buffered \subseteq net /\ restores \in 0 .. MaxRestores
  BY DEF LogInv, LogsTyped
<1>1. /\ DOMAIN log = LogFields /\ log.height = logs[r].height
      /\ log.membership = logs[r].membership /\ log.state = logs[r].state
      /\ log.forked = logs[r].forked /\ log.committed = logs[r].committed
      /\ log.buffered \subseteq logs[r].buffered
  BY <1>0 DEF Taken, LogFields
<1>2. log.buffered \subseteq net /\ log.committed \subseteq net /\ log.forked \in BOOLEAN
  BY <1>0, <1>1
<1> HIDE DEF log
<1>3. ASSUME NEW e \in logs[r].buffered, DrainOne(r, e)
      PROVE  LogInv'
  <2>1. e \in net /\ Commit(r, log, e) /\ UNCHANGED <<net, signed, restores>>
    BY <1>0, <1>3 DEF DrainOne, log
  <2> QED
    BY <1>1, <1>2, <2>1, CommitKeeps
<1>4. ASSUME NEW e \in logs[r].buffered, DrainRefused(r, e)
      PROVE  LogInv'
  <2> DEFINE new == [log EXCEPT !.draining = FALSE]
  <2>1. logs' = [logs EXCEPT ![r] = new] /\ UNCHANGED <<net, signed, ledger, restores>>
    BY <1>4 DEF DrainRefused, log
  <2>2. /\ DOMAIN new = LogFields /\ new.height = logs[r].height
        /\ new.membership = logs[r].membership /\ new.state = logs[r].state
        /\ new.forked = log.forked /\ new.draining = FALSE
        /\ new.committed = log.committed /\ new.buffered = log.buffered
    BY <1>1 DEF LogFields
  <2> HIDE DEF new
  <2> QED
    BY <1>0, <1>2, <2>1, <2>2, ReplicaKeeps
<1>5. CASE DrainFork(r)
  <2> DEFINE new == [log EXCEPT !.forked = TRUE, !.draining = FALSE]
  <2>1. logs' = [logs EXCEPT ![r] = new] /\ UNCHANGED <<net, signed, ledger, restores>>
    BY <1>5 DEF DrainFork, log
  <2>2. /\ DOMAIN new = LogFields /\ new.height = logs[r].height
        /\ new.membership = logs[r].membership /\ new.state = logs[r].state
        /\ new.forked = TRUE /\ new.draining = FALSE
        /\ new.committed = log.committed /\ new.buffered = log.buffered
    BY <1>1 DEF LogFields
  <2> HIDE DEF new
  <2> QED
    BY <1>0, <1>2, <2>1, <2>2, ReplicaKeeps
<1>6. CASE DrainDone(r)
  <2> DEFINE new == [logs[r] EXCEPT !.draining = FALSE]
  <2>1. logs' = [logs EXCEPT ![r] = new] /\ UNCHANGED <<net, signed, ledger, restores>>
    BY <1>6 DEF DrainDone
  <2>2. /\ DOMAIN new = LogFields /\ new.height = logs[r].height
        /\ new.membership = logs[r].membership /\ new.state = logs[r].state
        /\ new.forked = logs[r].forked /\ new.draining = FALSE
        /\ new.committed = logs[r].committed /\ new.buffered = logs[r].buffered
    BY <1>0 DEF LogFields
  <2> HIDE DEF new
  <2> QED
    BY <1>0, <2>1, <2>2, ReplicaKeeps
<1> QED
  BY <1>3, <1>4, <1>5, <1>6 DEF Drain

LEMMA RestoreKeeps ==
    ASSUME LogInv, NEW r \in Replicas, NEW s \in Replicas, Restore(r, s)
    PROVE  LogInv'
<1> DEFINE log == from_snapshot(logs[s])
<1>1. /\ logs' = [logs EXCEPT ![r] = log] /\ UNCHANGED <<net, signed, ledger>>
      /\ restores' = restores + 1 /\ restores < MaxRestores
  BY DEF Restore
<1>2. DOMAIN logs[s] = LogFields /\ restores \in 0 .. MaxRestores
  BY DEF LogInv, LogsTyped
<1>3. /\ DOMAIN log = LogFields /\ log.height = logs[s].height
      /\ log.membership = logs[s].membership /\ log.state = logs[s].state
      /\ log.forked = FALSE /\ log.draining = FALSE
      /\ log.committed = {} /\ log.buffered = {}
  BY <1>2 DEF from_snapshot, LogFields
<1>4. restores' \in 0 .. MaxRestores
  BY <1>1, <1>2, RuntimeLogAssumption
<1> HIDE DEF log
<1> QED
  BY <1>1, <1>3, <1>4, ReplicaKeeps

LEMMA InitHolds == Init => LogInv
<1> SUFFICES ASSUME Init PROVE LogInv
  OBVIOUS
<1>1. /\ DOMAIN NewLog = LogFields /\ NewLog.height = 0 /\ NewLog.state = Genesis
      /\ NewLog.forked = FALSE /\ NewLog.draining = FALSE
      /\ NewLog.committed = {} /\ NewLog.buffered = {}
      /\ NewLog.membership = [epoch |-> 1, players |-> GenesisRoster]
  BY DEF NewLog, LogFields
<1>2. NewLog.membership \in Memberships
  BY <1>1, RuntimeLogAssumption DEF Memberships
<1>3. LogsTyped
  <2>1. logs = [r \in Replicas |-> NewLog] /\ \A r \in Replicas : logs[r] = NewLog
    BY DEF Init
  <2>2. DOMAIN logs = Replicas /\ logs = [r \in Replicas |-> logs[r]]
    BY <2>1
  <2>3. 0 \in 0 .. MaxHeight
    BY RuntimeLogAssumption
  <2> QED
    BY <1>1, <1>2, <2>1, <2>2, <2>3 DEF LogsTyped
<1>4. EventsTyped /\ OneContent /\ EventsSigned /\ restores \in 0 .. MaxRestores
  BY RuntimeLogAssumption DEF Init, EventsTyped, OneContent, EventsSigned
<1>5. LedgerTyped /\ LedgerSigned
  <2>1. ledger = <<>> /\ ledger \in Seq({}) /\ Len(ledger) = 0
    BY DEF Init
  <2>2. 1 .. Len(ledger) = {}
    BY <2>1
  <2> QED
    BY <2>1, <2>2, RuntimeLogAssumption DEF LedgerTyped, LedgerSigned
<1>6. OneLedger
  BY <1>1 DEF Init, OneLedger, StateAt, MembershipAt
<1> QED
  BY <1>3, <1>4, <1>5, <1>6 DEF LogInv

LEMMA NextKeeps == LogInv /\ [Next]_vars => LogInv'
<1> SUFFICES ASSUME LogInv, [Next]_vars PROVE LogInv'
  OBVIOUS
<1>1. CASE UNCHANGED vars
  BY <1>1 DEF vars, LogInv, LogsTyped, EventsTyped, LedgerTyped, OneContent,
              EventsSigned, LedgerSigned, OneLedger, Content
<1>2. ASSUME NEW r \in Replicas, NEW pool \in Pools(logs[r].membership),
             NEW signers \in SignerSets, NEW next \in NextMemberships(logs[r]),
             Certify(r, pool, signers, next)
      PROVE  LogInv'
  BY <1>2, CertifyKeeps
<1>3. ASSUME NEW e \in net, NEW p \in Players, Truncate(e, p)
      PROVE  LogInv'
  BY <1>3, TruncateKeeps
<1>4. ASSUME NEW r \in Replicas, NEW e \in net, Ingest(r, e)
      PROVE  LogInv'
  BY <1>4, IngestKeeps
<1>5. ASSUME NEW r \in Replicas, Drain(r)
      PROVE  LogInv'
  BY <1>5, DrainKeeps
<1>6. ASSUME NEW r \in Replicas, NEW s \in Replicas, Restore(r, s)
      PROVE  LogInv'
  BY <1>6, RestoreKeeps
<1> QED
  BY <1>1, <1>2, <1>3, <1>4, <1>5, <1>6 DEF Next

LEMMA LogInvHolds == Spec => []LogInv
<1> QED
  BY InitHolds, NextKeeps, PTL DEF Spec

(* Fork safety: no two replicas ever hold different states or memberships  *)
(* at one height, for any number of players and whatever was delivered     *)
(* (ReplicatedRuntimeLog::ingest and from_snapshot).                       *)
THEOREM ForkSafety == Spec => []OneLedger
<1>1. LogInv => OneLedger
  BY DEF LogInv
<1> QED
  BY <1>1, LogInvHolds, PTL

-----------------------------------------------------------------------------
(* The order of one log.                                                   *)

InOrder(log) == Chained(log) /\ BufferIsAhead(log)

(* Applying the next event adds a link to the chain (apply_next).          *)
LEMMA AppliedInOrder ==
    ASSUME NEW log, NEW e, DOMAIN log = LogFields, log.height \in Nat,
           \A f \in log.committed \cup log.buffered : f.height \in Nat,
           Chained(log), \A f \in log.buffered : f.height > log.height + 1,
           e.height = log.height + 1, e.parent = log.head
    PROVE  InOrder(Applied(log, e))
<1> DEFINE new == Applied(log, e)
<1>1. /\ new.height = log.height + 1 /\ new.head = runtime_event_hash(e)
      /\ new.committed = log.committed \cup {e} /\ new.buffered = log.buffered
      /\ new.draining = TRUE
  BY DEF Applied, LogFields
<1> HIDE DEF new
<1>2. BufferIsAhead(new)
  BY <1>1 DEF BufferIsAhead
<1>3. \A f \in log.committed : f.height <= log.height /\ f.height \in Nat
  BY DEF Chained
<1>4. ASSUME NEW f \in new.committed
      PROVE  /\ f.height <= new.height
             /\ IF f.height = new.height THEN new.head = runtime_event_hash(f)
                ELSE \E g \in new.committed : g.height = f.height + 1
  <2>1. CASE f = e
    BY <1>1, <2>1
  <2>2. CASE f \in log.committed /\ f.height = log.height
    BY <1>1, <1>3, <2>2
  <2>3. CASE f \in log.committed /\ f.height # log.height
    <3>1. PICK g \in log.committed : g.height = f.height + 1
      BY <2>3 DEF Chained
    <3> QED
      BY <1>1, <1>3, <2>3, <3>1
  <2> QED
    BY <1>1, <2>1, <2>2, <2>3
<1>5. ASSUME NEW f \in new.committed, NEW g \in new.committed
      PROVE  /\ f.height = g.height => f = g
             /\ g.height = f.height + 1 => g.parent = runtime_event_hash(f)
  <2>1. CASE f \in log.committed /\ g \in log.committed
    BY <2>1 DEF Chained
  <2>2. CASE f = e
    BY <1>1, <1>3, <2>2
  <2>3. CASE f \in log.committed /\ g = e
    <3>1. f.height # g.height
      BY <1>3, <2>3
    <3>2. ASSUME g.height = f.height + 1
          PROVE  g.parent = runtime_event_hash(f)
      <4>1. f.height = log.height
        BY <1>3, <2>3, <3>2
      <4> QED
        BY <2>3, <4>1 DEF Chained
    <3> QED
      BY <3>1, <3>2
  <2> QED
    BY <1>1, <2>1, <2>2, <2>3
<1>6. Chained(new)
  BY <1>4, <1>5 DEF Chained
<1> QED
  BY <1>2, <1>6 DEF InOrder, new

(* A log that keeps its chain is in order when its buffer is ahead.        *)
LEMMA SameChain ==
    ASSUME NEW log, NEW new, Chained(log), new.height = log.height,
           new.head = log.head, new.committed = log.committed
    PROVE  Chained(new)
<1> QED
  BY DEF Chained

(* What the types give of a replica and its events.                        *)
LEMMA ReplicaTyped ==
    ASSUME LogInv, NEW r \in Replicas
    PROVE  /\ DOMAIN logs = Replicas /\ DOMAIN logs[r] = LogFields
           /\ logs[r].height \in Nat
           /\ \A e \in net : e.height \in Nat
           /\ \A e \in logs[r].committed \cup logs[r].buffered : e.height \in Nat
<1>1. \A e \in net : e.height \in 1 .. MaxHeight
  BY DEF LogInv, EventsTyped
<1>2. logs[r].height \in 0 .. MaxHeight
  BY DEF LogInv, LogsTyped
<1>3. logs[r].height \in Nat /\ \A e \in net : e.height \in Nat
  BY <1>1, <1>2, RuntimeLogAssumption
<1> QED
  BY <1>3 DEF LogInv, LogsTyped

(* What leaves the buffer for the next height (ingest).                    *)
LEMMA TakenIsAhead ==
    ASSUME LogInv, LogInOrder, NEW r \in Replicas
    PROVE  LET log == Taken(logs[r])
           IN  /\ DOMAIN log = LogFields /\ log.height = logs[r].height
               /\ log.head = logs[r].head /\ log.committed = logs[r].committed
               /\ log.membership = logs[r].membership /\ log.state = logs[r].state
               /\ log.buffered \subseteq logs[r].buffered
               /\ \A e \in log.buffered : e.height > log.height + 1
               /\ Chained(log)
<1> DEFINE log == Taken(logs[r])
<1>0. DOMAIN logs[r] = LogFields /\ Chained(logs[r]) /\ BufferIsAhead(logs[r])
  BY ReplicaTyped DEF LogInOrder
<1>1. /\ DOMAIN log = LogFields /\ log.height = logs[r].height
      /\ log.head = logs[r].head /\ log.committed = logs[r].committed
      /\ log.membership = logs[r].membership /\ log.state = logs[r].state
      /\ log.buffered = logs[r].buffered \ Waiting(logs[r])
  BY <1>0 DEF Taken, LogFields
<1> HIDE DEF log
<1>2. ASSUME NEW e \in log.buffered
      PROVE  e.height > log.height + 1
  <2>1. /\ e \in logs[r].buffered /\ e.height # logs[r].height + 1
        /\ e.height > logs[r].height
    BY <1>0, <1>1, <1>2 DEF Waiting, BufferIsAhead
  <2>2. e.height \in Nat /\ logs[r].height \in Nat
    BY <2>1, ReplicaTyped
  <2> QED
    BY <1>1, <2>1, <2>2
<1>3. Chained(log)
  BY <1>0, <1>1, SameChain
<1> QED
  BY <1>1, <1>2, <1>3 DEF log

(* A replica that has changed to a log in order.                           *)
LEMMA OneReplicaChanges ==
    ASSUME LogInv, LogInOrder, NEW r \in Replicas, NEW new,
           logs' = [logs EXCEPT ![r] = new], InOrder(new)
    PROVE  LogInOrder'
<1>1. logs'[r] = new /\ \A s \in Replicas : s # r => logs'[s] = logs[s]
  BY ReplicaTyped
<1> QED
  BY <1>1 DEF LogInOrder, InOrder, Chained, BufferIsAhead

LEMMA IngestInOrder ==
    ASSUME LogInv, LogInOrder, NEW r \in Replicas, NEW e \in net, Ingest(r, e)
    PROVE  LogInOrder'
<1>0. /\ DOMAIN logs[r] = LogFields /\ logs[r].height \in Nat /\ e.height \in Nat
      /\ \A f \in logs[r].committed \cup logs[r].buffered : f.height \in Nat
      /\ Chained(logs[r]) /\ BufferIsAhead(logs[r])
  BY ReplicaTyped DEF LogInOrder
<1>1. CASE IngestCommitted(r, e)
  <2> DEFINE new == [logs[r] EXCEPT !.forked = TRUE]
  <2>1. logs' = [logs EXCEPT ![r] = new]
    BY <1>1 DEF IngestCommitted
  <2>2. /\ new.height = logs[r].height /\ new.head = logs[r].head
        /\ new.committed = logs[r].committed /\ new.buffered = logs[r].buffered
        /\ new.draining = logs[r].draining
    BY <1>0 DEF LogFields
  <2> HIDE DEF new
  <2>3. InOrder(new)
    BY <1>0, <2>2, SameChain DEF InOrder, BufferIsAhead
  <2> QED
    BY <2>1, <2>3, OneReplicaChanges
<1>2. CASE IngestFuture(r, e)
  <2> DEFINE new == [logs[r] EXCEPT !.buffered = @ \cup {e}]
  <2>1. logs' = [logs EXCEPT ![r] = new] /\ e.height > logs[r].height + 1
    BY <1>2 DEF IngestFuture
  <2>2. /\ new.height = logs[r].height /\ new.head = logs[r].head
        /\ new.committed = logs[r].committed
        /\ new.buffered = logs[r].buffered \cup {e}
        /\ new.draining = logs[r].draining
    BY <1>0 DEF LogFields
  <2> HIDE DEF new
  <2>3. BufferIsAhead(new)
    BY <1>0, <2>1, <2>2 DEF BufferIsAhead
  <2>4. Chained(new)
    BY <1>0, <2>2, SameChain
  <2> QED
    BY <2>1, <2>3, <2>4, OneReplicaChanges DEF InOrder
<1>3. CASE IngestNext(r, e)
  <2>1. /\ Applies(logs[r], e) /\ logs' = [logs EXCEPT ![r] = Applied(logs[r], e)]
        /\ ~logs[r].draining
    BY <1>3 DEF IngestNext, Commit, Ready
  <2>2. e.height = logs[r].height + 1 /\ e.parent = logs[r].head
    BY <2>1 DEF Applies
  <2>3. \A f \in logs[r].buffered : f.height > logs[r].height + 1
    BY <1>0, <2>1 DEF BufferIsAhead
  <2>4. InOrder(Applied(logs[r], e))
    BY <1>0, <2>2, <2>3, AppliedInOrder
  <2> QED
    BY <2>1, <2>4, OneReplicaChanges
<1> QED
  BY <1>1, <1>2, <1>3 DEF Ingest

LEMMA DrainInOrder ==
    ASSUME LogInv, LogInOrder, NEW r \in Replicas, Drain(r)
    PROVE  LogInOrder'
<1> DEFINE log == Taken(logs[r])
<1>0. /\ DOMAIN logs[r] = LogFields /\ logs[r].height \in Nat
      /\ \A f \in logs[r].committed \cup logs[r].buffered : f.height \in Nat
      /\ Chained(logs[r]) /\ BufferIsAhead(logs[r])
  BY ReplicaTyped DEF LogInOrder
<1>1. /\ DOMAIN log = LogFields /\ log.height = logs[r].height
      /\ log.head = logs[r].head /\ log.committed = logs[r].committed
      /\ log.buffered \subseteq logs[r].buffered
      /\ \A e \in log.buffered : e.height > log.height + 1
      /\ Chained(log)
  BY TakenIsAhead
<1>2. ASSUME NEW e \in logs[r].buffered, DrainOne(r, e)
      PROVE  LogInOrder'
  <2>1. Applies(log, e) /\ logs' = [logs EXCEPT ![r] = Applied(log, e)]
    BY <1>2 DEF DrainOne, Commit
  <2> HIDE DEF log
  <2>2. e.height = log.height + 1 /\ e.parent = log.head
    BY <2>1 DEF Applies
  <2>3. InOrder(Applied(log, e))
    BY <1>0, <1>1, <2>2, AppliedInOrder
  <2> QED
    BY <2>1, <2>3, OneReplicaChanges
<1>3. CASE DrainFork(r) \/ \E e \in logs[r].buffered : DrainRefused(r, e)
  <2>1. PICK f : logs' = [logs EXCEPT ![r] = [log EXCEPT !.forked = f,
                                                         !.draining = FALSE]]
    <3>1. CASE DrainFork(r)
      BY <3>1 DEF DrainFork
    <3>2. CASE \E e \in logs[r].buffered : DrainRefused(r, e)
      <4>1. logs' = [logs EXCEPT ![r] = [log EXCEPT !.draining = FALSE]]
        BY <3>2 DEF DrainRefused
      <4> HIDE DEF log
      <4>2. [log EXCEPT !.draining = FALSE] =
               [log EXCEPT !.forked = log.forked, !.draining = FALSE]
        BY <1>1 DEF LogFields
      <4> QED
        BY <4>1, <4>2
    <3> QED
      BY <1>3, <3>1, <3>2
  <2> DEFINE new == [log EXCEPT !.forked = f, !.draining = FALSE]
  <2>2. /\ new.height = log.height /\ new.head = log.head
        /\ new.committed = log.committed /\ new.buffered = log.buffered
    <3> HIDE DEF log
    <3> QED
      BY <1>1 DEF LogFields
  <2>3. logs' = [logs EXCEPT ![r] = new]
    BY <2>1
  <2> HIDE DEF new, log
  <2>4. BufferIsAhead(new)
    BY <1>0, <1>1, <2>2 DEF BufferIsAhead
  <2>5. Chained(new)
    BY <1>1, <2>2, SameChain
  <2> QED
    BY <2>3, <2>4, <2>5, OneReplicaChanges DEF InOrder
<1>4. CASE DrainDone(r)
  <2> DEFINE new == [logs[r] EXCEPT !.draining = FALSE]
  <2>1. logs' = [logs EXCEPT ![r] = new] /\ Waiting(logs[r]) = {}
    BY <1>4 DEF DrainDone
  <2>2. /\ new.height = logs[r].height /\ new.head = logs[r].head
        /\ new.committed = logs[r].committed /\ new.buffered = logs[r].buffered
    BY <1>0 DEF LogFields
  <2> HIDE DEF new
  <2>3. BufferIsAhead(new)
    BY <1>0, <2>1, <2>2 DEF BufferIsAhead, Waiting
  <2>4. Chained(new)
    BY <1>0, <2>2, SameChain
  <2> QED
    BY <2>1, <2>3, <2>4, OneReplicaChanges DEF InOrder
<1> QED
  BY <1>2, <1>3, <1>4 DEF Drain

LEMMA RestoreInOrder ==
    ASSUME LogInv, LogInOrder, NEW r \in Replicas, NEW s \in Replicas, Restore(r, s)
    PROVE  LogInOrder'
<1> DEFINE new == from_snapshot(logs[s])
<1>1. logs' = [logs EXCEPT ![r] = new]
  BY DEF Restore
<1>2. new.committed = {} /\ new.buffered = {}
  BY ReplicaTyped DEF from_snapshot, LogFields
<1> HIDE DEF new
<1>3. InOrder(new)
  BY <1>2 DEF InOrder, Chained, BufferIsAhead
<1> QED
  BY <1>1, <1>3, OneReplicaChanges

(* For any number of replicas, players, heights and restarts: the          *)
(* certificates of a log are one hash chain up to its head, and what its   *)
(* buffer holds is still ahead of it (ingest, apply_next, from_snapshot).  *)
THEOREM LogsAreChains == Spec => []LogInOrder
<1>1. Init => LogInOrder
  <2> SUFFICES ASSUME Init, NEW r \in Replicas
               PROVE  Chained(logs[r]) /\ BufferIsAhead(logs[r])
    BY DEF LogInOrder
  <2>1. logs[r].committed = {} /\ logs[r].buffered = {}
    BY DEF Init, NewLog
  <2> QED
    BY <2>1 DEF Chained, BufferIsAhead
<1>2. LogInv /\ LogInOrder /\ [Next]_vars => LogInOrder'
  <2> SUFFICES ASSUME LogInv, LogInOrder, [Next]_vars PROVE LogInOrder'
    OBVIOUS
  <2>1. CASE UNCHANGED logs
    BY <2>1 DEF LogInOrder, Chained, BufferIsAhead
  <2>2. CASE UNCHANGED vars
    BY <2>1, <2>2 DEF vars
  <2>3. ASSUME NEW r \in Replicas, NEW pool, NEW signers, NEW next,
               Certify(r, pool, signers, next)
        PROVE  LogInOrder'
    BY <2>1, <2>3 DEF Certify
  <2>4. ASSUME NEW e, NEW p, Truncate(e, p)
        PROVE  LogInOrder'
    BY <2>1, <2>4 DEF Truncate
  <2> QED
    BY <2>2, <2>3, <2>4, IngestInOrder, DrainInOrder, RestoreInOrder DEF Next
<1> QED
  BY <1>1, <1>2, LogInvHolds, PTL DEF Spec
=============================================================================
