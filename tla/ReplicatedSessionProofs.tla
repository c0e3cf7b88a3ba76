----------------------- MODULE ReplicatedSessionProofs -----------------------
(***************************************************************************)
(* Agreement of the replicated session for any number of players,          *)
(* replicas, devices and heights, and the two facts about voting devices   *)
(* that validate_voting_devices is there for: that looking at the epochs   *)
(* where something changes is enough to exclude two voting devices in any  *)
(* epoch, and that staging a revocation without a look at the result takes *)
(* nobody's vote away.                                                     *)
(***************************************************************************)
EXTENDS ReplicatedSession, FiniteSetTheorems, TLAPS

SessionFields == {"epoch", "height", "head", "active", "devices", "rosters",
                  "staged", "last", "forks"}

SessionTyped(s, events) ==
    /\ DOMAIN s = SessionFields
    /\ s.height \in 0 .. MaxHeight /\ s.epoch \in 1 .. s.height + 1
    /\ s.rosters \in Seq(SUBSET Players) /\ Len(s.rosters) = s.epoch
    /\ s.active = s.rosters[s.epoch]
    /\ s.devices \subseteq Certificates
    /\ s.height = 0 => s.last = None /\ s.head = None
    /\ s.height # 0 => s.last \in events /\ s.head = s.last.candidate

(* A revocation is staged for the next epoch at most.                      *)
StagedTyped(s) == \A x \in s.staged : x[2] \in Nat /\ x[2] <= s.epoch + 1

OneVoting(s) ==
    \A player \in Players, epoch \in Nat :
        \A c, d \in Voting(s, player, epoch) : c = d

CanVote(s) ==
    \A player \in s.active :
        \E c \in Voting(s, player, s.epoch) : "Propose" \in c.capabilities

EventsTyped ==
    \A e \in net :
        /\ e.candidate.height \in 1 .. MaxHeight
        /\ e.candidate.transition \in Transitions \cup {None}

OneCandidate ==
    \A x, y \in signed : x[1] = y[1] /\ x[2] = y[2] => x[3] = y[3]

EventsSigned ==
    \A e \in net : \A v \in e.votes :
        <<v[1], e.candidate.height, e.candidate>> \in signed

(* A majority of a roster signed a candidate for height h.                 *)
MajoritySigned(precommits, roster, h, body) ==
    \E Q \in SUBSET roster :
        /\ Cardinality(Q) >= replicated_quorum(Cardinality(roster))
        /\ \A p \in Q : <<p, h, body>> \in precommits

LastRoster(rosters) == rosters[Len(rosters)]

NextRosters(rosters, body) ==
    IF body.transition = None THEN rosters
    ELSE Append(rosters, body.transition.players)

(* One history of n heads and rosters explains every replica: each head in *)
(* it was signed by a majority of the roster before it.                    *)
History(precommits, n, heads, rosters) ==
    /\ heads[0] = None /\ rosters[0] = <<Players>>
    /\ \A h \in 0 .. n : rosters[h] \in Seq(SUBSET Players) /\ Len(rosters[h]) >= 1
    /\ \A h \in 1 .. n :
          /\ MajoritySigned(precommits, LastRoster(rosters[h - 1]), h, heads[h])
          /\ rosters[h] = NextRosters(rosters[h - 1], heads[h])

Explains(s, n, heads, rosters) ==
    s.height <= n /\ s.head = heads[s.height] /\ s.rosters = rosters[s.height]

OneHistory ==
    \E n \in Nat : \E heads, rosters :
        /\ History(signed, n, heads, rosters)
        /\ \A r \in Replicas : Explains(states[r], n, heads, rosters)

SessionInv ==
    /\ DOMAIN states = Replicas
    /\ \A r \in Replicas : SessionTyped(states[r], net) /\ StagedTyped(states[r])
    /\ \A r \in Replicas : OneVoting(states[r]) /\ CanVote(states[r])
    /\ EventsTyped /\ OneCandidate /\ EventsSigned
    /\ OneHistory

-----------------------------------------------------------------------------
(* Voting devices.                                                         *)

LEMMA VotingFinite ==
    ASSUME NEW s, s.devices \subseteq Certificates, NEW player, NEW epoch
    PROVE  IsFiniteSet(Voting(s, player, epoch))
<1>1. Voting(s, player, epoch) \subseteq Certificates
  BY DEF Voting
<1> QED
  BY <1>1, ReplicatedSessionAssumption, FS_Subset

LEMMA AtMostOne ==
    ASSUME NEW S, IsFiniteSet(S)
    PROVE  Cardinality(S) <= 1 <=> \A c, d \in S : c = d
<1>0. Cardinality(S) \in Nat
  BY FS_CardinalityType
<1>1. ASSUME Cardinality(S) <= 1, NEW c \in S, NEW d \in S
      PROVE  c = d
  <2>1. Cardinality(S) = 0 => S = {}
    BY FS_EmptySet
  <2>2. Cardinality(S) = 1 => \E x : S = {x}
    BY FS_Singleton
  <2> QED
    BY <1>0, <1>1, <2>1, <2>2
<1>2. ASSUME \A c, d \in S : c = d
      PROVE  Cardinality(S) <= 1
  <2>1. CASE S = {}
    BY <2>1, FS_EmptySet
  <2>2. CASE S # {}
    <3>1. PICK x : x \in S
      BY <2>2
    <3>2. S = {x}
      BY <1>2, <3>1
    <3> QED
      BY <3>2, FS_Singleton
  <2> QED
    BY <2>1, <2>2
<1> QED
  BY <1>1, <1>2

(* Two devices that could vote in one epoch could already vote when the    *)
(* later of their certificates began, and that epoch is one that           *)
(* validate_voting_devices looks at.                                       *)
LEMMA ChangeEpochsSuffice ==
    ASSUME NEW s, s.devices \subseteq Certificates,
           \A x \in s.staged : x[2] \in Nat,
           validate_voting_devices(s)
    PROVE  OneVoting(s)
<1> SUFFICES ASSUME NEW player \in Players, NEW epoch \in Nat,
                    NEW c \in Voting(s, player, epoch), NEW d \in Voting(s, player, epoch)
             PROVE  c = d
  BY DEF OneVoting
<1> DEFINE start == IF c.from >= d.from THEN c.from ELSE d.from
<1>1. /\ c \in s.devices /\ d \in s.devices /\ c.player = player /\ d.player = player
      /\ "Vote" \in c.capabilities /\ "Vote" \in d.capabilities
      /\ c.from <= epoch /\ epoch <= c.through /\ d.from <= epoch /\ epoch <= d.through
      /\ ~Revoked(s, c.device, epoch) /\ ~Revoked(s, d.device, epoch)
  BY DEF Voting, is_valid_at
<1>2. c.from \in Nat /\ d.from \in Nat /\ c.through \in Nat /\ d.through \in Nat
  BY <1>1, ReplicatedSessionAssumption
<1>3. start \in Nat /\ start <= epoch /\ is_valid_at(c, start) /\ is_valid_at(d, start)
  BY <1>1, <1>2 DEF is_valid_at
<1>4. ~Revoked(s, c.device, start) /\ ~Revoked(s, d.device, start)
  BY <1>1, <1>3 DEF Revoked
<1>5. c \in Voting(s, player, start) /\ d \in Voting(s, player, start)
  BY <1>1, <1>3, <1>4 DEF Voting
<1>6. start \in ChangeEpochs(s, player)
  <2>1. start \in {c.from, c.through + 1} \/ start \in {d.from, d.through + 1}
    OBVIOUS
  <2> HIDE DEF start
  <2> QED
    BY <1>1, <2>1 DEF ChangeEpochs
<1> HIDE DEF start
<1>7. Cardinality(Voting(s, player, start)) <= 1
  BY <1>6 DEF validate_voting_devices
<1> QED
  BY <1>5, <1>7, AtMostOne, VotingFinite

LEMMA ValidatedCanVote ==
    ASSUME NEW s, s.active \subseteq Players, validate_voting_devices(s)
    PROVE  CanVote(s)
BY DEF validate_voting_devices, CanVote

-----------------------------------------------------------------------------
(* Majorities.                                                             *)

LEMMA OneMajority ==
    ASSUME OneCandidate, NEW roster \in SUBSET Players, NEW h, NEW a, NEW b,
           MajoritySigned(signed, roster, h, a), MajoritySigned(signed, roster, h, b)
    PROVE  a = b
<1>1. PICK Q \in SUBSET roster :
          /\ Cardinality(Q) >= replicated_quorum(Cardinality(roster))
          /\ \A p \in Q : <<p, h, a>> \in signed
  BY DEF MajoritySigned
<1>2. PICK R \in SUBSET roster :
          /\ Cardinality(R) >= replicated_quorum(Cardinality(roster))
          /\ \A p \in R : <<p, h, b>> \in signed
  BY DEF MajoritySigned
<1>3. IsFiniteSet(roster)
  BY ReplicatedSessionAssumption, FS_Subset
<1>4. Cardinality(roster) \in Nat /\ Cardinality(Q) \in Nat /\ Cardinality(R) \in Nat
  BY <1>3, FS_Subset, FS_CardinalityType
<1>5. Cardinality(Q) + Cardinality(R) > Cardinality(roster)
  BY <1>1, <1>2, <1>4 DEF replicated_quorum
<1>6. PICK p : p \in Q /\ p \in R
  BY <1>3, <1>5, FS_MajoritiesIntersect
<1>7. <<p, h, a>> \in signed /\ <<p, h, b>> \in signed
  BY <1>1, <1>2, <1>6
<1> QED
  BY <1>7 DEF OneCandidate

(* What a replica accepts, a majority of its roster signed.                *)
LEMMA AcceptedIsSigned ==
    ASSUME SessionInv, NEW r \in Replicas, NEW e \in net, Accepts(states[r], e)
    PROVE  /\ e.candidate.height = states[r].height + 1
           /\ MajoritySigned(signed, LastRoster(states[r].rosters),
                             states[r].height + 1, e.candidate)
<1> DEFINE s == states[r]
           body == e.candidate
<1>1. /\ SessionTyped(s, net) /\ s.epoch = Len(s.rosters)
      /\ LastRoster(s.rosters) = s.rosters[s.epoch]
  BY DEF SessionInv, SessionTyped, LastRoster
<1>2. /\ body.height = s.height + 1 /\ body.epoch = s.epoch
      /\ validate_commit_certificate(s, e, s.rosters[s.epoch])
  BY DEF Accepts, validate_event, CertifiedIn
<1>3. \A v \in e.votes : v[1] \in s.rosters[s.epoch]
  BY <1>2 DEF validate_commit_certificate, Authorized
<1>4. Voters(e) \in SUBSET s.rosters[s.epoch]
  BY <1>3 DEF Voters
<1>5. Cardinality(Voters(e)) >= replicated_quorum(Cardinality(s.rosters[s.epoch]))
  BY <1>2 DEF validate_commit_certificate
<1>6. \A p \in Voters(e) : <<p, s.height + 1, body>> \in signed
  BY <1>2 DEF Voters, SessionInv, EventsSigned
<1> QED
  BY <1>1, <1>2, <1>4, <1>5, <1>6 DEF MajoritySigned

-----------------------------------------------------------------------------
(* A majority's candidate is the next of the history, or the history has   *)
(* no next one yet and goes on with it.                                    *)
LEMMA HistoryGoesOn ==
    ASSUME SessionInv, NEW n \in Nat, NEW heads, NEW rosters,
           History(signed, n, heads, rosters),
           \A q \in Replicas : Explains(states[q], n, heads, rosters),
           NEW r \in Replicas, NEW body,
           MajoritySigned(signed, LastRoster(states[r].rosters), states[r].height + 1, body),
           body.transition = None \/ body.transition \in Transitions
    PROVE  \E m \in Nat : \E hs, rs :
              /\ History(signed, m, hs, rs)
              /\ \A q \in Replicas : Explains(states[q], m, hs, rs)
              /\ states[r].height + 1 <= m
              /\ hs[states[r].height + 1] = body
              /\ rs[states[r].height + 1] = NextRosters(states[r].rosters, body)
<1> DEFINE h == states[r].height
<1>1. /\ h \in Nat /\ h <= n /\ states[r].rosters = rosters[h]
      /\ \A q \in Replicas : states[q].height \in Nat
  BY ReplicatedSessionAssumption DEF SessionInv, SessionTyped, Explains
<1>2. /\ rosters[h] \in Seq(SUBSET Players) /\ Len(rosters[h]) >= 1
      /\ LastRoster(rosters[h]) \in SUBSET Players
  BY <1>1 DEF History, LastRoster
<1>3. CASE h < n
  <2>1. /\ h + 1 \in 1 .. n /\ (h + 1) - 1 = h
        /\ MajoritySigned(signed, LastRoster(rosters[h]), h + 1, heads[h + 1])
        /\ rosters[h + 1] = NextRosters(rosters[h], heads[h + 1])
    BY <1>1, <1>3, SMTT(30) DEF History
  <2>2. heads[h + 1] = body
    BY <1>1, <1>2, <2>1, OneMajority DEF SessionInv
  <2> QED
    BY <1>1, <1>3, <2>1, <2>2
<1>4. CASE h = n
  <2> DEFINE next == NextRosters(rosters[n], body)
             hs == [i \in 0 .. n + 1 |-> IF i = n + 1 THEN body ELSE heads[i]]
             rs == [i \in 0 .. n + 1 |-> IF i = n + 1 THEN next ELSE rosters[i]]
  <2>1. /\ \A i \in 0 .. n : hs[i] = heads[i] /\ rs[i] = rosters[i]
        /\ hs[n + 1] = body /\ rs[n + 1] = next
    OBVIOUS
  <2>2. next \in Seq(SUBSET Players) /\ Len(next) >= 1
    BY <1>2, <1>4, ReplicatedSessionAssumption DEF NextRosters
  <2> HIDE DEF next, hs, rs
  <2>3. \A i \in 0 .. n + 1 : rs[i] \in Seq(SUBSET Players) /\ Len(rs[i]) >= 1
    <3>1. \A i \in 0 .. n + 1 : i \in 0 .. n \/ i = n + 1
      OBVIOUS
    <3> QED
      BY <2>1, <2>2, <3>1 DEF History
  <2>4. ASSUME NEW i \in 1 .. n + 1
        PROVE  /\ MajoritySigned(signed, LastRoster(rs[i - 1]), i, hs[i])
               /\ rs[i] = NextRosters(rs[i - 1], hs[i])
    <3>1. CASE i \in 1 .. n
      <4>1. i - 1 \in 0 .. n /\ i \in 0 .. n
        BY <3>1
      <4> QED
        BY <2>1, <3>1, <4>1 DEF History
    <3>2. CASE i = n + 1
      <4>1. i - 1 = n /\ n \in 0 .. n
        BY <3>2
      <4> QED
        BY <1>1, <1>4, <2>1, <3>2, <4>1 DEF next
    <3> QED
      BY <3>1, <3>2
  <2>5. History(signed, n + 1, hs, rs)
    <3>1. 0 \in 0 .. n
      OBVIOUS
    <3> QED
      BY <2>1, <2>3, <2>4, <3>1 DEF History
  <2>6. \A q \in Replicas : Explains(states[q], n + 1, hs, rs)
    <3>1. \A q \in Replicas : states[q].height \in 0 .. n
      BY <1>1 DEF Explains
    <3> QED
      BY <1>1, <2>1, <3>1 DEF Explains
  <2>7. n + 1 \in Nat /\ rs[n + 1] = NextRosters(states[r].rosters, body)
    BY <1>1, <1>4, <2>1 DEF next
  <2> QED
    BY <1>4, <2>1, <2>5, <2>6, <2>7
<1> QED
  BY <1>1, <1>3, <1>4

LEMMA AppliedFields ==
    ASSUME NEW s, NEW e, DOMAIN s = SessionFields
    PROVE  LET a == Applied(s, e)
               t == e.candidate.transition
           IN  /\ DOMAIN a = SessionFields
               /\ a.height = e.candidate.height /\ a.head = e.candidate /\ a.last = e
               /\ a.devices = s.devices /\ a.staged = s.staged
               /\ a.rosters = NextRosters(s.rosters, e.candidate)
               /\ a.epoch = IF t = None THEN s.epoch ELSE s.epoch + 1
               /\ a.active = IF t = None THEN s.active ELSE t.players
<1>1. CASE e.candidate.transition = None
  BY <1>1 DEF Applied, SessionFields, NextRosters
<1>2. CASE e.candidate.transition # None
  BY <1>2 DEF Applied, SessionFields, NextRosters
<1> QED
  BY <1>1, <1>2

(* Voting and one voting device depend on devices and revocations alone.   *)
LEMMA SameVoting ==
    ASSUME NEW s, NEW t, s.devices = t.devices, s.staged = t.staged,
           NEW player, NEW epoch
    PROVE  Voting(s, player, epoch) = Voting(t, player, epoch)
BY DEF Voting, Revoked

(* The steps that leave events and precommits alone, and the height, head  *)
(* and rosters of every replica.                                           *)
LEMMA HistoryStays ==
    ASSUME OneHistory, signed' = signed, 
           \A q \in Replicas : /\ states'[q].height = states[q].height
                               /\ states'[q].head = states[q].head
                               /\ states'[q].rosters = states[q].rosters
    PROVE  OneHistory'
<1>1. PICK n, heads, rosters :
        /\ n \in Nat
        /\ History(signed, n, heads, rosters)
        /\ \A r \in Replicas : Explains(states[r], n, heads, rosters)
  BY DEF OneHistory
<1>2. /\ History(signed', n, heads, rosters)
      /\ \A r \in Replicas : Explains(states'[r], n, heads, rosters)
  BY <1>1 DEF Explains
<1> QED
  BY <1>1, <1>2 DEF OneHistory

LEMMA RegisterDeviceKeeps ==
    ASSUME SessionInv, NEW r \in Replicas, NEW c \in Certificates, RegisterDevice(r, c)
    PROVE  SessionInv'
<1> DEFINE s == states[r]
           t == WithDevice(states[r], c)
<1>1. /\ validate(t) /\ states' = [states EXCEPT ![r] = t]
      /\ net' = net /\ signed' = signed
  BY DEF RegisterDevice
<1>2. /\ states'[r] = t /\ \A q \in Replicas : q # r => states'[q] = states[q]
      /\ DOMAIN states' = Replicas
  BY <1>1 DEF SessionInv
<1>3. /\ SessionTyped(s, net) /\ StagedTyped(s)
      /\ s.active \subseteq Players
  <2>1. SessionTyped(s, net) /\ StagedTyped(s)
    BY DEF SessionInv
  <2> QED
    BY <2>1 DEF SessionTyped
<1>4. /\ DOMAIN t = SessionFields /\ t.devices = s.devices \cup {c}
      /\ t.height = s.height /\ t.epoch = s.epoch /\ t.head = s.head /\ t.active = s.active
      /\ t.rosters = s.rosters /\ t.staged = s.staged /\ t.last = s.last
  BY <1>3 DEF SessionTyped, WithDevice, SessionFields
<1> HIDE DEF t
<1>5. SessionTyped(t, net) /\ StagedTyped(t)
  BY <1>3, <1>4 DEF SessionTyped, StagedTyped
<1>6. OneVoting(t) /\ CanVote(t)
  <2>1. validate_voting_devices(t)
    BY <1>1 DEF validate
  <2>2. t.devices \subseteq Certificates /\ t.active \subseteq Players
        /\ \A x \in t.staged : x[2] \in Nat
    BY <1>3, <1>4, <1>5 DEF SessionTyped, StagedTyped
  <2> QED
    BY <2>1, <2>2, ChangeEpochsSuffice, ValidatedCanVote
<1>7. OneHistory'
  BY <1>1, <1>2, <1>4, HistoryStays DEF SessionInv
<1>8. EventsTyped' /\ OneCandidate' /\ EventsSigned'
  BY <1>1 DEF SessionInv, EventsTyped, OneCandidate, EventsSigned
<1> QED
  BY <1>1, <1>2, <1>5, <1>6, <1>7, <1>8 DEF SessionInv

(* A revocation takes effect in the next epoch: the present voting devices *)
(* stay, and no epoch gains one.                                           *)
LEMMA StageRevocationKeeps ==
    ASSUME SessionInv, NEW r \in Replicas, NEW c \in states[r].devices,
           StageRevocation(r, c, states[r].epoch + 1)
    PROVE  SessionInv'
<1> DEFINE s == states[r]
           x == <<c.device, s.epoch + 1>>
           t == [states[r] EXCEPT !.staged = @ \cup {x}]
<1>1. /\ states' = [states EXCEPT ![r] = t] /\ net' = net /\ signed' = signed
  BY DEF StageRevocation
<1>2. /\ states'[r] = t /\ \A q \in Replicas : q # r => states'[q] = states[q]
      /\ DOMAIN states' = Replicas
  BY <1>1 DEF SessionInv
<1>3. /\ SessionTyped(s, net) /\ StagedTyped(s) /\ OneVoting(s) /\ CanVote(s)
      /\ s.epoch \in Nat
  <2>1. SessionTyped(s, net) /\ StagedTyped(s) /\ OneVoting(s) /\ CanVote(s)
    BY DEF SessionInv
  <2> QED
    BY <2>1, ReplicatedSessionAssumption DEF SessionTyped
<1>4. /\ DOMAIN t = SessionFields /\ t.staged = s.staged \cup {x}
      /\ t.height = s.height /\ t.epoch = s.epoch /\ t.head = s.head /\ t.active = s.active
      /\ t.rosters = s.rosters /\ t.devices = s.devices /\ t.last = s.last
  BY <1>3 DEF SessionTyped, SessionFields
<1>5. x[2] = s.epoch + 1
  OBVIOUS
<1> HIDE DEF t, x
<1>6. SessionTyped(t, net) /\ StagedTyped(t)
  BY <1>3, <1>4, <1>5 DEF SessionTyped, StagedTyped
<1>7. \A player, epoch : Voting(t, player, epoch) \subseteq Voting(s, player, epoch)
  BY <1>4 DEF Voting, Revoked
<1>8. OneVoting(t)
  BY <1>3, <1>7 DEF OneVoting
<1>9. CanVote(t)
  <2>1. \A device : Revoked(t, device, s.epoch) <=> Revoked(s, device, s.epoch)
    BY <1>3, <1>4, <1>5 DEF Revoked
  <2>2. \A player : Voting(t, player, s.epoch) = Voting(s, player, s.epoch)
    BY <1>4, <2>1 DEF Voting
  <2> QED
    BY <1>3, <1>4, <2>2 DEF CanVote
<1>10. OneHistory'
  BY <1>1, <1>2, <1>4, HistoryStays DEF SessionInv
<1>11. EventsTyped' /\ OneCandidate' /\ EventsSigned'
  BY <1>1 DEF SessionInv, EventsTyped, OneCandidate, EventsSigned
<1> QED
  BY <1>1, <1>2, <1>6, <1>8, <1>9, <1>10, <1>11 DEF SessionInv

LEMMA DetectForkKeeps ==
    ASSUME SessionInv, NEW r \in Replicas, NEW e \in net, DetectFork(r, e)
    PROVE  SessionInv'
<1> DEFINE s == states[r]
           t == [states[r] EXCEPT !.forks = {ForkProof(states[r], e)}]
<1>1. /\ states' = [states EXCEPT ![r] = t] /\ net' = net /\ signed' = signed
  BY DEF DetectFork
<1>2. /\ states'[r] = t /\ \A q \in Replicas : q # r => states'[q] = states[q]
      /\ DOMAIN states' = Replicas
  BY <1>1 DEF SessionInv
<1>3. SessionTyped(s, net) /\ StagedTyped(s) /\ OneVoting(s) /\ CanVote(s)
  BY DEF SessionInv
<1>4. /\ DOMAIN t = SessionFields /\ t.staged = s.staged
      /\ t.height = s.height /\ t.epoch = s.epoch /\ t.head = s.head /\ t.active = s.active
      /\ t.rosters = s.rosters /\ t.devices = s.devices /\ t.last = s.last
  BY <1>3 DEF SessionTyped, SessionFields
<1> HIDE DEF t
<1>5. SessionTyped(t, net) /\ StagedTyped(t)
  BY <1>3, <1>4 DEF SessionTyped, StagedTyped
<1>6. OneVoting(t) /\ CanVote(t)
  BY <1>3, <1>4 DEF OneVoting, CanVote, Voting, Revoked
<1>7. OneHistory'
  BY <1>1, <1>2, <1>4, HistoryStays DEF SessionInv
<1>8. EventsTyped' /\ OneCandidate' /\ EventsSigned'
  BY <1>1 DEF SessionInv, EventsTyped, OneCandidate, EventsSigned
<1> QED
  BY <1>1, <1>2, <1>5, <1>6, <1>7, <1>8 DEF SessionInv

LEMMA ApplyEventKeeps ==
    ASSUME SessionInv, NEW r \in Replicas, NEW e \in net, ApplyEvent(r, e)
    PROVE  SessionInv'
<1> DEFINE s == states[r]
           t == Applied(states[r], e)
           tr == e.candidate.transition
<1>1. /\ Accepts(s, e) /\ validate(t) /\ states' = [states EXCEPT ![r] = t]
      /\ net' = net /\ signed' = signed
  BY DEF ApplyEvent, Accepts
<1>2. /\ states'[r] = t /\ \A q \in Replicas : q # r => states'[q] = states[q]
      /\ DOMAIN states' = Replicas
  BY <1>1 DEF SessionInv
<1>3. SessionTyped(s, net) /\ StagedTyped(s) /\ OneVoting(s)
  BY DEF SessionInv
<1>4. /\ DOMAIN t = SessionFields
      /\ t.height = e.candidate.height /\ t.head = e.candidate /\ t.last = e
      /\ t.devices = s.devices /\ t.staged = s.staged
      /\ t.rosters = NextRosters(s.rosters, e.candidate)
      /\ t.epoch = IF tr = None THEN s.epoch ELSE s.epoch + 1
      /\ t.active = IF tr = None THEN s.active ELSE tr.players
  BY <1>3, AppliedFields DEF SessionTyped
<1>5. /\ e.candidate.height = s.height + 1
      /\ MajoritySigned(signed, LastRoster(s.rosters), s.height + 1, e.candidate)
  BY <1>1, AcceptedIsSigned
<1>6. /\ e.candidate.height \in 1 .. MaxHeight /\ s.height \in Nat /\ s.epoch \in Nat
      /\ tr = None \/ tr \in Transitions
      /\ tr # None => tr.players \subseteq Players
  BY <1>3, ReplicatedSessionAssumption DEF SessionInv, EventsTyped, SessionTyped
<1> HIDE DEF t, tr
<1>7. SessionTyped(t, net)
  <2>1. /\ t.rosters \in Seq(SUBSET Players) /\ Len(t.rosters) = t.epoch
        /\ t.active = t.rosters[t.epoch]
    <3>1. CASE tr = None
      BY <1>3, <1>4, <3>1 DEF SessionTyped, NextRosters, tr
    <3>2. CASE tr # None
      <4>1. t.rosters = Append(s.rosters, tr.players) /\ t.epoch = s.epoch + 1
            /\ t.active = tr.players
        BY <1>4, <3>2 DEF NextRosters, tr
      <4>2. s.rosters \in Seq(SUBSET Players) /\ Len(s.rosters) = s.epoch
            /\ tr.players \in SUBSET Players
        BY <1>3, <1>6, <3>2 DEF SessionTyped
      <4> QED
        BY <4>1, <4>2
    <3> QED
      BY <3>1, <3>2
  <2>2. t.height \in 0 .. MaxHeight /\ t.epoch \in 1 .. t.height + 1 /\ t.height # 0
    <3>1. s.epoch \in 1 .. s.height + 1 /\ t.height = s.height + 1
          /\ t.height \in 1 .. MaxHeight /\ MaxHeight \in Nat
      BY <1>3, <1>4, <1>5, <1>6, ReplicatedSessionAssumption DEF SessionTyped
    <3>2. t.epoch \in {s.epoch, s.epoch + 1}
      BY <1>4
    <3> QED
      BY <1>6, <3>1, <3>2
  <2> QED
    BY <1>3, <1>4, <2>1, <2>2 DEF SessionTyped
<1>8. StagedTyped(t)
  BY <1>3, <1>4, <1>6 DEF StagedTyped
<1>9. OneVoting(t)
  BY <1>3, <1>4, SameVoting DEF OneVoting
<1>10. CanVote(t)
  <2>1. t.active \subseteq Players
    BY <1>7 DEF SessionTyped
  <2> QED
    BY <1>1, <2>1, ValidatedCanVote DEF validate
<1>11. OneHistory'
  <2>1. PICK n, heads, rosters :
          /\ n \in Nat
          /\ History(signed, n, heads, rosters)
          /\ \A q \in Replicas : Explains(states[q], n, heads, rosters)
    BY DEF SessionInv, OneHistory
  <2>2. PICK m, hs, rs :
          /\ m \in Nat
          /\ History(signed, m, hs, rs)
          /\ \A q \in Replicas : Explains(states[q], m, hs, rs)
          /\ s.height + 1 <= m /\ hs[s.height + 1] = e.candidate
          /\ rs[s.height + 1] = NextRosters(s.rosters, e.candidate)
    BY <1>5, <1>6, <2>1, HistoryGoesOn DEF tr
  <2>3. Explains(t, m, hs, rs)
    BY <1>4, <1>5, <2>2 DEF Explains
  <2>4. \A q \in Replicas : Explains(states'[q], m, hs, rs)
    BY <1>2, <2>2, <2>3
  <2> QED
    BY <1>1, <2>2, <2>4 DEF OneHistory
<1>12. EventsTyped' /\ OneCandidate' /\ EventsSigned'
  BY <1>1 DEF SessionInv, EventsTyped, OneCandidate, EventsSigned
<1> QED
  BY <1>1, <1>2, <1>7, <1>8, <1>9, <1>10, <1>11, <1>12 DEF SessionInv

(* More precommits leave the majorities before them.                       *)
LEMMA CertifyKeeps ==
    ASSUME SessionInv, NEW r \in Replicas, NEW ballot \in Ballots, NEW round \in Rounds,
           NEW device, NEW command \in Commands,
           NEW transition \in Transitions \cup {None},
           Certify(r, ballot, round, device, command, transition)
    PROVE  SessionInv'
<1> DEFINE s == states[r]
           body == Candidate(s, round, device, command, transition)
           votes == {<<p, (CHOOSE c \in Voting(s, p, s.epoch) : TRUE).device>> :
                         p \in ballot}
           e == [candidate |-> body, votes |-> votes]
           new == {<<p, body.height, body>> : p \in ballot}
<1>1. /\ s.height < MaxHeight
      /\ \A p \in ballot : MaySign(p, body.height, body)
      /\ net' = net \cup {e} /\ signed' = signed \cup new /\ states' = states
  BY DEF Certify
<1>2. body.height = s.height + 1 /\ body.transition = transition
  BY DEF Candidate
<1>3. e.candidate = body /\ e.votes = votes
  OBVIOUS
<1>4. \A v \in votes : v[1] \in ballot
  OBVIOUS
<1>5. s.height \in Nat
  BY ReplicatedSessionAssumption DEF SessionInv, SessionTyped
<1>6. \A x \in new : x[1] \in ballot /\ x[2] = body.height /\ x[3] = body
  OBVIOUS
<1>7. \A p \in ballot : <<p, body.height, body>> \in new
  OBVIOUS
<1> HIDE DEF body, votes, e, new
<1>8. EventsTyped'
  <2>1. body.height \in 1 .. MaxHeight
    BY <1>1, <1>2, <1>5, ReplicatedSessionAssumption
  <2> QED
    BY <1>1, <1>2, <1>3, <2>1 DEF SessionInv, EventsTyped
<1>9. EventsSigned'
  BY <1>1, <1>3, <1>4, <1>7 DEF SessionInv, EventsSigned
<1>10. OneCandidate'
  <2> SUFFICES ASSUME NEW x \in signed', NEW y \in signed', x[1] = y[1], x[2] = y[2]
               PROVE  x[3] = y[3]
    BY DEF OneCandidate
  <2>1. CASE x \in signed /\ y \in signed
    BY <2>1 DEF SessionInv, OneCandidate
  <2>2. CASE x \in new /\ y \in new
    BY <1>6, <2>2
  <2>3. CASE x \in signed /\ y \in new
    BY <1>1, <1>6, <2>3 DEF MaySign
  <2>4. CASE x \in new /\ y \in signed
    BY <1>1, <1>6, <2>4 DEF MaySign
  <2> QED
    BY <1>1, <2>1, <2>2, <2>3, <2>4
<1>11. OneHistory'
  <2>1. PICK n, heads, rosters :
          /\ n \in Nat
          /\ History(signed, n, heads, rosters)
          /\ \A q \in Replicas : Explains(states[q], n, heads, rosters)
    BY DEF SessionInv, OneHistory
  <2>2. ASSUME NEW roster, NEW h, NEW b, MajoritySigned(signed, roster, h, b)
        PROVE  MajoritySigned(signed', roster, h, b)
    BY <1>1, <2>2 DEF MajoritySigned
  <2>3. History(signed', n, heads, rosters)
    BY <2>1, <2>2 DEF History
  <2> QED
    BY <1>1, <2>1, <2>3 DEF OneHistory
<1>12. \A q \in Replicas : SessionTyped(states[q], net')
  BY <1>1 DEF SessionInv, SessionTyped
<1> QED
  BY <1>1, <1>8, <1>9, <1>10, <1>11, <1>12 DEF SessionInv

LEMMA SessionInitHolds == Init => SessionInv
<1> SUFFICES ASSUME Init PROVE SessionInv
  OBVIOUS
<1>1. /\ DOMAIN states = Replicas /\ \A r \in Replicas : states[r] = NewSession
      /\ validate(NewSession) /\ net = {} /\ signed = {}
  BY DEF Init
<1>2. /\ DOMAIN NewSession = SessionFields
      /\ NewSession.epoch = 1 /\ NewSession.height = 0 /\ NewSession.head = None
      /\ NewSession.active = Players /\ NewSession.devices = Initial
      /\ NewSession.rosters = <<Players>> /\ NewSession.staged = {}
      /\ NewSession.last = None
  BY DEF NewSession, SessionFields
<1>3. SessionTyped(NewSession, net) /\ StagedTyped(NewSession)
  <2>1. <<Players>> \in Seq(SUBSET Players) /\ Len(<<Players>>) = 1 /\ <<Players>>[1] = Players
    OBVIOUS
  <2> QED
    BY <1>2, <2>1, ReplicatedSessionAssumption DEF SessionTyped, StagedTyped
<1>4. OneVoting(NewSession) /\ CanVote(NewSession)
  <2>1. validate_voting_devices(NewSession)
    BY <1>1 DEF validate
  <2> QED
    BY <1>2, <2>1, ChangeEpochsSuffice, ValidatedCanVote, ReplicatedSessionAssumption
<1>5. OneHistory
  <2> DEFINE heads == [i \in {0} |-> None]
             rosters == [i \in {0} |-> <<Players>>]
  <2>1. heads[0] = None /\ rosters[0] = <<Players>>
    OBVIOUS
  <2>2. <<Players>> \in Seq(SUBSET Players) /\ Len(<<Players>>) = 1
    OBVIOUS
  <2>3. 0 .. 0 = {0} /\ 1 .. 0 = {} /\ 0 \in Nat
    OBVIOUS
  <2> HIDE DEF heads, rosters
  <2>4. History(signed, 0, heads, rosters)
    <3>0. Len(<<Players>>) >= 1
      OBVIOUS
    <3>1. \A h \in 0 .. 0 : rosters[h] \in Seq(SUBSET Players) /\ Len(rosters[h]) >= 1
      BY <2>1, <2>2, <2>3, <3>0, Zenon
    <3> QED
      BY <2>1, <2>3, <3>1, Zenon DEF History
  <2>5. \A r \in Replicas : Explains(states[r], 0, heads, rosters)
    BY <1>1, <1>2, <2>1 DEF Explains
  <2> QED
    BY <2>3, <2>4, <2>5 DEF OneHistory
<1>6. EventsTyped /\ OneCandidate /\ EventsSigned
  BY <1>1 DEF EventsTyped, OneCandidate, EventsSigned
<1> QED
  BY <1>1, <1>3, <1>4, <1>5, <1>6 DEF SessionInv

LEMMA SessionNextKeeps == SessionInv /\ [Next]_vars => SessionInv'
<1> SUFFICES ASSUME SessionInv, [Next]_vars PROVE SessionInv'
  OBVIOUS
<1>1. CASE UNCHANGED vars
  <2>1. states' = states /\ net' = net /\ signed' = signed
    BY <1>1 DEF vars
  <2>2. OneHistory'
    BY <2>1, HistoryStays DEF SessionInv
  <2> QED
    BY <2>1, <2>2 DEF SessionInv, EventsTyped, OneCandidate, EventsSigned
<1>2. ASSUME NEW r \in Replicas, NEW c \in states[r].devices, NEW ballot \in Ballots,
             NEW round \in Rounds, NEW command \in Commands,
             NEW transition \in Transitions \cup {None},
             Certify(r, ballot, round, c.device, command, transition)
      PROVE  SessionInv'
  BY <1>2, CertifyKeeps
<1> QED
  BY <1>1, <1>2, RegisterDeviceKeeps, StageRevocationKeeps, ApplyEventKeeps,
     DetectForkKeeps DEF Next

LEMMA SessionInvHolds == Spec => []SessionInv
<1> QED
  BY SessionInitHolds, SessionNextKeeps, PTL DEF Spec

(* For any number of replicas, players and heights: every replica is well  *)
(* formed, and two at one height have one head and one history of rosters, *)
(* though their devices, revocations and deliveries differ (apply_event).  *)
THEOREM ReplicasAgree == Spec => []ReplicaInv
<1>1. SessionInv => ReplicaInv
  <2> SUFFICES ASSUME SessionInv PROVE ReplicaInv
    OBVIOUS
  <2>1. TypeOK
    BY DEF SessionInv, SessionTyped, TypeOK
  <2>2. HeadAgreement
    <3>1. PICK n, heads, rosters :
             /\ n \in Nat
             /\ \A r \in Replicas : Explains(states[r], n, heads, rosters)
      BY DEF SessionInv, OneHistory
    <3> QED
      BY <3>1 DEF Explains, HeadAgreement
  <2> QED
    BY <2>1, <2>2 DEF ReplicaInv
<1> QED
  BY <1>1, SessionInvHolds, PTL

(* For any certificates and revocations: no player ever has two devices    *)
(* whose votes a replica would count, in any epoch, though the code looks  *)
(* only at the epochs where a certificate or a revocation changes          *)
(* something (validate_voting_devices).                                    *)
THEOREM NeverTwoVotingDevices == Spec => []OneVotingDevice
<1>1. SessionInv => OneVotingDevice
  <2> SUFFICES ASSUME SessionInv, NEW r \in Replicas, NEW player \in Players,
                      NEW epoch \in 1 .. MaxHeight + 2
               PROVE  Cardinality(Voting(states[r], player, epoch)) <= 1
    BY DEF OneVotingDevice
  <2>1. epoch \in Nat
    BY ReplicatedSessionAssumption
  <2>2. states[r].devices \subseteq Certificates /\ OneVoting(states[r])
    BY DEF SessionInv, SessionTyped
  <2>3. \A c, d \in Voting(states[r], player, epoch) : c = d
    BY <2>1, <2>2 DEF OneVoting
  <2> QED
    BY <2>2, <2>3, AtMostOne, VotingFinite
<1> QED
  BY <1>1, SessionInvHolds, PTL

(* Every active player can always vote and propose in the present epoch    *)
(* (stage_revocation, and the roll back of apply_event).                   *)
THEOREM ActivePlayersVote == Spec => []ActivePlayersCanVote
<1>1. SessionInv => ActivePlayersCanVote
  BY DEF SessionInv, CanVote, ActivePlayersCanVote
<1> QED
  BY <1>1, SessionInvHolds, PTL
=============================================================================
