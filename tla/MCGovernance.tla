--------------------------- MODULE MCGovernance ---------------------------
(* Small instances of Governance, by itself and in a trustless round. *)
EXTENDS TrustlessRound

CONSTANTS a, b, c

Kick(m) == [kind |-> "Kick", target |-> m]
Rights(m, change) ==
    [kind |-> "ChangeRights", target |-> m, capability |-> "ResolveRecovery",
     change |-> change]
MCCauses == {"Disconnected", "UnavailableShare"}
Plain(kind) == [kind |-> kind]

(* a may hold the capability to kick; c is to be kicked, or                *)
(* to be trusted.                                                          *)
RoomActions == {Kick(c), Rights(c, "Grant")}
MCActions == RoomActions \cup {Plain("Redeal"), Plain("EndGame")}
MCBootstrap == {<<a, "ResolveRecovery">>}
MCFindings == {<<1, c>>}

(* Command identifiers are interchangeable: they are used in order.  Of    *)
(* the connections only that of b comes and goes; a approves and only b    *)
(* abstains.                                                               *)
InOrder ==
    \A n \in gov'.processed : \A k \in 1 .. (n - 1) : k \in gov'.processed
Only(actions) ==
    /\ \A n \in CommandIds : gov'.proposals[n].action \in actions \cup {None}
    /\ \A i \in DOMAIN gov'.effects : gov'.effects[i].action \in actions
Narrow ==
    /\ {a, c} \subseteq gov'.connected \cup gov'.kicked
    /\ gov'.processed \subseteq 1 .. 4
    /\ Only(RoomActions)
    /\ \A n \in CommandIds :
          /\ gov'.proposals[n].votes[a] \in {None, "Approve"}
          /\ gov'.proposals[n].votes[c] # "Abstain"

(* The round starts when c has asked to be trusted with the recovery and   *)
(* voted for it: if a votes so too, c may decide twice.  Only b fails.     *)
By(m, id, command) == [id |-> id, issuer |-> m, tick |-> 0, command |-> command]
Asked ==
    CHOOSE g \in UNION {submit(h, By(c, 2, [kind |-> "Vote", proposal |-> 1,
                                           choice |-> "Approve"])) :
                 h \in submit(NewGovernance,
                              By(c, 1, [kind |-> "StartVote",
                                        action |-> Rights(c, "Grant")]))} : TRUE

Recovery ==
    /\ round'.abort = None \/ round'.abort.subject = b
    /\ \A n \in CommandIds, m \in Members :
          gov'.proposals[n].votes[m] \in {None, "Approve"}

MCInit ==
    \/ GovInit /\ round = NoRound
    \/ gov = Asked /\ round = NewRound
MCNext ==
    \/ round = NoRound /\ GovNext /\ InOrder /\ Narrow /\ UNCHANGED round
    \/ round # NoRound /\ RoundNext /\ InOrder /\ Recovery
MCSpec == MCInit /\ [][MCNext]_rvars
=============================================================================
