------------------------ MODULE MCReplicatedSession ------------------------
(* Small instances of ReplicatedSession for TLC. *)
EXTENDS ReplicatedSession, TLC

Certificate(player, device, sequence, from, through, capabilities) ==
    [player |-> player, device |-> device, sequence |-> sequence, from |-> from,
     through |-> through, capabilities |-> capabilities]

First(player) == Certificate(player, 10 * player, 1, 1, 9, Capabilities)
MCInitial == {First(p) : p \in Players}

(* Player 1 may have a successor that votes from the second epoch on and a *)
(* sibling without a vote.                                                 *)
MCCertificates ==
    MCInitial \cup {Certificate(1, 11, 2, 2, 9, Capabilities),
                    Certificate(1, 12, 3, 1, 9, {"Propose"})}

MCTransitions ==
    {[players |-> {1, 2}, revoked |-> {}],
     [players |-> {1, 2, 3}, revoked |-> {10}]}
MCBallots == {{1, 2}, {1, 2, 3}, {3}}

Symmetry == Permutations(Replicas)
=============================================================================
