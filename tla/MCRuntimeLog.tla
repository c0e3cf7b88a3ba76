--------------------------- MODULE MCRuntimeLog ---------------------------
(* Small instances of RuntimeLog for TLC. *)
EXTENDS RuntimeLog

CONSTANTS a, b, c, a1, a2, c1

MCRosters == {{a, b, c}, {a, b}}
MCGenesisRoster == {a, b, c}

MCSignerSets == {{a, b}, {b, c}, {c}}

(* a has two devices, one of them revoked with the kick of c. *)
MCOwnerOf == [d \in Devices |-> IF d = c1 THEN c ELSE a]
MCValidFrom == [d \in Devices |-> 1]
MCRevokedFrom == [d \in Devices |-> IF d = a2 THEN 2 ELSE 9]
=============================================================================
