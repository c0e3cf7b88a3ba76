----------------------------- MODULE MCCapture -----------------------------
(* One direct transfer, or captures through the relay while the transfer    *)
(* has expired.                                                            *)
EXTENDS CaptureTransfer, CaptureRelay

VARIABLE direct

mvars == <<tvars, cvars, direct>>

MCInit ==
    \/ direct = TRUE /\ TInit /\ RelayInit
    \/ /\ direct = FALSE /\ RelayInit
       /\ sender = NewSender /\ receiver = NewReceiver
       /\ disk = [directory |-> TRUE, checkpoint |-> TRUE, chunks |-> {},
                  removal |-> FALSE]
       /\ lane = {} /\ acks = {} /\ unstored = {} /\ published = <<>>
       /\ now = MaxNow

(* Calls, requests and workers are used in their order.                    *)
InOrder ==
    /\ calls'[2].pc # "idle" => calls'[1].pc # "idle"
    /\ signed'[2] # -1 => signed'[1] # -1
    /\ workers'[2].pc # "new" => workers'[1].pc # "new"

(* Only the first worker fails in the middle of a job; the session moves   *)
(* while a call is under way.                                              *)
Narrow ==
    /\ workers[2].pc # workers'[2].pc
           => /\ workers'[2].pc = "stopped"
                     => workers[2].pc \in {"new", "refused", "unregistering"}
              /\ workers'[2].pc = "unregistering"
                     => workers[2].pc \in {"polling", "leaving"}
    /\ revision' # revision
           => \E c \in Calls : calls[c].pc \in {"routed", "waiting", "answered"}

MCNext ==
    \/ direct /\ TNext /\ UNCHANGED <<cvars, direct>>
    \/ ~direct /\ RelayNext /\ InOrder /\ Narrow /\ UNCHANGED <<tvars, direct>>

MCSpec == MCInit /\ [][MCNext]_mvars /\ RelayFairness
=============================================================================
