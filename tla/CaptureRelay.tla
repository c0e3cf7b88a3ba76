--------------------------- MODULE CaptureRelay ---------------------------
(***************************************************************************)
(* Remote captures of one provider device: the relay of the gateway        *)
(* (poche-web-spike capture_relay.rs and its HTTP handlers in lib.rs), the *)
(* cooperation route of the room (poche-runtime device_client.rs), and the *)
(* two command line programs that use them (capture_cli.rs): a worker that *)
(* serves jobs and a requester that fetches the chunks.                    *)
(*                                                                         *)
(* The relay and the room have a lock each, so a handler that uses both    *)
(* takes two steps.  Worker w advertises with sequence w, the later start  *)
(* with the greater sequence, and is named by it; so is the token its      *)
(* registration returns.  Certificates, signatures, keys and descriptors   *)
(* are taken to be valid; their checks refuse what nobody here sends.      *)
(***************************************************************************)
EXTENDS Integers, FiniteSets

CONSTANTS
    Workers,            \* 1 .. n
    Requests,           \* request identifiers: numbers in the order of the table
    Calls,              \* HTTP calls of requesters; a retry is another call
    RELAY_CHUNKS,       \* chunks of one artifact
    REPLAY_CAPACITY,    \* CaptureReplayWindow
    MaxCommits          \* bound on the session's revisions

ASSUME RelayAssumption ==
    /\ Workers \subseteq Nat \ {0} /\ Requests \subseteq Nat \ {0}
    /\ RELAY_CHUNKS \in Nat \ {0}

VARIABLES
    revision,   \* of the session
    route,      \* capture_providers of the room: a worker, or 0
    provider,   \* providers of the relay: a worker, or 0
    jobs,       \* jobs of the relay
    replays,    \* CaptureReplayWindow::accepted
    signed,     \* observed_revision of each request, -1 before it is signed
    workers,
    calls

cvars == <<revision, route, provider, jobs, replays, signed, workers, calls>>

NoJob == [queued |-> FALSE, response |-> "None", author |-> 0, chunks |-> {}]
NewJob == [NoJob EXCEPT !.queued = TRUE]

RelayInit ==
    /\ revision = 0 /\ route = 0 /\ provider = 0
    /\ jobs = [r \in Requests |-> NoJob]
    /\ replays = {}
    /\ signed = [r \in Requests |-> -1]
    /\ workers = [w \in Workers |-> [pc |-> "new", job |-> 0, sent |-> 0]]
    /\ calls = [c \in Calls |-> [pc |-> "idle", request |-> 0, handler |-> 0,
                                 revision |-> 0, fetched |-> 0]]

WorkerGoes(w, pc) == workers' = [workers EXCEPT ![w].pc = pc]
CallGoes(c, pc) == calls' = [calls EXCEPT ![c].pc = pc]
Job(c) == jobs[calls[c].request]

-----------------------------------------------------------------------------
(* The worker, and what its calls do.  A call with a token that is no      *)
(* longer the provider's is refused, and the worker stops: its attempt to  *)
(* unregister is refused too.                                              *)

(* register of the relay, the first step of capture_provider_register.     *)
RegisterInRelay(w) ==
    /\ workers[w].pc = "new"
    /\ IF provider >= w
       THEN WorkerGoes(w, "stopped") /\ UNCHANGED provider
       ELSE WorkerGoes(w, "registering") /\ provider' = w
    /\ UNCHANGED <<revision, route, jobs, replays, signed, calls>>

(* register_capture_provider of the room.                                  *)
RegisterInRoom(w) ==
    /\ workers[w].pc = "registering"
    /\ IF route >= w
       THEN WorkerGoes(w, "refused") /\ UNCHANGED route
       ELSE WorkerGoes(w, "polling") /\ route' = w
    /\ UNCHANGED <<revision, provider, jobs, replays, signed, calls>>

(* When the room refuses, the relay forgets the registration if it still   *)
(* has it, under its own lock again.                                       *)
RollBackInRelay(w) ==
    /\ workers[w].pc = "refused"
    /\ WorkerGoes(w, "stopped")
    /\ provider' = IF provider = w THEN 0 ELSE provider
    /\ UNCHANGED <<revision, route, jobs, replays, signed, calls>>

(* The first job in the table that has no response.                        *)
Poll(w) ==
    /\ workers[w].pc = "polling" /\ provider = w
    /\ \E r \in Requests :
          /\ jobs[r].queued /\ jobs[r].response = "None"
          /\ \A q \in Requests : jobs[q].queued /\ jobs[q].response = "None" => r <= q
          /\ workers' = [workers EXCEPT ![w].pc = "serving", ![w].job = r]
    /\ UNCHANGED <<revision, route, provider, jobs, replays, signed, calls>>

Render(w) ==
    /\ workers[w].pc = "serving"
    /\ revision = signed[workers[w].job]
    /\ WorkerGoes(w, "rendering")
    /\ UNCHANGED <<revision, route, provider, jobs, replays, signed, calls>>

(* provide_response takes the first response.  Another one is a protocol   *)
(* violation that ends the worker's loop, unless it is the same: a denial  *)
(* for the same reason, as every offer has keys of its own.                *)
provide_response(w, response, after) ==
    /\ provider = w
    /\ LET r == workers[w].job
           same == response = "Denied" /\ jobs[r].response = response
       IN  IF jobs[r].queued /\ jobs[r].response = "None"
           THEN /\ jobs' = [jobs EXCEPT ![r].response = response, ![r].author = w]
                /\ workers' = [workers EXCEPT ![w].pc = after, ![w].sent = 0]
           ELSE /\ \E pc \in {"leaving"} \cup (IF same THEN {after} ELSE {}) :
                       WorkerGoes(w, pc)
                /\ UNCHANGED jobs
    /\ UNCHANGED <<revision, route, provider, replays, signed, calls>>

Offer(w) ==
    workers[w].pc = "rendering" /\ provide_response(w, "Accepted", "uploading")

(* The revision moved on, or the renderer failed.                          *)
Deny(w) ==
    /\ workers[w].pc \in {"serving", "rendering"}
    /\ provide_response(w, "Denied", "polling")

(* Mutant: the last chunk is out of bounds. *)
UploadChunk_short(w) ==
    /\ workers[w].pc = "uploading" /\ provider = w
    /\ workers[w].sent < RELAY_CHUNKS - 1
    /\ jobs[workers[w].job].queued
    /\ jobs' = [jobs EXCEPT ![workers[w].job].chunks = @ \cup {workers[w].sent}]
    /\ workers' = [workers EXCEPT ![w].sent = @ + 1]
    /\ UNCHANGED <<revision, route, provider, replays, signed, calls>>

UploadChunk(w) ==
    /\ workers[w].pc = "uploading" /\ provider = w
    /\ workers[w].sent < RELAY_CHUNKS
    /\ jobs[workers[w].job].queued
    /\ jobs' = [jobs EXCEPT ![workers[w].job].chunks = @ \cup {workers[w].sent}]
    /\ workers' = [workers EXCEPT ![w].sent = @ + 1]
    /\ UNCHANGED <<revision, route, provider, replays, signed, calls>>

(* After a job the worker serves on, or unregisters.                       *)
Uploaded(w) ==
    /\ workers[w].pc = "uploading" /\ workers[w].sent = RELAY_CHUNKS
    /\ WorkerGoes(w, "polling")
    /\ UNCHANGED <<revision, route, provider, jobs, replays, signed, calls>>

Working == {"polling", "serving", "rendering", "uploading", "leaving"}

(* The two steps of capture_provider_unregister: of the relay by token, of *)
(* the room by device.  The worker takes them when it is cancelled, and    *)
(* after any error of its loop.                                            *)
UnregisterInRelay(w) ==
    /\ workers[w].pc \in Working /\ provider = w
    /\ provider' = 0
    /\ WorkerGoes(w, "unregistering")
    /\ UNCHANGED <<revision, route, jobs, replays, signed, calls>>

UnregisterInRoom(w) ==
    /\ workers[w].pc = "unregistering"
    /\ route' = 0
    /\ WorkerGoes(w, "stopped")
    /\ UNCHANGED <<revision, provider, jobs, replays, signed, calls>>

(* A crash, or a refused token.                                            *)
StopWorker(w) ==
    /\ workers[w].pc \in Working
    /\ WorkerGoes(w, "stopped")
    /\ UNCHANGED <<revision, route, provider, jobs, replays, signed, calls>>
-----------------------------------------------------------------------------
(* A call of a requester: capture_request.                                 *)

Observed(r) == IF signed[r] = -1 THEN revision ELSE signed[r]

(* Mutant: accepted requests are not remembered. *)
Remembered_never(r) == replays

(* authorize_once.                                                         *)
Remembered(r) == replays \cup {r}

(* The first locked block of cooperate: the route, the request against the *)
(* room, and the replay window, which never forgets.                       *)
Cooperate(c, r) ==
    /\ calls[c].pc = "idle"
    /\ signed' = [signed EXCEPT ![r] = Observed(r)]
    /\ IF /\ route # 0
          /\ Observed(r) = revision
          /\ r \notin replays /\ Cardinality(replays) < REPLAY_CAPACITY
       THEN /\ replays' = Remembered(r)
            /\ calls' = [calls EXCEPT ![c] = [pc |-> "routed", request |-> r,
                                              handler |-> route,
                                              revision |-> revision,
                                              fetched |-> 0]]
       ELSE CallGoes(c, "failed") /\ UNCHANGED replays
    /\ UNCHANGED <<revision, route, provider, jobs, workers>>

(* The mutex of the handler of one registration, held while a call waits.  *)
HandlerFree(w) == \A d \in Calls : calls[d].pc = "waiting" => calls[d].handler # w

(* enqueue_and_wait up to its wait.                                        *)
Enqueue(c) ==
    /\ calls[c].pc = "routed" /\ HandlerFree(calls[c].handler)
    /\ IF provider = 0 \/ Job(c).queued
       THEN CallGoes(c, "failed") /\ UNCHANGED jobs
       ELSE /\ jobs' = [jobs EXCEPT ![calls[c].request] = NewJob]
            /\ CallGoes(c, "waiting")
    /\ UNCHANGED <<revision, route, provider, replays, signed, workers>>

Answered(c) ==
    /\ calls[c].pc = "waiting"
    /\ Job(c).response # "None"
    /\ CallGoes(c, "answered")
    /\ UNCHANGED <<revision, route, provider, jobs, replays, signed, workers>>

(* Mutant: the wait has no timeout. *)
TimeOut_never(c) == FALSE /\ UNCHANGED cvars

(* PROVIDER_RESPONSE_TIMEOUT: the job stays in the table.                  *)
TimeOut(c) ==
    /\ calls[c].pc = "waiting"
    /\ Job(c).response = "None"
    /\ CallGoes(c, "failed")
    /\ UNCHANGED <<revision, route, provider, jobs, replays, signed, workers>>

(* The session must not have moved while the provider was asked.           *)
Check(c) ==
    /\ calls[c].pc = "answered"
    /\ CallGoes(c, IF revision = calls[c].revision
                   THEN "checked" ELSE "failed")
    /\ UNCHANGED <<revision, route, provider, jobs, replays, signed, workers>>

(* receipt: the response, the delivery token and the keys.                 *)
Receipt(c) ==
    /\ calls[c].pc = "checked"
    /\ CallGoes(c, IF Job(c).response = "Accepted" THEN "fetching" ELSE "failed")
    /\ UNCHANGED <<revision, route, provider, jobs, replays, signed, workers>>

(* fetch_chunk answers Pending until the chunk is there, and the requester *)
(* asks again.                                                             *)
FetchChunk(c) ==
    /\ calls[c].pc = "fetching"
    /\ calls[c].fetched \in Job(c).chunks
    /\ calls' = [calls EXCEPT ![c].fetched = @ + 1]
    /\ UNCHANGED <<revision, route, provider, jobs, replays, signed, workers>>

(* acknowledge_delivery, after the artifacts were persisted.               *)
AcknowledgeDelivery(c) ==
    /\ calls[c].pc = "fetching" /\ calls[c].fetched = RELAY_CHUNKS
    /\ 0 .. (RELAY_CHUNKS - 1) \subseteq Job(c).chunks
    /\ jobs' = [jobs EXCEPT ![calls[c].request] = NoJob]
    /\ CallGoes(c, "done")
    /\ UNCHANGED <<revision, route, provider, replays, signed, workers>>

GiveUp(c) ==
    /\ calls[c].pc = "fetching"
    /\ CallGoes(c, "failed")
    /\ UNCHANGED <<revision, route, provider, jobs, replays, signed, workers>>

(* Somebody plays (external).                                              *)
CommitRevision ==
    /\ revision < MaxCommits
    /\ revision' = revision + 1
    /\ UNCHANGED <<route, provider, jobs, replays, signed, workers, calls>>

WorkerStep(w) ==
    \/ RegisterInRelay(w) \/ RegisterInRoom(w) \/ RollBackInRelay(w)
    \/ Poll(w) \/ Render(w) \/ Offer(w) \/ Deny(w) \/ UploadChunk(w) \/ Uploaded(w)
    \/ UnregisterInRelay(w) \/ UnregisterInRoom(w) \/ StopWorker(w)

CallReturns(c) ==
    Enqueue(c) \/ Answered(c) \/ TimeOut(c) \/ Check(c) \/ Receipt(c)

RelayNext ==
    \/ \E w \in Workers : WorkerStep(w)
    \/ \E c \in Calls, r \in Requests : Cooperate(c, r)
    \/ \E c \in Calls : \/ CallReturns(c) \/ FetchChunk(c)
                        \/ AcknowledgeDelivery(c) \/ GiveUp(c)
    \/ CommitRevision

(* The gateway's threads run and its clock goes on; a worker that does not *)
(* stop uploads, and a requester that does not give up fetches.            *)
RelayFairness ==
    /\ \A c \in Calls : /\ WF_cvars(CallReturns(c))
                        /\ WF_cvars(FetchChunk(c) \/ AcknowledgeDelivery(c))
    /\ \A w \in Workers : WF_cvars(UploadChunk(w))

RelaySpec == RelayInit /\ [][RelayNext]_cvars /\ RelayFairness
-----------------------------------------------------------------------------
(* Properties.                                                             *)

HasReceipt(c) == calls[c].pc \in {"fetching", "done"}

(* A request is answered to one call only: a repeated call is refused      *)
(* while the first one waits, after it failed, and after its job was       *)
(* delivered and forgotten by the relay (authorize_once).                  *)
OneReceiptPerRequest ==
    \A c, d \in Calls :
        HasReceipt(c) /\ HasReceipt(d) /\ calls[c].request = calls[d].request
            => c = d

(* Every call returns, though no worker answers and workers come and go    *)
(* (enqueue_and_wait).                                                     *)
CallsReturn ==
    \A c \in Calls :
        calls[c].pc = "routed" ~> calls[c].pc \in {"fetching", "done", "failed"}

Uploading(r) ==
    LET w == jobs[r].author
    IN  provider = w /\ workers[w].pc = "uploading" /\ workers[w].job = r

(* An accepted capture is delivered, unless the requester gave up or the   *)
(* worker stopped, or was replaced, before the last chunk: no other worker *)
(* is offered the job then (poll, upload_chunk, fetch_chunk).              *)
AcceptedIsDelivered ==
    \A c \in Calls :
        calls[c].pc = "fetching"
            ~> \/ calls[c].pc \in {"done", "failed"}
               \/ /\ calls[c].pc = "fetching" /\ ~Uploading(calls[c].request)
                  /\ ~(0 .. (RELAY_CHUNKS - 1) \subseteq Job(c).chunks)
=============================================================================
