-------------------------- MODULE CaptureTransfer --------------------------
(***************************************************************************)
(* The private chunk transfer of poche-capture (transfer.rs): a sender     *)
(* with acknowledgement credit, a lane that delays, reorders, duplicates,  *)
(* damages and loses chunks and acknowledgements, and a durable receiver   *)
(* whose process may stop at any step and resume from its checkpoint.      *)
(*                                                                         *)
(* Chunk i stands for its own plaintext.  Its ciphertext is a function of  *)
(* i (chunk_nonce, seal_chunk), so is the hash an acknowledgement carries. *)
(* What was sent may be received any number of times, in any order; what   *)
(* is never received is lost.                                              *)
(***************************************************************************)
EXTENDS Integers, Sequences, FiniteSets

CONSTANTS
    CHUNKS,         \* descriptor.chunk_count
    CREDIT,         \* credit_chunks
    EXPIRY,         \* expires_at_unix_ms
    MaxNow,         \* bound on wall-clock time
    Down            \* no receiver object: the process is not running

ASSUME TransferAssumption ==
    /\ CHUNKS \in Nat \ {0} /\ CREDIT \in Nat \ {0}
    /\ EXPIRY \in Nat /\ MaxNow \in Nat
    /\ Down \notin [next_index : Nat, bytes : Seq(Nat),
                    cancelled : BOOLEAN, complete : BOOLEAN]

VARIABLES
    sender,     \* CaptureTransferSender
    receiver,   \* DurableCaptureTransferReceiver's receiver, or Down
    disk,       \* the checkpoint directory; removal: remove_dir_all was begun
    lane,       \* chunks sent
    acks,       \* acknowledgements sent
    now,
    unstored,   \* the chunks whose write or rename failed (history)
    published   \* the results of finish, in order

tvars == <<sender, receiver, disk, lane, acks, now, unstored, published>>

Indices == 0 .. (CHUNKS - 1)
Content == [i \in 1 .. CHUNKS |-> i - 1]

NewSender == [next_index |-> 0, outstanding |-> {}, cancelled |-> FALSE]
NewReceiver ==
    [next_index |-> 0, bytes |-> <<>>, cancelled |-> FALSE, complete |-> FALSE]

(* create: the directory appears with its checkpoint file, by a rename.    *)
TInit ==
    /\ sender = NewSender
    /\ receiver = NewReceiver
    /\ disk = [directory |-> TRUE, checkpoint |-> TRUE, chunks |-> {},
               removal |-> FALSE]
    /\ lane = {} /\ acks = {}
    /\ now = 0 /\ unstored = {} /\ published = <<>>

-----------------------------------------------------------------------------
(* CaptureTransferSender.                                                  *)

SenderActive == ~sender.cancelled /\ now <= EXPIRY

NextChunk ==
    /\ SenderActive
    /\ Cardinality(sender.outstanding) < CREDIT
    /\ sender.next_index < CHUNKS
    /\ lane' = lane \cup {sender.next_index}
    /\ sender' = [sender EXCEPT !.outstanding = @ \cup {sender.next_index},
                                !.next_index = @ + 1]
    /\ UNCHANGED <<receiver, disk, acks, now, unstored, published>>

Acknowledge(i) ==
    /\ i \in acks \cap sender.outstanding
    /\ sender' = [sender EXCEPT !.outstanding = @ \ {i}]
    /\ UNCHANGED <<receiver, disk, lane, acks, now, unstored, published>>

CancelSender ==
    /\ ~sender.cancelled
    /\ sender' = [sender EXCEPT !.cancelled = TRUE, !.outstanding = {}]
    /\ UNCHANGED <<receiver, disk, lane, acks, now, unstored, published>>

(* new.  A sender has no way to send a lost chunk again: whoever wants the *)
(* transfer to go on makes another sender of the same content.             *)
CreateSender ==
    /\ sender' = NewSender
    /\ UNCHANGED <<receiver, disk, lane, acks, now, unstored, published>>

(* Mutant: the chunk the receiver waits for is taken as received. *)
ResumeFrom_after ==
    /\ receiver # Down
    /\ sender.outstanding = {} /\ receiver.next_index + 1 <= CHUNKS
    /\ sender' = [sender EXCEPT !.next_index = receiver.next_index + 1]
    /\ UNCHANGED <<receiver, disk, lane, acks, now, unstored, published>>

(* resume_from, with the resume_index of the receiver, which a cancelled   *)
(* receiver reports too: after a storage error it counts the chunk that    *)
(* was not stored.                                                         *)
ResumeFrom ==
    /\ receiver # Down
    /\ sender.outstanding = {} /\ receiver.next_index <= CHUNKS
    /\ sender' = [sender EXCEPT !.next_index = receiver.next_index]
    /\ UNCHANGED <<receiver, disk, lane, acks, now, unstored, published>>

-----------------------------------------------------------------------------
(* The receiver.                                                           *)

ReceiverActive(r) == ~r.cancelled /\ ~r.complete /\ now <= EXPIRY

(* accept takes the next chunk once it authenticates, and recognizes an    *)
(* exact repetition of an earlier one; a damaged chunk is neither.         *)
Accepts(r, i, intact) == ReceiverActive(r) /\ i = r.next_index /\ intact
Repeats(r, i, intact) == ReceiverActive(r) /\ i < r.next_index /\ intact
Accepted(r, i) ==
    [r EXCEPT !.next_index = @ + 1, !.bytes = Append(@, i)]

Cancelled(r) == [r EXCEPT !.cancelled = TRUE, !.bytes = <<>>]

(* DurableCaptureTransferReceiver::accept: the ciphertext is retained by   *)
(* write and rename, then the disposition is returned and acknowledged.    *)
Accept(i, intact) ==
    /\ receiver # Down /\ i \in lane
    /\ \/ /\ Accepts(receiver, i, intact)
          /\ receiver' = Accepted(receiver, i)
          /\ disk' = [disk EXCEPT !.chunks = @ \cup {i}]
       \/ /\ Repeats(receiver, i, intact)
          /\ UNCHANGED <<receiver, disk>>
    /\ acks' = acks \cup {i}
    /\ UNCHANGED <<sender, lane, now, unstored, published>>

(* The write or the rename fails.                                          *)
AcceptUnstored(i) ==
    /\ receiver # Down /\ i \in lane
    /\ Accepts(receiver, i, TRUE)
    /\ receiver' = Cancelled(Accepted(receiver, i))
    /\ unstored' = unstored \cup {i}
    /\ UNCHANGED <<sender, disk, lane, acks, now, published>>

(* The process stops after the rename and before the acknowledgement.      *)
AcceptAndStop(i) ==
    /\ receiver # Down /\ i \in lane
    /\ Accepts(receiver, i, TRUE)
    /\ receiver' = Down
    /\ disk' = [disk EXCEPT !.chunks = @ \cup {i}]
    /\ UNCHANGED <<sender, lane, acks, now, unstored, published>>

Stop ==
    /\ receiver # Down
    /\ receiver' = Down
    /\ UNCHANGED <<sender, disk, lane, acks, now, unstored, published>>

(* The contiguous chunks resume reads before the first that is missing.    *)
FirstMissing ==
    CHOOSE i \in 0 .. CHUNKS :
        i \notin disk.chunks /\ \A j \in 0 .. (i - 1) : j \in disk.chunks

(* resume: every retained chunk is accepted again, and none may follow a   *)
(* missing one.                                                            *)
Resume ==
    /\ receiver = Down
    /\ disk.directory /\ disk.checkpoint
    /\ FirstMissing > 0 => now <= EXPIRY
    /\ \A i \in disk.chunks : i < FirstMissing
    /\ receiver' = [NewReceiver EXCEPT
                       !.next_index = FirstMissing,
                       !.bytes = [i \in 1 .. FirstMissing |-> i - 1]]
    /\ UNCHANGED <<sender, disk, lane, acks, now, unstored, published>>

NoDirectory ==
    [directory |-> FALSE, checkpoint |-> FALSE, chunks |-> {}, removal |-> TRUE]

(* What remove_dir_all leaves when it fails or the process stops in it.    *)
PartlyRemoved ==
    {[directory |-> TRUE, checkpoint |-> c, chunks |-> left, removal |-> TRUE] :
        c \in {FALSE, disk.checkpoint}, left \in SUBSET disk.chunks}

(* Mutant: finish counts the chunks and does not hash the content. *)
Whole_counted(r) == Len(r.bytes) = r.next_index

Whole(r) == r.next_index = CHUNKS /\ r.bytes = Content

(* finish: the content is verified, then the checkpoint is removed, then   *)
(* the content is returned; a failed removal returns an error instead.     *)
Finish ==
    /\ receiver # Down /\ ~receiver.cancelled /\ ~receiver.complete
    /\ Whole(receiver)
    /\ \/ /\ disk' = NoDirectory
          /\ receiver' = [receiver EXCEPT !.complete = TRUE, !.bytes = <<>>]
          /\ published' = Append(published, receiver.bytes)
       \/ /\ disk' \in PartlyRemoved
          /\ receiver' \in {Down, [receiver EXCEPT !.complete = TRUE,
                                                   !.bytes = <<>>]}
          /\ UNCHANGED published
    /\ UNCHANGED <<sender, lane, acks, now, unstored>>

CancelReceiver ==
    /\ receiver # Down /\ disk.directory
    /\ receiver' = Cancelled(receiver)
    /\ disk' \in {NoDirectory} \cup PartlyRemoved
    /\ UNCHANGED <<sender, lane, acks, now, unstored, published>>

-----------------------------------------------------------------------------
(* The clock (external).                                                   *)

Tick ==
    /\ now < MaxNow
    /\ now' = now + 1
    /\ UNCHANGED <<sender, receiver, disk, lane, acks, unstored, published>>

TNext ==
    \/ NextChunk \/ CancelSender \/ CreateSender \/ ResumeFrom
    \/ \E i \in Indices :
          \/ Acknowledge(i) \/ AcceptUnstored(i) \/ AcceptAndStop(i)
          \/ \E intact \in BOOLEAN : Accept(i, intact)
    \/ Stop \/ Resume \/ Finish \/ CancelReceiver \/ Tick

TSpec == TInit /\ [][TNext]_tvars

-----------------------------------------------------------------------------
(* Properties.                                                             *)

(* What finish returns is the content, once: no resume, repetition, loss   *)
(* or restart makes it shorter, longer or other, and a content that was    *)
(* returned is never returned again (finish, resume).                      *)
PublishedOnceAndWhole == published \in {<<>>, <<Content>>}

(* Every acknowledgement is backed by the checkpoint until its removal     *)
(* begins, through repetitions, stops, resumes and storage errors.         *)
AcknowledgedIsRetained == disk.removal \/ acks \subseteq disk.chunks

(* A running receiver that met no storage error holds in memory what a     *)
(* restart would read back.                                                *)
MemoryIsCheckpoint ==
    receiver = Down \/ disk.removal \/ receiver.cancelled \/
        /\ disk.chunks = 0 .. (receiver.next_index - 1)
        /\ Len(receiver.bytes) = receiver.next_index

(* A sender passes over no chunk, resumed or not, but one whose storing    *)
(* failed: the rest it keeps outstanding or the checkpoint holds.          *)
NothingPassedOver ==
    sender.cancelled \/ disk.removal \/
    \A i \in 0 .. (sender.next_index - 1) :
        i \in sender.outstanding \cup disk.chunks \cup unstored

(* Neither an acknowledgement nor the memory of a sound receiver runs      *)
(* ahead of the checkpoint, and a resumed sender runs ahead of it by no    *)
(* more than the chunks whose storing failed (accept, resume, resume_index, *)
(* resume_from, acknowledge).                                              *)
TransferInv ==
    AcknowledgedIsRetained /\ MemoryIsCheckpoint /\ NothingPassedOver
=============================================================================
