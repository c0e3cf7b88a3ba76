---------------------------- MODULE CaptureProofs ----------------------------
(***************************************************************************)
(* The capture transfer for any number of chunks, any credit, any losses,  *)
(* storage errors and stops of the receiver, and the replay window of the capture     *)
(* relay for any number of calls, requests and workers.                    *)
(***************************************************************************)
EXTENDS CaptureTransfer, CaptureRelay, WellFoundedInduction, TLAPS

-----------------------------------------------------------------------------
(* The inductive invariant of the transfer.                                *)

Receivers ==
    [next_index : 0 .. CHUNKS, bytes : Seq(Nat),
     cancelled : BOOLEAN, complete : BOOLEAN]

TransferTyped ==
    /\ sender \in [next_index : 0 .. CHUNKS, outstanding : SUBSET Indices,
                   cancelled : BOOLEAN]
    /\ receiver = Down \/ receiver \in Receivers
    /\ disk \in [directory : BOOLEAN, checkpoint : BOOLEAN,
                 chunks : SUBSET Indices, removal : BOOLEAN]
    /\ lane \subseteq Indices /\ acks \subseteq Indices
    /\ unstored \subseteq Indices

(* Until its removal begins the checkpoint holds a prefix of the chunks,   *)
(* every acknowledged one among them.                                      *)
CheckpointIsPrefix ==
    ~disk.removal =>
        /\ \E n \in 0 .. CHUNKS : disk.chunks = 0 .. (n - 1)
        /\ acks \subseteq disk.chunks

(* A receiver that was not cancelled has decrypted the chunks in order,    *)
(* and the checkpoint holds exactly those.                                 *)
MemoryIsPrefix ==
    receiver # Down =>
        /\ ~receiver.cancelled /\ ~receiver.complete
               => receiver.bytes = [i \in 1 .. receiver.next_index |-> i - 1]
        /\ ~receiver.cancelled /\ ~disk.removal
               => disk.chunks = 0 .. (receiver.next_index - 1)
        /\ receiver.complete => disk.removal

(* The index a receiver reports counts the chunks in the checkpoint and,   *)
(* if it was cancelled by a storage error, the one it failed to store.     *)
ReportIsBacked ==
    receiver # Down /\ ~disk.removal =>
        0 .. (receiver.next_index - 1) \subseteq disk.chunks \cup unstored

(* Once published, there is nothing left to resume or to finish.           *)
PublishedIsOver ==
    \/ published = <<>>
    \/ /\ published = <<Content>> /\ ~disk.directory
       /\ receiver = Down \/ receiver.complete

CaptureInv ==
    /\ TransferTyped /\ CheckpointIsPrefix /\ MemoryIsPrefix
    /\ ReportIsBacked /\ NothingPassedOver /\ PublishedIsOver

LEMMA ReceiverRecord ==
    Receivers \subseteq [next_index : Nat, bytes : Seq(Nat),
                         cancelled : BOOLEAN, complete : BOOLEAN]
    /\ Down \notin Receivers
<1>1. 0 .. CHUNKS \subseteq Nat
  BY TransferAssumption
<1> QED
  BY <1>1, TransferAssumption DEF Receivers

(* The contiguous chunks that resume reads exist, as there are finitely    *)
(* many chunks.                                                            *)
LEMMA FirstMissingIsFirst ==
    ASSUME disk.chunks \subseteq Indices
    PROVE  /\ FirstMissing \in 0 .. CHUNKS
           /\ FirstMissing \notin disk.chunks
           /\ \A j \in 0 .. (FirstMissing - 1) : j \in disk.chunks
<1> DEFINE Missing == {i \in 0 .. CHUNKS : i \notin disk.chunks}
<1>1. CHUNKS \in Missing /\ Missing \subseteq Nat
  BY TransferAssumption DEF Indices
<1>2. PICK i \in Missing : \A j \in Missing : ~(<<j, i>> \in OpToRel(<, Nat))
  <2> HIDE DEF Missing
  <2> QED
    BY <1>1, NatLessThanWellFounded, WFMin
<1>3. \A j \in Missing : ~(j < i)
  BY <1>1, <1>2 DEF OpToRel
<1>4. \A j \in 0 .. (i - 1) : j \in disk.chunks
  BY <1>3, TransferAssumption
<1> QED
  BY <1>2, <1>4 DEF FirstMissing

LEMMA TransferInitHolds == TInit => CaptureInv
<1> SUFFICES ASSUME TInit PROVE CaptureInv
  OBVIOUS
<1>1. TransferTyped
  BY TransferAssumption DEF TInit, TransferTyped, NewSender, NewReceiver, Receivers
<1>2. CheckpointIsPrefix /\ NothingPassedOver /\ PublishedIsOver
  <2>1. 0 .. (0 - 1) = {} /\ 0 \in 0 .. CHUNKS
    BY TransferAssumption
  <2> QED
    BY <2>1 DEF TInit, CheckpointIsPrefix, NothingPassedOver, PublishedIsOver, NewSender
<1>3. MemoryIsPrefix
  <2>1. 0 .. (0 - 1) = {} /\ <<>> = [i \in 1 .. 0 |-> i - 1]
    OBVIOUS
  <2> QED
    BY <2>1 DEF TInit, MemoryIsPrefix, NewReceiver
<1>4. ReportIsBacked
  BY <1>1 DEF TInit, ReportIsBacked, NewReceiver
<1> QED
  BY <1>1, <1>2, <1>3, <1>4 DEF CaptureInv

-----------------------------------------------------------------------------
(* The sender's operations.                                                *)

LEMMA SenderKeeps ==
    ASSUME CaptureInv,
           \/ NextChunk \/ CancelSender \/ CreateSender \/ ResumeFrom
           \/ \E i \in Indices : Acknowledge(i)
    PROVE  CaptureInv'
<1>1. CASE NextChunk
  <2>1. TransferTyped'
    <3>1. sender.next_index \in Indices /\ sender.next_index + 1 \in 0 .. CHUNKS
      BY <1>1, TransferAssumption DEF NextChunk, CaptureInv, TransferTyped, Indices
    <3> QED
      BY <1>1, <3>1 DEF NextChunk, CaptureInv, TransferTyped
  <2>2. NothingPassedOver'
    BY <1>1, TransferAssumption DEF NextChunk, CaptureInv, TransferTyped, NothingPassedOver
  <2> QED
    BY <1>1, <2>1, <2>2 DEF NextChunk, CaptureInv, CheckpointIsPrefix, MemoryIsPrefix,
                            ReportIsBacked, PublishedIsOver
<1>2. CASE CancelSender
  BY <1>2 DEF CancelSender, CaptureInv, TransferTyped, CheckpointIsPrefix,
              MemoryIsPrefix, ReportIsBacked, NothingPassedOver, PublishedIsOver
<1>3. CASE CreateSender
  <2>1. TransferTyped' /\ NothingPassedOver'
    BY <1>3, TransferAssumption DEF CreateSender, CaptureInv, TransferTyped,
                                    NothingPassedOver, NewSender
  <2> QED
    BY <1>3, <2>1 DEF CreateSender, CaptureInv, CheckpointIsPrefix, MemoryIsPrefix,
                      ReportIsBacked, PublishedIsOver
<1>4. CASE ResumeFrom
  <2>1. receiver \in Receivers /\ sender' = [sender EXCEPT !.next_index = receiver.next_index]
    BY <1>4 DEF ResumeFrom, CaptureInv, TransferTyped
  <2>2. TransferTyped'
    BY <1>4, <2>1 DEF ResumeFrom, CaptureInv, TransferTyped, Receivers
  <2>3. NothingPassedOver'
    BY <1>4, <2>1 DEF ResumeFrom, CaptureInv, TransferTyped, ReportIsBacked,
                      NothingPassedOver, Receivers
  <2> QED
    BY <1>4, <2>2, <2>3 DEF ResumeFrom, CaptureInv, CheckpointIsPrefix, MemoryIsPrefix,
                            ReportIsBacked, PublishedIsOver
<1>5. ASSUME NEW i \in Indices, Acknowledge(i)
      PROVE  CaptureInv'
  <2>1. TransferTyped'
    BY <1>5 DEF Acknowledge, CaptureInv, TransferTyped
  <2>2. NothingPassedOver'
    BY <1>5 DEF Acknowledge, CaptureInv, TransferTyped, CheckpointIsPrefix, NothingPassedOver
  <2> QED
    BY <1>5, <2>1, <2>2 DEF Acknowledge, CaptureInv, CheckpointIsPrefix, MemoryIsPrefix,
                            ReportIsBacked, PublishedIsOver
<1> QED
  BY <1>1, <1>2, <1>3, <1>4, <1>5

-----------------------------------------------------------------------------
(* The receiver's operations.                                              *)

(* The chunk a receiver accepts is the next one, in memory and, when it is *)
(* stored, in the checkpoint.                                              *)
LEMMA AcceptedIsNext ==
    ASSUME CaptureInv, NEW i \in Indices, NEW intact,
           receiver # Down, Accepts(receiver, i, intact)
    PROVE  /\ receiver \in Receivers /\ ~receiver.cancelled /\ ~receiver.complete
           /\ i = receiver.next_index /\ i + 1 \in 0 .. CHUNKS
           /\ Accepted(receiver, i) =
                 [receiver EXCEPT !.next_index = i + 1,
                                  !.bytes = [j \in 1 .. (i + 1) |-> j - 1]]
           /\ Accepted(receiver, i) \in Receivers
           /\ ~disk.removal => disk.chunks \cup {i} = 0 .. ((i + 1) - 1)
<1>1. receiver \in Receivers /\ ~receiver.cancelled /\ ~receiver.complete
  BY DEF CaptureInv, TransferTyped, Accepts, ReceiverActive
<1>2. i = receiver.next_index /\ i \in Nat /\ i + 1 \in 0 .. CHUNKS
  BY TransferAssumption DEF Accepts, Indices
<1>3. receiver.bytes = [j \in 1 .. i |-> j - 1]
  BY <1>1, <1>2 DEF CaptureInv, MemoryIsPrefix
<1>4. Append(receiver.bytes, i) = [j \in 1 .. (i + 1) |-> j - 1]
  <2>1. receiver.bytes \in Seq(Nat) /\ Len(receiver.bytes) = i
    BY <1>1, <1>2, <1>3 DEF Receivers
  <2> QED
    BY <1>2, <1>3, <2>1
<1>5. Append(receiver.bytes, i) \in Seq(Nat)
  BY <1>1, <1>2 DEF Receivers
<1>6. ~disk.removal => disk.chunks = 0 .. (i - 1)
  BY <1>1, <1>2 DEF CaptureInv, MemoryIsPrefix
<1>7. ~disk.removal => disk.chunks \cup {i} = 0 .. ((i + 1) - 1)
  BY <1>2, <1>6
<1>8. Accepted(receiver, i) = [receiver EXCEPT !.next_index = i + 1,
                                               !.bytes = Append(receiver.bytes, i)]
  BY <1>2 DEF Accepted
<1>9. Accepted(receiver, i) \in Receivers
  BY <1>1, <1>2, <1>5, <1>8 DEF Receivers
<1> QED
  BY <1>1, <1>2, <1>4, <1>7, <1>8, <1>9

LEMMA AcceptKeeps ==
    ASSUME CaptureInv, NEW i \in Indices, NEW intact \in BOOLEAN, Accept(i, intact)
    PROVE  CaptureInv'
<1>1. CASE Accepts(receiver, i, intact)
  <2>1. /\ receiver # Down /\ receiver' = Accepted(receiver, i)
        /\ disk' = [disk EXCEPT !.chunks = @ \cup {i}] /\ acks' = acks \cup {i}
        /\ UNCHANGED <<sender, lane, unstored, published>>
    BY <1>1, TransferAssumption DEF Accept, Accepts, Repeats, Indices
  <2>2. /\ receiver \in Receivers /\ ~receiver.cancelled /\ ~receiver.complete
        /\ receiver' = [receiver EXCEPT !.next_index = i + 1,
                                        !.bytes = [j \in 1 .. (i + 1) |-> j - 1]]
        /\ receiver' \in Receivers /\ i + 1 \in 0 .. CHUNKS
        /\ ~disk.removal => disk.chunks \cup {i} = 0 .. ((i + 1) - 1)
    BY <1>1, <2>1, AcceptedIsNext
  <2>3. TransferTyped'
    BY <2>1, <2>2 DEF CaptureInv, TransferTyped
  <2>4. CheckpointIsPrefix'
    BY <2>1, <2>2 DEF CaptureInv, TransferTyped, CheckpointIsPrefix
  <2>5. MemoryIsPrefix'
    BY <2>1, <2>2 DEF CaptureInv, TransferTyped, MemoryIsPrefix, Receivers
  <2>6. NothingPassedOver'
    BY <2>1 DEF CaptureInv, TransferTyped, NothingPassedOver
  <2>7. PublishedIsOver'
    BY <2>1, <2>2 DEF CaptureInv, PublishedIsOver
  <2>8. ReportIsBacked'
    BY <2>1, <2>2 DEF CaptureInv, TransferTyped, ReportIsBacked, Receivers
  <2> QED
    BY <2>3, <2>4, <2>5, <2>6, <2>7, <2>8 DEF CaptureInv
<1>2. CASE Repeats(receiver, i, intact)
  <2>1. /\ receiver # Down /\ receiver \in Receivers /\ ~receiver.cancelled
        /\ i \in 0 .. (receiver.next_index - 1)
        /\ UNCHANGED <<receiver, disk, sender, lane, unstored, published>> /\ acks' = acks \cup {i}
    BY <1>2, TransferAssumption DEF Accept, Accepts, Repeats, ReceiverActive, Indices,
                                    CaptureInv, TransferTyped, Receivers
  <2>2. ~disk.removal => i \in disk.chunks
    BY <2>1 DEF CaptureInv, MemoryIsPrefix
  <2> QED
    BY <2>1, <2>2 DEF CaptureInv, TransferTyped, CheckpointIsPrefix, MemoryIsPrefix,
                      ReportIsBacked, NothingPassedOver, PublishedIsOver
<1> QED
  BY <1>1, <1>2 DEF Accept

(* Dropping the bytes of a receiver, when it is cancelled or complete.     *)
LEMMA EmptiedReceiver ==
    ASSUME NEW r \in Receivers
    PROVE  /\ Cancelled(r) \in Receivers /\ Cancelled(r).cancelled
           /\ Cancelled(r).complete = r.complete
           /\ Cancelled(r).next_index = r.next_index
           /\ [r EXCEPT !.complete = TRUE, !.bytes = <<>>] \in Receivers
           /\ [r EXCEPT !.complete = TRUE, !.bytes = <<>>].complete
<1>1. <<>> \in Seq(Nat)
  OBVIOUS
<1>2. /\ Cancelled(r) \in Receivers /\ Cancelled(r).cancelled
      /\ Cancelled(r).complete = r.complete
      /\ Cancelled(r).next_index = r.next_index
  BY <1>1 DEF Cancelled, Receivers
<1>3. /\ [r EXCEPT !.complete = TRUE, !.bytes = <<>>] \in Receivers
      /\ [r EXCEPT !.complete = TRUE, !.bytes = <<>>].complete
  BY <1>1 DEF Receivers
<1> QED
  BY <1>2, <1>3

(* A storage error leaves the receiver one chunk ahead of the checkpoint,  *)
(* and cancelled.                                                          *)
LEMMA AcceptUnstoredKeeps ==
    ASSUME CaptureInv, NEW i \in Indices, AcceptUnstored(i)
    PROVE  CaptureInv'
<1>1. /\ receiver \in Receivers /\ Accepted(receiver, i) \in Receivers
      /\ ~receiver.complete /\ receiver # Down
      /\ Accepted(receiver, i).complete = receiver.complete
      /\ Accepted(receiver, i).next_index = i + 1
      /\ ~disk.removal => disk.chunks \cup {i} = 0 .. ((i + 1) - 1)
  <2>1. receiver # Down /\ Accepts(receiver, i, TRUE)
    BY DEF AcceptUnstored
  <2> QED
    BY <2>1, AcceptedIsNext DEF Receivers
<1>2. /\ receiver' \in Receivers /\ receiver'.cancelled /\ ~receiver'.complete
      /\ receiver'.next_index = i + 1
      /\ unstored' = unstored \cup {i}
      /\ UNCHANGED <<sender, disk, lane, acks, published>>
  BY <1>1, EmptiedReceiver DEF AcceptUnstored
<1>3. ReportIsBacked'
  BY <1>1, <1>2 DEF ReportIsBacked
<1>4. TransferTyped' /\ CheckpointIsPrefix' /\ MemoryIsPrefix'
  BY <1>1, <1>2 DEF CaptureInv, TransferTyped, CheckpointIsPrefix, MemoryIsPrefix
<1>5. NothingPassedOver' /\ PublishedIsOver'
  BY <1>1, <1>2 DEF CaptureInv, NothingPassedOver, PublishedIsOver
<1> QED
  BY <1>3, <1>4, <1>5 DEF CaptureInv

LEMMA AcceptAndStopKeeps ==
    ASSUME CaptureInv, NEW i \in Indices, AcceptAndStop(i)
    PROVE  CaptureInv'
<1>1. /\ receiver # Down /\ Accepts(receiver, i, TRUE) /\ receiver' = Down
      /\ disk' = [disk EXCEPT !.chunks = @ \cup {i}]
      /\ UNCHANGED <<sender, lane, acks, unstored, published>>
  BY DEF AcceptAndStop
<1>2. /\ i + 1 \in 0 .. CHUNKS
      /\ ~disk.removal => disk.chunks \cup {i} = 0 .. ((i + 1) - 1)
  BY <1>1, AcceptedIsNext
<1>3. /\ TransferTyped' /\ NothingPassedOver' /\ MemoryIsPrefix'
      /\ ReportIsBacked' /\ PublishedIsOver'
  BY <1>1 DEF CaptureInv, TransferTyped, MemoryIsPrefix, ReportIsBacked,
              NothingPassedOver, PublishedIsOver
<1>4. CheckpointIsPrefix'
  BY <1>1, <1>2 DEF CaptureInv, TransferTyped, CheckpointIsPrefix
<1> QED
  BY <1>3, <1>4 DEF CaptureInv

(* A resumed receiver holds what the one before it had retained.           *)
LEMMA ResumeKeeps ==
    ASSUME CaptureInv, Resume
    PROVE  CaptureInv'
<1> DEFINE n == FirstMissing
<1>1. /\ n \in 0 .. CHUNKS /\ n \notin disk.chunks
      /\ \A j \in 0 .. (n - 1) : j \in disk.chunks
  BY FirstMissingIsFirst DEF CaptureInv, TransferTyped
<1>2. disk.chunks = 0 .. (n - 1)
  <2>1. \A i \in disk.chunks : i \in Int /\ 0 <= i /\ i < n
    BY TransferAssumption DEF Resume, CaptureInv, TransferTyped, Indices
  <2>2. n \in Int
    BY <1>1, TransferAssumption
  <2> HIDE DEF n
  <2>3. \A i : i \in disk.chunks <=> i \in 0 .. (n - 1)
    BY <1>1, <2>1, <2>2
  <2> QED
    BY <2>3
<1>3. /\ receiver' = [next_index |-> n, bytes |-> [i \in 1 .. n |-> i - 1],
                      cancelled |-> FALSE, complete |-> FALSE]
      /\ disk.directory /\ UNCHANGED <<sender, disk, lane, acks, unstored, published>>
  BY DEF Resume, NewReceiver
<1> HIDE DEF n
<1>4. receiver' \in Receivers
  <2>1. n \in Nat /\ [i \in 1 .. n |-> i - 1] \in Seq(Nat)
    BY <1>1, TransferAssumption
  <2> QED
    BY <1>1, <1>3, <2>1 DEF Receivers
<1>5. MemoryIsPrefix' /\ ReportIsBacked'
  BY <1>2, <1>3 DEF MemoryIsPrefix, ReportIsBacked
<1> QED
  BY <1>3, <1>4, <1>5 DEF CaptureInv, TransferTyped, CheckpointIsPrefix, NothingPassedOver,
                          PublishedIsOver

(* Removal, whole or partial, is noted and ends every reliance on the      *)
(* checkpoint.                                                             *)
LEMMA RemovalKeeps ==
    ASSUME CaptureInv, disk' \in {NoDirectory} \cup PartlyRemoved,
           UNCHANGED <<sender, lane, acks, unstored>>,
           receiver' = Down \/ receiver' \in Receivers
    PROVE  /\ TransferTyped' /\ CheckpointIsPrefix' /\ ReportIsBacked'
           /\ NothingPassedOver' /\ disk'.removal
<1>1. /\ disk' \in [directory : BOOLEAN, checkpoint : BOOLEAN,
                     chunks : SUBSET Indices, removal : BOOLEAN]
      /\ disk'.removal
  <2>1. disk.chunks \in SUBSET Indices /\ disk.checkpoint \in BOOLEAN
    BY DEF CaptureInv, TransferTyped
  <2>2. CASE disk' = NoDirectory
    BY <2>2 DEF NoDirectory
  <2>3. CASE disk' \in PartlyRemoved
    <3>1. PICK c \in {FALSE, disk.checkpoint}, left \in SUBSET disk.chunks :
             disk' = [directory |-> TRUE, checkpoint |-> c, chunks |-> left,
                      removal |-> TRUE]
      BY <2>3 DEF PartlyRemoved
    <3>2. c \in BOOLEAN /\ left \in SUBSET Indices
      BY <2>1
    <3> QED
      BY <3>1, <3>2
  <2> QED
    BY <2>2, <2>3
<1> QED
  BY <1>1 DEF CaptureInv, TransferTyped, CheckpointIsPrefix, ReportIsBacked,
              NothingPassedOver

LEMMA FinishKeeps ==
    ASSUME CaptureInv, Finish
    PROVE  CaptureInv'
<1> DEFINE done == [receiver EXCEPT !.complete = TRUE, !.bytes = <<>>]
<1>1. /\ receiver # Down /\ receiver \in Receivers
      /\ ~receiver.cancelled /\ ~receiver.complete
      /\ receiver.bytes = Content /\ published = <<>>
      /\ UNCHANGED <<sender, lane, acks, unstored>>
  BY DEF Finish, Whole, CaptureInv, TransferTyped, PublishedIsOver
<1>2. done \in Receivers /\ done.complete
  BY <1>1, EmptiedReceiver
<1>3. \/ /\ disk' = NoDirectory /\ receiver' = done
         /\ published' = Append(published, receiver.bytes)
      \/ /\ disk' \in PartlyRemoved /\ receiver' \in {Down, done}
         /\ UNCHANGED published
  BY DEF Finish
<1> HIDE DEF done
<1>4. /\ TransferTyped' /\ CheckpointIsPrefix' /\ ReportIsBacked'
      /\ NothingPassedOver' /\ disk'.removal
  BY <1>1, <1>2, <1>3, RemovalKeeps
<1>5. MemoryIsPrefix'
  BY <1>2, <1>3, <1>4 DEF MemoryIsPrefix
<1>6. PublishedIsOver'
  <2>1. Append(<<>>, Content) = <<Content>>
    OBVIOUS
  <2> QED
    BY <1>1, <1>2, <1>3, <2>1 DEF PublishedIsOver, NoDirectory
<1> QED
  BY <1>4, <1>5, <1>6 DEF CaptureInv

LEMMA CancelReceiverKeeps ==
    ASSUME CaptureInv, CancelReceiver
    PROVE  CaptureInv'
<1>1. /\ receiver \in Receivers /\ disk.directory
      /\ receiver' = Cancelled(receiver)
      /\ disk' \in {NoDirectory} \cup PartlyRemoved
      /\ UNCHANGED <<sender, lane, acks, unstored, published>>
  BY DEF CancelReceiver, CaptureInv, TransferTyped
<1>2. receiver' \in Receivers /\ receiver'.cancelled
  BY <1>1, EmptiedReceiver
<1>3. /\ TransferTyped' /\ CheckpointIsPrefix' /\ ReportIsBacked'
      /\ NothingPassedOver' /\ disk'.removal
  BY <1>1, <1>2, RemovalKeeps
<1>4. MemoryIsPrefix' /\ PublishedIsOver'
  BY <1>1, <1>2, <1>3 DEF MemoryIsPrefix, PublishedIsOver, CaptureInv
<1> QED
  BY <1>3, <1>4 DEF CaptureInv

LEMMA TransferNextKeeps == CaptureInv /\ [TNext]_tvars => CaptureInv'
<1> SUFFICES ASSUME CaptureInv, [TNext]_tvars PROVE CaptureInv'
  OBVIOUS
<1>1. CASE UNCHANGED tvars
  BY <1>1 DEF tvars, CaptureInv, TransferTyped, CheckpointIsPrefix, MemoryIsPrefix,
              ReportIsBacked, NothingPassedOver, PublishedIsOver
<1>2. CASE Stop
  BY <1>2 DEF Stop, CaptureInv, TransferTyped, CheckpointIsPrefix, MemoryIsPrefix,
              ReportIsBacked, NothingPassedOver, PublishedIsOver
<1>3. CASE Tick
  BY <1>3 DEF Tick, CaptureInv, TransferTyped, CheckpointIsPrefix, MemoryIsPrefix,
              ReportIsBacked, NothingPassedOver, PublishedIsOver
<1> QED
  BY <1>1, <1>2, <1>3, SenderKeeps, AcceptKeeps, AcceptUnstoredKeeps,
     AcceptAndStopKeeps, ResumeKeeps, FinishKeeps, CancelReceiverKeeps DEF TNext

LEMMA CaptureInvHolds == TSpec => []CaptureInv
<1> QED
  BY TransferInitHolds, TransferNextKeeps, PTL DEF TSpec

(* For any number of chunks, losses, repetitions, stops and resumes,       *)
(* finish returns the content itself and returns it at most once (finish,  *)
(* resume).                                                                *)
THEOREM PublishedOnce == TSpec => []PublishedOnceAndWhole
<1>1. CaptureInv => PublishedOnceAndWhole
  BY DEF CaptureInv, PublishedIsOver, PublishedOnceAndWhole
<1> QED
  BY <1>1, CaptureInvHolds, PTL

(* For any number of chunks and any credit: every acknowledgement and all  *)
(* a sound receiver holds in memory is in the checkpoint, and a sender,    *)
(* resumed at whatever index a receiver reported, passes over no chunk but *)
(* one whose storing failed (accept, acknowledge, resume_index,            *)
(* resume_from).                                                           *)
THEOREM NothingReliedOnIsLost == TSpec => []TransferInv
<1>1. CaptureInv => TransferInv
  <2> SUFFICES ASSUME CaptureInv PROVE TransferInv
    OBVIOUS
  <2>1. AcknowledgedIsRetained /\ NothingPassedOver
    BY DEF CaptureInv, CheckpointIsPrefix, AcknowledgedIsRetained
  <2>2. ASSUME receiver # Down, ~disk.removal, ~receiver.cancelled
        PROVE  disk.chunks = 0 .. (receiver.next_index - 1)
               /\ Len(receiver.bytes) = receiver.next_index
    <3>1. /\ receiver \in Receivers /\ ~receiver.cancelled /\ ~receiver.complete
          /\ ~disk.removal
      BY <2>2 DEF CaptureInv, TransferTyped, MemoryIsPrefix
    <3>2. receiver.next_index \in Nat
      BY <3>1, TransferAssumption DEF Receivers
    <3>3. receiver.bytes = [i \in 1 .. receiver.next_index |-> i - 1]
      BY <2>2, <3>1 DEF CaptureInv, MemoryIsPrefix
    <3>4. Len(receiver.bytes) = receiver.next_index
      BY <3>2, <3>3
    <3> QED
      BY <2>2, <3>1, <3>4 DEF CaptureInv, MemoryIsPrefix
  <2> QED
    BY <2>1, <2>2 DEF TransferInv, MemoryIsCheckpoint
<1> QED
  BY <1>1, CaptureInvHolds, PTL

-----------------------------------------------------------------------------
(* The relay.  A call past the replay window keeps the request it was let  *)
(* through with, and holds it alone.                                       *)

Admitted(c) == calls[c].pc \notin {"idle", "failed"}

CallsTyped ==
    /\ DOMAIN calls = Calls
    /\ \A c \in Calls :
          DOMAIN calls[c] = {"pc", "request", "handler", "revision", "fetched"}

RelayInv ==
    /\ CallsTyped
    /\ \A c \in Calls : Admitted(c) => calls[c].request \in replays
    /\ \A c, d \in Calls :
          Admitted(c) /\ Admitted(d) /\ calls[c].request = calls[d].request
              => c = d

(* A call that keeps its request, and is not admitted by this step, keeps  *)
(* the invariant.                                                          *)
LEMMA CallMoves ==
    ASSUME RelayInv, NEW c \in Calls, UNCHANGED replays,
           \/ calls' = [calls EXCEPT ![c].pc = "failed"]
           \/ /\ Admitted(c)
              /\ \/ \E pc : calls' = [calls EXCEPT ![c].pc = pc]
                 \/ \E n : calls' = [calls EXCEPT ![c].fetched = n]
    PROVE  RelayInv'
<1>1. CallsTyped'
  BY DEF RelayInv, CallsTyped
<1>2. \A d \in Calls : /\ calls'[d].request = calls[d].request
                       /\ d # c => calls'[d] = calls[d]
  BY DEF RelayInv, CallsTyped
<1>3. calls' = [calls EXCEPT ![c].pc = "failed"] => ~Admitted(c)'
  BY DEF RelayInv, CallsTyped, Admitted
<1>4. \A d \in Calls : Admitted(d)' => Admitted(d)
  BY <1>2, <1>3 DEF Admitted
<1> QED
  BY <1>1, <1>2, <1>4 DEF RelayInv

(* The replay window admits a request that no call was admitted with.      *)
LEMMA CooperateKeeps ==
    ASSUME RelayInv, NEW c \in Calls, NEW r \in Requests, Cooperate(c, r)
    PROVE  RelayInv'
<1> DEFINE routed == [pc |-> "routed", request |-> r, handler |-> route,
                      revision |-> revision, fetched |-> 0]
<1>1. CASE r \notin replays /\ replays' = replays \cup {r}
           /\ calls' = [calls EXCEPT ![c] = routed]
  <2>1. /\ calls'[c] = routed /\ calls'[c].request = r
        /\ \A d \in Calls : d # c => calls'[d] = calls[d]
        /\ DOMAIN calls' = Calls
    BY <1>1 DEF RelayInv, CallsTyped
  <2>2. \A d \in Calls : d # c => (Admitted(d)' <=> Admitted(d))
    BY <2>1 DEF Admitted
  <2>3. CallsTyped'
    BY <2>1 DEF RelayInv, CallsTyped
  <2>4. \A d \in Calls : d # c /\ Admitted(d)' =>
           calls'[d].request \in replays /\ calls'[d].request # r
    BY <1>1, <2>1, <2>2 DEF RelayInv
  <2>5. \A d \in Calls : Admitted(d)' => calls'[d].request \in replays'
    BY <1>1, <2>1, <2>4
  <2>6. ASSUME NEW d \in Calls, NEW e \in Calls, Admitted(d)', Admitted(e)',
               calls'[d].request = calls'[e].request
        PROVE  d = e
    <3>1. CASE d = c \/ e = c
      BY <2>1, <2>4, <2>6, <3>1
    <3>2. CASE d # c /\ e # c
      BY <2>1, <2>2, <2>6, <3>2 DEF RelayInv
    <3> QED
      BY <3>1, <3>2
  <2> QED
    BY <2>3, <2>5, <2>6 DEF RelayInv
<1>2. CASE CallGoes(c, "failed") /\ UNCHANGED replays
  BY <1>2, CallMoves DEF CallGoes
<1> QED
  BY <1>1, <1>2 DEF Cooperate, Remembered

LEMMA CallStepKeeps ==
    ASSUME RelayInv, NEW c \in Calls,
           CallReturns(c) \/ FetchChunk(c) \/ AcknowledgeDelivery(c) \/ GiveUp(c)
    PROVE  RelayInv'
<1>1. Admitted(c) /\ UNCHANGED replays
  BY DEF CallReturns, Enqueue, Answered, TimeOut, Check, Receipt, FetchChunk,
         AcknowledgeDelivery, GiveUp, Admitted
<1>2. CASE FetchChunk(c)
  <2>1. \E n : calls' = [calls EXCEPT ![c].fetched = n]
    BY <1>2 DEF FetchChunk
  <2> QED
    BY <1>1, <2>1, CallMoves
<1>3. CASE CallReturns(c) \/ AcknowledgeDelivery(c) \/ GiveUp(c)
  <2>1. \E pc : CallGoes(c, pc)
    BY <1>3 DEF CallReturns, Enqueue, Answered, TimeOut, Check, Receipt,
                AcknowledgeDelivery, GiveUp
  <2> QED
    BY <1>1, <2>1, CallMoves DEF CallGoes
<1> QED
  BY <1>2, <1>3

LEMMA RelayNextKeeps == RelayInv /\ [RelayNext]_cvars => RelayInv'
<1> SUFFICES ASSUME RelayInv, [RelayNext]_cvars PROVE RelayInv'
  OBVIOUS
<1>1. CASE UNCHANGED <<calls, replays>>
  BY <1>1 DEF RelayInv, CallsTyped, Admitted
<1>2. CASE UNCHANGED cvars
  BY <1>1, <1>2 DEF cvars
<1>3. ASSUME NEW w \in Workers, WorkerStep(w)
      PROVE  UNCHANGED <<calls, replays>>
  BY <1>3 DEF WorkerStep, RegisterInRelay, RegisterInRoom, RollBackInRelay, Poll, Render,
              Offer, Deny, provide_response, UploadChunk, Uploaded, UnregisterInRelay,
              UnregisterInRoom, StopWorker
<1>4. CASE CommitRevision
  BY <1>1, <1>4 DEF CommitRevision
<1> QED
  BY <1>1, <1>2, <1>3, <1>4, CooperateKeeps, CallStepKeeps DEF RelayNext

LEMMA RelayInitHolds == RelayInit => RelayInv
<1> SUFFICES ASSUME RelayInit PROVE RelayInv
  OBVIOUS
<1>1. calls = [c \in Calls |-> [pc |-> "idle", request |-> 0, handler |-> 0,
                               revision |-> 0, fetched |-> 0]]
  BY DEF RelayInit
<1>2. \A c \in Calls : ~Admitted(c)
  BY <1>1 DEF Admitted
<1>3. CallsTyped
  BY <1>1 DEF CallsTyped
<1> QED
  BY <1>2, <1>3 DEF RelayInv

(* For any number of workers, requests and calls, and whatever was retried,*)
(* timed out, delivered or forgotten by the relay: two calls never both    *)
(* get the receipt of one request (authorize_once, cooperate).             *)
THEOREM OneReceipt == RelaySpec => []OneReceiptPerRequest
<1>1. RelayInv => OneReceiptPerRequest
  BY DEF RelayInv, OneReceiptPerRequest, HasReceipt, Admitted
<1> QED
  BY <1>1, RelayInitHolds, RelayNextKeeps, PTL DEF RelaySpec
=============================================================================
