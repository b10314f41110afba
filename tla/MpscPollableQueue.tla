------------------------- MODULE MpscPollableQueue -------------------------
(***************************************************************************)
(* MpscPollableQueue (tdutils/td/utils/MpscPollableQueue.h) with the event *)
(* file descriptor and the poll of the thread that reads it.  The reader   *)
(* is ServiceActor of a scheduler: it takes all there is, asks again, and  *)
(* sleeps when there is nothing; a writer wakes it only when it has said   *)
(* that it waits.                                                          *)
(*                                                                         *)
(* What runs under lock_ is one step.  The descriptor is polled by edges:  *)
(* a write is reported once, and only when the flag left by the report     *)
(* before it has been taken.                                               *)
(***************************************************************************)
EXTENDS Integers, Sequences

CONSTANTS Writers, MaxPuts

ASSUME QueueAssumption == MaxPuts \in Nat

VARIABLES
  writerVector,  \* writer_vector_
  readerVector,  \* reader_vector_ from reader_pos_ on
  waitEventFd,   \* wait_event_fd_
  edge,          \* event_fd_ has been written and poll has not reported it
  pollFlag,      \* the Read flag of event_fd_ that poll has left
  writerAt,      \* "idle", or "release": before event_fd_.release()
  readerAt,      \* "first" and "second": before a pass of reader_wait_nonblock;
                 \* "take": has events; "poll": in poll, nothing to do
  puts,          \* history: how many events each writer has put
  taken          \* history: the events the reader has taken

queueVars == <<writerVector, readerVector, waitEventFd, edge, pollFlag, writerAt, readerAt, puts, taken>>

----------------------------------------------------------------------------
\* writer_put up to the end of the lock.
WriterPut(w) ==
  /\ writerAt[w] = "idle" /\ puts[w] < MaxPuts
  /\ puts' = [puts EXCEPT ![w] = @ + 1]
  /\ writerVector' = Append(writerVector, <<w, puts[w] + 1>>)
  /\ IF waitEventFd
     THEN waitEventFd' = FALSE /\ writerAt' = [writerAt EXCEPT ![w] = "release"]
     ELSE UNCHANGED <<waitEventFd, writerAt>>
  /\ UNCHANGED <<readerVector, edge, pollFlag, readerAt, taken>>

\* event_fd_.release(), after the lock.
WriterRelease(w) ==
  /\ writerAt[w] = "release"
  /\ edge' = TRUE
  /\ writerAt' = [writerAt EXCEPT ![w] = "idle"]
  /\ UNCHANGED <<writerVector, readerVector, waitEventFd, pollFlag, readerAt, puts, taken>>

\* Poll reports the descriptor: ServiceActor is notified when the flag is new.
PollReports ==
  /\ readerAt = "poll" /\ edge
  /\ edge' = FALSE /\ pollFlag' = TRUE
  /\ readerAt' = IF pollFlag THEN "poll" ELSE "first"
  /\ UNCHANGED <<writerVector, readerVector, waitEventFd, writerAt, puts, taken>>

\* Where there is no poll for descriptors ServiceActor is notified after every
\* wait, also one that ended because its time was over.
WaitEnds ==
  /\ readerAt = "poll"
  /\ readerAt' = "first"
  /\ UNCHANGED <<writerVector, readerVector, waitEventFd, edge, pollFlag, writerAt, puts, taken>>

\* mutant: what was swapped in is not taken out
SwapCopies == readerVector' = writerVector /\ UNCHANGED writerVector

Swap == readerVector' = writerVector /\ writerVector' = <<>>

\* A pass of reader_wait_nonblock that finds events.
TakeOver ==
  /\ writerVector # <<>>
  /\ Swap
  /\ readerAt' = "take"
  /\ UNCHANGED <<waitEventFd, edge, pollFlag>>

\* mutant: one pass, without acquire
FirstPassOnly ==
  /\ readerAt = "first"
  /\ \/ TakeOver
     \/ /\ writerVector = <<>>
        /\ waitEventFd' = TRUE /\ readerAt' = "poll"
        /\ UNCHANGED <<writerVector, readerVector, edge, pollFlag>>
  /\ UNCHANGED <<writerAt, puts, taken>>

\* The pass with i = 0: event_fd_.acquire() takes the signal and the flag.
FirstPass ==
  /\ readerAt = "first"
  /\ \/ TakeOver
     \/ /\ writerVector = <<>>
        /\ edge' = FALSE /\ pollFlag' = FALSE /\ readerAt' = "second"
        /\ UNCHANGED <<writerVector, readerVector, waitEventFd>>
  /\ UNCHANGED <<writerAt, puts, taken>>

\* The pass with i = 1, and the return to poll.
SecondPass ==
  /\ readerAt = "second"
  /\ \/ TakeOver
     \/ /\ writerVector = <<>>
        /\ waitEventFd' = TRUE /\ readerAt' = "poll"
        /\ UNCHANGED <<writerVector, readerVector, edge, pollFlag>>
  /\ UNCHANGED <<writerAt, puts, taken>>

\* reader_get_unsafe; after the last event ServiceActor yields and asks again.
ReaderGet ==
  /\ readerAt = "take"
  /\ taken' = Append(taken, Head(readerVector))
  /\ readerVector' = Tail(readerVector)
  /\ readerAt' = IF Tail(readerVector) = <<>> THEN "first" ELSE "take"
  /\ UNCHANGED <<writerVector, waitEventFd, edge, pollFlag, writerAt, puts>>

\* ServiceActor::start_up yields: the first pass comes before the first wait.
QueueInit ==
  /\ writerVector = <<>> /\ readerVector = <<>> /\ waitEventFd = FALSE
  /\ edge = FALSE /\ pollFlag = FALSE
  /\ writerAt = [w \in Writers |-> "idle"] /\ readerAt = "first"
  /\ puts = [w \in Writers |-> 0] /\ taken = <<>>

ReaderStep == PollReports \/ FirstPass \/ SecondPass \/ ReaderGet

QueueNext ==
  \/ ReaderStep \/ WaitEnds
  \/ \E w \in Writers : WriterPut(w) \/ WriterRelease(w)

QueueSpec == QueueInit /\ [][QueueNext]_queueVars

\* Threads run; no wait has to end by itself.
QueueFair ==
  /\ WF_queueVars(ReaderStep)
  /\ \A w \in Writers : WF_queueVars(WriterRelease(w))
QueueFairSpec == QueueSpec /\ QueueFair

----------------------------------------------------------------------------
(* Properties.                                                             *)

QueueEvents == Writers \X Nat

VectorsTypeOK ==
  /\ writerVector \in Seq(QueueEvents) /\ readerVector \in Seq(QueueEvents)
  /\ puts \in [Writers -> Nat] /\ taken \in Seq(QueueEvents)

FlagsTypeOK ==
  /\ waitEventFd \in BOOLEAN /\ edge \in BOOLEAN /\ pollFlag \in BOOLEAN
  /\ writerAt \in [Writers -> {"idle", "release"}]
  /\ readerAt \in {"first", "second", "take", "poll"}

\* The queue and its threads have their types.
QueueTypeOK == VectorsTypeOK /\ FlagsTypeOK

\* A report of the descriptor is there or about to be.
Waking == edge \/ \E w \in Writers : writerAt[w] = "release"

\* The reader does not sleep through an event (writer_put, reader_wait_nonblock):
\* when it is in poll and there are events, a report that it will act on is there
\* or a writer is about to cause one.
NoSleepThroughEvents ==
  readerAt = "poll" /\ writerVector # <<>> => Waking /\ ~pollFlag

\* What makes NoSleepThroughEvents inductive: where the reader is says what it has
\* left behind, and a reader that waits has found nothing under the lock.
SleepInv ==
  /\ readerAt = "take" <=> readerVector # <<>>
  /\ readerAt \in {"second", "poll"} => ~pollFlag
  /\ readerAt = "poll" => Waking \/ (waitEventFd /\ writerVector = <<>>)

\* The queue is first in, first out, loses nothing, and no event waits for ever:
\* reader_vector_ followed by writer_vector_ is such a queue.
Fifo == INSTANCE FifoQueue WITH contents <- readerVector \o writerVector
QueueIsFifo == Fifo!FifoSpec
============================================================================
