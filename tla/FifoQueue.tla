----------------------------- MODULE FifoQueue -----------------------------
(***************************************************************************)
(* What the schedulers of tdactor expect of the queue through which other  *)
(* threads send them events: each event is taken once, in the order in     *)
(* which the events were put, and none waits for ever.                     *)
(***************************************************************************)
EXTENDS Integers, Sequences

CONSTANTS
  Writers,      \* the threads that put events
  MaxPuts       \* bound on the events of one writer

VARIABLES
  contents,     \* the events in the queue, oldest first
  taken,        \* the events taken, in order
  puts          \* puts[w]: how many events w has put

fifoVars == <<contents, taken, puts>>

\* The i-th event of w.
QueueEvent(w, i) == <<w, i>>

FifoPut(w) ==
  /\ puts[w] < MaxPuts
  /\ puts' = [puts EXCEPT ![w] = @ + 1]
  /\ contents' = Append(contents, QueueEvent(w, puts[w] + 1))
  /\ UNCHANGED taken

FifoGet ==
  /\ contents # <<>>
  /\ taken' = Append(taken, Head(contents))
  /\ contents' = Tail(contents)
  /\ UNCHANGED puts

FifoInit == contents = <<>> /\ taken = <<>> /\ puts = [w \in Writers |-> 0]

FifoNext == FifoGet \/ \E w \in Writers : FifoPut(w)

FifoSafe == FifoInit /\ [][FifoNext]_fifoVars

FifoSpec == FifoSafe /\ WF_fifoVars(FifoGet)
============================================================================
