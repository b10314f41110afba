------------------------------ MODULE MCActors ------------------------------
(***************************************************************************)
(* tdactor, in two parts that share no state.                              *)
(*                                                                         *)
(* "actors": two schedulers, a thread outside and two actors, in three     *)
(* scenarios: actors on different schedulers that write to each other      *)
(* while one moves; actors with timeouts that move twice and stop; an      *)
(* actor that is created while the other moves and stops.                  *)
(*                                                                         *)
(* "queue": the queue between schedulers, with two writers.                *)
(***************************************************************************)
EXTENDS ActorScheduler, MpscPollableQueue

CONSTANTS s1, s2, a1, a2

VARIABLE part

Home(x, y) == [z \in Actors |-> IF z = a1 THEN x ELSE y]

NoWork ==
  [home |-> Home(s1, s2), unborn |-> {}, timers |-> {}, events |-> 0, moves |-> 0, stops |-> 0]

MCPlans == {
  NoWork,
  [home |-> Home(s1, s2), unborn |-> {}, timers |-> {}, events |-> 4, moves |-> 1, stops |-> 0],
  [home |-> Home(s1, s1), unborn |-> {}, timers |-> {a1, a2}, events |-> 3, moves |-> 2, stops |-> 1],
  [home |-> Home(s1, s1), unborn |-> {a2}, timers |-> {}, events |-> 3, moves |-> 1, stops |-> 1]}

\* A queue whose reader waits owes no step.
QueueAtRest ==
  /\ writerVector = <<>> /\ readerVector = <<>> /\ waitEventFd = TRUE
  /\ edge = FALSE /\ pollFlag = FALSE
  /\ writerAt = [w \in Writers |-> "idle"] /\ readerAt = "poll"
  /\ puts = [w \in Writers |-> 0] /\ taken = <<>>

PartsInit ==
  /\ SchedulerInit
  /\ \/ part = "actors" /\ plan # NoWork /\ QueueAtRest
     \/ part = "queue" /\ plan = NoWork /\ QueueInit

PartsNext ==
  /\ UNCHANGED part
  /\ \/ part = "actors" /\ SchedulerNext /\ UNCHANGED queueVars
     \/ part = "queue" /\ QueueNext /\ UNCHANGED schedulerVars

PartsSpec ==
  /\ PartsInit
  /\ [][PartsNext]_<<part, schedulerVars, queueVars>>
  /\ SchedulerFair /\ QueueFair
=============================================================================
