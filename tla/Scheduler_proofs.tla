-------------------------- MODULE Scheduler_proofs --------------------------
(***************************************************************************)
(* RunsAtHome of ActorScheduler for any number of schedulers, actors and   *)
(* events.                                                                 *)
(*                                                                         *)
(* The invariant says where an actor is: at one scheduler, or on its way   *)
(* to one in a message that is there once.  What a thread has on its       *)
(* stack, in its lists, among its timeouts or waiting for an actor in      *)
(* pending_events_ then fits that place.                                   *)
(***************************************************************************)
EXTENDS ActorScheduler, TLAPS

\* Leaves that name no prover are for Zenon.
USE ZenonT(60)

----------------------------------------------------------------------------
(* Sequences, by their places. *)

\* One more at the end.
LEMMA AppendPlaces ==
  ASSUME NEW S, NEW q \in Seq(S), NEW x \in S
  PROVE  /\ Append(q, x) \in Seq(S) /\ Len(Append(q, x)) = Len(q) + 1
         /\ DOMAIN Append(q, x) = DOMAIN q \cup {Len(q) + 1} /\ Len(q) + 1 \notin DOMAIN q
         /\ \A i \in DOMAIN q : Append(q, x)[i] = q[i] /\ i < Len(q) + 1
         /\ Append(q, x)[Len(q) + 1] = x
         /\ Append(q, x) # <<>>
<1>1. DOMAIN q = 1..Len(q) /\ Len(q) \in Nat
  BY SMTT(60)
<1>2. Append(q, x) \in Seq(S) /\ Len(Append(q, x)) = Len(q) + 1 /\ DOMAIN Append(q, x) = 1..(Len(q) + 1)
  BY SMTT(60)
<1>3. DOMAIN Append(q, x) = DOMAIN q \cup {Len(q) + 1} /\ Len(q) + 1 \notin DOMAIN q
  BY <1>1, <1>2, SMTT(60)
<1>4. /\ \A i \in DOMAIN q : Append(q, x)[i] = q[i] /\ i < Len(q) + 1
      /\ Append(q, x)[Len(q) + 1] = x
  BY <1>1, SMTT(60)
<1>5. Append(q, x) # <<>>
  BY <1>1, <1>2, SMTT(60)
<1> QED BY <1>2, <1>3, <1>4, <1>5

\* One less at the front.
LEMMA TailPlaces ==
  ASSUME NEW S, NEW q \in Seq(S), q # <<>>
  PROVE  /\ Tail(q) \in Seq(S) /\ 1 \in DOMAIN q /\ Head(q) = q[1] /\ Head(q) \in S
         /\ \A i \in DOMAIN Tail(q) : i \in Nat /\ i + 1 \in DOMAIN q /\ i + 1 # 1 /\ Tail(q)[i] = q[i + 1]
<1>1. Len(q) \in Nat /\ Len(q) > 0 /\ DOMAIN q = 1..Len(q)
  BY SMTT(60)
<1>2. Tail(q) \in Seq(S) /\ Len(Tail(q)) = Len(q) - 1 /\ DOMAIN Tail(q) = 1..(Len(q) - 1)
  BY <1>1, SMTT(60)
<1>3. \A i \in 1..(Len(q) - 1) : Tail(q)[i] = q[i + 1]
  BY <1>1, SMTT(60)
<1>4. 1 \in DOMAIN q /\ Head(q) = q[1] /\ Head(q) \in S
  BY <1>1, SMTT(60)
<1>5. \A i \in 1..(Len(q) - 1) : i \in Nat /\ i + 1 \in DOMAIN q /\ i + 1 # 1
  BY <1>1, SMTT(60)
<1> QED BY <1>2, <1>3, <1>4, <1>5

\* One more at the front.
LEMMA PushPlaces ==
  ASSUME NEW S, NEW q \in Seq(S), NEW x \in S
  PROVE  /\ <<x>> \o q \in Seq(S) /\ 1 \in DOMAIN (<<x>> \o q) /\ (<<x>> \o q)[1] = x
         /\ \A i \in DOMAIN (<<x>> \o q) : i # 1 => i \in Int /\ i - 1 \in DOMAIN q /\ (<<x>> \o q)[i] = q[i - 1]
         /\ \A i \in DOMAIN q : i + 1 \in DOMAIN (<<x>> \o q) /\ (<<x>> \o q)[i + 1] = q[i]
<1>1. Len(q) \in Nat /\ DOMAIN q = 1..Len(q)
  BY SMTT(60)
<1>2. <<x>> \in Seq(S) /\ Len(<<x>>) = 1 /\ <<x>>[1] = x
  BY SMTT(60)
<1>3. <<x>> \o q \in Seq(S) /\ Len(<<x>> \o q) = 1 + Len(q)
  BY <1>1, <1>2, SMTT(60)
<1>4. DOMAIN (<<x>> \o q) = 1..(1 + Len(q))
  BY <1>3, SMTT(60)
<1>5. \A i \in 1..(1 + Len(q)) : (<<x>> \o q)[i] = IF i <= 1 THEN <<x>>[i] ELSE q[i - 1]
  BY <1>1, <1>2, SMTT(60)
<1> QED BY <1>1, <1>2, <1>3, <1>4, <1>5, SMTT(60)

\* Another one at the front.
LEMMA SwapPlaces ==
  ASSUME NEW S, NEW q \in Seq(S), NEW x \in S, q # <<>>
  PROVE  /\ <<x>> \o Tail(q) \in Seq(S) /\ DOMAIN (<<x>> \o Tail(q)) = DOMAIN q
         /\ 1 \in DOMAIN q /\ (<<x>> \o Tail(q))[1] = x
         /\ \A i \in DOMAIN q : i # 1 => (<<x>> \o Tail(q))[i] = q[i]
<1>1. Len(q) \in Nat /\ Len(q) > 0 /\ DOMAIN q = 1..Len(q)
  BY SMTT(60)
<1>2. Tail(q) \in Seq(S) /\ Len(Tail(q)) = Len(q) - 1
  BY <1>1, SMTT(60)
<1>3. \A i \in 1..(Len(q) - 1) : Tail(q)[i] = q[i + 1]
  BY <1>1, SMTT(60)
<1>4. <<x>> \in Seq(S) /\ Len(<<x>>) = 1 /\ <<x>>[1] = x
  BY SMTT(60)
<1>5. <<x>> \o Tail(q) \in Seq(S) /\ Len(<<x>> \o Tail(q)) = Len(q)
  BY <1>1, <1>2, <1>4, SMTT(60)
<1>6. DOMAIN (<<x>> \o Tail(q)) = 1..Len(q)
  BY <1>5, SMTT(60)
<1>7. \A i \in 1..Len(q) : (<<x>> \o Tail(q))[i] = IF i <= 1 THEN <<x>>[i] ELSE Tail(q)[i - 1]
  BY <1>1, <1>2, <1>4, SMTT(60)
<1>8. (<<x>> \o Tail(q))[1] = x /\ 1 \in DOMAIN q
  BY <1>1, <1>4, <1>7, SMTT(60)
<1>9. ASSUME NEW i \in DOMAIN q, i # 1 PROVE (<<x>> \o Tail(q))[i] = q[i]
  <2>1. i \in 1..Len(q) /\ ~(i <= 1) /\ i - 1 \in 1..(Len(q) - 1) /\ (i - 1) + 1 = i
    BY <1>1, <1>9, SMTT(60)
  <2> QED BY <1>3, <1>7, <2>1
<1> QED BY <1>1, <1>5, <1>6, <1>8, <1>9

\* Without the first k.
LEMMA DropPlaces ==
  ASSUME NEW S, NEW q \in Seq(S), NEW k \in Nat, k <= Len(q)
  PROVE  /\ SubSeq(q, k + 1, Len(q)) \in Seq(S)
         /\ \A i \in DOMAIN SubSeq(q, k + 1, Len(q)) :
              i \in Nat /\ i > 0 /\ k + i \in DOMAIN q /\ SubSeq(q, k + 1, Len(q))[i] = q[k + i]
         /\ k < Len(q) => SubSeq(q, k + 1, Len(q)) # <<>>
<1>1. Len(q) \in Nat /\ DOMAIN q = 1..Len(q) /\ \A j \in 1..Len(q) : q[j] \in S
  BY SMTT(60)
<1> DEFINE r == SubSeq(q, k + 1, Len(q))
<1>2. r = [i \in 1..(1 + Len(q) - (k + 1)) |-> q[i + (k + 1) - 1]]
  BY <1>1, SMTT(60)
<1>3. Len(q) - k \in Nat /\ 1 + Len(q) - (k + 1) = Len(q) - k
  BY <1>1, SMTT(60)
<1>4. \A i \in 1..(Len(q) - k) : i + (k + 1) - 1 = k + i /\ k + i \in 1..Len(q) /\ i \in Nat /\ i > 0
  BY <1>1, SMTT(60)
<1>5. r = [i \in 1..(Len(q) - k) |-> q[i + (k + 1) - 1]]
  BY <1>2, <1>3
<1>6. \A i \in 1..(Len(q) - k) : r[i] = q[k + i]
  BY <1>4, <1>5
<1>7. DOMAIN r = 1..(Len(q) - k)
  BY <1>5
<1>8. r \in Seq(S)
  BY <1>1, <1>3, <1>4, <1>5, SMTT(60)
<1>9. k < Len(q) => r # <<>>
  <2>1. k < Len(q) => 1 \in DOMAIN r
    BY <1>1, <1>7, SMTT(60)
  <2>2. DOMAIN <<>> = {}
    BY SMTT(60)
  <2> QED BY <2>1, <2>2
<1> HIDE DEF r
<1>10. r \in Seq(S) /\ \A i \in DOMAIN r : i \in Nat /\ i > 0 /\ k + i \in DOMAIN q /\ r[i] = q[k + i]
  BY <1>1, <1>4, <1>6, <1>7, <1>8
<1> QED BY <1>9, <1>10 DEF r

\* One after the other.
LEMMA ConcatPlaces ==
  ASSUME NEW S, NEW q \in Seq(S), NEW r \in Seq(S)
  PROVE  /\ q \o r \in Seq(S) /\ Len(q \o r) = Len(q) + Len(r)
         /\ \A i \in DOMAIN (q \o r) :
              \/ i \in DOMAIN q /\ (q \o r)[i] = q[i]
              \/ i \in Int /\ i > Len(q) /\ i - Len(q) \in DOMAIN r /\ (q \o r)[i] = r[i - Len(q)]
         /\ q \o r = <<>> <=> q = <<>> /\ r = <<>>
<1>1. /\ Len(q) \in Nat /\ DOMAIN q = 1..Len(q)
      /\ Len(r) \in Nat /\ DOMAIN r = 1..Len(r)
  BY SMTT(60)
<1>2. q \o r \in Seq(S) /\ Len(q \o r) = Len(q) + Len(r)
  BY SMTT(60)
<1>3. DOMAIN (q \o r) = 1..(Len(q) + Len(r))
  BY <1>2, SMTT(60)
<1>4. \A i \in 1..(Len(q) + Len(r)) : (q \o r)[i] = IF i <= Len(q) THEN q[i] ELSE r[i - Len(q)]
  BY <1>1, SMTT(60)
<1>5. ASSUME NEW i \in DOMAIN (q \o r)
      PROVE  \/ i \in DOMAIN q /\ (q \o r)[i] = q[i]
             \/ i \in Int /\ i > Len(q) /\ i - Len(q) \in DOMAIN r /\ (q \o r)[i] = r[i - Len(q)]
  <2>1. CASE i <= Len(q)
    BY <1>1, <1>3, <1>4, <2>1, SMTT(60)
  <2>2. CASE ~(i <= Len(q))
    <3>1. i \in Int /\ i > Len(q) /\ i - Len(q) \in 1..Len(r)
      BY <1>1, <1>3, <2>2, SMTT(60)
    <3> QED BY <1>1, <1>3, <1>4, <2>2, <3>1
  <2> QED BY <2>1, <2>2
<1>6. (q = <<>> <=> Len(q) = 0) /\ (r = <<>> <=> Len(r) = 0) /\ (q \o r = <<>> <=> Len(q \o r) = 0)
  BY <1>2, SMTT(60)
<1>7. q \o r = <<>> <=> q = <<>> /\ r = <<>>
  BY <1>1, <1>2, <1>6, SMTT(60)
<1> QED BY <1>2, <1>5, <1>7
LEMMA ListTail ==
  ASSUME NEW S, NEW q \in Seq(S), q # <<>>, IsInjective(q)
  PROVE  /\ Tail(q) \in Seq(S) /\ IsInjective(Tail(q)) /\ Range(Tail(q)) = Range(q) \ {Head(q)}
         /\ Head(q) \in Range(q)
<1>1. /\ Tail(q) \in Seq(S) /\ 1 \in DOMAIN q /\ Head(q) = q[1]
      /\ \A i \in DOMAIN Tail(q) : i \in Nat /\ i + 1 \in DOMAIN q /\ i + 1 # 1 /\ Tail(q)[i] = q[i + 1]
  BY TailPlaces
<1>2. \A i \in DOMAIN q : i # 1 => i - 1 \in DOMAIN Tail(q) /\ (i - 1) + 1 = i
  BY <1>1, SMTT(60)
<1>3. \A i, j \in DOMAIN q : q[i] = q[j] => i = j
  BY DEF IsInjective
<1>4. ASSUME NEW i \in DOMAIN Tail(q), NEW j \in DOMAIN Tail(q), Tail(q)[i] = Tail(q)[j] PROVE i = j
  <2>1. q[i + 1] = q[j + 1] /\ i + 1 \in DOMAIN q /\ j + 1 \in DOMAIN q /\ i \in Nat /\ j \in Nat
    BY <1>1, <1>4
  <2>2. i + 1 = j + 1
    BY <1>3, <2>1
  <2> QED BY <2>1, <2>2, SMTT(60)
<1>5. IsInjective(Tail(q))
  BY <1>4 DEF IsInjective
<1>6. Range(Tail(q)) = Range(q) \ {Head(q)}
  <2>1. ASSUME NEW i \in DOMAIN Tail(q) PROVE Tail(q)[i] \in Range(q) \ {Head(q)}
    BY <1>1, <1>3 DEF Range
  <2>2. ASSUME NEW i \in DOMAIN q, q[i] # Head(q) PROVE q[i] \in Range(Tail(q))
    <3>1. i # 1
      BY <1>1, <2>2
    <3>2. i - 1 \in DOMAIN Tail(q) /\ Tail(q)[i - 1] = q[i]
      BY <1>1, <1>2, <3>1
    <3> QED BY <3>2 DEF Range
  <2> QED BY <2>1, <2>2 DEF Range
<1> QED BY <1>1, <1>5, <1>6 DEF Range

----------------------------------------------------------------------------
(* Where actors are.                                                       *)

Events == [from : Actors \cup {Outside, "start"}, to : Actors, n : Nat, moves : Nat]

WireMessages ==
  [kind : {"event"}, to : Actors, event : Events] \cup [kind : {"actor"}, to : Actors]

Flags == {"none", "stop", "tear_down", "migrate"}
FrameRecords ==
  [actor : Actors, left : Nat, done : Nat, flag : Flags, dest : Schedulers \cup {Nothing}]

ActorsTypeOK ==
  /\ plan \in PlanRecords
  /\ schedId \in [Actors -> [dest : Schedulers, migrating : BOOLEAN]]
  /\ alive \subseteq Actors /\ unborn \subseteq Actors /\ alive \cap unborn = {}
  /\ moves \in [Actors -> Nat] /\ sent \in Nat

ListsTypeOK ==
  /\ ready \in [Schedulers -> Seq(Actors)] /\ batch \in [Schedulers -> Seq(Actors)]
  /\ stack \in [Schedulers -> Seq(FrameRecords)]
  /\ timeouts \in [Schedulers -> SUBSET Actors]

EventsTypeOK ==
  /\ mailbox \in [Actors -> Seq(Events)]
  /\ pendingEvents \in [Schedulers -> [Actors -> Seq(Events)]]
  /\ inbound \in [Schedulers -> Seq(WireMessages)]
  /\ sending \in [Threads -> {Nothing} \cup (Schedulers \X WireMessages)]
  /\ handled \in Seq(Events)

RunsAt(s, a) == \E i \in DOMAIN stack[s] : stack[s][i].actor = a

\* A handler runs an actor that is here, runs it once, and runs what its
\* mailbox holds.
FrameOK(s, i) ==
  /\ stack[s][i].actor \in alive /\ IsHere(s, stack[s][i].actor)
  /\ \A j \in DOMAIN stack[s] : stack[s][i].actor = stack[s][j].actor => i = j
  /\ stack[s][i].left + stack[s][i].done <= Len(mailbox[stack[s][i].actor])
  /\ stack[s][i].flag = "migrate" => stack[s][i].dest \in Schedulers

StackInv == \A s \in Schedulers : \A i \in DOMAIN stack[s] : FrameOK(s, i)

\* A list names actors with mail that are here and do not run, each once.
ListInv ==
  \A s \in Schedulers :
    /\ \A a \in Listed(s) : a \in alive /\ IsHere(s, a) /\ mailbox[a] # <<>> /\ ~RunsAt(s, a)
    /\ IsInjective(ready[s]) /\ IsInjective(batch[s]) /\ Range(ready[s]) \cap Range(batch[s]) = {}

TimerInv ==
  \A s \in Schedulers : \A a \in timeouts[s] : a \in alive /\ IsHere(s, a)

\* An actor on its way is in one message, to the scheduler it goes to.
OnWay(s, a) == a \in alive /\ schedId[a] = [dest |-> s, migrating |-> TRUE]

CarriedTo(s, i, a) == i \in DOMAIN inbound[s] /\ inbound[s][i].kind = "actor" /\ inbound[s][i].to = a
CarriedBy(t, a) == sending[t] # Nothing /\ sending[t][2].kind = "actor" /\ sending[t][2].to = a

CarrierInv ==
  \A a \in Actors :
    /\ \A s \in Schedulers : \A i : CarriedTo(s, i, a) => OnWay(s, a) /\ \A j : CarriedTo(s, j, a) => i = j
    /\ \A t \in Threads : CarriedBy(t, a) =>
         /\ OnWay(sending[t][1], a)
         /\ \A s \in Schedulers : \A i : ~CarriedTo(s, i, a)
         /\ \A u \in Threads : CarriedBy(u, a) => u = t

HomeInv ==
  /\ ActorsTypeOK /\ ListsTypeOK /\ EventsTypeOK
  /\ StackInv /\ ListInv /\ TimerInv /\ CarrierInv

\* An actor is in one place.
LEMMA OnePlace ==
  ASSUME NEW s, NEW u, NEW a
  PROVE  /\ IsHere(s, a) /\ IsHere(u, a) => s = u
         /\ IsHere(s, a) => ~OnWay(u, a)
         /\ OnWay(s, a) /\ OnWay(u, a) => s = u
         /\ IsHere(s, a) => schedId[a].dest = s
<1>1. [dest |-> s, migrating |-> FALSE] = [dest |-> u, migrating |-> FALSE] => s = u
  BY SMTT(60)
<1>2. [dest |-> s, migrating |-> FALSE] # [dest |-> u, migrating |-> TRUE]
  BY SMTT(60)
<1>3. [dest |-> s, migrating |-> TRUE] = [dest |-> u, migrating |-> TRUE] => s = u
  BY SMTT(60)
<1>4. [dest |-> s, migrating |-> FALSE].dest = s
  OBVIOUS
<1>5. IsHere(s, a) /\ IsHere(u, a) => s = u
  BY <1>1 DEF IsHere
<1>6. IsHere(s, a) => ~OnWay(u, a)
  BY <1>2 DEF IsHere, OnWay
<1>7. OnWay(s, a) /\ OnWay(u, a) => s = u
  BY <1>3 DEF OnWay
<1>8. IsHere(s, a) => schedId[a].dest = s
  BY <1>4 DEF IsHere
<1> QED BY <1>5, <1>6, <1>7, <1>8

\* What a thread is about to put into a queue.
LEMMA SendingIs ==
  ASSUME EventsTypeOK, NEW t \in Threads, sending[t] # Nothing
  PROVE  /\ sending[t] \in Schedulers \X WireMessages
         /\ sending[t][1] \in Schedulers /\ sending[t][2] \in WireMessages
<1>1. sending[t] \in Schedulers \X WireMessages
  BY DEF EventsTypeOK
<1> HIDE DEF WireMessages
<1> QED BY <1>1, SMTT(60)

\* An actor that is here runs only here.
LEMMA RunningIs ==
  ASSUME StackInv, NEW s \in Schedulers, NEW a, IsHere(s, a)
  PROVE  Running(a) <=> RunsAt(s, a)
<1>1. ASSUME NEW u \in Schedulers, RunsAt(u, a) PROVE u = s
  <2>1. IsHere(u, a)
    BY <1>1 DEF StackInv, FrameOK, RunsAt
  <2> QED BY <2>1, OnePlace
<1>2. Running(a) <=> \E u \in Schedulers : RunsAt(u, a)
  BY DEF Running, RunsAt
<1> QED BY <1>1, <1>2

\* The first frame.
LEMMA TopFrame ==
  ASSUME ListsTypeOK, NEW s \in Schedulers, stack[s] # <<>>
  PROVE  /\ 1 \in DOMAIN stack[s] /\ Head(stack[s]) = stack[s][1]
         /\ Head(stack[s]) \in FrameRecords /\ Head(stack[s]).actor \in Actors
<1>1. stack[s] \in Seq(FrameRecords)
  BY DEF ListsTypeOK
<1>2. 1 \in DOMAIN stack[s] /\ Head(stack[s]) = stack[s][1] /\ Head(stack[s]) \in FrameRecords
  BY <1>1, TailPlaces
<1> QED BY <1>2 DEF FrameRecords

\* The schedulers at first.
LEMMA InitHome == SchedulerInit => HomeInv
<1> SUFFICES ASSUME SchedulerInit PROVE HomeInv
  OBVIOUS
<1>0. DOMAIN <<>> = {}
  BY SMTT(60)
<1>1. plan \in PlanRecords
  BY SchedulerAssumption DEF SchedulerAssumption, SchedulerInit
<1>2. ActorsTypeOK
  <2>1. plan.home \in [Actors -> Schedulers] /\ unborn \subseteq Actors
    BY <1>1 DEF PlanRecords, SchedulerInit
  <2>2. \A a \in Actors : [dest |-> plan.home[a], migrating |-> FALSE] \in [dest : Schedulers, migrating : BOOLEAN]
    BY <2>1, SMTT(60)
  <2>3. alive = Actors \ unborn /\ schedId = [a \in Actors |-> [dest |-> plan.home[a], migrating |-> FALSE]]
    BY DEF SchedulerInit
  <2>4. schedId \in [Actors -> [dest : Schedulers, migrating : BOOLEAN]]
    BY <2>2, <2>3
  <2>5. moves \in [Actors -> Nat] /\ sent \in Nat
    BY SMTT(60) DEF SchedulerInit
  <2> QED BY <1>1, <2>1, <2>3, <2>4, <2>5 DEF ActorsTypeOK
<1>3. ListsTypeOK
  <2>1. <<>> \in Seq(Actors) /\ <<>> \in Seq(FrameRecords)
    BY SMTT(60)
  <2> QED BY <2>1 DEF SchedulerInit, ListsTypeOK
<1>4. EventsTypeOK
  <2>1. <<>> \in Seq(Events) /\ <<>> \in Seq(WireMessages)
    BY SMTT(60)
  <2> QED BY <2>1 DEF SchedulerInit, EventsTypeOK
<1>5. StackInv /\ TimerInv
  BY <1>0 DEF SchedulerInit, StackInv, TimerInv
<1>6. ListInv
  BY <1>0 DEF SchedulerInit, ListInv, Listed, Range, IsInjective
<1>7. CarrierInv
  BY <1>0 DEF SchedulerInit, CarrierInv, CarriedTo, CarriedBy
<1> QED BY <1>2, <1>3, <1>4, <1>5, <1>6, <1>7 DEF HomeInv

----------------------------------------------------------------------------
(* What steps have in common. *)

\* How a handler under way gives way to its next state or to another one.
Swaps(s, F) == stack' = [stack EXCEPT ![s] = <<F>> \o Tail(@)]
Pushes(s, F) == stack' = [stack EXCEPT ![s] = <<F>> \o @]

\* Who runs, is here.
LEMMA RunsHere ==
  ASSUME StackInv, NEW s \in Schedulers, NEW a, RunsAt(s, a)
  PROVE  a \in alive /\ IsHere(s, a)
<1>1. PICK i \in DOMAIN stack[s] : stack[s][i].actor = a
  BY DEF RunsAt
<1>2. FrameOK(s, i)
  BY DEF StackInv
<1> QED BY <1>1, <1>2 DEF FrameOK

\* Delivered(t, e): an event leaves the lists and the handlers in order.
Delivered ==
  /\ StackInv' /\ ListInv'
  /\ ready' \in [Schedulers -> Seq(Actors)] /\ batch' \in [Schedulers -> Seq(Actors)]
  /\ stack' \in [Schedulers -> Seq(FrameRecords)] /\ mailbox' \in [Actors -> Seq(Events)]
  /\ pendingEvents' \in [Schedulers -> [Actors -> Seq(Events)]]
  /\ sending' \in [Threads -> {Nothing} \cup (Schedulers \X WireMessages)]
  /\ handled' \in Seq(Events)
  /\ \A u \in Threads, x \in Actors : CarriedBy(u, x)' => CarriedBy(u, x) /\ sending'[u] = sending[u]

\* The messages of a queue, and what is left without the first.
LEMMA FirstMessage ==
  ASSUME EventsTypeOK, NEW s \in Schedulers, inbound[s] # <<>>, inbound' = [inbound EXCEPT ![s] = Tail(@)]
  PROVE  /\ Head(inbound[s]) \in WireMessages /\ 1 \in DOMAIN inbound[s] /\ Head(inbound[s]) = inbound[s][1]
         /\ inbound' \in [Schedulers -> Seq(WireMessages)]
         /\ inbound'[s] = Tail(inbound[s])
         /\ \A u \in Schedulers : u # s => inbound'[u] = inbound[u]
<1>1. inbound \in [Schedulers -> Seq(WireMessages)] /\ inbound[s] \in Seq(WireMessages)
  BY DEF EventsTypeOK
<1>2. /\ Tail(inbound[s]) \in Seq(WireMessages) /\ 1 \in DOMAIN inbound[s] /\ Head(inbound[s]) = inbound[s][1]
      /\ Head(inbound[s]) \in WireMessages
  BY <1>1, TailPlaces
<1>3. inbound' \in [Schedulers -> Seq(WireMessages)] /\ inbound'[s] = Tail(inbound[s])
  BY <1>1, <1>2
<1>4. \A u \in Schedulers : u # s => inbound'[u] = inbound[u]
  BY <1>1
<1> QED BY <1>2, <1>3, <1>4

LEMMA MessageIs ==
  ASSUME NEW m \in WireMessages
  PROVE  /\ m.to \in Actors
         /\ m.kind = "event" => m.event \in Events
         /\ m.kind \in {"event", "actor"}
<1>1. CASE m \in [kind : {"event"}, to : Actors, event : Events]
  BY <1>1, SMTT(60)
<1>2. CASE m \in [kind : {"actor"}, to : Actors]
  <2>1. m.to \in Actors /\ m.kind = "actor"
    BY <1>2
  <2>2. "event" # "actor"
    BY SMTT(60)
  <2> QED BY <2>1, <2>2
<1> QED BY <1>1, <1>2 DEF WireMessages

\* The frame of a handler that has set a flag.
Flagged(f, flag, dest) == [f EXCEPT !.flag = flag, !.dest = dest]

LEMMA FlaggedFrame ==
  ASSUME NEW f \in FrameRecords, NEW flag \in Flags, NEW dest \in Schedulers \cup {Nothing}
  PROVE  /\ Flagged(f, flag, dest) \in FrameRecords
         /\ Flagged(f, flag, dest).actor = f.actor /\ Flagged(f, flag, dest).left = f.left
         /\ Flagged(f, flag, dest).done = f.done
         /\ Flagged(f, flag, dest).flag = flag /\ Flagged(f, flag, dest).dest = dest
<1> DEFINE g == [f EXCEPT !.flag = flag]
           F == Flagged(f, flag, dest)
<1>1. g \in FrameRecords /\ g.actor = f.actor /\ g.left = f.left /\ g.done = f.done /\ g.flag = flag
  BY SMTT(60) DEF FrameRecords
<1>2. F = [g EXCEPT !.dest = dest]
  BY DEF Flagged
<1> HIDE DEF g, F
<1>3. F \in FrameRecords /\ F.actor = g.actor /\ F.left = g.left /\ F.done = g.done /\ F.flag = g.flag /\ F.dest = dest
  BY <1>1, <1>2, SMTT(60) DEF FrameRecords
<1> QED BY <1>1, <1>3 DEF F

----------------------------------------------------------------------------
(* Actors that come and go. *)

\* A step that concerns one actor.
OthersStay(a) ==
  \A x \in Actors : x # a => (x \in alive' <=> x \in alive) /\ schedId'[x] = schedId[x] /\ mailbox'[x] = mailbox[x]

\* Who runs is in no list, in no message, and has a timeout here only.
LEMMA RunnerIs ==
  ASSUME HomeInv, NEW s \in Schedulers, stack[s] # <<>>, NEW a, a = Head(stack[s]).actor
  PROVE  /\ a \in Actors /\ a \in alive /\ IsHere(s, a) /\ RunsAt(s, a)
         /\ \A u \in Schedulers : a \notin Listed(u) /\ (a \in timeouts[u] => u = s) /\ ~OnWay(u, a)
<1>1. a \in Actors /\ RunsAt(s, a)
  BY TopFrame DEF HomeInv, RunsAt
<1>2. a \in alive /\ IsHere(s, a)
  BY <1>1, RunsHere DEF HomeInv
<1>3. ASSUME NEW u \in Schedulers PROVE a \notin Listed(u) /\ (a \in timeouts[u] => u = s) /\ ~OnWay(u, a)
  <2>1. a \in Listed(u) => IsHere(u, a) /\ ~RunsAt(u, a)
    BY DEF HomeInv, ListInv
  <2>2. a \in timeouts[u] => IsHere(u, a)
    BY DEF HomeInv, TimerInv
  <2>3. IsHere(u, a) => u = s
    BY <1>2, OnePlace
  <2>4. ~OnWay(u, a)
    BY <1>2, OnePlace
  <2> QED BY <1>1, <2>1, <2>2, <2>3, <2>4
<1> QED BY <1>1, <1>2, <1>3

\* A handler ends: its actor stays, in the list when it has mail, or leaves.
Pops(s) == stack' = [stack EXCEPT ![s] = Tail(@)]
MayBeListed(s, a) ==
  \/ ready' = ready
  \/ /\ ready' = [ready EXCEPT ![s] = Append(@, a)]
     /\ a \in alive' /\ IsHere(s, a)' /\ mailbox'[a] # <<>>
TimersLeft(s, a) ==
  /\ timeouts' \in [Schedulers -> SUBSET Actors] /\ \A u \in Schedulers : timeouts'[u] \subseteq timeouts[u]
  /\ a \in timeouts'[s] => a \in alive' /\ IsHere(s, a)'

\* The handler of the innermost frame f.
LEMMA FrameFacts ==
  ASSUME HomeInv, NEW s \in Schedulers, stack[s] # <<>>, NEW f, f = Head(stack[s])
  PROVE  /\ f \in FrameRecords /\ f.actor \in Actors /\ f.left \in Nat /\ f.done \in Nat
         /\ mailbox[f.actor] \in Seq(Events) /\ Len(mailbox[f.actor]) \in Nat
         /\ f.left + f.done <= Len(mailbox[f.actor]) /\ f.done <= Len(mailbox[f.actor])
         /\ f.flag = "migrate" => f.dest \in Schedulers
<1>1. f \in FrameRecords /\ f = stack[s][1] /\ 1 \in DOMAIN stack[s]
  BY TopFrame DEF HomeInv
<1>2. f.actor \in Actors /\ f.left \in Nat /\ f.done \in Nat
  BY <1>1 DEF FrameRecords
<1>3. mailbox[f.actor] \in Seq(Events)
  BY <1>2 DEF HomeInv, EventsTypeOK
<1>4. Len(mailbox[f.actor]) \in Nat
  BY <1>3, SMTT(60)
<1>5. f.left + f.done <= Len(mailbox[f.actor]) /\ (f.flag = "migrate" => f.dest \in Schedulers)
  <2>1. FrameOK(s, 1)
    BY <1>1 DEF HomeInv, StackInv
  <2> QED BY <1>1, <2>1 DEF FrameOK
<1>6. f.done <= Len(mailbox[f.actor])
  BY <1>2, <1>4, <1>5, SMTT(60)
<1> QED BY <1>1, <1>2, <1>3, <1>4, <1>5, <1>6

\* An actor that is not here runs nowhere, and is in no list.
LEMMA Nowhere ==
  ASSUME HomeInv, NEW a, \A u \in Schedulers : ~(a \in alive /\ IsHere(u, a)), NEW u \in Schedulers
  PROVE  ~RunsAt(u, a) /\ a \notin Listed(u) /\ a \notin timeouts[u]
<1>1. ~RunsAt(u, a)
  BY RunsHere DEF HomeInv
<1>2. a \notin Listed(u)
  BY DEF HomeInv, ListInv
<1>3. a \notin timeouts[u]
  BY DEF HomeInv, TimerInv
<1> QED BY <1>1, <1>2, <1>3

----------------------------------------------------------------------------
(* Actors run at home. *)

LEMMA NextHome == HomeInv /\ [SchedulerNext]_schedulerVars => HomeInv'
\* Without the one at place k.
<1>RemovePlaces.
  ASSUME NEW S, NEW q \in Seq(S), NEW k \in DOMAIN q
  PROVE  /\ Without(q, k) \in Seq(S)
         /\ \A i \in DOMAIN Without(q, k) :
              \/ i \in DOMAIN q /\ i < k /\ Without(q, k)[i] = q[i]
              \/ i + 1 \in DOMAIN q /\ i >= k /\ Without(q, k)[i] = q[i + 1]
         /\ \A j \in DOMAIN q : j # k => q[j] \in Range(Without(q, k))
  <2> USE <1>RemovePlaces
  <2>1. Len(q) \in Nat /\ DOMAIN q = 1..Len(q) /\ k \in 1..Len(q) /\ k - 1 \in Nat /\ k - 1 <= Len(q) /\ k \in Nat
    BY SMTT(60)
  <2> DEFINE b == SubSeq(q, 1, k - 1)
             c == SubSeq(q, k + 1, Len(q))
             r == Without(q, k)
  <2>2. b \in Seq(S) /\ Len(b) = k - 1 /\ \A i \in 1..(k - 1) : b[i] = q[i]
    BY <2>1, SMTT(60)
  <2>3. c \in Seq(S) /\ Len(c) = Len(q) - k /\ \A i \in 1..(Len(q) - k) : c[i] = q[k + i]
    BY <2>1, SMTT(60)
  <2>4. r = b \o c
    BY DEF Without
  <2> HIDE DEF b, c, r
  <2>5. r \in Seq(S) /\ Len(r) = (k - 1) + (Len(q) - k)
    <3>0. b \in Seq(S) /\ c \in Seq(S)
      BY <2>2, <2>3
    <3>1. b \o c \in Seq(S) /\ Len(b \o c) = Len(b) + Len(c)
      BY <3>0, SMTT(60)
    <3> QED BY <2>2, <2>3, <2>4, <3>1
  <2>6. DOMAIN r = 1..(Len(q) - 1)
    BY <2>1, <2>5, SMTT(60)
  <2>7. \A i \in 1..(Len(q) - 1) : r[i] = IF i <= k - 1 THEN b[i] ELSE c[i - (k - 1)]
    BY <2>1, <2>2, <2>3, <2>4, SMTT(60)
  <2>8. ASSUME NEW i \in DOMAIN r
        PROVE  IF i < k THEN i \in DOMAIN q /\ r[i] = q[i] ELSE i + 1 \in DOMAIN q /\ i >= k /\ r[i] = q[i + 1]
    <3>1. CASE i < k
      <4>1. i \in 1..(Len(q) - 1) /\ i <= k - 1 /\ i \in 1..(k - 1) /\ i \in 1..Len(q)
        BY <2>1, <2>6, <3>1, SMTT(60)
      <4> QED BY <2>1, <2>2, <2>7, <3>1, <4>1
    <3>2. CASE ~(i < k)
      <4>1. /\ i \in 1..(Len(q) - 1) /\ ~(i <= k - 1) /\ i - (k - 1) \in 1..(Len(q) - k) /\ i >= k
            /\ k + (i - (k - 1)) = i + 1 /\ i + 1 \in 1..Len(q)
        BY <2>1, <2>6, <3>2, SMTT(60)
      <4> QED BY <2>1, <2>3, <2>7, <3>2, <4>1
    <3> QED BY <3>1, <3>2
  <2>9. ASSUME NEW j \in DOMAIN q, j # k PROVE q[j] \in Range(r)
    <3>1. CASE j < k
      <4>1. j \in DOMAIN r
        BY <2>1, <2>6, <3>1, SMTT(60)
      <4> QED BY <2>8, <3>1, <4>1 DEF Range
    <3>2. CASE ~(j < k)
      <4>1. j - 1 \in DOMAIN r /\ ~(j - 1 < k) /\ (j - 1) + 1 = j
        BY <2>1, <2>6, <2>9, <3>2, SMTT(60)
      <4>2. r[j - 1] = q[j]
        BY <2>8, <4>1
      <4> QED BY <4>1, <4>2 DEF Range
    <3> QED BY <3>1, <3>2
  <2> QED BY <2>5, <2>8, <2>9 DEF r
\* ListNode::remove: the list names the same actors but one, and each once.
<1>UnlistIs.
  ASSUME NEW S, NEW q \in Seq(S), IsInjective(q), NEW a
  PROVE  /\ Unlist(q, a) \in Seq(S) /\ IsInjective(Unlist(q, a))
         /\ Range(Unlist(q, a)) = Range(q) \ {a}
  <2> USE <1>UnlistIs
  <2>1. CASE a \notin Range(q)
    BY <2>1 DEF Unlist
  <2>2. CASE a \in Range(q)
    <3> DEFINE k == CHOOSE i \in DOMAIN q : q[i] = a
               r == Without(q, k)
    <3>1. k \in DOMAIN q /\ q[k] = a
      BY <2>2 DEF Range
    <3>2. Unlist(q, a) = r
      BY <2>2 DEF Unlist
    <3> HIDE DEF k
    <3>3. /\ r \in Seq(S)
          /\ \A i \in DOMAIN r : \/ i \in DOMAIN q /\ i < k /\ r[i] = q[i]
                                 \/ i + 1 \in DOMAIN q /\ i >= k /\ r[i] = q[i + 1]
          /\ \A j \in DOMAIN q : j # k => q[j] \in Range(r)
      BY <3>1, <1>RemovePlaces
    <3> HIDE DEF r
    <3>4. DOMAIN q \subseteq Nat /\ DOMAIN r \subseteq Nat /\ k \in Nat
      BY <3>1, <3>3, SMTT(60)
    <3>5. \A i, j \in DOMAIN q : q[i] = q[j] => i = j
      BY DEF IsInjective
    <3>6. IsInjective(r)
      <4> SUFFICES ASSUME NEW i \in DOMAIN r, NEW j \in DOMAIN r, r[i] = r[j] PROVE i = j
        BY DEF IsInjective
      <4>1. CASE i < k /\ j < k
        <5>1. i \in Nat /\ j \in Nat /\ ~(i >= k) /\ ~(j >= k)
          BY <3>4, <4>1, SMTT(60)
        <5> QED BY <3>3, <3>5, <5>1
      <4>2. CASE i >= k /\ j >= k
        <5>1. i \in Nat /\ j \in Nat /\ ~(i < k) /\ ~(j < k)
          BY <3>4, <4>2, SMTT(60)
        <5>2. i + 1 = j + 1
          BY <3>3, <3>5, <5>1
        <5> QED BY <5>1, <5>2, SMTT(60)
      <4>3. CASE i < k /\ j >= k
        <5>1. i \in Nat /\ j \in Nat /\ ~(i >= k) /\ ~(j < k) /\ i # j + 1
          BY <3>4, <4>3, SMTT(60)
        <5> QED BY <3>3, <3>5, <5>1
      <4>4. CASE i >= k /\ j < k
        <5>1. i \in Nat /\ j \in Nat /\ ~(i < k) /\ ~(j >= k) /\ j # i + 1
          BY <3>4, <4>4, SMTT(60)
        <5> QED BY <3>3, <3>5, <5>1
      <4> QED BY <3>4, <4>1, <4>2, <4>3, <4>4, SMTT(60)
    <3>7. ASSUME NEW i \in DOMAIN r PROVE r[i] \in Range(q) /\ r[i] # a
      <4>1. CASE i < k
        <5>1. i # k /\ ~(i >= k)
          BY <3>4, <4>1, SMTT(60)
        <5> QED BY <3>1, <3>3, <3>5, <5>1 DEF Range
      <4>2. CASE i >= k
        <5>1. i + 1 # k /\ ~(i < k)
          BY <3>4, <4>2, SMTT(60)
        <5> QED BY <3>1, <3>3, <3>5, <5>1 DEF Range
      <4> QED BY <3>4, <4>1, <4>2, SMTT(60)
    <3>8. ASSUME NEW x \in Range(q), x # a PROVE x \in Range(r)
      BY <3>1, <3>3, <3>8 DEF Range
    <3>9. Range(r) = Range(q) \ {a}
      BY <3>7, <3>8 DEF Range
    <3> QED BY <3>2, <3>3, <3>6, <3>9
  <2> QED BY <2>1, <2>2
\* What an end of the list names.
<1>ListAppend.
  ASSUME NEW S, NEW q \in Seq(S), NEW x \in S, IsInjective(q), x \notin Range(q)
  PROVE  Append(q, x) \in Seq(S) /\ IsInjective(Append(q, x)) /\ Range(Append(q, x)) = Range(q) \cup {x}
  <2> USE <1>ListAppend
  <2> DEFINE r == Append(q, x)
             n == Len(q) + 1
  <2>1. /\ r \in Seq(S) /\ DOMAIN r = DOMAIN q \cup {n} /\ n \notin DOMAIN q
        /\ (\A i \in DOMAIN q : r[i] = q[i] /\ i < n) /\ r[n] = x
    BY AppendPlaces, SMTT(60)
  <2> HIDE DEF r, n
  <2>2. IsInjective(r)
    BY <2>1 DEF IsInjective, Range
  <2>3. Range(r) = Range(q) \cup {x}
    <3>1. \A i \in DOMAIN r : r[i] \in Range(q) \cup {x}
      BY <2>1 DEF Range
    <3>2. x \in Range(r) /\ \A i \in DOMAIN q : q[i] \in Range(r)
      BY <2>1 DEF Range
    <3> QED BY <3>1, <3>2 DEF Range
  <2> QED BY <2>1, <2>2, <2>3 DEF r
\* Queues that lose at most their first message, and threads that take no actor
\* up, leave every actor on its way in its message.
<1>CarriersKept.
  ASSUME EventsTypeOK, CarrierInv,
         \A s \in Schedulers, a \in Actors : OnWay(s, a) => OnWay(s, a)',
         \A s \in Schedulers :
           inbound'[s] = inbound[s] \/ (inbound[s] # <<>> /\ inbound'[s] = Tail(inbound[s])),
         \A t \in Threads, a \in Actors : CarriedBy(t, a)' => CarriedBy(t, a) /\ sending'[t] = sending[t]
  PROVE  CarrierInv'
  <2> USE <1>CarriersKept
  <2> DEFINE k(s) == IF inbound'[s] = inbound[s] THEN 0 ELSE 1
  <2>1. ASSUME NEW s \in Schedulers, NEW i, NEW a, CarriedTo(s, i, a)' PROVE i \in Nat /\ CarriedTo(s, i + k(s), a)
    <3>1. inbound[s] \in Seq(WireMessages)
      BY DEF EventsTypeOK
    <3>2. CASE inbound'[s] = inbound[s]
      <4>1. i \in DOMAIN inbound[s] /\ CarriedTo(s, i, a)
        BY <2>1, <3>2 DEF CarriedTo
      <4>2. i \in Nat /\ i + 0 = i
        BY <3>1, <4>1, SMTT(60)
      <4> QED BY <3>2, <4>1, <4>2
    <3>3. CASE inbound'[s] # inbound[s]
      <4>1. inbound[s] # <<>> /\ inbound'[s] = Tail(inbound[s])
        BY <3>3
      <4>2. i \in DOMAIN Tail(inbound[s]) /\ Tail(inbound[s])[i].kind = "actor" /\ Tail(inbound[s])[i].to = a
        BY <2>1, <4>1 DEF CarriedTo
      <4>3. i \in Nat /\ i + 1 \in DOMAIN inbound[s] /\ Tail(inbound[s])[i] = inbound[s][i + 1]
        BY <3>1, <4>1, <4>2, TailPlaces
      <4>4. CarriedTo(s, i + 1, a)
        BY <4>2, <4>3 DEF CarriedTo
      <4> QED BY <3>3, <4>3, <4>4
    <3> QED BY <3>2, <3>3
  <2>2. \A s \in Schedulers : k(s) \in Nat
    BY SMTT(60)
  <2> HIDE DEF k
  <2>3. ASSUME NEW s \in Schedulers, NEW i, NEW j, NEW a \in Actors, CarriedTo(s, i, a)', CarriedTo(s, j, a)' PROVE i = j
    <3>1. i \in Nat /\ j \in Nat /\ CarriedTo(s, i + k(s), a) /\ CarriedTo(s, j + k(s), a)
      BY <2>1, <2>3
    <3>2. i + k(s) = j + k(s)
      BY <3>1 DEF CarrierInv
    <3> QED BY <2>2, <3>1, <3>2, SMTT(60)
  <2>4. ASSUME NEW s \in Schedulers, NEW i, NEW a \in Actors, CarriedTo(s, i, a)' PROVE OnWay(s, a)'
    <3>1. CarriedTo(s, i + k(s), a)
      BY <2>1, <2>4
    <3> QED BY <3>1 DEF CarrierInv
  <2>5. ASSUME NEW t \in Threads, NEW a \in Actors, CarriedBy(t, a)'
        PROVE  /\ OnWay(sending[t][1], a)'
               /\ \A s \in Schedulers : \A i : ~CarriedTo(s, i, a)'
               /\ \A u \in Threads : CarriedBy(u, a)' => u = t
    <3>1. CarriedBy(t, a) /\ sending'[t] = sending[t]
      BY <2>5
    <3>2. sending[t][1] \in Schedulers
      BY <3>1, SendingIs DEF CarriedBy
    <3>3. OnWay(sending[t][1], a)'
      BY <3>1, <3>2 DEF CarrierInv
    <3>4. ASSUME NEW s \in Schedulers, NEW i, CarriedTo(s, i, a)' PROVE FALSE
      <4>1. CarriedTo(s, i + k(s), a)
        BY <2>1, <3>4
      <4> QED BY <3>1, <4>1 DEF CarrierInv
    <3>5. \A u \in Threads : CarriedBy(u, a)' => u = t
      BY <3>1 DEF CarrierInv
    <3> QED BY <3>3, <3>4, <3>5
  <2> QED BY <2>3, <2>4, <2>5 DEF CarrierInv
\* The handlers under way stay, and what they run stays there.
<1>FramesKept.
  ASSUME HomeInv, stack' = stack,
         \A s \in Schedulers, a \in Actors : RunsAt(s, a) =>
           /\ a \in alive' /\ IsHere(s, a)'
           /\ mailbox'[a] \in Seq(Events) /\ Len(mailbox[a]) <= Len(mailbox'[a])
  PROVE  StackInv'
  <2> USE <1>FramesKept
  <2> SUFFICES ASSUME NEW s \in Schedulers, NEW i \in DOMAIN stack[s] PROVE FrameOK(s, i)'
    BY DEF StackInv
  <2> DEFINE f == stack[s][i]
  <2>1. f \in FrameRecords
    <3>1. stack[s] \in Seq(FrameRecords)
      BY DEF HomeInv, ListsTypeOK
    <3> QED BY <3>1, SMTT(60)
  <2>2. f.actor \in Actors /\ f.left \in Nat /\ f.done \in Nat
    BY <2>1 DEF FrameRecords
  <2>3. RunsAt(s, f.actor)
    BY DEF RunsAt
  <2>4. mailbox[f.actor] \in Seq(Events) /\ mailbox'[f.actor] \in Seq(Events) /\ Len(mailbox[f.actor]) <= Len(mailbox'[f.actor])
    BY <2>2, <2>3 DEF HomeInv, EventsTypeOK
  <2>5. f.left + f.done <= Len(mailbox[f.actor])
    BY DEF HomeInv, StackInv, FrameOK
  <2>6. Len(mailbox[f.actor]) \in Nat /\ Len(mailbox'[f.actor]) \in Nat
    BY <2>4, SMTT(60)
  <2>7. f.left + f.done <= Len(mailbox'[f.actor])
    BY <2>2, <2>4, <2>5, <2>6, SMTT(60)
  <2>8. FrameOK(s, i)
    BY DEF HomeInv, StackInv
  <2>9. f.actor \in alive' /\ IsHere(s, f.actor)'
    BY <2>2, <2>3
  <2> QED BY <2>7, <2>8, <2>9 DEF FrameOK, IsHere
\* The innermost handler ends.
<1>FramePopped.
  ASSUME HomeInv, NEW s \in Schedulers, stack[s] # <<>>, stack' = [stack EXCEPT ![s] = Tail(@)],
         \A u \in Schedulers, a \in Actors : RunsAt(u, a) /\ a # Head(stack[s]).actor =>
           a \in alive' /\ IsHere(u, a)' /\ mailbox'[a] = mailbox[a]
  PROVE  /\ stack' \in [Schedulers -> Seq(FrameRecords)] /\ StackInv'
         /\ \A u \in Schedulers, a \in Actors : RunsAt(u, a)' => RunsAt(u, a) /\ a # Head(stack[s]).actor
  <2> USE <1>FramePopped
  <2> DEFINE b == Head(stack[s]).actor
  <2>0. /\ stack \in [Schedulers -> Seq(FrameRecords)] /\ StackInv
        /\ 1 \in DOMAIN stack[s] /\ b = stack[s][1].actor
    BY TopFrame DEF HomeInv, ListsTypeOK
  <2>1. /\ Tail(stack[s]) \in Seq(FrameRecords)
        /\ \A i \in DOMAIN Tail(stack[s]) :
             i \in Nat /\ i + 1 \in DOMAIN stack[s] /\ i + 1 # 1 /\ Tail(stack[s])[i] = stack[s][i + 1]
    BY <2>0, TailPlaces
  <2>2. stack'[s] = Tail(stack[s]) /\ \A u \in Schedulers : u # s => stack'[u] = stack[u]
    BY <2>0
  <2>3. stack' \in [Schedulers -> Seq(FrameRecords)]
    BY <2>0, <2>1
  <2>4. \A u \in Schedulers : \A i \in DOMAIN stack[u] : stack[u][i].actor \in Actors
    <3>1. \A u \in Schedulers : \A i \in DOMAIN stack[u] : stack[u][i] \in FrameRecords
      BY <2>0, SMTT(60)
    <3> QED BY <3>1 DEF FrameRecords
  <2>5. ASSUME NEW i \in DOMAIN Tail(stack[s]) PROVE Tail(stack[s])[i].actor # b
    <3>1. FrameOK(s, 1) /\ i + 1 \in DOMAIN stack[s] /\ i + 1 # 1 /\ Tail(stack[s])[i] = stack[s][i + 1]
      BY <2>0, <2>1 DEF StackInv
    <3> QED BY <2>0, <3>1 DEF FrameOK
  <2>6. ASSUME NEW u \in Schedulers, u # s, NEW i \in DOMAIN stack[u] PROVE stack[u][i].actor # b
    <3>1. IsHere(s, b) /\ IsHere(u, stack[u][i].actor)
      BY <2>0 DEF StackInv, FrameOK
    <3> QED BY <2>6, <3>1, OnePlace
  <2>7. ASSUME NEW u \in Schedulers, NEW i \in DOMAIN stack'[u] PROVE FrameOK(u, i)'
    <3>1. CASE u = s
      <4>1. i \in DOMAIN Tail(stack[s]) /\ stack'[s][i] = Tail(stack[s])[i]
        BY <2>2, <2>7, <3>1
      <4>2. i + 1 \in DOMAIN stack[s] /\ stack'[s][i] = stack[s][i + 1] /\ stack[s][i + 1].actor # b
        BY <2>1, <2>5, <4>1
      <4>3. \A j \in DOMAIN stack'[s] : stack'[s][i].actor = stack'[s][j].actor => i = j
        <5> SUFFICES ASSUME NEW j \in DOMAIN Tail(stack[s]), stack[s][i + 1].actor = stack[s][j + 1].actor PROVE i = j
          BY <2>1, <2>2, <4>1
        <5>1. i + 1 = j + 1 /\ i \in Nat /\ j \in Nat
          BY <2>0, <2>1, <4>1 DEF StackInv, FrameOK
        <5> QED BY <5>1, SMTT(60)
      <4>4. PICK a \in Actors : a = stack[s][i + 1].actor /\ RunsAt(s, a)
        BY <2>4, <4>2 DEF RunsAt
      <4>5. a \in alive' /\ IsHere(s, a)' /\ mailbox'[a] = mailbox[a]
        BY <4>2, <4>4
      <4>6. FrameOK(s, i + 1)
        BY <2>0, <4>2 DEF StackInv
      <4> QED BY <3>1, <4>2, <4>3, <4>4, <4>5, <4>6 DEF FrameOK, IsHere
    <3>2. CASE u # s
      <4>1. stack'[u] = stack[u]
        BY <2>2, <3>2
      <4>2. PICK a \in Actors : a = stack[u][i].actor /\ RunsAt(u, a) /\ a # b
        BY <2>4, <2>6, <2>7, <3>2, <4>1 DEF RunsAt
      <4>3. a \in alive' /\ IsHere(u, a)' /\ mailbox'[a] = mailbox[a]
        BY <4>2
      <4>4. FrameOK(u, i)
        BY <2>0, <2>7, <4>1 DEF StackInv
      <4> QED BY <4>1, <4>2, <4>3, <4>4 DEF FrameOK, IsHere
    <3> QED BY <3>1, <3>2
  <2>8. StackInv'
    BY <2>7 DEF StackInv
  <2>9. ASSUME NEW u \in Schedulers, NEW a \in Actors, RunsAt(u, a)' PROVE RunsAt(u, a) /\ a # b
    <3>0. PICK i \in DOMAIN stack'[u] : stack'[u][i].actor = a
      BY <2>9 DEF RunsAt
    <3>1. CASE u = s
      <4>1. i \in DOMAIN Tail(stack[s]) /\ Tail(stack[s])[i].actor = a
        BY <2>2, <3>0, <3>1
      <4>2. i + 1 \in DOMAIN stack[s] /\ stack[s][i + 1].actor = a /\ a # b
        BY <2>1, <2>5, <4>1
      <4> QED BY <3>1, <4>2 DEF RunsAt
    <3>2. CASE u # s
      <4>1. i \in DOMAIN stack[u] /\ stack[u][i].actor = a
        BY <2>2, <3>0, <3>2
      <4> QED BY <2>6, <3>2, <4>1 DEF RunsAt
    <3> QED BY <3>1, <3>2
  <2> QED BY <2>3, <2>8, <2>9
\* One frame, by what it is.
<1>FrameIs.
  ASSUME NEW u, NEW i, NEW f, stack'[u][i] = f,
         f.actor \in alive', schedId'[f.actor] = [dest |-> u, migrating |-> FALSE],
         \A j \in DOMAIN stack'[u] : stack'[u][i].actor = stack'[u][j].actor => i = j,
         f.left + f.done <= Len(mailbox'[f.actor]),
         f.flag = "migrate" => f.dest \in Schedulers
  PROVE  FrameOK(u, i)'
  BY <1>FrameIs DEF FrameOK, IsHere
\* The innermost handler goes on, with another event or another flag.
<1>FrameSwapped.
  ASSUME HomeInv, NEW s \in Schedulers, stack[s] # <<>>, NEW F \in FrameRecords,
         F.actor = Head(stack[s]).actor, F.left + F.done <= Len(mailbox[F.actor]),
         F.flag = "migrate" => F.dest \in Schedulers,
         Swaps(s, F), alive' = alive, schedId' = schedId, mailbox' = mailbox
  PROVE  /\ stack' \in [Schedulers -> Seq(FrameRecords)] /\ StackInv'
         /\ \A u \in Schedulers : \A a : RunsAt(u, a)' <=> RunsAt(u, a)
  <2> USE <1>FrameSwapped
  <2> DEFINE q == stack[s]
             r == <<F>> \o Tail(stack[s])
  <2>0. stack \in [Schedulers -> Seq(FrameRecords)] /\ StackInv /\ Head(q) = q[1]
    BY TopFrame DEF HomeInv, ListsTypeOK
  <2>a. q \in Seq(FrameRecords)
    BY <2>0
  <2>1. /\ r \in Seq(FrameRecords) /\ DOMAIN r = DOMAIN q /\ 1 \in DOMAIN q /\ r[1] = F
        /\ \A i \in DOMAIN q : i # 1 => r[i] = q[i]
    <3>1. \A x \in FrameRecords : <<x>> \o Tail(q) \in Seq(FrameRecords) /\ DOMAIN (<<x>> \o Tail(q)) = DOMAIN q
      BY <2>a, SwapPlaces, SMTT(60)
    <3>2. 1 \in DOMAIN q /\ \A x \in FrameRecords : (<<x>> \o Tail(q))[1] = x
      BY <2>a, SwapPlaces, SMTT(60)
    <3>3. \A x \in FrameRecords : \A i \in DOMAIN q : i # 1 => (<<x>> \o Tail(q))[i] = q[i]
      BY <2>a, SwapPlaces, SMTT(60)
    <3> QED BY <3>1, <3>2, <3>3
  <2>2. stack'[s] = r /\ \A u \in Schedulers : u # s => stack'[u] = stack[u]
    BY <2>0 DEF Swaps
  <2> HIDE DEF r
  <2>3. stack' \in [Schedulers -> Seq(FrameRecords)]
    BY <2>0, <2>1 DEF r, Swaps
  <2>4. \A u \in Schedulers : DOMAIN stack'[u] = DOMAIN stack[u]
    BY <2>1, <2>2
  <2>5. \A u \in Schedulers : \A i \in DOMAIN stack[u] : stack'[u][i].actor = stack[u][i].actor
    <3>1. \A i \in DOMAIN q : r[i].actor = q[i].actor
      BY <2>0, <2>1
    <3> QED BY <2>2, <3>1
  <2>6. ASSUME NEW u \in Schedulers, NEW i \in DOMAIN stack'[u] PROVE FrameOK(u, i)'
    <3>1. i \in DOMAIN stack[u] /\ FrameOK(u, i)
      BY <2>0, <2>4 DEF StackInv
    <3>2. CASE u = s /\ i = 1
      <4>1. stack'[u][i] = F
        BY <2>1, <2>2, <3>2
      <4>2. F.actor \in alive /\ IsHere(s, F.actor)
        BY <2>0, <3>1, <3>2 DEF FrameOK
      <4>3. \A j \in DOMAIN stack'[u] : stack'[u][i].actor = stack'[u][j].actor => i = j
        BY <2>4, <2>5, <3>1 DEF FrameOK
      <4> QED BY <3>2, <4>1, <4>2, <4>3, <1>FrameIs DEF IsHere
    <3>3. CASE ~(u = s /\ i = 1)
      <4>1. stack'[u][i] = stack[u][i]
        BY <2>1, <2>2, <3>1, <3>3
      <4>2. \A j \in DOMAIN stack'[u] : stack'[u][i].actor = stack'[u][j].actor => i = j
        BY <2>4, <2>5, <3>1 DEF FrameOK
      <4> QED BY <3>1, <4>1, <4>2, <1>FrameIs DEF FrameOK, IsHere
    <3> QED BY <3>2, <3>3
  <2>7. StackInv'
    BY <2>6 DEF StackInv
  <2>8. ASSUME NEW u \in Schedulers, NEW a PROVE RunsAt(u, a)' <=> RunsAt(u, a)
    BY <2>4, <2>5 DEF RunsAt
  <2> QED BY <2>3, <2>7, <2>8
\* A handler begins for an actor that does not run.
<1>FramePushed.
  ASSUME HomeInv, NEW s \in Schedulers, NEW F \in FrameRecords,
         F.actor \in alive, IsHere(s, F.actor), ~RunsAt(s, F.actor),
         F.left + F.done <= Len(mailbox[F.actor]), F.flag = "none",
         Pushes(s, F), alive' = alive, schedId' = schedId, mailbox' = mailbox
  PROVE  /\ stack' \in [Schedulers -> Seq(FrameRecords)] /\ StackInv'
         /\ \A u \in Schedulers : \A a : RunsAt(u, a)' => RunsAt(u, a) \/ (u = s /\ a = F.actor)
  <2> USE <1>FramePushed
  <2> DEFINE q == stack[s]
             r == <<F>> \o stack[s]
  <2>0. stack \in [Schedulers -> Seq(FrameRecords)] /\ StackInv
    BY DEF HomeInv, ListsTypeOK
  <2>a. q \in Seq(FrameRecords)
    BY <2>0
  <2>1. /\ r \in Seq(FrameRecords) /\ 1 \in DOMAIN r /\ r[1] = F
        /\ \A i \in DOMAIN r : i # 1 => i \in Int /\ i - 1 \in DOMAIN q /\ r[i] = q[i - 1]
    BY <2>a, PushPlaces, SMTT(60)
  <2>2. stack'[s] = r /\ \A u \in Schedulers : u # s => stack'[u] = stack[u]
    BY <2>0 DEF Pushes
  <2> HIDE DEF r
  <2>3. stack' \in [Schedulers -> Seq(FrameRecords)]
    BY <2>0, <2>1 DEF r, Pushes
  <2>4. \A i \in DOMAIN r : i # 1 => r[i].actor # F.actor
    BY <2>1 DEF RunsAt
  <2>5. ASSUME NEW i \in DOMAIN r, NEW j \in DOMAIN r, r[i].actor = r[j].actor PROVE i = j
    <3>1. CASE i = 1 \/ j = 1
      BY <2>1, <2>4, <2>5, <3>1
    <3>2. CASE i # 1 /\ j # 1
      <4>1. /\ i \in Int /\ j \in Int /\ i - 1 \in DOMAIN q /\ j - 1 \in DOMAIN q
            /\ q[i - 1].actor = q[j - 1].actor
        BY <2>1, <2>5, <3>2
      <4>2. i - 1 = j - 1
        BY <2>0, <4>1 DEF StackInv, FrameOK
      <4> QED BY <4>1, <4>2, SMTT(60)
    <3> QED BY <3>1, <3>2
  <2>6. ASSUME NEW u \in Schedulers, NEW i \in DOMAIN stack'[u] PROVE FrameOK(u, i)'
    <3>1. CASE u = s
      <4>0. \A j \in DOMAIN stack'[u] : stack'[u][i].actor = stack'[u][j].actor => i = j
        BY <2>2, <2>5, <2>6, <3>1
      <4>1. CASE i = 1
        <5>1. stack'[u][i] = F
          BY <2>1, <2>2, <3>1, <4>1
        <5>2. F.flag # "migrate"
          OBVIOUS
        <5> QED BY <3>1, <4>0, <5>1, <5>2, <1>FrameIs DEF FrameOK, IsHere
      <4>2. CASE i # 1
        <5>1. i - 1 \in DOMAIN q /\ stack'[u][i] = q[i - 1]
          BY <2>1, <2>2, <2>6, <3>1, <4>2
        <5>2. FrameOK(s, i - 1)
          BY <2>0, <5>1 DEF StackInv
        <5> QED BY <3>1, <4>0, <5>1, <5>2, <1>FrameIs DEF FrameOK, IsHere
      <4> QED BY <4>1, <4>2
    <3>2. CASE u # s
      <4>1. stack'[u] = stack[u]
        BY <2>2, <3>2
      <4>2. FrameOK(u, i)
        BY <2>0, <2>6, <4>1 DEF StackInv
      <4> QED BY <4>1, <4>2 DEF FrameOK, IsHere
    <3> QED BY <3>1, <3>2
  <2>7. StackInv'
    BY <2>6 DEF StackInv
  <2>8. ASSUME NEW u \in Schedulers, NEW a, RunsAt(u, a)' PROVE RunsAt(u, a) \/ (u = s /\ a = F.actor)
    <3>0. PICK i \in DOMAIN stack'[u] : stack'[u][i].actor = a
      BY <2>8 DEF RunsAt
    <3>1. CASE u = s
      <4>1. i \in DOMAIN r /\ r[i].actor = a
        BY <2>2, <3>0, <3>1
      <4>2. CASE i = 1
        BY <2>1, <3>1, <4>1, <4>2
      <4>3. CASE i # 1
        <5>1. i - 1 \in DOMAIN stack[s] /\ stack[s][i - 1].actor = a
          BY <2>1, <4>1, <4>3
        <5> QED BY <3>1, <5>1 DEF RunsAt
      <4> QED BY <4>2, <4>3
    <3>2. CASE u # s
      BY <2>2, <3>0, <3>2 DEF RunsAt
    <3> QED BY <3>1, <3>2
  <2> QED BY <2>3, <2>7, <2>8
\* The lists stay, and what they name stays there.
<1>ListsKept.
  ASSUME ListInv, ready' = ready, batch' = batch,
         \A s \in Schedulers : \A a \in Listed(s) : a \in alive' /\ IsHere(s, a)' /\ mailbox'[a] # <<>> /\ ~RunsAt(s, a)'
  PROVE  ListInv'
  <2> USE <1>ListsKept
  <2>1. \A s \in Schedulers : Listed(s)' = Listed(s)
    BY DEF Listed, Range
  <2> QED BY <2>1 DEF ListInv
\* One list changes, in which the others stay and a is new or gone.
<1>ListsChanged.
  ASSUME ListsTypeOK, ListInv, NEW s \in Schedulers,
         NEW r \in Seq(Actors), NEW b \in Seq(Actors),
         ready' = [ready EXCEPT ![s] = r], batch' = [batch EXCEPT ![s] = b],
         IsInjective(r), IsInjective(b), Range(r) \cap Range(b) = {},
         \A a \in Range(r) \cup Range(b) : a \in alive' /\ IsHere(s, a)' /\ mailbox'[a] # <<>> /\ ~RunsAt(s, a)',
         \A u \in Schedulers : u # s =>
           \A a \in Listed(u) : a \in alive' /\ IsHere(u, a)' /\ mailbox'[a] # <<>> /\ ~RunsAt(u, a)'
  PROVE  ListInv' /\ ready' \in [Schedulers -> Seq(Actors)] /\ batch' \in [Schedulers -> Seq(Actors)]
  <2> USE <1>ListsChanged
  <2>1. ready \in [Schedulers -> Seq(Actors)] /\ batch \in [Schedulers -> Seq(Actors)]
    BY DEF ListsTypeOK
  <2>2. /\ ready'[s] = r /\ batch'[s] = b
        /\ \A u \in Schedulers : u # s => ready'[u] = ready[u] /\ batch'[u] = batch[u]
    BY <2>1
  <2>3. ready' \in [Schedulers -> Seq(Actors)] /\ batch' \in [Schedulers -> Seq(Actors)]
    BY <2>1
  <2>4. ASSUME NEW u \in Schedulers
        PROVE  /\ \A a \in Listed(u)' : a \in alive' /\ IsHere(u, a)' /\ mailbox'[a] # <<>> /\ ~RunsAt(u, a)'
               /\ IsInjective(ready'[u]) /\ IsInjective(batch'[u]) /\ Range(ready'[u]) \cap Range(batch'[u]) = {}
    <3>1. CASE u = s
      <4>1. Listed(u)' = Range(r) \cup Range(b)
        BY <2>2, <3>1 DEF Listed
      <4> QED BY <2>2, <3>1, <4>1
    <3>2. CASE u # s
      <4>1. Listed(u)' = Listed(u) /\ ready'[u] = ready[u] /\ batch'[u] = batch[u]
        BY <2>2, <3>2 DEF Listed
      <4> QED BY <3>2, <4>1 DEF ListInv
    <3> QED BY <3>1, <3>2
  <2>5. ListInv'
    BY <2>4 DEF ListInv
  <2> QED BY <2>3, <2>5
\* add_to_mailbox: the lists still name actors with mail that do not run.
<1>MailAdded.
  ASSUME HomeInv, NEW s \in Schedulers, NEW e \in Events, e.to \in alive, IsHere(s, e.to),
         AddToMailbox(s, e), stack' = stack, alive' = alive, schedId' = schedId
  PROVE  /\ mailbox' \in [Actors -> Seq(Events)] /\ StackInv' /\ ListInv'
         /\ ready' \in [Schedulers -> Seq(Actors)] /\ batch' \in [Schedulers -> Seq(Actors)]
  <2> USE <1>MailAdded
  <2> DEFINE a == e.to
  <2>0. /\ a \in Actors /\ mailbox \in [Actors -> Seq(Events)] /\ mailbox[a] \in Seq(Events)
        /\ ListsTypeOK /\ StackInv /\ ListInv
    BY DEF HomeInv, EventsTypeOK, Events
  <2>1. /\ Append(mailbox[a], e) \in Seq(Events) /\ Append(mailbox[a], e) # <<>>
        /\ Len(Append(mailbox[a], e)) = Len(mailbox[a]) + 1
    BY <2>0, AppendPlaces, SMTT(60)
  <2>2. mailbox' = [mailbox EXCEPT ![a] = Append(mailbox[a], e)]
    BY DEF AddToMailbox
  <2>3. mailbox' \in [Actors -> Seq(Events)] /\ mailbox'[a] = Append(mailbox[a], e)
    BY <2>0, <2>1, <2>2
  <2>4. \A x \in Actors : x # a => mailbox'[x] = mailbox[x]
    BY <2>0, <2>2
  <2>5. \A x \in Actors : Len(mailbox[x]) \in Nat
    BY <2>0, SMTT(60)
  <2>6. \A x \in Actors : Len(mailbox[x]) <= Len(mailbox'[x]) /\ (mailbox[x] # <<>> => mailbox'[x] # <<>>)
    BY <2>0, <2>1, <2>3, <2>4, <2>5, SMTT(60)
  <2>7. \A u \in Schedulers : \A x : RunsAt(u, x)' <=> RunsAt(u, x)
    BY DEF RunsAt
  <2>8. \A u \in Schedulers : \A x : IsHere(u, x)' <=> IsHere(u, x)
    BY DEF IsHere
  <2>9. StackInv'
    BY <2>0, <2>3, <2>6, <2>8, RunsHere, <1>FramesKept
  <2>10. \A u \in Schedulers : \A x \in Listed(u) : x \in alive' /\ IsHere(u, x)' /\ mailbox'[x] # <<>> /\ ~RunsAt(u, x)'
    <3>1. alive \subseteq Actors
      BY DEF HomeInv, ActorsTypeOK
    <3> QED BY <2>0, <2>6, <2>7, <2>8, <3>1 DEF ListInv
  <2>11. CASE Running(a)
    <3>1. ready' = ready /\ batch' = batch
      BY <2>11, SMTT(60) DEF AddToMailbox
    <3>2. ListInv'
      BY <2>0, <2>10, <3>1, <1>ListsKept
    <3> QED BY <2>0, <2>3, <2>9, <3>1, <3>2 DEF ListsTypeOK
  <2>12. CASE ~Running(a)
    <3> DEFINE r == Append(Unlist(ready[s], a), a)
               b == Unlist(batch[s], a)
    <3>1. ready' = [ready EXCEPT ![s] = r] /\ batch' = [batch EXCEPT ![s] = b]
      BY <2>12 DEF AddToMailbox
    <3>2. /\ ready[s] \in Seq(Actors) /\ batch[s] \in Seq(Actors) /\ IsInjective(ready[s]) /\ IsInjective(batch[s])
          /\ Range(ready[s]) \cap Range(batch[s]) = {}
      BY <2>0 DEF ListsTypeOK, ListInv
    <3>3. b \in Seq(Actors) /\ IsInjective(b) /\ Range(b) = Range(batch[s]) \ {a}
      BY <3>2, <1>UnlistIs
    <3>4. /\ Unlist(ready[s], a) \in Seq(Actors) /\ IsInjective(Unlist(ready[s], a))
          /\ Range(Unlist(ready[s], a)) = Range(ready[s]) \ {a}
      BY <3>2, <1>UnlistIs
    <3>5. r \in Seq(Actors) /\ IsInjective(r) /\ Range(r) = Range(Unlist(ready[s], a)) \cup {a}
      <4>1. a \notin Range(Unlist(ready[s], a))
        BY <3>4
      <4> QED BY <2>0, <3>4, <4>1, <1>ListAppend, SMTT(60)
    <3> HIDE DEF r, b
    <3>6. Range(r) \cap Range(b) = {} /\ Range(r) \cup Range(b) \subseteq Listed(s) \cup {a}
      BY <3>2, <3>3, <3>4, <3>5 DEF Listed
    <3>7. a \in alive' /\ IsHere(s, a)' /\ mailbox'[a] # <<>> /\ ~RunsAt(s, a)'
      BY <2>0, <2>1, <2>3, <2>7, <2>8, <2>12, RunningIs
    <3>8. \A x \in Range(r) \cup Range(b) : x \in alive' /\ IsHere(s, x)' /\ mailbox'[x] # <<>> /\ ~RunsAt(s, x)'
      BY <2>10, <3>6, <3>7
    <3>9. ListInv' /\ ready' \in [Schedulers -> Seq(Actors)] /\ batch' \in [Schedulers -> Seq(Actors)]
      BY <2>0, <2>10, <3>1, <3>3, <3>5, <3>6, <3>8, <1>ListsChanged
    <3> QED BY <2>3, <2>9, <3>9
  <2> QED BY <2>11, <2>12
\* An event that changes no list and no handler.
<1>NothingDelivered.
  ASSUME HomeInv, alive' = alive, schedId' = schedId, mailbox' = mailbox,
         ready' = ready, batch' = batch, stack' = stack
  PROVE  /\ StackInv' /\ ListInv'
         /\ ready' \in [Schedulers -> Seq(Actors)] /\ batch' \in [Schedulers -> Seq(Actors)]
         /\ stack' \in [Schedulers -> Seq(FrameRecords)] /\ mailbox' \in [Actors -> Seq(Events)]
  <2> USE <1>NothingDelivered
  <2>1. \A u \in Schedulers : \A i : FrameOK(u, i)' <=> FrameOK(u, i)
    BY DEF FrameOK, IsHere
  <2>2. StackInv'
    BY <2>1 DEF HomeInv, StackInv
  <2>3. \A u \in Schedulers : \A x : (RunsAt(u, x)' <=> RunsAt(u, x)) /\ (IsHere(u, x)' <=> IsHere(u, x))
    BY DEF RunsAt, IsHere
  <2>4. ListInv /\ \A u \in Schedulers : \A x \in Listed(u) : x \in alive' /\ IsHere(u, x)' /\ mailbox'[x] # <<>> /\ ~RunsAt(u, x)'
    BY <2>3 DEF HomeInv, ListInv
  <2>5. ListInv'
    BY <2>4, <1>ListsKept
  <2> QED BY <2>2, <2>5 DEF HomeInv, ListsTypeOK, EventsTypeOK
\* The handler of an idle actor begins.
<1>HandlerBegins.
  ASSUME HomeInv, NEW s \in Schedulers, NEW a \in Actors, a \in alive, IsHere(s, a), MaySendNow(a),
         alive' = alive, schedId' = schedId, mailbox' = mailbox, ready' = ready, batch' = batch,
         Pushes(s, Frame(a, 0, 0))
  PROVE  StackInv' /\ ListInv' /\ stack' \in [Schedulers -> Seq(FrameRecords)]
  <2> USE <1>HandlerBegins
  <2> DEFINE F == Frame(a, 0, 0)
  <2>1. F \in FrameRecords /\ F.actor = a /\ F.left + F.done = 0 /\ F.flag = "none"
    BY SMTT(60) DEF Frame, FrameRecords, Flags
  <2>2. mailbox[a] = <<>> /\ ~Running(a) /\ StackInv /\ ListInv /\ ListsTypeOK
    BY DEF MaySendNow, HomeInv
  <2>3. F.left + F.done <= Len(mailbox[F.actor])
    BY <2>1, <2>2, SMTT(60)
  <2>4. ~RunsAt(s, F.actor)
    BY <2>1, <2>2, RunningIs
  <2> HIDE DEF F
  <2>5. /\ stack' \in [Schedulers -> Seq(FrameRecords)] /\ StackInv'
        /\ \A u \in Schedulers : \A x : RunsAt(u, x)' => RunsAt(u, x) \/ (u = s /\ x = F.actor)
    <3>1. Pushes(s, F) /\ F.actor \in alive /\ IsHere(s, F.actor)
      BY <2>1 DEF F
    <3> QED BY <2>1, <2>3, <2>4, <3>1, <1>FramePushed
  <2>6. \A u \in Schedulers : \A x \in Listed(u) : x \in alive' /\ IsHere(u, x)' /\ mailbox'[x] # <<>> /\ ~RunsAt(u, x)'
    <3>1. \A u \in Schedulers : \A x \in Listed(u) : x \in alive /\ IsHere(u, x) /\ mailbox[x] # <<>> /\ ~RunsAt(u, x) /\ x # a
      BY <2>2 DEF ListInv
    <3>2. \A u \in Schedulers : \A x \in Listed(u) : ~RunsAt(u, x)'
      BY <2>1, <2>5, <3>1
    <3>3. \A u \in Schedulers : \A x : IsHere(u, x) => IsHere(u, x)'
      BY DEF IsHere
    <3> QED BY <3>1, <3>2, <3>3
  <2>7. ListInv'
    BY <2>2, <2>6, <1>ListsKept
  <2> QED BY <2>5, <2>7
\* send_immediately_impl and send_later_impl.
<1>DeliverHome.
  ASSUME HomeInv, NEW t \in Threads, NEW e \in Events, NEW now \in BOOLEAN, Deliver(t, e, now),
         sending[t] = Nothing, alive' = alive, schedId' = schedId
  PROVE  Delivered
  <2> USE <1>DeliverHome
  <2> DEFINE a == e.to
  <2>0. /\ a \in Actors /\ handled \in Seq(Events) /\ Append(handled, e) \in Seq(Events)
        /\ pendingEvents \in [Schedulers -> [Actors -> Seq(Events)]]
        /\ sending \in [Threads -> {Nothing} \cup (Schedulers \X WireMessages)]
        /\ schedId[a].dest \in Schedulers
    <3>1. a \in Actors /\ handled \in Seq(Events) /\ schedId[a] \in [dest : Schedulers, migrating : BOOLEAN]
      BY DEF HomeInv, ActorsTypeOK, EventsTypeOK, Events
    <3>2. Append(handled, e) \in Seq(Events)
      BY <3>1, SMTT(60)
    <3> QED BY <3>1, <3>2 DEF HomeInv, EventsTypeOK
  <2>1. ASSUME sending' = sending
        PROVE  \A u \in Threads, x \in Actors : CarriedBy(u, x)' => CarriedBy(u, x) /\ sending'[u] = sending[u]
    BY <2>1 DEF CarriedBy
  <2>2. CASE /\ a \notin alive
             /\ UNCHANGED <<mailbox, ready, batch, stack, pendingEvents, sending, handled>>
    <3>1. /\ mailbox' = mailbox /\ ready' = ready /\ batch' = batch /\ stack' = stack
          /\ pendingEvents' = pendingEvents /\ sending' = sending /\ handled' = handled
      BY <2>2, SMTT(60)
    <3> QED BY <2>0, <2>1, <3>1, <1>NothingDelivered DEF Delivered
  <2>3. CASE /\ a \in alive /\ t \in Schedulers /\ IsHere(t, a) /\ now /\ MaySendNow(a)
             /\ stack' = [stack EXCEPT ![t] = <<Frame(a, 0, 0)>> \o @]
             /\ handled' = Append(handled, e)
             /\ UNCHANGED <<mailbox, ready, batch>> /\ UNCHANGED <<pendingEvents, sending>>
    <3>1. mailbox' = mailbox /\ ready' = ready /\ batch' = batch /\ pendingEvents' = pendingEvents /\ sending' = sending
      BY <2>3, SMTT(60)
    <3>2. Pushes(t, Frame(a, 0, 0))
      BY <2>3 DEF Pushes
    <3>3. StackInv' /\ ListInv' /\ stack' \in [Schedulers -> Seq(FrameRecords)]
      BY <2>0, <2>3, <3>1, <3>2, <1>HandlerBegins
    <3> QED BY <2>0, <2>1, <2>3, <3>1, <3>3 DEF Delivered, HomeInv, ListsTypeOK, EventsTypeOK
  <2>4. CASE /\ a \in alive /\ t \in Schedulers /\ IsHere(t, a)
             /\ AddToMailbox(t, e) /\ UNCHANGED <<stack, handled>> /\ UNCHANGED <<pendingEvents, sending>>
    <3>1. stack' = stack /\ handled' = handled /\ pendingEvents' = pendingEvents /\ sending' = sending
      BY <2>4, SMTT(60)
    <3>2. /\ mailbox' \in [Actors -> Seq(Events)] /\ StackInv' /\ ListInv'
          /\ ready' \in [Schedulers -> Seq(Actors)] /\ batch' \in [Schedulers -> Seq(Actors)]
      BY <2>4, <3>1, <1>MailAdded
    <3> QED BY <2>0, <2>1, <3>1, <3>2 DEF Delivered, HomeInv, ListsTypeOK
  <2>5. CASE /\ a \in alive /\ schedId[a] = [dest |-> t, migrating |-> TRUE]
             /\ KeepPending(t, e)
             /\ UNCHANGED <<ready, batch, stack, sending, handled>>
    <3>1. /\ ready' = ready /\ batch' = batch /\ stack' = stack /\ sending' = sending /\ handled' = handled
          /\ mailbox' = mailbox
      BY <2>5, SMTT(60) DEF KeepPending
    <3>2. t \in Schedulers
      <4>1. [dest |-> t, migrating |-> TRUE].dest = t
        OBVIOUS
      <4> QED BY <2>0, <2>5, <4>1
    <3>3. pendingEvents' \in [Schedulers -> [Actors -> Seq(Events)]]
      <4>1. pendingEvents[t][a] \in Seq(Events) /\ pendingEvents[t] \in [Actors -> Seq(Events)]
        BY <2>0, <3>2
      <4>2. Append(pendingEvents[t][a], e) \in Seq(Events)
        BY <4>1, SMTT(60)
      <4>3. [pendingEvents[t] EXCEPT ![a] = Append(pendingEvents[t][a], e)] \in [Actors -> Seq(Events)]
        BY <4>1, <4>2
      <4>4. pendingEvents' = [pendingEvents EXCEPT ![t] = [pendingEvents[t] EXCEPT ![a] = Append(pendingEvents[t][a], e)]]
        BY <2>5, SMTT(60) DEF KeepPending
      <4> QED BY <2>0, <4>3, <4>4
    <3> QED BY <2>0, <2>1, <3>1, <3>3, <1>NothingDelivered DEF Delivered
  <2>6. CASE /\ a \in alive /\ schedId[a].dest # t
             /\ sending' = [sending EXCEPT ![t] = <<schedId[a].dest, EventMessage(e)>>]
             /\ UNCHANGED <<mailbox, ready, batch, stack, pendingEvents, handled>>
    <3>1. /\ mailbox' = mailbox /\ ready' = ready /\ batch' = batch /\ stack' = stack
          /\ pendingEvents' = pendingEvents /\ handled' = handled
      BY <2>6, SMTT(60)
    <3> DEFINE m == <<schedId[a].dest, EventMessage(e)>>
    <3>2. EventMessage(e) \in WireMessages /\ EventMessage(e).kind = "event"
      BY <2>0, SMTT(60) DEF EventMessage, WireMessages
    <3>3. m \in Schedulers \X WireMessages /\ m[2].kind = "event"
      BY <2>0, <3>2, SMTT(60)
    <3>4. sending'[t] = m /\ \A u \in Threads : u # t => sending'[u] = sending[u]
      BY <2>0, <2>6
    <3>5. sending' \in [Threads -> {Nothing} \cup (Schedulers \X WireMessages)]
      BY <2>0, <2>6, <3>3
    <3>6. ASSUME NEW u \in Threads, NEW x \in Actors, CarriedBy(u, x)' PROVE CarriedBy(u, x) /\ sending'[u] = sending[u]
      <4>1. sending'[u] # Nothing /\ sending'[u][2].kind = "actor" /\ sending'[u][2].to = x
        BY <3>6 DEF CarriedBy
      <4>2. u # t
        <5>1. "event" # "actor"
          BY SMTT(60)
        <5> QED BY <3>3, <3>4, <4>1, <5>1
      <4> QED BY <3>4, <4>1, <4>2 DEF CarriedBy
    <3> QED BY <2>0, <3>1, <3>5, <3>6, <1>NothingDelivered DEF Delivered
  <2> QED BY <2>2, <2>3, <2>4, <2>5, <2>6 DEF Deliver
\* What a delivery leaves in order, and what remains.
<1>DeliveredHome.
  ASSUME HomeInv, Delivered, plan' = plan, alive' = alive, unborn' = unborn, schedId' = schedId, moves' = moves,
         sent' \in Nat, timeouts' \in [Schedulers -> SUBSET Actors], \A s \in Schedulers : timeouts'[s] \subseteq timeouts[s],
         inbound' \in [Schedulers -> Seq(WireMessages)],
         \A s \in Schedulers : inbound'[s] = inbound[s] \/ (inbound[s] # <<>> /\ inbound'[s] = Tail(inbound[s]))
  PROVE  HomeInv'
  <2> USE <1>DeliveredHome
  <2>1. ActorsTypeOK'
    BY DEF HomeInv, ActorsTypeOK
  <2>2. ListsTypeOK'
    BY DEF Delivered, ListsTypeOK
  <2>3. EventsTypeOK'
    BY DEF Delivered, EventsTypeOK
  <2>4. \A s \in Schedulers : \A a : (IsHere(s, a)' <=> IsHere(s, a)) /\ (OnWay(s, a)' <=> OnWay(s, a))
    BY DEF IsHere, OnWay
  <2>5. TimerInv'
    BY <2>4 DEF HomeInv, TimerInv
  <2>6. CarrierInv'
    BY <2>4, <1>CarriersKept DEF HomeInv, Delivered
  <2> QED BY <2>1, <2>2, <2>3, <2>5, <2>6 DEF HomeInv, Delivered
<1>SendHome.
  ASSUME HomeInv, NEW t \in Threads, NEW a \in Actors, NEW now \in BOOLEAN, Send(t, a, now), plan' = plan
  PROVE  HomeInv'
  <2> USE <1>SendHome
  <2> DEFINE f == IF t = Outside THEN t ELSE Head(stack[t]).actor
             e == ActorEvent(f, a, sent + 1)
  <2>1. /\ schedId' = schedId /\ alive' = alive /\ unborn' = unborn /\ moves' = moves /\ timeouts' = timeouts
        /\ inbound' = inbound /\ sent' = sent + 1
    BY SMTT(60) DEF Send
  <2>2. sending[t] = Nothing /\ f \in Actors \cup {Outside, "start"}
    <3>1. CASE t = Outside
      BY <3>1 DEF Send
    <3>2. CASE t # Outside
      <4>1. t \in Schedulers /\ stack[t] # <<>> /\ sending[t] = Nothing
        BY <3>2 DEF Send, InHandler, Threads
      <4>2. Head(stack[t]).actor \in Actors
        BY <4>1, TopFrame DEF HomeInv
      <4> QED BY <3>2, <4>1, <4>2
    <3> QED BY <3>1, <3>2
  <2>3. sent \in Nat /\ moves[a] \in Nat /\ sent + 1 \in Nat
    <3>1. sent \in Nat /\ moves[a] \in Nat
      BY DEF HomeInv, ActorsTypeOK
    <3> QED BY <3>1, SMTT(60)
  <2>4. Deliver(t, e, now)
    BY DEF Send
  <2> HIDE DEF f
  <2>5. e \in Events
    BY <2>2, <2>3, SMTT(60) DEF ActorEvent, Events
  <2> HIDE DEF e
  <2>6. Delivered
    BY <2>1, <2>2, <2>4, <2>5, <1>DeliverHome
  <2>7. timeouts' \in [Schedulers -> SUBSET Actors] /\ inbound' \in [Schedulers -> Seq(WireMessages)]
    BY <2>1 DEF HomeInv, ListsTypeOK, EventsTypeOK
  <2> QED BY <2>1, <2>3, <2>6, <2>7, <1>DeliveredHome
<1>RunTimeoutHome.
  ASSUME HomeInv, NEW s \in Schedulers, NEW a \in Actors, RunTimeout(s, a), plan' = plan
  PROVE  HomeInv'
  <2> USE <1>RunTimeoutHome
  <2> DEFINE e == ActorEvent(a, a, sent + 1)
  <2>1. /\ schedId' = schedId /\ alive' = alive /\ unborn' = unborn /\ moves' = moves
        /\ inbound' = inbound /\ sent' = sent + 1
    BY SMTT(60) DEF RunTimeout
  <2>2. sending[s] = Nothing /\ Deliver(s, e, TRUE) /\ timeouts' = [timeouts EXCEPT ![s] = @ \ {a}]
    BY DEF RunTimeout, Idle
  <2>3. sent \in Nat /\ moves[a] \in Nat /\ sent + 1 \in Nat
    <3>1. sent \in Nat /\ moves[a] \in Nat
      BY DEF HomeInv, ActorsTypeOK
    <3> QED BY <3>1, SMTT(60)
  <2>5. e \in Events
    BY <2>3, SMTT(60) DEF ActorEvent, Events
  <2> HIDE DEF e
  <2>6. Delivered
    BY <2>1, <2>2, <2>5, <1>DeliverHome DEF Threads
  <2>7. /\ timeouts \in [Schedulers -> SUBSET Actors] /\ inbound' \in [Schedulers -> Seq(WireMessages)]
    BY <2>1 DEF HomeInv, ListsTypeOK, EventsTypeOK
  <2>8. /\ timeouts' \in [Schedulers -> SUBSET Actors]
        /\ \A u \in Schedulers : timeouts'[u] \subseteq timeouts[u]
    BY <2>2, <2>7, SMTT(60)
  <2> QED BY <2>1, <2>3, <2>6, <2>7, <2>8, <1>DeliveredHome
<1>ReceiveEventHome.
  ASSUME HomeInv, NEW s \in Schedulers, Receive(s), schedId' = schedId, plan' = plan,
         Head(inbound[s]).kind = "event", Deliver(s, Head(inbound[s]).event, TRUE)
  PROVE  HomeInv'
  <2> USE <1>ReceiveEventHome
  <2>1. /\ alive' = alive /\ unborn' = unborn /\ moves' = moves /\ timeouts' = timeouts /\ sent' = sent
        /\ sending[s] = Nothing /\ inbound[s] # <<>> /\ inbound' = [inbound EXCEPT ![s] = Tail(@)]
    BY SMTT(60) DEF Receive, Idle
  <2>2. /\ Head(inbound[s]).event \in Events
        /\ inbound' \in [Schedulers -> Seq(WireMessages)]
        /\ inbound'[s] = Tail(inbound[s])
        /\ \A u \in Schedulers : u # s => inbound'[u] = inbound[u]
    BY <2>1, FirstMessage, MessageIs DEF HomeInv
  <2>3. Delivered
    BY <2>1, <2>2, <1>DeliverHome DEF Threads
  <2>4. timeouts' \in [Schedulers -> SUBSET Actors] /\ sent' \in Nat
    BY <2>1 DEF HomeInv, ListsTypeOK, ActorsTypeOK
  <2>5. \A u \in Schedulers : inbound'[u] = inbound[u] \/ (inbound[u] # <<>> /\ inbound'[u] = Tail(inbound[u]))
    BY <2>1, <2>2
  <2>6. \A u \in Schedulers : timeouts'[u] \subseteq timeouts[u]
    BY <2>1
  <2> QED BY <2>1, <2>2, <2>3, <2>4, <2>5, <2>6, <1>DeliveredHome
\* A handler goes on and all else stays.
<1>SwappedHome.
  ASSUME HomeInv, NEW s \in Schedulers, stack[s] # <<>>, NEW F \in FrameRecords,
         F.actor = Head(stack[s]).actor, F.left + F.done <= Len(mailbox[F.actor]),
         F.flag = "migrate" => F.dest \in Schedulers, Swaps(s, F),
         plan' = plan, schedId' = schedId, alive' = alive, unborn' = unborn, mailbox' = mailbox, moves' = moves,
         ready' = ready, batch' = batch, timeouts' = timeouts, pendingEvents' = pendingEvents,
         inbound' = inbound, sending' = sending, sent' = sent, handled' \in Seq(Events)
  PROVE  HomeInv'
  <2> USE <1>SwappedHome
  <2>1. /\ stack' \in [Schedulers -> Seq(FrameRecords)] /\ StackInv'
        /\ \A u \in Schedulers : \A a : RunsAt(u, a)' <=> RunsAt(u, a)
    BY <1>FrameSwapped
  <2>2. ActorsTypeOK'
    BY DEF HomeInv, ActorsTypeOK
  <2>3. ListsTypeOK'
    BY <2>1 DEF HomeInv, ListsTypeOK
  <2>4. EventsTypeOK'
    BY DEF HomeInv, EventsTypeOK
  <2>5. \A u \in Schedulers : \A a : (IsHere(u, a)' <=> IsHere(u, a)) /\ (OnWay(u, a)' <=> OnWay(u, a))
    BY DEF IsHere, OnWay
  <2>6. \A u \in Schedulers : \A a \in Listed(u) : a \in alive' /\ IsHere(u, a)' /\ mailbox'[a] # <<>> /\ ~RunsAt(u, a)'
    BY <2>1, <2>5 DEF HomeInv, ListInv
  <2>7. ListInv'
    BY <2>6, <1>ListsKept DEF HomeInv
  <2>8. TimerInv'
    BY <2>5 DEF HomeInv, TimerInv
  <2>9. CarrierInv'
    <3>1. \A t \in Threads, a \in Actors : CarriedBy(t, a)' => CarriedBy(t, a) /\ sending'[t] = sending[t]
      BY DEF CarriedBy
    <3> QED BY <2>5, <3>1, <1>CarriersKept DEF HomeInv
  <2> QED BY <2>1, <2>2, <2>3, <2>4, <2>7, <2>8, <2>9 DEF HomeInv
<1>SetFlagHome.
  ASSUME HomeInv, NEW s \in Schedulers, stack[s] # <<>>,
         NEW flag \in Flags, NEW dest \in Schedulers \cup {Nothing},
         flag = "migrate" => dest \in Schedulers, SetFlag(s, flag, dest),
         plan' = plan, schedId' = schedId, alive' = alive, unborn' = unborn, mailbox' = mailbox, moves' = moves,
         ready' = ready, batch' = batch, timeouts' = timeouts, pendingEvents' = pendingEvents,
         inbound' = inbound, sending' = sending, sent' = sent, handled' = handled
  PROVE  HomeInv'
  <2> USE <1>SetFlagHome
  <2> DEFINE f == Head(stack[s])
             F == Flagged(f, flag, dest)
  <2>1. f \in FrameRecords /\ f = stack[s][1] /\ 1 \in DOMAIN stack[s]
    BY TopFrame DEF HomeInv
  <2>2. f.left + f.done <= Len(mailbox[f.actor])
    <3>1. FrameOK(s, 1)
      BY <2>1 DEF HomeInv, StackInv
    <3> QED BY <2>1, <3>1 DEF FrameOK
  <2>3. Swaps(s, F)
    BY DEF SetFlag, Swaps, Flagged
  <2> HIDE DEF f
  <2>4. F \in FrameRecords /\ F.actor = f.actor /\ F.left = f.left /\ F.done = f.done /\ F.flag = flag /\ F.dest = dest
    <3>1. f \in FrameRecords
      BY <2>1
    <3> QED BY <3>1, FlaggedFrame, SMTT(60)
  <2> HIDE DEF F
  <2>5. F.left + F.done <= Len(mailbox[F.actor]) /\ F.actor = Head(stack[s]).actor
    BY <2>2, <2>4 DEF f
  <2>6. handled' \in Seq(Events)
    BY DEF HomeInv, EventsTypeOK
  <2>7. F.flag = "migrate" => F.dest \in Schedulers
    BY <2>4
  <2> QED BY <2>3, <2>4, <2>5, <2>6, <2>7, <1>SwappedHome
<1>StopActorHome.
  ASSUME HomeInv, NEW s \in Schedulers, StopActor(s), plan' = plan
  PROVE  HomeInv'
  <2> USE <1>StopActorHome
  <2>1. /\ stack[s] # <<>> /\ SetFlag(s, "stop", Nothing)
        /\ schedId' = schedId /\ alive' = alive /\ unborn' = unborn /\ mailbox' = mailbox /\ moves' = moves
        /\ ready' = ready /\ batch' = batch /\ timeouts' = timeouts /\ pendingEvents' = pendingEvents
        /\ inbound' = inbound /\ sending' = sending /\ sent' = sent /\ handled' = handled
    BY SMTT(60) DEF StopActor, InHandler, eventVars
  <2>2. "stop" # "migrate" /\ "stop" \in Flags
    BY SMTT(60) DEF Flags
  <2> QED BY <2>1, <2>2, <1>SetFlagHome
<1>MigrateActorHome.
  ASSUME HomeInv, NEW s \in Schedulers, NEW d \in Schedulers, MigrateActor(s, d), plan' = plan
  PROVE  HomeInv'
  <2> USE <1>MigrateActorHome
  <2>1. /\ stack[s] # <<>> /\ SetFlag(s, "migrate", d)
        /\ schedId' = schedId /\ alive' = alive /\ unborn' = unborn /\ mailbox' = mailbox /\ moves' = moves
        /\ ready' = ready /\ batch' = batch /\ timeouts' = timeouts /\ pendingEvents' = pendingEvents
        /\ inbound' = inbound /\ sending' = sending /\ sent' = sent /\ handled' = handled
    BY SMTT(60) DEF MigrateActor, InHandler, eventVars, actorVars
  <2>2. "migrate" \in Flags
    BY DEF Flags
  <2> QED BY <2>1, <2>2, <1>SetFlagHome
<1>SetTimeoutHome.
  ASSUME HomeInv, NEW s \in Schedulers, SetTimeout(s), plan' = plan
  PROVE  HomeInv'
  <2> USE <1>SetTimeoutHome
  <2> DEFINE b == Head(stack[s]).actor
  <2>1. /\ stack[s] # <<>> /\ stack' = stack /\ timeouts' = [timeouts EXCEPT ![s] = @ \cup {b}]
        /\ schedId' = schedId /\ alive' = alive /\ unborn' = unborn /\ mailbox' = mailbox /\ moves' = moves
        /\ ready' = ready /\ batch' = batch /\ pendingEvents' = pendingEvents
        /\ inbound' = inbound /\ sending' = sending /\ sent' = sent /\ handled' = handled
    BY SMTT(60) DEF SetTimeout, InHandler, eventVars, actorVars
  <2>2. b \in Actors /\ RunsAt(s, b)
    BY <2>1, TopFrame DEF HomeInv, RunsAt
  <2>3. b \in alive /\ IsHere(s, b)
    BY <2>2, RunsHere DEF HomeInv
  <2> HIDE DEF b
  <2>4. timeouts \in [Schedulers -> SUBSET Actors]
    BY DEF HomeInv, ListsTypeOK
  <2>5. timeouts' \in [Schedulers -> SUBSET Actors] /\ \A u \in Schedulers : \A x \in timeouts'[u] : x \in timeouts[u] \/ (u = s /\ x = b)
    BY <2>1, <2>2, <2>4, SMTT(60)
  <2>6. \A u \in Schedulers : \A a : (IsHere(u, a)' <=> IsHere(u, a)) /\ (OnWay(u, a)' <=> OnWay(u, a))
    BY <2>1 DEF IsHere, OnWay
  <2>7. TimerInv'
    BY <2>1, <2>3, <2>5, <2>6 DEF HomeInv, TimerInv
  <2>8. /\ StackInv' /\ ListInv'
        /\ ready' \in [Schedulers -> Seq(Actors)] /\ batch' \in [Schedulers -> Seq(Actors)]
        /\ stack' \in [Schedulers -> Seq(FrameRecords)] /\ mailbox' \in [Actors -> Seq(Events)]
    BY <2>1, <1>NothingDelivered
  <2>9. ActorsTypeOK' /\ ListsTypeOK' /\ EventsTypeOK'
    BY <2>1, <2>5, <2>8 DEF HomeInv, ActorsTypeOK, ListsTypeOK, EventsTypeOK
  <2>10. CarrierInv'
    <3>1. \A t \in Threads, a \in Actors : CarriedBy(t, a)' => CarriedBy(t, a) /\ sending'[t] = sending[t]
      BY <2>1 DEF CarriedBy
    <3>2. \A u \in Schedulers : inbound'[u] = inbound[u]
      BY <2>1
    <3> QED BY <2>6, <3>1, <3>2, <1>CarriersKept DEF HomeInv
  <2> QED BY <2>7, <2>8, <2>9, <2>10 DEF HomeInv
<1>OthersPlace.
  ASSUME NEW a, OthersStay(a), NEW s, NEW x \in Actors, x # a
  PROVE  (IsHere(s, x)' <=> IsHere(s, x)) /\ (OnWay(s, x)' <=> OnWay(s, x))
  BY <1>OthersPlace DEF OthersStay, IsHere, OnWay
\* An actor that is nowhere is taken up by a thread.
<1>CarrierStarts.
  ASSUME EventsTypeOK, CarrierInv, NEW s \in Schedulers, NEW d \in Schedulers, NEW a \in Actors,
         sending[s] = Nothing, \A u \in Schedulers : ~OnWay(u, a), OthersStay(a), OnWay(d, a)',
         inbound' = inbound, sending' = [sending EXCEPT ![s] = <<d, ActorMessage(a)>>]
  PROVE  CarrierInv' /\ sending' \in [Threads -> {Nothing} \cup (Schedulers \X WireMessages)]
  <2> USE <1>CarrierStarts
  <2>1. ActorMessage(a) \in WireMessages /\ ActorMessage(a).kind = "actor" /\ ActorMessage(a).to = a
    BY SMTT(60) DEF ActorMessage, WireMessages
  <2> DEFINE m == <<d, ActorMessage(a)>>
  <2>2. m \in Schedulers \X WireMessages /\ m[1] = d /\ m[2] = ActorMessage(a)
    <3> HIDE DEF WireMessages
    <3> QED BY <2>1, SMTT(60)
  <2>3. sending \in [Threads -> {Nothing} \cup (Schedulers \X WireMessages)] /\ s \in Threads
    BY DEF EventsTypeOK, Threads
  <2> HIDE DEF m
  <2>4. sending' \in [Threads -> {Nothing} \cup (Schedulers \X WireMessages)]
    BY <2>2, <2>3 DEF m
  <2>5. sending'[s] = m /\ \A t \in Threads : t # s => sending'[t] = sending[t]
    BY <2>3 DEF m
  <2>6. ASSUME NEW t \in Threads, NEW x \in Actors, CarriedBy(t, x)'
        PROVE  \/ t # s /\ x # a /\ CarriedBy(t, x) /\ sending'[t] = sending[t]
               \/ t = s /\ x = a
    <3>1. CASE t = s
      BY <2>1, <2>2, <2>5, <2>6, <3>1 DEF CarriedBy
    <3>2. CASE t # s
      <4>1. sending'[t] = sending[t]
        BY <2>5, <3>2
      <4>2. CarriedBy(t, x)
        BY <2>6, <4>1 DEF CarriedBy
      <4>3. sending[t][1] \in Schedulers /\ OnWay(sending[t][1], x)
        BY <4>2, SendingIs DEF CarriedBy, CarrierInv
      <4> QED BY <3>2, <4>1, <4>2, <4>3
    <3> QED BY <3>1, <3>2
  <2>7. ASSUME NEW u \in Schedulers, NEW i, NEW x \in Actors, CarriedTo(u, i, x)'
        PROVE  CarriedTo(u, i, x) /\ x # a
    BY <2>7 DEF CarriedTo, CarrierInv
  <2>8. ASSUME NEW u \in Schedulers, NEW i, NEW x \in Actors, CarriedTo(u, i, x)'
        PROVE  OnWay(u, x)' /\ \A j : CarriedTo(u, j, x)' => i = j
    <3>1. CarriedTo(u, i, x) /\ x # a /\ OnWay(u, x)
      BY <2>7, <2>8 DEF CarrierInv
    <3>2. OnWay(u, x)'
      BY <3>1, <1>OthersPlace
    <3>3. \A j : CarriedTo(u, j, x)' => i = j
      BY <2>7, <3>1 DEF CarrierInv
    <3> QED BY <3>2, <3>3
  <2>9. ASSUME NEW t \in Threads, NEW x \in Actors, CarriedBy(t, x)'
        PROVE  /\ OnWay(sending[t][1], x)'
               /\ \A u \in Schedulers : \A i : ~CarriedTo(u, i, x)'
               /\ \A v \in Threads : CarriedBy(v, x)' => v = t
    <3>1. CASE t = s /\ x = a
      <4>1. OnWay(sending[t][1], x)'
        BY <2>2, <2>5, <3>1 DEF OnWay
      <4> QED BY <2>6, <2>7, <3>1, <4>1
    <3>2. CASE t # s /\ x # a /\ CarriedBy(t, x) /\ sending'[t] = sending[t]
      <4>1. OnWay(sending[t][1], x)
        BY <3>2 DEF CarrierInv
      <4>2. OnWay(sending[t][1], x)'
        BY <3>2, <4>1 DEF OthersStay, OnWay
      <4>3. \A u \in Schedulers : \A i : ~CarriedTo(u, i, x)'
        BY <2>7, <3>2 DEF CarrierInv
      <4>4. \A v \in Threads : CarriedBy(v, x)' => v = t
        BY <2>6, <3>2 DEF CarrierInv
      <4> QED BY <4>2, <4>3, <4>4
    <3> QED BY <2>6, <2>9, <3>1, <3>2
  <2> QED BY <2>4, <2>8, <2>9 DEF CarrierInv
\* A list that gets an actor that was in none.
<1>ListsGrow.
  ASSUME ListsTypeOK, ListInv, NEW s \in Schedulers, NEW a \in Actors, a \notin Listed(s),
         batch' = batch, ready' = [ready EXCEPT ![s] = Append(@, a)],
         \A u \in Schedulers : \A x \in Listed(u) : x \in alive' /\ IsHere(u, x)' /\ mailbox'[x] # <<>> /\ ~RunsAt(u, x)',
         a \in alive' /\ IsHere(s, a)' /\ mailbox'[a] # <<>> /\ ~RunsAt(s, a)'
  PROVE  ListInv' /\ ready' \in [Schedulers -> Seq(Actors)] /\ batch' \in [Schedulers -> Seq(Actors)]
  <2> USE <1>ListsGrow
  <2> DEFINE r == Append(ready[s], a)
             b == batch[s]
  <2>1. /\ ready[s] \in Seq(Actors) /\ b \in Seq(Actors) /\ IsInjective(ready[s]) /\ IsInjective(b)
        /\ Range(ready[s]) \cap Range(b) = {} /\ batch \in [Schedulers -> Seq(Actors)]
    BY DEF ListsTypeOK, ListInv
  <2>2. a \notin Range(ready[s]) /\ a \notin Range(b)
    BY DEF Listed
  <2>3. r \in Seq(Actors) /\ IsInjective(r) /\ Range(r) = Range(ready[s]) \cup {a}
    BY <2>1, <2>2, <1>ListAppend, SMTT(60)
  <2>4. ready' = [ready EXCEPT ![s] = r] /\ batch' = [batch EXCEPT ![s] = b]
    <3>1. ready' = [ready EXCEPT ![s] = r]
      OBVIOUS
    <3>2. batch' = [batch EXCEPT ![s] = b]
      BY <2>1, SMTT(60)
    <3> QED BY <3>1, <3>2
  <2> HIDE DEF r, b
  <2>5. Range(r) \cap Range(b) = {}
    BY <2>1, <2>2, <2>3
  <2>6. \A x \in Range(r) \cup Range(b) : x \in Listed(s) \/ x = a
    BY <2>3 DEF Listed, b
  <2>7. \A x \in Range(r) \cup Range(b) : x \in alive' /\ IsHere(s, x)' /\ mailbox'[x] # <<>> /\ ~RunsAt(s, x)'
    BY <2>6
  <2> QED BY <2>1, <2>3, <2>4, <2>5, <2>7, <1>ListsChanged
<1>PoppedHome.
  ASSUME HomeInv, NEW s \in Schedulers, stack[s] # <<>>, NEW a, a = Head(stack[s]).actor,
         Pops(s), OthersStay(a), ActorsTypeOK', EventsTypeOK', CarrierInv',
         TimersLeft(s, a), batch' = batch, MayBeListed(s, a)
  PROVE  HomeInv'
  <2> USE <1>PoppedHome
  <2>1. /\ a \in Actors /\ a \in alive /\ IsHere(s, a) /\ RunsAt(s, a)
        /\ \A u \in Schedulers : a \notin Listed(u) /\ (a \in timeouts[u] => u = s) /\ ~OnWay(u, a)
    BY RunnerIs
  <2>2. StackInv /\ ListInv /\ ListsTypeOK /\ TimerInv /\ alive \subseteq Actors
    BY DEF HomeInv, ActorsTypeOK
  <2>3. ASSUME NEW u \in Schedulers, NEW x \in Actors, RunsAt(u, x) /\ x # a
        PROVE  x \in alive' /\ IsHere(u, x)' /\ mailbox'[x] = mailbox[x]
    <3>1. x \in alive /\ IsHere(u, x)
      BY <2>2, <2>3, RunsHere
    <3>2. IsHere(u, x)'
      BY <2>3, <3>1 DEF OthersStay, IsHere
    <3> QED BY <2>3, <3>1, <3>2 DEF OthersStay
  <2>4. /\ stack' \in [Schedulers -> Seq(FrameRecords)] /\ StackInv'
        /\ \A u \in Schedulers, x \in Actors : RunsAt(u, x)' => RunsAt(u, x) /\ x # a
    BY <2>3, <1>FramePopped DEF Pops
  <2>5. ASSUME NEW u \in Schedulers, NEW x \in Listed(u)
        PROVE  x \in alive' /\ IsHere(u, x)' /\ mailbox'[x] # <<>> /\ ~RunsAt(u, x)'
    <3>1. x \in alive /\ IsHere(u, x) /\ mailbox[x] # <<>> /\ ~RunsAt(u, x) /\ x # a /\ x \in Actors
      BY <2>1, <2>2 DEF ListInv
    <3>2. IsHere(u, x)' /\ ~RunsAt(u, x)'
      BY <2>4, <3>1, <1>OthersPlace
    <3> QED BY <3>1, <3>2 DEF OthersStay
  <2>6. ListInv' /\ ready' \in [Schedulers -> Seq(Actors)] /\ batch' \in [Schedulers -> Seq(Actors)]
    <3>1. CASE ready' = ready
      BY <2>2, <2>5, <3>1, <1>ListsKept DEF ListsTypeOK
    <3>2. CASE /\ ready' = [ready EXCEPT ![s] = Append(@, a)]
               /\ a \in alive' /\ IsHere(s, a)' /\ mailbox'[a] # <<>>
      <4>1. ~RunsAt(s, a)'
        BY <2>1, <2>4
      <4> QED BY <2>1, <2>2, <2>5, <3>2, <4>1, <1>ListsGrow
    <3> QED BY <3>1, <3>2 DEF MayBeListed
  <2>7. TimerInv'
    <3> SUFFICES ASSUME NEW u \in Schedulers, NEW x \in timeouts'[u] PROVE x \in alive' /\ IsHere(u, x)'
      BY DEF TimerInv
    <3>1. x \in timeouts[u] /\ x \in alive /\ IsHere(u, x) /\ x \in Actors
      BY <2>2 DEF TimerInv, TimersLeft
    <3>2. CASE x = a
      BY <2>1, <3>1, <3>2 DEF TimersLeft
    <3>3. CASE x # a
      BY <3>1, <3>3 DEF OthersStay, IsHere
    <3> QED BY <3>2, <3>3
  <2>8. ListsTypeOK'
    BY <2>4, <2>6 DEF ListsTypeOK, TimersLeft
  <2> QED BY <2>4, <2>6, <2>7, <2>8 DEF HomeInv
\* flush_mailbox goes on.
<1>NextEventHome.
  ASSUME HomeInv, NEW s \in Schedulers, stack[s] # <<>>, NEW f, f = Head(stack[s]), f.left > 0,
         Swaps(s, Frame(f.actor, f.left - 1, f.done + 1)),
         handled' = Append(handled, mailbox[f.actor][f.done + 1]),
         plan' = plan, schedId' = schedId, alive' = alive, unborn' = unborn, mailbox' = mailbox, moves' = moves,
         ready' = ready, batch' = batch, timeouts' = timeouts, pendingEvents' = pendingEvents,
         inbound' = inbound, sending' = sending, sent' = sent
  PROVE  HomeInv'
  <2> USE <1>NextEventHome
  <2> DEFINE F == Frame(f.actor, f.left - 1, f.done + 1)
  <2>1. /\ f.actor \in Actors /\ f.left \in Nat /\ f.done \in Nat
        /\ mailbox[f.actor] \in Seq(Events) /\ Len(mailbox[f.actor]) \in Nat
        /\ f.left + f.done <= Len(mailbox[f.actor])
    BY FrameFacts
  <2>2. /\ f.left - 1 \in Nat /\ f.done + 1 \in Nat /\ (f.left - 1) + (f.done + 1) <= Len(mailbox[f.actor])
        /\ f.done + 1 \in 1..Len(mailbox[f.actor])
    <3>1. \A l, d, n \in Nat : l > 0 /\ l + d <= n => l - 1 \in Nat /\ d + 1 \in Nat /\ (l - 1) + (d + 1) <= n /\ d + 1 \in 1..n
      BY SMTT(60)
    <3> QED BY <2>1, <3>1
  <2>3. /\ F.actor = f.actor /\ F.left = f.left - 1 /\ F.done = f.done + 1 /\ F.flag = "none" /\ F.dest = Nothing
    BY DEF Frame
  <2>4. F \in FrameRecords
    <3>1. "none" \in Flags /\ Nothing \in Schedulers \cup {Nothing}
      BY DEF Flags
    <3> QED BY <2>1, <2>2, <3>1 DEF Frame, FrameRecords
  <2>5. handled' \in Seq(Events)
    <3>1. mailbox[f.actor][f.done + 1] \in Events /\ handled \in Seq(Events)
      <4>1. handled \in Seq(Events)
        BY DEF HomeInv, EventsTypeOK
      <4>2. \A q \in Seq(Events) : \A i \in 1..Len(q) : q[i] \in Events
        BY SMTT(60)
      <4> QED BY <2>1, <2>2, <4>1, <4>2
    <3>2. \A q \in Seq(Events) : \A x \in Events : Append(q, x) \in Seq(Events)
      BY SMTT(60)
    <3> QED BY <3>1, <3>2
  <2>6. F.left + F.done <= Len(mailbox[F.actor])
    BY <2>2, <2>3
  <2>7. F.flag # "migrate" /\ F.actor = Head(stack[s]).actor
    <3>1. "none" # "migrate"
      BY SMTT(60)
    <3> QED BY <2>3, <3>1
  <2> HIDE DEF F
  <2>8. Swaps(s, F)
    BY DEF F
  <2> QED BY <2>4, <2>5, <2>6, <2>7, <2>8, <1>SwappedHome
\* What is left in the mailbox.
<1>RestIs.
  ASSUME HomeInv, NEW s \in Schedulers, stack[s] # <<>>, NEW f, f = Head(stack[s])
  PROVE  SubSeq(mailbox[f.actor], f.done + 1, Len(mailbox[f.actor])) \in Seq(Events)
  <2> USE <1>RestIs
  <2>1. f.done \in Nat /\ mailbox[f.actor] \in Seq(Events) /\ f.done <= Len(mailbox[f.actor])
    BY FrameFacts
  <2> QED BY <2>1, DropPlaces
\* A mailbox that is replaced.
<1>MailReplaced.
  ASSUME EventsTypeOK, NEW a \in Actors, NEW r \in Seq(Events), mailbox' = [mailbox EXCEPT ![a] = r]
  PROVE  /\ mailbox' \in [Actors -> Seq(Events)] /\ mailbox'[a] = r
         /\ \A x \in Actors : x # a => mailbox'[x] = mailbox[x]
  <2> USE <1>MailReplaced
  <2>1. mailbox \in [Actors -> Seq(Events)]
    BY DEF EventsTypeOK
  <2> QED BY <2>1
\* The handler has ended and the actor stays.
<1>FinishedHome.
  ASSUME HomeInv, NEW s \in Schedulers, stack[s] # <<>>, NEW f, f = Head(stack[s]), NEW r \in Seq(Events),
         Pops(s), mailbox' = [mailbox EXCEPT ![f.actor] = r],
         ready' = [ready EXCEPT ![s] = IF r = <<>> THEN @ ELSE Append(@, f.actor)],
         plan' = plan, schedId' = schedId, alive' = alive, unborn' = unborn, moves' = moves,
         batch' = batch, timeouts' = timeouts, pendingEvents' = pendingEvents,
         inbound' = inbound, sending' = sending, sent' = sent, handled' = handled
  PROVE  HomeInv'
  <2> USE <1>FinishedHome
  <2>0. PICK a : a = f.actor /\ a = Head(stack[s]).actor
    OBVIOUS
  <2>1. /\ a \in Actors /\ a \in alive /\ IsHere(s, a) /\ RunsAt(s, a)
    BY <2>0, RunnerIs
  <2>2. /\ mailbox' \in [Actors -> Seq(Events)] /\ mailbox'[a] = r
        /\ \A x \in Actors : x # a => mailbox'[x] = mailbox[x]
    BY <2>0, <2>1, <1>MailReplaced DEF HomeInv
  <2>3. \A u \in Schedulers : \A x : (IsHere(u, x)' <=> IsHere(u, x)) /\ (OnWay(u, x)' <=> OnWay(u, x))
    BY DEF IsHere, OnWay
  <2>4. OthersStay(a)
    BY <2>2 DEF OthersStay
  <2>5. ActorsTypeOK' /\ EventsTypeOK'
    BY <2>2 DEF HomeInv, ActorsTypeOK, EventsTypeOK
  <2>6. CarrierInv'
    <3>1. \A t \in Threads, x \in Actors : CarriedBy(t, x)' => CarriedBy(t, x) /\ sending'[t] = sending[t]
      BY DEF CarriedBy
    <3>2. \A u \in Schedulers : inbound'[u] = inbound[u]
      OBVIOUS
    <3> QED BY <2>3, <3>1, <3>2, <1>CarriersKept DEF HomeInv
  <2>7. TimersLeft(s, a)
    BY <2>1, <2>3 DEF HomeInv, ListsTypeOK, TimersLeft
  <2>8. MayBeListed(s, a)
    <3>1. CASE r = <<>>
      <4>1. ready \in [Schedulers -> Seq(Actors)] /\ ready' = [ready EXCEPT ![s] = ready[s]]
        BY <3>1 DEF HomeInv, ListsTypeOK
      <4>2. ready' = ready
        BY <4>1, SMTT(60)
      <4> QED BY <4>2 DEF MayBeListed
    <3>2. CASE r # <<>>
      <4>1. ready' = [ready EXCEPT ![s] = Append(@, a)]
        BY <2>0, <3>2
      <4> QED BY <2>1, <2>2, <2>3, <3>2, <4>1 DEF MayBeListed
    <3> QED BY <3>1, <3>2
  <2> QED BY <2>0, <2>4, <2>5, <2>6, <2>7, <2>8, <1>PoppedHome
\* do_stop_actor: the actor is gone, with its mail and its timeout.
<1>TornDownHome.
  ASSUME HomeInv, NEW s \in Schedulers, stack[s] # <<>>, NEW a, a = Head(stack[s]).actor,
         Pops(s), mailbox' = [mailbox EXCEPT ![a] = <<>>], alive' = alive \ {a},
         timeouts' = [timeouts EXCEPT ![s] = @ \ {a}],
         plan' = plan, schedId' = schedId, unborn' = unborn, moves' = moves,
         ready' = ready, batch' = batch, pendingEvents' = pendingEvents,
         inbound' = inbound, sending' = sending, sent' = sent, handled' = handled
  PROVE  HomeInv'
  <2> USE <1>TornDownHome
  <2>1. /\ a \in Actors /\ a \in alive /\ IsHere(s, a)
        /\ \A u \in Schedulers : ~OnWay(u, a)
    BY RunnerIs
  <2>2. /\ mailbox' \in [Actors -> Seq(Events)]
        /\ \A x \in Actors : x # a => mailbox'[x] = mailbox[x]
    <3>1. <<>> \in Seq(Events)
      BY SMTT(60)
    <3> QED BY <2>1, <3>1, <1>MailReplaced DEF HomeInv
  <2>4. OthersStay(a)
    BY <2>2 DEF OthersStay
  <2>5. ActorsTypeOK' /\ EventsTypeOK'
    BY <2>2 DEF HomeInv, ActorsTypeOK, EventsTypeOK
  <2>6. CarrierInv'
    <3>1. \A t \in Threads, x \in Actors : CarriedBy(t, x)' => CarriedBy(t, x) /\ sending'[t] = sending[t]
      BY DEF CarriedBy
    <3>2. \A u \in Schedulers : inbound'[u] = inbound[u]
      OBVIOUS
    <3>3. \A u \in Schedulers, x \in Actors : OnWay(u, x) => OnWay(u, x)'
      BY <2>1 DEF OnWay
    <3> QED BY <3>1, <3>2, <3>3, <1>CarriersKept DEF HomeInv
  <2>7. TimersLeft(s, a)
    <3>1. timeouts \in [Schedulers -> SUBSET Actors]
      BY DEF HomeInv, ListsTypeOK
    <3>2. timeouts' \in [Schedulers -> SUBSET Actors] /\ a \notin timeouts'[s] /\ \A u \in Schedulers : timeouts'[u] \subseteq timeouts[u]
      BY <3>1, SMTT(60)
    <3> QED BY <3>2 DEF TimersLeft
  <2>8. MayBeListed(s, a)
    BY DEF MayBeListed
  <2> QED BY <2>4, <2>5, <2>6, <2>7, <2>8, <1>PoppedHome
\* start_migrate_actor and do_migrate_actor: the actor is on its way.
<1>MigratedHome.
  ASSUME HomeInv, NEW s \in Schedulers, stack[s] # <<>>, sending[s] = Nothing,
         NEW a, a = Head(stack[s]).actor, NEW d \in Schedulers, NEW r \in Seq(Events),
         Pops(s), mailbox' = [mailbox EXCEPT ![a] = r],
         schedId' = [schedId EXCEPT ![a] = [dest |-> d, migrating |-> TRUE]],
         timeouts' = [timeouts EXCEPT ![s] = timeouts[s] \ {a}],
         moves' = [moves EXCEPT ![a] = @ + 1],
         sending' = [sending EXCEPT ![s] = <<d, ActorMessage(a)>>],
         plan' = plan, alive' = alive, unborn' = unborn,
         ready' = ready, batch' = batch, pendingEvents' = pendingEvents,
         inbound' = inbound, sent' = sent, handled' = handled
  PROVE  HomeInv'
  <2> USE <1>MigratedHome
  <2>1. /\ a \in Actors /\ a \in alive /\ IsHere(s, a)
        /\ \A u \in Schedulers : ~OnWay(u, a)
    BY RunnerIs
  <2>2. /\ mailbox' \in [Actors -> Seq(Events)]
        /\ \A x \in Actors : x # a => mailbox'[x] = mailbox[x]
    BY <2>1, <1>MailReplaced DEF HomeInv
  <2>3. /\ schedId' \in [Actors -> [dest : Schedulers, migrating : BOOLEAN]]
        /\ schedId'[a] = [dest |-> d, migrating |-> TRUE] /\ \A x \in Actors : x # a => schedId'[x] = schedId[x]
    <3>1. schedId \in [Actors -> [dest : Schedulers, migrating : BOOLEAN]]
      BY DEF HomeInv, ActorsTypeOK
    <3>2. [dest |-> d, migrating |-> TRUE] \in [dest : Schedulers, migrating : BOOLEAN]
      BY SMTT(60)
    <3> QED BY <2>1, <3>1, <3>2
  <2>4. OthersStay(a)
    BY <2>2, <2>3 DEF OthersStay
  <2>5. moves' \in [Actors -> Nat]
    <3>1. moves \in [Actors -> Nat] /\ moves[a] \in Nat
      BY <2>1 DEF HomeInv, ActorsTypeOK
    <3>2. moves[a] + 1 \in Nat
      BY <3>1, SMTT(60)
    <3> QED BY <3>1, <3>2
  <2>6. CarrierInv' /\ sending' \in [Threads -> {Nothing} \cup (Schedulers \X WireMessages)]
    <3>1. OnWay(d, a)'
      BY <2>1, <2>3 DEF OnWay
    <3> QED BY <2>1, <2>4, <3>1, <1>CarrierStarts DEF HomeInv
  <2>7. ActorsTypeOK' /\ EventsTypeOK'
    BY <2>2, <2>3, <2>5, <2>6 DEF HomeInv, ActorsTypeOK, EventsTypeOK
  <2>8. TimersLeft(s, a)
    <3>1. timeouts \in [Schedulers -> SUBSET Actors]
      BY DEF HomeInv, ListsTypeOK
    <3>2. timeouts' \in [Schedulers -> SUBSET Actors] /\ a \notin timeouts'[s] /\ \A u \in Schedulers : timeouts'[u] \subseteq timeouts[u]
      BY <3>1, SMTT(60)
    <3> QED BY <3>2 DEF TimersLeft
  <2>9. MayBeListed(s, a)
    BY DEF MayBeListed
  <2> QED BY <2>4, <2>6, <2>7, <2>8, <2>9, <1>PoppedHome
<1>HandlerEndsHome.
  ASSUME HomeInv, NEW s \in Schedulers, HandlerEnds(s), plan' = plan
  PROVE  HomeInv'
  <2> USE <1>HandlerEndsHome
  <2>0. stack[s] # <<>> /\ sending[s] = Nothing /\ pendingEvents' = pendingEvents /\ inbound' = inbound /\ sent' = sent
    <3>1. stack[s] # <<>> /\ sending[s] = Nothing /\ UNCHANGED <<pendingEvents, inbound, sent>>
      BY DEF HandlerEnds, InHandler
    <3>2. pendingEvents' = pendingEvents /\ inbound' = inbound /\ sent' = sent
      BY <3>1, SMTT(60)
    <3> QED BY <3>1, <3>2
  <2> DEFINE f == Head(stack[s])
             a == f.actor
             done == f.done
             rest == SubSeq(mailbox[a], done + 1, Len(mailbox[a]))
             leave == stack' = [stack EXCEPT ![s] = Tail(@)]
  <2>1. CASE /\ f.flag = "none" /\ f.left > 0
             /\ stack' = [stack EXCEPT ![s] = <<Frame(a, f.left - 1, done + 1)>> \o Tail(@)]
             /\ handled' = Append(handled, mailbox[a][done + 1])
             /\ UNCHANGED <<actorVars, ready, batch, timeouts, sending>>
    <3>1. /\ schedId' = schedId /\ alive' = alive /\ unborn' = unborn /\ mailbox' = mailbox /\ moves' = moves
          /\ ready' = ready /\ batch' = batch /\ timeouts' = timeouts /\ sending' = sending
      BY <2>1, SMTT(60) DEF actorVars
    <3>2. Swaps(s, Frame(f.actor, f.left - 1, f.done + 1))
      BY <2>1 DEF Swaps
    <3> HIDE DEF f
    <3> QED BY <2>0, <2>1, <3>1, <3>2, <1>NextEventHome DEF f
  <2>2. CASE /\ f.flag = "none" /\ f.left = 0
             /\ leave
             /\ mailbox' = [mailbox EXCEPT ![a] = rest]
             /\ ready' = [ready EXCEPT ![s] = IF rest = <<>> THEN @ ELSE Append(@, a)]
             /\ UNCHANGED <<schedId, alive, unborn, moves, stops, batch, timeouts, sending, handled>>
    <3>1. /\ schedId' = schedId /\ alive' = alive /\ unborn' = unborn /\ moves' = moves
          /\ batch' = batch /\ timeouts' = timeouts /\ sending' = sending /\ handled' = handled
      BY <2>2, SMTT(60)
    <3>2. rest \in Seq(Events) /\ Pops(s)
      BY <2>0, <2>2, <1>RestIs DEF Pops
    <3>3. mailbox' = [mailbox EXCEPT ![a] = rest] /\ ready' = [ready EXCEPT ![s] = IF rest = <<>> THEN @ ELSE Append(@, a)]
      BY <2>2
    <3> HIDE DEF rest
    <3> QED BY <2>0, <3>1, <3>2, <3>3, <1>FinishedHome
  <2>3. CASE /\ f.flag = "stop"
             /\ SetFlag(s, "tear_down", Nothing)
             /\ UNCHANGED <<actorVars, ready, batch, timeouts, sending, handled>>
    <3>1. /\ schedId' = schedId /\ alive' = alive /\ unborn' = unborn /\ mailbox' = mailbox /\ moves' = moves
          /\ ready' = ready /\ batch' = batch /\ timeouts' = timeouts /\ sending' = sending /\ handled' = handled
      BY <2>3, SMTT(60) DEF actorVars
    <3>2. "tear_down" # "migrate" /\ "tear_down" \in Flags
      BY SMTT(60) DEF Flags
    <3> QED BY <2>0, <2>3, <3>1, <3>2, <1>SetFlagHome
  <2>4. CASE /\ f.flag = "tear_down"
             /\ leave
             /\ mailbox' = [mailbox EXCEPT ![a] = <<>>]
             /\ alive' = alive \ {a}
             /\ timeouts' = [timeouts EXCEPT ![s] = @ \ {a}]
             /\ UNCHANGED <<schedId, unborn, moves, stops, ready, batch, sending, handled>>
    <3>1. /\ schedId' = schedId /\ unborn' = unborn /\ moves' = moves
          /\ ready' = ready /\ batch' = batch /\ sending' = sending /\ handled' = handled
      BY <2>4, SMTT(60)
    <3>2. Pops(s)
      BY <2>4 DEF Pops
    <3> QED BY <2>0, <2>4, <3>1, <3>2, <1>TornDownHome
  <2>5. CASE /\ f.flag = "migrate"
             /\ leave
             /\ mailbox' = [mailbox EXCEPT ![a] = rest]
             /\ schedId' = [schedId EXCEPT ![a] = [dest |-> f.dest, migrating |-> TRUE]]
             /\ timeouts' = [timeouts EXCEPT ![s] = TimeoutsAfterMove(s, a)]
             /\ moves' = [moves EXCEPT ![a] = @ + 1]
             /\ sending' = [sending EXCEPT ![s] = <<f.dest, ActorMessage(a)>>]
             /\ UNCHANGED <<alive, unborn, stops, ready, batch, handled>>
    <3>1. alive' = alive /\ unborn' = unborn /\ ready' = ready /\ batch' = batch /\ handled' = handled
      BY <2>5, SMTT(60)
    <3>2. rest \in Seq(Events) /\ Pops(s) /\ f.dest \in Schedulers
      BY <2>0, <2>5, <1>RestIs, FrameFacts DEF Pops
    <3>3. timeouts' = [timeouts EXCEPT ![s] = timeouts[s] \ {a}]
      BY <2>5 DEF TimeoutsAfterMove
    <3>4. mailbox' = [mailbox EXCEPT ![a] = rest]
      BY <2>5
    <3> HIDE DEF rest
    <3> QED BY <2>0, <2>5, <3>1, <3>2, <3>3, <3>4, <1>MigratedHome
  <2> QED BY <2>1, <2>2, <2>3, <2>4, <2>5 DEF HandlerEnds
\* send_to_other_scheduler: a message goes to the end of a queue.
<1>PutHome.
  ASSUME HomeInv, NEW t \in Threads, Put(t), plan' = plan
  PROVE  HomeInv'
  <2> USE <1>PutHome
  <2>1. /\ sending[t] # Nothing
        /\ inbound' = [inbound EXCEPT ![sending[t][1]] = Append(@, sending[t][2])]
        /\ sending' = [sending EXCEPT ![t] = Nothing]
        /\ UNCHANGED <<actorVars, listVars, pendingEvents, sent, handled>>
    BY DEF Put
  <2>2. /\ schedId' = schedId /\ alive' = alive /\ unborn' = unborn /\ mailbox' = mailbox /\ moves' = moves
        /\ ready' = ready /\ batch' = batch /\ stack' = stack /\ timeouts' = timeouts
        /\ pendingEvents' = pendingEvents /\ sent' = sent /\ handled' = handled
    BY <2>1, SMTT(60) DEF actorVars, listVars
  <2>3. PICK d \in Schedulers, m \in WireMessages : d = sending[t][1] /\ m = sending[t][2]
    BY <2>1, SendingIs DEF HomeInv
  <2>4. /\ inbound \in [Schedulers -> Seq(WireMessages)] /\ inbound[d] \in Seq(WireMessages)
        /\ sending \in [Threads -> {Nothing} \cup (Schedulers \X WireMessages)]
    BY DEF HomeInv, EventsTypeOK
  <2> DEFINE q == inbound[d]
             r == Append(inbound[d], m)
             n == Len(q) + 1
  <2>5. /\ r \in Seq(WireMessages) /\ DOMAIN r = DOMAIN q \cup {n} /\ n \notin DOMAIN q
        /\ (\A i \in DOMAIN q : r[i] = q[i]) /\ r[n] = m
    BY <2>4, AppendPlaces, SMTT(60)
  <2>6. inbound' = [inbound EXCEPT ![d] = r]
    BY <2>1, <2>3
  <2> HIDE DEF q, r, n
  <2>7. /\ inbound' \in [Schedulers -> Seq(WireMessages)] /\ inbound'[d] = r
        /\ \A u \in Schedulers : u # d => inbound'[u] = inbound[u]
    BY <2>4, <2>5, <2>6
  <2>8. /\ sending' \in [Threads -> {Nothing} \cup (Schedulers \X WireMessages)]
        /\ sending'[t] = Nothing /\ \A v \in Threads : v # t => sending'[v] = sending[v]
    BY <2>1, <2>4
  <2>9. /\ StackInv' /\ ListInv'
        /\ ready' \in [Schedulers -> Seq(Actors)] /\ batch' \in [Schedulers -> Seq(Actors)]
        /\ stack' \in [Schedulers -> Seq(FrameRecords)] /\ mailbox' \in [Actors -> Seq(Events)]
    BY <2>2, <1>NothingDelivered
  <2>10. ActorsTypeOK' /\ ListsTypeOK' /\ EventsTypeOK'
    BY <2>2, <2>7, <2>8, <2>9 DEF HomeInv, ActorsTypeOK, ListsTypeOK, EventsTypeOK
  <2>11. \A u : \A x : (IsHere(u, x)' <=> IsHere(u, x)) /\ (OnWay(u, x)' <=> OnWay(u, x))
    BY <2>2 DEF IsHere, OnWay
  <2>12. TimerInv'
    BY <2>2, <2>11 DEF HomeInv, TimerInv
  <2>13. ASSUME NEW u \in Schedulers, NEW i, NEW x \in Actors, CarriedTo(u, i, x)'
         PROVE  CarriedTo(u, i, x) \/ (u = d /\ i = n /\ CarriedBy(t, x))
    <3>1. i \in DOMAIN inbound'[u] /\ inbound'[u][i].kind = "actor" /\ inbound'[u][i].to = x
      BY <2>13 DEF CarriedTo
    <3>2. CASE u # d
      BY <2>7, <3>1, <3>2 DEF CarriedTo
    <3>3. CASE u = d /\ i # n
      BY <2>5, <2>7, <3>1, <3>3 DEF CarriedTo, q
    <3>4. CASE u = d /\ i = n
      BY <2>1, <2>3, <2>5, <2>7, <3>1, <3>4 DEF CarriedBy
    <3> QED BY <3>2, <3>3, <3>4
  <2>14. ASSUME NEW v \in Threads, NEW x \in Actors, CarriedBy(v, x)' PROVE v # t /\ CarriedBy(v, x) /\ sending'[v] = sending[v]
    <3>1. v # t
      BY <2>8, <2>14 DEF CarriedBy
    <3> QED BY <2>8, <2>14, <3>1 DEF CarriedBy
  <2>15. CarrierInv
    BY DEF HomeInv
  <2>16. ASSUME NEW u \in Schedulers, NEW i, NEW x \in Actors, CarriedTo(u, i, x)'
         PROVE  OnWay(u, x)' /\ \A j : CarriedTo(u, j, x)' => i = j
    <3>1. CASE CarriedTo(u, i, x)
      <4>1. OnWay(u, x)' /\ ~CarriedBy(t, x)
        BY <2>11, <2>15, <3>1 DEF CarrierInv
      <4>2. \A j : CarriedTo(u, j, x)' => i = j
        BY <2>13, <2>15, <3>1, <4>1 DEF CarrierInv
      <4> QED BY <4>1, <4>2
    <3>2. CASE u = d /\ i = n /\ CarriedBy(t, x)
      <4>1. OnWay(u, x)' /\ \A j : ~CarriedTo(u, j, x)
        BY <2>3, <2>11, <2>15, <3>2 DEF CarrierInv
      <4>2. \A j : CarriedTo(u, j, x)' => i = j
        <5> SUFFICES ASSUME NEW j, CarriedTo(u, j, x)' PROVE i = j
          OBVIOUS
        <5>1. CarriedTo(u, j, x) \/ (u = d /\ j = n /\ CarriedBy(t, x))
          BY <2>13
        <5> QED BY <3>2, <4>1, <5>1
      <4> QED BY <4>1, <4>2
    <3>3. CarriedTo(u, i, x) \/ (u = d /\ i = n /\ CarriedBy(t, x))
      BY <2>13, <2>16
    <3> QED BY <3>1, <3>2, <3>3
  <2>17. ASSUME NEW v \in Threads, NEW x \in Actors, CarriedBy(v, x)'
         PROVE  /\ OnWay(sending[v][1], x)'
                /\ \A u \in Schedulers : \A i : ~CarriedTo(u, i, x)'
                /\ \A w \in Threads : CarriedBy(w, x)' => w = v
    <3>1. v # t /\ CarriedBy(v, x) /\ sending'[v] = sending[v]
      BY <2>14, <2>17
    <3>2. OnWay(sending[v][1], x) /\ ~CarriedBy(t, x)
      BY <2>15, <3>1 DEF CarrierInv
    <3>3. OnWay(sending[v][1], x)'
      BY <2>2, <3>1, <3>2 DEF OnWay
    <3>4. \A u \in Schedulers : \A i : ~CarriedTo(u, i, x)'
      BY <2>13, <2>15, <3>1, <3>2 DEF CarrierInv
    <3>5. \A w \in Threads : CarriedBy(w, x)' => w = v
      BY <2>14, <2>15, <3>1 DEF CarrierInv
    <3> QED BY <3>3, <3>4, <3>5
  <2>18. CarrierInv'
    BY <2>16, <2>17 DEF CarrierInv
  <2> QED BY <2>9, <2>10, <2>12, <2>18 DEF HomeInv
\* run_mailbox takes the list over.
<1>TakeReadyHome.
  ASSUME HomeInv, NEW s \in Schedulers, TakeReady(s), plan' = plan
  PROVE  HomeInv'
  <2> USE <1>TakeReadyHome
  <2>1. /\ batch[s] = <<>> /\ batch' = [batch EXCEPT ![s] = ready[s]] /\ ready' = [ready EXCEPT ![s] = <<>>]
        /\ UNCHANGED <<actorVars, stack, timeouts, eventVars>>
    BY DEF TakeReady
  <2>2. /\ schedId' = schedId /\ alive' = alive /\ unborn' = unborn /\ mailbox' = mailbox /\ moves' = moves
        /\ stack' = stack /\ timeouts' = timeouts
        /\ pendingEvents' = pendingEvents /\ inbound' = inbound /\ sending' = sending /\ sent' = sent /\ handled' = handled
    BY <2>1, SMTT(60) DEF actorVars, eventVars
  <2>3. ListsTypeOK /\ ListInv /\ ready[s] \in Seq(Actors) /\ IsInjective(ready[s])
    BY DEF HomeInv, ListsTypeOK, ListInv
  <2>4. <<>> \in Seq(Actors) /\ Range(<<>>) = {} /\ IsInjective(<<>>)
    <3>1. <<>> \in Seq(Actors) /\ DOMAIN <<>> = {}
      BY SMTT(60)
    <3> QED BY <3>1 DEF Range, IsInjective
  <2>5. \A u \in Schedulers : \A x : (IsHere(u, x)' <=> IsHere(u, x)) /\ (OnWay(u, x)' <=> OnWay(u, x)) /\ (RunsAt(u, x)' <=> RunsAt(u, x))
    BY <2>2 DEF IsHere, OnWay, RunsAt
  <2>6. \A u \in Schedulers : \A x \in Listed(u) : x \in alive' /\ IsHere(u, x)' /\ mailbox'[x] # <<>> /\ ~RunsAt(u, x)'
    BY <2>2, <2>3, <2>5 DEF ListInv
  <2>7. /\ Range(<<>>) \cap Range(ready[s]) = {}
        /\ \A x \in Range(<<>>) \cup Range(ready[s]) : x \in alive' /\ IsHere(s, x)' /\ mailbox'[x] # <<>> /\ ~RunsAt(s, x)'
    BY <2>4, <2>6 DEF Listed
  <2>8. ListInv' /\ ready' \in [Schedulers -> Seq(Actors)] /\ batch' \in [Schedulers -> Seq(Actors)]
    BY <2>1, <2>3, <2>4, <2>6, <2>7, <1>ListsChanged
  <2>9. StackInv'
    <3>1. \A u \in Schedulers : \A i : FrameOK(u, i)' <=> FrameOK(u, i)
      BY <2>2 DEF FrameOK, IsHere
    <3> QED BY <2>2, <3>1 DEF HomeInv, StackInv
  <2>10. ActorsTypeOK' /\ ListsTypeOK' /\ EventsTypeOK'
    BY <2>2, <2>8 DEF HomeInv, ActorsTypeOK, ListsTypeOK, EventsTypeOK
  <2>11. TimerInv'
    BY <2>2, <2>5 DEF HomeInv, TimerInv
  <2>12. CarrierInv'
    <3>1. \A t \in Threads, x \in Actors : CarriedBy(t, x)' => CarriedBy(t, x) /\ sending'[t] = sending[t]
      BY <2>2 DEF CarriedBy
    <3>2. \A u \in Schedulers : inbound'[u] = inbound[u]
      BY <2>2
    <3> QED BY <2>5, <3>1, <3>2, <1>CarriersKept DEF HomeInv
  <2> QED BY <2>8, <2>9, <2>10, <2>11, <2>12 DEF HomeInv
\* flush_mailbox begins.
<1>FlushMailboxHome.
  ASSUME HomeInv, NEW s \in Schedulers, FlushMailbox(s), plan' = plan
  PROVE  HomeInv'
  <2> USE <1>FlushMailboxHome
  <2>1. PICK a : a = Head(batch[s])
    OBVIOUS
  <2> DEFINE F == Frame(a, Len(mailbox[a]) - 1, 1)
  <2>2. /\ stack[s] = <<>> /\ batch[s] # <<>>
        /\ stack' = [stack EXCEPT ![s] = <<F>>] /\ handled' = Append(handled, mailbox[a][1])
        /\ batch' = [batch EXCEPT ![s] = Tail(@)]
        /\ UNCHANGED <<actorVars, ready, timeouts, pendingEvents, inbound, sending, sent>>
    BY <2>1 DEF FlushMailbox, Idle
  <2>3. /\ schedId' = schedId /\ alive' = alive /\ unborn' = unborn /\ mailbox' = mailbox /\ moves' = moves
        /\ ready' = ready /\ timeouts' = timeouts
        /\ pendingEvents' = pendingEvents /\ inbound' = inbound /\ sending' = sending /\ sent' = sent
    BY <2>2, SMTT(60) DEF actorVars
  <2>4. /\ ListsTypeOK /\ ListInv /\ StackInv /\ ready \in [Schedulers -> Seq(Actors)]
        /\ ready[s] \in Seq(Actors) /\ IsInjective(ready[s])
        /\ batch[s] \in Seq(Actors) /\ IsInjective(batch[s]) /\ Range(ready[s]) \cap Range(batch[s]) = {}
    BY DEF HomeInv, ListsTypeOK, ListInv
  <2>5. Tail(batch[s]) \in Seq(Actors) /\ IsInjective(Tail(batch[s])) /\ Range(Tail(batch[s])) = Range(batch[s]) \ {a} /\ a \in Range(batch[s])
    BY <2>1, <2>2, <2>4, ListTail
  <2>6. a \in alive /\ IsHere(s, a) /\ mailbox[a] # <<>> /\ ~RunsAt(s, a) /\ a \in Actors
    <3>1. alive \subseteq Actors
      BY DEF HomeInv, ActorsTypeOK
    <3> QED BY <2>4, <2>5, <3>1 DEF ListInv, Listed
  <2>7. /\ mailbox[a] \in Seq(Events) /\ handled \in Seq(Events)
    BY <2>6 DEF HomeInv, EventsTypeOK
  <2>8. Len(mailbox[a]) \in Nat /\ Len(mailbox[a]) - 1 \in Nat /\ mailbox[a][1] \in Events
    <3>1. \A q \in Seq(Events) : q # <<>> => Len(q) \in Nat /\ Len(q) - 1 \in Nat /\ q[1] \in Events
      BY SMTT(60)
    <3> QED BY <2>6, <2>7, <3>1
  <2>9. handled' \in Seq(Events)
    <3>1. \A q \in Seq(Events) : \A x \in Events : Append(q, x) \in Seq(Events)
      BY SMTT(60)
    <3> QED BY <2>2, <2>7, <2>8, <3>1
  <2>10. F.actor = a /\ F.left = Len(mailbox[a]) - 1 /\ F.done = 1 /\ F.flag = "none" /\ F.dest = Nothing
    BY DEF Frame
  <2>11. F \in FrameRecords
    <3>1. "none" \in Flags /\ Nothing \in Schedulers \cup {Nothing} /\ 1 \in Nat
      BY SMTT(60) DEF Flags
    <3> QED BY <2>6, <2>8, <3>1 DEF Frame, FrameRecords
  <2>12. F.left + F.done <= Len(mailbox[F.actor])
    <3>1. \A n \in Nat : (n - 1) + 1 <= n
      BY SMTT(60)
    <3> QED BY <2>8, <2>10, <3>1
  <2> HIDE DEF F
  <2>13. Pushes(s, F)
    <3>1. <<F>> \o <<>> = <<F>>
      BY SMTT(60)
    <3> QED BY <2>2, <3>1 DEF Pushes
  <2>14. /\ stack' \in [Schedulers -> Seq(FrameRecords)] /\ StackInv'
         /\ \A u \in Schedulers : \A x : RunsAt(u, x)' => RunsAt(u, x) \/ (u = s /\ x = F.actor)
    <3>1. F.actor \in alive /\ IsHere(s, F.actor) /\ ~RunsAt(s, F.actor)
      BY <2>6, <2>10
    <3> QED BY <2>3, <2>10, <2>11, <2>12, <2>13, <3>1, <1>FramePushed
  <2>15. \A u \in Schedulers : \A x : (IsHere(u, x)' <=> IsHere(u, x)) /\ (OnWay(u, x)' <=> OnWay(u, x))
    BY <2>3 DEF IsHere, OnWay
  <2>16. ASSUME NEW u \in Schedulers, NEW x \in Listed(u), u # s \/ x # a
         PROVE  x \in alive' /\ IsHere(u, x)' /\ mailbox'[x] # <<>> /\ ~RunsAt(u, x)'
    <3>1. x \in alive /\ IsHere(u, x) /\ mailbox[x] # <<>> /\ ~RunsAt(u, x)
      BY <2>4 DEF ListInv
    <3>2. ~RunsAt(u, x)'
      BY <2>10, <2>14, <2>16, <3>1
    <3> QED BY <2>3, <2>15, <3>1, <3>2
  <2>17. ListInv' /\ ready' \in [Schedulers -> Seq(Actors)] /\ batch' \in [Schedulers -> Seq(Actors)]
    <3> DEFINE b == Tail(batch[s])
    <3>1. ready' = [ready EXCEPT ![s] = ready[s]]
      BY <2>3, <2>4, SMTT(60)
    <3>2. batch' = [batch EXCEPT ![s] = b]
      BY <2>2
    <3>3. Range(ready[s]) \cap Range(b) = {} /\ Range(ready[s]) \cup Range(b) \subseteq Listed(s) \ {a}
      BY <2>4, <2>5 DEF Listed
    <3> HIDE DEF b
    <3>4. \A x \in Range(ready[s]) \cup Range(b) : x \in alive' /\ IsHere(s, x)' /\ mailbox'[x] # <<>> /\ ~RunsAt(s, x)'
      BY <2>16, <3>3
    <3>5. \A u \in Schedulers : u # s => \A x \in Listed(u) : x \in alive' /\ IsHere(u, x)' /\ mailbox'[x] # <<>> /\ ~RunsAt(u, x)'
      BY <2>16
    <3>6. b \in Seq(Actors) /\ IsInjective(b)
      BY <2>5 DEF b
    <3> QED BY <2>4, <3>1, <3>2, <3>3, <3>4, <3>5, <3>6, <1>ListsChanged
  <2>18. ActorsTypeOK' /\ ListsTypeOK' /\ EventsTypeOK'
    BY <2>3, <2>9, <2>14, <2>17 DEF HomeInv, ActorsTypeOK, ListsTypeOK, EventsTypeOK
  <2>19. TimerInv'
    BY <2>3, <2>15 DEF HomeInv, TimerInv
  <2>20. CarrierInv'
    <3>1. \A t \in Threads, x \in Actors : CarriedBy(t, x)' => CarriedBy(t, x) /\ sending'[t] = sending[t]
      BY <2>3 DEF CarriedBy
    <3>2. \A u \in Schedulers : inbound'[u] = inbound[u]
      BY <2>3
    <3> QED BY <2>15, <3>1, <3>2, <1>CarriersKept DEF HomeInv
  <2> QED BY <2>14, <2>17, <2>18, <2>19, <2>20 DEF HomeInv
\* The message of an actor that arrives is the only one.
<1>CarrierArrives.
  ASSUME EventsTypeOK, CarrierInv, NEW s \in Schedulers, NEW a \in Actors, CarriedTo(s, 1, a), OthersStay(a),
         inbound[s] # <<>>, inbound' = [inbound EXCEPT ![s] = Tail(@)], sending' = sending
  PROVE  CarrierInv'
  <2> USE <1>CarrierArrives
  <2>1. /\ inbound[s] \in Seq(WireMessages) /\ inbound'[s] = Tail(inbound[s])
        /\ \A u \in Schedulers : u # s => inbound'[u] = inbound[u]
    BY FirstMessage DEF EventsTypeOK
  <2>2. \A i \in DOMAIN Tail(inbound[s]) :
          i \in Nat /\ i + 1 \in DOMAIN inbound[s] /\ i + 1 # 1 /\ Tail(inbound[s])[i] = inbound[s][i + 1]
    BY <2>1, TailPlaces
  <2>3. ASSUME NEW i, NEW x \in Actors, CarriedTo(s, i, x)' PROVE i \in Nat /\ CarriedTo(s, i + 1, x) /\ x # a
    <3>1. i \in DOMAIN Tail(inbound[s]) /\ Tail(inbound[s])[i].kind = "actor" /\ Tail(inbound[s])[i].to = x
      BY <2>1, <2>3 DEF CarriedTo
    <3>2. i \in Nat /\ i + 1 # 1 /\ CarriedTo(s, i + 1, x)
      BY <2>2, <3>1 DEF CarriedTo
    <3> QED BY <3>2 DEF CarrierInv
  <2>4. ASSUME NEW u \in Schedulers, u # s, NEW i, NEW x \in Actors, CarriedTo(u, i, x)' PROVE CarriedTo(u, i, x) /\ x # a
    <3>1. CarriedTo(u, i, x)
      BY <2>1, <2>4 DEF CarriedTo
    <3>2. OnWay(u, x) /\ OnWay(s, a)
      BY <3>1 DEF CarrierInv
    <3> QED BY <2>4, <3>1, <3>2, OnePlace
  <2>5. ASSUME NEW v \in Threads, NEW x \in Actors, CarriedBy(v, x)' PROVE CarriedBy(v, x) /\ x # a
    <3>1. CarriedBy(v, x)
      BY <2>5 DEF CarriedBy
    <3>2. CarriedBy(v, x) => ~CarriedTo(s, 1, x)
      BY DEF CarrierInv
    <3> QED BY <3>1, <3>2
  <2>6. ASSUME NEW u \in Schedulers, NEW i, NEW x \in Actors, CarriedTo(u, i, x)'
        PROVE  x # a /\ OnWay(u, x)' /\ (\A j : CarriedTo(u, j, x)' => i = j) /\ \A v \in Threads : ~CarriedBy(v, x)
    <3>1. CASE u = s
      <4>1. i \in Nat /\ CarriedTo(s, i + 1, x) /\ x # a
        BY <2>3, <2>6, <3>1
      <4>2. OnWay(s, x) /\ \A v \in Threads : ~CarriedBy(v, x)
        BY <4>1 DEF CarrierInv
      <4>3. OnWay(u, x)'
        BY <3>1, <4>1, <4>2 DEF OthersStay, OnWay
      <4>4. ASSUME NEW j, CarriedTo(u, j, x)' PROVE i = j
        <5>1. j \in Nat /\ CarriedTo(s, j + 1, x)
          BY <2>3, <3>1, <4>4
        <5>2. i + 1 = j + 1
          BY <4>1, <5>1 DEF CarrierInv
        <5>3. \A k, l \in Nat : k + 1 = l + 1 => k = l
          BY SMTT(60)
        <5> QED BY <4>1, <5>1, <5>2, <5>3
      <4> QED BY <4>1, <4>2, <4>3, <4>4
    <3>2. CASE u # s
      <4>1. CarriedTo(u, i, x) /\ x # a
        BY <2>4, <2>6, <3>2
      <4>2. OnWay(u, x) /\ \A v \in Threads : ~CarriedBy(v, x)
        BY <4>1 DEF CarrierInv
      <4>3. OnWay(u, x)'
        BY <4>1, <4>2 DEF OthersStay, OnWay
      <4>4. \A j : CarriedTo(u, j, x)' => i = j
        BY <2>4, <3>2, <4>1 DEF CarrierInv
      <4> QED BY <4>1, <4>2, <4>3, <4>4
    <3> QED BY <3>1, <3>2
  <2>7. ASSUME NEW v \in Threads, NEW x \in Actors, CarriedBy(v, x)'
        PROVE  /\ OnWay(sending[v][1], x)'
               /\ \A u \in Schedulers : \A i : ~CarriedTo(u, i, x)'
               /\ \A w \in Threads : CarriedBy(w, x)' => w = v
    <3>1. CarriedBy(v, x) /\ x # a
      BY <2>5, <2>7
    <3>2. OnWay(sending[v][1], x)
      BY <3>1 DEF CarrierInv
    <3>3. OnWay(sending[v][1], x)'
      BY <3>1, <3>2 DEF OthersStay, OnWay
    <3>4. \A u \in Schedulers : \A i : ~CarriedTo(u, i, x)'
      BY <2>6, <3>1
    <3>5. \A w \in Threads : CarriedBy(w, x)' => w = v
      BY <2>5, <3>1 DEF CarrierInv
    <3> QED BY <3>3, <3>4, <3>5
  <2> QED BY <2>6, <2>7 DEF CarrierInv
\* An actor that was nowhere is somewhere.
<1>ComesHome.
  ASSUME HomeInv, NEW s \in Schedulers, NEW a \in Actors,
         \A u \in Schedulers : ~RunsAt(u, a) /\ a \notin Listed(u) /\ a \notin timeouts[u],
         OthersStay(a), stack' = stack, batch' = batch, timeouts' = timeouts, MayBeListed(s, a),
         ActorsTypeOK', EventsTypeOK', CarrierInv'
  PROVE  HomeInv'
  <2> USE <1>ComesHome
  <2>1. StackInv /\ ListInv /\ ListsTypeOK /\ TimerInv /\ alive \subseteq Actors /\ mailbox' \in [Actors -> Seq(Events)] /\ mailbox \in [Actors -> Seq(Events)]
    BY DEF HomeInv, ActorsTypeOK, EventsTypeOK
  <2>2. \A u \in Schedulers : \A x : RunsAt(u, x)' <=> RunsAt(u, x)
    BY DEF RunsAt
  <2>3. ASSUME NEW u \in Schedulers, NEW x \in Actors, RunsAt(u, x)
        PROVE  /\ x \in alive' /\ IsHere(u, x)'
               /\ mailbox'[x] \in Seq(Events) /\ Len(mailbox[x]) <= Len(mailbox'[x])
    <3>1. x # a /\ x \in alive /\ IsHere(u, x)
      BY <2>1, <2>3, RunsHere
    <3>2. x \in alive' /\ IsHere(u, x)' /\ mailbox'[x] = mailbox[x]
      BY <3>1 DEF OthersStay, IsHere
    <3>3. \A q \in Seq(Events) : Len(q) <= Len(q)
      BY SMTT(60)
    <3>4. mailbox[x] \in Seq(Events)
      BY <2>1
    <3> QED BY <3>2, <3>3, <3>4
  <2>4. StackInv'
    BY <2>3, <1>FramesKept
  <2>5. ASSUME NEW u \in Schedulers, NEW x \in Listed(u)
        PROVE  x \in alive' /\ IsHere(u, x)' /\ mailbox'[x] # <<>> /\ ~RunsAt(u, x)'
    <3>1. x \in alive /\ IsHere(u, x) /\ mailbox[x] # <<>> /\ ~RunsAt(u, x) /\ x # a /\ x \in Actors
      BY <2>1 DEF ListInv
    <3> QED BY <2>2, <3>1 DEF OthersStay, IsHere
  <2>6. ListInv' /\ ready' \in [Schedulers -> Seq(Actors)] /\ batch' \in [Schedulers -> Seq(Actors)]
    <3>1. CASE ready' = ready
      BY <2>1, <2>5, <3>1, <1>ListsKept DEF ListsTypeOK
    <3>2. CASE /\ ready' = [ready EXCEPT ![s] = Append(@, a)]
               /\ a \in alive' /\ IsHere(s, a)' /\ mailbox'[a] # <<>>
      <4>1. ~RunsAt(s, a)'
        BY <2>2
      <4> QED BY <2>1, <2>5, <3>2, <4>1, <1>ListsGrow
    <3> QED BY <3>1, <3>2 DEF MayBeListed
  <2>7. TimerInv'
    <3> SUFFICES ASSUME NEW u \in Schedulers, NEW x \in timeouts[u] PROVE x \in alive' /\ IsHere(u, x)'
      BY DEF TimerInv
    <3>1. x \in alive /\ IsHere(u, x) /\ x \in Actors /\ x # a
      BY <2>1 DEF TimerInv
    <3> QED BY <3>1 DEF OthersStay, IsHere
  <2>8. ListsTypeOK'
    BY <2>1, <2>6 DEF ListsTypeOK
  <2> QED BY <2>4, <2>6, <2>7, <2>8 DEF HomeInv
<1>RegisterActorHome.
  ASSUME HomeInv, NEW s \in Schedulers, NEW a \in Actors, NEW d \in Schedulers, RegisterActor(s, a, d), plan' = plan
  PROVE  HomeInv'
  <2> USE <1>RegisterActorHome
  <2> DEFINE e == ActorEvent("start", a, sent + 1)
  <2>1. /\ stack[s] # <<>> /\ sending[s] = Nothing /\ a \in unborn
        /\ unborn' = unborn \ {a} /\ alive' = alive \cup {a}
        /\ mailbox' = [mailbox EXCEPT ![a] = <<e>>]
        /\ sent' = sent + 1
        /\ schedId' = [schedId EXCEPT ![a] = [dest |-> d, migrating |-> d # s]]
        /\ UNCHANGED <<moves, stops, batch, stack, timeouts, pendingEvents, inbound, handled>>
    BY DEF RegisterActor, InHandler
  <2>2. /\ moves' = moves /\ batch' = batch /\ stack' = stack /\ timeouts' = timeouts
        /\ pendingEvents' = pendingEvents /\ inbound' = inbound /\ handled' = handled
    BY <2>1, SMTT(60)
  <2>3. a \notin alive
    BY <2>1 DEF HomeInv, ActorsTypeOK
  <2>4. /\ \A u \in Schedulers : ~RunsAt(u, a) /\ a \notin Listed(u) /\ a \notin timeouts[u]
        /\ \A u \in Schedulers : ~OnWay(u, a)
    BY <2>3, Nowhere DEF OnWay
  <2>5. sent \in Nat /\ moves[a] \in Nat /\ sent + 1 \in Nat
    <3>1. sent \in Nat /\ moves[a] \in Nat
      BY DEF HomeInv, ActorsTypeOK
    <3>2. \A n \in Nat : n + 1 \in Nat
      BY SMTT(60)
    <3> QED BY <3>1, <3>2
  <2>6. e \in Events
    BY <2>5 DEF ActorEvent, Events
  <2> HIDE DEF e
  <2>7. <<e>> \in Seq(Events) /\ <<e>> # <<>>
    <3>1. \A x \in Events : <<x>> \in Seq(Events) /\ <<x>> # <<>>
      BY SMTT(60)
    <3> QED BY <2>6, <3>1
  <2>8. /\ mailbox' \in [Actors -> Seq(Events)] /\ mailbox'[a] = <<e>>
        /\ \A x \in Actors : x # a => mailbox'[x] = mailbox[x]
    BY <2>1, <2>7, <1>MailReplaced DEF HomeInv
  <2>9. /\ schedId' \in [Actors -> [dest : Schedulers, migrating : BOOLEAN]]
        /\ schedId'[a] = [dest |-> d, migrating |-> d # s] /\ \A x \in Actors : x # a => schedId'[x] = schedId[x]
    <3>1. schedId \in [Actors -> [dest : Schedulers, migrating : BOOLEAN]]
      BY DEF HomeInv, ActorsTypeOK
    <3>2. [dest |-> d, migrating |-> d # s] \in [dest : Schedulers, migrating : BOOLEAN]
      BY SMTT(60)
    <3> QED BY <2>1, <3>1, <3>2
  <2>10. OthersStay(a)
    BY <2>1, <2>8, <2>9 DEF OthersStay
  <2>11. ActorsTypeOK'
    <3>1. alive' \subseteq Actors /\ unborn' \subseteq Actors /\ alive' \cap unborn' = {}
      BY <2>1 DEF HomeInv, ActorsTypeOK
    <3> QED BY <2>1, <2>2, <2>5, <2>9, <3>1 DEF HomeInv, ActorsTypeOK
  <2>12. CASE d = s /\ ready' = [ready EXCEPT ![s] = Append(@, a)] /\ sending' = sending
    <3>1. IsHere(s, a)'
      <4>1. (d # s) = FALSE
        BY <2>12
      <4> QED BY <2>9, <2>12, <4>1 DEF IsHere
    <3>2. MayBeListed(s, a)
      BY <2>1, <2>7, <2>8, <2>12, <3>1 DEF MayBeListed
    <3>3. EventsTypeOK'
      BY <2>2, <2>8, <2>12 DEF HomeInv, EventsTypeOK
    <3>4. CarrierInv'
      <4>1. \A t \in Threads, x \in Actors : CarriedBy(t, x)' => CarriedBy(t, x) /\ sending'[t] = sending[t]
        BY <2>12 DEF CarriedBy
      <4>2. \A u \in Schedulers : inbound'[u] = inbound[u]
        BY <2>2
      <4>3. \A u \in Schedulers, x \in Actors : OnWay(u, x) => OnWay(u, x)'
        BY <2>4, <2>10 DEF OthersStay, OnWay
      <4> QED BY <4>1, <4>2, <4>3, <1>CarriersKept DEF HomeInv
    <3> QED BY <2>2, <2>4, <2>10, <2>11, <3>2, <3>3, <3>4, <1>ComesHome
  <2>13. CASE d # s /\ sending' = [sending EXCEPT ![s] = <<d, ActorMessage(a)>>] /\ ready' = ready
    <3>1. OnWay(d, a)'
      <4>1. (d # s) = TRUE
        BY <2>13
      <4> QED BY <2>1, <2>9, <4>1 DEF OnWay
    <3>2. MayBeListed(s, a)
      BY <2>13 DEF MayBeListed
    <3>3. CarrierInv' /\ sending' \in [Threads -> {Nothing} \cup (Schedulers \X WireMessages)]
      BY <2>1, <2>2, <2>4, <2>10, <2>13, <3>1, <1>CarrierStarts DEF HomeInv
    <3>4. EventsTypeOK'
      BY <2>2, <2>8, <3>3 DEF HomeInv, EventsTypeOK
    <3> QED BY <2>2, <2>4, <2>10, <2>11, <3>2, <3>3, <3>4, <1>ComesHome
  <2> QED BY <2>12, <2>13 DEF RegisterActor
\* register_migrated_actor.
<1>ReceiveActorHome.
  ASSUME HomeInv, NEW s \in Schedulers, Receive(s), plan' = plan, NEW a, a = Head(inbound[s]).to,
         Head(inbound[s]).kind = "actor",
         schedId' = [schedId EXCEPT ![a] = [dest |-> s, migrating |-> FALSE]],
         mailbox' = [mailbox EXCEPT ![a] = MailOnArrival(s, a)],
         pendingEvents' = [pendingEvents EXCEPT ![s][a] = <<>>],
         ready' = [ready EXCEPT ![s] = IF MailOnArrival(s, a) = <<>> THEN @ ELSE Append(@, a)],
         batch' = batch, stack' = stack, sending' = sending, handled' = handled
  PROVE  HomeInv'
  <2> USE <1>ReceiveActorHome
  <2>1. /\ inbound[s] # <<>> /\ inbound' = [inbound EXCEPT ![s] = Tail(@)]
        /\ UNCHANGED <<alive, unborn, moves, stops, timeouts, sent>>
    BY DEF Receive
  <2>2. alive' = alive /\ unborn' = unborn /\ moves' = moves /\ timeouts' = timeouts /\ sent' = sent
    BY <2>1, SMTT(60)
  <2>3. Head(inbound[s]) \in WireMessages /\ 1 \in DOMAIN inbound[s] /\ Head(inbound[s]) = inbound[s][1] /\ inbound' \in [Schedulers -> Seq(WireMessages)]
    BY <2>1, FirstMessage DEF HomeInv
  <2>4. a \in Actors /\ CarriedTo(s, 1, a)
    BY <2>3, MessageIs DEF CarriedTo
  <2>5. OnWay(s, a)
    BY <2>4 DEF HomeInv, CarrierInv
  <2>6. \A u \in Schedulers : ~RunsAt(u, a) /\ a \notin Listed(u) /\ a \notin timeouts[u]
    <3>1. \A u \in Schedulers : ~IsHere(u, a)
      BY <2>5, OnePlace
    <3> QED BY <3>1, Nowhere
  <2> DEFINE r == MailOnArrival(s, a)
  <2>7. r \in Seq(Events)
    <3>1. mailbox[a] \in Seq(Events) /\ pendingEvents[s][a] \in Seq(Events)
      BY <2>4 DEF HomeInv, EventsTypeOK
    <3>2. \A p, q \in Seq(Events) : p \o q \in Seq(Events)
      BY SMTT(60)
    <3> QED BY <3>1, <3>2 DEF MailOnArrival
  <2>8. /\ mailbox' \in [Actors -> Seq(Events)] /\ mailbox'[a] = r
        /\ \A x \in Actors : x # a => mailbox'[x] = mailbox[x]
    <3> HIDE DEF r
    <3>1. mailbox' = [mailbox EXCEPT ![a] = r]
      BY DEF r
    <3> QED BY <2>4, <2>7, <3>1, <1>MailReplaced DEF HomeInv
  <2>9. /\ schedId' \in [Actors -> [dest : Schedulers, migrating : BOOLEAN]]
        /\ schedId'[a] = [dest |-> s, migrating |-> FALSE] /\ \A x \in Actors : x # a => schedId'[x] = schedId[x]
    <3>1. schedId \in [Actors -> [dest : Schedulers, migrating : BOOLEAN]]
      BY DEF HomeInv, ActorsTypeOK
    <3>2. [dest |-> s, migrating |-> FALSE] \in [dest : Schedulers, migrating : BOOLEAN]
      BY SMTT(60)
    <3> QED BY <2>4, <3>1, <3>2
  <2>10. OthersStay(a)
    BY <2>2, <2>8, <2>9 DEF OthersStay
  <2>11. pendingEvents' \in [Schedulers -> [Actors -> Seq(Events)]]
    <3>1. pendingEvents \in [Schedulers -> [Actors -> Seq(Events)]] /\ pendingEvents[s] \in [Actors -> Seq(Events)]
      BY DEF HomeInv, EventsTypeOK
    <3>2. <<>> \in Seq(Events)
      BY SMTT(60)
    <3>3. [pendingEvents[s] EXCEPT ![a] = <<>>] \in [Actors -> Seq(Events)]
      BY <3>1, <3>2
    <3> QED BY <3>1, <3>3
  <2>12. ActorsTypeOK' /\ EventsTypeOK'
    BY <2>2, <2>3, <2>8, <2>9, <2>11 DEF HomeInv, ActorsTypeOK, EventsTypeOK
  <2>13. CarrierInv'
    BY <2>1, <2>4, <2>10, <1>CarrierArrives DEF HomeInv
  <2>14. MayBeListed(s, a)
    <3> HIDE DEF r
    <3>0. ready' = [ready EXCEPT ![s] = IF r = <<>> THEN @ ELSE Append(@, a)]
      BY DEF r
    <3>1. CASE r = <<>>
      <4>1. ready \in [Schedulers -> Seq(Actors)] /\ ready' = [ready EXCEPT ![s] = ready[s]]
        BY <3>0, <3>1 DEF HomeInv, ListsTypeOK
      <4>2. ready' = ready
        BY <4>1, SMTT(60)
      <4> QED BY <4>2 DEF MayBeListed
    <3>2. CASE r # <<>>
      <4>1. ready' = [ready EXCEPT ![s] = Append(@, a)]
        BY <3>0, <3>2
      <4>2. a \in alive' /\ IsHere(s, a)'
        BY <2>2, <2>5, <2>9 DEF OnWay, IsHere
      <4> QED BY <2>8, <3>2, <4>1, <4>2 DEF MayBeListed
    <3> QED BY <3>1, <3>2
  <2> QED BY <2>2, <2>4, <2>6, <2>10, <2>12, <2>13, <2>14, <1>ComesHome
<1>StutterHome.
  ASSUME HomeInv, UNCHANGED schedulerVars
  PROVE  HomeInv'
  <2> USE <1>StutterHome
  <2>1. /\ plan' = plan /\ schedId' = schedId /\ alive' = alive /\ unborn' = unborn /\ mailbox' = mailbox /\ moves' = moves
        /\ ready' = ready /\ batch' = batch /\ stack' = stack /\ timeouts' = timeouts
        /\ pendingEvents' = pendingEvents /\ inbound' = inbound /\ sending' = sending /\ sent' = sent /\ handled' = handled
    BY SMTT(60) DEF schedulerVars, schedulerState, actorVars, listVars, eventVars
  <2>2. /\ StackInv' /\ ListInv'
        /\ ready' \in [Schedulers -> Seq(Actors)] /\ batch' \in [Schedulers -> Seq(Actors)]
        /\ stack' \in [Schedulers -> Seq(FrameRecords)] /\ mailbox' \in [Actors -> Seq(Events)]
    BY <2>1, <1>NothingDelivered
  <2>3. Delivered
    <3>1. \A u \in Threads, x \in Actors : CarriedBy(u, x)' => CarriedBy(u, x) /\ sending'[u] = sending[u]
      BY <2>1 DEF CarriedBy
    <3> QED BY <2>1, <2>2, <3>1 DEF Delivered, HomeInv, EventsTypeOK
  <2>4. /\ sent' \in Nat /\ timeouts' \in [Schedulers -> SUBSET Actors] /\ inbound' \in [Schedulers -> Seq(WireMessages)]
    BY <2>1 DEF HomeInv, ActorsTypeOK, ListsTypeOK, EventsTypeOK
  <2>5. \A s \in Schedulers : timeouts'[s] \subseteq timeouts[s] /\ inbound'[s] = inbound[s]
    BY <2>1
  <2> QED BY <2>1, <2>3, <2>4, <2>5, <1>DeliveredHome
<1> SUFFICES ASSUME HomeInv, [SchedulerNext]_schedulerVars PROVE HomeInv'
  OBVIOUS
<1>1. CASE UNCHANGED schedulerVars
  BY <1>1, <1>StutterHome
<1>2. CASE SchedulerNext
  <2>0. plan' = plan
    BY <1>2 DEF SchedulerNext
  <2>1. CASE Put(Outside)
    BY <2>0, <2>1, <1>PutHome DEF Threads
  <2>2. ASSUME NEW t \in Threads, NEW a \in Actors, NEW now \in BOOLEAN, Send(t, a, now) PROVE HomeInv'
    BY <2>0, <2>2, <1>SendHome
  <2>3. ASSUME NEW s \in Schedulers, SchedulerStep(s) PROVE HomeInv'
    BY <2>0, <2>3, <1>HandlerEndsHome, <1>TakeReadyHome, <1>FlushMailboxHome, <1>PutHome DEF SchedulerStep, Threads
  <2>4. ASSUME NEW s \in Schedulers, Receive(s) PROVE HomeInv'
    <3>1. CASE /\ Head(inbound[s]).kind = "event"
               /\ Deliver(s, Head(inbound[s]).event, TRUE)
               /\ UNCHANGED schedId
      BY <2>0, <2>4, <3>1, <1>ReceiveEventHome
    <3>2. CASE ~(/\ Head(inbound[s]).kind = "event"
                 /\ Deliver(s, Head(inbound[s]).event, TRUE)
                 /\ UNCHANGED schedId)
      <4>1. PICK a : a = Head(inbound[s]).to
        OBVIOUS
      <4>2. /\ Head(inbound[s]).kind = "actor"
            /\ schedId' = [schedId EXCEPT ![a] = [dest |-> s, migrating |-> FALSE]]
            /\ mailbox' = [mailbox EXCEPT ![a] = MailOnArrival(s, a)]
            /\ pendingEvents' = [pendingEvents EXCEPT ![s][a] = <<>>]
            /\ ready' = [ready EXCEPT ![s] = IF MailOnArrival(s, a) = <<>> THEN @ ELSE Append(@, a)]
            /\ UNCHANGED <<batch, stack, sending, handled>>
        BY <2>4, <3>2, <4>1 DEF Receive
      <4>3. batch' = batch /\ stack' = stack /\ sending' = sending /\ handled' = handled
        BY <4>2, SMTT(60)
      <4> QED BY <2>0, <2>4, <4>1, <4>2, <4>3, <1>ReceiveActorHome
    <3> QED BY <3>1, <3>2
  <2>5. ASSUME NEW s \in Schedulers, StopActor(s) \/ SetTimeout(s) PROVE HomeInv'
    BY <2>0, <2>5, <1>StopActorHome, <1>SetTimeoutHome
  <2>6. ASSUME NEW s \in Schedulers, NEW d \in Schedulers, MigrateActor(s, d) PROVE HomeInv'
    BY <2>0, <2>6, <1>MigrateActorHome
  <2>7. ASSUME NEW s \in Schedulers, NEW a \in Actors, RunTimeout(s, a) PROVE HomeInv'
    BY <2>0, <2>7, <1>RunTimeoutHome
  <2>8. ASSUME NEW s \in Schedulers, NEW a \in Actors, NEW d \in Schedulers, RegisterActor(s, a, d) PROVE HomeInv'
    BY <2>0, <2>8, <1>RegisterActorHome
  <2> QED BY <1>2, <2>1, <2>2, <2>3, <2>4, <2>5, <2>6, <2>7, <2>8 DEF SchedulerNext
<1> QED BY <1>1, <1>2

\* Two lists that name different actors, each once, are one such list.
LEMMA ConcatInjective ==
  ASSUME NEW S, NEW p \in Seq(S), NEW q \in Seq(S), IsInjective(p), IsInjective(q), Range(p) \cap Range(q) = {}
  PROVE  IsInjective(p \o q)
<1> DEFINE n == Len(p)
           r == p \o q
<1>1. n \in Nat /\ Len(q) \in Nat /\ DOMAIN p = 1..n /\ DOMAIN q = 1..Len(q)
  BY SMTT(60)
<1>2. DOMAIN r = 1..(n + Len(q)) /\ \A i \in 1..(n + Len(q)) : r[i] = IF i <= n THEN p[i] ELSE q[i - n]
  BY SMTT(60)
<1> HIDE DEF r
<1>3. ASSUME NEW i \in DOMAIN r
      PROVE  \/ i \in DOMAIN p /\ r[i] = p[i]
             \/ i \in Int /\ ~(i <= n) /\ i - n \in DOMAIN q /\ r[i] = q[i - n]
  BY <1>1, <1>2, SMTT(60)
<1>4. ASSUME NEW i \in DOMAIN r, NEW j \in DOMAIN r, r[i] = r[j] PROVE i = j
  <2>1. CASE i \in DOMAIN p /\ r[i] = p[i] /\ j \in DOMAIN p /\ r[j] = p[j]
    BY <1>4, <2>1 DEF IsInjective
  <2>2. CASE i \in DOMAIN p /\ r[i] = p[i] /\ j - n \in DOMAIN q /\ r[j] = q[j - n]
    BY <1>4, <2>2 DEF Range
  <2>3. CASE j \in DOMAIN p /\ r[j] = p[j] /\ i - n \in DOMAIN q /\ r[i] = q[i - n]
    BY <1>4, <2>3 DEF Range
  <2>4. CASE /\ i \in Int /\ i - n \in DOMAIN q /\ r[i] = q[i - n]
             /\ j \in Int /\ j - n \in DOMAIN q /\ r[j] = q[j - n]
    <3>1. i - n = j - n
      BY <1>4, <2>4 DEF IsInjective
    <3> QED BY <1>1, <2>4, <3>1, SMTT(60)
  <2> QED BY <1>3, <2>1, <2>2, <2>3, <2>4
<1> QED BY <1>4 DEF IsInjective, r

\* RunsAtHome (ActorScheduler.tla) for any number of schedulers, actors, events,
\* migrations and stops: only the thread of its scheduler runs an actor, lists
\* it or has a timeout for it, and no actor is called while it runs.
THEOREM RunsAtHomeAlways == SchedulerSpec => []RunsAtHome
<1>1. HomeInv => RunsAtHome
  <2> SUFFICES ASSUME HomeInv PROVE RunsAtHome
    OBVIOUS
  <2>1. ASSUME NEW s \in Schedulers, NEW i \in DOMAIN stack[s]
        PROVE  stack[s][i].actor \in alive /\ IsHere(s, stack[s][i].actor)
    BY DEF HomeInv, StackInv, FrameOK
  <2>2. ASSUME NEW s \in Schedulers, NEW a \in Listed(s) \cup timeouts[s] PROVE a \in alive /\ IsHere(s, a)
    BY DEF HomeInv, ListInv, TimerInv
  <2>3. ASSUME NEW s \in Schedulers PROVE IsInjective(ready[s] \o batch[s])
    <3>1. /\ ready[s] \in Seq(Actors) /\ batch[s] \in Seq(Actors) /\ IsInjective(ready[s]) /\ IsInjective(batch[s])
          /\ Range(ready[s]) \cap Range(batch[s]) = {}
      BY DEF HomeInv, ListsTypeOK, ListInv
    <3> QED BY <3>1, ConcatInjective
  <2>4. ASSUME NEW s \in Schedulers, NEW u \in Schedulers, NEW i \in DOMAIN stack[s], NEW j \in DOMAIN stack[u],
               stack[s][i].actor = stack[u][j].actor
        PROVE  s = u /\ i = j
    <3>1. IsHere(s, stack[s][i].actor) /\ IsHere(u, stack[u][j].actor)
      BY <2>1
    <3>2. s = u
      BY <2>4, <3>1, OnePlace
    <3> QED BY <2>4, <3>2 DEF HomeInv, StackInv, FrameOK
  <2> QED BY <2>1, <2>2, <2>3, <2>4 DEF RunsAtHome
<1> QED BY <1>1, InitHome, NextHome, PTL DEF SchedulerSpec

=============================================================================
