---------------------------- MODULE Actors_proofs ---------------------------
(***************************************************************************)
(* Proofs about the keys of a session and three actors beside the sessions.*)
(*                                                                         *)
(* MpscPollableQueue: the reader does not sleep through an event, and the  *)
(* queue implements FifoQueue, for any writers and any number of events.   *)
(*                                                                         *)
(* NetQueryDispatcher: the sessions of a data center are created once, no  *)
(* query is lost, and the main flags agree with main_dc_id_, for any       *)
(* number of threads, queries and data centers.                            *)
(*                                                                         *)
(* TempAuthKeyWatchdog: for all keys, sessions, delays and counter widths, *)
(* and any number of changes and errors, the timer runs exactly while a    *)
(* sync is due, an idle watchdog is in step with the server, and no stream *)
(* of calls puts a due sync off.                                           *)
(*                                                                         *)
(* SessionAuth: for any number of faults, keys and queries, with and       *)
(* without PFS.  A session takes the answer to its last query to bind a    *)
(* key for one about the keys it has when the answer is handled.  The      *)
(* invariant says why that is so: a key is replaced only by a handshake    *)
(* that began after it was given up, so its answer comes before the        *)
(* message that brings the new key.                                        *)
(***************************************************************************)
EXTENDS MpscPollableQueue, NetQueryDispatcher, TempAuthKeyWatchdog, SessionAuth, TLAPS

\* Leaves that name no prover are for Zenon.
USE ZenonT(60)

----------------------------------------------------------------------------
(* MpscPollableQueue *)

QueueInv == QueueTypeOK /\ SleepInv

\* The initial queue.
LEMMA QueueInitInv == QueueInit => QueueInv
<1> SUFFICES ASSUME QueueInit PROVE QueueInv
  OBVIOUS
<1>1. VectorsTypeOK
  BY SMTT(60) DEF QueueInit, VectorsTypeOK
<1>2. FlagsTypeOK
  BY DEF QueueInit, FlagsTypeOK
<1>3. SleepInv
  BY DEF QueueInit, SleepInv
<1> QED
  BY <1>1, <1>2, <1>3 DEF QueueInv, QueueTypeOK

\* Every step leaves the vectors of writer and reader sequences of events.
LEMMA VectorsStep ==
  QueueTypeOK /\ SleepInv /\ [QueueNext]_queueVars => VectorsTypeOK'
<1> SUFFICES ASSUME VectorsTypeOK, SleepInv, [QueueNext]_queueVars PROVE VectorsTypeOK'
  BY DEF QueueTypeOK
<1> USE DEF VectorsTypeOK
<1>1. CASE UNCHANGED queueVars
  BY <1>1 DEF queueVars
<1>2. ASSUME NEW w \in Writers, WriterPut(w) PROVE VectorsTypeOK'
  <2>1. <<w, puts[w] + 1>> \in QueueEvents
    BY SMTT(60) DEF QueueEvents
  <2> QED
    BY <1>2, <2>1, SMTT(60) DEF WriterPut
<1>3. ASSUME NEW w \in Writers, WriterRelease(w) PROVE VectorsTypeOK'
  BY <1>3 DEF WriterRelease
<1>4. CASE PollReports
  BY <1>4 DEF PollReports
<1>5. CASE WaitEnds
  BY <1>5 DEF WaitEnds
<1>6. CASE FirstPass
  <2>1. /\ writerVector' \in {writerVector, <<>>} /\ readerVector' \in {readerVector, writerVector}
        /\ UNCHANGED <<puts, taken>>
    BY <1>6 DEF FirstPass, TakeOver, Swap
  <2>2. <<>> \in Seq(QueueEvents)
    BY SMTT(60)
  <2> QED
    BY <2>1, <2>2
<1>7. CASE SecondPass
  <2>1. /\ writerVector' \in {writerVector, <<>>} /\ readerVector' \in {readerVector, writerVector}
        /\ UNCHANGED <<puts, taken>>
    BY <1>7 DEF SecondPass, TakeOver, Swap
  <2>2. <<>> \in Seq(QueueEvents)
    BY SMTT(60)
  <2> QED
    BY <2>1, <2>2
<1>8. CASE ReaderGet
  <2>1. readerVector # <<>>
    BY <1>8 DEF ReaderGet, SleepInv
  <2>2. Head(readerVector) \in QueueEvents /\ Tail(readerVector) \in Seq(QueueEvents)
    BY <2>1, SMTT(60)
  <2> QED
    BY <1>8, <2>2, SMTT(60) DEF ReaderGet
<1> QED
  BY <1>1, <1>2, <1>3, <1>4, <1>5, <1>6, <1>7, <1>8 DEF QueueNext, ReaderStep

\* Every step leaves the flags and program counters what they are.
LEMMA FlagsStep == QueueTypeOK /\ [QueueNext]_queueVars => FlagsTypeOK'
<1> SUFFICES ASSUME FlagsTypeOK, [QueueNext]_queueVars PROVE FlagsTypeOK'
  BY DEF QueueTypeOK
<1> USE DEF FlagsTypeOK
<1>1. CASE UNCHANGED queueVars
  BY <1>1 DEF queueVars
<1>2. ASSUME NEW w \in Writers, WriterPut(w) PROVE FlagsTypeOK'
  BY <1>2 DEF WriterPut
<1>3. ASSUME NEW w \in Writers, WriterRelease(w) PROVE FlagsTypeOK'
  BY <1>3 DEF WriterRelease
<1>4. CASE PollReports
  BY <1>4 DEF PollReports
<1>5. CASE WaitEnds
  BY <1>5 DEF WaitEnds
<1>6. CASE FirstPass
  BY <1>6 DEF FirstPass, TakeOver
<1>7. CASE SecondPass
  BY <1>7 DEF SecondPass, TakeOver
<1>8. CASE ReaderGet
  BY <1>8 DEF ReaderGet
<1> QED
  BY <1>1, <1>2, <1>3, <1>4, <1>5, <1>6, <1>7, <1>8 DEF QueueNext, ReaderStep

\* Every step keeps the promise that a sleeping reader is woken.
LEMMA SleepStep == QueueTypeOK /\ SleepInv /\ [QueueNext]_queueVars => SleepInv'
<1> SUFFICES ASSUME QueueTypeOK, SleepInv, [QueueNext]_queueVars PROVE SleepInv'
  OBVIOUS
<1> USE DEF QueueTypeOK, VectorsTypeOK, FlagsTypeOK, SleepInv, Waking
<1>1. CASE UNCHANGED queueVars
  BY <1>1 DEF queueVars
<1>2. ASSUME NEW w \in Writers, WriterPut(w) PROVE SleepInv'
  BY <1>2 DEF WriterPut
<1>3. ASSUME NEW w \in Writers, WriterRelease(w) PROVE SleepInv'
  BY <1>3 DEF WriterRelease
<1>4. CASE PollReports
  BY <1>4 DEF PollReports
<1>5. CASE WaitEnds
  BY <1>5 DEF WaitEnds
<1>6. CASE FirstPass
  BY <1>6 DEF FirstPass, TakeOver, Swap
<1>7. CASE SecondPass
  BY <1>7, SMTT(60) DEF SecondPass, TakeOver, Swap
<1>8. CASE ReaderGet
  BY <1>8 DEF ReaderGet
<1> QED
  BY <1>1, <1>2, <1>3, <1>4, <1>5, <1>6, <1>7, <1>8 DEF QueueNext, ReaderStep

\* The inductive invariant of the queue holds throughout.
LEMMA QueueSafe == QueueSpec => []QueueInv
<1>1. QueueInit => QueueInv
  BY QueueInitInv
<1>2. QueueInv /\ [QueueNext]_queueVars => QueueInv'
  BY VectorsStep, FlagsStep, SleepStep DEF QueueInv, QueueTypeOK
<1> QED
  BY <1>1, <1>2, PTL DEF QueueSpec

\* The thread of a scheduler never sleeps in poll while an event is in its queue
\* and nothing is under way that wakes it (writer_put, reader_wait_nonblock).
THEOREM NoSleepThroughEventsAlways == QueueSpec => []NoSleepThroughEvents
<1>1. QueueInv => NoSleepThroughEvents
  BY DEF QueueInv, SleepInv, NoSleepThroughEvents
<1> QED
  BY <1>1, QueueSafe, PTL

----------------------------------------------------------------------------
(* Refinement.                                                             *)

\* Lemmas about sequences.
LEMMA ConcatAppend ==
  ASSUME NEW S, NEW r \in Seq(S), NEW s \in Seq(S), NEW x \in S
  PROVE  r \o Append(s, x) = Append(r \o s, x)
BY SMTT(60)

\* Taking the first event of the reader's vector takes the first of all.
LEMMA ConcatHead ==
  ASSUME NEW S, NEW r \in Seq(S), NEW s \in Seq(S), r # <<>>
  PROVE  /\ r \o s # <<>>
         /\ Head(r \o s) = Head(r)
         /\ Tail(r \o s) = Tail(r) \o s
BY SMTT(60)

\* Exchanging an empty vector of the reader for the writers' keeps the order.
LEMMA ConcatEmpty ==
  ASSUME NEW S, NEW s \in Seq(S)
  PROVE  s \o <<>> = s /\ <<>> \o s = s
BY SMTT(60)

\* Every step of the queue is one of the first-in first-out queue or a stutter.
LEMMA RefineStep ==
  QueueInv /\ [QueueNext]_queueVars => [Fifo!FifoNext]_(Fifo!fifoVars)
<1> SUFFICES ASSUME QueueInv, [QueueNext]_queueVars
             PROVE  Fifo!FifoNext \/ UNCHANGED Fifo!fifoVars
  OBVIOUS
<1> USE DEF QueueInv, QueueTypeOK, VectorsTypeOK
<1>1. CASE UNCHANGED queueVars
  BY <1>1 DEF queueVars, Fifo!fifoVars
<1>2. ASSUME NEW w \in Writers, WriterPut(w) PROVE Fifo!FifoPut(w)
  <2>1. <<w, puts[w] + 1>> \in QueueEvents
    BY SMTT(60) DEF QueueEvents
  <2>2. readerVector \o Append(writerVector, <<w, puts[w] + 1>>)
          = Append(readerVector \o writerVector, <<w, puts[w] + 1>>)
    BY <2>1, ConcatAppend, SMTT(60)
  <2> QED
    BY <1>2, <2>2 DEF WriterPut, Fifo!FifoPut, Fifo!QueueEvent
<1>3. ASSUME NEW w \in Writers, WriterRelease(w) PROVE UNCHANGED Fifo!fifoVars
  BY <1>3 DEF WriterRelease, Fifo!fifoVars
<1>4. CASE PollReports
  BY <1>4 DEF PollReports, Fifo!fifoVars
<1>5. CASE WaitEnds
  BY <1>5 DEF WaitEnds, Fifo!fifoVars
<1>6. ASSUME TakeOver, readerAt # "take" PROVE UNCHANGED (readerVector \o writerVector)
  <2>1. readerVector = <<>>
    BY <1>6 DEF SleepInv
  <2> QED
    BY <1>6, <2>1, ConcatEmpty DEF TakeOver, Swap
<1>7. CASE FirstPass
  BY <1>6, <1>7 DEF FirstPass, Fifo!fifoVars
<1>8. CASE SecondPass
  BY <1>6, <1>8 DEF SecondPass, Fifo!fifoVars
<1>9. CASE ReaderGet
  <2>1. readerVector # <<>>
    BY <1>9 DEF ReaderGet, SleepInv
  <2>2. /\ readerVector \o writerVector # <<>>
        /\ Head(readerVector \o writerVector) = Head(readerVector)
        /\ Tail(readerVector \o writerVector) = Tail(readerVector) \o writerVector
    BY <2>1, ConcatHead
  <2>3. Fifo!FifoGet
    BY <1>9, <2>2 DEF ReaderGet, Fifo!FifoGet
  <2> QED
    BY <2>3 DEF Fifo!FifoNext
<1> QED
  BY <1>1, <1>2, <1>3, <1>4, <1>5, <1>7, <1>8, <1>9 DEF QueueNext, ReaderStep, Fifo!FifoNext

\* The queue with its two vectors, its lock and its descriptor is a first in,
\* first out queue: each event is taken once and in order (writer_put,
\* reader_wait_nonblock, reader_get_unsafe).
THEOREM QueueImplementsFifo == QueueSpec => Fifo!FifoSafe
<1>1. QueueInit => Fifo!FifoInit
  BY SMTT(60) DEF QueueInit, Fifo!FifoInit
<1>2. QueueInv /\ [QueueNext]_queueVars => [Fifo!FifoNext]_(Fifo!fifoVars)
  BY RefineStep
<1> QED
  BY <1>1, <1>2, QueueSafe, PTL DEF QueueSpec, Fifo!FifoSafe

----------------------------------------------------------------------------
(* NetQueryDispatcher *)

\* A query at the step that creates the sessions has claimed its data center
\* alone and before they exist.
ClaimsHeld ==
  \A q \in Queries : at[q] = "init" =>
    /\ isValid[dest[q]] /\ ~isInited[dest[q]]
    /\ \A r \in Queries : at[r] = "init" /\ dest[r] = dest[q] => r = q

\* Sessions exist only after a claim and were counted.
InitedOnce == \A d \in Dcs : (isInited[d] => isValid[d]) /\ inits[d] = (IF isInited[d] THEN 1 ELSE 0)

\* A query about to be sent has found the sessions.
SendsToSessions == \A q \in Queries : at[q] = "send" => isInited[dest[q]]

DispatcherInv == TypeOK /\ ClaimsHeld /\ InitedOnce /\ SendsToSessions /\ NoQueryLost /\ MainFlagsAgree

\* The dispatcher starts with no session and every query outside.
LEMMA InitDispatcherInv == Init => DispatcherInv
<1> SUFFICES ASSUME Init PROVE DispatcherInv
  OBVIOUS
<1>1. TypeOK
  <2>1. /\ at \in [Queries -> Places] /\ status \in [Queries -> Statuses]
        /\ dest \in [Queries -> Dcs] /\ kind \in [Queries -> NetQueryKinds]
    BY DEF Init, Places, Statuses
  <2>2. next \in [Queries -> Nat \ {0}] /\ total \in [Queries -> Nat] /\ inits \in [Dcs -> Nat]
    BY SMTT(60) DEF Init
  <2>3. /\ main \in Dcs /\ isValid \in [Dcs -> BOOLEAN] /\ isInited \in [Dcs -> BOOLEAN]
        /\ isMain \in [Dcs -> BOOLEAN] /\ stopped \in BOOLEAN
    BY DispatcherAssumption DEF DispatcherAssumption, Init
  <2>4. moves \in 0..MaxMoves
    BY DispatcherAssumption, SMTT(60) DEF DispatcherAssumption, Init
  <2> QED BY <2>1, <2>2, <2>3, <2>4 DEF TypeOK
<1>2. ClaimsHeld /\ SendsToSessions /\ NoQueryLost
  BY DEF Init, ClaimsHeld, SendsToSessions, NoQueryLost
<1>3. InitedOnce /\ MainFlagsAgree
  BY DEF Init, InitedOnce, MainFlagsAgree
<1> QED BY <1>1, <1>2, <1>3 DEF DispatcherInv

\* Every step of every thread keeps the types.
LEMMA NextTypeOK == TypeOK /\ [Next]_vars => TypeOK'
<1> SUFFICES ASSUME TypeOK, [Next]_vars PROVE TypeOK'
  OBVIOUS
<1> USE DispatcherAssumption DEF DispatcherAssumption, TypeOK, Go, Becomes, Complete, Dispatch, dcVars,
        netQueryVars, Places, InDispatch, Statuses
<1>1. CASE Stop
  BY <1>1 DEF Stop
<1>2. ASSUME NEW d \in Dcs, Login(d) PROVE TypeOK'
  <2>1. main' \in Dcs /\ isMain' \in [Dcs -> BOOLEAN]
    BY <1>2 DEF Login, SetMainDcId
  <2>2. moves' \in 0..MaxMoves
    BY <1>2, SMTT(60) DEF Login
  <2> QED BY <1>2, <2>1, <2>2 DEF Login
<1>3. ASSUME NEW q \in Queries, DispatchStep(q) PROVE TypeOK'
  <2>1. CASE Check(q)
    BY <2>1 DEF Check
  <2>2. CASE SendToDelayer(q)
    BY <2>2 DEF SendToDelayer, ToDelayer
  <2>3. CASE Migrate(q)
    BY <2>3 DEF Migrate, SetMainDcId
  <2>4. CASE Route(q)
    <3>1. Destination(q) \in Dcs
      BY DEF Destination
    <3>2. dest' \in [Queries -> Dcs]
      BY <2>4, <3>1 DEF Route
    <3>3. isValid' \in [Dcs -> BOOLEAN]
      BY <2>4, <3>1 DEF Route, Claim
    <3>4. at' \in [Queries -> Places] /\ status' \in [Queries -> Statuses]
      BY <2>4 DEF Route
    <3> QED BY <2>4, <3>2, <3>3, <3>4 DEF Route
  <2>5. CASE InitDc(q)
    <3>1. isMain' \in [Dcs -> BOOLEAN] /\ isInited' \in [Dcs -> BOOLEAN]
      BY <2>5 DEF InitDc, InitialFlag
    <3>2. inits' \in [Dcs -> Nat]
      BY <2>5, SMTT(60) DEF InitDc
    <3>3. at' \in [Queries -> Places] /\ status' \in [Queries -> Statuses]
      BY <2>5 DEF InitDc
    <3> QED BY <2>5, <3>1, <3>2, <3>3 DEF InitDc
  <2>6. CASE Spin(q)
    BY <2>6 DEF Spin
  <2>7. CASE Send(q)
    BY <2>7 DEF Send
  <2> QED BY <1>3, <2>1, <2>2, <2>3, <2>4, <2>5, <2>6, <2>7 DEF DispatchStep
<1>4. ASSUME NEW q \in Queries, DelayerStep(q) PROVE TypeOK'
  <2>1. CASE Delay(q)
    BY <2>1, SMTT(60) DEF Delay, NextTimeout, Counted, Timeout
  <2>2. CASE OnSlotEvent(q)
    BY <2>2 DEF OnSlotEvent
  <2>3. CASE TearDown(q)
    BY <2>3 DEF TearDown
  <2> QED BY <1>4, <2>1, <2>2, <2>3 DEF DelayerStep
<1>5. ASSUME NEW q \in Queries, Create(q) PROVE TypeOK'
  BY <1>5 DEF Create
<1>6. ASSUME NEW q \in Queries, NEW s \in {"OK", "Error", "Resend", "Again", "Flood"}, Return(q, s)
      PROVE TypeOK'
  BY <1>6 DEF Return
<1>7. ASSUME NEW q \in Queries, NEW d \in Dcs, CreateOwn(q, d) \/ ReturnMigrate(q, d) PROVE TypeOK'
  BY <1>7, SMTT(60) DEF CreateOwn, ReturnMigrate
<1>8. CASE UNCHANGED vars
  BY <1>8 DEF vars
<1> QED BY <1>1, <1>2, <1>3, <1>4, <1>5, <1>6, <1>7, <1>8 DEF Next

\* A step that moves one query elsewhere than to a send or a claim, and leaves
\* the data centers alone, keeps the invariant.
LEMMA MoveKeeps ==
  ASSUME NEW q \in Queries, DispatcherInv, TypeOK', at' = [at EXCEPT ![q] = at'[q]],
         at'[q] \notin {"init", "send", "lost"}, UNCHANGED <<dcVars, stopped>>,
         \A r \in Queries : r # q => dest'[r] = dest[r]
  PROVE  DispatcherInv'
<1>1. \A r \in Queries : at'[r] \in {"init", "send", "lost"} => at'[r] = at[r] /\ dest'[r] = dest[r]
  BY DEF DispatcherInv, TypeOK
<1>2. ClaimsHeld' /\ InitedOnce' /\ SendsToSessions' /\ NoQueryLost'
  BY <1>1, SMTT(60) DEF DispatcherInv, TypeOK, ClaimsHeld, InitedOnce, SendsToSessions, NoQueryLost, dcVars
<1>3. MainFlagsAgree'
  BY DEF DispatcherInv, MainFlagsAgree, dcVars
<1> QED BY <1>2, <1>3 DEF DispatcherInv

\* A change of the main data center keeps the invariant.
LEMMA SetMainKeeps ==
  ASSUME DispatcherInv, TypeOK', NEW d \in Dcs, SetMainDcId(d), UNCHANGED <<isValid, isInited, inits, stopped, dest>>,
         \A r \in Queries : at'[r] \in {"init", "send", "lost"} => at'[r] = at[r]
  PROVE  DispatcherInv'
<1>1. ClaimsHeld' /\ InitedOnce' /\ SendsToSessions' /\ NoQueryLost'
  BY SMTT(60) DEF DispatcherInv, TypeOK, ClaimsHeld, InitedOnce, SendsToSessions, NoQueryLost
<1>2. MainFlagsAgree'
  BY DEF DispatcherInv, TypeOK, MainFlagsAgree, InitedOnce, SetMainDcId, SessionsExist
<1> QED BY <1>1, <1>2 DEF DispatcherInv

\* Every step of every thread keeps the invariant.
LEMMA NextDispatcherInv == DispatcherInv /\ [Next]_vars => DispatcherInv'
<1> SUFFICES ASSUME DispatcherInv, [Next]_vars PROVE DispatcherInv'
  OBVIOUS
<1>0. TypeOK /\ TypeOK'
  BY NextTypeOK DEF DispatcherInv
<1>1. CASE Stop
  BY <1>0, <1>1 DEF Stop, DispatcherInv, netQueryVars, dcVars, ClaimsHeld, InitedOnce, SendsToSessions, NoQueryLost,
     MainFlagsAgree, TypeOK
<1>2. ASSUME NEW d \in Dcs, Login(d) PROVE DispatcherInv'
  BY <1>0, <1>2, SetMainKeeps DEF Login, netQueryVars
<1>3. ASSUME NEW q \in Queries, DispatchStep(q) PROVE DispatcherInv'
  <2>1. CASE Check(q)
    BY <1>0, <2>1, MoveKeeps DEF Check, Go, Becomes, Complete, TypeOK
  <2>2. CASE SendToDelayer(q)
    BY <1>0, <2>2, MoveKeeps DEF SendToDelayer, ToDelayer, Go, Becomes, Complete, TypeOK
  <2>3. CASE Migrate(q)
    BY <1>0, <2>3, SetMainKeeps DEF Migrate, Go, TypeOK
  <2>4. CASE Route(q)
    <3>1. CASE TtlIsOver(q)
      BY <1>0, <2>4, <3>1, MoveKeeps DEF Route, Go, Becomes, Complete, TypeOK, dcVars
    <3>2. CASE ~TtlIsOver(q) /\ isValid[Destination(q)]
      BY <1>0, <2>4, <3>2, MoveKeeps DEF Route, Go, TypeOK, dcVars
    <3>3. CASE ~TtlIsOver(q) /\ ~isValid[Destination(q)]
      <4>1. /\ at' = [at EXCEPT ![q] = "init"]
            /\ dest' = [dest EXCEPT ![q] = Destination(q)]
            /\ isValid' = [isValid EXCEPT ![Destination(q)] = TRUE]
            /\ Destination(q) \in Dcs
            /\ UNCHANGED <<main, isInited, inits, isMain, stopped>>
        BY <1>0, <2>4, <3>3 DEF Route, Go, Claim, TypeOK, Destination
      <4>2. ~isInited[Destination(q)]
        BY <3>3, <4>1 DEF DispatcherInv, InitedOnce
      <4>3. \A r \in Queries : at[r] = "init" => dest[r] # Destination(q)
        BY <3>3 DEF DispatcherInv, ClaimsHeld
      <4>4. ClaimsHeld'
        BY <1>0, <4>1, <4>2, <4>3 DEF DispatcherInv, ClaimsHeld, TypeOK
      <4>5. InitedOnce' /\ SendsToSessions' /\ NoQueryLost' /\ MainFlagsAgree'
        BY <1>0, <4>1, SMTT(60) DEF DispatcherInv, InitedOnce, SendsToSessions, NoQueryLost, MainFlagsAgree, TypeOK
      <4> QED BY <1>0, <4>4, <4>5 DEF DispatcherInv
    <3> QED BY <3>1, <3>2, <3>3
  <2>5. CASE InitDc(q)
    <3>1. CASE stopped
      BY <1>0, <2>5, <3>1, MoveKeeps DEF InitDc, Go, Becomes, Complete, TypeOK, dcVars
    <3>2. CASE ~stopped
      <4>1. /\ at[q] = "init" /\ at' = [at EXCEPT ![q] = "send"]
            /\ isInited' = [isInited EXCEPT ![dest[q]] = TRUE]
            /\ inits' = [inits EXCEPT ![dest[q]] = @ + 1]
            /\ isMain' = [isMain EXCEPT ![dest[q]] = (dest[q] = main)]
            /\ UNCHANGED <<dest, main, isValid, stopped>>
        BY <2>5, <3>2 DEF InitDc, Go, InitialFlag
      <4>2. isValid[dest[q]] /\ ~isInited[dest[q]] /\ dest[q] \in Dcs
        BY <1>0, <4>1 DEF DispatcherInv, ClaimsHeld, TypeOK
      <4>3. ClaimsHeld'
        BY <1>0, <4>1, <4>2 DEF DispatcherInv, ClaimsHeld, TypeOK
      <4>4. InitedOnce'
        BY <1>0, <4>1, <4>2, SMTT(60) DEF DispatcherInv, InitedOnce, TypeOK
      <4>5. SendsToSessions' /\ NoQueryLost' /\ MainFlagsAgree'
        BY <1>0, <4>1, <4>2 DEF DispatcherInv, SendsToSessions, NoQueryLost, MainFlagsAgree, TypeOK
      <4> QED BY <1>0, <4>3, <4>4, <4>5 DEF DispatcherInv
    <3> QED BY <3>1, <3>2
  <2>6. CASE Spin(q)
    <3>1. CASE ~isInited[dest[q]]
      BY <1>0, <2>6, <3>1, MoveKeeps DEF Spin, Go, Becomes, Complete, TypeOK
    <3>2. CASE isInited[dest[q]]
      <4>1. at' = [at EXCEPT ![q] = "send"] /\ UNCHANGED <<dest, dcVars, stopped>>
        BY <2>6, <3>2 DEF Spin, Go
      <4>2. \A r \in Queries : at'[r] = IF r = q THEN "send" ELSE at[r]
        BY <1>0, <4>1 DEF TypeOK
      <4>3. UNCHANGED <<main, isValid, isInited, inits, isMain>>
        BY <4>1 DEF dcVars
      <4>4. ClaimsHeld' /\ SendsToSessions' /\ NoQueryLost'
        BY <3>2, <4>1, <4>2, <4>3, SMTT(60) DEF DispatcherInv, ClaimsHeld, SendsToSessions, NoQueryLost
      <4>5. InitedOnce' /\ MainFlagsAgree'
        BY <4>1, <4>3 DEF DispatcherInv, InitedOnce, MainFlagsAgree
      <4> QED BY <1>0, <4>4, <4>5 DEF DispatcherInv
    <3> QED BY <3>1, <3>2
  <2>7. CASE Send(q)
    <3>1. stopped \/ SessionsExist(dest[q])
      BY <2>7 DEF Send, DispatcherInv, SendsToSessions, SessionsExist
    <3> QED BY <1>0, <2>7, <3>1, MoveKeeps DEF Send, Go, Becomes, Complete, TypeOK
  <2> QED BY <1>3, <2>1, <2>2, <2>3, <2>4, <2>5, <2>6, <2>7 DEF DispatchStep
<1>4. ASSUME NEW q \in Queries, DelayerStep(q) PROVE DispatcherInv'
  BY <1>0, <1>4, MoveKeeps, SMTT(60) DEF DelayerStep, Delay, OnSlotEvent, TearDown, Dispatch, Go, Becomes, TypeOK
<1>5. ASSUME NEW q \in Queries, Create(q) PROVE DispatcherInv'
  BY <1>0, <1>5, MoveKeeps DEF Create, Dispatch, Go, Becomes, TypeOK
<1>6. ASSUME NEW q \in Queries, NEW s \in {"OK", "Error", "Resend", "Again", "Flood"}, Return(q, s)
      PROVE DispatcherInv'
  BY <1>0, <1>6, MoveKeeps DEF Return, Dispatch, Go, Becomes, TypeOK
<1>7. ASSUME NEW q \in Queries, NEW d \in Dcs, CreateOwn(q, d) \/ ReturnMigrate(q, d) PROVE DispatcherInv'
  BY <1>0, <1>7, MoveKeeps DEF CreateOwn, ReturnMigrate, Dispatch, Go, Becomes, TypeOK
<1>8. CASE UNCHANGED vars
  BY <1>0, <1>8 DEF vars, netQueryVars, dcVars, DispatcherInv, ClaimsHeld, InitedOnce, SendsToSessions, NoQueryLost,
     MainFlagsAgree
<1> QED BY <1>1, <1>2, <1>3, <1>4, <1>5, <1>6, <1>7, <1>8 DEF Next

\* Whatever threads dispatch at once, and whenever stop() comes: sessions are
\* created once per data center, no query goes to an actor that is not there,
\* and the main flags agree with main_dc_id_.
THEOREM DispatcherSafe == Spec => [](TypeOK /\ InitOnce /\ NoQueryLost /\ MainFlagsAgree)
<1>1. DispatcherInv => TypeOK /\ InitOnce /\ NoQueryLost /\ MainFlagsAgree
  BY SMTT(60) DEF DispatcherInv, InitedOnce, InitOnce
<1> QED BY InitDispatcherInv, NextDispatcherInv, <1>1, PTL DEF Spec

\* wait_dc_init creates the sessions of a data center once, and together with
\* set_main_dc_id it leaves their main flag in agreement with main_dc_id_.
THEOREM SessionsMadeRightAlways == Spec => []SessionsMadeRight
<1>1. InitOnce /\ MainFlagsAgree => SessionsMadeRight
  BY DEF SessionsMadeRight
<1> QED BY DispatcherSafe, <1>1, PTL

\* dispatch() hands every query to an actor that exists, or completes it, even
\* when stop() comes between any two of its steps.
THEOREM NoQueryLostAlways == Spec => []NoQueryLost
BY DispatcherSafe, PTL

----------------------------------------------------------------------------
(* TempAuthKeyWatchdog *)

Longest == IF SyncWaitMax < ResyncDelay THEN ResyncDelay ELSE SyncWaitMax

\* No deadline is left over from a sync that was sent.
NoDeadlineUnlessDue == ~Due(needSync, runSync) => syncAt = Never

\* The timer, the deadline and the age of a sync that is due.
DeadlineKept ==
  Due(needSync, runSync) /\ ~closeFlag =>
    /\ timer # Never /\ syncAt # Never
    /\ timer <= syncAt /\ age + syncAt <= Longest

\* A query under way is one that run_sync_ tells of.
QueryMeansRun == inFlight # "none" => runSync

WatchdogInv ==
  /\ WatchdogTypeOK /\ NoDeadlineUnlessDue /\ DeadlineKept /\ QueryMeansRun
  /\ TimerWhenDue /\ IdleMeansSynced

\* What a counter becomes is a value of the counter.
LEMMA CountInRange ==
  ASSUME NEW a \in Int
  PROVE  a % Width \in 0..Width - 1
BY WatchdogAssumption, SMTT(60) DEF WatchdogAssumption

\* The initial watchdog has nothing to sync.
LEMMA WatchdogStarts == WatchdogInit => WatchdogInv
<1> SUFFICES ASSUME WatchdogInit PROVE WatchdogInv
  OBVIOUS
<1>1. idCount \in [Keys -> 0..Width - 1]
  BY WatchdogAssumption, SMTT(60) DEF WatchdogAssumption, WatchdogInit
<1>2. SyncTypeOK
  <2>1. syncAt = Never /\ timer = Never /\ age = 0 /\ resyncCount = 0
    BY DEF WatchdogInit
  <2>2. needSync \in BOOLEAN /\ runSync \in BOOLEAN
    BY DEF WatchdogInit
  <2>3. 0 \in 0..MaxResyncCount
    BY WatchdogAssumption, SMTT(60) DEF WatchdogAssumption
  <2> QED BY <2>1, <2>2, <2>3 DEF SyncTypeOK
<1>3. CallsTypeOK /\ QueryTypeOK
  <2>1. holds = [s \in Sessions |-> {}] /\ calls = [s \in Sessions |-> <<>>]
    BY DEF WatchdogInit
  <2>2. closeFlag \in BOOLEAN
    BY DEF WatchdogInit
  <2>3. listed = {} /\ acked = {} /\ inFlight = "none"
    BY DEF WatchdogInit
  <2> QED BY <2>1, <2>2, <2>3, SMTT(60) DEF CallsTypeOK, QueryTypeOK
<1>4. NoDeadlineUnlessDue /\ DeadlineKept /\ QueryMeansRun /\ TimerWhenDue
  BY DEF WatchdogInit, NoDeadlineUnlessDue, DeadlineKept, QueryMeansRun, TimerWhenDue, Due, Never
<1>5. IdleMeansSynced
  BY DEF WatchdogInit, IdleMeansSynced, Registered
<1> QED BY <1>1, <1>2, <1>3, <1>4, <1>5 DEF WatchdogInv, WatchdogTypeOK

\* try_sync keeps what WatchdogInv says of the timer and the deadline.
LEMMA TrySyncKeeps ==
  ASSUME WatchdogInv, NEW need \in BOOLEAN, NEW run \in BOOLEAN, NEW resync \in 0..MaxResyncCount,
         TrySync(need, run, resync), closeFlag' = closeFlag,
         run => runSync, needSync => need
  PROVE  /\ SyncTypeOK' /\ runSync' = run /\ (~needSync' => ~need)
         /\ NoDeadlineUnlessDue' /\ DeadlineKept' /\ TimerWhenDue'
<1> DEFINE wait == ~run /\ need
           repeat == ~run /\ ~need /\ Repeats(resync)
<1>1. /\ runSync' = run /\ needSync' = (need \/ repeat)
      /\ resyncCount' = IF repeat THEN resync - 1 ELSE resync
      /\ syncAt' = IF wait THEN SyncDeadline ELSE IF repeat THEN ResyncDelay ELSE syncAt
      /\ timer' = IF wait THEN Earlier(SyncDeadline, SyncWait)
                  ELSE IF repeat THEN ResyncDelay ELSE timer
      /\ KeepAge(need \/ repeat, run)
  BY DEF TrySync, MayArm
<1>2. repeat => resync > 0
  BY DEF Repeats
<1>3. repeat \in BOOLEAN /\ (repeat => ~wait)
  BY DEF Repeats
<1> HIDE DEF repeat, wait
<1>4. /\ syncAt \in Nat \cup {Never} /\ timer \in Nat \cup {Never} /\ age \in Nat
      /\ needSync \in BOOLEAN /\ runSync \in BOOLEAN
  BY DEF WatchdogInv, WatchdogTypeOK, SyncTypeOK
<1>5. NoDeadlineUnlessDue /\ DeadlineKept /\ TimerWhenDue
  BY DEF WatchdogInv
<1>6. SyncDeadline \in Nat /\ Longest \in Nat /\ SyncWaitMax <= Longest /\ ResyncDelay <= Longest
  BY <1>4, WatchdogAssumption, SMTT(60) DEF WatchdogAssumption, SyncDeadline, Longest, Never
<1>7. resyncCount' \in 0..MaxResyncCount
  BY <1>1, <1>2, WatchdogAssumption, SMTT(60) DEF WatchdogAssumption
<1>8. age' \in Nat /\ needSync' \in BOOLEAN /\ runSync' \in BOOLEAN
  BY <1>1, <1>3, <1>4 DEF KeepAge
<1>9. CASE wait
  <2>1. need /\ ~run
    BY <1>9 DEF wait
  <2>2. /\ needSync' /\ ~runSync' /\ syncAt' = SyncDeadline /\ syncAt' \in Nat
        /\ timer' \in Nat /\ timer' <= syncAt'
    <3>1. needSync' /\ ~runSync'
      BY <1>1, <2>1
    <3>2. syncAt' = SyncDeadline /\ timer' = Earlier(SyncDeadline, SyncWait)
      BY <1>1, <1>9
    <3> QED BY <3>1, <3>2, <1>6, WatchdogAssumption, SMTT(60) DEF WatchdogAssumption, Earlier
  <2>3. ~closeFlag => age' + syncAt' <= Longest
    <3>1. CASE Due(needSync, runSync)
      BY <1>1, <1>4, <1>5, <1>6, <2>1, <2>2, <3>1 DEF KeepAge, DeadlineKept, SyncDeadline, Due, Never
    <3>2. CASE ~Due(needSync, runSync)
      BY <1>1, <1>4, <1>5, <1>6, <2>1, <2>2, <3>2, WatchdogAssumption, SMTT(60)
         DEF WatchdogAssumption, KeepAge, NoDeadlineUnlessDue, SyncDeadline
    <3> QED BY <3>1, <3>2
  <2>4. NoDeadlineUnlessDue' /\ DeadlineKept' /\ TimerWhenDue'
    BY <2>2, <2>3, SMTT(60) DEF NoDeadlineUnlessDue, DeadlineKept, TimerWhenDue, Due, Never
  <2> QED BY <1>1, <1>7, <1>8, <2>1, <2>2, <2>4 DEF SyncTypeOK
<1>10. CASE repeat
  <2>1. ~need /\ ~run /\ ~needSync
    BY <1>10 DEF repeat
  <2>2. needSync' /\ ~runSync' /\ syncAt' = ResyncDelay /\ timer' = ResyncDelay /\ age' = 0
    BY <1>1, <1>3, <1>10, <2>1 DEF KeepAge, Due
  <2>3. NoDeadlineUnlessDue' /\ DeadlineKept' /\ TimerWhenDue'
    BY <1>6, <2>2, WatchdogAssumption, SMTT(60)
       DEF WatchdogAssumption, NoDeadlineUnlessDue, DeadlineKept, TimerWhenDue, Due, Never
  <2> QED BY <1>1, <1>7, <1>8, <2>1, <2>2, <2>3, WatchdogAssumption
          DEF WatchdogAssumption, SyncTypeOK
<1>11. CASE ~wait /\ ~repeat
  <2>1. ~Due(need, run)
    BY <1>11 DEF wait, Due
  <2>2. /\ syncAt' = syncAt /\ timer' = timer /\ needSync' = need /\ runSync' = run
    BY <1>1, <1>11
  <2>3. ~Due(needSync, runSync)
    BY <2>1, <1>4 DEF Due
  <2>4. syncAt = Never /\ timer = Never
    BY <1>5, <2>3 DEF NoDeadlineUnlessDue, TimerWhenDue
  <2>5. NoDeadlineUnlessDue' /\ DeadlineKept' /\ TimerWhenDue'
    BY <2>1, <2>2, <2>4 DEF NoDeadlineUnlessDue, DeadlineKept, TimerWhenDue, Due
  <2> QED BY <1>4, <1>7, <1>8, <2>2, <2>5 DEF SyncTypeOK
<1> QED BY <1>9, <1>10, <1>11

\* Every step keeps the invariant.
LEMMA WatchdogStep == WatchdogInv /\ [WatchdogNext]_watchdogVars => WatchdogInv'
<1> SUFFICES ASSUME WatchdogInv, [WatchdogNext]_watchdogVars PROVE WatchdogInv'
  OBVIOUS
<1> USE DEF WatchdogInv
<1>t. idCount \in [Keys -> 0..Width - 1] /\ SyncTypeOK /\ CallsTypeOK /\ QueryTypeOK
  BY DEF WatchdogTypeOK
<1>m. MaxResyncCount \in 0..MaxResyncCount
  BY WatchdogAssumption, SMTT(60) DEF WatchdogAssumption
<1>1. CASE \E s \in Sessions : HandleCall(s)
  <2> PICK s \in Sessions : HandleCall(s)
    BY <1>1
  <2>1. calls[s] \in Seq({1, -1} \X Keys) /\ calls[s] # <<>>
    BY <1>t DEF CallsTypeOK, HandleCall
  <2>2. Head(calls[s]) \in {1, -1} \X Keys /\ Tail(calls[s]) \in Seq({1, -1} \X Keys)
    BY <2>1, SMTT(60)
  <2>3. idCount' \in [Keys -> 0..Width - 1]
    <3> DEFINE d == Head(calls[s])[1]
               k == Head(calls[s])[2]
    <3>1. d \in Int /\ k \in Keys
      BY <2>2, SMTT(60)
    <3>2. idCount' = [idCount EXCEPT ![k] = (idCount[k] + d) % Width]
      BY DEF HandleCall, Count
    <3> HIDE DEF d, k
    <3>3. idCount[k] + d \in Int
      BY <3>1, <1>t, WatchdogAssumption, SMTT(60) DEF WatchdogAssumption
    <3>4. (idCount[k] + d) % Width \in 0..Width - 1
      BY <3>3, CountInRange
    <3> QED BY <3>1, <3>2, <3>4, <1>t
  <2>4. CallsTypeOK'
    BY <2>2, <1>t DEF HandleCall, CallsTypeOK
  <2>5. /\ TrySync(TRUE, runSync, MaxResyncCount) /\ closeFlag' = closeFlag
        /\ UNCHANGED <<listed, inFlight, acked>>
    BY DEF HandleCall, NeedSync, serverVars
  <2>6. runSync \in BOOLEAN
    BY <1>t DEF SyncTypeOK
  <2>7. /\ SyncTypeOK' /\ runSync' = runSync /\ (~needSync' => ~TRUE)
        /\ NoDeadlineUnlessDue' /\ DeadlineKept' /\ TimerWhenDue'
    <3> HIDE DEF WatchdogInv
    <3> QED BY <2>5, <2>6, <1>m, TrySyncKeeps
  <2>8. QueryTypeOK' /\ QueryMeansRun' /\ IdleMeansSynced'
    BY <2>5, <2>7, <1>t DEF QueryTypeOK, QueryMeansRun, IdleMeansSynced
  <2> QED BY <2>3, <2>4, <2>7, <2>8 DEF WatchdogTypeOK
<1>2. CASE \E s \in Sessions : LetGo(s)
  <2> PICK s \in Sessions : LetGo(s)
    BY <1>2
  <2>1. <<-1, CHOOSE h \in holds[s] : TRUE>> \in {1, -1} \X Keys
    BY <1>t, SMTT(60) DEF CallsTypeOK, LetGo
  <2>2. CallsTypeOK'
    BY <2>1, <1>t, SMTT(60) DEF CallsTypeOK, LetGo
  <2>3. UNCHANGED <<idCount, syncVars, closeFlag, serverVars, age>>
    BY DEF LetGo
  <2> QED BY <2>2, <2>3 DEF syncVars, serverVars, NoDeadlineUnlessDue, DeadlineKept, QueryMeansRun,
                      TimerWhenDue, IdleMeansSynced, Registered, WatchdogTypeOK, SyncTypeOK, QueryTypeOK
<1>3. CASE \E s \in Sessions, k \in Keys : TakeKey(s, k)
  <2> PICK s \in Sessions, k \in Keys : TakeKey(s, k)
    BY <1>3
  <2> DEFINE rest == IF holds[s] = {} THEN <<>> ELSE <<<<-1, CHOOSE h \in holds[s] : TRUE>>>>
  <2>1. rest \in Seq({1, -1} \X Keys)
    <3>1. CASE holds[s] = {}
      BY <3>1, SMTT(60)
    <3>2. CASE holds[s] # {}
      <4> DEFINE call == <<-1, CHOOSE h \in holds[s] : TRUE>>
      <4>1. call \in {1, -1} \X Keys
        BY <3>2, <1>t, SMTT(60) DEF CallsTypeOK
      <4>2. rest = <<call>>
        BY <3>2
      <4> HIDE DEF call, rest
      <4> QED BY <4>1, <4>2, SMTT(60)
    <3> QED BY <3>1, <3>2
  <2>2. calls' = [calls EXCEPT ![s] = calls[s] \o <<<<1, k>>>> \o rest]
    BY DEF TakeKey
  <2>3. <<1, k>> \in {1, -1} \X Keys
    OBVIOUS
  <2> HIDE DEF rest
  <2>4. calls[s] \o <<<<1, k>>>> \o rest \in Seq({1, -1} \X Keys)
    <3>1. calls[s] \in Seq({1, -1} \X Keys) /\ <<<<1, k>>>> \in Seq({1, -1} \X Keys)
      BY <2>3, <1>t, SMTT(60) DEF CallsTypeOK
    <3> QED BY <2>1, <3>1, SMTT(60)
  <2>5. CallsTypeOK'
    BY <2>2, <2>4, <1>t DEF CallsTypeOK, TakeKey
  <2>6. UNCHANGED <<idCount, syncVars, closeFlag, listed, inFlight, acked, age>>
    BY DEF TakeKey
  <2> QED BY <2>5, <2>6 DEF syncVars, NoDeadlineUnlessDue, DeadlineKept, QueryMeansRun,
                      TimerWhenDue, IdleMeansSynced, Registered, WatchdogTypeOK, SyncTypeOK, QueryTypeOK
<1>4. CASE TimeoutExpired
  <2>1. needSync /\ ~runSync
    BY <1>4, SMTT(60) DEF TimeoutExpired, TimerWhenDue, Due, Never
  <2>2. /\ timer' = Never /\ needSync' = FALSE /\ runSync' = TRUE /\ syncAt' = Never /\ age' = 0
        /\ UNCHANGED <<resyncCount, idCount, closeFlag, holds, calls, acked>>
        /\ IF closeFlag THEN UNCHANGED <<listed, inFlight>>
           ELSE listed' = Registered /\ inFlight' = "sent"
    BY <1>4, <2>1 DEF TimeoutExpired, sessionVars
  <2>3. WatchdogTypeOK'
    BY <2>2, <1>t DEF WatchdogTypeOK, SyncTypeOK, CallsTypeOK, QueryTypeOK, Registered
  <2>4. NoDeadlineUnlessDue' /\ DeadlineKept' /\ QueryMeansRun' /\ TimerWhenDue'
    BY <2>2 DEF NoDeadlineUnlessDue, DeadlineKept, QueryMeansRun, TimerWhenDue, Due
  <2>5. IdleMeansSynced'
    BY <2>2 DEF IdleMeansSynced, Registered
  <2> QED BY <2>3, <2>4, <2>5
<1>5. CASE OnResultError
  <2>1. /\ runSync /\ closeFlag' = closeFlag /\ inFlight' = "none"
        /\ UNCHANGED <<idCount, holds, calls, listed, acked>>
    BY <1>5 DEF OnResultError, QueryMeansRun, sessionVars
  <2>2. CallsTypeOK' /\ QueryTypeOK'
    BY <2>1, <1>t DEF CallsTypeOK, QueryTypeOK
  <2>3. CASE closeFlag
    <3>1. /\ runSync' = FALSE /\ UNCHANGED <<syncAt, resyncCount, needSync, timer>>
          /\ KeepAge(needSync, FALSE)
      BY <1>5, <2>3 DEF OnResultError
    <3>2. SyncTypeOK'
      BY <3>1, <1>t DEF SyncTypeOK, KeepAge
    <3>3. syncAt = Never /\ timer = Never
      BY <2>1 DEF NoDeadlineUnlessDue, TimerWhenDue, Due
    <3>4. NoDeadlineUnlessDue' /\ DeadlineKept' /\ QueryMeansRun' /\ TimerWhenDue' /\ IdleMeansSynced'
      BY <2>1, <2>3, <3>1, <3>3
         DEF NoDeadlineUnlessDue, DeadlineKept, QueryMeansRun, TimerWhenDue, IdleMeansSynced
    <3> QED BY <2>1, <2>2, <3>2, <3>4, <1>t DEF WatchdogTypeOK
  <2>4. CASE ~closeFlag
    <3>1. TrySync(TRUE, FALSE, MaxResyncCount)
      BY <1>5, <2>4 DEF OnResultError, NeedAfterError
    <3>2. /\ SyncTypeOK' /\ runSync' = FALSE /\ (~needSync' => ~TRUE)
          /\ NoDeadlineUnlessDue' /\ DeadlineKept' /\ TimerWhenDue'
      <4> HIDE DEF WatchdogInv
      <4> QED BY <2>1, <3>1, <1>m, TrySyncKeeps
    <3>3. QueryMeansRun' /\ IdleMeansSynced'
      BY <2>1, <3>2 DEF QueryMeansRun, IdleMeansSynced
    <3> QED BY <2>1, <2>2, <3>2, <3>3, <1>t DEF WatchdogTypeOK
  <2> QED BY <2>3, <2>4
<1>6. CASE OnResultOk
  <2>1. /\ runSync /\ closeFlag' = closeFlag /\ inFlight' = "none" /\ acked' = listed
        /\ TrySync(needSync, FALSE, resyncCount) /\ UNCHANGED <<idCount, holds, calls, listed>>
    BY <1>6 DEF OnResultOk, QueryMeansRun, sessionVars
  <2>2. needSync \in BOOLEAN /\ resyncCount \in 0..MaxResyncCount
    BY <1>t DEF SyncTypeOK
  <2>3. /\ SyncTypeOK' /\ runSync' = FALSE /\ (~needSync' => ~needSync)
        /\ NoDeadlineUnlessDue' /\ DeadlineKept' /\ TimerWhenDue'
    <3> HIDE DEF WatchdogInv
    <3> QED BY <2>1, <2>2, TrySyncKeeps
  <2>4. CallsTypeOK' /\ QueryTypeOK' /\ QueryMeansRun'
    BY <2>1, <1>t DEF CallsTypeOK, QueryTypeOK, QueryMeansRun
  <2>5. IdleMeansSynced'
    BY <2>1, <2>3 DEF IdleMeansSynced, Registered
  <2> QED BY <2>1, <2>3, <2>4, <2>5, <1>t DEF WatchdogTypeOK
<1>7. CASE Drop
  <2>1. /\ inFlight = "sent" /\ inFlight' = "executed"
        /\ UNCHANGED <<idCount, syncVars, closeFlag, sessionVars, listed, acked, age>>
    BY <1>7 DEF Drop
  <2> QED BY <2>1 DEF syncVars, sessionVars, WatchdogTypeOK, SyncTypeOK, CallsTypeOK, QueryTypeOK,
              NoDeadlineUnlessDue, DeadlineKept, QueryMeansRun, TimerWhenDue, IdleMeansSynced,
              Registered
<1>8. CASE Close
  <2>1. closeFlag' = TRUE /\ UNCHANGED <<idCount, syncVars, sessionVars, serverVars, age>>
    BY <1>8 DEF Close
  <2> QED BY <2>1 DEF syncVars, sessionVars, serverVars, WatchdogTypeOK, SyncTypeOK, CallsTypeOK, QueryTypeOK,
              NoDeadlineUnlessDue, DeadlineKept, QueryMeansRun, TimerWhenDue, IdleMeansSynced,
              Registered
<1>9. CASE Tick
  <2>1. /\ timer # 0 /\ timer' = Passed(timer) /\ syncAt' = Passed(syncAt)
        /\ age' = IF Due(needSync, runSync) /\ ~closeFlag THEN age + 1 ELSE 0
        /\ UNCHANGED <<idCount, resyncCount, needSync, runSync, closeFlag, holds, calls, listed,
                       inFlight, acked>>
    BY <1>9 DEF Tick, sessionVars, serverVars
  <2>2. /\ syncAt \in Nat \cup {Never} /\ timer \in Nat \cup {Never} /\ age \in Nat
    BY <1>t DEF SyncTypeOK
  <2>3. WatchdogTypeOK'
    BY <2>1, <2>2, <1>t, SMTT(60) DEF Passed, Never, WatchdogTypeOK, SyncTypeOK, CallsTypeOK, QueryTypeOK
  <2>4. NoDeadlineUnlessDue' /\ TimerWhenDue' /\ QueryMeansRun'
    BY <2>1, <2>2, SMTT(60) DEF Passed, Never, NoDeadlineUnlessDue, TimerWhenDue, QueryMeansRun, Due
  <2>5. DeadlineKept'
    <3>1. Longest \in Nat
      BY WatchdogAssumption DEF WatchdogAssumption, Longest
    <3> SUFFICES ASSUME Due(needSync, runSync), ~closeFlag
                 PROVE  /\ timer' # Never /\ syncAt' # Never
                        /\ timer' <= syncAt' /\ age' + syncAt' <= Longest
      BY <2>1 DEF DeadlineKept, Due, Longest
    <3>2. /\ timer # Never /\ syncAt # Never /\ timer <= syncAt /\ age + syncAt <= Longest
      BY DEF DeadlineKept
    <3> QED BY <2>1, <2>2, <3>1, <3>2, SMTT(60) DEF Passed, Never
  <2>6. IdleMeansSynced'
    BY <2>1 DEF IdleMeansSynced, Registered
  <2> QED BY <2>3, <2>4, <2>5, <2>6
<1>10. CASE UNCHANGED watchdogVars
  BY <1>10 DEF watchdogVars, syncVars, sessionVars, serverVars, WatchdogTypeOK, SyncTypeOK, CallsTypeOK, QueryTypeOK,
               NoDeadlineUnlessDue, DeadlineKept, QueryMeansRun, TimerWhenDue, IdleMeansSynced,
               Registered
<1> HIDE DEF WatchdogInv
<1> QED BY <1>1, <1>2, <1>3, <1>4, <1>5, <1>6, <1>7, <1>8, <1>9, <1>10 DEF WatchdogNext

\* A due sync is at most as old as its deadline allows.
LEMMA NotPostponedFollows == WatchdogInv => NotPostponed
<1> SUFFICES ASSUME WatchdogInv, Due(needSync, runSync), ~closeFlag PROVE age <= Longest
  BY DEF NotPostponed, Longest
<1>1. Longest \in Nat
  BY WatchdogAssumption DEF WatchdogAssumption, Longest
<1> QED BY <1>1, SMTT(60) DEF WatchdogInv, WatchdogTypeOK, SyncTypeOK, DeadlineKept, Never

\* try_sync, timeout_expired and on_result keep the watchdog in step: the timer
\* runs exactly while a sync is due, an idle watchdog has had exactly the keys
\* registered now confirmed, and a due sync is sent in bounded time.
THEOREM WatchdogSafe == WatchdogSpec => [](WatchdogTypeOK /\ TimerWhenDue /\ IdleMeansSynced /\ NotPostponed)
<1>1. WatchdogInv => WatchdogTypeOK /\ TimerWhenDue /\ IdleMeansSynced /\ NotPostponed
  BY NotPostponedFollows DEF WatchdogInv
<1> QED BY WatchdogStarts, WatchdogStep, <1>1, PTL DEF WatchdogSpec

\* A watchdog that is not due to sync has had exactly the keys registered now
\* named to the server, whatever calls came while a query was under way.
THEOREM IdleMeansSyncedAlways == WatchdogSpec => []IdleMeansSynced
BY WatchdogSafe, PTL

\* Calls that keep arming the timer never put a due sync off beyond the longer
\* of the two delays.
THEOREM NotPostponedAlways == WatchdogSpec => []NotPostponed
BY WatchdogSafe, PTL

----------------------------------------------------------------------------
(* SessionAuth *)

OwnQueries ==
  [id : Nat \ {0}, kind : {"bind", "check"}, tmp : Nat, main : Nat \ {0},
   result : {"none", "ok", "invalid", "error", "ttl"}, unknown : BOOLEAN]
HandshakeResults ==
  [id : {0}, kind : Kinds, tmp : Nat \ {0}, main : Nat \ {0}, result : {"ok", "error"},
   unknown : {FALSE}]
Messages == OwnQueries \cup HandshakeResults

Msgs(sort) == {i \in 1..Len(mailbox) : mailbox[i].kind = sort}

KeysTypeOK ==
  /\ mainKey \in Nat /\ tmpKey \in Nat /\ nextKey \in Nat \ {0}
  /\ nextQuery \in Nat \ {0} /\ lastBind \in Nat
  /\ cond \in [pfs : BOOLEAN, main : BOOLEAN, faults : Int, ages : Int]
  /\ tmpBound \in BOOLEAN /\ usePfs \in BOOLEAN /\ aged \in BOOLEAN
  /\ sent \subseteq OwnQueries
  /\ mailbox \in Seq(Messages)

\* A handshake is under way once, posts one result, and only for a key that is
\* missing; a temporary key that has aged is replaced while it is there.
HandshakesOK ==
  /\ running \subseteq handshakes
  /\ "main" \in handshakes => mainKey = 0
  /\ ~aged => tmpAge = "fresh" /\ ("tmp" \in handshakes => tmpKey = 0)
  /\ \A sort \in Kinds : \A i \in Msgs(sort) :
       sort \in handshakes \ running /\ \A j \in Msgs(sort) : i = j

\* Keys and queries are numbered in order, and a new key is one no query names.
Numbered ==
  /\ mainKey < nextKey /\ tmpKey < nextKey /\ lastBind < nextQuery
  /\ \A q \in sent : /\ q.tmp < nextKey /\ q.main < nextKey /\ q.id < nextQuery
                     /\ q.kind = "bind" => q.tmp # 0
  /\ \A i \in Msgs("main") : mailbox[i].result = "ok" => mailbox[i].main < nextKey
  /\ \A i \in Msgs("tmp") : mailbox[i].result = "ok" =>
       /\ mailbox[i].tmp < nextKey /\ mailbox[i].tmp # tmpKey
       /\ \A q \in sent : q.tmp # mailbox[i].tmp
  /\ \A i \in Msgs("bind") : mailbox[i].main < nextKey /\ mailbox[i].id < nextQuery

\* The last query to bind the temporary key is about the main key.
Asked ==
  \A q \in sent : q.kind = "bind" /\ q.id = lastBind /\ q.tmp = tmpKey => q.main = mainKey

\* The answer that on_bind_result takes to mean that the temporary key is bound.
AnsweredOk(i) ==
  /\ <<mailbox[i].tmp, mailbox[i].main>> \in bound
  /\ tmpKey # 0 => mailbox[i].tmp = tmpKey /\ mailbox[i].main = mainKey
  /\ \A j \in Msgs("tmp") : i < j

\* The answer that makes it drop the main key if there is no PFS.
AnsweredInvalid(i) ==
  /\ mailbox[i].main \notin knownKeys
  /\ mainKey # 0 => mailbox[i].main = mainKey
  /\ \A j \in Msgs("main") : i < j

Answers ==
  \A i \in Msgs("bind") : mailbox[i].id = lastBind =>
    /\ mailbox[i].result = "ok" /\ ~aged => AnsweredOk(i)
    /\ mailbox[i].result = "invalid" /\ ~cond.pfs => AnsweredInvalid(i)

\* auth_flag of the temporary key.
Flags ==
  /\ lastBind # 0 => ~tmpBound /\ usePfs
  /\ ~usePfs => ~tmpBound
  /\ ~aged /\ tmpBound /\ tmpKey # 0 => mainKey # 0 /\ <<tmpKey, mainKey>> \in bound

AuthInv ==
  /\ KeysTypeOK /\ HandshakesOK /\ Numbered /\ Asked /\ Answers /\ Flags
  /\ QueriesUnderBoundKey

----------------------------------------------------------------------------
(* The mailbox and the session's own queries. *)

\* The mailbox without its first message.
LEMMA TailStep ==
  ASSUME mailbox \in Seq(Messages), mailbox # <<>>, mailbox' = Tail(mailbox)
  PROVE  /\ mailbox' \in Seq(Messages)
         /\ \A sort : \A i \in Msgs(sort)' :
              i \in Nat /\ i >= 1 /\ i + 1 \in Msgs(sort) /\ mailbox'[i] = mailbox[i + 1]
         /\ Head(mailbox) = mailbox[1] /\ Head(mailbox) \in Messages
         /\ 1 \in Msgs(Head(mailbox).kind)
<1>1. /\ mailbox' \in Seq(Messages) /\ Len(mailbox) \in Nat /\ Len(mailbox) > 0
      /\ Len(mailbox') = Len(mailbox) - 1
      /\ Head(mailbox) = mailbox[1]
  BY SMTT(60)
<1>2. \A i \in 1..Len(mailbox') : i + 1 \in 1..Len(mailbox) /\ mailbox'[i] = mailbox[i + 1]
  BY SMTT(60)
<1>3. \A i \in 1..Len(mailbox') : i \in Nat /\ i >= 1
  BY <1>1, SMTT(60)
<1>4. \A sort : \A i \in Msgs(sort)' :
        i \in Nat /\ i >= 1 /\ i + 1 \in Msgs(sort) /\ mailbox'[i] = mailbox[i + 1]
  BY <1>2, <1>3 DEF Msgs
<1>5. 1 \in 1..Len(mailbox) /\ mailbox[1] \in Messages
  BY <1>1, SMTT(60)
<1>6. 1 \in Msgs(Head(mailbox).kind)
  BY <1>1, <1>5 DEF Msgs
<1> QED BY <1>1, <1>4, <1>5, <1>6

\* The mailbox with one more message.
LEMMA AppendStep ==
  ASSUME mailbox \in Seq(Messages), NEW m \in Messages, mailbox' = Append(mailbox, m)
  PROVE  /\ mailbox' \in Seq(Messages) /\ Len(mailbox) \in Nat
         /\ \A sort : \A i \in Msgs(sort)' :
              \/ i \in Msgs(sort) /\ mailbox'[i] = mailbox[i]
              \/ i = Len(mailbox) + 1 /\ mailbox'[i] = m /\ m.kind = sort
         /\ \A sort : \A i \in Msgs(sort) : i \in Nat /\ i < Len(mailbox) + 1
<1>1. /\ mailbox' \in Seq(Messages) /\ Len(mailbox) \in Nat
      /\ Len(mailbox') = Len(mailbox) + 1
      /\ mailbox'[Len(mailbox) + 1] = m
      /\ \A i \in 1..Len(mailbox) : mailbox'[i] = mailbox[i]
  BY SMTT(60)
<1>2. \A i \in 1..Len(mailbox') : i \in 1..Len(mailbox) \/ i = Len(mailbox) + 1
  BY <1>1, SMTT(60)
<1>3. \A sort : \A i \in Msgs(sort)' :
        \/ i \in Msgs(sort) /\ mailbox'[i] = mailbox[i]
        \/ i = Len(mailbox) + 1 /\ mailbox'[i] = m /\ m.kind = sort
  BY <1>1, <1>2 DEF Msgs
<1>4. \A sort : \A i \in Msgs(sort) : i \in Nat /\ i < Len(mailbox) + 1
  BY <1>1, SMTT(60) DEF Msgs
<1> QED BY <1>1, <1>3, <1>4

\* Every query that is sent after the step was sent before it.
NoNewQueries ==
  /\ sent' \subseteq OwnQueries
  /\ \A q \in sent' :
       \E p \in sent : p.id = q.id /\ p.kind = q.kind /\ p.tmp = q.tmp /\ p.main = q.main

\* on_closed leaves the queries what they are.
LEMMA LoseConnectionKeeps ==
  ASSUME sent \subseteq OwnQueries, LoseConnection \/ sent' = sent
  PROVE  NoNewQueries
<1>1. CASE sent' = sent
  BY <1>1 DEF NoNewQueries
<1>2. CASE LoseConnection
  <2>1. sent' = {[q EXCEPT !.unknown = TRUE] : q \in sent}
    BY <1>2 DEF LoseConnection
  <2> SUFFICES ASSUME NEW q \in sent'
               PROVE  /\ q \in OwnQueries
                      /\ \E p \in sent :
                           p.id = q.id /\ p.kind = q.kind /\ p.tmp = q.tmp /\ p.main = q.main
    BY DEF NoNewQueries
  <2>2. PICK p \in sent : q = [p EXCEPT !.unknown = TRUE]
    BY <2>1
  <2>3. p \in OwnQueries
    OBVIOUS
  <2>4. q \in OwnQueries /\ p.id = q.id /\ p.kind = q.kind /\ p.tmp = q.tmp /\ p.main = q.main
    BY <2>2, <2>3 DEF OwnQueries
  <2> QED BY <2>4
<1> QED BY <1>1, <1>2

\* No keys at first.
LEMMA InitAuthInv == AuthInit => AuthInv
<1> SUFFICES ASSUME AuthInit PROVE AuthInv
  OBVIOUS
<1>1. Len(mailbox) = 0 /\ mailbox \in Seq(Messages)
  BY SMTT(60) DEF AuthInit
<1>2. \A sort : Msgs(sort) = {}
  BY <1>1, SMTT(60) DEF Msgs
<1>3. cond \in [pfs : BOOLEAN, main : BOOLEAN, faults : Int, ages : Int]
  BY KeysAssumption, SMTT(60) DEF AuthInit, KeysAssumption
<1>4. KeysTypeOK
  <2>1. usePfs \in BOOLEAN
    BY <1>3 DEF AuthInit
  <2>2. /\ mainKey \in Nat /\ tmpKey \in Nat /\ nextKey \in Nat \ {0}
        /\ nextQuery \in Nat \ {0} /\ lastBind \in Nat
    BY SMTT(60) DEF AuthInit
  <2>3. tmpBound \in BOOLEAN /\ aged \in BOOLEAN /\ sent \subseteq OwnQueries
    BY DEF AuthInit
  <2> QED BY <1>1, <1>3, <2>1, <2>2, <2>3 DEF KeysTypeOK
<1>5. HandshakesOK /\ Numbered /\ Asked
  BY <1>2, SMTT(60) DEF AuthInit, HandshakesOK, Numbered, Asked
<1>6. Answers /\ Flags
  BY <1>2 DEF AuthInit, Answers, Flags
<1>7. QueriesUnderBoundKey
  BY DEF AuthInit, QueriesUnderBoundKey, QueriesAlwaysUnderBoundKey
<1> QED BY <1>4, <1>5, <1>6, <1>7 DEF AuthInv

\* What kind of message is which.
LEMMA MessageKinds ==
  ASSUME KeysTypeOK
  PROVE  /\ \A i \in Msgs("bind") : mailbox[i] \in OwnQueries /\ mailbox[i].id # 0
         /\ \A sort \in Kinds : \A i \in Msgs(sort) : mailbox[i] \in HandshakeResults
<1>1. \A i \in 1..Len(mailbox) : mailbox[i] \in OwnQueries \cup HandshakeResults
  BY SMTT(60) DEF KeysTypeOK, Messages
<1> QED BY <1>1 DEF Msgs, OwnQueries, HandshakeResults, Kinds

----------------------------------------------------------------------------
(* Steps that leave the mailbox alone. *)

\* A step that posts nothing, sends nothing and binds nothing may give keys up: the
\* temporary key at any time, the main key with it or while there is no PFS.
LEMMA StillStep ==
  ASSUME AuthInv, mailbox' = mailbox, NoNewQueries, nextKey' = nextKey, nextQuery' = nextQuery,
         lastBind' = lastBind, bound' = bound, handshakes' = handshakes, running' = running,
         aged' = aged, knownKeys' \subseteq knownKeys,
         cond' \in [pfs : BOOLEAN, main : BOOLEAN, faults : Int, ages : Int], cond'.pfs = cond.pfs,
         tmpKey' \in {tmpKey, 0}, mainKey' \in {mainKey, 0},
         usePfs' \in BOOLEAN, usePfs => usePfs',
         tmpBound' \in BOOLEAN, tmpBound' => tmpBound /\ tmpKey' = tmpKey,
         mainKey' # mainKey => tmpKey' = 0 \/ ~usePfs,
         ~aged => tmpAge' = "fresh", QueriesUnderBoundKey'
  PROVE  AuthInv'
<1>0. KeysTypeOK /\ HandshakesOK /\ Numbered /\ Asked /\ Answers /\ Flags
  BY DEF AuthInv
<1>1. KeysTypeOK'
  BY <1>0, SMTT(60) DEF KeysTypeOK, NoNewQueries, OwnQueries, Messages, HandshakeResults, Kinds
<1>2. \A sort : Msgs(sort)' = Msgs(sort)
  BY DEF Msgs
<1>3. HandshakesOK'
  BY <1>0, <1>2 DEF HandshakesOK
<1>4. /\ \A i \in Msgs("bind") : mailbox[i].id # 0
      /\ \A i \in Msgs("tmp") : mailbox[i].tmp # 0
  BY <1>0, MessageKinds DEF Kinds, HandshakeResults
<1>5. Numbered'
  <2>1. mainKey' < nextKey' /\ tmpKey' < nextKey' /\ lastBind' < nextQuery'
    BY <1>0, SMTT(60) DEF Numbered, KeysTypeOK
  <2>2. \A q \in sent' : /\ q.tmp < nextKey' /\ q.main < nextKey' /\ q.id < nextQuery'
                         /\ q.kind = "bind" => q.tmp # 0
    BY <1>0, SMTT(60) DEF Numbered, NoNewQueries
  <2>3. \A i \in Msgs("tmp") : mailbox[i].result = "ok" => \A q \in sent' : q.tmp # mailbox[i].tmp
    BY <1>0, SMTT(60) DEF Numbered, NoNewQueries
  <2> QED BY <1>0, <1>2, <1>4, <2>1, <2>2, <2>3 DEF Numbered
<1>6. Flags'
  BY <1>0 DEF Flags
<1>7. lastBind # 0 /\ tmpKey' # 0 => tmpKey' = tmpKey /\ mainKey' = mainKey
  BY <1>0 DEF Flags
<1>8. Asked'
  <2> SUFFICES ASSUME NEW q \in sent', q.kind = "bind", q.id = lastBind, q.tmp = tmpKey'
               PROVE  q.main = mainKey'
    BY DEF Asked
  <2>1. PICK p \in sent : p.id = q.id /\ p.kind = q.kind /\ p.tmp = q.tmp /\ p.main = q.main
    BY DEF NoNewQueries
  <2>2. p.id # 0 /\ p.tmp # 0
    BY <1>0, <2>1 DEF KeysTypeOK, OwnQueries, Numbered
  <2> QED BY <1>0, <1>7, <2>1, <2>2 DEF Asked
<1>9. Answers'
  <2> SUFFICES ASSUME NEW i \in Msgs("bind"), mailbox[i].id = lastBind
               PROVE  /\ mailbox[i].result = "ok" /\ ~aged => AnsweredOk(i)'
                      /\ mailbox[i].result = "invalid" /\ ~cond.pfs => AnsweredInvalid(i)'
    BY <1>2 DEF Answers
  <2>1. lastBind # 0
    BY <1>4
  <2>2. ASSUME AnsweredOk(i) PROVE AnsweredOk(i)'
    BY <1>2, <1>7, <2>1, <2>2 DEF AnsweredOk
  <2>3. ASSUME AnsweredInvalid(i) PROVE AnsweredInvalid(i)'
    BY <1>2, <2>3 DEF AnsweredInvalid
  <2> QED BY <1>0, <2>2, <2>3 DEF Answers
<1> QED BY <1>1, <1>3, <1>5, <1>6, <1>8, <1>9 DEF AuthInv

\* Queries that were sent stay sent under a key that is bound.
LEMMA UsedKeeps ==
  ASSUME QueriesUnderBoundKey, usedUnder' = usedUnder, bound \subseteq bound', ~aged' => ~aged
  PROVE  QueriesUnderBoundKey'
BY DEF QueriesUnderBoundKey, QueriesAlwaysUnderBoundKey

\* A step that leaves the keys of the session alone.
LEMMA KeysStayStep ==
  ASSUME AuthInv, UNCHANGED clientVars, UNCHANGED <<lastBind, handshakes, running, mailbox, nextKey,
                                                 nextQuery, bound, usedUnder, aged>>,
         NoNewQueries, knownKeys' \subseteq knownKeys, cond' = cond \/ OneFault
  PROVE  AuthInv'
<1>1. KeysTypeOK /\ QueriesUnderBoundKey /\ HandshakesOK
  BY DEF AuthInv
<1>2. /\ cond' \in [pfs : BOOLEAN, main : BOOLEAN, faults : Int, ages : Int]
      /\ cond'.pfs = cond.pfs
  BY <1>1, SMTT(60) DEF KeysTypeOK, OneFault
<1>3. /\ mainKey' = mainKey /\ tmpKey' = tmpKey /\ tmpBound' = tmpBound /\ tmpAge' = tmpAge
      /\ usePfs' = usePfs
  BY DEF clientVars
<1>4. QueriesUnderBoundKey'
  BY <1>1, UsedKeeps
<1>5. tmpBound' \in BOOLEAN /\ usePfs' \in BOOLEAN
  BY <1>1, <1>3 DEF KeysTypeOK
<1>6. ~aged => tmpAge' = "fresh"
  BY <1>1, <1>3 DEF HandshakesOK
<1> QED BY <1>2, <1>3, <1>4, <1>5, <1>6, StillStep

\* loop() when it opens a connection or closes it, and the server when it loses a
\* key or the connection.
LEMMA ConnectionsKeep ==
  ASSUME AuthInv, \/ Connect \/ FlushWithoutKey \/ OnClosed \/ Revoke
               \/ \E k \in KeyIds : ServerLosesKey(k)
  PROVE  AuthInv'
<1>1. UNCHANGED clientVars /\ UNCHANGED <<lastBind, handshakes, running, mailbox, nextKey,
                                          nextQuery, bound, usedUnder, aged>>
  BY DEF Connect, FlushWithoutKey, OnClosed, Revoke, ServerLosesKey, queryVars
<1>2. NoNewQueries
  <2>1. sent \subseteq OwnQueries
    BY DEF AuthInv, KeysTypeOK
  <2>2. LoseConnection \/ sent' = sent
    BY DEF Connect, FlushWithoutKey, OnClosed, Revoke, ServerLosesKey
  <2> QED BY <2>1, <2>2, LoseConnectionKeeps
<1>3. knownKeys' \subseteq knownKeys
  BY DEF Connect, FlushWithoutKey, OnClosed, Revoke, ServerLosesKey
<1>4. cond' = cond \/ OneFault
  BY DEF Connect, FlushWithoutKey, OnClosed, Revoke, ServerLosesKey
<1> QED BY <1>1, <1>2, <1>3, <1>4, KeysStayStep

\* loop() sends queries under a key that is bound.
LEMMA SendQueriesKeeps == ASSUME AuthInv, SendQueries PROVE AuthInv'
<1>1. KeysTypeOK /\ QueriesUnderBoundKey /\ HandshakesOK /\ Flags
  BY DEF AuthInv
<1>2. /\ UNCHANGED clientVars
      /\ UNCHANGED <<lastBind, handshakes, running, mailbox, nextKey, nextQuery, bound, aged, sent,
                     knownKeys, cond>>
      /\ usedUnder' = usedUnder \cup {<<AuthKey, mainKey>>}
      /\ IsReady /\ NeedSendQuery
  BY DEF SendQueries, queryVars
<1>3. NoNewQueries
  BY <1>1, <1>2, LoseConnectionKeeps DEF KeysTypeOK
<1>4. /\ mainKey' = mainKey /\ tmpKey' = tmpKey /\ tmpBound' = tmpBound /\ tmpAge' = tmpAge
      /\ usePfs' = usePfs
  BY <1>2 DEF clientVars
<1>5. QueriesUnderBoundKey'
  <2> SUFFICES ASSUME ~aged, NEW u \in usedUnder', u[1] # u[2] PROVE u \in bound
    BY <1>2 DEF QueriesUnderBoundKey, QueriesAlwaysUnderBoundKey
  <2>1. CASE u \in usedUnder
    BY <1>1, <2>1 DEF QueriesUnderBoundKey, QueriesAlwaysUnderBoundKey
  <2>2. CASE u = <<AuthKey, mainKey>>
    <3>1. AuthKey # mainKey
      BY <2>2
    <3>2. usePfs /\ AuthKey = tmpKey
      BY <3>1 DEF AuthKey
    <3>3. tmpKey # 0 /\ tmpBound
      BY <1>2, <3>2 DEF IsReady, HasTmpKey, NeedSendQuery, BindFlag
    <3> QED BY <1>1, <2>2, <3>2, <3>3 DEF Flags
  <2> QED BY <1>2, <2>1, <2>2
<1>6. tmpBound' \in BOOLEAN /\ usePfs' \in BOOLEAN
  BY <1>1, <1>4 DEF KeysTypeOK
<1>7. ~aged => tmpAge' = "fresh"
  BY <1>1, <1>4 DEF HandshakesOK
<1>8. cond' \in [pfs : BOOLEAN, main : BOOLEAN, faults : Int, ages : Int] /\ cond'.pfs = cond.pfs
  BY <1>1, <1>2 DEF KeysTypeOK
<1> QED BY <1>2, <1>3, <1>4, <1>5, <1>6, <1>7, <1>8, StillStep

\* The session gives up a key.
LEMMA KeysGivenUpKeeps ==
  ASSUME AuthInv, OnClosed404 \/ OnPermEmpty \/ OnUnauthorized
  PROVE  AuthInv'
<1>1. KeysTypeOK /\ QueriesUnderBoundKey /\ HandshakesOK
  BY DEF AuthInv
<1>2. UNCHANGED <<lastBind, handshakes, running, mailbox, nextKey, nextQuery, bound, usedUnder, aged,
                  knownKeys>>
  BY DEF OnClosed404, OnPermEmpty, OnUnauthorized, queryVars
<1>3. NoNewQueries
  <2>1. LoseConnection \/ sent' = sent
    BY DEF OnClosed404, OnPermEmpty, OnUnauthorized
  <2> QED BY <1>1, <2>1, LoseConnectionKeeps DEF KeysTypeOK
<1>4. /\ cond' \in [pfs : BOOLEAN, main : BOOLEAN, faults : Int, ages : Int]
      /\ cond'.pfs = cond.pfs
  <2>1. cond' = cond \/ OneFault
    BY DEF OnClosed404, OnPermEmpty, OnUnauthorized
  <2> QED BY <1>1, <2>1, SMTT(60) DEF KeysTypeOK, OneFault
<1>5. QueriesUnderBoundKey'
  BY <1>1, <1>2, UsedKeeps
<1>6. tmpKey' \in {tmpKey, 0} /\ mainKey' \in {mainKey, 0}
  BY DEF OnClosed404, OnPermEmpty, OnUnauthorized
<1>7. usePfs' \in BOOLEAN /\ (usePfs => usePfs')
  BY <1>1 DEF OnClosed404, OnPermEmpty, OnUnauthorized, KeysTypeOK
<1>8. tmpBound' \in BOOLEAN /\ (tmpBound' => tmpBound /\ tmpKey' = tmpKey)
  <2>1. CASE OnClosed404 \/ OnPermEmpty
    <3>1. tmpBound' = FALSE \/ (tmpBound' = tmpBound /\ tmpKey' = tmpKey)
      BY <2>1 DEF OnClosed404, OnPermEmpty
    <3>2. tmpBound \in BOOLEAN
      BY <1>1 DEF KeysTypeOK
    <3>3. CASE tmpBound' = FALSE
      BY <3>3
    <3>4. CASE tmpBound' = tmpBound /\ tmpKey' = tmpKey
      <4>1. tmpBound' \in BOOLEAN
        BY <3>2, <3>4
      <4> QED BY <3>4, <4>1
    <3> QED BY <3>1, <3>3, <3>4
  <2>2. CASE OnUnauthorized
    <3>1. tmpBound' = (tmpBound /\ tmpKey' # 0)
      BY <2>2 DEF OnUnauthorized
    <3> QED BY <1>6, <3>1
  <2> QED BY <2>1, <2>2
<1>9. mainKey' # mainKey => tmpKey' = 0 \/ ~usePfs
  BY DEF OnClosed404, OnPermEmpty, OnUnauthorized
<1>10. ~aged => tmpAge' = "fresh"
  BY <1>1 DEF OnClosed404, OnPermEmpty, OnUnauthorized, HandshakesOK
<1> QED BY <1>2, <1>3, <1>4, <1>5, <1>6, <1>7, <1>8, <1>9, <1>10, StillStep

\* auth_loop starts a handshake for a key that is missing.
LEMMA StartHandshakeKeeps ==
  ASSUME AuthInv, NEW sort \in Kinds, StartHandshake(sort)
  PROVE  AuthInv'
<1>0. /\ KeysTypeOK /\ HandshakesOK /\ Numbered /\ Asked /\ Answers /\ Flags
      /\ QueriesUnderBoundKey
  BY DEF AuthInv
<1>1. /\ handshakes' = handshakes \cup {sort} /\ running' = running \cup {sort}
      /\ sort \notin handshakes /\ NeedHandshake(sort)
      /\ UNCHANGED <<mainKey, tmpKey, tmpBound, tmpAge, usePfs, lastBind, sent, mailbox, nextKey,
                     nextQuery, knownKeys, bound, usedUnder, cond, aged>>
  BY DEF StartHandshake, clientVars, queryVars
<1>2. \A k : Msgs(k)' = Msgs(k)
  BY <1>1 DEF Msgs
<1>3. HandshakesOK'
  BY <1>0, <1>1, <1>2 DEF HandshakesOK, NeedHandshake, Kinds
<1>4. KeysTypeOK'
  BY <1>0, <1>1 DEF KeysTypeOK, OwnQueries, Messages, HandshakeResults, Kinds
<1>5. Numbered' /\ Asked' /\ Flags'
  BY <1>0, <1>1, <1>2 DEF Numbered, Asked, Flags
<1>6. Answers'
  BY <1>0, <1>1, <1>2 DEF Answers, AnsweredOk, AnsweredInvalid
<1>7. QueriesUnderBoundKey'
  BY <1>0, <1>1, UsedKeeps
<1> QED BY <1>3, <1>4, <1>5, <1>6, <1>7 DEF AuthInv

\* A temporary key that ages.
LEMMA AgeKeeps == ASSUME AuthInv, Age PROVE AuthInv'
<1>0. /\ KeysTypeOK /\ HandshakesOK /\ Numbered /\ Asked /\ Answers /\ Flags
      /\ QueriesUnderBoundKey
  BY DEF AuthInv
<1>1. /\ aged' = TRUE /\ cond' = [cond EXCEPT !.ages = @ - 1]
      /\ UNCHANGED <<mainKey, tmpKey, tmpBound, usePfs, lastBind, sent, mailbox, nextKey, nextQuery,
                     knownKeys, bound, usedUnder, handshakes, running>>
  BY DEF Age, queryVars
<1>2. \A k : Msgs(k)' = Msgs(k)
  BY <1>1 DEF Msgs
<1>3. /\ cond' \in [pfs : BOOLEAN, main : BOOLEAN, faults : Int, ages : Int]
      /\ cond'.pfs = cond.pfs
  BY <1>0, <1>1, SMTT(60) DEF KeysTypeOK
<1>4. KeysTypeOK'
  BY <1>0, <1>1, <1>3 DEF KeysTypeOK, OwnQueries, Messages, HandshakeResults, Kinds
<1>5. HandshakesOK' /\ Numbered' /\ Asked' /\ Flags'
  BY <1>0, <1>1, <1>2 DEF HandshakesOK, Numbered, Asked, Flags
<1>6. Answers'
  BY <1>0, <1>1, <1>2, <1>3 DEF Answers, AnsweredInvalid
<1>7. QueriesUnderBoundKey'
  BY <1>1 DEF QueriesUnderBoundKey
<1> QED BY <1>4, <1>5, <1>6, <1>7 DEF AuthInv

\* The session asks for a key to be bound, or whether the main key is known.
LEMMA OwnQueriesKeep ==
  ASSUME AuthInv, SendBindKey \/ SendCheckMainKey
  PROVE  AuthInv'
<1>0. /\ KeysTypeOK /\ HandshakesOK /\ Numbered /\ Asked /\ Answers /\ Flags
      /\ QueriesUnderBoundKey
  BY DEF AuthInv
<1>1. /\ nextQuery' = nextQuery + 1 /\ IsReady
      /\ UNCHANGED <<mainKey, tmpKey, tmpBound, tmpAge, usePfs, mailbox, nextKey,
                     knownKeys, bound, usedUnder, handshakes, running, cond, aged>>
  BY DEF SendBindKey, SendCheckMainKey, clientVars
<1>2. PICK p :
        /\ p \in OwnQueries /\ sent' = sent \cup {p} /\ p.id = nextQuery /\ p.main = mainKey
        /\ p.tmp \in {tmpKey, 0} /\ (p.kind = "bind" => p.tmp = tmpKey /\ tmpKey # 0)
        /\ \/ p.kind = "bind" /\ lastBind' = nextQuery /\ usePfs /\ ~tmpBound
           \/ p.kind = "check" /\ lastBind' = lastBind
  <2>1. CASE SendBindKey
    <3> DEFINE q == [id |-> nextQuery, kind |-> "bind", tmp |-> tmpKey, main |-> mainKey,
                     result |-> "none", unknown |-> FALSE]
    <3>1. sent' = sent \cup {q} /\ lastBind' = nextQuery
      BY <2>1 DEF SendBindKey
    <3>2. usePfs /\ ~tmpBound /\ mainKey # 0 /\ tmpKey # 0
      BY <1>1, <2>1 DEF SendBindKey, BindFlag, IsReady, HasTmpKey
    <3>3. q \in OwnQueries
      BY <1>0, <3>2 DEF OwnQueries, KeysTypeOK
    <3>4. q.id = nextQuery /\ q.main = mainKey /\ q.tmp = tmpKey /\ q.kind = "bind"
      OBVIOUS
    <3> HIDE DEF q
    <3> QED BY <3>1, <3>2, <3>3, <3>4
  <2>2. CASE SendCheckMainKey
    <3> DEFINE q == [id |-> nextQuery, kind |-> "check", tmp |-> 0, main |-> mainKey,
                     result |-> "none", unknown |-> FALSE]
    <3>1. sent' = sent \cup {q} /\ lastBind' = lastBind
      BY <2>2 DEF SendCheckMainKey
    <3>2. mainKey # 0
      BY <1>1 DEF IsReady
    <3>3. q \in OwnQueries
      BY <1>0, <3>2 DEF OwnQueries, KeysTypeOK
    <3>4. q.id = nextQuery /\ q.main = mainKey /\ q.tmp = 0 /\ q.kind = "check"
      OBVIOUS
    <3> HIDE DEF q
    <3> QED BY <3>1, <3>3, <3>4
  <2> QED BY <2>1, <2>2
<1>3. \A k : Msgs(k)' = Msgs(k)
  BY <1>1 DEF Msgs
<1>4. nextQuery \in Nat \ {0} /\ lastBind' \in Nat /\ lastBind' < nextQuery' /\ nextQuery' \in Nat \ {0}
  BY <1>0, <1>1, <1>2, SMTT(60) DEF KeysTypeOK, Numbered
<1>5. KeysTypeOK'
  <2>1. sent' \subseteq OwnQueries /\ mailbox' \in Seq(Messages)
    BY <1>0, <1>1, <1>2 DEF KeysTypeOK
  <2>2. OwnQueries' = OwnQueries /\ Messages' = Messages
    BY DEF OwnQueries, Messages, HandshakeResults, Kinds
  <2> QED BY <1>0, <1>1, <1>4, <2>1, <2>2 DEF KeysTypeOK
<1>6. HandshakesOK'
  BY <1>0, <1>1, <1>3 DEF HandshakesOK
<1>7. Numbered'
  <2>1. \A q \in sent' : /\ q.tmp < nextKey' /\ q.main < nextKey' /\ q.id < nextQuery'
                         /\ q.kind = "bind" => q.tmp # 0
    BY <1>0, <1>1, <1>2, <1>4, SMTT(60) DEF Numbered, KeysTypeOK, OwnQueries
  <2>2. \A i \in Msgs("tmp") : mailbox[i].tmp # 0
    BY <1>0, MessageKinds DEF Kinds, HandshakeResults
  <2>3. \A i \in Msgs("tmp") : mailbox[i].result = "ok" => \A q \in sent' : q.tmp # mailbox[i].tmp
    BY <1>0, <1>2, <2>2 DEF Numbered
  <2>4. \A i \in Msgs("bind") : mailbox[i].id < nextQuery'
    BY <1>0, <1>1, <1>4, MessageKinds, SMTT(60) DEF Numbered, OwnQueries
  <2> QED BY <1>0, <1>1, <1>3, <1>4, <2>1, <2>3, <2>4 DEF Numbered
<1>8. Flags'
  BY <1>0, <1>1, <1>2 DEF Flags
<1>9. Asked'
  BY <1>0, <1>1, <1>2, <1>4, SMTT(60) DEF Asked, Numbered
<1>10. Answers'
  <2>1. ASSUME NEW i \in Msgs("bind"), mailbox[i].id = lastBind' PROVE lastBind' = lastBind
    BY <1>0, <1>2, <1>4, <2>1, SMTT(60) DEF Numbered
  <2>2. \A i : AnsweredOk(i)' = AnsweredOk(i) /\ AnsweredInvalid(i)' = AnsweredInvalid(i)
    BY <1>1, <1>3 DEF AnsweredOk, AnsweredInvalid
  <2> QED BY <1>0, <1>1, <1>3, <2>1, <2>2 DEF Answers
<1>11. QueriesUnderBoundKey'
  BY <1>0, <1>1, UsedKeeps
<1> QED BY <1>5, <1>6, <1>7, <1>8, <1>9, <1>10, <1>11 DEF AuthInv

----------------------------------------------------------------------------
(* Steps that take the head of the mailbox. *)

\* What they leave of the other messages, if a key that is replaced comes with the
\* message.
LEMMA TakeStep ==
  ASSUME KeysTypeOK, HandshakesOK, Numbered, mailbox # <<>>, mailbox' = Tail(mailbox), NoNewQueries,
         UNCHANGED <<running, nextKey, nextQuery, aged>>,
         lastBind' \in {lastBind, 0}, ~aged => tmpAge' = "fresh",
         NEW k, k = Head(mailbox).kind,
         \/ handshakes' = handshakes /\ k \notin Kinds
         \/ handshakes' = handshakes \ {k} /\ k \in Kinds,
         \/ mainKey' \in {mainKey, 0}
         \/ k = "main" /\ Head(mailbox).result = "ok" /\ mainKey' = Head(mailbox).main,
         \/ tmpKey' = tmpKey
         \/ k = "tmp" /\ Head(mailbox).result = "ok" /\ tmpKey' = Head(mailbox).tmp
  PROVE  HandshakesOK' /\ Numbered'
<1>1. mailbox \in Seq(Messages)
  BY DEF KeysTypeOK
<1>2. /\ \A sort : \A i \in Msgs(sort)' :
           i \in Nat /\ i >= 1 /\ i + 1 \in Msgs(sort) /\ mailbox'[i] = mailbox[i + 1]
      /\ Head(mailbox) = mailbox[1] /\ 1 \in Msgs(k)
  BY <1>1, TailStep
<1>3. k \in Kinds => Msgs(k)' = {}
  <2> SUFFICES ASSUME k \in Kinds, NEW i \in Msgs(k)' PROVE FALSE
    OBVIOUS
  <2>1. i \in Nat /\ i >= 1 /\ i + 1 \in Msgs(k)
    BY <1>2
  <2>2. i + 1 = 1
    BY <1>2, <2>1 DEF HandshakesOK
  <2> QED BY <2>1, <2>2, SMTT(60)
<1>4. HandshakesOK'
  <2>1. running' \subseteq handshakes'
    <3>1. k \in Kinds => k \notin running
      BY <1>2 DEF HandshakesOK
    <3> QED BY <3>1 DEF HandshakesOK
  <2>2. "main" \in handshakes' => mainKey' = 0
    BY DEF HandshakesOK, Kinds
  <2>3. ~aged' => tmpAge' = "fresh" /\ ("tmp" \in handshakes' => tmpKey' = 0)
    BY DEF HandshakesOK, Kinds
  <2>4. ASSUME NEW sort \in Kinds, NEW i \in Msgs(sort)'
        PROVE  sort \in handshakes' \ running' /\ \A j \in Msgs(sort)' : i = j
    <3>1. sort # k
      BY <1>3, <2>4
    <3>2. sort \in handshakes \ running
      BY <1>2, <2>4 DEF HandshakesOK
    <3>3. ASSUME NEW j \in Msgs(sort)' PROVE i = j
      <4>1. i + 1 = j + 1
        BY <1>2, <2>4, <3>3, SMTT(60) DEF HandshakesOK
      <4> QED BY <1>2, <2>4, <3>3, <4>1, SMTT(60)
    <3> QED BY <3>1, <3>2, <3>3
  <2> QED BY <2>1, <2>2, <2>3, <2>4 DEF HandshakesOK
<1>5. Numbered'
  <2>1. mainKey' < nextKey' /\ tmpKey' < nextKey' /\ lastBind' < nextQuery'
    BY <1>2, SMTT(60) DEF Numbered, KeysTypeOK
  <2>2. \A q \in sent' : /\ q.tmp < nextKey' /\ q.main < nextKey' /\ q.id < nextQuery'
                         /\ q.kind = "bind" => q.tmp # 0
    BY SMTT(60) DEF Numbered, NoNewQueries
  <2>3. ASSUME NEW i \in Msgs("main")', mailbox'[i].result = "ok"
        PROVE  mailbox'[i].main < nextKey'
    <3>1. i + 1 \in Msgs("main") /\ mailbox'[i] = mailbox[i + 1]
      BY <1>2, <2>3
    <3>2. mailbox[i + 1].main < nextKey
      BY <2>3, <3>1 DEF Numbered
    <3> QED BY <3>1, <3>2
  <2>4. ASSUME NEW i \in Msgs("tmp")', mailbox'[i].result = "ok"
        PROVE  /\ mailbox'[i].tmp < nextKey' /\ mailbox'[i].tmp # tmpKey'
               /\ \A q \in sent' : q.tmp # mailbox'[i].tmp
    <3>1. k # "tmp"
      BY <1>3, <2>4 DEF Kinds
    <3>2. /\ mailbox[i + 1].tmp < nextKey /\ mailbox[i + 1].tmp # tmpKey
          /\ \A q \in sent : q.tmp # mailbox[i + 1].tmp
      BY <1>2, <2>4 DEF Numbered
    <3>3. mailbox'[i] = mailbox[i + 1]
      BY <1>2, <2>4
    <3> QED BY <3>1, <3>2, <3>3 DEF NoNewQueries
  <2>5. ASSUME NEW i \in Msgs("bind")'
        PROVE  mailbox'[i].main < nextKey' /\ mailbox'[i].id < nextQuery'
    <3>1. i + 1 \in Msgs("bind") /\ mailbox'[i] = mailbox[i + 1]
      BY <1>2, <2>5
    <3>2. mailbox[i + 1].main < nextKey /\ mailbox[i + 1].id < nextQuery
      BY <3>1 DEF Numbered
    <3> QED BY <3>1, <3>2
  <2> QED BY <2>1, <2>2, <2>3, <2>4, <2>5 DEF Numbered
<1> QED BY <1>4, <1>5

\* A message that brings a key comes after the answers about the key before it.
LEMMA TakeAnswers ==
  ASSUME KeysTypeOK, Answers, mailbox # <<>>, mailbox' = Tail(mailbox),
         UNCHANGED <<bound, knownKeys, lastBind, aged, cond>>,
         \/ tmpKey' = tmpKey /\ (mainKey' = mainKey \/ mainKey = 0)
         \/ 1 \in Msgs("tmp"),
         mainKey' = mainKey \/ 1 \in Msgs("main")
  PROVE  Answers'
<1>1. mailbox \in Seq(Messages)
  BY DEF KeysTypeOK
<1>2. \A sort : \A i \in Msgs(sort)' :
        i \in Nat /\ i >= 1 /\ i + 1 \in Msgs(sort) /\ mailbox'[i] = mailbox[i + 1]
  BY <1>1, TailStep
<1> SUFFICES ASSUME NEW i \in Msgs("bind")', mailbox'[i].id = lastBind
             PROVE  /\ mailbox'[i].result = "ok" /\ ~aged => AnsweredOk(i)'
                    /\ mailbox'[i].result = "invalid" /\ ~cond.pfs => AnsweredInvalid(i)'
  BY DEF Answers
<1>3. i \in Nat /\ i >= 1 /\ i + 1 \in Msgs("bind") /\ mailbox'[i] = mailbox[i + 1]
  BY <1>2
<1>4. mailbox[i + 1].main # 0
  BY <1>3, MessageKinds DEF OwnQueries
<1>5. ASSUME AnsweredOk(i + 1) PROVE AnsweredOk(i)'
  <2>1. 1 \notin Msgs("tmp")
    BY <1>3, <1>5, SMTT(60) DEF AnsweredOk
  <2>2. tmpKey' # 0 => mailbox'[i].tmp = tmpKey' /\ mailbox'[i].main = mainKey'
    BY <1>3, <1>4, <1>5, <2>1 DEF AnsweredOk
  <2>3. \A j \in Msgs("tmp")' : i < j
    BY <1>2, <1>3, <1>5, SMTT(60) DEF AnsweredOk
  <2> QED BY <1>3, <1>5, <2>2, <2>3 DEF AnsweredOk
<1>6. ASSUME AnsweredInvalid(i + 1) PROVE AnsweredInvalid(i)'
  <2>1. 1 \notin Msgs("main")
    BY <1>3, <1>6, SMTT(60) DEF AnsweredInvalid
  <2>2. mainKey' # 0 => mailbox'[i].main = mainKey'
    BY <1>3, <1>6, <2>1 DEF AnsweredInvalid
  <2>3. \A j \in Msgs("main")' : i < j
    BY <1>2, <1>3, <1>6, SMTT(60) DEF AnsweredInvalid
  <2> QED BY <1>3, <1>6, <2>2, <2>3 DEF AnsweredInvalid
<1> QED BY <1>3, <1>5, <1>6 DEF Answers

\* on_handshake_ready for the main key: there was none.
LEMMA MainReadyKeeps == ASSUME AuthInv, OnHandshakeReady("main") PROVE AuthInv'
<1>0. /\ KeysTypeOK /\ HandshakesOK /\ Numbered /\ Asked /\ Answers /\ Flags
      /\ QueriesUnderBoundKey
  BY DEF AuthInv
<1>1. /\ mailbox # <<>> /\ Head(mailbox).kind = "main" /\ Head(mailbox).result = "ok"
      /\ mailbox' = Tail(mailbox) /\ handshakes' = handshakes \ {"main"}
      /\ mainKey' = Head(mailbox).main
      /\ UNCHANGED <<tmpKey, tmpBound, tmpAge, usePfs, lastBind, running, nextKey, nextQuery,
                     knownKeys, bound, usedUnder, cond, aged>>
      /\ LoseConnection \/ sent' = sent
  BY DEF OnHandshakeReady, First, queryVars
<1>2. NoNewQueries
  BY <1>0, <1>1, LoseConnectionKeeps DEF KeysTypeOK
<1>3. /\ mailbox' \in Seq(Messages) /\ Head(mailbox) = mailbox[1] /\ 1 \in Msgs("main")
  BY <1>0, <1>1, TailStep DEF KeysTypeOK
<1>4. mainKey = 0
  BY <1>0, <1>3 DEF HandshakesOK, Kinds
<1>5. mainKey' \in Nat
  BY <1>0, <1>1, <1>3, MessageKinds DEF HandshakeResults, Kinds
<1>6. KeysTypeOK'
  BY <1>0, <1>1, <1>2, <1>3, <1>5
     DEF KeysTypeOK, NoNewQueries, OwnQueries, Messages, HandshakeResults, Kinds
<1>7. HandshakesOK' /\ Numbered'
  <2>1. ~aged => tmpAge' = "fresh"
    BY <1>0, <1>1 DEF HandshakesOK
  <2> QED BY <1>0, <1>1, <1>2, <2>1, TakeStep DEF Kinds
<1>8. Asked'
  <2> SUFFICES ASSUME NEW q \in sent', q.kind = "bind", q.id = lastBind', q.tmp = tmpKey'
               PROVE  FALSE
    BY DEF Asked
  <2>1. PICK p \in sent : p.id = q.id /\ p.kind = q.kind /\ p.tmp = q.tmp /\ p.main = q.main
    BY <1>2 DEF NoNewQueries
  <2>2. p.main # 0
    BY <1>0, <2>1 DEF KeysTypeOK, OwnQueries
  <2> QED BY <1>0, <1>1, <1>4, <2>1, <2>2 DEF Asked
<1>9. Answers'
  BY <1>0, <1>1, <1>3, <1>4, TakeAnswers
<1>10. Flags'
  BY <1>0, <1>1, <1>4 DEF Flags
<1>11. QueriesUnderBoundKey'
  BY <1>0, <1>1, UsedKeeps
<1> QED BY <1>6, <1>7, <1>8, <1>9, <1>10, <1>11 DEF AuthInv

\* on_handshake_ready for the temporary key: no query names the new key yet.
LEMMA TmpReadyKeeps == ASSUME AuthInv, OnHandshakeReady("tmp") PROVE AuthInv'
<1>0. /\ KeysTypeOK /\ HandshakesOK /\ Numbered /\ Asked /\ Answers /\ Flags
      /\ QueriesUnderBoundKey
  BY DEF AuthInv
<1>1. /\ mailbox # <<>> /\ Head(mailbox).kind = "tmp" /\ Head(mailbox).result = "ok"
      /\ mailbox' = Tail(mailbox) /\ handshakes' = handshakes \ {"tmp"}
      /\ tmpKey' = Head(mailbox).tmp /\ tmpBound' = FALSE /\ tmpAge' = "fresh"
      /\ UNCHANGED <<mainKey, usePfs, lastBind, running, nextKey, nextQuery,
                     knownKeys, bound, usedUnder, cond, aged>>
      /\ LoseConnection \/ sent' = sent
  BY DEF OnHandshakeReady, First, queryVars
<1>2. NoNewQueries
  BY <1>0, <1>1, LoseConnectionKeeps DEF KeysTypeOK
<1>3. /\ mailbox' \in Seq(Messages) /\ Head(mailbox) = mailbox[1] /\ 1 \in Msgs("tmp")
  BY <1>0, <1>1, TailStep DEF KeysTypeOK
<1>4. \A q \in sent : q.tmp # tmpKey'
  BY <1>0, <1>1, <1>3 DEF Numbered
<1>5. tmpKey' \in Nat
  BY <1>0, <1>1, <1>3, MessageKinds DEF HandshakeResults, Kinds
<1>6. KeysTypeOK'
  BY <1>0, <1>1, <1>2, <1>3, <1>5
     DEF KeysTypeOK, NoNewQueries, OwnQueries, Messages, HandshakeResults, Kinds
<1>7. HandshakesOK' /\ Numbered'
  BY <1>0, <1>1, <1>2, TakeStep DEF Kinds
<1>8. Asked'
  BY <1>2, <1>4 DEF Asked, NoNewQueries
<1>9. Answers'
  BY <1>0, <1>1, <1>3, TakeAnswers
<1>10. Flags'
  BY <1>0, <1>1 DEF Flags
<1>11. QueriesUnderBoundKey'
  BY <1>0, <1>1, UsedKeeps
<1> QED BY <1>6, <1>7, <1>8, <1>9, <1>10, <1>11 DEF AuthInv

\* A handshake that failed, the answer about the main key, and an answer that is too
\* late change no key.
LEMMA KeysStayTaken ==
  ASSUME AuthInv, \/ \E sort \in Kinds : OnHandshakeFailed(sort)
               \/ OnCheckKeyResult \/ OnStaleResult
  PROVE  AuthInv'
<1>0. /\ KeysTypeOK /\ HandshakesOK /\ Numbered /\ Asked /\ Answers /\ Flags
      /\ QueriesUnderBoundKey
  BY DEF AuthInv
<1>1. /\ mailbox # <<>> /\ mailbox' = Tail(mailbox)
      /\ UNCHANGED <<mainKey, tmpKey, tmpBound, tmpAge, lastBind, running, nextKey, nextQuery,
                     knownKeys, bound, usedUnder, cond, aged, sent>>
  BY DEF OnHandshakeFailed, OnCheckKeyResult, OnStaleResult, First, queryVars, clientVars
<1>2. usePfs' \in {usePfs, TRUE}
  BY DEF OnHandshakeFailed, OnCheckKeyResult, OnStaleResult, clientVars
<1>3. \/ handshakes' = handshakes /\ Head(mailbox).kind \notin Kinds
      \/ handshakes' = handshakes \ {Head(mailbox).kind} /\ Head(mailbox).kind \in Kinds
  BY DEF OnHandshakeFailed, OnCheckKeyResult, OnStaleResult, First, Kinds
<1>4. NoNewQueries
  BY <1>0, <1>1, LoseConnectionKeeps DEF KeysTypeOK
<1>5. mailbox' \in Seq(Messages)
  BY <1>0, <1>1, TailStep DEF KeysTypeOK
<1>6. KeysTypeOK'
  <2>1. usePfs' \in BOOLEAN
    BY <1>0, <1>2 DEF KeysTypeOK
  <2> QED BY <1>0, <1>1, <1>5, <2>1
     DEF KeysTypeOK, OwnQueries, Messages, HandshakeResults, Kinds
<1>7. HandshakesOK' /\ Numbered'
  <2>1. ~aged => tmpAge' = "fresh"
    BY <1>0, <1>1 DEF HandshakesOK
  <2> QED BY <1>0, <1>1, <1>3, <1>4, <2>1, TakeStep
<1>8. Asked'
  BY <1>0, <1>1 DEF Asked
<1>9. Answers'
  BY <1>0, <1>1, TakeAnswers
<1>10. Flags'
  BY <1>0, <1>1, <1>2 DEF Flags
<1>11. QueriesUnderBoundKey'
  BY <1>0, <1>1, UsedKeeps
<1> QED BY <1>6, <1>7, <1>8, <1>9, <1>10, <1>11 DEF AuthInv

\* on_bind_result: the answer is about the keys the session has, if it has them.
LEMMA BindResultKeeps ==
  ASSUME AuthInv, NEW immune \in BOOLEAN, OnBindResult(immune)
  PROVE  AuthInv'
<1>0. /\ KeysTypeOK /\ HandshakesOK /\ Numbered /\ Asked /\ Answers /\ Flags
      /\ QueriesUnderBoundKey
  BY DEF AuthInv
<1>1. /\ mailbox # <<>> /\ Head(mailbox).kind = "bind" /\ Head(mailbox).id = lastBind
      /\ mailbox' = Tail(mailbox) /\ lastBind' = 0
      /\ UNCHANGED <<tmpKey, tmpAge, handshakes, running, nextKey, nextQuery,
                     knownKeys, bound, usedUnder, aged>>
      /\ cond' = cond \/ OneFault
  BY DEF OnBindResult, First
<1>2. NoNewQueries
  <2>1. LoseConnection \/ sent' = sent
    BY DEF OnBindResult
  <2> QED BY <1>0, <2>1, LoseConnectionKeeps DEF KeysTypeOK
<1>3. /\ mailbox' \in Seq(Messages) /\ Head(mailbox) = mailbox[1] /\ 1 \in Msgs("bind")
      /\ \A i \in Msgs("bind")' :
           i \in Nat /\ i >= 1 /\ i + 1 \in Msgs("bind") /\ mailbox'[i] = mailbox[i + 1]
  BY <1>0, <1>1, TailStep DEF KeysTypeOK
<1>4. mailbox[1].id # 0 /\ mailbox[1].main # 0 /\ lastBind # 0 /\ tmpBound = FALSE /\ usePfs
  <2>1. mailbox[1] \in OwnQueries
    BY <1>0, <1>3, MessageKinds
  <2>2. mailbox[1].id # 0 /\ mailbox[1].main # 0
    BY <2>1 DEF OwnQueries
  <2> QED BY <1>0, <1>1, <1>3, <2>2 DEF Flags, KeysTypeOK
<1>5. mainKey' \in {mainKey, 0} /\ usePfs' \in BOOLEAN
  <2>1. mainKey' \in {mainKey, 0}
    BY DEF OnBindResult, OnEncryptedMessageInvalid
  <2>2. usePfs' \in {usePfs, FALSE}
    BY DEF OnBindResult, OnEncryptedMessageInvalid
  <2> QED BY <1>0, <2>1, <2>2 DEF KeysTypeOK
<1>6. \/ tmpBound' = FALSE
      \/ Head(mailbox).result = "ok" /\ tmpBound' = TRUE /\ UNCHANGED <<mainKey, usePfs>>
  <2>1. CASE Head(mailbox).result = "ok"
    BY <2>1 DEF OnBindResult
  <2>2. CASE Head(mailbox).result # "ok"
    <3>1. tmpBound' = tmpBound
      BY <2>2 DEF OnBindResult
    <3> QED BY <1>4, <3>1
  <2> QED BY <2>1, <2>2
<1>7. KeysTypeOK'
  <2>1. cond' \in [pfs : BOOLEAN, main : BOOLEAN, faults : Int, ages : Int]
    <3>1. cond \in [pfs : BOOLEAN, main : BOOLEAN, faults : Int, ages : Int]
      BY <1>0 DEF KeysTypeOK
    <3>2. CASE OneFault
      BY <3>1, <3>2, SMTT(60) DEF OneFault
    <3> QED BY <1>1, <3>1, <3>2
  <2>2. tmpBound' \in BOOLEAN
    BY <1>6
  <2>3. sent' \subseteq OwnQueries
    BY <1>2 DEF NoNewQueries
  <2> QED BY <1>0, <1>1, <1>3, <1>5, <2>1, <2>2, <2>3, SMTT(60)
     DEF KeysTypeOK, OwnQueries, Messages, HandshakeResults, Kinds
<1>8. HandshakesOK' /\ Numbered'
  <2>1. ~aged => tmpAge' = "fresh"
    BY <1>0, <1>1 DEF HandshakesOK
  <2> QED BY <1>0, <1>1, <1>2, <1>5, <2>1, TakeStep DEF Kinds
<1>9. Asked'
  BY <1>1, <1>7 DEF Asked, KeysTypeOK, OwnQueries
<1>10. Answers'
  BY <1>1, <1>7, MessageKinds, <1>3, <1>0 DEF Answers
<1>11. Flags'
  <2>1. CASE tmpBound' = FALSE
    BY <1>1, <2>1 DEF Flags
  <2>2. CASE Head(mailbox).result = "ok" /\ tmpBound' = TRUE /\ UNCHANGED <<mainKey, usePfs>>
    <3>1. ~aged /\ tmpKey # 0 => mainKey # 0 /\ <<tmpKey, mainKey>> \in bound
      BY <1>0, <1>1, <1>3, <1>4, <2>2 DEF Answers, AnsweredOk
    <3> QED BY <1>1, <1>4, <2>2, <3>1 DEF Flags
  <2> QED BY <1>6, <2>1, <2>2
<1>12. QueriesUnderBoundKey'
  BY <1>0, <1>1, UsedKeeps
<1> QED BY <1>7, <1>8, <1>9, <1>10, <1>11, <1>12 DEF AuthInv

----------------------------------------------------------------------------
(* Steps that post a message. *)

\* The end of a handshake brings a key no query names.
LEMMA EndHandshakeKeeps ==
  ASSUME AuthInv, NEW sort \in Kinds, NEW result \in {"ok", "error"}, EndHandshake(sort, result)
  PROVE  AuthInv'
<1>0. /\ KeysTypeOK /\ HandshakesOK /\ Numbered /\ Asked /\ Answers /\ Flags
      /\ QueriesUnderBoundKey
  BY DEF AuthInv
<1> DEFINE m == [id |-> 0, kind |-> sort, tmp |-> nextKey, main |-> nextKey,
                 result |-> result, unknown |-> FALSE]
<1>1. /\ sort \in running /\ running' = running \ {sort} /\ mailbox' = Append(mailbox, m)
      /\ UNCHANGED <<mainKey, tmpKey, tmpBound, tmpAge, usePfs, lastBind, handshakes, nextQuery,
                     bound, usedUnder, sent, aged>>
      /\ cond' = cond \/ OneFault
      /\ \/ result = "ok" /\ nextKey' = nextKey + 1 /\ knownKeys' = knownKeys \cup {nextKey}
         \/ result = "error" /\ nextKey' = nextKey /\ knownKeys' = knownKeys
  BY DEF EndHandshake, queryVars, clientVars
<1>2. /\ m \in Messages /\ m.kind = sort /\ m.result = result /\ m.tmp = nextKey
      /\ m.main = nextKey
  BY <1>0 DEF Messages, HandshakeResults, KeysTypeOK
<1> HIDE DEF m
<1>3. /\ mailbox' \in Seq(Messages) /\ Len(mailbox) \in Nat
      /\ \A k : \A i \in Msgs(k)' :
           \/ i \in Msgs(k) /\ mailbox'[i] = mailbox[i]
           \/ i = Len(mailbox) + 1 /\ mailbox'[i] = m /\ m.kind = k
      /\ \A k : \A i \in Msgs(k) : i \in Nat /\ i < Len(mailbox) + 1
  BY <1>0, <1>1, <1>2, AppendStep DEF KeysTypeOK
<1>4. /\ cond' \in [pfs : BOOLEAN, main : BOOLEAN, faults : Int, ages : Int]
      /\ cond'.pfs = cond.pfs
  BY <1>0, <1>1, SMTT(60) DEF KeysTypeOK, OneFault
<1>5. nextKey \in Nat \ {0} /\ nextKey' \in Nat \ {0} /\ nextKey <= nextKey'
  BY <1>0, <1>1, SMTT(60) DEF KeysTypeOK
<1>6. KeysTypeOK'
  BY <1>0, <1>1, <1>3, <1>4, <1>5 DEF KeysTypeOK, OwnQueries, Messages, HandshakeResults, Kinds
<1>7. HandshakesOK'
  <2>1. Msgs(sort) = {}
    BY <1>0, <1>1 DEF HandshakesOK
  <2>2. sort \in handshakes
    BY <1>0, <1>1 DEF HandshakesOK
  <2>3. ASSUME NEW k \in Kinds, NEW i \in Msgs(k)'
        PROVE  k \in handshakes' \ running' /\ \A j \in Msgs(k)' : i = j
    <3>1. CASE k = sort
      <4>1. \A j \in Msgs(k)' : j = Len(mailbox) + 1
        BY <1>3, <2>1, <3>1
      <4> QED BY <1>1, <2>2, <2>3, <3>1, <4>1
    <3>2. CASE k # sort
      <4>1. \A j \in Msgs(k)' : j \in Msgs(k)
        BY <1>2, <1>3, <3>2
      <4> QED BY <1>0, <1>1, <2>3, <4>1 DEF HandshakesOK
    <3> QED BY <3>1, <3>2
  <2> QED BY <1>0, <1>1, <2>3 DEF HandshakesOK
<1>8. Numbered'
  <2>1. mainKey' < nextKey' /\ tmpKey' < nextKey' /\ lastBind' < nextQuery'
    BY <1>0, <1>1, <1>5, SMTT(60) DEF Numbered, KeysTypeOK
  <2>2. \A q \in sent' : /\ q.tmp < nextKey' /\ q.main < nextKey' /\ q.id < nextQuery'
                         /\ q.kind = "bind" => q.tmp # 0
    BY <1>0, <1>1, <1>5, SMTT(60) DEF Numbered, KeysTypeOK, OwnQueries
  <2>3. ASSUME NEW i \in Msgs("main")', mailbox'[i].result = "ok"
        PROVE  mailbox'[i].main < nextKey'
    <3>1. CASE i \in Msgs("main") /\ mailbox'[i] = mailbox[i]
      <4>1. mailbox[i].main < nextKey /\ mailbox[i].main \in Nat
        BY <1>0, <2>3, <3>1, MessageKinds DEF Numbered, HandshakeResults, Kinds
      <4> QED BY <1>5, <3>1, <4>1, SMTT(60)
    <3>2. CASE mailbox'[i] = m
      BY <1>1, <1>2, <1>5, <2>3, <3>2, SMTT(60)
    <3> QED BY <1>3, <2>3, <3>1, <3>2
  <2>4. ASSUME NEW i \in Msgs("tmp")', mailbox'[i].result = "ok"
        PROVE  /\ mailbox'[i].tmp < nextKey' /\ mailbox'[i].tmp # tmpKey'
               /\ \A q \in sent' : q.tmp # mailbox'[i].tmp
    <3>1. CASE i \in Msgs("tmp") /\ mailbox'[i] = mailbox[i]
      <4>1. /\ mailbox[i].tmp < nextKey /\ mailbox[i].tmp \in Nat /\ mailbox[i].tmp # tmpKey
            /\ \A q \in sent : q.tmp # mailbox[i].tmp
        BY <1>0, <2>4, <3>1, MessageKinds DEF Numbered, HandshakeResults, Kinds
      <4> QED BY <1>1, <1>5, <3>1, <4>1, SMTT(60)
    <3>2. CASE mailbox'[i] = m
      <4>1. nextKey' = nextKey + 1
        BY <1>1, <1>2, <2>4, <3>2
      <4>2. tmpKey # nextKey /\ \A q \in sent : q.tmp # nextKey
        BY <1>0, <1>5, SMTT(60) DEF Numbered
      <4>3. mailbox'[i].tmp = nextKey
        BY <1>2, <3>2
      <4>4. sent' = sent /\ tmpKey' = tmpKey
        BY <1>1
      <4>5. nextKey < nextKey'
        BY <1>5, <4>1, SMTT(60)
      <4> QED BY <4>2, <4>3, <4>4, <4>5
    <3> QED BY <1>3, <2>4, <3>1, <3>2
  <2>5. ASSUME NEW i \in Msgs("bind")'
        PROVE  mailbox'[i].main < nextKey' /\ mailbox'[i].id < nextQuery'
    <3>1. i \in Msgs("bind") /\ mailbox'[i] = mailbox[i]
      BY <1>2, <1>3, <2>5 DEF Kinds
    <3>2. mailbox[i].main < nextKey /\ mailbox[i].main \in Nat /\ mailbox[i].id < nextQuery
      BY <1>0, <3>1, MessageKinds DEF Numbered, OwnQueries
    <3> QED BY <1>1, <1>5, <3>1, <3>2, SMTT(60)
  <2> QED BY <2>1, <2>2, <2>3, <2>4, <2>5 DEF Numbered
<1>9. Asked' /\ Flags'
  BY <1>0, <1>1 DEF Asked, Flags
<1>10. Answers'
  <2> SUFFICES ASSUME NEW i \in Msgs("bind")', mailbox'[i].id = lastBind
               PROVE  /\ mailbox'[i].result = "ok" /\ ~aged => AnsweredOk(i)'
                      /\ mailbox'[i].result = "invalid" /\ ~cond.pfs => AnsweredInvalid(i)'
    BY <1>1, <1>4 DEF Answers
  <2>1. i \in Msgs("bind") /\ mailbox'[i] = mailbox[i] /\ i < Len(mailbox) + 1
    BY <1>2, <1>3, SMTT(60) DEF Kinds
  <2>2. ASSUME AnsweredOk(i) PROVE AnsweredOk(i)'
    <3>1. \A j \in Msgs("tmp")' : i < j
      BY <1>3, <2>1, <2>2 DEF AnsweredOk
    <3> QED BY <1>1, <2>1, <2>2, <3>1 DEF AnsweredOk
  <2>3. ASSUME AnsweredInvalid(i) PROVE AnsweredInvalid(i)'
    <3>1. \A j \in Msgs("main")' : i < j
      BY <1>3, <2>1, <2>3 DEF AnsweredInvalid
    <3>2. mailbox[i].main # nextKey
      BY <1>0, <1>5, <2>1, SMTT(60) DEF Numbered
    <3>3. mailbox[i].main \notin knownKeys'
      BY <1>1, <2>3, <3>2 DEF AnsweredInvalid
    <3> QED BY <1>1, <2>1, <2>3, <3>1, <3>3 DEF AnsweredInvalid
  <2> QED BY <1>0, <2>1, <2>2, <2>3 DEF Answers
<1>11. QueriesUnderBoundKey'
  BY <1>0, <1>1, UsedKeeps
<1> QED BY <1>6, <1>7, <1>8, <1>9, <1>10, <1>11 DEF AuthInv

\* The query q ends with the answer m, which is about the keys if it is to be taken so.
Ends(q, m) ==
  /\ m.kind = q.kind /\ m.id = q.id /\ m.tmp = q.tmp /\ m.main = q.main
  /\ mailbox' = Append(mailbox, m) /\ sent' = sent \ {q}
  /\ UNCHANGED <<mainKey, tmpKey, tmpBound, tmpAge, usePfs, lastBind, handshakes, running, nextKey,
                 nextQuery, knownKeys, usedUnder, aged>>
  /\ cond' = cond \/ OneFault
  /\ bound \subseteq bound'
  /\ q.kind = "bind" /\ q.id = lastBind /\ m.result = "ok" /\ ~aged =>
       /\ <<m.tmp, m.main>> \in bound' /\ m.tmp = tmpKey /\ m.main = mainKey
       /\ Msgs("tmp") = {}
  /\ q.kind = "bind" /\ q.id = lastBind /\ m.result = "invalid" /\ ~cond.pfs =>
       /\ m.main \notin knownKeys /\ m.main = mainKey /\ Msgs("main") = {}

\* The answer to one of the session's own queries.
LEMMA PostAnswer ==
  ASSUME AuthInv, NEW q \in sent, NEW m \in OwnQueries, Ends(q, m)
  PROVE  AuthInv'
<1>0. /\ KeysTypeOK /\ HandshakesOK /\ Numbered /\ Asked /\ Answers /\ Flags
      /\ QueriesUnderBoundKey
  BY DEF AuthInv
<1>1. /\ UNCHANGED <<mainKey, tmpKey, tmpBound, tmpAge, usePfs, lastBind, handshakes, running, nextKey,
                     nextQuery, knownKeys, usedUnder, aged>>
      /\ mailbox' = Append(mailbox, m) /\ sent' = sent \ {q} /\ bound \subseteq bound'
      /\ m.id = q.id /\ m.main = q.main /\ m.kind = q.kind
  BY DEF Ends
<1>2. m \in Messages /\ m.kind \notin Kinds
  BY DEF Messages, OwnQueries, Kinds
<1>3. /\ mailbox' \in Seq(Messages) /\ Len(mailbox) \in Nat
      /\ \A k : \A i \in Msgs(k)' :
           \/ i \in Msgs(k) /\ mailbox'[i] = mailbox[i]
           \/ i = Len(mailbox) + 1 /\ mailbox'[i] = m /\ m.kind = k
  BY <1>0, <1>1, <1>2, AppendStep DEF KeysTypeOK
<1>4. /\ cond' \in [pfs : BOOLEAN, main : BOOLEAN, faults : Int, ages : Int]
      /\ cond'.pfs = cond.pfs
  <2>1. cond \in [pfs : BOOLEAN, main : BOOLEAN, faults : Int, ages : Int]
    BY <1>0 DEF KeysTypeOK
  <2>2. CASE OneFault
    BY <2>1, <2>2, SMTT(60) DEF OneFault
  <2>3. cond' = cond \/ OneFault
    BY DEF Ends
  <2> QED BY <2>1, <2>2, <2>3
<1>5. \A k \in Kinds : \A i \in Msgs(k)' : i \in Msgs(k) /\ mailbox'[i] = mailbox[i]
  BY <1>2, <1>3
<1>6. KeysTypeOK'
  <2>1. sent' \subseteq OwnQueries
    BY <1>0, <1>1 DEF KeysTypeOK
  <2> QED BY <1>0, <1>1, <1>3, <1>4, <2>1
    DEF KeysTypeOK, OwnQueries, Messages, HandshakeResults, Kinds
<1>7. HandshakesOK'
  BY <1>0, <1>1, <1>5 DEF HandshakesOK
<1>8. Numbered'
  <2>1. q.main < nextKey /\ q.id < nextQuery
    BY <1>0 DEF Numbered
  <2>2. ASSUME NEW i \in Msgs("bind")'
        PROVE  mailbox'[i].main < nextKey' /\ mailbox'[i].id < nextQuery'
    <3>1. CASE i \in Msgs("bind") /\ mailbox'[i] = mailbox[i]
      BY <1>0, <1>1, <3>1 DEF Numbered
    <3>2. CASE mailbox'[i] = m
      BY <1>1, <2>1, <3>2
    <3> QED BY <1>3, <2>2, <3>1, <3>2
  <2>3. ASSUME NEW i \in Msgs("tmp")', mailbox'[i].result = "ok"
        PROVE  /\ mailbox'[i].tmp < nextKey' /\ mailbox'[i].tmp # tmpKey'
               /\ \A p \in sent' : p.tmp # mailbox'[i].tmp
    <3>1. i \in Msgs("tmp") /\ mailbox'[i] = mailbox[i]
      BY <1>5, <2>3 DEF Kinds
    <3> QED BY <1>0, <1>1, <2>3, <3>1 DEF Numbered
  <2>4. ASSUME NEW i \in Msgs("main")', mailbox'[i].result = "ok"
        PROVE  mailbox'[i].main < nextKey'
    <3>1. i \in Msgs("main") /\ mailbox'[i] = mailbox[i]
      BY <1>5, <2>4 DEF Kinds
    <3> QED BY <1>0, <1>1, <2>4, <3>1 DEF Numbered
  <2>5. \A p \in sent' : /\ p.tmp < nextKey' /\ p.main < nextKey' /\ p.id < nextQuery'
                         /\ p.kind = "bind" => p.tmp # 0
    BY <1>0, <1>1 DEF Numbered
  <2>6. mainKey' < nextKey' /\ tmpKey' < nextKey' /\ lastBind' < nextQuery'
    BY <1>0, <1>1 DEF Numbered
  <2> QED BY <2>2, <2>3, <2>4, <2>5, <2>6 DEF Numbered
<1>9. Asked'
  BY <1>0, <1>1 DEF Asked
<1>10. Answers'
  <2> SUFFICES ASSUME NEW i \in Msgs("bind")', mailbox'[i].id = lastBind
               PROVE  /\ mailbox'[i].result = "ok" /\ ~aged => AnsweredOk(i)'
                      /\ mailbox'[i].result = "invalid" /\ ~cond.pfs => AnsweredInvalid(i)'
    BY <1>1, <1>4 DEF Answers
  <2>1. CASE i \in Msgs("bind") /\ mailbox'[i] = mailbox[i]
    <3>1. ASSUME AnsweredOk(i) PROVE AnsweredOk(i)'
      BY <1>1, <1>5, <2>1, <3>1 DEF AnsweredOk, Kinds
    <3>2. ASSUME AnsweredInvalid(i) PROVE AnsweredInvalid(i)'
      BY <1>1, <1>5, <2>1, <3>2 DEF AnsweredInvalid, Kinds
    <3> QED BY <1>0, <2>1, <3>1, <3>2 DEF Answers
  <2>2. CASE mailbox'[i] = m /\ m.kind = "bind"
    <3>1. ASSUME m.result = "ok", ~aged PROVE AnsweredOk(i)'
      <4>1. /\ <<m.tmp, m.main>> \in bound' /\ m.tmp = tmpKey /\ m.main = mainKey
            /\ Msgs("tmp") = {}
        BY <1>1, <2>2, <3>1 DEF Ends
      <4> QED BY <1>1, <1>5, <2>2, <4>1 DEF AnsweredOk, Kinds
    <3>2. ASSUME m.result = "invalid", ~cond.pfs PROVE AnsweredInvalid(i)'
      <4>1. m.main \notin knownKeys /\ m.main = mainKey /\ Msgs("main") = {}
        BY <1>1, <2>2, <3>2 DEF Ends
      <4> QED BY <1>1, <1>5, <2>2, <4>1 DEF AnsweredInvalid, Kinds
    <3> QED BY <2>2, <3>1, <3>2
  <2> QED BY <1>3, <2>1, <2>2
<1>11. Flags'
  BY <1>0, <1>1 DEF Flags
<1>12. QueriesUnderBoundKey'
  BY <1>0, <1>1, UsedKeeps
<1> QED BY <1>6, <1>7, <1>8, <1>9, <1>10, <1>11, <1>12 DEF AuthInv

\* The server answers a query to bind only while the session uses the key it is about.
LEMMA AnswerBindKeeps ==
  ASSUME AuthInv, NEW q \in sent, NEW result \in {"ok", "invalid", "error"}, AnswerBind(q, result)
  PROVE  AuthInv'
<1>0. KeysTypeOK /\ HandshakesOK /\ Numbered /\ Asked /\ q \in OwnQueries
  BY DEF AuthInv, KeysTypeOK
<1> DEFINE m == [q EXCEPT !.result = result]
<1>1. /\ m \in OwnQueries /\ m.kind = q.kind /\ m.id = q.id /\ m.tmp = q.tmp /\ m.main = q.main
      /\ m.result = result
  BY <1>0 DEF OwnQueries
<1>2. /\ mailbox' = Append(mailbox, m) /\ sent' = sent \ {q} /\ q.kind = "bind" /\ tmpKey = q.tmp
      /\ UNCHANGED clientVars /\ UNCHANGED queryVars
      /\ UNCHANGED <<handshakes, running, nextKey, nextQuery, knownKeys, usedUnder, aged>>
      /\ cond' = cond \/ OneFault
      /\ bound' = IF result = "ok" THEN bound \cup {<<q.tmp, q.main>>} ELSE bound
      /\ result = "invalid" /\ ~cond.pfs => q.main \notin knownKeys
  BY DEF AnswerBind
<1> HIDE DEF m
<1>3. bound \subseteq bound' /\ (result = "ok" => <<q.tmp, q.main>> \in bound')
  BY <1>2
<1>4. tmpKey # 0 /\ q.main # 0
  BY <1>0, <1>2 DEF Numbered, OwnQueries
<1>5. ~aged => Msgs("tmp") = {}
  BY <1>0, <1>4 DEF HandshakesOK, Kinds
<1>6. q.id = lastBind => q.main = mainKey
  BY <1>0, <1>2 DEF Asked
<1>7. q.id = lastBind => Msgs("main") = {}
  BY <1>0, <1>4, <1>6 DEF HandshakesOK, Kinds
<1>8. Ends(q, m)
  BY <1>1, <1>2, <1>3, <1>5, <1>6, <1>7 DEF Ends, clientVars, queryVars
<1> QED BY <1>1, <1>8, PostAnswer

\* The other ends of a query mean nothing for the keys.
LEMMA AnswersKeep ==
  ASSUME AuthInv, NEW q \in sent, AnswerCheck(q) \/ LostQuery(q)
  PROVE  AuthInv'
<1>1. q \in OwnQueries
  BY DEF AuthInv, KeysTypeOK
<1>2. PICK result \in {"ok", "ttl"} :
        /\ mailbox' = Append(mailbox, [q EXCEPT !.result = result]) /\ sent' = sent \ {q}
        /\ q.kind = "check" \/ result = "ttl"
        /\ UNCHANGED clientVars /\ UNCHANGED queryVars
        /\ UNCHANGED <<handshakes, running, nextKey, nextQuery, knownKeys, usedUnder, aged, cond,
                       bound>>
  BY DEF AnswerCheck, LostQuery
<1> DEFINE m == [q EXCEPT !.result = result]
<1>3. /\ m \in OwnQueries /\ m.kind = q.kind /\ m.id = q.id /\ m.tmp = q.tmp /\ m.main = q.main
      /\ m.result = result /\ mailbox' = Append(mailbox, m)
  BY <1>1, <1>2 DEF OwnQueries
<1> HIDE DEF m
<1>4. Ends(q, m)
  BY <1>2, <1>3 DEF Ends, clientVars, queryVars
<1> QED BY <1>3, <1>4, PostAnswer

----------------------------------------------------------------------------
\* Every step keeps the invariant.
LEMMA NextAuthInv == AuthInv /\ [AuthNext]_authVars => AuthInv'
<1> SUFFICES ASSUME AuthInv, [AuthNext]_authVars PROVE AuthInv'
  OBVIOUS
<1>1. CASE Loop
  BY <1>1, ConnectionsKeep, SendQueriesKeeps, OwnQueriesKeep, StartHandshakeKeeps DEF Loop
<1>2. CASE Handlers
  <2>1. ASSUME NEW sort \in Kinds, OnHandshakeReady(sort) PROVE AuthInv'
    BY <2>1, MainReadyKeeps, TmpReadyKeeps DEF Kinds
  <2> QED BY <1>2, <2>1, KeysStayTaken, BindResultKeeps, ConnectionsKeep, KeysGivenUpKeeps
     DEF Handlers
<1>3. CASE Environment
  BY <1>3, AgeKeeps, ConnectionsKeep, EndHandshakeKeeps, AnswerBindKeeps, AnswersKeep
     DEF Environment
<1>4. CASE UNCHANGED authVars
  <2>1. /\ UNCHANGED clientVars /\ UNCHANGED <<lastBind, handshakes, running, mailbox, nextKey,
                                               nextQuery, bound, usedUnder, aged, sent, knownKeys>>
        /\ cond' = cond
    BY <1>4 DEF authVars, queryVars
  <2>2. NoNewQueries
    BY <2>1, LoseConnectionKeeps DEF AuthInv, KeysTypeOK
  <2> QED BY <2>1, <2>2, KeysStayStep
<1> QED BY <1>1, <1>2, <1>3, <1>4 DEF AuthNext

\* The invariant holds in every state a session reaches.
LEMMA AlwaysIInv == AuthSpec => []AuthInv
BY InitAuthInv, NextAuthInv, PTL DEF AuthSpec

\* Session: as long as no temporary key has aged, ordinary queries are sent only under
\* a temporary key the server has bound to the main key (loop(), on_bind_result).
THEOREM QueriesUnderBoundKeyAlways == AuthSpec => []QueriesUnderBoundKey
<1>1. AuthInv => QueriesUnderBoundKey
  BY DEF AuthInv
<1> QED BY <1>1, AlwaysIInv, PTL

\* Session: the main key is given up only when the server has lost it or has ended the
\* authorization, whatever answers and handshakes are on their way.
THEOREM MainKeyGivenUpForCauseAlways == AuthSpec => MainKeyGivenUpForCause
<1>1. ASSUME AuthInv, [AuthNext]_authVars, mainKey # 0, mainKey' # mainKey
      PROVE  mainKey \notin knownKeys \/ revoked
  <2>0. KeysTypeOK /\ HandshakesOK /\ Answers
    BY <1>1 DEF AuthInv
  <2>1. ~OnHandshakeReady("main")
    <3> SUFFICES ASSUME OnHandshakeReady("main") PROVE FALSE
      OBVIOUS
    <3>1. mailbox # <<>> /\ Head(mailbox).kind = "main" /\ mailbox' = Tail(mailbox)
      BY DEF OnHandshakeReady, First
    <3>2. 1 \in Msgs("main")
      BY <2>0, <3>1, TailStep DEF KeysTypeOK
    <3> QED BY <1>1, <2>0, <3>2 DEF HandshakesOK, Kinds
  <2>2. CASE Loop
    BY <1>1, <2>2 DEF Loop, Connect, SendQueries, FlushWithoutKey, SendBindKey, SendCheckMainKey,
                      StartHandshake, clientVars
  <2>3. CASE Environment
    BY <1>1, <2>3 DEF Environment, Age, Revoke, EndHandshake, AnswerBind, AnswerCheck, LostQuery,
                      ServerLosesKey, clientVars
  <2>4. ASSUME NEW immune \in BOOLEAN, OnBindResult(immune) PROVE mainKey \notin knownKeys
    <3>1. /\ mailbox # <<>> /\ Head(mailbox).kind = "bind" /\ Head(mailbox).id = lastBind
          /\ mailbox' = Tail(mailbox)
      BY <2>4 DEF OnBindResult, First
    <3>2. Head(mailbox).result = "invalid" /\ ~cond.pfs
      BY <1>1, <2>4 DEF OnBindResult, OnEncryptedMessageInvalid
    <3>3. Head(mailbox) = mailbox[1] /\ 1 \in Msgs("bind")
      BY <2>0, <3>1, TailStep DEF KeysTypeOK
    <3> QED BY <1>1, <2>0, <3>1, <3>2, <3>3 DEF Answers, AnsweredInvalid
  <2>5. CASE OnClosed404
    BY <1>1, <2>5 DEF OnClosed404, AuthKey
  <2>6. CASE OnUnauthorized
    BY <2>6 DEF OnUnauthorized
  <2>7. CASE \/ OnCheckKeyResult \/ OnStaleResult \/ OnClosed \/ OnPermEmpty
             \/ \E sort \in Kinds : OnHandshakeFailed(sort)
    BY <1>1, <2>7 DEF OnCheckKeyResult, OnStaleResult, OnClosed, OnPermEmpty, OnHandshakeFailed,
                      clientVars
  <2>8. CASE OnHandshakeReady("tmp")
    BY <1>1, <2>8 DEF OnHandshakeReady
  <2>9. CASE UNCHANGED authVars
    BY <1>1, <2>9 DEF authVars, clientVars
  <2>10. CASE Handlers
    BY <2>10, <2>1, <2>4, <2>5, <2>6, <2>7, <2>8 DEF Handlers, Kinds
  <2> QED BY <1>1, <2>2, <2>3, <2>9, <2>10 DEF AuthNext
<1>2. AuthInv /\ [AuthNext]_authVars =>
        [mainKey # 0 /\ mainKey' # mainKey => mainKey \notin knownKeys \/ revoked]_authVars
  BY <1>1
<1> QED BY <1>2, AlwaysIInv, PTL DEF AuthSpec, MainKeyGivenUpForCause
=============================================================================
