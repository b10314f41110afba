------------------------ MODULE NetQueryDispatcher -------------------------
(***************************************************************************)
(* NetQueryDispatcher (td/telegram/net/NetQueryDispatcher.cpp) and         *)
(* NetQueryDelayer.  dispatch() runs on any thread, and the same query     *)
(* passes through it again each time a session or the delayer returns it.  *)
(*                                                                         *)
(* at[q] is where q is: at a step of dispatch, in the mailbox or a slot of *)
(* the delayer, at a session, completed, or lost with an actor that is     *)
(* gone.  What runs under mutex_ is one step; the atomics are read and     *)
(* written without it.                                                     *)
(***************************************************************************)
EXTENDS Integers, FiniteSets

CONSTANTS
  Queries,      \* queries
  Dcs,          \* data centers
  FirstMain,    \* the main one when the program starts
  TotalLimit,   \* total_timeout_limit_
  MaxTimeout,   \* the timeout up to which next_timeout_ is doubled
  FloodWait,    \* a wait the server asks for
  MaxMoves      \* bound on migrations and logins

ASSUME DispatcherAssumption ==
  /\ IsFiniteSet(Queries) /\ IsFiniteSet(Dcs) /\ FirstMain \in Dcs
  /\ TotalLimit \in Nat /\ MaxTimeout \in Nat /\ FloodWait \in Nat \ {0} /\ MaxMoves \in Nat

VARIABLES
  at,           \* where each query is
  status,       \* the state of each query
  dest,         \* dest[q]: the data center q goes to
  kind,         \* kind[q]: what q is, see NetQueryKinds
  next, total,  \* next_timeout_ and total_timeout_
  main,         \* main_dc_id_
  isValid, isInited,   \* the atomics of each data center
  inits,        \* inits[d]: sessions of d were created so often
  isMain,       \* what the main session of each data center was told to be
  stopped,      \* stop_flag_
  moves

netQueryVars == <<at, status, dest, kind, next, total>>
dcVars == <<main, isValid, isInited, inits, isMain>>
vars == <<netQueryVars, dcVars, stopped, moves>>

\* A query goes to whatever data center is the main one, to a named one, or is
\* one that a session sends for itself, dispatch_ttl_ = 0.
NetQueryKinds == {"main", "dc", "own"}

\* Query is a query without an answer, Again an error after which it is sent
\* again in a while, Flood one that says when, Migrate one that names the data
\* center, kept in dest.
Statuses == {"Query", "OK", "Error", "Resend", "Again", "Flood", "Migrate"}
InDispatch == {"check", "migrate", "delay", "route", "init", "spin", "send"}
Places == {"new", "mailbox", "slot", "session", "done", "lost"} \cup InDispatch

\* The sessions of a data center exist from its initialization to stop().
SessionsExist(d) == isInited[d] /\ ~stopped

----------------------------------------------------------------------------
Go(q, place) == at' = [at EXCEPT ![q] = place]
Becomes(q, s) == status' = [status EXCEPT ![q] = s]
Complete(q, s) == Go(q, "done") /\ Becomes(q, s)

\* A part of the code begins dispatch() with q in the state s.
Dispatch(q, s) == Go(q, "check") /\ Becomes(q, s)

\* check_stop_flag, and where the state of the query leads.
Check(q) ==
  /\ at[q] = "check"
  /\ \/ stopped /\ Complete(q, "Error")
     \/ ~stopped /\ status[q] = "Migrate" /\ Go(q, "migrate") /\ UNCHANGED status
     \/ ~stopped /\ status[q] = "Resend" /\ Go(q, "route") /\ Becomes(q, "Query")
     \/ ~stopped /\ status[q] = "Query" /\ Go(q, "route") /\ UNCHANGED status
     \/ ~stopped /\ status[q] \in {"Again", "Flood"} /\ Go(q, "delay") /\ UNCHANGED status
     \/ ~stopped /\ status[q] \in {"OK", "Error"} /\ Go(q, "done") /\ UNCHANGED status
  /\ UNCHANGED <<dest, kind, next, total, dcVars, stopped, moves>>

\* mutant: the stop flag is not looked at again under the mutex
ToDelayerUnchecked(q) == Go(q, IF stopped THEN "lost" ELSE "mailbox") /\ UNCHANGED status

ToDelayer(q) ==
  \/ stopped /\ Complete(q, "Error")
  \/ ~stopped /\ Go(q, "mailbox") /\ UNCHANGED status

SendToDelayer(q) ==
  /\ at[q] = "delay"
  /\ ToDelayer(q)
  /\ UNCHANGED <<dest, kind, next, total, dcVars, stopped, moves>>

\* set_main_dc_id under the mutex; the message to sessions that are not there
\* is lost.
SetMainDcId(d) ==
  /\ main' = d
  /\ isMain' = [x \in Dcs |-> IF x \in {main, d} /\ isValid[x] /\ SessionsExist(x)
                              THEN x = d ELSE isMain[x]]

\* try_fix_migrate.
Migrate(q) ==
  /\ at[q] = "migrate"
  /\ SetMainDcId(dest[q])
  /\ Go(q, "route") /\ Becomes(q, "Query")
  /\ UNCHANGED <<dest, kind, next, total, isValid, isInited, inits, stopped, moves>>

Destination(q) == IF kind[q] = "main" THEN main ELSE dest[q]

\* mutant: the exchange leaves is_valid_ as it was
ClaimUnseen(d) == UNCHANGED isValid

Claim(d) == isValid' = [isValid EXCEPT ![d] = TRUE]

TtlIsOver(q) == kind[q] = "own"

\* The destination is chosen, and the first thread to come claims to make it.
Route(q) ==
  /\ at[q] = "route"
  /\ \/ /\ TtlIsOver(q)
        /\ Complete(q, "Error")
        /\ UNCHANGED <<dest, isValid>>
     \/ /\ ~TtlIsOver(q)
        /\ dest' = [dest EXCEPT ![q] = Destination(q)]
        /\ \/ ~isValid[Destination(q)] /\ Claim(Destination(q)) /\ Go(q, "init")
           \/ isValid[Destination(q)] /\ Go(q, "spin") /\ UNCHANGED isValid
        /\ UNCHANGED status
  /\ UNCHANGED <<kind, next, total, main, isInited, inits, isMain, stopped, moves>>

\* mutant: the data center a query to the main one has found is the main one
InitialFlagStale(q) == kind[q] = "main"

InitialFlag(q) == dest[q] = main

\* wait_dc_init under the mutex.
InitDc(q) ==
  /\ at[q] = "init"
  /\ \/ stopped /\ Complete(q, "Error") /\ UNCHANGED <<isInited, inits, isMain>>
     \/ /\ ~stopped
        /\ isInited' = [isInited EXCEPT ![dest[q]] = TRUE]
        /\ inits' = [inits EXCEPT ![dest[q]] = @ + 1]
        /\ isMain' = [isMain EXCEPT ![dest[q]] = InitialFlag(q)]
        /\ Go(q, "send") /\ UNCHANGED status
  /\ UNCHANGED <<dest, kind, next, total, main, isValid, stopped, moves>>

\* mutant: the wait does not look at the stop flag
StopsSpinningNever == FALSE

StopsSpinning == stopped

\* wait_dc_init while another thread is at it.
Spin(q) ==
  /\ at[q] = "spin"
  /\ \/ isInited[dest[q]] /\ Go(q, "send") /\ UNCHANGED status
     \/ ~isInited[dest[q]] /\ StopsSpinning /\ Complete(q, "Error")
  /\ UNCHANGED <<dest, kind, next, total, dcVars, stopped, moves>>

Send(q) ==
  /\ at[q] = "send"
  /\ \/ stopped /\ Complete(q, "Error")
     \/ ~stopped /\ Go(q, IF SessionsExist(dest[q]) THEN "session" ELSE "lost") /\ UNCHANGED status
  /\ UNCHANGED <<dest, kind, next, total, dcVars, stopped, moves>>

Stop ==
  /\ ~stopped
  /\ stopped' = TRUE
  /\ UNCHANGED <<netQueryVars, dcVars, moves>>

----------------------------------------------------------------------------
(* NetQueryDelayer.                                                        *)

Timeout(q) == IF status[q] = "Flood" THEN FloodWait ELSE next[q]

WaitedTooLong(q) == total[q] + Timeout(q) > TotalLimit

NextTimeout(q) ==
  IF status[q] = "Flood" THEN 1 ELSE IF next[q] < MaxTimeout THEN 2 * next[q] ELSE next[q]

Counted(q) == total[q] + Timeout(q)

Delay(q) ==
  /\ at[q] = "mailbox"
  /\ next' = [next EXCEPT ![q] = NextTimeout(q)]
  /\ total' = [total EXCEPT ![q] = Counted(q)]
  /\ IF WaitedTooLong(q) THEN Dispatch(q, "Error") ELSE Go(q, "slot") /\ Becomes(q, "Query")
  /\ UNCHANGED <<dest, kind, dcVars, stopped, moves>>

\* The timeout of a slot.
OnSlotEvent(q) ==
  /\ at[q] = "slot"
  /\ Dispatch(q, status[q])
  /\ UNCHANGED <<dest, kind, next, total, dcVars, stopped, moves>>

\* The hangup comes after every query that was sent.
TearDown(q) ==
  /\ stopped /\ at[q] = "slot" /\ \A r \in Queries : at[r] # "mailbox"
  /\ Dispatch(q, "Error")
  /\ UNCHANGED <<dest, kind, next, total, dcVars, stopped, moves>>

----------------------------------------------------------------------------
(* Callers and sessions.                                                   *)

Create(q) ==
  /\ at[q] = "new" /\ kind[q] # "own"
  /\ Dispatch(q, "Query")
  /\ UNCHANGED <<dest, kind, next, total, dcVars, stopped, moves>>

\* A session sends a query for itself (auth.bindTempAuthKey, help.getNearestDc).
CreateOwn(q, d) ==
  /\ at[q] = "new" /\ kind[q] = "own" /\ SessionsExist(d)
  /\ Go(q, "session") /\ dest' = [dest EXCEPT ![q] = d]
  /\ UNCHANGED <<status, kind, next, total, dcVars, stopped, moves>>

\* A session returns a query; one that closes returns all it has to be resent.
Return(q, s) ==
  /\ at[q] = "session"
  /\ Dispatch(q, s)
  /\ UNCHANGED <<dest, kind, next, total, dcVars, stopped, moves>>

ReturnMigrate(q, d) ==
  /\ moves < MaxMoves /\ at[q] = "session" /\ d # dest[q]
  /\ Dispatch(q, "Migrate") /\ dest' = [dest EXCEPT ![q] = d]
  /\ moves' = moves + 1
  /\ UNCHANGED <<kind, next, total, dcVars, stopped>>

\* A session that has logged in makes its data center the main one.
Login(d) ==
  /\ moves < MaxMoves /\ d # main /\ SessionsExist(d)
  /\ SetMainDcId(d)
  /\ moves' = moves + 1
  /\ UNCHANGED <<netQueryVars, isValid, isInited, inits, stopped>>

----------------------------------------------------------------------------
Init ==
  /\ at = [q \in Queries |-> "new"] /\ status = [q \in Queries |-> "Query"]
  /\ kind \in [Queries -> NetQueryKinds] /\ main = FirstMain
  /\ dest \in {f \in [Queries -> Dcs] : \A q \in Queries : kind[q] # "dc" => f[q] = main}
  /\ next = [q \in Queries |-> 1] /\ total = [q \in Queries |-> 0]
  /\ isValid = [d \in Dcs |-> FALSE] /\ isInited = [d \in Dcs |-> FALSE]
  /\ inits = [d \in Dcs |-> 0] /\ isMain = [d \in Dcs |-> FALSE]
  /\ stopped = FALSE /\ moves = 0

DispatchStep(q) ==
  \/ Check(q) \/ SendToDelayer(q) \/ Migrate(q) \/ Route(q) \/ InitDc(q) \/ Spin(q) \/ Send(q)
DelayerStep(q) == Delay(q) \/ OnSlotEvent(q) \/ TearDown(q)

Next ==
  \/ Stop
  \/ \E d \in Dcs : Login(d)
  \/ \E q \in Queries :
       \/ DispatchStep(q) \/ DelayerStep(q) \/ Create(q)
       \/ \E s \in {"OK", "Error", "Resend", "Again", "Flood"} : Return(q, s)
       \/ \E d \in Dcs : CreateOwn(q, d) \/ ReturnMigrate(q, d)

Spec == Init /\ [][Next]_vars

\* Threads run, timers fire, and sessions answer at last, or return what they
\* have when they are closed.
FairSpec ==
  /\ Spec
  /\ \A q \in Queries :
       /\ WF_vars(DispatchStep(q)) /\ WF_vars(DelayerStep(q))
       /\ SF_vars(Return(q, "OK")) /\ WF_vars(stopped /\ Return(q, "Resend"))

----------------------------------------------------------------------------
(* Properties.                                                             *)

\* The state of the dispatcher has its type.
TypeOK ==
  /\ at \in [Queries -> Places] /\ status \in [Queries -> Statuses]
  /\ dest \in [Queries -> Dcs] /\ kind \in [Queries -> NetQueryKinds]
  /\ next \in [Queries -> Nat \ {0}] /\ total \in [Queries -> Nat]
  /\ main \in Dcs /\ isValid \in [Dcs -> BOOLEAN] /\ isInited \in [Dcs -> BOOLEAN]
  /\ inits \in [Dcs -> Nat] /\ isMain \in [Dcs -> BOOLEAN] /\ stopped \in BOOLEAN
  /\ moves \in 0..MaxMoves

\* No query is sent to an actor that stop() has dropped or that is not there
\* yet: the stop flag is looked at under the mutex each time.
NoQueryLost == \A q \in Queries : at[q] # "lost"

\* The sessions of a data center are created once, whatever threads come at the
\* same time.
InitOnce == \A d \in Dcs : inits[d] <= 1

\* Every main session was told whether its data center is the main one, also
\* when that changes while it is being made.
MainFlagsAgree ==
  ~stopped => \A d \in Dcs : isInited[d] => (isMain[d] <=> d = main)

\* The threads that race for a data center leave it with one set of sessions, and
\* with a main one that knows its part (wait_dc_init, set_main_dc_id).
SessionsMadeRight == InitOnce /\ MainFlagsAgree

\* Every query is completed, also when the program stops at any moment.
EveryQueryEnds == \A q \in Queries : (at[q] \in InDispatch) ~> (at[q] = "done")
============================================================================
