------------------------ MODULE TempAuthKeyWatchdog ------------------------
(***************************************************************************)
(* TempAuthKeyWatchdog (td/telegram/net/TempAuthKeyWatchdog.h) counts the  *)
(* temporary keys that sessions have registered and tells the server, with *)
(* auth_dropTempAuthKeys, to drop all others.  Registrations are gathered  *)
(* for a while before a query is sent; one query is sent at a time; after  *)
(* the last change the query is repeated a few times.                      *)
(*                                                                         *)
(* Points in time are kept as the number of steps until they come; a timer *)
(* fires before time passes beyond it.                                     *)
(* The calls of one session arrive in the order in which it makes them.    *)
(***************************************************************************)
EXTENDS Integers, Sequences, FiniteSets

CONSTANTS
  Keys,         \* identifiers of temporary keys
  Sessions,     \* sessions that register keys
  Width,        \* number of values of the counters, 2^32 in the code
  SyncWait, SyncWaitMax, ResyncDelay, MaxResyncCount,
  MaxChanges,   \* bound on the keys that sessions take
  MaxErrors     \* bound on queries that fail

ASSUME WatchdogAssumption ==
  /\ Width \in Nat \ {0, 1}
  /\ SyncWait \in Nat /\ SyncWaitMax \in Nat /\ ResyncDelay \in Nat
  /\ MaxResyncCount \in Nat
  /\ MaxChanges \in Nat /\ MaxErrors \in Nat

VARIABLES
  idCount,      \* id_count_, 0 where the map has no entry
  syncAt,       \* sync_at_, Never when it is 0
  resyncCount,  \* resync_count_
  needSync,     \* need_sync_
  runSync,      \* run_sync_
  timer,        \* the actor's timeout, Never when there is none
  closeFlag,    \* G()->close_flag()
  \* the sessions and what they have sent to the watchdog
  holds,        \* holds[s]: the keys s has and has not let go
  calls,        \* calls[s]: pairs <<1 or -1, key>>, calls under way
  changes,
  \* the query and the server
  listed,       \* the keys named in the query sent last
  inFlight,     \* "none", "sent", "executed"
  acked,        \* the keys named in the last query that succeeded
  known,        \* the keys the server knows
  errors,
  \* history
  age           \* for how long a sync has been due

syncVars == <<syncAt, resyncCount, needSync, runSync, timer>>
sessionVars == <<holds, calls, changes>>
serverVars == <<listed, inFlight, acked, known, errors>>
watchdogVars == <<idCount, syncVars, closeFlag, sessionVars, serverVars, age>>

Never == -1

Registered == {k \in Keys : idCount[k] # 0}
Due(need, run) == need /\ ~run

----------------------------------------------------------------------------
(* The watchdog.  The operators below assign syncVars and age.           *)

\* mutant: the deadline moves with every call
SyncDeadlineMoves == SyncWaitMax

\* sync_at_ after try_sync: set by the first call, kept by the next ones.
SyncDeadline == IF syncAt = Never THEN SyncWaitMax ELSE syncAt

Earlier(a, b) == IF a < b THEN a ELSE b

KeepAge(need, run) == age' = IF Due(needSync, runSync) /\ Due(need, run) THEN age ELSE 0

MayArm(run) == ~run

\* Whether try_sync repeats a query after the last change.
Repeats(resync) == resync > 0 /\ Cardinality({k \in Keys : idCount'[k] # 0}) > 1

\* try_sync, where need, run and resync are the values of need_sync_, run_sync_
\* and resync_count_ on entry.
TrySync(need, run, resync) ==
  LET wait == MayArm(run) /\ need
      repeat == MayArm(run) /\ ~need /\ Repeats(resync)
  IN  /\ runSync' = run
      /\ needSync' = (need \/ repeat)
      /\ resyncCount' = IF repeat THEN resync - 1 ELSE resync
      /\ syncAt' = IF wait THEN SyncDeadline ELSE IF repeat THEN ResyncDelay ELSE syncAt
      /\ timer' = IF wait THEN Earlier(SyncDeadline, SyncWait)
                  ELSE IF repeat THEN ResyncDelay ELSE timer
      /\ KeepAge(need \/ repeat, run)

NeedSync == TrySync(TRUE, runSync, MaxResyncCount)

\* register_auth_key_id_impl (d = 1) and unregister_auth_key_id_impl (d = -1),
\* which call need_sync; the counter wraps.
Count(k, d) == idCount' = [idCount EXCEPT ![k] = (@ + d) % Width]

HandleCall(s) ==
  /\ calls[s] # <<>>
  /\ Count(Head(calls[s])[2], Head(calls[s])[1])
  /\ NeedSync
  /\ calls' = [calls EXCEPT ![s] = Tail(@)]
  /\ UNCHANGED <<closeFlag, holds, changes, serverVars>>

TimeoutExpired ==
  /\ timer = 0
  /\ timer' = Never
  /\ IF ~needSync
     THEN UNCHANGED <<syncAt, resyncCount, needSync, runSync, listed, inFlight, age>>
     ELSE /\ needSync' = FALSE /\ runSync' = TRUE /\ syncAt' = Never /\ age' = 0
          /\ IF closeFlag
             THEN UNCHANGED <<listed, inFlight>>
             ELSE listed' = Registered /\ inFlight' = "sent"
          /\ UNCHANGED resyncCount
  /\ UNCHANGED <<idCount, closeFlag, sessionVars, acked, known, errors>>

\* mutant: the failed query is not repeated
NeedAfterErrorForgets == needSync

NeedAfterError == TRUE

OnResultError ==
  /\ inFlight # "none"
  /\ closeFlag \/ errors < MaxErrors
  /\ inFlight' = "none"
  /\ errors' = IF closeFlag THEN errors ELSE errors + 1
  /\ IF closeFlag
     THEN /\ runSync' = FALSE /\ KeepAge(needSync, FALSE)
          /\ UNCHANGED <<idCount, syncAt, resyncCount, needSync, timer>>
     ELSE UNCHANGED idCount /\ TrySync(NeedAfterError, FALSE, MaxResyncCount)
  /\ UNCHANGED <<closeFlag, sessionVars, listed, acked, known>>

\* mutant: run_sync_ stays set after an answer
OnResultOkKeepsRunning ==
  /\ inFlight = "executed"
  /\ inFlight' = "none"
  /\ acked' = listed
  /\ UNCHANGED idCount
  /\ TrySync(needSync, TRUE, resyncCount)
  /\ UNCHANGED <<closeFlag, sessionVars, listed, known, errors>>

OnResultOk ==
  /\ inFlight = "executed"
  /\ inFlight' = "none"
  /\ acked' = listed
  /\ UNCHANGED idCount
  /\ TrySync(needSync, FALSE, resyncCount)
  /\ UNCHANGED <<closeFlag, sessionVars, listed, known, errors>>

----------------------------------------------------------------------------
(* Sessions, the server, time and the end of the program.                  *)

\* A session gets a key from the server and registers it, and then lets go the
\* key it had, if any (the destructor of RegisteredAuthKeyImpl).
TakeKey(s, k) ==
  /\ changes < MaxChanges /\ k \notin holds[s]
  /\ changes' = changes + 1
  /\ known' = known \cup {k}
  /\ holds' = [holds EXCEPT ![s] = {k}]
  /\ calls' = [calls EXCEPT ![s] =
       @ \o <<<<1, k>>>> \o (IF holds[s] = {} THEN <<>> ELSE <<<<-1, CHOOSE h \in holds[s] : TRUE>>>>)]
  /\ UNCHANGED <<idCount, syncVars, closeFlag, listed, inFlight, acked, errors, age>>

\* A session ends.
LetGo(s) ==
  /\ changes < MaxChanges /\ holds[s] # {}
  /\ changes' = changes + 1
  /\ holds' = [holds EXCEPT ![s] = {}]
  /\ calls' = [calls EXCEPT ![s] = Append(@, <<-1, CHOOSE h \in holds[s] : TRUE>>)]
  /\ UNCHANGED <<idCount, syncVars, closeFlag, serverVars, age>>

\* The server executes auth_dropTempAuthKeys.
Drop ==
  /\ inFlight = "sent"
  /\ inFlight' = "executed"
  /\ known' = known \cap listed
  /\ UNCHANGED <<idCount, syncVars, closeFlag, sessionVars, listed, acked, errors, age>>

Close ==
  /\ ~closeFlag
  /\ closeFlag' = TRUE
  /\ UNCHANGED <<idCount, syncVars, sessionVars, serverVars, age>>

Passed(t) == IF t > 0 THEN t - 1 ELSE t

Tick ==
  /\ timer # 0
  /\ timer' = Passed(timer) /\ syncAt' = Passed(syncAt)
  /\ age' = IF Due(needSync, runSync) /\ ~closeFlag THEN age + 1 ELSE 0
  /\ UNCHANGED <<idCount, resyncCount, needSync, runSync, closeFlag, sessionVars, serverVars>>

WatchdogInit ==
  /\ idCount = [k \in Keys |-> 0]
  /\ syncAt = Never /\ resyncCount = 0 /\ needSync = FALSE /\ runSync = FALSE /\ timer = Never
  /\ closeFlag = FALSE
  /\ holds = [s \in Sessions |-> {}] /\ calls = [s \in Sessions |-> <<>>] /\ changes = 0
  /\ listed = {} /\ inFlight = "none" /\ acked = {} /\ known = {} /\ errors = 0
  /\ age = 0

WatchdogNext ==
  \/ \E s \in Sessions : HandleCall(s) \/ LetGo(s)
  \/ \E s \in Sessions, k \in Keys : TakeKey(s, k)
  \/ TimeoutExpired \/ OnResultError \/ OnResultOk
  \/ Drop \/ Close \/ Tick

WatchdogSpec == WatchdogInit /\ [][WatchdogNext]_watchdogVars

\* The actor handles its messages and timers; the server answers.
WatchdogFairness ==
  /\ \A s \in Sessions : WF_watchdogVars(HandleCall(s))
  /\ WF_watchdogVars(TimeoutExpired) /\ WF_watchdogVars(OnResultOk) /\ WF_watchdogVars(Drop) /\ WF_watchdogVars(Tick)

WatchdogFairSpec == WatchdogSpec /\ WatchdogFairness

----------------------------------------------------------------------------
(* Properties.                                                             *)

SyncTypeOK ==
  /\ syncAt \in Nat \cup {Never} /\ timer \in Nat \cup {Never} /\ age \in Nat
  /\ resyncCount \in 0..MaxResyncCount
  /\ needSync \in BOOLEAN /\ runSync \in BOOLEAN

CallsTypeOK ==
  /\ holds \in [Sessions -> SUBSET Keys]
  /\ calls \in [Sessions -> Seq({1, -1} \X Keys)]

QueryTypeOK ==
  /\ closeFlag \in BOOLEAN /\ listed \subseteq Keys /\ acked \subseteq Keys
  /\ inFlight \in {"none", "sent", "executed"}

\* The state of the watchdog has its type; at most MaxResyncCount repetitions
\* are left.
WatchdogTypeOK == idCount \in [Keys -> 0..Width - 1] /\ SyncTypeOK /\ CallsTypeOK /\ QueryTypeOK

\* The timer runs exactly while a sync is due and no query is under way: no
\* registration is left without a sync to come, and the CHECK of
\* timeout_expired cannot fail.
TimerWhenDue ==
  /\ timer # Never => Due(needSync, runSync)
  /\ Due(needSync, runSync) /\ ~closeFlag => timer # Never

\* When nothing is due and no query is under way, the server has confirmed
\* exactly the keys registered now; while a query is under way and nothing
\* else is due, it names exactly these.
IdleMeansSynced ==
  ~closeFlag /\ ~needSync => (IF runSync THEN listed ELSE acked) = Registered

\* A sync that is due is not put off beyond the longest of the two delays by
\* calls that keep arriving.
NotPostponed ==
  Due(needSync, runSync) /\ ~closeFlag =>
    age <= (IF SyncWaitMax < ResyncDelay THEN ResyncDelay ELSE SyncWaitMax)

\* Once the sessions leave their keys alone the server comes to know no key
\* that none of them holds.
ServerForgets == <>[](closeFlag \/ known \subseteq UNION {holds[s] : s \in Sessions})
============================================================================
