------------------------------- MODULE MCKeys -------------------------------
(***************************************************************************)
(* Authorization keys, in two parts that share no state.                   *)
(*                                                                         *)
(* "session": the keys of one session, with and without PFS, with faults   *)
(* and with keys that grow old.                                            *)
(*                                                                         *)
(* "watchdog": the registry of temporary keys, with two sessions, two      *)
(* keys, counters of two bits and a server that answers.                   *)
(***************************************************************************)
EXTENDS SessionAuth, TempAuthKeyWatchdog

VARIABLE part

Plain == [pfs |-> TRUE, main |-> TRUE, faults |-> 3, ages |-> 0]

AllConditions ==
  {Plain, [Plain EXCEPT !.main = FALSE], [Plain EXCEPT !.pfs = FALSE, !.main = FALSE],
   [Plain EXCEPT !.faults = 1, !.ages = 2]}

\* A session that is closed, with its keys, owes no step.
SessionAtRest ==
  /\ mainKey = 1 /\ tmpKey = 2 /\ tmpBound = TRUE /\ tmpAge = "fresh"
  /\ cond = Plain /\ aged = FALSE /\ usePfs = TRUE /\ needCheck = FALSE
  /\ beingBound = 0 /\ lastBind = 0 /\ beingChecked = 0 /\ lastCheck = 0
  /\ handshakes = {} /\ running = {} /\ ready = FALSE /\ sessionClosed = TRUE
  /\ sent = {} /\ mailbox = <<>> /\ nextKey = 3 /\ nextQuery = 1
  /\ knownKeys = {1, 2} /\ bound = {<<2, 1>>} /\ revoked = FALSE /\ usedUnder = {}

\* The watchdog with no key registered has nothing to do.
PartsInit ==
  /\ WatchdogInit
  /\ \/ part = "session" /\ AuthInit
     \/ part = "watchdog" /\ SessionAtRest

PartsNext ==
  /\ UNCHANGED part
  /\ \/ part = "session" /\ AuthNext /\ UNCHANGED watchdogVars
     \/ part = "watchdog" /\ WatchdogNext /\ UNCHANGED authVars

PartsSpec ==
  /\ PartsInit
  /\ [][PartsNext]_<<part, authVars, watchdogVars>>
  /\ AuthFair /\ WatchdogFairness
=============================================================================
