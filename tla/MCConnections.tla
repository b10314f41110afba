--------------------------- MODULE MCConnections ---------------------------
(***************************************************************************)
(* The client and its connections, in two parts that share no state.       *)
(*                                                                         *)
(* "client": the public client over two runs; Options::dc_id names the     *)
(* dispatcher's default data center.                                       *)
(*                                                                         *)
(* "creator": ConnectionCreator with its sessions, in five scenarios: two  *)
(* sessions, a change of the network, a fault and a loss; two sessions     *)
(* whose connections are checked, and a fault; one session with a          *)
(* connection to be checked, and on_online and a fault, or a change of the *)
(* network; one session with two connections left by handshakes, a change  *)
(* of the network, a fault and a loss.                                     *)
(***************************************************************************)
EXTENDS ConnectionCreator, Client

CONSTANTS r1, r2

VARIABLE part

Plan(s, g, c, o, f, l) ==
  [sessions |-> s, generations |-> g, checks |-> c, online |-> o, faults |-> f, losses |-> l,
   handshakes |-> 0]
NoWork == Plan({}, 1, FALSE, 0, 0, 0)
MCConnectionPlans ==
  { NoWork, Plan({r1, r2}, 2, FALSE, 0, 1, 1), Plan({r1, r2}, 1, TRUE, 0, 1, 0),
    Plan({r1}, 1, TRUE, 1, 1, 0), Plan({r1}, 2, TRUE, 0, 0, 0),
    [Plan({r1}, 2, FALSE, 0, 1, 1) EXCEPT !.handshakes = 2] }

\* A client whose last run has returned owes no step.
ClientAtRest ==
  /\ pc = "ended" /\ running = FALSE /\ stopCalled = TRUE
  /\ pendingCode = FALSE /\ pendingPassword = FALSE
  /\ db = NoDb /\ mainDc = DefaultDc
  /\ state = "None" /\ netQueryType = "None" /\ retryAt = FALSE /\ query = {}
  /\ mailbox = <<>> /\ told = "none" /\ sync = "none"
  /\ account = [kind |-> "bot", home |-> DefaultDc]
  /\ saved = NoDb /\ runs = MaxRuns /\ errors = 0 /\ syncs = 0

\* Without sessions, and with the network known, the creator owes none either.
CreatorAtRest ==
  /\ limits = NoWork
  /\ queries = <<>> /\ pending = 0 /\ checking = 0 /\ readyConns = <<>>
  /\ timerSet = FALSE /\ wakeup = FALSE /\ creatorGen = 1 /\ attempts = NoAttempt
  /\ requests = {} /\ connState = [r \in Requesters |-> "gone"]
  /\ connGen = [r \in Requesters |-> 0] /\ cached = [r \in Requesters |-> 0]
  /\ sessionGen = [r \in Requesters |-> 0]
  /\ stateGen = 1 /\ onlineNews = 0

PartsInit ==
  \/ part = "client" /\ Init /\ CreatorAtRest
  \/ part = "creator" /\ ConnectionInit /\ limits # NoWork /\ ClientAtRest

PartsNext ==
  /\ UNCHANGED part
  /\ \/ part = "client" /\ Next /\ UNCHANGED connectionVars
     \/ part = "creator" /\ ConnectionNext /\ UNCHANGED vars

PartsSpec ==
  /\ PartsInit
  /\ [][PartsNext]_<<part, connectionVars, vars>>
  /\ ConnectionFair /\ Fairness
============================================================================
