------------------------------ MODULE Client -------------------------------
(***************************************************************************)
(* The public client (mtproto/Client.cpp), its root actor (MtprotoClient)  *)
(* and AuthManager, from run() to its return and over several runs whose   *)
(* session data the user keeps.                                            *)
(*                                                                         *)
(* The thread in run() is at the place pc; the actors act while it is in   *)
(* run_main.  User threads call stop(), submit_auth_code() and             *)
(* submit_password().  The session and the dispatcher write the database   *)
(* from threads of their own before they return a query.                   *)
(***************************************************************************)
EXTENDS Integers, Sequences, FiniteSets

CONSTANTS
  Dcs,          \* data centers
  DefaultDc,    \* main_dc_id_ of a dispatcher that finds none in the database
  OptionDc,     \* Options::dc_id
  MaxRuns,      \* bound on runs
  MaxErrors,    \* bound on answers that are errors and lost authorizations
  MaxSyncs      \* bound on updatesTooLong

ASSUME ClientAssumption ==
  /\ DefaultDc \in Dcs /\ OptionDc \in Dcs /\ 0 \notin Dcs
  /\ MaxRuns \in Nat \ {0} /\ MaxErrors \in Nat /\ MaxSyncs \in Nat

VARIABLES
  pc,           \* where the thread in run() is
  running,      \* Impl::running
  stopCalled,   \* stop() was called for this run
  pendingCode, pendingPassword,   \* has_pending_code, has_pending_password
  db,           \* the database: main_dc_id (0 if not there), data centers with an authorized key
  mainDc,       \* main_dc_id_ of the dispatcher
  state,        \* AuthManager::state_
  netQueryType, \* AuthManager::net_query_type_
  retryAt,      \* the timeout of AuthManager is set
  query,        \* queries of AuthManager under way, with their stage
  mailbox,      \* messages to AuthManager
  told,         \* the state the callback has told and the user has not acted on
  sync,         \* the sync of MtprotoClient: none, state or difference
  account,      \* [kind, home]: bot, phone, with password, let in at once; its data center
  saved,        \* what the user has saved of export_session
  runs, errors, syncs

runVars == <<pc, running, stopCalled>>
authVars == <<state, netQueryType, retryAt, query, told>>
bounds == <<errors, syncs>>
vars == <<runVars, pendingCode, pendingPassword, db, mainDc, authVars, mailbox, sync, account,
          saved, runs, bounds>>

NoDb == [main |-> 0, keys |-> {}]
Kinds == {"bot", "phone", "phone2fa", "known"}

----------------------------------------------------------------------------
(* Client::run.                                                            *)

\* The dispatcher and init() look for the main data center in different ways.
DispatcherMain(d) == IF d.main = 0 THEN DefaultDc ELSE d.main
EffectiveDc(d) == IF d.main = 0 THEN OptionDc ELSE d.main

ActorAlive == pc \in {"created", "head", "main", "pending"}

\* run() up to the start of the scheduler.  The session data go with the options
\* to the root actor, whose start_up imports them and makes the dispatcher.
Run ==
  /\ pc = "idle" /\ runs < MaxRuns
  /\ pc' = "created" /\ runs' = runs + 1
  /\ db' = saved /\ mainDc' = DispatcherMain(saved)
  /\ UNCHANGED <<running, stopCalled, pendingCode, pendingPassword, authVars, mailbox, sync,
                 account, saved, bounds>>

Start ==
  /\ pc = "created"
  /\ running' = TRUE
  /\ pc' = "head"
  /\ UNCHANGED <<stopCalled, pendingCode, pendingPassword, db, mainDc, authVars, mailbox, sync,
                 account, saved, runs, bounds>>

\* The condition of the loop.  At the end the actors and the database go.
LoopHead ==
  /\ pc = "head"
  /\ pc' = IF running THEN "main" ELSE "ended"
  /\ UNCHANGED <<running, stopCalled, pendingCode, pendingPassword, db, mainDc, authVars, mailbox,
                 sync, account, saved, runs, bounds>>

\* run_main returns.
RunMainReturns ==
  /\ pc = "main" /\ state # "None"
  /\ pc' = "pending"
  /\ UNCHANGED <<running, stopCalled, pendingCode, pendingPassword, db, mainDc, authVars, mailbox,
                 sync, account, saved, runs, bounds>>

\* mutant: the flag is cleared before it is looked at
TakesCodeCleared == FALSE

TakesCode == pendingCode

\* mutant: the flag is not cleared
StillPendingCode == pendingCode

PendingAfterwards == FALSE

\* What was submitted is sent to the actors.
HandlePending ==
  /\ pc = "pending"
  /\ mailbox' = mailbox \o (IF TakesCode THEN <<"code">> ELSE <<>>)
                        \o (IF pendingPassword THEN <<"password">> ELSE <<>>)
  /\ pendingCode' = PendingAfterwards /\ pendingPassword' = FALSE
  /\ pc' = "head"
  /\ UNCHANGED <<running, stopCalled, db, mainDc, authVars, sync, account, saved, runs, bounds>>

----------------------------------------------------------------------------
(* AuthManager and MtprotoClient, in run_main.                             *)

Acts == pc = "main"
Notify(s) == told' = s
Sends(type) ==
  /\ netQueryType' = type
  /\ query' = query \cup {[type |-> type, stage |-> "sent"]}

\* Without a root actor there is nothing to export.
ExportSession == IF ActorAlive THEN db ELSE NoDb

\* The user calls export_session() in the callback.
NotifyOk == state' = "Ok" /\ Notify("Ok") /\ saved' = ExportSession

\* start_up, and init() with what options and database lead to.
StartUp ==
  /\ Acts /\ state = "None"
  /\ \/ /\ EffectiveDc(db) \in db.keys
        /\ NotifyOk
        /\ UNCHANGED <<netQueryType, query>>
     \/ /\ EffectiveDc(db) \notin db.keys
        /\ Sends(IF account.kind = "bot" THEN "BotAuthentication" ELSE "SendCode")
        /\ state' = "WaitPhoneNumber"
        /\ UNCHANGED <<told, saved>>
  /\ UNCHANGED <<runVars, pendingCode, pendingPassword, db, mainDc, retryAt, mailbox, sync,
                 account, runs, bounds>>

IsNext(m) == Acts /\ state # "None" /\ mailbox # <<>> /\ Head(mailbox) = m
Take == mailbox' = Tail(mailbox)

CheckCode ==
  /\ IsNext("code") /\ Take
  /\ Sends("SignIn")
  /\ UNCHANGED <<runVars, pendingCode, pendingPassword, db, mainDc, state, retryAt, told, sync,
                 account, saved, runs, bounds>>

CheckPassword ==
  /\ IsNext("password") /\ Take
  /\ Sends("GetPassword")
  /\ UNCHANGED <<runVars, pendingCode, pendingPassword, db, mainDc, state, retryAt, told, sync,
                 account, saved, runs, bounds>>

OnAuthorizationLost ==
  /\ IsNext("lost") /\ Take
  /\ state' = "LoggingOut"
  /\ UNCHANGED <<runVars, pendingCode, pendingPassword, db, mainDc, netQueryType, retryAt, query,
                 told, sync, account, saved, runs, bounds>>

\* on_result with an error.
OnError ==
  \/ /\ netQueryType = "BotAuthentication"        \* a flood wait
     /\ retryAt' = TRUE
     /\ Notify("Error") /\ UNCHANGED state
  \/ /\ netQueryType = "BotAuthentication"
     /\ state' = "WaitPhoneNumber"
     /\ Notify("Error") /\ UNCHANGED retryAt
  \/ /\ netQueryType \in {"SendCode", "GetPassword"}
     /\ Notify("Error") /\ UNCHANGED <<state, retryAt>>
  \/ /\ netQueryType = "SignIn"
     /\ state' = "WaitCode" /\ Notify("Error") /\ UNCHANGED retryAt
  \/ /\ netQueryType = "CheckPassword"
     /\ state' = "WaitPassword" /\ Notify("Error") /\ UNCHANGED retryAt

OnResultError ==
  /\ IsNext("error") /\ Take
  /\ IF netQueryType = "None" THEN UNCHANGED <<state, told, retryAt>> ELSE OnError
  /\ netQueryType' = "None"
  /\ UNCHANGED <<runVars, pendingCode, pendingPassword, db, mainDc, query, sync, account, saved,
                 runs, bounds>>

\* The server asks for the second factor.
OnPasswordNeeded ==
  /\ IsNext("password needed") /\ Take
  /\ IF netQueryType = "SignIn"
     THEN state' = "WaitPassword" /\ Notify("WaitPassword")
     ELSE UNCHANGED <<state, told>>
  /\ netQueryType' = "None"
  /\ UNCHANGED <<runVars, pendingCode, pendingPassword, db, mainDc, retryAt, query, sync, account,
                 saved, runs, bounds>>

\* on_result with an answer.
OnResultOk ==
  /\ IsNext("ok") /\ Take
  /\ \/ /\ netQueryType = "SendCode" /\ account.kind # "known"
        /\ state' = "WaitCode" /\ Notify("WaitCode") /\ netQueryType' = "None"
        /\ UNCHANGED <<query, saved>>
     \/ /\ netQueryType = "GetPassword"
        /\ Sends("CheckPassword")
        /\ UNCHANGED <<state, told, saved>>
     \/ /\ \/ netQueryType \in {"BotAuthentication", "SignIn", "CheckPassword"}
           \/ netQueryType = "SendCode" /\ account.kind = "known"
        /\ NotifyOk /\ netQueryType' = "None"
        /\ UNCHANGED query
     \/ /\ netQueryType = "None"
        /\ UNCHANGED <<state, told, netQueryType, query, saved>>
  /\ UNCHANGED <<runVars, pendingCode, pendingPassword, db, mainDc, retryAt, sync, account, runs,
                 bounds>>

\* The flood wait of a bot is over.
TimeoutExpired ==
  /\ Acts /\ retryAt
  /\ retryAt' = FALSE
  /\ Sends("BotAuthentication")
  /\ UNCHANGED <<runVars, pendingCode, pendingPassword, db, mainDc, state, told, mailbox, sync,
                 account, saved, runs, bounds>>

\* on_update with updatesTooLong.
UpdatesTooLong ==
  /\ Acts /\ state # "None" /\ syncs < MaxSyncs
  /\ syncs' = syncs + 1
  /\ sync' = IF sync = "none" THEN "state" ELSE sync
  /\ UNCHANGED <<runVars, pendingCode, pendingPassword, db, mainDc, authVars, mailbox, account,
                 saved, runs, errors>>

OnGetStateResult ==
  /\ Acts /\ sync = "state"
  /\ \/ sync' = "difference"
     \/ sync' = "none"
  /\ UNCHANGED <<runVars, pendingCode, pendingPassword, db, mainDc, authVars, mailbox, account,
                 saved, runs, bounds>>

OnGetDifferenceResult ==
  /\ Acts /\ sync = "difference"
  /\ sync' = "none"
  /\ UNCHANGED <<runVars, pendingCode, pendingPassword, db, mainDc, authVars, mailbox, account,
                 saved, runs, bounds>>

----------------------------------------------------------------------------
(* Sessions, dispatcher and servers, in threads of their own.              *)

netUnchanged == <<runVars, pendingCode, pendingPassword, state, netQueryType, retryAt, told, sync,
                  account, saved, runs, syncs>>

\* set_main_dc_id.
MovesTo(d) ==
  /\ mainDc' = d
  /\ db' = IF d = mainDc THEN db ELSE [db EXCEPT !.main = d]

\* An account lives in another data center (PHONE_MIGRATE, USER_MIGRATE).
Migrate(q) ==
  /\ ActorAlive /\ q \in query /\ q.stage = "sent" /\ mainDc # account.home
  /\ MovesTo(account.home)
  /\ UNCHANGED <<netUnchanged, query, mailbox, errors>>

LogsIn(q) ==
  \/ q.type \in {"BotAuthentication", "CheckPassword"}
  \/ q.type = "SignIn" /\ account.kind = "phone"
  \/ q.type = "SendCode" /\ account.kind = "known"

\* The session that gets an authorization stores it (set_main_dc_id returns at
\* once, the main data center is this one) ...
StealAuthorization(q) ==
  /\ ActorAlive /\ q \in query /\ q.stage = "sent" /\ LogsIn(q) /\ mainDc = account.home
  /\ db' = [db EXCEPT !.keys = @ \cup {account.home}]
  /\ query' = (query \ {q}) \cup {[q EXCEPT !.stage = "stored"]}
  /\ UNCHANGED <<netUnchanged, mainDc, mailbox, errors>>

\* mutant: the answer is returned before the authorization is stored
ReturnedAtOnce(q) == "sent"

ReturnedWhen(q) == IF LogsIn(q) THEN "stored" ELSE "sent"

\* ... and then returns the query.
Answer(q) ==
  /\ ActorAlive /\ q \in query /\ mainDc = account.home /\ q.stage = ReturnedWhen(q)
  /\ query' = query \ {q}
  /\ mailbox' = Append(mailbox, IF q.type = "SignIn" /\ account.kind = "phone2fa"
                                THEN "password needed" ELSE "ok")
  /\ UNCHANGED <<netUnchanged, db, mainDc, errors>>

\* An error; 401 also logs out.
Fail(q) ==
  /\ ActorAlive /\ q \in query /\ q.stage = "sent" /\ errors < MaxErrors
  /\ errors' = errors + 1
  /\ query' = query \ {q}
  /\ \/ mailbox' = Append(mailbox, "error")
     \/ mailbox' = mailbox \o <<"lost", "error">>
  /\ UNCHANGED <<netUnchanged, db, mainDc>>

\* The server has revoked the authorization: log_out, and the key is stored
\* without it.  The session that stored an authorization has returned the query.
LoseAuthorization ==
  /\ ActorAlive /\ account.home \in db.keys /\ (\A q \in query : q.stage = "sent") /\ errors < MaxErrors
  /\ errors' = errors + 1
  /\ mailbox' = Append(mailbox, "lost")
  /\ db' = [db EXCEPT !.keys = {}]
  /\ UNCHANGED <<netUnchanged, mainDc, query>>

----------------------------------------------------------------------------
(* The user.                                                               *)

userUnchanged == <<pc, db, mainDc, state, netQueryType, retryAt, query, mailbox, sync,
                   account, bounds>>

\* stop(), from any thread, while run() is under way.
Stop ==
  /\ ~stopCalled /\ ActorAlive
  /\ running' = FALSE /\ stopCalled' = TRUE
  /\ UNCHANGED <<userUnchanged, pendingCode, pendingPassword, told, saved, runs>>

\* One submission for each call of the callback, also after an error.
SubmitAuthCode ==
  /\ told = "WaitCode" \/ (told = "Error" /\ state = "WaitCode")
  /\ pendingCode' = TRUE /\ told' = "none"
  /\ UNCHANGED <<userUnchanged, running, stopCalled, pendingPassword, saved, runs>>

SubmitPassword ==
  /\ told = "WaitPassword" \/ (told = "Error" /\ state = "WaitPassword")
  /\ pendingPassword' = TRUE /\ told' = "none"
  /\ UNCHANGED <<userUnchanged, running, stopCalled, pendingCode, saved, runs>>

Fresh ==
  /\ running' = FALSE /\ stopCalled' = FALSE
  /\ pendingCode' = FALSE /\ pendingPassword' = FALSE
  /\ db' = NoDb /\ mainDc' = DefaultDc
  /\ state' = "None" /\ netQueryType' = "None" /\ retryAt' = FALSE /\ query' = {}
  /\ mailbox' = <<>> /\ told' = "none" /\ sync' = "none"

\* Another client, with the session data saved.
Create ==
  /\ pc = "ended" /\ runs < MaxRuns
  /\ pc' = "idle" /\ Fresh
  /\ UNCHANGED <<account, saved, runs, bounds>>

----------------------------------------------------------------------------
Init ==
  /\ pc = "idle" /\ running = FALSE /\ stopCalled = FALSE
  /\ pendingCode = FALSE /\ pendingPassword = FALSE
  /\ db = NoDb /\ mainDc = DefaultDc
  /\ state = "None" /\ netQueryType = "None" /\ retryAt = FALSE /\ query = {}
  /\ mailbox = <<>> /\ told = "none" /\ sync = "none"
  /\ account \in [kind : Kinds, home : Dcs]
  /\ saved = NoDb /\ runs = 0 /\ errors = 0 /\ syncs = 0

RunStep == Run \/ Start \/ LoopHead \/ RunMainReturns \/ HandlePending
AuthStep ==
  \/ StartUp \/ CheckCode \/ CheckPassword \/ OnAuthorizationLost
  \/ OnResultError \/ OnPasswordNeeded \/ OnResultOk \/ TimeoutExpired
NetStep == \E q \in query : Migrate(q) \/ StealAuthorization(q) \/ Answer(q)

Next ==
  \/ RunStep \/ AuthStep \/ NetStep
  \/ UpdatesTooLong \/ OnGetStateResult \/ OnGetDifferenceResult
  \/ \E q \in query : Fail(q)
  \/ LoseAuthorization
  \/ Stop \/ SubmitAuthCode \/ SubmitPassword \/ Create

Spec == Init /\ [][Next]_vars

\* The thread in run() goes on and each run_main handles what is waiting;
\* servers answer.
Fairness == WF_vars(RunStep) /\ SF_vars(AuthStep) /\ WF_vars(NetStep)

FairSpec == Spec /\ Fairness

----------------------------------------------------------------------------
(* Properties.                                                             *)

Results == {i \in DOMAIN mailbox : mailbox[i] \in {"ok", "error", "password needed"}}

\* While the user submits once per callback, at most one query of AuthManager or
\* its answer is under way, and net_query_type_ tells which it is: on_result,
\* which does not look at the id of a query, takes no answer for another's.
AnswerIsExpected ==
  /\ Cardinality(query) + Cardinality(Results) <= 1
  /\ \A q \in query : q.type = netQueryType
  /\ Results # {} => netQueryType # "None"

\* AuthManager is in state Ok only while the database holds an authorized key,
\* or the message that takes the authorization away is under way.
OkIsStored ==
  state = "Ok" /\ ActorAlive =>
    account.home \in db.keys \/ \E i \in DOMAIN mailbox : mailbox[i] = "lost"

\* A client that is given the session data of an authorized one does not log in
\* again.
RestoredSkipsLogin ==
  [][state = "None" /\ state' # "None" /\ db.keys # {} => state' = "Ok"]_vars

\* run() returns after stop().
StopEndsRun == stopCalled ~> (pc = "ended")

\* Every code and every password that is submitted leads to a call of the
\* callback, unless the client is stopped.
SubmissionsAnswered ==
  (pendingCode \/ pendingPassword) ~> (told \in {"WaitPassword", "Ok", "Error"} \/ pc = "ended")

============================================================================
