---------------------------- MODULE SessionAuth ----------------------------
(***************************************************************************)
(* The authorization keys of one Session actor (td/telegram/net/Session.cpp *)
(* and td/mtproto/AuthData.h): the main key, the temporary key, its binding *)
(* to the main key, and the check of the main key when binding fails.  The *)
(* answers to the session's own queries and the results of handshakes wait *)
(* in its mailbox, in the order in which they were posted.  The life of    *)
(* ordinary queries is in SessionQueries; here they are sent or not.  CDN  *)
(* sessions and sessions that destroy their key are not modelled.          *)
(***************************************************************************)
EXTENDS Integers, Sequences

CONSTANTS
  Conditions,   \* a set of records: pfs and main, the use_pfs_ and is_main_ the
                \* session is made with; how many faults (lost connections, keys
                \* and bindings the server loses, errors) and how many steps of
                \* aging of a temporary key there may be
  MaxKeys,      \* bound on the keys generated
  MaxQueries    \* bound on the session's own queries

ASSUME KeysAssumption ==
  /\ Conditions \subseteq [pfs : BOOLEAN, main : BOOLEAN, faults : Nat, ages : Nat]
  /\ MaxKeys \in Nat /\ MaxQueries \in Nat

VARIABLES
  mainKey,      \* main_auth_key_, 0 when there is none
  tmpKey,       \* tmp_auth_key_, 0 when there is none
  tmpBound,     \* tmp_auth_key_.auth_flag()
  tmpAge,       \* "fresh", "expiring" (within the refresh margin), "expired"
  usePfs,       \* auth_data_.use_pfs()
  needCheck,    \* need_check_main_key_
  beingBound,   \* being_binded_tmp_auth_key_id_
  lastBind,     \* last_bind_query_id_
  beingChecked, \* being_checked_main_auth_key_id_
  lastCheck,    \* last_check_query_id_
  handshakes,   \* the handshakes with flag_ set
  running,      \* those that have not posted their result yet
  ready,        \* the main connection is in state Ready
  sessionClosed, \* close_flag_
  sent,         \* the session's own queries that are sent
  mailbox,      \* the messages posted to the session
  nextKey, nextQuery,
  \* the server
  knownKeys,    \* the keys it knows
  bound,        \* pairs <<temporary key, main key>> it has ever bound
  revoked,      \* the user has ended the authorization
  usedUnder,    \* pairs of keys under which ordinary queries were sent
  cond,         \* which of Conditions, with the faults and the aging that are left
  aged          \* a temporary key has aged

clientVars == <<mainKey, tmpKey, tmpBound, tmpAge, usePfs, needCheck>>
queryVars == <<beingBound, lastBind, beingChecked, lastCheck>>
authVars == <<clientVars, queryVars, handshakes, running, ready, sessionClosed, sent, mailbox,
          nextKey, nextQuery, knownKeys, bound, revoked, usedUnder, cond, aged>>

OneFault == cond' = [cond EXCEPT !.faults = @ - 1]

Kinds == {"main", "tmp"}
KeyIds == 1..MaxKeys

\* has_tmp_auth_key, has_auth_key, and is_ready for a session that has a salt,
\* which its connection sees to
HasTmpKey == usePfs /\ tmpKey # 0 /\ tmpAge # "expired"
HasAuthKey == IF usePfs THEN HasTmpKey ELSE mainKey # 0
IsReady == mainKey # 0 /\ (usePfs => HasTmpKey)
AuthKey == IF usePfs THEN tmpKey ELSE mainKey

\* get_bind_flag
BindFlag == ~usePfs \/ tmpBound

\* on_closed: the session's own queries are of unknown state.
LoseConnection ==
  /\ ready' = FALSE
  /\ sent' = {[q EXCEPT !.unknown = TRUE] : q \in sent}

----------------------------------------------------------------------------
(* loop()                                                                  *)

\* connection_open and connection_open_finish
Connect ==
  /\ ~ready /\ ~sessionClosed /\ HasAuthKey
  /\ ready' = TRUE
  /\ UNCHANGED <<clientVars, queryVars, handshakes, running, sessionClosed, sent, mailbox,
                 nextKey, nextQuery, knownKeys, bound, revoked, usedUnder, cond, aged>>

\* auth_loop and create_gen_auth_key_actor
NeedHandshake(kind) ==
  IF kind = "main" THEN mainKey = 0
  ELSE usePfs /\ (tmpKey = 0 \/ tmpAge \in {"expiring", "expired"})

StartHandshake(kind) ==
  /\ NeedHandshake(kind) /\ kind \notin handshakes
  /\ handshakes' = handshakes \union {kind} /\ running' = running \union {kind}
  /\ UNCHANGED <<clientVars, queryVars, ready, sessionClosed, sent, mailbox, nextKey,
                 nextQuery, knownKeys, bound, revoked, usedUnder, cond, aged>>

\* need_send_query
NeedSendQuery == ~sessionClosed /\ ~needCheck /\ BindFlag

SendQueries ==
  /\ ready /\ IsReady /\ NeedSendQuery
  /\ usedUnder' = usedUnder \union {<<AuthKey, mainKey>>}
  /\ UNCHANGED <<clientVars, queryVars, handshakes, running, ready, sessionClosed, sent,
                 mailbox, nextKey, nextQuery, knownKeys, bound, revoked, cond, aged>>

\* need_send_bind_key, connection_send_bind_key
SendBindKey ==
  /\ ready /\ IsReady /\ ~BindFlag /\ tmpKey # beingBound
  /\ nextQuery <= MaxQueries
  /\ nextQuery' = nextQuery + 1
  /\ beingBound' = tmpKey /\ lastBind' = nextQuery
  /\ sent' = sent \union {[id |-> nextQuery, kind |-> "bind", tmp |-> tmpKey, main |-> mainKey,
                           result |-> "none", unknown |-> FALSE]}
  /\ UNCHANGED <<clientVars, beingChecked, lastCheck, handshakes, running, ready,
                 sessionClosed, mailbox, nextKey, knownKeys, bound, revoked, usedUnder,
                 cond, aged>>

\* need_send_check_main_key, connection_send_check_main_key
SendCheckMainKey ==
  /\ ready /\ IsReady /\ needCheck /\ mainKey # beingChecked
  /\ nextQuery <= MaxQueries
  /\ nextQuery' = nextQuery + 1
  /\ beingChecked' = mainKey /\ lastCheck' = nextQuery
  /\ sent' = sent \union {[id |-> nextQuery, kind |-> "check", tmp |-> 0, main |-> mainKey,
                           result |-> "none", unknown |-> FALSE]}
  /\ UNCHANGED <<clientVars, beingBound, lastBind, handshakes, running, ready,
                 sessionClosed, mailbox, nextKey, knownKeys, bound, revoked, usedUnder,
                 cond, aged>>

\* do_flush without a key: the connection is closed.
FlushWithoutKey ==
  /\ ready /\ ~HasAuthKey
  /\ LoseConnection
  /\ UNCHANGED <<clientVars, queryVars, handshakes, running, sessionClosed, mailbox,
                 nextKey, nextQuery, knownKeys, bound, revoked, usedUnder, cond, aged>>

----------------------------------------------------------------------------
(* Handlers                                                                *)

First(kind) == mailbox # <<>> /\ Head(mailbox).kind = kind

\* mutant: the key keeps the flag of the one it replaces
OnHandshakeReadyKeepsFlag(kind) ==
  /\ First(kind) /\ Head(mailbox).result = "ok"
  /\ mailbox' = Tail(mailbox)
  /\ handshakes' = handshakes \ {kind}
  /\ IF kind = "main"
     THEN mainKey' = Head(mailbox).main /\ UNCHANGED <<tmpKey, tmpAge>>
     ELSE tmpKey' = Head(mailbox).tmp /\ tmpAge' = "fresh" /\ UNCHANGED mainKey
  /\ IF ready THEN LoseConnection ELSE UNCHANGED <<ready, sent>>
  /\ UNCHANGED <<usePfs, needCheck, tmpBound, queryVars, running, sessionClosed, nextKey,
                 nextQuery, knownKeys, bound, revoked, usedUnder, cond, aged>>

\* on_handshake_ready with a finished handshake
OnHandshakeReady(kind) ==
  /\ First(kind) /\ Head(mailbox).result = "ok"
  /\ mailbox' = Tail(mailbox)
  /\ handshakes' = handshakes \ {kind}
  /\ IF kind = "main"
     THEN mainKey' = Head(mailbox).main /\ UNCHANGED <<tmpKey, tmpBound, tmpAge>>
     ELSE /\ tmpKey' = Head(mailbox).tmp /\ tmpBound' = FALSE /\ tmpAge' = "fresh"
          /\ UNCHANGED mainKey
  /\ IF ready THEN LoseConnection ELSE UNCHANGED <<ready, sent>>
  /\ UNCHANGED <<usePfs, needCheck, queryVars, running, sessionClosed, nextKey, nextQuery,
                 knownKeys, bound, revoked, usedUnder, cond, aged>>

\* mutant: flag_ stays set
OnHandshakeFailedKeepsFlag(kind) ==
  /\ First(kind) /\ Head(mailbox).result = "error"
  /\ mailbox' = Tail(mailbox)
  /\ UNCHANGED <<clientVars, queryVars, handshakes, running, ready, sessionClosed, sent,
                 nextKey, nextQuery, knownKeys, bound, revoked, usedUnder, cond, aged>>

\* on_handshake_ready with an error or an unfinished handshake
OnHandshakeFailed(kind) ==
  /\ First(kind) /\ Head(mailbox).result = "error"
  /\ mailbox' = Tail(mailbox)
  /\ handshakes' = handshakes \ {kind}
  /\ UNCHANGED <<clientVars, queryVars, running, ready, sessionClosed, sent, nextKey,
                 nextQuery, knownKeys, bound, revoked, usedUnder, cond, aged>>

\* mutant: the main key is dropped without a check
OnEncryptedMessageInvalidAtOnce(immune) ==
  /\ mainKey' = 0
  /\ UNCHANGED <<needCheck, usePfs>>

\* ENCRYPTED_MESSAGE_INVALID in on_bind_result
OnEncryptedMessageInvalid(immune) ==
  IF immune THEN UNCHANGED <<mainKey, needCheck, usePfs>>
  ELSE IF cond.pfs THEN needCheck' = TRUE /\ usePfs' = FALSE /\ UNCHANGED mainKey
  ELSE mainKey' = 0 /\ UNCHANGED <<needCheck, usePfs>>

\* on_bind_result: the answer to the last query to bind a key; immune when the
\* main key is too young, or was used too recently, to be doubted.
OnBindResult(immune) ==
  LET q == Head(mailbox) IN
  /\ First("bind") /\ q.id = lastBind
  /\ immune => q.result = "invalid" /\ cond.faults > 0
  /\ IF immune THEN OneFault ELSE UNCHANGED cond
  /\ UNCHANGED aged
  /\ mailbox' = Tail(mailbox)
  /\ beingBound' = 0 /\ lastBind' = 0
  /\ CASE q.result = "ok" ->
            tmpBound' = TRUE /\ UNCHANGED <<mainKey, needCheck, usePfs, ready, sent>>
       [] q.result = "ttl" ->
            UNCHANGED <<mainKey, tmpBound, needCheck, usePfs, ready, sent>>
       [] OTHER ->
            /\ IF q.result = "invalid" THEN OnEncryptedMessageInvalid(immune)
               ELSE UNCHANGED <<mainKey, needCheck, usePfs>>
            /\ IF ready THEN LoseConnection ELSE UNCHANGED <<ready, sent>>
            /\ UNCHANGED tmpBound
  /\ UNCHANGED <<tmpKey, tmpAge, beingChecked, lastCheck, handshakes, running,
                 sessionClosed, nextKey, nextQuery, knownKeys, bound, revoked, usedUnder>>

\* on_check_key_result: any answer but -404 will do.
OnCheckKeyResult ==
  /\ First("check") /\ Head(mailbox).id = lastCheck
  /\ mailbox' = Tail(mailbox)
  /\ beingChecked' = 0 /\ lastCheck' = 0
  /\ needCheck' = FALSE /\ usePfs' = TRUE
  /\ UNCHANGED <<mainKey, tmpKey, tmpBound, tmpAge, beingBound, lastBind, handshakes,
                 running, ready, sessionClosed, sent, nextKey, nextQuery, knownKeys, bound,
                 revoked, usedUnder, cond, aged>>

\* on_result for an older query
OnStaleResult ==
  /\ First("bind") \/ First("check")
  /\ Head(mailbox).id \notin {lastBind, lastCheck}
  /\ mailbox' = Tail(mailbox)
  /\ UNCHANGED <<clientVars, queryVars, handshakes, running, ready, sessionClosed, sent,
                 nextKey, nextQuery, knownKeys, bound, revoked, usedUnder, cond, aged>>

\* on_closed
OnClosed ==
  /\ ready /\ cond.faults > 0
  /\ OneFault /\ UNCHANGED aged
  /\ LoseConnection
  /\ UNCHANGED <<clientVars, queryVars, handshakes, running, sessionClosed, mailbox,
                 nextKey, nextQuery, knownKeys, bound, revoked, usedUnder>>

\* on_closed with -404: the server does not know the key in use.  When it was to be
\* checked, a session of another DC fails and the main one logs the user out.
OnClosed404 ==
  /\ ready /\ HasAuthKey /\ AuthKey \notin knownKeys
  /\ LoseConnection
  /\ \/ /\ usePfs
        /\ tmpKey' = 0 /\ tmpBound' = FALSE /\ tmpAge' = "fresh"
        /\ UNCHANGED <<mainKey, usePfs, sessionClosed>>
     \/ /\ ~usePfs /\ ~cond.pfs
        /\ usePfs' = TRUE
        /\ UNCHANGED <<mainKey, tmpKey, tmpBound, tmpAge, sessionClosed>>
     \/ /\ ~usePfs /\ cond.pfs
        /\ mainKey' = IF needCheck THEN 0 ELSE mainKey
        /\ sessionClosed' = (sessionClosed \/ (needCheck /\ ~cond.main))
        /\ UNCHANGED <<tmpKey, tmpBound, tmpAge, usePfs>>
  /\ UNCHANGED <<needCheck, queryVars, handshakes, running, mailbox, nextKey, nextQuery,
                 knownKeys, bound, revoked, usedUnder, cond, aged>>

\* on_message_result_error with AUTH_KEY_PERM_EMPTY for an ordinary query: the
\* server has forgotten the binding.
OnPermEmpty ==
  /\ ready /\ HasTmpKey /\ <<tmpKey, mainKey>> \in usedUnder /\ cond.faults > 0
  /\ OneFault /\ UNCHANGED aged
  /\ tmpKey' = 0 /\ tmpBound' = FALSE /\ tmpAge' = "fresh"
  /\ UNCHANGED <<mainKey, usePfs, needCheck, queryVars, handshakes, running, ready,
                 sessionClosed, sent, mailbox, nextKey, nextQuery, knownKeys, bound,
                 revoked, usedUnder>>

\* on_message_result_error with another error 401: a session of another DC drops
\* its keys, the main one is closed and the user logged out.
OnUnauthorized ==
  /\ ready /\ HasAuthKey /\ <<AuthKey, mainKey>> \in usedUnder /\ revoked
  /\ tmpKey' = (IF cond.main \/ usePfs THEN 0 ELSE tmpKey)
  /\ tmpBound' = (tmpBound /\ tmpKey' # 0)
  /\ tmpAge' = (IF tmpKey' = 0 THEN "fresh" ELSE tmpAge)
  /\ IF cond.main THEN sessionClosed' = TRUE /\ UNCHANGED mainKey
     ELSE mainKey' = 0 /\ UNCHANGED sessionClosed
  /\ revoked' = FALSE
  /\ UNCHANGED <<usePfs, needCheck, queryVars, handshakes, running, ready, sent, mailbox,
                 nextKey, nextQuery, knownKeys, bound, usedUnder, cond, aged>>

\* The temporary key grows old.
Age ==
  /\ cond.ages > 0 /\ tmpKey # 0 /\ tmpAge # "expired"
  /\ cond' = [cond EXCEPT !.ages = @ - 1] /\ aged' = TRUE
  /\ tmpAge' = IF tmpAge = "fresh" THEN "expiring" ELSE "expired"
  /\ UNCHANGED <<mainKey, tmpKey, tmpBound, usePfs, needCheck, queryVars, handshakes,
                 running, ready, sessionClosed, sent, mailbox, nextKey, nextQuery,
                 knownKeys, bound, revoked, usedUnder>>

----------------------------------------------------------------------------
(* The server (external)                                                   *)

\* With PFS an answer ENCRYPTED_MESSAGE_INVALID may also have other reasons.
AnswerBind(q, result) ==
  /\ q \in sent /\ q.kind = "bind" /\ ready
  /\ usePfs /\ tmpKey = q.tmp /\ q.tmp \in knownKeys
  /\ \/ result = "ok" /\ q.main \in knownKeys
     \/ result = "invalid" /\ (q.main \notin knownKeys \/ (cond.pfs /\ cond.faults > 0))
     \/ result = "error" /\ q.main \in knownKeys /\ cond.faults > 0
  /\ IF result # "ok" /\ q.main \in knownKeys THEN OneFault ELSE UNCHANGED cond
  /\ UNCHANGED aged
  /\ bound' = IF result = "ok" THEN bound \union {<<q.tmp, q.main>>} ELSE bound
  /\ sent' = sent \ {q}
  /\ mailbox' = Append(mailbox, [q EXCEPT !.result = result])
  /\ UNCHANGED <<clientVars, queryVars, handshakes, running, ready, sessionClosed, nextKey,
                 nextQuery, knownKeys, revoked, usedUnder>>

AnswerCheck(q) ==
  /\ q \in sent /\ q.kind = "check" /\ ready
  /\ ~usePfs /\ mainKey = q.main /\ q.main \in knownKeys
  /\ sent' = sent \ {q}
  /\ mailbox' = Append(mailbox, [q EXCEPT !.result = "ok"])
  /\ UNCHANGED <<clientVars, queryVars, handshakes, running, ready, sessionClosed, nextKey,
                 nextQuery, knownKeys, bound, revoked, usedUnder, cond, aged>>

\* The message was lost with its connection: resend_query makes the dispatcher
\* fail the query, as its dispatch_ttl_ is 0.
LostQuery(q) ==
  /\ q \in sent /\ q.unknown /\ ready /\ HasAuthKey /\ AuthKey \in knownKeys
  /\ sent' = sent \ {q}
  /\ mailbox' = Append(mailbox, [q EXCEPT !.result = "ttl"])
  /\ UNCHANGED <<clientVars, queryVars, handshakes, running, ready, sessionClosed, nextKey,
                 nextQuery, knownKeys, bound, revoked, usedUnder, cond, aged>>

\* GenAuthKeyActor and HandshakeActor, on another thread, post the result.
EndHandshake(kind, result) ==
  /\ kind \in running /\ nextKey <= MaxKeys
  /\ running' = running \ {kind}
  /\ mailbox' = Append(mailbox, [id |-> 0, kind |-> kind, tmp |-> nextKey, main |-> nextKey,
                                 result |-> result, unknown |-> FALSE])
  /\ IF result = "ok"
     THEN nextKey' = nextKey + 1 /\ knownKeys' = knownKeys \union {nextKey} /\ UNCHANGED cond
     ELSE cond.faults > 0 /\ OneFault /\ UNCHANGED <<nextKey, knownKeys>>
  /\ UNCHANGED aged
  /\ UNCHANGED <<clientVars, queryVars, handshakes, ready, sessionClosed, sent, nextQuery,
                 bound, revoked, usedUnder>>

ServerLosesKey(key) ==
  /\ key \in knownKeys /\ cond.faults > 0
  /\ OneFault /\ UNCHANGED aged
  /\ knownKeys' = knownKeys \ {key}
  /\ UNCHANGED <<clientVars, queryVars, handshakes, running, ready, sessionClosed, sent,
                 mailbox, nextKey, nextQuery, bound, revoked, usedUnder>>

Revoke ==
  /\ ~revoked /\ cond.faults > 0
  /\ OneFault /\ UNCHANGED aged
  /\ revoked' = TRUE
  /\ UNCHANGED <<clientVars, queryVars, handshakes, running, ready, sessionClosed, sent,
                 mailbox, nextKey, nextQuery, knownKeys, bound, usedUnder>>

----------------------------------------------------------------------------
AuthInit ==
  /\ mainKey = 0 /\ tmpKey = 0 /\ tmpBound = FALSE /\ tmpAge = "fresh"
  /\ cond \in Conditions /\ aged = FALSE
  /\ usePfs = cond.pfs /\ needCheck = FALSE
  /\ beingBound = 0 /\ lastBind = 0 /\ beingChecked = 0 /\ lastCheck = 0
  /\ handshakes = {} /\ running = {} /\ ready = FALSE /\ sessionClosed = FALSE
  /\ sent = {} /\ mailbox = <<>> /\ nextKey = 1 /\ nextQuery = 1
  /\ knownKeys = {} /\ bound = {} /\ revoked = FALSE /\ usedUnder = {}

Loop ==
  \/ Connect \/ SendQueries \/ FlushWithoutKey \/ SendBindKey \/ SendCheckMainKey
  \/ \E kind \in Kinds : StartHandshake(kind)

Handlers ==
  \/ \E kind \in Kinds : OnHandshakeReady(kind) \/ OnHandshakeFailed(kind)
  \/ \E immune \in BOOLEAN : OnBindResult(immune)
  \/ OnCheckKeyResult \/ OnStaleResult
  \/ OnClosed \/ OnClosed404 \/ OnPermEmpty \/ OnUnauthorized

Environment ==
  \/ Age \/ Revoke
  \/ \E kind \in Kinds, result \in {"ok", "error"} : EndHandshake(kind, result)
  \/ \E q \in sent, result \in {"ok", "invalid", "error"} : AnswerBind(q, result)
  \/ \E q \in sent : AnswerCheck(q) \/ LostQuery(q)
  \/ \E key \in KeyIds : ServerLosesKey(key)

AuthNext == Loop \/ Handlers \/ Environment

\* A step that takes the head of the mailbox; a main key is not immune for ever.
TakeMessage ==
  \/ \E kind \in Kinds : OnHandshakeReady(kind) \/ OnHandshakeFailed(kind)
  \/ OnBindResult(FALSE) \/ OnCheckKeyResult \/ OnStaleResult

\* The session's thread runs, its mailbox is served, handshakes end and the
\* server answers.
AuthFair ==
  /\ WF_authVars(Connect \/ FlushWithoutKey)
  /\ WF_authVars(SendBindKey) /\ WF_authVars(SendCheckMainKey)
  /\ \A kind \in Kinds : WF_authVars(StartHandshake(kind)) /\ WF_authVars(EndHandshake(kind, "ok"))
  /\ WF_authVars(TakeMessage) /\ WF_authVars(OnClosed404)
  /\ WF_authVars(\E q \in sent : \/ AnswerBind(q, "ok") \/ AnswerBind(q, "invalid")
                             \/ AnswerCheck(q) \/ LostQuery(q))

AuthSpec == AuthInit /\ [][AuthNext]_authVars
AuthFairSpec == AuthSpec /\ AuthFair

----------------------------------------------------------------------------
\* The main key, and with it the user's authorization, is given up only when the
\* server has lost it or has ended the authorization (on_bind_result, on_closed,
\* on_message_result_error).
MainKeyGivenUpForCause ==
  [][mainKey # 0 /\ mainKey' # mainKey => mainKey \notin knownKeys \/ revoked]_authVars

\* Queries are sent only under a temporary key the server has bound to the main
\* key (the comment in loop(): "do not send queries before tmp_key is bound").
QueriesAlwaysUnderBoundKey ==
  \A u \in usedUnder : u[1] # u[2] => u \in bound

\* The same as long as no temporary key has come close to its expiry.
QueriesUnderBoundKey == ~aged => QueriesAlwaysUnderBoundKey

\* When faults cease the session comes to send queries, or was closed.
ComesToSend == <>[](sessionClosed \/ (ready /\ IsReady /\ NeedSendQuery))
============================================================================
