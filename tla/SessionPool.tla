---------------------------- MODULE SessionPool ----------------------------
(***************************************************************************)
(* The sessions of one kind to one data center: the SessionMultiProxy that *)
(* spreads queries (td/telegram/net/SessionMultiProxy.cpp), its            *)
(* SessionProxy actors (SessionProxy.cpp), the Session each of them owns,  *)
(* and the authorization key they share (AuthDataShared.cpp).  A Session   *)
(* is seen from outside: it holds queries, answers or hands them back, may *)
(* fail, and hands back all it holds when it is closed.  Temporary keys    *)
(* and salts that a proxy keeps for its next session are left out.         *)
(*                                                                         *)
(* Every actor handles its messages in the order of their arrival.  A      *)
(* counter or a set stands for messages whose place among the others does  *)
(* not matter because their senders are independent; a sequence keeps the  *)
(* order in which a SessionMultiProxy writes to a proxy.                   *)
(***************************************************************************)
EXTENDS Integers, Sequences, FiniteSets

CONSTANTS
  Queries,      \* all queries
  AuthQueries,  \* those with AuthFlag::On
  MaxCount,     \* bound on session_count_
  MaxGeneration, \* bound on the generations of proxies
  MaxSession,   \* bound on the sessions of a proxy
  Conditions    \* what may happen: a set of records with the values session_count_
                \* and is_main_ take, and the number of changes of the key, of
                \* changes of options or stop(), and of events that make a proxy
                \* or a session give queries back

ConditionType ==
  [counts : SUBSET (1..MaxCount), mains : SUBSET BOOLEAN, key : Nat, recreate : Nat, reopen : Nat]

ASSUME PoolAssumption ==
  /\ AuthQueries \subseteq Queries /\ IsFiniteSet(Queries)
  /\ MaxCount \in Nat \ {0} /\ MaxGeneration \in Nat \ {0} /\ MaxSession \in Nat \ {0}
  /\ \A c \in Conditions :
       /\ c \in ConditionType /\ c.counts # {} /\ c.mains # {}
       /\ c.recreate < MaxGeneration /\ c.key + c.reopen < MaxSession

VARIABLES
  key,          \* the state of the shared key: "Empty", "NoAuth", "OK"
  notifying,    \* calls of set_auth_key that have written the key and not yet notified
  listeners,    \* auth_key_listeners_
  stopFlag,     \* stop_flag_ of the dispatcher
  inbox,        \* queries sent to the SessionMultiProxy
  multi,        \* the SessionMultiProxy
  finished,     \* finished[p]: calls of on_query_finished from p to the SessionMultiProxy
  proxies,      \* the SessionProxy actors
  held,         \* held[s]: the queries sent to session s and not given back
  closing,      \* sessions told to close
  failures,     \* sessions whose on_failed has not reached their proxy
  done,         \* queries handed to their callback
  cond          \* which of Conditions, with the events that are left

keyVars == <<key, notifying, listeners>>
sessionVars == <<held, closing, failures>>
vars == <<keyVars, stopFlag, inbox, multi, finished, proxies, sessionVars, done, cond>>

KeyStates == {"Empty", "NoAuth", "OK"}
Generations == 1..MaxGeneration
\* A proxy is known by the generation and the index its callback carries.
Proxies == Generations \X (0..MaxCount - 1)
\* A session is known by its proxy and session_generation_, its link token.
Sessions == Proxies \X (1..MaxSession)

Occurs(kind) == cond[kind] > 0 /\ cond' = [cond EXCEPT ![kind] = @ - 1]

Absent == [phase |-> "absent"]
Dead == [phase |-> "dead"]
Alive(p) == proxies[p].phase \notin {"absent", "dead"}

NewProxy(main, destroy) ==
  [phase |-> "created", auth |-> "Empty", main |-> main, destroy |-> destroy, pending |-> {},
   mailbox |-> <<>>, session |-> 0, generation |-> 1, updates |-> 0]

----------------------------------------------------------------------------
(* The dispatcher, as far as a returned query meets it: it sends the query *)
(* to the SessionMultiProxy again, or completes it once it has stopped.    *)

Dispatch(qs) ==
  IF stopFlag
  THEN done' = done \cup qs /\ UNCHANGED inbox
  ELSE inbox' = inbox \cup qs /\ UNCHANGED done

Stop ==
  /\ ~stopFlag /\ Occurs("recreate")
  /\ stopFlag' = TRUE
  /\ UNCHANGED <<keyVars, inbox, multi, finished, proxies, sessionVars, done>>

----------------------------------------------------------------------------
(* SessionMultiProxy.                                                      *)

PostAll(prs, ps, m) ==
  [p \in Proxies |-> IF p \in ps THEN [prs[p] EXCEPT !.mailbox = Append(@, m)] ELSE prs[p]]

CurrentAt(g, count) == {g} \X (0..count - 1)
Current == IF multi.alive THEN CurrentAt(multi.generation, multi.count) ELSE {}

LeastLoaded ==
  {i \in 0..multi.count - 1 : \A j \in 0..multi.count - 1 : multi.queryCount[i] <= multi.queryCount[j]}

\* The proxies send may choose: no chains, hence no session_rand.
Targets(q) == IF q \in AuthQueries THEN LeastLoaded ELSE {0}

MultiSend(q) ==
  /\ multi.alive /\ q \in inbox
  /\ \E i \in Targets(q) :
       /\ multi' = [multi EXCEPT !.queryCount[i] = @ + 1]
       /\ proxies' = PostAll(proxies, {<<multi.generation, i>>}, <<"send", q>>)
  /\ inbox' = inbox \ {q}
  /\ UNCHANGED <<keyVars, stopFlag, finished, sessionVars, done, cond>>

\* init(): the old proxies are hung up, new ones are made.
Recreated(m) ==
  LET g == m.generation + 1
      old == Current
      new == CurrentAt(g, m.count)
  IN  /\ multi' = [m EXCEPT !.generation = g, !.queryCount = [i \in 0..m.count - 1 |-> 0]]
      /\ proxies' = [p \in Proxies |->
           IF p \in new THEN NewProxy(m.main, m.destroy /\ p[2] = 0)
                        ELSE PostAll(proxies, old, <<"hangup">>)[p]]

\* update_options, with what update_session_count, update_use_pfs and
\* destroy_auth_key pass to it.  use_pfs_ matters here only as a change.
UpdateOptions(count, pfsChanges, destroy) ==
  /\ multi.alive /\ Occurs("recreate")
  /\ ~multi.destroy
  /\ count # multi.count \/ pfsChanges \/ destroy
  /\ Recreated([multi EXCEPT !.count = count, !.destroy = destroy])
  /\ UNCHANGED <<keyVars, stopFlag, inbox, finished, sessionVars, done>>

UpdateMainFlag(b) ==
  /\ multi.alive /\ Occurs("reopen") /\ b # multi.main
  /\ multi' = [multi EXCEPT !.main = b]
  /\ proxies' = PostAll(proxies, Current, <<"main", b>>)
  /\ UNCHANGED <<keyVars, stopFlag, inbox, finished, sessionVars, done>>

UpdateMtprotoHeader ==
  /\ multi.alive /\ Occurs("reopen")
  /\ proxies' = PostAll(proxies, Current, <<"header">>)
  /\ UNCHANGED <<keyVars, stopFlag, inbox, multi, finished, sessionVars, done>>

\* mutant: the generation is not compared
CountDownAny(p) ==
  IF p[2] >= multi.count THEN multi ELSE [multi EXCEPT !.queryCount[p[2]] = @ - 1]

\* on_query_finished: a proxy of an older generation is not counted.
CountDown(p) ==
  IF p[1] # multi.generation THEN multi ELSE [multi EXCEPT !.queryCount[p[2]] = @ - 1]

MultiOnQueryFinished(p) ==
  /\ multi.alive /\ finished[p] > 0
  /\ multi' = CountDown(p)
  /\ finished' = [finished EXCEPT ![p] = @ - 1]
  /\ UNCHANGED <<keyVars, stopFlag, inbox, proxies, sessionVars, done, cond>>

\* mutant: the proxies are not hung up
MultiHangupAlone ==
  /\ stopFlag /\ multi.alive /\ inbox = {}
  /\ multi' = [multi EXCEPT !.alive = FALSE]
  /\ finished' = [p \in Proxies |-> 0]
  /\ UNCHANGED <<keyVars, stopFlag, inbox, proxies, sessionVars, done, cond>>

\* stop() of the dispatcher resets its reference; the hangup follows all
\* queries sent before.
MultiHangup ==
  /\ stopFlag /\ multi.alive /\ inbox = {}
  /\ multi' = [multi EXCEPT !.alive = FALSE]
  /\ proxies' = PostAll(proxies, Current, <<"hangup">>)
  /\ finished' = [p \in Proxies |-> 0]
  /\ UNCHANGED <<keyVars, stopFlag, inbox, sessionVars, done, cond>>

----------------------------------------------------------------------------
(* AuthDataShared: the key is written, then listeners are called under a   *)
(* lock; a listener whose actor is dead is removed.                        *)

SetAuthKey(k) ==
  /\ Occurs("key") /\ k # key
  /\ key' = k
  /\ notifying' = notifying + 1
  /\ UNCHANGED <<listeners, stopFlag, inbox, multi, finished, proxies, sessionVars, done>>

Notify ==
  /\ notifying > 0
  /\ notifying' = notifying - 1
  /\ listeners' = {p \in listeners : Alive(p)}
  /\ proxies' = [p \in Proxies |->
       IF p \in listeners' THEN [proxies[p] EXCEPT !.updates = @ + 1] ELSE proxies[p]]
  /\ UNCHANGED <<key, stopFlag, inbox, multi, finished, sessionVars, done, cond>>

----------------------------------------------------------------------------
(* SessionProxy.                                                           *)

ShouldOpen(r, force) ==
  \/ force
  \/ r.destroy /\ r.auth # "Empty"
  \/ ~r.destroy /\ (r.main \/ (r.auth = "OK" /\ r.pending # {}))

OpenSession(r, force) ==
  IF r.session # 0 \/ ~ShouldOpen(r, force) THEN r ELSE [r EXCEPT !.session = r.generation]

\* The bound on sessions, which the events of a condition do not exhaust.
MayClose(r) == r.generation < MaxSession

CloseSession(r) == [r EXCEPT !.session = 0, !.generation = @ + 1]

\* The session that close_session tells to close.
ToClose(p, r) == IF r.session = 0 THEN {} ELSE {<<p, r.session>>}

\* mutant: the new listener is not called
NotifyNone(r) == r

\* add_auth_key_listener calls the listener it adds.
NotifyNewListener(r) == [r EXCEPT !.updates = @ + 1]

\* start_up: the state of the key is read and the new listener called ...
StartUpRead(p) ==
  /\ proxies[p].phase = "created"
  /\ proxies' = [proxies EXCEPT ![p] =
       [NotifyNewListener(@) EXCEPT !.phase = "adding", !.auth = key]]
  /\ UNCHANGED <<keyVars, stopFlag, inbox, multi, finished, sessionVars, done, cond>>

\* ... then, maybe after others have set the key, the listener is stored and a
\* session opened.
StartUpRegister(p) ==
  /\ proxies[p].phase = "adding"
  /\ listeners' = listeners \cup {p}
  /\ proxies' = [proxies EXCEPT ![p] = OpenSession([@ EXCEPT !.phase = "running"], FALSE)]
  /\ UNCHANGED <<key, notifying, stopFlag, inbox, multi, finished, sessionVars, done, cond>>

Running(p) == proxies[p].phase = "running"
IsNext(p, kind) == Running(p) /\ proxies[p].mailbox # <<>> /\ Head(proxies[p].mailbox)[1] = kind
Handled(r) == [r EXCEPT !.mailbox = Tail(@)]

ProxySend(p) ==
  /\ IsNext(p, "send")
  /\ LET q == Head(proxies[p].mailbox)[2]
         r == Handled(proxies[p])
         o == OpenSession(r, TRUE)
     IN  IF q \in AuthQueries /\ r.auth # "OK"
         THEN /\ proxies' = [proxies EXCEPT ![p] = [r EXCEPT !.pending = @ \cup {q}]]
              /\ UNCHANGED held
         ELSE /\ proxies' = [proxies EXCEPT ![p] = o]
              /\ held' = [held EXCEPT ![<<p, o.session>>] = @ \cup {q}]
  /\ UNCHANGED <<keyVars, stopFlag, inbox, multi, finished, closing, failures, done, cond>>

\* Close the session and open another, in r, the proxy to be.
Reopen(p, r) ==
  /\ MayClose(r)
  /\ proxies' = [proxies EXCEPT ![p] = OpenSession(CloseSession(r), FALSE)]
  /\ closing' = closing \cup ToClose(p, r)

ProxyUpdateMainFlag(p) ==
  /\ IsNext(p, "main")
  /\ LET b == Head(proxies[p].mailbox)[2]
     IN  IF b = proxies[p].main
         THEN proxies' = [proxies EXCEPT ![p] = Handled(@)] /\ UNCHANGED closing
         ELSE Reopen(p, [Handled(proxies[p]) EXCEPT !.main = b])
  /\ UNCHANGED <<keyVars, stopFlag, inbox, multi, finished, held, failures, done, cond>>

ProxyUpdateMtprotoHeader(p) ==
  /\ IsNext(p, "header")
  /\ Reopen(p, Handled(proxies[p]))
  /\ UNCHANGED <<keyVars, stopFlag, inbox, multi, finished, held, failures, done, cond>>

\* The failure of session s reaches its proxy, which may have left it already.
ProxyOnFailed(s) ==
  LET p == s[1]
  IN  /\ s \in failures /\ Running(p)
      /\ failures' = failures \ {s}
      /\ IF proxies[p].generation # s[2]
         THEN UNCHANGED <<proxies, closing>>
         ELSE Reopen(p, proxies[p])
      /\ UNCHANGED <<keyVars, stopFlag, inbox, multi, finished, held, done, cond>>

\* update_auth_key_state: what is sent to the session after open_session made
\* o of r.
Flushable(r, o) == IF o.session = 0 \/ o.auth # "OK" THEN {} ELSE o.pending

Flushed(o, sent) == [o EXCEPT !.pending = @ \ sent]

LosesKey(r) == r.auth = "OK" /\ key # "OK"

ProxyUpdateAuthKeyState(p) ==
  /\ Running(p) /\ proxies[p].updates > 0
  /\ LET old == proxies[p]
         lost == LosesKey(old)
         r == [IF lost THEN CloseSession(old) ELSE old EXCEPT !.auth = key, !.updates = @ - 1]
         o == OpenSession(r, FALSE)
         sent == Flushable(r, o)
     IN  /\ lost => MayClose(old)
         /\ closing' = IF lost THEN closing \cup ToClose(p, old) ELSE closing
         /\ proxies' = [proxies EXCEPT ![p] = Flushed(o, sent)]
         /\ held' = IF sent = {} THEN held ELSE [held EXCEPT ![<<p, o.session>>] = @ \cup sent]
  /\ UNCHANGED <<keyVars, stopFlag, inbox, multi, finished, failures, done, cond>>

\* mutant: the queries that wait for the key are dropped
TearDownDrops(p) == UNCHANGED <<finished, inbox, done>>

\* tear_down: the queries that wait for the key go back.
TearDown(p) ==
  /\ finished' = IF multi.alive THEN [finished EXCEPT ![p] = @ + Cardinality(proxies[p].pending)]
                 ELSE finished
  /\ Dispatch(proxies[p].pending)

\* The session a dead proxy owned is hung up, which closes it.
ProxyHangup(p) ==
  /\ IsNext(p, "hangup")
  /\ TearDown(p)
  /\ proxies' = [proxies EXCEPT ![p] = Dead]
  /\ closing' = closing \cup ToClose(p, proxies[p])
  /\ failures' = {s \in failures : s[1] # p}
  /\ UNCHANGED <<keyVars, stopFlag, multi, held, cond>>

ProxyStep(p) ==
  \/ StartUpRead(p)
  \/ ProxySend(p)
  \/ ProxyUpdateMainFlag(p)
  \/ ProxyUpdateMtprotoHeader(p)
  \/ ProxyUpdateAuthKeyState(p)
  \/ ProxyHangup(p)

----------------------------------------------------------------------------
(* Session, seen from outside.                                             *)

IsOpen(s) == Alive(s[1]) /\ proxies[s[1]].session = s[2]
Exists(s) == IsOpen(s) \/ s \in closing

\* SessionCallback::on_result tells the proxy of n queries that are not the
\* session's own, and SessionProxy::on_query_finished passes it on; nothing
\* reaches a dead proxy.
OnQueryFinished(p, n) ==
  finished' = IF Alive(p) /\ multi.alive THEN [finished EXCEPT ![p] = @ + n] ELSE finished

\* The query is answered, or fails for good.
SessionResult(s, q) ==
  /\ Exists(s) /\ q \in held[s]
  /\ held' = [held EXCEPT ![s] = @ \ {q}]
  /\ done' = done \cup {q}
  /\ OnQueryFinished(s[1], 1)
  /\ UNCHANGED <<keyVars, stopFlag, inbox, multi, proxies, closing, failures, cond>>

\* The query is handed back to be sent again.
SessionResend(s, q) ==
  /\ Exists(s) /\ q \in held[s] /\ Occurs("reopen")
  /\ held' = [held EXCEPT ![s] = @ \ {q}]
  /\ Dispatch({q})
  /\ OnQueryFinished(s[1], 1)
  /\ UNCHANGED <<keyVars, stopFlag, multi, proxies, closing, failures>>

\* on_result of a query that binds a key, which no proxy has counted.
BindFinished(p) == OnQueryFinished(p, 0)

SessionBindResult(s) ==
  /\ Exists(s)
  /\ BindFinished(s[1])
  /\ UNCHANGED <<keyVars, stopFlag, inbox, multi, proxies, sessionVars, done, cond>>

SessionFails(s) ==
  /\ Exists(s) /\ Occurs("reopen")
  /\ failures' = IF Alive(s[1]) THEN failures \cup {s} ELSE failures
  /\ UNCHANGED <<keyVars, stopFlag, inbox, multi, finished, proxies, held, closing, done>>

\* close() follows every query the proxy has sent to the session.
SessionClose(s) ==
  /\ s \in closing
  /\ closing' = closing \ {s}
  /\ held' = [held EXCEPT ![s] = {}]
  /\ Dispatch(held[s])
  /\ OnQueryFinished(s[1], Cardinality(held[s]))
  /\ UNCHANGED <<keyVars, stopFlag, multi, proxies, failures, cond>>

----------------------------------------------------------------------------
Init ==
  /\ cond \in Conditions
  /\ key \in {"Empty", "OK"}
  /\ notifying = 0 /\ listeners = {} /\ stopFlag = FALSE
  /\ inbox = Queries /\ done = {}
  /\ \E count \in cond.counts, main \in cond.mains :
       /\ multi = [alive |-> TRUE, generation |-> 1, count |-> count, main |-> main,
                   destroy |-> FALSE, queryCount |-> [i \in 0..count - 1 |-> 0]]
       /\ proxies = [p \in Proxies |->
            IF p \in CurrentAt(1, count) THEN NewProxy(main, FALSE) ELSE Absent]
  /\ finished = [p \in Proxies |-> 0]
  /\ held = [s \in Sessions |-> {}]
  /\ closing = {} /\ failures = {}

\* The SessionMultiProxy, its proxies and their sessions live in one thread: in
\* the middle of a start_up only other threads move.
Idle == \A p \in Proxies : proxies[p].phase # "adding"

Environment ==
  \/ Stop
  \/ \E k \in KeyStates : SetAuthKey(k)
  \/ /\ Idle
     /\ \/ \E count \in cond.counts, pfs \in BOOLEAN : UpdateOptions(count, pfs, FALSE)
        \/ UpdateOptions(1, FALSE, TRUE)
        \/ \E b \in cond.mains : UpdateMainFlag(b)
        \/ UpdateMtprotoHeader
        \/ \E s \in Sessions : SessionFails(s) \/ SessionBindResult(s)
        \/ \E s \in Sessions, q \in Queries : SessionResend(s, q)

Internal ==
  \/ Notify
  \/ \E p \in Proxies : StartUpRegister(p)
  \/ /\ Idle
     /\ \/ MultiHangup
        \/ \E q \in Queries : MultiSend(q)
        \/ \E p \in Proxies : MultiOnQueryFinished(p) \/ ProxyStep(p)
        \/ \E s \in Sessions : ProxyOnFailed(s) \/ SessionClose(s)
        \/ \E s \in Sessions, q \in Queries : SessionResult(s, q)

Next == Environment \/ Internal
Spec == Init /\ [][Next]_vars

\* Every actor handles what it receives, and a session that stays open or is
\* closed answers or hands back what it holds.
FairSpec == Spec /\ WF_vars(Internal)

----------------------------------------------------------------------------
(* Properties.                                                             *)

InMailbox(p) ==
  IF Alive(p) THEN {q \in Queries : \E k \in DOMAIN proxies[p].mailbox :
                                      proxies[p].mailbox[k] = <<"send", q>>}
  ELSE {}
PendingIn(p) == IF Alive(p) THEN proxies[p].pending ELSE {}
SessionsOf(p) == {s \in Sessions : s[1] = p}
HeldUnder(p) == UNION {held[s] : s \in SessionsOf(p)}

Places ==
  {<<"inbox">>, <<"done">>} \cup ({"mailbox", "pending"} \X Proxies) \cup ({"held"} \X Sessions)
Contents(x) ==
  CASE x[1] = "inbox" -> inbox
    [] x[1] = "done" -> done
    [] x[1] = "mailbox" -> InMailbox(x[2])
    [] x[1] = "pending" -> PendingIn(x[2])
    [] x[1] = "held" -> held[x[2]]

\* No query is lost or held twice, whatever is closed, recreated or stopped:
\* each is in exactly one place on its way from the dispatcher to a session
\* and back (send, tear_down, close), and a session that holds one exists.
NoQueryLost ==
  /\ \A q \in Queries : Cardinality({x \in Places : q \in Contents(x)}) = 1
  /\ \A s \in Sessions : held[s] # {} => Exists(s)

\* query_count is exact: it counts the queries a proxy has been sent and whose
\* end the SessionMultiProxy has not heard of.  Hence the CHECKs of
\* on_query_finished cannot fail, and no old generation disturbs the balance.
QueryCountExact ==
  \A p \in Current :
    multi.queryCount[p[2]] =
      Cardinality(InMailbox(p)) + Cardinality(PendingIn(p)) + Cardinality(HeldUnder(p)) + finished[p]

\* A query that waits for the key in a proxy waits with reason: the key is not
\* authorized, or a call of update_auth_key_state is still to come
\* (add_auth_key_listener, notify, update_auth_key_state).
NoLostWakeup ==
  \A p \in Proxies :
    Running(p) /\ proxies[p].pending # {} /\ key = "OK" =>
      proxies[p].updates > 0 \/ (notifying > 0 /\ p \in listeners)

\* Every query that needs no authorization ends; all do once the key stays
\* authorized, or after stop().
EveryQueryEnds ==
  /\ <>(Queries \ AuthQueries \subseteq done)
  /\ (<>[](key = "OK") \/ <>stopFlag) => <>(done = Queries)
============================================================================
