--------------------------- MODULE SessionQueries ---------------------------
(***************************************************************************)
(* The life of a network query inside one Session actor                    *)
(* (td/telegram/net/Session.cpp): pending, sent over the main connection,  *)
(* perhaps in a container, acknowledged, of unknown state after the loss   *)
(* of a connection, sent again, returned.  The Session is one thread: pc   *)
(* is "idle" between two events, "send" inside the sending part of loop()  *)
(* and "flush" inside connection_flush, the only place where answers of    *)
(* the server are handled.  The network loses whatever was under way when  *)
(* a connection is closed, or delivers it late.  The server never says of a *)
(* message that it was not received and then accepts it, and refuses what  *)
(* is older than the first message of its session.                         *)
(*                                                                         *)
(* Of the keys only this is kept: there is none, it has to be bound, it is *)
(* being bound, or queries can be sent with it.  HTTP long polling, salts  *)
(* and the check of the main key are left out.  So are queries invoked     *)
(* after others: nothing calls set_invoke_after, and                       *)
(* pending_invoke_after_queries_ stays empty.                              *)
(***************************************************************************)
EXTENDS Integers, FiniteSets, Functions

CONSTANTS
  Queries,        \* queries the owner of the session hands to send()
  BindQueries,    \* the auth.bindTempAuthKey queries the session makes
  MaxMessageId,   \* bound on the message identifiers used
  Scenarios       \* what may happen in a behaviour: a set of records of
                  \*   queries, binds: the queries used, none of binds when the
                  \*     session uses no temporary keys
                  \*   inflight: MAX_INFLIGHT_QUERIES
                  \*   urgent: the queries with is_high_priority()
                  \*   cancelable: the queries their owner may cancel
                  \*   pongs: whether queries may stay unanswered for a minute
                  \*   faults: among "close", "fail", "key", "refuse", "reset"
                  \*   maxFaults: bound on their number

All == Queries \union BindQueries

ASSUME QueriesAssumption == Queries \intersect BindQueries = {}
ASSUME ScenariosAssumption ==
  Scenarios \subseteq
    [queries : SUBSET Queries, binds : SUBSET BindQueries, inflight : Nat \ {0},
     urgent : SUBSET Queries, cancelable : SUBSET Queries, pongs : BOOLEAN,
     faults : SUBSET {"close", "fail", "key", "refuse", "reset"}, maxFaults : Nat]
ASSUME BoundsAssumption == MaxMessageId \in Nat

VARIABLES
  pc,          \* where the session's thread is
  pending,     \* pending_queries_
  sent,        \* sent_queries_: message id -> [query, container, acked, unknown]
  unknown,     \* unknown_queries_
  containers,  \* sent_containers_: container id -> [refCnt, ids]
  connection,  \* main_connection_.state_
  closeFlag,   \* close_flag_
  stopped,     \* the actor has stopped
  auth,        \* "none", "unbound", "binding" or "bound"
  lastBind,    \* last_bind_query_id_, as a set of at most one query
  \* the owner of the queries
  given, canceled, returned,
  \* SessionConnection and the network
  nextId,      \* the next message identifier
  toSend,      \* to_send_: message id -> query
  asked,       \* to_get_state_info_message_ids_, asked for over this connection
  net,         \* packets under way: [id, body, old]
  \* the server
  received,    \* the identifiers accepted in the current server session
  lost,        \* the identifiers it will never accept
  executed,    \* <<message id, query, server session>>
  freshServer, \* the server has lost the session and received nothing since
  firstId,     \* first_message_id of a new_session_created under way, or 0
  serverResets,
  faults,      \* how many there were
  scenario     \* which of Scenarios this is

budget == <<faults, scenario>>
sessionVars == <<pending, sent, unknown, containers>>
authVars == <<auth, lastBind>>
ownerVars == <<given, canceled, returned>>
connVars == <<nextId, toSend, asked, net>>
serverVars == <<received, lost, executed, freshServer, firstId, serverResets>>
vars == <<pc, sessionVars, connection, closeFlag, stopped, authVars, ownerVars,
          connVars, serverVars, budget>>

Without(f, S) == Restrict(f, DOMAIN f \ S)
With(f, x, y) == [z \in DOMAIN f \union {x} |-> IF z = x THEN y ELSE f[z]]
SentQueries == {sent[m].query : m \in DOMAIN sent}
UnknownIn(ids) == {m \in ids \intersect DOMAIN sent : sent[m].unknown}
Messages == 1..MaxMessageId
Min(S) == CHOOSE x \in S : \A y \in S : x <= y

----------------------------------------------------------------------------
(* Helpers of the session                                                  *)

\* mark_as_known for every message of ids; more is the set of queries pushed as
\* well.
MarkKnown(ids, more) ==
  /\ unknown' = unknown \ UnknownIn(ids)
  /\ pending' = pending \union more

\* cleanup_container: the containers of ids are forgotten.
Cleanup(cs, ids) ==
  Without(cs, {sent[m].container : m \in ids \intersect DOMAIN sent} \ ids)

\* mutant: a container without queries stays
DecContainerKeepsEmpty(cs, m) ==
  LET c == sent[m].container
  IN  IF c = m \/ c \notin DOMAIN cs THEN cs ELSE [cs EXCEPT ![c].refCnt = @ - 1]

\* dec_container
DecContainer(cs, m) ==
  LET c == sent[m].container
  IN  IF c = m \/ c \notin DOMAIN cs THEN cs
      ELSE IF cs[c].refCnt = 1 THEN Without(cs, {c})
      ELSE [cs EXCEPT ![c].refCnt = @ - 1]

\* return_query
Return(qs, result) == returned' = [q \in All |-> IF q \in qs THEN result ELSE returned[q]]

HasQueries == pending # {} \/ DOMAIN sent # {}

\* need_send_query and is_ready, with the in-flight limit of the sending loop
CanSendQuery == /\ nextId <= MaxMessageId
                /\ auth = "bound" /\ ~closeFlag /\ pending # {}
                /\ Cardinality(DOMAIN sent) < scenario.inflight

\* need_send_bind_key
CanSendBind == /\ nextId <= MaxMessageId /\ scenario.binds \ given # {}
               /\ auth = "unbound"

\* The end of loop(): connection_open when there is none.
Reopened(state, key) ==
  IF state = "Empty" /\ ~closeFlag /\ key # "none" THEN "Connecting" ELSE state

\* loop() runs after the handler: the sending part if the connection is ready.
ThenLoop == pc' = IF connection' = "Ready" THEN "send" ELSE "idle"

----------------------------------------------------------------------------
(* on_closed: what the loss of the connection does to the queries sent over *)
(* it.  newAcked says which of them count as acknowledged by the server.    *)

\* mutant: queries without an ack are taken for sent
OnClosedKeepsKnown(newAcked) ==
  /\ containers' = Cleanup(containers, {m \in DOMAIN sent : ~newAcked[m]})
  /\ sent' = [m \in DOMAIN sent |-> [sent[m] EXCEPT !.acked = newAcked[m]]]
  /\ UNCHANGED <<unknown, pending, returned>>

\* mutant: queries without an ack are sent again at once
OnClosedResends(newAcked) ==
  LET ids == {m \in DOMAIN sent : ~newAcked[m]} IN
  /\ containers' = Cleanup(containers, ids)
  /\ MarkKnown(ids, {sent[m].query : m \in ids} \ BindQueries)
  /\ returned' = [q \in All |-> IF q \in BindQueries /\ \E m \in ids : sent[m].query = q
                               THEN "resend" ELSE returned[q]]
  /\ sent' = Without(sent, ids)

OnClosedMarkUnknown(newAcked) ==
  LET ids == {m \in DOMAIN sent : ~newAcked[m]} IN
  /\ containers' = Cleanup(containers, ids)
  /\ sent' = [m \in DOMAIN sent |->
                [sent[m] EXCEPT !.acked = newAcked[m], !.unknown = @ \/ m \in ids]]
  /\ unknown' = unknown \union ids
  /\ UNCHANGED <<pending, returned>>

\* status.code() == 500: the queries go back with an error instead
OnClosedReturn(newAcked) ==
  LET ids == {m \in DOMAIN sent : ~newAcked[m]} IN
  /\ containers' = Cleanup(containers, ids)
  /\ MarkKnown(ids, {})
  /\ Return({sent[m].query : m \in ids}, "error")
  /\ sent' = Without(sent, ids)

\* A fault of the network or of the server.
Fault(kind) ==
  /\ kind \in scenario.faults /\ faults < scenario.maxFaults
  /\ faults' = faults + 1 /\ UNCHANGED scenario

\* The connection object goes, with everything it had not written; the packets
\* it had written may or may not arrive.
DropConnection ==
  /\ toSend' = <<>> /\ asked' = {}
  /\ net' = {[p EXCEPT !.old = TRUE] : p \in net}
  /\ UNCHANGED nextId

Acked == [m \in DOMAIN sent |-> sent[m].acked]

----------------------------------------------------------------------------
(* Events handled between two runs of loop()                               *)

\* send()
Send(q) ==
  /\ pc = "idle" /\ ~stopped /\ q \in scenario.queries \ given
  /\ given' = given \union {q}
  /\ IF q \in canceled
     THEN /\ Return({q}, "canceled")
          /\ UNCHANGED <<pending, connection, pc>>
     ELSE /\ pending' = pending \union {q}
          /\ connection' = Reopened(connection, auth)
          /\ ThenLoop
          /\ UNCHANGED returned
  /\ UNCHANGED <<sent, unknown, containers, closeFlag, stopped, authVars,
                 canceled, connVars, serverVars, budget>>

\* The owner cancels a query (NetQuery::cancel and its cancel slot).
Cancel(q) ==
  /\ q \in scenario.cancelable /\ q \notin canceled
  /\ canceled' = canceled \union {q}
  /\ UNCHANGED <<pc, sessionVars, connection, closeFlag, stopped, authVars, given,
                 returned, connVars, serverVars, budget>>

\* raw_event: the cancel slot's event, for a message that may be gone already.
RawEvent(m) ==
  /\ pc = "idle" /\ ~stopped
  /\ m \in DOMAIN sent /\ sent[m].query \in canceled
  /\ containers' = DecContainer(containers, m)
  /\ MarkKnown({m}, {})
  /\ sent' = Without(sent, {m})
  /\ Return({sent[m].query}, "canceled")
  /\ connection' = Reopened(connection, auth)
  /\ ThenLoop
  /\ UNCHANGED <<closeFlag, stopped, authVars, given, canceled, connVars,
                 serverVars, budget>>

\* loop() run by the poll, by the timeout or by yield(); an idle session that is
\* not the main one asks to be closed.
Wakeup ==
  /\ pc = "idle" /\ ~stopped
  /\ closeFlag' \in {closeFlag, ~HasQueries \/ closeFlag}
  /\ connection' = Reopened(connection, auth)
  /\ ThenLoop
  /\ UNCHANGED <<sessionVars, stopped, authVars, ownerVars, connVars, serverVars, budget>>

\* The test of connection_open_finish before it asks for states.
TooManyUnknown == Cardinality(unknown) > scenario.inflight

\* connection_open_finish: the states of the unknown queries are asked for.
OpenFinish ==
  /\ pc = "idle" /\ ~stopped /\ connection = "Connecting" /\ ~closeFlag
  /\ \/ /\ connection' = "Ready"
        /\ closeFlag' = TooManyUnknown
        /\ asked' = IF TooManyUnknown THEN {} ELSE unknown
     \/ connection' = "Empty" /\ UNCHANGED <<asked, closeFlag>>
  /\ UNCHANGED <<pc, sessionVars, stopped, authVars, ownerVars, nextId, toSend, net,
                 serverVars, budget>>

\* on_network with a new network generation, then loop()
OnNetwork ==
  /\ pc = "idle" /\ ~stopped /\ connection = "Ready" /\ Fault("close")
  /\ OnClosedMarkUnknown(Acked)
  /\ DropConnection
  /\ connection' = Reopened("Empty", auth)
  /\ UNCHANGED <<pc, closeFlag, stopped, authVars, given, canceled, serverVars>>

\* on_handshake_ready with a new temporary key: the connection is closed.
OnHandshakeReady ==
  /\ pc = "idle" /\ ~stopped /\ auth = "none"
  /\ auth' = IF scenario.binds = {} THEN "bound" ELSE "unbound"
  /\ IF connection = "Ready"
     THEN OnClosedMarkUnknown(Acked) /\ DropConnection
     ELSE UNCHANGED <<sent, unknown, containers, pending, returned, connVars>>
  /\ connection' = Reopened(IF connection = "Ready" THEN "Empty" ELSE connection, auth')
  /\ UNCHANGED <<pc, closeFlag, stopped, lastBind, given, canceled, serverVars, budget>>

\* on_bind_result: the answer to the last query to bind a key, whichever key is
\* current by now.
OnBindResult(b) ==
  /\ pc = "idle" /\ ~stopped /\ lastBind = {b} /\ returned[b] # "none"
  /\ lastBind' = {}
  /\ auth' = IF returned[b] = "ok" /\ auth # "none" THEN "bound"
             ELSE IF auth = "binding" THEN "unbound" ELSE auth
  /\ IF returned[b] = "error" /\ connection = "Ready"
     THEN OnClosedMarkUnknown(Acked) /\ DropConnection /\ connection' = "Empty"
     ELSE UNCHANGED <<sent, unknown, containers, pending, returned, connVars,
                      connection>>
  /\ UNCHANGED <<pc, closeFlag, stopped, given, canceled, serverVars, budget>>

\* close(), from hangup(): every query goes back to be sent elsewhere.
Close ==
  /\ pc = "idle" /\ ~stopped
  /\ stopped' = TRUE /\ closeFlag' = TRUE
  /\ connection' = "Empty"
  /\ Return(pending \union SentQueries, "resend")
  /\ pending' = {} /\ sent' = <<>> /\ containers' = <<>>
  /\ unknown' = {}
  /\ DropConnection
  /\ UNCHANGED <<pc, authVars, given, canceled, serverVars, budget>>

----------------------------------------------------------------------------
(* The sending part of loop()                                              *)

\* The Query that is put into sent_queries_ for the query q
NewSent(q) == [query |-> q, container |-> nextId, acked |-> FALSE, unknown |-> FALSE]

\* connection_send_query of the next pending query
SendQuery(q) ==
  /\ pc = "send" /\ CanSendQuery /\ q \in pending
  /\ q \notin scenario.urgent => pending \intersect scenario.urgent = {}
  /\ pending' = pending \ {q}
  /\ \/ /\ q \in canceled
        /\ Return({q}, "canceled")
        /\ UNCHANGED <<sent, nextId, toSend>>
     \/ /\ q \notin canceled
        /\ sent' = With(sent, nextId, NewSent(q))
        /\ toSend' = With(toSend, nextId, q)
        /\ nextId' = nextId + 1
        /\ UNCHANGED returned
  /\ UNCHANGED <<pc, unknown, containers, connection, closeFlag, stopped, authVars,
                 given, canceled, asked, net, serverVars, budget>>

\* connection_send_bind_key
SendBindKey(b) ==
  /\ pc = "send" /\ CanSendBind
  /\ b \in scenario.binds /\ b \notin given
  /\ given' = given \union {b}
  /\ lastBind' = {b} /\ auth' = "binding"
  /\ sent' = With(sent, nextId, NewSent(b))
  /\ toSend' = With(toSend, nextId, b)
  /\ nextId' = nextId + 1
  /\ UNCHANGED <<pc, pending, unknown, containers, connection, closeFlag,
                 stopped, canceled, returned, asked, net, serverVars, budget>>

\* Nothing more to send: connection_flush.
StartFlush ==
  /\ pc = "send" /\ ~CanSendQuery /\ ~CanSendBind /\ auth # "none"
  /\ pc' = "flush"
  /\ UNCHANGED <<sessionVars, connection, closeFlag, stopped, authVars, ownerVars,
                 connVars, serverVars, budget>>

\* connection_flush has returned: round the loop again if it made room.
EndFlush ==
  /\ pc = "flush"
  /\ pc' = IF CanSendQuery \/ CanSendBind THEN "send" ELSE "idle"
  /\ UNCHANGED <<sessionVars, connection, closeFlag, stopped, authVars, ownerVars,
                 connVars, serverVars, budget>>

\* The connection fails while it is flushed; loop() then asks for a new one.
ConnectionLost(newAuth) ==
  /\ DropConnection
  /\ auth' = newAuth
  /\ connection' = Reopened("Empty", newAuth)
  /\ pc' = "idle"
  /\ UNCHANGED <<closeFlag, stopped, lastBind, given, canceled, serverVars>>

\* do_flush without a key
FlushWithoutKey ==
  /\ pc = "send" /\ auth = "none"
  /\ OnClosedMarkUnknown(Acked)
  /\ ConnectionLost(auth) /\ UNCHANGED budget

\* The socket is closed, or a timeout expires.
OnClosed ==
  /\ pc = "flush" /\ Fault("close")
  /\ OnClosedMarkUnknown(Acked) /\ ConnectionLost(auth)

\* status.code() == 500
OnClosed500 ==
  /\ pc = "flush" /\ Fault("fail")
  /\ OnClosedReturn(Acked) /\ ConnectionLost(auth)

\* status.code() == -404: the key in use is unknown to the server; a temporary
\* one is needed before anything can be sent again.
OnClosed404 ==
  /\ pc = "flush" /\ Fault("key")
  /\ OnClosedMarkUnknown(Acked) /\ ConnectionLost("none")

\* on_pong: the oldest queries have had no answer for too long; their acks are
\* taken back and the connection is closed.
OnPongTimeout(upTo) ==
  /\ pc = "flush" /\ scenario.pongs /\ UNCHANGED budget /\ upTo \in DOMAIN sent \union {0}
  /\ unknown # {} \/ upTo # 0
  /\ OnClosedMarkUnknown([m \in DOMAIN sent |-> sent[m].acked /\ m > upTo])
  /\ ConnectionLost(auth)

----------------------------------------------------------------------------
(* SessionConnection::flush_packet: a packet takes the oldest messages; it is *)
(* a container unless it holds a single message.                             *)
WritePacket(ids, inContainer) ==
  /\ pc = "flush" /\ auth # "none"
  /\ ids # {} /\ ids \subseteq DOMAIN toSend
  /\ \A m \in ids, n \in DOMAIN toSend \ ids : m < n
  /\ toSend' = Without(toSend, ids)
  /\ IF inContainer
     THEN LET known == ids \intersect DOMAIN sent IN   \* on_container_sent
          /\ nextId <= MaxMessageId
          /\ net' = net \union {[id |-> nextId, body |-> Restrict(toSend, ids),
                                 old |-> FALSE]}
          /\ nextId' = nextId + 1
          /\ sent' = [m \in DOMAIN sent |->
                        IF m \in known THEN [sent[m] EXCEPT !.container = nextId]
                        ELSE sent[m]]
          /\ containers' = IF known = {} THEN containers
                           ELSE With(containers, nextId,
                                     [refCnt |-> Cardinality(known), ids |-> known])
     ELSE /\ Cardinality(ids) = 1
          /\ net' = net \union {[id |-> CHOOSE m \in ids : TRUE, body |-> Restrict(toSend, ids),
                                 old |-> FALSE]}
          /\ UNCHANGED <<nextId, sent, containers>>
  /\ UNCHANGED <<pc, pending, unknown, connection, closeFlag, stopped,
                 authVars, ownerVars, asked, serverVars, budget>>

----------------------------------------------------------------------------
(* Answers of the server, handled inside connection_flush                  *)

Handling == pc = "flush" /\ connection = "Ready"

KeepRest == UNCHANGED <<pc, connection, stopped, given, canceled, connVars>>

\* on_message_ack_impl, for a container or for one message
OnMessageAck(id) ==
  LET ids == (IF id \in DOMAIN containers THEN containers[id].ids ELSE {id})
             \intersect DOMAIN sent
  IN
  /\ Handling /\ id \in received /\ ids # {}
  /\ containers' = IF id \in DOMAIN containers THEN Without(containers, {id})
                   ELSE Cleanup(containers, ids)
  /\ sent' = [m \in DOMAIN sent |->
                IF m \in ids THEN [sent[m] EXCEPT !.acked = TRUE, !.unknown = FALSE]
                ELSE sent[m]]
  /\ MarkKnown(ids, {})
  /\ KeepRest /\ UNCHANGED <<closeFlag, authVars, returned, serverVars, budget>>

\* on_message_result_ok
OnMessageResultOk(m) ==
  /\ Handling /\ m \in received \intersect DOMAIN sent
  /\ containers' = Cleanup(containers, {m})
  /\ MarkKnown({m}, {})
  /\ Return({sent[m].query}, "ok")
  /\ sent' = Without(sent, {m})
  /\ KeepRest /\ UNCHANGED <<closeFlag, authVars, serverVars, budget>>

\* on_message_result_error: 401 may take the temporary key away, or make the
\* session fail.
OnMessageResultError(m) ==
  /\ Handling /\ m \in received \intersect DOMAIN sent
  /\ containers' = Cleanup(containers, {m})
  /\ MarkKnown({m}, {})
  /\ Return({sent[m].query}, "error")
  /\ sent' = Without(sent, {m})
  /\ \/ UNCHANGED <<auth, closeFlag, budget>>
     \/ Fault("key") /\ auth' = "none" /\ closeFlag' \in {closeFlag, TRUE}
  /\ KeepRest /\ UNCHANGED <<lastBind, serverVars>>

\* mutant: the query is not pushed
ResendForgets(ids) ==
  LET qs == {sent[m].query : m \in ids} IN
  /\ MarkKnown(ids, {})
  /\ Return(qs \intersect BindQueries, "resend")
  /\ sent' = Without(sent, ids)

\* resend_query for the messages of ids, which leave sent_queries_
Resend(ids) ==
  LET qs == {sent[m].query : m \in ids} IN
  /\ MarkKnown(ids, qs \ BindQueries)
  /\ Return(qs \intersect BindQueries, "resend")
  /\ sent' = Without(sent, ids)

\* on_message_failed, for a container or for one message
OnMessageFailed(id) ==
  LET ids == (IF id \in DOMAIN containers THEN containers[id].ids ELSE {id})
             \intersect DOMAIN sent
  IN
  /\ Handling /\ id \in lost /\ ids # {}
  /\ containers' = IF id \in DOMAIN containers THEN Without(containers, {id})
                   ELSE Cleanup(containers, ids)
  /\ Resend(ids)
  /\ KeepRest /\ UNCHANGED <<closeFlag, authVars, serverVars, budget>>

\* on_message_info for a query that has been canceled meanwhile; for the others
\* it is on_message_failed or on_message_ack_impl.
OnMessageInfoReady(m) ==
  /\ Handling /\ m \in DOMAIN sent /\ sent[m].query \in canceled
  /\ m \in received \union lost
  /\ containers' = DecContainer(containers, m)
  /\ MarkKnown({m}, {})
  /\ Return({sent[m].query}, "canceled")
  /\ sent' = Without(sent, {m})
  /\ KeepRest /\ UNCHANGED <<closeFlag, authVars, serverVars, budget>>

\* on_new_session_created: whatever was sent before the first message of the
\* new session is sent again.
OnNewSessionCreated ==
  LET first == IF firstId \in DOMAIN sent THEN sent[firstId].container ELSE firstId
      ids == {m \in DOMAIN sent : sent[m].container < first}
  IN
  /\ Handling /\ firstId # 0
  /\ firstId' = 0
  /\ containers' = Cleanup(containers, ids)
  /\ Resend(ids)
  /\ KeepRest
  /\ UNCHANGED <<closeFlag, authVars, received, lost, executed, freshServer,
                 serverResets, budget>>

----------------------------------------------------------------------------
(* The network and the server (external)                                   *)

sessionSide == <<pc, sessionVars, connection, closeFlag, stopped, authVars,
                 ownerVars, toSend, asked>>

\* A connection keeps the order of its packets.
IsNext(p) == \A other \in net : ~p.old /\ ~other.old => p.id <= other.id

\* The server session begins with the message first; what is older is refused.
Begins(first) ==
  IF freshServer
  THEN /\ freshServer' = FALSE
       /\ lost' = lost \union 1..first - 1
  ELSE UNCHANGED <<freshServer, lost>>

Receive(p) ==
  LET new == DOMAIN p.body \ (received \union lost) IN
  /\ p \in net /\ IsNext(p)
  /\ net' = net \ {p}
  /\ IF new = {} THEN UNCHANGED <<received, executed, freshServer, lost, firstId>>
     ELSE /\ received' = received \union new \union {p.id}
          /\ executed' = executed \union {<<m, p.body[m], serverResets>> : m \in new}
          /\ Begins(Min(new))
          /\ firstId' \in IF freshServer THEN {p.id, Min(new)} ELSE {firstId}
  /\ UNCHANGED <<sessionSide, nextId, serverResets, budget>>

\* A packet of pings, acks or requests for states is the first of the session.
ReceiveService ==
  /\ freshServer /\ connection = "Ready" /\ pc = "flush"
  /\ \A p \in net : p.old
  /\ nextId <= MaxMessageId
  /\ nextId' = nextId + 1
  /\ Begins(nextId) /\ firstId' = nextId
  /\ UNCHANGED <<sessionSide, net, received, executed, serverResets, budget>>

Lose(p) ==
  /\ p \in net /\ p.old
  /\ net' = net \ {p}
  /\ UNCHANGED <<sessionSide, nextId, serverVars, budget>>

\* bad_msg_notification, bad_server_salt: the packet is refused as a whole.
Refuse(p) ==
  /\ p \in net /\ IsNext(p) /\ Fault("refuse")
  /\ DOMAIN p.body \intersect received = {}
  /\ net' = net \ {p}
  /\ lost' = lost \union DOMAIN p.body \union {p.id}
  /\ UNCHANGED <<sessionSide, nextId, received, executed, freshServer, firstId, serverResets>>

\* The server looks up a message whose state it is asked for.
AnswerState(m) ==
  /\ m \in asked \ (received \union lost)
  /\ connection = "Ready" /\ ~freshServer
  /\ lost' = lost \union {m}
  /\ UNCHANGED <<sessionSide, nextId, net, received, executed, freshServer, firstId,
                 serverResets, budget>>

\* The server loses the session.
ServerReset ==
  /\ Fault("reset")
  /\ received' = {} /\ freshServer' = TRUE /\ firstId' = 0
  /\ serverResets' = serverResets + 1
  /\ UNCHANGED <<sessionSide, nextId, net, lost, executed>>

----------------------------------------------------------------------------
Init ==
  /\ scenario \in Scenarios
  /\ pc = "idle" /\ connection = "Empty" /\ closeFlag = FALSE /\ stopped = FALSE
  /\ pending = {} /\ sent = <<>> /\ unknown = {} /\ containers = <<>>
  /\ auth \in {"none", IF scenario.binds = {} THEN "bound" ELSE "unbound"}
  /\ lastBind = {}
  /\ given = {} /\ canceled = {} /\ returned = [q \in All |-> "none"]
  /\ nextId = 1 /\ toSend = <<>> /\ asked = {} /\ net = {}
  /\ received = {} /\ lost = {} /\ executed = {}
  /\ freshServer = FALSE /\ firstId = 0
  /\ serverResets = 0 /\ faults = 0

Answers(m) ==
  \/ OnMessageResultOk(m) \/ OnMessageResultError(m)
  \/ OnMessageFailed(m) \/ OnMessageInfoReady(m) \/ OnMessageAck(m)

SessionNext ==
  \/ \E q \in Queries : Send(q) \/ Cancel(q) \/ SendQuery(q)
  \/ \E b \in BindQueries : SendBindKey(b) \/ OnBindResult(b)
  \/ \E m \in Messages : RawEvent(m) \/ Answers(m)
  \/ \E m \in Messages \union {0} : OnPongTimeout(m)
  \/ \E ids \in SUBSET DOMAIN toSend, c \in BOOLEAN : WritePacket(ids, c)
  \/ Wakeup \/ OpenFinish \/ OnNetwork \/ OnHandshakeReady \/ Close
  \/ StartFlush \/ EndFlush \/ FlushWithoutKey
  \/ OnClosed \/ OnClosed500 \/ OnClosed404 \/ OnNewSessionCreated

ServerNext ==
  \/ \E p \in net : Receive(p) \/ Lose(p) \/ Refuse(p)
  \/ \E m \in Messages : AnswerState(m)
  \/ ReceiveService \/ ServerReset

Next == SessionNext \/ ServerNext

\* A step of loop(); exactly one is possible in each state of a live session.
LoopStep ==
  \/ Wakeup \/ StartFlush \/ EndFlush \/ FlushWithoutKey
  \/ \E q \in Queries : SendQuery(q)
  \/ \E b \in BindQueries : SendBindKey(b)

\* The server's last word on a message that carries q
Answered(q) ==
  \E m \in DOMAIN sent : sent[m].query = q /\ (OnMessageResultOk(m) \/ OnMessageFailed(m))

\* The session's thread runs, its mailbox is served, connections are opened in
\* the end, the server reads what reaches it and answers.
Fairness ==
  /\ WF_vars(LoopStep) /\ SF_vars(OnHandshakeReady) /\ SF_vars(closeFlag /\ Close)
  /\ SF_vars(OpenFinish /\ connection' = "Ready")
  /\ SF_vars(\E ids \in SUBSET DOMAIN toSend, c \in BOOLEAN : WritePacket(ids, c))
  /\ \A q \in All : SF_vars(Answered(q))
  /\ \A b \in BindQueries : SF_vars(OnBindResult(b))
  /\ SF_vars(DOMAIN sent # {} /\ OnPongTimeout(Min(DOMAIN sent)))
  /\ SF_vars(OnNewSessionCreated) /\ SF_vars(ReceiveService)
  /\ WF_vars(\E p \in net : Receive(p)) /\ SF_vars(\E m \in asked : AnswerState(m))

Spec == Init /\ [][Next]_vars
FairSpec == Spec /\ Fairness

----------------------------------------------------------------------------
\* A query handed to the session is in exactly one place: pending, sent
\* under one message identifier, or returned to its owner (every path of Session
\* that moves a NetQueryPtr).
NoQueryLost ==
  \A q \in given :
    LET places == [pending |-> q \in pending, sent |-> q \in SentQueries,
                   returned |-> returned[q] # "none"]
    IN  /\ Cardinality({x \in DOMAIN places : places[x]}) = 1
        /\ Cardinality({m \in DOMAIN sent : sent[m].query = q}) <= 1

\* ref_cnt of a container is the number of its queries still in sent_queries_,
\* never 0 (dec_container, cleanup_container: no "container vector leak").
ContainersCounted ==
  \A c \in DOMAIN containers :
    /\ containers[c].refCnt = Cardinality(containers[c].ids \intersect DOMAIN sent)
    /\ containers[c].refCnt > 0

\* As long as the server keeps its session, no query is executed twice, however
\* connections and packets are lost.
AtMostOnce ==
  serverResets = 0 =>
    \A x \in executed, y \in executed : x[2] = y[2] => x = y

\* A query handed to the session is answered or handed back.
EveryQueryReturned == \A q \in Queries : q \in given ~> returned[q] # "none"
============================================================================
