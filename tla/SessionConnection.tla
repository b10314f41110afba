------------------------- MODULE SessionConnection -------------------------
(* One TCP connection of a primary session (td/mtproto/SessionConnection): *)
(* the queues of what is to be written, the one deadline force_send_at_    *)
(* they share, pings and the two timeouts, server salts, the service       *)
(* queries that are repeated when the server refuses them, and the request *)
(* to destroy the key.                                                     *)
(*                                                                         *)
(* Time passes in ticks of 15 seconds for a round trip rtt() of 30, so     *)
(* every delay of the code is a whole number of ticks.  Instants within a  *)
(* tick are not told apart: what is due at a tick is due when its timer    *)
(* rings.  A flush() is a run of steps during which nothing else happens,  *)
(* because the connection lives inside one actor.                          *)
EXTENDS Integers, FiniteSets, FiniteSetsExt

CONSTANTS
    Messages,       \* identifiers of queries and answers the requests name
    PacketIds,      \* bounds the packets the server has not reacted to yet
    MaxQueryCount,  \* MAX_QUERY_COUNT
    MaxUnacked,     \* MAX_UNACKED_PACKETS
    WirePlans       \* scenarios: how much of everything happens

(* A scenario: the connection when it is made, how often each thing may    *)
(* happen to it, and whether the server falls silent, the key is to be     *)
(* destroyed, and a packet is refused for good.                            *)
PlanRecords ==
    [online : BOOLEAN, salt : {"none", "last", "more"}, asked : SUBSET Messages,
     queries : Nat, cancels : Nat, switches : Nat, failures : Nat, news : Nat,
     salts : Nat, silence : BOOLEAN, destroy : BOOLEAN, fatal : BOOLEAN]

ASSUME WireAssumption ==
    MaxQueryCount \in Nat /\ MaxUnacked \in Nat /\ WirePlans \subseteq PlanRecords

VARIABLES
    wireAt,      \* "writing" inside flush(), "idle", or "closed"
    closedBy,    \* why the connection was closed
    online,      \* online_flag_
    pongAge,     \* time since last_pong_at_
    readAge,     \* time since last_read_at_
    pingAge,     \* time since last_ping_at_
    saltAge,     \* time since last_get_future_salt_at_
    destroyAge,  \* time since destroy_auth_key was sent
    salt,        \* "none" valid, the "last" one, or "more" to follow it
    toSend,      \* length of to_send_
    toAck,       \* length of to_ack_message_ids_
    toCancel,    \* length of to_cancel_answer_message_ids_
    toInfo,      \* to_get_state_info_message_ids_
    toResend,    \* to_resend_answer_message_ids_
    sendIn,      \* time to force_send_at_
    wakeIn,      \* time to the timer of the session
    flight,      \* what a packet on its way to the server still contains
    flightAge,   \* how long the packet has been on its way
    lastPing,    \* the packet of last_ping_message_id_, 0 when there is none
    service,     \* service_queries_: the identifiers each packet asks about
    server,      \* "live" or "silent"
    answered,    \* identifiers whose state the server has told
    plan         \* what may still happen

queueVars == <<toSend, toAck, toCancel, toInfo, toResend, sendIn>>
timeVars  == <<pongAge, readAge, pingAge, saltAge, destroyAge>>
flightVars == <<flight, flightAge, lastPing, service>>
wireVars  == <<wireAt, closedBy, online, timeVars, salt, queueVars, wakeIn,
               flightVars, server, answered, plan>>

LongAgo == 99   \* the age of what never happened, a time stamp of 0
Unset   == 99   \* a deadline of 0

Kinds == {"query", "ack", "cancel", "info", "resend", "salts", "ping", "destroy"}
NoService == [info |-> {}, resend |-> {}]

----------------------------------------------------------------------------
(* Delays, in ticks. *)

Rtt == 2
AckDelay  == 2
SaltDelay == 4
DestroyDelay == 4

ReadDisconnectDelay(on) == IF on THEN (7 * Rtt) \div 2 ELSE 9
PingDisconnectDelay(on) == IF on THEN (5 * Rtt) \div 2 ELSE 9
PingMayDelay  == IF online THEN Rtt \div 2 ELSE 2
PingMustDelayOffline == 4
PingMustDelay == IF online THEN Rtt ELSE 4

HasSalt == salt # "none"
MayPingLate == pingAge > PingMustDelay
MayPing     == pingAge >= PingMayDelay
MustPing    == pingAge >= PingMustDelay

Sooner(a, b) == Min({a, b})

----------------------------------------------------------------------------
(* What a handler adds to the queues.  Each queue sets the common deadline *)
(* when it stops being empty.                                              *)

(* send_ack for n messages of one packet *)
AckDeadline(n, deadline) ==
    IF n = 0 THEN deadline
    ELSE IF toAck + n >= MaxUnacked THEN 0
    ELSE IF toAck = 0 THEN Sooner(deadline, AckDelay) ELSE deadline

(* get_state_info and resend_answer; their delays are below a tick *)
QueueDeadline(ids, queue, deadline) ==
    IF ids # {} /\ queue = {} THEN 0 ELSE deadline

CloseBy(why) ==
    /\ wireAt' = "closed"
    /\ closedBy' = why
    /\ UNCHANGED <<online, timeVars, salt, queueVars, wakeIn, flightVars,
                   server, answered, plan>>

Spend(item) == plan[item] > 0 /\ plan' = [plan EXCEPT ![item] = @ - 1]

----------------------------------------------------------------------------
(* flush(): before_write() writes packets while must_flush_packet(). *)

MustFlushPacket ==
    \/ HasSalt /\ sendIn = 0
    \/ HasSalt /\ MustPing
    \/ ~HasSalt /\ saltAge >= SaltDelay
    \/ HasSalt /\ plan.destroy /\ destroyAge = LongAgo

(* The number of queries, then of cancellations, in the next packet. *)
QueriesOut == IF HasSalt THEN Sooner(toSend, MaxQueryCount) ELSE 0
CancelsOut == Sooner(toCancel, MaxQueryCount - QueriesOut)

(* The kinds of messages of the next packet. *)
NextPacket ==
    {k \in Kinds :
        CASE k = "query"   -> QueriesOut > 0
          [] k = "ack"     -> toAck > 0
          [] k = "cancel"  -> CancelsOut > 0
          [] k = "info"    -> toInfo # {}
          [] k = "resend"  -> toResend # {}
          [] k = "salts"   -> salt # "more" /\ saltAge >= SaltDelay
          [] k = "ping"    -> HasSalt /\ MayPing
          [] k = "destroy" -> plan.destroy /\ destroyAge = LongAgo}

(* force_send_at_ after the packet: every other queue is written whole. *)
DeadlineLeftIfQueries ==
    IF toSend = QueriesOut THEN Unset ELSE sendIn
DeadlineLeft ==
    IF toSend = QueriesOut /\ toCancel = CancelsOut THEN Unset ELSE sendIn

FreeId == CHOOSE p \in PacketIds : flight[p] = {}

(* send_crypto, and the bookkeeping of the identifiers it made up *)
SendCrypto(packet) ==
    IF server = "live"
    THEN /\ flight' = [flight EXCEPT ![FreeId] = packet]
         /\ flightAge' = [flightAge EXCEPT ![FreeId] = 0]
         /\ service' = [service EXCEPT ![FreeId] =
                            [info |-> toInfo, resend |-> toResend]]
         /\ lastPing' = IF "ping" \in packet THEN FreeId ELSE lastPing
    ELSE /\ lastPing' = IF "ping" \in packet THEN 0 ELSE lastPing
         /\ UNCHANGED <<flight, flightAge, service>>

FlushPacket ==
    /\ wireAt = "writing"
    /\ MustFlushPacket
    /\ NextPacket # {}
    /\ \E p \in PacketIds : flight[p] = {}
    /\ SendCrypto(NextPacket)
    /\ pingAge' = IF "ping" \in NextPacket THEN 0 ELSE pingAge
    /\ saltAge' = IF "salts" \in NextPacket THEN 0 ELSE saltAge
    /\ destroyAge' = IF "destroy" \in NextPacket THEN 0 ELSE destroyAge
    /\ toSend' = toSend - QueriesOut
    /\ toCancel' = toCancel - CancelsOut
    /\ toAck' = 0
    /\ toInfo' = {}
    /\ toResend' = {}
    /\ sendIn' = DeadlineLeft
    /\ UNCHANGED <<wireAt, closedBy, online, pongAge, readAge, salt, wakeIn,
                   server, answered, plan>>

(* The early return of flush_packet when there is nothing to write cannot  *)
(* be met: NextPacket is never empty when MustFlushPacket holds.           *)

(* The end of do_flush: the timeouts, and the time flush() returns. *)
FlushPacketIn ==
    IF HasSalt THEN {sendIn, PingMustDelay - pingAge} ELSE {SaltDelay - saltAge}

EndFlush ==
    /\ wireAt = "writing"
    /\ ~MustFlushPacket
    /\ IF \/ pongAge >= PingDisconnectDelay(online)
          \/ readAge >= ReadDisconnectDelay(online)
       THEN CloseBy("timeout")
       ELSE /\ wireAt' = "idle"
            /\ wakeIn' = Min({PingDisconnectDelay(online) - pongAge,
                              ReadDisconnectDelay(online) - readAge}
                             \cup FlushPacketIn)
            /\ UNCHANGED <<closedBy, online, timeVars, salt, queueVars,
                           flightVars, server, answered, plan>>

----------------------------------------------------------------------------
(* What starts a flush: the timer, the session, or a packet. *)

TimerRings ==
    /\ wireAt = "idle"
    /\ wakeIn = 0
    /\ wireAt' = "writing"
    /\ UNCHANGED <<closedBy, online, timeVars, salt, queueVars, wakeIn,
                   flightVars, server, answered, plan>>

(* connection_send_query for n queries of one turn of Session::loop *)
SendQueries ==
    /\ wireAt = "idle"
    /\ HasSalt
    /\ \E n \in 1..plan.queries :
          /\ plan' = [plan EXCEPT !.queries = @ - n]
          /\ toSend' = toSend + n
          /\ sendIn' = IF toSend = 0 THEN 0 ELSE sendIn
    /\ wireAt' = "writing"
    /\ UNCHANGED <<closedBy, online, timeVars, salt, toAck, toCancel, toInfo,
                   toResend, wakeIn, flightVars, server, answered>>

CancelAnswer ==
    /\ wireAt = "idle"
    /\ Spend("cancels")
    /\ toCancel' = toCancel + 1
    /\ sendIn' = IF toCancel = 0 THEN 0 ELSE sendIn
    /\ wireAt' = "writing"
    /\ UNCHANGED <<closedBy, online, timeVars, salt, toSend, toAck, toInfo,
                   toResend, wakeIn, flightVars, server, answered>>

SetOnline ==
    /\ wireAt = "idle"
    /\ Spend("switches")
    /\ \E flag \in BOOLEAN :
          /\ online' = flag
          /\ IF flag \/ ~online
             THEN /\ pongAge' = PingDisconnectDelay(flag) - Rtt
                  /\ readAge' = ReadDisconnectDelay(flag) - Rtt
             ELSE pongAge' = 0 /\ readAge' = 0
    /\ pingAge' = LongAgo
    /\ lastPing' = 0
    /\ wireAt' = "writing"
    /\ UNCHANGED <<closedBy, saltAge, destroyAge, salt, queueVars, wakeIn,
                   flight, flightAge, service, server, answered>>

(* A packet that passes check_packet: on_read and on_main_packet. *)
OnMainPacket ==
    /\ wireAt = "idle"
    /\ server = "live"
    /\ readAge' = 0
    /\ pongAge' = 0

Forget(p) ==
    /\ flight' = [flight EXCEPT ![p] = {}]
    /\ flightAge' = [flightAge EXCEPT ![p] = 0]
    /\ service' = [service EXCEPT ![p] = NoService]
    /\ lastPing' = IF lastPing = p THEN 0 ELSE lastPing

(* The server answers what packet p asks.  Results, resent answers and the *)
(* confirmations of cancellations are to be acknowledged, at once when the *)
(* session does not know the query (force_ack).  Nothing answers           *)
(* acknowledgements, and the request to destroy the key may be left        *)
(* without an answer.                                                      *)
Unanswered == {"ack", "destroy"}

Answer(p) ==
    LET acks == Cardinality(flight[p] \cap {"query", "cancel", "resend"})
        due  == AckDeadline(acks, sendIn)
    IN  /\ ~(flight[p] \subseteq Unanswered)
        /\ IF "ping" \in flight[p] /\ destroyAge # LongAgo /\ destroyAge >= DestroyDelay
           THEN wireAt = "idle" /\ server = "live" /\ CloseBy("no answer")
           ELSE /\ OnMainPacket
                /\ Forget(p)
                /\ salt' = IF "salts" \in flight[p] THEN "more" ELSE salt
                /\ answered' = answered \cup service[p].info
                /\ toAck' = toAck + acks
                /\ sendIn' \in IF toAck' > 0 THEN {due, 0} ELSE {due}
                /\ wireAt' = "writing"
                /\ UNCHANGED <<closedBy, online, pingAge, saltAge, destroyAge,
                               toSend, toCancel, toInfo, toResend, wakeIn,
                               server, plan>>

Absorb(p) ==
    /\ wireAt = "idle"
    /\ server = "live"
    /\ flight[p] # {} /\ flight[p] \subseteq Unanswered
    /\ Forget(p)
    /\ UNCHANGED <<wireAt, closedBy, online, timeVars, salt, queueVars, wakeIn,
                   server, answered, plan>>

(* destroy_auth_key_ok, _none or _fail: Session::on_destroy_auth_key *)
KeyDestroyed(p) ==
    /\ wireAt = "idle"
    /\ server = "live"
    /\ "destroy" \in flight[p]
    /\ CloseBy("destroyed")

(* The identifiers of the service queries among the messages that failed.  *)
FailedServiceAlone(p, kind, failed) == IF failed = {kind} THEN service[p][kind] ELSE {}
FailedService(p, kind, failed) == IF kind \in failed THEN service[p][kind] ELSE {}

(* on_message_failed: bad_server_salt, or bad_msg_notification with the    *)
(* code MsgIdTooLow or MsgIdTooOld.  The identifier is that of the packet, *)
(* a container or a lone message, or that of one message of a container.   *)
(* Service queries are asked again, a ping is sent again.                  *)
MessageFailed(p, badSalt, failed) ==
    LET info   == FailedService(p, "info", failed)
        resend == FailedService(p, "resend", failed)
    IN  /\ flight[p] # {}
        /\ Spend("failures")
        /\ OnMainPacket
        /\ salt' = IF badSalt THEN "last" ELSE salt
        /\ destroyAge' = LongAgo
        /\ IF lastPing = p /\ "ping" \in failed
           THEN pingAge' = LongAgo /\ lastPing' = 0
           ELSE UNCHANGED <<pingAge, lastPing>>
        /\ flight' = [flight EXCEPT ![p] = @ \ failed]
        /\ service' = [service EXCEPT ![p] =
               [info   |-> IF "info" \in failed THEN {} ELSE @.info,
                resend |-> IF "resend" \in failed THEN {} ELSE @.resend]]
        /\ toInfo' = toInfo \cup info
        /\ toResend' = toResend \cup resend
        /\ sendIn' = QueueDeadline(info, toInfo,
                         QueueDeadline(resend, toResend, sendIn))
        /\ wireAt' = "writing"
        /\ UNCHANGED <<closedBy, online, saltAge, toSend, toAck, toCancel,
                       wakeIn, flightAge, server, answered>>

(* The messages that fail when the server names the packet, or one message *)
(* of a container.                                                         *)
Failures(p) == {flight[p]} \cup {{k} : k \in flight[p]}

(* An update, and msg_detailed_info, which names an answer to ask for. *)
ReceiveUpdate ==
    /\ Spend("news")
    /\ OnMainPacket
    /\ toAck' = toAck + 1
    /\ sendIn' = AckDeadline(1, sendIn)
    /\ wireAt' = "writing"
    /\ UNCHANGED <<closedBy, online, pingAge, saltAge, destroyAge, salt, toSend,
                   toCancel, toInfo, toResend, wakeIn, flightVars, server,
                   answered>>

ReceiveDetailedInfo ==
    /\ Spend("news")
    /\ OnMainPacket
    /\ \E m \in Messages :
          /\ toResend' = toResend \cup {m}
          /\ sendIn' = QueueDeadline({m}, toResend, sendIn)
    /\ wireAt' = "writing"
    /\ UNCHANGED <<closedBy, online, pingAge, saltAge, destroyAge, salt, toSend,
                   toAck, toCancel, toInfo, wakeIn, flightVars, server, answered>>

(* A packet check_packet has already seen is acknowledged and ignored; it  *)
(* was read, but it counts as no pong.                                     *)
ReceiveDuplicate ==
    /\ wireAt = "idle"
    /\ server = "live"
    /\ Spend("news")
    /\ readAge' = 0
    /\ toAck' = toAck + 1
    /\ sendIn' = AckDeadline(1, sendIn)
    /\ wireAt' = "writing"
    /\ UNCHANGED <<closedBy, online, pongAge, pingAge, saltAge, destroyAge, salt,
                   toSend, toCancel, toInfo, toResend, wakeIn, flightVars,
                   server, answered>>

(* Every other code of bad_msg_notification, an update or a packet that is *)
(* too old, a packet that cannot be parsed.                                *)
ReceiveFatal ==
    /\ wireAt = "idle"
    /\ server = "live"
    /\ plan.fatal
    /\ CloseBy("failed")

----------------------------------------------------------------------------
(* The surroundings *)

(* The next of the future salts becomes the salt; none is left after it.   *)
(* The last salt outlives the connection: it lasts for minutes, and every  *)
(* ping asks for more.                                                     *)
SaltRuns ==
    /\ wireAt = "idle"
    /\ salt = "more"
    /\ Spend("salts")
    /\ salt' = "last"
    /\ UNCHANGED <<wireAt, closedBy, online, timeVars, queueVars, wakeIn,
                   flightVars, server, answered>>

(* The server, or the way to it, falls silent for good. *)
FallSilent ==
    /\ wireAt = "idle"
    /\ plan.silence
    /\ server = "live"
    /\ server' = "silent"
    /\ flight' = [p \in PacketIds |-> {}]
    /\ flightAge' = [p \in PacketIds |-> 0]
    /\ UNCHANGED <<wireAt, closedBy, online, timeVars, salt, queueVars, wakeIn,
                   lastPing, service, answered, plan>>

Aged(age, cap) == IF age = LongAgo THEN LongAgo ELSE Sooner(age + 1, cap)

(* A tick.  The timer rings on time, and a live server reacts to a packet  *)
(* within a tick, the round trip being shorter than rtt().                 *)
Tick ==
    /\ wireAt = "idle"
    /\ wakeIn > 0
    /\ \A p \in PacketIds : flight[p] # {} => flightAge[p] = 0
    /\ pongAge' = pongAge + 1
    /\ readAge' = readAge + 1
    /\ pingAge' = Aged(pingAge, 4)
    /\ saltAge' = Aged(saltAge, SaltDelay)
    /\ destroyAge' = Aged(destroyAge, DestroyDelay)
    /\ sendIn' = IF sendIn = Unset THEN Unset ELSE Max({0, sendIn - 1})
    /\ wakeIn' = wakeIn - 1
    /\ flightAge' = [p \in PacketIds |-> IF flight[p] # {} THEN 1 ELSE 0]
    /\ UNCHANGED <<wireAt, closedBy, online, salt, toSend, toAck, toCancel,
                   toInfo, toResend, flight, lastPing, service, server,
                   answered, plan>>

----------------------------------------------------------------------------
(* A connection as connection_open_finish leaves it. *)
NewConnection ==
    /\ plan \in WirePlans
    /\ closedBy = "open"
    /\ online = plan.online
    /\ pongAge = 0 /\ readAge = 0
    /\ pingAge = LongAgo /\ saltAge = LongAgo /\ destroyAge = LongAgo
    /\ salt = plan.salt
    /\ toSend = 0 /\ toAck = 0 /\ toCancel = 0
    /\ toInfo = plan.asked
    /\ toResend = {}
    /\ sendIn = IF plan.asked = {} THEN Unset ELSE 0
    /\ wakeIn = 0
    /\ flight = [p \in PacketIds |-> {}]
    /\ flightAge = [p \in PacketIds |-> 0]
    /\ lastPing = 0
    /\ service = [p \in PacketIds |-> NoService]
    /\ server = "live"
    /\ answered = {}

WireInit == NewConnection /\ wireAt = "writing"

Flushing == FlushPacket \/ EndFlush \/ TimerRings

ServerReacts ==
    \E p \in PacketIds :
        \/ Answer(p)
        \/ Absorb(p)
        \/ KeyDestroyed(p)
        \/ \E badSalt \in BOOLEAN, failed \in Failures(p) :
              MessageFailed(p, badSalt, failed)

WireNext ==
    \/ Flushing
    \/ SendQueries
    \/ CancelAnswer
    \/ SetOnline
    \/ ServerReacts
    \/ ReceiveUpdate
    \/ ReceiveDetailedInfo
    \/ ReceiveDuplicate
    \/ ReceiveFatal
    \/ SaltRuns
    \/ FallSilent
    \/ Tick

WireSpec == WireInit /\ [][WireNext]_wireVars

(* flush() runs to its end, timers ring, a live server reacts, and time    *)
(* goes on.                                                                *)
WireFair ==
    /\ WF_wireVars(Flushing)
    /\ WF_wireVars(ServerReacts)
    /\ WF_wireVars(Tick)

WireFairSpec == WireSpec /\ WireFair

----------------------------------------------------------------------------
(* Properties *)

(* Whatever waits in a queue has a deadline, and the timer of the session  *)
(* rings no later: no acknowledgement, cancellation or request stays in    *)
(* its queue because another queue was emptied, or because a packet was    *)
(* full (flush_packet, SessionConnection.cpp:1071).                        *)
QueuedIsTimed ==
    wireAt = "idle" /\ HasSalt
        /\ (toSend + toAck + toCancel > 0 \/ toInfo # {} \/ toResend # {})
    => sendIn # Unset /\ wakeIn <= sendIn

(* A server that reacts to everything within a round trip is never given   *)
(* up for silence, however often the session goes online and offline       *)
(* (set_online, SessionConnection.cpp:792): every shortened timeout comes  *)
(* with a ping that is answered in time.  Pings need a salt.               *)
LiveServerKept ==
    closedBy = "timeout" /\ server = "live" => ~HasSalt

(* The state of every query the session asked about when it opened the     *)
(* connection stays asked for until the server tells it, although requests *)
(* are refused with their container or alone (on_message_failed,           *)
(* SessionConnection.cpp:610).  What a silent server is asked is not kept  *)
(* track of.                                                               *)
AsksKept ==
    wireAt # "closed" /\ server = "live" =>
        plan.asked \subseteq
            answered \cup toInfo \cup UNION {service[p].info : p \in PacketIds}

(* A connection whose server is silent, or that is to destroy its key, is  *)
(* closed in the end: the timeouts are always armed and the loop of        *)
(* before_write always ends (SessionConnection.cpp:1136).                  *)
ConnectionEnds ==
    (server = "silent" \/ plan.destroy) ~> wireAt = "closed"
============================================================================
