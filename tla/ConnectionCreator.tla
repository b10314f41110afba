------------------------- MODULE ConnectionCreator -------------------------
(***************************************************************************)
(* ConnectionCreator (td/telegram/net/ConnectionCreator.{h,cpp}) with the  *)
(* actors that ready a connection for it (PingActor of Ping.cpp, TlsInit   *)
(* over TransparentProxy.cpp), the sessions that ask it for connections    *)
(* (Session.cpp: connection_open, connection_open_finish, on_network) and  *)
(* the news of StateManager.h that each of them gets in its own time.      *)
(* One client is modelled, that is, the requests with one hash; no proxy   *)
(* is ever active in this program, and nothing hangs the actor up.         *)
(*                                                                         *)
(* A handler is one step with the client_loop it ends in; what a session   *)
(* on another thread cancels meanwhile, it reads before or after.  Whether *)
(* flood control, sockets, pings and handshakes let a connection through   *)
(* is a choice; a plan bounds how many of these choices are bad.           *)
(***************************************************************************)
EXTENDS Integers, Sequences, FiniteSets

CONSTANTS
  Requesters,    \* the sessions
  MaxChecking,   \* how many connections are checked at once: 3 in client_loop
  ConnectionPlans
    \* scenarios, records of: sessions, the sessions there are; generations, the
    \* last generation of the network; checks, whether find_connection ever wants
    \* a check; online, how many on_online the creator gets; faults, bound on
    \* floods and on connections that fail; losses, bound on connections lost and
    \* on sessions ended; handshakes, bound on those that return a connection

ASSUME ConnectionAssumption ==
  /\ MaxChecking \in Nat \ {0}
  /\ ConnectionPlans \subseteq
       [sessions : SUBSET Requesters, generations : Nat \ {0}, checks : BOOLEAN,
        online : Nat, faults : Nat, losses : Nat, handshakes : Nat]

VARIABLES
  limits,        \* the plan, its numbers being what is left of them
  queries,       \* client.queries: who waits for a connection
  pending,       \* client.pending_connections
  checking,      \* client.checking_connections
  readyConns,    \* client.ready_connections, oldest first
  timerSet,      \* the timeout of client.slot is set
  wakeup,        \* client_wakeup is on its way
  creatorGen,    \* network_generation_; 0 until network_flag_ is true
  attempts,      \* the connections being made, a bag
  requests,      \* the messages request_raw_connection on their way
  connState,     \* ConnectionInfo::state_ of each session; "offered": a message
                 \* connection_open_finish is on its way to it; "gone": it has ended
  connGen,       \* the generation of the connection offered or in use
  cached,        \* that of cached_connection_ of each session, 0 when there is none
  sessionGen,    \* network_generation_ of each session; 0 before on_network
  stateGen,      \* network_generation_ of StateManager
  onlineNews     \* how many on_online the creator has yet to get

clientVars == <<queries, pending, checking, readyConns>>
sessionConnVars == <<requests, connState, connGen, cached, sessionGen>>
connectionVars ==
  <<clientVars, timerSet, wakeup, creatorGen, attempts, sessionConnVars, stateGen,
    onlineNews, limits>>

\* One of the plan's chances of the kind f is used up.
Use(f) == limits[f] > 0 /\ limits' = [limits EXCEPT ![f] = @ - 1]

\* A connection on its way through the creator: "socket" before
\* client_create_raw_connection (in a TlsInit or not), "ping" in a PingActor,
\* "ok" and "error" before client_add_connection.
Generations == UNION {1..p.generations : p \in ConnectionPlans}
AttemptKinds == [stage : {"socket", "ping", "ok", "error"}, check : BOOLEAN, gen : Generations]
Attempt(stage, check, gen) == [stage |-> stage, check |-> check, gen |-> gen]
NoAttempt == [x \in AttemptKinds |-> 0]
MoveAttempt(x, stage) == [attempts EXCEPT ![x] = @ - 1, ![[x EXCEPT !.stage = stage]] = @ + 1]
UnderWay == {x \in AttemptKinds : attempts[x] > 0}

----------------------------------------------------------------------------
\* client_loop.

Canceled(r) == connState[r] = "gone"

\* How many of the first n of the queries q are not canceled, and how many of q
\* are given a connection of c or passed over: the loop that hands out ends with
\* the last query or the last connection.
Served(q, n) == Cardinality({i \in 1..n : ~Canceled(q[i])})
Consumed(q, c) ==
  LET Enough == {n \in 0..Len(q) : Served(q, n) = Len(c)}
  IN  IF Enough = {} THEN Len(q) ELSE CHOOSE n \in Enough : \A m \in Enough : n <= m

\* The newest connections go to the first queries that are not canceled.
HandOut(q, c) ==
  LET n == Consumed(q, c)
      Places(r) == {i \in 1..n : q[i] = r /\ ~Canceled(r)}
      Newest(i) == c[Len(c) + 1 - i]
  IN  /\ queries' = SubSeq(q, n + 1, Len(q))
      /\ readyConns' = SubSeq(c, 1, Len(c) - Served(q, n))
      /\ connState' = [r \in Requesters |-> IF Places(r) # {} THEN "offered" ELSE connState[r]]
      /\ connGen' = [r \in Requesters |->
           IF Places(r) # {} THEN Newest(Served(q, CHOOSE i \in Places(r) : TRUE)).gen
                             ELSE connGen[r]]

\* The main loop, entered with the counters p and k and the bag a, opens
\* unchecked connections, then, from the first that find_connection wants
\* checked, checked ones, until enough are under way or a flood or an error of
\* find_connection sets the timer.
OpenUntilEnough(gen, p, k, a, timer) ==
  LET Enough(plain, checks) ==
        IF k + checks # 0 THEN k + checks >= MaxChecking ELSE p + plain >= Len(queries')
  IN  IF queries' = <<>>
        THEN /\ timerSet' = (timer \/ readyConns' # <<>>)
             /\ pending' = p /\ checking' = k /\ attempts' = a
             /\ UNCHANGED limits
        ELSE \E plain \in 0..Len(queries'), checks \in 0..MaxChecking :
               /\ k # 0 => plain = 0
               /\ k = 0 /\ checks > 0 => limits.checks
               /\ plain > 0 => ~Enough(plain - 1, 0)
               /\ checks > 0 => ~Enough(plain, checks - 1)
               /\ \/ Enough(plain, checks) /\ timerSet' = timer /\ UNCHANGED limits
                  \/ /\ ~Enough(plain, checks)
                     /\ Use("faults")
                     /\ timerSet' = TRUE
               /\ pending' = p + plain + checks
               /\ checking' = k + checks
               /\ attempts' = [a EXCEPT ![Attempt("socket", FALSE, gen)] = @ + plain,
                                      ![Attempt("socket", TRUE, gen)] = @ + checks]

\* client_loop under the generation gen, entered with the queries q, the
\* connections c, the counters p and k and the attempts a.
ClientLoop(gen, q, c, p, k, a) ==
  IF gen = 0
    THEN /\ queries' = q /\ readyConns' = c /\ pending' = p /\ checking' = k /\ attempts' = a
         /\ UNCHANGED <<connState, connGen, timerSet, limits>>
    ELSE /\ HandOut(q, SelectSeq(c, LAMBDA x : ~x.expired))
         /\ OpenUntilEnough(gen, p, k, a, timerSet)

----------------------------------------------------------------------------
\* The other handlers of the creator, and the actors that work for it.

\* request_raw_connection: the promise joins the queries.
RequestRawConnection(r) ==
  /\ r \in requests
  /\ requests' = requests \ {r}
  /\ ClientLoop(creatorGen, Append(queries, r), readyConns, pending, checking, attempts)
  /\ UNCHANGED <<wakeup, creatorGen, cached, sessionGen, stateGen, onlineNews>>

\* client_create_raw_connection: a TlsInit may have failed; a connection to be
\* checked goes to a ping, another one to the promise.
ClientCreateRawConnection(x) ==
  /\ x.stage = "socket"
  /\ \/ /\ attempts' = MoveAttempt(x, IF x.check THEN "ping" ELSE "ok")
        /\ UNCHANGED limits
     \/ /\ Use("faults")
        /\ attempts' = MoveAttempt(x, "error")
  /\ UNCHANGED <<queries, pending, checking, readyConns, timerSet, wakeup, creatorGen,
                 sessionConnVars, stateGen, onlineNews>>

\* PingActor::finish, which answers once: after the pong, an error or a timeout.
PingEnds(x) ==
  /\ x.stage = "ping"
  /\ \/ attempts' = MoveAttempt(x, "ok") /\ UNCHANGED limits
     \/ /\ Use("faults")
        /\ attempts' = MoveAttempt(x, "error")
  /\ UNCHANGED <<queries, pending, checking, readyConns, timerSet, wakeup, creatorGen,
                 sessionConnVars, stateGen, onlineNews>>

\* Mutant of ClientAddConnection: only a good connection is counted down.
ClientAddConnectionIfOk(x) ==
  /\ x.stage \in {"ok", "error"}
  /\ IF x.stage = "ok"
       THEN ClientLoop(creatorGen, queries, Append(readyConns, [gen |-> x.gen, expired |-> FALSE]),
                       pending - 1, IF x.check THEN checking - 1 ELSE checking,
                       [attempts EXCEPT ![x] = @ - 1])
       ELSE ClientLoop(creatorGen, queries, readyConns, pending, checking,
                       [attempts EXCEPT ![x] = @ - 1])
  /\ UNCHANGED <<wakeup, creatorGen, requests, cached, sessionGen, stateGen, onlineNews>>

\* client_add_connection.
ClientAddConnection(x) ==
  /\ x.stage \in {"ok", "error"}
  /\ ClientLoop(creatorGen, queries,
                IF x.stage = "ok" THEN Append(readyConns, [gen |-> x.gen, expired |-> FALSE])
                                  ELSE readyConns,
                pending - 1, IF x.check THEN checking - 1 ELSE checking,
                [attempts EXCEPT ![x] = @ - 1])
  /\ UNCHANGED <<wakeup, creatorGen, requests, cached, sessionGen, stateGen, onlineNews>>

\* The slot of the client: its timeout sends client_wakeup.
SlotTimeout ==
  /\ timerSet
  /\ timerSet' = FALSE /\ wakeup' = TRUE
  /\ UNCHANGED <<clientVars, creatorGen, attempts, sessionConnVars, stateGen, onlineNews, limits>>

ClientWakeup ==
  /\ wakeup
  /\ wakeup' = FALSE
  /\ ClientLoop(creatorGen, queries, readyConns, pending, checking, attempts)
  /\ UNCHANGED <<creatorGen, requests, cached, sessionGen, stateGen, onlineNews>>

\* READY_CONNECTIONS_TIMEOUT seconds pass for the oldest ready connection.
ReadyExpires ==
  /\ \E i \in 1..Len(readyConns) :
       /\ ~readyConns[i].expired
       /\ \A j \in 1..(i - 1) : readyConns[j].expired
       /\ readyConns' = [readyConns EXCEPT ![i].expired = TRUE]
  /\ UNCHANGED <<queries, pending, checking, timerSet, wakeup, creatorGen, attempts,
                 sessionConnVars, stateGen, onlineNews, limits>>

\* on_network; on_online, which only drops flood control before its client_loop.
CreatorOnNetwork ==
  /\ \E g \in (creatorGen + 1)..stateGen :
       /\ creatorGen' = g
       /\ ClientLoop(g, queries, readyConns, pending, checking, attempts)
  /\ UNCHANGED <<wakeup, requests, cached, sessionGen, stateGen, onlineNews>>

CreatorOnOnline ==
  /\ creatorGen # 0 /\ onlineNews > 0
  /\ onlineNews' = onlineNews - 1
  /\ ClientLoop(creatorGen, queries, readyConns, pending, checking, attempts)
  /\ UNCHANGED <<wakeup, creatorGen, requests, cached, sessionGen, stateGen>>

----------------------------------------------------------------------------
\* The sessions and StateManager.

creatorVars == <<clientVars, timerSet, wakeup, creatorGen, attempts, onlineNews>>

\* connection_add: a handshake is over and leaves its connection to the session.
ConnectionAdd(r) ==
  /\ Use("handshakes")
  /\ connState[r] # "gone"
  /\ \E g \in 1..creatorGen : cached' = [cached EXCEPT ![r] = g]
  /\ UNCHANGED <<creatorVars, requests, connState, connGen, sessionGen, stateGen>>

\* loop() drops it after ten seconds.
CachedExpires(r) ==
  /\ cached[r] # 0
  /\ cached' = [cached EXCEPT ![r] = 0]
  /\ UNCHANGED <<creatorVars, requests, connState, connGen, sessionGen, stateGen, limits>>

\* connection_open of a session that has its key: it takes the connection left by
\* a handshake, or asks for one.
ConnectionOpen(r) ==
  /\ connState[r] = "empty" /\ sessionGen[r] # 0
  /\ \/ /\ cached[r] # 0
        /\ connState' = [connState EXCEPT ![r] = "offered"]
        /\ connGen' = [connGen EXCEPT ![r] = cached[r]]
        /\ cached' = [cached EXCEPT ![r] = 0]
        /\ UNCHANGED requests
     \/ /\ cached[r] = 0
        /\ connState' = [connState EXCEPT ![r] = "connecting"]
        /\ requests' = requests \cup {r}
        /\ UNCHANGED <<connGen, cached>>
  /\ UNCHANGED <<creatorVars, sessionGen, stateGen, limits>>

\* Mutant of ConnectionOpenFinish: a stale connection leaves the state as it is.
ConnectionOpenFinishStuck(r) ==
  /\ connState[r] = "offered"
  /\ connState' = [connState EXCEPT ![r] = IF connGen[r] = sessionGen[r] THEN "ready" ELSE "connecting"]
  /\ UNCHANGED <<creatorVars, requests, connGen, cached, sessionGen, stateGen, limits>>

\* connection_open_finish.
ConnectionOpenFinish(r) ==
  /\ connState[r] = "offered"
  /\ connState' = [connState EXCEPT ![r] = IF connGen[r] = sessionGen[r] THEN "ready" ELSE "empty"]
  /\ UNCHANGED <<creatorVars, requests, connGen, cached, sessionGen, stateGen, limits>>

\* Mutant of SessionOnNetwork: the connection in use is kept.
SessionOnNetworkKeeps(r) ==
  /\ connState[r] # "gone"
  /\ \E g \in (sessionGen[r] + 1)..stateGen : sessionGen' = [sessionGen EXCEPT ![r] = g]
  /\ UNCHANGED <<creatorVars, connState, requests, connGen, cached, stateGen, limits>>

\* on_network of a session: a connection in use is closed.
SessionOnNetwork(r) ==
  /\ connState[r] # "gone"
  /\ \E g \in (sessionGen[r] + 1)..stateGen : sessionGen' = [sessionGen EXCEPT ![r] = g]
  /\ connState' = [connState EXCEPT ![r] = IF @ = "ready" THEN "empty" ELSE @]
  /\ UNCHANGED <<creatorVars, requests, connGen, cached, stateGen, limits>>

\* The connection in use is lost; the session ends, which cancels its request.
ConnectionLost(r) ==
  /\ Use("losses")
  /\ connState[r] = "ready"
  /\ connState' = [connState EXCEPT ![r] = "empty"]
  /\ UNCHANGED <<creatorVars, requests, connGen, cached, sessionGen, stateGen>>

SessionEnds(r) ==
  /\ Use("losses")
  /\ connState[r] # "gone"
  /\ connState' = [connState EXCEPT ![r] = "gone"]
  /\ UNCHANGED <<creatorVars, requests, connGen, cached, sessionGen, stateGen>>

\* StateManager::on_network.
StateOnNetwork ==
  /\ stateGen < limits.generations
  /\ stateGen' = stateGen + 1
  /\ UNCHANGED <<creatorVars, sessionConnVars, limits>>

----------------------------------------------------------------------------
ConnectionInit ==
  /\ limits \in ConnectionPlans
  /\ queries = <<>> /\ pending = 0 /\ checking = 0 /\ readyConns = <<>>
  /\ timerSet = FALSE /\ wakeup = FALSE /\ creatorGen = 0 /\ attempts = NoAttempt
  /\ requests = {} /\ connState = [r \in Requesters |-> IF r \in limits.sessions THEN "empty" ELSE "gone"]
  /\ connGen = [r \in Requesters |-> 0] /\ cached = [r \in Requesters |-> 0]
  /\ sessionGen = [r \in Requesters |-> 0]
  /\ stateGen = 1 /\ onlineNews = limits.online

AttemptStep ==
  \E x \in UnderWay : ClientCreateRawConnection(x) \/ PingEnds(x) \/ ClientAddConnection(x)
TimerStep == SlotTimeout \/ ClientWakeup
SessionStep(r) == ConnectionOpen(r) \/ ConnectionOpenFinish(r)

ConnectionNext ==
  \/ AttemptStep \/ TimerStep \/ ReadyExpires
  \/ CreatorOnNetwork \/ CreatorOnOnline \/ StateOnNetwork
  \/ \E r \in Requesters :
       \/ RequestRawConnection(r) \/ SessionStep(r) \/ SessionOnNetwork(r)
       \/ ConnectionLost(r) \/ SessionEnds(r) \/ ConnectionAdd(r) \/ CachedExpires(r)

ConnectionSpec == ConnectionInit /\ [][ConnectionNext]_connectionVars

\* Every message is delivered, every ping and every handshake of a socket ends by
\* its timeout of 10 seconds, timers fire, and a session that needs a connection
\* goes on asking.
ConnectionFair ==
  /\ WF_connectionVars(AttemptStep) /\ WF_connectionVars(TimerStep)
  /\ WF_connectionVars(ReadyExpires) /\ WF_connectionVars(CreatorOnNetwork)
  /\ WF_connectionVars(\E r \in Requesters : RequestRawConnection(r))
  /\ \A r \in Requesters :
       WF_connectionVars(SessionStep(r)) /\ WF_connectionVars(SessionOnNetwork(r))
ConnectionFairSpec == ConnectionSpec /\ ConnectionFair

----------------------------------------------------------------------------
\* The attempts of the kinds S, of each kind as many as a says.
OneByOne(a, S) == UNION {{<<x, i>> : i \in 1..a[x]} : x \in S}

\* The counters that client_add_connection counts down, and checks to be above
\* zero, are the numbers of connections being made and being checked, whatever
\* becomes of these; and no more than the limit are checked at once.
AttemptsCounted ==
  /\ pending = Cardinality(OneByOne(attempts, AttemptKinds))
  /\ checking = Cardinality(OneByOne(attempts, {x \in AttemptKinds : x.check}))
  /\ checking <= MaxChecking

\* A session that lives always comes to have a connection, over floods, failed
\* sockets, pings without answer, and connections of the network before the last.
EverySessionConnects ==
  \A r \in Requesters : []<>(connState[r] \in {"ready", "gone"})

\* A connection made for the network as it was is not used after the session has
\* learnt of the change, whoever learnt of it first.
UsedIsCurrent == \A r \in Requesters : connState[r] = "ready" => connGen[r] = sessionGen[r]

============================================================================
