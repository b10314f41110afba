# Formal model of autoproto

TLA+ modules that model the client library in this repository, TLC configurations that check them on small
instances, and TLAPS proofs of what matters most for instances of any size. The modules translate the C++ code;
`PROJECT.json` says for every definition which lines it stands for.

## The system

autoproto is an MTProto client: the network core of TDLib behind a small public API.

| part | where | modelled in |
|---|---|---|
| public API: `run`, `stop`, `submit_*`, `export_session` | `mtproto/Client.cpp` | `Client` |
| root actor: start up, restored sessions, sync of updates | `td/telegram/MtprotoClient.cpp` | `Client` |
| login: bot token, code, second factor | `td/telegram/AuthManager.cpp` | `Client` |
| key-value store of session data | `td/telegram/TdDb.h` | `Client` (two entries) |
| routing of queries to data centers, migration, delays, stop | `td/telegram/net/NetQueryDispatcher.cpp`, `NetQueryDelayer.cpp` | `NetQueryDispatcher` |
| authorization of the other data centers | `td/telegram/net/DcAuthManager.cpp` | `DcAuthManager` |
| sessions to one data center and the key they share | `SessionMultiProxy.cpp`, `SessionProxy.cpp`, `AuthDataShared.cpp` | `SessionPool` |
| one session: queries | `td/telegram/net/Session.cpp`, part of `td/mtproto/SessionConnection.cpp` | `SessionQueries` |
| one session: keys, binding, check of the main key | `Session.cpp`, `td/mtproto/AuthData.h` | `SessionAuth` |
| one connection: queues, pings, timeouts, salts, service queries | `td/mtproto/SessionConnection.cpp` | `SessionConnection` |
| temporary keys the server should keep | `td/telegram/net/TempAuthKeyWatchdog.h` | `TempAuthKeyWatchdog` |
| filter of incoming message ids | `td/mtproto/AuthData.cpp` | `MessageIdDuplicateChecker` |
| making and handing out connections; the network's generations | `td/telegram/net/ConnectionCreator.cpp`, `td/telegram/StateManager.h` | `ConnectionCreator` |
| choice of an address | `td/telegram/net/DcOptionsSet.cpp` | `DcOptionsSet` |
| limits on how often something is done | `tdutils/td/utils/FloodControlStrict.h` | `FloodControlStrict` |
| refresh of the configuration | `td/telegram/ConfigManager.cpp` | `ConfigManager` |
| actors, mailboxes, migration, timeouts | `tdactor/td/actor/impl` | `ActorScheduler` |
| queue between schedulers | `tdutils/td/utils/MpscPollableQueue.h` | `MpscPollableQueue`, which implements `FifoQueue` |
| transports, cryptography, HTTP, TL, tools, examples | `td/mtproto`, `tdnet`, `tdtl`, `td/generate`, ... | no: encoding, arithmetic, I/O |

How they meet: a caller gives a query to the dispatcher, which runs in the caller's thread, creates the sessions of a
data center when it is first used, and passes the query to a `SessionMultiProxy`. That chooses a `SessionProxy`,
which waits for an authorized key if the query needs one, and passes it to its `Session`. The session asks
`ConnectionCreator` for a connection, sends the query over its `SessionConnection` when
its keys are made and bound, and returns it to the dispatcher, answered or to be sent again. Sessions and handshakes
change the shared key from their own threads; proxies and `DcAuthManager` hear of it through listeners. When the
server answers a login, the session stores the authorization, and then `AuthManager` tells the user. All of them are
actors: they run on the thread of their scheduler and reach each other through its queue.

## The modules

Every module lists its variables with the members of the class they stand for; there is one action per handler. What
runs on one actor is one step, unless another thread can be seen in between (a mutex is released, an atomic is read,
a listener is stored): then the handler is split at that point. Mailboxes are sequences where the order of messages
matters, sets or counters where their senders are independent. The network and the servers are nondeterministic
actions marked external in the map.

Definitions preceded by `\* mutant:` are wrong variants of the definition that follows them, each a plausible slip in
that code. They are used by no specification; each shows that a property notices the slip.

* **`MessageIdDuplicateChecker`**: `check_message_id_duplicates` with its compaction, fast path, too-old test and
  sorted insertion. History variables record what was accepted, accepted twice, and refused wrongly.
* **`TempAuthKeyWatchdog`**: the counters of registered keys (with their width), the deadline `sync_at_`, the timer,
  the repetitions, the close flag, the sessions that take and let go keys, and a server that executes
  `auth.dropTempAuthKeys` some time after it was sent. Time is a number of steps.
* **`NetQueryDispatcher`**: `at[q]` is the place of a query: at one of the steps of `dispatch`, in the mailbox or a
  slot of the delayer, at a session, done, or lost with an actor that is gone. Any number of queries are in
  `dispatch` at once, one thread each. What runs under `mutex_` is a step.
* **`DcAuthManager`**: one `DcInfo` record per data center, the manager's mailbox, and per data center the key that
  sessions write, the calls of listeners under way, and the export or import under way. `add_dc` is two steps, since
  the key is read before the listener is stored.
* **`SessionPool`**: proxies are identified by generation and index, sessions by proxy and session generation, as the
  callbacks of the code do. A session is seen from outside: it holds queries, answers or hands them back, fails, and
  hands back everything when closed. `start_up` is two steps, for the same reason as `add_dc`. The number of sessions of a
  proxy is bounded by `MaxSession` (`MayClose`): at the bound no more are closed for an option or a new key.
* **`SessionQueries`**: `pc` is "idle" between two events, "send" in the sending part of `loop()` and "flush" in
  `connection_flush`. Queries are pending, sent (with message id, container, ack,
  unknown flag) or returned. The server answers, refuses, forgets its session; the network loses or delays whatever
  is under way when a connection closes. Of the keys there is only: none, unbound, binding, bound.
* **`SessionAuth`**: the other half of a session: main and temporary key, binding, check of the main key, errors -404
  and 401, handshakes, aging of the temporary key. Ordinary queries are sent or not. `is_ready` also asks for a salt;
  here one is always there (a connection fetches salts by itself, in `SessionConnection`), so that the session may send
  in more states than the code does.
* **`SessionConnection`**: one TCP connection of a primary session. Its queues share one deadline `force_send_at_`; a
  `flush()` is a run of steps during which nothing else happens, since the connection lives inside one actor. Time
  passes in ticks of 15 seconds for a round trip of 30, so that every delay of the code is a whole number of ticks.
  The server answers, refuses, sends messages to acknowledge, takes in a packet that needs no answer, or falls silent.
* **`ConnectionCreator`**: the requests with one hash, the connections that are made, checked and ready, `client_loop`,
  the sessions that ask, use and let go connections, the news of the network that each actor gets in its
  own time, and the connection that a handshake leaves to its session (`cached_connection_`).
* **`DcOptionsSet`**: the statistics of the addresses and the order in which `find_connection` offers them; a session
  that tests and uses them, and the times of errors as ranks. There are two orders, as in the code: `Ordered`, with the
  addresses of the configuration first, decides among good addresses; `Registered`, with the defaults first, decides
  between errors at the same time. Up to three connections are checked at once, which is the limit of `client_loop`.
* **`FloodControlStrict`**: `add_event` and `update` with the updates it skips and the events it drops; events are kept
  by age.
* **`ConfigManager`**: expiry, the query under way, its result or error, and the calls of `lazy_request_config`. Flood
  control gives such a call a time once 60 requests were made in 2 seconds; the model lets it give one at any call.
* **`ActorScheduler`**: schedulers with one thread each and a thread outside; `send` at once or later, `run_mailbox`,
  ready lists, timeouts, the two halves of a migration, `pending_events_`, creating and stopping actors. A handler is a
  frame on the stack of its thread and not atomic: what it does are steps of their own.
* **`MpscPollableQueue`**, **`FifoQueue`**: the two vectors, the lock, the event descriptor polled by edges, and its
  reader; and what the schedulers expect of it. `QueueIsFifo` is the refinement: `reader_vector_` from its position on
  followed by `writer_vector_` is the abstract queue. `ActorScheduler` uses the abstract queue.
* **`Client`**: the thread in `run()` with its loop, user threads that stop and submit, `AuthManager` with its mailbox,
  the sync after `updatesTooLong`, and sessions and dispatcher as far as they write the database and return the
  queries of `AuthManager`. A later run starts with what the user saved.

Several modules take a set `Conditions`, `Scenarios` or `...Plans` of records, one of which is chosen initially: what may go
wrong in a behaviour, and how often. The `MC...` modules define these sets; each record keeps small what it is not
about. Modules that share no state are checked in one run as its parts: a variable `part` says which one moves, and the
others are in a state in which they owe no step.

## The runs

Each run takes at most a few minutes with two workers. Deadlock is not checked where the bounds, the end of the
program or a quiet client leave nothing to do.

| run | instance | checks |
|---|---|---|
| `actors` | two schedulers, two actors and a thread outside, three plans; the queue with two writers of three events | `RunsAtHome`, `OrderKept`, `EventsRun`; `NoSleepThroughEvents`, `QueueIsFifo` |
| `connections` | the client over two runs, with two data centers, two errors and a sync; the creator with one or two sessions, five plans, one of them with connections that handshakes leave in the cache | `AnswerIsExpected`, `OkIsStored`, `SubmissionsAnswered`; `AttemptsCounted`, `UsedIsCurrent`, `EverySessionConnects` |
| `dc_auth` | two data centers, one of them (they are interchangeable) the main one at first; one lost key and one error, or one change of the main one | `OneQueryAwaited`, `ExportsForCause`, `AllAuthorized` |
| `dispatcher` | two queries of every kind, two data centers, one change of the main one | `SessionsMadeRight`, `NoQueryLost`, `EveryQueryEnds` |
| `keys` | a session with and without PFS, main or not, faults, an aging key; the watchdog with two sessions, two keys, counters of two bits, four changes, one failed query | `QueriesUnderBoundKey`, `MainKeyGivenUpForCause`, `ComesToSend`; `IdleMeansSynced`, `NotPostponed`, `ServerForgets` |
| `network` | the filter with eight ids and an array of four; one connection in six scenarios; two addresses; the configuration; flood control with the creator's limits | `NeverAcceptedTwice`, `OnlyOldRefused`; `QueuedIsTimed`, `LiveServerKept`, `AsksKept`, `ConnectionEnds`; `WorkingAddressFound`; `ConfigRefreshed`; `FloodExact` |
| `pool` | two queries; two proxies, two changes of the key, a change of options or stop, or a reopening | `NoLostWakeup`, `NoQueryLost`, `QueryCountExact`, `EveryQueryEnds` |
| `session` | two interchangeable queries (symmetry), five message ids, five scenarios with one or two faults | `NoQueryLost`, `ContainersCounted`, `AtMostOnce` |
| `session_live` | one query, two faults | `EveryQueryReturned` |
| `session_auth_refresh` | an expiring key | violates `QueriesAlwaysUnderBoundKey` |
| `client_stop` | `stop()` at any time | violates `StopEndsRun` |
| `client_restore` | `Options::dc_id` is not the dispatcher's default | violates `RestoredSkipsLogin` |

`LiveServerKept` says that a server that answers is not given up by the ping timeout; it is stated for a connection with
a valid salt, because without one nothing but the request for salts is written. `OrderKept` is about events sent since the
receiver last moved: a migration may overtake an event that was under way.

### Why the bounds are enough

Two of a thing suffice for the races modelled here: two threads that find a data center new, two sessions that share
a key, an old and a new generation, two queries in one container, two schedulers between which an actor moves while the
other sends. The array of four is filled and compacted twice by
eight ids. Two faults let a loss hit the recovery from another loss (three in `keys`). Five message ids let two
queries and a container be written, and two more messages after a fault; in `session` sending simply stops at the
bound, which is sound for invariants, and `session_live` has eight ids for one query. In the dispatcher the limit of
the delayer lets a query wait once and fail the second time. In the watchdog two sessions can hold the same key; with
so few holders its counters do not wrap, which is left to the proof (it covers every width). The six packets of a
connection let a service query be refused twice while acknowledgements and pings go on, and a packet is full with one
query. Three events let a queue be swapped while a writer puts the next one. The bounds on data
centers, sessions and queries are not argued beyond this where nothing is proved.

### Fairness

Weak fairness stands for a thread, an actor with a message or an expired timer that runs, for time that passes, and for
servers that answer. Faults, `stop()`, and what users do are never fair. In `network` the server reacts fairly only while
it is live, and `ConnectionEnds` is about the one that fell silent: the connection is closed by its own clock. In
`connections` a plan bounds the bad choices (floods, sockets, pings), which stands for a network that works at last.
Strong fairness is used for three specifications:

* `session_live`: an event of a session (an answer, a handshake, `new_session_created`, a connection that becomes ready,
  the writing of a packet) can be handled only while the session is in the right place of `loop()`
  and connected, so it is enabled again and again but not continuously. That it happens at last assumes a server
  and a network that do not fail for ever, which is an assumption about them; what the code adds is that it
  opens connections and asks again without end.
* `dispatcher`: a session answers a query at last that comes back to it again and again. Without this a server that
  answers every attempt so that it is sent again would keep a query for ever.
* the client of `connections`: the actors of the main thread act only inside `run_main`, which returns after each round.

## What is proved

TLAPS proves these for every value of the constants that satisfies the named assumption of the module
(`...Assumption`: bounds are naturals, sets of scenarios hold records of their type, and finiteness where it is used).
Each proof shows that an inductive invariant holds initially, is kept by every action, and implies the property.

| proofs in | are about |
|---|---|
| `Actors_proofs` | `MpscPollableQueue`, `NetQueryDispatcher`, `TempAuthKeyWatchdog`, `SessionAuth` |
| `Connections_proofs` | `ConnectionCreator`, `Client` |
| `Network_proofs` | `MessageIdDuplicateChecker`, `SessionConnection` |
| `Scheduler_proofs`, `SchedulerOrder_proofs` | `ActorScheduler`: where actors are and who runs them; on top of that, the order of events |
| `DcAuthManager_proofs`, `SessionPool_proofs`, `SessionQueries_proofs` | the module of that name |

| theorem | states | the invariant adds |
|---|---|---|
| `NeverAcceptedTwiceAlways`, `OnlyOldRefusedAlways` (`MessageIdDuplicateChecker`) | no id passes twice; a new id is refused only if `MaxSize` accepted ones are higher | the array is sorted and holds accepted ids; what was dropped lies below everything stored while at least `MaxSize` ids are stored, so the too-old test refuses it |
| `IdleMeansSyncedAlways`, `NotPostponedAlways` (`TempAuthKeyWatchdog`) | an idle watchdog is in step with the server; a due sync is not put off by calls that keep arriving | the timer runs while a sync is due, `run_sync_` is set while a query is under way, there is no deadline unless a sync is due, and the age of a due sync and the time left amount to no more than the longest delay |
| `SessionsMadeRightAlways`, `NoQueryLostAlways` (`NetQueryDispatcher`) | the sessions of a data center are created once, and every main session knows whether it is one; no query goes to an actor that is gone or not there yet | the thread about to create sessions holds the claim alone and before they exist, sessions exist only after a claim, a thread about to send has found them |
| `OneQueryAwaitedAlways`, `ExportsForCauseAlways` (`DcAuthManager`) | one query or answer per data center; exports are not repeated without a cause | each query and each answer in the mailbox is the one its data center waits for and there is one of them; there are as many causes as exports wherever the next export may come from; the news that an import has authorized the key precedes its answer in the mailbox |
| `UsedIsCurrentAlways` (`ConnectionCreator`) | no session uses a connection of a generation it knows to be past | connections are handed out by place in `client.queries`: those there wait, each once, and none has its request still on its way |
| `AttemptsCountedAlways` (`ConnectionCreator`) | `pending_connections` and `checking_connections` are the numbers of connections being made and being checked, and no more than the limit are checked | the bag of attempts is written out one by one, as the set of pairs of a kind and a number, so that a step adds one pair, takes one away or exchanges two; generations stay within the plan's |
| `QueuedIsTimedAlways`, `AsksKeptAlways` (`SessionConnection`) | what is queued is written in time; what was asked stays asked for | the common deadline is set while anything is queued, the timer is no later than it, and what a packet asks for is in flight with the packet |
| `LiveServerKeptAlways` (`SessionConnection`) | a server that reacts within a round trip is not given up by a timeout | the next ping is due early enough for its answer to come before the deadline, or one is on its way and was written early enough |
| `QueriesUnderBoundKeyAlways`, `MainKeyGivenUpForCauseAlways` (`SessionAuth`) | queries go out under a bound key unless a temporary key has aged; a main key is given up for a cause | a handshake runs once and only for a missing key; the answer to the last query to bind precedes in the mailbox the message that brings the next key; so it is about the keys the session has, if it has them |
| `PoolLosesNoQuery`, `PoolCountsExactly`, `PoolWakesUp` (`SessionPool`) | every query is in exactly one place and a session that holds one exists; `query_count_` is exact; no query waits in a proxy for a key that is there, unless the proxy is about to hear of it | every step is a transfer of a set of queries between two places, so the count of a proxy changes by what the transfer brings under it; proxies in use are alive and those to come do not exist; a hangup is the last message in a mailbox; what a proxy knows of the key is the key, or an update or a notification is to come |
| `SessionLosesNoQuery`, `SessionCountsContainers`, `SessionExecutesOnce` (`SessionQueries`) | a query given to the session is pending, sent under one message or returned; `ref_cnt` of a container is the number of its messages in `sent_queries_` and not 0; no query is executed twice while the server keeps its session | a message is written in one packet, and no identifier is both a message's and a container's; what the server takes for lost it has not received, and if it takes a container for lost, also what is in it; a query has at most one message that the server may still execute or has executed, the one in `sent_queries_` if it is there, and none while it is pending |
| `AnswersAreExpected`, `OkMeansStored` (`Client`) | at most one query of `AuthManager` or its answer is under way and `net_query_type_` tells which; state Ok only while the key is stored, or its loss is about to be told | a login has one next step: a query or its answer, a submission, the timeout of a bot, or what the user was asked for; the key is stored before the answer that tells of it, and a loss in between follows it in the mailbox |
| `RestoredNeedsNoLogin` (`Client`) | a restored session does not log in again, if `Options::dc_id` is the dispatcher's default | the dispatcher's main data center is the one its database names, or the default, and an authorized key is the main data center's |
| `RunsAtHomeAlways` (`ActorScheduler`) | only the thread of its scheduler runs an actor, lists it or has a timeout for it, and no actor is entered while it runs | an actor is at one scheduler, or on its way in one message to the scheduler it goes to; a list names actors with mail that do not run, each once; a frame has no more left to run than the mailbox holds |
| `OrderKeptAlways` (`ActorScheduler`) | events of one sender to one receiver run in the order they were sent unless the receiver has moved since, and Start runs first | an event is in one of five places: in the hand of the sending thread, in a queue, in `pending_events_`, in the mailbox, or run; of two events that no move has overtaken the earlier is further on, or before the other in the same place |
| `NoSleepThroughEventsAlways`, `QueueImplementsFifo` (`MpscPollableQueue`) | the reader does not sleep through an event; every step is a step of `FifoQueue` or none | where the reader is says what it has left behind; a reader that waits has found nothing under the lock, or a report is there or about to be |

The condition on aging in `QueriesUnderBoundKey` is needed: `session_auth_refresh` shows the property false without it. The
invariant shows where it breaks: a handshake for a key that is still there lets the answer come after the new key.

`RestoredNeedsNoLogin` states what holds of a property the run `client_restore` refutes: the two data centers named there
must be the same.

Two points of layout in the proofs: facts needed for one theorem only are named steps of the lemma that uses them, and a
module that begins with `USE ZenonT(60)` names a prover only in the leaves that are for another one.

Only model-checked: all liveness properties and the fairness of `QueueIsFifo`, which are out of the prover's reach;
`FloodExact`; and everything about `DcOptionsSet` and `ConfigManager`, whose properties are liveness.

## What the violating runs show

* `session_auth_refresh`: `Session::on_result` matches the answer to `auth.bindTempAuthKey` by query id, and
  `on_bind_result` then marks whatever temporary key is current. If the handshake that replaces an expiring key ends
  before the answer to the binding of that key is handled, the new key is taken for bound, and queries are sent under
  it, which the comment in `loop()` excludes.
* `client_stop`: `run()` sets `running` after it has created the actors, so that a `stop()` just before is overwritten.
* `client_restore`: `init()` looks for an authorized key under `Options::dc_id` when no `main_dc_id` was saved, while the
  dispatcher falls back to data center 1 and saves nothing as long as that stays the main one. With the default
  `dc_id` of 2, the saved session of an account of data center 1 logs in again.

Met while modelling, without a run of their own:

* the query that binds a key does not look at `MAX_INFLIGHT_QUERIES`, so that the error of `connection_open_finish` which
  is logged as impossible can happen;
* `on_new_session_created` compares container ids: a query written alone after the container that holds the first
  message of the new session may be sent again although it was received. `AtMostOnce` therefore ends with the first
  loss of the server's session. If an answer comes before `new_session_created`, an older query of the same
  container is sent again only after the timeout in `on_pong`;
* `export_session()` returns nothing after `run()` has returned, although its comment allows the call;
* `InMemoryKeyValue` has no lock, and is used from several threads;
* the sync after `updatesTooLong` asks for the difference from the state the server has just told, so it brings only
  what follows, and slices of a difference are not continued;
* a failed `auth.sendCode` leaves the user with nothing to submit, and `AuthManager` does not compare query ids, so
  that `AnswerIsExpected` needs a user who submits once per callback;
* a list of `auth.dropTempAuthKeys` that the server executes late can drop a key made since.

## Not modelled

* Conversions and arithmetic: transports, encryption, TL, the messages of the handshake (one fixed sequence whose
  branches are cryptographic checks), SRP, the storage formats of keys and sessions.
* Clocks with real values: server time, the schedule of future salts, and the translation of message ids into server time
  when a new session is created.
* Modes that this program never enters: HTTP connections and long polling, proxies, CDN sessions and
  `PublicRsaKeyWatchdog`, queries in chains, verification, and queries invoked after others. `destroy_auth_keys`,
  `check_authorization_is_ok`, `set_verification_token`, `set_invoke_after` and `ConnectionCreator::hangup` have no caller.
* In `SessionConnection`: quick acks, the cut at 8192 ids in one message, and the online flag of sessions that are not
  primary. In `SessionProxy`: the temporary key and the salts it keeps for its next session.
* In tdactor: hangup by owners, link tokens, contexts, and the clearing of a scheduler at the end of the program.
* `InMemoryKeyValue` has no lock. A data race on a map has no outcome a property could be stated for.
* Most lines of the repository are utilities, generated code, HTTP and TLS, tools and tests: sequential code without a
  protocol. Concurrent containers that the client does not use are left out; their memory orders are not what
  interleavings show.

Data are abstract: a query is a name, a key a number, an error one of the kinds the code tells apart. The modules are
composed by what each assumes of its neighbour: `SessionQueries` has the connection and the keys only as far as they
open and shut; `SessionPool` sees a session from outside; `ActorScheduler` uses the queue that `MpscPollableQueue`
implements. No single model contains all of them: it would be out of TLC's reach.
