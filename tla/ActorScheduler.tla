--------------------------- MODULE ActorScheduler ---------------------------
(***************************************************************************)
(* The schedulers of tdactor (tdactor/td/actor/impl/Scheduler.{h,cpp},     *)
(* ActorInfo.h, EventFull.h): one thread each, every actor belongs to one  *)
(* of them and runs there only, and may migrate to another.  An event is   *)
(* run at once when its actor is here and idle, kept in the mailbox when   *)
(* it is here and busy, kept in pending_events_ when it is on its way here *)
(* and sent to the scheduler of the actor otherwise, which does the same.  *)
(*                                                                         *)
(* The queue between schedulers is the one of FifoQueue, which             *)
(* MpscPollableQueue implements.  Handlers are not atomic: what a handler  *)
(* does are steps of their own, between which other threads run, and a     *)
(* send reads sched_id_ before it puts the event into a queue.             *)
(***************************************************************************)
EXTENDS Integers, Sequences, FiniteSets, Functions

CONSTANTS
  Schedulers,   \* the schedulers with a thread
  Outside,      \* the extra scheduler, from which a thread only sends
  Actors,
  Plans         \* what to start from and the bounds: records with home, where
                \* actors are, unborn, those created later, timers, those that
                \* set timeouts, and events, moves and stops, how many there are

PlanRecords ==
  [home : [Actors -> Schedulers], unborn : SUBSET Actors, timers : SUBSET Actors,
   events : Nat, moves : Nat, stops : Nat]

ASSUME SchedulerAssumption ==
  /\ Plans \subseteq PlanRecords
  /\ Outside \notin Schedulers /\ Outside \notin Actors
  /\ "start" \notin Actors \cup {Outside}

VARIABLES
  plan,         \* a member of Plans
  schedId,      \* sched_id_ of each actor: [dest, migrating]
  alive,        \* the actors that have been created and not destroyed
  unborn,       \* the actors that have not been created
  mailbox,      \* mailbox_ of each actor
  ready,        \* ready_actors_ of each scheduler
  batch,        \* the ready actors that run_mailbox still has to run
  stack,        \* the handlers under way on each scheduler, innermost first
  timeouts,     \* timeout_queue_ of each scheduler: its actors
  pendingEvents,\* pending_events_ of each scheduler
  inbound,      \* inbound_queue_ of each scheduler
  sending,      \* what each thread is about to put into a queue
  sent,         \* history: number of events sent
  handled,      \* history: the events that were handled, in order
  moves,        \* history: how often each actor has migrated
  stops

actorVars == <<schedId, alive, unborn, mailbox, moves, stops>>
listVars == <<ready, batch, stack, timeouts>>
eventVars == <<pendingEvents, inbound, sending, sent, handled>>
schedulerState == <<actorVars, listVars, eventVars>>
schedulerVars == <<plan, schedulerState>>

Threads == Schedulers \cup {Outside}
Nothing == <<>>

\* The n-th event sent, from an actor or from outside; moves is how often the
\* receiver had moved when it was sent.
ActorEvent(f, a, n) == [from |-> f, to |-> a, n |-> n, moves |-> moves[a]]

\* Messages between schedulers: an event, or an actor that migrates.
EventMessage(e) == [kind |-> "event", to |-> e.to, event |-> e]
ActorMessage(a) == [kind |-> "actor", to |-> a]

\* A handler under way: flags as in EventContext; left is what flush_mailbox
\* has still to run after it, done what it has run.
Frame(a, left, done) == [actor |-> a, left |-> left, done |-> done, flag |-> "none", dest |-> Nothing]

Running(a) == \E s \in Schedulers : \E i \in DOMAIN stack[s] : stack[s][i].actor = a
IsHere(s, a) == schedId[a] = [dest |-> s, migrating |-> FALSE]

\* q without what it has at place i.
Without(q, i) == SubSeq(q, 1, i - 1) \o SubSeq(q, i + 1, Len(q))

\* ListNode::remove takes the one node of the actor out of its list.
Unlist(q, a) ==
  IF a \in Range(q) THEN Without(q, CHOOSE i \in DOMAIN q : q[i] = a) ELSE q

Idle(s) == stack[s] = <<>> /\ sending[s] = Nothing
InHandler(s) == stack[s] # <<>> /\ sending[s] = Nothing

----------------------------------------------------------------------------
(* Sending.                                                                *)

\* mutant: an actor with mail is not listed
AddToMailboxSilently(s, e) ==
  /\ mailbox' = [mailbox EXCEPT ![e.to] = Append(@, e)]
  /\ UNCHANGED <<ready, batch>>

\* add_to_mailbox: an actor that is not running goes to the end of the list.
AddToMailbox(s, e) ==
  LET a == e.to IN
  /\ mailbox' = [mailbox EXCEPT ![a] = Append(@, e)]
  /\ IF Running(a) THEN UNCHANGED <<ready, batch>>
     ELSE /\ ready' = [ready EXCEPT ![s] = Append(Unlist(@, a), a)]
          /\ batch' = [batch EXCEPT ![s] = Unlist(@, a)]

MaySendNow(a) == ~Running(a) /\ mailbox[a] = <<>>

KeepPending(s, e) ==
  /\ pendingEvents' = [pendingEvents EXCEPT ![s][e.to] = Append(@, e)]
  /\ UNCHANGED mailbox

\* send_immediately_impl and send_later_impl on the thread t.  What goes to
\* another scheduler is put into its queue in a step of its own.
Deliver(t, e, now) ==
  LET a == e.to IN
  \/ /\ a \notin alive
     /\ UNCHANGED <<mailbox, ready, batch, stack, pendingEvents, sending, handled>>
  \/ /\ a \in alive /\ t \in Schedulers /\ IsHere(t, a)
     /\ \/ /\ now /\ MaySendNow(a)
           /\ stack' = [stack EXCEPT ![t] = <<Frame(a, 0, 0)>> \o @]
           /\ handled' = Append(handled, e)
           /\ UNCHANGED <<mailbox, ready, batch>>
        \/ /\ ~(now /\ MaySendNow(a))
           /\ AddToMailbox(t, e)
           /\ UNCHANGED <<stack, handled>>
     /\ UNCHANGED <<pendingEvents, sending>>
  \/ /\ a \in alive /\ schedId[a] = [dest |-> t, migrating |-> TRUE]
     /\ KeepPending(t, e)
     /\ UNCHANGED <<ready, batch, stack, sending, handled>>
  \/ /\ a \in alive /\ schedId[a].dest # t
     /\ sending' = [sending EXCEPT ![t] = <<schedId[a].dest, EventMessage(e)>>]
     /\ UNCHANGED <<mailbox, ready, batch, stack, pendingEvents, handled>>

\* send_to_other_scheduler, after sched_id_ was read.
Put(t) ==
  /\ sending[t] # Nothing
  /\ inbound' = [inbound EXCEPT ![sending[t][1]] = Append(@, sending[t][2])]
  /\ sending' = [sending EXCEPT ![t] = Nothing]
  /\ UNCHANGED <<actorVars, listVars, pendingEvents, sent, handled>>

\* A handler, or a thread of the caller, sends an event.
Send(t, a, now) ==
  /\ sent < plan.events /\ a \notin unborn
  /\ IF t = Outside THEN sending[t] = Nothing ELSE InHandler(t)
  /\ sent' = sent + 1
  /\ Deliver(t, ActorEvent(IF t = Outside THEN t ELSE Head(stack[t]).actor, a, sent + 1), now)
  /\ UNCHANGED <<schedId, alive, unborn, moves, stops, timeouts, inbound>>

----------------------------------------------------------------------------
(* What else a handler may do.                                             *)

SetFlag(s, flag, dest) ==
  stack' = [stack EXCEPT ![s] = <<[Head(@) EXCEPT !.flag = flag, !.dest = dest]>> \o Tail(@)]

\* stop_actor; it has precedence over migrate_actor.
StopActor(s) ==
  /\ InHandler(s) /\ stops < plan.stops /\ Head(stack[s]).flag \in {"none", "migrate"}
  /\ stops' = stops + 1
  /\ SetFlag(s, "stop", Nothing)
  /\ UNCHANGED <<schedId, alive, unborn, mailbox, moves, ready, batch, timeouts, eventVars>>

MigrateActor(s, d) ==
  /\ InHandler(s) /\ d # s /\ Head(stack[s]).flag = "none"
  /\ moves[Head(stack[s]).actor] < plan.moves
  /\ SetFlag(s, "migrate", d)
  /\ UNCHANGED <<actorVars, ready, batch, timeouts, eventVars>>

SetTimeout(s) ==
  /\ InHandler(s) /\ Head(stack[s]).actor \notin timeouts[s]
  /\ Head(stack[s]).actor \in plan.timers
  /\ timeouts' = [timeouts EXCEPT ![s] = @ \cup {Head(stack[s]).actor}]
  /\ UNCHANGED <<actorVars, ready, batch, stack, eventVars>>

\* register_actor_impl: the event Start comes first; an actor for another
\* scheduler takes it along.
RegisterActor(s, a, d) ==
  /\ InHandler(s) /\ a \in unborn /\ sent < plan.events
  /\ unborn' = unborn \ {a} /\ alive' = alive \cup {a}
  /\ mailbox' = [mailbox EXCEPT ![a] = <<ActorEvent("start", a, sent + 1)>>]
  /\ sent' = sent + 1
  /\ schedId' = [schedId EXCEPT ![a] = [dest |-> d, migrating |-> d # s]]
  /\ \/ /\ d = s
        /\ ready' = [ready EXCEPT ![s] = Append(@, a)]
        /\ UNCHANGED sending
     \/ /\ d # s
        /\ sending' = [sending EXCEPT ![s] = <<d, ActorMessage(a)>>]
        /\ UNCHANGED ready
  /\ UNCHANGED <<moves, stops, batch, stack, timeouts, pendingEvents, inbound, handled>>

\* mutant: the timeout of an actor that leaves is kept
TimeoutsAfterMoveKept(s, a) == timeouts[s]

TimeoutsAfterMove(s, a) == timeouts[s] \ {a}

\* The handler ends.  flush_mailbox goes on with the next event when no flag is
\* set; otherwise what was run leaves the mailbox and ~EventGuard puts the actor
\* into a list, sends it away, or runs tear_down, which may send events like
\* any handler, and destroys it.
HandlerEnds(s) ==
  /\ InHandler(s)
  /\ LET f == Head(stack[s])
         a == f.actor
         done == f.done
         rest == SubSeq(mailbox[a], done + 1, Len(mailbox[a]))
         leave == stack' = [stack EXCEPT ![s] = Tail(@)]
     IN
     \/ /\ f.flag = "none" /\ f.left > 0
        /\ stack' = [stack EXCEPT ![s] = <<Frame(a, f.left - 1, done + 1)>> \o Tail(@)]
        /\ handled' = Append(handled, mailbox[a][done + 1])
        /\ UNCHANGED <<actorVars, ready, batch, timeouts, sending>>
     \/ /\ f.flag = "none" /\ f.left = 0
        /\ leave
        /\ mailbox' = [mailbox EXCEPT ![a] = rest]
        /\ ready' = [ready EXCEPT ![s] = IF rest = <<>> THEN @ ELSE Append(@, a)]
        /\ UNCHANGED <<schedId, alive, unborn, moves, stops, batch, timeouts, sending, handled>>
     \/ /\ f.flag = "stop"
        /\ SetFlag(s, "tear_down", Nothing)
        /\ UNCHANGED <<actorVars, ready, batch, timeouts, sending, handled>>
     \/ /\ f.flag = "tear_down"
        /\ leave
        /\ mailbox' = [mailbox EXCEPT ![a] = <<>>]
        /\ alive' = alive \ {a}
        /\ timeouts' = [timeouts EXCEPT ![s] = @ \ {a}]
        /\ UNCHANGED <<schedId, unborn, moves, stops, ready, batch, sending, handled>>
     \/ /\ f.flag = "migrate"
        /\ leave
        /\ mailbox' = [mailbox EXCEPT ![a] = rest]
        /\ schedId' = [schedId EXCEPT ![a] = [dest |-> f.dest, migrating |-> TRUE]]
        /\ timeouts' = [timeouts EXCEPT ![s] = TimeoutsAfterMove(s, a)]
        /\ moves' = [moves EXCEPT ![a] = @ + 1]
        /\ sending' = [sending EXCEPT ![s] = <<f.dest, ActorMessage(a)>>]
        /\ UNCHANGED <<alive, unborn, stops, ready, batch, handled>>
  /\ UNCHANGED <<pendingEvents, inbound, sent>>

----------------------------------------------------------------------------
(* The loop of a scheduler.                                                *)

\* run_mailbox takes the list of ready actors over.
TakeReady(s) ==
  /\ Idle(s) /\ batch[s] = <<>> /\ ready[s] # <<>>
  /\ batch' = [batch EXCEPT ![s] = ready[s]]
  /\ ready' = [ready EXCEPT ![s] = <<>>]
  /\ UNCHANGED <<actorVars, stack, timeouts, eventVars>>

\* flush_mailbox begins; it runs the events that are there now.
FlushMailbox(s) ==
  /\ Idle(s) /\ batch[s] # <<>>
  /\ LET a == Head(batch[s]) IN
     /\ stack' = [stack EXCEPT ![s] = <<Frame(a, Len(mailbox[a]) - 1, 1)>>]
     /\ handled' = Append(handled, mailbox[a][1])
  /\ batch' = [batch EXCEPT ![s] = Tail(@)]
  /\ UNCHANGED <<actorVars, ready, timeouts, pendingEvents, inbound, sending, sent>>

\* run_timeout: a timeout is an event that is not sent by anyone.
RunTimeout(s, a) ==
  /\ Idle(s) /\ batch[s] = <<>> /\ a \in timeouts[s] /\ sent < plan.events
  /\ timeouts' = [timeouts EXCEPT ![s] = @ \ {a}]
  /\ sent' = sent + 1
  /\ Deliver(s, ActorEvent(a, a, sent + 1), TRUE)
  /\ UNCHANGED <<schedId, alive, unborn, moves, stops, inbound>>

\* mutant: what the actor brings comes last
MailOnArrivalFirst(s, a) == pendingEvents[s][a] \o mailbox[a]

\* register_migrated_actor puts what came before the actor after what it brings.
MailOnArrival(s, a) == mailbox[a] \o pendingEvents[s][a]

\* ServiceActor::loop: an event is emitted anew here, an actor is registered.
Receive(s) ==
  /\ Idle(s) /\ inbound[s] # <<>>
  /\ inbound' = [inbound EXCEPT ![s] = Tail(@)]
  /\ LET m == Head(inbound[s])
         a == m.to IN
     \/ /\ m.kind = "event"
        /\ Deliver(s, m.event, TRUE)
        /\ UNCHANGED schedId
     \/ /\ m.kind = "actor"
        /\ schedId' = [schedId EXCEPT ![a] = [dest |-> s, migrating |-> FALSE]]
        /\ mailbox' = [mailbox EXCEPT ![a] = MailOnArrival(s, a)]
        /\ pendingEvents' = [pendingEvents EXCEPT ![s][a] = <<>>]
        /\ ready' = [ready EXCEPT ![s] = IF MailOnArrival(s, a) = <<>> THEN @ ELSE Append(@, a)]
        /\ UNCHANGED <<batch, stack, sending, handled>>
  /\ UNCHANGED <<alive, unborn, moves, stops, timeouts, sent>>

SchedulerInit ==
  /\ plan \in Plans
  /\ unborn = plan.unborn /\ alive = Actors \ unborn
  /\ schedId = [a \in Actors |-> [dest |-> plan.home[a], migrating |-> FALSE]]
  /\ mailbox = [a \in Actors |-> <<>>]
  /\ ready = [s \in Schedulers |-> <<>>] /\ batch = [s \in Schedulers |-> <<>>]
  /\ stack = [s \in Schedulers |-> <<>>] /\ timeouts = [s \in Schedulers |-> {}]
  /\ pendingEvents = [s \in Schedulers |-> [a \in Actors |-> <<>>]]
  /\ inbound = [s \in Schedulers |-> <<>>]
  /\ sending = [t \in Threads |-> Nothing]
  /\ sent = 0 /\ handled = <<>> /\ moves = [a \in Actors |-> 0] /\ stops = 0

SchedulerStep(s) == HandlerEnds(s) \/ TakeReady(s) \/ FlushMailbox(s) \/ Put(s)

SchedulerNext ==
  /\ \/ Put(Outside)
     \/ \E t \in Threads, a \in Actors, now \in BOOLEAN : Send(t, a, now)
     \/ \E s \in Schedulers :
          \/ SchedulerStep(s) \/ Receive(s) \/ StopActor(s) \/ SetTimeout(s)
          \/ \E d \in Schedulers : MigrateActor(s, d)
          \/ \E a \in Actors : RunTimeout(s, a)
          \/ \E a \in Actors, d \in Schedulers : RegisterActor(s, a, d)
  /\ UNCHANGED plan

SchedulerSpec == SchedulerInit /\ [][SchedulerNext]_schedulerVars

\* Threads run and handlers end.
SchedulerFair ==
  /\ \A s \in Schedulers : WF_schedulerState(SchedulerStep(s)) /\ WF_schedulerState(Receive(s))
  /\ WF_schedulerState(Put(Outside))
SchedulerFairSpec == SchedulerSpec /\ SchedulerFair

----------------------------------------------------------------------------
(* Properties.                                                             *)

Listed(s) == Range(ready[s]) \cup Range(batch[s])

\* An actor is touched by the thread of its scheduler only, and is never called
\* while it runs (start_run, do_stop_actor, register_migrated_actor): handlers,
\* lists and timeouts name living actors of that scheduler, and no actor twice.
RunsAtHome ==
  /\ \A s \in Schedulers :
       /\ \A i \in DOMAIN stack[s] : stack[s][i].actor \in alive /\ IsHere(s, stack[s][i].actor)
       /\ \A a \in Listed(s) \cup timeouts[s] : a \in alive /\ IsHere(s, a)
       /\ IsInjective(ready[s] \o batch[s])
  /\ \A s, u \in Schedulers : \A i \in DOMAIN stack[s], j \in DOMAIN stack[u] :
       stack[s][i].actor = stack[u][j].actor => s = u /\ i = j

\* The events of one sender to one receiver are run in the order in which they
\* were sent unless the receiver has migrated since the earlier one was sent,
\* and Start is run before all others.
OrderKept ==
  \A i, j \in DOMAIN handled :
    i < j /\ handled[i].to = handled[j].to =>
      /\ handled[j].from # "start"
      /\ handled[i].from = handled[j].from /\ handled[i].n > handled[j].n
           => moves[handled[j].to] > handled[j].moves

\* Every event to an actor that goes on living is run.
EventsRun ==
  <>[](/\ \A s \in Schedulers : inbound[s] = <<>>
       /\ \A a \in alive : mailbox[a] = <<>> /\ \A s \in Schedulers : pendingEvents[s][a] = <<>>)
============================================================================
