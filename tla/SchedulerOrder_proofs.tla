----------------------- MODULE SchedulerOrder_proofs -----------------------
(***************************************************************************)
(* OrderKept of ActorScheduler for any number of schedulers, actors and    *)
(* events, on top of what Scheduler_proofs shows of where actors are.      *)
(*                                                                         *)
(* An event goes through up to five places: the hand of the thread that    *)
(* sends it (4), the queue of a scheduler (3), pending_events_ (2), the    *)
(* mailbox (1) and, once its handler has begun, the history (0).  An event *)
(* is current while its receiver has not migrated since it was sent.  The  *)
(* invariant says that of two current events of one sender to one receiver *)
(* the earlier is further on.                                              *)
(***************************************************************************)
EXTENDS Scheduler_proofs

\* Leaves that name no prover are for Zenon.
USE ZenonT(60)

\* The event at place i of the mailbox has begun to run.
Started(a, i) ==
  \E s \in Schedulers : \E k \in DOMAIN stack[s] : stack[s][k].actor = a /\ i \in 1..stack[s][k].done

RanAt(i, e) == i \in DOMAIN handled /\ handled[i] = e
WaitsAt(i, e) == i \in DOMAIN mailbox[e.to] /\ mailbox[e.to][i] = e /\ ~Started(e.to, i)
PendsAt(s, i, e) == i \in DOMAIN pendingEvents[s][e.to] /\ pendingEvents[s][e.to][i] = e
QueuedAt(s, i, e) == i \in DOMAIN inbound[s] /\ inbound[s][i].kind = "event" /\ inbound[s][i].event = e
HeldBy(t, e) == sending[t] # Nothing /\ sending[t][2].kind = "event" /\ sending[t][2].event = e

In(r, e) ==
  \/ r = 0 /\ \E i \in DOMAIN handled : RanAt(i, e)
  \/ r = 1 /\ \E i \in DOMAIN mailbox[e.to] : WaitsAt(i, e)
  \/ r = 2 /\ \E s \in Schedulers : \E i \in DOMAIN pendingEvents[s][e.to] : PendsAt(s, i, e)
  \/ r = 3 /\ \E s \in Schedulers : \E i \in DOMAIN inbound[s] : QueuedAt(s, i, e)
  \/ r = 4 /\ \E t \in Threads : HeldBy(t, e)

\* Two events in one place, one before the other.
Bef(r, e, d) ==
  \/ r = 0 /\ \E i, j \in DOMAIN handled : i < j /\ RanAt(i, e) /\ RanAt(j, d)
  \/ r = 1 /\ e.to = d.to /\ \E i, j \in DOMAIN mailbox[e.to] : i < j /\ WaitsAt(i, e) /\ WaitsAt(j, d)
  \/ r = 2 /\ e.to = d.to /\ \E s \in Schedulers : \E i, j \in DOMAIN pendingEvents[s][e.to] :
                               i < j /\ PendsAt(s, i, e) /\ PendsAt(s, j, d)
  \/ r = 3 /\ \E s \in Schedulers : \E i, j \in DOMAIN inbound[s] : i < j /\ QueuedAt(s, i, e) /\ QueuedAt(s, j, d)

Ahead(e, d) ==
  \/ \E r, q \in 0..4 : r < q /\ In(r, e) /\ In(q, d)
  \/ \E r \in 0..3 : Bef(r, e, d)

Posted(e) == \E r \in 0..4 : In(r, e)

Current(e) == e.moves = moves[e.to]
Dest(a) == schedId[a].dest

\* The events and the actors of an event are known.
NumberInv ==
  \A e \in Events : Posted(e) =>
    e.n <= sent /\ e.moves <= moves[e.to] /\ e.to \notin unborn /\ e.from \notin unborn

\* An event sent before a migration is older than one sent after it.
AgeInv ==
  \A e, d \in Events : Posted(e) /\ Posted(d) /\ e.to = d.to /\ e.moves < d.moves => e.n < d.n

InOrder ==
  \A e, d \in Events :
    Current(e) /\ Current(d) /\ e.from = d.from /\ e.to = d.to /\ Ahead(e, d) => e.n < d.n

\* Start is the first event of its receiver and goes into its mailbox at once.
StartInv ==
  \A e \in Events : e.from = "start" =>
    /\ ~In(2, e) /\ ~In(3, e) /\ ~In(4, e)
    /\ \A d \in Events : d.to = e.to => ~Bef(0, d, e) /\ ~Bef(1, d, e) /\ ~(In(1, e) /\ In(0, d))

MailInv == \A a \in Actors : \A i \in DOMAIN mailbox[a] : mailbox[a][i].to = a

PendingInv ==
  \A s \in Schedulers, a \in Actors :
    /\ \A i \in DOMAIN pendingEvents[s][a] : pendingEvents[s][a][i].to = a
    /\ pendingEvents[s][a] # <<>> => schedId[a] = [dest |-> s, migrating |-> TRUE]

\* A current event is queued where its receiver is or goes, and its sender is
\* not there and comes after it.
QueuedOK(s, i, e) ==
  /\ s = Dest(e.to) /\ (e.from \in Actors => ~IsHere(s, e.from))
  /\ \A k \in DOMAIN inbound[s] : CarriedTo(s, k, e.from) => i < k

QueueInv ==
  \A s \in Schedulers, e \in Events : \A i \in DOMAIN inbound[s] : QueuedAt(s, i, e) /\ Current(e) => QueuedOK(s, i, e)

\* A current event in a hand is about to go there from where its sender is.
HeldOK(t, e) ==
  /\ sending[t][1] = Dest(e.to) /\ t # Dest(e.to)
  /\ \/ t = Outside /\ e.from = Outside
     \/ t \in Schedulers /\ e.from \in Actors /\ IsHere(t, e.from)

HandInv == \A t \in Threads, e \in Events : HeldBy(t, e) /\ Current(e) => HeldOK(t, e)

\* The numbers, the order and Start.
FlowInv == NumberInv /\ AgeInv /\ InOrder /\ StartInv

OrderInv == FlowInv /\ MailInv /\ PendingInv /\ QueueInv /\ HandInv

----------------------------------------------------------------------------
(* What a step that moves one event may do to the order.                   *)

LEMMA PlaceNumbers ==
  /\ \A r \in 0..4 : r = 0 \/ r = 1 \/ r = 2 \/ r = 3 \/ r = 4
  /\ \A r \in 0..3 : r = 0 \/ r = 1 \/ r = 2 \/ r = 3
  /\ 0 \in 0..4 /\ 1 \in 0..4 /\ 2 \in 0..4 /\ 3 \in 0..4 /\ 4 \in 0..4
  /\ 0 \in 0..3 /\ 1 \in 0..3 /\ 2 \in 0..3 /\ 3 \in 0..3
  /\ 0 # 1 /\ 0 # 2 /\ 0 # 3 /\ 0 # 4 /\ 1 # 2 /\ 1 # 3 /\ 1 # 4 /\ 2 # 3 /\ 2 # 4 /\ 3 # 4
BY SMTT(60)

\* Each place.
LEMMA PlaceIs ==
  ASSUME NEW e
  PROVE  /\ In(0, e) <=> \E i \in DOMAIN handled : RanAt(i, e)
         /\ In(1, e) <=> \E i \in DOMAIN mailbox[e.to] : WaitsAt(i, e)
         /\ In(2, e) <=> \E s \in Schedulers : \E i \in DOMAIN pendingEvents[s][e.to] : PendsAt(s, i, e)
         /\ In(3, e) <=> \E s \in Schedulers : \E i \in DOMAIN inbound[s] : QueuedAt(s, i, e)
         /\ In(4, e) <=> \E t \in Threads : HeldBy(t, e)
BY PlaceNumbers DEF In

LEMMA PlaceWillBe ==
  ASSUME NEW e
  PROVE  /\ In(0, e)' <=> \E i \in DOMAIN handled' : RanAt(i, e)'
         /\ In(1, e)' <=> \E i \in DOMAIN mailbox'[e.to] : WaitsAt(i, e)'
         /\ In(2, e)' <=> \E s \in Schedulers : \E i \in DOMAIN pendingEvents'[s][e.to] : PendsAt(s, i, e)'
         /\ In(3, e)' <=> \E s \in Schedulers : \E i \in DOMAIN inbound'[s] : QueuedAt(s, i, e)'
         /\ In(4, e)' <=> \E t \in Threads : HeldBy(t, e)'
BY PlaceNumbers DEF In

LEMMA BeforeIs ==
  ASSUME NEW e, NEW d
  PROVE  /\ Bef(0, e, d) <=> \E i, j \in DOMAIN handled : i < j /\ RanAt(i, e) /\ RanAt(j, d)
         /\ Bef(1, e, d) <=> e.to = d.to /\ \E i, j \in DOMAIN mailbox[e.to] : i < j /\ WaitsAt(i, e) /\ WaitsAt(j, d)
         /\ Bef(2, e, d) <=> e.to = d.to /\ \E s \in Schedulers : \E i, j \in DOMAIN pendingEvents[s][e.to] :
                               i < j /\ PendsAt(s, i, e) /\ PendsAt(s, j, d)
         /\ Bef(3, e, d) <=> \E s \in Schedulers : \E i, j \in DOMAIN inbound[s] :
                               i < j /\ QueuedAt(s, i, e) /\ QueuedAt(s, j, d)
         /\ ~Bef(4, e, d)
BY PlaceNumbers DEF Bef

LEMMA BeforeWillBe ==
  ASSUME NEW e, NEW d
  PROVE  /\ Bef(0, e, d)' <=> \E i, j \in DOMAIN handled' : i < j /\ RanAt(i, e)' /\ RanAt(j, d)'
         /\ Bef(1, e, d)' <=> e.to = d.to /\ \E i, j \in DOMAIN mailbox'[e.to] : i < j /\ WaitsAt(i, e)' /\ WaitsAt(j, d)'
         /\ Bef(2, e, d)' <=> e.to = d.to /\ \E s \in Schedulers : \E i, j \in DOMAIN pendingEvents'[s][e.to] :
                               i < j /\ PendsAt(s, i, e)' /\ PendsAt(s, j, d)'
         /\ Bef(3, e, d)' <=> \E s \in Schedulers : \E i, j \in DOMAIN inbound'[s] :
                               i < j /\ QueuedAt(s, i, e)' /\ QueuedAt(s, j, d)'
         /\ ~Bef(4, e, d)'
BY PlaceNumbers DEF Bef

\* What the invariant says of the events that have run.
LEMMA OrderInvSays == HomeInv /\ OrderInv => OrderKept
<1> SUFFICES ASSUME HomeInv, OrderInv, NEW i \in DOMAIN handled, NEW j \in DOMAIN handled,
                    i < j, handled[i].to = handled[j].to
             PROVE  /\ handled[j].from # "start"
                    /\ handled[i].from = handled[j].from /\ handled[i].n > handled[j].n
                         => moves[handled[j].to] > handled[j].moves
  BY DEF OrderKept
<1>1. PICK e \in Events, d \in Events : e = handled[i] /\ d = handled[j]
  <2>1. handled \in Seq(Events)
    BY DEF HomeInv, EventsTypeOK
  <2>2. \A q \in Seq(Events) : \A k \in DOMAIN q : q[k] \in Events
    BY SMTT(60)
  <2> QED BY <2>1, <2>2
<1>2. RanAt(i, e) /\ RanAt(j, d)
  BY <1>1 DEF RanAt
<1>3. Bef(0, e, d) /\ In(0, e) /\ In(0, d)
  BY <1>2, BeforeIs, PlaceIs
<1>4. Ahead(e, d) /\ Posted(e) /\ Posted(d)
  BY <1>3, PlaceNumbers DEF Ahead, Posted
<1>5. d.from # "start"
  BY <1>1, <1>3 DEF OrderInv, FlowInv, StartInv
<1>6. ASSUME e.from = d.from, e.n > d.n PROVE moves[d.to] > d.moves
  <2>1. e.n \in Nat /\ d.n \in Nat /\ e.moves \in Nat /\ d.moves \in Nat /\ moves[d.to] \in Nat /\ e.to = d.to
    BY <1>1 DEF Events, HomeInv, ActorsTypeOK
  <2>2. e.moves <= moves[d.to] /\ d.moves <= moves[d.to]
    BY <1>4, <2>1 DEF OrderInv, FlowInv, NumberInv
  <2>3. Current(e) /\ Current(d) => e.n < d.n
    BY <1>4, <1>6, <2>1 DEF OrderInv, FlowInv, InOrder
  <2>4. e.moves < d.moves => e.n < d.n
    BY <1>4, <2>1 DEF OrderInv, FlowInv, AgeInv
  <2>5. (Current(e) <=> e.moves = moves[d.to]) /\ (Current(d) <=> d.moves = moves[d.to])
    BY <2>1 DEF Current
  <2> QED BY <1>6, <2>1, <2>2, <2>3, <2>4, <2>5, SMTT(60)
<1> QED BY <1>1, <1>5, <1>6

LEMMA InitOrder == SchedulerInit => OrderInv
<1> SUFFICES ASSUME SchedulerInit PROVE OrderInv
  OBVIOUS
<1>1. /\ handled = <<>> /\ (\A a \in Actors : mailbox[a] = <<>>)
      /\ (\A s \in Schedulers : inbound[s] = <<>> /\ \A a \in Actors : pendingEvents[s][a] = <<>>)
      /\ \A t \in Threads : sending[t] = Nothing
  BY SMTT(60) DEF SchedulerInit
<1>2. DOMAIN <<>> = {}
  BY SMTT(60)
<1>3. \A e \in Events : e.to \in Actors
  BY DEF Events
<1>4. ASSUME NEW e \in Events PROVE ~In(0, e) /\ ~In(1, e) /\ ~In(2, e) /\ ~In(3, e) /\ ~In(4, e)
  <2>1. ~In(0, e) /\ ~In(1, e) /\ ~In(3, e)
    BY <1>1, <1>2, <1>3, PlaceIs
  <2>2. ~In(2, e)
    BY <1>1, <1>2, <1>3, PlaceIs
  <2>3. ~In(4, e)
    BY <1>1, PlaceIs DEF HeldBy
  <2> QED BY <2>1, <2>2, <2>3
<1>5. ASSUME NEW e \in Events, NEW d \in Events PROVE ~Bef(0, e, d) /\ ~Bef(1, e, d) /\ ~Bef(2, e, d) /\ ~Bef(3, e, d)
  <2>1. ~Bef(0, e, d) /\ ~Bef(1, e, d)
    BY <1>1, <1>2, <1>3, BeforeIs
  <2>2. ASSUME Bef(2, e, d) PROVE FALSE
    <3>1. PICK u \in Schedulers : \E i, j \in DOMAIN pendingEvents[u][e.to] : i < j /\ PendsAt(u, i, e) /\ PendsAt(u, j, d)
      BY <2>2, BeforeIs
    <3> QED BY <1>1, <1>2, <1>3, <3>1
  <2>3. ~Bef(3, e, d)
    BY <1>1, <1>2, BeforeIs
  <2> QED BY <2>1, <2>2, <2>3
<1>6. \A e \in Events : ~Posted(e)
  BY <1>4, PlaceNumbers DEF Posted
<1>7. \A e, d \in Events : ~Ahead(e, d)
  BY <1>4, <1>5, PlaceNumbers DEF Ahead
<1>8. FlowInv
  BY <1>4, <1>5, <1>6, <1>7 DEF FlowInv, NumberInv, AgeInv, InOrder, StartInv
<1>9. MailInv /\ PendingInv
  BY <1>1, <1>2 DEF MailInv, PendingInv
<1>10. QueueInv /\ HandInv
  BY <1>1, <1>2 DEF QueueInv, HandInv, HeldBy
<1> QED BY <1>8, <1>9, <1>10 DEF OrderInv

\* No event is anywhere but where it was, but for x, which is now at the end of q.
InKept(x, q) == \A r \in 0..4, e \in Events : In(r, e)' => In(r, e) \/ (r = q /\ e = x)
BefKept(x, q) ==
  \A r \in 0..3, e, d \in Events : Bef(r, e, d)' => Bef(r, e, d) \/ (r = q /\ d = x /\ In(r, e))

Peers(e, d) == Current(e) /\ Current(d) /\ e.from = d.from /\ e.to = d.to

\* x was the first of its place p, and none of its peers is between p and q.
Passes(x, p, q) ==
  /\ \A d \in Events : Peers(x, d) /\ In(p, d)' => p # 4 /\ Bef(p, x, d)
  /\ \A r \in 0..4, d \in Events : Peers(x, d) /\ q < r /\ r < p => ~In(r, d)

\* Nothing is anywhere but where it was.
Stays ==
  /\ \A r \in 0..4, e \in Events : In(r, e)' => In(r, e)
  /\ \A r \in 0..3, e, d \in Events : Bef(r, e, d)' => Bef(r, e, d)

\* Numbers are only compared with those of earlier events.
LEMMA NumbersKept ==
  ASSUME NumberInv, AgeInv, ActorsTypeOK, ActorsTypeOK', \A e \in Events : Posted(e)' => Posted(e),
         sent <= sent', \A a \in Actors : moves[a] <= moves'[a], unborn' \subseteq unborn
  PROVE  NumberInv' /\ AgeInv'
<1>1. \A k, l, m \in Nat : k <= l /\ l <= m => k <= m
  BY SMTT(60)
<1>2. ASSUME NEW e \in Events, Posted(e)'
      PROVE  e.n <= sent' /\ e.moves <= moves'[e.to] /\ e.to \notin unborn' /\ e.from \notin unborn'
  <2>1. /\ e.n <= sent /\ e.moves <= moves[e.to] /\ e.to \notin unborn /\ e.from \notin unborn
        /\ e.n \in Nat /\ e.moves \in Nat /\ e.to \in Actors /\ sent \in Nat /\ sent' \in Nat
        /\ moves[e.to] \in Nat /\ moves'[e.to] \in Nat
    BY <1>2 DEF NumberInv, ActorsTypeOK, Events
  <2> QED BY <1>1, <2>1
<1>3. AgeInv'
  BY DEF AgeInv
<1> QED BY <1>2, <1>3 DEF NumberInv

\* Start stays the first.
LEMMA StartStays ==
  ASSUME StartInv, Stays
  PROVE  StartInv'
BY PlaceNumbers DEF StartInv, Stays

\* All of these, for a step that moves or adds one event or none.
LEMMA FlowStays ==
  ASSUME FlowInv, ActorsTypeOK, ActorsTypeOK', Stays,
         sent <= sent', \A a \in Actors : moves[a] <= moves'[a], unborn' \subseteq unborn
  PROVE  FlowInv'
<1>1. \A e \in Events : Posted(e)' => Posted(e)
  BY DEF Posted, Stays
<1>2. NumberInv' /\ AgeInv'
  BY <1>1, NumbersKept DEF FlowInv
<1>3. StartInv'
  BY StartStays DEF FlowInv
<1>4. ASSUME NEW e \in Events, Posted(e), Current(e)' PROVE Current(e)
  <2>1. e.moves <= moves[e.to] /\ moves[e.to] <= moves'[e.to] /\ e.moves = moves'[e.to]
        /\ moves[e.to] \in Nat /\ moves'[e.to] \in Nat
    BY <1>4 DEF FlowInv, NumberInv, Current, ActorsTypeOK, Events
  <2>2. \A k, l \in Nat : k <= l /\ l <= k => k = l
    BY SMTT(60)
  <2> QED BY <2>1, <2>2 DEF Current
<1>5. ASSUME NEW e \in Events, NEW d \in Events, Ahead(e, d)' PROVE Ahead(e, d)
  BY <1>5 DEF Ahead, Stays
<1>6. ASSUME NEW e \in Events, NEW d \in Events, Ahead(e, d) PROVE Posted(e) /\ Posted(d)
  <2>1. ASSUME NEW r \in 0..3, Bef(r, e, d) PROVE In(r, e) /\ In(r, d) /\ r \in 0..4
    <3>1. r \in 0..4
      BY SMTT(60)
    <3> QED BY <2>1, <3>1 DEF Bef, In
  <2> QED BY <1>6, <2>1 DEF Ahead, Posted
<1>7. InOrder'
  BY <1>4, <1>5, <1>6 DEF FlowInv, InOrder
<1> QED BY <1>2, <1>3, <1>7 DEF FlowInv

LEMMA FlowMoves ==
  \A x \in Events, p \in 0..4, q \in 0..4 :
    /\ FlowInv /\ ActorsTypeOK /\ ActorsTypeOK' /\ moves' = moves /\ sent' = sent /\ unborn' = unborn
    /\ p # 0 /\ In(p, x) /\ InKept(x, q) /\ BefKept(x, q)
    /\ Current(x) => q < p /\ Passes(x, p, q)
    /\ p = 1 => q = 0 /\ \A d \in Events : d.to = x.to /\ In(1, d)' => Bef(1, x, d)
    /\ p # 1 /\ q = 0 => \A d \in Events : d.to = x.to => ~In(1, d)
  => FlowInv'
\* An event that moves on keeps the order.
<1>MovesOn.
  ASSUME InOrder, moves' = moves, NEW x \in Events, NEW p \in 0..4, NEW q \in 0..4, In(p, x),
         InKept(x, q), BefKept(x, q), Current(x) => q < p /\ Passes(x, p, q)
  PROVE  InOrder'
  <2> USE <1>MovesOn
  <2>1. /\ \A r, k, m \in 0..4 : r < k /\ k < m => r < m
        /\ \A r, k \in 0..4 : r < k \/ r = k \/ k < r
        /\ \A r \in 0..4 : ~(r < r) /\ (r # 4 => r \in 0..3)
        /\ \A r \in 0..3 : r \in 0..4
    BY SMTT(60)
  <2>2. \A e : Current(e)' <=> Current(e)
    BY DEF Current
  <2> SUFFICES ASSUME NEW e \in Events, NEW d \in Events, Peers(e, d), Ahead(e, d)' PROVE e.n < d.n
    BY <2>2 DEF InOrder, Peers
  <2> SUFFICES Ahead(e, d)
    BY DEF InOrder, Peers
  <2>3. ASSUME NEW r \in 0..4, NEW k \in 0..4, r < k, In(r, e)', In(k, d)' PROVE Ahead(e, d)
    <3>1. CASE In(r, e) /\ In(k, d)
      BY <2>3, <3>1 DEF Ahead
    <3>2. CASE ~In(r, e) /\ In(k, d)
      <4>1. r = q /\ e = x
        BY <2>3, <3>2 DEF InKept
      <4>2. Current(x)
        BY <4>1 DEF Peers
      <4>3. CASE k < p
        BY <2>3, <3>2, <4>1, <4>2, <4>3 DEF Passes
      <4>4. CASE k = p
        <5>1. p # 4 /\ Bef(p, x, d)
          BY <2>3, <4>1, <4>2, <4>4 DEF Passes
        <5> QED BY <2>1, <4>1, <5>1 DEF Ahead
      <4>5. CASE p < k
        BY <3>2, <4>1, <4>5 DEF Ahead
      <4> QED BY <2>1, <4>3, <4>4, <4>5
    <3>3. CASE ~In(k, d)
      <4>1. k = q /\ d = x
        BY <2>3, <3>3 DEF InKept
      <4>2. q < p /\ r # q
        BY <2>1, <2>3, <4>1 DEF Peers
      <4>3. In(r, e) /\ r < p
        BY <2>1, <2>3, <4>1, <4>2 DEF InKept
      <4> QED BY <4>1, <4>3 DEF Ahead
    <3> QED BY <3>1, <3>2, <3>3
  <2>4. ASSUME NEW r \in 0..3, Bef(r, e, d)' PROVE Ahead(e, d)
    <3>1. CASE Bef(r, e, d)
      BY <3>1 DEF Ahead
    <3>2. CASE r = q /\ d = x /\ In(r, e)
      <4>1. q < p /\ r \in 0..4
        BY <2>1, <3>2 DEF Peers
      <4> QED BY <3>2, <4>1 DEF Ahead
    <3> QED BY <2>4, <3>1, <3>2 DEF BefKept
  <2> QED BY <2>3, <2>4 DEF Ahead
<1>StartMoves.
  ASSUME StartInv, NEW x \in Events, NEW p \in 0..4, NEW q \in 0..4, p # 0, In(p, x), InKept(x, q), BefKept(x, q),
         p = 1 => q = 0 /\ \A d \in Events : d.to = x.to /\ In(1, d)' => Bef(1, x, d),
         p # 1 /\ q = 0 => \A d \in Events : d.to = x.to => ~In(1, d)
  PROVE  StartInv'
  <2> USE <1>StartMoves
  <2>0. x.from = "start" => p = 1 /\ q = 0
    BY PlaceNumbers DEF StartInv
  <2> SUFFICES ASSUME NEW e \in Events, e.from = "start"
               PROVE  /\ ~In(2, e)' /\ ~In(3, e)' /\ ~In(4, e)'
                      /\ \A d \in Events : d.to = e.to => ~Bef(0, d, e)' /\ ~Bef(1, d, e)' /\ ~(In(1, e)' /\ In(0, d)')
    BY DEF StartInv
  <2>1. ~In(2, e)' /\ ~In(3, e)' /\ ~In(4, e)'
    BY <2>0, PlaceNumbers DEF StartInv, InKept
  <2>2. ASSUME NEW d \in Events, d.to = e.to PROVE ~Bef(0, d, e)' /\ ~Bef(1, d, e)' /\ ~(In(1, e)' /\ In(0, d)')
    <3>1. /\ ~In(2, e) /\ ~In(3, e) /\ ~In(4, e) /\ ~Bef(0, d, e) /\ ~Bef(1, d, e) /\ ~(In(1, e) /\ In(0, d))
      BY <2>2 DEF StartInv
    <3>2. ~Bef(0, d, e)'
      BY <2>0, <3>1, PlaceNumbers DEF BefKept
    <3>3. ~Bef(1, d, e)'
      BY <2>0, <3>1, PlaceNumbers DEF BefKept
    <3>4. ASSUME In(1, e)', In(0, d)' PROVE FALSE
      <4>1. In(1, e)
        BY <2>0, <3>4, PlaceNumbers DEF InKept
      <4>2. q = 0 /\ d = x
        BY <3>1, <3>4, <4>1, PlaceNumbers DEF InKept
      <4> QED BY <2>2, <3>1, <3>4, <4>1, <4>2
    <3> QED BY <3>2, <3>3, <3>4
  <2> QED BY <2>1, <2>2
<1> SUFFICES ASSUME FlowInv, ActorsTypeOK, ActorsTypeOK', moves' = moves, sent' = sent, unborn' = unborn,
                    NEW x \in Events, NEW p \in 0..4, NEW q \in 0..4, p # 0, In(p, x), InKept(x, q), BefKept(x, q),
                    Current(x) => q < p /\ Passes(x, p, q),
                    p = 1 => q = 0 /\ \A d \in Events : d.to = x.to /\ In(1, d)' => Bef(1, x, d),
                    p # 1 /\ q = 0 => \A d \in Events : d.to = x.to => ~In(1, d)
             PROVE  FlowInv'
  OBVIOUS
<1>1. \A e \in Events : Posted(e)' => Posted(e)
  BY DEF Posted, InKept
<1>2. sent <= sent' /\ \A a \in Actors : moves[a] <= moves'[a]
  <2>1. \A k \in Nat : k <= k
    BY SMTT(60)
  <2> QED BY <2>1 DEF ActorsTypeOK
<1>3. NumberInv' /\ AgeInv'
  BY <1>1, <1>2, NumbersKept DEF FlowInv
<1>4. StartInv'
  BY <1>StartMoves DEF FlowInv
<1>5. InOrder'
  BY <1>MovesOn DEF FlowInv
<1> QED BY <1>3, <1>4, <1>5 DEF FlowInv

LEMMA FlowGrows ==
  \A x \in Events, q \in 0..4 :
    /\ FlowInv /\ ActorsTypeOK /\ moves' = moves /\ sent' = sent + 1 /\ unborn' \subseteq unborn
    /\ InKept(x, q) /\ BefKept(x, q)
    /\ x.n = sent + 1 /\ x.moves = moves[x.to] /\ x.to \notin unborn' /\ x.from \notin unborn'
    /\ \A r \in 0..4, d \in Events : Peers(x, d) /\ q < r => ~In(r, d)
    /\ x.from = "start" => q = 1 /\ \A d \in Events : d.to = x.to => ~In(0, d) /\ ~In(1, d)
    /\ q = 0 => \A d \in Events : d.to = x.to => ~In(1, d)
  => FlowInv'
\* So does a new event with a number of its own.
<1>NewComes.
  ASSUME InOrder, NumberInv, ActorsTypeOK, moves' = moves, NEW x \in Events, NEW q \in 0..4, x.n > sent,
         InKept(x, q), BefKept(x, q),
         \A r \in 0..4, d \in Events : Peers(x, d) /\ q < r => ~In(r, d)
  PROVE  InOrder'
  <2> USE <1>NewComes
  <2>1. /\ \A r \in 0..4 : ~(r < r)
        /\ \A r \in 0..3 : r \in 0..4
    BY SMTT(60)
  <2>2. \A e : Current(e)' <=> Current(e)
    BY DEF Current
  <2>3. ASSUME NEW e \in Events, Posted(e) PROVE e.n < x.n
    <3>1. e.n <= sent /\ sent \in Nat /\ e.n \in Nat /\ x.n \in Nat
      BY <2>3 DEF NumberInv, ActorsTypeOK, Events
    <3>2. \A k, l, m \in Nat : k <= l /\ m > l => k < m
      BY SMTT(60)
    <3> QED BY <3>1, <3>2
  <2> SUFFICES ASSUME NEW e \in Events, NEW d \in Events, Peers(e, d), Ahead(e, d)' PROVE e.n < d.n
    BY <2>2 DEF InOrder, Peers
  <2>4. Ahead(e, d) => e.n < d.n
    BY DEF InOrder, Peers
  <2>5. ASSUME NEW r \in 0..4, NEW k \in 0..4, r < k, In(r, e)', In(k, d)' PROVE e.n < d.n
    <3>1. CASE In(r, e) /\ In(k, d)
      BY <2>4, <2>5, <3>1 DEF Ahead
    <3>2. CASE ~In(r, e) /\ In(k, d)
      BY <2>5, <3>2 DEF InKept
    <3>3. CASE ~In(k, d)
      <4>1. k = q /\ d = x
        BY <2>5, <3>3 DEF InKept
      <4>2. In(r, e)
        BY <2>1, <2>5, <4>1 DEF InKept
      <4> QED BY <2>3, <4>1, <4>2 DEF Posted
    <3> QED BY <3>1, <3>2, <3>3
  <2>6. ASSUME NEW r \in 0..3, Bef(r, e, d)' PROVE e.n < d.n
    <3>1. CASE Bef(r, e, d)
      BY <2>4, <3>1 DEF Ahead
    <3>2. CASE r = q /\ d = x /\ In(r, e)
      BY <2>1, <2>3, <3>2 DEF Posted
    <3> QED BY <2>6, <3>1, <3>2 DEF BefKept
  <2> QED BY <2>5, <2>6 DEF Ahead
<1>NumbersGrow.
  ASSUME NumberInv, AgeInv, ActorsTypeOK, NEW x \in Events, \A e \in Events : Posted(e)' => Posted(e) \/ e = x,
         x.n = sent + 1, sent' = sent + 1, moves' = moves, x.moves = moves[x.to], unborn' \subseteq unborn,
         x.to \notin unborn', x.from \notin unborn'
  PROVE  NumberInv' /\ AgeInv'
  <2> USE <1>NumbersGrow
  <2>1. /\ \A k, l \in Nat : k <= l => k <= l + 1 /\ k < l + 1 /\ ~(l < k)
        /\ \A k \in Nat : k <= k /\ ~(k < k) /\ k + 1 \in Nat
    BY SMTT(60)
  <2>2. /\ sent \in Nat /\ moves[x.to] \in Nat
    BY DEF ActorsTypeOK, Events
  <2>3. ASSUME NEW e \in Events, Posted(e)
        PROVE  /\ e.n <= sent /\ e.moves <= moves[e.to] /\ e.to \notin unborn /\ e.from \notin unborn
               /\ e.n \in Nat /\ e.moves \in Nat /\ moves[e.to] \in Nat
    BY <2>3 DEF NumberInv, ActorsTypeOK, Events
  <2>4. ASSUME NEW e \in Events, Posted(e)'
        PROVE  e.n <= sent' /\ e.moves <= moves'[e.to] /\ e.to \notin unborn' /\ e.from \notin unborn'
    <3>1. CASE Posted(e)
      <4>1. e.n <= sent /\ e.n \in Nat /\ e.moves <= moves[e.to] /\ e.to \notin unborn /\ e.from \notin unborn
        BY <2>3, <3>1
      <4>2. e.n <= sent + 1
        BY <2>2, <4>1, SMTT(60)
      <4> QED BY <4>1, <4>2
    <3>2. CASE e = x
      <4>1. x.n <= sent' /\ x.moves <= moves'[x.to]
        BY <2>1, <2>2
      <4> QED BY <3>2, <4>1
    <3> QED BY <2>4, <3>1, <3>2
  <2>5. ASSUME NEW e \in Events, NEW d \in Events, Posted(e)', Posted(d)', e.to = d.to, e.moves < d.moves PROVE e.n < d.n
    <3>1. CASE Posted(e) /\ Posted(d)
      BY <2>5, <3>1 DEF AgeInv
    <3>2. CASE e = x
      <4>1. d = x \/ d.moves <= moves[d.to]
        BY <2>3, <2>5
      <4> QED BY <2>1, <2>2, <2>3, <2>5, <3>2, <4>1
    <3>3. CASE d = x /\ Posted(e)
      <4>1. e.n <= sent /\ e.n \in Nat
        BY <2>3, <3>3
      <4>2. e.n < sent + 1
        BY <2>2, <4>1, SMTT(60)
      <4> QED BY <3>3, <4>2
    <3> QED BY <2>5, <3>1, <3>2, <3>3
  <2> QED BY <2>4, <2>5 DEF NumberInv, AgeInv
<1>StartNew.
  ASSUME StartInv, NEW x \in Events, NEW q \in 0..4, InKept(x, q), BefKept(x, q),
         x.from = "start" => q = 1 /\ \A d \in Events : d.to = x.to => ~In(0, d) /\ ~In(1, d),
         q = 0 => \A d \in Events : d.to = x.to => ~In(1, d)
  PROVE  StartInv'
  <2> USE <1>StartNew
  <2> SUFFICES ASSUME NEW e \in Events, e.from = "start"
               PROVE  /\ ~In(2, e)' /\ ~In(3, e)' /\ ~In(4, e)'
                      /\ \A d \in Events : d.to = e.to => ~Bef(0, d, e)' /\ ~Bef(1, d, e)' /\ ~(In(1, e)' /\ In(0, d)')
    BY DEF StartInv
  <2>1. ~In(2, e)' /\ ~In(3, e)' /\ ~In(4, e)'
    BY PlaceNumbers DEF StartInv, InKept
  <2>2. ASSUME NEW d \in Events, d.to = e.to PROVE ~Bef(0, d, e)' /\ ~Bef(1, d, e)' /\ ~(In(1, e)' /\ In(0, d)')
    <3>1. /\ ~In(2, e) /\ ~In(3, e) /\ ~In(4, e) /\ ~Bef(0, d, e) /\ ~Bef(1, d, e) /\ ~(In(1, e) /\ In(0, d))
      BY <2>2 DEF StartInv
    <3>2. ~Bef(0, d, e)'
      BY <3>1, PlaceNumbers DEF BefKept
    <3>3. ~Bef(1, d, e)'
      BY <2>2, <3>1, PlaceNumbers DEF BefKept
    <3>4. ASSUME In(1, e)', In(0, d)' PROVE FALSE
      <4>1. (In(1, e) \/ (1 = q /\ e = x)) /\ (In(0, d) \/ (0 = q /\ d = x))
        BY <3>4, PlaceNumbers DEF InKept
      <4> QED BY <2>2, <3>1, <4>1, PlaceNumbers
    <3> QED BY <3>2, <3>3, <3>4
  <2> QED BY <2>1, <2>2
<1> SUFFICES ASSUME FlowInv, ActorsTypeOK, moves' = moves, sent' = sent + 1, unborn' \subseteq unborn,
                    NEW x \in Events, NEW q \in 0..4, InKept(x, q), BefKept(x, q),
                    x.n = sent + 1, x.moves = moves[x.to], x.to \notin unborn', x.from \notin unborn',
                    \A r \in 0..4, d \in Events : Peers(x, d) /\ q < r => ~In(r, d),
                    x.from = "start" => q = 1 /\ \A d \in Events : d.to = x.to => ~In(0, d) /\ ~In(1, d),
                    q = 0 => \A d \in Events : d.to = x.to => ~In(1, d)
             PROVE  FlowInv'
  OBVIOUS
<1>1. \A e \in Events : Posted(e)' => Posted(e) \/ e = x
  BY DEF Posted, InKept
<1>2. NumberInv' /\ AgeInv'
  BY <1>1, <1>NumbersGrow DEF FlowInv
<1>3. StartInv'
  BY <1>StartNew DEF FlowInv
<1>4. x.n > sent
  <2>1. sent \in Nat /\ \A k \in Nat : k + 1 > k
    BY SMTT(60) DEF ActorsTypeOK
  <2> QED BY <2>1
<1>5. InOrder'
  BY <1>4, <1>NewComes DEF FlowInv
<1> QED BY <1>2, <1>3, <1>5 DEF FlowInv

----------------------------------------------------------------------------
(* What steps do to each place.                                            *)

KeptAt(r) ==
  /\ \A e \in Events : In(r, e)' => In(r, e)
  /\ \A e, d \in Events : Bef(r, e, d)' => Bef(r, e, d)
GrowsAt(r, x) ==
  /\ \A e \in Events : In(r, e)' => In(r, e) \/ e = x
  /\ \A e, d \in Events : Bef(r, e, d)' => Bef(r, e, d) \/ (d = x /\ In(r, e))

LEMMA AllKept ==
  ASSUME KeptAt(0), KeptAt(1), KeptAt(2), KeptAt(3), KeptAt(4)
  PROVE  Stays
BY PlaceNumbers DEF Stays, KeptAt

LEMMA OneGrows ==
  ASSUME NEW x \in Events, NEW q \in 0..4, GrowsAt(q, x), \A r \in 0..4 : r # q => KeptAt(r)
  PROVE  InKept(x, q) /\ BefKept(x, q)
<1>1. \A r \in 0..3 : r \in 0..4
  BY SMTT(60)
<1>2. InKept(x, q)
  BY DEF InKept, KeptAt, GrowsAt
<1>3. BefKept(x, q)
  BY <1>1 DEF BefKept, KeptAt, GrowsAt
<1> QED BY <1>2, <1>3

\* The place at the end comes after all others.
LEMMA LastPlace ==
  ASSUME NEW S, NEW q \in Seq(S), NEW x \in S
  PROVE  /\ DOMAIN Append(q, x) = DOMAIN q \cup {Len(q) + 1} /\ Append(q, x)[Len(q) + 1] = x
         /\ \A i \in DOMAIN q : Append(q, x)[i] = q[i] /\ i < Len(q) + 1 /\ ~(Len(q) + 1 < i)
         /\ ~(Len(q) + 1 < Len(q) + 1)
<1> DEFINE n == Len(q) + 1
           r == Append(q, x)
<1>1. /\ DOMAIN r = DOMAIN q \cup {n} /\ r[n] = x
      /\ \A i \in DOMAIN q : r[i] = q[i] /\ i < n
  BY AppendPlaces, SMTT(60)
<1>2. n \in Nat /\ DOMAIN q \subseteq Nat
  BY SMTT(60)
<1>3. \A k, l \in Nat : (k < l => ~(l < k)) /\ ~(k < k)
  BY SMTT(60)
<1> HIDE DEF n, r
<1>4. /\ DOMAIN r = DOMAIN q \cup {n} /\ r[n] = x
      /\ \A i \in DOMAIN q : r[i] = q[i] /\ i < n /\ ~(n < i)
      /\ ~(n < n)
  BY <1>1, <1>2, <1>3
<1> QED BY <1>4 DEF n, r

LEMMA HandledKept ==
  ASSUME handled' = handled
  PROVE  KeptAt(0)
<1>1. \A i, e : RanAt(i, e)' <=> RanAt(i, e)
  BY DEF RanAt
<1>2. ASSUME NEW e \in Events, In(0, e)' PROVE In(0, e)
  BY <1>1, <1>2, PlaceIs, PlaceWillBe
<1>3. ASSUME NEW e \in Events, NEW d \in Events, Bef(0, e, d)' PROVE Bef(0, e, d)
  BY <1>1, <1>3, BeforeIs, BeforeWillBe
<1> QED BY <1>2, <1>3 DEF KeptAt

LEMMA HandledGrows ==
  ASSUME NEW x \in Events, handled \in Seq(Events), handled' = Append(handled, x)
  PROVE  GrowsAt(0, x)
<1> DEFINE n == Len(handled) + 1
<1>1. /\ DOMAIN handled' = DOMAIN handled \cup {n} /\ handled'[n] = x
      /\ \A i \in DOMAIN handled : handled'[i] = handled[i] /\ i < n /\ ~(n < i)
      /\ ~(n < n)
  BY LastPlace, SMTT(60)
<1> HIDE DEF n
<1>2. ASSUME NEW i, NEW e, RanAt(i, e)' PROVE RanAt(i, e) \/ (i = n /\ e = x)
  BY <1>1, <1>2 DEF RanAt
<1>3. ASSUME NEW i, NEW e, RanAt(i, e)' PROVE i \in DOMAIN handled'
  BY <1>3 DEF RanAt
<1>4. ASSUME NEW i, NEW e, RanAt(i, e) PROVE i \in DOMAIN handled
  BY <1>4 DEF RanAt
<1>5. ASSUME NEW e \in Events, In(0, e)' PROVE In(0, e) \/ e = x
  BY <1>2, <1>4, <1>5, PlaceIs, PlaceWillBe
<1>6. ASSUME NEW e \in Events, NEW d \in Events, Bef(0, e, d)' PROVE Bef(0, e, d) \/ (d = x /\ In(0, e))
  <2>1. PICK i, j \in DOMAIN handled' : i < j /\ RanAt(i, e)' /\ RanAt(j, d)'
    BY <1>6, BeforeIs, BeforeWillBe
  <2>2. CASE j = n
    <3>1. i # n
      BY <1>1, <2>1, <2>2
    <3>2. RanAt(i, e) /\ d = x
      BY <1>1, <1>2, <2>1, <2>2, <3>1 DEF RanAt
    <3> QED BY <1>4, <3>2, PlaceIs, PlaceWillBe
  <2>3. CASE j # n
    <3>1. RanAt(j, d) /\ j \in DOMAIN handled
      BY <1>1, <1>2, <2>1, <2>3 DEF RanAt
    <3>2. i # n
      BY <1>1, <2>1, <3>1
    <3>3. RanAt(i, e) /\ i \in DOMAIN handled
      BY <1>1, <1>2, <2>1, <3>2 DEF RanAt
    <3> QED BY <2>1, <3>1, <3>3, BeforeIs, BeforeWillBe
  <2> QED BY <2>2, <2>3
<1> QED BY <1>5, <1>6 DEF GrowsAt

\* Handlers go on and mailboxes stay.
LEMMA MailKept ==
  ASSUME mailbox' = mailbox, \A a \in Actors : \A i : Started(a, i) => Started(a, i)'
  PROVE  KeptAt(1)
<1>1. ASSUME NEW i, NEW e \in Events, WaitsAt(i, e)' PROVE WaitsAt(i, e) /\ i \in DOMAIN mailbox[e.to]
  <2>1. e.to \in Actors
    BY DEF Events
  <2>2. i \in DOMAIN mailbox'[e.to] /\ mailbox'[e.to][i] = e /\ ~Started(e.to, i)'
    BY <1>1 DEF WaitsAt
  <2> QED BY <2>1, <2>2 DEF WaitsAt
<1>2. ASSUME NEW e \in Events, In(1, e)' PROVE In(1, e)
  BY <1>1, <1>2, PlaceIs, PlaceWillBe
<1>3. ASSUME NEW e \in Events, NEW d \in Events, Bef(1, e, d)' PROVE Bef(1, e, d)
  <2>1. PICK i, j \in DOMAIN mailbox'[e.to] : i < j /\ WaitsAt(i, e)' /\ WaitsAt(j, d)'
    BY <1>3, BeforeWillBe
  <2>2. e.to = d.to
    BY <1>3, BeforeWillBe
  <2>3. WaitsAt(i, e) /\ WaitsAt(j, d) /\ i \in DOMAIN mailbox[e.to] /\ j \in DOMAIN mailbox[e.to]
    BY <1>1, <2>1, <2>2
  <2> QED BY <2>1, <2>2, <2>3, BeforeIs
<1> QED BY <1>2, <1>3 DEF KeptAt

LEMMA PendingKept ==
  ASSUME pendingEvents' = pendingEvents
  PROVE  KeptAt(2)
<1>1. \A s, i, e : PendsAt(s, i, e)' <=> PendsAt(s, i, e)
  BY DEF PendsAt
<1>2. ASSUME NEW e \in Events, In(2, e)' PROVE In(2, e)
  BY <1>1, <1>2, PlaceIs, PlaceWillBe
<1>3. ASSUME NEW e \in Events, NEW d \in Events, Bef(2, e, d)' PROVE Bef(2, e, d)
  <2>1. PICK s \in Schedulers : \E i, j \in DOMAIN pendingEvents'[s][e.to] : i < j /\ PendsAt(s, i, e)' /\ PendsAt(s, j, d)'
    BY <1>3, BeforeWillBe
  <2>2. e.to = d.to
    BY <1>3, BeforeWillBe
  <2>3. \E i, j \in DOMAIN pendingEvents[s][e.to] : i < j /\ PendsAt(s, i, e) /\ PendsAt(s, j, d)
    BY <1>1, <2>1
  <2> QED BY <2>2, <2>3, BeforeIs
<1> QED BY <1>2, <1>3 DEF KeptAt

\* What is where is said by the lists of one scheduler and one actor, but for
\* the one that changes.
PendingElsewhere(s, a) ==
  \A u \in Schedulers, b \in Actors : u # s \/ b # a => pendingEvents'[u][b] = pendingEvents[u][b]

LEMMA QueuesKept ==
  ASSUME inbound' = inbound
  PROVE  KeptAt(3)
<1>1. \A s, i, e : QueuedAt(s, i, e)' <=> QueuedAt(s, i, e)
  BY DEF QueuedAt
<1>2. ASSUME NEW e \in Events, In(3, e)' PROVE In(3, e)
  BY <1>1, <1>2, PlaceIs, PlaceWillBe
<1>3. ASSUME NEW e \in Events, NEW d \in Events, Bef(3, e, d)' PROVE Bef(3, e, d)
  <2>1. PICK s \in Schedulers : \E i, j \in DOMAIN inbound'[s] : i < j /\ QueuedAt(s, i, e)' /\ QueuedAt(s, j, d)'
    BY <1>3, BeforeWillBe
  <2>2. \E i, j \in DOMAIN inbound[s] : i < j /\ QueuedAt(s, i, e) /\ QueuedAt(s, j, d)
    BY <1>1, <2>1
  <2> QED BY <2>2, BeforeIs
<1> QED BY <1>2, <1>3 DEF KeptAt

\* A message at the end of a queue.
QueuedLast(s, m, n) ==
  /\ \A u \in Schedulers : \A i, e : QueuedAt(u, i, e)' =>
       QueuedAt(u, i, e) \/ (u = s /\ i = n /\ m.kind = "event" /\ e = m.event)
  /\ \A u \in Schedulers : \A i, a : CarriedTo(u, i, a)' =>
       CarriedTo(u, i, a) \/ (u = s /\ i = n /\ m.kind = "actor" /\ a = m.to)
  /\ \A i \in DOMAIN inbound[s] : i < n /\ ~(n < i) /\ i # n
  /\ ~(n < n)

\* A queue without its first message.
LEMMA QueueTaken ==
  ASSUME EventsTypeOK, NEW s \in Schedulers, inbound[s] # <<>>, inbound'[s] = Tail(inbound[s]),
         \A u \in Schedulers : u # s => inbound'[u] = inbound[u]
  PROVE  /\ \A i : \A e : QueuedAt(s, i, e)' => i \in Nat /\ i + 1 # 1 /\ QueuedAt(s, i + 1, e) /\ i + 1 \in DOMAIN inbound[s]
         /\ \A i : \A a : CarriedTo(s, i, a)' => i \in Nat /\ i + 1 # 1 /\ CarriedTo(s, i + 1, a)
         /\ \A u \in Schedulers : u # s => \A i, e : QueuedAt(u, i, e)' <=> QueuedAt(u, i, e)
         /\ \A u \in Schedulers : u # s => \A i, a : CarriedTo(u, i, a)' <=> CarriedTo(u, i, a)
         /\ KeptAt(3)
<1>1. inbound[s] \in Seq(WireMessages)
  BY DEF EventsTypeOK
<1>2. \A i \in DOMAIN inbound'[s] : i \in Nat /\ i + 1 \in DOMAIN inbound[s] /\ i + 1 # 1 /\ inbound'[s][i] = inbound[s][i + 1]
  BY <1>1, TailPlaces, SMTT(60)
<1>3. \A i : \A e : QueuedAt(s, i, e)' => i \in Nat /\ i + 1 # 1 /\ QueuedAt(s, i + 1, e) /\ i + 1 \in DOMAIN inbound[s]
  BY <1>2 DEF QueuedAt
<1>4. \A i : \A a : CarriedTo(s, i, a)' => i \in Nat /\ i + 1 # 1 /\ CarriedTo(s, i + 1, a)
  BY <1>2 DEF CarriedTo
<1>5. \A u \in Schedulers : u # s => \A i, e : QueuedAt(u, i, e)' <=> QueuedAt(u, i, e)
  BY DEF QueuedAt
<1>6. \A u \in Schedulers : u # s => \A i, a : CarriedTo(u, i, a)' <=> CarriedTo(u, i, a)
  BY DEF CarriedTo
<1>7. \A u, i, e : QueuedAt(u, i, e) => i \in DOMAIN inbound[u]
  BY DEF QueuedAt
<1>8. \A i, j \in Nat : i < j => i + 1 < j + 1
  BY SMTT(60)
<1>9. ASSUME NEW e \in Events, In(3, e)' PROVE In(3, e)
  <2>1. PICK u \in Schedulers : \E i \in DOMAIN inbound'[u] : QueuedAt(u, i, e)'
    BY <1>9, PlaceWillBe
  <2>2. PICK i : QueuedAt(u, i, e)'
    BY <2>1
  <2>3. QueuedAt(u, i, e) \/ QueuedAt(u, i + 1, e)
    BY <1>3, <1>5, <2>2
  <2> QED BY <1>7, <2>3, PlaceIs
<1>10. ASSUME NEW e \in Events, NEW d \in Events, Bef(3, e, d)' PROVE Bef(3, e, d)
  <2>1. PICK u \in Schedulers : \E i, j \in DOMAIN inbound'[u] : i < j /\ QueuedAt(u, i, e)' /\ QueuedAt(u, j, d)'
    BY <1>10, BeforeWillBe
  <2>2. PICK i, j : i < j /\ QueuedAt(u, i, e)' /\ QueuedAt(u, j, d)'
    BY <2>1
  <2>3. CASE u = s
    <3>1. i \in Nat /\ j \in Nat /\ QueuedAt(u, i + 1, e) /\ QueuedAt(u, j + 1, d)
      BY <1>3, <2>2, <2>3
    <3>2. i + 1 < j + 1
      BY <1>8, <2>2, <3>1
    <3> QED BY <1>7, <3>1, <3>2, BeforeIs
  <2>4. CASE u # s
    BY <1>5, <1>7, <2>2, <2>4, BeforeIs
  <2> QED BY <2>3, <2>4
<1>11. KeptAt(3)
  BY <1>9, <1>10 DEF KeptAt
<1> QED BY <1>3, <1>4, <1>5, <1>6, <1>11

\* What the threads are about to send.
LEMMA HandsKept ==
  ASSUME \A t \in Threads : \A e : HeldBy(t, e)' => HeldBy(t, e)
  PROVE  KeptAt(4)
<1>1. ASSUME NEW e \in Events, In(4, e)' PROVE In(4, e)
  BY <1>1, PlaceIs, PlaceWillBe
<1>2. \A e, d \in Events : ~Bef(4, e, d)'
  BY BeforeWillBe
<1> QED BY <1>1, <1>2 DEF KeptAt

\* Queues that are as they were or have lost their first message.
QueuesShrink ==
  \A s \in Schedulers : inbound'[s] = inbound[s] \/ (inbound[s] # <<>> /\ inbound'[s] = Tail(inbound[s]))

\* What is queued stays in its place while its actors do.
LEMMA QueueInvStays ==
  ASSUME EventsTypeOK, QueueInv, QueuesShrink,
         \A s \in Schedulers, e \in Events : \A i : QueuedAt(s, i, e)' /\ Current(e)' =>
           /\ Current(e) /\ Dest(e.to)' = Dest(e.to)
           /\ e.from \in Actors /\ IsHere(s, e.from)' => IsHere(s, e.from)
  PROVE  QueueInv'
<1>QueueShifts.
  ASSUME EventsTypeOK, QueuesShrink, NEW s \in Schedulers
  PROVE  \E c \in {0, 1} :
           /\ \A i, e : QueuedAt(s, i, e)' => i \in Nat /\ QueuedAt(s, i + c, e)
           /\ \A i, a : CarriedTo(s, i, a)' => i \in Nat /\ CarriedTo(s, i + c, a)
  <2> USE <1>QueueShifts
  <2>1. CASE inbound'[s] = inbound[s]
    <3>1. \A i \in DOMAIN inbound[s] : i \in Nat /\ i + 0 = i
      <4>1. inbound[s] \in Seq(WireMessages)
        BY DEF EventsTypeOK
      <4> QED BY <4>1, SMTT(60)
    <3>2. \A i, e : QueuedAt(s, i, e)' => i \in Nat /\ QueuedAt(s, i + 0, e)
      BY <2>1, <3>1 DEF QueuedAt
    <3>3. \A i, a : CarriedTo(s, i, a)' => i \in Nat /\ CarriedTo(s, i + 0, a)
      BY <2>1, <3>1 DEF CarriedTo
    <3> QED BY <3>2, <3>3
  <2>2. CASE inbound[s] # <<>> /\ inbound'[s] = Tail(inbound[s])
    <3>1. inbound[s] \in Seq(WireMessages)
      BY DEF EventsTypeOK
    <3>2. \A i \in DOMAIN inbound'[s] : i \in Nat /\ i + 1 \in DOMAIN inbound[s] /\ i + 1 # 1 /\ inbound'[s][i] = inbound[s][i + 1]
      BY <2>2, <3>1, TailPlaces, SMTT(60)
    <3>3. \A i, e : QueuedAt(s, i, e)' => i \in Nat /\ QueuedAt(s, i + 1, e)
      BY <3>2 DEF QueuedAt
    <3>4. \A i, a : CarriedTo(s, i, a)' => i \in Nat /\ CarriedTo(s, i + 1, a)
      BY <3>2 DEF CarriedTo
    <3> QED BY <3>3, <3>4
  <2> QED BY <2>1, <2>2 DEF QueuesShrink
<1> SUFFICES ASSUME NEW s \in Schedulers, NEW e \in Events, NEW i, QueuedAt(s, i, e)', Current(e)'
             PROVE  QueuedOK(s, i, e)'
  BY DEF QueueInv
<1>1. PICK c \in {0, 1} :
         /\ \A j, d : QueuedAt(s, j, d)' => j \in Nat /\ QueuedAt(s, j + c, d)
         /\ \A j, a : CarriedTo(s, j, a)' => j \in Nat /\ CarriedTo(s, j + c, a)
  BY <1>QueueShifts
<1>2. i \in Nat /\ QueuedAt(s, i + c, e) /\ Current(e) /\ Dest(e.to)' = Dest(e.to)
  BY <1>1
<1>3. QueuedOK(s, i + c, e)
  BY <1>2 DEF QueueInv, QueuedAt
<1>4. s = Dest(e.to)' /\ (e.from \in Actors => ~IsHere(s, e.from)')
  BY <1>2, <1>3 DEF QueuedOK
<1>5. ASSUME NEW k, CarriedTo(s, k, e.from)' PROVE i < k
  <2>1. k \in Nat /\ CarriedTo(s, k + c, e.from)
    BY <1>1, <1>5
  <2>2. i + c < k + c
    BY <1>3, <2>1 DEF QueuedOK, CarriedTo
  <2>3. c \in Nat
    BY SMTT(60)
  <2>4. \A l, m, n \in Nat : l + n < m + n => l < m
    BY SMTT(60)
  <2> QED BY <1>2, <2>1, <2>2, <2>3, <2>4
<1> QED BY <1>4, <1>5 DEF QueuedOK

----------------------------------------------------------------------------
(* Actors that come.                                                       *)

LEMMA RegisterActorOrder ==
  \A s \in Schedulers, a \in Actors, d \in Schedulers :
    /\ HomeInv /\ HomeInv' /\ OrderInv
    /\ RegisterActor(s, a, d)
  => OrderInv'
<1>MailFirst.
  ASSUME NEW x \in Events, mailbox \in [Actors -> Seq(Events)], stack' = stack,
         mailbox' = [mailbox EXCEPT ![x.to] = <<x>>]
  PROVE  GrowsAt(1, x)
  <2> USE <1>MailFirst
  <2>1. x.to \in Actors
    BY DEF Events
  <2>2. mailbox'[x.to] = <<x>> /\ \A b \in Actors : b # x.to => mailbox'[b] = mailbox[b]
    BY <2>1
  <2>3. DOMAIN <<x>> = {1} /\ <<x>>[1] = x /\ ~(1 < 1)
    BY SMTT(60)
  <2>4. \A a, i : Started(a, i)' <=> Started(a, i)
    BY DEF Started
  <2>5. \A i : \A e \in Events : WaitsAt(i, e)' => WaitsAt(i, e) \/ (i = 1 /\ e.to = x.to /\ e = x)
    <3>1. ASSUME NEW i, NEW e \in Events, WaitsAt(i, e)' PROVE WaitsAt(i, e) \/ (i = 1 /\ e.to = x.to /\ e = x)
      <4>1. i \in DOMAIN mailbox'[e.to] /\ mailbox'[e.to][i] = e /\ ~Started(e.to, i)' /\ e.to \in Actors
        BY <3>1 DEF WaitsAt, Events
      <4>2. CASE e.to # x.to
        BY <2>2, <2>4, <4>1, <4>2 DEF WaitsAt
      <4>3. CASE e.to = x.to
        BY <2>2, <2>3, <4>1, <4>3
      <4> QED BY <4>2, <4>3
    <3> QED BY <3>1
  <2>6. \A e \in Events : In(1, e)' => In(1, e) \/ e = x
    <3>1. ASSUME NEW e \in Events, In(1, e)' PROVE In(1, e) \/ e = x
      <4>1. PICK i : WaitsAt(i, e)'
        BY <3>1, PlaceWillBe
      <4>2. CASE WaitsAt(i, e)
        <5>1. i \in DOMAIN mailbox[e.to]
          BY <4>2 DEF WaitsAt
        <5> QED BY <4>2, <5>1, PlaceIs
      <4> QED BY <2>5, <4>1, <4>2
    <3> QED BY <3>1
  <2>7. \A e, d \in Events : Bef(1, e, d)' => Bef(1, e, d)
    <3>1. ASSUME NEW e \in Events, NEW d \in Events, Bef(1, e, d)' PROVE Bef(1, e, d)
      <4>1. e.to = d.to /\ e.to \in Actors
        BY <3>1, BeforeWillBe DEF Events
      <4>2. PICK i, j \in DOMAIN mailbox'[e.to] : i < j /\ WaitsAt(i, e)' /\ WaitsAt(j, d)'
        BY <3>1, BeforeWillBe
      <4>3. e.to # x.to
        BY <2>2, <2>3, <4>2
      <4>4. WaitsAt(i, e) /\ WaitsAt(j, d)
        BY <2>5, <4>1, <4>2, <4>3
      <4>5. i \in DOMAIN mailbox[e.to] /\ j \in DOMAIN mailbox[e.to]
        BY <4>1, <4>4 DEF WaitsAt
      <4> QED BY <4>1, <4>2, <4>4, <4>5, BeforeIs
    <3> QED BY <3>1
  <2> QED BY <2>6, <2>7 DEF GrowsAt
<1> SUFFICES ASSUME HomeInv, HomeInv', OrderInv, NEW s \in Schedulers, NEW a \in Actors, NEW d \in Schedulers,
                    RegisterActor(s, a, d)
             PROVE  OrderInv'
  OBVIOUS
<1>1. /\ sending[s] = Nothing /\ a \in unborn /\ unborn' = unborn \ {a}
      /\ mailbox' = [mailbox EXCEPT ![a] = <<ActorEvent("start", a, sent + 1)>>]
      /\ sent' = sent + 1
      /\ schedId' = [schedId EXCEPT ![a] = [dest |-> d, migrating |-> d # s]]
      /\ sending' = sending \/ sending' = [sending EXCEPT ![s] = <<d, ActorMessage(a)>>]
  BY DEF RegisterActor, InHandler
<1>2. moves' = moves /\ stack' = stack /\ pendingEvents' = pendingEvents /\ inbound' = inbound /\ handled' = handled
  BY SMTT(60) DEF RegisterActor
<1>3. /\ moves \in [Actors -> Nat] /\ schedId \in [Actors -> [dest : Schedulers, migrating : BOOLEAN]] /\ sent \in Nat
      /\ unborn \subseteq Actors /\ mailbox \in [Actors -> Seq(Events)]
      /\ sending \in [Threads -> {Nothing} \cup (Schedulers \X WireMessages)]
      /\ pendingEvents \in [Schedulers -> [Actors -> Seq(Events)]]
  BY DEF HomeInv, ActorsTypeOK, EventsTypeOK
<1>4. PICK x : x = ActorEvent("start", a, sent + 1)
  OBVIOUS
<1>5. x \in Events /\ x.n = sent + 1 /\ x.moves = moves[x.to] /\ x.to = a /\ x.from = "start"
  BY <1>3, <1>4, SMTT(60) DEF ActorEvent, Events
<1>6. \A e \in Events : Posted(e) => e.to # a /\ e.from # a
  BY <1>1 DEF OrderInv, FlowInv, NumberInv
<1>7. \A r \in 0..4, e \in Events : In(r, e) => Posted(e)
  BY DEF Posted
<1>8. \A b \in Actors : b # a => schedId'[b] = schedId[b]
  BY <1>1, <1>3
<1>9. \A u \in Threads : \A e : HeldBy(u, e)' => HeldBy(u, e) /\ sending'[u] = sending[u]
  <2>1. CASE sending' = sending
    BY <2>1 DEF HeldBy
  <2>2. CASE sending' = [sending EXCEPT ![s] = <<d, ActorMessage(a)>>]
    <3>1. s \in Threads
      BY DEF Threads
    <3>2. sending'[s] = <<d, ActorMessage(a)>> /\ \A u \in Threads : u # s => sending'[u] = sending[u]
      BY <1>3, <2>2, <3>1
    <3>3. sending'[s][2].kind = "actor"
      BY <3>2, SMTT(60) DEF ActorMessage
    <3>4. "actor" # "event"
      OBVIOUS
    <3> QED BY <3>2, <3>3, <3>4 DEF HeldBy
  <2> QED BY <1>1, <2>1, <2>2
<1>10. GrowsAt(1, x) /\ KeptAt(0) /\ KeptAt(2) /\ KeptAt(3) /\ KeptAt(4)
  BY <1>1, <1>2, <1>3, <1>4, <1>5, <1>9, <1>MailFirst, HandledKept, PendingKept, QueuesKept, HandsKept
<1>11. InKept(x, 1) /\ BefKept(x, 1)
  BY <1>5, <1>10, PlaceNumbers, OneGrows
<1>12. FlowInv'
  <2>1. FlowInv /\ ActorsTypeOK /\ unborn' \subseteq unborn /\ 1 \in 0..4 /\ 1 # 0 /\ 0 \in 0..4
    BY <1>1, PlaceNumbers DEF OrderInv, HomeInv
  <2>2. x.to \notin unborn' /\ x.from \notin unborn'
    BY <1>1, <1>3, <1>5, SchedulerAssumption
  <2>3. \A r \in 0..4, e \in Events : e.to = x.to => ~In(r, e)
    BY <1>5, <1>6, <1>7
  <2>4. \A r \in 0..4, e \in Events : Peers(x, e) /\ 1 < r => ~In(r, e)
    BY <2>3 DEF Peers
  <2>5. \A e \in Events : e.to = x.to => ~In(0, e) /\ ~In(1, e)
    BY <2>1, <2>3
  <2> QED BY <1>1, <1>2, <1>5, <1>11, <2>1, <2>2, <2>4, <2>5, FlowGrows
<1>13. \A e \in Events : Posted(e) =>
         /\ (Current(e)' <=> Current(e)) /\ Dest(e.to)' = Dest(e.to)
         /\ \A u : e.from \in Actors => (IsHere(u, e.from)' <=> IsHere(u, e.from))
  <2>1. \A e \in Events : e.to \in Actors
    BY DEF Events
  <2> QED BY <1>2, <1>6, <1>8, <2>1 DEF Current, Dest, IsHere
<1>14. QueueInv'
  <2>1. ASSUME NEW u \in Schedulers, NEW e \in Events, NEW i, QueuedAt(u, i, e)'
        PROVE  Posted(e)
    <3>1. QueuedAt(u, i, e) /\ i \in DOMAIN inbound[u]
      BY <1>2, <2>1 DEF QueuedAt
    <3>2. In(3, e) /\ 3 \in 0..4
      BY <3>1, PlaceIs, PlaceNumbers
    <3> QED BY <1>7, <3>2
  <2>2. QueuesShrink
    BY <1>2 DEF QueuesShrink
  <2>3. \A u \in Schedulers, e \in Events : \A i : QueuedAt(u, i, e)' /\ Current(e)' =>
          /\ Current(e) /\ Dest(e.to)' = Dest(e.to)
          /\ e.from \in Actors /\ IsHere(u, e.from)' => IsHere(u, e.from)
    BY <1>13, <2>1
  <2> QED BY <2>2, <2>3, QueueInvStays DEF OrderInv, HomeInv
<1>15. HandInv'
  <2>1. ASSUME NEW t \in Threads, NEW e \in Events, HeldBy(t, e)', Current(e)' PROVE HeldOK(t, e)'
    <3>1. HeldBy(t, e) /\ sending'[t] = sending[t]
      BY <1>9, <2>1
    <3>2. In(4, e) /\ 4 \in 0..4
      BY <3>1, PlaceIs, PlaceNumbers
    <3>3. /\ Current(e) /\ Dest(e.to)' = Dest(e.to)
          /\ e.from \in Actors => (IsHere(t, e.from)' <=> IsHere(t, e.from))
      BY <1>7, <1>13, <2>1, <3>2
    <3>4. HeldOK(t, e)
      BY <3>1, <3>3 DEF OrderInv, HandInv
    <3> QED BY <3>1, <3>3, <3>4 DEF HeldOK
  <2> QED BY <2>1 DEF HandInv
<1>16. MailInv'
  <2>1. ASSUME NEW b \in Actors, NEW i \in DOMAIN mailbox'[b] PROVE mailbox'[b][i].to = b
    <3>1. CASE b # a
      BY <1>1, <1>3, <2>1, <3>1 DEF OrderInv, MailInv
    <3>2. CASE b = a
      <4>1. mailbox'[b] = <<x>>
        BY <1>1, <1>3, <1>4, <3>2
      <4>2. \A k \in DOMAIN <<x>> : <<x>>[k] = x
        BY SMTT(60)
      <4> QED BY <1>5, <2>1, <3>2, <4>1, <4>2
    <3> QED BY <3>1, <3>2
  <2> QED BY <2>1 DEF MailInv
<1>17. PendingInv'
  <2>1. ASSUME NEW u \in Schedulers, NEW b \in Actors
        PROVE  /\ \A i \in DOMAIN pendingEvents'[u][b] : pendingEvents'[u][b][i].to = b
               /\ pendingEvents'[u][b] # <<>> => schedId'[b] = [dest |-> u, migrating |-> TRUE]
    <3>1. /\ \A i \in DOMAIN pendingEvents[u][b] : pendingEvents[u][b][i].to = b
          /\ pendingEvents[u][b] # <<>> => schedId[b] = [dest |-> u, migrating |-> TRUE]
      BY <2>1 DEF OrderInv, PendingInv
    <3>2. ASSUME pendingEvents[u][b] # <<>> PROVE b # a
      <4>1. 1 \in DOMAIN pendingEvents[u][b] /\ pendingEvents[u][b][1] \in Events
        <5>1. \A q \in Seq(Events) : q # <<>> => 1 \in DOMAIN q /\ q[1] \in Events
          BY SMTT(60)
        <5>2. pendingEvents[u][b] \in Seq(Events)
          BY <1>3, <2>1
        <5> QED BY <3>2, <5>1, <5>2
      <4>2. PICK e \in Events : e = pendingEvents[u][b][1]
        BY <4>1
      <4>3. e.to = b
        BY <3>1, <4>1, <4>2
      <4>4. PendsAt(u, 1, e) /\ 1 \in DOMAIN pendingEvents[u][e.to]
        BY <4>1, <4>2, <4>3 DEF PendsAt
      <4>5. In(2, e) /\ 2 \in 0..4
        BY <4>4, PlaceIs, PlaceNumbers
      <4> QED BY <1>6, <1>7, <4>3, <4>5
    <3> QED BY <1>2, <1>8, <3>1, <3>2
  <2> QED BY <2>1 DEF PendingInv
<1> QED BY <1>12, <1>14, <1>15, <1>16, <1>17 DEF OrderInv

\* What was kept for an actor comes after what it brings.
MailMerged(a) ==
  /\ \A e \in Events : In(1, e)' => In(1, e) \/ (e.to = a /\ In(2, e))
  /\ \A e, d \in Events : Bef(1, e, d)' => Bef(1, e, d) \/ (e.to = a /\ ((In(1, e) /\ In(2, d)) \/ Bef(2, e, d)))

\* register_migrated_actor.
LEMMA ReceiveActorOrder ==
  \A s \in Schedulers :
    HomeInv /\ HomeInv' /\ OrderInv /\ Receive(s) /\ Head(inbound[s]).kind = "actor" => OrderInv'
<1>MailMerges.
  ASSUME EventsTypeOK, NEW s \in Schedulers, NEW a \in Actors, stack' = stack, \A i : ~Started(a, i),
         mailbox' = [mailbox EXCEPT ![a] = mailbox[a] \o pendingEvents[s][a]]
  PROVE  MailMerged(a)
  <2> USE <1>MailMerges
  <2>1. PICK q \in Seq(Events), p \in Seq(Events) : q = mailbox[a] /\ p = pendingEvents[s][a]
    BY DEF EventsTypeOK
  <2>2. mailbox \in [Actors -> Seq(Events)] /\ mailbox'[a] = q \o p /\ \A b \in Actors : b # a => mailbox'[b] = mailbox[b]
    BY <2>1 DEF EventsTypeOK
  <2>3. \A i \in DOMAIN (q \o p) :
          \/ i \in DOMAIN q /\ (q \o p)[i] = q[i]
          \/ i \in Int /\ i > Len(q) /\ i - Len(q) \in DOMAIN p /\ (q \o p)[i] = p[i - Len(q)]
    BY ConcatPlaces
  <2>4. PICK n : n = Len(q)
    OBVIOUS
  <2>5. \A i : \A e \in Events : WaitsAt(i, e)' =>
          \/ WaitsAt(i, e) /\ (e.to = a => i \in DOMAIN q)
          \/ e.to = a /\ i \in Int /\ i > n /\ i - n \in DOMAIN p /\ PendsAt(s, i - n, e)
    <3>1. ASSUME NEW i, NEW e \in Events, WaitsAt(i, e)'
          PROVE  \/ WaitsAt(i, e) /\ (e.to = a => i \in DOMAIN q)
                 \/ e.to = a /\ i \in Int /\ i > n /\ i - n \in DOMAIN p /\ PendsAt(s, i - n, e)
      <4>1. i \in DOMAIN mailbox'[e.to] /\ mailbox'[e.to][i] = e /\ ~Started(e.to, i)' /\ e.to \in Actors
        BY <3>1 DEF WaitsAt, Events
      <4>2. ~Started(e.to, i)
        BY <4>1 DEF Started
      <4>3. CASE e.to # a
        BY <2>2, <4>1, <4>2, <4>3 DEF WaitsAt
      <4>4. CASE e.to = a
        <5>1. i \in DOMAIN (q \o p) /\ (q \o p)[i] = e
          BY <2>2, <4>1, <4>4
        <5>2. CASE i \in DOMAIN q /\ (q \o p)[i] = q[i]
          BY <2>1, <4>2, <4>4, <5>1, <5>2 DEF WaitsAt
        <5>3. CASE i \in Int /\ i > n /\ i - n \in DOMAIN p /\ (q \o p)[i] = p[i - n]
          BY <2>1, <4>4, <5>1, <5>3 DEF PendsAt
        <5> QED BY <2>3, <2>4, <5>1, <5>2, <5>3
      <4> QED BY <4>3, <4>4
    <3> QED BY <3>1
  <2>6. \A e \in Events : In(1, e)' => In(1, e) \/ (e.to = a /\ In(2, e))
    <3>1. ASSUME NEW e \in Events, In(1, e)' PROVE In(1, e) \/ (e.to = a /\ In(2, e))
      <4>1. PICK i : WaitsAt(i, e)'
        BY <3>1, PlaceWillBe
      <4>2. CASE WaitsAt(i, e)
        <5>1. i \in DOMAIN mailbox[e.to]
          BY <4>2 DEF WaitsAt
        <5> QED BY <4>2, <5>1, PlaceIs
      <4>3. CASE e.to = a /\ i - n \in DOMAIN p /\ PendsAt(s, i - n, e)
        <5>1. i - n \in DOMAIN pendingEvents[s][e.to]
          BY <2>1, <4>3
        <5> QED BY <4>3, <5>1, PlaceIs
      <4> QED BY <2>5, <4>1, <4>2, <4>3
    <3> QED BY <3>1
  <2>7. \A e, d \in Events : Bef(1, e, d)' => Bef(1, e, d) \/ (e.to = a /\ ((In(1, e) /\ In(2, d)) \/ Bef(2, e, d)))
    <3>1. ASSUME NEW e \in Events, NEW d \in Events, Bef(1, e, d)'
          PROVE  Bef(1, e, d) \/ (e.to = a /\ ((In(1, e) /\ In(2, d)) \/ Bef(2, e, d)))
      <4>1. e.to = d.to
        BY <3>1, BeforeWillBe
      <4>2. PICK i, j \in DOMAIN mailbox'[e.to] : i < j /\ WaitsAt(i, e)' /\ WaitsAt(j, d)'
        BY <3>1, BeforeWillBe
      <4>3. CASE WaitsAt(i, e) /\ WaitsAt(j, d)
        <5>1. i \in DOMAIN mailbox[e.to] /\ j \in DOMAIN mailbox[e.to]
          BY <4>1, <4>3 DEF WaitsAt
        <5> QED BY <4>1, <4>2, <4>3, <5>1, BeforeIs
      <4>4. CASE WaitsAt(i, e) /\ d.to = a /\ j - n \in DOMAIN p /\ PendsAt(s, j - n, d)
        <5>1. i \in DOMAIN mailbox[e.to] /\ j - n \in DOMAIN pendingEvents[s][d.to]
          BY <2>1, <4>4 DEF WaitsAt
        <5>2. In(1, e) /\ In(2, d)
          BY <4>4, <5>1, PlaceIs
        <5> QED BY <4>1, <4>4, <5>2
      <4>5. CASE /\ e.to = a /\ i \in Int /\ i > n /\ i - n \in DOMAIN p /\ PendsAt(s, i - n, e)
                 /\ d.to = a /\ j \in Int /\ j > n /\ j - n \in DOMAIN p /\ PendsAt(s, j - n, d)
        <5>1. i - n \in DOMAIN pendingEvents[s][e.to] /\ j - n \in DOMAIN pendingEvents[s][e.to]
          BY <2>1, <4>5
        <5>2. i - n < j - n
          <6>1. n \in Int
            BY <2>4, SMTT(60)
          <6>2. \A k, l, m \in Int : k < l => k - m < l - m
            BY SMTT(60)
          <6> QED BY <4>2, <4>5, <6>1, <6>2
        <5>3. Bef(2, e, d)
          BY <4>1, <4>5, <5>1, <5>2, BeforeIs
        <5> QED BY <4>5, <5>3
      <4>6. ASSUME e.to = a, i \in Int, i > n, d.to = a, j \in DOMAIN q PROVE FALSE
        <5>1. \A k \in DOMAIN q : k \in Int /\ k <= Len(q) /\ Len(q) \in Int
          BY SMTT(60)
        <5>2. \A k, l, m \in Int : k < l /\ l <= m => ~(k > m)
          BY SMTT(60)
        <5> QED BY <2>4, <4>2, <4>6, <5>1, <5>2
      <4>7. /\ \/ WaitsAt(i, e) /\ (e.to = a => i \in DOMAIN q)
               \/ e.to = a /\ i \in Int /\ i > n /\ i - n \in DOMAIN p /\ PendsAt(s, i - n, e)
            /\ \/ WaitsAt(j, d) /\ (d.to = a => j \in DOMAIN q)
               \/ d.to = a /\ j \in Int /\ j > n /\ j - n \in DOMAIN p /\ PendsAt(s, j - n, d)
        BY <2>5, <4>2
      <4> QED BY <4>1, <4>3, <4>4, <4>5, <4>6, <4>7
    <3> QED BY <3>1
  <2> QED BY <2>6, <2>7 DEF MailMerged
\* The order of the events to one actor stays when they are put together.
<1>MergedOrder.
  ASSUME FlowInv, ActorsTypeOK, ActorsTypeOK', NEW a, MailMerged(a), KeptAt(0), KeptAt(2), KeptAt(3), KeptAt(4),
         \A e \in Events : In(2, e)' => e.to # a,
         moves' = moves, sent' = sent, unborn' = unborn
  PROVE  FlowInv'
  <2> USE <1>MergedOrder
  <2>1. \A e \in Events : /\ (In(0, e)' => In(0, e)) /\ (In(1, e)' => In(1, e) \/ (e.to = a /\ In(2, e)))
                          /\ (In(2, e)' => In(2, e)) /\ (In(3, e)' => In(3, e)) /\ (In(4, e)' => In(4, e))
    BY DEF MailMerged, KeptAt
  <2>2. \A e \in Events : Posted(e)' => Posted(e)
    <3>1. ASSUME NEW e \in Events, Posted(e)' PROVE Posted(e)
      <4>1. PICK r \in 0..4 : In(r, e)'
        BY <3>1 DEF Posted
      <4>2. In(0, e) \/ In(1, e) \/ In(2, e) \/ In(3, e) \/ In(4, e)
        BY <2>1, <4>1, PlaceNumbers
      <4> QED BY <4>2, PlaceNumbers DEF Posted
    <3> QED BY <3>1
  <2>3. NumberInv' /\ AgeInv'
    <3>1. sent <= sent' /\ (\A b \in Actors : moves[b] <= moves'[b]) /\ unborn' \subseteq unborn
      <4>1. \A n \in Nat : n <= n
        BY SMTT(60)
      <4> QED BY <4>1 DEF ActorsTypeOK
    <3> QED BY <2>2, <3>1, NumbersKept DEF FlowInv
  <2>4. ASSUME NEW e \in Events, NEW d \in Events, e.to = d.to, Ahead(e, d)' PROVE Ahead(e, d)
    <3>1. CASE \E r, q \in 0..4 : r < q /\ In(r, e)' /\ In(q, d)'
      <4>1. PICK r, q \in 0..4 : r < q /\ In(r, e)' /\ In(q, d)'
        BY <3>1
      <4>2. \E k, l \in 0..4 : k < l /\ In(k, e) /\ In(l, d)
        <5>1. CASE e.to # a
          <6>1. In(r, e) /\ In(q, d)
            BY <2>1, <2>4, <4>1, <5>1, PlaceNumbers
          <6> QED BY <4>1, <6>1
        <5>2. CASE e.to = a
          <6>1. r # 2 /\ q # 2
            BY <2>4, <4>1, <5>2
          <6>2. (r = 0 /\ q \in {1, 3, 4}) \/ (r = 1 /\ q \in {3, 4}) \/ (r = 3 /\ q = 4)
            <7>1. \A k, l \in 0..4 : k < l /\ k # 2 /\ l # 2 =>
                    (k = 0 /\ l \in {1, 3, 4}) \/ (k = 1 /\ l \in {3, 4}) \/ (k = 3 /\ l = 4)
              BY SMTT(60)
            <7> QED BY <4>1, <6>1, <7>1
          <6>3. 0 < 1 /\ 0 < 2 /\ 0 < 3 /\ 0 < 4 /\ 1 < 3 /\ 1 < 4 /\ 2 < 3 /\ 2 < 4 /\ 3 < 4
            BY SMTT(60)
          <6>4. \/ In(0, e) /\ (In(1, d) \/ In(2, d) \/ In(3, d) \/ In(4, d))
                \/ (In(1, e) \/ In(2, e)) /\ (In(3, d) \/ In(4, d))
                \/ In(3, e) /\ In(4, d)
            BY <2>1, <4>1, <6>2
          <6> QED BY <6>3, <6>4, PlaceNumbers
        <5> QED BY <5>1, <5>2
      <4> QED BY <4>2 DEF Ahead
    <3>2. CASE \E r \in 0..3 : Bef(r, e, d)'
      <4>1. Bef(0, e, d)' \/ Bef(1, e, d)' \/ Bef(2, e, d)' \/ Bef(3, e, d)'
        BY <3>2, PlaceNumbers
      <4>2. Bef(0, e, d) \/ Bef(1, e, d) \/ Bef(2, e, d) \/ Bef(3, e, d) \/ (In(1, e) /\ In(2, d))
        BY <4>1 DEF MailMerged, KeptAt
      <4>3. 1 < 2
        BY SMTT(60)
      <4> QED BY <4>2, <4>3, PlaceNumbers DEF Ahead
    <3> QED BY <2>4, <3>1, <3>2 DEF Ahead
  <2>5. InOrder'
    <3>1. \A e : Current(e)' <=> Current(e)
      BY DEF Current
    <3> QED BY <2>4, <3>1 DEF FlowInv, InOrder
  <2>6. StartInv'
    <3>1. ASSUME NEW e \in Events, e.from = "start"
          PROVE  /\ ~In(2, e)' /\ ~In(3, e)' /\ ~In(4, e)'
                 /\ \A d \in Events : d.to = e.to => ~Bef(0, d, e)' /\ ~Bef(1, d, e)' /\ ~(In(1, e)' /\ In(0, d)')
      <4>1. /\ ~In(2, e) /\ ~In(3, e) /\ ~In(4, e)
            /\ \A d \in Events : d.to = e.to => ~Bef(0, d, e) /\ ~Bef(1, d, e) /\ ~(In(1, e) /\ In(0, d))
        BY <3>1 DEF FlowInv, StartInv
      <4>2. \A d \in Events : Bef(2, d, e) => In(2, e)
        <5>1. ASSUME NEW d \in Events, Bef(2, d, e) PROVE In(2, e)
          <6>1. PICK u \in Schedulers : \E i, j \in DOMAIN pendingEvents[u][d.to] : i < j /\ PendsAt(u, i, d) /\ PendsAt(u, j, e)
            BY <5>1, BeforeIs
          <6>2. PICK j : PendsAt(u, j, e)
            BY <6>1
          <6>3. j \in DOMAIN pendingEvents[u][e.to]
            BY <6>2 DEF PendsAt
          <6> QED BY <6>2, <6>3, PlaceIs
        <5> QED BY <5>1
      <4>3. \A d \in Events : Bef(1, d, e)' => Bef(1, d, e)
        BY <4>1, <4>2 DEF MailMerged
      <4>4. \A d \in Events : Bef(0, d, e)' => Bef(0, d, e)
        BY DEF KeptAt
      <4> QED BY <2>1, <4>1, <4>3, <4>4
    <3> QED BY <3>1 DEF StartInv
  <2> QED BY <2>3, <2>5, <2>6 DEF FlowInv
<1> SUFFICES ASSUME HomeInv, HomeInv', OrderInv, NEW s \in Schedulers, Receive(s), Head(inbound[s]).kind = "actor"
             PROVE  OrderInv'
  OBVIOUS
<1>a. PICK a : a = Head(inbound[s]).to
  OBVIOUS
<1>b. /\ inbound[s] # <<>> /\ inbound' = [inbound EXCEPT ![s] = Tail(@)]
      /\ schedId' = [schedId EXCEPT ![a] = [dest |-> s, migrating |-> FALSE]]
      /\ mailbox' = [mailbox EXCEPT ![a] = MailOnArrival(s, a)]
      /\ pendingEvents' = [pendingEvents EXCEPT ![s][a] = <<>>]
      /\ UNCHANGED <<batch, stack, sending, handled>>
      /\ UNCHANGED <<alive, unborn, moves, stops, timeouts, sent>>
  BY <1>a DEF Receive
<1>c. /\ stack' = stack /\ sending' = sending /\ handled' = handled
      /\ moves' = moves /\ unborn' = unborn /\ sent' = sent
  BY <1>b, SMTT(60)
<1> USE <1>a, <1>b, <1>c
<1>1. /\ Head(inbound[s]) \in WireMessages /\ 1 \in DOMAIN inbound[s] /\ Head(inbound[s]) = inbound[s][1]
      /\ inbound'[s] = Tail(inbound[s])
      /\ \A u \in Schedulers : u # s => inbound'[u] = inbound[u]
  BY FirstMessage DEF HomeInv
<1>2. a \in Actors /\ CarriedTo(s, 1, a)
  BY <1>1, MessageIs DEF CarriedTo
<1>3. OnWay(s, a) /\ schedId[a] = [dest |-> s, migrating |-> TRUE] /\ \A u : ~IsHere(u, a)
  <2>1. OnWay(s, a)
    BY <1>2 DEF HomeInv, CarrierInv
  <2> QED BY <2>1, OnePlace DEF OnWay
<1>4. \A i : ~Started(a, i)
  <2>1. \A u \in Schedulers : ~RunsAt(u, a)
    BY <1>3, Nowhere
  <2> QED BY <2>1 DEF RunsAt, Started
<1>5. /\ mailbox \in [Actors -> Seq(Events)] /\ pendingEvents \in [Schedulers -> [Actors -> Seq(Events)]]
      /\ schedId \in [Actors -> [dest : Schedulers, migrating : BOOLEAN]] /\ EventsTypeOK
  BY DEF HomeInv, EventsTypeOK, ActorsTypeOK
<1>6. /\ pendingEvents'[s][a] = <<>>
      /\ \A u \in Schedulers, b \in Actors : u # s \/ b # a => pendingEvents'[u][b] = pendingEvents[u][b]
  BY <1>2, <1>5, SMTT(60)
<1>7. /\ schedId'[a] = [dest |-> s, migrating |-> FALSE]
      /\ \A b \in Actors : b # a => schedId'[b] = schedId[b]
  BY <1>2, <1>5
<1>8. \A u \in Schedulers : u # s => pendingEvents[u][a] = <<>>
  <2>1. \A u : u # s => [dest |-> s, migrating |-> TRUE] # [dest |-> u, migrating |-> TRUE]
    BY SMTT(60)
  <2>2. ASSUME NEW u \in Schedulers, pendingEvents[u][a] # <<>> PROVE schedId[a] = [dest |-> u, migrating |-> TRUE]
    BY <1>2, <2>2 DEF OrderInv, PendingInv
  <2> QED BY <1>3, <2>1, <2>2
<1>9. \A u \in Schedulers : pendingEvents'[u][a] = <<>>
  BY <1>2, <1>6, <1>8
<1>10. MailMerged(a)
  <2>1. mailbox' = [mailbox EXCEPT ![a] = mailbox[a] \o pendingEvents[s][a]]
    BY DEF MailOnArrival
  <2> QED BY <1>2, <1>4, <1>5, <2>1, <1>MailMerges
<1>11. \A e \in Events : \A u \in Schedulers : \A i : PendsAt(u, i, e)' => e.to # a /\ PendsAt(u, i, e)
  <2>1. ASSUME NEW e \in Events, NEW u \in Schedulers, NEW i, PendsAt(u, i, e)' PROVE e.to # a /\ PendsAt(u, i, e)
    <3>1. i \in DOMAIN pendingEvents'[u][e.to] /\ pendingEvents'[u][e.to][i] = e /\ e.to \in Actors
      BY <2>1 DEF PendsAt, Events
    <3>2. DOMAIN <<>> = {}
      BY SMTT(60)
    <3>3. e.to # a
      BY <1>9, <3>1, <3>2
    <3> QED BY <1>6, <3>1, <3>3 DEF PendsAt
  <2> QED BY <2>1
<1>12. \A e \in Events : In(2, e)' => e.to # a /\ In(2, e)
  <2>1. ASSUME NEW e \in Events, In(2, e)' PROVE e.to # a /\ In(2, e)
    <3>1. PICK u \in Schedulers : \E i \in DOMAIN pendingEvents'[u][e.to] : PendsAt(u, i, e)'
      BY <2>1, PlaceWillBe
    <3>2. PICK i : PendsAt(u, i, e) /\ e.to # a
      BY <1>11, <3>1
    <3>3. i \in DOMAIN pendingEvents[u][e.to]
      BY <3>2 DEF PendsAt
    <3> QED BY <3>2, <3>3, PlaceIs
  <2> QED BY <2>1
<1>13. KeptAt(2)
  <2>1. ASSUME NEW e \in Events, NEW d \in Events, Bef(2, e, d)' PROVE Bef(2, e, d)
    <3>1. e.to = d.to
      BY <2>1, BeforeWillBe
    <3>2. PICK u \in Schedulers : \E i, j \in DOMAIN pendingEvents'[u][e.to] : i < j /\ PendsAt(u, i, e)' /\ PendsAt(u, j, d)'
      BY <2>1, BeforeWillBe
    <3>3. PICK i, j \in DOMAIN pendingEvents'[u][e.to] : i < j /\ PendsAt(u, i, e)' /\ PendsAt(u, j, d)'
      BY <3>2
    <3>4. PendsAt(u, i, e) /\ PendsAt(u, j, d)
      BY <1>11, <3>3
    <3>5. i \in DOMAIN pendingEvents[u][e.to] /\ j \in DOMAIN pendingEvents[u][e.to]
      BY <3>1, <3>4 DEF PendsAt
    <3> QED BY <3>1, <3>3, <3>4, <3>5, BeforeIs
  <2> QED BY <1>12, <2>1 DEF KeptAt
<1>14. /\ \A i : \A e : QueuedAt(s, i, e)' => i \in Nat /\ i + 1 # 1 /\ QueuedAt(s, i + 1, e) /\ i + 1 \in DOMAIN inbound[s]
       /\ \A u \in Schedulers : u # s => \A i, e : QueuedAt(u, i, e)' <=> QueuedAt(u, i, e)
       /\ KeptAt(3)
  BY <1>1, <1>5, QueueTaken
<1>15. KeptAt(0) /\ KeptAt(4)
  <2>1. \A u \in Threads : \A e : HeldBy(u, e)' => HeldBy(u, e)
    BY DEF HeldBy
  <2> QED BY <2>1, HandledKept, HandsKept
<1>16. FlowInv'
  BY <1>10, <1>12, <1>13, <1>14, <1>15, <1>MergedOrder DEF OrderInv, HomeInv
<1>17. \A b \in Actors : Dest(b)' = Dest(b)
  <2>1. [dest |-> s, migrating |-> FALSE].dest = s /\ [dest |-> s, migrating |-> TRUE].dest = s
    OBVIOUS
  <2> QED BY <1>3, <1>7, <2>1 DEF Dest
<1>18. \A b \in Actors : b # a => \A u : IsHere(u, b)' <=> IsHere(u, b)
  BY <1>7 DEF IsHere
<1>19. \A e \in Events : (Current(e)' <=> Current(e)) /\ Dest(e.to)' = Dest(e.to)
  BY <1>17 DEF Current, Events
<1>20. QueueInv'
  <2>1. ASSUME NEW u \in Schedulers, NEW e \in Events, NEW i, QueuedAt(u, i, e)', Current(e),
               e.from \in Actors, IsHere(u, e.from)'
        PROVE  IsHere(u, e.from)
    <3>1. e.from # a
      <4>1. ASSUME e.from = a PROVE FALSE
        <5>1. u = s
          <6>1. [dest |-> s, migrating |-> FALSE] = [dest |-> u, migrating |-> FALSE] => u = s
            BY SMTT(60)
          <6> QED BY <1>7, <2>1, <4>1, <6>1 DEF IsHere
        <5>2. i \in Nat /\ QueuedAt(s, i + 1, e) /\ i + 1 \in DOMAIN inbound[s]
          BY <1>14, <2>1, <5>1
        <5>3. QueuedOK(s, i + 1, e)
          BY <2>1, <5>2 DEF OrderInv, QueueInv
        <5>4. i + 1 < 1
          BY <1>1, <1>2, <4>1, <5>3 DEF QueuedOK
        <5>5. \A k \in Nat : ~(k + 1 < 1)
          BY SMTT(60)
        <5> QED BY <5>2, <5>4, <5>5
      <4> QED BY <4>1
    <3> QED BY <1>18, <2>1, <3>1
  <2>2. QueuesShrink
    BY <1>1 DEF QueuesShrink
  <2>3. \A u \in Schedulers, e \in Events : \A i : QueuedAt(u, i, e)' /\ Current(e)' =>
          /\ Current(e) /\ Dest(e.to)' = Dest(e.to)
          /\ e.from \in Actors /\ IsHere(u, e.from)' => IsHere(u, e.from)
    BY <1>19, <2>1
  <2> QED BY <1>5, <2>2, <2>3, QueueInvStays DEF OrderInv
<1>21. HandInv'
  <2>1. ASSUME NEW t \in Threads, NEW e \in Events, HeldBy(t, e)', Current(e)' PROVE HeldOK(t, e)'
    <3>1. HeldBy(t, e) /\ Current(e) /\ Dest(e.to)' = Dest(e.to)
      BY <1>19, <2>1 DEF HeldBy
    <3>2. HeldOK(t, e)
      BY <3>1 DEF OrderInv, HandInv
    <3>3. e.from \in Actors /\ IsHere(t, e.from) => IsHere(t, e.from)'
      BY <1>3, <1>18
    <3> QED BY <3>1, <3>2, <3>3 DEF HeldOK
  <2> QED BY <2>1 DEF HandInv
<1>22. MailInv'
  <2>1. ASSUME NEW b \in Actors, NEW i \in DOMAIN mailbox'[b] PROVE mailbox'[b][i].to = b
    <3>1. CASE b # a
      BY <1>5, <2>1, <3>1 DEF OrderInv, MailInv
    <3>2. CASE b = a
      <4>1. PICK q \in Seq(Events), p \in Seq(Events) : q = mailbox[a] /\ p = pendingEvents[s][a]
        BY <1>2, <1>5
      <4>2. mailbox'[b] = q \o p
        BY <1>5, <2>1, <3>2, <4>1 DEF MailOnArrival
      <4>3. (i \in DOMAIN q /\ (q \o p)[i] = q[i]) \/ (i - Len(q) \in DOMAIN p /\ (q \o p)[i] = p[i - Len(q)])
        <5>1. \A k \in DOMAIN (q \o p) :
                \/ k \in DOMAIN q /\ (q \o p)[k] = q[k]
                \/ k \in Int /\ k > Len(q) /\ k - Len(q) \in DOMAIN p /\ (q \o p)[k] = p[k - Len(q)]
          BY ConcatPlaces, SMTT(60)
        <5>2. i \in DOMAIN (q \o p)
          BY <2>1, <4>2
        <5> QED BY <5>1, <5>2
      <4>4. (\A k \in DOMAIN q : q[k].to = a) /\ (\A k \in DOMAIN p : p[k].to = a)
        <5>1. \A k \in DOMAIN mailbox[a] : mailbox[a][k].to = a
          BY <1>2 DEF OrderInv, MailInv
        <5>2. \A k \in DOMAIN pendingEvents[s][a] : pendingEvents[s][a][k].to = a
          BY <1>2 DEF OrderInv, PendingInv
        <5> QED BY <4>1, <5>1, <5>2
      <4> QED BY <3>2, <4>2, <4>3, <4>4
    <3> QED BY <3>1, <3>2
  <2> QED BY <2>1 DEF MailInv
<1>23. PendingInv'
  <2>1. ASSUME NEW u \in Schedulers, NEW b \in Actors
        PROVE  /\ \A i \in DOMAIN pendingEvents'[u][b] : pendingEvents'[u][b][i].to = b
               /\ pendingEvents'[u][b] # <<>> => schedId'[b] = [dest |-> u, migrating |-> TRUE]
    <3>1. CASE b # a
      <4>1. /\ \A i \in DOMAIN pendingEvents[u][b] : pendingEvents[u][b][i].to = b
            /\ pendingEvents[u][b] # <<>> => schedId[b] = [dest |-> u, migrating |-> TRUE]
        BY <2>1 DEF OrderInv, PendingInv
      <4>2. pendingEvents'[u][b] = pendingEvents[u][b] /\ schedId'[b] = schedId[b]
        BY <1>6, <1>7, <3>1
      <4> QED BY <4>1, <4>2
    <3>2. CASE b = a
      <4>1. DOMAIN <<>> = {}
        BY SMTT(60)
      <4> QED BY <1>9, <3>2, <4>1
    <3> QED BY <3>1, <3>2
  <2> QED BY <2>1 DEF PendingInv
<1> QED BY <1>16, <1>20, <1>21, <1>22, <1>23 DEF OrderInv

----------------------------------------------------------------------------
(* The steps that move no event.                                           *)

\* Nothing moves and nobody does.
LEMMA OrderQuiet ==
  ASSUME HomeInv, HomeInv', OrderInv, mailbox' = mailbox, pendingEvents' = pendingEvents, inbound' = inbound,
         sending' = sending, handled' = handled, sent' = sent, moves' = moves, schedId' = schedId, unborn' = unborn,
         \A a \in Actors : \A i : Started(a, i) => Started(a, i)'
  PROVE  OrderInv'
<1>1. Stays
  <2>1. \A t \in Threads : \A e : HeldBy(t, e)' => HeldBy(t, e)
    BY DEF HeldBy
  <2> QED BY <2>1, HandledKept, MailKept, PendingKept, QueuesKept, HandsKept, AllKept
<1>2. FlowInv'
  <2>1. sent <= sent' /\ \A a \in Actors : moves[a] <= moves'[a]
    <3>1. \A k \in Nat : k <= k
      BY SMTT(60)
    <3> QED BY <3>1 DEF HomeInv, ActorsTypeOK
  <2> QED BY <1>1, <2>1, FlowStays DEF OrderInv, HomeInv
<1>3. MailInv' /\ PendingInv'
  BY DEF OrderInv, MailInv, PendingInv
<1>4. \A e : (Current(e)' <=> Current(e)) /\ Dest(e.to)' = Dest(e.to)
  BY DEF Current, Dest
<1>5. \A s, a : IsHere(s, a)' <=> IsHere(s, a)
  BY DEF IsHere
<1>6. QueueInv'
  BY <1>4, <1>5, QueueInvStays DEF OrderInv, HomeInv, QueuesShrink
<1>7. HandInv'
  BY <1>4, <1>5 DEF OrderInv, HandInv, HeldBy, HeldOK
<1> QED BY <1>2, <1>3, <1>6, <1>7 DEF OrderInv

\* What has begun has begun, also when another handler begins, goes on or ends.
LEMMA StartedSwap ==
  ASSUME ListsTypeOK, NEW s \in Schedulers, stack[s] # <<>>, NEW F \in FrameRecords, Swaps(s, F),
         F.actor = Head(stack[s]).actor, 1..Head(stack[s]).done \subseteq 1..F.done
  PROVE  \A a, i : Started(a, i) => Started(a, i)'
<1>0. stack \in [Schedulers -> Seq(FrameRecords)] /\ stack[s] \in Seq(FrameRecords)
  BY DEF ListsTypeOK
<1>1. stack'[s] = <<F>> \o Tail(stack[s]) /\ \A u \in Schedulers : u # s => stack'[u] = stack[u]
  BY <1>0 DEF Swaps
<1>2. /\ DOMAIN stack'[s] = DOMAIN stack[s] /\ stack'[s][1] = F /\ 1 \in DOMAIN stack[s]
      /\ \A i \in DOMAIN stack[s] : i # 1 => stack'[s][i] = stack[s][i]
  BY <1>0, <1>1, SwapPlaces, SMTT(60)
<1>3. Head(stack[s]) = stack[s][1]
  BY TopFrame
<1> SUFFICES ASSUME NEW a, NEW i, Started(a, i) PROVE Started(a, i)'
  OBVIOUS
<1>4. PICK u \in Schedulers : \E k \in DOMAIN stack[u] : stack[u][k].actor = a /\ i \in 1..stack[u][k].done
  BY DEF Started
<1>5. PICK k \in DOMAIN stack[u] : stack[u][k].actor = a /\ i \in 1..stack[u][k].done
  BY <1>4
<1>6. CASE u # s
  BY <1>1, <1>5, <1>6 DEF Started
<1>7. CASE u = s /\ k # 1
  <2>1. k \in DOMAIN stack'[s] /\ stack'[s][k].actor = a /\ i \in 1..stack'[s][k].done
    BY <1>2, <1>5, <1>7
  <2> QED BY <2>1 DEF Started
<1>8. CASE u = s /\ k = 1
  <2>1. 1 \in DOMAIN stack'[s] /\ stack'[s][1].actor = a /\ i \in 1..stack'[s][1].done
    BY <1>2, <1>3, <1>5, <1>8
  <2> QED BY <2>1 DEF Started
<1> QED BY <1>6, <1>7, <1>8

LEMMA StartedPush ==
  ASSUME ListsTypeOK, NEW s \in Schedulers, NEW F \in FrameRecords, Pushes(s, F)
  PROVE  \A a, i : Started(a, i) => Started(a, i)'
<1>0. stack \in [Schedulers -> Seq(FrameRecords)] /\ stack[s] \in Seq(FrameRecords)
  BY DEF ListsTypeOK
<1>1. stack'[s] = <<F>> \o stack[s] /\ \A u \in Schedulers : u # s => stack'[u] = stack[u]
  BY <1>0 DEF Pushes
<1>2. \A i \in DOMAIN stack[s] : i + 1 \in DOMAIN stack'[s] /\ stack'[s][i + 1] = stack[s][i]
  BY <1>0, <1>1, PushPlaces, SMTT(60)
<1> SUFFICES ASSUME NEW a, NEW i, Started(a, i) PROVE Started(a, i)'
  OBVIOUS
<1>4. PICK u \in Schedulers : \E k \in DOMAIN stack[u] : stack[u][k].actor = a /\ i \in 1..stack[u][k].done
  BY DEF Started
<1>5. PICK k \in DOMAIN stack[u] : stack[u][k].actor = a /\ i \in 1..stack[u][k].done
  BY <1>4
<1>6. CASE u # s
  BY <1>1, <1>5, <1>6 DEF Started
<1>7. CASE u = s
  <2>1. k + 1 \in DOMAIN stack'[s] /\ stack'[s][k + 1].actor = a /\ i \in 1..stack'[s][k + 1].done
    BY <1>2, <1>5, <1>7
  <2> QED BY <2>1 DEF Started
<1> QED BY <1>6, <1>7

\* A flag changes nothing that has begun.
LEMMA StartedFlag ==
  ASSUME HomeInv, NEW s \in Schedulers, stack[s] # <<>>, NEW flag \in Flags, NEW dest \in Schedulers \cup {Nothing},
         SetFlag(s, flag, dest)
  PROVE  \A a, i : Started(a, i) => Started(a, i)'
<1> DEFINE F == Flagged(Head(stack[s]), flag, dest)
<1>1. Swaps(s, F)
  BY DEF SetFlag, Swaps, Flagged
<1>2. Head(stack[s]) \in FrameRecords
  BY TopFrame DEF HomeInv
<1>3. F \in FrameRecords /\ F.actor = Head(stack[s]).actor /\ F.done = Head(stack[s]).done
  BY <1>2, FlaggedFrame
<1> QED BY <1>1, <1>3, StartedSwap DEF HomeInv

LEMMA StopActorOrder ==
  ASSUME HomeInv, HomeInv', OrderInv, NEW s \in Schedulers, StopActor(s)
  PROVE  OrderInv'
<1>1. /\ stack[s] # <<>> /\ SetFlag(s, "stop", Nothing)
      /\ UNCHANGED <<schedId, alive, unborn, mailbox, moves, ready, batch, timeouts, eventVars>>
  BY DEF StopActor, InHandler
<1>2. /\ schedId' = schedId /\ unborn' = unborn /\ mailbox' = mailbox /\ moves' = moves
      /\ pendingEvents' = pendingEvents /\ inbound' = inbound /\ sending' = sending /\ sent' = sent /\ handled' = handled
  BY <1>1, SMTT(60) DEF eventVars
<1>3. "stop" \in Flags
  BY DEF Flags
<1>4. \A a, i : Started(a, i) => Started(a, i)'
  BY <1>1, <1>3, StartedFlag
<1> QED BY <1>2, <1>4, OrderQuiet

LEMMA MigrateActorOrder ==
  ASSUME HomeInv, HomeInv', OrderInv, NEW s \in Schedulers, NEW d \in Schedulers, MigrateActor(s, d)
  PROVE  OrderInv'
<1>1. /\ stack[s] # <<>> /\ SetFlag(s, "migrate", d)
      /\ UNCHANGED <<actorVars, ready, batch, timeouts, eventVars>>
  BY DEF MigrateActor, InHandler
<1>2. /\ schedId' = schedId /\ unborn' = unborn /\ mailbox' = mailbox /\ moves' = moves
      /\ pendingEvents' = pendingEvents /\ inbound' = inbound /\ sending' = sending /\ sent' = sent /\ handled' = handled
  BY <1>1, SMTT(60) DEF actorVars, eventVars
<1>3. "migrate" \in Flags
  BY DEF Flags
<1>4. \A a, i : Started(a, i) => Started(a, i)'
  BY <1>1, <1>3, StartedFlag
<1> QED BY <1>2, <1>4, OrderQuiet

\* run_mailbox takes the list over, or an actor sets its timeout.
LEMMA ListOrder ==
  ASSUME HomeInv, HomeInv', OrderInv, NEW s \in Schedulers, TakeReady(s) \/ SetTimeout(s)
  PROVE  OrderInv'
<1>1. UNCHANGED <<actorVars, stack, eventVars>>
  <2>1. CASE TakeReady(s)
    BY <2>1, SMTT(60) DEF TakeReady
  <2>2. CASE SetTimeout(s)
    BY <2>2, SMTT(60) DEF SetTimeout
  <2> QED BY <2>1, <2>2
<1>2. /\ schedId' = schedId /\ unborn' = unborn /\ mailbox' = mailbox /\ moves' = moves /\ stack' = stack
      /\ pendingEvents' = pendingEvents /\ inbound' = inbound /\ sending' = sending /\ sent' = sent /\ handled' = handled
  BY <1>1, SMTT(60) DEF actorVars, eventVars
<1>3. \A a, i : Started(a, i) => Started(a, i)'
  BY <1>2 DEF Started
<1> QED BY <1>2, <1>3, OrderQuiet

----------------------------------------------------------------------------
(* An event of a mailbox runs.                                             *)

\* All of the wire stays.
LEMMA WireStays ==
  ASSUME HomeInv, OrderInv, inbound' = inbound, sending' = sending, moves' = moves, schedId' = schedId
  PROVE  QueueInv' /\ HandInv' /\ KeptAt(3) /\ KeptAt(4)
<1>1. \A e : (Current(e)' <=> Current(e)) /\ Dest(e.to)' = Dest(e.to)
  BY DEF Current, Dest
<1>2. \A s, a : IsHere(s, a)' <=> IsHere(s, a)
  BY DEF IsHere
<1>3. QueueInv'
  BY <1>1, <1>2, QueueInvStays DEF OrderInv, HomeInv, QueuesShrink
<1>4. HandInv'
  BY <1>1, <1>2 DEF OrderInv, HandInv, HeldBy, HeldOK
<1>5. \A t \in Threads : \A e : HeldBy(t, e)' => HeldBy(t, e)
  BY DEF HeldBy
<1> QED BY <1>3, <1>4, <1>5, QueuesKept, HandsKept

LEMMA RunsNext ==
  \A a \in Actors : \A k \in DOMAIN mailbox[a] :
    /\ HomeInv /\ HomeInv' /\ OrderInv /\ ~Started(a, k)
    /\ mailbox' = mailbox /\ (\A b, i : Started(b, i) => Started(b, i)')
    /\ \A j \in DOMAIN mailbox[a] : ~Started(a, j)' => k < j
    /\ handled' = Append(handled, mailbox[a][k])
    /\ pendingEvents' = pendingEvents /\ inbound' = inbound
    /\ sending' = sending /\ sent' = sent /\ moves' = moves /\ schedId' = schedId /\ unborn' = unborn
  => OrderInv'
\* A handler begins with the first event that waits.
<1>MailTaken.
  ASSUME EventsTypeOK, MailInv, NEW a \in Actors, NEW k \in DOMAIN mailbox[a], ~Started(a, k),
         mailbox' = mailbox, \A b \in Actors : \A i : Started(b, i) => Started(b, i)',
         \A j \in DOMAIN mailbox[a] : ~Started(a, j)' => k < j
  PROVE  /\ KeptAt(1) /\ mailbox[a][k] \in Events /\ mailbox[a][k].to = a /\ In(1, mailbox[a][k])
         /\ \A d \in Events : d.to = a /\ In(1, d)' => Bef(1, mailbox[a][k], d)
  <2> USE <1>MailTaken
  <2> DEFINE x == mailbox[a][k]
  <2>1. KeptAt(1)
    BY MailKept
  <2>2. x \in Events /\ x.to = a
    <3>1. mailbox[a] \in Seq(Events)
      BY DEF EventsTypeOK
    <3>2. \A q \in Seq(Events) : \A i \in DOMAIN q : q[i] \in Events
      BY SMTT(60)
    <3> QED BY <3>1, <3>2 DEF MailInv
  <2>3. WaitsAt(k, x)
    BY <2>2 DEF WaitsAt
  <2>4. In(1, x)
    BY <2>2, <2>3, PlaceIs
  <2> HIDE DEF x
  <2>5. ASSUME NEW d \in Events, d.to = a, In(1, d)' PROVE Bef(1, x, d)
    <3>1. PICK j \in DOMAIN mailbox'[a] : WaitsAt(j, d)'
      BY <2>5, PlaceWillBe
    <3>2. j \in DOMAIN mailbox[a] /\ mailbox[a][j] = d /\ ~Started(a, j)'
      BY <2>5, <3>1 DEF WaitsAt
    <3>3. WaitsAt(j, d) /\ k < j
      BY <2>5, <3>2 DEF WaitsAt
    <3> QED BY <2>2, <2>3, <2>5, <3>2, <3>3, BeforeIs
  <2> QED BY <2>1, <2>2, <2>4, <2>5 DEF x
<1> SUFFICES ASSUME HomeInv, HomeInv', OrderInv, NEW a \in Actors, NEW k \in DOMAIN mailbox[a], ~Started(a, k),
                    mailbox' = mailbox, \A b, i : Started(b, i) => Started(b, i)',
                    \A j \in DOMAIN mailbox[a] : ~Started(a, j)' => k < j,
                    handled' = Append(handled, mailbox[a][k]),
                    pendingEvents' = pendingEvents, inbound' = inbound,
                    sending' = sending, sent' = sent, moves' = moves, schedId' = schedId, unborn' = unborn
             PROVE  OrderInv'
  OBVIOUS
<1>1. PICK x : x = mailbox[a][k]
  OBVIOUS
<1>2. /\ KeptAt(1) /\ x \in Events /\ x.to = a /\ In(1, x)
      /\ \A d \in Events : d.to = a /\ In(1, d)' => Bef(1, x, d)
  BY <1>1, <1>MailTaken DEF OrderInv, HomeInv
<1>3. GrowsAt(0, x)
  BY <1>1, <1>2, HandledGrows DEF HomeInv, EventsTypeOK
<1>4. QueueInv' /\ HandInv' /\ KeptAt(3) /\ KeptAt(4) /\ KeptAt(2)
  BY WireStays, PendingKept
<1>5. InKept(x, 0) /\ BefKept(x, 0)
  BY <1>2, <1>3, <1>4, PlaceNumbers, OneGrows
<1>6. Passes(x, 1, 0) /\ 0 < 1
  <2>1. 0 < 1 /\ \A r \in 0..4 : ~(0 < r /\ r < 1)
    BY SMTT(60)
  <2> QED BY <1>2, <2>1, PlaceNumbers DEF Passes, Peers
<1>7. FlowInv'
  <2>1. 0 \in 0..4 /\ 1 \in 0..4 /\ 1 # 0
    BY PlaceNumbers
  <2>2. FlowInv /\ ActorsTypeOK /\ ActorsTypeOK'
    BY DEF OrderInv, HomeInv
  <2> QED BY <1>2, <1>5, <1>6, <2>1, <2>2, FlowMoves
<1>8. MailInv' /\ PendingInv'
  BY DEF OrderInv, MailInv, PendingInv
<1> QED BY <1>4, <1>7, <1>8 DEF OrderInv

\* flush_mailbox begins.
LEMMA FlushMailboxOrder ==
  ASSUME HomeInv, HomeInv', OrderInv, NEW s \in Schedulers, FlushMailbox(s)
  PROVE  OrderInv'
<1>1. PICK a : a = Head(batch[s])
  OBVIOUS
<1> DEFINE F == Frame(a, Len(mailbox[a]) - 1, 1)
<1>2. /\ stack[s] = <<>> /\ batch[s] # <<>>
      /\ stack' = [stack EXCEPT ![s] = <<F>>] /\ handled' = Append(handled, mailbox[a][1])
      /\ UNCHANGED <<actorVars, ready, timeouts, pendingEvents, inbound, sending, sent>>
  BY <1>1 DEF FlushMailbox, Idle
<1>3. /\ schedId' = schedId /\ unborn' = unborn /\ mailbox' = mailbox /\ moves' = moves
      /\ pendingEvents' = pendingEvents /\ inbound' = inbound /\ sending' = sending /\ sent' = sent
  BY <1>2, SMTT(60) DEF actorVars
<1>4. a \in alive /\ IsHere(s, a) /\ mailbox[a] # <<>> /\ ~RunsAt(s, a) /\ a \in Actors
  <2>1. batch[s] \in Seq(Actors) /\ IsInjective(batch[s]) /\ ListInv /\ alive \subseteq Actors
    BY DEF HomeInv, ListsTypeOK, ListInv, ActorsTypeOK
  <2>2. a \in Range(batch[s])
    BY <1>1, <1>2, <2>1, ListTail
  <2> QED BY <2>1, <2>2 DEF ListInv, Listed
<1>5. ~Running(a)
  BY <1>4, RunningIs DEF HomeInv
<1>6. \A i : ~Started(a, i)
  BY <1>5 DEF Started, Running
<1>7. mailbox[a] \in Seq(Events)
  BY <1>4 DEF HomeInv, EventsTypeOK
<1>8. /\ Len(mailbox[a]) - 1 \in Nat /\ 1 \in DOMAIN mailbox[a]
      /\ \A j \in DOMAIN mailbox[a] : j # 1 => 1 < j
  <2>1. \A q \in Seq(Events) : q # <<>> => Len(q) - 1 \in Nat /\ 1 \in DOMAIN q /\ \A j \in DOMAIN q : j # 1 => 1 < j
    BY SMTT(60)
  <2> QED BY <1>4, <1>7, <2>1
<1>9. F.actor = a /\ F.done = 1 /\ F \in FrameRecords
  <2>1. "none" \in Flags /\ Nothing \in Schedulers \cup {Nothing} /\ 1 \in Nat
    BY SMTT(60) DEF Flags
  <2> QED BY <1>4, <1>8, <2>1 DEF Frame, FrameRecords
<1> HIDE DEF F
<1>10. Pushes(s, F) /\ stack'[s] = <<F>>
  <2>1. <<F>> \o <<>> = <<F>>
    BY SMTT(60)
  <2>2. stack \in [Schedulers -> Seq(FrameRecords)]
    BY DEF HomeInv, ListsTypeOK
  <2> QED BY <1>2, <2>1, <2>2 DEF Pushes
<1>11. \A b, i : Started(b, i) => Started(b, i)'
  BY <1>9, <1>10, StartedPush DEF HomeInv
<1>12. Started(a, 1)'
  <2>1. 1 \in DOMAIN <<F>> /\ <<F>>[1] = F /\ 1 \in 1..1
    BY SMTT(60)
  <2> QED BY <1>9, <1>10, <2>1 DEF Started
<1>13. \A j \in DOMAIN mailbox[a] : ~Started(a, j)' => 1 < j
  BY <1>8, <1>12
<1> QED BY <1>2, <1>3, <1>4, <1>6, <1>8, <1>11, <1>13, RunsNext

----------------------------------------------------------------------------
(* A handler ends.                                                         *)

LEMMA HandlerEndsOrder ==
  \A s \in Schedulers :
    /\ HomeInv /\ HomeInv' /\ OrderInv /\ HandlerEnds(s)
  => OrderInv'
\* The mailbox of one actor loses what was run, or all.
<1>MailShifted.
  ASSUME NEW a \in Actors, NEW k \in Nat,
         \A b \in Actors : b # a => mailbox'[b] = mailbox[b] /\ \A i : Started(b, i) => Started(b, i)',
         \A i \in DOMAIN mailbox'[a] :
           i \in Nat /\ k + i \in DOMAIN mailbox[a] /\ mailbox'[a][i] = mailbox[a][k + i] /\ ~Started(a, k + i)
  PROVE  KeptAt(1)
  <2> USE <1>MailShifted
  <2>1. ASSUME NEW i, NEW e \in Events, e.to # a, WaitsAt(i, e)' PROVE WaitsAt(i, e) /\ i \in DOMAIN mailbox[e.to]
    <3>1. e.to \in Actors
      BY DEF Events
    <3>2. i \in DOMAIN mailbox'[e.to] /\ mailbox'[e.to][i] = e /\ ~Started(e.to, i)'
      BY <2>1 DEF WaitsAt
    <3> QED BY <2>1, <3>1, <3>2 DEF WaitsAt
  <2>2. ASSUME NEW i, NEW e \in Events, e.to = a, WaitsAt(i, e)'
        PROVE  WaitsAt(k + i, e) /\ k + i \in DOMAIN mailbox[e.to] /\ i \in Nat
    <3>1. i \in DOMAIN mailbox'[e.to] /\ mailbox'[e.to][i] = e
      BY <2>2 DEF WaitsAt
    <3> QED BY <2>2, <3>1 DEF WaitsAt
  <2>3. \A i, j \in Nat : i < j => k + i < k + j
    BY SMTT(60)
  <2>4. ASSUME NEW e \in Events, In(1, e)' PROVE In(1, e)
    <3>1. PICK i \in DOMAIN mailbox'[e.to] : WaitsAt(i, e)'
      BY <2>4, PlaceIs, PlaceWillBe
    <3> QED BY <2>1, <2>2, <3>1, PlaceIs, PlaceWillBe
  <2>5. ASSUME NEW e \in Events, NEW d \in Events, Bef(1, e, d)' PROVE Bef(1, e, d)
    <3>1. PICK i, j \in DOMAIN mailbox'[e.to] : i < j /\ WaitsAt(i, e)' /\ WaitsAt(j, d)'
      BY <2>5, BeforeIs, BeforeWillBe
    <3>2. e.to = d.to
      BY <2>5, BeforeIs, BeforeWillBe
    <3>3. CASE e.to # a
      <4>1. WaitsAt(i, e) /\ WaitsAt(j, d) /\ i \in DOMAIN mailbox[e.to] /\ j \in DOMAIN mailbox[e.to]
        BY <2>1, <3>1, <3>2, <3>3
      <4> QED BY <3>1, <3>2, <4>1, BeforeIs, BeforeWillBe
    <3>4. CASE e.to = a
      <4>1. /\ WaitsAt(k + i, e) /\ WaitsAt(k + j, d) /\ k + i \in DOMAIN mailbox[e.to] /\ k + j \in DOMAIN mailbox[e.to]
            /\ i \in Nat /\ j \in Nat
        BY <2>2, <3>1, <3>2, <3>4
      <4>2. k + i < k + j
        BY <2>3, <3>1, <4>1
      <4> QED BY <3>2, <4>1, <4>2, BeforeIs, BeforeWillBe
    <3> QED BY <3>3, <3>4
  <2> QED BY <2>4, <2>5 DEF KeptAt
<1>StartedPop.
  ASSUME ListsTypeOK, NEW s \in Schedulers, stack[s] # <<>>, Pops(s)
  PROVE  \A a, i : a # Head(stack[s]).actor /\ Started(a, i) => Started(a, i)'
  <2> USE <1>StartedPop
  <2>0. stack \in [Schedulers -> Seq(FrameRecords)] /\ stack[s] \in Seq(FrameRecords)
    BY DEF ListsTypeOK
  <2>1. stack'[s] = Tail(stack[s]) /\ \A u \in Schedulers : u # s => stack'[u] = stack[u]
    BY <2>0 DEF Pops
  <2>2. \A i \in DOMAIN stack[s] : i # 1 => i - 1 \in DOMAIN stack'[s] /\ stack'[s][i - 1] = stack[s][i]
    <3>1. \A q \in Seq(FrameRecords) : q # <<>> => \A i \in DOMAIN q : i # 1 => i - 1 \in DOMAIN Tail(q) /\ Tail(q)[i - 1] = q[i]
      BY SMTT(60)
    <3> QED BY <2>0, <2>1, <3>1
  <2>3. Head(stack[s]) = stack[s][1]
    BY TopFrame
  <2> SUFFICES ASSUME NEW a, NEW i, a # Head(stack[s]).actor, Started(a, i) PROVE Started(a, i)'
    OBVIOUS
  <2>4. PICK u \in Schedulers : \E k \in DOMAIN stack[u] : stack[u][k].actor = a /\ i \in 1..stack[u][k].done
    BY DEF Started
  <2>5. PICK k \in DOMAIN stack[u] : stack[u][k].actor = a /\ i \in 1..stack[u][k].done
    BY <2>4
  <2>6. CASE u # s
    BY <2>1, <2>5, <2>6 DEF Started
  <2>7. CASE u = s
    <3>1. k # 1
      BY <2>3, <2>5, <2>7
    <3>2. k - 1 \in DOMAIN stack'[s] /\ stack'[s][k - 1].actor = a /\ i \in 1..stack'[s][k - 1].done
      BY <2>2, <2>5, <2>7, <3>1
    <3> QED BY <3>2 DEF Started
  <2> QED BY <2>6, <2>7
\* What an actor has begun is said by its only frame.
<1>OnlyFrame.
  ASSUME HomeInv, NEW s \in Schedulers, stack[s] # <<>>, NEW f, f = Head(stack[s])
  PROVE  \A i : Started(f.actor, i) <=> i \in 1..f.done
  <2> USE <1>OnlyFrame
  <2>1. 1 \in DOMAIN stack[s] /\ f = stack[s][1]
    BY TopFrame DEF HomeInv
  <2>2. ASSUME NEW u \in Schedulers, NEW k \in DOMAIN stack[u], stack[u][k].actor = f.actor PROVE u = s /\ k = 1
    <3>1. FrameOK(u, k) /\ FrameOK(s, 1)
      BY <2>1 DEF HomeInv, StackInv
    <3>2. IsHere(u, f.actor) /\ IsHere(s, f.actor)
      BY <2>1, <2>2, <3>1 DEF FrameOK
    <3>3. u = s
      BY <3>2, OnePlace
    <3> QED BY <2>1, <2>2, <3>1, <3>3 DEF FrameOK
  <2>3. ASSUME NEW i, Started(f.actor, i) PROVE i \in 1..f.done
    <3>1. PICK u \in Schedulers : \E k \in DOMAIN stack[u] : stack[u][k].actor = f.actor /\ i \in 1..stack[u][k].done
      BY <2>3 DEF Started
    <3>2. PICK k \in DOMAIN stack[u] : stack[u][k].actor = f.actor /\ i \in 1..stack[u][k].done
      BY <3>1
    <3>3. u = s /\ k = 1
      BY <2>2, <3>2
    <3> QED BY <2>1, <3>2, <3>3
  <2>4. ASSUME NEW i, i \in 1..f.done PROVE Started(f.actor, i)
    BY <2>1, <2>4 DEF Started
  <2> QED BY <2>3, <2>4
\* flush_mailbox goes on.
<1>NextEventOrder.
  ASSUME HomeInv, HomeInv', OrderInv, NEW s \in Schedulers, stack[s] # <<>>, NEW f, f = Head(stack[s]), f.left > 0,
         Swaps(s, Frame(f.actor, f.left - 1, f.done + 1)),
         handled' = Append(handled, mailbox[f.actor][f.done + 1]), mailbox' = mailbox,
         pendingEvents' = pendingEvents, inbound' = inbound,
         sending' = sending, sent' = sent, moves' = moves, schedId' = schedId, unborn' = unborn
  PROVE  OrderInv'
  <2> USE <1>NextEventOrder
  <2> DEFINE F == Frame(f.actor, f.left - 1, f.done + 1)
  <2>1. /\ f.actor \in Actors /\ f.left \in Nat /\ f.done \in Nat
        /\ mailbox[f.actor] \in Seq(Events) /\ Len(mailbox[f.actor]) \in Nat
        /\ f.left + f.done <= Len(mailbox[f.actor])
    BY FrameFacts
  <2>2. /\ f.left - 1 \in Nat /\ f.done + 1 \in Nat /\ f.done + 1 \in 1..Len(mailbox[f.actor])
        /\ 1..f.done \subseteq 1..(f.done + 1) /\ f.done + 1 \notin 1..f.done
        /\ \A j \in 1..Len(mailbox[f.actor]) : j \notin 1..(f.done + 1) => f.done + 1 < j
    <3>1. \A l, d, n \in Nat : l > 0 /\ l + d <= n =>
            /\ l - 1 \in Nat /\ d + 1 \in Nat /\ d + 1 \in 1..n
            /\ 1..d \subseteq 1..(d + 1) /\ d + 1 \notin 1..d
            /\ \A j \in 1..n : j \notin 1..(d + 1) => d + 1 < j
      BY SMTT(60)
    <3> QED BY <2>1, <3>1
  <2>3. DOMAIN mailbox[f.actor] = 1..Len(mailbox[f.actor])
    <3>1. \A q \in Seq(Events) : DOMAIN q = 1..Len(q)
      BY SMTT(60)
    <3> QED BY <2>1, <3>1
  <2>4. F.actor = f.actor /\ F.done = f.done + 1 /\ F \in FrameRecords
    <3>1. "none" \in Flags /\ Nothing \in Schedulers \cup {Nothing}
      BY DEF Flags
    <3> QED BY <2>1, <2>2, <3>1 DEF Frame, FrameRecords
  <2> HIDE DEF F
  <2>5. Swaps(s, F)
    BY DEF F
  <2>6. \A b, i : Started(b, i) => Started(b, i)'
    BY <2>2, <2>4, <2>5, StartedSwap DEF HomeInv
  <2>7. \A i \in 1..(f.done + 1) : Started(f.actor, i)'
    <3>1. stack \in [Schedulers -> Seq(FrameRecords)] /\ stack[s] \in Seq(FrameRecords)
      BY DEF HomeInv, ListsTypeOK
    <3>2. stack'[s] = <<F>> \o Tail(stack[s])
      BY <2>5, <3>1 DEF Swaps
    <3>3. 1 \in DOMAIN stack'[s] /\ stack'[s][1] = F
      BY <2>4, <3>1, <3>2, SwapPlaces, SMTT(60)
    <3> QED BY <2>4, <3>3 DEF Started
  <2>8. ~Started(f.actor, f.done + 1)
    BY <2>2, <1>OnlyFrame
  <2>9. \A j \in DOMAIN mailbox[f.actor] : ~Started(f.actor, j)' => f.done + 1 < j
    BY <2>2, <2>3, <2>7
  <2> QED BY <2>1, <2>2, <2>3, <2>6, <2>8, <2>9, RunsNext
\* What was run, or all of it, leaves the mailbox.
<1>MailLeft.
  ASSUME HomeInv, OrderInv, NEW s \in Schedulers, stack[s] # <<>>, NEW f, f = Head(stack[s]), Pops(s),
         NEW r, r = SubSeq(mailbox[f.actor], f.done + 1, Len(mailbox[f.actor])) \/ r = <<>>,
         mailbox' = [mailbox EXCEPT ![f.actor] = r]
  PROVE  KeptAt(1) /\ MailInv'
  <2> USE <1>MailLeft
  <2>1. /\ f.actor \in Actors /\ f.done \in Nat
        /\ mailbox[f.actor] \in Seq(Events) /\ f.done <= Len(mailbox[f.actor])
    BY FrameFacts
  <2>2. mailbox \in [Actors -> Seq(Events)]
    BY DEF HomeInv, EventsTypeOK
  <2>3. mailbox'[f.actor] = r /\ \A b \in Actors : b # f.actor => mailbox'[b] = mailbox[b]
    BY <2>1, <2>2
  <2>4. \A i \in DOMAIN r : i \in Nat /\ i > 0 /\ f.done + i \in DOMAIN mailbox[f.actor] /\ r[i] = mailbox[f.actor][f.done + i]
    <3>1. CASE r = <<>>
      <4>1. DOMAIN <<>> = {}
        BY SMTT(60)
      <4> QED BY <3>1, <4>1
    <3>2. CASE r = SubSeq(mailbox[f.actor], f.done + 1, Len(mailbox[f.actor]))
      BY <2>1, <3>2, DropPlaces
    <3> QED BY <3>1, <3>2
  <2>5. ASSUME NEW i, i \in Nat, i > 0 PROVE ~Started(f.actor, f.done + i)
    <3>1. f.done + i \notin 1..f.done
      <4>1. \A d, j \in Nat : j > 0 => d + j \notin 1..d
        BY SMTT(60)
      <4> QED BY <2>1, <2>5, <4>1
    <3> QED BY <3>1, <1>OnlyFrame
  <2>6. \A b \in Actors : b # f.actor => \A i : Started(b, i) => Started(b, i)'
    BY <1>StartedPop DEF HomeInv
  <2>7. KeptAt(1)
    <3>1. \A i \in DOMAIN mailbox'[f.actor] :
            /\ i \in Nat /\ f.done + i \in DOMAIN mailbox[f.actor]
            /\ mailbox'[f.actor][i] = mailbox[f.actor][f.done + i] /\ ~Started(f.actor, f.done + i)
      BY <2>3, <2>4, <2>5
    <3>2. \A b \in Actors : b # f.actor => mailbox'[b] = mailbox[b] /\ \A i : Started(b, i) => Started(b, i)'
      BY <2>3, <2>6
    <3> QED BY <2>1, <3>1, <3>2, <1>MailShifted
  <2>8. MailInv'
    <3>1. ASSUME NEW b \in Actors, NEW i \in DOMAIN mailbox'[b] PROVE mailbox'[b][i].to = b
      <4>1. CASE b # f.actor
        BY <2>3, <3>1, <4>1 DEF OrderInv, MailInv
      <4>2. CASE b = f.actor
        <5>1. i \in DOMAIN r
          BY <2>3, <3>1, <4>2
        <5>2. mailbox'[b][i] = mailbox[b][f.done + i] /\ f.done + i \in DOMAIN mailbox[b]
          BY <2>3, <2>4, <4>2, <5>1
        <5> QED BY <5>2 DEF OrderInv, MailInv
      <4> QED BY <4>1, <4>2
    <3> QED BY <3>1 DEF MailInv
  <2> QED BY <2>7, <2>8
\* The actor stays, or is destroyed.
<1>EndedOrder.
  ASSUME HomeInv, HomeInv', OrderInv, NEW s \in Schedulers, stack[s] # <<>>, NEW f, f = Head(stack[s]), Pops(s),
         NEW r, r = SubSeq(mailbox[f.actor], f.done + 1, Len(mailbox[f.actor])) \/ r = <<>>,
         mailbox' = [mailbox EXCEPT ![f.actor] = r],
         schedId' = schedId, unborn' = unborn, moves' = moves, pendingEvents' = pendingEvents,
         inbound' = inbound, sending' = sending, sent' = sent, handled' = handled
  PROVE  OrderInv'
  <2> USE <1>EndedOrder
  <2>1. KeptAt(1) /\ MailInv'
    BY <1>MailLeft
  <2>2. QueueInv' /\ HandInv' /\ KeptAt(3) /\ KeptAt(4) /\ KeptAt(2) /\ KeptAt(0)
    BY WireStays, PendingKept, HandledKept
  <2>3. Stays
    BY <2>1, <2>2, AllKept
  <2>4. sent <= sent' /\ \A a \in Actors : moves[a] <= moves'[a]
    <3>1. \A n \in Nat : n <= n
      BY SMTT(60)
    <3> QED BY <3>1 DEF HomeInv, ActorsTypeOK
  <2>5. FlowInv'
    BY <2>3, <2>4, FlowStays DEF OrderInv, HomeInv
  <2>6. PendingInv'
    BY DEF OrderInv, PendingInv
  <2> QED BY <2>1, <2>2, <2>5, <2>6 DEF OrderInv
\* The actor leaves: what was sent to it is not current any more.
<1>Second. \A x, y : <<x, y>>[2] = y
  BY SMTT(60)
<1>MigratedOrder.
  ASSUME HomeInv, HomeInv', OrderInv, NEW s \in Schedulers, stack[s] # <<>>, sending[s] = Nothing,
         NEW f, f = Head(stack[s]), Pops(s), NEW r, r = SubSeq(mailbox[f.actor], f.done + 1, Len(mailbox[f.actor])),
         mailbox' = [mailbox EXCEPT ![f.actor] = r],
         schedId' = [schedId EXCEPT ![f.actor] = [dest |-> f.dest, migrating |-> TRUE]],
         moves' = [moves EXCEPT ![f.actor] = @ + 1],
         sending' = [sending EXCEPT ![s] = <<f.dest, ActorMessage(f.actor)>>],
         unborn' = unborn, pendingEvents' = pendingEvents, inbound' = inbound, sent' = sent, handled' = handled
  PROVE  OrderInv'
  <2> USE <1>MigratedOrder
  <2>1. PICK a : a = f.actor
    OBVIOUS
  <2>2. /\ a \in Actors /\ a \in alive /\ IsHere(s, a)
        /\ \A u \in Schedulers : ~OnWay(u, a)
    BY <2>1, RunnerIs
  <2>3. KeptAt(1) /\ MailInv'
    BY <1>MailLeft
  <2>4. /\ moves \in [Actors -> Nat] /\ schedId \in [Actors -> [dest : Schedulers, migrating : BOOLEAN]] /\ sent \in Nat
        /\ sending \in [Threads -> {Nothing} \cup (Schedulers \X WireMessages)]
    BY DEF HomeInv, ActorsTypeOK, EventsTypeOK
  <2>5. /\ moves'[a] = moves[a] + 1 /\ schedId'[a] = [dest |-> f.dest, migrating |-> TRUE]
        /\ \A b \in Actors : b # a => moves'[b] = moves[b] /\ schedId'[b] = schedId[b]
        /\ \A t \in Threads : t # s => sending'[t] = sending[t]
        /\ s \in Threads => sending'[s] = <<f.dest, ActorMessage(a)>>
    BY <2>1, <2>2, <2>4
  <2>6. sent <= sent' /\ \A b \in Actors : moves[b] <= moves'[b]
    <3>1. \A n \in Nat : n <= n /\ n <= n + 1
      BY SMTT(60)
    <3> QED BY <2>4, <2>5, <3>1
  <2>7. s \in Threads /\ sending'[s][2].kind # "event"
    <3>1. s \in Threads
      BY DEF Threads
    <3>2. sending'[s][2] = ActorMessage(a)
      <4>1. sending'[s] = <<f.dest, ActorMessage(a)>>
        BY <2>5, <3>1
      <4> QED BY <4>1, <1>Second
    <3>3. ActorMessage(a).kind = "actor" /\ "actor" # "event"
      BY DEF ActorMessage
    <3> QED BY <3>1, <3>2, <3>3
  <2>8. \A t \in Threads : \A e : HeldBy(t, e)' => t # s /\ HeldBy(t, e)
    BY <2>5, <2>7 DEF HeldBy
  <2>9. KeptAt(0) /\ KeptAt(2) /\ KeptAt(3) /\ KeptAt(4)
    BY <2>8, HandledKept, PendingKept, QueuesKept, HandsKept
  <2>10. Stays
    BY <2>3, <2>9, AllKept
  <2>11. FlowInv'
    BY <2>6, <2>10, FlowStays DEF OrderInv, HomeInv
  <2>12. ASSUME NEW e \in Events, Posted(e), Current(e)' PROVE e.to \in Actors /\ e.to # a /\ Current(e) /\ Dest(e.to)' = Dest(e.to)
    <3>1. e.to \in Actors /\ e.moves \in Nat
      BY DEF Events
    <3>2. e.moves <= moves[e.to]
      BY <2>12 DEF OrderInv, FlowInv, NumberInv
    <3>3. e.to # a
      <4>1. \A m, n \in Nat : m <= n => m # n + 1
        BY SMTT(60)
      <4>2. moves[e.to] \in Nat
        BY <2>4, <3>1
      <4>3. e.moves # moves[e.to] + 1
        BY <3>1, <3>2, <4>1, <4>2
      <4>4. e.moves = moves'[e.to]
        BY <2>12 DEF Current
      <4> QED BY <2>5, <4>3, <4>4
    <3> QED BY <2>5, <2>12, <3>1, <3>3 DEF Current, Dest
  <2>13. \A u \in Schedulers, b \in Actors : b # a => (IsHere(u, b)' <=> IsHere(u, b))
    BY <2>5 DEF IsHere
  <2>14. \A u \in Schedulers : ~IsHere(u, a)'
    <3>1. \A u : [dest |-> f.dest, migrating |-> TRUE] # [dest |-> u, migrating |-> FALSE]
      BY SMTT(60)
    <3> QED BY <2>5, <3>1 DEF IsHere
  <2>15. QueueInv'
    <3>1. ASSUME NEW u \in Schedulers, NEW e \in Events, NEW i, QueuedAt(u, i, e)', Current(e)'
          PROVE  /\ Current(e) /\ Dest(e.to)' = Dest(e.to)
                 /\ e.from \in Actors /\ IsHere(u, e.from)' => IsHere(u, e.from)
      <4>1. QueuedAt(u, i, e) /\ i \in DOMAIN inbound[u]
        BY <3>1 DEF QueuedAt
      <4>2. In(3, e) /\ 3 \in 0..4
        BY <4>1, PlaceIs, PlaceNumbers
      <4>3. Posted(e)
        BY <4>2 DEF Posted
      <4> QED BY <2>12, <2>13, <2>14, <3>1, <4>3
    <3>2. QueuesShrink
      BY DEF QueuesShrink
    <3> QED BY <3>1, <3>2, QueueInvStays DEF OrderInv, HomeInv
  <2>16. HandInv'
    <3>1. ASSUME NEW t \in Threads, NEW e \in Events, HeldBy(t, e)', Current(e)' PROVE HeldOK(t, e)'
      <4>1. t # s /\ HeldBy(t, e)
        BY <2>8, <3>1
      <4>2. In(4, e) /\ 4 \in 0..4
        BY <4>1, PlaceIs, PlaceNumbers
      <4>3. Posted(e)
        BY <4>2 DEF Posted
      <4>4. e.to \in Actors /\ e.to # a /\ Current(e) /\ Dest(e.to)' = Dest(e.to)
        BY <2>12, <3>1, <4>3
      <4>5. HeldOK(t, e)
        BY <4>1, <4>4 DEF OrderInv, HandInv
      <4>6. e.from \in Actors /\ t \in Schedulers /\ IsHere(t, e.from) => IsHere(t, e.from)'
        BY <2>2, <2>13, <4>1, OnePlace
      <4> QED BY <2>5, <4>1, <4>4, <4>5, <4>6 DEF HeldOK
    <3> QED BY <3>1 DEF HandInv
  <2>17. PendingInv'
    <3>1. ASSUME NEW u \in Schedulers, NEW b \in Actors, pendingEvents[u][b] # <<>> PROVE b # a
      BY <2>2, <3>1 DEF OrderInv, PendingInv, OnWay
    <3> QED BY <2>5, <3>1 DEF OrderInv, PendingInv
  <2> QED BY <2>3, <2>11, <2>15, <2>16, <2>17 DEF OrderInv
<1> SUFFICES ASSUME HomeInv, HomeInv', OrderInv, NEW s \in Schedulers, HandlerEnds(s)
             PROVE  OrderInv'
  OBVIOUS
<1>1. PICK f : f = Head(stack[s])
  OBVIOUS
<1>2. /\ stack[s] # <<>> /\ sending[s] = Nothing
      /\ pendingEvents' = pendingEvents /\ inbound' = inbound /\ sent' = sent
  <2>1. InHandler(s) /\ UNCHANGED <<pendingEvents, inbound, sent>>
    BY DEF HandlerEnds
  <2> QED BY <2>1, SMTT(60) DEF InHandler
<1>3. PICK r : r = SubSeq(mailbox[f.actor], f.done + 1, Len(mailbox[f.actor]))
  OBVIOUS
<1>4. \/ /\ f.flag = "none" /\ f.left > 0
         /\ stack' = [stack EXCEPT ![s] = <<Frame(f.actor, f.left - 1, f.done + 1)>> \o Tail(@)]
         /\ handled' = Append(handled, mailbox[f.actor][f.done + 1])
         /\ UNCHANGED <<actorVars, ready, batch, timeouts, sending>>
      \/ /\ stack' = [stack EXCEPT ![s] = Tail(@)]
         /\ mailbox' = [mailbox EXCEPT ![f.actor] = r]
         /\ UNCHANGED <<schedId, alive, unborn, moves, stops, batch, timeouts, sending, handled>>
      \/ /\ SetFlag(s, "tear_down", Nothing)
         /\ UNCHANGED <<actorVars, ready, batch, timeouts, sending, handled>>
      \/ /\ stack' = [stack EXCEPT ![s] = Tail(@)]
         /\ mailbox' = [mailbox EXCEPT ![f.actor] = <<>>]
         /\ UNCHANGED <<schedId, unborn, moves, stops, ready, batch, sending, handled>>
      \/ /\ stack' = [stack EXCEPT ![s] = Tail(@)]
         /\ mailbox' = [mailbox EXCEPT ![f.actor] = r]
         /\ schedId' = [schedId EXCEPT ![f.actor] = [dest |-> f.dest, migrating |-> TRUE]]
         /\ moves' = [moves EXCEPT ![f.actor] = @ + 1]
         /\ sending' = [sending EXCEPT ![s] = <<f.dest, ActorMessage(f.actor)>>]
         /\ UNCHANGED <<alive, unborn, stops, ready, batch, handled>>
  BY <1>1, <1>3 DEF HandlerEnds
<1>5. CASE /\ f.flag = "none" /\ f.left > 0
           /\ stack' = [stack EXCEPT ![s] = <<Frame(f.actor, f.left - 1, f.done + 1)>> \o Tail(@)]
           /\ handled' = Append(handled, mailbox[f.actor][f.done + 1])
           /\ UNCHANGED <<actorVars, ready, batch, timeouts, sending>>
  <2>1. schedId' = schedId /\ unborn' = unborn /\ mailbox' = mailbox /\ moves' = moves /\ sending' = sending
    BY <1>5, SMTT(60) DEF actorVars
  <2>2. Swaps(s, Frame(f.actor, f.left - 1, f.done + 1))
    BY <1>5 DEF Swaps
  <2> QED BY <1>1, <1>2, <1>5, <2>1, <2>2, <1>NextEventOrder
<1>6. CASE /\ stack' = [stack EXCEPT ![s] = Tail(@)]
           /\ mailbox' = [mailbox EXCEPT ![f.actor] = r]
           /\ UNCHANGED <<schedId, alive, unborn, moves, stops, batch, timeouts, sending, handled>>
  <2>1. schedId' = schedId /\ unborn' = unborn /\ moves' = moves /\ sending' = sending /\ handled' = handled
    BY <1>6, SMTT(60)
  <2>2. Pops(s)
    BY <1>6 DEF Pops
  <2> QED BY <1>1, <1>2, <1>3, <1>6, <2>1, <2>2, <1>EndedOrder
<1>7. CASE /\ SetFlag(s, "tear_down", Nothing)
           /\ UNCHANGED <<actorVars, ready, batch, timeouts, sending, handled>>
  <2>1. /\ schedId' = schedId /\ unborn' = unborn /\ mailbox' = mailbox /\ moves' = moves
        /\ sending' = sending /\ handled' = handled
    BY <1>7, SMTT(60) DEF actorVars
  <2>2. "tear_down" \in Flags
    BY DEF Flags
  <2>3. \A a, i : Started(a, i) => Started(a, i)'
    BY <1>2, <1>7, <2>2, StartedFlag
  <2> QED BY <1>2, <2>1, <2>3, OrderQuiet
<1>8. CASE /\ stack' = [stack EXCEPT ![s] = Tail(@)]
           /\ mailbox' = [mailbox EXCEPT ![f.actor] = <<>>]
           /\ UNCHANGED <<schedId, unborn, moves, stops, ready, batch, sending, handled>>
  <2>1. schedId' = schedId /\ unborn' = unborn /\ moves' = moves /\ sending' = sending /\ handled' = handled
    BY <1>8, SMTT(60)
  <2>2. Pops(s)
    BY <1>8 DEF Pops
  <2>3. PICK z : z = <<>>
    OBVIOUS
  <2> QED BY <1>1, <1>2, <1>8, <2>1, <2>2, <2>3, <1>EndedOrder
<1>9. CASE /\ stack' = [stack EXCEPT ![s] = Tail(@)]
           /\ mailbox' = [mailbox EXCEPT ![f.actor] = r]
           /\ schedId' = [schedId EXCEPT ![f.actor] = [dest |-> f.dest, migrating |-> TRUE]]
           /\ moves' = [moves EXCEPT ![f.actor] = @ + 1]
           /\ sending' = [sending EXCEPT ![s] = <<f.dest, ActorMessage(f.actor)>>]
           /\ UNCHANGED <<alive, unborn, stops, ready, batch, handled>>
  <2>1. unborn' = unborn /\ handled' = handled
    BY <1>9, SMTT(60)
  <2>2. Pops(s)
    BY <1>9 DEF Pops
  <2> QED BY <1>1, <1>2, <1>3, <1>9, <2>1, <2>2, <1>MigratedOrder
<1> QED BY <1>4, <1>5, <1>6, <1>7, <1>8, <1>9

----------------------------------------------------------------------------
(* An event is put into a queue.                                           *)

LEMMA PutOrder ==
  \A t \in Threads :
    /\ HomeInv /\ HomeInv' /\ OrderInv /\ Put(t)
  => OrderInv'
<1>MessageQueued.
  ASSUME EventsTypeOK, NEW s \in Schedulers, NEW m \in WireMessages, inbound'[s] = Append(inbound[s], m),
         \A u \in Schedulers : u # s => inbound'[u] = inbound[u]
  PROVE  \E n : QueuedLast(s, m, n)
  <2> USE <1>MessageQueued
  <2>1. PICK n : n = Len(inbound[s]) + 1
    OBVIOUS
  <2>2. inbound[s] \in Seq(WireMessages)
    BY DEF EventsTypeOK
  <2>3. /\ DOMAIN inbound'[s] = DOMAIN inbound[s] \cup {n} /\ inbound'[s][n] = m
        /\ \A i \in DOMAIN inbound[s] : inbound'[s][i] = inbound[s][i] /\ i < n /\ ~(n < i)
        /\ ~(n < n)
    BY <2>1, <2>2, LastPlace, SMTT(60)
  <2>4. ASSUME NEW u \in Schedulers, NEW i, i \in DOMAIN inbound'[u]
        PROVE  (i \in DOMAIN inbound[u] /\ inbound'[u][i] = inbound[u][i]) \/ (u = s /\ i = n /\ inbound'[u][i] = m)
    BY <2>3, <2>4
  <2>5. ASSUME NEW u \in Schedulers, NEW i, NEW e, QueuedAt(u, i, e)'
        PROVE  QueuedAt(u, i, e) \/ (u = s /\ i = n /\ m.kind = "event" /\ e = m.event)
    <3>1. i \in DOMAIN inbound'[u] /\ inbound'[u][i].kind = "event" /\ inbound'[u][i].event = e
      BY <2>5 DEF QueuedAt
    <3> QED BY <2>4, <3>1 DEF QueuedAt
  <2>6. ASSUME NEW u \in Schedulers, NEW i, NEW a, CarriedTo(u, i, a)'
        PROVE  CarriedTo(u, i, a) \/ (u = s /\ i = n /\ m.kind = "actor" /\ a = m.to)
    <3>1. i \in DOMAIN inbound'[u] /\ inbound'[u][i].kind = "actor" /\ inbound'[u][i].to = a
      BY <2>6 DEF CarriedTo
    <3> QED BY <2>4, <3>1 DEF CarriedTo
  <2>7. \A i \in DOMAIN inbound[s] : i < n /\ ~(n < i) /\ i # n
    BY <2>3
  <2> QED BY <2>3, <2>5, <2>6, <2>7 DEF QueuedLast
<1>QueueGrows.
  ASSUME EventsTypeOK, NEW s \in Schedulers, NEW m \in WireMessages, inbound'[s] = Append(inbound[s], m),
         \A u \in Schedulers : u # s => inbound'[u] = inbound[u]
  PROVE  /\ m.kind = "event" => GrowsAt(3, m.event)
         /\ m.kind # "event" => KeptAt(3)
  <2> USE <1>QueueGrows
  <2>0. PICK n : QueuedLast(s, m, n)
    BY <1>MessageQueued
  <2>1. /\ \A u \in Schedulers : \A i, e : QueuedAt(u, i, e)' =>
             QueuedAt(u, i, e) \/ (u = s /\ i = n /\ m.kind = "event" /\ e = m.event)
        /\ \A i \in DOMAIN inbound[s] : i < n /\ ~(n < i) /\ i # n
        /\ ~(n < n)
    BY <2>0 DEF QueuedLast
  <2>2. \A u, i, e : QueuedAt(u, i, e) => i \in DOMAIN inbound[u]
    BY DEF QueuedAt
  <2>3. ASSUME NEW e \in Events, In(3, e)' PROVE In(3, e) \/ (m.kind = "event" /\ e = m.event)
    <3>1. PICK u \in Schedulers : \E i \in DOMAIN inbound'[u] : QueuedAt(u, i, e)'
      BY <2>3, PlaceWillBe
    <3>2. PICK i : QueuedAt(u, i, e)'
      BY <3>1
    <3>3. QueuedAt(u, i, e) \/ (u = s /\ i = n /\ m.kind = "event" /\ e = m.event)
      BY <2>1, <3>2
    <3> QED BY <2>2, <3>3, PlaceIs
  <2>4. ASSUME NEW e \in Events, NEW d \in Events, Bef(3, e, d)'
        PROVE  Bef(3, e, d) \/ (m.kind = "event" /\ d = m.event /\ In(3, e))
    <3>1. PICK u \in Schedulers : \E i, j \in DOMAIN inbound'[u] : i < j /\ QueuedAt(u, i, e)' /\ QueuedAt(u, j, d)'
      BY <2>4, BeforeWillBe
    <3>2. PICK i, j : i < j /\ QueuedAt(u, i, e)' /\ QueuedAt(u, j, d)'
      BY <3>1
    <3>3. CASE QueuedAt(u, j, d)
      <4>0. j \in DOMAIN inbound[u] /\ i < j
        BY <2>2, <3>2, <3>3
      <4>1. ~(u = s /\ i = n)
        <5> SUFFICES ASSUME u = s, i = n PROVE FALSE
          OBVIOUS
        <5>1. j \in DOMAIN inbound[s] /\ n < j
          BY <4>0
        <5> QED BY <2>1, <5>1
      <4>2. QueuedAt(u, i, e)
        BY <2>1, <3>2, <4>1
      <4> QED BY <2>2, <3>2, <3>3, <4>2, BeforeIs
    <3>4. CASE ~QueuedAt(u, j, d)
      <4>1. u = s /\ j = n /\ m.kind = "event" /\ d = m.event
        BY <2>1, <3>2, <3>4
      <4>2. i # n
        BY <2>1, <3>2, <4>1
      <4>3. QueuedAt(u, i, e)
        BY <2>1, <3>2, <4>2
      <4> QED BY <2>2, <4>1, <4>3, PlaceIs
    <3> QED BY <3>3, <3>4
  <2>5. m.kind = "event" => GrowsAt(3, m.event)
    BY <2>3, <2>4 DEF GrowsAt
  <2>6. m.kind # "event" => KeptAt(3)
    BY <2>3, <2>4 DEF KeptAt
  <2> QED BY <2>5, <2>6
\* The current events of one sender are in one hand.
<1>OneHand.
  ASSUME HomeInv, HandInv, NEW t \in Threads, NEW u \in Threads, NEW e \in Events, NEW d \in Events,
         HeldBy(t, e), HeldBy(u, d), Current(e), Current(d), e.from = d.from
  PROVE  t = u
  <2> USE <1>OneHand
  <2>1. HeldOK(t, e) /\ HeldOK(u, d)
    BY DEF HandInv
  <2>2. /\ (t = Outside /\ e.from = Outside) \/ (t \in Schedulers /\ e.from \in Actors /\ IsHere(t, e.from))
        /\ (u = Outside /\ e.from = Outside) \/ (u \in Schedulers /\ e.from \in Actors /\ IsHere(u, e.from))
    BY <2>1 DEF HeldOK
  <2> QED BY <2>2, OnePlace, SchedulerAssumption
\* Actors are carried by messages.
<1>OnlyActorsCarried.
  ASSUME HomeInv, NEW s \in Schedulers, NEW i, NEW a, CarriedTo(s, i, a)
  PROVE  a \in Actors /\ OnWay(s, a)
  <2> USE <1>OnlyActorsCarried
  <2>1. i \in DOMAIN inbound[s] /\ inbound[s][i].to = a /\ inbound[s] \in Seq(WireMessages)
    BY DEF CarriedTo, HomeInv, EventsTypeOK
  <2>2. inbound[s][i] \in WireMessages
    <3>1. \A q \in Seq(WireMessages) : \A j \in DOMAIN q : q[j] \in WireMessages
      BY SMTT(60)
    <3> QED BY <2>1, <3>1
  <2>3. a \in Actors
    BY <2>1, <2>2, MessageIs
  <2> QED BY <2>3 DEF HomeInv, CarrierInv
<1>HandInvStays.
  ASSUME HandInv, schedId' = schedId, moves' = moves,
         \A u \in Threads : \A e : HeldBy(u, e)' => HeldBy(u, e) /\ sending'[u] = sending[u]
  PROVE  HandInv'
  <2> USE <1>HandInvStays
  <2>1. ASSUME NEW u \in Threads, NEW e \in Events, HeldBy(u, e)', Current(e)' PROVE HeldOK(u, e)'
    <3>1. Current(e) /\ Dest(e.to)' = Dest(e.to)
      BY <2>1 DEF Current, Dest
    <3>2. HeldOK(u, e) /\ sending'[u] = sending[u]
      BY <2>1, <3>1 DEF HandInv
    <3>3. \A a : IsHere(u, a)' <=> IsHere(u, a)
      BY DEF IsHere
    <3> QED BY <3>1, <3>2, <3>3 DEF HeldOK
  <2> QED BY <2>1 DEF HandInv
<1> SUFFICES ASSUME HomeInv, HomeInv', OrderInv, NEW t \in Threads, Put(t)
             PROVE  OrderInv'
  OBVIOUS
<1>1. /\ sending[t] # Nothing
      /\ inbound' = [inbound EXCEPT ![sending[t][1]] = Append(@, sending[t][2])]
      /\ sending' = [sending EXCEPT ![t] = Nothing]
      /\ UNCHANGED <<actorVars, listVars, pendingEvents, sent, handled>>
  BY DEF Put
<1>2. /\ schedId' = schedId /\ unborn' = unborn /\ mailbox' = mailbox /\ moves' = moves /\ stack' = stack
      /\ pendingEvents' = pendingEvents /\ sent' = sent /\ handled' = handled
  BY <1>1, SMTT(60) DEF actorVars, listVars
<1>3. PICK s \in Schedulers, m \in WireMessages : s = sending[t][1] /\ m = sending[t][2]
  BY <1>1, SendingIs DEF HomeInv
<1>4. /\ inbound \in [Schedulers -> Seq(WireMessages)]
      /\ sending \in [Threads -> {Nothing} \cup (Schedulers \X WireMessages)]
  BY DEF HomeInv, EventsTypeOK
<1>5. /\ inbound'[s] = Append(inbound[s], m) /\ \A u \in Schedulers : u # s => inbound'[u] = inbound[u]
      /\ sending'[t] = Nothing /\ \A u \in Threads : u # t => sending'[u] = sending[u]
  BY <1>1, <1>3, <1>4
<1>6. \A u \in Threads : \A e : HeldBy(u, e)' => u # t /\ HeldBy(u, e)
  BY <1>5 DEF HeldBy
<1>7. \A a, i : Started(a, i) => Started(a, i)'
  BY <1>2 DEF Started
<1>8. KeptAt(0) /\ KeptAt(1) /\ KeptAt(2) /\ KeptAt(4)
  BY <1>2, <1>6, <1>7, HandledKept, MailKept, PendingKept, HandsKept
<1>9. \A e : (Current(e)' <=> Current(e)) /\ Dest(e.to)' = Dest(e.to)
  BY <1>2 DEF Current, Dest
<1>10. \A u, a : IsHere(u, a)' <=> IsHere(u, a)
  BY <1>2 DEF IsHere
<1>11. HandInv'
  BY <1>2, <1>5, <1>6, <1>HandInvStays DEF OrderInv
<1>12. MailInv' /\ PendingInv'
  BY <1>2 DEF OrderInv, MailInv, PendingInv
<1>13. m.kind = "event" => HeldBy(t, m.event)
  BY <1>1, <1>3 DEF HeldBy
<1>14. QueueInv'
  <2>1. PICK n : QueuedLast(s, m, n)
    BY <1>5, <1>MessageQueued DEF HomeInv
  <2>2. ASSUME NEW u \in Schedulers, NEW e \in Events, NEW i, QueuedAt(u, i, e)', Current(e)' PROVE QueuedOK(u, i, e)'
    <3>1. Current(e)
      BY <1>9, <2>2
    <3>2. QueuedAt(u, i, e) \/ (u = s /\ i = n /\ m.kind = "event" /\ e = m.event)
      BY <2>1, <2>2 DEF QueuedLast
    <3>3. \A k : CarriedTo(u, k, e.from)' =>
            CarriedTo(u, k, e.from) \/ (u = s /\ k = n /\ m.kind = "actor" /\ e.from = m.to)
      BY <2>1 DEF QueuedLast
    <3>4. CASE QueuedAt(u, i, e)
      <4>1. i \in DOMAIN inbound[u]
        BY <3>4 DEF QueuedAt
      <4>2. QueuedOK(u, i, e)
        BY <3>1, <3>4, <4>1 DEF OrderInv, QueueInv
      <4>3. \A k : CarriedTo(u, k, e.from)' => i < k
        <5>1. \A k : CarriedTo(u, k, e.from) => i < k
          BY <4>2 DEF QueuedOK, CarriedTo
        <5>2. u = s => i < n
          BY <2>1, <4>1 DEF QueuedLast
        <5> QED BY <3>3, <5>1, <5>2
      <4> QED BY <1>9, <1>10, <4>2, <4>3 DEF QueuedOK
    <3>5. CASE u = s /\ i = n /\ m.kind = "event" /\ e = m.event
      <4>1. HeldOK(t, e)
        BY <1>13, <3>1, <3>5 DEF OrderInv, HandInv
      <4>2. /\ s = Dest(e.to) /\ t # s
            /\ (e.from \notin Actors \/ IsHere(t, e.from))
        BY <1>3, <4>1, SchedulerAssumption DEF HeldOK
      <4>3. e.from \in Actors => ~IsHere(s, e.from)
        BY <4>2, OnePlace
      <4>4. \A k : ~CarriedTo(s, k, e.from)
        BY <4>2, <1>OnlyActorsCarried, OnePlace
      <4>5. \A k : ~CarriedTo(u, k, e.from)'
        <5>1. "event" # "actor"
          OBVIOUS
        <5> QED BY <3>3, <3>5, <4>4, <5>1
      <4> QED BY <1>9, <1>10, <3>5, <4>2, <4>3, <4>5 DEF QueuedOK
    <3> QED BY <3>2, <3>4, <3>5
  <2> QED BY <2>2 DEF QueueInv
<1>15. CASE m.kind # "event"
  <2>1. KeptAt(3)
    BY <1>5, <1>15, <1>QueueGrows DEF HomeInv
  <2>2. Stays
    BY <1>8, <2>1, AllKept
  <2>3. sent <= sent' /\ \A a \in Actors : moves[a] <= moves'[a]
    <3>1. \A n \in Nat : n <= n
      BY SMTT(60)
    <3> QED BY <1>2, <3>1 DEF HomeInv, ActorsTypeOK
  <2>4. FlowInv'
    BY <1>2, <2>2, <2>3, FlowStays DEF OrderInv, HomeInv
  <2> QED BY <1>11, <1>12, <1>14, <2>4 DEF OrderInv
<1>16. CASE m.kind = "event"
  <2>1. PICK x \in Events : x = m.event
    BY <1>16, MessageIs
  <2>2. GrowsAt(3, x)
    BY <1>5, <1>16, <2>1, <1>QueueGrows DEF HomeInv
  <2>3. HeldBy(t, x) /\ In(4, x)
    BY <1>13, <1>16, <2>1, PlaceIs
  <2>4. InKept(x, 3) /\ BefKept(x, 3)
    BY <1>8, <2>2, PlaceNumbers, OneGrows
  <2>5. Current(x) => Passes(x, 4, 3) /\ 3 < 4
    <3>1. 3 < 4 /\ \A r \in 0..4 : ~(3 < r /\ r < 4)
      BY SMTT(60)
    <3>2. ASSUME Current(x), NEW d \in Events, Peers(x, d), In(4, d)' PROVE FALSE
      <4>1. PICK u \in Threads : HeldBy(u, d)'
        BY <3>2, PlaceWillBe
      <4>2. u # t /\ HeldBy(u, d)
        BY <1>6, <4>1
      <4>3. u = t
        BY <2>3, <3>2, <4>2, <1>OneHand DEF OrderInv, Peers
      <4> QED BY <4>2, <4>3
    <3> QED BY <3>1, <3>2 DEF Passes
  <2>6. 4 \in 0..4 /\ 3 \in 0..4 /\ 4 # 0 /\ 4 # 1 /\ 3 # 0
    BY PlaceNumbers, SMTT(60)
  <2>7. FlowInv /\ ActorsTypeOK /\ ActorsTypeOK'
    BY DEF OrderInv, HomeInv
  <2>8. FlowInv'
    BY <1>2, <2>3, <2>4, <2>5, <2>6, <2>7, FlowMoves
  <2> QED BY <1>11, <1>12, <1>14, <2>8 DEF OrderInv
<1> QED BY <1>15, <1>16

----------------------------------------------------------------------------
(* An event is delivered: run, kept, or sent on.                           *)

\* What threads hold, but for x.
HandsBut(t, x, q) ==
  \A u \in Threads : \A e : HeldBy(u, e)' =>
    \/ HeldBy(u, e) /\ sending'[u] = sending[u]
    \/ q = 4 /\ u = t /\ e = x /\ sending'[u][1] = Dest(x.to)

NotIn(r, a) == \A d \in Events : d.to = a => ~In(r, d)

Here == {0, 1, 2, 4}

\* x comes to the place q on the thread t.
Arrives(t, x, q) ==
  /\ q \in Here /\ GrowsAt(q, x) /\ \A r \in Here : r # q => KeptAt(r)
  /\ MailInv' /\ PendingInv' /\ HandsBut(t, x, q)
  /\ q = 4 => t # Dest(x.to)
  /\ q # 4 => t \in Schedulers /\ t = Dest(x.to)
  /\ q = 0 => NotIn(1, x.to)
  /\ q = 0 \/ q = 1 => NotIn(2, x.to)

\* x is for an actor that is gone.
Dropped(t, x) ==
  /\ \A r \in Here : KeptAt(r)
  /\ MailInv' /\ PendingInv' /\ HandsBut(t, x, 0)

LEMMA HereNumbers ==
  /\ 0 \in Here /\ 1 \in Here /\ 2 \in Here /\ 4 \in Here
  /\ \A q \in Here : q = 0 \/ q = 1 \/ q = 2 \/ q = 4
  /\ \A q \in Here : q \in 0..4
  /\ \A r \in 0..4 : r = 3 \/ r \in Here
  /\ 3 \notin Here
  BY SMTT(60) DEF Here

\* send_immediately_impl and send_later_impl.
LEMMA DeliverOrder ==
  \A t \in Threads, x \in Events : \A now :
    /\ HomeInv /\ OrderInv /\ Deliver(t, x, now)
    /\ sending[t] = Nothing /\ schedId' = schedId
  => Dropped(t, x) \/ \E q \in Here : Arrives(t, x, q)
\* One more event in a mailbox.
<1>MailGrows.
  ASSUME EventsTypeOK, NEW x \in Events, mailbox' = [mailbox EXCEPT ![x.to] = Append(@, x)], stack' = stack
  PROVE  GrowsAt(1, x)
  <2> USE <1>MailGrows
  <2> DEFINE a == x.to
             q == mailbox[a]
  <2>0. a \in Actors /\ mailbox \in [Actors -> Seq(Events)] /\ q \in Seq(Events)
    BY DEF EventsTypeOK, Events
  <2>n. PICK n : n = Len(q) + 1
    OBVIOUS
  <2>1. /\ DOMAIN mailbox'[a] = DOMAIN q \cup {n} /\ mailbox'[a][n] = x
        /\ \A i \in DOMAIN q : mailbox'[a][i] = q[i] /\ i < n /\ ~(n < i)
        /\ ~(n < n)
    <3>1. mailbox'[a] = Append(q, x)
      BY <2>0
    <3> QED BY <2>0, <2>n, <3>1, LastPlace, SMTT(60)
  <2>2. \A b \in Actors : b # a => mailbox'[b] = mailbox[b]
    BY <2>0
  <2>3. \A b, i : Started(b, i)' <=> Started(b, i)
    BY DEF Started
  <2> HIDE DEF q, a
  <2>4. ASSUME NEW i, NEW e \in Events, WaitsAt(i, e)', e.to # a \/ i # n PROVE WaitsAt(i, e) /\ i \in DOMAIN mailbox[e.to]
    <3>1. e.to \in Actors /\ i \in DOMAIN mailbox'[e.to] /\ mailbox'[e.to][i] = e /\ ~Started(e.to, i)
      BY <2>3, <2>4 DEF WaitsAt, Events
    <3>2. CASE e.to # a
      BY <2>2, <3>1, <3>2 DEF WaitsAt
    <3>3. CASE e.to = a
      <4>1. i \in DOMAIN mailbox'[a] /\ mailbox'[a][i] = e /\ i # n
        BY <2>4, <3>1, <3>3
      <4>2. i \in DOMAIN q /\ q[i] = e
        BY <2>1, <4>1
      <4> QED BY <3>1, <3>3, <4>2 DEF WaitsAt, q
    <3> QED BY <3>2, <3>3
  <2>5. ASSUME NEW e \in Events, e.to = a, WaitsAt(n, e)' PROVE e = x
    <3>1. mailbox'[a][n] = e
      BY <2>5 DEF WaitsAt
    <3> QED BY <2>1, <3>1
  <2>6. ASSUME NEW e \in Events, In(1, e)' PROVE In(1, e) \/ e = x
    <3>1. PICK i \in DOMAIN mailbox'[e.to] : WaitsAt(i, e)'
      BY <2>6, PlaceWillBe
    <3>2. CASE e.to = a /\ i = n
      BY <2>5, <3>1, <3>2
    <3>3. CASE e.to # a \/ i # n
      BY <2>4, <3>1, <3>3, PlaceIs
    <3> QED BY <3>2, <3>3
  <2>7. ASSUME NEW e \in Events, NEW d \in Events, Bef(1, e, d)' PROVE Bef(1, e, d) \/ (d = x /\ In(1, e))
    <3>1. PICK i, j \in DOMAIN mailbox'[e.to] : i < j /\ WaitsAt(i, e)' /\ WaitsAt(j, d)'
      BY <2>7, BeforeWillBe
    <3>2. e.to = d.to
      BY <2>7, BeforeWillBe
    <3>3. CASE e.to # a \/ j # n
      <4>1. WaitsAt(j, d) /\ j \in DOMAIN mailbox[e.to]
        BY <2>4, <3>1, <3>2, <3>3
      <4>2. e.to # a \/ i # n
        BY <2>1, <3>1, <3>3, <4>1 DEF q
      <4>3. WaitsAt(i, e) /\ i \in DOMAIN mailbox[e.to]
        BY <2>4, <3>1, <4>2
      <4> QED BY <3>1, <3>2, <4>1, <4>3, BeforeIs
    <3>4. CASE e.to = a /\ j = n
      <4>1. i # n /\ d = x
        <5>1. d.to = a /\ WaitsAt(n, d)' /\ i < n
          BY <3>1, <3>2, <3>4
        <5>2. i # n
          BY <2>1, <5>1
        <5> QED BY <2>5, <5>1, <5>2
      <4>2. WaitsAt(i, e) /\ i \in DOMAIN mailbox[e.to]
        BY <2>4, <3>1, <4>1
      <4> QED BY <4>1, <4>2, PlaceIs
    <3> QED BY <3>3, <3>4
  <2> QED BY <2>6, <2>7 DEF GrowsAt
<1>PendingGrows.
  ASSUME EventsTypeOK, NEW x \in Events, NEW s \in Schedulers, PendingElsewhere(s, x.to),
         pendingEvents'[s][x.to] = Append(pendingEvents[s][x.to], x)
  PROVE  GrowsAt(2, x)
  <2> USE <1>PendingGrows
  <2> DEFINE a == x.to
             q == pendingEvents[s][a]
  <2>0. a \in Actors /\ q \in Seq(Events)
    BY DEF EventsTypeOK, Events
  <2>n. PICK n : n = Len(q) + 1
    OBVIOUS
  <2>1. /\ DOMAIN pendingEvents'[s][a] = DOMAIN q \cup {n} /\ pendingEvents'[s][a][n] = x
        /\ \A i \in DOMAIN q : pendingEvents'[s][a][i] = q[i] /\ i < n /\ ~(n < i)
        /\ ~(n < n)
    BY <2>0, <2>n, LastPlace, SMTT(60)
  <2> HIDE DEF a
  <2>4. ASSUME NEW u \in Schedulers, NEW i, NEW e \in Events, PendsAt(u, i, e)', u # s \/ e.to # a \/ i # n
        PROVE  PendsAt(u, i, e) /\ i \in DOMAIN pendingEvents[u][e.to]
    <3>1. e.to \in Actors /\ i \in DOMAIN pendingEvents'[u][e.to] /\ pendingEvents'[u][e.to][i] = e
      BY <2>4 DEF PendsAt, Events
    <3>2. CASE u # s \/ e.to # a
      <4>1. pendingEvents'[u][e.to] = pendingEvents[u][e.to]
        BY <3>1, <3>2 DEF PendingElsewhere, a
      <4> QED BY <3>1, <4>1 DEF PendsAt
    <3>3. CASE u = s /\ e.to = a
      <4>1. i \in DOMAIN pendingEvents'[s][a] /\ pendingEvents'[s][a][i] = e /\ i # n
        BY <2>4, <3>1, <3>3
      <4> HIDE DEF q
      <4>2. i \in DOMAIN q /\ q[i] = e
        BY <2>1, <4>1
      <4> QED BY <3>1, <3>3, <4>2 DEF PendsAt, q
    <3> QED BY <3>2, <3>3
  <2> HIDE DEF q
  <2>5. ASSUME NEW e \in Events, e.to = a, PendsAt(s, n, e)' PROVE e = x
    <3>1. pendingEvents'[s][a][n] = e
      BY <2>5 DEF PendsAt
    <3> QED BY <2>1, <3>1
  <2>6. ASSUME NEW e \in Events, In(2, e)' PROVE In(2, e) \/ e = x
    <3>1. PICK u \in Schedulers : \E i \in DOMAIN pendingEvents'[u][e.to] : PendsAt(u, i, e)'
      BY <2>6, PlaceWillBe
    <3>2. PICK i : PendsAt(u, i, e)'
      BY <3>1
    <3>3. CASE u = s /\ e.to = a /\ i = n
      BY <2>5, <3>2, <3>3
    <3>4. CASE u # s \/ e.to # a \/ i # n
      BY <2>4, <3>2, <3>4, PlaceIs
    <3> QED BY <3>3, <3>4
  <2>7. ASSUME NEW e \in Events, NEW d \in Events, Bef(2, e, d)' PROVE Bef(2, e, d) \/ (d = x /\ In(2, e))
    <3>1. PICK u \in Schedulers : \E i, j \in DOMAIN pendingEvents'[u][e.to] : i < j /\ PendsAt(u, i, e)' /\ PendsAt(u, j, d)'
      BY <2>7, BeforeWillBe
    <3>2. PICK i, j : i < j /\ PendsAt(u, i, e)' /\ PendsAt(u, j, d)'
      BY <3>1
    <3>3. e.to = d.to
      BY <2>7, BeforeWillBe
    <3>4. CASE u # s \/ e.to # a \/ j # n
      <4>1. PendsAt(u, j, d) /\ j \in DOMAIN pendingEvents[u][e.to]
        BY <2>4, <3>2, <3>3, <3>4
      <4>2. u # s \/ e.to # a \/ i # n
        BY <2>1, <3>2, <3>4, <4>1 DEF q
      <4>3. PendsAt(u, i, e) /\ i \in DOMAIN pendingEvents[u][e.to]
        BY <2>4, <3>2, <4>2
      <4> QED BY <3>2, <3>3, <4>1, <4>3, BeforeIs
    <3>5. CASE u = s /\ e.to = a /\ j = n
      <4>1. i # n /\ d = x
        <5>1. d.to = a /\ PendsAt(s, n, d)' /\ i < n
          BY <3>2, <3>3, <3>5
        <5>2. i # n
          BY <2>1, <5>1
        <5> QED BY <2>5, <5>1, <5>2
      <4>2. PendsAt(u, i, e) /\ i \in DOMAIN pendingEvents[u][e.to]
        BY <2>4, <3>2, <4>1
      <4> QED BY <4>1, <4>2, PlaceIs
    <3> QED BY <3>4, <3>5
  <2> QED BY <2>6, <2>7 DEF GrowsAt
<1>HandGrows.
  ASSUME NEW x \in Events, NEW t \in Threads, \A u \in Threads : \A e : HeldBy(u, e)' => HeldBy(u, e) \/ (u = t /\ e = x)
  PROVE  GrowsAt(4, x)
  <2> USE <1>HandGrows
  <2>1. ASSUME NEW e \in Events, In(4, e)' PROVE In(4, e) \/ e = x
    BY <2>1, PlaceIs, PlaceWillBe
  <2>2. \A e, d \in Events : ~Bef(4, e, d)'
    BY BeforeWillBe
  <2> QED BY <2>1, <2>2 DEF GrowsAt
\* Nothing is kept for an actor that is here.
<1>HereNotPending.
  ASSUME OrderInv, NEW s, NEW a \in Actors, IsHere(s, a)
  PROVE  NotIn(2, a)
  <2> USE <1>HereNotPending
  <2>1. ASSUME NEW d \in Events, d.to = a, In(2, d) PROVE FALSE
    <3>1. PICK u \in Schedulers : \E i \in DOMAIN pendingEvents[u][a] : PendsAt(u, i, d)
      BY <2>1, PlaceIs
    <3>2. pendingEvents[u][a] # <<>>
      <4>1. DOMAIN <<>> = {}
        BY SMTT(60)
      <4> QED BY <3>1, <4>1
    <3>3. schedId[a] = [dest |-> u, migrating |-> TRUE] /\ schedId[a] = [dest |-> s, migrating |-> FALSE]
      BY <3>2 DEF OrderInv, PendingInv, IsHere
    <3>4. [dest |-> u, migrating |-> TRUE] # [dest |-> s, migrating |-> FALSE]
      BY SMTT(60)
    <3> QED BY <3>3, <3>4
  <2> QED BY <2>1 DEF NotIn
<1>EmptyMailbox.
  ASSUME NEW a \in Actors, mailbox[a] = <<>>
  PROVE  NotIn(1, a)
  <2> USE <1>EmptyMailbox
  <2>1. DOMAIN <<>> = {}
    BY SMTT(60)
  <2>2. \A d : d.to = a => ~In(1, d)
    BY <2>1, PlaceIs
  <2> QED BY <2>2 DEF NotIn
<1>DeliverDrops.
  ASSUME OrderInv, NEW t, NEW x, mailbox' = mailbox, stack' = stack, pendingEvents' = pendingEvents,
         sending' = sending, handled' = handled, schedId' = schedId
  PROVE  Dropped(t, x)
  <2> USE <1>DeliverDrops
  <2>1. \A a, i : Started(a, i) => Started(a, i)'
    BY DEF Started
  <2>2. \A u \in Threads : \A e : HeldBy(u, e)' => HeldBy(u, e) /\ sending'[u] = sending[u]
    BY DEF HeldBy
  <2>3. KeptAt(0) /\ KeptAt(1) /\ KeptAt(2) /\ KeptAt(4)
    BY <2>1, <2>2, HandledKept, MailKept, PendingKept, HandsKept
  <2>4. MailInv' /\ PendingInv'
    BY DEF OrderInv, MailInv, PendingInv
  <2> QED BY <2>2, <2>3, <2>4, HereNumbers DEF Dropped, HandsBut
\* It is run at once.
<1>DeliverRuns.
  ASSUME HomeInv, OrderInv, NEW t \in Schedulers, NEW x \in Events, IsHere(t, x.to), MaySendNow(x.to),
         Pushes(t, Frame(x.to, 0, 0)), handled' = Append(handled, x), mailbox' = mailbox,
         pendingEvents' = pendingEvents, sending' = sending, schedId' = schedId
  PROVE  Arrives(t, x, 0)
  <2> USE <1>DeliverRuns
  <2>1. x.to \in Actors /\ handled \in Seq(Events)
    BY DEF Events, HomeInv, EventsTypeOK
  <2>2. Frame(x.to, 0, 0) \in FrameRecords
    BY <2>1, SMTT(60) DEF Frame, FrameRecords, Flags
  <2>3. \A a, i : Started(a, i) => Started(a, i)'
    BY <2>2, StartedPush DEF HomeInv
  <2>4. \A u \in Threads : \A e : HeldBy(u, e)' => HeldBy(u, e) /\ sending'[u] = sending[u]
    BY DEF HeldBy
  <2>5. GrowsAt(0, x) /\ KeptAt(1) /\ KeptAt(2) /\ KeptAt(4)
    BY <2>1, <2>3, <2>4, HandledGrows, MailKept, PendingKept, HandsKept
  <2>6. MailInv' /\ PendingInv'
    BY DEF OrderInv, MailInv, PendingInv
  <2>7. NotIn(1, x.to) /\ NotIn(2, x.to)
    BY <2>1, <1>EmptyMailbox, <1>HereNotPending DEF MaySendNow
  <2>8. t = Dest(x.to)
    BY OnePlace DEF Dest
  <2> QED BY <2>4, <2>5, <2>6, <2>7, <2>8, HereNumbers, PlaceNumbers DEF Arrives, HandsBut
\* It is kept in the mailbox.
<1>DeliverMails.
  ASSUME HomeInv, OrderInv, NEW t \in Schedulers, NEW x \in Events, IsHere(t, x.to),
         mailbox' = [mailbox EXCEPT ![x.to] = Append(@, x)], stack' = stack, handled' = handled,
         pendingEvents' = pendingEvents, sending' = sending, schedId' = schedId
  PROVE  Arrives(t, x, 1)
  <2> USE <1>DeliverMails
  <2>1. x.to \in Actors /\ mailbox \in [Actors -> Seq(Events)] /\ EventsTypeOK
    BY DEF Events, HomeInv, EventsTypeOK
  <2>2. \A u \in Threads : \A e : HeldBy(u, e)' => HeldBy(u, e) /\ sending'[u] = sending[u]
    BY DEF HeldBy
  <2>3. GrowsAt(1, x) /\ KeptAt(0) /\ KeptAt(2) /\ KeptAt(4)
    BY <2>1, <2>2, HandledKept, <1>MailGrows, PendingKept, HandsKept
  <2>4. PendingInv'
    BY DEF OrderInv, PendingInv
  <2>5. MailInv'
    <3>1. ASSUME NEW b \in Actors, NEW i \in DOMAIN mailbox'[b] PROVE mailbox'[b][i].to = b
      <4>1. CASE b # x.to
        BY <2>1, <3>1, <4>1 DEF OrderInv, MailInv
      <4>2. CASE b = x.to
        <5>1. mailbox'[b] = Append(mailbox[b], x) /\ mailbox[b] \in Seq(Events)
          BY <2>1, <4>2
        <5>2. (i \in DOMAIN mailbox[b] /\ mailbox'[b][i] = mailbox[b][i]) \/ mailbox'[b][i] = x
          BY <3>1, <5>1, LastPlace, SMTT(60)
        <5> QED BY <4>2, <5>2 DEF OrderInv, MailInv
      <4> QED BY <4>1, <4>2
    <3> QED BY <3>1 DEF MailInv
  <2>6. NotIn(2, x.to)
    BY <2>1, <1>HereNotPending
  <2>7. t = Dest(x.to)
    BY OnePlace DEF Dest
  <2> QED BY <2>2, <2>3, <2>4, <2>5, <2>6, <2>7, HereNumbers, PlaceNumbers DEF Arrives, HandsBut
\* It waits for its receiver.
<1>DeliverPends.
  ASSUME HomeInv, OrderInv, NEW t, NEW x \in Events, schedId[x.to] = [dest |-> t, migrating |-> TRUE],
         KeepPending(t, x), stack' = stack, handled' = handled, sending' = sending, schedId' = schedId
  PROVE  Arrives(t, x, 2)
  <2> USE <1>DeliverPends
  <2>1. /\ x.to \in Actors /\ pendingEvents \in [Schedulers -> [Actors -> Seq(Events)]] /\ EventsTypeOK
        /\ schedId[x.to] \in [dest : Schedulers, migrating : BOOLEAN]
    BY DEF Events, HomeInv, EventsTypeOK, ActorsTypeOK
  <2>2. t \in Schedulers /\ t = Dest(x.to)
    <3>1. [dest |-> t, migrating |-> TRUE].dest = t
      OBVIOUS
    <3> QED BY <2>1, <3>1 DEF Dest
  <2>3. /\ pendingEvents' = [pendingEvents EXCEPT ![t][x.to] = Append(@, x)] /\ mailbox' = mailbox
    BY SMTT(60) DEF KeepPending
  <2>4. PendingElsewhere(t, x.to) /\ pendingEvents'[t][x.to] = Append(pendingEvents[t][x.to], x)
    BY <2>1, <2>2, <2>3, SMTT(60) DEF PendingElsewhere
  <2>5. \A u \in Threads : \A e : HeldBy(u, e)' => HeldBy(u, e) /\ sending'[u] = sending[u]
    BY DEF HeldBy
  <2>6. \A a, i : Started(a, i) => Started(a, i)'
    BY DEF Started
  <2>7. GrowsAt(2, x)
    BY <2>1, <2>2, <2>4, <1>PendingGrows
  <2>8. KeptAt(0) /\ KeptAt(1) /\ KeptAt(4)
    BY <2>3, <2>5, <2>6, HandledKept, MailKept, HandsKept
  <2>9. MailInv'
    BY <2>3 DEF OrderInv, MailInv
  <2>10. PendingInv'
    <3>1. ASSUME NEW u \in Schedulers, NEW b \in Actors
          PROVE  /\ \A i \in DOMAIN pendingEvents'[u][b] : pendingEvents'[u][b][i].to = b
                 /\ pendingEvents'[u][b] # <<>> => schedId'[b] = [dest |-> u, migrating |-> TRUE]
      <4>0. /\ \A i \in DOMAIN pendingEvents[u][b] : pendingEvents[u][b][i].to = b
            /\ pendingEvents[u][b] # <<>> => schedId[b] = [dest |-> u, migrating |-> TRUE]
        BY <3>1 DEF OrderInv, PendingInv
      <4>1. CASE u # t \/ b # x.to
        <5>1. pendingEvents'[u][b] = pendingEvents[u][b]
          BY <2>4, <3>1, <4>1 DEF PendingElsewhere
        <5> QED BY <4>0, <5>1
      <4>2. CASE u = t /\ b = x.to
        <5>1. pendingEvents'[u][b] = Append(pendingEvents[u][b], x) /\ pendingEvents[u][b] \in Seq(Events)
          BY <2>1, <2>2, <2>4, <4>2
        <5>2. \A i \in DOMAIN pendingEvents'[u][b] :
                (i \in DOMAIN pendingEvents[u][b] /\ pendingEvents'[u][b][i] = pendingEvents[u][b][i]) \/ pendingEvents'[u][b][i] = x
          BY <5>1, LastPlace, SMTT(60)
        <5>3. \A i \in DOMAIN pendingEvents'[u][b] : pendingEvents'[u][b][i].to = b
          BY <4>0, <4>2, <5>2
        <5>4. schedId'[b] = [dest |-> u, migrating |-> TRUE]
          BY <4>2
        <5> QED BY <5>3, <5>4
      <4> QED BY <4>1, <4>2
    <3> QED BY <3>1 DEF PendingInv
  <2> QED BY <2>2, <2>5, <2>7, <2>8, <2>9, <2>10, HereNumbers, PlaceNumbers DEF Arrives, HandsBut
\* It goes to another scheduler.
<1>DeliverSends.
  ASSUME HomeInv, OrderInv, NEW t \in Threads, NEW x \in Events, schedId[x.to].dest # t, sending[t] = Nothing,
         sending' = [sending EXCEPT ![t] = <<schedId[x.to].dest, EventMessage(x)>>],
         mailbox' = mailbox, stack' = stack, pendingEvents' = pendingEvents, handled' = handled, schedId' = schedId
  PROVE  Arrives(t, x, 4)
  <2> USE <1>DeliverSends
  <2>1. sending \in [Threads -> {Nothing} \cup (Schedulers \X WireMessages)]
    BY DEF HomeInv, EventsTypeOK
  <2>2. sending'[t] = <<Dest(x.to), EventMessage(x)>> /\ \A u \in Threads : u # t => sending'[u] = sending[u]
    BY <2>1 DEF Dest
  <2>3. sending'[t][1] = Dest(x.to) /\ sending'[t][2] = EventMessage(x) /\ EventMessage(x).event = x
    BY <2>2, SMTT(60) DEF EventMessage
  <2>4. HandsBut(t, x, 4)
    <3>1. ASSUME NEW u \in Threads, NEW e, HeldBy(u, e)'
          PROVE  (HeldBy(u, e) /\ sending'[u] = sending[u]) \/ (4 = 4 /\ u = t /\ e = x /\ sending'[u][1] = Dest(x.to))
      BY <2>2, <2>3, <3>1 DEF HeldBy
    <3> QED BY <3>1 DEF HandsBut
  <2>5. \A a, i : Started(a, i) => Started(a, i)'
    BY DEF Started
  <2>6. \A u \in Threads : \A e : HeldBy(u, e)' => HeldBy(u, e) \/ (u = t /\ e = x)
    BY <2>4 DEF HandsBut
  <2>7. GrowsAt(4, x) /\ KeptAt(0) /\ KeptAt(1) /\ KeptAt(2)
    BY <2>5, <2>6, <1>HandGrows, HandledKept, MailKept, PendingKept
  <2>8. MailInv' /\ PendingInv'
    BY DEF OrderInv, MailInv, PendingInv
  <2> QED BY <2>4, <2>7, <2>8, HereNumbers, PlaceNumbers DEF Arrives, Dest
<1> SUFFICES ASSUME HomeInv, OrderInv, NEW t \in Threads, NEW x \in Events, NEW now, Deliver(t, x, now),
                    sending[t] = Nothing, schedId' = schedId
             PROVE  Dropped(t, x) \/ \E q \in Here : Arrives(t, x, q)
  OBVIOUS
<1>1. CASE UNCHANGED <<mailbox, ready, batch, stack, pendingEvents, sending, handled>>
  <2>1. /\ mailbox' = mailbox /\ stack' = stack
        /\ pendingEvents' = pendingEvents /\ sending' = sending /\ handled' = handled
    BY <1>1, SMTT(60)
  <2> QED BY <2>1, <1>DeliverDrops
<1>2. CASE /\ t \in Schedulers /\ IsHere(t, x.to) /\ MaySendNow(x.to)
           /\ stack' = [stack EXCEPT ![t] = <<Frame(x.to, 0, 0)>> \o @]
           /\ handled' = Append(handled, x)
           /\ UNCHANGED <<mailbox, ready, batch>> /\ UNCHANGED <<pendingEvents, sending>>
  <2>1. mailbox' = mailbox /\ pendingEvents' = pendingEvents /\ sending' = sending
    BY <1>2, SMTT(60)
  <2>2. Pushes(t, Frame(x.to, 0, 0))
    BY <1>2 DEF Pushes
  <2> QED BY <1>2, <2>1, <2>2, <1>DeliverRuns, HereNumbers
<1>3. CASE /\ t \in Schedulers /\ IsHere(t, x.to)
           /\ AddToMailbox(t, x) /\ UNCHANGED <<stack, handled>> /\ UNCHANGED <<pendingEvents, sending>>
  <2>1. stack' = stack /\ handled' = handled /\ pendingEvents' = pendingEvents /\ sending' = sending
    BY <1>3, SMTT(60)
  <2>2. mailbox' = [mailbox EXCEPT ![x.to] = Append(@, x)]
    BY <1>3 DEF AddToMailbox
  <2> QED BY <1>3, <2>1, <2>2, <1>DeliverMails, HereNumbers
<1>4. CASE /\ schedId[x.to] = [dest |-> t, migrating |-> TRUE]
           /\ KeepPending(t, x)
           /\ UNCHANGED <<ready, batch, stack, sending, handled>>
  <2>1. stack' = stack /\ sending' = sending /\ handled' = handled
    BY <1>4, SMTT(60)
  <2> QED BY <1>4, <2>1, <1>DeliverPends, HereNumbers
<1>5. CASE /\ schedId[x.to].dest # t
           /\ sending' = [sending EXCEPT ![t] = <<schedId[x.to].dest, EventMessage(x)>>]
           /\ UNCHANGED <<mailbox, ready, batch, stack, pendingEvents, handled>>
  <2>1. mailbox' = mailbox /\ stack' = stack /\ pendingEvents' = pendingEvents /\ handled' = handled
    BY <1>5, SMTT(60)
  <2> QED BY <1>5, <2>1, <1>DeliverSends, HereNumbers
<1> QED BY <1>1, <1>2, <1>3, <1>4, <1>5 DEF Deliver

\* What hands hold after a delivery.
LEMMA HandsAfter ==
  ASSUME OrderInv, NEW t, NEW x, NEW q, HandsBut(t, x, q), schedId' = schedId, moves' = moves,
         q = 4 /\ Current(x) => /\ t # Dest(x.to)
                                /\ \/ t = Outside /\ x.from = Outside
                                   \/ t \in Schedulers /\ x.from \in Actors /\ IsHere(t, x.from)
  PROVE  HandInv'
<1>1. ASSUME NEW u \in Threads, NEW e \in Events, HeldBy(u, e)', Current(e)' PROVE HeldOK(u, e)'
  <2>1. Current(e) /\ Dest(e.to)' = Dest(e.to)
    BY <1>1 DEF Current, Dest
  <2>2. \A a : IsHere(u, a)' <=> IsHere(u, a)
    BY DEF IsHere
  <2>3. \/ HeldBy(u, e) /\ sending'[u] = sending[u]
        \/ q = 4 /\ u = t /\ e = x /\ sending'[u][1] = Dest(x.to)
    BY <1>1 DEF HandsBut
  <2>4. CASE HeldBy(u, e) /\ sending'[u] = sending[u]
    <3>1. HeldOK(u, e)
      BY <1>1, <2>1, <2>4 DEF OrderInv, HandInv
    <3> QED BY <2>1, <2>2, <2>4, <3>1 DEF HeldOK
  <2>5. CASE q = 4 /\ u = t /\ e = x /\ sending'[u][1] = Dest(x.to)
    BY <2>1, <2>2, <2>5 DEF HeldOK
  <2> QED BY <2>3, <2>4, <2>5
<1> QED BY <1>1 DEF HandInv

\* The queues stay or lose their first message, and so do actors.
LEMMA QueuesAfter ==
  ASSUME HomeInv, OrderInv, QueuesShrink, schedId' = schedId, moves' = moves
  PROVE  QueueInv'
<1>1. \A e : (Current(e)' <=> Current(e)) /\ Dest(e.to)' = Dest(e.to)
  BY DEF Current, Dest
<1>2. \A s, a : IsHere(s, a)' <=> IsHere(s, a)
  BY DEF IsHere
<1> QED BY <1>1, <1>2, QueueInvStays DEF OrderInv, HomeInv

\* An event is sent.
LEMMA NewEventOrder ==
  \A t \in Threads, x \in Events : \A now :
    /\ HomeInv /\ HomeInv' /\ OrderInv /\ Deliver(t, x, now)
    /\ sending[t] = Nothing /\ schedId' = schedId /\ moves' = moves /\ unborn' = unborn /\ inbound' = inbound
    /\ sent' = sent + 1 /\ x.n = sent + 1 /\ x.moves = moves[x.to] /\ x.to \notin unborn /\ x.from \notin unborn
    /\ \/ t = Outside /\ x.from = Outside
       \/ t \in Schedulers /\ x.from \in Actors /\ IsHere(t, x.from)
  => OrderInv'
\* No event of an actor to one that is here is on its way.
<1>NotOnWire.
  ASSUME HomeInv, OrderInv, NEW t \in Schedulers, NEW x \in Events, NEW d \in Events,
         t = Dest(x.to), x.from \in Actors, IsHere(t, x.from), Peers(x, d)
  PROVE  ~In(3, d) /\ ~In(4, d)
  <2> USE <1>NotOnWire
  <2>1. Current(d) /\ d.from = x.from /\ d.to = x.to
    BY DEF Peers
  <2>2. ASSUME In(3, d) PROVE FALSE
    <3>1. PICK u \in Schedulers : \E i \in DOMAIN inbound[u] : QueuedAt(u, i, d)
      BY <2>2, PlaceIs
    <3>2. PICK i \in DOMAIN inbound[u] : QueuedAt(u, i, d)
      BY <3>1
    <3>3. QueuedOK(u, i, d)
      BY <2>1, <3>2 DEF OrderInv, QueueInv
    <3> QED BY <2>1, <3>3 DEF QueuedOK
  <2>3. ASSUME In(4, d) PROVE FALSE
    <3>1. PICK u \in Threads : HeldBy(u, d)
      BY <2>3, PlaceIs
    <3>2. HeldOK(u, d)
      BY <2>1, <3>1 DEF OrderInv, HandInv
    <3>3. u # t /\ d.from # Outside /\ IsHere(u, d.from)
      BY <2>1, <3>2, SchedulerAssumption DEF HeldOK
    <3> QED BY <2>1, <3>3, OnePlace
  <2> QED BY <2>2, <2>3
<1> SUFFICES ASSUME HomeInv, HomeInv', OrderInv, NEW t \in Threads, NEW x \in Events, NEW now, Deliver(t, x, now),
                    sending[t] = Nothing, schedId' = schedId, moves' = moves, unborn' = unborn, inbound' = inbound,
                    sent' = sent + 1, x.n = sent + 1, x.moves = moves[x.to], x.to \notin unborn, x.from \notin unborn,
                    \/ t = Outside /\ x.from = Outside
                    \/ t \in Schedulers /\ x.from \in Actors /\ IsHere(t, x.from)
             PROVE  OrderInv'
  OBVIOUS
<1>1. Dropped(t, x) \/ \E q \in Here : Arrives(t, x, q)
  BY DeliverOrder
<1>2. QueueInv' /\ KeptAt(3)
  <2>1. QueuesShrink
    BY DEF QueuesShrink
  <2> QED BY <2>1, QueuesAfter, QueuesKept
<1>3. sent <= sent' /\ \A a \in Actors : moves[a] <= moves'[a]
  <2>1. \A n \in Nat : n <= n /\ n <= n + 1
    BY SMTT(60)
  <2> QED BY <2>1 DEF HomeInv, ActorsTypeOK
<1>4. CASE Dropped(t, x)
  <2>1. Stays
    BY <1>2, <1>4, AllKept, HereNumbers DEF Dropped
  <2>2. FlowInv'
    BY <1>3, <2>1, FlowStays DEF OrderInv, HomeInv
  <2>3. HandInv'
    BY <1>4, HandsAfter, PlaceNumbers DEF Dropped
  <2> QED BY <1>2, <1>4, <2>2, <2>3 DEF OrderInv, Dropped
<1>5. ASSUME NEW q \in Here, Arrives(t, x, q) PROVE OrderInv'
  <2>1. q \in 0..4 /\ GrowsAt(q, x) /\ \A r \in 0..4 : r # q => KeptAt(r)
    BY <1>2, <1>5, HereNumbers DEF Arrives
  <2>2. InKept(x, q) /\ BefKept(x, q)
    BY <2>1, OneGrows
  <2>3. HandInv'
    BY <1>5, HandsAfter DEF Arrives
  <2>4. ASSUME NEW r \in 0..4, NEW d \in Events, Peers(x, d), q < r PROVE ~In(r, d)
    <3>1. q # 4
      <4>1. \A i \in 0..4 : ~(4 < i)
        BY SMTT(60)
      <4> QED BY <2>4, <4>1
    <3>2. t \in Schedulers /\ t = Dest(x.to) /\ x.from \in Actors /\ IsHere(t, x.from)
      BY <1>5, <3>1, SchedulerAssumption DEF Arrives
    <3>3. ~In(3, d) /\ ~In(4, d)
      BY <2>4, <3>2, <1>NotOnWire
    <3>4. ~(q < 0) /\ (q < 1 => q = 0) /\ (q < 2 => q = 0 \/ q = 1)
      <4>1. \A i \in 0..4 : ~(i < 0) /\ (i < 1 => i = 0) /\ (i < 2 => i = 0 \/ i = 1)
        BY SMTT(60)
      <4> QED BY <2>1, <4>1
    <3>5. d.to = x.to
      BY <2>4 DEF Peers
    <3>6. (q = 0 => ~In(1, d)) /\ (q = 0 \/ q = 1 => ~In(2, d))
      BY <1>5, <3>5 DEF Arrives, NotIn
    <3>7. r = 0 \/ r = 1 \/ r = 2 \/ r = 3 \/ r = 4
      BY PlaceNumbers
    <3> QED BY <2>4, <3>3, <3>4, <3>6, <3>7
  <2>5. x.from # "start"
    BY SchedulerAssumption
  <2>6. q = 0 => \A d \in Events : d.to = x.to => ~In(1, d)
    BY <1>5 DEF Arrives, NotIn
  <2>7. FlowInv /\ ActorsTypeOK /\ unborn' \subseteq unborn /\ x.to \notin unborn' /\ x.from \notin unborn'
    BY DEF OrderInv, HomeInv
  <2>8. FlowInv'
    BY <2>1, <2>2, <2>4, <2>5, <2>6, <2>7, FlowGrows
  <2> QED BY <1>2, <1>5, <2>3, <2>8 DEF OrderInv, Arrives
<1> QED BY <1>1, <1>4, <1>5

LEMMA SendOrder ==
  ASSUME HomeInv, HomeInv', OrderInv, NEW t \in Threads, NEW a \in Actors, NEW now \in BOOLEAN, Send(t, a, now)
  PROVE  OrderInv'
<1> DEFINE f == IF t = Outside THEN t ELSE Head(stack[t]).actor
           e == ActorEvent(f, a, sent + 1)
<1>1. /\ schedId' = schedId /\ unborn' = unborn /\ moves' = moves
      /\ inbound' = inbound /\ sent' = sent + 1 /\ a \notin unborn
  BY SMTT(60) DEF Send
<1>2. /\ sending[t] = Nothing /\ f \in Actors \cup {Outside, "start"} /\ f \notin unborn
      /\ (t = Outside /\ f = Outside) \/ (t \in Schedulers /\ f \in Actors /\ IsHere(t, f))
  <2>0. unborn \subseteq Actors /\ alive \cap unborn = {}
    BY DEF HomeInv, ActorsTypeOK
  <2>1. CASE t = Outside
    BY <2>0, <2>1, SchedulerAssumption DEF Send
  <2>2. CASE t # Outside
    <3>1. t \in Schedulers /\ stack[t] # <<>> /\ sending[t] = Nothing
      BY <2>2 DEF Send, InHandler, Threads
    <3>2. f \in Actors /\ f \in alive /\ IsHere(t, f)
      BY <2>2, <3>1, RunnerIs
    <3> QED BY <2>0, <2>2, <3>1, <3>2
  <2> QED BY <2>1, <2>2
<1>3. sent \in Nat /\ moves[a] \in Nat /\ sent + 1 \in Nat
  <2>1. sent \in Nat /\ moves[a] \in Nat
    BY DEF HomeInv, ActorsTypeOK
  <2> QED BY <2>1, SMTT(60)
<1>4. Deliver(t, e, now)
  BY DEF Send
<1> HIDE DEF f
<1>5. e \in Events /\ e.n = sent + 1 /\ e.moves = moves[e.to] /\ e.to = a /\ e.from = f
  BY <1>2, <1>3, SMTT(60) DEF ActorEvent, Events
<1> HIDE DEF e
<1>6. PICK x \in Events : x = e
  BY <1>5
<1>7. /\ x.n = sent + 1 /\ x.moves = moves[x.to] /\ x.to \notin unborn /\ x.from \notin unborn
      /\ (t = Outside /\ x.from = Outside) \/ (t \in Schedulers /\ x.from \in Actors /\ IsHere(t, x.from))
      /\ Deliver(t, x, now)
  BY <1>1, <1>2, <1>4, <1>5, <1>6
<1> QED BY <1>1, <1>2, <1>7, NewEventOrder

LEMMA RunTimeoutOrder ==
  ASSUME HomeInv, HomeInv', OrderInv, NEW s \in Schedulers, NEW a \in Actors, RunTimeout(s, a)
  PROVE  OrderInv'
<1> DEFINE e == ActorEvent(a, a, sent + 1)
<1>1. /\ schedId' = schedId /\ unborn' = unborn /\ moves' = moves
      /\ inbound' = inbound /\ sent' = sent + 1
  BY SMTT(60) DEF RunTimeout
<1>2. sending[s] = Nothing /\ Deliver(s, e, TRUE) /\ a \in timeouts[s]
  BY DEF RunTimeout, Idle
<1>3. a \in alive /\ IsHere(s, a) /\ a \notin unborn
  BY <1>2 DEF HomeInv, TimerInv, ActorsTypeOK
<1>4. sent \in Nat /\ moves[a] \in Nat /\ sent + 1 \in Nat
  <2>1. sent \in Nat /\ moves[a] \in Nat
    BY DEF HomeInv, ActorsTypeOK
  <2> QED BY <2>1, SMTT(60)
<1>5. e \in Events /\ e.n = sent + 1 /\ e.moves = moves[e.to] /\ e.to = a /\ e.from = a
  BY <1>4, SMTT(60) DEF ActorEvent, Events
<1> HIDE DEF e
<1>6. PICK x \in Events : x = e
  BY <1>5
<1>7. /\ x.n = sent + 1 /\ x.moves = moves[x.to] /\ x.to \notin unborn /\ x.from \notin unborn
      /\ x.from \in Actors /\ IsHere(s, x.from) /\ Deliver(s, x, TRUE) /\ s \in Threads
  BY <1>2, <1>3, <1>5, <1>6 DEF Threads
<1> QED BY <1>1, <1>2, <1>7, NewEventOrder

\* An event is emitted anew where it was received.
LEMMA ReceiveEventOrder ==
  ASSUME HomeInv, HomeInv', OrderInv, NEW s \in Schedulers, Receive(s), Head(inbound[s]).kind = "event"
  PROVE  OrderInv'
<1>a. /\ sending[s] = Nothing /\ inbound[s] # <<>> /\ inbound' = [inbound EXCEPT ![s] = Tail(@)]
      /\ Deliver(s, Head(inbound[s]).event, TRUE) /\ schedId' = schedId
      /\ UNCHANGED <<alive, unborn, moves, stops, timeouts, sent>>
  BY DEF Receive, Idle
<1>b. moves' = moves /\ unborn' = unborn /\ sent' = sent
  BY <1>a, SMTT(60)
<1> USE <1>a, <1>b
<1>1. /\ Head(inbound[s]) \in WireMessages /\ 1 \in DOMAIN inbound[s] /\ Head(inbound[s]) = inbound[s][1]
      /\ inbound'[s] = Tail(inbound[s])
      /\ \A u \in Schedulers : u # s => inbound'[u] = inbound[u]
  BY FirstMessage DEF HomeInv
<1>2. PICK x \in Events : x = Head(inbound[s]).event
  BY <1>1, MessageIs
<1>3. QueuedAt(s, 1, x) /\ In(3, x)
  <2>1. QueuedAt(s, 1, x)
    BY <1>1, <1>2 DEF QueuedAt
  <2> QED BY <1>1, <2>1, PlaceIs
<1>4. Dropped(s, x) \/ \E q \in Here : Arrives(s, x, q)
  BY <1>2, DeliverOrder DEF Threads
<1>5. /\ \A i : \A e : QueuedAt(s, i, e)' => i \in Nat /\ i + 1 # 1 /\ QueuedAt(s, i + 1, e) /\ i + 1 \in DOMAIN inbound[s]
      /\ \A u \in Schedulers : u # s => \A i, e : QueuedAt(u, i, e)' <=> QueuedAt(u, i, e)
      /\ KeptAt(3)
  BY <1>1, QueueTaken DEF HomeInv
<1>6. QueueInv'
  <2>1. QueuesShrink
    BY <1>1 DEF QueuesShrink
  <2> QED BY <2>1, QueuesAfter
<1>7. sent <= sent' /\ \A a \in Actors : moves[a] <= moves'[a]
  <2>1. \A n \in Nat : n <= n
    BY SMTT(60)
  <2> QED BY <2>1 DEF HomeInv, ActorsTypeOK
<1>8. CASE Dropped(s, x)
  <2>1. Stays
    BY <1>5, <1>8, AllKept, HereNumbers DEF Dropped
  <2>2. FlowInv'
    BY <1>7, <2>1, FlowStays DEF OrderInv, HomeInv
  <2>3. HandInv'
    BY <1>8, HandsAfter, PlaceNumbers DEF Dropped
  <2> QED BY <1>6, <1>8, <2>2, <2>3 DEF OrderInv, Dropped
<1>9. ASSUME NEW q \in Here, Arrives(s, x, q) PROVE OrderInv'
  <2>1. q \in 0..4 /\ GrowsAt(q, x) /\ \A r \in 0..4 : r # q => KeptAt(r)
    BY <1>5, <1>9, HereNumbers DEF Arrives
  <2>2. InKept(x, q) /\ BefKept(x, q)
    BY <2>1, OneGrows
  <2>3. Current(x) => s = Dest(x.to)
    BY <1>1, <1>3 DEF OrderInv, QueueInv, QueuedOK
  <2>4. HandInv'
    BY <1>9, <2>3, HandsAfter DEF Arrives
  <2>5. ASSUME Current(x) PROVE q < 3 /\ Passes(x, 3, q)
    <3>1. q # 4
      BY <1>9, <2>3, <2>5 DEF Arrives
    <3>2. q < 3
      <4>1. 0 < 3 /\ 1 < 3 /\ 2 < 3
        BY SMTT(60)
      <4> QED BY <3>1, <4>1, HereNumbers
    <3>3. ASSUME NEW d \in Events, Peers(x, d), In(3, d)' PROVE 3 # 4 /\ Bef(3, x, d)
      <4>1. Current(d) /\ d.to = x.to
        BY <3>3 DEF Peers
      <4>2. PICK u \in Schedulers : \E i \in DOMAIN inbound'[u] : QueuedAt(u, i, d)'
        BY <3>3, PlaceWillBe
      <4>3. PICK i \in DOMAIN inbound'[u] : QueuedAt(u, i, d)'
        BY <4>2
      <4>4. u = s
        <5>1. ASSUME u # s PROVE FALSE
          <6>1. QueuedAt(u, i, d) /\ i \in DOMAIN inbound[u]
            <7>1. QueuedAt(u, i, d)
              BY <1>5, <4>3, <5>1
            <7> QED BY <7>1 DEF QueuedAt
          <6>2. QueuedOK(u, i, d)
            BY <4>1, <6>1 DEF OrderInv, QueueInv
          <6> QED BY <2>3, <2>5, <4>1, <5>1, <6>2 DEF QueuedOK
        <5> QED BY <5>1
      <4>5. i \in Nat /\ i + 1 # 1 /\ QueuedAt(s, i + 1, d) /\ i + 1 \in DOMAIN inbound[s]
        BY <1>5, <4>3, <4>4
      <4>6. 1 < i + 1
        <5>1. \A k \in Nat : k + 1 # 1 => 1 < k + 1
          BY SMTT(60)
        <5> QED BY <4>5, <5>1
      <4>7. Bef(3, x, d)
        BY <1>1, <1>3, <4>5, <4>6, BeforeIs
      <4> QED BY <4>7, PlaceNumbers
    <3>4. ASSUME NEW r \in 0..4, NEW d \in Events, Peers(x, d), q < r, r < 3 PROVE ~In(r, d)
      <4>1. (r = 1 /\ q = 0) \/ (r = 2 /\ (q = 0 \/ q = 1))
        <5>1. \A i, j \in 0..4 : i < j /\ j < 3 => (j = 1 /\ i = 0) \/ (j = 2 /\ (i = 0 \/ i = 1))
          BY SMTT(60)
        <5> QED BY <2>1, <3>4, <5>1
      <4>2. d.to = x.to
        BY <3>4 DEF Peers
      <4>3. (q = 0 => ~In(1, d)) /\ (q = 0 \/ q = 1 => ~In(2, d))
        BY <1>9, <4>2 DEF Arrives, NotIn
      <4> QED BY <4>1, <4>3
    <3> QED BY <3>2, <3>3, <3>4 DEF Passes
  <2>6. q = 0 => \A d \in Events : d.to = x.to => ~In(1, d)
    BY <1>9 DEF Arrives, NotIn
  <2>7. FlowInv /\ ActorsTypeOK /\ ActorsTypeOK' /\ 3 \in 0..4 /\ 3 # 0 /\ 3 # 1
    BY PlaceNumbers DEF OrderInv, HomeInv
  <2>8. FlowInv'
    BY <1>3, <2>1, <2>2, <2>5, <2>6, <2>7, FlowMoves
  <2> QED BY <1>6, <1>9, <2>4, <2>8 DEF OrderInv, Arrives
<1> QED BY <1>4, <1>8, <1>9

----------------------------------------------------------------------------
(* Events are run in order.                                                *)

LEMMA NextOrder == HomeInv /\ OrderInv /\ [SchedulerNext]_schedulerVars => OrderInv'
<1> SUFFICES ASSUME HomeInv, OrderInv, [SchedulerNext]_schedulerVars PROVE OrderInv'
  OBVIOUS
<1>0. HomeInv'
  BY NextHome
<1>1. CASE UNCHANGED schedulerVars
  <2>1. /\ schedId' = schedId /\ unborn' = unborn /\ mailbox' = mailbox /\ moves' = moves /\ stack' = stack
        /\ pendingEvents' = pendingEvents /\ inbound' = inbound /\ sending' = sending /\ sent' = sent /\ handled' = handled
    BY <1>1, SMTT(60) DEF schedulerVars, schedulerState, actorVars, listVars, eventVars
  <2>2. \A a, i : Started(a, i) => Started(a, i)'
    BY <2>1 DEF Started
  <2> QED BY <1>0, <2>1, <2>2, OrderQuiet
<1>2. CASE SchedulerNext
  <2>1. CASE Put(Outside)
    BY <1>0, <2>1, PutOrder DEF Threads
  <2>2. ASSUME NEW t \in Threads, NEW a \in Actors, NEW now \in BOOLEAN, Send(t, a, now) PROVE OrderInv'
    BY <1>0, <2>2, SendOrder
  <2>3. ASSUME NEW s \in Schedulers, SchedulerStep(s) PROVE OrderInv'
    BY <1>0, <2>3, HandlerEndsOrder, ListOrder, FlushMailboxOrder, PutOrder DEF SchedulerStep, Threads
  <2>4. ASSUME NEW s \in Schedulers, Receive(s) PROVE OrderInv'
    <3>1. CASE Head(inbound[s]).kind = "event"
      BY <1>0, <2>4, <3>1, ReceiveEventOrder
    <3>2. CASE Head(inbound[s]).kind = "actor"
      BY <1>0, <2>4, <3>2, ReceiveActorOrder
    <3> QED BY <2>4, <3>1, <3>2 DEF Receive
  <2>5. ASSUME NEW s \in Schedulers, StopActor(s) \/ SetTimeout(s) PROVE OrderInv'
    BY <1>0, <2>5, StopActorOrder, ListOrder
  <2>6. ASSUME NEW s \in Schedulers, NEW d \in Schedulers, MigrateActor(s, d) PROVE OrderInv'
    BY <1>0, <2>6, MigrateActorOrder
  <2>7. ASSUME NEW s \in Schedulers, NEW a \in Actors, RunTimeout(s, a) PROVE OrderInv'
    BY <1>0, <2>7, RunTimeoutOrder
  <2>8. ASSUME NEW s \in Schedulers, NEW a \in Actors, NEW d \in Schedulers, RegisterActor(s, a, d) PROVE OrderInv'
    BY <1>0, <2>8, RegisterActorOrder
  <2> QED BY <1>2, <2>1, <2>2, <2>3, <2>4, <2>5, <2>6, <2>7, <2>8 DEF SchedulerNext
<1> QED BY <1>1, <1>2

\* OrderKept (ActorScheduler.tla) for any number of schedulers, actors, events,
\* migrations and stops: whichever way the events of one sender to one receiver
\* take, run at once, through the mailbox, a queue or pending_events_, they are
\* run in the order in which they were sent unless the receiver has migrated
\* since, and Start is run first.
THEOREM OrderKeptAlways == SchedulerSpec => []OrderKept
BY OrderInvSays, InitHome, NextHome, InitOrder, NextOrder, PTL DEF SchedulerSpec
=============================================================================
