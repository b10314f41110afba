------------------------- MODULE SessionPool_proofs -------------------------
(* Proofs about SessionPool, for any number of sessions, of queries, of    *)
(* session generations and of SessionMultiProxy generations.               *)
(*                                                                         *)
(* First the steps of the SessionProxies, of their sessions and of the     *)
(* key's listeners, then those of the SessionMultiProxy, and at last what  *)
(* the invariant says of the system.                                       *)
(*                                                                         *)
(* Each query is in one place (OnePlace): the inbox of SessionMultiProxy,  *)
(* a proxy's mailbox, its pending queries, a session, or done.  A step is  *)
(* then a transfer of a set of queries from one place to another, and the  *)
(* count of a proxy changes by what the transfer brings to the places      *)
(* under it and takes from them (Balanced).  So the lemmas below show, for *)
(* each step, which transfer it is.                                        *)
EXTENDS SessionPool, TLAPS

\* Leaves that name no prover are for Zenon.
USE ZenonT(60)

Messages ==
  ({"send"} \X Queries) \cup ({"main"} \X BOOLEAN) \cup {<<"hangup">>, <<"header">>}

Phases == {"created", "adding", "running"}
QuerySets == SUBSET Queries
Mailboxes == Seq(Messages)
Numbers == 1..MaxSession
NumbersOrNone == 0..MaxSession
ProxyRecords ==
  [phase : Phases, auth : KeyStates, main : BOOLEAN, destroy : BOOLEAN, pending : QuerySets,
   mailbox : Mailboxes, session : NumbersOrNone, generation : Numbers, updates : Nat]

QueryCounts == UNION {[0..n - 1 -> Int] : n \in 1..MaxCount}
MultiRecords ==
  [alive : BOOLEAN, generation : Generations, count : 1..MaxCount, main : BOOLEAN,
   destroy : BOOLEAN, queryCount : QueryCounts]

PoolTypeOK ==
  /\ key \in KeyStates /\ notifying \in Nat /\ listeners \subseteq Proxies
  /\ stopFlag \in BOOLEAN /\ inbox \subseteq Queries /\ done \subseteq Queries
  /\ multi \in MultiRecords /\ multi.queryCount \in [0..multi.count - 1 -> Int]
  /\ finished \in [Proxies -> Nat]
  /\ proxies \in [Proxies -> ProxyRecords \cup {Absent, Dead}]
  /\ held \in [Sessions -> SUBSET Queries]
  /\ closing \subseteq Sessions /\ failures \subseteq Sessions
  /\ cond \in ConditionType /\ cond.counts # {}

\* What a proxy knows of the key is the key, or it will hear of it; and no query
\* waits in a proxy that knows the key to be authorized.
KeyHeard ==
  \A p \in Proxies : Alive(p) =>
    /\ proxies[p].phase # "running" => proxies[p].pending = {}
    /\ proxies[p].phase = "adding" => proxies[p].updates > 0
    /\ proxies[p].phase = "running" =>
         /\ p \in listeners
         /\ proxies[p].auth = key \/ proxies[p].updates > 0 \/ notifying > 0
    /\ proxies[p].auth = "OK" => proxies[p].pending = {}

\* The queries in a mailbox, and whether there is a hangup in it.
Sent(mb) == {q \in Queries : \E k \in DOMAIN mb : mb[k] = <<"send", q>>}
HungUp(mb) == \E k \in DOMAIN mb : mb[k] = <<"hangup">>

\* The proxies in use are alive and not told to end; those to come do not exist.
Unused(p) ==
  proxies[p] = Absent /\ finished[p] = 0 /\ \A n \in 1..MaxSession : <<p, n>> \notin closing
GenerationsOK ==
  /\ multi.generation + cond.recreate <= MaxGeneration
  /\ \A p \in Current : Alive(p) /\ ~HungUp(proxies[p].mailbox)
  /\ \A p \in Proxies :
       p[1] > multi.generation \/ (p[1] = multi.generation /\ p[2] >= multi.count) => Unused(p)

\* Nothing follows a hangup, and no query is twice in a mailbox.
MailOK(mb) ==
  /\ \A k \in DOMAIN mb : mb[k] = <<"hangup">> => k = Len(mb)
  /\ \A q \in Queries, j, k \in DOMAIN mb : mb[j] = <<"send", q>> /\ mb[k] = <<"send", q>> => j = k
MailboxesOK == \A p \in Proxies : Alive(p) => MailOK(proxies[p].mailbox)

OnePlace == \A q \in Queries : \E x \in Places : \A y \in Places : q \in Contents(y) <=> x = y
HolderExists == \A s \in Sessions : held[s] # {} => Exists(s)

\* The queries that the SessionMultiProxy has sent to p and that have not ended.
PlacesUnder(p) == {<<"mailbox", p>>, <<"pending", p>>} \cup ({"held"} \X SessionsOf(p))
Under(p) == {q \in Queries : \E x \in PlacesUnder(p) : q \in Contents(x)}
CountsUnder ==
  \A p \in Current : multi.queryCount[p[2]] = Cardinality(Under(p)) + finished[p]

PoolInv ==
  /\ PoolTypeOK /\ GenerationsOK /\ MailboxesOK /\ OnePlace /\ HolderExists /\ CountsUnder

----------------------------------------------------------------------------
\* Messages.

LEMMA MessagesDiffer ==
  /\ \A q : <<"send", q>> # <<"hangup">> /\ <<"send", q>> # <<"header">>
  /\ \A q, b : <<"send", q>> # <<"main", b>>
  /\ \A b : <<"main", b>> # <<"hangup">>
  /\ <<"header">> # <<"hangup">>
  /\ \A q, r : <<"send", q>> = <<"send", r>> => q = r
  BY SMTT(60)

LEMMA MessageKinds ==
  ASSUME NEW m \in Messages
  PROVE  /\ m[1] = "send" => m[2] \in Queries /\ m = <<"send", m[2]>>
         /\ m[1] = "main" => m[2] \in BOOLEAN /\ m = <<"main", m[2]>>
         /\ m[1] = "hangup" => m = <<"hangup">>
         /\ m[1] = "header" => m = <<"header">>
<1>1. CASE m \in {"send"} \X Queries
  BY <1>1, SMTT(60)
<1>2. CASE m \in {"main"} \X BOOLEAN
  BY <1>2, SMTT(60)
<1>3. CASE m \in {<<"hangup">>, <<"header">>}
  BY <1>3, SMTT(60)
<1> QED BY <1>1, <1>2, <1>3 DEF Messages

\* A message is put into a mailbox.
Posted(mb, m, nb) ==
  /\ nb \in Seq(Messages)
  /\ MailOK(mb) /\ ~HungUp(mb) /\ (\A q \in Sent(mb) : m # <<"send", q>>) => MailOK(nb)
  /\ Sent(nb) = Sent(mb) \cup {q \in Queries : m = <<"send", q>>}
  /\ HungUp(nb) => HungUp(mb) \/ m = <<"hangup">>

LEMMA MailPosted ==
  ASSUME NEW mb \in Seq(Messages), NEW m \in Messages, NEW nb, nb = Append(mb, m)
  PROVE  Posted(mb, m, nb)
<1>1. /\ nb \in Seq(Messages) /\ Len(mb) \in Nat /\ DOMAIN mb = 1..Len(mb)
      /\ DOMAIN nb = 1..(Len(mb) + 1) /\ nb[Len(mb) + 1] = m /\ Len(nb) = Len(mb) + 1
      /\ \A i \in 1..Len(mb) : nb[i] = mb[i]
  BY SMTT(30)
<1>2. /\ \A i \in DOMAIN nb : i = Len(nb) \/ (i \in DOMAIN mb /\ nb[i] = mb[i])
      /\ \A i \in DOMAIN mb : i \in DOMAIN nb /\ nb[i] = mb[i]
      /\ Len(nb) \in DOMAIN nb /\ nb[Len(nb)] = m
  BY <1>1, SMTT(30)
<1>3. MailOK(mb) /\ ~HungUp(mb) /\ (\A q \in Sent(mb) : m # <<"send", q>>) => MailOK(nb)
  <2> SUFFICES ASSUME MailOK(mb), ~HungUp(mb), \A q \in Sent(mb) : m # <<"send", q>>
               PROVE  MailOK(nb)
    OBVIOUS
  <2>1. \A k \in DOMAIN nb : nb[k] = <<"hangup">> => k = Len(nb)
    BY <1>2 DEF HungUp
  <2>2. ASSUME NEW q \in Queries, NEW j \in DOMAIN nb, NEW k \in DOMAIN nb,
               nb[j] = <<"send", q>>, nb[k] = <<"send", q>>
        PROVE  j = k
    BY <1>2, <2>2 DEF Sent, MailOK
  <2> QED BY <2>1, <2>2 DEF MailOK
<1>4. Sent(nb) = Sent(mb) \cup {q \in Queries : m = <<"send", q>>}
  BY <1>2 DEF Sent
<1>5. HungUp(nb) => HungUp(mb) \/ m = <<"hangup">>
  BY <1>2 DEF HungUp
<1> QED BY <1>1, <1>3, <1>4, <1>5 DEF Posted

\* The first message of a mailbox is handled.
Handles(mb, nb) ==
  /\ nb \in Seq(Messages) /\ Head(mb) \in Messages /\ MailOK(nb)
  /\ Sent(nb) = Sent(mb) \ {q \in Queries : Head(mb) = <<"send", q>>}
  /\ \A q \in Queries : Head(mb) = <<"send", q>> => q \in Sent(mb)
  /\ HungUp(nb) => HungUp(mb)
  /\ Head(mb) = <<"hangup">> => HungUp(mb) /\ Sent(mb) = {}

LEMMA MailHandled ==
  ASSUME NEW mb \in Seq(Messages), mb # <<>>, MailOK(mb), NEW nb, nb = Tail(mb)
  PROVE  Handles(mb, nb)
<1>1. /\ nb \in Seq(Messages) /\ Len(mb) \in Nat /\ DOMAIN mb = 1..Len(mb) /\ Len(mb) >= 1
      /\ DOMAIN nb = 1..(Len(mb) - 1) /\ Head(mb) = mb[1] /\ Head(mb) \in Messages
      /\ Len(nb) = Len(mb) - 1
      /\ \A i \in 1..(Len(mb) - 1) : nb[i] = mb[i + 1]
  BY SMTT(30)
<1>2. /\ \A i \in DOMAIN nb : i + 1 \in DOMAIN mb /\ nb[i] = mb[i + 1] /\ i + 1 # 1
      /\ \A i \in DOMAIN mb : i = 1 \/ (i - 1 \in DOMAIN nb /\ nb[i - 1] = mb[i])
      /\ 1 \in DOMAIN mb
      /\ \A i, j \in DOMAIN nb : i + 1 = j + 1 => i = j
      /\ \A i \in DOMAIN nb : i + 1 = Len(mb) => i = Len(nb)
  <2>1. \A i \in DOMAIN mb : i = 1 \/ (i - 1 \in DOMAIN nb /\ (i - 1) + 1 = i)
    BY <1>1, SMTT(30)
  <2>2. \A i \in DOMAIN mb : i = 1 \/ (i - 1 \in DOMAIN nb /\ nb[i - 1] = mb[i])
    BY <1>1, <2>1
  <2> QED BY <1>1, <2>2, SMTT(30)
<1>3. MailOK(nb)
  <2>1. ASSUME NEW k \in DOMAIN nb, nb[k] = <<"hangup">>
        PROVE  k = Len(nb)
    <3>1. k + 1 \in DOMAIN mb /\ mb[k + 1] = <<"hangup">>
      BY <1>2, <2>1
    <3>2. k + 1 = Len(mb)
      BY <3>1 DEF MailOK
    <3> QED BY <1>2, <3>2
  <2>2. ASSUME NEW q \in Queries, NEW j \in DOMAIN nb, NEW k \in DOMAIN nb,
               nb[j] = <<"send", q>>, nb[k] = <<"send", q>>
        PROVE  j = k
    <3>1. /\ j + 1 \in DOMAIN mb /\ mb[j + 1] = <<"send", q>>
          /\ k + 1 \in DOMAIN mb /\ mb[k + 1] = <<"send", q>>
      BY <1>2, <2>2
    <3>2. j + 1 = k + 1
      BY <3>1 DEF MailOK
    <3> QED BY <1>2, <3>2
  <2> QED BY <2>1, <2>2 DEF MailOK
<1>4. Sent(nb) = Sent(mb) \ {q \in Queries : Head(mb) = <<"send", q>>}
  <2>1. ASSUME NEW q \in Sent(nb) PROVE q \in Sent(mb) /\ Head(mb) # <<"send", q>>
    <3>1. PICK k \in DOMAIN nb : nb[k] = <<"send", q>> /\ q \in Queries
      BY DEF Sent
    <3>2. k + 1 \in DOMAIN mb /\ mb[k + 1] = <<"send", q>> /\ k + 1 # 1
      BY <1>2, <3>1
    <3>3. mb[1] # <<"send", q>>
      BY <1>2, <3>1, <3>2 DEF MailOK
    <3> QED BY <1>1, <3>1, <3>2, <3>3 DEF Sent
  <2>2. ASSUME NEW q \in Sent(mb), Head(mb) # <<"send", q>> PROVE q \in Sent(nb)
    <3>1. PICK k \in DOMAIN mb : mb[k] = <<"send", q>> /\ q \in Queries
      BY DEF Sent
    <3>2. k # 1
      BY <1>1, <2>2, <3>1
    <3>3. k - 1 \in DOMAIN nb /\ nb[k - 1] = <<"send", q>>
      BY <1>2, <3>1, <3>2
    <3> QED BY <3>1, <3>3 DEF Sent
  <2>3. Sent(nb) \subseteq Queries /\ Sent(mb) \subseteq Queries
    BY DEF Sent
  <2> QED BY <2>1, <2>2, <2>3
<1>5. HungUp(nb) => HungUp(mb)
  <2> SUFFICES ASSUME NEW k \in DOMAIN nb, nb[k] = <<"hangup">> PROVE HungUp(mb)
    BY DEF HungUp
  <2>1. k + 1 \in DOMAIN mb /\ mb[k + 1] = <<"hangup">>
    BY <1>2
  <2> QED BY <2>1 DEF HungUp
<1>6. \A q \in Queries : Head(mb) = <<"send", q>> => q \in Sent(mb)
  BY <1>1, <1>2 DEF Sent
<1>7. Head(mb) = <<"hangup">> => HungUp(mb) /\ Sent(mb) = {}
  <2> SUFFICES ASSUME Head(mb) = <<"hangup">> PROVE HungUp(mb) /\ Sent(mb) = {}
    OBVIOUS
  <2>1. HungUp(mb)
    BY <1>1, <1>2 DEF HungUp
  <2>2. Len(mb) = 1
    BY <1>1, <1>2 DEF MailOK
  <2>3. \A k \in DOMAIN mb : k = 1
    BY <1>1, <2>2, SMTT(30)
  <2>4. Sent(mb) = {}
    BY <1>1, <2>3, MessagesDiffer DEF Sent
  <2> QED BY <2>1, <2>4
<1> QED BY <1>1, <1>3, <1>4, <1>5, <1>6, <1>7 DEF Handles

----------------------------------------------------------------------------
\* Proxies.

\* All of o but its session is as in r.
SameButSession(r, o) ==
  /\ o \in ProxyRecords
  /\ o.phase = r.phase /\ o.auth = r.auth /\ o.main = r.main /\ o.destroy = r.destroy
  /\ o.pending = r.pending /\ o.mailbox = r.mailbox /\ o.updates = r.updates

\* All of o but its mailbox mb is as in r.
SameButMailbox(r, o, mb) ==
  /\ o \in ProxyRecords /\ o.mailbox = mb
  /\ o.phase = r.phase /\ o.auth = r.auth /\ o.main = r.main /\ o.destroy = r.destroy
  /\ o.pending = r.pending /\ o.session = r.session /\ o.updates = r.updates

WithMailbox(r, mb) == [r EXCEPT !.mailbox = mb]
WithSession(r, n) == [r EXCEPT !.session = n]
WithGeneration(r, n) == [r EXCEPT !.generation = n]

LEMMA RecordFields ==
  ASSUME NEW r \in ProxyRecords
  PROVE  /\ r.phase \in {"created", "adding", "running"} /\ r.auth \in KeyStates
         /\ r.main \in BOOLEAN /\ r.destroy \in BOOLEAN /\ r.pending \subseteq Queries
         /\ r.mailbox \in Seq(Messages) /\ r.session \in 0..MaxSession
         /\ r.generation \in 1..MaxSession /\ r.updates \in Nat
<1>1. /\ r.phase \in Phases /\ r.auth \in KeyStates /\ r.main \in BOOLEAN /\ r.destroy \in BOOLEAN
      /\ r.pending \in QuerySets /\ r.mailbox \in Mailboxes /\ r.session \in NumbersOrNone
      /\ r.generation \in Numbers /\ r.updates \in Nat
  BY SMTT(60) DEF ProxyRecords
<1> QED BY <1>1 DEF Phases, QuerySets, Mailboxes, NumbersOrNone, Numbers

LEMMA NewProxyRecord ==
  ASSUME NEW main \in BOOLEAN, NEW destroy \in BOOLEAN
  PROVE  /\ NewProxy(main, destroy) \in ProxyRecords
         /\ NewProxy(main, destroy).phase = "created" /\ NewProxy(main, destroy).pending = {}
         /\ NewProxy(main, destroy).mailbox = <<>> /\ NewProxy(main, destroy).session = 0
         /\ NewProxy(main, destroy).auth = "Empty"
<1>1. <<>> \in Mailboxes /\ 0 \in NumbersOrNone /\ 1 \in Numbers /\ {} \in QuerySets
  BY PoolAssumption, SMTT(60) DEF Mailboxes, NumbersOrNone, Numbers, QuerySets
<1>2. "created" \in Phases /\ "Empty" \in KeyStates
  BY DEF Phases, KeyStates
<1> QED BY <1>1, <1>2, SMTT(60) DEF NewProxy, ProxyRecords

LEMMA OpenRecord ==
  ASSUME NEW r \in ProxyRecords, NEW force \in BOOLEAN, NEW o, o = OpenSession(r, force)
  PROVE  /\ SameButSession(r, o)
         /\ o.session = r.session \/ (r.session = 0 /\ o.session # 0)
         /\ ShouldOpen(r, force) => o.session # 0
<1>1. r.generation \in 1..MaxSession /\ r.session \in 0..MaxSession
  BY RecordFields, SMTT(60)
<1>2. r.generation \in NumbersOrNone /\ r.generation # 0
  BY <1>1, PoolAssumption, SMTT(60) DEF NumbersOrNone
<1>3. CASE r.session # 0 \/ ~ShouldOpen(r, force)
  BY <1>3 DEF SameButSession, OpenSession
<1>4. CASE ~(r.session # 0 \/ ~ShouldOpen(r, force))
  <2>1. o = [r EXCEPT !.session = r.generation] /\ r.session = 0
    BY <1>4 DEF OpenSession
  <2> QED BY <1>2, <2>1, SMTT(60) DEF SameButSession, ProxyRecords
<1> QED BY <1>3, <1>4

LEMMA CloseRecord ==
  ASSUME NEW r \in ProxyRecords, MayClose(r), NEW o, o = CloseSession(r)
  PROVE  SameButSession(r, o) /\ o.session = 0
<1>1. r.generation \in 1..MaxSession
  BY RecordFields, SMTT(60)
<1>2. r.generation + 1 \in Numbers /\ 0 \in NumbersOrNone
  BY <1>1, PoolAssumption, SMTT(60) DEF MayClose, Numbers, NumbersOrNone
<1>3. o = WithGeneration(WithSession(r, 0), r.generation + 1)
  BY SMTT(60) DEF CloseSession, WithGeneration, WithSession
<1>4. SameButSession(r, WithSession(r, 0)) /\ WithSession(r, 0).session = 0
  BY <1>2, SMTT(60) DEF ProxyRecords, SameButSession, WithSession
<1>5. \A z \in ProxyRecords : \A n \in Numbers :
        SameButSession(z, WithGeneration(z, n)) /\ WithGeneration(z, n).session = z.session
  BY SMTT(60) DEF ProxyRecords, SameButSession, WithGeneration
<1>6. /\ SameButSession(WithSession(r, 0), WithGeneration(WithSession(r, 0), r.generation + 1))
      /\ WithGeneration(WithSession(r, 0), r.generation + 1).session = WithSession(r, 0).session
  <2>1. WithSession(r, 0) \in ProxyRecords
    BY <1>4 DEF SameButSession
  <2> QED BY <1>2, <1>5, <2>1
<1> QED BY <1>3, <1>4, <1>6 DEF SameButSession

LEMMA MailboxOfRecord ==
  ASSUME NEW r \in ProxyRecords, NEW mb \in Mailboxes, NEW o, o = WithMailbox(r, mb)
  PROVE  SameButMailbox(r, o, mb)
  BY SMTT(60) DEF ProxyRecords, WithMailbox, SameButMailbox

\* One field of a proxy changes.
WithPhase(r, x) == [r EXCEPT !.phase = x]
WithAuth(r, x) == [r EXCEPT !.auth = x]
WithMain(r, x) == [r EXCEPT !.main = x]
WithPending(r, x) == [r EXCEPT !.pending = x]
WithUpdates(r, x) == [r EXCEPT !.updates = x]

\* All of o but the fields of F is as in r.
SameBut(r, o, F) ==
  /\ o \in ProxyRecords
  /\ "phase" \notin F => o.phase = r.phase
  /\ "auth" \notin F => o.auth = r.auth
  /\ "main" \notin F => o.main = r.main
  /\ "destroy" \notin F => o.destroy = r.destroy
  /\ "pending" \notin F => o.pending = r.pending
  /\ "mailbox" \notin F => o.mailbox = r.mailbox
  /\ "session" \notin F => o.session = r.session
  /\ "updates" \notin F => o.updates = r.updates

LEMMA PhaseOfRecord ==
  ASSUME NEW r \in ProxyRecords, NEW x \in Phases
  PROVE  SameBut(r, WithPhase(r, x), {"phase"}) /\ WithPhase(r, x).phase = x
  BY SMTT(60) DEF ProxyRecords, WithPhase, SameBut

LEMMA AuthOfRecord ==
  ASSUME NEW r \in ProxyRecords, NEW x \in KeyStates
  PROVE  SameBut(r, WithAuth(r, x), {"auth"}) /\ WithAuth(r, x).auth = x
  BY SMTT(60) DEF ProxyRecords, WithAuth, SameBut

LEMMA MainOfRecord ==
  ASSUME NEW r \in ProxyRecords, NEW x \in BOOLEAN
  PROVE  SameBut(r, WithMain(r, x), {"main"}) /\ WithMain(r, x).main = x
  BY SMTT(60) DEF ProxyRecords, WithMain, SameBut

LEMMA PendingOfRecord ==
  ASSUME NEW r \in ProxyRecords, NEW x \in QuerySets
  PROVE  SameBut(r, WithPending(r, x), {"pending"}) /\ WithPending(r, x).pending = x
  BY SMTT(60) DEF ProxyRecords, WithPending, SameBut

LEMMA UpdatesOfRecord ==
  ASSUME NEW r \in ProxyRecords, NEW x \in Nat
  PROVE  SameBut(r, WithUpdates(r, x), {"updates"}) /\ WithUpdates(r, x).updates = x
  BY SMTT(60) DEF ProxyRecords, WithUpdates, SameBut

LEMMA HandledRecord ==
  ASSUME NEW r \in ProxyRecords, r.mailbox # <<>>, NEW o, o = Handled(r)
  PROVE  SameButMailbox(r, o, Tail(r.mailbox))
<1>1. Tail(r.mailbox) \in Mailboxes
  BY RecordFields, SMTT(60) DEF Mailboxes
<1>2. o = WithMailbox(r, Tail(r.mailbox))
  BY SMTT(60) DEF Handled, WithMailbox
<1> QED BY <1>1, <1>2, MailboxOfRecord

LEMMA PostedRecord ==
  ASSUME NEW r \in ProxyRecords, NEW m \in Messages, NEW o, o = [r EXCEPT !.mailbox = Append(@, m)]
  PROVE  SameButMailbox(r, o, Append(r.mailbox, m))
<1>1. Append(r.mailbox, m) \in Mailboxes
  BY RecordFields, SMTT(60) DEF Mailboxes
<1>2. o = WithMailbox(r, Append(r.mailbox, m))
  BY SMTT(60) DEF WithMailbox
<1> QED BY <1>1, <1>2, MailboxOfRecord

\* Who is alive.
LEMMA AliveRecords ==
  ASSUME PoolTypeOK, NEW p \in Proxies
  PROVE  /\ Alive(p) <=> proxies[p] \in ProxyRecords
         /\ ~Alive(p) <=> proxies[p] \in {Absent, Dead}
<1>1. proxies[p] \in ProxyRecords \cup {Absent, Dead}
  BY DEF PoolTypeOK
<1>2. proxies[p] \in ProxyRecords => proxies[p].phase \in {"created", "adding", "running"}
  BY RecordFields
<1>3. Absent.phase = "absent" /\ Dead.phase = "dead"
  BY SMTT(60) DEF Absent, Dead
<1> QED BY <1>1, <1>2, <1>3 DEF Alive

----------------------------------------------------------------------------
\* Places.

LEMMA PlaceKinds ==
  /\ <<"inbox">> \in Places /\ <<"done">> \in Places
  /\ \A p \in Proxies : <<"mailbox", p>> \in Places /\ <<"pending", p>> \in Places
  /\ \A s \in Sessions : <<"held", s>> \in Places
  /\ \A x \in Places :
       \/ x = <<"inbox">> \/ x = <<"done">>
       \/ \E p \in Proxies : x = <<"mailbox", p>> \/ x = <<"pending", p>>
       \/ \E s \in Sessions : x = <<"held", s>>
<1>1. /\ <<"inbox">> \in Places /\ <<"done">> \in Places
      /\ \A p \in Proxies : <<"mailbox", p>> \in Places /\ <<"pending", p>> \in Places
      /\ \A s \in Sessions : <<"held", s>> \in Places
  BY SMTT(60) DEF Places
<1>2. ASSUME NEW x \in Places
      PROVE  \/ x = <<"inbox">> \/ x = <<"done">>
             \/ \E p \in Proxies : x = <<"mailbox", p>> \/ x = <<"pending", p>>
             \/ \E s \in Sessions : x = <<"held", s>>
  BY SMTT(60) DEF Places
<1> QED BY <1>1, <1>2

LEMMA PlacesDiffer ==
  /\ <<"inbox">> # <<"done">>
  /\ \A p : /\ <<"mailbox", p>> # <<"inbox">> /\ <<"mailbox", p>> # <<"done">>
            /\ <<"pending", p>> # <<"inbox">> /\ <<"pending", p>> # <<"done">>
            /\ <<"held", p>> # <<"inbox">> /\ <<"held", p>> # <<"done">>
  /\ \A p, r : /\ <<"mailbox", p>> # <<"pending", r>> /\ <<"mailbox", p>> # <<"held", r>>
               /\ <<"pending", p>> # <<"held", r>>
               /\ <<"mailbox", p>> = <<"mailbox", r>> => p = r
               /\ <<"pending", p>> = <<"pending", r>> => p = r
               /\ <<"held", p>> = <<"held", r>> => p = r
  BY SMTT(60)

LEMMA ContentsAre ==
  /\ Contents(<<"inbox">>) = inbox /\ Contents(<<"done">>) = done
  /\ \A p : Contents(<<"mailbox", p>>) = InMailbox(p) /\ Contents(<<"pending", p>>) = PendingIn(p)
  /\ \A s : Contents(<<"held", s>>) = held[s]
  BY SMTT(60) DEF Contents

LEMMA ContentsBecome ==
  /\ Contents(<<"inbox">>)' = inbox' /\ Contents(<<"done">>)' = done'
  /\ \A p : Contents(<<"mailbox", p>>)' = InMailbox(p)' /\ Contents(<<"pending", p>>)' = PendingIn(p)'
  /\ \A s : Contents(<<"held", s>>)' = held'[s]
  BY SMTT(60) DEF Contents

\* The queries Q go from the place x to the place y, and no others move.
Transfer(x, y, Q) ==
  /\ x \in Places /\ y \in Places /\ x # y /\ Q \subseteq Contents(x)
  /\ \A z \in Places :
       Contents(z)' = IF z = y THEN Contents(z) \cup Q
                      ELSE IF z = x THEN Contents(z) \ Q ELSE Contents(z)

LEMMA TransferKeeps ==
  ASSUME OnePlace, NEW x, NEW y, NEW Q, Transfer(x, y, Q)
  PROVE  OnePlace'
<1> SUFFICES ASSUME NEW q \in Queries
             PROVE  \E z \in Places : \A w \in Places : q \in Contents(w)' <=> z = w
  BY DEF OnePlace
<1>1. PICK z \in Places : \A w \in Places : q \in Contents(w) <=> z = w
  BY DEF OnePlace
<1>2. CASE q \in Q
  <2>1. z = x
    BY <1>1, <1>2 DEF Transfer
  <2>2. \A w \in Places : q \in Contents(w)' <=> y = w
    BY <1>1, <1>2, <2>1 DEF Transfer
  <2> QED BY <2>2 DEF Transfer
<1>3. CASE q \notin Q
  <2>1. \A w \in Places : q \in Contents(w)' <=> z = w
    BY <1>1, <1>3 DEF Transfer
  <2> QED BY <2>1
<1> QED BY <1>2, <1>3

\* What the places under p hold after a transfer.
LEMMA TransferUnder ==
  ASSUME OnePlace, NEW x, NEW y, NEW Q, Transfer(x, y, Q), NEW p \in Proxies, Q \subseteq Queries
  PROVE  Under(p)' = IF y \in PlacesUnder(p) THEN Under(p) \cup Q
                     ELSE IF x \in PlacesUnder(p) THEN Under(p) \ Q ELSE Under(p)
<1>0. PlacesUnder(p) \subseteq Places /\ PlacesUnder(p)' = PlacesUnder(p)
  <2>1. SessionsOf(p) \subseteq Sessions
    BY DEF SessionsOf
  <2>2. PlacesUnder(p) \subseteq Places
    BY <2>1, SMTT(60) DEF PlacesUnder, Places
  <2> QED BY <2>2 DEF PlacesUnder, SessionsOf, Sessions, Proxies, Generations
<1>1. Under(p)' = {q \in Queries : \E z \in PlacesUnder(p) : q \in Contents(z)'}
  BY <1>0 DEF Under
<1>2. ASSUME NEW q \in Q
      PROVE  /\ \A w \in Places : q \in Contents(w) <=> x = w
             /\ \A w \in Places : q \in Contents(w)' <=> y = w
  <2>1. PICK z \in Places : \A w \in Places : q \in Contents(w) <=> z = w
    BY DEF OnePlace
  <2>2. z = x
    BY <2>1 DEF Transfer
  <2> QED BY <2>1, <2>2 DEF Transfer
<1>3. ASSUME NEW q \in Queries, q \notin Q
      PROVE  \A w \in Places : q \in Contents(w)' <=> q \in Contents(w)
  BY <1>3 DEF Transfer
<1>4. \A q \in Q : q \in Under(p)' <=> y \in PlacesUnder(p)
  BY <1>0, <1>1, <1>2 DEF Transfer
<1>5. \A q \in Q : q \in Under(p) <=> x \in PlacesUnder(p)
  BY <1>0, <1>2 DEF Under, Transfer
<1>6. \A q \in Queries : q \notin Q => (q \in Under(p)' <=> q \in Under(p))
  BY <1>0, <1>1, <1>3 DEF Under
<1>7. Under(p) \subseteq Queries /\ Under(p)' \subseteq Queries
  BY <1>1 DEF Under
<1> QED BY <1>4, <1>5, <1>6, <1>7

----------------------------------------------------------------------------
\* Counting.

\* How sets of queries are counted; the last lemmas show it.
CountingRules ==
  /\ \A S \in SUBSET Queries : Cardinality(S) \in Nat
  /\ \A S, T \in SUBSET Queries :
       /\ Cardinality(S \cup T) = Cardinality(S) + Cardinality(T) - Cardinality(S \cap T)
       /\ Cardinality(S \ T) = Cardinality(S) - Cardinality(S \cap T)
  /\ Cardinality({}) = 0
  /\ \A q : Cardinality({q}) = 1

LEMMA UnderFinite ==
  ASSUME CountingRules, NEW S, S \subseteq Queries
  PROVE  Cardinality(S) \in Nat
  BY DEF CountingRules

\* A query more or less under p changes the count of p or what is finished.
Balanced(x, y, Q) ==
  \A p \in Current' :
    /\ p \in Current /\ p \in Proxies
    /\ multi.queryCount[p[2]] \in Int /\ multi'.queryCount[p[2]] \in Int
    /\ finished[p] \in Int /\ finished'[p] \in Int
    /\ multi'.queryCount[p[2]] - finished'[p] =
         multi.queryCount[p[2]] - finished[p]
           + (IF y \in PlacesUnder(p) THEN Cardinality(Q) ELSE 0)
           - (IF x \in PlacesUnder(p) THEN Cardinality(Q) ELSE 0)

LEMMA CountsKept ==
  ASSUME CountingRules, OnePlace, CountsUnder, NEW x, NEW y, NEW Q, Q \subseteq Queries, Transfer(x, y, Q),
         Balanced(x, y, Q)
  PROVE  CountsUnder'
<1> SUFFICES ASSUME NEW p \in Current'
             PROVE  multi'.queryCount[p[2]] = Cardinality(Under(p)') + finished'[p]
  BY DEF CountsUnder
<1>1. /\ p \in Current /\ p \in Proxies
      /\ multi.queryCount[p[2]] \in Int /\ multi'.queryCount[p[2]] \in Int
      /\ finished[p] \in Int /\ finished'[p] \in Int
      /\ multi'.queryCount[p[2]] - finished'[p] =
           multi.queryCount[p[2]] - finished[p]
             + (IF y \in PlacesUnder(p) THEN Cardinality(Q) ELSE 0)
             - (IF x \in PlacesUnder(p) THEN Cardinality(Q) ELSE 0)
  BY DEF Balanced
<1>2. multi.queryCount[p[2]] = Cardinality(Under(p)) + finished[p]
  BY <1>1 DEF CountsUnder
<1>3. Under(p) \subseteq Queries
  BY DEF Under
<1>4. Cardinality(Under(p)) \in Nat /\ Cardinality(Q) \in Nat
  BY <1>3, UnderFinite
<1>5. /\ x \in PlacesUnder(p) => Q \subseteq Under(p)
      /\ x \notin PlacesUnder(p) => Q \cap Under(p) = {}
  <2>1. x \in PlacesUnder(p) => Q \subseteq Under(p)
    BY DEF Transfer, Under
  <2>2. PlacesUnder(p) \subseteq Places
    <3>1. SessionsOf(p) \subseteq Sessions
      BY DEF SessionsOf
    <3> QED BY <1>1, <3>1, SMTT(60) DEF PlacesUnder, Places
  <2>3. ASSUME NEW q \in Q, q \in Under(p) PROVE x \in PlacesUnder(p)
    <3>1. PICK z \in PlacesUnder(p) : q \in Contents(z)
      BY <2>3 DEF Under
    <3>2. z = x
      BY <2>2, <3>1 DEF OnePlace, Transfer
    <3> QED BY <3>1, <3>2
  <2> QED BY <2>1, <2>3
<1>6. CASE y \in PlacesUnder(p) /\ x \in PlacesUnder(p)
  <2>1. Under(p)' = Under(p)
    <3>1. Under(p)' = Under(p) \cup Q
      BY <1>1, <1>6, TransferUnder
    <3> QED BY <1>5, <1>6, <3>1
  <2> QED BY <1>1, <1>2, <1>4, <1>6, <2>1, SMTT(60)
<1>7. CASE y \in PlacesUnder(p) /\ x \notin PlacesUnder(p)
  <2>1. Under(p)' = Under(p) \cup Q
    BY <1>1, <1>7, TransferUnder
  <2>2. Cardinality(Under(p) \cap Q) = 0
    <3>1. Under(p) \cap Q = {}
      BY <1>5, <1>7
    <3> QED BY <3>1 DEF CountingRules
  <2>3. Cardinality(Under(p) \cup Q) = Cardinality(Under(p)) + Cardinality(Q) - Cardinality(Under(p) \cap Q)
    BY <1>3, <1>4 DEF CountingRules
  <2>4. Cardinality(Under(p)') = Cardinality(Under(p)) + Cardinality(Q) - 0
    BY <2>1, <2>2, <2>3
  <2> QED BY <1>1, <1>2, <1>4, <1>7, <2>4, SMTT(60)
<1>8. CASE y \notin PlacesUnder(p) /\ x \in PlacesUnder(p)
  <2>1. Under(p)' = Under(p) \ Q
    BY <1>1, <1>8, TransferUnder
  <2>2. Under(p) \cap Q = Q
    BY <1>5, <1>8
  <2>3. Cardinality(Under(p) \ Q) = Cardinality(Under(p)) - Cardinality(Under(p) \cap Q)
    BY <1>3, <1>4 DEF CountingRules
  <2>4. Cardinality(Under(p)') = Cardinality(Under(p)) - Cardinality(Q)
    BY <2>1, <2>2, <2>3
  <2> QED BY <1>1, <1>2, <1>4, <1>8, <2>4, SMTT(60)
<1>9. CASE y \notin PlacesUnder(p) /\ x \notin PlacesUnder(p)
  <2>1. Under(p)' = Under(p)
    BY <1>1, <1>9, TransferUnder
  <2> QED BY <1>1, <1>2, <1>4, <1>9, <2>1, SMTT(60)
<1> QED BY <1>6, <1>7, <1>8, <1>9

----------------------------------------------------------------------------
LEMMA CurrentAreProxies ==
  ASSUME PoolTypeOK
  PROVE  /\ Current \subseteq Proxies
         /\ \A p \in Current : p[1] = multi.generation /\ p[2] \in 0..multi.count - 1
<1>1. multi.generation \in Generations /\ multi.count \in 1..MaxCount
  BY SMTT(60) DEF PoolTypeOK, MultiRecords
<1>2. ASSUME NEW p \in CurrentAt(multi.generation, multi.count)
      PROVE  p \in Proxies /\ p[1] = multi.generation /\ p[2] \in 0..multi.count - 1
  BY <1>1, PoolAssumption, SMTT(60) DEF CurrentAt, Proxies
<1> QED BY <1>2 DEF Current

\* One proxy changes, from the record it is to o.
OneChanges(p, o) ==
  /\ proxies'[p] = o
  /\ \A r \in Proxies : r # p =>
       /\ proxies'[r] = proxies[r] /\ (Alive(r)' <=> Alive(r))
       /\ InMailbox(r)' = InMailbox(r) /\ PendingIn(r)' = PendingIn(r)
  /\ o \in ProxyRecords => Alive(p)' /\ InMailbox(p)' = Sent(o.mailbox) /\ PendingIn(p)' = o.pending
  /\ o = Dead => ~Alive(p)' /\ InMailbox(p)' = {} /\ PendingIn(p)' = {}
  /\ Alive(p) => InMailbox(p) = Sent(proxies[p].mailbox) /\ PendingIn(p) = proxies[p].pending

LEMMA OneProxyChanges ==
  ASSUME PoolTypeOK, NEW p \in Proxies, NEW o, proxies' = [proxies EXCEPT ![p] = o]
  PROVE  OneChanges(p, o)
<1>1. proxies'[p] = o /\ \A r \in Proxies : r # p => proxies'[r] = proxies[r]
  BY DEF PoolTypeOK
<1>2. \A r \in Proxies : r # p =>
        /\ Alive(r)' <=> Alive(r)
        /\ InMailbox(r)' = InMailbox(r) /\ PendingIn(r)' = PendingIn(r)
  <2> SUFFICES ASSUME NEW r \in Proxies, r # p
               PROVE  /\ Alive(r)' <=> Alive(r)
                      /\ InMailbox(r)' = InMailbox(r) /\ PendingIn(r)' = PendingIn(r)
    OBVIOUS
  <2>1. proxies'[r] = proxies[r]
    BY <1>1
  <2>2. Alive(r)' <=> Alive(r)
    BY <2>1 DEF Alive
  <2>3. InMailbox(r) = (IF Alive(r) THEN Sent(proxies[r].mailbox) ELSE {})
    BY DEF InMailbox, Sent
  <2>4. InMailbox(r)' = (IF Alive(r)' THEN Sent(proxies'[r].mailbox) ELSE {})
    BY DEF InMailbox, Sent
  <2>5. /\ PendingIn(r) = (IF Alive(r) THEN proxies[r].pending ELSE {})
        /\ PendingIn(r)' = (IF Alive(r)' THEN proxies'[r].pending ELSE {})
    BY DEF PendingIn
  <2> QED BY <2>1, <2>2, <2>3, <2>4, <2>5
<1>3. ASSUME o \in ProxyRecords
      PROVE  Alive(p)' /\ InMailbox(p)' = Sent(o.mailbox) /\ PendingIn(p)' = o.pending
  <2>1. o.phase \in {"created", "adding", "running"}
    BY <1>3, RecordFields
  <2> QED BY <1>1, <2>1 DEF Alive, InMailbox, PendingIn, Sent
<1>4. o = Dead => ~Alive(p)' /\ InMailbox(p)' = {} /\ PendingIn(p)' = {}
  <2>1. Dead.phase = "dead"
    BY SMTT(60) DEF Dead
  <2> QED BY <1>1, <2>1 DEF Alive, InMailbox, PendingIn
<1>5. Alive(p) => InMailbox(p) = Sent(proxies[p].mailbox) /\ PendingIn(p) = proxies[p].pending
  BY DEF InMailbox, PendingIn, Sent
<1> QED BY <1>1, <1>2, <1>3, <1>4, <1>5 DEF OneChanges

\* What KeyHeard says of the record r of the proxy p.
Heard(p, r) ==
  /\ r.phase # "running" => r.pending = {}
  /\ r.phase = "adding" => r.updates > 0
  /\ r.phase = "running" => p \in listeners /\ (r.auth = key \/ r.updates > 0 \/ notifying > 0)
  /\ r.auth = "OK" => r.pending = {}

\* A proxy takes a step on its own: it opens or closes sessions, takes messages
\* and gives queries to its session.
LEMMA ProxyStepKeeps ==
  ASSUME PoolInv, KeyHeard, NEW p \in Proxies, Alive(p), NEW o \in ProxyRecords,
         proxies' = [proxies EXCEPT ![p] = o], MailOK(o.mailbox),
         HungUp(o.mailbox) => HungUp(proxies[p].mailbox), Heard(p, o)',
         UNCHANGED <<key, notifying, stopFlag, multi, finished, cond, inbox, done>>,
         listeners \subseteq listeners', listeners' \subseteq Proxies,
         closing \subseteq closing', closing' \subseteq closing \cup ({p} \X Numbers),
         o.session = proxies[p].session \/ proxies[p].session = 0
           \/ <<p, proxies[p].session>> \in closing',
         failures' \subseteq Sessions, held' \in [Sessions -> SUBSET Queries],
         \A s \in Sessions : held'[s] # {} => held[s] # {} \/ (s = <<p, o.session>> /\ o.session # 0)
  PROVE  PoolTypeOK' /\ KeyHeard' /\ GenerationsOK' /\ MailboxesOK' /\ HolderExists'
<1>1. OneChanges(p, o)
  BY OneProxyChanges DEF PoolInv
<1>2. PoolTypeOK'
  <2>1. proxies' \in [Proxies -> ProxyRecords \cup {Absent, Dead}]
    BY DEF PoolInv, PoolTypeOK
  <2>2. closing' \subseteq Sessions
    <3>1. {p} \X Numbers \subseteq Sessions
      BY SMTT(60) DEF Sessions, Numbers
    <3> QED BY <3>1 DEF PoolInv, PoolTypeOK
  <2> QED BY <2>1, <2>2 DEF PoolInv, PoolTypeOK
<1>3. KeyHeard'
  <2> SUFFICES ASSUME NEW r \in Proxies, Alive(r)' PROVE Heard(r, proxies[r])'
    BY DEF KeyHeard, Heard
  <2>1. CASE r = p
    BY <1>1, <2>1 DEF OneChanges, Heard
  <2>2. CASE r # p
    BY <1>1, <2>2 DEF OneChanges, Heard, KeyHeard
  <2> QED BY <2>1, <2>2
<1>4. MailboxesOK'
  BY <1>1 DEF OneChanges, PoolInv, MailboxesOK
<1>5. HolderExists'
  <2> SUFFICES ASSUME NEW s \in Sessions, held'[s] # {} PROVE Exists(s)'
    BY DEF HolderExists
  <2>0. s[1] \in Proxies /\ s = <<s[1], s[2]>>
    BY SMTT(60) DEF Sessions
  <2>1. CASE s = <<p, o.session>>
    <3>1. s[1] = p /\ s[2] = o.session
      BY <2>1, SMTT(60)
    <3> QED BY <1>1, <3>1 DEF OneChanges, Exists, IsOpen
  <2>2. CASE held[s] # {}
    <3>1. Exists(s)
      BY <2>2 DEF PoolInv, HolderExists
    <3>2. CASE s \in closing
      BY <3>2 DEF Exists
    <3>3. CASE IsOpen(s) /\ s[1] # p
      BY <1>1, <2>0, <3>3 DEF OneChanges, IsOpen, Exists
    <3>4. CASE IsOpen(s) /\ s[1] = p
      <4>1. s[2] = proxies[p].session /\ s = <<p, proxies[p].session>> /\ s[2] # 0
        <5>1. s[2] # 0
          BY SMTT(60) DEF Sessions
        <5> QED BY <2>0, <3>4, <5>1 DEF IsOpen
      <4> QED BY <1>1, <3>4, <4>1 DEF OneChanges, IsOpen, Exists
    <3> QED BY <3>1, <3>2, <3>3, <3>4 DEF Exists
  <2> QED BY <2>1, <2>2
<1>6. GenerationsOK'
  <2>1. Current' = Current
    BY DEF Current, CurrentAt
  <2>2. ASSUME NEW r \in Current PROVE Alive(r)' /\ ~HungUp(proxies'[r].mailbox)
    <3>1. r \in Proxies /\ Alive(r) /\ ~HungUp(proxies[r].mailbox)
      BY CurrentAreProxies DEF PoolInv, GenerationsOK
    <3> QED BY <1>1, <3>1 DEF OneChanges
  <2>3. ASSUME NEW r \in Proxies, Unused(r) PROVE Unused(r)'
    <3>1. r # p
      BY <2>3, AliveRecords DEF Unused, PoolInv
    <3>2. \A n : <<r, n>> \notin {p} \X Numbers
      BY <3>1, SMTT(60)
    <3> QED BY <1>1, <2>3, <3>1, <3>2 DEF OneChanges, Unused
  <2> QED BY <2>1, <2>2, <2>3 DEF PoolInv, GenerationsOK
<1> QED BY <1>2, <1>3, <1>4, <1>5, <1>6

----------------------------------------------------------------------------
\* The transfers there are.

LEMMA UnderKinds ==
  ASSUME NEW p \in Proxies
  PROVE  /\ <<"inbox">> \notin PlacesUnder(p) /\ <<"done">> \notin PlacesUnder(p)
         /\ \A r : (<<"mailbox", r>> \in PlacesUnder(p) <=> r = p)
                   /\ (<<"pending", r>> \in PlacesUnder(p) <=> r = p)
         /\ \A s \in Sessions : <<"held", s>> \in PlacesUnder(p) <=> s[1] = p
  BY SMTT(60) DEF PlacesUnder, SessionsOf

\* What goes from a place to another, place by place.
Moves(x, y, Q) ==
  LET New(z, old) == IF z = y THEN old \cup Q ELSE IF z = x THEN old \ Q ELSE old
  IN  /\ inbox' = New(<<"inbox">>, inbox) /\ done' = New(<<"done">>, done)
      /\ \A p \in Proxies : /\ InMailbox(p)' = New(<<"mailbox", p>>, InMailbox(p))
                            /\ PendingIn(p)' = New(<<"pending", p>>, PendingIn(p))
      /\ \A s \in Sessions : held'[s] = New(<<"held", s>>, held[s])

LEMMA MovesTransfer ==
  ASSUME NEW x \in Places, NEW y \in Places, x # y, NEW Q, Q \subseteq Contents(x), Moves(x, y, Q)
  PROVE  Transfer(x, y, Q)
<1> SUFFICES ASSUME NEW z \in Places
             PROVE  Contents(z)' = IF z = y THEN Contents(z) \cup Q
                                   ELSE IF z = x THEN Contents(z) \ Q ELSE Contents(z)
  BY DEF Transfer
<1>1. CASE z = <<"inbox">>
  BY <1>1, ContentsAre, ContentsBecome DEF Moves
<1>2. CASE z = <<"done">>
  BY <1>2, ContentsAre, ContentsBecome DEF Moves
<1>3. ASSUME NEW p \in Proxies, z = <<"mailbox", p>>
      PROVE  Contents(z)' = IF z = y THEN Contents(z) \cup Q
                            ELSE IF z = x THEN Contents(z) \ Q ELSE Contents(z)
  BY <1>3, ContentsAre, ContentsBecome DEF Moves
<1>4. ASSUME NEW p \in Proxies, z = <<"pending", p>>
      PROVE  Contents(z)' = IF z = y THEN Contents(z) \cup Q
                            ELSE IF z = x THEN Contents(z) \ Q ELSE Contents(z)
  BY <1>4, ContentsAre, ContentsBecome DEF Moves
<1>5. ASSUME NEW s \in Sessions, z = <<"held", s>>
      PROVE  Contents(z)' = IF z = y THEN Contents(z) \cup Q
                            ELSE IF z = x THEN Contents(z) \ Q ELSE Contents(z)
  BY <1>5, ContentsAre, ContentsBecome DEF Moves
<1> QED BY <1>1, <1>2, <1>3, <1>4, <1>5, PlaceKinds

\* Moves that keep the queries where they are counted.
LEMMA StaysBalanced ==
  ASSUME CountingRules, PoolTypeOK, UNCHANGED <<multi, finished>>, NEW x, NEW y, NEW Q, Q \subseteq Queries,
         \A p \in Proxies : x \in PlacesUnder(p) <=> y \in PlacesUnder(p)
  PROVE  Balanced(x, y, Q)
<1> SUFFICES ASSUME NEW p \in Current'
             PROVE  /\ p \in Current /\ p \in Proxies
                    /\ multi.queryCount[p[2]] \in Int /\ multi'.queryCount[p[2]] \in Int
                    /\ finished[p] \in Int /\ finished'[p] \in Int
                    /\ multi'.queryCount[p[2]] - finished'[p] =
                         multi.queryCount[p[2]] - finished[p]
                           + (IF y \in PlacesUnder(p) THEN Cardinality(Q) ELSE 0)
                           - (IF x \in PlacesUnder(p) THEN Cardinality(Q) ELSE 0)
  BY DEF Balanced
<1>1. p \in Current
  BY DEF Current, CurrentAt
<1>2. p \in Proxies /\ p[2] \in 0..multi.count - 1
  BY <1>1, CurrentAreProxies
<1>3. multi.queryCount[p[2]] \in Int /\ finished[p] \in Nat
  BY <1>2 DEF PoolTypeOK
<1>4. Cardinality(Q) \in Nat
  BY UnderFinite
<1>5. x \in PlacesUnder(p) <=> y \in PlacesUnder(p)
  BY <1>2
<1> QED BY <1>1, <1>2, <1>3, <1>4, <1>5, SMTT(60)

LEMMA MoveKeeps ==
  ASSUME CountingRules, PoolInv, NEW x \in Places, NEW y \in Places, x # y, NEW Q, Q \subseteq Contents(x),
         Q \subseteq Queries, Moves(x, y, Q), Balanced(x, y, Q)
  PROVE  OnePlace' /\ CountsUnder'
<1>1. Transfer(x, y, Q)
  BY MovesTransfer
<1>2. OnePlace /\ CountsUnder
  BY DEF PoolInv
<1>3. OnePlace'
  BY <1>1, <1>2, TransferKeeps
<1>4. CountsUnder'
  BY <1>1, <1>2, CountsKept
<1> QED BY <1>3, <1>4

LEMMA NothingMoves ==
  ASSUME CountingRules, PoolInv, UNCHANGED <<inbox, done, held, multi, finished>>,
         \A p \in Proxies : InMailbox(p)' = InMailbox(p) /\ PendingIn(p)' = PendingIn(p)
  PROVE  OnePlace' /\ CountsUnder'
<1>1. PICK x \in Places, y \in Places : x = <<"inbox">> /\ y = <<"done">> /\ x # y
  BY PlaceKinds, PlacesDiffer
<1>2. Moves(x, y, {})
  BY DEF Moves
<1>3. \A p \in Proxies : x \in PlacesUnder(p) <=> y \in PlacesUnder(p)
  BY <1>1, UnderKinds
<1>4. {} \subseteq Contents(x) /\ {} \subseteq Queries
  OBVIOUS
<1>5. Balanced(x, y, {})
  BY <1>3, <1>4, StaysBalanced DEF PoolInv
<1> QED BY <1>1, <1>2, <1>4, <1>5, MoveKeeps, SMTT(60)

----------------------------------------------------------------------------
\* The steps of a proxy.

\* The proxy p takes a step in which no query moves.
LEMMA QuietStep ==
  ASSUME CountingRules, PoolInv, NEW p \in Proxies, Alive(p), NEW o \in ProxyRecords,
         proxies' = [proxies EXCEPT ![p] = o],
         Sent(o.mailbox) = Sent(proxies[p].mailbox), o.pending = proxies[p].pending,
         UNCHANGED <<inbox, done, held, multi, finished>>
  PROVE  OnePlace' /\ CountsUnder'
<1>1. OneChanges(p, o)
  BY OneProxyChanges DEF PoolInv
<1>2. \A r \in Proxies : InMailbox(r)' = InMailbox(r) /\ PendingIn(r)' = PendingIn(r)
  BY <1>1 DEF OneChanges
<1> QED BY <1>2, NothingMoves

LEMMA StartUpReadKeeps ==
  ASSUME CountingRules, PoolInv, KeyHeard, NEW p \in Proxies, StartUpRead(p)
  PROVE  PoolInv' /\ KeyHeard'
<1>1. Alive(p) /\ proxies[p] \in ProxyRecords /\ proxies[p].phase = "created" /\ key \in KeyStates
  <2>1. Alive(p)
    BY DEF StartUpRead, Alive
  <2> QED BY <2>1, AliveRecords DEF StartUpRead, PoolInv, PoolTypeOK
<1>2. PICK o \in ProxyRecords :
        /\ proxies' = [proxies EXCEPT ![p] = o]
        /\ o.phase = "adding" /\ o.auth = key /\ o.updates = proxies[p].updates + 1
        /\ o.pending = proxies[p].pending /\ o.mailbox = proxies[p].mailbox
        /\ o.session = proxies[p].session
  <2> DEFINE r == proxies[p]
             z == WithUpdates(r, r.updates + 1)
             y == WithPhase(z, "adding")
             o == WithAuth(y, key)
  <2>1. "adding" \in Phases /\ r.updates \in Nat
    BY <1>1, RecordFields DEF Phases
  <2>2. r.updates + 1 \in Nat
    BY <2>1, SMTT(60)
  <2>3. SameBut(r, z, {"updates"}) /\ z.updates = r.updates + 1
    BY <1>1, <2>2, UpdatesOfRecord
  <2>4. SameBut(z, y, {"phase"}) /\ y.phase = "adding"
    BY <2>1, <2>3, PhaseOfRecord DEF SameBut
  <2>5. SameBut(y, o, {"auth"}) /\ o.auth = key
    BY <1>1, <2>4, AuthOfRecord DEF SameBut
  <2>6. proxies' = [proxies EXCEPT ![p] = o]
    BY DEF StartUpRead, NotifyNewListener, WithUpdates, WithPhase, WithAuth
  <2> HIDE DEF z, y, o
  <2>7. /\ o \in ProxyRecords /\ o.phase = "adding" /\ o.updates = r.updates + 1
        /\ o.pending = r.pending /\ o.mailbox = r.mailbox /\ o.session = r.session
    BY <2>3, <2>4, <2>5 DEF SameBut
  <2> QED BY <2>5, <2>6, <2>7
<1>3. UNCHANGED <<keyVars, stopFlag, inbox, multi, finished, sessionVars, done, cond>>
  BY DEF StartUpRead
<1>4. Heard(p, o)'
  <2>1. o.updates > 0
    BY <1>1, <1>2, RecordFields, SMTT(60)
  <2>2. proxies[p].pending = {}
    BY <1>1 DEF KeyHeard
  <2> QED BY <1>2, <2>1, <2>2 DEF Heard
<1>5. MailOK(o.mailbox)
  BY <1>1, <1>2 DEF PoolInv, MailboxesOK
<1>6. PoolTypeOK' /\ KeyHeard' /\ GenerationsOK' /\ MailboxesOK' /\ HolderExists'
  BY <1>1, <1>2, <1>3, <1>4, <1>5, ProxyStepKeeps
     DEF keyVars, sessionVars, PoolInv, PoolTypeOK
<1>7. OnePlace' /\ CountsUnder'
  BY <1>1, <1>2, <1>3, QuietStep DEF sessionVars
<1> QED BY <1>6, <1>7 DEF PoolInv

LEMMA RunningProxy ==
  ASSUME PoolInv, KeyHeard, NEW p \in Proxies, Running(p)
  PROVE  /\ Alive(p) /\ proxies[p] \in ProxyRecords /\ Heard(p, proxies[p])
         /\ MailOK(proxies[p].mailbox)
<1>1. Alive(p)
  BY DEF Running, Alive
<1> QED BY <1>1, AliveRecords DEF PoolInv, KeyHeard, Heard, MailboxesOK

LEMMA StartUpRegisterKeeps ==
  ASSUME CountingRules, PoolInv, KeyHeard, NEW p \in Proxies, StartUpRegister(p)
  PROVE  PoolInv' /\ KeyHeard'
<1>1. Alive(p) /\ proxies[p] \in ProxyRecords /\ proxies[p].phase = "adding"
  <2>1. Alive(p)
    BY DEF StartUpRegister, Alive
  <2> QED BY <2>1, AliveRecords DEF StartUpRegister, PoolInv
<1>2. PICK o \in ProxyRecords :
        /\ proxies' = [proxies EXCEPT ![p] = o]
        /\ o.phase = "running" /\ o.auth = proxies[p].auth /\ o.updates = proxies[p].updates
        /\ o.pending = proxies[p].pending /\ o.mailbox = proxies[p].mailbox
        /\ o.session = proxies[p].session \/ proxies[p].session = 0
  <2> DEFINE r == proxies[p]
             z == WithPhase(r, "running")
             o == OpenSession(z, FALSE)
  <2>1. "running" \in Phases
    BY DEF Phases
  <2>2. SameBut(r, z, {"phase"}) /\ z.phase = "running"
    BY <1>1, <2>1, PhaseOfRecord
  <2>3. SameButSession(z, o) /\ (o.session = z.session \/ z.session = 0)
    BY <2>2, OpenRecord DEF SameBut
  <2>4. proxies' = [proxies EXCEPT ![p] = o]
    BY DEF StartUpRegister, WithPhase
  <2> HIDE DEF z, o
  <2>5. /\ o \in ProxyRecords /\ o.phase = "running" /\ o.auth = r.auth /\ o.updates = r.updates
        /\ o.pending = r.pending /\ o.mailbox = r.mailbox
        /\ o.session = r.session \/ r.session = 0
    BY <2>2, <2>3 DEF SameBut, SameButSession
  <2> QED BY <2>4, <2>5
<1>3. /\ UNCHANGED <<key, notifying, stopFlag, inbox, multi, finished, sessionVars, done, cond>>
      /\ listeners' = listeners \cup {p}
  BY DEF StartUpRegister
<1>4. Heard(p, o)'
  <2>1. proxies[p].pending = {} /\ proxies[p].updates > 0
    BY <1>1 DEF KeyHeard
  <2> QED BY <1>2, <1>3, <2>1 DEF Heard
<1>5. MailOK(o.mailbox) /\ listeners' \subseteq Proxies
  BY <1>1, <1>2, <1>3 DEF PoolInv, MailboxesOK, PoolTypeOK
<1>6. PoolTypeOK' /\ KeyHeard' /\ GenerationsOK' /\ MailboxesOK' /\ HolderExists'
  BY <1>1, <1>2, <1>3, <1>4, <1>5, ProxyStepKeeps DEF sessionVars, PoolInv, PoolTypeOK
<1>7. OnePlace' /\ CountsUnder'
  BY <1>1, <1>2, <1>3, QuietStep DEF sessionVars
<1> QED BY <1>6, <1>7 DEF PoolInv

\* The proxy closes its session, and opens another.
LEMMA ReopenKeeps ==
  ASSUME CountingRules, PoolInv, KeyHeard, NEW p \in Proxies, Running(p), NEW r \in ProxyRecords, Reopen(p, r),
         r.phase = proxies[p].phase, r.auth = proxies[p].auth, r.pending = proxies[p].pending,
         r.session = proxies[p].session, r.updates = proxies[p].updates,
         MailOK(r.mailbox), Sent(r.mailbox) = Sent(proxies[p].mailbox),
         HungUp(r.mailbox) => HungUp(proxies[p].mailbox),
         UNCHANGED <<keyVars, stopFlag, inbox, multi, finished, held, done, cond>>,
         failures' \subseteq failures
  PROVE  PoolInv' /\ KeyHeard'
<1>1. Alive(p) /\ proxies[p] \in ProxyRecords /\ Heard(p, proxies[p])
  BY RunningProxy
<1>2. PICK o \in ProxyRecords : proxies' = [proxies EXCEPT ![p] = o] /\ SameButSession(r, o)
  <2> DEFINE z == CloseSession(r)
             o == OpenSession(z, FALSE)
  <2>1. SameButSession(r, z)
    BY CloseRecord DEF Reopen
  <2>2. SameButSession(z, o)
    <3>1. PICK b \in BOOLEAN : b = FALSE
      OBVIOUS
    <3>2. z \in ProxyRecords /\ o = OpenSession(z, b)
      BY <2>1, <3>1 DEF SameButSession
    <3> HIDE DEF z, o
    <3> QED BY <3>2, OpenRecord
  <2>3. proxies' = [proxies EXCEPT ![p] = o]
    BY DEF Reopen
  <2> HIDE DEF z, o
  <2>4. SameButSession(r, o) /\ o \in ProxyRecords
    BY <2>1, <2>2 DEF SameButSession
  <2> QED BY <2>3, <2>4
<1>3. /\ closing \subseteq closing'
      /\ r.session = 0 \/ <<p, r.session>> \in closing'
      /\ closing' \subseteq closing \cup ({p} \X Numbers)
  <2>1. r.session # 0 => <<p, r.session>> \in {p} \X Numbers
    BY RecordFields, SMTT(60) DEF Numbers
  <2> QED BY <2>1 DEF Reopen, ToClose
<1>4. Heard(p, o)'
  BY <1>1, <1>2 DEF Heard, SameButSession, keyVars
<1>5. HungUp(o.mailbox) => HungUp(proxies[p].mailbox)
  BY <1>2 DEF SameButSession
<1>6. MailOK(o.mailbox) /\ o.pending = proxies[p].pending /\ Sent(o.mailbox) = Sent(proxies[p].mailbox)
  BY <1>2 DEF SameButSession
<1>7. PoolTypeOK' /\ KeyHeard' /\ GenerationsOK' /\ MailboxesOK' /\ HolderExists'
  BY <1>1, <1>2, <1>3, <1>4, <1>5, <1>6, ProxyStepKeeps DEF keyVars, PoolInv, PoolTypeOK
<1>8. OnePlace' /\ CountsUnder'
  BY <1>1, <1>2, <1>6, QuietStep
<1> QED BY <1>7, <1>8 DEF PoolInv

\* The next message of p, which is not a query, is handled.
LEMMA OtherMessage ==
  ASSUME PoolInv, KeyHeard, NEW p \in Proxies, NEW kind \in {"main", "header"}, IsNext(p, kind)
  PROVE  \E r \in ProxyRecords :
           /\ r = Handled(proxies[p]) /\ r.phase = proxies[p].phase /\ r.auth = proxies[p].auth
           /\ r.pending = proxies[p].pending /\ r.session = proxies[p].session
           /\ r.updates = proxies[p].updates /\ MailOK(r.mailbox)
           /\ Sent(r.mailbox) = Sent(proxies[p].mailbox)
           /\ HungUp(r.mailbox) => HungUp(proxies[p].mailbox)
           /\ kind = "main" => Head(proxies[p].mailbox)[2] \in BOOLEAN
<1> DEFINE mb == proxies[p].mailbox
           r == Handled(proxies[p])
<1>1. /\ Running(p) /\ proxies[p] \in ProxyRecords /\ MailOK(mb) /\ mb # <<>> /\ Head(mb)[1] = kind
  BY RunningProxy DEF IsNext
<1>2. SameButMailbox(proxies[p], r, Tail(mb))
  BY <1>1, HandledRecord
<1>3. mb \in Seq(Messages)
  BY <1>1, RecordFields
<1>4. Handles(mb, Tail(mb))
  BY <1>1, <1>3, MailHandled
<1>5. /\ \A q \in Queries : Head(mb) # <<"send", q>>
      /\ kind = "main" => Head(mb)[2] \in BOOLEAN
  <2>1. Head(mb) \in Messages
    BY <1>4 DEF Handles
  <2>2. CASE kind = "main"
    BY <1>1, <2>1, <2>2, MessageKinds, MessagesDiffer
  <2>3. CASE kind = "header"
    BY <1>1, <2>1, <2>3, MessageKinds, MessagesDiffer
  <2> QED BY <2>2, <2>3
<1>6. Sent(Tail(mb)) = Sent(mb)
  BY <1>4, <1>5 DEF Handles
<1> HIDE DEF r
<1>7. r = Handled(proxies[p])
  BY SMTT(60) DEF r
<1> QED BY <1>2, <1>4, <1>5, <1>6, <1>7 DEF Handles, SameButMailbox

LEMMA HeaderKeeps ==
  ASSUME CountingRules, PoolInv, KeyHeard, NEW p \in Proxies, ProxyUpdateMtprotoHeader(p)
  PROVE  PoolInv' /\ KeyHeard'
<1>1. IsNext(p, "header") /\ Running(p)
  BY DEF ProxyUpdateMtprotoHeader, IsNext
<1>2. PICK r \in ProxyRecords :
        /\ r = Handled(proxies[p]) /\ r.phase = proxies[p].phase /\ r.auth = proxies[p].auth
        /\ r.pending = proxies[p].pending /\ r.session = proxies[p].session
        /\ r.updates = proxies[p].updates /\ MailOK(r.mailbox)
        /\ Sent(r.mailbox) = Sent(proxies[p].mailbox)
        /\ HungUp(r.mailbox) => HungUp(proxies[p].mailbox)
  BY <1>1, OtherMessage
<1>3. Reopen(p, r)
  BY <1>2 DEF ProxyUpdateMtprotoHeader
<1>4. /\ UNCHANGED <<keyVars, stopFlag, inbox, multi, finished, held, done, cond>>
      /\ failures' \subseteq failures
  BY DEF ProxyUpdateMtprotoHeader
<1> QED BY <1>1, <1>2, <1>3, <1>4, ReopenKeeps

LEMMA MainFlagKeeps ==
  ASSUME CountingRules, PoolInv, KeyHeard, NEW p \in Proxies, ProxyUpdateMainFlag(p)
  PROVE  PoolInv' /\ KeyHeard'
<1>1. IsNext(p, "main") /\ Running(p) /\ Alive(p) /\ Heard(p, proxies[p])
  BY RunningProxy DEF ProxyUpdateMainFlag, IsNext
<1>2. PICK r \in ProxyRecords :
        /\ r = Handled(proxies[p]) /\ r.phase = proxies[p].phase /\ r.auth = proxies[p].auth
        /\ r.pending = proxies[p].pending /\ r.session = proxies[p].session
        /\ r.updates = proxies[p].updates /\ MailOK(r.mailbox)
        /\ Sent(r.mailbox) = Sent(proxies[p].mailbox)
        /\ HungUp(r.mailbox) => HungUp(proxies[p].mailbox)
        /\ Head(proxies[p].mailbox)[2] \in BOOLEAN
  BY <1>1, OtherMessage
<1>3. UNCHANGED <<keyVars, stopFlag, inbox, multi, finished, held, failures, done, cond>>
  BY DEF ProxyUpdateMainFlag
<1>4. CASE proxies' = [proxies EXCEPT ![p] = Handled(@)] /\ UNCHANGED closing
  <2>1. proxies' = [proxies EXCEPT ![p] = r]
    BY <1>2, <1>4
  <2>2. Heard(p, r)'
    BY <1>1, <1>2, <1>3 DEF Heard, keyVars
  <2>3. PoolTypeOK' /\ KeyHeard' /\ GenerationsOK' /\ MailboxesOK' /\ HolderExists'
    BY <1>1, <1>2, <1>3, <1>4, <2>1, <2>2, ProxyStepKeeps DEF keyVars, PoolInv, PoolTypeOK
  <2>4. OnePlace' /\ CountsUnder'
    BY <1>1, <1>2, <1>3, <2>1, QuietStep
  <2> QED BY <2>3, <2>4 DEF PoolInv
<1>5. CASE Reopen(p, [Handled(proxies[p]) EXCEPT !.main = Head(proxies[p].mailbox)[2]])
  <2>1. PICK z \in ProxyRecords : z = WithMain(r, Head(proxies[p].mailbox)[2]) /\ SameBut(r, z, {"main"})
    <3>1. PICK b \in BOOLEAN : b = Head(proxies[p].mailbox)[2]
      BY <1>2
    <3>2. SameBut(r, WithMain(r, b), {"main"})
      BY MainOfRecord
    <3>3. WithMain(r, b) \in ProxyRecords
      BY <3>2 DEF SameBut
    <3> QED BY <3>1, <3>2, <3>3
  <2>2. Reopen(p, z)
    BY <1>2, <1>5, <2>1 DEF WithMain
  <2>3. /\ z.phase = r.phase /\ z.auth = r.auth /\ z.pending = r.pending /\ z.session = r.session
        /\ z.updates = r.updates /\ z.mailbox = r.mailbox
    BY <2>1 DEF SameBut
  <2> QED BY <1>1, <1>2, <1>3, <2>2, <2>3, ReopenKeeps
<1> QED BY <1>4, <1>5 DEF ProxyUpdateMainFlag

LEMMA OnFailedKeeps ==
  ASSUME CountingRules, PoolInv, KeyHeard, NEW s \in Sessions, ProxyOnFailed(s)
  PROVE  PoolInv' /\ KeyHeard'
<1>1. s[1] \in Proxies /\ Running(s[1])
  BY SMTT(60) DEF Sessions, ProxyOnFailed
<1>2. PICK p \in Proxies : p = s[1]
  BY <1>1
<1>3. Running(p) /\ Alive(p) /\ proxies[p] \in ProxyRecords /\ MailOK(proxies[p].mailbox)
  BY <1>1, <1>2, RunningProxy
<1>4. /\ UNCHANGED <<keyVars, stopFlag, inbox, multi, finished, held, done, cond>>
      /\ failures' \subseteq failures
  BY DEF ProxyOnFailed
<1>5. CASE Reopen(p, proxies[p])
  <2>1. PICK r \in ProxyRecords : r = proxies[p]
    BY <1>3
  <2> QED BY <1>3, <1>4, <1>5, <2>1, ReopenKeeps
<1>6. CASE UNCHANGED <<proxies, closing>>
  <2>1. PoolTypeOK' /\ KeyHeard' /\ GenerationsOK' /\ MailboxesOK' /\ HolderExists'
    BY <1>4, <1>6 DEF PoolInv, PoolTypeOK, KeyHeard, GenerationsOK, MailboxesOK, HolderExists,
         Alive, Current, CurrentAt, Unused, Exists, IsOpen, keyVars
  <2>2. \A r \in Proxies : InMailbox(r)' = InMailbox(r) /\ PendingIn(r)' = PendingIn(r)
    BY <1>6 DEF InMailbox, PendingIn, Alive
  <2>3. OnePlace' /\ CountsUnder'
    BY <1>4, <2>2, NothingMoves
  <2> QED BY <2>1, <2>3 DEF PoolInv
<1> QED BY <1>2, <1>5, <1>6 DEF ProxyOnFailed

\* The next message of p, a query, is handled.
LEMMA QueryMessage ==
  ASSUME PoolInv, KeyHeard, NEW p \in Proxies, IsNext(p, "send")
  PROVE  \E r \in ProxyRecords, q \in Queries :
           /\ r = Handled(proxies[p]) /\ r.phase = proxies[p].phase /\ r.auth = proxies[p].auth
           /\ r.pending = proxies[p].pending /\ r.session = proxies[p].session
           /\ r.updates = proxies[p].updates /\ MailOK(r.mailbox)
           /\ q = Head(proxies[p].mailbox)[2] /\ q \in Sent(proxies[p].mailbox)
           /\ Sent(r.mailbox) = Sent(proxies[p].mailbox) \ {q}
           /\ HungUp(r.mailbox) => HungUp(proxies[p].mailbox)
<1> DEFINE mb == proxies[p].mailbox
           r == Handled(proxies[p])
           q == Head(mb)[2]
<1>1. /\ Running(p) /\ proxies[p] \in ProxyRecords /\ MailOK(mb) /\ mb # <<>> /\ Head(mb)[1] = "send"
  BY RunningProxy DEF IsNext
<1>2. SameButMailbox(proxies[p], r, Tail(mb))
  BY <1>1, HandledRecord
<1>3. mb \in Seq(Messages)
  BY <1>1, RecordFields
<1>4. Handles(mb, Tail(mb))
  BY <1>1, <1>3, MailHandled
<1>5. q \in Queries /\ Head(mb) = <<"send", q>>
  BY <1>1, <1>4, MessageKinds DEF Handles
<1>6. Sent(Tail(mb)) = Sent(mb) \ {q} /\ q \in Sent(mb)
  <2>1. {x \in Queries : Head(mb) = <<"send", x>>} = {q}
    BY <1>5, MessagesDiffer
  <2>2. Sent(Tail(mb)) = Sent(mb) \ {x \in Queries : Head(mb) = <<"send", x>>}
    BY <1>4 DEF Handles
  <2>3. q \in Sent(mb)
    BY <1>4, <1>5 DEF Handles
  <2> QED BY <2>1, <2>2, <2>3
<1> HIDE DEF r, q
<1>7. r = Handled(proxies[p]) /\ q = Head(mb)[2]
  BY SMTT(60) DEF r, q
<1> QED BY <1>2, <1>4, <1>5, <1>6, <1>7 DEF Handles, SameButMailbox

LEMMA SessionOfRecord ==
  ASSUME NEW p \in Proxies, NEW r \in ProxyRecords, r.session # 0
  PROVE  \E s \in Sessions : s = <<p, r.session>> /\ s[1] = p /\ s[2] = r.session
<1>1. r.session \in 0..MaxSession
  BY RecordFields
<1>2. r.session \in 1..MaxSession
  BY <1>1, PoolAssumption, SMTT(60)
<1>3. <<p, r.session>> \in Sessions
  BY <1>2 DEF Sessions
<1> QED BY <1>3, SMTT(60)

LEMMA SendKeeps ==
  ASSUME CountingRules, PoolInv, KeyHeard, NEW p \in Proxies, ProxySend(p)
  PROVE  PoolInv' /\ KeyHeard'
<1>1. /\ IsNext(p, "send") /\ Running(p) /\ Alive(p) /\ Heard(p, proxies[p])
      /\ proxies[p].phase = "running" /\ PoolTypeOK
  BY RunningProxy DEF ProxySend, IsNext, Running, PoolInv
<1>2. PICK r \in ProxyRecords, q \in Queries :
        /\ r = Handled(proxies[p]) /\ r.phase = proxies[p].phase /\ r.auth = proxies[p].auth
        /\ r.pending = proxies[p].pending /\ r.session = proxies[p].session
        /\ r.updates = proxies[p].updates /\ MailOK(r.mailbox)
        /\ q = Head(proxies[p].mailbox)[2] /\ q \in Sent(proxies[p].mailbox)
        /\ Sent(r.mailbox) = Sent(proxies[p].mailbox) \ {q}
        /\ HungUp(r.mailbox) => HungUp(proxies[p].mailbox)
  BY <1>1, QueryMessage
<1>3. UNCHANGED <<keyVars, stopFlag, inbox, multi, finished, closing, failures, done, cond>>
  BY DEF ProxySend
<1>4. CASE q \in AuthQueries /\ r.auth # "OK"
  <2>1. r.pending \cup {q} \in QuerySets
    BY RecordFields DEF QuerySets
  <2>2. SameBut(r, WithPending(r, r.pending \cup {q}), {"pending"})
        /\ WithPending(r, r.pending \cup {q}).pending = r.pending \cup {q}
    BY <2>1, PendingOfRecord
  <2>3. PICK o \in ProxyRecords : /\ o = WithPending(r, r.pending \cup {q})
                                  /\ SameBut(r, o, {"pending"}) /\ o.pending = r.pending \cup {q}
    BY <2>2 DEF SameBut
  <2>4. proxies' = [proxies EXCEPT ![p] = o] /\ held' = held
    BY <1>2, <1>4, <2>3 DEF ProxySend, WithPending
  <2>5. /\ o.phase = r.phase /\ o.auth = r.auth /\ o.updates = r.updates /\ o.session = r.session
        /\ o.mailbox = r.mailbox
    BY <2>3 DEF SameBut
  <2>6. Heard(p, o)'
    BY <1>1, <1>2, <1>3, <1>4, <2>5 DEF Heard, keyVars
  <2>7. PoolTypeOK' /\ KeyHeard' /\ GenerationsOK' /\ MailboxesOK' /\ HolderExists'
    BY <1>1, <1>2, <1>3, <2>4, <2>5, <2>6, ProxyStepKeeps DEF keyVars, PoolInv, PoolTypeOK
  <2>8. OneChanges(p, o)
    BY <1>1, <2>4, OneProxyChanges
  <2>9. PICK x, y, Q : /\ x \in Places /\ y \in Places
          /\ x = <<"mailbox", p>> /\ y = <<"pending", p>> /\ x # y /\ Q = {q}
    BY PlaceKinds, PlacesDiffer
  <2>10. Moves(x, y, Q)
    BY <1>1, <1>2, <1>3, <2>3, <2>4, <2>5, <2>8, <2>9, PlacesDiffer DEF Moves, OneChanges
  <2>11. Q \subseteq Contents(x) /\ Q \subseteq Queries
    BY <1>1, <1>2, <2>8, <2>9, ContentsAre DEF OneChanges
  <2>12. Balanced(x, y, Q)
    <3>1. \A z \in Proxies : x \in PlacesUnder(z) <=> y \in PlacesUnder(z)
      BY <2>9, UnderKinds
    <3> QED BY <1>1, <1>3, <2>11, <3>1, StaysBalanced
  <2>13. OnePlace' /\ CountsUnder'
    BY <2>9, <2>10, <2>11, <2>12, MoveKeeps
  <2> QED BY <2>7, <2>13 DEF PoolInv
<1>5. CASE ~(q \in AuthQueries /\ r.auth # "OK")
  <2>1. PICK o \in ProxyRecords : /\ o = OpenSession(r, TRUE) /\ SameButSession(r, o)
                                  /\ o.session = r.session \/ r.session = 0
                                  /\ o.session # 0
    <3>1. PICK o : o = OpenSession(r, TRUE)
      OBVIOUS
    <3>2. ShouldOpen(r, TRUE)
      BY DEF ShouldOpen
    <3>3. PICK b \in BOOLEAN : b = TRUE
      OBVIOUS
    <3>4. SameButSession(r, o) /\ (o.session = r.session \/ r.session = 0) /\ o.session # 0
      <4>1. o = OpenSession(r, b) /\ ShouldOpen(r, b)
        BY <3>1, <3>2, <3>3
      <4> QED BY <4>1, OpenRecord
    <3> QED BY <3>1, <3>4 DEF SameButSession
  <2>2. PICK s \in Sessions : s = <<p, o.session>> /\ s[1] = p /\ s[2] = o.session
    BY <2>1, SessionOfRecord
  <2>3. proxies' = [proxies EXCEPT ![p] = o] /\ held' = [held EXCEPT ![s] = @ \cup {q}]
    BY <1>2, <1>5, <2>1, <2>2 DEF ProxySend
  <2>4. /\ o.phase = r.phase /\ o.auth = r.auth /\ o.updates = r.updates /\ o.pending = r.pending
        /\ o.mailbox = r.mailbox
    BY <2>1 DEF SameButSession
  <2>5. Heard(p, o)'
    BY <1>1, <1>2, <1>3, <2>4 DEF Heard, keyVars
  <2>6. /\ held' \in [Sessions -> SUBSET Queries]
        /\ \A z \in Sessions : held'[z] = IF z = s THEN held[z] \cup {q} ELSE held[z]
    BY <1>1, <2>3 DEF PoolTypeOK
  <2>7. PoolTypeOK' /\ KeyHeard' /\ GenerationsOK' /\ MailboxesOK' /\ HolderExists'
    <3>1. \A z \in Sessions : held'[z] # {} => held[z] # {} \/ (z = <<p, o.session>> /\ o.session # 0)
      BY <2>1, <2>2, <2>6
    <3>2. o.session = proxies[p].session \/ proxies[p].session = 0
      BY <1>2, <2>1
    <3>3. /\ listeners \subseteq Proxies /\ failures \subseteq Sessions
          /\ MailOK(o.mailbox)
          /\ HungUp(o.mailbox) => HungUp(proxies[p].mailbox)
      BY <1>1, <1>2, <2>4 DEF PoolTypeOK
    <3>4. held' \in [Sessions -> SUBSET Queries]
      BY <2>6
    <3> QED BY <1>1, <1>3, <2>3, <2>5, <3>1, <3>2, <3>3, <3>4, ProxyStepKeeps DEF keyVars
  <2>8. OneChanges(p, o)
    BY <1>1, <2>3, OneProxyChanges
  <2>9. PICK x, y, Q : /\ x \in Places /\ y \in Places
          /\ x = <<"mailbox", p>> /\ y = <<"held", s>> /\ x # y /\ Q = {q}
    BY PlaceKinds, PlacesDiffer
  <2>10. Moves(x, y, Q)
    <3>1. \A z \in Proxies :
            /\ InMailbox(z)' = IF z = p THEN InMailbox(z) \ {q} ELSE InMailbox(z)
            /\ PendingIn(z)' = PendingIn(z)
      BY <1>1, <1>2, <2>4, <2>8 DEF OneChanges
    <3> QED BY <1>3, <2>6, <2>9, <3>1, PlacesDiffer DEF Moves
  <2>11. Q \subseteq Contents(x) /\ Q \subseteq Queries
    BY <1>1, <1>2, <2>8, <2>9, ContentsAre DEF OneChanges
  <2>12. Balanced(x, y, Q)
    <3>1. \A z \in Proxies : x \in PlacesUnder(z) <=> y \in PlacesUnder(z)
      BY <2>2, <2>9, UnderKinds
    <3> QED BY <1>1, <1>3, <2>11, <3>1, StaysBalanced
  <2>13. OnePlace' /\ CountsUnder'
    BY <2>9, <2>10, <2>11, <2>12, MoveKeeps
  <2> QED BY <2>7, <2>13 DEF PoolInv
<1> QED BY <1>4, <1>5

\* update_auth_key_state makes f of the record of the proxy and sends the queries
\* Q to the session f then has.
Updated(p, f, Q) ==
  /\ proxies' = [proxies EXCEPT ![p] = f]
  /\ held' = IF Q = {} THEN held ELSE [held EXCEPT ![<<p, f.session>>] = @ \cup Q]
  /\ Q \subseteq proxies[p].pending /\ f.pending = proxies[p].pending \ Q
  /\ Q # {} => f.session # 0
  /\ f.phase = proxies[p].phase /\ f.mailbox = proxies[p].mailbox /\ f.auth = key
  /\ f.auth = "OK" => f.pending = {}
  /\ f.session = proxies[p].session \/ proxies[p].session = 0 \/ <<p, proxies[p].session>> \in closing'
  /\ closing \subseteq closing' /\ closing' \subseteq closing \cup ({p} \X Numbers)

LEMMA UpdateRecord ==
  ASSUME PoolInv, KeyHeard, NEW p \in Proxies, ProxyUpdateAuthKeyState(p)
  PROVE  \E f \in ProxyRecords : \E Q : Updated(p, f, Q)
<1> DEFINE old == proxies[p]
           lost == LosesKey(old)
           c == IF lost THEN CloseSession(old) ELSE old
           a == WithAuth(c, key)
           r == WithUpdates(a, a.updates - 1)
           o == OpenSession(r, FALSE)
           Q == Flushable(r, o)
           f == WithPending(o, o.pending \ Q)
<1>1. Running(p) /\ old \in ProxyRecords /\ old.updates > 0 /\ key \in KeyStates
  BY RunningProxy DEF ProxyUpdateAuthKeyState, PoolInv, PoolTypeOK
<1>2. /\ lost => MayClose(old)
      /\ closing' = IF lost THEN closing \cup ToClose(p, old) ELSE closing
      /\ proxies' = [proxies EXCEPT ![p] = f]
      /\ held' = IF Q = {} THEN held ELSE [held EXCEPT ![<<p, o.session>>] = @ \cup Q]
  BY DEF ProxyUpdateAuthKeyState, Flushed, WithAuth, WithUpdates, WithPending
<1>3. SameButSession(old, c) /\ (lost \/ c.session = old.session)
  <2>1. CASE lost
    BY <1>1, <1>2, <2>1, CloseRecord
  <2>2. CASE ~lost
    BY <1>1, <2>2 DEF SameButSession
  <2> QED BY <2>1, <2>2
<1> HIDE DEF c
<1>4. SameBut(c, a, {"auth"}) /\ a.auth = key
  <2>1. c \in ProxyRecords
    BY <1>3 DEF SameButSession
  <2> QED BY <1>1, <2>1, AuthOfRecord
<1> HIDE DEF a
<1>5. SameBut(a, r, {"updates"})
  <2>1. a \in ProxyRecords /\ a.updates = old.updates
    BY <1>3, <1>4 DEF SameBut, SameButSession
  <2>2. a.updates - 1 \in Nat
    BY <1>1, <2>1, RecordFields, SMTT(60)
  <2> QED BY <2>1, <2>2, UpdatesOfRecord
<1> HIDE DEF r
<1>6. /\ SameButSession(r, o)
      /\ o.session = r.session \/ (r.session = 0 /\ o.session # 0)
      /\ ShouldOpen(r, FALSE) => o.session # 0
  <2>1. r \in ProxyRecords
    BY <1>5 DEF SameBut
  <2>2. PICK b \in BOOLEAN : b = FALSE
    OBVIOUS
  <2> QED BY <2>1, <2>2, OpenRecord
<1> HIDE DEF o
<1>7. /\ o \in ProxyRecords /\ o.phase = old.phase /\ o.mailbox = old.mailbox
      /\ o.pending = old.pending /\ o.auth = key
      /\ r.pending = old.pending /\ r.auth = key
      /\ lost \/ o.session = old.session \/ old.session = 0
  BY <1>3, <1>4, <1>5, <1>6 DEF SameBut, SameButSession
<1>8. Q \subseteq old.pending /\ (Q # {} => o.session # 0)
  BY <1>7 DEF Flushable
<1>9. key = "OK" => old.pending \ Q = {}
  <2> SUFFICES ASSUME key = "OK" PROVE old.pending \subseteq Q
    OBVIOUS
  <2>1. CASE o.session # 0
    BY <1>7, <2>1 DEF Flushable
  <2>2. CASE o.session = 0
    <3>1. ~ShouldOpen(r, FALSE)
      BY <1>6, <2>2
    <3>2. r.auth # "Empty" /\ r.auth = "OK"
      BY <1>7
    <3> QED BY <1>7, <3>1, <3>2 DEF ShouldOpen
  <2> QED BY <2>1, <2>2
<1> HIDE DEF Q
<1>10. SameBut(o, f, {"pending"}) /\ f.pending = o.pending \ Q
  <2>1. o.pending \ Q \in QuerySets
    BY <1>7, RecordFields DEF QuerySets
  <2> QED BY <1>7, <2>1, PendingOfRecord
<1> HIDE DEF f
<1>11. /\ f \in ProxyRecords /\ f.phase = old.phase /\ f.mailbox = old.mailbox /\ f.auth = key
       /\ f.session = o.session /\ f.pending = old.pending \ Q
  BY <1>7, <1>10 DEF SameBut
<1>12. /\ lost => old.session = 0 \/ <<p, old.session>> \in closing'
       /\ closing \subseteq closing' /\ closing' \subseteq closing \cup ({p} \X Numbers)
  <2>1. old.session # 0 => <<p, old.session>> \in {p} \X Numbers
    BY <1>1, RecordFields, SMTT(60) DEF Numbers
  <2> QED BY <1>2, <2>1 DEF ToClose
<1>13. f.session = old.session \/ old.session = 0 \/ <<p, old.session>> \in closing'
  BY <1>7, <1>11, <1>12
<1>14. held' = IF Q = {} THEN held ELSE [held EXCEPT ![<<p, f.session>>] = @ \cup Q]
  BY <1>2, <1>11
<1>15. f.auth = "OK" => f.pending = {}
  BY <1>9, <1>11
<1>16. proxies' = [proxies EXCEPT ![p] = f]
  BY <1>2
<1>17. Updated(p, f, Q)
  BY <1>8, <1>11, <1>12, <1>13, <1>14, <1>15, <1>16 DEF Updated
<1> QED BY <1>11, <1>17

LEMMA UpdateKeeps ==
  ASSUME CountingRules, PoolInv, KeyHeard, NEW p \in Proxies, ProxyUpdateAuthKeyState(p)
  PROVE  PoolInv' /\ KeyHeard'
<1>1. /\ Running(p) /\ Alive(p) /\ Heard(p, proxies[p]) /\ proxies[p] \in ProxyRecords
      /\ proxies[p].phase = "running" /\ PoolTypeOK /\ MailOK(proxies[p].mailbox)
  BY RunningProxy DEF ProxyUpdateAuthKeyState, Running, PoolInv
<1>0. PICK f \in ProxyRecords : \E Q : Updated(p, f, Q)
  BY UpdateRecord
<1>2. PICK Q : Updated(p, f, Q)
  BY <1>0
<1>3. UNCHANGED <<keyVars, stopFlag, inbox, multi, finished, failures, done, cond>>
  BY DEF ProxyUpdateAuthKeyState
<1>4. proxies' = [proxies EXCEPT ![p] = f] /\ f.mailbox = proxies[p].mailbox
  BY <1>2 DEF Updated
<1>5. Heard(p, f)'
  BY <1>1, <1>2, <1>3 DEF Updated, Heard, keyVars
<1>6. Q \subseteq Queries
  BY <1>1, <1>2, RecordFields DEF Updated
<1>7. CASE Q = {}
  <2>1. held' = held /\ f.pending = proxies[p].pending
    BY <1>2, <1>7 DEF Updated
  <2>2. PoolTypeOK' /\ KeyHeard' /\ GenerationsOK' /\ MailboxesOK' /\ HolderExists'
    BY <1>1, <1>2, <1>3, <1>4, <1>5, <2>1, ProxyStepKeeps DEF keyVars, PoolTypeOK, Updated
  <2>3. OnePlace' /\ CountsUnder'
    BY <1>1, <1>3, <1>4, <2>1, QuietStep
  <2> QED BY <2>2, <2>3 DEF PoolInv
<1>8. CASE Q # {}
  <2>1. PICK s \in Sessions : s = <<p, f.session>> /\ s[1] = p /\ s[2] = f.session
    BY <1>2, <1>8, SessionOfRecord DEF Updated
  <2>2. held' = [held EXCEPT ![s] = @ \cup Q] /\ f.session # 0
    BY <1>2, <1>8, <2>1 DEF Updated
  <2>3. /\ held' \in [Sessions -> SUBSET Queries]
        /\ \A z \in Sessions : held'[z] = IF z = s THEN held[z] \cup Q ELSE held[z]
    BY <1>1, <1>6, <2>2 DEF PoolTypeOK
  <2>4. PoolTypeOK' /\ KeyHeard' /\ GenerationsOK' /\ MailboxesOK' /\ HolderExists'
    <3>1. \A z \in Sessions : held'[z] # {} => held[z] # {} \/ (z = <<p, f.session>> /\ f.session # 0)
      BY <2>1, <2>2, <2>3
    <3>2. /\ f.session = proxies[p].session \/ proxies[p].session = 0
               \/ <<p, proxies[p].session>> \in closing'
          /\ closing \subseteq closing' /\ closing' \subseteq closing \cup ({p} \X Numbers)
      BY <1>2 DEF Updated
    <3>3. listeners \subseteq Proxies /\ failures \subseteq Sessions
      BY <1>1 DEF PoolTypeOK
    <3>4. held' \in [Sessions -> SUBSET Queries]
      BY <2>3
    <3> QED BY <1>1, <1>3, <1>4, <1>5, <3>1, <3>2, <3>3, <3>4, ProxyStepKeeps DEF keyVars
  <2>5. OneChanges(p, f)
    BY <1>1, <1>4, OneProxyChanges
  <2>6. PICK x \in Places, y \in Places : x = <<"pending", p>> /\ y = <<"held", s>> /\ x # y
    BY PlaceKinds, PlacesDiffer
  <2>7. Moves(x, y, Q)
    <3>1. f.pending = proxies[p].pending \ Q
      BY <1>2 DEF Updated
    <3>2. \A z \in Proxies :
            /\ InMailbox(z)' = InMailbox(z)
            /\ PendingIn(z)' = IF z = p THEN PendingIn(z) \ Q ELSE PendingIn(z)
      BY <1>1, <1>4, <2>5, <3>1 DEF OneChanges
    <3> QED BY <1>3, <2>3, <2>6, <3>2, PlacesDiffer DEF Moves
  <2>8. Q \subseteq Contents(x)
    <3>1. Q \subseteq proxies[p].pending
      BY <1>2 DEF Updated
    <3> QED BY <1>1, <2>5, <2>6, <3>1, ContentsAre DEF OneChanges
  <2>9. Balanced(x, y, Q)
    <3>1. \A z \in Proxies : x \in PlacesUnder(z) <=> y \in PlacesUnder(z)
      BY <2>1, <2>6, UnderKinds
    <3> QED BY <1>1, <1>3, <1>6, <3>1, StaysBalanced
  <2>10. OnePlace' /\ CountsUnder'
    BY <1>6, <2>6, <2>7, <2>8, <2>9, MoveKeeps
  <2> QED BY <2>4, <2>10 DEF PoolInv
<1> QED BY <1>7, <1>8

\* Queries that are given back go to the SessionMultiProxy or to their callback.
Arrive(y, Q) ==
  /\ y = <<"inbox">> \/ y = <<"done">>
  /\ inbox' = IF y = <<"inbox">> THEN inbox \cup Q ELSE inbox
  /\ done' = IF y = <<"done">> THEN done \cup Q ELSE done

LEMMA DispatchArrives ==
  ASSUME NEW Q, Dispatch(Q)
  PROVE  \E y \in Places : Arrive(y, Q)
<1>1. CASE stopFlag
  <2>1. Arrive(<<"done">>, Q)
    BY <1>1, PlacesDiffer DEF Dispatch, Arrive
  <2> QED BY <2>1, PlaceKinds
<1>2. CASE ~stopFlag
  <2>1. Arrive(<<"inbox">>, Q)
    BY <1>2, PlacesDiffer DEF Dispatch, Arrive
  <2> QED BY <2>1, PlaceKinds
<1> QED BY <1>1, <1>2

LEMMA ArriveFacts ==
  ASSUME PoolTypeOK, NEW y \in Places, NEW Q, Q \subseteq Queries, Arrive(y, Q)
  PROVE  /\ inbox' \subseteq Queries /\ done' \subseteq Queries
         /\ \A p \in Proxies : y \notin PlacesUnder(p)
         /\ \A p : y # <<"mailbox", p>> /\ y # <<"pending", p>> /\ y # <<"held", p>>
<1>1. inbox' \subseteq Queries /\ done' \subseteq Queries
  BY DEF Arrive, PoolTypeOK
<1>2. \A p \in Proxies : y \notin PlacesUnder(p)
  BY UnderKinds DEF Arrive
<1>3. \A p : y # <<"mailbox", p>> /\ y # <<"pending", p>> /\ y # <<"held", p>>
  BY PlacesDiffer DEF Arrive
<1> QED BY <1>1, <1>2, <1>3

\* The queries Q leave the proxy p, which tells the SessionMultiProxy if that
\* still counts them.
LEMMA LeaveBalanced ==
  ASSUME CountingRules, PoolTypeOK, UNCHANGED multi, NEW p \in Proxies, NEW x, NEW y, NEW Q, Q \subseteq Queries,
         \A r \in Proxies : y \notin PlacesUnder(r) /\ (x \in PlacesUnder(r) <=> r = p),
         \A r \in Proxies : finished'[r] = IF r = p /\ p \in Current THEN finished[r] + Cardinality(Q)
                                           ELSE IF r = p THEN finished'[r] ELSE finished[r]
  PROVE  Balanced(x, y, Q)
<1> SUFFICES ASSUME NEW r \in Current'
             PROVE  /\ r \in Current /\ r \in Proxies
                    /\ multi.queryCount[r[2]] \in Int /\ multi'.queryCount[r[2]] \in Int
                    /\ finished[r] \in Int /\ finished'[r] \in Int
                    /\ multi'.queryCount[r[2]] - finished'[r] =
                         multi.queryCount[r[2]] - finished[r]
                           + (IF y \in PlacesUnder(r) THEN Cardinality(Q) ELSE 0)
                           - (IF x \in PlacesUnder(r) THEN Cardinality(Q) ELSE 0)
  BY DEF Balanced
<1>1. r \in Current
  BY DEF Current, CurrentAt
<1>2. r \in Proxies /\ r[2] \in 0..multi.count - 1
  BY <1>1, CurrentAreProxies
<1>3. multi.queryCount[r[2]] \in Int /\ finished[r] \in Nat
  BY <1>2 DEF PoolTypeOK
<1>4. Cardinality(Q) \in Nat
  BY UnderFinite
<1>5. y \notin PlacesUnder(r) /\ (x \in PlacesUnder(r) <=> r = p)
  BY <1>2
<1>6. finished'[r] = IF r = p THEN finished[r] + Cardinality(Q) ELSE finished[r]
  BY <1>1, <1>2
<1> QED BY <1>1, <1>2, <1>3, <1>4, <1>5, <1>6, SMTT(60)

LEMMA HangupKeeps ==
  ASSUME CountingRules, PoolInv, KeyHeard, NEW p \in Proxies, ProxyHangup(p)
  PROVE  PoolInv' /\ KeyHeard'
<1> DEFINE old == proxies[p]
           mb == old.mailbox
<1>1. /\ Running(p) /\ Alive(p) /\ old \in ProxyRecords /\ MailOK(mb) /\ mb # <<>>
      /\ Head(mb)[1] = "hangup" /\ PoolTypeOK
  BY RunningProxy DEF ProxyHangup, IsNext, PoolInv
<1>2. HungUp(mb) /\ Sent(mb) = {}
  <2>1. mb \in Seq(Messages)
    BY <1>1, RecordFields
  <2>2. Handles(mb, Tail(mb))
    BY <1>1, <2>1, MailHandled
  <2>3. Head(mb) = <<"hangup">>
    BY <1>1, <2>2, MessageKinds DEF Handles
  <2> QED BY <2>2, <2>3 DEF Handles
<1>3. p \notin Current
  BY <1>2 DEF PoolInv, GenerationsOK
<1>4. /\ UNCHANGED <<keyVars, stopFlag, multi, held, cond>>
      /\ proxies' = [proxies EXCEPT ![p] = Dead]
      /\ closing' = closing \cup ToClose(p, old)
      /\ failures' \subseteq failures
  BY DEF ProxyHangup
<1>5. PICK Q : Q = old.pending /\ Q \subseteq Queries
  BY <1>1, RecordFields
<1>6. PICK y \in Places : Arrive(y, Q)
  BY <1>5, DispatchArrives DEF ProxyHangup, TearDown
<1>7. /\ inbox' \subseteq Queries /\ done' \subseteq Queries
      /\ \A r \in Proxies : y \notin PlacesUnder(r)
      /\ \A r : y # <<"mailbox", r>> /\ y # <<"pending", r>> /\ y # <<"held", r>>
  BY <1>1, <1>5, <1>6, ArriveFacts
<1>8. /\ finished' \in [Proxies -> Nat]
      /\ \A r \in Proxies : r # p => finished'[r] = finished[r]
  <2>1. Cardinality(Q) \in Nat
    BY <1>5, UnderFinite
  <2>2. finished[p] \in Nat
    BY <1>1 DEF PoolTypeOK
  <2>3. finished[p] + Cardinality(Q) \in Nat
    BY <2>1, <2>2, SMTT(60)
  <2>4. finished' = IF multi.alive THEN [finished EXCEPT ![p] = finished[p] + Cardinality(Q)] ELSE finished
    BY <1>5 DEF ProxyHangup, TearDown
  <2> QED BY <1>1, <2>3, <2>4 DEF PoolTypeOK
<1>9. OneChanges(p, Dead)
  BY <1>1, <1>4, OneProxyChanges
<1>10. OnePlace' /\ CountsUnder'
  <2>1. PICK x \in Places : x = <<"pending", p>> /\ x # y
    BY <1>7, PlaceKinds
  <2>2. Moves(x, y, Q)
    <3>1. \A z \in Proxies :
            /\ InMailbox(z)' = InMailbox(z)
            /\ PendingIn(z)' = IF z = p THEN PendingIn(z) \ Q ELSE PendingIn(z)
      BY <1>1, <1>2, <1>5, <1>9 DEF OneChanges
    <3> QED BY <1>4, <1>6, <1>7, <2>1, <3>1, PlacesDiffer DEF Moves, Arrive
  <2>3. Q \subseteq Contents(x)
    BY <1>1, <1>5, <1>9, <2>1, ContentsAre DEF OneChanges
  <2>4. Balanced(x, y, Q)
    <3>1. \A r \in Proxies : y \notin PlacesUnder(r) /\ (x \in PlacesUnder(r) <=> r = p)
      BY <1>7, <2>1, UnderKinds
    <3>2. \A r \in Proxies : finished'[r] = IF r = p /\ p \in Current THEN finished[r] + Cardinality(Q)
                                            ELSE IF r = p THEN finished'[r] ELSE finished[r]
      BY <1>3, <1>8
    <3> QED BY <1>1, <1>4, <1>5, <3>1, <3>2, LeaveBalanced
  <2> QED BY <1>5, <2>1, <2>2, <2>3, <2>4, MoveKeeps
<1>11. /\ closing \subseteq closing' /\ closing' \subseteq closing \cup ({p} \X Numbers)
       /\ old.session = 0 \/ <<p, old.session>> \in closing'
  <2>1. old.session # 0 => <<p, old.session>> \in {p} \X Numbers
    BY <1>1, RecordFields, SMTT(60) DEF Numbers
  <2> QED BY <1>4, <2>1 DEF ToClose
<1>12. PoolTypeOK'
  <2>1. proxies' \in [Proxies -> ProxyRecords \cup {Absent, Dead}]
    BY <1>1, <1>4 DEF PoolTypeOK
  <2>2. closing' \subseteq Sessions
    <3>1. {p} \X Numbers \subseteq Sessions
      BY SMTT(60) DEF Sessions, Numbers
    <3> QED BY <1>1, <1>11, <3>1 DEF PoolTypeOK
  <2> QED BY <1>1, <1>4, <1>7, <1>8, <2>1, <2>2 DEF PoolTypeOK, keyVars
<1>13. KeyHeard'
  <2> SUFFICES ASSUME NEW r \in Proxies, Alive(r)' PROVE Heard(r, proxies[r])'
    BY DEF KeyHeard, Heard
  <2>1. r # p /\ Alive(r) /\ proxies'[r] = proxies[r]
    BY <1>9 DEF OneChanges
  <2> QED BY <1>4, <2>1 DEF KeyHeard, Heard, keyVars
<1>14. MailboxesOK'
  BY <1>9 DEF OneChanges, PoolInv, MailboxesOK
<1>15. HolderExists'
  <2> SUFFICES ASSUME NEW s \in Sessions, held[s] # {} PROVE Exists(s)'
    BY <1>4 DEF HolderExists
  <2>1. Exists(s)
    BY DEF PoolInv, HolderExists
  <2>2. CASE s \in closing
    BY <1>11, <2>2 DEF Exists
  <2>3. CASE IsOpen(s) /\ s[1] # p
    <3>1. s[1] \in Proxies
      BY SMTT(60) DEF Sessions
    <3> QED BY <1>9, <2>3, <3>1 DEF OneChanges, IsOpen, Exists
  <2>4. CASE IsOpen(s) /\ s[1] = p
    <3>1. s = <<s[1], s[2]>> /\ s[2] # 0
      BY SMTT(60) DEF Sessions
    <3>2. s = <<p, old.session>> /\ old.session # 0
      BY <2>4, <3>1 DEF IsOpen
    <3> QED BY <1>11, <3>2 DEF Exists
  <2> QED BY <2>1, <2>2, <2>3, <2>4 DEF Exists
<1>16. GenerationsOK'
  <2>1. Current' = Current
    BY <1>4 DEF Current, CurrentAt
  <2>2. ASSUME NEW r \in Current PROVE Alive(r)' /\ ~HungUp(proxies'[r].mailbox)
    <3>1. r \in Proxies /\ Alive(r) /\ ~HungUp(proxies[r].mailbox) /\ r # p
      BY <1>1, <1>3, CurrentAreProxies DEF PoolInv, GenerationsOK
    <3> QED BY <1>9, <3>1 DEF OneChanges
  <2>3. ASSUME NEW r \in Proxies, Unused(r) PROVE Unused(r)'
    <3>1. r # p
      BY <1>1, <2>3, AliveRecords DEF Unused
    <3>2. \A k : <<r, k>> \notin {p} \X Numbers
      BY <3>1, SMTT(60)
    <3> QED BY <1>8, <1>9, <1>11, <2>3, <3>1, <3>2 DEF OneChanges, Unused
  <2> QED BY <1>4, <2>1, <2>2, <2>3 DEF PoolInv, GenerationsOK
<1> QED BY <1>10, <1>12, <1>13, <1>14, <1>15, <1>16 DEF PoolInv

----------------------------------------------------------------------------
\* The events of a condition.

\* One event less, and the same options.
CondBecomes(kind) ==
  /\ cond' \in ConditionType /\ cond'.counts # {} /\ cond'.counts = cond.counts
  /\ cond.recreate \in Nat /\ cond'.recreate \in Nat /\ cond'.recreate <= cond.recreate
  /\ kind = "recreate" => cond'.recreate = cond.recreate - 1

LEMMA OccursBecomes ==
  ASSUME PoolTypeOK, NEW kind \in {"key", "recreate", "reopen"}, Occurs(kind)
  PROVE  CondBecomes(kind)
<1>0. cond \in ConditionType /\ cond.counts # {}
  BY DEF PoolTypeOK
<1> DEFINE C == SUBSET (1..MaxCount)
           M == SUBSET BOOLEAN
<1>1. cond \in [counts : C, mains : M, key : Nat, recreate : Nat, reopen : Nat]
  BY <1>0 DEF ConditionType
<1> HIDE DEF C, M
<1>2. cond[kind] > 0 /\ cond' = [cond EXCEPT ![kind] = cond[kind] - 1]
  BY DEF Occurs
<1>3. CASE kind = "key"
  <2>1. cond.key \in Nat /\ cond.key > 0 /\ cond' = [cond EXCEPT !.key = cond.key - 1]
    <3>1. cond["key"] > 0 /\ cond' = [cond EXCEPT !["key"] = cond["key"] - 1]
      BY <1>2, <1>3
    <3>2. cond.key > 0 /\ cond' = [cond EXCEPT !.key = cond.key - 1]
      BY <3>1
    <3>3. cond.key \in Nat
      BY <1>1, SMTT(60)
    <3> QED BY <3>2, <3>3
  <2>2. cond.key - 1 \in Nat
    BY <2>1, SMTT(60)
  <2>3. /\ cond' \in [counts : C, mains : M, key : Nat, recreate : Nat, reopen : Nat]
        /\ cond'.counts = cond.counts /\ cond'.recreate = cond.recreate /\ cond.recreate \in Nat
    BY <1>1, <2>1, <2>2, SMTT(60)
  <2>4. cond'.recreate <= cond.recreate
    BY <2>3, SMTT(60)
  <2> QED BY <1>0, <1>3, <2>3, <2>4 DEF CondBecomes, ConditionType, C, M
<1>4. CASE kind = "reopen"
  <2>1. cond.reopen \in Nat /\ cond.reopen > 0 /\ cond' = [cond EXCEPT !.reopen = cond.reopen - 1]
    <3>1. cond["reopen"] > 0 /\ cond' = [cond EXCEPT !["reopen"] = cond["reopen"] - 1]
      BY <1>2, <1>4
    <3>2. cond.reopen > 0 /\ cond' = [cond EXCEPT !.reopen = cond.reopen - 1]
      BY <3>1
    <3>3. cond.reopen \in Nat
      BY <1>1, SMTT(60)
    <3> QED BY <3>2, <3>3
  <2>2. cond.reopen - 1 \in Nat
    BY <2>1, SMTT(60)
  <2>3. /\ cond' \in [counts : C, mains : M, key : Nat, recreate : Nat, reopen : Nat]
        /\ cond'.counts = cond.counts /\ cond'.recreate = cond.recreate /\ cond.recreate \in Nat
    BY <1>1, <2>1, <2>2, SMTT(60)
  <2>4. cond'.recreate <= cond.recreate
    BY <2>3, SMTT(60)
  <2> QED BY <1>0, <1>4, <2>3, <2>4 DEF CondBecomes, ConditionType, C, M
<1>5. CASE kind = "recreate"
  <2>1. cond.recreate \in Nat /\ cond.recreate > 0 /\ cond' = [cond EXCEPT !.recreate = cond.recreate - 1]
    <3>1. cond["recreate"] > 0 /\ cond' = [cond EXCEPT !["recreate"] = cond["recreate"] - 1]
      BY <1>2, <1>5
    <3>2. cond.recreate > 0 /\ cond' = [cond EXCEPT !.recreate = cond.recreate - 1]
      BY <3>1
    <3>3. cond.recreate \in Nat
      BY <1>1, SMTT(60)
    <3> QED BY <3>2, <3>3
  <2>2. cond.recreate - 1 \in Nat
    BY <2>1, SMTT(60)
  <2>3. /\ cond' \in [counts : C, mains : M, key : Nat, recreate : Nat, reopen : Nat]
        /\ cond'.counts = cond.counts /\ cond'.recreate = cond.recreate - 1
    BY <1>1, <2>1, <2>2, SMTT(60)
  <2>4. cond'.recreate <= cond.recreate
    BY <2>1, <2>3, SMTT(60)
  <2> QED BY <1>0, <2>1, <2>2, <2>3, <2>4 DEF CondBecomes, ConditionType, C, M
<1> QED BY <1>3, <1>4, <1>5

\* Fewer events are left, and the SessionMultiProxy has as many to come.
CondKept ==
  /\ cond' \in ConditionType /\ cond'.counts # {}
  /\ multi.generation + cond'.recreate <= MaxGeneration

LEMMA CondIsKept ==
  ASSUME PoolInv, UNCHANGED cond \/ \E kind \in {"key", "recreate", "reopen"} : Occurs(kind)
  PROVE  CondKept
<1>1. CASE UNCHANGED cond
  BY <1>1 DEF PoolInv, PoolTypeOK, GenerationsOK, CondKept
<1>2. ASSUME NEW kind \in {"key", "recreate", "reopen"}, Occurs(kind) PROVE CondKept
  <2>1. CondBecomes(kind)
    BY <1>2, OccursBecomes DEF PoolInv
  <2>2. multi.generation \in Nat
    <3>1. multi.generation \in Generations
      BY SMTT(60) DEF PoolInv, PoolTypeOK, MultiRecords
    <3> QED BY <3>1, PoolAssumption, SMTT(60) DEF Generations
  <2>3. multi.generation + cond.recreate <= MaxGeneration
    BY DEF PoolInv, GenerationsOK
  <2>4. cond'.recreate <= cond.recreate /\ cond.recreate \in Nat /\ cond'.recreate \in Nat
    BY <2>1 DEF CondBecomes
  <2>5. multi.generation + cond'.recreate <= MaxGeneration
    BY <2>2, <2>3, <2>4, PoolAssumption, SMTT(60)
  <2> QED BY <2>1, <2>5 DEF CondBecomes, CondKept
<1> QED BY <1>1, <1>2

----------------------------------------------------------------------------
\* The steps of a session.

\* The session s gives the queries Q back, or closes and gives back all it holds.
LEMMA SessionGives ==
  ASSUME CountingRules, PoolInv, KeyHeard, NEW s \in Sessions, NEW Q, Q \subseteq held[s], NEW y \in Places, Arrive(y, Q),
         held' = [held EXCEPT ![s] = @ \ Q], OnQueryFinished(s[1], Cardinality(Q)),
         UNCHANGED <<keyVars, stopFlag, multi, proxies, failures>>, CondKept,
         closing' = closing \/ (closing' = closing \ {s} /\ Q = held[s])
  PROVE  PoolInv' /\ KeyHeard'
<1>1. PICK p \in Proxies : p = s[1]
  BY SMTT(60) DEF Sessions
<1>2. PoolTypeOK /\ Q \subseteq Queries
  BY DEF PoolInv, PoolTypeOK
<1>3. /\ inbox' \subseteq Queries /\ done' \subseteq Queries
      /\ \A r \in Proxies : y \notin PlacesUnder(r)
      /\ \A r : y # <<"mailbox", r>> /\ y # <<"pending", r>> /\ y # <<"held", r>>
  BY <1>2, ArriveFacts
<1>4. /\ held' \in [Sessions -> SUBSET Queries]
      /\ \A z \in Sessions : held'[z] = IF z = s THEN held[z] \ Q ELSE held[z]
  BY <1>2 DEF PoolTypeOK
<1>5. /\ finished' \in [Proxies -> Nat]
      /\ \A r \in Proxies : r # p => finished'[r] = finished[r]
      /\ Alive(p) /\ multi.alive => finished'[p] = finished[p] + Cardinality(Q)
      /\ ~Alive(p) => finished'[p] = finished[p]
  <2>1. Cardinality(Q) \in Nat
    BY <1>2, UnderFinite
  <2>2. finished[p] \in Nat
    BY <1>2 DEF PoolTypeOK
  <2>3. finished[p] + Cardinality(Q) \in Nat
    BY <2>1, <2>2, SMTT(60)
  <2>4. finished' = IF Alive(p) /\ multi.alive THEN [finished EXCEPT ![p] = finished[p] + Cardinality(Q)]
                    ELSE finished
    BY <1>1 DEF OnQueryFinished
  <2> QED BY <1>2, <2>3, <2>4 DEF PoolTypeOK
<1>6. \A r \in Proxies : /\ Alive(r)' <=> Alive(r)
                         /\ InMailbox(r)' = InMailbox(r) /\ PendingIn(r)' = PendingIn(r)
  BY DEF Alive, InMailbox, PendingIn
<1>7. OnePlace' /\ CountsUnder'
  <2>1. PICK x \in Places : x = <<"held", s>> /\ x # y
    BY <1>3, PlaceKinds
  <2>2. Moves(x, y, Q)
    BY <1>3, <1>4, <1>6, <2>1, PlacesDiffer DEF Moves, Arrive
  <2>3. Q \subseteq Contents(x)
    BY <2>1, ContentsAre
  <2>4. Balanced(x, y, Q)
    <3>1. \A r \in Proxies : y \notin PlacesUnder(r) /\ (x \in PlacesUnder(r) <=> r = p)
      BY <1>1, <1>3, <2>1, UnderKinds
    <3>2. p \in Current => Alive(p) /\ multi.alive
      BY DEF PoolInv, GenerationsOK, Current
    <3>3. \A r \in Proxies : finished'[r] = IF r = p /\ p \in Current THEN finished[r] + Cardinality(Q)
                                            ELSE IF r = p THEN finished'[r] ELSE finished[r]
      BY <1>5, <3>2
    <3> QED BY <1>2, <3>1, <3>3, LeaveBalanced
  <2> QED BY <1>2, <2>1, <2>2, <2>3, <2>4, MoveKeeps
<1>8. PoolTypeOK'
  BY <1>2, <1>3, <1>4, <1>5 DEF PoolTypeOK, keyVars, CondKept
<1>9. KeyHeard'
  BY DEF KeyHeard, keyVars, Alive
<1>10. MailboxesOK'
  BY DEF PoolInv, MailboxesOK, Alive
<1>11. HolderExists'
  <2> SUFFICES ASSUME NEW z \in Sessions, held'[z] # {} PROVE Exists(z)'
    BY DEF HolderExists
  <2>1. held[z] # {} /\ (z = s => Q # held[s])
    BY <1>4
  <2>2. Exists(z)
    BY <2>1 DEF PoolInv, HolderExists
  <2>3. z \in closing => z \in closing'
    BY <2>1
  <2> QED BY <2>2, <2>3 DEF Exists, IsOpen, Alive
<1>12. GenerationsOK'
  <2>1. Current' = Current
    BY DEF Current, CurrentAt
  <2>2. ASSUME NEW r \in Current PROVE Alive(r)' /\ ~HungUp(proxies'[r].mailbox)
    BY DEF PoolInv, GenerationsOK, Alive
  <2>3. ASSUME NEW r \in Proxies, Unused(r) PROVE Unused(r)'
    <3>1. ~Alive(r)
      BY <1>2, <2>3, AliveRecords DEF Unused
    <3>2. finished'[r] = finished[r]
      BY <1>5, <3>1
    <3> QED BY <2>3, <3>2 DEF Unused
  <2> QED BY <2>1, <2>2, <2>3 DEF PoolInv, GenerationsOK, CondKept
<1> QED BY <1>7, <1>8, <1>9, <1>10, <1>11, <1>12 DEF PoolInv

LEMMA SessionKeeps ==
  ASSUME CountingRules, PoolInv, KeyHeard, NEW s \in Sessions,
         SessionClose(s) \/ \E q \in Queries : SessionResult(s, q) \/ SessionResend(s, q)
  PROVE  PoolInv' /\ KeyHeard'
<1>0. \A q : q \in Queries => Cardinality({q}) = 1
  BY DEF CountingRules
<1>1. CASE SessionClose(s)
  <2>1. PICK Q : Q = held[s]
    OBVIOUS
  <2>2. PICK y \in Places : Arrive(y, Q)
    BY <1>1, <2>1, DispatchArrives DEF SessionClose
  <2>3. Q \subseteq held[s] /\ held[s] \ Q = {}
    BY <2>1
  <2>4. held' = [held EXCEPT ![s] = @ \ Q]
    BY <1>1, <2>3 DEF SessionClose
  <2>5. CondKept
    BY <1>1, CondIsKept DEF SessionClose
  <2>6. OnQueryFinished(s[1], Cardinality(Q))
    BY <1>1, <2>1 DEF SessionClose
  <2>7. /\ UNCHANGED <<keyVars, stopFlag, multi, proxies, failures>>
        /\ closing' = closing \ {s}
    BY <1>1 DEF SessionClose
  <2> QED BY <2>1, <2>2, <2>3, <2>4, <2>5, <2>6, <2>7, SessionGives
<1>2. ASSUME NEW q \in Queries, SessionResult(s, q) PROVE PoolInv' /\ KeyHeard'
  <2>1. PICK Q : Q = {q}
    OBVIOUS
  <2>2. PICK y \in Places : Arrive(y, Q)
    <3>1. Arrive(<<"done">>, Q)
      BY <1>2, <2>1, PlacesDiffer DEF SessionResult, Arrive
    <3> QED BY <3>1, PlaceKinds
  <2>3. Q \subseteq held[s] /\ held' = [held EXCEPT ![s] = @ \ Q]
    BY <1>2, <2>1 DEF SessionResult
  <2>5. CondKept
    BY <1>2, CondIsKept DEF SessionResult
  <2>6. OnQueryFinished(s[1], Cardinality(Q))
    BY <1>0, <1>2, <2>1 DEF SessionResult
  <2>7. UNCHANGED <<keyVars, stopFlag, multi, proxies, failures, closing>>
    BY <1>2 DEF SessionResult
  <2> QED BY <2>2, <2>3, <2>5, <2>6, <2>7, SessionGives
<1>3. ASSUME NEW q \in Queries, SessionResend(s, q) PROVE PoolInv' /\ KeyHeard'
  <2>1. PICK Q : Q = {q}
    OBVIOUS
  <2>2. PICK y \in Places : Arrive(y, Q)
    BY <1>3, <2>1, DispatchArrives DEF SessionResend
  <2>3. Q \subseteq held[s] /\ held' = [held EXCEPT ![s] = @ \ Q]
    BY <1>3, <2>1 DEF SessionResend
  <2>5. CondKept
    BY <1>3, CondIsKept DEF SessionResend
  <2>6. OnQueryFinished(s[1], Cardinality(Q))
    BY <1>0, <1>3, <2>1 DEF SessionResend
  <2>7. UNCHANGED <<keyVars, stopFlag, multi, proxies, failures, closing>>
    BY <1>3 DEF SessionResend
  <2> QED BY <2>2, <2>3, <2>5, <2>6, <2>7, SessionGives
<1> QED BY <1>1, <1>2, <1>3

----------------------------------------------------------------------------
\* Steps in which no query moves and no proxy changes its mailbox.

\* Each proxy keeps its session, its mailbox and its queries.
ProxiesKept ==
  \A p \in Proxies :
    /\ proxies[p] \in {Absent, Dead} => proxies'[p] = proxies[p]
    /\ Alive(p) => /\ proxies'[p] \in ProxyRecords /\ proxies'[p].mailbox = proxies[p].mailbox
                   /\ proxies'[p].pending = proxies[p].pending
                   /\ proxies'[p].session = proxies[p].session

LEMMA PoolAtRest ==
  ASSUME CountingRules, PoolInv, PoolTypeOK', CondKept, ProxiesKept,
         UNCHANGED <<inbox, multi, finished, held, closing, done>>
  PROVE  PoolInv'
<1>0. PoolTypeOK
  BY DEF PoolInv
<1>1. \A p \in Proxies : Alive(p)' <=> Alive(p)
  <2> SUFFICES ASSUME NEW p \in Proxies PROVE Alive(p)' <=> Alive(p)
    OBVIOUS
  <2>1. CASE Alive(p)
    <3>1. proxies'[p].phase \in {"created", "adding", "running"}
      BY <2>1, RecordFields DEF ProxiesKept
    <3> QED BY <2>1, <3>1 DEF Alive
  <2>2. CASE ~Alive(p)
    BY <1>0, <2>2, AliveRecords DEF ProxiesKept, Alive
  <2> QED BY <2>1, <2>2
<1>2. \A p \in Proxies : InMailbox(p)' = InMailbox(p) /\ PendingIn(p)' = PendingIn(p)
  <2> SUFFICES ASSUME NEW p \in Proxies
               PROVE  InMailbox(p)' = InMailbox(p) /\ PendingIn(p)' = PendingIn(p)
    OBVIOUS
  <2>1. CASE Alive(p)
    <3>1. proxies'[p].mailbox = proxies[p].mailbox /\ proxies'[p].pending = proxies[p].pending
      BY <2>1 DEF ProxiesKept
    <3> QED BY <1>1, <2>1, <3>1 DEF InMailbox, PendingIn
  <2>2. CASE ~Alive(p)
    BY <1>1, <2>2 DEF InMailbox, PendingIn
  <2> QED BY <2>1, <2>2
<1>3. OnePlace' /\ CountsUnder'
  BY <1>2, NothingMoves
<1>4. MailboxesOK'
  BY <1>1 DEF PoolInv, MailboxesOK, ProxiesKept
<1>5. HolderExists'
  <2> SUFFICES ASSUME NEW s \in Sessions, held[s] # {} PROVE Exists(s)'
    BY DEF HolderExists
  <2>1. Exists(s) /\ s[1] \in Proxies
    BY SMTT(60) DEF PoolInv, HolderExists, Sessions
  <2> QED BY <1>1, <2>1 DEF Exists, IsOpen, ProxiesKept
<1>6. GenerationsOK'
  <2>1. Current' = Current
    BY DEF Current, CurrentAt
  <2>2. ASSUME NEW r \in Current PROVE Alive(r)' /\ ~HungUp(proxies'[r].mailbox)
    <3>1. r \in Proxies /\ Alive(r) /\ ~HungUp(proxies[r].mailbox)
      BY <1>0, CurrentAreProxies DEF PoolInv, GenerationsOK
    <3> QED BY <1>1, <3>1 DEF ProxiesKept
  <2>3. ASSUME NEW r \in Proxies, Unused(r) PROVE Unused(r)'
    BY <2>3 DEF Unused, ProxiesKept
  <2> QED BY <2>1, <2>2, <2>3 DEF PoolInv, GenerationsOK, CondKept
<1> QED BY <1>3, <1>4, <1>5, <1>6 DEF PoolInv

LEMMA SameProxies ==
  ASSUME PoolInv, proxies' = proxies
  PROVE  ProxiesKept
  BY AliveRecords DEF PoolInv, ProxiesKept

LEMMA NotifyKeeps ==
  ASSUME CountingRules, PoolInv, KeyHeard, Notify
  PROVE  PoolInv' /\ KeyHeard'
<1>0. PoolTypeOK
  BY DEF PoolInv
<1>1. /\ UNCHANGED <<key, stopFlag, inbox, multi, finished, sessionVars, done, cond>>
      /\ notifying > 0 /\ notifying' = notifying - 1
      /\ listeners' = {p \in listeners : Alive(p)}
      /\ proxies' = [p \in Proxies |->
           IF p \in listeners' THEN [proxies[p] EXCEPT !.updates = @ + 1] ELSE proxies[p]]
  BY DEF Notify
<1>2. ASSUME NEW p \in Proxies, p \in listeners'
      PROVE  /\ Alive(p) /\ SameBut(proxies[p], proxies'[p], {"updates"}) /\ proxies'[p].updates > 0
  <2>1. Alive(p) /\ proxies'[p] = WithUpdates(proxies[p], proxies[p].updates + 1)
    BY <1>1, <1>2 DEF WithUpdates
  <2>2. proxies[p] \in ProxyRecords
    BY <1>0, <2>1, AliveRecords
  <2>3. proxies[p].updates \in Nat
    BY <2>2, RecordFields
  <2>4. proxies[p].updates + 1 \in Nat /\ proxies[p].updates + 1 > 0
    BY <2>3, SMTT(60)
  <2>5. /\ SameBut(proxies[p], WithUpdates(proxies[p], proxies[p].updates + 1), {"updates"})
        /\ WithUpdates(proxies[p], proxies[p].updates + 1).updates = proxies[p].updates + 1
    BY <2>2, <2>4, UpdatesOfRecord
  <2> QED BY <2>1, <2>4, <2>5
<1>3. ASSUME NEW p \in Proxies, p \notin listeners'
      PROVE  proxies'[p] = proxies[p]
  BY <1>1, <1>3
<1>4. ProxiesKept
  <2> SUFFICES ASSUME NEW p \in Proxies
               PROVE /\ proxies[p] \in {Absent, Dead} => proxies'[p] = proxies[p]
                     /\ Alive(p) => /\ proxies'[p] \in ProxyRecords /\ proxies'[p].mailbox = proxies[p].mailbox
                                    /\ proxies'[p].pending = proxies[p].pending
                                    /\ proxies'[p].session = proxies[p].session
    BY DEF ProxiesKept
  <2>1. CASE p \in listeners'
    <3>1. proxies[p] \notin {Absent, Dead}
      BY <1>0, <1>2, <2>1, AliveRecords
    <3> QED BY <1>2, <2>1, <3>1 DEF SameBut
  <2>2. CASE p \notin listeners'
    BY <1>0, <1>3, <2>2, AliveRecords
  <2> QED BY <2>1, <2>2
<1>5. PoolTypeOK'
  <2>1. notifying' \in Nat
    BY <1>0, <1>1, SMTT(60) DEF PoolTypeOK
  <2>2. listeners' \subseteq Proxies
    BY <1>0, <1>1 DEF PoolTypeOK
  <2>3. \A p \in Proxies : proxies'[p] \in ProxyRecords \cup {Absent, Dead}
    BY <1>0, <1>4, AliveRecords DEF ProxiesKept
  <2>4. proxies' \in [Proxies -> ProxyRecords \cup {Absent, Dead}]
    BY <1>1, <2>3
  <2> QED BY <1>0, <1>1, <2>1, <2>2, <2>4 DEF PoolTypeOK, sessionVars
<1>6. PoolInv'
  <2>1. CondKept
    BY <1>1, CondIsKept
  <2> QED BY <1>1, <1>4, <1>5, <2>1, PoolAtRest DEF sessionVars
<1>7. KeyHeard'
  <2> SUFFICES ASSUME NEW p \in Proxies, Alive(p)' PROVE Heard(p, proxies[p])'
    BY DEF KeyHeard, Heard
  <2>1. Alive(p)
    BY <1>0, <1>4, AliveRecords DEF ProxiesKept, Alive
  <2>2. Heard(p, proxies[p])
    BY <2>1 DEF KeyHeard, Heard
  <2>3. CASE p \in listeners'
    BY <1>1, <1>2, <2>2, <2>3 DEF SameBut, Heard
  <2>4. CASE p \notin listeners'
    <3>1. p \notin listeners /\ proxies'[p] = proxies[p]
      BY <1>1, <1>3, <2>1, <2>4
    <3> QED BY <2>2, <3>1 DEF Heard
  <2> QED BY <2>3, <2>4
<1> QED BY <1>6, <1>7

LEMMA StillKeeps ==
  ASSUME CountingRules, PoolInv, KeyHeard,
         \/ Stop
         \/ \E k \in KeyStates : SetAuthKey(k)
         \/ \E s \in Sessions : SessionFails(s) \/ SessionBindResult(s)
         \/ UNCHANGED vars
  PROVE  PoolInv' /\ KeyHeard'
<1>0. PoolTypeOK
  BY DEF PoolInv
<1>1. /\ UNCHANGED <<inbox, multi, proxies, held, closing, done>>
      /\ UNCHANGED cond \/ \E kind \in {"key", "recreate", "reopen"} : Occurs(kind)
  BY DEF Stop, SetAuthKey, SessionFails, SessionBindResult, vars, sessionVars
<1>2. UNCHANGED finished
  <2>1. ASSUME NEW s \in Sessions, SessionBindResult(s) PROVE UNCHANGED finished
    <3>1. PICK p \in Proxies : p = s[1]
      BY SMTT(60) DEF Sessions
    <3>2. finished[p] \in Nat /\ finished \in [Proxies -> Nat]
      BY <1>0 DEF PoolTypeOK
    <3>3. finished[p] + 0 = finished[p]
      BY <3>2, SMTT(60)
    <3>4. finished' = finished \/ finished' = [finished EXCEPT ![p] = finished[p] + 0]
      BY <2>1, <3>1 DEF SessionBindResult, BindFinished, OnQueryFinished
    <3> QED BY <3>2, <3>3, <3>4
  <2> QED BY <2>1 DEF Stop, SetAuthKey, SessionFails, vars
<1>3. CondKept /\ ProxiesKept
  BY <1>1, CondIsKept, SameProxies
<1>4. /\ key' \in KeyStates /\ notifying' \in Nat /\ listeners' = listeners
      /\ notifying' > 0 \/ (key' = key /\ notifying' = notifying)
  <2>1. ASSUME NEW k \in KeyStates, SetAuthKey(k)
        PROVE  key' \in KeyStates /\ notifying' \in Nat /\ listeners' = listeners /\ notifying' > 0
    <3>1. notifying' = notifying + 1 /\ notifying \in Nat
      BY <1>0, <2>1 DEF SetAuthKey, PoolTypeOK
    <3>2. notifying' \in Nat /\ notifying' > 0
      BY <3>1, SMTT(60)
    <3> QED BY <2>1, <3>2 DEF SetAuthKey
  <2> QED BY <1>0, <2>1 DEF Stop, SessionFails, SessionBindResult, vars, keyVars, PoolTypeOK
<1>5. stopFlag' \in BOOLEAN /\ failures' \subseteq Sessions
  BY <1>0 DEF PoolTypeOK, Stop, SetAuthKey, SessionFails, SessionBindResult, vars, sessionVars
<1>6. PoolTypeOK'
  BY <1>0, <1>1, <1>2, <1>3, <1>4, <1>5 DEF PoolTypeOK, CondKept
<1>7. PoolInv'
  BY <1>1, <1>2, <1>3, <1>6, PoolAtRest
<1>8. KeyHeard'
  BY <1>1, <1>4 DEF KeyHeard, Alive
<1> QED BY <1>7, <1>8

----------------------------------------------------------------------------
\* The steps of the SessionMultiProxy.

\* The message m is sent to the proxies ps, and the proxies new are created.
Delivered(ps, m, new) ==
  /\ proxies' \in [Proxies -> ProxyRecords \cup {Absent, Dead}]
  /\ \A p \in Proxies :
       /\ p \notin ps /\ p \notin new => proxies'[p] = proxies[p]
       /\ p \in ps => /\ p \notin new /\ proxies[p] \in ProxyRecords
                      /\ SameButMailbox(proxies[p], proxies'[p], proxies'[p].mailbox)
                      /\ Posted(proxies[p].mailbox, m, proxies'[p].mailbox)
       /\ p \in new => /\ Unused(p) /\ proxies'[p] \in ProxyRecords /\ proxies'[p].phase = "created"
                       /\ proxies'[p].pending = {} /\ proxies'[p].mailbox = <<>>
                       /\ proxies'[p].auth = "Empty"

\* What the delivery does.
Delivery(ps, m, new) ==
  /\ KeyHeard' /\ MailboxesOK' /\ HolderExists'
  /\ \A p \in Proxies :
       /\ InMailbox(p)' = IF p \in ps THEN InMailbox(p) \cup {q \in Queries : m = <<"send", q>>}
                          ELSE InMailbox(p)
       /\ PendingIn(p)' = PendingIn(p)
       /\ Alive(p) \/ p \in new => Alive(p)'
       /\ m # <<"hangup">> /\ Alive(p) /\ ~HungUp(proxies[p].mailbox) => ~HungUp(proxies'[p].mailbox)
       /\ p \in new => ~HungUp(proxies'[p].mailbox)
       /\ p \notin new /\ proxies[p] = Absent => proxies'[p] = Absent

LEMMA PostedTo ==
  ASSUME PoolInv, NEW p \in Current, NEW m \in Messages, NEW o,
         o = [proxies[p] EXCEPT !.mailbox = Append(@, m)]
  PROVE  /\ p \in Proxies /\ proxies[p] \in ProxyRecords /\ o \in ProxyRecords
         /\ SameButMailbox(proxies[p], o, o.mailbox) /\ Posted(proxies[p].mailbox, m, o.mailbox)
<1>1. p \in Proxies /\ Alive(p)
  BY CurrentAreProxies DEF PoolInv, GenerationsOK
<1>2. proxies[p] \in ProxyRecords
  BY <1>1, AliveRecords DEF PoolInv
<1>3. SameButMailbox(proxies[p], o, Append(proxies[p].mailbox, m))
  BY <1>2, PostedRecord
<1>4. o.mailbox = Append(proxies[p].mailbox, m) /\ o \in ProxyRecords
  BY <1>3 DEF SameButMailbox
<1>5. proxies[p].mailbox \in Seq(Messages)
  BY <1>2, RecordFields
<1>6. Posted(proxies[p].mailbox, m, o.mailbox)
  BY <1>4, <1>5, MailPosted
<1> QED BY <1>1, <1>2, <1>3, <1>4, <1>6

LEMMA PostDelivered ==
  ASSUME PoolInv, NEW ps, ps \subseteq Current, NEW m \in Messages, proxies' = PostAll(proxies, ps, m)
  PROVE  Delivered(ps, m, {})
<1>1. \A p \in Proxies : proxies'[p] = IF p \in ps THEN [proxies[p] EXCEPT !.mailbox = Append(@, m)]
                                       ELSE proxies[p]
  BY DEF PostAll
<1>2. ASSUME NEW p \in ps
      PROVE  /\ p \in Proxies /\ proxies[p] \in ProxyRecords /\ proxies'[p] \in ProxyRecords
             /\ SameButMailbox(proxies[p], proxies'[p], proxies'[p].mailbox)
             /\ Posted(proxies[p].mailbox, m, proxies'[p].mailbox)
  <2>1. p \in Current /\ p \in Proxies
    BY CurrentAreProxies DEF PoolInv
  <2>2. proxies'[p] = [proxies[p] EXCEPT !.mailbox = Append(@, m)]
    BY <1>1, <2>1
  <2> QED BY <2>1, <2>2, PostedTo
<1>3. \A p \in Proxies : proxies'[p] \in ProxyRecords \cup {Absent, Dead}
  BY <1>1, <1>2 DEF PoolInv, PoolTypeOK
<1>4. proxies' \in [Proxies -> ProxyRecords \cup {Absent, Dead}]
  BY <1>3 DEF PostAll
<1> QED BY <1>1, <1>2, <1>4 DEF Delivered

LEMMA DeliveryKeeps ==
  ASSUME PoolInv, KeyHeard, NEW ps, ps \subseteq Current, NEW m \in Messages, NEW new,
         Delivered(ps, m, new), \A q \in Queries : m = <<"send", q>> => q \in inbox,
         UNCHANGED <<keyVars, held, closing>>
  PROVE  Delivery(ps, m, new)
<1>0. PoolTypeOK
  BY DEF PoolInv
<1>1. ASSUME NEW p \in Proxies, p \in ps
      PROVE  /\ p \notin new /\ proxies[p] \in ProxyRecords /\ Alive(p) /\ Alive(p)'
             /\ SameButMailbox(proxies[p], proxies'[p], proxies'[p].mailbox)
             /\ Posted(proxies[p].mailbox, m, proxies'[p].mailbox)
             /\ InMailbox(p) = Sent(proxies[p].mailbox) /\ PendingIn(p) = proxies[p].pending
             /\ InMailbox(p)' = Sent(proxies'[p].mailbox) /\ PendingIn(p)' = proxies'[p].pending
  <2>1. /\ p \notin new /\ proxies[p] \in ProxyRecords
        /\ SameButMailbox(proxies[p], proxies'[p], proxies'[p].mailbox)
        /\ Posted(proxies[p].mailbox, m, proxies'[p].mailbox)
    BY <1>1 DEF Delivered
  <2>2. Alive(p)
    BY <1>0, <2>1, AliveRecords
  <2>3. Alive(p)'
    BY <2>1, <2>2 DEF Alive, SameButMailbox
  <2> QED BY <2>1, <2>2, <2>3 DEF InMailbox, PendingIn, Sent
<1>2. ASSUME NEW p \in Proxies, p \in new
      PROVE  /\ p \notin ps /\ ~Alive(p) /\ Alive(p)' /\ proxies'[p] \in ProxyRecords
             /\ proxies'[p].phase = "created" /\ proxies'[p].pending = {} /\ proxies'[p].mailbox = <<>>
             /\ proxies'[p].auth = "Empty" /\ Unused(p)
             /\ InMailbox(p) = {} /\ InMailbox(p)' = {} /\ PendingIn(p) = {} /\ PendingIn(p)' = {}
             /\ ~HungUp(proxies'[p].mailbox) /\ MailOK(proxies'[p].mailbox)
  <2>1. /\ p \notin ps /\ Unused(p) /\ proxies'[p] \in ProxyRecords
        /\ proxies'[p].phase = "created" /\ proxies'[p].pending = {} /\ proxies'[p].mailbox = <<>>
        /\ proxies'[p].auth = "Empty"
    BY <1>2 DEF Delivered
  <2>2. ~Alive(p) /\ Alive(p)'
    BY <1>0, <2>1, AliveRecords DEF Unused, Alive
  <2>3. \A k : k \notin DOMAIN (<<>>)
    BY SMTT(60)
  <2>4. Sent(<<>>) = {} /\ ~HungUp(<<>>) /\ MailOK(<<>>)
    BY <2>3 DEF Sent, HungUp, MailOK
  <2>5. InMailbox(p) = {} /\ PendingIn(p) = {}
    BY <2>2 DEF InMailbox, PendingIn
  <2>6. InMailbox(p)' = Sent(proxies'[p].mailbox) /\ PendingIn(p)' = proxies'[p].pending
    BY <2>2 DEF InMailbox, PendingIn, Sent
  <2> QED BY <2>1, <2>2, <2>4, <2>5, <2>6
<1>3. ASSUME NEW p \in Proxies, p \notin ps, p \notin new
      PROVE  /\ proxies'[p] = proxies[p] /\ (Alive(p)' <=> Alive(p))
             /\ InMailbox(p)' = InMailbox(p) /\ PendingIn(p)' = PendingIn(p)
  <2>1. proxies'[p] = proxies[p]
    BY <1>3 DEF Delivered
  <2>2. Alive(p)' <=> Alive(p)
    BY <2>1 DEF Alive
  <2> QED BY <2>1, <2>2 DEF InMailbox, PendingIn
<1>4. ASSUME NEW p \in Proxies, p \in ps PROVE MailOK(proxies'[p].mailbox)
  <2>1. MailOK(proxies[p].mailbox)
    BY <1>1, <1>4 DEF PoolInv, MailboxesOK
  <2>2. ~HungUp(proxies[p].mailbox)
    BY <1>4 DEF PoolInv, GenerationsOK
  <2>3. ASSUME NEW q \in Sent(proxies[p].mailbox) PROVE m # <<"send", q>>
    <3>1. q \in Queries /\ q \in InMailbox(p)
      BY <1>1, <1>4 DEF Sent
    <3>2. PICK x \in Places, y \in Places : x = <<"mailbox", p>> /\ y = <<"inbox">> /\ x # y
      BY PlaceKinds, PlacesDiffer
    <3>3. q \in Contents(x)
      BY <3>1, <3>2, ContentsAre
    <3>4. q \notin Contents(y)
      <4>1. PICK z \in Places : \A w \in Places : q \in Contents(w) <=> z = w
        BY <3>1 DEF PoolInv, OnePlace
      <4> QED BY <3>2, <3>3, <4>1
    <3> QED BY <3>1, <3>2, <3>4, ContentsAre
  <2> QED BY <1>1, <1>4, <2>1, <2>2, <2>3 DEF Posted
<1>5. MailboxesOK'
  BY <1>2, <1>3, <1>4 DEF PoolInv, MailboxesOK
<1>6. KeyHeard'
  <2> SUFFICES ASSUME NEW p \in Proxies, Alive(p)' PROVE Heard(p, proxies[p])'
    BY DEF KeyHeard, Heard
  <2>1. CASE p \in ps
    <3>1. Heard(p, proxies[p])
      BY <1>1, <2>1 DEF KeyHeard, Heard
    <3> QED BY <1>1, <2>1, <3>1 DEF SameButMailbox, Heard, keyVars
  <2>2. CASE p \in new
    BY <1>2, <2>2 DEF Heard
  <2>3. CASE p \notin ps /\ p \notin new
    BY <1>3, <2>3 DEF KeyHeard, Heard, keyVars
  <2> QED BY <2>1, <2>2, <2>3
<1>7. HolderExists'
  <2> SUFFICES ASSUME NEW s \in Sessions, held[s] # {} PROVE Exists(s)'
    BY DEF HolderExists
  <2>1. Exists(s)
    BY DEF PoolInv, HolderExists
  <2>2. s[1] \in Proxies
    BY SMTT(60) DEF Sessions
  <2>3. CASE s \in closing
    BY <2>3 DEF Exists
  <2>4. CASE IsOpen(s)
    <3>1. CASE s[1] \in ps
      BY <1>1, <2>2, <2>4, <3>1 DEF IsOpen, Exists, SameButMailbox
    <3>2. CASE s[1] \in new
      BY <1>2, <2>2, <2>4, <3>2 DEF IsOpen
    <3>3. CASE s[1] \notin ps /\ s[1] \notin new
      BY <1>3, <2>2, <2>4, <3>3 DEF IsOpen, Exists
    <3> QED BY <3>1, <3>2, <3>3
  <2> QED BY <2>1, <2>3, <2>4 DEF Exists
<1>8. ASSUME NEW p \in Proxies
      PROVE /\ InMailbox(p)' = IF p \in ps THEN InMailbox(p) \cup {q \in Queries : m = <<"send", q>>}
                               ELSE InMailbox(p)
            /\ PendingIn(p)' = PendingIn(p)
            /\ Alive(p) \/ p \in new => Alive(p)'
            /\ m # <<"hangup">> /\ Alive(p) /\ ~HungUp(proxies[p].mailbox) => ~HungUp(proxies'[p].mailbox)
            /\ p \in new => ~HungUp(proxies'[p].mailbox)
            /\ p \notin new /\ proxies[p] = Absent => proxies'[p] = Absent
  <2>1. CASE p \in ps
    <3>1. proxies[p] # Absent
      BY <1>0, <1>1, <2>1, AliveRecords
    <3>2. PendingIn(p)' = PendingIn(p)
      BY <1>1, <2>1 DEF SameButMailbox
    <3>3. InMailbox(p)' = InMailbox(p) \cup {q \in Queries : m = <<"send", q>>}
      BY <1>1, <2>1 DEF Posted
    <3>4. m # <<"hangup">> /\ ~HungUp(proxies[p].mailbox) => ~HungUp(proxies'[p].mailbox)
      BY <1>1, <2>1 DEF Posted
    <3> QED BY <1>1, <2>1, <3>1, <3>2, <3>3, <3>4
  <2>2. CASE p \in new
    BY <1>2, <2>2
  <2>3. CASE p \notin ps /\ p \notin new
    BY <1>3, <2>3
  <2> QED BY <2>1, <2>2, <2>3
<1> QED BY <1>5, <1>6, <1>7, <1>8 DEF Delivery

\* One field of the SessionMultiProxy changes.
WithCounts(m, f) == [m EXCEPT !.queryCount = f]
WithAlive(m, x) == [m EXCEPT !.alive = x]
WithCount(m, x) == [m EXCEPT !.count = x]
WithDestroy(m, x) == [m EXCEPT !.destroy = x]
WithNumber(m, x) == [m EXCEPT !.generation = x]

\* All of o but the fields of F is as in m.
MultiBut(m, o, F) ==
  /\ o \in MultiRecords
  /\ "alive" \notin F => o.alive = m.alive
  /\ "generation" \notin F => o.generation = m.generation
  /\ "count" \notin F => o.count = m.count
  /\ "queryCount" \notin F => o.queryCount = m.queryCount

\* m and o differ in their main flag and query counts.
SameGeneration(m, o) ==
  o.alive = m.alive /\ o.generation = m.generation /\ o.count = m.count

LEMMA MultiFields ==
  ASSUME NEW m \in MultiRecords
  PROVE  /\ m.alive \in BOOLEAN /\ m.generation \in Generations /\ m.generation \in Nat
         /\ m.count \in 1..MaxCount /\ m.main \in BOOLEAN /\ m.destroy \in BOOLEAN /\ m.count \in Nat
<1>1. /\ m.alive \in BOOLEAN /\ m.generation \in Generations /\ m.count \in 1..MaxCount
      /\ m.main \in BOOLEAN /\ m.destroy \in BOOLEAN
  BY SMTT(60) DEF MultiRecords
<1>2. m.generation \in Nat /\ m.count \in Nat
  BY <1>1, PoolAssumption, SMTT(60) DEF Generations
<1> QED BY <1>1, <1>2

LEMMA AliveOfMulti ==
  ASSUME NEW m \in MultiRecords, NEW x \in BOOLEAN
  PROVE  MultiBut(m, WithAlive(m, x), {"alive"}) /\ WithAlive(m, x).alive = x
  BY SMTT(60) DEF MultiRecords, WithAlive, MultiBut

LEMMA CountOfMulti ==
  ASSUME NEW m \in MultiRecords, NEW x \in 1..MaxCount
  PROVE  MultiBut(m, WithCount(m, x), {"count"}) /\ WithCount(m, x).count = x
  BY SMTT(60) DEF MultiRecords, WithCount, MultiBut

LEMMA DestroyOfMulti ==
  ASSUME NEW m \in MultiRecords, NEW x \in BOOLEAN
  PROVE  MultiBut(m, WithDestroy(m, x), {"destroy"})
  BY SMTT(60) DEF MultiRecords, WithDestroy, MultiBut

LEMMA NumberOfMulti ==
  ASSUME NEW m \in MultiRecords, NEW x \in Generations
  PROVE  MultiBut(m, WithNumber(m, x), {"generation"}) /\ WithNumber(m, x).generation = x
  BY SMTT(60) DEF MultiRecords, WithNumber, MultiBut

LEMMA QueryCountOfMulti ==
  ASSUME NEW m \in MultiRecords, NEW x \in QueryCounts
  PROVE  MultiBut(m, WithCounts(m, x), {"queryCount"}) /\ WithCounts(m, x).queryCount = x
  BY SMTT(60) DEF MultiRecords, WithCounts, MultiBut

LEMMA CountsOfMulti ==
  ASSUME NEW m \in MultiRecords, NEW f \in [0..m.count - 1 -> Int]
  PROVE  /\ WithCounts(m, f) \in MultiRecords /\ WithCounts(m, f).queryCount = f
         /\ SameGeneration(m, WithCounts(m, f))
<1>1. f \in QueryCounts
  BY MultiFields DEF QueryCounts
<1>2. MultiBut(m, WithCounts(m, f), {"queryCount"}) /\ WithCounts(m, f).queryCount = f
  BY <1>1, QueryCountOfMulti
<1> QED BY <1>2 DEF MultiBut, SameGeneration

\* No proxy is hung up: the generation stays.
LEMMA GenerationStays ==
  ASSUME PoolInv, NEW ps, NEW m, m # <<"hangup">>, Delivery(ps, m, {}),
         SameGeneration(multi, multi'), UNCHANGED <<finished, closing>>, CondKept
  PROVE  GenerationsOK' /\ Current' = Current
<1>1. Current' = Current
  BY DEF Current, CurrentAt, SameGeneration
<1>2. ASSUME NEW r \in Current PROVE Alive(r)' /\ ~HungUp(proxies'[r].mailbox)
  <2>1. r \in Proxies /\ Alive(r) /\ ~HungUp(proxies[r].mailbox)
    BY CurrentAreProxies DEF PoolInv, GenerationsOK
  <2> QED BY <2>1 DEF Delivery
<1>3. ASSUME NEW r \in Proxies, Unused(r) PROVE Unused(r)'
  BY <1>3 DEF Unused, Delivery
<1>4. /\ multi'.generation + cond'.recreate <= MaxGeneration
      /\ multi'.generation = multi.generation /\ multi'.count = multi.count
  BY DEF SameGeneration, CondKept
<1> QED BY <1>1, <1>2, <1>3, <1>4 DEF PoolInv, GenerationsOK

LEMMA MultiSendKeeps ==
  ASSUME CountingRules, PoolInv, KeyHeard, NEW q \in Queries, MultiSend(q)
  PROVE  PoolInv' /\ KeyHeard'
<1>0. PoolTypeOK /\ multi \in MultiRecords /\ multi.queryCount \in [0..multi.count - 1 -> Int]
  BY DEF PoolInv, PoolTypeOK
<1>1. PICK i \in Targets(q) :
        /\ multi' = [multi EXCEPT !.queryCount[i] = @ + 1]
        /\ proxies' = PostAll(proxies, {<<multi.generation, i>>}, <<"send", q>>)
  BY DEF MultiSend
<1>2. /\ multi.alive /\ q \in inbox /\ inbox' = inbox \ {q}
      /\ UNCHANGED <<keyVars, stopFlag, finished, sessionVars, done, cond>>
  BY DEF MultiSend
<1>3. i \in 0..multi.count - 1
  <2>1. 0 \in 0..multi.count - 1
    BY <1>0, MultiFields, PoolAssumption, SMTT(60)
  <2> QED BY <2>1 DEF Targets, LeastLoaded
<1>4. PICK p \in Proxies : /\ p = <<multi.generation, i>> /\ p \in Current /\ p[2] = i
                           /\ \A r \in Current : r[2] = i => r = p
  <2>1. <<multi.generation, i>> \in Current
    BY <1>2, <1>3, SMTT(60) DEF Current, CurrentAt
  <2>2. ASSUME NEW r \in Current, r[2] = i PROVE r = <<multi.generation, i>>
    <3>1. r \in {multi.generation} \X (0..multi.count - 1)
      BY <1>2 DEF Current, CurrentAt
    <3> QED BY <2>2, <3>1, SMTT(60)
  <2>3. <<multi.generation, i>>[2] = i
    BY SMTT(60)
  <2> QED BY <1>0, <2>1, <2>2, <2>3, CurrentAreProxies
<1>5. PICK m \in Messages : m = <<"send", q>>
  <2>1. <<"send", q>> \in {"send"} \X Queries
    BY SMTT(60)
  <2> QED BY <2>1 DEF Messages
<1>6. PICK ps : ps = {p} /\ ps \subseteq Current
  BY <1>4
<1>7. Delivered(ps, m, {})
  BY <1>1, <1>4, <1>5, <1>6, PostDelivered
<1>8. Delivery(ps, m, {})
  <2>1. \A z \in Queries : m = <<"send", z>> => z \in inbox
    BY <1>2, <1>5, MessagesDiffer
  <2> QED BY <1>2, <1>6, <1>7, <2>1, DeliveryKeeps DEF sessionVars
<1>9. PICK f \in [0..multi.count - 1 -> Int] :
        /\ multi' = WithCounts(multi, f)
        /\ \A j \in 0..multi.count - 1 : f[j] = IF j = i THEN multi.queryCount[j] + 1 ELSE multi.queryCount[j]
  <2> DEFINE f == [multi.queryCount EXCEPT ![i] = multi.queryCount[i] + 1]
  <2>1. multi' = WithCounts(multi, f)
    BY <1>1 DEF WithCounts
  <2>2. multi.queryCount[i] + 1 \in Int
    <3>1. multi.queryCount[i] \in Int
      BY <1>0, <1>3
    <3> QED BY <3>1, SMTT(60)
  <2>3. /\ f \in [0..multi.count - 1 -> Int]
        /\ \A j \in 0..multi.count - 1 : f[j] = IF j = i THEN multi.queryCount[j] + 1 ELSE multi.queryCount[j]
    BY <1>0, <1>3, <2>2
  <2> QED BY <2>1, <2>3
<1>10. multi' \in MultiRecords /\ multi'.queryCount = f /\ SameGeneration(multi, multi')
  BY <1>0, <1>9, CountsOfMulti
<1>11. PoolTypeOK'
  <2>1. multi'.queryCount \in [0..multi'.count - 1 -> Int]
    BY <1>10 DEF SameGeneration
  <2> QED BY <1>0, <1>2, <1>7, <1>10, <2>1 DEF PoolTypeOK, Delivered, keyVars, sessionVars
<1>12. CondKept
  BY <1>2, CondIsKept
<1>13. GenerationsOK' /\ Current' = Current
  BY <1>2, <1>5, <1>8, <1>10, <1>12, MessagesDiffer, GenerationStays DEF sessionVars
<1>14. OnePlace' /\ CountsUnder'
  <2>1. PICK x, y, Q : /\ x \in Places /\ y \in Places
          /\ x = <<"inbox">> /\ y = <<"mailbox", p>> /\ x # y /\ Q = {q} /\ Q \subseteq Queries
    <3>1. {q} \subseteq Queries
      OBVIOUS
    <3>2. <<"mailbox", p>> # <<"inbox">> /\ <<"mailbox", p>> \in Places /\ <<"inbox">> \in Places
      BY PlaceKinds, PlacesDiffer
    <3>3. PICK x, y, Q : x = <<"inbox">> /\ y = <<"mailbox", p>> /\ Q = {q}
      OBVIOUS
    <3>4. x \in Places /\ y \in Places /\ x # y /\ Q \subseteq Queries
      BY <3>1, <3>2, <3>3
    <3> QED BY <3>3, <3>4
  <2>2. Moves(x, y, Q)
    <3>1. {z \in Queries : m = <<"send", z>>} = Q
      BY <1>5, <2>1, MessagesDiffer
    <3>2. \A r \in Proxies : /\ InMailbox(r)' = IF r = p THEN InMailbox(r) \cup Q ELSE InMailbox(r)
                             /\ PendingIn(r)' = PendingIn(r)
      BY <1>6, <1>8, <3>1 DEF Delivery
    <3> QED BY <1>2, <2>1, <3>2, PlacesDiffer DEF Moves, sessionVars
  <2>3. Q \subseteq Contents(x)
    BY <1>2, <2>1, ContentsAre
  <2>4. Balanced(x, y, Q)
    <3> SUFFICES ASSUME NEW r \in Current'
                 PROVE  /\ r \in Current /\ r \in Proxies
                        /\ multi.queryCount[r[2]] \in Int /\ multi'.queryCount[r[2]] \in Int
                        /\ finished[r] \in Int /\ finished'[r] \in Int
                        /\ multi'.queryCount[r[2]] - finished'[r] =
                             multi.queryCount[r[2]] - finished[r]
                               + (IF y \in PlacesUnder(r) THEN Cardinality(Q) ELSE 0)
                               - (IF x \in PlacesUnder(r) THEN Cardinality(Q) ELSE 0)
      BY DEF Balanced
    <3>1. r \in Current /\ r \in Proxies /\ r[2] \in 0..multi.count - 1
      BY <1>0, <1>13, CurrentAreProxies
    <3>2. multi.queryCount[r[2]] \in Int /\ finished[r] \in Nat /\ finished'[r] = finished[r]
      BY <1>0, <1>2, <3>1 DEF PoolTypeOK
    <3>3. multi'.queryCount[r[2]] = IF r = p THEN multi.queryCount[r[2]] + 1 ELSE multi.queryCount[r[2]]
      BY <1>4, <1>9, <1>10, <3>1
    <3>4. x \notin PlacesUnder(r) /\ (y \in PlacesUnder(r) <=> r = p)
      BY <2>1, <3>1, UnderKinds
    <3>5. Cardinality(Q) = 1
      BY <2>1 DEF CountingRules
    <3> QED BY <3>1, <3>2, <3>3, <3>4, <3>5, SMTT(60)
  <2> QED BY <2>1, <2>2, <2>3, <2>4, MoveKeeps
<1> QED BY <1>8, <1>11, <1>13, <1>14 DEF PoolInv, Delivery

LEMMA MainsAreFlags ==
  ASSUME PoolTypeOK, NEW b \in cond.mains
  PROVE  b \in BOOLEAN
<1> DEFINE C == SUBSET (1..MaxCount)
           M == SUBSET BOOLEAN
<1>1. cond \in [counts : C, mains : M, key : Nat, recreate : Nat, reopen : Nat]
  BY DEF PoolTypeOK, ConditionType
<1> HIDE DEF C, M
<1>2. cond.mains \in M
  BY <1>1, SMTT(60)
<1> QED BY <1>2 DEF M

\* No query moves.
LEMMA NoneMoves ==
  ASSUME OnePlace, UNCHANGED <<inbox, done, held>>,
         \A p \in Proxies : InMailbox(p)' = InMailbox(p) /\ PendingIn(p)' = PendingIn(p)
  PROVE  OnePlace' /\ \A p \in Proxies : Under(p)' = Under(p)
<1>1. PICK x \in Places, y \in Places : x = <<"inbox">> /\ y = <<"done">> /\ x # y
  BY PlaceKinds, PlacesDiffer
<1>2. PICK Q : Q = {}
  OBVIOUS
<1>3. Q \subseteq Contents(x) /\ Q \subseteq Queries
  BY <1>2
<1>4. Moves(x, y, Q)
  BY <1>2 DEF Moves
<1>5. Transfer(x, y, Q)
  BY <1>1, <1>3, <1>4, MovesTransfer
<1>6. OnePlace'
  BY <1>5, TransferKeeps
<1>7. ASSUME NEW p \in Proxies PROVE Under(p)' = Under(p)
  <2>1. Under(p)' = IF y \in PlacesUnder(p) THEN Under(p) \cup Q
                    ELSE IF x \in PlacesUnder(p) THEN Under(p) \ Q ELSE Under(p)
    BY <1>3, <1>5, TransferUnder
  <2> QED BY <1>1, <2>1, UnderKinds
<1> QED BY <1>6, <1>7

\* No query moves and none is counted anew.
LEMMA StillCounted ==
  ASSUME CountingRules, PoolInv, UNCHANGED <<inbox, done, held, finished>>, Current' = Current,
         multi'.queryCount = multi.queryCount,
         \A p \in Proxies : InMailbox(p)' = InMailbox(p) /\ PendingIn(p)' = PendingIn(p)
  PROVE  OnePlace' /\ CountsUnder'
<1>1. OnePlace' /\ \A p \in Proxies : Under(p)' = Under(p)
  BY NoneMoves DEF PoolInv
<1>2. ASSUME NEW p \in Current PROVE multi'.queryCount[p[2]] = Cardinality(Under(p)') + finished'[p]
  <2>1. p \in Proxies
    BY CurrentAreProxies DEF PoolInv
  <2> QED BY <1>1, <2>1 DEF PoolInv, CountsUnder
<1> QED BY <1>1, <1>2 DEF CountsUnder

\* update_main_flag and update_mtproto_header.
LEMMA TellKeeps ==
  ASSUME CountingRules, PoolInv, KeyHeard, UpdateMtprotoHeader \/ \E b \in cond.mains : UpdateMainFlag(b)
  PROVE  PoolInv' /\ KeyHeard'
<1>0. PoolTypeOK /\ multi \in MultiRecords /\ multi.queryCount \in [0..multi.count - 1 -> Int]
  BY DEF PoolInv, PoolTypeOK
<1>1. UNCHANGED <<keyVars, stopFlag, inbox, finished, sessionVars, done>> /\ Occurs("reopen")
  BY DEF UpdateMtprotoHeader, UpdateMainFlag
<1>2. PICK m \in Messages : /\ proxies' = PostAll(proxies, Current, m) /\ m # <<"hangup">>
                            /\ \A q : m # <<"send", q>>
  <2>1. CASE UpdateMtprotoHeader
    <3>1. <<"header">> \in Messages
      BY DEF Messages
    <3>2. proxies' = PostAll(proxies, Current, <<"header">>)
      BY <2>1 DEF UpdateMtprotoHeader
    <3> QED BY <3>1, <3>2, MessagesDiffer
  <2>2. ASSUME NEW b \in cond.mains, UpdateMainFlag(b)
        PROVE  \E m \in Messages : /\ proxies' = PostAll(proxies, Current, m) /\ m # <<"hangup">>
                                   /\ \A q : m # <<"send", q>>
    <3>1. b \in BOOLEAN
      BY <1>0, MainsAreFlags
    <3>2. <<"main", b>> \in {"main"} \X BOOLEAN
      BY <3>1, SMTT(60)
    <3>3. <<"main", b>> \in Messages
      BY <3>2 DEF Messages
    <3>4. proxies' = PostAll(proxies, Current, <<"main", b>>)
      BY <2>2 DEF UpdateMainFlag
    <3> QED BY <3>3, <3>4, MessagesDiffer
  <2> QED BY <2>1, <2>2
<1>3. /\ multi' \in MultiRecords /\ multi'.queryCount = multi.queryCount
      /\ SameGeneration(multi, multi')
  <2>1. CASE UpdateMtprotoHeader
    BY <1>0, <2>1 DEF UpdateMtprotoHeader, SameGeneration
  <2>2. ASSUME NEW b \in cond.mains, UpdateMainFlag(b)
        PROVE  /\ multi' \in MultiRecords /\ multi'.queryCount = multi.queryCount
               /\ SameGeneration(multi, multi')
    <3>1. b \in BOOLEAN
      BY <1>0, MainsAreFlags
    <3>2. multi' = [multi EXCEPT !.main = b]
      BY <2>2 DEF UpdateMainFlag
    <3> QED BY <1>0, <3>1, <3>2, SMTT(60) DEF MultiRecords, SameGeneration
  <2> QED BY <2>1, <2>2
<1>4. PICK ps : ps = Current /\ ps \subseteq Current
  OBVIOUS
<1>5. Delivered(ps, m, {})
  BY <1>2, <1>4, PostDelivered
<1>6. Delivery(ps, m, {})
  BY <1>1, <1>2, <1>4, <1>5, DeliveryKeeps DEF sessionVars
<1>7. CondKept
  BY <1>1, CondIsKept
<1>8. PoolTypeOK'
  <2>1. multi'.queryCount \in [0..multi'.count - 1 -> Int]
    BY <1>0, <1>3 DEF SameGeneration
  <2> QED BY <1>0, <1>1, <1>3, <1>5, <1>7, <2>1
       DEF PoolTypeOK, Delivered, keyVars, sessionVars, CondKept
<1>9. GenerationsOK' /\ Current' = Current
  BY <1>1, <1>2, <1>3, <1>6, <1>7, GenerationStays DEF sessionVars
<1>10. OnePlace' /\ CountsUnder'
  <2>1. \A r \in Proxies : InMailbox(r)' = InMailbox(r) /\ PendingIn(r)' = PendingIn(r)
    BY <1>2, <1>6 DEF Delivery
  <2> QED BY <1>1, <1>3, <1>9, <2>1, StillCounted DEF sessionVars
<1> QED BY <1>6, <1>8, <1>9, <1>10 DEF PoolInv, Delivery

LEMMA OnQueryFinishedKeeps ==
  ASSUME CountingRules, PoolInv, KeyHeard, NEW p \in Proxies, MultiOnQueryFinished(p)
  PROVE  PoolInv' /\ KeyHeard'
<1>0. PoolTypeOK /\ multi \in MultiRecords /\ multi.queryCount \in [0..multi.count - 1 -> Int]
  BY DEF PoolInv, PoolTypeOK
<1>1. /\ UNCHANGED <<keyVars, stopFlag, inbox, proxies, sessionVars, done, cond>>
      /\ multi.alive /\ finished[p] > 0 /\ multi' = CountDown(p)
      /\ finished' = [finished EXCEPT ![p] = finished[p] - 1]
  BY DEF MultiOnQueryFinished
<1>2. /\ finished' \in [Proxies -> Nat] /\ finished[p] # 0
      /\ \A r \in Proxies : finished'[r] = IF r = p THEN finished[r] - 1 ELSE finished[r]
  <2>1. finished[p] \in Nat
    BY <1>0 DEF PoolTypeOK
  <2>2. finished[p] - 1 \in Nat /\ finished[p] # 0
    BY <1>1, <2>1, SMTT(60)
  <2> QED BY <1>0, <1>1, <2>2 DEF PoolTypeOK
<1>3. p[1] = multi.generation => p[2] \in 0..multi.count - 1
  <2> SUFFICES ASSUME p[1] = multi.generation PROVE p[2] \in 0..multi.count - 1
    OBVIOUS
  <2>1. ~(p[2] >= multi.count)
    BY <1>2 DEF PoolInv, GenerationsOK, Unused
  <2>2. p[2] \in 0..MaxCount - 1
    BY SMTT(60) DEF Proxies
  <2>3. multi.count \in 1..MaxCount
    BY <1>0, MultiFields
  <2> QED BY <2>1, <2>2, <2>3, PoolAssumption, SMTT(60)
<1>4. PICK f \in [0..multi.count - 1 -> Int] :
        /\ multi' \in MultiRecords /\ multi'.queryCount = f /\ SameGeneration(multi, multi')
        /\ \A j \in 0..multi.count - 1 :
             f[j] = IF p[1] = multi.generation /\ j = p[2] THEN multi.queryCount[j] - 1 ELSE multi.queryCount[j]
  <2>1. CASE p[1] # multi.generation
    <3>1. multi' = multi
      BY <1>1, <2>1 DEF CountDown
    <3> QED BY <1>0, <2>1, <3>1 DEF SameGeneration
  <2>2. CASE p[1] = multi.generation
    <3> DEFINE f == [multi.queryCount EXCEPT ![p[2]] = multi.queryCount[p[2]] - 1]
    <3>1. multi' = WithCounts(multi, f)
      BY <1>1, <2>2 DEF WithCounts, CountDown
    <3>2. multi.queryCount[p[2]] - 1 \in Int
      <4>1. multi.queryCount[p[2]] \in Int
        BY <1>0, <1>3, <2>2
      <4> QED BY <4>1, SMTT(60)
    <3>3. /\ f \in [0..multi.count - 1 -> Int]
          /\ \A j \in 0..multi.count - 1 :
               f[j] = IF j = p[2] THEN multi.queryCount[j] - 1 ELSE multi.queryCount[j]
      BY <1>0, <1>3, <2>2, <3>2
    <3> HIDE DEF f
    <3>4. multi' \in MultiRecords /\ multi'.queryCount = f /\ SameGeneration(multi, multi')
      BY <1>0, <3>1, <3>3, CountsOfMulti
    <3> QED BY <2>2, <3>3, <3>4
  <2> QED BY <2>1, <2>2
<1>5. PoolTypeOK'
  <2>1. multi'.queryCount \in [0..multi'.count - 1 -> Int]
    BY <1>4 DEF SameGeneration
  <2> QED BY <1>0, <1>1, <1>2, <1>4, <2>1 DEF PoolTypeOK, keyVars, sessionVars
<1>6. KeyHeard' /\ MailboxesOK' /\ HolderExists'
  BY <1>1 DEF KeyHeard, PoolInv, MailboxesOK, HolderExists, Exists, IsOpen, Alive, keyVars, sessionVars
<1>7. Current' = Current
  BY <1>4 DEF Current, CurrentAt, SameGeneration
<1>8. GenerationsOK'
  <2>1. ASSUME NEW r \in Current PROVE Alive(r)' /\ ~HungUp(proxies'[r].mailbox)
    BY <1>1 DEF PoolInv, GenerationsOK, Alive
  <2>2. ASSUME NEW r \in Proxies, Unused(r) PROVE Unused(r)'
    BY <1>1, <1>2, <2>2 DEF Unused, sessionVars
  <2>3. multi'.generation = multi.generation /\ multi'.count = multi.count /\ cond' = cond
    BY <1>1, <1>4 DEF SameGeneration
  <2> QED BY <1>7, <2>1, <2>2, <2>3 DEF PoolInv, GenerationsOK
<1>9. OnePlace' /\ CountsUnder'
  <2>1. PICK x \in Places, y \in Places : x = <<"inbox">> /\ y = <<"done">> /\ x # y
    BY PlaceKinds, PlacesDiffer
  <2>2. PICK Q : Q = {}
    OBVIOUS
  <2>3. Q \subseteq Contents(x) /\ Q \subseteq Queries
    BY <2>2
  <2>4. \A r \in Proxies : InMailbox(r)' = InMailbox(r) /\ PendingIn(r)' = PendingIn(r)
    BY <1>1 DEF InMailbox, PendingIn, Alive
  <2>5. Moves(x, y, Q)
    BY <1>1, <2>2, <2>4 DEF Moves, sessionVars
  <2>6. Balanced(x, y, Q)
    <3> SUFFICES ASSUME NEW r \in Current'
                 PROVE  /\ r \in Current /\ r \in Proxies
                        /\ multi.queryCount[r[2]] \in Int /\ multi'.queryCount[r[2]] \in Int
                        /\ finished[r] \in Int /\ finished'[r] \in Int
                        /\ multi'.queryCount[r[2]] - finished'[r] =
                             multi.queryCount[r[2]] - finished[r]
                               + (IF y \in PlacesUnder(r) THEN Cardinality(Q) ELSE 0)
                               - (IF x \in PlacesUnder(r) THEN Cardinality(Q) ELSE 0)
      BY DEF Balanced
    <3>1. r \in Current /\ r \in Proxies /\ r[1] = multi.generation /\ r[2] \in 0..multi.count - 1
      BY <1>0, <1>7, CurrentAreProxies
    <3>2. multi.queryCount[r[2]] \in Int /\ finished[r] \in Nat
      BY <1>0, <3>1 DEF PoolTypeOK
    <3>3. r = p <=> p[1] = multi.generation /\ r[2] = p[2]
      <4>1. r[1] = p[1] /\ r[2] = p[2] => r = p
        BY <3>1, SMTT(60) DEF Proxies
      <4> QED BY <3>1, <4>1
    <3>4. multi'.queryCount[r[2]] = IF r = p THEN multi.queryCount[r[2]] - 1 ELSE multi.queryCount[r[2]]
      BY <1>4, <3>1, <3>3
    <3>5. finished'[r] = IF r = p THEN finished[r] - 1 ELSE finished[r]
      BY <1>2, <3>1
    <3>6. x \notin PlacesUnder(r) /\ y \notin PlacesUnder(r)
      BY <2>1, <3>1, UnderKinds
    <3>7. PICK c, d, e, f1 : /\ c = multi.queryCount[r[2]] /\ d = finished[r]
                             /\ e = multi'.queryCount[r[2]] /\ f1 = finished'[r]
      OBVIOUS
    <3>8. c \in Int /\ d \in Int
      <4>1. \A n \in Nat : n \in Int
        BY SMTT(60)
      <4> QED BY <3>2, <3>7, <4>1
    <3>9. (e = c /\ f1 = d) \/ (e = c - 1 /\ f1 = d - 1)
      BY <3>4, <3>5, <3>7
    <3>10. e \in Int /\ f1 \in Int /\ e - f1 = c - d + 0 - 0
      BY <3>8, <3>9, SMTT(60)
    <3> QED BY <3>1, <3>6, <3>7, <3>8, <3>10
  <2> QED BY <2>1, <2>3, <2>5, <2>6, MoveKeeps
<1> QED BY <1>5, <1>6, <1>8, <1>9 DEF PoolInv

LEMMA MultiHangupKeeps ==
  ASSUME CountingRules, PoolInv, KeyHeard, MultiHangup
  PROVE  PoolInv' /\ KeyHeard'
<1>0. PoolTypeOK /\ multi \in MultiRecords /\ multi.queryCount \in [0..multi.count - 1 -> Int]
  BY DEF PoolInv, PoolTypeOK
<1>1. /\ UNCHANGED <<keyVars, stopFlag, inbox, sessionVars, done, cond>>
      /\ multi' = [multi EXCEPT !.alive = FALSE]
      /\ proxies' = PostAll(proxies, Current, <<"hangup">>)
      /\ finished' = [p \in Proxies |-> 0]
  BY DEF MultiHangup
<1>2. PICK m \in Messages : m = <<"hangup">>
  BY DEF Messages
<1>3. PICK ps : ps = Current /\ ps \subseteq Current
  OBVIOUS
<1>4. Delivered(ps, m, {})
  BY <1>1, <1>2, <1>3, PostDelivered
<1>5. Delivery(ps, m, {})
  <2>1. \A q \in Queries : m = <<"send", q>> => q \in inbox
    BY <1>2, MessagesDiffer
  <2> QED BY <1>1, <1>3, <1>4, <2>1, DeliveryKeeps DEF sessionVars
<1>6. /\ multi' \in MultiRecords /\ multi'.alive = FALSE /\ multi'.generation = multi.generation
      /\ multi'.count = multi.count /\ multi'.queryCount = multi.queryCount
  <2>1. PICK b \in BOOLEAN : b = FALSE
    OBVIOUS
  <2>2. multi' = WithAlive(multi, b)
    BY <1>1, <2>1 DEF WithAlive
  <2>3. MultiBut(multi, WithAlive(multi, b), {"alive"}) /\ WithAlive(multi, b).alive = b
    BY <1>0, AliveOfMulti
  <2> QED BY <2>1, <2>2, <2>3 DEF MultiBut
<1>7. finished' \in [Proxies -> Nat] /\ \A p \in Proxies : finished'[p] = 0
  BY <1>1, SMTT(60)
<1>8. PoolTypeOK'
  BY <1>0, <1>1, <1>4, <1>6, <1>7 DEF PoolTypeOK, Delivered, keyVars, sessionVars
<1>9. Current' = {}
  BY <1>6 DEF Current
<1>10. GenerationsOK'
  <2>1. ASSUME NEW r \in Proxies, Unused(r) PROVE Unused(r)'
    BY <1>1, <1>5, <1>7, <2>1 DEF Unused, sessionVars, Delivery
  <2> QED BY <1>1, <1>6, <1>9, <2>1 DEF PoolInv, GenerationsOK
<1>11. OnePlace'
  <2>1. \A r \in Proxies : InMailbox(r)' = InMailbox(r) /\ PendingIn(r)' = PendingIn(r)
    BY <1>2, <1>5, MessagesDiffer DEF Delivery
  <2> QED BY <1>1, <2>1, NoneMoves DEF sessionVars, PoolInv
<1>12. CountsUnder'
  BY <1>9 DEF CountsUnder
<1> QED BY <1>5, <1>8, <1>10, <1>11, <1>12 DEF PoolInv, Delivery

WithOptions(m, count, destroy, g, f) ==
  [[m EXCEPT !.count = count, !.destroy = destroy] EXCEPT !.generation = g, !.queryCount = f]

HasOptions(m, o, count, g, f) ==
  /\ o \in MultiRecords /\ o.generation = g /\ o.count = count /\ o.queryCount = f
  /\ o.alive = m.alive

LEMMA OptionsOfMulti ==
  ASSUME NEW m \in MultiRecords, NEW count \in 1..MaxCount, NEW destroy \in BOOLEAN,
         NEW g \in Generations, NEW f \in [0..count - 1 -> Int], NEW o,
         o = WithOptions(m, count, destroy, g, f)
  PROVE  HasOptions(m, o, count, g, f)
<1> DEFINE x == WithCount(m, count)
           y == WithDestroy(x, destroy)
           z == WithNumber(y, g)
<1>1. f \in QueryCounts
  BY DEF QueryCounts
<1>2. o = WithCounts(z, f)
  BY DEF WithOptions, WithCount, WithDestroy, WithNumber, WithCounts
<1>3. MultiBut(m, x, {"count"}) /\ x.count = count
  BY CountOfMulti
<1> HIDE DEF x
<1>4. MultiBut(x, y, {"destroy"})
  BY <1>3, DestroyOfMulti DEF MultiBut
<1> HIDE DEF y
<1>5. MultiBut(y, z, {"generation"}) /\ z.generation = g
  BY <1>4, NumberOfMulti DEF MultiBut
<1> HIDE DEF z
<1>6. MultiBut(z, WithCounts(z, f), {"queryCount"}) /\ WithCounts(z, f).queryCount = f
  BY <1>1, <1>5, QueryCountOfMulti DEF MultiBut
<1> QED BY <1>2, <1>3, <1>4, <1>5, <1>6 DEF MultiBut, HasOptions

\* A proxy that has never been created has no queries.
LEMMA UnusedIsEmpty ==
  ASSUME PoolInv, NEW p \in Proxies, Unused(p)
  PROVE  Under(p) = {}
<1>1. ~Alive(p)
  BY AliveRecords DEF PoolInv, Unused
<1>2. InMailbox(p) = {} /\ PendingIn(p) = {}
  BY <1>1 DEF InMailbox, PendingIn
<1>3. ASSUME NEW s \in SessionsOf(p) PROVE held[s] = {}
  <2>1. s \in Sessions /\ s[1] = p
    BY DEF SessionsOf
  <2>2. s = <<p, s[2]>> /\ s[2] \in 1..MaxSession
    BY <2>1, SMTT(60) DEF Sessions
  <2>3. s \notin closing
    BY <2>2 DEF Unused
  <2> QED BY <1>1, <2>1, <2>3 DEF PoolInv, HolderExists, Exists, IsOpen
<1>4. ASSUME NEW x \in PlacesUnder(p) PROVE Contents(x) = {}
  <2>1. \/ x = <<"mailbox", p>> \/ x = <<"pending", p>>
        \/ \E s \in SessionsOf(p) : x = <<"held", s>>
    BY SMTT(60) DEF PlacesUnder
  <2> QED BY <1>2, <1>3, <2>1, ContentsAre
<1> QED BY <1>4 DEF Under

LEMMA RecreateKeeps ==
  ASSUME CountingRules, PoolInv, KeyHeard, NEW count \in 1..MaxCount, NEW pfs \in BOOLEAN, NEW destroy \in BOOLEAN,
         UpdateOptions(count, pfs, destroy)
  PROVE  PoolInv' /\ KeyHeard'
<1> DEFINE g == multi.generation + 1
           m == [multi EXCEPT !.count = count, !.destroy = destroy]
           f == [i \in 0..count - 1 |-> 0]
           new == CurrentAt(g, count)
<1>0. /\ PoolTypeOK /\ multi \in MultiRecords /\ multi.queryCount \in [0..multi.count - 1 -> Int]
      /\ multi.generation \in Nat
  BY MultiFields DEF PoolInv, PoolTypeOK
<1>1. /\ UNCHANGED <<keyVars, stopFlag, inbox, finished, sessionVars, done>>
      /\ multi.alive /\ Occurs("recreate") /\ Recreated(m)
  BY DEF UpdateOptions
<1>2. /\ cond' \in ConditionType /\ cond'.counts # {} /\ g \in Generations
      /\ g + cond'.recreate <= MaxGeneration
  <2>1. CondBecomes("recreate")
    BY <1>0, <1>1, OccursBecomes
  <2>2. /\ cond' \in ConditionType /\ cond'.counts # {} /\ cond.recreate \in Nat
        /\ cond'.recreate \in Nat /\ cond'.recreate = cond.recreate - 1
    BY <2>1 DEF CondBecomes
  <2>3. multi.generation + cond.recreate <= MaxGeneration
    BY DEF PoolInv, GenerationsOK
  <2>4. g \in Generations /\ g + cond'.recreate <= MaxGeneration
    BY <1>0, <2>2, <2>3, PoolAssumption, SMTT(60) DEF Generations
  <2> QED BY <2>2, <2>4
<1>3. m.count = count /\ m.generation = multi.generation /\ m.main \in BOOLEAN /\ m.destroy = destroy
  BY <1>0, SMTT(60) DEF MultiRecords
<1> HIDE DEF m
<1>4. /\ multi' = [m EXCEPT !.generation = g, !.queryCount = f]
      /\ proxies' = [p \in Proxies |->
           IF p \in new THEN NewProxy(m.main, m.destroy /\ p[2] = 0)
                        ELSE PostAll(proxies, Current, <<"hangup">>)[p]]
  BY <1>1, <1>3 DEF Recreated
<1>5. f \in [0..count - 1 -> Int] /\ \A i \in 0..count - 1 : f[i] = 0
  BY SMTT(60)
<1>6. /\ multi' \in MultiRecords /\ multi'.generation = g /\ multi'.count = count
      /\ multi'.queryCount = f /\ multi'.alive = multi.alive
  <2>1. multi' = WithOptions(multi, count, destroy, g, f)
    BY <1>4 DEF m, WithOptions
  <2> HIDE DEF f, g
  <2>2. PICK n \in Generations, c \in [0..count - 1 -> Int] : n = g /\ c = f
    BY <1>2, <1>5
  <2>3. multi' = WithOptions(multi, count, destroy, n, c)
    BY <2>1, <2>2
  <2>4. HasOptions(multi, multi', count, n, c)
    BY <1>0, <2>3, OptionsOfMulti
  <2> QED BY <2>2, <2>4 DEF HasOptions
<1>7. ASSUME NEW p \in new
      PROVE  p \in Proxies /\ p[1] = g /\ p[2] \in 0..count - 1 /\ Unused(p) /\ p \notin Current
  <2>1. p \in Proxies /\ p[1] = g /\ p[2] \in 0..count - 1
    BY <1>2, PoolAssumption, SMTT(60) DEF CurrentAt, Proxies
  <2>2. g > multi.generation /\ g # multi.generation
    BY <1>0, SMTT(60)
  <2>3. Unused(p)
    BY <2>1, <2>2 DEF PoolInv, GenerationsOK
  <2> QED BY <1>0, <2>1, <2>2, <2>3, CurrentAreProxies
<1>8. Current' = new
  BY <1>1, <1>6 DEF Current
<1> HIDE DEF f, g
<1>9. PICK w \in Messages : w = <<"hangup">>
  BY DEF Messages
<1>10. Delivered(Current, w, new)
  <2>1. ASSUME NEW p \in Proxies, p \notin new, p \notin Current
        PROVE  proxies'[p] = proxies[p]
    BY <1>4, <2>1 DEF PostAll
  <2>2. ASSUME NEW p \in Proxies, p \in Current
        PROVE  /\ p \notin new /\ proxies[p] \in ProxyRecords /\ proxies'[p] \in ProxyRecords
               /\ SameButMailbox(proxies[p], proxies'[p], proxies'[p].mailbox)
               /\ Posted(proxies[p].mailbox, w, proxies'[p].mailbox)
    <3>1. p \notin new
      BY <1>7, <2>2
    <3>2. proxies'[p] = [proxies[p] EXCEPT !.mailbox = Append(@, w)]
      BY <1>4, <1>9, <2>2, <3>1 DEF PostAll
    <3> QED BY <2>2, <3>1, <3>2, PostedTo
  <2>3. ASSUME NEW p \in Proxies, p \in new
        PROVE  /\ Unused(p) /\ proxies'[p] \in ProxyRecords /\ proxies'[p].phase = "created"
               /\ proxies'[p].pending = {} /\ proxies'[p].mailbox = <<>>
               /\ proxies'[p].auth = "Empty"
    <3>1. PICK d \in BOOLEAN : proxies'[p] = NewProxy(m.main, d)
      <4>1. (m.destroy /\ p[2] = 0) \in BOOLEAN
        OBVIOUS
      <4>2. proxies'[p] = NewProxy(m.main, m.destroy /\ p[2] = 0)
        BY <1>4, <2>3
      <4> QED BY <4>1, <4>2
    <3>2. PICK b \in BOOLEAN : b = m.main
      BY <1>3
    <3>3. /\ NewProxy(b, d) \in ProxyRecords
          /\ NewProxy(b, d).phase = "created" /\ NewProxy(b, d).pending = {}
          /\ NewProxy(b, d).mailbox = <<>> /\ NewProxy(b, d).auth = "Empty"
      BY NewProxyRecord
    <3> QED BY <1>7, <2>3, <3>1, <3>2, <3>3
  <2>4. \A p \in Proxies : proxies'[p] \in ProxyRecords \cup {Absent, Dead}
    BY <1>0, <2>1, <2>2, <2>3 DEF PoolTypeOK
  <2>5. proxies' \in [Proxies -> ProxyRecords \cup {Absent, Dead}]
    BY <1>4, <2>4
  <2> QED BY <2>1, <2>2, <2>3, <2>5 DEF Delivered
<1>11. PICK ps, nw : ps = Current /\ nw = new /\ ps \subseteq Current /\ Delivered(ps, w, nw)
  BY <1>10
<1>12. Delivery(ps, w, nw)
  <2>1. \A q \in Queries : w = <<"send", q>> => q \in inbox
    BY <1>9, MessagesDiffer
  <2> QED BY <1>1, <1>11, <2>1, DeliveryKeeps DEF sessionVars
<1>13. PoolTypeOK'
  BY <1>0, <1>1, <1>2, <1>5, <1>6, <1>11 DEF PoolTypeOK, Delivered, keyVars, sessionVars
<1>14. GenerationsOK'
  <2>1. ASSUME NEW r \in Current' PROVE Alive(r)' /\ ~HungUp(proxies'[r].mailbox)
    BY <1>7, <1>8, <1>11, <1>12 DEF Delivery
  <2>2. ASSUME NEW r \in Proxies, r[1] > g \/ (r[1] = g /\ r[2] >= count) PROVE Unused(r)'
    <3>1. r[1] \in Nat /\ r[2] \in Nat
      BY PoolAssumption, SMTT(60) DEF Proxies, Generations
    <3>2. r[1] > multi.generation
      BY <1>0, <2>2, <3>1, SMTT(60) DEF g
    <3>3. r \notin new
      <4>1. ASSUME r \in new PROVE FALSE
        <5>1. r[1] = g /\ r[2] \in 0..count - 1
          BY <1>7, <4>1
        <5> QED BY <1>0, <2>2, <3>1, <5>1, SMTT(60) DEF g
      <4> QED BY <4>1
    <3>4. Unused(r)
      BY <3>2 DEF PoolInv, GenerationsOK
    <3> QED BY <1>1, <1>11, <1>12, <3>3, <3>4 DEF Unused, Delivery, sessionVars
  <2> QED BY <1>2, <1>6, <2>1, <2>2 DEF GenerationsOK
<1>15. OnePlace' /\ \A p \in Proxies : Under(p)' = Under(p)
  <2>1. \A r \in Proxies : InMailbox(r)' = InMailbox(r) /\ PendingIn(r)' = PendingIn(r)
    BY <1>9, <1>12, MessagesDiffer DEF Delivery
  <2> QED BY <1>1, <2>1, NoneMoves DEF sessionVars, PoolInv
<1>16. CountsUnder'
  <2> SUFFICES ASSUME NEW p \in new
               PROVE  multi'.queryCount[p[2]] = Cardinality(Under(p)') + finished'[p]
    BY <1>8 DEF CountsUnder
  <2>1. multi'.queryCount[p[2]] = 0
    BY <1>5, <1>6, <1>7
  <2>2. Under(p)' = {} /\ finished'[p] = 0
    BY <1>1, <1>7, <1>15, UnusedIsEmpty DEF Unused
  <2>3. Cardinality({}) = 0
    BY DEF CountingRules
  <2>4. Cardinality(Under(p)') = 0
    BY <2>2, <2>3
  <2> QED BY <2>1, <2>2, <2>4, SMTT(60)
<1> QED BY <1>12, <1>13, <1>14, <1>15, <1>16 DEF PoolInv, Delivery

----------------------------------------------------------------------------
\* The whole.

LEMMA PoolStarts ==
  ASSUME CountingRules, Init
  PROVE  PoolInv /\ KeyHeard
<1>1. /\ cond \in Conditions /\ key \in {"Empty", "OK"}
      /\ notifying = 0 /\ listeners = {} /\ stopFlag = FALSE /\ inbox = Queries /\ done = {}
      /\ finished = [p \in Proxies |-> 0] /\ held = [s \in Sessions |-> {}]
      /\ closing = {} /\ failures = {}
  BY DEF Init
<1>2. PICK count \in cond.counts, main \in cond.mains :
        /\ multi = [alive |-> TRUE, generation |-> 1, count |-> count, main |-> main,
                    destroy |-> FALSE, queryCount |-> [i \in 0..count - 1 |-> 0]]
        /\ proxies = [p \in Proxies |->
             IF p \in CurrentAt(1, count) THEN NewProxy(main, FALSE) ELSE Absent]
  BY DEF Init
<1>3. /\ cond \in ConditionType /\ cond.counts # {} /\ cond.recreate \in Nat
      /\ cond.recreate < MaxGeneration /\ count \in 1..MaxCount /\ main \in BOOLEAN
  <2>1. cond \in ConditionType /\ cond.counts # {} /\ cond.recreate < MaxGeneration
    BY <1>1, PoolAssumption
  <2> DEFINE C == SUBSET (1..MaxCount)
             M == SUBSET BOOLEAN
  <2>2. cond \in [counts : C, mains : M, key : Nat, recreate : Nat, reopen : Nat]
    BY <2>1 DEF ConditionType
  <2> HIDE DEF C, M
  <2>3. cond.counts \in C /\ cond.mains \in M /\ cond.recreate \in Nat
    BY <2>2, SMTT(60)
  <2> QED BY <2>1, <2>3 DEF C, M
<1>4. PICK f \in QueryCounts : /\ f = [i \in 0..count - 1 |-> 0] /\ f \in [0..count - 1 -> Int]
                               /\ \A i \in 0..count - 1 : f[i] = 0
  <2>1. [i \in 0..count - 1 |-> 0] \in [0..count - 1 -> Int]
    BY SMTT(60)
  <2>2. \A i \in 0..count - 1 : [k \in 0..count - 1 |-> 0][i] = 0
    OBVIOUS
  <2> QED BY <1>3, <2>1, <2>2 DEF QueryCounts
<1>5. /\ multi \in MultiRecords /\ multi.alive = TRUE /\ multi.generation = 1 /\ multi.count = count
      /\ multi.queryCount = f
  <2>1. multi = [alive |-> TRUE, generation |-> 1, count |-> count, main |-> main,
                 destroy |-> FALSE, queryCount |-> f]
    BY <1>2, <1>4
  <2>2. 1 \in Generations
    BY PoolAssumption, SMTT(60) DEF Generations
  <2> QED BY <1>3, <2>1, <2>2, SMTT(60) DEF MultiRecords
<1>6. PICK r \in ProxyRecords :
        /\ r = NewProxy(main, FALSE) /\ r.phase = "created" /\ r.pending = {} /\ r.mailbox = <<>>
        /\ r.auth = "Empty"
  <2>1. PICK b \in BOOLEAN : b = FALSE
    OBVIOUS
  <2>2. /\ NewProxy(main, b) \in ProxyRecords
        /\ NewProxy(main, b).phase = "created" /\ NewProxy(main, b).pending = {}
        /\ NewProxy(main, b).mailbox = <<>> /\ NewProxy(main, b).auth = "Empty"
    BY <1>3, NewProxyRecord
  <2> QED BY <2>1, <2>2
<1>7. \A p \in Proxies : proxies[p] = IF p \in CurrentAt(1, count) THEN r ELSE Absent
  BY <1>2, <1>6
<1>8. Current = CurrentAt(1, count)
  BY <1>5 DEF Current
<1>9. PoolTypeOK
  <2>1. proxies \in [Proxies -> ProxyRecords \cup {Absent, Dead}]
    BY <1>2, <1>6
  <2>2. finished \in [Proxies -> Nat] /\ held \in [Sessions -> SUBSET Queries] /\ notifying \in Nat
    BY <1>1, SMTT(60)
  <2>3. key \in KeyStates
    BY <1>1 DEF KeyStates
  <2>4. multi.queryCount \in [0..multi.count - 1 -> Int]
    BY <1>4, <1>5
  <2> QED BY <1>1, <1>3, <1>5, <2>1, <2>2, <2>3, <2>4 DEF PoolTypeOK
<1>10. \A p \in Proxies :
         /\ p \in Current => proxies[p] = r /\ Alive(p)
         /\ p \notin Current => proxies[p] = Absent /\ ~Alive(p)
  BY <1>6, <1>7, <1>8, <1>9, AliveRecords
<1>11. Sent(<<>>) = {} /\ ~HungUp(<<>>) /\ MailOK(<<>>)
  <2>1. \A k : k \notin DOMAIN (<<>>)
    BY SMTT(60)
  <2> QED BY <2>1 DEF Sent, HungUp, MailOK
<1>12. \A p \in Proxies : InMailbox(p) = {} /\ PendingIn(p) = {}
  <2> SUFFICES ASSUME NEW p \in Proxies PROVE InMailbox(p) = {} /\ PendingIn(p) = {}
    OBVIOUS
  <2>1. InMailbox(p) = (IF Alive(p) THEN Sent(proxies[p].mailbox) ELSE {})
    BY DEF InMailbox, Sent
  <2> QED BY <1>6, <1>10, <1>11, <2>1 DEF PendingIn
<1>13. MailboxesOK /\ KeyHeard
  BY <1>6, <1>10, <1>11 DEF MailboxesOK, KeyHeard
<1>14. GenerationsOK
  <2>1. multi.generation + cond.recreate <= MaxGeneration
    BY <1>3, <1>5, PoolAssumption, SMTT(60)
  <2>2. \A p \in Current : Alive(p) /\ ~HungUp(proxies[p].mailbox)
    BY <1>6, <1>9, <1>10, <1>11, CurrentAreProxies
  <2>3. ASSUME NEW p \in Proxies,
               p[1] > multi.generation \/ (p[1] = multi.generation /\ p[2] >= multi.count)
        PROVE  Unused(p)
    <3>1. p \notin Current
      <4>1. ASSUME p \in Current PROVE FALSE
        <5>1. p[1] = multi.generation /\ p[2] \in 0..multi.count - 1
          BY <1>9, <4>1, CurrentAreProxies
        <5> QED BY <1>3, <1>5, <2>3, <5>1, PoolAssumption, SMTT(60)
      <4> QED BY <4>1
    <3> QED BY <1>1, <1>10, <3>1 DEF Unused
  <2> QED BY <2>1, <2>2, <2>3 DEF GenerationsOK
<1>15. \A y \in Places : y # <<"inbox">> => Contents(y) = {}
  <2> SUFFICES ASSUME NEW y \in Places, y # <<"inbox">> PROVE Contents(y) = {}
    OBVIOUS
  <2>1. \A s \in Sessions : held[s] = {}
    BY <1>1
  <2> QED BY <1>1, <1>12, <2>1, PlaceKinds, ContentsAre
<1>16. OnePlace
  <2>1. <<"inbox">> \in Places /\ Contents(<<"inbox">>) = Queries
    BY <1>1, PlaceKinds, ContentsAre
  <2> QED BY <1>15, <2>1 DEF OnePlace
<1>17. HolderExists
  BY <1>1 DEF HolderExists
<1>18. CountsUnder
  <2> SUFFICES ASSUME NEW p \in Current PROVE multi.queryCount[p[2]] = Cardinality(Under(p)) + finished[p]
    BY DEF CountsUnder
  <2>1. p \in Proxies /\ p[2] \in 0..multi.count - 1
    BY <1>9, CurrentAreProxies
  <2>2. Under(p) = {}
    <3>1. <<"inbox">> \notin PlacesUnder(p)
      BY <2>1, UnderKinds
    <3>2. PlacesUnder(p) \subseteq Places
      <4>1. SessionsOf(p) \subseteq Sessions
        BY DEF SessionsOf
      <4> QED BY <2>1, <4>1, SMTT(60) DEF PlacesUnder, Places
    <3> QED BY <1>15, <3>1, <3>2 DEF Under
  <2>3. Cardinality(Under(p)) = 0
    BY <2>2 DEF CountingRules
  <2>4. multi.queryCount[p[2]] = 0 /\ finished[p] = 0
    BY <1>1, <1>4, <1>5, <2>1
  <2> QED BY <2>3, <2>4, SMTT(60)
<1> QED BY <1>9, <1>13, <1>14, <1>16, <1>17, <1>18 DEF PoolInv

LEMMA PoolStep ==
  ASSUME CountingRules, PoolInv, KeyHeard, [Next]_vars
  PROVE  PoolInv' /\ KeyHeard'
<1>0. cond.counts \subseteq 1..MaxCount /\ 1 \in 1..MaxCount
  <2> DEFINE C == SUBSET (1..MaxCount)
             M == SUBSET BOOLEAN
  <2>1. cond \in [counts : C, mains : M, key : Nat, recreate : Nat, reopen : Nat]
    BY DEF PoolInv, PoolTypeOK, ConditionType
  <2> HIDE DEF C, M
  <2>2. cond.counts \in C
    BY <2>1, SMTT(60)
  <2>3. 1 \in 1..MaxCount
    BY PoolAssumption, SMTT(60)
  <2> QED BY <2>2, <2>3 DEF C
<1>1. CASE Environment
  <2>1. CASE Stop \/ \E k \in KeyStates : SetAuthKey(k)
    BY <2>1, StillKeeps
  <2>2. CASE \E s \in Sessions : SessionFails(s) \/ SessionBindResult(s)
    BY <2>2, StillKeeps
  <2>3. ASSUME NEW count \in cond.counts, NEW pfs \in BOOLEAN, UpdateOptions(count, pfs, FALSE)
        PROVE  PoolInv' /\ KeyHeard'
    <3>1. PICK b \in BOOLEAN : b = FALSE
      OBVIOUS
    <3>2. UpdateOptions(count, pfs, b) /\ count \in 1..MaxCount
      BY <1>0, <2>3, <3>1
    <3> QED BY <3>2, RecreateKeeps
  <2>4. CASE UpdateOptions(1, FALSE, TRUE)
    <3>1. PICK b \in BOOLEAN, d \in BOOLEAN, n \in 1..MaxCount : b = FALSE /\ d = TRUE /\ n = 1
      BY <1>0
    <3>2. UpdateOptions(n, b, d)
      BY <2>4, <3>1
    <3> QED BY <3>2, RecreateKeeps
  <2>5. CASE UpdateMtprotoHeader \/ \E b \in cond.mains : UpdateMainFlag(b)
    BY <2>5, TellKeeps
  <2>6. ASSUME NEW s \in Sessions, NEW q \in Queries, SessionResend(s, q) PROVE PoolInv' /\ KeyHeard'
    BY <2>6, SessionKeeps
  <2> QED BY <1>1, <2>1, <2>2, <2>3, <2>4, <2>5, <2>6 DEF Environment
<1>2. CASE Internal
  <2>1. ASSUME NEW p \in Proxies, ProxyStep(p) PROVE PoolInv' /\ KeyHeard'
    BY <2>1, StartUpReadKeeps, SendKeeps, MainFlagKeeps, HeaderKeeps, UpdateKeeps, HangupKeeps
       DEF ProxyStep
  <2>2. ASSUME NEW p \in Proxies, StartUpRegister(p) \/ MultiOnQueryFinished(p) PROVE PoolInv' /\ KeyHeard'
    BY <2>2, StartUpRegisterKeeps, OnQueryFinishedKeeps
  <2>3. ASSUME NEW s \in Sessions, ProxyOnFailed(s) \/ SessionClose(s) PROVE PoolInv' /\ KeyHeard'
    BY <2>3, OnFailedKeeps, SessionKeeps
  <2>4. ASSUME NEW s \in Sessions, NEW q \in Queries, SessionResult(s, q) PROVE PoolInv' /\ KeyHeard'
    BY <2>4, SessionKeeps
  <2>5. ASSUME NEW q \in Queries, MultiSend(q) PROVE PoolInv' /\ KeyHeard'
    BY <2>5, MultiSendKeeps
  <2>6. CASE Notify
    BY <2>6, NotifyKeeps
  <2>7. CASE MultiHangup
    BY <2>7, MultiHangupKeeps
  <2> QED BY <1>2, <2>1, <2>2, <2>3, <2>4, <2>5, <2>6, <2>7 DEF Internal
<1>3. CASE UNCHANGED vars
  BY <1>3, StillKeeps
<1> QED BY <1>1, <1>2, <1>3 DEF Next

LEMMA OnePlaceCounted ==
  ASSUME CountingRules, PoolInv
  PROVE  NoQueryLost
<1>1. ASSUME NEW q \in Queries PROVE Cardinality({x \in Places : q \in Contents(x)}) = 1
  <2>1. PICK x \in Places : \A y \in Places : q \in Contents(y) <=> x = y
    BY DEF PoolInv, OnePlace
  <2>2. {y \in Places : q \in Contents(y)} = {x}
    BY <2>1
  <2>3. Cardinality({x}) = 1
    BY DEF CountingRules
  <2> QED BY <2>2, <2>3
<1> QED BY <1>1 DEF PoolInv, HolderExists, NoQueryLost

\* The queries under p, by where they are.
LEMMA UnderCounted ==
  ASSUME CountingRules, PoolInv, NEW p \in Proxies
  PROVE  Cardinality(Under(p)) =
           Cardinality(InMailbox(p)) + Cardinality(PendingIn(p)) + Cardinality(HeldUnder(p))
<1>0. /\ <<"mailbox", p>> \in Places /\ <<"pending", p>> \in Places
      /\ SessionsOf(p) \subseteq Sessions
      /\ Contents(<<"mailbox", p>>) = InMailbox(p) /\ Contents(<<"pending", p>>) = PendingIn(p)
      /\ \A s \in SessionsOf(p) : <<"held", s>> \in Places /\ Contents(<<"held", s>>) = held[s]
  BY PlaceKinds, ContentsAre DEF SessionsOf
<1>1. InMailbox(p) \subseteq Queries /\ PendingIn(p) \subseteq Queries /\ HeldUnder(p) \subseteq Queries
  <2>1. InMailbox(p) \subseteq Queries
    BY DEF InMailbox
  <2>2. PendingIn(p) \subseteq Queries
    <3>1. CASE Alive(p)
      <4>1. proxies[p] \in ProxyRecords
        BY <3>1, AliveRecords DEF PoolInv
      <4>2. proxies[p].pending \subseteq Queries
        BY <4>1, RecordFields
      <4> QED BY <3>1, <4>2 DEF PendingIn
    <3>2. CASE ~Alive(p)
      BY <3>2 DEF PendingIn
    <3> QED BY <3>1, <3>2
  <2>3. HeldUnder(p) \subseteq Queries
    BY <1>0 DEF HeldUnder, PoolInv, PoolTypeOK
  <2> QED BY <2>1, <2>2, <2>3
<1>2. \A q \in Queries, x, y \in Places : q \in Contents(x) /\ q \in Contents(y) => x = y
  BY DEF PoolInv, OnePlace
<1>3. InMailbox(p) \cap PendingIn(p) = {}
  <2>1. PICK x \in Places, y \in Places : x = <<"mailbox", p>> /\ y = <<"pending", p>> /\ x # y
    BY <1>0, PlacesDiffer
  <2> SUFFICES ASSUME NEW q \in InMailbox(p), q \in PendingIn(p) PROVE FALSE
    OBVIOUS
  <2>2. q \in Queries /\ q \in Contents(x) /\ q \in Contents(y)
    BY <1>0, <1>1, <2>1
  <2> QED BY <1>2, <2>1, <2>2
<1>4. \A q \in HeldUnder(p) : \E s \in SessionsOf(p) : q \in held[s]
  BY DEF HeldUnder
<1>5. (InMailbox(p) \cup PendingIn(p)) \cap HeldUnder(p) = {}
  <2> SUFFICES ASSUME NEW q \in HeldUnder(p), q \in InMailbox(p) \/ q \in PendingIn(p) PROVE FALSE
    OBVIOUS
  <2>1. PICK s \in SessionsOf(p) : q \in held[s]
    BY <1>4
  <2>2. PICK x \in Places, y \in Places, z \in Places :
          /\ x = <<"mailbox", p>> /\ y = <<"pending", p>> /\ z = <<"held", s>> /\ x # z /\ y # z
    <3>1. <<"mailbox", p>> # <<"held", s>> /\ <<"pending", p>> # <<"held", s>>
      BY PlacesDiffer
    <3>2. <<"held", s>> \in Places
      BY <1>0
    <3> QED BY <1>0, <3>1, <3>2
  <2>3. q \in Queries /\ q \in Contents(z) /\ (q \in Contents(x) \/ q \in Contents(y))
    BY <1>0, <1>1, <2>1, <2>2
  <2> QED BY <1>2, <2>2, <2>3
<1>6. Under(p) = (InMailbox(p) \cup PendingIn(p)) \cup HeldUnder(p)
  <2>1. \A x : x \in PlacesUnder(p) <=>
          \/ x = <<"mailbox", p>> \/ x = <<"pending", p>>
          \/ \E s \in SessionsOf(p) : x = <<"held", s>>
    BY SMTT(60) DEF PlacesUnder
  <2>2. ASSUME NEW q \in Under(p) PROVE q \in (InMailbox(p) \cup PendingIn(p)) \cup HeldUnder(p)
    <3>1. PICK x \in PlacesUnder(p) : q \in Contents(x)
      BY DEF Under
    <3> QED BY <1>0, <2>1, <3>1 DEF HeldUnder
  <2>3. ASSUME NEW q \in InMailbox(p) \cup PendingIn(p) PROVE q \in Under(p)
    BY <1>0, <1>1, <2>1 DEF Under
  <2>4. ASSUME NEW q \in HeldUnder(p) PROVE q \in Under(p)
    BY <1>0, <1>1, <1>4, <2>1 DEF Under
  <2> QED BY <2>2, <2>3, <2>4
<1>7. PICK A, B, C : A = InMailbox(p) /\ B = PendingIn(p) /\ C = HeldUnder(p)
  OBVIOUS
<1>8. /\ A \subseteq Queries /\ B \subseteq Queries /\ C \subseteq Queries /\ A \cup B \subseteq Queries
      /\ Cardinality(A) \in Nat /\ Cardinality(B) \in Nat /\ Cardinality(C) \in Nat
      /\ Cardinality(A \cup B) \in Nat
  <2>1. A \cup B \subseteq Queries /\ A \subseteq Queries /\ B \subseteq Queries /\ C \subseteq Queries
    BY <1>1, <1>7
  <2> QED BY <2>1, UnderFinite
<1>9. Cardinality(A \cup B) = Cardinality(A) + Cardinality(B) - Cardinality(A \cap B)
  BY <1>8 DEF CountingRules
<1>10. Cardinality((A \cup B) \cup C) = Cardinality(A \cup B) + Cardinality(C) - Cardinality((A \cup B) \cap C)
  BY <1>8 DEF CountingRules
<1>11. Cardinality(A \cap B) = 0 /\ Cardinality((A \cup B) \cap C) = 0
  BY <1>3, <1>5, <1>7 DEF CountingRules
<1>12. Cardinality((A \cup B) \cup C) = Cardinality(A) + Cardinality(B) + Cardinality(C)
  BY <1>8, <1>9, <1>10, <1>11, SMTT(60)
<1> QED BY <1>6, <1>7, <1>12

LEMMA CountsExact ==
  ASSUME CountingRules, PoolInv
  PROVE  QueryCountExact
<1> SUFFICES ASSUME NEW p \in Current
             PROVE  multi.queryCount[p[2]] =
                      Cardinality(InMailbox(p)) + Cardinality(PendingIn(p)) + Cardinality(HeldUnder(p))
                        + finished[p]
  BY DEF QueryCountExact
<1>1. p \in Proxies
  BY CurrentAreProxies DEF PoolInv
<1>2. Cardinality(Under(p)) =
        Cardinality(InMailbox(p)) + Cardinality(PendingIn(p)) + Cardinality(HeldUnder(p))
  BY <1>1, UnderCounted
<1>3. multi.queryCount[p[2]] = Cardinality(Under(p)) + finished[p]
  BY DEF PoolInv, CountsUnder
<1> QED BY <1>2, <1>3

INSTANCE FiniteSetTheorems

LEMMA QueriesAreCounted ==
  CountingRules
<1>1. \A S \in SUBSET Queries : IsFiniteSet(S) /\ Cardinality(S) \in Nat
  BY PoolAssumption, FS_Subset, FS_CardinalityType
<1>2. \A S, T \in SUBSET Queries :
        /\ Cardinality(S \cup T) = Cardinality(S) + Cardinality(T) - Cardinality(S \cap T)
        /\ Cardinality(S \ T) = Cardinality(S) - Cardinality(S \cap T)
  BY <1>1, FS_Union, FS_Difference
<1>3. Cardinality({}) = 0 /\ \A q : Cardinality({q}) = 1
  BY FS_EmptySet, FS_Singleton
<1> QED BY <1>1, <1>2, <1>3 DEF CountingRules

LEMMA PoolIsInvariant ==
  Spec => [](PoolInv /\ KeyHeard)
<1>1. Init => PoolInv /\ KeyHeard
  BY QueriesAreCounted, PoolStarts
<1>2. (PoolInv /\ KeyHeard) /\ [Next]_vars => (PoolInv /\ KeyHeard)'
  <2> SUFFICES ASSUME PoolInv, KeyHeard, [Next]_vars PROVE PoolInv' /\ KeyHeard'
    OBVIOUS
  <2> QED BY QueriesAreCounted, PoolStep
<1> QED BY <1>1, <1>2, PTL DEF Spec

\* No query is lost or held twice, whatever is closed, recreated or stopped: each
\* is in exactly one place on its way from the dispatcher to a session and back,
\* and a session that holds one exists.
THEOREM PoolLosesNoQuery == Spec => []NoQueryLost
<1>1. PoolInv /\ KeyHeard => NoQueryLost
  BY QueriesAreCounted, OnePlaceCounted
<1> QED BY <1>1, PoolIsInvariant, PTL

\* query_count_ counts, for each proxy in use, the queries it has been sent and
\* whose end the SessionMultiProxy has not heard of, for any number of sessions,
\* queries and generations: the CHECKs of on_query_finished cannot fail.
THEOREM PoolCountsExactly == Spec => []QueryCountExact
<1>1. PoolInv /\ KeyHeard => QueryCountExact
  BY QueriesAreCounted, CountsExact
<1> QED BY <1>1, PoolIsInvariant, PTL

\* A query that waits for the key in a proxy waits with reason: the key is not
\* authorized, or a call of update_auth_key_state is still to come, also when the
\* key is set between the two halves of add_auth_key_listener.
THEOREM PoolWakesUp == Spec => []NoLostWakeup
<1>1. KeyHeard => NoLostWakeup
  <2> SUFFICES ASSUME KeyHeard, NEW p \in Proxies, Running(p), proxies[p].pending # {}, key = "OK"
               PROVE  proxies[p].updates > 0 \/ (notifying > 0 /\ p \in listeners)
    BY DEF NoLostWakeup
  <2>1. Alive(p)
    BY DEF Running, Alive
  <2> QED BY <2>1 DEF KeyHeard, Running
<1> QED BY <1>1, PoolIsInvariant, PTL

=============================================================================
