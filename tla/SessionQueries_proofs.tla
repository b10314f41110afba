----------------------- MODULE SessionQueries_proofs ------------------------
(***************************************************************************)
(* Proofs about SessionQueries, for any queries, scenarios and number of   *)
(* message identifiers, and any number of faults.                          *)
(*                                                                         *)
(* SessionInv is inductive.  Besides the three properties it says that a   *)
(* message is written once and that message and container identifiers do   *)
(* not overlap (WrittenOnce), that what the server reports lost it has not *)
(* received, container by container (KeptServer), and that a query has one *)
(* message the server may still execute or has executed, none while it is  *)
(* pending (OneLive).  Most steps only take messages, containers and       *)
(* packets away (Shrinks), which keeps all of that at once; the others     *)
(* send a query, write a packet or are steps of the server (Quiet).        *)
(***************************************************************************)
EXTENDS SessionQueries, TLAPS

Flags == BOOLEAN
SentRecords == [query : All, container : Nat, acked : Flags, unknown : Flags]
ContainerRecords == [refCnt : Nat, ids : SUBSET Messages]
Results == {"none", "ok", "error", "resend", "canceled"}
Used == 1..nextId - 1

QueriesTypeOK ==
  /\ nextId \in 1..MaxMessageId + 1
  /\ DOMAIN sent \subseteq Used /\ \A m \in DOMAIN sent : sent[m] \in SentRecords
  /\ DOMAIN toSend \subseteq Used /\ \A m \in DOMAIN toSend : toSend[m] \in All
  /\ DOMAIN containers \subseteq Used
  /\ \A c \in DOMAIN containers : containers[c] \in ContainerRecords
  /\ asked \subseteq Used
  /\ pending \subseteq Queries /\ given \subseteq All /\ returned \in [All -> Results]
  /\ scenario \in Scenarios

\* A query given to the session is in one place, under one message.
OnePlace ==
  /\ \A m, n \in DOMAIN sent : sent[m].query = sent[n].query => m = n
  /\ \A q \in All :
       /\ q \in pending \/ q \in SentQueries \/ returned[q] # "none" <=> q \in given
       /\ q \in pending => q \notin SentQueries /\ returned[q] = "none"
       /\ q \in SentQueries => returned[q] = "none"

UnknownAreSent == \A m \in unknown : m \in DOMAIN sent /\ sent[m].unknown

\* Packets are records.
PacketOf(p) == DOMAIN p = {"id", "body", "old"}
BodyOK(p) ==
  /\ p.id \in Used /\ DOMAIN p.body \subseteq Used /\ DOMAIN p.body # {}
  /\ \A m \in DOMAIN p.body : p.body[m] \in All
NetTypeOK == \A p \in net : PacketOf(p) /\ BodyOK(p)

\* A packet that is a container has an identifier of its own.
InContainer(p) == DOMAIN p.body # {p.id}
IsMessage(m) ==
  m \in DOMAIN sent \/ m \in DOMAIN toSend \/ m \in asked \/ \E p \in net : m \in DOMAIN p.body
IsContainer(c) == c \in DOMAIN containers \/ \E p \in net : InContainer(p) /\ c = p.id

\* A message is written once.
WrittenOnce ==
  /\ \A m \in Used : ~(IsMessage(m) /\ IsContainer(m))
  /\ \A p \in net : DOMAIN p.body \cap DOMAIN toSend = {}
  /\ \A p, r \in net : p.id = r.id \/ DOMAIN p.body \cap DOMAIN r.body # {} => p = r
  /\ \A p \in net : p.id \in DOMAIN containers => containers[p.id].ids \subseteq DOMAIN p.body
  /\ \A c \in DOMAIN containers : containers[c].ids \subseteq Used
  /\ \A m \in DOMAIN sent : sent[m].container \in Used

\* A container counts the messages that are in it and in sent_queries_.
Counted ==
  \A c \in DOMAIN containers :
    /\ \A m \in DOMAIN sent : sent[m].container = c <=> m \in containers[c].ids
    /\ containers[c].refCnt = Cardinality(containers[c].ids \cap DOMAIN sent)
    /\ containers[c].refCnt > 0
Unwritten == \A m \in DOMAIN sent : m \in DOMAIN toSend => sent[m].container = m

\* As long as the server keeps its session, it takes what it has lost for lost.
KeptServer ==
  /\ ~freshServer /\ firstId = 0
  /\ received \cap lost = {} /\ received \subseteq Used /\ lost \subseteq Used
  /\ executed \subseteq received \X All \X {0}
  /\ \A p \in net : InContainer(p) => p.id \notin received \cup lost
  /\ \A c \in DOMAIN containers : c \in lost => containers[c].ids \cap DOMAIN sent \subseteq lost
ServerOK == serverResets \in Nat /\ (serverResets = 0 => KeptServer)

\* The message m carries q, and the server may execute it or has done so.
Waits(m, q) ==
  \/ m \in DOMAIN toSend /\ toSend[m] = q
  \/ \E p \in net : m \in DOMAIN p.body /\ p.body[m] = q
Done(m, q) == \E x \in executed : x[1] = m /\ x[2] = q
Live(m, q) == (Waits(m, q) /\ m \notin lost) \/ Done(m, q)

\* A query has one live message, the one in sent_queries_ if it is there, and
\* none while it is pending.
OneLive ==
  serverResets = 0 =>
    \A q \in All :
      /\ \A m, n \in Used : Live(m, q) /\ Live(n, q) => m = n
      /\ \A m \in Used : Live(m, q) => q \in given /\ q \notin pending
      /\ \A m \in Used, n \in DOMAIN sent : Live(m, q) /\ sent[n].query = q => m = n

SessionInv ==
  /\ QueriesTypeOK /\ OnePlace /\ UnknownAreSent /\ NetTypeOK /\ WrittenOnce
  /\ Counted /\ Unwritten /\ ServerOK /\ OneLive

----------------------------------------------------------------------------
(* Functions. *)

LEMMA EmptyFunction ==
  DOMAIN <<>> = {}
  BY SMTT(60)

\* g is f without S.
Cut(f, g, S) == DOMAIN g = DOMAIN f \ S /\ \A x \in DOMAIN g : g[x] = f[x]

LEMMA WithoutCuts ==
  ASSUME NEW f, NEW S, NEW g, g = Without(f, S)
  PROVE  Cut(f, g, S)
  BY Zenon DEF Without, Restrict, Cut

\* g is f and y for x.
Put(f, g, x, y) ==
  /\ DOMAIN g = DOMAIN f \cup {x} /\ g[x] = y
  /\ \A z \in DOMAIN f : z # x => g[z] = f[z]

LEMMA WithPuts ==
  ASSUME NEW f, NEW x, NEW y, NEW g, g = With(f, x, y)
  PROVE  Put(f, g, x, y)
  BY SMTT(60) DEF With, Put

LEMMA RangesGrow ==
  ASSUME NEW i \in 1..MaxMessageId + 1, NEW j \in 1..MaxMessageId + 1, i <= j
  PROVE  1..i - 1 \subseteq 1..j - 1 /\ 1..j - 1 \subseteq Messages
<1>1. MaxMessageId \in Int /\ i \in Int /\ j \in Int /\ j <= MaxMessageId + 1
  BY BoundsAssumption, SMTT(60)
<1>2. ASSUME NEW x \in 1..i - 1 PROVE x \in 1..j - 1
  BY <1>1, SMTT(60)
<1>3. ASSUME NEW x \in 1..j - 1 PROVE x \in Messages
  BY <1>1, SMTT(60) DEF Messages
<1> QED BY <1>2, <1>3, Zenon

LEMMA UsedGrows ==
  ASSUME nextId \in 1..MaxMessageId + 1, nextId' \in 1..MaxMessageId + 1, nextId <= nextId'
  PROVE  Used \subseteq Used' /\ Used' \subseteq Messages
  BY RangesGrow, Zenon DEF Used

----------------------------------------------------------------------------
(* Steps after which there is no more than there was: of the messages, of  *)
(* the containers and of the packets.                                      *)

SentLess ==
  \A m \in DOMAIN sent' :
    /\ m \in DOMAIN sent /\ sent'[m] \in SentRecords
    /\ sent'[m].query = sent[m].query /\ sent'[m].container = sent[m].container

ContainersLess ==
  \A c \in DOMAIN containers' :
    c \in DOMAIN containers /\ containers'[c] \in ContainerRecords /\ containers'[c].ids = containers[c].ids

\* The packets r and s were p and o.
NetLess ==
  \A r, s \in net' : \E p, o \in net :
    /\ PacketOf(r) /\ r.id = p.id /\ r.body = p.body /\ s.id = o.id /\ s.body = o.body
    /\ p = o => r = s

WireLess ==
  /\ nextId' \in 1..MaxMessageId + 1 /\ nextId <= nextId'
  /\ \A m \in DOMAIN toSend' : m \in DOMAIN toSend /\ toSend'[m] = toSend[m]
  /\ \A m \in asked' : m \in asked \/ m \in DOMAIN sent
  /\ NetLess

Shrinks == SentLess /\ ContainersLess /\ WireLess

LEMMA OldPacket ==
  ASSUME NetLess, NEW r \in net'
  PROVE  \E p \in net : PacketOf(r) /\ r.id = p.id /\ r.body = p.body
  BY Zenon DEF NetLess

LEMMA ShrinkKeepsNet ==
  ASSUME SessionInv, Shrinks
  PROVE  NetTypeOK' /\ WrittenOnce' /\ Unwritten'
<1>1. Used \subseteq Used'
  BY UsedGrows, Zenon DEF SessionInv, QueriesTypeOK, Shrinks, WireLess
<1>2. NetTypeOK'
  <2> SUFFICES ASSUME NEW r \in net' PROVE PacketOf(r) /\ BodyOK(r)'
    BY Zenon DEF NetTypeOK, PacketOf
  <2>1. PICK p \in net : PacketOf(r) /\ r.id = p.id /\ r.body = p.body
    BY OldPacket, Zenon DEF Shrinks, WireLess
  <2>2. BodyOK(p)
    BY Zenon DEF SessionInv, NetTypeOK
  <2> QED BY <1>1, <2>1, <2>2, Zenon DEF BodyOK
<1>3. \A m : (IsMessage(m)' => IsMessage(m)) /\ (IsContainer(m)' => IsContainer(m))
  <2> TAKE m
  <2>1. (\E r \in net' : m \in DOMAIN r.body) => \E p \in net : m \in DOMAIN p.body
    BY OldPacket, Zenon DEF Shrinks, WireLess
  <2>2. (\E r \in net' : InContainer(r) /\ m = r.id) => \E p \in net : InContainer(p) /\ m = p.id
    BY OldPacket, ZenonT(60) DEF Shrinks, WireLess, InContainer
  <2> QED BY <2>1, <2>2, Zenon DEF IsMessage, IsContainer, Shrinks, WireLess, SentLess, ContainersLess, InContainer
<1>4. \A m \in Used' : ~(IsMessage(m)' /\ IsContainer(m)')
  <2> SUFFICES ASSUME NEW m, IsMessage(m), IsContainer(m) PROVE FALSE
    BY <1>3, Zenon
  <2>1. m \in Used
    BY Zenon DEF SessionInv, QueriesTypeOK, NetTypeOK, BodyOK, IsContainer
  <2> QED BY <2>1, Zenon DEF SessionInv, WrittenOnce
<1>5. \A r \in net' : DOMAIN r.body \cap DOMAIN toSend' = {}
  <2> TAKE r \in net'
  <2>1. PICK p \in net : r.body = p.body
    BY OldPacket, Zenon DEF Shrinks, WireLess
  <2>2. DOMAIN toSend' \subseteq DOMAIN toSend
    BY Zenon DEF Shrinks, WireLess
  <2> QED BY <2>1, <2>2, Zenon DEF SessionInv, WrittenOnce
<1>6. \A r, s \in net' : r.id = s.id \/ DOMAIN r.body \cap DOMAIN s.body # {} => r = s
  <2> TAKE r, s \in net'
  <2>0. NetLess
    BY Zenon DEF Shrinks, WireLess
  <2>1. PICK p, o \in net : /\ PacketOf(r) /\ r.id = p.id /\ r.body = p.body /\ s.id = o.id /\ s.body = o.body
                            /\ p = o => r = s
    BY <2>0, Zenon DEF NetLess
  <2> QED BY <2>1, ZenonT(60) DEF SessionInv, WrittenOnce
<1>7. \A r \in net' : r.id \in DOMAIN containers' => containers'[r.id].ids \subseteq DOMAIN r.body
  <2> TAKE r \in net'
  <2>1. PICK p \in net : r.id = p.id /\ r.body = p.body
    BY OldPacket, Zenon DEF Shrinks, WireLess
  <2> QED BY <2>1, Zenon DEF SessionInv, WrittenOnce, Shrinks, ContainersLess
<1>8. Unwritten'
  BY Zenon DEF SessionInv, Unwritten, Shrinks, SentLess, WireLess
<1>9. \A c \in DOMAIN containers' : containers'[c].ids \subseteq Used'
  BY <1>1, Zenon DEF SessionInv, WrittenOnce, Shrinks, ContainersLess
<1>10. \A m \in DOMAIN sent' : sent'[m].container \in Used'
  BY <1>1, Zenon DEF SessionInv, WrittenOnce, Shrinks, SentLess
<1> QED BY <1>2, <1>4, <1>5, <1>6, <1>7, <1>8, <1>9, <1>10, Zenon DEF WrittenOnce

ServerStill ==
  /\ UNCHANGED <<received, lost, executed, serverResets>>
  /\ serverResets = 0 => UNCHANGED <<freshServer, firstId>>

\* What becomes pending has no live message.
PendingDead == \A q \in pending' : q \in pending \/ (serverResets = 0 => \A m \in Used : ~Live(m, q))

LEMMA ShrinkKeepsServer ==
  ASSUME SessionInv, Shrinks, ServerStill, PendingDead, given \subseteq given'
  PROVE  ServerOK' /\ OneLive'
<1>1. Used \subseteq Used'
  BY UsedGrows, Zenon DEF SessionInv, QueriesTypeOK, Shrinks, WireLess
<1>0. serverResets' \in Nat
  BY Zenon DEF SessionInv, ServerOK, ServerStill
<1> SUFFICES ASSUME serverResets' = 0 PROVE ServerOK' /\ OneLive'
  BY <1>0, Zenon DEF ServerOK, OneLive
<1>2. serverResets = 0 /\ UNCHANGED <<received, lost, executed, freshServer, firstId>>
  BY Zenon DEF ServerStill
<1>3. ServerOK'
  <2>1. /\ ~freshServer /\ firstId = 0 /\ received \cap lost = {} /\ received \subseteq Used /\ lost \subseteq Used
        /\ executed \subseteq received \X All \X {0}
    BY <1>2, Zenon DEF SessionInv, KeptServer, ServerOK
  <2>2. \A r \in net' : InContainer(r) => r.id \notin received \cup lost
    <3> TAKE r \in net'
    <3>1. PICK p \in net : r.id = p.id /\ r.body = p.body
      BY OldPacket, Zenon DEF Shrinks, WireLess
    <3> QED BY <1>2, <3>1, Zenon DEF SessionInv, KeptServer, ServerOK, InContainer
  <2>3. \A c \in DOMAIN containers' : c \in lost => containers'[c].ids \cap DOMAIN sent' \subseteq lost
    <3> TAKE c \in DOMAIN containers'
    <3>1. c \in DOMAIN containers /\ containers'[c].ids = containers[c].ids /\ DOMAIN sent' \subseteq DOMAIN sent
      BY Zenon DEF Shrinks, ContainersLess, SentLess
    <3>2. c \in lost => containers[c].ids \cap DOMAIN sent \subseteq lost
      BY <1>2, <3>1, Zenon DEF SessionInv, KeptServer, ServerOK
    <3> QED BY <3>1, <3>2, Zenon
  <2> QED BY <1>0, <1>1, <1>2, <2>1, <2>2, <2>3, Zenon DEF KeptServer, ServerOK, InContainer
<1>4. \A m, q : Live(m, q)' => Live(m, q) /\ m \in Used
  <2> TAKE m, q
  <2>1. (\E r \in net' : m \in DOMAIN r.body /\ r.body[m] = q) => \E p \in net : m \in DOMAIN p.body /\ p.body[m] = q
    BY OldPacket, Zenon DEF Shrinks, WireLess
  <2>2. Waits(m, q)' => Waits(m, q)
    BY <2>1, Zenon DEF Waits, Shrinks, WireLess
  <2>3. Live(m, q)' => Live(m, q)
    BY <1>2, <2>2, Zenon DEF Live, Done
  <2>4. Waits(m, q) => m \in Used
    BY Zenon DEF Waits, SessionInv, QueriesTypeOK, NetTypeOK, BodyOK
  <2>5. Done(m, q) => m \in Used
    <3> SUFFICES ASSUME NEW x \in executed, x[1] = m PROVE m \in Used
      BY Zenon DEF Done
    <3>1. x \in received \X All \X {0} /\ received \subseteq Used
      BY <1>2, Zenon DEF SessionInv, KeptServer, ServerOK
    <3> QED BY <3>1, SMTT(60)
  <2> QED BY <2>3, <2>4, <2>5, Zenon DEF Live
<1>5. OneLive'
  <2> SUFFICES ASSUME NEW q \in All
               PROVE  /\ \A m, n \in Used' : Live(m, q)' /\ Live(n, q)' => m = n
                      /\ \A m \in Used' : Live(m, q)' => q \in given' /\ q \notin pending'
                      /\ \A m \in Used', n \in DOMAIN sent' : Live(m, q)' /\ sent'[n].query = q => m = n
    BY Zenon DEF OneLive
  <2>1. /\ \A m, n \in Used : Live(m, q) /\ Live(n, q) => m = n
        /\ \A m \in Used : Live(m, q) => q \in given /\ q \notin pending
        /\ \A m \in Used, n \in DOMAIN sent : Live(m, q) /\ sent[n].query = q => m = n
    BY <1>2, Zenon DEF SessionInv, OneLive
  <2>2. \A n \in DOMAIN sent' : n \in DOMAIN sent /\ sent'[n].query = sent[n].query
    BY Zenon DEF Shrinks, SentLess
  <2> QED BY <1>2, <1>4, <2>1, <2>2, Zenon DEF PendingDead
<1> QED BY <1>3, <1>5, Zenon

----------------------------------------------------------------------------
(* Records. *)

LEMMA SentFields ==
  ASSUME NEW r \in SentRecords
  PROVE  r.query \in All /\ r.container \in Nat /\ r.acked \in Flags /\ r.unknown \in Flags
  BY SMTT(60) DEF SentRecords

WithFlags(r, a, u) == [r EXCEPT !.acked = a, !.unknown = u]
WithContainer(r, c) == [r EXCEPT !.container = c]
WithCount(r, n) == [r EXCEPT !.refCnt = n]

Marked(r, o, u) ==
  o \in SentRecords /\ o.query = r.query /\ o.container = r.container /\ o.unknown = u

LEMMA MarkedRecord ==
  ASSUME NEW r \in SentRecords, NEW a \in Flags, NEW u \in Flags
  PROVE  Marked(r, WithFlags(r, a, u), u)
<1>0. PICK o : o = WithFlags(r, a, u)
  BY Zenon
<1>1. PICK x : x = [r EXCEPT !.acked = a]
  BY Zenon
<1>2. x \in SentRecords /\ x.query = r.query /\ x.container = r.container
  BY <1>1, SMTT(60) DEF SentRecords
<1>3. o = [x EXCEPT !.unknown = u]
  BY <1>0, <1>1, SMTT(60) DEF WithFlags, SentRecords
<1>4. o \in SentRecords /\ o.query = x.query /\ o.container = x.container /\ o.unknown = u
  BY <1>2, <1>3, SMTT(60) DEF SentRecords
<1> QED BY <1>0, <1>2, <1>4, Zenon DEF Marked

LEMMA ContainerFields ==
  ASSUME NEW r \in ContainerRecords
  PROVE  r.refCnt \in Nat /\ r.ids \subseteq Messages
  BY SMTT(60) DEF ContainerRecords

LEMMA CountedRecord ==
  ASSUME NEW r \in ContainerRecords, NEW n \in Nat, NEW o, o = WithCount(r, n)
  PROVE  o \in ContainerRecords /\ o.ids = r.ids /\ o.refCnt = n
  BY SMTT(60) DEF ContainerRecords, WithCount

Aged(p) == [p EXCEPT !.old = TRUE]

LEMMA AgedPacket ==
  ASSUME NEW p, PacketOf(p)
  PROVE  PacketOf(Aged(p)) /\ Aged(p).id = p.id /\ Aged(p).body = p.body
  BY SMTT(60) DEF PacketOf, Aged

----------------------------------------------------------------------------
(* The wire. *)

LEMMA WireSame ==
  ASSUME SessionInv, UNCHANGED <<nextId, toSend, net>>, asked' \subseteq asked \cup DOMAIN sent
  PROVE  WireLess
<1>1. NetLess
  BY Zenon DEF NetLess, SessionInv, NetTypeOK
<1>2. nextId \in 1..MaxMessageId + 1 /\ nextId <= nextId
  BY BoundsAssumption, SMTT(60) DEF SessionInv, QueriesTypeOK
<1> QED BY <1>1, <1>2, Zenon DEF WireLess

LEMMA WireDropped ==
  ASSUME SessionInv, DropConnection
  PROVE  WireLess
<1>1. NetLess
  <2> SUFFICES ASSUME NEW r \in net', NEW s \in net'
               PROVE  \E p, o \in net :
                        /\ PacketOf(r) /\ r.id = p.id /\ r.body = p.body /\ s.id = o.id /\ s.body = o.body
                        /\ p = o => r = s
    BY Zenon DEF NetLess
  <2>1. PICK p \in net : r = Aged(p)
    BY Zenon DEF DropConnection, Aged
  <2>2. PICK o \in net : s = Aged(o)
    BY Zenon DEF DropConnection, Aged
  <2>3. PacketOf(p) /\ PacketOf(o)
    BY Zenon DEF SessionInv, NetTypeOK
  <2>4. PacketOf(r) /\ r.id = p.id /\ r.body = p.body
    BY <2>1, <2>3, AgedPacket, Zenon
  <2>5. s.id = o.id /\ s.body = o.body
    BY <2>2, <2>3, AgedPacket, Zenon
  <2> QED BY <2>1, <2>2, <2>4, <2>5, Zenon
<1>2. nextId \in 1..MaxMessageId + 1 /\ nextId <= nextId
  BY BoundsAssumption, SMTT(60) DEF SessionInv, QueriesTypeOK
<1>3. DOMAIN toSend' = {}
  BY EmptyFunction, Zenon DEF DropConnection
<1> QED BY <1>1, <1>2, <1>3, Zenon DEF WireLess, DropConnection

----------------------------------------------------------------------------
(* Containers. *)

\* How sets of messages are counted; the last lemmas show it.
CountingRules ==
  /\ Cardinality({}) = 0
  /\ \A S \in SUBSET Messages :
       /\ Cardinality(S) \in Nat
       /\ S # {} => Cardinality(S) > 0
       /\ \A m \in S : Cardinality(S \ {m}) = Cardinality(S) - 1

\* The containers of the messages that leave sent_queries_ go.
LEMMA ContainersCut ==
  ASSUME SessionInv, SentLess, NEW S, Cut(containers, containers', S),
         \A m \in DOMAIN sent \ DOMAIN sent' :
           sent[m].container \in DOMAIN containers => sent[m].container \in S
  PROVE  Counted' /\ ContainersLess
<1>1. ContainersLess
  BY Zenon DEF ContainersLess, Cut, SessionInv, QueriesTypeOK
<1>2. ASSUME NEW c \in DOMAIN containers'
      PROVE  /\ \A m \in DOMAIN sent' : sent'[m].container = c <=> m \in containers'[c].ids
             /\ containers'[c].refCnt = Cardinality(containers'[c].ids \cap DOMAIN sent')
             /\ containers'[c].refCnt > 0
  <2>1. c \in DOMAIN containers /\ c \notin S /\ containers'[c] = containers[c]
    BY Zenon DEF Cut
  <2>2. /\ \A m \in DOMAIN sent : sent[m].container = c <=> m \in containers[c].ids
        /\ containers[c].refCnt = Cardinality(containers[c].ids \cap DOMAIN sent)
        /\ containers[c].refCnt > 0
    BY <2>1, Zenon DEF SessionInv, Counted
  <2>3. containers[c].ids \cap DOMAIN sent' = containers[c].ids \cap DOMAIN sent
    BY <2>1, <2>2, Zenon DEF SentLess
  <2>4. \A m \in DOMAIN sent' : sent'[m].container = c <=> m \in containers[c].ids
    BY <2>2, Zenon DEF SentLess
  <2> QED BY <2>1, <2>2, <2>3, <2>4, Zenon
<1> QED BY <1>1, <1>2, Zenon DEF Counted

LEMMA OwnIdentifier ==
  ASSUME SessionInv, NEW m \in DOMAIN sent
  PROVE  m \notin DOMAIN containers /\ m \in Used
<1>1. m \in Used /\ IsMessage(m)
  BY Zenon DEF SessionInv, QueriesTypeOK, IsMessage
<1> QED BY <1>1, Zenon DEF SessionInv, WrittenOnce, IsContainer

LEMMA CleanedUp ==
  ASSUME SessionInv, SentLess, NEW ids, ids \subseteq DOMAIN sent, DOMAIN sent \ DOMAIN sent' \subseteq ids,
         containers' = Cleanup(containers, ids)
  PROVE  Counted' /\ ContainersLess
<1>1. PICK S : S = {sent[m].container : m \in ids \intersect DOMAIN sent} \ ids
  BY Zenon
<1>2. Cut(containers, containers', S)
  BY <1>1, WithoutCuts, Zenon DEF Cleanup
<1>3. \A m \in ids : sent[m].container \in DOMAIN containers => sent[m].container \in S
  BY <1>1, OwnIdentifier, Zenon
<1> QED BY <1>2, <1>3, ContainersCut, Zenon

LEMMA ForgottenContainer ==
  ASSUME SessionInv, SentLess, NEW c \in DOMAIN containers,
         DOMAIN sent \ DOMAIN sent' \subseteq containers[c].ids,
         containers' = Without(containers, {c})
  PROVE  Counted' /\ ContainersLess
<1>1. Cut(containers, containers', {c})
  BY WithoutCuts, Zenon
<1>2. \A m \in DOMAIN sent \ DOMAIN sent' : sent[m].container = c
  BY Zenon DEF SessionInv, Counted
<1>3. PICK S : S = {c}
  BY Zenon
<1> QED BY <1>1, <1>2, <1>3, ContainersCut, Zenon

\* dec_container: a container loses one message.
LEMMA ContainerDecreased ==
  ASSUME SessionInv, CountingRules, NEW m \in DOMAIN sent, Cut(sent, sent', {m}), SentLess,
         containers' = DecContainer(containers, m)
  PROVE  Counted' /\ ContainersLess
<1>1. PICK c : c = sent[m].container
  BY Zenon
<1>2. \A n \in DOMAIN sent \ DOMAIN sent' : n = m
  BY Zenon DEF Cut
<1>3. CASE c = m \/ c \notin DOMAIN containers
  <2>1. c \notin DOMAIN containers
    BY <1>3, OwnIdentifier, Zenon
  <2>2. containers' = containers
    BY <1>1, <1>3, Zenon DEF DecContainer
  <2>3. PICK S : S = {}
    BY Zenon
  <2>4. Cut(containers, containers', S)
    BY <2>2, <2>3, Zenon DEF Cut
  <2> QED BY <1>1, <1>2, <2>1, <2>3, <2>4, ContainersCut, Zenon
<1>4. CASE c # m /\ c \in DOMAIN containers /\ containers[c].refCnt = 1
  <2>1. containers' = Without(containers, {c})
    BY <1>1, <1>4, Zenon DEF DecContainer
  <2>2. PICK S : S = {c}
    BY Zenon
  <2>3. Cut(containers, containers', S)
    BY <2>1, <2>2, WithoutCuts, Zenon
  <2> QED BY <1>1, <1>2, <2>2, <2>3, ContainersCut, Zenon
<1>5. CASE c # m /\ c \in DOMAIN containers /\ containers[c].refCnt # 1
  <2>1. containers' = [containers EXCEPT ![c].refCnt = @ - 1]
    BY <1>1, <1>5, Zenon DEF DecContainer
  <2>2. /\ containers[c] \in ContainerRecords /\ containers[c].refCnt \in Nat
        /\ containers[c].ids \subseteq Messages
    BY <1>5, ContainerFields, Zenon DEF SessionInv, QueriesTypeOK
  <2>3. /\ \A n \in DOMAIN sent : sent[n].container = c <=> n \in containers[c].ids
        /\ containers[c].refCnt = Cardinality(containers[c].ids \cap DOMAIN sent)
        /\ containers[c].refCnt > 0
    BY <1>5, Zenon DEF SessionInv, Counted
  <2>4. PICK n \in Nat : n = containers[c].refCnt - 1 /\ n > 0
    BY <1>5, <2>2, <2>3, SMTT(60)
  <2>5. PICK o : o = WithCount(containers[c], n)
    BY Zenon
  <2>6. o \in ContainerRecords /\ o.ids = containers[c].ids /\ o.refCnt = n
    <3>1. WithCount(containers[c], n) \in ContainerRecords
      BY <2>2, CountedRecord, Zenon
    <3>2. WithCount(containers[c], n).ids = containers[c].ids
      BY <2>2, CountedRecord, Zenon
    <3>3. WithCount(containers[c], n).refCnt = n
      <4>1. \A r \in ContainerRecords, k \in Nat : WithCount(r, k).refCnt = k
        BY CountedRecord, ZenonT(60)
      <4> QED BY <2>2, <4>1, Zenon
    <3> QED BY <2>5, <3>1, <3>2, <3>3, Zenon
  <2>7. containers' = [containers EXCEPT ![c] = o]
    <3>1. o = [containers[c] EXCEPT !.refCnt = @ - 1]
      BY <2>4, <2>5, Zenon DEF WithCount
    <3> QED BY <2>1, <3>1, Zenon
  <2>8. /\ DOMAIN containers' = DOMAIN containers /\ containers'[c] = o
        /\ \A d \in DOMAIN containers : d # c => containers'[d] = containers[d]
    BY <1>5, <2>7, Zenon
  <2>9. ContainersLess
    BY <2>6, <2>8, Zenon DEF ContainersLess, SessionInv, QueriesTypeOK
  <2>10. ASSUME NEW d \in DOMAIN containers'
         PROVE  /\ \A k \in DOMAIN sent' : sent'[k].container = d <=> k \in containers'[d].ids
                /\ containers'[d].refCnt = Cardinality(containers'[d].ids \cap DOMAIN sent')
                /\ containers'[d].refCnt > 0
    <3>1. /\ \A k \in DOMAIN sent : sent[k].container = d <=> k \in containers[d].ids
          /\ containers[d].refCnt = Cardinality(containers[d].ids \cap DOMAIN sent)
          /\ containers[d].refCnt > 0 /\ containers'[d].ids = containers[d].ids
      BY <2>6, <2>8, Zenon DEF SessionInv, Counted
    <3>2. \A k \in DOMAIN sent' : sent'[k].container = d <=> k \in containers'[d].ids
      BY <3>1, Zenon DEF SentLess
    <3>3. CASE d # c
      <4>1. containers[d].ids \cap DOMAIN sent' = containers[d].ids \cap DOMAIN sent
        BY <1>1, <3>1, <3>3, Zenon DEF Cut
      <4> QED BY <2>8, <3>1, <3>2, <3>3, <4>1, Zenon
    <3>4. CASE d = c
      <4>1. PICK K : K = containers[c].ids \cap DOMAIN sent
        BY Zenon
      <4>2. K \subseteq Messages /\ m \in K
        BY <1>1, <2>2, <2>3, <4>1, Zenon
      <4>3. containers[c].ids \cap DOMAIN sent' = K \ {m}
        BY <4>1, Zenon DEF Cut
      <4>4. Cardinality(K \ {m}) = Cardinality(K) - 1
        BY <4>2, Zenon DEF CountingRules
      <4>5. Cardinality(K \ {m}) = n
        BY <2>3, <2>4, <4>1, <4>4, Zenon
      <4> QED BY <2>4, <2>6, <2>8, <3>2, <3>4, <4>3, <4>5, Zenon
    <3> QED BY <3>3, <3>4, Zenon
  <2> QED BY <2>9, <2>10, Zenon DEF Counted
<1> QED BY <1>3, <1>4, <1>5, Zenon

----------------------------------------------------------------------------
(* Where the queries are. *)

QueriesOf(ids) == {sent[m].query : m \in ids}

\* The messages ids leave sent_queries_: the queries back are to be sent again,
\* the others are returned with the result r.
Leaves(ids, back, r) ==
  /\ ids \subseteq DOMAIN sent /\ Cut(sent, sent', ids)
  /\ back \subseteq QueriesOf(ids) \cap Queries /\ pending' = pending \cup back
  /\ r \in Results \ {"none"}
  /\ returned' = [q \in All |-> IF q \in QueriesOf(ids) \ back THEN r ELSE returned[q]]
  /\ given' = given /\ scenario' = scenario
  /\ unknown' = unknown \ UnknownIn(ids)

LEMMA LeavingLess ==
  ASSUME SessionInv, NEW ids, Cut(sent, sent', ids)
  PROVE  SentLess /\ DOMAIN sent \ DOMAIN sent' \subseteq ids
  BY Zenon DEF SentLess, Cut, SessionInv, QueriesTypeOK

LEMMA TypesStay ==
  ASSUME SessionInv, Shrinks, pending' \subseteq Queries, given' \subseteq All,
         returned' \in [All -> Results], scenario' = scenario
  PROVE  QueriesTypeOK'
<1>1. Used \subseteq Used'
  BY UsedGrows, Zenon DEF SessionInv, QueriesTypeOK, Shrinks, WireLess
<1>2. /\ DOMAIN sent' \subseteq Used' /\ \A m \in DOMAIN sent' : sent'[m] \in SentRecords
      /\ DOMAIN containers' \subseteq Used' /\ \A c \in DOMAIN containers' : containers'[c] \in ContainerRecords
  BY <1>1, Zenon DEF SessionInv, QueriesTypeOK, Shrinks, SentLess, ContainersLess
<1>3. /\ DOMAIN toSend' \subseteq Used' /\ \A m \in DOMAIN toSend' : toSend'[m] \in All
      /\ asked' \subseteq Used' /\ nextId' \in 1..MaxMessageId + 1
  BY <1>1, Zenon DEF SessionInv, QueriesTypeOK, Shrinks, WireLess
<1>4. scenario' \in Scenarios
  BY Zenon DEF SessionInv, QueriesTypeOK
<1> QED BY <1>2, <1>3, <1>4, Zenon DEF QueriesTypeOK

LEMMA LeavingPlace ==
  ASSUME SessionInv, NEW ids, NEW back, NEW r, Leaves(ids, back, r)
  PROVE  /\ OnePlace' /\ UnknownAreSent'
         /\ pending' \subseteq Queries /\ given' \subseteq All /\ returned' \in [All -> Results]
<1>1. /\ ids \subseteq DOMAIN sent /\ DOMAIN sent' = DOMAIN sent \ ids
      /\ \A m \in DOMAIN sent' : sent'[m] = sent[m]
  BY Zenon DEF Leaves, Cut
<1>2. \A m, n \in DOMAIN sent : sent[m].query = sent[n].query => m = n
  BY Zenon DEF SessionInv, OnePlace
<1>3. ASSUME NEW q PROVE q \in SentQueries' <=> q \in SentQueries /\ q \notin QueriesOf(ids)
  <2>1. ASSUME q \in SentQueries' PROVE q \in SentQueries /\ q \notin QueriesOf(ids)
    <3>1. PICK m \in DOMAIN sent' : sent'[m].query = q
      BY <2>1, Zenon DEF SentQueries
    <3>2. m \in DOMAIN sent /\ m \notin ids /\ sent[m].query = q
      BY <1>1, <3>1, Zenon
    <3>3. ASSUME q \in QueriesOf(ids) PROVE FALSE
      <4>1. PICK n \in ids : sent[n].query = q
        BY <3>3, Zenon DEF QueriesOf
      <4> QED BY <1>1, <1>2, <3>2, <4>1, Zenon
    <3> QED BY <3>2, <3>3, Zenon DEF SentQueries
  <2>2. ASSUME q \in SentQueries, q \notin QueriesOf(ids) PROVE q \in SentQueries'
    <3>1. PICK m \in DOMAIN sent : sent[m].query = q
      BY <2>2, Zenon DEF SentQueries
    <3>2. m \in DOMAIN sent' /\ sent'[m].query = q
      BY <1>1, <2>2, <3>1, Zenon DEF QueriesOf
    <3> QED BY <3>2, Zenon DEF SentQueries
  <2> QED BY <2>1, <2>2, Zenon
<1>4. QueriesOf(ids) \subseteq SentQueries /\ \A q \in SentQueries : q \in All
  <2>1. \A m \in DOMAIN sent : sent[m].query \in All
    BY SentFields, Zenon DEF SessionInv, QueriesTypeOK
  <2> QED BY <1>1, <2>1, Zenon DEF SentQueries, QueriesOf
<1>5. /\ returned' \in [All -> Results]
      /\ \A q \in All : returned'[q] = IF q \in QueriesOf(ids) \ back THEN r ELSE returned[q]
  <2>1. returned \in [All -> Results] /\ r \in Results
    BY Zenon DEF SessionInv, QueriesTypeOK, Leaves
  <2>2. returned' = [q \in All |-> IF q \in QueriesOf(ids) \ back THEN r ELSE returned[q]]
    BY Zenon DEF Leaves
  <2> QED BY <2>1, <2>2, Zenon
<1>6. ASSUME NEW q \in All
      PROVE  /\ q \in pending' \/ q \in SentQueries' \/ returned'[q] # "none" <=> q \in given'
             /\ q \in pending' => q \notin SentQueries' /\ returned'[q] = "none"
             /\ q \in SentQueries' => returned'[q] = "none"
  <2>1. /\ q \in pending \/ q \in SentQueries \/ returned[q] # "none" <=> q \in given
        /\ q \in pending => q \notin SentQueries /\ returned[q] = "none"
        /\ q \in SentQueries => returned[q] = "none"
    BY Zenon DEF SessionInv, OnePlace
  <2>2. /\ q \in pending' <=> q \in pending \/ q \in back
        /\ q \in back => q \in QueriesOf(ids)
        /\ r # "none" /\ given' = given
    BY Zenon DEF Leaves
  <2> QED BY <1>3, <1>4, <1>5, <2>1, <2>2, Zenon
<1>7. OnePlace'
  <2>1. \A m, n \in DOMAIN sent' : sent'[m].query = sent'[n].query => m = n
    BY <1>1, <1>2, Zenon
  <2> QED BY <1>6, <2>1, Zenon DEF OnePlace
<1>8. UnknownAreSent'
  <2> SUFFICES ASSUME NEW m \in unknown' PROVE m \in DOMAIN sent' /\ sent'[m].unknown
    BY Zenon DEF UnknownAreSent
  <2>1. m \in unknown /\ m \notin UnknownIn(ids) /\ m \in DOMAIN sent /\ sent[m].unknown
    BY Zenon DEF Leaves, SessionInv, UnknownAreSent
  <2> QED BY <1>1, <2>1, Zenon DEF UnknownIn
<1>9. pending' \subseteq Queries /\ given' \subseteq All
  BY Zenon DEF Leaves, SessionInv, QueriesTypeOK
<1> QED BY <1>5, <1>7, <1>8, <1>9, Zenon

LEMMA LeavingKeeps ==
  ASSUME SessionInv, NEW ids, NEW back, NEW r, Leaves(ids, back, r),
         Counted', ContainersLess, WireLess, ServerStill,
         \A q \in back : serverResets = 0 => \A m \in Used : ~Live(m, q)
  PROVE  SessionInv'
<1>1. Shrinks
  BY LeavingLess, Zenon DEF Shrinks, Leaves
<1>2. PendingDead /\ given \subseteq given' /\ scenario' = scenario
  BY Zenon DEF PendingDead, Leaves
<1>3. QueriesTypeOK' /\ OnePlace' /\ UnknownAreSent'
  BY <1>1, <1>2, TypesStay, LeavingPlace, Zenon
<1>4. NetTypeOK' /\ WrittenOnce' /\ Unwritten'
  BY <1>1, ShrinkKeepsNet, Zenon
<1>5. ServerOK' /\ OneLive'
  BY <1>1, <1>2, ShrinkKeepsServer, Zenon
<1> QED BY <1>3, <1>4, <1>5, Zenon DEF SessionInv

\* The messages stay, perhaps with other flags.
LEMMA MarkingKeeps ==
  ASSUME SessionInv, SentLess, DOMAIN sent' = DOMAIN sent, UnknownAreSent',
         UNCHANGED <<pending, given, returned, scenario>>,
         Counted', ContainersLess, WireLess, ServerStill
  PROVE  SessionInv'
<1>1. Shrinks
  BY Zenon DEF Shrinks
<1>2. pending' \subseteq Queries /\ given' \subseteq All /\ returned' \in [All -> Results]
  BY Zenon DEF SessionInv, QueriesTypeOK
<1>3. QueriesTypeOK'
  BY <1>1, <1>2, TypesStay, Zenon
<1>4. OnePlace'
  <2>1. SentQueries' = SentQueries
    BY Zenon DEF SentQueries, SentLess
  <2>2. \A m, n \in DOMAIN sent' : sent'[m].query = sent'[n].query => m = n
    BY Zenon DEF SentLess, SessionInv, OnePlace
  <2> QED BY <2>1, <2>2, Zenon DEF SessionInv, OnePlace
<1>5. NetTypeOK' /\ WrittenOnce' /\ Unwritten'
  BY <1>1, ShrinkKeepsNet, Zenon
<1>6. ServerOK' /\ OneLive'
  <2>1. PendingDead /\ given \subseteq given'
    BY Zenon DEF PendingDead
  <2> QED BY <1>1, <2>1, ShrinkKeepsServer, Zenon
<1> QED BY <1>3, <1>4, <1>5, <1>6, Zenon DEF SessionInv

LEMMA StillKeeps ==
  ASSUME SessionInv, UNCHANGED sessionVars, UNCHANGED <<given, returned, scenario>>, WireLess, ServerStill
  PROVE  SessionInv'
<1>1. /\ sent' = sent /\ containers' = containers /\ unknown' = unknown /\ pending' = pending
  BY Zenon DEF sessionVars
<1>2. SentLess /\ ContainersLess
  BY <1>1, Zenon DEF SentLess, ContainersLess, SessionInv, QueriesTypeOK
<1>3. Counted' /\ UnknownAreSent'
  BY <1>1, Zenon DEF SessionInv, Counted, UnknownAreSent
<1> QED BY <1>1, <1>2, <1>3, MarkingKeeps, Zenon

\* on_closed: the messages without an ack become unknown.
LEMMA ClosedKeeps ==
  ASSUME SessionInv, NEW acked, \A m \in DOMAIN sent : acked[m] \in BOOLEAN, OnClosedMarkUnknown(acked),
         UNCHANGED <<given, scenario>>, WireLess, ServerStill
  PROVE  SessionInv'
<1>1. PICK ids : ids = {m \in DOMAIN sent : ~acked[m]}
  BY Zenon
<1>2. /\ containers' = Cleanup(containers, ids) /\ unknown' = unknown \union ids
      /\ sent' = [m \in DOMAIN sent |->
                   [sent[m] EXCEPT !.acked = acked[m], !.unknown = @ \/ m \in ids]]
      /\ UNCHANGED <<pending, returned>>
  BY <1>1, Zenon DEF OnClosedMarkUnknown
<1>3. ASSUME NEW m \in DOMAIN sent
      PROVE  /\ sent'[m] \in SentRecords /\ sent'[m].query = sent[m].query
             /\ sent'[m].container = sent[m].container /\ sent'[m].unknown = (sent[m].unknown \/ m \in ids)
  <2>1. sent[m] \in SentRecords /\ acked[m] \in Flags
    BY Zenon DEF SessionInv, QueriesTypeOK, Flags
  <2>2. PICK u \in Flags : u = (sent[m].unknown \/ m \in ids)
    BY Zenon DEF Flags
  <2>3. sent'[m] = WithFlags(sent[m], acked[m], u)
    BY <1>2, <2>2, Zenon DEF WithFlags
  <2>4. Marked(sent[m], sent'[m], u)
    BY <2>1, <2>3, MarkedRecord, Zenon
  <2> QED BY <2>2, <2>4, Zenon DEF Marked
<1>4. DOMAIN sent' = DOMAIN sent
  BY <1>2, Zenon
<1>5. SentLess
  BY <1>3, <1>4, Zenon DEF SentLess
<1>6. UnknownAreSent'
  BY <1>1, <1>2, <1>3, <1>4, ZenonT(60) DEF UnknownAreSent, SessionInv
<1>7. Counted' /\ ContainersLess
  BY <1>1, <1>2, <1>4, <1>5, CleanedUp, Zenon
<1> QED BY <1>2, <1>4, <1>5, <1>6, <1>7, MarkingKeeps, Zenon

----------------------------------------------------------------------------
(* Messages that leave sent_queries_. *)

LEMMA ServerSame ==
  ASSUME UNCHANGED serverVars
  PROVE  ServerStill
  BY Zenon DEF serverVars, ServerStill

LEMMA OneLeaves ==
  ASSUME NEW m \in DOMAIN sent, NEW r \in Results \ {"none"}, MarkKnown({m}, {}), Return({sent[m].query}, r),
         sent' = Without(sent, {m}), UNCHANGED <<given, scenario>>, NEW ids, NEW back, ids = {m}, back = {}
  PROVE  Leaves(ids, back, r) /\ Cut(sent, sent', {m})
<1>1. QueriesOf(ids) \ back = {sent[m].query} /\ Cut(sent, sent', {m})
  BY WithoutCuts, Zenon DEF QueriesOf
<1>2. unknown' = unknown \ UnknownIn(ids) /\ pending' = pending \cup back
  BY Zenon DEF MarkKnown
<1>3. returned' = [q \in All |-> IF q \in QueriesOf(ids) \ back THEN r ELSE returned[q]]
  BY <1>1, Zenon DEF Return
<1> QED BY <1>1, <1>2, <1>3, Zenon DEF Leaves

\* One message leaves, with dec_container or cleanup_container.
LEMMA OneLeavesKeeps ==
  ASSUME SessionInv, CountingRules, NEW m \in DOMAIN sent, NEW r \in Results \ {"none"},
         MarkKnown({m}, {}), Return({sent[m].query}, r),
         sent' = Without(sent, {m}), UNCHANGED <<given, scenario>>,
         containers' = DecContainer(containers, m) \/ containers' = Cleanup(containers, {m}),
         UNCHANGED connVars, UNCHANGED serverVars
  PROVE  SessionInv'
<1>1. PICK ids, back : ids = {m} /\ back = {}
  BY Zenon
<1>2. Leaves(ids, back, r) /\ Cut(sent, sent', {m})
  BY <1>1, OneLeaves, Zenon
<1>3. SentLess /\ DOMAIN sent \ DOMAIN sent' \subseteq ids
  BY <1>1, <1>2, LeavingLess, Zenon
<1>4. Counted' /\ ContainersLess
  <2>1. CASE containers' = DecContainer(containers, m)
    BY <1>2, <1>3, <2>1, ContainerDecreased, Zenon
  <2>2. CASE containers' = Cleanup(containers, {m})
    BY <1>1, <1>3, <2>2, CleanedUp, Zenon
  <2> QED BY <2>1, <2>2, Zenon
<1>5. WireLess
  BY WireSame, Zenon DEF connVars
<1>6. \A q \in back : serverResets = 0 => \A k \in Used : ~Live(k, q)
  BY <1>1, Zenon
<1> QED BY <1>1, <1>2, <1>4, <1>5, ServerSame, <1>6, LeavingKeeps, Zenon

LEMMA RawEventKeeps ==
  ASSUME SessionInv, CountingRules, NEW m, RawEvent(m)
  PROVE  SessionInv'
<1>1. m \in DOMAIN sent /\ "canceled" \in Results \ {"none"}
  BY Zenon DEF RawEvent, Results
<1>2. /\ MarkKnown({m}, {}) /\ Return({sent[m].query}, "canceled") /\ sent' = Without(sent, {m})
      /\ containers' = DecContainer(containers, m) /\ UNCHANGED <<given, connVars, serverVars, budget>>
  BY Zenon DEF RawEvent
<1> QED BY <1>1, <1>2, OneLeavesKeeps, Zenon DEF budget

LEMMA OnMessageInfoReadyKeeps ==
  ASSUME SessionInv, CountingRules, NEW m, OnMessageInfoReady(m)
  PROVE  SessionInv'
<1>1. m \in DOMAIN sent /\ "canceled" \in Results \ {"none"}
  BY Zenon DEF OnMessageInfoReady, Results
<1>2. /\ MarkKnown({m}, {}) /\ Return({sent[m].query}, "canceled") /\ sent' = Without(sent, {m})
      /\ containers' = DecContainer(containers, m) /\ UNCHANGED <<given, connVars, serverVars, budget>>
  BY Zenon DEF OnMessageInfoReady, KeepRest
<1> QED BY <1>1, <1>2, OneLeavesKeeps, Zenon DEF budget

LEMMA OnMessageResultKeeps ==
  ASSUME SessionInv, CountingRules, NEW m, OnMessageResultOk(m) \/ OnMessageResultError(m)
  PROVE  SessionInv'
<1>1. CASE OnMessageResultOk(m)
  <2>1. m \in DOMAIN sent /\ "ok" \in Results \ {"none"}
    BY <1>1, Zenon DEF OnMessageResultOk, Results
  <2>2. /\ MarkKnown({m}, {}) /\ Return({sent[m].query}, "ok") /\ sent' = Without(sent, {m})
        /\ containers' = Cleanup(containers, {m}) /\ UNCHANGED <<given, connVars, serverVars, budget>>
    BY <1>1, Zenon DEF OnMessageResultOk, KeepRest
  <2> QED BY <2>1, <2>2, OneLeavesKeeps, Zenon DEF budget
<1>2. CASE OnMessageResultError(m)
  <2>1. m \in DOMAIN sent /\ "error" \in Results \ {"none"}
    BY <1>2, Zenon DEF OnMessageResultError, Results
  <2>2. /\ MarkKnown({m}, {}) /\ Return({sent[m].query}, "error") /\ sent' = Without(sent, {m})
        /\ containers' = Cleanup(containers, {m}) /\ UNCHANGED <<given, connVars, serverVars>>
    BY <1>2, Zenon DEF OnMessageResultError, KeepRest
  <2>3. scenario' = scenario
    BY <1>2, Zenon DEF OnMessageResultError, Fault, budget
  <2> QED BY <2>1, <2>2, <2>3, OneLeavesKeeps, Zenon
<1> QED BY <1>1, <1>2, Zenon

LEMMA OnClosed500Keeps ==
  ASSUME SessionInv, OnClosed500
  PROVE  SessionInv'
<1>1. PICK ids, back : ids = {m \in DOMAIN sent : ~Acked[m]} /\ back = {}
  BY Zenon
<1>2. /\ containers' = Cleanup(containers, ids) /\ MarkKnown(ids, back)
      /\ Return(QueriesOf(ids), "error") /\ sent' = Without(sent, ids)
  BY <1>1, Zenon DEF OnClosed500, OnClosedReturn, QueriesOf
<1>3. DropConnection /\ UNCHANGED <<given, scenario, serverVars>>
  BY Zenon DEF OnClosed500, ConnectionLost, Fault
<1>4. Leaves(ids, back, "error")
  <2>1. Cut(sent, sent', ids) /\ ids \subseteq DOMAIN sent /\ "error" \in Results \ {"none"}
    BY <1>1, <1>2, WithoutCuts, Zenon DEF Results
  <2>2. returned' = [q \in All |-> IF q \in QueriesOf(ids) \ back THEN "error" ELSE returned[q]]
    BY <1>1, <1>2, Zenon DEF Return
  <2> QED BY <1>1, <1>2, <1>3, <2>1, <2>2, Zenon DEF Leaves, MarkKnown
<1>5. SentLess /\ DOMAIN sent \ DOMAIN sent' \subseteq ids
  BY <1>4, LeavingLess, Zenon DEF Leaves
<1>6. Counted' /\ ContainersLess
  BY <1>1, <1>2, <1>5, CleanedUp, Zenon
<1>7. WireLess /\ ServerStill
  BY <1>3, WireDropped, ServerSame, Zenon
<1>8. \A q \in back : serverResets = 0 => \A k \in Used : ~Live(k, q)
  BY <1>1, Zenon
<1> QED BY <1>1, <1>4, <1>6, <1>7, <1>8, LeavingKeeps, Zenon

\* A lost message is not executed, and no other carries its query.
LEMMA LostIsDead ==
  ASSUME SessionInv, serverResets = 0, NEW m \in DOMAIN sent, m \in lost, NEW n \in Used
  PROVE  ~Live(n, sent[m].query)
<1>1. PICK q \in All : q = sent[m].query
  BY SentFields, Zenon DEF SessionInv, QueriesTypeOK
<1>2. ASSUME Live(n, q) PROVE FALSE
  <2>1. n = m
    BY <1>1, <1>2, Zenon DEF SessionInv, OneLive
  <2>2. PICK x \in executed : x[1] = m
    BY <1>2, <2>1, Zenon DEF Live, Done
  <2>3. executed \subseteq received \X All \X {0} /\ received \cap lost = {}
    BY Zenon DEF SessionInv, KeptServer, ServerOK
  <2>4. x[1] \in received
    BY <2>2, <2>3, SMTT(60)
  <2> QED BY <2>2, <2>3, <2>4, Zenon
<1> QED BY <1>1, <1>2, Zenon

LEMMA ResendKeeps ==
  ASSUME SessionInv, NEW ids, ids \subseteq DOMAIN sent, Resend(ids), Counted', ContainersLess,
         UNCHANGED <<given, scenario, connVars>>, ServerStill,
         serverResets = 0 => ids \subseteq lost
  PROVE  SessionInv'
<1>1. PICK back : back = QueriesOf(ids) \ BindQueries
  BY Zenon
<1>2. QueriesOf(ids) \subseteq All
  <2>1. \A m \in DOMAIN sent : sent[m].query \in All
    BY SentFields, Zenon DEF SessionInv, QueriesTypeOK
  <2> QED BY <2>1, Zenon DEF QueriesOf
<1>3. back \subseteq Queries /\ QueriesOf(ids) \ back = QueriesOf(ids) \cap BindQueries
  BY <1>1, <1>2, Zenon DEF All
<1>4. MarkKnown(ids, back) /\ Return(QueriesOf(ids) \ back, "resend") /\ sent' = Without(sent, ids)
  BY <1>1, <1>3, Zenon DEF Resend, QueriesOf
<1>5. Leaves(ids, back, "resend")
  <2>1. Cut(sent, sent', ids) /\ "resend" \in Results \ {"none"}
    BY <1>4, WithoutCuts, Zenon DEF Results
  <2>2. returned' = [q \in All |-> IF q \in QueriesOf(ids) \ back THEN "resend" ELSE returned[q]]
    BY <1>4, Zenon DEF Return
  <2> QED BY <1>1, <1>3, <1>4, <2>1, <2>2, Zenon DEF Leaves, MarkKnown
<1>6. ASSUME NEW q \in back, serverResets = 0, NEW n \in Used PROVE ~Live(n, q)
  <2>1. PICK m \in ids : q = sent[m].query
    BY <1>1, Zenon DEF QueriesOf
  <2> QED BY <1>6, <2>1, LostIsDead, Zenon
<1>7. WireLess
  BY WireSame, Zenon DEF connVars
<1> QED BY <1>5, <1>6, <1>7, LeavingKeeps, Zenon

\* The messages that an identifier in an answer is about
Meant(id) ==
  (IF id \in DOMAIN containers THEN containers[id].ids ELSE {id}) \intersect DOMAIN sent

LEMMA MeantContainers ==
  ASSUME SessionInv, SentLess, NEW id, NEW ids, ids = Meant(id), DOMAIN sent \ DOMAIN sent' \subseteq ids,
         containers' = IF id \in DOMAIN containers THEN Without(containers, {id})
                       ELSE Cleanup(containers, ids)
  PROVE  Counted' /\ ContainersLess
<1>1. CASE id \in DOMAIN containers
  <2>1. ids \subseteq containers[id].ids
    BY <1>1, Zenon DEF Meant
  <2> QED BY <1>1, <2>1, ForgottenContainer, Zenon
<1>2. CASE id \notin DOMAIN containers
  BY <1>2, CleanedUp, Zenon DEF Meant
<1> QED BY <1>1, <1>2, Zenon

LEMMA ResendLess ==
  ASSUME SessionInv, NEW ids, ids \subseteq DOMAIN sent, Resend(ids)
  PROVE  SentLess /\ DOMAIN sent \ DOMAIN sent' \subseteq ids
<1>1. Cut(sent, sent', ids)
  BY WithoutCuts, Zenon DEF Resend
<1> QED BY <1>1, LeavingLess, Zenon

LEMMA OnMessageFailedKeeps ==
  ASSUME SessionInv, NEW id, OnMessageFailed(id)
  PROVE  SessionInv'
<1>1. PICK ids : ids = Meant(id)
  BY Zenon
<1>2. /\ id \in lost /\ Resend(ids) /\ UNCHANGED <<given, scenario, connVars, serverVars>>
      /\ containers' = IF id \in DOMAIN containers THEN Without(containers, {id})
                       ELSE Cleanup(containers, ids)
  BY <1>1, Zenon DEF OnMessageFailed, Meant, KeepRest, budget
<1>3. ids \subseteq DOMAIN sent
  BY <1>1, Zenon DEF Meant
<1>4. Counted' /\ ContainersLess
  BY <1>1, <1>2, <1>3, ResendLess, MeantContainers, Zenon
<1>5. serverResets = 0 => ids \subseteq lost
  BY <1>1, <1>2, Zenon DEF Meant, SessionInv, KeptServer, ServerOK
<1> QED BY <1>2, <1>3, <1>4, <1>5, ServerSame, ResendKeeps, Zenon

LEMMA OnNewSessionCreatedKeeps ==
  ASSUME SessionInv, OnNewSessionCreated
  PROVE  SessionInv'
<1>1. PICK first : first = IF firstId \in DOMAIN sent THEN sent[firstId].container ELSE firstId
  BY Zenon
<1>2. PICK ids : ids = {m \in DOMAIN sent : sent[m].container < first}
  BY Zenon
<1>3. /\ firstId # 0 /\ Resend(ids) /\ containers' = Cleanup(containers, ids)
      /\ UNCHANGED <<given, scenario, connVars, received, lost, executed, serverResets>>
  BY <1>1, <1>2, Zenon DEF OnNewSessionCreated, KeepRest, budget
<1>4. ids \subseteq DOMAIN sent /\ serverResets # 0
  BY <1>2, <1>3, Zenon DEF SessionInv, KeptServer, ServerOK
<1>5. Counted' /\ ContainersLess
  BY <1>3, <1>4, ResendLess, CleanedUp, Zenon
<1>6. ServerStill
  BY <1>3, <1>4, Zenon DEF ServerStill
<1> QED BY <1>3, <1>4, <1>5, <1>6, ResendKeeps, Zenon

LEMMA OnMessageAckKeeps ==
  ASSUME SessionInv, NEW id, OnMessageAck(id)
  PROVE  SessionInv'
<1>1. PICK ids : ids = Meant(id)
  BY Zenon
<1>2. /\ containers' = IF id \in DOMAIN containers THEN Without(containers, {id})
                       ELSE Cleanup(containers, ids)
      /\ sent' = [m \in DOMAIN sent |->
                   IF m \in ids THEN [sent[m] EXCEPT !.acked = TRUE, !.unknown = FALSE] ELSE sent[m]]
      /\ MarkKnown(ids, {}) /\ UNCHANGED <<given, returned, scenario, connVars, serverVars>>
  BY <1>1, Zenon DEF OnMessageAck, Meant, KeepRest, budget
<1>3. unknown' = unknown \ UnknownIn(ids) /\ pending' = pending
  BY <1>2, Zenon DEF MarkKnown
<1>4. DOMAIN sent' = DOMAIN sent
  BY <1>2, Zenon
<1>5. ASSUME NEW m \in DOMAIN sent
      PROVE  /\ sent'[m] \in SentRecords /\ sent'[m].query = sent[m].query
             /\ sent'[m].container = sent[m].container
             /\ m \notin ids => sent'[m] = sent[m]
  <2>1. sent[m] \in SentRecords
    BY Zenon DEF SessionInv, QueriesTypeOK
  <2>2. CASE m \notin ids
    BY <1>2, <2>1, <2>2, Zenon
  <2>3. CASE m \in ids
    <3>1. PICK a, u \in Flags : a = TRUE /\ u = FALSE
      BY Zenon DEF Flags
    <3>2. sent'[m] = WithFlags(sent[m], a, u)
      BY <1>2, <2>3, <3>1, Zenon DEF WithFlags
    <3>3. Marked(sent[m], sent'[m], u)
      BY <2>1, <3>2, MarkedRecord, Zenon
    <3> QED BY <2>3, <3>3, Zenon DEF Marked
  <2> QED BY <2>2, <2>3, Zenon
<1>6. SentLess
  BY <1>4, <1>5, Zenon DEF SentLess
<1>7. UnknownAreSent'
  <2> SUFFICES ASSUME NEW m \in unknown' PROVE m \in DOMAIN sent' /\ sent'[m].unknown
    BY Zenon DEF UnknownAreSent
  <2>1. m \in unknown /\ m \notin UnknownIn(ids) /\ m \in DOMAIN sent /\ sent[m].unknown
    BY <1>3, Zenon DEF SessionInv, UnknownAreSent
  <2>2. m \notin ids
    BY <2>1, Zenon DEF UnknownIn
  <2> QED BY <1>4, <1>5, <2>1, <2>2, Zenon
<1>8. Counted' /\ ContainersLess
  BY <1>1, <1>2, <1>4, <1>6, MeantContainers, Zenon
<1>9. WireLess /\ ServerStill
  BY <1>2, WireSame, ServerSame, Zenon DEF connVars
<1> QED BY <1>2, <1>3, <1>4, <1>6, <1>7, <1>8, <1>9, MarkingKeeps, Zenon

----------------------------------------------------------------------------
(* Steps that lose the connection or nothing. *)

LEMMA AckedIsBoolean ==
  ASSUME SessionInv
  PROVE  \A m \in DOMAIN sent : Acked[m] \in BOOLEAN
<1>1. \A m \in DOMAIN sent : sent[m].acked \in Flags
  BY SentFields, Zenon DEF SessionInv, QueriesTypeOK
<1> QED BY <1>1, Zenon DEF Acked, Flags

\* on_closed with whatever acks
LEMMA ConnectionClosedKeeps ==
  ASSUME SessionInv, OnClosedMarkUnknown(Acked), DropConnection, UNCHANGED <<given, scenario, serverVars>>
  PROVE  SessionInv'
<1>1. PICK acked : acked = Acked
  BY Zenon
<1>2. OnClosedMarkUnknown(acked) /\ \A m \in DOMAIN sent : acked[m] \in BOOLEAN
  BY <1>1, AckedIsBoolean, Zenon
<1> QED BY <1>2, WireDropped, ServerSame, ClosedKeeps, Zenon

LEMMA ConnectionKeptKeeps ==
  ASSUME SessionInv, UNCHANGED <<sent, unknown, containers, pending, returned, connVars>>,
         UNCHANGED <<given, scenario, serverVars>>
  PROVE  SessionInv'
<1>1. WireLess
  BY WireSame, Zenon DEF connVars
<1> QED BY <1>1, ServerSame, StillKeeps, Zenon DEF sessionVars

LEMMA ClosingKeeps ==
  ASSUME SessionInv,
         \/ OnNetwork \/ OnHandshakeReady \/ \E b \in BindQueries : OnBindResult(b)
         \/ FlushWithoutKey \/ OnClosed \/ OnClosed404
  PROVE  SessionInv'
<1>1. UNCHANGED <<given, scenario, serverVars>>
  BY Zenon DEF OnNetwork, OnHandshakeReady, OnBindResult, FlushWithoutKey, OnClosed, OnClosed404,
     ConnectionLost, Fault, budget
<1>2. \/ OnClosedMarkUnknown(Acked) /\ DropConnection
      \/ UNCHANGED <<sent, unknown, containers, pending, returned, connVars>>
  BY Zenon DEF OnNetwork, OnHandshakeReady, OnBindResult, FlushWithoutKey, OnClosed, OnClosed404,
     ConnectionLost
<1> QED BY <1>1, <1>2, ConnectionClosedKeeps, ConnectionKeptKeeps, Zenon

LEMMA OnPongTimeoutKeeps ==
  ASSUME SessionInv, NEW upTo, OnPongTimeout(upTo)
  PROVE  SessionInv'
<1>1. PICK acked : acked = [m \in DOMAIN sent |-> sent[m].acked /\ m > upTo]
  BY Zenon
<1>2. OnClosedMarkUnknown(acked) /\ DropConnection /\ UNCHANGED <<given, scenario, serverVars>>
  BY <1>1, Zenon DEF OnPongTimeout, ConnectionLost, budget
<1>3. \A m \in DOMAIN sent : acked[m] \in BOOLEAN
  BY <1>1, Zenon
<1> QED BY <1>2, <1>3, WireDropped, ServerSame, ClosedKeeps, Zenon

LEMMA OthersKeep ==
  ASSUME SessionInv,
         (\E q \in Queries : Cancel(q)) \/ Wakeup \/ OpenFinish \/ StartFlush \/ EndFlush
  PROVE  SessionInv'
<1>1. /\ UNCHANGED sessionVars /\ UNCHANGED <<given, returned, scenario, serverVars>>
      /\ UNCHANGED <<nextId, toSend, net>>
  BY Zenon DEF Cancel, Wakeup, OpenFinish, StartFlush, EndFlush, ownerVars, connVars, budget
<1>2. asked' = asked \/ asked' = unknown \/ asked' = {}
  BY Zenon DEF Cancel, Wakeup, OpenFinish, StartFlush, EndFlush, connVars
<1>3. unknown \subseteq DOMAIN sent
  BY Zenon DEF SessionInv, UnknownAreSent
<1>4. asked' \subseteq asked \cup DOMAIN sent
  BY <1>2, <1>3, Zenon
<1> QED BY <1>1, <1>4, WireSame, ServerSame, StillKeeps, Zenon

----------------------------------------------------------------------------
(* send() and close(). *)

LEMMA ShrinkingKeeps ==
  ASSUME SessionInv, Shrinks, ServerStill, PendingDead, given \subseteq given', given' \subseteq All,
         pending' \subseteq Queries, returned' \in [All -> Results], scenario' = scenario,
         OnePlace', UnknownAreSent', Counted'
  PROVE  SessionInv'
<1>1. QueriesTypeOK'
  BY TypesStay, Zenon
<1> QED BY <1>1, ShrinkKeepsNet, ShrinkKeepsServer, Zenon DEF SessionInv

\* The messages stay.
LEMMA SameMessages ==
  ASSUME SessionInv, UNCHANGED <<sent, unknown, containers, connVars>>
  PROVE  Shrinks /\ UnknownAreSent' /\ Counted' /\ SentQueries' = SentQueries
<1>1. WireLess
  BY WireSame, Zenon DEF connVars
<1>2. SentLess /\ ContainersLess
  BY Zenon DEF SentLess, ContainersLess, SessionInv, QueriesTypeOK
<1>3. Counted' /\ UnknownAreSent' /\ SentQueries' = SentQueries
  <2>1. sent' = sent /\ containers' = containers /\ unknown' = unknown
    BY Zenon
  <2>2. Counted'
    BY <2>1, Zenon DEF SessionInv, Counted
  <2> QED BY <2>1, <2>2, Zenon DEF SessionInv, UnknownAreSent, SentQueries
<1> QED BY <1>1, <1>2, <1>3, Zenon DEF Shrinks

LEMMA ScenarioQueries ==
  ASSUME SessionInv
  PROVE  scenario.queries \subseteq Queries /\ scenario.binds \subseteq BindQueries
<1>1. PICK s \in Scenarios : s = scenario
  BY Zenon DEF SessionInv, QueriesTypeOK
<1>2. s.queries \in SUBSET Queries /\ s.binds \in SUBSET BindQueries
  BY <1>1, ScenariosAssumption, SMTT(60)
<1> QED BY <1>1, <1>2, Zenon

LEMMA ReturnedOne ==
  ASSUME SessionInv, NEW S, NEW r \in Results, Return(S, r)
  PROVE  /\ returned' \in [All -> Results]
         /\ \A x \in All : returned'[x] = IF x \in S THEN r ELSE returned[x]
  BY Zenon DEF Return, SessionInv, QueriesTypeOK

\* No message has the query of one that was never given.
LEMMA NewIsNowhere ==
  ASSUME SessionInv, NEW q \in All, q \notin given
  PROVE  /\ q \notin pending /\ q \notin SentQueries /\ returned[q] = "none"
         /\ serverResets = 0 => \A m \in Used : ~Live(m, q)
  BY Zenon DEF SessionInv, OnePlace, OneLive

LEMMA SendKeeps ==
  ASSUME SessionInv, NEW q \in Queries, Send(q)
  PROVE  SessionInv'
<1>1. q \in All /\ q \notin given /\ given' = given \cup {q}
  BY Zenon DEF Send, All
<1>2. /\ UNCHANGED <<sent, unknown, containers, connVars, serverVars>>
      /\ scenario' = scenario
  BY Zenon DEF Send, budget
<1>3. Shrinks /\ UnknownAreSent' /\ Counted' /\ SentQueries' = SentQueries
  BY <1>2, SameMessages, Zenon
<1>4. given \subseteq given' /\ given' \subseteq All
  BY <1>1, Zenon DEF SessionInv, QueriesTypeOK
<1>5. CASE q \in canceled
  <2>1. pending' = pending /\ Return({q}, "canceled") /\ "canceled" \in Results
    BY <1>5, Zenon DEF Send, Results
  <2>2. /\ returned' \in [All -> Results]
        /\ \A x \in All : returned'[x] = IF x = q THEN "canceled" ELSE returned[x]
    BY <2>1, ReturnedOne, ZenonT(60)
  <2>3. OnePlace'
    BY <1>1, <1>2, <1>3, <2>1, <2>2, NewIsNowhere, Zenon DEF SessionInv, OnePlace
  <2>4. PendingDead /\ pending' \subseteq Queries
    BY <2>1, Zenon DEF PendingDead, SessionInv, QueriesTypeOK
  <2> QED BY <1>2, <1>3, <1>4, <2>2, <2>3, <2>4, ServerSame, ShrinkingKeeps, Zenon
<1>6. CASE q \notin canceled
  <2>1. pending' = pending \cup {q} /\ returned' = returned
    BY <1>6, Zenon DEF Send
  <2>2. OnePlace'
    BY <1>1, <1>2, <1>3, <2>1, NewIsNowhere, Zenon DEF SessionInv, OnePlace
  <2>3. PendingDead
    BY <1>1, <2>1, NewIsNowhere, Zenon DEF PendingDead
  <2>4. pending' \subseteq Queries /\ returned' \in [All -> Results]
    BY <2>1, Zenon DEF SessionInv, QueriesTypeOK
  <2> QED BY <1>2, <1>3, <1>4, <2>2, <2>3, <2>4, ServerSame, ShrinkingKeeps, Zenon
<1> QED BY <1>5, <1>6, Zenon

LEMMA CloseKeeps ==
  ASSUME SessionInv, Close
  PROVE  SessionInv'
<1>1. /\ Return(pending \union SentQueries, "resend") /\ pending' = {} /\ sent' = <<>> /\ containers' = <<>>
      /\ unknown' = {} /\ DropConnection /\ UNCHANGED <<given, serverVars>> /\ scenario' = scenario
  BY Zenon DEF Close, budget
<1>2. DOMAIN sent' = {} /\ DOMAIN containers' = {}
  BY <1>1, EmptyFunction, Zenon
<1>3. Shrinks /\ Counted' /\ UnknownAreSent'
  BY <1>1, <1>2, WireDropped, Zenon DEF Shrinks, SentLess, ContainersLess, Counted, UnknownAreSent
<1>4. /\ returned' \in [All -> Results]
      /\ \A x \in All : returned'[x] = IF x \in pending \union SentQueries THEN "resend" ELSE returned[x]
  <2>1. "resend" \in Results
    BY Zenon DEF Results
  <2> QED BY <1>1, <2>1, ReturnedOne, Zenon
<1>5. SentQueries' = {}
  BY <1>2, Zenon DEF SentQueries
<1>6. OnePlace'
  <2>1. ASSUME NEW q \in All
        PROVE  /\ q \in pending' \/ q \in SentQueries' \/ returned'[q] # "none" <=> q \in given'
               /\ q \in pending' => q \notin SentQueries' /\ returned'[q] = "none"
               /\ q \in SentQueries' => returned'[q] = "none"
    BY <1>1, <1>4, <1>5, Zenon DEF SessionInv, OnePlace
  <2> QED BY <1>2, <2>1, Zenon DEF OnePlace
<1>7. PendingDead /\ pending' \subseteq Queries /\ given \subseteq given' /\ given' \subseteq All
  BY <1>1, Zenon DEF PendingDead, SessionInv, QueriesTypeOK
<1> QED BY <1>1, <1>3, <1>4, <1>6, <1>7, ServerSame, ShrinkingKeeps, Zenon

----------------------------------------------------------------------------
(* A new message. *)

LEMMA NextRange ==
  ASSUME NEW i \in 1..MaxMessageId + 1, i <= MaxMessageId, NEW j, j = i + 1
  PROVE  /\ j \in 1..MaxMessageId + 1 /\ i <= j /\ i \in 1..j - 1 /\ i \notin 1..i - 1
         /\ \A x \in 1..j - 1 : x \in 1..i - 1 \/ x = i
         /\ \A x \in 1..i - 1 : x \in 1..j - 1
  BY BoundsAssumption, SMTT(60)

\* nextId is taken.
Takes == nextId <= MaxMessageId /\ nextId' = nextId + 1

LEMMA NextUsed ==
  ASSUME SessionInv, Takes
  PROVE  /\ nextId' \in 1..MaxMessageId + 1 /\ nextId <= nextId'
         /\ nextId \notin Used /\ nextId \in Used' /\ Used \subseteq Used'
         /\ \A x \in Used' : x \in Used \/ x = nextId
<1>1. nextId \in 1..MaxMessageId + 1
  BY Zenon DEF SessionInv, QueriesTypeOK
<1> QED BY <1>1, NextRange, Zenon DEF Takes, Used

\* The query x is sent under a new message.
Sends(x) ==
  /\ Takes /\ sent' = With(sent, nextId, NewSent(x)) /\ toSend' = With(toSend, nextId, x)
  /\ pending' = pending \ {x} /\ given' = given \cup {x}
  /\ UNCHANGED <<returned, unknown, containers, asked, net, serverVars, scenario>>

LEMMA NewRecord ==
  ASSUME SessionInv, NEW x \in All, NEW n, n = nextId
  PROVE  /\ NewSent(x) \in SentRecords /\ NewSent(x).query = x /\ NewSent(x).container = n
         /\ NewSent(x).unknown = FALSE
<1>1. nextId \in Nat
  BY BoundsAssumption, SMTT(60) DEF SessionInv, QueriesTypeOK
<1>2. FALSE \in Flags
  BY Zenon DEF Flags
<1>3. PICK i \in Nat, f \in Flags : i = nextId /\ f = FALSE
  BY <1>1, <1>2, Zenon
<1>4. PICK r : r = [query |-> x, container |-> i, acked |-> f, unknown |-> f]
  BY Zenon
<1>5. r \in SentRecords /\ r.query = x /\ r.container = i /\ r.unknown = f
  BY <1>4, SMTT(60) DEF SentRecords
<1>6. NewSent(x) = r
  BY <1>3, <1>4, Zenon DEF NewSent
<1> QED BY <1>3, <1>5, <1>6, Zenon

LEMMA SendsMessage ==
  ASSUME SessionInv, NEW x \in All, Sends(x), NEW n, n = nextId
  PROVE  /\ DOMAIN sent' = DOMAIN sent \cup {n} /\ DOMAIN toSend' = DOMAIN toSend \cup {n}
         /\ n \notin Used /\ n \in Used' /\ Used \subseteq Used' /\ \A m \in Used' : m \in Used \/ m = n
         /\ DOMAIN sent \subseteq Used /\ DOMAIN toSend \subseteq Used /\ DOMAIN containers \subseteq Used
         /\ sent'[n] \in SentRecords /\ sent'[n].query = x /\ sent'[n].container = n
         /\ toSend'[n] = x /\ toSend'[n] \in All
         /\ \A m \in DOMAIN sent : sent'[m] = sent[m] /\ sent[m] \in SentRecords /\ m # n
         /\ \A m \in DOMAIN toSend : toSend'[m] = toSend[m] /\ toSend[m] \in All /\ m # n
<1>1. /\ n \notin Used /\ n \in Used' /\ Used \subseteq Used' /\ \A m \in Used' : m \in Used \/ m = n
  BY NextUsed, Zenon DEF Sends
<1>2. /\ DOMAIN sent \subseteq Used /\ DOMAIN toSend \subseteq Used /\ DOMAIN containers \subseteq Used
      /\ \A m \in DOMAIN sent : sent[m] \in SentRecords
      /\ \A m \in DOMAIN toSend : toSend[m] \in All
  BY Zenon DEF SessionInv, QueriesTypeOK
<1>3. Put(sent, sent', n, NewSent(x)) /\ Put(toSend, toSend', n, x)
  BY WithPuts, Zenon DEF Sends
<1>4. NewSent(x) \in SentRecords /\ NewSent(x).query = x /\ NewSent(x).container = n
  BY NewRecord, Zenon
<1>5. /\ DOMAIN sent' = DOMAIN sent \cup {n} /\ sent'[n] = NewSent(x)
      /\ \A m \in DOMAIN sent : sent'[m] = sent[m] /\ m # n
  BY <1>1, <1>2, <1>3, Zenon DEF Put
<1>6. /\ DOMAIN toSend' = DOMAIN toSend \cup {n} /\ toSend'[n] = x
      /\ \A m \in DOMAIN toSend : toSend'[m] = toSend[m] /\ m # n
  BY <1>1, <1>2, <1>3, Zenon DEF Put
<1> QED BY <1>1, <1>2, <1>4, <1>5, <1>6, Zenon

LEMMA SendsKeepsPlaces ==
  ASSUME SessionInv, NEW x \in All, Sends(x), x \notin SentQueries, returned[x] = "none"
  PROVE  QueriesTypeOK' /\ OnePlace' /\ UnknownAreSent'
<1>1. PICK n : n = nextId
  BY Zenon
<1>2. /\ DOMAIN sent' = DOMAIN sent \cup {n} /\ DOMAIN toSend' = DOMAIN toSend \cup {n}
      /\ n \in Used' /\ Used \subseteq Used'
      /\ DOMAIN sent \subseteq Used /\ DOMAIN toSend \subseteq Used /\ DOMAIN containers \subseteq Used
      /\ sent'[n] \in SentRecords /\ sent'[n].query = x
      /\ toSend'[n] = x /\ toSend'[n] \in All
      /\ \A m \in DOMAIN sent : sent'[m] = sent[m] /\ sent[m] \in SentRecords /\ m # n
      /\ \A m \in DOMAIN toSend : toSend'[m] = toSend[m] /\ toSend[m] \in All /\ m # n
  BY <1>1, SendsMessage, Zenon
<1>3. /\ pending' = pending \ {x} /\ given' = given \cup {x}
      /\ UNCHANGED <<returned, unknown, containers, asked, scenario>>
  BY Zenon DEF Sends
<1>4. QueriesTypeOK'
  <2>1. nextId' \in 1..MaxMessageId + 1
    BY NextUsed, Zenon DEF Sends
  <2>2. /\ DOMAIN sent' \subseteq Used' /\ \A m \in DOMAIN sent' : sent'[m] \in SentRecords
        /\ DOMAIN toSend' \subseteq Used' /\ \A m \in DOMAIN toSend' : toSend'[m] \in All
    BY <1>2, Zenon
  <2>3. /\ DOMAIN containers' \subseteq Used' /\ asked' \subseteq Used'
        /\ \A c \in DOMAIN containers' : containers'[c] \in ContainerRecords
    BY <1>2, <1>3, Zenon DEF SessionInv, QueriesTypeOK
  <2>4. pending' \subseteq Queries /\ given' \subseteq All /\ returned' \in [All -> Results] /\ scenario' \in Scenarios
    BY <1>3, Zenon DEF SessionInv, QueriesTypeOK
  <2> QED BY <2>1, <2>2, <2>3, <2>4, Zenon DEF QueriesTypeOK
<1>5. ASSUME NEW q PROVE q \in SentQueries' <=> q \in SentQueries \/ q = x
  <2>1. ASSUME q \in SentQueries' PROVE q \in SentQueries \/ q = x
    <3>1. PICK m \in DOMAIN sent' : sent'[m].query = q
      BY <2>1, Zenon DEF SentQueries
    <3> QED BY <1>2, <3>1, Zenon DEF SentQueries
  <2>2. ASSUME q \in SentQueries PROVE q \in SentQueries'
    <3>1. PICK m \in DOMAIN sent : sent[m].query = q
      BY <2>2, Zenon DEF SentQueries
    <3>2. m \in DOMAIN sent' /\ sent'[m].query = q
      BY <1>2, <3>1, Zenon
    <3> QED BY <3>2, Zenon DEF SentQueries
  <2>3. x \in SentQueries'
    BY <1>2, Zenon DEF SentQueries
  <2> QED BY <2>1, <2>2, <2>3, Zenon
<1>6. \A m, k \in DOMAIN sent' : sent'[m].query = sent'[k].query => m = k
  <2>1. \A m \in DOMAIN sent : sent[m].query # x
    BY Zenon DEF SentQueries
  <2>2. \A m, k \in DOMAIN sent : sent[m].query = sent[k].query => m = k
    BY Zenon DEF SessionInv, OnePlace
  <2> QED BY <1>2, <2>1, <2>2, ZenonT(60)
<1>7. OnePlace'
  <2>1. ASSUME NEW q \in All
        PROVE  /\ q \in pending' \/ q \in SentQueries' \/ returned'[q] # "none" <=> q \in given'
               /\ q \in pending' => q \notin SentQueries' /\ returned'[q] = "none"
               /\ q \in SentQueries' => returned'[q] = "none"
    BY <1>3, <1>5, Zenon DEF SessionInv, OnePlace
  <2> QED BY <1>6, <2>1, Zenon DEF OnePlace
<1>8. UnknownAreSent'
  BY <1>2, <1>3, Zenon DEF SessionInv, UnknownAreSent
<1> QED BY <1>4, <1>7, <1>8, Zenon

LEMMA PacketsUsed ==
  ASSUME SessionInv, NEW p \in net
  PROVE  /\ PacketOf(p) /\ BodyOK(p) /\ p.id \in Used /\ DOMAIN p.body \subseteq Used /\ DOMAIN p.body # {}
         /\ \A m \in DOMAIN p.body : p.body[m] \in All
  BY Zenon DEF SessionInv, NetTypeOK, BodyOK

LEMMA SendsKeepsNet ==
  ASSUME SessionInv, NEW x \in All, Sends(x)
  PROVE  NetTypeOK' /\ WrittenOnce' /\ Counted' /\ Unwritten'
<1>1. PICK n : n = nextId
  BY Zenon
<1>2. /\ DOMAIN sent' = DOMAIN sent \cup {n} /\ DOMAIN toSend' = DOMAIN toSend \cup {n}
      /\ n \notin Used /\ n \in Used' /\ Used \subseteq Used' /\ \A m \in Used' : m \in Used \/ m = n
      /\ DOMAIN sent \subseteq Used /\ DOMAIN containers \subseteq Used
      /\ sent'[n].container = n
      /\ \A m \in DOMAIN sent : sent'[m] = sent[m] /\ m # n
  BY <1>1, SendsMessage, Zenon
<1>3. UNCHANGED <<containers, asked, net>>
  BY Zenon DEF Sends
<1>4. NetTypeOK'
  BY <1>2, <1>3, Zenon DEF SessionInv, NetTypeOK, BodyOK, PacketOf
<1>5. \A m : IsMessage(m)' => IsMessage(m) \/ m = n
  BY <1>2, <1>3, Zenon DEF IsMessage
<1>6. \A m : IsContainer(m)' => IsContainer(m)
  BY <1>3, Zenon DEF IsContainer, InContainer
<1>7. ~IsContainer(n)
  BY <1>2, PacketsUsed, Zenon DEF IsContainer
<1>8. \A m \in Used' : ~(IsMessage(m)' /\ IsContainer(m)')
  <2> SUFFICES ASSUME NEW m \in Used', IsMessage(m)', IsContainer(m)' PROVE FALSE
    BY Zenon
  <2>1. IsContainer(m) /\ m # n
    BY <1>6, <1>7, Zenon
  <2>2. IsMessage(m) /\ m \in Used
    BY <1>2, <1>5, <2>1, Zenon
  <2> QED BY <2>1, <2>2, Zenon DEF SessionInv, WrittenOnce
<1>9. \A p \in net : DOMAIN p.body \cap DOMAIN toSend' = {}
  <2> TAKE p \in net
  <2>1. DOMAIN p.body \cap DOMAIN toSend = {}
    BY Zenon DEF SessionInv, WrittenOnce
  <2> QED BY <1>2, <2>1, PacketsUsed, ZenonT(60)
<1>10. WrittenOnce'
  <2>1. /\ \A p, r \in net : p.id = r.id \/ DOMAIN p.body \cap DOMAIN r.body # {} => p = r
        /\ \A p \in net : p.id \in DOMAIN containers => containers[p.id].ids \subseteq DOMAIN p.body
        /\ \A c \in DOMAIN containers : containers[c].ids \subseteq Used'
    BY <1>2, Zenon DEF SessionInv, WrittenOnce
  <2>2. \A m \in DOMAIN sent' : sent'[m].container \in Used'
    BY <1>2, Zenon DEF SessionInv, WrittenOnce
  <2> QED BY <1>3, <1>8, <1>9, <2>1, <2>2, Zenon DEF WrittenOnce
<1>11. Unwritten'
  BY <1>2, Zenon DEF SessionInv, Unwritten
<1>12. ASSUME NEW c \in DOMAIN containers
       PROVE  /\ \A m \in DOMAIN sent' : sent'[m].container = c <=> m \in containers[c].ids
              /\ containers[c].refCnt = Cardinality(containers[c].ids \cap DOMAIN sent')
              /\ containers[c].refCnt > 0
  <2>1. /\ \A m \in DOMAIN sent : sent[m].container = c <=> m \in containers[c].ids
        /\ containers[c].refCnt = Cardinality(containers[c].ids \cap DOMAIN sent)
        /\ containers[c].refCnt > 0
    BY Zenon DEF SessionInv, Counted
  <2>2. n # c
    BY <1>2, Zenon
  <2>3. n \notin containers[c].ids
    BY <1>2, Zenon DEF SessionInv, WrittenOnce
  <2>4. containers[c].ids \cap DOMAIN sent' = containers[c].ids \cap DOMAIN sent
    BY <1>2, <2>3, Zenon
  <2> QED BY <1>2, <2>1, <2>2, <2>3, <2>4, Zenon
<1>13. Counted'
  BY <1>3, <1>12, Zenon DEF Counted
<1> QED BY <1>4, <1>10, <1>11, <1>13, Zenon

\* A live message is one that was used.
LEMMA LiveUsed ==
  ASSUME SessionInv, serverResets = 0, NEW m, NEW q, Live(m, q)
  PROVE  m \in Used
<1>1. Waits(m, q) => m \in Used
  BY Zenon DEF Waits, SessionInv, QueriesTypeOK, NetTypeOK, BodyOK
<1>2. Done(m, q) => m \in Used
  <2> SUFFICES ASSUME NEW x \in executed, x[1] = m PROVE m \in Used
    BY Zenon DEF Done
  <2>1. x \in received \X All \X {0} /\ received \subseteq Used
    BY Zenon DEF SessionInv, KeptServer, ServerOK
  <2> QED BY <2>1, SMTT(60)
<1> QED BY <1>1, <1>2, Zenon DEF Live

LEMMA SendsKeepsServer ==
  ASSUME SessionInv, NEW x \in All, Sends(x), x \notin SentQueries,
         serverResets = 0 => \A m \in Used : ~Live(m, x)
  PROVE  ServerOK' /\ OneLive'
<1>0. serverResets' = serverResets /\ serverResets' \in Nat
  BY Zenon DEF Sends, serverVars, SessionInv, ServerOK
<1> SUFFICES ASSUME serverResets = 0 PROVE ServerOK' /\ OneLive'
  BY <1>0, Zenon DEF ServerOK, OneLive
<1>1. PICK n : n = nextId
  BY Zenon
<1>2. /\ DOMAIN sent' = DOMAIN sent \cup {n} /\ DOMAIN toSend' = DOMAIN toSend \cup {n}
      /\ n \notin Used /\ Used \subseteq Used' /\ \A m \in Used' : m \in Used \/ m = n
      /\ sent'[n].query = x /\ toSend'[n] = x
      /\ \A m \in DOMAIN sent : sent'[m] = sent[m] /\ m # n
      /\ \A m \in DOMAIN toSend : toSend'[m] = toSend[m] /\ m # n
  BY <1>1, SendsMessage, Zenon
<1>3. /\ UNCHANGED <<containers, net, received, lost, executed, freshServer, firstId>>
      /\ pending' = pending \ {x} /\ given' = given \cup {x}
  BY Zenon DEF Sends, serverVars
<1>4. KeptServer
  BY Zenon DEF SessionInv, ServerOK
<1>5. KeptServer'
  <2>1. ASSUME NEW c \in DOMAIN containers, c \in lost
        PROVE  containers[c].ids \cap DOMAIN sent' \subseteq lost
    <3>1. containers[c].ids \subseteq Used
      BY Zenon DEF SessionInv, WrittenOnce
    <3>2. containers[c].ids \cap DOMAIN sent \subseteq lost
      BY <1>4, <2>1, Zenon DEF KeptServer
    <3> QED BY <1>2, <3>1, <3>2, Zenon
  <2>2. received \subseteq Used' /\ lost \subseteq Used'
    BY <1>2, <1>4, Zenon DEF KeptServer
  <2> QED BY <1>3, <1>4, <2>1, <2>2, Zenon DEF KeptServer, InContainer
<1>6. ASSUME NEW m, NEW q, Live(m, q)' PROVE (m = n /\ q = x) \/ (Live(m, q) /\ m \in Used)
  <2>1. Waits(m, q)' => (m = n /\ q = x) \/ Waits(m, q)
    BY <1>2, <1>3, Zenon DEF Waits
  <2>2. (m = n /\ q = x) \/ Live(m, q)
    BY <1>3, <1>6, <2>1, Zenon DEF Live, Done
  <2> QED BY <2>2, LiveUsed, Zenon
<1>7. OneLive'
  <2> SUFFICES ASSUME NEW q \in All
               PROVE  /\ \A m, k \in Used' : Live(m, q)' /\ Live(k, q)' => m = k
                      /\ \A m \in Used' : Live(m, q)' => q \in given' /\ q \notin pending'
                      /\ \A m \in Used', k \in DOMAIN sent' : Live(m, q)' /\ sent'[k].query = q => m = k
    BY Zenon DEF OneLive
  <2>1. /\ \A m, k \in Used : Live(m, q) /\ Live(k, q) => m = k
        /\ \A m \in Used : Live(m, q) => q \in given /\ q \notin pending
        /\ \A m \in Used, k \in DOMAIN sent : Live(m, q) /\ sent[k].query = q => m = k
    BY Zenon DEF SessionInv, OneLive
  <2>2. CASE q = x
    <3>1. \A m : Live(m, q)' => m = n
      BY <1>6, <2>2, Zenon
    <3>2. \A k \in DOMAIN sent' : sent'[k].query = x => k = n \/ x \in SentQueries
      BY <1>2, Zenon DEF SentQueries
    <3>3. q \in given' /\ q \notin pending'
      BY <1>3, <2>2, Zenon
    <3> QED BY <2>2, <3>1, <3>2, <3>3, Zenon
  <2>3. CASE q # x
    <3>1. \A m : Live(m, q)' => Live(m, q) /\ m \in Used
      BY <1>6, <2>3, Zenon
    <3>2. \A k \in DOMAIN sent' : sent'[k].query = q => k \in DOMAIN sent /\ sent[k].query = q
      BY <1>2, <2>3, Zenon
    <3> QED BY <1>3, <2>1, <3>1, <3>2, Zenon
  <2> QED BY <2>2, <2>3, Zenon
<1> QED BY <1>0, <1>5, <1>7, Zenon DEF ServerOK

LEMMA SendsKeeps ==
  ASSUME SessionInv, NEW x \in All, Sends(x), x \notin SentQueries, returned[x] = "none",
         serverResets = 0 => \A m \in Used : ~Live(m, x)
  PROVE  SessionInv'
  BY SendsKeepsPlaces, SendsKeepsNet, SendsKeepsServer, Zenon DEF SessionInv

LEMMA SendBindKeyKeeps ==
  ASSUME SessionInv, NEW b \in BindQueries, SendBindKey(b)
  PROVE  SessionInv'
<1>1. b \in All /\ b \notin given /\ b \notin pending
  BY NewIsNowhere, Zenon DEF SendBindKey, All
<1>2. pending' = pending \ {b}
  BY <1>1, Zenon DEF SendBindKey
<1>3. Sends(b)
  BY <1>2, Zenon DEF Sends, Takes, SendBindKey, CanSendBind, budget
<1> QED BY <1>1, <1>3, NewIsNowhere, SendsKeeps, Zenon

LEMMA SendQueryKeeps ==
  ASSUME SessionInv, NEW q \in Queries, SendQuery(q)
  PROVE  SessionInv'
<1>1. q \in All /\ q \in pending /\ pending' = pending \ {q}
  BY Zenon DEF SendQuery, All
<1>2. q \in given /\ q \notin SentQueries /\ returned[q] = "none"
  BY <1>1, Zenon DEF SessionInv, OnePlace
<1>3. serverResets = 0 => \A m \in Used : ~Live(m, q)
  BY <1>1, Zenon DEF SessionInv, OneLive
<1>4. CASE /\ sent' = With(sent, nextId, NewSent(q)) /\ toSend' = With(toSend, nextId, q)
           /\ nextId' = nextId + 1 /\ UNCHANGED returned
  <2>1. given' = given \cup {q}
    BY <1>2, Zenon DEF SendQuery
  <2>2. Sends(q)
    BY <1>1, <1>4, <2>1, Zenon DEF Sends, Takes, SendQuery, CanSendQuery, budget
  <2> QED BY <1>1, <1>2, <1>3, <2>2, SendsKeeps, Zenon
<1>5. CASE Return({q}, "canceled") /\ UNCHANGED <<sent, nextId, toSend>>
  <2>1. UNCHANGED <<sent, unknown, containers, connVars, serverVars>> /\ scenario' = scenario /\ given' = given
    BY <1>5, Zenon DEF SendQuery, connVars, budget
  <2>2. Shrinks /\ UnknownAreSent' /\ Counted' /\ SentQueries' = SentQueries
    BY <2>1, SameMessages, Zenon
  <2>3. "canceled" \in Results
    BY Zenon DEF Results
  <2>4. /\ returned' \in [All -> Results]
        /\ \A x \in All : returned'[x] = IF x = q THEN "canceled" ELSE returned[x]
    BY <1>5, <2>3, ReturnedOne, ZenonT(60)
  <2>5. OnePlace'
    <3>1. ASSUME NEW x \in All
          PROVE  /\ x \in pending' \/ x \in SentQueries' \/ returned'[x] # "none" <=> x \in given'
                 /\ x \in pending' => x \notin SentQueries' /\ returned'[x] = "none"
                 /\ x \in SentQueries' => returned'[x] = "none"
      BY <1>1, <1>2, <2>1, <2>2, <2>4, Zenon DEF SessionInv, OnePlace
    <3> QED BY <2>1, <3>1, Zenon DEF SessionInv, OnePlace
  <2>6. PendingDead /\ pending' \subseteq Queries /\ given \subseteq given' /\ given' \subseteq All
    BY <1>1, <2>1, Zenon DEF PendingDead, SessionInv, QueriesTypeOK
  <2> QED BY <2>1, <2>2, <2>4, <2>5, <2>6, ServerSame, ShrinkingKeeps, Zenon
<1> QED BY <1>4, <1>5, Zenon DEF SendQuery

----------------------------------------------------------------------------
(* A packet is written. *)

\* The packet p takes the messages of ids; it is a container if its identifier
\* is new.
Written(p, ids) ==
  /\ ids \subseteq DOMAIN toSend /\ ids # {} /\ Cut(toSend, toSend', ids)
  /\ PacketOf(p) /\ DOMAIN p.body = ids /\ \A m \in ids : p.body[m] = toSend[m]
  /\ net' = net \cup {p}
  /\ nextId' \in 1..MaxMessageId + 1 /\ Used \subseteq Used'
  /\ p.id \in Used' /\ (ids = {p.id} \/ p.id \notin Used)
  /\ UNCHANGED <<pending, unknown, asked, given, returned, serverVars, scenario>>
WrittenSent(p, ids) ==
  /\ DOMAIN sent' = DOMAIN sent
  /\ \A m \in DOMAIN sent :
       /\ sent'[m] \in SentRecords /\ sent'[m].query = sent[m].query /\ sent'[m].unknown = sent[m].unknown
       /\ m \in ids /\ p.id \notin Used => sent'[m].container = p.id
       /\ m \notin ids \/ p.id \in Used => sent'[m].container = sent[m].container
NewContainer(c, ids) ==
  /\ containers'[c] \in ContainerRecords /\ containers'[c].ids = ids \cap DOMAIN sent
  /\ containers'[c].refCnt = Cardinality(ids \cap DOMAIN sent) /\ ids \cap DOMAIN sent # {}
WrittenContainer(p, ids) ==
  \A c \in DOMAIN containers' :
    \/ c \in DOMAIN containers /\ containers'[c] = containers[c]
    \/ c = p.id /\ c \notin Used /\ NewContainer(c, ids)

LEMMA WrittenKeepsPlaces ==
  ASSUME SessionInv, NEW p, NEW ids, Written(p, ids), WrittenSent(p, ids), WrittenContainer(p, ids)
  PROVE  QueriesTypeOK' /\ OnePlace' /\ UnknownAreSent' /\ NetTypeOK'
<1>1. QueriesTypeOK'
  <2>1. nextId' \in 1..MaxMessageId + 1 /\ Used \subseteq Used' /\ p.id \in Used'
    BY Zenon DEF Written
  <2>2. /\ DOMAIN sent' \subseteq Used' /\ \A m \in DOMAIN sent' : sent'[m] \in SentRecords
    BY <2>1, Zenon DEF WrittenSent, SessionInv, QueriesTypeOK
  <2>3. DOMAIN toSend' \subseteq Used' /\ \A m \in DOMAIN toSend' : toSend'[m] \in All
    BY <2>1, Zenon DEF Written, Cut, SessionInv, QueriesTypeOK
  <2>4. DOMAIN containers' \subseteq Used' /\ \A c \in DOMAIN containers' : containers'[c] \in ContainerRecords
    BY <2>1, Zenon DEF WrittenContainer, NewContainer, SessionInv, QueriesTypeOK
  <2>5. /\ pending' \subseteq Queries /\ given' \subseteq All /\ returned' \in [All -> Results]
        /\ scenario' \in Scenarios /\ asked' \subseteq Used'
    BY <2>1, Zenon DEF Written, SessionInv, QueriesTypeOK
  <2> QED BY <2>1, <2>2, <2>3, <2>4, <2>5, Zenon DEF QueriesTypeOK
<1>2. /\ DOMAIN sent' = DOMAIN sent
      /\ \A m \in DOMAIN sent : sent'[m].query = sent[m].query /\ sent'[m].unknown = sent[m].unknown
  BY Zenon DEF WrittenSent
<1>3. \A q : q \in SentQueries' <=> q \in SentQueries
  BY <1>2, ZenonT(60) DEF SentQueries
<1>4. UNCHANGED <<pending, given, returned, unknown>>
  BY Zenon DEF Written
<1>5. OnePlace'
  <2>1. ASSUME NEW x \in All
        PROVE  /\ x \in pending' \/ x \in SentQueries' \/ returned'[x] # "none" <=> x \in given'
               /\ x \in pending' => x \notin SentQueries' /\ returned'[x] = "none"
               /\ x \in SentQueries' => returned'[x] = "none"
    BY <1>3, <1>4, ZenonT(60) DEF SessionInv, OnePlace
  <2>2. \A m, n \in DOMAIN sent' : sent'[m].query = sent'[n].query => m = n
    BY <1>2, Zenon DEF SessionInv, OnePlace
  <2> QED BY <2>1, <2>2, Zenon DEF OnePlace
<1>6. UnknownAreSent'
  BY <1>2, <1>4, Zenon DEF SessionInv, UnknownAreSent
<1>7. NetTypeOK'
  <2> SUFFICES ASSUME NEW r \in net' PROVE PacketOf(r) /\ BodyOK(r)'
    BY Zenon DEF NetTypeOK, PacketOf
  <2>1. CASE r \in net
    BY <2>1, Zenon DEF SessionInv, NetTypeOK, BodyOK, Written
  <2>2. CASE r = p
    <3>1. /\ PacketOf(p) /\ p.id \in Used' /\ DOMAIN p.body = ids /\ ids # {} /\ ids \subseteq DOMAIN toSend
          /\ \A m \in ids : p.body[m] = toSend[m]
      BY Zenon DEF Written
    <3>2. DOMAIN toSend \subseteq Used' /\ \A m \in DOMAIN toSend : toSend[m] \in All
      BY Zenon DEF Written, SessionInv, QueriesTypeOK
    <3> QED BY <2>2, <3>1, <3>2, Zenon DEF BodyOK
  <2> QED BY <2>1, <2>2, Zenon DEF Written
<1> QED BY <1>1, <1>5, <1>6, <1>7, Zenon

\* No packet under way has a message that is still to be sent, or its identifier.
LEMMA UnwrittenIsNew ==
  ASSUME SessionInv, NEW m \in DOMAIN toSend
  PROVE  /\ m \in Used /\ IsMessage(m) /\ m \notin DOMAIN containers
         /\ \A r \in net : m # r.id /\ m \notin DOMAIN r.body
<1>1. m \in Used /\ IsMessage(m)
  BY Zenon DEF SessionInv, QueriesTypeOK, IsMessage
<1>2. ~IsContainer(m)
  BY <1>1, Zenon DEF SessionInv, WrittenOnce
<1>3. \A r \in net : m \notin DOMAIN r.body
  BY Zenon DEF SessionInv, WrittenOnce
<1>4. \A r \in net : m # r.id
  BY <1>2, <1>3, Zenon DEF IsContainer, InContainer
<1> QED BY <1>1, <1>2, <1>3, <1>4, Zenon DEF IsContainer

LEMMA UsedMessages ==
  ASSUME SessionInv
  PROVE  Used \subseteq Messages
<1>1. nextId \in 1..MaxMessageId + 1 /\ nextId <= nextId
  BY BoundsAssumption, SMTT(60) DEF SessionInv, QueriesTypeOK
<1> QED BY <1>1, RangesGrow, Zenon DEF Used

LEMMA WrittenKeepsOnce ==
  ASSUME SessionInv, NEW p, NEW ids, Written(p, ids), WrittenSent(p, ids), WrittenContainer(p, ids)
  PROVE  WrittenOnce' /\ Unwritten'
<1>1. /\ ids \subseteq DOMAIN toSend /\ ids # {} /\ DOMAIN toSend' = DOMAIN toSend \ ids
      /\ DOMAIN p.body = ids /\ net' = net \cup {p} /\ Used \subseteq Used' /\ asked' = asked
      /\ p.id \in Used' /\ (ids = {p.id} \/ p.id \notin Used)
  BY Zenon DEF Written, Cut
<1>2. DOMAIN sent' = DOMAIN sent
  BY Zenon DEF WrittenSent
<1>3. \A r \in net : r.id \in Used /\ p.id # r.id /\ DOMAIN p.body \cap DOMAIN r.body = {}
  <2> TAKE r \in net
  <2>1. r.id \in Used
    BY PacketsUsed, Zenon
  <2>2. p.id \in Used => p.id # r.id
    BY <1>1, UnwrittenIsNew, Zenon
  <2>3. DOMAIN p.body \cap DOMAIN r.body = {}
    BY <1>1, UnwrittenIsNew, Zenon
  <2> QED BY <2>1, <2>2, <2>3, Zenon
<1>4. p.id \notin DOMAIN containers
  <2>1. DOMAIN containers \subseteq Used
    BY Zenon DEF SessionInv, QueriesTypeOK
  <2> QED BY <1>1, <2>1, UnwrittenIsNew, Zenon
<1>5. \A m : IsMessage(m)' => IsMessage(m) /\ m \in Used
  <2> TAKE m
  <2>1. IsMessage(m)' => IsMessage(m)
    BY <1>1, <1>2, Zenon DEF IsMessage
  <2>2. IsMessage(m) => m \in Used
    BY PacketsUsed, Zenon DEF IsMessage, SessionInv, QueriesTypeOK
  <2> QED BY <2>1, <2>2, Zenon
<1>6. \A c : IsContainer(c)' => IsContainer(c) \/ c \notin Used
  BY <1>1, Zenon DEF IsContainer, InContainer, WrittenContainer
<1>7. \A m \in Used' : ~(IsMessage(m)' /\ IsContainer(m)')
  BY <1>5, <1>6, Zenon DEF SessionInv, WrittenOnce
<1>8. \A r \in net' : DOMAIN r.body \cap DOMAIN toSend' = {}
  <2>1. \A r \in net : DOMAIN r.body \cap DOMAIN toSend = {}
    BY Zenon DEF SessionInv, WrittenOnce
  <2> QED BY <1>1, <2>1, Zenon
<1>9. \A r, s \in net' : r.id = s.id \/ DOMAIN r.body \cap DOMAIN s.body # {} => r = s
  <2>1. \A r, s \in net : r.id = s.id \/ DOMAIN r.body \cap DOMAIN s.body # {} => r = s
    BY Zenon DEF SessionInv, WrittenOnce
  <2> QED BY <1>1, <1>3, <2>1, ZenonT(60)
<1>10. \A r \in net' : r.id \in DOMAIN containers' => containers'[r.id].ids \subseteq DOMAIN r.body
  <2> SUFFICES ASSUME NEW r \in net', r.id \in DOMAIN containers' PROVE containers'[r.id].ids \subseteq DOMAIN r.body
    BY Zenon
  <2>1. CASE r \in net
    <3>1. r.id \in DOMAIN containers /\ containers'[r.id] = containers[r.id]
      BY <1>3, <2>1, Zenon DEF WrittenContainer
    <3> QED BY <2>1, <3>1, Zenon DEF SessionInv, WrittenOnce
  <2>2. CASE r = p
    BY <1>1, <1>4, <2>2, Zenon DEF WrittenContainer, NewContainer
  <2> QED BY <1>1, <2>1, <2>2, Zenon
<1>11. \A c \in DOMAIN containers' : containers'[c].ids \subseteq Used'
  <2> TAKE c \in DOMAIN containers'
  <2>1. CASE c \in DOMAIN containers /\ containers'[c] = containers[c]
    BY <1>1, <2>1, ZenonT(60) DEF SessionInv, WrittenOnce
  <2>2. CASE NewContainer(c, ids)
    <3>1. DOMAIN sent \subseteq Used
      BY Zenon DEF SessionInv, QueriesTypeOK
    <3> QED BY <1>1, <2>2, <3>1, Zenon DEF NewContainer
  <2> QED BY <2>1, <2>2, Zenon DEF WrittenContainer
<1>12. \A m \in DOMAIN sent' : sent'[m].container \in Used'
  <2> TAKE m \in DOMAIN sent'
  <2>1. sent[m].container \in Used
    BY <1>2, Zenon DEF SessionInv, WrittenOnce
  <2> QED BY <1>1, <1>2, <2>1, Zenon DEF WrittenSent
<1>13. WrittenOnce'
  BY <1>7, <1>8, <1>9, <1>10, <1>11, <1>12, ZenonT(60) DEF WrittenOnce
<1>14. Unwritten'
  BY <1>1, <1>2, Zenon DEF Unwritten, SessionInv, WrittenSent
<1> QED BY <1>13, <1>14, Zenon

LEMMA WrittenKeepsCounted ==
  ASSUME SessionInv, CountingRules, NEW p, NEW ids, Written(p, ids), WrittenSent(p, ids), WrittenContainer(p, ids)
  PROVE  Counted'
<1>1. ids \subseteq DOMAIN toSend /\ DOMAIN sent' = DOMAIN sent
  BY Zenon DEF Written, WrittenSent
<1> SUFFICES ASSUME NEW c \in DOMAIN containers'
             PROVE  /\ \A m \in DOMAIN sent : sent'[m].container = c <=> m \in containers'[c].ids
                    /\ containers'[c].refCnt = Cardinality(containers'[c].ids \cap DOMAIN sent)
                    /\ containers'[c].refCnt > 0
  BY <1>1, Zenon DEF Counted
<1>2. CASE c \in DOMAIN containers /\ containers'[c] = containers[c]
  <2>1. /\ \A m \in DOMAIN sent : sent[m].container = c <=> m \in containers[c].ids
        /\ containers[c].refCnt = Cardinality(containers[c].ids \cap DOMAIN sent)
        /\ containers[c].refCnt > 0
    BY <1>2, Zenon DEF SessionInv, Counted
  <2>2. c \in Used
    BY <1>2, Zenon DEF SessionInv, QueriesTypeOK
  <2>3. ASSUME NEW m \in DOMAIN sent PROVE sent'[m].container = c <=> sent[m].container = c
    <3>1. CASE m \in ids /\ p.id \notin Used
      <4>1. sent[m].container = m /\ m # c
        BY <1>1, <1>2, <3>1, OwnIdentifier, Zenon DEF SessionInv, Unwritten
      <4>2. sent'[m].container = p.id
        BY <3>1, Zenon DEF WrittenSent
      <4> QED BY <2>2, <3>1, <4>1, <4>2, Zenon
    <3>2. CASE m \notin ids \/ p.id \in Used
      BY <3>2, Zenon DEF WrittenSent
    <3> QED BY <3>1, <3>2, Zenon
  <2> QED BY <1>2, <2>1, <2>3, Zenon
<1>3. CASE c = p.id /\ c \notin Used /\ NewContainer(c, ids)
  <2>1. /\ containers'[c].ids = ids \cap DOMAIN sent /\ ids \cap DOMAIN sent # {}
        /\ containers'[c].refCnt = Cardinality(ids \cap DOMAIN sent)
    BY <1>3, Zenon DEF NewContainer
  <2>2. PICK K : K = ids \cap DOMAIN sent
    BY Zenon
  <2>3. K \subseteq Messages
    BY <2>2, UsedMessages, Zenon DEF SessionInv, QueriesTypeOK
  <2>4. Cardinality(K) > 0
    BY <2>1, <2>2, <2>3, Zenon DEF CountingRules
  <2>5. K \cap DOMAIN sent = K
    BY <2>2, Zenon
  <2>6. \A m \in DOMAIN sent : sent[m].container \in Used
    BY Zenon DEF SessionInv, WrittenOnce
  <2>7. \A m \in DOMAIN sent : sent'[m].container = c <=> m \in K
    BY <1>3, <2>2, <2>6, Zenon DEF WrittenSent
  <2> QED BY <2>1, <2>2, <2>4, <2>5, <2>7, Zenon
<1> QED BY <1>2, <1>3, Zenon DEF WrittenContainer

LEMMA WrittenKeepsServer ==
  ASSUME SessionInv, NEW p, NEW ids, Written(p, ids), WrittenSent(p, ids), WrittenContainer(p, ids)
  PROVE  ServerOK' /\ OneLive'
<1>0. serverResets' = serverResets /\ serverResets' \in Nat
  BY Zenon DEF Written, serverVars, SessionInv, ServerOK
<1> SUFFICES ASSUME serverResets = 0 PROVE ServerOK' /\ OneLive'
  BY <1>0, Zenon DEF ServerOK, OneLive
<1>1. /\ ids \subseteq DOMAIN toSend /\ DOMAIN p.body = ids /\ net' = net \cup {p} /\ Used \subseteq Used'
      /\ (ids = {p.id} \/ p.id \notin Used) /\ \A m \in ids : p.body[m] = toSend[m]
      /\ DOMAIN toSend' = DOMAIN toSend \ ids /\ \A m \in DOMAIN toSend' : toSend'[m] = toSend[m]
      /\ UNCHANGED <<received, lost, executed, freshServer, firstId, pending, given>>
  BY Zenon DEF Written, Cut, serverVars
<1>2. DOMAIN sent' = DOMAIN sent /\ \A m \in DOMAIN sent : sent'[m].query = sent[m].query
  BY Zenon DEF WrittenSent
<1>3. KeptServer
  BY Zenon DEF SessionInv, ServerOK
<1>4. KeptServer'
  <2>1. \A r \in net' : InContainer(r) => r.id \notin received \cup lost
    BY <1>1, <1>3, Zenon DEF KeptServer, InContainer
  <2>2. \A c \in DOMAIN containers' : c \in lost => containers'[c].ids \cap DOMAIN sent \subseteq lost
    BY <1>3, Zenon DEF KeptServer, WrittenContainer
  <2> QED BY <1>1, <1>2, <1>3, <2>1, <2>2, Zenon DEF KeptServer, InContainer
<1>5. ASSUME NEW m, NEW q, Live(m, q)' PROVE Live(m, q) /\ m \in Used
  <2>1. Waits(m, q)' => Waits(m, q)
    BY <1>1, Zenon DEF Waits
  <2>2. Live(m, q)
    BY <1>1, <1>5, <2>1, Zenon DEF Live, Done
  <2> QED BY <2>2, LiveUsed, Zenon
<1>6. OneLive'
  <2> SUFFICES ASSUME NEW q \in All
               PROVE  /\ \A m, k \in Used' : Live(m, q)' /\ Live(k, q)' => m = k
                      /\ \A m \in Used' : Live(m, q)' => q \in given' /\ q \notin pending'
                      /\ \A m \in Used', k \in DOMAIN sent' : Live(m, q)' /\ sent'[k].query = q => m = k
    BY Zenon DEF OneLive
  <2>1. /\ \A m, k \in Used : Live(m, q) /\ Live(k, q) => m = k
        /\ \A m \in Used : Live(m, q) => q \in given /\ q \notin pending
        /\ \A m \in Used, k \in DOMAIN sent : Live(m, q) /\ sent[k].query = q => m = k
    BY Zenon DEF SessionInv, OneLive
  <2> QED BY <1>1, <1>2, <1>5, <2>1, Zenon
<1> QED BY <1>0, <1>4, <1>6, Zenon DEF ServerOK

LEMMA Single ==
  ASSUME CountingRules, NEW S \in SUBSET Messages, Cardinality(S) = 1, NEW m \in S
  PROVE  S = {m}
<1>1. PICK R : R = S \ {m}
  BY Zenon
<1>2. R \in SUBSET Messages /\ Cardinality(R) = Cardinality(S) - 1
  BY <1>1, Zenon DEF CountingRules
<1>3. R # {} => Cardinality(R) > 0
  BY <1>2, Zenon DEF CountingRules
<1>4. R = {}
  BY <1>2, <1>3, SMTT(60)
<1> QED BY <1>1, <1>4, Zenon

LEMMA CountedTogether ==
  ASSUME CountingRules, NEW K \in SUBSET Messages, NEW r, r = [refCnt |-> Cardinality(K), ids |-> K]
  PROVE  r \in ContainerRecords /\ r.ids = K /\ r.refCnt = Cardinality(K)
<1>1. PICK n \in Nat : n = Cardinality(K)
  BY Zenon DEF CountingRules
<1>2. PICK o : o = [refCnt |-> n, ids |-> K]
  BY Zenon
<1>3. o \in ContainerRecords /\ o.ids = K /\ o.refCnt = n
  BY <1>2, SMTT(60) DEF ContainerRecords
<1> QED BY <1>1, <1>2, <1>3, Zenon

\* on_container_sent
LEMMA ContainerWritten ==
  ASSUME SessionInv, CountingRules, NEW ids, WritePacket(ids, TRUE)
  PROVE  \E p : Written(p, ids) /\ WrittenSent(p, ids) /\ WrittenContainer(p, ids)
<1>1. /\ ids # {} /\ ids \subseteq DOMAIN toSend /\ toSend' = Without(toSend, ids) /\ Takes
      /\ net' = net \cup {[id |-> nextId, body |-> Restrict(toSend, ids), old |-> FALSE]}
      /\ UNCHANGED <<pending, unknown, asked, given, returned, serverVars, scenario>>
  BY Zenon DEF WritePacket, Takes, ownerVars, budget
<1>2. PICK K : K = ids \intersect DOMAIN sent
  BY Zenon
<1>3. sent' = [m \in DOMAIN sent |-> IF m \in K THEN WithContainer(sent[m], nextId) ELSE sent[m]]
  BY <1>2, Zenon DEF WritePacket, WithContainer
<1>4. containers' = IF K = {} THEN containers
                    ELSE With(containers, nextId, [refCnt |-> Cardinality(K), ids |-> K])
  BY <1>2, Zenon DEF WritePacket
<1>5. PICK n : n = nextId
  BY Zenon
<1>6. /\ nextId' \in 1..MaxMessageId + 1 /\ n \notin Used /\ n \in Used' /\ Used \subseteq Used'
  BY <1>1, <1>5, NextUsed, Zenon
<1>7. n \in Nat
  BY <1>5, BoundsAssumption, SMTT(60) DEF SessionInv, QueriesTypeOK
<1>8. PICK b : b = Restrict(toSend, ids)
  BY Zenon
<1>9. DOMAIN b = ids /\ \A m \in ids : b[m] = toSend[m]
  BY <1>8, Zenon DEF Restrict
<1>10. PICK f : f = FALSE
  BY Zenon
<1>11. PICK p : p = [id |-> n, body |-> b, old |-> f]
  BY Zenon
<1>12. PacketOf(p) /\ p.id = n /\ p.body = b
  BY <1>11, SMTT(60) DEF PacketOf
<1>13. net' = net \cup {p}
  BY <1>1, <1>5, <1>8, <1>10, <1>11, Zenon
<1>14. Cut(toSend, toSend', ids)
  BY <1>1, WithoutCuts, Zenon
<1>15. Written(p, ids)
  BY <1>1, <1>6, <1>9, <1>12, <1>13, <1>14, Zenon DEF Written
<1>16. WrittenSent(p, ids)
  <2>1. DOMAIN sent' = DOMAIN sent
    BY <1>3, Zenon
  <2>2. ASSUME NEW m \in DOMAIN sent
        PROVE  /\ sent'[m] \in SentRecords /\ sent'[m].query = sent[m].query /\ sent'[m].unknown = sent[m].unknown
               /\ m \in ids => sent'[m].container = n
               /\ m \notin ids => sent'[m].container = sent[m].container
    <3>1. sent[m] \in SentRecords
      BY Zenon DEF SessionInv, QueriesTypeOK
    <3>2. CASE m \in ids
      <4>1. sent'[m] = WithContainer(sent[m], n)
        BY <1>2, <1>3, <1>5, <3>2, ZenonT(60)
      <4>2. PICK r, o : r \in SentRecords /\ r = sent[m] /\ o = WithContainer(r, n)
        BY <3>1, Zenon
      <4>3. o \in SentRecords /\ o.query = r.query /\ o.container = n /\ o.unknown = r.unknown
        BY <1>7, <4>2, SMTT(60) DEF SentRecords, WithContainer
      <4> QED BY <3>2, <4>1, <4>2, <4>3, Zenon
    <3>3. CASE m \notin ids
      BY <1>2, <1>3, <3>1, <3>3, Zenon
    <3> QED BY <3>2, <3>3, Zenon
  <2> QED BY <1>6, <1>12, <2>1, <2>2, Zenon DEF WrittenSent
<1>17. WrittenContainer(p, ids)
  <2>1. CASE K = {}
    BY <1>4, <2>1, Zenon DEF WrittenContainer
  <2>2. CASE K # {}
    <3>1. PICK r : r = [refCnt |-> Cardinality(K), ids |-> K]
      BY Zenon
    <3>2. K \in SUBSET Messages
      BY <1>2, UsedMessages, ZenonT(60) DEF SessionInv, QueriesTypeOK
    <3>3. r \in ContainerRecords /\ r.ids = K /\ r.refCnt = Cardinality(K)
      BY <3>1, <3>2, CountedTogether, Zenon
    <3>4. containers' = With(containers, n, r)
      BY <1>4, <1>5, <2>2, <3>1, Zenon
    <3>5. Put(containers, containers', n, r)
      BY <3>4, WithPuts, Zenon
    <3>6. NewContainer(n, ids)
      BY <1>2, <2>2, <3>3, <3>5, Zenon DEF NewContainer, Put
    <3> QED BY <1>6, <1>12, <3>5, <3>6, Zenon DEF WrittenContainer, Put
  <2> QED BY <2>1, <2>2, Zenon
<1> QED BY <1>15, <1>16, <1>17, Zenon

LEMMA MessageWritten ==
  ASSUME SessionInv, CountingRules, NEW ids, WritePacket(ids, FALSE)
  PROVE  \E p : Written(p, ids) /\ WrittenSent(p, ids) /\ WrittenContainer(p, ids)
<1>1. /\ ids # {} /\ ids \subseteq DOMAIN toSend /\ toSend' = Without(toSend, ids) /\ Cardinality(ids) = 1
      /\ net' = net \cup {[id |-> CHOOSE m \in ids : TRUE, body |-> Restrict(toSend, ids), old |-> FALSE]}
      /\ UNCHANGED <<nextId, sent, containers>>
      /\ UNCHANGED <<pending, unknown, asked, given, returned, serverVars, scenario>>
  BY Zenon DEF WritePacket, ownerVars, budget
<1>2. PICK n : n = CHOOSE m \in ids : TRUE
  BY Zenon
<1>3. n \in ids
  BY <1>1, <1>2, Zenon
<1>4. DOMAIN toSend \subseteq Used /\ nextId \in 1..MaxMessageId + 1 /\ Used' = Used
  BY <1>1, Zenon DEF SessionInv, QueriesTypeOK, Used
<1>5. ids \in SUBSET Messages
  BY <1>1, <1>4, UsedMessages, Zenon
<1>6. ids = {n}
  BY <1>1, <1>3, <1>5, Single, Zenon
<1>8. PICK b : b = Restrict(toSend, ids)
  BY Zenon
<1>9. DOMAIN b = ids /\ \A m \in ids : b[m] = toSend[m]
  BY <1>8, Zenon DEF Restrict
<1>10. PICK f : f = FALSE
  BY Zenon
<1>11. PICK p : p = [id |-> n, body |-> b, old |-> f]
  BY Zenon
<1>12. PacketOf(p) /\ p.id = n /\ p.body = b
  BY <1>11, SMTT(60) DEF PacketOf
<1>13. net' = net \cup {p}
  BY <1>1, <1>2, <1>8, <1>10, <1>11, Zenon
<1>14. Cut(toSend, toSend', ids)
  BY <1>1, WithoutCuts, Zenon
<1>15. n \in Used
  BY <1>1, <1>3, <1>4, Zenon
<1>16. Written(p, ids)
  BY <1>1, <1>4, <1>6, <1>9, <1>12, <1>13, <1>14, <1>15, ZenonT(60) DEF Written
<1>17. WrittenSent(p, ids)
  BY <1>1, <1>12, <1>15, ZenonT(60) DEF WrittenSent, SessionInv, QueriesTypeOK
<1>18. WrittenContainer(p, ids)
  BY <1>1, Zenon DEF WrittenContainer
<1> QED BY <1>16, <1>17, <1>18, Zenon

LEMMA WritePacketKeeps ==
  ASSUME SessionInv, CountingRules, NEW ids, NEW c \in BOOLEAN, WritePacket(ids, c)
  PROVE  SessionInv'
<1>1. c = TRUE \/ c = FALSE
  BY Zenon
<1>2. PICK p : Written(p, ids) /\ WrittenSent(p, ids) /\ WrittenContainer(p, ids)
  BY <1>1, ContainerWritten, MessageWritten, Zenon
<1> QED BY <1>2, WrittenKeepsPlaces, WrittenKeepsOnce, WrittenKeepsCounted, WrittenKeepsServer, ZenonT(60) DEF SessionInv

----------------------------------------------------------------------------
(* The server. *)

\* What a step of the server leaves alone.
Quiet ==
  /\ UNCHANGED <<sent, unknown, containers, pending, given, returned, toSend, asked, scenario>>
  /\ net' \subseteq net /\ nextId' \in 1..MaxMessageId + 1 /\ nextId <= nextId'

LEMMA QuietKeeps ==
  ASSUME SessionInv, Quiet
  PROVE  /\ QueriesTypeOK' /\ OnePlace' /\ UnknownAreSent' /\ NetTypeOK' /\ WrittenOnce' /\ Counted' /\ Unwritten'
         /\ Shrinks /\ Used \subseteq Used'
<1>1. NetLess
  BY Zenon DEF NetLess, Quiet, SessionInv, NetTypeOK
<1>2. Shrinks
  BY <1>1, Zenon DEF Shrinks, SentLess, ContainersLess, WireLess, Quiet, SessionInv, QueriesTypeOK
<1>3. sent' = sent /\ containers' = containers /\ unknown' = unknown /\ returned' = returned /\ given' = given /\ pending' = pending
  BY Zenon DEF Quiet
<1>4. Counted' /\ UnknownAreSent'
  BY <1>3, Zenon DEF SessionInv, Counted, UnknownAreSent
<1>5. SentQueries' = SentQueries
  BY <1>3, Zenon DEF SentQueries
<1>6. OnePlace'
  BY <1>3, <1>5, Zenon DEF SessionInv, OnePlace
<1>7. QueriesTypeOK'
  <2>1. /\ pending' \subseteq Queries /\ given' \subseteq All /\ returned' \in [All -> Results] /\ scenario' = scenario
    BY <1>3, Zenon DEF SessionInv, QueriesTypeOK, Quiet
  <2> QED BY <1>2, <2>1, TypesStay, Zenon
<1>8. Used \subseteq Used'
  BY UsedGrows, Zenon DEF SessionInv, QueriesTypeOK, Quiet
<1> QED BY <1>2, <1>4, <1>6, <1>7, <1>8, ShrinkKeepsNet, Zenon

LEMMA LiveLess ==
  ASSUME SessionInv, Quiet, serverResets = 0, \A m, q : Live(m, q)' => Live(m, q)
  PROVE  OneLive'
<1>1. UNCHANGED <<sent, given, pending>>
  BY Zenon DEF Quiet
<1>2. \A m, q : Live(m, q)' => Live(m, q) /\ m \in Used
  BY LiveUsed, Zenon
<1> SUFFICES ASSUME NEW q \in All
             PROVE  /\ \A m, k \in Used' : Live(m, q)' /\ Live(k, q)' => m = k
                    /\ \A m \in Used' : Live(m, q)' => q \in given' /\ q \notin pending'
                    /\ \A m \in Used', k \in DOMAIN sent' : Live(m, q)' /\ sent'[k].query = q => m = k
  BY Zenon DEF OneLive
<1>3. /\ \A m, k \in Used : Live(m, q) /\ Live(k, q) => m = k
      /\ \A m \in Used : Live(m, q) => q \in given /\ q \notin pending
      /\ \A m \in Used, k \in DOMAIN sent : Live(m, q) /\ sent[k].query = q => m = k
  BY Zenon DEF SessionInv, OneLive
<1> QED BY <1>1, <1>2, <1>3, Zenon

LEMMA WaitsLess ==
  ASSUME Quiet, NEW m, NEW q, Waits(m, q)'
  PROVE  Waits(m, q)
  BY Zenon DEF Quiet, Waits

LEMMA ServerKeeps ==
  ASSUME SessionInv, Quiet, serverResets' = serverResets,
         serverResets = 0 => KeptServer' /\ \A m, q : Live(m, q)' => Live(m, q)
  PROVE  SessionInv'
<1>1. OneLive'
  BY LiveLess, Zenon DEF OneLive
<1>2. ServerOK'
  BY Zenon DEF SessionInv, ServerOK
<1> QED BY <1>1, <1>2, QuietKeeps, Zenon DEF SessionInv

LEMMA SameNext ==
  ASSUME SessionInv, nextId' = nextId
  PROVE  nextId' \in 1..MaxMessageId + 1 /\ nextId <= nextId'
<1>1. nextId \in 1..MaxMessageId + 1 /\ nextId <= nextId
  BY BoundsAssumption, SMTT(60) DEF SessionInv, QueriesTypeOK
<1> QED BY <1>1, Zenon

\* A message of a packet is no container, and packets differ in their identifiers.
LEMMA PacketsDiffer ==
  ASSUME SessionInv, NEW p \in net, NEW r \in net, r # p
  PROVE  r.id # p.id /\ (InContainer(r) => r.id \notin DOMAIN p.body)
<1>1. r.id # p.id
  BY Zenon DEF SessionInv, WrittenOnce
<1>2. ASSUME InContainer(r), r.id \in DOMAIN p.body PROVE FALSE
  <2>1. IsMessage(r.id) /\ IsContainer(r.id) /\ r.id \in Used
    BY <1>2, PacketsUsed, Zenon DEF IsMessage, IsContainer
  <2> QED BY <2>1, Zenon DEF SessionInv, WrittenOnce
<1> QED BY <1>1, <1>2, Zenon

LEMMA LoseKeeps ==
  ASSUME SessionInv, NEW p \in net, Lose(p)
  PROVE  SessionInv'
<1>1. Quiet
  BY SameNext, Zenon DEF Quiet, Lose, sessionSide, sessionVars, ownerVars, budget
<1>2. UNCHANGED <<received, lost, executed, freshServer, firstId, serverResets>>
  BY Zenon DEF Lose, serverVars
<1>3. \A m, q : Live(m, q)' => Live(m, q)
  BY <1>1, <1>2, WaitsLess, Zenon DEF Live, Done
<1>4. ASSUME serverResets = 0 PROVE KeptServer'
  <2>1. KeptServer /\ Used \subseteq Used'
    BY <1>1, <1>4, QuietKeeps, Zenon DEF SessionInv, ServerOK
  <2> QED BY <1>1, <1>2, <2>1, Zenon DEF KeptServer, Quiet, InContainer
<1> QED BY <1>1, <1>2, <1>3, <1>4, ServerKeeps, ZenonT(60)

\* bad_msg_notification
LEMMA RefuseKeeps ==
  ASSUME SessionInv, NEW p \in net, Refuse(p)
  PROVE  SessionInv'
<1>1. Quiet
  BY SameNext, Zenon DEF Quiet, Refuse, Fault, sessionSide, sessionVars, ownerVars
<1>2. /\ UNCHANGED <<received, executed, freshServer, firstId, serverResets>>
      /\ net' = net \ {p} /\ lost' = lost \cup DOMAIN p.body \cup {p.id} /\ DOMAIN p.body \cap received = {}
  BY Zenon DEF Refuse
<1>3. \A m, q : Live(m, q)' => Live(m, q)
  BY <1>1, <1>2, WaitsLess, Zenon DEF Live, Done
<1>4. ASSUME serverResets = 0 PROVE KeptServer'
  <2>1. KeptServer /\ Used \subseteq Used'
    BY <1>1, <1>4, QuietKeeps, Zenon DEF SessionInv, ServerOK
  <2>2. p.id \in Used /\ DOMAIN p.body \subseteq Used
    BY PacketsUsed, Zenon
  <2>3. p.id \notin received
    <3>1. InContainer(p) => p.id \notin received
      BY <2>1, Zenon DEF KeptServer
    <3> QED BY <1>2, <3>1, Zenon DEF InContainer
  <2>4. received' \cap lost' = {} /\ received' \subseteq Used' /\ lost' \subseteq Used'
    BY <1>2, <2>1, <2>2, <2>3, ZenonT(60) DEF KeptServer
  <2>5. \A r \in net' : InContainer(r) => r.id \notin received' \cup lost'
    BY <1>2, <2>1, PacketsDiffer, Zenon DEF KeptServer
  <2>6. ASSUME NEW c \in DOMAIN containers, c \in lost'
        PROVE  containers[c].ids \cap DOMAIN sent \subseteq lost'
    <3>1. CASE c \in lost
      BY <1>2, <2>1, <3>1, Zenon DEF KeptServer
    <3>2. CASE c \in DOMAIN p.body
      <4>1. IsMessage(c) /\ IsContainer(c) /\ c \in Used
        BY <2>2, <3>2, Zenon DEF IsMessage, IsContainer
      <4> QED BY <4>1, Zenon DEF SessionInv, WrittenOnce
    <3>3. CASE c = p.id
      BY <1>2, <3>3, ZenonT(60) DEF SessionInv, WrittenOnce
    <3> QED BY <1>2, <2>6, <3>1, <3>2, <3>3, ZenonT(60)
  <2> QED BY <1>1, <1>2, <2>1, <2>4, <2>5, <2>6, ZenonT(60) DEF KeptServer, Quiet, InContainer
<1> QED BY <1>1, <1>2, <1>3, <1>4, ServerKeeps, ZenonT(60)

LEMMA AnswerStateKeeps ==
  ASSUME SessionInv, NEW a, AnswerState(a)
  PROVE  SessionInv'
<1>1. Quiet
  BY SameNext, Zenon DEF Quiet, AnswerState, sessionSide, sessionVars, ownerVars, budget
<1>2. /\ UNCHANGED <<received, executed, freshServer, firstId, serverResets, net>>
      /\ lost' = lost \cup {a} /\ a \in asked /\ a \notin received
  BY Zenon DEF AnswerState
<1>3. \A m, q : Live(m, q)' => Live(m, q)
  BY <1>1, <1>2, WaitsLess, ZenonT(60) DEF Live, Done
<1>4. a \in Used /\ ~IsContainer(a)
  <2>1. a \in Used /\ IsMessage(a)
    BY <1>2, Zenon DEF SessionInv, QueriesTypeOK, IsMessage
  <2> QED BY <2>1, ZenonT(60) DEF SessionInv, WrittenOnce
<1>5. ASSUME serverResets = 0 PROVE KeptServer'
  <2>1. KeptServer /\ Used \subseteq Used'
    BY <1>1, <1>5, QuietKeeps, Zenon DEF SessionInv, ServerOK
  <2>2. \A r \in net : InContainer(r) => r.id # a
    BY <1>4, Zenon DEF IsContainer
  <2>3. a \notin DOMAIN containers
    BY <1>4, Zenon DEF IsContainer
  <2>4. received' \cap lost' = {} /\ received' \subseteq Used' /\ lost' \subseteq Used'
    BY <1>2, <1>4, <2>1, Zenon DEF KeptServer
  <2>5. \A r \in net' : InContainer(r) => r.id \notin received' \cup lost'
    BY <1>2, <2>1, <2>2, Zenon DEF KeptServer
  <2>6. \A c \in DOMAIN containers : c \in lost' => containers[c].ids \cap DOMAIN sent \subseteq lost'
    BY <1>2, <2>1, <2>3, Zenon DEF KeptServer
  <2> QED BY <1>1, <1>2, <2>1, <2>4, <2>5, <2>6, ZenonT(60) DEF KeptServer, Quiet, InContainer
<1> QED BY <1>1, <1>2, <1>3, <1>5, ServerKeeps, ZenonT(60)

LEMMA Executions ==
  ASSUME NEW m, NEW q, NEW n, NEW x, x = <<m, q, n>>
  PROVE  x[1] = m /\ x[2] = q /\ x[3] = n
  BY SMTT(60)

LEMMA ReceiveKeeps ==
  ASSUME SessionInv, NEW p \in net, Receive(p)
  PROVE  SessionInv'
<1>1. Quiet
  BY SameNext, Zenon DEF Quiet, Receive, sessionSide, sessionVars, ownerVars, budget
<1>2. PICK new : new = DOMAIN p.body \ (received \union lost)
  BY Zenon
<1>3. net' = net \ {p} /\ serverResets' = serverResets
  BY Zenon DEF Receive
<1> SUFFICES ASSUME serverResets = 0 PROVE KeptServer' /\ \A m, q : Live(m, q)' => Live(m, q)
  BY <1>1, <1>3, ServerKeeps, Zenon
<1>4. KeptServer /\ Used \subseteq Used' /\ ~freshServer
  BY <1>1, QuietKeeps, ZenonT(60) DEF SessionInv, ServerOK, KeptServer
<1>5. CASE new = {}
  <2>1. UNCHANGED <<received, executed, freshServer, lost, firstId>>
    BY <1>2, <1>5, Zenon DEF Receive
  <2>2. KeptServer'
    BY <1>1, <1>4, <2>1, Zenon DEF KeptServer, Quiet, InContainer
  <2> QED BY <1>1, <2>1, <2>2, WaitsLess, Zenon DEF Live, Done
<1>6. CASE new # {}
  <2>1. /\ received' = received \union new \union {p.id}
        /\ executed' = executed \union {<<m, p.body[m], serverResets>> : m \in new}
        /\ UNCHANGED <<freshServer, lost, firstId>>
    BY <1>2, <1>4, <1>6, Zenon DEF Receive, Begins
  <2>2. /\ p.id \in Used /\ DOMAIN p.body \subseteq Used /\ new \subseteq DOMAIN p.body
        /\ new \cap lost = {} /\ \A m \in new : p.body[m] \in All
    BY <1>2, PacketsUsed, Zenon
  <2>3. p.id \notin lost
    <3>1. InContainer(p) => p.id \notin lost
      BY <1>4, Zenon DEF KeptServer
    <3> QED BY <1>6, <2>2, <3>1, Zenon DEF InContainer
  <2>4. received' \cap lost' = {} /\ received' \subseteq Used' /\ lost' \subseteq Used'
    BY <1>4, <2>1, <2>2, <2>3, ZenonT(60) DEF KeptServer
  <2>5. \A r \in net' : InContainer(r) => r.id \notin received' \cup lost'
    BY <1>3, <1>4, <2>1, <2>2, PacketsDiffer, ZenonT(60) DEF KeptServer
  <2>6. executed' \subseteq received' \X All \X {0}
    <3>1. ASSUME NEW x \in executed PROVE x \in received' \X All \X {0}
      <4>1. x \in received \X All \X {0} /\ received \subseteq received'
        BY <1>4, <2>1, Zenon DEF KeptServer
      <4>2. PICK R, S : R = received /\ S = received'
        BY Zenon
      <4>3. x \in R \X All \X {0} /\ R \subseteq S
        BY <4>1, <4>2, Zenon
      <4>4. x \in S \X All \X {0}
        BY <4>3, SMTT(60)
      <4> QED BY <4>2, <4>4, Zenon
    <3>2. ASSUME NEW m \in new PROVE <<m, p.body[m], serverResets>> \in received' \X All \X {0}
      <4>1. m \in received' /\ p.body[m] \in All
        BY <2>1, <2>2, Zenon
      <4>2. PICK S, q : S = received' /\ q = p.body[m]
        BY Zenon
      <4>3. m \in S /\ q \in All
        BY <4>1, <4>2, Zenon
      <4>4. <<m, q, 0>> \in S \X All \X {0}
        BY <4>3, SMTT(60)
      <4> QED BY <4>2, <4>4, Zenon
    <3>3. PICK P : P = received' \X All \X {0}
      BY Zenon
    <3>4. ASSUME NEW x \in executed' PROVE x \in P
      <4>1. CASE x \in executed
        BY <3>1, <3>3, <4>1, ZenonT(60)
      <4>2. CASE x \notin executed
        <5>1. PICK m \in new : x = <<m, p.body[m], serverResets>>
          BY <2>1, <4>2, Zenon
        <5> QED BY <3>2, <3>3, <5>1, Zenon
      <4> QED BY <4>1, <4>2, Zenon
    <3> QED BY <3>3, <3>4, Zenon
  <2>7. KeptServer'
    BY <1>1, <1>4, <2>1, <2>4, <2>5, <2>6, ZenonT(60) DEF KeptServer, Quiet, InContainer
  <2>8. ASSUME NEW m, NEW q, Live(m, q)' PROVE Live(m, q)
    <3>1. CASE Done(m, q)'
      <4>1. PICK x \in executed' : x[1] = m /\ x[2] = q
        BY <3>1, Zenon DEF Done
      <4>2. CASE x \in executed
        BY <4>1, <4>2, Zenon DEF Live, Done
      <4>3. CASE x \notin executed
        <5>1. PICK k \in new : x = <<k, p.body[k], serverResets>>
          BY <2>1, <4>3, Zenon
        <5>2. PICK b, n : b = p.body[k] /\ n = serverResets
          BY Zenon
        <5>3. x = <<k, b, n>>
          BY <5>1, <5>2, Zenon
        <5>4. x[1] = k /\ x[2] = b
          BY <5>3, Executions, Zenon
        <5>5. m \in DOMAIN p.body /\ p.body[m] = q /\ m \notin lost
          BY <2>2, <4>1, <5>2, <5>4, ZenonT(60)
        <5> QED BY <5>5, ZenonT(60) DEF Live, Waits
      <4> QED BY <4>2, <4>3, Zenon
    <3>2. CASE ~Done(m, q)'
      BY <1>1, <2>1, <2>8, <3>2, WaitsLess, ZenonT(60) DEF Live
    <3> QED BY <3>1, <3>2, Zenon
  <2> QED BY <2>7, <2>8, Zenon
<1> QED BY <1>5, <1>6, Zenon

LEMMA ReceiveServiceKeeps ==
  ASSUME SessionInv, ReceiveService
  PROVE  SessionInv'
<1>1. Takes
  BY Zenon DEF ReceiveService, Takes
<1>2. Quiet
  BY <1>1, NextUsed, Zenon DEF Quiet, ReceiveService, sessionSide, sessionVars, ownerVars, budget
<1>3. serverResets' = serverResets /\ serverResets # 0
  BY Zenon DEF ReceiveService, SessionInv, ServerOK, KeptServer
<1> QED BY <1>2, <1>3, ServerKeeps, Zenon

LEMMA NextReset ==
  ASSUME NEW n \in Nat
  PROVE  n + 1 \in Nat /\ n + 1 # 0
  BY SMTT(60)

LEMMA ServerResetKeeps ==
  ASSUME SessionInv, ServerReset
  PROVE  SessionInv'
<1>1. Quiet
  BY SameNext, Zenon DEF Quiet, ServerReset, Fault, sessionSide, sessionVars, ownerVars
<1>2. serverResets' \in Nat /\ serverResets' # 0
  BY NextReset, Zenon DEF ServerReset, SessionInv, ServerOK
<1>3. ServerOK' /\ OneLive'
  BY <1>2, Zenon DEF ServerOK, OneLive
<1> QED BY <1>1, <1>3, QuietKeeps, ZenonT(60) DEF SessionInv

----------------------------------------------------------------------------
(* The invariant. *)

LEMMA FirstMessage ==
  1 \in 1..MaxMessageId + 1 /\ 0 \in Nat /\ 1..1 - 1 = {}
  BY BoundsAssumption, SMTT(60)

LEMMA InitSessionInv ==
  Init => SessionInv
<1> SUFFICES ASSUME Init PROVE SessionInv
  BY Zenon
<1>1. /\ pending = {} /\ unknown = {} /\ given = {} /\ returned = [q \in All |-> "none"] /\ asked = {} /\ net = {}
      /\ nextId = 1 /\ scenario \in Scenarios
      /\ received = {} /\ lost = {} /\ executed = {} /\ freshServer = FALSE /\ firstId = 0 /\ serverResets = 0
  BY Zenon DEF Init
<1>2. DOMAIN sent = {} /\ DOMAIN containers = {} /\ DOMAIN toSend = {}
  BY EmptyFunction, Zenon DEF Init
<1>3. Used = {} /\ nextId \in 1..MaxMessageId + 1 /\ serverResets \in Nat
  BY <1>1, FirstMessage, Zenon DEF Used
<1>4. QueriesTypeOK
  <2>1. returned \in [All -> Results]
    BY <1>1, Zenon DEF Results
  <2> QED BY <1>1, <1>2, <1>3, <2>1, ZenonT(60) DEF QueriesTypeOK
<1>5. SentQueries = {}
  BY <1>2, Zenon DEF SentQueries
<1>6. OnePlace
  BY <1>1, <1>2, <1>5, Zenon DEF OnePlace
<1>7. UnknownAreSent /\ NetTypeOK /\ Counted /\ Unwritten
  BY <1>1, <1>2, Zenon DEF UnknownAreSent, NetTypeOK, Counted, Unwritten
<1>8. WrittenOnce
  BY <1>1, <1>2, <1>3, Zenon DEF WrittenOnce
<1>9. ServerOK /\ OneLive
  BY <1>1, <1>2, <1>3, Zenon DEF ServerOK, KeptServer, OneLive
<1> QED BY <1>4, <1>6, <1>7, <1>8, <1>9, ZenonT(60) DEF SessionInv

LEMMA SessionStep ==
  ASSUME SessionInv, CountingRules, SessionNext
  PROVE  SessionInv'
<1>1. ASSUME NEW q \in Queries, Send(q) \/ Cancel(q) \/ SendQuery(q) PROVE SessionInv'
  BY <1>1, SendKeeps, SendQueryKeeps, OthersKeep, ZenonT(60)
<1>2. ASSUME NEW b \in BindQueries, SendBindKey(b) \/ OnBindResult(b) PROVE SessionInv'
  BY <1>2, SendBindKeyKeeps, ClosingKeeps, Zenon
<1>3. ASSUME NEW m, RawEvent(m) \/ Answers(m) PROVE SessionInv'
  BY <1>3, RawEventKeeps, OnMessageResultKeeps, OnMessageFailedKeeps, OnMessageInfoReadyKeeps, OnMessageAckKeeps, ZenonT(60)
     DEF Answers
<1>4. ASSUME NEW ids, NEW c \in BOOLEAN, WritePacket(ids, c) PROVE SessionInv'
  BY <1>4, WritePacketKeeps, Zenon
<1>5. CASE Wakeup \/ OpenFinish \/ StartFlush \/ EndFlush
  BY <1>5, OthersKeep, Zenon
<1>6. CASE OnNetwork \/ OnHandshakeReady \/ FlushWithoutKey \/ OnClosed \/ OnClosed404
  BY <1>6, ClosingKeeps, Zenon
<1>7. CASE Close \/ OnClosed500 \/ OnNewSessionCreated \/ \E m \in Messages \union {0} : OnPongTimeout(m)
  BY <1>7, CloseKeeps, OnClosed500Keeps, OnNewSessionCreatedKeeps, OnPongTimeoutKeeps, Zenon
<1> QED BY <1>1, <1>2, <1>3, <1>4, <1>5, <1>6, <1>7, ZenonT(60) DEF SessionNext

LEMMA ServerStep ==
  ASSUME SessionInv, ServerNext
  PROVE  SessionInv'
  BY ReceiveKeeps, LoseKeeps, RefuseKeeps, AnswerStateKeeps, ReceiveServiceKeeps, ServerResetKeeps, Zenon DEF ServerNext

LEMMA Stutters ==
  ASSUME SessionInv, UNCHANGED vars
  PROVE  SessionInv'
<1>1. Quiet
  BY SameNext, Zenon DEF Quiet, vars, sessionVars, ownerVars, connVars, budget
<1>2. UNCHANGED <<received, lost, executed, freshServer, firstId, serverResets, net>>
  BY Zenon DEF vars, serverVars, connVars
<1>3. \A m, q : Live(m, q)' => Live(m, q)
  BY <1>1, <1>2, WaitsLess, Zenon DEF Live, Done
<1>4. ASSUME serverResets = 0 PROVE KeptServer'
  <2>1. KeptServer /\ Used \subseteq Used'
    BY <1>1, <1>4, QuietKeeps, Zenon DEF SessionInv, ServerOK
  <2> QED BY <1>1, <1>2, <2>1, Zenon DEF KeptServer, Quiet, InContainer
<1> QED BY <1>1, <1>2, <1>3, <1>4, ServerKeeps, Zenon

LEMMA SessionIsInvariant ==
  CountingRules => (Spec => []SessionInv)
<1> SUFFICES ASSUME CountingRules PROVE Spec => []SessionInv
  BY Zenon
<1>1. SessionInv /\ [Next]_vars => SessionInv'
  BY SessionStep, ServerStep, Stutters, Zenon DEF Next
<1> QED BY <1>1, InitSessionInv, PTL DEF Spec

----------------------------------------------------------------------------
(* Sets are counted. *)
INSTANCE FiniteSetTheorems

LEMMA MessagesAreCounted ==
  CountingRules
<1>1. IsFiniteSet(Messages)
  <2>1. 1 \in Int /\ MaxMessageId \in Int
    BY BoundsAssumption, SMTT(60)
  <2> QED BY <2>1, FS_Interval, Zenon DEF Messages
<1>2. \A S \in SUBSET Messages : IsFiniteSet(S) /\ Cardinality(S) \in Nat
  BY <1>1, FS_Subset, FS_CardinalityType, ZenonT(60)
<1>3. ASSUME NEW S \in SUBSET Messages, S # {} PROVE Cardinality(S) > 0
  <2>1. Cardinality(S) \in Nat /\ Cardinality(S) # 0
    BY <1>2, <1>3, FS_EmptySet, ZenonT(60)
  <2> QED BY <2>1, SMTT(60)
<1>4. \A S \in SUBSET Messages : \A m \in S : Cardinality(S \ {m}) = Cardinality(S) - 1
  BY <1>2, FS_RemoveElement, ZenonT(60)
<1>5. Cardinality({}) = 0
  BY FS_EmptySet, Zenon
<1> QED BY <1>2, <1>3, <1>4, <1>5, ZenonT(60) DEF CountingRules

LEMMA AtMostOneElement ==
  ASSUME NEW S, \A x, y \in S : x = y
  PROVE  Cardinality(S) <= 1
<1>1. CASE S = {}
  <2>1. Cardinality(S) = 0
    BY <1>1, FS_EmptySet, Zenon
  <2> QED BY <2>1, SMTT(60)
<1>2. CASE S # {}
  <2>0. PICK x \in S : TRUE
    BY <1>2, Zenon
  <2>1. S = {x}
    BY Zenon
  <2>2. Cardinality(S) = 1
    BY <2>1, FS_Singleton, Zenon
  <2> QED BY <2>2, SMTT(60)
<1> QED BY <1>1, <1>2, Zenon

\* A query handed to the session is pending, sent or returned, never two of these
\* and never under two messages, for any queries and scenarios and any number of
\* message identifiers and faults: no path of Session loses a NetQueryPtr.
THEOREM SessionLosesNoQuery == Spec => []NoQueryLost
<1>1. SessionInv => NoQueryLost
  <2> SUFFICES ASSUME SessionInv, NEW q \in given
               PROVE  /\ Cardinality({x \in DOMAIN [pending |-> q \in pending, sent |-> q \in SentQueries,
                                                    returned |-> returned[q] # "none"] :
                                      [pending |-> q \in pending, sent |-> q \in SentQueries,
                                       returned |-> returned[q] # "none"][x]}) = 1
                      /\ Cardinality({m \in DOMAIN sent : sent[m].query = q}) <= 1
    BY ZenonT(60) DEF NoQueryLost
  <2>1. /\ q \in pending \/ q \in SentQueries \/ returned[q] # "none"
        /\ q \in pending => q \notin SentQueries /\ returned[q] = "none"
        /\ q \in SentQueries => returned[q] = "none"
    BY Zenon DEF SessionInv, OnePlace, QueriesTypeOK
  <2>2. PICK f : f = [pending |-> q \in pending, sent |-> q \in SentQueries, returned |-> returned[q] # "none"]
    BY Zenon
  <2>3. /\ DOMAIN f = {"pending", "sent", "returned"}
        /\ f["pending"] <=> q \in pending
        /\ f["sent"] <=> q \in SentQueries
        /\ f["returned"] <=> returned[q] # "none"
    BY <2>2, ZenonT(60)
  <2>4. Cardinality({x \in DOMAIN f : f[x]}) = 1
    <3>1. CASE q \in pending
      <4>1. {x \in DOMAIN f : f[x]} = {"pending"}
        BY <2>1, <2>3, <3>1, ZenonT(60)
      <4> QED BY <4>1, FS_Singleton, ZenonT(60)
    <3>2. CASE q \in SentQueries
      <4>1. {x \in DOMAIN f : f[x]} = {"sent"}
        BY <2>1, <2>3, <3>2, ZenonT(60)
      <4> QED BY <4>1, FS_Singleton, ZenonT(60)
    <3>3. CASE returned[q] # "none"
      <4>1. {x \in DOMAIN f : f[x]} = {"returned"}
        BY <2>1, <2>3, <3>3, ZenonT(60)
      <4> QED BY <4>1, FS_Singleton, ZenonT(60)
    <3> QED BY <2>1, <3>1, <3>2, <3>3, ZenonT(60)
  <2>5. PICK S : S = {m \in DOMAIN sent : sent[m].query = q}
    BY ZenonT(60)
  <2>6. \A m, n \in S : m = n
    BY <2>5, ZenonT(60) DEF SessionInv, OnePlace
  <2>7. Cardinality(S) <= 1
    BY <2>6, AtMostOneElement, ZenonT(60)
  <2> QED BY <2>2, <2>4, <2>5, <2>7, ZenonT(60)
<1> QED BY <1>1, MessagesAreCounted, SessionIsInvariant, PTL

\* ref_cnt of every container is the number of its messages that are still in
\* sent_queries_, and never 0: no container outlives its queries.
THEOREM SessionCountsContainers == Spec => []ContainersCounted
<1>1. SessionInv => ContainersCounted
  BY ZenonT(60) DEF SessionInv, Counted, ContainersCounted
<1> QED BY <1>1, MessagesAreCounted, SessionIsInvariant, PTL

\* As long as the server keeps its session no query is executed twice, however
\* often connections are closed, packets are lost, late or refused, and queries
\* are sent again.
THEOREM SessionExecutesOnce == Spec => []AtMostOnce
<1>1. SessionInv => AtMostOnce
  <2> SUFFICES ASSUME SessionInv, serverResets = 0, NEW x \in executed, NEW y \in executed, x[2] = y[2]
               PROVE  x = y
    BY ZenonT(60) DEF AtMostOnce
  <2>1. x \in received \X All \X {0} /\ y \in received \X All \X {0}
    BY ZenonT(60) DEF SessionInv, ServerOK, KeptServer
  <2>2. PICK R : R = received
    BY Zenon
  <2>3. x \in R \X All \X {0} /\ y \in R \X All \X {0}
    BY <2>1, <2>2, ZenonT(60)
  <2>4. x[2] \in All
    BY <2>3, SMTT(60)
  <2>5. Live(x[1], x[2]) /\ Live(y[1], x[2])
    BY ZenonT(60) DEF Live, Done
  <2>6. x[1] \in Used /\ y[1] \in Used
    BY <2>5, LiveUsed, ZenonT(60)
  <2>7. x[1] = y[1]
    BY <2>4, <2>5, <2>6, ZenonT(60) DEF SessionInv, OneLive
  <2> QED BY <2>3, <2>7, SMTT(60)
<1> QED BY <1>1, MessagesAreCounted, SessionIsInvariant, PTL

=============================================================================
