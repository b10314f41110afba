------------------------- MODULE Connections_proofs -------------------------
(***************************************************************************)
(* Proofs about ConnectionCreator, for any sessions, any limit of checks   *)
(* and any plans, and about Client, for any data centers and any number of *)
(* runs, errors and submissions.                                           *)
(*                                                                         *)
(* A connection is handed out by the number its promise has in             *)
(* client.queries, so the invariant of ConnectionCreator has to say who    *)
(* may be there: sessions that wait, each once, and none whose message is  *)
(* still on its way.                                                       *)
(*                                                                         *)
(* The counters of ConnectionCreator are compared with the attempts        *)
(* counted one by one, so that each step adds or removes one of them.      *)
(*                                                                         *)
(* AuthManager takes an answer for one to the query it sent last.  The     *)
(* invariant of Client says why that is so: a login has one next step at a *)
(* time, be it a query, its answer, what the user submitted, a timeout or  *)
(* what the user was asked for, whatever messages of a lost authorization  *)
(* come between.                                                           *)
(***************************************************************************)
EXTENDS ConnectionCreator, Client, SequenceTheorems, FiniteSetTheorems,
        WellFoundedInduction, TLAPS

----------------------------------------------------------------------------
(* ConnectionCreator. *)

ConnStates == {"empty", "connecting", "offered", "ready", "gone"}

\* The sessions of q wait in the states s, each in one place, and their
\* messages are not among those of m.
Waiting(q, m, s) ==
  /\ q \in Seq(Requesters)
  /\ \A i, j \in 1..Len(q) : q[i] = q[j] => i = j
  /\ \A i \in 1..Len(q) : q[i] \notin m /\ s[q[i]] \in {"connecting", "gone"}

SessionsTypeOK ==
  /\ requests \subseteq Requesters
  /\ connState \in [Requesters -> ConnStates] /\ DOMAIN connGen = Requesters
  /\ sessionGen \in [Requesters -> Nat]
  /\ stateGen \in Nat

RequestsWait == \A r \in requests : connState[r] \in {"connecting", "gone"}

IInv ==
  SessionsTypeOK /\ RequestsWait /\ Waiting(queries, requests, connState) /\ UsedIsCurrent

\* The hand-out of client_loop ends at a place of the queue.
LEMMA ConsumedInQueue ==
  ASSUME NEW q \in Seq(Requesters), NEW c
  PROVE  Consumed(q, c) \in 0..Len(q)
<1> DEFINE Enough == {n \in 0..Len(q) : Served(q, n) = Len(c)}
<1>1. CASE Enough = {}
  BY <1>1, SMTT(60) DEF Consumed
<1>2. CASE Enough # {}
  <2>1. Enough \subseteq Nat
    BY SMTT(60)
  <2>2. \E n \in Enough : \A m \in Enough : ~(<<m, n>> \in OpToRel(<, Nat))
    <3> HIDE DEF Enough
    <3> QED BY <1>2, <2>1, NatLessThanWellFounded, WFMin, ZenonT(60)
  <2>3. \E n \in Enough : \A m \in Enough : n <= m
    <3>1. \A m, n \in Nat : m < n => <<m, n>> \in OpToRel(<, Nat)
      BY Zenon DEF OpToRel
    <3>2. \A m, n \in Nat : ~(m < n) => n <= m
      BY SMTT(60)
    <3> HIDE DEF Enough
    <3>3. PICK n \in Enough : \A m \in Enough : ~(<<m, n>> \in OpToRel(<, Nat))
      BY <2>2, Zenon
    <3>4. \A m \in Enough : n <= m
      BY <2>1, <3>1, <3>2, <3>3, ZenonT(60)
    <3> QED BY <3>4, Zenon
  <2>4. Consumed(q, c) \in Enough
    BY <1>2, <2>3, Zenon DEF Consumed
  <2> QED BY <2>4, Zenon
<1> QED BY <1>1, <1>2, Zenon

\* A hand-out leaves a queue of waiting sessions, gives connections to none but
\* the sessions it takes out of the queue, and changes no other.
LEMMA HandOutKeeps ==
  ASSUME IInv, NEW q, NEW c, NEW m, Waiting(q, m, connState), HandOut(q, c)
  PROVE  /\ connState' \in [Requesters -> ConnStates] /\ DOMAIN connGen' = Requesters
         /\ \A r \in Requesters :
              \/ connState'[r] = "offered"
              \/ connState'[r] = connState[r] /\ connGen'[r] = connGen[r]
         /\ \A r \in m \cap Requesters : connState'[r] = connState[r]
         /\ Waiting(queries', m, connState')
<1> DEFINE n == Consumed(q, c)
           Places(r) == {i \in 1..n : q[i] = r /\ ~Canceled(r)}
<1>1. q \in Seq(Requesters) /\ Len(q) \in Nat
  BY SMTT(60) DEF Waiting
<1>2. n \in 0..Len(q)
  BY <1>1, ConsumedInQueue, Zenon
<1>3. /\ queries' = SubSeq(q, n + 1, Len(q))
      /\ connState' = [r \in Requesters |-> IF Places(r) # {} THEN "offered" ELSE connState[r]]
      /\ \A r \in Requesters : Places(r) = {} => connGen'[r] = connGen[r]
      /\ DOMAIN connGen' = Requesters
  BY Zenon DEF HandOut
<1> HIDE DEF n
<1>4. connState' \in [Requesters -> ConnStates] /\ DOMAIN connGen' = Requesters
  BY <1>3, Zenon DEF IInv, SessionsTypeOK, ConnStates
<1>5. \A r \in Requesters :
        \/ connState'[r] = "offered"
        \/ connState'[r] = connState[r] /\ connGen'[r] = connGen[r]
  BY <1>3, Zenon
<1>6. \A r \in m \cap Requesters : connState'[r] = connState[r]
  <2> SUFFICES ASSUME NEW r \in m \cap Requesters PROVE Places(r) = {}
    BY <1>3, Zenon
  <2> QED BY <1>1, <1>2, SMTT(60) DEF Waiting
<1>7. /\ queries' \in Seq(Requesters)
      /\ Len(queries') = Len(q) - n
      /\ \A i \in 1..Len(queries') : queries'[i] = q[n + i]
  <2>1. \A i \in (n + 1)..Len(q) : q[i] \in Requesters
    BY <1>1, <1>2, SMTT(60)
  <2>2. /\ SubSeq(q, n + 1, Len(q)) \in Seq(Requesters)
        /\ Len(SubSeq(q, n + 1, Len(q))) =
             IF n + 1 <= Len(q) THEN Len(q) - (n + 1) + 1 ELSE 0
        /\ \A i \in 1..(Len(q) - (n + 1) + 1) :
             SubSeq(q, n + 1, Len(q))[i] = q[(n + 1) + i - 1]
    BY <1>1, <1>2, <2>1, SubSeqProperties, SMTT(60)
  <2> QED BY <1>1, <1>2, <1>3, <2>2, SMTT(60)
<1>8. \A i \in 1..Len(queries') : n + i \in 1..Len(q) /\ Places(q[n + i]) = {}
  <2> SUFFICES ASSUME NEW i \in 1..Len(queries')
               PROVE  n + i \in 1..Len(q) /\ Places(q[n + i]) = {}
    BY Zenon
  <2>1. n + i \in 1..Len(q) /\ \A j \in 1..n : j \in 1..Len(q) /\ j # n + i
    BY <1>1, <1>2, <1>7, SMTT(60)
  <2>2. \A j \in 1..n : q[j] # q[n + i]
    BY <2>1, Zenon DEF Waiting
  <2> QED BY <2>1, <2>2, Zenon
<1>9. Waiting(queries', m, connState')
  <2>1. \A i \in 1..Len(queries') :
          /\ queries'[i] \notin m
          /\ connState'[queries'[i]] \in {"connecting", "gone"}
    <3> SUFFICES ASSUME NEW i \in 1..Len(queries')
                 PROVE  /\ q[n + i] \notin m
                        /\ connState'[q[n + i]] \in {"connecting", "gone"}
      BY <1>7, Zenon
    <3>1. q[n + i] \in Requesters /\ Places(q[n + i]) = {}
      BY <1>1, <1>8, SMTT(60)
    <3>2. connState'[q[n + i]] = connState[q[n + i]]
      BY <1>3, <3>1, Zenon
    <3> QED BY <1>8, <3>2, Zenon DEF Waiting
  <2>2. \A i, j \in 1..Len(queries') : queries'[i] = queries'[j] => i = j
    <3> SUFFICES ASSUME NEW i \in 1..Len(queries'), NEW j \in 1..Len(queries'), q[n + i] = q[n + j]
                 PROVE  i = j
      BY <1>7, Zenon
    <3>1. n + i = n + j
      BY <1>8, Zenon DEF Waiting
    <3> QED BY <1>1, <1>2, <1>7, <3>1, SMTT(60)
  <2> QED BY <1>7, <2>1, <2>2, Zenon DEF Waiting
<1> QED BY <1>4, <1>5, <1>6, <1>9, ZenonT(60)

\* A handler that ends in client_loop and leaves the sessions to it keeps the
\* invariant, if the queue it enters the loop with is one of waiting sessions.
LEMMA ClientLoopKeeps ==
  ASSUME IInv, NEW gen, NEW q, NEW c, NEW p, NEW k, NEW a,
         requests' \subseteq requests, UNCHANGED <<sessionGen, stateGen>>,
         Waiting(q, requests', connState),
         ClientLoop(gen, q, c, p, k, a)
  PROVE  IInv'
<1>1. CASE gen = 0
  BY <1>1, Zenon DEF ClientLoop, IInv, SessionsTypeOK, RequestsWait, Waiting, UsedIsCurrent
<1>2. CASE gen # 0
  <2>1. PICK d : HandOut(q, d)
    BY <1>2, Zenon DEF ClientLoop
  <2>2. /\ connState' \in [Requesters -> ConnStates] /\ DOMAIN connGen' = Requesters
        /\ \A r \in Requesters :
             \/ connState'[r] = "offered"
             \/ connState'[r] = connState[r] /\ connGen'[r] = connGen[r]
        /\ \A r \in requests' \cap Requesters : connState'[r] = connState[r]
        /\ Waiting(queries', requests', connState')
    BY <2>1, HandOutKeeps, Zenon
  <2>3. SessionsTypeOK' /\ RequestsWait'
    BY <2>2, Zenon DEF IInv, SessionsTypeOK, RequestsWait
  <2>4. UsedIsCurrent'
    BY <2>2, Zenon DEF IInv, UsedIsCurrent
  <2> QED BY <2>2, <2>3, <2>4, Zenon DEF IInv
<1> QED BY <1>1, <1>2, Zenon

\* A step that takes the session r to the state t and leaves the queue and the
\* other sessions alone keeps the invariant: unless r waits still, it did not
\* wait before, and its message goes out when it starts to.
LEMMA OneSessionKeeps ==
  ASSUME IInv, NEW r \in Requesters, NEW t \in ConnStates,
         queries' = queries, stateGen' = stateGen, sessionGen' \in [Requesters -> Nat],
         connState' = [connState EXCEPT ![r] = t], DOMAIN connGen' = Requesters,
         \A o \in Requesters \ {r} : connGen'[o] = connGen[o] /\ sessionGen'[o] = sessionGen[o],
         t = "ready" => connGen'[r] = sessionGen'[r],
         connState[r] \in {"connecting", "gone"} => t \in {"connecting", "gone"},
         \/ requests' = requests
         \/ requests' = requests \cup {r} /\ connState[r] = "empty" /\ t = "connecting"
  PROVE  IInv'
<1>1. /\ requests \subseteq Requesters /\ connState \in [Requesters -> ConnStates]
      /\ stateGen \in Nat /\ RequestsWait /\ UsedIsCurrent
      /\ queries \in Seq(Requesters)
      /\ \A i, j \in 1..Len(queries) : queries[i] = queries[j] => i = j
      /\ \A i \in 1..Len(queries) :
           queries[i] \notin requests /\ connState[queries[i]] \in {"connecting", "gone"}
  BY Zenon DEF IInv, SessionsTypeOK, Waiting
<1>2. /\ connState'[r] = t /\ \A o \in Requesters \ {r} : connState'[o] = connState[o]
      /\ connState' \in [Requesters -> ConnStates]
  BY <1>1, Zenon
<1>3. SessionsTypeOK'
  BY <1>1, <1>2, Zenon DEF SessionsTypeOK
<1>4. \A o \in Requesters : connState[o] \in {"connecting", "gone"} => connState'[o] \in {"connecting", "gone"}
  BY <1>2, Zenon
<1>5. RequestsWait'
  <2> SUFFICES ASSUME NEW o \in requests' PROVE connState'[o] \in {"connecting", "gone"}
    BY Zenon DEF RequestsWait
  <2>1. CASE o \in requests
    BY <1>1, <1>4, <2>1, Zenon DEF RequestsWait
  <2>2. CASE o \notin requests
    BY <1>2, <2>2, Zenon
  <2> QED BY <2>1, <2>2, Zenon
<1>6. UsedIsCurrent'
  BY <1>1, <1>2, Zenon DEF UsedIsCurrent
<1>7. \A i \in 1..Len(queries) : queries[i] \in Requesters
  BY <1>1, ElementOfSeq, Zenon
<1>8. \A i \in 1..Len(queries) : queries[i] \notin requests'
  <2>1. "empty" # "connecting" /\ "empty" # "gone"
    OBVIOUS
  <2> QED BY <1>1, <2>1, Zenon
<1>9. \A i \in 1..Len(queries) : connState'[queries[i]] \in {"connecting", "gone"}
  BY <1>1, <1>4, <1>7, Zenon
<1>10. Waiting(queries, requests, connState)'
  BY <1>1, <1>8, <1>9, Zenon DEF Waiting
<1> QED BY <1>3, <1>5, <1>6, <1>10, Zenon DEF IInv

\* No session asks or waits at first.
LEMMA InitIInv == ConnectionInit => IInv
BY SMTT(60) DEF ConnectionInit, IInv, SessionsTypeOK, RequestsWait, Waiting, UsedIsCurrent, ConnStates

\* Every step keeps the invariant.
LEMMA NextIInv == IInv /\ [ConnectionNext]_connectionVars => IInv'
<1> SUFFICES ASSUME IInv, [ConnectionNext]_connectionVars PROVE IInv'
  BY Zenon
<1> USE DEF IInv
<1>0. ASSUME UNCHANGED <<queries, sessionConnVars>>, stateGen' \in Nat PROVE IInv'
  BY <1>0, Zenon DEF sessionConnVars, SessionsTypeOK, RequestsWait, Waiting, UsedIsCurrent
<1> HIDE DEF IInv
<1>1. Waiting(queries, requests, connState) /\ stateGen \in Nat
  BY Zenon DEF IInv, SessionsTypeOK
<1>2. CASE AttemptStep
  <2> PICK x \in UnderWay : ClientCreateRawConnection(x) \/ PingEnds(x) \/ ClientAddConnection(x)
    BY <1>2, Zenon DEF AttemptStep
  <2>1. CASE ClientCreateRawConnection(x) \/ PingEnds(x)
    BY <1>0, <1>1, <2>1, Zenon DEF ClientCreateRawConnection, PingEnds
  <2>2. CASE ClientAddConnection(x)
    BY <1>1, <2>2, ClientLoopKeeps, Zenon DEF ClientAddConnection
  <2> QED BY <2>1, <2>2, Zenon
<1>3. CASE SlotTimeout \/ ReadyExpires \/ StateOnNetwork
  BY <1>0, <1>1, <1>3, SMTT(60) DEF SlotTimeout, ReadyExpires, StateOnNetwork, clientVars, creatorVars
<1>4. CASE ClientWakeup \/ CreatorOnOnline
  BY <1>1, <1>4, ClientLoopKeeps, Zenon DEF ClientWakeup, CreatorOnOnline
<1>5. CASE CreatorOnNetwork
  <2> PICK g : ClientLoop(g, queries, readyConns, pending, checking, attempts)
    BY <1>5, Zenon DEF CreatorOnNetwork
  <2> QED BY <1>1, <1>5, ClientLoopKeeps, Zenon DEF CreatorOnNetwork
<1>6. ASSUME NEW r \in Requesters, RequestRawConnection(r) PROVE IInv'
  <2> DEFINE q == Append(queries, r)
  <2>1. Waiting(q, requests \ {r}, connState)
    BY <1>6, AppendProperties, SMTT(60) DEF RequestRawConnection, IInv, SessionsTypeOK, RequestsWait, Waiting
  <2> HIDE DEF q
  <2>2. requests' = requests \ {r}
    BY <1>6, Zenon DEF RequestRawConnection
  <2>3. ClientLoop(creatorGen, q, readyConns, pending, checking, attempts)
    BY <1>6, Zenon DEF RequestRawConnection, q
  <2> QED BY <1>6, <2>1, <2>2, <2>3, ClientLoopKeeps, Zenon DEF RequestRawConnection
<1>t. /\ \A r \in Requesters : connState[r] \in ConnStates
      /\ DOMAIN connGen = Requesters /\ sessionGen \in [Requesters -> Nat] /\ UsedIsCurrent
      /\ \A t \in ConnStates : t \in {"connecting", "gone"} <=> t \notin {"empty", "offered", "ready"}
  <2>1. \A t \in ConnStates : t \in {"connecting", "gone"} <=> t \notin {"empty", "offered", "ready"}
    BY DEF ConnStates
  <2> QED BY <2>1, Zenon DEF IInv, SessionsTypeOK
<1>7. ASSUME NEW r \in Requesters, ConnectionOpen(r) PROVE IInv'
  <2>1. /\ queries' = queries /\ sessionGen' = sessionGen /\ stateGen' = stateGen
        /\ connState[r] = "empty" /\ connState[r] \notin {"connecting", "gone"}
    BY <1>7 DEF ConnectionOpen, creatorVars, clientVars
  <2>2. CASE cached[r] # 0
    <3>1. /\ connState' = [connState EXCEPT ![r] = "offered"] /\ requests' = requests
          /\ connGen' = [connGen EXCEPT ![r] = cached[r]]
      BY <1>7, <2>2, Zenon DEF ConnectionOpen
    <3>2. DOMAIN connGen' = Requesters /\ \A o \in Requesters \ {r} : connGen'[o] = connGen[o]
      BY <1>t, <3>1, Zenon
    <3>3. "offered" \in ConnStates /\ "offered" # "ready"
      BY DEF ConnStates
    <3> QED BY <1>t, <2>1, <3>1, <3>2, <3>3, OneSessionKeeps, Zenon
  <2>3. CASE cached[r] = 0
    <3>1. /\ connState' = [connState EXCEPT ![r] = "connecting"] /\ requests' = requests \cup {r}
          /\ connGen' = connGen
      BY <1>7, <2>3, Zenon DEF ConnectionOpen
    <3>2. "connecting" \in ConnStates /\ "connecting" # "ready"
      BY DEF ConnStates
    <3> QED BY <1>t, <2>1, <3>1, <3>2, OneSessionKeeps, Zenon
  <2> QED BY <2>2, <2>3, Zenon
<1>8. ASSUME NEW r \in Requesters, ConnectionOpenFinish(r) PROVE IInv'
  <2> DEFINE t == IF connGen[r] = sessionGen[r] THEN "ready" ELSE "empty"
  <2>1. /\ queries' = queries /\ sessionGen' = sessionGen /\ stateGen' = stateGen
        /\ connState[r] = "offered" /\ connState[r] \notin {"connecting", "gone"}
        /\ connGen' = connGen /\ requests' = requests
    BY <1>8 DEF ConnectionOpenFinish, creatorVars, clientVars
  <2>2. connState' = [connState EXCEPT ![r] = t]
    BY <1>8, Zenon DEF ConnectionOpenFinish
  <2>3. t \in ConnStates /\ (t = "ready" => connGen[r] = sessionGen[r])
    BY DEF ConnStates
  <2> HIDE DEF t
  <2> QED BY <1>t, <2>1, <2>2, <2>3, OneSessionKeeps, Zenon
<1>9. ASSUME NEW r \in Requesters, SessionOnNetwork(r) PROVE IInv'
  <2> DEFINE t == IF connState[r] = "ready" THEN "empty" ELSE connState[r]
  <2>1. /\ queries' = queries /\ stateGen' = stateGen /\ connGen' = connGen /\ requests' = requests
    BY <1>9 DEF SessionOnNetwork, creatorVars, clientVars
  <2>2. connState' = [connState EXCEPT ![r] = t]
    BY <1>9, <1>t, Zenon DEF SessionOnNetwork, IInv, SessionsTypeOK
  <2>3. /\ t \in ConnStates /\ t # "ready"
        /\ connState[r] \in {"connecting", "gone"} => t \in {"connecting", "gone"}
    BY <1>t DEF ConnStates
  <2>4. PICK g \in (sessionGen[r] + 1)..stateGen : sessionGen' = [sessionGen EXCEPT ![r] = g]
    BY <1>9, Zenon DEF SessionOnNetwork
  <2>5. g \in Nat
    <3>1. sessionGen[r] \in Nat
      BY <1>t, Zenon
    <3> QED BY <1>1, <3>1, SMTT(60)
  <2>6. sessionGen' \in [Requesters -> Nat] /\ \A o \in Requesters \ {r} : sessionGen'[o] = sessionGen[o]
    BY <1>t, <2>4, <2>5, Zenon
  <2> HIDE DEF t
  <2> QED BY <1>t, <2>1, <2>2, <2>3, <2>6, OneSessionKeeps, Zenon
<1>10. ASSUME NEW r \in Requesters, ConnectionLost(r) PROVE IInv'
  <2>1. /\ queries' = queries /\ sessionGen' = sessionGen /\ stateGen' = stateGen
        /\ connState[r] = "ready" /\ connState[r] \notin {"connecting", "gone"}
        /\ connGen' = connGen /\ requests' = requests
    BY <1>10 DEF ConnectionLost, creatorVars, clientVars
  <2>2. connState' = [connState EXCEPT ![r] = "empty"]
    BY <1>10, Zenon DEF ConnectionLost
  <2>3. "empty" \in ConnStates /\ "empty" # "ready"
    BY DEF ConnStates
  <2> QED BY <1>t, <2>1, <2>2, <2>3, OneSessionKeeps, Zenon
<1>11. ASSUME NEW r \in Requesters, SessionEnds(r) PROVE IInv'
  <2>1. /\ queries' = queries /\ sessionGen' = sessionGen /\ stateGen' = stateGen
        /\ connGen' = connGen /\ requests' = requests
    BY <1>11 DEF SessionEnds, creatorVars, clientVars
  <2>2. connState' = [connState EXCEPT ![r] = "gone"]
    BY <1>11, Zenon DEF SessionEnds
  <2>3. "gone" \in ConnStates /\ "gone" # "ready"
    BY DEF ConnStates
  <2> QED BY <1>t, <2>1, <2>2, <2>3, OneSessionKeeps, Zenon
<1>12. ASSUME NEW r \in Requesters, ConnectionAdd(r) \/ CachedExpires(r) PROVE IInv'
  <2>1. /\ queries' = queries /\ requests' = requests /\ connState' = connState
        /\ connGen' = connGen /\ sessionGen' = sessionGen /\ stateGen' = stateGen
    BY <1>12, SMTT(60) DEF ConnectionAdd, CachedExpires, creatorVars, clientVars
  <2> QED BY <2>1, Zenon DEF IInv, SessionsTypeOK, RequestsWait, Waiting, UsedIsCurrent
<1>13. CASE UNCHANGED connectionVars
  BY <1>0, <1>1, <1>13, Zenon DEF connectionVars, clientVars
<1> QED BY <1>2, <1>3, <1>4, <1>5, <1>6, <1>7, <1>8, <1>9, <1>10, <1>11, <1>12, <1>13, Zenon
    DEF ConnectionNext, TimerStep, SessionStep

\* The generation client_loop opens a connection under and the one the session
\* compares it with in connection_open_finish (Session.cpp) agree for every
\* connection in use, in whatever order creator and session hear of the network.
THEOREM UsedIsCurrentAlways == ConnectionSpec => []UsedIsCurrent
<1>1. IInv => UsedIsCurrent
  BY Zenon DEF IInv
<1> QED BY InitIInv, NextIInv, <1>1, PTL DEF ConnectionSpec

----------------------------------------------------------------------------
\* The counters of client_loop and client_add_connection.

Checked == {x \in AttemptKinds : x.check}

\* p connections are being made and k of them checked, as the bag a has them.
CountedBy(p, k, a) ==
  /\ a \in [AttemptKinds -> Nat]
  /\ IsFiniteSet(OneByOne(a, AttemptKinds)) /\ p = Cardinality(OneByOne(a, AttemptKinds))
  /\ IsFiniteSet(OneByOne(a, Checked)) /\ k = Cardinality(OneByOne(a, Checked))

\* The generations are those of the plan.
GenerationsTypeOK ==
  /\ limits \in [sessions : SUBSET Requesters, generations : Nat \ {0}, checks : BOOLEAN,
                 online : Nat, faults : Nat, losses : Nat, handshakes : Nat]
  /\ 1..limits.generations \subseteq Generations
  /\ stateGen \in 1..limits.generations /\ creatorGen \in 0..stateGen

CountInv ==
  /\ GenerationsTypeOK /\ CountedBy(pending, checking, attempts) /\ checking <= MaxChecking

\* Each connection of a kind has a number.
LEMMA InOneByOne ==
  ASSUME NEW a, NEW S
  PROVE  \A z : z \in OneByOne(a, S) <=> \E x \in S : \E i \in 1..a[x] : z = <<x, i>>
BY SMTT(60) DEF OneByOne

\* d more of one kind.
LEMMA MoreOfOne ==
  ASSUME NEW S, NEW x \in S, NEW a, NEW b, NEW d \in Nat, a[x] \in Nat, b[x] = a[x] + d,
         \A y \in S : y # x => b[y] = a[y], IsFiniteSet(OneByOne(a, S))
  PROVE  /\ IsFiniteSet(OneByOne(b, S))
         /\ Cardinality(OneByOne(b, S)) = Cardinality(OneByOne(a, S)) + d
<1> DEFINE l == a[x] + 1
           u == a[x] + d
           M == l..u
           N == {x} \X M
<1>1. l \in Int /\ u \in Int /\ (IF l > u THEN 0 ELSE u - l + 1) = d
  BY SMTT(60)
<1>2. \A i : i \in 1..b[x] <=> i \in 1..a[x] \/ i \in M
  BY SMTT(60)
<1>3. \A i : ~(i \in 1..a[x] /\ i \in M)
  BY SMTT(60)
<1>4. \A z : z \in N <=> \E i \in M : z = <<x, i>>
  BY SMTT(60)
<1> HIDE DEF l, u
<1>5. IsFiniteSet(M) /\ Cardinality(M) = d
  <2>1. IsFiniteSet(l..u) /\ Cardinality(l..u) = IF l > u THEN 0 ELSE u - l + 1
    BY <1>1, FS_Interval, Zenon
  <2> QED BY <1>1, <2>1, Zenon
<1> HIDE DEF M
<1>6. IsFiniteSet(N) /\ Cardinality(N) = d
  <2>1. IsFiniteSet({x}) /\ Cardinality({x}) = 1
    BY FS_Singleton, Zenon
  <2>2. IsFiniteSet({x} \X M) /\ Cardinality({x} \X M) = Cardinality({x}) * Cardinality(M)
    BY <1>5, <2>1, FS_Product, Zenon
  <2>3. 1 * d = d
    BY SMTT(60)
  <2> QED BY <1>5, <2>1, <2>2, <2>3, Zenon
<1> HIDE DEF N
<1> DEFINE A == OneByOne(a, S)
           B == OneByOne(b, S)
<1>7. /\ \A z : z \in A <=> \E y \in S : \E i \in 1..a[y] : z = <<y, i>>
      /\ \A z : z \in B <=> \E y \in S : \E i \in 1..b[y] : z = <<y, i>>
  BY InOneByOne, SMTT(60)
<1>8. IsFiniteSet(A)
  OBVIOUS
<1> HIDE DEF A, B
<1>9. B = A \cup N
  <2>1. ASSUME NEW z \in B PROVE z \in A \cup N
    <3>1. PICK y \in S : \E i \in 1..b[y] : z = <<y, i>>
      BY <1>7, Zenon
    <3>2. CASE y = x
      BY <1>2, <1>4, <1>7, <3>1, <3>2, Zenon
    <3>3. CASE y # x
      BY <1>7, <3>1, <3>3, Zenon
    <3> QED BY <3>2, <3>3, Zenon
  <2>2. ASSUME NEW z \in A PROVE z \in B
    <3>1. PICK y \in S : \E i \in 1..a[y] : z = <<y, i>>
      BY <1>7, <2>2, Zenon
    <3>2. CASE y = x
      BY <1>2, <1>7, <3>1, <3>2, Zenon
    <3>3. CASE y # x
      BY <1>7, <3>1, <3>3, Zenon
    <3> QED BY <3>2, <3>3, Zenon
  <2>3. ASSUME NEW z \in N PROVE z \in B
    BY <1>2, <1>4, <1>7, <2>3, Zenon
  <2> QED BY <2>1, <2>2, <2>3, Zenon
<1>10. A \cap N = {}
  <2> SUFFICES ASSUME NEW z \in A, z \in N PROVE FALSE
    BY Zenon
  <2>1. PICK i \in M : z = <<x, i>>
    BY <1>4, Zenon
  <2>0. PICK y \in S : \E j \in 1..a[y] : z = <<y, j>>
    BY <1>7, Zenon
  <2>2. PICK j \in 1..a[y] : z = <<y, j>>
    BY <2>0, Zenon
  <2>3. x = y /\ i = j
    BY <2>1, <2>2, SMTT(60)
  <2> QED BY <1>3, <2>1, <2>2, <2>3, Zenon
<1>11. IsFiniteSet(A \cup N) /\ Cardinality(A \cup N) = Cardinality(A) + Cardinality(N) - Cardinality(A \cap N)
  BY <1>6, <1>8, FS_Union, Zenon
<1>12. Cardinality(A) \in Nat /\ Cardinality(A \cap N) = 0
  BY <1>8, <1>10, FS_CardinalityType, FS_EmptySet, Zenon
<1>13. IsFiniteSet(B) /\ Cardinality(B) = Cardinality(A) + d
  <2>1. Cardinality(A) + d - 0 = Cardinality(A) + d
    BY <1>12, SMTT(60)
  <2> QED BY <1>6, <1>9, <1>11, <1>12, <2>1, Zenon
<1> QED BY <1>13, Zenon DEF A, B

\* One less of one kind.
LEMMA OneLess ==
  ASSUME NEW S, NEW x \in S, NEW a, NEW b, a[x] \in Nat, b[x] \in Nat, a[x] = b[x] + 1,
         \A y \in S : y # x => b[y] = a[y], IsFiniteSet(OneByOne(a, S))
  PROVE  /\ IsFiniteSet(OneByOne(b, S))
         /\ Cardinality(OneByOne(b, S)) = Cardinality(OneByOne(a, S)) - 1
         /\ Cardinality(OneByOne(b, S)) \in Nat
<1>1. \A y \in S : \A i \in 1..b[y] : i \in 1..a[y]
  <2>1. \A i \in 1..b[x] : i \in 1..a[x]
    BY SMTT(60)
  <2> QED BY <2>1, Zenon
<1>2. OneByOne(b, S) \in SUBSET OneByOne(a, S)
  <2> SUFFICES ASSUME NEW z \in OneByOne(b, S) PROVE z \in OneByOne(a, S)
    BY Zenon
  <2>1. PICK y \in S : \E i \in 1..b[y] : z = <<y, i>>
    BY InOneByOne, SMTT(60)
  <2> QED BY <1>1, <2>1, InOneByOne, Zenon
<1>3. IsFiniteSet(OneByOne(b, S)) /\ Cardinality(OneByOne(b, S)) \in Nat
  BY <1>2, FS_Subset, FS_CardinalityType, Zenon
<1>4. Cardinality(OneByOne(a, S)) = Cardinality(OneByOne(b, S)) + 1
  <2>1. \A y \in S : y # x => a[y] = b[y]
    BY Zenon
  <2>2. 1 \in Nat
    BY SMTT(60)
  <2> QED BY <1>3, <2>1, <2>2, MoreOfOne, ZenonT(60)
<1> QED BY <1>3, <1>4, SMTT(60)

\* None of the kinds counted.
LEMMA NoneOfThem ==
  ASSUME NEW S, NEW a, NEW b, \A y \in S : b[y] = a[y]
  PROVE  OneByOne(b, S) = OneByOne(a, S)
<1>1. \A z : z \in OneByOne(b, S) <=> z \in OneByOne(a, S)
  <2>1. \A z : z \in OneByOne(a, S) <=> \E x \in S : \E i \in 1..a[x] : z = <<x, i>>
    BY InOneByOne, SMTT(60)
  <2>2. \A z : z \in OneByOne(b, S) <=> \E x \in S : \E i \in 1..b[x] : z = <<x, i>>
    BY InOneByOne, SMTT(60)
  <2> QED BY <2>1, <2>2, Zenon
<1> QED BY <1>1, Zenon

\* d connections of the kind x are opened.
LEMMA CountUp ==
  ASSUME NEW p, NEW k, NEW a, CountedBy(p, k, a), NEW x \in AttemptKinds, NEW d \in Nat
  PROVE  CountedBy(p + d, IF x.check THEN k + d ELSE k, [a EXCEPT ![x] = @ + d])
<1> DEFINE b == [a EXCEPT ![x] = @ + d]
<1>1. a \in [AttemptKinds -> Nat] /\ a[x] \in Nat /\ b \in [AttemptKinds -> Nat]
  BY SMTT(60) DEF CountedBy
<1>2. b[x] = a[x] + d /\ \A y \in AttemptKinds : y # x => b[y] = a[y]
  BY <1>1, Zenon
<1> HIDE DEF b
<1>3. IsFiniteSet(OneByOne(b, AttemptKinds)) /\ p + d = Cardinality(OneByOne(b, AttemptKinds))
  <2>1. IsFiniteSet(OneByOne(a, AttemptKinds)) /\ p = Cardinality(OneByOne(a, AttemptKinds))
    BY Zenon DEF CountedBy
  <2>2. /\ IsFiniteSet(OneByOne(b, AttemptKinds))
        /\ Cardinality(OneByOne(b, AttemptKinds)) = Cardinality(OneByOne(a, AttemptKinds)) + d
    BY <1>1, <1>2, <2>1, MoreOfOne, SMTT(60)
  <2> QED BY <2>1, <2>2, Zenon
<1>4. \A y \in Checked : y \in AttemptKinds
  BY Zenon DEF Checked
<1>5. CASE x.check
  <2>1. x \in Checked
    BY <1>5, Zenon DEF Checked
  <2>2. IsFiniteSet(OneByOne(b, Checked)) /\ k + d = Cardinality(OneByOne(b, Checked))
    <3>1. IsFiniteSet(OneByOne(a, Checked)) /\ k = Cardinality(OneByOne(a, Checked))
      BY Zenon DEF CountedBy
    <3>2. /\ IsFiniteSet(OneByOne(b, Checked))
          /\ Cardinality(OneByOne(b, Checked)) = Cardinality(OneByOne(a, Checked)) + d
      BY <1>1, <1>2, <1>4, <2>1, <3>1, MoreOfOne, SMTT(60)
    <3> QED BY <3>1, <3>2, Zenon
  <2> QED BY <1>1, <1>3, <1>5, <2>2, Zenon DEF CountedBy, b
<1>6. CASE ~x.check
  <2>1. \A y \in Checked : b[y] = a[y]
    BY <1>2, <1>4, <1>6, Zenon DEF Checked
  <2>2. OneByOne(b, Checked) = OneByOne(a, Checked)
    BY <2>1, NoneOfThem, Zenon
  <2> QED BY <1>1, <1>3, <1>6, <2>2, Zenon DEF CountedBy, b
<1> QED BY <1>5, <1>6, Zenon

\* A connection of the kind x is one no more.
LEMMA CountDown ==
  ASSUME NEW p, NEW k, NEW a, CountedBy(p, k, a), NEW x \in AttemptKinds, a[x] > 0
  PROVE  /\ CountedBy(p - 1, IF x.check THEN k - 1 ELSE k, [a EXCEPT ![x] = @ - 1])
         /\ p \in Nat /\ k \in Nat /\ p - 1 \in Nat /\ (x.check => k - 1 \in Nat)
<1> DEFINE b == [a EXCEPT ![x] = @ - 1]
<1>1. a \in [AttemptKinds -> Nat] /\ a[x] \in Nat /\ b \in [AttemptKinds -> Nat] /\ a[x] = (a[x] - 1) + 1
  BY SMTT(60) DEF CountedBy
<1>2. b[x] = a[x] - 1 /\ b[x] \in Nat /\ \A y \in AttemptKinds : y # x => b[y] = a[y]
  BY <1>1, Zenon
<1> HIDE DEF b
<1>3. /\ IsFiniteSet(OneByOne(b, AttemptKinds)) /\ p - 1 = Cardinality(OneByOne(b, AttemptKinds))
      /\ Cardinality(OneByOne(b, AttemptKinds)) \in Nat
  <2>1. IsFiniteSet(OneByOne(a, AttemptKinds)) /\ p = Cardinality(OneByOne(a, AttemptKinds))
    BY Zenon DEF CountedBy
  <2>2. /\ IsFiniteSet(OneByOne(b, AttemptKinds))
        /\ Cardinality(OneByOne(b, AttemptKinds)) = Cardinality(OneByOne(a, AttemptKinds)) - 1
        /\ Cardinality(OneByOne(b, AttemptKinds)) \in Nat
    BY <1>1, <1>2, <2>1, OneLess, SMTT(60)
  <2> QED BY <2>1, <2>2, Zenon
<1>4. \A y \in Checked : y \in AttemptKinds
  BY Zenon DEF Checked
<1>5. p \in Nat /\ k \in Nat
  BY FS_CardinalityType, Zenon DEF CountedBy
<1>6. CASE x.check
  <2>1. x \in Checked
    BY <1>6, Zenon DEF Checked
  <2>2. /\ IsFiniteSet(OneByOne(b, Checked)) /\ k - 1 = Cardinality(OneByOne(b, Checked))
        /\ Cardinality(OneByOne(b, Checked)) \in Nat
    <3>1. IsFiniteSet(OneByOne(a, Checked)) /\ k = Cardinality(OneByOne(a, Checked))
      BY Zenon DEF CountedBy
    <3>2. /\ IsFiniteSet(OneByOne(b, Checked))
          /\ Cardinality(OneByOne(b, Checked)) = Cardinality(OneByOne(a, Checked)) - 1
          /\ Cardinality(OneByOne(b, Checked)) \in Nat
      BY <1>1, <1>2, <1>4, <2>1, <3>1, OneLess, SMTT(60)
    <3> QED BY <3>1, <3>2, Zenon
  <2> QED BY <1>1, <1>3, <1>5, <1>6, <2>2, Zenon DEF CountedBy, b
<1>7. CASE ~x.check
  <2>1. \A y \in Checked : b[y] = a[y]
    BY <1>2, <1>4, <1>7, Zenon DEF Checked
  <2>2. OneByOne(b, Checked) = OneByOne(a, Checked)
    BY <2>1, NoneOfThem, Zenon
  <2> QED BY <1>1, <1>3, <1>5, <1>7, <2>2, Zenon DEF CountedBy, b
<1> QED BY <1>6, <1>7, Zenon

\* A connection goes on to another stage.
LEMMA CountMoved ==
  ASSUME CountedBy(pending, checking, attempts), NEW x \in UnderWay,
         NEW s \in {"socket", "ping", "ok", "error"}, s # x.stage
  PROVE  CountedBy(pending, checking, MoveAttempt(x, s))
<1> DEFINE y == [x EXCEPT !.stage = s]
           b == [attempts EXCEPT ![x] = @ - 1]
<1>1. x \in AttemptKinds /\ attempts[x] > 0
  BY Zenon DEF UnderWay
<1>2. y \in AttemptKinds /\ y # x /\ y.check = x.check
  BY <1>1, SMTT(60) DEF AttemptKinds
<1>3. /\ CountedBy(pending - 1, IF x.check THEN checking - 1 ELSE checking, b)
      /\ pending \in Nat /\ checking \in Nat /\ pending - 1 \in Nat /\ (x.check => checking - 1 \in Nat)
  BY <1>1, CountDown, Zenon
<1> HIDE DEF y
<1>4. MoveAttempt(x, s) = [b EXCEPT ![y] = @ + 1]
  BY <1>1, <1>2, Zenon DEF MoveAttempt, y
<1> HIDE DEF b
<1>5. 1 \in Nat /\ (pending - 1) + 1 = pending /\ (checking - 1) + 1 = checking
  BY <1>3, SMTT(60)
<1>6. CASE x.check
  <2>1. CountedBy(pending - 1, checking - 1, b)
    BY <1>3, <1>6, Zenon
  <2>2. CountedBy((pending - 1) + 1, IF y.check THEN (checking - 1) + 1 ELSE checking - 1, [b EXCEPT ![y] = @ + 1])
    BY <1>2, <1>5, <2>1, CountUp, Zenon
  <2> QED BY <1>2, <1>4, <1>5, <1>6, <2>2, Zenon
<1>7. CASE ~x.check
  <2>1. CountedBy(pending - 1, checking, b)
    BY <1>3, <1>7, Zenon
  <2>2. CountedBy((pending - 1) + 1, IF y.check THEN checking + 1 ELSE checking, [b EXCEPT ![y] = @ + 1])
    BY <1>2, <1>5, <2>1, CountUp, Zenon
  <2> QED BY <1>2, <1>4, <1>5, <1>7, <2>2, Zenon
<1> QED BY <1>6, <1>7, Zenon

\* What client_loop opens, it counts, and it checks no more than it may.
LEMMA LoopCounts ==
  ASSUME NEW gen, NEW q, NEW c, NEW p, NEW k, NEW a, ClientLoop(gen, q, c, p, k, a),
         gen = 0 \/ gen \in Generations, CountedBy(p, k, a), k <= MaxChecking,
         Len(queries') \in Nat
  PROVE  CountedBy(pending, checking, attempts)' /\ checking' <= MaxChecking
<1>0. p \in Nat /\ k \in Nat /\ MaxChecking \in Nat \ {0}
  BY FS_CardinalityType, ConnectionAssumption, Zenon DEF CountedBy
<1>1. CASE pending' = p /\ checking' = k /\ attempts' = a
  BY <1>1, Zenon DEF CountedBy
<1>2. CASE ~(pending' = p /\ checking' = k /\ attempts' = a)
  <2>1. gen \in Generations /\ OpenUntilEnough(gen, p, k, a, timerSet)
    BY <1>2, Zenon DEF ClientLoop
  <2> DEFINE u == Attempt("socket", FALSE, gen)
             v == Attempt("socket", TRUE, gen)
             Enough(i, j) == IF k + j # 0 THEN k + j >= MaxChecking ELSE p + i >= Len(queries')
  <2>2. PICK plain \in 0..Len(queries'), checks \in 0..MaxChecking :
          /\ checks > 0 => ~Enough(plain, checks - 1)
          /\ pending' = p + plain + checks
          /\ checking' = k + checks
          /\ attempts' = [a EXCEPT ![u] = @ + plain, ![v] = @ + checks]
    BY <1>2, <2>1, Zenon DEF OpenUntilEnough
  <2>3. plain \in Nat /\ checks \in Nat
    BY <1>0, SMTT(60)
  <2>4. /\ u \in AttemptKinds /\ v \in AttemptKinds /\ u # v /\ u.check = FALSE /\ v.check = TRUE
    BY <2>1, SMTT(60) DEF AttemptKinds, Attempt
  <2>5. checking' <= MaxChecking
    BY <1>0, <2>2, <2>3, SMTT(60)
  <2> HIDE DEF u, v, Enough
  <2> DEFINE b == [a EXCEPT ![u] = @ + plain]
  <2>6. CountedBy(p + plain, IF u.check THEN k + plain ELSE k, b)
    BY <2>3, <2>4, CountUp, Zenon
  <2>7. attempts' = [b EXCEPT ![v] = @ + checks]
    <3>1. a \in [AttemptKinds -> Nat]
      BY Zenon DEF CountedBy
    <3>2. b[v] = a[v]
      BY <2>4, <3>1, Zenon
    <3> QED BY <2>2, <3>2, Zenon
  <2> HIDE DEF b
  <2>8. CountedBy(p + plain, k, b)
    BY <2>4, <2>6, Zenon
  <2>9. CountedBy((p + plain) + checks, IF v.check THEN k + checks ELSE k, [b EXCEPT ![v] = @ + checks])
    BY <2>3, <2>4, <2>8, CountUp, Zenon
  <2>10. CountedBy(pending', checking', attempts')
    BY <2>2, <2>4, <2>7, <2>9, Zenon
  <2> QED BY <2>5, <2>10, Zenon DEF CountedBy
<1> QED BY <1>1, <1>2, Zenon

\* The plan is used up, and keeps its last generation.
LEMMA UseKeeps ==
  ASSUME GenerationsTypeOK, stateGen' = stateGen, creatorGen' = creatorGen,
         UNCHANGED limits \/ Use("faults") \/ Use("losses") \/ Use("handshakes")
  PROVE  GenerationsTypeOK' /\ limits'.generations = limits.generations
<1>1. /\ limits' \in [sessions : SUBSET Requesters, generations : Nat \ {0}, checks : BOOLEAN,
                      online : Nat, faults : Nat, losses : Nat, handshakes : Nat]
      /\ limits'.generations = limits.generations
  <2>1. CASE UNCHANGED limits
    BY <2>1, Zenon DEF GenerationsTypeOK
  <2>2. ASSUME NEW f \in {"faults", "losses", "handshakes"}, Use(f)
        PROVE  /\ limits' \in [sessions : SUBSET Requesters, generations : Nat \ {0}, checks : BOOLEAN,
                               online : Nat, faults : Nat, losses : Nat, handshakes : Nat]
               /\ limits'.generations = limits.generations
    BY <2>2, SMTT(60) DEF GenerationsTypeOK, Use
  <2> QED BY <2>1, <2>2, Zenon
<1> QED BY <1>1, Zenon DEF GenerationsTypeOK

LEMMA LoopUses ==
  ASSUME NEW gen, NEW q, NEW c, NEW p, NEW k, NEW a, ClientLoop(gen, q, c, p, k, a)
  PROVE  UNCHANGED limits \/ Use("faults")
BY Zenon DEF ClientLoop, OpenUntilEnough

\* Nothing is being made at first.
LEMMA InitCount == ConnectionInit => CountInv
<1> SUFFICES ASSUME ConnectionInit PROVE CountInv
  BY Zenon
<1>1. /\ limits \in ConnectionPlans /\ pending = 0 /\ checking = 0 /\ attempts = NoAttempt
      /\ stateGen = 1 /\ creatorGen = 0
  BY Zenon DEF ConnectionInit
<1>2. /\ limits \in [sessions : SUBSET Requesters, generations : Nat \ {0}, checks : BOOLEAN,
                     online : Nat, faults : Nat, losses : Nat, handshakes : Nat]
      /\ 1..limits.generations \subseteq Generations
  BY <1>1, ConnectionAssumption, Zenon DEF Generations
<1>3. limits.generations \in Nat \ {0}
  BY <1>2, SMTT(60)
<1>4. stateGen \in 1..limits.generations /\ creatorGen \in 0..stateGen
  BY <1>1, <1>3, SMTT(60)
<1>5. attempts \in [AttemptKinds -> Nat] /\ \A x \in AttemptKinds : attempts[x] = 0
  <2>1. 0 \in Nat
    BY SMTT(60)
  <2> QED BY <1>1, <2>1, Zenon DEF NoAttempt
<1>6. \A S : (\A x \in S : x \in AttemptKinds) => OneByOne(attempts, S) = {}
  BY <1>5, InOneByOne, SMTT(60)
<1>7. OneByOne(attempts, AttemptKinds) = {} /\ OneByOne(attempts, Checked) = {}
  BY <1>6, Zenon DEF Checked
<1>8. CountedBy(pending, checking, attempts)
  BY <1>1, <1>5, <1>7, FS_EmptySet, Zenon DEF CountedBy
<1>9. checking <= MaxChecking
  BY <1>1, ConnectionAssumption, SMTT(60)
<1> QED BY <1>2, <1>4, <1>8, <1>9, Zenon DEF CountInv, GenerationsTypeOK

\* Every step keeps the count.
LEMMA NextCount ==
  ASSUME CountInv, Len(queries') \in Nat, [ConnectionNext]_connectionVars
  PROVE  CountInv'
<1>1. /\ GenerationsTypeOK /\ CountedBy(pending, checking, attempts) /\ checking <= MaxChecking
      /\ creatorGen \in Nat /\ stateGen \in Nat
      /\ creatorGen = 0 \/ creatorGen \in Generations
      /\ \A g \in (creatorGen + 1)..stateGen : g \in Generations /\ g \in 0..stateGen
  <2>1. /\ GenerationsTypeOK /\ limits.generations \in Nat /\ 1..limits.generations \subseteq Generations
        /\ stateGen \in 1..limits.generations /\ creatorGen \in 0..stateGen
    BY SMTT(60) DEF CountInv, GenerationsTypeOK
  <2>2. /\ creatorGen \in Nat /\ stateGen \in Nat
        /\ creatorGen = 0 \/ creatorGen \in 1..limits.generations
        /\ \A g \in (creatorGen + 1)..stateGen : g \in 1..limits.generations /\ g \in 0..stateGen
    BY <2>1, SMTT(60)
  <2> QED BY <2>1, <2>2, Zenon DEF CountInv
<1>2. ASSUME UNCHANGED <<pending, checking, attempts, creatorGen, stateGen>>,
             UNCHANGED limits \/ Use("losses") \/ Use("handshakes")
      PROVE  CountInv'
  <2>1. /\ pending' = pending /\ checking' = checking /\ attempts' = attempts
        /\ creatorGen' = creatorGen /\ stateGen' = stateGen
    BY <1>2, SMTT(60)
  <2>2. GenerationsTypeOK'
    BY <1>1, <1>2, <2>1, UseKeeps, Zenon
  <2> QED BY <1>1, <2>1, <2>2, Zenon DEF CountInv, CountedBy
<1>3. ASSUME NEW q, NEW c, NEW p, NEW k, NEW a, ClientLoop(creatorGen, q, c, p, k, a),
             CountedBy(p, k, a), k <= MaxChecking, creatorGen' = creatorGen, stateGen' = stateGen
      PROVE  CountInv'
  BY <1>1, <1>3, LoopCounts, LoopUses, UseKeeps, Zenon DEF CountInv
<1>4. ASSUME NEW x \in UnderWay, ClientCreateRawConnection(x) \/ PingEnds(x) PROVE CountInv'
  <2>1. /\ pending' = pending /\ checking' = checking /\ creatorGen' = creatorGen /\ stateGen' = stateGen
        /\ UNCHANGED limits \/ Use("faults")
    BY <1>4, SMTT(60) DEF ClientCreateRawConnection, PingEnds
  <2>2. PICK s \in {"socket", "ping", "ok", "error"} : s # x.stage /\ attempts' = MoveAttempt(x, s)
    BY <1>4, Zenon DEF ClientCreateRawConnection, PingEnds
  <2>3. CountedBy(pending', checking', attempts')
    BY <1>1, <2>1, <2>2, CountMoved, Zenon
  <2>4. GenerationsTypeOK'
    BY <1>1, <2>1, UseKeeps, Zenon
  <2> QED BY <1>1, <2>1, <2>3, <2>4, Zenon DEF CountInv, CountedBy
<1>5. ASSUME NEW x \in UnderWay, ClientAddConnection(x) PROVE CountInv'
  <2> DEFINE p == pending - 1
             k == IF x.check THEN checking - 1 ELSE checking
             a == [attempts EXCEPT ![x] = @ - 1]
  <2>1. x \in AttemptKinds /\ attempts[x] > 0
    BY Zenon DEF UnderWay
  <2>2. CountedBy(p, k, a) /\ checking \in Nat
    BY <1>1, <2>1, CountDown, Zenon
  <2>3. k <= MaxChecking
    BY <1>1, <2>2, ConnectionAssumption, SMTT(60)
  <2>4. PICK c : ClientLoop(creatorGen, queries, c, p, k, a)
    BY <1>5, Zenon DEF ClientAddConnection
  <2>5. creatorGen' = creatorGen /\ stateGen' = stateGen
    BY <1>5, SMTT(60) DEF ClientAddConnection
  <2> HIDE DEF p, k, a
  <2> QED BY <1>3, <2>2, <2>3, <2>4, <2>5, Zenon
<1>6. CASE SlotTimeout \/ ReadyExpires
  BY <1>2, <1>6, Zenon DEF SlotTimeout, ReadyExpires, clientVars
<1>7. ASSUME ClientWakeup \/ CreatorOnOnline \/ (\E r \in Requesters : RequestRawConnection(r)) PROVE CountInv'
  <2>1. PICK q : ClientLoop(creatorGen, q, readyConns, pending, checking, attempts)
    BY <1>7, Zenon DEF ClientWakeup, CreatorOnOnline, RequestRawConnection
  <2>2. creatorGen' = creatorGen /\ stateGen' = stateGen
    BY <1>7, SMTT(60) DEF ClientWakeup, CreatorOnOnline, RequestRawConnection
  <2> QED BY <1>1, <1>3, <2>1, <2>2, Zenon
<1>8. CASE CreatorOnNetwork
  <2>1. PICK g \in (creatorGen + 1)..stateGen :
          creatorGen' = g /\ ClientLoop(g, queries, readyConns, pending, checking, attempts)
    BY <1>8, Zenon DEF CreatorOnNetwork
  <2>2. stateGen' = stateGen /\ g \in Generations /\ g \in 0..stateGen
    BY <1>1, <1>8, <2>1, Zenon DEF CreatorOnNetwork
  <2>3. UNCHANGED limits \/ Use("faults")
    BY <2>1, LoopUses, Zenon
  <2>4. /\ limits' \in [sessions : SUBSET Requesters, generations : Nat \ {0}, checks : BOOLEAN,
                        online : Nat, faults : Nat, losses : Nat, handshakes : Nat]
        /\ limits'.generations = limits.generations
    BY <1>1, <2>3, SMTT(60) DEF GenerationsTypeOK, Use
  <2>5. GenerationsTypeOK'
    BY <1>1, <2>1, <2>2, <2>4, Zenon DEF GenerationsTypeOK
  <2> QED BY <1>1, <2>1, <2>2, <2>5, LoopCounts, Zenon DEF CountInv
<1>9. CASE StateOnNetwork
  <2>1. /\ pending' = pending /\ checking' = checking /\ attempts' = attempts
        /\ creatorGen' = creatorGen /\ limits' = limits
        /\ stateGen' = stateGen + 1 /\ stateGen < limits.generations
    BY <1>9, SMTT(60) DEF StateOnNetwork, creatorVars, clientVars
  <2>2. GenerationsTypeOK'
    BY <1>1, <2>1, SMTT(60) DEF GenerationsTypeOK
  <2> QED BY <1>1, <2>1, <2>2, Zenon DEF CountInv, CountedBy
<1>10. ASSUME NEW r \in Requesters, \/ SessionStep(r) \/ SessionOnNetwork(r)
                                    \/ ConnectionLost(r) \/ SessionEnds(r)
                                    \/ ConnectionAdd(r) \/ CachedExpires(r)
       PROVE  CountInv'
  <2> USE DEF creatorVars, clientVars
  <2>1. CASE ConnectionOpen(r)
    BY <1>2, <2>1, Zenon DEF ConnectionOpen
  <2>2. CASE ConnectionOpenFinish(r)
    BY <1>2, <2>2, Zenon DEF ConnectionOpenFinish
  <2>3. CASE SessionOnNetwork(r)
    BY <1>2, <2>3, Zenon DEF SessionOnNetwork
  <2>4. CASE ConnectionLost(r) \/ SessionEnds(r)
    BY <1>2, <2>4, Zenon DEF ConnectionLost, SessionEnds
  <2>5. CASE ConnectionAdd(r) \/ CachedExpires(r)
    BY <1>2, <2>5, Zenon DEF ConnectionAdd, CachedExpires
  <2> QED BY <1>10, <2>1, <2>2, <2>3, <2>4, <2>5, Zenon DEF SessionStep
<1>11. CASE UNCHANGED connectionVars
  BY <1>2, <1>11, Zenon DEF connectionVars, clientVars
<1> QED BY <1>4, <1>5, <1>6, <1>7, <1>8, <1>9, <1>10, <1>11, Zenon
    DEF ConnectionNext, AttemptStep, TimerStep

\* client_loop counts a connection when it opens it, client_add_connection when
\* it is made or has failed: between the two it goes through a TlsInit and a
\* PingActor, which answer once, so the CHECKs of client_add_connection that the
\* counters are above zero hold, and the limit of checks is never passed.
THEOREM AttemptsCountedAlways == ConnectionSpec => []AttemptsCounted
<1>1. ConnectionInit => IInv /\ CountInv
  BY InitIInv, InitCount, Zenon
<1>2. IInv' => Len(queries') \in Nat
  BY SMTT(60) DEF IInv, Waiting
<1>3. (IInv /\ CountInv) /\ [ConnectionNext]_connectionVars => (IInv /\ CountInv)'
  BY <1>2, NextIInv, NextCount, Zenon
<1>4. IInv /\ CountInv => AttemptsCounted
  BY Zenon DEF CountInv, CountedBy, Checked, AttemptsCounted
<1> QED BY <1>1, <1>3, <1>4, PTL DEF ConnectionSpec

----------------------------------------------------------------------------
(* Client. *)

AuthStates == {"None", "WaitPhoneNumber", "WaitCode", "WaitPassword", "Ok", "LoggingOut"}
QueryTypes == {"BotAuthentication", "SendCode", "SignIn", "GetPassword", "CheckPassword"}
Mails == {"code", "password", "lost", "ok", "error", "password needed"}
ResultMails == {"ok", "error", "password needed"}
Databases == [main : Dcs \cup {0}, keys : SUBSET Dcs]

AuthTypeOK ==
  /\ pendingCode \in BOOLEAN /\ pendingPassword \in BOOLEAN /\ retryAt \in BOOLEAN
  /\ state \in AuthStates /\ netQueryType \in QueryTypes \cup {"None"}
  /\ query \subseteq [type : QueryTypes, stage : {"sent", "stored"}]
  /\ mailbox \in Seq(Mails)
  /\ told \in {"none", "WaitCode", "WaitPassword", "Ok", "Error"}
  /\ account \in [kind : Kinds, home : Dcs]
  /\ db \in Databases /\ saved \in Databases

\* All messages of mb but those that tell of a lost authorization are steps of
\* a login.
OnlyLost(mb) == \A i \in DOMAIN mb : mb[i] = "lost"
OneMail(mb) == \A i, j \in DOMAIN mb : mb[i] # "lost" /\ mb[j] # "lost" => i = j

MaySubmit ==
  \/ told \in {"WaitCode", "WaitPassword"}
  \/ told = "Error" /\ state \in {"WaitCode", "WaitPassword"}

\* A login has one next step: a query or its answer, what was submitted, the
\* timeout of a bot, or what the user was asked for.
OneAtATime ==
  /\ \A p, q \in query : p = q
  /\ OneMail(mailbox)
  /\ query # {} => OnlyLost(mailbox)
  /\ pendingCode \/ pendingPassword \/ retryAt \/ MaySubmit => query = {} /\ OnlyLost(mailbox)
  /\ pendingCode => ~pendingPassword /\ ~retryAt /\ ~MaySubmit
  /\ pendingPassword => ~retryAt /\ ~MaySubmit
  /\ retryAt => ~MaySubmit

TypeIsKept ==
  /\ \A q \in query : q.type = netQueryType
  /\ \A i \in DOMAIN mailbox : mailbox[i] \in ResultMails => netQueryType # "None"
  /\ netQueryType = "BotAuthentication" \/ retryAt => account.kind = "bot"

NothingBefore ==
  /\ pc = "idle" => state = "None" /\ mailbox = <<>>
  /\ state = "None" =>
       /\ query = {} /\ OnlyLost(mailbox) /\ told = "none" /\ netQueryType = "None"
       /\ ~pendingCode /\ ~pendingPassword /\ ~retryAt

\* A bot, and an account that is let in at once, are asked for nothing.
NoCodes ==
  account.kind \in {"bot", "known"} =>
    /\ netQueryType \in {"None", IF account.kind = "bot" THEN "BotAuthentication" ELSE "SendCode"}
    /\ state \notin {"WaitCode", "WaitPassword"} /\ told \notin {"WaitCode", "WaitPassword"}
    /\ ~pendingCode /\ ~pendingPassword
    /\ \A i \in DOMAIN mailbox : mailbox[i] \notin {"code", "password"}

LostAfter(mb, i) == \E j \in DOMAIN mb : j > i /\ mb[j] = "lost"

\* An authorization is in the database before the answer that tells of it.
StoredFirst ==
  /\ db.keys \subseteq {account.home} /\ saved.keys \subseteq {account.home}
  /\ \A q \in query : q.stage = "stored" => account.home \in db.keys
  /\ \A i \in DOMAIN mailbox : mailbox[i] = "ok" =>
       /\ netQueryType = "SignIn" => account.kind = "phone"
       /\ LogsIn([type |-> netQueryType]) => account.home \in db.keys \/ LostAfter(mailbox, i)

ClientInv ==
  /\ AuthTypeOK /\ OneAtATime /\ TypeIsKept /\ NothingBefore /\ NoCodes
  /\ StoredFirst /\ OkIsStored

----------------------------------------------------------------------------
\* How nb is related to mb when m was appended.
Appended(mb, m, nb) ==
  /\ nb \in Seq(Mails)
  /\ OnlyLost(mb) => OneMail(nb)
  /\ m = "lost" => (OnlyLost(mb) => OnlyLost(nb)) /\ (OneMail(mb) => OneMail(nb))
  /\ \A i \in DOMAIN nb : nb[i] = m \/ (i \in DOMAIN mb /\ nb[i] = mb[i])
  /\ \A i \in DOMAIN mb : i \in DOMAIN nb /\ nb[i] = mb[i]
  /\ \E i \in DOMAIN nb : nb[i] = m
  /\ \A i \in DOMAIN mb : LostAfter(mb, i) => LostAfter(nb, i)
  /\ m = "lost" => \A i \in DOMAIN mb : LostAfter(nb, i)

\* A message is appended to the mailbox.
LEMMA MailAppended ==
  ASSUME NEW mb \in Seq(Mails), NEW m \in Mails, NEW nb, nb = Append(mb, m)
  PROVE  Appended(mb, m, nb)
<1>1. /\ nb \in Seq(Mails) /\ Len(mb) \in Nat /\ DOMAIN mb = 1..Len(mb)
      /\ DOMAIN nb = 1..(Len(mb) + 1) /\ nb[Len(mb) + 1] = m
      /\ \A i \in 1..Len(mb) : nb[i] = mb[i]
  BY SMTT(30), Zenon
<1>2. /\ \A i \in DOMAIN nb : i = Len(mb) + 1 \/ (i \in DOMAIN mb /\ nb[i] = mb[i])
      /\ \A i \in DOMAIN mb : i \in DOMAIN nb /\ nb[i] = mb[i] /\ Len(mb) + 1 > i
      /\ Len(mb) + 1 \in DOMAIN nb
  BY <1>1, SMTT(30), Zenon
<1>3. (OnlyLost(mb) => OneMail(nb)) /\ (m = "lost" => (OnlyLost(mb) => OnlyLost(nb)))
  BY <1>1, <1>2, ZenonT(60) DEF OnlyLost, OneMail
<1>4. m = "lost" => (OneMail(mb) => OneMail(nb))
  BY <1>1, <1>2, ZenonT(60) DEF OneMail
<1>5. /\ \A i \in DOMAIN mb : LostAfter(mb, i) => LostAfter(nb, i)
      /\ m = "lost" => \A i \in DOMAIN mb : LostAfter(nb, i)
  BY <1>1, <1>2, Zenon DEF LostAfter
<1> QED BY <1>1, <1>2, <1>3, <1>4, <1>5, ZenonT(60) DEF Appended

\* How nb is related to mb when the first message was taken.
Taken(mb, nb) ==
  /\ nb \in Seq(Mails) /\ 1 \in DOMAIN mb /\ Head(mb) = mb[1]
  /\ OneMail(mb) => OneMail(nb)
  /\ OneMail(mb) /\ Head(mb) # "lost" => OnlyLost(nb)
  /\ OnlyLost(mb) => OnlyLost(nb)
  /\ \A i \in DOMAIN nb : \E k \in DOMAIN mb :
       nb[i] = mb[k] /\ (LostAfter(mb, k) => LostAfter(nb, i))
  /\ \A i \in DOMAIN mb : mb[i] = Head(mb) \/ \E k \in DOMAIN nb : nb[k] = mb[i]
  /\ LostAfter(mb, 1) => \E i \in DOMAIN nb : nb[i] = "lost"

\* The first message of the mailbox is taken.
LEMMA MailTaken ==
  ASSUME NEW mb \in Seq(Mails), mb # <<>>, NEW nb, nb = Tail(mb)
  PROVE  Taken(mb, nb)
<1>1. /\ nb \in Seq(Mails) /\ Len(mb) \in Nat /\ DOMAIN mb = 1..Len(mb) /\ Len(mb) >= 1
      /\ DOMAIN nb = 1..(Len(mb) - 1) /\ Head(mb) = mb[1]
      /\ \A i \in 1..(Len(mb) - 1) : nb[i] = mb[i + 1]
  BY SMTT(30), ZenonT(60)
<1>2. /\ \A i \in DOMAIN nb : i + 1 \in DOMAIN mb /\ nb[i] = mb[i + 1]
      /\ \A i \in DOMAIN mb : i = 1 \/ (i - 1 \in DOMAIN nb /\ (i - 1) + 1 = i)
      /\ 1 \in DOMAIN mb
      /\ \A i \in DOMAIN nb : i + 1 # 1
      /\ \A i, j \in DOMAIN nb : i + 1 = j + 1 => i = j
      /\ \A i \in DOMAIN nb, j \in DOMAIN mb : j > i + 1 => j # 1 /\ j - 1 > i
      /\ \A j \in DOMAIN mb : j > 1 => j # 1
  BY <1>1, SMTT(30), ZenonT(60)
<1>3. OneMail(mb) => OneMail(nb)
  <2> SUFFICES ASSUME OneMail(mb), NEW i \in DOMAIN nb, NEW j \in DOMAIN nb,
                      nb[i] # "lost", nb[j] # "lost"
               PROVE  i = j
    BY Zenon DEF OneMail
  <2>1. i + 1 = j + 1
    BY <1>2, Zenon DEF OneMail
  <2> QED BY <1>2, <2>1, Zenon
<1>4. OneMail(mb) /\ Head(mb) # "lost" => OnlyLost(nb)
  BY <1>1, <1>2, ZenonT(60) DEF OneMail, OnlyLost
<1>5. OnlyLost(mb) => OnlyLost(nb)
  BY <1>2, Zenon DEF OnlyLost
<1>6. \A i \in DOMAIN mb : i = 1 \/ (i - 1 \in DOMAIN nb /\ nb[i - 1] = mb[i])
  BY <1>2, Zenon
<1>7. \A i \in DOMAIN nb : LostAfter(mb, i + 1) => LostAfter(nb, i)
  <2> SUFFICES ASSUME NEW i \in DOMAIN nb, NEW j \in DOMAIN mb, j > i + 1, mb[j] = "lost"
               PROVE  LostAfter(nb, i)
    BY Zenon DEF LostAfter
  <2>1. j - 1 \in DOMAIN nb /\ j - 1 > i /\ nb[j - 1] = "lost"
    BY <1>2, <1>6, ZenonT(60)
  <2> QED BY <2>1, Zenon DEF LostAfter
<1>8. LostAfter(mb, 1) => \E i \in DOMAIN nb : nb[i] = "lost"
  <2> SUFFICES ASSUME NEW j \in DOMAIN mb, j > 1, mb[j] = "lost"
               PROVE  \E i \in DOMAIN nb : nb[i] = "lost"
    BY Zenon DEF LostAfter
  <2>1. j - 1 \in DOMAIN nb /\ nb[j - 1] = "lost"
    BY <1>2, <1>6, Zenon
  <2> QED BY <2>1, Zenon
<1> QED BY <1>1, <1>2, <1>3, <1>4, <1>5, <1>6, <1>7, <1>8, ZenonT(60) DEF Taken

----------------------------------------------------------------------------
\* What only moves the thread in run() along.
LEMMA MoveKeeps ==
  ASSUME ClientInv,
         UNCHANGED <<pendingCode, pendingPassword, db, authVars, mailbox, account, saved>>,
         pc' = "idle" => pc = "idle", ActorAlive' => ActorAlive
  PROVE  ClientInv'
<1>2. (AuthTypeOK /\ OneAtATime /\ TypeIsKept /\ NoCodes /\ StoredFirst)'
  BY ZenonT(60) DEF ClientInv, AuthTypeOK, OneAtATime, TypeIsKept, NoCodes, StoredFirst, MaySubmit,
       OnlyLost, OneMail, LostAfter, LogsIn, authVars
<1>3. NothingBefore' /\ OkIsStored'
  BY Zenon DEF ClientInv, NothingBefore, OkIsStored, OnlyLost, authVars
<1> QED BY <1>2, <1>3, Zenon DEF ClientInv

LEMMA RunKeeps ==
  ASSUME ClientInv, RunMainReturns \/ LoopHead \/ Start \/ Stop \/ UpdatesTooLong
                      \/ OnGetStateResult \/ OnGetDifferenceResult
  PROVE  ClientInv'
<1>1. /\ UNCHANGED <<pendingCode, pendingPassword, db, authVars, mailbox, account, saved>>
      /\ pc' = "idle" => pc = "idle"
      /\ ActorAlive' => ActorAlive
  BY Zenon DEF RunMainReturns, LoopHead, Start, Stop, UpdatesTooLong, OnGetStateResult,
       OnGetDifferenceResult, runVars, authVars, userUnchanged, ActorAlive
<1> QED BY <1>1, MoveKeeps, Zenon

\* The step a login waits for is taken: nothing else is under way.
LEMMA StepIsTaken ==
  ASSUME ClientInv, NEW m, m # "lost", IsNext(m), Take
  PROVE  /\ query = {} /\ mailbox' \in Seq(Mails) /\ OnlyLost(mailbox')
         /\ ~pendingCode /\ ~pendingPassword /\ ~retryAt /\ ~MaySubmit
         /\ state # "None" /\ pc = "main" /\ 1 \in DOMAIN mailbox /\ mailbox[1] = m
         /\ LostAfter(mailbox, 1) => \E i \in DOMAIN mailbox' : mailbox'[i] = "lost"
         /\ (\E i \in DOMAIN mailbox : mailbox[i] = "lost") =>
              \E i \in DOMAIN mailbox' : mailbox'[i] = "lost"
<1>1. mailbox \in Seq(Mails) /\ mailbox # <<>> /\ mailbox' = Tail(mailbox) /\ Head(mailbox) = m
  BY Zenon DEF ClientInv, AuthTypeOK, IsNext, Take
<1>2. /\ mailbox' \in Seq(Mails) /\ 1 \in DOMAIN mailbox /\ mailbox[1] = m
      /\ OneMail(mailbox) => OnlyLost(mailbox')
      /\ \A i \in DOMAIN mailbox : mailbox[i] = m \/ \E k \in DOMAIN mailbox' : mailbox'[k] = mailbox[i]
      /\ LostAfter(mailbox, 1) => \E i \in DOMAIN mailbox' : mailbox'[i] = "lost"
  <2>1. Taken(mailbox, mailbox')
    BY <1>1, MailTaken, Zenon
  <2> QED BY <1>1, <2>1, Zenon DEF Taken
<1>3. ~OnlyLost(mailbox)
  BY <1>2, Zenon DEF OnlyLost
<1> QED BY <1>2, <1>3, Zenon DEF ClientInv, OneAtATime, IsNext, Acts

\* What follows a step: a query or nothing, and what the user was told.
LEMMA StepKeeps ==
  ASSUME ClientInv, mailbox' \in Seq(Mails), OnlyLost(mailbox'), UNCHANGED <<pc, db, account>>,
         pendingCode' = FALSE, pendingPassword' = FALSE, retryAt' \in BOOLEAN,
         state' \in AuthStates \ {"None"}, pc # "idle", saved' \in {saved, db},
         told' \in {"none", "WaitCode", "WaitPassword", "Ok", "Error"},
         netQueryType' \in QueryTypes \cup {"None"},
         \/ query' = {} /\ (retryAt' => ~MaySubmit')
         \/ /\ query' = {[type |-> netQueryType', stage |-> "sent"]} /\ netQueryType' # "None"
            /\ ~MaySubmit' /\ retryAt' = FALSE,
         netQueryType' = "BotAuthentication" \/ retryAt' => account.kind = "bot",
         account.kind \in {"bot", "known"} =>
           /\ netQueryType' \in
                {"None", IF account.kind = "bot" THEN "BotAuthentication" ELSE "SendCode"}
           /\ state' \notin {"WaitCode", "WaitPassword"}
           /\ told' \notin {"WaitCode", "WaitPassword"},
         OkIsStored'
  PROVE  ClientInv'
<1>0. /\ query' \subseteq [type : QueryTypes, stage : {"sent", "stored"}]
      /\ \A q \in query' : q.type = netQueryType' /\ q.stage = "sent"
      /\ \A p, q \in query' : p = q
  BY SMTT(30), Zenon
<1>1. AuthTypeOK'
  BY <1>0, Zenon DEF ClientInv, AuthTypeOK
<1>2. OneMail(mailbox')
  BY Zenon DEF OnlyLost, OneMail
<1>3. OneAtATime'
  BY <1>0, <1>2, Zenon DEF OneAtATime, OnlyLost, OneMail
<1>4. TypeIsKept'
  BY <1>0, Zenon DEF TypeIsKept, OnlyLost, ResultMails
<1>5. NothingBefore' /\ NoCodes'
  BY Zenon DEF NothingBefore, NoCodes, OnlyLost
<1>6. StoredFirst'
  BY <1>0, Zenon DEF ClientInv, StoredFirst, OnlyLost, LostAfter, LogsIn
<1> QED BY <1>1, <1>3, <1>4, <1>5, <1>6, ZenonT(60) DEF ClientInv

LEMMA StartUpKeeps ==
  ASSUME ClientInv, StartUp
  PROVE  ClientInv'
<1>1. /\ query = {} /\ OnlyLost(mailbox) /\ told = "none" /\ netQueryType = "None" /\ pc = "main"
      /\ pendingCode = FALSE /\ pendingPassword = FALSE /\ retryAt = FALSE
      /\ mailbox \in Seq(Mails)
  BY Zenon DEF ClientInv, AuthTypeOK, NothingBefore, StartUp, Acts
<1>2. /\ UNCHANGED <<pc, db, account, mailbox, pendingCode, pendingPassword, retryAt>>
  BY Zenon DEF StartUp, runVars
<1>3. CASE EffectiveDc(db) \in db.keys /\ NotifyOk /\ UNCHANGED <<netQueryType, query>>
  <2>1. state' = "Ok" /\ told' = "Ok" /\ saved' = db
    BY <1>1, <1>3, Zenon DEF NotifyOk, Notify, ExportSession, ActorAlive
  <2>2. account.home \in db.keys
    BY <1>3, Zenon DEF ClientInv, StoredFirst
  <2>3. OkIsStored' /\ ~MaySubmit'
    BY <1>2, <2>1, <2>2, Zenon DEF OkIsStored, MaySubmit
  <2> QED BY <1>1, <1>2, <1>3, <2>1, <2>3, StepKeeps, ZenonT(60) DEF AuthStates
<1>4. CASE /\ Sends(IF account.kind = "bot" THEN "BotAuthentication" ELSE "SendCode")
           /\ state' = "WaitPhoneNumber" /\ UNCHANGED <<told, saved>>
  <2>1. /\ netQueryType' = IF account.kind = "bot" THEN "BotAuthentication" ELSE "SendCode"
        /\ query' = {[type |-> netQueryType', stage |-> "sent"]}
    BY <1>1, <1>4, ZenonT(60) DEF Sends
  <2>2. OkIsStored' /\ ~MaySubmit'
    BY <1>1, <1>4, Zenon DEF OkIsStored, MaySubmit
  <2> QED BY <1>1, <1>2, <1>4, <2>1, <2>2, StepKeeps, ZenonT(60) DEF AuthStates, QueryTypes
<1> QED BY <1>3, <1>4, Zenon DEF StartUp

LEMMA CheckKeeps ==
  ASSUME ClientInv, CheckCode \/ CheckPassword
  PROVE  ClientInv'
<1>1. PICK m \in {"code", "password"} :
        IsNext(m) /\ Take /\ Sends(IF m = "code" THEN "SignIn" ELSE "GetPassword")
  BY Zenon DEF CheckCode, CheckPassword
<1>2. /\ query = {} /\ mailbox' \in Seq(Mails) /\ OnlyLost(mailbox')
      /\ ~pendingCode /\ ~pendingPassword /\ ~retryAt /\ ~MaySubmit
      /\ state # "None" /\ pc = "main" /\ 1 \in DOMAIN mailbox /\ mailbox[1] = m
      /\ (\E i \in DOMAIN mailbox : mailbox[i] = "lost") =>
           \E i \in DOMAIN mailbox' : mailbox'[i] = "lost"
  BY <1>1, StepIsTaken, Zenon
<1>3. /\ UNCHANGED <<pc, db, account, state, told, saved>>
      /\ pendingCode' = FALSE /\ pendingPassword' = FALSE /\ retryAt' = FALSE
  BY <1>2, Zenon DEF CheckCode, CheckPassword, runVars, ClientInv, AuthTypeOK
<1>4. /\ netQueryType' \in {"SignIn", "GetPassword"}
      /\ query' = {[type |-> netQueryType', stage |-> "sent"]}
  BY <1>1, <1>2, ZenonT(60) DEF Sends
<1>5. OkIsStored' /\ ~MaySubmit'
  BY <1>2, <1>3, Zenon DEF ClientInv, OkIsStored, MaySubmit, ActorAlive
<1>6. account.kind \notin {"bot", "known"}
  BY <1>2, Zenon DEF ClientInv, NoCodes
<1>7. state \in AuthStates /\ told \in {"none", "WaitCode", "WaitPassword", "Ok", "Error"}
  BY Zenon DEF ClientInv, AuthTypeOK
<1> QED BY <1>2, <1>3, <1>4, <1>5, <1>6, <1>7, StepKeeps, ZenonT(60) DEF QueryTypes

LEMMA ResultKeeps ==
  ASSUME ClientInv, OnResultError \/ OnPasswordNeeded \/ OnResultOk
  PROVE  ClientInv'
<1>1. PICK m \in ResultMails : IsNext(m) /\ Take
  BY Zenon DEF OnResultError, OnPasswordNeeded, OnResultOk, ResultMails
<1>2. /\ query = {} /\ mailbox' \in Seq(Mails) /\ OnlyLost(mailbox')
      /\ ~pendingCode /\ ~pendingPassword /\ ~retryAt /\ ~MaySubmit
      /\ state # "None" /\ pc = "main" /\ 1 \in DOMAIN mailbox /\ mailbox[1] = m
      /\ LostAfter(mailbox, 1) => \E i \in DOMAIN mailbox' : mailbox'[i] = "lost"
      /\ (\E i \in DOMAIN mailbox : mailbox[i] = "lost") =>
           \E i \in DOMAIN mailbox' : mailbox'[i] = "lost"
  BY <1>1, StepIsTaken, Zenon DEF ResultMails
<1>3. /\ UNCHANGED <<pc, db, account>> /\ pc # "idle"
      /\ pendingCode' = FALSE /\ pendingPassword' = FALSE /\ retryAt = FALSE
      /\ state \in AuthStates \ {"None"}
      /\ told \in {"none", "WaitCode", "WaitPassword", "Ok", "Error"}
      /\ netQueryType \in QueryTypes \cup {"None"}
  BY <1>2, Zenon DEF OnResultError, OnPasswordNeeded, OnResultOk, runVars, ClientInv, AuthTypeOK
<1>4. /\ netQueryType = "BotAuthentication" => account.kind = "bot"
      /\ account.kind \in {"bot", "known"} =>
           /\ netQueryType \in
                {"None", IF account.kind = "bot" THEN "BotAuthentication" ELSE "SendCode"}
           /\ state \notin {"WaitCode", "WaitPassword"} /\ told \notin {"WaitCode", "WaitPassword"}
  BY Zenon DEF ClientInv, TypeIsKept, NoCodes
<1>5. state' \in {state, "WaitPhoneNumber", "WaitCode", "WaitPassword"} => OkIsStored'
  BY <1>2, <1>3, Zenon DEF ClientInv, OkIsStored, ActorAlive
<1>6. CASE OnResultError
  <2>1. /\ query' = {} /\ saved' = saved /\ netQueryType' = "None"
        /\ retryAt' \in BOOLEAN /\ (retryAt' => account.kind = "bot")
        /\ state' \in {state, "WaitPhoneNumber", "WaitCode", "WaitPassword"}
        /\ told' \in {told, "Error"}
        /\ account.kind \in {"bot", "known"} => state' \in {state, "WaitPhoneNumber"}
    BY <1>2, <1>3, <1>4, <1>6, ZenonT(60) DEF OnResultError, OnError, Notify
  <2>2. retryAt' => ~MaySubmit'
    BY <1>4, <2>1, Zenon DEF MaySubmit
  <2> QED BY <1>2, <1>3, <1>4, <1>5, <2>1, <2>2, StepKeeps, ZenonT(60) DEF AuthStates
<1>7. CASE OnPasswordNeeded
  <2>1. /\ query' = {} /\ saved' = saved /\ netQueryType' = "None" /\ retryAt' = FALSE
        /\ \/ state' = "WaitPassword" /\ told' = "WaitPassword" /\ netQueryType = "SignIn"
           \/ state' = state /\ told' = told
    BY <1>2, <1>3, <1>7, ZenonT(60) DEF OnPasswordNeeded, Notify
  <2> QED BY <1>2, <1>3, <1>4, <1>5, <2>1, StepKeeps, ZenonT(60) DEF AuthStates
<1>8. CASE OnResultOk
  <2>0. retryAt' = FALSE /\ mailbox[1] = "ok"
    BY <1>1, <1>2, <1>3, <1>8, ZenonT(60) DEF OnResultOk, IsNext
  <2>1. CASE /\ netQueryType = "SendCode" /\ account.kind # "known"
             /\ state' = "WaitCode" /\ Notify("WaitCode") /\ netQueryType' = "None"
             /\ UNCHANGED <<query, saved>>
    <3>1. account.kind \notin {"bot", "known"} /\ told' = "WaitCode" /\ query' = {} /\ saved' = saved
      BY <1>2, <1>4, <2>1, Zenon DEF Notify
    <3> QED BY <1>2, <1>3, <1>5, <2>0, <2>1, <3>1, StepKeeps, ZenonT(60) DEF AuthStates
  <2>2. CASE netQueryType = "GetPassword" /\ Sends("CheckPassword") /\ UNCHANGED <<state, told, saved>>
    <3>1. netQueryType' = "CheckPassword" /\ query' = {[type |-> netQueryType', stage |-> "sent"]}
      BY <1>2, <2>2, SMTT(30), ZenonT(60) DEF Sends
    <3>2. ~MaySubmit' /\ account.kind \notin {"bot", "known"}
      BY <1>2, <1>4, <2>2, Zenon DEF MaySubmit
    <3> QED BY <1>2, <1>3, <1>5, <2>0, <2>2, <3>1, <3>2, StepKeeps, ZenonT(60) DEF QueryTypes
  <2>3. CASE /\ \/ netQueryType \in {"BotAuthentication", "SignIn", "CheckPassword"}
                \/ netQueryType = "SendCode" /\ account.kind = "known"
             /\ NotifyOk /\ netQueryType' = "None" /\ UNCHANGED query
    <3>1. state' = "Ok" /\ told' = "Ok" /\ saved' = db /\ query' = {}
      BY <1>2, <2>3, ZenonT(60) DEF NotifyOk, Notify, ExportSession, ActorAlive
    <3>2. account.home \in db.keys \/ LostAfter(mailbox, 1)
      <4>1. /\ netQueryType = "SignIn" => account.kind = "phone"
            /\ LogsIn([type |-> netQueryType]) => account.home \in db.keys \/ LostAfter(mailbox, 1)
        BY <1>2, <2>0, ZenonT(60) DEF ClientInv, StoredFirst
      <4>2. LogsIn([type |-> netQueryType])
        BY <2>3, <4>1, SMTT(30), ZenonT(60) DEF LogsIn
      <4> QED BY <4>1, <4>2, ZenonT(60)
    <3>3. OkIsStored' /\ ~MaySubmit'
      BY <1>2, <1>3, <3>1, <3>2, ZenonT(60) DEF OkIsStored, MaySubmit
    <3> QED BY <1>2, <1>3, <2>0, <2>3, <3>1, <3>3, StepKeeps, ZenonT(60) DEF AuthStates
  <2>4. CASE netQueryType = "None" /\ UNCHANGED <<state, told, netQueryType, query, saved>>
    BY <1>2, <1>3, <1>4, <1>5, <2>0, <2>4, StepKeeps, ZenonT(60)
  <2> QED BY <1>8, <2>1, <2>2, <2>3, <2>4, ZenonT(60) DEF OnResultOk
<1> QED BY <1>6, <1>7, <1>8, Zenon

LEMMA TimeoutKeeps ==
  ASSUME ClientInv, TimeoutExpired
  PROVE  ClientInv'
<1>1. /\ query = {} /\ OnlyLost(mailbox) /\ mailbox \in Seq(Mails) /\ ~MaySubmit
      /\ pendingCode = FALSE /\ pendingPassword = FALSE /\ account.kind = "bot" /\ pc = "main"
      /\ state \in AuthStates \ {"None"}
      /\ told \in {"none", "WaitCode", "WaitPassword", "Ok", "Error"}
      /\ state \notin {"WaitCode", "WaitPassword"} /\ told \notin {"WaitCode", "WaitPassword"}
  BY Zenon DEF ClientInv, AuthTypeOK, OneAtATime, TypeIsKept, NothingBefore, NoCodes, TimeoutExpired,
       Acts
<1>2. /\ UNCHANGED <<pc, db, account, mailbox, pendingCode, pendingPassword, state, told, saved>>
      /\ retryAt' = FALSE
  BY Zenon DEF TimeoutExpired, runVars
<1>3. netQueryType' = "BotAuthentication" /\ query' = {[type |-> netQueryType', stage |-> "sent"]}
  BY <1>1, SMTT(30), ZenonT(60) DEF TimeoutExpired, Sends
<1>4. OkIsStored' /\ ~MaySubmit'
  BY <1>1, <1>2, Zenon DEF ClientInv, OkIsStored, MaySubmit, ActorAlive
<1> QED BY <1>1, <1>2, <1>3, <1>4, StepKeeps, ZenonT(60) DEF QueryTypes

\* What was submitted, or what a query came to, is sent to AuthManager.
LEMMA MailKeeps ==
  ASSUME ClientInv, NEW mb \in Seq(Mails), OnlyLost(mb), mb = mailbox \/ mb = Append(mailbox, "lost"),
         NEW m \in Mails, m # "lost", mailbox' = Append(mb, m), query' = {},
         pendingCode' = FALSE, pendingPassword' = FALSE, retryAt = FALSE, ~MaySubmit,
         UNCHANGED <<db, account, state, told, netQueryType, retryAt, saved>>,
         pc' # "idle", ActorAlive' => ActorAlive, state # "None",
         m \in ResultMails => netQueryType # "None",
         m \in {"code", "password"} => account.kind \notin {"bot", "known"},
         m = "ok" => /\ netQueryType = "SignIn" => account.kind = "phone"
                     /\ LogsIn([type |-> netQueryType]) => account.home \in db.keys
  PROVE  ClientInv'
<1>1. /\ mailbox' \in Seq(Mails) /\ OneMail(mailbox')
      /\ \A i \in DOMAIN mailbox' : mailbox'[i] = m \/ (i \in DOMAIN mb /\ mailbox'[i] = mb[i])
      /\ \A i \in DOMAIN mb : i \in DOMAIN mailbox' /\ mailbox'[i] = mb[i]
  <2>1. Appended(mb, m, mailbox')
    BY MailAppended, Zenon
  <2> QED BY <2>1, Zenon DEF Appended
<1>2. \A i \in DOMAIN mailbox' : mailbox'[i] # m => mailbox'[i] = "lost"
  BY <1>1, Zenon DEF OnlyLost
<1>3. (\E i \in DOMAIN mailbox : mailbox[i] = "lost") => \E i \in DOMAIN mailbox' : mailbox'[i] = "lost"
  <2>1. CASE mb = mailbox
    BY <1>1, <2>1, Zenon
  <2>2. CASE mb = Append(mailbox, "lost")
    <3>1. mailbox \in Seq(Mails) /\ "lost" \in Mails
      BY Zenon DEF ClientInv, AuthTypeOK, Mails
    <3>2. Appended(mailbox, "lost", mb)
      BY <2>2, <3>1, MailAppended, Zenon
    <3>3. \E i \in DOMAIN mb : mb[i] = "lost"
      BY <3>2, Zenon DEF Appended
    <3> QED BY <1>1, <3>3, Zenon
  <2> QED BY <2>1, <2>2, Zenon
<1>4. AuthTypeOK'
  BY <1>1, Zenon DEF ClientInv, AuthTypeOK
<1>5. OneAtATime'
  BY <1>1, Zenon DEF OneAtATime, MaySubmit
<1>6. TypeIsKept' /\ NothingBefore'
  BY <1>2, Zenon DEF ClientInv, TypeIsKept, NothingBefore, ResultMails
<1>7. NoCodes'
  BY <1>2, Zenon DEF ClientInv, NoCodes
<1>8. StoredFirst'
  BY <1>2, Zenon DEF ClientInv, StoredFirst, LogsIn
<1>9. OkIsStored'
  BY <1>3, Zenon DEF ClientInv, OkIsStored
<1> QED BY <1>4, <1>5, <1>6, <1>7, <1>8, <1>9, ZenonT(60) DEF ClientInv

LEMMA HandlePendingKeeps ==
  ASSUME ClientInv, HandlePending
  PROVE  ClientInv'
<1>1. mailbox \in Seq(Mails)
  BY Zenon DEF ClientInv, AuthTypeOK
<1>2. /\ pendingCode => mailbox' = Append(mailbox, "code")
      /\ pendingPassword => mailbox' = Append(mailbox, "password")
      /\ ~pendingCode /\ ~pendingPassword => mailbox' = mailbox
  <2>1. pendingCode => ~pendingPassword
    BY Zenon DEF ClientInv, OneAtATime
  <2>2. mailbox \o <<>> = mailbox
    BY <1>1, SMTT(60)
  <2>3. \A m \in {"code", "password"} :
          mailbox \o <<m>> = Append(mailbox, m) /\ Append(mailbox, m) \in Seq(Mails)
    <3>1. \A m \in {"code", "password"} : m \in Mails
      BY Zenon DEF Mails
    <3> QED BY <1>1, <3>1, AppendIsConcat, AppendProperties, ZenonT(60)
  <2>4. Append(mailbox, "code") \o <<>> = Append(mailbox, "code")
    BY <2>3, ConcatEmptySeq, ZenonT(60)
  <2> QED BY <2>1, <2>2, <2>3, <2>4, ZenonT(60) DEF HandlePending, TakesCode
<1>3. /\ UNCHANGED <<db, account, state, told, netQueryType, query, retryAt, saved>>
      /\ pendingCode' = FALSE /\ pendingPassword' = FALSE /\ pc = "pending" /\ pc' = "head"
  BY Zenon DEF HandlePending, PendingAfterwards, authVars
<1>4. CASE pendingCode \/ pendingPassword
  <2>1. PICK m \in {"code", "password"} : mailbox' = Append(mailbox, m)
    BY <1>2, <1>4, Zenon
  <2>2. /\ OnlyLost(mailbox) /\ query = {} /\ retryAt = FALSE /\ ~MaySubmit
        /\ account.kind \notin {"bot", "known"} /\ state # "None"
    BY <1>4, Zenon DEF ClientInv, AuthTypeOK, OneAtATime, NoCodes, NothingBefore
  <2>3. m \in Mails /\ m \notin ResultMails /\ m # "lost" /\ m # "ok" /\ ActorAlive
    BY <1>3, Zenon DEF Mails, ResultMails, ActorAlive
  <2> QED BY <1>1, <1>3, <2>1, <2>2, <2>3, MailKeeps, ZenonT(60)
<1>5. CASE ~pendingCode /\ ~pendingPassword
  <2>1. pendingCode' = pendingCode /\ pendingPassword' = pendingPassword
    BY <1>3, <1>5, ZenonT(60) DEF ClientInv, AuthTypeOK
  <2> QED BY <1>2, <1>3, <1>5, <2>1, MoveKeeps, ZenonT(60) DEF authVars, ActorAlive
<1> QED BY <1>4, <1>5, Zenon

LEMMA KindOfAccount ==
  ASSUME account \in [kind : Kinds, home : Dcs]
  PROVE  account.kind \in Kinds
  BY Zenon

LEMMA AnswerKeeps ==
  ASSUME ClientInv, NEW q \in query, Answer(q) \/ Fail(q)
  PROVE  ClientInv'
<1>1. /\ query = {q} /\ OnlyLost(mailbox) /\ mailbox \in Seq(Mails) /\ retryAt = FALSE /\ ~MaySubmit
      /\ pendingCode = FALSE /\ pendingPassword = FALSE /\ state # "None"
      /\ q.type = netQueryType /\ netQueryType # "None" /\ pc # "idle"
  <2>1. query \subseteq [type : QueryTypes, stage : {"sent", "stored"}] /\ q.type = netQueryType
    BY Zenon DEF ClientInv, AuthTypeOK, TypeIsKept
  <2>2. q.type # "None"
    BY <2>1, ZenonT(60) DEF QueryTypes
  <2> QED BY <2>1, <2>2, ZenonT(60) DEF ClientInv, AuthTypeOK, OneAtATime, NothingBefore
<1>2. /\ UNCHANGED <<db, account, state, told, netQueryType, retryAt, saved, pc>>
      /\ pendingCode' = FALSE /\ pendingPassword' = FALSE /\ query' = {}
      /\ ActorAlive' => ActorAlive
  BY <1>1, Zenon DEF Answer, Fail, netUnchanged, runVars, ActorAlive
<1>3. CASE Answer(q)
  <2>1. PICK m \in {"ok", "password needed"} :
          /\ mailbox' = Append(mailbox, m)
          /\ m = "ok" => ~(q.type = "SignIn" /\ account.kind = "phone2fa")
    BY <1>3, Zenon DEF Answer
  <2>2. m = "ok" => /\ netQueryType = "SignIn" => account.kind = "phone"
                    /\ LogsIn([type |-> netQueryType]) => account.home \in db.keys
    <3>1. LogsIn([type |-> netQueryType]) => LogsIn(q)
      BY <1>1, ZenonT(60) DEF LogsIn
    <3>2. LogsIn(q) => account.home \in db.keys
      BY <1>3, Zenon DEF Answer, ReturnedWhen, ClientInv, StoredFirst
    <3>3. netQueryType = "SignIn" => account.kind \notin {"bot", "known"}
      BY Zenon DEF ClientInv, NoCodes
    <3>4. netQueryType = "SignIn" => account.kind \in {"phone", "phone2fa"}
      <4>1. account \in [kind : Kinds, home : Dcs]
        BY Zenon DEF ClientInv, AuthTypeOK
      <4>2. account.kind \in Kinds
        BY <4>1, KindOfAccount, Zenon
      <4> QED BY <3>3, <4>2, ZenonT(60) DEF Kinds
    <3> QED BY <1>1, <2>1, <3>1, <3>2, <3>4, ZenonT(60)
  <2>3. m \in Mails /\ m # "lost" /\ m \notin {"code", "password"}
    BY Zenon DEF Mails
  <2> QED BY <1>1, <1>2, <2>1, <2>2, <2>3, MailKeeps, ZenonT(60)
<1>4. CASE mailbox' = Append(mailbox, "error")
  <2>1. "error" \in Mails
    BY Zenon DEF Mails
  <2> QED BY <1>1, <1>2, <1>4, <2>1, MailKeeps, ZenonT(60)
<1>5. CASE mailbox' = mailbox \o <<"lost", "error">>
  <2>1. "error" \in Mails /\ "lost" \in Mails
    BY Zenon DEF Mails
  <2> DEFINE mb == Append(mailbox, "lost")
  <2>2. mb \in Seq(Mails) /\ OnlyLost(mb)
    <3>1. Appended(mailbox, "lost", mb)
      BY <1>1, <2>1, MailAppended, ZenonT(60)
    <3> QED BY <1>1, <3>1, Zenon DEF Appended
  <2>3. mailbox' = Append(mb, "error")
    BY <1>1, <1>5, <2>1, SMTT(60)
  <2>4. mb = Append(mailbox, "lost")
    BY Zenon
  <2> HIDE DEF mb
  <2> QED BY <1>1, <1>2, <2>1, <2>2, <2>3, <2>4, MailKeeps, ZenonT(60)
<1> QED BY <1>3, <1>4, <1>5, ZenonT(60) DEF Fail

LEMMA SubmitKeeps ==
  ASSUME ClientInv, SubmitAuthCode \/ SubmitPassword
  PROVE  ClientInv'
<1>1. /\ MaySubmit /\ query = {} /\ OnlyLost(mailbox) /\ OneMail(mailbox) /\ retryAt = FALSE
      /\ pendingCode = FALSE /\ pendingPassword = FALSE
      /\ account.kind \notin {"bot", "known"} /\ state # "None"
  <2>1. MaySubmit
    BY Zenon DEF SubmitAuthCode, SubmitPassword, MaySubmit
  <2> QED BY <2>1, Zenon DEF ClientInv, AuthTypeOK, OneAtATime, NoCodes, NothingBefore, MaySubmit
<1>2. /\ UNCHANGED <<pc, db, account, state, netQueryType, retryAt, query, mailbox, saved>>
      /\ told' = "none"
      /\ \/ pendingCode' = TRUE /\ pendingPassword' = FALSE
         \/ pendingCode' = FALSE /\ pendingPassword' = TRUE
  BY <1>1, Zenon DEF SubmitAuthCode, SubmitPassword, userUnchanged
<1>3. AuthTypeOK' /\ NothingBefore' /\ NoCodes'
  BY <1>1, <1>2, Zenon DEF ClientInv, AuthTypeOK, NothingBefore, NoCodes
<1>4. OneAtATime'
  BY <1>1, <1>2, Zenon DEF OneAtATime, MaySubmit, OnlyLost, OneMail
<1>5. TypeIsKept' /\ StoredFirst' /\ OkIsStored'
  BY <1>2, ZenonT(60) DEF ClientInv, TypeIsKept, StoredFirst, OkIsStored, LogsIn, LostAfter, ActorAlive
<1> QED BY <1>3, <1>4, <1>5, Zenon DEF ClientInv

LEMMA LostKeeps ==
  ASSUME ClientInv, OnAuthorizationLost
  PROVE  ClientInv'
<1>1. Taken(mailbox, mailbox')
  BY MailTaken, Zenon DEF ClientInv, AuthTypeOK, OnAuthorizationLost, IsNext, Take
<1>2. /\ UNCHANGED <<pc, pendingCode, pendingPassword, db, netQueryType, retryAt, query, told,
                     account, saved>>
      /\ state' = "LoggingOut" /\ pc # "idle"
  BY Zenon DEF OnAuthorizationLost, runVars, IsNext, Acts
<1>3. \A i \in DOMAIN mailbox' : \E k \in DOMAIN mailbox :
        mailbox'[i] = mailbox[k] /\ (LostAfter(mailbox, k) => LostAfter(mailbox', i))
  BY <1>1, Zenon DEF Taken
<1>4. AuthTypeOK' /\ NothingBefore' /\ NoCodes' /\ OkIsStored'
  BY <1>1, <1>2, <1>3, ZenonT(60) DEF ClientInv, AuthTypeOK, AuthStates, NothingBefore, NoCodes, Taken,
       OkIsStored
<1>5. OneAtATime'
  BY <1>1, <1>2, Zenon DEF ClientInv, OneAtATime, MaySubmit, Taken
<1>6. TypeIsKept' /\ StoredFirst'
  BY <1>2, <1>3, Zenon DEF ClientInv, TypeIsKept, StoredFirst, LogsIn
<1> QED BY <1>4, <1>5, <1>6, Zenon DEF ClientInv

LEMMA LoseAuthorizationKeeps ==
  ASSUME ClientInv, LoseAuthorization
  PROVE  ClientInv'
<1>1. Appended(mailbox, "lost", mailbox')
  <2>1. "lost" \in Mails
    BY Zenon DEF Mails
  <2> QED BY <2>1, MailAppended, Zenon DEF ClientInv, AuthTypeOK, LoseAuthorization
<1>2. /\ UNCHANGED <<pc, pendingCode, pendingPassword, state, netQueryType, retryAt, query, told,
                     account, saved>>
      /\ pc # "idle" /\ \A q \in query : q.stage = "sent"
  BY Zenon DEF LoseAuthorization, netUnchanged, runVars, ActorAlive
<1>3. db' \in Databases /\ db'.keys \subseteq {}
  <2>1. db \in Databases
    BY Zenon DEF ClientInv, AuthTypeOK
  <2> QED BY <2>1, ZenonT(60) DEF LoseAuthorization, Databases
<1>4. AuthTypeOK' /\ NothingBefore' /\ NoCodes'
  BY <1>1, <1>2, <1>3, ZenonT(60) DEF ClientInv, AuthTypeOK, NothingBefore, NoCodes, Appended
<1>5. OneAtATime'
  BY <1>1, <1>2, Zenon DEF ClientInv, OneAtATime, MaySubmit, Appended
<1>6. TypeIsKept' /\ OkIsStored'
  BY <1>1, <1>2, Zenon DEF ClientInv, TypeIsKept, OkIsStored, Appended, ResultMails
<1>7. StoredFirst'
  BY <1>1, <1>2, <1>3, Zenon DEF ClientInv, StoredFirst, LogsIn, Appended
<1> QED BY <1>4, <1>5, <1>6, <1>7, ZenonT(60) DEF ClientInv

\* A query moves to another data center, or its authorization is stored.
LEMMA StoreKeeps ==
  ASSUME ClientInv, NEW q \in query, Migrate(q) \/ StealAuthorization(q)
  PROVE  ClientInv'
<1>1. /\ query = {q} /\ OnlyLost(mailbox) /\ OneMail(mailbox) /\ retryAt = FALSE /\ ~MaySubmit
      /\ pendingCode = FALSE /\ pendingPassword = FALSE /\ state # "None"
      /\ q.type = netQueryType /\ q \in [type : QueryTypes, stage : {"sent", "stored"}]
  BY ZenonT(60) DEF ClientInv, AuthTypeOK, OneAtATime, TypeIsKept, NothingBefore
<1>2. UNCHANGED <<pc, pendingCode, pendingPassword, state, netQueryType, retryAt, told, account,
                  saved, mailbox>>
  BY Zenon DEF Migrate, StealAuthorization, netUnchanged, runVars
<1>3. /\ db' \in Databases /\ db.keys \subseteq db'.keys /\ db'.keys \subseteq {account.home}
      /\ StealAuthorization(q) => account.home \in db'.keys
  <2>1. db \in Databases /\ db.keys \subseteq {account.home} /\ account \in [kind : Kinds, home : Dcs]
    BY Zenon DEF ClientInv, AuthTypeOK, StoredFirst
  <2> QED BY <2>1, SMTT(60) DEF Migrate, MovesTo, StealAuthorization, Databases
<1>4. PICK p : /\ query' = {p} /\ p \in [type : QueryTypes, stage : {"sent", "stored"}]
               /\ p.type = q.type
               /\ p.stage = "stored" => q.stage = "stored" \/ StealAuthorization(q)
  <2>1. CASE Migrate(q)
    BY <1>1, <2>1, Zenon DEF Migrate
  <2>2. CASE StealAuthorization(q)
    <3>1. query' = {[q EXCEPT !.stage = "stored"]}
      BY <1>1, <2>2, Zenon DEF StealAuthorization
    <3>2. /\ [q EXCEPT !.stage = "stored"] \in [type : QueryTypes, stage : {"sent", "stored"}]
          /\ [q EXCEPT !.stage = "stored"].type = q.type
      BY <1>1, Zenon
    <3> QED BY <2>2, <3>1, <3>2, Zenon
  <2> QED BY <2>1, <2>2, Zenon
<1>5. AuthTypeOK' /\ NothingBefore' /\ NoCodes'
  BY <1>1, <1>2, <1>3, <1>4, ZenonT(60) DEF ClientInv, AuthTypeOK, NothingBefore, NoCodes
<1>6. OneAtATime'
  BY <1>1, <1>2, <1>4, Zenon DEF OneAtATime, MaySubmit, OnlyLost, OneMail
<1>7. TypeIsKept' /\ OkIsStored'
  BY <1>1, <1>2, <1>3, <1>4, ZenonT(60) DEF ClientInv, TypeIsKept, OkIsStored, ActorAlive
<1>8. StoredFirst'
  BY <1>1, <1>2, <1>3, <1>4, ZenonT(60) DEF ClientInv, StoredFirst, LogsIn, OnlyLost
<1> QED BY <1>5, <1>6, <1>7, <1>8, ZenonT(60) DEF ClientInv

\* What a client is when it is made.
AsNew ==
  /\ pendingCode = FALSE /\ pendingPassword = FALSE /\ state = "None" /\ netQueryType = "None"
  /\ retryAt = FALSE /\ query = {} /\ mailbox = <<>> /\ told = "none"
  /\ account \in [kind : Kinds, home : Dcs] /\ db \in Databases /\ saved \in Databases
  /\ db.keys \subseteq {account.home} /\ saved.keys \subseteq {account.home}

LEMMA NewIsGood == AsNew => ClientInv
<1> SUFFICES ASSUME AsNew PROVE ClientInv
  BY Zenon
<1>1. mailbox \in Seq(Mails) /\ DOMAIN mailbox = {}
  BY SMTT(60) DEF AsNew
<1>2. ~MaySubmit
  BY Zenon DEF AsNew, MaySubmit
<1>3. AuthTypeOK /\ NothingBefore /\ NoCodes
  BY <1>1, Zenon DEF AsNew, AuthTypeOK, AuthStates, NothingBefore, NoCodes, OnlyLost
<1>4. OneAtATime /\ TypeIsKept
  BY <1>1, <1>2, Zenon DEF AsNew, OneAtATime, TypeIsKept, OnlyLost, OneMail
<1>5. StoredFirst /\ OkIsStored
  BY <1>1, ZenonT(60) DEF AsNew, StoredFirst, OkIsStored
<1> QED BY <1>3, <1>4, <1>5, ZenonT(60) DEF ClientInv

LEMMA NoDbIsDatabase == NoDb \in Databases /\ NoDb.keys = {}
  BY Zenon DEF NoDb, Databases

LEMMA RunStarts ==
  ASSUME ClientInv, Run \/ Create
  PROVE  ClientInv'
<1>1. AsNew'
  <2>1. /\ account \in [kind : Kinds, home : Dcs] /\ account' = account /\ saved' = saved
        /\ saved \in Databases /\ saved.keys \subseteq {account.home}
    BY Zenon DEF ClientInv, AuthTypeOK, StoredFirst, Run, Create
  <2>2. CASE Create
    BY <2>1, <2>2, NoDbIsDatabase, ZenonT(60) DEF AsNew, Create, Fresh
  <2>3. CASE Run
    <3>1. /\ state = "None" /\ mailbox = <<>>
          /\ query = {} /\ told = "none" /\ netQueryType = "None"
          /\ pendingCode = FALSE /\ pendingPassword = FALSE /\ retryAt = FALSE
      BY <2>3, Zenon DEF ClientInv, AuthTypeOK, NothingBefore, Run
    <3> QED BY <2>1, <2>3, <3>1, ZenonT(60) DEF AsNew, Run, authVars
  <2> QED BY <2>2, <2>3, Zenon
<1> QED BY <1>1, NewIsGood, PTL

LEMMA ClientInitially == Init => ClientInv
<1>1. Init => AsNew
  BY NoDbIsDatabase, Zenon DEF Init, AsNew
<1> QED BY <1>1, NewIsGood, Zenon

LEMMA ClientStep == ClientInv /\ [Next]_vars => ClientInv'
<1> SUFFICES ASSUME ClientInv, [Next]_vars PROVE ClientInv'
  BY Zenon
<1>1. CASE Run \/ Create
  BY <1>1, RunStarts, Zenon
<1>2. CASE RunMainReturns \/ LoopHead \/ Start \/ Stop \/ UpdatesTooLong \/ OnGetStateResult
             \/ OnGetDifferenceResult
  BY <1>2, RunKeeps, Zenon
<1>3. CASE HandlePending
  BY <1>3, HandlePendingKeeps, Zenon
<1>4. CASE StartUp
  BY <1>4, StartUpKeeps, Zenon
<1>5. CASE CheckCode \/ CheckPassword
  BY <1>5, CheckKeeps, ZenonT(60)
<1>6. CASE OnAuthorizationLost
  BY <1>6, LostKeeps, Zenon
<1>7. CASE OnResultError \/ OnPasswordNeeded \/ OnResultOk
  BY <1>7, ResultKeeps, ZenonT(60)
<1>8. CASE TimeoutExpired
  BY <1>8, TimeoutKeeps, Zenon
<1>9. CASE \E q \in query : Migrate(q) \/ StealAuthorization(q)
  BY <1>9, StoreKeeps, Zenon
<1>10. CASE \E q \in query : Answer(q) \/ Fail(q)
  BY <1>10, AnswerKeeps, ZenonT(60)
<1>11. CASE LoseAuthorization
  BY <1>11, LoseAuthorizationKeeps, Zenon
<1>12. CASE SubmitAuthCode \/ SubmitPassword
  BY <1>12, SubmitKeeps, Zenon
<1>13. CASE UNCHANGED vars
  BY <1>13, MoveKeeps, ZenonT(60) DEF vars, runVars, authVars, ActorAlive
<1> QED
  BY <1>1, <1>2, <1>3, <1>4, <1>5, <1>6, <1>7, <1>8, <1>9, <1>10, <1>11, <1>12, <1>13, ZenonT(60)
  DEF Next, RunStep, AuthStep, NetStep

LEMMA ClientInvariant == Spec => []ClientInv
  BY ClientInitially, ClientStep, PTL DEF Spec

\* A set all of whose elements are equal has at most one.
LEMMA AtMostOne ==
  ASSUME NEW S, \A x, y \in S : x = y
  PROVE  /\ S = {} => Cardinality(S) = 0
         /\ Cardinality(S) \in {0, 1}
<1>1. CASE S = {}
  BY <1>1, FS_EmptySet, Zenon
<1>2. CASE S # {}
  <2>1. PICK x \in S : TRUE
    BY <1>2, Zenon
  <2>2. S = {x}
    BY <2>1, Zenon
  <2> QED BY <1>2, <2>2, FS_Singleton, ZenonT(60)
<1> QED BY <1>1, <1>2, Zenon

\* An answer is taken for no other's: on_result, which does not look at the id of
\* the query, finds at most one query or answer of AuthManager under way, and its
\* type in net_query_type_.
THEOREM AnswersAreExpected == Spec => []AnswerIsExpected
<1>1. ClientInv => AnswerIsExpected
  <2> SUFFICES ASSUME ClientInv PROVE AnswerIsExpected
    BY Zenon
  <2>1. \A p, q \in query : p = q
    BY Zenon DEF ClientInv, OneAtATime
  <2>2. \A i, j \in Results : i = j
    BY Zenon DEF ClientInv, OneAtATime, OneMail, Results
  <2>3. query = {} \/ Results = {}
    BY Zenon DEF ClientInv, OneAtATime, OnlyLost, Results
  <2>4. /\ \A q \in query : q.type = netQueryType
        /\ Results # {} => netQueryType # "None"
    BY Zenon DEF ClientInv, TypeIsKept, Results, ResultMails
  <2>5. /\ Cardinality(query) \in {0, 1} /\ (query = {} => Cardinality(query) = 0)
        /\ Cardinality(Results) \in {0, 1} /\ (Results = {} => Cardinality(Results) = 0)
    BY <2>1, <2>2, AtMostOne, ZenonT(60)
  <2>6. Cardinality(query) + Cardinality(Results) <= 1
    BY <2>3, <2>5, SMTT(60)
  <2> QED BY <2>4, <2>6, Zenon DEF AnswerIsExpected
<1> QED BY <1>1, ClientInvariant, PTL

\* A client that says Ok has its authorization in the database, or the message
\* that takes it away is on its way to AuthManager.
THEOREM OkMeansStored == Spec => []OkIsStored
<1>1. ClientInv => OkIsStored
  BY Zenon DEF ClientInv
<1> QED BY <1>1, ClientInvariant, PTL

----------------------------------------------------------------------------
\* The dispatcher has the main data center of its database, and an authorization
\* is one of the main data center.
MainIsHome ==
  /\ mainDc = DispatcherMain(db)
  /\ db.keys # {} => mainDc = account.home
  /\ saved.keys # {} => DispatcherMain(saved) = account.home

LEMMA MainMoves ==
  ASSUME ClientInv, MainIsHome, NEW q \in query, Migrate(q) \/ StealAuthorization(q)
  PROVE  mainDc' = DispatcherMain(db') /\ (db'.keys # {} => mainDc' = account.home)
<1>1. db \in Databases /\ account \in [kind : Kinds, home : Dcs]
  BY Zenon DEF ClientInv, AuthTypeOK
<1>2. account.home # 0
  BY <1>1, ClientAssumption, Zenon
<1>3. CASE Migrate(q)
  BY <1>1, <1>2, <1>3, ZenonT(60) DEF Migrate, MovesTo, MainIsHome, DispatcherMain, Databases
<1>4. CASE StealAuthorization(q)
  BY <1>1, <1>4, ZenonT(60) DEF StealAuthorization, MainIsHome, DispatcherMain, Databases
<1> QED BY <1>3, <1>4, Zenon

LEMMA MainIsHomeStep == ClientInv /\ MainIsHome /\ [Next]_vars => MainIsHome'
<1> SUFFICES ASSUME ClientInv, MainIsHome, [Next]_vars PROVE MainIsHome'
  BY Zenon
<1>1. ASSUME NEW q \in query, Migrate(q) \/ StealAuthorization(q) PROVE MainIsHome'
  <2>1. saved' = saved /\ account' = account
    BY <1>1, Zenon DEF Migrate, StealAuthorization, netUnchanged
  <2> QED BY <1>1, <2>1, MainMoves, ZenonT(60) DEF MainIsHome, DispatcherMain
<1>2. CASE LoseAuthorization
  <2>1. db \in Databases
    BY Zenon DEF ClientInv, AuthTypeOK
  <2>2. db'.main = db.main /\ db'.keys = {}
    BY <1>2, <2>1, ZenonT(60) DEF LoseAuthorization, Databases
  <2> QED BY <1>2, <2>2, Zenon DEF LoseAuthorization, netUnchanged, MainIsHome, DispatcherMain
<1>3. CASE Run \/ Create
  <2>1. NoDb.main = 0 /\ NoDb.keys = {}
    BY Zenon DEF NoDb
  <2> QED BY <1>3, <2>1, ZenonT(60) DEF Run, Create, Fresh, MainIsHome, DispatcherMain
<1>4. CASE UNCHANGED <<db, mainDc, account>> /\ saved' \in {saved, db}
  BY <1>4, Zenon DEF MainIsHome, DispatcherMain
<1>5. CASE StartUp \/ OnResultOk
  <2>1. UNCHANGED <<db, mainDc, account>> /\ saved' \in {saved, db}
    BY <1>5, Zenon DEF StartUp, OnResultOk, NotifyOk, ExportSession, ActorAlive, IsNext, Acts
  <2> QED BY <1>4, <2>1, Zenon
<1>6. CASE Start \/ LoopHead \/ RunMainReturns \/ HandlePending \/ CheckCode \/ CheckPassword
             \/ OnAuthorizationLost \/ OnResultError \/ OnPasswordNeeded \/ TimeoutExpired
  <2>1. UNCHANGED <<db, mainDc, account, saved>>
    BY <1>6, ZenonT(60) DEF Start, LoopHead, RunMainReturns, HandlePending, CheckCode, CheckPassword,
         OnAuthorizationLost, OnResultError, OnPasswordNeeded, TimeoutExpired
  <2> QED BY <1>4, <2>1, Zenon
<1>7. CASE UpdatesTooLong \/ OnGetStateResult \/ OnGetDifferenceResult \/ Stop \/ SubmitAuthCode
             \/ SubmitPassword \/ UNCHANGED vars
  <2>1. UNCHANGED <<db, mainDc, account, saved>>
    BY <1>7, Zenon DEF UpdatesTooLong, OnGetStateResult, OnGetDifferenceResult, Stop, SubmitAuthCode,
         SubmitPassword, userUnchanged, vars
  <2> QED BY <1>4, <2>1, Zenon
<1>8. ASSUME NEW q \in query, Answer(q) \/ Fail(q) PROVE MainIsHome'
  <2>1. UNCHANGED <<db, mainDc, account, saved>>
    BY <1>8, Zenon DEF Answer, Fail, netUnchanged
  <2> QED BY <1>4, <2>1, Zenon
<1> QED BY <1>1, <1>2, <1>3, <1>5, <1>6, <1>7, <1>8, ZenonT(60) DEF Next, RunStep, AuthStep, NetStep

\* start_up of a client with an authorization finds it, if init() looks for the
\* main data center where the dispatcher does.
LEMMA RestoredStartsOk ==
  ASSUME OptionDc = DefaultDc, ClientInv, MainIsHome, [Next]_vars
  PROVE  [state = "None" /\ state' # "None" /\ db.keys # {} => state' = "Ok"]_vars
<1> SUFFICES ASSUME state = "None", state' # "None", db.keys # {} PROVE state' = "Ok"
  BY Zenon
<1>1. EffectiveDc(db) \in db.keys
  <2>1. EffectiveDc(db) = account.home
    BY Zenon DEF MainIsHome, DispatcherMain, EffectiveDc
  <2> QED BY <2>1, Zenon DEF ClientInv, StoredFirst
<1>2. query = {}
  BY Zenon DEF ClientInv, NothingBefore
<1>3. CASE StartUp
  BY <1>1, <1>3, ZenonT(60) DEF StartUp, NotifyOk
<1>4. CASE RunStep \/ Create \/ UNCHANGED vars
  BY <1>4, ZenonT(60) DEF RunStep, Run, Start, LoopHead, RunMainReturns, HandlePending, Create, Fresh,
       vars, authVars
<1>5. CASE CheckCode \/ CheckPassword \/ OnAuthorizationLost \/ OnResultError \/ OnPasswordNeeded
             \/ OnResultOk \/ TimeoutExpired
  <2>1. ~retryAt
    BY Zenon DEF ClientInv, NothingBefore
  <2> QED BY <1>5, <2>1, ZenonT(60) DEF CheckCode, CheckPassword, OnAuthorizationLost, OnResultError,
            OnPasswordNeeded, OnResultOk, TimeoutExpired, IsNext
<1>6. CASE UpdatesTooLong \/ OnGetStateResult \/ OnGetDifferenceResult \/ LoseAuthorization \/ Stop
             \/ SubmitAuthCode \/ SubmitPassword
  BY <1>6, Zenon DEF UpdatesTooLong, OnGetStateResult, OnGetDifferenceResult, LoseAuthorization, Stop,
       SubmitAuthCode, SubmitPassword, userUnchanged, netUnchanged, authVars
<1> QED BY <1>2, <1>3, <1>4, <1>5, <1>6, ZenonT(60) DEF Next, AuthStep, NetStep

\* A client that is given the session data of an authorized one does not log in
\* again, if Options::dc_id is the data center that the dispatcher takes when the
\* database names none.  (The run client_restore shows a login when it is not.)
THEOREM RestoredNeedsNoLogin == OptionDc = DefaultDc => (Spec => RestoredSkipsLogin)
<1> SUFFICES ASSUME OptionDc = DefaultDc PROVE Spec => RestoredSkipsLogin
  BY Zenon
<1>1. Init => MainIsHome
  <2>1. NoDb.main = 0 /\ NoDb.keys = {}
    BY Zenon DEF NoDb
  <2> QED BY <2>1, Zenon DEF Init, MainIsHome, DispatcherMain
<1>2. ClientInv /\ MainIsHome /\ [Next]_vars =>
        [state = "None" /\ state' # "None" /\ db.keys # {} => state' = "Ok"]_vars
  BY RestoredStartsOk, Zenon
<1> QED BY <1>1, <1>2, ClientInvariant, MainIsHomeStep, PTL DEF Spec, RestoredSkipsLogin

=============================================================================
